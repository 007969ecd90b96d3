-------------------------- MODULE Scheduler_proofs --------------------------
(***************************************************************************)
(* Proofs about Scheduler, for every number of pids, every limit and every *)
(* set of exit codes.                                                      *)
(***************************************************************************)
EXTENDS Scheduler, SequenceTheorems, TLAPS

(* The process list as a sequence *)

\* A function on 1..n is a sequence of length n.
LEMMA FunctionIsSeq ==
    ASSUME NEW S, NEW n \in Nat, NEW f \in [1..n -> S]
    PROVE  f \in Seq(S) /\ Len(f) = n /\ DOMAIN f = 1..n
  BY SeqDef, LenProperties

UniqueIn(s) == \A i, j \in 1..Len(s) : s[i].id = s[j].id => i = j

\* What the three rearrangements of the list do, element by element.
LEMMA MoveToFrontProperties ==
    ASSUME NEW S, NEW s \in Seq(S), NEW k \in 1..Len(s)
    PROVE  /\ MoveToFront(s, k) \in Seq(S)
           /\ Len(MoveToFront(s, k)) = Len(s)
           /\ MoveToFront(s, k)[1] = s[k]
           /\ \A i \in 2..k : MoveToFront(s, k)[i] = s[i-1]
           /\ \A i \in (k+1)..Len(s) : MoveToFront(s, k)[i] = s[i]
<1> DEFINE t == MoveToFront(s, k)
<1>1. Len(s) \in Nat /\ \A i \in 1..Len(s) : s[i] \in S
  BY ElementOfSeq, LenProperties
<1>2. t = [i \in 1..Len(s) |->
             IF i = 1 THEN s[k] ELSE IF i <= k THEN s[i-1] ELSE s[i]]
  BY DEF MoveToFront
<1>3. t \in [1..Len(s) -> S]
  BY <1>1, <1>2
<1>4. t \in Seq(S) /\ Len(t) = Len(s)
  BY <1>1, <1>3, FunctionIsSeq
<1> HIDE DEF t
<1>5. t[1] = s[k]
  BY <1>1, <1>2
<1>6. \A i \in 2..k : t[i] = s[i-1]
  BY <1>1, <1>2
<1>7. \A i \in (k+1)..Len(s) : t[i] = s[i]
  BY <1>1, <1>2
<1> QED
  BY <1>4, <1>5, <1>6, <1>7 DEF t

\* What rotate_left(1) does: the first element goes last, the others move up.
LEMMA RotateLeftProperties ==
    ASSUME NEW S, NEW s \in Seq(S), s # <<>>
    PROVE  /\ RotateLeft(s) \in Seq(S)
           /\ Len(RotateLeft(s)) = Len(s)
           /\ RotateLeft(s)[Len(s)] = s[1]
           /\ \A i \in 1..(Len(s) - 1) : RotateLeft(s)[i] = s[i+1]
<1> DEFINE t == RotateLeft(s)
<1>1. Len(s) \in Nat /\ Len(s) > 0 /\ \A i \in 1..Len(s) : s[i] \in S
  BY ElementOfSeq, LenProperties, EmptySeq
<1>2. t = [i \in 1..Len(s) |-> IF i < Len(s) THEN s[i+1] ELSE s[1]]
  BY DEF RotateLeft
<1>3. t \in [1..Len(s) -> S]
  BY <1>1, <1>2
<1>4. t \in Seq(S) /\ Len(t) = Len(s)
  BY <1>1, <1>3, FunctionIsSeq
<1> HIDE DEF t
<1>5. t[Len(s)] = s[1] /\ \A i \in 1..(Len(s) - 1) : t[i] = s[i+1]
  BY <1>1, <1>2
<1> QED
  BY <1>4, <1>5 DEF t

\* What removing one element does: the others keep their order.
LEMMA RemoveIndexProperties ==
    ASSUME NEW S, NEW s \in Seq(S), NEW k \in 1..Len(s)
    PROVE  /\ RemoveIndex(s, k) \in Seq(S)
           /\ Len(RemoveIndex(s, k)) = Len(s) - 1
           /\ \A i \in 1..(Len(s) - 1) :
                 RemoveIndex(s, k)[i] = IF i < k THEN s[i] ELSE s[i+1]
<1> DEFINE t == RemoveIndex(s, k)
           n == Len(s) - 1
<1>1. Len(s) \in Nat /\ n \in Nat /\ \A i \in 1..Len(s) : s[i] \in S
  BY ElementOfSeq, LenProperties
<1>2. t = [i \in 1..n |-> IF i < k THEN s[i] ELSE s[i+1]]
  BY DEF RemoveIndex
<1>3. t \in [1..n -> S]
  BY <1>1, <1>2
<1>4. t \in Seq(S) /\ Len(t) = n
  BY <1>1, <1>3, FunctionIsSeq
<1> HIDE DEF t
<1> QED
  BY <1>2, <1>4 DEF t

-----------------------------------------------------------------------------
(* Process records *)

\* Process::new makes a well-formed ready process without children.
LEMMA NewRecord ==
    ASSUME NEW pid \in Pids, NEW parent \in Pids \cup {Idle}
    PROVE  /\ ProcessNew(pid, parent) \in Process
           /\ ProcessNew(pid, parent).id = pid
           /\ ProcessNew(pid, parent).state = "Ready"
           /\ ProcessNew(pid, parent).parent_id = parent
  BY DEF ProcessNew, Process

\* add_child changes only the children of a record.
LEMMA AddChildRecord ==
    ASSUME NEW r \in Process, NEW child \in Pids
    PROVE  /\ AddChild(r, child) \in Process
           /\ AddChild(r, child).id = r.id
           /\ AddChild(r, child).state = r.state
           /\ AddChild(r, child).waiting_for = r.waiting_for
           /\ AddChild(r, child).parent_id = r.parent_id
<1>1. r.children \cup {child} \in SUBSET Pids /\ r.children_count + 1 \in Nat
  BY DEF Process
<1> QED
  BY <1>1 DEF AddChild, Process

\* remove_child changes only the children of a record.
LEMMA RemoveChildRecord ==
    ASSUME NEW r \in Process, NEW child
    PROVE  /\ RemoveChild(r, child) \in Process
           /\ RemoveChild(r, child).id = r.id
           /\ RemoveChild(r, child).state = r.state
           /\ RemoveChild(r, child).waiting_for = r.waiting_for
           /\ RemoveChild(r, child).parent_id = r.parent_id
<1> DEFINE n == IF r.children_count = 0 THEN 0 ELSE r.children_count - 1
<1>1. r.children \ {child} \in SUBSET Pids /\ n \in Nat
  BY DEF Process
<1>2. RemoveChild(r, child) =
        IF child \in r.children
        THEN [r EXCEPT !.children = r.children \ {child}, !.children_count = n]
        ELSE r
  BY DEF RemoveChild
<1> HIDE DEF n
<1> QED
  BY <1>1, <1>2 DEF Process

\* Waking a parent keeps everything but its state, and never makes it Running or
\* Zombie.
LEMMA WakeRecord ==
    ASSUME NEW r \in Process, NEW child
    PROVE  /\ Wake(r, child) \in Process
           /\ Wake(r, child).id = r.id
           /\ Wake(r, child).parent_id = r.parent_id
           /\ Wake(r, child).state # r.state =>
                 r.state = "Waiting" /\ Wake(r, child).state = "Ready"
           /\ Wake(r, child).state = "Waiting" =>
                 /\ Wake(r, child).waiting_for = r.waiting_for
                 /\ r.waiting_for \notin {child, AnyChild}
  BY DEF Wake, Process

\* The record of a process after another, or itself, has exited.
LEMMA AfterExitRecord ==
    ASSUME NEW r \in Process, NEW pid, NEW code \in Int, NEW parent, NEW kids
    PROVE  /\ AfterExit(r, pid, code, parent, kids) \in Process
           /\ AfterExit(r, pid, code, parent, kids).id = r.id
           /\ AfterExit(r, pid, code, parent, kids).parent_id =
                 IF r.id \in kids THEN Idle ELSE r.parent_id
           /\ r.id = pid => AfterExit(r, pid, code, parent, kids).state = "Zombie"
           /\ r.id # pid =>
                 AfterExit(r, pid, code, parent, kids).state \in {r.state, "Ready"}
           /\ AfterExit(r, pid, code, parent, kids).state = "Waiting" =>
                 /\ AfterExit(r, pid, code, parent, kids).waiting_for = r.waiting_for
                 /\ r.state = "Waiting"
                 /\ parent # Idle /\ r.id = parent =>
                      r.waiting_for \notin {pid, AnyChild}
<1> DEFINE exited   == IF r.id = pid
                       THEN [r EXCEPT !.state = "Zombie", !.waiting_for = Idle,
                                      !.exit_code = code]
                       ELSE r
           unlinked == IF parent # Idle /\ r.id = parent
                       THEN RemoveChild(exited, pid) ELSE exited
           orphaned == IF r.id \in kids
                       THEN [unlinked EXCEPT !.parent_id = Idle] ELSE unlinked
           final    == IF parent # Idle /\ r.id = parent
                       THEN Wake(orphaned, pid) ELSE orphaned
<1>1. final = AfterExit(r, pid, code, parent, kids)
  BY DEF AfterExit
<1>2. /\ exited \in Process /\ exited.id = r.id /\ exited.parent_id = r.parent_id
      /\ r.id = pid => exited.state = "Zombie"
      /\ r.id # pid => exited = r
  BY DEF Process
<1> HIDE DEF exited
<1>3. /\ unlinked \in Process /\ unlinked.id = r.id /\ unlinked.parent_id = r.parent_id
      /\ unlinked.state = exited.state /\ unlinked.waiting_for = exited.waiting_for
  BY <1>2, RemoveChildRecord
<1> HIDE DEF unlinked
<1>4. /\ orphaned \in Process /\ orphaned.id = r.id
      /\ orphaned.parent_id = IF r.id \in kids THEN Idle ELSE r.parent_id
      /\ orphaned.state = exited.state /\ orphaned.waiting_for = exited.waiting_for
  BY <1>3 DEF Process
<1> HIDE DEF orphaned
<1>5. /\ final \in Process /\ final.id = r.id
      /\ final.parent_id = IF r.id \in kids THEN Idle ELSE r.parent_id
  BY <1>4, WakeRecord
<1>6. r.id = pid => final.state = "Zombie"
  BY <1>2, <1>4, WakeRecord
<1>7. r.id # pid => final.state \in {r.state, "Ready"}
  BY <1>2, <1>4, WakeRecord
<1>8. final.state = "Waiting" =>
        /\ final.waiting_for = r.waiting_for
        /\ r.state = "Waiting"
        /\ parent # Idle /\ r.id = parent => r.waiting_for \notin {pid, AnyChild}
  <2> SUFFICES ASSUME final.state = "Waiting"
               PROVE  /\ final.waiting_for = r.waiting_for
                      /\ r.state = "Waiting"
                      /\ parent # Idle /\ r.id = parent =>
                           r.waiting_for \notin {pid, AnyChild}
    OBVIOUS
  <2>1. r.id # pid /\ exited = r
    BY <1>2, <1>6
  <2> QED
    BY <1>4, <2>1, WakeRecord
<1> HIDE DEF final
<1> QED
  BY <1>1, <1>5, <1>6, <1>7, <1>8

-----------------------------------------------------------------------------
(* The list invariant and the operations on the list that keep it *)

\* No two records of s share a pid; the record of cur, if there is one, is in
\* front; only that record may be Running.
ListInv(s, cur) ==
    /\ UniqueIn(s)
    /\ \A i \in 1..Len(s) : s[i].id = cur => i = 1
    /\ \A i \in 1..Len(s) : s[i].state = "Running" => i = 1 /\ s[i].id = cur

\* Updating records in place keeps the list invariant if ids stay and nothing starts
\* to run.
LEMMA ListInvUpdate ==
    ASSUME NEW s \in Seq(Process), NEW t \in Seq(Process), NEW cur, ListInv(s, cur),
           Len(t) = Len(s),
           \A i \in 1..Len(s) : /\ t[i].id = s[i].id
                                /\ t[i].state = "Running" => s[i].state = "Running"
    PROVE  ListInv(t, cur)
  BY DEF ListInv, UniqueIn

\* Appending a ready process with a new pid (add_process) keeps the list invariant.
LEMMA ListInvAppend ==
    ASSUME NEW s \in Seq(Process), NEW r \in Process, NEW cur, ListInv(s, cur),
           r.id # cur, r.state = "Ready", \A i \in 1..Len(s) : s[i].id # r.id
    PROVE  /\ Append(s, r) \in Seq(Process)
           /\ ListInv(Append(s, r), cur)
<1>1. /\ Append(s, r) \in Seq(Process)
      /\ Len(s) \in Nat /\ Len(Append(s, r)) = Len(s) + 1
      /\ Append(s, r)[Len(s) + 1] = r
      /\ \A i \in 1..Len(s) : Append(s, r)[i] = s[i]
  BY AppendProperties, LenProperties
<1> QED
  BY <1>1 DEF ListInv, UniqueIn

\* Removing a process that is not running (reaping, clean-up) keeps the list
\* invariant.
LEMMA ListInvRemove ==
    ASSUME NEW s \in Seq(Process), NEW k \in 1..Len(s), NEW cur, ListInv(s, cur),
           s[k].state # "Running"
    PROVE  /\ RemoveIndex(s, k) \in Seq(Process)
           /\ \A i \in 1..Len(RemoveIndex(s, k)) :
                 \E j \in 1..Len(s) : j # k /\ RemoveIndex(s, k)[i] = s[j]
           /\ ListInv(RemoveIndex(s, k), cur)
<1> DEFINE t == RemoveIndex(s, k)
<1>1. /\ t \in Seq(Process) /\ Len(t) = Len(s) - 1 /\ Len(s) \in Nat
      /\ \A i \in 1..(Len(s) - 1) : t[i] = IF i < k THEN s[i] ELSE s[i+1]
  BY RemoveIndexProperties, LenProperties
<1> HIDE DEF t
<1>2. UniqueIn(t)
  <2> SUFFICES ASSUME NEW i \in 1..(Len(s) - 1), NEW j \in 1..(Len(s) - 1),
                      t[i].id = t[j].id
               PROVE  i = j
    BY <1>1 DEF UniqueIn
  <2> DEFINE f(x) == IF x < k THEN x ELSE x + 1
  <2>1. f(i) \in 1..Len(s) /\ f(j) \in 1..Len(s) /\ t[i] = s[f(i)] /\ t[j] = s[f(j)]
    BY <1>1
  <2>2. f(i) = f(j)
    BY <2>1 DEF ListInv, UniqueIn
  <2> QED
    BY <1>1, <2>2
<1>3. \A i \in 1..Len(t) : t[i].id = cur => i = 1
  BY <1>1 DEF ListInv
<1>4. ASSUME NEW i \in 1..Len(t), t[i].state = "Running"
      PROVE  i = 1 /\ t[i].id = cur
  <2>1. CASE i < k
    BY <1>1, <1>4, <2>1 DEF ListInv
  <2>2. CASE ~(i < k)
    <3>0. i \in 1..(Len(s) - 1) /\ i + 1 \in 1..Len(s) /\ i + 1 # 1
      BY <1>1
    <3>1. t[i] = s[i+1] /\ i + 1 \in 1..Len(s) /\ i + 1 # 1
      BY <1>1, <2>2, <3>0
    <3> QED
      BY <1>4, <3>1 DEF ListInv
  <2> QED
    BY <2>1, <2>2
<1>5. \A i \in 1..Len(t) : \E j \in 1..Len(s) : j # k /\ t[i] = s[j]
  <2> TAKE i \in 1..Len(t)
  <2> DEFINE j == IF i < k THEN i ELSE i + 1
  <2>1. j \in 1..Len(s) /\ j # k /\ t[i] = s[j]
    BY <1>1
  <2> QED
    BY <2>1
<1> QED
  BY <1>1, <1>2, <1>3, <1>4, <1>5 DEF ListInv, t

\* Rotating a list in which nothing runs, and making its new front current, gives
\* the list invariant.
LEMMA ListInvRotate ==
    ASSUME NEW s \in Seq(Process), s # <<>>, UniqueIn(s),
           \A i \in 1..Len(s) : s[i].state # "Running"
    PROVE  /\ RotateLeft(s) \in Seq(Process) /\ Len(RotateLeft(s)) = Len(s)
           /\ RotateLeft(s)[1] \in Process
           /\ \A i \in 1..Len(s) : \E j \in 1..Len(s) : RotateLeft(s)[i] = s[j]
           /\ ListInv(RotateLeft(s), RotateLeft(s)[1].id)
<1> DEFINE t == RotateLeft(s)
           f(x) == IF x < Len(s) THEN x + 1 ELSE 1
<1>1. /\ t \in Seq(Process) /\ Len(t) = Len(s) /\ Len(s) \in Nat /\ Len(s) > 0
      /\ t[Len(s)] = s[1] /\ \A i \in 1..(Len(s) - 1) : t[i] = s[i+1]
  BY RotateLeftProperties, LenProperties, EmptySeq
<1> HIDE DEF t
<1>2. \A i \in 1..Len(s) : f(i) \in 1..Len(s) /\ t[i] = s[f(i)]
  BY <1>1
<1>3. UniqueIn(t)
  BY <1>1, <1>2 DEF UniqueIn
<1>4. \A i \in 1..Len(t) : t[i].id = t[1].id => i = 1
  BY <1>1, <1>3 DEF UniqueIn
<1>5. \A i \in 1..Len(t) : t[i].state # "Running"
  BY <1>1, <1>2
<1>6. t[1] \in Process
  BY <1>1, ElementOfSeq
<1>7. \A i \in 1..Len(s) : \E j \in 1..Len(s) : t[i] = s[j]
  BY <1>2
<1> QED
  BY <1>1, <1>3, <1>4, <1>5, <1>6, <1>7 DEF ListInv, t

\* Record new stands for the same process as old, and is neither newly a zombie
\* nor newly blocked.
From(new, old) ==
    /\ new.id = old.id
    /\ new.parent_id = old.parent_id
    /\ new.state = "Zombie" => old.state = "Zombie"
    /\ new.state = "Waiting" =>
         old.state = "Waiting" /\ new.waiting_for = old.waiting_for

\* The list after schedule has picked the record at k.
Switched(k) ==
    LET moved == MoveToFront(processes, k)
    IN  [i \in DOMAIN moved |->
           CASE i = 1 -> [moved[i] EXCEPT !.state = "Running"]
             [] i = 2 -> [moved[i] EXCEPT !.context_ptr = current,
                            !.state = IF @ = "Running" THEN "Ready" ELSE @]
             [] OTHER -> moved[i]]

\* Moving the first runnable process to the front and running it (schedule) gives
\* the list invariant for it.
LEMMA ListInvSwitch ==
    ASSUME processes \in Seq(Process), current \in Pids \cup {Idle},
           NEW k \in 1..Len(processes), ListInv(processes, current)
    PROVE  /\ Switched(k) \in Seq(Process) /\ Len(Switched(k)) = Len(processes)
           /\ Switched(k)[1].id = processes[k].id
           /\ \A i \in 1..Len(processes) : \E j \in 1..Len(processes) :
                 From(Switched(k)[i], processes[j])
           /\ ListInv(Switched(k), processes[k].id)
<1> DEFINE s == processes
           m == MoveToFront(s, k)
           t == Switched(k)
           f(x) == IF x = 1 THEN k ELSE IF x <= k THEN x - 1 ELSE x
<1>1. /\ m \in Seq(Process) /\ Len(m) = Len(s) /\ Len(s) \in Nat /\ DOMAIN m = 1..Len(s)
      /\ m[1] = s[k]
      /\ \A i \in 2..k : m[i] = s[i-1]
      /\ \A i \in (k+1)..Len(s) : m[i] = s[i]
  BY MoveToFrontProperties, LenProperties
<1>2. t = [i \in 1..Len(s) |->
             CASE i = 1 -> [m[i] EXCEPT !.state = "Running"]
               [] i = 2 -> [m[i] EXCEPT !.context_ptr = current,
                              !.state = IF @ = "Running" THEN "Ready" ELSE @]
               [] OTHER -> m[i]]
  BY <1>1 DEF Switched
<1> HIDE DEF m, t
<1>3. \A i \in 1..Len(s) : f(i) \in 1..Len(s) /\ m[i] = s[f(i)] /\ m[i] \in Process
  BY <1>1, ElementOfSeq
<1>4. ASSUME NEW i \in 1..Len(s)
      PROVE  /\ t[i] \in Process /\ t[i].id = m[i].id /\ t[i].parent_id = m[i].parent_id
             /\ t[i].state = "Running" => i = 1 \/ (i > 2 /\ m[i].state = "Running")
             /\ t[i].state = "Zombie" => m[i].state = "Zombie"
             /\ t[i].state = "Waiting" =>
                  m[i].state = "Waiting" /\ t[i].waiting_for = m[i].waiting_for
  <2>0. m[i] \in Process
    BY <1>3
  <2>a. t[i] = CASE i = 1 -> [m[i] EXCEPT !.state = "Running"]
                 [] i = 2 -> [m[i] EXCEPT !.context_ptr = current,
                                !.state = IF @ = "Running" THEN "Ready" ELSE @]
                 [] OTHER -> m[i]
    BY <1>2, Zenon
  <2>1. CASE i = 1
    <3>1. t[i] = [m[i] EXCEPT !.state = "Running"]
      BY <2>a, <2>1
    <3> QED
      BY <2>0, <2>1, <3>1 DEF Process
  <2>2. CASE i = 2
    <3> DEFINE st == IF m[i].state = "Running" THEN "Ready" ELSE m[i].state
    <3>1. t[i] = [m[i] EXCEPT !.context_ptr = current, !.state = st]
      BY <2>a, <2>2
    <3>2. st \in {"Ready", "Running", "Waiting", "Zombie"} /\ st # "Running"
          /\ (st = "Zombie" => m[i].state = "Zombie")
          /\ (st = "Waiting" => m[i].state = "Waiting")
      BY <2>0 DEF Process
    <3> HIDE DEF st
    <3> QED
      BY <2>0, <2>2, <3>1, <3>2 DEF Process
  <2>3. CASE i \notin {1, 2}
    <3>1. t[i] = m[i]
      BY <1>2, <2>3
    <3> QED
      BY <1>1, <2>0, <2>3, <3>1
  <2> QED
    BY <2>1, <2>2, <2>3
<1>5. t \in [1..Len(s) -> Process]
  BY <1>2, <1>4
<1>6. t \in Seq(Process) /\ Len(t) = Len(s)
  BY <1>1, <1>5, FunctionIsSeq
<1>7. UniqueIn(t)
  <2> SUFFICES ASSUME NEW i \in 1..Len(s), NEW j \in 1..Len(s), t[i].id = t[j].id
               PROVE  i = j
    BY <1>6 DEF UniqueIn
  <2>0. m[i].id = m[j].id
    BY <1>4
  <2>1. s[f(i)].id = s[f(j)].id
    BY <1>3, <2>0
  <2>2. f(i) = f(j)
    BY <1>3, <2>1 DEF ListInv, UniqueIn
  <2> QED
    BY <1>1, <2>2
<1>8. t[1].id = s[k].id /\ 1 \in 1..Len(t)
  BY <1>1, <1>4, <1>6
<1>9. \A i \in 1..Len(t) : t[i].id = s[k].id => i = 1
  BY <1>7, <1>8 DEF UniqueIn
<1>10. ASSUME NEW i \in 1..Len(t), t[i].state = "Running" PROVE i = 1
  <2> SUFFICES ASSUME i > 2, m[i].state = "Running" PROVE FALSE
    BY <1>4, <1>6, <1>10
  <2>1. f(i) = 1
    BY <1>3, <1>6 DEF ListInv
  <2> QED
    BY <1>1, <2>1
<1>11. \A i \in 1..Len(s) : \E j \in 1..Len(s) : From(t[i], s[j])
  <2> TAKE i \in 1..Len(s)
  <2> WITNESS f(i) \in 1..Len(s)
  <2> QED
    BY <1>3, <1>4 DEF From
<1> QED
  BY <1>6, <1>7, <1>8, <1>9, <1>10, <1>11 DEF ListInv, t

-----------------------------------------------------------------------------
(* The inductive invariant *)

Core == TypeOK /\ ListInv(processes, current) /\ AddressSpaceIsCurrent

\* What the type invariant says of the process list.
LEMMA ListFacts ==
    ASSUME TypeOK
    PROVE  /\ processes \in Seq(Process) /\ Len(processes) \in Nat
           /\ DOMAIN processes = 1..Len(processes)
           /\ \A i \in 1..Len(processes) : processes[i] \in Process
           /\ processes # <<>> => Len(processes) > 0
  BY LenProperties, ElementOfSeq, EmptySeq DEF TypeOK

\* The core invariant implies the three properties of the list and the CPU data.
LEMMA CoreImplies == Core => UniquePids /\ CurrentIsFront /\ RunningIsCurrent
  BY ListFacts DEF Core, ListInv, UniqueIn, UniquePids, CurrentIsFront, RunningIsCurrent

\* register_child on a list that satisfies the invariant.
LEMMA RegisterChildStep ==
    ASSUME TypeOK, NEW s \in Seq(Process), NEW child \in Pids, ListInv(s, current),
           RegisterChild(s, child)
    PROVE  /\ processes' \in Seq(Process) /\ Len(processes') = Len(s)
           /\ \A i \in 1..Len(s) : /\ processes'[i].id = s[i].id
                                    /\ processes'[i].state = s[i].state
                                    /\ processes'[i].waiting_for = s[i].waiting_for
                                    /\ processes'[i].parent_id = s[i].parent_id
           /\ ListInv(processes', current)
           /\ process_tree' \in [Pids -> Pids \cup {Idle, NoEntry}]
           /\ orphans' \in [Pids -> Nat]
<1>1. /\ Len(s) \in Nat /\ DOMAIN s = 1..Len(s)
      /\ \A i \in 1..Len(s) : s[i] \in Process
  BY LenProperties, ElementOfSeq
<1>2. processes' = [i \in 1..Len(s) |-> IF s[i].id = current
                                       THEN AddChild(s[i], child) ELSE s[i]]
  BY <1>1 DEF RegisterChild
<1>3. processes' \in [1..Len(s) -> Process]
  BY <1>1, <1>2, AddChildRecord
<1>4. processes' \in Seq(Process) /\ Len(processes') = Len(s)
  BY <1>1, <1>3, FunctionIsSeq
<1>5. \A i \in 1..Len(s) : /\ processes'[i].id = s[i].id
                           /\ processes'[i].state = s[i].state
                           /\ processes'[i].waiting_for = s[i].waiting_for
                           /\ processes'[i].parent_id = s[i].parent_id
  BY <1>1, <1>2, AddChildRecord
<1>6. ListInv(processes', current)
  BY <1>4, <1>5, ListInvUpdate
<1>7. process_tree' \in [Pids -> Pids \cup {Idle, NoEntry}]
  BY DEF RegisterChild, TypeOK
<1>8. orphans' \in [Pids -> Nat]
  BY DEF RegisterChild, TypeOK
<1> QED
  BY <1>4, <1>5, <1>6, <1>7, <1>8

\* Every record of the new list stems from a record of the old one.
Inherited == \A i \in 1..Len(processes') : \E j \in 1..Len(processes) :
                From(processes'[i], processes[j])

\* System call 57 keeps the core invariant; every process stays what it was.
LEMMA ForkCore == ASSUME Core, SysFork PROVE Core' /\ Inherited
<1>1. /\ processes' \in Seq(Process)
      /\ ListInv(processes', current)
      /\ process_tree' \in [Pids -> Pids \cup {Idle, NoEntry}]
      /\ orphans' \in [Pids -> Nat]
  BY RegisterChildStep DEF Core, TypeOK, SysFork
<1>2. next_pid' \in 1..(MaxPid + 1) /\ UNCHANGED <<current, cr3>>
  BY SchedulerAssumption DEF SysFork, Core, TypeOK, Pids
<1>3. Core'
  BY <1>1, <1>2 DEF Core, TypeOK, AddressSpaceIsCurrent
<1>4. Inherited
  <2>1. /\ Len(processes') = Len(processes)
        /\ \A i \in 1..Len(processes) :
              /\ processes'[i].id = processes[i].id
              /\ processes'[i].state = processes[i].state
              /\ processes'[i].waiting_for = processes[i].waiting_for
              /\ processes'[i].parent_id = processes[i].parent_id
    BY RegisterChildStep DEF Core, TypeOK, SysFork
  <2> QED
    BY <2>1 DEF Inherited, From
<1> QED
  BY <1>3, <1>4

\* The parent and the children that exit acts on, as in SysExit.
ExitParent ==
    IF Exists(current) THEN processes[PositionOf(current)].parent_id ELSE Idle

ExitKids == {c \in Pids : process_tree[c] = current}

\* What exit does to the list, the tree and the CPU data.
LEMMA ExitEffect ==
    ASSUME TypeOK, NEW code \in ExitCodes, SysExit(code)
    PROVE  /\ code \in Int
           /\ processes' \in Seq(Process) /\ Len(processes') = Len(processes)
           /\ \A i \in 1..Len(processes) :
                processes'[i] = AfterExit(processes[i], current, code, ExitParent, ExitKids)
           /\ process_tree' = [c \in Pids |-> IF c \in ExitKids THEN Idle
                                                               ELSE process_tree[c]]
           /\ orphans' \in [Pids -> Nat]
           /\ current' = Idle
           /\ UNCHANGED <<next_pid, cr3>>
<1> DEFINE listed == {c \in ExitKids : Exists(c)}
<1>1. /\ processes' = [i \in 1..Len(processes) |->
                         AfterExit(processes[i], current, code, ExitParent, ExitKids)]
      /\ process_tree' = [c \in Pids |-> IF c \in ExitKids THEN Idle ELSE process_tree[c]]
      /\ orphans' = [c \in Pids |-> IF c \in listed THEN orphans[c] + 1 ELSE orphans[c]]
      /\ current' = Idle
      /\ UNCHANGED <<next_pid, cr3>>
  BY ListFacts DEF SysExit, ExitParent, ExitKids
<1> HIDE DEF listed
<1>2. code \in Int
  BY SchedulerAssumption
<1>3. processes' \in [1..Len(processes) -> Process]
  BY <1>1, <1>2, ListFacts, AfterExitRecord
<1>4. processes' \in Seq(Process) /\ Len(processes') = Len(processes)
  BY <1>3, ListFacts, FunctionIsSeq
<1>5. orphans' \in [Pids -> Nat]
  BY <1>1 DEF TypeOK
<1> QED
  BY <1>1, <1>2, <1>4, <1>5

\* System call 0 keeps the core invariant.
LEMMA ExitCore == ASSUME NEW code \in ExitCodes, Core, SysExit(code) PROVE Core'
<1>0. TypeOK
  BY DEF Core
<1>3. \A i \in 1..Len(processes) :
         /\ processes'[i].id = processes[i].id /\ processes'[i].id # Idle
         /\ processes'[i].state # "Running"
  <2> TAKE i \in 1..Len(processes)
  <2> DEFINE r == AfterExit(processes[i], current, code, ExitParent, ExitKids)
  <2>1. processes[i] \in Process /\ code \in Int /\ processes'[i] = r
    BY <1>0, ListFacts, ExitEffect
  <2>2. /\ r \in Process /\ r.id = processes[i].id
        /\ processes[i].id = current => r.state = "Zombie"
        /\ processes[i].id # current => r.state \in {processes[i].state, "Ready"}
    BY <2>1, AfterExitRecord
  <2> HIDE DEF r
  <2>3. processes[i].state = "Running" => processes[i].id = current
    BY DEF Core, ListInv
  <2>4. r.id # Idle
    BY <2>2 DEF Process, Pids, Idle
  <2> QED
    BY <2>1, <2>2, <2>3, <2>4
<1>5. ListInv(processes', Idle)
  BY <1>0, <1>3, ExitEffect DEF Core, ListInv, UniqueIn
<1>6. process_tree' \in [Pids -> Pids \cup {Idle, NoEntry}]
  BY <1>0, ExitEffect DEF TypeOK
<1> QED
  BY <1>0, <1>5, <1>6, ExitEffect DEF Core, TypeOK, AddressSpaceIsCurrent

\* What reaping the zombie at k leaves of the list.
LEMMA ReapCore ==
    ASSUME NEW target \in WaitTargets, Core, Wait4Reap(target)
    PROVE  /\ Core'
           /\ \E k \in 1..Len(processes) :
                /\ \A i \in 1..Len(processes') : \E j \in 1..Len(processes) :
                      j # k /\ From(processes'[i], processes[j])
                /\ process_tree' = [process_tree EXCEPT ![processes[k].id] = NoEntry]
                /\ UNCHANGED <<next_pid, current>>
<1>1. PICK k \in Matching(target) :
        LET rest == RemoveIndex(processes, k)
        IN  /\ processes' = [i \in DOMAIN rest |->
                               IF rest[i].id = current
                               THEN RemoveChild(rest[i], processes[k].id) ELSE rest[i]]
            /\ process_tree' = [process_tree EXCEPT ![processes[k].id] = NoEntry]
            /\ UNCHANGED <<orphans, next_pid, current, cr3>>
  BY DEF Wait4Reap
<1> DEFINE rest == RemoveIndex(processes, k)
<1>2. k \in 1..Len(processes) /\ processes[k].state = "Zombie"
  BY ListFacts DEF Core, Matching, ZombieChildren
<1>3. /\ rest \in Seq(Process) /\ ListInv(rest, current)
      /\ \A i \in 1..Len(rest) : \E j \in 1..Len(processes) :
            j # k /\ rest[i] = processes[j]
  BY <1>2, ListFacts, ListInvRemove DEF Core
<1>4. Len(rest) \in Nat /\ DOMAIN rest = 1..Len(rest)
      /\ \A i \in 1..Len(rest) : rest[i] \in Process
  BY <1>3, LenProperties, ElementOfSeq
<1>5. processes' = [i \in 1..Len(rest) |->
                      IF rest[i].id = current
                      THEN RemoveChild(rest[i], processes[k].id) ELSE rest[i]]
  BY <1>1, <1>4
<1> HIDE DEF rest
<1>6. processes' \in [1..Len(rest) -> Process]
  BY <1>4, <1>5, RemoveChildRecord
<1>7. processes' \in Seq(Process) /\ Len(processes') = Len(rest)
  BY <1>4, <1>6, FunctionIsSeq
<1>8. \A i \in 1..Len(rest) : /\ processes'[i].id = rest[i].id
                              /\ processes'[i].state = rest[i].state
                              /\ processes'[i].waiting_for = rest[i].waiting_for
                              /\ processes'[i].parent_id = rest[i].parent_id
  BY <1>4, <1>5, RemoveChildRecord
<1>9. ListInv(processes', current)
  BY <1>3, <1>7, <1>8, ListInvUpdate
<1>10. process_tree' \in [Pids -> Pids \cup {Idle, NoEntry}]
  BY <1>1 DEF Core, TypeOK
<1>11. Core'
  BY <1>1, <1>7, <1>9, <1>10 DEF Core, TypeOK, AddressSpaceIsCurrent
<1>12. \A i \in 1..Len(processes') : \E j \in 1..Len(processes) :
          j # k /\ From(processes'[i], processes[j])
  <2> SUFFICES ASSUME NEW i \in 1..Len(rest)
               PROVE  \E j \in 1..Len(processes) :
                        j # k /\ From(processes'[i], processes[j])
    BY <1>7
  <2>1. PICK j \in 1..Len(processes) : j # k /\ rest[i] = processes[j]
    BY <1>3
  <2>2. From(processes'[i], processes[j])
    BY <1>8, <2>1 DEF From
  <2> QED
    BY <2>1, <2>2
<1> QED
  BY <1>1, <1>2, <1>11, <1>12

\* The updates of wait4, sched_yield and schedule keep a record a process.
LEMMA StateRecord ==
    ASSUME NEW r \in Process, NEW st \in {"Ready", "Running", "Waiting", "Zombie"},
           NEW w \in WaitTargets \cup {Idle}
    PROVE  [r EXCEPT !.state = st, !.waiting_for = w] \in Process
  BY DEF Process

\* Saving a context leaves a record well-formed.
LEMMA ContextRecord ==
    ASSUME NEW r \in Process, NEW c \in Pids \cup {Idle}
    PROVE  [r EXCEPT !.context_ptr = c] \in Process
  BY DEF Process

\* System call 61, blocking, keeps the core invariant.
LEMMA BlockCore ==
    ASSUME NEW target \in WaitTargets, Core, Wait4Block(target)
    PROVE  /\ Core'
           /\ \A i \in 1..Len(processes') : \E j \in 1..Len(processes) :
                \/ From(processes'[i], processes[j])
                \/ /\ processes'[i].id = processes[j].id /\ processes[j].id = current
                   /\ processes'[i].parent_id = processes[j].parent_id
                   /\ processes'[i].state = "Waiting" /\ processes'[i].waiting_for = target
<1> DEFINE s == [processes EXCEPT ![1].state = "Waiting", ![1].waiting_for = target]
<1>1. 1 \in 1..Len(processes) /\ processes # <<>>
  BY ListFacts DEF Core, Wait4Block, CurrentAtFront
<1>2. /\ s = [i \in 1..Len(processes) |->
               IF i = 1 THEN [processes[i] EXCEPT !.state = "Waiting",
                                                  !.waiting_for = target]
                        ELSE processes[i]]
  BY ListFacts DEF Core
<1> HIDE DEF s
<1>3. s \in [1..Len(processes) -> Process]
  BY <1>2, ListFacts, StateRecord DEF Core
<1>4. s \in Seq(Process) /\ Len(s) = Len(processes)
  BY <1>3, ListFacts, FunctionIsSeq DEF Core
<1>5. /\ s # <<>>
      /\ \A i \in 1..Len(s) : s[i].id = processes[i].id /\ s[i].state # "Running"
  <2>1. s # <<>>
    BY <1>1, <1>4, EmptySeq
  <2>2. ASSUME NEW i \in 1..Len(s)
        PROVE  s[i].id = processes[i].id /\ s[i].state # "Running"
    <3>1. processes[i] \in Process
      BY <1>4, ListFacts DEF Core
    <3>2. CASE i = 1
      <4>1. s[i] = [processes[i] EXCEPT !.state = "Waiting", !.waiting_for = target]
        BY <1>2, <1>4, <3>2
      <4> QED
        BY <3>1, <4>1 DEF Process
    <3>3. CASE i # 1
      <4>1. s[i] = processes[i]
        BY <1>2, <1>4, <3>3
      <4> QED
        BY <1>4, <3>3, <4>1 DEF Core, ListInv
    <3> QED
      BY <3>2, <3>3
  <2> QED
    BY <2>1, <2>2
<1>6. UniqueIn(s)
  BY <1>4, <1>5 DEF Core, ListInv, UniqueIn
<1>7. processes' = RotateLeft(s) /\ current' = processes'[1].id /\ cr3' = processes'[1].id
      /\ UNCHANGED <<process_tree, orphans, next_pid>>
  BY DEF Wait4Block, s
<1>8. /\ processes' \in Seq(Process) /\ processes'[1] \in Process
      /\ Len(processes') = Len(processes)
      /\ ListInv(processes', current')
      /\ \A i \in 1..Len(processes') : \E j \in 1..Len(processes) : processes'[i] = s[j]
  <2>1. /\ RotateLeft(s) \in Seq(Process) /\ Len(RotateLeft(s)) = Len(s)
        /\ RotateLeft(s)[1] \in Process
        /\ \A i \in 1..Len(s) : \E j \in 1..Len(s) : RotateLeft(s)[i] = s[j]
        /\ ListInv(RotateLeft(s), RotateLeft(s)[1].id)
    BY <1>4, <1>5, <1>6, ListInvRotate
  <2> QED
    BY <1>4, <1>7, <2>1
<1>9. current' \in Pids
  BY <1>7, <1>8 DEF Process
<1>10. Core'
  BY <1>7, <1>8, <1>9 DEF Core, TypeOK, AddressSpaceIsCurrent
<1>11. \A j \in 1..Len(processes) :
          \/ From(s[j], processes[j])
          \/ /\ s[j].id = processes[j].id /\ processes[j].id = current
             /\ s[j].parent_id = processes[j].parent_id
             /\ s[j].state = "Waiting" /\ s[j].waiting_for = target
  <2> TAKE j \in 1..Len(processes)
  <2>1. CASE j = 1
    <3>1. s[j] = [processes[j] EXCEPT !.state = "Waiting", !.waiting_for = target]
      BY <1>2, <2>1
    <3>2. processes[j] \in Process /\ processes[j].id = current
      BY <2>1, ListFacts DEF Core, Wait4Block, CurrentAtFront, Front
    <3> QED
      BY <3>1, <3>2 DEF Process
  <2>2. CASE j # 1
    BY <1>2, <2>2 DEF From
  <2> QED
    BY <2>1, <2>2
<1>12. ASSUME NEW i \in 1..Len(processes')
       PROVE  \E j \in 1..Len(processes) :
                \/ From(processes'[i], processes[j])
                \/ /\ processes'[i].id = processes[j].id /\ processes[j].id = current
                   /\ processes'[i].parent_id = processes[j].parent_id
                   /\ processes'[i].state = "Waiting" /\ processes'[i].waiting_for = target
  <2>1. PICK j \in 1..Len(processes) : processes'[i] = s[j]
    BY <1>8
  <2> WITNESS j \in 1..Len(processes)
  <2> QED
    BY <1>11, <2>1
<1> QED
  BY <1>10, <1>12

\* System call 24 keeps the core invariant.
LEMMA YieldCore == ASSUME Core, SysSchedYield PROVE Core' /\ Inherited
<1>1. processes' = [i \in 1..Len(processes) |->
               IF i = 1 THEN [processes[i] EXCEPT !.state = "Ready",
                                                  !.waiting_for = Idle]
                        ELSE processes[i]]
  BY ListFacts DEF Core, SysSchedYield
<1>2. processes' \in [1..Len(processes) -> Process]
  BY <1>1, ListFacts, StateRecord DEF Core
<1>3. processes' \in Seq(Process) /\ Len(processes') = Len(processes)
  BY <1>2, ListFacts, FunctionIsSeq DEF Core
<1>4. \A i \in 1..Len(processes) :
         /\ processes'[i].id = processes[i].id
         /\ processes'[i].state = "Running" => processes[i].state = "Running"
         /\ From(processes'[i], processes[i])
  BY <1>1, ListFacts DEF Core, Process, From
<1>5. ListInv(processes', current)
  BY <1>3, <1>4, ListFacts, ListInvUpdate DEF Core
<1>6. Core'
  BY <1>3, <1>5 DEF SysSchedYield, Core, TypeOK, AddressSpaceIsCurrent
<1> QED
  BY <1>3, <1>4, <1>6 DEF Inherited

\* handle_switch keeps the core invariant.
LEMMA SwitchCore ==
    ASSUME Core, HandleSwitch
    PROVE  Core' /\ Inherited /\ UNCHANGED <<process_tree, next_pid>>
<1>1. CASE SwitchToRunnable
  <2>1. PICK k \in Runnable :
          /\ processes' = Switched(k)
          /\ current' = processes[k].id /\ cr3' = processes[k].id
          /\ UNCHANGED <<process_tree, orphans, next_pid>>
    BY <1>1 DEF SwitchToRunnable, Switched
  <2>2. k \in 1..Len(processes) /\ processes[k] \in Process
    BY ListFacts DEF Core, Runnable
  <2>3. processes' \in Seq(Process) /\ ListInv(processes', current')
    BY <2>1, <2>2, ListInvSwitch DEF Core, TypeOK
  <2>4. current' \in Pids
    BY <2>1, <2>2 DEF Process
  <2>5. Inherited
    BY <2>1, <2>2, ListInvSwitch DEF Core, TypeOK, Inherited
  <2> QED
    BY <2>1, <2>3, <2>4, <2>5 DEF Core, TypeOK, AddressSpaceIsCurrent
<1>2. CASE SwitchRoundRobin
  <2> DEFINE s == [processes EXCEPT ![1].context_ptr = current]
  <2>1. processes # <<>> /\ Len(processes) > 0 /\ Len(processes) \in Nat
    BY <1>2, ListFacts DEF Core, SwitchRoundRobin
  <2>2. s = [i \in 1..Len(processes) |->
               IF i = 1 THEN [processes[i] EXCEPT !.context_ptr = current]
                        ELSE processes[i]]
    BY ListFacts DEF Core
  <2>3. processes' = RotateLeft(s) /\ current' = processes'[1].id
        /\ cr3' = processes'[1].id /\ UNCHANGED <<process_tree, orphans, next_pid>>
    BY <1>2 DEF SwitchRoundRobin
  <2> HIDE DEF s
  <2>4. s \in [1..Len(processes) -> Process]
    BY <2>2, ListFacts, ContextRecord DEF Core, TypeOK
  <2>5. s \in Seq(Process) /\ Len(s) = Len(processes)
    BY <2>1, <2>4, FunctionIsSeq
  <2>6. \A i \in 1..Len(processes) : processes[i].state # "Running"
    BY <1>2, ListFacts DEF Core, SwitchRoundRobin, Runnable
  <2>7. /\ s # <<>>
        /\ \A i \in 1..Len(s) : s[i].id = processes[i].id /\ s[i].state # "Running"
    BY <2>1, <2>2, <2>5, <2>6, ListFacts, EmptySeq DEF Core, Process
  <2>8. UniqueIn(s)
    BY <2>5, <2>7 DEF Core, ListInv, UniqueIn
  <2>9. processes' \in Seq(Process) /\ processes'[1] \in Process
        /\ Len(processes') = Len(processes) /\ ListInv(processes', current')
        /\ \A i \in 1..Len(processes') : \E j \in 1..Len(processes) : processes'[i] = s[j]
    BY <2>3, <2>5, <2>7, <2>8, ListInvRotate
  <2>10. current' \in Pids
    BY <2>3, <2>9 DEF Process
  <2>11. \A j \in 1..Len(processes) : From(s[j], processes[j])
    BY <2>2, ListFacts DEF Core, Process, From
  <2>12. Inherited
    BY <2>9, <2>11 DEF Inherited
  <2> QED
    BY <2>3, <2>9, <2>10, <2>12 DEF Core, TypeOK, AddressSpaceIsCurrent
<1>3. CASE SwitchIdle
  BY <1>3, EmptySeq DEF SwitchIdle, Core, TypeOK, AddressSpaceIsCurrent, ListInv, UniqueIn,
                        Inherited
<1> QED
  BY <1>1, <1>2, <1>3 DEF HandleSwitch

\* A step of the booted kernel keeps the core invariant: no system call and no
\* timer tick breaks the order of the list or the link to CR3.
LEMMA KernelCore == ASSUME Core, [KernelNext]_vars PROVE Core'
<1>1. CASE SysFork
  BY <1>1, ForkCore
<1>2. ASSUME NEW code \in ExitCodes, SysExit(code) PROVE Core'
  BY <1>2, ExitCore
<1>3. ASSUME NEW target \in WaitTargets, Wait4Reap(target) PROVE Core'
  BY <1>3, ReapCore
<1>4. ASSUME NEW target \in WaitTargets, Wait4Block(target) PROVE Core'
  BY <1>4, BlockCore
<1>5. CASE SysSchedYield
  BY <1>5, YieldCore
<1>6. CASE HandleSwitch
  BY <1>6, SwitchCore
<1>7. CASE UNCHANGED vars
  BY <1>7 DEF vars, Core, TypeOK, ListInv, UniqueIn, AddressSpaceIsCurrent
<1> QED
  BY <1>1, <1>2, <1>3, <1>4, <1>5, <1>6, <1>7 DEF KernelNext, SystemCall

-----------------------------------------------------------------------------
(* Operations that create and discard processes *)

\* Every pid in use was handed out by allocate_pid.
Below == /\ current < next_pid
         /\ \A i \in 1..Len(processes) : processes[i].id < next_pid

\* The list with a new process at its end.
LEMMA AppendNew ==
    ASSUME Core, Below, next_pid \in Pids, NEW parent \in Pids \cup {Idle}
    PROVE  LET s == Append(processes, ProcessNew(next_pid, parent))
           IN  /\ s \in Seq(Process) /\ ListInv(s, current)
               /\ Len(s) = Len(processes) + 1
               /\ s[Len(processes) + 1] = ProcessNew(next_pid, parent)
               /\ \A i \in 1..Len(processes) : s[i] = processes[i]
<1> DEFINE r == ProcessNew(next_pid, parent)
<1>1. r \in Process /\ r.id = next_pid /\ r.state = "Ready"
  BY NewRecord
<1> HIDE DEF r
<1>2. r.id # current /\ \A i \in 1..Len(processes) : processes[i].id # r.id
  <2>1. next_pid \in Int /\ current \in Int
    BY SchedulerAssumption DEF Core, TypeOK, Pids, Idle
  <2>2. \A i \in 1..Len(processes) : processes[i].id \in Pids
    BY ListFacts DEF Core, Process
  <2>3. \A i \in 1..Len(processes) : processes[i].id \in Int
    BY <2>2 DEF Pids
  <2> QED
    BY <1>1, <2>1, <2>3 DEF Below
<1>3. processes \in Seq(Process) /\ ListInv(processes, current)
  BY DEF Core, TypeOK
<1>4. Append(processes, r) \in Seq(Process) /\ ListInv(Append(processes, r), current)
  BY <1>1, <1>2, <1>3, ListInvAppend
<1>5. /\ Len(Append(processes, r)) = Len(processes) + 1
      /\ Append(processes, r)[Len(processes) + 1] = r
      /\ \A i \in 1..Len(processes) : Append(processes, r)[i] = processes[i]
  BY <1>1, <1>3, AppendProperties
<1> QED
  BY <1>4, <1>5 DEF r

\* The new list is the old one, record by record, and one ready process.
Grown(parent) ==
    /\ Len(processes') = Len(processes) + 1
    /\ \A i \in 1..Len(processes) : From(processes'[i], processes[i])
    /\ processes'[Len(processes) + 1].id = next_pid
    /\ processes'[Len(processes) + 1].state = "Ready"
    /\ processes'[Len(processes) + 1].parent_id = parent
    /\ process_tree' = [process_tree EXCEPT ![next_pid] = parent]
    /\ next_pid' = next_pid + 1
    /\ current' = current

\* add_process of a root process keeps the core invariant.
LEMMA NewProcessCore ==
    ASSUME Core, Below, NewProcess PROVE Core' /\ Grown(Idle)
<1> DEFINE r == ProcessNew(next_pid, Idle)
<1>1. next_pid \in Pids /\ processes' = Append(processes, r)
      /\ process_tree' = [process_tree EXCEPT ![next_pid] = Idle]
      /\ orphans' = [orphans EXCEPT ![next_pid] = @ + 1]
      /\ next_pid' = next_pid + 1 /\ UNCHANGED <<current, cr3>>
  BY DEF NewProcess
<1>2. r.id = next_pid /\ r.state = "Ready" /\ r.parent_id = Idle
  BY <1>1, NewRecord
<1>3. /\ processes' \in Seq(Process) /\ ListInv(processes', current)
      /\ Len(processes') = Len(processes) + 1
      /\ processes'[Len(processes) + 1] = r
      /\ \A i \in 1..Len(processes) : processes'[i] = processes[i]
  BY <1>1, AppendNew
<1> HIDE DEF r
<1>4. Grown(Idle)
  BY <1>1, <1>2, <1>3 DEF Grown, From
<1>5. /\ process_tree' \in [Pids -> Pids \cup {Idle, NoEntry}]
      /\ orphans' \in [Pids -> Nat]
      /\ next_pid' \in 1..(MaxPid + 1)
  BY <1>1, SchedulerAssumption DEF Core, TypeOK, Pids
<1> QED
  BY <1>1, <1>3, <1>4, <1>5 DEF Core, TypeOK, AddressSpaceIsCurrent

\* Process::fork with add_process and register_child keeps the core invariant.
LEMMA SpawnCore ==
    ASSUME Core, Below, SpawnChild PROVE Core' /\ Grown(current)
<1> DEFINE r == ProcessNew(next_pid, current)
           s == Append(processes, r)
<1>1. next_pid \in Pids /\ RegisterChild(s, next_pid)
      /\ next_pid' = next_pid + 1 /\ UNCHANGED <<current, cr3>>
  BY DEF SpawnChild
<1>2. current \in Pids \cup {Idle}
  BY DEF Core, TypeOK
<1>3. r.id = next_pid /\ r.state = "Ready" /\ r.parent_id = current
  BY <1>1, <1>2, NewRecord
<1>4. /\ s \in Seq(Process) /\ ListInv(s, current)
      /\ Len(s) = Len(processes) + 1
      /\ s[Len(processes) + 1] = r
      /\ \A i \in 1..Len(processes) : s[i] = processes[i]
  BY <1>1, <1>2, AppendNew
<1> HIDE DEF r, s
<1>5. /\ processes' \in Seq(Process) /\ Len(processes') = Len(s)
      /\ \A i \in 1..Len(s) : /\ processes'[i].id = s[i].id
                               /\ processes'[i].state = s[i].state
                               /\ processes'[i].waiting_for = s[i].waiting_for
                               /\ processes'[i].parent_id = s[i].parent_id
      /\ ListInv(processes', current)
      /\ process_tree' \in [Pids -> Pids \cup {Idle, NoEntry}]
      /\ orphans' \in [Pids -> Nat]
  BY <1>1, <1>4, RegisterChildStep DEF Core
<1>6. process_tree' = [process_tree EXCEPT ![next_pid] = current]
  BY <1>1 DEF RegisterChild
<1>7. Len(processes) \in Nat
  BY ListFacts DEF Core
<1>8. Grown(current)
  BY <1>1, <1>3, <1>4, <1>5, <1>6, <1>7 DEF Grown, From
<1>9. next_pid' \in 1..(MaxPid + 1)
  BY <1>1, SchedulerAssumption DEF Core, TypeOK, Pids
<1> QED
  BY <1>1, <1>5, <1>8, <1>9 DEF Core, TypeOK, AddressSpaceIsCurrent

\* cleanup_terminated_process keeps the core invariant.
LEMMA CleanupCore ==
    ASSUME Core, CleanupTerminatedProcess
    PROVE  /\ Core'
           /\ \E k \in 1..Len(processes) :
                /\ \A i \in 1..Len(processes') : \E j \in 1..Len(processes) :
                      j # k /\ From(processes'[i], processes[j])
                /\ process_tree' = [process_tree EXCEPT ![processes[k].id] = NoEntry]
                /\ UNCHANGED <<next_pid, current>>
<1>1. PICK k \in DOMAIN processes :
        /\ processes[k].state = "Zombie"
        /\ processes' = RemoveIndex(processes, k)
        /\ process_tree' = [process_tree EXCEPT ![processes[k].id] = NoEntry]
        /\ orphans' = [orphans EXCEPT ![processes[k].id] = IF @ = 0 THEN 0 ELSE @ - 1]
        /\ UNCHANGED <<next_pid, current, cr3>>
  BY DEF CleanupTerminatedProcess
<1>2. k \in 1..Len(processes)
  BY ListFacts DEF Core
<1>3. /\ processes' \in Seq(Process) /\ ListInv(processes', current)
      /\ \A i \in 1..Len(processes') : \E j \in 1..Len(processes) :
            j # k /\ processes'[i] = processes[j]
  BY <1>1, <1>2, ListFacts, ListInvRemove DEF Core
<1>4. /\ process_tree' \in [Pids -> Pids \cup {Idle, NoEntry}]
      /\ orphans' \in [Pids -> Nat]
  <2>1. orphans \in [Pids -> Nat] /\ process_tree \in [Pids -> Pids \cup {Idle, NoEntry}]
    BY DEF Core, TypeOK
  <2>2. \A n \in Nat : (IF n = 0 THEN 0 ELSE n - 1) \in Nat
    OBVIOUS
  <2> QED
    BY <1>1, <2>1, <2>2
<1>5. Core'
  BY <1>1, <1>3, <1>4 DEF Core, TypeOK, AddressSpaceIsCurrent
<1>6. \A r \in Process : From(r, r)
  BY DEF From
<1>7. \A i \in 1..Len(processes') : \E j \in 1..Len(processes) :
            j # k /\ From(processes'[i], processes[j])
  BY <1>3, <1>6, ListFacts DEF Core
<1> QED
  BY <1>1, <1>2, <1>5, <1>7

-----------------------------------------------------------------------------
(* The pid counter stays above the pids in use *)

\* Types of the pids, for the arithmetic of the counter.
LEMMA PidFacts ==
    ASSUME TypeOK
    PROVE  /\ next_pid \in Int /\ next_pid > 0 /\ current \in Int
           /\ \A i \in 1..Len(processes) :
                 /\ processes[i].id \in Pids
                 /\ processes[i].id \in Int
                 /\ processes[i].id # Idle
<1>1. next_pid \in Int /\ next_pid > 0 /\ current \in Int
  BY SchedulerAssumption DEF TypeOK, Pids, Idle
<1>2. \A i \in 1..Len(processes) : processes[i].id \in Pids
  BY ListFacts DEF Process
<1> QED
  BY <1>1, <1>2 DEF Pids, Idle

\* System calls and the timer hand out no pid that is in the list already: all pids
\* in it stay below NEXT_PID.
LEMMA KernelBelow == ASSUME Core, Below, [KernelNext]_vars PROVE Below'
<1> DEFINE Kept == \A i \in 1..Len(processes') : \E j \in 1..Len(processes) :
                      processes'[i].id = processes[j].id
<1>0. TypeOK
  BY DEF Core
<1>1. CASE SysFork
  <2>1. Inherited /\ next_pid' = next_pid + 1 /\ current' = current
    BY <1>1, ForkCore DEF SysFork
  <2> QED
    BY <1>0, <2>1, PidFacts DEF Below, Inherited, From
<1>2. ASSUME NEW code \in ExitCodes, SysExit(code) PROVE Below'
  <2>1. \A i \in 1..Len(processes) : processes'[i].id = processes[i].id
    BY <1>0, <1>2, ListFacts, ExitEffect, AfterExitRecord
  <2>2. Len(processes') = Len(processes) /\ current' = Idle /\ next_pid' = next_pid
    BY <1>0, <1>2, ExitEffect
  <2> QED
    BY <1>0, <2>1, <2>2, PidFacts DEF Below, Idle
<1>3. ASSUME NEW target \in WaitTargets, Wait4Reap(target) PROVE Below'
  <2>1. Kept /\ next_pid' = next_pid /\ current' = current
    BY <1>3, ReapCore DEF From
  <2> QED
    BY <2>1 DEF Below
<1>4. ASSUME NEW target \in WaitTargets, Wait4Block(target) PROVE Below'
  <2>1. Kept
    BY <1>4, BlockCore DEF From
  <2>2. next_pid' = next_pid /\ current' = processes'[1].id
    BY <1>4 DEF Wait4Block
  <2>3. 1 \in 1..Len(processes')
    <3>1. processes # <<>> /\ processes' = RotateLeft([processes EXCEPT
                ![1].state = "Waiting", ![1].waiting_for = target])
      BY <1>4 DEF Wait4Block, CurrentAtFront
    <3>2. DOMAIN processes' = 1..Len(processes)
      <4>1. Len([processes EXCEPT ![1].state = "Waiting", ![1].waiting_for = target])
              = Len(processes)
        BY <1>0, ListFacts
      <4> QED
        BY <3>1, <4>1 DEF RotateLeft
    <3>3. processes' \in Seq(Process)
      BY <1>4, BlockCore DEF Core, TypeOK
    <3> QED
      BY <1>0, <3>1, <3>2, <3>3, ListFacts, LenProperties
  <2> QED
    BY <2>1, <2>2, <2>3 DEF Below
<1>5. CASE SysSchedYield
  <2>1. Inherited /\ next_pid' = next_pid /\ current' = current
    BY <1>5, YieldCore DEF SysSchedYield
  <2> QED
    BY <2>1 DEF Below, Inherited, From
<1>6. CASE HandleSwitch
  <2>1. Inherited /\ next_pid' = next_pid
    BY <1>6, SwitchCore
  <2>2. current' = Idle \/ \E j \in 1..Len(processes) : current' = processes[j].id
    <3>1. CASE SwitchToRunnable
      BY <1>0, <3>1, ListFacts DEF SwitchToRunnable, Runnable
    <3>2. CASE SwitchRoundRobin
      <4> DEFINE s == [processes EXCEPT ![1].context_ptr = current]
      <4>1. processes # <<>> /\ processes' = RotateLeft(s) /\ current' = processes'[1].id
        BY <3>2 DEF SwitchRoundRobin
      <4>2. s = [i \in 1..Len(processes) |->
                   IF i = 1 THEN [processes[i] EXCEPT !.context_ptr = current]
                            ELSE processes[i]]
        BY <1>0, ListFacts
      <4> HIDE DEF s
      <4>3. Len(s) = Len(processes) /\ Len(processes) \in Nat /\ Len(processes) > 0
        BY <1>0, <4>1, <4>2, ListFacts
      <4>4. \A i \in 1..Len(processes) : s[i].id = processes[i].id
        BY <1>0, <4>2, ListFacts DEF Process
      <4>5. processes'[1] = IF 1 < Len(processes) THEN s[2] ELSE s[1]
        BY <4>1, <4>3 DEF RotateLeft
      <4> QED
        BY <4>1, <4>3, <4>4, <4>5
    <3>3. CASE SwitchIdle
      BY <3>3 DEF SwitchIdle
    <3> QED
      BY <1>6, <3>1, <3>2, <3>3 DEF HandleSwitch
  <2> QED
    BY <1>0, <2>1, <2>2, PidFacts DEF Below, Inherited, From, Idle
<1>7. CASE UNCHANGED vars
  BY <1>7 DEF vars, Below
<1> QED
  BY <1>1, <1>2, <1>3, <1>4, <1>5, <1>6, <1>7 DEF KernelNext, SystemCall

\* The core invariant with the pid counter, along every operation.
LEMMA NextCore == ASSUME Core, Below, [Next]_vars PROVE Core' /\ Below'
<1>0. TypeOK
  BY DEF Core
<1>1. CASE [KernelNext]_vars
  BY <1>1, KernelCore, KernelBelow
<1>2. ASSUME NEW parent, Grown(parent) PROVE Below'
  <2>1. Len(processes) \in Nat /\ next_pid \in Int /\ current \in Int
    BY <1>0, ListFacts, PidFacts
  <2>2. ASSUME NEW i \in 1..Len(processes') PROVE processes'[i].id < next_pid'
    <3>1. CASE i = Len(processes) + 1
      BY <1>2, <2>1, <3>1 DEF Grown
    <3>2. CASE i # Len(processes) + 1
      <4>1. i \in 1..Len(processes) /\ processes'[i].id = processes[i].id
        BY <1>2, <2>1, <3>2 DEF Grown, From
      <4> QED
        BY <1>0, <1>2, <4>1, PidFacts DEF Grown, Below
    <3> QED
      BY <3>1, <3>2
  <2> QED
    BY <1>2, <2>1, <2>2 DEF Grown, Below
<1>3. CASE NewProcess
  BY <1>2, <1>3, NewProcessCore
<1>4. CASE SpawnChild
  BY <1>2, <1>4, SpawnCore
<1>5. CASE CleanupTerminatedProcess
  BY <1>5, CleanupCore DEF Below, From
<1> QED
  BY <1>1, <1>3, <1>4, <1>5 DEF Next

-----------------------------------------------------------------------------
(* No lost wake-up *)

\* A step that makes no new zombie and blocks nobody keeps NoLostWakeup.
LEMMA WakeupInherited ==
    ASSUME TypeOK, TypeOK', NoLostWakeup,
           \A i \in 1..Len(processes') :
              \/ processes'[i].state = "Ready"
              \/ \E j \in 1..Len(processes) : From(processes'[i], processes[j])
    PROVE  NoLostWakeup'
<1>1. DOMAIN processes' = 1..Len(processes') /\ DOMAIN processes = 1..Len(processes)
  BY LenProperties DEF TypeOK
<1> SUFFICES ASSUME NEW i \in 1..Len(processes'), NEW j \in 1..Len(processes'),
                    processes'[i].state = "Waiting", processes'[j].state = "Zombie",
                    processes'[j].parent_id = processes'[i].id
             PROVE  processes'[i].waiting_for \notin {AnyChild, processes'[j].id}
  BY <1>1 DEF NoLostWakeup
<1>2. PICK m \in 1..Len(processes) : From(processes'[i], processes[m])
  OBVIOUS
<1>3. PICK n \in 1..Len(processes) : From(processes'[j], processes[n])
  OBVIOUS
<1>4. /\ processes[m].state = "Waiting" /\ processes[n].state = "Zombie"
      /\ processes[n].parent_id = processes[m].id
  BY <1>2, <1>3 DEF From
<1>5. processes[m].waiting_for \notin {AnyChild, processes[n].id}
  BY <1>1, <1>4 DEF NoLostWakeup
<1> QED
  BY <1>2, <1>3, <1>5 DEF From

\* wait4 blocks only after it found no matching zombie.
LEMMA WakeupBlock ==
    ASSUME Core, NoLostWakeup, NEW target \in WaitTargets, Wait4Block(target)
    PROVE  NoLostWakeup'
<1>1. /\ Core'
      /\ \A i \in 1..Len(processes') : \E j \in 1..Len(processes) :
                \/ From(processes'[i], processes[j])
                \/ /\ processes'[i].id = processes[j].id /\ processes[j].id = current
                   /\ processes'[i].parent_id = processes[j].parent_id
                   /\ processes'[i].state = "Waiting" /\ processes'[i].waiting_for = target
  BY BlockCore
<1>2. DOMAIN processes' = 1..Len(processes') /\ DOMAIN processes = 1..Len(processes)
  BY <1>1, LenProperties DEF Core, TypeOK
<1> SUFFICES ASSUME NEW i \in 1..Len(processes'), NEW j \in 1..Len(processes'),
                    processes'[i].state = "Waiting", processes'[j].state = "Zombie",
                    processes'[j].parent_id = processes'[i].id
             PROVE  processes'[i].waiting_for \notin {AnyChild, processes'[j].id}
  BY <1>2 DEF NoLostWakeup
<1>3. PICK n \in 1..Len(processes) : From(processes'[j], processes[n])
  BY <1>1
<1>4. PICK m \in 1..Len(processes) :
                \/ From(processes'[i], processes[m])
                \/ /\ processes'[i].id = processes[m].id /\ processes[m].id = current
                   /\ processes'[i].state = "Waiting" /\ processes'[i].waiting_for = target
  BY <1>1
<1>5. CASE From(processes'[i], processes[m])
  <2>1. /\ processes[m].state = "Waiting" /\ processes[n].state = "Zombie"
        /\ processes[n].parent_id = processes[m].id
    BY <1>3, <1>5 DEF From
  <2>2. processes[m].waiting_for \notin {AnyChild, processes[n].id}
    BY <1>2, <2>1 DEF NoLostWakeup
  <2> QED
    BY <1>3, <1>5, <2>2 DEF From
<1>6. CASE processes'[i].id = current /\ processes'[i].waiting_for = target
  <2>1. processes[n].state = "Zombie" /\ processes[n].parent_id = current
        /\ processes[n].id = processes'[j].id
    BY <1>3, <1>6 DEF From
  <2>2. n \in ZombieChildren
    BY <1>2, <2>1 DEF ZombieChildren
  <2>3. target \notin {AnyChild, processes[n].id}
    BY <2>2 DEF Wait4Block, Matching
  <2> QED
    BY <1>6, <2>1, <2>3
<1> QED
  BY <1>4, <1>5, <1>6

\* exit wakes the parent if it waits for the exiting process or for any child.
LEMMA WakeupExit ==
    ASSUME Core, NoLostWakeup, NEW code \in ExitCodes, SysExit(code)
    PROVE  NoLostWakeup'
<1>0. TypeOK
  BY DEF Core
<1>1. /\ code \in Int /\ Len(processes') = Len(processes) /\ processes' \in Seq(Process)
      /\ \A i \in 1..Len(processes) :
            processes'[i] = AfterExit(processes[i], current, code, ExitParent, ExitKids)
  BY <1>0, ExitEffect
<1>2. DOMAIN processes' = 1..Len(processes) /\ DOMAIN processes = 1..Len(processes)
  BY <1>0, <1>1, ListFacts, LenProperties
<1> SUFFICES ASSUME NEW i \in 1..Len(processes), NEW j \in 1..Len(processes),
                    processes'[i].state = "Waiting", processes'[j].state = "Zombie",
                    processes'[j].parent_id = processes'[i].id
             PROVE  processes'[i].waiting_for \notin {AnyChild, processes'[j].id}
  BY <1>2 DEF NoLostWakeup
<1> DEFINE a == AfterExit(processes[i], current, code, ExitParent, ExitKids)
           b == AfterExit(processes[j], current, code, ExitParent, ExitKids)
<1>a. code \in Int
  BY <1>1
<1>3. processes'[i] = a /\ processes'[j] = b
      /\ processes[i] \in Process /\ processes[j] \in Process
  BY <1>0, <1>1, ListFacts
<1>b. processes[i] \in Process /\ processes[j] \in Process
  BY <1>3
<1>4. /\ a.id = processes[i].id
      /\ a.state = "Waiting" =>
           /\ a.waiting_for = processes[i].waiting_for
           /\ processes[i].state = "Waiting"
           /\ ExitParent # Idle /\ processes[i].id = ExitParent =>
                processes[i].waiting_for \notin {current, AnyChild}
  BY <1>a, <1>b, AfterExitRecord
<1>5. /\ b.id = processes[j].id
      /\ b.parent_id = IF processes[j].id \in ExitKids THEN Idle ELSE processes[j].parent_id
      /\ processes[j].id # current => b.state \in {processes[j].state, "Ready"}
  BY <1>a, <1>b, AfterExitRecord
<1> HIDE DEF a, b
<1>6. processes[i].id # Idle
  BY <1>0, PidFacts
<1>7. processes[j].parent_id = processes[i].id /\ processes[i].state = "Waiting"
      /\ processes'[i].waiting_for = processes[i].waiting_for
  BY <1>3, <1>4, <1>5, <1>6
<1>8. CASE processes[j].id # current
  <2>1. processes[j].state = "Zombie"
    BY <1>3, <1>5, <1>8
  <2> QED
    BY <1>2, <1>3, <1>5, <1>7, <2>1 DEF NoLostWakeup
<1>9. CASE processes[j].id = current
  <2>1. Exists(current)
    BY <1>2, <1>9 DEF Exists
  <2>2. PositionOf(current) \in DOMAIN processes /\ processes[PositionOf(current)].id = current
    BY <2>1 DEF PositionOf, Exists
  <2>3. PositionOf(current) = j
    BY <1>2, <1>9, <2>2 DEF Core, ListInv, UniqueIn
  <2>4. ExitParent = processes[i].id
    BY <1>7, <2>1, <2>3 DEF ExitParent
  <2> QED
    BY <1>3, <1>4, <1>5, <1>6, <1>9, <2>4
<1> QED
  BY <1>8, <1>9

\* System calls and the timer lose no wake-up.
LEMMA KernelWakeup == ASSUME Core, NoLostWakeup, [KernelNext]_vars PROVE NoLostWakeup'
<1>0. TypeOK /\ TypeOK'
  BY KernelCore DEF Core
<1>a. ASSUME Inherited PROVE NoLostWakeup'
  BY <1>0, <1>a, WakeupInherited DEF Inherited
<1>1. CASE SysFork
  BY <1>1, <1>a, ForkCore
<1>2. ASSUME NEW code \in ExitCodes, SysExit(code) PROVE NoLostWakeup'
  BY <1>2, WakeupExit
<1>3. ASSUME NEW target \in WaitTargets, Wait4Reap(target) PROVE NoLostWakeup'
  <2>1. Inherited
    BY <1>3, ReapCore DEF Inherited
  <2> QED
    BY <1>a, <2>1
<1>4. ASSUME NEW target \in WaitTargets, Wait4Block(target) PROVE NoLostWakeup'
  BY <1>4, WakeupBlock
<1>5. CASE SysSchedYield
  BY <1>5, <1>a, YieldCore
<1>6. CASE HandleSwitch
  BY <1>6, <1>a, SwitchCore
<1>7. CASE UNCHANGED vars
  BY <1>7 DEF vars, NoLostWakeup
<1> QED
  BY <1>1, <1>2, <1>3, <1>4, <1>5, <1>6, <1>7 DEF KernelNext, SystemCall

\* Nor do the operations that create and discard processes.
LEMMA NextWakeup == ASSUME Core, Below, NoLostWakeup, [Next]_vars PROVE NoLostWakeup'
<1>0. TypeOK /\ TypeOK' /\ Len(processes) \in Nat
  BY NextCore, ListFacts DEF Core
<1>1. CASE [KernelNext]_vars
  BY <1>1, KernelWakeup
<1>2. ASSUME NEW parent, Grown(parent) PROVE NoLostWakeup'
  <2>1. ASSUME NEW i \in 1..Len(processes')
        PROVE  \/ processes'[i].state = "Ready"
               \/ \E j \in 1..Len(processes) : From(processes'[i], processes[j])
    <3>1. i = Len(processes) + 1 \/ i \in 1..Len(processes)
      BY <1>0, <1>2 DEF Grown
    <3> QED
      BY <1>2, <3>1 DEF Grown
  <2> QED
    BY <1>0, <2>1, WakeupInherited
<1>3. CASE NewProcess
  BY <1>2, <1>3, NewProcessCore
<1>4. CASE SpawnChild
  BY <1>2, <1>4, SpawnCore
<1>5. CASE CleanupTerminatedProcess
  <2>1. Inherited
    BY <1>5, CleanupCore DEF Inherited
  <2> QED
    BY <1>0, <2>1, WakeupInherited DEF Inherited
<1> QED
  BY <1>1, <1>3, <1>4, <1>5 DEF Next

-----------------------------------------------------------------------------
(* The tree and the records *)

\* A step under which records keep their parents and the tree changes at no pid
\* that is in the new list.
LEMMA TreeKept ==
    ASSUME TypeOK, TypeOK', TreeMatchesRecords,
           \A i \in 1..Len(processes') : \E j \in 1..Len(processes) :
              /\ processes'[i].id = processes[j].id
              /\ processes'[i].parent_id = processes[j].parent_id
              /\ process_tree'[processes[j].id] = process_tree[processes[j].id]
    PROVE  TreeMatchesRecords'
<1>1. DOMAIN processes' = 1..Len(processes') /\ DOMAIN processes = 1..Len(processes)
  BY LenProperties DEF TypeOK
<1> SUFFICES ASSUME NEW i \in 1..Len(processes')
             PROVE  process_tree'[processes'[i].id] = processes'[i].parent_id
  BY <1>1 DEF TreeMatchesRecords
<1>2. PICK j \in 1..Len(processes) :
              /\ processes'[i].id = processes[j].id
              /\ processes'[i].parent_id = processes[j].parent_id
              /\ process_tree'[processes[j].id] = process_tree[processes[j].id]
  OBVIOUS
<1>3. process_tree[processes[j].id] = processes[j].parent_id
  BY <1>1 DEF TreeMatchesRecords
<1> QED
  BY <1>2, <1>3

\* Removing the record at k together with its entry in the tree.
LEMMA TreeRemove ==
    ASSUME Core, TypeOK', TreeMatchesRecords, NEW k \in 1..Len(processes),
           \A i \in 1..Len(processes') : \E j \in 1..Len(processes) :
              j # k /\ From(processes'[i], processes[j]),
           process_tree' = [process_tree EXCEPT ![processes[k].id] = NoEntry]
    PROVE  TreeMatchesRecords'
<1>0. TypeOK
  BY DEF Core
<1>1. \A j \in 1..Len(processes) : j # k =>
         process_tree'[processes[j].id] = process_tree[processes[j].id]
  <2>1. \A j \in 1..Len(processes) : j # k => processes[j].id # processes[k].id
    BY DEF Core, ListInv, UniqueIn
  <2>2. process_tree \in [Pids -> Pids \cup {Idle, NoEntry}]
    BY <1>0 DEF TypeOK
  <2> QED
    BY <1>0, <2>1, <2>2, PidFacts
<1>2. ASSUME NEW i \in 1..Len(processes')
      PROVE  \E j \in 1..Len(processes) :
                /\ processes'[i].id = processes[j].id
                /\ processes'[i].parent_id = processes[j].parent_id
                /\ process_tree'[processes[j].id] = process_tree[processes[j].id]
  <2>1. PICK j \in 1..Len(processes) : j # k /\ From(processes'[i], processes[j])
    OBVIOUS
  <2> WITNESS j \in 1..Len(processes)
  <2> QED
    BY <1>1, <2>1 DEF From
<1> QED
  BY <1>0, <1>2, TreeKept

\* Every operation keeps the process tree in step with the parent_id of the records.
LEMMA NextTree ==
    ASSUME Core, Below, TreeMatchesRecords, [Next]_vars PROVE TreeMatchesRecords'
<1>0. /\ TypeOK /\ TypeOK' /\ Len(processes) \in Nat
      /\ DOMAIN processes = 1..Len(processes)
      /\ process_tree \in [Pids -> Pids \cup {Idle, NoEntry}]
  BY NextCore, ListFacts DEF Core, TypeOK
<1>a. \A i \in 1..Len(processes) : processes[i].id # next_pid
  BY <1>0, PidFacts DEF Below
<1>b. ASSUME Inherited,
             \A p \in Pids : p # next_pid => process_tree'[p] = process_tree[p]
      PROVE  TreeMatchesRecords'
  <2>1. \A j \in 1..Len(processes) :
           process_tree'[processes[j].id] = process_tree[processes[j].id]
    BY <1>0, <1>a, <1>b, PidFacts
  <2>2. \A i \in 1..Len(processes') : \E j \in 1..Len(processes) :
              /\ processes'[i].id = processes[j].id
              /\ processes'[i].parent_id = processes[j].parent_id
    BY <1>b DEF Inherited, From
  <2> QED
    BY <1>0, <2>1, <2>2, TreeKept
<1>1. CASE SysFork
  <2>1. process_tree' = [process_tree EXCEPT ![next_pid] = current]
    BY <1>1 DEF SysFork, RegisterChild
  <2> QED
    BY <1>0, <1>1, <1>b, <2>1, ForkCore
<1>2. ASSUME NEW code \in ExitCodes, SysExit(code) PROVE TreeMatchesRecords'
  <2>1. /\ code \in Int /\ Len(processes') = Len(processes) /\ processes' \in Seq(Process)
        /\ process_tree' = [c \in Pids |-> IF c \in ExitKids THEN Idle
                                                             ELSE process_tree[c]]
    BY <1>0, <1>2, ExitEffect
  <2>2. DOMAIN processes' = 1..Len(processes)
    BY <2>1, LenProperties
  <2> SUFFICES ASSUME NEW i \in 1..Len(processes)
               PROVE  process_tree'[processes'[i].id] = processes'[i].parent_id
    BY <2>2 DEF TreeMatchesRecords
  <2>3. /\ processes[i] \in Process
        /\ processes'[i] = AfterExit(processes[i], current, code, ExitParent, ExitKids)
    BY <1>0, <1>2, ExitEffect, ListFacts
  <2>4. /\ processes'[i].id = processes[i].id
        /\ processes'[i].parent_id = IF processes[i].id \in ExitKids
                                     THEN Idle ELSE processes[i].parent_id
    <3>1. code \in Int
      BY <2>1
    <3> QED
      BY <2>3, <3>1, AfterExitRecord
  <2>5. processes[i].id \in Pids /\ process_tree[processes[i].id] = processes[i].parent_id
    BY <1>0, PidFacts DEF TreeMatchesRecords
  <2> QED
    BY <2>1, <2>4, <2>5
<1>3. ASSUME NEW target \in WaitTargets, Wait4Reap(target) PROVE TreeMatchesRecords'
  BY <1>0, <1>3, ReapCore, TreeRemove
<1>4. ASSUME NEW target \in WaitTargets, Wait4Block(target) PROVE TreeMatchesRecords'
  <2>1. process_tree' = process_tree
    BY <1>4 DEF Wait4Block
  <2>2. \A i \in 1..Len(processes') : \E j \in 1..Len(processes) :
              /\ processes'[i].id = processes[j].id
              /\ processes'[i].parent_id = processes[j].parent_id
    BY <1>4, BlockCore DEF From
  <2> QED
    BY <1>0, <2>1, <2>2, TreeKept
<1>5. CASE SysSchedYield
  BY <1>5, <1>b, YieldCore DEF SysSchedYield
<1>6. CASE HandleSwitch
  BY <1>6, <1>b, SwitchCore
<1>7. ASSUME NEW parent, Grown(parent), next_pid \in Pids PROVE TreeMatchesRecords'
  <2>1. DOMAIN processes' = 1..(Len(processes) + 1)
    BY <1>0, <1>7, LenProperties DEF Grown, TypeOK
  <2> SUFFICES ASSUME NEW i \in 1..(Len(processes) + 1)
               PROVE  process_tree'[processes'[i].id] = processes'[i].parent_id
    BY <2>1 DEF TreeMatchesRecords
  <2>2. CASE i = Len(processes) + 1
    BY <1>0, <1>7, <2>2 DEF Grown
  <2>3. CASE i # Len(processes) + 1
    <3>1. i \in 1..Len(processes)
      BY <1>0, <2>3
    <3>2. /\ processes'[i].id = processes[i].id
          /\ processes'[i].parent_id = processes[i].parent_id
          /\ process_tree[processes[i].id] = processes[i].parent_id
      BY <1>0, <1>7, <3>1 DEF Grown, From, TreeMatchesRecords
    <3>3. process_tree'[processes[i].id] = process_tree[processes[i].id]
      BY <1>0, <1>7, <1>a, <3>1, PidFacts DEF Grown
    <3> QED
      BY <3>2, <3>3
  <2> QED
    BY <2>2, <2>3
<1>8. CASE NewProcess
  BY <1>7, <1>8, NewProcessCore DEF NewProcess
<1>9. CASE SpawnChild
  BY <1>7, <1>9, SpawnCore DEF SpawnChild
<1>10. CASE CleanupTerminatedProcess
  BY <1>0, <1>10, CleanupCore, TreeRemove
<1>11. CASE UNCHANGED vars
  BY <1>11 DEF vars, TreeMatchesRecords
<1> QED
  BY <1>1, <1>2, <1>3, <1>4, <1>5, <1>6, <1>8, <1>9, <1>10, <1>11 DEF Next, KernelNext, SystemCall

-----------------------------------------------------------------------------
(* Theorems *)

IInv == Core /\ Below /\ NoLostWakeup /\ TreeMatchesRecords

\* The empty table of Scheduler::new, and the table init_tasks leaves behind.
LEMMA InitIInv == Init => IInv
<1> SUFFICES ASSUME Init PROVE IInv
  OBVIOUS
<1>1. processes = <<>> /\ Len(processes) = 0 /\ DOMAIN processes = {}
      /\ processes \in Seq(Process)
  BY EmptySeq DEF Init
<1>2. TypeOK
  BY <1>1, SchedulerAssumption DEF Init, TypeOK, Idle, NoEntry
<1> QED
  BY <1>1, <1>2 DEF Init, IInv, Core, Below, ListInv, UniqueIn, AddressSpaceIsCurrent,
                    NoLostWakeup, TreeMatchesRecords, Idle

\* The state init_tasks leaves satisfies the core invariant and NoLostWakeup.
LEMMA BootInitCore == BootInit => Core /\ NoLostWakeup
<1> SUFFICES ASSUME BootInit PROVE Core /\ NoLostWakeup
  OBVIOUS
<1> DEFINE a == ProcessNew(1, Idle)
           b == ProcessNew(2, Idle)
<1>1. 1 \in Pids /\ 2 \in Pids
  BY SchedulerAssumption DEF Pids
<1>2. /\ a \in Process /\ a.id = 1 /\ a.state = "Ready"
      /\ b \in Process /\ b.id = 2 /\ b.state = "Ready"
  BY <1>1, NewRecord
<1>3. processes = <<a, b>>
  BY DEF BootInit
<1> HIDE DEF a, b
<1>4. processes \in Seq(Process) /\ Len(processes) = 2
      /\ processes[1] = a /\ processes[2] = b
  BY <1>2, <1>3
<1>5. DOMAIN processes = 1..2
  BY <1>4, LenProperties
<1>6. ListInv(processes, Idle)
  BY <1>2, <1>4 DEF ListInv, UniqueIn, Idle
<1>7. TypeOK
  BY <1>1, <1>4, SchedulerAssumption DEF BootInit, TypeOK, Idle, NoEntry
<1>8. NoLostWakeup
  BY <1>2, <1>4, <1>5 DEF NoLostWakeup
<1> QED
  BY <1>6, <1>7, <1>8 DEF BootInit, Core, AddressSpaceIsCurrent

\* The inductive invariant holds throughout, over system calls, timer ticks,
\* creation and cleanup of processes.
THEOREM Invariance == Spec => []IInv
<1>1. IInv /\ [Next]_vars => IInv'
  BY NextCore, NextWakeup, NextTree DEF IInv
<1> QED
  BY InitIInv, <1>1, PTL DEF Spec

\* The same without the pid counter and the tree for the kernel as it boots,
\* whose pid counter starts below the pids of the boot processes.
THEOREM BootInvariance == BootSpec => [](Core /\ NoLostWakeup)
<1>1. Core /\ NoLostWakeup /\ [KernelNext]_vars => (Core /\ NoLostWakeup)'
  BY KernelCore, KernelWakeup
<1> QED
  BY BootInitCore, <1>1, PTL DEF BootSpec

\* The process table, the tree, the orphan list and the CPU data hold values of
\* their types after any sequence of operations.
THEOREM TypeCorrect == Spec => []TypeOK
<1>1. IInv => TypeOK
  BY DEF IInv, Core
<1> QED
  BY Invariance, <1>1, PTL

\* No two records share a pid, the current process is at the front if it is in
\* the list, and only it may be Running: the front-only lookup of the system
\* calls always finds its caller.
THEOREM CallerFound == Spec => []ListMatchesCpu
<1>1. IInv => ListMatchesCpu
  BY CoreImplies DEF IInv, ListMatchesCpu
<1> QED
  BY Invariance, <1>1, PTL

\* CR3 holds the page table of the current process, on every switching path.
THEOREM PageTableLoaded == Spec => []AddressSpaceIsCurrent
<1>1. IInv => AddressSpaceIsCurrent
  BY DEF IInv, Core
<1> QED
  BY Invariance, <1>1, PTL

\* wait4 and exit lose no wake-up: no process is blocked for a child that is
\* already a zombie.
THEOREM WakeupsKept == Spec => []NoLostWakeup
<1>1. IInv => NoLostWakeup
  BY DEF IInv
<1> QED
  BY Invariance, <1>1, PTL

\* process_tree agrees with the parent_id of every process in the list.
THEOREM TreeCorrect == Spec => []TreeMatchesRecords
<1>1. IInv => TreeMatchesRecords
  BY DEF IInv
<1> QED
  BY Invariance, <1>1, PTL

\* The booted kernel, with its two literal pids, keeps the same guarantees for
\* the caller lookup, CR3 and wake-ups.
THEOREM BootSafe ==
    BootSpec => [](/\ TypeOK /\ ListMatchesCpu /\ AddressSpaceIsCurrent /\ NoLostWakeup)
<1>1. Core => TypeOK /\ ListMatchesCpu /\ AddressSpaceIsCurrent
  BY CoreImplies DEF Core, ListMatchesCpu
<1> QED
  BY BootInvariance, <1>1, PTL
=============================================================================
