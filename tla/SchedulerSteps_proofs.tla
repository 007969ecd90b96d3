----------------------- MODULE SchedulerSteps_proofs ------------------------
(***************************************************************************)
(* Proofs about the steps of Scheduler, on top of its invariants: what one *)
(* operation may make of the record of a process, and what follows for the *)
(* count of children, for blocked processes and for zombies.               *)
(***************************************************************************)
EXTENDS Scheduler_proofs, FiniteSetTheorems

(* What a step makes of a record *)

Family(r) == <<r.children, r.children_count>>

\* The process exiting in this step is a child that old waits for.
Awaited(old) ==
    /\ old.waiting_for \in {AnyChild, current}
    /\ \E k \in DOMAIN processes : /\ processes[k].id = current
                                   /\ processes[k].parent_id = old.id

\* Record new is what a step made of old: only the caller may turn into a zombie, a
\* process that is not the caller rests unless a child it waits for exits, and its
\* children change by add_child and remove_child only.
Carried(new, old) ==
    /\ new.id = old.id
    /\ new.state = "Zombie" => old.state = "Zombie" \/ old.id = current
    /\ old.id # current =>
         /\ new.exit_code = old.exit_code
         /\ old.state = "Zombie" => new.state = "Zombie"
         /\ old.state = "Waiting" => new.state = "Waiting" \/ Awaited(old)
    /\ \/ Family(new) = Family(old)
       \/ \E c : Family(new) = Family(RemoveChild(old, c))
       \/ next_pid' = next_pid + 1 /\ Family(new) = Family(AddChild(old, next_pid))

\* Every record of the list after the step comes from one before it.
AllCarried == \A i \in 1..Len(processes') : \E j \in 1..Len(processes) :
                 Carried(processes'[i], processes[j])

\* A record a step leaves alone.
LEMMA CarriedSame == \A r : Carried(r, r)
  BY DEF Carried

\* remove_child and add_child.
LEMMA CarriedChildren ==
    ASSUME NEW r \in Process
    PROVE  /\ \A c : Carried(RemoveChild(r, c), r)
           /\ next_pid' = next_pid + 1 => Carried(AddChild(r, next_pid), r)
<1>1. ASSUME NEW c
      PROVE  /\ RemoveChild(r, c).id = r.id /\ RemoveChild(r, c).state = r.state
             /\ RemoveChild(r, c).exit_code = r.exit_code
             /\ AddChild(r, c).id = r.id /\ AddChild(r, c).state = r.state
             /\ AddChild(r, c).exit_code = r.exit_code
  BY DEF RemoveChild, AddChild, Process
<1> QED
  BY <1>1 DEF Carried

\* wait4, sched_yield and schedule change states and contexts.
LEMMA CarriedState ==
    ASSUME NEW old \in Process, NEW new \in Process, new.id = old.id,
           new.exit_code = old.exit_code, Family(new) = Family(old),
           new.state # "Zombie" \/ old.state = "Zombie",
           \/ old.id = current \/ new.state = old.state
           \/ old.state \in {"Ready", "Running"}
    PROVE  Carried(new, old)
  BY DEF Carried

\* Rotating the list keeps its elements.
LEMMA RotateElements ==
    ASSUME NEW S, NEW s \in Seq(S), s # <<>>
    PROVE  \A i \in 1..Len(RotateLeft(s)) : \E j \in 1..Len(s) : RotateLeft(s)[i] = s[j]
<1>1. /\ Len(s) \in Nat /\ Len(s) > 0 /\ Len(RotateLeft(s)) = Len(s)
      /\ RotateLeft(s)[Len(s)] = s[1]
      /\ \A i \in 1..(Len(s) - 1) : RotateLeft(s)[i] = s[i+1]
  BY RotateLeftProperties, LenProperties, EmptySeq
<1> SUFFICES ASSUME NEW i \in 1..Len(s) PROVE \E j \in 1..Len(s) : RotateLeft(s)[i] = s[j]
  BY <1>1
<1>2. CASE i = Len(s)
  BY <1>1, <1>2
<1>3. CASE i # Len(s)
  <2>1. i \in 1..(Len(s) - 1) /\ i + 1 \in 1..Len(s)
    BY <1>1, <1>3
  <2> QED
    BY <1>1, <2>1
<1> QED
  BY <1>2, <1>3

\* register_child.
LEMMA RegisterCarried ==
    ASSUME NEW s \in Seq(Process), next_pid' = next_pid + 1, RegisterChild(s, next_pid)
    PROVE  /\ Len(processes') = Len(s)
           /\ \A i \in 1..Len(s) : /\ Carried(processes'[i], s[i])
                                   /\ s[i].id # current => processes'[i] = s[i]
<1>1. /\ Len(s) \in Nat /\ DOMAIN s = 1..Len(s)
      /\ \A i \in 1..Len(s) : s[i] \in Process
  BY LenProperties, ElementOfSeq
<1>2. processes' = [i \in 1..Len(s) |-> IF s[i].id = current
                                       THEN AddChild(s[i], next_pid) ELSE s[i]]
  BY <1>1 DEF RegisterChild
<1>3. Len(processes') = Len(s)
  BY <1>1, <1>2
<1> QED
  BY <1>1, <1>2, <1>3, CarriedChildren, CarriedSame

\* exit, field by field.
LEMMA AfterExitFields ==
    ASSUME NEW r \in Process, NEW pid, NEW code \in Int, NEW parent, NEW kids
    PROVE  LET new == AfterExit(r, pid, code, parent, kids)
           IN  /\ Family(new) = IF parent # Idle /\ r.id = parent
                                THEN Family(RemoveChild(r, pid)) ELSE Family(r)
               /\ r.id # pid =>
                    /\ new.exit_code = r.exit_code
                    /\ r.state = "Zombie" => new.state = "Zombie"
                    /\ r.state = "Waiting" =>
                         \/ new.state = "Waiting"
                         \/ /\ parent # Idle /\ r.id = parent
                            /\ r.waiting_for \in {pid, AnyChild}
<1> DEFINE exited   == IF r.id = pid
                       THEN [r EXCEPT !.state = "Zombie", !.waiting_for = Idle,
                                      !.exit_code = code]
                       ELSE r
           unlinked == IF parent # Idle /\ r.id = parent
                       THEN RemoveChild(exited, pid) ELSE exited
           orphaned == IF r.id \in kids
                       THEN [unlinked EXCEPT !.parent_id = Idle] ELSE unlinked
           final    == IF parent # Idle /\ r.id = parent
                       THEN Wake(orphaned, pid) ELSE orphaned
<1>1. final = AfterExit(r, pid, code, parent, kids)
  BY DEF AfterExit
<1>2. /\ exited \in Process /\ exited.id = r.id
      /\ exited.children = r.children /\ exited.children_count = r.children_count
      /\ r.id # pid => exited = r
  BY DEF Process
<1> HIDE DEF exited
<1>3. /\ unlinked \in Process
      /\ unlinked.state = exited.state /\ unlinked.waiting_for = exited.waiting_for
      /\ unlinked.exit_code = exited.exit_code
      /\ Family(unlinked) = IF parent # Idle /\ r.id = parent
                            THEN Family(RemoveChild(r, pid)) ELSE Family(r)
  <2>1. CASE parent # Idle /\ r.id = parent
    <3>1. RemoveChild(exited, pid).exit_code = exited.exit_code
      BY <1>2 DEF RemoveChild, Process
    <3>2. Family(RemoveChild(exited, pid)) = Family(RemoveChild(r, pid))
      BY <1>2 DEF Family, RemoveChild, Process
    <3> QED
      BY <1>2, <2>1, <3>1, <3>2, RemoveChildRecord
  <2>2. CASE ~(parent # Idle /\ r.id = parent)
    BY <1>2, <2>2 DEF Family
  <2> QED
    BY <2>1, <2>2
<1> HIDE DEF unlinked
<1>4. /\ orphaned \in Process
      /\ orphaned.state = exited.state /\ orphaned.waiting_for = exited.waiting_for
      /\ orphaned.exit_code = exited.exit_code /\ Family(orphaned) = Family(unlinked)
  BY <1>3 DEF Process, Family
<1> HIDE DEF orphaned
<1>5. /\ Family(final) = Family(orphaned) /\ final.exit_code = orphaned.exit_code
      /\ orphaned.state = "Zombie" => final.state = "Zombie"
      /\ orphaned.state = "Waiting" =>
           \/ final.state = "Waiting"
           \/ /\ parent # Idle /\ r.id = parent
              /\ orphaned.waiting_for \in {pid, AnyChild}
  BY <1>4 DEF Wake, Process, Family
<1> HIDE DEF final
<1> QED
  BY <1>1, <1>2, <1>3, <1>4, <1>5

\* exit: the record it wakes is the parent of the caller.
LEMMA ExitCarried ==
    ASSUME Core, NEW code \in ExitCodes, SysExit(code) PROVE AllCarried
<1>0. TypeOK
  BY DEF Core
<1>1. /\ code \in Int /\ Len(processes') = Len(processes)
      /\ \A i \in 1..Len(processes) :
            processes'[i] = AfterExit(processes[i], current, code, ExitParent, ExitKids)
  BY <1>0, ExitEffect
<1> SUFFICES ASSUME NEW i \in 1..Len(processes)
             PROVE  Carried(processes'[i], processes[i])
  BY <1>1 DEF AllCarried
<1> DEFINE r == processes[i]
           new == AfterExit(r, current, code, ExitParent, ExitKids)
<1>2. r \in Process /\ processes'[i] = new
  BY <1>0, <1>1, ListFacts
<1>3. code \in Int
  BY <1>1
<1> HIDE DEF r
<1>4. /\ new.id = r.id
      /\ r.id # current => new.state \in {r.state, "Ready"}
  BY <1>2, <1>3, AfterExitRecord
<1>5. /\ Family(new) = IF ExitParent # Idle /\ r.id = ExitParent
                       THEN Family(RemoveChild(r, current)) ELSE Family(r)
      /\ r.id # current =>
           /\ new.exit_code = r.exit_code
           /\ r.state = "Zombie" => new.state = "Zombie"
           /\ r.state = "Waiting" =>
                \/ new.state = "Waiting"
                \/ /\ ExitParent # Idle /\ r.id = ExitParent
                   /\ r.waiting_for \in {current, AnyChild}
  BY <1>2, <1>3, AfterExitFields
<1>6. ASSUME ExitParent # Idle
      PROVE  \E k \in DOMAIN processes : /\ processes[k].id = current
                                         /\ processes[k].parent_id = ExitParent
  <2>1. Exists(current) /\ ExitParent = processes[PositionOf(current)].parent_id
    BY <1>6 DEF ExitParent
  <2>2. PositionOf(current) \in DOMAIN processes /\ processes[PositionOf(current)].id = current
    BY <2>1 DEF PositionOf, Exists
  <2> QED
    BY <2>1, <2>2
<1>7. ExitParent # Idle /\ r.id = ExitParent /\ r.waiting_for \in {current, AnyChild}
        => Awaited(r)
  BY <1>6 DEF Awaited
<1> HIDE DEF new
<1>8. Carried(new, r)
  <2>1. new.state = "Zombie" => r.state = "Zombie" \/ r.id = current
    BY <1>4
  <2> QED
    BY <1>4, <1>5, <1>7, <2>1 DEF Carried
<1> QED
  BY <1>2, <1>8 DEF r

\* wait4, reaping.
LEMMA ReapCarried ==
    ASSUME Core, NEW target \in WaitTargets, Wait4Reap(target) PROVE AllCarried
<1>1. PICK k \in Matching(target) :
        LET rest == RemoveIndex(processes, k)
        IN  processes' = [i \in DOMAIN rest |->
                            IF rest[i].id = current
                            THEN RemoveChild(rest[i], processes[k].id) ELSE rest[i]]
  BY DEF Wait4Reap
<1> DEFINE rest == RemoveIndex(processes, k)
<1>2. k \in 1..Len(processes) /\ processes[k].state = "Zombie"
  BY ListFacts DEF Core, Matching, ZombieChildren
<1>3. /\ rest \in Seq(Process)
      /\ \A i \in 1..Len(rest) : \E j \in 1..Len(processes) : rest[i] = processes[j]
  BY <1>2, ListFacts, ListInvRemove DEF Core
<1>4. /\ Len(rest) \in Nat /\ DOMAIN rest = 1..Len(rest)
      /\ \A i \in 1..Len(rest) : rest[i] \in Process
  BY <1>3, LenProperties, ElementOfSeq
<1>5. processes' = [i \in 1..Len(rest) |->
                      IF rest[i].id = current
                      THEN RemoveChild(rest[i], processes[k].id) ELSE rest[i]]
  BY <1>1, <1>4
<1> HIDE DEF rest
<1>6. Len(processes') = Len(rest)
  BY <1>4, <1>5
<1>7. \A i \in 1..Len(rest) : Carried(processes'[i], rest[i])
  BY <1>4, <1>5, CarriedChildren, CarriedSame
<1> QED
  BY <1>3, <1>6, <1>7 DEF AllCarried

\* wait4, blocking.
LEMMA BlockCarried ==
    ASSUME Core, NEW target \in WaitTargets, Wait4Block(target) PROVE AllCarried
<1> DEFINE blocked(r) == [r EXCEPT !.state = "Waiting", !.waiting_for = target]
           s == [processes EXCEPT ![1].state = "Waiting", ![1].waiting_for = target]
<1>1. /\ 1 \in 1..Len(processes) /\ processes # <<>> /\ processes[1].id = current
      /\ processes' = RotateLeft(s)
  BY ListFacts DEF Core, Wait4Block, CurrentAtFront, Front
<1>2. s = [i \in 1..Len(processes) |-> IF i = 1 THEN blocked(processes[i]) ELSE processes[i]]
  BY ListFacts DEF Core
<1>3. \A r \in Process : /\ blocked(r) \in Process /\ blocked(r).id = r.id
                         /\ blocked(r).exit_code = r.exit_code
                         /\ Family(blocked(r)) = Family(r) /\ blocked(r).state # "Zombie"
  BY StateRecord DEF Process, Family
<1> HIDE DEF blocked, s
<1>4. s \in [1..Len(processes) -> Process]
  BY <1>2, <1>3, ListFacts DEF Core
<1>5. s \in Seq(Process) /\ Len(s) = Len(processes) /\ s # <<>>
  BY <1>1, <1>4, ListFacts, FunctionIsSeq, EmptySeq DEF Core
<1>6. ASSUME NEW j \in 1..Len(processes) PROVE Carried(s[j], processes[j])
  <2>1. s[j] \in Process /\ processes[j] \in Process
    BY <1>4, ListFacts DEF Core
  <2>2. CASE j = 1
    BY <1>1, <1>2, <1>3, <2>1, <2>2, CarriedState
  <2>3. CASE j # 1
    BY <1>2, <2>3, CarriedSame
  <2> QED
    BY <2>2, <2>3
<1>7. \A i \in 1..Len(processes') : \E j \in 1..Len(processes) : processes'[i] = s[j]
  BY <1>1, <1>5, RotateElements
<1> QED
  BY <1>6, <1>7 DEF AllCarried

\* sched_yield.
LEMMA YieldCarried == ASSUME Core, SysSchedYield PROVE AllCarried
<1> DEFINE ready(r) == [r EXCEPT !.state = "Ready", !.waiting_for = Idle]
<1>1. processes' = [i \in 1..Len(processes) |->
                      IF i = 1 THEN ready(processes[i]) ELSE processes[i]]
  BY ListFacts DEF Core, SysSchedYield
<1>2. \A r \in Process : /\ ready(r) \in Process /\ ready(r).id = r.id
                         /\ ready(r).exit_code = r.exit_code
                         /\ Family(ready(r)) = Family(r) /\ ready(r).state # "Zombie"
  BY StateRecord DEF Process, Family
<1> HIDE DEF ready
<1>3. processes' \in [1..Len(processes) -> Process] /\ Len(processes) \in Nat
  BY <1>1, <1>2, ListFacts DEF Core
<1>4. Len(processes') = Len(processes)
  BY <1>3, FunctionIsSeq
<1>5. ASSUME NEW j \in 1..Len(processes) PROVE Carried(processes'[j], processes[j])
  <2>1. processes'[j] \in Process /\ processes[j] \in Process
    BY <1>3, ListFacts DEF Core
  <2>2. CASE j = 1
    <3>1. processes[j].id = current
      BY <2>2 DEF SysSchedYield, CurrentAtFront, Front
    <3> QED
      BY <1>1, <1>2, <2>1, <2>2, <3>1, CarriedState
  <2>3. CASE j # 1
    BY <1>1, <2>3, CarriedSame
  <2> QED
    BY <2>2, <2>3
<1> QED
  BY <1>4, <1>5 DEF AllCarried

\* schedule: the process it picks is runnable.
LEMMA SwitchCarried == ASSUME Core, HandleSwitch PROVE AllCarried
<1>1. CASE SwitchToRunnable
  <2>1. PICK k \in Runnable : processes' = Switched(k)
    BY <1>1 DEF SwitchToRunnable, Switched
  <2> DEFINE s == processes
             m == MoveToFront(s, k)
             f(x) == IF x = 1 THEN k ELSE IF x <= k THEN x - 1 ELSE x
  <2>2. k \in 1..Len(s) /\ s[k].state \in {"Ready", "Running"} /\ s \in Seq(Process)
        /\ Len(s) \in Nat
    BY ListFacts DEF Core, Runnable
  <2>3. /\ m \in Seq(Process) /\ Len(m) = Len(s) /\ DOMAIN m = 1..Len(s)
        /\ m[1] = s[k]
        /\ \A i \in 2..k : m[i] = s[i-1]
        /\ \A i \in (k+1)..Len(s) : m[i] = s[i]
    BY <2>2, MoveToFrontProperties, LenProperties
  <2>4. processes' = [i \in 1..Len(s) |->
             CASE i = 1 -> [m[i] EXCEPT !.state = "Running"]
               [] i = 2 -> [m[i] EXCEPT !.context_ptr = current,
                              !.state = IF @ = "Running" THEN "Ready" ELSE @]
               [] OTHER -> m[i]]
    BY <2>1, <2>3 DEF Switched
  <2>5. Len(processes') = Len(s) /\ processes' \in Seq(Process)
    BY <2>1, <2>2, ListInvSwitch DEF Core, TypeOK
  <2> HIDE DEF m
  <2>6. \A i \in 1..Len(s) : f(i) \in 1..Len(s) /\ m[i] = s[f(i)] /\ m[i] \in Process
    BY <2>2, <2>3, ElementOfSeq
  <2>7. ASSUME NEW i \in 1..Len(s) PROVE Carried(processes'[i], m[i])
    <3>0. m[i] \in Process /\ processes'[i] \in Process
      BY <2>5, <2>6, ElementOfSeq
    <3>a. processes'[i] = CASE i = 1 -> [m[i] EXCEPT !.state = "Running"]
                            [] i = 2 -> [m[i] EXCEPT !.context_ptr = current,
                                           !.state = IF @ = "Running" THEN "Ready" ELSE @]
                            [] OTHER -> m[i]
      BY <2>4, Zenon
    <3>1. CASE i = 1
      <4>1. processes'[i] = [m[i] EXCEPT !.state = "Running"]
            /\ m[i].state \in {"Ready", "Running"}
        BY <2>2, <2>3, <3>a, <3>1
      <4>2. /\ processes'[i].id = m[i].id /\ processes'[i].exit_code = m[i].exit_code
            /\ Family(processes'[i]) = Family(m[i]) /\ processes'[i].state # "Zombie"
        BY <3>0, <4>1 DEF Process, Family
      <4> QED
        BY <3>0, <4>1, <4>2, CarriedState
    <3>2. CASE i = 2
      <4> DEFINE st == IF m[i].state = "Running" THEN "Ready" ELSE m[i].state
      <4>1. processes'[i] = [m[i] EXCEPT !.context_ptr = current, !.state = st]
        BY <3>a, <3>2
      <4>2. /\ st # "Zombie" \/ m[i].state = "Zombie"
            /\ st = m[i].state \/ m[i].state \in {"Ready", "Running"}
        OBVIOUS
      <4> HIDE DEF st
      <4>3. /\ processes'[i].id = m[i].id /\ processes'[i].exit_code = m[i].exit_code
            /\ Family(processes'[i]) = Family(m[i]) /\ processes'[i].state = st
        BY <3>0, <4>1 DEF Process, Family
      <4> QED
        BY <3>0, <4>2, <4>3, CarriedState
    <3>3. CASE i \notin {1, 2}
      <4>1. processes'[i] = m[i]
        BY <2>4, <3>3
      <4> QED
        BY <4>1, CarriedSame
    <3> QED
      BY <3>1, <3>2, <3>3
  <2> QED
    BY <2>5, <2>6, <2>7 DEF AllCarried
<1>2. CASE SwitchRoundRobin
  <2> DEFINE s == [processes EXCEPT ![1].context_ptr = current]
  <2>1. /\ processes # <<>> /\ Len(processes) > 0 /\ Len(processes) \in Nat
        /\ processes' = RotateLeft(s)
    BY <1>2, ListFacts DEF Core, SwitchRoundRobin
  <2>2. s = [i \in 1..Len(processes) |->
               IF i = 1 THEN [processes[i] EXCEPT !.context_ptr = current]
                        ELSE processes[i]]
    BY ListFacts DEF Core
  <2> HIDE DEF s
  <2>3. s \in [1..Len(processes) -> Process]
    BY <2>2, ListFacts, ContextRecord DEF Core, TypeOK
  <2>4. s \in Seq(Process) /\ Len(s) = Len(processes) /\ s # <<>>
    BY <2>1, <2>3, FunctionIsSeq, EmptySeq
  <2>5. ASSUME NEW j \in 1..Len(processes) PROVE Carried(s[j], processes[j])
    <3>1. s[j] \in Process /\ processes[j] \in Process
      BY <2>3, ListFacts DEF Core
    <3>2. /\ s[j].id = processes[j].id /\ s[j].exit_code = processes[j].exit_code
          /\ Family(s[j]) = Family(processes[j]) /\ s[j].state = processes[j].state
      BY <2>2, <3>1 DEF Process, Family
    <3> QED
      BY <3>1, <3>2, CarriedState
  <2>6. \A i \in 1..Len(processes') : \E j \in 1..Len(processes) : processes'[i] = s[j]
    BY <2>1, <2>4, RotateElements
  <2> QED
    BY <2>5, <2>6 DEF AllCarried
<1>3. CASE SwitchIdle
  BY <1>3, CarriedSame DEF SwitchIdle, AllCarried
<1> QED
  BY <1>1, <1>2, <1>3 DEF HandleSwitch

\* System calls and the timer.
LEMMA KernelCarried ==
    ASSUME Core, [KernelNext]_vars PROVE AllCarried /\ next_pid' \in {next_pid, next_pid + 1}
<1>1. CASE SysFork
  BY <1>1, RegisterCarried DEF Core, TypeOK, SysFork, AllCarried
<1>2. ASSUME NEW code \in ExitCodes, SysExit(code) PROVE AllCarried /\ next_pid' = next_pid
  BY <1>2, ExitCarried DEF SysExit
<1>3. ASSUME NEW target \in WaitTargets, Wait4Reap(target) \/ Wait4Block(target)
      PROVE  AllCarried /\ next_pid' = next_pid
  BY <1>3, ReapCarried, BlockCarried DEF Wait4Reap, Wait4Block
<1>4. CASE SysSchedYield
  BY <1>4, YieldCarried DEF SysSchedYield
<1>5. CASE HandleSwitch
  BY <1>5, SwitchCarried, SwitchCore
<1>6. CASE UNCHANGED vars
  BY <1>6, CarriedSame DEF vars, AllCarried
<1> QED
  BY <1>1, <1>2, <1>3, <1>4, <1>5, <1>6 DEF KernelNext, SystemCall

\* Creating and discarding processes: a record that comes from none before the step
\* is a new one.
Fresh(r) == r.id = next_pid /\ r.children = {} /\ r.children_count = 0

\* Every operation.
LEMMA NextCarried ==
    ASSUME Core, Below, [Next]_vars
    PROVE  /\ next_pid' \in {next_pid, next_pid + 1}
           /\ \A i \in 1..Len(processes') :
                \/ Fresh(processes'[i]) /\ next_pid' = next_pid + 1
                \/ \E j \in 1..Len(processes) : Carried(processes'[i], processes[j])
<1>0. /\ TypeOK /\ Len(processes) \in Nat /\ processes \in Seq(Process)
      /\ current \in Pids \cup {Idle} /\ current # next_pid
  BY ListFacts, PidFacts DEF Core, TypeOK, Below
<1>1. CASE [KernelNext]_vars
  BY <1>1, KernelCarried DEF AllCarried
<1>2. CASE NewProcess
  <2>1. next_pid \in Pids /\ processes' = Append(processes, ProcessNew(next_pid, Idle))
        /\ next_pid' = next_pid + 1
    BY <1>2 DEF NewProcess
  <2>2. /\ Len(processes') = Len(processes) + 1
        /\ processes'[Len(processes) + 1] = ProcessNew(next_pid, Idle)
        /\ \A i \in 1..Len(processes) : processes'[i] = processes[i]
    BY <2>1, AppendNew
  <2>3. Fresh(ProcessNew(next_pid, Idle))
    BY DEF Fresh, ProcessNew
  <2>4. \A i \in 1..Len(processes') : i = Len(processes) + 1 \/ i \in 1..Len(processes)
    BY <1>0, <2>2
  <2> QED
    BY <2>1, <2>2, <2>3, <2>4, CarriedSame
<1>3. CASE SpawnChild
  <2> DEFINE r == ProcessNew(next_pid, current)
             s == Append(processes, r)
  <2>1. next_pid \in Pids /\ RegisterChild(s, next_pid) /\ next_pid' = next_pid + 1
    BY <1>3 DEF SpawnChild
  <2>2. /\ s \in Seq(Process) /\ Len(s) = Len(processes) + 1
        /\ s[Len(processes) + 1] = r
        /\ \A i \in 1..Len(processes) : s[i] = processes[i]
    BY <1>0, <2>1, AppendNew
  <2>3. Fresh(r) /\ r.id # current
    BY <1>0 DEF Fresh, ProcessNew
  <2> HIDE DEF s, r
  <2>4. /\ Len(processes') = Len(s)
        /\ \A i \in 1..Len(s) : /\ Carried(processes'[i], s[i])
                                /\ s[i].id # current => processes'[i] = s[i]
    BY <2>1, <2>2, RegisterCarried
  <2>5. ASSUME NEW i \in 1..Len(processes')
        PROVE  \/ Fresh(processes'[i])
               \/ \E j \in 1..Len(processes) : Carried(processes'[i], processes[j])
    <3>1. i \in 1..Len(s) /\ (i = Len(processes) + 1 \/ i \in 1..Len(processes))
      BY <1>0, <2>2, <2>4
    <3>2. CASE i = Len(processes) + 1
      BY <2>2, <2>3, <2>4, <3>1, <3>2
    <3>3. CASE i \in 1..Len(processes)
      BY <2>2, <2>4, <3>1, <3>3
    <3> QED
      BY <3>1, <3>2, <3>3
  <2> QED
    BY <2>1, <2>5
<1>4. CASE CleanupTerminatedProcess
  <2>1. PICK k \in DOMAIN processes :
          /\ processes[k].state = "Zombie"
          /\ processes' = RemoveIndex(processes, k) /\ next_pid' = next_pid
    BY <1>4 DEF CleanupTerminatedProcess
  <2>2. k \in 1..Len(processes)
    BY <1>0, ListFacts
  <2>3. \A i \in 1..Len(processes') : \E j \in 1..Len(processes) : processes'[i] = processes[j]
    BY <1>0, <2>1, <2>2, ListInvRemove DEF Core
  <2> QED
    BY <2>1, <2>3, CarriedSame
<1> QED
  BY <1>1, <1>2, <1>3, <1>4 DEF Next

-----------------------------------------------------------------------------
(* The count of children *)

\* children is a set of pids that allocate_pid has handed out, as large as
\* children_count says and within the limit: the next pid is in no such set.
Counted(r, next) ==
    /\ r.children \subseteq 1..(next - 1)
    /\ r.children_count = Cardinality(r.children)
    /\ r.children_count <= MaxProcesses

CountInv == \A i \in 1..Len(processes) : Counted(processes[i], next_pid)

\* Such a set is finite.
LEMMA CountedFinite ==
    ASSUME NEW r, NEW next \in Int, Counted(r, next)
    PROVE  IsFiniteSet(r.children) /\ r.children_count \in Nat
<1>1. IsFiniteSet(1..(next - 1))
  BY FS_Interval
<1>2. r.children \in SUBSET (1..(next - 1))
  BY DEF Counted
<1>3. IsFiniteSet(r.children)
  BY <1>1, <1>2, FS_Subset
<1> QED
  BY <1>3, FS_CardinalityType DEF Counted

\* remove_child and add_child keep the count right.
LEMMA CountedChildren ==
    ASSUME NEW r \in Process, NEW next \in Int, next > 0, Counted(r, next)
    PROVE  /\ \A c : Counted(RemoveChild(r, c), next)
           /\ Counted(AddChild(r, next), next + 1)
<1>0. /\ IsFiniteSet(r.children) /\ r.children_count \in Nat /\ r.children \subseteq 1..(next - 1)
      /\ r.children_count = Cardinality(r.children) /\ r.children_count <= MaxProcesses
      /\ MaxProcesses \in Nat
  BY CountedFinite, SchedulerAssumption DEF Counted
<1>1. ASSUME NEW c PROVE Counted(RemoveChild(r, c), next)
  <2>1. CASE c \notin r.children
    BY <2>1 DEF RemoveChild
  <2>2. CASE c \in r.children
    <3>1. Cardinality(r.children \ {c}) = r.children_count - 1
      BY <1>0, <2>2, FS_RemoveElement
    <3>2. r.children_count # 0
      BY <1>0, <2>2, FS_EmptySet
    <3>3. /\ RemoveChild(r, c).children = r.children \ {c}
          /\ RemoveChild(r, c).children_count = r.children_count - 1
      BY <2>2, <3>2 DEF RemoveChild, Process
    <3> QED
      BY <1>0, <3>1, <3>3 DEF Counted
  <2> QED
    BY <2>1, <2>2
<1>2. CASE ~MayAddChild(r)
  BY <1>0, <1>1, <1>2 DEF AddChild, Counted
<1>3. CASE MayAddChild(r)
  <2>1. next \notin r.children
    BY <1>0
  <2>2. Cardinality(r.children \cup {next}) = r.children_count + 1
    BY <1>0, <2>1, FS_AddElement
  <2>3. /\ AddChild(r, next).children = r.children \cup {next}
        /\ AddChild(r, next).children_count = r.children_count + 1
    BY <1>3 DEF AddChild, Process
  <2>4. r.children_count + 1 <= MaxProcesses
    BY <1>0, <1>3 DEF MayAddChild
  <2>5. r.children \cup {next} \subseteq 1..((next + 1) - 1)
    BY <1>0
  <2> QED
    BY <1>1, <2>2, <2>3, <2>4, <2>5 DEF Counted
<1> QED
  BY <1>1, <1>2, <1>3

\* So a step keeps the count of every record right.
LEMMA CarriedCounted ==
    ASSUME NEW old \in Process, NEW new, next_pid \in Int, next_pid > 0,
           next_pid' \in {next_pid, next_pid + 1},
           Carried(new, old), Counted(old, next_pid)
    PROVE  Counted(new, next_pid')
<1>1. ASSUME NEW r, NEW q, Family(q) = Family(r), Counted(r, next_pid)
      PROVE  Counted(q, next_pid')
  <2>1. q.children = r.children /\ q.children_count = r.children_count
    BY <1>1 DEF Family
  <2> QED
    BY <1>1, <2>1 DEF Counted
<1>2. CASE Family(new) = Family(old)
  BY <1>1, <1>2
<1>3. ASSUME NEW c, Family(new) = Family(RemoveChild(old, c)) PROVE Counted(new, next_pid')
  BY <1>1, <1>3, CountedChildren
<1>4. CASE next_pid' = next_pid + 1 /\ Family(new) = Family(AddChild(old, next_pid))
  <2>1. Counted(AddChild(old, next_pid), next_pid')
    BY <1>4, CountedChildren
  <2>2. /\ new.children = AddChild(old, next_pid).children
        /\ new.children_count = AddChild(old, next_pid).children_count
    BY <1>4 DEF Family
  <2> QED
    BY <2>1, <2>2 DEF Counted
<1> QED
  BY <1>2, <1>3, <1>4 DEF Carried

\* System calls and the timer keep every count right.
LEMMA KernelCount == ASSUME Core, CountInv, [KernelNext]_vars PROVE CountInv'
  BY KernelCarried, CarriedCounted, ListFacts, PidFacts DEF Core, CountInv, AllCarried

\* So does every operation.
LEMMA NextCount == ASSUME Core, Below, CountInv, [Next]_vars PROVE CountInv'
<1>1. next_pid \in Int /\ next_pid > 0 /\ \A i \in 1..Len(processes) : processes[i] \in Process
  BY ListFacts, PidFacts DEF Core
<1> SUFFICES ASSUME NEW i \in 1..Len(processes') PROVE Counted(processes'[i], next_pid')
  BY DEF CountInv
<1>2. next_pid' \in {next_pid, next_pid + 1}
  BY NextCarried
<1>3. CASE Fresh(processes'[i])
  BY <1>1, <1>2, <1>3, FS_EmptySet, SchedulerAssumption DEF Fresh, Counted
<1>4. ASSUME NEW j \in 1..Len(processes), Carried(processes'[i], processes[j])
      PROVE  Counted(processes'[i], next_pid')
  BY <1>1, <1>2, <1>4, CarriedCounted DEF CountInv
<1> QED
  BY <1>3, <1>4, NextCarried

-----------------------------------------------------------------------------
(* Action properties *)

\* Records with one pid before and after a step are of one process.
LEMMA StepOfOne ==
    ASSUME Core, Core', (Below /\ [Next]_vars) \/ [KernelNext]_vars,
           NEW i \in DOMAIN processes, NEW j \in DOMAIN processes',
           processes[i].id = processes'[j].id
    PROVE  Carried(processes'[j], processes[i])
<1>1. i \in 1..Len(processes) /\ j \in 1..Len(processes')
  BY ListFacts, LenProperties DEF Core, TypeOK
<1>2. \E m \in 1..Len(processes) : Carried(processes'[j], processes[m])
  <2>1. CASE Below /\ [Next]_vars
    <3>1. ~Fresh(processes'[j])
      BY <1>1, <2>1, PidFacts DEF Core, Below, Fresh
    <3> QED
      BY <1>1, <2>1, <3>1, NextCarried
  <2>2. CASE [KernelNext]_vars
    BY <1>1, <2>2, KernelCarried DEF AllCarried
  <2> QED
    BY <2>1, <2>2
<1>3. PICK m \in 1..Len(processes) : Carried(processes'[j], processes[m])
  BY <1>2
<1>4. m = i
  BY <1>1, <1>3 DEF Core, ListInv, UniqueIn, Carried
<1> QED
  BY <1>3, <1>4

\* children_count is the length of the children list and within the limit, in the
\* kernel with all its operations.
THEOREM ChildrenCountRight == Spec => []ChildrenCounted
<1>1. Init => CountInv
  BY EmptySeq DEF Init, CountInv
<1>2. IInv /\ CountInv /\ [Next]_vars => CountInv'
  BY NextCount DEF IInv
<1>3. IInv /\ CountInv => ChildrenCounted
  BY ListFacts DEF IInv, Core, CountInv, Counted, ChildrenCounted
<1> QED
  BY <1>1, <1>2, <1>3, Invariance, PTL DEF Spec

\* A blocked process becomes ready only by its own call, or when a child it waits
\* for exits.
THEOREM WakeupsAreJustified == Spec => WakeupsJustified
<1>1. IInv /\ IInv' /\ [Next]_vars =>
        \A i \in DOMAIN processes, j \in DOMAIN processes' :
         /\ processes[i].id = processes'[j].id
         /\ processes[i].state = "Waiting"
         /\ processes'[j].state \in {"Ready", "Running"}
         => \/ processes[i].id = current
            \/ /\ processes[i].waiting_for \in {AnyChild, current}
               /\ \E k \in DOMAIN processes :
                    /\ processes[k].id = current
                    /\ processes[k].parent_id = processes[i].id
  BY StepOfOne DEF IInv, Carried, Awaited
<1> QED
  BY <1>1, Invariance, PTL DEF Spec, WakeupsJustified

\* A zombie that does not hold the CPU stays one, with its exit code, until its
\* record is removed.
THEOREM ZombiesAreLeftAlone == Spec => ZombiesRest
<1>1. IInv /\ IInv' /\ [Next]_vars =>
        \A i \in DOMAIN processes, j \in DOMAIN processes' :
         /\ processes[i].id = processes'[j].id
         /\ processes[i].state = "Zombie"
         /\ processes[i].id # current
         => /\ processes'[j].state = "Zombie"
            /\ processes'[j].exit_code = processes[i].exit_code
  BY StepOfOne DEF IInv, Carried
<1> QED
  BY <1>1, Invariance, PTL DEF Spec, ZombiesRest

\* All three hold of the booted kernel.
THEOREM BootSteps == BootSpec => []ChildrenCounted /\ WakeupsJustified /\ ZombiesRest
<1>1. BootInit => CountInv
  <2> SUFFICES ASSUME BootInit, NEW i \in 1..Len(processes)
               PROVE  Counted(processes[i], next_pid)
    BY DEF CountInv
  <2>1. processes[i] = ProcessNew(1, Idle) \/ processes[i] = ProcessNew(2, Idle)
    BY DEF BootInit
  <2>2. processes[i].children = {} /\ processes[i].children_count = 0
    BY <2>1 DEF ProcessNew
  <2> QED
    BY <2>2, FS_EmptySet, SchedulerAssumption DEF Counted
<1>2. Core /\ CountInv /\ [KernelNext]_vars => CountInv'
  BY KernelCount
<1>3. Core /\ CountInv => ChildrenCounted
  BY ListFacts DEF Core, CountInv, Counted, ChildrenCounted
<1>4. Core /\ Core' /\ [KernelNext]_vars =>
        \A i \in DOMAIN processes, j \in DOMAIN processes' :
         /\ processes[i].id = processes'[j].id
         /\ processes[i].state = "Waiting"
         /\ processes'[j].state \in {"Ready", "Running"}
         => \/ processes[i].id = current
            \/ /\ processes[i].waiting_for \in {AnyChild, current}
               /\ \E k \in DOMAIN processes :
                    /\ processes[k].id = current
                    /\ processes[k].parent_id = processes[i].id
  BY StepOfOne DEF Carried, Awaited
<1>5. Core /\ Core' /\ [KernelNext]_vars =>
        \A i \in DOMAIN processes, j \in DOMAIN processes' :
         /\ processes[i].id = processes'[j].id
         /\ processes[i].state = "Zombie"
         /\ processes[i].id # current
         => /\ processes'[j].state = "Zombie"
            /\ processes'[j].exit_code = processes[i].exit_code
  BY StepOfOne DEF Carried
<1> QED
  BY <1>1, <1>2, <1>3, <1>4, <1>5, BootInvariance, PTL
     DEF BootSpec, WakeupsJustified, ZombiesRest
=============================================================================
