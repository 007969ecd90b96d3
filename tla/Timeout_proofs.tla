--------------------------- MODULE Timeout_proofs ---------------------------
(***************************************************************************)
(* Proofs about Timeout, for every set of pids and limits: the time limits *)
(* are enforced when they are reached and not before, and the kill of the  *)
(* timer, which goes past the scheduler, keeps the scheduler's invariants. *)
(***************************************************************************)
EXTENDS Timeout, SchedulerSteps_proofs, WellFoundedInduction

(* The time-limit list *)

\* Every non-empty set of natural numbers has a least element.
LEMMA LeastElement ==
    ASSUME NEW S \in SUBSET Nat, S # {}
    PROVE  \E n \in S : \A m \in S : n <= m
<1>1. PICK n \in S : \A m \in S : ~(<<m, n>> \in OpToRel(<, Nat))
  BY WFMin, NatLessThanWellFounded
<1>2. \A m \in S : ~(m < n)
  BY <1>1, Zenon DEF OpToRel
<1> QED
  BY <1>2

\* The lookup of EntryOf in any list.
IsFirst(s, pid, i) ==
    /\ i \in DOMAIN s /\ s[i].pid = pid
    /\ \A j \in DOMAIN s : s[j].pid = pid => i <= j

First(s, pid) ==
    CHOOSE i \in DOMAIN s : /\ s[i].pid = pid
                            /\ \A j \in DOMAIN s : s[j].pid = pid => i <= j

HasEntry(s, pid) == \E i \in DOMAIN s : s[i].pid = pid

\* It finds the first entry, if there is one.
LEMMA FirstIs ==
    ASSUME NEW S, NEW s \in Seq(S), NEW pid, NEW i, IsFirst(s, pid, i)
    PROVE  First(s, pid) = i
<1>1. Len(s) \in Nat /\ DOMAIN s = 1..Len(s)
  BY LenProperties
<1>2. \A j : IsFirst(s, pid, j) => j = i
  BY <1>1 DEF IsFirst
<1>3. IsFirst(s, pid, First(s, pid))
  BY DEF First, IsFirst
<1> QED
  BY <1>2, <1>3

\* One exists.
LEMMA FirstExists ==
    ASSUME NEW S, NEW s \in Seq(S), NEW pid, HasEntry(s, pid)
    PROVE  IsFirst(s, pid, First(s, pid))
<1> DEFINE T == {i \in DOMAIN s : s[i].pid = pid}
<1>1. Len(s) \in Nat /\ DOMAIN s = 1..Len(s)
  BY LenProperties
<1>2. T \in SUBSET Nat /\ T # {}
  BY <1>1 DEF HasEntry
<1>3. PICK i \in T : \A j \in T : i <= j
  BY <1>2, LeastElement, Zenon
<1>4. IsFirst(s, pid, i)
  BY <1>3 DEF IsFirst
<1> QED
  BY <1>4 DEF First, IsFirst

\* Entries as the manager keeps them between interrupts.
EntryOK(e, tick) == e \in ProcessTimeout /\ e.state = "Normal" /\ e.start_time <= tick

ListOK(s, tick) == s \in Seq(ProcessTimeout) /\ \A i \in DOMAIN s : EntryOK(s[i], tick)

\* The tick from which the clock of pid runs.
StartOf(s, pid) == IF HasEntry(s, pid) THEN s[First(s, pid)].start_time ELSE 0

\* A list that has an entry for pid at the same place in the lookup.
LEMMA StartSame ==
    ASSUME NEW s \in Seq(ProcessTimeout), NEW t \in Seq(ProcessTimeout), NEW pid,
           NEW i, NEW j, IsFirst(s, pid, i), IsFirst(t, pid, j)
    PROVE  /\ StartOf(s, pid) = s[i].start_time /\ StartOf(t, pid) = t[j].start_time
           /\ HasEntry(s, pid) /\ HasEntry(t, pid)
  BY FirstIs DEF StartOf, HasEntry, IsFirst

\* push: the entry is found if it is the first of its process.
LEMMA AppendEntry ==
    ASSUME NEW tick, NEW s, ListOK(s, tick), NEW e, EntryOK(e, tick)
    PROVE  /\ ListOK(Append(s, e), tick)
           /\ \A pid : StartOf(Append(s, e), pid) =
                 IF HasEntry(s, pid) \/ e.pid # pid THEN StartOf(s, pid) ELSE e.start_time
<1> DEFINE t == Append(s, e)
           n == Len(s) + 1
<1>1. /\ s \in Seq(ProcessTimeout) /\ Len(s) \in Nat /\ DOMAIN s = 1..Len(s)
      /\ e \in ProcessTimeout
      /\ t \in Seq(ProcessTimeout) /\ DOMAIN t = 1..n /\ t[n] = e
      /\ \A i \in 1..Len(s) : t[i] = s[i]
  BY AppendProperties, LenProperties DEF ListOK, EntryOK
<1>2. \A i \in DOMAIN t : i = n \/ i \in DOMAIN s
  BY <1>1
<1>3. ListOK(t, tick)
  BY <1>1, <1>2 DEF ListOK
<1> HIDE DEF t
<1>4. ASSUME NEW pid, HasEntry(s, pid) PROVE StartOf(t, pid) = StartOf(s, pid)
  <2>1. IsFirst(s, pid, First(s, pid))
    BY <1>1, <1>4, FirstExists
  <2>2. IsFirst(t, pid, First(s, pid))
    BY <1>1, <1>2, <2>1 DEF IsFirst
  <2>3. t[First(s, pid)] = s[First(s, pid)]
    BY <1>1, <2>1 DEF IsFirst
  <2> QED
    BY <1>1, <2>1, <2>2, <2>3, StartSame
<1>5. ASSUME NEW pid, ~HasEntry(s, pid), e.pid # pid PROVE StartOf(t, pid) = StartOf(s, pid)
  BY <1>1, <1>2, <1>5 DEF StartOf, HasEntry
<1>6. ASSUME NEW pid, ~HasEntry(s, pid), e.pid = pid PROVE StartOf(t, pid) = e.start_time
  <2>1. IsFirst(t, pid, n)
    BY <1>1, <1>2, <1>6 DEF IsFirst, HasEntry
  <2> QED
    BY <1>1, <2>1, StartSame
<1> QED
  BY <1>3, <1>4, <1>5, <1>6 DEF t

\* A pushed entry that counts from tick 0 changes no clock.
LEMMA AppendFresh ==
    ASSUME NEW tick, NEW s, ListOK(s, tick), NEW e, EntryOK(e, tick), e.start_time = 0
    PROVE  /\ ListOK(Append(s, e), tick)
           /\ \A pid : StartOf(Append(s, e), pid) = StartOf(s, pid)
<1> DEFINE t == Append(s, e)
<1>1. /\ ListOK(t, tick)
      /\ \A pid : StartOf(t, pid) =
            IF HasEntry(s, pid) \/ e.pid # pid THEN StartOf(s, pid) ELSE e.start_time
  BY AppendEntry
<1>2. \A pid : ~HasEntry(s, pid) => StartOf(s, pid) = 0
  BY DEF StartOf
<1> HIDE DEF t
<1>3. \A pid : StartOf(t, pid) = StartOf(s, pid)
  BY <1>1, <1>2
<1> QED
  BY <1>1, <1>3 DEF t

\* An update in place that keeps the pid: the lookup finds the same position.
LEMMA UpdateEntry ==
    ASSUME NEW tick, NEW s, ListOK(s, tick), NEW k \in DOMAIN s,
           NEW e, EntryOK(e, tick), e.pid = s[k].pid
    PROVE  /\ ListOK([s EXCEPT ![k] = e], tick)
           /\ \A pid : HasEntry([s EXCEPT ![k] = e], pid) <=> HasEntry(s, pid)
           /\ \A pid : First([s EXCEPT ![k] = e], pid) = First(s, pid)
           /\ \A pid : StartOf([s EXCEPT ![k] = e], pid) =
                 IF HasEntry(s, pid) /\ First(s, pid) = k
                 THEN e.start_time ELSE StartOf(s, pid)
<1> DEFINE t == [s EXCEPT ![k] = e]
<1>1. /\ s \in Seq(ProcessTimeout) /\ Len(s) \in Nat /\ DOMAIN s = 1..Len(s)
      /\ e \in ProcessTimeout
      /\ \A i \in 1..Len(s) : s[i] \in ProcessTimeout
  BY LenProperties, ElementOfSeq DEF ListOK, EntryOK
<1>2. DOMAIN t = DOMAIN s /\ \A i \in DOMAIN s : t[i] = IF i = k THEN e ELSE s[i]
  BY <1>1
<1>3. t \in Seq(ProcessTimeout)
  <2>1. t = [i \in 1..Len(s) |-> IF i = k THEN e ELSE s[i]]
    BY <1>1, Zenon
  <2>2. t \in [1..Len(s) -> ProcessTimeout]
    BY <1>1, <2>1
  <2> QED
    BY <1>1, <2>2, FunctionIsSeq
<1> HIDE DEF t
<1>4. \A i \in DOMAIN s : t[i].pid = s[i].pid
  BY <1>2
<1>5. ListOK(t, tick)
  BY <1>2, <1>3 DEF ListOK
<1>6. \A pid : HasEntry(t, pid) <=> HasEntry(s, pid)
  BY <1>2, <1>4 DEF HasEntry
<1>7. \A pid : First(t, pid) = First(s, pid)
  BY <1>2, <1>4, Zenon DEF First
<1>8. ASSUME NEW pid, HasEntry(s, pid)
      PROVE  StartOf(t, pid) = IF First(s, pid) = k THEN e.start_time ELSE StartOf(s, pid)
  <2>1. First(s, pid) \in DOMAIN s
    BY <1>1, <1>8, FirstExists DEF IsFirst
  <2>2. StartOf(t, pid) = t[First(s, pid)].start_time
        /\ StartOf(s, pid) = s[First(s, pid)].start_time
    BY <1>6, <1>7, <1>8 DEF StartOf
  <2> QED
    BY <1>2, <2>1, <2>2
<1>9. ASSUME NEW pid, ~HasEntry(s, pid) PROVE StartOf(t, pid) = StartOf(s, pid)
  BY <1>6, <1>9 DEF StartOf
<1> QED
  BY <1>5, <1>6, <1>7, <1>8, <1>9, Zenon DEF t

\* t holds, in order, the entries of s that do not belong to gone.
Retained(t, s, gone) ==
    \E n \in 0..Len(s) : \E kept \in [1..n -> DOMAIN s] :
        /\ \A i, j \in 1..n : i < j => kept[i] < kept[j]
        /\ {kept[i] : i \in 1..n} = {i \in DOMAIN s : s[i].pid # gone}
        /\ t = [i \in 1..n |-> s[kept[i]]]

\* retain: the lookup of another process finds the entry it found before.
LEMMA RetainEntries ==
    ASSUME NEW tick, NEW s, ListOK(s, tick), NEW gone, NEW t, Retained(t, s, gone)
    PROVE  /\ ListOK(t, tick)
           /\ ~HasEntry(t, gone)
           /\ \A pid : pid # gone => StartOf(t, pid) = StartOf(s, pid)
<1>a. PICK n \in 0..Len(s) : \E kept \in [1..n -> DOMAIN s] :
        /\ \A i, j \in 1..n : i < j => kept[i] < kept[j]
        /\ {kept[i] : i \in 1..n} = {i \in DOMAIN s : s[i].pid # gone}
        /\ t = [i \in 1..n |-> s[kept[i]]]
  BY DEF Retained
<1>b. PICK kept \in [1..n -> DOMAIN s] :
        /\ \A i, j \in 1..n : i < j => kept[i] < kept[j]
        /\ {kept[i] : i \in 1..n} = {i \in DOMAIN s : s[i].pid # gone}
        /\ t = [i \in 1..n |-> s[kept[i]]]
  BY <1>a
<1>c. n \in Nat
  OBVIOUS
<1>1. /\ s \in Seq(ProcessTimeout) /\ Len(s) \in Nat /\ DOMAIN s = 1..Len(s)
      /\ \A i \in DOMAIN s : s[i] \in ProcessTimeout /\ EntryOK(s[i], tick)
  BY LenProperties, ElementOfSeq DEF ListOK
<1>2. DOMAIN t = 1..n /\ \A i \in 1..n : t[i] = s[kept[i]] /\ kept[i] \in DOMAIN s
  BY <1>b
<1>3. t \in [1..n -> ProcessTimeout]
  BY <1>b, <1>1, <1>2
<1>4. t \in Seq(ProcessTimeout)
  BY <1>c, <1>3, FunctionIsSeq
<1>5. ListOK(t, tick)
  BY <1>1, <1>2, <1>4 DEF ListOK
<1>6. ~HasEntry(t, gone)
  <2>1. \A i \in 1..n : kept[i] \in {m \in DOMAIN s : s[m].pid # gone}
    BY <1>b
  <2> QED
    BY <1>2, <2>1 DEF HasEntry
<1>7. ASSUME NEW pid, pid # gone, HasEntry(s, pid) PROVE StartOf(t, pid) = StartOf(s, pid)
  <2> DEFINE i == First(s, pid)
  <2>1. IsFirst(s, pid, i)
    BY <1>1, <1>7, FirstExists
  <2> HIDE DEF i
  <2>2. i \in {kept[a] : a \in 1..n}
    <3>1. i \in {m \in DOMAIN s : s[m].pid # gone}
      BY <1>7, <2>1 DEF IsFirst
    <3> QED
      BY <1>b, <3>1
  <2>3. PICK a \in 1..n : kept[a] = i
    BY <2>2
  <2>4. ASSUME NEW b \in 1..n, t[b].pid = pid PROVE a <= b
    <3>1. i <= kept[b] /\ kept[b] \in Nat /\ i \in Nat
      BY <1>1, <1>2, <2>1, <2>4 DEF IsFirst
    <3>2. b < a => kept[b] < kept[a]
      BY <1>b
    <3> QED
      BY <2>3, <3>1, <3>2
  <2>5. IsFirst(t, pid, a)
    BY <1>2, <2>1, <2>3, <2>4 DEF IsFirst
  <2>6. t[a] = s[i]
    BY <1>2, <2>3
  <2> QED
    BY <1>1, <1>4, <2>1, <2>5, <2>6, StartSame
<1>8. ASSUME NEW pid, pid # gone, ~HasEntry(s, pid) PROVE StartOf(t, pid) = StartOf(s, pid)
  <2>1. ~HasEntry(t, pid)
    BY <1>2, <1>8 DEF HasEntry
  <2> QED
    BY <1>8, <2>1 DEF StartOf
<1> QED
  BY <1>5, <1>6, <1>7, <1>8

\* What the lookup returns.
LEMMA EntryFound ==
    ASSUME NEW tick \in Nat, NEW s, ListOK(s, tick), NEW pid
    PROVE  /\ StartOf(s, pid) \in Nat /\ StartOf(s, pid) <= tick
           /\ HasEntry(s, pid) =>
                /\ First(s, pid) \in DOMAIN s /\ EntryOK(s[First(s, pid)], tick)
                /\ s[First(s, pid)].pid = pid
                /\ StartOf(s, pid) = s[First(s, pid)].start_time
<1>1. s \in Seq(ProcessTimeout)
  BY DEF ListOK
<1>2. CASE ~HasEntry(s, pid)
  BY <1>2 DEF StartOf
<1>3. CASE HasEntry(s, pid)
  <2>1. First(s, pid) \in DOMAIN s /\ s[First(s, pid)].pid = pid
    BY <1>1, <1>3, FirstExists DEF IsFirst
  <2>2. EntryOK(s[First(s, pid)], tick)
    BY <2>1 DEF ListOK
  <2>3. StartOf(s, pid) = s[First(s, pid)].start_time
    BY <1>3 DEF StartOf
  <2>4. s[First(s, pid)].start_time \in Nat /\ s[First(s, pid)].start_time <= tick
    BY <2>2 DEF EntryOK, ProcessTimeout
  <2> QED
    BY <2>1, <2>2, <2>3, <2>4
<1> QED
  BY <1>2, <1>3

-----------------------------------------------------------------------------
(* ProcessTimeout methods *)

\* new: the clock of a fresh entry runs from tick 0.
LEMMA NewEntry ==
    ASSUME NEW tick \in Nat, NEW pid \in Pids \cup {Idle}, NEW limit \in Nat
    PROVE  /\ EntryOK(ProcessTimeoutNew(pid, limit), tick)
           /\ ProcessTimeoutNew(pid, limit).pid = pid
           /\ ProcessTimeoutNew(pid, limit).start_time = 0
  BY DEF EntryOK, ProcessTimeoutNew, ProcessTimeout

\* reset: from whatever state, as handle_timeout calls it.
LEMMA ResetEntry ==
    ASSUME NEW tick \in Nat, NEW e \in ProcessTimeout
    PROVE  EntryOK(Reset(e), tick) /\ Reset(e).pid = e.pid
<1>1. Reset(e) \in ProcessTimeout
  BY Zenon DEF Reset, ProcessTimeout
<1>2. Reset(e).pid = e.pid /\ Reset(e).start_time = 0 /\ Reset(e).state = "Normal"
  BY DEF Reset, ProcessTimeout
<1> QED
  BY <1>1, <1>2 DEF EntryOK

\* start: the clock runs from this tick.
LEMMA StartEntry ==
    ASSUME NEW tick \in Nat, NEW e \in ProcessTimeout
    PROVE  /\ EntryOK(Start(e, tick), tick) /\ Start(e, tick).pid = e.pid
           /\ Start(e, tick).start_time = tick
<1>1. Start(e, tick) \in ProcessTimeout
  BY Zenon DEF Start, ProcessTimeout
<1>2. /\ Start(e, tick).pid = e.pid /\ Start(e, tick).start_time = tick
      /\ Start(e, tick).state = "Normal"
  BY DEF Start, ProcessTimeout
<1> QED
  BY <1>1, <1>2 DEF EntryOK

\* A new limit leaves the clock alone.
LEMMA LimitEntry ==
    ASSUME NEW tick \in Nat, NEW e, EntryOK(e, tick), NEW limit \in Nat
    PROVE  /\ EntryOK([e EXCEPT !.limit = limit], tick)
           /\ [e EXCEPT !.limit = limit].pid = e.pid
           /\ [e EXCEPT !.limit = limit].start_time = e.start_time
  BY DEF EntryOK, ProcessTimeout

\* check_timeout, at the tick after: the entry is timed out if its limit has
\* passed since it was started, and not before.
LEMMA CheckedEntry ==
    ASSUME NEW tick \in Nat, NEW e, EntryOK(e, tick)
    PROVE  LET c == CheckTimeout(e, tick + 1)
           IN  /\ c \in ProcessTimeout /\ c.pid = e.pid /\ c.limit = e.limit
               /\ c.start_time = e.start_time
               /\ c.state = "TimedOut" => tick + 1 - e.start_time >= e.limit
               /\ c.state # "TimedOut" => /\ tick + 1 - e.start_time < e.limit
                                          /\ EntryOK(c, tick + 1)
<1> DEFINE c == CheckTimeout(e, tick + 1)
           elapsed == tick + 1 - e.start_time
<1>1. /\ e \in ProcessTimeout /\ e.state = "Normal" /\ e.start_time \in Nat
      /\ e.limit \in Nat /\ e.start_time <= tick /\ elapsed \in Nat
  BY DEF EntryOK, ProcessTimeout
<1>2. CASE elapsed >= e.limit
  <2>1. c = [e EXCEPT !.state = "TimedOut"]
    BY <1>1, <1>2 DEF CheckTimeout
  <2>2. /\ c \in ProcessTimeout /\ c.pid = e.pid /\ c.start_time = e.start_time
        /\ c.limit = e.limit /\ c.state = "TimedOut"
    BY <1>1, <2>1 DEF ProcessTimeout
  <2> QED
    BY <1>2, <2>2
<1>3. CASE ~(elapsed >= e.limit)
  <2> DEFINE w == e.warning_sent \/ elapsed >= e.limit \div 2
  <2>1. c = [e EXCEPT !.warning_sent = w]
    BY <1>1, <1>3 DEF CheckTimeout
  <2>2. w \in BOOLEAN
    OBVIOUS
  <2> HIDE DEF w
  <2>3. /\ c \in ProcessTimeout /\ c.pid = e.pid /\ c.start_time = e.start_time
        /\ c.limit = e.limit /\ c.state = "Normal"
    BY <1>1, <2>1, <2>2 DEF ProcessTimeout
  <2> HIDE DEF c
  <2>4. EntryOK(c, tick + 1)
    BY <1>1, <2>3 DEF EntryOK
  <2> QED
    BY <1>1, <1>3, <2>3, <2>4 DEF c
<1> QED
  BY <1>2, <1>3

\* Time passes.
LEMMA ListLater ==
    ASSUME NEW tick \in Nat, NEW s, ListOK(s, tick) PROVE ListOK(s, tick + 1)
  BY DEF ListOK, EntryOK, ProcessTimeout

-----------------------------------------------------------------------------
(* The timer *)

\* The inductive invariant of the timer: while user mode is active, age is the
\* time check_timeout will compute from the entry it looks up.
TimerInv ==
    /\ ListOK(timeouts, current_tick)
    /\ current_tick \in Nat
    /\ user_mode_active \in BOOLEAN
    /\ current_user_pid \in Pids \cup {Idle}
    /\ in_interrupt \in BOOLEAN
    /\ age \in Nat
    /\ user_mode_active => age = current_tick - StartOf(timeouts, current_user_pid)

\* The time-limit list as the manager looks it up.
LEMMA Lookup ==
    ASSUME NEW pid
    PROVE  /\ Registered(pid) <=> HasEntry(timeouts, pid)
           /\ EntryOf(pid) = First(timeouts, pid)
  BY DEF Registered, HasEntry, EntryOf, First

\* register_process: the new entry counts from tick 0, as a process without
\* one does.
LEMMA RegisterTimer ==
    ASSUME TimerInv, NEW pid \in TimedPids, NEW limit \in Limits,
           RegisterProcess(pid, limit)
    PROVE  TimerInv'
<1> DEFINE e == ProcessTimeoutNew(pid, limit)
<1>1. EntryOK(e, current_tick) /\ e.pid = pid /\ e.start_time = 0
  BY NewEntry, TimeoutAssumption DEF TimerInv
<1> HIDE DEF e
<1>2. timeouts' = Append(timeouts, e)
  BY DEF RegisterProcess, e
<1>3. ListOK(timeouts', current_tick) /\ StartOf(timeouts', current_user_pid)
                                         = StartOf(timeouts, current_user_pid)
  BY <1>1, <1>2, AppendFresh DEF TimerInv
<1> QED
  BY <1>3 DEF TimerInv, RegisterProcess

\* unregister_process
LEMMA UnregisterTimer ==
    ASSUME TimerInv, NEW pid, UnregisterProcess(pid)
    PROVE  TimerInv'
<1>1. ListOK(timeouts, current_tick)
  BY DEF TimerInv
<1>2. Retained(timeouts', timeouts, pid)
  BY DEF UnregisterProcess, Retained
<1>4. /\ ListOK(timeouts', current_tick)
      /\ ~HasEntry(timeouts', pid)
      /\ \A q : q # pid => StartOf(timeouts', q) = StartOf(timeouts, q)
  BY <1>1, <1>2, RetainEntries
<1>5. CASE pid = current_user_pid
  <2>1. StartOf(timeouts', current_user_pid) = 0
    BY <1>4, <1>5 DEF StartOf
  <2> QED
    BY <1>4, <1>5, <2>1 DEF TimerInv, UnregisterProcess
<1>6. CASE pid # current_user_pid
  BY <1>4, <1>6 DEF TimerInv, UnregisterProcess
<1> QED
  BY <1>5, <1>6

\* start_user_mode: the clock of the process starts over.
LEMMA StartTimer ==
    ASSUME TimerInv, NEW pid \in TimedPids, StartUserMode(pid)
    PROVE  TimerInv'
<1>1. /\ ListOK(timeouts, current_tick) /\ current_tick \in Nat
      /\ pid \in Pids \cup {Idle}
  BY TimeoutAssumption DEF TimerInv
<1>2. ListOK(timeouts', current_tick) /\ StartOf(timeouts', pid) = current_tick
  <2>1. CASE Registered(pid)
    <3> DEFINE k == First(timeouts, pid)
               e == Start(timeouts[k], current_tick)
    <3>1. HasEntry(timeouts, pid) /\ EntryOf(pid) = k
      BY <2>1, Lookup
    <3>2. k \in DOMAIN timeouts /\ timeouts[k] \in ProcessTimeout
      BY <1>1, <3>1, EntryFound DEF EntryOK
    <3>3. EntryOK(e, current_tick) /\ e.pid = timeouts[k].pid
          /\ e.start_time = current_tick
      BY <1>1, <3>2, StartEntry
    <3>4. timeouts' = [timeouts EXCEPT ![k] = e]
      BY <2>1, <3>1 DEF StartUserMode
    <3>5. First(timeouts, pid) = k
      OBVIOUS
    <3> HIDE DEF e, k
    <3>6. /\ ListOK([timeouts EXCEPT ![k] = e], current_tick)
          /\ StartOf([timeouts EXCEPT ![k] = e], pid) =
               IF HasEntry(timeouts, pid) /\ First(timeouts, pid) = k
               THEN e.start_time ELSE StartOf(timeouts, pid)
      BY <1>1, <3>2, <3>3, UpdateEntry
    <3> QED
      BY <3>1, <3>3, <3>4, <3>5, <3>6
  <2>2. CASE ~Registered(pid)
    <3> DEFINE e == Start(ProcessTimeoutNew(pid, DefaultLimit), current_tick)
    <3>1. ~HasEntry(timeouts, pid)
      BY <2>2, Lookup
    <3>2. ProcessTimeoutNew(pid, DefaultLimit) \in ProcessTimeout
          /\ ProcessTimeoutNew(pid, DefaultLimit).pid = pid
      BY <1>1, NewEntry, TimeoutAssumption DEF EntryOK
    <3>3. EntryOK(e, current_tick) /\ e.pid = pid /\ e.start_time = current_tick
      BY <1>1, <3>2, StartEntry
    <3>4. timeouts' = Append(timeouts, e)
      BY <2>2 DEF StartUserMode
    <3> HIDE DEF e
    <3> QED
      BY <1>1, <3>1, <3>3, <3>4, AppendEntry
  <2> QED
    BY <2>1, <2>2
<1>3. /\ current_tick' = current_tick /\ current_user_pid' = pid /\ age' = 0
      /\ user_mode_active' = TRUE /\ in_interrupt' = in_interrupt
  BY DEF StartUserMode
<1>4. in_interrupt' \in BOOLEAN /\ user_mode_active' \in BOOLEAN
  BY <1>3 DEF TimerInv
<1> QED
  BY <1>1, <1>2, <1>3, <1>4 DEF TimerInv

\* end_user_mode
LEMMA EndTimer == ASSUME TimerInv, EndUserMode PROVE TimerInv'
<1>1. ListOK(timeouts, current_tick) /\ current_tick \in Nat
  BY DEF TimerInv
<1>2. ListOK(timeouts', current_tick)
  <2>1. CASE Registered(current_user_pid)
    <3> DEFINE k == First(timeouts, current_user_pid)
               e == Reset(timeouts[k])
    <3>1. HasEntry(timeouts, current_user_pid) /\ EntryOf(current_user_pid) = k
      BY <2>1, Lookup
    <3>2. k \in DOMAIN timeouts /\ timeouts[k] \in ProcessTimeout
      BY <1>1, <3>1, EntryFound DEF EntryOK
    <3>3. EntryOK(e, current_tick) /\ e.pid = timeouts[k].pid
      BY <1>1, <3>2, ResetEntry
    <3>4. timeouts' = [timeouts EXCEPT ![k] = e]
      BY <2>1, <3>1 DEF EndUserMode
    <3> HIDE DEF e, k
    <3> QED
      BY <1>1, <3>2, <3>3, <3>4, UpdateEntry, Zenon
  <2>2. CASE ~Registered(current_user_pid)
    BY <1>1, <2>2 DEF EndUserMode
  <2> QED
    BY <2>1, <2>2
<1>3. /\ current_tick' = current_tick /\ current_user_pid' = Idle /\ age' = 0
      /\ user_mode_active' = FALSE /\ in_interrupt' = in_interrupt
  BY DEF EndUserMode
<1>4. in_interrupt' \in BOOLEAN /\ user_mode_active' \in BOOLEAN
  BY <1>3, Zenon DEF TimerInv
<1> QED
  BY <1>1, <1>2, <1>3, <1>4 DEF TimerInv

\* set_timeout_limit: with a new limit the clock of the process goes on.
LEMMA LimitTimer ==
    ASSUME TimerInv, NEW pid \in TimedPids, NEW limit \in Limits,
           SetTimeoutLimit(pid, limit)
    PROVE  TimerInv'
<1>1. /\ ListOK(timeouts, current_tick) /\ current_tick \in Nat
      /\ pid \in Pids \cup {Idle} /\ limit \in Nat
  BY TimeoutAssumption DEF TimerInv
<1>2. ListOK(timeouts', current_tick) /\ StartOf(timeouts', current_user_pid)
                                         = StartOf(timeouts, current_user_pid)
  <2>1. CASE Registered(pid)
    <3> DEFINE k == First(timeouts, pid)
               e == [timeouts[k] EXCEPT !.limit = limit]
    <3>1. HasEntry(timeouts, pid) /\ EntryOf(pid) = k
      BY <2>1, Lookup
    <3>2. k \in DOMAIN timeouts /\ EntryOK(timeouts[k], current_tick)
      BY <1>1, <3>1, EntryFound
    <3>3. EntryOK(e, current_tick) /\ e.pid = timeouts[k].pid
          /\ e.start_time = timeouts[k].start_time
      BY <1>1, <3>2, LimitEntry
    <3>4. timeouts' = [timeouts EXCEPT ![k] = e]
      BY <2>1, <3>1 DEF SetTimeoutLimit
    <3> HIDE DEF e, k
    <3>5. /\ ListOK([timeouts EXCEPT ![k] = e], current_tick)
          /\ StartOf([timeouts EXCEPT ![k] = e], current_user_pid) =
               IF /\ HasEntry(timeouts, current_user_pid)
                  /\ First(timeouts, current_user_pid) = k
               THEN e.start_time ELSE StartOf(timeouts, current_user_pid)
      BY <1>1, <3>2, <3>3, UpdateEntry
    <3> QED
      BY <3>3, <3>4, <3>5 DEF StartOf
  <2>2. CASE ~Registered(pid)
    <3> DEFINE e == ProcessTimeoutNew(pid, limit)
    <3>1. EntryOK(e, current_tick) /\ e.pid = pid /\ e.start_time = 0
      BY <1>1, NewEntry
    <3>2. timeouts' = Append(timeouts, e)
      BY <2>2 DEF SetTimeoutLimit
    <3> HIDE DEF e
    <3> QED
      BY <1>1, <3>1, <3>2, AppendFresh
  <2> QED
    BY <2>1, <2>2
<1> QED
  BY <1>2 DEF TimerInv, SetTimeoutLimit

\* What the second half of the interrupt computes when a limit is watched.
Checked == CheckTimeout(timeouts[First(timeouts, current_user_pid)], current_tick + 1)

\* The entry checked is the first of the process, and times out exactly when the
\* limit is reached.
LEMMA CheckedFacts ==
    ASSUME TimerInv, user_mode_active, Registered(current_user_pid)
    PROVE  LET k == First(timeouts, current_user_pid)
           IN  /\ EntryOf(current_user_pid) = k
               /\ k \in DOMAIN timeouts
               /\ ListOK(timeouts, current_tick + 1)
               /\ HasEntry(timeouts, current_user_pid)
               /\ Checked \in ProcessTimeout
               /\ Checked.pid = timeouts[k].pid
               /\ Checked.limit = timeouts[k].limit
               /\ Checked.limit \in Nat
               /\ Checked.start_time \in Nat
               /\ Checked.start_time = StartOf(timeouts, current_user_pid)
               /\ age + 1 = current_tick + 1 - Checked.start_time
               /\ Checked.state = "TimedOut" => age + 1 >= Checked.limit
               /\ Checked.state # "TimedOut" => /\ age + 1 < Checked.limit
                                                /\ EntryOK(Checked, current_tick + 1)
<1> DEFINE k == First(timeouts, current_user_pid)
           e == timeouts[k]
<1>1. /\ ListOK(timeouts, current_tick) /\ current_tick \in Nat /\ age \in Nat
      /\ age = current_tick - StartOf(timeouts, current_user_pid)
  BY DEF TimerInv
<1>2. HasEntry(timeouts, current_user_pid) /\ EntryOf(current_user_pid) = k
  BY Lookup
<1>3. /\ k \in DOMAIN timeouts /\ EntryOK(e, current_tick)
      /\ StartOf(timeouts, current_user_pid) = e.start_time
  BY <1>1, <1>2, EntryFound
<1>4. ListOK(timeouts, current_tick + 1)
  BY <1>1, ListLater
<1>5. Checked = CheckTimeout(e, current_tick + 1)
  BY DEF Checked
<1>6. e.start_time \in Nat /\ e.limit \in Nat
  BY <1>3 DEF EntryOK, ProcessTimeout
<1> HIDE DEF k, e
<1>7. /\ Checked \in ProcessTimeout /\ Checked.pid = e.pid /\ Checked.limit = e.limit
      /\ Checked.start_time = e.start_time
      /\ Checked.state = "TimedOut" => current_tick + 1 - e.start_time >= e.limit
      /\ Checked.state # "TimedOut" => /\ current_tick + 1 - e.start_time < e.limit
                                       /\ EntryOK(Checked, current_tick + 1)
  BY <1>1, <1>3, <1>5, CheckedEntry
<1>8. age + 1 = current_tick + 1 - e.start_time
  BY <1>1, <1>3, <1>6
<1> QED
  BY <1>2, <1>3, <1>4, <1>6, <1>7, <1>8 DEF k, e

\* increment_tick when no limit is reached: the entry that was checked is within
\* its limit.
LEMMA InTimeTimer ==
    ASSUME TimerInv, TickInTime
    PROVE  /\ TimerInv'
           /\ user_mode_active' /\ HasEntry(timeouts', current_user_pid') =>
                age' < timeouts'[First(timeouts', current_user_pid')].limit
<1>1. /\ ListOK(timeouts, current_tick) /\ current_tick \in Nat /\ age \in Nat
      /\ current_tick' = current_tick + 1 /\ current_user_pid' = current_user_pid
      /\ in_interrupt' = FALSE /\ user_mode_active' = user_mode_active
      /\ age' = IF user_mode_active THEN age + 1 ELSE age
      /\ user_mode_active \in BOOLEAN
  BY DEF TimerInv, TickInTime
<1>2. /\ age' \in Nat /\ in_interrupt' \in BOOLEAN /\ user_mode_active' \in BOOLEAN
      /\ current_tick' \in Nat /\ current_user_pid' \in Pids \cup {Idle}
  <2>1. age' \in Nat /\ current_tick' \in Nat
    BY <1>1
  <2>2. in_interrupt' \in BOOLEAN /\ user_mode_active' \in BOOLEAN
    BY <1>1, Zenon
  <2>3. current_user_pid' \in Pids \cup {Idle}
    BY <1>1 DEF TimerInv
  <2> QED
    BY <2>1, <2>2, <2>3
<1>3. CASE user_mode_active /\ Registered(current_user_pid)
  <2> DEFINE k == First(timeouts, current_user_pid)
             t == [timeouts EXCEPT ![k] = Checked]
  <2>1. /\ EntryOf(current_user_pid) = k /\ k \in DOMAIN timeouts
        /\ ListOK(timeouts, current_tick + 1)
        /\ HasEntry(timeouts, current_user_pid)
        /\ Checked.pid = timeouts[k].pid
        /\ Checked.start_time \in Nat
        /\ age + 1 = current_tick + 1 - Checked.start_time
        /\ Checked.state # "TimedOut" => /\ age + 1 < Checked.limit
                                         /\ EntryOK(Checked, current_tick + 1)
    BY <1>3, CheckedFacts
  <2>2. /\ Checked.state # "TimedOut" /\ timeouts' = t
    BY <1>3, <2>1 DEF TickInTime, Checked
  <2>3. First(timeouts, current_user_pid) = k
    OBVIOUS
  <2> HIDE DEF k
  <2>a. EntryOK(Checked, current_tick + 1)
    BY <2>1, <2>2
  <2>4. /\ ListOK(t, current_tick + 1)
        /\ First(t, current_user_pid) = First(timeouts, current_user_pid)
        /\ StartOf(t, current_user_pid) =
             IF HasEntry(timeouts, current_user_pid) /\ First(timeouts, current_user_pid) = k
             THEN Checked.start_time ELSE StartOf(timeouts, current_user_pid)
    BY <2>1, <2>a, UpdateEntry
  <2>5. t[k] = Checked
    BY <2>1
  <2>6. age' = age + 1
    BY <1>1, <1>3
  <2> HIDE DEF t
  <2>7. /\ ListOK(timeouts', current_tick')
        /\ age' = current_tick' - StartOf(timeouts', current_user_pid')
    BY <1>1, <2>1, <2>2, <2>3, <2>4, <2>6
  <2>8. age' < timeouts'[First(timeouts', current_user_pid')].limit
    BY <1>1, <2>1, <2>2, <2>3, <2>4, <2>5, <2>6
  <2> QED
    BY <1>2, <2>7, <2>8 DEF TimerInv
<1>4. CASE ~(user_mode_active /\ Registered(current_user_pid))
  <2>1. timeouts' = timeouts
    BY <1>4 DEF TickInTime
  <2>2. ListOK(timeouts', current_tick')
    BY <1>1, <2>1, ListLater
  <2>3. user_mode_active => ~HasEntry(timeouts, current_user_pid)
    BY <1>4, Lookup
  <2>4. ~(user_mode_active' /\ HasEntry(timeouts', current_user_pid'))
    BY <1>1, <2>1, <2>3
  <2>5. user_mode_active' => age' = current_tick' - StartOf(timeouts', current_user_pid')
    <3> SUFFICES ASSUME user_mode_active
                 PROVE  age' = current_tick' - StartOf(timeouts', current_user_pid')
      BY <1>1
    <3>1. StartOf(timeouts', current_user_pid') = 0 /\ StartOf(timeouts, current_user_pid) = 0
      BY <1>1, <2>1, <2>3 DEF StartOf
    <3>2. age = current_tick - StartOf(timeouts, current_user_pid)
      BY DEF TimerInv
    <3> QED
      BY <1>1, <3>1, <3>2
  <2> QED
    BY <1>2, <2>2, <2>4, <2>5 DEF TimerInv
<1> QED
  BY <1>3, <1>4

\* increment_tick when one is: it has passed since user mode was started.
LEMMA TimedOutTimer ==
    ASSUME TimerInv, TickTimedOut
    PROVE  TimerInv' /\ age + 1 >= timeouts[EntryOf(current_user_pid)].limit
<1> DEFINE k == First(timeouts, current_user_pid)
<1>1. user_mode_active /\ Registered(current_user_pid)
  BY DEF TickTimedOut
<1>2. /\ EntryOf(current_user_pid) = k /\ k \in DOMAIN timeouts
      /\ ListOK(timeouts, current_tick + 1)
      /\ Checked \in ProcessTimeout /\ Checked.pid = timeouts[k].pid
      /\ Checked.limit = timeouts[k].limit
      /\ Checked.state = "TimedOut" => age + 1 >= Checked.limit
  BY <1>1, CheckedFacts
<1>3. /\ Checked.state = "TimedOut"
      /\ timeouts' = [timeouts EXCEPT ![k] = Reset(Checked)]
  BY <1>2 DEF TickTimedOut, Checked
<1>4. current_tick \in Nat /\ current_tick + 1 \in Nat
  BY DEF TimerInv
<1>5. EntryOK(Reset(Checked), current_tick + 1) /\ Reset(Checked).pid = Checked.pid
  BY <1>2, <1>4, ResetEntry
<1> HIDE DEF k
<1>6. ListOK(timeouts', current_tick + 1)
  BY <1>2, <1>3, <1>5, UpdateEntry, Zenon
<1>7. /\ current_tick' = current_tick + 1 /\ current_user_pid' = Idle /\ age' = 0
      /\ user_mode_active' = FALSE /\ in_interrupt' = FALSE
  BY DEF TickTimedOut
<1>8. in_interrupt' \in BOOLEAN /\ user_mode_active' \in BOOLEAN
  BY <1>7, Zenon
<1>9. TimerInv'
  BY <1>4, <1>6, <1>7, <1>8 DEF TimerInv
<1> QED
  BY <1>2, <1>3, <1>9

-----------------------------------------------------------------------------
(* The kill and the process table *)

\* kill_process makes a zombie of pid only, wakes what waits for it, and leaves
\* the hierarchy alone.
LEMMA AfterKillRecord ==
    ASSUME NEW r \in Process, NEW pid
    PROVE  /\ AfterKill(r, pid) \in Process
           /\ AfterKill(r, pid).id = r.id
           /\ AfterKill(r, pid).parent_id = r.parent_id
           /\ AfterKill(r, pid).state = "Running" => r.state = "Running"
           /\ AfterKill(r, pid).state = "Zombie" => r.state = "Zombie" \/ r.id = pid
           /\ AfterKill(r, pid).state = "Waiting" =>
                 /\ AfterKill(r, pid).waiting_for = r.waiting_for
                 /\ r.state = "Waiting"
                 /\ r.waiting_for \notin {pid, AnyChild}
<1> DEFINE code == -1
           dead == [r EXCEPT !.state = "Zombie", !.waiting_for = Idle, !.exit_code = code]
           k    == IF r.id = pid THEN dead ELSE r
<1>1. AfterKill(r, pid) = Wake(k, pid)
  BY DEF AfterKill
<1>2. code \in Int
  OBVIOUS
<1> HIDE DEF code
<1>3. /\ dead \in Process /\ dead.id = r.id /\ dead.parent_id = r.parent_id
      /\ dead.state = "Zombie"
  BY <1>2, Zenon DEF Process
<1> HIDE DEF dead
<1>4. /\ k \in Process /\ k.id = r.id /\ k.parent_id = r.parent_id
      /\ r.id = pid => k.state = "Zombie"
      /\ r.id # pid => k = r
  BY <1>3
<1> HIDE DEF k
<1>5. /\ Wake(k, pid) \in Process /\ Wake(k, pid).id = k.id
      /\ Wake(k, pid).parent_id = k.parent_id
      /\ Wake(k, pid).state # k.state => k.state = "Waiting" /\ Wake(k, pid).state = "Ready"
      /\ Wake(k, pid).state = "Waiting" => /\ Wake(k, pid).waiting_for = k.waiting_for
                                           /\ k.waiting_for \notin {pid, AnyChild}
  BY <1>4, WakeRecord
<1>6. CASE r.id = pid
  BY <1>1, <1>4, <1>5, <1>6
<1>7. CASE r.id # pid
  BY <1>1, <1>4, <1>5, <1>7
<1> QED
  BY <1>6, <1>7

\* handle_timeout keeps the invariants of the scheduler, though it does not go
\* through it.
LEMMA KillTable ==
    ASSUME IInv, TickTimedOut
    PROVE  /\ IInv'
           /\ \A i \in DOMAIN processes, j \in DOMAIN processes' :
                /\ processes[i].id = processes'[j].id
                /\ processes[i].state # "Zombie"
                /\ processes'[j].state = "Zombie"
                => processes[i].id = current_user_pid
<1> DEFINE n == Len(processes)
           new(i) == AfterKill(processes[i], current_user_pid)
<1>1. /\ TypeOK /\ processes \in Seq(Process) /\ n \in Nat /\ DOMAIN processes = 1..n
      /\ \A i \in 1..n : processes[i] \in Process
      /\ ListInv(processes, current)
  BY ListFacts DEF IInv, Core
<1>2. processes' = [i \in 1..n |-> new(i)]
  BY <1>1 DEF TickTimedOut
<1>3. /\ process_tree' = process_tree /\ orphans' = orphans /\ next_pid' = next_pid
      /\ current' = current /\ cr3' = cr3
  BY DEF TickTimedOut
<1>4. \A i \in 1..n :
        /\ new(i) \in Process
        /\ new(i).id = processes[i].id
        /\ new(i).parent_id = processes[i].parent_id
        /\ new(i).state = "Running" => processes[i].state = "Running"
        /\ new(i).state = "Zombie" =>
              processes[i].state = "Zombie" \/ processes[i].id = current_user_pid
        /\ new(i).state = "Waiting" =>
              /\ new(i).waiting_for = processes[i].waiting_for
              /\ processes[i].state = "Waiting"
              /\ processes[i].waiting_for \notin {current_user_pid, AnyChild}
  BY <1>1, AfterKillRecord
<1> HIDE DEF new
<1>5. \A i \in 1..n : processes'[i] = new(i)
  BY <1>2
<1>6. processes' \in Seq(Process) /\ Len(processes') = n /\ DOMAIN processes' = 1..n
  <2>1. processes' \in [1..n -> Process]
    BY <1>2, <1>4
  <2>2. processes' \in Seq(Process)
    BY <1>1, <2>1, FunctionIsSeq
  <2> QED
    BY <1>1, <1>2, <2>2, LenProperties
<1>7. ListInv(processes', current)
  BY <1>1, <1>4, <1>5, <1>6, ListInvUpdate
<1>8. TypeOK'
  BY <1>1, <1>3, <1>6 DEF TypeOK
<1>9. AddressSpaceIsCurrent'
  BY <1>3 DEF IInv, Core, AddressSpaceIsCurrent
<1>10. Core'
  BY <1>3, <1>7, <1>8, <1>9 DEF Core
<1>11. Below'
  BY <1>1, <1>3, <1>4, <1>5, <1>6 DEF IInv, Below
<1>12. TreeMatchesRecords'
  <2>1. \A i \in 1..Len(processes') :
           /\ processes'[i].id = processes[i].id
           /\ processes'[i].parent_id = processes[i].parent_id
           /\ process_tree'[processes[i].id] = process_tree[processes[i].id]
    BY <1>3, <1>4, <1>5, <1>6
  <2> QED
    BY <1>1, <1>6, <1>8, <2>1, TreeKept DEF IInv
<1>13. NoLostWakeup'
  <2> SUFFICES ASSUME NEW i \in 1..n, NEW j \in 1..n,
                      processes'[i].state = "Waiting", processes'[j].state = "Zombie",
                      processes'[j].parent_id = processes'[i].id
               PROVE  processes'[i].waiting_for \notin {AnyChild, processes'[j].id}
    BY <1>6 DEF NoLostWakeup
  <2>1. /\ processes'[i].waiting_for = processes[i].waiting_for
        /\ processes[i].state = "Waiting"
        /\ processes[i].waiting_for \notin {current_user_pid, AnyChild}
        /\ processes[j].parent_id = processes[i].id
        /\ processes'[j].id = processes[j].id
        /\ processes[j].state = "Zombie" \/ processes[j].id = current_user_pid
    BY <1>4, <1>5
  <2>2. CASE processes[j].id = current_user_pid
    BY <2>1, <2>2
  <2>3. CASE processes[j].state = "Zombie"
    BY <1>1, <2>1, <2>3 DEF IInv, NoLostWakeup
  <2> QED
    BY <2>1, <2>2, <2>3
<1>14. ASSUME NEW i \in 1..n, NEW j \in 1..n, processes[i].id = processes'[j].id,
              processes[i].state # "Zombie", processes'[j].state = "Zombie"
       PROVE  processes[i].id = current_user_pid
  <2>1. i = j
    BY <1>1, <1>4, <1>5, <1>14 DEF ListInv, UniqueIn
  <2> QED
    BY <1>4, <1>5, <1>14, <2>1
<1>15. IInv'
  BY <1>10, <1>11, <1>12, <1>13 DEF IInv
<1> QED
  BY <1>1, <1>6, <1>14, <1>15

-----------------------------------------------------------------------------
(* Theorems *)

TimedInv == IInv /\ TimerInv

\* The timer of an empty kernel.
LEMMA TimedInitInv == TimedInit => TimedInv
<1> SUFFICES ASSUME TimedInit PROVE TimedInv
  OBVIOUS
<1>1. IInv
  BY InitIInv DEF TimedInit
<1>2. ListOK(timeouts, current_tick)
  BY EmptySeq DEF TimedInit, ListOK
<1>3. in_interrupt \in BOOLEAN /\ user_mode_active \in BOOLEAN
  BY Zenon DEF TimedInit
<1>4. TimerInv
  BY <1>2, <1>3 DEF TimedInit, TimerInv
<1> QED
  BY <1>1, <1>4 DEF TimedInv

\* A step that leaves the timer alone.
LEMMA SameTimer == ASSUME TimerInv, UNCHANGED timerVars PROVE TimerInv'
  BY DEF TimerInv, timerVars

\* Every step of the kernel with its timer, and what kind of step it is.
LEMMA TimedStep ==
    ASSUME TimedInv, [TimedNext]_timedVars
    PROVE  /\ TimedInv'
           /\ \/ ~in_interrupt /\ [Next]_vars
              \/ UNCHANGED vars
              \/ TickTimedOut
           /\ in_interrupt /\ ~in_interrupt' => TickInTime \/ TickTimedOut
<1>1. IInv /\ TimerInv
  BY DEF TimedInv
<1>2. ASSUME [Next]_vars PROVE IInv'
  BY <1>1, <1>2, NextCore, NextWakeup, NextTree DEF IInv
<1>3. UNCHANGED vars => [Next]_vars
  OBVIOUS
<1>4. CASE InterruptSwitch
  <2>1. HandleSwitch /\ ~in_interrupt
    BY <1>4 DEF InterruptSwitch
  <2>2. [Next]_vars
    BY <2>1 DEF Next, KernelNext
  <2>3. in_interrupt' = TRUE
    BY <1>4 DEF InterruptSwitch
  <2>4. TimerInv'
    BY <1>1, <1>4, <2>3 DEF InterruptSwitch, TimerInv
  <2> QED
    BY <1>2, <2>1, <2>2, <2>3, <2>4 DEF TimedInv
<1>5. CASE TickInTime
  <2>1. UNCHANGED vars
    BY <1>5 DEF TickInTime, vars
  <2> QED
    BY <1>1, <1>2, <1>3, <1>5, <2>1, InTimeTimer DEF TimedInv
<1>6. CASE TickTimedOut
  BY <1>1, <1>6, KillTable, TimedOutTimer DEF TimedInv
<1>7. CASE /\ ~in_interrupt /\ UNCHANGED timerVars
           /\ SystemCall \/ NewProcess \/ SpawnChild \/ CleanupTerminatedProcess
  <2>1. [Next]_vars
    BY <1>7 DEF Next, KernelNext
  <2> QED
    BY <1>1, <1>2, <1>7, <2>1, SameTimer DEF TimedInv
<1>8. ASSUME NEW pid \in TimedPids,
             \/ StartUserMode(pid)
             \/ UnregisterProcess(pid)
             \/ \E limit \in Limits : RegisterProcess(pid, limit) \/ SetTimeoutLimit(pid, limit)
      PROVE  ~in_interrupt /\ UNCHANGED vars /\ TimerInv'
  <2>1. ~in_interrupt /\ UNCHANGED vars
    BY <1>8 DEF StartUserMode, UnregisterProcess, RegisterProcess, SetTimeoutLimit, vars
  <2>2. TimerInv'
    BY <1>1, <1>8, StartTimer, UnregisterTimer, RegisterTimer, LimitTimer
  <2> QED
    BY <2>1, <2>2
<1>9. CASE EndUserMode
  <2>1. ~in_interrupt /\ UNCHANGED vars
    BY <1>9 DEF EndUserMode, vars
  <2> QED
    BY <1>1, <1>2, <1>3, <1>9, <2>1, EndTimer DEF TimedInv
<1>10. CASE UNCHANGED timedVars
  <2>1. UNCHANGED vars /\ UNCHANGED timerVars
    BY <1>10 DEF timedVars
  <2>2. in_interrupt' = in_interrupt
    BY <2>1 DEF timerVars
  <2> QED
    BY <1>1, <1>2, <1>3, <2>1, <2>2, SameTimer DEF TimedInv
<1>11. CASE \E pid \in TimedPids :
              \/ StartUserMode(pid)
              \/ UnregisterProcess(pid)
              \/ \E limit \in Limits : RegisterProcess(pid, limit)
                                       \/ SetTimeoutLimit(pid, limit)
  <2>1. ~in_interrupt /\ UNCHANGED vars /\ TimerInv'
    BY <1>8, <1>11
  <2> QED
    BY <1>2, <1>3, <2>1 DEF TimedInv
<1> QED
  BY <1>4, <1>5, <1>6, <1>7, <1>9, <1>10, <1>11, Zenon DEF TimedNext, Interrupt

\* The inductive invariant of the kernel with its timer.
THEOREM TimedInvariance == TimedSpec => []TimedInv
<1>1. TimedInv /\ [TimedNext]_timedVars => TimedInv'
  BY TimedStep
<1> QED
  BY <1>1, TimedInitInv, PTL DEF TimedSpec

\* The time-limit list is well formed, no entry stays timed out, and no clock
\* runs ahead of the timer.
THEOREM TimerTypeCorrect == TimedSpec => []TimeoutTypeOK
<1>1. TimedInv => TimeoutTypeOK
  BY DEF TimedInv, TimerInv, ListOK, EntryOK, TimeoutTypeOK
<1> QED
  BY <1>1, TimedInvariance, PTL

\* No wake-up is lost, with kill_process ending processes as well as exit.
THEOREM TimedWakeupsKept == TimedSpec => []NoLostWakeup
<1>1. TimedInv => NoLostWakeup
  BY DEF TimedInv, IInv
<1> QED
  BY <1>1, TimedInvariance, PTL

\* The list agrees with the CPU data and the loaded page table, and the tree with
\* the records, with the timer as without it.
THEOREM TimedTableCorrect ==
    TimedSpec => [](TypeOK /\ ListMatchesCpu /\ AddressSpaceIsCurrent /\ TreeMatchesRecords)
<1>1. TimedInv => TypeOK /\ ListMatchesCpu /\ AddressSpaceIsCurrent /\ TreeMatchesRecords
  BY CoreImplies DEF TimedInv, IInv, Core, ListMatchesCpu
<1> QED
  BY <1>1, TimedInvariance, PTL

\* The limit is enforced: no timer interrupt leaves user mode active once the limit
\* of its process has passed.
THEOREM LimitsEnforced == TimedSpec => KilledInTime
<1>1. TimedInv /\ [TimedNext]_timedVars =>
        (in_interrupt /\ ~in_interrupt' /\ user_mode_active' /\ Registered(current_user_pid)'
           => age' < (timeouts[EntryOf(current_user_pid)].limit)')
  <2> SUFFICES ASSUME TimedInv, [TimedNext]_timedVars, in_interrupt, ~in_interrupt',
                      user_mode_active', Registered(current_user_pid)'
               PROVE  age' < (timeouts[EntryOf(current_user_pid)].limit)'
    OBVIOUS
  <2>1. TickInTime \/ TickTimedOut
    BY TimedStep
  <2>2. ~TickTimedOut
    BY DEF TickTimedOut
  <2>3. /\ HasEntry(timeouts', current_user_pid')
        /\ EntryOf(current_user_pid)' = First(timeouts', current_user_pid')
    BY DEF Registered, HasEntry, EntryOf, First
  <2>4. age' < timeouts'[First(timeouts', current_user_pid')].limit
    BY <2>1, <2>2, <2>3, InTimeTimer DEF TimedInv
  <2> QED
    BY <2>3, <2>4
<1> QED
  BY <1>1, TimedInvariance, PTL DEF TimedSpec, KilledInTime

\* And not earlier: a process ends by its own exit, or because the limit it was
\* given has passed.
THEOREM OnlyOverdueKilled == TimedSpec => KilledOnlyOverdue
<1>1. TimedInv /\ TimedInv' /\ [TimedNext]_timedVars =>
        \A i \in DOMAIN processes, j \in DOMAIN processes' :
         /\ processes[i].id = processes'[j].id
         /\ processes[i].state # "Zombie"
         /\ processes'[j].state = "Zombie"
         => \/ processes[i].id = current /\ ~in_interrupt
            \/ /\ in_interrupt
               /\ processes[i].id = current_user_pid
               /\ age + 1 >= timeouts[EntryOf(current_user_pid)].limit
  <2> SUFFICES ASSUME TimedInv, TimedInv', [TimedNext]_timedVars,
                      NEW i \in DOMAIN processes, NEW j \in DOMAIN processes',
                      processes[i].id = processes'[j].id,
                      processes[i].state # "Zombie", processes'[j].state = "Zombie"
               PROVE  \/ processes[i].id = current /\ ~in_interrupt
                      \/ /\ in_interrupt
                         /\ processes[i].id = current_user_pid
                         /\ age + 1 >= timeouts[EntryOf(current_user_pid)].limit
    OBVIOUS
  <2>1. CASE ~in_interrupt /\ [Next]_vars
    <3>1. Carried(processes'[j], processes[i])
      BY <2>1, StepOfOne DEF TimedInv, IInv
    <3> QED
      BY <2>1, <3>1 DEF Carried
  <2>2. CASE UNCHANGED vars
    <3>1. processes' = processes /\ UniquePids
      BY <2>2, CoreImplies DEF vars, TimedInv, IInv
    <3> QED
      BY <3>1 DEF UniquePids
  <2>3. CASE TickTimedOut
    <3>1. in_interrupt
      BY <2>3 DEF TickTimedOut
    <3> QED
      BY <2>3, <3>1, KillTable, TimedOutTimer DEF TimedInv
  <2> QED
    BY <2>1, <2>2, <2>3, TimedStep
<1> QED
  BY <1>1, TimedInvariance, PTL DEF TimedSpec, KilledOnlyOverdue
=============================================================================
