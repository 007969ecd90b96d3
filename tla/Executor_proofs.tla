--------------------------- MODULE Executor_proofs ---------------------------
(***************************************************************************)
(* Proofs about Executor: no keystroke is forgotten, the CPU never sleeps  *)
(* on work and no finished task is polled, for every number of tasks and   *)
(* every capacity of the queues, whatever wakes the tasks call.            *)
(***************************************************************************)
EXTENDS Executor, FiniteSetTheorems, TLAPS

KeyboardSteps == {"first_pop", "register", "second_pop", "take_waker"}

\* What each step of the executor knows of the others: who is being polled, what
\* exists while tasks are spawned, what a halted CPU has seen, and that between
\* the registration of the waker and the second pop an interrupt that takes the
\* waker leaves a scancode.
ControlOK ==
    /\ pc \in KeyboardSteps => polled = Keyboard
    /\ pc = "poll_other" => polled \in Others
    /\ pc \in {"spawn", "next_task", "idle", "masked", "halted"} => polled = NoTask
    /\ pc = "spawn" => ~initialized
    /\ pc # "spawn" => Keyboard \in tasks
    /\ ~initialized => scancodes = 0
    /\ pc = "halted" => task_queue = << >>
    /\ pc = "second_pop" => waker = Keyboard \/ scancodes > 0

\* Every accepted scancode is in the queue, in the hands of poll_next or printed;
\* a panic may strike with one in hand.
Accounted ==
    /\ printed + scancodes <= accepted
    /\ pc = "take_waker" => accepted = printed + scancodes + 1
    /\ pc \notin {"take_waker", "panicked"} => accepted = printed + scancodes

\* While tasks are spawned the queue holds each of them once.
SpawnedOnce ==
    pc = "spawn" =>
        /\ \A i, j \in DOMAIN task_queue : task_queue[i] = task_queue[j] => i = j
        /\ \A i \in DOMAIN task_queue : task_queue[i] \in tasks

\* A suspended keyboard task is queued, or will be by the next scancode, or its
\* wake-up was lost.
Armed ==
    polled # Keyboard /\ pc # "panicked" /\ Keyboard \in tasks
        => Queued(Keyboard) \/ (waker = Keyboard /\ scancodes = 0) \/ lost

\* A lost wake-up: only the warning TaskWaker loses one, and afterwards the
\* keyboard task is neither queued, nor polled, nor registered to be woken.
Stranded ==
    lost =>
        /\ on_full = "warn" /\ pc # "spawn"
        /\ waker = NoTask /\ ~Queued(Keyboard) /\ polled # Keyboard

IInv ==
    /\ ExecutorTypeOK /\ ControlOK /\ Accounted /\ FinishedNeverPolled
    /\ SpawnedOnce /\ Armed /\ Stranded

-----------------------------------------------------------------------------
(* Sequences *)

\* A sequence without repetition is no longer than its set of values is large.
LEMMA InjectiveBound ==
    ASSUME NEW S, IsFiniteSet(S), NEW s \in Seq(S),
           \A i, j \in DOMAIN s : s[i] = s[j] => i = j
    PROVE  Len(s) <= Cardinality(S)
<1>1. Len(s) \in Nat /\ DOMAIN s = 1..Len(s) /\ s \in [1..Len(s) -> S]
  OBVIOUS
<1>2. IsFiniteSet(1..Len(s)) /\ Cardinality(1..Len(s)) = Len(s)
  <2> DEFINE n == Len(s)
  <2>1. n \in Nat
    BY <1>1
  <2> HIDE DEF n
  <2>2. /\ IsFiniteSet(1..n)
        /\ Cardinality(1..n) = IF 1 > n THEN 0 ELSE n - 1 + 1
    BY <2>1, FS_Interval
  <2>3. Cardinality(1..n) = n
    BY <2>1, <2>2
  <2> QED
    BY <2>2, <2>3 DEF n
<1>3. Cardinality(S) \in Nat
  BY FS_CardinalityType
<1>4. SUFFICES ASSUME Cardinality(S) < Len(s) PROVE FALSE
  BY <1>1, <1>3
<1>5. \E x, y \in 1..Len(s) : x # y /\ s[x] = s[y]
  BY <1>1, <1>2, <1>4, FS_PigeonHole
<1> QED
  BY <1>1, <1>5

\* What a push does to a queue.
LEMMA AppendFacts ==
    ASSUME NEW S, NEW s \in Seq(S), NEW e \in S
    PROVE  /\ Append(s, e) \in Seq(S)
           /\ Len(Append(s, e)) = Len(s) + 1
           /\ \A i \in DOMAIN s : i \in DOMAIN Append(s, e) /\ Append(s, e)[i] = s[i]
           /\ Len(s) + 1 \in DOMAIN Append(s, e)
           /\ Append(s, e)[Len(s) + 1] = e
           /\ \A i \in DOMAIN Append(s, e) : i \in DOMAIN s \/ i = Len(s) + 1
           /\ Len(s) + 1 \notin DOMAIN s
  OBVIOUS

\* What a pop does to a queue.
LEMMA TailFacts ==
    ASSUME NEW S, NEW s \in Seq(S), s # << >>
    PROVE  /\ Head(s) \in S /\ Head(s) = s[1] /\ 1 \in DOMAIN s
           /\ Tail(s) \in Seq(S)
           /\ Len(Tail(s)) <= Len(s)
           /\ \A i \in DOMAIN Tail(s) :
                i \in Nat /\ i + 1 \in DOMAIN s /\ i + 1 # 1 /\ Tail(s)[i] = s[i + 1]
           /\ \A i \in DOMAIN s : i # 1 => i - 1 \in DOMAIN Tail(s) /\ Tail(s)[i - 1] = s[i]
  OBVIOUS

-----------------------------------------------------------------------------
(* The task queue *)

\* The tasks, and the keyboard's beside the others.
LEMMA TaskCount ==
    /\ IsFiniteSet(Tasks) /\ Cardinality(Tasks) \in Nat
    /\ Cardinality(Others) \in Nat
    /\ Cardinality(Tasks) = Cardinality(Others) + 1
<1>1. IsFiniteSet(Others \cup {Keyboard})
      /\ Cardinality(Others \cup {Keyboard}) = Cardinality(Others) + 1
  BY FS_AddElement, ExecutorAssumption
<1>2. Others \cup {Keyboard} = Tasks
  BY DEF Tasks
<1> QED
  BY <1>1, <1>2, FS_CardinalityType, ExecutorAssumption, Zenon

\* TaskWaker::wake_task, as seen by the queue: nothing leaves it, and unless it is
\* full the woken task is at its end.
LEMMA WakeFacts ==
    ASSUME ExecutorTypeOK, NEW t \in Tasks, task_queue' = QueueAfterWake(t)
    PROVE  /\ task_queue' \in Seq(Tasks) /\ Len(task_queue') <= TaskQueueSize
           /\ \A x : Queued(x) => Queued(x)'
           /\ ~Full => Queued(t)'
           /\ \A i \in DOMAIN task_queue' :
                \/ i \in DOMAIN task_queue /\ task_queue'[i] = task_queue[i]
                \/ i = Len(task_queue) + 1 /\ i \notin DOMAIN task_queue /\ task_queue'[i] = t
<1>1. CASE Full
  BY <1>1 DEF QueueAfterWake, ExecutorTypeOK, Queued
<1>2. CASE ~Full
  <2>1. task_queue' = Append(task_queue, t) /\ task_queue \in Seq(Tasks)
    BY <1>2 DEF QueueAfterWake, ExecutorTypeOK
  <2>2. Len(task_queue) \in Nat /\ Len(task_queue) < TaskQueueSize
    BY <1>2, ExecutorAssumption DEF Full, ExecutorTypeOK
  <2>3. Len(task_queue') <= TaskQueueSize
    BY <2>1, <2>2, AppendFacts, ExecutorAssumption
  <2> QED
    BY <2>1, <2>3, AppendFacts DEF Queued
<1> QED
  BY <1>1, <1>2

-----------------------------------------------------------------------------
(* The inductive invariant *)

\* Before the first spawn.
LEMMA InitIInv == Init => IInv
<1> SUFFICES ASSUME Init PROVE IInv
  OBVIOUS
<1>1. task_queue \in Seq(Tasks) /\ Len(task_queue) = 0 /\ DOMAIN task_queue = {}
  BY DEF Init
<1>2. ExecutorTypeOK
  <2>1. polled \in Tasks \cup {NoTask} /\ tasks \subseteq Tasks
    BY DEF Init
  <2>2. initialized \in BOOLEAN /\ lost \in BOOLEAN
    BY Zenon DEF Init
  <2>3. scancodes \in 0..ScancodeQueueSize /\ accepted \in 0..MaxKeys /\ printed \in 0..MaxKeys
    BY ExecutorAssumption DEF Init
  <2> QED
    BY <1>1, <2>1, <2>2, <2>3, ExecutorAssumption DEF Init, ExecutorTypeOK
<1>3. ControlOK
  BY DEF Init, ControlOK, KeyboardSteps
<1>4. Accounted
  BY DEF Init, Accounted
<1>5. SpawnedOnce /\ Armed
  BY <1>1, ExecutorAssumption DEF Init, SpawnedOnce, Armed, Tasks
<1>6. FinishedNeverPolled /\ Stranded
  BY DEF Init, FinishedNeverPolled, Stranded
<1> QED
  BY <1>2, <1>3, <1>4, <1>5, <1>6 DEF IInv

\* An accepted scancode: the waker it takes puts the keyboard task on the queue.
\* A full queue ends in a panic or, with the task neither there nor polled, in a
\* loss.
LEMMA AddScancodeStep == ASSUME IInv, AddScancode PROVE IInv'
<1> USE DEF IInv
<1>1. pc \in {"next_task", "poll_other", "idle", "halted"} \cup KeyboardSteps
  BY DEF AddScancode, InterruptsEnabled, ExecutorTypeOK, KeyboardSteps
<1>2. /\ scancodes \in Nat /\ scancodes' = scancodes + 1 /\ scancodes' \in 0..ScancodeQueueSize
      /\ accepted \in Nat /\ accepted' = accepted + 1 /\ accepted' \in 0..MaxKeys
      /\ printed' = printed /\ polled' = polled /\ tasks' = tasks
      /\ initialized' = initialized /\ initialized = TRUE /\ on_full' = on_full
      /\ waker' = NoTask
  BY ExecutorAssumption DEF AddScancode, ExecutorTypeOK
<1>3. /\ pc' \in {pc, "next_task", "panicked"} /\ pc # "spawn" /\ pc' # "spawn"
      /\ pc' = "next_task" => pc \in {"halted", "next_task"}
      /\ pc = "halted" => pc' # "halted"
  BY <1>1 DEF AddScancode, PcAfterWake, Resumed, KeyboardSteps
<1>4. waker = Keyboard => task_queue' = QueueAfterWake(Keyboard)
  BY ExecutorAssumption DEF AddScancode, Tasks
<1>5. waker # Keyboard => task_queue' = task_queue
  BY DEF AddScancode, ExecutorTypeOK
<1>6. /\ task_queue' \in Seq(Tasks) /\ Len(task_queue') <= TaskQueueSize
      /\ Queued(Keyboard) => Queued(Keyboard)'
      /\ \A i \in DOMAIN task_queue' :
           \/ i \in DOMAIN task_queue /\ task_queue'[i] = task_queue[i]
           \/ i \notin DOMAIN task_queue /\ i = Len(task_queue) + 1 /\ task_queue'[i] = Keyboard
  <2>1. CASE waker = Keyboard
    <3>1. Keyboard \in Tasks
      BY DEF Tasks
    <3> QED
      BY <2>1, <3>1, <1>4, WakeFacts
  <2>2. CASE waker # Keyboard
    BY <2>2, <1>5 DEF ExecutorTypeOK, Queued
  <2> QED
    BY <2>1, <2>2
<1>7. lost' = (lost \/ KeyboardWakeLost) /\ lost' \in BOOLEAN
  BY DEF AddScancode
<1>8. ExecutorTypeOK'
  BY <1>1, <1>2, <1>3, <1>6, <1>7 DEF ExecutorTypeOK, KeyboardSteps
<1>9. ControlOK'
  BY <1>1, <1>2, <1>3 DEF ControlOK, KeyboardSteps
<1>10. Accounted'
  BY <1>1, <1>2, <1>3 DEF Accounted, KeyboardSteps, ExecutorTypeOK
<1>11. SpawnedOnce' /\ FinishedNeverPolled'
  BY <1>2, <1>3 DEF SpawnedOnce, FinishedNeverPolled
<1>12. Armed'
  <2> SUFFICES ASSUME polled # Keyboard, Keyboard \in tasks, pc' # "panicked", ~lost'
               PROVE  Queued(Keyboard)'
    BY <1>2 DEF Armed
  <2>1. pc # "panicked" /\ ~lost
    BY <1>1, <1>7, Zenon DEF KeyboardSteps
  <2>2. CASE Queued(Keyboard)
    BY <2>2, <1>6
  <2>3. CASE ~Queued(Keyboard)
    <3>1. waker = Keyboard /\ waker # NoTask
      BY <2>1, <2>3, ExecutorAssumption DEF Armed, Tasks
    <3>2. ~Full
      <4>1. CASE on_full = "panic"
        BY <3>1, <4>1 DEF AddScancode, PcAfterWake
      <4>2. CASE on_full = "warn"
        BY <2>3, <3>1, <4>2, <1>7, Zenon DEF KeyboardWakeLost
      <4> QED
        BY <4>1, <4>2 DEF ExecutorTypeOK
    <3>3. Keyboard \in Tasks
      BY DEF Tasks
    <3> QED
      BY <3>1, <3>2, <3>3, <1>4, WakeFacts
  <2> QED
    BY <2>2, <2>3
<1>13. Stranded'
  <2> SUFFICES ASSUME lost' PROVE Stranded'
    BY DEF Stranded
  <2>1. /\ on_full = "warn" /\ polled # Keyboard /\ ~Queued(Keyboard)
        /\ task_queue' = task_queue
    <3>1. CASE lost
      BY <3>1, <1>5, ExecutorAssumption DEF Stranded, Tasks
    <3>2. CASE KeyboardWakeLost
      <4>1. on_full = "warn" /\ polled # Keyboard /\ ~Queued(Keyboard) /\ Full
        BY <3>2 DEF KeyboardWakeLost
      <4> QED
        BY <4>1, <1>4, <1>5 DEF QueueAfterWake
    <3> QED
      BY <1>7, <3>1, <3>2, Zenon
  <2>2. ~Queued(Keyboard)'
    BY <2>1 DEF Queued
  <2> QED
    BY <1>2, <1>3, <2>1, <2>2 DEF Stranded
<1> QED
  BY <1>8, <1>9, <1>10, <1>11, <1>12, <1>13

\* Spawning adds a task that is not queued yet.
LEMMA SpawnStep == ASSUME IInv, NEW t \in Tasks, Spawn(t) PROVE IInv'
<1> USE DEF IInv
<1>1. /\ task_queue \in Seq(Tasks) /\ task_queue' = Append(task_queue, t)
      /\ tasks' = tasks \cup {t} /\ t \notin tasks /\ pc = "spawn"
      /\ UNCHANGED <<on_full, initialized, scancodes, waker, pc, polled, accepted,
                     printed, lost>>
  BY DEF Spawn, ExecutorTypeOK
<1>2. /\ task_queue' \in Seq(Tasks)
      /\ \A i \in DOMAIN task_queue : i \in DOMAIN task_queue' /\ task_queue'[i] = task_queue[i]
      /\ Len(task_queue) + 1 \in DOMAIN task_queue'
      /\ task_queue'[Len(task_queue) + 1] = t
      /\ \A i \in DOMAIN task_queue' : i \in DOMAIN task_queue \/ i = Len(task_queue) + 1
      /\ Len(task_queue) + 1 \notin DOMAIN task_queue
  BY <1>1, AppendFacts
<1>3. \A i \in DOMAIN task_queue : task_queue[i] \in tasks /\ task_queue[i] # t
  BY <1>1 DEF SpawnedOnce
<1>4. \A i, j \in DOMAIN task_queue' : task_queue'[i] = task_queue'[j] => i = j
  BY <1>1, <1>2, <1>3 DEF SpawnedOnce
<1>5. Len(task_queue') <= TaskQueueSize
  <2>1. Len(task_queue') <= Cardinality(Tasks)
    BY <1>2, <1>4, TaskCount, InjectiveBound
  <2>2. Len(task_queue') \in Nat
    BY <1>2
  <2> QED
    BY <2>1, <2>2, TaskCount, ExecutorAssumption
<1>6. ExecutorTypeOK'
  BY <1>1, <1>2, <1>5 DEF ExecutorTypeOK
<1>7. ControlOK' /\ Accounted'
  BY <1>1 DEF ControlOK, Accounted, KeyboardSteps
<1>8. SpawnedOnce'
  BY <1>1, <1>2, <1>3, <1>4 DEF SpawnedOnce
<1>9. FinishedNeverPolled' /\ Stranded'
  BY <1>1 DEF FinishedNeverPolled, Stranded
<1>10. Armed'
  <2>1. Queued(Keyboard) => Queued(Keyboard)'
    BY <1>2 DEF Queued
  <2>2. t = Keyboard => Queued(Keyboard)'
    BY <1>2 DEF Queued
  <2> QED
    BY <1>1, <2>1, <2>2 DEF Armed
<1> QED
  BY <1>6, <1>7, <1>8, <1>9, <1>10

\* Popping an id: the keyboard task is polled with its id gone from the queue; the
\* id of a finished task is dropped.
LEMMA PopTaskStep == ASSUME IInv, PopTask PROVE IInv'
<1> USE DEF IInv
<1> DEFINE task == Head(task_queue)
<1>1. /\ task_queue \in Seq(Tasks) /\ task_queue # << >> /\ task_queue' = Tail(task_queue)
      /\ pc = "next_task"
      /\ UNCHANGED <<on_full, tasks, scancodes, waker, accepted, printed, lost>>
  BY DEF PopTask, ExecutorTypeOK
<1>2. /\ task \in Tasks /\ task = task_queue[1] /\ 1 \in DOMAIN task_queue
      /\ task_queue' \in Seq(Tasks) /\ Len(task_queue') <= Len(task_queue)
      /\ \A i \in DOMAIN task_queue' :
           /\ i \in Nat /\ i + 1 \in DOMAIN task_queue /\ i + 1 # 1
           /\ task_queue'[i] = task_queue[i + 1]
      /\ \A i \in DOMAIN task_queue :
           i # 1 => i - 1 \in DOMAIN task_queue' /\ task_queue'[i - 1] = task_queue[i]
  BY <1>1, TailFacts
<1>3. polled = NoTask /\ polled # Keyboard /\ Keyboard \in tasks
  BY <1>1, ExecutorAssumption DEF ControlOK, Tasks
<1>4. /\ Queued(Keyboard)' => Queued(Keyboard)
      /\ task # Keyboard => (Queued(Keyboard) => Queued(Keyboard)')
      /\ task = Keyboard => Queued(Keyboard)
  BY <1>2 DEF Queued
<1>5. Len(task_queue') <= TaskQueueSize
  BY <1>2, ExecutorAssumption DEF ExecutorTypeOK
<1>6. CASE task \in tasks
  <2>1. /\ polled' = task
        /\ pc' = IF task = Keyboard THEN "first_pop" ELSE "poll_other"
        /\ initialized' = (initialized \/ task = Keyboard)
    BY <1>6 DEF PopTask
  <2>2. task # Keyboard => task \in Others
    BY <1>2 DEF Tasks
  <2>3. initialized' \in BOOLEAN
    BY <2>1
  <2>4. ExecutorTypeOK'
    BY <1>1, <1>2, <1>5, <2>1, <2>3 DEF ExecutorTypeOK
  <2>5. ControlOK' /\ Accounted'
    BY <1>1, <1>3, <2>1, <2>2, ExecutorAssumption, Zenon DEF ControlOK, Accounted, KeyboardSteps
  <2>6. FinishedNeverPolled' /\ SpawnedOnce'
    BY <1>1, <1>6, <2>1 DEF FinishedNeverPolled, SpawnedOnce
  <2>7. Armed'
    BY <1>1, <1>3, <1>4, <2>1 DEF Armed
  <2>8. Stranded'
    BY <1>1, <1>4, <2>1 DEF Stranded
  <2> QED
    BY <2>4, <2>5, <2>6, <2>7, <2>8
<1>7. CASE task \notin tasks
  <2>1. UNCHANGED <<polled, pc, initialized>> /\ task # Keyboard
    BY <1>3, <1>7 DEF PopTask
  <2>2. ExecutorTypeOK'
    BY <1>1, <1>2, <1>5, <2>1 DEF ExecutorTypeOK
  <2>3. ControlOK' /\ Accounted'
    BY <1>1, <2>1 DEF ControlOK, Accounted, KeyboardSteps
  <2>4. FinishedNeverPolled' /\ SpawnedOnce'
    BY <1>1, <2>1 DEF FinishedNeverPolled, SpawnedOnce
  <2>5. Armed'
    BY <1>1, <1>4, <2>1 DEF Armed
  <2>6. Stranded'
    BY <1>1, <1>4, <2>1 DEF Stranded
  <2> QED
    BY <2>2, <2>3, <2>4, <2>5, <2>6
<1> QED
  BY <1>6, <1>7

\* A wake called from the poll of another task: the keyboard task's place in the
\* queue is left alone.
LEMMA WakeOtherStep == ASSUME IInv, NEW t \in Others, WakeOther(t) PROVE IInv'
<1> USE DEF IInv
<1>1. /\ pc = "poll_other" /\ polled \in Others /\ polled # Keyboard /\ polled # NoTask
      /\ t \in Tasks /\ t # Keyboard /\ Keyboard \in tasks
      /\ task_queue' = QueueAfterWake(t) /\ pc' \in {"poll_other", "panicked"}
      /\ UNCHANGED <<on_full, tasks, initialized, scancodes, waker, polled, accepted,
                     printed, lost>>
  BY ExecutorAssumption DEF WakeOther, PcAfterWake, ControlOK, Tasks
<1>2. /\ task_queue' \in Seq(Tasks) /\ Len(task_queue') <= TaskQueueSize
      /\ Queued(Keyboard) => Queued(Keyboard)'
      /\ \A i \in DOMAIN task_queue' :
           \/ i \in DOMAIN task_queue /\ task_queue'[i] = task_queue[i]
           \/ task_queue'[i] = t
  BY <1>1, WakeFacts
<1>3. Queued(Keyboard)' => Queued(Keyboard)
  BY <1>1, <1>2 DEF Queued
<1>4. ExecutorTypeOK'
  BY <1>1, <1>2 DEF ExecutorTypeOK
<1>5. ControlOK' /\ Accounted'
  BY <1>1 DEF ControlOK, Accounted, KeyboardSteps
<1>6. FinishedNeverPolled' /\ SpawnedOnce'
  BY <1>1 DEF FinishedNeverPolled, SpawnedOnce
<1>7. Armed'
  BY <1>1, <1>2 DEF Armed
<1>8. Stranded'
  BY <1>1, <1>3 DEF Stranded
<1> QED
  BY <1>4, <1>5, <1>6, <1>7, <1>8

\* The poll of another task returns: its id may stay in the queue.
LEMMA PollOtherStep == ASSUME IInv, PollOther PROVE IInv'
<1> USE DEF IInv
<1>1. /\ pc = "poll_other" /\ pc' = "next_task" /\ polled \in Others /\ polled # Keyboard
      /\ polled' = NoTask /\ NoTask # Keyboard /\ Keyboard \in tasks
      /\ UNCHANGED <<on_full, task_queue, initialized, scancodes, waker, accepted,
                     printed, lost>>
  BY ExecutorAssumption DEF PollOther, ControlOK, Tasks
<1>2. tasks' \subseteq Tasks /\ Keyboard \in tasks'
  BY <1>1 DEF PollOther, ExecutorTypeOK
<1>3. Queued(Keyboard)' <=> Queued(Keyboard)
  BY <1>1 DEF Queued
<1>4. ExecutorTypeOK'
  BY <1>1, <1>2 DEF ExecutorTypeOK
<1>5. ControlOK' /\ Accounted'
  BY <1>1, <1>2 DEF ControlOK, Accounted, KeyboardSteps
<1>6. FinishedNeverPolled' /\ SpawnedOnce'
  BY <1>1 DEF FinishedNeverPolled, SpawnedOnce
<1>7. Armed'
  BY <1>1, <1>3 DEF Armed
<1>8. Stranded'
  BY <1>1, <1>3 DEF Stranded
<1> QED
  BY <1>4, <1>5, <1>6, <1>7, <1>8

\* The steps that only move control.
LEMMA ControlStep ==
    ASSUME IInv,
           Run \/ RunReadyTasksReturns \/ DisableInterrupts \/ SleepIfIdle \/ Interrupt
    PROVE  IInv'
<1> USE DEF IInv
<1>1. UNCHANGED <<on_full, tasks, task_queue, initialized, scancodes, waker, polled,
                  accepted, printed, lost>>
  BY DEF Run, RunReadyTasksReturns, DisableInterrupts, SleepIfIdle, Interrupt
<1>2. /\ pc \in {"spawn", "next_task", "idle", "masked", "halted"}
      /\ pc' \in {"next_task", "idle", "masked", "halted"}
      /\ pc' = "halted" => task_queue = << >>
      /\ pc = "spawn" => Keyboard \in tasks
  BY DEF Run, RunReadyTasksReturns, DisableInterrupts, SleepIfIdle, Interrupt, Tasks
<1>3. ExecutorTypeOK'
  BY <1>1, <1>2 DEF ExecutorTypeOK
<1>4. ControlOK' /\ Accounted'
  BY <1>1, <1>2 DEF ControlOK, Accounted, KeyboardSteps
<1>5. Queued(Keyboard)' <=> Queued(Keyboard)
  BY <1>1 DEF Queued
<1>6. FinishedNeverPolled' /\ SpawnedOnce'
  BY <1>1, <1>2 DEF FinishedNeverPolled, SpawnedOnce
<1>7. Armed' /\ Stranded'
  BY <1>1, <1>2, <1>5 DEF Armed, Stranded
<1> QED
  BY <1>3, <1>4, <1>6, <1>7

\* The steps of poll_next.  Register is followed by the second pop, so a scancode
\* that came before the waker was there is seen.
LEMMA KeyboardStep ==
    ASSUME IInv, FirstPop \/ Register \/ SecondPop \/ TakeWaker
    PROVE  IInv'
<1> USE DEF IInv
<1>1. /\ pc \in KeyboardSteps /\ polled = Keyboard /\ Keyboard \in tasks
      /\ UNCHANGED <<on_full, tasks, task_queue, initialized, accepted, lost>>
  BY DEF FirstPop, Register, SecondPop, TakeWaker, PopScancode, ControlOK, KeyboardSteps
<1>2. Queued(Keyboard)' <=> Queued(Keyboard)
  BY <1>1 DEF Queued
<1>3. scancodes \in Nat /\ printed \in Nat /\ accepted \in Nat /\ accepted \in 0..MaxKeys
  BY ExecutorAssumption DEF ExecutorTypeOK
<1>4. SpawnedOnce' /\ FinishedNeverPolled' /\ Stranded'
  <2>1. pc' # "spawn" /\ polled' \in {Keyboard, NoTask} /\ ~lost
    BY <1>1 DEF FirstPop, Register, SecondPop, TakeWaker, PopScancode, Stranded
  <2> QED
    BY <1>1, <2>1 DEF SpawnedOnce, FinishedNeverPolled, Stranded
<1>5. CASE FirstPop /\ scancodes > 0
  <2>1. scancodes' = scancodes - 1 /\ printed' = printed + 1
    BY <1>5 DEF FirstPop, PopScancode
  <2>2. printed + scancodes = accepted
    BY <1>5 DEF FirstPop, Accounted
  <2>3. printed' \in 0..MaxKeys
    BY <1>3, <1>5, <2>1, <2>2, ExecutorAssumption
  <2> QED
    BY <1>1, <1>3, <1>4, <1>5, <2>1, <2>2, <2>3, ExecutorAssumption
       DEF FirstPop, PopScancode, ExecutorTypeOK, ControlOK, Accounted, Armed, KeyboardSteps
<1>6. CASE FirstPop /\ ~(scancodes > 0)
  <2>1. pc = "first_pop" /\ pc' = "register" /\ UNCHANGED <<waker, polled, scancodes, printed>>
    BY <1>6 DEF FirstPop, PopScancode
  <2>2. ExecutorTypeOK'
    BY <1>1, <2>1 DEF ExecutorTypeOK
  <2>3. ControlOK'
    BY <1>1, <2>1 DEF ControlOK, KeyboardSteps
  <2>4. Accounted' /\ Armed'
    BY <1>1, <2>1 DEF Accounted, Armed
  <2> QED
    BY <1>4, <2>2, <2>3, <2>4
<1>7. CASE Register
  <2>1. /\ pc = "register" /\ pc' = "second_pop" /\ waker' = Keyboard
        /\ UNCHANGED <<polled, scancodes, printed>>
    BY <1>1, <1>7 DEF Register
  <2>2. ExecutorTypeOK'
    BY <1>1, <2>1 DEF ExecutorTypeOK
  <2>3. ControlOK'
    BY <1>1, <2>1 DEF ControlOK, KeyboardSteps
  <2>4. Accounted' /\ Armed'
    BY <1>1, <2>1 DEF Accounted, Armed
  <2> QED
    BY <1>4, <2>2, <2>3, <2>4
<1>8. CASE SecondPop /\ scancodes > 0
  BY <1>1, <1>3, <1>4, <1>8, ExecutorAssumption
     DEF SecondPop, ExecutorTypeOK, ControlOK, Accounted, Armed, KeyboardSteps
<1>9. CASE SecondPop /\ ~(scancodes > 0)
  <2>1. waker = Keyboard /\ scancodes = 0
    BY <1>3, <1>9 DEF SecondPop, ControlOK
  <2> QED
    BY <1>1, <1>3, <1>4, <1>9, <2>1, ExecutorAssumption
       DEF SecondPop, ExecutorTypeOK, ControlOK, Accounted, Armed, KeyboardSteps
<1>10. CASE TakeWaker
  BY <1>1, <1>3, <1>4, <1>10, ExecutorAssumption
     DEF TakeWaker, ExecutorTypeOK, ControlOK, Accounted, Armed, KeyboardSteps
<1> QED
  BY <1>5, <1>6, <1>7, <1>8, <1>9, <1>10

\* Every step preserves the invariant.
LEMMA NextIInv == ASSUME IInv, [Next]_vars PROVE IInv'
<1>1. CASE ExecutorStep
  <2>1. CASE \E task \in Tasks : Spawn(task)
    BY <2>1, SpawnStep
  <2>2. CASE PopTask
    BY <2>2, PopTaskStep
  <2>3. CASE \E task \in Others : WakeOther(task)
    BY <2>3, WakeOtherStep
  <2>4. CASE PollOther
    BY <2>4, PollOtherStep
  <2>5. CASE Run \/ RunReadyTasksReturns \/ DisableInterrupts \/ SleepIfIdle
    BY <2>5, ControlStep
  <2>6. CASE FirstPop \/ Register \/ SecondPop \/ TakeWaker
    BY <2>6, KeyboardStep
  <2> QED
    BY <1>1, <2>1, <2>2, <2>3, <2>4, <2>5, <2>6 DEF ExecutorStep
<1>2. CASE AddScancode
  BY <1>2, AddScancodeStep
<1>3. CASE Interrupt
  BY <1>3, ControlStep
<1>4. CASE PanicLoop \/ UNCHANGED vars
  <2>1. UNCHANGED vars
    BY <1>4 DEF PanicLoop
  <2> USE <2>1 DEF IInv, vars
  <2>2. ExecutorTypeOK'
    BY DEF ExecutorTypeOK
  <2>3. ControlOK' /\ Accounted' /\ FinishedNeverPolled' /\ SpawnedOnce'
    BY DEF ControlOK, Accounted, FinishedNeverPolled, SpawnedOnce
  <2>4. Armed' /\ Stranded'
    BY DEF Armed, Stranded, Queued
  <2> QED
    BY <2>2, <2>3, <2>4
<1> QED
  BY <1>1, <1>2, <1>3, <1>4 DEF Next

\* The inductive invariant holds of every behaviour of the executor, the keyboard
\* task and the interrupts that cut into them.
THEOREM Invariance == Spec => []IInv
<1>1. Init => IInv
  BY InitIInv
<1>2. IInv /\ [Next]_vars => IInv'
  BY NextIInv
<1> QED
  BY <1>1, <1>2, PTL DEF Spec

-----------------------------------------------------------------------------
(* Theorems *)

\* Both queues stay within the capacities given to ArrayQueue::new, and spawn
\* always finds room, for any number of tasks that the queue was made for.
THEOREM TypeCorrect == Spec => []ExecutorTypeOK
<1>1. IInv => ExecutorTypeOK
  BY DEF IInv
<1> QED
  BY <1>1, Invariance, PTL

\* No keystroke is forgotten by poll_next and add_keyboard_scancode, wherever the
\* interrupt falls and however often other tasks call their wakers, but for a
\* wake-up that the warning wake_task lost to a full queue.
THEOREM KeystrokesKept == Spec => []NoLostKeystroke
<1>1. IInv => NoLostKeystroke
  BY DEF IInv, ControlOK, Armed, Stranded, NoLostKeystroke
<1> QED
  BY <1>1, Invariance, PTL

\* sleep_if_idle halts the CPU only when no task is queued and, unless a wake-up was
\* lost, no scancode waits and the keyboard interrupt will find a waker.
THEOREM SleepSound == Spec => []SleepsOnlyWhenIdle
<1>1. ASSUME IInv, pc = "halted"
      PROVE  /\ task_queue = << >>
             /\ (scancodes = 0 /\ waker = Keyboard) \/ (lost /\ on_full = "warn")
  <2>1. task_queue = << >> /\ Keyboard \in tasks /\ polled = NoTask /\ NoTask # Keyboard
    BY <1>1, ExecutorAssumption DEF IInv, ControlOK, Tasks
  <2>2. ~Queued(Keyboard)
    BY <2>1 DEF Queued
  <2> QED
    BY <1>1, <2>1, <2>2 DEF IInv, Armed, Stranded
<1>2. IInv => SleepsOnlyWhenIdle
  BY <1>1 DEF SleepsOnlyWhenIdle
<1> QED
  BY <1>2, Invariance, PTL

\* run_ready_tasks never polls a task that has finished, however many of its ids
\* the wakers left in the queue.
THEOREM FinishedSkipped == Spec => []FinishedNeverPolled
<1>1. IInv => FinishedNeverPolled
  BY DEF IInv
<1> QED
  BY <1>1, Invariance, PTL

\* The executor whose TaskWaker panics on a full queue (task/executor.rs) loses no
\* wake-up.  Where one is lost the loss is final: the keyboard task is out of every
\* queue and register that could have it polled, and stays out.
THEOREM LossIsWarnedAndFinal == Spec => []Stranded /\ [][lost => lost']_vars
<1>1. IInv => Stranded
  BY DEF IInv
<1>2. Next => (lost => lost')
  <2>1. ExecutorStep => (lost => lost')
    BY Zenon DEF ExecutorStep, Spawn, Run, PopTask, WakeOther, PollOther, RunReadyTasksReturns,
           DisableInterrupts, SleepIfIdle, FirstPop, Register, SecondPop, TakeWaker
  <2>2. AddScancode \/ Interrupt \/ PanicLoop => (lost => lost')
    BY Zenon DEF AddScancode, Interrupt, PanicLoop, vars
  <2> QED
    BY <2>1, <2>2 DEF Next
<1> QED
  BY <1>1, <1>2, Invariance, PTL DEF Spec
=============================================================================
