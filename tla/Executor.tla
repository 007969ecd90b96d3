------------------------------ MODULE Executor ------------------------------
(***************************************************************************)
(* Keyboard input and the tasks that consume it: the scancode queue, the   *)
(* stream and the waker of src/src/process/mod.rs, the interrupt handler   *)
(* of src/src/interrupts.rs, and the executor of src/src/task/executor.rs. *)
(*                                                                         *)
(* One CPU runs the executor; the keyboard and timer interrupts preempt it *)
(* at any of its steps at which interrupts are enabled, and their handlers *)
(* run to the end (interrupt gates clear IF).  Each access of the executor *)
(* to a queue or to the waker is a step of its own.                        *)
(*                                                                         *)
(* Scancodes are interchangeable, so the scancode queue is its length.     *)
(* The waker cache only saves allocations: the waker of a task is its id.  *)
(***************************************************************************)
EXTENDS Naturals, Sequences, FiniteSets

CONSTANTS
    Keyboard,           \* the task that runs process_keyboard_input
    Others,             \* other spawned tasks, with arbitrary futures
    TaskQueueSize,      \* capacity of Executor::task_queue (100 in the code)
    ScancodeQueueSize,  \* capacity of SCANCODE_QUEUE (100 in the code)
    MaxKeys             \* bound: scancodes accepted in a behaviour

Tasks == {Keyboard} \cup Others
NoTask == "none"

\* spawn expects room for every task, and run never returns to spawn more.
ASSUME ExecutorAssumption ==
    /\ Keyboard \notin Others /\ NoTask \notin Tasks
    /\ IsFiniteSet(Others)
    /\ TaskQueueSize \in Nat /\ Cardinality(Tasks) <= TaskQueueSize
    /\ ScancodeQueueSize \in Nat \ {0}
    /\ MaxKeys \in Nat

VARIABLES
    on_full,        \* which TaskWaker is used: the one that panics or that warns
    tasks,          \* Executor::tasks, the spawned and unfinished ones
    task_queue,     \* Executor::task_queue
    initialized,    \* SCANCODE_QUEUE has been created
    scancodes,      \* length of SCANCODE_QUEUE
    waker,          \* the task in KEYBOARD_WAKER, or NoTask
    pc,             \* next step of the executor
    polled,         \* task being polled, or NoTask
    accepted,       \* scancodes pushed so far
    printed,        \* scancodes process_keyboard_input has handled so far
    lost            \* history: a full queue dropped the keyboard's only wake-up

vars == <<on_full, tasks, task_queue, initialized, scancodes, waker, pc, polled,
          accepted, printed, lost>>

-----------------------------------------------------------------------------
Init ==
    /\ on_full \in {"panic", "warn"}
    /\ tasks = {}
    /\ task_queue = <<>>
    /\ initialized = FALSE
    /\ scancodes = 0
    /\ waker = NoTask
    /\ pc = "spawn"
    /\ polled = NoTask
    /\ accepted = 0
    /\ printed = 0
    /\ lost = FALSE

-----------------------------------------------------------------------------
(* TaskWaker::wake_task: one module panics on a full queue, the other warns *)

Full == Len(task_queue) = TaskQueueSize

Queued(task) == \E i \in DOMAIN task_queue : task_queue[i] = task

\* task/executor.rs.  Where control goes next when the wake-up itself is the
\* last thing to happen before "next".
PcAfterWake(next) == IF Full /\ on_full = "panic" THEN "panicked" ELSE next

\* Variant: the queue is taken to grow as needed.
QueueAfterWakeUnbounded(task) == Append(task_queue, task)

\* process/mod.rs: a wake-up that finds no room is dropped with a warning.
QueueAfterWake(task) == IF Full THEN task_queue ELSE Append(task_queue, task)

-----------------------------------------------------------------------------
(* The keyboard and timer interrupts *)

InterruptsEnabled == pc \notin {"spawn", "masked", "panicked"}

\* An interrupt ends a hlt.
Resumed == IF pc = "halted" THEN "next_task" ELSE pc

\* The wake-up about to be sent is dropped with a warning, the waker is gone, and
\* nothing else will have the keyboard task polled.  A drop is harmless while the
\* task is queued, or polled: it pops once more before it is suspended.
KeyboardWakeLost ==
    /\ waker # NoTask /\ Full /\ on_full = "warn"
    /\ ~Queued(Keyboard) /\ polled # Keyboard

\* keyboard_interrupt_handler with add_keyboard_scancode: the scancode is
\* queued and the registered waker, if any, is taken and woken.  A scancode
\* that finds the queue full or not created yet is dropped (see Interrupt).
AddScancode ==
    /\ InterruptsEnabled /\ initialized /\ scancodes < ScancodeQueueSize
    /\ accepted < MaxKeys
    /\ scancodes' = scancodes + 1
    /\ accepted' = accepted + 1
    /\ IF waker = NoTask
       THEN /\ pc' = Resumed
            /\ UNCHANGED <<task_queue, waker>>
       ELSE /\ task_queue' = QueueAfterWake(waker)
            /\ pc' = PcAfterWake(Resumed)
            /\ waker' = NoTask
    /\ lost' = (lost \/ KeyboardWakeLost)
    /\ UNCHANGED <<on_full, tasks, initialized, polled, printed>>

\* The timer, and a scancode that is dropped, end a hlt and do nothing else.
Interrupt ==
    /\ pc = "halted"
    /\ pc' = "next_task"
    /\ UNCHANGED <<on_full, tasks, task_queue, initialized, scancodes, waker,
                   polled, accepted, printed, lost>>

-----------------------------------------------------------------------------
(* Executor *)

\* spawn
Spawn(task) ==
    /\ pc = "spawn" /\ task \notin tasks
    /\ tasks' = tasks \cup {task}
    /\ task_queue' = Append(task_queue, task)
    /\ UNCHANGED <<on_full, initialized, scancodes, waker, pc, polled, accepted,
                   printed, lost>>

\* run enters its loop once everything is spawned.
Run ==
    /\ pc = "spawn" /\ tasks = Tasks
    /\ pc' = "next_task"
    /\ UNCHANGED <<on_full, tasks, task_queue, initialized, scancodes, waker,
                   polled, accepted, printed, lost>>

\* Variant: the newest id is popped, not the oldest.
PopTaskNewest ==
    /\ pc = "next_task" /\ task_queue # <<>>
    /\ task_queue' = SubSeq(task_queue, 1, Len(task_queue) - 1)
    /\ LET task == task_queue[Len(task_queue)]
       IN  IF task \in tasks
           THEN /\ polled' = task
                /\ pc' = IF task = Keyboard THEN "first_pop" ELSE "poll_other"
                /\ initialized' = (initialized \/ task = Keyboard)
           ELSE UNCHANGED <<polled, pc, initialized>>
    /\ UNCHANGED <<on_full, tasks, scancodes, waker, accepted, printed, lost>>

\* Variant: the id is not looked up.
PopTaskUnchecked ==
    /\ pc = "next_task" /\ task_queue # <<>>
    /\ task_queue' = Tail(task_queue)
    /\ LET task == Head(task_queue)
       IN  /\ polled' = task
           /\ pc' = IF task = Keyboard THEN "first_pop" ELSE "poll_other"
           /\ initialized' = (initialized \/ task = Keyboard)
    /\ UNCHANGED <<on_full, tasks, scancodes, waker, accepted, printed, lost>>

\* One turn of the loop of run_ready_tasks; an id whose task has finished is
\* skipped.  The first poll of the keyboard task creates the scancode queue.
PopTask ==
    /\ pc = "next_task" /\ task_queue # <<>>
    /\ task_queue' = Tail(task_queue)
    /\ LET task == Head(task_queue)
       IN  IF task \in tasks
           THEN /\ polled' = task
                /\ pc' = IF task = Keyboard THEN "first_pop" ELSE "poll_other"
                /\ initialized' = (initialized \/ task = Keyboard)
           ELSE UNCHANGED <<polled, pc, initialized>>
    /\ UNCHANGED <<on_full, tasks, scancodes, waker, accepted, printed, lost>>

\* TaskWaker::wake, wake_by_ref, called by the task being polled, which is not
\* the keyboard's: any number of times, on its own waker or on a clone of another
\* task's, finished or not.  poll_next hands the keyboard task's waker to
\* KEYBOARD_WAKER only.  The queue does not look for an id it already holds.
WakeOther(task) ==
    /\ pc = "poll_other"
    /\ task_queue' = QueueAfterWake(task)
    /\ pc' = PcAfterWake(pc)
    /\ UNCHANGED <<on_full, tasks, initialized, scancodes, waker, polled, accepted,
                   printed, lost>>

\* The poll of a task other than the keyboard's returns.  A finished task is
\* removed; its id may still be queued.
PollOther ==
    /\ pc = "poll_other"
    /\ \E ready \in BOOLEAN : tasks' = IF ready THEN tasks \ {polled} ELSE tasks
    /\ pc' = "next_task"
    /\ polled' = NoTask
    /\ UNCHANGED <<on_full, task_queue, initialized, scancodes, waker, accepted,
                   printed, lost>>

\* run_ready_tasks finds the queue empty and returns.
RunReadyTasksReturns ==
    /\ pc = "next_task" /\ task_queue = <<>>
    /\ pc' = "idle"
    /\ UNCHANGED <<on_full, tasks, task_queue, initialized, scancodes, waker,
                   polled, accepted, printed, lost>>

\* sleep_if_idle begins by disabling interrupts.
DisableInterrupts ==
    /\ pc = "idle"
    /\ pc' = "masked"
    /\ UNCHANGED <<on_full, tasks, task_queue, initialized, scancodes, waker,
                   polled, accepted, printed, lost>>

\* Variant: the CPU is halted without a second look at the queue.
HaltUnchecked ==
    /\ pc = "masked"
    /\ pc' = "halted"
    /\ UNCHANGED <<on_full, tasks, task_queue, initialized, scancodes, waker,
                   polled, accepted, printed, lost>>

\* enable_and_hlt if the queue is still empty, enable if a wake-up came in
\* between.
SleepIfIdle ==
    /\ pc = "masked"
    /\ pc' = IF task_queue = <<>> THEN "halted" ELSE "next_task"
    /\ UNCHANGED <<on_full, tasks, task_queue, initialized, scancodes, waker,
                   polled, accepted, printed, lost>>

-----------------------------------------------------------------------------
(* The keyboard task: process_keyboard_input polling the scancode stream *)

\* process_keyboard_input decodes and prints, then asks for the next scancode.
\* An empty queue goes on to "otherwise".
PopScancode(otherwise) ==
    IF scancodes > 0
    THEN /\ scancodes' = scancodes - 1
         /\ printed' = printed + 1
         /\ pc' = "first_pop"
    ELSE /\ pc' = otherwise
         /\ UNCHANGED <<scancodes, printed>>

\* poll_next, fast path: pop before touching the waker.
FirstPop ==
    /\ pc = "first_pop"
    /\ PopScancode("register")
    /\ UNCHANGED <<on_full, tasks, task_queue, initialized, waker, polled,
                   accepted, lost>>

\* Variant: the task is suspended as soon as its waker is registered.
RegisterAndSuspend ==
    /\ pc = "register"
    /\ waker' = polled
    /\ pc' = "next_task"
    /\ polled' = NoTask
    /\ UNCHANGED <<on_full, tasks, task_queue, initialized, scancodes, accepted,
                   printed, lost>>

\* KEYBOARD_WAKER.register
Register ==
    /\ pc = "register"
    /\ waker' = polled
    /\ pc' = "second_pop"
    /\ UNCHANGED <<on_full, tasks, task_queue, initialized, scancodes, polled,
                   accepted, printed, lost>>

\* The second pop of poll_next.  Pending suspends the task; otherwise the
\* waker is taken back first.
SecondPop ==
    /\ pc = "second_pop"
    /\ IF scancodes > 0
       THEN /\ scancodes' = scancodes - 1
            /\ pc' = "take_waker"
            /\ UNCHANGED polled
       ELSE /\ pc' = "next_task"
            /\ polled' = NoTask
            /\ UNCHANGED scancodes
    /\ UNCHANGED <<on_full, tasks, task_queue, initialized, waker, accepted,
                   printed, lost>>

\* KEYBOARD_WAKER.take, after which the scancode is printed.
TakeWaker ==
    /\ pc = "take_waker"
    /\ waker' = NoTask
    /\ printed' = printed + 1
    /\ pc' = "first_pop"
    /\ UNCHANGED <<on_full, tasks, task_queue, initialized, scancodes, polled,
                   accepted, lost>>

-----------------------------------------------------------------------------
\* The panic handler halts for ever.
PanicLoop == pc = "panicked" /\ UNCHANGED vars

\* Everything the executor itself does.
ExecutorStep ==
    \/ \E task \in Tasks : Spawn(task)
    \/ Run \/ PopTask \/ (\E task \in Others : WakeOther(task)) \/ PollOther
    \/ RunReadyTasksReturns \/ DisableInterrupts \/ SleepIfIdle
    \/ FirstPop \/ Register \/ SecondPop \/ TakeWaker

Next == ExecutorStep \/ AddScancode \/ Interrupt \/ PanicLoop

\* The CPU executes the next instruction of the executor unless it is halted;
\* no interrupt is promised.
Spec == Init /\ [][Next]_vars /\ WF_vars(ExecutorStep)

-----------------------------------------------------------------------------
(* Properties *)

\* Type invariant: queues within their capacities, a known step.
ExecutorTypeOK ==
    /\ on_full \in {"panic", "warn"}
    /\ tasks \subseteq Tasks
    /\ task_queue \in Seq(Tasks) /\ Len(task_queue) <= TaskQueueSize
    /\ initialized \in BOOLEAN
    /\ scancodes \in 0..ScancodeQueueSize
    /\ waker \in {Keyboard, NoTask}
    /\ pc \in {"spawn", "next_task", "poll_other", "idle", "masked", "halted", "panicked",
               "first_pop", "register", "second_pop", "take_waker"}
    /\ polled \in Tasks \cup {NoTask}
    /\ accepted \in 0..MaxKeys
    /\ printed \in 0..MaxKeys
    /\ lost \in BOOLEAN

\* No keystroke is forgotten: whenever scancodes wait while the keyboard task is
\* suspended, its id is in the task queue, however interrupts fall between the
\* two pops and the registration of poll_next and whatever wakes the other tasks
\* call.  The one exception is a wake-up that the warning TaskWaker drops when
\* neither the queue nor a poll holds the keyboard task.
NoLostKeystroke ==
    scancodes > 0 /\ polled # Keyboard /\ pc # "panicked" =>
        Queued(Keyboard) \/ (lost /\ on_full = "warn")

\* The CPU never sleeps on work: it is halted only with an empty task queue,
\* and, unless a wake-up was lost to a full queue, with an empty scancode queue
\* and a keyboard task whose waker is registered.
SleepsOnlyWhenIdle ==
    pc = "halted" =>
        /\ task_queue = <<>>
        /\ (scancodes = 0 /\ waker = Keyboard) \/ (lost /\ on_full = "warn")

\* run_ready_tasks never polls a finished task, although a task that is woken
\* again while its id is queued, or by a clone of its waker afterwards, leaves its
\* id behind when it finishes.  A future must not be polled after Ready.
FinishedNeverPolled == polled # NoTask => polled \in tasks

\* Every accepted scancode is eventually printed, unless the kernel panics on a
\* full queue or the warning TaskWaker lost a wake-up to one.
KeystrokesPrinted ==
    \A n \in 1..MaxKeys :
        accepted >= n ~> printed >= n \/ pc = "panicked" \/ (lost /\ on_full = "warn")
=============================================================================
