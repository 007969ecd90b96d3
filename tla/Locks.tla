------------------------------- MODULE Locks -------------------------------
(***************************************************************************)
(* The kernel's spin locks and everything that takes them on one CPU: the  *)
(* system calls, the timer, keyboard and exception handlers, the boot code *)
(* and the executor's thread.                                              *)
(*                                                                         *)
(* A handler is the set of its possible runs.  A run is the sequence of    *)
(* steps that matter to locking: taking and releasing a lock, masking and  *)
(* restoring interrupts, asking for heap memory (which may fail and        *)
(* panic), touching user memory (which may fault) and halting.  A row of   *)
(* messages with nothing between them is one message.                      *)
(*                                                                         *)
(* A spin lock asked for again on the CPU that holds it never comes free:  *)
(* the CPU hangs.                                                          *)
(***************************************************************************)
EXTENDS Naturals, Sequences

\* The static locks that the handlers and the boot code take, and the memory
\* manager's lock of its frame allocator.
Locks == {"TIMEOUT_MANAGER", "SCHEDULER", "CHANNEL_REGISTRY", "HANDLE_REGISTRY",
          "NEXT_PID", "ALLOCATOR", "CPU_MANAGER", "TICK_COUNTER", "PICS",
          "WRITER", "SERIAL1", "frame_allocator"}

Step(op, lock) == [op |-> op, lock |-> lock]
NoLock == "none"

VARIABLES
    mode,       \* what runs under the handlers: boot code, a process or a thread
    stack,      \* the handlers in progress, the innermost last
    holder      \* the depth in stack of each lock's holder; 0: free

vars == <<mode, stack, holder>>

-----------------------------------------------------------------------------
\* Runs of code as sets of sequences.
Nothing == {<< >>}
Do(op) == {<<Step(op, NoLock)>>}
Then(A, B) == {a \o b : a \in A, b \in B}
Hold(lock, Body) ==
    {<<Step("lock", lock)>> \o b \o <<Step("unlock", lock)>> : b \in Body}

\* serial::_print: the port's lock, with interrupts as they are.
SerialPrintln == Hold("SERIAL1", Nothing)

\* Variant: interrupts are not masked.
PrintlnUnmasked == Then(Hold("WRITER", Nothing), SerialPrintln)

\* vga_buffer::_print: the screen, then the serial port, interrupts masked.
Println ==
    Then(Then(Do("mask"), Then(Hold("WRITER", Nothing), SerialPrintln)), Do("restore"))

\* LockedHeap::alloc; a null result ends in alloc_error_handler.
Alloc == Then(Hold("ALLOCATOR", Nothing), Do("alloc"))

\* dealloc
Dealloc == Hold("ALLOCATOR", Nothing)

\* Variant: a fault is reported and the faulting instruction tried again.
FaultHandlerReturns == Println

\* The panic handler, and the fault handlers, which end in the same way.
FaultHandler == Then(Println, Do("hlt"))
Panic == Then(Println, Do("hlt"))

-----------------------------------------------------------------------------
(* The timer's code.                                                        *)

StartUserMode == Hold("TIMEOUT_MANAGER", Then(Nothing \cup Alloc, Println))

RegisterProcess == Hold("TIMEOUT_MANAGER", Then(Nothing \cup Alloc, Println))

EndUserMode == Hold("TIMEOUT_MANAGER", Nothing \cup Println)

\* kill_process: the scheduler's lock inside the timeout manager's.
KillProcess == Then(Println, Hold("SCHEDULER", Nothing \cup Println))

\* check_timeouts, handle_timeout: silent, a warning, or the kill.
CheckTimeouts ==
    Nothing \cup Println \cup Then(KillProcess, Nothing \cup Println)

IncrementTick ==
    Hold("TIMEOUT_MANAGER", Then(CheckTimeouts, Hold("TICK_COUNTER", Nothing)))

\* handle_switch: acknowledges by a port write, reports, schedules.
HandleSwitch == Then(Println, Hold("SCHEDULER", Nothing \cup Println))

TimerInterrupt == Then(HandleSwitch, IncrementTick)

\* add_keyboard_scancode complains of a full or missing queue; the PIC is told.
KeyboardInterrupt == Then(Nothing \cup Println, Hold("PICS", Nothing))

-----------------------------------------------------------------------------
(* The system calls.  Each refusal is a message and a return.               *)

SysFork ==
    Then(Println,
         Hold("SCHEDULER",
              Nothing \cup Println
              \cup Then(Hold("NEXT_PID", Nothing),
                        Then(Nothing \cup Alloc, Println))))

\* find_zombie_children collects into a Vec; the status goes to user memory
\* with the scheduler still locked.
SysWait4 ==
    Println
    \cup Then(Println,
              Hold("SCHEDULER",
                   Then(Nothing \cup Then(Then(Alloc, Nothing \cup Do("user")), Dealloc),
                        Nothing \cup Println)))

\* Variant: the switch happens under the lock.
SysYieldSwitchesAway == Then(Println, {<<Step("lock", "SCHEDULER")>>})

SysYield == Then(Println, Hold("SCHEDULER", Nothing))

\* Variant: the clock is stopped under the scheduler's lock.
SysExitEndsUserMode ==
    Println
    \cup Then(Println, Hold("SCHEDULER", Then(Println, EndUserMode)))

\* handle_process_exit: a message from Process::exit, then the orphans' Vec.
SysExit ==
    Println
    \cup Then(Println,
              Hold("SCHEDULER",
                   Println \cup Then(Println, Then(Alloc, Dealloc))))

\* from_utf8 reads the whole buffer before print! is called.
SysWrite == Println \cup Then(Do("user"), Nothing \cup Println)

SysCreateChannel ==
    Println
    \cup Then(Println, Then(Nothing \cup Hold("CHANNEL_REGISTRY", Nothing \cup Alloc),
                            Println))

\* Message::new copies the user's data before the registry is locked.
SysSendMessage ==
    Println
    \cup Then(Then(Println, Do("user")),
              Then(Hold("CHANNEL_REGISTRY", Nothing \cup Alloc), Println))

\* The message is copied out after receive_message has let the registry go.
SysReceiveMessage ==
    Println
    \cup Then(Println, Then(Hold("CHANNEL_REGISTRY", Nothing),
                            Then(Nothing \cup Do("user"), Println)))

SysCreateMemoryHandle ==
    Println
    \cup Then(Println, Then(Hold("HANDLE_REGISTRY", Nothing \cup Alloc), Println))

\* transfer_memory gathers the frames in a Vec and reports under the lock.
SysTransferMemory ==
    Println
    \cup Then(Println,
              Then(Nothing
                   \cup Hold("HANDLE_REGISTRY",
                             Nothing \cup Then(Alloc, Then(Println, Dealloc))),
                   Println))

SysReceiveMemoryHandle ==
    Println
    \cup Then(Println, Then(Hold("HANDLE_REGISTRY", Nothing \cup Println), Println))

\* rust_syscall_handler: getpid and an unknown number only print.
SyscallHandler ==
    Println
    \cup Then(Println, UNION {SysFork, SysWait4, SysYield, SysExit, SysWrite,
                              SysCreateChannel, SysSendMessage, SysReceiveMessage,
                              SysCreateMemoryHandle, SysTransferMemory,
                              SysReceiveMemoryHandle})

-----------------------------------------------------------------------------
(* The code below the handlers.                                             *)

\* serial::init
SerialInit == Then(Println, SerialPrintln)

\* cpu::init reports with the CPU table locked.
CpuInit == Hold("CPU_MANAGER", Println)

\* GlobalMemoryManager::init
ManagerInit == Hold("frame_allocator", Nothing)

\* init_tasks makes and queues both processes with the scheduler locked.
InitTasks == Hold("SCHEDULER", Nothing \cup Panic \cup Alloc)

\* jump_to_user_mode, which refuses addresses outside user space.
JumpToUserMode == Then(Println, Panic \cup Then(StartUserMode, Println))

\* kernel_main: a failed expect or check halts.  Left out: the boot checks, and
\* the trial call of the user code in kernel mode, which does not return.
KernelMain ==
    LET Checked == Nothing \cup Panic
        Devices == Then(Println, Then(CpuInit, Then(Checked, SerialInit)))
        Heap == Then(Hold("ALLOCATOR", Nothing), Then(Alloc, ManagerInit))
        BootChecks == Then(Checked, Println)
        UserPages == Then(Checked, Then(SerialPrintln, Then(Checked, SerialPrintln)))
        Timer == Then(Println, Then(RegisterProcess, StartUserMode))
    IN  Then(Then(Devices, Then(Then(Heap, BootChecks), UserPages)),
             Then(Then(InitTasks, Timer), JumpToUserMode))

\* lib::init, for a kernel that runs tasks: interrupts are enabled at its end.
LibInit == Then(SerialInit, Then(Println, Hold("PICS", Nothing)))

\* What Executor and its tasks do: spawn and wakers allocate, finished tasks are
\* freed, process_keyboard_input prints.
ExecutorCode == Alloc \cup Dealloc \cup Println

-----------------------------------------------------------------------------
Frame(run, open) == [run |-> run, open |-> open, masked |-> FALSE]

Depth == Len(stack)
Top == stack[Depth]
Op == IF Depth = 0 \/ Top.run = << >> THEN Step("return", NoLock) ELSE Head(Top.run)

\* The interrupt flag: cleared through boot and by every gate.
InterruptsEnabled ==
    /\ mode \in {"user", "executor"}
    /\ Depth > 0 => Top.open /\ ~Top.masked

Enter(Runs, open) ==
    /\ \E run \in Runs : stack' = Append(stack, Frame(run, open))
    /\ UNCHANGED <<mode, holder>>

Init ==
    /\ \/ mode = "kernel_main" /\ \E run \in KernelMain : stack = <<Frame(run, FALSE)>>
       \/ mode = "init" /\ \E run \in LibInit : stack = <<Frame(run, FALSE)>>
    /\ holder = [l \in Locks |-> 0]

\* Boot ends in user mode, or with interrupts enabled.
BootDone ==
    /\ Depth = 0
    /\ \/ mode = "kernel_main" /\ mode' = "user"
       \/ mode = "init" /\ mode' = "executor"
    /\ UNCHANGED <<stack, holder>>

\* SYSCALL clears IF (SFMASK).
Syscall == mode = "user" /\ Depth = 0 /\ Enter(SyscallHandler, FALSE)

UserFault == mode = "user" /\ Depth = 0 /\ Enter(FaultHandler, FALSE)

ExecutorRuns == mode = "executor" /\ Depth = 0 /\ Enter(ExecutorCode, TRUE)

Timer == InterruptsEnabled /\ Enter(TimerInterrupt, FALSE)

Keyboard == InterruptsEnabled /\ Enter(KeyboardInterrupt, FALSE)

\* The next step of the innermost handler is done.
Advance(frame) == stack' = [stack EXCEPT ![Depth] = frame]
Rest == [Top EXCEPT !.run = Tail(@)]

Acquire ==
    /\ Op.op = "lock" /\ holder[Op.lock] = 0
    /\ holder' = [holder EXCEPT ![Op.lock] = Depth]
    /\ Advance(Rest)
    /\ UNCHANGED mode

Release ==
    /\ Op.op = "unlock"
    /\ holder' = [holder EXCEPT ![Op.lock] = 0]
    /\ Advance(Rest)
    /\ UNCHANGED mode

\* without_interrupts; in a handler IF is already clear.
MaskOrRestore ==
    /\ Op.op \in {"mask", "restore"}
    /\ Advance([Rest EXCEPT !.masked = (Op.op = "mask")])
    /\ UNCHANGED <<mode, holder>>

\* The heap had room; the user page was there.
Proceed ==
    /\ Op.op \in {"alloc", "user"}
    /\ Advance(Rest)
    /\ UNCHANGED <<mode, holder>>

\* The heap was full: the panic runs where the allocation was made.
OutOfMemory ==
    /\ Op.op = "alloc"
    /\ \E run \in Panic : Advance([Top EXCEPT !.run = run])
    /\ UNCHANGED <<mode, holder>>

\* The user page was not there.
KernelFault == Op.op = "user" /\ Enter(FaultHandler, FALSE)

Return ==
    /\ Depth > 0 /\ Top.run = << >>
    /\ stack' = SubSeq(stack, 1, Depth - 1)
    /\ UNCHANGED <<mode, holder>>

Halted == Op.op = "hlt" /\ UNCHANGED vars

RunHandler ==
    \/ Acquire \/ Release \/ MaskOrRestore \/ Proceed
    \/ OutOfMemory \/ KernelFault \/ Return

Next ==
    \/ BootDone \/ Syscall \/ UserFault \/ ExecutorRuns \/ Timer \/ Keyboard
    \/ RunHandler \/ Halted

\* A CPU goes on with the code it is running.  With interrupts enabled another
\* interrupt may always come first, so open code is not assured to advance.
InHandler == Depth > 0 /\ ~Top.open
Spec == Init /\ [][Next]_vars /\ WF_vars(RunHandler)

-----------------------------------------------------------------------------
\* The lock table and the nesting: at most a handler over the code it came from,
\* and no lock outlives the code that took it.
LocksTypeOK ==
    /\ mode \in {"kernel_main", "init", "user", "executor"}
    /\ Depth <= 2
    /\ holder \in [Locks -> 0..Depth]

\* No code asks for a spin lock this CPU already holds, in the same handler or in
\* code the handler interrupted.  The locks of the screen and the serial port
\* rely on _print masking interrupts, those of the scheduler and the timeout
\* manager on being taken with interrupts off only.
NeverSpinsOnItself == Op.op = "lock" => holder[Op.lock] = 0

\* Locks are nested in one order everywhere, so handlers on several CPUs could
\* not wait for each other in a circle through their own nesting.
LockRank ==
    [l \in Locks |->
        CASE l = "TIMEOUT_MANAGER" -> 1
          [] l = "SCHEDULER" -> 2
          [] l \in {"CHANNEL_REGISTRY", "HANDLE_REGISTRY", "CPU_MANAGER"} -> 3
          [] OTHER -> 4]
OneLockOrder ==
    Op.op = "lock" =>
        \A l \in Locks :
            holder[l] = Depth => LockRank[l] < LockRank[Op.lock]

\* Every system call and interrupt that starts ends: it returns to what it
\* interrupted or has reported a fault and halted.
HandlersFinish == InHandler ~> (~InHandler \/ Op.op = "hlt")
=============================================================================
