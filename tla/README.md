# Specifications of the ruix kernel

This directory specifies the stateful core of ruix, an x86_64 microkernel in
Rust (`src/src`), in TLA+. TLC checks the specifications on small instances;
TLAPS proves the main safety properties for every value of the constants.
`PROJECT.json` maps every definition to the source lines it models and lists
runs, mutants, findings, hazards and theorems.

## The system

| Part | Source | Module |
| --- | --- | --- |
| process list, hierarchy, scheduling | `process/scheduler.rs`, `process/mod.rs` | `Scheduler` |
| process system calls: fork, wait4, sched_yield, exit | `syscall.rs` | `Scheduler` |
| system call entry, argument parsing | `syscall.rs`, `interrupts.rs` | `SyscallEntry` |
| IPC channels, system calls 2, 3, 4 | `ipc.rs`, `syscall.rs` | `Channels` (extends `Ipc`), which implements `MessageLog` |
| memory handles, system calls 5, 6, 7 | `ipc.rs`, `syscall.rs` | `MemoryHandles` (extends `Ipc`) |
| time limits and the timer interrupt | `timer.rs`, `interrupts.rs` | `Timeout` (extends `Scheduler`) |
| keyboard stream, wakers, executor | `process/mod.rs`, `task/` | `Executor` |
| heap | `allocator.rs`, `allocator/fixed_size_block.rs` | `Heap` |
| scalable memory manager | `memory/scalable.rs` | `Memory` (extends `Heap`), which implements `AbstractHeap` |
| frames, page tables, boot | `memory.rs`, `allocator.rs`, `process/mod.rs`, `main.rs` | `Boot`; `BootInit` in `Scheduler` |
| spin locks, interrupt and fault handlers, console | all that lock | `Locks` |
| error tables, self tests | `error.rs`, `testing*`, `tests/` | not modelled |

`lib.rs` does not declare the module `task`, so the stand-alone executor is not in
the build; `task/keyboard.rs` is the same stream as the one in `process/mod.rs`,
which is.

The parts meet in these places. Every system call acts for the pid in
`CPU_DATA.current_process_id`, which the scheduler writes. The timer interrupt
calls `handle_switch` (scheduler) and then `increment_tick` (time limits), which
can kill a process by writing the scheduler's list; `Timeout` composes the two.
The memory manager sits on the heap that other code uses directly; `Memory`
composes them. All of them share one CPU's locks with the handlers that interrupt
them; `Locks` composes those.

## Modelling conventions

- One action per handler or operation. System calls run with interrupts masked
  (`SFMASK` clears IF) and take their lock once, so each is atomic. The timer
  interrupt is two steps with `in_interrupt` set in between; no other step is
  possible there.
- A call that is refused before it changes anything is no step. Requests just
  outside each limit are among the inputs, so the guards are exercised.
- Handlers are modelled from the point where their arguments are parsed.
  `SyscallEntry` models the way there, and shows that as the code stands the
  parsing refuses every call: what the other modules say of system calls is what
  holds once that is repaired.
- Logging is left out. Ids are unique (`UniquePids`, `TypeOK`), so a loop that
  stops at the first match and one that visits all matches are the same.
- `sent`, `received`, `granted`, `installed`, `age` and `lost` are history variables. No
  guard of the code's actions reads them. (`sends` only carries a bound.)
- Operators introduced by "Variant:" are faulty versions of the definition that
  follows. Nothing uses them; they serve to confirm that each property fails
  when the code is changed in a plausible way.

### Scheduler

`processes` is the deque `Scheduler::processes`; a record keeps the fields the
operations read. `process_tree` and `orphans` are the hierarchy map and the
list of orphans (as a count per pid). `next_pid` is `NEXT_PID`, `current` is
`CPU_DATA.current_process_id`, and `cr3` names the process whose page table is
loaded. A saved context is named by the pid that was current when it was
captured. In `wait4`, `AnyChild` stands for `-1`, and a pid can only be named
within the range the handler accepts (1000 to 10000 in the code, `WaitPidMin`
to `WaitPidMax` here).

There are two specifications. `Spec` starts empty and includes the exported
operations that create and discard processes (`NewProcess` is `add_process` of
a root process, `SpawnChild` is `Process::fork` with `add_process` and
`register_child`, `CleanupTerminatedProcess`). Nothing in the tree calls the
last two yet; they are the interface a complete `fork` would use. `BootSpec` is
the kernel as `main.rs` boots it: processes 1 and 2 under literal pids, system
calls and timer only.

### Ipc, Channels and MessageLog

`Ipc` has what the two registries of `ipc.rs` share: the pids and the process that
is current. `channels` is the registry; `queue[s]` is what endpoint `s` sent
(`queue1_to_2`, `queue2_to_1`). `CreateChannel`, `SendMessage` and
`ReceiveMessage` are the functions of `ipc::syscalls`; the `Sys...` actions put
the checks of `syscall.rs` in front of them. `ContextSwitch` is the scheduler
seen from here: some process becomes current.

`MessageLog` is what a channel promises: each direction is a log with at most
`Capacity` unread entries, nothing lost, doubled or reordered while the channel
is open, and a closed channel never reopened. The refinement maps the open
channels to the ids below `next_id` and the closed ones to those no longer in
the registry.

### MemoryHandles

`handles` is the registry. (Names that `Channels` has too begin with `Handles`:
`HandlesInit`, `HandlesNext`, `HandlesTypeOK`.) The code prints the page-table
changes of transfer, receive and revoke without making them; `installed[h]` is the
set of processes in which, by these reports, the pages of `h` are installed, and
`granted[h]` the set the owner gave the handle to. Addresses and sizes are counted in half pages
so that unaligned requests exist; an odd `UserMax` plays the role of
`0x7fffffff`, the last byte of a page. `RevokeHandle` is the bare primitive
`HandleRegistry::revoke_handle`, which unmaps nothing.

### Timeout

`timeouts` is `TimeoutManager::processes`, a list in which a pid may occur twice
and lookups take the first entry. `UnregisterProcess` states what `retain` does by
the increasing enumeration `kept` of the positions that stay. `TimedSpec` has every
operation of the manager together with those of the scheduler.

### Executor

`task_queue` and `scancodes` are the two `ArrayQueue`s, `waker` the `AtomicWaker`.
`poll_next` is four steps (first pop, registration, second pop, taking the waker
back) and `sleep_if_idle` two; the keyboard interrupt may fall between any two
steps while interrupts are enabled. `on_full` chooses between the two versions of
`wake_task`: `task/executor.rs` panics on a full queue, `process/mod.rs` drops the
wake-up with a warning. (The second is private and nothing in the tree makes one;
it is combined with the same executor.) Of a scancode only that it is accepted and
handled is kept.

Of the tasks other than the keyboard's only their wakes and their end are kept. A
waker can be cloned, handed on and called any number of times, and the queue takes
an id it already holds, so during a poll `WakeOther` may happen any number of times,
for the task itself or for any other, finished ones included. It also allows wakers
of tasks that were not polled yet, which no task can hold. The keyboard task's waker
is different: `poll_next` gives it to `KEYBOARD_WAKER` only.

`lost` records that `wake_task` dropped the wake-up of a keyboard task that was
neither queued nor polled. The waker has been taken out of `KEYBOARD_WAKER` by then,
so nothing has the task polled again. The properties of the keyboard stream make
this one exception, which only the warning version has; the panicking one stops
instead.

### Heap, Memory and AbstractHeap

`list_heads` are the free lists of `FixedSizeBlockAllocator`, `fallback` the bytes
of the linked-list allocator (external: it gives any aligned run it has, and takes
back what it is given), `live` the blocks handed out. `Memory` adds the
initialisation in two steps (the flag, then the manager), `allocate` and `free` of
the global manager, and the per-CPU lists, on which a small region is kept when it
is freed on whatever CPU. A caller holds one region at a time and gives it back
through the interface it came by. `FreeAlign` is the 8 that `free` puts into every
layout it rebuilds, the smallest block size in the code. `AbstractHeap` is what
callers rely on: what they hold never overlaps.

### Boot

Page tables are functions from indexes to entries, a page the sequence of its four
indexes. `usable_frames` is the set of what the allocator's iterator yields; since the
bootloader sorts the memory map, the frame that `nth(n)` returns is the one with `n`
usable frames before it (`IsNth`), and `next` counts the calls. The steps are those
of `kernel_main`: the heap's pages, the user pages
with `set_user_bit_for_parents`, a level 4 table per process, the trial call of the
user program in kernel mode. `map_to` is external: at each of the levels 4, 3
and 2 `Descend` follows the entry (`Enter`) or makes a table for it (`Create`), and
fails when the allocator has no frame. `opens_parents` lets it behave in either way
towards parent tables that exist already. `Walk` is `translate_addr_inner`, level by
level, with the user flags met on the way.

### Locks

A handler is the set of its possible runs, a run the sequence of its steps that
matter to locking. Interrupts push the run of a handler on `stack` when they are
enabled, and so do faults where user memory is touched. A failed allocation, and a
failed `expect`, go on with the panic handler. Boot runs once, then a process or
the executor's thread is interrupted. The locks are those of the statics and the
memory manager's `frame_allocator`; its lists have locks too, which none of this code
takes. The boot checks are a choice between passing
and halting, and the trial call in kernel mode is left out (otherwise nothing
after it would be reached).

### SyscallEntry

Memory is an array of slots; an address is a slot number, with the kernel's part in
the half that is negative as `isize`. Registers hold their own name, so that it is
visible which one a read returns. A slot never written, or skipped by the stub, may
hold anything. `int 0x80` from user mode meets a gate of privilege level 0 and ends
in a double fault.

## What the runs check

Passing runs:

| Run | States | Shows |
| --- | --- | --- |
| `scheduler` | 1.2 M | The caller of a system call is always at the front of the list, only the current process is Running, its page table is loaded, pids are unique, tree and records agree, children are counted right, no wake-up is lost and none is spurious. |
| `channels` | 0.26 M | In-order delivery without loss, authentic senders, every message has a reader, refinement of `MessageLog`. |
| `handles` | 0.41 M | Handles are one aligned user page, pages reach granted processes only, revocation is final, revoking takes the pages from the holder of the moment. |
| `timeout` | 1.4 M | The limit is enforced in time whatever is registered, removed or restarted, nothing but an overdue process is killed, and the kill loses no wake-up. |
| `executor` | 20 k | No interrupt between two steps of `poll_next` or `sleep_if_idle`, and no number of wakes by other tasks, loses a keystroke or puts the CPU to sleep on work, and every accepted keystroke is printed, unless a full queue panics or drops the keyboard task's only wake-up; a finished task is never polled again, although its id may still be queued. |
| `memory` | 46 k (with symmetry) | Heap, manager and per-CPU lists together never give two callers the same byte (refinement of `AbstractHeap`), although regions change lists and layouts; blocks stay disjoint, aligned and backed. |
| `locks` | 20 k | On one CPU no handler waits for a lock the CPU already holds, nesting follows one order, and every handler returns or halts with a report. |
| `boot` | 0.9 k | Every frame has one use, each process's tables reach every page, user mode passes to the user pages and to nothing else, and set-up fails only for lack of frames. |

The other runs each show one place where the code does not do what a comment or
message of the repository says; `findings` quotes the line.

| Run | What TLC shows |
| --- | --- |
| `boot_own_context` | `schedule` saves the interrupted context into the wrong process. |
| `boot_ready_gets_to_run` | The running process is chosen again at every interrupt. |
| `boot_kernel_mode_test` | The trial call of the user program before the jump to user mode never returns. |
| `syscall_entry` | The two address checks of `safe_parse` exclude each other, so no call is dispatched. |

### Bounds

Bounds only limit how long a behaviour is or how many objects it has.

- `scheduler`: three pids are a parent, a child and a bystander, or a
  grandparent, a parent and a child; `MaxProcesses = 1` lets the child limit be
  reached; the accepted wait4 range starts above pid 1, so that accepted and
  refused names exist; exit code 300 is refused; `MaxListed` bounds the
  duplicates in the orphans list.
- `channels`: three pids (0 included), two channels and so id reuse, queues of
  two (empty, partly filled, full), message lengths 0 and 1 with a buffer that
  is too small, three messages. The limit on channel ids is not reached.
- `handles`: two handles, three pids (owner, first and second holder), three
  pages of user space, sizes up to two pages.
- `timeout`: two pids, limits 1 and 2 (the default), three interrupts, two
  entries, so duplicates of one pid exist. The tick counter is 64 bits wide at
  10 Hz; its wrap-around is left out.
- `executor`: a task queue of three with three tasks, which `spawn` fills to the
  brim and which two keystrokes in one poll, or wakes of other tasks, overfill; a
  scancode queue of two; five keystrokes, enough for the overflow and a wake-up after
  it. A queue of four gives the same results.
- `memory`: a heap of nine bytes, block sizes 2 and 4, requests of 1 and 3 bytes,
  for which a block has room to spare, and of 5, which go to the fallback allocator;
  alignments 1 to 8, below, at and above the alignment 2 that `free` assumes, so
  that blocks change lists; two CPUs, two callers. Alignment 8, above all block
  sizes, comes with 5 bytes only (`Layout`: the size of a Rust type is a multiple of
  its alignment). CPUs and callers are interchangeable.
- `locks`: no bound; every run of every handler.
- `boot`: tables of four entries; 55 memory maps of up to 19 frames with one
  usable region or two around a hole, from one frame to one more than the twelve
  needed; two heap pages, three user pages, two processes.
- `syscall_entry`: 64 slots, the kernel's part from slot 40 on, every position of
  the stack.

Deadlock is checked in every run: a switch, or in `timeout` the end of user
mode, is possible in every state; a panicked or halted kernel is modelled as one
that goes on halting.

### Fairness

- `BootFairSpec` (`ReadyGetsToRun`): weak fairness of `HandleSwitch`. The timer is
  periodic and programs run with interrupts enabled, so a switch that stays
  possible happens. Nothing is assumed of the programs' system calls.
- `Executor` (`KeystrokesPrinted`): weak fairness of the executor's own steps,
  which a CPU that is not halted executes. No interrupt is promised, so a CPU
  halted in the wrong moment would stay so. The executor is cooperative: a task is
  taken to return from its poll, after any number of wakes.
- `Locks` (`HandlersFinish`): weak fairness of the next step of the code that
  runs. Handlers run with interrupts off, so nothing gets between their steps.
- `Boot` (`KernelModeTestReturns`): weak fairness of the one CPU's steps.

## What is proved

The theorems hold for every value of the constants that satisfies the assumptions
named in the modules:

- scheduler, channels, handles: bounds are natural numbers, `MaxPid >= 2` (the boot
  processes), `WaitPidMin > 0`, `None` is no right one can ask for;
- executor: the keyboard task is none of the others, `NoTask` is no task, and the
  task queue has room for all tasks, which `spawn` expects;
- timer: limits and bounds are natural numbers, user mode is started for pids;
- heap and memory manager: block sizes increase, a smaller block size divides a
  larger one, and so does an alignment (`PowersOfTwo`); the alignment `free` assumes
  is no larger than any block size (`MemoryAssumption`). Heap size, CPUs, callers,
  the small-request threshold and the sizes asked for are arbitrary;
- boot: the pages have four indexes each and are different pages, and there is a heap
  (`PagesAssumption`); the memory map is sorted, its regions do not overlap, and its
  usable ones keep clear of the frames the bootloader uses, as the comment on
  `BootInfoFrameAllocator::init` demands (`BootAssumption`). The number of regions,
  their sizes, the heap's length, the number of processes and where the pages lie
  (which tables they share) are arbitrary.

- `Scheduler_proofs`. `Invariance` proves the inductive invariant
  `IInv == Core /\ Below /\ NoLostWakeup /\ TreeMatchesRecords`. None of the
  properties is inductive alone. `CurrentIsFront` needs unique pids, or a
  rotation could bring a second record with the current pid to the front;
  uniqueness needs `Below` (every pid in the list is below `NEXT_PID`);
  `RunningIsCurrent` needs the front to be the current process when `schedule`
  demotes it. `Core` collects types, uniqueness, front and Running facts as
  `ListInv`, with one lemma per list operation (update in place, append,
  remove, rotate, move to front), and each action reduces to one of them.
  From it follow `TypeCorrect`, `CallerFound`, `PageTableLoaded`, `WakeupsKept`
  and `TreeCorrect`. `BootSafe` proves the same for the booted kernel except the
  tree: there `Below` does not hold, which is the finding about `NEXT_PID`, but
  fork creates no record, so pids stay unique.
- `SchedulerSteps_proofs`, what a step may do to a record. `StepOfOne` shows
  what may differ between the records of one pid before and after a step
  (`Carried`): only the current process becomes a zombie, a
  zombie without the CPU keeps state and exit code, a blocked process is woken only
  by the exit of a child it waits for, and the children list changes by one call of
  `add_child` or `remove_child`. `WakeupsAreJustified` and `ZombiesAreLeftAlone`
  follow at once. `ChildrenCountRight` needs in addition `CountInv`: all children
  have pids below `NEXT_PID`, so the child that `fork` adds is not in the list
  already and counting it is right. `BootSteps` proves all three for `BootSpec`.
- `Timeout_proofs`, the kernel with its timer. `TimedInvariance` proves
  `TimedInv == IInv /\ TimerInv`. That the kill preserves `IInv` is `KillTable`: it
  goes round the scheduler, but changes only states, wait targets and exit codes, and
  since it wakes whoever waits for the process or for any child, no wake-up is lost.
  `TimerInv` says that while user mode is active `age` is the clock less the start
  time of the first entry of its process (less zero without an entry). Every
  operation on the list has a lemma on what it does to that first entry: an appended
  entry comes behind it, `retain` keeps the first entries of the others.
  `LimitsEnforced` and `OnlyOverdueKilled` follow from it, and `TimedTableCorrect` and
  `TimedWakeupsKept` carry the scheduler's invariants over.
- `Ipc_proofs`, channels and handles. `DeliveryCorrect` strengthens `NothingLost` by
  `FreshEmpty` (an id not handed out has no history); `ReadersExist` uses that the
  endpoints of a channel differ; `ChannelsImplementLog` maps every action to an action
  of the log or a stutter. Of handles: `GrantsRespected` (owner and holder are among
  the granted), `HandlesCoverOnePage`, `RevocationHolds` (an inactive handle carries
  no right) and `RevokeReachesHolder` (an active handle not mapped has nothing
  installed).
- `Executor_proofs`. `Invariance` proves `IInv`, the conjunction of `ExecutorTypeOK`,
  `ControlOK`, `Accounted`, `FinishedNeverPolled`, `SpawnedOnce`, `Armed` and
  `Stranded`. `Armed` is the heart: a suspended keyboard task is queued, or its waker
  is registered and no scancode waits, or its wake-up was lost. It is inductive only
  with the part of `ControlOK` about the second pop (an interrupt that has taken the
  waker left a scancode), which is also why a drop during a poll does no harm.
  `Stranded` delimits the exception: a loss takes the warning waker, and afterwards
  the keyboard task is neither queued nor polled nor registered. `SpawnedOnce` gives
  `spawn` its room, by the pigeonhole principle (`InjectiveBound`). `Accounted` bounds
  what is printed by what was accepted. From it follow `TypeCorrect`,
  `KeystrokesKept`, `SleepSound`, `FinishedSkipped` and `LossIsWarnedAndFinal`, for
  every number of tasks and every capacity of the queues.
- `Heap_proofs` and `Memory_proofs`. `Invariance` proves
  `IInv == MemoryTypeOK /\ HeapOK /\ RegionsOwned`. `HeapSound` is not inductive: a
  block is handed out again from a list without a look at its address, so `Placed`
  adds that a block on a list starts at a multiple of its size, and that a block in
  use is aligned for the class it was cut for. `free` may put a block on the list of
  a smaller class than it came from (the alignment it assumes is no larger than any
  class); the block is then cut down, which keeps blocks disjoint, and its start is
  a multiple of the smaller size too because sizes divide each other. It is the only
  way a block changes its class (`RebuiltLayout`). `RegionsOwned` gives every held or
  listed region a block of its own: addresses differ, and the size is no larger than
  the one the block was asked for. `Heap_proofs` has the lemmas about the allocator
  (`HeapOK` is preserved by each way to allocate and to give back), `Memory_proofs`
  those about callers and local lists. From it follow `TypeCorrect`,
  `HeapStaysSound`, `RegionsBacked` and the refinement `MemoryImplementsHeap`.
- `Boot_proofs`, the page tables. `Invariance` proves
  `IInv == Setting /\ Progress /\ HaltsForLackOfFrames /\ \E T, lev : Shape(T, lev)`.
  `Shape` says that the tables are a tree `T`, with a level `lev[t]` for each table,
  and copies of its root, one per process. None of the properties is inductive alone.
  That an entry of a level 1 table leads to a page and any other to a table one level
  below, no two to the same frame (`Tree`), is needed to follow a page through tables
  that change: without it a write for one page could redirect another. That every
  frame in use was handed out (`Within`) makes the next frame a new one; `FreshFrame`
  and `Exhausted` say that the allocator never repeats a frame and skips none. That
  the pages mapped are exactly those `kernel_main` mapped is needed for
  `OnlyLackHalts`: `map_to` could also fail because the entry is in use, and does not.
  `Progress` says which pages those are at each step.
  Each way to change the tables has a lemma: an entry opened (`OpenedKeeps`), a table
  added (`GrownKeeps`), a page entered (`LeafedSound`, `LeafedMaps`). The first two
  keep all pages and all level 1 entries (`Keeps`), so that opening parents changes
  no page's own flag, which is why the kernel stays closed (`KernelClosed`) whatever
  tables it shares with user pages. `DescentEnds` and `MapToMaps` put `map_to`
  together from them, `ParentsOpened` the three levels of `set_user_bit_for_parents`,
  and `MapPageKeeps` a whole `map_user_page`. `OneUse`, `Complete` and
  `KernelClosed` follow from `Shape` by walking the four levels (`WalkEnds`).

Only model-checked:

- the liveness properties `KeystrokesPrinted` and `HandlersFinish`, which are outside
  what the prover handles;
- `Locks`, which has no constants: the run covers all of its behaviours, and a proof
  would add nothing;
- the four violations.

## Met while modelling

Some differences between comments and code are visible in a single step of the
model or in a line of the code, and have no run of their own.

Processes and system calls:
- System call 57 registers a child without creating it (`syscall.rs:279`,
  `SysFork`), and since `NEXT_PID` starts at 1 it hands out the pids 1 and 2 that
  boot uses as literals.
- `sched_yield` makes the process at the front Ready whatever its state
  (`syscall.rs:420`). In the booted kernel, whose fallback can make a zombie
  current, that revives it; `ZombiesRest` says that a zombie that is not current
  stays one.
- Entries of reaped processes stay in the list of orphans (`scheduler.rs:19`,
  `Wait4Reap`).
- `wait4` writes the exit code to user memory while it holds the scheduler's lock;
  a fault there ends in a handler that prints and halts (`locks` shows that it
  gets that far).
- Exit and time-out overwrite each other's exit code; a kill wakes every process
  that waits for any child, not only the parent (`timer.rs:199`, `AfterKill`).
- `jump_to_user_mode` starts the clock for the current pid, which is 0 at boot, so
  that the limit would stop nothing (`gdt.rs:208`). Boot does not get there.
- The stub of system calls pushes r11 and rcx only, and the number is read where
  the return address of the call lies (`syscall.rs:103`). The gate of `int 0x80`
  cannot be used from user mode.

IPC:
- An Ownership transfer changes the holder and leaves the owner's access
  (`ipc.rs:77`, `TransferMemory`); `is_mapped` speaks of the previous holder after a
  transfer.
- Channel ids are never reused, and `send` and `receive` refuse ids above 1000, so
  after a thousand creations no new channel can be used (`syscall.rs:524`).
- `exit` calls neither clean-up of channels nor of handles (`ipc.rs:237` expects a
  call at the end of a process).

Memory:
- `free` rebuilds the layout with alignment 8 (`scalable.rs:335`). For an alignment
  within the block sizes this returns a block to a list of blocks that are no larger,
  which is what `HeapSound` needs; a small request with an alignment above the
  largest block size would come from the fallback allocator and go to a list.
  `Layout` leaves such requests out, and the kernel makes none.
- A region of a local list is handed out without regard to the alignment asked for
  (`scalable.rs:192`).
- `current_usage` of a CPU wraps when a region is freed on another CPU
  (`scalable.rs:227`).
- `main.rs:74` makes a second frame allocator over the same memory map. Only
  `map_memory` of the memory manager would draw from it (`scalable.rs:567`), and
  nothing calls that.
- Processes share the tables below level 4, and a level 4 entry made after a
  process was created would be missing in its table.

Locks and tasks:
- `wake_task` queues an id as often as it is called. The task queue overflows when a
  burst of keystrokes during one poll queues the keyboard task several times, and also
  without any keystroke when other tasks call their wakers often enough. The executor
  of `task/executor.rs` then panics; with the waker of `process/mod.rs` a keystroke
  that meets a queue filled by other tasks ends keyboard input for good, since the
  dropped wake-up was the only one and `KEYBOARD_WAKER` is empty (`lost`).
- The locks of the scheduler, the timeout manager and the heap are taken without
  masking interrupts. Today this is right because all code that takes them runs
  with interrupts off, or is not interrupted by a handler that takes them; the
  timer's functions called from a thread with interrupts enabled would hang.
- `current_cpu` of `cpu.rs` is one global for all CPUs.

## Not modelled

- `error.rs`: types and a table of recovery strategies that nothing calls.
- The characters on the screen and the serial line; only their locks are modelled.
- `AsyncTask` queues of the scheduler, which are filled and never polled;
  priorities, groups, sessions and file counts of a process, which influence no
  modelled operation.
- The statistics and the memory regions by type of the memory manager, and the
  records of `cpu.rs`: written, and read by reports only.
- The contents of registers across a switch. In the timer entry the stack pointer
  returned by `handle_switch` passes through the call of `increment_tick`; the model
  takes it to be preserved.
- Descriptor tables, the interrupt controller's set-up, the assembly of the entry
  paths beyond what `SyscallEntry` has of it: hardware state.
- Several CPUs, except in `Memory`: the kernel starts one.
- `memory.rs`'s `create_example_mapping`, which is not called, and the self tests.
