----------------------------- MODULE Scheduler -----------------------------
(***************************************************************************)
(* The process table of the kernel: src/src/process/scheduler.rs, the      *)
(* Process methods of src/src/process/mod.rs it calls, and the process     *)
(* system calls (fork, wait4, sched_yield, exit) of src/src/syscall.rs.    *)
(*                                                                         *)
(* Every operation takes the SCHEDULER lock for its whole body and runs    *)
(* with interrupts masked (SFMASK clears IF on syscall entry, and the      *)
(* timer goes through an interrupt gate), so each is one atomic action.    *)
(* A call that returns an error before changing anything is no step.       *)
(*                                                                         *)
(* A program that has called exit keeps executing user code until the next *)
(* switch, with current_process_id = 0; and the fallback of schedule makes *)
(* a waiting or zombie process current.  System calls are therefore        *)
(* possible in every state, on behalf of whatever pid is current.          *)
(***************************************************************************)
EXTENDS Integers, Sequences, FiniteSets

CONSTANTS
    MaxPid,         \* bound: pids handed out by allocate_pid in a behaviour
    MaxProcesses,   \* ResourceLimits::max_processes (32 in the code)
    WaitPidMin,     \* smallest pid wait4 accepts by name (1000 in the code)
    WaitPidMax,     \* largest pid wait4 accepts by name (10000 in the code)
    ExitCodes,      \* exit codes user programs pass to exit
    MaxListed       \* bound: entries of one pid in the orphans list

ASSUME SchedulerAssumption ==
    /\ MaxPid \in Nat /\ MaxPid >= 2    \* the boot processes
    /\ MaxProcesses \in Nat
    /\ WaitPidMin \in Nat \ {0}
    /\ WaitPidMax \in Nat
    /\ ExitCodes \subseteq Int
    /\ MaxListed \in Nat

VARIABLES
    processes,      \* Scheduler::processes, front first
    process_tree,   \* pid -> parent pid, NoEntry where the map has no key
    orphans,        \* Scheduler::orphans, as the number of entries per pid
    next_pid,       \* NEXT_PID
    current,        \* CPU_DATA.current_process_id
    cr3             \* whose page table is loaded

vars == <<processes, process_tree, orphans, next_pid, current, cr3>>

Pids == 1..MaxPid
Idle == 0           \* current_process_id when no process is current
AnyChild == -1      \* u64::MAX as a wait4 target
NoEntry == -1

WaitTargets == {AnyChild} \cup {p \in Pids : WaitPidMin <= p /\ p <= WaitPidMax}

\* children is a Vec in the code; a pid is pushed once, so a set will do.
\* A context_ptr is named by the pid that was current when it was captured.
Process ==
    [id : Pids, context_ptr : Pids \cup {Idle},
     state : {"Ready", "Running", "Waiting", "Zombie"},
     waiting_for : WaitTargets \cup {Idle},
     parent_id : Pids \cup {Idle},
     children : SUBSET Pids, children_count : Nat, exit_code : Int]

-----------------------------------------------------------------------------
(* Process methods *)

ProcessNew(pid, parent) ==
    [id |-> pid, context_ptr |-> pid, state |-> "Ready", waiting_for |-> Idle,
     parent_id |-> parent, children |-> {}, children_count |-> 0,
     exit_code |-> 0]

ValidExitCode(code) == -255 <= code /\ code <= 255

\* check_resource_limits and the child limit of fork; memory, CPU time and
\* files are never charged, so only the children count can refuse.
MayAddChild(p) == p.children_count < MaxProcesses

AddChild(p, child) ==
    IF MayAddChild(p)
    THEN [p EXCEPT !.children = @ \cup {child}, !.children_count = @ + 1]
    ELSE p

\* Variant: the child leaves the list but stays counted.
RemoveChildUncounted(p, child) == [p EXCEPT !.children = @ \ {child}]

RemoveChild(p, child) ==
    IF child \in p.children
    THEN [p EXCEPT !.children = @ \ {child},
                   !.children_count = IF @ = 0 THEN 0 ELSE @ - 1]
    ELSE p

\* Variant: only a parent waiting for this very pid is woken.
WakeExactOnly(p, child) ==
    IF p.state = "Waiting" /\ p.waiting_for = child
    THEN [p EXCEPT !.state = "Ready", !.waiting_for = Idle]
    ELSE p

\* Variant: the parent is woken whatever child it waits for.
WakeAlways(p, child) ==
    IF p.state = "Waiting"
    THEN [p EXCEPT !.state = "Ready", !.waiting_for = Idle]
    ELSE p

Wake(p, child) ==
    IF p.state = "Waiting" /\ p.waiting_for \in {child, AnyChild}
    THEN [p EXCEPT !.state = "Ready", !.waiting_for = Idle]
    ELSE p

-----------------------------------------------------------------------------
(* The process list as a deque *)

Front == processes[1]

Exists(pid) == \E i \in DOMAIN processes : processes[i].id = pid

\* The handlers look for their caller at the front of the list only.
CurrentAtFront == processes # <<>> /\ Front.id = current

MoveToFront(s, k) ==
    [i \in 1..Len(s) |-> IF i = 1 THEN s[k] ELSE IF i <= k THEN s[i-1] ELSE s[i]]

RotateLeft(s) == [i \in 1..Len(s) |-> IF i < Len(s) THEN s[i+1] ELSE s[1]]

RemoveIndex(s, k) == [i \in 1..(Len(s) - 1) |-> IF i < k THEN s[i] ELSE s[i+1]]

-----------------------------------------------------------------------------
Init ==
    /\ processes = <<>>
    /\ process_tree = [p \in Pids |-> NoEntry]
    /\ orphans = [p \in Pids |-> 0]
    /\ next_pid = 1
    /\ current = Idle
    /\ cr3 = Idle

\* The kernel after init_tasks: processes 1 and 2 are created under literal
\* pids, so NEXT_PID is still 1.
BootInit ==
    /\ processes = <<ProcessNew(1, Idle), ProcessNew(2, Idle)>>
    /\ process_tree = [p \in Pids |-> IF p <= 2 THEN Idle ELSE NoEntry]
    /\ orphans = [p \in Pids |-> IF p <= 2 THEN 1 ELSE 0]
    /\ next_pid = 1
    /\ current = Idle
    /\ cr3 = Idle

-----------------------------------------------------------------------------
(* Operations of the Scheduler *)

\* Creates a root process under a fresh pid and hands it to add_process.
NewProcess ==
    /\ next_pid \in Pids
    /\ processes' = Append(processes, ProcessNew(next_pid, Idle))
    /\ process_tree' = [process_tree EXCEPT ![next_pid] = Idle]
    /\ orphans' = [orphans EXCEPT ![next_pid] = @ + 1]
    /\ next_pid' = next_pid + 1
    /\ UNCHANGED <<current, cr3>>

\* register_child(current, child) applied to the list s: the tree entry is
\* written before add_child can refuse, and only success clears the orphan
\* entry.
RegisterChild(s, child) ==
    /\ processes' = [i \in DOMAIN s |-> IF s[i].id = current
                                        THEN AddChild(s[i], child) ELSE s[i]]
    /\ process_tree' = [process_tree EXCEPT ![child] = current]
    /\ orphans' =
         IF \A i \in DOMAIN s : s[i].id = current => MayAddChild(s[i])
         THEN [orphans EXCEPT ![child] = IF @ = 0 THEN 0 ELSE @ - 1]
         ELSE orphans

\* Process::fork on the current process, then add_process and register_child.
SpawnChild ==
    /\ CurrentAtFront
    /\ next_pid \in Pids
    /\ RegisterChild(Append(processes, ProcessNew(next_pid, current)), next_pid)
    /\ next_pid' = next_pid + 1
    /\ UNCHANGED <<current, cr3>>

\* System call 57.  It allocates a pid and registers the child, but creates no
\* process record.
SysFork ==
    /\ CurrentAtFront
    /\ MayAddChild(Front)
    /\ next_pid \in Pids
    /\ RegisterChild(processes, next_pid)
    /\ next_pid' = next_pid + 1
    /\ UNCHANGED <<current, cr3>>

\* Variant: the children are not made orphans.
AfterExitNoOrphans(r, pid, code, parent, kids) ==
    IF r.id = pid
    THEN [r EXCEPT !.state = "Zombie", !.waiting_for = Idle, !.exit_code = code]
    ELSE IF r.id = parent THEN Wake(RemoveChild(r, pid), pid) ELSE r

\* The record of process r once handle_process_exit(pid, code) is done, when
\* parent is the parent of pid and kids are the children the tree lists.
AfterExit(r, pid, code, parent, kids) ==
    LET exited   == IF r.id = pid
                    THEN [r EXCEPT !.state = "Zombie", !.waiting_for = Idle,
                                   !.exit_code = code]
                    ELSE r
        unlinked == IF parent # Idle /\ r.id = parent
                    THEN RemoveChild(exited, pid) ELSE exited
        orphaned == IF r.id \in kids
                    THEN [unlinked EXCEPT !.parent_id = Idle] ELSE unlinked
    IN  IF parent # Idle /\ r.id = parent THEN Wake(orphaned, pid) ELSE orphaned

PositionOf(pid) ==
    IF Exists(pid)
    THEN (CHOOSE i \in DOMAIN processes : processes[i].id = pid)
    ELSE 0

\* System call 0.  The caller stays in the list as a zombie and keeps the CPU
\* as pid 0 until the next switch.
SysExit(code) ==
    LET parent == IF Exists(current) THEN processes[PositionOf(current)].parent_id
                                     ELSE Idle
        kids   == {c \in Pids : process_tree[c] = current}
        listed == {c \in kids : Exists(c)}
    IN  /\ ValidExitCode(code)
        /\ \A c \in listed : orphans[c] < MaxListed
        /\ processes' = [i \in DOMAIN processes |->
                           AfterExit(processes[i], current, code, parent, kids)]
        /\ process_tree' = [c \in Pids |-> IF c \in kids THEN Idle
                                                          ELSE process_tree[c]]
        /\ orphans' = [c \in Pids |-> IF c \in listed THEN orphans[c] + 1
                                                      ELSE orphans[c]]
        /\ current' = Idle
        /\ UNCHANGED <<next_pid, cr3>>

\* find_zombie_children of the caller, as positions in the list.
ZombieChildren ==
    {i \in DOMAIN processes : /\ processes[i].parent_id = current
                              /\ processes[i].state = "Zombie"}

\* The zombie wait4 picks: the first one, or the one it was asked for.
Matching(target) ==
    {i \in ZombieChildren : target \in {AnyChild, processes[i].id}}

\* System call 61 when a zombie child matches: reap_zombie_child.
Wait4Reap(target) ==
    \E k \in Matching(target) :
        LET child == processes[k].id
            rest  == RemoveIndex(processes, k)
        IN  /\ \A j \in Matching(target) : k <= j
            /\ processes' = [i \in DOMAIN rest |->
                               IF rest[i].id = current
                               THEN RemoveChild(rest[i], child) ELSE rest[i]]
            /\ process_tree' = [process_tree EXCEPT ![child] = NoEntry]
            /\ UNCHANGED <<orphans, next_pid, current, cr3>>

\* Variant: the page table of the next process is not loaded.
Wait4BlockOldCr3(target) ==
    /\ Matching(target) = {}
    /\ CurrentAtFront
    /\ processes' = RotateLeft([processes EXCEPT ![1].state = "Waiting",
                                                 ![1].waiting_for = target])
    /\ current' = processes'[1].id
    /\ UNCHANGED <<process_tree, orphans, next_pid, cr3>>

\* System call 61 when none does: the caller blocks, whether or not it has
\* children, and the next process in the list becomes current in any state.
Wait4Block(target) ==
    /\ Matching(target) = {}
    /\ CurrentAtFront
    /\ processes' = RotateLeft([processes EXCEPT ![1].state = "Waiting",
                                                 ![1].waiting_for = target])
    /\ current' = processes'[1].id
    /\ cr3' = processes'[1].id
    /\ UNCHANGED <<process_tree, orphans, next_pid>>

\* System call 24.  The caller is marked ready; nothing is switched.
SysSchedYield ==
    /\ CurrentAtFront
    /\ processes' = [processes EXCEPT ![1].state = "Ready",
                                      ![1].waiting_for = Idle]
    /\ UNCHANGED <<process_tree, orphans, next_pid, current, cr3>>

-----------------------------------------------------------------------------
(* handle_switch: the part of the timer interrupt that picks a process *)

\* Variant: whatever is not blocked is taken for runnable.
RunnableUnlessWaiting == {i \in DOMAIN processes : processes[i].state # "Waiting"}

Runnable == {i \in DOMAIN processes : processes[i].state \in {"Ready", "Running"}}

\* Variant: the chosen process runs from its place in the list.
SwitchInPlace ==
    \E k \in Runnable :
        /\ \A j \in Runnable : k <= j
        /\ processes' = [processes EXCEPT ![k].state = "Running"]
        /\ current' = processes[k].id
        /\ cr3' = processes[k].id
        /\ UNCHANGED <<process_tree, orphans, next_pid>>

\* The first runnable process moves to the front and runs.  The process that
\* ends up behind it receives the interrupted context, whoever it is.
SwitchToRunnable ==
    \E k \in Runnable :
        LET moved == MoveToFront(processes, k)
        IN  /\ \A j \in Runnable : k <= j
            /\ processes' =
                 [i \in DOMAIN moved |->
                    CASE i = 1 -> [moved[i] EXCEPT !.state = "Running"]
                      [] i = 2 -> [moved[i] EXCEPT !.context_ptr = current,
                                     !.state = IF @ = "Running" THEN "Ready" ELSE @]
                      [] OTHER -> moved[i]]
            /\ current' = processes[k].id
            /\ cr3' = processes[k].id
            /\ UNCHANGED <<process_tree, orphans, next_pid>>

\* No process is runnable: the list is rotated and its new front becomes
\* current in whatever state it is.
SwitchRoundRobin ==
    /\ Runnable = {}
    /\ processes # <<>>
    /\ processes' = RotateLeft([processes EXCEPT ![1].context_ptr = current])
    /\ current' = processes'[1].id
    /\ cr3' = processes'[1].id
    /\ UNCHANGED <<process_tree, orphans, next_pid>>

\* The list is empty: the interrupted context goes on as the idle task.
SwitchIdle ==
    /\ processes = <<>>
    /\ current' = Idle
    /\ UNCHANGED <<processes, process_tree, orphans, next_pid, cr3>>

HandleSwitch == SwitchToRunnable \/ SwitchRoundRobin \/ SwitchIdle

\* Variant: the orphan entry is removed without looking whether there is one.
CleanupUnchecked ==
    \E k \in DOMAIN processes :
        /\ processes[k].state = "Zombie"
        /\ processes' = RemoveIndex(processes, k)
        /\ process_tree' = [process_tree EXCEPT ![processes[k].id] = NoEntry]
        /\ orphans' = [orphans EXCEPT ![processes[k].id] = @ - 1]
        /\ UNCHANGED <<next_pid, current, cr3>>

\* cleanup_terminated_process.  cleanup_all_zombies repeats it under one lock.
CleanupTerminatedProcess ==
    \E k \in DOMAIN processes :
        /\ processes[k].state = "Zombie"
        /\ processes' = RemoveIndex(processes, k)
        /\ process_tree' = [process_tree EXCEPT ![processes[k].id] = NoEntry]
        /\ orphans' = [orphans EXCEPT ![processes[k].id] = IF @ = 0 THEN 0 ELSE @ - 1]
        /\ UNCHANGED <<next_pid, current, cr3>>

-----------------------------------------------------------------------------
\* The process system calls of rust_syscall_handler.
SystemCall ==
    \/ SysFork
    \/ \E code \in ExitCodes : SysExit(code)
    \/ \E target \in WaitTargets : Wait4Reap(target) \/ Wait4Block(target)
    \/ SysSchedYield

\* What runs after boot: the system calls and the timer.
KernelNext == SystemCall \/ HandleSwitch

\* Together with the exported operations that create and discard processes.
Next == KernelNext \/ NewProcess \/ SpawnChild \/ CleanupTerminatedProcess

Spec == Init /\ [][Next]_vars

BootSpec == BootInit /\ [][KernelNext]_vars

-----------------------------------------------------------------------------
(* Properties *)

\* Type invariant: the process list, the tree, the orphan list and the CPU data
\* hold values of their Rust types.
TypeOK ==
    /\ processes \in Seq(Process)
    /\ process_tree \in [Pids -> Pids \cup {Idle, NoEntry}]
    /\ orphans \in [Pids -> Nat]
    /\ next_pid \in 1..(MaxPid + 1)
    /\ current \in Pids \cup {Idle}
    /\ cr3 \in Pids \cup {Idle}

\* No two records share a pid, so the loops that stop at the first match and the
\* retain calls that drop every match act on the same process.
UniquePids ==
    \A i, j \in DOMAIN processes : processes[i].id = processes[j].id => i = j

\* If the current process is in the list at all, it is at its front: the
\* front-only lookup of fork, wait4 and sched_yield never misses its caller,
\* whatever rotations, reaps and switches happened before.
CurrentIsFront ==
    \A i \in DOMAIN processes : processes[i].id = current => i = 1

\* At most one process is Running, and it is the one the CPU attributes system
\* calls to; no path leaves a stale Running process behind.
RunningIsCurrent ==
    \A i \in DOMAIN processes :
        processes[i].state = "Running" => i = 1 /\ processes[i].id = current

\* The list agrees with the CPU data: a lookup by pid, the front-only lookup of the
\* system calls and a search for the Running process all find the same caller.
ListMatchesCpu == UniquePids /\ CurrentIsFront /\ RunningIsCurrent

\* The page table loaded in CR3 is the one of the current process whenever a
\* process is current: no path changes one without the other.
AddressSpaceIsCurrent == current # Idle => cr3 = current

\* No lost wake-up: a process blocked in wait4 never has a zombie child that the
\* call it is blocked in would have reaped, because wait4 looks before it blocks
\* and handle_process_exit wakes the parent.
NoLostWakeup ==
    \A i, j \in DOMAIN processes :
        /\ processes[i].state = "Waiting"
        /\ processes[j].state = "Zombie"
        /\ processes[j].parent_id = processes[i].id
        => processes[i].waiting_for \notin {AnyChild, processes[j].id}

\* The two records of the hierarchy agree: the tree maps every process in the
\* list to the parent_id the process itself holds, through forks, orphanings and
\* reaps.
TreeMatchesRecords ==
    \A i \in DOMAIN processes : process_tree[processes[i].id] = processes[i].parent_id

\* children_count is the length of the children list and never passes the
\* limit, so the saturating subtraction of remove_child never saturates.
ChildrenCounted ==
    \A i \in DOMAIN processes :
        /\ processes[i].children_count = Cardinality(processes[i].children)
        /\ processes[i].children_count <= MaxProcesses

\* A blocked process becomes ready only because a child it waits for exits, or
\* because it was itself made current (by a rotation) and called sched_yield.
WakeupsJustified ==
    [][\A i \in DOMAIN processes, j \in DOMAIN processes' :
         /\ processes[i].id = processes'[j].id
         /\ processes[i].state = "Waiting"
         /\ processes'[j].state \in {"Ready", "Running"}
         => \/ processes[i].id = current
            \/ /\ processes[i].waiting_for \in {AnyChild, current}
               /\ \E k \in DOMAIN processes :
                    /\ processes[k].id = current
                    /\ processes[k].parent_id = processes[i].id]_vars

\* A zombie that does not hold the CPU stays a zombie, with the code it exited
\* with, until its record is removed: switches, and exits and waits of the others,
\* leave it alone.  (One that the round-robin fallback made current may still make
\* system calls.)
ZombiesRest ==
    [][\A i \in DOMAIN processes, j \in DOMAIN processes' :
         /\ processes[i].id = processes'[j].id
         /\ processes[i].state = "Zombie"
         /\ processes[i].id # current
         => /\ processes'[j].state = "Zombie"
            /\ processes'[j].exit_code = processes[i].exit_code]_vars

-----------------------------------------------------------------------------
(* What the comments of the code claim and the booted kernel does not do *)

\* "Update current process and move it to back of list" in schedule, first half:
\* the interrupted context is saved with the process it belongs to.
OwnContext ==
    \A i \in DOMAIN processes : processes[i].context_ptr = processes[i].id

\* Second half: the running process goes to the back, so every ready process
\* gets its turn.
BootFairSpec == BootSpec /\ WF_vars(HandleSwitch)

ReadyGetsToRun ==
    \A p \in {1, 2} :
        (\E i \in DOMAIN processes : processes[i].id = p /\ processes[i].state = "Ready")
        ~> (\A i \in DOMAIN processes : processes[i].id = p => processes[i].state # "Ready")
=============================================================================
