------------------------------ MODULE Timeout -------------------------------
(***************************************************************************)
(* The kernel with its timer: the time limits of src/src/timer.rs composed *)
(* with the process table of Scheduler.  The timer interrupt               *)
(* (src/src/interrupts.rs) calls handle_switch and then increment_tick,    *)
(* which may kill a process behind the scheduler's back.                   *)
(*                                                                         *)
(* The interrupt is two steps, with in_interrupt between them; interrupts  *)
(* are masked, so nothing else happens there.  age is a history variable.  *)
(* The counter is 64 bits wide and advances ten times a second, so its     *)
(* wrap-around is left out.                                                *)
(***************************************************************************)
EXTENDS Scheduler

CONSTANTS
    TimedPids,      \* pids user mode is started for
    Limits,         \* limits asked for, in ticks
    DefaultLimit,   \* DEFAULT_TIMEOUT_LIMIT (30)
    MaxTicks,       \* bound: timer interrupts in a behaviour
    MaxEntries      \* bound: entries of the time-limit list

ASSUME TimeoutAssumption ==
    /\ TimedPids \subseteq Pids \cup {Idle}
    /\ Limits \subseteq Nat
    /\ DefaultLimit \in Nat
    /\ MaxTicks \in Nat
    /\ MaxEntries \in Nat

VARIABLES
    timeouts,           \* TimeoutManager::processes
    current_tick,
    user_mode_active,
    current_user_pid,
    in_interrupt,       \* handle_switch has run, increment_tick has not
    age                 \* ticks since user mode was started, or since boot once
                        \* the entry of its process has been removed

timerVars == <<timeouts, current_tick, user_mode_active, current_user_pid,
               in_interrupt, age>>
timedVars == <<vars, timerVars>>

-----------------------------------------------------------------------------
(* ProcessTimeout methods *)

ProcessTimeout ==
    [pid : Pids \cup {Idle}, start_time : Nat, limit : Nat,
     state : {"Normal", "TimedOut"}, warning_sent : BOOLEAN]

ProcessTimeoutNew(pid, limit) ==
    [pid |-> pid, start_time |-> 0, limit |-> limit, state |-> "Normal",
     warning_sent |-> FALSE]

\* Variant: the state survives.
ResetKeepsState(e) == [e EXCEPT !.start_time = 0, !.warning_sent = FALSE]

Reset(e) == [e EXCEPT !.start_time = 0, !.state = "Normal", !.warning_sent = FALSE]

\* Variant: the clock of a process is started once and not again.
StartOnce(e, tick) ==
    [e EXCEPT !.start_time = IF @ = 0 THEN tick ELSE @, !.state = "Normal",
              !.warning_sent = FALSE]

Start(e, tick) ==
    [e EXCEPT !.start_time = tick, !.state = "Normal", !.warning_sent = FALSE]

\* Variant: the limit is exceeded rather than reached.
CheckTimeoutLate(e, tick) ==
    IF tick - e.start_time > e.limit THEN [e EXCEPT !.state = "TimedOut"] ELSE e

\* saturating_sub cannot saturate: a start time is never in the future.
CheckTimeout(e, tick) ==
    LET elapsed == tick - e.start_time
    IN  IF e.state = "TimedOut" \/ elapsed >= e.limit
        THEN [e EXCEPT !.state = "TimedOut"]
        ELSE [e EXCEPT !.warning_sent = @ \/ elapsed >= e.limit \div 2]

-----------------------------------------------------------------------------
(* TimeoutManager methods.  A pid may be registered twice; every lookup takes *)
(* its first entry.                                                           *)

Registered(pid) == \E i \in DOMAIN timeouts : timeouts[i].pid = pid

EntryOf(pid) ==
    CHOOSE i \in DOMAIN timeouts :
        /\ timeouts[i].pid = pid
        /\ \A j \in DOMAIN timeouts : timeouts[j].pid = pid => i <= j

TimedInit ==
    /\ Init
    /\ timeouts = <<>>
    /\ current_tick = 0
    /\ user_mode_active = FALSE
    /\ current_user_pid = Idle
    /\ in_interrupt = FALSE
    /\ age = 0

RegisterProcess(pid, limit) ==
    /\ ~in_interrupt
    /\ Len(timeouts) < MaxEntries
    /\ timeouts' = Append(timeouts, ProcessTimeoutNew(pid, limit))
    /\ UNCHANGED <<vars, current_tick, user_mode_active, current_user_pid,
                   in_interrupt, age>>

\* retain keeps the entries of the others in their order.  A new entry for the
\* process in user mode will count from tick 0.
UnregisterProcess(pid) ==
    /\ ~in_interrupt
    /\ \E n \in 0..Len(timeouts) : \E kept \in [1..n -> DOMAIN timeouts] :
         /\ \A i, j \in 1..n : i < j => kept[i] < kept[j]
         /\ {kept[i] : i \in 1..n} = {i \in DOMAIN timeouts : timeouts[i].pid # pid}
         /\ timeouts' = [i \in 1..n |-> timeouts[kept[i]]]
    /\ age' = IF user_mode_active /\ pid = current_user_pid THEN current_tick ELSE age
    /\ UNCHANGED <<vars, current_tick, user_mode_active, current_user_pid, in_interrupt>>

\* A process without an entry is registered with the default limit.
StartUserMode(pid) ==
    /\ ~in_interrupt
    /\ user_mode_active' = TRUE
    /\ current_user_pid' = pid
    /\ age' = 0
    /\ \/ /\ Registered(pid)
          /\ timeouts' = [timeouts EXCEPT ![EntryOf(pid)] = Start(@, current_tick)]
       \/ /\ ~Registered(pid)
          /\ Len(timeouts) < MaxEntries
          /\ timeouts' = Append(timeouts,
                                Start(ProcessTimeoutNew(pid, DefaultLimit), current_tick))
    /\ UNCHANGED <<vars, current_tick, in_interrupt>>

EndUserMode ==
    /\ ~in_interrupt
    /\ user_mode_active' = FALSE
    /\ current_user_pid' = Idle
    /\ age' = 0
    /\ timeouts' = IF Registered(current_user_pid)
                   THEN [timeouts EXCEPT ![EntryOf(current_user_pid)] = Reset(@)]
                   ELSE timeouts
    /\ UNCHANGED <<vars, current_tick, in_interrupt>>

SetTimeoutLimit(pid, limit) ==
    /\ ~in_interrupt
    /\ \/ /\ Registered(pid)
          /\ timeouts' = [timeouts EXCEPT ![EntryOf(pid)].limit = limit]
       \/ /\ ~Registered(pid)
          /\ Len(timeouts) < MaxEntries
          /\ timeouts' = Append(timeouts, ProcessTimeoutNew(pid, limit))
    /\ UNCHANGED <<vars, current_tick, user_mode_active, current_user_pid,
                   in_interrupt, age>>

-----------------------------------------------------------------------------
(* The timer interrupt *)

\* Its first half; a kernel that has used up the bound gets no more interrupts.
InterruptSwitch ==
    /\ ~in_interrupt
    /\ current_tick < MaxTicks
    /\ HandleSwitch
    /\ in_interrupt' = TRUE
    /\ UNCHANGED <<timeouts, current_tick, user_mode_active, current_user_pid, age>>

\* Variant: nobody is woken.
AfterKillNoWake(r, pid) ==
    IF r.id = pid
    THEN [r EXCEPT !.state = "Zombie", !.waiting_for = Idle, !.exit_code = -1]
    ELSE r

\* The record of process r after kill_process(pid): every process that waits for
\* pid or for any child is woken.  The hierarchy is left alone.
AfterKill(r, pid) ==
    Wake(IF r.id = pid
         THEN [r EXCEPT !.state = "Zombie", !.waiting_for = Idle, !.exit_code = -1]
         ELSE r, pid)

\* Its second half when no limit is reached, or none is watched.
TickInTime ==
    /\ in_interrupt
    /\ current_tick' = current_tick + 1
    /\ in_interrupt' = FALSE
    /\ age' = IF user_mode_active THEN age + 1 ELSE age
    /\ \/ /\ user_mode_active /\ Registered(current_user_pid)
          /\ LET i == EntryOf(current_user_pid)
                 checked == CheckTimeout(timeouts[i], current_tick + 1)
             IN  /\ checked.state # "TimedOut"
                 /\ timeouts' = [timeouts EXCEPT ![i] = checked]
       \/ /\ ~(user_mode_active /\ Registered(current_user_pid))
          /\ timeouts' = timeouts
    /\ UNCHANGED <<vars, user_mode_active, current_user_pid>>

\* When one is: handle_timeout kills the process and ends user mode.
TickTimedOut ==
    /\ in_interrupt
    /\ user_mode_active /\ Registered(current_user_pid)
    /\ LET i == EntryOf(current_user_pid)
           checked == CheckTimeout(timeouts[i], current_tick + 1)
       IN  /\ checked.state = "TimedOut"
           /\ timeouts' = [timeouts EXCEPT ![i] = Reset(checked)]
    /\ processes' = [i \in DOMAIN processes |-> AfterKill(processes[i], current_user_pid)]
    /\ current_tick' = current_tick + 1
    /\ in_interrupt' = FALSE
    /\ user_mode_active' = FALSE
    /\ current_user_pid' = Idle
    /\ age' = 0
    /\ UNCHANGED <<process_tree, orphans, next_pid, current, cr3>>

-----------------------------------------------------------------------------
Interrupt == InterruptSwitch \/ TickInTime \/ TickTimedOut

TimedNext ==
    \/ Interrupt
    \/ ~in_interrupt /\ SystemCall /\ UNCHANGED timerVars
    \/ ~in_interrupt /\ (NewProcess \/ SpawnChild \/ CleanupTerminatedProcess)
       /\ UNCHANGED timerVars
    \/ \E pid \in TimedPids :
          \/ StartUserMode(pid)
          \/ UnregisterProcess(pid)
          \/ \E limit \in Limits : RegisterProcess(pid, limit) \/ SetTimeoutLimit(pid, limit)
    \/ EndUserMode

TimedSpec == TimedInit /\ [][TimedNext]_timedVars

-----------------------------------------------------------------------------
(* Properties *)

\* Type invariant: the time-limit list and the manager's fields hold values of
\* their types.  No entry is ever left timed out, and no start time is ahead of
\* the clock.
TimeoutTypeOK ==
    /\ timeouts \in Seq(ProcessTimeout)
    /\ \A i \in DOMAIN timeouts : /\ timeouts[i].state = "Normal"
                                  /\ timeouts[i].start_time <= current_tick
    /\ current_tick \in Nat
    /\ user_mode_active \in BOOLEAN
    /\ current_user_pid \in Pids \cup {Idle}
    /\ in_interrupt \in BOOLEAN
    /\ age \in Nat

\* The limit is enforced: no timer interrupt leaves user mode active when as many
\* ticks as the limit allows have passed since it was started, through restarts,
\* new limits, duplicate and repeated registrations.
KilledInTime ==
    [][in_interrupt /\ ~in_interrupt' /\ user_mode_active' /\ Registered(current_user_pid)'
         => age' < (timeouts[EntryOf(current_user_pid)].limit)']_timedVars

\* And not earlier: a process turns into a zombie only by its own exit, or when it
\* is the one user mode was started for and its limit has passed since then (since
\* boot, if its entry was removed and registered anew in between).
KilledOnlyOverdue ==
    [][\A i \in DOMAIN processes, j \in DOMAIN processes' :
         /\ processes[i].id = processes'[j].id
         /\ processes[i].state # "Zombie"
         /\ processes'[j].state = "Zombie"
         => \/ processes[i].id = current /\ ~in_interrupt
            \/ /\ in_interrupt
               /\ processes[i].id = current_user_pid
               /\ age + 1 >= timeouts[EntryOf(current_user_pid)].limit]_timedVars
=============================================================================
