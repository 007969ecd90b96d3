--------------------------- MODULE MemoryHandles ----------------------------
(***************************************************************************)
(* The memory handles of src/src/ipc.rs (zero-copy IPC): the registry, its *)
(* system calls 5, 6 and 7 in src/src/syscall.rs, and the exported         *)
(* operations revoke_memory_handle, revoke_handle and                      *)
(* cleanup_process_handles.  Each holds the HANDLE_REGISTRY lock with      *)
(* interrupts masked, so it is one action; a refused call is no step.      *)
(*                                                                         *)
(* The code reports the pages it installs and unmaps without touching a    *)
(* page table; installed records what it reports.  granted is a history    *)
(* variable.  Addresses and sizes are counted in half pages, so that       *)
(* unaligned requests exist.  holder_virt_addr is Some(start_addr) exactly *)
(* while is_mapped holds, and is left out.                                 *)
(***************************************************************************)
EXTENDS Ipc

CONSTANTS
    MaxHandle,      \* bound: handles created in a behaviour
    UserMin,        \* first half page of user space (address 0x400000)
    UserMax,        \* last half page of user space (address 0x7fffffff)
    AccessRights,   \* rights asked for: ReadOnly, ReadWrite or Execute
    TransferModes   \* modes asked for: Ownership, Shared or Exclusive

ASSUME HandlesAssumption ==
    /\ MaxHandle \in Nat
    /\ MaxTargetPid \in Nat
    /\ UserMin \in Nat
    /\ UserMax \in Nat
    /\ "None" \notin AccessRights

VARIABLES
    handles,        \* HandleRegistry::handles, by handle id
    next_handle_id, \* NEXT_HANDLE_ID
    installed,      \* installed[h]: processes with the pages of h installed
    granted         \* granted[h]: the owner of h and those it transferred h to

handle_vars == <<handles, next_handle_id, current, installed, granted>>

HandleIds == 1..MaxHandle

PageSize == 2       \* half pages

MemoryHandle ==
    [owner_pid : Pids, holder_pid : Pids, start_addr : Nat, size : Nat,
     rights : AccessRights \cup {"None"}, mode : TransferModes,
     active : BOOLEAN, is_mapped : BOOLEAN]

-----------------------------------------------------------------------------
(* PageRange and MemoryHandle methods *)

\* Variant: without the 4 KB limit.
ValidateUserPointerAnySize(ptr, size) == UserMin <= ptr /\ ptr + size <= UserMax

ValidateUserPointer(ptr, size) ==
    /\ UserMin <= ptr /\ ptr <= UserMax
    /\ size <= PageSize
    /\ ptr + size <= UserMax

IsValidRange(start, size) ==
    start % PageSize = 0 /\ size % PageSize = 0 /\ size > 0

PageCount(h) == (h.size + PageSize - 1) \div PageSize

MemoryHandleNew(owner, start, size, rights, mode) ==
    [owner_pid |-> owner, holder_pid |-> owner, start_addr |-> start,
     size |-> size, rights |-> rights, mode |-> mode, active |-> TRUE,
     is_mapped |-> FALSE]

Revoke(h) == [h EXCEPT !.active = FALSE, !.rights = "None"]

\* Variant: a revoked handle passes.
ValidateRangeOnly(h) == IsValidRange(h.start_addr, h.size)

Validate(h) == h.active /\ IsValidRange(h.start_addr, h.size)

-----------------------------------------------------------------------------
HandlesInit ==
    /\ handles = <<>>
    /\ next_handle_id = 1
    /\ current = 0
    /\ installed = [h \in HandleIds |-> {}]
    /\ granted = [h \in HandleIds |-> {}]

\* Variant: the counter is read and not advanced.
CreateSameId(start, size, rights, mode) ==
    LET id == next_handle_id
    IN  /\ IsValidRange(start, size)
        /\ id \in HandleIds
        /\ handles' = [h \in DOMAIN handles \cup {id} |->
                         IF h = id
                         THEN MemoryHandleNew(current, start, size, rights, mode)
                         ELSE handles[h]]
        /\ granted' = [granted EXCEPT ![id] = {current}]
        /\ UNCHANGED <<next_handle_id, current, installed>>

\* create_memory_handle.
CreateMemoryHandle(start, size, rights, mode) ==
    LET id == next_handle_id
    IN  /\ IsValidRange(start, size)
        /\ id \in HandleIds
        /\ handles' = [h \in DOMAIN handles \cup {id} |->
                         IF h = id
                         THEN MemoryHandleNew(current, start, size, rights, mode)
                         ELSE handles[h]]
        /\ next_handle_id' = id + 1
        /\ granted' = [granted EXCEPT ![id] = {current}]
        /\ UNCHANGED <<current, installed>>

\* transfer_memory.  Only holder_pid changes: the pages stay installed where they
\* are, and so does is_mapped.
TransferMemory(h, target) ==
    /\ target # current
    /\ h \in DOMAIN handles
    /\ handles[h].owner_pid = current
    /\ Validate(handles[h])
    /\ handles' = [handles EXCEPT ![h].holder_pid = target]
    /\ granted' = [granted EXCEPT ![h] = @ \cup {target}]
    /\ UNCHANGED <<next_handle_id, current, installed>>

\* Variant: anyone may accept a transfer.
ReceiveAnyone(h) ==
    /\ h \in DOMAIN handles
    /\ Validate(handles[h])
    /\ handles' = [handles EXCEPT ![h].is_mapped = TRUE]
    /\ installed' = [installed EXCEPT ![h] = @ \cup {current}]
    /\ UNCHANGED <<next_handle_id, current, granted>>

\* receive_memory_handle.
ReceiveMemoryHandle(h) ==
    /\ h \in DOMAIN handles
    /\ handles[h].holder_pid = current
    /\ Validate(handles[h])
    /\ handles' = [handles EXCEPT ![h].is_mapped = TRUE]
    /\ installed' = [installed EXCEPT ![h] = @ \cup {current}]
    /\ UNCHANGED <<next_handle_id, current, granted>>

\* Variant: the pages of the owner are unmapped instead of the holder's.
RevokeFromOwner(h) ==
    /\ h \in DOMAIN handles
    /\ handles[h].owner_pid = current
    /\ handles' = [handles EXCEPT ![h] = [Revoke(@) EXCEPT !.is_mapped = FALSE]]
    /\ installed' = [installed EXCEPT ![h] =
                       IF handles[h].is_mapped THEN @ \ {current} ELSE @]
    /\ UNCHANGED <<next_handle_id, current, granted>>

\* revoke_memory_handle: the pages are unmapped from the holder of the moment.
RevokeMemoryHandle(h) ==
    /\ h \in DOMAIN handles
    /\ handles[h].owner_pid = current
    /\ handles' = [handles EXCEPT ![h] = [Revoke(@) EXCEPT !.is_mapped = FALSE]]
    /\ installed' = [installed EXCEPT ![h] =
                       IF handles[h].is_mapped THEN @ \ {handles[h].holder_pid} ELSE @]
    /\ UNCHANGED <<next_handle_id, current, granted>>

\* HandleRegistry::revoke_handle, the bare primitive: nothing is unmapped.
RevokeHandle(h) ==
    /\ h \in DOMAIN handles
    /\ handles' = [handles EXCEPT ![h] = Revoke(@)]
    /\ UNCHANGED <<next_handle_id, current, installed, granted>>

\* cleanup_process_handles: drops what the process owns or holds.
CleanupProcessHandles(pid) ==
    /\ handles' = [h \in {g \in DOMAIN handles :
                            pid \notin {handles[g].owner_pid, handles[g].holder_pid}} |->
                     handles[h]]
    /\ UNCHANGED <<next_handle_id, current, installed, granted>>

\* The scheduler makes some process current, or none: schedule, wait4, exit.
HandlesContextSwitch ==
    /\ current' \in Pids
    /\ UNCHANGED <<handles, next_handle_id, installed, granted>>

-----------------------------------------------------------------------------
(* System calls 5, 6 and 7: the checks in front of the operations *)

SysCreateMemoryHandle(start, size, rights, mode) ==
    /\ ValidateUserPointer(start, size)
    /\ CreateMemoryHandle(start, size, rights, mode)

SysTransferMemory(h, target) ==
    /\ h # 0
    /\ target \in 1..MaxTargetPid
    /\ TransferMemory(h, target)

SysReceiveMemoryHandle(h) == h # 0 /\ ReceiveMemoryHandle(h)

\* Requests just outside each limit are made as well, and refused.
HandlesNext ==
    \/ \E start \in 0..(UserMax + 1), size \in 0..(2 * PageSize),
          rights \in AccessRights, mode \in TransferModes :
          SysCreateMemoryHandle(start, size, rights, mode)
    \/ \E h \in HandleIds, target \in 0..(MaxTargetPid + 1) : SysTransferMemory(h, target)
    \/ \E h \in HandleIds : SysReceiveMemoryHandle(h) \/ RevokeMemoryHandle(h) \/ RevokeHandle(h)
    \/ \E pid \in Pids : CleanupProcessHandles(pid)
    \/ HandlesContextSwitch

HandlesSpec == HandlesInit /\ [][HandlesNext]_handle_vars

-----------------------------------------------------------------------------
(* Properties *)

\* Type invariant: the registry, its counter and the histories hold values of
\* their types, and ids come from the counter.
HandlesTypeOK ==
    /\ next_handle_id \in 1..(MaxHandle + 1)
    /\ DOMAIN handles \subseteq 1..(next_handle_id - 1)
    /\ \A h \in DOMAIN handles : handles[h] \in MemoryHandle
    /\ current \in Pids
    /\ installed \in [HandleIds -> SUBSET Pids]
    /\ granted \in [HandleIds -> SUBSET Pids]

\* The pointer check of the system call and is_valid together leave exactly one
\* shape of handle: one aligned page inside user space, so the page loops of
\* transfer, receive and revoke run once.
OnePage ==
    \A h \in DOMAIN handles :
        /\ PageCount(handles[h]) = 1
        /\ handles[h].start_addr % PageSize = 0
        /\ UserMin <= handles[h].start_addr
        /\ handles[h].start_addr + handles[h].size <= UserMax

\* Pages are installed only in processes the owner granted the handle to, through
\* any sequence of transfers, receipts and switches.
InstalledWereGranted == \A h \in HandleIds : installed[h] \subseteq granted[h]

\* Revoking is final: an inactive handle never becomes active, moves to another
\* holder, regains rights or is mapped anew, whoever calls what afterwards.
RevocationIsFinal ==
    [][\A h \in DOMAIN handles \cap DOMAIN handles' :
         ~handles[h].active =>
            /\ ~handles'[h].active
            /\ handles'[h].rights = "None"
            /\ handles'[h].holder_pid = handles[h].holder_pid
            /\ handles'[h].is_mapped => handles[h].is_mapped
            /\ installed'[h] \subseteq installed[h]]_handle_vars

\* "removing access from the current holder": once a handle is revoked and
\* is_mapped is off, as after revoke_memory_handle, its holder has no page of it
\* installed, even when the handle changed hands after it was mapped, was revoked
\* by the bare primitive first, or is revoked twice.
RevokedFromHolder ==
    \A h \in DOMAIN handles :
        ~handles[h].active /\ ~handles[h].is_mapped =>
            handles[h].holder_pid \notin installed[h]
=============================================================================
