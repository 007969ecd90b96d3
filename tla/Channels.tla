------------------------------ MODULE Channels ------------------------------
(***************************************************************************)
(* The message channels of src/src/ipc.rs and their system calls 2, 3 and  *)
(* 4 in src/src/syscall.rs.  An operation holds the CHANNEL_REGISTRY lock  *)
(* with interrupts masked, so it is one action; a call that returns an     *)
(* error, or finds no message, changes nothing and is no step.             *)
(*                                                                         *)
(* The payload bytes are a model value, of which the receiver gets the     *)
(* first data_len; msg_type is carried and never delivered, and is left    *)
(* out.  sent and received are history variables.                          *)
(***************************************************************************)
EXTENDS Ipc, Sequences

CONSTANTS
    MaxId,          \* bound: channels created in a behaviour
    MaxChannelId,   \* largest channel id send and receive accept (1000)
    MaxQueueSize,   \* MAX_QUEUE_SIZE (1000)
    MaxMessageLen,  \* longest message and largest buffer (256)
    Payloads,       \* message contents
    MaxSends        \* bound: messages sent in a behaviour

ASSUME ChannelsAssumption ==
    /\ MaxId \in Nat /\ MaxChannelId \in Nat /\ MaxTargetPid \in Nat
    /\ MaxQueueSize \in Nat /\ MaxMessageLen \in Nat /\ MaxSends \in Nat

VARIABLES
    channels,       \* ChannelRegistry::channels, by channel id
    next_id,        \* ChannelRegistry::next_id
    sent,           \* sent[c][s]: messages endpoint s of channel c has sent
    received,       \* received[c][s]: what the other endpoint got of them
    sends           \* number of messages sent

vars == <<channels, next_id, current, sent, received, sends>>

Ids == 1..MaxId
Sides == {1, 2}
Other(s) == 3 - s

Message == [sender_pid : Pids, data : Payloads, data_len : 0..MaxMessageLen]

\* endpoint[1], endpoint[2] are endpoint1, endpoint2; queue[1] is queue1_to_2
\* and queue[2] is queue2_to_1: queue[s] holds what endpoint s sent.
Channel == [endpoint : [Sides -> Pids], queue : [Sides -> Seq(Message)]]

ChannelNew(pid1, pid2) ==
    [endpoint |-> [s \in Sides |-> IF s = 1 THEN pid1 ELSE pid2],
     queue |-> [s \in Sides |-> <<>>]]

HasEndpoint(ch, pid) == \E s \in Sides : ch.endpoint[s] = pid

\* Variant: the second endpoint is compared first.
SideSwapped(ch, pid) == IF pid = ch.endpoint[1] THEN 2 ELSE 1

\* send and receive compare the caller with endpoint1 first.
Side(ch, pid) == IF pid = ch.endpoint[1] THEN 1 ELSE 2

Init ==
    /\ channels = <<>>
    /\ next_id = 1
    /\ current = 0
    /\ sent = [c \in Ids |-> [s \in Sides |-> <<>>]]
    /\ received = [c \in Ids |-> [s \in Sides |-> <<>>]]
    /\ sends = 0

-----------------------------------------------------------------------------
(* The operations of ipc::syscalls and the registry *)

\* Variant: a process may open a channel with itself.
CreateChannelSelf(target) ==
    /\ next_id \in Ids
    /\ channels' = [c \in DOMAIN channels \cup {next_id} |->
                      IF c = next_id THEN ChannelNew(current, target) ELSE channels[c]]
    /\ next_id' = next_id + 1
    /\ UNCHANGED <<current, sent, received, sends>>

\* ipc::syscalls::create_channel.
CreateChannel(target) ==
    /\ target # current
    /\ next_id \in Ids
    /\ channels' = [c \in DOMAIN channels \cup {next_id} |->
                      IF c = next_id THEN ChannelNew(current, target) ELSE channels[c]]
    /\ next_id' = next_id + 1
    /\ UNCHANGED <<current, sent, received, sends>>

\* Variant: the queue limit is tested with > instead of >=.
SendMessageOneMore(c, data, len) ==
    /\ c \in DOMAIN channels
    /\ HasEndpoint(channels[c], current)
    /\ sends < MaxSends
    /\ LET s == Side(channels[c], current)
           m == [sender_pid |-> current, data |-> data, data_len |-> len]
       IN  /\ Len(channels[c].queue[s]) <= MaxQueueSize
           /\ channels' = [channels EXCEPT ![c].queue[s] = Append(@, m)]
           /\ sent' = [sent EXCEPT ![c][s] = Append(@, m)]
    /\ sends' = sends + 1
    /\ UNCHANGED <<next_id, current, received>>

\* ipc::syscalls::send_message.
SendMessage(c, data, len) ==
    /\ c \in DOMAIN channels
    /\ HasEndpoint(channels[c], current)
    /\ sends < MaxSends
    /\ LET s == Side(channels[c], current)
           m == [sender_pid |-> current, data |-> data, data_len |-> len]
       IN  /\ Len(channels[c].queue[s]) < MaxQueueSize
           /\ channels' = [channels EXCEPT ![c].queue[s] = Append(@, m)]
           /\ sent' = [sent EXCEPT ![c][s] = Append(@, m)]
    /\ sends' = sends + 1
    /\ UNCHANGED <<next_id, current, received>>

\* What the caller gets: the bytes that fit its buffer.
Delivered(m, size) ==
    [data |-> m.data, data_len |-> IF size < m.data_len THEN size ELSE m.data_len]

\* Variant: the newest message is taken.
ReceiveMessageNewest(c, size) ==
    /\ c \in DOMAIN channels
    /\ HasEndpoint(channels[c], current)
    /\ LET s == Other(Side(channels[c], current))
           q == channels[c].queue[s]
       IN  /\ q # <<>>
           /\ channels' = [channels EXCEPT ![c].queue[s] = SubSeq(q, 1, Len(q) - 1)]
           /\ received' = [received EXCEPT ![c][s] = Append(@, Delivered(q[Len(q)], size))]
    /\ UNCHANGED <<next_id, current, sent, sends>>

\* receive_message when the peer has sent something, and what system call 4
\* copies of it.  The message leaves the queue whatever the size of the buffer.
ReceiveMessage(c, size) ==
    /\ c \in DOMAIN channels
    /\ HasEndpoint(channels[c], current)
    /\ LET s == Other(Side(channels[c], current))
           q == channels[c].queue[s]
       IN  /\ q # <<>>
           /\ channels' = [channels EXCEPT ![c].queue[s] = Tail(q)]
           /\ received' = [received EXCEPT ![c][s] = Append(@, Delivered(Head(q), size))]
    /\ UNCHANGED <<next_id, current, sent, sends>>

\* Variant: the counter starts again once the registry is empty.
CleanupResetsCounter(pid) ==
    /\ channels' = [c \in {d \in DOMAIN channels : ~HasEndpoint(channels[d], pid)} |->
                      channels[c]]
    /\ next_id' = IF DOMAIN channels' = {} THEN 1 ELSE next_id
    /\ UNCHANGED <<current, sent, received, sends>>

\* cleanup_process_channels: drops the channels of a process with their queues.
CleanupProcessChannels(pid) ==
    /\ channels' = [c \in {d \in DOMAIN channels : ~HasEndpoint(channels[d], pid)} |->
                      channels[c]]
    /\ UNCHANGED <<next_id, current, sent, received, sends>>

\* The scheduler makes some process current, or none: schedule, wait4, exit.
ContextSwitch ==
    /\ current' \in Pids
    /\ UNCHANGED <<channels, next_id, sent, received, sends>>

-----------------------------------------------------------------------------
(* System calls 2, 3 and 4: the checks in front of the operations *)

SysCreateChannel(target) ==
    /\ target \in 1..MaxTargetPid
    /\ CreateChannel(target)

SysSendMessage(c, data, len) ==
    /\ c \in 1..MaxChannelId
    /\ len <= MaxMessageLen
    /\ SendMessage(c, data, len)

SysReceiveMessage(c, size) ==
    /\ c \in 1..MaxChannelId
    /\ size <= MaxMessageLen
    /\ ReceiveMessage(c, size)

\* Requests one past each limit are made as well, and refused.
Next ==
    \/ \E target \in 0..(MaxTargetPid + 1) : SysCreateChannel(target)
    \/ \E c \in Ids, data \in Payloads, len \in 0..(MaxMessageLen + 1) :
          SysSendMessage(c, data, len)
    \/ \E c \in Ids, size \in 0..(MaxMessageLen + 1) : SysReceiveMessage(c, size)
    \/ \E pid \in Pids : CleanupProcessChannels(pid)
    \/ ContextSwitch

Spec == Init /\ [][Next]_vars

-----------------------------------------------------------------------------
(* Properties *)

\* Type invariant: the registry, its counter and the histories hold values of
\* their types, and no queue outgrows MAX_QUEUE_SIZE.
TypeOK ==
    /\ next_id \in 1..(MaxId + 1)
    /\ DOMAIN channels \subseteq 1..(next_id - 1)
    /\ \A c \in DOMAIN channels :
          /\ channels[c] \in Channel
          /\ \A s \in Sides : Len(channels[c].queue[s]) <= MaxQueueSize
    /\ current \in Pids
    /\ sent \in [Ids -> [Sides -> Seq(Message)]]
    /\ received \in [Ids -> [Sides -> Seq([data : Payloads, data_len : 0..MaxMessageLen])]]
    /\ sends \in 0..MaxSends

\* While a channel exists, each direction delivers exactly what was sent, in
\* order: the queue is what remains of the sent messages after the received
\* ones, and what was received is a prefix of the bytes of what was sent.
NothingLost ==
    \A c \in DOMAIN channels, s \in Sides :
        LET q == channels[c].queue[s]
            n == Len(received[c][s])
        IN  /\ Len(sent[c][s]) = n + Len(q)
            /\ \A i \in 1..Len(q) : q[i] = sent[c][s][n + i]
            /\ \A i \in 1..n :
                  /\ received[c][s][i].data = sent[c][s][i].data
                  /\ received[c][s][i].data_len <= sent[c][s][i].data_len

\* Every queued message names the endpoint whose queue it is in: whatever process
\* was current when, receive never hands out a message of a third process or one
\* that travels in the wrong direction.
SenderAuthentic ==
    \A c \in DOMAIN channels, s \in Sides :
        LET q == channels[c].queue[s]
        IN  \A i \in 1..Len(q) : q[i].sender_pid = channels[c].endpoint[s]

\* No message is stuck: for every queue with a message some process's receive
\* pops from it (on a channel of a process with itself, queue1_to_2 would have
\* no reader).
MessagesHaveReader ==
    \A c \in DOMAIN channels, s \in Sides :
        channels[c].queue[s] # <<>> =>
            \E pid \in Pids : /\ HasEndpoint(channels[c], pid)
                              /\ Other(Side(channels[c], pid)) = s

-----------------------------------------------------------------------------
\* The channels implement a log per direction: bounded, ordered, without loss
\* or duplication while the channel exists, and a removed channel's id is never
\* handed out again.
Log == INSTANCE MessageLog WITH
    ChannelIds <- Ids, Messages <- Message, Capacity <- MaxQueueSize,
    BufferSizes <- 0..MaxMessageLen,
    opened <- 1..(next_id - 1),
    closed <- (1..(next_id - 1)) \ DOMAIN channels

ImplementsLog == Log!Spec
=============================================================================
