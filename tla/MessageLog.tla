----------------------------- MODULE MessageLog -----------------------------
(***************************************************************************)
(* What the channels of src/src/ipc.rs promise: each direction of a channel *)
(* is a log.  Sending appends to the log, receiving hands the next unread  *)
(* entry, or a prefix of its bytes, to the receiver, and at most Capacity  *)
(* entries are unread.  While a channel is open nothing sent through it is *)
(* lost, duplicated or reordered, and a closed channel is never reopened.  *)
(***************************************************************************)
EXTENDS Integers, Sequences

CONSTANTS
    ChannelIds,     \* names of channels
    Messages,       \* records with at least the fields data and data_len
    Capacity,       \* unread messages one direction may hold
    BufferSizes     \* sizes of receive buffers

Sides == {1, 2}

VARIABLES
    opened,         \* channels opened so far
    closed,         \* those closed since
    sent,           \* sent[c][s]: what endpoint s of channel c has sent
    received        \* received[c][s]: what the other endpoint got of it

logVars == <<opened, closed, sent, received>>

Init ==
    /\ opened = {}
    /\ closed = {}
    /\ sent = [c \in ChannelIds |-> [s \in Sides |-> <<>>]]
    /\ received = [c \in ChannelIds |-> [s \in Sides |-> <<>>]]

Open(c) ==
    /\ c \notin opened
    /\ opened' = opened \cup {c}
    /\ UNCHANGED <<closed, sent, received>>

Close(cs) ==
    /\ cs \subseteq opened \ closed
    /\ closed' = closed \cup cs
    /\ UNCHANGED <<opened, sent, received>>

Send(c, s, m) ==
    /\ c \in opened \ closed
    /\ Len(sent[c][s]) - Len(received[c][s]) < Capacity
    /\ sent' = [sent EXCEPT ![c][s] = Append(@, m)]
    /\ UNCHANGED <<opened, closed, received>>

\* What a receiver with a buffer of the given size gets to see of a message.
Delivered(m, size) ==
    [data |-> m.data, data_len |-> IF size < m.data_len THEN size ELSE m.data_len]

Receive(c, s, size) ==
    /\ c \in opened \ closed
    /\ Len(received[c][s]) < Len(sent[c][s])
    /\ received' = [received EXCEPT ![c][s] =
                      Append(@, Delivered(sent[c][s][Len(@) + 1], size))]
    /\ UNCHANGED <<opened, closed, sent>>

Next ==
    \/ \E c \in ChannelIds : Open(c)
    \/ \E cs \in SUBSET ChannelIds : Close(cs)
    \/ \E c \in ChannelIds, s \in Sides, m \in Messages : Send(c, s, m)
    \/ \E c \in ChannelIds, s \in Sides, size \in BufferSizes : Receive(c, s, size)

Spec == Init /\ [][Next]_logVars
=============================================================================
