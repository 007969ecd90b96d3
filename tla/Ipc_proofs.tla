----------------------------- MODULE Ipc_proofs -----------------------------
(***************************************************************************)
(* Proofs about Channels, for every number of channels and processes and   *)
(* every queue and message size, and about MemoryHandles, for every number *)
(* of handles and processes.                                               *)
(***************************************************************************)
EXTENDS Channels, MemoryHandles, SequenceTheorems, TLAPS

-----------------------------------------------------------------------------
(* The channels *)

Delivery == [data : Payloads, data_len : 0..MaxMessageLen]

\* The registry after queue[s] of channel c became q.
QueueBecomes(c, s, q) ==
    /\ DOMAIN channels' = DOMAIN channels
    /\ channels'[c] = [channels[c] EXCEPT !.queue = [channels[c].queue EXCEPT ![s] = q]]
    /\ channels'[c].endpoint = channels[c].endpoint
    /\ channels'[c].queue[s] = q
    /\ channels'[c].queue[Other(s)] = channels[c].queue[Other(s)]
    /\ \A d \in DOMAIN channels : d # c => channels'[d] = channels[d]

\* The histories after history[c][s] became q.
HistoryBecomes(old, new, c, s, q) ==
    /\ new[c][s] = q
    /\ new[c][Other(s)] = old[c][Other(s)]
    /\ \A d \in Ids : d # c => new[d] = old[d]

\* The two endpoints of a channel are each other's peer.
LEMMA OtherSide == \A s \in Sides : Other(s) \in Sides /\ Other(s) # s /\ Other(Other(s)) = s
  BY DEF Sides, Other

\* Side picks one of the two endpoints.
LEMMA SideIsSide == \A ch, pid : Side(ch, pid) \in Sides
  BY DEF Side, Sides

\* The ids of existing channels come from the counter.
LEMMA ChannelIsId == TypeOK => \A c \in DOMAIN channels : c \in Ids /\ c < next_id
  BY ChannelsAssumption DEF TypeOK, Ids

\* What a successful send does.
LEMMA SendEffect ==
    ASSUME TypeOK, NEW c \in Ids, NEW data \in Payloads,
           NEW len \in 0..(MaxMessageLen + 1), SysSendMessage(c, data, len)
    PROVE  \E s \in Sides, m \in Message :
              /\ c \in DOMAIN channels
              /\ channels[c].endpoint[s] = current
              /\ m.sender_pid = current
              /\ Len(channels[c].queue[s]) < MaxQueueSize
              /\ QueueBecomes(c, s, Append(channels[c].queue[s], m))
              /\ HistoryBecomes(sent, sent', c, s, Append(sent[c][s], m))
              /\ sent' = [sent EXCEPT ![c][s] = Append(@, m)]
              /\ sends < MaxSends /\ sends' = sends + 1
              /\ UNCHANGED <<next_id, current, received>>
<1> DEFINE s == Side(channels[c], current)
           m == [sender_pid |-> current, data |-> data, data_len |-> len]
           q == Append(channels[c].queue[s], m)
<1>1. s \in Sides
  BY SideIsSide
<1>2. m \in Message
  BY ChannelsAssumption DEF SysSendMessage, SendMessage, Message, TypeOK
<1>3. c \in DOMAIN channels /\ channels[c] \in Channel
  BY DEF SysSendMessage, SendMessage, TypeOK
<1>4. channels[c].endpoint[s] = current
  BY DEF SysSendMessage, SendMessage, HasEndpoint, Side, Sides
<1>5. channels' = [channels EXCEPT ![c].queue[s] = q]
  BY DEF SysSendMessage, SendMessage
<1>6. QueueBecomes(c, s, q)
  BY <1>1, <1>3, <1>5, OtherSide, Zenon DEF QueueBecomes, Channel
<1>7. sent' = [sent EXCEPT ![c][s] = Append(@, m)]
  BY DEF SysSendMessage, SendMessage
<1>8. HistoryBecomes(sent, sent', c, s, Append(sent[c][s], m))
  BY <1>1, <1>7, OtherSide DEF HistoryBecomes, TypeOK
<1>9. /\ Len(channels[c].queue[s]) < MaxQueueSize
      /\ sends < MaxSends /\ sends' = sends + 1
      /\ UNCHANGED <<next_id, current, received>>
  BY DEF SysSendMessage, SendMessage
<1> HIDE DEF s, m
<1>10. m.sender_pid = current
  BY DEF m
<1> QED
  BY <1>1, <1>2, <1>3, <1>4, <1>6, <1>7, <1>8, <1>9, <1>10, Zenon

\* What a successful receive does.
LEMMA ReceiveEffect ==
    ASSUME TypeOK, NEW c \in Ids,
           NEW size \in 0..(MaxMessageLen + 1), SysReceiveMessage(c, size)
    PROVE  /\ size \in 0..MaxMessageLen
           /\ \E s \in Sides :
              /\ c \in DOMAIN channels
              /\ channels[c].queue[s] # <<>>
              /\ QueueBecomes(c, s, Tail(channels[c].queue[s]))
              /\ HistoryBecomes(received, received', c, s,
                    Append(received[c][s], Delivered(Head(channels[c].queue[s]), size)))
              /\ received' = [received EXCEPT ![c][s] =
                    Append(@, Delivered(Head(channels[c].queue[s]), size))]
              /\ UNCHANGED <<next_id, current, sent, sends>>
<1> DEFINE s == Other(Side(channels[c], current))
           q == channels[c].queue[s]
           r == Delivered(Head(q), size)
<1>1. s \in Sides
  BY SideIsSide, OtherSide
<1>2. c \in DOMAIN channels /\ channels[c] \in Channel
  BY DEF SysReceiveMessage, ReceiveMessage, TypeOK
<1>3. q # <<>> /\ channels' = [channels EXCEPT ![c].queue[s] = Tail(q)]
  BY DEF SysReceiveMessage, ReceiveMessage
<1>4. QueueBecomes(c, s, Tail(q))
  BY <1>1, <1>2, <1>3, OtherSide, Zenon DEF QueueBecomes, Channel
<1>5. received' = [received EXCEPT ![c][s] = Append(@, r)]
  BY DEF SysReceiveMessage, ReceiveMessage
<1>6. HistoryBecomes(received, received', c, s, Append(received[c][s], r))
  BY <1>1, <1>5, OtherSide DEF HistoryBecomes, TypeOK
<1>7. UNCHANGED <<next_id, current, sent, sends>> /\ size \in 0..MaxMessageLen
  BY ChannelsAssumption DEF SysReceiveMessage, ReceiveMessage
<1> HIDE DEF s
<1> QED
  BY <1>1, <1>2, <1>3, <1>4, <1>5, <1>6, <1>7, Zenon

-----------------------------------------------------------------------------
(* Types *)

\* The empty registry is well-typed.
LEMMA TypeInit == Init => TypeOK
<1> SUFFICES ASSUME Init PROVE TypeOK
  OBVIOUS
<1>1. DOMAIN channels = {}
  BY DEF Init
<1>2. <<>> \in Seq(Message) /\ <<>> \in Seq(Delivery)
  OBVIOUS
<1> QED
  BY <1>1, <1>2, ChannelsAssumption DEF Init, TypeOK, Pids, Delivery

\* A channel whose queue is replaced by a queue is a channel.
LEMMA QueueTyped ==
    ASSUME NEW ch \in Channel, NEW s \in Sides, NEW q \in Seq(Message)
    PROVE  [ch EXCEPT !.queue = [ch.queue EXCEPT ![s] = q]] \in Channel
<1>1. [ch.queue EXCEPT ![s] = q] \in [Sides -> Seq(Message)]
  BY DEF Channel
<1> QED
  BY <1>1, Zenon DEF Channel

\* send_message keeps the type invariant, the queue limit included.
LEMMA SendType ==
    ASSUME TypeOK, NEW c \in Ids, NEW data \in Payloads,
           NEW len \in 0..(MaxMessageLen + 1), SysSendMessage(c, data, len)
    PROVE  TypeOK'
<1>1. PICK s \in Sides, m \in Message :
              /\ c \in DOMAIN channels
              /\ Len(channels[c].queue[s]) < MaxQueueSize
              /\ QueueBecomes(c, s, Append(channels[c].queue[s], m))
              /\ sent' = [sent EXCEPT ![c][s] = Append(@, m)]
              /\ sends < MaxSends /\ sends' = sends + 1
              /\ UNCHANGED <<next_id, current, received>>
  BY SendEffect
<1> DEFINE q == channels[c].queue[s]
<1>2. q \in Seq(Message) /\ Len(q) \in Nat /\ sent[c][s] \in Seq(Message)
  BY <1>1 DEF TypeOK, Channel
<1>3. Append(q, m) \in Seq(Message) /\ Len(Append(q, m)) = Len(q) + 1
      /\ Append(sent[c][s], m) \in Seq(Message)
  BY <1>2
<1>4. channels'[c] \in Channel
  <2>1. channels'[c] = [channels[c] EXCEPT !.queue = [@ EXCEPT ![s] = Append(q, m)]]
    BY <1>1 DEF QueueBecomes
  <2>2. channels[c] \in Channel
    BY <1>1 DEF TypeOK
  <2> HIDE DEF q
  <2>3. [channels[c] EXCEPT !.queue = [@ EXCEPT ![s] = Append(q, m)]] \in Channel
    BY <1>3, <2>2, QueueTyped, Zenon
  <2> QED
    BY <2>1, <2>3, Zenon
<1>5. \A t \in Sides : Len(channels'[c].queue[t]) <= MaxQueueSize
  <2>1. Len(channels'[c].queue[s]) <= MaxQueueSize
    BY <1>1, <1>2, <1>3, ChannelsAssumption DEF QueueBecomes
  <2>2. Len(channels'[c].queue[Other(s)]) <= MaxQueueSize
    BY <1>1, OtherSide DEF QueueBecomes, TypeOK
  <2> QED
    BY <2>1, <2>2 DEF Sides, Other
<1>6. \A d \in DOMAIN channels' :
          /\ channels'[d] \in Channel
          /\ \A t \in Sides : Len(channels'[d].queue[t]) <= MaxQueueSize
  BY <1>1, <1>4, <1>5, Zenon DEF QueueBecomes, TypeOK
<1>7. sent' \in [Ids -> [Sides -> Seq(Message)]]
  BY <1>1, <1>3 DEF TypeOK
<1>8. DOMAIN channels' = DOMAIN channels
  BY <1>1 DEF QueueBecomes
<1>9. sends' \in 0..MaxSends
  BY <1>1, ChannelsAssumption DEF TypeOK
<1> QED
  BY <1>1, <1>6, <1>7, <1>8, <1>9, Zenon DEF TypeOK

\* receive_message keeps the type invariant.
LEMMA ReceiveType ==
    ASSUME TypeOK, NEW c \in Ids,
           NEW size \in 0..(MaxMessageLen + 1), SysReceiveMessage(c, size)
    PROVE  TypeOK'
<1>1. PICK s \in Sides :
              /\ c \in DOMAIN channels
              /\ channels[c].queue[s] # <<>>
              /\ QueueBecomes(c, s, Tail(channels[c].queue[s]))
              /\ received' = [received EXCEPT ![c][s] =
                    Append(@, Delivered(Head(channels[c].queue[s]), size))]
              /\ UNCHANGED <<next_id, current, sent, sends>>
  BY ReceiveEffect
<1>0. size \in 0..MaxMessageLen
  BY ReceiveEffect
<1> DEFINE q == channels[c].queue[s]
           r == Delivered(Head(q), size)
<1>2. q \in Seq(Message) /\ q # <<>> /\ received[c][s] \in Seq(Delivery)
      /\ Len(q) <= MaxQueueSize
  BY <1>1, Zenon DEF TypeOK, Channel, Delivery
<1>3. Tail(q) \in Seq(Message) /\ Len(Tail(q)) = Len(q) - 1 /\ Len(q) \in Nat
      /\ Head(q) \in Message
  BY <1>2, HeadTailProperties
<1>4. r \in Delivery
  BY <1>0, <1>3, ChannelsAssumption DEF Delivered, Delivery, Message
<1>5. Append(received[c][s], r) \in Seq(Delivery)
  BY <1>2, <1>4
<1>6. channels'[c] \in Channel
  <2>1. channels'[c] = [channels[c] EXCEPT !.queue = [@ EXCEPT ![s] = Tail(q)]]
    BY <1>1 DEF QueueBecomes
  <2>2. channels[c] \in Channel
    BY <1>1 DEF TypeOK
  <2> HIDE DEF q
  <2>3. [channels[c] EXCEPT !.queue = [@ EXCEPT ![s] = Tail(q)]] \in Channel
    BY <1>3, <2>2, QueueTyped, Zenon
  <2> QED
    BY <2>1, <2>3, Zenon
<1>7. \A t \in Sides : Len(channels'[c].queue[t]) <= MaxQueueSize
  <2>1. Len(channels'[c].queue[s]) <= MaxQueueSize
    BY <1>1, <1>2, <1>3, ChannelsAssumption DEF QueueBecomes
  <2>2. Len(channels'[c].queue[Other(s)]) <= MaxQueueSize
    BY <1>1, OtherSide DEF QueueBecomes, TypeOK
  <2> QED
    BY <2>1, <2>2 DEF Sides, Other
<1>8. \A d \in DOMAIN channels' :
          /\ channels'[d] \in Channel
          /\ \A t \in Sides : Len(channels'[d].queue[t]) <= MaxQueueSize
  BY <1>1, <1>6, <1>7, Zenon DEF QueueBecomes, TypeOK
<1>9. received' \in [Ids -> [Sides -> Seq(Delivery)]]
  <2>1. received \in [Ids -> [Sides -> Seq(Delivery)]]
    BY Zenon DEF TypeOK, Delivery
  <2> HIDE DEF r, q
  <2>2. received' = [received EXCEPT ![c][s] = Append(@, r)]
    BY <1>1 DEF r, q
  <2> QED
    BY <1>5, <2>1, <2>2
<1>10. DOMAIN channels' = DOMAIN channels
  BY <1>1 DEF QueueBecomes
<1> QED
  BY <1>1, <1>8, <1>9, <1>10, Zenon DEF TypeOK, Delivery

\* create_channel keeps the type invariant.
LEMMA CreateType ==
    ASSUME TypeOK, NEW target \in 0..(MaxTargetPid + 1), SysCreateChannel(target)
    PROVE  TypeOK'
<1>1. ChannelNew(current, target) \in Channel
  BY ChannelsAssumption DEF SysCreateChannel, CreateChannel, ChannelNew, Channel, Pids, TypeOK
<1>2. \A s \in Sides : Len(ChannelNew(current, target).queue[s]) = 0
  BY DEF ChannelNew
<1>3. DOMAIN channels' = DOMAIN channels \cup {next_id}
  BY DEF SysCreateChannel, CreateChannel
<1>4. \A c \in DOMAIN channels' :
          channels'[c] = IF c = next_id THEN ChannelNew(current, target) ELSE channels[c]
  BY DEF SysCreateChannel, CreateChannel
<1>5. \A c \in DOMAIN channels' :
          /\ channels'[c] \in Channel
          /\ \A s \in Sides : Len(channels'[c].queue[s]) <= MaxQueueSize
  BY <1>1, <1>2, <1>3, <1>4, ChannelsAssumption DEF TypeOK
<1>6. next_id' = next_id + 1 /\ next_id' \in 1..(MaxId + 1)
  BY ChannelsAssumption DEF TypeOK, SysCreateChannel, CreateChannel, Ids
<1>7. DOMAIN channels' \subseteq 1..(next_id' - 1)
  BY <1>3, <1>6 DEF TypeOK
<1> QED
  BY <1>5, <1>6, <1>7, Zenon DEF TypeOK, SysCreateChannel, CreateChannel

\* Every operation preserves the type invariant, the queue limit included.
LEMMA TypeStep == TypeOK /\ [Next]_vars => TypeOK'
<1> SUFFICES ASSUME TypeOK, [Next]_vars PROVE TypeOK'
  OBVIOUS
<1>1. ASSUME NEW pid \in Pids, CleanupProcessChannels(pid) PROVE TypeOK'
  <2>1. DOMAIN channels' \subseteq DOMAIN channels
    BY <1>1 DEF CleanupProcessChannels
  <2>2. \A c \in DOMAIN channels' : channels'[c] = channels[c]
    BY <1>1 DEF CleanupProcessChannels
  <2>3. \A c \in DOMAIN channels' :
            /\ channels'[c] \in Channel
            /\ \A s \in Sides : Len(channels'[c].queue[s]) <= MaxQueueSize
    BY <2>1, <2>2 DEF TypeOK
  <2> QED
    BY <1>1, <2>1, <2>3, Zenon DEF CleanupProcessChannels, TypeOK
<1>2. CASE ContextSwitch
  BY <1>2, Zenon DEF ContextSwitch, TypeOK
<1>3. CASE UNCHANGED vars
  BY <1>3, Zenon DEF vars, TypeOK
<1> QED
  BY <1>1, <1>2, <1>3, CreateType, SendType, ReceiveType DEF Next

\* Type correctness, with the bound of every queue.
THEOREM TypeCorrect == Spec => []TypeOK
  BY TypeInit, TypeStep, PTL DEF Spec

-----------------------------------------------------------------------------
(* Delivery *)

\* The histories of ids that were not handed out yet are empty.
FreshEmpty ==
    \A c \in Ids, s \in Sides :
        c >= next_id => sent[c][s] = <<>> /\ received[c][s] = <<>>

\* The relation NothingLost states, for one direction of one channel.
Matches(q, snt, rcv) ==
    /\ Len(snt) = Len(rcv) + Len(q)
    /\ \A i \in 1..Len(q) : q[i] = snt[Len(rcv) + i]
    /\ \A i \in 1..Len(rcv) : /\ rcv[i].data = snt[i].data
                              /\ rcv[i].data_len <= snt[i].data_len

\* NothingLost, in terms of Matches.
LEMMA NothingLostMatches ==
    NothingLost <=> \A c \in DOMAIN channels, s \in Sides :
                       Matches(channels[c].queue[s], sent[c][s], received[c][s])
  BY DEF NothingLost, Matches

\* Sending keeps queue and histories in step.
LEMMA MatchesAppend ==
    ASSUME NEW q \in Seq(Message), NEW snt \in Seq(Message), NEW rcv \in Seq(Delivery),
           NEW m \in Message, Matches(q, snt, rcv)
    PROVE  Matches(Append(q, m), Append(snt, m), rcv)
<1>1. Len(q) \in Nat /\ Len(snt) \in Nat /\ Len(rcv) \in Nat
  OBVIOUS
<1>2. Len(Append(q, m)) = Len(q) + 1 /\ Append(q, m)[Len(q) + 1] = m
      /\ \A i \in 1..Len(q) : Append(q, m)[i] = q[i]
  OBVIOUS
<1>3. Len(Append(snt, m)) = Len(snt) + 1 /\ Append(snt, m)[Len(snt) + 1] = m
      /\ \A i \in 1..Len(snt) : Append(snt, m)[i] = snt[i]
  OBVIOUS
<1>4. \A i \in 1..Len(Append(q, m)) : Append(q, m)[i] = Append(snt, m)[Len(rcv) + i]
  <2> SUFFICES ASSUME NEW i \in 1..(Len(q) + 1)
                 PROVE  Append(q, m)[i] = Append(snt, m)[Len(rcv) + i]
    BY <1>2, Zenon
  <2>2. CASE i = Len(q) + 1
    BY <1>1, <1>2, <1>3, <2>2 DEF Matches
  <2>3. CASE i \in 1..Len(q)
    <3>1. Len(rcv) + i \in 1..Len(snt) /\ q[i] = snt[Len(rcv) + i]
      BY <1>1, <2>3 DEF Matches
    <3> QED
      BY <1>2, <1>3, <2>3, <3>1
  <2>4. i = Len(q) + 1 \/ i \in 1..Len(q)
    BY <1>1
  <2> QED
    BY <2>2, <2>3, <2>4, Zenon
<1>5. \A i \in 1..Len(rcv) : /\ rcv[i].data = Append(snt, m)[i].data
                             /\ rcv[i].data_len <= Append(snt, m)[i].data_len
  <2> SUFFICES ASSUME NEW i \in 1..Len(rcv)
                 PROVE  /\ rcv[i].data = Append(snt, m)[i].data
                        /\ rcv[i].data_len <= Append(snt, m)[i].data_len
    BY Zenon
  <2>2. i \in 1..Len(snt)
    BY <1>1 DEF Matches
  <2>3. Append(snt, m)[i] = snt[i]
    BY <1>3, <2>2
  <2> QED
    BY <2>3 DEF Matches
<1>6. Len(Append(snt, m)) = Len(rcv) + Len(Append(q, m))
  BY <1>1, <1>2, <1>3 DEF Matches
<1> QED
  BY <1>4, <1>5, <1>6, Zenon DEF Matches

\* The receiver gets the data of the message, cut to the size of its buffer.
LEMMA DeliveredPrefix ==
    ASSUME NEW m \in Message, NEW size \in 0..MaxMessageLen
    PROVE  /\ Delivered(m, size).data = m.data
           /\ Delivered(m, size).data_len <= m.data_len
<1>1. m.data_len \in Nat /\ size \in Nat
  BY ChannelsAssumption DEF Message
<1> QED
  BY <1>1 DEF Delivered

\* Receiving keeps queue and histories in step.
LEMMA MatchesTail ==
    ASSUME NEW q \in Seq(Message), NEW snt \in Seq(Message), NEW rcv \in Seq(Delivery),
           q # <<>>, NEW size \in 0..MaxMessageLen, Matches(q, snt, rcv)
    PROVE  Matches(Tail(q), snt, Append(rcv, Delivered(Head(q), size)))
<1> DEFINE r == Delivered(Head(q), size)
           n == Len(rcv)
<1>1. Len(q) \in Nat /\ Len(q) > 0 /\ Len(Tail(q)) = Len(q) - 1
      /\ \A i \in 1..Len(Tail(q)) : Tail(q)[i] = q[i + 1]
      /\ Head(q) = q[1] /\ Head(q) \in Message /\ n \in Nat
  BY HeadTailProperties
<1>2. r.data = Head(q).data /\ r.data_len <= Head(q).data_len
  BY <1>1, DeliveredPrefix
<1> HIDE DEF r
<1>3. Len(Append(rcv, r)) = n + 1 /\ Append(rcv, r)[n + 1] = r
      /\ \A i \in 1..n : Append(rcv, r)[i] = rcv[i]
  OBVIOUS
<1>4. Head(q) = snt[n + 1]
  BY <1>1 DEF Matches
<1> QED
  BY <1>1, <1>2, <1>3, <1>4 DEF Matches, r

\* Every operation keeps NothingLost; ids not handed out yet have no history.
LEMMA DeliveryStep ==
    TypeOK /\ FreshEmpty /\ NothingLost /\ [Next]_vars => FreshEmpty' /\ NothingLost'
<1> SUFFICES ASSUME TypeOK, FreshEmpty, NothingLost, [Next]_vars
             PROVE  FreshEmpty' /\ NothingLost'
  OBVIOUS
<1> DEFINE Good(c, s) == Matches(channels[c].queue[s], sent[c][s], received[c][s])
<1>0. \A c \in DOMAIN channels, s \in Sides : Good(c, s)
  BY NothingLostMatches
<1>a. (\A c \in DOMAIN channels', s \in Sides : Good(c, s)') => NothingLost'
  BY Zenon DEF NothingLost, Matches
<1>1. ASSUME NEW target \in 0..(MaxTargetPid + 1), SysCreateChannel(target)
      PROVE  FreshEmpty' /\ NothingLost'
  <2>1. /\ next_id \in Ids /\ next_id' = next_id + 1
        /\ DOMAIN channels' = DOMAIN channels \cup {next_id}
        /\ next_id \notin DOMAIN channels
        /\ \A s \in Sides : channels'[next_id].queue[s] = <<>>
        /\ sent' = sent /\ received' = received
    BY <1>1, ChannelIsId DEF SysCreateChannel, CreateChannel, ChannelNew, TypeOK, Ids
  <2>2. \A c \in DOMAIN channels : channels'[c] = channels[c]
    BY <1>1, <2>1 DEF SysCreateChannel, CreateChannel
  <2>3. FreshEmpty'
    BY <2>1 DEF FreshEmpty, TypeOK, Ids
  <2>4. \A c \in DOMAIN channels', s \in Sides : c = next_id => Good(c, s)'
    <3>1. \A s \in Sides : sent[next_id][s] = <<>> /\ received[next_id][s] = <<>>
      BY <2>1 DEF FreshEmpty, TypeOK
    <3>2. Matches(<<>>, <<>>, <<>>)
      BY DEF Matches
    <3> QED
      BY <2>1, <3>1, <3>2
  <2>5. \A c \in DOMAIN channels, s \in Sides : Good(c, s)'
    BY <1>0, <2>1, <2>2
  <2> QED
    BY <1>a, <2>1, <2>3, <2>4, <2>5
<1>2. ASSUME NEW c \in Ids, NEW data \in Payloads, NEW len \in 0..(MaxMessageLen + 1),
             SysSendMessage(c, data, len)
      PROVE  FreshEmpty' /\ NothingLost'
  <2>1. PICK s \in Sides, m \in Message :
              /\ c \in DOMAIN channels
              /\ QueueBecomes(c, s, Append(channels[c].queue[s], m))
              /\ HistoryBecomes(sent, sent', c, s, Append(sent[c][s], m))
              /\ UNCHANGED <<next_id, current, received>>
    BY <1>2, SendEffect
  <2>2. c < next_id
    BY <2>1, ChannelIsId
  <2>3. FreshEmpty'
    <3> SUFFICES ASSUME NEW d \in Ids, NEW t \in Sides, d >= next_id
                 PROVE  sent'[d][t] = <<>> /\ received'[d][t] = <<>>
      BY <2>1 DEF FreshEmpty
    <3>1. d # c
      BY <2>2 DEF TypeOK, Ids
    <3> QED
      BY <2>1, <3>1 DEF FreshEmpty, HistoryBecomes
  <2>4. Good(c, s)'
    <3>1. /\ channels[c].queue[s] \in Seq(Message)
          /\ sent[c][s] \in Seq(Message)
          /\ received[c][s] \in Seq(Delivery)
      BY <2>1, Zenon DEF TypeOK, Channel, Delivery
    <3>2. Matches(Append(channels[c].queue[s], m), Append(sent[c][s], m), received[c][s])
      BY <1>0, <2>1, <3>1, MatchesAppend
    <3> QED
      BY <2>1, <3>2 DEF QueueBecomes, HistoryBecomes
  <2>5. Good(c, Other(s))'
    <3>1. Good(c, Other(s))
      BY <1>0, <2>1, OtherSide
    <3> QED
      BY <2>1, <3>1 DEF QueueBecomes, HistoryBecomes
  <2>6. \A d \in DOMAIN channels', t \in Sides : d # c => Good(d, t)'
    BY <1>0, <2>1, ChannelIsId DEF QueueBecomes, HistoryBecomes
  <2>7. \A t \in Sides : t = s \/ t = Other(s)
    BY DEF Sides, Other
  <2> QED
    BY <1>a, <2>3, <2>4, <2>5, <2>6, <2>7
<1>3. ASSUME NEW c \in Ids, NEW size \in 0..(MaxMessageLen + 1), SysReceiveMessage(c, size)
      PROVE  FreshEmpty' /\ NothingLost'
  <2>0. size \in 0..MaxMessageLen
    BY <1>3, ReceiveEffect
  <2>1. PICK s \in Sides :
              /\ c \in DOMAIN channels
              /\ channels[c].queue[s] # <<>>
              /\ QueueBecomes(c, s, Tail(channels[c].queue[s]))
              /\ HistoryBecomes(received, received', c, s,
                    Append(received[c][s], Delivered(Head(channels[c].queue[s]), size)))
              /\ UNCHANGED <<next_id, current, sent, sends>>
    BY <1>3, ReceiveEffect
  <2>2. c < next_id
    BY <2>1, ChannelIsId
  <2>3. FreshEmpty'
    <3> SUFFICES ASSUME NEW d \in Ids, NEW t \in Sides, d >= next_id
                 PROVE  sent'[d][t] = <<>> /\ received'[d][t] = <<>>
      BY <2>1 DEF FreshEmpty
    <3>1. d # c
      BY <2>2 DEF TypeOK, Ids
    <3> QED
      BY <2>1, <3>1 DEF FreshEmpty, HistoryBecomes
  <2>4. Good(c, s)'
    <3>1. /\ channels[c].queue[s] \in Seq(Message)
          /\ sent[c][s] \in Seq(Message)
          /\ received[c][s] \in Seq(Delivery)
      BY <2>1, Zenon DEF TypeOK, Channel, Delivery
    <3>2. Matches(Tail(channels[c].queue[s]), sent[c][s],
                  Append(received[c][s], Delivered(Head(channels[c].queue[s]), size)))
      BY <1>0, <2>0, <2>1, <3>1, MatchesTail
    <3> QED
      BY <2>1, <3>2 DEF QueueBecomes, HistoryBecomes
  <2>5. Good(c, Other(s))'
    <3>1. Good(c, Other(s))
      BY <1>0, <2>1, OtherSide
    <3> QED
      BY <2>1, <3>1 DEF QueueBecomes, HistoryBecomes
  <2>6. \A d \in DOMAIN channels', t \in Sides : d # c => Good(d, t)'
    BY <1>0, <2>1, ChannelIsId DEF QueueBecomes, HistoryBecomes
  <2>7. \A t \in Sides : t = s \/ t = Other(s)
    BY DEF Sides, Other
  <2> QED
    BY <1>a, <2>3, <2>4, <2>5, <2>6, <2>7
<1>4. ASSUME NEW pid \in Pids, CleanupProcessChannels(pid)
      PROVE  FreshEmpty' /\ NothingLost'
  <2>1. /\ DOMAIN channels' \subseteq DOMAIN channels
        /\ \A c \in DOMAIN channels' : channels'[c] = channels[c]
        /\ UNCHANGED <<next_id, sent, received>>
    BY <1>4 DEF CleanupProcessChannels
  <2> QED
    BY <1>0, <1>a, <2>1 DEF FreshEmpty
<1>b. ASSUME UNCHANGED <<channels, next_id, sent, received>>
      PROVE  FreshEmpty' /\ NothingLost'
  BY <1>0, <1>a, <1>b DEF FreshEmpty
<1>5. CASE ContextSwitch
  BY <1>5, <1>b DEF ContextSwitch
<1>6. CASE UNCHANGED vars
  BY <1>6, <1>b DEF vars
<1> QED
  BY <1>1, <1>2, <1>3, <1>4, <1>5, <1>6 DEF Next

\* Nothing sent through an existing channel is lost, duplicated or reordered.
THEOREM DeliveryCorrect == Spec => []NothingLost
<1>1. Init => FreshEmpty /\ NothingLost
  BY DEF Init, FreshEmpty, NothingLost
<1> QED
  BY <1>1, TypeCorrect, DeliveryStep, PTL DEF Spec

-----------------------------------------------------------------------------
(* Endpoints *)

\* Every operation keeps SenderAuthentic.
LEMMA AuthenticStep == TypeOK /\ SenderAuthentic /\ [Next]_vars => SenderAuthentic'
<1> SUFFICES ASSUME TypeOK, SenderAuthentic, [Next]_vars PROVE SenderAuthentic'
  OBVIOUS
<1> DEFINE Authentic(q, pid) == \A i \in 1..Len(q) : q[i].sender_pid = pid
           Good(c, s) == Authentic(channels[c].queue[s], channels[c].endpoint[s])
<1>0. \A c \in DOMAIN channels, s \in Sides : Good(c, s)
  BY DEF SenderAuthentic
<1>a. (\A c \in DOMAIN channels', s \in Sides : Good(c, s)') => SenderAuthentic'
  BY DEF SenderAuthentic
<1>b. \A s \in Sides, t \in Sides : t = s \/ t = Other(s)
  BY DEF Sides, Other
<1>1. ASSUME NEW target \in 0..(MaxTargetPid + 1), SysCreateChannel(target)
      PROVE  SenderAuthentic'
  <2>1. /\ DOMAIN channels' = DOMAIN channels \cup {next_id}
        /\ next_id \notin DOMAIN channels
        /\ \A s \in Sides : channels'[next_id].queue[s] = <<>>
    BY <1>1, ChannelIsId DEF SysCreateChannel, CreateChannel, ChannelNew, TypeOK, Ids
  <2>2. \A c \in DOMAIN channels : channels'[c] = channels[c]
    BY <1>1, <2>1 DEF SysCreateChannel, CreateChannel
  <2>3. \A pid : Authentic(<<>>, pid)
    OBVIOUS
  <2> QED
    BY <1>0, <1>a, <2>1, <2>2, <2>3
<1>2. ASSUME NEW c \in Ids, NEW data \in Payloads, NEW len \in 0..(MaxMessageLen + 1),
             SysSendMessage(c, data, len)
      PROVE  SenderAuthentic'
  <2>1. PICK s \in Sides, m \in Message :
              /\ c \in DOMAIN channels
              /\ channels[c].endpoint[s] = current
              /\ m.sender_pid = current
              /\ QueueBecomes(c, s, Append(channels[c].queue[s], m))
    BY <1>2, SendEffect
  <2>2. channels[c].queue[s] \in Seq(Message)
    BY <2>1 DEF TypeOK, Channel
  <2>3. Authentic(Append(channels[c].queue[s], m), channels[c].endpoint[s])
    BY <1>0, <2>1, <2>2
  <2>4. Good(c, s)' /\ Good(c, Other(s))'
    BY <1>0, <2>1, <2>3, OtherSide DEF QueueBecomes
  <2>5. \A d \in DOMAIN channels', t \in Sides : d # c => Good(d, t)'
    BY <1>0, <2>1 DEF QueueBecomes
  <2> QED
    BY <1>a, <1>b, <2>4, <2>5
<1>3. ASSUME NEW c \in Ids, NEW size \in 0..(MaxMessageLen + 1), SysReceiveMessage(c, size)
      PROVE  SenderAuthentic'
  <2>1. PICK s \in Sides :
              /\ c \in DOMAIN channels
              /\ channels[c].queue[s] # <<>>
              /\ QueueBecomes(c, s, Tail(channels[c].queue[s]))
    BY <1>3, ReceiveEffect
  <2>2. channels[c].queue[s] \in Seq(Message)
    BY <2>1 DEF TypeOK, Channel
  <2>3. Authentic(Tail(channels[c].queue[s]), channels[c].endpoint[s])
    BY <1>0, <2>1, <2>2
  <2>4. Good(c, s)' /\ Good(c, Other(s))'
    BY <1>0, <2>1, <2>3, OtherSide DEF QueueBecomes
  <2>5. \A d \in DOMAIN channels', t \in Sides : d # c => Good(d, t)'
    BY <1>0, <2>1 DEF QueueBecomes
  <2> QED
    BY <1>a, <1>b, <2>4, <2>5
<1>4. ASSUME NEW pid \in Pids, CleanupProcessChannels(pid) PROVE SenderAuthentic'
  <2>1. /\ DOMAIN channels' \subseteq DOMAIN channels
        /\ \A c \in DOMAIN channels' : channels'[c] = channels[c]
    BY <1>4 DEF CleanupProcessChannels
  <2> QED
    BY <1>0, <1>a, <2>1
<1>5. CASE ContextSwitch
  BY <1>5 DEF ContextSwitch, SenderAuthentic
<1>6. CASE UNCHANGED vars
  BY <1>6 DEF vars, SenderAuthentic
<1> QED
  BY <1>1, <1>2, <1>3, <1>4, <1>5, <1>6 DEF Next

\* A queued message always names the endpoint that sent it.
THEOREM SendersAuthentic == Spec => []SenderAuthentic
<1>1. Init => SenderAuthentic
  BY DEF Init, SenderAuthentic
<1> QED
  BY <1>1, TypeCorrect, AuthenticStep, PTL DEF Spec

\* create_channel refuses a channel of a process with itself.
EndpointsDiffer ==
    \A c \in DOMAIN channels : channels[c].endpoint[1] # channels[c].endpoint[2]

\* No operation makes the two endpoints of a channel the same process.
LEMMA EndpointsStep == TypeOK /\ EndpointsDiffer /\ [Next]_vars => EndpointsDiffer'
<1> SUFFICES ASSUME TypeOK, EndpointsDiffer, [Next]_vars PROVE EndpointsDiffer'
  OBVIOUS
<1>1. ASSUME NEW target \in 0..(MaxTargetPid + 1), SysCreateChannel(target)
      PROVE  EndpointsDiffer'
  BY <1>1 DEF SysCreateChannel, CreateChannel, ChannelNew, EndpointsDiffer, Sides
<1>2. ASSUME NEW c \in Ids, NEW data \in Payloads, NEW len \in 0..(MaxMessageLen + 1),
             SysSendMessage(c, data, len)
      PROVE  EndpointsDiffer'
  <2>1. PICK s \in Sides, m \in Message :
              /\ c \in DOMAIN channels
              /\ QueueBecomes(c, s, Append(channels[c].queue[s], m))
    BY <1>2, SendEffect
  <2>2. /\ DOMAIN channels' = DOMAIN channels
        /\ \A d \in DOMAIN channels : channels'[d].endpoint = channels[d].endpoint
    BY <2>1, Zenon DEF QueueBecomes
  <2> QED
    BY <2>2 DEF EndpointsDiffer
<1>3. ASSUME NEW c \in Ids, NEW size \in 0..(MaxMessageLen + 1), SysReceiveMessage(c, size)
      PROVE  EndpointsDiffer'
  <2>1. PICK s \in Sides : /\ c \in DOMAIN channels
                          /\ QueueBecomes(c, s, Tail(channels[c].queue[s]))
    BY <1>3, ReceiveEffect
  <2>2. /\ DOMAIN channels' = DOMAIN channels
        /\ \A d \in DOMAIN channels : channels'[d].endpoint = channels[d].endpoint
    BY <2>1, Zenon DEF QueueBecomes
  <2> QED
    BY <2>2 DEF EndpointsDiffer
<1>4. ASSUME NEW pid \in Pids, CleanupProcessChannels(pid) PROVE EndpointsDiffer'
  BY <1>4 DEF CleanupProcessChannels, EndpointsDiffer
<1>5. CASE ContextSwitch
  BY <1>5 DEF ContextSwitch, EndpointsDiffer
<1>6. CASE UNCHANGED vars
  BY <1>6 DEF vars, EndpointsDiffer
<1> QED
  BY <1>1, <1>2, <1>3, <1>4, <1>5, <1>6 DEF Next

\* Every queue with a message in it has a process whose receive pops from it.
THEOREM ReadersExist == Spec => []MessagesHaveReader
<1>1. Init => EndpointsDiffer
  BY DEF Init, EndpointsDiffer
<1>2. TypeOK /\ EndpointsDiffer => MessagesHaveReader
  <2> SUFFICES ASSUME TypeOK, EndpointsDiffer, NEW c \in DOMAIN channels, NEW s \in Sides
               PROVE  \E pid \in Pids : /\ HasEndpoint(channels[c], pid)
                                        /\ Other(Side(channels[c], pid)) = s
    BY DEF MessagesHaveReader
  <2>1. channels[c].endpoint[Other(s)] \in Pids
    BY OtherSide DEF TypeOK, Channel
  <2>2. HasEndpoint(channels[c], channels[c].endpoint[Other(s)])
    BY OtherSide DEF HasEndpoint
  <2>3. Side(channels[c], channels[c].endpoint[Other(s)]) = Other(s)
    BY DEF Side, Other, Sides, EndpointsDiffer
  <2> QED
    BY <2>1, <2>2, <2>3, OtherSide
<1> QED
  BY <1>1, <1>2, TypeCorrect, EndpointsStep, PTL DEF Spec

-----------------------------------------------------------------------------
(* Refinement *)

\* The empty registry is the initial state of the log.
LEMMA LogInit == Init => Log!Init
<1> SUFFICES ASSUME Init PROVE Log!Init
  OBVIOUS
<1>1. 1..(next_id - 1) = {} /\ DOMAIN channels = {}
  BY DEF Init
<1> QED
  BY <1>1 DEF Init, Log!Init, Sides, Log!Sides

\* Every step of the registry is a step of the log, or changes nothing of it.
LEMMA LogStep ==
    TypeOK /\ NothingLost /\ [Next]_vars => [Log!Next]_Log!logVars
<1> SUFFICES ASSUME TypeOK, NothingLost, [Next]_vars PROVE [Log!Next]_Log!logVars
  OBVIOUS
<1> DEFINE opened == 1..(next_id - 1)
           closed == opened \ DOMAIN channels
<1>0. opened \ closed = DOMAIN channels
  BY Zenon DEF TypeOK
<1>1. ASSUME NEW target \in 0..(MaxTargetPid + 1), SysCreateChannel(target)
      PROVE  Log!Open(next_id)
  <2>1. /\ next_id \in Nat /\ next_id' = next_id + 1
        /\ DOMAIN channels' = DOMAIN channels \cup {next_id}
        /\ UNCHANGED <<sent, received>>
    BY <1>1 DEF SysCreateChannel, CreateChannel, TypeOK
  <2>2. next_id \notin opened /\ opened' = opened \cup {next_id}
    BY <2>1 DEF TypeOK
  <2>3. closed' = closed
    BY <2>1, <2>2
  <2> QED
    BY <2>1, <2>2, <2>3 DEF Log!Open
<1>2. ASSUME NEW c \in Ids, NEW data \in Payloads, NEW len \in 0..(MaxMessageLen + 1),
             SysSendMessage(c, data, len)
      PROVE  \E s \in Sides, m \in Message : Log!Send(c, s, m)
  <2>1. PICK s \in Sides, m \in Message :
              /\ c \in DOMAIN channels
              /\ Len(channels[c].queue[s]) < MaxQueueSize
              /\ QueueBecomes(c, s, Append(channels[c].queue[s], m))
              /\ sent' = [sent EXCEPT ![c][s] = Append(@, m)]
              /\ UNCHANGED <<next_id, current, received>>
    BY <1>2, SendEffect
  <2>2. Len(sent[c][s]) - Len(received[c][s]) = Len(channels[c].queue[s])
    <3>1. Len(sent[c][s]) = Len(received[c][s]) + Len(channels[c].queue[s])
      BY <2>1, Zenon DEF NothingLost
    <3>2. Len(received[c][s]) \in Nat /\ Len(channels[c].queue[s]) \in Nat
      BY <2>1 DEF TypeOK, Channel
    <3> QED
      BY <3>1, <3>2
  <2>3. opened' = opened /\ closed' = closed
    BY <2>1 DEF QueueBecomes
  <2> QED
    BY <1>0, <2>1, <2>2, <2>3, Zenon DEF Log!Send
<1>3. ASSUME NEW c \in Ids, NEW size \in 0..(MaxMessageLen + 1), SysReceiveMessage(c, size)
      PROVE  /\ size \in 0..MaxMessageLen
             /\ \E s \in Sides : Log!Receive(c, s, size)
  <2>0. size \in 0..MaxMessageLen
    BY <1>3, ReceiveEffect
  <2>1. PICK s \in Sides :
              /\ c \in DOMAIN channels
              /\ channels[c].queue[s] # <<>>
              /\ QueueBecomes(c, s, Tail(channels[c].queue[s]))
              /\ received' = [received EXCEPT ![c][s] =
                    Append(@, Delivered(Head(channels[c].queue[s]), size))]
              /\ UNCHANGED <<next_id, current, sent, sends>>
    BY <1>3, ReceiveEffect
  <2> DEFINE q == channels[c].queue[s]
             n == Len(received[c][s])
  <2>2. /\ Len(sent[c][s]) = n + Len(q)
        /\ \A i \in 1..Len(q) : q[i] = sent[c][s][n + i]
    BY <2>1, Zenon DEF NothingLost
  <2>3. q \in Seq(Message) /\ q # <<>> /\ n \in Nat
    BY <2>1 DEF TypeOK, Channel
  <2>4. n < Len(sent[c][s]) /\ Head(q) = sent[c][s][n + 1]
    <3> HIDE DEF q, n
    <3>1. Len(q) \in Nat /\ Len(q) > 0 /\ Head(q) = q[1]
      BY <2>3
    <3> QED
      BY <2>2, <2>3, <3>1
  <2>5. opened' = opened /\ closed' = closed
    BY <2>1 DEF QueueBecomes
  <2>6. Delivered(Head(q), size) = Log!Delivered(sent[c][s][n + 1], size)
    BY <2>4, Zenon DEF Delivered, Log!Delivered
  <2>7. received' = [received EXCEPT ![c][s] =
                       Append(@, Log!Delivered(sent[c][s][Len(@) + 1], size))]
    BY <2>1, <2>6, Zenon
  <2> QED
    BY <1>0, <2>0, <2>1, <2>4, <2>5, <2>7, Zenon DEF Log!Receive
<1>4. ASSUME NEW pid \in Pids, CleanupProcessChannels(pid)
      PROVE  \E cs \in SUBSET Ids : Log!Close(cs)
  <2> DEFINE cs == DOMAIN channels \ DOMAIN channels'
  <2>1. /\ DOMAIN channels' \subseteq DOMAIN channels
        /\ UNCHANGED <<next_id, sent, received>>
    BY <1>4 DEF CleanupProcessChannels
  <2>2. cs \in SUBSET Ids
    BY ChannelIsId
  <2>3. cs \subseteq opened \ closed
    BY <1>0
  <2>4. opened' = opened /\ closed' = closed \cup cs
    BY <1>0, <2>1
  <2>5. Log!Close(cs)
    BY <2>1, <2>3, <2>4 DEF Log!Close
  <2> QED
    BY <2>2, <2>5
<1>5. CASE ContextSwitch
  BY <1>5 DEF ContextSwitch, Log!logVars
<1>6. CASE UNCHANGED vars
  BY <1>6 DEF vars, Log!logVars
<1>7. \A target \in 0..(MaxTargetPid + 1) : SysCreateChannel(target) => next_id \in Ids
  BY DEF SysCreateChannel, CreateChannel
<1> QED
  BY <1>1, <1>2, <1>3, <1>4, <1>5, <1>6, <1>7 DEF Next, Log!Next, Sides, Log!Sides

\* The channel registry implements the message log.
THEOREM ChannelsImplementLog == Spec => ImplementsLog
  BY LogInit, LogStep, TypeCorrect, DeliveryCorrect, PTL DEF Spec, ImplementsLog, Log!Spec

-----------------------------------------------------------------------------
(* The memory handles *)

\* The range check and the bound on user space, as facts about one request:
\* the pointer check and is_valid together admit single pages only.
LEMMA AdmittedIsOnePage ==
    ASSUME NEW start \in Nat, NEW size \in Nat,
           ValidateUserPointer(start, size), IsValidRange(start, size)
    PROVE  /\ size = PageSize
           /\ start % PageSize = 0
           /\ UserMin <= start
           /\ start + size <= UserMax
  BY HandlesAssumption DEF ValidateUserPointer, IsValidRange, PageSize

-----------------------------------------------------------------------------
(* Types *)

\* The empty registry is well-typed.
LEMMA HandlesTypeInit == HandlesInit => HandlesTypeOK
  BY HandlesAssumption DEF HandlesInit, HandlesTypeOK, Pids

\* Every operation of the registry preserves the type invariant.
LEMMA HandlesTypeStep == HandlesTypeOK /\ [HandlesNext]_handle_vars => HandlesTypeOK'
<1> SUFFICES ASSUME HandlesTypeOK, [HandlesNext]_handle_vars PROVE HandlesTypeOK'
  OBVIOUS
<1> USE HandlesAssumption DEF HandlesTypeOK, HandleIds, Pids
<1>1. ASSUME NEW start \in 0..(UserMax + 1), NEW size \in 0..(2 * PageSize),
             NEW rights \in AccessRights, NEW mode \in TransferModes,
             SysCreateMemoryHandle(start, size, rights, mode)
      PROVE  HandlesTypeOK'
  <2>1. MemoryHandleNew(current, start, size, rights, mode) \in MemoryHandle
    BY <1>1 DEF MemoryHandleNew, MemoryHandle, PageSize
  <2> QED
    BY <1>1, <2>1 DEF SysCreateMemoryHandle, CreateMemoryHandle
<1>2. ASSUME NEW h \in HandleIds, NEW target \in 0..(MaxTargetPid + 1),
             SysTransferMemory(h, target)
      PROVE  HandlesTypeOK'
  <2>0. h \in DOMAIN handles /\ handles[h] \in MemoryHandle /\ target \in Pids
    BY <1>2 DEF SysTransferMemory, TransferMemory
  <2>1. [handles[h] EXCEPT !.holder_pid = target] \in MemoryHandle
    BY <2>0, Zenon DEF MemoryHandle
  <2>2. handles' = [handles EXCEPT ![h] = [handles[h] EXCEPT !.holder_pid = target]]
    BY <1>2 DEF SysTransferMemory, TransferMemory
  <2>3. \A g \in DOMAIN handles' : handles'[g] \in MemoryHandle
    BY <2>0, <2>1, <2>2
  <2>4. granted' \in [HandleIds -> SUBSET Pids]
    BY <1>2, <2>0 DEF SysTransferMemory, TransferMemory
  <2>5. DOMAIN handles' = DOMAIN handles
    BY <2>2
  <2> QED
    BY <1>2, <2>3, <2>4, <2>5, Zenon DEF SysTransferMemory, TransferMemory
<1>3. ASSUME NEW h \in HandleIds, SysReceiveMemoryHandle(h) PROVE HandlesTypeOK'
  <2>1. [handles[h] EXCEPT !.is_mapped = TRUE] \in MemoryHandle
    BY <1>3, Zenon DEF SysReceiveMemoryHandle, ReceiveMemoryHandle, MemoryHandle
  <2> QED
    BY <1>3, <2>1 DEF SysReceiveMemoryHandle, ReceiveMemoryHandle
<1>4. ASSUME NEW h \in HandleIds, RevokeMemoryHandle(h) PROVE HandlesTypeOK'
  <2>1. [Revoke(handles[h]) EXCEPT !.is_mapped = FALSE] \in MemoryHandle
    BY <1>4, Zenon DEF RevokeMemoryHandle, Revoke, MemoryHandle
  <2> QED
    BY <1>4, <2>1 DEF RevokeMemoryHandle
<1>5. ASSUME NEW h \in HandleIds, RevokeHandle(h) PROVE HandlesTypeOK'
  <2>1. Revoke(handles[h]) \in MemoryHandle
    BY <1>5, Zenon DEF RevokeHandle, Revoke, MemoryHandle
  <2> QED
    BY <1>5, <2>1 DEF RevokeHandle
<1>6. ASSUME NEW pid \in Pids, CleanupProcessHandles(pid) PROVE HandlesTypeOK'
  BY <1>6 DEF CleanupProcessHandles
<1>7. CASE HandlesContextSwitch
  BY <1>7 DEF HandlesContextSwitch
<1>8. CASE UNCHANGED handle_vars
  BY <1>8 DEF handle_vars
<1> QED
  BY <1>1, <1>2, <1>3, <1>4, <1>5, <1>6, <1>7, <1>8 DEF HandlesNext

\* Type correctness of the handle registry.
THEOREM HandlesTypeCorrect == HandlesSpec => []HandlesTypeOK
  BY HandlesTypeInit, HandlesTypeStep, PTL DEF HandlesSpec

-----------------------------------------------------------------------------
(* Shape and grants *)

\* Nothing was installed or granted under an id not handed out yet, and the
\* holder of a handle has been granted it.
GrantInv ==
    /\ \A h \in HandleIds : h >= next_handle_id => installed[h] = {}
    /\ \A h \in DOMAIN handles : handles[h].holder_pid \in granted[h]
    /\ InstalledWereGranted

\* Every operation keeps owner, holder and installed processes among the granted.
LEMMA GrantStep == HandlesTypeOK /\ GrantInv /\ [HandlesNext]_handle_vars => GrantInv'
<1> SUFFICES ASSUME HandlesTypeOK, GrantInv, [HandlesNext]_handle_vars PROVE GrantInv'
  OBVIOUS
<1> USE HandlesAssumption DEF HandlesTypeOK, GrantInv, InstalledWereGranted, HandleIds, Pids
<1>1. ASSUME NEW start \in 0..(UserMax + 1), NEW size \in 0..(2 * PageSize),
             NEW rights \in AccessRights, NEW mode \in TransferModes,
             SysCreateMemoryHandle(start, size, rights, mode)
      PROVE  GrantInv'
  <2>1. PICK id \in HandleIds :
          /\ id = next_handle_id /\ DOMAIN handles' = DOMAIN handles \cup {id}
          /\ handles'[id] = MemoryHandleNew(current, start, size, rights, mode)
          /\ \A h \in DOMAIN handles : h # id => handles'[h] = handles[h]
          /\ granted' = [granted EXCEPT ![id] = {current}] /\ installed' = installed
          /\ next_handle_id' = id + 1
    BY <1>1, Zenon DEF SysCreateMemoryHandle, CreateMemoryHandle
  <2>2. id \notin DOMAIN handles
    BY <2>1
  <2>3. handles'[id].holder_pid = current
    BY <2>1 DEF MemoryHandleNew
  <2>4. granted'[id] = {current} /\ \A h \in HandleIds : h # id => granted'[h] = granted[h]
    BY <2>1
  <2>5. installed[id] = {} /\ \A h \in HandleIds : h >= id + 1 => installed[h] = {}
    BY <2>1
  <2>6. \A h \in DOMAIN handles' : handles'[h].holder_pid \in granted'[h]
    <3>1. DOMAIN handles \subseteq HandleIds
      OBVIOUS
    <3> QED
      BY <2>1, <2>2, <2>3, <2>4, <3>1, Zenon
  <2>7. \A h \in HandleIds : installed'[h] \subseteq granted'[h]
    BY <2>1, <2>4, <2>5, Zenon
  <2> QED
    BY <2>1, <2>5, <2>6, <2>7, Zenon
<1>2. ASSUME NEW h \in HandleIds, NEW target \in 0..(MaxTargetPid + 1),
             SysTransferMemory(h, target)
      PROVE  GrantInv'
  <2>1. /\ DOMAIN handles' = DOMAIN handles
        /\ h \in DOMAIN handles
        /\ handles'[h].holder_pid = target
        /\ \A g \in DOMAIN handles : g # h => handles'[g] = handles[g]
    BY <1>2 DEF SysTransferMemory, TransferMemory, MemoryHandle
  <2>2. /\ granted'[h] = granted[h] \cup {target}
        /\ \A g \in HandleIds : g # h => granted'[g] = granted[g]
        /\ installed' = installed /\ next_handle_id' = next_handle_id
    BY <1>2 DEF SysTransferMemory, TransferMemory
  <2>3. \A g \in DOMAIN handles' : handles'[g].holder_pid \in granted'[g]
    <3>1. DOMAIN handles \subseteq HandleIds
      OBVIOUS
    <3> QED
      BY <2>1, <2>2, <3>1
  <2>4. \A g \in HandleIds : installed'[g] \subseteq granted'[g]
    BY <2>2
  <2> QED
    BY <2>2, <2>3, <2>4
<1>3. ASSUME NEW h \in HandleIds, SysReceiveMemoryHandle(h) PROVE GrantInv'
  <2>1. /\ DOMAIN handles' = DOMAIN handles
        /\ h \in DOMAIN handles
        /\ handles[h].holder_pid = current
        /\ \A g \in DOMAIN handles : handles'[g].holder_pid = handles[g].holder_pid
    BY <1>3 DEF SysReceiveMemoryHandle, ReceiveMemoryHandle, MemoryHandle
  <2>2. /\ installed'[h] = installed[h] \cup {current}
        /\ \A g \in HandleIds : g # h => installed'[g] = installed[g]
        /\ granted' = granted /\ next_handle_id' = next_handle_id
    BY <1>3 DEF SysReceiveMemoryHandle, ReceiveMemoryHandle
  <2>3. \A g \in HandleIds : installed'[g] \subseteq granted'[g]
    BY <2>1, <2>2
  <2>4. h < next_handle_id
    BY <2>1
  <2>5. \A g \in HandleIds : g >= next_handle_id' => installed'[g] = {}
    BY <2>2, <2>4
  <2>6. \A g \in DOMAIN handles' : handles'[g].holder_pid \in granted'[g]
    BY <2>1, <2>2
  <2> QED
    BY <2>3, <2>5, <2>6
<1>4. ASSUME NEW h \in HandleIds, RevokeMemoryHandle(h) PROVE GrantInv'
  <2>1. /\ DOMAIN handles' = DOMAIN handles
        /\ \A g \in DOMAIN handles : handles'[g].holder_pid = handles[g].holder_pid
    BY <1>4 DEF RevokeMemoryHandle, Revoke, MemoryHandle
  <2>2. /\ \A g \in HandleIds : installed'[g] \subseteq installed[g]
        /\ granted' = granted /\ next_handle_id' = next_handle_id
    BY <1>4 DEF RevokeMemoryHandle
  <2> QED
    BY <2>1, <2>2
<1>5. ASSUME NEW h \in HandleIds, RevokeHandle(h) PROVE GrantInv'
  BY <1>5, Zenon DEF RevokeHandle, Revoke, MemoryHandle
<1>6. ASSUME NEW pid \in Pids, CleanupProcessHandles(pid) PROVE GrantInv'
  BY <1>6 DEF CleanupProcessHandles
<1>7. CASE HandlesContextSwitch
  BY <1>7 DEF HandlesContextSwitch
<1>8. CASE UNCHANGED handle_vars
  BY <1>8 DEF handle_vars
<1> QED
  BY <1>1, <1>2, <1>3, <1>4, <1>5, <1>6, <1>7, <1>8, Zenon DEF HandlesNext

\* Whatever the sequence of transfers, receipts, revocations, clean-ups and
\* switches, pages are installed only where the owner granted the handle.
THEOREM GrantsRespected == HandlesSpec => []InstalledWereGranted
<1>1. HandlesInit => GrantInv
  BY DEF HandlesInit, GrantInv, InstalledWereGranted
<1>2. GrantInv => InstalledWereGranted
  BY DEF GrantInv
<1> QED
  BY <1>1, <1>2, HandlesTypeCorrect, GrantStep, PTL DEF HandlesSpec

\* Start and size of a handle are fixed when it is created.
LEMMA OnePageStep == HandlesTypeOK /\ OnePage /\ [HandlesNext]_handle_vars => OnePage'
<1> SUFFICES ASSUME HandlesTypeOK, OnePage, [HandlesNext]_handle_vars PROVE OnePage'
  OBVIOUS
<1> DEFINE SameRange ==
      /\ DOMAIN handles' \subseteq DOMAIN handles
      /\ \A h \in DOMAIN handles' : /\ handles'[h].start_addr = handles[h].start_addr
                                    /\ handles'[h].size = handles[h].size
<1>1. ASSUME NEW start \in 0..(UserMax + 1), NEW size \in 0..(2 * PageSize),
             NEW rights \in AccessRights, NEW mode \in TransferModes,
             SysCreateMemoryHandle(start, size, rights, mode)
      PROVE  OnePage'
  <2>1. start \in Nat /\ size \in Nat
    BY HandlesAssumption DEF PageSize
  <2>2. /\ size = PageSize
        /\ start % PageSize = 0
        /\ UserMin <= start
        /\ start + size <= UserMax
    BY <1>1, <2>1, AdmittedIsOnePage DEF SysCreateMemoryHandle, CreateMemoryHandle
  <2>3. DOMAIN handles' = DOMAIN handles \cup {next_handle_id}
    BY <1>1 DEF SysCreateMemoryHandle, CreateMemoryHandle
  <2>4. /\ handles'[next_handle_id].start_addr = start
        /\ handles'[next_handle_id].size = size
    BY <1>1 DEF SysCreateMemoryHandle, CreateMemoryHandle, MemoryHandleNew
  <2>5. \A h \in DOMAIN handles : h # next_handle_id => handles'[h] = handles[h]
    BY <1>1 DEF SysCreateMemoryHandle, CreateMemoryHandle
  <2>6. ASSUME NEW h \in DOMAIN handles' PROVE OnePage!(h)'
    <3>1. CASE h = next_handle_id
      BY <2>2, <2>4, <3>1 DEF PageCount, PageSize
    <3>2. CASE h # next_handle_id
      BY <2>3, <2>5, <3>2 DEF OnePage, PageCount
    <3> QED
      BY <3>1, <3>2
  <2> QED
    BY <2>6 DEF OnePage
<1>2. SameRange => OnePage'
  BY DEF OnePage, PageCount
<1>3. ASSUME NEW h \in HandleIds, NEW target \in 0..(MaxTargetPid + 1),
             SysTransferMemory(h, target)
      PROVE  SameRange
  BY <1>3 DEF SysTransferMemory, TransferMemory, HandlesTypeOK, MemoryHandle
<1>4. ASSUME NEW h \in HandleIds, SysReceiveMemoryHandle(h) PROVE SameRange
  BY <1>4 DEF SysReceiveMemoryHandle, ReceiveMemoryHandle, HandlesTypeOK, MemoryHandle
<1>5. ASSUME NEW h \in HandleIds, RevokeMemoryHandle(h) PROVE SameRange
  BY <1>5 DEF RevokeMemoryHandle, Revoke, HandlesTypeOK, MemoryHandle
<1>6. ASSUME NEW h \in HandleIds, RevokeHandle(h) PROVE SameRange
  BY <1>6 DEF RevokeHandle, Revoke, HandlesTypeOK, MemoryHandle
<1>7. ASSUME NEW pid \in Pids, CleanupProcessHandles(pid) PROVE SameRange
  BY <1>7 DEF CleanupProcessHandles
<1>8. CASE HandlesContextSwitch
  BY <1>8 DEF HandlesContextSwitch, OnePage, PageCount
<1>9. CASE UNCHANGED handle_vars
  BY <1>9 DEF handle_vars, OnePage, PageCount
<1> QED
  BY <1>1, <1>2, <1>3, <1>4, <1>5, <1>6, <1>7, <1>8, <1>9, Zenon DEF HandlesNext

\* Every handle covers exactly one aligned page of user space.
THEOREM HandlesCoverOnePage == HandlesSpec => []OnePage
<1>1. HandlesInit => OnePage
  BY DEF HandlesInit, OnePage
<1> QED
  BY <1>1, HandlesTypeCorrect, OnePageStep, PTL DEF HandlesSpec

-----------------------------------------------------------------------------
(* Revocation *)

\* A revoked handle carries no right.
InactiveInv == \A h \in DOMAIN handles : ~handles[h].active => handles[h].rights = "None"

\* What one step may do to a revoked handle.
FinalStep ==
    \A h \in DOMAIN handles \cap DOMAIN handles' :
        ~handles[h].active =>
            /\ ~handles'[h].active
            /\ handles'[h].rights = "None"
            /\ handles'[h].holder_pid = handles[h].holder_pid
            /\ handles'[h].is_mapped => handles[h].is_mapped
            /\ installed'[h] \subseteq installed[h]

\* A step changes an inactive handle only by discarding it, and inactive handles
\* keep no rights.
LEMMA RevocationStep ==
    HandlesTypeOK /\ InactiveInv /\ [HandlesNext]_handle_vars => FinalStep /\ InactiveInv'
<1> SUFFICES ASSUME HandlesTypeOK, InactiveInv, [HandlesNext]_handle_vars PROVE FinalStep /\ InactiveInv'
  OBVIOUS
<1> USE HandlesAssumption DEF InactiveInv, FinalStep
<1>1. ASSUME NEW start \in 0..(UserMax + 1), NEW size \in 0..(2 * PageSize),
             NEW rights \in AccessRights, NEW mode \in TransferModes,
             SysCreateMemoryHandle(start, size, rights, mode)
      PROVE  FinalStep /\ InactiveInv'
  <2>1. next_handle_id \notin DOMAIN handles
    BY DEF HandlesTypeOK
  <2>2. DOMAIN handles' = DOMAIN handles \cup {next_handle_id}
    BY <1>1 DEF SysCreateMemoryHandle, CreateMemoryHandle
  <2>3. handles'[next_handle_id].active
    BY <1>1 DEF SysCreateMemoryHandle, CreateMemoryHandle, MemoryHandleNew
  <2>4. \A h \in DOMAIN handles : handles'[h] = handles[h]
    BY <1>1, <2>1 DEF SysCreateMemoryHandle, CreateMemoryHandle
  <2>5. installed' = installed
    BY <1>1 DEF SysCreateMemoryHandle, CreateMemoryHandle
  <2> QED
    BY <2>2, <2>3, <2>4, <2>5
<1>2. ASSUME NEW g \in HandleIds, NEW target \in 0..(MaxTargetPid + 1),
             SysTransferMemory(g, target)
      PROVE  FinalStep /\ InactiveInv'
  BY <1>2 DEF SysTransferMemory, TransferMemory, Validate, HandlesTypeOK, MemoryHandle
<1>3. ASSUME NEW g \in HandleIds, SysReceiveMemoryHandle(g)
      PROVE  FinalStep /\ InactiveInv'
  BY <1>3 DEF SysReceiveMemoryHandle, ReceiveMemoryHandle, Validate, HandlesTypeOK, MemoryHandle
<1>4. ASSUME NEW g \in HandleIds, RevokeMemoryHandle(g)
      PROVE  FinalStep /\ InactiveInv'
  BY <1>4 DEF RevokeMemoryHandle, Revoke, HandlesTypeOK, MemoryHandle
<1>5. ASSUME NEW g \in HandleIds, RevokeHandle(g)
      PROVE  FinalStep /\ InactiveInv'
  BY <1>5 DEF RevokeHandle, Revoke, HandlesTypeOK, MemoryHandle
<1>6. ASSUME NEW pid \in Pids, CleanupProcessHandles(pid)
      PROVE  FinalStep /\ InactiveInv'
  BY <1>6 DEF CleanupProcessHandles
<1>7. CASE HandlesContextSwitch
  BY <1>7 DEF HandlesContextSwitch
<1>8. CASE UNCHANGED handle_vars
  BY <1>8 DEF handle_vars
<1> QED
  BY <1>1, <1>2, <1>3, <1>4, <1>5, <1>6, <1>7, <1>8, Zenon DEF HandlesNext

\* No operation brings a revoked handle back.
THEOREM RevocationHolds == HandlesSpec => RevocationIsFinal
<1>1. HandlesInit => InactiveInv
  BY DEF HandlesInit, InactiveInv
<1>2. HandlesTypeOK /\ InactiveInv /\ [HandlesNext]_handle_vars => [FinalStep]_handle_vars
  BY RevocationStep
<1>3. HandlesSpec => [][FinalStep]_handle_vars
  BY <1>1, <1>2, HandlesTypeCorrect, RevocationStep, PTL DEF HandlesSpec
<1> QED
  BY <1>3 DEF RevocationIsFinal, FinalStep

\* A handle that was never received since its creation has nothing installed.
RevokeInv ==
    /\ RevokedFromHolder
    /\ \A h \in DOMAIN handles :
          handles[h].active /\ ~handles[h].is_mapped => installed[h] = {}

\* Every operation keeps RevokeInv.
LEMMA RevokeInvStep ==
    HandlesTypeOK /\ GrantInv /\ RevokeInv /\ [HandlesNext]_handle_vars => RevokeInv'
<1> SUFFICES ASSUME HandlesTypeOK, GrantInv, RevokeInv, [HandlesNext]_handle_vars PROVE RevokeInv'
  OBVIOUS
<1> USE HandlesAssumption DEF RevokeInv, RevokedFromHolder
<1>1. ASSUME NEW start \in 0..(UserMax + 1), NEW size \in 0..(2 * PageSize),
             NEW rights \in AccessRights, NEW mode \in TransferModes,
             SysCreateMemoryHandle(start, size, rights, mode)
      PROVE  RevokeInv'
  <2>1. next_handle_id \notin DOMAIN handles /\ installed[next_handle_id] = {}
    BY <1>1 DEF HandlesTypeOK, GrantInv, SysCreateMemoryHandle, CreateMemoryHandle
  <2>2. DOMAIN handles' = DOMAIN handles \cup {next_handle_id}
    BY <1>1 DEF SysCreateMemoryHandle, CreateMemoryHandle
  <2>3. handles'[next_handle_id].active
    BY <1>1, Zenon DEF SysCreateMemoryHandle, CreateMemoryHandle, MemoryHandleNew
  <2>4. \A h \in DOMAIN handles : handles'[h] = handles[h]
    BY <1>1, <2>1, Zenon DEF SysCreateMemoryHandle, CreateMemoryHandle
  <2>5. installed' = installed
    BY <1>1 DEF SysCreateMemoryHandle, CreateMemoryHandle
  <2> QED
    BY <2>1, <2>2, <2>3, <2>4, <2>5
<1>2. ASSUME NEW g \in HandleIds, NEW target \in 0..(MaxTargetPid + 1),
             SysTransferMemory(g, target)
      PROVE  RevokeInv'
  BY <1>2 DEF SysTransferMemory, TransferMemory, Validate, HandlesTypeOK, MemoryHandle
<1>3. ASSUME NEW g \in HandleIds, SysReceiveMemoryHandle(g) PROVE RevokeInv'
  BY <1>3 DEF SysReceiveMemoryHandle, ReceiveMemoryHandle, Validate, HandlesTypeOK, MemoryHandle
<1>4. ASSUME NEW g \in HandleIds, RevokeMemoryHandle(g) PROVE RevokeInv'
  BY <1>4 DEF RevokeMemoryHandle, Revoke, HandlesTypeOK, MemoryHandle
<1>5. ASSUME NEW pid \in Pids, CleanupProcessHandles(pid) PROVE RevokeInv'
  BY <1>5 DEF CleanupProcessHandles
<1>6. CASE HandlesContextSwitch
  BY <1>6 DEF HandlesContextSwitch
<1>7. ASSUME NEW g \in HandleIds, RevokeHandle(g) PROVE RevokeInv'
  BY <1>7 DEF RevokeHandle, Revoke, HandlesTypeOK, MemoryHandle
<1>8. CASE UNCHANGED handle_vars
  BY <1>8 DEF handle_vars
<1> QED
  BY <1>1, <1>2, <1>3, <1>4, <1>5, <1>6, <1>7, <1>8, Zenon DEF HandlesNext

\* Revocation through revoke_memory_handle takes the pages from whoever holds the
\* handle, however it was transferred and received before.
THEOREM RevokeReachesHolder == HandlesSpec => []RevokedFromHolder
<1>1. HandlesInit => HandlesTypeOK /\ GrantInv /\ RevokeInv
  BY HandlesTypeInit DEF HandlesInit, GrantInv, InstalledWereGranted, RevokeInv, RevokedFromHolder
<1>2. RevokeInv => RevokedFromHolder
  BY DEF RevokeInv
<1> QED
  BY <1>1, <1>2, HandlesTypeStep, GrantStep, RevokeInvStep, PTL DEF HandlesSpec
=============================================================================
