-------------------------- MODULE MqttClient_proofs --------------------------
EXTENDS MqttClient, TLAPS

USE DEF calls, given, Requests, Responses

(* What the types of a packet say of its id. *)
LEMMA PacketFacts ==
    /\ \A p \in UpPackets :
         /\ p.type \in {"PUBLISH", "PUBREL", "SUBSCRIBE", "UNSUBSCRIBE"} => p.of \in Messages
         /\ p.type \in {"PUBACK", "PUBREC", "PUBCOMP"} => p.of \in Incoming
    /\ \A p \in DownPackets :
         /\ p.type \in {"PUBACK", "PUBREC", "PUBCOMP", "SUBACK", "UNSUBACK"} => p.of \in Messages
         /\ p.type \in {"PUBLISH", "PUBREL"} => p.of \in Incoming
  BY DEF UpPackets, DownPackets

(* The client sends such packets for its messages... *)
LEMMA UpFromMessage ==
    ASSUME NEW m \in Messages, NEW t \in {"PUBLISH", "PUBREL", "SUBSCRIBE", "UNSUBSCRIBE"}
    PROVE  Packet(t, m) \in UpPackets
  BY DEF Packet, UpPackets

(* ...and such in answer to those of the broker, *)
LEMMA UpFromIncoming ==
    ASSUME NEW b \in Incoming, NEW t \in {"PUBACK", "PUBREC", "PUBCOMP"}
    PROVE  Packet(t, b) \in UpPackets
  BY DEF Packet, UpPackets

(* whose answers *)
LEMMA DownFromMessage ==
    ASSUME NEW m \in Messages, NEW t \in {"PUBACK", "PUBREC", "PUBCOMP", "SUBACK", "UNSUBACK"}
    PROVE  Packet(t, m) \in DownPackets
  BY DEF Packet, DownPackets

(* and publications are packets too, *)
LEMMA DownFromIncoming ==
    ASSUME NEW b \in Incoming, NEW t \in {"PUBLISH", "PUBREL"}
    PROVE  Packet(t, b) \in DownPackets
  BY DEF Packet, DownPackets

(* and the pings. *)
LEMMA UpPing == Packet("PINGREQ", 0) \in UpPackets /\ Packet("PINGRESP", 0) \in DownPackets
  BY DEF Packet, UpPackets, DownPackets

(* What the outbox holds of a message can be sent. *)
LEMMA OutgoingType ==
    ASSUME NEW m \in Messages
    PROVE  Outgoing(m) \in UpPackets
  BY UpFromMessage DEF Outgoing

(* Marking an item keeps the types of the outbox. *)
LEMMA SetPendingType ==
    ASSUME NEW P, NEW items \in [Messages -> P], NEW ids, NEW i, NEW p \in P
    PROVE  SetPending(items, ids, i, p) \in [Messages -> P]
  BY DEF SetPending

(* The task, its flags and the calls in progress. *)
LEMMA TaskStep == TaskTypes /\ [Next]_vars => TaskTypes'
  <1> SUFFICES ASSUME TaskTypes, [Next]_vars PROVE TaskTypes'
    OBVIOUS
  <1> USE DEF TaskTypes, client
  <1>1. CASE UNCHANGED vars
    BY <1>1 DEF vars
  <1>2. ASSUME NEW s, PublishLater(s) \/ PublishNow(s) \/ PublishFails(s) \/ Enqueue(s)
        PROVE  TaskTypes'
    BY <1>2 DEF PublishLater, PublishNow, PublishFails, Enqueue, Make, FailedWrite, Abort
  <1>7. ASSUME NEW s \in {"subscribe", "unsubscribe"}, CheckConnected(s) PROVE TaskTypes'
    BY <1>7 DEF CheckConnected
  <1>8. CASE Subscribe
    BY <1>8 DEF Subscribe, Make
  <1>9. CASE Start \/ Stop \/ Stopped \/ Disconnect \/ Reconnect
    BY <1>9 DEF Start, Stop, Stopped, Disconnect, Reconnect
  <1>3. CASE SetRun \/ ClearStopped \/ LoopTop \/ Exit \/ Connect \/ WaitReconnect
             \/ DisconnectRequested
    BY <1>3 DEF SetRun, ClearStopped, LoopTop, Exit, Connect, WaitReconnect,
                DisconnectRequested, Steps, Abort
  <1>4. CASE Receive
    BY <1>4 DEF Receive, NothingToRead, ReadError, ReceiveSubscribed, ReceiveConfirmed,
                ReceivePing, ReceivePubrec, ReceivePubrel, ReceivePublish, ReceiveStalled,
                Steps, Takes, FailedWrite, Abort
  <1>5. CASE Resend \/ NotYet \/ Retransmit \/ Release \/ NoRelease \/ KeepAlive \/ Refresh
             \/ PollError
    BY <1>5 DEF Resend, NotYet, Retransmit, Release, NoRelease, KeepAlive, Refresh, PollError,
                Steps, Again, FailedWrite, Abort
  <1>10. ASSUME NEW t, Replies(t) PROVE TaskTypes'
    BY <1>10 DEF Replies
  <1>11. ASSUME NEW b, BrokerSends(b) PROVE TaskTypes'
    BY <1>11 DEF BrokerSends
  <1>6. CASE Loss \/ Broker
    <2>1. CASE Loss
      BY <2>1 DEF Loss
    <2>2. CASE Broker
      BY <1>10, <1>11, <2>2 DEF Broker, BrokerTakesPublish, BrokerReleases, BrokerAnswers,
                                BrokerHears
    <2> QED BY <1>6, <2>1, <2>2
  <1> QED BY <1>1, <1>2, <1>3, <1>4, <1>5, <1>6, <1>7, <1>8, <1>9 DEF Next, Application, Task

(* The outbox and what the application was told. *)
LEMMA OutboxStep == TypeOK /\ [Next]_vars => OutboxTypes'
  <1> SUFFICES ASSUME OutboxTypes, NetworkTypes, [Next]_vars PROVE OutboxTypes'
    BY DEF TypeOK
  <1> USE DEF OutboxTypes, client, outbox
  <1>1. CASE UNCHANGED vars
    BY <1>1 DEF vars
  <1>2. ASSUME NEW s \in Pub \cup {"subscribe", "unsubscribe"},
               NEW p \in {"absent", "QUEUED", "TRANSMITTED"}, Make(s, p)
        PROVE  OutboxTypes'
    <2>1. made + 1 \in Messages /\ made' \in 0 .. MaxMessages
      BY <1>2, MqttAssumption DEF Make, Messages
    <2>2. id' \in [Messages -> Messages] /\ clash' \in BOOLEAN
      <3>1. PICK i \in {made + 1} \cup {id[m] : m \in {n \in 1 .. made : "qos0" \notin {s, sort[n]}}} :
              id' = [id EXCEPT ![made + 1] = i] /\ clash' = (clash \/ \E m \in InUse : id[m] = i)
        BY <1>2 DEF Make, DrawId
      <3>2. i \in Messages
        BY <2>1, MqttAssumption DEF Messages
      <3> QED BY <3>1, <3>2
    <2>3. pending' \in [Messages -> {"absent", "QUEUED", "TRANSMITTED", "ACKNOWLEDGED"}]
      BY <1>2, SetPendingType DEF Make
    <2>4. UNCHANGED << published, dropped, heard, part >> /\ sort' = [sort EXCEPT ![made + 1] = s]
      BY <1>2 DEF Make
    <2> QED BY <2>1, <2>2, <2>3, <2>4
  <1>3. CASE Application
    BY <1>2, <1>3 DEF Application, PublishLater, PublishNow, PublishFails, Enqueue, Kept, Pub,
                CheckConnected, Subscribe, Start, Stop, Stopped, Disconnect, Reconnect
  <1>4. CASE SetRun \/ ClearStopped \/ LoopTop \/ Exit \/ Connect \/ WaitReconnect
             \/ DisconnectRequested
    BY <1>4 DEF SetRun, ClearStopped, LoopTop, Exit, Connect, WaitReconnect,
                DisconnectRequested, Steps, Held
  <1>5. CASE Receive
    <2>1. ReceivePublish \/ ReceiveStalled => Head(down).of \in Incoming
      BY PacketFacts DEF ReceivePublish, ReceiveStalled, NetworkTypes
    <2>2. Initiator(Pub) \subseteq Messages
      BY DEF Initiator, Earliest, Held
    <2>3. CASE ReceivePubrec
      BY <2>3, SetPendingType DEF ReceivePubrec, Takes
    <2> QED
      BY <1>5, <2>1, <2>2, <2>3 DEF Receive, NothingToRead, ReadError, ReceiveSubscribed,
                ReceiveConfirmed, ReceivePing, ReceivePubrel, ReceivePublish, ReceiveStalled,
                Steps, Takes, RemoveInitiator
  <1>6. CASE Resend \/ NotYet \/ Retransmit \/ Release \/ NoRelease \/ KeepAlive \/ Refresh
             \/ PollError
    <2>1. ASSUME NEW m \in Messages, pending' \in Resent(m)
          PROVE  pending' \in [Messages -> {"absent", "QUEUED", "TRANSMITTED", "ACKNOWLEDGED"}]
      <3>1. SetPending(pending, id, id[m], "TRANSMITTED")
              \in [Messages -> {"absent", "QUEUED", "TRANSMITTED", "ACKNOWLEDGED"}]
        BY SetPendingType
      <3>2. \/ pending' = [pending EXCEPT ![m] = "absent"]
            \/ pending' = SetPending(pending, id, id[m], "TRANSMITTED")
            \/ pending' = pending
        BY <2>1 DEF Resent
      <3> QED BY <3>1, <3>2
    <2>2. CASE Resend
      BY <2>1, <2>2 DEF Resend, Steps, First, Earliest, In
    <2> QED BY <1>6, <2>2 DEF NotYet, Retransmit, Release, NoRelease, KeepAlive, Refresh, PollError,
                Steps, Again
  <1>7. CASE Loss \/ Broker
    BY <1>7 DEF Loss, Broker, BrokerTakesPublish, BrokerReleases, BrokerAnswers, BrokerHears,
                BrokerSends, Replies
  <1> QED BY <1>1, <1>3, <1>4, <1>5, <1>6, <1>7 DEF Next, Task

(* What the broker knows. *)
LEMMA BrokerStep == TypeOK /\ [Next]_vars => BrokerTypes'
  <1> SUFFICES ASSUME BrokerTypes, OutboxTypes, NetworkTypes, [Next]_vars PROVE BrokerTypes'
    BY DEF TypeOK
  <1> USE DEF BrokerTypes, broker
  <1>1. CASE UNCHANGED vars
    BY <1>1 DEF vars
  <1>2. CASE Application \/ Loss
    BY <1>2 DEF Application, PublishLater, PublishNow, PublishFails, Enqueue, CheckConnected,
                Subscribe, Start, Stop, Stopped, Disconnect, Reconnect, Make, Loss
  <1>3. CASE Task
    BY <1>3 DEF Task, SetRun, ClearStopped, LoopTop, Exit, Connect, WaitReconnect,
                DisconnectRequested, Receive, NothingToRead, ReadError, ReceiveSubscribed,
                ReceiveConfirmed, ReceivePing, ReceivePubrec, ReceivePubrel, ReceivePublish,
                ReceiveStalled, Resend, NotYet, Retransmit, Release, NoRelease, KeepAlive,
                Refresh, PollError, Steps, Takes
  <1>4. CASE Broker
    <2>1. up # << >> => Head(up) \in UpPackets
      BY DEF NetworkTypes
    <2>2. CASE BrokerTakesPublish
      <3>1. Head(up).of \in Messages
        BY <2>1, <2>2, PacketFacts DEF BrokerTakesPublish
      <3> QED BY <2>2, <3>1 DEF BrokerTakesPublish, Takes1
    <2>3. CASE BrokerReleases
      BY <2>3 DEF BrokerReleases
    <2>4. CASE BrokerAnswers
      BY <2>4 DEF BrokerAnswers
    <2>5. CASE BrokerHears
      BY <2>5 DEF BrokerHears
    <2>6. ASSUME NEW b \in Incoming, BrokerSends(b) PROVE BrokerTypes'
      BY <2>6 DEF BrokerSends
    <2> QED BY <1>4, <2>2, <2>3, <2>4, <2>5, <2>6 DEF Broker
  <1> QED BY <1>1, <1>2, <1>3, <1>4 DEF Next

(* The packets on the way. *)
LEMMA NetworkStep == TypeOK /\ [Next]_vars => NetworkTypes'
  <1> SUFFICES ASSUME OutboxTypes, NetworkTypes, [Next]_vars PROVE NetworkTypes'
    BY DEF TypeOK
  <1> USE DEF NetworkTypes, network
  <1>0. MaxTroubles \in Nat /\ << >> \in Seq(UpPackets) /\ << >> \in Seq(DownPackets)
    BY MqttAssumption
  <1> USE <1>0
  <1>1. CASE UNCHANGED vars
    BY <1>1 DEF vars
  <1>2. ASSUME NEW p \in UpPackets, Sent(p) PROVE NetworkTypes'
    BY <1>2 DEF Sent
  <1>3. CASE Breaks
    BY <1>3 DEF Breaks, Trouble
  <1>4. CASE FailedWrite
    BY <1>4 DEF FailedWrite, Abort, Trouble
  <1>13. CASE Unwritten
    BY <1>13 DEF Unwritten, Trouble
  <1>12. ASSUME Abort, troubles' = troubles \/ Trouble PROVE NetworkTypes'
    BY <1>12 DEF Abort, Trouble
  <1>5. CASE Application
    <2>1. made < MaxMessages => made + 1 \in Messages
      BY MqttAssumption DEF OutboxTypes, Messages
    <2>2. ASSUME NEW s \in Pub, PublishLater(s) \/ PublishNow(s) \/ PublishFails(s) \/ Enqueue(s)
          PROVE  NetworkTypes'
      BY <1>2, <1>4, <2>1, <2>2, UpFromMessage
      DEF PublishLater, PublishNow, PublishFails, Enqueue, Make
    <2>3. CASE Subscribe
      BY <1>2, <1>3, <1>13, <2>1, <2>3, UpFromMessage DEF Subscribe, Make
    <2>4. CASE Stop \/ Disconnect
      BY <2>4 DEF Stop, Disconnect, Trouble
    <2> QED
      BY <1>5, <2>2, <2>3, <2>4 DEF Application, CheckConnected, Start, Stopped, Reconnect
  <1>6. CASE SetRun \/ ClearStopped \/ LoopTop \/ Exit \/ Connect \/ WaitReconnect
             \/ DisconnectRequested
    <2>1. CASE LoopTop
      BY <2>1 DEF LoopTop, Trouble
    <2>2. CASE Exit \/ DisconnectRequested
      BY <1>12, <2>2 DEF Exit, DisconnectRequested
    <2>3. CASE Connect
      BY <1>12, <2>3 DEF Connect
    <2> QED BY <1>6, <2>1, <2>2, <2>3 DEF SetRun, ClearStopped, WaitReconnect
  <1>7. CASE Receive
    <2>1. down # << >> => Head(down) \in DownPackets /\ Tail(down) \in Seq(DownPackets)
      OBVIOUS
    <2>7. ASSUME NEW t, down # << >>, down' = Tail(down), Answers(t),
                 Packet(t, Head(down).of) \in UpPackets
          PROVE  NetworkTypes'
      <3>1. down' \in Seq(DownPackets)
        BY <2>1, <2>7
      <3>2. up' = up \/ up' = Append(up, Packet(t, Head(down).of))
        BY <2>7 DEF Answers
      <3>4. up' \in Seq(UpPackets)
        BY <2>7, <3>2
      <3>5. link' \in {"closed", "up", "dead"}
        BY <2>7 DEF Answers
      <3>3. troubles' \in 0 .. MaxTroubles
        BY <2>7 DEF Answers, Trouble
      <3> QED BY <3>1, <3>3, <3>4, <3>5
    <2>2. CASE NothingToRead \/ ReadError
      BY <1>12, <2>2 DEF NothingToRead, ReadError
    <2>3. CASE ReceiveSubscribed \/ ReceiveConfirmed \/ ReceivePing
      BY <2>1, <2>3 DEF ReceiveSubscribed, ReceiveConfirmed, ReceivePing, Takes
    <2>4. CASE ReceivePubrec
      <3>1. Packet("PUBREL", Head(down).of) \in UpPackets
        BY <2>1, <2>4, PacketFacts, UpFromMessage DEF ReceivePubrec, Takes
      <3> QED BY <2>4, <2>7, <3>1 DEF ReceivePubrec, Takes
    <2>5. CASE ReceivePubrel
      <3>1. Packet("PUBCOMP", Head(down).of) \in UpPackets
        BY <2>1, <2>5, PacketFacts, UpFromIncoming DEF ReceivePubrel, Takes
      <3> QED BY <2>5, <2>7, <3>1 DEF ReceivePubrel, Takes
    <2>6. CASE ReceivePublish
      <3>1. /\ Packet("PUBREC", Head(down).of) \in UpPackets
            /\ Packet("PUBACK", Head(down).of) \in UpPackets
        BY <2>1, <2>6, PacketFacts, UpFromIncoming DEF ReceivePublish
      <3>2. CASE FailedWrite
        BY <1>4, <3>2
      <3>3. CASE ~FailedWrite
        <4>1. PICK p \in UpPackets : up' = Append(up, p)
          BY <2>6, <3>1, <3>3 DEF ReceivePublish, Acknowledgement
        <4>2. UNCHANGED << link, troubles >> /\ down' = Tail(down) /\ down # << >>
          BY <2>6, <3>3 DEF ReceivePublish
        <4> QED BY <2>1, <4>1, <4>2
      <3> QED BY <3>2, <3>3
    <2>8. CASE ReceiveStalled
      <3>1. Acknowledgement(Head(down).of) \in UpPackets
        BY <2>1, <2>8, PacketFacts, UpFromIncoming DEF ReceiveStalled, Acknowledgement
      <3>2. CASE FailedWrite
        BY <1>4, <3>2
      <3>3. CASE ~FailedWrite
        <4>1. /\ up' = Append(up, Acknowledgement(Head(down).of))
              /\ Trouble /\ link' = "dead" /\ down' = << >>
          BY <2>8, <3>3 DEF ReceiveStalled
        <4>2. up' \in Seq(UpPackets)
          BY <3>1, <4>1
        <4>3. troubles' \in 0 .. MaxTroubles
          BY <4>1 DEF Trouble
        <4> QED BY <4>1, <4>2, <4>3
      <3> QED BY <3>2, <3>3
    <2> QED BY <1>7, <2>2, <2>3, <2>4, <2>5, <2>6, <2>8 DEF Receive
  <1>8. CASE Resend \/ NotYet \/ Retransmit \/ Release \/ NoRelease
    <2>1. ASSUME NEW p \in UpPackets, Again(p) PROVE NetworkTypes'
      BY <1>2, <1>4, <2>1 DEF Again
    <2>2. CASE Resend
      BY <1>2, <1>4, <2>2, OutgoingType DEF Resend, First, Earliest, In
    <2>3. CASE Retransmit
      BY <2>1, <2>3, OutgoingType DEF Retransmit, First, Earliest, In
    <2>4. CASE Release
      BY <2>1, <2>4, UpFromMessage DEF Release, First, Earliest, In
    <2> QED BY <1>8, <2>2, <2>3, <2>4 DEF NotYet, NoRelease
  <1>9. CASE KeepAlive \/ Refresh \/ PollError
    <2>1. CASE KeepAlive
      BY <1>2, <1>4, <1>12, <2>1, UpPing DEF KeepAlive
    <2>2. CASE Refresh
      BY <2>2 DEF Refresh, Trouble
    <2>3. CASE PollError
      BY <1>12, <2>3 DEF PollError
    <2> QED BY <1>9, <2>1, <2>2, <2>3
  <1>10. CASE Loss
    BY <1>3, <1>10 DEF Loss
  <1>11. CASE Broker
    <2>1. up # << >> => Head(up) \in UpPackets /\ Tail(up) \in Seq(UpPackets)
      OBVIOUS
    <2>2. ASSUME NEW t, up # << >>, t # "none" => Packet(t, Head(up).of) \in DownPackets, Replies(t)
          PROVE  NetworkTypes'
      BY <2>1, <2>2 DEF Replies
    <2>3. CASE BrokerTakesPublish
      <3>1. PICK t \in {"PUBACK", "PUBREC", "none"} : Replies(t)
        BY <2>3 DEF BrokerTakesPublish
      <3>3. t # "none" => Packet(t, Head(up).of) \in DownPackets
        BY <2>1, <2>3, <3>1, PacketFacts, DownFromMessage DEF BrokerTakesPublish
      <3> QED BY <2>2, <2>3, <3>1, <3>3 DEF BrokerTakesPublish
    <2>4. CASE BrokerReleases
      BY <2>1, <2>2, <2>4, PacketFacts, DownFromMessage DEF BrokerReleases
    <2>5. CASE BrokerAnswers
      <3>1. PICK t : Replies(t) /\ Packet(t, Head(up).of) \in DownPackets
        BY <2>1, <2>5 DEF BrokerAnswers, Packet, UpPackets, DownPackets
      <3> QED BY <2>2, <2>5, <3>1 DEF BrokerAnswers
    <2>6. CASE BrokerHears
      BY <2>2, <2>6 DEF BrokerHears
    <2>7. ASSUME NEW b \in Incoming, BrokerSends(b) PROVE NetworkTypes'
      <3>1. UNCHANGED << link, up, troubles >>
        BY <2>7 DEF BrokerSends
      <3>2. PICK p \in {Packet("PUBLISH", b), Packet("PUBREL", b)} : down' = Append(down, p)
        BY <2>7 DEF BrokerSends
      <3>3. p \in DownPackets
        BY <3>2, DownFromIncoming
      <3>4. down' \in Seq(DownPackets)
        BY <3>2, <3>3
      <3> QED BY <3>1, <3>4
    <2> QED BY <1>11, <2>3, <2>4, <2>5, <2>6, <2>7 DEF Broker
  <1> QED BY <1>1, <1>5, <1>6, <1>7, <1>8, <1>9, <1>10, <1>11 DEF Next, Task

(* Every step keeps the types... *)
LEMMA MqttTypeStep == TypeOK /\ [Next]_vars => TypeOK'
  BY TaskStep, OutboxStep, NetworkStep, BrokerStep DEF TypeOK

(* ...and they hold at the start. *)
LEMMA MqttTypeInit == Init => TypeOK
  <1> SUFFICES ASSUME Init PROVE TypeOK
    OBVIOUS
  <1>1. TaskTypes
    BY DEF Init, TaskTypes
  <1>2. OutboxTypes
    <2>1. made \in 0 .. MaxMessages
      BY MqttAssumption DEF Init
    <2> QED BY <2>1 DEF Init, OutboxTypes
  <1>3. NetworkTypes
    BY MqttAssumption DEF Init, NetworkTypes
  <1>4. BrokerTypes
    BY DEF Init, BrokerTypes
  <1> QED BY <1>1, <1>2, <1>3, <1>4 DEF TypeOK

(* The task, the outbox, the network and the broker keep their types: no id   *)
(* of the other side ever enters the outbox, and no packet is made of one.    *)
THEOREM MqttTypeCorrect == Spec => []TypeOK
  BY MqttTypeInit, MqttTypeStep, PTL DEF Spec

-----------------------------------------------------------------------------
(* The entries of a queue one has been put into or taken from. *)
LEMMA AppendEntries ==
    ASSUME NEW S, NEW q \in Seq(S), NEW e \in S
    PROVE  \A k \in DOMAIN Append(q, e) :
             \/ k \in DOMAIN q /\ Append(q, e)[k] = q[k]
             \/ k = Len(q) + 1 /\ Append(q, e)[k] = e
  OBVIOUS

(* Taking one moves the others down. *)
LEMMA TailEntries ==
    ASSUME NEW S, NEW q \in Seq(S), q # << >>
    PROVE  /\ Tail(q) \in Seq(S)
           /\ \A k \in DOMAIN Tail(q) : k + 1 \in DOMAIN q /\ Tail(q)[k] = q[k + 1]
  OBVIOUS

(* The first entry. *)
LEMMA HeadEntry ==
    ASSUME NEW S, NEW q \in Seq(S), q # << >>
    PROVE  1 \in DOMAIN q /\ Head(q) = q[1] /\ Head(q) \in S
  OBVIOUS

-----------------------------------------------------------------------------
(* Ids in use.  As long as none has been drawn that was still in use, the    *)
(* messages in use have different ids, and whoever looks one up by its id,   *)
(* the client or the broker, finds the message that is meant.                *)

Apart == \A m, n \in InUse : id[m] = id[n] => m = n

ApartInv == TypeOK /\ (~clash => Apart)

(* What a queue is about, when one packet is put into it or taken from it. *)
LEMMA AboutAppend ==
    ASSUME NEW S, NEW q \in Seq(S), NEW e \in S, NEW T
    PROVE  About(Append(q, e), T) \subseteq About(q, T) \cup {x \in {e.of} : e.type \in T}
  BY AppendEntries DEF About

LEMMA AboutTail ==
    ASSUME NEW S, NEW q \in Seq(S), NEW T, q # << >>
    PROVE  /\ About(Tail(q), T) \subseteq About(q, T)
           /\ Head(q).type \in T => Head(q).of \in About(q, T)
  BY HeadEntry, TailEntries DEF About

(* Only messages are in use. *)
LEMMA InUseType == TypeOK => InUse \subseteq Messages /\ Held \subseteq InUse
  <1> SUFFICES ASSUME TypeOK PROVE InUse \subseteq Messages /\ Held \subseteq InUse
    OBVIOUS
  <1>1. About(up, Requests) \subseteq Messages
    BY PacketFacts DEF About, TypeOK, NetworkTypes
  <1>2. About(down, Responses) \subseteq Messages
    BY PacketFacts DEF About, TypeOK, NetworkTypes
  <1> QED BY <1>1, <1>2 DEF InUse, Held, TypeOK, BrokerTypes

(* A packet that is about a message in use, or about a new one N. *)
UpAbout(N) ==
    \/ up' \in {up, << >>}
    \/ up # << >> /\ up' = Tail(up)
    \/ \E p \in UpPackets : up' = Append(up, p) /\ (p.type \in Requests => p.of \in InUse \cup N)

DownAbout ==
    \/ down' \in {down, << >>}
    \/ down # << >> /\ down' = Tail(down)
    \/ \E p \in DownPackets : down' = Append(down, p) /\ (p.type \in Responses => p.of \in InUse)

(* What a step adds to the outbox, the queues and the broker. *)
LEMMA UseStep ==
    ASSUME TypeOK, NEW N, Held' \subseteq Held \cup N, holding' \subseteq InUse,
           UpAbout(N), DownAbout
    PROVE  InUse' \subseteq InUse \cup N
  <1> USE DEF TypeOK, NetworkTypes
  <1>1. About(up, Requests)' \subseteq InUse \cup N
    <2>1. CASE up' = up
      BY <2>1 DEF InUse, About
    <2>2. CASE up' = << >>
      BY <2>2 DEF About
    <2>3. CASE up # << >> /\ up' = Tail(up)
      <3>1. About(Tail(up), Requests) \subseteq About(up, Requests)
        BY <2>3, AboutTail
      <3>2. About(up, Requests)' = About(Tail(up), Requests)
        BY <2>3 DEF About
      <3> QED BY <3>1, <3>2 DEF InUse
    <2>4. ASSUME NEW p \in UpPackets, up' = Append(up, p), p.type \in Requests => p.of \in InUse \cup N
          PROVE  About(up, Requests)' \subseteq InUse \cup N
      <3>1. About(Append(up, p), Requests) \subseteq About(up, Requests) \cup {x \in {p.of} : p.type \in Requests}
        BY AboutAppend
      <3>2. About(up, Requests)' = About(Append(up, p), Requests)
        BY <2>4 DEF About
      <3> QED BY <2>4, <3>1, <3>2 DEF InUse
    <2> QED BY <2>1, <2>2, <2>3, <2>4 DEF UpAbout
  <1>2. About(down, Responses)' \subseteq InUse
    <2>1. CASE down' = down
      BY <2>1 DEF InUse, About
    <2>2. CASE down' = << >>
      BY <2>2 DEF About
    <2>3. CASE down # << >> /\ down' = Tail(down)
      <3>1. About(Tail(down), Responses) \subseteq About(down, Responses)
        BY <2>3, AboutTail
      <3>2. About(down, Responses)' = About(Tail(down), Responses)
        BY <2>3 DEF About
      <3> QED BY <3>1, <3>2 DEF InUse
    <2>4. ASSUME NEW p \in DownPackets, down' = Append(down, p), p.type \in Responses => p.of \in InUse
          PROVE  About(down, Responses)' \subseteq InUse
      <3>1. About(Append(down, p), Responses) \subseteq About(down, Responses) \cup {x \in {p.of} : p.type \in Responses}
        BY AboutAppend
      <3>2. About(down, Responses)' = About(Append(down, p), Responses)
        BY <2>4 DEF About
      <3> QED BY <2>4, <3>1, <3>2 DEF InUse
    <2> QED BY <2>1, <2>2, <2>3, <2>4 DEF DownAbout
  <1>3. Held' \subseteq InUse \cup N /\ holding' \subseteq InUse
    BY DEF InUse
  <1>4. InUse' = Held' \cup holding' \cup About(up, Requests)' \cup About(down, Responses)'
    BY DEF InUse
  <1> QED BY <1>1, <1>2, <1>3, <1>4

(* Marking adds nothing to the outbox. *)
LEMMA SetPendingHeld ==
    ASSUME NEW items, NEW ids, NEW i, NEW p, NEW m \in Messages,
           SetPending(items, ids, i, p)[m] # "absent"
    PROVE  items[m] # "absent"
  BY DEF SetPending, Earliest

(* A new message, perhaps already written. *)
LEMMA MakeUse ==
    ASSUME TypeOK, NEW s, NEW p, Make(s, p),
           \/ up' = up
           \/ \E t \in {"PUBLISH", "SUBSCRIBE", "UNSUBSCRIBE"} : up' = Append(up, Packet(t, made + 1)),
           down' \in {down, << >>}
    PROVE  InUse' \subseteq InUse \cup {made + 1}
  <1> USE DEF TypeOK, OutboxTypes
  <1>1. made + 1 \in Messages
    BY MqttAssumption DEF Make, Messages
  <1>2. Held' \subseteq Held \cup {made + 1}
    <2> SUFFICES ASSUME NEW m \in Messages, pending'[m] # "absent", m # made + 1
                 PROVE  pending[m] # "absent"
      BY DEF Held
    <2>1. CASE p # "TRANSMITTED"
      BY <2>1 DEF Make
    <2>2. CASE p = "TRANSMITTED"
      <3>1. PICK items : items = [pending EXCEPT ![made + 1] = "QUEUED"]
        OBVIOUS
      <3>2. SetPending(items, id', id'[made + 1], p)[m] # "absent"
        BY <2>2, <3>1 DEF Make
      <3>3. items[m] # "absent"
        BY <3>2, SetPendingHeld
      <3> QED BY <3>1, <3>3
    <2> QED BY <2>1, <2>2
  <1>3. holding' \subseteq InUse
    BY DEF Make, broker, InUse
  <1>4. UpAbout({made + 1})
    <2>1. \A t \in {"PUBLISH", "SUBSCRIBE", "UNSUBSCRIBE"} :
            Packet(t, made + 1) \in UpPackets /\ Packet(t, made + 1).of = made + 1
      BY <1>1, UpFromMessage DEF Packet
    <2> QED BY <2>1 DEF UpAbout
  <1>5. DownAbout
    BY DEF DownAbout
  <1> QED BY <1>2, <1>3, <1>4, <1>5, UseStep

(* A step of the client that makes no message. *)
LEMMA ClientUse ==
    ASSUME TypeOK, Held' \subseteq Held, UNCHANGED holding, UpAbout({}),
           \/ down' \in {down, << >>}
           \/ down # << >> /\ down' = Tail(down)
    PROVE  InUse' \subseteq InUse
  <1>1. holding' \subseteq InUse
    BY DEF InUse
  <1>2. DownAbout
    BY DEF DownAbout
  <1>3. Held' \subseteq Held \cup {}
    OBVIOUS
  <1> QED BY <1>1, <1>2, <1>3, UseStep

(* What is written is about a message in use, or about one of the broker. *)
LEMMA SentUse ==
    ASSUME NEW p \in UpPackets, p.type \in Requests => p.of \in InUse,
           up' = up \/ up' = Append(up, p)
    PROVE  UpAbout({})
  BY DEF UpAbout

(* A step of the task or of the network. *)
LEMMA TaskUse == TypeOK /\ (Task \/ Loss) => InUse' \subseteq InUse
  <1> SUFFICES ASSUME TypeOK, Task \/ Loss PROVE InUse' \subseteq InUse
    OBVIOUS
  <1> USE DEF broker, outbox, network
  <1>1. Held \subseteq InUse /\ Held \subseteq Messages
    BY InUseType DEF Held
  <1>2. \A m \in Held : /\ Outgoing(m) \in UpPackets /\ Outgoing(m).of \in InUse
                        /\ Packet("PUBREL", m) \in UpPackets /\ Packet("PUBREL", m).of \in InUse
    BY <1>1, OutgoingType, UpFromMessage DEF Outgoing, Packet
  <1>3. Packet("PINGREQ", 0) \in UpPackets /\ Packet("PINGREQ", 0).type \notin Requests
    BY UpPing DEF Packet
  <1>4. UNCHANGED up => UpAbout({})
    BY DEF UpAbout
  <1>5. UNCHANGED pending => Held' \subseteq Held
    BY DEF Held
  <1>6. CASE SetRun \/ ClearStopped \/ LoopTop \/ Exit \/ Connect \/ WaitReconnect
             \/ DisconnectRequested
    <2>1. UNCHANGED holding /\ (UNCHANGED up \/ up' = << >>) /\ down' \in {down, << >>}
      BY <1>6 DEF SetRun, ClearStopped, LoopTop, Exit, Connect, WaitReconnect,
                  DisconnectRequested, Steps, Abort
    <2>2. Held' \subseteq Held
      BY <1>6 DEF SetRun, ClearStopped, LoopTop, Exit, Connect, WaitReconnect,
                  DisconnectRequested, Held
    <2>3. UpAbout({})
      BY <2>1 DEF UpAbout
    <2> QED BY <2>1, <2>2, <2>3, ClientUse
  <1>7. CASE Receive
    <2>1. /\ UNCHANGED holding
          /\ down' \in {down, << >>} \/ (down # << >> /\ down' = Tail(down))
      BY <1>7 DEF Receive, NothingToRead, ReadError, ReceiveSubscribed, ReceiveConfirmed,
                  ReceivePing, ReceivePubrec, ReceivePubrel, ReceivePublish, ReceiveStalled,
                  Steps, Takes, FailedWrite, Abort
    <2>2. Held' \subseteq Held
      <3>1. CASE ReceivePubrec
        <4>1. pending' = SetPending(pending, id, id[Head(down).of], "ACKNOWLEDGED")
          BY <3>1 DEF ReceivePubrec
        <4> QED BY <4>1, SetPendingHeld DEF Held
      <3>2. CASE ReceiveSubscribed \/ ReceiveConfirmed
        BY <3>2 DEF ReceiveSubscribed, ReceiveConfirmed, RemoveInitiator, Held
      <3> QED BY <1>5, <1>7, <3>1, <3>2 DEF Receive, NothingToRead, ReadError, ReceivePing,
                    ReceivePubrel, ReceivePublish, ReceiveStalled, Steps
    <2>3. UpAbout({})
      <3>1. down # << >> => Head(down) \in DownPackets
        BY HeadEntry DEF TypeOK, NetworkTypes
      <3>2. CASE ReceivePubrec
        <4>1. Head(down).of \in Messages /\ Head(down).of \in InUse
          <5>1. down # << >> /\ Head(down).type = "PUBREC"
            BY <3>2 DEF ReceivePubrec, Takes
          <5>2. Head(down).of \in About(down, Responses)
            BY <5>1, AboutTail DEF TypeOK, NetworkTypes
          <5> QED BY <3>1, <5>1, <5>2, PacketFacts DEF InUse
        <4>2. PICK p \in UpPackets : p = Packet("PUBREL", Head(down).of) /\ p.of = Head(down).of
          BY <4>1, UpFromMessage DEF Packet
        <4>3. up' = up \/ up' = Append(up, p)
          BY <3>2, <4>2 DEF ReceivePubrec, Answers
        <4> QED BY <4>1, <4>2, <4>3, SentUse
      <3>3. CASE ReceivePubrel \/ ReceivePublish \/ ReceiveStalled
        <4>1. Head(down).of \in Incoming
          BY <3>1, <3>3, PacketFacts DEF ReceivePubrel, ReceivePublish, ReceiveStalled, Takes
        <4>2. PICK t \in {"PUBACK", "PUBREC", "PUBCOMP"} :
                up' = up \/ up' = Append(up, Packet(t, Head(down).of))
          BY <3>3 DEF ReceivePubrel, ReceivePublish, ReceiveStalled, Answers, Acknowledgement,
                      FailedWrite, Abort
        <4>3. PICK p \in UpPackets : p = Packet(t, Head(down).of) /\ p.type \notin Requests
          BY <4>1, UpFromIncoming DEF Packet
        <4> QED BY <4>2, <4>3, SentUse
      <3> QED BY <1>4, <1>7, <3>2, <3>3 DEF Receive, NothingToRead, ReadError, ReceiveSubscribed,
                    ReceiveConfirmed, ReceivePing, Abort
    <2> QED BY <2>1, <2>2, <2>3, ClientUse
  <1>8. CASE Resend \/ NotYet \/ Retransmit \/ Release \/ NoRelease \/ KeepAlive \/ Refresh
             \/ PollError
    <2>1. UNCHANGED holding /\ down' \in {down, << >>}
      BY <1>8 DEF Resend, NotYet, Retransmit, Release, NoRelease, KeepAlive, Refresh, PollError,
                  Steps, Again, Sent, FailedWrite, Abort
    <2>2. \A p \in {"QUEUED", "TRANSMITTED", "ACKNOWLEDGED"} : First(p) \subseteq Held
      BY DEF First, Earliest, In, Held
    <2>3. Held' \subseteq Held
      <3>1. CASE Resend
        <4>1. ASSUME NEW m \in First("QUEUED"), pending' \in Resent(m) PROVE Held' \subseteq Held
          <5>1. CASE pending' = SetPending(pending, id, id[m], "TRANSMITTED")
            BY <5>1, SetPendingHeld DEF Held
          <5>2. CASE pending' = [pending EXCEPT ![m] = "absent"] \/ pending' = pending
            BY <5>2 DEF Held, TypeOK, OutboxTypes
          <5> QED BY <4>1, <5>1, <5>2 DEF Resent
        <4> QED BY <1>5, <3>1, <4>1 DEF Resend
      <3> QED BY <1>5, <1>8, <3>1 DEF NotYet, Retransmit, Release, NoRelease, KeepAlive, Refresh,
                    PollError, Again
    <2>4. UpAbout({})
      <3>1. ASSUME NEW m \in Held, Sent(Outgoing(m)) \/ Sent(Packet("PUBREL", m)) PROVE UpAbout({})
        BY <1>2, <3>1, SentUse DEF Sent
      <3>2. CASE Sent(Packet("PINGREQ", 0))
        BY <1>3, <3>2, SentUse DEF Sent
      <3> QED BY <1>4, <1>8, <2>2, <3>1, <3>2
              DEF Resend, NotYet, Retransmit, Release, NoRelease, KeepAlive, Refresh, PollError,
                  Again, FailedWrite, Abort
    <2> QED BY <2>1, <2>3, <2>4, ClientUse
  <1>9. CASE Loss
    BY <1>4, <1>5, <1>9, ClientUse DEF Loss, Breaks
  <1> QED BY <1>6, <1>7, <1>8, <1>9 DEF Task

(* A step of the broker. *)
LEMMA BrokerUse == TypeOK /\ Broker => InUse' \subseteq InUse
  <1> SUFFICES ASSUME TypeOK, Broker PROVE InUse' \subseteq InUse
    OBVIOUS
  <1>1. UNCHANGED pending => Held' \subseteq Held \cup {}
    BY DEF Held
  <1>2. up # << >> => Head(up) \in UpPackets
    BY HeadEntry DEF TypeOK, NetworkTypes
  <1>3. up # << >> /\ Head(up).type \in Requests => Head(up).of \in InUse
    BY AboutTail DEF TypeOK, NetworkTypes, InUse
  <1>4. ASSUME NEW b \in Incoming, BrokerSends(b) PROVE InUse' \subseteq InUse
    <2>1. PICK t \in {"PUBLISH", "PUBREL"} : down' = Append(down, Packet(t, b))
      BY <1>4 DEF BrokerSends
    <2>2. Packet(t, b) \in DownPackets /\ Packet(t, b).type \notin Responses
      BY DownFromIncoming DEF Packet
    <2>3. DownAbout
      BY <2>1, <2>2 DEF DownAbout
    <2>4. UNCHANGED << up, holding, pending >>
      BY <1>4 DEF BrokerSends, outbox
    <2> QED BY <1>1, <2>3, <2>4, UseStep DEF UpAbout, InUse
  <1>5. ASSUME NEW t, Replies(t), up # << >>, holding' \subseteq InUse,
               t # "none" => /\ Packet(t, Head(up).of) \in DownPackets
                             /\ t \in Responses => Head(up).of \in InUse
        PROVE  InUse' \subseteq InUse
    <2>1. UpAbout({}) /\ UNCHANGED pending
      BY <1>5 DEF Replies, UpAbout, outbox
    <2>2. DownAbout
      BY <1>5 DEF Replies, DownAbout, Packet
    <2> QED BY <1>1, <1>5, <2>1, <2>2, UseStep
  <1>6. CASE BrokerTakesPublish
    <2>1. PICK t \in {"PUBACK", "PUBREC", "none"} : Replies(t)
      BY <1>6 DEF BrokerTakesPublish
    <2>2. up # << >> /\ Head(up).of \in Messages /\ Head(up).of \in InUse
      BY <1>2, <1>3, <1>6, PacketFacts DEF BrokerTakesPublish
    <2>3. holding' \subseteq InUse
      BY <1>6, <2>2 DEF BrokerTakesPublish, InUse
    <2>4. t # "none" => Packet(t, Head(up).of) \in DownPackets
      BY <2>1, <2>2, DownFromMessage
    <2> QED BY <1>5, <2>1, <2>2, <2>3, <2>4
  <1>7. CASE BrokerReleases
    <2>1. up # << >> /\ Head(up).of \in Messages /\ Head(up).of \in InUse
      BY <1>2, <1>3, <1>7, PacketFacts DEF BrokerReleases
    <2>2. holding' \subseteq InUse /\ Replies("PUBCOMP")
      BY <1>7 DEF BrokerReleases, InUse
    <2> QED BY <1>5, <2>1, <2>2, DownFromMessage
  <1>8. CASE BrokerAnswers
    <2>1. PICK t : /\ Replies(t) /\ Packet(t, Head(up).of) \in DownPackets
                   /\ t \in Responses => Head(up).type \in Requests
      BY <1>2, <1>8 DEF BrokerAnswers, Packet, UpPackets, DownPackets
    <2> QED BY <1>3, <1>5, <1>8, <2>1 DEF BrokerAnswers, broker, InUse
  <1>9. CASE BrokerHears
    BY <1>5, <1>9 DEF BrokerHears, InUse
  <1> QED BY <1>4, <1>6, <1>7, <1>8, <1>9 DEF Broker

(* Only a new message adds to what is in use, and only it draws an id. *)
LEMMA UseOfStep ==
    ASSUME TypeOK, [Next]_vars
    PROVE  \/ UNCHANGED << id, clash >> /\ InUse' \subseteq InUse
           \/ /\ InUse' \subseteq InUse \cup {made + 1}
              /\ made + 1 \in Messages
              /\ \E s : DrawId(s)
  <1> USE DEF client
  <1>1. CASE UNCHANGED vars
    BY <1>1 DEF vars, InUse, Held, outbox, network, broker
  <1>2. ASSUME NEW s, NEW p, Make(s, p),
               \/ up' = up
               \/ \E t \in {"PUBLISH", "SUBSCRIBE", "UNSUBSCRIBE"} : up' = Append(up, Packet(t, made + 1)),
               down' \in {down, << >>}
        PROVE  /\ InUse' \subseteq InUse \cup {made + 1}
               /\ made + 1 \in Messages /\ DrawId(s)
    <2>1. InUse' \subseteq InUse \cup {made + 1}
      BY <1>2, MakeUse
    <2>2. made + 1 \in Messages /\ DrawId(s)
      BY <1>2, MqttAssumption DEF Make, Messages, TypeOK, OutboxTypes
    <2> QED BY <2>1, <2>2
  <1>3. ASSUME NEW s \in Pub, PublishLater(s) \/ PublishNow(s) \/ PublishFails(s) \/ Enqueue(s)
        PROVE  /\ InUse' \subseteq InUse \cup {made + 1}
               /\ made + 1 \in Messages /\ DrawId(s)
    <2>1. PICK p : Make(s, p)
      BY <1>3 DEF PublishLater, PublishNow, PublishFails, Enqueue
    <2>2. up' = up \/ up' = Append(up, Packet("PUBLISH", made + 1))
      BY <1>3 DEF PublishLater, PublishNow, PublishFails, Enqueue, Sent, FailedWrite, Abort, network
    <2>3. down' \in {down, << >>}
      BY <1>3 DEF PublishLater, PublishNow, PublishFails, Enqueue, Sent, FailedWrite, Abort, network
    <2> QED BY <1>2, <2>1, <2>2, <2>3
  <1>4. CASE Subscribe
    <2>1. Make(app, "TRANSMITTED")
      BY <1>4 DEF Subscribe
    <2>2. PICK t \in {"SUBSCRIBE", "UNSUBSCRIBE"} : up' = up \/ up' = Append(up, Packet(t, made + 1))
      BY <1>4 DEF Subscribe, Sent, Breaks, Unwritten
    <2>3. down' \in {down, << >>}
      BY <1>4 DEF Subscribe, Sent, Breaks, Unwritten
    <2> QED BY <1>2, <2>1, <2>2, <2>3
  <1>5. CASE \/ \E s \in {"subscribe", "unsubscribe"} : CheckConnected(s)
             \/ Start \/ Stop \/ Stopped \/ Disconnect \/ Reconnect
    <2>1. UNCHANGED << id, clash, pending, holding, up, down >>
      BY <1>5 DEF CheckConnected, Start, Stop, Stopped, Disconnect, Reconnect, outbox, network, broker
    <2> QED BY <2>1 DEF InUse, Held
  <1>6. CASE Task \/ Loss
    <2>1. UNCHANGED << id, clash >>
      <3>1. CASE SetRun \/ ClearStopped \/ LoopTop \/ Exit \/ Connect \/ WaitReconnect
                 \/ DisconnectRequested \/ Loss
        BY <3>1 DEF SetRun, ClearStopped, LoopTop, Exit, Connect, WaitReconnect,
                    DisconnectRequested, Steps, Loss
      <3>2. CASE Receive
        BY <3>2 DEF Receive, NothingToRead, ReadError, ReceiveSubscribed, ReceiveConfirmed,
                    ReceivePing, ReceivePubrec, ReceivePubrel, ReceivePublish, ReceiveStalled,
                    Steps, Takes
      <3>3. CASE Resend \/ NotYet \/ Retransmit \/ Release \/ NoRelease \/ KeepAlive \/ Refresh
                 \/ PollError
        BY <3>3 DEF Resend, NotYet, Retransmit, Release, NoRelease, KeepAlive, Refresh, PollError,
                    Steps
      <3> QED BY <1>6, <3>1, <3>2, <3>3 DEF Task
    <2> QED BY <1>6, <2>1, TaskUse
  <1>7. CASE Broker
    BY <1>7, BrokerUse DEF Broker, BrokerTakesPublish, BrokerReleases, BrokerAnswers, BrokerHears,
                           BrokerSends, Replies
  <1> QED BY <1>1, <1>3, <1>4, <1>5, <1>6, <1>7 DEF Next, Application

(* A clash is never forgotten, and without one the ids in use differ. *)
LEMMA ApartStep == ApartInv /\ [Next]_vars => ApartInv' /\ (clash => clash')
  <1> SUFFICES ASSUME ApartInv, [Next]_vars PROVE ApartInv' /\ (clash => clash')
    OBVIOUS
  <1>1. TypeOK /\ TypeOK'
    BY MqttTypeStep DEF ApartInv
  <1>2. CASE UNCHANGED << id, clash >> /\ InUse' \subseteq InUse
    BY <1>1, <1>2 DEF ApartInv, Apart
  <1>3. CASE /\ InUse' \subseteq InUse \cup {made + 1}
             /\ made + 1 \in Messages
             /\ \E s : DrawId(s)
    <2>1. PICK i : /\ id' = [id EXCEPT ![made + 1] = i]
                   /\ clash' = (clash \/ \E m \in InUse : id[m] = i)
      BY <1>3 DEF DrawId
    <2>2. InUse \subseteq Messages /\ DOMAIN id = Messages
      BY <1>1, InUseType DEF TypeOK, OutboxTypes
    <2>3. ASSUME ~clash' PROVE Apart'
      <3>1. Apart /\ \A m \in InUse : id[m] # i
        BY <2>1, <2>3 DEF ApartInv
      <3>2. \A m \in InUse' : IF m = made + 1 THEN id'[m] = i
                              ELSE m \in InUse /\ id'[m] = id[m] /\ id'[m] # i
        BY <1>3, <2>1, <2>2, <3>1
      <3> QED BY <3>1, <3>2 DEF Apart
    <2> QED BY <1>1, <2>1, <2>3 DEF ApartInv
  <1> QED BY <1>1, <1>2, <1>3, UseOfStep

(* At the start nothing is in use. *)
LEMMA ApartInit == Init => ApartInv
  BY MqttTypeInit DEF Init, ApartInv, Apart, InUse, Held, About

-----------------------------------------------------------------------------
(* What looking up an id comes to while the ids in use differ. *)

(* The new message is the one that is marked. *)
LEMMA MakeAlone ==
    ASSUME TypeOK, NEW s, NEW p, Make(s, p), ~clash'
    PROVE  pending' = [pending EXCEPT ![made + 1] = p]
  <1> USE DEF TypeOK, OutboxTypes
  <1>1. CASE p # "TRANSMITTED"
    BY <1>1 DEF Make
  <1>2. CASE p = "TRANSMITTED"
    <2> DEFINE items == [pending EXCEPT ![made + 1] = "QUEUED"]
    <2>1. made + 1 \in Messages
      BY MqttAssumption DEF Make, Messages
    <2>2. PICK i : /\ id' = [id EXCEPT ![made + 1] = i]
                   /\ clash' = (clash \/ \E m \in InUse : id[m] = i)
      BY DEF Make, DrawId
    <2>3. id'[made + 1] = i /\ pending' = SetPending(items, id', i, p)
      BY <1>2, <2>1, <2>2 DEF Make
    <2>4. {m \in Messages : items[m] # "absent" /\ id'[m] = i} = {made + 1}
      <3>1. \A m \in Messages : m # made + 1 /\ items[m] # "absent" => id'[m] # i
        BY <2>2, InUseType DEF Held
      <3> QED BY <2>1, <2>3, <3>1
    <2>5. Earliest({made + 1}) = {made + 1}
      BY <2>1 DEF Earliest, Messages
    <2>6. pending' = [m \in Messages |-> IF m \in {made + 1} THEN p ELSE items[m]]
      BY <2>3, <2>4, <2>5 DEF SetPending
    <2> QED BY <2>1, <2>6
  <1> QED BY <1>1, <1>2

(* An item that is looked up is the one that is meant, if it is there. *)
LEMMA FoundAlone ==
    ASSUME TypeOK, Apart, NEW m \in InUse
    PROVE  /\ {n \in Messages : pending[n] # "absent" /\ id[n] = id[m]}
                = {n \in {m} : pending[n] # "absent"}
           /\ \A S : Earliest({n \in Held : id[n] = id[m] /\ sort[n] \in S}) \subseteq {m}
           /\ HeldId(id[m]) = {m} \cap holding
  <1>1. Held \subseteq InUse /\ holding \subseteq InUse /\ InUse \subseteq Messages
    BY InUseType DEF InUse
  <1>2. \A n \in InUse : id[n] = id[m] => n = m
    BY DEF Apart
  <1> QED BY <1>1, <1>2 DEF Held, HeldId, Earliest

LEMMA SetPendingAlone ==
    ASSUME TypeOK, Apart, NEW m \in InUse, NEW p
    PROVE  SetPending(pending, id, id[m], p)
             = IF pending[m] = "absent" THEN pending ELSE [pending EXCEPT ![m] = p]
  <1> USE DEF TypeOK, OutboxTypes
  <1>1. m \in Messages /\ m \in Int
    BY InUseType DEF Messages
  <1>2. {n \in Messages : pending[n] # "absent" /\ id[n] = id[m]} = {n \in {m} : pending[n] # "absent"}
    BY FoundAlone
  <1>3. CASE pending[m] = "absent"
    <2>1. Earliest({n \in {m} : pending[n] # "absent"}) = {}
      BY <1>3 DEF Earliest
    <2> QED BY <1>2, <1>3, <2>1 DEF SetPending
  <1>4. CASE pending[m] # "absent"
    <2>1. Earliest({n \in {m} : pending[n] # "absent"}) = {m}
      BY <1>1, <1>4 DEF Earliest
    <2>2. SetPending(pending, id, id[m], p) = [n \in Messages |-> IF n \in {m} THEN p ELSE pending[n]]
      BY <1>2, <2>1 DEF SetPending
    <2> QED BY <1>1, <1>4, <2>2
  <1> QED BY <1>3, <1>4

(* An answer is about a message in use, *)
LEMMA AnswerAlone ==
    ASSUME TypeOK, Apart, down # << >>, Head(down).type \in Responses
    PROVE  /\ Head(down).of \in InUse /\ Head(down).of \in Messages
           /\ \A S : Initiator(S) \subseteq {Head(down).of}
  <1>1. Head(down).of \in InUse
    BY AboutTail DEF TypeOK, NetworkTypes, InUse
  <1> QED BY <1>1, InUseType, FoundAlone DEF Initiator

(* and so is what is sent from the outbox, *)
LEMMA ResentAlone ==
    ASSUME TypeOK, Apart, NEW m \in First("QUEUED"), pending' \in Resent(m)
    PROVE  \/ pending' = pending /\ sort[m] \notin Pub
           \/ pending' = [pending EXCEPT ![m] = Kept(sort[m], "TRANSMITTED")]
  <1>1. m \in InUse /\ pending[m] = "QUEUED"
    BY InUseType DEF First, Earliest, In, Held
  <1>2. SetPending(pending, id, id[m], "TRANSMITTED") = [pending EXCEPT ![m] = "TRANSMITTED"]
    BY <1>1, SetPendingAlone
  <1> QED BY <1>2 DEF Resent, Kept

(* and what the broker is sent. *)
LEMMA BrokerAlone ==
    ASSUME TypeOK, Apart, up # << >>, Head(up).type \in Requests
    PROVE  HeldId(id[Head(up).of]) = {Head(up).of} \cap holding /\ Head(up).of \in Messages
  <1>1. Head(up).of \in InUse
    BY AboutTail DEF TypeOK, NetworkTypes, InUse
  <1> QED BY <1>1, InUseType, FoundAlone

-----------------------------------------------------------------------------
(* What a packet on its way shows of the two ends: the broker has taken what *)
(* it acknowledges and what the client releases, unless an id was drawn that *)
(* was in use, and the application has been given what the client            *)
(* acknowledges, or a part of it.                                            *)

UpHonest(p) ==
    /\ p.type = "PUBREL" => clash \/ got[p.of] > 0
    /\ p.type \in {"PUBACK", "PUBREC", "PUBCOMP"} => p.of \in heard \cup part

DownHonest(p) ==
    /\ p.type \in {"PUBACK", "PUBREC", "PUBCOMP"} => clash \/ got[p.of] > 0
    /\ p.type = "PUBREL" => p.of \in heard \cup part

HonestUp   == \A k \in DOMAIN up : UpHonest(up[k])
HonestDown == \A k \in DOMAIN down : DownHonest(down[k])

HoldingArrived == ~clash => \A m \in holding : got[m] > 0
AcknowledgedArrived ==
    ~clash => \A m \in Messages : pending[m] = "ACKNOWLEDGED" => got[m] > 0

HonestInv ==
    /\ TypeOK /\ ApartInv
    /\ HonestUp /\ HonestDown
    /\ PublishedArrived /\ AcknowledgedArrived /\ HoldingArrived /\ HeardBeforeAck

(* The broker forgets no arrival, and the application keeps what it heard. *)
LEMMA Memory ==
    ASSUME TypeOK, [Next]_vars
    PROVE  /\ \A m \in Messages : got[m] > 0 => got'[m] > 0
           /\ heard \subseteq heard' /\ part \subseteq part'
  <1> USE DEF broker, client
  <1>1. CASE UNCHANGED vars
    BY <1>1 DEF vars
  <1>2. CASE Application \/ Loss
    BY <1>2 DEF Application, PublishLater, PublishNow, PublishFails, Enqueue, CheckConnected,
                Subscribe, Start, Stop, Stopped, Disconnect, Reconnect, Make, Loss
  <1>3. CASE Task
    BY <1>3 DEF Task, SetRun, ClearStopped, LoopTop, Exit, Connect, WaitReconnect,
                DisconnectRequested, Receive, NothingToRead, ReadError, ReceiveSubscribed,
                ReceiveConfirmed, ReceivePing, ReceivePubrec, ReceivePubrel, ReceivePublish,
                ReceiveStalled, Resend, NotYet, Retransmit, Release, NoRelease, KeepAlive,
                Refresh, PollError, Steps, Takes
  <1>4. CASE Broker
    <2>1. CASE BrokerTakesPublish
      <3>1. Head(up).of \in Messages
        BY <2>1, HeadEntry, PacketFacts DEF BrokerTakesPublish, TypeOK, NetworkTypes
      <3> QED
        BY <2>1, <3>1 DEF BrokerTakesPublish, Replies, Takes1, TypeOK, BrokerTypes
    <2>2. CASE BrokerReleases \/ BrokerAnswers \/ BrokerHears
      BY <2>2 DEF BrokerReleases, BrokerAnswers, BrokerHears, Replies
    <2>3. ASSUME NEW b \in Incoming, BrokerSends(b)
          PROVE  UNCHANGED << got, heard, part >>
      BY <2>3 DEF BrokerSends
    <2> QED BY <1>4, <2>1, <2>2, <2>3 DEF Broker
  <1> QED BY <1>1, <1>2, <1>3, <1>4 DEF Next

(* What the client sends is honest. *)
LEMMA HonestUpStep == HonestInv /\ [Next]_vars => HonestUp'
  <1> SUFFICES ASSUME HonestInv, [Next]_vars PROVE HonestUp'
    OBVIOUS
  <1> USE DEF network
  <1>0. /\ up \in Seq(UpPackets) /\ down \in Seq(DownPackets)
        /\ up' \in Seq(UpPackets)
    BY MqttTypeStep DEF HonestInv, TypeOK, NetworkTypes
  <1>1. \A p \in UpPackets : UpHonest(p) => UpHonest(p)'
    BY Memory, ApartStep, PacketFacts DEF HonestInv, UpHonest
  <1>2. CASE UNCHANGED up
    BY <1>0, <1>1, <1>2 DEF HonestInv, HonestUp
  <1>3. ASSUME NEW p \in UpPackets, UpHonest(p)', Sent(p) \/ up' = Append(up, p) PROVE HonestUp'
    <2>1. CASE UNCHANGED up
      BY <1>2, <2>1
    <2>2. CASE up' = Append(up, p)
      BY <1>0, <1>1, <1>3, <2>2, AppendEntries DEF HonestInv, HonestUp
    <2> QED BY <1>3, <2>1, <2>2 DEF Sent
  <1>4. CASE up # << >> /\ up' = Tail(up)
    BY <1>0, <1>1, <1>4, TailEntries DEF HonestInv, HonestUp
  <1>5. \A m \in Messages : \A t \in {"PUBLISH", "SUBSCRIBE", "UNSUBSCRIBE"} :
          Packet(t, m) \in UpPackets /\ UpHonest(Packet(t, m))'
    BY UpFromMessage DEF UpHonest, Packet
  <1>6. made < MaxMessages => made + 1 \in Messages
    BY MqttAssumption DEF HonestInv, TypeOK, OutboxTypes, Messages
  <1>7. CASE UNCHANGED vars
    BY <1>2, <1>7 DEF vars
  <1>8. CASE Application
    BY <1>2, <1>3, <1>5, <1>6, <1>8
    DEF Application, PublishLater, PublishNow, PublishFails, Enqueue, CheckConnected, Subscribe,
        Start, Stop, Stopped, Disconnect, Reconnect, Make, FailedWrite, Abort, Breaks, Unwritten
  <1>9. CASE SetRun \/ ClearStopped \/ LoopTop \/ Exit \/ Connect \/ WaitReconnect
             \/ DisconnectRequested
    BY <1>2, <1>9 DEF SetRun, ClearStopped, LoopTop, Exit, Connect, WaitReconnect,
                      DisconnectRequested, Abort, HonestUp
  <1>10. CASE Receive
    <2>1. down # << >> => Head(down) \in DownPackets /\ DownHonest(Head(down))
      BY <1>0, HeadEntry DEF HonestInv, HonestDown
    <2>2. CASE ReceivePubrec
      <3> DEFINE p == Packet("PUBREL", Head(down).of)
      <3>1. p \in UpPackets
        BY <2>1, <2>2, PacketFacts, UpFromMessage DEF ReceivePubrec, Takes
      <3>2. UpHonest(p)
        BY <2>1, <2>2 DEF ReceivePubrec, Takes, DownHonest, UpHonest, Packet
      <3> QED BY <1>1, <1>2, <1>3, <2>2, <3>1, <3>2 DEF ReceivePubrec, Answers
    <2>3. CASE ReceivePubrel
      <3> DEFINE p == Packet("PUBCOMP", Head(down).of)
      <3>1. p \in UpPackets
        BY <2>1, <2>3, PacketFacts, UpFromIncoming DEF ReceivePubrel, Takes
      <3>2. UpHonest(p)
        BY <2>1, <2>3 DEF ReceivePubrel, Takes, DownHonest, UpHonest, Packet
      <3> QED BY <1>1, <1>2, <1>3, <2>3, <3>1, <3>2 DEF ReceivePubrel, Answers
    <2>4. CASE ReceivePublish \/ ReceiveStalled
      <3>1. Head(down).of \in Incoming /\ Head(down).of \in (heard \cup part)'
        BY <2>1, <2>4, PacketFacts DEF ReceivePublish, ReceiveStalled
      <3>2. ASSUME NEW t \in {"PUBREC", "PUBACK"}, NEW i, i = Head(down).of,
                   up' = Append(up, Packet(t, i))
            PROVE  HonestUp'
        <4>1. Packet(t, i) \in UpPackets
          BY <3>1, <3>2, UpFromIncoming
        <4>2. UpHonest(Packet(t, i))'
          BY <3>1, <3>2 DEF UpHonest, Packet
        <4> QED BY <1>3, <3>2, <4>1, <4>2
      <3> QED BY <1>2, <2>4, <3>2 DEF ReceivePublish, ReceiveStalled, Acknowledgement,
                                      FailedWrite, Abort
    <2>5. CASE NothingToRead \/ ReadError \/ ReceiveSubscribed \/ ReceiveConfirmed \/ ReceivePing
      BY <1>2, <2>5 DEF NothingToRead, ReadError, ReceiveSubscribed, ReceiveConfirmed,
                        ReceivePing, Takes, Abort
    <2> QED BY <1>10, <2>2, <2>3, <2>4, <2>5 DEF Receive
  <1>11. ASSUME NEW m \in Messages, pending[m] = "ACKNOWLEDGED"
         PROVE  Packet("PUBREL", m) \in UpPackets /\ UpHonest(Packet("PUBREL", m))'
    <2>1. UpHonest(Packet("PUBREL", m))
      BY <1>11 DEF HonestInv, AcknowledgedArrived, UpHonest, Packet
    <2> QED BY <1>1, <2>1, UpFromMessage
  <1>13. CASE Resend \/ Retransmit
    <2>1. CASE UNCHANGED up
      BY <1>2, <2>1
    <2>2. ASSUME NEW m \in Messages, Sent(Outgoing(m)) PROVE HonestUp'
      <3>1. PICK p \in UpPackets : p = Outgoing(m) /\ p.type # "PUBREL"
                                   /\ p.type \notin {"PUBACK", "PUBREC", "PUBCOMP"}
        BY OutgoingType DEF Outgoing, Packet
      <3>2. UpHonest(p)'
        BY <3>1 DEF UpHonest
      <3> QED BY <1>3, <2>2, <3>1, <3>2
    <2> QED BY <1>13, <2>1, <2>2 DEF Resend, Retransmit, Again, First, Earliest, In, FailedWrite,
                                     Abort
  <1>14. CASE Release
    BY <1>2, <1>3, <1>11, <1>14 DEF Release, Again, First, Earliest, In, FailedWrite,
                                           Abort
  <1>15. CASE NotYet \/ NoRelease \/ Refresh \/ PollError
    BY <1>2, <1>15 DEF NotYet, NoRelease, Refresh, PollError, Abort
  <1>16. CASE KeepAlive
    <2>1. Packet("PINGREQ", 0) \in UpPackets /\ UpHonest(Packet("PINGREQ", 0))'
      BY UpPing DEF UpHonest, Packet
    <2> QED BY <1>2, <1>3, <1>16, <2>1 DEF KeepAlive, FailedWrite, Abort
  <1>17. CASE Loss \/ Broker
    BY <1>2, <1>4, <1>17 DEF Loss, Breaks, Broker, BrokerTakesPublish, BrokerReleases,
                             BrokerAnswers, BrokerHears, BrokerSends, Replies
  <1> QED BY <1>7, <1>8, <1>9, <1>10, <1>13, <1>14, <1>15, <1>16, <1>17 DEF Next, Task

(* The broker has what it is just being sent. *)
LEMMA TakenArrives ==
    ASSUME TypeOK, ApartInv, HoldingArrived, BrokerTakesPublish
    PROVE  clash' \/ got'[Head(up).of] > 0
  <1> SUFFICES ASSUME ~clash' PROVE got'[Head(up).of] > 0
    OBVIOUS
  <1>1. ~clash /\ Apart
    BY DEF BrokerTakesPublish, Replies, client, ApartInv
  <1>2. HeldId(id[Head(up).of]) = {Head(up).of} \cap holding /\ Head(up).of \in Messages
    BY <1>1, BrokerAlone DEF BrokerTakesPublish
  <1> QED BY <1>1, <1>2 DEF BrokerTakesPublish, Takes1, HoldingArrived, TypeOK, BrokerTypes

(* What the broker sends is honest. *)
LEMMA HonestDownStep == HonestInv /\ [Next]_vars => HonestDown'
  <1> SUFFICES ASSUME HonestInv, [Next]_vars PROVE HonestDown'
    OBVIOUS
  <1> USE DEF network
  <1>0. /\ up \in Seq(UpPackets) /\ down \in Seq(DownPackets)
        /\ down' \in Seq(DownPackets)
    BY MqttTypeStep DEF HonestInv, TypeOK, NetworkTypes
  <1>1. \A p \in DownPackets : DownHonest(p) => DownHonest(p)'
    BY Memory, ApartStep, PacketFacts DEF HonestInv, DownHonest
  <1>2. CASE UNCHANGED down
    BY <1>0, <1>1, <1>2 DEF HonestInv, HonestDown
  <1>3. ASSUME NEW p \in DownPackets, DownHonest(p)', down' = Append(down, p) PROVE HonestDown'
    BY <1>0, <1>1, <1>3, AppendEntries DEF HonestInv, HonestDown
  <1>4. CASE down # << >> /\ down' = Tail(down)
    BY <1>0, <1>1, <1>4, TailEntries DEF HonestInv, HonestDown
  <1>5. CASE down' = << >>
    BY <1>5 DEF HonestDown
  <1>7. CASE UNCHANGED vars
    BY <1>2, <1>7 DEF vars
  <1>8. CASE Application \/ Loss
    BY <1>2, <1>5, <1>8
    DEF Application, PublishLater, PublishNow, PublishFails, Enqueue, CheckConnected, Subscribe,
        Start, Stop, Stopped, Disconnect, Reconnect, Make, FailedWrite, Abort, Breaks, Unwritten,
        Sent, Loss
  <1>9. CASE SetRun \/ ClearStopped \/ LoopTop \/ Exit \/ Connect \/ WaitReconnect
             \/ DisconnectRequested
    BY <1>2, <1>5, <1>9 DEF SetRun, ClearStopped, LoopTop, Exit, Connect, WaitReconnect,
                            DisconnectRequested, Abort
  <1>10. CASE Receive
    BY <1>2, <1>4, <1>5, <1>10
    DEF Receive, NothingToRead, ReadError, ReceiveSubscribed, ReceiveConfirmed, ReceivePing,
        ReceivePubrec, ReceivePubrel, ReceivePublish, ReceiveStalled, Takes, FailedWrite, Abort
  <1>11. CASE Resend \/ NotYet \/ Retransmit \/ Release \/ NoRelease \/ KeepAlive \/ Refresh
              \/ PollError
    BY <1>2, <1>5, <1>11 DEF Resend, NotYet, Retransmit, Release, NoRelease, KeepAlive, Refresh,
                             PollError, Again, Sent, FailedWrite, Abort
  <1>12. CASE Broker
    <2>1. up # << >> => Head(up) \in UpPackets /\ UpHonest(Head(up))
      BY <1>0, HeadEntry DEF HonestInv, HonestUp
    <2>2. ASSUME NEW t, NEW i, i = Head(up).of, Replies(t),
                 t # "none" => /\ Packet(t, i) \in DownPackets
                               /\ DownHonest(Packet(t, i))'
          PROVE  HonestDown'
      BY <1>2, <1>3, <2>2 DEF Replies
    <2>8. PICK i : i = Head(up).of
      OBVIOUS
    <2>3. CASE BrokerTakesPublish
      <3>1. PICK t \in {"PUBACK", "PUBREC", "none"} : Replies(t)
        BY <2>3 DEF BrokerTakesPublish
      <3>3. i \in Messages
        BY <2>1, <2>3, <2>8, PacketFacts DEF BrokerTakesPublish
      <3>4. clash' \/ got'[i] > 0
        BY <2>3, <2>8, <3>3, TakenArrives DEF HonestInv
      <3>5. ASSUME t # "none"
            PROVE  /\ Packet(t, i) \in DownPackets
                   /\ DownHonest(Packet(t, i))'
        BY <3>1, <3>3, <3>4, <3>5, DownFromMessage DEF DownHonest, Packet
      <3> QED BY <2>2, <2>8, <3>1, <3>5
    <2>4. CASE BrokerReleases
      <3>1. i \in Messages /\ (clash' \/ got'[i] > 0)
        BY <2>1, <2>4, <2>8, Memory, ApartStep, PacketFacts DEF BrokerReleases, UpHonest, HonestInv
      <3>2. Packet("PUBCOMP", i) \in DownPackets
        BY <3>1, DownFromMessage
      <3>3. DownHonest(Packet("PUBCOMP", i))'
        BY <3>1 DEF DownHonest, Packet
      <3> QED BY <2>2, <2>4, <2>8, <3>2, <3>3 DEF BrokerReleases
    <2>5. CASE BrokerAnswers
      <3>1. PICK t \in {"SUBACK", "UNSUBACK", "PINGRESP"} :
              Replies(t) /\ Packet(t, i) \in DownPackets
        BY <2>1, <2>5, <2>8 DEF BrokerAnswers, Packet, UpPackets, DownPackets
      <3>2. DownHonest(Packet(t, i))'
        BY <3>1 DEF DownHonest, Packet
      <3> QED BY <2>2, <2>8, <3>1, <3>2
    <2>6. CASE BrokerHears
      BY <2>2, <2>6, <2>8 DEF BrokerHears
    <2>7. ASSUME NEW b \in Incoming, BrokerSends(b) PROVE HonestDown'
      <3>1. /\ Packet("PUBLISH", b) \in DownPackets /\ DownHonest(Packet("PUBLISH", b))'
            /\ Packet("PUBREL", b) \in DownPackets
        BY DownFromIncoming DEF DownHonest, Packet
      <3>2. inbound[b] = "received" => DownHonest(Packet("PUBREL", b))'
        BY Memory DEF HonestInv, HeardBeforeAck, DownHonest, Packet
      <3> QED BY <1>3, <2>7, <3>1, <3>2 DEF BrokerSends
    <2> QED BY <1>12, <2>3, <2>4, <2>5, <2>6, <2>7 DEF Broker
  <1> QED BY <1>7, <1>8, <1>9, <1>10, <1>11, <1>12 DEF Next, Task

(* What is confirmed or acknowledged on either side has reached its end. *)
LEMMA HonestStateStep ==
    HonestInv /\ [Next]_vars
        => PublishedArrived' /\ AcknowledgedArrived' /\ HoldingArrived' /\ HeardBeforeAck'
  <1> SUFFICES ASSUME HonestInv, [Next]_vars
               PROVE  PublishedArrived' /\ AcknowledgedArrived' /\ HoldingArrived' /\ HeardBeforeAck'
    OBVIOUS
  <1> USE DEF HonestInv, TypeOK, OutboxTypes, BrokerTypes
  <1>1. down # << >> => Head(down) \in DownPackets /\ DownHonest(Head(down))
    BY HeadEntry DEF HonestDown, NetworkTypes
  <1>2. up # << >> => Head(up) \in UpPackets /\ UpHonest(Head(up))
    BY HeadEntry DEF HonestUp, NetworkTypes
  <1>3. /\ UNCHANGED published => PublishedArrived'
        /\ UNCHANGED holding => HoldingArrived'
        /\ UNCHANGED inbound => HeardBeforeAck'
        /\ (\A m \in Messages : pending'[m] \in {"absent", "QUEUED", "TRANSMITTED", pending[m]})
             => AcknowledgedArrived'
    BY Memory, ApartStep DEF PublishedArrived, HoldingArrived, HeardBeforeAck, AcknowledgedArrived
  <1>11. clash' \/ (~clash /\ Apart)
    BY ApartStep DEF ApartInv
  <1> USE DEF client, outbox, broker
  <1>4. CASE UNCHANGED vars
    BY <1>3, <1>4 DEF vars
  <1>5. CASE Application \/ Loss
    <2>1. ASSUME NEW s, NEW p \in {"absent", "QUEUED", "TRANSMITTED"}, Make(s, p)
          PROVE  AcknowledgedArrived' /\ UNCHANGED << published, holding, inbound >>
      <3>1. clash' \/ pending' = [pending EXCEPT ![made + 1] = p]
        BY <2>1, MakeAlone
      <3>2. (\A m \in Messages : pending'[m] \in {"absent", "QUEUED", "TRANSMITTED", pending[m]})
              => AcknowledgedArrived'
        BY <1>3
      <3>3. AcknowledgedArrived'
        BY <3>1, <3>2 DEF AcknowledgedArrived
      <3> QED BY <2>1, <3>3 DEF Make
    <2>2. ASSUME NEW s \in Pub, PublishLater(s) \/ PublishNow(s) \/ PublishFails(s) \/ Enqueue(s)
          PROVE  AcknowledgedArrived' /\ UNCHANGED << published, holding, inbound >>
      BY <2>1, <2>2 DEF PublishLater, PublishNow, PublishFails, Enqueue, Kept
    <2>3. CASE Subscribe
      BY <1>3, <2>1, <2>3 DEF Subscribe
    <2> QED
      BY <1>3, <1>5, <2>2, <2>3 DEF Application, CheckConnected, Start, Stop, Stopped, Disconnect,
                                    Reconnect, Loss
  <1>6. CASE SetRun \/ ClearStopped \/ LoopTop \/ Exit \/ WaitReconnect
             \/ DisconnectRequested
    BY <1>3, <1>6 DEF SetRun, ClearStopped, LoopTop, Exit, WaitReconnect,
                      DisconnectRequested, Steps
  <1>7. CASE Connect
    <2>1. HeardBeforeAck'
      BY <1>7 DEF Connect, HeardBeforeAck
    <2> QED BY <1>3, <1>7, <2>1 DEF Connect
  <1>8. CASE Receive
    <2>1. CASE ReceivePubrec
      <3> DEFINE m == Head(down).of
      <3>2. down # << >> /\ Head(down).type = "PUBREC"
            /\ pending' = SetPending(pending, id, id[m], "ACKNOWLEDGED")
        BY <2>1 DEF ReceivePubrec, Takes
      <3>3. Apart => m \in InUse /\ m \in Messages
        BY <3>2, AnswerAlone
      <3>4. Apart => pending' \in {pending, [pending EXCEPT ![m] = "ACKNOWLEDGED"]}
        BY <3>2, <3>3, SetPendingAlone
      <3>5. clash \/ got[m] > 0
        BY <1>1, <3>2 DEF DownHonest
      <3>1. AcknowledgedArrived'
        BY <1>11, <3>3, <3>4, <3>5, Memory, ApartStep DEF AcknowledgedArrived
      <3> QED BY <1>3, <2>1, <3>1 DEF ReceivePubrec
    <2>2. CASE ReceiveConfirmed
      <3>2. /\ down # << >> /\ Head(down).type \in {"PUBACK", "PUBCOMP"}
            /\ published' = published \cup Initiator(Pub)
        BY <2>2 DEF ReceiveConfirmed, Takes
      <3>3. Apart => Initiator(Pub) \subseteq {Head(down).of} /\ Head(down).of \in Messages
        BY <3>2, AnswerAlone
      <3>4. clash \/ got[Head(down).of] > 0
        BY <1>1, <3>2 DEF DownHonest
      <3>1. PublishedArrived'
        BY <1>11, <3>2, <3>3, <3>4, Memory, ApartStep DEF PublishedArrived
      <3> QED BY <1>3, <2>2, <3>1 DEF ReceiveConfirmed, RemoveInitiator
    <2>3. CASE NothingToRead \/ ReadError \/ ReceiveSubscribed \/ ReceivePing \/ ReceivePubrel
               \/ ReceivePublish \/ ReceiveStalled
      BY <1>3, <2>3 DEF NothingToRead, ReadError, ReceiveSubscribed, ReceivePing, ReceivePubrel,
                        ReceivePublish, ReceiveStalled, Steps, RemoveInitiator
    <2> QED BY <1>8, <2>1, <2>2, <2>3 DEF Receive
  <1>9. CASE Resend \/ NotYet \/ Retransmit \/ Release \/ NoRelease \/ KeepAlive \/ Refresh
             \/ PollError
    <2>1. CASE Resend
      <3>1. CASE UNCHANGED pending
        BY <1>3, <2>1, <3>1 DEF Resend, Steps
      <3>2. ASSUME NEW m \in First("QUEUED"), pending' \in Resent(m), ~clash'
            PROVE  \A n \in Messages : pending'[n] \in {"absent", "QUEUED", "TRANSMITTED", pending[n]}
        <4>1. \/ pending' = pending
              \/ pending' = [pending EXCEPT ![m] = Kept(sort[m], "TRANSMITTED")]
          BY <1>11, <3>2, ResentAlone
        <4> QED BY <4>1 DEF Kept
      <3>3. clash' => AcknowledgedArrived'
        BY DEF AcknowledgedArrived
      <3> QED BY <1>3, <2>1, <3>1, <3>2, <3>3 DEF Resend, Steps
    <2> QED
      BY <1>3, <1>9, <2>1 DEF NotYet, Retransmit, Release, NoRelease, KeepAlive, Refresh,
                              PollError, Again, Steps
  <1>10. CASE Broker
    <2>1. CASE BrokerTakesPublish
      <3>1. Head(up).of \in Messages
        BY <1>2, <2>1, PacketFacts DEF BrokerTakesPublish
      <3>2. HoldingArrived'
        BY <1>11, <2>1, <3>1, Memory, ApartStep, TakenArrives DEF BrokerTakesPublish, HoldingArrived
      <3> QED BY <1>3, <2>1, <3>2 DEF BrokerTakesPublish, Replies
    <2>2. CASE BrokerReleases
      BY <1>3, <2>2 DEF BrokerReleases, Replies, HoldingArrived
    <2>3. CASE BrokerAnswers
      BY <1>3, <2>3 DEF BrokerAnswers, Replies
    <2>4. CASE BrokerHears
      <3>1. HeardBeforeAck'
        BY <1>2, <2>4 DEF BrokerHears, Replies, UpHonest, HeardBeforeAck
      <3> QED BY <1>3, <2>4, <3>1 DEF BrokerHears, Replies
    <2>5. ASSUME NEW b \in Incoming, BrokerSends(b) PROVE HeardBeforeAck' /\ UNCHANGED << published, pending, holding >>
      BY <2>5 DEF BrokerSends, HeardBeforeAck
    <2> QED BY <1>3, <1>10, <2>1, <2>2, <2>3, <2>4, <2>5 DEF Broker
  <1> QED BY <1>4, <1>5, <1>6, <1>7, <1>8, <1>9, <1>10 DEF Next, Task

(* HonestInv is an inductive invariant. *)
LEMMA HonestInvariant == Spec => []HonestInv
<1>1. Init => HonestInv
  BY MqttTypeInit, ApartInit DEF Init, HonestInv, HonestUp, HonestDown, PublishedArrived,
                      AcknowledgedArrived, HoldingArrived, HeardBeforeAck
<1>2. HonestInv /\ [Next]_vars => HonestInv'
  BY MqttTypeStep, ApartStep, HonestUpStep, HonestDownStep, HonestStateStep DEF HonestInv
<1> QED BY <1>1, <1>2, PTL DEF Spec

(* As long as no id is drawn while an item in the outbox, a packet on its way  *)
(* or the broker still uses it, a message reported to the application as      *)
(* published has reached the broker, through aborts, losses, retransmissions  *)
(* and stops, for any number of messages and any other repetition of ids.     *)
THEOREM PublishedHasArrived == Spec => []PublishedArrived
<1>1. HonestInv => PublishedArrived
  BY DEF HonestInv
<1> QED BY <1>1, HonestInvariant, PTL

(* A publication the broker may forget because it was acknowledged has been   *)
(* given to the application in full, or in part before it stalled.            *)
THEOREM AcknowledgedWasHeard == Spec => []HeardBeforeAck
<1>1. HonestInv => HeardBeforeAck
  BY DEF HonestInv
<1> QED BY <1>1, HonestInvariant, PTL

-----------------------------------------------------------------------------
(* Why a message of QoS 2 is not taken twice.  Once the broker may have      *)
(* forgotten it, because it was released, the client publishes it no more    *)
(* and nothing that was published before is left on the way.  All of this    *)
(* holds until an id is drawn that is still in use.                          *)

Waiting(m) == pending[m] \in {"QUEUED", "TRANSMITTED"}
Over(m)    == sort[m] = "qos2" /\ got[m] > 0 /\ m \notin holding

OnceTaken == \A m \in Messages : sort[m] = "qos2" => got[m] < 2

Fresh == \A m \in Messages :
    m > made => sort[m] = "none" /\ pending[m] = "absent" /\ got[m] = 0 /\ m \notin holding

OverIsOver == \A m \in Messages : Over(m) => ~Waiting(m)

AcknowledgedKind == \A m \in Messages : pending[m] = "ACKNOWLEDGED" => sort[m] = "qos2"

UpOnce == \A k \in DOMAIN up :
    /\ up[k].type = "PUBLISH" => up[k].of <= made /\ ~Over(up[k].of)
    /\ up[k].type = "PUBREL" =>
         up[k].of <= made /\ sort[up[k].of] = "qos2" /\ ~Waiting(up[k].of)

ReleasedLast == \A j, k \in DOMAIN up :
    j < k /\ up[j].type = "PUBREL" /\ up[k].type = "PUBLISH" => up[j].of # up[k].of

DownOnce == \A k \in DOMAIN down : down[k].type = "PUBREC" => sort[down[k].of] = "qos2"

OnceInv ==
    /\ TypeOK /\ OnceTaken
    /\ Fresh /\ OverIsOver /\ AcknowledgedKind /\ UpOnce /\ ReleasedLast /\ DownOnce

(* A step that leaves the broker and the messages alone, and writes at most  *)
(* one packet: a message that waits, or the release of one that does not.    *)
MaySend(p) ==
    /\ p.type = "PUBLISH" => Waiting(p.of)
    /\ p.type = "PUBREL" => sort[p.of] = "qos2" /\ ~Waiting(p.of)'

Settled == UNCHANGED << made, sort, got, holding >>

Progress == \A m \in Messages :
    \/ pending'[m] \in {pending[m], "absent"}
    \/ pending'[m] = "ACKNOWLEDGED" /\ sort[m] = "qos2"
    \/ pending'[m] = "TRANSMITTED" /\ pending[m] = "QUEUED"

OneSent ==
    \/ up' = up
    \/ up' = << >>
    \/ \E p \in UpPackets : MaySend(p) /\ up' = Append(up, p)

OneTaken ==
    \/ down' = down
    \/ down' = << >>
    \/ down # << >> /\ down' = Tail(down)

(* A step of the client that makes no message keeps the invariant. *)
LEMMA ClientStepOnce ==
    ASSUME OnceInv, TypeOK', Settled, Progress, OneSent, OneTaken
    PROVE  OnceInv'
  <1> USE DEF OnceInv, TypeOK, OutboxTypes, BrokerTypes, Settled, Progress, OneSent, OneTaken
  <1>1. /\ up \in Seq(UpPackets) /\ down \in Seq(DownPackets) /\ up' \in Seq(UpPackets)
    BY DEF NetworkTypes
  <1>2. \A m \in Messages : /\ Waiting(m)' => Waiting(m)
                            /\ Over(m)' <=> Over(m)
    BY DEF Waiting, Over
  <1>3. OnceTaken' /\ Fresh' /\ OverIsOver' /\ AcknowledgedKind'
    <2>1. Fresh'
      BY DEF Fresh
    <2> QED BY <1>2, <2>1 DEF OnceTaken, OverIsOver, AcknowledgedKind
  <1>4. DownOnce'
    <2>1. CASE down' = down \/ down' = << >>
      BY <2>1 DEF DownOnce
    <2>2. CASE down # << >> /\ down' = Tail(down)
      BY <1>1, <2>2, TailEntries DEF DownOnce
    <2> QED BY <2>1, <2>2
  <1>5. \A p \in UpPackets : p.type \in {"PUBLISH", "PUBREL"} => p.of \in Messages
    BY PacketFacts
  <1>6. CASE up' = up
    <2>1. UpOnce'
      BY <1>1, <1>2, <1>5, <1>6 DEF UpOnce
    <2>2. ReleasedLast'
      BY <1>1, <1>6 DEF ReleasedLast
    <2> QED BY <1>3, <1>4, <2>1, <2>2
  <1>7. CASE up' = << >>
    BY <1>3, <1>4, <1>7 DEF UpOnce, ReleasedLast
  <1>8. ASSUME NEW p \in UpPackets, MaySend(p), up' = Append(up, p) PROVE OnceInv'
    <2>1. \A k \in DOMAIN up' : \/ k \in DOMAIN up /\ up'[k] = up[k]
                                \/ k = Len(up) + 1 /\ up'[k] = p
      BY <1>1, <1>8, AppendEntries
    <2>6. \A m \in Messages : m > made \/ m <= made
      BY MqttAssumption DEF Messages
    <2>2. p.type = "PUBLISH" => p.of <= made /\ ~Over(p.of)
      BY <1>5, <1>8, <2>6 DEF MaySend, Fresh, OverIsOver, Waiting
    <2>3. p.type = "PUBREL" => p.of <= made /\ sort[p.of] = "qos2" /\ ~Waiting(p.of)'
      BY <1>5, <1>8, <2>6 DEF MaySend, Fresh
    <2>4. UpOnce'
      BY <1>1, <1>2, <1>5, <2>1, <2>2, <2>3 DEF UpOnce
    <2>5. ReleasedLast'
      <3>1. p.type = "PUBLISH" => \A j \in DOMAIN up : up[j].type = "PUBREL" => up[j].of # p.of
        BY <1>8 DEF MaySend, UpOnce
      <3> QED BY <1>1, <2>1, <3>1 DEF ReleasedLast
    <2> QED BY <1>3, <1>4, <2>4, <2>5
  <1> QED BY <1>6, <1>7, <1>8

(* A new message of the application, perhaps already written. *)
LEMMA MakeOnce ==
    ASSUME OnceInv, TypeOK', NEW s \in Pub \cup {"subscribe", "unsubscribe"},
           NEW p \in {"absent", "QUEUED", "TRANSMITTED"}, Make(s, p), ~clash',
           \/ up' = up
           \/ \E t \in {"PUBLISH", "SUBSCRIBE", "UNSUBSCRIBE"} : up' = Append(up, Packet(t, made + 1)),
           down' \in {down, << >>}
    PROVE  OnceInv'
  <1> USE DEF OnceInv, TypeOK, OutboxTypes, BrokerTypes
  <1>1. /\ up \in Seq(UpPackets) /\ down \in Seq(DownPackets) /\ up' \in Seq(UpPackets)
        /\ made + 1 \in Messages /\ made' = made + 1 /\ made \in Nat
        /\ UNCHANGED << got, holding >>
    BY MqttAssumption DEF NetworkTypes, Make, broker, Messages
  <1>13. PICK n \in Messages : n = made + 1
    BY <1>1
  <1>14. /\ pending' = [pending EXCEPT ![made + 1] = p]
         /\ sort' = [sort EXCEPT ![made + 1] = s]
    BY MakeAlone DEF Make
  <1>2. \A m \in Messages : /\ m \in Int
                            /\ m # made + 1 => sort'[m] = sort[m] /\ pending'[m] = pending[m]
    BY <1>14 DEF Messages
  <1>3. sort[made + 1] = "none" /\ got[made + 1] = 0 /\ pending'[made + 1] = p
    BY <1>1, <1>14 DEF Fresh
  <1>4. \A m \in Messages : m <= made => /\ Waiting(m)' <=> Waiting(m)
                                         /\ Over(m)' <=> Over(m)
    BY <1>1, <1>2 DEF Waiting, Over
  <1>5. ~Over(n)'
    BY <1>1, <1>3, <1>13 DEF Over
  <1>6. OnceTaken' /\ Fresh' /\ OverIsOver' /\ AcknowledgedKind'
    <2>1. Fresh'
      BY <1>1, <1>2 DEF Fresh
    <2>2. OnceTaken'
      BY <1>1, <1>2, <1>3 DEF OnceTaken
    <2>3. AcknowledgedKind'
      BY <1>1, <1>2, <1>3 DEF AcknowledgedKind
    <2>4. OverIsOver'
      <3> SUFFICES ASSUME NEW m \in Messages, Over(m)' PROVE ~Waiting(m)'
        BY DEF OverIsOver
      <3>1. m <= made
        BY <1>1, <1>2, <1>5, <1>13, <2>1 DEF Over, Fresh
      <3> QED BY <1>4, <3>1 DEF OverIsOver
    <2> QED BY <2>1, <2>2, <2>3, <2>4
  <1>7. DownOnce'
    <2>1. \A k \in DOMAIN down : down[k].type = "PUBREC" =>
            down[k].of \in Messages /\ down[k].of # made + 1
      BY <1>1, <1>3, PacketFacts DEF DownOnce
    <2> QED BY <1>1, <1>2, <2>1 DEF DownOnce
  <1>8. \A q \in UpPackets : q.type \in {"PUBLISH", "PUBREL"} => q.of \in Messages
    BY PacketFacts
  <1> DEFINE Entries == \A k \in DOMAIN up' :
          \/ k \in DOMAIN up /\ up'[k] = up[k]
          \/ k = Len(up) + 1 /\ up'[k].of = made + 1 /\ up'[k].type # "PUBREL"
  <1>9. Entries
    <2>1. ASSUME NEW t \in {"PUBLISH", "SUBSCRIBE", "UNSUBSCRIBE"},
                 up' = Append(up, Packet(t, made + 1))
          PROVE  Entries
      <3>1. /\ Packet(t, made + 1) \in UpPackets /\ Packet(t, made + 1).of = made + 1
            /\ Packet(t, made + 1).type # "PUBREL"
        BY <1>1, UpFromMessage DEF Packet
      <3> QED BY <1>1, <2>1, <3>1, AppendEntries
    <2> QED BY <2>1
  <1>10. \A k \in DOMAIN up : up[k] \in UpPackets
    BY <1>1
  <1>11. UpOnce'
    <2> SUFFICES ASSUME NEW k \in DOMAIN up', NEW q, q = up'[k]
                 PROVE  /\ q.type = "PUBLISH" => q.of <= made' /\ ~Over(q.of)'
                        /\ q.type = "PUBREL" =>
                             q.of <= made' /\ sort'[q.of] = "qos2" /\ ~Waiting(q.of)'
      BY DEF UpOnce, Over, Waiting
    <2>1. CASE k \in DOMAIN up /\ q = up[k]
      <3>1. q.type \in {"PUBLISH", "PUBREL"} =>
              q.of \in Messages /\ q.of <= made /\ q.of # made + 1 /\ q.of <= made'
        BY <1>1, <1>2, <1>8, <1>10, <2>1 DEF UpOnce
      <3>2. q.type = "PUBLISH" => ~Over(q.of)'
        BY <1>4, <2>1, <3>1 DEF UpOnce
      <3>3. q.type = "PUBREL" => sort'[q.of] = "qos2" /\ ~Waiting(q.of)'
        BY <1>2, <1>4, <2>1, <3>1 DEF UpOnce
      <3> QED BY <3>1, <3>2, <3>3
    <2>2. CASE q.of = n /\ q.type # "PUBREL"
      BY <1>1, <1>5, <1>13, <2>2
    <2> QED BY <1>9, <1>13, <2>1, <2>2
  <1>12. ReleasedLast'
    BY <1>1, <1>2, <1>8, <1>9, <1>10 DEF ReleasedLast, UpOnce
  <1> QED BY <1>6, <1>7, <1>11, <1>12

(* The broker takes the first packet. *)
LEMMA BrokerStepOnce == OnceInv /\ Apart /\ TypeOK' /\ Broker => OnceInv'
  <1> SUFFICES ASSUME OnceInv, Apart, TypeOK', Broker PROVE OnceInv'
    OBVIOUS
  <1> USE DEF OnceInv, TypeOK, OutboxTypes, BrokerTypes
  <1>1. up \in Seq(UpPackets) /\ down \in Seq(DownPackets)
    BY DEF NetworkTypes
  <1>2. up # << >> => /\ Head(up) \in UpPackets /\ 1 \in DOMAIN up /\ Head(up) = up[1]
                      /\ \A k \in DOMAIN Tail(up) : k + 1 \in DOMAIN up /\ Tail(up)[k] = up[k + 1]
    BY <1>1, HeadEntry, TailEntries
  <1>3. ASSUME NEW b \in Incoming, BrokerSends(b) PROVE OnceInv'
    <2>1. PICK t \in {"PUBLISH", "PUBREL"} : down' = Append(down, Packet(t, b))
      BY <1>3 DEF BrokerSends
    <2>2. Packet(t, b) \in DownPackets /\ Packet(t, b).type # "PUBREC"
      BY DownFromIncoming DEF Packet
    <2>3. DownOnce'
      BY <1>1, <1>3, <2>1, <2>2, AppendEntries DEF BrokerSends, DownOnce, client
    <2> QED BY <1>3, <2>3 DEF BrokerSends, client, outbox, OnceTaken, Fresh, OverIsOver,
                              AcknowledgedKind, UpOnce, ReleasedLast, Over, Waiting
  <1>4. ASSUME up # << >>, up' = Tail(up) PROVE ReleasedLast'
    BY <1>1, <1>2, <1>4 DEF ReleasedLast
  <1>5. \A p \in UpPackets : p.type \in {"PUBLISH", "PUBREL"} => p.of \in Messages
    BY PacketFacts
  <1>6. ASSUME NEW t, NEW i, i = Head(up).of, Replies(t),
               t # "none" => Packet(t, i) \in DownPackets, t = "PUBREC" => sort[i] = "qos2"
        PROVE  DownOnce'
    <2>1. CASE down' = Append(down, Packet(t, i)) /\ t # "none"
      BY <1>1, <1>6, <2>1, AppendEntries DEF DownOnce, Replies, client, Packet
    <2>2. CASE UNCHANGED down
      BY <1>6, <2>2 DEF DownOnce, Replies, client
    <2> QED BY <1>6, <2>1, <2>2 DEF Replies
  <1>7. CASE BrokerTakesPublish
    <2>1. PICK m \in Messages : m = Head(up).of
      BY <1>2, <1>5, <1>7 DEF BrokerTakesPublish
    <2>2. m <= made /\ ~Over(m)
      BY <1>2, <1>7, <2>1 DEF BrokerTakesPublish, UpOnce
    <2>3. UNCHANGED << made, sort, pending >> /\ up # << >> /\ up' = Tail(up)
      BY <1>7 DEF BrokerTakesPublish, Replies, client, outbox
    <2>4. /\ \A n \in Messages : n # m => got'[n] = got[n] /\ (n \in holding' <=> n \in holding)
          /\ got'[m] = IF (sort[m] = "qos2" /\ m \in holding) \/ got[m] = 2 THEN got[m]
                       ELSE got[m] + 1
          /\ m \in holding' <=> m \in holding \/ sort[m] = "qos2"
      <3>1. HeldId(id[m]) = {m} \cap holding
        BY <1>7, <2>1, BrokerAlone DEF BrokerTakesPublish
      <3> QED BY <1>7, <2>1, <3>1 DEF BrokerTakesPublish, Takes1
    <2>5. \A n \in Messages : (Over(n)' <=> Over(n)) /\ (Waiting(n)' <=> Waiting(n))
      <3>1. ~Over(m)'
        BY <2>3, <2>4 DEF Over
      <3> QED BY <2>2, <2>3, <2>4, <3>1 DEF Over, Waiting
    <2>6. OnceTaken' /\ Fresh'
      <3>1. OnceTaken'
        BY <2>2, <2>3, <2>4 DEF OnceTaken, Over
      <3>2. Fresh'
        BY <2>2, <2>3, <2>4, MqttAssumption DEF Fresh, Messages
      <3> QED BY <3>1, <3>2
    <2>7. OverIsOver' /\ AcknowledgedKind'
      BY <2>3, <2>5 DEF OverIsOver, AcknowledgedKind
    <2>8. UpOnce'
      BY <1>1, <1>2, <1>5, <2>3, <2>5 DEF UpOnce
    <2>9. DownOnce'
      BY <1>6, <1>7, <2>1, DownFromMessage DEF BrokerTakesPublish
    <2> QED BY <1>4, <2>3, <2>6, <2>7, <2>8, <2>9
  <1>8. CASE BrokerReleases
    <2>1. PICK m \in Messages : m = Head(up).of
      BY <1>2, <1>5, <1>8 DEF BrokerReleases
    <2>2. m <= made /\ sort[m] = "qos2" /\ ~Waiting(m)
      BY <1>2, <1>8, <2>1 DEF BrokerReleases, UpOnce
    <2>3. /\ UNCHANGED << made, sort, pending, got >> /\ up # << >> /\ up' = Tail(up)
          /\ holding' = holding \ {m}
      <3>1. HeldId(id[m]) = {m} \cap holding
        BY <1>8, <2>1, BrokerAlone DEF BrokerReleases
      <3> QED BY <1>8, <2>1, <3>1 DEF BrokerReleases, Replies, client, outbox
    <2>4. \A n \in Messages : /\ Waiting(n)' <=> Waiting(n)
                              /\ n # m => (Over(n)' <=> Over(n))
      BY <2>3 DEF Over, Waiting
    <2>5. OnceTaken' /\ Fresh' /\ AcknowledgedKind'
      BY <2>3 DEF OnceTaken, Fresh, AcknowledgedKind
    <2>6. OverIsOver'
      BY <2>2, <2>4 DEF OverIsOver
    <2>7. \A k \in DOMAIN Tail(up) : Tail(up)[k].type = "PUBLISH" => Tail(up)[k].of # m
      BY <1>1, <1>2, <1>8, <2>1 DEF BrokerReleases, ReleasedLast
    <2>8. UpOnce'
      BY <1>1, <1>2, <1>5, <2>3, <2>4, <2>7 DEF UpOnce
    <2>9. DownOnce'
      BY <1>6, <1>8, <2>1, DownFromMessage DEF BrokerReleases
    <2> QED BY <1>4, <2>3, <2>5, <2>6, <2>8, <2>9
  <1>9. CASE BrokerAnswers \/ BrokerHears
    <2>1. PICK t \in {"SUBACK", "UNSUBACK", "PINGRESP", "none"} :
            Replies(t) /\ (t # "none" => Packet(t, Head(up).of) \in DownPackets)
      <3>1. CASE BrokerAnswers
        BY <1>2, <3>1 DEF BrokerAnswers, Packet, UpPackets, DownPackets
      <3>2. CASE BrokerHears
        BY <3>2 DEF BrokerHears
      <3> QED BY <1>9, <3>1, <3>2
    <2>3. UNCHANGED << made, sort, pending, got, holding >> /\ up # << >> /\ up' = Tail(up)
      BY <1>9 DEF BrokerAnswers, BrokerHears, Replies, client, outbox, broker
    <2>4. \A n \in Messages : (Over(n)' <=> Over(n)) /\ (Waiting(n)' <=> Waiting(n))
      BY <2>3 DEF Over, Waiting
    <2>5. OnceTaken' /\ Fresh' /\ OverIsOver' /\ AcknowledgedKind'
      BY <2>3, <2>4 DEF OnceTaken, Fresh, OverIsOver, AcknowledgedKind
    <2>6. UpOnce'
      BY <1>1, <1>2, <1>5, <2>3, <2>4 DEF UpOnce
    <2>7. DownOnce'
      BY <1>6, <2>1
    <2> QED BY <1>4, <2>3, <2>5, <2>6, <2>7
  <1> QED BY <1>3, <1>7, <1>8, <1>9 DEF Broker

(* Every step keeps it. *)
LEMMA OnceStep == OnceInv /\ Apart /\ [Next]_vars /\ ~clash' => OnceInv'
  <1> SUFFICES ASSUME OnceInv, Apart, [Next]_vars, ~clash' PROVE OnceInv'
    OBVIOUS
  <1>1. TypeOK /\ TypeOK'
    BY MqttTypeStep DEF OnceInv
  <1>2. ASSUME UNCHANGED << made, sort, pending, got, holding, up, down >> PROVE OnceInv'
    <2>1. Settled /\ OneTaken
      BY <1>2 DEF Settled, OneTaken
    <2>2. OneSent
      BY <1>2 DEF OneSent
    <2>3. Progress
      BY <1>2 DEF Progress
    <2> QED BY <1>1, <2>1, <2>2, <2>3, ClientStepOnce
  <1>9. CASE UNCHANGED vars
    BY <1>2, <1>9 DEF vars, client, outbox, network, broker
  <1>3. CASE Application
    <2>1. ASSUME NEW s \in Pub, PublishLater(s) \/ PublishNow(s) \/ PublishFails(s) \/ Enqueue(s)
          PROVE  OnceInv'
      <3>1. PICK p \in {"absent", "QUEUED", "TRANSMITTED"} : Make(s, p)
        BY <2>1 DEF PublishLater, PublishNow, PublishFails, Enqueue, Kept
      <3>2. up' = up \/ up' = Append(up, Packet("PUBLISH", made + 1))
        BY <2>1 DEF PublishLater, PublishNow, PublishFails, Enqueue, Sent, FailedWrite, Abort, network
      <3>3. down' \in {down, << >>}
        BY <2>1 DEF PublishLater, PublishNow, PublishFails, Enqueue, Sent, FailedWrite, Abort, network
      <3> QED BY <1>1, <3>1, <3>2, <3>3, MakeOnce
    <2>2. CASE Subscribe
      <3>1. Make(app, "TRANSMITTED") /\ app \in {"subscribe", "unsubscribe"}
        BY <2>2 DEF Subscribe
      <3>2. PICK t \in {"SUBSCRIBE", "UNSUBSCRIBE"} :
              up' = up \/ up' = Append(up, Packet(t, made + 1))
        BY <2>2 DEF Subscribe, Sent, Breaks, Unwritten
      <3>3. down' \in {down, << >>}
        BY <2>2 DEF Subscribe, Sent, Breaks, Unwritten
      <3> QED BY <1>1, <3>1, <3>2, <3>3, MakeOnce
    <2>3. CASE \/ \E s \in {"subscribe", "unsubscribe"} : CheckConnected(s)
               \/ Start \/ Stop \/ Stopped \/ Disconnect \/ Reconnect
      <3>1. UNCHANGED << made, sort, pending, got, holding, up, down >>
        BY <2>3 DEF CheckConnected, Start, Stop, Stopped, Disconnect, Reconnect, client, outbox,
                    network, broker
      <3> QED BY <1>2, <3>1
    <2> QED BY <1>3, <2>1, <2>2, <2>3 DEF Application
  <1>4. CASE SetRun \/ ClearStopped \/ LoopTop \/ Exit \/ Connect \/ WaitReconnect
             \/ DisconnectRequested
    <2>1. Settled
      BY <1>4 DEF SetRun, ClearStopped, LoopTop, Exit, Connect, WaitReconnect,
                  DisconnectRequested, Steps, client, broker, Settled
    <2>3. OneSent /\ OneTaken
      BY <1>4 DEF SetRun, ClearStopped, LoopTop, Exit, Connect, WaitReconnect,
                  DisconnectRequested, Abort, network, OneSent, OneTaken
    <2>2. Progress
      BY <1>4 DEF SetRun, ClearStopped, LoopTop, Exit, Connect, WaitReconnect, Progress,
                  DisconnectRequested, outbox
    <2> QED BY <1>1, <2>1, <2>2, <2>3, ClientStepOnce
  <1>5. CASE Receive
    <2>1. Settled
      <3>1. CASE NothingToRead \/ ReadError \/ ReceiveSubscribed \/ ReceiveConfirmed \/ ReceivePing
        BY <3>1 DEF NothingToRead, ReadError, ReceiveSubscribed, ReceiveConfirmed, ReceivePing,
                    Steps, Takes, client, broker, Settled
      <3>2. CASE ReceivePubrec \/ ReceivePubrel \/ ReceivePublish \/ ReceiveStalled
        BY <3>2 DEF ReceivePubrec, ReceivePubrel, ReceivePublish, ReceiveStalled, Takes, client,
                    broker, Settled
      <3> QED BY <1>5, <3>1, <3>2 DEF Receive
    <2>6. OneTaken
      BY <1>5 DEF Receive, NothingToRead, ReadError, ReceiveSubscribed, ReceiveConfirmed,
                  ReceivePing, ReceivePubrec, ReceivePubrel, ReceivePublish, ReceiveStalled,
                  Takes, FailedWrite, Abort, network, OneTaken
    <2>2. down # << >> => Head(down) \in DownPackets /\ 1 \in DOMAIN down /\ Head(down) = down[1]
      BY <1>1, HeadEntry DEF TypeOK, NetworkTypes
    <2>3. CASE ReceivePubrec
      <3>1. PICK m \in Messages : m = Head(down).of
        BY <2>2, <2>3, PacketFacts DEF ReceivePubrec, Takes
      <3>2. sort[m] = "qos2"
        BY <2>2, <2>3, <3>1 DEF ReceivePubrec, Takes, OnceInv, DownOnce
      <3>3. /\ \A n \in Messages : \/ pending'[n] = pending[n]
                                   \/ pending'[n] = "ACKNOWLEDGED" /\ sort[n] = "qos2"
            /\ ~Waiting(m)'
        <4>1. m \in InUse
          BY <1>1, <2>3, <3>1, AnswerAlone DEF ReceivePubrec, Takes
        <4>2. pending' = IF pending[m] = "absent" THEN pending
                         ELSE [pending EXCEPT ![m] = "ACKNOWLEDGED"]
          BY <1>1, <2>3, <3>1, <4>1, SetPendingAlone DEF ReceivePubrec
        <4> QED BY <1>1, <3>2, <4>2 DEF Waiting, TypeOK, OutboxTypes
      <3>4. PICK p \in UpPackets : p = Packet("PUBREL", m)
        BY UpFromMessage
      <3>5. MaySend(p)
        BY <3>2, <3>3, <3>4 DEF MaySend, Packet
      <3>6. up' = up \/ up' = Append(up, p)
        BY <2>3, <3>1, <3>4 DEF ReceivePubrec, Answers
      <3>7. Progress /\ OneSent
        BY <3>3, <3>5, <3>6 DEF Progress, OneSent
      <3> QED BY <1>1, <2>1, <2>6, <3>7, ClientStepOnce
    <2>4. CASE ReceivePubrel \/ ReceivePublish \/ ReceiveStalled
      <3>1. UNCHANGED pending
        BY <2>4 DEF ReceivePubrel, ReceivePublish, ReceiveStalled, outbox
      <3>2. PICK p \in UpPackets : /\ p.type \in {"PUBACK", "PUBREC", "PUBCOMP"}
                                   /\ up' = up \/ up' = Append(up, p)
        <4>1. Head(down).of \in Incoming
          BY <2>2, <2>4, PacketFacts DEF ReceivePubrel, ReceivePublish, ReceiveStalled, Takes
        <4>2. PICK t \in {"PUBACK", "PUBREC", "PUBCOMP"} :
                up' = up \/ up' = Append(up, Packet(t, Head(down).of))
          BY <2>4 DEF ReceivePubrel, ReceivePublish, ReceiveStalled, Answers, Acknowledgement,
                      FailedWrite, Abort
        <4>3. /\ Packet(t, Head(down).of) \in UpPackets
              /\ Packet(t, Head(down).of).type = t
          BY <4>1, UpFromIncoming DEF Packet
        <4> QED BY <4>2, <4>3
      <3>3. MaySend(p)
        BY <3>2 DEF MaySend
      <3>4. Progress /\ OneSent
        BY <3>1, <3>2, <3>3 DEF Progress, OneSent
      <3> QED BY <1>1, <2>1, <2>6, <3>4, ClientStepOnce
    <2>5. CASE NothingToRead \/ ReadError \/ ReceiveSubscribed \/ ReceiveConfirmed \/ ReceivePing
      <3>1. OneSent /\ Progress
        BY <2>5 DEF NothingToRead, ReadError, ReceiveSubscribed, ReceiveConfirmed, ReceivePing,
                    RemoveInitiator, Abort, outbox, network, OneSent, Progress
      <3> QED BY <1>1, <2>1, <2>6, <3>1, ClientStepOnce
    <2> QED BY <1>5, <2>3, <2>4, <2>5 DEF Receive
  <1>6. CASE Resend \/ NotYet \/ Retransmit \/ Release \/ NoRelease \/ KeepAlive \/ Refresh
             \/ PollError
    <2>7. Settled
      BY <1>6 DEF Resend, NotYet, Retransmit, Release, NoRelease, KeepAlive, Refresh, PollError,
                  Steps, client, broker, Settled
    <2>8. OneTaken
      BY <1>6 DEF Resend, NotYet, Retransmit, Release, NoRelease, KeepAlive, Refresh, PollError,
                  Again, Sent, FailedWrite, Abort, network, OneTaken
    <2>1. Settled /\ OneTaken
      BY <2>7, <2>8
    <2>2. ASSUME NEW m \in Messages, Waiting(m)
          PROVE  \E p \in UpPackets : p = Outgoing(m) /\ MaySend(p)
      <3>1. Outgoing(m).of = m /\ Outgoing(m).type # "PUBREL"
        BY DEF Outgoing, Packet
      <3> QED BY <2>2, <3>1, OutgoingType DEF MaySend
    <2>3. CASE Resend
      <3>1. PICK m \in Messages :
              /\ pending[m] = "QUEUED"
              /\ \/ UNCHANGED << up, pending >>
                 \/ /\ up' = up \/ up' = Append(up, Outgoing(m))
                    /\ \/ pending' = pending
                       \/ pending' = [pending EXCEPT ![m] = Kept(sort[m], "TRANSMITTED")]
        <4>1. PICK m \in First("QUEUED") :
                \/ Sent(Outgoing(m)) /\ pending' \in Resent(m)
                \/ UNCHANGED << up, pending >>
          BY <2>3 DEF Resend, FailedWrite, Abort, network
        <4>2. m \in Messages /\ pending[m] = "QUEUED"
          BY DEF First, Earliest, In
        <4> QED BY <1>1, <4>1, <4>2, ResentAlone DEF Sent
      <3>2. \A n \in Messages : \/ pending'[n] \in {pending[n], "absent"}
                                \/ pending'[n] = "TRANSMITTED" /\ pending[n] = "QUEUED"
        BY <1>1, <3>1 DEF Kept, TypeOK, OutboxTypes
      <3>3. Progress /\ OneSent
        BY <2>2, <3>1, <3>2 DEF Progress, OneSent, Waiting
      <3> QED BY <1>1, <2>1, <3>3, ClientStepOnce
    <2>4. CASE Retransmit
      <3>1. PICK m \in Messages : /\ pending[m] = "TRANSMITTED" /\ UNCHANGED pending
                                  /\ up' = up \/ up' = Append(up, Outgoing(m))
        BY <2>4 DEF Retransmit, Again, First, Earliest, In, Sent, FailedWrite, Abort, outbox
      <3>2. Progress /\ OneSent
        BY <2>2, <3>1 DEF Progress, OneSent, Waiting
      <3> QED BY <1>1, <2>1, <3>2, ClientStepOnce
    <2>5. CASE Release
      <3>1. PICK m \in Messages : /\ pending[m] = "ACKNOWLEDGED" /\ UNCHANGED pending
                                  /\ up' = up \/ up' = Append(up, Packet("PUBREL", m))
        BY <2>5 DEF Release, Again, First, Earliest, In, Sent, FailedWrite, Abort, outbox
      <3>2. PICK p \in UpPackets : p = Packet("PUBREL", m)
        BY UpFromMessage
      <3>3. MaySend(p)
        BY <3>1, <3>2 DEF MaySend, Packet, OnceInv, AcknowledgedKind, Waiting
      <3>4. Progress /\ OneSent
        BY <3>1, <3>2, <3>3 DEF Progress, OneSent
      <3> QED BY <1>1, <2>1, <3>4, ClientStepOnce
    <2>6. CASE NotYet \/ NoRelease \/ KeepAlive \/ Refresh \/ PollError
      <3>1. UNCHANGED pending /\ (up' = up \/ up' = Append(up, Packet("PINGREQ", 0)))
        BY <2>6 DEF NotYet, NoRelease, KeepAlive, Refresh, PollError, Sent, FailedWrite, Abort,
                    outbox, network
      <3>2. PICK p \in UpPackets : p = Packet("PINGREQ", 0)
        BY UpPing
      <3>3. MaySend(p)
        BY <3>2 DEF MaySend, Packet
      <3>4. Progress /\ OneSent
        BY <3>1, <3>2, <3>3 DEF Progress, OneSent
      <3> QED BY <1>1, <2>1, <3>4, ClientStepOnce
    <2> QED BY <1>6, <2>3, <2>4, <2>5, <2>6
  <1>7. CASE Loss
    <2>1. Settled
      BY <1>7 DEF Loss, client, broker, Settled
    <2>2. Progress
      BY <1>7 DEF Loss, outbox, Progress
    <2>3. OneSent /\ OneTaken
      BY <1>7 DEF Loss, Breaks, OneSent, OneTaken
    <2> QED BY <1>1, <2>1, <2>2, <2>3, ClientStepOnce
  <1>8. CASE Broker
    BY <1>1, <1>8, BrokerStepOnce
  <1> QED BY <1>3, <1>4, <1>5, <1>6, <1>7, <1>8, <1>9 DEF Next, Task

(* Both, with what happens once an id was drawn that was in use. *)
OnceUnlessClash == TypeOK /\ ApartInv /\ (~clash => OnceInv)

LEMMA OnceInvariant == Spec => []OnceUnlessClash
<1>1. Init => OnceUnlessClash
  BY MqttTypeInit, ApartInit
  DEF Init, OnceUnlessClash, OnceInv, OnceTaken, Fresh, OverIsOver, AcknowledgedKind, UpOnce,
      ReleasedLast, DownOnce, Over
<1>2. OnceUnlessClash /\ [Next]_vars => OnceUnlessClash'
  BY MqttTypeStep, ApartStep, OnceStep DEF OnceUnlessClash, ApartInv
<1> QED BY <1>1, <1>2, PTL DEF Spec

(* As long as no id is drawn while an item in the outbox, a packet on its way  *)
(* or the broker still uses it, the broker takes a message of QoS 2 at most   *)
(* once, however often PUBLISH and PUBREL are repeated.                       *)
THEOREM TakenOnce == Spec => []ExactlyOnce
<1>1. OnceUnlessClash => ExactlyOnce
  BY DEF OnceUnlessClash, OnceInv, OnceTaken, ExactlyOnce
<1> QED BY <1>1, OnceInvariant, PTL
=============================================================================
