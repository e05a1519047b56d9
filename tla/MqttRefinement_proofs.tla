------------------------- MODULE MqttRefinement_proofs -------------------------
(****************************************************************************)
(* The client and its broker implement MqttDelivery, under the refinement   *)
(* mapping of Delivery in MqttClient, until an id is drawn that is in use.  *)
(****************************************************************************)
EXTENDS MqttClient_proofs

USE DEF calls, given, Requests, Responses

(* Every message has a fate: what was confirmed or given up has left the    *)
(* outbox, and what has a QoS leaves it in no other way.                    *)
FateInv ==
    /\ \A m \in published \cup dropped : m <= made /\ pending[m] = "absent"
    /\ \A m \in Messages :
         m <= made /\ Kind(m) /\ pending[m] = "absent" => m \in published \cup dropped

DeliveryInv == HonestInv /\ OnceInv /\ FateInv

DeliveryUnlessClash == HonestInv /\ (~clash => DeliveryInv)

(* A message of the abstract specification. *)
Fate(m) == IF ~Kind(m) THEN "new"
           ELSE IF m \in published THEN "confirmed"
           ELSE IF m \in dropped THEN "gone"
           ELSE IF pending[m] # "absent" THEN "held" ELSE "new"
Arrivals(m) == IF Kind(m) THEN got[m] ELSE 0
Once == {m \in Messages : sort[m] = "qos2"}

Abstract == << [m \in Messages |-> Fate(m)], Once, [m \in Messages |-> Arrivals(m)] >>

(* Steps as the abstract specification sees them. *)
AbstractAccept(m) ==
    /\ Fate(m) = "new" /\ Fate(m)' = "held"
    /\ Once' \in {Once, Once \cup {m}}
    /\ \A n \in Messages \ {m} : Fate(n)' = Fate(n)
    /\ \A n \in Messages : Arrivals(n)' = Arrivals(n)

AbstractArrive(m) ==
    /\ Fate(m) # "new"
    /\ m \in Once => Arrivals(m) = 0
    /\ Arrivals(m)' = IF Arrivals(m) = 2 THEN 2 ELSE Arrivals(m) + 1
    /\ \A n \in Messages \ {m} : Arrivals(n)' = Arrivals(n)
    /\ \A n \in Messages : Fate(n)' = Fate(n)
    /\ Once' = Once

AbstractConfirm(m) ==
    /\ Fate(m) = "held" /\ Arrivals(m) > 0
    /\ Fate(m)' = "confirmed"
    /\ \A n \in Messages \ {m} : Fate(n)' = Fate(n)
    /\ \A n \in Messages : Arrivals(n)' = Arrivals(n)
    /\ Once' = Once

AbstractGiveUp(lost) ==
    /\ \A m \in lost : Fate(m) = "held"
    /\ \A m \in Messages : Fate(m)' = IF m \in lost THEN "gone" ELSE Fate(m)
    /\ \A m \in Messages : Arrivals(m)' = Arrivals(m)
    /\ Once' = Once

AbstractStutter ==
    /\ \A m \in Messages : Fate(m)' = Fate(m) /\ Arrivals(m)' = Arrivals(m)
    /\ Once' = Once

AbstractNext ==
    \/ AbstractStutter
    \/ \E m \in Messages : AbstractAccept(m) \/ AbstractArrive(m) \/ AbstractConfirm(m)
    \/ \E lost \in SUBSET Messages : AbstractGiveUp(lost)

(* They are its steps under the mapping. *)
LEMMA AbstractSteps ==
    AbstractNext =>
      [Delivery!Next]_<< fates, once, arrived >>
  <1> SUFFICES ASSUME AbstractNext PROVE [Delivery!Next]_Abstract
    BY DEF Abstract, Fate, Arrivals, Once, fates, once, arrived
  <1> DEFINE fate == [m \in Messages |-> Fate(m)]
             arrivals == [m \in Messages |-> Arrivals(m)]
  <1>1. CASE AbstractStutter
    BY <1>1 DEF AbstractStutter, Abstract
  <1>2. ASSUME NEW m \in Messages, AbstractAccept(m) PROVE Delivery!Accept(m)
    <2>1. fate[m] = "new" /\ fate' = [fate EXCEPT ![m] = "held"] /\ arrivals' = arrivals
      BY <1>2 DEF AbstractAccept
    <2>2. Once' \in {Once, Once \cup {m}}
      BY <1>2 DEF AbstractAccept
    <2> QED BY <2>1, <2>2 DEF Delivery!Accept, Fate, Arrivals, Once, fates, once, arrived
  <1>3. ASSUME NEW m \in Messages, AbstractArrive(m) PROVE Delivery!Arrive(m)
    <2>1. /\ fate[m] # "new" /\ fate' = fate
          /\ arrivals' = [arrivals EXCEPT ![m] = IF @ = 2 THEN 2 ELSE @ + 1]
      BY <1>3 DEF AbstractArrive
    <2>2. (m \in Once => arrivals[m] = 0) /\ Once' = Once
      BY <1>3 DEF AbstractArrive
    <2> QED BY <2>1, <2>2 DEF Delivery!Arrive, Fate, Arrivals, Once, fates, once, arrived
  <1>4. ASSUME NEW m \in Messages, AbstractConfirm(m) PROVE Delivery!Confirm(m)
    <2>1. /\ fate[m] = "held" /\ fate' = [fate EXCEPT ![m] = "confirmed"]
          /\ arrivals[m] > 0 /\ arrivals' = arrivals /\ Once' = Once
      BY <1>4 DEF AbstractConfirm
    <2> QED BY <2>1 DEF Delivery!Confirm, Fate, Arrivals, Once, fates, once, arrived
  <1>5. ASSUME NEW lost \in SUBSET Messages, AbstractGiveUp(lost) PROVE Delivery!GiveUp(lost)
    <2>1. /\ \A m \in lost : fate[m] = "held"
          /\ fate' = [m \in Messages |-> IF m \in lost THEN "gone" ELSE fate[m]]
          /\ arrivals' = arrivals /\ Once' = Once
      BY <1>5 DEF AbstractGiveUp
    <2> QED BY <2>1 DEF Delivery!GiveUp, Fate, Arrivals, Once, fates, once, arrived
  <1> QED BY <1>1, <1>2, <1>3, <1>4, <1>5 DEF AbstractNext, Delivery!Next

-----------------------------------------------------------------------------
(* A step that makes, confirms and drops nothing, and takes only what has no *)
(* QoS out of the outbox.                                                   *)
LEMMA Quiet ==
    ASSUME DeliveryInv, UNCHANGED << made, sort, published, dropped, got >>,
           \A m \in Messages : /\ pending[m] = "absent" => pending'[m] = "absent"
                               /\ Kind(m) /\ pending'[m] = "absent" => pending[m] = "absent"
    PROVE  FateInv' /\ AbstractNext
  <1> USE DEF DeliveryInv, HonestInv, TypeOK, OutboxTypes
  <1>1. \A m \in Messages : Kind(m)' <=> Kind(m)
    BY DEF Kind
  <1>2. FateInv'
    <2>1. \A m \in published' \cup dropped' : m <= made' /\ pending'[m] = "absent"
      BY DEF FateInv
    <2> QED BY <1>1, <2>1 DEF FateInv
  <1>3. AbstractStutter
    BY <1>1 DEF AbstractStutter, Fate, Arrivals, Once
  <1> QED BY <1>2, <1>3 DEF AbstractNext

(* A new message. *)
LEMMA MakeFate ==
    ASSUME DeliveryInv, NEW s \in Pub \cup {"subscribe", "unsubscribe"},
           NEW p \in {"absent", "QUEUED", "TRANSMITTED"}, Make(s, p),
           p = "absent" => s = "qos0", ~clash'
    PROVE  FateInv' /\ AbstractNext
  <1> USE DEF DeliveryInv, HonestInv, TypeOK, OutboxTypes, BrokerTypes
  <1>1. /\ made + 1 \in Messages /\ made' = made + 1 /\ made \in Nat
        /\ UNCHANGED << published, dropped, got >>
    BY MqttAssumption DEF Make, broker, Messages
  <1>2. PICK n \in Messages : n = made + 1
    BY <1>1
  <1>3. /\ \A m \in Messages : m \in Int
        /\ \A m \in Messages \ {n} : sort'[m] = sort[m] /\ pending'[m] = pending[m]
        /\ sort'[n] = s /\ pending'[n] = p
    <2>1. /\ pending' = [pending EXCEPT ![made + 1] = p]
          /\ sort' = [sort EXCEPT ![made + 1] = s]
      BY MakeAlone DEF Make
    <2> QED BY <1>1, <1>2, <2>1 DEF Messages
  <1>4. sort[n] = "none" /\ got[n] = 0 /\ n \notin published \cup dropped
    BY <1>1, <1>2, <1>3 DEF OnceInv, Fresh, FateInv
  <1>5. /\ \A m \in Messages \ {n} : Kind(m)' <=> Kind(m)
        /\ ~Kind(n) /\ (Kind(n)' <=> s \in {"qos1", "qos2"})
    BY <1>3, <1>4 DEF Kind
  <1>6. FateInv'
    <2>1. \A m \in published' \cup dropped' : m <= made' /\ pending'[m] = "absent"
      BY <1>1, <1>3, <1>4 DEF FateInv
    <2>2. \A m \in Messages : m <= made' => m <= made \/ m = n
      BY <1>1, <1>2, <1>3
    <2>3. ASSUME NEW m \in Messages, m <= made', Kind(m)', pending'[m] = "absent"
          PROVE  m \in published' \cup dropped'
      BY <1>1, <1>3, <1>5, <2>2, <2>3 DEF FateInv
    <2> QED BY <2>1, <2>3 DEF FateInv
  <1>7. /\ \A m \in Messages \ {n} : Fate(m)' = Fate(m) /\ Arrivals(m)' = Arrivals(m)
        /\ Fate(n) = "new" /\ Arrivals(n)' = Arrivals(n)
    BY <1>1, <1>3, <1>4, <1>5 DEF Fate, Arrivals
  <1>8. CASE s \in {"qos1", "qos2"}
    <2>1. Fate(n)' = "held"
      BY <1>1, <1>3, <1>4, <1>5, <1>8 DEF Fate
    <2>2. Once' \in {Once, Once \cup {n}}
      <3>1. CASE s = "qos2"
        <4>1. Once' = Once \cup {n}
          BY <1>3, <3>1 DEF Once
        <4> QED BY <4>1
      <3>2. CASE s # "qos2"
        <4>1. Once' = Once
          BY <1>3, <1>4, <3>2 DEF Once
        <4> QED BY <4>1
      <3> QED BY <3>1, <3>2
    <2>3. AbstractAccept(n)
      BY <1>7, <2>1, <2>2 DEF AbstractAccept
    <2> QED BY <1>6, <2>3 DEF AbstractNext
  <1>9. CASE s \notin {"qos1", "qos2"}
    <2>1. Fate(n)' = "new"
      BY <1>5, <1>9 DEF Fate
    <2>2. Once' = Once
      BY <1>3, <1>4, <1>9 DEF Once
    <2>3. AbstractStutter
      BY <1>7, <2>1, <2>2 DEF AbstractStutter
    <2> QED BY <1>6, <2>3 DEF AbstractNext
  <1> QED BY <1>8, <1>9

(* Messages of the outbox are dropped. *)
LEMMA DropFate ==
    ASSUME DeliveryInv, NEW old \in SUBSET Held, UNCHANGED << made, sort, published, got >>,
           pending' = [m \in Messages |-> IF m \in old THEN "absent" ELSE pending[m]],
           dropped' = dropped \cup old
    PROVE  FateInv' /\ AbstractNext
  <1> USE DEF DeliveryInv, HonestInv, TypeOK, OutboxTypes, BrokerTypes
  <1>1. \A m \in old : m \in Messages /\ pending[m] # "absent" /\ m <= made
                       /\ m \notin published /\ m \notin dropped
    <2>1. \A m \in Messages : m > made \/ m <= made
      BY MqttAssumption DEF Messages
    <2> QED BY <2>1 DEF Held, OnceInv, Fresh, FateInv
  <1>2. \A m \in Messages : Kind(m)' <=> Kind(m)
    BY DEF Kind
  <1>3. FateInv'
    <2>1. \A m \in published' \cup dropped' : m <= made' /\ pending'[m] = "absent"
      BY <1>1 DEF FateInv
    <2> QED BY <1>2, <2>1 DEF FateInv
  <1> DEFINE lost == {m \in old : Kind(m)}
  <1>4. AbstractGiveUp(lost)
    <2>1. \A m \in lost : Fate(m) = "held"
      BY <1>1 DEF Fate
    <2>2. \A m \in Messages : Fate(m)' = IF m \in lost THEN "gone" ELSE Fate(m)
      BY <1>1, <1>2 DEF Fate
    <2>3. (\A m \in Messages : Arrivals(m)' = Arrivals(m)) /\ Once' = Once
      BY <1>2 DEF Arrivals, Once
    <2> QED BY <2>1, <2>2, <2>3 DEF AbstractGiveUp
  <1>5. lost \in SUBSET Messages
    BY <1>1
  <1> QED BY <1>3, <1>4, <1>5 DEF AbstractNext

(* A publication is confirmed. *)
LEMMA ConfirmFate ==
    ASSUME DeliveryInv, ReceiveConfirmed, ~clash'
    PROVE  FateInv' /\ AbstractNext
  <1> USE DEF DeliveryInv, HonestInv, TypeOK, OutboxTypes, BrokerTypes
  <1>1. /\ UNCHANGED << made, sort, dropped, got >>
        /\ published' = published \cup Initiator(Pub)
        /\ pending' = [m \in Messages |-> IF m \in Initiator(Pub) THEN "absent" ELSE pending[m]]
    BY DEF ReceiveConfirmed, RemoveInitiator, Takes, client, broker
  <1>2. \A m \in Messages : Kind(m)' <=> Kind(m)
    BY <1>1 DEF Kind
  <1>3. PICK n \in Messages : n = Head(down).of /\ got[n] > 0
    <2>1. ~clash /\ down # << >> /\ Head(down).type \in {"PUBACK", "PUBCOMP"}
      BY DEF ReceiveConfirmed, Takes, client
    <2> QED BY <2>1, HeadEntry, PacketFacts DEF NetworkTypes, HonestDown, DownHonest
  <1>4. /\ Initiator(Pub) \subseteq {n}
        /\ n \in Initiator(Pub) => pending[n] # "absent"
    <2>1. Apart /\ down # << >> /\ Head(down).type \in Responses
      BY DEF ReceiveConfirmed, Takes, client, ApartInv
    <2>2. Initiator(Pub) \subseteq {n}
      BY <1>3, <2>1, AnswerAlone
    <2> QED BY <2>2 DEF Initiator, Earliest, Held
  <1>5. n \in Initiator(Pub) => n <= made /\ n \notin published /\ n \notin dropped
    <2>1. n > made \/ n <= made
      BY MqttAssumption DEF Messages
    <2> QED BY <1>4, <2>1 DEF OnceInv, Fresh, FateInv
  <1>6. FateInv'
    <2>1. \A m \in published' \cup dropped' : m <= made' /\ pending'[m] = "absent"
      BY <1>1, <1>4, <1>5 DEF FateInv
    <2> QED BY <1>1, <1>2, <2>1 DEF FateInv
  <1>7. /\ \A m \in Messages \ {n} : Fate(m)' = Fate(m)
        /\ \A m \in Messages : Arrivals(m)' = Arrivals(m)
        /\ Once' = Once
    BY <1>1, <1>2, <1>4 DEF Fate, Arrivals, Once
  <1>8. CASE Kind(n) /\ n \in Initiator(Pub)
    <2>1. Fate(n) = "held" /\ Fate(n)' = "confirmed" /\ Arrivals(n) > 0
      BY <1>1, <1>2, <1>3, <1>4, <1>5, <1>8 DEF Fate, Arrivals
    <2>2. AbstractConfirm(n)
      BY <1>7, <2>1 DEF AbstractConfirm
    <2> QED BY <1>6, <2>2 DEF AbstractNext
  <1>9. CASE ~(Kind(n) /\ n \in Initiator(Pub))
    <2>1. Fate(n)' = Fate(n)
      BY <1>1, <1>2, <1>4, <1>9 DEF Fate
    <2>2. AbstractStutter
      BY <1>7, <2>1 DEF AbstractStutter
    <2> QED BY <1>6, <2>2 DEF AbstractNext
  <1> QED BY <1>8, <1>9

(* The broker takes a publication. *)
LEMMA ArriveFate ==
    ASSUME DeliveryInv, BrokerTakesPublish, ~clash'
    PROVE  FateInv' /\ AbstractNext
  <1> USE DEF DeliveryInv, HonestInv, TypeOK, OutboxTypes, BrokerTypes
  <1>1. UNCHANGED << made, sort, pending, published, dropped >>
    BY DEF BrokerTakesPublish, Replies, client, outbox
  <1>2. PICK n \in Messages : n = Head(up).of
    BY HeadEntry, PacketFacts DEF BrokerTakesPublish, NetworkTypes
  <1>3. n <= made /\ ~Over(n)
    BY <1>2, HeadEntry DEF BrokerTakesPublish, NetworkTypes, OnceInv, UpOnce
  <1>4. /\ \A m \in Messages \ {n} : got'[m] = got[m]
        /\ got'[n] = IF (sort[n] = "qos2" /\ n \in holding) \/ got[n] = 2 THEN got[n]
                     ELSE got[n] + 1
    <2>1. Apart /\ up # << >> /\ Head(up).type \in Requests
      BY DEF BrokerTakesPublish, Replies, client, ApartInv
    <2>2. HeldId(id[n]) = {n} \cap holding
      BY <1>2, <2>1, BrokerAlone
    <2> QED BY <1>2, <2>2 DEF BrokerTakesPublish, Takes1
  <1>5. \A m \in Messages : (Kind(m)' <=> Kind(m)) /\ Fate(m)' = Fate(m)
    BY <1>1 DEF Kind, Fate
  <1>6. FateInv'
    BY <1>1, <1>5 DEF FateInv
  <1>7. Once' = Once /\ \A m \in Messages \ {n} : Arrivals(m)' = Arrivals(m)
    BY <1>1, <1>4, <1>5 DEF Once, Arrivals
  <1>8. CASE got'[n] = got[n] \/ ~Kind(n)
    <2>1. Arrivals(n)' = Arrivals(n)
      BY <1>5, <1>8 DEF Arrivals
    <2>2. AbstractStutter
      BY <1>5, <1>7, <2>1 DEF AbstractStutter
    <2> QED BY <1>6, <2>2 DEF AbstractNext
  <1>9. CASE got'[n] # got[n] /\ Kind(n)
    <2>1. Fate(n) # "new"
      BY <1>3, <1>9 DEF Fate, FateInv
    <2>2. /\ sort[n] = "qos2" => n \notin holding
          /\ got[n] # 2 /\ Arrivals(n) = got[n] /\ Arrivals(n)' = got[n] + 1
      BY <1>4, <1>5, <1>9 DEF Arrivals
    <2>3. n \in Once => Arrivals(n) = 0
      BY <1>3, <2>2 DEF Once, Over
    <2>4. AbstractArrive(n)
      BY <1>5, <1>7, <2>1, <2>2, <2>3 DEF AbstractArrive
    <2> QED BY <1>6, <2>4 DEF AbstractNext
  <1> QED BY <1>8, <1>9

(* Every step of the client and the broker is one of these. *)
LEMMA DeliveryStep == DeliveryInv /\ [Next]_vars /\ ~clash' => FateInv' /\ AbstractNext
  <1> SUFFICES ASSUME DeliveryInv, [Next]_vars, ~clash' PROVE FateInv' /\ AbstractNext
    OBVIOUS
  <1>12. TypeOK /\ Apart
    BY ApartStep DEF DeliveryInv, HonestInv, ApartInv
  <1> USE DEF client, outbox, broker, network
  <1>1. ASSUME UNCHANGED << made, sort, pending, published, dropped, got >>
        PROVE  FateInv' /\ AbstractNext
    BY <1>1, Quiet
  <1>2. CASE UNCHANGED vars
    BY <1>1, <1>2 DEF vars
  <1>3. CASE Application
    <2>1. ASSUME NEW s \in Pub, PublishLater(s) \/ PublishNow(s) \/ PublishFails(s) \/ Enqueue(s)
          PROVE  FateInv' /\ AbstractNext
      <3>1. PICK p \in {"absent", "QUEUED", "TRANSMITTED"} :
              Make(s, p) /\ (p = "absent" => s = "qos0")
        BY <2>1 DEF PublishLater, PublishNow, PublishFails, Enqueue, Kept
      <3> QED BY <3>1, MakeFate
    <2>2. CASE Subscribe
      <3>1. Make(app, "TRANSMITTED") /\ app \in {"subscribe", "unsubscribe"}
        BY <2>2 DEF Subscribe
      <3> QED BY <3>1, MakeFate
    <2>3. CASE \/ \E s \in {"subscribe", "unsubscribe"} : CheckConnected(s)
               \/ Start \/ Stop \/ Stopped \/ Disconnect \/ Reconnect
      BY <1>1, <2>3 DEF CheckConnected, Start, Stop, Stopped, Disconnect, Reconnect
    <2> QED BY <1>3, <2>1, <2>2, <2>3 DEF Application
  <1>4. CASE SetRun \/ ClearStopped \/ Connect \/ WaitReconnect \/ DisconnectRequested
    BY <1>1, <1>4 DEF SetRun, ClearStopped, Connect, WaitReconnect, DisconnectRequested
  <1>5. CASE LoopTop
    <2>1. PICK old \in SUBSET Held :
            /\ pending' = [m \in Messages |-> IF m \in old THEN "absent" ELSE pending[m]]
            /\ dropped' = dropped \cup old
      BY <1>5 DEF LoopTop
    <2> QED BY <1>5, <2>1, DropFate DEF LoopTop, Steps
  <1>6. CASE Exit
    <2>1. pending' = [m \in Messages |-> IF m \in Held THEN "absent" ELSE pending[m]]
      BY <1>6 DEF Exit, Held
    <2> QED BY <1>6, <2>1, DropFate DEF Exit
  <1>7. CASE Receive
    <2>1. CASE ReceiveSubscribed
      <3>1. \A m \in Messages : /\ pending[m] = "absent" => pending'[m] = "absent"
                                /\ Kind(m) /\ pending'[m] = "absent" => pending[m] = "absent"
        BY <2>1 DEF ReceiveSubscribed, RemoveInitiator, Initiator, Earliest, Kind
      <3> QED BY <2>1, <3>1, Quiet DEF ReceiveSubscribed, Takes
    <2>2. CASE ReceivePubrec
      <3>1. \A m \in Messages : pending[m] = "absent" <=> pending'[m] = "absent"
        <4>1. down # << >> /\ Head(down).type = "PUBREC"
              /\ pending' = SetPending(pending, id, id[Head(down).of], "ACKNOWLEDGED")
          BY <2>2 DEF ReceivePubrec, Takes
        <4>2. pending' = IF pending[Head(down).of] = "absent" THEN pending
                         ELSE [pending EXCEPT ![Head(down).of] = "ACKNOWLEDGED"]
          BY <1>12, <4>1, AnswerAlone, SetPendingAlone
        <4> QED BY <1>12, <4>2 DEF TypeOK, OutboxTypes
      <3> QED BY <2>2, <3>1, Quiet DEF ReceivePubrec, Takes
    <2>3. CASE NothingToRead \/ ReadError \/ ReceivePing \/ ReceivePubrel \/ ReceivePublish
               \/ ReceiveStalled
      BY <1>1, <2>3 DEF NothingToRead, ReadError, ReceivePing, ReceivePubrel, ReceivePublish,
                        ReceiveStalled, Steps, Takes
    <2> QED BY <1>7, <2>1, <2>2, <2>3, ConfirmFate DEF Receive
  <1>8. CASE Resend
    <2>1. PICK m \in Messages :
            /\ pending[m] = "QUEUED"
            /\ \/ UNCHANGED pending
               \/ pending' = [pending EXCEPT ![m] = Kept(sort[m], "TRANSMITTED")]
      <3>1. PICK m \in First("QUEUED") : pending' = pending \/ pending' \in Resent(m)
        BY <1>8 DEF Resend
      <3>2. m \in Messages /\ pending[m] = "QUEUED"
        BY DEF First, Earliest, In
      <3> QED BY <1>12, <3>1, <3>2, ResentAlone
    <2>2. \A n \in Messages : /\ pending[n] = "absent" => pending'[n] = "absent"
                              /\ Kind(n) /\ pending'[n] = "absent" => pending[n] = "absent"
      BY <2>1 DEF Kept, Kind, DeliveryInv, HonestInv, TypeOK, OutboxTypes
    <2> QED BY <1>8, <2>2, Quiet DEF Resend, Steps
  <1>9. CASE NotYet \/ Retransmit \/ Release \/ NoRelease \/ KeepAlive \/ Refresh \/ PollError
    BY <1>1, <1>9 DEF NotYet, Retransmit, Release, NoRelease, KeepAlive, Refresh, PollError,
                      Steps, Again
  <1>10. CASE Loss
    BY <1>1, <1>10 DEF Loss
  <1>11. CASE Broker
    <2>1. ASSUME NEW b \in Incoming, BrokerSends(b) PROVE FateInv' /\ AbstractNext
      BY <1>1, <2>1 DEF BrokerSends
    <2>2. CASE BrokerReleases \/ BrokerAnswers \/ BrokerHears
      BY <1>1, <2>2 DEF BrokerReleases, BrokerAnswers, BrokerHears, Replies
    <2> QED BY <1>11, <2>1, <2>2, ArriveFate DEF Broker
  <1> QED BY <1>2, <1>3, <1>4, <1>5, <1>6, <1>7, <1>8, <1>9, <1>10, <1>11 DEF Next, Task

-----------------------------------------------------------------------------
(* The client and the broker keep the promise of the library's documents for *)
(* every number of messages, losses and packets under way, as long as no id  *)
(* is drawn while an item in the outbox, a packet on its way or the broker   *)
(* still uses it: what was accepted is held until it is confirmed or given   *)
(* up, is confirmed only once it has arrived, and arrives once if it is of   *)
(* QoS 2.                                                                    *)
THEOREM DeliveryImplemented == Spec => ImplementsDelivery
<1>1. Init => DeliveryUnlessClash
  BY MqttTypeInit, ApartInit
  DEF Init, DeliveryUnlessClash, DeliveryInv, HonestInv, HonestUp, HonestDown, PublishedArrived,
      AcknowledgedArrived, HoldingArrived, HeardBeforeAck, OnceInv, OnceTaken, Fresh, OverIsOver,
      AcknowledgedKind, UpOnce, ReleasedLast, DownOnce, Over, FateInv, Kind
<1>2. DeliveryUnlessClash /\ [Next]_vars => DeliveryUnlessClash'
  <2> SUFFICES ASSUME DeliveryUnlessClash, [Next]_vars PROVE DeliveryUnlessClash'
    OBVIOUS
  <2>1. HonestInv' /\ (~clash' => ~clash /\ Apart)
    BY MqttTypeStep, ApartStep, HonestUpStep, HonestDownStep, HonestStateStep
    DEF DeliveryUnlessClash, HonestInv, ApartInv
  <2>2. ~clash' => OnceInv' /\ FateInv'
    BY <2>1, OnceStep, DeliveryStep DEF DeliveryUnlessClash, DeliveryInv
  <2> QED BY <2>1, <2>2 DEF DeliveryUnlessClash, DeliveryInv
<1>3. Init => Delivery!Init
  BY DEF Init, Delivery!Init, Kind, fates, once, arrived
<1>4. DeliveryUnlessClash /\ [Next]_vars => [~clash' => Delivery!Next]_<< fates, once, arrived >>
  <2> SUFFICES ASSUME DeliveryUnlessClash, [Next]_vars, ~clash'
               PROVE  [Delivery!Next]_<< fates, once, arrived >>
    OBVIOUS
  <2>1. ~clash
    BY ApartStep DEF DeliveryUnlessClash, HonestInv
  <2> QED BY <2>1, DeliveryStep, AbstractSteps DEF DeliveryUnlessClash
<1> QED
  BY <1>1, <1>2, <1>3, <1>4, PTL DEF Spec, ImplementsDelivery
=============================================================================
