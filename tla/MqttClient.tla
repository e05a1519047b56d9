------------------------------ MODULE MqttClient ------------------------------
(****************************************************************************)
(* The MQTT client of src/managed_components/espressif__mqtt: its task and  *)
(* the calls of the application (mqtt_client.c), which share the outbox     *)
(* (lib/mqtt_outbox.c) under one lock, and a broker that keeps the session  *)
(* (disable_clean_session), modelled from what this code expects of it.     *)
(*                                                                          *)
(* A message is named by its place in the order of the calls, which is its  *)
(* place in the outbox.  Its message id is drawn at random (lib/mqtt_msg.c  *)
(* 67-73, MQTT_MSG_ID_INCREMENTAL being off) and may be that of an earlier  *)
(* message; the code looks an item up by its id, and finds the first.       *)
(* Time is left out: a timer may have run out at any moment its code looks  *)
(* at it.                                                                   *)
(****************************************************************************)
EXTENDS Integers, Sequences, FiniteSets

CONSTANTS
    MaxMessages,   \* bound on the messages of the application
    MaxIncoming,   \* bound on the messages of the broker
    MaxInFlight,   \* bound on the packets under way when a new one is started
    MaxTroubles,   \* bound on losses, expiries, and calls that end a connection
    Sorts          \* what each call of the application may send

Messages == 1 .. MaxMessages
Incoming == 1 .. MaxIncoming
Pub      == {"qos0", "qos1", "qos2"}

ASSUME MqttAssumption ==
    /\ MaxMessages \in Nat /\ MaxIncoming \in Nat
    /\ MaxInFlight \in Nat /\ MaxTroubles \in Nat
    /\ Sorts \in [Messages -> SUBSET (Pub \cup {"subscribe", "unsubscribe"})]

VARIABLES
    auto,      \* config->auto_reconnect
    state,     \* client->state
    run,       \* client->run
    pc,        \* where esp_mqtt_task is; it holds the lock after "loop"
    app,       \* what the application is in the middle of
    bits,      \* status_bits
    pinged,    \* wait_for_ping_resp
    sort,      \* the kind of each message
    id,        \* its message id, named by the first message that drew it
    clash,     \* an id was drawn that was still in use (a history)
    pending,   \* its pending_state_t in the outbox, "absent" outside
    made,      \* the messages made so far
    published, \* the messages with an MQTT_EVENT_PUBLISHED (a history)
    dropped,   \* those expired or deleted by stop (a history)
    heard,     \* the broker's messages given to the application (a history)
    part,      \* those of which it was given the first part only (a history)
    link,      \* the connection: "closed", "up", or "dead" and not yet noticed
    up, down,  \* the packets under way to and from the broker
    got,       \* how often the broker took each message for a new one
    holding,   \* the broker's QoS 2 messages received and not released
    inbound,   \* how far its own messages have come
    troubles

calls   == << made, sort, id, clash >>
client  == << auto, run, app, bits, calls >>
given   == << heard, part >>
outbox  == << pending, published, dropped >>
network == << link, up, down, troubles >>
broker  == << got, holding, inbound >>
vars    == << client, state, pc, pinged, outbox, given, network, broker >>

Unlocked == pc \in {"none", "created", "starting", "loop"}
Room     == Len(up) + Len(down) < MaxInFlight
Trouble  == troubles < MaxTroubles /\ troubles' = troubles + 1

(* A packet names the message it is about; the code reads id[of] from one   *)
(* that is about a message of the application.                              *)
Packet(t, m) == [type |-> t, of |-> m]
Requests  == {"PUBLISH", "PUBREL", "SUBSCRIBE", "UNSUBSCRIBE"}
Responses == {"PUBACK", "PUBREC", "PUBCOMP", "SUBACK", "UNSUBACK"}
UpPackets ==
    [type : Requests, of : Messages]
    \cup [type : {"PUBACK", "PUBREC", "PUBCOMP"}, of : Incoming]
    \cup [type : {"PINGREQ"}, of : {0}]
DownPackets ==
    [type : Responses, of : Messages]
    \cup [type : {"PUBLISH", "PUBREL"}, of : Incoming]
    \cup [type : {"PINGRESP"}, of : {0}]

(* What each message is sent as. *)
Outgoing(m) ==
    Packet(IF sort[m] \in Pub THEN "PUBLISH"
           ELSE IF sort[m] = "subscribe" THEN "SUBSCRIBE" ELSE "UNSUBSCRIBE", m)

In(p) == {m \in Messages : pending[m] = p}
Held  == {m \in Messages : pending[m] # "absent"}

(* The first item in a state, as outbox_dequeue finds it. *)
Earliest(S) == {m \in S : \A n \in S : m <= n}
First(p)    == Earliest(In(p))

(* outbox_set_pending: the first item with the id, whatever it is. *)
SetPending(items, ids, i, p) ==
    LET found == {m \in Messages : items[m] # "absent" /\ ids[m] = i}
    IN  [m \in Messages |-> IF m \in Earliest(found) THEN p ELSE items[m]]

(* The messages with an item, a packet on its way, or a place at the broker: *)
(* their ids are in use.                                                    *)
About(q, types) == {q[k].of : k \in {j \in DOMAIN q : q[j].type \in types}}
InUse == Held \cup holding \cup About(up, Requests) \cup About(down, Responses)

Init ==
    /\ auto \in BOOLEAN
    /\ state = "init" /\ run = FALSE /\ pc = "none" /\ app = "idle"
    /\ bits = {} /\ pinged = FALSE
    /\ sort = [m \in Messages |-> "none"] /\ id = [m \in Messages |-> m] /\ clash = FALSE
    /\ pending = [m \in Messages |-> "absent"]
    /\ made = 0
    /\ published = {} /\ dropped = {} /\ heard = {} /\ part = {}
    /\ link = "closed" /\ up = << >> /\ down = << >> /\ troubles = 0
    /\ got = [m \in Messages |-> 0] /\ holding = {}
    /\ inbound = [b \in Incoming |-> "unsent"]

-----------------------------------------------------------------------------
(* esp_mqtt_write and esp_mqtt_abort_connection. *)

(* A dead connection may still take what is written, and lose it. *)
Sent(p) ==
    /\ link # "closed"
    /\ up' = IF link = "up" THEN Append(up, p) ELSE up
    /\ UNCHANGED << link, down, troubles >>

(* The connection breaks; the broker may still read what has reached it. *)
Breaks ==
    /\ IF link = "up" THEN Trouble ELSE UNCHANGED troubles
    /\ link' = IF link = "up" THEN "dead" ELSE link
    /\ down' = << >>
    /\ UNCHANGED up

Abort ==
    /\ state' = "wait" /\ pinged' = FALSE
    /\ link' = "closed" /\ down' = << >>
    /\ UNCHANGED up

FailedWrite ==
    /\ IF link = "up" THEN Trouble ELSE UNCHANGED troubles
    /\ Abort

-----------------------------------------------------------------------------
(* The application. *)

(* append_message_id: a new id, or that of an earlier message; QoS 0 has     *)
(* none.                                                                    *)
DrawId(s) ==
    \E i \in {made + 1}
            \cup {id[m] : m \in {n \in 1 .. made : "qos0" \notin {s, sort[n]}}} :
        /\ id' = [id EXCEPT ![made + 1] = i]
        /\ clash' = (clash \/ \E m \in InUse : id[m] = i)

(* The item goes to the end of the outbox as QUEUED and is then marked. *)
Make(s, p) ==
    /\ made < MaxMessages /\ s \in Sorts[made + 1]
    /\ made' = made + 1
    /\ sort' = [sort EXCEPT ![made + 1] = s]
    /\ DrawId(s)
    /\ pending' = IF p # "TRANSMITTED" THEN [pending EXCEPT ![made + 1] = p]
                  ELSE SetPending([pending EXCEPT ![made + 1] = "QUEUED"],
                                  id', id'[made + 1], p)
    /\ UNCHANGED << auto, run, bits, pc, published, dropped, given, broker >>

(* Only what has a QoS above 0 waits in the outbox. *)
Kept(s, p) == IF s = "qos0" THEN "absent" ELSE p

(* esp_mqtt_client_publish without a connection, with one, and with one that *)
(* fails: the answer is -1, and a message of QoS 1 or 2 stays queued.        *)
PublishLater(s) ==
    /\ app = "idle" /\ Unlocked /\ state # "connected" /\ s # "qos0"
    /\ Make(s, "QUEUED")
    /\ UNCHANGED << app, state, pinged, network >>

PublishNow(s) ==
    /\ app = "idle" /\ Unlocked /\ state = "connected" /\ Room
    /\ Make(s, Kept(s, "TRANSMITTED"))
    /\ Sent(Packet("PUBLISH", made + 1))
    /\ UNCHANGED << app, state, pinged >>

PublishFails(s) ==
    /\ app = "idle" /\ Unlocked /\ state = "connected"
    /\ Make(s, Kept(s, "QUEUED"))
    /\ FailedWrite
    /\ UNCHANGED app

(* esp_mqtt_client_enqueue, with store set. *)
Enqueue(s) ==
    /\ app = "idle" /\ Unlocked
    /\ Make(s, "QUEUED")
    /\ UNCHANGED << app, state, pinged, network >>

(* The state is looked at before the lock is taken. *)
CheckConnected(s) ==
    /\ app = "idle" /\ state = "connected"
    /\ made < MaxMessages /\ s \in Sorts[made + 1]
    /\ app' = s
    /\ UNCHANGED << auto, run, bits, calls, state, pc, pinged, outbox, given,
                    network, broker >>

(* A write that has timed out leaves the connection as it is. *)
Unwritten ==
    /\ link = "up" /\ Trouble
    /\ UNCHANGED << link, up, down >>

(* A failed write is reported but leaves the item and the connection: the   *)
(* packet is lost, or cut, which ends the connection.                       *)
Subscribe ==
    /\ app \in {"subscribe", "unsubscribe"} /\ Unlocked
    /\ app' = "idle"
    /\ \/ Room /\ Make(app, "TRANSMITTED")
          /\ Sent(Packet(IF app = "subscribe" THEN "SUBSCRIBE" ELSE "UNSUBSCRIBE", made + 1))
       \/ Make(app, "TRANSMITTED") /\ (Breaks \/ Unwritten)
    /\ UNCHANGED << state, pinged >>

(* One task at most: a second call before the first task has run, which the *)
(* code lets through, is left out.                                          *)
Start ==
    /\ app = "idle" /\ Unlocked /\ state \in {"init", "disconnected"} /\ pc = "none"
    /\ pc' = "created"
    /\ UNCHANGED << client, state, pinged, outbox, given, network, broker >>

Stop ==
    /\ app = "idle" /\ Unlocked /\ run
    /\ Trouble
    /\ run' = FALSE /\ state' = "disconnected" /\ app' = "stopping"
    /\ UNCHANGED << auto, bits, calls, pc, pinged, outbox, given,
                    link, up, down, broker >>

Stopped ==
    /\ app = "stopping" /\ "stopped" \in bits
    /\ app' = "idle"
    /\ UNCHANGED << auto, run, bits, calls, state, pc, pinged, outbox, given,
                    network, broker >>

(* Neither takes the lock. *)
Disconnect ==
    /\ app = "idle" /\ Trouble
    /\ bits' = bits \cup {"disconnect"}
    /\ UNCHANGED << auto, run, app, calls, state, pc, pinged, outbox, given,
                    link, up, down, broker >>

Reconnect ==
    /\ app = "idle" /\ state = "wait"
    /\ bits' = bits \cup {"reconnect"}
    /\ UNCHANGED << auto, run, app, calls, state, pc, pinged, outbox, given,
                    network, broker >>

-----------------------------------------------------------------------------
(* esp_mqtt_task. *)

Steps(from, to) == pc = from /\ pc' = to /\ UNCHANGED << client, given, broker >>

(* The first lines of the task, without the lock. *)
SetRun ==
    /\ pc = "created" /\ pc' = "starting"
    /\ run' = TRUE
    /\ UNCHANGED << auto, app, bits, calls, state, pinged, outbox, given, network,
                    broker >>

ClearStopped ==
    /\ pc = "starting" /\ pc' = "loop"
    /\ state' = "init" /\ bits' = bits \ {"stopped"}
    /\ UNCHANGED << auto, run, app, calls, pinged, outbox, given, network, broker >>

(* The lock, and what has expired; how old a message is is not modelled. *)
LoopTop ==
    /\ run /\ Steps("loop", "switch")
    /\ \E old \in SUBSET Held :
         /\ IF old = {} THEN UNCHANGED troubles ELSE Trouble
         /\ pending' = [m \in Messages |-> IF m \in old THEN "absent" ELSE pending[m]]
         /\ dropped' = dropped \cup old
    /\ UNCHANGED << state, pinged, published, link, up, down >>

(* Mutant: STOPPED_BIT is not set. *)
ExitSilent ==
    /\ pc = "loop" /\ ~run
    /\ pc' = "none" /\ state' = "disconnected"
    /\ pending' = [m \in Messages |-> "absent"] /\ dropped' = dropped \cup Held
    /\ link' = "closed" /\ down' = << >>
    /\ UNCHANGED << client, pinged, published, given, up, troubles, broker >>

Exit ==
    /\ pc = "loop" /\ ~run
    /\ pc' = "none" /\ state' = "disconnected" /\ bits' = bits \cup {"stopped"}
    /\ pending' = [m \in Messages |-> "absent"] /\ dropped' = dropped \cup Held
    /\ link' = "closed" /\ down' = << >>
    /\ UNCHANGED << auto, run, app, calls, pinged, published, given, up, troubles,
                    broker >>

(* CONNECT and CONNACK; the broker begins again what it has no answer to. *)
Connect ==
    /\ pc = "switch" /\ state = "init" /\ pc' = "loop"
    /\ bits' = bits \ {"reconnect", "disconnect"}
    /\ \/ /\ link' = "up" /\ up' = << >> /\ down' = << >>
          /\ state' = "connected" /\ pinged' = FALSE
          /\ inbound' = [b \in Incoming |-> IF inbound[b] = "sent" THEN "unsent"
                                            ELSE IF inbound[b] = "released" THEN "received"
                                            ELSE inbound[b]]
          /\ UNCHANGED troubles
       \/ Trouble /\ Abort /\ UNCHANGED inbound
    /\ UNCHANGED << auto, run, app, calls, outbox, given, got, holding >>

(* The wait is over, or was cut short by esp_mqtt_client_reconnect. *)
WaitReconnect ==
    /\ pc = "switch" /\ state = "wait" /\ pc' = "loop"
    /\ IF auto THEN state' = "init" /\ UNCHANGED bits
       ELSE /\ state' = IF "reconnect" \in bits THEN "init" ELSE state
            /\ bits' = bits \ {"reconnect"}
    /\ UNCHANGED << auto, run, app, calls, pinged, outbox, given, network, broker >>

DisconnectRequested ==
    /\ pc = "switch" /\ state = "connected" /\ "disconnect" \in bits
    /\ pc' = "loop" /\ bits' = bits \ {"disconnect"}
    /\ Abort
    /\ UNCHANGED << auto, run, app, calls, outbox, given, troubles, broker >>

Receiving == pc = "switch" /\ state = "connected" /\ "disconnect" \notin bits

NothingToRead ==
    /\ Receiving /\ link = "up" /\ down = << >>
    /\ Steps("switch", "resend")
    /\ UNCHANGED << state, pinged, outbox, network >>

ReadError ==
    /\ Receiving /\ link # "up"
    /\ Steps("switch", "loop")
    /\ Abort
    /\ UNCHANGED << outbox, troubles >>

Takes(t) ==
    /\ Receiving /\ link = "up" /\ down # << >> /\ Head(down).type \in t
    /\ down' = Tail(down)
    /\ UNCHANGED client

(* Mutant: any item of the type is removed. *)
InitiatorByType(sorts) == {m \in Held : sort[m] \in sorts}

(* outbox_delete: the first item with the id and the type of what began the *)
(* exchange.                                                                *)
Initiator(sorts) ==
    Earliest({m \in Held : id[m] = id[Head(down).of] /\ sort[m] \in sorts})
RemoveInitiator(sorts) ==
    pending' = [m \in Messages |-> IF m \in Initiator(sorts) THEN "absent" ELSE pending[m]]

ReceiveSubscribed ==
    /\ Takes({"SUBACK", "UNSUBACK"}) /\ pc' = "resend"
    /\ RemoveInitiator(IF Head(down).type = "SUBACK" THEN {"subscribe"} ELSE {"unsubscribe"})
    /\ UNCHANGED << state, pinged, published, dropped, given, link, up, troubles, broker >>

ReceiveConfirmed ==
    /\ Takes({"PUBACK", "PUBCOMP"}) /\ pc' = "resend"
    /\ RemoveInitiator(Pub)
    /\ published' = published \cup Initiator(Pub)
    /\ UNCHANGED << state, pinged, dropped, given, link, up, troubles, broker >>

ReceivePing ==
    /\ Takes({"PINGRESP"}) /\ pc' = "resend"
    /\ pinged' = FALSE
    /\ UNCHANGED << state, outbox, given, link, up, troubles, broker >>

(* The answer is written; that it could not be is ignored, also when the    *)
(* connection remains.                                                      *)
Answers(t) ==
    \/ up' = Append(up, Packet(t, Head(down).of)) /\ UNCHANGED << link, troubles >>
    \/ Trouble /\ link' \in {"up", "dead"} /\ UNCHANGED up

(* Mutant: the item is not marked as acknowledged. *)
ReceivePubrecUnmarked ==
    /\ Takes({"PUBREC"}) /\ pc' = "resend"
    /\ Answers("PUBREL")
    /\ UNCHANGED << state, pinged, outbox, given, broker >>

ReceivePubrec ==
    /\ Takes({"PUBREC"}) /\ pc' = "resend"
    /\ pending' = SetPending(pending, id, id[Head(down).of], "ACKNOWLEDGED")
    /\ Answers("PUBREL")
    /\ UNCHANGED << state, pinged, published, dropped, given, broker >>

ReceivePubrel ==
    /\ Takes({"PUBREL"}) /\ pc' = "resend"
    /\ Answers("PUBCOMP")
    /\ UNCHANGED << state, pinged, outbox, given, broker >>

(* The messages of the broker take QoS 2 and 1 in turn. *)
QosIn(b) == IF b % 2 = 1 THEN 2 ELSE 1

(* Mutants: the answer names the last message sent; it is written even for  *)
(* what was not delivered.                                                  *)
ReceivePublishOwnId ==
    /\ Receiving /\ link = "up" /\ down # << >> /\ Head(down).type = "PUBLISH"
    /\ heard' = heard \cup {Head(down).of}
    /\ pc' = "resend" /\ down' = Tail(down)
    /\ up' = Append(up, Packet("PUBREC", made))
    /\ UNCHANGED << client, part, state, pinged, link, troubles, outbox, broker >>

ReceivePublishUnheard ==
    /\ Receiving /\ link = "up" /\ down # << >> /\ Head(down).type = "PUBLISH"
    /\ heard' \in {heard, heard \cup {Head(down).of}}
    /\ pc' = "resend" /\ down' = Tail(down)
    /\ up' = Append(up, Packet("PUBREC", Head(down).of))
    /\ UNCHANGED << client, part, state, pinged, link, troubles, outbox, broker >>

Acknowledgement(b) == Packet(IF QosIn(b) = 2 THEN "PUBREC" ELSE "PUBACK", b)

ReceivePublish ==
    /\ Receiving /\ link = "up" /\ down # << >> /\ Head(down).type = "PUBLISH"
    /\ heard' = heard \cup {Head(down).of}
    /\ \/ /\ pc' = "resend" /\ down' = Tail(down)
          /\ up' = Append(up, Acknowledgement(Head(down).of))
          /\ UNCHANGED << state, pinged, link, troubles >>
       \/ pc' = "loop" /\ FailedWrite
    /\ UNCHANGED << client, part, outbox, broker >>

(* deliver_publish gives a long publication in parts.  When the next does   *)
(* not come within network_timeout_ms it ends as if it had, and the answer  *)
(* is written; what the reader makes of the rest is left to MqttWire, here  *)
(* the connection ends.  An error on reading, or on writing, ends it too.   *)
ReceiveStalled ==
    /\ Receiving /\ link = "up" /\ down # << >> /\ Head(down).type = "PUBLISH"
    /\ part' = part \cup {Head(down).of}
    /\ \/ /\ pc' = "resend" /\ Trouble /\ link' = "dead" /\ down' = << >>
          /\ up' = Append(up, Acknowledgement(Head(down).of))
          /\ UNCHANGED << state, pinged >>
       \/ pc' = "loop" /\ FailedWrite
    /\ UNCHANGED << client, heard, outbox, broker >>

(* Mutant: deletes every publication it has sent, not only QoS 0. *)
ResendDeletes ==
    /\ Steps("resend", "keepalive")
    /\ \E m \in First("QUEUED") :
         Sent(Outgoing(m)) /\ pending' = [pending EXCEPT ![m] = "absent"]
    /\ UNCHANGED << state, pinged, published, dropped >>

(* The outbox once m is sent: the first item with its id is marked.  Only a *)
(* subscription whose id was in use is ever queued; whether it is marked    *)
(* hangs on pending_publish_qos, left over from an earlier publication.     *)
Resent(m) ==
    IF sort[m] = "qos0" THEN {[pending EXCEPT ![m] = "absent"]}
    ELSE {SetPending(pending, id, id[m], "TRANSMITTED")}
         \cup {items \in {pending} : sort[m] \notin Pub}

(* Queued messages go first, whenever there is one; with MaxInFlight packets *)
(* under way, a bound, it is left for the next round.                       *)
Resend ==
    /\ Steps("resend", "keepalive")
    /\ \E m \in First("QUEUED") :
         \/ /\ Room
            /\ Sent(Outgoing(m))
            /\ pending' \in Resent(m)
            /\ UNCHANGED << state, pinged >>
         \/ FailedWrite /\ UNCHANGED pending
         \/ ~Room /\ UNCHANGED << state, pinged, pending, network >>
    /\ UNCHANGED << published, dropped >>

(* message_retransmit_timeout is not over, or nothing is old enough. *)
NotYet ==
    /\ In("QUEUED") = {} /\ Steps("resend", "keepalive")
    /\ UNCHANGED << state, pinged, outbox, network >>

(* The first item of each state is sent again; that the first write failed  *)
(* does not keep the second from being tried.                               *)
Again(packet) ==
    /\ UNCHANGED outbox
    /\ \/ Room /\ Sent(packet) /\ UNCHANGED << state, pinged >>
       \/ FailedWrite

Retransmit ==
    /\ In("QUEUED") = {} /\ Steps("resend", "release")
    /\ \E m \in First("TRANSMITTED") : Again(Outgoing(m))

(* Mutant: looks for transmitted messages. *)
ReleaseTransmitted ==
    /\ In("QUEUED") = {}
    /\ Steps("resend", "keepalive") \/ Steps("release", "keepalive")
    /\ \E m \in First("TRANSMITTED") : Again(Packet("PUBREL", m))

Release ==
    /\ In("QUEUED") = {}
    /\ Steps("resend", "keepalive") \/ Steps("release", "keepalive")
    /\ \E m \in First("ACKNOWLEDGED") : Again(Packet("PUBREL", m))

NoRelease ==
    /\ Steps("release", "keepalive")
    /\ UNCHANGED << state, pinged, outbox, network >>

(* What is not yet due, a PINGREQ, or the end of the connection: no answer   *)
(* to the last one, a write that failed, or refresh_connection_after_ms.     *)
KeepAlive ==
    /\ Steps("keepalive", "loop")
    /\ UNCHANGED outbox
    /\ \/ UNCHANGED << state, pinged, network >>
       \/ ~pinged /\ Room /\ Sent(Packet("PINGREQ", 0)) /\ pinged' = TRUE /\ UNCHANGED state
       \/ ~pinged /\ FailedWrite
       \/ pinged /\ Trouble /\ Abort

Refresh ==
    /\ Steps("keepalive", "loop")
    /\ Trouble
    /\ state' = "init" /\ pinged' = FALSE
    /\ link' = "closed" /\ down' = << >>
    /\ UNCHANGED << outbox, up >>

(* Between two rounds the task polls the connection without the lock. *)
PollError ==
    /\ state = "connected" /\ link = "dead" /\ run
    /\ Steps("loop", "loop")
    /\ Abort
    /\ UNCHANGED << outbox, troubles >>

-----------------------------------------------------------------------------
(* The network and the broker. *)

Loss ==
    /\ link = "up" /\ Breaks
    /\ UNCHANGED << client, state, pc, pinged, outbox, given, broker >>

Replies(t) ==
    /\ up' = Tail(up)
    /\ down' = IF link = "up" /\ t # "none" THEN Append(down, Packet(t, Head(up).of)) ELSE down
    /\ UNCHANGED << client, state, pc, pinged, outbox, given, link, troubles >>

Takes1(m) == [got EXCEPT ![m] = IF @ = 2 THEN 2 ELSE @ + 1]

(* The broker, too, tells the messages of QoS 2 by their ids. *)
HeldId(i) == {n \in holding : id[n] = i}

BrokerTakesPublish ==
    /\ up # << >> /\ Head(up).type = "PUBLISH"
    /\ LET m == Head(up).of IN
       /\ got' = IF sort[m] = "qos2" /\ HeldId(id[m]) # {} THEN got ELSE Takes1(m)
       /\ holding' = IF sort[m] = "qos2" THEN holding \cup {m} ELSE holding
       /\ Replies(IF sort[m] = "qos1" THEN "PUBACK"
                  ELSE IF sort[m] = "qos2" THEN "PUBREC" ELSE "none")
    /\ UNCHANGED inbound

BrokerReleases ==
    /\ up # << >> /\ Head(up).type = "PUBREL"
    /\ holding' = holding \ HeldId(id[Head(up).of])
    /\ Replies("PUBCOMP")
    /\ UNCHANGED << got, inbound >>

BrokerAnswers ==
    /\ up # << >> /\ Head(up).type \in {"SUBSCRIBE", "UNSUBSCRIBE", "PINGREQ"}
    /\ Replies(IF Head(up).type = "SUBSCRIBE" THEN "SUBACK"
               ELSE IF Head(up).type = "UNSUBSCRIBE" THEN "UNSUBACK" ELSE "PINGRESP")
    /\ UNCHANGED broker

(* The acknowledgement of a message of the broker. *)
BrokerHears ==
    /\ up # << >> /\ Head(up).type \in {"PUBACK", "PUBREC", "PUBCOMP"}
    /\ inbound' = [inbound EXCEPT ![Head(up).of] =
                     IF Head(up).type = "PUBREC" THEN "received" ELSE "done"]
    /\ Replies("none")
    /\ UNCHANGED << got, holding >>

BrokerSends(b) ==
    /\ link = "up" /\ Room
    /\ \/ inbound[b] = "unsent" /\ inbound' = [inbound EXCEPT ![b] = "sent"]
          /\ down' = Append(down, Packet("PUBLISH", b))
       \/ inbound[b] = "received" /\ inbound' = [inbound EXCEPT ![b] = "released"]
          /\ down' = Append(down, Packet("PUBREL", b))
    /\ UNCHANGED << client, state, pc, pinged, outbox, given, link, up, troubles, got,
                    holding >>

-----------------------------------------------------------------------------
Application ==
    \/ \E s \in Pub : PublishLater(s) \/ PublishNow(s) \/ PublishFails(s) \/ Enqueue(s)
    \/ \E s \in {"subscribe", "unsubscribe"} : CheckConnected(s)
    \/ Subscribe \/ Start \/ Stop \/ Stopped \/ Disconnect \/ Reconnect

Receive ==
    \/ NothingToRead \/ ReadError \/ ReceiveSubscribed \/ ReceiveConfirmed \/ ReceivePing
    \/ ReceivePubrec \/ ReceivePubrel \/ ReceivePublish \/ ReceiveStalled

Task ==
    \/ SetRun \/ ClearStopped \/ LoopTop \/ Exit \/ Connect \/ WaitReconnect \/ DisconnectRequested \/ Receive
    \/ Resend \/ NotYet \/ Retransmit \/ Release \/ NoRelease \/ KeepAlive \/ Refresh \/ PollError

Broker ==
    \/ BrokerTakesPublish \/ BrokerReleases \/ BrokerAnswers \/ BrokerHears
    \/ \E b \in Incoming : BrokerSends(b)

Next == Application \/ Task \/ Loss \/ Broker

Spec == Init /\ [][Next]_vars

(* The task runs on, the broker reads what reaches it, and a timer that is  *)
(* looked at again and again runs out.  Nothing makes the application call,  *)
(* or the broker send messages of its own.                                  *)
Fairness ==
    /\ WF_vars(Task) /\ WF_vars(Stopped)
    /\ WF_vars(BrokerTakesPublish \/ BrokerReleases \/ BrokerAnswers \/ BrokerHears)
    /\ SF_vars(Retransmit /\ up' # up) /\ SF_vars(Release /\ up' # up)

FairSpec == Spec /\ Fairness

-----------------------------------------------------------------------------
TaskTypes ==
    /\ auto \in BOOLEAN /\ run \in BOOLEAN /\ pinged \in BOOLEAN
    /\ state \in {"init", "connected", "wait", "disconnected"}
    /\ pc \in {"none", "created", "starting", "loop", "switch", "resend", "release",
               "keepalive"}
    /\ app \in {"idle", "stopping", "subscribe", "unsubscribe"}
    /\ bits \subseteq {"stopped", "disconnect", "reconnect"}

OutboxTypes ==
    /\ sort \in [Messages -> Pub \cup {"subscribe", "unsubscribe", "none"}]
    /\ id \in [Messages -> Messages] /\ clash \in BOOLEAN
    /\ pending \in [Messages -> {"absent", "QUEUED", "TRANSMITTED", "ACKNOWLEDGED"}]
    /\ made \in 0 .. MaxMessages
    /\ published \subseteq Messages /\ dropped \subseteq Messages
    /\ heard \subseteq Incoming /\ part \subseteq Incoming

NetworkTypes ==
    /\ link \in {"closed", "up", "dead"} /\ troubles \in 0 .. MaxTroubles
    /\ up \in Seq(UpPackets) /\ down \in Seq(DownPackets)

BrokerTypes ==
    /\ got \in [Messages -> 0 .. 2] /\ holding \subseteq Messages
    /\ inbound \in [Incoming -> {"unsent", "sent", "received", "released", "done"}]

(* Every variable has the values of the code's enums and bit masks, and a   *)
(* packet is about a message of the side that chose its id.                 *)
TypeOK == TaskTypes /\ OutboxTypes /\ NetworkTypes /\ BrokerTypes

(* As long as no id was drawn that was still in use, an MQTT_EVENT_PUBLISHED *)
(* means that the broker has the message: the confirmation removes the item  *)
(* it belongs to and no other.  With a clash it may remove, and report, the  *)
(* first item with the id, sent or not.                                      *)
PublishedArrived == ~clash => \A m \in published : got[m] > 0

(* As long as no id was drawn that was still in use, a QoS 2 message is     *)
(* taken once, through losses, retransmissions and answers that cross them: *)
(* once acknowledged, it is released and no longer published.               *)
ExactlyOnce == ~clash => \A m \in Messages : sort[m] = "qos2" => got[m] < 2

(* What the broker may forget because it was acknowledged, the application  *)
(* has been given, or at least its first part: the rest may have been late. *)
HeardBeforeAck ==
    \A b \in Incoming :
        inbound[b] \in {"received", "released", "done"} => b \in heard \cup part

(* As long as no id was drawn that was still in use, a message of QoS 1 or  *)
(* 2 for which a call returned its id, or which was queued all the same,    *)
(* stays in the outbox until it is confirmed, expired or deleted by stop.   *)
Kind(m) == sort[m] \in {"qos1", "qos2"}

fates ==
    [m \in Messages |-> IF ~Kind(m) THEN "new"
                        ELSE IF m \in published THEN "confirmed"
                        ELSE IF m \in dropped THEN "gone"
                        ELSE IF pending[m] # "absent" THEN "held" ELSE "new"]
once    == {m \in Messages : sort[m] = "qos2"}
arrived == [m \in Messages |-> IF Kind(m) THEN got[m] ELSE 0]

Delivery == INSTANCE MqttDelivery WITH fate <- fates, once <- once, arrived <- arrived

ImplementsDelivery ==
    Delivery!Init /\ [][~clash' => Delivery!Next]_<< fates, once, arrived >>

(* With automatic reconnection and no further losses everything in the      *)
(* outbox of a running client is sent until it is answered, although only   *)
(* the first item is ever retransmitted; unless an id was drawn that was    *)
(* still in use, which may mark an item that has not been answered.         *)
Drains ==
    \A m \in Messages :
        (pending[m] # "absent" /\ auto) ~> (pending[m] = "absent" \/ ~run \/ clash)

(* esp_mqtt_client_stop returns. *)
StopReturns == app = "stopping" ~> app = "idle"
=============================================================================
