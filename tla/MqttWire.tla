------------------------------- MODULE MqttWire -------------------------------
(****************************************************************************)
(* MQTT 3.1.1 packets as bytes: how lib/mqtt_msg.c and mqtt_client.c of     *)
(* src/managed_components/espressif__mqtt build them in an output buffer    *)
(* that may be shorter than a publication, and put them together again from *)
(* a stream that arrives in pieces, in an input buffer that may be shorter  *)
(* as well.  What one client writes, another reads; the broker in between   *)
(* is taken to forward the bytes, and the acknowledgements stand for its    *)
(* own packets.                                                             *)
(*                                                                          *)
(* A digit of the remaining length has base Base, in the code 128; a byte   *)
(* of Base or more has the bit 0x80 set.                                    *)
(****************************************************************************)
EXTENDS Integers, Sequences, SequencesExt

CONSTANTS
    Base,
    OutLength,  \* connection->buffer_length
    InLength,   \* in_buffer_length
    Sizes,      \* of publications: the lengths of topic and payload
    Ids,        \* message ids, as pairs of bytes
    MaxPackets  \* bound on the packets written

ASSUME WireAssumption ==
    /\ Base \in Nat \ {0, 1} /\ OutLength \in Nat /\ InLength \in Nat \ (0 .. 5)
    /\ Sizes \subseteq (1 .. 2 * Base - 1) \X Nat
    /\ MaxPackets \in Nat

MaxHeader == 5                   \* MQTT_MAX_FIXED_HEADER_SIZE
PublishQos0 == 48                \* the first bytes: type, DUP, QoS and RETAIN
PublishQos1 == 50
Puback      == 64
Pingresp    == 208
NoId        == << 0, 0 >>

Packets ==
    {[head |-> PublishQos0, topic |-> s[1], id |-> NoId, data |-> s[2]] : s \in Sizes}
    \cup {[head |-> PublishQos1, topic |-> s[1], id |-> i, data |-> s[2]] : s \in Sizes, i \in Ids}
    \cup [head : {Puback}, topic : {0}, id : Ids, data : {0}]
    \cup [head : {Pingresp}, topic : {0}, id : {NoId}, data : {0}]

Type(h)     == h \div 16
Qos(h)      == (h \div 2) % 4
IsPublish(h) == Type(h) = 3

VARIABLES
    total, offset,  \* outbound_message.fragmented_msg_total_length, .._data_offset
    sent, clear,    \* the packets written, as they were meant, and whether each
                    \* was built with both fields clear (histories)
    wire, ready,    \* the bytes not read yet, and how many of them have arrived
    in,             \* in_buffer, up to in_buffer_read_len
    pc,             \* where mqtt_message_receive and deliver_publish are
    before,         \* previous_in_buffer_read_len
    event,          \* what the application has been given of a long message
    left,           \* its bytes not read yet
    taken,          \* the packets received
    cut,            \* a long message was given up in the middle (a history)
    astray          \* the remaining length was read on past a packet (a history)

sender == << total, offset, sent, clear >>
vars   == << sender, wire, ready, in, pc, before, event, left, taken, cut, astray >>

Init ==
    /\ total = 0 /\ offset = 0 /\ sent = << >> /\ clear = TRUE
    /\ wire = << >> /\ ready = 0
    /\ in = << >> /\ pc = "poll" /\ before = 0
    /\ event = << >> /\ left = 0 /\ taken = << >>
    /\ cut = FALSE /\ astray = FALSE

-----------------------------------------------------------------------------
(* Building a packet. *)

More(b) == b >= Base

(* The remaining length, least digit first. *)
Digits[n \in Nat] == IF n < Base THEN << n >> ELSE << Base + (n % Base) >> \o Digits[n \div Base]

Content(n) == [k \in 1 .. n |-> k % (2 * Base)]

(* What the application is to be given of a packet. *)
Meant(p) == [p EXCEPT !.data = IF IsPublish(p.head) THEN Content(p.data) ELSE << >>]

(* append_string, append_message_id *)
Variable(p) ==
    (IF IsPublish(p.head) THEN << 0, p.topic >> \o [k \in 1 .. p.topic |-> 1] ELSE << >>)
    \o (IF p.id = NoId THEN << >> ELSE p.id)

(* fini_message: the packet, with the length of the whole if this is a piece. *)
Finished(p, body, whole) ==
    << p.head >> \o Digits[IF whole = 0 THEN Len(body) ELSE whole - MaxHeader] \o body

(* The first byte of the packet in the buffer is at this place. *)
Start(packet, body) == MaxHeader - (Len(packet) - Len(body))

(* mqtt_msg_publish: what fits the buffer, and what is noted of the rest. *)
Position(p)   == MaxHeader + Len(Variable(p))
Fits(p)       == Position(p) <= OutLength
Fragmented(p) == Position(p) + p.data > OutLength
FirstBody(p)  ==
    Variable(p) \o Content(IF Fragmented(p) THEN OutLength - Position(p) ELSE p.data)
Whole(p)      == IF Fragmented(p) THEN Position(p) + p.data ELSE 0
FirstPiece(p) == Finished(p, FirstBody(p), Whole(p))

(* The offset is unsigned and the sender subtracts it: what fini_message takes *)
(* below zero has the effect of zero.                                         *)
OffsetAfter(p) ==
    LET start == Start(FirstPiece(p), FirstBody(p))
        from  == IF Fragmented(p) THEN Position(p) ELSE offset
    IN IF from > start THEN from - start ELSE 0

(* The data after what the first piece is taken to hold; before the data lies  *)
(* whatever lies there.                                                       *)
Rest(p) ==
    LET held == Len(FirstPiece(p)) - OffsetAfter(p) IN
    [k \in 1 .. p.data - held |-> IF held + k > 0 THEN Content(p.data)[held + k] ELSE 0]

Writes(p, bytes) ==
    /\ Len(sent) < MaxPackets
    /\ sent' = Append(sent, p) /\ wire' = wire \o bytes
    /\ UNCHANGED << ready, in, pc, before, event, left, taken, cut, astray >>

(* esp_mqtt_client_publish, connected: the buffer is used again for the rest. *)
Publish(p) ==
    /\ IsPublish(p.head) /\ Fits(p)
    /\ Writes(p, FirstPiece(p) \o Rest(p))
    /\ total' = 0 /\ offset' = 0
    /\ clear' = (clear /\ (Fragmented(p) \/ offset = 0))

(* Mutant: the rest of a long message is not enqueued. *)
EnqueueFirst(p) ==
    /\ IsPublish(p.head) /\ Fits(p)
    /\ Writes(p, FirstPiece(p))
    /\ total' = 0 /\ offset' = OffsetAfter(p)
    /\ UNCHANGED clear

(* esp_mqtt_client_enqueue: all of it goes to the outbox, and is sent later. *)
Enqueue(p) ==
    /\ IsPublish(p.head) /\ Fits(p)
    /\ Writes(p, FirstPiece(p) \o (IF Fragmented(p) THEN Rest(p) ELSE << >>))
    /\ total' = 0 /\ offset' = OffsetAfter(p)
    /\ UNCHANGED clear

(* With QoS 0 and without store it is built, and goes nowhere. *)
EnqueueUnstored(p) ==
    /\ p.head = PublishQos0 /\ Fits(p) /\ Len(sent) < MaxPackets
    /\ total' = Whole(p) /\ offset' = OffsetAfter(p)
    /\ UNCHANGED << sent, clear, wire, ready, in, pc, before, event, left, taken, cut, astray >>

(* mqtt_msg_puback and the others that fit any buffer. *)
Control(p) ==
    /\ ~IsPublish(p.head)
    /\ LET packet == Finished(p, Variable(p), total)
           start  == Start(packet, Variable(p))
       IN /\ Writes(p, packet)
          /\ offset' = IF offset > start THEN offset - start ELSE 0
    /\ clear' = (clear /\ total = 0)
    /\ UNCHANGED total

-----------------------------------------------------------------------------
(* The stream. *)

(* Several bytes at once are several steps of the network in a row. *)
Arrive ==
    /\ ready < Len(wire) /\ ready' = ready + 1
    /\ UNCHANGED << sender, wire, in, pc, before, event, left, taken, cut, astray >>

(* esp_transport_read *)
Read(n) ==
    LET k == IF n < ready THEN n ELSE ready IN
    /\ ready > 0
    /\ wire' = SubSeq(wire, k + 1, Len(wire)) /\ ready' = ready - k

Bytes(n) == SubSeq(wire, 1, IF n < ready THEN n ELSE ready)

(* Nothing there in the middle of a message; the poll that brought nothing  *)
(* at all is the one that gives up.                                         *)
NothingYet ==
    /\ ready = 0
    /\ pc' = IF Len(in) = before THEN "failed" ELSE "poll"
    /\ UNCHANGED << wire, ready, in >>

-----------------------------------------------------------------------------
(* mqtt_get_total_length, mqtt_get_publish_topic, mqtt_get_id and            *)
(* mqtt_get_publish_data, on a buffer of which n bytes count.                *)

FixedLength(buffer) ==
    LET ends == {i \in 2 .. Len(buffer) : ~More(buffer[i])} IN
    IF ends = {} THEN Len(buffer) ELSE CHOOSE i \in ends : \A j \in ends : i <= j

TotalLength(buffer) ==
    LET f == FixedLength(buffer)
        value[i \in 2 .. f + 1] ==
            IF i > f THEN 0 ELSE (buffer[i] % Base) + Base * value[i + 1]
    IN f + value[2]

(* What lies behind the bytes read is whatever was left there. *)
At(buffer, i) == IF i \in DOMAIN buffer THEN buffer[i] ELSE 0

TopicLength(buffer) ==
    At(buffer, FixedLength(buffer) + 1) * 256 + At(buffer, FixedLength(buffer) + 2)

HasTopic(buffer) ==
    /\ FixedLength(buffer) + 2 < Len(buffer)
    /\ FixedLength(buffer) + 2 + TopicLength(buffer) <= Len(buffer)

GetId(buffer, n) ==
    IF ~IsPublish(buffer[1])
    THEN IF n >= 4 /\ ~More(buffer[2]) /\ buffer[1] # Pingresp
         THEN << At(buffer, 3), At(buffer, 4) >> ELSE NoId
    ELSE LET i == FixedLength(buffer) + 2 + TopicLength(buffer) IN
         IF Qos(buffer[1]) > 0 /\ i + 2 <= n THEN << At(buffer, i + 1), At(buffer, i + 2) >> ELSE NoId

GetData(buffer) ==
    LET i == FixedLength(buffer) + 2 + TopicLength(buffer)
             + (IF Qos(buffer[1]) > 0 THEN 2 ELSE 0)
    IN SubSeq(buffer, i + 1, IF TotalLength(buffer) < Len(buffer) THEN TotalLength(buffer)
                             ELSE Len(buffer))

(* mqtt_has_valid_msg_hdr *)
Valid(h) ==
    IF IsPublish(h) THEN Qos(h) < 3 /\ (Qos(h) > 0 \/ (h \div 8) % 2 = 0)
    ELSE IF Type(h) \in {6, 8, 10} THEN h % 16 = 2
    ELSE Type(h) \in 1 .. 14 /\ h % 16 = 0

-----------------------------------------------------------------------------
(* mqtt_message_receive.  Each read is a step, for more may arrive between. *)

Receiving(at) ==
    /\ pc = at
    /\ UNCHANGED << sender, event, left, taken, cut >>

(* previous_in_buffer_read_len lives as long as the call. *)
Returns == before' = IF pc' \in {"first", "length", "rest"} THEN before ELSE 0

(* Mutant: a poll goes on after what it has read of the remaining length. *)
PollPastLength ==
    /\ pc = "poll"
    /\ before' = Len(in)
    /\ pc' = IF in = << >> THEN "first" ELSE IF Len(in) = 1 THEN "length" ELSE "rest"
    /\ UNCHANGED << sender, wire, ready, in, event, left, taken, cut, astray >>

Poll ==
    /\ pc = "poll"
    /\ before' = Len(in)
    /\ pc' = IF in = << >> THEN "first"
             ELSE IF Len(in) = 1 \/ (Len(in) < 6 /\ More(Last(in))) THEN "length"
             ELSE "rest"
    /\ UNCHANGED << sender, wire, ready, in, event, left, taken, cut, astray >>

First ==
    /\ Receiving("first")
    /\ \/ ready = 0 /\ pc' = "poll" /\ UNCHANGED << wire, ready, in >>
       \/ /\ Read(1)
          /\ in' = IF Valid(wire[1]) THEN Bytes(1) ELSE in
          /\ pc' = IF Valid(wire[1]) THEN "length" ELSE "failed"
    /\ Returns /\ UNCHANGED astray

(* All of a packet is there. *)
Complete(buffer) ==
    /\ \E i \in 2 .. Len(buffer) : ~More(buffer[i])
    /\ TotalLength(buffer) <= Len(buffer)

(* A poll that finds a byte with the bit 0x80 goes on here even if the length *)
(* has ended before it: at an acknowledgement with the bit in both bytes of   *)
(* its id, cut between them, the next to be read is of the next packet.       *)
Length ==
    /\ Receiving("length")
    /\ \/ NothingYet
       \/ /\ Read(1)
          /\ in' = in \o Bytes(1)
          /\ pc' = IF Len(in) + 1 < 6 /\ More(wire[1]) THEN "length" ELSE "rest"
    /\ astray' = (astray \/ (pc' = "length" /\ Complete(in')))
    /\ Returns

(* Of a publication that does not fit, as much as the buffer holds is read   *)
(* first, provided that the topic does.                                     *)
TooLong     == InLength < TotalLength(in)
TopicKnown  == Len(in) >= FixedLength(in) + 2
TopicFits ==
    FixedLength(in) + TopicLength(in) + (IF Qos(in[1]) > 0 THEN 2 ELSE 0) <= InLength

(* Mutant: the whole message is read into the buffer. *)
WantedAll == TotalLength(in)

Wanted    == IF TooLong THEN InLength ELSE TotalLength(in)

ReadTopicLength ==
    /\ Receiving("rest") /\ TooLong /\ IsPublish(in[1]) /\ ~TopicKnown
    /\ \/ NothingYet
       \/ LET n == Len(in) - FixedLength(in) + 2 IN
          /\ Read(n)
          /\ in' = in \o Bytes(n)
          /\ pc' = IF Len(in') < FixedLength(in) + 2 THEN "poll" ELSE "rest"
    /\ Returns /\ UNCHANGED astray

TooBig ==
    /\ Receiving("rest") /\ TooLong
    /\ ~IsPublish(in[1]) \/ (TopicKnown /\ ~TopicFits)
    /\ pc' = "failed"
    /\ UNCHANGED << wire, ready, in >>
    /\ Returns /\ UNCHANGED astray

ReadRest ==
    /\ Receiving("rest")
    /\ TooLong => IsPublish(in[1]) /\ TopicKnown /\ TopicFits
    /\ \/ Len(in) >= Wanted /\ pc' = "dispatch" /\ UNCHANGED << wire, ready, in >>
       \/ Len(in) < Wanted /\ NothingYet
       \/ /\ Len(in) < Wanted /\ Read(Wanted - Len(in))
          /\ in' = in \o Bytes(Wanted - Len(in))
          /\ pc' = IF Len(in') < Wanted THEN "poll" ELSE "dispatch"
    /\ Returns /\ UNCHANGED astray

-----------------------------------------------------------------------------
(* mqtt_process_receive and deliver_publish, once a message is there. *)

Event ==
    [head |-> in[1], topic |-> IF IsPublish(in[1]) THEN TopicLength(in) ELSE 0,
     id |-> GetId(in, TotalLength(in)),
     data |-> IF IsPublish(in[1]) THEN GetData(in) ELSE << >>]

Done(e) ==
    /\ taken' = Append(taken, e)
    /\ in' = << >> /\ pc' = "poll" /\ event' = << >>

Dispatch ==
    /\ pc = "dispatch" /\ (IsPublish(in[1]) => HasTopic(in))
    /\ IF IsPublish(in[1]) /\ Len(in) < TotalLength(in)
       THEN /\ event' = Event /\ left' = TotalLength(in) - Len(in) /\ pc' = "data"
            /\ UNCHANGED << in, taken >>
       ELSE Done(Event) /\ UNCHANGED left
    /\ UNCHANGED << sender, wire, ready, before, cut, astray >>

NoTopic ==
    /\ pc = "dispatch" /\ IsPublish(in[1]) /\ ~HasTopic(in)
    /\ pc' = "failed"
    /\ UNCHANGED << sender, wire, ready, in, before, event, left, taken, cut, astray >>

(* Mutant: a read that brought less than it asked for is taken for the last. *)
MoreDataShort ==
    /\ pc = "data"
    /\ LET n == IF left > InLength THEN InLength ELSE left
           e == [event EXCEPT !.data = @ \o Bytes(n)]
       IN Read(n) /\ left' = 0 /\ Done(e)
    /\ UNCHANGED << sender, before, cut, astray >>

(* Mutant: a buffer at a time, also when less than that is left. *)
MoreDataPastEnd ==
    /\ pc = "data"
    /\ LET e == [event EXCEPT !.data = @ \o Bytes(InLength)]
       IN /\ Read(InLength)
          /\ left' = left - Len(Bytes(InLength))
          /\ IF left' = 0 THEN Done(e)
             ELSE event' = e /\ UNCHANGED << in, pc, taken >>
    /\ UNCHANGED << sender, before, cut, astray >>

(* The rest of a long publication, a buffer at a time. *)
MoreData ==
    /\ pc = "data"
    /\ LET n == IF left > InLength THEN InLength ELSE left
           e == [event EXCEPT !.data = @ \o Bytes(n)]
       IN /\ Read(n)
          /\ left' = left - Len(Bytes(n))
          /\ IF left' = 0 THEN Done(e)
             ELSE event' = e /\ UNCHANGED << in, pc, taken >>
    /\ UNCHANGED << sender, before, cut, astray >>

(* network_timeout_ms without data: what came is all, and is acknowledged. *)
Stall ==
    /\ pc = "data" /\ ready = 0 /\ ~cut
    /\ cut' = TRUE /\ left' = 0
    /\ Done(event)
    /\ UNCHANGED << sender, wire, ready, before, astray >>

(* esp_mqtt_abort_connection and the next esp_mqtt_connect; what was on the  *)
(* way is gone, and in the history no longer expected.                      *)
Reconnect ==
    /\ pc = "failed"
    /\ taken' = [k \in DOMAIN sent |-> Meant(sent[k])] /\ clear' = TRUE
    /\ cut' = FALSE /\ astray' = FALSE
    /\ wire' = << >> /\ ready' = 0 /\ in' = << >> /\ pc' = "poll"
    /\ UNCHANGED << total, offset, sent, before, event, left >>

Send == \E p \in Packets : Publish(p) \/ Enqueue(p) \/ EnqueueUnstored(p) \/ Control(p)
Task ==
    \/ Poll \/ First \/ Length \/ ReadTopicLength \/ TooBig \/ ReadRest
    \/ Dispatch \/ NoTopic \/ MoreData \/ Reconnect

Next == Send \/ Arrive \/ Task \/ Stall

Spec == Init /\ [][Next]_vars

(* The task keeps polling and the bytes arrive. *)
FairSpec == Spec /\ WF_vars(Task) /\ WF_vars(Arrive)
-----------------------------------------------------------------------------
(* Where the two ends are: whatever is written, and also behind a message   *)
(* given up halfway, the task waits for the rest of a publication exactly   *)
(* while there is some left.                                                *)
TypeOK ==
    /\ total \in Nat /\ offset \in Nat
    /\ sent \in Seq(Packets) /\ clear \in BOOLEAN
    /\ wire \in Seq(0 .. 255) /\ ready \in 0 .. Len(wire)
    /\ in \in Seq(0 .. 255) /\ before \in Nat
    /\ pc \in {"poll", "first", "length", "rest", "dispatch", "data", "failed"}
    /\ left \in Nat /\ (pc = "data") = (left > 0)
    /\ cut \in BOOLEAN /\ astray \in BOOLEAN

(* Neither built with the fields of an earlier fragment, nor given up halfway, *)
(* nor read on past its end.                                                  *)
Untouched == clear /\ ~cut /\ ~astray

(* mqtt_message_receive reads nothing past the end of the input buffer, for *)
(* all that the first bytes of a message only tell how long the whole of it *)
(* is, and that of a long one it asks for the length of the topic anew      *)
(* after a part of that has come: as long as every packet is Untouched.     *)
WithinBuffer == Untouched => Len(in) <= InLength

(* The fixed header, the topic and the id.                                  *)
HeaderLength(p) ==
    1 + Len(Digits[Len(Variable(p)) + p.data]) + Len(Variable(p))

(* TopicFits does not count the two bytes of the topic's length: a header    *)
(* that is longer than the input buffer by one or two passes it, and its id  *)
(* is then handed on as the beginning of the data.                           *)
Straddles(p) == IsPublish(p.head) /\ HeaderLength(p) - InLength \in 1 .. 2

(* Whatever the sizes of the buffers and however the bytes arrive, what     *)
(* mqtt_process_receive hands on are the packets written, one after the     *)
(* other, each with its topic, its id and its data in full: no piece of one *)
(* is taken for the beginning of another.  Excepted are a packet built with *)
(* the fields of an earlier fragment, a long message given up halfway, an   *)
(* acknowledgement read on past its end because its id has the bit 0x80 in  *)
(* both bytes and was cut between them, and, for its own id and data, a     *)
(* packet that straddles.                                                   *)
Framed ==
    Untouched =>
        /\ Len(taken) <= Len(sent)
        /\ \A k \in 1 .. Len(taken) :
             taken[k] = Meant(sent[k]) \/ (Straddles(sent[k]) /\ taken[k].head = sent[k].head)

(* The connection is given up in the middle of a message that stopped       *)
(* coming, or at a publication whose topic and id do not fit the input      *)
(* buffer; not because a message that came in pieces was taken for a broken *)
(* one.  That does happen behind the three exceptions of Untouched, of which *)
(* the last needs nothing but the pieces: about one random id in four has   *)
(* the bit 0x80 in both bytes, and when an acknowledgement with such an id  *)
(* arrives cut between them, the next poll takes the second for a digit of  *)
(* the remaining length and reads on into the next packet; the middle of    *)
(* that is then taken for a packet, and the connection given up over it.    *)
FailsForCause ==
    [][(pc # "failed" /\ pc' = "failed" /\ Untouched) =>
        LET p == sent[Len(taken) + 1] IN
        \/ in # << >> /\ ready = 0 /\ Len(in) = before
        \/ IsPublish(p.head) /\ HeaderLength(p) > InLength]_vars

(* Again and again everything written has been handed on, or the connection *)
(* has failed: no message leaves the reader waiting for bytes that nobody   *)
(* is going to send.                                                        *)
Delivered == []<>(Len(taken) = Len(sent) \/ pc = "failed" \/ ~Untouched)
=============================================================================
