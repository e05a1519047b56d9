----------------------------- MODULE MqttDelivery -----------------------------
(****************************************************************************)
(* What the MQTT library promises of a message of QoS 1 or 2 once it is in  *)
(* the outbox, src/managed_components/espressif__mqtt/docs/en/index.rst     *)
(* 42-51: it is kept until the broker has confirmed it or it is given up    *)
(* (expired, or the client stopped), a confirmed one has arrived, and one   *)
(* of QoS 2 arrives once.                                                   *)
(****************************************************************************)
EXTENDS Naturals

CONSTANT Messages

VARIABLES
    fate,     \* of each message
    once,     \* the messages of QoS 2
    arrived   \* how often the broker took each for a new one, up to 2

Fates == {"new", "held", "confirmed", "gone"}

Init ==
    /\ fate = [m \in Messages |-> "new"]
    /\ once = {}
    /\ arrived = [m \in Messages |-> 0]

Accept(m) ==
    /\ fate[m] = "new"
    /\ fate' = [fate EXCEPT ![m] = "held"]
    /\ once' \in {once, once \cup {m}}
    /\ UNCHANGED arrived

(* On the way even after it was confirmed or given up. *)
Arrive(m) ==
    /\ fate[m] # "new"
    /\ m \in once => arrived[m] = 0
    /\ arrived' = [arrived EXCEPT ![m] = IF @ = 2 THEN 2 ELSE @ + 1]
    /\ UNCHANGED << fate, once >>

Confirm(m) ==
    /\ fate[m] = "held" /\ arrived[m] > 0
    /\ fate' = [fate EXCEPT ![m] = "confirmed"]
    /\ UNCHANGED << once, arrived >>

GiveUp(lost) ==
    /\ \A m \in lost : fate[m] = "held"
    /\ fate' = [m \in Messages |-> IF m \in lost THEN "gone" ELSE fate[m]]
    /\ UNCHANGED << once, arrived >>

Next ==
    \/ \E m \in Messages : Accept(m) \/ Arrive(m) \/ Confirm(m)
    \/ \E lost \in SUBSET Messages : GiveUp(lost)

Spec == Init /\ [][Next]_<< fate, once, arrived >>
=============================================================================
