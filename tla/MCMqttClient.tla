----------------------------- MODULE MCMqttClient -----------------------------
(* Values for TLC of the calls of the application in MqttClient. *)
EXTENDS MqttClient

(* A message of QoS 2, then one of QoS 1 or a subscription. *)
TwoCalls == << {"qos2"}, {"qos1", "subscribe"} >>
=============================================================================
