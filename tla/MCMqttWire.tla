------------------------------ MODULE MCMqttWire ------------------------------
(* A publication that fits both buffers with QoS 0 and straddles the input    *)
(* buffer with QoS 1, one longer than both buffers, and one whose topic the   *)
(* input buffer cannot hold, by one byte with QoS 0; two ids whose first byte *)
(* has the bit that continues a remaining length, so that a poll that finds   *)
(* an acknowledgement cut there takes up the remaining length again, and of   *)
(* them one whose second byte has it too, so that it also reads on past the   *)
(* acknowledgement.                                                           *)
EXTENDS MqttWire

ThreeSizes == {<< 2, 1 >>, << 1, 6 >>, << 4, 1 >>}
HighIds    == {<< Base + 1, 1 >>, << Base + 1, Base + 1 >>}
=============================================================================
