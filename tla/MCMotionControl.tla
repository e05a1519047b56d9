--------------------------- MODULE MCMotionControl ---------------------------
(* Values for TLC of the durations of MotionControl. *)
EXTENDS MotionControl

(* No durations: every interleaving of the tasks is explored. *)
Untimed == [m \in Flags \cup {"stand"} |-> 0]

(* In ticks of 50 ms at the default period of 80 ms: four quarter cycles of  *)
(* 80 ms take at least 6 ticks, Jump at least 13, TestSpeed 130; the hold    *)
(* branches and one Stanford gait tick are shorter than a tick.              *)
Timed == [m \in Flags \cup {"stand"} |->
            IF m \in {"Ini", "Stanford", "manual8", "stand"} THEN 0
            ELSE IF m \in OneShots THEN 13 ELSE 6]

(* The same order of lengths, cut down for the liveness run. *)
Brief == [m \in Flags \cup {"stand"} |->
            IF m \in {"Ini", "Stanford", "manual8", "stand"} THEN 0 ELSE 2]
=============================================================================
