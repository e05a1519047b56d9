------------------------------ MODULE MotionMode ------------------------------
(****************************************************************************)
(* What the motion control of main.c promises: one motion or none is        *)
(* requested, and one request replaces another only through a moment with   *)
(* none; the legs begin only the motion requested at that moment, and only  *)
(* outside CLI mode or when CLI mode came too late to stop them.            *)
(****************************************************************************)
CONSTANTS Motion,  \* the motions that can be requested
          None     \* no motion, not in Motion: the legs stand or hold

VARIABLES mode,    \* the requested motion
          cli,     \* the robot is paused for the command line
          active,  \* the motion the legs perform
          armed    \* the legs may begin a motion: cli was off when last looked

vars == << mode, cli, active, armed >>

Init == mode = None /\ cli = FALSE /\ active = None /\ armed = FALSE

Start(m) == mode = None /\ mode' = m /\ UNCHANGED << cli, active, armed >>
Stop     == mode # None /\ mode' = None /\ UNCHANGED << cli, active, armed >>
Flip     == cli' = ~cli /\ UNCHANGED << mode, active, armed >>
Arm      == ~cli /\ armed' = TRUE /\ UNCHANGED << mode, cli, active >>
Perform  == armed /\ active' = mode /\ armed' = FALSE /\ UNCHANGED << mode, cli >>

(* The motion is over; a one-shot motion withdraws its own request. *)
Finish ==
    /\ active # None /\ active' = None
    /\ mode' \in {mode, IF mode = active THEN None ELSE mode}
    /\ UNCHANGED << cli, armed >>

Next == (\E m \in Motion : Start(m)) \/ Stop \/ Flip \/ Arm \/ Perform \/ Finish

Spec == Init /\ [][Next]_vars
=============================================================================
