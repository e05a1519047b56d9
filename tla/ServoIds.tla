------------------------------- MODULE ServoIds -------------------------------
(****************************************************************************)
(* The numbering of the twelve servos (src/main/driver_board.h).  A board   *)
(* variant permutes the electrical channels behind the printed connectors;  *)
(* db_phys maps a connector number to its channel and is applied a second   *)
(* time wherever the code goes the other way.                               *)
(****************************************************************************)
EXTENDS Naturals

Servos   == 1 .. 12
Variants == 1 .. 3

(* The pairs of connectors each variant exchanges, as tables. *)
Reversed == << 3, 2, 1, 6, 5, 4, 9, 8, 7, 12, 11, 10 >>
Purple   == << 4, 6, 5, 1, 3, 2, 10, 12, 11, 7, 9, 8 >>

DbPhys(b, id) == IF b = 2 THEN Reversed[id] ELSE IF b = 3 THEN Purple[id] ELSE id
===============================================================================
