-------------------------------- MODULE Parts --------------------------------
(* What the compositions of parts that share no state declare in common:     *)
(* which part a behaviour is of, the state of its calls and its clock, and   *)
(* what the variables of the other parts hold.                               *)
CONSTANT Unused

VARIABLES part, pc, now
=============================================================================
