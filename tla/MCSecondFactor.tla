--------------------------- MODULE MCSecondFactor ---------------------------
(* Small instances of SecondFactor for TLC. *)
EXTENDS SecondFactor, TLC

(* Requests and secrets are alike. *)
Symmetry == Permutations(Calls) \cup Permutations(Secrets)
=============================================================================
