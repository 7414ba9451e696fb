-------------------------- MODULE MCRefreshTokens --------------------------
(* Small instances of RefreshTokens for TLC. *)
EXTENDS RefreshTokens, TLC

(* Calls, tokens and devices are interchangeable. *)
Symmetry == Permutations(Calls) \cup Permutations(Tokens) \cup Permutations(Devices)
=============================================================================
