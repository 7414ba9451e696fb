--------------------------- MODULE MCCredentials ---------------------------
(* Small instances of Credentials for TLC. *)
EXTENDS Credentials, TLC

(* Requests, passwords and links are alike. *)
Symmetry == Permutations(Calls) \cup Permutations(Passwords) \cup Permutations(Links)
=============================================================================
