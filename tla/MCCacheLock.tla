---------------------------- MODULE MCCacheLock ----------------------------
(* Small instances of CacheLock for TLC. *)
EXTENDS CacheLock
=============================================================================
