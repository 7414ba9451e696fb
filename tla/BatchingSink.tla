---------------------------- MODULE BatchingSink ----------------------------
(***************************************************************************)
(* BatchingSink (audit/src/repository.ts) in front of a remote mirror of   *)
(* the audit trail: writers fill the buffer, the one that fills it up, or  *)
(* a flush, empties it record by record into the inner sink.  Records are  *)
(* numbered in the order they are handed to the sink.                      *)
(***************************************************************************)
EXTENDS Naturals, Sequences, SequencesExt

CONSTANTS
  Calls,
  MaxBatch,   \* maxBatch
  MaxRecords  \* bound on the records

VARIABLES
  buffer,
  batch,      \* the records each call has taken and not yet written
  pc,
  mirror,     \* what the inner sink has got
  given,      \* how many records the sink was given
  \* History, read by no guard of the code:
  failed,     \* records of a batch from the one whose write threw
  overlapped  \* two batches were being written at once

vars == <<buffer, batch, pc, mirror, given, failed, overlapped>>

Records == 1..MaxRecords

TypeOK ==
  /\ buffer \in Seq(Records) /\ mirror \in Seq(Records)
  /\ batch \in [Calls -> Seq(Records)]
  /\ pc \in [Calls -> {"idle", "writing"}]
  /\ given \in 0..MaxRecords
  /\ failed \subseteq Records /\ overlapped \in BOOLEAN

Init ==
  /\ buffer = <<>> /\ mirror = <<>>
  /\ batch = [c \in Calls |-> <<>>]
  /\ pc = [c \in Calls |-> "idle"]
  /\ given = 0
  /\ failed = {} /\ overlapped = FALSE

(* Mutant of Take: the buffer is emptied when the batch is written. *)
TakeCopy(c, records) ==
  /\ pc' = [pc EXCEPT ![c] = "writing"]
  /\ batch' = [batch EXCEPT ![c] = records]
  /\ buffer' = records
  /\ overlapped' = (overlapped \/ \E d \in Calls : pc[d] = "writing")

(* flush leaves an empty buffer to the writers that come meanwhile. *)
Take(c, records) ==
  /\ pc' = [pc EXCEPT ![c] = "writing"]
  /\ batch' = [batch EXCEPT ![c] = records]
  /\ buffer' = <<>>
  /\ overlapped' = (overlapped \/ \E d \in Calls : pc[d] = "writing")

Write(c) ==
  /\ pc[c] = "idle" /\ given < MaxRecords
  /\ given' = given + 1
  /\ LET filled == Append(buffer, given') IN
       IF Len(filled) >= MaxBatch
       THEN Take(c, filled)
       ELSE buffer' = filled /\ UNCHANGED <<batch, pc, overlapped>>
  /\ UNCHANGED <<mirror, failed>>

Flush(c) ==
  /\ pc[c] = "idle" /\ buffer # <<>>
  /\ Take(c, buffer)
  /\ UNCHANGED <<mirror, given, failed>>

WriteInner(c) ==
  /\ batch[c] # <<>>
  /\ mirror' = Append(mirror, Head(batch[c]))
  /\ batch' = [batch EXCEPT ![c] = Tail(@)]
  /\ UNCHANGED <<buffer, pc, given, failed, overlapped>>

(* The inner sink throws, before or after it kept the record: the rest of  *)
(* the batch is gone, and the audit service counts one failure.            *)
FailInner(c) ==
  /\ batch[c] # <<>>
  /\ mirror' \in {mirror, Append(mirror, Head(batch[c]))}
  /\ failed' = failed \cup ToSet(batch[c])
  /\ batch' = [batch EXCEPT ![c] = <<>>]
  /\ pc' = [pc EXCEPT ![c] = "idle"]
  /\ UNCHANGED <<buffer, given, overlapped>>

(* The inner sink's own flush, which may throw as well. *)
FlushInner(c) ==
  /\ pc[c] = "writing" /\ batch[c] = <<>>
  /\ pc' = [pc EXCEPT ![c] = "idle"]
  /\ UNCHANGED <<buffer, batch, mirror, given, failed, overlapped>>

Next == \E c \in Calls : Write(c) \/ Flush(c) \/ WriteInner(c) \/ FailInner(c) \/ FlushInner(c)

Spec == Init /\ [][Next]_vars

-----------------------------------------------------------------------------
(* Properties *)

Pending == ToSet(buffer) \cup UNION {ToSet(batch[c]) : c \in Calls}

Increasing(s) == \A i, j \in 1..Len(s) : i < j => s[i] < s[j]

(* The mirror gets each record once and none that was not given; one that  *)
(* is missing is on its way or was in a batch whose write threw; and the   *)
(* mirror has the order of the trail unless two batches were written at    *)
(* once.                                                                   *)
MirrorIsComplete ==
  /\ \A r \in 1..given : r \in Pending \cup ToSet(mirror) \cup failed
  /\ Pending \cap ToSet(mirror) = {} /\ IsInjective(mirror)
  /\ overlapped \/ Increasing(mirror)
=============================================================================
