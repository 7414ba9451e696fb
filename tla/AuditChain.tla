---------------------------- MODULE AuditChain ----------------------------
(***************************************************************************)
(* The audit trail: AuditService.write and verifyChain                     *)
(* (audit/src/service.ts) over the AuditRepositoryPort all replicas share, *)
(* in the two forms the port allows: one that serialises the appends, as   *)
(* MemoryAuditRepository does (audit/src/repository.ts), and an optimistic *)
(* one, a table with a unique index on (tenant, sequence).                 *)
(*                                                                         *)
(* A writer is one write of one event, the event named after it.  Writes   *)
(* the service suppresses, its sinks and appends that join a transaction   *)
(* of the caller are left out.                                             *)
(***************************************************************************)
EXTENDS Naturals, FiniteSets, SequencesExt

CONSTANTS
  Writers,     \* the writes, on any replica, and their events
  Upgraded,    \* those whose replica seals with format 2
  Tenants,
  NoTenant,    \* the tenant of a write that has not begun
  Forged,      \* an event nobody wrote
  MaxAttempts, \* options.maxChainAttempts
  MaxRecords   \* options.maxRecords of the memory repository

(* A digest is collision free: it stands for what was hashed, which is the *)
(* sequence, the event and the previous digest, by the format's rules.     *)
Null == <<>>                              \* previousHash of a genesis record
Hash(format, event, sequence, previous) == Append(previous, <<format, event, sequence>>)

Formats == {1, 2}
FormatOf(w) == IF w \in Upgraded THEN 2 ELSE 1
Digest == Seq(Formats \X (Writers \cup {Forged}) \X Nat)
Record == [tenant: Tenants, event: Writers, sequence: Nat, format: Formats,
           previousHash: Digest, hash: Digest]
ChainHead == [sequence: Nat, hash: Digest]
NoHead == [sequence |-> 0, hash |-> Null]    \* the null head of an empty chain

ASSUME AuditAssumption ==
  /\ Upgraded \subseteq Writers /\ NoTenant \notin Tenants /\ Forged \notin Writers
  /\ MaxAttempts \in Nat \ {0} /\ MaxRecords \in Nat \ {0}

VARIABLES
  strategy, \* how the repository serialises, for the whole run
  trail,    \* per tenant, every record ever stored, in the order of insertion
  records,  \* the array of the store: <<t, n>> is the n-th record of t
  pc,       \* where each write is
  tenant,   \* the tenant of each write
  head,     \* the head an optimistic append has read
  attempts, \* the conflicts each write has met
  \* History, read by no guard of the code:
  gone,     \* per tenant, the place in its trail of the last record pushed out
  restarted \* tenants that began again at 1 after all their records went

vars == <<strategy, trail, records, pc, tenant, head, attempts, gone, restarted>>

Finished == {"recorded", "conflict", "failed"}
Stages == Finished \cup {"idle", "append", "insert", "committed"}

TypeOK ==
  /\ strategy \in {"serialised", "optimistic"}
  /\ trail \in [Tenants -> Seq(Record)]
  /\ records \in Seq(Tenants \X Nat)
  /\ pc \in [Writers -> Stages]
  /\ tenant \in [Writers -> Tenants \cup {NoTenant}]
  /\ head \in [Writers -> ChainHead]
  /\ attempts \in [Writers -> 0..MaxAttempts]
  /\ gone \in [Tenants -> Nat]
  /\ restarted \subseteq Tenants

Init ==
  /\ strategy \in {"serialised", "optimistic"}
  /\ trail = [t \in Tenants |-> <<>>]
  /\ records = <<>>
  /\ pc = [w \in Writers |-> "idle"]
  /\ tenant = [w \in Writers |-> NoTenant]
  /\ head = [w \in Writers |-> NoHead]
  /\ attempts = [w \in Writers |-> 0]
  /\ gone = [t \in Tenants |-> 0]
  /\ restarted = {}

-----------------------------------------------------------------------------
(* The repository *)

(* The records of t that are in the array: those behind the ones pushed out. *)
Chain(t) == SubSeq(trail[t], gone[t] + 1, Len(trail[t]))

HeadAt(r) == [sequence |-> r.sequence, hash |-> r.hash]

(* Mutant of HeadOf: the last record of any tenant. *)
HeadOfAny(t) ==
  IF records = <<>> THEN NoHead ELSE HeadAt(trail[Last(records)[1]][Last(records)[2]])

(* #headOf: the last record of the tenant still in the array. *)
HeadOf(t) == IF Chain(t) = <<>> THEN NoHead ELSE HeadAt(Last(Chain(t)))

(* Mutant of Sealed: records do not say their format. *)
SealedBare(w, t, previous) ==
  LET sequence == previous.sequence + 1 IN
  [tenant |-> t, event |-> w, sequence |-> sequence, previousHash |-> previous.hash,
   hash |-> Hash(FormatOf(w), w, sequence, previous.hash)]

(* seal: the record that follows a head. *)
Sealed(w, t, previous) ==
  LET sequence == previous.sequence + 1 IN
  [tenant |-> t, event |-> w, sequence |-> sequence, format |-> FormatOf(w),
   previousHash |-> previous.hash,
   hash |-> Hash(FormatOf(w), w, sequence, previous.hash)]

(* The memory repository pushes and keeps the last maxRecords of all       *)
(* tenants together; a table keeps everything.                             *)
Store(r) ==
  LET t == r.tenant
      all == Append(records, <<t, Len(trail[t]) + 1>>)
  IN
  /\ trail' = [trail EXCEPT ![t] = Append(@, r)]
  /\ restarted' = IF r.sequence = 1 /\ gone[t] # 0 THEN restarted \cup {t} ELSE restarted
  /\ IF strategy = "serialised" /\ Len(all) > MaxRecords
     THEN /\ records' = Tail(all)
          /\ gone' = [gone EXCEPT ![all[1][1]] = all[1][2]]
     ELSE records' = all /\ UNCHANGED gone

-----------------------------------------------------------------------------
(* write *)

Step(w, from, to) == pc[w] = from /\ pc' = [pc EXCEPT ![w] = to]

Begin(w, t) ==
  /\ Step(w, "idle", "append")
  /\ tenant' = [tenant EXCEPT ![w] = t]
  /\ UNCHANGED <<strategy, trail, records, head, attempts, gone, restarted>>

(* appendChained of a store that serialises: head, seal and insert at once.*)
Append1(w) ==
  /\ strategy = "serialised"
  /\ Step(w, "append", "committed")
  /\ Store(Sealed(w, tenant[w], HeadOf(tenant[w])))
  /\ UNCHANGED <<strategy, tenant, head, attempts>>

(* appendChained of one that does not: read the head, *)
ReadHead(w) ==
  /\ strategy = "optimistic"
  /\ Step(w, "append", "insert")
  /\ head' = [head EXCEPT ![w] = HeadOf(tenant[w])]
  /\ UNCHANGED <<strategy, trail, records, tenant, attempts, gone, restarted>>

Taken(t, sequence) == \E r \in Range(Chain(t)) : r.sequence = sequence

(* then insert, *)
Insert(w) ==
  /\ Step(w, "insert", "committed")
  /\ ~Taken(tenant[w], head[w].sequence + 1)
  /\ Store(Sealed(w, tenant[w], head[w]))
  /\ UNCHANGED <<strategy, tenant, head, attempts>>

(* Mutants of Conflict: retries with the head it has, counted and not. *)
ConflictStale(w) ==
  /\ Step(w, "insert", IF attempts[w] + 1 < MaxAttempts THEN "insert" ELSE "conflict")
  /\ Taken(tenant[w], head[w].sequence + 1)
  /\ attempts' = [attempts EXCEPT ![w] = @ + 1]
  /\ UNCHANGED <<strategy, trail, records, tenant, head, gone, restarted>>
ConflictSpins(w) ==
  /\ Step(w, "insert", "insert")
  /\ Taken(tenant[w], head[w].sequence + 1)
  /\ UNCHANGED <<strategy, trail, records, tenant, head, attempts, gone, restarted>>

(* unless the index is violated: #appendWithRetry tries again, with a new  *)
(* head, or raises the ChainConflictError.                                 *)
Conflict(w) ==
  /\ Step(w, "insert", IF attempts[w] + 1 < MaxAttempts THEN "append" ELSE "conflict")
  /\ Taken(tenant[w], head[w].sequence + 1)
  /\ attempts' = [attempts EXCEPT ![w] = @ + 1]
  /\ UNCHANGED <<strategy, trail, records, tenant, head, gone, restarted>>

(* The store's answer arrives. *)
Deliver(w) ==
  /\ Step(w, "committed", "recorded")
  /\ UNCHANGED <<strategy, trail, records, tenant, head, attempts, gone, restarted>>

(* Mutant of Fail: whatever failed is tried again. *)
FailRetries(w) ==
  /\ pc[w] \in {"append", "insert", "committed"}
  /\ Step(w, pc[w], "append")
  /\ UNCHANGED <<strategy, trail, records, tenant, head, attempts, gone, restarted>>

(* A throw in seal, a partition, a timeout or a crash: any failure but a   *)
(* conflict goes to the caller, whether the store has committed or not.    *)
Fail(w) ==
  /\ pc[w] \in {"append", "insert", "committed"}
  /\ Step(w, pc[w], "failed")
  /\ UNCHANGED <<strategy, trail, records, tenant, head, attempts, gone, restarted>>

Proceed(w) ==
  Append1(w) \/ ReadHead(w) \/ Insert(w) \/ Conflict(w) \/ Deliver(w)

Next == \E w \in Writers : (\E t \in Tenants : Begin(w, t)) \/ Proceed(w) \/ Fail(w)

(* The event loop of a live replica goes on, and the store answers. *)
Fairness == \A w \in Writers : WF_vars(Proceed(w))

Spec == Init /\ [][Next]_vars /\ Fairness

-----------------------------------------------------------------------------
(* verifyChain *)

(* Mutants of Check: one that does not hash anew, and one for which a      *)
(* resumed walk may begin at any position.                                 *)
CheckLinks(chain, i, from, formats) ==
  LET r == chain[i]
      resumed == i > 1 \/ from # NoHead
      before == IF i > 1 THEN chain[i - 1] ELSE from
  IN
  IF resumed /\ r.sequence # before.sequence + 1 THEN "SEQUENCE_GAP"
  ELSE IF r.previousHash # before.hash THEN "LINK_MISMATCH"
  ELSE IF r.format \notin formats THEN "UNKNOWN_FORMAT"
  ELSE "ok"
CheckAnywhere(chain, i, from, formats) ==
  LET r == chain[i]
      before == IF i > 1 THEN chain[i - 1] ELSE from
  IN
  IF i > 1 /\ r.sequence # before.sequence + 1 THEN "SEQUENCE_GAP"
  ELSE IF r.previousHash # before.hash THEN "LINK_MISMATCH"
  ELSE IF r.format \notin formats THEN "UNKNOWN_FORMAT"
  ELSE IF r.hash # Hash(r.format, r.event, r.sequence, r.previousHash)
       THEN "DIGEST_MISMATCH"
  ELSE "ok"

(* The checks on record i of a walk over chain, in the order of the code.  *)
(* A walk from the null head takes any position for its first record; one  *)
(* that resumes knows which must come.                                     *)
Check(chain, i, from, formats) ==
  LET r == chain[i]
      resumed == i > 1 \/ from # NoHead
      before == IF i > 1 THEN chain[i - 1] ELSE from
  IN
  IF resumed /\ r.sequence # before.sequence + 1 THEN "SEQUENCE_GAP"
  ELSE IF r.previousHash # before.hash THEN "LINK_MISMATCH"
  ELSE IF r.format \notin formats THEN "UNKNOWN_FORMAT"
  ELSE IF r.hash # Hash(r.format, r.event, r.sequence, r.previousHash)
       THEN "DIGEST_MISMATCH"
  ELSE "ok"

(* The walk stops at the first record that fails a check. *)
VerifyChain(chain, from, formats) ==
  LET broken == {i \in DOMAIN chain : Check(chain, i, from, formats) # "ok"} IN
  IF broken = {} THEN [code |-> "valid", checked |-> Len(chain)]
  ELSE LET i == Min(broken) IN
       [code |-> Check(chain, i, from, formats), checked |-> i - 1]

-----------------------------------------------------------------------------
(* Evidence that was tampered with.  Whoever does it can write rows but    *)
(* seals nothing anew.                                                     *)

Removed(chain) == {RemoveAt(chain, i) : i \in 1..(Len(chain) - 1)}
Swapped(chain) ==
  {[chain EXCEPT ![i] = chain[i + 1], ![i + 1] = chain[i]] : i \in 1..(Len(chain) - 1)}
Altered(chain) == {[chain EXCEPT ![i].event = Forged] : i \in DOMAIN chain}
Inserted(chain) ==
  {InsertAt(chain, i, [chain[i] EXCEPT !.event = Forged]) : i \in DOMAIN chain}
Tampered(chain) ==
  Removed(chain) \cup Swapped(chain) \cup Altered(chain) \cup Inserted(chain)

(* What a walk of the stored records of t resumes from: the last record    *)
(* that maxRecords pushed out, as a checkpoint kept elsewhere would say.   *)
Checkpoint(t) == IF gone[t] = 0 THEN NoHead ELSE HeadAt(trail[t][gone[t]])

-----------------------------------------------------------------------------
(* Properties *)

(* The trail of every tenant verifies, after any interleaving of writers,  *)
(* conflicts, crashes and lost answers, under either strategy; no writer   *)
(* ever makes the tamper alarm fire.                                       *)
ChainVerifies ==
  \A t \in Tenants \ restarted :
    VerifyChain(Chain(t), Checkpoint(t), Formats)
      = [code |-> "valid", checked |-> Len(Chain(t))]

(* A record removed before the last one, moved, altered or inserted is     *)
(* detected, at the front of a resumed walk too.                           *)
TamperingShows ==
  \A t \in Tenants \ restarted : \A evidence \in Tampered(Chain(t)) :
    VerifyChain(evidence, Checkpoint(t), Formats).code
      \in {"SEQUENCE_GAP", "LINK_MISMATCH", "DIGEST_MISMATCH"}

(* A walk in two batches, the second resumed from the last record of the   *)
(* first, says what one walk over the whole says, of intact evidence and   *)
(* of evidence that was tampered with, whichever formats are known.        *)
BatchesAgree ==
  \A t \in Tenants \ restarted, known \in SUBSET Formats :
    \A chain \in Tampered(Chain(t)) \cup {Chain(t)} : \A k \in DOMAIN chain :
      LET whole  == VerifyChain(chain, Checkpoint(t), known)
          first  == VerifyChain(SubSeq(chain, 1, k), Checkpoint(t), known)
          resume == [sequence |-> chain[k].sequence, hash |-> chain[k].hash]
          second == VerifyChain(SubSeq(chain, k + 1, Len(chain)), resume, known)
      IN whole = IF first.code = "valid" THEN [second EXCEPT !.checked = @ + k] ELSE first

(* A write meets a conflict only when another write to its tenant got      *)
(* through since its last attempt: contention never stops everyone.        *)
ConflictsArePaidFor ==
  \A w \in Writers :
    attempts[w] > 0 => attempts[w] <= Len(trail[tenant[w]])

(* Every write comes to an end, however many others conflict with it. *)
WritesEnd == \A w \in Writers : pc[w] = "append" ~> pc[w] \in Finished

(* The records, those pushed out included, are the log of AppendOnlyLog:   *)
(* nothing is lost, moved or written twice, and every answer is true.      *)
Trail == INSTANCE AppendOnlyLog WITH
  log <- [t \in Tenants |-> [i \in DOMAIN trail[t] |-> trail[t][i].event]],
  answer <- [w \in Writers |-> IF pc[w] \in Finished THEN pc[w] ELSE "none"]
TrailIsLog == Trail!Spec

-----------------------------------------------------------------------------
(* A claim of the repository that the code does not keep *)

(* conformance/src/audit.ts: a busy tenant must not be able to break a      *)
(* quiet one's chain; every sequence number is allocated once.             *)
SequencesAreUnique ==
  \A t \in Tenants : \A i, j \in DOMAIN trail[t] :
    trail[t][i].sequence = trail[t][j].sequence => i = j
=============================================================================
