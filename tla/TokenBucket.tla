---------------------------- MODULE TokenBucket ----------------------------
(***************************************************************************)
(* TokenBucket.consume (cache/src/counters.ts) for one key of a cache that *)
(* several replicas share, with and without compareAndSet.  A call looks   *)
(* at the clock, reads the bucket and writes it back, again if another     *)
(* write came first.  Time and tokens are counted in units small enough    *)
(* for Rate to be whole.  Each call is one request and runs once.          *)
(***************************************************************************)
EXTENDS Integers, FiniteSets, FiniteSetsExt

CONSTANTS
  Calls,
  Capacity,    \* capacity
  Rate,        \* refillPerSecond, per unit of time
  Cost,        \* cost of a request
  MaxAttempts, \* maxAttempts
  MaxTime      \* bound on the clock

VARIABLES
  swaps,       \* enforcement: whether the cache has compareAndSet
  now,
  bucket,      \* the cache's entry
  pc, stamp, stored, attempt, \* where each call is, and what it holds
  \* History, read by no guard of the code:
  latest,      \* the latest time the bucket was written for
  rewound,     \* it was written for an earlier one, or after a long stall
  evicted,     \* the cache lost the entry early
  crowd        \* the most calls there were in flight at once

entry == <<swaps, now, bucket>>
call == <<pc, stamp, stored, attempt>>
history == <<latest, rewound, evicted, crowd>>
vars == <<entry, call, history>>

State == [tokens: 0..Capacity, updatedAt: -1..MaxTime]
NoState == [tokens |-> 0, updatedAt |-> -1]

InFlight == {c \in Calls : pc[c] \in {"get", "write"}}

TypeOK ==
  /\ swaps \in BOOLEAN /\ now \in 0..MaxTime
  /\ bucket \in [state: State, until: Nat]
  /\ pc \in [Calls -> {"idle", "get", "write", "again", "allowed", "denied"}]
  /\ stamp \in [Calls -> -1..MaxTime] /\ stored \in [Calls -> State]
  /\ attempt \in [Calls -> 1..MaxAttempts]
  /\ latest \in 0..MaxTime /\ rewound \in BOOLEAN /\ evicted \in BOOLEAN
  /\ crowd \in 0..Cardinality(Calls)

Init ==
  /\ swaps \in BOOLEAN /\ now = 0
  /\ bucket = [state |-> NoState, until |-> 0]
  /\ pc = [c \in Calls |-> "idle"]
  /\ stamp = [c \in Calls |-> -1] /\ stored = [c \in Calls |-> NoState]
  /\ attempt = [c \in Calls |-> 1]
  /\ latest = 0 /\ rewound = FALSE /\ evicted = FALSE /\ crowd = 0

Step(c, from, to) == pc[c] = from /\ pc' = [pc EXCEPT ![c] = to]

-----------------------------------------------------------------------------
(* The cache's entry *)

Live == IF now < bucket.until THEN bucket.state ELSE NoState

(* Mutant of Ttl: half the time to fill up. *)
TtlShort == Capacity \div (2 * Rate)

(* Twice the time an empty bucket takes to fill up, rounded up. *)
Ttl == (2 * Capacity + Rate - 1) \div Rate

Put(state) == bucket' = [state |-> state, until |-> now + Ttl]

-----------------------------------------------------------------------------
(* consume *)

(* The tokens at the time the call looked at the clock. *)
Tokens(c) ==
  IF stored[c] = NoState THEN Capacity
  ELSE Min({Capacity, stored[c].tokens + Max({0, (stamp[c] - stored[c].updatedAt) * Rate})})

Allowed(c) == Tokens(c) >= Cost

NextState(c) ==
  [tokens |-> IF Allowed(c) THEN Tokens(c) - Cost ELSE Tokens(c), updatedAt |-> stamp[c]]

Look(c) ==
  /\ \/ Step(c, "idle", "get") /\ UNCHANGED attempt
     \/ Step(c, "again", "get") /\ attempt' = [attempt EXCEPT ![c] = @ + 1]
  /\ stamp' = [stamp EXCEPT ![c] = now]
  /\ crowd' = Max({crowd, Cardinality(InFlight \cup {c})})
  /\ UNCHANGED <<entry, stored, latest, rewound, evicted>>

Get(c) ==
  /\ Step(c, "get", "write")
  /\ stored' = [stored EXCEPT ![c] = Live]
  /\ UNCHANGED <<entry, stamp, attempt, history>>

(* Mutant of Write: the swap does not compare. *)
WriteAnyway(c) ==
  /\ Step(c, "write", IF Allowed(c) THEN "allowed" ELSE "denied")
  /\ Put(NextState(c))
  /\ latest' = Max({latest, stamp[c]})
  /\ UNCHANGED <<swaps, now, stamp, stored, attempt, rewound, evicted, crowd>>

(* compareAndSet of what was read, or a plain set. *)
Write(c) ==
  /\ Step(c, "write", IF Allowed(c) THEN "allowed" ELSE "denied")
  /\ swaps => Live = stored[c]
  /\ Put(NextState(c))
  /\ latest' = Max({latest, stamp[c]})
  /\ rewound' = \/ rewound \/ stamp[c] < latest
                \/ stored[c] = NoState /\ (now - stamp[c]) * Rate >= Capacity
  /\ UNCHANGED <<swaps, now, stamp, stored, attempt, evicted, crowd>>

(* Another write came first: the call begins again, or refuses. *)
Contend(c) ==
  /\ Step(c, "write", IF attempt[c] < MaxAttempts THEN "again" ELSE "denied")
  /\ swaps /\ Live # stored[c]
  /\ UNCHANGED <<entry, stamp, stored, attempt, history>>

-----------------------------------------------------------------------------

Evict ==
  /\ Live # NoState
  /\ bucket' = [state |-> NoState, until |-> 0]
  /\ evicted' = TRUE
  /\ UNCHANGED <<swaps, now, call, latest, rewound, crowd>>

Tick ==
  /\ now < MaxTime
  /\ now' = now + 1
  /\ UNCHANGED <<swaps, bucket, call, history>>

Next == (\E c \in Calls : Look(c) \/ Get(c) \/ Write(c) \/ Contend(c)) \/ Evict \/ Tick

Spec == Init /\ [][Next]_vars

-----------------------------------------------------------------------------
(* Properties *)

(* What has been let through since t, by the times the calls began. *)
Spent(t) == Cost * Cardinality({c \in Calls : pc[c] = "allowed" /\ stamp[c] >= t})

(* At most the burst and what has been refilled since, over every interval, *)
(* and `excess` requests more.                                              *)
Within(excess) ==
  \A t \in 0..now : Spent(t) <= Capacity + Rate * (now - t) + Cost * excess

(* With compareAndSet the limit is exact, as long as the entry is kept and *)
(* no call writes it for an earlier time than another has: consume looks   *)
(* at the clock before it reads the bucket.                                *)
ExactInOrder == swaps /\ ~rewound /\ ~evicted => Within(0)

(* A claim of the repository that the code does not keep, cache/src/       *)
(* counters.ts:146: "`compare-and-swap` means the limit is exact across    *)
(* every replica"; otherwise concurrent consumers over-admit "by up to the *)
(* number of simultaneous in-flight requests".                             *)
EnforcementAsReported == ~evicted => Within(IF swaps THEN 0 ELSE crowd)
=============================================================================
