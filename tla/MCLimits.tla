------------------------------ MODULE MCLimits ------------------------------
(* Small instances for TLC of the two limiters and the memory cache: a       *)
(* behaviour is one of TokenBucket, RateLimiter or MemoryCache, and the      *)
(* variables of the others stay Unused.                                      *)
EXTENDS Integers, FiniteSets, TLC, Parts

CONSTANTS
  Calls, MaxTime,
  Capacity, Rate, Cost, MaxAttempts,
  Limit, Window, Factor,
  MaxEntries, Sample, MaxTtl, MaxCount, Text, NoValue

VARIABLES
  \* of both limiters:
  stamp,
  \* of TokenBucket and RateLimiter:
  swaps, bucket, stored, attempt, latest, rewound, evicted, crowd,
  adaptive, count, expires, violations, width, current, before, late, disturbed,
  \* of MemoryCache:
  entries, truth, newer, counted

T == INSTANCE TokenBucket
R == INSTANCE RateLimiter

(* The names of the calls serve as keys: both are alike. *)
M == INSTANCE MemoryCache WITH Keys <- Calls

(* There are so many calls; tokens come in, and a window takes some time.    *)
ASSUME LimitsAssumption ==
  /\ IsFiniteSet(Calls) /\ MaxTime \in Nat
  /\ Capacity \in Nat /\ Rate \in Nat \ {0} /\ Cost \in Nat /\ MaxAttempts \in Nat \ {0}
  /\ Limit \in Nat /\ Window \in Nat \ {0} /\ Factor \in Nat \ {0}
  /\ MaxEntries \in Nat /\ Sample \in Nat /\ MaxTtl \in Nat /\ MaxCount \in Nat \ {0}

ofBucket == <<swaps, bucket, stored, attempt, latest, rewound, evicted, crowd>>
ofLimiter == <<adaptive, count, expires, violations, width, current, before, late, disturbed>>
ofCache == <<entries, truth, newer, counted>>
ofCalls == <<pc, now, stamp>>

NoBucket ==
  /\ swaps = Unused /\ bucket = Unused /\ stored = Unused /\ attempt = Unused
  /\ latest = Unused /\ rewound = Unused /\ evicted = Unused /\ crowd = Unused
NoLimiter ==
  /\ adaptive = Unused /\ count = Unused /\ expires = Unused /\ violations = Unused
  /\ width = Unused /\ current = Unused /\ before = Unused /\ late = Unused
  /\ disturbed = Unused
NoCache == entries = Unused /\ truth = Unused /\ newer = Unused /\ counted = Unused
NoCalls == pc = Unused /\ now = Unused /\ stamp = Unused

LimitsInit ==
  \/ part = "bucket" /\ T!Init /\ NoLimiter /\ NoCache
  \/ part = "limiter" /\ R!Init /\ NoBucket /\ NoCache
  \/ part = "cache" /\ M!Init /\ NoBucket /\ NoLimiter /\ NoCalls

-----------------------------------------------------------------------------
(* The actions of each part, one by one so that TLC counts each of them.     *)

InBucket == part = "bucket" /\ UNCHANGED <<part, ofLimiter, ofCache>>

BucketNext ==
  \/ \E c \in Calls :
       \/ InBucket /\ T!Look(c)
       \/ InBucket /\ T!Get(c)
       \/ InBucket /\ T!Write(c)
       \/ InBucket /\ T!Contend(c)
  \/ InBucket /\ T!Evict
  \/ InBucket /\ T!Tick

InLimiter == part = "limiter" /\ UNCHANGED <<part, ofBucket, ofCache>>

LimiterNext ==
  \/ \E c \in Calls :
       \/ InLimiter /\ R!Begin(c)
       \/ InLimiter /\ R!Increment(c)
       \/ InLimiter /\ R!ReadPrevious(c)
       \/ InLimiter /\ R!RecordViolation(c)
       \/ InLimiter /\ R!Degrade(c)
       \/ InLimiter /\ R!ResetBucket(c)
       \/ InLimiter /\ R!Forgive(c)
  \/ \E b \in R!Buckets : InLimiter /\ R!Evict(b)
  \/ InLimiter /\ R!Tick

InCache == part = "cache" /\ UNCHANGED <<part, ofCalls, ofBucket, ofLimiter>>

CacheNext ==
  \/ \E k \in Calls :
       \/ InCache /\ M!GetMiss(k)
       \/ InCache /\ M!GetHit(k)
       \/ InCache /\ M!Probe(k)
       \/ InCache /\ M!Delete(k)
       \/ \E ttl \in M!Ttls :
            \/ InCache /\ M!IncrementNew(k, ttl)
            \/ \E value \in M!Values : InCache /\ M!SetIfAbsent(k, value, ttl)
            \/ \E keep \in BOOLEAN :
                 \/ InCache /\ M!IncrementInPlace(k, ttl, keep)
                 \/ \E value \in M!Values :
                      \/ InCache /\ M!Set(k, value, ttl, keep)
                      \/ \E expected \in M!Values \cup {NoValue} :
                           InCache /\ M!CompareAndSet(k, expected, value, ttl, keep)
  \/ \E doomed \in SUBSET Calls : InCache /\ M!Clear(doomed)
  \/ InCache /\ M!Tick

LimitsNext == BucketNext \/ LimiterNext \/ CacheNext

limitsVars == <<part, ofCalls, ofBucket, ofLimiter, ofCache>>
LimitsSpec == LimitsInit /\ [][LimitsNext]_limitsVars

(* Calls are alike. *)
LimitsSymmetry == Permutations(Calls)

-----------------------------------------------------------------------------
(* The properties of the parts *)

(* TokenBucket!ExactInOrder: the swaps keep the limit exact. *)
ExactInOrder == part = "bucket" => T!ExactInOrder

(* TokenBucket!EnforcementAsReported: enforcement tells what to expect. *)
EnforcementAsReported == part = "bucket" => T!EnforcementAsReported

(* RateLimiter!NoBoundaryBurst: the sliding window has no boundary burst. *)
NoBoundaryBurst == part = "limiter" => R!NoBoundaryBurst

(* RateLimiter!ViolationsDoNotPay: a violation does not let more through. *)
ViolationsDoNotPay == part = "limiter" => R!ViolationsDoNotPay

(* MemoryCache!RecentAreKept: the cache answers for the keys used last.    *)
RecentAreKept == part = "cache" => M!RecentAreKept
=============================================================================
