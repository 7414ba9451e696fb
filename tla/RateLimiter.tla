---------------------------- MODULE RateLimiter ----------------------------
(***************************************************************************)
(* RateLimiter (security/src/ratelimit.ts) with one sliding-window rule,   *)
(* adaptive or not, for one subject, over SlidingWindowCounter             *)
(* (cache/src/counters.ts).  A bucket is kept under the subject's name and *)
(* its number among the windows of its width; at clock values of this      *)
(* century buckets of different widths never meet in a name, so that a     *)
(* bucket is identified by width and number.  Each call is one request and *)
(* runs once.                                                              *)
(***************************************************************************)
EXTENDS Integers, FiniteSets, FiniteSetsExt

CONSTANTS
  Calls,
  Limit,     \* limit
  Window,    \* window
  Factor,    \* adaptiveFactor of the adaptive rule
  MaxTime    \* bound on the clock

VARIABLES
  adaptive,  \* whether the rule has an adaptiveFactor
  now,
  count,     \* the cache's counters, 0 when absent or expired
  expires,   \* when each one expires
  violations,
  pc, width, stamp, current, \* where each call is, and what it holds
  \* History, read by no guard of the code:
  before,    \* admitted requests of the bucket before, when a call was admitted
  late,      \* a hit took a step after the time of its bucket was over
  disturbed  \* counters were evicted or reset

counters == <<now, count, expires, violations>>
call == <<pc, width, stamp, current>>
history == <<before, late, disturbed>>
vars == <<adaptive, counters, call, history>>

MaxWiden == 4  \* violations that widen the window, and its bound 16
Power[v \in 0..MaxWiden] == IF v = 0 THEN 1 ELSE Factor * Power[v - 1]
Widths == {Window * Min({Power[v], 16}) : v \in 0..MaxWiden}
Index == -1..(MaxTime \div Window)
Buckets == Widths \X Index

TypeOK ==
  /\ adaptive \in BOOLEAN /\ now \in 0..MaxTime
  /\ count \in [Buckets -> Nat] /\ expires \in [Buckets -> Nat]
  /\ violations \in Nat
  /\ pc \in [Calls -> {"idle", "hit", "previous", "violation", "clear", "forgive",
                       "allowed", "denied", "degraded", "done"}]
  /\ width \in [Calls -> Widths] /\ stamp \in [Calls -> 0..MaxTime]
  /\ current \in [Calls -> Nat]
  /\ before \in [Calls -> Nat] /\ late \in BOOLEAN /\ disturbed \in BOOLEAN

Init ==
  /\ adaptive \in BOOLEAN /\ now = 0
  /\ count = [b \in Buckets |-> 0] /\ expires = [b \in Buckets |-> 0]
  /\ violations = 0
  /\ pc = [c \in Calls |-> "idle"]
  /\ width = [c \in Calls |-> Window] /\ stamp = [c \in Calls |-> 0]
  /\ current = [c \in Calls |-> 0]
  /\ before = [c \in Calls |-> 0] /\ late = FALSE /\ disturbed = FALSE

Step(c, from, to) == pc[c] = from /\ pc' = [pc EXCEPT ![c] = to]

Live(b) == IF now < expires[b] THEN count[b] ELSE 0

Number(c) == stamp[c] \div width[c]
Bucket(c) == <<width[c], Number(c)>>
Previous(c) == <<width[c], Number(c) - 1>>

NoteLate(c) == late' = (late \/ now \div width[c] # Number(c))

-----------------------------------------------------------------------------
(* check, of the one rule *)

(* #penaltyWindow, and the clock that hit looks at. *)
PenaltyWindow ==
  IF adaptive THEN Min({Window * Power[Min({violations, MaxWiden})], Window * 16}) ELSE Window

Begin(c) ==
  /\ Step(c, "idle", "hit")
  /\ width' = [width EXCEPT ![c] = PenaltyWindow]
  /\ stamp' = [stamp EXCEPT ![c] = now]
  /\ UNCHANGED <<adaptive, counters, current, history>>

(* Mutant of Lifetime: the counter lives for its own window only. *)
LifetimeShort(w) == w

(* How long a counter lives: the next bucket weighs it too. *)
Lifetime(w) == 2 * w

(* The increment of hit, which keeps the expiry of a counter it finds. *)
Increment(c) ==
  LET b == Bucket(c) IN
  /\ Step(c, "hit", "previous")
  /\ count' = [count EXCEPT ![b] = Live(b) + 1]
  /\ expires' = [expires EXCEPT ![b] = IF now < @ THEN @ ELSE now + Lifetime(width[c])]
  /\ current' = [current EXCEPT ![c] = Live(b) + 1]
  /\ NoteLate(c)
  /\ UNCHANGED <<adaptive, now, violations, width, stamp, before, disturbed>>

(* Mutant of Estimate: the previous bucket is forgotten at the boundary. *)
EstimateFixed(c) == current[c]

(* round(previous * weight + current), with the weight that is left of the *)
(* previous window when the call looked at the clock.                      *)
Estimate(c) ==
  LET left == width[c] - (stamp[c] % width[c])
  IN (2 * Live(Previous(c)) * left + 2 * current[c] * width[c] + width[c]) \div (2 * width[c])

Admitted(b) == {c \in Calls : pc[c] = "allowed" /\ Bucket(c) = b}

(* The read of hit, and the verdict. *)
ReadPrevious(c) ==
  /\ Step(c, "previous",
          IF Estimate(c) <= Limit THEN "allowed" ELSE IF adaptive THEN "violation" ELSE "denied")
  /\ before' = [before EXCEPT ![c] = Cardinality(Admitted(Previous(c)))]
  /\ NoteLate(c)
  /\ UNCHANGED <<adaptive, counters, width, stamp, current, disturbed>>

(* #recordViolation.  It expires after 16 windows, which no instance is    *)
(* long enough for.                                                        *)
RecordViolation(c) ==
  /\ Step(c, "violation", "denied")
  /\ violations' = violations + 1
  /\ UNCHANGED <<adaptive, now, count, expires, width, stamp, current, history>>

(* The cache fails: the request is let through. *)
Degrade(c) ==
  /\ pc[c] \in {"hit", "previous", "violation"}
  /\ pc' = [pc EXCEPT ![c] = "degraded"]
  /\ UNCHANGED <<adaptive, counters, width, stamp, current, history>>

-----------------------------------------------------------------------------
(* reset: the two buckets of the rule's own window, then the violations.   *)

ResetBucket(c) ==
  LET b == IF pc[c] = "idle" THEN <<Window, now \div Window>>
           ELSE <<Window, (stamp[c] \div Window) - 1>> IN
  /\ Step(c, "idle", "clear") \/ Step(c, "clear", "forgive")
  /\ stamp' = IF pc[c] = "idle" THEN [stamp EXCEPT ![c] = now] ELSE stamp
  /\ count' = [count EXCEPT ![b] = 0] /\ expires' = [expires EXCEPT ![b] = 0]
  /\ disturbed' = TRUE
  /\ UNCHANGED <<adaptive, now, violations, width, current, before, late>>

Forgive(c) ==
  /\ Step(c, "forgive", "done")
  /\ violations' = 0
  /\ UNCHANGED <<adaptive, now, count, expires, width, stamp, current, history>>

-----------------------------------------------------------------------------

Evict(b) ==
  /\ Live(b) > 0
  /\ count' = [count EXCEPT ![b] = 0] /\ expires' = [expires EXCEPT ![b] = 0]
  /\ disturbed' = TRUE
  /\ UNCHANGED <<adaptive, now, violations, call, before, late>>

Tick ==
  /\ now < MaxTime
  /\ now' = now + 1
  /\ UNCHANGED <<adaptive, count, expires, violations, call, history>>

Request(c) ==
  \/ Begin(c) \/ Increment(c) \/ ReadPrevious(c) \/ RecordViolation(c) \/ Degrade(c)
  \/ ResetBucket(c) \/ Forgive(c)

Next == (\E c \in Calls : Request(c)) \/ (\E b \in Buckets : Evict(b)) \/ Tick

Spec == Init /\ [][Next]_vars

-----------------------------------------------------------------------------
(* Properties *)

(* No boundary burst: what is admitted in a bucket and the one before it,  *)
(* up to a time that lies `elapsed` into the bucket, exceeds the limit by  *)
(* no more than the share of it that has elapsed, rounded.  It takes a     *)
(* cache that keeps its counters, and hits that end within the bucket they *)
(* began in: a slower one may find the counter before it expired.          *)
NoBoundaryBurst ==
  \A c \in Calls :
    pc[c] = "allowed" /\ ~late /\ ~disturbed =>
      2 * width[c] * (before[c] + Cardinality({d \in Admitted(Bucket(c)) : current[d] <= current[c]}))
        <= 2 * Limit * width[c] + 2 * Limit * (stamp[c] % width[c]) + width[c]

(* A claim of the repository that the code does not keep, security/src/    *)
(* ratelimit.ts:26: "Repeated violations widen the penalty window, so a    *)
(* determined attacker gets progressively less throughput".  A wider       *)
(* window counts in a bucket of its own, which starts empty.               *)
ViolationsDoNotPay ==
  disturbed \/ late \/
    \A i \in Index : Cardinality({c \in Calls : pc[c] = "allowed" /\ stamp[c] \div Window = i}) <= Limit
=============================================================================
