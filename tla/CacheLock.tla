----------------------------- MODULE CacheLock -----------------------------
(***************************************************************************)
(* The leased lock of cache/src/locks.ts: CacheLock over the CachePort all *)
(* replicas share, as MemoryCache (cache/src/memory.ts) implements it, and *)
(* withLock, which releases whatever its work did.                         *)
(*                                                                         *)
(* One key.  A caller is one acquisition: it acquires once, and the random *)
(* token of its attempts is the caller itself.  Time is kept as countdowns *)
(* that Tick lowers together, so that the clock needs no bound: a deadline *)
(* has passed when its countdown is 0.  Every cache operation is an action *)
(* and the clock may tick between any two of them.                         *)
(***************************************************************************)
EXTENDS Naturals

CONSTANTS
  Callers,  \* the acquisitions, on any replica
  NoOne,    \* the token of a key that is not set
  Lease,    \* the lease every caller asks for
  WaitFor,  \* options.waitFor of a caller that waits
  Retry     \* options.retryInterval

ASSUME LockAssumption ==
  /\ NoOne \notin Callers
  /\ Lease \in Nat \ {0} /\ WaitFor \in Nat /\ Retry \in Nat \ {0}

VARIABLES
  key,      \* the token stored under the key, and its time to live
  pc,       \* where each caller is
  patience, \* time left to each caller's deadline in acquire
  sleep,    \* time left of a retry's sleep
  term,     \* time left of the lease each caller was last granted
  \* History, read by no guard:
  torn      \* a lease was cut short: see Cut and Evict

vars == <<key, pc, patience, sleep, term, torn>>

Stages == {"idle", "try", "sleeping", "holding", "lost", "deleting", "extending",
           "refused", "done", "crashed"}
Finished == {"refused", "done", "crashed"}
Entry == [token: Callers \cup {NoOne}, ttl: 0..Lease]
Unset == [token |-> NoOne, ttl |-> 0]

TypeOK ==
  /\ key \in Entry
  /\ pc \in [Callers -> Stages]
  /\ patience \in [Callers -> 0..WaitFor]
  /\ sleep \in [Callers -> 0..Retry]
  /\ term \in [Callers -> 0..Lease]
  /\ torn \in BOOLEAN

Init ==
  /\ key = Unset
  /\ pc = [c \in Callers |-> "idle"]
  /\ patience = [c \in Callers |-> 0]
  /\ sleep = [c \in Callers |-> 0]
  /\ term = [c \in Callers |-> 0]
  /\ torn = FALSE

-----------------------------------------------------------------------------
(* The cache *)

Live == key.ttl > 0
Mine(c) == Live /\ key.token = c       \* get returned the caller's token

Grant(c) ==
  /\ key' = [token |-> c, ttl |-> Lease]
  /\ term' = [term EXCEPT ![c] = Lease]

(* The callers whose lease has not run out and who did not give it up. *)
InLease(c) == pc[c] \in {"holding", "lost", "deleting", "extending"} /\ term[c] > 0
Cut(c) == torn' = (torn \/ \E d \in Callers \ {c} : InLease(d))

-----------------------------------------------------------------------------
(* acquire *)

Step(c, from, to) == pc[c] = from /\ pc' = [pc EXCEPT ![c] = to]

(* The caller is done with the lock: its countdowns mean nothing any more. *)
Leave(c, to) ==
  /\ pc' = [pc EXCEPT ![c] = to]
  /\ patience' = [patience EXCEPT ![c] = 0]
  /\ sleep' = [sleep EXCEPT ![c] = 0]
  /\ term' = [term EXCEPT ![c] = 0]

Begin(c, wait) ==
  /\ Step(c, "idle", "try")
  /\ patience' = [patience EXCEPT ![c] = wait]
  /\ UNCHANGED <<key, sleep, term, torn>>

(* Mutant of Acquire: takes the key with a plain set. *)
AcquireBySet(c) ==
  /\ Step(c, "try", "holding")
  /\ Grant(c)
  /\ patience' = [patience EXCEPT ![c] = 0]
  /\ UNCHANGED <<sleep, torn>>

(* setIfAbsent answered true. *)
Acquire(c) ==
  /\ Step(c, "try", "holding")
  /\ ~Live
  /\ Grant(c)
  /\ patience' = [patience EXCEPT ![c] = 0]
  /\ UNCHANGED <<sleep, torn>>

(* setIfAbsent answered false, and the deadline is nearer than a retry, *)
GiveUp(c) ==
  /\ Step(c, "try", "refused")
  /\ Live
  /\ Retry > patience[c]
  /\ patience' = [patience EXCEPT ![c] = 0]
  /\ UNCHANGED <<key, sleep, term, torn>>

(* or is not. *)
Sleep(c) ==
  /\ Step(c, "try", "sleeping")
  /\ Live
  /\ Retry <= patience[c]
  /\ sleep' = [sleep EXCEPT ![c] = Retry]
  /\ UNCHANGED <<key, patience, term, torn>>

(* Mutant of Wake: the deadline starts anew with every retry. *)
WakePatient(c) ==
  /\ Step(c, "sleeping", "try")
  /\ sleep[c] = 0
  /\ patience' = [patience EXCEPT ![c] = WaitFor]
  /\ UNCHANGED <<key, sleep, term, torn>>

(* The timer fires at its time or later. *)
Wake(c) ==
  /\ Step(c, "sleeping", "try")
  /\ sleep[c] = 0
  /\ UNCHANGED <<key, patience, sleep, term, torn>>

-----------------------------------------------------------------------------
(* release and extend: a get, and a write if it returned the own token *)

CheckRelease(c) ==
  /\ pc[c] \in {"holding", "lost"}
  /\ IF Mine(c)
     THEN /\ pc' = [pc EXCEPT ![c] = "deleting"]
          /\ UNCHANGED <<key, patience, sleep, term, torn>>
     ELSE /\ Leave(c, "done")
          /\ UNCHANGED <<key, torn>>

(* delete: whatever the key holds by now. *)
Delete(c) ==
  /\ pc[c] = "deleting"
  /\ Leave(c, "done")
  /\ key' = Unset
  /\ Cut(c)

(* A caller that was told FALSE knows it has lost the lock; withLock still *)
(* releases.                                                               *)
CheckExtend(c) ==
  /\ pc[c] = "holding"
  /\ pc' = [pc EXCEPT ![c] = IF Mine(c) THEN "extending" ELSE "lost"]
  /\ UNCHANGED <<key, patience, sleep, term, torn>>

(* Mutant of Extend: leaves the key's time to live as it is. *)
ExtendHandleOnly(c) ==
  /\ Step(c, "extending", "holding")
  /\ term' = [term EXCEPT ![c] = Lease]
  /\ Cut(c)
  /\ UNCHANGED <<key, patience, sleep>>

(* set: whatever the key holds by now. *)
Extend(c) ==
  /\ Step(c, "extending", "holding")
  /\ Grant(c)
  /\ Cut(c)
  /\ UNCHANGED <<patience, sleep>>

-----------------------------------------------------------------------------
(* The environment *)

(* The replica dies, or an answer of the cache never arrives. *)
Crash(c) ==
  /\ pc[c] \notin Finished \cup {"idle"}
  /\ Leave(c, "crashed")
  /\ UNCHANGED <<key, torn>>

(* The memory cache is full and the lock is its least recently used key. *)
Evict ==
  /\ Live
  /\ key' = Unset
  /\ torn' = (torn \/ \E d \in Callers : InLease(d))
  /\ UNCHANGED <<pc, patience, sleep, term>>

(* Mutant of Lower: counts past the deadline. *)
LowerOn(n) == n - 1

Lower(n) == IF n = 0 THEN 0 ELSE n - 1

(* Mutant of Tick: the key was set without a time to live. *)
TickKeepsKey ==
  /\ patience' = [c \in Callers |-> Lower(patience[c])]
  /\ sleep' = [c \in Callers |-> Lower(sleep[c])]
  /\ term' = [c \in Callers |-> Lower(term[c])]
  /\ UNCHANGED <<key, pc, torn>>

Tick ==
  /\ key' = [key EXCEPT !.ttl = Lower(@)]
  /\ patience' = [c \in Callers |-> Lower(patience[c])]
  /\ sleep' = [c \in Callers |-> Lower(sleep[c])]
  /\ term' = [c \in Callers |-> Lower(term[c])]
  /\ UNCHANGED <<pc, torn>>

-----------------------------------------------------------------------------

Advance(c) == Acquire(c) \/ GiveUp(c) \/ Sleep(c) \/ Wake(c)

Next ==
  \/ \E c \in Callers :
       \/ \E wait \in {0, WaitFor} : Begin(c, wait)
       \/ Advance(c)
       \/ CheckRelease(c)
       \/ Delete(c)
       \/ CheckExtend(c)
       \/ Extend(c)
       \/ Crash(c)
  \/ Evict
  \/ Tick

(* The clock runs, and a replica that does not crash runs acquire's loop. *)
(* Nothing is assumed of the work a holder does or of its release.         *)
Fairness == WF_vars(Tick) /\ \A c \in Callers : WF_vars(Advance(c))

Spec == Init /\ [][Next]_vars /\ Fairness

-----------------------------------------------------------------------------
(* Properties *)

(* Two callers never hold the lock within their leases, however late a     *)
(* holder wakes up, unless a write of release or extend landed on a lease  *)
(* that started after its get, or the cache evicted the key.               *)
Exclusion ==
  ~torn => \A c, d \in Callers : InLease(c) /\ InLease(d) => c = d

(* Within its lease a holder finds its token under the key, so that its    *)
(* extend and its release succeed; and the key never outlives the lease.   *)
HolderHasKey ==
  ~torn => \A c \in Callers : InLease(c) => key.token = c /\ key.ttl = term[c]

(* acquire returns: its retries end whoever holds the lock, for however    *)
(* long, and whether or not the holder is alive.                           *)
AcquireReturns ==
  \A c \in Callers : pc[c] = "try" ~> pc[c] \in {"holding", "refused", "crashed"}

(* Whoever holds the lock loses it, crashed, stalled or working, unless it  *)
(* extends its lease again and again.                                      *)
LeaseEnds ==
  \A c \in Callers : ([]<><<Extend(c)>>_vars) \/ ([]<>~Mine(c))

-----------------------------------------------------------------------------
(* A claim of the repository that the code does not keep *)

(* cache/src/locks.ts:12-13: a holder that stalls past its lease and wakes  *)
(* up later cannot release the lock a second holder now owns.              *)
NoDoubleUnlock ==
  [][\A c, d \in Callers :
       pc[c] = "deleting" /\ pc'[c] = "done" /\ c # d => ~(Mine(d) /\ InLease(d))]_vars
=============================================================================
