---------------------------- MODULE CachesProofs ----------------------------
(***************************************************************************)
(* Proofs about the parts of MCCaches: CacheLock, for every number of      *)
(* callers, every lease and every retry schedule; and PermissionCache, for *)
(* every number of requests and replicas, every time to live of the two    *)
(* tiers and every number of edits.  And about the parts of MCLimits:      *)
(* TokenBucket, for every capacity, rate and cost; RateLimiter, for every  *)
(* limit, window and factor; and MemoryCache, for every size and sample.   *)
(***************************************************************************)
EXTENDS MCCaches, MCLimits, Sequences, FiniteSetTheorems, TLAPS

-----------------------------------------------------------------------------
(* CacheLock *)

(* Every step keeps the countdowns within their ranges. *)
LEMMA LockTypeStep == ASSUME L!TypeOK, [L!Next]_(L!vars) PROVE L!TypeOK'
<1> USE CachesAssumption DEF L!TypeOK, L!Stages, L!Entry, L!Unset
<1>1. ASSUME NEW c \in Callers, NEW wait \in {0, WaitFor}, L!Begin(c, wait)
      PROVE  L!TypeOK'
  BY <1>1 DEF L!Begin, L!Step
<1>2. ASSUME NEW c \in Callers, L!Advance(c) PROVE L!TypeOK'
  BY <1>2 DEF L!Advance, L!Acquire, L!GiveUp, L!Sleep, L!Wake, L!Grant, L!Step
<1>3. ASSUME NEW c \in Callers, L!CheckRelease(c) \/ L!CheckExtend(c) PROVE L!TypeOK'
  BY <1>3 DEF L!CheckRelease, L!CheckExtend, L!Leave
<1>4. ASSUME NEW c \in Callers, L!Delete(c) PROVE L!TypeOK'
  BY <1>4 DEF L!Delete, L!Leave, L!Cut
<1>5. ASSUME NEW c \in Callers, L!Extend(c) PROVE L!TypeOK'
  BY <1>5 DEF L!Extend, L!Grant, L!Step, L!Cut
<1>6. ASSUME NEW c \in Callers, L!Crash(c) PROVE L!TypeOK'
  BY <1>6 DEF L!Crash, L!Leave
<1>7. CASE L!Evict
  BY <1>7 DEF L!Evict
<1>8. CASE L!Tick
  <2>1. \A n \in Nat : \A m \in 0..n : L!Lower(m) \in 0..n
    BY DEF L!Lower
  <2>2. key' \in L!Entry
    <3>1. key.ttl \in 0..Lease /\ L!Lower(key.ttl) \in 0..Lease
      BY <2>1
    <3>2. QED
      BY <1>8, <3>1 DEF L!Tick
  <2>3. QED
    BY <1>8, <2>1, <2>2 DEF L!Tick
<1>9. CASE UNCHANGED L!vars
  BY <1>9 DEF L!vars
<1>10. QED
  BY <1>1, <1>2, <1>3, <1>4, <1>5, <1>6, <1>7, <1>8, <1>9 DEF L!Next

(* A free key means that nobody is in a lease, so that a grant hurts nobody; *)
(* a write of release or extend either keeps the key's owner or tears a     *)
(* lease; and the clock lowers the key's time to live and the owner's term  *)
(* together.                                                                *)
LEMMA HolderHasKeyStep ==
  ASSUME L!TypeOK, L!HolderHasKey, [L!Next]_(L!vars)
  PROVE  L!HolderHasKey'
<1> USE CachesAssumption DEF L!TypeOK, L!HolderHasKey, L!InLease, L!Entry
<1>1. ASSUME NEW c \in Callers, NEW wait \in {0, WaitFor}, L!Begin(c, wait)
      PROVE  L!HolderHasKey'
  BY <1>1 DEF L!Begin, L!Step
<1>2. ASSUME NEW c \in Callers, L!Acquire(c) PROVE L!HolderHasKey'
  <2>1. torn \/ \A d \in Callers : ~L!InLease(d)
    BY <1>2 DEF L!Acquire, L!Live
  <2>2. QED
    BY <1>2, <2>1 DEF L!Acquire, L!Grant, L!Step
<1>3. ASSUME NEW c \in Callers, L!GiveUp(c) \/ L!Sleep(c) \/ L!Wake(c)
      PROVE  L!HolderHasKey'
  BY <1>3 DEF L!GiveUp, L!Sleep, L!Wake, L!Step
<1>4. ASSUME NEW c \in Callers, L!CheckRelease(c) \/ L!CheckExtend(c)
      PROVE  L!HolderHasKey'
  BY <1>4 DEF L!CheckRelease, L!CheckExtend, L!Leave
<1>5. ASSUME NEW c \in Callers, L!Delete(c) PROVE L!HolderHasKey'
  BY <1>5 DEF L!Delete, L!Leave, L!Cut
<1>6. ASSUME NEW c \in Callers, L!Extend(c) PROVE L!HolderHasKey'
  <2>1. torn' \/ \A d \in Callers \ {c} : ~L!InLease(d)
    BY <1>6 DEF L!Extend, L!Cut
  <2>2. /\ key' = [token |-> c, ttl |-> Lease] /\ term'[c] = Lease
        /\ \A d \in Callers \ {c} : term'[d] = term[d] /\ pc'[d] = pc[d]
    BY <1>6 DEF L!Extend, L!Grant, L!Step
  <2>3. QED
    BY <2>1, <2>2
<1>7. ASSUME NEW c \in Callers, L!Crash(c) PROVE L!HolderHasKey'
  <2>1. /\ pc'[c] = "crashed" /\ UNCHANGED <<key, torn>>
        /\ \A d \in Callers \ {c} : term'[d] = term[d] /\ pc'[d] = pc[d]
    BY <1>7 DEF L!Crash, L!Leave
  <2>2. QED
    BY <2>1
<1>8. CASE L!Evict
  BY <1>8 DEF L!Evict
<1>9. CASE L!Tick
  <2>1. /\ key'.token = key.token /\ key'.ttl = L!Lower(key.ttl)
        /\ \A c \in Callers : term'[c] = L!Lower(term[c])
        /\ UNCHANGED <<pc, torn>>
    BY <1>9 DEF L!Tick
  <2>2. \A c \in Callers : term'[c] > 0 => term[c] > 0
    BY <2>1 DEF L!Lower
  <2>3. QED
    BY <2>1, <2>2
<1>10. CASE UNCHANGED L!vars
  BY <1>10 DEF L!vars
<1>11. QED
  BY <1>1, <1>2, <1>3, <1>4, <1>5, <1>6, <1>7, <1>8, <1>9, <1>10 DEF L!Next, L!Advance

(* A caller that begins has no lease. *)
LEMMA LockStart == L!Init => L!TypeOK /\ L!HolderHasKey
<1> SUFFICES ASSUME L!Init PROVE L!TypeOK /\ L!HolderHasKey
  OBVIOUS
<1>1. 0 \in 0..Lease /\ 0 \in 0..WaitFor /\ 0 \in 0..Retry
  BY CachesAssumption
<1>2. key \in L!Entry
  BY <1>1 DEF L!Init, L!Entry, L!Unset
<1>3. pc \in [Callers -> L!Stages]
  BY DEF L!Init, L!Stages
<1>4. /\ patience \in [Callers -> 0..WaitFor]
      /\ sleep \in [Callers -> 0..Retry]
      /\ term \in [Callers -> 0..Lease]
  BY <1>1 DEF L!Init
<1>5. torn \in BOOLEAN
  BY Zenon DEF L!Init
<1>6. L!HolderHasKey
  BY DEF L!Init, L!HolderHasKey, L!InLease
<1>7. QED
  BY <1>2, <1>3, <1>4, <1>5, <1>6, Zenon DEF L!TypeOK

(* The steps of MCCaches that are steps of CacheLock. *)
LEMMA LockMoves == LockNext => part' = part /\ part = "lock" /\ L!Next
BY DEF LockNext, InLock, L!Next, L!Advance

-----------------------------------------------------------------------------
(* PermissionCache *)

(* The history of time is reset by every write of an old answer. *)
QuietOK ==
  /\ P!OldResolved => quiet.far = 0
  /\ P!OldAbout => quiet.near = 0

(* Nothing is newer than the store, and nothing that a tier may still be   *)
(* given is older than an edit that was invalidated without a race.        *)
CleanOK ==
  /\ far.assigned <= assigned
  /\ \A c \in Requests : value[c].assigned <= assigned
  /\ \A r \in Replicas :
       /\ clean[r] <= assigned
       /\ \A c \in Requests : pc[c] \in {"fill", "set", "store"} => value[c].assigned >= clean[r]

(* A call is on a replica exactly when it is in progress. *)
Placed == \A c \in Requests : pc[c] # "idle" => at[c] \in Replicas

-----------------------------------------------------------------------------

(* The disjuncts of Next, for the proofs that take them one by one. *)
LEMMA PermissionsCases ==
  ASSUME [P!Next]_(P!vars)
  PROVE  \/ \E c \in Requests, r \in Replicas :
              P!MissNear(c, r) \/ P!EditAssignments(c, r) \/ P!EditRoles(c, r)
         \/ \E c \in Requests : P!Resolve(c) \/ P!Invalidate(c) \/ P!Fail(c)
         \/ \E r \in Replicas : P!EvictNear(r) \/ P!Restart(r)
         \/ P!EvictFar
         \/ P!Tick
         \/ UNCHANGED P!vars
BY DEF P!Next

(* An entry that ages stays one, and lives no longer. *)
LEMMA LowerType ==
  ASSUME NEW e \in P!Entry
  PROVE  /\ P!Lower(e) \in P!Entry
         /\ P!Lower(e).ttl <= e.ttl /\ P!Lower(e).assigned <= e.assigned
         /\ P!Live(P!Lower(e)) => /\ P!Live(e) /\ P!Lower(e).ttl = e.ttl - 1
                              /\ P!Lower(e).assigned = e.assigned
BY CachesAssumption DEF P!Lower, P!Entry, P!Unset, P!Live, P!Versions

(* An entry that is not set is dead. *)
LEMMA UnsetType == P!Unset \in P!Entry /\ ~P!Live(P!Unset) /\ P!Unset.ttl = 0 /\ P!Nothing \in P!Value
BY CachesAssumption DEF P!Entry, P!Unset, P!Live, P!Versions, P!Nothing, P!Value

(* A write stores what it was given. *)
LEMMA HoldingType ==
  ASSUME NEW v \in P!Value, NEW ttl \in 0..(NearTtl + FarTtl)
  PROVE  /\ P!Holding(v, ttl) \in P!Entry /\ P!Holding(v, ttl).ttl = ttl
         /\ P!Holding(v, ttl).assigned = v.assigned
BY DEF P!Holding, P!Entry, P!Value

-----------------------------------------------------------------------------

(* Every step keeps every variable in its range. *)
LEMMA PermissionsTypeStep ==
  ASSUME P!TypeOK, Placed, [P!Next]_(P!vars)
  PROVE  P!TypeOK' /\ Placed'
<1> USE CachesAssumption DEF P!TypeOK, Placed
<1>1. ASSUME NEW c \in Requests, NEW r \in Replicas,
             P!MissNear(c, r) \/ P!EditRoles(c, r)
      PROVE  P!TypeOK' /\ Placed'
  BY <1>1 DEF P!MissNear, P!EditRoles, P!Arrive, P!Step, P!stores, P!tiers, P!Stages, P!Versions
<1>2. ASSUME NEW c \in Requests, NEW r \in Replicas, P!EditAssignments(c, r)
      PROVE  P!TypeOK' /\ Placed'
  BY <1>2 DEF P!EditAssignments, P!Arrive, P!Step, P!tiers, P!Stages, P!Versions, P!Value
<1>3. ASSUME NEW c \in Requests, P!HitFar(c) \/ P!MissFar(c) \/ P!UseGraph(c) \/ P!LoadGraph(c)
                                \/ P!ListAssignments(c)
      PROVE  P!TypeOK' /\ Placed'
  <2>1. value' \in [Requests -> P!Value]
    <3>1. P!ValueOf(far) \in P!Value
      BY DEF P!ValueOf, P!Entry, P!Value
    <3>2. pc[c] = "graph" => graphs[at[c]] \in P!Versions \cup {NoGraph}
      OBVIOUS
    <3>3. \A v \in P!Value : \A n \in P!Versions :
            [v EXCEPT !.roles = n] \in P!Value /\ [v EXCEPT !.assigned = n] \in P!Value
      BY DEF P!Value
    <3>4. ASSUME NEW n \in P!Versions
          PROVE  /\ [value EXCEPT ![c].roles = n] \in [Requests -> P!Value]
                 /\ [value EXCEPT ![c].assigned = n] \in [Requests -> P!Value]
      BY <3>3
    <3>5. CASE P!HitFar(c) \/ P!MissFar(c)
      BY <3>1, <3>5 DEF P!HitFar, P!MissFar
    <3>6. CASE P!UseGraph(c)
      BY <3>2, <3>4, <3>6 DEF P!UseGraph, P!Step
    <3>7. CASE P!LoadGraph(c) \/ P!ListAssignments(c)
      BY <3>4, <3>7 DEF P!LoadGraph, P!ListAssignments
    <3>8. QED
      BY <1>3, <3>5, <3>6, <3>7
  <2>2. QED
    BY <1>3, <2>1 DEF P!HitFar, P!MissFar, P!UseGraph, P!LoadGraph, P!ListAssignments,
         P!Step, P!stores, P!tiers, P!Stages
<1>4. ASSUME NEW c \in Requests, P!InstallGraph(c) PROVE P!TypeOK' /\ Placed'
  BY <1>4 DEF P!InstallGraph, P!Step, P!stores, P!tiers, P!Stages, P!Value
<1>5. ASSUME NEW c \in Requests, P!SetFar(c) PROVE P!TypeOK' /\ Placed'
  BY <1>5, HoldingType DEF P!SetFar, P!Step, P!stores, P!Stages
<1>6. ASSUME NEW c \in Requests, NEW from, P!Return(c, from), UNCHANGED <<P!stores, graphs, quiet>>,
             near' \in [Replicas -> {e \in P!Entry : e.ttl <= NearTtl}],
             far' \in {e \in P!Entry : e.ttl <= FarTtl},
             clean' \in [Replicas -> P!Versions]
      PROVE  P!TypeOK' /\ Placed'
  BY <1>6, UnsetType DEF P!Return, P!Step, P!stores, P!Stages
<1>7. ASSUME NEW c \in Requests, P!StoreNear(c) PROVE P!TypeOK' /\ Placed'
  BY <1>6, <1>7, HoldingType DEF P!StoreNear
<1>8. ASSUME NEW c \in Requests, P!DropFar(c) PROVE P!TypeOK' /\ Placed'
  <2>1. value[c].assigned \in P!Versions
    BY DEF P!Value
  <2>2. clean' \in [Replicas -> P!Versions]
    BY <1>8, <2>1 DEF P!DropFar
  <2>3. QED
    BY <1>6, <1>8, <2>2, UnsetType DEF P!DropFar
<1>9. ASSUME NEW c \in Requests, P!ClearFar(c) \/ P!Fail(c) PROVE P!TypeOK' /\ Placed'
  BY <1>6, <1>9, UnsetType DEF P!ClearFar, P!Fail, P!tiers
<1>10. ASSUME NEW c \in Requests, P!DropNear(c) \/ P!DropGraph(c) PROVE P!TypeOK' /\ Placed'
  BY <1>10, UnsetType DEF P!DropNear, P!DropGraph, P!Step, P!stores, P!Stages
<1>11. ASSUME NEW r \in Replicas, P!EvictNear(r) PROVE P!TypeOK' /\ Placed'
  BY <1>11, UnsetType DEF P!EvictNear, P!stores, P!call
<1>12. CASE P!EvictFar
  BY <1>12, UnsetType DEF P!EvictFar, P!stores, P!call
<1>13. ASSUME NEW r \in Replicas, P!Restart(r) PROVE P!TypeOK' /\ Placed'
  BY <1>13, UnsetType DEF P!Restart, P!stores, P!Stages
<1>14. CASE P!Tick
  <2>1. near' \in [Replicas -> {e \in P!Entry : e.ttl <= NearTtl}]
    BY <1>14, LowerType DEF P!Tick, P!Entry
  <2>2. far' \in {e \in P!Entry : e.ttl <= FarTtl}
    BY <1>14, LowerType DEF P!Tick, P!Entry
  <2>3. quiet' \in [near: 0..NearTtl, far: 0..FarTtl]
    BY <1>14 DEF P!Tick, P!Longer
  <2>4. QED
    BY <1>14, <2>1, <2>2, <2>3 DEF P!Tick, P!stores, P!call
<1>15. CASE UNCHANGED P!vars
  BY <1>15 DEF P!vars, P!stores, P!tiers, P!call
<1>16. QED
  BY <1>1, <1>2, <1>3, <1>4, <1>5, <1>7, <1>8, <1>9, <1>10, <1>11, <1>12, <1>13, <1>14, <1>15,
     PermissionsCases DEF P!Resolve, P!Invalidate

-----------------------------------------------------------------------------

(* An answer becomes old only through an edit, which resets the history,   *)
(* and passes from the calls to the far tier and from there to calls.      *)
LEMMA QuietStep ==
  ASSUME P!TypeOK, P!TypeOK', Placed, QuietOK, [P!Next]_(P!vars)
  PROVE  QuietOK'
<1> USE CachesAssumption DEF P!TypeOK, QuietOK, P!OldResolved, P!OldAbout, P!Old
<1>1. ASSUME NEW c \in Requests, NEW r \in Replicas,
             P!MissNear(c, r) \/ P!EditRoles(c, r)
      PROVE  QuietOK'
  BY <1>1 DEF P!MissNear, P!EditRoles, P!Arrive, P!Step, P!stores, P!tiers
<1>2. ASSUME NEW c \in Requests, NEW r \in Replicas, P!EditAssignments(c, r)
      PROVE  QuietOK'
  BY <1>2 DEF P!EditAssignments
<1>3. ASSUME NEW c \in Requests, P!HitFar(c) PROVE QuietOK'
  BY <1>3 DEF P!HitFar, P!Step, P!stores, P!tiers, P!ValueOf
<1>4. ASSUME NEW c \in Requests, P!MissFar(c) \/ P!UseGraph(c) \/ P!LoadGraph(c) \/ P!InstallGraph(c)
      PROVE  QuietOK'
  BY <1>4 DEF P!MissFar, P!UseGraph, P!LoadGraph, P!InstallGraph, P!Step, P!stores, P!tiers, P!Value
<1>5. ASSUME NEW c \in Requests, P!ListAssignments(c) PROVE QuietOK'
  <2>1. value'[c].assigned = assigned /\ ~(assigned < assigned)
    BY <1>5 DEF P!ListAssignments, P!Value, P!Versions
  <2>2. QED
    BY <1>5, <2>1 DEF P!ListAssignments, P!Step, P!stores, P!tiers
<1>6. ASSUME NEW c \in Requests, P!SetFar(c) PROVE QuietOK'
  <2>1. P!Live(far') /\ P!Old(far)' => P!OldResolved
    BY <1>6 DEF P!SetFar, P!Step, P!Holding, P!stores
  <2>2. QED
    BY <1>6, <2>1 DEF P!SetFar, P!Step, P!stores
<1>7. ASSUME NEW c \in Requests, NEW from, P!Return(c, from), UNCHANGED <<P!stores, quiet>>,
             far' \in {far, P!Unset}
      PROVE  QuietOK'
  BY <1>7, UnsetType DEF P!Return, P!Step, P!stores
<1>8. ASSUME NEW c \in Requests, P!StoreNear(c) \/ P!DropFar(c) \/ P!ClearFar(c) \/ P!Fail(c)
      PROVE  QuietOK'
  BY <1>7, <1>8 DEF P!StoreNear, P!DropFar, P!ClearFar, P!Fail, P!tiers, P!stores
<1>9. ASSUME NEW c \in Requests, P!DropNear(c) \/ P!DropGraph(c) PROVE QuietOK'
  BY <1>9 DEF P!DropNear, P!DropGraph, P!Step, P!stores
<1>10. ASSUME NEW r \in Replicas, P!EvictNear(r) PROVE QuietOK'
  BY <1>10 DEF P!EvictNear, P!stores, P!call
<1>11. CASE P!EvictFar
  BY <1>11, UnsetType DEF P!EvictFar, P!stores, P!call
<1>12. ASSUME NEW r \in Replicas, P!Restart(r) PROVE QuietOK'
  <2>1. \A c \in Requests : pc'[c] # "idle" => pc'[c] = pc[c] /\ value'[c] = value[c]
    BY <1>12 DEF P!Restart
  <2>2. QED
    BY <1>12, <2>1 DEF P!Restart, P!stores
<1>13. CASE P!Tick
  <2>1. P!Live(far)' => P!Live(far) /\ far'.assigned = far.assigned
    BY <1>13, LowerType DEF P!Tick, P!Live
  <2>2. (P!OldResolved' => P!OldResolved) /\ (P!OldAbout' => P!OldAbout)
    BY <1>13, <2>1 DEF P!Tick, P!stores, P!call
  <2>3. QED
    BY <1>13, <2>2 DEF P!Tick
<1>14. CASE UNCHANGED P!vars
  BY <1>14 DEF P!vars, P!stores, P!tiers, P!call
<1>15. QED
  BY <1>1, <1>2, <1>3, <1>4, <1>5, <1>6, <1>8, <1>9, <1>10, <1>11, <1>12, <1>13, <1>14,
     PermissionsCases DEF P!Resolve, P!Invalidate

(* An old answer is written only while the history stands at zero, and      *)
(* every tick that lets an entry live moves both by one.                    *)
LEMMA WindowsStep ==
  ASSUME P!TypeOK, P!TypeOK', Placed, QuietOK, P!WindowsClose, [P!Next]_(P!vars)
  PROVE  P!WindowsClose'
<1> USE CachesAssumption DEF P!TypeOK, P!WindowsClose, P!Old
<1>1. CASE UNCHANGED <<P!tiers, quiet, P!stores>>
  BY <1>1 DEF P!tiers, P!stores, P!Live
<1>2. ASSUME NEW c \in Requests, NEW r \in Replicas, P!EditAssignments(c, r)
      PROVE  P!WindowsClose'
  BY <1>2 DEF P!EditAssignments, P!tiers, P!Entry
<1>3. ASSUME NEW c \in Requests, NEW r \in Replicas, P!EditRoles(c, r)
      PROVE  P!WindowsClose'
  BY <1>3 DEF P!EditRoles, P!tiers, P!Live
<1>4. ASSUME NEW c \in Requests, P!SetFar(c) PROVE P!WindowsClose'
  <2>1. P!Live(far') /\ P!Old(far)' => P!OldResolved
    BY <1>4 DEF P!SetFar, P!Step, P!Holding, P!stores, P!OldResolved
  <2>2. far'.ttl = FarTtl
    BY <1>4 DEF P!SetFar, P!Holding
  <2>3. QED
    BY <1>4, <2>1, <2>2 DEF P!SetFar, P!stores, QuietOK, P!Live
<1>5. ASSUME NEW c \in Requests, P!StoreNear(c) PROVE P!WindowsClose'
  <2>1. PICK r \in Replicas : r = at[c]
    BY <1>5 DEF P!StoreNear, Placed
  <2>2. /\ near'[r].assigned = value[c].assigned /\ near'[r].ttl = NearTtl
        /\ \A q \in Replicas \ {r} : near'[q] = near[q]
        /\ UNCHANGED <<assigned, far, quiet>>
    BY <1>5, <2>1 DEF P!StoreNear, P!Holding, P!stores
  <2>3. P!Old(near[r])' => quiet.near = 0
    BY <1>5, <2>2 DEF P!StoreNear, P!OldAbout, QuietOK
  <2>4. QED
    BY <2>2, <2>3 DEF P!Live
<1>6. ASSUME UNCHANGED <<P!stores, quiet>>, far' \in {far, P!Unset},
             \A r \in Replicas : near'[r] \in {near[r], P!Unset}
      PROVE  P!WindowsClose'
  BY <1>6, UnsetType DEF P!stores
<1>7. ASSUME NEW c \in Requests,
             P!DropNear(c) \/ P!DropFar(c) \/ P!DropGraph(c) \/ P!ClearFar(c) \/ P!Fail(c)
      PROVE  P!WindowsClose'
  BY <1>6, <1>7 DEF P!DropNear, P!DropFar, P!DropGraph, P!ClearFar, P!Fail, P!tiers, P!stores
<1>8. ASSUME NEW r \in Replicas, P!EvictNear(r) \/ P!Restart(r) PROVE P!WindowsClose'
  BY <1>6, <1>8 DEF P!EvictNear, P!Restart, P!stores
<1>9. CASE P!EvictFar
  BY <1>6, <1>9 DEF P!EvictFar, P!stores
<1>10. CASE P!Tick
  <2>1. quiet'.far <= quiet.far + 1 /\ quiet'.near <= quiet.near + 1
    BY <1>10 DEF P!Tick, P!Longer
  <2>2. P!Live(far)' => P!Live(far) /\ far'.ttl = far.ttl - 1 /\ far'.assigned = far.assigned
    <3>1. far \in P!Entry /\ far' = P!Lower(far)
      BY <1>10 DEF P!Tick
    <3>2. /\ P!Live(P!Lower(far)) => /\ P!Live(far) /\ P!Lower(far).ttl = far.ttl - 1
                                 /\ P!Lower(far).assigned = far.assigned
      BY <3>1, LowerType
    <3>3. QED
      BY <3>1, <3>2 DEF P!Live
  <2>3. \A r \in Replicas :
          P!Live(near[r])' => /\ P!Live(near[r]) /\ near'[r].ttl = near[r].ttl - 1
                            /\ near'[r].assigned = near[r].assigned
    <3>1. \A r \in Replicas : near[r] \in P!Entry /\ near'[r] = P!Lower(near[r])
      BY <1>10 DEF P!Tick
    <3>2. \A r \in Replicas :
            P!Live(P!Lower(near[r])) => /\ P!Live(near[r]) /\ P!Lower(near[r]).ttl = near[r].ttl - 1
                                    /\ P!Lower(near[r]).assigned = near[r].assigned
      BY <3>1, LowerType
    <3>3. QED
      BY <3>1, <3>2 DEF P!Live
  <2>4. assigned' = assigned
    BY <1>10 DEF P!Tick, P!stores
  <2>5. far.ttl \in Nat /\ quiet.far \in Nat /\ quiet'.far \in Nat
    BY DEF P!Entry
  <2>6. \A r \in Replicas : near[r].ttl \in Nat /\ quiet.near \in Nat /\ quiet'.near \in Nat
    BY DEF P!Entry
  <2>7. P!Live(far)' /\ P!Old(far)' => far'.ttl + quiet'.far <= FarTtl
    BY <2>1, <2>2, <2>4, <2>5
  <2>8. \A r \in Replicas :
          P!Live(near[r])' /\ P!Old(near[r])' => near'[r].ttl + quiet'.near <= NearTtl
    BY <2>1, <2>3, <2>4, <2>6
  <2>9. QED
    BY <2>7, <2>8
<1>11. QED
  BY <1>1, <1>2, <1>3, <1>4, <1>5, <1>7, <1>8, <1>9, <1>10, PermissionsCases
     DEF P!Resolve, P!Invalidate, P!MissNear, P!HitFar, P!MissFar, P!UseGraph, P!LoadGraph,
         P!InstallGraph, P!ListAssignments, P!vars

-----------------------------------------------------------------------------

(* What a call is about to write is no older than any edit that was         *)
(* invalidated without a race: it was read from the store or from a far     *)
(* tier that holds nothing older; and a call that was older would have      *)
(* raced with the invalidation.                                             *)
LEMMA CleanStep ==
  ASSUME P!TypeOK, P!TypeOK', Placed, CleanOK, P!InvalidationBites, [P!Next]_(P!vars)
  PROVE  CleanOK' /\ P!InvalidationBites'
<1> USE CachesAssumption DEF P!TypeOK, CleanOK, P!InvalidationBites, P!Versions
<1>1. ASSUME NEW c \in Requests, NEW r \in Replicas,
             P!MissNear(c, r) \/ P!EditRoles(c, r)
      PROVE  CleanOK' /\ P!InvalidationBites'
  BY <1>1 DEF P!MissNear, P!EditRoles, P!Arrive, P!Step, P!stores, P!tiers, P!Live
<1>2. ASSUME NEW c \in Requests, NEW r \in Replicas, P!EditAssignments(c, r)
      PROVE  CleanOK' /\ P!InvalidationBites'
  <2>1. /\ assigned' = assigned + 1 /\ value'[c].assigned = assigned + 1
        /\ \A d \in Requests \ {c} : value'[d] = value[d] /\ pc'[d] = pc[d]
        /\ pc'[c] = "dropNear" /\ UNCHANGED <<near, far, clean>>
    BY <1>2 DEF P!EditAssignments, P!Arrive, P!Step, P!tiers, P!Value
  <2>2. far.assigned \in Nat /\ \A d \in Requests : value[d].assigned \in Nat
    BY DEF P!Entry, P!Value
  <2>3. QED
    BY <2>1, <2>2 DEF P!Live
<1>3. ASSUME NEW c \in Requests, P!HitFar(c)
      PROVE  CleanOK' /\ P!InvalidationBites'
  <2>1. /\ value'[c].assigned = far.assigned
        /\ \A d \in Requests \ {c} : value'[d] = value[d] /\ pc'[d] = pc[d]
        /\ UNCHANGED <<assigned, near, far, clean>>
    BY <1>3 DEF P!HitFar, P!Step, P!stores, P!tiers, P!ValueOf
  <2>2. far.assigned <= assigned /\ \A r \in Replicas : far.assigned >= clean[r]
    BY <1>3 DEF P!HitFar
  <2>3. QED
    BY <2>1, <2>2 DEF P!Live
<1>4. ASSUME NEW c \in Requests, P!MissFar(c) \/ P!UseGraph(c) \/ P!LoadGraph(c) \/ P!InstallGraph(c)
      PROVE  CleanOK' /\ P!InvalidationBites'
  <2>1. \A d \in Requests : value'[d].assigned = value[d].assigned
    <3>1. \A n : [value EXCEPT ![c].roles = n][c].assigned = value[c].assigned
      BY DEF P!Value
    <3>2. \A n : \A d \in Requests \ {c} : [value EXCEPT ![c].roles = n][d] = value[d]
      OBVIOUS
    <3>3. \E n : value' = [value EXCEPT ![c].roles = n] \/ value' = value
      BY <1>4 DEF P!MissFar, P!UseGraph, P!LoadGraph, P!InstallGraph
    <3>4. QED
      BY <3>1, <3>2, <3>3
  <2>2. \A d \in Requests : pc'[d] \in {"fill", "set", "store"} => pc'[d] = pc[d]
    BY <1>4 DEF P!MissFar, P!UseGraph, P!LoadGraph, P!InstallGraph, P!Step
  <2>3. UNCHANGED <<assigned, near, far, clean>>
    BY <1>4 DEF P!MissFar, P!UseGraph, P!LoadGraph, P!InstallGraph, P!stores, P!tiers
  <2>4. QED
    BY <2>1, <2>2, <2>3 DEF P!Live
<1>5. ASSUME NEW c \in Requests, P!ListAssignments(c)
      PROVE  CleanOK' /\ P!InvalidationBites'
  <2>1. value'[c].assigned = assigned /\ \A d \in Requests \ {c} : value'[d] = value[d]
    BY <1>5 DEF P!ListAssignments, P!Value
  <2>2. QED
    BY <1>5, <2>1 DEF P!ListAssignments, P!Step, P!stores, P!tiers, P!Live
<1>6. ASSUME NEW c \in Requests, P!SetFar(c)
      PROVE  CleanOK' /\ P!InvalidationBites'
  <2>1. far'.assigned = value[c].assigned
    BY <1>6 DEF P!SetFar, P!Holding
  <2>2. QED
    BY <1>6, <2>1 DEF P!SetFar, P!Step, P!stores, P!Live
<1>7. ASSUME NEW c \in Requests, P!StoreNear(c)
      PROVE  CleanOK' /\ P!InvalidationBites'
  <2>1. /\ near'[at[c]].assigned = value[c].assigned
        /\ \A r \in Replicas \ {at[c]} : near'[r] = near[r]
    BY <1>7 DEF P!StoreNear, P!Holding, Placed
  <2>2. \A d \in Requests : /\ value'[d] \in {value[d], P!Nothing}
                            /\ pc'[d] # "idle" => pc'[d] = pc[d] /\ value'[d] = value[d]
    BY <1>7 DEF P!StoreNear, P!Return, P!Step
  <2>3. QED
    BY <1>7, <2>1, <2>2 DEF P!StoreNear, P!stores, P!Live, P!Nothing
<1>8. ASSUME UNCHANGED <<assigned, clean>>, far' \in {far, P!Unset},
             \A r \in Replicas : near'[r] \in {near[r], P!Unset},
             \A d \in Requests : /\ value'[d] \in {value[d], P!Nothing}
                                 /\ pc'[d] \in {"fill", "set", "store"} =>
                                      pc'[d] = pc[d] /\ value'[d] = value[d]
      PROVE  CleanOK' /\ P!InvalidationBites'
  <2>1. P!InvalidationBites'
    BY <1>8, UnsetType DEF P!Live
  <2>2. far'.assigned <= assigned
    BY <1>8 DEF P!Unset
  <2>3. \A d \in Requests : value'[d].assigned <= assigned
    BY <1>8 DEF P!Nothing
  <2>4. QED
    BY <1>8, <2>1, <2>2, <2>3
<1>9. ASSUME NEW c \in Requests, P!DropNear(c) \/ P!DropGraph(c) \/ P!ClearFar(c) \/ P!Fail(c)
      PROVE  CleanOK' /\ P!InvalidationBites'
  BY <1>8, <1>9 DEF P!DropNear, P!DropGraph, P!ClearFar, P!Fail, P!Return, P!Step, P!stores, P!tiers
<1>10. ASSUME NEW c \in Requests, P!DropFar(c)
      PROVE  CleanOK' /\ P!InvalidationBites'
  <2>1. \A d \in Requests : /\ value'[d] \in {value[d], P!Nothing}
                            /\ pc'[d] # "idle" => pc'[d] = pc[d] /\ value'[d] = value[d]
    BY <1>10 DEF P!DropFar, P!Return, P!Step
  <2>2. CASE P!Raced(c)
    BY <1>8, <1>10, <2>1, <2>2 DEF P!DropFar, P!stores
  <2>3. CASE ~P!Raced(c)
    <3>1. /\ at[c] \in Replicas /\ clean'[at[c]] = value[c].assigned
          /\ \A r \in Replicas \ {at[c]} : clean'[r] = clean[r]
      BY <1>10, <2>3 DEF P!DropFar, P!Return, P!Step, Placed
    <3>2. /\ \A d \in Requests : pc[d] \in {"fill", "set", "store"}
                                => value[d].assigned >= value[c].assigned
          /\ P!Live(near[at[c]]) => near[at[c]].assigned >= value[c].assigned
      BY <2>3, <3>1 DEF P!Raced, P!Value, P!Entry
    <3>3. UNCHANGED <<assigned, near>> /\ ~P!Live(far)'
      BY <1>10, UnsetType DEF P!DropFar, P!stores, P!Live
    <3>4. P!InvalidationBites'
      BY <3>1, <3>2, <3>3 DEF P!Live
    <3>5. far'.assigned <= assigned
      BY <1>10 DEF P!DropFar, P!Unset
    <3>6. CleanOK'
      <4>1. \A d \in Requests : value'[d].assigned <= assigned
        BY <2>1 DEF P!Nothing
      <4>2. \A d \in Requests : pc'[d] \in {"fill", "set", "store"} =>
              pc[d] \in {"fill", "set", "store"} /\ value'[d] = value[d]
        BY <2>1
      <4>3. QED
        BY <3>1, <3>2, <3>3, <3>5, <4>1, <4>2
    <3>7. QED
      BY <3>4, <3>6
  <2>4. QED
    BY <2>2, <2>3
<1>11. ASSUME NEW r \in Replicas, P!EvictNear(r)
       PROVE  CleanOK' /\ P!InvalidationBites'
  BY <1>8, <1>11 DEF P!EvictNear, P!stores, P!call
<1>12. ASSUME NEW r \in Replicas, P!Restart(r)
       PROVE  CleanOK' /\ P!InvalidationBites'
  BY <1>8, <1>12 DEF P!Restart, P!stores
<1>13. CASE P!EvictFar
  BY <1>8, <1>13 DEF P!EvictFar, P!stores, P!call
<1>14. CASE P!Tick
  <2>1. /\ far \in P!Entry /\ far' = P!Lower(far)
        /\ \A r \in Replicas : near[r] \in P!Entry /\ near'[r] = P!Lower(near[r])
    BY <1>14 DEF P!Tick
  <2>2. /\ far'.assigned <= far.assigned
        /\ P!Live(far)' => P!Live(far) /\ far'.assigned = far.assigned
        /\ \A r \in Replicas :
             P!Live(near[r])' => P!Live(near[r]) /\ near'[r].assigned = near[r].assigned
    <3>1. /\ P!Lower(far).assigned <= far.assigned
          /\ P!Live(P!Lower(far)) => P!Live(far) /\ P!Lower(far).assigned = far.assigned
          /\ \A r \in Replicas : P!Live(P!Lower(near[r])) =>
               P!Live(near[r]) /\ P!Lower(near[r]).assigned = near[r].assigned
      BY <2>1, LowerType
    <3>2. QED
      BY <2>1, <3>1 DEF P!Live
  <2>3. QED
    BY <1>14, <2>1, <2>2 DEF P!Tick, P!stores, P!call, P!Entry
<1>15. CASE UNCHANGED P!vars
  BY <1>15 DEF P!vars, P!stores, P!tiers, P!call, P!Live
<1>16. QED
  BY <1>1, <1>2, <1>3, <1>4, <1>5, <1>6, <1>7, <1>9, <1>10, <1>11, <1>12, <1>13, <1>14, <1>15,
     PermissionsCases DEF P!Resolve, P!Invalidate

-----------------------------------------------------------------------------

(* Nothing has been resolved at first. *)
LEMMA PermissionsStart ==
  P!Init => /\ P!TypeOK /\ Placed /\ QuietOK /\ P!WindowsClose
            /\ CleanOK /\ P!InvalidationBites
<1> SUFFICES ASSUME P!Init
             PROVE  /\ P!TypeOK /\ Placed /\ QuietOK /\ P!WindowsClose
                    /\ CleanOK /\ P!InvalidationBites
  OBVIOUS
<1>1. P!TypeOK /\ Placed
  BY CachesAssumption, UnsetType DEF P!Init, P!TypeOK, Placed, P!Stages, P!Versions
<1>2. QuietOK /\ P!WindowsClose
  BY DEF P!Init, QuietOK, P!OldResolved, P!OldAbout, P!WindowsClose, P!Live, P!Unset, P!Old
<1>3. CleanOK /\ P!InvalidationBites
  BY CachesAssumption DEF P!Init, CleanOK, P!InvalidationBites, P!Live, P!Unset, P!Nothing
<1>4. QED
  BY <1>1, <1>2, <1>3

(* The steps of MCCaches that are steps of PermissionCache. *)
LEMMA PermissionsMoves == PermissionsNext => part' = part /\ part = "permissions" /\ P!Next
BY DEF PermissionsNext, InPermissions, P!Next, P!Resolve, P!Invalidate

-----------------------------------------------------------------------------
(* The two parts *)

(* What holds of the lock, *)
LockInv == L!TypeOK /\ L!HolderHasKey

(* and of the permission cache. *)
PermissionsInv ==
  P!TypeOK /\ Placed /\ QuietOK /\ P!WindowsClose /\ CleanOK /\ P!InvalidationBites

(* A behaviour of one part stays one, and what is left alone stays. *)
LEMMA CachesStay ==
  ASSUME [CachesNext]_cachesVars
  PROVE  /\ part' = part
         /\ part = "lock" => [L!Next]_(L!vars)
         /\ part = "permissions" => [P!Next]_(P!vars)
BY LockMoves, PermissionsMoves
   DEF CachesNext, cachesVars, ofLock, ofPermissions, L!vars, P!vars, P!stores, P!tiers, P!call

(* The invariants hold throughout: of CacheLock, *)
LEMMA LockHold == CachesSpec => [](part = "lock" => LockInv)
<1>1. CachesInit => (part = "lock" => LockInv)
  BY LockStart DEF CachesInit, LockInv
<1>2. ASSUME part = "lock" => LockInv, [CachesNext]_cachesVars
      PROVE  (part = "lock" => LockInv)'
  BY <1>2, CachesStay, LockTypeStep, HolderHasKeyStep DEF LockInv
<1>3. QED
  BY <1>1, <1>2, PTL DEF CachesSpec

(* of PermissionCache. *)
LEMMA PermissionsHold == CachesSpec => [](part = "permissions" => PermissionsInv)
<1>1. CachesInit => (part = "permissions" => PermissionsInv)
  BY PermissionsStart DEF CachesInit, PermissionsInv
<1>2. ASSUME part = "permissions" => PermissionsInv, [CachesNext]_cachesVars
      PROVE  (part = "permissions" => PermissionsInv)'
  BY <1>2, CachesStay, PermissionsTypeStep, QuietStep, WindowsStep, CleanStep
     DEF PermissionsInv
<1>3. QED
  BY <1>1, <1>2, PTL DEF CachesSpec

(* Every variable keeps its type, and a call in progress is on a replica. *)
THEOREM TypeCorrect ==
  CachesSpec => []((part = "lock" => L!TypeOK) /\ (part = "permissions" => P!TypeOK /\ Placed))
<1>1. (part = "lock" => LockInv) /\ (part = "permissions" => PermissionsInv) =>
        (part = "lock" => L!TypeOK) /\ (part = "permissions" => P!TypeOK /\ Placed)
  BY DEF LockInv, PermissionsInv
<1>2. QED
  BY <1>1, LockHold, PermissionsHold, PTL

(* Within its lease a holder has the key, unless a lease was torn. *)
THEOREM HolderHasKeyCorrect == CachesSpec => [](part = "lock" => L!HolderHasKey)
<1>1. (part = "lock" => LockInv) => (part = "lock" => L!HolderHasKey)
  BY DEF LockInv
<1>2. QED
  BY <1>1, LockHold, PTL

(* Two leases never overlap, unless one was torn: both would own the key.  *)
THEOREM ExclusionCorrect == CachesSpec => []Exclusion
<1>1. (part = "lock" => LockInv) => Exclusion
  BY DEF LockInv, L!HolderHasKey, L!Exclusion, Exclusion
<1>2. QED
  BY <1>1, LockHold, PTL

(* An old answer is gone from the far tier within its time to live after    *)
(* the last one was resolved, and from every near tier within the near      *)
(* tier's after that, for every time to live.                               *)
THEOREM WindowsCloseCorrect == CachesSpec => []WindowsClose
<1>1. (part = "permissions" => PermissionsInv) => WindowsClose
  BY DEF PermissionsInv, WindowsClose
<1>2. QED
  BY <1>1, PermissionsHold, PTL

(* After an invalidation that nothing raced with, no answer older than the  *)
(* edit is in the far tier or in the near tier of that replica.             *)
THEOREM InvalidationBitesCorrect == CachesSpec => []InvalidationBites
<1>1. (part = "permissions" => PermissionsInv) => InvalidationBites
  BY DEF PermissionsInv, InvalidationBites
<1>2. QED
  BY <1>1, PermissionsHold, PTL

-----------------------------------------------------------------------------
(* TokenBucket *)

(* A stored bucket. *)
BucketState == [tokens: 0..Capacity, updatedAt: Int]

(* Clocks and buckets are what they are declared to be, and a call in flight *)
(* looked at the clock.                                                      *)
BucketOK ==
  /\ now \in Nat /\ latest \in Int
  /\ bucket \in [state: BucketState, until: Int]
  /\ pc \in [Calls -> {"idle", "get", "write", "again", "allowed", "denied"}]
  /\ stamp \in [Calls -> Int] /\ stored \in [Calls -> BucketState]
  /\ \A c \in Calls : pc[c] \in {"get", "write"} => stamp[c] \in 0..now

(* The calls let through since t. *)
Since(t) == {c \in Calls : pc[c] = "allowed" /\ stamp[c] >= t}

(* What was let through since any time before the last write, and what is  *)
(* left, is at most the burst and what came in since; and the entry lives  *)
(* from that write for twice the time it takes to fill up.                 *)
Account ==
  /\ latest <= now /\ \A c \in Calls : pc[c] = "allowed" => stamp[c] <= latest
  /\ bucket.state = T!NoState => \A c \in Calls : pc[c] # "allowed"
  /\ bucket.state # T!NoState =>
       /\ bucket.state.updatedAt = latest /\ bucket.until >= latest + T!Ttl
       /\ \A t \in Nat : t <= latest =>
            Cost * Cardinality(Since(t)) + bucket.state.tokens <= Capacity + Rate * (latest - t)

BucketInv == BucketOK /\ (swaps /\ ~rewound /\ ~evicted => Account)

(* The entry outlives the time it takes to fill up twice. *)
LEMMA TtlIs == T!Ttl \in Nat /\ Rate * T!Ttl >= 2 * Capacity
<1> DEFINE a == 2 * Capacity + Rate - 1
<1>1. a \in Nat /\ Rate \in Nat \ {0} /\ Capacity \in Nat
  BY LimitsAssumption
<1>2. T!Ttl = a \div Rate
  BY DEF T!Ttl
<1> HIDE DEF a
<1>3. a = Rate * (a \div Rate) + (a % Rate) /\ a % Rate \in 0..(Rate - 1) /\ a \div Rate \in Nat
  BY <1>1
<1>4. QED
  BY <1>1, <1>2, <1>3 DEF a

(* The larger and the smaller of two numbers. *)
LEMMA MinMaxIs ==
  ASSUME NEW a \in Int, NEW b \in Int
  PROVE  /\ T!Min({a, b}) \in {a, b} /\ T!Min({a, b}) <= a /\ T!Min({a, b}) <= b
         /\ T!Max({a, b}) \in {a, b} /\ T!Max({a, b}) >= a /\ T!Max({a, b}) >= b
BY DEF T!Min, T!Max

(* The calls are finitely many. *)
LEMMA SinceIs == \A t : IsFiniteSet(Since(t)) /\ Cardinality(Since(t)) \in Nat
BY LimitsAssumption, FS_Subset, FS_CardinalityType DEF Since

(* There is no bucket at first. *)
LEMMA BucketStart == T!Init => BucketInv
<1> SUFFICES ASSUME T!Init PROVE BucketInv
  OBVIOUS
<1>1. T!NoState \in BucketState
  BY LimitsAssumption DEF T!NoState, BucketState
<1>2. BucketOK
  BY <1>1 DEF T!Init, BucketOK
<1>3. Account
  BY DEF T!Init, Account
<1>4. QED
  BY <1>2, <1>3 DEF BucketInv

(* What a call computes of the bucket it was given. *)
LEMMA TokensAre ==
  ASSUME BucketOK, NEW c \in Calls
  PROVE  /\ T!Tokens(c) \in 0..Capacity
         /\ T!NextState(c) \in BucketState
         /\ stored[c] = T!NoState => T!Tokens(c) = Capacity
         /\ stored[c] # T!NoState /\ stamp[c] >= stored[c].updatedAt =>
              T!Tokens(c) <= stored[c].tokens + Rate * (stamp[c] - stored[c].updatedAt)
<1>1. /\ stored[c].tokens \in 0..Capacity /\ stored[c].updatedAt \in Int /\ stamp[c] \in Int
      /\ Capacity \in Nat /\ Rate \in Nat /\ Cost \in Nat
  BY LimitsAssumption DEF BucketOK, BucketState
<1> DEFINE gone == stamp[c] - stored[c].updatedAt
           more == T!Max({0, gone * Rate})
           sum == stored[c].tokens + more
<1>2. gone \in Int /\ gone * Rate \in Int
  BY <1>1
<1>3. more \in Nat /\ (gone >= 0 => more = Rate * gone)
  <2> HIDE DEF gone
  <2>1. more \in {0, gone * Rate} /\ more >= 0 /\ more >= gone * Rate
    <3> DEFINE n == gone * Rate
    <3>1. 0 \in Int /\ n \in Int
      BY <1>2
    <3> HIDE DEF n
    <3>2. T!Max({0, n}) \in {0, n} /\ T!Max({0, n}) >= 0 /\ T!Max({0, n}) >= n
      BY <3>1, MinMaxIs
    <3>3. QED
      BY <3>2 DEF n
  <2>2. gone >= 0 => gone * Rate >= 0
    BY <1>1, <1>2
  <2>3. gone * Rate = Rate * gone
    BY <1>1, <1>2
  <2>4. QED
    BY <1>2, <2>1, <2>2, <2>3
<1>4. T!Tokens(c) = IF stored[c] = T!NoState THEN Capacity ELSE T!Min({Capacity, sum})
  BY DEF T!Tokens
<1> HIDE DEF gone, more
<1>5. sum \in Nat /\ T!Min({Capacity, sum}) \in {Capacity, sum}
      /\ T!Min({Capacity, sum}) <= Capacity /\ T!Min({Capacity, sum}) <= sum
  <2>1. sum \in Nat /\ Capacity \in Int
    BY <1>1, <1>3
  <2> HIDE DEF sum
  <2>2. QED
    BY <2>1, MinMaxIs
<1>6. T!Tokens(c) \in 0..Capacity
  BY <1>1, <1>4, <1>5
<1>7. T!NextState(c) \in BucketState
  BY <1>1, <1>6 DEF T!NextState, T!Allowed, BucketState
<1>8. QED
  BY <1>1, <1>3, <1>4, <1>5, <1>6, <1>7 DEF gone

(* Every step keeps the types. *)
LEMMA BucketTypes ==
  ASSUME BucketOK, T!Next
  PROVE  BucketOK'
<1> USE DEF BucketOK
<1>1. ASSUME NEW c \in Calls, T!Look(c) PROVE BucketOK'
  BY <1>1 DEF T!Look, T!Step, T!entry
<1>2. ASSUME NEW c \in Calls, T!Get(c) PROVE BucketOK'
  <2>1. T!Live \in BucketState
    BY LimitsAssumption DEF T!Live, T!NoState, BucketState
  <2>2. QED
    BY <1>2, <2>1 DEF T!Get, T!Step, T!entry, T!history
<1>3. ASSUME NEW c \in Calls, T!Write(c) PROVE BucketOK'
  <2>1. T!NextState(c) \in BucketState /\ T!Ttl \in Nat
    BY TokensAre, TtlIs
  <2>2. bucket' \in [state: BucketState, until: Int]
    BY <1>3, <2>1 DEF T!Write, T!Put
  <2>3. latest' \in Int
    <3>1. latest \in Int /\ stamp[c] \in Int
      OBVIOUS
    <3>2. T!Max({latest, stamp[c]}) \in {latest, stamp[c]}
      BY <3>1, MinMaxIs
    <3>3. QED
      BY <1>3, <3>1, <3>2 DEF T!Write
  <2>4. QED
    BY <1>3, <2>2, <2>3 DEF T!Write, T!Step
<1>4. ASSUME NEW c \in Calls, T!Contend(c) PROVE BucketOK'
  BY <1>4 DEF T!Contend, T!Step, T!entry, T!history
<1>5. CASE T!Evict
  <2>1. T!NoState \in BucketState
    BY LimitsAssumption DEF T!NoState, BucketState
  <2>2. QED
    BY <1>5, <2>1 DEF T!Evict, T!call
<1>6. CASE T!Tick
  BY <1>6 DEF T!Tick, T!call, T!history
<1>7. QED
  BY <1>1, <1>2, <1>3, <1>4, <1>5, <1>6 DEF T!Next

(* When no call is let through and nothing is written, the account stays. *)
LEMMA AccountStays ==
  ASSUME BucketOK, Account, UNCHANGED <<bucket, latest>>, now' \in Nat, now' >= now,
         \A c \in Calls : pc'[c] = "allowed" <=> pc[c] = "allowed",
         \A c \in Calls : pc[c] = "allowed" => stamp'[c] = stamp[c]
  PROVE  Account'
<1>1. \A t : Since(t)' = Since(t)
  BY DEF Since
<1>2. latest' <= now'
  BY DEF BucketOK, Account
<1>3. T!NoState' = T!NoState /\ T!Ttl' = T!Ttl
  BY DEF T!NoState, T!Ttl
<1>4. QED
  BY <1>1, <1>2, <1>3 DEF Account

(* The balance that a write in time finds is covered: what was let through *)
(* since any earlier time and the tokens are at most the burst and what    *)
(* came in until the call looked at the clock. *)
LEMMA WriteIsCovered ==
  ASSUME BucketOK, Account, NEW c \in Calls, pc[c] = "write", T!Live = stored[c],
         stamp[c] >= latest, ~(stored[c] = T!NoState /\ (now - stamp[c]) * Rate >= Capacity),
         NEW t \in Nat, t <= stamp[c]
  PROVE  Cost * Cardinality(Since(t)) + T!Tokens(c) <= Capacity + Rate * (stamp[c] - t)
<1> DEFINE n == Cost * Cardinality(Since(t))
           s == stamp[c]
<1> SUFFICES n + T!Tokens(c) <= Capacity + Rate * (s - t)
  OBVIOUS
<1>1. /\ s \in 0..now /\ now \in Nat /\ latest \in Int /\ Capacity \in Nat /\ Rate \in Nat \ {0}
      /\ n \in Nat /\ T!Tokens(c) \in 0..Capacity
  BY LimitsAssumption, SinceIs, TokensAre DEF BucketOK
<1>2. Rate * (s - t) \in Nat
  BY <1>1
<1>3. t > latest => n = 0
  <2> SUFFICES ASSUME t > latest PROVE n = 0
    OBVIOUS
  <2>1. ASSUME NEW d \in Since(t) PROVE FALSE
    <3>1. stamp[d] <= latest /\ stamp[d] >= t /\ stamp[d] \in Int
      BY DEF Account, Since, BucketOK
    <3>2. QED
      BY <1>1, <3>1
  <2>2. Since(t) = {}
    BY <2>1
  <2>3. QED
    BY <2>2, FS_EmptySet, LimitsAssumption
<1>4. CASE stored[c] = T!NoState
  <2>1. CASE bucket.state = T!NoState
    <3>1. Since(t) = {}
      BY <2>1 DEF Account, Since
    <3>2. n = 0
      BY <3>1, FS_EmptySet, LimitsAssumption
    <3> HIDE DEF n
    <3>3. QED
      BY <1>1, <1>2, <3>2
  <2>2. CASE bucket.state # T!NoState
    <3>1. now >= bucket.until /\ bucket.until >= latest + T!Ttl /\ bucket.until \in Int
      BY <1>4, <2>2 DEF T!Live, Account, BucketOK
    <3>2. T!Ttl \in Nat /\ Rate * T!Ttl >= 2 * Capacity
      BY TtlIs
    <3>3. (now - s) * Rate < Capacity
      <4>1. (now - s) * Rate \in Int
        BY <1>1
      <4>2. QED
        BY <1>1, <1>4, <4>1
    <3>4. T!Tokens(c) = Capacity
      BY <1>4, TokensAre
    <3>5. CASE t <= latest
      <4>1. bucket.state.tokens \in Nat
        BY DEF BucketOK, BucketState
      <4>2. n <= Capacity + Rate * (latest - t)
        <5>1. n + bucket.state.tokens <= Capacity + Rate * (latest - t)
          BY <2>2, <3>5 DEF Account
        <5>2. Rate * (latest - t) \in Int
          BY <1>1
        <5> HIDE DEF n
        <5>3. QED
          BY <1>1, <4>1, <5>1, <5>2
      <4> HIDE DEF n, s
      <4>3. now - latest >= T!Ttl /\ now - latest \in Int
        BY <1>1, <3>1, <3>2
      <4>4. Rate * (now - latest) >= Rate * T!Ttl
        BY <1>1, <3>2, <4>3
      <4>5. Rate * (now - latest) = (now - s) * Rate + Rate * (s - t) - Rate * (latest - t)
        BY <1>1
      <4>6. /\ Rate * (now - latest) \in Int /\ (now - s) * Rate \in Int
            /\ Rate * (s - t) \in Int /\ Rate * (latest - t) \in Int /\ Rate * T!Ttl \in Int
        BY <1>1, <3>2
      <4>7. QED
        BY <1>1, <3>2, <3>3, <3>4, <4>2, <4>4, <4>5, <4>6
    <3>6. CASE t > latest
      <4> HIDE DEF n, s
      <4>1. QED
        BY <1>1, <1>2, <1>3, <3>6
    <3>7. QED
      BY <1>1, <3>5, <3>6
  <2>3. QED
    BY <2>1, <2>2
<1>5. CASE stored[c] # T!NoState
  <2>1. bucket.state = stored[c] /\ stored[c].updatedAt = latest
    BY <1>5 DEF T!Live, Account
  <2>2. T!Tokens(c) <= stored[c].tokens + Rate * (s - latest)
    BY <1>5, <2>1, TokensAre
  <2>3. CASE t <= latest
    <3>1. n + stored[c].tokens <= Capacity + Rate * (latest - t)
      BY <1>5, <2>1, <2>3 DEF Account
    <3>2. stored[c].tokens \in Nat
      BY DEF BucketOK, BucketState
    <3> HIDE DEF n, s
    <3>3. Rate * (s - t) = Rate * (s - latest) + Rate * (latest - t)
      BY <1>1
    <3>4. Rate * (s - t) \in Int /\ Rate * (s - latest) \in Int /\ Rate * (latest - t) \in Int
      BY <1>1
    <3>5. QED
      BY <1>1, <2>2, <3>1, <3>2, <3>3, <3>4
  <2>4. CASE t > latest
    <3> HIDE DEF n, s
    <3>1. QED
      BY <1>1, <1>2, <1>3, <2>4
  <2>5. QED
    BY <1>1, <2>3, <2>4
<1>6. QED
  BY <1>4, <1>5

(* A write in time is on the account. *)
LEMMA WriteIsCounted ==
  ASSUME BucketInv, BucketOK', NEW c \in Calls, T!Write(c), swaps, ~rewound', ~evicted
  PROVE  Account'
<1>1. /\ pc[c] = "write" /\ T!Live = stored[c]
      /\ bucket' = [state |-> T!NextState(c), until |-> now + T!Ttl]
      /\ pc' = [pc EXCEPT ![c] = IF T!Allowed(c) THEN "allowed" ELSE "denied"]
      /\ ~rewound /\ ~(stamp[c] < latest)
      /\ ~(stored[c] = T!NoState /\ (now - stamp[c]) * Rate >= Capacity)
  BY DEF T!Write, T!Step, T!Put
<1>2. latest' = T!Max({latest, stamp[c]}) /\ UNCHANGED <<now, stamp>>
  BY DEF T!Write
<1>3. BucketOK /\ Account
  BY <1>1 DEF BucketInv
<1>4. /\ latest \in Int /\ now \in Nat /\ stamp[c] \in 0..now /\ latest <= stamp[c]
      /\ Capacity \in Nat /\ Rate \in Nat /\ Cost \in Nat /\ T!Ttl \in Nat
      /\ stamp \in [Calls -> Int]
  BY <1>1, <1>3, TtlIs, LimitsAssumption DEF BucketOK
<1>5. latest' = stamp[c]
  <2>1. T!Max({latest, stamp[c]}) \in {latest, stamp[c]} /\ T!Max({latest, stamp[c]}) >= stamp[c]
    <3>1. stamp[c] \in Int
      BY <1>4
    <3>2. QED
      BY <1>4, <3>1, MinMaxIs
  <2>2. QED
    BY <1>2, <1>4, <2>1
<1>6. latest' <= now' /\ \A d \in Calls : pc'[d] = "allowed" => stamp'[d] <= latest'
  <2>1. ASSUME NEW d \in Calls, pc'[d] = "allowed" PROVE stamp[d] <= stamp[c]
    <3>1. CASE d = c
      BY <1>4, <3>1
    <3>2. CASE d # c
      <4>1. pc[d] = "allowed"
        BY <1>1, <1>3, <2>1, <3>2 DEF BucketOK
      <4>2. stamp[d] <= latest /\ stamp[d] \in Int
        BY <1>3, <1>4, <4>1 DEF Account
      <4>3. QED
        BY <1>4, <4>2
    <3>3. QED
      BY <3>1, <3>2
  <2>2. QED
    BY <1>2, <1>4, <1>5, <2>1
<1>7. T!NextState(c).updatedAt = stamp[c] /\ T!NextState(c) # T!NoState
  BY <1>4 DEF T!NextState, T!NoState
<1>8. bucket'.until >= latest' + T!Ttl
  BY <1>1, <1>4, <1>5
<1>9. ASSUME NEW t \in Nat, t <= stamp[c]
      PROVE  Cost * Cardinality(Since(t)') + T!NextState(c).tokens
               <= Capacity + Rate * (stamp[c] - t)
  <2> DEFINE n == Cardinality(Since(t))
             right == Capacity + Rate * (stamp[c] - t)
  <2>1. Cost * n + T!Tokens(c) <= right
    BY <1>1, <1>3, <1>4, <1>9, WriteIsCovered
  <2>2. n \in Nat /\ IsFiniteSet(Since(t)) /\ T!Tokens(c) \in Int /\ right \in Int
    BY <1>3, <1>4, SinceIs, TokensAre
  <2>3. CASE T!Allowed(c)
    <3>1. Since(t)' = Since(t) \cup {c} /\ c \notin Since(t)
      BY <1>1, <1>2, <1>3, <1>4, <1>9, <2>3 DEF Since, BucketOK
    <3>2. Cardinality(Since(t)') = n + 1
      BY <2>2, <3>1, FS_AddElement
    <3>3. T!NextState(c).tokens = T!Tokens(c) - Cost
      BY <2>3 DEF T!NextState
    <3> HIDE DEF n, right
    <3>4. Cost * (n + 1) = Cost * n + Cost /\ Cost * n \in Int
      BY <1>4, <2>2
    <3>5. QED
      BY <1>4, <2>1, <2>2, <3>2, <3>3, <3>4 DEF right
  <2>4. CASE ~T!Allowed(c)
    <3>1. Since(t)' = Since(t)
      BY <1>1, <1>2, <1>3, <2>4 DEF Since, BucketOK
    <3>2. T!NextState(c).tokens = T!Tokens(c)
      BY <2>4 DEF T!NextState
    <3>3. QED
      BY <2>1, <3>1, <3>2
  <2>5. QED
    BY <2>3, <2>4
<1>10. T!NoState' = T!NoState /\ T!Ttl' = T!Ttl
  BY DEF T!NoState, T!Ttl
<1>11. \A t \in Nat : t <= latest' =>
         Cost * Cardinality(Since(t)') + bucket'.state.tokens <= Capacity + Rate * (latest' - t)
  BY <1>1, <1>5, <1>9
<1>12. bucket'.state # T!NoState /\ bucket'.state.updatedAt = latest'
  BY <1>1, <1>5, <1>7
<1>13. QED
  BY <1>6, <1>8, <1>10, <1>11, <1>12 DEF Account

(* Every step of a call, the clock and the cache keeps the invariant. *)
LEMMA BucketStep ==
  ASSUME BucketInv, T!Next
  PROVE  BucketInv'
<1>1. BucketOK /\ BucketOK' /\ now \in Nat
  BY BucketTypes DEF BucketInv, BucketOK
<1> SUFFICES ASSUME swaps', ~rewound', ~evicted' PROVE Account'
  BY <1>1 DEF BucketInv
<1>2. ASSUME NEW c \in Calls, T!Look(c) PROVE Account'
  <2>1. swaps /\ ~rewound /\ ~evicted /\ UNCHANGED <<now, bucket, latest>>
        /\ \A d \in Calls : /\ pc'[d] = "allowed" <=> pc[d] = "allowed"
                            /\ pc[d] = "allowed" => stamp'[d] = stamp[d]
    BY <1>1, <1>2 DEF T!Look, T!Step, T!entry, BucketOK
  <2>2. QED
    BY <1>1, <2>1, AccountStays DEF BucketInv
<1>3. ASSUME NEW c \in Calls, T!Get(c) \/ T!Contend(c) PROVE Account'
  <2>1. swaps /\ ~rewound /\ ~evicted /\ UNCHANGED <<now, bucket, latest, stamp>>
    <3>1. UNCHANGED <<swaps, rewound, evicted, now, bucket, latest, stamp>>
      BY <1>3 DEF T!Get, T!Contend, T!entry, T!history
    <3>2. QED
      BY <3>1
  <2>2. \E to \in {"write", "again", "denied"} :
          pc[c] \in {"get", "write"} /\ pc' = [pc EXCEPT ![c] = to]
    BY <1>3 DEF T!Get, T!Contend, T!Step
  <2>3. \A d \in Calls : pc'[d] = "allowed" <=> pc[d] = "allowed"
    BY <1>1, <2>2 DEF BucketOK
  <2>4. QED
    BY <1>1, <2>1, <2>3, AccountStays DEF BucketInv
<1>4. ASSUME NEW c \in Calls, T!Write(c) PROVE Account'
  BY <1>1, <1>4, WriteIsCounted DEF T!Write
<1>5. CASE T!Evict
  BY <1>5 DEF T!Evict
<1>6. CASE T!Tick
  <2>1. swaps /\ ~rewound /\ ~evicted /\ UNCHANGED <<bucket, latest, stamp, pc>> /\ now' = now + 1
    BY <1>6 DEF T!Tick, T!call, T!history
  <2>2. QED
    BY <1>1, <2>1, AccountStays DEF BucketInv
<1>7. QED
  BY <1>2, <1>3, <1>4, <1>5, <1>6 DEF T!Next

(* The limit is exact. *)
LEMMA BucketIsExact == BucketInv => T!ExactInOrder
<1> SUFFICES ASSUME BucketInv, swaps, ~rewound, ~evicted, NEW t \in 0..now
             PROVE  T!Spent(t) <= Capacity + Rate * (now - t) + Cost * 0
  BY DEF T!ExactInOrder, T!Within
<1>1. BucketOK /\ Account
  BY DEF BucketInv
<1>2. now \in Nat /\ latest \in Int /\ latest <= now /\ Capacity \in Nat /\ Rate \in Nat
      /\ Cost \in Nat /\ t \in Nat /\ t <= now
  BY <1>1, LimitsAssumption DEF BucketOK, Account
<1>3. T!Spent(t) = Cost * Cardinality(Since(t))
  BY DEF T!Spent, Since, T!Cardinality, Cardinality
<1>4. CASE bucket.state = T!NoState \/ t > latest
  <2>1. ASSUME NEW d \in Since(t) PROVE FALSE
    <3>1. stamp[d] <= latest /\ stamp[d] >= t /\ stamp[d] \in Int /\ bucket.state # T!NoState
      BY <1>1 DEF Account, Since, BucketOK
    <3>2. QED
      BY <1>2, <1>4, <3>1
  <2>2. Since(t) = {}
    BY <2>1
  <2>3. T!Spent(t) = 0
    BY <1>2, <1>3, <2>2, FS_EmptySet
  <2>4. Rate * (now - t) \in Nat
    BY <1>2
  <2>5. QED
    BY <1>2, <2>3, <2>4
<1>5. CASE bucket.state # T!NoState /\ ~(t > latest)
  <2>1. T!Spent(t) + bucket.state.tokens <= Capacity + Rate * (latest - t)
        /\ bucket.state.tokens \in Nat
    BY <1>1, <1>2, <1>3, <1>5 DEF Account, BucketOK, BucketState
  <2>2. Rate * (now - t) = Rate * (latest - t) + Rate * (now - latest)
        /\ Rate * (now - latest) \in Nat /\ Rate * (latest - t) \in Int
    BY <1>2
  <2>3. T!Spent(t) \in Nat
    BY <1>2, <1>3, SinceIs
  <2>4. QED
    BY <1>2, <2>1, <2>2, <2>3
<1>6. QED
  BY <1>4, <1>5

(* The steps of MCLimits that are steps of TokenBucket. *)
LEMMA BucketMoves == BucketNext => part' = part /\ part = "bucket" /\ T!Next
BY DEF BucketNext, InBucket, T!Next

(* What is left alone keeps the invariant. *)
LEMMA BucketRest ==
  ASSUME BucketInv, UNCHANGED <<ofCalls, ofBucket>>
  PROVE  BucketInv'
<1>1. BucketOK'
  BY DEF BucketInv, BucketOK, ofCalls, ofBucket
<1>2. ASSUME swaps', ~rewound', ~evicted' PROVE Account'
  <2>1. UNCHANGED <<swaps, rewound, evicted, bucket, latest, now, pc, stamp>>
    BY DEF ofCalls, ofBucket
  <2>2. BucketOK /\ Account /\ now \in Nat
    BY <1>2, <2>1 DEF BucketInv, BucketOK
  <2>3. QED
    BY <2>1, <2>2, AccountStays
<1>3. QED
  BY <1>1, <1>2 DEF BucketInv

-----------------------------------------------------------------------------
(* RateLimiter *)

(* A call that has counted itself, and still holds what it counted. *)
Counted(c) == pc[c] \in {"previous", "allowed"}

(* A counter that is there outlives the bucket after its own, and tells the *)
(* calls that counted in it apart.                                          *)
CountsOK ==
  /\ \A b \in R!Buckets : IF count[b] = 0 THEN expires[b] = 0 ELSE expires[b] >= (b[2] + 2) * b[1]
  /\ \A c \in Calls : Counted(c) => current[c] \in 1..count[R!Bucket(c)]
  /\ \A c, d \in Calls :
       Counted(c) /\ Counted(d) /\ R!Bucket(c) = R!Bucket(d) /\ c # d => current[c] # current[d]

(* An admitted call counted at most the limit, and found little enough in   *)
(* the bucket before.                                                       *)
SharesOK ==
  \A c \in Calls : pc[c] = "allowed" =>
    /\ current[c] <= Limit
    /\ 2 * width[c] * (before[c] + current[c])
         <= 2 * Limit * width[c] + 2 * Limit * (stamp[c] % width[c]) + width[c]

LimiterInv == R!TypeOK /\ (~late /\ ~disturbed => CountsOK /\ SharesOK)

(* The powers of the factor up to the fourth. *)
LEMMA PowerIs == /\ \A v \in 0..4 : R!Power[v] \in Nat \ {0}
                 /\ R!Power[0] = 1
<1> DEFINE two == Factor * Factor
           three == Factor * two
           four == Factor * three
           g == [v \in 0..4 |-> IF v = 0 THEN 1 ELSE IF v = 1 THEN Factor
                                ELSE IF v = 2 THEN two ELSE IF v = 3 THEN three ELSE four]
<1>1. Factor \in Nat \ {0}
  BY LimitsAssumption
<1>2. two \in Nat \ {0}
  BY <1>1
<1>3. three \in Nat \ {0}
  <2> HIDE DEF two
  <2>1. QED
    BY <1>1, <1>2
<1>4. four \in Nat \ {0}
  <2> HIDE DEF three
  <2>1. QED
    BY <1>1, <1>3
<1>5. \A v \in 0..4 : g[v] = IF v = 0 THEN 1 ELSE Factor * g[v - 1]
  <2>1. two = Factor * Factor /\ three = Factor * two /\ four = Factor * three
        /\ Factor * 1 = Factor
    BY <1>1
  <2> HIDE DEF two, three, four
  <2>2. g[0] = 1 /\ g[1] = Factor /\ g[2] = two /\ g[3] = three /\ g[4] = four
    OBVIOUS
  <2>3. g[1] = Factor * g[0] /\ g[2] = Factor * g[1] /\ g[3] = Factor * g[2]
        /\ g[4] = Factor * g[3]
    BY <2>1, <2>2
  <2> HIDE DEF g
  <2>4. ASSUME NEW v \in 0..4 PROVE g[v] = IF v = 0 THEN 1 ELSE Factor * g[v - 1]
    <3>1. v = 0 \/ v = 1 \/ v = 2 \/ v = 3 \/ v = 4
      OBVIOUS
    <3>2. QED
      BY <2>2, <2>3, <3>1
  <2>5. QED
    BY <2>4
<1>6. g = [v \in 0..4 |-> IF v = 0 THEN 1 ELSE Factor * g[v - 1]]
  BY <1>5
<1>7. R!MaxWiden = 4
  BY DEF R!MaxWiden
<1>8. R!Power = [v \in 0..4 |-> IF v = 0 THEN 1 ELSE Factor * R!Power[v - 1]]
  <2> HIDE DEF g
  <2>1. QED
    BY <1>6, <1>7 DEF R!Power
<1> DEFINE f == R!Power
<1> HIDE DEF f, g, two, three, four
<1>9. f = [v \in 0..4 |-> IF v = 0 THEN 1 ELSE Factor * f[v - 1]]
  BY <1>8 DEF f
<1>10. f[0] = 1
  BY <1>9
<1>11. f[1] = Factor * f[0] /\ f[2] = Factor * f[1] /\ f[3] = Factor * f[2] /\ f[4] = Factor * f[3]
  BY <1>9
<1>12. f[1] = Factor
  BY <1>1, <1>10, <1>11
<1>13. f[2] = two
  BY <1>11, <1>12 DEF two
<1>14. f[3] = three
  BY <1>11, <1>13 DEF three
<1>15. f[4] = four
  BY <1>11, <1>14 DEF four
<1>16. \A v \in 0..4 : v = 0 \/ v = 1 \/ v = 2 \/ v = 3 \/ v = 4
  OBVIOUS
<1>17. QED
  BY <1>1, <1>2, <1>3, <1>4, <1>10, <1>12, <1>13, <1>14, <1>15, <1>16 DEF f

(* The smaller of two numbers. *)
LEMMA SmallerIs ==
  ASSUME NEW a \in Int, NEW b \in Int
  PROVE  R!Min({a, b}) = IF a <= b THEN a ELSE b
BY DEF R!Min

(* A window is no narrower than the rule's own. *)
LEMMA WidthsAre == /\ \A w \in R!Widths : w \in Nat \ {0} /\ w >= Window
                   /\ Window \in R!Widths
                   /\ violations \in Nat => R!PenaltyWindow \in R!Widths
<1>1. Window \in Nat \ {0}
  BY LimitsAssumption
<1> DEFINE least(v) == R!Min({R!Power[v], 16})
<1>2. R!Widths = {Window * least(v) : v \in 0..4}
  BY DEF R!Widths, R!MaxWiden
<1>3. ASSUME NEW v \in 0..4 PROVE least(v) \in Nat \ {0}
  <2>1. R!Power[v] \in Int /\ R!Power[v] \in Nat \ {0} /\ 16 \in Int
    BY PowerIs
  <2>2. QED
    BY <2>1, SmallerIs
<1>4. ASSUME NEW v \in 0..4
      PROVE  Window * least(v) \in Nat \ {0} /\ Window * least(v) >= Window
  <2> DEFINE n == least(v)
  <2>1. n \in Nat \ {0}
    BY <1>3
  <2> HIDE DEF n
  <2>2. Window * n \in Nat \ {0} /\ Window * n >= Window
    BY <1>1, <2>1
  <2>3. QED
    BY <2>2 DEF n
<1>5. least(0) = 1
  BY PowerIs, SmallerIs
<1>6. Window \in R!Widths
  <2>1. Window * least(0) = Window
    BY <1>1, <1>5
  <2>2. QED
    BY <1>2, <2>1
<1>7. ASSUME violations \in Nat PROVE R!PenaltyWindow \in R!Widths
  <2> DEFINE v == R!Min({violations, 4})
             p == R!Power[v]
  <2>1. v \in 0..4
    BY <1>7, SmallerIs
  <2>2. p \in Nat \ {0}
    BY <2>1, PowerIs
  <2>3. R!Min({Window * p, Window * 16}) = Window * least(v)
    <3> HIDE DEF v
    <3>1. Window * p \in Int /\ Window * 16 \in Int /\ p \in Int /\ 16 \in Int
      BY <1>1, <2>2
    <3>2. R!Min({Window * p, Window * 16}) = IF Window * p <= Window * 16 THEN Window * p ELSE Window * 16
      BY <3>1, SmallerIs
    <3>3. least(v) = IF p <= 16 THEN p ELSE 16
      BY <3>1, SmallerIs
    <3>4. Window * p <= Window * 16 <=> p <= 16
      BY <1>1, <2>2
    <3>5. QED
      BY <3>2, <3>3, <3>4
  <2>4. Window * least(v) \in R!Widths
    BY <1>2, <2>1
  <2>5. R!PenaltyWindow = IF adaptive THEN R!Min({Window * p, Window * 16}) ELSE Window
    BY DEF R!PenaltyWindow, R!MaxWiden
  <2>6. QED
    BY <1>6, <2>3, <2>4, <2>5
<1>8. QED
  BY <1>2, <1>4, <1>6, <1>7

(* A call counts in a bucket there is, in whose time it looked at the clock; *)
(* so is the one before.                                                     *)
LEMMA BucketsAre ==
  ASSUME R!TypeOK, NEW c \in Calls
  PROVE  /\ width[c] \in Nat \ {0} /\ stamp[c] \in Nat
         /\ R!Number(c) \in Nat
         /\ R!Bucket(c) \in R!Buckets /\ R!Previous(c) \in R!Buckets
         /\ stamp[c] % width[c] \in 0..(width[c] - 1)
<1> DEFINE w == width[c]
           s == stamp[c]
           q == s \div w
           m == MaxTime \div Window
<1>1. w \in R!Widths /\ w \in Nat \ {0} /\ w >= Window /\ s \in 0..MaxTime
      /\ Window \in Nat \ {0} /\ MaxTime \in Nat
  BY WidthsAre, LimitsAssumption DEF R!TypeOK
<1> HIDE DEF w, s
<1>2. q \in Nat /\ s % w \in 0..(w - 1) /\ s = w * q + (s % w)
  BY <1>1
<1>3. m \in Nat /\ MaxTime % Window \in 0..(Window - 1) /\ MaxTime = Window * m + (MaxTime % Window)
  BY <1>1
<1>4. R!Number(c) = q
  BY DEF R!Number, w, s
<1> HIDE DEF q, m
<1>5. q <= m
  <2> SUFFICES ASSUME q > m PROVE FALSE
    BY <1>2, <1>3
  <2>1. w * q >= Window * q
    BY <1>1, <1>2
  <2>2. Window * q >= Window * (m + 1)
    BY <1>1, <1>2, <1>3
  <2>3. Window * (m + 1) = Window * m + Window
    BY <1>1, <1>3
  <2>4. w * q \in Int /\ Window * q \in Int /\ Window * m \in Int
    BY <1>1, <1>2, <1>3
  <2> DEFINE a == w * q
             b == Window * q
             d == Window * m
             e == Window * (m + 1)
             r == MaxTime % Window
             t == s % w
  <2>5. /\ a \in Int /\ b \in Int /\ d \in Int /\ a >= b /\ b >= e /\ e = d + Window
        /\ r \in 0..(Window - 1) /\ t \in 0..(w - 1) /\ s = a + t /\ MaxTime = d + r
    BY <1>2, <1>3, <2>1, <2>2, <2>3, <2>4
  <2> HIDE DEF a, b, d, e, r, t
  <2>6. QED
    BY <1>1, <2>5
<1>6. R!Index = -1..m
  BY DEF R!Index, m
<1>7. q \in R!Index /\ q - 1 \in R!Index
  BY <1>2, <1>3, <1>5, <1>6
<1>8. w \in Nat \ {0} /\ s \in Nat
  BY <1>1
<1>9. R!Bucket(c) = <<w, q>> /\ R!Previous(c) = <<w, q - 1>>
  BY <1>4 DEF R!Bucket, R!Previous, w
<1>10. R!Bucket(c) \in R!Buckets /\ R!Previous(c) \in R!Buckets
  BY <1>1, <1>7, <1>9 DEF R!Buckets
<1>11. QED
  BY <1>2, <1>4, <1>8, <1>10 DEF w, s

(* Calls told apart by what they counted are no more than was counted. *)
LEMMA ToldApart ==
  ASSUME NEW S \in SUBSET Calls, NEW n \in Nat,
         \A d \in S : current[d] \in 1..n,
         \A d, e \in S : d # e => current[d] # current[e]
  PROVE  Cardinality(S) \in Nat /\ Cardinality(S) <= n
<1> DEFINE W == 1..n
           f == [d \in S |-> current[d]]
<1>1. IsFiniteSet(S) /\ Cardinality(S) \in Nat
  BY LimitsAssumption, FS_Subset, FS_CardinalityType
<1>2. IsFiniteSet(W) /\ Cardinality(W) = n
  BY FS_Interval
<1>3. f \in [S -> W]
  OBVIOUS
<1>4. \A d, e \in S : d # e => f[d] # f[e]
  OBVIOUS
<1> HIDE DEF W, f
<1>5. ~(n < Cardinality(S))
  BY <1>1, <1>2, <1>3, <1>4, FS_PigeonHole
<1>6. QED
  BY <1>1, <1>5

(* Every step keeps the types. *)
LEMMA LimiterTypes ==
  ASSUME R!TypeOK, R!Next
  PROVE  R!TypeOK'
<1>1. R!Widths' = R!Widths /\ R!Buckets' = R!Buckets
  <2>1. R!Widths' = R!Widths
    BY DEF R!Widths, R!MaxWiden
  <2>2. QED
    BY <2>1 DEF R!Buckets, R!Index
<1>2. ASSUME NEW c \in Calls, R!Begin(c) PROVE R!TypeOK'
  <2>1. R!PenaltyWindow \in R!Widths
    BY WidthsAre DEF R!TypeOK
  <2>2. QED
    BY <1>1, <1>2, <2>1 DEF R!Begin, R!Step, R!TypeOK, R!counters, R!history
<1>3. ASSUME NEW c \in Calls, R!Increment(c) PROVE R!TypeOK'
  <2>1. R!Bucket(c) \in R!Buckets /\ width[c] \in Nat
    BY BucketsAre
  <2>2. R!Live(R!Bucket(c)) \in Nat /\ now + R!Lifetime(width[c]) \in Nat
    BY <2>1 DEF R!Live, R!TypeOK, R!Lifetime
  <2>3. count' \in [R!Buckets -> Nat] /\ expires' \in [R!Buckets -> Nat] /\ current' \in [Calls -> Nat]
    BY <1>3, <2>1, <2>2 DEF R!Increment, R!TypeOK
  <2>4. late' \in BOOLEAN /\ pc' = [pc EXCEPT ![c] = "previous"]
    BY <1>3 DEF R!Increment, R!NoteLate, R!Step
  <2>5. QED
    BY <1>1, <1>3, <2>3, <2>4 DEF R!Increment, R!TypeOK
<1>4. ASSUME NEW c \in Calls, R!ReadPrevious(c) PROVE R!TypeOK'
  <2>1. Cardinality(R!Admitted(R!Previous(c))) \in Nat
    BY LimitsAssumption, FS_Subset, FS_CardinalityType DEF R!Admitted
  <2>2. before' \in [Calls -> Nat]
    BY <1>4, <2>1 DEF R!ReadPrevious, R!TypeOK, R!Cardinality, Cardinality
  <2>3. late' \in BOOLEAN
    BY <1>4 DEF R!ReadPrevious, R!NoteLate
  <2>4. \E to \in {"allowed", "violation", "denied"} : pc' = [pc EXCEPT ![c] = to]
    BY <1>4 DEF R!ReadPrevious, R!Step
  <2>5. QED
    BY <1>1, <1>4, <2>2, <2>3, <2>4 DEF R!ReadPrevious, R!TypeOK, R!counters
<1>5. ASSUME NEW c \in Calls, R!RecordViolation(c) PROVE R!TypeOK'
  BY <1>1, <1>5 DEF R!RecordViolation, R!Step, R!TypeOK, R!history
<1>6. ASSUME NEW c \in Calls, R!Degrade(c) PROVE R!TypeOK'
  BY <1>1, <1>6 DEF R!Degrade, R!TypeOK, R!counters, R!history
<1>7. ASSUME NEW c \in Calls, R!ResetBucket(c) PROVE R!TypeOK'
  <2>1. \E b : count' = [count EXCEPT ![b] = 0] /\ expires' = [expires EXCEPT ![b] = 0]
    BY <1>7 DEF R!ResetBucket
  <2>2. count' \in [R!Buckets -> Nat] /\ expires' \in [R!Buckets -> Nat]
    <3>1. PICK b : count' = [count EXCEPT ![b] = 0] /\ expires' = [expires EXCEPT ![b] = 0]
      BY <2>1
    <3>2. count \in [R!Buckets -> Nat] /\ expires \in [R!Buckets -> Nat] /\ 0 \in Nat
      BY DEF R!TypeOK
    <3> DEFINE S == R!Buckets
    <3>3. count \in [S -> Nat] /\ expires \in [S -> Nat]
      BY <3>2
    <3> HIDE DEF S
    <3>4. count' \in [S -> Nat] /\ expires' \in [S -> Nat]
      BY <3>1, <3>3
    <3>5. QED
      BY <3>4 DEF S
  <2>3. \E to \in {"clear", "forgive"} : pc' = [pc EXCEPT ![c] = to]
    BY <1>7 DEF R!ResetBucket, R!Step
  <2>4. stamp' \in [Calls -> 0..MaxTime]
    <3>1. now \in 0..MaxTime /\ stamp \in [Calls -> 0..MaxTime]
      BY DEF R!TypeOK
    <3>2. stamp' = [stamp EXCEPT ![c] = now] \/ stamp' = stamp
      BY <1>7 DEF R!ResetBucket
    <3>3. QED
      BY <3>1, <3>2
  <2>5. UNCHANGED <<adaptive, now, violations, width, current, before, late>> /\ disturbed' = TRUE
    BY <1>7 DEF R!ResetBucket
  <2>6. QED
    BY <1>1, <2>2, <2>3, <2>4, <2>5 DEF R!TypeOK
<1>8. ASSUME NEW c \in Calls, R!Forgive(c) PROVE R!TypeOK'
  BY <1>1, <1>8 DEF R!Forgive, R!Step, R!TypeOK, R!history
<1>9. ASSUME NEW b \in R!Buckets, R!Evict(b) PROVE R!TypeOK'
  BY <1>1, <1>9 DEF R!Evict, R!TypeOK, R!call
<1>10. CASE R!Tick
  BY <1>1, <1>10, LimitsAssumption DEF R!Tick, R!TypeOK, R!call, R!history
<1>11. QED
  BY <1>2, <1>3, <1>4, <1>5, <1>6, <1>7, <1>8, <1>9, <1>10 DEF R!Next, R!Request

(* While a call looks at its bucket in time, the bucket's counter has not    *)
(* ended, and nor has the one of the bucket before.                          *)
LEMMA CountersLive ==
  ASSUME R!TypeOK, CountsOK, NEW c \in Calls, now \div width[c] = R!Number(c)
  PROVE  /\ R!Live(R!Bucket(c)) = count[R!Bucket(c)]
         /\ R!Live(R!Previous(c)) = count[R!Previous(c)]
         /\ now < (R!Number(c) + 1) * width[c] /\ now >= R!Number(c) * width[c]
<1> DEFINE w == width[c]
           q == R!Number(c)
<1>1. w \in Nat \ {0} /\ q \in Nat /\ now \in Nat /\ now \div w = q
      /\ R!Bucket(c) \in R!Buckets /\ R!Previous(c) \in R!Buckets
  BY BucketsAre DEF R!TypeOK
<1>2. R!Bucket(c)[1] = w /\ R!Bucket(c)[2] = q /\ R!Previous(c)[1] = w /\ R!Previous(c)[2] = q - 1
  BY DEF R!Bucket, R!Previous
<1> HIDE DEF w, q
<1>3. now = w * q + (now % w) /\ now % w \in 0..(w - 1)
  BY <1>1
<1>4. (q + 1) * w = w * q + w /\ (q + 2) * w = w * q + 2 * w /\ (q - 1 + 2) * w = w * q + w
      /\ q * w = w * q /\ w * q \in Int
  BY <1>1
<1> DEFINE a == w * q
           r == now % w
<1>5. now < (q + 1) * w /\ now < (q + 2) * w /\ now < (q - 1 + 2) * w /\ now >= q * w
  <2>1. a \in Int /\ r \in 0..(w - 1) /\ now = a + r
    BY <1>3, <1>4
  <2> HIDE DEF a, r
  <2>2. (q + 1) * w = a + w /\ (q + 2) * w = a + 2 * w /\ (q - 1 + 2) * w = a + w /\ q * w = a
    BY <1>4 DEF a
  <2>3. QED
    BY <1>1, <2>1, <2>2
<1>6. ASSUME NEW b \in R!Buckets, now < (b[2] + 2) * b[1] PROVE R!Live(b) = count[b]
  <2>1. IF count[b] = 0 THEN expires[b] = 0 ELSE expires[b] >= (b[2] + 2) * b[1]
    BY DEF CountsOK
  <2>2. expires[b] \in Nat /\ count[b] \in Nat
    BY DEF R!TypeOK
  <2>3. CASE count[b] = 0
    BY <2>3 DEF R!Live
  <2>4. CASE count[b] # 0
    <3> DEFINE z == (b[2] + 2) * b[1]
    <3>1. z \in Int
      <4>1. b[1] \in Nat /\ b[2] \in Int
        BY WidthsAre DEF R!Buckets, R!Index
      <4>2. QED
        BY <4>1
    <3>2. expires[b] >= z /\ now < z
      BY <1>6, <2>1, <2>4
    <3> HIDE DEF z
    <3>3. now < expires[b]
      BY <1>1, <2>2, <3>1, <3>2
    <3>4. QED
      BY <3>3 DEF R!Live
  <2>5. QED
    BY <2>3, <2>4
<1>7. now < (R!Bucket(c)[2] + 2) * R!Bucket(c)[1] /\ now < (R!Previous(c)[2] + 2) * R!Previous(c)[1]
  BY <1>2, <1>5
<1>8. R!Live(R!Bucket(c)) = count[R!Bucket(c)] /\ R!Live(R!Previous(c)) = count[R!Previous(c)]
  BY <1>1, <1>6, <1>7
<1>9. QED
  BY <1>5, <1>8 DEF w, q

(* A step that counts nothing and admits nobody keeps what was counted. *)
LEMMA CountsStay ==
  ASSUME CountsOK, SharesOK, UNCHANGED <<count, expires>>,
         \A d \in Calls : Counted(d)' =>
           /\ Counted(d) /\ (pc'[d] = "allowed" => pc[d] = "allowed")
           /\ width'[d] = width[d] /\ stamp'[d] = stamp[d]
           /\ current'[d] = current[d] /\ before'[d] = before[d]
  PROVE  CountsOK' /\ SharesOK'
<1>1. R!Buckets' = R!Buckets
  <2>1. R!Widths' = R!Widths
    BY DEF R!Widths, R!MaxWiden
  <2>2. QED
    BY <2>1 DEF R!Buckets, R!Index
<1>2. \A d \in Calls : Counted(d)' => R!Bucket(d)' = R!Bucket(d)
  BY DEF R!Bucket, R!Number
<1>3. \A b \in R!Buckets' :
        IF count'[b] = 0 THEN expires'[b] = 0 ELSE expires'[b] >= (b[2] + 2) * b[1]
  BY <1>1 DEF CountsOK
<1>4. \A d \in Calls : Counted(d)' => current'[d] \in 1..count'[R!Bucket(d)']
  BY <1>2 DEF CountsOK
<1>5. \A d, e \in Calls :
        Counted(d)' /\ Counted(e)' /\ R!Bucket(d)' = R!Bucket(e)' /\ d # e => current'[d] # current'[e]
  BY <1>2 DEF CountsOK
<1>6. CountsOK'
  BY <1>3, <1>4, <1>5 DEF CountsOK
<1>7. SharesOK'
  BY DEF SharesOK, Counted
<1>8. QED
  BY <1>6, <1>7

(* An increment in time counts one more, and sees that the counter lives    *)
(* for the next bucket to weigh it.                                         *)
LEMMA IncrementCounts ==
  ASSUME R!TypeOK, CountsOK, SharesOK, NEW c \in Calls, R!Increment(c), ~late'
  PROVE  CountsOK' /\ SharesOK'
<1> DEFINE b == R!Bucket(c)
           n == count[b]
           w == width[c]
           q == R!Number(c)
<1>1. ~late /\ now \div w = q
  BY DEF R!Increment, R!NoteLate
<1>2. /\ b \in R!Buckets /\ n \in Nat /\ w \in Nat \ {0} /\ q \in Nat /\ now \in Nat
      /\ count \in [R!Buckets -> Nat] /\ expires \in [R!Buckets -> Nat]
      /\ current \in [Calls -> Nat]
  BY BucketsAre DEF R!TypeOK
<1>3. R!Live(b) = n /\ now >= q * w
  BY <1>1, CountersLive
<1>4. R!Buckets' = R!Buckets
  <2>1. R!Widths' = R!Widths
    BY DEF R!Widths, R!MaxWiden
  <2>2. QED
    BY <2>1 DEF R!Buckets, R!Index
<1>5. /\ count' = [count EXCEPT ![b] = n + 1]
      /\ expires' = [expires EXCEPT ![b] = IF now < expires[b] THEN expires[b] ELSE now + 2 * w]
      /\ current' = [current EXCEPT ![c] = n + 1]
      /\ pc[c] = "hit" /\ pc' = [pc EXCEPT ![c] = "previous"]
      /\ UNCHANGED <<width, stamp, before>>
  BY <1>3 DEF R!Increment, R!Lifetime, R!Step
<1>6. \A d \in Calls : R!Bucket(d)' = R!Bucket(d) /\ R!Bucket(d) \in R!Buckets
  BY <1>5, BucketsAre DEF R!Bucket, R!Number
<1>7. \A d \in Calls : d # c => /\ Counted(d)' <=> Counted(d)
                                /\ pc'[d] = pc[d] /\ current'[d] = current[d]
  BY <1>2, <1>5 DEF Counted, R!TypeOK
<1>8. current'[c] = n + 1 /\ pc'[c] = "previous" /\ ~Counted(c)
  BY <1>2, <1>5 DEF Counted, R!TypeOK
<1>9. b[1] = w /\ b[2] = q
  BY DEF R!Bucket
<1>10. IF n = 0 THEN expires[b] = 0 ELSE expires[b] >= (q + 2) * w
  BY <1>2, <1>9 DEF CountsOK
<1>11. ASSUME NEW a \in R!Buckets
       PROVE  IF count'[a] = 0 THEN expires'[a] = 0 ELSE expires'[a] >= (a[2] + 2) * a[1]
  <2>1. CASE a # b
    BY <1>2, <1>5, <2>1 DEF CountsOK
  <2>2. CASE a = b
    <3>1. count'[b] = n + 1
          /\ expires'[b] = IF now < expires[b] THEN expires[b] ELSE now + 2 * w
      BY <1>2, <1>5
    <3> HIDE DEF b, n, w, q
    <3>2. (q + 2) * w = q * w + 2 * w /\ q * w \in Int /\ expires[b] \in Nat
      BY <1>2
    <3> DEFINE z == q * w
               e == expires[b]
    <3>3. now >= z /\ (q + 2) * w = z + 2 * w /\ z \in Int /\ e \in Nat
          /\ expires'[b] = (IF now < e THEN e ELSE now + 2 * w)
          /\ (n # 0 => e >= z + 2 * w) /\ (n = 0 => e = 0)
      BY <1>3, <1>10, <3>1, <3>2
    <3> HIDE DEF z, e
    <3>4. expires'[b] >= z + 2 * w
      BY <1>2, <3>3
    <3>5. expires'[b] >= (a[2] + 2) * a[1]
      BY <1>9, <2>2, <3>3, <3>4
    <3>6. count'[a] # 0
      BY <1>2, <2>2, <3>1
    <3>7. QED
      BY <2>2, <3>5, <3>6
  <2>3. QED
    BY <2>1, <2>2
<1>12. ASSUME NEW d \in Calls, Counted(d)' PROVE current'[d] \in 1..count'[R!Bucket(d)]
  <2>1. CASE d = c
    BY <1>2, <1>5, <1>8, <2>1
  <2>2. CASE d # c
    <3>1. current[d] \in 1..count[R!Bucket(d)]
      BY <1>7, <1>12, <2>2 DEF CountsOK
    <3>2. count[R!Bucket(d)] \in Nat /\ count'[R!Bucket(d)] \in Nat
          /\ count'[R!Bucket(d)] >= count[R!Bucket(d)]
      BY <1>2, <1>5, <1>6
    <3>3. QED
      BY <1>7, <2>2, <3>1, <3>2
  <2>3. QED
    BY <2>1, <2>2
<1>13. ASSUME NEW d \in Calls, NEW e \in Calls, Counted(d)', Counted(e)',
              R!Bucket(d) = R!Bucket(e), d # e
       PROVE  current'[d] # current'[e]
  <2>1. \A x \in Calls : x # c /\ Counted(x)' /\ R!Bucket(x) = b => current'[x] \in 1..n
    BY <1>7 DEF CountsOK
  <2>2. CASE d # c /\ e # c
    BY <1>7, <1>13, <2>2 DEF CountsOK
  <2>3. CASE d = c \/ e = c
    <3> HIDE DEF n
    <3>1. QED
      BY <1>2, <1>8, <1>13, <2>1, <2>3
  <2>4. QED
    BY <2>2, <2>3
<1>14. CountsOK'
  BY <1>4, <1>6, <1>11, <1>12, <1>13 DEF CountsOK
<1>15. SharesOK'
  <2>1. ASSUME NEW d \in Calls, pc'[d] = "allowed"
        PROVE  d # c /\ pc[d] = "allowed" /\ current'[d] = current[d]
    BY <1>7, <1>8, <2>1
  <2>2. QED
    BY <1>5, <2>1 DEF SharesOK
<1>16. QED
  BY <1>14, <1>15

(* The verdict: what is left of the limit covers the calls before.          *)
LEMMA VerdictShares ==
  ASSUME R!TypeOK, CountsOK, SharesOK, NEW c \in Calls, R!ReadPrevious(c), ~late'
  PROVE  CountsOK' /\ SharesOK'
<1> DEFINE w == width[c]
           r == stamp[c] % width[c]
           n == current[c]
           p == count[R!Previous(c)]
           S == R!Admitted(R!Previous(c))
           k == Cardinality(S)
<1>1. ~late /\ now \div width[c] = R!Number(c)
  BY DEF R!ReadPrevious, R!NoteLate
<1>2. /\ w \in Nat \ {0} /\ r \in 0..(w - 1) /\ n \in Nat /\ p \in Nat /\ Limit \in Nat
      /\ before \in [Calls -> Nat] /\ R!Previous(c) \in R!Buckets
  BY BucketsAre, LimitsAssumption DEF R!TypeOK
<1>3. R!Live(R!Previous(c)) = p
  BY <1>1, CountersLive
<1>4. /\ pc[c] = "previous" /\ UNCHANGED <<count, expires, width, stamp, current>>
      /\ before' = [before EXCEPT ![c] = k]
      /\ \E to \in {"allowed", "violation", "denied"} : pc' = [pc EXCEPT ![c] = to]
      /\ pc' = [pc EXCEPT ![c] = "allowed"] => R!Estimate(c) <= Limit
  <2>1. pc[c] = "previous" /\ UNCHANGED <<count, expires, width, stamp, current>>
    BY DEF R!ReadPrevious, R!Step, R!counters
  <2>2. before' = [before EXCEPT ![c] = k]
    BY DEF R!ReadPrevious, R!Cardinality, Cardinality
  <2>3. pc' = [pc EXCEPT ![c] = IF R!Estimate(c) <= Limit THEN "allowed"
                                ELSE IF adaptive THEN "violation" ELSE "denied"]
    BY DEF R!ReadPrevious, R!Step
  <2>4. \E to \in {"allowed", "violation", "denied"} : pc' = [pc EXCEPT ![c] = to]
    BY <2>3
  <2>5. ASSUME pc' = [pc EXCEPT ![c] = "allowed"] PROVE R!Estimate(c) <= Limit
    <3>1. pc'[c] = "allowed"
      BY <2>5 DEF R!TypeOK
    <3>2. pc'[c] = IF R!Estimate(c) <= Limit THEN "allowed"
                   ELSE IF adaptive THEN "violation" ELSE "denied"
      BY <2>3 DEF R!TypeOK
    <3>3. QED
      BY <3>1, <3>2
  <2>6. QED
    BY <2>1, <2>2, <2>4, <2>5
<1>5. \A d \in Calls : d # c => pc'[d] = pc[d] /\ before'[d] = before[d]
  BY <1>2, <1>4 DEF R!TypeOK
<1>6. k \in Nat /\ k <= p /\ k <= Limit
  <2>1. S \in SUBSET Calls /\ \A d \in S : pc[d] = "allowed" /\ R!Bucket(d) = R!Previous(c)
    BY DEF R!Admitted
  <2>2. \A d, e \in S : d # e => current[d] # current[e]
    BY <2>1 DEF CountsOK, Counted
  <2>3. \A d \in S : current[d] \in 1..p
    BY <2>1 DEF CountsOK, Counted
  <2>4. \A d \in S : current[d] \in 1..Limit
    BY <1>2, <2>1, <2>3 DEF SharesOK
  <2> HIDE DEF S, p
  <2>5. k \in Nat /\ k <= p
    BY <1>2, <2>1, <2>2, <2>3, ToldApart
  <2>6. k <= Limit
    BY <1>2, <2>1, <2>2, <2>4, ToldApart
  <2>7. QED
    BY <2>5, <2>6
<1>7. ASSUME pc'[c] = "allowed"
      PROVE  n <= Limit /\ 2 * w * (k + n) <= 2 * Limit * w + 2 * Limit * r + w
  <2>1. (2 * p * (w - r) + 2 * n * w + w) \div (2 * w) <= Limit
    <3>1. R!Estimate(c) <= Limit
      <4>1. pc' = [pc EXCEPT ![c] = "allowed"]
        BY <1>4, <1>7 DEF R!TypeOK
      <4>2. QED
        BY <1>4, <4>1
    <3>2. QED
      BY <1>3, <3>1 DEF R!Estimate
  <2> HIDE DEF w, r, n, p, k
  <2> DEFINE a == 2 * p * (w - r) + 2 * n * w + w
             h == 2 * w
             u == a \div h
  <2>2. a \in Nat /\ h \in Nat \ {0}
    <3>1. p * (w - r) \in Nat /\ n * w \in Nat
      BY <1>2
    <3>2. QED
      BY <1>2, <3>1
  <2>3. u <= Limit
    BY <2>1
  <2>4. a < h * (Limit + 1)
    <3> HIDE DEF a, h
    <3>1. a = h * u + (a % h) /\ a % h \in 0..(h - 1) /\ u \in Nat
      BY <2>2
    <3> HIDE DEF u
    <3>2. h * u <= h * Limit /\ h * u \in Int /\ h * Limit \in Int /\ h * (Limit + 1) = h * Limit + h
      BY <1>2, <2>2, <2>3, <3>1
    <3> DEFINE hu == h * u
               hl == h * Limit
               m == a % h
    <3>3. a = hu + m /\ m \in 0..(h - 1) /\ hu <= hl /\ hu \in Int /\ hl \in Int
          /\ h * (Limit + 1) = hl + h
      BY <3>1, <3>2
    <3> HIDE DEF hu, hl, m
    <3>4. QED
      BY <2>2, <3>3
  <2> DEFINE pl == p * (w - r)
             nw == n * w
             lw == Limit * w
             kl == k * (w - r)
             kr == k * r
             lr == Limit * r
  <2>5. a = 2 * pl + 2 * nw + w /\ h * (Limit + 1) = 2 * lw + 2 * w
    BY <1>2 DEF a, h
  <2>6. pl \in Nat /\ nw \in Nat /\ lw \in Nat /\ kl \in Nat /\ kr \in Nat /\ lr \in Nat
    BY <1>2, <1>6
  <2>7. kl <= pl
    BY <1>2, <1>6
  <2>8. kr <= lr
    BY <1>2, <1>6
  <2>9. k * w = kl + kr
    <3>1. k * w = k * (w - r) + k * r
      BY <1>2, <1>6
    <3>2. QED
      BY <3>1
  <2>10. 2 * w * (k + n) = 2 * (k * w) + 2 * nw /\ 2 * Limit * w = 2 * lw /\ 2 * Limit * r = 2 * lr
    BY <1>2, <1>6
  <2>11. n <= Limit
    <3> SUFFICES ASSUME n >= Limit + 1 PROVE FALSE
      BY <1>2
    <3>1. nw >= (Limit + 1) * w
      BY <1>2
    <3>2. (Limit + 1) * w = lw + w
      BY <1>2
    <3> HIDE DEF a, h, u, pl, nw, lw, kl, kr, lr
    <3>3. QED
      BY <1>2, <2>4, <2>5, <2>6, <3>1, <3>2
  <2>12. 2 * w * (k + n) <= 2 * Limit * w + 2 * Limit * r + w
    <3>1. k * w \in Int
      BY <1>2, <1>6
    <3> DEFINE kw == k * w
               x == 2 * w * (k + n)
               y == 2 * Limit * w
               z == 2 * Limit * r
    <3>2. kw \in Int /\ x = 2 * kw + 2 * nw /\ y = 2 * lw /\ z = 2 * lr /\ kw = kl + kr
      BY <2>9, <2>10, <3>1
    <3> HIDE DEF a, h, u, pl, nw, lw, kl, kr, lr, kw, x, y, z
    <3>3. x <= y + z + w
      BY <1>2, <2>4, <2>5, <2>6, <2>7, <2>8, <3>2
    <3>4. QED
      BY <3>3 DEF x, y, z
  <2>13. QED
    BY <2>11, <2>12
<1>8. CountsOK'
  <2>1. R!Buckets' = R!Buckets
    <3>1. R!Widths' = R!Widths
      BY DEF R!Widths, R!MaxWiden
    <3>2. QED
      BY <3>1 DEF R!Buckets, R!Index
  <2>2. \A d \in Calls : /\ R!Bucket(d)' = R!Bucket(d)
                         /\ Counted(d)' => Counted(d)
    <3>1. \A d \in Calls : R!Bucket(d)' = R!Bucket(d)
      BY <1>4 DEF R!Bucket, R!Number
    <3>2. \A d \in Calls : Counted(d)' => Counted(d)
      BY <1>4, <1>5 DEF Counted
    <3>3. QED
      BY <3>1, <3>2
  <2>3. \A b \in R!Buckets' :
          IF count'[b] = 0 THEN expires'[b] = 0 ELSE expires'[b] >= (b[2] + 2) * b[1]
    BY <1>4, <2>1 DEF CountsOK
  <2>4. \A d \in Calls : Counted(d)' => current'[d] \in 1..count'[R!Bucket(d)']
    BY <1>4, <2>2 DEF CountsOK
  <2>5. \A d, e \in Calls : Counted(d)' /\ Counted(e)' /\ R!Bucket(d)' = R!Bucket(e)' /\ d # e
                              => current'[d] # current'[e]
    BY <1>4, <2>2 DEF CountsOK
  <2>6. QED
    BY <2>3, <2>4, <2>5 DEF CountsOK
<1>9. SharesOK'
  <2>1. before'[c] = k
    BY <1>2, <1>4
  <2>2. ASSUME NEW d \in Calls, pc'[d] = "allowed"
        PROVE  /\ current[d] <= Limit
               /\ 2 * width[d] * (before'[d] + current[d])
                    <= 2 * Limit * width[d] + 2 * Limit * (stamp[d] % width[d]) + width[d]
    <3>1. CASE d = c
      <4> HIDE DEF k
      <4>1. QED
        BY <1>7, <2>1, <2>2, <3>1
    <3>2. CASE d # c
      BY <1>5, <2>2, <3>2 DEF SharesOK
    <3>3. QED
      BY <3>1, <3>2
  <2>3. QED
    BY <1>4, <2>2 DEF SharesOK
<1>10. QED
  BY <1>8, <1>9

(* Nothing is counted at first. *)
LEMMA LimiterStart == R!Init => LimiterInv
<1> SUFFICES ASSUME R!Init PROVE LimiterInv
  OBVIOUS
<1>1. R!TypeOK
  <2>1. Window \in R!Widths
    BY WidthsAre
  <2>2. 0 \in Nat /\ 0 \in 0..MaxTime
    BY LimitsAssumption
  <2>3. /\ width \in [Calls -> R!Widths] /\ stamp \in [Calls -> 0..MaxTime]
        /\ current \in [Calls -> Nat] /\ before \in [Calls -> Nat]
    BY <2>1, <2>2 DEF R!Init
  <2>4. count \in [R!Buckets -> Nat] /\ expires \in [R!Buckets -> Nat]
    BY <2>2 DEF R!Init
  <2>5. /\ adaptive \in BOOLEAN /\ now \in 0..MaxTime /\ violations \in Nat
        /\ late \in BOOLEAN /\ disturbed \in BOOLEAN
    BY <2>2 DEF R!Init
  <2>6. pc = [c \in Calls |-> "idle"]
    BY DEF R!Init
  <2>7. QED
    BY <2>3, <2>4, <2>5, <2>6 DEF R!TypeOK
<1>2. CountsOK /\ SharesOK
  BY DEF R!Init, CountsOK, SharesOK, Counted
<1>3. QED
  BY <1>1, <1>2 DEF LimiterInv

(* Every step of a call, the clock and the cache keeps the invariant. *)
LEMMA LimiterStep ==
  ASSUME LimiterInv, R!Next
  PROVE  LimiterInv'
<1>1. R!TypeOK /\ R!TypeOK' /\ pc \in [Calls -> {"idle", "hit", "previous", "violation", "clear",
                                                 "forgive", "allowed", "denied", "degraded", "done"}]
      /\ width \in [Calls -> R!Widths] /\ stamp \in [Calls -> 0..MaxTime]
  BY LimiterTypes DEF LimiterInv, R!TypeOK
<1> SUFFICES ASSUME ~late', ~disturbed' PROVE CountsOK' /\ SharesOK'
  BY <1>1 DEF LimiterInv
<1>2. ASSUME NEW c \in Calls, R!Begin(c) PROVE CountsOK' /\ SharesOK'
  <2>1. UNCHANGED <<late, disturbed, count, expires, current, before>>
    BY <1>2 DEF R!Begin, R!counters, R!history
  <2>2. /\ pc' = [pc EXCEPT ![c] = "hit"] /\ width' = [width EXCEPT ![c] = R!PenaltyWindow]
        /\ stamp' = [stamp EXCEPT ![c] = now]
    BY <1>2 DEF R!Begin, R!Step
  <2>3. \A d \in Calls : Counted(d)' => /\ Counted(d) /\ pc'[d] = pc[d]
                                        /\ width'[d] = width[d] /\ stamp'[d] = stamp[d]
    BY <1>1, <2>2 DEF Counted
  <2>4. QED
    BY <2>1, <2>3, CountsStay DEF LimiterInv
<1>3. ASSUME NEW c \in Calls, R!Increment(c) PROVE CountsOK' /\ SharesOK'
  <2>1. ~late /\ ~disturbed
    BY <1>3 DEF R!Increment, R!NoteLate
  <2>2. QED
    BY <1>1, <1>3, <2>1, IncrementCounts DEF LimiterInv
<1>4. ASSUME NEW c \in Calls, R!ReadPrevious(c) PROVE CountsOK' /\ SharesOK'
  <2>1. ~late /\ ~disturbed
    BY <1>4 DEF R!ReadPrevious, R!NoteLate
  <2>2. QED
    BY <1>1, <1>4, <2>1, VerdictShares DEF LimiterInv
<1>5. ASSUME NEW c \in Calls, R!RecordViolation(c) \/ R!Degrade(c) \/ R!Forgive(c)
      PROVE  CountsOK' /\ SharesOK'
  <2>1. UNCHANGED <<late, disturbed, count, expires, width, stamp, current, before>>
    BY <1>5 DEF R!RecordViolation, R!Degrade, R!Forgive, R!counters, R!history
  <2>2. \E to \in {"denied", "degraded", "done"} : pc' = [pc EXCEPT ![c] = to]
    BY <1>5 DEF R!RecordViolation, R!Degrade, R!Forgive, R!Step
  <2>3. \A d \in Calls : Counted(d)' => Counted(d) /\ pc'[d] = pc[d]
    BY <1>1, <2>2 DEF Counted
  <2>4. QED
    BY <2>1, <2>3, CountsStay DEF LimiterInv
<1>6. ASSUME NEW c \in Calls, R!ResetBucket(c) PROVE FALSE
  BY <1>6 DEF R!ResetBucket
<1>7. ASSUME NEW b \in R!Buckets, R!Evict(b) PROVE FALSE
  BY <1>7 DEF R!Evict
<1>8. CASE R!Tick
  <2>1. UNCHANGED <<late, disturbed, count, expires, pc, width, stamp, current, before>>
    BY <1>8 DEF R!Tick, R!call, R!history
  <2>2. QED
    BY <2>1, CountsStay DEF LimiterInv, Counted
<1>9. QED
  BY <1>2, <1>3, <1>4, <1>5, <1>6, <1>7, <1>8 DEF R!Next, R!Request

(* What is left alone keeps the invariant. *)
LEMMA LimiterRest ==
  ASSUME LimiterInv, UNCHANGED <<ofCalls, ofLimiter>>
  PROVE  LimiterInv'
<1>1. UNCHANGED <<pc, now, stamp, adaptive, count, expires, violations, width, current, before,
                  late, disturbed>>
  BY DEF ofCalls, ofLimiter
<1>2. R!TypeOK'
  <2>1. R!Widths' = R!Widths
    BY DEF R!Widths, R!MaxWiden
  <2>2. R!Buckets' = R!Buckets
    BY <2>1 DEF R!Buckets, R!Index
  <2>3. QED
    BY <1>1, <2>1, <2>2 DEF LimiterInv, R!TypeOK
<1>3. ASSUME ~late', ~disturbed' PROVE CountsOK' /\ SharesOK'
  BY <1>1, <1>3, CountsStay DEF LimiterInv, Counted
<1>4. QED
  BY <1>2, <1>3 DEF LimiterInv

(* There is no boundary burst: those that were admitted in a bucket up to a *)
(* call are no more than it counted.                                        *)
LEMMA LimiterHasNoBurst == LimiterInv => R!NoBoundaryBurst
<1> SUFFICES ASSUME LimiterInv, NEW c \in Calls, pc[c] = "allowed", ~late, ~disturbed
             PROVE  2 * width[c] * (before[c] + Cardinality({d \in R!Admitted(R!Bucket(c)) :
                                                               current[d] <= current[c]}))
                      <= 2 * Limit * width[c] + 2 * Limit * (stamp[c] % width[c]) + width[c]
  BY DEF R!NoBoundaryBurst, R!Cardinality, Cardinality
<1> DEFINE S == {d \in R!Admitted(R!Bucket(c)) : current[d] <= current[c]}
           k == Cardinality(S)
           w == width[c]
           n == current[c]
           b == before[c]
           right == 2 * Limit * width[c] + 2 * Limit * (stamp[c] % width[c]) + width[c]
<1>1. R!TypeOK /\ CountsOK /\ SharesOK
  BY DEF LimiterInv
<1>2. w \in Nat \ {0} /\ n \in Nat /\ b \in Nat /\ stamp[c] % w \in 0..(w - 1) /\ Limit \in Nat
  BY <1>1, BucketsAre, LimitsAssumption DEF R!TypeOK
<1>3. 2 * w * (b + n) <= right
  BY <1>1 DEF SharesOK
<1>4. right \in Int
  BY <1>2
<1>5. k \in Nat /\ k <= n
  <2>1. S \in SUBSET Calls
        /\ \A d \in S : pc[d] = "allowed" /\ R!Bucket(d) = R!Bucket(c) /\ current[d] <= n
    BY DEF R!Admitted
  <2>2. \A d, e \in S : d # e => current[d] # current[e]
    BY <1>1, <2>1 DEF CountsOK, Counted
  <2>3. \A d \in S : current[d] \in 1..n
    <3>1. ASSUME NEW d \in S PROVE current[d] \in 1..n
      <4>1. current[d] \in 1..count[R!Bucket(d)] /\ current[d] <= n
        BY <1>1, <2>1 DEF CountsOK, Counted
      <4>2. QED
        BY <1>2, <4>1
    <3>2. QED
      BY <3>1
  <2> HIDE DEF S
  <2>4. QED
    BY <1>2, <2>1, <2>2, <2>3, ToldApart
<1> HIDE DEF S, k, w, n, b, right
<1>6. 2 * w * (b + k) <= 2 * w * (b + n) /\ 2 * w * (b + k) \in Int /\ 2 * w * (b + n) \in Int
  BY <1>2, <1>5
<1>7. 2 * w * (b + k) <= right
  <2> DEFINE x == 2 * w * (b + k)
             y == 2 * w * (b + n)
  <2>1. x \in Int /\ y \in Int /\ x <= y /\ y <= right
    BY <1>3, <1>6
  <2> HIDE DEF x, y
  <2>2. x <= right
    BY <1>4, <2>1
  <2>3. QED
    BY <2>2 DEF x
<1>8. QED
  BY <1>7 DEF S, k, w, n, b, right

-----------------------------------------------------------------------------
(* MemoryCache *)

(* How many of the places are up to i. *)
Rank(places, i) == Cardinality({j \in places : j <= i})

(* The places in their order, and what is kept of a map at them. *)
KeptAt(place, map, places) ==
  /\ place \in [1..Cardinality(places) -> places]
  /\ \A m, n \in 1..Cardinality(places) : m < n => place[m] < place[n]
  /\ \A i \in places : \E n \in 1..Cardinality(places) : place[n] = i
  /\ M!Kept(map, places) = [n \in 1..Cardinality(places) |-> map[place[n]]]

(* The places of a map that are kept stay in order, and none is lost.       *)
LEMMA KeptIs ==
  ASSUME NEW map, NEW len \in Nat, NEW places \in SUBSET (1..len)
  PROVE  Cardinality(places) \in Nat /\ \E place : KeptAt(place, map, places)
<1> DEFINE size == Cardinality(places)
<1>1. IsFiniteSet(places) /\ size \in Nat
  <2>1. IsFiniteSet(1..len)
    BY FS_Interval
  <2>2. QED
    BY <2>1, FS_Subset, FS_CardinalityType
<1>2. ASSUME NEW i \in places PROVE Rank(places, i) \in 1..size
  <2> DEFINE W == {j \in places : j <= i}
  <2>1. i \in W
    OBVIOUS
  <2>2. IsFiniteSet(W) /\ Cardinality(W) <= size
    BY <1>1, FS_Subset
  <2>3. Cardinality(W) \in Nat /\ Cardinality(W) # 0
    BY <2>1, <2>2, FS_CardinalityType, FS_EmptySet
  <2>4. QED
    BY <1>1, <2>2, <2>3 DEF Rank
<1>3. ASSUME NEW i \in places, NEW j \in places, i < j PROVE Rank(places, i) < Rank(places, j)
  <2> DEFINE W == {x \in places : x <= i}
             U == {x \in places : x <= j}
  <2>1. W \subseteq U /\ j \in U /\ j \notin W /\ W # U
    <3>1. i \in Int /\ j \in Int /\ \A x \in places : x \in Int
      OBVIOUS
    <3>2. \A x \in places : x <= i => x <= j
      BY <1>3, <3>1
    <3>3. ~(j <= i) /\ j <= j
      BY <1>3, <3>1
    <3>4. j \in U /\ j \notin W
      BY <3>3
    <3>5. QED
      BY <3>2, <3>4
  <2>2. IsFiniteSet(U)
    BY <1>1, FS_Subset
  <2>3. Cardinality(W) \in Nat /\ Cardinality(U) \in Nat /\ Cardinality(W) <= Cardinality(U)
        /\ Cardinality(W) # Cardinality(U)
    <3> HIDE DEF W, U
    <3>1. QED
      BY <2>1, <2>2, FS_Subset, FS_CardinalityType
  <2>4. QED
    BY <2>3 DEF Rank
<1>4. ASSUME NEW i \in places, NEW j \in places, Rank(places, i) = Rank(places, j) PROVE i = j
  <2>1. i \in Int /\ j \in Int
    OBVIOUS
  <2>2. Rank(places, i) \in Int /\ ~(i < j) /\ ~(j < i)
    BY <1>2, <1>3, <1>4
  <2>3. QED
    BY <2>1, <2>2
<1> DEFINE place == [n \in 1..size |-> CHOOSE i \in places : Rank(places, i) = n]
<1>5. \A n \in 1..size : \E i \in places : Rank(places, i) = n
  <2> DEFINE f == [i \in places |-> Rank(places, i)]
  <2>1. f \in Injection(places, 1..size)
    BY <1>2, <1>4 DEF Injection, IsInjective
  <2>2. IsFiniteSet(1..size) /\ Cardinality(1..size) = size
    BY <1>1, FS_Interval
  <2> HIDE DEF f
  <2>3. f \in Surjection(places, 1..size)
    BY <2>1, <2>2, FS_Injection
  <2>4. \A n \in 1..size : \E i \in places : f[i] = n
    BY <2>3 DEF Surjection
  <2>5. QED
    BY <2>4 DEF f
<1>6. \A n \in 1..size : place[n] \in places /\ Rank(places, place[n]) = n
  BY <1>5
<1>7. place \in [1..size -> places]
  BY <1>6
<1>8. M!Kept(map, places) = [n \in 1..size |-> map[place[n]]]
  BY DEF M!Kept, Rank, M!Cardinality, Cardinality
<1> HIDE DEF place, size
<1>9. \A m, n \in 1..size : m < n => place[m] < place[n]
  <2> SUFFICES ASSUME NEW m \in 1..size, NEW n \in 1..size, m < n, ~(place[m] < place[n]) PROVE FALSE
    OBVIOUS
  <2>1. place[m] \in places /\ place[n] \in places /\ place[m] \in Int /\ place[n] \in Int
    <3>1. place[m] \in places /\ place[n] \in places
      BY <1>6
    <3>2. \A i \in places : i \in Int
      OBVIOUS
    <3>3. QED
      BY <3>1, <3>2
  <2>2. place[n] = place[m] \/ place[n] < place[m]
    BY <2>1
  <2>3. Rank(places, place[m]) = m /\ Rank(places, place[n]) = n /\ m \in Int /\ n \in Int
    BY <1>6
  <2>4. n = m \/ n < m
    BY <1>3, <2>1, <2>2, <2>3
  <2>5. QED
    BY <2>3, <2>4
<1>10. \A i \in places : \E n \in 1..size : place[n] = i
  BY <1>2, <1>4, <1>6
<1>11. QED
  BY <1>1, <1>7, <1>8, <1>9, <1>10 DEF size, KeptAt

Entries == [key: Calls, value: M!Values, left: M!Ttls]

(* No key is twice in a map, each entry is what a cache without a bound      *)
(* would hold, and a key that nobody incremented in its place comes before  *)
(* the keys that were used since.                                           *)
Fits(map, all, since, inPlace) ==
  /\ map \in Seq(Entries)
  /\ \A i, j \in DOMAIN map : i < j => map[i].key # map[j].key
  /\ \A i, j \in DOMAIN map : i < j /\ map[i].key \notin inPlace => map[j].key \in since[map[i].key]
  /\ \A i \in DOMAIN map :
       all[map[i].key] = IF map[i].left = 0 THEN M!Nothing
                         ELSE [value |-> map[i].value, left |-> map[i].left]

(* The keys used last, as many as the cache has entries, are in the map, but *)
(* for those that ended or were deleted.                                     *)
Reaches(map, all, since, inPlace) ==
  \A k \in Calls :
    all[k] # M!Nothing /\ k \notin inPlace /\ Cardinality(since[k]) < MaxEntries =>
      \E i \in DOMAIN map : map[i].key = k

HistoryOK(all, since, inPlace) ==
  /\ DOMAIN all = Calls
  /\ since \in [Calls -> SUBSET Calls] /\ inPlace \in SUBSET Calls

CacheInv ==
  /\ HistoryOK(truth, newer, counted)
  /\ Fits(entries, truth, newer, counted)
  /\ Reaches(entries, truth, newer, counted)

(* A map that loses places loses nothing else. *)
LEMMA KeptFits ==
  ASSUME NEW all, NEW since, NEW inPlace, NEW map, Fits(map, all, since, inPlace),
         NEW places \in SUBSET DOMAIN map
  PROVE  /\ Fits(M!Kept(map, places), all, since, inPlace)
         /\ Len(M!Kept(map, places)) = Cardinality(places) /\ Cardinality(places) \in Nat
         /\ \A i \in places : \E n \in DOMAIN M!Kept(map, places) : M!Kept(map, places)[n] = map[i]
         /\ \A n \in DOMAIN M!Kept(map, places) : \E i \in places : M!Kept(map, places)[n] = map[i]
<1> DEFINE size == Cardinality(places)
           kept == M!Kept(map, places)
<1>1. map \in Seq(Entries) /\ Len(map) \in Nat /\ DOMAIN map = 1..Len(map)
      /\ places \in SUBSET (1..Len(map))
  BY DEF Fits
<1>2. size \in Nat
  BY <1>1, KeptIs
<1>3. PICK place : KeptAt(place, map, places)
  BY <1>1, KeptIs
<1> HIDE DEF kept, size
<1>4. \A n \in 1..size : place[n] \in places /\ place[n] \in DOMAIN map /\ kept[n] = map[place[n]]
                         /\ map[place[n]] \in Entries
  BY <1>1, <1>3 DEF KeptAt, size, kept
<1>5. kept \in Seq(Entries) /\ Len(kept) = size /\ DOMAIN kept = 1..size
  BY <1>2, <1>3, <1>4 DEF KeptAt, size, kept
<1>6. Fits(kept, all, since, inPlace)
  BY <1>1, <1>3, <1>4, <1>5 DEF Fits, KeptAt, size
<1>7. \A i \in places : \E n \in DOMAIN kept : kept[n] = map[i]
  BY <1>3, <1>4, <1>5 DEF KeptAt, size, kept
<1>8. \A n \in DOMAIN kept : \E i \in places : kept[n] = map[i]
  BY <1>4, <1>5
<1>9. QED
  BY <1>2, <1>5, <1>6, <1>7, <1>8 DEF kept, size

(* So many entries after one that nobody incremented in its place were used  *)
(* since it was.                                                             *)
LEMMA UsedSince ==
  ASSUME NEW all, NEW since, NEW inPlace, HistoryOK(all, since, inPlace),
         NEW map, Fits(map, all, since, inPlace),
         NEW i \in DOMAIN map, map[i].key \notin inPlace
  PROVE  Cardinality(since[map[i].key]) >= Len(map) - i
<1> DEFINE S == (i + 1)..Len(map)
           W == since[map[i].key]
           f == [j \in S |-> map[j].key]
<1>1. map \in Seq(Entries) /\ Len(map) \in Nat /\ DOMAIN map = 1..Len(map) /\ i \in 1..Len(map)
      /\ \A j \in 1..Len(map) : map[j].key \in Calls
  <2>1. map \in Seq(Entries) /\ Len(map) \in Nat /\ DOMAIN map = 1..Len(map)
    BY DEF Fits
  <2>2. ASSUME NEW j \in 1..Len(map) PROVE map[j].key \in Calls
    <3>1. map[j] \in Entries
      BY <2>1
    <3>2. QED
      BY <3>1 DEF Entries
  <2>3. QED
    BY <2>1, <2>2
<1>2. \A j \in S : j \in DOMAIN map /\ i < j
  BY <1>1
<1>3. f \in [S -> W]
  BY <1>2 DEF Fits
<1>4. \A j, l \in S : f[j] = f[l] => j = l
  <2> SUFFICES ASSUME NEW j \in S, NEW l \in S, f[j] = f[l] PROVE j = l
    OBVIOUS
  <2>1. j \in Int /\ l \in Int /\ j \in DOMAIN map /\ l \in DOMAIN map /\ map[j].key = map[l].key
    BY <1>1, <1>2
  <2>2. ~(j < l) /\ ~(l < j)
    BY <2>1 DEF Fits
  <2>3. QED
    BY <2>1, <2>2
<1>5. f \in Injection(S, W)
  BY <1>3, <1>4 DEF Injection, IsInjective
<1>6. IsFiniteSet(W) /\ Cardinality(W) \in Nat
  <2>1. W \in SUBSET Calls
    BY <1>1 DEF HistoryOK
  <2>2. QED
    BY <2>1, LimitsAssumption, FS_Subset, FS_CardinalityType
<1>7. Cardinality(S) = Len(map) - i
  BY <1>1, FS_Interval
<1> HIDE DEF S, W, f
<1>8. Cardinality(S) <= Cardinality(W)
  BY <1>5, <1>6, FS_Injection
<1>9. QED
  BY <1>7, <1>8 DEF W

(* #evict drops ended entries, and those so many others were used since. *)
LEMMA EvictedIs ==
  ASSUME NEW all, NEW since, NEW inPlace, HistoryOK(all, since, inPlace),
         NEW map, Fits(map, all, since, inPlace), Reaches(map, all, since, inPlace)
  PROVE  /\ Fits(M!Evicted(map), all, since, inPlace)
         /\ Reaches(M!Evicted(map), all, since, inPlace)
<1> DEFINE swept == M!Swept(map)
           stay == {i \in DOMAIN map : i > Sample \/ M!Alive(map[i])}
           Q == {i \in DOMAIN swept : i > Len(swept) - MaxEntries}
           left == M!Evicted(map)
<1>1. swept = M!Kept(map, stay) /\ stay \in SUBSET DOMAIN map
  BY DEF M!Swept
<1>2. left = M!Kept(swept, Q) /\ Q \in SUBSET DOMAIN swept
  BY DEF M!Evicted
<1> HIDE DEF swept, stay, left
<1>3. Fits(swept, all, since, inPlace)
      /\ \A i \in stay : \E n \in DOMAIN swept : swept[n] = map[i]
  BY <1>1, KeptFits
<1> HIDE DEF Q
<1>4. Fits(left, all, since, inPlace)
      /\ \A i \in Q : \E n \in DOMAIN left : left[n] = swept[i]
  BY <1>2, <1>3, KeptFits
<1>5. ASSUME NEW k \in Calls, all[k] # M!Nothing, k \notin inPlace, Cardinality(since[k]) < MaxEntries
      PROVE  \E n \in DOMAIN left : left[n].key = k
  <2>1. PICK i \in DOMAIN map : map[i].key = k
    BY <1>5 DEF Reaches
  <2>2. map[i].left # 0
    BY <1>5, <2>1 DEF Fits
  <2>3. i \in stay
    BY <2>2 DEF stay, M!Alive
  <2>4. PICK n \in DOMAIN swept : swept[n] = map[i]
    BY <1>3, <2>3
  <2>5. Cardinality(since[k]) >= Len(swept) - n
    BY <1>3, <1>5, <2>1, <2>4, UsedSince
  <2>6. Cardinality(since[k]) \in Nat
    <3>1. since[k] \in SUBSET Calls
      BY DEF HistoryOK
    <3>2. QED
      BY <3>1, LimitsAssumption, FS_Subset, FS_CardinalityType
  <2>7. n \in Int /\ Len(swept) \in Int /\ MaxEntries \in Int
    BY <1>3, LimitsAssumption DEF Fits
  <2>8. n > Len(swept) - MaxEntries
    BY <1>5, <2>5, <2>6, <2>7
  <2>9. n \in Q
    BY <2>8 DEF Q
  <2>10. QED
    BY <1>4, <2>1, <2>4, <2>9
<1>6. QED
  BY <1>4, <1>5 DEF Reaches, left

(* #live answers what a cache without a bound would. *)
LEMMA LiveIs ==
  ASSUME CacheInv, NEW k \in Calls
  PROVE  /\ M!IsThere(k) => /\ M!Live(k) = truth[k]
                            /\ M!Live(k).value \in M!Values /\ M!Live(k).left \in M!Ttls
                            /\ M!Live(k).left # 0
         /\ ~M!IsThere(k) => \A i \in DOMAIN entries : entries[i].key = k => entries[i].left = 0
         /\ ~M!IsThere(k) => M!Live(k) = M!Nothing
<1> DEFINE found == {i \in DOMAIN entries : entries[i].key = k /\ M!Alive(entries[i])}
           i == CHOOSE i \in found : TRUE
<1>1. CASE found = {}
  <2>1. M!Live(k) = M!Nothing
    BY <1>1 DEF M!Live
  <2>2. QED
    BY <1>1, <2>1 DEF M!IsThere, M!Alive
<1>2. CASE found # {}
  <2>1. M!Live(k) = [value |-> entries[i].value, left |-> entries[i].left]
    BY <1>2 DEF M!Live
  <2>2. i \in found
    BY <1>2
  <2> HIDE DEF i
  <2>3. i \in DOMAIN entries /\ entries[i].key = k /\ entries[i].left # 0
    BY <2>2 DEF M!Alive
  <2>4. entries[i] \in Entries
    BY <2>3 DEF CacheInv, Fits
  <2>5. truth[k] = [value |-> entries[i].value, left |-> entries[i].left]
    BY <2>3 DEF CacheInv, Fits
  <2>6. M!Live(k) # M!Nothing
    BY <2>1, <2>3 DEF M!Nothing
  <2>7. QED
    BY <2>1, <2>3, <2>4, <2>5, <2>6 DEF M!IsThere, Entries
<1>3. QED
  BY <1>1, <1>2

(* A longer list of what was used since is no shorter. *)
LEMMA NewerGrows ==
  ASSUME NEW since, NEW inPlace, NEW all, HistoryOK(all, since, inPlace),
         NEW j \in Calls, NEW k \in Calls
  PROVE  /\ Cardinality(since[j]) \in Nat /\ Cardinality(since[j] \cup {k}) \in Nat
         /\ Cardinality(since[j]) <= Cardinality(since[j] \cup {k})
<1>1. since[j] \in SUBSET Calls /\ since[j] \cup {k} \in SUBSET Calls
  BY DEF HistoryOK
<1>2. IsFiniteSet(since[j] \cup {k}) /\ IsFiniteSet(since[j])
  BY <1>1, LimitsAssumption, FS_Subset
<1>3. QED
  BY <1>2, FS_Subset, FS_CardinalityType

(* An entry that was deleted and set again is the last, and was used last. *)
LEMMA SetAtTheEnd ==
  ASSUME CacheInv, NEW k \in Calls, NEW given \in M!Values, NEW left \in M!Ttls,
         NEW all, DOMAIN all = Calls, \A j \in Calls : j # k => all[j] = truth[j],
         all[k] = IF left = 0 THEN M!Nothing ELSE [value |-> given, left |-> left],
         M!Use(k),
         NEW map, map = Append(M!Others(k), M!Entry(k, given, left))
  PROVE  HistoryOK(all, newer', counted') /\ Fits(map, all, newer', counted')
         /\ Reaches(map, all, newer', counted')
<1> DEFINE places == {i \in DOMAIN entries : entries[i].key # k}
           others == M!Others(k)
           last == M!Entry(k, given, left)
<1>1. /\ newer \in [Calls -> SUBSET Calls] /\ counted \in SUBSET Calls
      /\ newer' = [j \in Calls |-> IF j = k THEN {} ELSE newer[j] \cup {k}]
      /\ counted' = counted \ {k}
  BY DEF CacheInv, HistoryOK, M!Use, M!Latter
<1>2. HistoryOK(all, newer', counted')
  BY <1>1 DEF HistoryOK
<1>3. others = M!Kept(entries, places) /\ places \in SUBSET DOMAIN entries
      /\ \A i \in DOMAIN entries : i \in places <=> entries[i].key # k
  BY DEF M!Others
<1>4. last \in Entries /\ last.key = k /\ last.value = given /\ last.left = left
  BY DEF M!Entry, Entries
<1> HIDE DEF others, last, places
<1>5. /\ Fits(others, truth, newer, counted)
      /\ \A i \in places : \E n \in DOMAIN others : others[n] = entries[i]
      /\ \A n \in DOMAIN others : \E i \in places : others[n] = entries[i]
  BY <1>3, KeptFits DEF CacheInv
<1>6. \A n \in DOMAIN others : others[n].key # k /\ others[n].key \in Calls /\ others[n] \in Entries
  <2>1. ASSUME NEW n \in DOMAIN others PROVE others[n].key # k /\ others[n] \in Entries
    BY <1>3, <1>5, <2>1 DEF Fits
  <2>2. QED
    BY <2>1 DEF Entries
<1>7. /\ others \in Seq(Entries) /\ Len(others) \in Nat /\ DOMAIN others = 1..Len(others)
  BY <1>5 DEF Fits
<1>8. /\ map \in Seq(Entries) /\ DOMAIN map = 1..(Len(others) + 1)
      /\ \A n \in DOMAIN others : n \in DOMAIN map /\ map[n] = others[n]
      /\ map[Len(others) + 1] = last
      /\ \A n \in DOMAIN map : n = Len(others) + 1 \/ n \in DOMAIN others
  BY <1>4, <1>7 DEF others, last
<1>9. ASSUME NEW i \in DOMAIN map, NEW j \in DOMAIN map, i < j
      PROVE  /\ map[i].key # map[j].key
             /\ map[i].key \notin counted' => map[j].key \in newer'[map[i].key]
  <2>1. i \in DOMAIN others
    BY <1>7, <1>8, <1>9
  <2>2. CASE j \in DOMAIN others
    BY <1>1, <1>5, <1>6, <1>8, <1>9, <2>1, <2>2 DEF Fits
  <2>3. CASE j = Len(others) + 1
    BY <1>1, <1>4, <1>6, <1>8, <2>1, <2>3
  <2>4. QED
    BY <1>8, <2>2, <2>3
<1>10. ASSUME NEW i \in DOMAIN map
       PROVE  all[map[i].key] = IF map[i].left = 0 THEN M!Nothing
                                ELSE [value |-> map[i].value, left |-> map[i].left]
  <2>1. CASE i \in DOMAIN others
    <3>1. map[i] = others[i] /\ all[others[i].key] = truth[others[i].key]
      BY <1>6, <1>8, <2>1
    <3>2. truth[others[i].key] = IF others[i].left = 0 THEN M!Nothing
                                 ELSE [value |-> others[i].value, left |-> others[i].left]
      BY <1>5, <2>1 DEF Fits
    <3>3. QED
      BY <3>1, <3>2
  <2>2. CASE i = Len(others) + 1
    <3>1. map[i] = last
      BY <1>8, <2>2
    <3>2. QED
      BY <1>4, <3>1
  <2>3. QED
    BY <1>8, <2>1, <2>2
<1>11. Fits(map, all, newer', counted')
  BY <1>8, <1>9, <1>10 DEF Fits
<1>12. ASSUME NEW j \in Calls, all[j] # M!Nothing, j \notin counted',
              Cardinality(newer'[j]) < MaxEntries
       PROVE  \E i \in DOMAIN map : map[i].key = j
  <2>1. CASE j = k
    BY <1>4, <1>7, <1>8, <2>1
  <2>2. CASE j # k
    <3>1. Cardinality(newer[j]) < MaxEntries
      <4>1. newer'[j] = newer[j] \cup {k}
        BY <1>1, <2>2
      <4>2. /\ Cardinality(newer[j]) \in Nat /\ Cardinality(newer[j] \cup {k}) \in Nat
            /\ Cardinality(newer[j]) <= Cardinality(newer[j] \cup {k})
        BY NewerGrows DEF CacheInv
      <4>3. QED
        BY <1>12, <4>1, <4>2, LimitsAssumption
    <3>2. truth[j] # M!Nothing /\ j \notin counted
      BY <1>1, <1>12, <2>2
    <3>3. PICK i \in DOMAIN entries : entries[i].key = j
      BY <3>1, <3>2 DEF CacheInv, Reaches
    <3>4. i \in places
      BY <1>3, <2>2, <3>3
    <3>5. PICK n \in DOMAIN others : others[n] = entries[i]
      BY <1>5, <3>4
    <3>6. QED
      BY <1>8, <3>3, <3>5
  <2>3. QED
    BY <2>1, <2>2
<1>13. QED
  BY <1>2, <1>11, <1>12 DEF Reaches

(* A write, and what it evicts. *)
LEMMA PutKeeps ==
  ASSUME CacheInv, NEW k \in Calls, NEW given \in M!Values, NEW left \in M!Ttls,
         M!Put(k, given, left)
  PROVE  CacheInv'
<1> DEFINE map == Append(M!Others(k), M!Entry(k, given, left))
<1>1. entries' = M!Evicted(map) /\ M!Use(k)
  BY DEF M!Put
<1>2. /\ DOMAIN truth' = Calls /\ \A j \in Calls : j # k => truth'[j] = truth[j]
      /\ truth'[k] = IF left = 0 THEN M!Nothing ELSE [value |-> given, left |-> left]
  BY DEF M!Put, M!Known, CacheInv, HistoryOK
<1>3. HistoryOK(truth', newer', counted') /\ Fits(map, truth', newer', counted')
      /\ Reaches(map, truth', newer', counted')
  BY <1>1, <1>2, SetAtTheEnd
<1> HIDE DEF map
<1>4. Fits(entries', truth', newer', counted') /\ Reaches(entries', truth', newer', counted')
  BY <1>1, <1>3, EvictedIs
<1>5. CacheInv' <=> /\ HistoryOK(truth', newer', counted')
                    /\ Fits(entries', truth', newer', counted')
                    /\ Reaches(entries', truth', newer', counted')
  BY DEF CacheInv, HistoryOK, Fits, Reaches, Entries, M!Values, M!Ttls, M!Forever, M!Nothing
<1>6. QED
  BY <1>3, <1>4, <1>5

(* Entries that ended, or that a cache without a bound has not either, go.  *)
LEMMA DropKeeps ==
  ASSUME CacheInv, NEW places \in SUBSET DOMAIN entries, entries' = M!Kept(entries, places),
         UNCHANGED <<newer, counted>>, DOMAIN truth' = Calls,
         \A k \in Calls : truth'[k] \in {truth[k], M!Nothing},
         \A i \in DOMAIN entries :
           truth'[entries[i].key] = IF i \in places THEN truth[entries[i].key] ELSE M!Nothing
  PROVE  CacheInv'
<1>1. /\ Fits(entries', truth, newer, counted)
      /\ \A i \in places : \E n \in DOMAIN entries' : entries'[n] = entries[i]
      /\ \A n \in DOMAIN entries' : \E i \in places : entries'[n] = entries[i]
  BY KeptFits DEF CacheInv
<1>2. \A n \in DOMAIN entries' : truth'[entries'[n].key] = truth[entries'[n].key]
  BY <1>1
<1>3. Fits(entries', truth', newer', counted')
  BY <1>1, <1>2 DEF Fits
<1>4. HistoryOK(truth', newer', counted')
  BY DEF CacheInv, HistoryOK
<1>5. ASSUME NEW k \in Calls, truth'[k] # M!Nothing, k \notin counted,
             Cardinality(newer[k]) < MaxEntries
      PROVE  \E n \in DOMAIN entries' : entries'[n].key = k
  <2>1. truth[k] # M!Nothing
    BY <1>5
  <2>2. PICK i \in DOMAIN entries : entries[i].key = k
    BY <1>5, <2>1 DEF CacheInv, Reaches
  <2>3. i \in places
    BY <1>5, <2>2
  <2>4. QED
    BY <1>1, <2>2, <2>3
<1>6. Reaches(entries', truth', newer', counted')
  BY <1>5 DEF Reaches
<1>7. CacheInv' <=> /\ HistoryOK(truth', newer', counted')
                    /\ Fits(entries', truth', newer', counted')
                    /\ Reaches(entries', truth', newer', counted')
  BY DEF CacheInv, HistoryOK, Fits, Reaches, Entries, M!Values, M!Ttls, M!Forever, M!Nothing
<1>8. QED
  BY <1>3, <1>4, <1>6, <1>7

(* A counter that is incremented stays in its place, and nobody may rely on *)
(* that place any more.                                                      *)
LEMMA IncrementKeeps ==
  ASSUME CacheInv, NEW k \in Calls, NEW ttl \in M!Ttls, NEW keep \in BOOLEAN,
         M!IncrementInPlace(k, ttl, keep)
  PROVE  CacheInv'
<1> DEFINE given == M!Incremented(k)
           left == M!Left(k, ttl, keep)
           new == M!Entry(k, given, left)
           map == [i \in DOMAIN entries |-> IF entries[i].key = k THEN new ELSE entries[i]]
<1>1. given \in M!Values
  <2>1. M!IsThere(k) /\ M!Incremented(k) <= MaxCount
    BY DEF M!IncrementInPlace
  <2>2. M!Incremented(k) \in 1..MaxCount
    <3> DEFINE v == M!Live(k).value
    <3>1. M!Incremented(k) = IF v \in 1..MaxCount THEN v + 1 ELSE 1
      BY DEF M!Incremented
    <3> HIDE DEF v
    <3>2. QED
      BY <2>1, <3>1, LimitsAssumption
  <2>3. QED
    BY <2>2 DEF M!Values
<1>2. left \in M!Ttls
  BY LiveIs DEF M!Left
<1>3. /\ entries' = M!Evicted(map)
      /\ newer' = [j \in Calls |-> IF j = k THEN {} ELSE newer[j] \cup {k}]
      /\ counted' = counted \cup {k}
      /\ truth' = [truth EXCEPT ![k] = IF left = 0 THEN M!Nothing ELSE [value |-> given, left |-> left]]
  BY DEF M!IncrementInPlace, M!Known, M!Latter
<1>4. new \in Entries /\ new.key = k /\ new.value = given /\ new.left = left
  BY <1>1, <1>2 DEF M!Entry, Entries
<1> HIDE DEF given, left, new
<1>5. /\ newer \in [Calls -> SUBSET Calls] /\ counted \in SUBSET Calls /\ DOMAIN truth = Calls
      /\ entries \in Seq(Entries)
  BY DEF CacheInv, HistoryOK, Fits
<1>6. HistoryOK(truth', newer', counted')
  BY <1>3, <1>5 DEF HistoryOK
<1>7. /\ map \in Seq(Entries) /\ DOMAIN map = DOMAIN entries
      /\ \A i \in DOMAIN entries : map[i].key = entries[i].key
      /\ \A i \in DOMAIN entries : map[i] = IF entries[i].key = k THEN new ELSE entries[i]
      /\ \A i \in DOMAIN entries : entries[i].key \in Calls
  <2>1. ASSUME NEW i \in DOMAIN entries PROVE entries[i] \in Entries /\ entries[i].key \in Calls
    <3>1. entries[i] \in Entries
      BY <1>5
    <3>2. QED
      BY <3>1 DEF Entries
  <2>2. QED
    BY <1>4, <1>5, <2>1
<1> HIDE DEF map
<1>8. ASSUME NEW i \in DOMAIN map, NEW j \in DOMAIN map, i < j
      PROVE  /\ map[i].key # map[j].key
             /\ map[i].key \notin counted' => map[j].key \in newer'[map[i].key]
  <2>1. entries[i].key # entries[j].key
        /\ (entries[i].key \notin counted => entries[j].key \in newer[entries[i].key])
    BY <1>7, <1>8 DEF CacheInv, Fits
  <2>2. entries[i].key # k => newer'[entries[i].key] = newer[entries[i].key] \cup {k}
    BY <1>3, <1>7
  <2>3. QED
    BY <1>3, <1>7, <2>1, <2>2
<1>9. ASSUME NEW i \in DOMAIN map
      PROVE  truth'[map[i].key] = IF map[i].left = 0 THEN M!Nothing
                                  ELSE [value |-> map[i].value, left |-> map[i].left]
  <2>1. CASE entries[i].key = k
    <3>1. map[i] = new
      BY <1>7, <2>1
    <3>2. truth'[k] = IF left = 0 THEN M!Nothing ELSE [value |-> given, left |-> left]
      BY <1>3, <1>5
    <3>3. QED
      BY <1>4, <3>1, <3>2
  <2>2. CASE entries[i].key # k
    <3>1. map[i] = entries[i] /\ truth'[entries[i].key] = truth[entries[i].key]
      BY <1>3, <1>5, <1>7, <2>2
    <3>2. truth[entries[i].key] = IF entries[i].left = 0 THEN M!Nothing
                                  ELSE [value |-> entries[i].value, left |-> entries[i].left]
      BY <1>7 DEF CacheInv, Fits
    <3>3. QED
      BY <3>1, <3>2
  <2>3. QED
    BY <2>1, <2>2
<1>10. Fits(map, truth', newer', counted')
  BY <1>7, <1>8, <1>9 DEF Fits
<1>11. ASSUME NEW j \in Calls, truth'[j] # M!Nothing, j \notin counted',
              Cardinality(newer'[j]) < MaxEntries
       PROVE  \E i \in DOMAIN map : map[i].key = j
  <2>1. j # k /\ j \notin counted /\ truth[j] # M!Nothing /\ newer'[j] = newer[j] \cup {k}
    BY <1>3, <1>5, <1>11
  <2>2. /\ Cardinality(newer[j]) \in Nat /\ Cardinality(newer[j] \cup {k}) \in Nat
        /\ Cardinality(newer[j]) <= Cardinality(newer[j] \cup {k})
    BY NewerGrows DEF CacheInv
  <2>3. Cardinality(newer[j]) < MaxEntries
    BY <1>11, <2>1, <2>2, LimitsAssumption
  <2>4. QED
    BY <1>7, <2>1, <2>3 DEF CacheInv, Reaches
<1>12. Reaches(map, truth', newer', counted')
  BY <1>11 DEF Reaches
<1>13. Fits(entries', truth', newer', counted') /\ Reaches(entries', truth', newer', counted')
  BY <1>3, <1>6, <1>10, <1>12, EvictedIs
<1>14. CacheInv' <=> /\ HistoryOK(truth', newer', counted')
                     /\ Fits(entries', truth', newer', counted')
                     /\ Reaches(entries', truth', newer', counted')
  BY DEF CacheInv, HistoryOK, Fits, Reaches, Entries, M!Values, M!Ttls, M!Forever, M!Nothing
<1>15. QED
  BY <1>6, <1>13, <1>14

(* An entry ends when a cache without a bound ends it. *)
LEMMA TickKeeps ==
  ASSUME CacheInv, M!Tick
  PROVE  CacheInv'
<1>1. /\ entries' = [i \in DOMAIN entries |-> [entries[i] EXCEPT !.left = M!Sooner(@)]]
      /\ truth' = [k \in Calls |-> IF truth[k].left \in {0, 1} THEN M!Nothing
                                   ELSE [truth[k] EXCEPT !.left = M!Sooner(@)]]
      /\ newer' = newer /\ counted' = counted
  BY DEF M!Tick
<1>2. HistoryOK(truth', newer', counted')
  BY <1>1 DEF CacheInv, HistoryOK
<1>3. entries \in Seq(Entries)
  BY DEF CacheInv, Fits
<1>4. ASSUME NEW i \in DOMAIN entries
      PROVE  /\ entries[i].key \in Calls /\ entries'[i] \in Entries
             /\ entries'[i].key = entries[i].key
             /\ truth'[entries'[i].key] = IF entries'[i].left = 0 THEN M!Nothing
                                          ELSE [value |-> entries'[i].value, left |-> entries'[i].left]
  <2> DEFINE k == entries[i].key
             left == entries[i].left
  <2>1. entries[i] \in Entries /\ k \in Calls /\ left \in M!Ttls
        /\ entries[i].value \in M!Values
    <3>1. entries[i] \in Entries
      BY <1>3
    <3>2. QED
      BY <3>1 DEF Entries
  <2>2. entries'[i] = [key |-> k, value |-> entries[i].value, left |-> M!Sooner(left)]
    BY <1>1, <2>1 DEF Entries
  <2>3. M!Sooner(left) \in M!Ttls /\ left \in Int
        /\ (M!Sooner(left) = 0 <=> left \in {0, 1})
    BY <2>1, LimitsAssumption DEF M!Ttls, M!Sooner, M!Forever
  <2>4. truth[k] = IF left = 0 THEN M!Nothing ELSE [value |-> entries[i].value, left |-> left]
    BY DEF CacheInv, Fits
  <2>5. truth[k].left = left
    BY <2>4 DEF M!Nothing
  <2>6. truth'[k] = IF left \in {0, 1} THEN M!Nothing
                    ELSE [value |-> entries[i].value, left |-> M!Sooner(left)]
    <3>1. truth'[k] = IF left \in {0, 1} THEN M!Nothing
                      ELSE [truth[k] EXCEPT !.left = M!Sooner(@)]
      BY <1>1, <2>1, <2>5
    <3>2. CASE left \in {0, 1}
      BY <3>1, <3>2
    <3>3. CASE left \notin {0, 1}
      <4>1. truth[k] = [value |-> entries[i].value, left |-> left]
        BY <2>4, <3>3
      <4>2. [truth[k] EXCEPT !.left = M!Sooner(@)]
              = [value |-> entries[i].value, left |-> M!Sooner(left)]
        BY <4>1
      <4>3. QED
        BY <3>1, <3>3, <4>2
    <3>4. QED
      BY <3>2, <3>3
  <2> HIDE DEF k, left
  <2>7. entries'[i].key = k /\ entries'[i].left = M!Sooner(left)
        /\ entries'[i].value = entries[i].value
    BY <2>2
  <2>8. entries'[i] \in Entries
    BY <2>1, <2>2, <2>3 DEF Entries
  <2>9. truth'[k] = IF M!Sooner(left) = 0 THEN M!Nothing
                    ELSE [value |-> entries[i].value, left |-> M!Sooner(left)]
    BY <2>3, <2>6
  <2>10. QED
    BY <2>1, <2>7, <2>8, <2>9 DEF k
<1>5. DOMAIN entries' = DOMAIN entries /\ entries' \in Seq(Entries)
  <2>1. Len(entries) \in Nat /\ DOMAIN entries = 1..Len(entries)
    BY <1>3
  <2>2. DOMAIN entries' = 1..Len(entries)
    BY <1>1, <2>1
  <2>3. entries' = [i \in 1..Len(entries) |-> entries'[i]]
    BY <1>1, <2>1, <2>2
  <2>4. entries' \in [1..Len(entries) -> Entries]
    BY <1>4, <2>1, <2>3
  <2>5. QED
    BY <2>1, <2>2, <2>4
<1>6. Fits(entries', truth', newer', counted')
  <2>1. ASSUME NEW i \in DOMAIN entries', NEW j \in DOMAIN entries', i < j
        PROVE  /\ entries'[i].key # entries'[j].key
               /\ entries'[i].key \notin counted' => entries'[j].key \in newer'[entries'[i].key]
    <3>1. /\ entries[i].key # entries[j].key
          /\ entries[i].key \notin counted => entries[j].key \in newer[entries[i].key]
      BY <1>5, <2>1 DEF CacheInv, Fits
    <3>2. entries'[i].key = entries[i].key /\ entries'[j].key = entries[j].key
      BY <1>4, <1>5
    <3>3. QED
      BY <1>1, <3>1, <3>2
  <2>2. QED
    BY <1>4, <1>5, <2>1 DEF Fits
<1>7. Reaches(entries', truth', newer', counted')
  <2>1. ASSUME NEW k \in Calls, truth'[k] # M!Nothing, k \notin counted',
               Cardinality(newer'[k]) < MaxEntries
        PROVE  \E i \in DOMAIN entries' : entries'[i].key = k
    <3>1. truth[k] # M!Nothing
      BY <1>1, <2>1 DEF M!Nothing
    <3>2. PICK i \in DOMAIN entries : entries[i].key = k
      BY <1>1, <2>1, <3>1 DEF CacheInv, Reaches
    <3>3. QED
      BY <1>4, <1>5, <3>2
  <2>2. QED
    BY <2>1 DEF Reaches
<1>8. CacheInv' <=> /\ HistoryOK(truth', newer', counted')
                    /\ Fits(entries', truth', newer', counted')
                    /\ Reaches(entries', truth', newer', counted')
  BY DEF CacheInv, HistoryOK, Fits, Reaches, Entries, M!Values, M!Ttls, M!Forever, M!Nothing
<1>9. QED
  BY <1>2, <1>6, <1>7, <1>8

(* Nothing is cached at first. *)
LEMMA CacheStart == M!Init => CacheInv
<1> SUFFICES ASSUME M!Init PROVE CacheInv
  OBVIOUS
<1>1. HistoryOK(truth, newer, counted)
  BY DEF M!Init, HistoryOK
<1>2. entries = <<>> /\ entries \in Seq(Entries) /\ DOMAIN entries = {}
  BY DEF M!Init
<1>3. Fits(entries, truth, newer, counted)
  BY <1>2 DEF Fits
<1>4. Reaches(entries, truth, newer, counted)
  BY DEF M!Init, Reaches
<1>5. QED
  BY <1>1, <1>3, <1>4 DEF CacheInv

(* An ended entry is dropped when its key is looked up. *)
LEMMA DroppedKeeps ==
  ASSUME CacheInv, NEW k \in Calls, entries' = M!Dropped(k), UNCHANGED <<truth, newer, counted>>
  PROVE  CacheInv'
<1> DEFINE places == {i \in DOMAIN entries : entries[i].key # k \/ M!Alive(entries[i])}
<1>1. entries' = M!Kept(entries, places) /\ places \in SUBSET DOMAIN entries
  BY DEF M!Dropped
<1>2. \A i \in DOMAIN entries : i \notin places => truth[entries[i].key] = M!Nothing
  BY DEF CacheInv, Fits, M!Alive
<1>3. DOMAIN truth = Calls
  BY DEF CacheInv, HistoryOK
<1> HIDE DEF places
<1>4. \A i \in DOMAIN entries :
        truth'[entries[i].key] = IF i \in places THEN truth[entries[i].key] ELSE M!Nothing
  BY <1>2
<1>5. QED
  BY <1>1, <1>3, <1>4, DropKeeps

(* What is deleted or cleared goes from both. *)
LEMMA ForgottenKeeps ==
  ASSUME CacheInv, NEW doomed \in SUBSET Calls, M!Forgotten(doomed), UNCHANGED <<newer, counted>>,
         entries' = M!Kept(entries, {i \in DOMAIN entries : entries[i].key \notin doomed})
  PROVE  CacheInv'
<1> DEFINE places == {i \in DOMAIN entries : entries[i].key \notin doomed}
<1>1. entries' = M!Kept(entries, places) /\ places \in SUBSET DOMAIN entries
      /\ \A i \in DOMAIN entries : i \in places <=> entries[i].key \notin doomed
  OBVIOUS
<1>2. \A i \in DOMAIN entries : entries[i].key \in Calls
  <2>1. entries \in Seq(Entries)
    BY DEF CacheInv, Fits
  <2>2. ASSUME NEW i \in DOMAIN entries PROVE entries[i].key \in Calls
    <3>1. entries[i] \in Entries
      BY <2>1
    <3>2. QED
      BY <3>1 DEF Entries
  <2>3. QED
    BY <2>2
<1> HIDE DEF places
<1>3. /\ DOMAIN truth' = Calls /\ \A k \in Calls : truth'[k] \in {truth[k], M!Nothing}
      /\ \A k \in Calls : truth'[k] = IF k \in doomed THEN M!Nothing ELSE truth[k]
  BY DEF M!Forgotten
<1>4. \A i \in DOMAIN entries :
        truth'[entries[i].key] = IF i \in places THEN truth[entries[i].key] ELSE M!Nothing
  BY <1>1, <1>2, <1>3
<1>5. QED
  BY <1>1, <1>3, <1>4, DropKeeps

(* A hit moves the entry to the end. *)
LEMMA HitKeeps ==
  ASSUME CacheInv, NEW k \in Calls, M!GetHit(k)
  PROVE  CacheInv'
<1> DEFINE given == M!Live(k).value
           left == M!Live(k).left
           map == Append(M!Others(k), M!Entry(k, given, left))
<1>1. M!IsThere(k) /\ entries' = map /\ M!Use(k) /\ truth' = truth
  BY DEF M!GetHit
<1>2. M!Live(k) = truth[k] /\ given \in M!Values /\ left \in M!Ttls /\ left # 0
  BY <1>1, LiveIs
<1>3. truth[k] = [value |-> given, left |-> left]
  <2> DEFINE found == {i \in DOMAIN entries : entries[i].key = k /\ M!Alive(entries[i])}
             i == CHOOSE i \in found : TRUE
  <2>1. found # {}
    BY <1>1 DEF M!IsThere, M!Live
  <2>2. M!Live(k) = [value |-> entries[i].value, left |-> entries[i].left]
    BY <2>1 DEF M!Live
  <2> HIDE DEF i
  <2>3. QED
    BY <1>2, <2>2
<1>4. DOMAIN truth' = Calls /\ \A j \in Calls : j # k => truth'[j] = truth[j]
  BY <1>1 DEF CacheInv, HistoryOK
<1>5. truth'[k] = IF left = 0 THEN M!Nothing ELSE [value |-> given, left |-> left]
  BY <1>1, <1>2, <1>3
<1> HIDE DEF given, left
<1>6. HistoryOK(truth', newer', counted') /\ Fits(map, truth', newer', counted')
      /\ Reaches(map, truth', newer', counted')
  BY <1>1, <1>2, <1>4, <1>5, SetAtTheEnd
<1> HIDE DEF map
<1>7. CacheInv' <=> /\ HistoryOK(truth', newer', counted')
                    /\ Fits(entries', truth', newer', counted')
                    /\ Reaches(entries', truth', newer', counted')
  BY DEF CacheInv, HistoryOK, Fits, Reaches, Entries, M!Values, M!Ttls, M!Forever, M!Nothing
<1>8. QED
  BY <1>1, <1>6, <1>7

(* Every operation and the clock keep the invariant. *)
LEMMA CacheStep ==
  ASSUME CacheInv, M!Next
  PROVE  CacheInv'
<1>1. ASSUME NEW k \in Calls, M!GetMiss(k) \/ M!Probe(k) PROVE CacheInv'
  BY <1>1, DroppedKeeps DEF M!GetMiss, M!Probe
<1>2. ASSUME NEW k \in Calls, M!GetHit(k) PROVE CacheInv'
  BY <1>2, HitKeeps
<1>3. ASSUME NEW k \in Calls, M!Delete(k) PROVE CacheInv'
  <2>1. entries' = M!Kept(entries, {i \in DOMAIN entries : entries[i].key \notin {k}})
    BY <1>3 DEF M!Delete, M!Others
  <2>2. M!Forgotten({k}) /\ UNCHANGED <<newer, counted>> /\ {k} \in SUBSET Calls
    BY <1>3 DEF M!Delete
  <2>3. QED
    BY <2>1, <2>2, ForgottenKeeps
<1>4. ASSUME NEW doomed \in SUBSET Calls, M!Clear(doomed) PROVE CacheInv'
  BY <1>4, ForgottenKeeps DEF M!Clear
<1>5. ASSUME NEW k \in Calls, NEW ttl \in M!Ttls, NEW keep \in BOOLEAN, M!IncrementInPlace(k, ttl, keep)
      PROVE  CacheInv'
  BY <1>5, IncrementKeeps
<1>6. ASSUME NEW k \in Calls, NEW ttl \in M!Ttls, M!IncrementNew(k, ttl) PROVE CacheInv'
  <2>1. 1 \in M!Values
    BY LimitsAssumption DEF M!Values
  <2>2. QED
    BY <1>6, <2>1, PutKeeps DEF M!IncrementNew
<1>7. ASSUME NEW k \in Calls, NEW ttl \in M!Ttls, NEW keep \in BOOLEAN, NEW given \in M!Values,
             NEW expected,
             M!Set(k, given, ttl, keep) \/ M!SetIfAbsent(k, given, ttl)
               \/ M!CompareAndSet(k, expected, given, ttl, keep)
      PROVE  CacheInv'
  <2>1. M!Left(k, ttl, keep) \in M!Ttls
    BY LiveIs DEF M!Left
  <2>2. QED
    BY <1>7, <2>1, PutKeeps DEF M!Set, M!SetIfAbsent, M!CompareAndSet
<1>8. CASE M!Tick
  BY <1>8, TickKeeps
<1>9. QED
  BY <1>1, <1>2, <1>3, <1>4, <1>5, <1>6, <1>7, <1>8 DEF M!Next

(* What is left alone keeps the invariant. *)
LEMMA CacheRest ==
  ASSUME CacheInv, UNCHANGED ofCache
  PROVE  CacheInv'
BY DEF ofCache, CacheInv, HistoryOK, Fits, Reaches, Entries, M!Values, M!Ttls, M!Forever, M!Nothing

(* The cache answers what was written last, and answers for the keys used   *)
(* last.                                                                     *)
LEMMA CacheAnswers == CacheInv => M!RecentAreKept
<1> SUFFICES ASSUME CacheInv PROVE M!RecentAreKept
  OBVIOUS
<1>1. \A k \in Calls : M!IsThere(k) => M!Live(k) = truth[k]
  BY LiveIs
<1>2. ASSUME NEW k \in M!Latest \ counted PROVE M!Live(k) = truth[k]
  <2>1. k \in Calls /\ k \notin counted /\ Cardinality(newer[k]) < MaxEntries
    BY DEF M!Latest, M!Cardinality, Cardinality
  <2>2. CASE M!IsThere(k)
    BY <1>1, <2>1, <2>2
  <2>3. CASE ~M!IsThere(k)
    <3>1. M!Live(k) = M!Nothing
          /\ \A i \in DOMAIN entries : entries[i].key = k => entries[i].left = 0
      BY <2>1, <2>3, LiveIs
    <3>2. truth[k] = M!Nothing
      <4> SUFFICES ASSUME truth[k] # M!Nothing PROVE FALSE
        OBVIOUS
      <4>1. PICK i \in DOMAIN entries : entries[i].key = k
        BY <2>1 DEF CacheInv, Reaches
      <4>2. entries[i].left = 0
        BY <3>1, <4>1
      <4>3. QED
        BY <4>1, <4>2 DEF CacheInv, Fits
    <3>3. QED
      BY <3>1, <3>2
  <2>4. QED
    BY <2>2, <2>3
<1>3. QED
  BY <1>1, <1>2 DEF M!RecentAreKept

-----------------------------------------------------------------------------
(* The parts *)

(* The steps of MCLimits that are steps of RateLimiter, *)
LEMMA LimiterMoves == LimiterNext => part' = part /\ part = "limiter" /\ R!Next
BY DEF LimiterNext, InLimiter, R!Next, R!Request

(* and those of MemoryCache. *)
LEMMA CacheMoves == CacheNext => part' = part /\ part = "cache" /\ M!Next
BY DEF CacheNext, InCache, M!Next

(* A behaviour of one part stays one, and what is left alone stays. *)
LEMMA LimitsStay ==
  ASSUME [LimitsNext]_limitsVars
  PROVE  /\ part' = part
         /\ part = "bucket" => T!Next \/ UNCHANGED <<ofCalls, ofBucket>>
         /\ part = "limiter" => R!Next \/ UNCHANGED <<ofCalls, ofLimiter>>
         /\ part = "cache" => M!Next \/ UNCHANGED ofCache
BY BucketMoves, LimiterMoves, CacheMoves DEF LimitsNext, limitsVars

(* The invariants hold throughout: of TokenBucket, *)
LEMMA BucketHold == LimitsSpec => [](part = "bucket" => BucketInv)
<1>1. LimitsInit => (part = "bucket" => BucketInv)
  BY BucketStart DEF LimitsInit
<1>2. ASSUME part = "bucket" => BucketInv, [LimitsNext]_limitsVars
      PROVE  (part = "bucket" => BucketInv)'
  BY <1>2, LimitsStay, BucketStep, BucketRest
<1>3. QED
  BY <1>1, <1>2, PTL DEF LimitsSpec

(* of RateLimiter. *)
LEMMA LimiterHold == LimitsSpec => [](part = "limiter" => LimiterInv)
<1>1. LimitsInit => (part = "limiter" => LimiterInv)
  BY LimiterStart DEF LimitsInit
<1>2. ASSUME part = "limiter" => LimiterInv, [LimitsNext]_limitsVars
      PROVE  (part = "limiter" => LimiterInv)'
  BY <1>2, LimitsStay, LimiterStep, LimiterRest
<1>3. QED
  BY <1>1, <1>2, PTL DEF LimitsSpec

(* of MemoryCache. *)
LEMMA CacheHold == LimitsSpec => [](part = "cache" => CacheInv)
<1>1. LimitsInit => (part = "cache" => CacheInv)
  BY CacheStart DEF LimitsInit
<1>2. ASSUME part = "cache" => CacheInv, [LimitsNext]_limitsVars
      PROVE  (part = "cache" => CacheInv)'
  BY <1>2, LimitsStay, CacheStep, CacheRest
<1>3. QED
  BY <1>1, <1>2, PTL DEF LimitsSpec

(* With compareAndSet the limit is exact over every interval, for every     *)
(* number of calls: the swaps order them, and the account of the last       *)
(* write covers what was let through before it.                             *)
THEOREM ExactInOrderCorrect == LimitsSpec => []ExactInOrder
<1>1. (part = "bucket" => BucketInv) => ExactInOrder
  BY BucketIsExact DEF ExactInOrder
<1>2. QED
  BY <1>1, BucketHold, PTL

(* The sliding window lets no burst through at the boundary of two buckets,  *)
(* for every number of calls, whatever the factor widens it to, as long as  *)
(* no counter is lost and no hit outlasts its bucket.                        *)
THEOREM NoBoundaryBurstCorrect == LimitsSpec => []NoBoundaryBurst
<1>1. (part = "limiter" => LimiterInv) => NoBoundaryBurst
  BY LimiterHasNoBurst DEF NoBoundaryBurst
<1>2. QED
  BY <1>1, LimiterHold, PTL

(* The memory cache never answers what was not written last or has ended,   *)
(* and it answers for the keys used last, for every bound, sample and       *)
(* number of keys, but for counters incremented where they stood.           *)
THEOREM RecentAreKeptCorrect == LimitsSpec => []RecentAreKept
<1>1. (part = "cache" => CacheInv) => RecentAreKept
  BY CacheAnswers DEF RecentAreKept
<1>2. QED
  BY <1>1, CacheHold, PTL
=============================================================================
