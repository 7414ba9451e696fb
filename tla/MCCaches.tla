------------------------------ MODULE MCCaches ------------------------------
(* Small instances for TLC of what is built on the shared cache and has     *)
(* tiers or leases: a behaviour is one of CacheLock (its safety) or          *)
(* PermissionCache, and the variables of the other stay Unused.              *)
EXTENDS Naturals, TLC, Parts

CONSTANTS
  Callers, NoOne, Lease, WaitFor, Retry,
  Requests, Replicas, NoReplica, NoGraph, NearTtl, FarTtl, MaxEdits

VARIABLES
  key, patience, sleep, term, torn,
  assigned, roles, graphs, near, far, at, value, quiet, clean

L == INSTANCE CacheLock
P == INSTANCE PermissionCache WITH Calls <- Requests

(* Leases, retries and times to live last some time; nobody is no caller,   *)
(* no replica is none, and no graph is no version.                           *)
ASSUME CachesAssumption ==
  /\ NoOne \notin Callers
  /\ Lease \in Nat \ {0} /\ WaitFor \in Nat /\ Retry \in Nat \ {0}
  /\ NearTtl \in Nat \ {0} /\ FarTtl \in Nat \ {0} /\ MaxEdits \in Nat
  /\ NoGraph \notin Nat /\ NoReplica \notin Replicas

ofLock == <<key, patience, sleep, term, torn>>
ofPermissions == <<assigned, roles, graphs, near, far, at, value, quiet, clean>>
cachesVars == <<part, now, pc, ofLock, ofPermissions>>

NoLock ==
  key = Unused /\ patience = Unused /\ sleep = Unused /\ term = Unused /\ torn = Unused
NoPermissions ==
  /\ assigned = Unused /\ roles = Unused /\ graphs = Unused /\ near = Unused
  /\ far = Unused /\ at = Unused /\ value = Unused /\ quiet = Unused /\ clean = Unused

CachesInit ==
  \/ part = "lock" /\ L!Init /\ now = Unused /\ NoPermissions
  \/ part = "permissions" /\ P!Init /\ now = Unused /\ NoLock

-----------------------------------------------------------------------------
(* The actions of each part, one by one so that TLC counts each of them.     *)

InLock == part = "lock" /\ UNCHANGED <<part, now, ofPermissions>>

LockNext ==
  \/ \E c \in Callers :
       \/ \E wait \in {0, WaitFor} : InLock /\ L!Begin(c, wait)
       \/ InLock /\ L!Acquire(c)
       \/ InLock /\ L!GiveUp(c)
       \/ InLock /\ L!Sleep(c)
       \/ InLock /\ L!Wake(c)
       \/ InLock /\ L!CheckRelease(c)
       \/ InLock /\ L!Delete(c)
       \/ InLock /\ L!CheckExtend(c)
       \/ InLock /\ L!Extend(c)
       \/ InLock /\ L!Crash(c)
  \/ InLock /\ L!Evict
  \/ InLock /\ L!Tick

InPermissions == part = "permissions" /\ UNCHANGED <<part, now, ofLock>>

PermissionsNext ==
  \/ \E c \in Requests :
       \/ \E r \in Replicas :
            \/ InPermissions /\ P!MissNear(c, r)
            \/ InPermissions /\ P!EditAssignments(c, r)
            \/ InPermissions /\ P!EditRoles(c, r)
       \/ InPermissions /\ P!HitFar(c)
       \/ InPermissions /\ P!MissFar(c)
       \/ InPermissions /\ P!UseGraph(c)
       \/ InPermissions /\ P!LoadGraph(c)
       \/ InPermissions /\ P!InstallGraph(c)
       \/ InPermissions /\ P!ListAssignments(c)
       \/ InPermissions /\ P!SetFar(c)
       \/ InPermissions /\ P!StoreNear(c)
       \/ InPermissions /\ P!DropNear(c)
       \/ InPermissions /\ P!DropFar(c)
       \/ InPermissions /\ P!DropGraph(c)
       \/ InPermissions /\ P!ClearFar(c)
       \/ InPermissions /\ P!Fail(c)
  \/ \E r \in Replicas :
       \/ InPermissions /\ P!EvictNear(r)
       \/ InPermissions /\ P!Restart(r)
  \/ InPermissions /\ P!EvictFar
  \/ InPermissions /\ P!Tick

CachesNext == LockNext \/ PermissionsNext

CachesSpec == CachesInit /\ [][CachesNext]_cachesVars

(* Callers are alike, and so are requests and replicas. *)
CachesSymmetry == Permutations(Callers) \cup Permutations(Requests) \cup Permutations(Replicas)

-----------------------------------------------------------------------------
(* The properties of the parts *)

(* CacheLock!Exclusion: two leases never overlap. *)
Exclusion == part = "lock" => L!Exclusion

(* PermissionCache!WindowsClose: old answers leave every tier in time. *)
WindowsClose == part = "permissions" => P!WindowsClose

(* PermissionCache!InvalidationBites: an invalidation leaves none behind. *)
InvalidationBites == part = "permissions" => P!InvalidationBites
=============================================================================
