-------------------------- MODULE PermissionCache --------------------------
(***************************************************************************)
(* Cached permissions: PermissionResolver (rbac/src/resolver.ts) over a    *)
(* TieredCache (cache/src/typed.ts), for one user of one tenant: a near    *)
(* tier and a role graph in every process, a far tier all of them share.   *)
(*                                                                         *)
(* The user's assignments and the tenant's roles are each a version, and a *)
(* resolved permission set is the pair of versions it was computed from.   *)
(* A call is one request after the other, on any replica.  Each operation  *)
(* on a tier, a store or the graph is an action, and time is kept as the   *)
(* times to live, which Tick lowers.  Assignments that expire on their own *)
(* are left out.                                                           *)
(***************************************************************************)
EXTENDS Naturals

CONSTANTS
  Calls,    \* requests in flight
  Replicas,
  NoReplica, \* the replica of a call that has not begun
  NoGraph,  \* what the map of hierarchies returns before a load
  NearTtl,  \* the near tier's time to live, in clock ticks
  FarTtl,   \* cacheTtl
  MaxEdits  \* bound on the versions of assignments and of roles

VARIABLES
  assigned, \* version of the user's assignments in their store
  roles,    \* version of the tenant's roles in their store
  graphs,   \* per replica, the version of the role graph it holds
  near,     \* per replica, the user's entry in the near tier
  far,      \* the user's entry in the far tier
  pc,       \* where each call is
  at,       \* the replica it runs on
  value,    \* the permission set it has resolved so far
  \* History, read by no guard of the code:
  quiet,    \* time since a tier could last be given an old answer
  clean     \* per replica, the newest edit it invalidated with nothing racing

stores == <<assigned, roles>>
call == <<pc, at, value>>
tiers == <<near, far>>
vars == <<stores, graphs, tiers, call, quiet, clean>>

Versions == 0..MaxEdits
Value == [assigned: Versions, roles: Versions]
Entry == [assigned: Versions, roles: Versions, ttl: 0..(NearTtl + FarTtl)]
Nothing == [assigned |-> 0, roles |-> 0]
Unset == [assigned |-> 0, roles |-> 0, ttl |-> 0]

Stages == {"idle", "far", "fill", "graph", "install", "list", "set", "store",
           "dropNear", "dropFar", "dropGraph", "clearFar"}

TypeOK ==
  /\ assigned \in Versions /\ roles \in Versions
  /\ graphs \in [Replicas -> Versions \cup {NoGraph}]
  /\ near \in [Replicas -> {e \in Entry : e.ttl <= NearTtl}]
  /\ far \in {e \in Entry : e.ttl <= FarTtl}
  /\ pc \in [Calls -> Stages]
  /\ at \in [Calls -> Replicas \cup {NoReplica}]
  /\ value \in [Calls -> Value]
  /\ quiet \in [near: 0..NearTtl, far: 0..FarTtl]
  /\ clean \in [Replicas -> Versions]

Init ==
  /\ assigned = 0 /\ roles = 0
  /\ graphs = [r \in Replicas |-> NoGraph]
  /\ near = [r \in Replicas |-> Unset]
  /\ far = Unset
  /\ pc = [c \in Calls |-> "idle"]
  /\ at = [c \in Calls |-> NoReplica]
  /\ value = [c \in Calls |-> Nothing]
  /\ quiet = [near |-> 0, far |-> 0]
  /\ clean = [r \in Replicas |-> 0]

-----------------------------------------------------------------------------
(* Entries *)

Live(e) == e.ttl > 0
ValueOf(e) == [assigned |-> e.assigned, roles |-> e.roles]
Holding(v, ttl) == [assigned |-> v.assigned, roles |-> v.roles, ttl |-> ttl]
Old(x) == x.assigned < assigned

Step(c, from, to) == pc[c] = from /\ pc' = [pc EXCEPT ![c] = to]

(* A request arrives on some replica. *)
Arrive(c, r, to) == Step(c, "idle", to) /\ at' = [at EXCEPT ![c] = r]

(* The call is over. *)
Return(c, from) ==
  /\ Step(c, from, "idle")
  /\ at' = [at EXCEPT ![c] = NoReplica]
  /\ value' = [value EXCEPT ![c] = Nothing]

-----------------------------------------------------------------------------
(* resolve *)

(* TieredCache.get: the near tier has nothing, *)
MissNear(c, r) ==
  /\ Arrive(c, r, "far")
  /\ ~Live(near[r])
  /\ UNCHANGED <<stores, graphs, tiers, value, quiet, clean>>

(* and the far tier does, *)
HitFar(c) ==
  /\ Step(c, "far", "fill")
  /\ Live(far)
  /\ value' = [value EXCEPT ![c] = ValueOf(far)]
  /\ UNCHANGED <<stores, graphs, tiers, at, quiet, clean>>

(* or does not. *)
MissFar(c) ==
  /\ Step(c, "far", "graph")
  /\ ~Live(far)
  /\ UNCHANGED <<stores, graphs, tiers, at, value, quiet, clean>>

(* hierarchy: the graph this process holds, or the stored roles, *)
UseGraph(c) ==
  /\ Step(c, "graph", "list")
  /\ graphs[at[c]] # NoGraph
  /\ value' = [value EXCEPT ![c].roles = graphs[at[c]]]
  /\ UNCHANGED <<stores, graphs, tiers, at, quiet, clean>>

LoadGraph(c) ==
  /\ Step(c, "graph", "install")
  /\ graphs[at[c]] = NoGraph
  /\ value' = [value EXCEPT ![c].roles = roles]
  /\ UNCHANGED <<stores, graphs, tiers, at, quiet, clean>>

(* which it then holds for good. *)
InstallGraph(c) ==
  /\ Step(c, "install", "list")
  /\ graphs' = [graphs EXCEPT ![at[c]] = value[c].roles]
  /\ UNCHANGED <<stores, tiers, at, value, quiet, clean>>

ListAssignments(c) ==
  /\ Step(c, "list", "set")
  /\ value' = [value EXCEPT ![c].assigned = assigned]
  /\ UNCHANGED <<stores, graphs, tiers, at, quiet, clean>>

(* Mutant of SetFar: keeps the entry for both tiers' time. *)
SetFarLong(c) ==
  /\ Step(c, "set", "store")
  /\ far' = Holding(value[c], NearTtl + FarTtl)
  /\ UNCHANGED <<stores, graphs, near, at, value, quiet, clean>>

(* TieredCache.set writes the far tier first. *)
SetFar(c) ==
  /\ Step(c, "set", "store")
  /\ far' = Holding(value[c], FarTtl)
  /\ UNCHANGED <<stores, graphs, near, at, value, quiet, clean>>

(* Mutant of StoreNear: hands the far tier's time to live on. *)
StoreNearLong(c) ==
  /\ pc[c] \in {"fill", "store"}
  /\ Return(c, pc[c])
  /\ near' = [near EXCEPT ![at[c]] = Holding(value[c], FarTtl)]
  /\ UNCHANGED <<stores, graphs, far, quiet, clean>>

(* The near tier is filled, by get from the far tier or by set. *)
StoreNear(c) ==
  /\ pc[c] \in {"fill", "store"}
  /\ Return(c, pc[c])
  /\ near' = [near EXCEPT ![at[c]] = Holding(value[c], NearTtl)]
  /\ UNCHANGED <<stores, graphs, far, quiet, clean>>

-----------------------------------------------------------------------------
(* Changes, and the invalidation a product has to call after them.  The    *)
(* versions an invalidation is for are its value.                          *)

(* A role is assigned to the user or taken away. *)
EditAssignments(c, r) ==
  /\ assigned < MaxEdits
  /\ Arrive(c, r, "dropNear")
  /\ assigned' = assigned + 1
  /\ value' = [value EXCEPT ![c].assigned = assigned + 1]
  /\ quiet' = [near |-> 0, far |-> 0]
  /\ UNCHANGED <<roles, graphs, tiers, clean>>

(* invalidateUser deletes from the near tier first, *)
DropNear(c) ==
  /\ Step(c, "dropNear", "dropFar")
  /\ near' = [near EXCEPT ![at[c]] = Unset]
  /\ UNCHANGED <<stores, graphs, far, at, value, quiet, clean>>

(* An answer older than the edit c invalidates is on its way to a tier, or *)
(* was put back into the near tier of its replica.                         *)
Raced(c) ==
  \/ \E d \in Calls : /\ pc[d] \in {"fill", "set", "store"}
                      /\ value[d].assigned < value[c].assigned
  \/ Live(near[at[c]]) /\ near[at[c]].assigned < value[c].assigned

(* Mutant of DropFar: the near tier had the key, and delete stops there. *)
DropFarNot(c) ==
  /\ Return(c, "dropFar")
  /\ clean' = IF Raced(c) THEN clean ELSE [clean EXCEPT ![at[c]] = value[c].assigned]
  /\ UNCHANGED <<stores, graphs, tiers, quiet>>

(* then from the far one. *)
DropFar(c) ==
  /\ Return(c, "dropFar")
  /\ far' = Unset
  /\ clean' = IF Raced(c) THEN clean ELSE [clean EXCEPT ![at[c]] = value[c].assigned]
  /\ UNCHANGED <<stores, graphs, near, quiet>>

(* A role gains or loses a permission. *)
EditRoles(c, r) ==
  /\ roles < MaxEdits
  /\ Arrive(c, r, "dropGraph")
  /\ roles' = roles + 1
  /\ UNCHANGED <<assigned, graphs, tiers, value, quiet, clean>>

(* invalidateTenant drops the graph of this process and clears both tiers. *)
DropGraph(c) ==
  /\ Step(c, "dropGraph", "clearFar")
  /\ graphs' = [graphs EXCEPT ![at[c]] = NoGraph]
  /\ near' = [near EXCEPT ![at[c]] = Unset]
  /\ UNCHANGED <<stores, far, at, value, quiet, clean>>

(* The far tier may not be able to clear: the port leaves that open. *)
ClearFar(c) ==
  /\ far' \in {Unset, far}
  /\ Return(c, "clearFar")
  /\ UNCHANGED <<stores, graphs, near, quiet, clean>>

-----------------------------------------------------------------------------
(* The environment *)

(* A full cache evicts the entry. *)
EvictNear(r) ==
  /\ Live(near[r])
  /\ near' = [near EXCEPT ![r] = Unset]
  /\ UNCHANGED <<stores, graphs, far, call, quiet, clean>>

EvictFar ==
  /\ Live(far)
  /\ far' = Unset
  /\ UNCHANGED <<stores, graphs, near, call, quiet, clean>>

(* The request fails: a store, a tier or the connection to it throws. *)
Fail(c) ==
  /\ pc[c] # "idle"
  /\ Return(c, pc[c])
  /\ UNCHANGED <<stores, graphs, tiers, quiet, clean>>

(* The process starts anew. *)
Restart(r) ==
  /\ graphs' = [graphs EXCEPT ![r] = NoGraph]
  /\ near' = [near EXCEPT ![r] = Unset]
  /\ pc' = [c \in Calls |-> IF at[c] = r THEN "idle" ELSE pc[c]]
  /\ at' = [c \in Calls |-> IF at[c] = r THEN NoReplica ELSE at[c]]
  /\ value' = [c \in Calls |-> IF at[c] = r THEN Nothing ELSE value[c]]
  /\ UNCHANGED <<stores, far, quiet, clean>>

Lower(e) == IF e.ttl <= 1 THEN Unset ELSE [e EXCEPT !.ttl = @ - 1]

(* An old answer was resolved and may still be written to both tiers, or   *)
(* to the near one, or be taken from the far one.                          *)
OldResolved == \E c \in Calls : pc[c] = "set" /\ Old(value[c])
OldAbout ==
  \/ OldResolved
  \/ Live(far) /\ Old(far)
  \/ \E c \in Calls : pc[c] \in {"fill", "store"} /\ Old(value[c])

Longer(n, most) == IF n < most THEN n + 1 ELSE n

Tick ==
  /\ near' = [r \in Replicas |-> Lower(near[r])]
  /\ far' = Lower(far)
  /\ quiet' = [near |-> IF OldAbout THEN 0 ELSE Longer(quiet.near, NearTtl),
               far  |-> IF OldResolved THEN 0 ELSE Longer(quiet.far, FarTtl)]
  /\ UNCHANGED <<stores, graphs, call, clean>>

-----------------------------------------------------------------------------

Resolve(c) ==
  \/ HitFar(c) \/ MissFar(c) \/ UseGraph(c) \/ LoadGraph(c) \/ InstallGraph(c)
  \/ ListAssignments(c) \/ SetFar(c) \/ StoreNear(c)

Invalidate(c) == DropNear(c) \/ DropFar(c) \/ DropGraph(c) \/ ClearFar(c)

Next ==
  \/ \E c \in Calls :
       \/ \E r \in Replicas : MissNear(c, r) \/ EditAssignments(c, r) \/ EditRoles(c, r)
       \/ Resolve(c) \/ Invalidate(c) \/ Fail(c)
  \/ \E r \in Replicas : EvictNear(r) \/ Restart(r)
  \/ EvictFar
  \/ Tick

(* The clock runs, and a request that was begun is served or fails. *)
Fairness == WF_vars(Tick) /\ \A c \in Calls : WF_vars(Resolve(c) \/ Invalidate(c))

Spec == Init /\ [][Next]_vars /\ Fairness

-----------------------------------------------------------------------------
(* Properties *)

(* The window of a revocation, whether or not anyone invalidates: an old   *)
(* answer leaves the far tier within its time to live after the last       *)
(* resolution that still carried one, and the near tier of every replica   *)
(* within the near one's after that.                                       *)
WindowsClose ==
  /\ Live(far) /\ Old(far) => far.ttl + quiet.far <= FarTtl
  /\ \A r \in Replicas :
       Live(near[r]) /\ Old(near[r]) => near[r].ttl + quiet.near <= NearTtl

(* What invalidateUser achieves: if nothing raced with it, no answer older *)
(* than the edit is ever again in the far tier, or in the near tier of the *)
(* replica that invalidated.                                               *)
InvalidationBites ==
  \A r \in Replicas :
    /\ Live(far) => far.assigned >= clean[r]
    /\ Live(near[r]) => near[r].assigned >= clean[r]

-----------------------------------------------------------------------------
(* Claims of the repository that the code does not keep *)

(* docs/security-platform/threat-model.md:122: the window between a         *)
(* revocation and its effect is the cache's time to live.                  *)
RolesCatchUp == <>[](Live(far) => far.roles = roles)

(* cache/src/typed.ts:59: deletes go near-first so that a revocation cannot *)
(* be re-populated from the far tier by a concurrent read on the same box. *)
NearStaysClear ==
  [][\A c, d \in Calls :
       pc[c] = "fill" /\ pc'[c] = "idle" /\ at[c] = at[d] /\ pc[d] = "dropFar"
         /\ near' # near => value[c].assigned >= value[d].assigned]_vars
=============================================================================
