--------------------------- MODULE RoleHierarchy ---------------------------
(***************************************************************************)
(* RoleHierarchy (rbac/src/roles.ts): the role graph a process holds for   *)
(* one tenant, edited role by role, with a memo of what each role confers. *)
(* The class is synchronous, so each call is one action.                   *)
(***************************************************************************)
EXTENDS Permissions, FiniteSets

CONSTANTS
  Roles,       \* role ids
  NoRole,      \* the definition of an id that is not in the graph
  GrantSets,   \* the permissions a role may be given
  Checks,      \* the permissions asked for
  NotAsked,    \* the memo of a role nobody asked about
  MaxEdits     \* bound on edits

VARIABLES
  roles,       \* #roles
  effective,   \* #effective
  edits,
  \* History, read by no guard of the code:
  rejected     \* roles whose memo is older than an add that was rejected

vars == <<roles, effective, edits, rejected>>

Definition == [permissions : GrantSets, inherits : SUBSET Roles]

TypeOK ==
  /\ roles \in [Roles -> Definition \cup {NoRole}]
  /\ effective \in [Roles -> SUBSET UNION GrantSets \cup {NotAsked}]
  /\ edits \in 0..MaxEdits
  /\ rejected \subseteq Roles

(* A parent that is not in the graph is skipped. *)
Parents(graph, r) == IF graph[r] = NoRole THEN {} ELSE graph[r].inherits

Above(graph, rs) == UNION {Parents(graph, r) : r \in rs}

(* Roles reached by steps to a parent, rs included. *)
Reached(graph, rs) ==
  LET upTo[n \in 0..Cardinality(Roles)] ==
        IF n = 0 THEN rs ELSE upTo[n - 1] \cup Above(graph, upTo[n - 1])
  IN  upTo[Cardinality(Roles)]

(* ancestors *)
Ancestors(graph, r) == Reached(graph, Parents(graph, r))

(* #assertAcyclic *)
Acyclic(graph) == \A r \in Roles : r \notin Ancestors(graph, r)

(* What the walk from r collects. *)
Collected(r) ==
  UNION {roles[p].permissions :
           p \in {q \in Roles : roles[q] # NoRole /\ q \in Reached(roles, {r})}}

(* The constructor *)
Init ==
  /\ roles \in [Roles -> Definition \cup {NoRole}] /\ Acyclic(roles)
  /\ effective = [r \in Roles |-> NotAsked]
  /\ edits = 0
  /\ rejected = {}

-----------------------------------------------------------------------------

Forget ==
  /\ effective' = [r \in Roles |-> NotAsked]
  /\ rejected' = {}

(* The insertion comes before the check, and the memo is cleared after it: *)
(* an add that throws leaves the role in the graph and the memo as it was. *)
Add(r, role) ==
  /\ edits < MaxEdits
  /\ roles' = [roles EXCEPT ![r] = role]
  /\ edits' = edits + 1
  /\ IF Acyclic(roles')
     THEN Forget
     ELSE /\ rejected' = {q \in Roles : effective[q] # NotAsked}
          /\ UNCHANGED effective

(* Mutant of Removed: the memo is kept. *)
RemovedOnly(r) == UNCHANGED <<effective, rejected>>

Removed(r) == IF roles[r] = NoRole THEN UNCHANGED <<effective, rejected>> ELSE Forget

Remove(r) ==
  /\ edits < MaxEdits
  /\ roles' = [roles EXCEPT ![r] = NoRole]
  /\ edits' = edits + 1
  /\ Removed(r)

(* effectivePermissions of a role that has no memo yet *)
Ask(r) ==
  /\ effective[r] = NotAsked
  /\ effective' = [effective EXCEPT ![r] = Normalized(Collected(r))]
  /\ UNCHANGED <<roles, edits, rejected>>

Next ==
  \E r \in Roles :
    \/ \E role \in Definition : Add(r, role)
    \/ Remove(r)
    \/ Ask(r)

Spec == Init /\ [][Next]_vars

-----------------------------------------------------------------------------
(* Properties *)

(* What a role is said to confer allows exactly what the roles it inherits *)
(* from, in the graph as it is, allow: neither the memo nor the removal of *)
(* covered grants changes an answer.  Two exceptions are what the code     *)
(* does: a memo from before an add that was rejected, and a check that was *)
(* allowed by a grant normalizeGrants drops for one that does not allow it *)
(* or that is dropped for it in turn.                                      *)
AnswersMatchRoles ==
  \A r \in Roles \ rejected, check \in Checks :
    effective[r] # NotAsked /\ Unseated(Collected(r), check) = {} =>
      HasPermission(effective[r], check) = HasPermission(Collected(r), check)

(* roles.ts says that cycles are rejected when the graph is built.  A      *)
(* rejected add leaves its cycle in the graph.                             *)
NoCycleIsKept == Acyclic(roles)
=============================================================================
