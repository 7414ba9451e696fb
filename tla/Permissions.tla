---------------------------- MODULE Permissions ----------------------------
(***************************************************************************)
(* Permission strings (rbac/src/permissions.ts).  A permission is the      *)
(* sequence of its segments; a grant may have Star as a segment, a check   *)
(* may not.                                                                *)
(***************************************************************************)
EXTENDS Sequences, Naturals

CONSTANT Star      \* the segment "*"

Wild(grant) == \E i \in DOMAIN grant : grant[i] = Star

(* grantCovers: a Star matches one segment, a last one whatever remains,   *)
(* nothing included.                                                       *)
Covers(grant, required) ==
  \/ grant = required
  \/ LET rest == grant[Len(grant)] = Star
         named == IF rest THEN 1..(Len(grant) - 1) ELSE DOMAIN grant
     IN  /\ Wild(grant)
         /\ named \subseteq DOMAIN required
         /\ \A i \in named : grant[i] \in {Star, required[i]}
         /\ rest \/ Len(grant) = Len(required)

(* hasPermission *)
HasPermission(grants, check) == \E g \in grants : Covers(g, check)

(* normalizeGrants *)
Normalized(grants) == {g \in grants : ~ \E o \in grants : o # g /\ Covers(o, g)}

(* The grants that allow check and go for one that does not allow it, as   *)
(* <<"a", Star>> goes for <<Star, Star, Star>> when <<"a">> is asked for,   *)
(* or for one that goes for them, as <<"a", Star, Star>> does.             *)
Unseated(grants, check) ==
  {g \in grants :
     /\ Covers(g, check)
     /\ \E o \in grants : o # g /\ Covers(o, g) /\ (Covers(o, check) => Covers(g, o))}
=============================================================================
