--------------------------- MODULE SessionsProofs ---------------------------
(***************************************************************************)
(* Proofs about Sessions, for every number of calls and sessions, every    *)
(* limit and timeout, and each of the three ways the limit is enforced.    *)
(***************************************************************************)
EXTENDS Sessions, FiniteSetTheorems, TLAPS

-----------------------------------------------------------------------------
(* The inductive invariant *)

(* The stages of a login whose session is built and not stored yet. *)
Awaiting == {"lock", "list", "loop", "mark", "insert"}
Pending(c) == new[c] # NoId /\ pc[c] \in Awaiting

(* What a suspended call holds: the copy it is about to write is a record, *)
(* revoked when the call is revoking; a login holds its session.           *)
LocalsOK ==
  \A c \in Calls :
    /\ pc[c] \in {"touch", "mark"} => of[c] \in Ids /\ copy[c] \in Record
    /\ pc[c] = "mark" => copy[c].revoked
    /\ pc[c] \in {"lock", "list", "insert"} => new[c] \in Ids
    /\ pc[c] \in {"idle", "lock", "list", "insert"} => todo[c] = {}
    /\ pc[c] \notin Awaiting \cup {"unlock"} => new[c] = NoId
    /\ mode = "store-transaction" => new[c] = NoId

(* The store, a revocation or a call has to do with session s. *)
Known(s) ==
  \/ s \in Stored \cup gone
  \/ \E c \in Calls : s \in todo[c] \/ s = of[c]

(* None of them has to do with a session that a login has yet to store,    *)
(* and no two logins store the same one.                                   *)
BuiltOK ==
  /\ \A s \in Ids : Known(s) => built[s] # Absent
  /\ \A c \in Calls : Pending(c) => built[new[c]] # Absent /\ ~Known(new[c])
  /\ \A c, d \in Calls : Pending(c) /\ Pending(d) /\ new[d] = new[c] => d = c

IInv == TypeOK /\ LocalsOK /\ BuiltOK

-----------------------------------------------------------------------------
(* What the manager does to a record *)

(* A new record is not revoked, and ends Absolute after its login. *)
LEMMA BuiltRecord ==
  ASSUME now \in Nat
  PROVE  /\ Built \in Record /\ ~Built.revoked
         /\ Built.lastSeen = now /\ Built.until = now + Absolute
BY SessionsAssumption DEF Built, Record

(* Revoking a record leaves its deadline, *)
LEMMA RevokedRecord ==
  ASSUME NEW r \in Record
  PROVE  Revoked(r) \in Record /\ Revoked(r).revoked /\ Revoked(r).until = r.until
BY DEF Record, Revoked

(* and so does touching it. *)
LEMMA TouchedRecord ==
  ASSUME NEW r \in Record, now \in Nat
  PROVE  Touched(r) \in Record /\ Touched(r).until = r.until
<1> DEFINE until == IF now + Idle < r.until THEN now + Idle ELSE r.until
<1>1. until \in Nat
  BY SessionsAssumption DEF Record
<1>2. \A i \in Nat : \A q :
        q = [r EXCEPT !.lastSeen = now, !.idleUntil = i] =>
          q \in Record /\ q.until = r.until
  BY DEF Record
<1>3. QED
  <2>1. Touched(r) = [r EXCEPT !.lastSeen = now, !.idleUntil = until]
    BY DEF Touched
  <2> HIDE DEF until
  <2>2. QED
    BY <1>1, <1>2, <2>1

-----------------------------------------------------------------------------
(* Every step keeps the types, and what calls hold. *)
LEMMA TypeStep ==
  ASSUME TypeOK, LocalsOK, [Next]_vars
  PROVE  TypeOK' /\ LocalsOK'
<1> USE SessionsAssumption DEF TypeOK, LocalsOK, Awaiting, Stages, Section,
        Finished, history, wiring
<1>1. ASSUME NEW c \in Calls, NEW s \in Ids, NEW out \in SUBSET ActiveIds,
             CreateWithinLimit(c, s, out)
      PROVE  TypeOK' /\ LocalsOK'
  <2>1. \A u \in out : u \in Ids /\ store[u] \in Record
    BY DEF ActiveIds, Stored
  <2>2. store' \in [Ids -> Record \cup {Absent}]
    BY <1>1, <2>1, BuiltRecord, RevokedRecord DEF CreateWithinLimit
  <2>3. gone' \subseteq Ids /\ racing' \in [Ids -> SUBSET Calls]
    BY <1>1, <2>1 DEF CreateWithinLimit, Finish, Touching
  <2>4. QED
    BY <1>1, <2>2, <2>3, BuiltRecord DEF CreateWithinLimit, Step
<1>2. ASSUME NEW c \in Calls, DenyWithinLimit(c) PROVE TypeOK' /\ LocalsOK'
  BY <1>2 DEF DenyWithinLimit, Step
<1>3. ASSUME NEW c \in Calls, NEW s \in Ids, BeginCreate(c, s)
      PROVE  TypeOK' /\ LocalsOK'
  BY <1>3, BuiltRecord DEF BeginCreate, Step
<1>4. ASSUME NEW c \in Calls, Lock(c) PROVE TypeOK' /\ LocalsOK'
  BY <1>4 DEF Lock, Step
<1>5. ASSUME NEW c \in Calls, GoOnUnlocked(c) PROVE TypeOK' /\ LocalsOK'
  BY <1>5 DEF GoOnUnlocked, Step
<1>6. ASSUME NEW c \in Calls, BelowLimit(c) PROVE TypeOK' /\ LocalsOK'
  BY <1>6 DEF BelowLimit, Step
<1>7. ASSUME NEW c \in Calls, Deny(c) PROVE TypeOK' /\ LocalsOK'
  BY <1>7 DEF Deny, Conclude, Return
<1>8. ASSUME NEW c \in Calls, Evict(c) PROVE TypeOK' /\ LocalsOK'
  BY <1>8 DEF Evict, Step, ActiveIds, Stored
<1>9. ASSUME NEW c \in Calls, Insert(c) PROVE TypeOK' /\ LocalsOK'
  BY <1>9 DEF Insert, Conclude, Return
<1>10. ASSUME NEW c \in Calls, Unlock(c) PROVE TypeOK' /\ LocalsOK'
  BY <1>10 DEF Unlock, Return
<1>11. ASSUME NEW c \in Calls, NEW s \in Ids, FindToTouch(c, s)
      PROVE  TypeOK' /\ LocalsOK'
  BY <1>11, TouchedRecord DEF FindToTouch, Step, Hold, ActiveIds, Stored
<1>12. ASSUME NEW c \in Calls, WriteTouch(c) PROVE TypeOK' /\ LocalsOK'
  BY <1>12 DEF WriteTouch, Return
<1>13. ASSUME NEW c \in Calls, NEW sessions \in SUBSET Stored,
              BeginRevoke(c, sessions)
      PROVE  TypeOK' /\ LocalsOK'
  BY <1>13 DEF BeginRevoke, Step, Stored
<1>14. ASSUME NEW c \in Calls, NEW s \in Ids, SkipRevoked(c, s)
      PROVE  TypeOK' /\ LocalsOK'
  BY <1>14 DEF SkipRevoked, Finish, Touching
<1>15. ASSUME NEW c \in Calls, NEW s \in Ids, FindToRevoke(c, s)
      PROVE  TypeOK' /\ LocalsOK'
  BY <1>15, RevokedRecord DEF FindToRevoke, Step, Hold, Stored
<1>16. ASSUME NEW c \in Calls, WriteRevoked(c) PROVE TypeOK' /\ LocalsOK'
  BY <1>16 DEF WriteRevoked, Step, Finish, Hold, Touching
<1>17. ASSUME NEW c \in Calls, LoopDone(c) PROVE TypeOK' /\ LocalsOK'
  BY <1>17 DEF LoopDone, Return
<1>18. ASSUME NEW c \in Calls, Fail(c) PROVE TypeOK' /\ LocalsOK'
  BY <1>18 DEF Fail, Conclude, Return
<1>19. ASSUME NEW c \in Calls, Crash(c) PROVE TypeOK' /\ LocalsOK'
  BY <1>19 DEF Crash, Return
<1>20. ASSUME PurgeExpired PROVE TypeOK' /\ LocalsOK'
  BY <1>20 DEF PurgeExpired, call
<1>21. ASSUME Tick PROVE TypeOK' /\ LocalsOK'
  BY <1>21 DEF Tick, call
<1>22. ASSUME LeaseExpires PROVE TypeOK' /\ LocalsOK'
  BY <1>22 DEF LeaseExpires, call
<1>23. CASE UNCHANGED vars
  BY <1>23 DEF vars, call
<1>24. QED
  BY <1>1, <1>2, <1>3, <1>4, <1>5, <1>6, <1>7, <1>8, <1>9, <1>10, <1>11, <1>12,
     <1>13, <1>14, <1>15, <1>16, <1>17, <1>18, <1>19, <1>20, <1>21, <1>22, <1>23
     DEF Next, Begin, Serve, ActiveIds, Stored

(* Only ids that were never generated are given to logins. *)
LEMMA BuiltStep ==
  ASSUME TypeOK, LocalsOK, BuiltOK, [Next]_vars
  PROVE  BuiltOK'
<1> USE SessionsAssumption DEF TypeOK, LocalsOK, Awaiting, Pending, history, wiring,
        BuiltOK, Known, Stored
<1>1. ASSUME NEW c \in Calls, NEW s \in Ids, NEW out \in SUBSET ActiveIds,
             CreateWithinLimit(c, s, out)
      PROVE  BuiltOK'
  BY <1>1, BuiltRecord, RevokedRecord
     DEF CreateWithinLimit, Step, Finish, ActiveIds, Generated
<1>2. ASSUME NEW c \in Calls, DenyWithinLimit(c) PROVE BuiltOK'
  BY <1>2 DEF DenyWithinLimit, Step
<1>3. ASSUME NEW c \in Calls, NEW s \in Ids, BeginCreate(c, s) PROVE BuiltOK'
  BY <1>3, BuiltRecord DEF BeginCreate, Step, Generated
<1>4. ASSUME NEW c \in Calls, Lock(c) PROVE BuiltOK'
  BY <1>4 DEF Lock, Step
<1>5. ASSUME NEW c \in Calls, GoOnUnlocked(c) PROVE BuiltOK'
  BY <1>5 DEF GoOnUnlocked, Step
<1>6. ASSUME NEW c \in Calls, BelowLimit(c) PROVE BuiltOK'
  BY <1>6 DEF BelowLimit, Step
<1>7. ASSUME NEW c \in Calls, Deny(c) PROVE BuiltOK'
  BY <1>7 DEF Deny, Conclude, Return
<1>8. ASSUME NEW c \in Calls, Evict(c) PROVE BuiltOK'
  BY <1>8 DEF Evict, Step, ActiveIds
<1>9. ASSUME NEW c \in Calls, Insert(c) PROVE BuiltOK'
  BY <1>9 DEF Insert, Conclude, Return
<1>10. ASSUME NEW c \in Calls, Unlock(c) PROVE BuiltOK'
  BY <1>10 DEF Unlock, Return
<1>11. ASSUME NEW c \in Calls, NEW s \in Ids, FindToTouch(c, s) PROVE BuiltOK'
  BY <1>11, TouchedRecord DEF FindToTouch, Step, Hold, ActiveIds
<1>12. ASSUME NEW c \in Calls, WriteTouch(c) PROVE BuiltOK'
  BY <1>12 DEF WriteTouch, Return
<1>13. ASSUME NEW c \in Calls, NEW sessions \in SUBSET Stored,
              BeginRevoke(c, sessions)
      PROVE  BuiltOK'
  BY <1>13 DEF BeginRevoke, Step
<1>14. ASSUME NEW c \in Calls, NEW s \in Ids, SkipRevoked(c, s) PROVE BuiltOK'
  BY <1>14 DEF SkipRevoked, Finish
<1>15. ASSUME NEW c \in Calls, NEW s \in Ids, FindToRevoke(c, s) PROVE BuiltOK'
  BY <1>15, RevokedRecord DEF FindToRevoke, Step, Hold
<1>16. ASSUME NEW c \in Calls, WriteRevoked(c) PROVE BuiltOK'
  BY <1>16 DEF WriteRevoked, Step, Finish, Hold
<1>17. ASSUME NEW c \in Calls, LoopDone(c) PROVE BuiltOK'
  BY <1>17 DEF LoopDone, Return
<1>18. ASSUME NEW c \in Calls, Fail(c) PROVE BuiltOK'
  BY <1>18 DEF Fail, Conclude, Return
<1>19. ASSUME NEW c \in Calls, Crash(c) PROVE BuiltOK'
  BY <1>19 DEF Crash, Return
<1>20. ASSUME PurgeExpired PROVE BuiltOK'
  BY <1>20 DEF PurgeExpired, call
<1>21. ASSUME Tick PROVE BuiltOK'
  BY <1>21 DEF Tick, call
<1>22. ASSUME LeaseExpires PROVE BuiltOK'
  BY <1>22 DEF LeaseExpires, call
<1>23. CASE UNCHANGED vars
  BY <1>23 DEF vars, call
<1>24. QED
  BY <1>1, <1>2, <1>3, <1>4, <1>5, <1>6, <1>7, <1>8, <1>9, <1>10, <1>11, <1>12,
     <1>13, <1>14, <1>15, <1>16, <1>17, <1>18, <1>19, <1>20, <1>21, <1>22, <1>23
     DEF Next, Begin, Serve, ActiveIds, Stored

-----------------------------------------------------------------------------
(* What a revocation leaves *)

(* A touch that was in flight when the revocation of s ended has written. *)
Excused(s) == \E c \in racing[s] : pc[c] = "touched"

(* Such touches are the only ones in flight, until one of them has written *)
(* and the session may be touched anew.                                    *)
TouchOK ==
  \A s \in gone, c \in Calls :
    pc[c] = "touch" /\ of[c] = s => c \in racing[s] \/ Excused(s)

SurvivorInv == TouchOK /\ SurvivorsRaced

(* Every step of a sign-out, a touch or a login keeps it. *)
LEMMA SurvivorStep ==
  ASSUME TypeOK, LocalsOK, BuiltOK, SurvivorInv, [Next]_vars
  PROVE  SurvivorInv'
<1> USE SessionsAssumption DEF TypeOK, LocalsOK, Awaiting, Pending, history, wiring,
        SurvivorInv, TouchOK, Excused, SurvivorsRaced, Touching, ActiveIds, Stored,
        Usable,
        Expired
<1>1. ASSUME NEW c \in Calls, NEW s \in Ids, NEW out \in SUBSET ActiveIds,
             CreateWithinLimit(c, s, out)
      PROVE  SurvivorInv'
  BY <1>1, BuiltRecord, RevokedRecord
     DEF CreateWithinLimit, Step, Finish, Generated, BuiltOK, Known
<1>2. ASSUME NEW c \in Calls, DenyWithinLimit(c) PROVE SurvivorInv'
  BY <1>2 DEF DenyWithinLimit, Step
<1>3. ASSUME NEW c \in Calls, NEW s \in Ids, BeginCreate(c, s)
      PROVE  SurvivorInv'
  BY <1>3, BuiltRecord DEF BeginCreate, Step, Generated
<1>4. ASSUME NEW c \in Calls, Lock(c) PROVE SurvivorInv'
  BY <1>4 DEF Lock, Step
<1>5. ASSUME NEW c \in Calls, GoOnUnlocked(c) PROVE SurvivorInv'
  BY <1>5 DEF GoOnUnlocked, Step
<1>6. ASSUME NEW c \in Calls, BelowLimit(c) PROVE SurvivorInv'
  BY <1>6 DEF BelowLimit, Step
<1>7. ASSUME NEW c \in Calls, Deny(c) PROVE SurvivorInv'
  BY <1>7 DEF Deny, Conclude, Return
<1>8. ASSUME NEW c \in Calls, Evict(c) PROVE SurvivorInv'
  BY <1>8 DEF Evict, Step
<1>9. ASSUME NEW c \in Calls, Insert(c) PROVE SurvivorInv'
  BY <1>9 DEF Insert, Conclude, Return, BuiltOK, Known
<1>10. ASSUME NEW c \in Calls, Unlock(c) PROVE SurvivorInv'
  BY <1>10 DEF Unlock, Return
<1>11. ASSUME NEW c \in Calls, NEW s \in Ids, FindToTouch(c, s)
      PROVE  SurvivorInv'
  BY <1>11, TouchedRecord DEF FindToTouch, Step, Hold, ActiveIds
<1>12. ASSUME NEW c \in Calls, WriteTouch(c) PROVE SurvivorInv'
  BY <1>12 DEF WriteTouch, Return
<1>13. ASSUME NEW c \in Calls, NEW sessions \in SUBSET Stored,
              BeginRevoke(c, sessions)
      PROVE  SurvivorInv'
  BY <1>13 DEF BeginRevoke, Step
<1>14. ASSUME NEW c \in Calls, NEW s \in Ids, SkipRevoked(c, s)
      PROVE  SurvivorInv'
  BY <1>14 DEF SkipRevoked, Finish
<1>15. ASSUME NEW c \in Calls, NEW s \in Ids, FindToRevoke(c, s)
      PROVE  SurvivorInv'
  BY <1>15, RevokedRecord DEF FindToRevoke, Step, Hold
<1>16. ASSUME NEW c \in Calls, WriteRevoked(c) PROVE SurvivorInv'
  BY <1>16 DEF WriteRevoked, Step, Finish, Hold
<1>17. ASSUME NEW c \in Calls, LoopDone(c) PROVE SurvivorInv'
  BY <1>17 DEF LoopDone, Return
<1>18. ASSUME NEW c \in Calls, Fail(c) PROVE SurvivorInv'
  BY <1>18 DEF Fail, Conclude, Return, Section
<1>19. ASSUME NEW c \in Calls, Crash(c) PROVE SurvivorInv'
  BY <1>19 DEF Crash, Return, Finished
<1>20. ASSUME PurgeExpired PROVE SurvivorInv'
  BY <1>20 DEF PurgeExpired, call
<1>21. ASSUME Tick PROVE SurvivorInv'
  BY <1>21 DEF Tick, call, Record
<1>22. ASSUME LeaseExpires PROVE SurvivorInv'
  BY <1>22 DEF LeaseExpires, call
<1>23. CASE UNCHANGED vars
  BY <1>23 DEF vars, call
<1>24. QED
  BY <1>1, <1>2, <1>3, <1>4, <1>5, <1>6, <1>7, <1>8, <1>9, <1>10, <1>11, <1>12,
     <1>13, <1>14, <1>15, <1>16, <1>17, <1>18, <1>19, <1>20, <1>21, <1>22, <1>23
     DEF Next, Begin, Serve, ActiveIds, Stored

-----------------------------------------------------------------------------
(* The absolute deadline *)

(* Whatever holds a record of a session, its deadline is that of its login. *)
DeadlineOK ==
  /\ \A s \in Ids :
       built[s] # Absent => built[s].until = built[s].lastSeen + Absolute
  /\ \A s \in Stored : store[s].until = built[s].until
  /\ \A c \in Calls :
       pc[c] \in {"touch", "mark"} => copy[c].until = built[of[c]].until

(* No step moves it. *)
LEMMA DeadlineStep ==
  ASSUME TypeOK, LocalsOK, BuiltOK, DeadlineOK, [Next]_vars
  PROVE  DeadlineOK'
<1> USE SessionsAssumption DEF TypeOK, LocalsOK, Awaiting, Pending, history, wiring,
        BuiltOK, Known, Stored, DeadlineOK
<1>1. ASSUME NEW c \in Calls, NEW s \in Ids, NEW out \in SUBSET ActiveIds,
             CreateWithinLimit(c, s, out)
      PROVE  DeadlineOK'
  BY <1>1, BuiltRecord, RevokedRecord
     DEF CreateWithinLimit, Step, Finish, Generated, ActiveIds
<1>2. ASSUME NEW c \in Calls, DenyWithinLimit(c) PROVE DeadlineOK'
  BY <1>2 DEF DenyWithinLimit, Step
<1>3. ASSUME NEW c \in Calls, NEW s \in Ids, BeginCreate(c, s) PROVE DeadlineOK'
  BY <1>3, BuiltRecord DEF BeginCreate, Step, Generated
<1>4. ASSUME NEW c \in Calls, Lock(c) PROVE DeadlineOK'
  BY <1>4 DEF Lock, Step
<1>5. ASSUME NEW c \in Calls, GoOnUnlocked(c) PROVE DeadlineOK'
  BY <1>5 DEF GoOnUnlocked, Step
<1>6. ASSUME NEW c \in Calls, BelowLimit(c) PROVE DeadlineOK'
  BY <1>6 DEF BelowLimit, Step
<1>7. ASSUME NEW c \in Calls, Deny(c) PROVE DeadlineOK'
  BY <1>7 DEF Deny, Conclude, Return
<1>8. ASSUME NEW c \in Calls, Evict(c) PROVE DeadlineOK'
  BY <1>8 DEF Evict, Step
<1>9. ASSUME NEW c \in Calls, Insert(c) PROVE DeadlineOK'
  BY <1>9 DEF Insert, Conclude, Return
<1>10. ASSUME NEW c \in Calls, Unlock(c) PROVE DeadlineOK'
  BY <1>10 DEF Unlock, Return
<1>11. ASSUME NEW c \in Calls, NEW s \in Ids, FindToTouch(c, s) PROVE DeadlineOK'
  BY <1>11, TouchedRecord DEF FindToTouch, Step, Hold, ActiveIds
<1>12. ASSUME NEW c \in Calls, WriteTouch(c) PROVE DeadlineOK'
  BY <1>12 DEF WriteTouch, Return
<1>13. ASSUME NEW c \in Calls, NEW sessions \in SUBSET Stored,
              BeginRevoke(c, sessions)
      PROVE  DeadlineOK'
  BY <1>13 DEF BeginRevoke, Step
<1>14. ASSUME NEW c \in Calls, NEW s \in Ids, SkipRevoked(c, s) PROVE DeadlineOK'
  BY <1>14 DEF SkipRevoked, Finish
<1>15. ASSUME NEW c \in Calls, NEW s \in Ids, FindToRevoke(c, s) PROVE DeadlineOK'
  BY <1>15, RevokedRecord DEF FindToRevoke, Step, Hold
<1>16. ASSUME NEW c \in Calls, WriteRevoked(c) PROVE DeadlineOK'
  BY <1>16 DEF WriteRevoked, Step, Finish, Hold
<1>17. ASSUME NEW c \in Calls, LoopDone(c) PROVE DeadlineOK'
  BY <1>17 DEF LoopDone, Return
<1>18. ASSUME NEW c \in Calls, Fail(c) PROVE DeadlineOK'
  BY <1>18 DEF Fail, Conclude, Return
<1>19. ASSUME NEW c \in Calls, Crash(c) PROVE DeadlineOK'
  BY <1>19 DEF Crash, Return
<1>20. ASSUME PurgeExpired PROVE DeadlineOK'
  BY <1>20 DEF PurgeExpired, call
<1>21. ASSUME Tick PROVE DeadlineOK'
  BY <1>21 DEF Tick, call
<1>22. ASSUME LeaseExpires PROVE DeadlineOK'
  BY <1>22 DEF LeaseExpires, call
<1>23. CASE UNCHANGED vars
  BY <1>23 DEF vars, call
<1>24. QED
  BY <1>1, <1>2, <1>3, <1>4, <1>5, <1>6, <1>7, <1>8, <1>9, <1>10, <1>11, <1>12,
     <1>13, <1>14, <1>15, <1>16, <1>17, <1>18, <1>19, <1>20, <1>21, <1>22, <1>23
     DEF Next, Begin, Serve, ActiveIds, Stored

-----------------------------------------------------------------------------
(* The concurrency limit *)

(* A login at work between the lock and the insert. *)
Entered(c) == new[c] # NoId /\ pc[c] \in Section

(* The sessions it has still to revoke. *)
Doomed(c) == todo[c] \cup (IF pc[c] = "mark" THEN {of[c]} ELSE {})
Room(c) == Cardinality(ActiveIds \ Doomed(c)) < MaxConcurrent

Exact == mode = "distributed-lock" /\ ~slipped /\ ~revived

(* While only owners enter, a login that has made its room keeps it: no     *)
(* other can store a session meanwhile.                                    *)
SectionOK ==
  Exact => \A c \in Calls : Entered(c) => owner = c /\ (pc[c] # "list" => Room(c))

LimitInv == IsFiniteSet(ActiveIds) /\ SectionOK /\ LimitHeld

(* Two facts about finite sets. *)
LEMMA SmallerSet ==
  ASSUME NEW S, IsFiniteSet(S), NEW T, T \subseteq S
  PROVE  /\ IsFiniteSet(T) /\ Cardinality(T) \in Nat /\ Cardinality(S) \in Nat
         /\ Cardinality(T) <= Cardinality(S)
BY FS_Subset, FS_CardinalityType

(* What adds at most one element adds at most one to the size. *)
LEMMA OneMore ==
  ASSUME NEW S, IsFiniteSet(S), NEW x, NEW T, T \subseteq S \cup {x}
  PROVE  /\ IsFiniteSet(T) /\ Cardinality(T) \in Nat /\ Cardinality(S) \in Nat
         /\ Cardinality(T) <= Cardinality(S) + 1
<1>1. /\ IsFiniteSet(S \cup {x}) /\ Cardinality(S) \in Nat
      /\ Cardinality(S \cup {x}) <= Cardinality(S) + 1
  <2>1. Cardinality(S) \in Nat
    BY FS_CardinalityType
  <2>2. QED
    BY <2>1, FS_AddElement
<1>2. QED
  BY <1>1, SmallerSet

(* Evicting the oldest leaves room for exactly one more. *)
LEMMA OldestLeaves ==
  ASSUME NEW live, IsFiniteSet(live), NEW out \in SUBSET live, Oldest(out, live)
  PROVE  /\ IsFiniteSet(live \ out)
         /\ Cardinality(live \ out) \in Nat
         /\ Cardinality(live \ out) + 1 = MaxConcurrent
<1>1. /\ IsFiniteSet(out) /\ Cardinality(out) \in Nat /\ Cardinality(live) \in Nat
      /\ IsFiniteSet(live \ out) /\ Cardinality(live \ out) \in Nat
  BY SmallerSet
<1>2. Cardinality(live \ out) = Cardinality(live) - Cardinality(out)
  <2>1. live \cap out = out
    OBVIOUS
  <2>2. QED
    BY <2>1, FS_Difference
<1>3. Cardinality(out) + MaxConcurrent = Cardinality(live) + 1
  BY DEF Oldest
<1>4. QED
  BY <1>1, <1>2, <1>3, SessionsAssumption

(* Only a login makes a session active, or a touch that revives one. *)
OnlyLoginsAdd ==
  \/ ActiveIds' \subseteq ActiveIds
  \/ revived' /\ \E s \in Ids : ActiveIds' \subseteq ActiveIds \cup {s}
  \/ \E c \in Calls : Insert(c)
  \/ \E c \in Calls, s \in Ids, out \in SUBSET ActiveIds :
       CreateWithinLimit(c, s, out)

(* Only the save of a login adds to the active sessions. *)
LEMMA ActiveStep ==
  ASSUME TypeOK, LocalsOK, [Next]_vars
  PROVE  OnlyLoginsAdd
<1> USE SessionsAssumption DEF TypeOK, LocalsOK, OnlyLoginsAdd, history, wiring,
        ActiveIds, Stored, Usable, Expired
<1>1. ASSUME NEW c \in Calls, NEW s \in Ids, NEW out \in SUBSET ActiveIds,
             CreateWithinLimit(c, s, out)
      PROVE  OnlyLoginsAdd
  BY <1>1
<1>2. ASSUME NEW c \in Calls, DenyWithinLimit(c) PROVE OnlyLoginsAdd
  BY <1>2 DEF DenyWithinLimit, Step
<1>3. ASSUME NEW c \in Calls, NEW s \in Ids, BeginCreate(c, s) PROVE OnlyLoginsAdd
  BY <1>3 DEF BeginCreate, Step
<1>4. ASSUME NEW c \in Calls, Lock(c) PROVE OnlyLoginsAdd
  BY <1>4 DEF Lock, Step
<1>5. ASSUME NEW c \in Calls, GoOnUnlocked(c) PROVE OnlyLoginsAdd
  BY <1>5 DEF GoOnUnlocked, Step
<1>6. ASSUME NEW c \in Calls, BelowLimit(c) PROVE OnlyLoginsAdd
  BY <1>6 DEF BelowLimit, Step
<1>7. ASSUME NEW c \in Calls, Deny(c) PROVE OnlyLoginsAdd
  BY <1>7 DEF Deny, Conclude, Return
<1>8. ASSUME NEW c \in Calls, Evict(c) PROVE OnlyLoginsAdd
  BY <1>8 DEF Evict, Step
<1>9. ASSUME NEW c \in Calls, Insert(c) PROVE OnlyLoginsAdd
  BY <1>9
<1>10. ASSUME NEW c \in Calls, Unlock(c) PROVE OnlyLoginsAdd
  BY <1>10 DEF Unlock, Return
<1>11. ASSUME NEW c \in Calls, NEW s \in Ids, FindToTouch(c, s) PROVE OnlyLoginsAdd
  BY <1>11 DEF FindToTouch, Step, Hold
<1>12. ASSUME NEW c \in Calls, WriteTouch(c) PROVE OnlyLoginsAdd
  BY <1>12 DEF WriteTouch, Return
<1>13. ASSUME NEW c \in Calls, NEW sessions \in SUBSET Stored,
              BeginRevoke(c, sessions)
      PROVE  OnlyLoginsAdd
  BY <1>13 DEF BeginRevoke, Step
<1>14. ASSUME NEW c \in Calls, NEW s \in Ids, SkipRevoked(c, s) PROVE OnlyLoginsAdd
  BY <1>14 DEF SkipRevoked, Finish
<1>15. ASSUME NEW c \in Calls, NEW s \in Ids, FindToRevoke(c, s) PROVE OnlyLoginsAdd
  BY <1>15 DEF FindToRevoke, Step, Hold
<1>16. ASSUME NEW c \in Calls, WriteRevoked(c) PROVE OnlyLoginsAdd
  BY <1>16 DEF WriteRevoked, Step, Finish, Hold
<1>17. ASSUME NEW c \in Calls, LoopDone(c) PROVE OnlyLoginsAdd
  BY <1>17 DEF LoopDone, Return
<1>18. ASSUME NEW c \in Calls, Fail(c) PROVE OnlyLoginsAdd
  BY <1>18 DEF Fail, Conclude, Return
<1>19. ASSUME NEW c \in Calls, Crash(c) PROVE OnlyLoginsAdd
  BY <1>19 DEF Crash, Return
<1>20. ASSUME PurgeExpired PROVE OnlyLoginsAdd
  BY <1>20 DEF PurgeExpired, call
<1>21. ASSUME Tick PROVE OnlyLoginsAdd
  BY <1>21 DEF Tick, call, Record
<1>22. ASSUME LeaseExpires PROVE OnlyLoginsAdd
  BY <1>22 DEF LeaseExpires, call
<1>23. CASE UNCHANGED vars
  BY <1>23 DEF vars, call
<1> HIDE DEF OnlyLoginsAdd
<1>24. QED
  BY <1>1, <1>2, <1>3, <1>4, <1>5, <1>6, <1>7, <1>8, <1>9, <1>10, <1>11, <1>12,
     <1>13, <1>14, <1>15, <1>16, <1>17, <1>18, <1>19, <1>20, <1>21, <1>22, <1>23
     DEF Next, Begin, Serve, ActiveIds, Stored

(* A step that makes none active takes no room from a login that has some. *)
SectionKept ==
  Exact' => \A c \in Calls : Entered(c)' =>
    /\ owner' = c
    /\ \/ pc'[c] = "list"
       \/ Room(c)'
       \/ /\ Entered(c) /\ pc[c] # "list"
          /\ ActiveIds' \ Doomed(c)' \subseteq ActiveIds \ Doomed(c)

(* A step that adds nothing keeps the count of a call in its section. *)
LEMMA SectionStep ==
  ASSUME TypeOK, LocalsOK, LimitInv, ActiveIds' \subseteq ActiveIds, [Next]_vars
  PROVE  SectionKept
<1> USE SessionsAssumption DEF TypeOK, LocalsOK, LimitInv, SectionKept, SectionOK,
        Exact, Entered, Doomed, Section, Awaiting, history, wiring
<1>1. ASSUME NEW c \in Calls, NEW s \in Ids, NEW out \in SUBSET ActiveIds,
             CreateWithinLimit(c, s, out)
      PROVE  SectionKept
  BY <1>1 DEF CreateWithinLimit, Step, Finish
<1>2. ASSUME NEW c \in Calls, DenyWithinLimit(c) PROVE SectionKept
  BY <1>2 DEF DenyWithinLimit, Step
<1>3. ASSUME NEW c \in Calls, NEW s \in Ids, BeginCreate(c, s) PROVE SectionKept
  BY <1>3 DEF BeginCreate, Step
<1>4. ASSUME NEW c \in Calls, Lock(c) PROVE SectionKept
  BY <1>4 DEF Lock, Step
<1>5. ASSUME NEW c \in Calls, GoOnUnlocked(c) PROVE SectionKept
  BY <1>5 DEF GoOnUnlocked, Step
<1>6. ASSUME NEW c \in Calls, BelowLimit(c) PROVE SectionKept
  <2>1. /\ ActiveIds' = ActiveIds /\ ~AtLimit /\ pc'[c] = "insert"
        /\ \A d \in Calls \ {c} : pc'[d] = pc[d]
        /\ UNCHANGED <<mode, slipped, revived, owner, new, todo, of>>
    BY <1>6 DEF BelowLimit, Step, ActiveIds, Stored, Usable, Expired
  <2>2. Room(c)'
    BY <2>1, SmallerSet DEF Room, AtLimit
  <2>3. QED
    BY <1>6, <2>1, <2>2 DEF BelowLimit, Step
<1>7. ASSUME NEW c \in Calls, Deny(c) PROVE SectionKept
  BY <1>7 DEF Deny, Conclude, Return
<1>8. ASSUME NEW c \in Calls, Evict(c) PROVE SectionKept
  <2>1. PICK out \in SUBSET ActiveIds :
          Oldest(out, ActiveIds) /\ todo' = [todo EXCEPT ![c] = out]
    BY <1>8 DEF Evict
  <2>2. /\ ActiveIds' = ActiveIds /\ pc[c] = "list" /\ pc'[c] = "loop"
        /\ \A d \in Calls \ {c} : pc'[d] = pc[d] /\ todo'[d] = todo[d]
        /\ UNCHANGED <<mode, slipped, revived, owner, new, of>>
    BY <1>8, <2>1 DEF Evict, Step, ActiveIds, Stored, Usable, Expired
  <2>3. Room(c)'
    <3>1. (ActiveIds \ Doomed(c))' = ActiveIds \ out
      BY <2>1, <2>2, <1>8 DEF ActiveIds, Stored
    <3>2. Cardinality(ActiveIds \ out) + 1 = MaxConcurrent
      BY <2>1, OldestLeaves
    <3>3. QED
      BY <3>1, <3>2, SmallerSet DEF Room
  <2>4. QED
    BY <2>1, <2>2, <2>3
<1>9. ASSUME NEW c \in Calls, Insert(c) PROVE SectionKept
  BY <1>9 DEF Insert, Conclude, Return
<1>10. ASSUME NEW c \in Calls, Unlock(c) PROVE SectionKept
  BY <1>10 DEF Unlock, Return
<1>11. ASSUME NEW c \in Calls, NEW s \in Ids, FindToTouch(c, s) PROVE SectionKept
  BY <1>11 DEF FindToTouch, Step, Hold
<1>12. ASSUME NEW c \in Calls, WriteTouch(c) PROVE SectionKept
  BY <1>12 DEF WriteTouch, Return
<1>13. ASSUME NEW c \in Calls, NEW sessions \in SUBSET Stored,
              BeginRevoke(c, sessions)
      PROVE  SectionKept
  BY <1>13 DEF BeginRevoke, Step
<1>14. ASSUME NEW c \in Calls, NEW s \in Ids, SkipRevoked(c, s) PROVE SectionKept
  BY <1>14 DEF SkipRevoked, Finish, ActiveIds, Usable
<1>15. ASSUME NEW c \in Calls, NEW s \in Ids, FindToRevoke(c, s) PROVE SectionKept
  BY <1>15 DEF FindToRevoke, Step, Hold
<1>16. ASSUME NEW c \in Calls, WriteRevoked(c) PROVE SectionKept
  BY <1>16 DEF WriteRevoked, Step, Finish, Hold, ActiveIds, Usable
<1>17. ASSUME NEW c \in Calls, LoopDone(c) PROVE SectionKept
  BY <1>17 DEF LoopDone, Return
<1>18. ASSUME NEW c \in Calls, Fail(c) PROVE SectionKept
  BY <1>18 DEF Fail, Conclude, Return
<1>19. ASSUME NEW c \in Calls, Crash(c) PROVE SectionKept
  BY <1>19 DEF Crash, Return
<1>20. ASSUME PurgeExpired PROVE SectionKept
  BY <1>20 DEF PurgeExpired, call
<1>21. ASSUME Tick PROVE SectionKept
  BY <1>21 DEF Tick, call
<1>22. ASSUME LeaseExpires PROVE SectionKept
  BY <1>22 DEF LeaseExpires, call
<1>23. CASE UNCHANGED vars
  BY <1>23 DEF vars, call
<1>24. QED
  BY <1>1, <1>2, <1>3, <1>4, <1>5, <1>6, <1>7, <1>8, <1>9, <1>10, <1>11, <1>12,
     <1>13, <1>14, <1>15, <1>16, <1>17, <1>18, <1>19, <1>20, <1>21, <1>22, <1>23
     DEF Next, Begin, Serve, ActiveIds, Stored

(* The history only grows. *)
HistoryKept == mode' = mode /\ (slipped => slipped') /\ (revived => revived')

(* What happened once has happened. *)
LEMMA HistoryStep ==
  ASSUME TypeOK, [Next]_vars
  PROVE  HistoryKept
<1> USE DEF HistoryKept, TypeOK, history, wiring
<1>1. ASSUME NEW c \in Calls, NEW s \in Ids, NEW out \in SUBSET ActiveIds,
             CreateWithinLimit(c, s, out)
      PROVE  HistoryKept
  BY <1>1 DEF CreateWithinLimit, Step, Finish
<1>2. ASSUME NEW c \in Calls, DenyWithinLimit(c) PROVE HistoryKept
  BY <1>2 DEF DenyWithinLimit, Step
<1>3. ASSUME NEW c \in Calls, NEW s \in Ids, BeginCreate(c, s) PROVE HistoryKept
  BY <1>3 DEF BeginCreate, Step
<1>4. ASSUME NEW c \in Calls, Lock(c) PROVE HistoryKept
  BY <1>4 DEF Lock, Step
<1>5. ASSUME NEW c \in Calls, GoOnUnlocked(c) PROVE HistoryKept
  BY <1>5 DEF GoOnUnlocked, Step
<1>6. ASSUME NEW c \in Calls, BelowLimit(c) PROVE HistoryKept
  BY <1>6 DEF BelowLimit, Step
<1>7. ASSUME NEW c \in Calls, Deny(c) PROVE HistoryKept
  BY <1>7 DEF Deny, Conclude, Return
<1>8. ASSUME NEW c \in Calls, Evict(c) PROVE HistoryKept
  BY <1>8 DEF Evict, Step
<1>9. ASSUME NEW c \in Calls, Insert(c) PROVE HistoryKept
  BY <1>9 DEF Insert, Conclude, Return
<1>10. ASSUME NEW c \in Calls, Unlock(c) PROVE HistoryKept
  BY <1>10 DEF Unlock, Return
<1>11. ASSUME NEW c \in Calls, NEW s \in Ids, FindToTouch(c, s) PROVE HistoryKept
  BY <1>11 DEF FindToTouch, Step, Hold
<1>12. ASSUME NEW c \in Calls, WriteTouch(c) PROVE HistoryKept
  BY <1>12 DEF WriteTouch, Return
<1>13. ASSUME NEW c \in Calls, NEW sessions \in SUBSET Stored,
              BeginRevoke(c, sessions)
      PROVE  HistoryKept
  BY <1>13 DEF BeginRevoke, Step
<1>14. ASSUME NEW c \in Calls, NEW s \in Ids, SkipRevoked(c, s) PROVE HistoryKept
  BY <1>14 DEF SkipRevoked, Finish
<1>15. ASSUME NEW c \in Calls, NEW s \in Ids, FindToRevoke(c, s) PROVE HistoryKept
  BY <1>15 DEF FindToRevoke, Step, Hold
<1>16. ASSUME NEW c \in Calls, WriteRevoked(c) PROVE HistoryKept
  BY <1>16 DEF WriteRevoked, Step, Finish, Hold
<1>17. ASSUME NEW c \in Calls, LoopDone(c) PROVE HistoryKept
  BY <1>17 DEF LoopDone, Return
<1>18. ASSUME NEW c \in Calls, Fail(c) PROVE HistoryKept
  BY <1>18 DEF Fail, Conclude, Return
<1>19. ASSUME NEW c \in Calls, Crash(c) PROVE HistoryKept
  BY <1>19 DEF Crash, Return
<1>20. ASSUME PurgeExpired PROVE HistoryKept
  BY <1>20 DEF PurgeExpired, call
<1>21. ASSUME Tick PROVE HistoryKept
  BY <1>21 DEF Tick, call
<1>22. ASSUME LeaseExpires PROVE HistoryKept
  BY <1>22 DEF LeaseExpires, call
<1>23. CASE UNCHANGED vars
  BY <1>23 DEF vars, call
<1>24. QED
  BY <1>1, <1>2, <1>3, <1>4, <1>5, <1>6, <1>7, <1>8, <1>9, <1>10, <1>11, <1>12,
     <1>13, <1>14, <1>15, <1>16, <1>17, <1>18, <1>19, <1>20, <1>21, <1>22, <1>23
     DEF Next, Begin, Serve, ActiveIds, Stored


(* A step that makes no session active keeps the limit, *)
LEMMA LimitKept ==
  ASSUME TypeOK, LocalsOK, LimitInv, [Next]_vars, ActiveIds' \subseteq ActiveIds
  PROVE  LimitInv'
<1>1. /\ IsFiniteSet(ActiveIds') /\ Cardinality(ActiveIds)' \in Nat
      /\ Cardinality(ActiveIds) \in Nat
      /\ Cardinality(ActiveIds)' <= Cardinality(ActiveIds)
  BY SmallerSet DEF LimitInv
<1>2. SectionKept /\ HistoryKept
  BY SectionStep, HistoryStep
<1>3. LimitHeld'
  BY <1>1, <1>2, SessionsAssumption DEF LimitInv, LimitHeld, HistoryKept
<1>4. SectionOK'
  <2> SUFFICES ASSUME Exact', NEW c \in Calls, Entered(c)', pc'[c] # "list"
               PROVE  Room(c)'
    BY <1>2 DEF SectionOK, SectionKept
  <2>1. CASE /\ Entered(c) /\ pc[c] # "list"
             /\ ActiveIds' \ Doomed(c)' \subseteq ActiveIds \ Doomed(c)
    <3>1. Room(c)
      BY <1>2, <2>1 DEF LimitInv, SectionOK, HistoryKept, Exact
    <3>2. IsFiniteSet(ActiveIds \ Doomed(c))
      BY SmallerSet DEF LimitInv
    <3>3. /\ Cardinality(ActiveIds \ Doomed(c)) \in Nat
          /\ Cardinality(ActiveIds' \ Doomed(c)') \in Nat
          /\ Cardinality(ActiveIds' \ Doomed(c)') <=
               Cardinality(ActiveIds \ Doomed(c))
      BY <2>1, <3>2, SmallerSet
    <3>4. QED
      BY <3>1, <3>3, SessionsAssumption DEF Room
  <2>2. QED
    BY <1>2, <2>1 DEF SectionKept
<1>5. QED
  BY <1>1, <1>3, <1>4 DEF LimitInv

(* the login that has the lock has room for its session, *)
LEMMA InsertLimit ==
  ASSUME TypeOK, LocalsOK, LimitInv, NEW c \in Calls, Insert(c)
  PROVE  LimitInv'
<1>1. /\ pc[c] = "insert" /\ new[c] \in Ids
      /\ UNCHANGED <<mode, owner, slipped, revived>>
      /\ pc'[c] \notin Section
      /\ \A d \in Calls \ {c} : pc'[d] = pc[d] /\ new'[d] = new[d]
  BY DEF Insert, Conclude, Return, LocalsOK, TypeOK, wiring, history, Section
<1>2. ActiveIds' \subseteq ActiveIds \cup {new[c]}
  BY DEF Insert, ActiveIds, Stored, Usable, Expired, TypeOK, wiring, history
<1>3. /\ IsFiniteSet(ActiveIds') /\ Cardinality(ActiveIds') \in Nat
      /\ Cardinality(ActiveIds) \in Nat
      /\ Cardinality(ActiveIds') <= Cardinality(ActiveIds) + 1
  BY <1>2, OneMore DEF LimitInv
<1>4. Entered(c) /\ mode # "store-transaction"
  BY <1>1, SessionsAssumption DEF Entered, Section, LocalsOK
<1>5. Exact => owner = c /\ Cardinality(ActiveIds) < MaxConcurrent
  <2>1. ActiveIds \ Doomed(c) = ActiveIds
    BY <1>1 DEF Doomed, LocalsOK
  <2>2. QED
    BY <1>1, <1>4, <2>1 DEF LimitInv, SectionOK, Room
<1>6. LimitHeld'
  <2>1. mode' # "best-effort" /\ ~slipped' /\ ~revived' => Exact
    BY <1>1, <1>4 DEF Exact, TypeOK, Modes
  <2>2. QED
    BY <1>3, <1>5, <2>1, SessionsAssumption DEF LimitHeld
<1>7. SectionOK'
  <2>1. Exact' => Exact
    BY <1>1 DEF Exact
  <2>2. \A d \in Calls : Entered(d)' => d # c /\ Entered(d)
    BY <1>1 DEF Entered
  <2>3. QED
    BY <1>5, <2>1, <2>2 DEF SectionOK, LimitInv
<1>8. QED
  BY <1>3, <1>6, <1>7 DEF LimitInv

(* and the store's transaction makes the room it needs. *)
LEMMA TransactionLimit ==
  ASSUME TypeOK, LocalsOK, LimitInv, NEW c \in Calls, NEW s \in Ids,
         NEW out \in SUBSET ActiveIds, CreateWithinLimit(c, s, out)
  PROVE  LimitInv'
<1>1. /\ mode = "store-transaction"
      /\ UNCHANGED <<mode, slipped, revived>>
  BY DEF CreateWithinLimit, wiring
<1>2. ActiveIds' \subseteq (ActiveIds \ out) \cup {s}
  <2>1. \A u \in Ids \ {s} :
          store'[u] = IF u \in out THEN Revoked(store[u]) ELSE store[u]
    BY DEF CreateWithinLimit
  <2>2. \A u \in out : store[u] \in Record
    BY DEF ActiveIds, Stored, TypeOK
  <2>3. now' = now
    BY DEF CreateWithinLimit
  <2>4. QED
    BY <2>1, <2>2, <2>3, RevokedRecord DEF ActiveIds, Stored, Usable, Expired
<1>3. /\ IsFiniteSet(ActiveIds \ out)
      /\ Cardinality(ActiveIds \ out) \in Nat
      /\ Cardinality(ActiveIds \ out) < MaxConcurrent
  <2>1. CASE AtLimit
    BY <2>1, OldestLeaves, SessionsAssumption DEF CreateWithinLimit, LimitInv
  <2>2. CASE ~AtLimit
    <3>1. out = {} /\ Cardinality(ActiveIds) \in Nat /\ IsFiniteSet(ActiveIds)
      BY <2>2, SmallerSet DEF CreateWithinLimit, LimitInv
    <3>2. ActiveIds \ out = ActiveIds
      BY <3>1
    <3>3. QED
      BY <2>2, <3>1, <3>2, SessionsAssumption DEF AtLimit
  <2>3. QED
    BY <2>1, <2>2
<1>4. /\ IsFiniteSet(ActiveIds') /\ Cardinality(ActiveIds') \in Nat
      /\ Cardinality(ActiveIds') <= Cardinality(ActiveIds \ out) + 1
  BY <1>2, <1>3, OneMore
<1>5. LimitHeld'
  BY <1>3, <1>4, SessionsAssumption DEF LimitHeld
<1>6. SectionOK'
  BY <1>1 DEF SectionOK, Exact
<1>7. QED
  BY <1>4, <1>5, <1>6 DEF LimitInv

(* Every step keeps it: one that adds nothing, and the save of a login. *)
LEMMA LimitStep ==
  ASSUME TypeOK, LocalsOK, LimitInv, [Next]_vars
  PROVE  LimitInv'
<1>1. CASE ActiveIds' \subseteq ActiveIds
  BY <1>1, LimitKept
<1>2. CASE revived' /\ \E s \in Ids : ActiveIds' \subseteq ActiveIds \cup {s}
  <2>1. IsFiniteSet(ActiveIds')
    BY <1>2, OneMore DEF LimitInv
  <2>2. QED
    BY <1>2, <2>1 DEF LimitInv, SectionOK, LimitHeld, Exact
<1>3. ASSUME NEW c \in Calls, Insert(c) PROVE LimitInv'
  BY <1>3, InsertLimit
<1>4. ASSUME NEW c \in Calls, NEW s \in Ids, NEW out \in SUBSET ActiveIds,
             CreateWithinLimit(c, s, out)
      PROVE  LimitInv'
  BY <1>4, TransactionLimit
<1>5. QED
  BY <1>1, <1>2, <1>3, <1>4, ActiveStep DEF OnlyLoginsAdd

-----------------------------------------------------------------------------
(* The theorems *)

(* With no session and no call under way every invariant holds. *)
LEMMA InitInvs == Init => IInv /\ SurvivorInv /\ DeadlineOK /\ LimitInv
<1> SUFFICES ASSUME Init PROVE IInv /\ SurvivorInv /\ DeadlineOK /\ LimitInv
  OBVIOUS
<1>1. Stored = {} /\ ActiveIds = {}
  BY DEF Init, Stored, ActiveIds
<1>2. IInv
  <2>1. TypeOK
    <3>1. now \in 0..MaxTime
      BY SessionsAssumption DEF Init
    <3>2. QED
      BY <3>1 DEF Init, TypeOK, Stages
  <2>2. LocalsOK
    BY DEF Init, LocalsOK, Awaiting
  <2>3. BuiltOK
    BY <1>1, SessionsAssumption DEF Init, BuiltOK, Known, Pending
  <2>4. QED
    BY <2>1, <2>2, <2>3 DEF IInv
<1>3. SurvivorInv /\ DeadlineOK
  BY <1>1 DEF Init, SurvivorInv, TouchOK, SurvivorsRaced, DeadlineOK
<1>4. LimitInv
  <2>1. IsFiniteSet(ActiveIds) /\ Cardinality(ActiveIds) = 0
    BY <1>1, FS_EmptySet
  <2>2. SectionOK
    BY DEF Init, SectionOK, Entered
  <2>3. QED
    BY <2>1, <2>2, SessionsAssumption DEF LimitInv, LimitHeld
<1>5. QED
  BY <1>2, <1>3, <1>4

(* All of the invariants together. *)
LEMMA Inductive == Spec => [](IInv /\ SurvivorInv /\ DeadlineOK /\ LimitInv)
<1>1. IInv /\ [Next]_vars => IInv'
  BY TypeStep, BuiltStep DEF IInv
<1>2. IInv /\ SurvivorInv /\ [Next]_vars => SurvivorInv'
  BY SurvivorStep DEF IInv
<1>3. IInv /\ DeadlineOK /\ [Next]_vars => DeadlineOK'
  BY DeadlineStep DEF IInv
<1>4. IInv /\ LimitInv /\ [Next]_vars => LimitInv'
  BY LimitStep DEF IInv
<1>5. QED
  BY InitInvs, <1>1, <1>2, <1>3, <1>4, PTL DEF Spec

(* Every variable keeps its type. *)
THEOREM TypeCorrect == Spec => []TypeOK
<1>1. IInv => TypeOK
  BY DEF IInv
<1>2. QED
  BY Inductive, <1>1, PTL

(* A revoked session is active again only by the write of a touch that had *)
(* validated it before the revocation ended.                               *)
THEOREM SurvivorsRacedCorrect == Spec => []SurvivorsRaced
<1>1. SurvivorInv => SurvivorsRaced
  BY DEF SurvivorInv
<1>2. QED
  BY Inductive, <1>1, PTL

(* In both exact modes a user never has more active sessions than allowed, *)
(* whatever logins, evictions, sweeps, failures and deaths interleave.     *)
THEOREM LimitHeldCorrect == Spec => []LimitHeld
<1>1. LimitInv => LimitHeld
  BY DEF LimitInv
<1>2. QED
  BY Inductive, <1>1, PTL

(* No session is active longer than Absolute after its login. *)
THEOREM DeadlineHoldsCorrect == Spec => []DeadlineHolds
<1>1. IInv /\ DeadlineOK => DeadlineHolds
  <2> SUFFICES ASSUME IInv, DeadlineOK, NEW s \in ActiveIds
               PROVE  now < built[s].lastSeen + Absolute
    BY DEF DeadlineHolds
  <2>1. s \in Ids /\ s \in Stored /\ store[s] \in Record /\ ~Expired(store[s])
    BY DEF ActiveIds, Usable, Stored, IInv, TypeOK
  <2>2. built[s] # Absent
    BY <2>1 DEF IInv, BuiltOK, Known
  <2>3. store[s].until = built[s].lastSeen + Absolute
    BY <2>1, <2>2 DEF DeadlineOK
  <2>4. QED
    BY <2>1, <2>3 DEF Expired, Record, IInv, TypeOK
<1>2. QED
  BY Inductive, <1>1, PTL
=============================================================================
