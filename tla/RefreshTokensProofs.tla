------------------------ MODULE RefreshTokensProofs ------------------------
(***************************************************************************)
(* Proofs about RefreshTokens, for every number of calls, tokens, families *)
(* and devices, every lifetime and every bound.                            *)
(***************************************************************************)
EXTENDS RefreshTokens, TLAPS

-----------------------------------------------------------------------------
(* The inductive invariant *)

Suspended == {"claim", "save", "reuse", "mismatch", "notify", "write"}

(* A suspended call holds the record of a token a client received.  The    *)
(* copy may be stale, but its family is right and a rotation mark on it is  *)
(* the trace of a granted claim.                                           *)
CallOK ==
  \A c \in Calls : pc[c] \in Suspended =>
    /\ seen[c] \in Record
    /\ token[c] \in Received
    /\ lineage[token[c]] = seen[c].family
    /\ seen[c].rotated => winners[token[c]] # {}

(* A replacement being minted is reserved for one call and not yet saved.  *)
HeirOK ==
  \A c \in Calls : pc[c] = "save" =>
    /\ heir[c] \in Tokens \ Received
    /\ lineage[heir[c]] = seen[c].family
    /\ \A d \in Calls : pc[d] = "save" /\ heir[d] = heir[c] => d = c

(* Records agree with the history of their tokens. *)
StoreOK ==
  \A t \in Tokens :
    /\ t \in Received => lineage[t] \in Families
    /\ t \in Stored => lineage[t] = store[t].family
    /\ t \in Stored /\ store[t].rotated => winners[t] # {}
    /\ winners[t] # {} => t \in Received

(* Unless a blind update erased it, a granted claim leaves a mark. *)
MarkOK ==
  \A t \in Stored :
    lineage[t] \notin reopened /\ winners[t] # {} => store[t].rotated

(* The tokens of f no claim was ever granted for: received by a client or   *)
(* being minted.  Purging keeps them, so it is this set, not Heads, that an *)
(* exchange replaces one for one.                                          *)
Unspent(f) ==
  {t \in Received : lineage[t] = f /\ winners[t] = {}}
    \cup {heir[c] : c \in {d \in Calls : pc[d] = "save" /\ seen[d].family = f}}

OneUnspent == \A f \in Families \ reopened : AtMostOne(Unspent(f))

Core == CallOK /\ HeirOK /\ StoreOK /\ MarkOK /\ OneUnspent /\ ClaimedOnce

IInv == TypeOK /\ Core

-----------------------------------------------------------------------------
(* What the store's writes do to a record *)

(* Revoking a record changes its revoked field and nothing else. *)
LEMMA RevokedRecord ==
  ASSUME NEW r \in Record
  PROVE  /\ Revoked(r) \in Record
         /\ Revoked(r).family = r.family
         /\ Revoked(r).device = r.device
         /\ Revoked(r).version = r.version
         /\ Revoked(r).rotated = r.rotated
         /\ Revoked(r).revoked
BY DEF Record, Revoked

(* Rotating a record changes its rotated field and nothing else. *)
LEMMA RotatedRecord ==
  ASSUME NEW r \in Record
  PROVE  /\ Rotated(r) \in Record
         /\ Rotated(r).family = r.family
         /\ Rotated(r).device = r.device
         /\ Rotated(r).version = r.version
         /\ Rotated(r).revoked = r.revoked
         /\ Rotated(r).rotated
BY DEF Record, Rotated

(* A statement over all records keeps every record, and marks those of the *)
(* families it names.                                                      *)
LEMMA RevokeFamiliesEffect ==
  ASSUME TypeOK, NEW fs \in SUBSET Families, RevokeFamilies(fs)
  PROVE  /\ store' \in [Tokens -> Record \cup {Absent}]
         /\ ended' \subseteq Families
         /\ midway' \in [Families -> SUBSET Calls]
         /\ Stored' = Stored
         /\ \A t \in Stored : /\ store'[t].family = store[t].family
                              /\ store'[t].device = store[t].device
                              /\ store'[t].version = store[t].version
                              /\ store'[t].rotated = store[t].rotated
                              /\ store[t].revoked => store'[t].revoked
                              /\ store[t].family \in fs => store'[t].revoked
<1>1. store \in [Tokens -> Record \cup {Absent}] /\ Absent \notin Record
  BY ConstantsAssumption DEF TypeOK
<1>2. \A t \in Tokens :
        store'[t] = IF t \in Stored /\ store[t].family \in fs
                    THEN Revoked(store[t]) ELSE store[t]
  BY DEF RevokeFamilies
<1>3. \A t \in Stored : store[t] \in Record
  BY <1>1 DEF Stored
<1>4. \A t \in Tokens : store'[t] \in Record \cup {Absent}
  BY <1>1, <1>2, <1>3, RevokedRecord
<1>5. store' \in [Tokens -> Record \cup {Absent}]
  BY <1>4 DEF RevokeFamilies
<1>6. Stored' = Stored
  BY <1>1, <1>2, <1>3, RevokedRecord DEF Stored
<1>7. ended' \subseteq Families /\ midway' \in [Families -> SUBSET Calls]
  BY DEF RevokeFamilies, Exchanging, TypeOK
<1>8. QED
  BY <1>2, <1>3, <1>5, <1>6, <1>7, RevokedRecord DEF Stored

(* The type invariant needs to know what suspended calls hold. *)
LEMMA TypeStep == ASSUME IInv, [Next]_vars PROVE TypeOK'
<1> USE ConstantsAssumption DEF IInv, Core, TypeOK, CallOK, HeirOK, Versions, Stages,
          Finished, Suspended, Received, Stored, TokensOf, Record
<1>1. ASSUME NEW f \in Families, NEW t \in Tokens, NEW d \in Devices \cup {NoDevice},
             SignIn(f, t, d)
      PROVE  TypeOK'
  BY <1>1 DEF SignIn, Issued, call, revocation
<1>2. ASSUME BumpVersion PROVE TypeOK'
  BY <1>2 DEF BumpVersion, call, history, revocation
<1>3. ASSUME NEW f \in Families, SignOutFamily(f) PROVE TypeOK'
  <2>1. {f} \in SUBSET Families
    BY <1>3 DEF SignOutFamily, Step, Return
  <2>2. QED
    BY <1>3, <2>1, RevokeFamiliesEffect DEF SignOutFamily, Step, Return, call
<1>4. ASSUME SignOutEverywhere PROVE TypeOK'
  <2>1. {store[t].family : t \in Stored} \in SUBSET Families
    BY <1>4 DEF SignOutEverywhere, Step, Return
  <2>2. QED
    BY <1>4, <2>1, RevokeFamiliesEffect DEF SignOutEverywhere, Step, Return, call
<1>5. ASSUME PurgeExpired PROVE TypeOK'
  BY <1>5 DEF PurgeExpired, call, history, revocation
<1>6. ASSUME Tick PROVE TypeOK'
  BY <1>6 DEF Tick, call, history, revocation
<1>7. ASSUME NEW c \in Calls, NEW t \in Received, FindReplay(c, t)
      PROVE  TypeOK'
  BY <1>7 DEF FindReplay, Proceed, Step, history, revocation
<1>8. ASSUME NEW c \in Calls, NEW t \in Received, FindToRevoke(c, t)
      PROVE  TypeOK'
  BY <1>8 DEF FindToRevoke, Proceed, Step, history, revocation
<1>9. ASSUME NEW c \in Calls, NEW t \in Received, RevokeNothing(c, t)
      PROVE  TypeOK'
  BY <1>9 DEF RevokeNothing, Return, Step, history, revocation
<1>10. ASSUME NEW c \in Calls, NEW t \in Received, NEW v, FindInvalid(c, t, v)
      PROVE  TypeOK'
  BY <1>10 DEF FindInvalid, Return, Step, history, revocation
<1>11. ASSUME NEW c \in Calls, NEW t \in Received, NEW d, NEW v, FindMismatch(c, t, d, v)
      PROVE  TypeOK'
  BY <1>11 DEF FindMismatch, Proceed, Step, history, revocation
<1>12. ASSUME NEW c \in Calls, NEW t \in Received, NEW d, NEW v, FindValid(c, t, d, v)
      PROVE  TypeOK'
  BY <1>12 DEF FindValid, Proceed, Step, history, revocation
<1>13. ASSUME NEW c \in Calls, NEW u \in Tokens, Claim(c, u) PROVE TypeOK'
  <2>1. token[c] \in Tokens /\ store[token[c]] \in Record
    BY <1>13 DEF Claim, Claimable
  <2>2. QED
    BY <1>13, <2>1, RotatedRecord DEF Claim, Step, revocation
<1>14. ASSUME NEW c \in Calls, LoseClaim(c) PROVE TypeOK'
  BY <1>14 DEF LoseClaim, Step, history, revocation
<1>15. ASSUME NEW c \in Calls, SaveHeir(c) PROVE TypeOK'
  BY <1>15 DEF SaveHeir, Return, Step, Issued, history, revocation
<1>16. ASSUME NEW c \in Calls, RevokeReused(c) PROVE TypeOK'
  <2>1. {seen[c].family} \in SUBSET Families
    BY <1>16 DEF RevokeReused, Step, Return
  <2>2. QED
    BY <1>16, <2>1, RevokeFamiliesEffect DEF RevokeReused, Step, Return, call
<1>17. ASSUME NEW c \in Calls, NotifyReuse(c) PROVE TypeOK'
  BY <1>17 DEF NotifyReuse, Return, Step, history, revocation
<1>18. ASSUME NEW c \in Calls, RevokeMismatch(c) PROVE TypeOK'
  <2>1. {seen[c].family} \in SUBSET Families
    BY <1>18 DEF RevokeMismatch, Step, Return
  <2>2. QED
    BY <1>18, <2>1, RevokeFamiliesEffect DEF RevokeMismatch, Step, Return, call
<1>19. ASSUME NEW c \in Calls, WriteRevoked(c) PROVE TypeOK'
  BY <1>19, RevokedRecord DEF WriteRevoked, Return, Step, revocation
<1>20. ASSUME NEW c \in Calls, Crash(c) PROVE TypeOK'
  BY <1>20 DEF Crash, Return, Step, history, revocation
<1>21. CASE UNCHANGED vars
  BY <1>21 DEF vars, call, history, revocation
<1>22. QED
  BY <1>1, <1>2, <1>3, <1>4, <1>5, <1>6, <1>7, <1>8, <1>9, <1>10,
     <1>11, <1>12, <1>13, <1>14, <1>15, <1>16, <1>17, <1>18, <1>19, <1>20, <1>21
  DEF Next, Account, Present, Serve

-----------------------------------------------------------------------------
(* Steps that write nothing to the store but revocation marks *)

KeepsTokens ==
  /\ Stored' = Stored
  /\ \A t \in Stored : /\ store'[t].family = store[t].family
                       /\ store'[t].rotated = store[t].rotated
  /\ UNCHANGED <<lineage, winners, reopened, purged>>

(* Such a step leaves the records' part of the invariant as it is... *)
LEMMA KeepsTokensCore ==
  ASSUME IInv, KeepsTokens
  PROVE  StoreOK' /\ MarkOK' /\ ClaimedOnce' /\ Received' = Received
BY DEF IInv, Core, KeepsTokens, StoreOK, MarkOK, ClaimedOnce, AtMostOne, Stored,
       Received

(* ... and the calls' part, whether no call moves, *)
LEMMA IdleStep ==
  ASSUME IInv, KeepsTokens, UNCHANGED call
  PROVE  Core'
<1>1. StoreOK' /\ MarkOK' /\ ClaimedOnce' /\ Received' = Received
  BY KeepsTokensCore
<1>2. CallOK' /\ HeirOK' /\ OneUnspent'
  BY <1>1 DEF IInv, Core, KeepsTokens, call, CallOK, HeirOK, OneUnspent, Unspent,
              AtMostOne
<1>3. QED
  BY <1>1, <1>2 DEF Core

(* a call reads a record, *)
LEMMA ReadStep ==
  ASSUME IInv, NEW c \in Calls, NEW t \in Stored, NEW to \in Suspended \ {"save"},
         Proceed(c, t, to)
  PROVE  Core'
<1>1. KeepsTokens
  BY DEF Proceed, history, KeepsTokens, Stored
<1>2. StoreOK' /\ MarkOK' /\ ClaimedOnce' /\ Received' = Received
  BY <1>1, KeepsTokensCore
<1>3. store[t] \in Record /\ t \in Received /\ lineage[t] = store[t].family
  BY DEF IInv, Core, TypeOK, StoreOK, Stored, Received
<1>4. /\ pc' = [pc EXCEPT ![c] = to] /\ token' = [token EXCEPT ![c] = t]
      /\ seen' = [seen EXCEPT ![c] = store[t]] /\ heir' = heir
      /\ to # "save"
  BY DEF Proceed, Step
<1>5. CallOK'
  BY <1>1, <1>2, <1>3, <1>4
     DEF IInv, Core, TypeOK, KeepsTokens, CallOK, StoreOK, Stored
<1>6. HeirOK'
  BY <1>1, <1>2, <1>4 DEF IInv, Core, TypeOK, KeepsTokens, HeirOK
<1>7. OneUnspent'
  <2>1. \A d \in Calls : pc'[d] = "save" => pc[d] = "save" /\ seen'[d] = seen[d]
    BY <1>4 DEF IInv, TypeOK
  <2>2. \A f : Unspent(f)' \subseteq Unspent(f)
    BY <1>1, <1>2, <1>4, <2>1 DEF KeepsTokens, Unspent
  <2>3. QED
    BY <1>1, <2>2 DEF IInv, Core, KeepsTokens, OneUnspent, AtMostOne
<1>8. QED
  BY <1>2, <1>5, <1>6, <1>7 DEF Core

(* a call goes on to another await with what it holds, *)
LEMMA AdvanceStep ==
  ASSUME IInv, KeepsTokens, NEW c \in Calls, NEW from \in Suspended,
         NEW to \in Suspended \ {"save"}, Step(c, from, to),
         UNCHANGED <<token, seen, heir>>
  PROVE  Core'
<1>1. StoreOK' /\ MarkOK' /\ ClaimedOnce' /\ Received' = Received
  BY KeepsTokensCore
<1>2. \A d \in Calls : /\ pc'[d] \in Suspended => pc[d] \in Suspended
                       /\ pc'[d] = "save" => pc[d] = "save"
  BY DEF IInv, TypeOK, Step
<1>3. CallOK' /\ HeirOK' /\ OneUnspent'
  BY <1>1, <1>2 DEF IInv, Core, KeepsTokens, CallOK, HeirOK, OneUnspent, Unspent,
                    AtMostOne
<1>4. QED
  BY <1>1, <1>3 DEF Core

(* or a call is over. *)
LEMMA ReturnStep ==
  ASSUME IInv, KeepsTokens, NEW c \in Calls, NEW from, NEW outcome \in Finished,
         Return(c, from, outcome)
  PROVE  Core'
<1>1. StoreOK' /\ MarkOK' /\ ClaimedOnce' /\ Received' = Received
  BY KeepsTokensCore
<1>2. \A d \in Calls :
        pc'[d] \in Suspended =>
          /\ pc'[d] = pc[d] /\ token'[d] = token[d]
          /\ seen'[d] = seen[d] /\ heir'[d] = heir[d]
  BY DEF IInv, TypeOK, Return, Step, Finished, Suspended
<1>3. CallOK' /\ HeirOK' /\ OneUnspent'
  BY <1>1, <1>2 DEF IInv, Core, KeepsTokens, CallOK, HeirOK, OneUnspent, Unspent,
                    AtMostOne, Suspended
<1>4. QED
  BY <1>1, <1>3 DEF Core

-----------------------------------------------------------------------------
(* Steps that add, claim, overwrite or remove a record *)

(* A sign-in starts a family of its own. *)
LEMMA SignInStep ==
  ASSUME IInv, NEW f \in Families, NEW t \in Tokens, NEW d \in Devices \cup {NoDevice},
         SignIn(f, t, d)
  PROVE  Core'
<1> USE ConstantsAssumption DEF IInv, Core, TypeOK, Suspended, Received, Stored,
        Record, SignIn, Issued, Fresh, call, revocation
<1>1. CallOK'
  BY DEF CallOK, StoreOK, HeirOK
<1>2. HeirOK'
  BY DEF HeirOK, CallOK, StoreOK
<1>3. StoreOK'
  BY DEF StoreOK, CallOK, HeirOK
<1>4. MarkOK'
  BY DEF MarkOK, StoreOK, CallOK, HeirOK
<1>5. OneUnspent'
  BY DEF OneUnspent, Unspent, AtMostOne, StoreOK, CallOK, HeirOK, MarkOK
<1>6. ClaimedOnce'
  BY DEF ClaimedOnce, AtMostOne, StoreOK, MarkOK
<1>7. QED
  BY <1>1, <1>2, <1>3, <1>4, <1>5, <1>6

(* A purged token stays received, and unspent if it was. *)
LEMMA PurgeStep ==
  ASSUME IInv, PurgeExpired
  PROVE  Core'
<1> USE ConstantsAssumption DEF IInv, Core, TypeOK, Suspended, Received, Stored,
        Record, PurgeExpired, call, revocation
<1>1. CallOK'
  BY DEF CallOK, StoreOK, HeirOK
<1>2. HeirOK'
  BY DEF HeirOK, CallOK, StoreOK
<1>3. StoreOK'
  BY DEF StoreOK, CallOK, HeirOK
<1>4. MarkOK'
  BY DEF MarkOK, StoreOK, CallOK, HeirOK
<1>5. OneUnspent'
  BY DEF OneUnspent, Unspent, AtMostOne, StoreOK, CallOK, HeirOK, MarkOK
<1>6. ClaimedOnce'
  BY DEF ClaimedOnce, AtMostOne, StoreOK, MarkOK
<1>7. QED
  BY <1>1, <1>2, <1>3, <1>4, <1>5, <1>6

(* A granted claim spends the family's one unspent token and reserves its heir. *)
LEMMA ClaimStep ==
  ASSUME IInv, NEW c \in Calls, NEW u \in Tokens, Claim(c, u)
  PROVE  Core'
<1> USE ConstantsAssumption DEF IInv, Core, TypeOK, Suspended, Received, Stored
<1>1. /\ pc[c] = "claim"
      /\ token[c] \in Stored /\ store[token[c]] \in Record
      /\ ~store[token[c]].rotated
      /\ seen[c].family \in Families /\ lineage[token[c]] = seen[c].family
  BY DEF Claim, Step, Claimable, CallOK, Record
<1>2. u \notin Received /\ winners[u] = {} /\ u # token[c]
  BY <1>1 DEF Claim, Fresh, StoreOK
<1>3. /\ Stored' = Stored /\ Received' = Received
      /\ \A t \in Stored : /\ store'[t].family = store[t].family
                           /\ t # token[c] => store'[t] = store[t]
      /\ store'[token[c]].rotated
  BY <1>1, RotatedRecord DEF Claim
<1>4. /\ lineage'[u] = seen[c].family
      /\ \A t \in Tokens \ {u} : lineage'[t] = lineage[t]
  BY DEF Claim
<1>5. /\ winners'[token[c]] = winners[token[c]] \cup {c}
      /\ \A t \in Tokens \ {token[c]} : winners'[t] = winners[t]
  BY <1>1 DEF Claim
<1>6. /\ pc'[c] = "save" /\ heir'[c] = u
      /\ \A d \in Calls \ {c} : pc'[d] = pc[d] /\ heir'[d] = heir[d]
      /\ UNCHANGED <<token, seen, reopened>>
  BY DEF Claim, Step
<1>7. CallOK'
  BY <1>1, <1>2, <1>3, <1>4, <1>5, <1>6 DEF CallOK
<1>8. HeirOK'
  <2>1. \A d \in Calls : pc[d] = "save" => heir[d] \in Tokens \ Received /\ heir[d] # u
    BY DEF HeirOK, CallOK, Claim, Fresh, Record
  <2>2. QED
    BY <1>1, <1>2, <1>3, <1>4, <1>6, <2>1 DEF HeirOK
<1>9. StoreOK'
  <2> SUFFICES ASSUME NEW t \in Tokens
               PROVE  /\ t \in Received => lineage'[t] \in Families
                      /\ t \in Stored => lineage'[t] = store'[t].family
                      /\ t \in Stored /\ store'[t].rotated => winners'[t] # {}
                      /\ winners'[t] # {} => t \in Received
    BY <1>3 DEF StoreOK
  <2>1. CASE t = u
    BY <1>1, <1>2, <1>4, <1>5, <2>1 DEF StoreOK
  <2>2. CASE t = token[c]
    BY <1>1, <1>2, <1>3, <1>4, <1>5, <2>2 DEF StoreOK
  <2>3. CASE t \notin {u, token[c]}
    BY <1>3, <1>4, <1>5, <2>3 DEF StoreOK
  <2>4. QED
    BY <2>1, <2>2, <2>3
<1>10. MarkOK'
  BY <1>1, <1>2, <1>3, <1>4, <1>5, <1>6 DEF MarkOK
<1>11. OneUnspent'
  <2> SUFFICES ASSUME NEW f \in Families \ reopened
               PROVE  AtMostOne(Unspent(f)')
    BY <1>6 DEF OneUnspent, AtMostOne
  <2>1. AtMostOne(Unspent(f))
    BY DEF OneUnspent
  <2>2. CASE f = seen[c].family
    <3>1. token[c] \in Unspent(f)
      BY <1>1, <2>2 DEF Unspent, MarkOK
    <3>2. Unspent(f) = {token[c]}
      BY <2>1, <3>1 DEF AtMostOne
    <3>3. Unspent(f)' \subseteq {u}
      <4>1. \A t \in Received : lineage'[t] # f \/ winners'[t] # {}
        BY <1>2, <1>4, <1>5, <3>2 DEF Unspent
      <4>2. \A d \in Calls \ {c} : ~(pc[d] = "save" /\ seen[d].family = f)
        BY <1>1, <3>2 DEF Unspent, HeirOK
      <4>3. QED
        BY <1>3, <1>6, <4>1, <4>2 DEF Unspent
    <3>4. QED
      BY <3>3 DEF AtMostOne
  <2>3. CASE f # seen[c].family
    <3>1. Unspent(f)' \subseteq Unspent(f)
      BY <1>1, <1>2, <1>3, <1>4, <1>5, <1>6, <2>3 DEF Unspent
    <3>2. QED
      BY <2>1, <3>1 DEF AtMostOne
  <2>4. QED
    BY <2>2, <2>3
<1>12. ClaimedOnce'
  <2>1. lineage[token[c]] \notin reopened => winners[token[c]] = {}
    BY <1>1 DEF MarkOK
  <2>2. QED
    BY <1>1, <1>2, <1>4, <1>5, <1>6, <2>1 DEF ClaimedOnce, AtMostOne
<1>13. QED
  BY <1>7, <1>8, <1>9, <1>10, <1>11, <1>12

(* The reserved heir becomes the family's unspent token. *)
LEMMA SaveHeirStep ==
  ASSUME IInv, NEW c \in Calls, SaveHeir(c)
  PROVE  Core'
<1> USE ConstantsAssumption DEF IInv, Core, TypeOK, Suspended, Received, Stored,
        Record, SaveHeir, Return, Step, Issued, history, revocation
<1>1. CallOK'
  BY DEF CallOK, StoreOK, HeirOK
<1>2. HeirOK'
  BY DEF HeirOK, CallOK, StoreOK
<1>3. StoreOK'
  BY DEF StoreOK, CallOK, HeirOK
<1>4. MarkOK'
  BY DEF MarkOK, StoreOK, CallOK, HeirOK
<1>5. OneUnspent'
  BY DEF OneUnspent, Unspent, AtMostOne, StoreOK, CallOK, HeirOK, MarkOK
<1>6. ClaimedOnce'
  BY DEF ClaimedOnce, AtMostOne, StoreOK, MarkOK
<1>7. QED
  BY <1>1, <1>2, <1>3, <1>4, <1>5, <1>6

(* A blind write that erases a mark takes its family out of the promises. *)
LEMMA WriteRevokedStep ==
  ASSUME IInv, NEW c \in Calls, WriteRevoked(c)
  PROVE  Core'
<1> USE ConstantsAssumption DEF IInv, Core, TypeOK, Suspended, Received, Stored,
        Record, WriteRevoked, Return, Step, revocation
<1>1. CallOK'
  BY RevokedRecord DEF CallOK, StoreOK, HeirOK
<1>2. HeirOK'
  BY RevokedRecord DEF HeirOK, CallOK, StoreOK
<1>3. StoreOK'
  BY RevokedRecord DEF StoreOK, CallOK, HeirOK
<1>4. MarkOK'
  BY RevokedRecord DEF MarkOK, StoreOK, CallOK, HeirOK
<1>5. OneUnspent'
  <2>1. Received' = Received /\ reopened \subseteq reopened'
    BY RevokedRecord DEF CallOK
  <2>2. \A f : Unspent(f)' \subseteq Unspent(f)
    BY <2>1 DEF Unspent
  <2>3. QED
    BY <2>1, <2>2 DEF OneUnspent, AtMostOne
<1>6. ClaimedOnce'
  BY RevokedRecord DEF ClaimedOnce, AtMostOne, StoreOK, MarkOK
<1>7. QED
  BY <1>1, <1>2, <1>3, <1>4, <1>5, <1>6

-----------------------------------------------------------------------------
(* The theorems *)

(* Every step keeps what relates records, calls and history. *)
LEMMA CoreStep == ASSUME IInv, [Next]_vars PROVE Core'
<1>1. ASSUME NEW f \in Families, NEW t \in Tokens, NEW d \in Devices \cup {NoDevice},
             SignIn(f, t, d)
      PROVE  Core'
  BY <1>1, SignInStep
<1>2. ASSUME BumpVersion PROVE Core'
  BY <1>2, IdleStep DEF BumpVersion, KeepsTokens, Stored, history
<1>3. ASSUME NEW f \in Families, SignOutFamily(f) PROVE Core'
  <2>1. {f} \in SUBSET Families
    BY <1>3 DEF SignOutFamily, IInv, TypeOK
  <2>2. KeepsTokens
    BY <1>3, <2>1, RevokeFamiliesEffect DEF SignOutFamily, KeepsTokens, IInv
  <2>3. QED
    BY <1>3, <2>2, IdleStep DEF SignOutFamily
<1>4. ASSUME SignOutEverywhere PROVE Core'
  <2>1. {store[t].family : t \in Stored} \in SUBSET Families
    BY <1>4 DEF SignOutEverywhere, IInv, TypeOK, Stored, Record
  <2>2. KeepsTokens
    BY <1>4, <2>1, RevokeFamiliesEffect DEF SignOutEverywhere, KeepsTokens, IInv
  <2>3. QED
    BY <1>4, <2>2, IdleStep DEF SignOutEverywhere
<1>5. ASSUME PurgeExpired PROVE Core'
  BY <1>5, PurgeStep
<1>6. ASSUME Tick PROVE Core'
  BY <1>6, IdleStep DEF Tick, KeepsTokens, Stored, history
<1>7. ASSUME NEW c \in Calls, NEW t \in Received, FindReplay(c, t) PROVE Core'
  BY <1>7, ReadStep DEF FindReplay, Suspended, Stored
<1>8. ASSUME NEW c \in Calls, NEW t \in Received, FindToRevoke(c, t)
      PROVE  Core'
  BY <1>8, ReadStep DEF FindToRevoke, Suspended, Stored
<1>9. ASSUME NEW c \in Calls, NEW t \in Received, RevokeNothing(c, t)
      PROVE  Core'
  BY <1>9, ReturnStep DEF RevokeNothing, KeepsTokens, Stored, history, Finished
<1>10. ASSUME NEW c \in Calls, NEW t \in Received, NEW v, FindInvalid(c, t, v)
      PROVE  Core'
  BY <1>10, ReturnStep DEF FindInvalid, KeepsTokens, Stored, history, Finished
<1>11. ASSUME NEW c \in Calls, NEW t \in Received, NEW d, NEW v, FindMismatch(c, t, d, v)
      PROVE  Core'
  BY <1>11, ReadStep DEF FindMismatch, Suspended, Stored
<1>12. ASSUME NEW c \in Calls, NEW t \in Received, NEW d, NEW v, FindValid(c, t, d, v)
      PROVE  Core'
  BY <1>12, ReadStep DEF FindValid, Suspended, Stored
<1>13. ASSUME NEW c \in Calls, NEW u \in Tokens, Claim(c, u) PROVE Core'
  BY <1>13, ClaimStep
<1>14. ASSUME NEW c \in Calls, LoseClaim(c) PROVE Core'
  BY <1>14, AdvanceStep DEF LoseClaim, KeepsTokens, Stored, history, Suspended
<1>15. ASSUME NEW c \in Calls, SaveHeir(c) PROVE Core'
  BY <1>15, SaveHeirStep
<1>16. ASSUME NEW c \in Calls, RevokeReused(c) PROVE Core'
  <2>1. {seen[c].family} \in SUBSET Families
    BY <1>16 DEF RevokeReused, IInv, TypeOK, CallOK, Core, Suspended, Step, Record
  <2>2. KeepsTokens
    BY <1>16, <2>1, RevokeFamiliesEffect DEF RevokeReused, KeepsTokens, IInv
  <2>3. QED
    BY <1>16, <2>2, AdvanceStep DEF RevokeReused, Suspended
<1>17. ASSUME NEW c \in Calls, NotifyReuse(c) PROVE Core'
  BY <1>17, ReturnStep DEF NotifyReuse, KeepsTokens, Stored, history, Finished
<1>18. ASSUME NEW c \in Calls, RevokeMismatch(c) PROVE Core'
  <2>1. {seen[c].family} \in SUBSET Families
    BY <1>18 DEF RevokeMismatch, IInv, TypeOK, CallOK, Core, Suspended, Return, Step, Record
  <2>2. KeepsTokens
    BY <1>18, <2>1, RevokeFamiliesEffect DEF RevokeMismatch, KeepsTokens, IInv
  <2>3. QED
    BY <1>18, <2>2, ReturnStep DEF RevokeMismatch, Finished
<1>19. ASSUME NEW c \in Calls, WriteRevoked(c) PROVE Core'
  BY <1>19, WriteRevokedStep
<1>20. ASSUME NEW c \in Calls, Crash(c) PROVE Core'
  BY <1>20, ReturnStep DEF Crash, KeepsTokens, Stored, history, Finished
<1>21. CASE UNCHANGED vars
  BY <1>21, IdleStep DEF vars, KeepsTokens, Stored, history
<1>22. QED
  BY <1>1, <1>2, <1>3, <1>4, <1>5, <1>6, <1>7, <1>8, <1>9, <1>10,
     <1>11, <1>12, <1>13, <1>14, <1>15, <1>16, <1>17, <1>18, <1>19, <1>20, <1>21
  DEF Next, Account, Present, Serve

(* With no token and no call under way the invariant holds. *)
LEMMA InitIInv == Init => IInv
BY ConstantsAssumption
   DEF Init, IInv, Core, TypeOK, CallOK, HeirOK, StoreOK, MarkOK, OneUnspent, Unspent,
       ClaimedOnce, AtMostOne, Versions, Stages, Suspended, Stored, Received

(* The strengthening the theorems below follow from. *)
LEMMA Inductive == Spec => []IInv
<1>1. IInv /\ [Next]_vars => IInv'
  BY TypeStep, CoreStep DEF IInv
<1>2. QED
  BY InitIInv, <1>1, PTL DEF Spec

(* Every variable keeps its type. *)
THEOREM TypeCorrect == Spec => []TypeOK
BY Inductive, PTL DEF IInv

(* Of the calls that ever claim one token, the store grants at most one,    *)
(* unless a blind update erased a rotation mark of its family.             *)
THEOREM ClaimedOnceCorrect == Spec => []ClaimedOnce
<1>1. IInv => ClaimedOnce
  BY DEF IInv, Core
<1>2. QED
  BY Inductive, <1>1, PTL

(* A login has at most one token to exchange, under the same condition.    *)
THEOREM AtMostOneHeadCorrect == Spec => []AtMostOneHead
<1>1. IInv => AtMostOneHead
  <2> SUFFICES ASSUME IInv, NEW f \in Families \ reopened
               PROVE  AtMostOne(Heads(f))
    BY DEF AtMostOneHead
  <2>1. Heads(f) \subseteq Unspent(f)
    <3>1. \A t \in TokensOf(f) : ~store[t].rotated => t \in Unspent(f)
      BY DEF IInv, Core, MarkOK, StoreOK, Unspent, TokensOf, Received, Stored
    <3>2. QED
      BY <3>1 DEF Heads, Unspent
  <2>2. QED
    BY <2>1 DEF IInv, Core, OneUnspent, AtMostOne
<1>2. QED
  BY Inductive, <1>1, PTL
-----------------------------------------------------------------------------
(* What an alarm says *)

(* A call that takes its token for a replay is right about it, *)
ReplayOK ==
  \A c \in Calls : pc[c] \in {"reuse", "notify"} =>
    winners[token[c]] # {} \/ token[c] \in purged

AlarmInv == ReplayOK /\ AlarmIsHonest

(* because it saw the mark of a granted claim, or found the token that it  *)
(* had read no longer claimable; neither is ever taken back.               *)
LEMMA AlarmStep == ASSUME IInv, AlarmInv, [Next]_vars PROVE AlarmInv'
<1> USE DEF IInv, Core, TypeOK, CallOK, StoreOK, AlarmInv, ReplayOK, AlarmIsHonest, Suspended,
        Finished, Received, Stored, history, revocation
<1>1. ASSUME NEW f \in Families, NEW t \in Tokens, NEW d \in Devices \cup {NoDevice},
             SignIn(f, t, d)
      PROVE  AlarmInv'
  BY <1>1 DEF SignIn, Issued, Fresh, call
<1>2. ASSUME BumpVersion PROVE AlarmInv'
  BY <1>2 DEF BumpVersion, call
<1>3. ASSUME NEW f \in Families, SignOutFamily(f) PROVE AlarmInv'
  BY <1>3 DEF SignOutFamily, call
<1>4. ASSUME SignOutEverywhere PROVE AlarmInv'
  BY <1>4 DEF SignOutEverywhere, call
<1>5. ASSUME PurgeExpired PROVE AlarmInv'
  BY <1>5 DEF PurgeExpired, call
<1>6. ASSUME Tick PROVE AlarmInv'
  BY <1>6 DEF Tick, call
<1>7. ASSUME NEW c \in Calls, NEW t \in Received, FindReplay(c, t)
      PROVE  AlarmInv'
  BY <1>7 DEF FindReplay, Proceed, Step
<1>8. ASSUME NEW c \in Calls, NEW t \in Received, FindToRevoke(c, t)
      PROVE  AlarmInv'
  BY <1>8 DEF FindToRevoke, Proceed, Step
<1>9. ASSUME NEW c \in Calls, NEW t \in Received, RevokeNothing(c, t)
      PROVE  AlarmInv'
  BY <1>9 DEF RevokeNothing, Return, Step
<1>10. ASSUME NEW c \in Calls, NEW t \in Received, NEW v, FindInvalid(c, t, v)
      PROVE  AlarmInv'
  BY <1>10 DEF FindInvalid, Return, Step
<1>11. ASSUME NEW c \in Calls, NEW t \in Received, NEW d, NEW v,
              FindMismatch(c, t, d, v)
      PROVE  AlarmInv'
  BY <1>11 DEF FindMismatch, Proceed, Step
<1>12. ASSUME NEW c \in Calls, NEW t \in Received, NEW d, NEW v, FindValid(c, t, d, v)
      PROVE  AlarmInv'
  BY <1>12 DEF FindValid, Proceed, Step
<1>13. ASSUME NEW c \in Calls, NEW u \in Tokens, Claim(c, u) PROVE AlarmInv'
  BY <1>13 DEF Claim, Step, Rotated
<1>14. ASSUME NEW c \in Calls, LoseClaim(c) PROVE AlarmInv'
  BY <1>14 DEF LoseClaim, Claimable, Step
<1>15. ASSUME NEW c \in Calls, SaveHeir(c) PROVE AlarmInv'
  BY <1>15 DEF SaveHeir, Return, Step, Issued
<1>16. ASSUME NEW c \in Calls, RevokeReused(c) PROVE AlarmInv'
  BY <1>16 DEF RevokeReused, Step
<1>17. ASSUME NEW c \in Calls, NotifyReuse(c) PROVE AlarmInv'
  BY <1>17 DEF NotifyReuse, Return, Step
<1>18. ASSUME NEW c \in Calls, RevokeMismatch(c) PROVE AlarmInv'
  BY <1>18 DEF RevokeMismatch, Return, Step
<1>19. ASSUME NEW c \in Calls, WriteRevoked(c) PROVE AlarmInv'
  BY <1>19 DEF WriteRevoked, Return, Step, Revoked
<1>20. ASSUME NEW c \in Calls, Crash(c) PROVE AlarmInv'
  BY <1>20 DEF Crash, Return, Step
<1>21. CASE UNCHANGED vars
  BY <1>21 DEF vars, call
<1>22. QED
  BY <1>1, <1>2, <1>3, <1>4, <1>5, <1>6, <1>7, <1>8, <1>9, <1>10,
     <1>11, <1>12, <1>13, <1>14, <1>15, <1>16, <1>17, <1>18, <1>19, <1>20, <1>21
  DEF Next, Account, Present, Serve

(* onReuseDetected accuses only tokens that were exchanged, or purged. *)
THEOREM AlarmIsHonestCorrect == Spec => []AlarmIsHonest
<1>1. Init => AlarmInv
  BY DEF Init, AlarmInv, ReplayOK, AlarmIsHonest
<1>2. AlarmInv => AlarmIsHonest
  BY DEF AlarmInv
<1>3. QED
  BY <1>1, <1>2, Inductive, AlarmStep, PTL DEF Spec

-----------------------------------------------------------------------------
(* What the revocation of a family leaves *)

(* An exchange that was under way when f was last revoked has saved its    *)
(* replacement.                                                            *)
Recovered(f) == \E c \in midway[f] : pc[c] = "rotated"

(* A revoked family is one of some login, and the exchanges under way in   *)
(* it are those of its last revocation: until one of them has saved a      *)
(* replacement there is no live token for another to begin with.           *)
EndedOK ==
  \A f \in ended :
    /\ \E t \in Tokens : lineage[t] = f
    /\ Exchanging(f) \subseteq midway[f] \/ Recovered(f)

EndedInv == EndedOK /\ OnlyMidwaySurvives

(* No call begins an exchange, and the ones that ended stay ended. *)
NoNewExchange ==
  \A c \in Calls :
    /\ pc'[c] \in {"claim", "save"} => pc[c] \in {"claim", "save"} /\ seen'[c] = seen[c]
    /\ pc[c] = "rotated" => pc'[c] = "rotated"

(* A statement over whole families leaves nothing live in them, and notes   *)
(* the exchanges under way: they alone can save a live token later.        *)
LEMMA RevocationEnds ==
  ASSUME IInv, EndedInv, NEW fs \in SUBSET Families,
         RevokeFamilies(fs), fs \subseteq {lineage[t] : t \in Tokens},
         NoNewExchange, UNCHANGED lineage
  PROVE  EndedInv'
<1>1. /\ Stored' = Stored
      /\ \A t \in Stored : /\ store'[t].family = store[t].family
                           /\ store'[t].rotated = store[t].rotated
                           /\ store[t].revoked => store'[t].revoked
                           /\ store[t].family \in fs => store'[t].revoked
  BY RevokeFamiliesEffect DEF IInv
<1>2. /\ ended' = ended \cup fs
      /\ \A f \in Families :
           midway'[f] = IF f \in fs THEN Exchanging(f) ELSE midway[f]
  BY DEF RevokeFamilies
<1>3. \A f : Exchanging(f)' \subseteq Exchanging(f)
  BY DEF Exchanging, NoNewExchange
<1>4. \A f \in Families \ fs : Recovered(f) => Recovered(f)'
  BY <1>2 DEF Recovered, NoNewExchange, IInv, TypeOK
<1>5. EndedOK'
  <2> SUFFICES ASSUME NEW f \in ended'
               PROVE  /\ \E t \in Tokens : lineage[t] = f
                      /\ Exchanging(f)' \subseteq midway'[f] \/ Recovered(f)'
    BY DEF EndedOK
  <2>1. f \in Families
    BY <1>2 DEF IInv, TypeOK
  <2>2. CASE f \in fs
    BY <1>2, <1>3, <2>1, <2>2
  <2>3. CASE f \notin fs
    BY <1>2, <1>3, <1>4, <2>1, <2>3 DEF EndedInv, EndedOK
  <2>4. QED
    BY <2>2, <2>3
<1>6. OnlyMidwaySurvives'
  <2> SUFFICES ASSUME NEW t \in Stored, Live(t)', NEW f \in ended',
                      f = store'[t].family
               PROVE  Recovered(f)'
    BY <1>1 DEF OnlyMidwaySurvives, Recovered
  <2>1. Live(t) /\ f = store[t].family /\ f \notin fs
    BY <1>1 DEF Live
  <2>2. f \in ended /\ f \in Families
    BY <1>2, <2>1 DEF IInv, TypeOK
  <2>3. Recovered(f)
    BY <2>1, <2>2 DEF EndedInv, OnlyMidwaySurvives, Recovered
  <2>4. QED
    BY <1>4, <2>1, <2>2, <2>3
<1>7. QED
  BY <1>5, <1>6 DEF EndedInv

(* A granted claim makes nothing live. *)
LEMMA ClaimEnds ==
  ASSUME IInv, EndedInv, NEW c \in Calls, NEW u \in Tokens,
         Claim(c, u)
  PROVE  EndedInv'
<1>1. /\ pc[c] = "claim" /\ token[c] \in Stored /\ store[token[c]] \in Record
      /\ \A t \in Tokens : t # u => lineage'[t] = lineage[t]
      /\ lineage[u] = NoFamily
  BY DEF Claim, Step, Claimable, Fresh, Stored, IInv, TypeOK
<1>2. /\ Stored' = Stored
      /\ \A t \in Stored : /\ store'[t].family = store[t].family
                           /\ t # token[c] => store'[t] = store[t]
      /\ store'[token[c]].rotated
  BY <1>1, RotatedRecord, ConstantsAssumption DEF Claim, Stored, IInv, TypeOK
<1>3. /\ pc' = [pc EXCEPT ![c] = "save"]
      /\ UNCHANGED <<seen, ended, midway>>
  BY DEF Claim, Step, revocation
<1>4. \A f : Exchanging(f)' = Exchanging(f) /\ (Recovered(f) => Recovered(f)')
  BY <1>1, <1>3 DEF Exchanging, Recovered, IInv, TypeOK
<1>5. EndedOK'
  <2>1. \A f \in ended : f # NoFamily
    BY ConstantsAssumption DEF IInv, TypeOK
  <2>2. QED
    BY <1>1, <1>3, <1>4, <2>1 DEF EndedInv, EndedOK
<1>6. OnlyMidwaySurvives'
  <2>1. \A t \in Stored : Live(t)' => Live(t)
    BY <1>2 DEF Live
  <2>2. QED
    BY <1>1, <1>2, <1>3, <1>4, <2>1 DEF EndedInv, OnlyMidwaySurvives, Recovered
<1>7. QED
  BY <1>5, <1>6 DEF EndedInv

(* Every other step begins an exchange with a live token, saves one for an *)
(* exchange under way, or writes nothing that is live.                     *)
LEMMA EndedStep == ASSUME IInv, EndedInv, [Next]_vars PROVE EndedInv'
<1> USE ConstantsAssumption DEF IInv, Core, TypeOK, CallOK, StoreOK, HeirOK, Suspended,
        Finished, Received, Stored, history, revocation, EndedInv, EndedOK,
        OnlyMidwaySurvives, Live, Recovered, Exchanging
<1>1. ASSUME NEW f \in Families, NEW t \in Tokens, NEW d \in Devices \cup {NoDevice},
             SignIn(f, t, d)
      PROVE  EndedInv'
  BY <1>1 DEF SignIn, Issued, Fresh, call, Record
<1>2. ASSUME BumpVersion PROVE EndedInv'
  BY <1>2 DEF BumpVersion, call
<1>3. ASSUME NEW f \in Families, SignOutFamily(f) PROVE EndedInv'
  <2>1. {f} \in SUBSET Families
    BY <1>3 DEF SignOutFamily, call, Record
  <2>2. {f} \subseteq {lineage[u] : u \in Tokens}
    BY <1>3 DEF SignOutFamily, call, TokensOf
  <2>3. NoNewExchange
    BY <1>3 DEF SignOutFamily, call, NoNewExchange
  <2>4. QED
    BY <1>3, <2>1, <2>2, <2>3, RevocationEnds DEF SignOutFamily
<1>4. ASSUME SignOutEverywhere PROVE EndedInv'
  <2>1. {store[t].family : t \in Stored} \in SUBSET Families
    BY <1>4 DEF SignOutEverywhere, call, Record
  <2>2. {store[t].family : t \in Stored} \subseteq {lineage[u] : u \in Tokens}
    BY <1>4 DEF SignOutEverywhere, call
  <2>3. NoNewExchange
    BY <1>4 DEF SignOutEverywhere, call, NoNewExchange
  <2>4. QED
    BY <1>4, <2>1, <2>2, <2>3, RevocationEnds DEF SignOutEverywhere
<1>5. ASSUME PurgeExpired PROVE EndedInv'
  BY <1>5 DEF PurgeExpired, call
<1>6. ASSUME Tick PROVE EndedInv'
  BY <1>6 DEF Tick, call
<1>7. ASSUME NEW c \in Calls, NEW t \in Received, FindReplay(c, t)
      PROVE  EndedInv'
  BY <1>7 DEF FindReplay, Proceed, Step
<1>8. ASSUME NEW c \in Calls, NEW t \in Received, FindToRevoke(c, t)
      PROVE  EndedInv'
  BY <1>8 DEF FindToRevoke, Proceed, Step
<1>9. ASSUME NEW c \in Calls, NEW t \in Received, RevokeNothing(c, t)
      PROVE  EndedInv'
  BY <1>9 DEF RevokeNothing, Return, Step
<1>10. ASSUME NEW c \in Calls, NEW t \in Received, NEW v, FindInvalid(c, t, v)
      PROVE  EndedInv'
  BY <1>10 DEF FindInvalid, Return, Step
<1>11. ASSUME NEW c \in Calls, NEW t \in Received, NEW d, NEW v,
              FindMismatch(c, t, d, v)
      PROVE  EndedInv'
  BY <1>11 DEF FindMismatch, Proceed, Step, Valid
<1>12. ASSUME NEW c \in Calls, NEW t \in Received, NEW d, NEW v, FindValid(c, t, d, v)
      PROVE  EndedInv'
  BY <1>12 DEF FindValid, Proceed, Step, Valid
<1>13. ASSUME NEW c \in Calls, NEW u \in Tokens, Claim(c, u) PROVE EndedInv'
  BY <1>13, ClaimEnds
<1>14. ASSUME NEW c \in Calls, LoseClaim(c) PROVE EndedInv'
  BY <1>14 DEF LoseClaim, Claimable, Step
<1>15. ASSUME NEW c \in Calls, SaveHeir(c) PROVE EndedInv'
  BY <1>15 DEF SaveHeir, Return, Step, Issued, Record
<1>16. ASSUME NEW c \in Calls, RevokeReused(c) PROVE EndedInv'
  <2>1. {seen[c].family} \in SUBSET Families
    BY <1>16 DEF RevokeReused, Step, Record
  <2>2. {seen[c].family} \subseteq {lineage[u] : u \in Tokens}
    BY <1>16 DEF RevokeReused, Step
  <2>3. NoNewExchange
    BY <1>16 DEF RevokeReused, Step, NoNewExchange
  <2>4. QED
    BY <1>16, <2>1, <2>2, <2>3, RevocationEnds DEF RevokeReused
<1>17. ASSUME NEW c \in Calls, NotifyReuse(c) PROVE EndedInv'
  BY <1>17 DEF NotifyReuse, Return, Step
<1>18. ASSUME NEW c \in Calls, RevokeMismatch(c) PROVE EndedInv'
  <2>1. {seen[c].family} \in SUBSET Families
    BY <1>18 DEF RevokeMismatch, Return, Step, Record
  <2>2. {seen[c].family} \subseteq {lineage[u] : u \in Tokens}
    BY <1>18 DEF RevokeMismatch, Return, Step
  <2>3. NoNewExchange
    BY <1>18 DEF RevokeMismatch, Return, Step, NoNewExchange
  <2>4. QED
    BY <1>18, <2>1, <2>2, <2>3, RevocationEnds DEF RevokeMismatch
<1>19. ASSUME NEW c \in Calls, WriteRevoked(c) PROVE EndedInv'
  BY <1>19, RevokedRecord DEF WriteRevoked, Return, Step
<1>20. ASSUME NEW c \in Calls, Crash(c) PROVE EndedInv'
  BY <1>20 DEF Crash, Return, Step
<1>21. CASE UNCHANGED vars
  BY <1>21 DEF vars, call
<1>22. QED
  BY <1>1, <1>2, <1>3, <1>4, <1>5, <1>6, <1>7, <1>8, <1>9, <1>10,
     <1>11, <1>12, <1>13, <1>14, <1>15, <1>16, <1>17, <1>18, <1>19, <1>20, <1>21
  DEF Next, Account, Present, Serve

(* Only an exchange that the revocation of a family found under way leaves *)
(* a live token in it.                                                     *)
THEOREM OnlyMidwaySurvivesCorrect == Spec => []OnlyMidwaySurvives
<1>1. Init => EndedInv
  BY DEF Init, EndedInv, EndedOK, OnlyMidwaySurvives, Stored
<1>2. EndedInv => OnlyMidwaySurvives
  BY DEF EndedInv
<1>3. QED
  BY <1>1, <1>2, Inductive, EndedStep, PTL DEF Spec

(* What a single write does to the marks of the records that are stored. *)
MarksKept == \A t \in Stored : store[t].revoked => t \notin Stored' \/ store'[t].revoked

(* No step takes the mark from a record that stays. *)
LEMMA PermanentStep == ASSUME IInv, [Next]_vars PROVE MarksKept
<1> USE ConstantsAssumption DEF IInv, Core, TypeOK, CallOK, StoreOK, HeirOK,
        Suspended, Finished, Received, Stored, history, revocation, MarksKept
<1>1. ASSUME NEW f \in Families, NEW t \in Tokens, NEW d \in Devices \cup {NoDevice},
             SignIn(f, t, d)
      PROVE  MarksKept
  BY <1>1 DEF SignIn, Issued, Fresh, call, Record
<1>2. ASSUME BumpVersion PROVE MarksKept
  BY <1>2 DEF BumpVersion, call
<1>3. ASSUME NEW f \in Families, SignOutFamily(f) PROVE MarksKept
  <2>1. {f} \in SUBSET Families
    BY <1>3 DEF SignOutFamily, call, Record
  <2>2. QED
    BY <1>3, <2>1, RevokeFamiliesEffect DEF SignOutFamily, call, RevokeFamilies
<1>4. ASSUME SignOutEverywhere PROVE MarksKept
  <2>1. {store[t].family : t \in Stored} \in SUBSET Families
    BY <1>4 DEF SignOutEverywhere, call, Record
  <2>2. QED
    BY <1>4, <2>1, RevokeFamiliesEffect DEF SignOutEverywhere, call, RevokeFamilies
<1>5. ASSUME PurgeExpired PROVE MarksKept
  BY <1>5 DEF PurgeExpired, call
<1>6. ASSUME Tick PROVE MarksKept
  BY <1>6 DEF Tick, call
<1>7. ASSUME NEW c \in Calls, NEW t \in Received, FindReplay(c, t)
      PROVE  MarksKept
  BY <1>7 DEF FindReplay, Proceed, Step
<1>8. ASSUME NEW c \in Calls, NEW t \in Received, FindToRevoke(c, t)
      PROVE  MarksKept
  BY <1>8 DEF FindToRevoke, Proceed, Step
<1>9. ASSUME NEW c \in Calls, NEW t \in Received, RevokeNothing(c, t)
      PROVE  MarksKept
  BY <1>9 DEF RevokeNothing, Return, Step
<1>10. ASSUME NEW c \in Calls, NEW t \in Received, NEW v, FindInvalid(c, t, v)
      PROVE  MarksKept
  BY <1>10 DEF FindInvalid, Return, Step
<1>11. ASSUME NEW c \in Calls, NEW t \in Received, NEW d, NEW v,
              FindMismatch(c, t, d, v)
      PROVE  MarksKept
  BY <1>11 DEF FindMismatch, Proceed, Step, Valid
<1>12. ASSUME NEW c \in Calls, NEW t \in Received, NEW d, NEW v, FindValid(c, t, d, v)
      PROVE  MarksKept
  BY <1>12 DEF FindValid, Proceed, Step, Valid
<1>13. ASSUME NEW c \in Calls, NEW u \in Tokens, Claim(c, u) PROVE MarksKept
  BY <1>13, RotatedRecord DEF Claim, Step, Record
<1>14. ASSUME NEW c \in Calls, LoseClaim(c) PROVE MarksKept
  BY <1>14 DEF LoseClaim, Claimable, Step
<1>15. ASSUME NEW c \in Calls, SaveHeir(c) PROVE MarksKept
  BY <1>15 DEF SaveHeir, Return, Step, Issued, Record
<1>16. ASSUME NEW c \in Calls, RevokeReused(c) PROVE MarksKept
  <2>1. {seen[c].family} \in SUBSET Families
    BY <1>16 DEF RevokeReused, Step, Record
  <2>2. QED
    BY <1>16, <2>1, RevokeFamiliesEffect DEF RevokeReused, Step, RevokeFamilies
<1>17. ASSUME NEW c \in Calls, NotifyReuse(c) PROVE MarksKept
  BY <1>17 DEF NotifyReuse, Return, Step
<1>18. ASSUME NEW c \in Calls, RevokeMismatch(c) PROVE MarksKept
  <2>1. {seen[c].family} \in SUBSET Families
    BY <1>18 DEF RevokeMismatch, Return, Step, Record
  <2>2. QED
    BY <1>18, <2>1, RevokeFamiliesEffect DEF RevokeMismatch, Return, Step, RevokeFamilies
<1>19. ASSUME NEW c \in Calls, WriteRevoked(c) PROVE MarksKept
  BY <1>19, RevokedRecord DEF WriteRevoked, Return, Step
<1>20. ASSUME NEW c \in Calls, Crash(c) PROVE MarksKept
  BY <1>20 DEF Crash, Return, Step
<1>21. CASE UNCHANGED vars
  BY <1>21 DEF vars, call
<1>22. QED
  BY <1>1, <1>2, <1>3, <1>4, <1>5, <1>6, <1>7, <1>8, <1>9, <1>10,
     <1>11, <1>12, <1>13, <1>14, <1>15, <1>16, <1>17, <1>18, <1>19, <1>20, <1>21
  DEF Next, Account, Present, Serve

(* No write takes a revocation back: sign-ins and replacements go to ids   *)
(* that no record has, and revoke only ever sets the mark.                 *)
THEOREM RevocationIsPermanentCorrect == Spec => RevocationIsPermanent
<1>1. IInv /\ [Next]_vars => [MarksKept]_vars
  BY PermanentStep
<1>2. QED
  BY <1>1, Inductive, PTL DEF Spec, RevocationIsPermanent, MarksKept

-----------------------------------------------------------------------------
(* What a family is bound to *)

(* The records of a family agree on device and version, the copies that    *)
(* suspended calls hold included: issue and revoke write from those.       *)
Held == {store[t] : t \in Stored} \cup {seen[c] : c \in {d \in Calls : pc[d] \in Suspended}}
BindingOK ==
  \A r, q \in Held : r.family = q.family => r.device = q.device /\ r.version = q.version

(* Revoking whole families changes no binding, *)
LEMMA RevocationBinding ==
  ASSUME IInv, BindingOK, NEW fs \in SUBSET Families, RevokeFamilies(fs),
         \A c \in Calls : pc'[c] \in Suspended => pc[c] \in Suspended /\ seen'[c] = seen[c]
  PROVE  BindingOK'
<1>1. \A r \in Held' : \E q \in Held : /\ r.family = q.family
                                       /\ r.device = q.device
                                       /\ r.version = q.version
  BY RevokeFamiliesEffect DEF Held, IInv
<1>2. QED
  BY <1>1 DEF BindingOK

(* and neither does a claim. *)
LEMMA ClaimBinding ==
  ASSUME IInv, BindingOK, NEW c \in Calls, NEW u \in Tokens, Claim(c, u)
  PROVE  BindingOK'
<1>1. /\ pc[c] = "claim" /\ token[c] \in Stored /\ store[token[c]] \in Record
      /\ store' = [store EXCEPT ![token[c]] = Rotated(store[token[c]])]
  BY DEF Claim, Step, Claimable, Stored, IInv, TypeOK
<1>2. \A t \in Tokens : t # token[c] => store'[t] = store[t]
  BY <1>1 DEF IInv, TypeOK
<1>3. /\ store'[token[c]].family = store[token[c]].family
      /\ store'[token[c]].device = store[token[c]].device
      /\ store'[token[c]].version = store[token[c]].version
  BY <1>1, RotatedRecord DEF IInv, TypeOK, Stored
<1>4. Stored' \subseteq Stored
  BY <1>1, <1>2 DEF Stored
<1>5. \A d \in Calls : pc'[d] \in Suspended => pc[d] \in Suspended /\ seen'[d] = seen[d]
  BY <1>1 DEF Claim, Step, Suspended, IInv, TypeOK
<1>6. \A r \in Held' : \E q \in Held : /\ r.family = q.family
                                       /\ r.device = q.device
                                       /\ r.version = q.version
  BY <1>1, <1>2, <1>3, <1>4, <1>5 DEF Held
<1>7. QED
  BY <1>6 DEF BindingOK

(* Every other step writes a copy of a record, or begins a family.         *)
LEMMA BindingStep == ASSUME IInv, BindingOK, [Next]_vars PROVE BindingOK'
<1> USE ConstantsAssumption DEF IInv, Core, TypeOK, CallOK, StoreOK, HeirOK,
        Suspended, Finished, Received, Stored, history, revocation, BindingOK, Held
<1>1. ASSUME NEW f \in Families, NEW t \in Tokens, NEW d \in Devices \cup {NoDevice},
             SignIn(f, t, d)
      PROVE  BindingOK'
  BY <1>1 DEF SignIn, Issued, Fresh, call, Record
<1>2. ASSUME BumpVersion PROVE BindingOK'
  BY <1>2 DEF BumpVersion, call
<1>3. ASSUME NEW f \in Families, SignOutFamily(f) PROVE BindingOK'
  <2>1. {f} \in SUBSET Families
    BY <1>3 DEF SignOutFamily, call, Record
  <2>2. QED
    BY <1>3, <2>1, RevocationBinding DEF SignOutFamily, call
<1>4. ASSUME SignOutEverywhere PROVE BindingOK'
  <2>1. {store[t].family : t \in Stored} \in SUBSET Families
    BY <1>4 DEF SignOutEverywhere, call, Record
  <2>2. QED
    BY <1>4, <2>1, RevocationBinding DEF SignOutEverywhere, call
<1>5. ASSUME PurgeExpired PROVE BindingOK'
  BY <1>5 DEF PurgeExpired, call
<1>6. ASSUME Tick PROVE BindingOK'
  BY <1>6 DEF Tick, call
<1>7. ASSUME NEW c \in Calls, NEW t \in Received, FindReplay(c, t)
      PROVE  BindingOK'
  BY <1>7 DEF FindReplay, Proceed, Step
<1>8. ASSUME NEW c \in Calls, NEW t \in Received, FindToRevoke(c, t)
      PROVE  BindingOK'
  BY <1>8 DEF FindToRevoke, Proceed, Step
<1>9. ASSUME NEW c \in Calls, NEW t \in Received, RevokeNothing(c, t)
      PROVE  BindingOK'
  BY <1>9 DEF RevokeNothing, Return, Step
<1>10. ASSUME NEW c \in Calls, NEW t \in Received, NEW v, FindInvalid(c, t, v)
      PROVE  BindingOK'
  BY <1>10 DEF FindInvalid, Return, Step
<1>11. ASSUME NEW c \in Calls, NEW t \in Received, NEW d, NEW v,
              FindMismatch(c, t, d, v)
      PROVE  BindingOK'
  BY <1>11 DEF FindMismatch, Proceed, Step, Valid
<1>12. ASSUME NEW c \in Calls, NEW t \in Received, NEW d, NEW v, FindValid(c, t, d, v)
      PROVE  BindingOK'
  BY <1>12 DEF FindValid, Proceed, Step, Valid
<1>13. ASSUME NEW c \in Calls, NEW u \in Tokens, Claim(c, u) PROVE BindingOK'
  BY <1>13, ClaimBinding
<1>14. ASSUME NEW c \in Calls, LoseClaim(c) PROVE BindingOK'
  BY <1>14 DEF LoseClaim, Claimable, Step
<1>15. ASSUME NEW c \in Calls, SaveHeir(c) PROVE BindingOK'
  BY <1>15 DEF SaveHeir, Return, Step, Issued, Record
<1>16. ASSUME NEW c \in Calls, RevokeReused(c) PROVE BindingOK'
  <2>1. {seen[c].family} \in SUBSET Families
    BY <1>16 DEF RevokeReused, Step, Record
  <2>2. QED
    BY <1>16, <2>1, RevocationBinding DEF RevokeReused, Step
<1>17. ASSUME NEW c \in Calls, NotifyReuse(c) PROVE BindingOK'
  BY <1>17 DEF NotifyReuse, Return, Step
<1>18. ASSUME NEW c \in Calls, RevokeMismatch(c) PROVE BindingOK'
  <2>1. {seen[c].family} \in SUBSET Families
    BY <1>18 DEF RevokeMismatch, Return, Step, Record
  <2>2. QED
    BY <1>18, <2>1, RevocationBinding DEF RevokeMismatch, Return, Step
<1>19. ASSUME NEW c \in Calls, WriteRevoked(c) PROVE BindingOK'
  BY <1>19, RevokedRecord DEF WriteRevoked, Return, Step
<1>20. ASSUME NEW c \in Calls, Crash(c) PROVE BindingOK'
  BY <1>20 DEF Crash, Return, Step
<1>21. CASE UNCHANGED vars
  BY <1>21 DEF vars, call
<1>22. QED
  BY <1>1, <1>2, <1>3, <1>4, <1>5, <1>6, <1>7, <1>8, <1>9, <1>10,
     <1>11, <1>12, <1>13, <1>14, <1>15, <1>16, <1>17, <1>18, <1>19, <1>20, <1>21
  DEF Next, Account, Present, Serve

(* Every token of a login is bound to the device and to the token version  *)
(* it signed in with, however many exchanges and revocations lie between.  *)
THEOREM LineageBindingCorrect == Spec => []LineageBinding
<1>1. Init => BindingOK
  BY DEF Init, BindingOK, Held, Stored, Suspended
<1>2. BindingOK => LineageBinding
  BY DEF BindingOK, LineageBinding, Held
<1>3. QED
  BY <1>1, <1>2, Inductive, BindingStep, PTL DEF Spec
=============================================================================
