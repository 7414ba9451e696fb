-------------------------- MODULE CredentialsProofs --------------------------
(***************************************************************************)
(* Proofs about Credentials, for every number of requests, passwords and   *)
(* links, and every maxAttempts.                                           *)
(***************************************************************************)
EXTENDS Credentials, FiniteSetTheorems, TLAPS

-----------------------------------------------------------------------------
(* The inductive invariant *)

(* The stages of a login that may yet succeed. *)
Reading == {"check", "verify", "unlock", "rehash"}

(* What a call holds: a password once it was given one, the link it        *)
(* completes, and a version no newer than the account's; past the check of *)
(* the password, the right one.                                            *)
LocalsOK ==
  \A c \in Calls :
    /\ pc[c] \in Reading \cup {"lock", "write", "account", "claim"} =>
         input[c] \in Passwords
    /\ pc[c] \in {"account", "claim"} => link[c] \in Links
    /\ pc[c] \in {"unlock", "rehash", "in"} => Right(c)
    /\ pc[c] = "rehash" => NeedsRehash(seen[c].hash)
    /\ seen[c].version <= version

IInv == TypeOK /\ LocalsOK

-----------------------------------------------------------------------------
(* What is done to a link *)

Link == [state: {"unsent", "live", "expired", "consumed", "revoked"}, print: Hash]

(* A link keeps the hash it is bound to, *)
LEMMA ChangedLink ==
  ASSUME NEW r \in Link,
         NEW s \in {"unsent", "live", "expired", "consumed", "revoked"}
  PROVE  /\ [r EXCEPT !.state = s] \in Link
         /\ [r EXCEPT !.state = s].print = r.print
BY DEF Link

(* when those that work are revoked, *)
LEMMA RevokedLinks ==
  ASSUME links \in [Links -> Link]
  PROVE  RevokeLive \in [Links -> Link]
BY ChangedLink DEF RevokeLive

(* and when one is consumed. *)
LEMMA ConsumedLink ==
  ASSUME links \in [Links -> Link], NEW l \in Links
  PROVE  [links EXCEPT ![l].state = "consumed"] \in [Links -> Link]
<1>1. [links[l] EXCEPT !.state = "consumed"] \in Link
  BY ChangedLink
<1>2. QED
  BY <1>1

(* A call keeps what it holds until it is over. *)
LEMMA LocalsStep ==
  ASSUME IInv, [Next]_vars
  PROVE  IInv'
<1> USE CredentialsAssumption DEF IInv, TypeOK, LocalsOK, Reading, Right, Hash,
        Ended, LoginStages, ResetStages, account, lockout, passwordHistory,
        lockoutHistory
<1>1. ASSUME NEW c \in Calls, NEW p \in Passwords, FindByIdentifier(c, p)
      PROVE  IInv'
  BY <1>1 DEF FindByIdentifier, Step, See
<1>2. ASSUME NEW c \in Calls, Blocked(c) PROVE IInv'
  BY <1>2 DEF Blocked, Step
<1>3. ASSUME NEW c \in Calls, NotLockedOut(c) PROVE IInv'
  BY <1>3 DEF NotLockedOut, Step
<1>4. ASSUME NEW c \in Calls, Refuse(c) PROVE IInv'
  BY <1>4 DEF Refuse, Step
<1>5. ASSUME NEW c \in Calls, RecordFailure(c) PROVE IInv'
  BY <1>5 DEF RecordFailure, Step
<1>6. ASSUME NEW c \in Calls, SetLock(c) PROVE IInv'
  BY <1>6 DEF SetLock, Step
<1>7. ASSUME NEW c \in Calls, ClearFailures(c) PROVE IInv'
  BY <1>7 DEF ClearFailures, Step
<1>8. ASSUME NEW c \in Calls, ClearLock(c) PROVE IInv'
  BY <1>8 DEF ClearLock, Step
<1>9. ASSUME NEW c \in Calls, Rehash(c) PROVE IInv'
  BY <1>9 DEF Rehash, Step
<1>10. ASSUME NEW c \in Calls, NEW p \in Passwords, FindById(c, p) PROVE IInv'
  BY <1>10 DEF FindById, Step, See
<1>11. ASSUME NEW c \in Calls, WriteHash(c) PROVE IInv'
  BY <1>11 DEF WriteHash, Step
<1>12. ASSUME NEW c \in Calls, IncrementTokenVersion(c) PROVE IInv'
  BY <1>12 DEF IncrementTokenVersion, Step
<1>13. ASSUME NEW c \in Calls, FindForReset(c) PROVE IInv'
  BY <1>13 DEF FindForReset, Step, See
<1>14. ASSUME NEW c \in Calls, RevokeOlder(c) PROVE IInv'
  <2>1. RevokeLive \in [Links -> Link]
    BY <1>14, RevokedLinks DEF Link, RevokeOlder, Step
  <2>2. links' \in [Links -> Link]
    BY <1>14, <2>1 DEF RevokeOlder
  <2>3. QED
    BY <1>14, <2>2 DEF RevokeOlder, Step, Link
<1>15. ASSUME NEW c \in Calls, NEW l \in Links, SaveLink(c, l) PROVE IInv'
  BY <1>15 DEF SaveLink, Step
<1>16. ASSUME NEW c \in Calls, NEW l \in Links, NEW p \in Passwords,
              FindLink(c, l, p)
      PROVE  IInv'
  BY <1>16 DEF FindLink, Step
<1>17. ASSUME NEW c \in Calls, CheckAccount(c) PROVE IInv'
  BY <1>17 DEF CheckAccount, Step, See
<1>18. ASSUME NEW c \in Calls, Claim(c) PROVE IInv'
  <2>1. [links EXCEPT ![link[c]].state = "consumed"] \in [Links -> Link]
    BY <1>18, ConsumedLink DEF Link, Claim, Step
  <2>2. links' \in [Links -> Link]
    BY <1>18, <2>1 DEF Claim
  <2>3. QED
    BY <1>18, <2>2 DEF Claim, Step, Link
<1>19. ASSUME NEW c \in Calls, LoseClaim(c) PROVE IInv'
  BY <1>19 DEF LoseClaim, Step
<1>20. ASSUME NEW c \in Calls, Sweep(c) PROVE IInv'
  <2>1. RevokeLive \in [Links -> Link]
    BY <1>20, RevokedLinks DEF Link, Sweep, Step
  <2>2. links' \in [Links -> Link]
    BY <1>20, <2>1 DEF Sweep
  <2>3. QED
    BY <1>20, <2>2 DEF Sweep, Step, Link
<1>21. ASSUME NEW c \in Calls, Fail(c) PROVE IInv'
  BY <1>21 DEF Fail
<1>22. ASSUME NEW l \in Links, ExpireLink(l) PROVE IInv'
  BY <1>22 DEF ExpireLink, call
<1>23. ASSUME ExpireFailures PROVE IInv'
  BY <1>23 DEF ExpireFailures, call
<1>24. ASSUME ExpireLock PROVE IInv'
  BY <1>24 DEF ExpireLock, call
<1>25. CASE UNCHANGED vars
  BY <1>25 DEF vars, call
<1> HIDE DEF IInv
<1>26. QED
  BY <1>1, <1>2, <1>3, <1>4, <1>5, <1>6, <1>7, <1>8, <1>9, <1>10, <1>11, <1>12,
     <1>13, <1>14, <1>15, <1>16, <1>17, <1>18, <1>19, <1>20, <1>21, <1>22, <1>23,
     <1>24, <1>25 DEF Next, Login, Change, Request, Complete

-----------------------------------------------------------------------------
(* What a reset signs out *)

(* Unless a hash was written while a login was to upgrade the old one, the *)
(* hash in force is that of the password chosen last, and every login that *)
(* will upgrade the hash was given that password.                          *)
UpgradeOK ==
  \/ raced
  \/ /\ hash.password = chosen
     /\ \A c \in Calls : Upgrading(c) => input[c] = chosen

(* A login that passes, or will pass, with a password since replaced holds *)
(* a version that is out of date, or about to be.                          *)
LoginOK ==
  \A c \in Calls :
    pc[c] \in Reading \cup {"in"} /\ Right(c) /\ input[c] # chosen =>
      \/ seen[c].version < version
      \/ \E d \in Calls : pc[d] = "bump"
      \/ raced \/ lost

PasswordInv == UpgradeOK /\ LoginOK

(* Every step of a login or a reset keeps both. *)
LEMMA PasswordStep ==
  ASSUME IInv, PasswordInv, [Next]_vars
  PROVE  PasswordInv'
<1> USE CredentialsAssumption DEF IInv, TypeOK, LocalsOK, Reading, Right, Hash,
        Ended, PasswordInv, UpgradeOK, LoginOK, Upgrading, NeedsRehash, account,
        lockout, passwordHistory, lockoutHistory
<1>1. ASSUME NEW c \in Calls, NEW p \in Passwords, FindByIdentifier(c, p)
      PROVE  PasswordInv'
  BY <1>1 DEF FindByIdentifier, Step, See
<1>2. ASSUME NEW c \in Calls, Blocked(c) PROVE PasswordInv'
  BY <1>2 DEF Blocked, Step
<1>3. ASSUME NEW c \in Calls, NotLockedOut(c) PROVE PasswordInv'
  BY <1>3 DEF NotLockedOut, Step
<1>4. ASSUME NEW c \in Calls, Refuse(c) PROVE PasswordInv'
  BY <1>4 DEF Refuse, Step
<1>5. ASSUME NEW c \in Calls, RecordFailure(c) PROVE PasswordInv'
  BY <1>5 DEF RecordFailure, Step
<1>6. ASSUME NEW c \in Calls, SetLock(c) PROVE PasswordInv'
  BY <1>6 DEF SetLock, Step
<1>7. ASSUME NEW c \in Calls, ClearFailures(c) PROVE PasswordInv'
  BY <1>7 DEF ClearFailures, Step
<1>8. ASSUME NEW c \in Calls, ClearLock(c) PROVE PasswordInv'
  BY <1>8 DEF ClearLock, Step
<1>9. ASSUME NEW c \in Calls, Rehash(c) PROVE PasswordInv'
  BY <1>9 DEF Rehash, Step
<1>10. ASSUME NEW c \in Calls, NEW p \in Passwords, FindById(c, p)
      PROVE  PasswordInv'
  BY <1>10 DEF FindById, Step, See
<1>11. ASSUME NEW c \in Calls, WriteHash(c) PROVE PasswordInv'
  BY <1>11 DEF WriteHash, Step
<1>12. ASSUME NEW c \in Calls, IncrementTokenVersion(c) PROVE PasswordInv'
  BY <1>12 DEF IncrementTokenVersion, Step
<1>13. ASSUME NEW c \in Calls, FindForReset(c) PROVE PasswordInv'
  BY <1>13 DEF FindForReset, Step, See
<1>14. ASSUME NEW c \in Calls, RevokeOlder(c) PROVE PasswordInv'
  BY <1>14 DEF RevokeOlder, Step, RevokeLive
<1>15. ASSUME NEW c \in Calls, NEW l \in Links, SaveLink(c, l) PROVE PasswordInv'
  BY <1>15 DEF SaveLink, Step
<1>16. ASSUME NEW c \in Calls, NEW l \in Links, NEW p \in Passwords,
              FindLink(c, l, p)
      PROVE  PasswordInv'
  BY <1>16 DEF FindLink, Step
<1>17. ASSUME NEW c \in Calls, CheckAccount(c) PROVE PasswordInv'
  BY <1>17 DEF CheckAccount, Step, See
<1>18. ASSUME NEW c \in Calls, Claim(c) PROVE PasswordInv'
  BY <1>18 DEF Claim, Step
<1>19. ASSUME NEW c \in Calls, LoseClaim(c) PROVE PasswordInv'
  BY <1>19 DEF LoseClaim, Step
<1>20. ASSUME NEW c \in Calls, Sweep(c) PROVE PasswordInv'
  BY <1>20 DEF Sweep, Step, RevokeLive
<1>21. ASSUME NEW c \in Calls, Fail(c) PROVE PasswordInv'
  BY <1>21 DEF Fail
<1>22. ASSUME NEW l \in Links, ExpireLink(l) PROVE PasswordInv'
  BY <1>22 DEF ExpireLink, call
<1>23. ASSUME ExpireFailures PROVE PasswordInv'
  BY <1>23 DEF ExpireFailures, call
<1>24. ASSUME ExpireLock PROVE PasswordInv'
  BY <1>24 DEF ExpireLock, call
<1>25. CASE UNCHANGED vars
  BY <1>25 DEF vars, call
<1> HIDE DEF PasswordInv
<1>26. QED
  BY <1>1, <1>2, <1>3, <1>4, <1>5, <1>6, <1>7, <1>8, <1>9, <1>10, <1>11, <1>12,
     <1>13, <1>14, <1>15, <1>16, <1>17, <1>18, <1>19, <1>20, <1>21, <1>22, <1>23,
     <1>24, <1>25 DEF Next, Login, Change, Request, Complete

-----------------------------------------------------------------------------
(* How many links work *)

Working == {l \in Links : links[l].state \in {"live", "expired"}}
Requesting(c) == pc[c] \in {"revoke", "save"}

(* Unless two requests overlapped, the one at work has revoked every link  *)
(* before it saves its own.                                                *)
LinkInv ==
  \/ overlapped
  \/ /\ \A c, d \in Calls : Requesting(c) /\ Requesting(d) => c = d
     /\ \A c \in Calls, l \in Working : pc[c] # "save"
     /\ \A l, m \in Working : l = m

(* Every step of a request or a completion keeps it. *)
LEMMA LinkStep ==
  ASSUME IInv, LinkInv, [Next]_vars
  PROVE  LinkInv'
<1> USE CredentialsAssumption DEF IInv, TypeOK, LocalsOK, Ended, LinkInv, Working,
        Requesting, account, lockout, passwordHistory, lockoutHistory
<1>1. ASSUME NEW c \in Calls, NEW p \in Passwords, FindByIdentifier(c, p)
      PROVE  LinkInv'
  BY <1>1 DEF FindByIdentifier, Step, See
<1>2. ASSUME NEW c \in Calls, Blocked(c) PROVE LinkInv'
  BY <1>2 DEF Blocked, Step
<1>3. ASSUME NEW c \in Calls, NotLockedOut(c) PROVE LinkInv'
  BY <1>3 DEF NotLockedOut, Step
<1>4. ASSUME NEW c \in Calls, Refuse(c) PROVE LinkInv'
  BY <1>4 DEF Refuse, Step
<1>5. ASSUME NEW c \in Calls, RecordFailure(c) PROVE LinkInv'
  BY <1>5 DEF RecordFailure, Step
<1>6. ASSUME NEW c \in Calls, SetLock(c) PROVE LinkInv'
  BY <1>6 DEF SetLock, Step
<1>7. ASSUME NEW c \in Calls, ClearFailures(c) PROVE LinkInv'
  BY <1>7 DEF ClearFailures, Step
<1>8. ASSUME NEW c \in Calls, ClearLock(c) PROVE LinkInv'
  BY <1>8 DEF ClearLock, Step
<1>9. ASSUME NEW c \in Calls, Rehash(c) PROVE LinkInv'
  BY <1>9 DEF Rehash, Step
<1>10. ASSUME NEW c \in Calls, NEW p \in Passwords, FindById(c, p) PROVE LinkInv'
  BY <1>10 DEF FindById, Step, See
<1>11. ASSUME NEW c \in Calls, WriteHash(c) PROVE LinkInv'
  BY <1>11 DEF WriteHash, Step
<1>12. ASSUME NEW c \in Calls, IncrementTokenVersion(c) PROVE LinkInv'
  BY <1>12 DEF IncrementTokenVersion, Step
<1>13. ASSUME NEW c \in Calls, FindForReset(c) PROVE LinkInv'
  BY <1>13 DEF FindForReset, Step, See
<1>14. ASSUME NEW c \in Calls, RevokeOlder(c) PROVE LinkInv'
  BY <1>14 DEF RevokeOlder, Step, RevokeLive
<1>15. ASSUME NEW c \in Calls, NEW l \in Links, SaveLink(c, l) PROVE LinkInv'
  BY <1>15 DEF SaveLink, Step
<1>16. ASSUME NEW c \in Calls, NEW l \in Links, NEW p \in Passwords,
              FindLink(c, l, p)
      PROVE  LinkInv'
  BY <1>16 DEF FindLink, Step
<1>17. ASSUME NEW c \in Calls, CheckAccount(c) PROVE LinkInv'
  BY <1>17 DEF CheckAccount, Step, See
<1>18. ASSUME NEW c \in Calls, Claim(c) PROVE LinkInv'
  BY <1>18 DEF Claim, Step
<1>19. ASSUME NEW c \in Calls, LoseClaim(c) PROVE LinkInv'
  BY <1>19 DEF LoseClaim, Step
<1>20. ASSUME NEW c \in Calls, Sweep(c) PROVE LinkInv'
  BY <1>20 DEF Sweep, Step, RevokeLive
<1>21. ASSUME NEW c \in Calls, Fail(c) PROVE LinkInv'
  BY <1>21 DEF Fail
<1>22. ASSUME NEW l \in Links, ExpireLink(l) PROVE LinkInv'
  BY <1>22 DEF ExpireLink, call
<1>23. ASSUME ExpireFailures PROVE LinkInv'
  BY <1>23 DEF ExpireFailures, call
<1>24. ASSUME ExpireLock PROVE LinkInv'
  BY <1>24 DEF ExpireLock, call
<1>25. CASE UNCHANGED vars
  BY <1>25 DEF vars, call
<1> HIDE DEF LinkInv
<1>26. QED
  BY <1>1, <1>2, <1>3, <1>4, <1>5, <1>6, <1>7, <1>8, <1>9, <1>10, <1>11, <1>12,
     <1>13, <1>14, <1>15, <1>16, <1>17, <1>18, <1>19, <1>20, <1>21, <1>22, <1>23,
     <1>24, <1>25 DEF Next, Login, Change, Request, Complete

-----------------------------------------------------------------------------
(* The lockout *)

(* The counter raises its alarm when it reaches the threshold, not before. *)
LockoutInv == LockoutHolds /\ (failures < MaxAttempts => alarms = 0)

(* Every failure, reset of the counter and lapse keeps it. *)
LEMMA LockoutStep ==
  ASSUME IInv, LockoutInv, [Next]_vars
  PROVE  LockoutInv'
<1> USE CredentialsAssumption DEF IInv, TypeOK, LockoutInv, LockoutHolds, account,
        lockout, passwordHistory, lockoutHistory
<1>1. ASSUME NEW c \in Calls, NEW p \in Passwords, FindByIdentifier(c, p)
      PROVE  LockoutInv'
  BY <1>1 DEF FindByIdentifier, Step, See
<1>2. ASSUME NEW c \in Calls, Blocked(c) PROVE LockoutInv'
  BY <1>2 DEF Blocked, Step
<1>3. ASSUME NEW c \in Calls, NotLockedOut(c) PROVE LockoutInv'
  BY <1>3 DEF NotLockedOut, Step
<1>4. ASSUME NEW c \in Calls, Refuse(c) PROVE LockoutInv'
  BY <1>4 DEF Refuse, Step
<1>5. ASSUME NEW c \in Calls, RecordFailure(c) PROVE LockoutInv'
  BY <1>5 DEF RecordFailure, Step
<1>6. ASSUME NEW c \in Calls, SetLock(c) PROVE LockoutInv'
  BY <1>6 DEF SetLock, Step
<1>7. ASSUME NEW c \in Calls, ClearFailures(c) PROVE LockoutInv'
  BY <1>7 DEF ClearFailures, Step
<1>8. ASSUME NEW c \in Calls, ClearLock(c) PROVE LockoutInv'
  BY <1>8 DEF ClearLock, Step
<1>9. ASSUME NEW c \in Calls, Rehash(c) PROVE LockoutInv'
  BY <1>9 DEF Rehash, Step
<1>10. ASSUME NEW c \in Calls, NEW p \in Passwords, FindById(c, p) PROVE LockoutInv'
  BY <1>10 DEF FindById, Step, See
<1>11. ASSUME NEW c \in Calls, WriteHash(c) PROVE LockoutInv'
  BY <1>11 DEF WriteHash, Step
<1>12. ASSUME NEW c \in Calls, IncrementTokenVersion(c) PROVE LockoutInv'
  BY <1>12 DEF IncrementTokenVersion, Step
<1>13. ASSUME NEW c \in Calls, FindForReset(c) PROVE LockoutInv'
  BY <1>13 DEF FindForReset, Step, See
<1>14. ASSUME NEW c \in Calls, RevokeOlder(c) PROVE LockoutInv'
  BY <1>14 DEF RevokeOlder, Step, RevokeLive
<1>15. ASSUME NEW c \in Calls, NEW l \in Links, SaveLink(c, l) PROVE LockoutInv'
  BY <1>15 DEF SaveLink, Step
<1>16. ASSUME NEW c \in Calls, NEW l \in Links, NEW p \in Passwords,
              FindLink(c, l, p)
      PROVE  LockoutInv'
  BY <1>16 DEF FindLink, Step
<1>17. ASSUME NEW c \in Calls, CheckAccount(c) PROVE LockoutInv'
  BY <1>17 DEF CheckAccount, Step, See
<1>18. ASSUME NEW c \in Calls, Claim(c) PROVE LockoutInv'
  BY <1>18 DEF Claim, Step
<1>19. ASSUME NEW c \in Calls, LoseClaim(c) PROVE LockoutInv'
  BY <1>19 DEF LoseClaim, Step
<1>20. ASSUME NEW c \in Calls, Sweep(c) PROVE LockoutInv'
  BY <1>20 DEF Sweep, Step, RevokeLive
<1>21. ASSUME NEW c \in Calls, Fail(c) PROVE LockoutInv'
  BY <1>21 DEF Fail
<1>22. ASSUME NEW l \in Links, ExpireLink(l) PROVE LockoutInv'
  BY <1>22 DEF ExpireLink, call
<1>23. ASSUME ExpireFailures PROVE LockoutInv'
  BY <1>23 DEF ExpireFailures, call
<1>24. ASSUME ExpireLock PROVE LockoutInv'
  BY <1>24 DEF ExpireLock, call
<1>25. CASE UNCHANGED vars
  BY <1>25 DEF vars, call
<1> HIDE DEF LockoutInv
<1>26. QED
  BY <1>1, <1>2, <1>3, <1>4, <1>5, <1>6, <1>7, <1>8, <1>9, <1>10, <1>11, <1>12,
     <1>13, <1>14, <1>15, <1>16, <1>17, <1>18, <1>19, <1>20, <1>21, <1>22, <1>23,
     <1>24, <1>25 DEF Next, Login, Change, Request, Complete

-----------------------------------------------------------------------------
(* The hash a link is bound to *)

(* The stages after which a call writes no hash any more. *)
Written(c) == pc[c] \in {"bump", "sweep", "done", "in", "failed"}

(* The hash a call is to write is in no place yet, so that no hash that a  *)
(* reset has replaced is ever in force again.                              *)
FreshInv ==
  /\ hash \notin spent
  /\ \A c \in Calls : ~Written(c) =>
       /\ hash.by # c
       /\ \A h \in spent : h.by # c
       /\ \A l \in Links : links[l].print.by # c
       /\ \A d \in Calls : seen[d].hash.by # c

(* A hash is written once, so every step keeps it. *)
LEMMA FreshStep ==
  ASSUME IInv, FreshInv, [Next]_vars
  PROVE  FreshInv'
<1> USE CredentialsAssumption DEF IInv, TypeOK, LocalsOK, Reading, Hash, Ended,
        FreshInv, Written, account, lockout, passwordHistory, lockoutHistory
<1>1. ASSUME NEW c \in Calls, NEW p \in Passwords, FindByIdentifier(c, p)
      PROVE  FreshInv'
  BY <1>1 DEF FindByIdentifier, Step, See
<1>2. ASSUME NEW c \in Calls, Blocked(c) PROVE FreshInv'
  BY <1>2 DEF Blocked, Step
<1>3. ASSUME NEW c \in Calls, NotLockedOut(c) PROVE FreshInv'
  BY <1>3 DEF NotLockedOut, Step
<1>4. ASSUME NEW c \in Calls, Refuse(c) PROVE FreshInv'
  BY <1>4 DEF Refuse, Step
<1>5. ASSUME NEW c \in Calls, RecordFailure(c) PROVE FreshInv'
  BY <1>5 DEF RecordFailure, Step
<1>6. ASSUME NEW c \in Calls, SetLock(c) PROVE FreshInv'
  BY <1>6 DEF SetLock, Step
<1>7. ASSUME NEW c \in Calls, ClearFailures(c) PROVE FreshInv'
  BY <1>7 DEF ClearFailures, Step
<1>8. ASSUME NEW c \in Calls, ClearLock(c) PROVE FreshInv'
  BY <1>8 DEF ClearLock, Step
<1>9. ASSUME NEW c \in Calls, Rehash(c) PROVE FreshInv'
  BY <1>9 DEF Rehash, Step
<1>10. ASSUME NEW c \in Calls, NEW p \in Passwords, FindById(c, p) PROVE FreshInv'
  BY <1>10 DEF FindById, Step, See
<1>11. ASSUME NEW c \in Calls, WriteHash(c) PROVE FreshInv'
  BY <1>11 DEF WriteHash, Step
<1>12. ASSUME NEW c \in Calls, IncrementTokenVersion(c) PROVE FreshInv'
  BY <1>12 DEF IncrementTokenVersion, Step
<1>13. ASSUME NEW c \in Calls, FindForReset(c) PROVE FreshInv'
  BY <1>13 DEF FindForReset, Step, See
<1>14. ASSUME NEW c \in Calls, RevokeOlder(c) PROVE FreshInv'
  BY <1>14 DEF RevokeOlder, Step, RevokeLive
<1>15. ASSUME NEW c \in Calls, NEW l \in Links, SaveLink(c, l) PROVE FreshInv'
  BY <1>15 DEF SaveLink, Step
<1>16. ASSUME NEW c \in Calls, NEW l \in Links, NEW p \in Passwords,
              FindLink(c, l, p)
      PROVE  FreshInv'
  BY <1>16 DEF FindLink, Step
<1>17. ASSUME NEW c \in Calls, CheckAccount(c) PROVE FreshInv'
  BY <1>17 DEF CheckAccount, Step, See
<1>18. ASSUME NEW c \in Calls, Claim(c) PROVE FreshInv'
  BY <1>18 DEF Claim, Step
<1>19. ASSUME NEW c \in Calls, LoseClaim(c) PROVE FreshInv'
  BY <1>19 DEF LoseClaim, Step
<1>20. ASSUME NEW c \in Calls, Sweep(c) PROVE FreshInv'
  BY <1>20 DEF Sweep, Step, RevokeLive
<1>21. ASSUME NEW c \in Calls, Fail(c) PROVE FreshInv'
  BY <1>21 DEF Fail
<1>22. ASSUME NEW l \in Links, ExpireLink(l) PROVE FreshInv'
  BY <1>22 DEF ExpireLink, call
<1>23. ASSUME ExpireFailures PROVE FreshInv'
  BY <1>23 DEF ExpireFailures, call
<1>24. ASSUME ExpireLock PROVE FreshInv'
  BY <1>24 DEF ExpireLock, call
<1>25. CASE UNCHANGED vars
  BY <1>25 DEF vars, call
<1> HIDE DEF FreshInv
<1>26. QED
  BY <1>1, <1>2, <1>3, <1>4, <1>5, <1>6, <1>7, <1>8, <1>9, <1>10, <1>11, <1>12,
     <1>13, <1>14, <1>15, <1>16, <1>17, <1>18, <1>19, <1>20, <1>21, <1>22, <1>23,
     <1>24, <1>25 DEF Next, Login, Change, Request, Complete

-----------------------------------------------------------------------------
(* The theorems *)

(* All of the invariants hold before the first call, *)
LEMMA InitInvs == Init => IInv /\ PasswordInv /\ LinkInv /\ LockoutInv /\ FreshInv
<1> SUFFICES ASSUME Init
             PROVE  IInv /\ PasswordInv /\ LinkInv /\ LockoutInv /\ FreshInv
  OBVIOUS
<1>1. PICK p \in Passwords : hash = [password |-> p, by |-> NoCall] /\ chosen = p
  BY DEF Init
<1>2. PICK sent \in {{}} \cup {{l} : l \in Links} :
        links = [l \in Links |-> [state |-> IF l \in sent THEN "live" ELSE "unsent",
                                  print |-> hash]]
  BY DEF Init
<1>3. hash \in Hash /\ version = 0 /\ failures = 0 /\ alarms = 0
  BY <1>1 DEF Init, Hash
<1>4. IInv
  <2>1. TypeOK
    <3>1. links \in [Links -> Link]
      <4>1. \A l \in Links : links[l] \in Link
        BY <1>2, <1>3 DEF Link
      <4>2. QED
        BY <1>2, <4>1
    <3>2. seen \in [Calls -> [hash: Hash, version: Nat]]
      BY <1>3 DEF Init
    <3>3. pc \in [Calls -> Ended \cup LoginStages \cup ResetStages]
          /\ input \in [Calls -> Passwords \cup {NoPassword}]
          /\ link \in [Calls -> Links \cup {NoLink}]
      BY DEF Init, Ended
    <3>4. QED
      <4>1. /\ version \in Nat /\ failures \in Nat /\ alarms \in Nat
            /\ chosen \in Passwords /\ spent \subseteq Hash
        BY <1>1, <1>3 DEF Init
      <4>2. /\ lock \in BOOLEAN /\ raced \in BOOLEAN /\ lost \in BOOLEAN
            /\ overlapped \in BOOLEAN /\ freed \in BOOLEAN
        BY DEF Init
      <4>3. QED
        BY <1>3, <3>1, <3>2, <3>3, <4>1, <4>2 DEF TypeOK, Link
  <2>2. LocalsOK
    BY <1>3 DEF Init, LocalsOK, Reading
  <2>3. QED
    BY <2>1, <2>2 DEF IInv
<1>5. PasswordInv
  BY <1>1 DEF Init, PasswordInv, UpgradeOK, LoginOK, Upgrading, Reading
<1>6. LinkInv
  BY <1>2 DEF Init, LinkInv, Working, Requesting
<1>7. LockoutInv
  BY <1>3, CredentialsAssumption DEF LockoutInv, LockoutHolds
<1>8. FreshInv
  BY <1>1, <1>2, CredentialsAssumption DEF Init, FreshInv
<1>9. QED
  BY <1>4, <1>5, <1>6, <1>7, <1>8

(* and so always. *)
LEMMA Inductive ==
  Spec => [](IInv /\ PasswordInv /\ LinkInv /\ LockoutInv /\ FreshInv)
<1>1. IInv /\ [Next]_vars => IInv'
  BY LocalsStep
<1>2. IInv /\ PasswordInv /\ [Next]_vars => PasswordInv'
  BY PasswordStep
<1>3. IInv /\ LinkInv /\ [Next]_vars => LinkInv'
  BY LinkStep
<1>4. IInv /\ LockoutInv /\ [Next]_vars => LockoutInv'
  BY LockoutStep
<1>5. IInv /\ FreshInv /\ [Next]_vars => FreshInv'
  BY FreshStep
<1>6. QED
  BY InitInvs, <1>1, <1>2, <1>3, <1>4, <1>5, PTL DEF Spec

(* Every variable keeps its type. *)
THEOREM TypeCorrect == Spec => []TypeOK
<1>1. IInv => TypeOK
  BY DEF IInv
<1>2. QED
  BY Inductive, <1>1, PTL

(* A login let in with a password since replaced is signed out by the      *)
(* version, but for the upgrade race and a death in between.               *)
THEOREM ReplacedSignedOutCorrect == Spec => []ReplacedSignedOut
<1>1. IInv /\ PasswordInv => ReplacedSignedOut
  BY DEF IInv, LocalsOK, PasswordInv, LoginOK, ReplacedSignedOut
<1>2. QED
  BY Inductive, <1>1, PTL

(* Unless two requests overlapped, at most one link of an account works.   *)
THEOREM OneLinkWorksCorrect == Spec => []OneLinkWorks
<1>1. LinkInv => OneLinkWorks
  <2> SUFFICES ASSUME LinkInv, ~overlapped
               PROVE  Cardinality(Working) <= 1
    BY DEF OneLinkWorks, Working
  <2>1. \A l, m \in Working : l = m
    BY DEF LinkInv
  <2>2. CASE Working = {}
    BY <2>2, FS_EmptySet
  <2>3. ASSUME NEW l \in Working PROVE Cardinality(Working) <= 1
    <3>1. Working = {l}
      BY <2>1
    <3>2. QED
      BY <3>1, FS_Singleton
  <2>4. QED
    BY <2>2, <2>3
<1>2. QED
  BY Inductive, <1>1, PTL

(* Past the threshold the account is locked, or is about to be, until the  *)
(* lock is removed; and one count raises one alarm.                        *)
THEOREM LockoutHoldsCorrect == Spec => []LockoutHolds
<1>1. LockoutInv => LockoutHolds
  BY DEF LockoutInv
<1>2. QED
  BY Inductive, <1>1, PTL

(* A link to a hash that a reset has replaced never passes the checks.     *)
THEOREM OlderLinkDiesCorrect == Spec => OlderLinkDies
<1> DEFINE Dies == \A c \in Calls :
             pc[c] = "account" /\ pc'[c] = "claim" => links[link[c]].print \notin spent
<1>1. IInv /\ FreshInv /\ [Next]_vars => Dies
  <2> SUFFICES ASSUME IInv, FreshInv, [Next]_vars PROVE Dies
    OBVIOUS
  <2> USE DEF IInv, TypeOK, FreshInv, account, lockout, passwordHistory,
          lockoutHistory
  <2>1. ASSUME NEW c \in Calls, NEW p \in Passwords, FindByIdentifier(c, p) PROVE Dies
    BY <2>1 DEF FindByIdentifier, Step, See
  <2>2. ASSUME NEW c \in Calls, Blocked(c) PROVE Dies
    BY <2>2 DEF Blocked, Step
  <2>3. ASSUME NEW c \in Calls, NotLockedOut(c) PROVE Dies
    BY <2>3 DEF NotLockedOut, Step
  <2>4. ASSUME NEW c \in Calls, Refuse(c) PROVE Dies
    BY <2>4 DEF Refuse, Step
  <2>5. ASSUME NEW c \in Calls, RecordFailure(c) PROVE Dies
    BY <2>5 DEF RecordFailure, Step
  <2>6. ASSUME NEW c \in Calls, SetLock(c) PROVE Dies
    BY <2>6 DEF SetLock, Step
  <2>7. ASSUME NEW c \in Calls, ClearFailures(c) PROVE Dies
    BY <2>7 DEF ClearFailures, Step
  <2>8. ASSUME NEW c \in Calls, ClearLock(c) PROVE Dies
    BY <2>8 DEF ClearLock, Step
  <2>9. ASSUME NEW c \in Calls, Rehash(c) PROVE Dies
    BY <2>9 DEF Rehash, Step
  <2>10. ASSUME NEW c \in Calls, NEW p \in Passwords, FindById(c, p) PROVE Dies
    BY <2>10 DEF FindById, Step, See
  <2>11. ASSUME NEW c \in Calls, WriteHash(c) PROVE Dies
    BY <2>11 DEF WriteHash, Step
  <2>12. ASSUME NEW c \in Calls, IncrementTokenVersion(c) PROVE Dies
    BY <2>12 DEF IncrementTokenVersion, Step
  <2>13. ASSUME NEW c \in Calls, FindForReset(c) PROVE Dies
    BY <2>13 DEF FindForReset, Step, See
  <2>14. ASSUME NEW c \in Calls, RevokeOlder(c) PROVE Dies
    BY <2>14 DEF RevokeOlder, Step, RevokeLive
  <2>15. ASSUME NEW c \in Calls, NEW l \in Links, SaveLink(c, l) PROVE Dies
    BY <2>15 DEF SaveLink, Step
  <2>16. ASSUME NEW c \in Calls, NEW l \in Links, NEW p \in Passwords,
                FindLink(c, l, p)
        PROVE  Dies
    BY <2>16 DEF FindLink, Step
  <2>17. ASSUME NEW c \in Calls, CheckAccount(c) PROVE Dies
    BY <2>17 DEF CheckAccount, Step, See
  <2>18. ASSUME NEW c \in Calls, Claim(c) PROVE Dies
    BY <2>18 DEF Claim, Step
  <2>19. ASSUME NEW c \in Calls, LoseClaim(c) PROVE Dies
    BY <2>19 DEF LoseClaim, Step
  <2>20. ASSUME NEW c \in Calls, Sweep(c) PROVE Dies
    BY <2>20 DEF Sweep, Step, RevokeLive
  <2>21. ASSUME NEW c \in Calls, Fail(c) PROVE Dies
    BY <2>21 DEF Fail
  <2>22. ASSUME NEW l \in Links, ExpireLink(l) PROVE Dies
    BY <2>22 DEF ExpireLink, call
  <2>23. ASSUME ExpireFailures PROVE Dies
    BY <2>23 DEF ExpireFailures, call
  <2>24. ASSUME ExpireLock PROVE Dies
    BY <2>24 DEF ExpireLock, call
  <2>25. CASE UNCHANGED vars
    BY <2>25 DEF vars, call
  <2>26. QED
    BY <2>1, <2>2, <2>3, <2>4, <2>5, <2>6, <2>7, <2>8, <2>9, <2>10, <2>11, <2>12,
       <2>13, <2>14, <2>15, <2>16, <2>17, <2>18, <2>19, <2>20, <2>21, <2>22, <2>23,
       <2>24, <2>25 DEF Next, Login, Change, Request, Complete
<1>2. QED
  BY <1>1, Inductive, PTL DEF Spec, OlderLinkDies
==============================================================================
