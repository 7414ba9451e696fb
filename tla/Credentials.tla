---------------------------- MODULE Credentials ----------------------------
(***************************************************************************)
(* One account's password: LoginService (auth/src/login.ts) with its       *)
(* failure counter and lock in the cache, changePassword, and              *)
(* PasswordResetService (auth/src/reset.ts) with its store of links.       *)
(*                                                                         *)
(* A hash is the password it was made from and the call that made it,      *)
(* since every hash has a salt of its own.  Hashing and verifying take     *)
(* long and touch nothing, so that they are the gap between two actions.   *)
(* The two cache keys expire or are evicted at any time.  Each call is one *)
(* request, and runs once.                                                 *)
(***************************************************************************)
EXTENDS Naturals, FiniteSets

CONSTANTS
  Calls,      \* requests: logins, changes, reset requests and completions
  NoCall,     \* the writer of the hash the account starts with
  Passwords,
  NoPassword,
  Links,      \* reset links
  NoLink,     \* the link of a call that completes no reset
  MaxAttempts \* maxAttempts

ASSUME CredentialsAssumption ==
  /\ NoCall \notin Calls /\ NoPassword \notin Passwords /\ NoLink \notin Links
  /\ MaxAttempts \in Nat \ {0}

VARIABLES
  hash,       \* the account's password hash
  version,    \* and its token version
  links,      \* the store of reset links
  failures,   \* the failure counter, 0 when the key is absent
  lock,       \* whether the lock key is present
  pc,         \* where each call is
  input,      \* the password it was called with
  seen,       \* the account it read
  link,       \* the link it completes
  \* History, read by no guard of the code:
  chosen,     \* the password the last change or reset was called with
  raced,      \* one was written while a login was to upgrade the old hash
  lost,       \* a call died between the hash and the token version
  spent,      \* the hashes a reset has replaced
  overlapped, \* two reset requests ran at once
  freed,      \* the lock was removed, or never set, since it was due
  alarms      \* alarms raised since the failure counter began

account == <<hash, version>>
lockout == <<failures, lock>>
call == <<pc, input, seen, link>>
passwordHistory == <<chosen, raced, lost, spent, overlapped>>
lockoutHistory == <<freed, alarms>>
vars == <<account, links, lockout, call, passwordHistory, lockoutHistory>>

Hash == [password: Passwords, by: Calls \cup {NoCall}]

Ended == {"idle", "in", "out", "done", "failed"}
LoginStages == {"check", "verify", "lock", "unlock", "rehash"}
ResetStages == {"revoke", "save", "account", "claim", "write", "bump", "sweep"}

TypeOK ==
  /\ hash \in Hash /\ version \in Nat
  /\ links \in [Links -> [state: {"unsent", "live", "expired", "consumed", "revoked"},
                          print: Hash]]
  /\ failures \in Nat /\ lock \in BOOLEAN
  /\ pc \in [Calls -> Ended \cup LoginStages \cup ResetStages]
  /\ input \in [Calls -> Passwords \cup {NoPassword}]
  /\ seen \in [Calls -> [hash: Hash, version: Nat]]
  /\ link \in [Calls -> Links \cup {NoLink}]
  /\ chosen \in Passwords /\ spent \subseteq Hash
  /\ raced \in BOOLEAN /\ lost \in BOOLEAN /\ overlapped \in BOOLEAN
  /\ freed \in BOOLEAN /\ alarms \in Nat

(* An account whose hash has outdated parameters, and no link to it or one. *)
Init ==
  /\ \E p \in Passwords : hash = [password |-> p, by |-> NoCall] /\ chosen = p
  /\ version = 0
  /\ \E sent \in {{}} \cup {{l} : l \in Links} :
       links = [l \in Links |-> [state |-> IF l \in sent THEN "live" ELSE "unsent",
                                 print |-> hash]]
  /\ failures = 0 /\ lock = FALSE
  /\ pc = [c \in Calls |-> "idle"]
  /\ input = [c \in Calls |-> NoPassword]
  /\ seen = [c \in Calls |-> [hash |-> hash, version |-> 0]]
  /\ link = [c \in Calls |-> NoLink]
  /\ raced = FALSE /\ lost = FALSE /\ spent = {} /\ overlapped = FALSE
  /\ freed = FALSE /\ alarms = 0

Step(c, from, to) == pc[c] = from /\ pc' = [pc EXCEPT ![c] = to]

(* The account as c reads it. *)
See(c) == seen' = [seen EXCEPT ![c] = [hash |-> hash, version |-> version]]

-----------------------------------------------------------------------------
(* authenticate *)

Right(c) == input[c] = seen[c].hash.password

(* needsRehash: only the first hash has outdated parameters. *)
NeedsRehash(h) == h.by = NoCall

FindByIdentifier(c, p) ==
  /\ Step(c, "idle", "check")
  /\ See(c)
  /\ input' = [input EXCEPT ![c] = p]
  /\ UNCHANGED <<account, links, lockout, link, passwordHistory, lockoutHistory>>

Blocked(c) ==
  /\ Step(c, "check", "out")
  /\ lock
  /\ UNCHANGED <<account, links, lockout, input, seen, link, passwordHistory, lockoutHistory>>

NotLockedOut(c) ==
  /\ Step(c, "check", "verify")
  /\ ~lock
  /\ UNCHANGED <<account, links, lockout, input, seen, link, passwordHistory, lockoutHistory>>

(* The risk engine denies the attempt, or the account is disabled or locked. *)
Refuse(c) ==
  /\ Step(c, "verify", "out")
  /\ UNCHANGED <<account, links, lockout, input, seen, link, passwordHistory, lockoutHistory>>

(* Mutant of RecordFailure: locks one failure too late. *)
RecordFailureLate(c) ==
  /\ Step(c, "verify", IF failures + 1 <= MaxAttempts THEN "out" ELSE "lock")
  /\ ~Right(c)
  /\ failures' = failures + 1
  /\ alarms' = IF failures + 1 = MaxAttempts THEN alarms + 1 ELSE alarms
  /\ UNCHANGED <<account, links, lock, input, seen, link, passwordHistory, freed>>

(* A wrong password.  The one caller that sees the threshold crossed will  *)
(* raise the alarm, after it has set the lock.                             *)
RecordFailure(c) ==
  /\ Step(c, "verify", IF failures + 1 < MaxAttempts THEN "out" ELSE "lock")
  /\ ~Right(c)
  /\ failures' = failures + 1
  /\ alarms' = IF failures + 1 = MaxAttempts THEN alarms + 1 ELSE alarms
  /\ UNCHANGED <<account, links, lock, input, seen, link, passwordHistory, freed>>

SetLock(c) ==
  /\ Step(c, "lock", "out")
  /\ lock' = TRUE
  /\ freed' = FALSE
  /\ UNCHANGED <<account, links, failures, input, seen, link, passwordHistory, alarms>>

(* The right password: clearFailures deletes the counter, then the lock. *)
ClearFailures(c) ==
  /\ Step(c, "verify", "unlock")
  /\ Right(c)
  /\ failures' = 0
  /\ alarms' = 0
  /\ UNCHANGED <<account, links, lock, input, seen, link, passwordHistory, freed>>

ClearLock(c) ==
  /\ Step(c, "unlock", IF NeedsRehash(seen[c].hash) THEN "rehash" ELSE "in")
  /\ lock' = FALSE
  /\ freed' = TRUE
  /\ UNCHANGED <<account, links, failures, input, seen, link, passwordHistory, alarms>>

(* The silent upgrade of the hash that was verified. *)
Rehash(c) ==
  /\ Step(c, "rehash", "in")
  /\ hash' = [password |-> input[c], by |-> c]
  /\ UNCHANGED <<version, links, lockout, input, seen, link, passwordHistory, lockoutHistory>>

-----------------------------------------------------------------------------
(* changePassword, by a user who knows the current one *)

FindById(c, p) ==
  /\ Step(c, "idle", "write")
  /\ See(c)
  /\ input' = [input EXCEPT ![c] = p]
  /\ UNCHANGED <<account, links, lockout, link, passwordHistory, lockoutHistory>>

Upgrading(c) ==
  /\ pc[c] \in {"check", "verify", "unlock", "rehash"}
  /\ Right(c) /\ NeedsRehash(seen[c].hash)

(* Mutant of WriteHash: the token version is the first to change. *)
WriteHashLate(c) ==
  /\ pc[c] \in {"write", "bump"}
  /\ IF pc[c] = "write"
     THEN /\ Step(c, "write", "bump")
          /\ version' = version + 1
          /\ UNCHANGED <<hash, passwordHistory>>
     ELSE /\ Step(c, "bump", IF link[c] = NoLink THEN "done" ELSE "sweep")
          /\ hash' = [password |-> input[c], by |-> c]
          /\ chosen' = input[c]
          /\ raced' = (raced \/ \E d \in Calls : Upgrading(d))
          /\ spent' = IF link[c] = NoLink THEN spent ELSE spent \cup {links[link[c]].print}
          /\ UNCHANGED <<version, lost, overlapped>>
  /\ UNCHANGED <<links, lockout, input, seen, link, lockoutHistory>>

(* The new hash, of a change or of a reset, *)
WriteHash(c) ==
  /\ Step(c, "write", "bump")
  /\ hash' = [password |-> input[c], by |-> c]
  /\ chosen' = input[c]
  /\ raced' = (raced \/ \E d \in Calls : Upgrading(d))
  /\ spent' = IF link[c] = NoLink THEN spent ELSE spent \cup {links[link[c]].print}
  /\ UNCHANGED <<version, links, lockout, input, seen, link, lost, overlapped, lockoutHistory>>

(* and then the version every older token fails on. *)
IncrementTokenVersion(c) ==
  /\ Step(c, "bump", IF link[c] = NoLink THEN "done" ELSE "sweep")
  /\ version' = version + 1
  /\ UNCHANGED <<hash, links, lockout, input, seen, link, passwordHistory, lockoutHistory>>

-----------------------------------------------------------------------------
(* request *)

(* revokeForUser leaves what was consumed or revoked as it is. *)
RevokeLive == [l \in Links |-> IF links[l].state \in {"live", "expired"}
                               THEN [links[l] EXCEPT !.state = "revoked"] ELSE links[l]]

FindForReset(c) ==
  /\ Step(c, "idle", "revoke")
  /\ See(c)
  /\ overlapped' = (overlapped \/ \E d \in Calls : pc[d] \in {"revoke", "save"})
  /\ UNCHANGED <<account, links, lockout, input, link, chosen, raced, lost, spent, lockoutHistory>>

(* Mutant of RevokeOlder: nothing is revoked. *)
RevokeOlderNot(c) ==
  /\ Step(c, "revoke", "save")
  /\ UNCHANGED <<account, links, lockout, input, seen, link, passwordHistory, lockoutHistory>>

RevokeOlder(c) ==
  /\ Step(c, "revoke", "save")
  /\ links' = RevokeLive
  /\ UNCHANGED <<account, lockout, input, seen, link, passwordHistory, lockoutHistory>>

(* The link is bound to the hash that was read, saved and delivered. *)
SaveLink(c, l) ==
  /\ Step(c, "save", "done")
  /\ links[l].state = "unsent"
  /\ links' = [links EXCEPT ![l] = [state |-> "live", print |-> seen[c].hash]]
  /\ UNCHANGED <<account, lockout, input, seen, link, passwordHistory, lockoutHistory>>

-----------------------------------------------------------------------------
(* complete *)

FindLink(c, l, p) ==
  /\ links[l].state # "unsent"
  /\ Step(c, "idle", IF links[l].state = "live" THEN "account" ELSE "out")
  /\ input' = [input EXCEPT ![c] = p]
  /\ link' = [link EXCEPT ![c] = l]
  /\ UNCHANGED <<account, links, lockout, seen, passwordHistory, lockoutHistory>>

(* Mutant of CheckAccount: the link is not bound to a hash. *)
CheckAccountNot(c) ==
  /\ Step(c, "account", "claim")
  /\ See(c)
  /\ UNCHANGED <<account, links, lockout, input, link, passwordHistory, lockoutHistory>>

(* The link has to be bound to the hash in force. *)
CheckAccount(c) ==
  /\ Step(c, "account", IF links[link[c]].print = hash THEN "claim" ELSE "out")
  /\ See(c)
  /\ UNCHANGED <<account, links, lockout, input, link, passwordHistory, lockoutHistory>>

(* markConsumed: the gate, which does not look at the expiry again. *)
Claim(c) ==
  /\ Step(c, "claim", "write")
  /\ links[link[c]].state \in {"live", "expired"}
  /\ links' = [links EXCEPT ![link[c]].state = "consumed"]
  /\ UNCHANGED <<account, lockout, input, seen, link, passwordHistory, lockoutHistory>>

LoseClaim(c) ==
  /\ Step(c, "claim", "out")
  /\ links[link[c]].state \notin {"live", "expired"}
  /\ UNCHANGED <<account, links, lockout, input, seen, link, passwordHistory, lockoutHistory>>

(* The other links of the account, and onReset. *)
Sweep(c) ==
  /\ Step(c, "sweep", "done")
  /\ links' = RevokeLive
  /\ UNCHANGED <<account, lockout, input, seen, link, passwordHistory, lockoutHistory>>

-----------------------------------------------------------------------------
(* The environment *)

ExpireLink(l) ==
  /\ links[l].state = "live"
  /\ links' = [links EXCEPT ![l].state = "expired"]
  /\ UNCHANGED <<account, lockout, call, passwordHistory, lockoutHistory>>

ExpireFailures ==
  /\ failures > 0
  /\ failures' = 0
  /\ alarms' = 0
  /\ UNCHANGED <<account, links, lock, call, passwordHistory, freed>>

ExpireLock ==
  /\ lock
  /\ lock' = FALSE
  /\ freed' = TRUE
  /\ UNCHANGED <<account, links, failures, call, passwordHistory, alarms>>

(* A store, the cache, the policy or the replica fails the call. *)
Fail(c) ==
  /\ pc[c] \notin Ended
  /\ pc' = [pc EXCEPT ![c] = "failed"]
  /\ lost' = (lost \/ pc[c] = "bump")
  /\ freed' = (freed \/ pc[c] = "lock")
  /\ UNCHANGED <<account, links, lockout, input, seen, link, chosen, raced, spent, overlapped,
                 alarms>>

-----------------------------------------------------------------------------

Login(c) ==
  \/ \E p \in Passwords : FindByIdentifier(c, p)
  \/ Blocked(c) \/ NotLockedOut(c) \/ Refuse(c) \/ RecordFailure(c) \/ SetLock(c)
  \/ ClearFailures(c) \/ ClearLock(c) \/ Rehash(c)

Change(c) ==
  \/ \E p \in Passwords : FindById(c, p)
  \/ WriteHash(c) \/ IncrementTokenVersion(c)

Request(c) == FindForReset(c) \/ RevokeOlder(c) \/ \E l \in Links : SaveLink(c, l)

Complete(c) ==
  \/ \E l \in Links, p \in Passwords : FindLink(c, l, p)
  \/ CheckAccount(c) \/ Claim(c) \/ LoseClaim(c) \/ Sweep(c)

Next ==
  \/ \E c \in Calls : Login(c) \/ Change(c) \/ Request(c) \/ Complete(c) \/ Fail(c)
  \/ \E l \in Links : ExpireLink(l)
  \/ ExpireFailures \/ ExpireLock

Spec == Init /\ [][Next]_vars

-----------------------------------------------------------------------------
(* Properties *)

(* "Whoever forced the reset must not survive it": a login that was let in *)
(* with a password since replaced carries a token version that no longer   *)
(* counts, once the replacement has bumped it.  Only a login that was      *)
(* upgrading the old hash while the new one was written can undo it, or a  *)
(* death between the hash and the version.                                 *)
ReplacedSignedOut ==
  \A c \in Calls :
    pc[c] = "in" /\ input[c] # chosen =>
      \/ seen[c].version < version
      \/ \E d \in Calls : pc[d] = "bump"
      \/ raced \/ lost

(* Only the newest link works, unless two requests overlapped. *)
OneLinkWorks ==
  overlapped \/ Cardinality({l \in Links : links[l].state \in {"live", "expired"}}) <= 1

(* A link issued against a hash that another reset has replaced does not   *)
(* pass the checks: the older of two links, tried after the newer one.     *)
OlderLinkDies ==
  [][\A c \in Calls :
       pc[c] = "account" /\ pc'[c] = "claim" => links[link[c]].print \notin spent]_vars

(* Once the threshold is crossed the identifier is locked, or the call     *)
(* that crossed it is about to lock it, until the lock expires, its writer *)
(* dies or a login with the right password removes it; and one counter     *)
(* raises one alarm, however many guesses arrive at once.                  *)
LockoutHolds ==
  /\ failures >= MaxAttempts => lock \/ freed \/ \E c \in Calls : pc[c] = "lock"
  /\ alarms <= 1

-----------------------------------------------------------------------------
(* Claims of the repository that the code does not keep *)

(* auth/src/reset.ts:34: whoever forced the reset must not survive it.  A  *)
(* login's upgrade of the hash it verified restores the replaced password. *)
ReplacedStaysReplaced == hash.password = chosen
=============================================================================
