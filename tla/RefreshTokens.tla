--------------------------- MODULE RefreshTokens ---------------------------
(***************************************************************************)
(* Refresh tokens: RefreshTokenService (auth/src/tokens.ts) over the       *)
(* RefreshTokenStorePort that every replica shares, as                     *)
(* MemoryRefreshTokenStore (auth/src/stores.ts) implements it.             *)
(*                                                                         *)
(* A call is one request being served by some replica.  Between two of its *)
(* awaits anything may happen, so every store operation is one action and  *)
(* the code that runs after it, up to the next await, is part of that      *)
(* action.  A token is its record id: the plaintext, its hash and the id   *)
(* determine each other.  Timestamps are kept only where the code compares *)
(* them; rotatedAt and revokedAt are "set or not".  A clock read and the   *)
(* store operation it is for fall in the same tick.                        *)
(***************************************************************************)
EXTENDS Naturals

CONSTANTS
  Calls,      \* requests in flight, on any replica; each runs once
  Tokens,     \* refresh token ids
  Families,   \* token families: one per login
  Devices,    \* device ids
  NoDevice,   \* the deviceId a record or a request may leave undefined
  NoVersion,  \* the tokenVersion a request may leave undefined
  NoToken,    \* no token id
  NoFamily,   \* no family id
  Absent,     \* what findByHash returns for a token it does not hold
  Ttl,        \* lifetime of a token, in clock ticks
  MaxTime,    \* bound on the clock
  MaxVersion  \* bound on the account's token version

Versions == 0..MaxVersion

(* The stored record, without the hash, the tenant, the user, the session  *)
(* and replacedBy, which nothing reads: one account of one tenant is       *)
(* modelled, so every family belongs to it.                                *)
Record == [family: Families, device: Devices \cup {NoDevice}, version: Versions,
           expiresAt: Nat, rotated: BOOLEAN, revoked: BOOLEAN]

ASSUME ConstantsAssumption ==
  /\ Ttl \in Nat /\ MaxTime \in Nat /\ MaxVersion \in Nat
  /\ Absent \notin Record
  /\ NoDevice \notin Devices /\ NoVersion \notin Versions
  /\ NoToken \notin Tokens /\ NoFamily \notin Families

VARIABLES
  store,    \* the shared store: token id -> record
  version,  \* the account's tokenVersion, in the user directory
  now,      \* the clock
  pc,       \* the await each call is suspended at
  token,    \* the token a suspended call was given
  seen,     \* the record it read with findByHash
  heir,     \* the replacement id it reserved before claiming
  \* History, read by no guard of the code:
  lineage,  \* per token id ever reserved, its family
  winners,  \* per token, the calls whose claim the store granted
  reopened, \* families in which a blind update erased a rotation mark
  purged,   \* tokens deleteExpired removed
  alarms,   \* tokens onReuseDetected was called for
  ended,    \* families revoked as a whole, by anyone
  midway    \* per family, the exchanges under way when it was last revoked

call == <<pc, token, seen, heir>>
revocation == <<ended, midway>>
history == <<lineage, winners, reopened, purged, alarms, revocation>>
vars == <<store, version, now, call, history>>

Stages == {"idle", "claim", "save", "reuse", "mismatch", "notify", "write",
           "rotated", "done"}
Finished == {"rotated", "done"}

TypeOK ==
  /\ store \in [Tokens -> Record \cup {Absent}]
  /\ version \in Versions
  /\ now \in 0..MaxTime
  /\ pc \in [Calls -> Stages]
  /\ token \in [Calls -> Tokens \cup {NoToken}]
  /\ seen \in [Calls -> Record \cup {Absent}]
  /\ heir \in [Calls -> Tokens \cup {NoToken}]
  /\ lineage \in [Tokens -> Families \cup {NoFamily}]
  /\ winners \in [Tokens -> SUBSET Calls]
  /\ reopened \subseteq Families
  /\ purged \subseteq Tokens
  /\ alarms \subseteq Tokens
  /\ ended \subseteq Families
  /\ midway \in [Families -> SUBSET Calls]

Init ==
  /\ store = [t \in Tokens |-> Absent]
  /\ version = 0
  /\ now = 0
  /\ pc = [c \in Calls |-> "idle"]
  /\ token = [c \in Calls |-> NoToken]
  /\ seen = [c \in Calls |-> Absent]
  /\ heir = [c \in Calls |-> NoToken]
  /\ lineage = [t \in Tokens |-> NoFamily]
  /\ winners = [t \in Tokens |-> {}]
  /\ reopened = {}
  /\ purged = {}
  /\ alarms = {}
  /\ ended = {}
  /\ midway = [f \in Families |-> {}]

-----------------------------------------------------------------------------
(* The store *)

Stored == {t \in Tokens : store[t] # Absent}
TokensOf(f) == {t \in Stored : store[t].family = f}
Received == Stored \cup purged   \* saved, so handed to a client
Live(t) == t \in Stored /\ ~store[t].rotated /\ ~store[t].revoked
Expired(r) == now >= r.expiresAt

(* The exchanges of family f between their read and their last write. *)
Exchanging(f) == {c \in Calls : pc[c] \in {"claim", "save"} /\ seen[c].family = f}

Revoked(r) == [r EXCEPT !.revoked = TRUE]
Rotated(r) == [r EXCEPT !.rotated = TRUE]

(* Mutant of RevokeFamilies: spares the tokens not exchanged yet. *)
RevokeSpent(fs) ==
  /\ store' = [t \in Tokens |->
                 IF t \in Stored /\ store[t].family \in fs /\ store[t].rotated
                 THEN Revoked(store[t]) ELSE store[t]]
  /\ ended' = ended \cup fs
  /\ midway' = [f \in Families |-> IF f \in fs THEN Exchanging(f) ELSE midway[f]]

(* revokeFamily and revokeForUser: one statement over all records. *)
RevokeFamilies(fs) ==
  /\ store' = [t \in Tokens |->
                 IF t \in Stored /\ store[t].family \in fs
                 THEN Revoked(store[t]) ELSE store[t]]
  /\ ended' = ended \cup fs
  /\ midway' = [f \in Families |-> IF f \in fs THEN Exchanging(f) ELSE midway[f]]

(* Mutants of Claimable: a mark that does not look at rotatedAt, and one    *)
(* that looks at revokedAt too.                                            *)
ClaimableAgain(t) == t \in Stored
ClaimableUnrevoked(t) == t \in Stored /\ ~store[t].rotated /\ ~store[t].revoked

(* markRotated, the compare-and-swap, looks at rotatedAt and at nothing     *)
(* else: a token revoked since it was read is still claimed.                *)
Claimable(t) == t \in Stored /\ ~store[t].rotated

-----------------------------------------------------------------------------
(* The account *)

Fresh(t) == lineage[t] = NoFamily

(* Mutant of Issued: the tokenVersion is left undefined. *)
IssuedUnversioned(f, d, v) ==
  [family |-> f, device |-> d, version |-> NoVersion, expiresAt |-> now + Ttl,
   rotated |-> FALSE, revoked |-> FALSE]

(* issue: the record of a new token. *)
Issued(f, d, v) ==
  [family |-> f, device |-> d, version |-> v, expiresAt |-> now + Ttl,
   rotated |-> FALSE, revoked |-> FALSE]

(* issue without a familyId: a sign-in starts a family. *)
SignIn(f, t, d) ==
  /\ Fresh(t)
  /\ \A u \in Tokens : lineage[u] # f
  /\ store' = [store EXCEPT ![t] = Issued(f, d, version)]
  /\ lineage' = [lineage EXCEPT ![t] = f]
  /\ UNCHANGED <<version, now, call, winners, reopened, purged, alarms, revocation>>

(* directory.incrementTokenVersion, called by a password reset. *)
BumpVersion ==
  /\ version < MaxVersion
  /\ version' = version + 1
  /\ UNCHANGED <<store, now, call, history>>

(* revokeFamily called by the product: signing out one login. *)
SignOutFamily(f) ==
  /\ \E t \in TokensOf(f) : ~store[t].revoked
  /\ RevokeFamilies({f})
  /\ UNCHANGED <<version, now, call, lineage, winners, reopened, purged, alarms>>

(* revokeAllForUser: signing out everywhere. *)
SignOutEverywhere ==
  /\ \E t \in Stored : ~store[t].revoked
  /\ RevokeFamilies({store[t].family : t \in Stored})
  /\ UNCHANGED <<version, now, call, lineage, winners, reopened, purged, alarms>>

(* deleteExpired *)
PurgeExpired ==
  LET gone == {t \in Stored : Expired(store[t])} IN
  /\ gone # {}
  /\ store' = [t \in Tokens |-> IF t \in gone THEN Absent ELSE store[t]]
  /\ purged' = purged \cup gone
  /\ UNCHANGED <<version, now, call, lineage, winners, reopened, alarms, revocation>>

Tick ==
  /\ now < MaxTime
  /\ now' = now + 1
  /\ UNCHANGED <<store, version, call, history>>

-----------------------------------------------------------------------------
(* rotate *)

Step(c, from, to) == pc[c] = from /\ pc' = [pc EXCEPT ![c] = to]

(* The call is over, with its outcome: its locals are gone. *)
Return(c, from, outcome) ==
  /\ Step(c, from, outcome)
  /\ token' = [token EXCEPT ![c] = NoToken]
  /\ seen' = [seen EXCEPT ![c] = Absent]
  /\ heir' = [heir EXCEPT ![c] = NoToken]

(* The call has read the record of t and awaits its next store operation. *)
Proceed(c, t, to) ==
  /\ Step(c, "idle", to)
  /\ token' = [token EXCEPT ![c] = t]
  /\ seen' = [seen EXCEPT ![c] = store[t]]
  /\ UNCHANGED <<store, version, now, heir, history>>

(* rotate's checks on a record that is not a visible replay, for a request *)
(* from device d that carries the account's token version v, or none.      *)
Valid(r, v) ==
  /\ ~r.rotated
  /\ ~r.revoked
  /\ ~Expired(r)
  /\ v # NoVersion => v = r.version
DeviceMatches(r, d) == NoDevice \in {r.device, d} \/ r.device = d

(* findByHash, and the decision rotate takes on the record. *)
FindReplay(c, t) == t \in Stored /\ store[t].rotated /\ Proceed(c, t, "reuse")
FindMismatch(c, t, d, v) ==
  t \in Stored /\ Valid(store[t], v) /\ ~DeviceMatches(store[t], d)
    /\ Proceed(c, t, "mismatch")
FindValid(c, t, d, v) ==
  t \in Stored /\ Valid(store[t], v) /\ DeviceMatches(store[t], d)
    /\ Proceed(c, t, "claim")
FindInvalid(c, t, v) ==
  /\ t \in Stored => ~store[t].rotated /\ ~Valid(store[t], v)
  /\ Return(c, "idle", "done")
  /\ UNCHANGED <<store, version, now, history>>

(* Mutant of Claim: marks the copy it read and writes it back whole. *)
ClaimByUpdate(c, u) ==
  /\ Step(c, "claim", "save")
  /\ Claimable(token[c])
  /\ Fresh(u)
  /\ store' = [store EXCEPT ![token[c]] = Rotated(seen[c])]
  /\ heir' = [heir EXCEPT ![c] = u]
  /\ lineage' = [lineage EXCEPT ![u] = seen[c].family]
  /\ winners' = [winners EXCEPT ![token[c]] = @ \cup {c}]
  /\ UNCHANGED <<version, now, token, seen, reopened, purged, alarms, revocation>>

(* markRotated granted: this caller alone mints the replacement u. *)
Claim(c, u) ==
  /\ Step(c, "claim", "save")
  /\ Claimable(token[c])
  /\ Fresh(u)
  /\ store' = [store EXCEPT ![token[c]] = Rotated(@)]
  /\ heir' = [heir EXCEPT ![c] = u]
  /\ lineage' = [lineage EXCEPT ![u] = seen[c].family]
  /\ winners' = [winners EXCEPT ![token[c]] = @ \cup {c}]
  /\ UNCHANGED <<version, now, token, seen, reopened, purged, alarms, revocation>>

(* markRotated returned false: rotated meanwhile, or no longer stored. *)
LoseClaim(c) ==
  /\ Step(c, "claim", "reuse")
  /\ ~Claimable(token[c])
  /\ UNCHANGED <<store, version, now, token, seen, heir, history>>

(* Mutant of SaveHeir: the replacement gets the account's current version. *)
SaveHeirAnew(c) ==
  /\ Return(c, "save", "rotated")
  /\ store' = [store EXCEPT ![heir[c]] =
                 Issued(seen[c].family, seen[c].device, version)]
  /\ UNCHANGED <<version, now, history>>

(* issue for the replacement: it inherits the lineage of the claimed token. *)
SaveHeir(c) ==
  /\ Return(c, "save", "rotated")
  /\ store' = [store EXCEPT ![heir[c]] =
                 Issued(seen[c].family, seen[c].device, seen[c].version)]
  /\ UNCHANGED <<version, now, history>>

(* A replay, seen by the fast path or by losing the claim. *)
RevokeReused(c) ==
  /\ Step(c, "reuse", "notify")
  /\ RevokeFamilies({seen[c].family})
  /\ UNCHANGED <<version, now, token, seen, heir, lineage, winners, reopened,
                 purged, alarms>>

NotifyReuse(c) ==
  /\ Return(c, "notify", "done")
  /\ alarms' = alarms \cup {token[c]}
  /\ UNCHANGED <<store, version, now, lineage, winners, reopened, purged, revocation>>

RevokeMismatch(c) ==
  /\ Return(c, "mismatch", "done")
  /\ RevokeFamilies({seen[c].family})
  /\ UNCHANGED <<version, now, lineage, winners, reopened, purged, alarms>>

-----------------------------------------------------------------------------
(* revoke: read the record, then write the copy back with revokedAt set *)

FindToRevoke(c, t) ==
  t \in Stored /\ ~store[t].revoked /\ Proceed(c, t, "write")

RevokeNothing(c, t) ==
  /\ t \in Stored => store[t].revoked
  /\ Return(c, "idle", "done")
  /\ UNCHANGED <<store, version, now, history>>

(* store.update: the whole record, whatever happened to it meanwhile.  The *)
(* store's map inserts it again when it was purged.                        *)
WriteRevoked(c) ==
  /\ Return(c, "write", "done")
  /\ store' = [store EXCEPT ![token[c]] = Revoked(seen[c])]
  /\ reopened' = IF winners[token[c]] # {} /\ ~seen[c].rotated
                 THEN reopened \cup {seen[c].family} ELSE reopened
  /\ UNCHANGED <<version, now, lineage, winners, purged, alarms, revocation>>

(* The replica dies, or the store's answer never arrives: nothing after    *)
(* the current await runs.                                                 *)
Crash(c) ==
  /\ pc[c] \notin Finished \cup {"idle"}
  /\ Return(c, pc[c], "done")
  /\ UNCHANGED <<store, version, now, history>>

-----------------------------------------------------------------------------

(* A client presents a token it once received, from any device.  The       *)
(* product passes the token version it read some time before, or none.     *)
Present(c, t) ==
  \/ FindReplay(c, t)
  \/ FindToRevoke(c, t)
  \/ RevokeNothing(c, t)
  \/ \E v \in 0..version \cup {NoVersion} :
       \/ FindInvalid(c, t, v)
       \/ \E d \in Devices \cup {NoDevice} :
            FindMismatch(c, t, d, v) \/ FindValid(c, t, d, v)

Serve(c) ==
  \/ \E u \in Tokens : Claim(c, u)
  \/ LoseClaim(c)
  \/ SaveHeir(c)
  \/ RevokeReused(c)
  \/ NotifyReuse(c)
  \/ RevokeMismatch(c)
  \/ WriteRevoked(c)

Account ==
  \/ \E f \in Families, t \in Tokens, d \in Devices \cup {NoDevice} : SignIn(f, t, d)
  \/ BumpVersion
  \/ \E f \in Families : SignOutFamily(f)
  \/ SignOutEverywhere

Next ==
  \/ Account
  \/ PurgeExpired
  \/ Tick
  \/ \E c \in Calls : (\E t \in Received : Present(c, t)) \/ Serve(c) \/ Crash(c)

Spec == Init /\ [][Next]_vars

-----------------------------------------------------------------------------
(* Properties *)

AtMostOne(S) == \A x, y \in S : x = y

(* The tokens of family f that can still be exchanged, and the ones being  *)
(* minted.                                                                 *)
Heads(f) ==
  {t \in TokensOf(f) : ~store[t].rotated}
    \cup {heir[c] : c \in {d \in Calls : pc[d] = "save" /\ seen[d].family = f}}

(* A login never has two tokens that can still be exchanged, stored or     *)
(* being minted: rotate claims before it issues for this.  Only a          *)
(* token-level revoke that erased a rotation mark can break it.            *)
AtMostOneHead == \A f \in Families \ reopened : AtMostOne(Heads(f))

(* markRotated tells one caller true, ever, for a token of a family in     *)
(* which no blind update erased a rotation mark.                           *)
ClaimedOnce == \A t \in Tokens : lineage[t] \notin reopened => AtMostOne(winners[t])

(* onReuseDetected never accuses a token that was presented once: it was   *)
(* exchanged before, or its record expired and was purged under the call.  *)
AlarmIsHonest == \A t \in alarms : winners[t] # {} \/ t \in purged

(* What revoking a family guarantees: a token of it is live afterwards only *)
(* if an exchange that had already read its token when the revocation      *)
(* landed went on to save the replacement.                                 *)
OnlyMidwaySurvives ==
  \A t \in Stored :
    Live(t) /\ store[t].family \in ended =>
      \E c \in midway[store[t].family] : pc[c] = "rotated"

(* Every token of a family is bound to the device and the token version of *)
(* its sign-in, however many exchanges separate them.                      *)
LineageBinding ==
  \A t, u \in Stored :
    store[t].family = store[u].family =>
      store[t].device = store[u].device /\ store[t].version = store[u].version

(* No write takes a revocation back, although issue and revoke replace     *)
(* whole records from what they read earlier.                              *)
RevocationIsPermanent ==
  [][\A t \in Stored : store[t].revoked => t \notin Stored' \/ store'[t].revoked]_vars

-----------------------------------------------------------------------------
(* Claims of the repository that the code does not keep *)

(* conformance/test/distributed.test.ts:117: once reuse is detected the     *)
(* whole lineage, the winner's replacement included, is revoked.           *)
ReuseEndsLineage ==
  \A t \in alarms :
    Exchanging(lineage[t]) = {} => \A u \in TokensOf(lineage[t]) : ~Live(u)

(* interfaces/src/tokens.ts:70: exactly one caller may receive true for a   *)
(* given token.                                                            *)
OneWinnerEver == \A t \in Tokens : AtMostOne(winners[t])
=============================================================================
