------------------------------ MODULE Sessions ------------------------------
(***************************************************************************)
(* Sessions: SessionManager (session/src/manager.ts) over a                *)
(* SessionStorePort all replicas share, as MemorySessionStore              *)
(* (session/src/stores.ts) implements it, for one user of one tenant.      *)
(*                                                                         *)
(* A call is one request on some replica; every store or lock operation is *)
(* one action together with the code up to the next await.  A clock read   *)
(* and the store read next to it fall in the same tick.  The lock keeps    *)
(* what a lease promises: one owner, until it releases or the lease ends.  *)
(***************************************************************************)
EXTENDS Naturals, FiniteSets

CONSTANTS
  Calls,         \* requests in flight, on any replica; each runs once
  Ids,           \* session ids
  NoId,          \* no session id
  NoOne,         \* the owner of a free lock
  Absent,        \* what get returns for a session the store does not hold
  MaxConcurrent, \* policy.maxConcurrent
  Idle,          \* policy.idleTimeout, in clock ticks
  Absolute,      \* policy.absoluteTimeout, in clock ticks
  MaxTime        \* bound on the clock

(* The stored record, without what no decision here reads. *)
Record == [lastSeen: Nat, idleUntil: Nat, until: Nat, revoked: BOOLEAN]

ASSUME SessionsAssumption ==
  /\ MaxConcurrent \in Nat \ {0}
  /\ Idle \in Nat /\ Absolute \in Nat /\ MaxTime \in Nat
  /\ NoId \notin Ids /\ NoOne \notin Calls /\ Absent \notin Record

VARIABLES
  mode,     \* limitEnforcement: which ports are wired, for the whole run
  policy,   \* policy.onLimitReached, for the whole run
  store,    \* the shared store: session id -> record
  owner,    \* the holder of the user's session-limit lock
  now,      \* the clock
  pc,       \* the await each call is suspended at
  built,    \* per id generated, the record a login built for it
  new,      \* the session a login is creating
  of,       \* the session whose record a touch or a revocation has read
  copy,     \* the changed copy of that record, to be written
  todo,     \* the sessions a call has still to revoke
  \* History, read by no guard of the code:
  gone,     \* sessions some revocation was finished for
  racing,   \* the touches in flight on a session when it last was finished
  slipped,  \* a login worked in the critical section without the lock
  revived   \* a touch's write made a session active again that was not

wiring == <<mode, policy>>
call == <<pc, built, new, of, copy, todo>>
history == <<gone, racing, slipped, revived>>
vars == <<wiring, store, owner, now, call, history>>

Modes == {"store-transaction", "distributed-lock", "best-effort"}
Policies == {"evict-oldest", "deny"}
Section == {"list", "loop", "mark", "insert"}
Finished == {"done", "touched"}
Stages == Section \cup Finished \cup {"idle", "lock", "unlock", "touch"}

TypeOK ==
  /\ mode \in Modes
  /\ policy \in Policies
  /\ store \in [Ids -> Record \cup {Absent}]
  /\ owner \in Calls \cup {NoOne}
  /\ now \in 0..MaxTime
  /\ pc \in [Calls -> Stages]
  /\ built \in [Ids -> Record \cup {Absent}]
  /\ new \in [Calls -> Ids \cup {NoId}]
  /\ of \in [Calls -> Ids \cup {NoId}]
  /\ copy \in [Calls -> Record \cup {Absent}]
  /\ todo \in [Calls -> SUBSET Ids]
  /\ gone \subseteq Ids
  /\ racing \in [Ids -> SUBSET Calls]
  /\ slipped \in BOOLEAN
  /\ revived \in BOOLEAN

Init ==
  /\ mode \in Modes
  /\ policy \in Policies
  /\ store = [s \in Ids |-> Absent]
  /\ owner = NoOne
  /\ now = 0
  /\ pc = [c \in Calls |-> "idle"]
  /\ built = [s \in Ids |-> Absent]
  /\ new = [c \in Calls |-> NoId]
  /\ of = [c \in Calls |-> NoId]
  /\ copy = [c \in Calls |-> Absent]
  /\ todo = [c \in Calls |-> {}]
  /\ gone = {}
  /\ racing = [s \in Ids |-> {}]
  /\ slipped = FALSE
  /\ revived = FALSE

-----------------------------------------------------------------------------
(* Records and the store *)

Stored == {s \in Ids : store[s] # Absent}
Expired(r) == now >= r.until \/ now >= r.idleUntil

(* What validate and the filter of listActive both ask of a record. *)
Usable(r) == ~r.revoked /\ ~Expired(r)
ActiveIds == {s \in Stored : Usable(store[s])}
AtLimitLate == Cardinality(ActiveIds) > MaxConcurrent   \* mutant of AtLimit
AtLimit == Cardinality(ActiveIds) >= MaxConcurrent

(* #build *)
Built ==
  [lastSeen |-> now, idleUntil |-> now + Idle, until |-> now + Absolute,
   revoked |-> FALSE]

(* Mutants of Revoked: forgets a field, and writes what it has read. *)
RevokedBare(r) == [lastSeen |-> r.lastSeen, idleUntil |-> r.idleUntil, until |-> r.until]
RevokedNot(r) == r

Revoked(r) == [r EXCEPT !.revoked = TRUE]

(* Mutant of Touched: the absolute deadline slides as well. *)
TouchedOn(r) ==
  [r EXCEPT !.lastSeen = now, !.idleUntil = now + Idle, !.until = now + Absolute]

(* touch slides the idle window, as far as the absolute deadline. *)
Touched(r) ==
  [r EXCEPT !.lastSeen = now,
            !.idleUntil = IF now + Idle < r.until THEN now + Idle ELSE r.until]

(* The sessions that go to make room for one more: the least recently seen.*)
(* Ties are broken either way.                                             *)
Oldest(out, live) ==
  /\ out \subseteq live
  /\ Cardinality(out) + MaxConcurrent = Cardinality(live) + 1
  /\ \A s \in out, u \in live \ out : store[s].lastSeen <= store[u].lastSeen

Touching(s) == {c \in Calls : pc[c] = "touch" /\ of[c] = s}

(* A revocation of these sessions is over: the store holds each revoked or *)
(* not at all.                                                             *)
Finish(sessions) ==
  /\ gone' = gone \cup sessions
  /\ racing' = [s \in Ids |-> IF s \in sessions THEN Touching(s) ELSE racing[s]]

-----------------------------------------------------------------------------
(* How calls advance and end *)

Step(c, from, to) == pc[c] = from /\ pc' = [pc EXCEPT ![c] = to]

(* The call is over: its locals are gone. *)
Return(c, outcome) ==
  /\ pc' = [pc EXCEPT ![c] = outcome]
  /\ new' = [new EXCEPT ![c] = NoId]
  /\ of' = [of EXCEPT ![c] = NoId]
  /\ copy' = [copy EXCEPT ![c] = Absent]
  /\ todo' = [todo EXCEPT ![c] = {}]
  /\ UNCHANGED built

(* The finally of create: a lock that was taken is released first. *)
Conclude(c) ==
  IF owner = c
  THEN pc' = [pc EXCEPT ![c] = "unlock"] /\ UNCHANGED <<built, new, of, copy, todo>>
  ELSE Return(c, "done")

(* The call has read s and will write the copy r of it. *)
Hold(c, s, r) ==
  /\ of' = [of EXCEPT ![c] = s]
  /\ copy' = [copy EXCEPT ![c] = r]

-----------------------------------------------------------------------------
(* create *)

Generated(s) == built[s] # Absent

(* createWithinLimit: the store's transaction decides and writes. *)
CreateWithinLimit(c, s, out) ==
  /\ mode = "store-transaction"
  /\ ~Generated(s)
  /\ Step(c, "idle", "done")
  /\ IF AtLimit THEN policy = "evict-oldest" /\ Oldest(out, ActiveIds) ELSE out = {}
  /\ store' = [u \in Ids |-> IF u = s THEN Built
                             ELSE IF u \in out THEN Revoked(store[u]) ELSE store[u]]
  /\ built' = [built EXCEPT ![s] = Built]
  /\ Finish(out)
  /\ UNCHANGED <<wiring, owner, now, new, of, copy, todo, slipped, revived>>

DenyWithinLimit(c) ==
  /\ mode = "store-transaction"
  /\ AtLimit /\ policy = "deny"
  /\ Step(c, "idle", "done")
  /\ UNCHANGED <<wiring, store, owner, now, built, new, of, copy, todo, history>>

(* Without it the manager builds the session and enforces the limit itself.*)
BeginCreate(c, s) ==
  /\ mode # "store-transaction"
  /\ ~Generated(s)
  /\ Step(c, "idle", IF mode = "distributed-lock" THEN "lock" ELSE "list")
  /\ built' = [built EXCEPT ![s] = Built]
  /\ new' = [new EXCEPT ![c] = s]
  /\ UNCHANGED <<wiring, store, owner, now, of, copy, todo, history>>

Lock(c) ==
  /\ Step(c, "lock", "list")
  /\ owner = NoOne
  /\ owner' = c
  /\ UNCHANGED <<wiring, store, now, built, new, of, copy, todo, history>>

(* Mutant of GoOnUnlocked: acquire waits until it gets the lock. *)
WaitOn(c) == Lock(c)

(* acquire gave up after a lease's time: create goes on all the same. *)
GoOnUnlocked(c) ==
  /\ Step(c, "lock", "list")
  /\ owner # NoOne
  /\ slipped' = TRUE
  /\ UNCHANGED <<wiring, store, owner, now, built, new, of, copy, todo, gone,
                 racing, revived>>

(* listActive, and what #enforceLimit does with the answer. *)
BelowLimit(c) ==
  /\ Step(c, "list", "insert")
  /\ ~AtLimit
  /\ UNCHANGED <<wiring, store, owner, now, built, new, of, copy, todo, history>>

Deny(c) ==
  /\ pc[c] = "list"
  /\ AtLimit /\ policy = "deny"
  /\ Conclude(c)
  /\ UNCHANGED <<wiring, store, owner, now, history>>

Evict(c) ==
  /\ Step(c, "list", "loop")
  /\ AtLimit /\ policy = "evict-oldest"
  /\ \E out \in SUBSET ActiveIds :
       Oldest(out, ActiveIds) /\ todo' = [todo EXCEPT ![c] = out]
  /\ UNCHANGED <<wiring, store, owner, now, built, new, of, copy, history>>

(* store.create *)
Insert(c) ==
  /\ pc[c] = "insert"
  /\ store' = [store EXCEPT ![new[c]] = built[new[c]]]
  /\ Conclude(c)
  /\ UNCHANGED <<wiring, owner, now, history>>

Unlock(c) ==
  /\ pc[c] = "unlock"
  /\ owner' = IF owner = c THEN NoOne ELSE owner
  /\ Return(c, "done")
  /\ UNCHANGED <<wiring, store, now, history>>

-----------------------------------------------------------------------------
(* touch: validate, then write the copy back *)

(* A touch of a session that is not valid returns without a write. *)
FindToTouch(c, s) ==
  /\ Step(c, "idle", "touch")
  /\ s \in ActiveIds
  /\ Hold(c, s, Touched(store[s]))
  /\ UNCHANGED <<wiring, store, owner, now, built, new, todo, history>>

(* store.update: the whole record, whatever happened to it meanwhile.  The *)
(* store's map inserts it again when it was purged.                        *)
WriteTouch(c) ==
  /\ pc[c] = "touch"
  /\ store' = [store EXCEPT ![of[c]] = copy[c]]
  /\ revived' = (revived \/ (of[c] \notin ActiveIds /\ Usable(copy[c])))
  /\ Return(c, "touched")
  /\ UNCHANGED <<wiring, owner, now, gone, racing, slipped>>

-----------------------------------------------------------------------------
(* revoke, alone or in the loops of #enforceLimit, revokeAllForUser and    *)
(* revokeDevice.  The order in which a loop takes its sessions is left     *)
(* open.                                                                   *)

(* One session that a client names, or listActive without the sessions the *)
(* sweep is to keep: the current one, or those of other devices.           *)
BeginRevoke(c, sessions) ==
  /\ Step(c, "idle", "loop")
  /\ todo' = [todo EXCEPT ![c] = sessions]
  /\ UNCHANGED <<wiring, store, owner, now, built, new, of, copy, history>>

(* get: it is not there any more, or revoked already. *)
SkipRevoked(c, s) ==
  /\ pc[c] = "loop" /\ s \in todo[c]
  /\ s \in Stored => store[s].revoked
  /\ todo' = [todo EXCEPT ![c] = @ \ {s}]
  /\ Finish({s})
  /\ UNCHANGED <<wiring, store, owner, now, pc, built, new, of, copy, slipped, revived>>

FindToRevoke(c, s) ==
  /\ Step(c, "loop", "mark")
  /\ s \in todo[c] \cap Stored
  /\ ~store[s].revoked
  /\ Hold(c, s, Revoked(store[s]))
  /\ todo' = [todo EXCEPT ![c] = @ \ {s}]
  /\ UNCHANGED <<wiring, store, owner, now, built, new, history>>

(* store.update: the whole record, whatever happened to it meanwhile. *)
WriteRevoked(c) ==
  /\ Step(c, "mark", "loop")
  /\ store' = [store EXCEPT ![of[c]] = copy[c]]
  /\ Finish({of[c]})
  /\ Hold(c, NoId, Absent)
  /\ UNCHANGED <<wiring, owner, now, built, new, todo, slipped, revived>>

(* A login has made room for its session; a sweep is done. *)
LoopDone(c) ==
  /\ pc[c] = "loop" /\ todo[c] = {}
  /\ IF new[c] # NoId
     THEN pc' = [pc EXCEPT ![c] = "insert"] /\ UNCHANGED <<built, new, of, copy, todo>>
     ELSE Return(c, "done")
  /\ UNCHANGED <<wiring, store, owner, now, history>>

-----------------------------------------------------------------------------
(* The environment *)

(* purgeExpired *)
PurgeExpired ==
  LET expired == {s \in Stored : Expired(store[s])} IN
  /\ expired # {}
  /\ store' = [s \in Ids |-> IF s \in expired THEN Absent ELSE store[s]]
  /\ UNCHANGED <<wiring, owner, now, call, history>>

Tick ==
  /\ now < MaxTime
  /\ now' = now + 1
  /\ UNCHANGED <<wiring, store, owner, call, history>>

(* The lock's lease runs out, under a stalled or a crashed holder. *)
LeaseExpires ==
  /\ owner # NoOne
  /\ owner' = NoOne
  /\ slipped' = (slipped \/ pc[owner] \in Section)
  /\ UNCHANGED <<wiring, store, now, call, gone, racing, revived>>

(* The store or the onEvent hook throws: the finally still runs. *)
Fail(c) ==
  /\ pc[c] \in Section \cup {"touch"}
  /\ Conclude(c)
  /\ UNCHANGED <<wiring, store, owner, now, history>>

(* The replica dies: a lock it holds stays taken. *)
Crash(c) ==
  /\ pc[c] \notin Finished \cup {"idle"}
  /\ Return(c, "done")
  /\ UNCHANGED <<wiring, store, owner, now, history>>

-----------------------------------------------------------------------------

Begin(c) ==
  \/ \E s \in Ids : BeginCreate(c, s) \/ FindToTouch(c, s)
  \/ \E s \in Ids, out \in SUBSET ActiveIds : CreateWithinLimit(c, s, out)
  \/ DenyWithinLimit(c)
  \/ \E sessions \in (SUBSET ActiveIds \ {{}}) \cup {{s} : s \in Stored} :
       BeginRevoke(c, sessions)

Serve(c) ==
  \/ Lock(c) \/ GoOnUnlocked(c)
  \/ BelowLimit(c) \/ Deny(c) \/ Evict(c) \/ Insert(c) \/ Unlock(c)
  \/ WriteTouch(c)
  \/ \E s \in Ids : SkipRevoked(c, s) \/ FindToRevoke(c, s)
  \/ WriteRevoked(c) \/ LoopDone(c)

Next ==
  \/ \E c \in Calls : Begin(c) \/ Serve(c) \/ Fail(c) \/ Crash(c)
  \/ PurgeExpired
  \/ Tick
  \/ LeaseExpires

(* A replica that does not crash goes on with the calls it has begun. *)
Fairness == \A c \in Calls : WF_vars(Serve(c))

Spec == Init /\ [][Next]_vars /\ Fairness

-----------------------------------------------------------------------------
(* Properties *)

(* The concurrency limit holds in both modes the manager calls exact, over *)
(* any burst of logins, unless a login went on without the lock or a touch *)
(* wrote a session back to life.                                           *)
LimitHeld ==
  mode # "best-effort" /\ ~slipped /\ ~revived => Cardinality(ActiveIds) <= MaxConcurrent

(* What a finished revocation guarantees: the session is active afterwards *)
(* only if a touch that had validated it before wrote its copy after.      *)
SurvivorsRaced ==
  \A s \in gone \cap ActiveIds : \E c \in racing[s] : pc[c] = "touched"

(* The absolute deadline never moves, whatever touches, stale copies and   *)
(* purges do to the record.                                                *)
DeadlineHolds == \A s \in ActiveIds : now < built[s].lastSeen + Absolute

(* Every call comes to an end: a login does not wait for a dead holder's   *)
(* lock for ever, and the eviction loop is finite.  Each call runs once,   *)
(* so that in the end none is under way.                                   *)
CallsReturn == <>[](\A c \in Calls : pc[c] \in Finished \cup {"idle"})

-----------------------------------------------------------------------------
(* A claim of the repository that the code does not keep *)

(* docs/security-platform/distributed-hardening-report.md: SessionManager. *)
(* revoke is idempotent and convergent, so a session read as revoked stays *)
(* so.                                                                     *)
RevokedStaysRevoked ==
  [][\A s \in Stored : store[s].revoked => s \notin Stored' \/ store'[s].revoked]_vars
=============================================================================
