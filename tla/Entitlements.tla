---------------------------- MODULE Entitlements ----------------------------
(***************************************************************************)
(* A product in SaaS and the central service (licensing/src): events and   *)
(* dates move one tenant's subscription, the product's requests ask for a  *)
(* snapshot of it, and decide with the answer or, in an outage, with the   *)
(* last snapshot kept, whose age caps what it grants.  Answers are late    *)
(* and arrive in any order, and the two clocks may differ.  The service    *)
(* and the product's cache are external.  What a request is granted is a   *)
(* function of its snapshot and the time, and changes nothing.             *)
(***************************************************************************)
EXTENDS AccessModes

CONSTANTS
  Requests,
  FreshFor, NoGrowthFor, ReadOnlyFor, \* the availability policy
  Timeout,   \* how late an answer may be
  Skew,      \* how far the product's clock may be off
  Term,      \* how long a trial, a term and a grace window are
  MaxMoves,  \* bound on the events
  MaxTime    \* bound on the service's clock

VARIABLES
  policy, ahead,        \* the product's policy, and how far its clock is off
  now,
  term, suspendedFrom,  \* the subscription
  moves,                \* how many events moved it
  cached,               \* the snapshot the product keeps
  pc, answer,           \* where each request is, and what the service answered
  \* History, read by no guard of the code:
  lately,               \* when the service's own mode was last at least so high
  lapsed                \* the term or the trial ended, and was not renewed since

setting == <<policy, ahead>>
subscription == <<term, suspendedFrom, moves>>
request == <<cached, pc, answer>>
history == <<lately, lapsed>>
vars == <<setting, now, subscription, request, history>>

Snapshots == [term: Terms, resolvedAt: Nat]
NoTerm == [status |-> "CANCELLED", trialEndsAt |-> Null, expiresAt |-> Null, graceUntil |-> Null]
Nothing == [term |-> NoTerm, resolvedAt |-> Null]

(* The default, and one that keeps nothing of an expired subscription. *)
Policies == {DefaultPolicy, AccessPolicy("EXPIRED", NONE)}

TypeOK ==
  /\ policy \in [Statuses -> Modes] /\ ahead \in (-Skew)..Skew
  /\ now \in 1..MaxTime
  /\ term \in Terms /\ suspendedFrom \in Statuses \cup {"none"} /\ moves \in 0..MaxMoves
  /\ cached \in Snapshots
  /\ pc \in [Requests -> {"idle", "answered"}]
  /\ answer \in [Requests -> Snapshots]
  /\ lately \in [Modes \ {NONE, EXPORT_ONLY} -> 0..MaxTime] /\ lapsed \in BOOLEAN

(* The mode of a term at a time, by the service's clock or the product's   *)
(* when that is behind.                                                    *)
Generous(aTerm, t) == policy[EffectiveStatus(aTerm, t + Min({0, ahead}))]

FirstTerms ==
  {[status |-> "TRIAL", trialEndsAt |-> 1 + Term, expiresAt |-> Null, graceUntil |-> Null]}
    \cup {[status |-> "ACTIVE", trialEndsAt |-> Null, expiresAt |-> 1 + Term, graceUntil |-> g] :
            g \in {Null, 1 + 2 * Term}}

Init ==
  /\ policy \in Policies /\ ahead \in (-Skew)..Skew
  /\ now = 1
  /\ term \in FirstTerms /\ suspendedFrom = "none" /\ moves = 0
  /\ cached = Nothing
  /\ pc = [r \in Requests |-> "idle"]
  /\ answer = [r \in Requests |-> Nothing]
  /\ lately = [m \in Modes \ {NONE, EXPORT_ONLY} |-> IF Generous(term, 1) >= m THEN 1 ELSE 0]
  /\ lapsed = FALSE

-----------------------------------------------------------------------------
(* The service *)

(* What a new term or a new time makes of the history. *)
Note(newTerm, t) ==
  lately' = [m \in Modes \ {NONE, EXPORT_ONLY} |-> IF Generous(newTerm, t) >= m THEN t ELSE lately[m]]

(* transition, of every event but REACTIVATE.  A new term or grace window  *)
(* is dated by the service.                                                *)
Move(event) ==
  /\ moves < MaxMoves /\ moves' = moves + 1
  /\ term.status \in Transitions[event].from
  /\ term' = [term EXCEPT
       !.status = Transitions[event].to,
       !.expiresAt = IF event = "RENEW" THEN now + Term ELSE @,
       !.graceUntil = IF event = "ENTER_GRACE" THEN now + Term ELSE IF event = "RENEW" THEN Null ELSE @]
  /\ suspendedFrom' = IF event = "SUSPEND" THEN term.status ELSE "none"
  /\ Note(term', now)
  /\ lapsed' = CASE event = "EXPIRE" -> TRUE
                 [] event = "RENEW" \/ (event = "ACTIVATE" /\ term.status = "TRIAL") -> FALSE
                 [] OTHER -> lapsed
  /\ UNCHANGED <<setting, now, request>>

Reactivate ==
  /\ moves < MaxMoves /\ moves' = moves + 1
  /\ term.status = "SUSPENDED"
  /\ term' = [term EXCEPT !.status = Reactivated(suspendedFrom)]
  /\ suspendedFrom' = "none"
  /\ Note(term', now)
  /\ UNCHANGED <<setting, now, request, lapsed>>

(* No answer is on its way for longer than the product waits. *)
Tick ==
  /\ now < MaxTime
  /\ \A r \in Requests : answer[r] # Nothing => now < answer[r].resolvedAt + Timeout
  /\ now' = now + 1
  /\ Note(term, now')
  /\ lapsed' = (lapsed \/ Passed(IF term.status = "TRIAL" THEN term.trialEndsAt ELSE term.expiresAt, now'))
  /\ UNCHANGED <<setting, subscription, request>>

-----------------------------------------------------------------------------
(* The product *)

Step(r, from, to) == pc[r] = from /\ pc' = [pc EXCEPT ![r] = to]

Forget(r) == answer' = [answer EXCEPT ![r] = Nothing]

(* The service's answer to a request, which may be that it knows of no     *)
(* subscription for this tenant and credential, is on its way.             *)
Answer(r, known) ==
  /\ Step(r, "idle", "answered")
  /\ answer' = [answer EXCEPT ![r] = IF known THEN [term |-> term, resolvedAt |-> now] ELSE Nothing]
  /\ UNCHANGED <<setting, now, subscription, cached, history>>

(* A live snapshot always wins, and is the one kept; no subscription is an *)
(* answer too.                                                             *)
Receive(r) ==
  /\ Step(r, "answered", "idle")
  /\ cached' = answer[r]
  /\ Forget(r)
  /\ UNCHANGED <<setting, now, subscription, history>>

(* Unreachable, refused, or an answer that cannot be read or trusted. *)
Unavailable(r) ==
  /\ Step(r, "answered", "idle")
  /\ Forget(r)
  /\ UNCHANGED <<setting, now, subscription, cached, history>>

Age == Max({0, now + ahead - cached.resolvedAt})

(* Mutant of Cap: there is no step between fresh and read-only. *)
CapLate ==
  IF cached = Nothing THEN NONE
  ELSE IF Age <= NoGrowthFor THEN FULL
  ELSE IF Age <= ReadOnlyFor THEN READ_ONLY
  ELSE EXPORT_ONLY

(* resolveSnapshot, without an answer. *)
Cap ==
  IF cached = Nothing THEN NONE
  ELSE IF Age <= FreshFor THEN FULL
  ELSE IF Age <= NoGrowthFor THEN NO_GROWTH
  ELSE IF Age <= ReadOnlyFor THEN READ_ONLY
  ELSE EXPORT_ONLY

(* accessModeOf, on which every check of an operation is built. *)
AccessModeOf(snapshot, cap) ==
  Stricter(cap, IF snapshot = Nothing THEN NONE
                ELSE policy[EffectiveStatus(snapshot.term, now + ahead)])

-----------------------------------------------------------------------------

Next ==
  \/ \E event \in DOMAIN Transitions : Move(event)
  \/ Reactivate \/ Tick
  \/ \E r \in Requests :
       (\E known \in BOOLEAN : Answer(r, known)) \/ Receive(r) \/ Unavailable(r)

Spec == Init /\ [][Next]_vars

-----------------------------------------------------------------------------
(* Properties *)

(* How long after the service would have, the product may grant a mode. *)
Grace(mode) ==
  Skew + Max({Timeout, CASE mode = FULL -> FreshFor
                         [] mode = NO_GROWTH -> NoGrowthFor
                         [] mode = READ_ONLY -> ReadOnlyFor})

(* What a request would be granted now, without an answer and with each    *)
(* that is on its way.                                                     *)
Grants ==
  {AccessModeOf(cached, Cap)}
    \cup {AccessModeOf(answer[r], FULL) : r \in {q \in Requests : pc[q] = "answered"}}

(* "A licensing outage must never become unrestricted access": whatever    *)
(* the outage, and however late and in whatever order answers come, a      *)
(* product grants growth, writes and reads only for the freshness window   *)
(* and the two horizons after the service itself would have.               *)
StaleAccessEnds ==
  \A mode \in Grants \ {NONE, EXPORT_ONLY} : now - lately[mode] <= Grace(mode)

(* A term whose end has come, or was recorded, does not come back to       *)
(* growth by an activation, a grace window, a suspension or a reactivation *)
(* in any order, and whether or not a job has recorded the end: only a     *)
(* renewal does that, or converting a trial whose end nobody has recorded. *)
LapseEndsGrowth == lapsed => policy[EffectiveStatus(term, now)] < FULL
=============================================================================
