-------------------------- MODULE RevocationLists --------------------------
(***************************************************************************)
(* A licence and the revocation lists on an installation that only ever    *)
(* receives files (licensing/src).  The issuing service publishes lists,   *)
(* each with a number and everything revoked so far.  The installation     *)
(* verifies its licence and decides which list is in force from whatever   *)
(* file it is offered and the text it stored, under a clock that its       *)
(* administrator sets and with the keys it was shipped.  Storing what a    *)
(* check decided is the product's, which may die before it does.           *)
(***************************************************************************)
EXTENDS AccessModes, Sequences

CONSTANTS
  Kids,         \* signing keys
  Tolerance,    \* clockToleranceMs
  MaxSequence,  \* bound on the lists
  MaxTime       \* bound on the clocks

VARIABLES
  licence,      \* its term, and when and with which key it was issued
  policy,       \* the product's
  now,          \* the issuing service's clock
  lists,        \* the lists published, by sequence
  clock, kids,  \* the installation's clock, and the keys it verifies with
  persisted,    \* the list it stored: its sequence, None or Unreadable
  observed,     \* lastObservedAt
  toStore,      \* what the last check has decided to store and has not yet
  \* History, read by no guard of the code:
  newest,       \* the newest list ever stored
  replaced      \* a stored list could not be read, and an older one was taken

issuer == <<licence, now, lists>>
installation == <<policy, clock, kids>>
stored == <<persisted, observed>>
history == <<newest, replaced>>
vars == <<issuer, installation, stored, toStore, history>>

None == 0
Unreadable == -1

(* The files to offer; one that was not published is a forged one, and for *)
(* a check that is none.                                                   *)
Files == {None} \cup 1..MaxSequence

Listing == [issuedAt: Nat, kid: Kids, revokes: BOOLEAN]
Licences == [term: Terms, issuedAt: Nat, notBefore: Nat, kid: Kids]

TypeOK ==
  /\ licence \in Licences /\ policy \in [Statuses -> Modes]
  /\ now \in 1..MaxTime /\ clock \in 1..MaxTime
  /\ lists \in Seq(Listing) /\ Len(lists) <= MaxSequence
  /\ kids \subseteq Kids
  /\ persisted \in {Unreadable, None} \cup DOMAIN lists
  /\ observed \in 0..MaxTime
  /\ toStore \in {None} \cup DOMAIN lists
  /\ newest \in {None} \cup DOMAIN lists /\ replaced \in BOOLEAN

(* A licence always has an end. *)
FirstLicences ==
  {[term |-> [status |-> s, trialEndsAt |-> e, expiresAt |-> e, graceUntil |-> Null],
    issuedAt |-> 1, notBefore |-> 1, kid |-> k] :
      s \in {"ACTIVE", "CANCELLED"}, e \in 2..MaxTime, k \in Kids}

Init ==
  /\ licence \in FirstLicences
  /\ policy \in {DefaultPolicy, AccessPolicy("EXPIRED", NONE)}
  /\ now = 1 /\ clock = 1
  /\ lists = <<>>
  /\ kids = Kids
  /\ persisted = None /\ observed = 0
  /\ toStore = None
  /\ newest = None /\ replaced = FALSE

-----------------------------------------------------------------------------
(* The issuing service and the installation's world *)

(* Each list names every licence ever revoked. *)
Publish(k, revokes) ==
  /\ Len(lists) < MaxSequence
  /\ lists # <<>> => revokes \/ ~lists[Len(lists)].revokes
  /\ lists' = Append(lists, [issuedAt |-> now, kid |-> k, revokes |-> revokes])
  /\ UNCHANGED <<licence, now, installation, stored, toStore, history>>

Tick ==
  /\ now < MaxTime
  /\ now' = now + 1
  /\ UNCHANGED <<licence, lists, installation, stored, toStore, history>>

SetClock(t) ==
  /\ t # clock
  /\ clock' = t
  /\ UNCHANGED <<issuer, policy, kids, stored, toStore, history>>

(* An update of the product ships without a key. *)
Withdraw(k) ==
  /\ k \in kids
  /\ kids' = kids \ {k}
  /\ UNCHANGED <<issuer, policy, clock, stored, toStore, history>>

(* The stored text is altered. *)
Alter ==
  /\ persisted \notin {None, Unreadable}
  /\ persisted' = Unreadable
  /\ UNCHANGED <<issuer, installation, observed, toStore, history>>

-----------------------------------------------------------------------------
(* verifyRevocationList and resolveRevocationList *)

Verifies(list) == list \in DOMAIN lists /\ lists[list].kid \in kids

(* The stored list is re-read without a look at the clock. *)
Current == IF Verifies(persisted) THEN persisted ELSE None

Lost == persisted # None /\ Current = None

(* Mutant of Taken: an older list is as good. *)
TakenAnyAge(offered) ==
  /\ Verifies(offered)
  /\ clock >= lists[offered].issuedAt - Tolerance

(* A forged list, and one for another product, is never taken. *)
Taken(offered) ==
  /\ Verifies(offered)
  /\ offered >= Current
  /\ clock >= lists[offered].issuedAt - Tolerance

InForce(offered) ==
  IF Taken(offered) THEN offered ELSE IF Lost THEN Unreadable ELSE Current

ToStore(offered) == IF Taken(offered) /\ offered # Current THEN offered ELSE None

(* revocationInForce: with nothing to go by, every licence is revoked. *)
Revoked(list) == list = Unreadable \/ (list # None /\ lists[list].revokes)

(* verifyLicense *)
Valid ==
  /\ licence.kid \in kids
  /\ clock >= observed - Tolerance
  /\ clock >= licence.issuedAt - Tolerance
  /\ clock >= licence.notBefore

(* applyRevocation *)
Applied(list) ==
  IF Revoked(list) /\ licence.term.status # "CANCELLED"
  THEN [licence.term EXCEPT !.status = "SUSPENDED"] ELSE licence.term

ModeUnder(list) == IF Valid THEN policy[EffectiveStatus(Applied(list), clock)] ELSE NONE

(* A check grants ModeUnder(InForce(offered)) and keeps this. *)
Check(offered) ==
  /\ toStore' = ToStore(offered)
  /\ observed' = IF Valid THEN Max({observed, clock}) ELSE observed
  /\ replaced' = (replaced \/ (Lost /\ Taken(offered) /\ offered < newest))
  /\ UNCHANGED <<issuer, installation, persisted, newest>>

Persist ==
  /\ toStore # None
  /\ persisted' = toStore /\ toStore' = None
  /\ newest' = Max({newest, toStore})
  /\ UNCHANGED <<issuer, installation, observed, replaced>>

Restart ==
  /\ toStore # None
  /\ toStore' = None
  /\ UNCHANGED <<issuer, installation, stored, history>>

-----------------------------------------------------------------------------

Next ==
  \/ \E k \in Kids, revokes \in BOOLEAN : Publish(k, revokes)
  \/ \E offered \in Files : Check(offered)
  \/ \E t \in 1..MaxTime : SetClock(t)
  \/ \E k \in Kids : Withdraw(k)
  \/ Tick \/ Alter \/ Persist \/ Restart

Spec == Init /\ [][Next]_vars

-----------------------------------------------------------------------------
(* Properties *)

(* What the next check may find, whatever file it is offered. *)
Outcomes == {InForce(offered) : offered \in Files}

(* "neither deleting the file nor presenting last year's list undoes a     *)
(* revocation": once a list that revokes the licence was stored, no check  *)
(* lets anything be written, whatever file is offered, however the clock   *)
(* is set, and even if the stored list is altered or its key withdrawn,    *)
(* unless an older list that still verifies then took its place.           *)
RevocationSticks ==
  newest # None /\ lists[newest].revokes /\ ~replaced =>
    \A list \in Outcomes :
      ModeUnder(list) <= READ_ONLY \/ (Lost /\ list \notin {None, Unreadable} /\ list < newest)
=============================================================================
