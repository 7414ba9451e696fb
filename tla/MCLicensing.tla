---------------------------- MODULE MCLicensing ----------------------------
(* Small instances for TLC of the two ways a product is licensed: a          *)
(* behaviour is one of Entitlements (a central service answers) or           *)
(* RevocationLists (files are received), and the variables of the other stay *)
(* Unused.                                                                   *)
EXTENDS Integers, TLC, Parts

CONSTANTS
  Requests, FreshFor, NoGrowthFor, ReadOnlyFor, Timeout, Skew, Term, MaxMoves, MaxDate,
  Kids, Tolerance, MaxSequence, MaxClock

(* Times and bounds are numbers, and the horizons of the availability      *)
(* policy follow one another.                                              *)
ASSUME LicensingAssumption ==
  /\ FreshFor \in Nat /\ NoGrowthFor \in Nat /\ ReadOnlyFor \in Nat
  /\ FreshFor <= NoGrowthFor /\ NoGrowthFor <= ReadOnlyFor
  /\ Timeout \in Nat /\ Skew \in Nat /\ Term \in Nat
  /\ MaxMoves \in Nat /\ MaxDate \in Nat \ {0}
  /\ Tolerance \in Nat /\ MaxSequence \in Nat /\ MaxClock \in Nat \ {0}

VARIABLES
  \* of both parts:
  policy,
  \* of Entitlements, which has calls too, and RevocationLists:
  ahead, term, suspendedFrom, moves, cached, answer, lately, lapsed,
  licence, lists, clock, kids, persisted, observed, toStore, newest, replaced

E == INSTANCE Entitlements WITH MaxTime <- MaxDate
V == INSTANCE RevocationLists WITH MaxTime <- MaxClock

ofSubscription == <<ahead, term, suspendedFrom, moves, cached, pc, answer, lately, lapsed>>
ofLists == <<licence, lists, clock, kids, persisted, observed, toStore, newest, replaced>>

NoSubscription ==
  /\ ahead = Unused /\ term = Unused /\ suspendedFrom = Unused /\ moves = Unused
  /\ cached = Unused /\ pc = Unused /\ answer = Unused /\ lately = Unused /\ lapsed = Unused
NoLists ==
  /\ licence = Unused /\ lists = Unused /\ clock = Unused /\ kids = Unused
  /\ persisted = Unused /\ observed = Unused /\ toStore = Unused
  /\ newest = Unused /\ replaced = Unused

LicensingInit ==
  \/ part = "subscription" /\ E!Init /\ NoLists
  \/ part = "lists" /\ V!Init /\ NoSubscription

-----------------------------------------------------------------------------
(* The actions of each part, one by one so that TLC counts each of them.     *)

InSubscription == part = "subscription" /\ UNCHANGED <<part, ofLists>>

SubscriptionNext ==
  \/ \E event \in DOMAIN E!Transitions : InSubscription /\ E!Move(event)
  \/ InSubscription /\ E!Reactivate
  \/ InSubscription /\ E!Tick
  \/ \E r \in Requests :
       \/ \E known \in BOOLEAN : InSubscription /\ E!Answer(r, known)
       \/ InSubscription /\ E!Receive(r)
       \/ InSubscription /\ E!Unavailable(r)

InLists == part = "lists" /\ UNCHANGED <<part, ofSubscription>>

ListsNext ==
  \/ \E k \in Kids, revokes \in BOOLEAN : InLists /\ V!Publish(k, revokes)
  \/ \E offered \in V!Files : InLists /\ V!Check(offered)
  \/ \E t \in 1..MaxClock : InLists /\ V!SetClock(t)
  \/ \E k \in Kids : InLists /\ V!Withdraw(k)
  \/ InLists /\ V!Tick
  \/ InLists /\ V!Alter
  \/ InLists /\ V!Persist
  \/ InLists /\ V!Restart

LicensingNext == SubscriptionNext \/ ListsNext

LicensingSpec == LicensingInit /\ [][LicensingNext]_<<part, policy, now, ofSubscription, ofLists>>

(* Requests are alike, and so are keys. *)
LicensingSymmetry == Permutations(Requests) \cup Permutations(Kids)

-----------------------------------------------------------------------------
(* The properties of the parts *)

(* Entitlements!StaleAccessEnds: an outage never becomes lasting access. *)
StaleAccessEnds == part = "subscription" => E!StaleAccessEnds

(* Entitlements!LapseEndsGrowth: only a renewal ends a lapse. *)
LapseEndsGrowth == part = "subscription" => E!LapseEndsGrowth

(* RevocationLists!RevocationSticks: a stored revocation is not undone. *)
RevocationSticks == part = "lists" => V!RevocationSticks
=============================================================================
