---------------------------- MODULE AccessModes ----------------------------
(***************************************************************************)
(* The pure part of licensing (licensing/src): which events move a         *)
(* subscription, the status its dates give it, and the access a status     *)
(* leaves under a product's policy.  A mode is its rank, a date is a time  *)
(* or Null.                                                                *)
(***************************************************************************)
EXTENDS Integers, FiniteSetsExt

Null == 0

Statuses ==
  {"TRIAL", "ACTIVE", "PAST_DUE", "GRACE_PERIOD", "EXPIRED", "SUSPENDED", "CANCELLED"}

Modes == 0..4
NONE == 0
EXPORT_ONLY == 1
READ_ONLY == 2
NO_GROWTH == 3
FULL == 4

-----------------------------------------------------------------------------
(* lifecycle.ts *)

(* TRANSITIONS, an event at a time: where it leads from which statuses. *)
Transitions ==
  [ACTIVATE      |-> [from |-> {"TRIAL", "PAST_DUE", "GRACE_PERIOD"}, to |-> "ACTIVE"],
   RENEW         |-> [from |-> {"ACTIVE", "PAST_DUE", "GRACE_PERIOD", "EXPIRED"}, to |-> "ACTIVE"],
   MARK_PAST_DUE |-> [from |-> {"ACTIVE"}, to |-> "PAST_DUE"],
   ENTER_GRACE   |-> [from |-> {"ACTIVE", "PAST_DUE"}, to |-> "GRACE_PERIOD"],
   EXPIRE        |-> [from |-> {"TRIAL", "ACTIVE", "PAST_DUE", "GRACE_PERIOD"}, to |-> "EXPIRED"],
   SUSPEND       |-> [from |-> Statuses \ {"SUSPENDED", "CANCELLED"}, to |-> "SUSPENDED"],
   CANCEL        |-> [from |-> Statuses \ {"CANCELLED"}, to |-> "CANCELLED"]]

(* Where REACTIVATE leads, from the status the caller stored at SUSPEND. *)
Reactivated(suspendedFrom) ==
  IF suspendedFrom \in Statuses \ {"SUSPENDED", "CANCELLED"} THEN suspendedFrom ELSE "ACTIVE"

Terms == [status: Statuses, trialEndsAt: Nat, expiresAt: Nat, graceUntil: Nat]

Passed(date, t) == date # Null /\ t >= date

(* Mutant of EffectiveStatus: the status as it was last recorded. *)
RecordedStatus(term, t) == term.status

EffectiveStatus(term, t) ==
  CASE term.status = "TRIAL" /\ Passed(term.trialEndsAt, t) -> "EXPIRED"
    [] term.status \in {"ACTIVE", "PAST_DUE"} /\ Passed(term.expiresAt, t) ->
         IF term.graceUntil # Null /\ ~Passed(term.graceUntil, t) THEN "GRACE_PERIOD" ELSE "EXPIRED"
    [] term.status = "GRACE_PERIOD" /\ (term.graceUntil = Null \/ Passed(term.graceUntil, t)) ->
         "EXPIRED"
    [] OTHER -> term.status

-----------------------------------------------------------------------------
(* access.ts *)

(* restrict *)
Stricter(a, b) == Min({a, b})

DefaultPolicy ==
  [TRIAL |-> FULL, ACTIVE |-> FULL, PAST_DUE |-> FULL, GRACE_PERIOD |-> NO_GROWTH,
   EXPIRED |-> READ_ONLY, SUSPENDED |-> READ_ONLY, CANCELLED |-> EXPORT_ONLY]

(* accessPolicy, of one override. *)
AccessPolicy(status, mode) == [DefaultPolicy EXCEPT ![status] = Stricter(@, mode)]
=============================================================================
