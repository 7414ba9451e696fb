--------------------------- MODULE AppendOnlyLog ---------------------------
(***************************************************************************)
(* What an audit trail promises its callers, whatever store holds it: per  *)
(* tenant a log that only grows, each write in it at most once, a write    *)
(* answered "recorded" is in it, one answered "conflict" is not and never  *)
(* will be, and of one answered "failed" nothing is known.                 *)
(***************************************************************************)
EXTENDS Sequences, Functions

CONSTANTS Writers, Tenants

VARIABLES
  log,     \* per tenant, the writes in the order they took effect
  answer   \* per write, what its caller was told

Init ==
  /\ log = [t \in Tenants |-> <<>>]
  /\ answer = [w \in Writers |-> "none"]

Logged == UNION {Range(log[t]) : t \in Tenants}

Take(w, t) ==
  /\ answer[w] = "none" /\ w \notin Logged
  /\ log' = [log EXCEPT ![t] = Append(@, w)]
  /\ UNCHANGED answer

Tell(w, what) ==
  /\ answer[w] = "none"
  /\ answer' = [answer EXCEPT ![w] = what]
  /\ UNCHANGED log

Next ==
  \E w \in Writers :
    \/ \E t \in Tenants : Take(w, t)
    \/ w \in Logged /\ Tell(w, "recorded")
    \/ w \notin Logged /\ Tell(w, "conflict")
    \/ Tell(w, "failed")

Spec == Init /\ [][Next]_<<log, answer>>
=============================================================================
