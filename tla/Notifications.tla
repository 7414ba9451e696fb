--------------------------- MODULE Notifications ---------------------------
(***************************************************************************)
(* NotificationService.send (notifications/src/service.ts), for one        *)
(* message: the claim that suppresses duplicates, the attempts over the    *)
(* transports of its channel, and the release of a failed claim.  Claims   *)
(* are kept in a shared cache or, without one, by each process.  A call    *)
(* runs once, on a replica.                                                *)
(***************************************************************************)
EXTENDS Naturals

CONSTANTS
  Calls, Replicas,
  Shared,        \* the cache
  NoCall,        \* the holder of no claim
  MaxTransports, \* bound on the transports of the channel
  MaxAttempts,   \* maxAttempts
  Window,        \* dedupeWindow
  MaxTime        \* bound on the clock

VARIABLES
  distributed,   \* whether the service was given a dedupe store
  transports,    \* how many transports the channel has
  now,
  claim,         \* the claim in each store: who made it, and until when
  pc, urgent,    \* where each call is, and whether its priority is critical
  replica,       \* where it runs
  transport, attempt, \* what it is trying
  \* History, read by no guard of the code:
  claimedAt,     \* when each call claimed the message, or 0
  sent,          \* how often a transport delivered each call's message
  freed,         \* a claim was lost, or released by a call that had lost its own
  deaf           \* calls whose event hook threw

setting == <<distributed, transports>>
call == <<pc, urgent, replica, transport, attempt>>
history == <<claimedAt, sent, freed, deaf>>
vars == <<setting, now, claim, call, history>>

Unclaimed == [by |-> NoCall, until |-> 0]

Busy == {"send", "failed", "release"}
Ended == {"delivered", "suppressed", "undelivered", "threw", "crashed"}

TypeOK ==
  /\ distributed \in BOOLEAN /\ transports \in 0..MaxTransports
  /\ now \in 1..MaxTime
  /\ claim \in [Replicas \cup {Shared} -> [by: Calls \cup {NoCall}, until: Nat]]
  /\ pc \in [Calls -> {"idle"} \cup Busy \cup Ended]
  /\ urgent \in [Calls -> BOOLEAN] /\ replica \in [Calls -> Replicas]
  /\ transport \in [Calls -> 0..MaxTransports] /\ attempt \in [Calls -> 0..MaxAttempts]
  /\ claimedAt \in [Calls -> 0..MaxTime] /\ sent \in [Calls -> Nat]
  /\ freed \in BOOLEAN /\ deaf \subseteq Calls

Init ==
  /\ distributed \in BOOLEAN /\ transports \in 0..MaxTransports
  /\ now = 1
  /\ claim = [s \in Replicas \cup {Shared} |-> Unclaimed]
  /\ pc = [c \in Calls |-> "idle"]
  /\ urgent \in [Calls -> BOOLEAN] /\ replica \in [Calls -> Replicas]
  /\ transport = [c \in Calls |-> 1] /\ attempt = [c \in Calls |-> 1]
  /\ claimedAt = [c \in Calls |-> 0] /\ sent = [c \in Calls |-> 0]
  /\ freed = FALSE /\ deaf = {}

Step(c, from, to) == pc[c] = from /\ pc' = [pc EXCEPT ![c] = to]

Store(c) == IF distributed THEN Shared ELSE replica[c]

Claimed(s) == now < claim[s].until

-----------------------------------------------------------------------------

(* A channel without transports fails after the claim. *)
FirstStage == IF transports = 0 THEN "release" ELSE "send"

(* Mutant of Claim: the message is remembered when it has been sent. *)
ClaimLate(c) ==
  /\ Step(c, "idle", FirstStage)
  /\ ~urgent[c] /\ ~Claimed(Store(c))
  /\ claimedAt' = [claimedAt EXCEPT ![c] = now]
  /\ UNCHANGED <<setting, now, claim, urgent, replica, transport, attempt, sent, freed, deaf>>

(* #claim: one setIfAbsent, or one synchronous look and entry. *)
Claim(c) ==
  /\ Step(c, "idle", FirstStage)
  /\ ~urgent[c] /\ ~Claimed(Store(c))
  /\ claim' = [claim EXCEPT ![Store(c)] = [by |-> c, until |-> now + Window]]
  /\ claimedAt' = [claimedAt EXCEPT ![c] = now]
  /\ UNCHANGED <<setting, now, urgent, replica, transport, attempt, sent, freed, deaf>>

Suppress(c) ==
  /\ Step(c, "idle", "suppressed")
  /\ ~urgent[c] /\ Claimed(Store(c))
  /\ UNCHANGED <<setting, now, claim, urgent, replica, transport, attempt, history>>

(* A critical message is sent without a claim. *)
SendUrgent(c) ==
  /\ Step(c, "idle", FirstStage)
  /\ urgent[c]
  /\ UNCHANGED <<setting, now, claim, urgent, replica, transport, attempt, history>>

-----------------------------------------------------------------------------
(* #deliver *)

StopTrying(c) ==
  transport' = [transport EXCEPT ![c] = 1] /\ attempt' = [attempt EXCEPT ![c] = 1]

Skip(c) ==
  IF transport[c] < transports
  THEN /\ transport' = [transport EXCEPT ![c] = @ + 1]
       /\ attempt' = [attempt EXCEPT ![c] = 1]
       /\ UNCHANGED pc
  ELSE Step(c, "send", "failed") /\ StopTrying(c)

TryAgain(c) ==
  IF attempt[c] < MaxAttempts
  THEN attempt' = [attempt EXCEPT ![c] = @ + 1] /\ UNCHANGED <<pc, transport>>
  ELSE Skip(c)

Delivered(c) ==
  /\ Step(c, "send", "delivered")
  /\ StopTrying(c)
  /\ sent' = [sent EXCEPT ![c] = @ + 1]
  /\ UNCHANGED <<setting, now, claim, urgent, replica, claimedAt, freed, deaf>>

(* The hook for a delivery throws inside the try of that delivery. *)
DeliveredUnheard(c) ==
  /\ pc[c] = "send"
  /\ TryAgain(c)
  /\ sent' = [sent EXCEPT ![c] = @ + 1]
  /\ deaf' = deaf \cup {c}
  /\ UNCHANGED <<setting, now, claim, urgent, replica, claimedAt, freed>>

NotDelivered(c) ==
  /\ pc[c] = "send"
  /\ TryAgain(c)
  /\ UNCHANGED <<setting, now, claim, urgent, replica, history>>

NeverDelivered(c) ==
  /\ pc[c] = "send"
  /\ Skip(c)
  /\ UNCHANGED <<setting, now, claim, urgent, replica, history>>

NotifyFailed(c) ==
  /\ Step(c, "failed", "release")
  /\ UNCHANGED <<setting, now, claim, urgent, replica, transport, attempt, history>>

(* The hook for the failure throws out of send, past the release. *)
NotifyFailedUnheard(c) ==
  /\ Step(c, "failed", "threw")
  /\ deaf' = deaf \cup {c}
  /\ UNCHANGED <<setting, now, claim, urgent, replica, transport, attempt,
                 claimedAt, sent, freed>>

-----------------------------------------------------------------------------

(* Mutant of Release: a failure keeps its claim. *)
ReleaseNot(c) ==
  /\ Step(c, "release", "undelivered")
  /\ UNCHANGED <<setting, now, claim, urgent, replica, transport, attempt, history>>

(* #release deletes the claim under the message's name, whoever made it. *)
Release(c) ==
  /\ Step(c, "release", "undelivered")
  /\ IF urgent[c]
     THEN UNCHANGED <<claim, freed>>
     ELSE /\ claim' = [claim EXCEPT ![Store(c)] = Unclaimed]
          /\ freed' = (freed \/ claim[Store(c)].by \notin {c, NoCall})
  /\ UNCHANGED <<setting, now, urgent, replica, transport, attempt, claimedAt, sent, deaf>>

-----------------------------------------------------------------------------
(* The environment *)

(* A replica dies with the calls on it, and with its own claims. *)
Crash(r) ==
  /\ \E c \in Calls : replica[c] = r /\ pc[c] \in Busy
  /\ pc' = [c \in Calls |-> IF replica[c] = r /\ pc[c] \in Busy THEN "crashed" ELSE pc[c]]
  /\ claim' = [claim EXCEPT ![r] = Unclaimed]
  /\ freed' = (freed \/ ~distributed)
  /\ UNCHANGED <<setting, now, urgent, replica, transport, attempt, claimedAt, sent, deaf>>

Evict ==
  /\ Claimed(Shared)
  /\ claim' = [claim EXCEPT ![Shared] = Unclaimed]
  /\ freed' = TRUE
  /\ UNCHANGED <<setting, now, call, claimedAt, sent, deaf>>

Tick ==
  /\ now < MaxTime
  /\ now' = now + 1
  /\ UNCHANGED <<setting, claim, call, history>>

-----------------------------------------------------------------------------

Progress(c) ==
  \/ Claim(c) \/ Suppress(c) \/ SendUrgent(c)
  \/ Delivered(c) \/ DeliveredUnheard(c) \/ NotDelivered(c) \/ NeverDelivered(c)
  \/ NotifyFailed(c) \/ NotifyFailedUnheard(c) \/ Release(c)

Next ==
  \/ \E c \in Calls : Progress(c)
  \/ \E r \in Replicas : Crash(r)
  \/ Evict \/ Tick

Spec == Init /\ [][Next]_vars

-----------------------------------------------------------------------------
(* Properties *)

(* The replicas on which two calls share their claims. *)
Together(c, d) == distributed \/ replica[c] = replica[d]

(* A user gets one notice within the window, from whichever replicas and   *)
(* with however many retries, unless a claim was lost or a call whose own  *)
(* had run out released another's, or an event hook threw: a delivery      *)
(* whose hook throws counts as failed and is tried again.                  *)
OneNotice ==
  freed \/ deaf # {} \/
    \A c, d \in Calls :
      /\ sent[c] <= 1
      /\ c # d /\ sent[c] > 0 /\ sent[d] > 0 /\ ~urgent[c] /\ ~urgent[d] /\ Together(c, d) =>
           claimedAt[c] + Window <= claimedAt[d] \/ claimedAt[d] + Window <= claimedAt[c]

(* "a genuine retry is not suppressed by its own first attempt": a call    *)
(* that ended without a delivery leaves no claim behind, unless its        *)
(* replica died or the hook for the failure threw.                         *)
FailureIsRetried ==
  \A c \in Calls :
    pc[c] \in Ended /\ sent[c] = 0 /\ claim[Store(c)].by = c => pc[c] = "crashed" \/ c \in deaf
=============================================================================
