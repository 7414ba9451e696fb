---------------------------- MODULE SecondFactor ----------------------------
(***************************************************************************)
(* One user's second factors (auth/src/mfa.ts): one-time codes sent by     *)
(* mail, OtpService, and an authenticator app with recovery codes,         *)
(* MfaService over its enrollment store.                                   *)
(*                                                                         *)
(* Both keep their claims in a shared cache or, without one, in the        *)
(* process.  Each call is one request and runs once; the code of an app is *)
(* the secret and the time step it was computed from.  What a challenge    *)
(* counts and claims in the cache outlives the challenge, so that only     *)
(* eviction can lose it early.                                             *)
(***************************************************************************)
EXTENDS Naturals, FiniteSets

CONSTANTS
  Calls,
  Challenges,   \* one-time codes that are issued
  NoChallenge,
  Secrets,      \* secrets of an authenticator app
  NoSecret,
  MaxAttempts,  \* maxAttempts of a challenge
  Period,       \* period of a code
  Window,       \* window: steps of drift accepted either side
  MaxTime       \* bound on the clock

ASSUME SecondFactorAssumption ==
  /\ NoChallenge \notin Challenges /\ NoSecret \notin Secrets
  /\ Period \in Nat \ {0} /\ {MaxAttempts, Window, MaxTime} \subseteq Nat

VARIABLES
  distributed, \* whether the services were given a cache
  now,
  otp,         \* the stored challenges
  overdue,     \* challenges whose time to live is over
  attempts,    \* the cache's attempt counters
  consumed,    \* the cache's claims on challenges
  enrolled,    \* the stored TOTP enrollment
  claims,      \* the cache's claims on steps: when each expires, or 0
  usedStep,    \* without a cache, the last step used
  recovery,    \* recovery codes that are left, a batch for each confirmation
  pc, challenge, copy, code, \* where each call is, and what it holds
  \* History, read by no guard of the code:
  guesses,     \* comparisons with each challenge's code
  shown,       \* the secret of the user's last beginning, or none if removed
  raced,       \* a beginning or a removal came between a confirmation's steps
  overlapped,  \* two verifications of a challenge were in progress at once
  evicted,     \* the cache lost a claim or a counter early
  late         \* a step was claimed a period after its code stopped verifying

store == <<otp, overdue, attempts, consumed>>
app == <<enrolled, claims, usedStep, recovery>>
call == <<pc, challenge, copy, code>>
history == <<guesses, shown, raced, overlapped, evicted, late>>
vars == <<distributed, now, store, app, call, history>>

Steps == 0..((MaxTime \div Period) + Window)
NoStep == (MaxTime \div Period) + Window + 1
Otp == [state: {"absent", "live", "consumed"}, attempts: Nat]
Enrollment == [secret: Secrets \cup {NoSecret}, confirmed: BOOLEAN]
Absent == [state |-> "absent", attempts |-> 0]
NotEnrolled == [secret |-> NoSecret, confirmed |-> FALSE]

Terminal == {"refused", "passed", "accepted", "done"}
Stages == {"idle", "attempt", "consume", "record", "confirm", "codes", "claim", "mark", "forget"}

TypeOK ==
  /\ distributed \in BOOLEAN /\ now \in 0..MaxTime
  /\ otp \in [Challenges -> Otp] /\ overdue \subseteq Challenges
  /\ attempts \in [Challenges -> Nat] /\ consumed \in [Challenges -> BOOLEAN]
  /\ enrolled \in Enrollment
  /\ claims \in [Steps -> Nat] /\ usedStep \in Steps \cup {NoStep}
  /\ recovery \subseteq Calls
  /\ pc \in [Calls -> Stages \cup Terminal]
  /\ challenge \in [Calls -> Challenges \cup {NoChallenge}]
  /\ copy \in [Calls -> Otp]
  /\ code \in [Calls -> [secret: Secrets \cup {NoSecret}, step: Steps \cup {NoStep}]]
  /\ guesses \in [Challenges -> Nat] /\ shown \in Secrets \cup {NoSecret}
  /\ raced \in BOOLEAN /\ overlapped \in BOOLEAN
  /\ evicted \in BOOLEAN /\ late \in BOOLEAN

Init ==
  /\ distributed \in BOOLEAN /\ now = 0
  /\ otp = [k \in Challenges |-> Absent] /\ overdue = {}
  /\ attempts = [k \in Challenges |-> 0] /\ consumed = [k \in Challenges |-> FALSE]
  /\ enrolled = NotEnrolled
  /\ claims = [s \in Steps |-> 0] /\ usedStep = NoStep
  /\ recovery = {}
  /\ pc = [c \in Calls |-> "idle"]
  /\ challenge = [c \in Calls |-> NoChallenge]
  /\ copy = [c \in Calls |-> Absent]
  /\ code = [c \in Calls |-> [secret |-> NoSecret, step |-> NoStep]]
  /\ guesses = [k \in Challenges |-> 0] /\ shown = NoSecret
  /\ raced = FALSE /\ overlapped = FALSE /\ evicted = FALSE /\ late = FALSE

Step(c, from, to) == pc[c] = from /\ pc' = [pc EXCEPT ![c] = to]

-----------------------------------------------------------------------------
(* OtpService *)

(* The id is new: it hashes the user and the millisecond. *)
Issue(k) ==
  /\ otp[k] = Absent /\ k \notin overdue
  /\ otp' = [otp EXCEPT ![k].state = "live"]
  /\ UNCHANGED <<distributed, now, overdue, attempts, consumed, app, call, history>>

(* The challenge's time to live ends, or the cache drops it early. *)
ExpireOtp(k) ==
  /\ otp[k] # Absent /\ k \notin overdue
  /\ overdue' = overdue \cup {k}
  /\ UNCHANGED <<distributed, now, otp, attempts, consumed, app, call, history>>

(* purgeExpired, in the process; a verification in progress may write back. *)
PurgeExpired ==
  /\ ~distributed
  /\ otp' = [k \in Challenges |-> IF k \in overdue THEN Absent ELSE otp[k]]
  /\ UNCHANGED <<distributed, now, overdue, attempts, consumed, app, call, history>>

(* verify reads the challenge, which must be live, *)
GetOtp(c, k) ==
  /\ otp[k].state = "live" /\ k \notin overdue
  /\ Step(c, "idle", "attempt")
  /\ challenge' = [challenge EXCEPT ![c] = k]
  /\ copy' = [copy EXCEPT ![c] = otp[k]]
  /\ overlapped' = (overlapped \/ \E d \in Calls : challenge[d] = k /\ pc[d] \notin Terminal)
  /\ UNCHANGED <<distributed, now, store, app, code, guesses, shown, raced, evicted, late>>

Attempt(c) == IF distributed THEN attempts[challenge[c]] + 1 ELSE copy[c].attempts + 1

Compared(c) == guesses' = [guesses EXCEPT ![challenge[c]] = @ + 1]

(* counts the attempt, in the cache or on its copy of the record, and      *)
(* compares the code.                                                      *)
RecordAttempt(c, matched) ==
  /\ Step(c, "attempt", IF matched THEN "consume" ELSE "refused")
  /\ Attempt(c) <= MaxAttempts
  /\ IF distributed
     THEN attempts' = [attempts EXCEPT ![challenge[c]] = @ + 1] /\ UNCHANGED otp
     ELSE otp' = [otp EXCEPT ![challenge[c]] = [copy[c] EXCEPT !.attempts = @ + 1]]
          /\ UNCHANGED attempts
  /\ Compared(c)
  /\ UNCHANGED <<distributed, now, overdue, consumed, app, challenge, copy, code,
                 shown, raced, overlapped, evicted, late>>

OutOfAttempts(c) ==
  /\ Step(c, "attempt", "refused")
  /\ Attempt(c) > MaxAttempts
  /\ IF distributed
     THEN attempts' = [attempts EXCEPT ![challenge[c]] = @ + 1] /\ UNCHANGED otp
     ELSE otp' = [otp EXCEPT ![challenge[c]] = [copy[c] EXCEPT !.attempts = @ + 1]]
          /\ UNCHANGED attempts
  /\ UNCHANGED <<distributed, now, overdue, consumed, app, challenge, copy, code, history>>

(* Mutant of Consume: sets the claim whether or not it is there. *)
ConsumeTwice(c) ==
  /\ Step(c, "consume", "record")
  /\ distributed
  /\ consumed' = [consumed EXCEPT ![challenge[c]] = TRUE]
  /\ UNCHANGED <<distributed, now, otp, overdue, attempts, app, challenge, copy, code, history>>

(* A match consumes the challenge: setIfAbsent in the cache, one synchronous *)
(* read and write in the process.                                           *)
Consume(c) ==
  LET k == challenge[c] IN
  /\ pc[c] = "consume"
  /\ \/ /\ distributed /\ ~consumed[k]
        /\ Step(c, "consume", "record")
        /\ consumed' = [consumed EXCEPT ![k] = TRUE]
        /\ UNCHANGED otp
     \/ /\ ~distributed /\ otp[k].state # "consumed"
        /\ Step(c, "consume", "passed")
        /\ otp' = [otp EXCEPT ![k] = [copy[c] EXCEPT !.state = "consumed"]]
        /\ UNCHANGED consumed
  /\ UNCHANGED <<distributed, now, overdue, attempts, app, challenge, copy, code, history>>

LoseConsume(c) ==
  /\ Step(c, "consume", "refused")
  /\ IF distributed THEN consumed[challenge[c]] ELSE otp[challenge[c]].state = "consumed"
  /\ UNCHANGED <<distributed, now, store, app, challenge, copy, code, history>>

RecordConsumed(c) ==
  /\ Step(c, "record", "passed")
  /\ otp' = [otp EXCEPT ![challenge[c]] = [copy[c] EXCEPT !.state = "consumed"]]
  /\ UNCHANGED <<distributed, now, overdue, attempts, consumed, app, challenge, copy, code, history>>

-----------------------------------------------------------------------------
(* MfaService *)

(* verifyTotp: the steps whose code is accepted now. *)
Verifiable(s) ==
  /\ s <= (now \div Period) + Window
  /\ now \div Period <= s + Window

Confirming == \E c \in Calls : pc[c] = "confirm"

(* Mutant of BeginEnrollment: a user who had confirmed stays confirmed. *)
BeginEnrollmentKeeping(c, secret) ==
  /\ \A d \in Calls : code[d].secret # secret
  /\ Step(c, "idle", "done")
  /\ enrolled' = [enrolled EXCEPT !.secret = secret]
  /\ code' = [code EXCEPT ![c].secret = secret]
  /\ shown' = secret
  /\ raced' = (raced \/ Confirming)
  /\ UNCHANGED <<distributed, now, store, claims, usedStep, recovery, challenge, copy,
                 guesses, overlapped, evicted, late>>

(* A new secret is stored unconfirmed, in the place of what was there. *)
BeginEnrollment(c, secret) ==
  /\ \A d \in Calls : code[d].secret # secret
  /\ Step(c, "idle", "done")
  /\ enrolled' = [secret |-> secret, confirmed |-> FALSE]
  /\ code' = [code EXCEPT ![c].secret = secret]
  /\ shown' = secret
  /\ raced' = (raced \/ Confirming)
  /\ UNCHANGED <<distributed, now, store, claims, usedStep, recovery, challenge, copy,
                 guesses, overlapped, evicted, late>>

(* confirmTotpEnrollment: a right code for the enrollment it read, *)
FindToConfirm(c, s) ==
  /\ enrolled # NotEnrolled /\ Verifiable(s)
  /\ Step(c, "idle", "confirm")
  /\ code' = [code EXCEPT ![c] = [secret |-> enrolled.secret, step |-> s]]
  /\ UNCHANGED <<distributed, now, store, app, challenge, copy, history>>

(* which it writes back confirmed, *)
SaveConfirmed(c) ==
  /\ Step(c, "confirm", "codes")
  /\ enrolled' = [secret |-> code[c].secret, confirmed |-> TRUE]
  /\ UNCHANGED <<distributed, now, store, claims, usedStep, recovery, challenge, copy,
                 code, history>>

(* with new recovery codes in the place of any others. *)
SaveRecoveryCodes(c) ==
  /\ Step(c, "codes", "done")
  /\ recovery' = {c}
  /\ UNCHANGED <<distributed, now, store, enrolled, claims, usedStep, challenge, copy,
                 code, history>>

(* verifyTotpCode: a right code for a confirmed enrollment *)
FindToVerify(c, s) ==
  /\ enrolled.confirmed /\ Verifiable(s)
  /\ Step(c, "idle", "claim")
  /\ code' = [code EXCEPT ![c] = [secret |-> enrolled.secret, step |-> s]]
  /\ UNCHANGED <<distributed, now, store, app, challenge, copy, history>>

(* Mutant of ClaimTtl: the drift window of one side is forgotten. *)
ClaimTtlShort == Period * (Window + 1)

(* claims its step for as long as a code of it may be verifiable, *)
ClaimTtl == Period * (2 * Window + 2)

ClaimStep(c) ==
  LET s == code[c].step IN
  /\ pc[c] = "claim"
  /\ \/ /\ distributed /\ now >= claims[s]
        /\ claims' = [claims EXCEPT ![s] = now + ClaimTtl]
        /\ UNCHANGED usedStep
     \/ /\ ~distributed /\ usedStep # s
        /\ usedStep' = s
        /\ UNCHANGED claims
  /\ Step(c, "claim", "mark")
  /\ late' = (late \/ now >= Period * (s + Window + 2))
  /\ UNCHANGED <<distributed, now, store, enrolled, recovery, challenge, copy, code,
                 guesses, shown, raced, overlapped, evicted>>

LoseStep(c) ==
  /\ Step(c, "claim", "refused")
  /\ IF distributed THEN now < claims[code[c].step] ELSE usedStep = code[c].step
  /\ UNCHANGED <<distributed, now, store, app, challenge, copy, code, history>>

(* and marks the enrollment used, which no decision reads. *)
MarkUsed(c) ==
  /\ Step(c, "mark", "accepted")
  /\ UNCHANGED <<distributed, now, store, app, challenge, copy, code, history>>

(* verifyRecoveryCode removes the code, or finds it gone. *)
Recover(c, batch) ==
  /\ Step(c, "idle", IF batch \in recovery THEN "done" ELSE "refused")
  /\ recovery' = recovery \ {batch}
  /\ UNCHANGED <<distributed, now, store, enrolled, claims, usedStep, challenge, copy,
                 code, history>>

(* remove: the enrollment, *)
Remove(c) ==
  /\ Step(c, "idle", "forget")
  /\ enrolled' = NotEnrolled
  /\ shown' = NoSecret
  /\ raced' = (raced \/ Confirming)
  /\ UNCHANGED <<distributed, now, store, claims, usedStep, recovery, challenge, copy, code,
                 guesses, overlapped, evicted, late>>

(* then the process's memory of the step. *)
ForgetStep(c) ==
  /\ Step(c, "forget", "done")
  /\ usedStep' = NoStep
  /\ UNCHANGED <<distributed, now, store, enrolled, claims, recovery, challenge, copy,
                 code, history>>

-----------------------------------------------------------------------------
(* The environment *)

EvictOtp(k) ==
  /\ distributed
  /\ attempts[k] > 0 \/ consumed[k]
  /\ attempts' = [attempts EXCEPT ![k] = 0] /\ consumed' = [consumed EXCEPT ![k] = FALSE]
  /\ evicted' = TRUE
  /\ UNCHANGED <<distributed, now, otp, overdue, app, call, guesses, shown, raced, overlapped,
                 late>>

EvictStep(s) ==
  /\ claims[s] > 0
  /\ claims' = [claims EXCEPT ![s] = 0]
  /\ evicted' = TRUE
  /\ UNCHANGED <<distributed, now, store, enrolled, usedStep, recovery, call,
                 guesses, shown, raced, overlapped, late>>

Tick ==
  /\ now < MaxTime
  /\ now' = now + 1
  /\ UNCHANGED <<distributed, store, app, call, history>>

-----------------------------------------------------------------------------

Otps(c) ==
  \/ \E k \in Challenges : GetOtp(c, k)
  \/ \E matched \in BOOLEAN : RecordAttempt(c, matched)
  \/ OutOfAttempts(c) \/ Consume(c) \/ LoseConsume(c) \/ RecordConsumed(c)

Totps(c) ==
  \/ \E secret \in Secrets : BeginEnrollment(c, secret)
  \/ \E s \in Steps : FindToConfirm(c, s) \/ FindToVerify(c, s)
  \/ SaveConfirmed(c) \/ SaveRecoveryCodes(c) \/ ClaimStep(c) \/ LoseStep(c) \/ MarkUsed(c)
  \/ \E batch \in Calls : Recover(c, batch)
  \/ Remove(c) \/ ForgetStep(c)

Next ==
  \/ \E c \in Calls : Otps(c) \/ Totps(c)
  \/ \E k \in Challenges : Issue(k) \/ ExpireOtp(k) \/ EvictOtp(k)
  \/ \E s \in Steps : EvictStep(s)
  \/ PurgeExpired \/ Tick

Spec == Init /\ [][Next]_vars

-----------------------------------------------------------------------------
(* Properties *)

Passed(k) == {c \in Calls : challenge[c] = k /\ pc[c] \in {"record", "passed"}}

(* A one-time code passes once and is compared maxAttempts times at most,  *)
(* on whichever replicas the requests land, unless the cache lost a key;   *)
(* without a cache, unless two verifications overlapped.                   *)
CodeIsSpent ==
  \A k \in Challenges :
    \/ Cardinality(Passed(k)) <= 1 /\ guesses[k] <= MaxAttempts
    \/ IF distributed THEN evicted ELSE overlapped

(* A code of the app that was accepted is not accepted again, unless the   *)
(* cache lost the claim or a request waited, between its check of the code *)
(* and its claim, until a period after the code stopped verifying: the     *)
(* claim is no older than that.                                            *)
StepIsSpent ==
  \A c, d \in Calls :
    c # d /\ pc[c] \in {"mark", "accepted"} /\ pc[d] \in {"mark", "accepted"}
      /\ distributed /\ code[c] = code[d] => evicted \/ late

(* The second factor is the secret the user was shown last, none after a   *)
(* removal, and counts only once a code of that very secret was given,     *)
(* unless a beginning or a removal came between a confirmation's read and  *)
(* its write: that write brings the older secret back.                     *)
EnrollmentIsProven ==
  \/ raced
  \/ /\ enrolled.secret = shown
     /\ enrolled.confirmed =>
          \E c \in Calls : /\ code[c].secret = enrolled.secret /\ code[c].step # NoStep
                          /\ pc[c] \in {"codes", "done"}
=============================================================================
