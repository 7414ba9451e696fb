-------------------------- MODULE SecondFactorProofs --------------------------
(***************************************************************************)
(* Proofs about SecondFactor, for every number of requests, challenges and *)
(* secrets, every maxAttempts, period and window, and every bound on time. *)
(***************************************************************************)
EXTENDS SecondFactor, FiniteSetTheorems, TLAPS

-----------------------------------------------------------------------------
(* Steps of time *)

(* Steps are numbers, and "no step" is none of them. *)
LEMMA StepsAreNumbers ==
  (\A s \in Steps : s \in Nat) /\ NoStep \in Nat /\ NoStep \notin Steps
<1>1. (MaxTime \div Period) \in Nat
  BY SecondFactorAssumption
<1>2. QED
  BY <1>1, SecondFactorAssumption DEF Steps, NoStep

(* Step s began at most the window ahead of time t, *)
Began(s, t) == Period * s <= t + Period * Window

(* and a period after its code stopped verifying is t at the latest.       *)
OverBy(s, t) == Period * (s + Window + 2) <= t

(* A step whose code verifies began at most the window ahead of the clock, *)
LEMMA VerifiableBegan ==
  ASSUME NEW s \in Nat, now \in Nat, Verifiable(s)
  PROVE  Began(s, now)
<1> DEFINE n == now \div Period
<1>1. Period \in Nat \ {0} /\ Window \in Nat
  BY SecondFactorAssumption
<1>2. n \in Nat /\ Period * n <= now
  BY <1>1
<1>3. s <= n + Window
  BY DEF Verifiable
<1> HIDE DEF n
<1>4. Period * s <= Period * (n + Window)
  BY <1>1, <1>2, <1>3
<1>5. Period * (n + Window) = Period * n + Period * Window
  BY <1>1, <1>2
<1>6. QED
  BY <1>1, <1>2, <1>4, <1>5 DEF Began

(* and keeps being so. *)
LEMMA BeganBefore ==
  ASSUME NEW s \in Nat, NEW t \in Nat, Began(s, t)
  PROVE  Began(s, t + 1)
<1>1. Period * s \in Nat /\ Period * Window \in Nat
  BY SecondFactorAssumption
<1>2. QED
  BY <1>1 DEF Began

(* A claim on such a step lasts until a period after its code stopped      *)
(* verifying.                                                              *)
LEMMA ClaimLasts ==
  ASSUME NEW s \in Nat, NEW t \in Nat, Began(s, t)
  PROVE  ClaimTtl \in Nat /\ OverBy(s, t + ClaimTtl)
<1>1. Period \in Nat /\ Window \in Nat
  BY SecondFactorAssumption
<1>2. Period * (s + Window + 2) = Period * s + Period * Window + 2 * Period
  BY <1>1
<1>3. ClaimTtl = 2 * (Period * Window) + 2 * Period
  BY <1>1 DEF ClaimTtl
<1>4. Period * s \in Nat /\ Period * Window \in Nat
  BY <1>1
<1>5. QED
  BY <1>1, <1>2, <1>3, <1>4 DEF Began, OverBy

(* A time at which it is over is one at which a claim is late.             *)
LEMMA OverIsLate ==
  ASSUME NEW s \in Nat, NEW u \in Nat, NEW t \in Nat, OverBy(s, u), t >= u
  PROVE  t >= Period * (s + Window + 2)
<1>1. Period * (s + Window + 2) \in Nat
  BY SecondFactorAssumption
<1>2. QED
  BY <1>1 DEF OverBy

-----------------------------------------------------------------------------
(* What is done to a record *)

(* A challenge counts an attempt, or is consumed; *)
LEMMA ChangedOtp ==
  ASSUME NEW r \in Otp
  PROVE  /\ [r EXCEPT !.attempts = @ + 1] \in Otp
         /\ [r EXCEPT !.attempts = @ + 1].attempts = r.attempts + 1
         /\ [r EXCEPT !.attempts = @ + 1].state = r.state
         /\ [r EXCEPT !.state = "consumed"] \in Otp
         /\ [r EXCEPT !.state = "consumed"].state = "consumed"
         /\ [r EXCEPT !.state = "live"] \in Otp
         /\ [r EXCEPT !.state = "live"].attempts = r.attempts
BY DEF Otp

(* a call is shown a secret. *)
Code == [secret: Secrets \cup {NoSecret}, step: Steps \cup {NoStep}]
(* A call that is shown a secret keeps its step. *)
LEMMA ShownSecret ==
  ASSUME NEW r \in Code, NEW secret \in Secrets
  PROVE  /\ [r EXCEPT !.secret = secret] \in Code
         /\ [r EXCEPT !.secret = secret].step = r.step
         /\ [r EXCEPT !.secret = secret].secret = secret
BY DEF Code

-----------------------------------------------------------------------------
(* The inductive invariant *)

OnChallenge == {"attempt", "consume", "record", "passed"}
OnStep == {"claim", "mark", "accepted"}

(* What a call holds: the challenge it verifies, or the step it claims,    *)
(* whose code it has found to verify.                                      *)
LocalsOK ==
  \A c \in Calls :
    /\ pc[c] \in OnChallenge => challenge[c] \in Challenges
    /\ pc[c] = "record" => distributed
    /\ pc[c] \in OnStep =>
         code[c].step \in Steps /\ Began(code[c].step, now)

IInv == TypeOK /\ LocalsOK

(* A call keeps what it holds until it is over. *)
LEMMA LocalsStep ==
  ASSUME IInv, [Next]_vars
  PROVE  IInv'
<1> USE SecondFactorAssumption, StepsAreNumbers DEF IInv, TypeOK, LocalsOK, store,
        app, call, history
<1>1. ASSUME NEW c \in Calls, NEW k \in Challenges, GetOtp(c, k) PROVE IInv'
  BY <1>1
     DEF GetOtp, Step, Stages, Terminal, OnChallenge, OnStep, Otp, Enrollment,
         Absent, NotEnrolled
<1>2. ASSUME NEW c \in Calls, NEW matched \in BOOLEAN, RecordAttempt(c, matched)
      PROVE  IInv'
  <2>1. copy[c] \in Otp /\ challenge[c] \in Challenges
    BY <1>2 DEF RecordAttempt, Step, OnChallenge
  <2>2. /\ [copy[c] EXCEPT !.attempts = @ + 1] \in Otp
        /\ [copy[c] EXCEPT !.state = "consumed"] \in Otp
    BY <2>1, ChangedOtp
  <2>3. otp' \in [Challenges -> Otp]
    BY <1>2, <2>1, <2>2 DEF RecordAttempt
  <2>4. attempts' \in [Challenges -> Nat] /\ guesses' \in [Challenges -> Nat]
    BY <1>2, <2>1 DEF RecordAttempt, Compared, Step
  <2>5. pc' \in [Calls -> Stages \cup Terminal]
    BY <1>2 DEF RecordAttempt, Step, Stages, Terminal
  <2>6. TypeOK'
    BY <1>2, <2>3, <2>4, <2>5 DEF RecordAttempt, Step
  <2>7. LocalsOK'
    BY <1>2, <2>1 DEF RecordAttempt, Step, OnChallenge, OnStep
  <2>8. QED
    BY <2>6, <2>7
<1>3. ASSUME NEW c \in Calls, OutOfAttempts(c) PROVE IInv'
  <2>1. copy[c] \in Otp /\ challenge[c] \in Challenges
    BY <1>3 DEF OutOfAttempts, Step, OnChallenge
  <2>2. /\ [copy[c] EXCEPT !.attempts = @ + 1] \in Otp
        /\ [copy[c] EXCEPT !.state = "consumed"] \in Otp
    BY <2>1, ChangedOtp
  <2>3. otp' \in [Challenges -> Otp]
    BY <1>3, <2>1, <2>2 DEF OutOfAttempts
  <2>4. attempts' \in [Challenges -> Nat] /\ guesses' \in [Challenges -> Nat]
    BY <1>3, <2>1 DEF OutOfAttempts, Step
  <2>5. pc' \in [Calls -> Stages \cup Terminal]
    BY <1>3 DEF OutOfAttempts, Step, Stages, Terminal
  <2>6. TypeOK'
    BY <1>3, <2>3, <2>4, <2>5 DEF OutOfAttempts, Step
  <2>7. LocalsOK'
    BY <1>3, <2>1 DEF OutOfAttempts, Step, OnChallenge, OnStep
  <2>8. QED
    BY <2>6, <2>7
<1>4. ASSUME NEW c \in Calls, Consume(c) PROVE IInv'
  <2>1. copy[c] \in Otp /\ challenge[c] \in Challenges
    BY <1>4 DEF Consume, Step, OnChallenge
  <2>2. /\ [copy[c] EXCEPT !.attempts = @ + 1] \in Otp
        /\ [copy[c] EXCEPT !.state = "consumed"] \in Otp
    BY <2>1, ChangedOtp
  <2>3. otp' \in [Challenges -> Otp]
    BY <1>4, <2>1, <2>2 DEF Consume
  <2>4. attempts' \in [Challenges -> Nat] /\ guesses' \in [Challenges -> Nat]
    BY <1>4, <2>1 DEF Consume, Step
  <2>5. pc' \in [Calls -> Stages \cup Terminal]
    BY <1>4 DEF Consume, Step, Stages, Terminal
  <2>6. TypeOK'
    BY <1>4, <2>3, <2>4, <2>5 DEF Consume, Step
  <2>7. LocalsOK'
    BY <1>4, <2>1 DEF Consume, Step, OnChallenge, OnStep
  <2>8. QED
    BY <2>6, <2>7
<1>5. ASSUME NEW c \in Calls, LoseConsume(c) PROVE IInv'
  BY <1>5 DEF LoseConsume, Step, Stages, Terminal, OnChallenge, OnStep
<1>6. ASSUME NEW c \in Calls, RecordConsumed(c) PROVE IInv'
  <2>1. copy[c] \in Otp /\ challenge[c] \in Challenges
    BY <1>6 DEF RecordConsumed, Step, OnChallenge
  <2>2. /\ [copy[c] EXCEPT !.attempts = @ + 1] \in Otp
        /\ [copy[c] EXCEPT !.state = "consumed"] \in Otp
    BY <2>1, ChangedOtp
  <2>3. otp' \in [Challenges -> Otp]
    BY <1>6, <2>1, <2>2 DEF RecordConsumed
  <2>4. attempts' \in [Challenges -> Nat] /\ guesses' \in [Challenges -> Nat]
    BY <1>6, <2>1 DEF RecordConsumed, Step
  <2>5. pc' \in [Calls -> Stages \cup Terminal]
    BY <1>6 DEF RecordConsumed, Step, Stages, Terminal
  <2>6. TypeOK'
    BY <1>6, <2>3, <2>4, <2>5 DEF RecordConsumed, Step
  <2>7. LocalsOK'
    BY <1>6, <2>1 DEF RecordConsumed, Step, OnChallenge, OnStep
  <2>8. QED
    BY <2>6, <2>7
<1>7. ASSUME NEW c \in Calls, NEW secret \in Secrets, BeginEnrollment(c, secret)
      PROVE  IInv'
  <2>1. code' \in [Calls -> Code]
    BY <1>7, ShownSecret DEF BeginEnrollment, Code
  <2>2. enrolled' \in Enrollment
    BY <1>7 DEF BeginEnrollment, Enrollment
  <2>3. TypeOK'
    BY <1>7, <2>1, <2>2
    DEF BeginEnrollment, Step, Confirming, Stages, Terminal, Code
  <2>4. LocalsOK'
    BY <1>7 DEF BeginEnrollment, Step, OnChallenge, OnStep
  <2>5. QED
    BY <2>3, <2>4
<1>8. ASSUME NEW c \in Calls, NEW s \in Steps, FindToConfirm(c, s) PROVE IInv'
  <2>1. enrolled.secret \in Secrets \cup {NoSecret}
    BY DEF Enrollment
  <2>2. code' \in [Calls -> Code]
    BY <1>8, <2>1 DEF FindToConfirm, Code
  <2>3. TypeOK'
    BY <1>8, <2>2 DEF FindToConfirm, Step, Stages, Terminal, Code
  <2>4. LocalsOK'
    BY <1>8 DEF FindToConfirm, Step, OnChallenge, OnStep
  <2>5. QED
    BY <2>3, <2>4
<1>9. ASSUME NEW c \in Calls, NEW s \in Steps, FindToVerify(c, s) PROVE IInv'
  <2>1. now \in Nat /\ s \in Nat /\ enrolled.secret \in Secrets \cup {NoSecret}
    BY DEF Enrollment
  <2>2. Began(s, now)
    BY <1>9, <2>1, VerifiableBegan DEF FindToVerify
  <2>3. code' \in [Calls -> Code]
    BY <1>9, <2>1 DEF FindToVerify, Code
  <2>4. TypeOK'
    BY <1>9, <2>3 DEF FindToVerify, Step, Stages, Terminal, Code
  <2>5. LocalsOK'
    BY <1>9, <2>2 DEF FindToVerify, Step, OnChallenge, OnStep
  <2>6. QED
    BY <2>4, <2>5
<1>10. ASSUME NEW c \in Calls, SaveConfirmed(c) PROVE IInv'
  BY <1>10
     DEF SaveConfirmed, Step, Stages, Terminal, OnChallenge, OnStep, Otp,
         Enrollment, Absent, NotEnrolled
<1>11. ASSUME NEW c \in Calls, SaveRecoveryCodes(c) PROVE IInv'
  BY <1>11 DEF SaveRecoveryCodes, Step, Stages, Terminal, OnChallenge, OnStep
<1>12. ASSUME NEW c \in Calls, ClaimStep(c) PROVE IInv'
  <2>1. now + ClaimTtl \in Nat
    <3>1. pc[c] \in OnStep
      BY <1>12 DEF ClaimStep, OnStep
    <3>2. code[c].step \in Steps /\ Began(code[c].step, now)
      BY <3>1
    <3>3. code[c].step \in Nat /\ now \in Nat
      BY <3>2
    <3>4. QED
      BY <3>2, <3>3, ClaimLasts
  <2>2. TypeOK'
    BY <1>12, <2>1 DEF ClaimStep, Step, Stages, Terminal, OnStep
  <2>3. LocalsOK'
    BY <1>12 DEF ClaimStep, Step, OnChallenge, OnStep
  <2>4. QED
    BY <2>2, <2>3
<1>13. ASSUME NEW c \in Calls, LoseStep(c) PROVE IInv'
  BY <1>13 DEF LoseStep, Step, Stages, Terminal, OnChallenge, OnStep
<1>14. ASSUME NEW c \in Calls, MarkUsed(c) PROVE IInv'
  BY <1>14 DEF MarkUsed, Step, Stages, Terminal, OnChallenge, OnStep
<1>15. ASSUME NEW c \in Calls, NEW batch \in Calls, Recover(c, batch) PROVE IInv'
  BY <1>15 DEF Recover, Step, Stages, Terminal, OnChallenge, OnStep
<1>16. ASSUME NEW c \in Calls, Remove(c) PROVE IInv'
  BY <1>16
     DEF Remove, Step, Confirming, Stages, Terminal, OnChallenge, OnStep, Otp,
         Enrollment, Absent, NotEnrolled
<1>17. ASSUME NEW c \in Calls, ForgetStep(c) PROVE IInv'
  BY <1>17 DEF ForgetStep, Step, Stages, Terminal, OnChallenge, OnStep
<1>18. ASSUME NEW k \in Challenges, Issue(k) PROVE IInv'
  BY <1>18
     DEF Issue, Stages, Terminal, OnChallenge, OnStep, Otp, Enrollment, Absent,
         NotEnrolled
<1>19. ASSUME NEW k \in Challenges, ExpireOtp(k) PROVE IInv'
  BY <1>19 DEF ExpireOtp, Stages, Terminal, OnChallenge, OnStep
<1>20. ASSUME NEW k \in Challenges, EvictOtp(k) PROVE IInv'
  BY <1>20 DEF EvictOtp, Stages, Terminal, OnChallenge, OnStep
<1>21. ASSUME NEW s \in Steps, EvictStep(s) PROVE IInv'
  <2>1. claims' \in [Steps -> Nat]
    BY <1>21 DEF EvictStep
  <2>2. TypeOK'
    BY <1>21, <2>1 DEF EvictStep
  <2>3. LocalsOK'
    BY <1>21 DEF EvictStep
  <2>4. QED
    BY <2>2, <2>3
<1>22. ASSUME PurgeExpired PROVE IInv'
  BY <1>22
     DEF PurgeExpired, Stages, Terminal, OnChallenge, OnStep, Otp, Enrollment,
         Absent, NotEnrolled
<1>23. ASSUME Tick PROVE IInv'
  <2>1. TypeOK'
    BY <1>23 DEF Tick
  <2>2. now \in Nat /\ now' = now + 1
    BY <1>23 DEF Tick
  <2>3. \A d \in Calls : pc[d] \in OnStep => Began(code[d].step, now')
    BY <2>2, BeganBefore
  <2>4. LocalsOK'
    BY <1>23, <2>3 DEF Tick
  <2>5. QED
    BY <2>1, <2>4
<1>24. CASE UNCHANGED vars
  BY <1>24 DEF vars
<1> HIDE DEF IInv
<1>25. QED
  BY <1>1, <1>2, <1>3, <1>4, <1>5, <1>6, <1>7, <1>8, <1>9, <1>10, <1>11, <1>12,
     <1>13, <1>14, <1>15, <1>16, <1>17, <1>18, <1>19, <1>20, <1>21, <1>22, <1>23,
     <1>24 DEF Next, Otps, Totps

-----------------------------------------------------------------------------
(* A one-time code, counted and claimed in the cache *)

Won(c, k) == challenge[c] = k /\ pc[c] \in {"record", "passed"}

(* Until the cache loses a key, every comparison is in the attempts it     *)
(* counted, and the only call that matched holds its claim.                *)
SharedInv ==
  distributed /\ ~evicted =>
    \A k \in Challenges :
      /\ guesses[k] <= attempts[k] /\ guesses[k] <= MaxAttempts
      /\ \A c \in Calls : Won(c, k) => consumed[k]
      /\ \A c, d \in Calls : Won(c, k) /\ Won(d, k) => c = d

(* The cache's counter and its claim are one step each. *)
LEMMA SharedStep ==
  ASSUME IInv, SharedInv, [Next]_vars
  PROVE  SharedInv'
<1> USE SecondFactorAssumption DEF IInv, TypeOK, LocalsOK, OnChallenge, OnStep,
        Terminal, Stages, store, app, call, history, SharedInv, Won, Otp
<1>1. ASSUME NEW c \in Calls, NEW k \in Challenges, GetOtp(c, k) PROVE SharedInv'
  BY <1>1 DEF GetOtp, Step
<1>2. ASSUME NEW c \in Calls, NEW matched \in BOOLEAN, RecordAttempt(c, matched)
      PROVE  SharedInv'
  BY <1>2 DEF RecordAttempt, Step, Attempt, Compared
<1>3. ASSUME NEW c \in Calls, OutOfAttempts(c) PROVE SharedInv'
  <2>1. guesses' = guesses /\ consumed' = consumed /\ distributed' = distributed
        /\ evicted' = evicted /\ challenge' = challenge
    BY <1>3 DEF OutOfAttempts
  <2>2. \A d \in Calls, k \in Challenges : Won(d, k)' <=> Won(d, k)
    BY <1>3 DEF OutOfAttempts, Step
  <2>3. distributed => \A k \in Challenges : attempts'[k] >= attempts[k]
    BY <1>3 DEF OutOfAttempts
  <2>4. attempts' \in [Challenges -> Nat]
    BY <1>3 DEF OutOfAttempts
  <2>5. QED
    BY <2>1, <2>2, <2>3, <2>4
<1>4. ASSUME NEW c \in Calls, Consume(c) PROVE SharedInv'
  BY <1>4 DEF Consume, Step
<1>5. ASSUME NEW c \in Calls, LoseConsume(c) PROVE SharedInv'
  BY <1>5 DEF LoseConsume, Step
<1>6. ASSUME NEW c \in Calls, RecordConsumed(c) PROVE SharedInv'
  BY <1>6 DEF RecordConsumed, Step
<1>7. ASSUME NEW c \in Calls, NEW secret \in Secrets, BeginEnrollment(c, secret)
      PROVE  SharedInv'
  BY <1>7 DEF BeginEnrollment, Step, Confirming
<1>8. ASSUME NEW c \in Calls, NEW s \in Steps, FindToConfirm(c, s) PROVE SharedInv'
  BY <1>8 DEF FindToConfirm, Step
<1>9. ASSUME NEW c \in Calls, NEW s \in Steps, FindToVerify(c, s) PROVE SharedInv'
  BY <1>9 DEF FindToVerify, Step
<1>10. ASSUME NEW c \in Calls, SaveConfirmed(c) PROVE SharedInv'
  BY <1>10 DEF SaveConfirmed, Step
<1>11. ASSUME NEW c \in Calls, SaveRecoveryCodes(c) PROVE SharedInv'
  BY <1>11 DEF SaveRecoveryCodes, Step
<1>12. ASSUME NEW c \in Calls, ClaimStep(c) PROVE SharedInv'
  BY <1>12 DEF ClaimStep, Step
<1>13. ASSUME NEW c \in Calls, LoseStep(c) PROVE SharedInv'
  BY <1>13 DEF LoseStep, Step
<1>14. ASSUME NEW c \in Calls, MarkUsed(c) PROVE SharedInv'
  BY <1>14 DEF MarkUsed, Step
<1>15. ASSUME NEW c \in Calls, NEW batch \in Calls, Recover(c, batch)
      PROVE  SharedInv'
  BY <1>15 DEF Recover, Step
<1>16. ASSUME NEW c \in Calls, Remove(c) PROVE SharedInv'
  BY <1>16 DEF Remove, Step, Confirming
<1>17. ASSUME NEW c \in Calls, ForgetStep(c) PROVE SharedInv'
  BY <1>17 DEF ForgetStep, Step
<1>18. ASSUME NEW k \in Challenges, Issue(k) PROVE SharedInv'
  BY <1>18 DEF Issue
<1>19. ASSUME NEW k \in Challenges, ExpireOtp(k) PROVE SharedInv'
  BY <1>19 DEF ExpireOtp
<1>20. ASSUME NEW k \in Challenges, EvictOtp(k) PROVE SharedInv'
  BY <1>20 DEF EvictOtp
<1>21. ASSUME NEW s \in Steps, EvictStep(s) PROVE SharedInv'
  BY <1>21 DEF EvictStep
<1>22. ASSUME PurgeExpired PROVE SharedInv'
  BY <1>22 DEF PurgeExpired
<1>23. ASSUME Tick PROVE SharedInv'
  BY <1>23 DEF Tick
<1>24. CASE UNCHANGED vars
  BY <1>24 DEF vars
<1> HIDE DEF SharedInv
<1>25. QED
  BY <1>1, <1>2, <1>3, <1>4, <1>5, <1>6, <1>7, <1>8, <1>9, <1>10, <1>11, <1>12,
     <1>13, <1>14, <1>15, <1>16, <1>17, <1>18, <1>19, <1>20, <1>21, <1>22, <1>23,
     <1>24 DEF Next, Otps, Totps

-----------------------------------------------------------------------------
(* A one-time code, counted and claimed in the process *)

Engaged(c, k) == challenge[c] = k /\ pc[c] \in OnChallenge

(* Until two verifications overlap, at most one call is engaged with a     *)
(* challenge; the comparisons are in the attempts of the record that will  *)
(* be read, or of the copy the call holds; and once a call has passed no   *)
(* live record is left.                                                    *)
LocalInv ==
  ~distributed /\ ~overlapped =>
    \A k \in Challenges :
      /\ guesses[k] <= MaxAttempts
      /\ k \notin overdue /\ otp[k].state # "consumed" =>
           guesses[k] <= otp[k].attempts
      /\ \A c \in Calls : challenge[c] = k /\ pc[c] = "attempt" =>
           guesses[k] <= copy[c].attempts
      /\ \A c \in Calls : Won(c, k) => k \in overdue \/ otp[k].state = "consumed"
      /\ \A c, d \in Calls : Engaged(c, k) /\ Engaged(d, k) => c = d

(* The process reads and writes its record in steps of one call. *)
LEMMA LocalStep ==
  ASSUME IInv, LocalInv, [Next]_vars
  PROVE  LocalInv'
<1> USE SecondFactorAssumption DEF IInv, TypeOK, LocalsOK, OnChallenge, OnStep,
        Terminal, Stages, store, app, call, history, LocalInv, Won, Engaged, Otp,
        Absent
<1>1. ASSUME NEW c \in Calls, NEW k \in Challenges, GetOtp(c, k) PROVE LocalInv'
  <2> SUFFICES ASSUME ~distributed, ~overlapped' PROVE LocalInv'
    BY <1>1 DEF GetOtp
  <2>1. /\ pc' = [pc EXCEPT ![c] = "attempt"] /\ pc[c] = "idle"
        /\ challenge' = [challenge EXCEPT ![c] = k]
        /\ copy' = [copy EXCEPT ![c] = otp[k]]
        /\ otp' = otp /\ overdue' = overdue /\ guesses' = guesses
        /\ otp[k].state = "live" /\ k \notin overdue
    BY <1>1 DEF GetOtp, Step
  <2>2. ~overlapped /\ \A d \in Calls : challenge[d] = k => pc[d] \in Terminal
    BY <1>1 DEF GetOtp
  <2>3. \A d \in Calls : ~Engaged(d, k)
    BY <2>1, <2>2
  <2>4. guesses[k] <= otp[k].attempts
    BY <2>1, <2>2
  <2>5. \A d \in Calls, j \in Challenges :
          d # c => (Engaged(d, j)' <=> Engaged(d, j)) /\ (Won(d, j)' <=> Won(d, j))
    BY <2>1
  <2>6. \A j \in Challenges : Engaged(c, j)' => j = k /\ ~Won(c, j)'
    BY <2>1
  <2>7. \A j \in Challenges : \A d \in Calls :
          (challenge[d] = j /\ pc[d] = "attempt")' =>
            guesses[j] <= copy'[d].attempts
    BY <2>1, <2>2, <2>4
  <2>8. \A j \in Challenges : \A d, e \in Calls :
          Engaged(d, j)' /\ Engaged(e, j)' => d = e
    <3> SUFFICES ASSUME NEW j \in Challenges, NEW d \in Calls, NEW e \in Calls,
                        Engaged(d, j)', Engaged(e, j)', d # e
                 PROVE  FALSE
      OBVIOUS
    <3>1. Engaged(d, j) /\ Engaged(e, j) => d = e
      BY <2>2
    <3> HIDE DEF Engaged, Won
    <3>2. CASE d = c
      BY <2>3, <2>5, <2>6, <3>2
    <3>3. CASE e = c
      BY <2>3, <2>5, <2>6, <3>3
    <3>4. QED
      BY <2>5, <3>1, <3>2, <3>3
  <2>9. \A j \in Challenges : \A d \in Calls :
          Won(d, j)' => j \in overdue \/ otp[j].state = "consumed"
    BY <2>1, <2>2, <2>5
  <2>10. QED
    BY <2>1, <2>2, <2>7, <2>8, <2>9
<1>2. ASSUME NEW c \in Calls, NEW matched \in BOOLEAN, RecordAttempt(c, matched)
      PROVE  LocalInv'
  BY <1>2 DEF RecordAttempt, Step, Attempt, Compared
<1>3. ASSUME NEW c \in Calls, OutOfAttempts(c) PROVE LocalInv'
  BY <1>3 DEF OutOfAttempts, Step, Attempt
<1>4. ASSUME NEW c \in Calls, Consume(c) PROVE LocalInv'
  <2> SUFFICES ASSUME ~distributed, ~overlapped PROVE LocalInv'
    BY <1>4 DEF Consume
  <2> DEFINE k == challenge[c]
  <2>1. /\ pc[c] = "consume" /\ pc' = [pc EXCEPT ![c] = "passed"]
        /\ otp' = [otp EXCEPT ![k] = [copy[c] EXCEPT !.state = "consumed"]]
        /\ challenge' = challenge /\ copy' = copy /\ overdue' = overdue
        /\ guesses' = guesses
    BY <1>4 DEF Consume, Step
  <2>2. k \in Challenges
    BY <2>1
  <2>3. otp'[k].state = "consumed"
    BY <2>1, <2>2
  <2>4. \A d \in Calls, j \in Challenges : Engaged(d, j)' <=> Engaged(d, j)
    BY <2>1
  <2>5. \A d \in Calls, j \in Challenges : Won(d, j)' => Won(d, j) \/ j = k
    BY <2>1
  <2>6. QED
    BY <2>1, <2>2, <2>3, <2>4, <2>5
<1>5. ASSUME NEW c \in Calls, LoseConsume(c) PROVE LocalInv'
  BY <1>5 DEF LoseConsume, Step
<1>6. ASSUME NEW c \in Calls, RecordConsumed(c) PROVE LocalInv'
  BY <1>6 DEF RecordConsumed, Step
<1>7. ASSUME NEW c \in Calls, NEW secret \in Secrets, BeginEnrollment(c, secret)
      PROVE  LocalInv'
  BY <1>7 DEF BeginEnrollment, Step, Confirming
<1>8. ASSUME NEW c \in Calls, NEW s \in Steps, FindToConfirm(c, s) PROVE LocalInv'
  BY <1>8 DEF FindToConfirm, Step
<1>9. ASSUME NEW c \in Calls, NEW s \in Steps, FindToVerify(c, s) PROVE LocalInv'
  BY <1>9 DEF FindToVerify, Step
<1>10. ASSUME NEW c \in Calls, SaveConfirmed(c) PROVE LocalInv'
  BY <1>10 DEF SaveConfirmed, Step
<1>11. ASSUME NEW c \in Calls, SaveRecoveryCodes(c) PROVE LocalInv'
  BY <1>11 DEF SaveRecoveryCodes, Step
<1>12. ASSUME NEW c \in Calls, ClaimStep(c) PROVE LocalInv'
  BY <1>12 DEF ClaimStep, Step
<1>13. ASSUME NEW c \in Calls, LoseStep(c) PROVE LocalInv'
  BY <1>13 DEF LoseStep, Step
<1>14. ASSUME NEW c \in Calls, MarkUsed(c) PROVE LocalInv'
  BY <1>14 DEF MarkUsed, Step
<1>15. ASSUME NEW c \in Calls, NEW batch \in Calls, Recover(c, batch)
      PROVE  LocalInv'
  BY <1>15 DEF Recover, Step
<1>16. ASSUME NEW c \in Calls, Remove(c) PROVE LocalInv'
  BY <1>16 DEF Remove, Step, Confirming
<1>17. ASSUME NEW c \in Calls, ForgetStep(c) PROVE LocalInv'
  BY <1>17 DEF ForgetStep, Step
<1>18. ASSUME NEW k \in Challenges, Issue(k) PROVE LocalInv'
  BY <1>18 DEF Issue
<1>19. ASSUME NEW k \in Challenges, ExpireOtp(k) PROVE LocalInv'
  BY <1>19 DEF ExpireOtp
<1>20. ASSUME NEW k \in Challenges, EvictOtp(k) PROVE LocalInv'
  BY <1>20 DEF EvictOtp
<1>21. ASSUME NEW s \in Steps, EvictStep(s) PROVE LocalInv'
  BY <1>21 DEF EvictStep
<1>22. ASSUME PurgeExpired PROVE LocalInv'
  BY <1>22 DEF PurgeExpired
<1>23. ASSUME Tick PROVE LocalInv'
  BY <1>23 DEF Tick
<1>24. CASE UNCHANGED vars
  BY <1>24 DEF vars
<1> HIDE DEF LocalInv
<1>25. QED
  BY <1>1, <1>2, <1>3, <1>4, <1>5, <1>6, <1>7, <1>8, <1>9, <1>10, <1>11, <1>12,
     <1>13, <1>14, <1>15, <1>16, <1>17, <1>18, <1>19, <1>20, <1>21, <1>22, <1>23,
     <1>24 DEF Next, Otps, Totps

-----------------------------------------------------------------------------
(* A step of the app *)

(* Until the cache loses a key, the claim on the step of a call that       *)
(* passed lasts until a period after the step's code stopped verifying.    *)
ClaimInv ==
  distributed /\ ~evicted =>
    \A c \in Calls : pc[c] \in {"mark", "accepted"} =>
      OverBy(code[c].step, claims[code[c].step])

StepInv == ClaimInv /\ StepIsSpent

(* A later claim on the step finds this one, or comes after it. *)
LEMMA StepIsSpentStep ==
  ASSUME IInv, StepInv, [Next]_vars
  PROVE  StepInv'
<1> USE SecondFactorAssumption, StepsAreNumbers DEF IInv, TypeOK, LocalsOK,
        OnChallenge, OnStep, Terminal, Stages, store, app, call, history, StepInv,
        ClaimInv, StepIsSpent
<1>1. ASSUME NEW c \in Calls, NEW k \in Challenges, GetOtp(c, k) PROVE StepInv'
  BY <1>1 DEF GetOtp, Step
<1>2. ASSUME NEW c \in Calls, NEW matched \in BOOLEAN, RecordAttempt(c, matched)
      PROVE  StepInv'
  BY <1>2 DEF RecordAttempt, Step, Attempt, Compared
<1>3. ASSUME NEW c \in Calls, OutOfAttempts(c) PROVE StepInv'
  BY <1>3 DEF OutOfAttempts, Step, Attempt
<1>4. ASSUME NEW c \in Calls, Consume(c) PROVE StepInv'
  BY <1>4 DEF Consume, Step
<1>5. ASSUME NEW c \in Calls, LoseConsume(c) PROVE StepInv'
  BY <1>5 DEF LoseConsume, Step
<1>6. ASSUME NEW c \in Calls, RecordConsumed(c) PROVE StepInv'
  BY <1>6 DEF RecordConsumed, Step
<1>7. ASSUME NEW c \in Calls, NEW secret \in Secrets, BeginEnrollment(c, secret)
      PROVE  StepInv'
  BY <1>7 DEF BeginEnrollment, Step, Confirming
<1>8. ASSUME NEW c \in Calls, NEW s \in Steps, FindToConfirm(c, s) PROVE StepInv'
  BY <1>8 DEF FindToConfirm, Step
<1>9. ASSUME NEW c \in Calls, NEW s \in Steps, FindToVerify(c, s) PROVE StepInv'
  BY <1>9 DEF FindToVerify, Step
<1>10. ASSUME NEW c \in Calls, SaveConfirmed(c) PROVE StepInv'
  BY <1>10 DEF SaveConfirmed, Step
<1>11. ASSUME NEW c \in Calls, SaveRecoveryCodes(c) PROVE StepInv'
  BY <1>11 DEF SaveRecoveryCodes, Step
<1>12. ASSUME NEW c \in Calls, ClaimStep(c) PROVE StepInv'
  <2> DEFINE s == code[c].step
  <2>1. s \in Nat /\ s \in Steps /\ now \in Nat /\ Began(s, now)
    <3>1. pc[c] \in OnStep
      BY <1>12 DEF ClaimStep
    <3>2. s \in Steps /\ Began(s, now)
      BY <3>1
    <3>3. QED
      BY <3>2
  <2>2. ClaimTtl \in Nat /\ OverBy(s, now + ClaimTtl)
    BY <2>1, ClaimLasts
  <2>3. /\ pc' = [pc EXCEPT ![c] = "mark"] /\ code' = code
        /\ distributed' = distributed /\ evicted' = evicted
        /\ late' = (late \/ now >= Period * (s + Window + 2))
        /\ distributed => /\ now >= claims[s]
                          /\ claims' = [claims EXCEPT ![s] = now + ClaimTtl]
    BY <1>12 DEF ClaimStep, Step
  <2>4. ClaimInv'
    BY <2>1, <2>2, <2>3
  <2>5. ASSUME NEW d \in Calls, d # c, pc[d] \in {"mark", "accepted"}, distributed,
               ~evicted, code[d] = code[c]
        PROVE  late'
    <3>1. OverBy(s, claims[s]) /\ claims[s] \in Nat
      BY <2>1, <2>5
    <3>2. now >= Period * (s + Window + 2)
      BY <2>1, <2>3, <2>5, <3>1, OverIsLate
    <3>3. QED
      BY <2>3, <3>2
  <2>6. StepIsSpent'
    BY <2>3, <2>5
  <2>7. QED
    BY <2>4, <2>6
<1>13. ASSUME NEW c \in Calls, LoseStep(c) PROVE StepInv'
  BY <1>13 DEF LoseStep, Step
<1>14. ASSUME NEW c \in Calls, MarkUsed(c) PROVE StepInv'
  BY <1>14 DEF MarkUsed, Step
<1>15. ASSUME NEW c \in Calls, NEW batch \in Calls, Recover(c, batch) PROVE StepInv'
  BY <1>15 DEF Recover, Step
<1>16. ASSUME NEW c \in Calls, Remove(c) PROVE StepInv'
  BY <1>16 DEF Remove, Step, Confirming
<1>17. ASSUME NEW c \in Calls, ForgetStep(c) PROVE StepInv'
  BY <1>17 DEF ForgetStep, Step
<1>18. ASSUME NEW k \in Challenges, Issue(k) PROVE StepInv'
  BY <1>18 DEF Issue
<1>19. ASSUME NEW k \in Challenges, ExpireOtp(k) PROVE StepInv'
  BY <1>19 DEF ExpireOtp
<1>20. ASSUME NEW k \in Challenges, EvictOtp(k) PROVE StepInv'
  BY <1>20 DEF EvictOtp
<1>21. ASSUME NEW s \in Steps, EvictStep(s) PROVE StepInv'
  BY <1>21 DEF EvictStep
<1>22. ASSUME PurgeExpired PROVE StepInv'
  BY <1>22 DEF PurgeExpired
<1>23. ASSUME Tick PROVE StepInv'
  BY <1>23 DEF Tick
<1>24. CASE UNCHANGED vars
  BY <1>24 DEF vars
<1> HIDE DEF StepInv
<1>25. QED
  BY <1>1, <1>2, <1>3, <1>4, <1>5, <1>6, <1>7, <1>8, <1>9, <1>10, <1>11, <1>12,
     <1>13, <1>14, <1>15, <1>16, <1>17, <1>18, <1>19, <1>20, <1>21, <1>22, <1>23,
     <1>24 DEF Next, Otps, Totps

-----------------------------------------------------------------------------
(* The enrollment *)

(* Unless a beginning or a removal came in between, a confirmation holds   *)
(* the secret that is enrolled, and a code of it.                          *)
EnrollInv ==
  /\ EnrollmentIsProven
  /\ raced \/ \A c \in Calls : pc[c] = "confirm" =>
                code[c].secret = enrolled.secret /\ code[c].step # NoStep

(* A confirmation writes what it read. *)
LEMMA EnrollStep ==
  ASSUME IInv, EnrollInv, [Next]_vars
  PROVE  EnrollInv'
<1> USE SecondFactorAssumption, StepsAreNumbers DEF IInv, TypeOK, LocalsOK,
        OnChallenge, OnStep, Terminal, Stages, store, app, call, history, EnrollInv,
        EnrollmentIsProven, NotEnrolled
<1>1. ASSUME NEW c \in Calls, NEW k \in Challenges, GetOtp(c, k) PROVE EnrollInv'
  BY <1>1 DEF GetOtp, Step
<1>2. ASSUME NEW c \in Calls, NEW matched \in BOOLEAN, RecordAttempt(c, matched)
      PROVE  EnrollInv'
  BY <1>2 DEF RecordAttempt, Step, Attempt, Compared
<1>3. ASSUME NEW c \in Calls, OutOfAttempts(c) PROVE EnrollInv'
  BY <1>3 DEF OutOfAttempts, Step, Attempt
<1>4. ASSUME NEW c \in Calls, Consume(c) PROVE EnrollInv'
  BY <1>4 DEF Consume, Step
<1>5. ASSUME NEW c \in Calls, LoseConsume(c) PROVE EnrollInv'
  BY <1>5 DEF LoseConsume, Step
<1>6. ASSUME NEW c \in Calls, RecordConsumed(c) PROVE EnrollInv'
  BY <1>6 DEF RecordConsumed, Step
<1>7. ASSUME NEW c \in Calls, NEW secret \in Secrets, BeginEnrollment(c, secret)
      PROVE  EnrollInv'
  BY <1>7 DEF BeginEnrollment, Step, Confirming
<1>8. ASSUME NEW c \in Calls, NEW s \in Steps, FindToConfirm(c, s) PROVE EnrollInv'
  BY <1>8 DEF FindToConfirm, Step
<1>9. ASSUME NEW c \in Calls, NEW s \in Steps, FindToVerify(c, s) PROVE EnrollInv'
  BY <1>9 DEF FindToVerify, Step
<1>10. ASSUME NEW c \in Calls, SaveConfirmed(c) PROVE EnrollInv'
  BY <1>10 DEF SaveConfirmed, Step
<1>11. ASSUME NEW c \in Calls, SaveRecoveryCodes(c) PROVE EnrollInv'
  BY <1>11 DEF SaveRecoveryCodes, Step
<1>12. ASSUME NEW c \in Calls, ClaimStep(c) PROVE EnrollInv'
  BY <1>12 DEF ClaimStep, Step
<1>13. ASSUME NEW c \in Calls, LoseStep(c) PROVE EnrollInv'
  BY <1>13 DEF LoseStep, Step
<1>14. ASSUME NEW c \in Calls, MarkUsed(c) PROVE EnrollInv'
  BY <1>14 DEF MarkUsed, Step
<1>15. ASSUME NEW c \in Calls, NEW batch \in Calls, Recover(c, batch)
      PROVE  EnrollInv'
  BY <1>15 DEF Recover, Step
<1>16. ASSUME NEW c \in Calls, Remove(c) PROVE EnrollInv'
  BY <1>16 DEF Remove, Step, Confirming
<1>17. ASSUME NEW c \in Calls, ForgetStep(c) PROVE EnrollInv'
  BY <1>17 DEF ForgetStep, Step
<1>18. ASSUME NEW k \in Challenges, Issue(k) PROVE EnrollInv'
  BY <1>18 DEF Issue
<1>19. ASSUME NEW k \in Challenges, ExpireOtp(k) PROVE EnrollInv'
  BY <1>19 DEF ExpireOtp
<1>20. ASSUME NEW k \in Challenges, EvictOtp(k) PROVE EnrollInv'
  BY <1>20 DEF EvictOtp
<1>21. ASSUME NEW s \in Steps, EvictStep(s) PROVE EnrollInv'
  BY <1>21 DEF EvictStep
<1>22. ASSUME PurgeExpired PROVE EnrollInv'
  BY <1>22 DEF PurgeExpired
<1>23. ASSUME Tick PROVE EnrollInv'
  BY <1>23 DEF Tick
<1>24. CASE UNCHANGED vars
  BY <1>24 DEF vars
<1> HIDE DEF EnrollInv
<1>25. QED
  BY <1>1, <1>2, <1>3, <1>4, <1>5, <1>6, <1>7, <1>8, <1>9, <1>10, <1>11, <1>12,
     <1>13, <1>14, <1>15, <1>16, <1>17, <1>18, <1>19, <1>20, <1>21, <1>22, <1>23,
     <1>24 DEF Next, Otps, Totps

-----------------------------------------------------------------------------
(* The theorems *)

(* Every part of the invariant holds at the start, *)
LEMMA InitInvs ==
  Init => IInv /\ SharedInv /\ LocalInv /\ StepInv /\ EnrollInv
<1> SUFFICES ASSUME Init
             PROVE  IInv /\ SharedInv /\ LocalInv /\ StepInv /\ EnrollInv
  OBVIOUS
<1> USE SecondFactorAssumption, StepsAreNumbers
<1>1. \A c \in Calls : pc[c] = "idle"
  BY DEF Init
<1>2. IInv
  <2>1. TypeOK
    <3>1. /\ distributed \in BOOLEAN /\ consumed \in [Challenges -> BOOLEAN]
          /\ raced \in BOOLEAN /\ overlapped \in BOOLEAN
          /\ evicted \in BOOLEAN /\ late \in BOOLEAN
      BY DEF Init
    <3>2. /\ now \in 0..MaxTime /\ attempts \in [Challenges -> Nat]
          /\ guesses \in [Challenges -> Nat] /\ claims \in [Steps -> Nat]
          /\ usedStep \in Steps \cup {NoStep}
      BY DEF Init
    <3>3. /\ otp \in [Challenges -> Otp] /\ copy \in [Calls -> Otp]
          /\ enrolled \in Enrollment
          /\ code \in [Calls -> Code]
      BY DEF Init, Otp, Absent, Enrollment, NotEnrolled, Code
    <3>4. /\ overdue \subseteq Challenges /\ recovery \subseteq Calls
          /\ shown \in Secrets \cup {NoSecret}
          /\ pc \in [Calls -> Stages \cup Terminal]
          /\ challenge \in [Calls -> Challenges \cup {NoChallenge}]
      BY DEF Init, Stages, Terminal
    <3>5. QED
      BY <3>1, <3>2, <3>3, <3>4 DEF TypeOK, Code
  <2>2. QED
    BY <2>1, <1>1 DEF IInv, LocalsOK, OnChallenge, OnStep
<1>3. SharedInv
  BY <1>1 DEF Init, SharedInv, Won
<1>4. LocalInv
  BY <1>1 DEF Init, LocalInv, Won, Engaged, OnChallenge, Absent
<1>5. StepInv
  BY <1>1 DEF StepInv, ClaimInv, StepIsSpent
<1>6. EnrollInv
  BY <1>1 DEF Init, EnrollInv, EnrollmentIsProven, NotEnrolled
<1>7. QED
  BY <1>2, <1>3, <1>4, <1>5, <1>6

(* and ever after. *)
LEMMA Inductive ==
  Spec => [](IInv /\ SharedInv /\ LocalInv /\ StepInv /\ EnrollInv)
<1>1. IInv /\ [Next]_vars => IInv'
  BY LocalsStep
<1>2. IInv /\ SharedInv /\ [Next]_vars => SharedInv'
  BY SharedStep
<1>3. IInv /\ LocalInv /\ [Next]_vars => LocalInv'
  BY LocalStep
<1>4. IInv /\ StepInv /\ [Next]_vars => StepInv'
  BY StepIsSpentStep
<1>5. IInv /\ EnrollInv /\ [Next]_vars => EnrollInv'
  BY EnrollStep
<1>6. QED
  BY InitInvs, <1>1, <1>2, <1>3, <1>4, <1>5, PTL DEF Spec

(* Every variable keeps its type. *)
THEOREM TypeCorrect == Spec => []TypeOK
<1>1. IInv => TypeOK
  BY DEF IInv
<1>2. QED
  BY Inductive, <1>1, PTL

(* A one-time code passes once and is compared maxAttempts times at most,  *)
(* whatever the number of requests and however they interleave, unless the *)
(* cache lost a key or, without one, two verifications overlapped.         *)
THEOREM CodeIsSpentCorrect == Spec => []CodeIsSpent
<1>1. IInv /\ SharedInv /\ LocalInv => CodeIsSpent
  <2> SUFFICES ASSUME IInv, SharedInv, LocalInv, NEW k \in Challenges
               PROVE  \/ Cardinality(Passed(k)) <= 1 /\ guesses[k] <= MaxAttempts
                      \/ distributed /\ evicted
                      \/ ~distributed /\ overlapped
    BY DEF CodeIsSpent
  <2> SUFFICES ASSUME ~(distributed /\ evicted), ~(~distributed /\ overlapped)
               PROVE  Cardinality(Passed(k)) <= 1 /\ guesses[k] <= MaxAttempts
    OBVIOUS
  <2>1. (distributed /\ ~evicted) \/ (~distributed /\ ~overlapped)
    OBVIOUS
  <2>2. guesses[k] <= MaxAttempts
    BY <2>1 DEF SharedInv, LocalInv
  <2>3. \A c, d \in Passed(k) : c = d
    BY <2>1 DEF SharedInv, LocalInv, Passed, Won, Engaged, OnChallenge
  <2>4. CASE Passed(k) = {}
    BY <2>2, <2>4, FS_EmptySet
  <2>5. ASSUME NEW c \in Passed(k) PROVE Cardinality(Passed(k)) <= 1
    <3>1. Passed(k) = {c}
      BY <2>3, <2>5
    <3>2. Cardinality({c}) = 1
      BY FS_Singleton
    <3>3. QED
      BY <3>1, <3>2
  <2>6. QED
    BY <2>2, <2>4, <2>5
<1>2. QED
  BY Inductive, <1>1, PTL

(* A code of the app is accepted once, as long as the cache keeps the      *)
(* claim and no request waits until a period after the code's last moment: *)
(* the time to live of the claim is enough, for every period and window.   *)
THEOREM StepIsSpentCorrect == Spec => []StepIsSpent
<1>1. StepInv => StepIsSpent
  BY DEF StepInv
<1>2. QED
  BY Inductive, <1>1, PTL

(* The enrolled secret is the one shown last, and counts only once a code  *)
(* of it was given, unless a confirmation raced a beginning or a removal.  *)
THEOREM EnrollmentIsProvenCorrect == Spec => []EnrollmentIsProven
<1>1. EnrollInv => EnrollmentIsProven
  BY DEF EnrollInv
<1>2. QED
  BY Inductive, <1>1, PTL
==============================================================================
