--------------------------- MODULE ServicesProofs ---------------------------
(***************************************************************************)
(* Proofs about the five parts of MCServices and the two of MCLicensing,   *)
(* each for every number of calls, keys, clients, replicas, roles and      *)
(* lists and every bound.  A part keeps an invariant of its own; the steps *)
(* of the other parts leave it alone.                                      *)
(***************************************************************************)
EXTENDS MCServices, MCLicensing, Sequences, FiniteSetTheorems, WellFoundedInduction, TLAPS

allVars == <<part, pc, now, copy, raced, ofKeys, ofDevices, ofMessages, ofMirror, ofRoles>>

-----------------------------------------------------------------------------
(* ApiKeys *)

(* What RevocationHolds rests on: no verification holds a record of a key  *)
(* revoked without a race, and a call that read its key after the answer   *)
(* read a key that was revoked then.                                       *)
KeysOK ==
  /\ \A c \in KeyCalls : pc[c] \in {"use", "revoke"} => key[c] \in Keys
  /\ \A k \in revoked \ raced :
       /\ record[k].state = "revoked"
       /\ \A c \in KeyCalls : pc[c] = "use" => key[c] # k
  /\ \A c \in late :
       /\ pc[c] # "idle"
       /\ key[c] \in revoked
       /\ key[c] \notin raced => pc[c] \notin {"use", "accepted"}

KeysInv == K!TypeOK /\ KeysOK

(* No key is there when the service starts. *)
LEMMA KeysStart == K!Init => KeysInv
BY DEF K!Init, KeysInv, K!TypeOK, K!Record, K!Absent, KeysOK

(* Every request, and the passing of a key's time, keeps the invariant. *)
LEMMA KeysStep ==
  ASSUME KeysInv, K!Next
  PROVE  KeysInv'
<1> USE DEF KeysInv, K!Step, K!Record, K!Absent, K!history, K!stored, K!call
<1>1. ASSUME NEW c \in KeyCalls, NEW k \in Keys, K!Create(c, k) PROVE KeysInv'
  <2>1. K!TypeOK'
    BY <1>1 DEF K!Create, K!TypeOK
  <2>2. KeysOK'
    BY <1>1 DEF K!Create, K!TypeOK, KeysOK
  <2>3. QED
    BY <2>1, <2>2
<1>2. ASSUME NEW c \in KeyCalls, NEW k \in Keys, K!FindToVerify(c, k) PROVE KeysInv'
  <2>1. K!TypeOK'
    BY <1>2 DEF K!FindToVerify, K!Find, K!TypeOK
  <2>2. KeysOK'
    BY <1>2 DEF K!FindToVerify, K!Find, K!Valid, K!TypeOK, KeysOK
  <2>3. QED
    BY <2>1, <2>2
<1>3. ASSUME NEW c \in KeyCalls, NEW k \in Keys, K!Refuse(c, k) PROVE KeysInv'
  <2>1. K!TypeOK'
    BY <1>3 DEF K!Refuse, K!Find, K!TypeOK
  <2>2. KeysOK'
    BY <1>3 DEF K!Refuse, K!Find, K!TypeOK, KeysOK
  <2>3. QED
    BY <2>1, <2>2
<1>4. ASSUME NEW c \in KeyCalls, NEW k \in Keys, K!FindToRevoke(c, k) PROVE KeysInv'
  <2>1. K!TypeOK'
    BY <1>4 DEF K!FindToRevoke, K!Find, K!TypeOK
  <2>2. KeysOK'
    BY <1>4 DEF K!FindToRevoke, K!Find, K!TypeOK, KeysOK
  <2>3. QED
    BY <2>1, <2>2
<1>5. ASSUME NEW c \in KeyCalls, K!WriteUsed(c) PROVE KeysInv'
  <2>1. K!TypeOK'
    BY <1>5 DEF K!WriteUsed, K!TypeOK
  <2>2. KeysOK'
    BY <1>5 DEF K!WriteUsed, K!TypeOK, KeysOK
  <2>3. QED
    BY <2>1, <2>2
<1>6. ASSUME NEW c \in KeyCalls, K!WriteRevoked(c) PROVE KeysInv'
  <2>1. K!TypeOK'
    BY <1>6 DEF K!WriteRevoked, K!TypeOK, KeysOK
  <2>2. KeysOK'
    BY <1>6 DEF K!WriteRevoked, K!TypeOK, KeysOK
  <2>3. QED
    BY <2>1, <2>2
<1>7. ASSUME NEW k \in Keys, K!Expire(k) PROVE KeysInv'
  BY <1>7 DEF K!Expire, K!TypeOK, KeysOK
<1>8. QED
  BY <1>1, <1>2, <1>3, <1>4, <1>5, <1>6, <1>7 DEF K!Next, K!Request

(* The steps of MCServices that are steps of ApiKeys. *)
LEMMA KeysMoves == KeysNext => part' = part /\ part = "keys" /\ K!Next
BY DEF KeysNext, InKeys, K!Next, K!Request

(* What is left alone keeps the invariant. *)
LEMMA KeysRest ==
  ASSUME KeysInv, UNCHANGED <<pc, copy, raced, ofKeys>>
  PROVE  KeysInv'
BY DEF KeysInv, K!TypeOK, KeysOK, ofKeys

-----------------------------------------------------------------------------
(* Devices *)

(* A record has a client, and a client one record. *)
RecordsOK ==
  /\ \A d \in D!Known : devices[d].print \in Prints
  /\ \A d, e \in D!Known : devices[d].print = devices[e].print => d = e

(* A record about to be written has a client, a new one no trust. *)
CopiesOK ==
  \A c \in DeviceCalls :
    /\ pc[c] \in {"register", "trust", "untrust"} => copy[c].print \in Prints
    /\ pc[c] = "register" => copy[c].until = 0
    /\ pc[c] \in {"touch", "trust", "untrust"} => device[c] \in DeviceCalls

(* Trust of a distrusted client, run out or not, is of a raced call. *)
TrustOK ==
  \A d \in DeviceCalls :
    devices[d].until # 0 /\ devices[d].print \in distrusted =>
      \E c \in raced : pc[c] = "done" /\ copy[c].print = devices[d].print

DevicesInv == D!TypeOK /\ RecordsOK /\ CopiesOK /\ TrustOK

(* The registry is empty when the service starts. *)
LEMMA DevicesStart == D!Init => DevicesInv
BY ServicesAssumption
   DEF D!Init, DevicesInv, D!TypeOK, RecordsOK, CopiesOK, TrustOK, D!Known, D!Record,
       D!Absent

(* What save leaves: the record under its id, no other record of its       *)
(* client, and the rest as it was.                                         *)
LEMMA SavedIs ==
  ASSUME D!TypeOK, NEW d \in DeviceCalls, NEW r \in D!Record, devices' = D!Saved(d, r)
  PROVE  /\ devices' \in [DeviceCalls -> D!Record]
         /\ devices'[d] = r
         /\ \A e \in DeviceCalls \ {d} :
              IF devices[e].print = r.print THEN devices'[e] = D!Absent
                                            ELSE devices'[e] = devices[e]
BY DEF D!Saved, D!TypeOK, D!Record, D!Absent

(* A write of a client's record keeps one record to a client. *)
LEMMA SavedKeepsOne ==
  ASSUME D!TypeOK, RecordsOK, NEW d \in DeviceCalls, NEW r \in D!Record, r.print \in Prints,
         devices' = D!Saved(d, r)
  PROVE  RecordsOK'
BY SavedIs, ServicesAssumption DEF RecordsOK, D!Known, D!Absent, D!TypeOK

(* Every request, and the clock, keeps the invariant. *)
LEMMA DevicesStep ==
  ASSUME DevicesInv, D!Next
  PROVE  DevicesInv'
<1> USE ServicesAssumption DEF DevicesInv, D!Step, D!registry, D!call, D!history
<1>1. ASSUME NEW c \in DeviceCalls, NEW f \in Prints, D!Recognize(c, f) PROVE DevicesInv'
  <2>1. D!TypeOK'
    <3>1. \A d \in D!Known : d \in DeviceCalls /\ devices[d] \in D!Record
      BY DEF D!Known, D!TypeOK
    <3>2. [print |-> f, until |-> 0] \in D!Record
      BY DEF D!Record
    <3>3. QED
      BY <1>1, <3>1, <3>2 DEF D!Recognize, D!TypeOK
  <2>2. RecordsOK'
    BY <1>1 DEF D!Recognize, RecordsOK, D!Known
  <2>3. CopiesOK'
    BY <1>1 DEF D!Recognize, CopiesOK, D!TypeOK, D!Known
  <2>4. TrustOK'
    BY <1>1 DEF D!Recognize, TrustOK, D!TypeOK
  <2>5. QED
    BY <2>1, <2>2, <2>3, <2>4
<1>2. ASSUME NEW c \in DeviceCalls, D!Touch(c) PROVE DevicesInv'
  <2>1. D!TypeOK'
    BY <1>2 DEF D!Touch, D!Touched, D!TypeOK
  <2>2. RecordsOK' /\ CopiesOK' /\ TrustOK'
    BY <1>2 DEF D!Touch, D!Touched, D!TypeOK, RecordsOK, CopiesOK, TrustOK, D!Known
  <2>3. QED
    BY <2>1, <2>2
<1>3. ASSUME NEW c \in DeviceCalls, D!Register(c) PROVE DevicesInv'
  <2>1. copy[c] \in D!Record /\ copy[c].print \in Prints /\ devices' = D!Saved(c, copy[c])
    BY <1>3 DEF D!Register, D!TypeOK, CopiesOK
  <2>2. D!TypeOK'
    BY <1>3, <2>1, SavedIs DEF D!Register, D!TypeOK
  <2>3. RecordsOK'
    BY <2>1, SavedKeepsOne
  <2>4. CopiesOK'
    BY <1>3 DEF D!Register, CopiesOK, D!TypeOK
  <2>5. TrustOK'
    BY <1>3, <2>1, SavedIs DEF D!Register, TrustOK, CopiesOK, D!TypeOK, D!Absent
  <2>6. QED
    BY <2>2, <2>3, <2>4, <2>5
<1>4. ASSUME NEW c \in DeviceCalls, NEW d \in DeviceCalls, D!GetToTrust(c, d)
      PROVE  DevicesInv'
  <2>1. D!TypeOK'
    BY <1>4 DEF D!GetToTrust, D!Get, D!TypeOK
  <2>2. RecordsOK'
    BY <1>4 DEF D!GetToTrust, RecordsOK, D!Known
  <2>3. CopiesOK'
    BY <1>4 DEF D!GetToTrust, D!Get, CopiesOK, RecordsOK, D!TypeOK
  <2>4. TrustOK'
    BY <1>4 DEF D!GetToTrust, D!Get, TrustOK, D!TypeOK
  <2>5. QED
    BY <2>1, <2>2, <2>3, <2>4
<1>5. ASSUME NEW c \in DeviceCalls, D!SaveTrusted(c) PROVE DevicesInv'
  <2> DEFINE r == [copy[c] EXCEPT !.until = now + Trust]
  <2>1. /\ r \in D!Record /\ r.print = copy[c].print /\ r.print \in Prints
        /\ device[c] \in DeviceCalls /\ devices' = D!Saved(device[c], r)
    BY <1>5 DEF D!SaveTrusted, D!TypeOK, D!Record, CopiesOK
  <2> HIDE DEF r
  <2>2. D!TypeOK'
    BY <1>5, <2>1, SavedIs DEF D!SaveTrusted, D!TypeOK
  <2>3. RecordsOK'
    BY <2>1, SavedKeepsOne
  <2>4. CopiesOK'
    BY <1>5 DEF D!SaveTrusted, CopiesOK, D!TypeOK
  <2>5. TrustOK'
    <3> SUFFICES ASSUME NEW d \in DeviceCalls,
                        devices'[d].until # 0, devices'[d].print \in distrusted'
                 PROVE  \E e \in raced : pc'[e] = "done" /\ copy[e].print = devices'[d].print
      BY <1>5 DEF D!SaveTrusted, TrustOK
    <3>1. CASE d = device[c]
      <4>1. devices'[d].print = copy[c].print
        BY <2>1, <3>1, SavedIs
      <4>2. c \in raced
        BY <1>5, <4>1 DEF D!SaveTrusted
      <4>3. pc'[c] = "done"
        BY <1>5 DEF D!SaveTrusted, D!TypeOK
      <4>4. QED
        BY <4>1, <4>2, <4>3
    <3>2. CASE d # device[c]
      <4>1. devices'[d] = devices[d]
        BY <2>1, <3>2, SavedIs DEF D!Absent
      <4>2. PICK e \in raced : pc[e] = "done" /\ copy[e].print = devices[d].print
        BY <1>5, <4>1 DEF D!SaveTrusted, TrustOK
      <4>3. pc'[e] = "done"
        BY <1>5, <4>2 DEF D!SaveTrusted, D!TypeOK
      <4>4. QED
        BY <4>1, <4>2, <4>3
    <3>3. QED
      BY <3>1, <3>2
  <2>6. QED
    BY <2>2, <2>3, <2>4, <2>5
<1>6. ASSUME NEW c \in DeviceCalls, D!List(c) PROVE DevicesInv'
  <2>1. D!TypeOK'
    BY <1>6 DEF D!List, D!TypeOK, D!Known
  <2>2. RecordsOK' /\ CopiesOK' /\ TrustOK'
    BY <1>6 DEF D!List, D!TypeOK, RecordsOK, CopiesOK, TrustOK, D!Known
  <2>3. QED
    BY <2>1, <2>2
<1>7. ASSUME NEW c \in DeviceCalls, D!ListDone(c) PROVE DevicesInv'
  <2>1. D!TypeOK'
    BY <1>7 DEF D!ListDone, D!TypeOK
  <2>2. RecordsOK' /\ CopiesOK' /\ TrustOK'
    BY <1>7 DEF D!ListDone, D!TypeOK, RecordsOK, CopiesOK, TrustOK, D!Known
  <2>3. QED
    BY <2>1, <2>2
<1>8. ASSUME NEW c \in DeviceCalls, NEW d \in DeviceCalls, D!GetToUntrust(c, d)
      PROVE  DevicesInv'
  <2>1. D!TypeOK'
    BY <1>8 DEF D!GetToUntrust, D!Get, D!TypeOK
  <2>2. RecordsOK'
    BY <1>8 DEF D!GetToUntrust, RecordsOK, D!Known
  <2>3. CopiesOK'
    BY <1>8 DEF D!GetToUntrust, D!Get, CopiesOK, RecordsOK, D!TypeOK
  <2>4. TrustOK'
    BY <1>8 DEF D!GetToUntrust, D!Get, TrustOK, D!TypeOK
  <2>5. QED
    BY <2>1, <2>2, <2>3, <2>4
<1>9. ASSUME NEW c \in DeviceCalls, D!SaveUntrusted(c) PROVE DevicesInv'
  <2> DEFINE r == [copy[c] EXCEPT !.until = 0]
  <2>1. /\ r \in D!Record /\ r.print = copy[c].print /\ r.print \in Prints /\ r.until = 0
        /\ device[c] \in DeviceCalls /\ devices' = D!Saved(device[c], r)
    BY <1>9 DEF D!SaveUntrusted, D!TypeOK, D!Record, CopiesOK
  <2> HIDE DEF r
  <2>2. D!TypeOK'
    <3>1. devices' \in [DeviceCalls -> D!Record]
      BY <2>1, SavedIs
    <3>2. raced' \subseteq DeviceCalls /\ distrusted' \subseteq Prints
      BY <1>9, <2>1 DEF D!SaveUntrusted, D!Distrust, D!TypeOK
    <3>3. QED
      BY <1>9, <3>1, <3>2 DEF D!SaveUntrusted, D!TypeOK
  <2>3. RecordsOK'
    BY <2>1, SavedKeepsOne
  <2>4. CopiesOK'
    BY <1>9 DEF D!SaveUntrusted, CopiesOK, D!TypeOK
  <2>5. TrustOK'
    <3> SUFFICES ASSUME NEW d \in DeviceCalls,
                        devices'[d].until # 0, devices'[d].print \in distrusted'
                 PROVE  \E e \in raced' : /\ pc'[e] = "done"
                                            /\ copy[e].print = devices'[d].print
      BY <1>9 DEF D!SaveUntrusted, TrustOK
    <3>1. devices'[d] = devices[d] /\ devices[d].print # copy[c].print
      BY <2>1, SavedIs DEF D!Absent
    <3>2. devices[d].print \in distrusted
      BY <1>9, <3>1 DEF D!SaveUntrusted, D!Distrust
    <3>3. PICK e \in raced : pc[e] = "done" /\ copy[e].print = devices[d].print
      BY <3>1, <3>2 DEF TrustOK
    <3>4. e \in raced' /\ pc'[e] = "done"
      BY <1>9, <3>3 DEF D!SaveUntrusted, D!Distrust, D!TypeOK
    <3>5. QED
      BY <3>1, <3>3, <3>4
  <2>6. QED
    BY <2>2, <2>3, <2>4, <2>5
<1>10. ASSUME NEW c \in DeviceCalls, NEW d \in DeviceCalls, D!Forget(c, d)
       PROVE  DevicesInv'
  <2>1. D!TypeOK'
    BY <1>10 DEF D!Forget, D!Distrust, D!TypeOK, D!Record, D!Absent, RecordsOK
  <2>2. RecordsOK' /\ CopiesOK'
    BY <1>10 DEF D!Forget, D!TypeOK, RecordsOK, CopiesOK, D!Known, D!Absent
  <2>3. TrustOK'
    BY <1>10 DEF D!Forget, D!Distrust, D!TypeOK, RecordsOK, TrustOK, D!Known, D!Absent
  <2>4. QED
    BY <2>1, <2>2, <2>3
<1>11. CASE D!Tick
  BY <1>11 DEF D!Tick, D!TypeOK, RecordsOK, CopiesOK, TrustOK, D!Known
<1>12. QED
  BY <1>1, <1>2, <1>3, <1>4, <1>5, <1>6, <1>7, <1>8, <1>9, <1>10, <1>11
     DEF D!Next, D!Request

(* The steps of MCServices that are steps of Devices. *)
LEMMA DevicesMoves == DevicesNext => part' = part /\ part = "devices" /\ D!Next
BY DEF DevicesNext, InDevices, D!Next, D!Request

(* What is left alone keeps the invariant. *)
LEMMA DevicesRest ==
  ASSUME DevicesInv, UNCHANGED <<pc, now, copy, raced, ofDevices>>
  PROVE  DevicesInv'
BY DEF DevicesInv, D!TypeOK, RecordsOK, CopiesOK, TrustOK, D!Known, ofDevices

-----------------------------------------------------------------------------
(* Notifications *)

(* A claim is of the call that made it, in that call's store and for the   *)
(* window from when it was made. *)
ClaimsOK ==
  \A s \in Replicas \cup {Shared}, c \in MessageCalls : claim[s].by = c =>
    /\ s = N!Store(c) /\ ~urgent[c] /\ pc[c] # "idle"
    /\ claim[s].until = claimedAt[c] + Window

(* How a call ended, and whether its message was delivered. *)
EndsOK ==
  \A c \in MessageCalls :
    /\ pc[c] = "delivered" => sent[c] > 0
    /\ pc[c] = "threw" => c \in deaf
    /\ pc[c] \in {"idle", "suppressed", "undelivered"} => claim[N!Store(c)].by # c
    /\ c \notin deaf => sent[c] = IF pc[c] = "delivered" THEN 1 ELSE 0

(* A call that claimed the message and may have sent it, or may yet. *)
Holding(c) == ~urgent[c] /\ pc[c] \in {"send", "failed", "release", "delivered"}

(* Its claim is there or has run out, and those it shares a store with     *)
(* claimed the message a window before or after.                           *)
HoldersOK ==
  freed \/
    \A c \in MessageCalls : Holding(c) =>
      /\ \/ claimedAt[c] + Window <= now
         \/ claim[N!Store(c)].by = c
      /\ \A d \in MessageCalls : d # c /\ Holding(d) /\ N!Together(c, d) =>
           \/ claimedAt[c] + Window <= claimedAt[d]
           \/ claimedAt[d] + Window <= claimedAt[c]

MessagesInv == N!TypeOK /\ ClaimsOK /\ EndsOK /\ HoldersOK

(* Nobody holds a claim when the service starts. *)
LEMMA MessagesStart == N!Init => MessagesInv
<1> SUFFICES ASSUME N!Init PROVE MessagesInv
  OBVIOUS
<1>1. N!TypeOK
  <2>1. /\ now \in 1..MaxTime
        /\ claim \in [Replicas \cup {Shared} ->
                      [by: MessageCalls \cup {NoCall}, until: Nat]]
    BY ServicesAssumption DEF N!Init, N!Unclaimed
  <2>2. /\ transport \in [MessageCalls -> 0..MaxTransports]
        /\ attempt \in [MessageCalls -> 0..MaxAttempts]
        /\ claimedAt \in [MessageCalls -> 0..MaxTime] /\ sent \in [MessageCalls -> Nat]
    BY ServicesAssumption DEF N!Init
  <2>3. QED
    BY <2>1, <2>2 DEF N!Init, N!TypeOK, N!Busy, N!Ended
<1>2. ClaimsOK /\ EndsOK /\ HoldersOK
  BY ServicesAssumption
     DEF N!Init, N!Unclaimed, N!Store, ClaimsOK, EndsOK, HoldersOK, Holding
<1>3. QED
  BY <1>1, <1>2 DEF MessagesInv

(* A call's store is one of the stores, and calls together have one. *)
LEMMA StoresAre ==
  ASSUME N!TypeOK
  PROVE  /\ \A c \in MessageCalls : N!Store(c) \in Replicas \cup {Shared}
         /\ \A c, d \in MessageCalls : N!Together(c, d) => N!Store(c) = N!Store(d)
BY DEF N!TypeOK, N!Store, N!Together

(* Where a call is after a try that failed. *)
LEMMA TriesTyped ==
  ASSUME N!TypeOK, NEW c \in MessageCalls, pc[c] = "send", N!TryAgain(c) \/ N!Skip(c)
  PROVE  /\ pc' = pc \/ pc' = [pc EXCEPT ![c] = "failed"]
         /\ pc' \in [MessageCalls -> {"idle"} \cup N!Busy \cup N!Ended]
         /\ transport' \in [MessageCalls -> 0..MaxTransports]
         /\ attempt' \in [MessageCalls -> 0..MaxAttempts]
<1> USE ServicesAssumption
<1>1. ASSUME N!Skip(c)
      PROVE  /\ pc' = pc \/ pc' = [pc EXCEPT ![c] = "failed"]
             /\ transport' \in [MessageCalls -> 0..MaxTransports]
             /\ attempt' \in [MessageCalls -> 0..MaxAttempts]
  <2>1. /\ transports \in Nat /\ transports <= MaxTransports /\ transport[c] \in Nat
        /\ 1 \in 0..MaxTransports /\ 1 \in 0..MaxAttempts
    BY DEF N!TypeOK
  <2>2. CASE transport[c] < transports
    <3>1. transport[c] + 1 \in 0..MaxTransports
      BY <2>1, <2>2
    <3>2. QED
      <4>1. /\ transport' = [transport EXCEPT ![c] = transport[c] + 1]
            /\ attempt' = [attempt EXCEPT ![c] = 1] /\ pc' = pc
        BY <1>1, <2>2 DEF N!Skip
      <4>2. QED
        BY <2>1, <3>1, <4>1 DEF N!TypeOK
  <2>3. CASE ~(transport[c] < transports)
    BY <1>1, <2>1, <2>3 DEF N!TypeOK, N!Skip, N!StopTrying, N!Step
  <2>4. QED
    BY <2>2, <2>3
<1>2. CASE N!TryAgain(c)
  <2>1. CASE attempt[c] < MaxAttempts
    <3>1. attempt[c] + 1 \in 0..MaxAttempts
      BY <2>1 DEF N!TypeOK
    <3>2. QED
      <4>1. /\ attempt' = [attempt EXCEPT ![c] = attempt[c] + 1]
            /\ pc' = pc
            /\ transport' = transport
        BY <1>2, <2>1 DEF N!TryAgain
      <4>2. QED
        BY <3>1, <4>1 DEF N!TypeOK
  <2>2. CASE ~(attempt[c] < MaxAttempts)
    <3>1. N!Skip(c)
      BY <1>2, <2>2 DEF N!TryAgain
    <3>2. QED
      BY <1>1, <3>1 DEF N!TypeOK, N!Busy, N!Ended
  <2>3. QED
    BY <2>1, <2>2
<1>3. CASE N!Skip(c)
  BY <1>1, <1>3 DEF N!TypeOK, N!Busy, N!Ended
<1>4. QED
  BY <1>2, <1>3

(* The steps of a delivery that leave the claims alone and end in none of  *)
(* the ends but a failure. *)
LEMMA TryingKeeps ==
  ASSUME MessagesInv, NEW c \in MessageCalls, pc[c] = "send",
         \/ pc' = pc
         \/ pc' = [pc EXCEPT ![c] = "failed"],
         sent' \in [MessageCalls -> Nat],
         \A d \in MessageCalls \ {c} : sent'[d] = sent[d],
         sent'[c] = sent[c] \/ c \in deaf',
         deaf \subseteq deaf', deaf' \subseteq deaf \cup {c},
         UNCHANGED <<distributed, transports, now, claim, urgent, replica, claimedAt, freed>>
  PROVE  ClaimsOK' /\ EndsOK' /\ HoldersOK'
<1> USE DEF MessagesInv
<1>1. /\ \A d \in MessageCalls : pc'[d] = pc[d] \/ (d = c /\ pc'[d] = "failed")
      /\ pc' \in [MessageCalls -> {"idle"} \cup N!Busy \cup N!Ended]
  BY DEF N!TypeOK, N!Busy, N!Ended
<1>2. \A d \in MessageCalls : Holding(d)' = Holding(d)
  BY <1>1 DEF Holding
<1>3. \A d \in MessageCalls : N!Store(d)' = N!Store(d)
  BY DEF N!Store
<1>4. ClaimsOK'
  BY <1>1, <1>3 DEF ClaimsOK, N!TypeOK
<1>5. EndsOK'
  BY <1>1, <1>3 DEF EndsOK, N!TypeOK
<1>6. HoldersOK'
  BY <1>2, <1>3 DEF HoldersOK, N!Together
<1>7. QED
  BY <1>4, <1>5, <1>6

(* Every step of a call, a crash, an eviction and the clock keep the       *)
(* invariant. *)
LEMMA MessagesStep ==
  ASSUME MessagesInv, N!Next
  PROVE  MessagesInv'
<1> USE ServicesAssumption
    DEF MessagesInv, N!Step, N!setting, N!call, N!history
<1>1. ASSUME NEW c \in MessageCalls, N!Claim(c) PROVE MessagesInv'
  <2> DEFINE s == N!Store(c)
  <2>1. /\ s \in Replicas \cup {Shared} /\ ~urgent[c] /\ now >= claim[s].until
        /\ claim' = [claim EXCEPT ![s] = [by |-> c, until |-> now + Window]]
        /\ claimedAt' = [claimedAt EXCEPT ![c] = now]
        /\ pc[c] = "idle" /\ pc'[c] \in {"send", "release"}
        /\ \A d \in MessageCalls \ {c} : pc'[d] = pc[d]
        /\ UNCHANGED <<distributed, now, urgent, replica, sent, freed, deaf>>
    BY <1>1, StoresAre DEF N!Claim, N!FirstStage, N!Claimed, N!TypeOK
  <2>2. N!TypeOK'
    BY <1>1, <2>1 DEF N!Claim, N!FirstStage, N!TypeOK, N!Busy, N!Ended
  <2>3. \A d \in MessageCalls : N!Store(d)' = N!Store(d)
    BY <2>1 DEF N!Store
  <2> HIDE DEF s
  <2>4. ClaimsOK'
    <3>1. \A t \in Replicas \cup {Shared} :
            \/ t = s /\ claim'[t] = [by |-> c, until |-> now + Window]
            \/ t # s /\ claim'[t] = claim[t]
      BY <2>1 DEF N!TypeOK
    <3>2. \A t \in Replicas \cup {Shared} : claim[t].by # c
      BY <2>1 DEF ClaimsOK
    <3>3. claimedAt'[c] = now /\ \A d \in MessageCalls \ {c} : claimedAt'[d] = claimedAt[d]
      BY <2>1 DEF N!TypeOK
    <3>4. ASSUME NEW t \in Replicas \cup {Shared}, NEW d \in MessageCalls, claim'[t].by = d
          PROVE  /\ t = N!Store(d) /\ ~urgent[d] /\ pc'[d] # "idle"
                 /\ claim'[t].until = claimedAt'[d] + Window
      <4>1. CASE t = s
        BY <2>1, <3>1, <3>3, <3>4, <4>1 DEF s
      <4>2. CASE t # s
        <5>1. claim'[t] = claim[t] /\ d # c
          BY <3>1, <3>2, <3>4, <4>2
        <5>2. QED
          BY <2>1, <3>3, <3>4, <5>1 DEF ClaimsOK
      <4>3. QED
        BY <4>1, <4>2
    <3>5. QED
      BY <2>1, <2>3, <3>4 DEF ClaimsOK
  <2>5. EndsOK'
    BY <2>1, <2>3, StoresAre DEF EndsOK, N!TypeOK
  <2>6. HoldersOK'
    <3> SUFFICES ASSUME ~freed, NEW d \in MessageCalls, Holding(d)'
                 PROVE  /\ \/ claimedAt'[d] + Window <= now
                           \/ claim'[N!Store(d)].by = d
                        /\ \A e \in MessageCalls : e # d /\ Holding(e)' /\ N!Together(d, e) =>
                             \/ claimedAt'[d] + Window <= claimedAt'[e]
                             \/ claimedAt'[e] + Window <= claimedAt'[d]
      BY <2>1, <2>3 DEF HoldersOK, N!Together
    <3>1. ASSUME NEW e \in MessageCalls, e # c, Holding(e)', N!Store(e) = s
          PROVE  claimedAt[e] + Window <= now
      <4>1. Holding(e)
        BY <2>1, <3>1 DEF Holding
      <4>2. CASE claim[s].by = e
        BY <2>1, <3>1, <4>2 DEF ClaimsOK, N!TypeOK
      <4>3. QED
        BY <3>1, <4>1, <4>2 DEF HoldersOK
    <3>2. \A e \in MessageCalls \ {c} :
            /\ claimedAt'[e] = claimedAt[e] /\ (Holding(e)' => Holding(e))
            /\ (N!Together(c, e) => N!Store(e) = s) /\ (N!Together(e, c) => N!Store(e) = s)
      BY <2>1, StoresAre DEF N!TypeOK, Holding, s
    <3>3. CASE d = c
      BY <2>1, <3>1, <3>2, <3>3 DEF N!TypeOK, s
    <3>4. CASE d # c
      <4>1. Holding(d) /\ claimedAt'[d] = claimedAt[d]
        BY <3>2, <3>4
      <4>2. claimedAt[d] + Window <= now \/ claim'[N!Store(d)].by = d
        <5>1. CASE N!Store(d) = s
          BY <3>1, <3>4, <5>1
        <5>2. CASE N!Store(d) # s
          BY <2>1, <4>1, <5>2, StoresAre DEF HoldersOK, N!TypeOK
        <5>3. QED
          BY <5>1, <5>2
      <4>3. ASSUME NEW e \in MessageCalls, e # d, Holding(e)', N!Together(d, e)
            PROVE  \/ claimedAt'[d] + Window <= claimedAt'[e]
                   \/ claimedAt'[e] + Window <= claimedAt'[d]
        <5>1. CASE e = c
          BY <2>1, <3>1, <3>2, <3>4, <4>3, <5>1 DEF N!TypeOK
        <5>2. CASE e # c
          BY <3>2, <4>1, <4>3, <5>2 DEF HoldersOK
        <5>3. QED
          BY <5>1, <5>2
      <4>4. QED
        BY <4>1, <4>2, <4>3
    <3>5. QED
      BY <3>3, <3>4
  <2>7. QED
    BY <2>2, <2>4, <2>5, <2>6
<1>2. ASSUME NEW c \in MessageCalls, N!Suppress(c) PROVE MessagesInv'
  <2>1. N!TypeOK'
    BY <1>2 DEF N!Suppress, N!TypeOK, N!Busy, N!Ended
  <2>2. ClaimsOK' /\ EndsOK' /\ HoldersOK'
    BY <1>2 DEF N!Suppress, N!TypeOK, ClaimsOK, EndsOK, HoldersOK, Holding, N!Store,
           N!Together
  <2>3. QED
    BY <2>1, <2>2
<1>3. ASSUME NEW c \in MessageCalls, N!SendUrgent(c) PROVE MessagesInv'
  <2>1. N!TypeOK'
    BY <1>3 DEF N!SendUrgent, N!FirstStage, N!TypeOK, N!Busy, N!Ended
  <2>2. ClaimsOK' /\ EndsOK' /\ HoldersOK'
    BY <1>3 DEF N!SendUrgent, N!FirstStage, N!TypeOK, ClaimsOK, EndsOK, HoldersOK,
           Holding,
                N!Store, N!Together
  <2>3. QED
    BY <2>1, <2>2
<1>4. ASSUME NEW c \in MessageCalls, N!Delivered(c) PROVE MessagesInv'
  <2>1. N!TypeOK'
    BY <1>4 DEF N!Delivered, N!StopTrying, N!TypeOK, N!Busy, N!Ended
  <2>2. ClaimsOK' /\ EndsOK' /\ HoldersOK'
    BY <1>4 DEF N!Delivered, N!TypeOK, ClaimsOK, EndsOK, HoldersOK, Holding, N!Store,
           N!Together
  <2>3. QED
    BY <2>1, <2>2
<1>5. ASSUME NEW c \in MessageCalls, N!DeliveredUnheard(c) PROVE MessagesInv'
  <2>1. N!TypeOK'
    BY <1>5, TriesTyped DEF N!DeliveredUnheard, N!TypeOK
  <2>2. ClaimsOK' /\ EndsOK' /\ HoldersOK'
    BY <1>5, <2>1, TriesTyped, TryingKeeps DEF N!DeliveredUnheard, N!TypeOK
  <2>3. QED
    BY <2>1, <2>2
<1>6. ASSUME NEW c \in MessageCalls, N!NotDelivered(c) PROVE MessagesInv'
  <2>1. N!TypeOK'
    BY <1>6, TriesTyped DEF N!NotDelivered, N!TypeOK
  <2>2. ClaimsOK' /\ EndsOK' /\ HoldersOK'
    BY <1>6, <2>1, TriesTyped, TryingKeeps DEF N!NotDelivered, N!TypeOK
  <2>3. QED
    BY <2>1, <2>2
<1>7. ASSUME NEW c \in MessageCalls, N!NeverDelivered(c) PROVE MessagesInv'
  <2>1. N!TypeOK'
    BY <1>7, TriesTyped DEF N!NeverDelivered, N!TypeOK
  <2>2. ClaimsOK' /\ EndsOK' /\ HoldersOK'
    BY <1>7, <2>1, TriesTyped, TryingKeeps DEF N!NeverDelivered, N!TypeOK
  <2>3. QED
    BY <2>1, <2>2
<1>8. ASSUME NEW c \in MessageCalls, N!NotifyFailed(c) PROVE MessagesInv'
  <2>1. N!TypeOK'
    BY <1>8 DEF N!NotifyFailed, N!TypeOK, N!Busy, N!Ended
  <2>2. ClaimsOK' /\ EndsOK' /\ HoldersOK'
    BY <1>8 DEF N!NotifyFailed, N!TypeOK, ClaimsOK, EndsOK, HoldersOK, Holding, N!Store,
                N!Together
  <2>3. QED
    BY <2>1, <2>2
<1>9. ASSUME NEW c \in MessageCalls, N!NotifyFailedUnheard(c) PROVE MessagesInv'
  <2>1. N!TypeOK'
    BY <1>9 DEF N!NotifyFailedUnheard, N!TypeOK, N!Busy, N!Ended
  <2>2. ClaimsOK' /\ EndsOK' /\ HoldersOK'
    BY <1>9 DEF N!NotifyFailedUnheard, N!TypeOK, ClaimsOK, EndsOK, HoldersOK, Holding,
           N!Store,
                N!Together
  <2>3. QED
    BY <2>1, <2>2
<1>10. ASSUME NEW c \in MessageCalls, N!Release(c) PROVE MessagesInv'
  <2>1. N!TypeOK'
    <3>1. /\ pc' \in [MessageCalls -> {"idle"} \cup N!Busy \cup N!Ended]
          /\ freed' \in BOOLEAN
      BY <1>10 DEF N!Release, N!TypeOK, N!Ended
    <3>2. claim' \in [Replicas \cup {Shared} -> [by: MessageCalls \cup {NoCall}, until: Nat]]
      <4>1. N!Unclaimed \in [by: MessageCalls \cup {NoCall}, until: Nat]
        BY DEF N!Unclaimed
      <4>2. QED
        BY <1>10, <4>1, StoresAre DEF N!Release, N!TypeOK
    <3>3. QED
      BY <1>10, <3>1, <3>2 DEF N!Release, N!TypeOK
  <2>2. CASE urgent[c]
    BY <1>10, <2>1, <2>2
       DEF N!Release, N!TypeOK, ClaimsOK, EndsOK, HoldersOK, Holding, N!Store, N!Together
  <2>3. CASE ~urgent[c]
    <3> DEFINE s == N!Store(c)
    <3>1. /\ s \in Replicas \cup {Shared}
          /\ claim' = [claim EXCEPT ![s] = N!Unclaimed]
          /\ freed' = (freed \/ claim[s].by \notin {c, NoCall})
          /\ pc[c] = "release" /\ pc' = [pc EXCEPT ![c] = "undelivered"]
          /\ UNCHANGED <<distributed, now, urgent, replica, claimedAt, sent, deaf>>
      BY <1>10, <2>3, StoresAre DEF N!Release
    <3>2. \A d \in MessageCalls : N!Store(d)' = N!Store(d)
      BY <3>1 DEF N!Store
    <3> HIDE DEF s
    <3>3. \A t \in Replicas \cup {Shared} :
            \/ t = s /\ claim'[t].by = NoCall
            \/ t # s /\ claim'[t] = claim[t]
      BY <3>1 DEF N!TypeOK, N!Unclaimed
    <3>4. \A d \in MessageCalls : pc'[d] = IF d = c THEN "undelivered" ELSE pc[d]
      BY <3>1 DEF N!TypeOK
    <3>5. ClaimsOK'
      <4>1. ASSUME NEW t \in Replicas \cup {Shared}, NEW d \in MessageCalls,
                   claim'[t].by = d
            PROVE  claim'[t] = claim[t]
        BY <3>3, <4>1
      <4>2. QED
        BY <3>1, <3>2, <3>4, <4>1 DEF ClaimsOK
    <3>6. EndsOK'
      BY <3>1, <3>2, <3>3, <3>4, StoresAre DEF EndsOK, N!TypeOK, s
    <3>7. HoldersOK'
      <4>1. \A d \in MessageCalls : Holding(d)' => Holding(d) /\ d # c
        BY <3>1, <3>4 DEF Holding
      <4>2. ASSUME ~freed', NEW d \in MessageCalls, Holding(d)'
            PROVE  claimedAt[d] + Window <= now \/ claim'[N!Store(d)].by = d
        BY <3>1, <3>3, <4>1, <4>2, StoresAre DEF HoldersOK, N!TypeOK
      <4>3. QED
        BY <3>1, <3>2, <4>1, <4>2 DEF HoldersOK, N!Together
    <3>8. QED
      BY <2>1, <3>5, <3>6, <3>7
  <2>4. QED
    BY <2>2, <2>3
<1>11. ASSUME NEW r \in Replicas, N!Crash(r) PROVE MessagesInv'
  <2>1. N!TypeOK'
    BY <1>11 DEF N!Crash, N!TypeOK, N!Busy, N!Ended, N!Unclaimed
  <2>2. /\ \A d \in MessageCalls : pc'[d] = pc[d] \/ (pc'[d] = "crashed" /\ pc[d] \in N!Busy)
        /\ claim'[r].by = NoCall
        /\ \A t \in (Replicas \cup {Shared}) \ {r} : claim'[t] = claim[t]
        /\ freed' = (freed \/ ~distributed)
        /\ UNCHANGED <<distributed, now, urgent, replica, claimedAt, sent, deaf>>
    <3>1. \A d \in MessageCalls : pc'[d] = pc[d] \/ (pc'[d] = "crashed" /\ pc[d] \in N!Busy)
      BY <1>11 DEF N!Crash
    <3>2. /\ claim'[r].by = NoCall
          /\ \A t \in (Replicas \cup {Shared}) \ {r} : claim'[t] = claim[t]
      BY <1>11 DEF N!Crash, N!TypeOK, N!Unclaimed
    <3>3. QED
      BY <1>11, <3>1, <3>2 DEF N!Crash
  <2>3. \A d \in MessageCalls : N!Store(d)' = N!Store(d)
    BY <2>2 DEF N!Store
  <2>4. ClaimsOK'
    <3>1. ASSUME NEW t \in Replicas \cup {Shared}, NEW d \in MessageCalls, claim'[t].by = d
          PROVE  claim'[t] = claim[t]
      BY <2>2, <3>1
    <3>2. \A d \in MessageCalls : pc[d] # "idle" => pc'[d] # "idle"
      BY <2>2
    <3>3. QED
      BY <2>2, <2>3, <3>1, <3>2 DEF ClaimsOK
  <2>5. EndsOK'
    <3>1. \A d \in MessageCalls :
            claim'[N!Store(d)].by = claim[N!Store(d)].by \/ claim'[N!Store(d)].by # d
      BY <2>2, StoresAre
    <3>2. QED
      BY <2>2, <2>3, <3>1 DEF EndsOK, N!Busy
  <2>6. HoldersOK'
    <3>1. CASE freed'
      BY <3>1 DEF HoldersOK
    <3>2. CASE ~freed'
      <4>1. \A d \in MessageCalls : Holding(d)' => Holding(d)
        BY <2>2 DEF Holding
      <4>2. \A d \in MessageCalls : claim'[N!Store(d)] = claim[N!Store(d)]
        BY <2>2, <3>2 DEF N!Store
      <4>3. QED
        BY <2>2, <2>3, <3>2, <4>1, <4>2 DEF HoldersOK, N!Together
    <3>3. QED
      BY <3>1, <3>2
  <2>7. QED
    BY <2>1, <2>4, <2>5, <2>6
<1>12. CASE N!Evict
  <2>1. N!TypeOK'
    BY <1>12 DEF N!Evict, N!TypeOK, N!Unclaimed
  <2>2. ClaimsOK' /\ EndsOK' /\ HoldersOK'
    BY <1>12 DEF N!Evict, N!TypeOK, N!Unclaimed, ClaimsOK, EndsOK, HoldersOK, N!Store
  <2>3. QED
    BY <2>1, <2>2
<1>13. CASE N!Tick
  <2>1. N!TypeOK'
    BY <1>13 DEF N!Tick, N!TypeOK
  <2>2. ClaimsOK' /\ EndsOK' /\ HoldersOK'
    BY <1>13 DEF N!Tick, N!TypeOK, ClaimsOK, EndsOK, HoldersOK, Holding, N!Store,
           N!Together
  <2>3. QED
    BY <2>1, <2>2
<1>14. QED
  BY <1>1, <1>2, <1>3, <1>4, <1>5, <1>6, <1>7, <1>8, <1>9, <1>10, <1>11, <1>12, <1>13
     DEF N!Next, N!Progress

(* The steps of MCServices that are steps of Notifications. *)
LEMMA MessagesMoves == MessagesNext => part' = part /\ part = "messages" /\ N!Next
BY DEF MessagesNext, InMessages, N!Next, N!Progress

(* What is left alone keeps the invariant. *)
LEMMA MessagesRest ==
  ASSUME MessagesInv, UNCHANGED <<pc, now, ofMessages>>
  PROVE  MessagesInv'
BY DEF MessagesInv, N!TypeOK, ClaimsOK, EndsOK, HoldersOK, Holding, N!Store, N!Together,
       ofMessages

-----------------------------------------------------------------------------
(* BatchingSink *)

Batched == UNION {B!ToSet(batch[c]) : c \in SinkCalls}

Mirrored == B!ToSet(mirror)

(* What the sink may have in its buffer, when it was given g records: new  *)
(* ones, in order, and with the others all that did not fail.              *)
BufferOK(b, g) ==
  /\ b \in Seq(B!Records) /\ g \in 0..MaxRecords
  /\ B!Increasing(b)
  /\ B!ToSet(b) \subseteq 1..g /\ B!ToSet(b) \cap (Batched \cup Mirrored) = {}
  /\ 1..g \subseteq B!ToSet(b) \cup Batched \cup Mirrored \cup failed
  /\ overlapped \/ \A x \in Batched \cup Mirrored, y \in B!ToSet(b) : x < y

(* What the batches and the mirror have, of g records. *)
BatchesOK(g) ==
  /\ B!IsInjective(mirror) /\ Mirrored \subseteq 1..g
  /\ \A c \in SinkCalls :
       /\ B!Increasing(batch[c])
       /\ B!ToSet(batch[c]) \subseteq 1..g /\ B!ToSet(batch[c]) \cap Mirrored = {}
       /\ batch[c] # <<>> => pc[c] = "writing"
  /\ \A c, d \in SinkCalls : c # d => B!ToSet(batch[c]) \cap B!ToSet(batch[d]) = {}

(* Until two batches are written at once, one call writes, and in order. *)
OrderOK ==
  overlapped \/
    /\ \A c, d \in SinkCalls : pc[c] = "writing" /\ pc[d] = "writing" => c = d
    /\ B!Increasing(mirror)
    /\ \A c \in SinkCalls : \A x \in Mirrored, y \in B!ToSet(batch[c]) : x < y

MirrorInv == B!TypeOK /\ BufferOK(buffer, given) /\ BatchesOK(given) /\ OrderOK

(* The elements and the order of a sequence of numbers: of none, *)
LEMMA NoneOfNone ==
  B!ToSet(<<>>) = {} /\ B!Increasing(<<>>) /\ B!IsInjective(<<>>)
BY DEF B!ToSet, B!Increasing, B!IsInjective

(* with one more, *)
LEMMA OneMore ==
  ASSUME NEW S \in SUBSET Nat, NEW s \in Seq(S), NEW e \in S
  PROVE  /\ Append(s, e) \in Seq(S)
         /\ B!ToSet(Append(s, e)) = B!ToSet(s) \cup {e}
         /\ B!Increasing(s) /\ (\A x \in B!ToSet(s) : x < e) => B!Increasing(Append(s, e))
         /\ B!IsInjective(s) /\ e \notin B!ToSet(s) => B!IsInjective(Append(s, e))
<1> DEFINE t == Append(s, e)
<1>1. /\ t \in Seq(S) /\ Len(t) = Len(s) + 1 /\ Len(s) \in Nat
      /\ DOMAIN s = 1..Len(s) /\ DOMAIN t = 1..(Len(s) + 1)
      /\ t[Len(s) + 1] = e /\ \A i \in 1..Len(s) : t[i] = s[i] /\ s[i] \in S
  OBVIOUS
<1> HIDE DEF t
<1>2. B!ToSet(t) = B!ToSet(s) \cup {e}
  BY <1>1 DEF B!ToSet
<1>3. ASSUME B!Increasing(s), \A x \in B!ToSet(s) : x < e PROVE B!Increasing(t)
  <2> SUFFICES ASSUME NEW i \in 1..Len(t), NEW j \in 1..Len(t), i < j PROVE t[i] < t[j]
    BY DEF B!Increasing
  <2>1. i \in 1..Len(s) /\ t[i] = s[i] /\ s[i] \in B!ToSet(s)
    BY <1>1 DEF B!ToSet
  <2>2. CASE j \in 1..Len(s)
    BY <1>1, <1>3, <2>1, <2>2 DEF B!Increasing
  <2>3. CASE j = Len(s) + 1
    BY <1>1, <1>3, <2>1, <2>3
  <2>4. QED
    BY <1>1, <2>2, <2>3
<1>4. ASSUME B!IsInjective(s), e \notin B!ToSet(s) PROVE B!IsInjective(t)
  <2> SUFFICES ASSUME NEW i \in 1..Len(t), NEW j \in 1..Len(t), t[i] = t[j] PROVE i = j
    BY <1>1 DEF B!IsInjective
  <2>1. \A k \in 1..Len(t) : (k \in 1..Len(s) /\ t[k] = s[k] /\ s[k] # e) \/ (k = Len(s) + 1)
    BY <1>1, <1>4 DEF B!ToSet
  <2>2. QED
    BY <1>1, <1>4, <2>1 DEF B!IsInjective
<1>5. QED
  BY <1>1, <1>2, <1>3, <1>4 DEF t

(* and without the first. *)
LEMMA OneLess ==
  ASSUME NEW S \in SUBSET Nat, NEW s \in Seq(S), s # <<>>, B!Increasing(s)
  PROVE  /\ Head(s) \in S /\ Tail(s) \in Seq(S)
         /\ B!ToSet(s) = {Head(s)} \cup B!ToSet(Tail(s))
         /\ B!Increasing(Tail(s))
         /\ \A x \in B!ToSet(Tail(s)) : Head(s) < x
<1> DEFINE t == Tail(s)
<1>1. /\ t \in Seq(S) /\ Len(s) \in Nat \ {0} /\ Len(t) = Len(s) - 1 /\ Head(s) = s[1]
      /\ DOMAIN s = 1..Len(s) /\ DOMAIN t = 1..(Len(s) - 1)
      /\ \A i \in 1..(Len(s) - 1) : t[i] = s[i + 1]
      /\ \A i \in 1..Len(s) : s[i] \in S
  OBVIOUS
<1> HIDE DEF t
<1>2. B!ToSet(s) = {Head(s)} \cup B!ToSet(t)
  <2>1. \A i \in 1..Len(s) : i = 1 \/ (i - 1 \in 1..(Len(s) - 1) /\ s[i] = t[i - 1])
    BY <1>1
  <2>2. ASSUME NEW x \in B!ToSet(s) PROVE x = Head(s) \/ x \in B!ToSet(t)
    <3>1. PICK i \in 1..Len(s) : x = s[i]
      BY <1>1 DEF B!ToSet
    <3>2. CASE i = 1
      BY <1>1, <3>1, <3>2
    <3>3. CASE i # 1
      <4>1. i - 1 \in DOMAIN t /\ x = t[i - 1]
        BY <1>1, <2>1, <3>1, <3>3
      <4>2. QED
        BY <4>1 DEF B!ToSet
    <3>4. QED
      BY <3>2, <3>3
  <2>3. {Head(s)} \cup B!ToSet(t) \subseteq B!ToSet(s)
    BY <1>1 DEF B!ToSet
  <2>4. QED
    BY <2>2, <2>3
<1>3. B!Increasing(t)
  BY <1>1 DEF B!Increasing
<1>4. \A x \in B!ToSet(t) : Head(s) < x
  BY <1>1 DEF B!Increasing, B!ToSet
<1>5. QED
  BY <1>1, <1>2, <1>3, <1>4 DEF t

(* The sink starts empty. *)
LEMMA MirrorStart == B!Init => MirrorInv
<1> SUFFICES ASSUME B!Init PROVE MirrorInv
  OBVIOUS
<1>1. /\ buffer = <<>> /\ mirror = <<>> /\ given = 0 /\ failed = {} /\ overlapped = FALSE
      /\ \A c \in SinkCalls : batch[c] = <<>> /\ pc[c] = "idle"
  BY DEF B!Init
<1>2. B!TypeOK
  <2>1. <<>> \in Seq(B!Records) /\ given \in 0..MaxRecords
    BY <1>1, ServicesAssumption
  <2>2. QED
    BY <2>1 DEF B!Init, B!TypeOK
<1>3. Batched = {} /\ Mirrored = {}
  BY <1>1, NoneOfNone DEF Batched, Mirrored
<1>4. BufferOK(buffer, given)
  BY <1>1, <1>3, NoneOfNone, ServicesAssumption DEF BufferOK
<1>5. BatchesOK(given) /\ OrderOK
  BY <1>1, <1>3, NoneOfNone DEF BatchesOK, OrderOK
<1>6. QED
  BY <1>2, <1>4, <1>5 DEF MirrorInv

(* The records given so far are numbers, wherever they are. *)
LEMMA RecordsAre ==
  ASSUME MirrorInv
  PROVE  /\ given \in Nat /\ given <= MaxRecords /\ B!Records \in SUBSET Nat
         /\ B!ToSet(buffer) \cup Batched \cup Mirrored \subseteq 1..given
<1>1. given \in Nat /\ given <= MaxRecords /\ B!Records \in SUBSET Nat
  BY ServicesAssumption DEF MirrorInv, B!TypeOK, B!Records
<1>2. B!ToSet(buffer) \cup Batched \cup Mirrored \subseteq 1..given
  BY DEF MirrorInv, BufferOK, BatchesOK, Batched
<1>3. QED
  BY <1>1, <1>2

(* One more record goes into the buffer. *)
LEMMA GivenOne ==
  ASSUME MirrorInv, given < MaxRecords
  PROVE  BufferOK(Append(buffer, given + 1), given + 1) /\ BatchesOK(given + 1)
<1> DEFINE r == given + 1
           b == Append(buffer, r)
<1>1. /\ r \in B!Records /\ r \in 0..MaxRecords /\ 1..r = (1..given) \cup {r}
      /\ r \in Nat /\ \A x \in 1..given : x \in Nat /\ x < r
  BY RecordsAre, ServicesAssumption DEF B!Records
<1> HIDE DEF r
<1>2. \A x \in B!ToSet(buffer) \cup Batched \cup Mirrored : x \in Nat /\ x < r
  BY <1>1, RecordsAre
<1>3. buffer \in Seq(B!Records) /\ B!Increasing(buffer)
  BY DEF MirrorInv, BufferOK
<1>4. b \in Seq(B!Records) /\ B!Increasing(b) /\ B!ToSet(b) = B!ToSet(buffer) \cup {r}
  BY <1>1, <1>2, <1>3, OneMore, RecordsAre
<1> HIDE DEF b
<1>5. B!ToSet(b) \subseteq 1..r /\ B!ToSet(b) \cap (Batched \cup Mirrored) = {}
  BY <1>1, <1>2, <1>4, RecordsAre DEF MirrorInv, BufferOK
<1>6. 1..r \subseteq B!ToSet(b) \cup Batched \cup Mirrored \cup failed
  BY <1>1, <1>4 DEF MirrorInv, BufferOK
<1>7. overlapped \/ \A x \in Batched \cup Mirrored, y \in B!ToSet(b) : x < y
  BY <1>2, <1>4 DEF MirrorInv, BufferOK
<1>8. BufferOK(b, r)
  BY <1>1, <1>4, <1>5, <1>6, <1>7 DEF BufferOK
<1>9. BatchesOK(r)
  BY <1>1 DEF MirrorInv, BatchesOK
<1>10. QED
  BY <1>8, <1>9 DEF b, r

(* A batch is taken by a call that had none. *)
LEMMA Taken ==
  ASSUME MirrorInv, NEW c \in SinkCalls, pc[c] = "idle",
         NEW b, BufferOK(b, given'), BatchesOK(given'), B!Take(c, b),
         UNCHANGED <<mirror, failed>>
  PROVE  MirrorInv'
<1>1. /\ b \in Seq(B!Records) /\ given' \in 0..MaxRecords /\ buffer' = <<>>
      /\ batch[c] = <<>> /\ mirror' = mirror /\ failed' = failed
      /\ batch' = [batch EXCEPT ![c] = b] /\ pc' = [pc EXCEPT ![c] = "writing"]
      /\ overlapped' = (overlapped \/ \E d \in SinkCalls : pc[d] = "writing")
      /\ pc \in [SinkCalls -> {"idle", "writing"}]
  BY DEF BufferOK, BatchesOK, B!Take, MirrorInv, B!TypeOK
<1>2. /\ batch'[c] = b /\ pc'[c] = "writing"
      /\ \A d \in SinkCalls \ {c} : batch'[d] = batch[d] /\ pc'[d] = pc[d]
  BY <1>1 DEF MirrorInv, B!TypeOK
<1>3. B!TypeOK'
  BY <1>1 DEF MirrorInv, B!TypeOK, B!Take
<1>4. Mirrored' = Mirrored /\ Batched' = Batched \cup B!ToSet(b)
  <2>1. \A d \in SinkCalls :
          B!ToSet(batch'[d]) = IF d = c THEN B!ToSet(b) ELSE B!ToSet(batch[d])
    BY <1>2
  <2>2. B!ToSet(batch[c]) = {}
    BY <1>1, NoneOfNone
  <2>3. QED
    BY <1>1, <2>1, <2>2 DEF Batched, Mirrored
<1>5. BufferOK(buffer, given)'
  BY <1>1, <1>4, NoneOfNone DEF BufferOK
<1>6. BatchesOK(given)'
  <2>1. B!ToSet(b) \cap Mirrored = {} /\ B!ToSet(b) \subseteq 1..given' /\ B!Increasing(b)
    BY DEF BufferOK
  <2>2. \A d \in SinkCalls : B!ToSet(batch[d]) \cap B!ToSet(b) = {}
    BY DEF BufferOK, Batched
  <2>3. QED
    <3>1. B!IsInjective(mirror)' /\ Mirrored' \subseteq 1..given'
      BY <1>1, <1>4 DEF BatchesOK, B!IsInjective
    <3>2. ASSUME NEW d \in SinkCalls
          PROVE  /\ B!Increasing(batch'[d]) /\ B!ToSet(batch'[d]) \subseteq 1..given'
                 /\ B!ToSet(batch'[d]) \cap Mirrored = {}
                 /\ batch'[d] # <<>> => pc'[d] = "writing"
      BY <1>2, <2>1 DEF BatchesOK
    <3>3. ASSUME NEW d \in SinkCalls, NEW e \in SinkCalls, d # e
          PROVE  B!ToSet(batch'[d]) \cap B!ToSet(batch'[e]) = {}
      <4>1. CASE d # c /\ e # c
        BY <1>2, <3>3, <4>1 DEF BatchesOK
      <4>2. CASE d = c
        BY <1>2, <2>2, <3>3, <4>2
      <4>3. CASE e = c
        BY <1>2, <2>2, <3>3, <4>3
      <4>4. QED
        BY <4>1, <4>2, <4>3
    <3>4. QED
      BY <1>4, <3>1, <3>2, <3>3 DEF BatchesOK
<1>7. OrderOK'
  <2> SUFFICES ASSUME ~overlapped, \A d \in SinkCalls : pc[d] # "writing"
               PROVE  OrderOK'
    BY <1>1 DEF OrderOK
  <2>1. \A d, e \in SinkCalls : pc'[d] = "writing" /\ pc'[e] = "writing" => d = e
    BY <1>2
  <2>2. B!Increasing(mirror)'
    BY <1>1 DEF MirrorInv, OrderOK, B!Increasing
  <2>3. \A d \in SinkCalls : \A x \in Mirrored, y \in B!ToSet(batch'[d]) : x < y
    BY <1>2 DEF BufferOK, MirrorInv, OrderOK
  <2>4. QED
    BY <1>4, <2>1, <2>2, <2>3 DEF OrderOK
<1>8. QED
  BY <1>3, <1>5, <1>6, <1>7 DEF MirrorInv

(* A batch loses its first record, and the mirror may get it. *)
LEMMA Handed ==
  ASSUME MirrorInv, NEW c \in SinkCalls, batch[c] # <<>>
  PROVE  LET h == Head(batch[c])
             t == Tail(batch[c])
             m == Append(mirror, h)
         IN  /\ h \in Nat /\ h \in 1..given /\ m \in Seq(B!Records) /\ t \in Seq(B!Records)
             /\ B!ToSet(batch[c]) = {h} \cup B!ToSet(t) /\ B!Increasing(t)
             /\ \A x \in B!ToSet(t) : h < x
             /\ B!ToSet(m) = Mirrored \cup {h} /\ B!IsInjective(m)
             /\ overlapped \/ B!Increasing(m)
<1> DEFINE h == Head(batch[c])
           t == Tail(batch[c])
           m == Append(mirror, h)
<1>1. batch[c] \in Seq(B!Records) /\ B!Increasing(batch[c]) /\ mirror \in Seq(B!Records)
  BY DEF MirrorInv, B!TypeOK, BatchesOK
<1>2. /\ h \in B!Records /\ t \in Seq(B!Records)
      /\ B!ToSet(batch[c]) = {h} \cup B!ToSet(t) /\ B!Increasing(t)
      /\ \A x \in B!ToSet(t) : h < x
  BY <1>1, OneLess, RecordsAre
<1> HIDE DEF h, t
<1>3. /\ h \in Nat /\ h \in 1..given /\ h \notin Mirrored
      /\ overlapped \/ \A x \in Mirrored : x < h
  BY <1>2, RecordsAre DEF MirrorInv, BatchesOK, OrderOK
<1>4. /\ m \in Seq(B!Records) /\ B!ToSet(m) = Mirrored \cup {h} /\ B!IsInjective(m)
      /\ overlapped \/ B!Increasing(m)
  <2>1. B!IsInjective(mirror) /\ (overlapped \/ B!Increasing(mirror))
    BY DEF MirrorInv, BatchesOK, OrderOK
  <2>2. /\ m \in Seq(B!Records) /\ B!ToSet(m) = Mirrored \cup {h}
        /\ B!Increasing(mirror) /\ (\A x \in Mirrored : x < h) => B!Increasing(m)
        /\ B!IsInjective(mirror) /\ h \notin Mirrored => B!IsInjective(m)
    BY <1>1, <1>2, OneMore, RecordsAre DEF Mirrored
  <2>3. QED
    BY <1>3, <2>1, <2>2
<1>5. QED
  BY <1>2, <1>3, <1>4 DEF h, t

(* Every write, flush and failure keeps the invariant. *)
LEMMA MirrorStep ==
  ASSUME MirrorInv, B!Next
  PROVE  MirrorInv'
<1> USE RecordsAre
<1>1. ASSUME NEW c \in SinkCalls, B!Write(c) PROVE MirrorInv'
  <2> DEFINE b == Append(buffer, given + 1)
  <2>1. /\ pc[c] = "idle" /\ given < MaxRecords /\ given' = given + 1
        /\ mirror' = mirror /\ failed' = failed
        /\ \/ B!Take(c, b)
           \/ buffer' = b /\ UNCHANGED <<batch, pc, overlapped>>
    BY <1>1 DEF B!Write
  <2>2. BufferOK(b, given') /\ BatchesOK(given')
    BY <2>1, GivenOne
  <2> HIDE DEF b
  <2>3. CASE B!Take(c, b)
    BY <2>1, <2>2, <2>3, Taken
  <2>4. CASE buffer' = b /\ UNCHANGED <<batch, pc, overlapped>>
    <3>1. B!TypeOK'
      BY <2>1, <2>2, <2>4 DEF BufferOK, MirrorInv, B!TypeOK
    <3>2. BufferOK(buffer, given)'
      <4>1. Batched' = Batched /\ Mirrored' = Mirrored
        BY <2>1, <2>4 DEF Batched, Mirrored
      <4>2. \A x \in B!ToSet(b) : x \in B!ToSet(buffer')
        BY <2>4
      <4>3. QED
        BY <2>1, <2>2, <2>4, <4>1, <4>2 DEF BufferOK, B!Increasing
    <3>3. BatchesOK(given)'
      BY <2>1, <2>2, <2>4 DEF BatchesOK, Mirrored, B!IsInjective
    <3>4. OrderOK'
      BY <2>1, <2>4 DEF MirrorInv, OrderOK, Mirrored, B!Increasing
    <3>5. QED
      BY <3>1, <3>2, <3>3, <3>4 DEF MirrorInv
  <2>5. QED
    BY <2>1, <2>3, <2>4
<1>2. ASSUME NEW c \in SinkCalls, B!Flush(c) PROVE MirrorInv'
  <2>1. /\ pc[c] = "idle" /\ given' = given /\ mirror' = mirror /\ failed' = failed
        /\ B!Take(c, buffer)
    BY <1>2 DEF B!Flush
  <2>2. BufferOK(buffer, given') /\ BatchesOK(given')
    BY <2>1 DEF MirrorInv
  <2>3. PICK b : b = buffer
    OBVIOUS
  <2>4. QED
    BY <2>1, <2>2, <2>3, Taken
<1>3. ASSUME NEW c \in SinkCalls, batch[c] # <<>>,
             UNCHANGED <<buffer, given, overlapped>>,
             mirror' \in {mirror, Append(mirror, Head(batch[c]))},
             \/ /\ mirror' = Append(mirror, Head(batch[c]))
                /\ batch' = [batch EXCEPT ![c] = Tail(@)]
                /\ UNCHANGED <<pc, failed>>
             \/ /\ failed' = failed \cup B!ToSet(batch[c])
                /\ batch' = [batch EXCEPT ![c] = <<>>]
                /\ pc' = [pc EXCEPT ![c] = "idle"]
      PROVE  MirrorInv'
  <2> DEFINE h == Head(batch[c])
             t == Tail(batch[c])
             m == Append(mirror, h)
  <2>1. /\ h \in Nat /\ h \in 1..given /\ m \in Seq(B!Records) /\ t \in Seq(B!Records)
        /\ B!ToSet(batch[c]) = {h} \cup B!ToSet(t) /\ B!Increasing(t)
        /\ \A x \in B!ToSet(t) : h < x
        /\ B!ToSet(m) = Mirrored \cup {h} /\ B!IsInjective(m)
        /\ overlapped \/ B!Increasing(m)
    BY <1>3, Handed
  <2>2. PICK u : /\ batch' = [batch EXCEPT ![c] = u]
                 /\ \/ u = t /\ pc' = pc /\ failed' = failed /\ mirror' = m
                    \/ /\ u = <<>> /\ pc' = [pc EXCEPT ![c] = "idle"]
                       /\ failed' = failed \cup B!ToSet(batch[c])
    BY <1>3
  <2> HIDE DEF h, t, m
  <2>3. /\ u \in Seq(B!Records) /\ B!ToSet(u) \subseteq B!ToSet(batch[c]) \ {h}
        /\ B!Increasing(u)
        /\ B!ToSet(batch[c]) \subseteq B!ToSet(u) \cup {h} \cup failed'
        /\ failed \subseteq failed' /\ failed' \subseteq failed \cup B!ToSet(batch[c])
        /\ h \in failed' \/ mirror' = m
    <3>1. CASE u = t /\ failed' = failed /\ mirror' = m
      BY <2>1, <3>1
    <3>2. CASE u = <<>> /\ failed' = failed \cup B!ToSet(batch[c])
      BY <2>1, <3>2, NoneOfNone
    <3>3. QED
      BY <2>2, <3>1, <3>2
  <2>4. /\ batch'[c] = u /\ \A d \in SinkCalls \ {c} : batch'[d] = batch[d]
        /\ \A d \in SinkCalls : pc'[d] = pc[d] \/ (d = c /\ u = <<>> /\ pc'[d] = "idle")
    BY <2>2 DEF MirrorInv, B!TypeOK
  <2>5. /\ Mirrored' = B!ToSet(mirror')
        /\ Mirrored \subseteq Mirrored' /\ Mirrored' \subseteq Mirrored \cup {h}
        /\ B!IsInjective(mirror') /\ mirror' \in Seq(B!Records)
        /\ overlapped \/ B!Increasing(mirror')
        /\ h \in Mirrored' \cup failed'
    BY <1>3, <2>1, <2>3 DEF Mirrored, MirrorInv, BatchesOK, OrderOK, B!TypeOK, h, m
  <2>6. /\ Batched' \subseteq Batched /\ h \in Batched /\ h \notin Batched'
        /\ Batched \subseteq Batched' \cup {h} \cup failed'
    <3>1. \A d \in SinkCalls : B!ToSet(batch'[d]) \subseteq B!ToSet(batch[d])
      BY <2>3, <2>4
    <3>2. \A d \in SinkCalls : h \notin B!ToSet(batch'[d])
      BY <2>1, <2>3, <2>4 DEF MirrorInv, BatchesOK
    <3>3. \A d \in SinkCalls :
            B!ToSet(batch[d]) \subseteq B!ToSet(batch'[d]) \cup {h} \cup failed'
      BY <2>3, <2>4
    <3>4. QED
      <4>1. Batched' \subseteq Batched /\ h \notin Batched'
        BY <3>1, <3>2 DEF Batched
      <4>2. h \in Batched
        BY <2>1 DEF Batched
      <4>3. ASSUME NEW x \in Batched PROVE x \in Batched' \cup {h} \cup failed'
        <5>1. PICK d \in SinkCalls : x \in B!ToSet(batch[d])
          BY DEF Batched
        <5>2. QED
          BY <3>3, <5>1 DEF Batched
      <4>4. QED
        BY <4>1, <4>2, <4>3
  <2>7. B!TypeOK'
    <3>1. B!ToSet(batch[c]) \subseteq B!Records
      <4>1. B!ToSet(batch[c]) \subseteq 1..given /\ given \in Nat /\ given <= MaxRecords
        BY DEF MirrorInv, BatchesOK
      <4>2. 1..given \subseteq 1..MaxRecords
        BY <4>1, ServicesAssumption
      <4>3. QED
        BY <4>1, <4>2 DEF B!Records
    <3>2. QED
      BY <1>3, <2>2, <2>3, <2>5, <3>1 DEF MirrorInv, B!TypeOK
  <2>8. BufferOK(buffer, given)'
    <3>1. BufferOK(buffer, given) /\ B!ToSet(buffer') = B!ToSet(buffer)
      BY <1>3 DEF MirrorInv
    <3>2. QED
      BY <1>3, <2>3, <2>5, <2>6, <3>1 DEF BufferOK, B!Increasing
  <2>9. BatchesOK(given)'
    <3>1. BatchesOK(given)
      BY DEF MirrorInv
    <3>2. Mirrored' \subseteq 1..given'
      BY <1>3, <2>1, <2>5, <3>1 DEF BatchesOK
    <3>3. ASSUME NEW d \in SinkCalls
          PROVE  /\ B!Increasing(batch'[d]) /\ B!ToSet(batch'[d]) \subseteq 1..given'
                 /\ B!ToSet(batch'[d]) \cap Mirrored' = {}
                 /\ batch'[d] # <<>> => pc'[d] = "writing"
      <4>1. h \notin B!ToSet(batch'[d])
        BY <2>6 DEF Batched
      <4>2. CASE d = c
        BY <1>3, <2>3, <2>4, <2>5, <3>1, <4>1, <4>2 DEF BatchesOK
      <4>3. CASE d # c
        BY <1>3, <2>4, <2>5, <3>1, <4>1, <4>3 DEF BatchesOK
      <4>4. QED
        BY <4>2, <4>3
    <3>4. ASSUME NEW d \in SinkCalls, NEW e \in SinkCalls, d # e
          PROVE  B!ToSet(batch'[d]) \cap B!ToSet(batch'[e]) = {}
      <4>1. B!ToSet(batch'[d]) \subseteq B!ToSet(batch[d])
        BY <2>3, <2>4
      <4>2. B!ToSet(batch'[e]) \subseteq B!ToSet(batch[e])
        BY <2>3, <2>4
      <4>3. QED
        BY <3>1, <3>4, <4>1, <4>2 DEF BatchesOK
    <3>5. QED
      BY <2>5, <3>2, <3>3, <3>4 DEF BatchesOK
  <2>10. OrderOK'
    <3> SUFFICES ASSUME ~overlapped PROVE OrderOK'
      BY <1>3 DEF OrderOK
    <3>1. \A d, e \in SinkCalls : pc'[d] = "writing" /\ pc'[e] = "writing" => d = e
      BY <2>4 DEF MirrorInv, OrderOK
    <3>2. B!Increasing(mirror)'
      BY <2>5
    <3>3. ASSUME NEW d \in SinkCalls, NEW x \in Mirrored', NEW y \in B!ToSet(batch'[d])
          PROVE  x < y
      <4>1. CASE d # c
        <5>1. batch'[d] # <<>> /\ batch[d] = batch'[d]
          BY <2>4, <3>3, <4>1, NoneOfNone
        <5>2. QED
          BY <1>3, <4>1, <5>1 DEF MirrorInv, BatchesOK, OrderOK
      <4>2. CASE d = c
        <5>1. CASE x \in Mirrored
          BY <2>3, <2>4, <3>3, <4>2, <5>1 DEF MirrorInv, OrderOK
        <5>2. CASE x = h
          BY <2>1, <2>3, <2>4, <3>3, <4>2, <5>2
        <5>3. QED
          BY <2>5, <5>1, <5>2
      <4>3. QED
        BY <4>1, <4>2
    <3>4. QED
      BY <3>1, <3>2, <3>3 DEF OrderOK
  <2>11. QED
    BY <2>7, <2>8, <2>9, <2>10 DEF MirrorInv
<1>4. ASSUME NEW c \in SinkCalls, B!WriteInner(c) PROVE MirrorInv'
  BY <1>3, <1>4 DEF B!WriteInner
<1>5. ASSUME NEW c \in SinkCalls, B!FailInner(c) PROVE MirrorInv'
  BY <1>3, <1>5 DEF B!FailInner
<1>6. ASSUME NEW c \in SinkCalls, B!FlushInner(c) PROVE MirrorInv'
  <2>1. /\ \A d \in SinkCalls :
             pc'[d] = pc[d] \/ (d = c /\ batch[d] = <<>> /\ pc'[d] = "idle")
        /\ pc' \in [SinkCalls -> {"idle", "writing"}]
        /\ UNCHANGED <<buffer, batch, mirror, given, failed, overlapped>>
    BY <1>6 DEF B!FlushInner, MirrorInv, B!TypeOK
  <2>2. B!TypeOK'
    BY <2>1 DEF MirrorInv, B!TypeOK
  <2>3. BufferOK(buffer, given)' /\ Mirrored' = Mirrored
    BY <2>1 DEF MirrorInv, BufferOK, Batched, Mirrored
  <2>4. BatchesOK(given)' /\ OrderOK'
    BY <2>1, <2>3 DEF MirrorInv, BatchesOK, OrderOK
  <2>5. QED
    BY <2>2, <2>3, <2>4 DEF MirrorInv
<1>7. QED
  BY <1>1, <1>2, <1>4, <1>5, <1>6 DEF B!Next

(* The steps of MCServices that are steps of BatchingSink. *)
LEMMA MirrorMoves == MirrorNext => part' = part /\ part = "mirror" /\ B!Next
BY DEF MirrorNext, InMirror, B!Next

(* What is left alone keeps the invariant. *)
LEMMA MirrorRest ==
  ASSUME MirrorInv, UNCHANGED <<pc, ofMirror>>
  PROVE  MirrorInv'
BY DEF MirrorInv, B!TypeOK, BufferOK, BatchesOK, OrderOK, Batched, Mirrored, ofMirror

-----------------------------------------------------------------------------
(* Permissions *)

(* The segments a grant names. *)
Named(g) == {i \in 1..Len(g) : g[i] # Star}

EndsInStar(g) == g[Len(g)] = Star

(* What a grant that covers another has of it. *)
LEMMA CoverMeans ==
  ASSUME NEW S, NEW g \in Seq(S), NEW o \in Seq(S), o # g, H!Covers(o, g)
  PROVE  /\ EndsInStar(o) \/ Len(o) = Len(g)
         /\ \A i \in 1..Len(o) : i # Len(o) \/ ~EndsInStar(o) =>
              i \in 1..Len(g) /\ o[i] \in {Star, g[i]}
<1>1. /\ DOMAIN g = 1..Len(g) /\ DOMAIN o = 1..Len(o) /\ Len(o) \in Nat
  OBVIOUS
<1>2. CASE EndsInStar(o)
  <2>1. 1..(Len(o) - 1) \subseteq DOMAIN g /\ \A i \in 1..(Len(o) - 1) : o[i] \in {Star, g[i]}
    BY <1>2 DEF H!Covers, EndsInStar
  <2>2. PICK n \in Nat : n = Len(o)
    BY <1>1
  <2>3. \A i \in 1..n : i # n => i \in 1..(n - 1)
    OBVIOUS
  <2>4. QED
    BY <1>1, <1>2, <2>1, <2>2, <2>3
<1>3. CASE ~EndsInStar(o)
  <2>1. /\ DOMAIN o \subseteq DOMAIN g /\ \A i \in DOMAIN o : o[i] \in {Star, g[i]}
        /\ Len(o) = Len(g)
    BY <1>3 DEF H!Covers, EndsInStar
  <2>2. QED
    BY <1>1, <2>1
<1>4. QED
  BY <1>2, <1>3

(* A grant that covers another names no segment the other does not name. *)
LEMMA CoverNamesLess ==
  ASSUME NEW S, NEW g \in Seq(S), NEW o \in Seq(S), g # <<>>, o # <<>>, H!Covers(o, g)
  PROVE  Named(o) \subseteq Named(g)
<1> SUFFICES ASSUME o # g, NEW i \in Named(o) PROVE i \in Named(g)
  OBVIOUS
<1>1. /\ DOMAIN g = 1..Len(g) /\ DOMAIN o = 1..Len(o) /\ Len(o) \in Nat \ {0}
      /\ i \in 1..Len(o) /\ o[i] # Star
  BY DEF Named
<1>2. i \in DOMAIN g /\ o[i] \in {Star, g[i]}
  BY <1>1, CoverMeans DEF EndsInStar
<1>3. QED
  BY <1>1, <1>2 DEF Named

(* When they name the same segments and do not cover each other, the one   *)
(* that covers ends in a Star, and is the shorter if the other does, too.  *)
LEMMA CoverEndsInStar ==
  ASSUME NEW S, NEW g \in Seq(S), NEW o \in Seq(S), g # <<>>, o # <<>>, o # g,
         H!Covers(o, g), ~H!Covers(g, o), Named(o) = Named(g)
  PROVE  EndsInStar(o) /\ (EndsInStar(g) => Len(o) < Len(g))
<1>1. /\ DOMAIN g = 1..Len(g) /\ DOMAIN o = 1..Len(o)
      /\ Len(g) \in Nat \ {0} /\ Len(o) \in Nat \ {0}
  OBVIOUS
<1>2. \A i \in 1..Len(o) : o[i] # Star => i \in 1..Len(g) /\ g[i] = o[i]
  <2> SUFFICES ASSUME NEW i \in 1..Len(o), o[i] # Star PROVE i \in 1..Len(g) /\ g[i] = o[i]
    OBVIOUS
  <2>1. i \in Named(g)
    BY DEF Named
  <2>2. o[i] \in {Star, g[i]}
    BY <1>1, CoverMeans DEF EndsInStar
  <2>3. QED
    BY <2>1, <2>2 DEF Named
<1>3. \A i \in 1..Len(g) : g[i] # Star => i \in 1..Len(o) /\ g[i] = o[i]
  <2> SUFFICES ASSUME NEW i \in 1..Len(g), g[i] # Star PROVE i \in 1..Len(o) /\ g[i] = o[i]
    OBVIOUS
  <2>1. i \in Named(o)
    BY DEF Named
  <2>2. QED
    BY <1>2, <2>1 DEF Named
<1>4. EndsInStar(o)
  <2> SUFFICES ASSUME ~EndsInStar(o) PROVE FALSE
    OBVIOUS
  <2>1. Len(o) = Len(g)
    BY CoverMeans
  <2>2. \A i \in 1..Len(o) : o[i] = g[i]
    BY <1>2, <1>3, <2>1
  <2>3. QED
    BY <1>1, <2>1, <2>2
<1>5. ASSUME EndsInStar(g) PROVE Len(o) < Len(g)
  <2> SUFFICES ASSUME Len(g) <= Len(o) PROVE H!Covers(g, o)
    BY <1>1
  <2>1. g[Len(g)] = Star /\ H!Wild(g)
    BY <1>1, <1>5 DEF EndsInStar, H!Wild
  <2>2. 1..(Len(g) - 1) \subseteq DOMAIN o
    BY <1>1
  <2>3. \A i \in 1..(Len(g) - 1) : g[i] \in {Star, o[i]}
    BY <1>1, <1>3
  <2>4. QED
    BY <1>1, <2>1, <2>2, <2>3 DEF H!Covers
<1>6. QED
  BY <1>4, <1>5

(* Of the grants that allow a check, none of them unseated, one is covered *)
(* by no other: it names as few segments as any, ends in a Star if one of  *)
(* those does, and is the shortest. *)
LEMMA OneIsKept ==
  ASSUME NEW S, NEW G \in SUBSET Seq(S), <<>> \notin G, NEW check,
         H!Unseated(G, check) = {}, H!HasPermission(G, check)
  PROVE  H!HasPermission(H!Normalized(G), check)
<1> DEFINE P == {g \in G : H!Covers(g, check)}
<1>1. P # {} /\ \A g \in P : g \in G /\ g \in Seq(S) /\ g # <<>>
  BY DEF H!HasPermission
<1>2. \A g \in P, o \in G : o # g /\ H!Covers(o, g) => o \in P /\ ~H!Covers(g, o)
  BY DEF H!Unseated
<1> HIDE DEF P
<1>3. PICK Few \in {Named(g) : g \in P} : \A g \in P : Named(g) \subseteq Few => Named(g) = Few
  <2> DEFINE Names == {Named(g) : g \in P}
  <2>1. Names # {} /\ Names \subseteq FiniteSubsetsOf(Nat)
    <3>1. ASSUME NEW g \in P PROVE Named(g) \in SUBSET Nat /\ IsFiniteSet(Named(g))
      <4>1. Len(g) \in Nat
        BY <1>1
      <4>2. IsFiniteSet(1..Len(g)) /\ Named(g) \in SUBSET (1..Len(g))
        BY <4>1, FS_Interval DEF Named
      <4>3. QED
        BY <4>1, <4>2, FS_Subset
    <3>2. QED
      BY <1>1, <3>1 DEF FiniteSubsetsOf
  <2> HIDE DEF Names
  <2>2. PICK Few \in Names : \A M \in Names : ~(<<M, Few>> \in StrictSubsetOrdering(Nat))
    BY <2>1, FS_StrictSubsetOrderingWellFounded, WFMin
  <2>3. ASSUME NEW g \in P, Named(g) \subseteq Few PROVE Named(g) = Few
    <3>1. Named(g) \in Names /\ Named(g) \in SUBSET Nat /\ Few \in SUBSET Nat
      BY <2>1, <2>2 DEF Names, FiniteSubsetsOf
    <3>2. QED
      BY <2>2, <2>3, <3>1 DEF StrictSubsetOrdering
  <2>4. QED
    BY <2>2, <2>3 DEF Names
<1> DEFINE P1 == {g \in P : Named(g) = Few}
           P2 == {g \in P1 : EndsInStar(g)}
           P3 == IF P2 = {} THEN P1 ELSE P2
<1>4. P1 # {} /\ P3 # {} /\ P3 \subseteq P1
  BY <1>3
<1>5. PICK g \in P3 : \A o \in P3 : Len(g) <= Len(o)
  <2> DEFINE Lens == {Len(g) : g \in P3}
  <2>1. Lens # {} /\ Lens \in SUBSET Nat
    <3>1. \A g \in P3 : g \in Seq(S)
      BY <1>1, <1>4
    <3>2. \A g \in P3 : Len(g) \in Nat
      BY <3>1
    <3>3. QED
      BY <1>4, <3>2
  <2>2. PICK n \in Lens : \A m \in Lens : ~(<<m, n>> \in OpToRel(<, Nat))
    <3> HIDE DEF Lens
    <3>1. QED
      BY <2>1, NatLessThanWellFounded, WFMin
  <2>3. ASSUME NEW m \in Lens PROVE n <= m
    <3>1. m \in Nat /\ n \in Nat
      BY <2>1
    <3>2. <<m, n>> \in OpToRel(<, Nat) <=> m < n
      BY <3>1 DEF OpToRel
    <3>3. ~(m < n)
      BY <2>2, <3>2
    <3>4. QED
      BY <3>1, <3>3
  <2>4. PICK g \in P3 : n = Len(g)
    OBVIOUS
  <2>5. \A o \in P3 : n <= Len(o)
    BY <2>3
  <2>6. QED
    BY <2>4, <2>5
<1>6. g \in P1 /\ g \in P
  BY <1>4, <1>5
<1>7. ASSUME NEW o \in G, o # g, H!Covers(o, g) PROVE FALSE
  <2>1. o \in P /\ ~H!Covers(g, o)
    BY <1>2, <1>6, <1>7
  <2>2. Named(o) = Named(g) /\ o \in P1
    BY <1>1, <1>3, <1>6, <1>7, <2>1, CoverNamesLess
  <2>3. EndsInStar(o) /\ (EndsInStar(g) => Len(o) < Len(g))
    BY <1>1, <1>6, <1>7, <2>1, <2>2, CoverEndsInStar
  <2>4. o \in P2 /\ o \in P3 /\ EndsInStar(g)
    BY <1>5, <2>2, <2>3
  <2>5. Len(g) <= Len(o) /\ Len(o) < Len(g) /\ Len(o) \in Nat /\ Len(g) \in Nat
    BY <1>1, <1>5, <1>6, <2>1, <2>3, <2>4
  <2>6. QED
    BY <2>5
<1>8. g \in H!Normalized(G) /\ H!Covers(g, check)
  BY <1>1, <1>6, <1>7 DEF H!Normalized, P
<1>9. QED
  BY <1>8 DEF H!HasPermission

(* normalizeGrants changes no answer to a check for which no grant that    *)
(* allowed it gives way to one that does not, or that gives way to it: of  *)
(* any grants and for any check. *)
THEOREM NormalizationKeepsAnswers ==
  ASSUME NEW S, NEW G \in SUBSET Seq(S), <<>> \notin G, NEW check,
         H!Unseated(G, check) = {}
  PROVE  H!HasPermission(H!Normalized(G), check) = H!HasPermission(G, check)
<1>1. H!HasPermission(G, check) => H!HasPermission(H!Normalized(G), check)
  BY OneIsKept
<1>2. H!HasPermission(H!Normalized(G), check) => H!HasPermission(G, check)
  BY DEF H!HasPermission, H!Normalized
<1>3. QED
  BY <1>1, <1>2 DEF H!HasPermission

-----------------------------------------------------------------------------
(* RoleHierarchy *)

(* The grants of a role are of segments, and so is what a walk collects. *)
LEMMA GrantsAre ==
  /\ UNION Grants \subseteq Seq({"a", "b", "c", Star}) /\ <<>> \notin UNION Grants
<1> DEFINE S == {"a", "b", "c", Star}
<1>1. /\ <<"a", "b", Star>> \in Seq(S) /\ <<"c", Star>> \in Seq(S)
      /\ <<"a", Star, Star, Star>> \in Seq(S) /\ <<"c", Star, Star>> \in Seq(S)
  OBVIOUS
<1>2. /\ <<"a", "b", Star>> # <<>> /\ <<"c", Star>> # <<>>
      /\ <<"a", Star, Star, Star>> # <<>> /\ <<"c", Star, Star>> # <<>>
  OBVIOUS
<1> HIDE DEF S
<1>3. \A g \in UNION Grants : g \in Seq(S) /\ g # <<>>
  BY <1>1, <1>2 DEF Grants
<1>4. QED
  BY <1>3 DEF S

RolesTyped ==
  /\ roles \in [Roles -> H!Definition \cup {NoRole}]
  /\ effective \in [Roles -> SUBSET UNION Grants \cup {NotAsked}]

(* A memo is what would be answered now, unless an add was rejected since. *)
MemoOK ==
  \A r \in Roles \ rejected :
    effective[r] # NotAsked => effective[r] = H!Normalized(H!Collected(r))

RolesInv == RolesTyped /\ MemoOK

(* A walk collects grants of roles. *)
LEMMA CollectedAre ==
  ASSUME RolesTyped, NEW r \in Roles
  PROVE  H!Collected(r) \subseteq UNION Grants
BY DEF RolesTyped, H!Collected, H!Definition

(* Nobody asked yet when the graph is built. *)
LEMMA RolesStart == H!Init => RolesInv
BY DEF H!Init, RolesInv, RolesTyped, MemoOK

(* What is collected depends on the graph alone. *)
LEMMA CollectedStays ==
  ASSUME roles' = roles, NEW r \in Roles
  PROVE  H!Collected(r)' = H!Collected(r)
BY DEF H!Collected

(* Every edit and every question keeps the invariant. *)
LEMMA RolesStep ==
  ASSUME RolesInv, H!Next
  PROVE  RolesInv'
<1> USE DEF RolesInv
<1>1. ASSUME H!Forget, RolesTyped' PROVE RolesInv'
  BY <1>1 DEF H!Forget, MemoOK
<1>2. ASSUME H!Forget, roles' \in [Roles -> H!Definition \cup {NoRole}] PROVE RolesInv'
  BY <1>1, <1>2 DEF H!Forget, RolesTyped
<1>3. ASSUME NEW r \in Roles, NEW role \in H!Definition, H!Add(r, role) PROVE RolesInv'
  <2>1. roles' \in [Roles -> H!Definition \cup {NoRole}]
    BY <1>3 DEF H!Add, RolesTyped
  <2>2. CASE H!Forget
    BY <1>2, <2>1, <2>2
  <2>3. CASE effective' = effective /\ rejected' = {q \in Roles : effective[q] # NotAsked}
    BY <2>1, <2>3 DEF RolesTyped, MemoOK
  <2>4. QED
    BY <1>3, <2>2, <2>3 DEF H!Add
<1>4. ASSUME NEW r \in Roles, H!Remove(r) PROVE RolesInv'
  <2>1. roles' \in [Roles -> H!Definition \cup {NoRole}]
    BY <1>4 DEF H!Remove, RolesTyped
  <2>2. CASE H!Forget
    BY <1>2, <2>1, <2>2
  <2>3. CASE roles[r] = NoRole /\ UNCHANGED <<effective, rejected>>
    <3>1. roles' = roles
      BY <1>4, <2>3 DEF H!Remove, RolesTyped
    <3>2. QED
      BY <2>3, <3>1, CollectedStays DEF RolesTyped, MemoOK, H!Normalized
  <2>4. QED
    BY <1>4, <2>2, <2>3 DEF H!Remove, H!Removed
<1>5. ASSUME NEW r \in Roles, H!Ask(r) PROVE RolesInv'
  <2>1. /\ roles' = roles /\ rejected' = rejected
        /\ effective' = [effective EXCEPT ![r] = H!Normalized(H!Collected(r))]
    BY <1>5 DEF H!Ask
  <2>2. H!Normalized(H!Collected(r)) \in SUBSET UNION Grants
    BY CollectedAre DEF H!Normalized
  <2>3. \A q \in Roles :
          effective'[q] = IF q = r THEN H!Normalized(H!Collected(r)) ELSE effective[q]
    BY <2>1 DEF RolesTyped
  <2>4. RolesTyped'
    BY <2>1, <2>2 DEF RolesTyped
  <2>5. MemoOK'
    BY <2>1, <2>3, CollectedStays DEF MemoOK, H!Normalized
  <2>6. QED
    BY <2>4, <2>5
<1>6. QED
  BY <1>3, <1>4, <1>5 DEF H!Next

(* The steps of MCServices that are steps of RoleHierarchy. *)
LEMMA RolesMoves == RolesNext => part' = part /\ part = "roles" /\ H!Next
BY DEF RolesNext, InRoles, H!Next

(* What is left alone keeps the invariant. *)
LEMMA RolesRest ==
  ASSUME RolesInv, UNCHANGED ofRoles
  PROVE  RolesInv'
BY CollectedStays DEF RolesInv, RolesTyped, MemoOK, ofRoles, H!Normalized

-----------------------------------------------------------------------------
(* The parts together *)

(* A behaviour is of one part from the beginning to the end. *)
LEMMA PartStays ==
  ASSUME [Next]_allVars
  PROVE  part' = part
BY KeysMoves, DevicesMoves, MessagesMoves, MirrorMoves, RolesMoves DEF Next, allVars

(* Each part's invariant holds throughout its behaviours: of ApiKeys, *)
LEMMA KeysHold == Spec => [](part = "keys" => KeysInv)
<1>1. Init => (part = "keys" => KeysInv)
  BY KeysStart DEF Init
<1>2. ASSUME part = "keys" => KeysInv, [Next]_allVars
      PROVE  (part = "keys" => KeysInv)'
  <2> SUFFICES ASSUME part = "keys", KeysInv PROVE KeysInv'
    BY <1>2, PartStays
  <2>1. CASE KeysNext
    BY <2>1, KeysMoves, KeysStep
  <2>2. CASE UNCHANGED allVars
    BY <2>2, KeysRest DEF allVars
  <2>3. QED
    BY <1>2, <2>1, <2>2, DevicesMoves, MessagesMoves, MirrorMoves, RolesMoves DEF Next
<1>3. QED
  BY <1>1, <1>2, PTL DEF Spec, allVars

(* of Devices, *)
LEMMA DevicesHold == Spec => [](part = "devices" => DevicesInv)
<1>1. Init => (part = "devices" => DevicesInv)
  BY DevicesStart DEF Init
<1>2. ASSUME part = "devices" => DevicesInv, [Next]_allVars
      PROVE  (part = "devices" => DevicesInv)'
  <2> SUFFICES ASSUME part = "devices", DevicesInv PROVE DevicesInv'
    BY <1>2, PartStays
  <2>1. CASE DevicesNext
    BY <2>1, DevicesMoves, DevicesStep
  <2>2. CASE UNCHANGED allVars
    BY <2>2, DevicesRest DEF allVars
  <2>3. QED
    BY <1>2, <2>1, <2>2, KeysMoves, MessagesMoves, MirrorMoves, RolesMoves DEF Next
<1>3. QED
  BY <1>1, <1>2, PTL DEF Spec, allVars

(* of Notifications, *)
LEMMA MessagesHold == Spec => [](part = "messages" => MessagesInv)
<1>1. Init => (part = "messages" => MessagesInv)
  BY MessagesStart DEF Init
<1>2. ASSUME part = "messages" => MessagesInv, [Next]_allVars
      PROVE  (part = "messages" => MessagesInv)'
  <2> SUFFICES ASSUME part = "messages", MessagesInv PROVE MessagesInv'
    BY <1>2, PartStays
  <2>1. CASE MessagesNext
    BY <2>1, MessagesMoves, MessagesStep
  <2>2. CASE UNCHANGED allVars
    BY <2>2, MessagesRest DEF allVars
  <2>3. QED
    BY <1>2, <2>1, <2>2, KeysMoves, DevicesMoves, MirrorMoves, RolesMoves DEF Next
<1>3. QED
  BY <1>1, <1>2, PTL DEF Spec, allVars

(* of BatchingSink, *)
LEMMA MirrorHold == Spec => [](part = "mirror" => MirrorInv)
<1>1. Init => (part = "mirror" => MirrorInv)
  BY MirrorStart DEF Init
<1>2. ASSUME part = "mirror" => MirrorInv, [Next]_allVars
      PROVE  (part = "mirror" => MirrorInv)'
  <2> SUFFICES ASSUME part = "mirror", MirrorInv PROVE MirrorInv'
    BY <1>2, PartStays
  <2>1. CASE MirrorNext
    BY <2>1, MirrorMoves, MirrorStep
  <2>2. CASE UNCHANGED allVars
    BY <2>2, MirrorRest DEF allVars
  <2>3. QED
    BY <1>2, <2>1, <2>2, KeysMoves, DevicesMoves, MessagesMoves, RolesMoves DEF Next
<1>3. QED
  BY <1>1, <1>2, PTL DEF Spec, allVars

(* of RoleHierarchy. *)
LEMMA RolesHold == Spec => [](part = "roles" => RolesInv)
<1>1. Init => (part = "roles" => RolesInv)
  BY RolesStart DEF Init
<1>2. ASSUME part = "roles" => RolesInv, [Next]_allVars
      PROVE  (part = "roles" => RolesInv)'
  <2> SUFFICES ASSUME part = "roles", RolesInv PROVE RolesInv'
    BY <1>2, PartStays
  <2>1. CASE RolesNext
    BY <2>1, RolesMoves, RolesStep
  <2>2. CASE UNCHANGED allVars
    BY <2>2, RolesRest DEF allVars
  <2>3. QED
    BY <1>2, <2>1, <2>2, KeysMoves, DevicesMoves, MessagesMoves, MirrorMoves DEF Next
<1>3. QED
  BY <1>1, <1>2, PTL DEF Spec, allVars

-----------------------------------------------------------------------------
(* The properties *)

(* ApiKeys: a key whose revocation was answered stays revoked, and nobody  *)
(* who reads it afterwards is let in, unless a verification was recording  *)
(* its use when it was revoked. *)
THEOREM RevocationHoldsCorrect == Spec => []RevocationHolds
<1>1. (part = "keys" => KeysInv) => RevocationHolds
  BY DEF KeysInv, K!TypeOK, KeysOK, RevocationHolds, K!RevocationHolds
<1>2. QED
  BY <1>1, KeysHold, PTL

(* Devices: one client has one record. *)
THEOREM OneRecordEachCorrect == Spec => []OneRecordEach
<1>1. (part = "devices" => DevicesInv) => OneRecordEach
  BY DEF DevicesInv, RecordsOK, OneRecordEach, D!OneRecordEach
<1>2. QED
  BY <1>1, DevicesHold, PTL

(* Devices: a client that was distrusted or forgotten stays without trust, *)
(* unless a trust that had read the record before wrote it after. *)
THEOREM DistrustHoldsCorrect == Spec => []DistrustHolds
<1>1. (part = "devices" => DevicesInv) => DistrustHolds
  <2> SUFFICES ASSUME part = "devices", DevicesInv, NEW d \in D!Known, D!Trusted(d),
                      devices[d].print \in distrusted
               PROVE  \E c \in raced : pc[c] = "done" /\ copy[c].print = devices[d].print
    BY DEF DistrustHolds, D!DistrustHolds
  <2>1. d \in DeviceCalls /\ devices[d].until # 0
    BY ServicesAssumption DEF DevicesInv, D!TypeOK, D!Known, D!Record, D!Trusted
  <2>2. QED
    BY <2>1 DEF DevicesInv, TrustOK
<1>2. QED
  BY <1>1, DevicesHold, PTL

(* Notifications: a user gets one notice within the window, unless a claim *)
(* was lost, or released by a call that had lost its own, or a hook threw. *)
THEOREM OneNoticeCorrect == Spec => []OneNotice
<1>1. (part = "messages" => MessagesInv) => OneNotice
  <2> SUFFICES ASSUME MessagesInv, ~freed, deaf = {},
                      NEW c \in MessageCalls, NEW d \in MessageCalls
               PROVE  /\ sent[c] <= 1
                      /\ c # d /\ sent[c] > 0 /\ sent[d] > 0 /\ ~urgent[c] /\ ~urgent[d]
                            /\ N!Together(c, d) =>
                           \/ claimedAt[c] + Window <= claimedAt[d]
                           \/ claimedAt[d] + Window <= claimedAt[c]
    BY DEF OneNotice, N!OneNotice
  <2>1. \A e \in MessageCalls : sent[e] = IF pc[e] = "delivered" THEN 1 ELSE 0
    BY DEF MessagesInv, EndsOK
  <2>2. \A e \in MessageCalls : sent[e] > 0 /\ ~urgent[e] => Holding(e)
    BY <2>1 DEF Holding
  <2>3. sent[c] <= 1
    BY <2>1
  <2>4. QED
    BY <2>2, <2>3 DEF MessagesInv, HoldersOK
<1>2. QED
  BY <1>1, MessagesHold, PTL

(* Notifications: a message whose sending failed leaves no claim behind,   *)
(* unless its replica died or the hook for the failure threw. *)
THEOREM FailureIsRetriedCorrect == Spec => []FailureIsRetried
<1>1. (part = "messages" => MessagesInv) => FailureIsRetried
  BY DEF MessagesInv, EndsOK, N!Ended, FailureIsRetried, N!FailureIsRetried
<1>2. QED
  BY <1>1, MessagesHold, PTL

(* BatchingSink: the mirror gets every record once, but those of a batch   *)
(* that failed, and in order unless two batches were written at once. *)
THEOREM MirrorIsCompleteCorrect == Spec => []MirrorIsComplete
<1>1. (part = "mirror" => MirrorInv) => MirrorIsComplete
  <2> SUFFICES ASSUME MirrorInv PROVE B!MirrorIsComplete
    BY DEF MirrorIsComplete
  <2>1. B!Pending = B!ToSet(buffer) \cup Batched
    BY DEF B!Pending, Batched
  <2>2. \A r \in 1..given : r \in B!Pending \cup B!ToSet(mirror) \cup failed
    BY <2>1 DEF MirrorInv, BufferOK, Mirrored
  <2>3. B!Pending \cap B!ToSet(mirror) = {}
    BY <2>1 DEF MirrorInv, BufferOK, BatchesOK, Batched, Mirrored
  <2>4. B!IsInjective(mirror) /\ (overlapped \/ B!Increasing(mirror))
    BY DEF MirrorInv, BatchesOK, OrderOK
  <2>5. QED
    BY <2>2, <2>3, <2>4 DEF B!MirrorIsComplete
<1>2. QED
  BY <1>1, MirrorHold, PTL

(* RoleHierarchy: what a role is said to confer allows exactly what the    *)
(* roles it inherits from allow, but after a rejected add and for checks   *)
(* that a grant allowed which gave way to one that does not. *)
THEOREM AnswersMatchRolesCorrect == Spec => []AnswersMatchRoles
<1>1. (part = "roles" => RolesInv) => AnswersMatchRoles
  <2> SUFFICES ASSUME RolesInv, NEW r \in Roles \ rejected, NEW check \in Asked,
                      effective[r] # NotAsked, H!Unseated(H!Collected(r), check) = {}
               PROVE  H!HasPermission(effective[r], check)
                        = H!HasPermission(H!Collected(r), check)
    BY DEF AnswersMatchRoles, H!AnswersMatchRoles
  <2>1. PICK G : G = H!Collected(r)
    OBVIOUS
  <2>2. G \subseteq UNION Grants /\ effective[r] = H!Normalized(G) /\ H!Unseated(G, check) = {}
    BY <2>1, CollectedAre DEF RolesInv, MemoOK
  <2>3. H!HasPermission(H!Normalized(G), check) = H!HasPermission(G, check)
    BY <2>2, GrantsAre, NormalizationKeepsAnswers
  <2>4. QED
    BY <2>1, <2>2, <2>3
<1>2. QED
  BY <1>1, RolesHold, PTL

-----------------------------------------------------------------------------
(* Entitlements *)

(* The larger of two numbers. *)
LEMMA MaxOfTwo ==
  ASSUME NEW a \in Int, NEW b \in Int
  PROVE  E!Max({a, b}) = IF a >= b THEN a ELSE b
BY DEF E!Max

(* The smaller of two numbers. *)
LEMMA MinOfTwo ==
  ASSUME NEW a \in Int, NEW b \in Int
  PROVE  E!Min({a, b}) = IF a <= b THEN a ELSE b
BY DEF E!Min

(* The same for the operators of RevocationLists. *)
LEMMA MaxOfTwoV ==
  ASSUME NEW a \in Int, NEW b \in Int
  PROVE  V!Max({a, b}) = IF a >= b THEN a ELSE b
BY DEF V!Max

(* The smaller one. *)
LEMMA MinOfTwoV ==
  ASSUME NEW a \in Int, NEW b \in Int
  PROVE  V!Min({a, b}) = IF a <= b THEN a ELSE b
BY DEF V!Min

(* What the dates make of each status that was recorded. *)
LEMMA EffectiveIs ==
  ASSUME NEW t \in E!Terms, NEW d \in Int
  PROVE  /\ E!EffectiveStatus(t, d) \in E!Statuses
         /\ t.status = "TRIAL" =>
              E!EffectiveStatus(t, d) = IF E!Passed(t.trialEndsAt, d) THEN "EXPIRED" ELSE "TRIAL"
         /\ t.status \in {"ACTIVE", "PAST_DUE"} =>
              E!EffectiveStatus(t, d) =
                IF ~E!Passed(t.expiresAt, d) THEN t.status
                ELSE IF t.graceUntil # 0 /\ ~E!Passed(t.graceUntil, d) THEN "GRACE_PERIOD"
                ELSE "EXPIRED"
         /\ t.status = "GRACE_PERIOD" =>
              E!EffectiveStatus(t, d) = IF t.graceUntil = 0 \/ E!Passed(t.graceUntil, d)
                                        THEN "EXPIRED" ELSE "GRACE_PERIOD"
         /\ t.status \in {"EXPIRED", "SUSPENDED", "CANCELLED"} =>
              E!EffectiveStatus(t, d) = t.status
<1>1. CASE t.status = "TRIAL"
  BY <1>1 DEF E!EffectiveStatus, E!Statuses, E!Terms, E!Null
<1>2. CASE t.status \in {"ACTIVE", "PAST_DUE"}
  BY <1>2 DEF E!EffectiveStatus, E!Statuses, E!Terms, E!Null
<1>3. CASE t.status = "GRACE_PERIOD"
  BY <1>3 DEF E!EffectiveStatus, E!Statuses, E!Terms, E!Null
<1>4. CASE t.status \in {"EXPIRED", "SUSPENDED", "CANCELLED"}
  BY <1>4 DEF E!EffectiveStatus, E!Statuses, E!Terms, E!Null
<1>5. QED
  BY <1>1, <1>2, <1>3, <1>4 DEF E!Terms, E!Statuses

(* The ranks a product's policy gives: growth needs a term that runs. *)
PolicyOK(p) ==
  /\ p \in [E!Statuses -> E!Modes]
  /\ p["TRIAL"] = 4 /\ p["ACTIVE"] = 4 /\ p["PAST_DUE"] = 4 /\ p["GRACE_PERIOD"] = 3
  /\ p["EXPIRED"] \in {0, 2} /\ p["SUSPENDED"] = 2 /\ p["CANCELLED"] = 1

(* The default policy and the stricter one are such policies. *)
LEMMA PoliciesAre == \A p \in E!Policies : PolicyOK(p)
<1>1. PolicyOK(E!DefaultPolicy)
  BY DEF PolicyOK, E!DefaultPolicy, E!Statuses, E!Modes, E!FULL, E!NO_GROWTH, E!READ_ONLY,
         E!EXPORT_ONLY
<1>2. E!Stricter(E!DefaultPolicy["EXPIRED"], E!NONE) = 0
  BY MinOfTwo DEF E!Stricter, E!DefaultPolicy, E!READ_ONLY, E!NONE
<1>3. PolicyOK(E!AccessPolicy("EXPIRED", E!NONE))
  BY <1>1, <1>2 DEF PolicyOK, E!AccessPolicy, E!Statuses, E!Modes, E!NONE
<1>4. QED
  BY <1>1, <1>3 DEF E!Policies

(* Time takes access away and never gives any. *)
LEMMA AccessOnlyEnds ==
  ASSUME NEW p, PolicyOK(p), NEW t \in E!Terms, NEW d \in Int, NEW e \in Int, d <= e
  PROVE  /\ p[E!EffectiveStatus(t, d)] \in 0..4 /\ p[E!EffectiveStatus(t, e)] \in 0..4
         /\ p[E!EffectiveStatus(t, e)] <= p[E!EffectiveStatus(t, d)]
<1>1. \A date \in Nat : E!Passed(date, d) => E!Passed(date, e)
  BY DEF E!Passed
<1>2. p[E!EffectiveStatus(t, d)] \in 0..4 /\ p[E!EffectiveStatus(t, e)] \in 0..4
  BY EffectiveIs DEF PolicyOK, E!Modes
<1>3. t.trialEndsAt \in Nat /\ t.expiresAt \in Nat /\ t.graceUntil \in Nat /\ t.status \in E!Statuses
  BY DEF E!Terms
<1>4. CASE t.status = "TRIAL"
  BY <1>1, <1>3, <1>4, EffectiveIs DEF PolicyOK
<1>5. CASE t.status \in {"ACTIVE", "PAST_DUE"}
  BY <1>1, <1>3, <1>5, EffectiveIs DEF PolicyOK
<1>6. CASE t.status = "GRACE_PERIOD"
  BY <1>1, <1>3, <1>6, EffectiveIs DEF PolicyOK
<1>7. CASE t.status \in {"EXPIRED", "SUSPENDED", "CANCELLED"}
  BY <1>3, <1>7, EffectiveIs DEF PolicyOK
<1>8. QED
  BY <1>2, <1>3, <1>4, <1>5, <1>6, <1>7 DEF E!Statuses

(* The date that ends a status has come. *)
Over(status) ==
  /\ status = "TRIAL" => E!Passed(term.trialEndsAt, now)
  /\ status \in {"ACTIVE", "PAST_DUE", "GRACE_PERIOD"} => E!Passed(term.expiresAt, now)

(* After a lapse, whatever status can be reached without a renewal is one  *)
(* whose date has come, also the one a suspension will return to; a trial  *)
(* has no other end than its own. *)
LapseOK ==
  /\ term.status = "SUSPENDED" => suspendedFrom \in E!Statuses \ {"SUSPENDED", "CANCELLED"}
  /\ term.status = "TRIAL" \/ (term.status = "SUSPENDED" /\ suspendedFrom = "TRIAL") =>
       term.expiresAt = E!Null
  /\ lapsed => Over(IF term.status = "SUSPENDED" THEN suspendedFrom ELSE term.status)

(* When the service resolved a snapshot, its own mode was as high as what  *)
(* the snapshot says of that time. *)
Told(s) == s # E!Nothing =>
  /\ s.resolvedAt \in 1..now
  /\ \A m \in 2..4 : E!Generous(s.term, s.resolvedAt) >= m => lately[m] >= s.resolvedAt

(* The history is of the past and knows the present, and every snapshot    *)
(* says what was so; no answer is older than the product waits. *)
AnswersOK ==
  /\ \A m \in 2..4 : lately[m] <= now
  /\ \A m \in 2..4 : E!Generous(term, now) >= m => lately[m] = now
  /\ Told(cached)
  /\ \A r \in Requests :
       /\ Told(answer[r])
       /\ answer[r] # E!Nothing => now <= answer[r].resolvedAt + Timeout

SubscriptionInv == E!TypeOK /\ PolicyOK(policy) /\ LapseOK /\ AnswersOK

(* No snapshot is one to keep, too. *)
LEMMA NothingIs == E!Nothing \in E!Snapshots
BY DEF E!Nothing, E!Snapshots, E!NoTerm, E!Terms, E!Statuses, E!Null

(* The modes that an outage must not prolong. *)
LEMMA RanksAre == E!Modes \ {E!NONE, E!EXPORT_ONLY} = 2..4
BY DEF E!Modes, E!NONE, E!EXPORT_ONLY

(* The table of transitions, read an event at a time. *)
LEMMA TransitionsAre ==
  ASSUME NEW event \in DOMAIN E!Transitions
  PROVE  /\ event \in {"ACTIVATE", "RENEW", "MARK_PAST_DUE", "ENTER_GRACE", "EXPIRE",
                       "SUSPEND", "CANCEL"}
         /\ E!Transitions[event].to \in E!Statuses
         /\ E!Transitions[event].from \subseteq E!Statuses \ {"CANCELLED"}
         /\ event # "CANCEL" => "SUSPENDED" \notin E!Transitions[event].from
         /\ event \in {"ACTIVATE", "RENEW"} => E!Transitions[event].to = "ACTIVE"
         /\ event = "ACTIVATE" => E!Transitions[event].from = {"TRIAL", "PAST_DUE", "GRACE_PERIOD"}
         /\ event = "MARK_PAST_DUE" =>
              E!Transitions[event].from = {"ACTIVE"} /\ E!Transitions[event].to = "PAST_DUE"
         /\ event = "ENTER_GRACE" => E!Transitions[event].from = {"ACTIVE", "PAST_DUE"}
                                       /\ E!Transitions[event].to = "GRACE_PERIOD"
         /\ event = "EXPIRE" => E!Transitions[event].to = "EXPIRED"
         /\ event = "SUSPEND" => E!Transitions[event].to = "SUSPENDED"
         /\ event = "CANCEL" => E!Transitions[event].to = "CANCELLED"
BY DEF E!Transitions, E!Statuses

(* A mode is a rank. *)
LEMMA GenerousIs ==
  ASSUME PolicyOK(policy), ahead \in Int, NEW t \in E!Terms, NEW d \in Int
  PROVE  E!Generous(t, d) \in 0..4
<1>1. E!Min({0, ahead}) \in Int
  BY MinOfTwo
<1>2. d + E!Min({0, ahead}) \in Int
  BY <1>1
<1>3. QED
  BY <1>2, EffectiveIs DEF E!Generous, PolicyOK, E!Modes

(* A subscription starts as a trial or with a first term. *)
LEMMA SubscriptionStart == E!Init => SubscriptionInv
<1> SUFFICES ASSUME E!Init PROVE SubscriptionInv
  OBVIOUS
<1> USE LicensingAssumption DEF E!Init
<1>1. PolicyOK(policy) /\ ahead \in Int
  BY PoliciesAre
<1>2. term \in E!Terms /\ term.status \in {"TRIAL", "ACTIVE"}
  BY DEF E!FirstTerms, E!Terms, E!Statuses, E!Null
<1>3. E!Generous(term, 1) \in 0..4
  BY <1>1, <1>2, GenerousIs
<1>4. lately = [m \in 2..4 |-> IF E!Generous(term, 1) >= m THEN 1 ELSE 0]
  BY RanksAre
<1>5. E!TypeOK
  <2>1. lately \in [2..4 -> 0..MaxDate]
    BY <1>4
  <2>2. policy \in [E!Statuses -> E!Modes]
    BY <1>1 DEF PolicyOK
  <2>3. suspendedFrom \in E!Statuses \cup {"none"} /\ moves \in 0..MaxMoves
    OBVIOUS
  <2>4. answer \in [Requests -> E!Snapshots] /\ pc \in [Requests -> {"idle", "answered"}]
    BY NothingIs
  <2>5. now \in 1..MaxDate /\ ahead \in (-Skew)..Skew
    OBVIOUS
  <2>7. cached \in E!Snapshots
    BY NothingIs
  <2>8. lapsed \in BOOLEAN
    OBVIOUS
  <2>6. QED
    BY <2>1, <2>2, <2>3, <2>4, <2>5, <2>7, <2>8, <1>2, RanksAre DEF E!TypeOK
<1>6. LapseOK
  BY <1>2 DEF LapseOK, E!FirstTerms
<1>7. AnswersOK
  BY <1>3, <1>4 DEF AnswersOK, Told
<1>8. QED
  BY <1>1, <1>5, <1>6, <1>7 DEF SubscriptionInv

(* A snapshot says as much later. *)
LEMMA ToldStays ==
  ASSUME E!TypeOK, NEW s, Told(s),
         policy' = policy, ahead' = ahead, now' \in Nat, now <= now',
         \A m \in 2..4 : lately[m] <= lately'[m],
         lately' \in [2..4 -> Nat], s \in E!Snapshots
  PROVE  Told(s)'
<1> SUFFICES ASSUME s # E!Nothing
             PROVE  /\ s.resolvedAt \in 1..now'
                    /\ \A m \in 2..4 : E!Generous(s.term, s.resolvedAt)' >= m
                                          => lately'[m] >= s.resolvedAt
  BY DEF Told, E!Nothing, E!NoTerm, E!Null
<1>1. s.resolvedAt \in 1..now /\ s.resolvedAt \in Nat
  BY DEF Told, E!Snapshots
<1>2. s.resolvedAt \in 1..now'
  BY <1>1 DEF E!TypeOK
<1>3. E!Generous(s.term, s.resolvedAt)' = E!Generous(s.term, s.resolvedAt)
  BY DEF E!Generous, E!EffectiveStatus, E!Passed, E!Null
<1>4. ASSUME NEW m \in 2..4, E!Generous(s.term, s.resolvedAt) >= m
      PROVE  lately'[m] >= s.resolvedAt
  <2>1. lately[m] >= s.resolvedAt
    BY <1>4 DEF Told
  <2>2. lately[m] \in Nat /\ lately'[m] \in Nat
    BY RanksAre DEF E!TypeOK
  <2>3. QED
    BY <1>1, <2>1, <2>2
<1>5. QED
  BY <1>2, <1>3, <1>4

(* What the history becomes keeps what it says. *)
LEMMA NoteKeeps ==
  ASSUME SubscriptionInv, NEW t, t = now',
         t \in now..MaxDate, term' \in E!Terms, E!Note(term', t),
         policy' = policy, ahead' = ahead, cached' = cached, answer' = answer,
         \A r \in Requests : answer[r] # E!Nothing => t <= answer[r].resolvedAt + Timeout
  PROVE  AnswersOK' /\ lately' \in [2..4 -> 0..MaxDate]
<1> USE LicensingAssumption
<1>1. lately' = [m \in 2..4 |-> IF E!Generous(term', t) >= m THEN t ELSE lately[m]]
  BY RanksAre DEF E!Note
<1>2. now \in Nat /\ t \in Nat /\ lately \in [2..4 -> 0..MaxDate] /\ ahead \in Int
  BY RanksAre DEF SubscriptionInv, E!TypeOK
<1>3. lately' \in [2..4 -> 0..MaxDate] /\ \A m \in 2..4 : lately[m] <= lately'[m] /\ lately'[m] <= t
  BY <1>1, <1>2 DEF SubscriptionInv, AnswersOK
<1>4. \A s \in E!Snapshots : Told(s) => Told(s)'
  BY <1>2, <1>3, ToldStays DEF SubscriptionInv
<1>5. Told(cached)'
  BY <1>4 DEF SubscriptionInv, AnswersOK, E!TypeOK, Told
<1>6. \A r \in Requests : Told(answer[r])'
  BY <1>4 DEF SubscriptionInv, AnswersOK, E!TypeOK, Told
<1>7. E!Generous(term, now)' = E!Generous(term', t)
  BY DEF E!Generous, E!EffectiveStatus, E!Passed, E!Null
<1>8. \A m \in 2..4 : E!Generous(term', t) >= m => lately'[m] = t
  BY <1>1
<1>9. QED
  BY <1>3, <1>5, <1>6, <1>7, <1>8 DEF AnswersOK, E!Nothing, E!NoTerm, E!Null

(* Every event, date, answer and outage keeps the invariant. *)
LEMMA SubscriptionStep ==
  ASSUME SubscriptionInv, E!Next
  PROVE  SubscriptionInv'
<1> USE LicensingAssumption
<1>1. ASSUME NEW event \in DOMAIN E!Transitions, E!Move(event) PROVE SubscriptionInv'
  <2> USE <1>1
  <2>1. /\ term' \in E!Terms
        /\ term'.status = E!Transitions[event].to
        /\ term'.trialEndsAt = term.trialEndsAt
        /\ event # "RENEW" => term'.expiresAt = term.expiresAt
    <3> DEFINE x == IF event = "RENEW" THEN now + Term ELSE term.expiresAt
               y == IF event = "ENTER_GRACE" THEN now + Term
                    ELSE IF event = "RENEW" THEN E!Null ELSE term.graceUntil
    <3>1. x \in Nat /\ y \in Nat /\ (event # "RENEW" => x = term.expiresAt)
      BY DEF SubscriptionInv, E!TypeOK, E!Terms, E!Null
    <3>2. term' = [term EXCEPT !.status = E!Transitions[event].to, !.expiresAt = x, !.graceUntil = y]
      BY DEF E!Move
    <3> HIDE DEF x, y
    <3>3. QED
      BY <3>1, <3>2, TransitionsAre DEF SubscriptionInv, E!TypeOK, E!Terms
  <2>2. AnswersOK' /\ lately' \in [2..4 -> 0..MaxDate]
    <3>1. E!Note(term', now') /\ now' = now /\ now \in now..MaxDate
      BY DEF E!Move, SubscriptionInv, E!TypeOK
    <3>2. UNCHANGED <<policy, ahead, cached, answer>>
      BY DEF E!Move, E!setting, E!request
    <3>3. QED
      BY <2>1, <3>1, <3>2, NoteKeeps DEF SubscriptionInv, AnswersOK
  <2>3. E!TypeOK'
    <3>1. moves' \in 0..MaxMoves
      BY DEF E!Move, SubscriptionInv, E!TypeOK
    <3>2. suspendedFrom' \in E!Statuses \cup {"none"}
      BY DEF E!Move, SubscriptionInv, E!TypeOK, E!Terms
    <3>3. lapsed' \in BOOLEAN
      <4>1. lapsed' \in {TRUE, FALSE, lapsed}
        BY DEF E!Move
      <4>2. QED
        BY <4>1 DEF SubscriptionInv, E!TypeOK
    <3>4. UNCHANGED <<policy, ahead, now, cached, pc, answer>>
      BY DEF E!Move, E!setting, E!request
    <3>5. QED
      BY <2>1, <2>2, <3>1, <3>2, <3>3, <3>4, RanksAre DEF SubscriptionInv, E!TypeOK
  <2>4. LapseOK'
    <3>1. now' = now
      BY DEF E!Move
    <3>2. term.status \in E!Transitions[event].from
      BY DEF E!Move
    <3>3. suspendedFrom' = IF event = "SUSPEND" THEN term.status ELSE "none"
      BY DEF E!Move
    <3>4. lapsed' = (IF event = "EXPIRE" THEN TRUE
                     ELSE IF event = "RENEW" \/ (event = "ACTIVATE" /\ term.status = "TRIAL")
                     THEN FALSE ELSE lapsed)
      BY DEF E!Move
    <3>5. CASE event = "SUSPEND"
      BY <2>1, <3>1, <3>2, <3>3, <3>4, <3>5, TransitionsAre
         DEF SubscriptionInv, LapseOK, Over, E!Passed, E!Statuses, E!Transitions
    <3>6. CASE event = "ACTIVATE"
      BY <2>1, <3>1, <3>2, <3>3, <3>4, <3>6, TransitionsAre
         DEF SubscriptionInv, LapseOK, Over, E!Passed, E!Statuses
    <3>7. CASE event = "RENEW"
      BY <2>1, <3>1, <3>2, <3>3, <3>4, <3>7, TransitionsAre
         DEF SubscriptionInv, LapseOK, Over, E!Passed, E!Statuses
    <3>8. CASE event \in {"MARK_PAST_DUE", "ENTER_GRACE"}
      BY <2>1, <3>1, <3>2, <3>3, <3>4, <3>8, TransitionsAre
         DEF SubscriptionInv, LapseOK, Over, E!Passed, E!Statuses
    <3>9. CASE event \in {"EXPIRE", "CANCEL"}
      BY <2>1, <3>1, <3>2, <3>3, <3>4, <3>9, TransitionsAre
         DEF SubscriptionInv, LapseOK, Over, E!Passed, E!Statuses
    <3>10. QED
      BY <3>5, <3>6, <3>7, <3>8, <3>9, TransitionsAre
  <2>5. PolicyOK(policy)'
    BY DEF E!Move, E!setting, SubscriptionInv, PolicyOK
  <2>6. QED
    BY <2>2, <2>3, <2>4, <2>5 DEF SubscriptionInv
<1>2. ASSUME E!Reactivate PROVE SubscriptionInv'
  <2> USE <1>2
  <2>1. /\ term' \in E!Terms
        /\ term'.status = suspendedFrom
        /\ suspendedFrom \in E!Statuses \ {"SUSPENDED", "CANCELLED"}
        /\ term'.trialEndsAt = term.trialEndsAt /\ term'.expiresAt = term.expiresAt
    BY DEF E!Reactivate, E!Reactivated, SubscriptionInv, LapseOK, E!TypeOK, E!Terms
  <2>2. AnswersOK' /\ lately' \in [2..4 -> 0..MaxDate]
    <3>1. E!Note(term', now') /\ now' = now /\ now \in now..MaxDate
      BY DEF E!Reactivate, SubscriptionInv, E!TypeOK
    <3>2. UNCHANGED <<policy, ahead, cached, answer>>
      BY DEF E!Reactivate, E!setting, E!request
    <3>3. QED
      BY <2>1, <3>1, <3>2, NoteKeeps DEF SubscriptionInv, AnswersOK
  <2>3. E!TypeOK'
    BY <2>1, <2>2, RanksAre DEF E!Reactivate, E!setting, E!request, SubscriptionInv, E!TypeOK
  <2>4. LapseOK'
    BY <2>1 DEF E!Reactivate, SubscriptionInv, LapseOK, Over, E!Passed
  <2>5. PolicyOK(policy)'
    BY DEF E!Reactivate, E!setting, SubscriptionInv, PolicyOK
  <2>6. QED
    BY <2>2, <2>3, <2>4, <2>5 DEF SubscriptionInv
<1>3. ASSUME E!Tick PROVE SubscriptionInv'
  <2> USE <1>3
  <2>1. now \in Nat /\ now' = now + 1 /\ now' \in now..MaxDate /\ now' \in 1..MaxDate
    BY DEF E!Tick, SubscriptionInv, E!TypeOK
  <2>2. AnswersOK' /\ lately' \in [2..4 -> 0..MaxDate]
    <3>1. term' \in E!Terms /\ E!Note(term', now')
      BY DEF E!Tick, E!subscription, SubscriptionInv, E!TypeOK
    <3>2. UNCHANGED <<policy, ahead, cached, answer>>
      BY DEF E!Tick, E!setting, E!request
    <3>3. \A r \in Requests : answer[r] # E!Nothing => now' <= answer[r].resolvedAt + Timeout
      <4> SUFFICES ASSUME NEW r \in Requests, answer[r] # E!Nothing
                   PROVE  now' <= answer[r].resolvedAt + Timeout
        OBVIOUS
      <4>1. answer[r].resolvedAt \in Nat
        BY DEF SubscriptionInv, E!TypeOK, E!Snapshots
      <4>2. now < answer[r].resolvedAt + Timeout
        BY DEF E!Tick
      <4>3. QED
        BY <2>1, <4>1, <4>2
    <3>4. QED
      BY <2>1, <3>1, <3>2, <3>3, NoteKeeps
  <2>3. E!TypeOK'
    BY <2>1, <2>2, RanksAre
       DEF E!Tick, E!setting, E!subscription, E!request, SubscriptionInv, E!TypeOK
  <2>4. LapseOK'
    <3>1. \A date \in Nat : E!Passed(date, now) => E!Passed(date, now')
      BY <2>1 DEF E!Passed
    <3>2. term.trialEndsAt \in Nat /\ term.expiresAt \in Nat
      BY DEF SubscriptionInv, E!TypeOK, E!Terms
    <3>3. UNCHANGED <<term, suspendedFrom>>
      BY DEF E!Tick, E!subscription
    <3>4. lapsed' = (lapsed \/ E!Passed(IF term.status = "TRIAL" THEN term.trialEndsAt
                                       ELSE term.expiresAt, now'))
      BY DEF E!Tick
    <3>5. lapsed => Over(IF term.status = "SUSPENDED" THEN suspendedFrom ELSE term.status)'
      BY <3>1, <3>2, <3>3 DEF SubscriptionInv, LapseOK, Over
    <3>6. CASE ~lapsed /\ term.status = "TRIAL"
      BY <3>3, <3>4, <3>6 DEF SubscriptionInv, LapseOK, Over
    <3>7. CASE ~lapsed /\ term.status # "TRIAL"
      <4>1. CASE E!Passed(term.expiresAt, now')
        <5>1. term.status = "SUSPENDED" => suspendedFrom # "TRIAL"
          BY <4>1 DEF SubscriptionInv, LapseOK, E!Passed
        <5>2. QED
          BY <3>3, <3>4, <3>7, <4>1, <5>1 DEF SubscriptionInv, LapseOK, Over
      <4>2. CASE ~E!Passed(term.expiresAt, now')
        BY <3>3, <3>4, <3>7, <4>2 DEF SubscriptionInv, LapseOK, Over
      <4>3. QED
        BY <4>1, <4>2
    <3>8. QED
      BY <3>3, <3>5, <3>6, <3>7 DEF SubscriptionInv, LapseOK
  <2>5. PolicyOK(policy)'
    BY DEF E!Tick, E!setting, SubscriptionInv, PolicyOK
  <2>6. QED
    BY <2>2, <2>3, <2>4, <2>5 DEF SubscriptionInv
<1>4. ASSUME NEW r \in Requests, NEW known \in BOOLEAN, E!Answer(r, known) PROVE SubscriptionInv'
  <2> DEFINE s == IF known THEN [term |-> term, resolvedAt |-> now] ELSE E!Nothing
  <2>1. s \in E!Snapshots
    BY NothingIs DEF E!Snapshots, SubscriptionInv, E!TypeOK
  <2>2. Told(s) /\ (s # E!Nothing => now <= s.resolvedAt + Timeout)
    BY DEF Told, SubscriptionInv, AnswersOK, E!TypeOK
  <2>3. answer' = [answer EXCEPT ![r] = s]
    BY <1>4 DEF E!Answer
  <2> HIDE DEF s
  <2>4. /\ UNCHANGED <<policy, ahead, now, term, suspendedFrom, moves, cached, lately, lapsed>>
        /\ pc' \in [Requests -> {"idle", "answered"}]
    BY <1>4 DEF E!Answer, E!Step, E!setting, E!subscription, E!history, SubscriptionInv, E!TypeOK
  <2>5. \A q \in Requests : answer'[q] = s \/ answer'[q] = answer[q]
    BY <2>3 DEF SubscriptionInv, E!TypeOK
  <2>6. E!TypeOK'
    BY <2>1, <2>3, <2>4 DEF SubscriptionInv, E!TypeOK
  <2>7. \A x : Told(x) => Told(x)'
    BY <2>4 DEF Told, E!Generous, E!EffectiveStatus, E!Passed, E!Null, E!Nothing, E!NoTerm
  <2>8. E!Generous(term, now)' = E!Generous(term, now)
    BY <2>4 DEF E!Generous, E!EffectiveStatus, E!Passed, E!Null
  <2>9. AnswersOK'
    BY <2>2, <2>4, <2>5, <2>7, <2>8 DEF SubscriptionInv, AnswersOK, E!Nothing, E!NoTerm, E!Null
  <2>10. LapseOK' /\ PolicyOK(policy)'
    BY <2>4 DEF SubscriptionInv, LapseOK, Over, E!Passed, PolicyOK
  <2>11. QED
    BY <2>6, <2>9, <2>10 DEF SubscriptionInv
<1>5. ASSUME NEW r \in Requests, E!Receive(r) \/ E!Unavailable(r) PROVE SubscriptionInv'
  <2>1. cached' \in {cached, answer[r]} /\ answer' = [answer EXCEPT ![r] = E!Nothing]
    BY <1>5 DEF E!Receive, E!Unavailable, E!Forget
  <2>2. /\ UNCHANGED <<policy, ahead, now, term, suspendedFrom, moves, lately, lapsed>>
        /\ pc' \in [Requests -> {"idle", "answered"}]
    BY <1>5 DEF E!Receive, E!Unavailable, E!Step, E!setting, E!subscription, E!history,
                SubscriptionInv, E!TypeOK
  <2>3. E!TypeOK'
    BY <2>1, <2>2, NothingIs DEF SubscriptionInv, E!TypeOK
  <2>4. \A x : Told(x) => Told(x)'
    BY <2>2 DEF Told, E!Generous, E!EffectiveStatus, E!Passed, E!Null, E!Nothing, E!NoTerm
  <2>5. E!Generous(term, now)' = E!Generous(term, now)
    BY <2>2 DEF E!Generous, E!EffectiveStatus, E!Passed, E!Null
  <2>6. Told(E!Nothing)
    BY DEF Told
  <2>7. \A q \in Requests : answer'[q] = E!Nothing \/ answer'[q] = answer[q]
    BY <2>1 DEF SubscriptionInv, E!TypeOK
  <2>8. AnswersOK'
    BY <2>1, <2>2, <2>4, <2>5, <2>6, <2>7
       DEF SubscriptionInv, AnswersOK, E!Nothing, E!NoTerm, E!Null
  <2>9. LapseOK' /\ PolicyOK(policy)'
    BY <2>2 DEF SubscriptionInv, LapseOK, Over, E!Passed, PolicyOK
  <2>10. QED
    BY <2>3, <2>8, <2>9 DEF SubscriptionInv
<1>6. QED
  BY <1>1, <1>2, <1>3, <1>4, <1>5 DEF E!Next

(* A lapse leaves a status below growth. *)
LEMMA LapseHolds == SubscriptionInv => E!LapseEndsGrowth
<1> SUFFICES ASSUME SubscriptionInv, lapsed
             PROVE  policy[E!EffectiveStatus(term, now)] < 4
  BY DEF E!LapseEndsGrowth, E!FULL
<1>1. term \in E!Terms /\ now \in Int /\ PolicyOK(policy)
  BY DEF SubscriptionInv, E!TypeOK
<1>2. \/ term.status \in {"GRACE_PERIOD", "EXPIRED", "SUSPENDED", "CANCELLED"}
      \/ term.status = "TRIAL" /\ E!Passed(term.trialEndsAt, now)
      \/ term.status \in {"ACTIVE", "PAST_DUE"} /\ E!Passed(term.expiresAt, now)
  BY <1>1 DEF SubscriptionInv, LapseOK, Over, E!Terms, E!Statuses
<1>3. E!EffectiveStatus(term, now) \in {"GRACE_PERIOD", "EXPIRED", "SUSPENDED", "CANCELLED"}
  <2>1. CASE term.status \in {"GRACE_PERIOD", "EXPIRED", "SUSPENDED", "CANCELLED"}
    BY <1>1, <2>1, EffectiveIs
  <2>2. CASE term.status = "TRIAL" /\ E!Passed(term.trialEndsAt, now)
    BY <1>1, <2>2, EffectiveIs
  <2>3. CASE term.status \in {"ACTIVE", "PAST_DUE"} /\ E!Passed(term.expiresAt, now)
    BY <1>1, <2>3, EffectiveIs
  <2>4. QED
    BY <1>2, <2>1, <2>2, <2>3
<1>4. QED
  BY <1>1, <1>3 DEF PolicyOK

(* What a snapshot grants, the service granted when it resolved it. *)
LEMMA GrantedWas ==
  ASSUME SubscriptionInv, NEW s \in E!Snapshots, s # E!Nothing, Told(s),
         NEW cap \in 0..4, NEW m \in 2..4, m = E!AccessModeOf(s, cap)
  PROVE  m <= cap /\ lately[m] >= s.resolvedAt /\ s.resolvedAt \in 1..now
<1>1. /\ s.term \in E!Terms /\ s.resolvedAt \in 1..now /\ now \in Nat /\ ahead \in Int
      /\ PolicyOK(policy)
  BY DEF SubscriptionInv, E!TypeOK, E!Snapshots, Told
<1> DEFINE p == policy[E!EffectiveStatus(s.term, now + ahead)]
           d == s.resolvedAt + E!Min({0, ahead})
<1>2. d \in Int /\ d <= now + ahead /\ now + ahead \in Int
  BY <1>1, MinOfTwo
<1> HIDE DEF d
<1>3. p \in 0..4 /\ p <= policy[E!EffectiveStatus(s.term, d)]
      /\ policy[E!EffectiveStatus(s.term, d)] \in 0..4
  BY <1>1, <1>2, AccessOnlyEnds
<1>4. m = E!Min({cap, p})
  BY DEF E!AccessModeOf, E!Stricter
<1> HIDE DEF p
<1>5. m <= cap /\ m <= p
  BY <1>3, <1>4, MinOfTwo
<1>6. E!Generous(s.term, s.resolvedAt) = policy[E!EffectiveStatus(s.term, d)]
  BY DEF E!Generous, d
<1>7. E!Generous(s.term, s.resolvedAt) >= m
  BY <1>3, <1>5, <1>6
<1>8. QED
  BY <1>1, <1>5, <1>7 DEF Told

(* The grace of a mode covers its horizon and the wait for an answer. *)
LEMMA GraceIs ==
  ASSUME NEW m \in 2..4
  PROVE  /\ E!Grace(m) \in Nat
         /\ E!Grace(m) >= Skew + Timeout
         /\ E!Grace(m) >= Skew + (IF m = 4 THEN FreshFor ELSE IF m = 3 THEN NoGrowthFor ELSE ReadOnlyFor)
<1> USE LicensingAssumption
<1>1. (CASE m = E!FULL -> FreshFor [] m = E!NO_GROWTH -> NoGrowthFor [] m = E!READ_ONLY -> ReadOnlyFor)
        = IF m = 4 THEN FreshFor ELSE IF m = 3 THEN NoGrowthFor ELSE ReadOnlyFor
  BY DEF E!FULL, E!NO_GROWTH, E!READ_ONLY
<1> DEFINE h == IF m = 4 THEN FreshFor ELSE IF m = 3 THEN NoGrowthFor ELSE ReadOnlyFor
<1>2. h \in Nat
  OBVIOUS
<1>3. E!Grace(m) = Skew + E!Max({Timeout, h})
  BY <1>1 DEF E!Grace
<1> HIDE DEF h
<1>4. E!Max({Timeout, h}) = IF Timeout >= h THEN Timeout ELSE h
  BY <1>2, MaxOfTwo
<1>5. E!Grace(m) \in Nat /\ E!Grace(m) >= Skew + Timeout /\ E!Grace(m) >= Skew + h
  BY <1>2, <1>3, <1>4
<1>6. QED
  BY <1>5 DEF h

(* Neither the snapshot kept nor an answer on its way outlives its grace. *)
LEMMA AccessEnds == SubscriptionInv => E!StaleAccessEnds
<1> USE LicensingAssumption
<1> SUFFICES ASSUME SubscriptionInv, NEW mode \in E!Grants \ {0, 1}
             PROVE  now - lately[mode] <= E!Grace(mode)
  BY DEF E!StaleAccessEnds, E!NONE, E!EXPORT_ONLY
<1>1. now \in Nat /\ ahead \in (-Skew)..Skew /\ lately \in [2..4 -> 0..MaxDate]
  BY RanksAre DEF SubscriptionInv, E!TypeOK
<1>2. ASSUME NEW cap \in 0..4 PROVE E!AccessModeOf(E!Nothing, cap) = 0
  BY <1>2, MinOfTwo DEF E!AccessModeOf, E!Stricter, E!NONE
<1>3. ASSUME NEW s \in E!Snapshots, NEW cap \in 0..4 PROVE E!AccessModeOf(s, cap) \in 0..4
  <2> DEFINE p == IF s = E!Nothing THEN 0 ELSE policy[E!EffectiveStatus(s.term, now + ahead)]
  <2>1. p \in 0..4
    <3>1. s.term \in E!Terms /\ now + ahead \in Int
      BY <1>1 DEF E!Snapshots
    <3>2. QED
      BY <3>1, EffectiveIs DEF SubscriptionInv, PolicyOK, E!Modes
  <2>2. E!AccessModeOf(s, cap) = E!Min({cap, p})
    BY DEF E!AccessModeOf, E!Stricter, E!NONE
  <2> HIDE DEF p
  <2>3. QED
    BY <2>1, <2>2, MinOfTwo
<1>4. CASE mode = E!AccessModeOf(cached, E!Cap)
  <2> DEFINE age == E!Age
  <2>1. cached \in E!Snapshots /\ Told(cached)
    BY DEF SubscriptionInv, E!TypeOK, AnswersOK
  <2>2. E!Cap \in 0..4
    BY DEF E!Cap, E!NONE, E!FULL, E!NO_GROWTH, E!READ_ONLY, E!EXPORT_ONLY
  <2>3. cached # E!Nothing /\ mode \in 2..4
    BY <1>2, <1>3, <1>4, <2>1, <2>2
  <2>4. mode <= E!Cap /\ lately[mode] >= cached.resolvedAt /\ cached.resolvedAt \in 1..now
    BY <1>4, <2>1, <2>2, <2>3, GrantedWas
  <2>5. cached.resolvedAt \in Nat /\ age \in Nat /\ age >= now + ahead - cached.resolvedAt
    BY <1>1, <2>1, MaxOfTwo DEF E!Age, E!Snapshots
  <2> HIDE DEF age
  <2>6. E!Cap = IF age <= FreshFor THEN 4 ELSE IF age <= NoGrowthFor THEN 3
                ELSE IF age <= ReadOnlyFor THEN 2 ELSE 1
    BY <2>3 DEF E!Cap, age, E!NONE, E!FULL, E!NO_GROWTH, E!READ_ONLY, E!EXPORT_ONLY
  <2>7. age <= (IF mode = 4 THEN FreshFor ELSE IF mode = 3 THEN NoGrowthFor ELSE ReadOnlyFor)
    BY <2>3, <2>4, <2>5, <2>6
  <2>8. lately[mode] \in Nat
    BY <1>1, <2>3
  <2>9. now - lately[mode] <= Skew + age
    BY <1>1, <2>4, <2>5, <2>8
  <2>10. QED
    BY <1>1, <2>3, <2>5, <2>7, <2>8, <2>9, GraceIs
<1>5. ASSUME NEW r \in Requests, mode = E!AccessModeOf(answer[r], 4)
      PROVE  now - lately[mode] <= E!Grace(mode)
  <2>1. answer[r] \in E!Snapshots /\ Told(answer[r])
    BY DEF SubscriptionInv, E!TypeOK, AnswersOK
  <2>2. answer[r] # E!Nothing /\ mode \in 2..4
    BY <1>2, <1>3, <1>5, <2>1
  <2>3. lately[mode] >= answer[r].resolvedAt /\ answer[r].resolvedAt \in 1..now
    BY <1>5, <2>1, <2>2, GrantedWas
  <2>4. now <= answer[r].resolvedAt + Timeout
    BY <2>2 DEF SubscriptionInv, AnswersOK
  <2>5. lately[mode] \in Nat /\ answer[r].resolvedAt \in Nat
    BY <1>1, <2>2, <2>3
  <2>6. QED
    BY <1>1, <2>2, <2>3, <2>4, <2>5, GraceIs
<1>6. QED
  BY <1>4, <1>5 DEF E!Grants, E!FULL

(* The steps of MCLicensing that are steps of Entitlements. *)
LEMMA SubscriptionMoves == SubscriptionNext => part' = part /\ part = "subscription" /\ E!Next
BY DEF SubscriptionNext, InSubscription, E!Next

(* What is left alone keeps the invariant. *)
LEMMA SubscriptionRest ==
  ASSUME SubscriptionInv, UNCHANGED <<policy, now, ofSubscription>>
  PROVE  SubscriptionInv'
<1>1. E!TypeOK'
  BY DEF SubscriptionInv, E!TypeOK, ofSubscription
<1>2. LapseOK' /\ PolicyOK(policy)'
  BY DEF SubscriptionInv, LapseOK, Over, E!Passed, PolicyOK, ofSubscription
<1>3. \A x : Told(x) => Told(x)'
  BY DEF Told, E!Generous, E!EffectiveStatus, E!Passed, E!Null, E!Nothing, E!NoTerm, ofSubscription
<1>4. E!Generous(term, now)' = E!Generous(term, now)
  BY DEF E!Generous, E!EffectiveStatus, E!Passed, E!Null, ofSubscription
<1>5. AnswersOK'
  BY <1>3, <1>4 DEF SubscriptionInv, AnswersOK, E!Nothing, E!NoTerm, E!Null, ofSubscription
<1>6. QED
  BY <1>1, <1>2, <1>5 DEF SubscriptionInv

-----------------------------------------------------------------------------
(* RevocationLists *)

(* A list published later revokes no less. *)
ListsOK ==
  /\ now \in Nat /\ lists \in Seq(V!Listing) /\ Len(lists) <= MaxSequence
  /\ \A i, j \in 1..Len(lists) : i <= j /\ lists[i].revokes => lists[j].revokes

(* What is stored or about to be is as new as ever, but for an older list  *)
(* that took the place of one that could not be read. *)
StoredOK ==
  /\ persisted \in {-1, 0} \cup 1..Len(lists)
  /\ toStore \in 0..Len(lists)
  /\ newest \in 0..Len(lists)
  /\ replaced \in BOOLEAN
  /\ ~replaced => /\ persisted = -1 \/ persisted = newest
                  /\ toStore # 0 => toStore >= newest

(* A licence has a term, and a policy lets nothing grow without one. *)
LicenceOK ==
  /\ licence.term \in V!Terms
  /\ policy \in [V!Statuses -> 0..4] /\ policy["SUSPENDED"] = 2 /\ policy["CANCELLED"] = 1
  /\ clock \in Int

ListsInv == ListsOK /\ StoredOK /\ LicenceOK

(* An installation starts without a list. *)
LEMMA ListsStart == V!Init => ListsInv
<1> SUFFICES ASSUME V!Init PROVE ListsInv
  OBVIOUS
<1> USE LicensingAssumption DEF V!Init
<1>1. ListsOK
  <2>1. Len(lists) = 0 /\ lists \in Seq(V!Listing)
    OBVIOUS
  <2>2. QED
    BY <2>1 DEF ListsOK
<1>2. StoredOK
  <2>1. Len(lists) = 0 /\ persisted = 0 /\ toStore = 0 /\ newest = 0
    BY DEF V!None
  <2>2. /\ persisted \in {-1, 0} \cup 1..Len(lists)
        /\ toStore \in 0..Len(lists) /\ newest \in 0..Len(lists)
    BY <2>1, SMT
  <2>3. replaced \in BOOLEAN
    OBVIOUS
  <2>4. QED
    BY <2>1, <2>2, <2>3 DEF StoredOK
<1>3. licence.term \in V!Terms /\ clock \in Int
  BY DEF V!FirstLicences, V!Terms, V!Statuses, V!Null
<1>4. \A p \in {V!DefaultPolicy, V!AccessPolicy("EXPIRED", V!NONE)} :
        p \in [V!Statuses -> 0..4] /\ p["SUSPENDED"] = 2 /\ p["CANCELLED"] = 1
  <2>1. /\ V!DefaultPolicy \in [V!Statuses -> 0..4]
        /\ V!DefaultPolicy["SUSPENDED"] = 2 /\ V!DefaultPolicy["CANCELLED"] = 1
        /\ V!DefaultPolicy["EXPIRED"] = 2
    BY DEF V!DefaultPolicy, V!Statuses, V!FULL, V!NO_GROWTH, V!READ_ONLY, V!EXPORT_ONLY
  <2>2. V!Stricter(V!DefaultPolicy["EXPIRED"], V!NONE) = 0
    BY <2>1, MinOfTwoV DEF V!Stricter, V!NONE
  <2>3. QED
    BY <2>1, <2>2 DEF V!AccessPolicy, V!NONE, V!Statuses
<1>5. QED
  BY <1>1, <1>2, <1>3, <1>4 DEF ListsInv, LicenceOK

(* Every list, file, clock, key and loss keeps the invariant. *)
LEMMA ListsStep ==
  ASSUME ListsInv, V!Next
  PROVE  ListsInv'
<1> USE LicensingAssumption DEF V!None, V!Unreadable, V!issuer, V!installation, V!stored, V!history
<1>1. ASSUME NEW k \in Kids, NEW revokes \in BOOLEAN, V!Publish(k, revokes)
      PROVE  ListsInv'
  <2> DEFINE l == [issuedAt |-> now, kid |-> k, revokes |-> revokes]
  <2>1. l \in V!Listing /\ l.revokes = revokes
    BY DEF V!Listing, ListsInv, ListsOK
  <2>2. lists' = Append(lists, l)
    BY <1>1 DEF V!Publish
  <2>3. lists # <<>> => revokes \/ ~lists[Len(lists)].revokes
    BY <1>1 DEF V!Publish
  <2> HIDE DEF l
  <2>4. /\ Len(lists) \in Nat /\ lists' \in Seq(V!Listing) /\ Len(lists') = Len(lists) + 1
        /\ lists'[Len(lists) + 1] = l
        /\ \A i \in 1..Len(lists) : lists'[i] = lists[i]
    BY <2>1, <2>2 DEF ListsInv, ListsOK
  <2>5. Len(lists') <= MaxSequence
    BY <1>1, <2>4 DEF V!Publish, ListsInv, ListsOK
  <2>6. ASSUME NEW i \in 1..Len(lists'), NEW j \in 1..Len(lists'), i <= j, lists'[i].revokes
        PROVE  lists'[j].revokes
    <3>1. CASE j <= Len(lists)
      BY <2>4, <2>6, <3>1 DEF ListsInv, ListsOK
    <3>2. CASE j = Len(lists) + 1 /\ i = j
      BY <2>6, <3>2
    <3>3. CASE j = Len(lists) + 1 /\ i < j
      <4>1. i \in 1..Len(lists) /\ Len(lists) \in 1..Len(lists) /\ lists # <<>>
        BY <2>4, <3>3 DEF ListsInv, ListsOK
      <4>2. lists[Len(lists)].revokes
        BY <2>4, <2>6, <4>1 DEF ListsInv, ListsOK
      <4>3. QED
        BY <2>1, <2>3, <2>4, <3>3, <4>1, <4>2
    <3>4. QED
      BY <2>4, <2>6, <3>1, <3>2, <3>3
  <2>7. ListsOK'
    BY <1>1, <2>4, <2>5, <2>6 DEF V!Publish, ListsInv, ListsOK
  <2>8. UNCHANGED <<persisted, toStore, newest, replaced, licence, policy, clock>>
    BY <1>1 DEF V!Publish
  <2>9. StoredOK' /\ LicenceOK'
    BY <2>4, <2>8 DEF ListsInv, StoredOK, LicenceOK
  <2>10. QED
    BY <2>7, <2>9 DEF ListsInv
<1>2. ASSUME NEW offered \in V!Files, V!Check(offered) PROVE ListsInv'
  <2>1. UNCHANGED <<now, lists, persisted, newest, licence, policy, clock>>
    BY <1>2 DEF V!Check
  <2>2. /\ toStore' = V!ToStore(offered)
        /\ replaced' = (replaced \/ (V!Lost /\ V!Taken(offered) /\ offered < newest))
    BY <1>2 DEF V!Check
  <2>3. offered \in Nat /\ newest \in Nat
    BY DEF V!Files, ListsInv, StoredOK
  <2>4. toStore' = 0 \/ (toStore' = offered /\ V!Taken(offered) /\ offered # V!Current)
    BY <2>2 DEF V!ToStore
  <2>5. V!Taken(offered) => offered \in 1..Len(lists) /\ offered >= V!Current
    BY DEF V!Taken, V!Verifies, ListsInv, ListsOK
  <2>6. toStore' \in 0..Len(lists)
    BY <2>4, <2>5 DEF ListsInv, ListsOK
  <2>7. replaced' \in BOOLEAN
    BY <2>2 DEF ListsInv, StoredOK
  <2>8. ASSUME ~replaced', toStore' # 0 PROVE toStore' >= newest
    <3>1. V!Taken(offered) /\ toStore' = offered /\ offered >= V!Current
      BY <2>4, <2>5, <2>8
    <3>2. CASE V!Lost
      <4>1. ~(offered < newest)
        BY <2>2, <2>8, <3>1, <3>2, Zenon
      <4>2. QED
        BY <2>3, <3>1, <4>1
    <3>3. CASE ~V!Lost /\ persisted = 0
      BY <2>2, <2>3, <2>8, <3>1, <3>3 DEF ListsInv, StoredOK
    <3>4. CASE ~V!Lost /\ persisted # 0
      <4>1. V!Current # 0 /\ V!Current = persisted
        BY <3>4 DEF V!Lost, V!Current
      <4>2. persisted \in 1..Len(lists)
        BY <4>1 DEF V!Current, V!Verifies, ListsInv, ListsOK
      <4>3. persisted = newest
        BY <2>2, <2>8, <4>2 DEF ListsInv, StoredOK
      <4>4. QED
        BY <3>1, <4>1, <4>3
    <3>5. QED
      BY <3>2, <3>3, <3>4
  <2>9. ~replaced' => ~replaced
    BY <2>2 DEF ListsInv, StoredOK
  <2>10. StoredOK'
    BY <2>1, <2>6, <2>7, <2>8, <2>9 DEF ListsInv, StoredOK
  <2>11. ListsOK' /\ LicenceOK'
    BY <2>1 DEF ListsInv, ListsOK, LicenceOK
  <2>12. QED
    BY <2>10, <2>11 DEF ListsInv
<1>3. ASSUME NEW t \in 1..MaxClock, V!SetClock(t) PROVE ListsInv'
  BY <1>3 DEF V!SetClock, ListsInv, ListsOK, StoredOK, LicenceOK
<1>4. ASSUME NEW k \in Kids, V!Withdraw(k) PROVE ListsInv'
  BY <1>4 DEF V!Withdraw, ListsInv, ListsOK, StoredOK, LicenceOK
<1>5. ASSUME V!Tick PROVE ListsInv'
  BY <1>5 DEF V!Tick, ListsInv, ListsOK, StoredOK, LicenceOK
<1>6. ASSUME V!Alter PROVE ListsInv'
  BY <1>6 DEF V!Alter, ListsInv, ListsOK, StoredOK, LicenceOK
<1>7. ASSUME V!Persist PROVE ListsInv'
  <2>1. UNCHANGED <<now, lists, licence, policy, clock, replaced>>
    BY <1>7 DEF V!Persist
  <2>2. toStore # 0 /\ persisted' = toStore /\ toStore' = 0
    BY <1>7 DEF V!Persist
  <2>3. newest' = IF newest >= toStore THEN newest ELSE toStore
    BY <1>7, MaxOfTwoV DEF V!Persist, ListsInv, StoredOK
  <2>4. StoredOK'
    BY <2>1, <2>2, <2>3 DEF ListsInv, ListsOK, StoredOK
  <2>5. ListsOK' /\ LicenceOK'
    BY <2>1 DEF ListsInv, ListsOK, LicenceOK
  <2>6. QED
    BY <2>4, <2>5 DEF ListsInv
<1>8. ASSUME V!Restart PROVE ListsInv'
  BY <1>8 DEF V!Restart, ListsInv, ListsOK, StoredOK, LicenceOK
<1>9. QED
  BY <1>1, <1>2, <1>3, <1>4, <1>5, <1>6, <1>7, <1>8 DEF V!Next

(* A check that finds the licence revoked lets nothing be written. *)
LEMMA RevokedReads ==
  ASSUME ListsInv, NEW list, V!Revoked(list)
  PROVE  V!ModeUnder(list) <= 2
<1>1. CASE licence.term.status = "CANCELLED"
  <2>1. V!EffectiveStatus(V!Applied(list), clock) = "CANCELLED"
    BY <1>1 DEF V!Applied, V!EffectiveStatus
  <2>2. QED
    BY <2>1 DEF V!ModeUnder, V!NONE, ListsInv, LicenceOK
<1>2. CASE licence.term.status # "CANCELLED"
  <2>1. V!Applied(list) \in V!Terms /\ V!Applied(list).status = "SUSPENDED"
    BY <1>2 DEF V!Applied, V!Terms, V!Statuses, ListsInv, LicenceOK
  <2>2. V!EffectiveStatus(V!Applied(list), clock) = "SUSPENDED"
    BY <2>1 DEF V!EffectiveStatus
  <2>3. QED
    BY <2>2 DEF V!ModeUnder, V!NONE, ListsInv, LicenceOK
<1>3. QED
  BY <1>1, <1>2

(* Whatever file is offered, the check finds a list that revokes, or takes  *)
(* an older one for the one it lost. *)
LEMMA RevocationHolding == ListsInv => V!RevocationSticks
<1> USE DEF V!None, V!Unreadable
<1> SUFFICES ASSUME ListsInv, newest # 0, lists[newest].revokes, ~replaced,
                    NEW offered \in V!Files
             PROVE  LET list == V!InForce(offered)
                    IN  \/ V!ModeUnder(list) <= V!READ_ONLY
                        \/ (V!Lost /\ list \notin {0, -1} /\ list < newest)
  BY DEF V!RevocationSticks, V!Outcomes
<1> USE DEF V!READ_ONLY
<1>1. newest \in 1..Len(lists) /\ (persisted = -1 \/ persisted = newest)
  BY DEF ListsInv, StoredOK
<1>2. \A i \in 1..Len(lists) : i >= newest => V!Revoked(i)
  BY <1>1 DEF ListsInv, ListsOK, V!Revoked
<1>3. offered \in Nat
  BY DEF V!Files
<1>4. CASE V!Taken(offered)
  <2>1. V!InForce(offered) = offered /\ offered \in 1..Len(lists) /\ offered >= V!Current
    BY <1>4 DEF V!InForce, V!Taken, V!Verifies, ListsInv, ListsOK
  <2>2. CASE offered >= newest
    BY <1>2, <2>1, <2>2, RevokedReads
  <2>3. CASE ~(offered >= newest)
    <3>1. V!Current = 0
      BY <1>1, <2>1, <2>3 DEF V!Current, V!Verifies, ListsInv, ListsOK
    <3>2. V!Lost
      BY <1>1, <3>1 DEF V!Lost
    <3>3. offered < newest /\ offered \notin {0, -1}
      BY <1>1, <1>3, <2>1, <2>3
    <3>4. QED
      BY <2>1, <3>2, <3>3
  <2>4. QED
    BY <2>2, <2>3
<1>5. CASE ~V!Taken(offered) /\ V!Lost
  <2>1. V!InForce(offered) = -1 /\ V!Revoked(-1)
    BY <1>5 DEF V!InForce, V!Revoked
  <2>2. QED
    BY <2>1, RevokedReads
<1>6. CASE ~V!Taken(offered) /\ ~V!Lost
  <2>1. V!InForce(offered) = V!Current
    BY <1>6 DEF V!InForce
  <2>2. V!Current # 0
    BY <1>1, <1>6 DEF V!Lost
  <2>3. V!Current = newest
    BY <1>1, <2>2 DEF V!Current, V!Verifies, ListsInv, ListsOK
  <2>4. QED
    BY <1>1, <1>2, <2>1, <2>3, RevokedReads
<1>7. QED
  BY <1>4, <1>5, <1>6

(* The steps of MCLicensing that are steps of RevocationLists. *)
LEMMA ListsMoves == ListsNext => part' = part /\ part = "lists" /\ V!Next
BY DEF ListsNext, InLists, V!Next

(* What is left alone keeps the invariant. *)
LEMMA ListsRest ==
  ASSUME ListsInv, UNCHANGED <<policy, now, ofLists>>
  PROVE  ListsInv'
BY DEF ListsInv, ListsOK, StoredOK, LicenceOK, ofLists

-----------------------------------------------------------------------------
(* The two ways to be licensed *)

licensingVars == <<part, policy, now, ofSubscription, ofLists>>

(* A behaviour of one way stays one. *)
LEMMA LicensingStays == ASSUME [LicensingNext]_licensingVars PROVE part' = part
BY SubscriptionMoves, ListsMoves DEF LicensingNext, licensingVars

(* The invariants hold throughout: of Entitlements, *)
LEMMA SubscriptionHold == LicensingSpec => [](part = "subscription" => SubscriptionInv)
<1>1. LicensingInit => (part = "subscription" => SubscriptionInv)
  BY SubscriptionStart DEF LicensingInit
<1>2. ASSUME part = "subscription" => SubscriptionInv, [LicensingNext]_licensingVars
      PROVE  (part = "subscription" => SubscriptionInv)'
  <2> SUFFICES ASSUME part = "subscription", SubscriptionInv PROVE SubscriptionInv'
    BY <1>2, LicensingStays
  <2>1. CASE SubscriptionNext
    BY <2>1, SubscriptionMoves, SubscriptionStep
  <2>2. CASE UNCHANGED licensingVars
    BY <2>2, SubscriptionRest DEF licensingVars
  <2>3. QED
    BY <1>2, <2>1, <2>2, ListsMoves DEF LicensingNext
<1>3. QED
  BY <1>1, <1>2, PTL DEF LicensingSpec, licensingVars

(* of RevocationLists. *)
LEMMA ListsHold == LicensingSpec => [](part = "lists" => ListsInv)
<1>1. LicensingInit => (part = "lists" => ListsInv)
  BY ListsStart DEF LicensingInit
<1>2. ASSUME part = "lists" => ListsInv, [LicensingNext]_licensingVars
      PROVE  (part = "lists" => ListsInv)'
  <2> SUFFICES ASSUME part = "lists", ListsInv PROVE ListsInv'
    BY <1>2, LicensingStays
  <2>1. CASE ListsNext
    BY <2>1, ListsMoves, ListsStep
  <2>2. CASE UNCHANGED licensingVars
    BY <2>2, ListsRest DEF licensingVars
  <2>3. QED
    BY <1>2, <2>1, <2>2, SubscriptionMoves DEF LicensingNext
<1>3. QED
  BY <1>1, <1>2, PTL DEF LicensingSpec, licensingVars

(* Entitlements: whatever the outage, and however late and in whatever     *)
(* order answers come, a product grants growth, writes and reads only for  *)
(* the freshness window and the two horizons after the service would. *)
THEOREM StaleAccessEndsCorrect == LicensingSpec => []StaleAccessEnds
<1>1. (part = "subscription" => SubscriptionInv) => StaleAccessEnds
  BY AccessEnds DEF StaleAccessEnds
<1>2. QED
  BY <1>1, SubscriptionHold, PTL

(* Entitlements: no order of events but a renewal brings a term back to    *)
(* growth whose end has come or was recorded. *)
THEOREM LapseEndsGrowthCorrect == LicensingSpec => []LapseEndsGrowth
<1>1. (part = "subscription" => SubscriptionInv) => LapseEndsGrowth
  BY LapseHolds DEF LapseEndsGrowth
<1>2. QED
  BY <1>1, SubscriptionHold, PTL

(* RevocationLists: a stored revocation outlives every file offered, every *)
(* clock, an altered list and a withdrawn key, unless an older list that   *)
(* still verifies takes the place of the one that does not. *)
THEOREM RevocationSticksCorrect == LicensingSpec => []RevocationSticks
<1>1. (part = "lists" => ListsInv) => RevocationSticks
  BY RevocationHolding DEF RevocationSticks
<1>2. QED
  BY <1>1, ListsHold, PTL
=============================================================================
