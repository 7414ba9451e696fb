------------------------------ MODULE ApiKeys ------------------------------
(***************************************************************************)
(* ApiKeyService (auth/src/machine.ts) over its store: keys are created,   *)
(* verified and revoked by requests on any replica.  verify and revoke     *)
(* read a record, await, and write the whole record back.  Each call is    *)
(* one request and runs once.                                              *)
(***************************************************************************)
EXTENDS Naturals

CONSTANTS
  Calls,
  Keys,
  NoKey  \* the key of a call that has not begun

VARIABLES
  record, \* the stored keys
  due,    \* keys whose expiresAt has passed
  pc, key, copy, \* where each call is, its key, and the record it read
  \* History, read by no guard of the code:
  revoked,  \* keys a revoke has answered true for
  raced,    \* keys a verification was writing back when they were revoked
  late      \* calls that read their key after such an answer

stored == <<record, due>>
call == <<pc, key, copy>>
history == <<revoked, raced, late>>
vars == <<stored, call, history>>

Record == [state: {"absent", "live", "revoked"}, used: BOOLEAN]
Absent == [state |-> "absent", used |-> FALSE]

TypeOK ==
  /\ record \in [Keys -> Record] /\ due \subseteq Keys
  /\ pc \in [Calls -> {"idle", "use", "revoke", "accepted", "refused", "done"}]
  /\ key \in [Calls -> Keys \cup {NoKey}]
  /\ copy \in [Calls -> Record]
  /\ revoked \subseteq Keys /\ raced \subseteq Keys /\ late \subseteq Calls

Init ==
  /\ record = [k \in Keys |-> Absent] /\ due = {}
  /\ pc = [c \in Calls |-> "idle"]
  /\ key = [c \in Calls |-> NoKey]
  /\ copy = [c \in Calls |-> Absent]
  /\ revoked = {} /\ raced = {} /\ late = {}

Step(c, from, to) == pc[c] = from /\ pc' = [pc EXCEPT ![c] = to]

Find(c, k) ==
  /\ key' = [key EXCEPT ![c] = k]
  /\ copy' = [copy EXCEPT ![c] = record[k]]
  /\ late' = IF k \in revoked THEN late \cup {c} ELSE late

-----------------------------------------------------------------------------

Create(c, k) ==
  /\ record[k] = Absent
  /\ Step(c, "idle", "done")
  /\ record' = [record EXCEPT ![k].state = "live"]
  /\ UNCHANGED <<due, key, copy, history>>

(* verify's checks, after which the request is as good as let in. *)
Valid(k) == record[k].state = "live" /\ k \notin due

(* Mutant of Valid: the revocation is not looked at. *)
ValidUnlessDue(k) == record[k].state # "absent" /\ k \notin due

FindToVerify(c, k) ==
  /\ Step(c, "idle", "use")
  /\ Valid(k)
  /\ Find(c, k)
  /\ UNCHANGED <<stored, revoked, raced>>

(* Unknown, revoked or expired; of another secret, tenant or address. *)
Refuse(c, k) ==
  /\ Step(c, "idle", "refused")
  /\ Find(c, k)
  /\ UNCHANGED <<stored, revoked, raced>>

(* Last used is recorded with the record that was read. *)
WriteUsed(c) ==
  /\ Step(c, "use", "accepted")
  /\ record' = [record EXCEPT ![key[c]] = [copy[c] EXCEPT !.used = TRUE]]
  /\ UNCHANGED <<due, key, copy, history>>

FindToRevoke(c, k) ==
  /\ Step(c, "idle", IF record[k].state = "live" THEN "revoke" ELSE "done")
  /\ Find(c, k)
  /\ UNCHANGED <<stored, revoked, raced>>

(* Mutant of WriteRevoked: answers before it writes. *)
WriteRevokedNot(c) ==
  /\ Step(c, "revoke", "done")
  /\ revoked' = revoked \cup {key[c]}
  /\ raced' = IF \E d \in Calls : pc[d] = "use" /\ key[d] = key[c]
              THEN raced \cup {key[c]} ELSE raced
  /\ UNCHANGED <<stored, key, copy, late>>

WriteRevoked(c) ==
  /\ Step(c, "revoke", "done")
  /\ record' = [record EXCEPT ![key[c]] = [copy[c] EXCEPT !.state = "revoked"]]
  /\ revoked' = revoked \cup {key[c]}
  /\ raced' = IF \E d \in Calls : pc[d] = "use" /\ key[d] = key[c]
              THEN raced \cup {key[c]} ELSE raced
  /\ UNCHANGED <<due, key, copy, late>>

Expire(k) ==
  /\ record[k] # Absent /\ k \notin due
  /\ due' = due \cup {k}
  /\ UNCHANGED <<record, call, history>>

-----------------------------------------------------------------------------

Request(c) ==
  \/ \E k \in Keys : Create(c, k) \/ FindToVerify(c, k) \/ Refuse(c, k) \/ FindToRevoke(c, k)
  \/ WriteUsed(c) \/ WriteRevoked(c)

Next == (\E c \in Calls : Request(c)) \/ (\E k \in Keys : Expire(k))

Spec == Init /\ [][Next]_vars

-----------------------------------------------------------------------------
(* Properties *)

(* A key whose revocation was answered stays revoked, and no request that  *)
(* reads it afterwards is let in, unless a verification had read the key   *)
(* before and was yet to record its use.                                   *)
RevocationHolds ==
  \A k \in revoked \ raced :
    /\ record[k].state = "revoked"
    /\ \A c \in late : key[c] = k => pc[c] \notin {"use", "accepted"}

(* A claim of the repository that the code does not keep: docs/            *)
(* security-platform/distributed-hardening-report.md:67 accepts verify's   *)
(* write as "Purely informational. Last-writer-wins on a timestamp loses   *)
(* nothing".  It loses a revocation.                                       *)
KeyStaysRevoked == \A k \in revoked : record[k].state = "revoked"
=============================================================================
