----------------------------- MODULE MCServices -----------------------------
(* Small instances for TLC of five parts that share no state: a behaviour is *)
(* one of ApiKeys, Devices, Notifications, BatchingSink or RoleHierarchy,    *)
(* and the variables of the others stay Unused.                              *)
EXTENDS TLC, Naturals, Parts

CONSTANTS
  KeyCalls, Keys, NoKey,
  DeviceCalls, Prints, NoPrint, NoDevice, Trust,
  MessageCalls, Replicas, Shared, NoCall, MaxTransports, MaxAttempts, Window,
  SinkCalls, MaxBatch, MaxRecords,
  Roles, NoRole, Star, NotAsked, MaxEdits,
  MaxTime

(* Times and bounds are numbers, and what stands for none is none.  A call *)
(* is made of a channel at least once.                                     *)
ASSUME ServicesAssumption ==
  /\ Trust \in Nat /\ Window \in Nat /\ MaxTime \in Nat \ {0}
  /\ MaxTransports \in Nat \ {0} /\ MaxAttempts \in Nat \ {0}
  /\ MaxRecords \in Nat
  /\ NoPrint \notin Prints /\ NoCall \notin MessageCalls /\ Shared \notin Replicas

VARIABLES
  \* of two parts or more:
  copy, raced,
  \* of ApiKeys, Devices, Notifications, BatchingSink and RoleHierarchy:
  record, due, key, revoked, late,
  devices, device, todo, distrusted,
  distributed, transports, claim, urgent, replica, transport, attempt, claimedAt, sent, freed, deaf,
  buffer, batch, mirror, given, failed, overlapped,
  roles, effective, edits, rejected

(* Across the sets, grants that cover each other and one that covers a     *)
(* narrower one, but not all the narrower one allows; and permissions that *)
(* some of them cover and some do not.                                     *)
Grants == {{<<"a", "b", Star>>, <<"c", Star>>}, {<<"a", Star, Star, Star>>, <<"c", Star, Star>>}}
Asked == {<<"a">>, <<"c">>, <<"a", "b">>, <<"a", "b", "c">>, <<"c", "c">>}

K == INSTANCE ApiKeys WITH Calls <- KeyCalls
D == INSTANCE Devices WITH Calls <- DeviceCalls
N == INSTANCE Notifications WITH Calls <- MessageCalls
B == INSTANCE BatchingSink WITH Calls <- SinkCalls
H == INSTANCE RoleHierarchy WITH GrantSets <- Grants, Checks <- Asked

ofKeys == <<record, due, key, revoked, late>>
ofDevices == <<devices, device, todo, distrusted>>
ofMessages == <<distributed, transports, claim, urgent, replica, transport, attempt,
                claimedAt, sent, freed, deaf>>
ofMirror == <<buffer, batch, mirror, given, failed, overlapped>>
ofRoles == <<roles, effective, edits, rejected>>

NoKeys == record = Unused /\ due = Unused /\ key = Unused /\ revoked = Unused /\ late = Unused
NoDevices == devices = Unused /\ device = Unused /\ todo = Unused /\ distrusted = Unused
NoMessages ==
  /\ distributed = Unused /\ transports = Unused /\ claim = Unused /\ urgent = Unused
  /\ replica = Unused /\ transport = Unused /\ attempt = Unused
  /\ claimedAt = Unused /\ sent = Unused /\ freed = Unused /\ deaf = Unused
NoMirror ==
  /\ buffer = Unused /\ batch = Unused /\ mirror = Unused /\ given = Unused
  /\ failed = Unused /\ overlapped = Unused
NoRoles == roles = Unused /\ effective = Unused /\ edits = Unused /\ rejected = Unused

Init ==
  \/ /\ part = "keys" /\ K!Init
     /\ NoDevices /\ NoMessages /\ NoMirror /\ NoRoles /\ now = Unused
  \/ /\ part = "devices" /\ D!Init
     /\ NoKeys /\ NoMessages /\ NoMirror /\ NoRoles
  \/ /\ part = "messages" /\ N!Init
     /\ NoKeys /\ NoDevices /\ NoMirror /\ NoRoles /\ copy = Unused /\ raced = Unused
  \/ /\ part = "mirror" /\ B!Init
     /\ NoKeys /\ NoDevices /\ NoMessages /\ NoRoles
     /\ now = Unused /\ copy = Unused /\ raced = Unused
  \/ /\ part = "roles" /\ H!Init
     /\ NoKeys /\ NoDevices /\ NoMessages /\ NoMirror
     /\ pc = Unused /\ now = Unused /\ copy = Unused /\ raced = Unused

-----------------------------------------------------------------------------
(* The actions of each part, one by one so that TLC counts each of them.     *)

InKeys == part = "keys" /\ UNCHANGED <<part, ofDevices, ofMessages, ofMirror, ofRoles, now>>

KeysNext ==
  \/ \E c \in KeyCalls :
       \/ \E k \in Keys :
            \/ InKeys /\ K!Create(c, k)
            \/ InKeys /\ K!FindToVerify(c, k)
            \/ InKeys /\ K!Refuse(c, k)
            \/ InKeys /\ K!FindToRevoke(c, k)
       \/ InKeys /\ K!WriteUsed(c)
       \/ InKeys /\ K!WriteRevoked(c)
  \/ \E k \in Keys : InKeys /\ K!Expire(k)

InDevices == part = "devices" /\ UNCHANGED <<part, ofKeys, ofMessages, ofMirror, ofRoles>>

DevicesNext ==
  \/ \E c \in DeviceCalls :
       \/ \E f \in Prints : InDevices /\ D!Recognize(c, f)
       \/ \E d \in DeviceCalls :
            \/ InDevices /\ D!GetToTrust(c, d)
            \/ InDevices /\ D!GetToUntrust(c, d)
            \/ InDevices /\ D!Forget(c, d)
       \/ InDevices /\ D!Touch(c)
       \/ InDevices /\ D!Register(c)
       \/ InDevices /\ D!SaveTrusted(c)
       \/ InDevices /\ D!List(c)
       \/ InDevices /\ D!ListDone(c)
       \/ InDevices /\ D!SaveUntrusted(c)
  \/ InDevices /\ D!Tick

InMessages == part = "messages" /\ UNCHANGED <<part, ofKeys, ofDevices, ofMirror, ofRoles, copy, raced>>

MessagesNext ==
  \/ \E c \in MessageCalls :
       \/ InMessages /\ N!Claim(c)
       \/ InMessages /\ N!Suppress(c)
       \/ InMessages /\ N!SendUrgent(c)
       \/ InMessages /\ N!Delivered(c)
       \/ InMessages /\ N!DeliveredUnheard(c)
       \/ InMessages /\ N!NotDelivered(c)
       \/ InMessages /\ N!NeverDelivered(c)
       \/ InMessages /\ N!NotifyFailed(c)
       \/ InMessages /\ N!NotifyFailedUnheard(c)
       \/ InMessages /\ N!Release(c)
  \/ \E r \in Replicas : InMessages /\ N!Crash(r)
  \/ InMessages /\ N!Evict
  \/ InMessages /\ N!Tick

InMirror == part = "mirror" /\ UNCHANGED <<part, ofKeys, ofDevices, ofMessages, ofRoles, now, copy, raced>>

MirrorNext ==
  \E c \in SinkCalls :
    \/ InMirror /\ B!Write(c)
    \/ InMirror /\ B!Flush(c)
    \/ InMirror /\ B!WriteInner(c)
    \/ InMirror /\ B!FailInner(c)
    \/ InMirror /\ B!FlushInner(c)

InRoles ==
  part = "roles" /\ UNCHANGED <<part, ofKeys, ofDevices, ofMessages, ofMirror, pc, now, copy, raced>>

RolesNext ==
  \E r \in Roles :
    \/ \E role \in H!Definition : InRoles /\ H!Add(r, role)
    \/ InRoles /\ H!Remove(r)
    \/ InRoles /\ H!Ask(r)

Next == KeysNext \/ DevicesNext \/ MessagesNext \/ MirrorNext \/ RolesNext

Spec ==
  Init /\ [][Next]_<<part, pc, now, copy, raced, ofKeys, ofDevices, ofMessages, ofMirror, ofRoles>>

(* The calls for a message are alike, and so are replicas. *)
Symmetry == Permutations(MessageCalls) \cup Permutations(Replicas)

-----------------------------------------------------------------------------
(* The properties of the parts *)

(* ApiKeys!RevocationHolds: a revocation that was answered is final. *)
RevocationHolds == part = "keys" => K!RevocationHolds

(* ApiKeys!KeyStaysRevoked: the same, with a verification under way. *)
KeyStaysRevoked == part = "keys" => K!KeyStaysRevoked

(* Devices!OneRecordEach: one client has one record. *)
OneRecordEach == part = "devices" => D!OneRecordEach

(* Devices!DistrustHolds: a stale write does not trust a distrusted client. *)
DistrustHolds == part = "devices" => D!DistrustHolds

(* Notifications!OneNotice: one notice within the window. *)
OneNotice == part = "messages" => N!OneNotice

(* Notifications!FailureIsRetried: a failed message may be sent again. *)
FailureIsRetried == part = "messages" => N!FailureIsRetried

(* BatchingSink!MirrorIsComplete: the mirror gets every record, in order. *)
MirrorIsComplete == part = "mirror" => B!MirrorIsComplete

(* RoleHierarchy!AnswersMatchRoles: a role allows what its roles allow. *)
AnswersMatchRoles == part = "roles" => H!AnswersMatchRoles
=============================================================================
