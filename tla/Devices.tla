------------------------------ MODULE Devices ------------------------------
(***************************************************************************)
(* DeviceService (session/src/devices.ts) over the memory registry: one    *)
(* user's devices are recognised, trusted, distrusted and forgotten by     *)
(* requests on any replica.  A device is identified by the request that    *)
(* registered it, and one client, a fingerprint, should have one record.   *)
(* Each call is one request and runs once.                                 *)
(***************************************************************************)
EXTENDS Naturals

CONSTANTS
  Calls,
  Prints,      \* fingerprints
  NoPrint,     \* the fingerprint of no device
  NoDevice,    \* the device of a call that has none yet
  Trust,       \* trustDuration
  MaxTime      \* bound on the clock

VARIABLES
  now,
  devices,     \* the registry, by the id of a device
  pc, device,  \* where each call is, and the device it works on
  copy,        \* the record it read
  todo,        \* the devices an untrustAll has listed and not got to
  \* History, read by no guard of the code:
  distrusted,  \* fingerprints last distrusted or forgotten, not trusted since
  raced        \* calls that had read a record to trust when it was distrusted

registry == <<now, devices>>
call == <<pc, device, copy, todo>>
history == <<distrusted, raced>>
vars == <<registry, call, history>>

(* trustExpiresAt, or 0 for a device without trust. *)
Record == [print: Prints \cup {NoPrint}, until: Nat]
Absent == [print |-> NoPrint, until |-> 0]

TypeOK ==
  /\ now \in 1..MaxTime
  /\ devices \in [Calls -> Record]
  /\ pc \in [Calls -> {"idle", "register", "touch", "trust", "get", "untrust", "done"}]
  /\ device \in [Calls -> Calls \cup {NoDevice}]
  /\ copy \in [Calls -> Record]
  /\ todo \in [Calls -> SUBSET Calls]
  /\ distrusted \subseteq Prints /\ raced \subseteq Calls

Init ==
  /\ now = 1
  /\ devices = [d \in Calls |-> Absent]
  /\ pc = [c \in Calls |-> "idle"]
  /\ device = [c \in Calls |-> NoDevice]
  /\ copy = [c \in Calls |-> Absent]
  /\ todo = [c \in Calls |-> {}]
  /\ distrusted = {} /\ raced = {}

Step(c, from, to) == pc[c] = from /\ pc' = [pc EXCEPT ![c] = to]

Known == {d \in Calls : devices[d] # Absent}

-----------------------------------------------------------------------------
(* MemoryDeviceRegistry *)

(* Mutant of Saved: an upsert on the id alone. *)
SavedById(d, record) == [devices EXCEPT ![d] = record]

(* save: an upsert on the fingerprint, *)
Saved(d, record) ==
  [e \in Calls |-> IF e = d THEN record
                   ELSE IF devices[e].print = record.print THEN Absent ELSE devices[e]]

(* Mutant of Touched: the whole record that was read is written. *)
TouchedWhole(c) == Saved(device[c], copy[c])

(* touch: two fields that no decision reads, of a device that is there. *)
Touched(c) == devices

-----------------------------------------------------------------------------
(* recognize *)

Recognize(c, f) ==
  /\ pc[c] = "idle"
  /\ \/ \E d \in Known :
          /\ devices[d].print = f
          /\ Step(c, "idle", "touch")
          /\ device' = [device EXCEPT ![c] = d]
          /\ copy' = [copy EXCEPT ![c] = devices[d]]
     \/ /\ \A d \in Known : devices[d].print # f
        /\ Step(c, "idle", "register")
        /\ device' = [device EXCEPT ![c] = c]
        /\ copy' = [copy EXCEPT ![c] = [print |-> f, until |-> 0]]
  /\ UNCHANGED <<registry, todo, history>>

Touch(c) ==
  /\ Step(c, "touch", "done")
  /\ devices' = Touched(c)
  /\ UNCHANGED <<now, device, copy, todo, history>>

(* A new device, without trust. *)
Register(c) ==
  /\ Step(c, "register", "done")
  /\ devices' = Saved(c, copy[c])
  /\ UNCHANGED <<now, device, copy, todo, history>>

-----------------------------------------------------------------------------
(* trust, untrust and untrustAll *)

Get(c, d) ==
  /\ device' = [device EXCEPT ![c] = d]
  /\ copy' = [copy EXCEPT ![c] = devices[d]]

GetToTrust(c, d) ==
  /\ Step(c, "idle", "trust")
  /\ d \in Known
  /\ Get(c, d)
  /\ UNCHANGED <<registry, todo, history>>

SaveTrusted(c) ==
  /\ Step(c, "trust", "done")
  /\ devices' = Saved(device[c], [copy[c] EXCEPT !.until = now + Trust])
  /\ distrusted' = IF c \in raced THEN distrusted ELSE distrusted \ {copy[c].print}
  /\ UNCHANGED <<now, device, copy, todo, raced>>

(* Trust of f is withdrawn: a trust of it under way will be written over it. *)
Distrust(f) ==
  /\ distrusted' = distrusted \cup {f}
  /\ raced' = raced \cup {c \in Calls : pc[c] = "trust" /\ copy[c].print = f}

(* list; each of the devices with trust is read again. *)
List(c) ==
  /\ Step(c, "idle", "get")
  /\ todo' = [todo EXCEPT ![c] = {d \in Known : devices[d].until > 0}]
  /\ UNCHANGED <<registry, device, copy, history>>

ListDone(c) ==
  /\ Step(c, "get", "done")
  /\ todo[c] = {}
  /\ UNCHANGED <<registry, device, copy, todo, history>>

GetToUntrust(c, d) ==
  /\ pc[c] = "idle" \/ (pc[c] = "get" /\ d \in todo[c])
  /\ pc' = [pc EXCEPT ![c] = IF d \in Known THEN "untrust"
                             ELSE IF pc[c] = "get" THEN "get" ELSE "done"]
  /\ todo' = [todo EXCEPT ![c] = @ \ {d}]
  /\ Get(c, d)
  /\ UNCHANGED <<registry, history>>

SaveUntrusted(c) ==
  /\ Step(c, "untrust", IF todo[c] = {} THEN "done" ELSE "get")
  /\ devices' = Saved(device[c], [copy[c] EXCEPT !.until = 0])
  /\ Distrust(copy[c].print)
  /\ UNCHANGED <<now, device, copy, todo>>

Forget(c, d) ==
  /\ Step(c, "idle", "done")
  /\ d \in Known
  /\ devices' = [devices EXCEPT ![d] = Absent]
  /\ Distrust(devices[d].print)
  /\ UNCHANGED <<now, device, copy, todo>>

Tick ==
  /\ now < MaxTime
  /\ now' = now + 1
  /\ UNCHANGED <<devices, call, history>>

-----------------------------------------------------------------------------

Request(c) ==
  \/ \E f \in Prints : Recognize(c, f)
  \/ \E d \in Calls : GetToTrust(c, d) \/ GetToUntrust(c, d) \/ Forget(c, d)
  \/ Touch(c) \/ Register(c) \/ SaveTrusted(c) \/ List(c) \/ ListDone(c) \/ SaveUntrusted(c)

Next == (\E c \in Calls : Request(c)) \/ Tick

Spec == Init /\ [][Next]_vars

-----------------------------------------------------------------------------
(* Properties *)

(* isTrusted *)
Trusted(d) == now < devices[d].until

(* One client has one record, however many first sightings and stale       *)
(* writes of it race: nobody is asked to verify a device twice.            *)
OneRecordEach == \A d, e \in Known : devices[d].print = devices[e].print => d = e

(* A client that was distrusted or forgotten stays without trust, whatever *)
(* requests of it were in flight, until it is trusted by a call that began *)
(* after; only a trust that had read the record before can undo it.        *)
DistrustHolds ==
  \A d \in Known :
    Trusted(d) /\ devices[d].print \in distrusted =>
      \E c \in raced : pc[c] = "done" /\ copy[c].print = devices[d].print
=============================================================================
