-------------------------- MODULE DeviceProvisioning --------------------------
(***************************************************************************)
(* The calls that provision, rotate and revoke the tracker device of one   *)
(* bus (application/bus/usecase/device_*.go) over the bus_devices table    *)
(* and the broker's access list.  The two are changed by separate calls in *)
(* no common transaction, and each call on them is one step here; any may  *)
(* fail, with or without having had its effect, and a request may die      *)
(* between two of them.  A provisioned device is named by its call.        *)
(***************************************************************************)
EXTENDS Naturals, FiniteSets

CONSTANTS
  Calls,      \* requests about the bus, each with a device identifier of its own
  MaxFaults,  \* bound: failed calls of store and broker, and requests that die
  Nil

ASSUME DeviceProvisioningAssumption == MaxFaults \in Nat /\ Nil \notin Calls /\ Calls # {}

VARIABLES
  kind,    \* call -> provision, rotate (RotateIfExists) or revoke
  pc,      \* call -> the next thing it does, or how it ended
  found,   \* call -> the active device it was told of, or Nil
  device,  \* device -> none, active or revoked: the row of the table
  acl,     \* external: the devices whose user the broker lets publish
  faults   \* how many faults have happened

vars == <<kind, pc, found, device, acl, faults>>

Kinds == {"provision", "rotate", "revoke"}

Ended == {"ok", "error", "crashed"}

Active == {d \in Calls : device[d] = "active"}

Fault == faults < MaxFaults /\ faults' = faults + 1

NoFault == faults' = faults

Goto(c, l) == pc' = [pc EXCEPT ![c] = l]

-----------------------------------------------------------------------------
Init ==
  /\ kind \in [Calls -> Kinds]
  /\ pc = [c \in Calls |-> "start"]
  /\ found = [c \in Calls |-> Nil]
  /\ device = [c \in Calls |-> "none"]
  /\ acl = {}
  /\ faults = 0

\* GetActiveByBusID, and what Provision and Revoke make of its answer.
GetActiveByBusID(c) ==
  /\ pc[c] = "start"
  /\ \/ /\ \E d \in Active : found' = [found EXCEPT ![c] = d]
        /\ Goto(c, IF kind[c] = "provision" THEN "error" ELSE "revoke")
        /\ NoFault
     \/ /\ Active = {}
        /\ Goto(c, IF kind[c] = "revoke" THEN "error" ELSE "create")
        /\ NoFault /\ UNCHANGED found
     \/ /\ Fault
        /\ Goto(c, "error")
        /\ UNCHANGED found
  /\ UNCHANGED <<kind, device, acl>>

\* UPDATE ... SET revoked_at WHERE device_id = d AND revoked_at IS NULL.
Revoked(d) == [device EXCEPT ![d] = IF @ = "active" THEN "revoked" ELSE @]

\* store.Revoke of the device found; a rotation ignores its error.
RevokeFound(c) ==
  /\ pc[c] = "revoke"
  /\ \/ /\ device' = Revoked(found[c])
        /\ Goto(c, "revokeACL")
        /\ NoFault
     \/ /\ device' \in {device, Revoked(found[c])}
        /\ Goto(c, IF kind[c] = "revoke" THEN "error" ELSE "revokeACL")
        /\ Fault
  /\ UNCHANGED <<kind, found, acl>>

\* broker.RevokeDeviceACL, whose error nobody looks at.
RevokeDeviceACL(c) ==
  /\ pc[c] = "revokeACL"
  /\ \/ acl' = acl \ {found[c]} /\ NoFault
     \/ acl' \in {acl, acl \ {found[c]}} /\ Fault
  /\ Goto(c, IF kind[c] = "revoke" THEN "ok" ELSE "create")
  /\ UNCHANGED <<kind, found, device>>

\* Mutant: the unique index is missing.
Bug_CreateUnchecked(c) ==
  /\ pc[c] = "create"
  /\ device' = [device EXCEPT ![c] = "active"]
  /\ Goto(c, "ensureACL")
  /\ NoFault
  /\ UNCHANGED <<kind, found, acl>>

\* store.Create, refused by the unique index while the bus has an active device.
Create(c) ==
  /\ pc[c] = "create"
  /\ \/ /\ Active = {}
        /\ device' = [device EXCEPT ![c] = "active"]
        /\ Goto(c, "ensureACL")
        /\ NoFault
     \/ /\ Active # {}
        /\ Goto(c, "error")
        /\ NoFault /\ UNCHANGED device
     \/ /\ \/ UNCHANGED device
           \/ Active = {} /\ device' = [device EXCEPT ![c] = "active"]
        /\ Goto(c, "error")
        /\ Fault
  /\ UNCHANGED <<kind, found, acl>>

\* Mutant: the broker's error is reported as success after the undoing.
Bug_UndoReportsSuccess(c) ==
  /\ pc[c] = "undo"
  /\ \/ device' = Revoked(c) /\ NoFault
     \/ device' \in {device, Revoked(c)} /\ Fault
  /\ Goto(c, "ok")
  /\ UNCHANGED <<kind, found, acl>>

\* Mutant: a failing broker ends the call at once.
Bug_NoUndo(c) ==
  /\ pc[c] = "ensureACL"
  /\ \/ acl' = acl \cup {c} /\ Goto(c, "ok") /\ NoFault
     \/ acl' \in {acl, acl \cup {c}} /\ Goto(c, "error") /\ Fault
  /\ UNCHANGED <<kind, found, device>>

\* broker.EnsureDeviceACL.
EnsureDeviceACL(c) ==
  /\ pc[c] = "ensureACL"
  /\ \/ acl' = acl \cup {c} /\ Goto(c, "ok") /\ NoFault
     \/ acl' \in {acl, acl \cup {c}} /\ Goto(c, "undo") /\ Fault
  /\ UNCHANGED <<kind, found, device>>

\* The record is revoked because the broker failed; that error is ignored too.
Undo(c) ==
  /\ pc[c] = "undo"
  /\ \/ device' = Revoked(c) /\ NoFault
     \/ device' \in {device, Revoked(c)} /\ Fault
  /\ Goto(c, "error")
  /\ UNCHANGED <<kind, found, acl>>

\* The process dies in the middle of the request.
Crash(c) ==
  /\ pc[c] \notin Ended \cup {"start"}
  /\ Goto(c, "crashed")
  /\ Fault
  /\ UNCHANGED <<kind, found, device, acl>>

Next == \E c \in Calls :
  \/ GetActiveByBusID(c)
  \/ RevokeFound(c)
  \/ RevokeDeviceACL(c)
  \/ Create(c)
  \/ EnsureDeviceACL(c)
  \/ Undo(c)
  \/ Crash(c)

Spec == Init /\ [][Next]_vars

-----------------------------------------------------------------------------
\* Type correctness.
TypeOK ==
  /\ kind \in [Calls -> Kinds]
  /\ pc \in [Calls -> Ended \cup {"start", "revoke", "revokeACL", "create", "ensureACL", "undo"}]
  /\ found \in [Calls -> Calls \cup {Nil}]
  /\ device \in [Calls -> {"none", "active", "revoked"}]
  /\ acl \subseteq Calls
  /\ faults \in 0..MaxFaults

\* A bus never has two active devices, however provisioning calls race, and rotations
\* that race, none of them failing, never leave it without one
\* (device_provisioning.go:86, 98).
OneActivePerBus ==
  /\ TypeOK
  /\ Cardinality(Active) <= 1
  /\ (faults = 0 /\ \A c \in Calls : pc[c] \in Ended /\ kind[c] # "revoke") => Active # {}

\* A device that was handed to its caller is active until some other call that was
\* told of it revokes it: no failure takes it away behind everybody's back.
ReportedDeviceLives ==
  \A c \in Calls :
    (pc[c] = "ok" /\ kind[c] # "revoke") =>
      (device[c] = "active" \/ \E o \in Calls : found[o] = c)

\* With a single fault, no call that reported an error leaves behind a device that is
\* active and may publish: the broker's failure is undone.
FailedDeviceIsUnusable ==
  faults <= 1 => \A c \in Calls : pc[c] = "error" => ~(device[c] = "active" /\ c \in acl)

\* How far call c has come bounds what it was told, what it may undo and what the
\* broker knows of its device.
CallSound(c) ==
  /\ pc[c] = "start" => found[c] = Nil
  /\ pc[c] \in {"create", "ensureACL", "undo"} => kind[c] # "revoke"
  /\ pc[c] \in {"undo", "crashed"} => faults > 0
  /\ pc[c] \in {"ensureACL", "undo"} =>
       (device[c] = "active" \/ \E o \in Calls : found[o] = c)
  /\ c \in acl => pc[c] \in {"undo", "ok", "error", "crashed"}

\* Without faults and revocations, a bus that has no device has a call that is still
\* going to create one.
SomeoneWillCreate ==
  (faults = 0 /\ \A c \in Calls : kind[c] # "revoke") =>
    (Active # {} \/ \E c \in Calls : pc[c] \in {"start", "revoke", "revokeACL", "create"})

\* The inductive invariant behind the three properties.
IInv ==
  /\ TypeOK
  /\ \A a, b \in Active : a = b
  /\ \A c \in Calls : CallSound(c)
  /\ SomeoneWillCreate
  /\ ReportedDeviceLives
  /\ FailedDeviceIsUnusable

=============================================================================
