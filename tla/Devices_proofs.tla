---------------------------- MODULE Devices_proofs ----------------------------
(***************************************************************************)
(* Proofs about handing out and revoking devices and their tokens.         *)
(* DeviceProvisioning: for any number of calls and of faults a bus has at  *)
(* most one active device, fault-free rotations leave it one, a device     *)
(* that was handed out lives until a call that was told of it revokes it,  *)
(* and a single fault leaves no failed device usable.                      *)
(* PushNotifications: for any devices, tokens, concurrent sends, batch     *)
(* size and number of retries a send revokes only devices of tokens the    *)
(* provider called invalid in it, none when it failed, has dealt with all  *)
(* such tokens when it succeeded, and brings a device at most one copy of  *)
(* the notification per attempt.                                           *)
(***************************************************************************)
EXTENDS DeviceProvisioning, PushNotifications, FiniteSetTheorems, SequenceTheorems, WellFoundedInduction, TLAPS

\* Nothing has been provisioned and every call is still to begin.
LEMMA InitIInv == Init => IInv
<1> SUFFICES ASSUME Init PROVE IInv
  OBVIOUS
<1>1. TypeOK
  BY DeviceProvisioningAssumption DEF Init, TypeOK
<1>2. Active = {}
  BY DEF Init, Active
<1>3. \A c \in Calls : CallSound(c)
  BY DEF Init, CallSound
<1>4. SomeoneWillCreate
  BY DeviceProvisioningAssumption DEF Init, SomeoneWillCreate
<1>5. ReportedDeviceLives /\ FailedDeviceIsUnusable
  BY DEF Init, ReportedDeviceLives, FailedDeviceIsUnusable
<1>6. QED
  BY <1>1, <1>2, <1>3, <1>4, <1>5 DEF IInv

\* A step that moves only call c, to label l.
LEMMA GotoMoves ==
  ASSUME TypeOK, NEW c \in Calls, NEW l, Goto(c, l)
  PROVE  pc'[c] = l /\ \A o \in Calls \ {c} : pc'[o] = pc[o]
BY DEF Goto, TypeOK

\* The lookup tells the call of the active device there is, and changes nothing else.
LEMMA LookupKeepsIInv ==
  ASSUME IInv, NEW c \in Calls, GetActiveByBusID(c)
  PROVE  IInv'
<1> USE DEF IInv
<1>1. /\ pc[c] = "start"
      /\ pc'[c] \in {"revoke", "create", "error"}
      /\ pc'[c] \in {"revoke", "create"} => faults' = faults
      /\ pc'[c] = "create" => kind[c] # "revoke"
      /\ \A o \in Calls \ {c} : pc'[o] = pc[o]
      /\ faults' \in 0..MaxFaults /\ faults' >= faults
      /\ pc'[c] = "error" => Active # {} \/ faults' > 0 \/ kind[c] = "revoke"
  BY DeviceProvisioningAssumption, GotoMoves
     DEF GetActiveByBusID, Goto, TypeOK, Kinds, Fault, NoFault
<1>2. /\ \A o \in Calls \ {c} : found'[o] = found[o]
      /\ found' \in [Calls -> Calls \cup {Nil}]
      /\ found[c] = Nil
      /\ UNCHANGED <<kind, device, acl>> /\ Active' = Active
  BY <1>1 DEF GetActiveByBusID, TypeOK, Active, CallSound
<1>3. TypeOK'
  BY <1>1, <1>2 DEF TypeOK, GetActiveByBusID, Goto, Ended
<1>4. \A d \in Calls : (\E o \in Calls : found[o] = d) => \E o \in Calls : found'[o] = d
  BY <1>2, DeviceProvisioningAssumption
<1>5. \A o \in Calls : CallSound(o)'
  BY <1>1, <1>2, <1>3, <1>4 DEF CallSound, TypeOK
<1>6. SomeoneWillCreate'
  BY <1>1, <1>2, <1>3 DEF SomeoneWillCreate, TypeOK
<1>7. ReportedDeviceLives'
  BY <1>1, <1>2, <1>4 DEF ReportedDeviceLives
<1>8. FailedDeviceIsUnusable'
  BY <1>1, <1>2, <1>3 DEF FailedDeviceIsUnusable, CallSound, TypeOK
<1>9. QED
  BY <1>2, <1>3, <1>5, <1>6, <1>7, <1>8

\* Revoking a row touches that row only, and activates none.
LEMMA RevokedRows ==
  ASSUME TypeOK, NEW d
  PROVE  /\ Revoked(d) \in [Calls -> {"none", "active", "revoked"}]
         /\ \A c \in Calls : c # d => Revoked(d)[c] = device[c]
         /\ \A c \in Calls : Revoked(d)[c] = "active" => device[c] = "active" /\ c # d
BY DEF Revoked, TypeOK

\* Revoking the device found takes it away from a bus whose caller goes on to create
\* another one, or was asked to revoke.
LEMMA RevokeFoundKeepsIInv ==
  ASSUME IInv, NEW c \in Calls, RevokeFound(c)
  PROVE  IInv'
<1> USE DEF IInv
<1>1. /\ pc[c] = "revoke"
      /\ pc'[c] \in {"revokeACL", "error"}
      /\ pc'[c] = "error" => kind[c] = "revoke"
      /\ \A o \in Calls \ {c} : pc'[o] = pc[o]
      /\ faults' \in 0..MaxFaults /\ faults' >= faults
  BY DeviceProvisioningAssumption, GotoMoves DEF RevokeFound, TypeOK, Fault, NoFault
<1>2. UNCHANGED <<kind, found, acl>> /\ device' \in {device, Revoked(found[c])}
  BY DEF RevokeFound
<1>3. /\ device' \in [Calls -> {"none", "active", "revoked"}]
      /\ \A o \in Calls : device'[o] = "active" => device[o] = "active"
      /\ \A o \in Calls : device[o] = "active" => device'[o] = "active" \/ found'[c] = o
  BY <1>2, RevokedRows DEF TypeOK
<1>4. TypeOK'
  BY <1>1, <1>2, <1>3 DEF TypeOK, RevokeFound, Goto, Ended
<1>5. \A a, b \in Active' : a = b
  BY <1>3 DEF Active
<1>6. \A o \in Calls : CallSound(o)'
  BY <1>1, <1>2, <1>3, <1>4 DEF CallSound, TypeOK
<1>7. SomeoneWillCreate'
  BY <1>1, <1>2 DEF SomeoneWillCreate
<1>8. ReportedDeviceLives'
  BY <1>1, <1>2, <1>3 DEF ReportedDeviceLives
<1>9. FailedDeviceIsUnusable'
  BY <1>1, <1>2, <1>3, <1>4 DEF FailedDeviceIsUnusable, CallSound, TypeOK
<1>10. QED
  BY <1>4, <1>5, <1>6, <1>7, <1>8, <1>9

\* The broker forgets a device, or does not.
LEMMA RevokeDeviceACLKeepsIInv ==
  ASSUME IInv, NEW c \in Calls, RevokeDeviceACL(c)
  PROVE  IInv'
<1> USE DEF IInv
<1>1. /\ pc[c] = "revokeACL"
      /\ pc'[c] = IF kind[c] = "revoke" THEN "ok" ELSE "create"
      /\ \A o \in Calls \ {c} : pc'[o] = pc[o]
      /\ faults' \in 0..MaxFaults /\ faults' >= faults
  BY DeviceProvisioningAssumption, GotoMoves DEF RevokeDeviceACL, TypeOK, Fault, NoFault
<1>2. UNCHANGED <<kind, found, device>> /\ acl' \subseteq acl /\ Active' = Active
  BY DEF RevokeDeviceACL, Active
<1>3. TypeOK'
  BY <1>1, <1>2 DEF TypeOK, RevokeDeviceACL, Goto, Ended
<1>4. \A o \in Calls : CallSound(o)'
  BY <1>1, <1>2, <1>3 DEF CallSound, TypeOK
<1>5. SomeoneWillCreate'
  BY <1>1, <1>2, <1>3 DEF SomeoneWillCreate, TypeOK
<1>6. ReportedDeviceLives'
  BY <1>1, <1>2 DEF ReportedDeviceLives
<1>7. FailedDeviceIsUnusable'
  BY <1>1, <1>2, <1>3 DEF FailedDeviceIsUnusable, TypeOK
<1>8. QED
  BY <1>2, <1>3, <1>4, <1>5, <1>6, <1>7

\* The unique index lets a device in only where there is none.
LEMMA CreateKeepsIInv ==
  ASSUME IInv, NEW c \in Calls, Create(c)
  PROVE  IInv'
<1> USE DEF IInv
<1>1. /\ pc[c] = "create"
      /\ pc'[c] \in {"ensureACL", "error"}
      /\ \A o \in Calls \ {c} : pc'[o] = pc[o]
      /\ faults' \in 0..MaxFaults /\ faults' >= faults
      /\ UNCHANGED <<kind, found, acl>>
  BY DeviceProvisioningAssumption, GotoMoves DEF Create, TypeOK, Fault, NoFault
<1>2. /\ \/ device' = device
         \/ Active = {} /\ device' = [device EXCEPT ![c] = "active"]
      /\ pc'[c] = "ensureACL" => Active = {} /\ device' = [device EXCEPT ![c] = "active"]
      /\ pc'[c] = "error" => faults' > 0 \/ (Active # {} /\ device' = device)
  BY GotoMoves DEF Create, Fault, TypeOK
<1>3. /\ device' \in [Calls -> {"none", "active", "revoked"}]
      /\ \A o \in Calls : device[o] = "active" => device'[o] = "active"
      /\ \A o \in Calls \ {c} : device'[o] = device[o]
      /\ pc'[c] = "ensureACL" => device'[c] = "active"
  BY <1>2 DEF TypeOK
<1>4. TypeOK'
  BY <1>1, <1>3 DEF TypeOK, Create, Goto, Ended
<1>5. \A a, b \in Active' : a = b
  BY <1>2, <1>3 DEF Active
<1>6. \A o \in Calls : CallSound(o)'
  BY <1>1, <1>3, <1>4 DEF CallSound, TypeOK
<1>7. SomeoneWillCreate'
  <2>1. pc'[c] = "ensureACL" => Active' # {}
    BY <1>3 DEF Active
  <2>2. Active # {} => Active' # {}
    BY <1>3 DEF Active
  <2>3. QED
    BY <1>1, <1>2, <1>4, <2>1, <2>2 DEF SomeoneWillCreate, TypeOK
<1>8. ReportedDeviceLives'
  BY <1>1, <1>3 DEF ReportedDeviceLives
<1>9. FailedDeviceIsUnusable'
  BY <1>1, <1>3, <1>4 DEF FailedDeviceIsUnusable, CallSound, TypeOK
<1>10. QED
  BY <1>4, <1>5, <1>6, <1>7, <1>8, <1>9

\* The broker lets the device in, or fails, and then the record is undone next.
LEMMA EnsureDeviceACLKeepsIInv ==
  ASSUME IInv, NEW c \in Calls, EnsureDeviceACL(c)
  PROVE  IInv'
<1> USE DEF IInv
<1>1. /\ pc[c] = "ensureACL"
      /\ pc'[c] = "ok" \/ (pc'[c] = "undo" /\ faults' > 0)
      /\ \A o \in Calls \ {c} : pc'[o] = pc[o]
      /\ faults' \in 0..MaxFaults /\ faults' >= faults
  BY DeviceProvisioningAssumption, GotoMoves DEF EnsureDeviceACL, TypeOK, Fault, NoFault
<1>2. UNCHANGED <<kind, found, device>> /\ acl' \subseteq acl \cup {c} /\ Active' = Active
  BY DEF EnsureDeviceACL, Active
<1>3. TypeOK'
  BY <1>1, <1>2 DEF TypeOK, EnsureDeviceACL, Goto, Ended
<1>4. \A o \in Calls : CallSound(o)'
  BY <1>1, <1>2, <1>3 DEF CallSound, TypeOK
<1>5. SomeoneWillCreate'
  BY <1>1, <1>2, <1>3 DEF SomeoneWillCreate, TypeOK
<1>6. ReportedDeviceLives'
  BY <1>1, <1>2 DEF ReportedDeviceLives, CallSound
<1>7. FailedDeviceIsUnusable'
  BY <1>1, <1>2, <1>3 DEF FailedDeviceIsUnusable, TypeOK
<1>8. QED
  BY <1>2, <1>3, <1>4, <1>5, <1>6, <1>7

\* The record is undone because of one fault; leaving it active takes a second.
LEMMA UndoKeepsIInv ==
  ASSUME IInv, NEW c \in Calls, Undo(c)
  PROVE  IInv'
<1> USE DEF IInv
<1>1. /\ pc[c] = "undo" /\ pc'[c] = "error" /\ faults > 0
      /\ \A o \in Calls \ {c} : pc'[o] = pc[o]
      /\ faults' \in 0..MaxFaults /\ faults' >= faults
      /\ UNCHANGED <<kind, found, acl>> /\ device' \in {device, Revoked(c)}
      /\ device' = Revoked(c) \/ faults' > 1
  BY DeviceProvisioningAssumption, GotoMoves DEF Undo, TypeOK, Fault, NoFault, CallSound
<1>2. /\ device' \in [Calls -> {"none", "active", "revoked"}]
      /\ \A o \in Calls : device'[o] = "active" => device[o] = "active"
      /\ \A o \in Calls \ {c} : device'[o] = device[o]
      /\ device'[c] # "active" \/ faults' > 1
  BY <1>1, RevokedRows DEF TypeOK
<1>3. TypeOK'
  BY <1>1, <1>2 DEF TypeOK, Undo, Goto, Ended
<1>4. \A a, b \in Active' : a = b
  BY <1>2 DEF Active
<1>5. \A o \in Calls : CallSound(o)'
  BY <1>1, <1>2, <1>3 DEF CallSound, TypeOK
<1>6. SomeoneWillCreate'
  BY <1>1, <1>3 DEF SomeoneWillCreate, TypeOK
<1>7. ReportedDeviceLives'
  BY <1>1, <1>2 DEF ReportedDeviceLives
<1>8. FailedDeviceIsUnusable'
  BY <1>1, <1>2, <1>3 DEF FailedDeviceIsUnusable, TypeOK
<1>9. QED
  BY <1>3, <1>4, <1>5, <1>6, <1>7, <1>8

\* A request that dies leaves everything as it was.
LEMMA CrashKeepsIInv ==
  ASSUME IInv, NEW c \in Calls, Crash(c)
  PROVE  IInv'
<1> USE DEF IInv
<1>1. /\ pc'[c] = "crashed" /\ pc[c] # "start" /\ faults' > 0
      /\ \A o \in Calls \ {c} : pc'[o] = pc[o]
      /\ faults' \in 0..MaxFaults /\ faults' >= faults
      /\ UNCHANGED <<kind, found, device, acl>> /\ Active' = Active
  BY DeviceProvisioningAssumption, GotoMoves DEF Crash, TypeOK, Fault, Active
<1>2. TypeOK'
  BY <1>1 DEF TypeOK, Crash, Goto, Ended
<1>3. \A o \in Calls : CallSound(o)'
  BY <1>1, <1>2 DEF CallSound, TypeOK
<1>4. SomeoneWillCreate'
  BY <1>1, <1>2 DEF SomeoneWillCreate, TypeOK
<1>5. ReportedDeviceLives' /\ FailedDeviceIsUnusable'
  BY <1>1, <1>2 DEF ReportedDeviceLives, FailedDeviceIsUnusable, TypeOK
<1>6. QED
  BY <1>1, <1>2, <1>3, <1>4, <1>5

\* Every step of every call keeps the invariant.
LEMMA NextKeepsIInv == IInv /\ [Next]_vars => IInv'
<1> SUFFICES ASSUME IInv, [Next]_vars PROVE IInv'
  OBVIOUS
<1>1. CASE UNCHANGED vars
  BY <1>1 DEF vars, IInv, TypeOK, Active, CallSound, SomeoneWillCreate, ReportedDeviceLives,
              FailedDeviceIsUnusable
<1>2. CASE Next
  BY <1>2, LookupKeepsIInv, RevokeFoundKeepsIInv, RevokeDeviceACLKeepsIInv, CreateKeepsIInv,
     EnsureDeviceACLKeepsIInv, UndoKeepsIInv, CrashKeepsIInv DEF Next
<1>3. QED
  BY <1>1, <1>2

\* The invariant holds throughout.
THEOREM IInvHolds == Spec => []IInv
BY InitIInv, NextKeepsIInv, PTL DEF Spec

\* Rows that are all the same row are at most one.
LEMMA AtMostOneActive ==
  ASSUME \A a, b \in Active : a = b
  PROVE  Cardinality(Active) <= 1
<1>1. CASE Active = {}
  BY <1>1, FS_EmptySet
<1>2. CASE Active # {}
  <2>1. PICK a : Active = {a}
    BY <1>2
  <2>2. Cardinality({a}) = 1
    BY FS_Singleton, Zenon
  <2>3. QED
    BY <2>1, <2>2
<1>3. QED
  BY <1>1, <1>2

\* However calls race, a bus has at most one active device, and fault-free rotations
\* and provisionings that have all ended leave it one.
THEOREM OneActiveDevice == Spec => []OneActivePerBus
<1>1. ASSUME IInv PROVE OneActivePerBus
  BY <1>1, AtMostOneActive DEF IInv, SomeoneWillCreate, Ended, OneActivePerBus
<1>2. QED
  BY <1>1, IInvHolds, PTL

\* A device that was handed to its caller is revoked only by a call that was told of it.
THEOREM ReportedDevicesLive == Spec => []ReportedDeviceLives
<1>1. IInv => ReportedDeviceLives
  BY DEF IInv
<1>2. QED
  BY <1>1, IInvHolds, PTL

\* One fault leaves no failed call's device both active and admitted by the broker.
THEOREM FailedDevicesAreUnusable == Spec => []FailedDeviceIsUnusable
<1>1. IInv => FailedDeviceIsUnusable
  BY DEF IInv
<1>2. QED
  BY <1>1, IInvHolds, PTL

-----------------------------------------------------------------------------
\* Push notifications.  Greatest and least of a set, and orders of one.

\* The smaller of two.
LEMMA MinOfTwo ==
  ASSUME NEW a \in Int, NEW b \in Int
  PROVE  Min({a, b}) \in {a, b} /\ Min({a, b}) <= a /\ Min({a, b}) <= b
<1>1. \E x \in {a, b} : \A y \in {a, b} : x <= y
  OBVIOUS
<1>. QED BY <1>1 DEF Min

\* The end of an interval.
LEMMA MaxOfInterval ==
  ASSUME NEW a \in Int, NEW b \in Int, a <= b
  PROVE  Max(a..b) = b
<1>1. b \in a..b /\ \A y \in a..b : b >= y
  OBVIOUS
<1>2. \A x \in a..b : (\A y \in a..b : x >= y) => x = b
  BY <1>1
<1>. QED BY <1>1, <1>2 DEF Max

\* A bounded set of numbers has a greatest one.
LEMMA MaxOfBounded ==
  ASSUME NEW n \in Nat, NEW S, S \subseteq 1..n, S # {}
  PROVE  Max(S) \in S
<1> DEFINE T == {m \in Nat : \A y \in S : y <= m}
<1>1. n \in T
  OBVIOUS
<1>2. PICK m \in T : \A y \in T : ~(<<y, m>> \in OpToRel(<, Nat))
  BY <1>1, NatLessThanWellFounded, WFMin, Zenon
<1>3. m \in T /\ \A y \in T : ~(y < m)
  BY <1>2 DEF OpToRel
<1>4. m \in S
  <2>1. SUFFICES ASSUME m \notin S PROVE FALSE
    OBVIOUS
  <2>2. PICK y \in S : TRUE
    OBVIOUS
  <2>3. y <= m /\ y \in 1..n /\ m \in Nat
    BY <1>3, <2>2
  <2>4. m - 1 \in Nat
    BY <2>3
  <2>5. \A z \in S : z \in Int /\ z <= m /\ z # m
    BY <1>3, <2>1
  <2>6. \A z \in S : z <= m - 1
    BY <2>3, <2>5
  <2>. QED BY <1>3, <2>4, <2>6
<1>5. \E x \in S : \A y \in S : x >= y
  BY <1>3, <1>4
<1>. QED BY <1>5 DEF Max

\* An order of a finite set names each of its members.
LEMMA OrdersAreOnto ==
  ASSUME NEW S, IsFiniteSet(S), NEW f \in SetToSeqs(S)
  PROVE  /\ Cardinality(S) \in Nat
         /\ f \in [1..Cardinality(S) -> S]
         /\ \A x \in S : \E k \in 1..Cardinality(S) : f[k] = x
         /\ \A k, l \in 1..Cardinality(S) : f[k] = f[l] => k = l
<1>1. Cardinality(S) \in Nat
  BY FS_CardinalityType
<1>2. /\ f \in [1..Cardinality(S) -> S]
      /\ \A k, l \in 1..Cardinality(S) : k # l => f[k] # f[l]
  BY DEF SetToSeqs
<1>3. f \in Injection(1..Cardinality(S), S)
  BY <1>2 DEF Injection, IsInjective
<1>4. Cardinality(1..Cardinality(S)) = Cardinality(S)
  BY <1>1, FS_Interval
<1>5. f \in Surjection(1..Cardinality(S), S)
  BY <1>3, <1>4, FS_Injection
<1>. QED BY <1>1, <1>2, <1>5 DEF Surjection

-----------------------------------------------------------------------------
\* A send that has a next record of its own, beside whatever else a step does.
LEMMA SendKeeps ==
  ASSUME PushInv, NEW s \in Senders, NEW q \in SendRecord, ReportSound(q), CopiesSound(q),
         send' = [send EXCEPT ![s] = q],
         rows' \in [Devices -> {NoToken} \cup Tokens],
         prefs' \in {"on", "off"}, dead' \subseteq Apps
  PROVE  PushInv'
<1>1. send \in [Senders -> SendRecord] /\ \A x \in Senders : ReportSound(send[x]) /\ CopiesSound(send[x])
  BY DEF PushInv, PushTypeOK
<1>2. send' \in [Senders -> SendRecord] /\ \A x \in Senders : send'[x] = IF x = s THEN q ELSE send[x]
  BY <1>1
<1>3. \A x \in Senders : ReportSound(send'[x]) /\ CopiesSound(send'[x])
  BY <1>1, <1>2
<1>4. PushTypeOK'
  BY <1>2 DEF PushTypeOK
<1>. QED BY <1>3, <1>4 DEF PushInv

\* Steps that leave the sends alone.
LEMMA TablesKeep ==
  ASSUME PushInv, UNCHANGED send,
         rows' \in [Devices -> {NoToken} \cup Tokens],
         prefs' \in {"on", "off"}, dead' \subseteq Apps
  PROVE  PushInv'
<1>1. PushTypeOK'
  BY DEF PushInv, PushTypeOK
<1>2. \A x \in Senders : ReportSound(send'[x]) /\ CopiesSound(send'[x])
  BY DEF PushInv
<1>. QED BY <1>1, <1>2 DEF PushInv

LEMMA RegisterKeeps ==
  ASSUME PushInv, NEW d \in Devices, NEW t \in Tokens, Register(d, t)
  PROVE  PushInv'
BY TablesKeep DEF Register, PushInv, PushTypeOK

LEMMA DeactivatedType ==
  ASSUME PushInv, NEW d \in Devices
  PROVE  Deactivated(rows, d) \in [Devices -> {NoToken} \cup Tokens]
BY DEF Deactivated, PushInv, PushTypeOK

LEMMA RevokeKeeps ==
  ASSUME PushInv, NEW d \in Devices, Revoke(d)
  PROVE  PushInv'
BY TablesKeep, DeactivatedType DEF Revoke, PushInv, PushTypeOK

LEMMA UpsertPrefsKeeps ==
  ASSUME PushInv, NEW p \in {"on", "off"}, UpsertPrefs(p)
  PROVE  PushInv'
BY TablesKeep DEF UpsertPrefs, PushInv, PushTypeOK

LEMMA UninstallKeeps ==
  ASSUME PushInv, NEW a \in Apps, Uninstall(a)
  PROVE  PushInv'
BY TablesKeep DEF Uninstall, PushInv, PushTypeOK

-----------------------------------------------------------------------------
\* Trimming a token gives a token, and the same where there is nothing to trim.
LEMMA TrimIs ==
  ASSUME NEW t \in Tokens
  PROVE  TrimSpace(t) \in Tokens /\ (~t.padded => TrimSpace(t) = t)
<1>1. t.app \in Apps /\ t.padded \in BOOLEAN /\ t = [app |-> t.app, padded |-> t.padded]
  BY PushAssumption DEF Tokens
<1>2. TrimSpace(t) = [app |-> t.app, padded |-> FALSE]
  BY DEF TrimSpace
<1>3. TrimSpace(t) \in Tokens
  BY <1>1, <1>2 DEF Tokens
<1>. QED BY <1>1, <1>2, <1>3

\* A send that ends keeps what it has done.
LEMMA FinishedIs ==
  ASSUME NEW r \in SendRecord, NEW failed \in BOOLEAN
  PROVE  LET q == Finished(r, failed)
         IN /\ q \in SendRecord /\ q.pc = "done" /\ q.failed = failed /\ q.i = 1 /\ q.attempt = 0
            /\ q.invalid = <<>> /\ q.msgs = r.msgs /\ q.flagged = r.flagged /\ q.revoked = r.revoked
            /\ q.missed = r.missed /\ q.copies = r.copies
<1>1. /\ r = [pc |-> r.pc, msgs |-> r.msgs, i |-> r.i, attempt |-> r.attempt, invalid |-> r.invalid,
              failed |-> r.failed, flagged |-> r.flagged, revoked |-> r.revoked, missed |-> r.missed,
              copies |-> r.copies]
      /\ r.msgs \in Seq(Message) /\ r.flagged \subseteq Nat /\ r.revoked \subseteq Devices
      /\ r.missed \subseteq Devices /\ r.copies \in [Devices -> Nat]
  BY DEF SendRecord
<1>2. PICK q : q = Finished(r, failed)
  OBVIOUS
<1>3. q = [pc |-> "done", msgs |-> r.msgs, i |-> 1, attempt |-> 0, invalid |-> <<>>,
           failed |-> failed, flagged |-> r.flagged, revoked |-> r.revoked, missed |-> r.missed,
           copies |-> r.copies]
  BY <1>1, <1>2 DEF Finished
<1>4. <<>> \in Seq(Tokens) /\ 0 \in 0..MaxRetries /\ 1 \in Nat
  BY PushAssumption
<1>5. q \in SendRecord
  BY <1>1, <1>3, <1>4 DEF SendRecord
<1>. QED BY <1>2, <1>3, <1>5

\* A send that has done nothing yet.
LEMMA BlankIsSound ==
  ASSUME NEW q, q = Ready \/ q = [Ready EXCEPT !.pc = "list"] \/ q = Finished(Ready, FALSE)
  PROVE  q \in SendRecord /\ ReportSound(q) /\ CopiesSound(q)
<1>1. /\ q.msgs = <<>> /\ q.invalid = <<>> /\ q.flagged = {} /\ q.revoked = {} /\ q.missed = {}
      /\ q.failed = FALSE /\ q.copies = [d \in Devices |-> 0] /\ q.pc \in {"idle", "list", "done"}
      /\ q.i = 1 /\ q.attempt = 0
  <2>1. CASE q = Ready
    BY <2>1 DEF Ready
  <2>2. CASE q = [Ready EXCEPT !.pc = "list"]
    BY <2>2 DEF Ready
  <2>3. CASE q = Finished(Ready, FALSE)
    <3>1. Ready \in SendRecord
      BY PushAssumption DEF Ready, SendRecord
    <3>2. FALSE \in BOOLEAN
      OBVIOUS
    <3>. QED BY <2>3, <3>1, <3>2, FinishedIs DEF Ready
  <2>. QED BY <2>1, <2>2, <2>3
<1>2. q \in SendRecord
  <2>1. /\ Ready \in SendRecord
    BY PushAssumption DEF Ready, SendRecord
  <2>2. CASE q = [Ready EXCEPT !.pc = "list"]
    BY <2>1, <2>2 DEF SendRecord
  <2>3. CASE q = Finished(Ready, FALSE)
    BY <2>1, <2>3, FinishedIs
  <2>. QED BY <2>1, <2>2, <2>3
<1>3. Called(q) = {} /\ DOMAIN q.msgs = {} /\ DOMAIN q.invalid = {}
  BY <1>1 DEF Called
<1>4. ReportSound(q)
  BY <1>1, <1>3 DEF ReportSound
<1>5. CopiesSound(q)
  BY <1>1, <1>3, PushAssumption DEF CopiesSound
<1>. QED BY <1>2, <1>4, <1>5

LEMMA SendStartKeeps ==
  ASSUME PushInv, NEW s \in Senders, Send(s)
  PROVE  PushInv'
<1>1. PICK q : /\ q = [Ready EXCEPT !.pc = "list"] \/ q = Finished(Ready, FALSE)
               /\ send' = [send EXCEPT ![s] = q]
  BY DEF Send
<1>. QED BY <1>1, BlankIsSound, SendKeeps DEF Send, PushInv, PushTypeOK

\* A send that fails.
LEMMA FinishedFails ==
  ASSUME NEW r \in SendRecord, ReportSound(r), CopiesSound(r), r.pc \in {"list", "post", "sleep"}
  PROVE  /\ Finished(r, TRUE) \in SendRecord
         /\ ReportSound(Finished(r, TRUE)) /\ CopiesSound(Finished(r, TRUE))
<1> DEFINE q == Finished(r, TRUE)
<1>1. /\ q \in SendRecord /\ q.pc = "done" /\ q.failed = TRUE
      /\ q.msgs = r.msgs /\ q.invalid = <<>> /\ q.flagged = r.flagged /\ q.revoked = r.revoked
      /\ q.missed = r.missed /\ q.copies = r.copies
  BY FinishedIs
<1>. HIDE DEF q
<1>2. Called(q) = Called(r)
  BY <1>1 DEF Called
<1>3. ReportSound(q)
  <2>1. DOMAIN q.invalid = {}
    BY <1>1
  <2>. QED BY <1>1, <1>2, <2>1 DEF ReportSound
<1>4. CopiesSound(q)
  BY <1>1 DEF CopiesSound
<1>. QED BY <1>1, <1>3, <1>4 DEF q

LEMMA CancelKeeps ==
  ASSUME PushInv, NEW s \in Senders, Cancel(s)
  PROVE  PushInv'
<1>1. send[s] \in SendRecord /\ ReportSound(send[s]) /\ CopiesSound(send[s])
  BY DEF PushInv, PushTypeOK
<1>2. send' = [send EXCEPT ![s] = Finished(send[s], TRUE)] /\ send[s].pc \in {"list", "post", "sleep"}
  BY DEF Cancel
<1>. QED BY <1>1, <1>2, FinishedFails, SendKeeps DEF Cancel, PushInv, PushTypeOK

\* The list names every active device once, and nothing has been delivered.
LEMMA ListKeeps ==
  ASSUME PushInv, NEW s \in Senders, List(s)
  PROVE  PushInv'
<1> DEFINE r == send[s]
<1>1. r \in SendRecord /\ ReportSound(r) /\ CopiesSound(r) /\ r.pc = "list"
  BY DEF PushInv, PushTypeOK, List
<1>2. CASE ActiveDevices = {}
  <2>1. send' = [send EXCEPT ![s] = Finished(r, FALSE)]
    BY <1>2 DEF List
  <2> DEFINE q == Finished(r, FALSE)
  <2>2. /\ q \in SendRecord /\ q.pc = "done" /\ q.failed = FALSE
        /\ q.msgs = r.msgs /\ q.invalid = <<>> /\ q.flagged = r.flagged /\ q.revoked = r.revoked
        /\ q.missed = r.missed /\ q.copies = r.copies
    BY <1>1, FinishedIs
  <2>. HIDE DEF q
  <2>3. Called(q) = Called(r) /\ Called(r) = {} /\ r.invalid = <<>>
    BY <1>1, <2>2 DEF Called, CopiesSound
  <2>4. ReportSound(q)
    BY <1>1, <2>2, <2>3 DEF ReportSound
  <2>5. CopiesSound(q)
    BY <1>1, <2>2 DEF CopiesSound
  <2>. QED BY <2>1, <2>2, <2>4, <2>5, SendKeeps DEF q, List, PushInv, PushTypeOK
<1>3. CASE ActiveDevices # {}
  <2>1. IsFiniteSet(ActiveDevices) /\ ActiveDevices \subseteq Devices
    BY PushAssumption, FS_Subset DEF ActiveDevices
  <2>2. PICK order \in SetToSeqs(ActiveDevices) :
          send' = [send EXCEPT ![s].pc = "post",
                     ![s].msgs = [k \in DOMAIN order |-> [device |-> order[k], token |-> rows[order[k]]]]]
    BY <1>3 DEF List
  <2> DEFINE n == Cardinality(ActiveDevices)
             msgs == [k \in 1..n |-> [device |-> order[k], token |-> rows[order[k]]]]
             q == [r EXCEPT !.pc = "post", !.msgs = msgs]
  <2>3. n \in Nat /\ order \in [1..n -> ActiveDevices]
        /\ \A k, l \in 1..n : order[k] = order[l] => k = l
    BY <2>1, OrdersAreOnto
  <2>4. n # 0
    BY <1>3, <2>1, FS_EmptySet
  <2>5. send' = [send EXCEPT ![s] = q]
    BY <2>2, <2>3
  <2>6. \A k \in 1..n : msgs[k] \in Message
    <3>1. \A d \in ActiveDevices : d \in Devices /\ rows[d] \in Tokens
      BY DEF ActiveDevices, PushInv, PushTypeOK
    <3>. QED BY <2>3, <3>1 DEF Message
  <2>7. msgs \in Seq(Message) /\ DOMAIN msgs = 1..n
    BY <2>3, <2>6
  <2>. HIDE DEF msgs
  <2>8. /\ q \in SendRecord /\ q.pc = "post" /\ q.msgs = msgs /\ q.invalid = r.invalid
        /\ q.flagged = r.flagged /\ q.revoked = r.revoked /\ q.missed = r.missed
        /\ q.copies = r.copies /\ q.i = r.i /\ q.attempt = r.attempt
    BY <1>1, <2>7 DEF SendRecord
  <2>. HIDE DEF q
  <2>9. /\ r.i = 1 /\ r.attempt = 0 /\ r.flagged = {} /\ r.invalid = <<>>
        /\ \A d \in Devices : r.copies[d] = 0
    BY <1>1 DEF CopiesSound
  <2>10. ReportSound(q)
    <3>1. Called(q) = {} /\ DOMAIN q.invalid = {}
      BY <2>8, <2>9 DEF Called
    <3>2. r.revoked = {}
      BY <1>1 DEF ReportSound
    <3>. QED BY <2>8, <2>9, <3>1, <3>2 DEF ReportSound
  <2>11. CopiesSound(q)
    <3>1. \A k \in 1..n : msgs[k].device = order[k] /\ order[k] \in Devices
      BY <2>1, <2>3 DEF msgs
    <3>2. \A d \in Devices : q.copies[d] = 0
      BY <2>8, <2>9
    <3>3. AttemptsEnded(q) = 0
      BY <2>8, <2>9 DEF AttemptsEnded
    <3>4. q.i \in DOMAIN q.msgs /\ DOMAIN q.msgs = 1..n
      BY <2>3, <2>4, <2>7, <2>8, <2>9
    <3>5. \A k \in DOMAIN q.msgs : q.copies[q.msgs[k].device] = 0
      BY <2>8, <3>1, <3>2, <3>4
    <3>6. \A k, l \in DOMAIN q.msgs : q.msgs[k].device = q.msgs[l].device => k = l
      BY <2>3, <2>8, <3>1, <3>4
    <3>. QED BY <2>8, <3>2, <3>3, <3>4, <3>5, <3>6, PushAssumption DEF CopiesSound
  <2>. QED BY <2>5, <2>8, <2>10, <2>11, SendKeeps DEF List, PushInv, PushTypeOK
<1>. QED BY <1>2, <1>3

-----------------------------------------------------------------------------
LEMMA MessagesTyped ==
  ASSUME NEW r \in SendRecord, NEW k \in DOMAIN r.msgs
  PROVE  r.msgs[k].device \in Devices /\ r.msgs[k].token \in Tokens /\ k \in Nat
<1>1. r.msgs \in Seq(Message)
  BY DEF SendRecord
<1>2. k \in 1..Len(r.msgs) /\ Len(r.msgs) \in Nat
  BY <1>1
<1>3. r.msgs[k] \in Message
  BY <1>1, <1>2, ElementOfSeq
<1>. QED BY <1>2, <1>3 DEF Message

\* A batch is a non-empty interval of the messages.
LEMMA BatchIs ==
  ASSUME NEW r \in SendRecord, r.i \in DOMAIN r.msgs
  PROVE  \E e \in Nat : /\ Batch(r) = r.i..e /\ r.i <= e /\ e <= Len(r.msgs) /\ Max(Batch(r)) = e
                        /\ Batch(r) \subseteq DOMAIN r.msgs
<1>1. r.msgs \in Seq(Message) /\ r.i \in 1..Len(r.msgs) /\ Len(r.msgs) \in Nat /\ DOMAIN r.msgs = 1..Len(r.msgs)
  BY DEF SendRecord
<1> DEFINE a == r.i + BatchSize - 1
           e == Min({a, Len(r.msgs)})
<1>2. a \in Int /\ r.i <= a
  BY <1>1, PushAssumption
<1>3. e \in {a, Len(r.msgs)} /\ e <= Len(r.msgs)
  <2>1. Len(r.msgs) \in Int
    BY <1>1
  <2>. HIDE DEF a
  <2>. QED BY <1>2, <2>1, MinOfTwo, Zenon
<1>4. e \in Nat /\ r.i <= e
  BY <1>1, <1>2, <1>3
<1>5. Batch(r) = r.i..e
  BY DEF Batch
<1>. HIDE DEF e
<1>6. Max(Batch(r)) = e
  BY <1>1, <1>4, <1>5, MaxOfInterval
<1>7. Batch(r) \subseteq DOMAIN r.msgs
  BY <1>1, <1>3, <1>4, <1>5
<1>. QED BY <1>3, <1>4, <1>5, <1>6, <1>7

\* A post brings each device of its messages at most one copy more, and touches nothing else.
LEMMA DeliveredIs ==
  ASSUME NEW r \in SendRecord, NEW ks
  PROVE  \E c \in [Devices -> Nat] :
           /\ Delivered(r, ks) = [r EXCEPT !.copies = c]
           /\ \A d \in Devices : c[d] <= r.copies[d] + 1
           /\ \A d \in Devices : (\A k \in ks : r.msgs[k].device # d) => c[d] <= r.copies[d]
<1> DEFINE reached(d) == \E k \in ks : r.msgs[k].device = d /\ r.msgs[k].token.app \notin dead
           c == [d \in Devices |-> Min({r.copies[d] + (IF reached(d) THEN 1 ELSE 0), MaxRetries + 2})]
<1>1. Delivered(r, ks) = [r EXCEPT !.copies = c]
  BY DEF Delivered
<1>2. r.copies \in [Devices -> Nat]
  BY DEF SendRecord
<1>3. ASSUME NEW d \in Devices
      PROVE  /\ c[d] \in Nat /\ c[d] <= r.copies[d] + 1
             /\ (\A k \in ks : r.msgs[k].device # d) => c[d] <= r.copies[d]
  <2> DEFINE x == r.copies[d] + (IF reached(d) THEN 1 ELSE 0)
  <2>1. x \in Nat /\ x <= r.copies[d] + 1 /\ (~reached(d) => x = r.copies[d])
    BY <1>2
  <2>2. c[d] = Min({x, MaxRetries + 2})
    OBVIOUS
  <2>3. (\A k \in ks : r.msgs[k].device # d) => ~reached(d)
    OBVIOUS
  <2>4. r.copies[d] \in Nat
    BY <1>2
  <2>. HIDE DEF x, c, reached
  <2>5. MaxRetries + 2 \in Nat
    BY PushAssumption
  <2>6. c[d] \in {x, MaxRetries + 2} /\ c[d] <= x
    <3>1. x \in Int /\ MaxRetries + 2 \in Int
      BY <2>1, <2>5
    <3>2. Min({x, MaxRetries + 2}) \in {x, MaxRetries + 2} /\ Min({x, MaxRetries + 2}) <= x
      BY <3>1, MinOfTwo, Zenon
    <3>. QED BY <2>2, <3>2
  <2>. QED BY <2>1, <2>3, <2>4, <2>5, <2>6
<1>4. c \in [Devices -> Nat]
  <2>1. c = [d \in Devices |-> c[d]]
    OBVIOUS
  <2>. HIDE DEF c
  <2>. QED BY <1>3, <2>1
<1>. HIDE DEF c
<1>. QED BY <1>1, <1>3, <1>4

\* After a post the devices of its batch may have a copy for this attempt too.
LEMMA PostBounds ==
  ASSUME NEW r \in SendRecord, CopiesSound(r), r.pc = "post", NEW ks, ks \subseteq Batch(r)
  PROVE  \E c \in [Devices -> Nat] :
           /\ Delivered(r, ks) = [r EXCEPT !.copies = c]
           /\ \A d \in Devices : c[d] <= MaxRetries + 1
           /\ \A k \in DOMAIN r.msgs :
                k >= r.i => c[r.msgs[k].device] <= IF k \in Batch(r) THEN r.attempt + 1 ELSE 0
<1>1. PICK c \in [Devices -> Nat] :
        /\ Delivered(r, ks) = [r EXCEPT !.copies = c]
        /\ \A d \in Devices : c[d] <= r.copies[d] + 1
        /\ \A d \in Devices : (\A k \in ks : r.msgs[k].device # d) => c[d] <= r.copies[d]
  BY DeliveredIs
<1>2. /\ r.msgs \in Seq(Message) /\ r.attempt \in Nat /\ r.attempt <= MaxRetries /\ r.i \in Nat
      /\ r.copies \in [Devices -> Nat]
  BY PushAssumption DEF SendRecord
<1>3. /\ r.i \in DOMAIN r.msgs
      /\ \A k, l \in DOMAIN r.msgs : r.msgs[k].device = r.msgs[l].device => k = l
      /\ \A d \in Devices : r.copies[d] <= MaxRetries + 1
      /\ \A k \in DOMAIN r.msgs :
           k >= r.i => r.copies[r.msgs[k].device] <= IF k \in Batch(r) THEN r.attempt ELSE 0
  BY <1>2 DEF CopiesSound, AttemptsEnded
<1>4. Batch(r) \subseteq DOMAIN r.msgs /\ \A k \in Batch(r) : k >= r.i
  <2>1. PICK e \in Nat : Batch(r) = r.i..e /\ Batch(r) \subseteq DOMAIN r.msgs
    BY <1>3, BatchIs
  <2>. QED BY <1>2, <2>1
<1>5. \A k \in DOMAIN r.msgs : r.msgs[k].device \in Devices
  BY MessagesTyped
<1>6. \A k \in Batch(r) : c[r.msgs[k].device] <= r.attempt + 1
  <2>1. TAKE k \in Batch(r)
  <2>2. k \in DOMAIN r.msgs /\ k >= r.i /\ r.msgs[k].device \in Devices
    BY <1>4, <1>5
  <2>3. r.copies[r.msgs[k].device] <= r.attempt
    BY <1>3, <2>2
  <2>. QED BY <1>1, <1>2, <2>2, <2>3
<1>7. ASSUME NEW d \in Devices PROVE c[d] <= MaxRetries + 1
  <2>1. CASE \E k \in ks : r.msgs[k].device = d
    <3>1. PICK k \in ks : r.msgs[k].device = d
      BY <2>1
    <3>2. c[d] <= r.attempt + 1
      BY <1>6, <3>1
    <3>. QED BY <1>2, <3>2, PushAssumption
  <2>2. CASE ~\E k \in ks : r.msgs[k].device = d
    <3>1. c[d] <= r.copies[d] /\ r.copies[d] <= MaxRetries + 1 /\ c[d] \in Nat /\ r.copies[d] \in Nat
      BY <1>1, <1>2, <1>3, <2>2
    <3>. QED BY <3>1, PushAssumption
  <2>. QED BY <2>1, <2>2
<1>8. ASSUME NEW k \in DOMAIN r.msgs, k >= r.i, k \notin Batch(r) PROVE c[r.msgs[k].device] <= 0
  <2>1. \A l \in ks : r.msgs[l].device # r.msgs[k].device
    BY <1>3, <1>4, <1>8
  <2>2. c[r.msgs[k].device] <= r.copies[r.msgs[k].device] /\ r.copies[r.msgs[k].device] <= 0
    BY <1>1, <1>3, <1>5, <1>8, <2>1
  <2>. QED BY <1>1, <1>2, <1>5, <1>8, <2>2
<1>. QED BY <1>1, <1>6, <1>7, <1>8

LEMMA PostFailsKeeps ==
  ASSUME PushInv, NEW s \in Senders, NEW status, PostFails(s, status)
  PROVE  PushInv'
<1> DEFINE r == send[s]
<1>1. r \in SendRecord /\ ReportSound(r) /\ CopiesSound(r) /\ r.pc = "post"
  BY DEF PushInv, PushTypeOK, PostFails
<1>2. PICK ks \in {{}, Batch(r)} :
        LET g == Delivered(r, ks)
        IN send' = [send EXCEPT ![s] = IF Retries(g, status) THEN [g EXCEPT !.pc = "sleep"] ELSE Finished(g, TRUE)]
  BY DEF PostFails
<1>3. PICK c \in [Devices -> Nat] :
        /\ Delivered(r, ks) = [r EXCEPT !.copies = c]
        /\ \A d \in Devices : c[d] <= MaxRetries + 1
        /\ \A k \in DOMAIN r.msgs :
             k >= r.i => c[r.msgs[k].device] <= IF k \in Batch(r) THEN r.attempt + 1 ELSE 0
  BY <1>1, <1>2, PostBounds
<1> DEFINE g == [r EXCEPT !.copies = c]
<1>4. /\ g \in SendRecord /\ g.pc = r.pc /\ g.copies = c /\ g.msgs = r.msgs /\ g.i = r.i
      /\ g.attempt = r.attempt /\ g.invalid = r.invalid /\ g.flagged = r.flagged
      /\ g.revoked = r.revoked /\ g.missed = r.missed /\ g.failed = r.failed
  BY <1>1 DEF SendRecord
<1>5. \/ Retries(g, status) /\ send' = [send EXCEPT ![s] = [g EXCEPT !.pc = "sleep"]]
      \/ send' = [send EXCEPT ![s] = Finished(g, TRUE)]
  BY <1>2, <1>3
<1>6. r.revoked = {} /\ Called(g) = Called(r)
  BY <1>1, <1>4 DEF ReportSound, Called
<1>. HIDE DEF g
<1>7. ASSUME NEW q \in SendRecord, q.pc = "sleep" \/ (q.pc = "done" /\ q.failed = TRUE),
             q.invalid = r.invalid \/ (q.pc = "done" /\ q.invalid = <<>>),
             q.flagged = r.flagged, q.revoked = r.revoked, q.missed = r.missed, q.msgs = r.msgs
      PROVE  ReportSound(q)
  <2>1. Called(q) = Called(r) /\ \A t : ByToken(q, t) = ByToken(r, t)
    BY <1>7 DEF Called, ByToken
  <2>2. q.invalid = <<>> => DOMAIN q.invalid = {}
    OBVIOUS
  <2>. QED BY <1>1, <1>7, <2>1, <2>2 DEF ReportSound
<1>8. CASE Retries(g, status) /\ send' = [send EXCEPT ![s] = [g EXCEPT !.pc = "sleep"]]
  <2> DEFINE q == [g EXCEPT !.pc = "sleep"]
  <2>1. /\ q \in SendRecord /\ q.pc = "sleep" /\ q.copies = c /\ q.msgs = r.msgs /\ q.i = r.i
        /\ q.attempt = r.attempt /\ q.invalid = r.invalid /\ q.flagged = r.flagged
        /\ q.revoked = r.revoked /\ q.missed = r.missed
    BY <1>4 DEF SendRecord
  <2>. HIDE DEF q
  <2>2. r.attempt < MaxRetries
    BY <1>4, <1>8 DEF Retries
  <2>3. Batch(q) = Batch(r) /\ AttemptsEnded(q) = r.attempt + 1
    BY <2>1 DEF Batch, AttemptsEnded
  <2>4. CopiesSound(q)
    BY <1>1, <1>3, <2>1, <2>2, <2>3 DEF CopiesSound
  <2>5. ReportSound(q)
    BY <1>7, <2>1
  <2>. QED BY <1>8, <2>1, <2>4, <2>5, SendKeeps DEF q, PostFails, PushInv, PushTypeOK
<1>9. CASE send' = [send EXCEPT ![s] = Finished(g, TRUE)]
  <2> DEFINE q == Finished(g, TRUE)
  <2>1. /\ q \in SendRecord /\ q.pc = "done" /\ q.failed = TRUE /\ q.copies = c /\ q.msgs = r.msgs
        /\ q.invalid = <<>> /\ q.flagged = r.flagged /\ q.revoked = r.revoked /\ q.missed = r.missed
    BY <1>4, FinishedIs
  <2>. HIDE DEF q
  <2>2. CopiesSound(q)
    BY <1>1, <1>3, <2>1 DEF CopiesSound
  <2>3. ReportSound(q)
    BY <1>7, <2>1
  <2>. QED BY <1>9, <2>1, <2>2, <2>3, SendKeeps DEF q, PostFails, PushInv, PushTypeOK
<1>. QED BY <1>5, <1>8, <1>9

LEMMA WakeKeeps ==
  ASSUME PushInv, NEW s \in Senders, Wake(s)
  PROVE  PushInv'
<1> DEFINE r == send[s]
           q == [r EXCEPT !.pc = "post", !.attempt = @ + 1]
<1>1. r \in SendRecord /\ ReportSound(r) /\ CopiesSound(r) /\ r.pc = "sleep"
  BY DEF PushInv, PushTypeOK, Wake
<1>2. send' = [send EXCEPT ![s] = q]
  BY DEF Wake
<1>3. r.attempt \in Nat /\ r.attempt + 1 \in 0..MaxRetries
  BY <1>1, PushAssumption DEF CopiesSound, SendRecord
<1>4. /\ q \in SendRecord /\ q.pc = "post" /\ q.attempt = r.attempt + 1 /\ q.msgs = r.msgs /\ q.i = r.i
      /\ q.copies = r.copies /\ q.invalid = r.invalid /\ q.flagged = r.flagged
      /\ q.revoked = r.revoked /\ q.missed = r.missed
  BY <1>1, <1>3 DEF SendRecord
<1>. HIDE DEF q
<1>5. Batch(q) = Batch(r) /\ AttemptsEnded(q) = AttemptsEnded(r)
  BY <1>1, <1>3, <1>4 DEF Batch, AttemptsEnded
<1>6. CopiesSound(q)
  BY <1>1, <1>4, <1>5 DEF CopiesSound
<1>7. Called(q) = Called(r) /\ \A t : ByToken(q, t) = ByToken(r, t)
  BY <1>4 DEF Called, ByToken
<1>8. ReportSound(q)
  BY <1>1, <1>4, <1>7 DEF ReportSound
<1>. QED BY <1>2, <1>4, <1>6, <1>8, SendKeeps DEF Wake, PushInv, PushTypeOK

-----------------------------------------------------------------------------
\* new holds the trimmed tokens of the messages in bad, all of them and no others.
Reports(new, r, bad) ==
  /\ \A n \in DOMAIN new : \E k \in bad : new[n] = TrimSpace(r.msgs[k].token)
  /\ \A k \in bad : \E n \in DOMAIN new : new[n] = TrimSpace(r.msgs[k].token)

\* A report names the tokens of its messages, all of them and no others.
LEMMA ReportIs ==
  ASSUME NEW r \in SendRecord, NEW bad, bad \subseteq DOMAIN r.msgs, IsFiniteSet(bad), NEW order \in InOrder(bad)
  PROVE  InvalidTokens(r, order) \in Seq(Tokens) /\ Reports(InvalidTokens(r, order), r, bad)
<1> DEFINE m == Cardinality(bad)
<1>1. order \in SetToSeqs(bad)
  BY DEF InOrder
<1>2. m \in Nat /\ order \in [1..m -> bad] /\ \A k \in bad : \E n \in 1..m : order[n] = k
  BY <1>1, OrdersAreOnto
<1>. HIDE DEF m
<1>3. InvalidTokens(r, order) = [n \in 1..m |-> TrimSpace(r.msgs[order[n]].token)]
  BY <1>2 DEF InvalidTokens
<1>4. \A n \in 1..m : TrimSpace(r.msgs[order[n]].token) \in Tokens
  <2>1. \A n \in 1..m : r.msgs[order[n]].token \in Tokens
    BY <1>2, MessagesTyped
  <2>. QED BY <2>1, TrimIs
<1>5. InvalidTokens(r, order) \in [1..m -> Tokens]
  BY <1>3, <1>4
<1>6. InvalidTokens(r, order) \in Seq(Tokens)
  BY <1>2, <1>5
<1>7. DOMAIN InvalidTokens(r, order) = 1..m /\ \A n \in 1..m : InvalidTokens(r, order)[n] = TrimSpace(r.msgs[order[n]].token)
  BY <1>3
<1>. QED BY <1>2, <1>6, <1>7 DEF Reports

\* all holds what a holds, at the same places, and what b holds.
Joins(all, a, b) ==
  /\ \A n \in DOMAIN all : (n \in DOMAIN a /\ all[n] = a[n]) \/ \E l \in DOMAIN b : all[n] = b[l]
  /\ \A n \in DOMAIN a : n \in DOMAIN all /\ all[n] = a[n]
  /\ \A l \in DOMAIN b : \E n \in DOMAIN all : all[n] = b[l]

\* The reports of the batches, one behind the other.
LEMMA AppendedIs ==
  ASSUME NEW T, NEW a \in Seq(T), NEW b \in Seq(T)
  PROVE  a \o b \in Seq(T) /\ Joins(a \o b, a, b)
<1>1. /\ a \o b \in Seq(T) /\ Len(a \o b) = Len(a) + Len(b)
      /\ \A n \in 1..(Len(a) + Len(b)) : (a \o b)[n] = IF n <= Len(a) THEN a[n] ELSE b[n - Len(a)]
  BY ConcatProperties
<1>2. Len(a) \in Nat /\ Len(b) \in Nat /\ DOMAIN a = 1..Len(a) /\ DOMAIN b = 1..Len(b)
  OBVIOUS
<1>3. DOMAIN (a \o b) = 1..(Len(a) + Len(b))
  BY <1>1
<1>4. ASSUME NEW n \in DOMAIN (a \o b)
      PROVE  (n \in DOMAIN a /\ (a \o b)[n] = a[n]) \/ \E l \in DOMAIN b : (a \o b)[n] = b[l]
  <2>1. CASE n <= Len(a)
    BY <1>1, <1>2, <1>3, <2>1
  <2>2. CASE ~(n <= Len(a))
    <3>1. n - Len(a) \in DOMAIN b /\ (a \o b)[n] = b[n - Len(a)]
      BY <1>1, <1>2, <1>3, <2>2
    <3>. QED BY <3>1
  <2>. QED BY <2>1, <2>2
<1>5. ASSUME NEW n \in DOMAIN a PROVE n \in DOMAIN (a \o b) /\ (a \o b)[n] = a[n]
  BY <1>1, <1>2, <1>3
<1>6. ASSUME NEW l \in DOMAIN b PROVE \E n \in DOMAIN (a \o b) : (a \o b)[n] = b[l]
  <2>1. Len(a) + l \in 1..(Len(a) + Len(b)) /\ ~(Len(a) + l <= Len(a)) /\ (Len(a) + l) - Len(a) = l
    BY <1>2
  <2>2. (a \o b)[Len(a) + l] = b[l]
    BY <1>1, <2>1
  <2>. QED BY <1>3, <2>1, <2>2
<1>. QED BY <1>1, <1>4, <1>5, <1>6 DEF Joins

LEMMA PostAcceptedKeeps ==
  ASSUME PushInv, NEW s \in Senders, PostAccepted(s)
  PROVE  PushInv'
<1> DEFINE r == send[s]
<1>1. r \in SendRecord /\ ReportSound(r) /\ CopiesSound(r) /\ r.pc = "post"
  BY DEF PushInv, PushTypeOK, PostAccepted
<1>2. PICK bad \in (SUBSET {k \in Batch(r) : Refusable(r.msgs[k].token)}) \cup {Batch(r)} :
      \E order \in InOrder(bad) :
        LET told == [Delivered(r, Batch(r) \ bad) EXCEPT !.invalid = Appended(r, order), !.flagged = @ \cup bad]
            next == Max(Batch(r)) + 1
        IN send' = [send EXCEPT ![s] =
                      IF next <= Len(r.msgs) THEN [told EXCEPT !.i = next, !.attempt = 0]
                      ELSE [told EXCEPT !.pc = "revoke"]]
  BY DEF PostAccepted
<1>3. PICK order \in InOrder(bad) :
        LET told == [Delivered(r, Batch(r) \ bad) EXCEPT !.invalid = Appended(r, order), !.flagged = @ \cup bad]
            next == Max(Batch(r)) + 1
        IN send' = [send EXCEPT ![s] =
                      IF next <= Len(r.msgs) THEN [told EXCEPT !.i = next, !.attempt = 0]
                      ELSE [told EXCEPT !.pc = "revoke"]]
  BY <1>2
<1>4. r.i \in DOMAIN r.msgs /\ r.msgs \in Seq(Message) /\ r.i \in Nat /\ Len(r.msgs) \in Nat
      /\ DOMAIN r.msgs = 1..Len(r.msgs)
  BY <1>1 DEF CopiesSound, SendRecord
<1>5. PICK e \in Nat : /\ Batch(r) = r.i..e /\ r.i <= e /\ e <= Len(r.msgs) /\ Max(Batch(r)) = e
                      /\ Batch(r) \subseteq DOMAIN r.msgs
  BY <1>1, <1>4, BatchIs
<1>6. bad \subseteq DOMAIN r.msgs /\ bad \subseteq Nat /\ IsFiniteSet(bad)
  <2>1. bad \subseteq r.i..e
    BY <1>5
  <2>2. IsFiniteSet(r.i..e)
    <3>1. r.i \in Int /\ e \in Int
      BY <1>4
    <3>. QED BY <3>1, FS_Interval, Zenon
  <2>3. IsFiniteSet(bad)
    BY <2>1, <2>2, FS_Subset
  <2>4. bad \subseteq DOMAIN r.msgs /\ bad \subseteq Nat
    BY <1>4, <1>5, <2>1
  <2>. QED BY <2>3, <2>4
<1>7. PICK c \in [Devices -> Nat] :
        /\ Delivered(r, Batch(r) \ bad) = [r EXCEPT !.copies = c]
        /\ \A d \in Devices : c[d] <= MaxRetries + 1
        /\ \A k \in DOMAIN r.msgs :
             k >= r.i => c[r.msgs[k].device] <= IF k \in Batch(r) THEN r.attempt + 1 ELSE 0
  BY <1>1, PostBounds
<1>8. PICK new : new = InvalidTokens(r, order) /\ new \in Seq(Tokens) /\ Reports(new, r, bad)
  BY <1>1, <1>6, ReportIs
<1>9. r.invalid \in Seq(Tokens) /\ r.flagged \subseteq DOMAIN r.msgs
  BY <1>1 DEF SendRecord, ReportSound
<1>10. PICK all : all = r.invalid \o new /\ all \in Seq(Tokens) /\ Joins(all, r.invalid, new)
  BY <1>8, <1>9, AppendedIs
<1> DEFINE told == [r EXCEPT !.copies = c, !.invalid = all, !.flagged = r.flagged \cup bad]
<1>11. told = [Delivered(r, Batch(r) \ bad) EXCEPT !.invalid = Appended(r, order), !.flagged = @ \cup bad]
  BY <1>1, <1>7, <1>8, <1>10 DEF Appended, SendRecord
<1>12. \/ /\ e + 1 <= Len(r.msgs)
          /\ send' = [send EXCEPT ![s] = [told EXCEPT !.i = e + 1, !.attempt = 0]]
       \/ send' = [send EXCEPT ![s] = [told EXCEPT !.pc = "revoke"]]
  BY <1>3, <1>5, <1>11
<1>13. /\ told \in SendRecord /\ told.pc = "post" /\ told.msgs = r.msgs /\ told.copies = c
       /\ told.invalid = all /\ told.flagged = r.flagged \cup bad /\ told.revoked = r.revoked
       /\ told.missed = r.missed
  BY <1>1, <1>6, <1>10 DEF SendRecord
<1>. HIDE DEF told
<1>14. ASSUME NEW q \in SendRecord, q.pc \in {"post", "revoke"}, q.msgs = r.msgs, q.invalid = all,
              q.flagged = r.flagged \cup bad, q.revoked = r.revoked, q.missed = r.missed
       PROVE  ReportSound(q)
  <2>1. /\ Called(q) = Called(r) \cup {TrimSpace(r.msgs[k].token) : k \in bad}
        /\ \A t : ByToken(q, t) = ByToken(r, t)
    BY <1>14 DEF Called, ByToken
  <2>2. r.revoked = {} /\ \A n \in DOMAIN r.invalid : r.invalid[n] \in Called(r)
    BY <1>1 DEF ReportSound
  <2>3. \A n \in DOMAIN q.invalid : q.invalid[n] \in Called(q)
    <3>1. TAKE n \in DOMAIN q.invalid
    <3>2. CASE n \in DOMAIN r.invalid /\ all[n] = r.invalid[n]
      BY <1>14, <2>1, <2>2, <3>2
    <3>3. CASE \E l \in DOMAIN new : all[n] = new[l]
      <4>1. PICK l \in DOMAIN new : all[n] = new[l]
        BY <3>3
      <4>2. PICK k \in bad : new[l] = TrimSpace(r.msgs[k].token)
        BY <1>8 DEF Reports
      <4>. QED BY <1>14, <2>1, <4>1, <4>2
    <3>. QED BY <1>10, <1>14, <3>2, <3>3 DEF Joins
  <2>4. ASSUME NEW t \in Called(q)
        PROVE  (\E n \in DOMAIN q.invalid : q.invalid[n] = t) \/ ByToken(q, t) \subseteq q.revoked \cup q.missed
    <3>1. CASE t \in Called(r)
      <4>1. (\E n \in DOMAIN r.invalid : r.invalid[n] = t) \/ ByToken(r, t) \subseteq r.revoked \cup r.missed
        BY <1>1, <3>1 DEF ReportSound
      <4>. QED BY <1>10, <1>14, <2>1, <4>1 DEF Joins
    <3>2. CASE \E k \in bad : t = TrimSpace(r.msgs[k].token)
      <4>1. PICK l \in DOMAIN new : new[l] = t
        BY <1>8, <3>2 DEF Reports
      <4>. QED BY <1>10, <1>14, <4>1 DEF Joins
    <3>. QED BY <2>1, <3>1, <3>2
  <2>5. q.flagged \subseteq DOMAIN q.msgs
    BY <1>6, <1>9, <1>14
  <2>. QED BY <1>14, <2>2, <2>3, <2>4, <2>5 DEF ReportSound
<1>15. CASE /\ e + 1 <= Len(r.msgs)
            /\ send' = [send EXCEPT ![s] = [told EXCEPT !.i = e + 1, !.attempt = 0]]
  <2> DEFINE q == [told EXCEPT !.i = e + 1, !.attempt = 0]
  <2>1. /\ q \in SendRecord /\ q.pc = "post" /\ q.msgs = r.msgs /\ q.copies = c /\ q.invalid = all
        /\ q.flagged = r.flagged \cup bad /\ q.revoked = r.revoked /\ q.missed = r.missed
        /\ q.i = e + 1 /\ q.attempt = 0
    <3>1. e + 1 \in Nat /\ 0 \in 0..MaxRetries
      BY <1>5, PushAssumption
    <3>. QED BY <1>13, <3>1 DEF SendRecord
  <2>. HIDE DEF q
  <2>2. ReportSound(q)
    BY <1>14, <2>1
  <2>3. \A k \in DOMAIN r.msgs : k >= e + 1 => c[r.msgs[k].device] <= 0
    <3>1. ASSUME NEW k \in DOMAIN r.msgs, k >= e + 1 PROVE k >= r.i /\ k \notin Batch(r)
      BY <1>4, <1>5, <3>1
    <3>. QED BY <1>7, <3>1
  <2>4. AttemptsEnded(q) = 0
    BY <2>1 DEF AttemptsEnded
  <2>5. q.i \in DOMAIN q.msgs
    BY <1>4, <1>15, <2>1
  <2>6. CopiesSound(q)
    BY <1>1, <1>7, <2>1, <2>3, <2>4, <2>5 DEF CopiesSound
  <2>. QED BY <1>15, <2>1, <2>2, <2>6, SendKeeps DEF q, PostAccepted, PushInv, PushTypeOK
<1>16. CASE send' = [send EXCEPT ![s] = [told EXCEPT !.pc = "revoke"]]
  <2> DEFINE q == [told EXCEPT !.pc = "revoke"]
  <2>1. /\ q \in SendRecord /\ q.pc = "revoke" /\ q.msgs = r.msgs /\ q.copies = c /\ q.invalid = all
        /\ q.flagged = r.flagged \cup bad /\ q.revoked = r.revoked /\ q.missed = r.missed
    BY <1>13 DEF SendRecord
  <2>. HIDE DEF q
  <2>2. ReportSound(q)
    BY <1>14, <2>1
  <2>3. CopiesSound(q)
    BY <1>1, <1>7, <2>1 DEF CopiesSound
  <2>. QED BY <1>16, <2>1, <2>2, <2>3, SendKeeps DEF q, PostAccepted, PushInv, PushTypeOK
<1>. QED BY <1>12, <1>15, <1>16

-----------------------------------------------------------------------------
\* The device a token stands for was listed with that token, and there is one if any was.
LEMMA ByTokenIs ==
  ASSUME NEW r \in SendRecord, NEW t
  PROVE  /\ \A d \in ByToken(r, t) : \E k \in DOMAIN r.msgs : r.msgs[k].device = d /\ r.msgs[k].token = t
         /\ \A d \in ByToken(r, t) : ByToken(r, t) = {d}
         /\ \A k \in DOMAIN r.msgs : r.msgs[k].token = t => \E d : ByToken(r, t) = {d}
<1>1. PICK S : S = {k \in DOMAIN r.msgs : r.msgs[k].token = t}
  OBVIOUS
<1>2. Len(r.msgs) \in Nat /\ S \subseteq 1..Len(r.msgs)
  BY <1>1 DEF SendRecord
<1>3. ByToken(r, t) = IF S = {} THEN {} ELSE {r.msgs[Max(S)].device}
  BY <1>1 DEF ByToken
<1>4. S # {} => Max(S) \in S
  BY <1>2, MaxOfBounded
<1>. QED BY <1>1, <1>3, <1>4

\* The report without its first token.
LEMMA TailIs ==
  ASSUME NEW T, NEW a \in Seq(T), a # <<>>
  PROVE  /\ Tail(a) \in Seq(T) /\ Head(a) = a[1] /\ 1 \in DOMAIN a
         /\ \A n \in DOMAIN Tail(a) : n + 1 \in DOMAIN a /\ Tail(a)[n] = a[n + 1]
         /\ \A n \in DOMAIN a : n # 1 => \E m \in DOMAIN Tail(a) : Tail(a)[m] = a[n]
<1>1. /\ Len(a) \in Nat /\ Len(a) # 0 /\ DOMAIN a = 1..Len(a) /\ Head(a) = a[1]
      /\ Tail(a) \in Seq(T) /\ Len(Tail(a)) = Len(a) - 1
      /\ \A n \in 1..Len(Tail(a)) : Tail(a)[n] = a[n + 1]
  BY HeadTailProperties, EmptySeq
<1>2. DOMAIN Tail(a) = 1..(Len(a) - 1)
  BY <1>1
<1>3. ASSUME NEW n \in DOMAIN a, n # 1 PROVE \E m \in DOMAIN Tail(a) : Tail(a)[m] = a[n]
  <2>1. n - 1 \in DOMAIN Tail(a) /\ (n - 1) + 1 = n
    BY <1>1, <1>2, <1>3
  <2>. QED BY <1>1, <1>2, <2>1
<1>. QED BY <1>1, <1>2, <1>3

LEMMA RevokeInvalidKeeps ==
  ASSUME PushInv, NEW s \in Senders, RevokeInvalid(s)
  PROVE  PushInv'
<1> DEFINE r == send[s]
<1>1. r \in SendRecord /\ ReportSound(r) /\ CopiesSound(r) /\ r.pc = "revoke"
  BY DEF PushInv, PushTypeOK, RevokeInvalid
<1>2. CASE r.invalid = <<>>
  <2> DEFINE q == Finished(r, FALSE)
  <2>1. send' = [send EXCEPT ![s] = q] /\ UNCHANGED rows
    BY <1>2 DEF RevokeInvalid
  <2>2. /\ q \in SendRecord /\ q.pc = "done" /\ q.failed = FALSE /\ q.msgs = r.msgs
        /\ q.invalid = r.invalid /\ q.flagged = r.flagged /\ q.revoked = r.revoked /\ q.missed = r.missed
        /\ q.copies = r.copies
    BY <1>1, <1>2, FinishedIs
  <2>. HIDE DEF q
  <2>3. Called(q) = Called(r) /\ \A t : ByToken(q, t) = ByToken(r, t)
    BY <2>2 DEF Called, ByToken
  <2>4. ReportSound(q)
    BY <1>1, <1>2, <2>2, <2>3 DEF ReportSound
  <2>5. CopiesSound(q)
    BY <1>1, <2>2 DEF CopiesSound
  <2>. QED BY <2>1, <2>2, <2>4, <2>5, SendKeeps DEF RevokeInvalid, PushInv, PushTypeOK
<1>3. CASE r.invalid # <<>>
  <2> DEFINE first == Head(r.invalid)
             ds == ByToken(r, first)
  <2>1. \/ /\ ds = {}
           /\ send' = [send EXCEPT ![s] = [r EXCEPT !.invalid = Tail(r.invalid)]]
           /\ UNCHANGED rows
        \/ \E d \in ds :
             /\ rows' = Deactivated(rows, d)
             /\ send' = [send EXCEPT ![s] = [r EXCEPT !.invalid = Tail(r.invalid), !.revoked = r.revoked \cup {d}]]
        \/ \E d \in ds :
             /\ send' = [send EXCEPT ![s] = [r EXCEPT !.invalid = Tail(r.invalid), !.missed = r.missed \cup {d}]]
             /\ UNCHANGED rows
    BY <1>3 DEF RevokeInvalid
  <2>2. r.invalid \in Seq(Tokens)
    BY <1>1 DEF SendRecord
  <2>3. PICK rest : rest = Tail(r.invalid)
    OBVIOUS
  <2>4. /\ rest \in Seq(Tokens) /\ first = r.invalid[1] /\ 1 \in DOMAIN r.invalid
        /\ \A n \in DOMAIN rest : n + 1 \in DOMAIN r.invalid /\ rest[n] = r.invalid[n + 1]
        /\ \A n \in DOMAIN r.invalid : n # 1 => \E m \in DOMAIN rest : rest[m] = r.invalid[n]
    BY <1>3, <2>2, <2>3, TailIs
  <2>. HIDE DEF first
  <2>5. first \in Called(r)
    BY <1>1, <2>4 DEF ReportSound
  <2>6. \A d \in ds : /\ ds = {d}
                      /\ \E k \in DOMAIN r.msgs : r.msgs[k].device = d /\ r.msgs[k].token \in Called(r)
    BY <1>1, <2>5, ByTokenIs
  <2>7. ds \subseteq Devices
    BY <1>1, <2>6, MessagesTyped
  <2>8. ASSUME NEW q \in SendRecord, q.pc = "revoke", q.msgs = r.msgs, q.invalid = rest,
               q.flagged = r.flagged, q.revoked \subseteq r.revoked \cup ds,
               r.revoked \cup r.missed \cup ds \subseteq q.revoked \cup q.missed, q.copies = r.copies
        PROVE  ReportSound(q) /\ CopiesSound(q)
    <3>1. Called(q) = Called(r) /\ \A t : ByToken(q, t) = ByToken(r, t)
      BY <2>8 DEF Called, ByToken
    <3>2. \A n \in DOMAIN rest : rest[n] \in Called(q)
      BY <1>1, <2>4, <3>1 DEF ReportSound
    <3>3. \A x \in q.revoked : \E l \in DOMAIN q.msgs : q.msgs[l].device = x /\ q.msgs[l].token \in Called(q)
      <4>1. TAKE x \in q.revoked
      <4>2. CASE x \in ds
        BY <2>6, <2>8, <3>1, <4>2
      <4>3. CASE x \in r.revoked
        BY <1>1, <2>8, <3>1, <4>3 DEF ReportSound
      <4>. QED BY <2>8, <4>2, <4>3
    <3>4. ASSUME NEW t \in Called(q)
          PROVE  (\E n \in DOMAIN rest : rest[n] = t) \/ ByToken(q, t) \subseteq q.revoked \cup q.missed
      <4>1. CASE \E n \in DOMAIN r.invalid : r.invalid[n] = t
        <5>1. PICK n \in DOMAIN r.invalid : r.invalid[n] = t
          BY <4>1
        <5>2. CASE n = 1
          BY <2>4, <2>8, <3>1, <5>1, <5>2
        <5>3. CASE n # 1
          BY <2>4, <5>1, <5>3
        <5>. QED BY <5>2, <5>3
      <4>2. CASE ByToken(r, t) \subseteq r.revoked \cup r.missed
        BY <2>8, <3>1, <4>2
      <4>. QED BY <1>1, <3>1, <4>1, <4>2 DEF ReportSound
    <3>5. ReportSound(q)
      <4>1. q.flagged \subseteq DOMAIN q.msgs
        BY <1>1, <2>8 DEF ReportSound
      <4>. QED BY <2>8, <3>2, <3>3, <3>4, <4>1 DEF ReportSound
    <3>6. CopiesSound(q)
      BY <1>1, <2>8 DEF CopiesSound
    <3>. QED BY <3>5, <3>6
  <2>. HIDE DEF ds
  <2>9. ASSUME NEW d \in ds, rows' = Deactivated(rows, d),
               send' = [send EXCEPT ![s] = [r EXCEPT !.invalid = Tail(r.invalid), !.revoked = r.revoked \cup {d}]]
        PROVE  PushInv'
    <3> DEFINE q == [r EXCEPT !.invalid = rest, !.revoked = r.revoked \cup {d}]
    <3>0. d \in Devices /\ ds = {d}
      BY <2>6, <2>7
    <3>1. /\ q \in SendRecord /\ q.pc = "revoke" /\ q.msgs = r.msgs /\ q.invalid = rest
          /\ q.flagged = r.flagged /\ q.revoked = r.revoked \cup {d} /\ q.missed = r.missed
          /\ q.copies = r.copies
      BY <1>1, <2>4, <3>0 DEF SendRecord
    <3>2. send' = [send EXCEPT ![s] = q]
      BY <2>3, <2>9
    <3>. HIDE DEF q
    <3>3. ReportSound(q) /\ CopiesSound(q)
      BY <2>8, <3>0, <3>1
    <3>4. rows' \in [Devices -> {NoToken} \cup Tokens]
      BY <2>9, <3>0, DeactivatedType
    <3>. QED BY <3>1, <3>2, <3>3, <3>4, SendKeeps DEF RevokeInvalid, PushInv, PushTypeOK
  <2>10. ASSUME NEW d \in ds, UNCHANGED rows,
                send' = [send EXCEPT ![s] = [r EXCEPT !.invalid = Tail(r.invalid), !.missed = r.missed \cup {d}]]
         PROVE  PushInv'
    <3> DEFINE q == [r EXCEPT !.invalid = rest, !.missed = r.missed \cup {d}]
    <3>0. d \in Devices /\ ds = {d}
      BY <2>6, <2>7
    <3>1. /\ q \in SendRecord /\ q.pc = "revoke" /\ q.msgs = r.msgs /\ q.invalid = rest
          /\ q.flagged = r.flagged /\ q.revoked = r.revoked /\ q.missed = r.missed \cup {d}
          /\ q.copies = r.copies
      BY <1>1, <2>4, <3>0 DEF SendRecord
    <3>2. send' = [send EXCEPT ![s] = q]
      BY <2>3, <2>10
    <3>. HIDE DEF q
    <3>3. ReportSound(q) /\ CopiesSound(q)
      BY <2>8, <3>0, <3>1
    <3>. QED BY <2>10, <3>1, <3>2, <3>3, SendKeeps DEF RevokeInvalid, PushInv, PushTypeOK
  <2>11. CASE ds = {} /\ UNCHANGED rows /\ send' = [send EXCEPT ![s] = [r EXCEPT !.invalid = Tail(r.invalid)]]
    <3> DEFINE q == [r EXCEPT !.invalid = rest]
    <3>1. /\ q \in SendRecord /\ q.pc = "revoke" /\ q.msgs = r.msgs /\ q.invalid = rest
          /\ q.flagged = r.flagged /\ q.revoked = r.revoked /\ q.missed = r.missed
          /\ q.copies = r.copies
      BY <1>1, <2>4 DEF SendRecord
    <3>2. send' = [send EXCEPT ![s] = q]
      BY <2>3, <2>11
    <3>. HIDE DEF q
    <3>3. ReportSound(q) /\ CopiesSound(q)
      BY <2>8, <2>11, <3>1
    <3>. QED BY <2>11, <3>1, <3>2, <3>3, SendKeeps DEF RevokeInvalid, PushInv, PushTypeOK
  <2>. QED BY <2>1, <2>9, <2>10, <2>11
<1>. QED BY <1>2, <1>3

-----------------------------------------------------------------------------
\* The inductive invariant holds in every reachable state.
THEOREM PushInvHolds == PushSpec => []PushInv
<1>1. ASSUME PushInit PROVE PushInv
  <2>1. PushTypeOK
    <3>1. Ready \in SendRecord
      BY BlankIsSound
    <3>. QED BY <1>1, <3>1 DEF PushInit, PushTypeOK
  <2>2. \A s \in Senders : send[s] = Ready
    BY <1>1 DEF PushInit
  <2>. QED BY <2>1, <2>2, BlankIsSound DEF PushInv
<1>2. ASSUME PushInv, [PushNext]_pushVars PROVE PushInv'
  <2>1. CASE UNCHANGED pushVars
    BY <1>2, <2>1, TablesKeep DEF pushVars, PushInv, PushTypeOK
  <2>2. CASE PushNext
    BY <1>2, <2>2, RegisterKeeps, RevokeKeeps, UpsertPrefsKeeps, UninstallKeeps, SendStartKeeps,
       ListKeeps, PostAcceptedKeeps, PostFailsKeeps, WakeKeeps, CancelKeeps, RevokeInvalidKeeps
       DEF PushNext, Step
  <2>. QED BY <1>2, <2>1, <2>2
<1>. QED BY <1>1, <1>2, PTL DEF PushSpec

\* A step of one send that lists nothing, beside rows that are left alone or revoked.
LEMMA RenewalStep ==
  ASSUME PushInv, RenewalSound, NEW s \in Senders, NEW q, send' = [send EXCEPT ![s] = q],
         Listed(q) = {} \/ (q.msgs = send[s].msgs /\ Listed(q) = Listed(send[s])),
         \A d \in Devices : rows'[d] = rows[d] \/ rows'[d] = NoToken, UNCHANGED renewed,
         wrong' \in [Senders -> SUBSET Devices], \A x \in Senders : wrong'[x] \subseteq renewed[x]
  PROVE  RenewalSound'
<1>1. send \in [Senders -> SendRecord]
  BY DEF PushInv, PushTypeOK
<1>2. send'[s] = q /\ \A x \in Senders : x # s => send'[x] = send[x]
  BY <1>1
<1>3. ASSUME NEW x \in Senders, NEW k \in DOMAIN send'[x].msgs,
             send'[x].msgs[k].device \in Listed(send'[x]) \ renewed[x]
      PROVE  rows'[send'[x].msgs[k].device] \in {send'[x].msgs[k].token, NoToken}
  <2>1. send'[x].msgs = send[x].msgs /\ Listed(send'[x]) = Listed(send[x])
    <3>1. CASE x = s
      BY <1>2, <1>3, <3>1
    <3>2. CASE x # s
      BY <1>2, <3>2
    <3>. QED BY <3>1, <3>2
  <2>2. PICK m : m = send[x].msgs[k]
    OBVIOUS
  <2>3. k \in DOMAIN send[x].msgs /\ m.device \in Listed(send[x]) \ renewed[x]
    BY <1>3, <2>1, <2>2
  <2>4. rows[m.device] \in {m.token, NoToken}
    BY <2>2, <2>3 DEF RenewalSound
  <2>5. m.device \in Devices
    BY <1>1, <2>2, <2>3, MessagesTyped
  <2>. QED BY <2>1, <2>2, <2>4, <2>5
<1>. QED BY <1>3 DEF RenewalSound, Listed

\* A step that leaves the sends alone.
LEMMA RenewalTables ==
  ASSUME PushInv, RenewalSound, UNCHANGED <<send, ghosts>>,
         \A d \in Devices : rows'[d] = rows[d] \/ rows'[d] = NoToken
  PROVE  RenewalSound'
<1>1. UNCHANGED <<send, renewed, wrong>>
  BY DEF ghosts
<1>2. ASSUME NEW x \in Senders, NEW k \in DOMAIN send[x].msgs,
             send[x].msgs[k].device \in Listed(send[x]) \ renewed[x]
      PROVE  rows'[send[x].msgs[k].device] \in {send[x].msgs[k].token, NoToken}
  <2>1. rows[send[x].msgs[k].device] \in {send[x].msgs[k].token, NoToken}
    BY <1>2 DEF RenewalSound
  <2>2. send[x].msgs[k].device \in Devices
    <3>1. send[x] \in SendRecord
      BY DEF PushInv, PushTypeOK
    <3>. QED BY <1>2, <3>1, MessagesTyped
  <2>. QED BY <2>1, <2>2
<1>. QED BY <1>1, <1>2 DEF RenewalSound, Listed

\* A device that registers is renewed for every send that has listed it.
LEMMA RegisterRenews ==
  ASSUME PushInv, RenewalSound, NEW d \in Devices, NEW t \in Tokens, Register(d, t)
  PROVE  RenewalSound'
<1>1. /\ rows' = [rows EXCEPT ![d] = t] /\ UNCHANGED <<send, wrong>>
      /\ renewed' = [s \in Senders |-> renewed[s] \cup ({d} \cap Listed(send[s]))]
  BY DEF Register
<1>2. rows \in [Devices -> {NoToken} \cup Tokens] /\ renewed \in [Senders -> SUBSET Devices]
  BY DEF PushInv, PushTypeOK, RenewalSound
<1>3. renewed' \in [Senders -> SUBSET Devices] /\ \A x \in Senders : renewed[x] \subseteq renewed'[x]
  BY <1>1, <1>2
<1>4. ASSUME NEW x \in Senders, NEW k \in DOMAIN send[x].msgs,
             send[x].msgs[k].device \in Listed(send[x]) \ renewed'[x]
      PROVE  rows'[send[x].msgs[k].device] \in {send[x].msgs[k].token, NoToken}
  <2>1. PICK e : e = send[x].msgs[k].device
    OBVIOUS
  <2>2. e # d /\ e \in Listed(send[x]) \ renewed[x]
    BY <1>1, <1>2, <1>4, <2>1
  <2>3. rows[e] \in {send[x].msgs[k].token, NoToken}
    BY <1>4, <2>1, <2>2 DEF RenewalSound
  <2>4. e \in Devices
    <3>1. send[x] \in SendRecord
      BY DEF PushInv, PushTypeOK
    <3>. QED BY <1>4, <2>1, <3>1, MessagesTyped
  <2>5. rows'[e] = rows[e]
    BY <1>1, <1>2, <2>2, <2>4
  <2>. QED BY <2>1, <2>3, <2>5
<1>. QED BY <1>1, <1>3, <1>4 DEF RenewalSound, Listed

\* What was just listed is what the rows hold.
LEMMA ListRenews ==
  ASSUME PushInv, RenewalSound, NEW s \in Senders, List(s)
  PROVE  RenewalSound'
<1>1. /\ renewed' = [renewed EXCEPT ![s] = {}] /\ wrong' = [wrong EXCEPT ![s] = {}] /\ UNCHANGED rows
  BY DEF List
<1>2. /\ renewed \in [Senders -> SUBSET Devices] /\ wrong \in [Senders -> SUBSET Devices]
      /\ send \in [Senders -> SendRecord] /\ \A x \in Senders : wrong[x] \subseteq renewed[x]
  BY DEF RenewalSound, PushInv, PushTypeOK
<1>3. /\ renewed' \in [Senders -> SUBSET Devices] /\ wrong' \in [Senders -> SUBSET Devices]
      /\ \A x \in Senders : wrong'[x] \subseteq renewed'[x]
      /\ \A x \in Senders : x # s => renewed'[x] = renewed[x]
  BY <1>1, <1>2
<1>4. PICK q : /\ send' = [send EXCEPT ![s] = q]
               /\ Listed(q) = {} \/ \A k \in DOMAIN q.msgs : q.msgs[k].token = rows[q.msgs[k].device]
  <2>1. CASE ActiveDevices = {}
    <3>1. PICK q : q = Finished(send[s], FALSE)
      OBVIOUS
    <3>2. send' = [send EXCEPT ![s] = q]
      BY <2>1, <3>1 DEF List
    <3>3. q.pc = "done"
      BY <1>2, <3>1, FinishedIs
    <3>. QED BY <3>2, <3>3 DEF Listed
  <2>2. CASE ActiveDevices # {}
    <3>1. PICK order \in SetToSeqs(ActiveDevices) :
            send' = [send EXCEPT ![s].pc = "post",
                       ![s].msgs = [k \in DOMAIN order |-> [device |-> order[k], token |-> rows[order[k]]]]]
      BY <2>2 DEF List
    <3>2. PICK msgs : msgs = [k \in DOMAIN order |-> [device |-> order[k], token |-> rows[order[k]]]]
      OBVIOUS
    <3>3. PICK q : q = [send[s] EXCEPT !.pc = "post", !.msgs = msgs]
      OBVIOUS
    <3>4. send' = [send EXCEPT ![s] = q]
      BY <1>2, <3>1, <3>2, <3>3
    <3>5. q.msgs = msgs
      BY <1>2, <3>3 DEF SendRecord
    <3>6. \A k \in DOMAIN msgs : msgs[k].token = rows[msgs[k].device]
      BY <3>2
    <3>. QED BY <3>4, <3>5, <3>6
  <2>. QED BY <2>1, <2>2
<1>5. send'[s] = q /\ \A x \in Senders : x # s => send'[x] = send[x]
  BY <1>2, <1>4
<1>6. ASSUME NEW x \in Senders, NEW k \in DOMAIN send'[x].msgs,
             send'[x].msgs[k].device \in Listed(send'[x]) \ renewed'[x]
      PROVE  rows[send'[x].msgs[k].device] \in {send'[x].msgs[k].token, NoToken}
  <2>1. CASE x = s
    BY <1>4, <1>5, <1>6, <2>1
  <2>2. CASE x # s
    <3>1. send'[x] = send[x] /\ renewed'[x] = renewed[x]
      BY <1>3, <1>5, <2>2
    <3>. QED BY <1>6, <3>1 DEF RenewalSound
  <2>. QED BY <2>1, <2>2
<1>. QED BY <1>1, <1>3, <1>6 DEF RenewalSound, Listed

\* A reported token that the row no longer holds belongs to a device that was renewed.
LEMMA RevokeInvalidRenews ==
  ASSUME PushInv, RenewalSound, NEW s \in Senders, RevokeInvalid(s)
  PROVE  RenewalSound'
<1>1. PICK r \in SendRecord : r = send[s] /\ r.pc = "revoke"
  BY DEF PushInv, PushTypeOK, RevokeInvalid
<1>2. PICK t : t = Head(r.invalid)
  OBVIOUS
<1>3. /\ renewed \in [Senders -> SUBSET Devices] /\ wrong \in [Senders -> SUBSET Devices]
      /\ \A x \in Senders : wrong[x] \subseteq renewed[x] /\ UNCHANGED renewed
      /\ rows \in [Devices -> {NoToken} \cup Tokens] /\ send \in [Senders -> SendRecord]
  BY DEF RenewalSound, RevokeInvalid, PushInv, PushTypeOK
<1>4. CASE r.invalid = <<>>
  <2>1. PICK q : q = Finished(r, FALSE)
    OBVIOUS
  <2>2. send' = [send EXCEPT ![s] = q] /\ UNCHANGED <<rows, wrong, renewed>>
    BY <1>1, <1>4, <2>1 DEF RevokeInvalid
  <2>3. Listed(q) = {}
    BY <2>1, FinishedIs DEF Listed
  <2>. QED BY <1>3, <2>2, <2>3, RenewalStep
<1>5. CASE r.invalid # <<>>
  <2>1. PICK q : /\ send' = [send EXCEPT ![s] = q] /\ q.msgs = r.msgs /\ q.pc = r.pc
                 /\ \/ UNCHANGED <<rows, wrong>>
                    \/ \E d \in ByToken(r, t) :
                         /\ rows' = Deactivated(rows, d)
                         /\ wrong' = [wrong EXCEPT ![s] = @ \cup {x \in {d} : rows[x] \notin {t, NoToken}}]
    <3>1. CASE send' = [send EXCEPT ![s].invalid = Tail(@)] /\ UNCHANGED <<rows, wrong>>
      <4>1. PICK q : q = [r EXCEPT !.invalid = Tail(r.invalid)]
        OBVIOUS
      <4>2. send' = [send EXCEPT ![s] = q]
        BY <1>1, <1>3, <3>1, <4>1
      <4>3. q.msgs = r.msgs /\ q.pc = r.pc
        BY <4>1 DEF SendRecord
      <4>. QED BY <3>1, <4>2, <4>3
    <3>2. ASSUME NEW d \in ByToken(r, t), rows' = Deactivated(rows, d),
                 send' = [send EXCEPT ![s].invalid = Tail(@), ![s].revoked = @ \cup {d}],
                 wrong' = [wrong EXCEPT ![s] = @ \cup {x \in {d} : rows[x] \notin {t, NoToken}}]
          PROVE  \E q : /\ send' = [send EXCEPT ![s] = q] /\ q.msgs = r.msgs /\ q.pc = r.pc
      <4>1. PICK q : q = [r EXCEPT !.invalid = Tail(r.invalid), !.revoked = r.revoked \cup {d}]
        OBVIOUS
      <4>2. send' = [send EXCEPT ![s] = q]
        BY <1>1, <1>3, <3>2, <4>1
      <4>3. q.msgs = r.msgs /\ q.pc = r.pc
        BY <4>1 DEF SendRecord
      <4>. QED BY <4>2, <4>3
    <3>3. ASSUME NEW d \in ByToken(r, t), UNCHANGED <<rows, wrong>>,
                 send' = [send EXCEPT ![s].invalid = Tail(@), ![s].missed = @ \cup {d}]
          PROVE  \E q : /\ send' = [send EXCEPT ![s] = q] /\ q.msgs = r.msgs /\ q.pc = r.pc
      <4>1. PICK q : q = [r EXCEPT !.invalid = Tail(r.invalid), !.missed = r.missed \cup {d}]
        OBVIOUS
      <4>2. send' = [send EXCEPT ![s] = q]
        BY <1>1, <1>3, <3>3, <4>1
      <4>3. q.msgs = r.msgs /\ q.pc = r.pc
        BY <4>1 DEF SendRecord
      <4>. QED BY <4>2, <4>3
    <3>4. \/ send' = [send EXCEPT ![s].invalid = Tail(@)] /\ UNCHANGED <<rows, wrong>>
          \/ \E d \in ByToken(r, t) :
               /\ rows' = Deactivated(rows, d)
               /\ send' = [send EXCEPT ![s].invalid = Tail(@), ![s].revoked = @ \cup {d}]
               /\ wrong' = [wrong EXCEPT ![s] = @ \cup {x \in {d} : rows[x] \notin {t, NoToken}}]
          \/ \E d \in ByToken(r, t) :
               /\ send' = [send EXCEPT ![s].invalid = Tail(@), ![s].missed = @ \cup {d}]
               /\ UNCHANGED <<rows, wrong>>
      <4> DEFINE Outcome(x, y) ==
             \/ send' = [send EXCEPT ![s].invalid = Tail(@)] /\ UNCHANGED <<rows, wrong>>
             \/ \E d \in ByToken(x, y) :
                  /\ rows' = Deactivated(rows, d)
                  /\ send' = [send EXCEPT ![s].invalid = Tail(@), ![s].revoked = @ \cup {d}]
                  /\ wrong' = [wrong EXCEPT ![s] = @ \cup {e \in {d} : rows[e] \notin {y, NoToken}}]
             \/ \E d \in ByToken(x, y) :
                  /\ send' = [send EXCEPT ![s].invalid = Tail(@), ![s].missed = @ \cup {d}]
                  /\ UNCHANGED <<rows, wrong>>
      <4>1. send[s].invalid = <<>> \/ Outcome(send[s], Head(send[s].invalid))
        BY Zenon DEF RevokeInvalid
      <4>2. send[s] = r /\ Head(send[s].invalid) = t /\ send[s].invalid # <<>>
        BY <1>1, <1>2, <1>5
      <4> HIDE DEF Outcome
      <4>3. Outcome(r, t)
        BY <4>1, <4>2
      <4>. QED BY <4>3 DEF Outcome
    <3>. QED BY <3>1, <3>2, <3>3, <3>4
  <2>2. Listed(q) = Listed(send[s])
    BY <1>1, <2>1 DEF Listed
  <2>3. CASE UNCHANGED <<rows, wrong>>
    BY <1>1, <1>3, <2>1, <2>2, <2>3, RenewalStep
  <2>4. ASSUME NEW d \in ByToken(r, t), rows' = Deactivated(rows, d),
               wrong' = [wrong EXCEPT ![s] = @ \cup {x \in {d} : rows[x] \notin {t, NoToken}}]
        PROVE  RenewalSound'
    <3>1. PICK k \in DOMAIN r.msgs : r.msgs[k].device = d /\ r.msgs[k].token = t
      BY <2>4, ByTokenIs
    <3>2. d \in Devices /\ d \in Listed(send[s])
      BY <1>1, <3>1, MessagesTyped DEF Listed
    <3>3. d \in renewed[s] \/ rows[d] \in {t, NoToken}
      BY <1>1, <3>1, <3>2 DEF RenewalSound
    <3>4. PICK more : more = {x \in {d} : rows[x] \notin {t, NoToken}}
      OBVIOUS
    <3>5. more \subseteq renewed[s] /\ more \subseteq Devices
      BY <3>2, <3>3, <3>4
    <3>6. wrong' = [wrong EXCEPT ![s] = wrong[s] \cup more]
      BY <1>3, <2>4, <3>4
    <3>7. wrong' \in [Senders -> SUBSET Devices] /\ \A x \in Senders : wrong'[x] \subseteq renewed[x]
      BY <1>3, <3>5, <3>6
    <3>8. \A x \in Devices : rows'[x] = rows[x] \/ rows'[x] = NoToken
      BY <1>3, <2>4, <3>2 DEF Deactivated
    <3>. QED BY <1>1, <1>3, <2>1, <2>2, <3>7, <3>8, RenewalStep
  <2>. QED BY <2>1, <2>3, <2>4
<1>. QED BY <1>4, <1>5

\* The other steps of a send leave its list alone or are done with it.
LEMMA SendRenews ==
  ASSUME PushInv, RenewalSound, NEW s \in Senders,
         \/ Send(s) \/ PostAccepted(s) \/ Wake(s) \/ Cancel(s)
         \/ \E status \in {"429", "5xx", "4xx", "none"} : PostFails(s, status)
  PROVE  RenewalSound'
<1>1. PICK r \in SendRecord : r = send[s]
  BY DEF PushInv, PushTypeOK
<1>2. /\ renewed \in [Senders -> SUBSET Devices] /\ wrong \in [Senders -> SUBSET Devices]
      /\ \A x \in Senders : wrong[x] \subseteq renewed[x] /\ send \in [Senders -> SendRecord]
  BY DEF RenewalSound, PushInv, PushTypeOK
<1>3. UNCHANGED <<rows, renewed, wrong>>
  BY DEF Send, PostAccepted, Wake, Cancel, PostFails, ghosts
<1>4. ASSUME NEW q, send' = [send EXCEPT ![s] = q],
             q.pc \in {"list", "done"} \/ (q.msgs = r.msgs /\ q.pc \in {"post", "sleep", "revoke"}
                                            /\ r.pc \in {"post", "sleep"})
      PROVE  RenewalSound'
  <2>1. Listed(q) = {} \/ (q.msgs = send[s].msgs /\ Listed(q) = Listed(send[s]))
    BY <1>1, <1>4 DEF Listed
  <2>. QED BY <1>2, <1>3, <1>4, <2>1, RenewalStep
<1>5. CASE Send(s)
  <2>1. PICK q : /\ q = [Ready EXCEPT !.pc = "list"] \/ q = Finished(Ready, FALSE)
                 /\ send' = [send EXCEPT ![s] = q]
    BY <1>5 DEF Send
  <2>2. q.pc \in {"list", "done"}
    BY <2>1 DEF Ready, Finished
  <2>. QED BY <1>4, <2>1, <2>2
<1>6. CASE Cancel(s)
  <2>1. PICK q : q = Finished(r, TRUE)
    OBVIOUS
  <2>2. send' = [send EXCEPT ![s] = q] /\ q.pc = "done"
    BY <1>1, <1>6, <2>1, FinishedIs DEF Cancel
  <2>. QED BY <1>4, <2>2
<1>7. CASE Wake(s)
  <2>1. PICK q : q = [r EXCEPT !.pc = "post", !.attempt = r.attempt + 1]
    OBVIOUS
  <2>2. send' = [send EXCEPT ![s] = q] /\ r.pc = "sleep"
    BY <1>1, <1>2, <1>7, <2>1 DEF Wake
  <2>3. q.pc = "post" /\ q.msgs = r.msgs
    BY <2>1 DEF SendRecord
  <2>. QED BY <1>4, <2>2, <2>3
<1>8. ASSUME NEW status, PostFails(s, status) PROVE RenewalSound'
  <2>1. PICK ks : LET g == Delivered(r, ks)
                  IN send' = [send EXCEPT ![s] = IF Retries(g, status) THEN [g EXCEPT !.pc = "sleep"] ELSE Finished(g, TRUE)]
    BY <1>1, <1>8 DEF PostFails
  <2>2. PICK c \in [Devices -> Nat] : Delivered(r, ks) = [r EXCEPT !.copies = c]
    BY DeliveredIs
  <2>3. PICK g : g = [r EXCEPT !.copies = c]
    OBVIOUS
  <2>4. g \in SendRecord /\ g.msgs = r.msgs
    BY <2>3 DEF SendRecord
  <2>5. r.pc = "post"
    BY <1>1, <1>8 DEF PostFails
  <2>6. CASE send' = [send EXCEPT ![s] = [g EXCEPT !.pc = "sleep"]]
    <3>1. PICK q : q = [g EXCEPT !.pc = "sleep"]
      OBVIOUS
    <3>2. q.pc = "sleep" /\ q.msgs = r.msgs
      BY <2>4, <3>1 DEF SendRecord
    <3>. QED BY <1>4, <2>5, <2>6, <3>1, <3>2
  <2>7. CASE send' = [send EXCEPT ![s] = Finished(g, TRUE)]
    <3>1. PICK q : q = Finished(g, TRUE)
      OBVIOUS
    <3>2. q.pc = "done"
      BY <2>4, <3>1, FinishedIs
    <3>. QED BY <1>4, <2>7, <3>1, <3>2
  <2>. QED BY <2>1, <2>2, <2>3, <2>6, <2>7
<1>9. CASE PostAccepted(s)
  <2>1. r.pc = "post"
    BY <1>1, <1>9 DEF PostAccepted
  <2>2. PICK bad, order :
          LET told == [Delivered(r, Batch(r) \ bad) EXCEPT !.invalid = Appended(r, order), !.flagged = @ \cup bad]
              next == Max(Batch(r)) + 1
          IN send' = [send EXCEPT ![s] =
                        IF next <= Len(r.msgs) THEN [told EXCEPT !.i = next, !.attempt = 0]
                        ELSE [told EXCEPT !.pc = "revoke"]]
    BY <1>1, <1>9 DEF PostAccepted
  <2>3. PICK c \in [Devices -> Nat] : Delivered(r, Batch(r) \ bad) = [r EXCEPT !.copies = c]
    BY DeliveredIs
  <2>4. PICK told : told = [Delivered(r, Batch(r) \ bad) EXCEPT !.invalid = Appended(r, order), !.flagged = @ \cup bad]
    OBVIOUS
  <2>5. /\ told.msgs = r.msgs /\ told.pc = "post"
        /\ DOMAIN told = {"pc", "msgs", "i", "attempt", "invalid", "failed", "flagged", "revoked", "missed", "copies"}
    BY <2>1, <2>3, <2>4 DEF SendRecord
  <2>6. PICK n : n = Max(Batch(r)) + 1
    OBVIOUS
  <2>7. \/ send' = [send EXCEPT ![s] = [told EXCEPT !.i = n, !.attempt = 0]]
        \/ send' = [send EXCEPT ![s] = [told EXCEPT !.pc = "revoke"]]
    BY <2>2, <2>4, <2>6
  <2>8. [told EXCEPT !.i = n, !.attempt = 0].msgs = r.msgs /\ [told EXCEPT !.i = n, !.attempt = 0].pc = "post"
    BY <2>5
  <2>9. [told EXCEPT !.pc = "revoke"].msgs = r.msgs /\ [told EXCEPT !.pc = "revoke"].pc = "revoke"
    BY <2>5
  <2>. QED BY <1>4, <2>1, <2>7, <2>8, <2>9
<1>. QED BY <1>5, <1>6, <1>7, <1>8, <1>9

\* A device that was not renewed keeps the token it was listed with, for every send.
THEOREM RenewalHolds == PushSpec => []RenewalSound
<1>1. ASSUME PushInit PROVE RenewalSound
  <2>1. \A s \in Senders : send[s].msgs = <<>>
    BY <1>1 DEF PushInit, Ready
  <2>2. \A s \in Senders : DOMAIN send[s].msgs = {}
    BY <2>1
  <2>. QED BY <1>1, <2>2 DEF PushInit, RenewalSound
<1>2. ASSUME PushInv, RenewalSound, [PushNext]_pushVars PROVE RenewalSound'
  <2>1. CASE UNCHANGED pushVars
    BY <1>2, <2>1, RenewalTables DEF pushVars
  <2>2. ASSUME NEW d \in Devices, NEW t \in Tokens, Register(d, t) PROVE RenewalSound'
    BY <1>2, <2>2, RegisterRenews
  <2>3. ASSUME NEW d \in Devices, Revoke(d) PROVE RenewalSound'
    <3>1. UNCHANGED <<send, ghosts>> /\ rows' = Deactivated(rows, d)
      BY <2>3 DEF Revoke
    <3>2. \A x \in Devices : rows'[x] = rows[x] \/ rows'[x] = NoToken
      BY <1>2, <3>1 DEF Deactivated, PushInv, PushTypeOK
    <3>. QED BY <1>2, <3>1, <3>2, RenewalTables
  <2>4. ASSUME NEW p \in {"on", "off"}, UpsertPrefs(p) PROVE RenewalSound'
    BY <1>2, <2>4, RenewalTables DEF UpsertPrefs
  <2>5. ASSUME NEW a \in Apps, Uninstall(a) PROVE RenewalSound'
    BY <1>2, <2>5, RenewalTables DEF Uninstall
  <2>6. ASSUME NEW s \in Senders, List(s) PROVE RenewalSound'
    BY <1>2, <2>6, ListRenews
  <2>7. ASSUME NEW s \in Senders, RevokeInvalid(s) PROVE RenewalSound'
    BY <1>2, <2>7, RevokeInvalidRenews
  <2>. QED BY <1>2, <2>1, <2>2, <2>3, <2>4, <2>5, <2>6, <2>7, SendRenews DEF PushNext, Step
<1>. QED BY <1>1, <1>2, PushInvHolds, PTL DEF PushSpec

\* Whatever the provider reports in whichever batch, a send revokes only devices it listed
\* with a token that was reported, another token than that only from a device that
\* registered anew, none when it fails, and deals with every well-formed token reported
\* when it succeeds.
THEOREM RevocationsFollowReports == PushSpec => []RevokesFollowReport
<1>1. ASSUME PushInv, RenewalSound PROVE RevokesFollowReport
  <2>1. PushTypeOK /\ \A s \in Senders : ReportSound(send[s]) /\ send[s] \in SendRecord
    BY <1>1 DEF PushInv, PushTypeOK
  <2>2. ASSUME NEW s \in Senders, NEW r, r = send[s]
        PROVE  /\ \A d \in r.revoked : \E k \in DOMAIN r.msgs : r.msgs[k].device = d /\ r.msgs[k].token \in Called(r)
               /\ wrong[s] \subseteq renewed[s]
               /\ r.pc = "done" /\ r.failed => r.revoked = {}
    BY <1>1, <2>1, <2>2 DEF ReportSound, RenewalSound
  <2>3. ASSUME NEW s \in Senders, NEW r, r = send[s], r.pc = "done", ~r.failed,
               NEW k \in r.flagged, ~r.msgs[k].token.padded
        PROVE  \E d \in r.revoked \cup r.missed : ByToken(r, r.msgs[k].token) = {d}
    <3>1. r \in SendRecord /\ ReportSound(r) /\ k \in DOMAIN r.msgs
      BY <2>1, <2>3 DEF ReportSound
    <3>2. PICK t \in Tokens : t = r.msgs[k].token
      BY <3>1, MessagesTyped
    <3>3. TrimSpace(t) = t
      BY <2>3, <3>2, TrimIs
    <3>4. t \in Called(r)
      BY <2>3, <3>2, <3>3 DEF Called
    <3>5. DOMAIN r.invalid = {}
      BY <2>3, <3>1 DEF ReportSound
    <3>6. ByToken(r, t) \subseteq r.revoked \cup r.missed
      BY <2>3, <3>1, <3>4, <3>5 DEF ReportSound
    <3>7. PICK d : ByToken(r, t) = {d}
      <4>1. \E j \in DOMAIN r.msgs : r.msgs[j].token = t
        BY <3>1, <3>2
      <4>. QED BY <3>1, <4>1, ByTokenIs, Zenon
    <3>. QED BY <3>2, <3>6, <3>7
  <2>. QED BY <2>1, <2>2, <2>3 DEF RevokesFollowReport
<1>. QED BY <1>1, PushInvHolds, RenewalHolds, PTL

\* For any batch size and number of retries a device gets at most one copy per attempt.
THEOREM CopiesAreBounded == PushSpec => []CopiesBounded
<1>1. PushInv => CopiesBounded
  BY DEF PushInv, CopiesSound, CopiesBounded
<1>. QED BY <1>1, PushInvHolds, PTL

=============================================================================
