------------------------ MODULE AggregateStore_proofs -------------------------
(***************************************************************************)
(* Theorems about AggregateStore, for any handlers, inputs, moments and    *)
(* limits: what a command leaves is sound, the version check makes saves   *)
(* serial, and a row that cannot be loaded can never be loaded again.      *)
(***************************************************************************)
EXTENDS AggregateStore, WellFoundedInduction, SequenceTheorems, TLAPS

-----------------------------------------------------------------------------
\* Lists of saved locations.

\* A non-empty set of positions has a least one.
LEMMA MinIsMember ==
  ASSUME NEW S, S \subseteq Nat, S # {}
  PROVE  Min(S) \in S
<1>1. PICK x \in S : \A y \in S : ~(<<y, x>> \in OpToRel(<, Nat))
  BY WFMin, NatLessThanWellFounded
<1>2. ASSUME NEW y \in S, ~(x =< y) PROVE FALSE
  <2>1. <<y, x>> \in Nat \X Nat /\ <<y, x>>[1] < <<y, x>>[2]
    BY <1>2
  <2>2. <<y, x>> \in OpToRel(<, Nat)
    BY <2>1 DEF OpToRel
  <2>. QED BY <1>1, <2>2
<1>. QED BY <1>2 DEF Min

\* The lists a user may keep are the sequences of locations up to the limit.
LEMMA LocationLists ==
  ASSUME NEW S, NEW n \in Nat, NEW s
  PROVE  s \in BoundedSeq(S, n) <=> s \in Seq(S) /\ Len(s) <= n
<1>1. BoundedSeq(S, n) = UNION {[1..m -> S] : m \in 0..n}
  BY DEF BoundedSeq, SeqOf
<1>2. ASSUME s \in BoundedSeq(S, n) PROVE s \in Seq(S) /\ Len(s) <= n
  <2>1. PICK m \in 0..n : s \in [1..m -> S]
    BY <1>1, <1>2
  <2>2. s \in Seq(S) /\ Len(s) = m
    BY <2>1
  <2>. QED BY <2>1, <2>2
<1>3. ASSUME s \in Seq(S), Len(s) <= n PROVE s \in BoundedSeq(S, n)
  <2>1. Len(s) \in 0..n /\ s \in [1..Len(s) -> S]
    BY <1>3
  <2>. QED BY <1>1, <2>1
<1>. QED BY <1>2, <1>3

\* Removing an entry leaves a shorter list.
LEMMA RemoveShortens ==
  ASSUME NEW S, NEW s \in Seq(S), NEW i \in 1..Len(s)
  PROVE  RemoveAt(s, i) \in Seq(S) /\ Len(RemoveAt(s, i)) = Len(s) - 1
<1>. DEFINE a == SubSeq(s, 1, i - 1)
            b == SubSeq(s, i + 1, Len(s))
<1>1. a \in Seq(S) /\ Len(a) = i - 1
  OBVIOUS
<1>2. b \in Seq(S) /\ Len(b) = Len(s) - i
  OBVIOUS
<1>3. RemoveAt(s, i) = a \o b
  BY DEF RemoveAt
<1>. HIDE DEF a, b
<1>4. a \o b \in Seq(S) /\ Len(a \o b) = Len(a) + Len(b)
  BY <1>1, <1>2, ConcatProperties
<1>5. Len(a) + Len(b) = Len(s) - 1
  BY <1>1, <1>2
<1>. QED BY <1>3, <1>4, <1>5

\* Replacing an entry keeps the length.
LEMMA ReplaceKeepsLength ==
  ASSUME NEW S, NEW s \in Seq(S), NEW i \in 1..Len(s), NEW e \in S
  PROVE  ReplaceAt(s, i, e) \in Seq(S) /\ Len(ReplaceAt(s, i, e)) = Len(s)
BY ExceptSeq DEF ReplaceAt

-----------------------------------------------------------------------------
\* Loading.

\* FindByID returns the row of a sound bus as it is, or nothing when its stop index
\* is negative.
LEMMA LoadedBus ==
  ASSUME NEW b \in BusRecord, b.position.valid, b.version > 0
  PROVE  FindBus({b}) = IF b.stopIndex >= 0 THEN {b} ELSE {}
<1>1. FindBus({b}) = RehydrateBus(b)
  BY DEF FindBus
<1>2. CASE b.stopIndex < 0
  BY <1>1, <1>2 DEF RehydrateBus, NewBus, BusRecord
<1>3. CASE ~(b.stopIndex < 0)
  <2>1. b.direction \in Direction /\ b.stopIndex \in Int
    BY DEF BusRecord
  <2>. DEFINE n == [operator |-> b.operator, position |-> b.position, stopIndex |-> b.stopIndex,
                    direction |-> b.direction, status |-> "Active", isAtTerminal |-> FALSE,
                    terminalArrivalTime |-> NoArrival, version |-> 1]
              m == [n EXCEPT !.status = b.status, !.isAtTerminal = b.isAtTerminal,
                             !.terminalArrivalTime = b.terminalArrivalTime,
                             !.version = IF b.version > 0 THEN b.version ELSE n.version]
  <2>2. NewBus(b.operator, b.position, b.stopIndex, b.direction) = {n}
    BY <1>3, <2>1 DEF NewBus
  <2>3. RehydrateBus(b) = {m}
    BY <2>2 DEF RehydrateBus
  <2>4. /\ n \in BusRecord /\ n.operator = b.operator /\ n.position = b.position
        /\ n.stopIndex = b.stopIndex /\ n.direction = b.direction
    BY DEF BusRecord, BusStatus
  <2>5. m = [n EXCEPT !.status = b.status, !.isAtTerminal = b.isAtTerminal,
                      !.terminalArrivalTime = b.terminalArrivalTime, !.version = b.version]
    BY Zenon
  <2>. HIDE DEF n, m
  <2>6. m = b
    BY <2>4, <2>5 DEF BusRecord
  <2>. QED BY <1>1, <1>3, <2>1, <2>3, <2>6
<1>. QED BY <1>2, <1>3

\* FindByID returns the row of a user as it is, or nothing when the subscription is
\* not active at the time.
LEMMA LoadedUser ==
  ASSUME NEW u \in UserRecord, u.version > 0, NEW t
  PROVE  FindUser({u}, t) = IF IsActive(u.subscription, t) THEN {u} ELSE {}
<1>1. FindUser({u}, t) = RehydrateUser(u, t)
  BY DEF FindUser
<1>2. CASE ~IsActive(u.subscription, t)
  BY <1>1, <1>2 DEF RehydrateUser, NewUser
<1>3. CASE IsActive(u.subscription, t)
  <2>. DEFINE n == [email |-> u.email, subscription |-> u.subscription, savedLocs |-> <<>>, version |-> 1]
              m == [n EXCEPT !.savedLocs = u.savedLocs,
                             !.version = IF u.version > 0 THEN u.version ELSE n.version]
  <2>1. NewUser(u.email, u.subscription, t) = {n}
    BY <1>3 DEF NewUser
  <2>2. RehydrateUser(u, t) = {m}
    BY <2>1 DEF RehydrateUser
  <2>. <<>> \in BoundedSeq(SavedLocation, MaxLocations)
    <3>1. <<>> \in Seq(SavedLocation) /\ Len(<<>>) <= MaxLocations
      BY UserAssumption
    <3>. HIDE DEF n, m
    <3>. QED BY <3>1, LocationLists, UserAssumption
  <2>3. n \in UserRecord /\ n.email = u.email /\ n.subscription = u.subscription
    BY DEF UserRecord
  <2>4. m = [n EXCEPT !.savedLocs = u.savedLocs, !.version = u.version]
    BY Zenon
  <2>. HIDE DEF n, m
  <2>5. m = u
    BY <2>3, <2>4 DEF UserRecord
  <2>. QED BY <1>1, <1>3, <2>2, <2>5
<1>. QED BY <1>2, <1>3

-----------------------------------------------------------------------------
\* What a command can make of a bus and of a user.

\* A sound bus stays sound, in its version, whichever command it receives.
LEMMA BusCommands ==
  ASSUME NEW b \in BusRecord, b.position.valid, b.isAtTerminal <=> b.terminalArrivalTime # NoArrival,
         NEW op \in BusOps, NEW n \in BusOutcome(op, b)
  PROVE  /\ n \in BusRecord /\ n.position.valid /\ n.version = b.version
         /\ n.isAtTerminal <=> n.terminalArrivalTime # NoArrival
<1>1. CASE op = "UpdateBusPosition"
  <2>1. PICK p \in Positions, i \in StopIndexInputs : n \in UpdatePosition(b, p, i)
    BY <1>1 DEF BusOutcome
  <2>2. p.valid /\ n = [b EXCEPT !.position = p, !.stopIndex = i]
    BY <2>1 DEF UpdatePosition
  <2>3. i \in Int
    BY DEF StopIndexInputs
  <2>. QED BY <2>2, <2>3 DEF BusRecord
<1>2. CASE op = "ChangeBusDirection"
  <2>1. PICK d \in DirectionInputs : n \in ChangeDirection(b, d)
    BY <1>2 DEF BusOutcome
  <2>2. d \in Direction /\ n = [b EXCEPT !.direction = d]
    BY <2>1 DEF ChangeDirection
  <2>. QED BY <2>2 DEF BusRecord
<1>3. CASE op = "ArriveAtTerminal"
  <2>1. PICK t \in BusMoments : n \in ArriveAtTerminal(b, t)
    BY <1>3 DEF BusOutcome
  <2>2. n = [b EXCEPT !.isAtTerminal = TRUE, !.terminalArrivalTime = t]
    BY <2>1 DEF ArriveAtTerminal
  <2>3. t # NoArrival
    BY BusAssumption DEF NoArrival
  <2>. QED BY <2>2, <2>3 DEF BusRecord
<1>4. CASE op = "DepartFromTerminal"
  <2>1. n \in DepartFromTerminal(b)
    BY <1>4 DEF BusOutcome
  <2>2. n = [b EXCEPT !.isAtTerminal = FALSE, !.terminalArrivalTime = NoArrival]
    BY <2>1 DEF DepartFromTerminal
  <2>. QED BY <2>2 DEF BusRecord
<1>5. CASE op = "ChangeBusStatus"
  <2>1. PICK s \in BusStatus : n \in ChangeBusStatus(b, s)
    BY <1>5 DEF BusOutcome
  <2>2. n = [b EXCEPT !.status = s]
    BY <2>1 DEF ChangeBusStatus
  <2>. QED BY <2>2 DEF BusRecord
<1>. QED BY <1>1, <1>2, <1>3, <1>4, <1>5 DEF BusOps

\* A user stays within the limit, in its version, whichever command it receives.
LEMMA UserCommands ==
  ASSUME NEW u \in UserRecord, NEW t, NEW op \in UserOps, NEW n \in UserOutcome(op, u, t)
  PROVE  n \in UserRecord /\ n.version = u.version
<1>. DEFINE L == SavedLocation
<1>1. u.savedLocs \in Seq(L) /\ Len(u.savedLocs) <= MaxLocations
  BY LocationLists, UserAssumption DEF UserRecord
<1>2. ASSUME NEW s \in Seq(L), Len(s) <= MaxLocations, n = [u EXCEPT !.savedLocs = s]
      PROVE  n \in UserRecord /\ n.version = u.version
  <2>1. s \in BoundedSeq(L, MaxLocations)
    BY <1>2, LocationLists, UserAssumption
  <2>. QED BY <1>2, <2>1 DEF UserRecord
<1>3. \A name : Named(u, name) # {} => Min(Named(u, name)) \in 1..Len(u.savedLocs)
  <2>1. SUFFICES ASSUME NEW name, Named(u, name) # {} PROVE Min(Named(u, name)) \in 1..Len(u.savedLocs)
    OBVIOUS
  <2>2. Named(u, name) \subseteq 1..Len(u.savedLocs)
    BY <1>1 DEF Named
  <2>3. Named(u, name) \subseteq Nat
    BY <2>2
  <2>4. Min(Named(u, name)) \in Named(u, name)
    BY <2>1, <2>3, MinIsMember
  <2>. QED BY <2>2, <2>4
<1>4. CASE op = "ChangeEmail"
  <2>1. PICK e \in Emails : n \in ChangeEmail(u, e)
    BY <1>4 DEF UserOutcome
  <2>2. n = [u EXCEPT !.email = e]
    BY <2>1 DEF ChangeEmail
  <2>. QED BY <2>2 DEF UserRecord
<1>5. CASE op = "UpdateSubscription"
  <2>1. PICK s \in Subscriptions : n \in UpdateSubscription(u, s, t)
    BY <1>5 DEF UserOutcome
  <2>2. n = [u EXCEPT !.subscription = s]
    BY <2>1 DEF UpdateSubscription
  <2>. QED BY <2>2 DEF UserRecord
<1>6. CASE op = "AddSavedLocation"
  <2>1. PICK l \in L : n \in AddSavedLocation(u, l)
    BY <1>6 DEF UserOutcome
  <2>2. Len(u.savedLocs) < MaxLocations /\ n = [u EXCEPT !.savedLocs = Append(u.savedLocs, l)]
    BY <2>1, <1>1, UserAssumption DEF AddSavedLocation
  <2>3. Append(u.savedLocs, l) \in Seq(L) /\ Len(Append(u.savedLocs, l)) <= MaxLocations
    BY <1>1, <2>2, UserAssumption
  <2>. QED BY <1>2, <2>2, <2>3
<1>7. CASE op = "RemoveSavedLocation"
  <2>1. PICK name \in Names : n \in RemoveSavedLocation(u, name)
    BY <1>7 DEF UserOutcome
  <2>. DEFINE i == Min(Named(u, name))
  <2>2. Named(u, name) # {} /\ n = [u EXCEPT !.savedLocs = RemoveAt(u.savedLocs, i)]
    BY <2>1 DEF RemoveSavedLocation
  <2>3. i \in 1..Len(u.savedLocs)
    BY <1>3, <2>2
  <2>4. RemoveAt(u.savedLocs, i) \in Seq(L) /\ Len(RemoveAt(u.savedLocs, i)) = Len(u.savedLocs) - 1
    BY <1>1, <2>3, RemoveShortens
  <2>5. Len(RemoveAt(u.savedLocs, i)) <= MaxLocations
    BY <1>1, <2>4, UserAssumption
  <2>. QED BY <1>2, <2>2, <2>4, <2>5
<1>8. CASE op = "UpdateSavedLocation"
  <2>1. PICK l \in L : n \in UpdateSavedLocation(u, l)
    BY <1>8 DEF UserOutcome
  <2>. DEFINE i == Min(Named(u, l.name))
  <2>2. Named(u, l.name) # {} /\ n = [u EXCEPT !.savedLocs = ReplaceAt(u.savedLocs, i, l)]
    BY <2>1 DEF UpdateSavedLocation
  <2>3. i \in 1..Len(u.savedLocs)
    BY <1>3, <2>2
  <2>4. ReplaceAt(u.savedLocs, i, l) \in Seq(L) /\ Len(ReplaceAt(u.savedLocs, i, l)) = Len(u.savedLocs)
    BY <1>1, <2>3, ReplaceKeepsLength
  <2>5. Len(ReplaceAt(u.savedLocs, i, l)) <= MaxLocations
    BY <1>1, <2>4
  <2>. QED BY <1>2, <2>2, <2>4, <2>5
<1>9. CASE op = "ClearSavedLocations"
  <2>1. n \in ClearSavedLocations(u)
    BY <1>9 DEF UserOutcome
  <2>2. n = [u EXCEPT !.savedLocs = <<>>]
    BY <2>1 DEF ClearSavedLocations
  <2>3. <<>> \in Seq(L) /\ Len(<<>>) <= MaxLocations
    BY UserAssumption
  <2>. QED BY <1>2, <2>2, <2>3
<1>. QED BY <1>4, <1>5, <1>6, <1>7, <1>8, <1>9 DEF UserOps

-----------------------------------------------------------------------------
\* The same facts for the aggregate of the behaviour, whichever it is.

LEMMA SoundVersion ==
  ASSUME NEW a, Sound(a)
  PROVE  a.version \in Nat
BY DEF Sound, Records, BusRecord, UserRecord

\* What FindByID returns is the row itself.
LEMMA LoadedIsRow ==
  ASSUME kind \in {"bus", "user"}, NEW r, Sound(r), r.version >= 2, NEW t
  PROVE  Loaded({r}, t) \subseteq {r}
<1>1. r.version > 0
  BY SoundVersion
<1>2. CASE kind = "bus"
  <2>1. r \in BusRecord /\ r.position.valid
    BY <1>2 DEF Sound, Records
  <2>2. FindBus({r}) \subseteq {r}
    BY <1>1, <2>1, LoadedBus
  <2>. QED BY <1>2, <2>2 DEF Loaded
<1>3. CASE kind = "user"
  <2>1. r \in UserRecord
    BY <1>3 DEF Sound, Records
  <2>2. FindUser({r}, t) \subseteq {r}
    BY <1>1, <2>1, LoadedUser
  <2>. QED BY <1>3, <2>2 DEF Loaded
<1>. QED BY <1>2, <1>3

\* A command leaves the aggregate sound, in the version it was loaded with.
LEMMA OutcomeIsSound ==
  ASSUME kind \in {"bus", "user"}, NEW r, Sound(r), r.version >= 2, NEW t,
         NEW op \in Ops, NEW a \in Outcome(op, {r}, t)
  PROVE  Sound(a) /\ a.version = r.version
<1>1. Loaded({r}, t) \subseteq {r}
  BY LoadedIsRow
<1>2. CASE kind = "bus"
  <2>1. r \in BusRecord /\ r.position.valid /\ (r.isAtTerminal <=> r.terminalArrivalTime # NoArrival)
    BY <1>2 DEF Sound, Records
  <2>2. a \in BusOutcome(op, r)
    BY <1>1, <1>2 DEF Outcome
  <2>3. op \in BusOps
    BY <1>2 DEF Ops
  <2>4. /\ a \in BusRecord /\ a.position.valid /\ a.version = r.version
        /\ a.isAtTerminal <=> a.terminalArrivalTime # NoArrival
    BY <2>1, <2>2, <2>3, BusCommands
  <2>. QED BY <1>2, <2>4 DEF Sound, Records
<1>3. CASE kind = "user"
  <2>1. r \in UserRecord
    BY <1>3 DEF Sound, Records
  <2>2. a \in UserOutcome(op, r, t)
    BY <1>1, <1>3 DEF Outcome
  <2>3. op \in UserOps
    BY <1>3 DEF Ops
  <2>4. a \in UserRecord /\ a.version = r.version
    BY <2>1, <2>2, <2>3, UserCommands
  <2>. QED BY <1>3, <2>4 DEF Sound, Records
<1>. QED BY <1>2, <1>3

\* A new aggregate is sound and has version 1.
LEMMA CreatedIsSound ==
  ASSUME kind \in {"bus", "user"}, NEW a \in Created
  PROVE  Sound(a) /\ a.version = 1
<1>1. CASE kind = "bus"
  <2>1. PICK o \in Operators, p \in Positions, i \in StopIndexInputs, d \in DirectionInputs :
          a \in NewBus(o, p, i, d)
    BY <1>1 DEF Created, CreateBus
  <2>2. /\ p.valid /\ d \in Direction /\ i \in Int
        /\ a = [operator |-> o, position |-> p, stopIndex |-> i, direction |-> d,
                status |-> "Active", isAtTerminal |-> FALSE,
                terminalArrivalTime |-> NoArrival, version |-> 1]
    BY <2>1 DEF NewBus, StopIndexInputs
  <2>3. a \in BusRecord /\ a.position.valid /\ a.version = 1
        /\ a.isAtTerminal = FALSE /\ a.terminalArrivalTime = NoArrival
    BY <2>2 DEF BusRecord, BusStatus
  <2>. QED BY <1>1, <2>3 DEF Sound, Records
<1>2. CASE kind = "user"
  <2>1. PICK e \in Emails, s \in Subscriptions : a \in NewUser(e, s, now)
    BY <1>2 DEF Created, CreateUser
  <2>2. a = [email |-> e, subscription |-> s, savedLocs |-> <<>>, version |-> 1]
    BY <2>1 DEF NewUser
  <2>3. <<>> \in Seq(SavedLocation) /\ Len(<<>>) <= MaxLocations
    BY UserAssumption
  <2>4. <<>> \in BoundedSeq(SavedLocation, MaxLocations)
    BY <2>3, LocationLists, UserAssumption
  <2>5. a \in UserRecord /\ a.version = 1
    BY <2>2, <2>4 DEF UserRecord
  <2>. QED BY <1>2, <2>5 DEF Sound, Records
<1>. QED BY <1>1, <1>2

\* The UPSERT stores the copy under the next version, and only over its own version.
LEMMA SavedIsNext ==
  ASSUME kind \in {"bus", "user"}, NEW a, Sound(a), NEW rs, NEW n \in Saved(rs, a)
  PROVE  /\ Sound(n) /\ n.version = a.version + 1
         /\ \A r \in rs : r.version = a.version
<1>1. (\A r \in rs : r.version = a.version) /\ n = [a EXCEPT !.version = a.version + 1]
  BY DEF Saved, SaveBus, SaveUser
<1>2. CASE kind = "bus"
  BY <1>1, <1>2 DEF Sound, Records, BusRecord
<1>3. CASE kind = "user"
  BY <1>1, <1>3 DEF Sound, Records, UserRecord
<1>. QED BY <1>1, <1>2, <1>3

\* A copy of another version is refused.
LEMMA StaleIsRefused ==
  ASSUME kind \in {"bus", "user"}, NEW a, NEW r, r.version # a.version
  PROVE  Saved({r}, a) = {}
BY DEF Saved, SaveBus, SaveUser

\* Nothing about the aggregate depends on who holds it or on what is stored.
LEMMA SameKind ==
  ASSUME kind' = kind
  PROVE  /\ Records' = Records /\ Ops' = Ops
         /\ \A a : Sound(a)' <=> Sound(a)
         /\ \A op, rs, t : Outcome(op, rs, t)' = Outcome(op, rs, t)
         /\ \A rs, t : Loaded(rs, t)' = Loaded(rs, t)
         /\ \A rs, a : Saved(rs, a)' = Saved(rs, a)
BY DEF Records, Ops, Sound, Outcome, Loaded, Saved

\* While the row stays, so does what is known of a copy.
LEMMA CopyStays ==
  ASSUME NEW c, CopySound(c), kind' = kind, rows' = rows, now \in Nat, now' \in Nat, now <= now'
  PROVE  CopySound(c)'
<1>1. CASE c.op = "Create" /\ c.next.version = 1
  BY <1>1, SameKind DEF CopySound
<1>2. CASE c.op \in Ops /\ CopyIsCurrent(c)
  <2>1. PICK r \in rows :
          /\ c.next.version <= r.version
          /\ c.next.version = r.version => \E t \in 0..now : c.next \in Outcome(c.op, rows, t)
    BY <1>2 DEF CopyIsCurrent
  <2>2. 0..now \subseteq 0..now'
    OBVIOUS
  <2>3. CopyIsCurrent(c)'
    BY <2>1, <2>2, SameKind DEF CopyIsCurrent
  <2>. QED BY <1>2, <2>3, SameKind DEF CopySound
<1>. QED BY <1>1, <1>2 DEF CopySound

\* A row that moves on overtakes every other copy.
LEMMA CopyIsOvertaken ==
  ASSUME NEW c, CopySound(c), kind' = kind, NEW n, rows' = {n}, Sound(n),
         \A r \in rows : Sound(r) /\ r.version < n.version
  PROVE  CopySound(c)'
<1>1. CASE c.op = "Create" /\ c.next.version = 1
  BY <1>1, SameKind DEF CopySound
<1>2. CASE c.op \in Ops /\ CopyIsCurrent(c)
  <2>1. PICK r \in rows : c.next.version <= r.version
    BY <1>2 DEF CopyIsCurrent
  <2>2. c.next.version \in Nat /\ r.version \in Nat /\ n.version \in Nat
    BY SoundVersion DEF CopySound
  <2>3. c.next.version <= n.version /\ c.next.version # n.version
    BY <2>1, <2>2
  <2>4. CopyIsCurrent(c)'
    BY <2>3 DEF CopyIsCurrent
  <2>. QED BY <1>2, <2>4, SameKind DEF CopySound
<1>. QED BY <1>1, <1>2 DEF CopySound

-----------------------------------------------------------------------------
\* The inductive invariant.

\* What RowSound says of every row.
LEMMA RowsSound ==
  ASSUME RowSound
  PROVE  \A r \in rows : rows = {r} /\ Sound(r) /\ r.version >= 2
BY DEF RowSound

\* The type invariant, in the parts an action can disturb.
LEMMA TypesFollow ==
  ASSUME kind \in {"bus", "user"}, now \in 0..MaxTime, RowSound,
         held \in [Handlers -> [op : Ops \cup {"Create"}, next : Records] \cup {Nil}],
         \A h \in Handlers : held[h] # Nil => CopySound(held[h])
  PROVE  IInv
<1>1. rows \subseteq Records
  BY RowsSound DEF Sound
<1>2. \A h \in Handlers : held[h] # Nil => held[h].op \in Ops \cup {"Create"} /\ held[h].next \in Records
  OBVIOUS
<1>. QED BY <1>1, <1>2 DEF IInv, TypeOK

\* The same, one step later.
LEMMA TypesFollowNext ==
  ASSUME IInv, kind' = kind, now' \in 0..MaxTime, RowSound',
         held' \in [Handlers -> [op : Ops \cup {"Create"}, next : Records] \cup {Nil}],
         \A h \in Handlers : held'[h] # Nil => CopySound(held[h])'
  PROVE  IInv'
<1>1. rows' \subseteq Records'
  BY DEF RowSound, Sound
<1>2. Ops' = Ops /\ Records' = Records
  BY SameKind
<1>3. \A h \in Handlers : held'[h] # Nil => held'[h].op \in Ops \cup {"Create"} /\ held'[h].next \in Records
  OBVIOUS
<1>4. kind' \in {"bus", "user"}
  BY DEF IInv, TypeOK
<1>5. TypeOK'
  BY <1>1, <1>2, <1>3, <1>4 DEF TypeOK
<1>. QED BY <1>2, <1>5 DEF IInv

\* A handler that takes a sound copy disturbs nothing else.
LEMMA TakeKeeps ==
  ASSUME IInv, NEW h \in Handlers, NEW op \in Ops \cup {"Create"}, NEW a,
         CopySound([op |-> op, next |-> a]),
         held' = [held EXCEPT ![h] = [op |-> op, next |-> a]],
         UNCHANGED <<kind, rows, now>>
  PROVE  IInv'
<1>. DEFINE c == [op |-> op, next |-> a]
<1>1. c \in [op : Ops \cup {"Create"}, next : Records]
  BY DEF CopySound, Sound
<1>2. held' \in [Handlers -> [op : Ops \cup {"Create"}, next : Records] \cup {Nil}]
  BY <1>1 DEF IInv
<1>3. now \in Nat /\ now' \in Nat /\ now <= now'
  BY AggregateStoreAssumption DEF IInv, TypeOK
<1>4. ASSUME NEW g \in Handlers, held'[g] # Nil PROVE CopySound(held[g])'
  <2>1. PICK d : d = held'[g]
    OBVIOUS
  <2>2. CopySound(d)
    <3>1. CASE g = h
      BY <2>1, <3>1 DEF IInv
    <3>2. CASE g # h
      BY <1>4, <2>1, <3>2 DEF IInv
    <3>. QED BY <3>1, <3>2
  <2>3. CopySound(d)'
    BY <1>3, <2>2, CopyStays
  <2>. QED BY <2>1, <2>3
<1>5. RowSound'
  BY SameKind DEF RowSound, IInv
<1>6. kind' = kind /\ now' \in 0..MaxTime
  BY DEF IInv, TypeOK
<1>. HIDE DEF c
<1>. QED BY <1>2, <1>4, <1>5, <1>6, TypesFollowNext

\* Creation hands out a first version.
LEMMA CreateKeeps ==
  ASSUME IInv, NEW h \in Handlers, Create(h)
  PROVE  IInv'
<1>1. PICK a \in Created : held' = [held EXCEPT ![h] = [op |-> "Create", next |-> a]]
  BY DEF Create
<1>2. Sound(a) /\ a.version = 1
  BY CreatedIsSound DEF IInv, TypeOK
<1>3. CopySound([op |-> "Create", next |-> a])
  BY <1>2 DEF CopySound
<1>. QED BY <1>1, <1>3, TakeKeeps DEF Create

\* A command hands out a copy made from the row as it is.
LEMMA HandleKeeps ==
  ASSUME IInv, NEW h \in Handlers, NEW op \in Ops, Handle(h, op)
  PROVE  IInv'
<1>1. PICK a \in Outcome(op, rows, now) : held' = [held EXCEPT ![h] = [op |-> op, next |-> a]]
  BY DEF Handle
<1>2. rows # {}
  BY <1>1 DEF Outcome, Loaded, FindBus, FindUser
<1>3. PICK r \in rows : rows = {r} /\ Sound(r) /\ r.version >= 2
  BY <1>2, RowsSound DEF IInv
<1>4. Sound(a) /\ a.version = r.version
  BY <1>1, <1>3, OutcomeIsSound DEF IInv, TypeOK
<1>5. now \in 0..now /\ r.version \in Nat
  BY <1>3, SoundVersion, AggregateStoreAssumption DEF IInv, TypeOK
<1>6. CopyIsCurrent([op |-> op, next |-> a])
  BY <1>1, <1>3, <1>4, <1>5 DEF CopyIsCurrent
<1>7. CopySound([op |-> op, next |-> a])
  BY <1>4, <1>6 DEF CopySound
<1>. QED BY <1>1, <1>7, TakeKeeps DEF Handle

\* A save stores the next version and overtakes every other copy.
LEMMA SaveKeeps ==
  ASSUME IInv, NEW h \in Handlers, Save(h)
  PROVE  IInv'
<1>1. PICK n \in Saved(rows, held[h].next) : rows' = {n}
  BY DEF Save
<1>2. CopySound(held[h]) /\ kind \in {"bus", "user"} /\ kind' = kind /\ now' \in 0..MaxTime
  BY DEF Save, IInv, TypeOK
<1>3. Sound(held[h].next)
  BY <1>2 DEF CopySound
<1>4. /\ Sound(n) /\ n.version = held[h].next.version + 1
      /\ \A r \in rows : r.version = held[h].next.version
  BY <1>1, <1>2, <1>3, SavedIsNext
<1>5. held[h].next.version \in Nat
  BY <1>3, SoundVersion
<1>6. held[h].next.version >= 1
  <2>1. CASE held[h].op = "Create" /\ held[h].next.version = 1
    BY <2>1
  <2>2. CASE CopyIsCurrent(held[h])
    <3>1. PICK r \in rows : r.version >= 2
      BY <2>2, RowsSound DEF CopyIsCurrent, IInv
    <3>. QED BY <1>4, <1>5, <3>1
  <2>. QED BY <1>2, <2>1, <2>2 DEF CopySound
<1>7. n.version >= 2
  BY <1>4, <1>5, <1>6
<1>8. RowSound'
  BY <1>1, <1>2, <1>4, <1>7, SameKind DEF RowSound
<1>9. \A r \in rows : Sound(r) /\ r.version < n.version
  BY <1>4, <1>5, RowsSound DEF IInv
<1>10. held' \in [Handlers -> [op : Ops \cup {"Create"}, next : Records] \cup {Nil}]
  BY DEF Save, IInv
<1>11. ASSUME NEW g \in Handlers, held'[g] # Nil PROVE CopySound(held[g])'
  <2>1. PICK d : d = held'[g]
    OBVIOUS
  <2>2. d = held[g] /\ d # Nil
    BY <1>11, <2>1 DEF Save, IInv
  <2>3. CopySound(d)
    BY <2>2 DEF IInv
  <2>4. CopySound(d)'
    BY <1>1, <1>2, <1>4, <1>9, <2>3, CopyIsOvertaken
  <2>. QED BY <2>1, <2>4
<1>. QED BY <1>2, <1>8, <1>10, <1>11, TypesFollowNext

\* A refused save only drops the copy.
LEMMA SaveFailsKeeps ==
  ASSUME IInv, NEW h \in Handlers, SaveFails(h)
  PROVE  IInv'
<1>1. held' \in [Handlers -> [op : Ops \cup {"Create"}, next : Records] \cup {Nil}]
  BY DEF SaveFails, IInv
<1>2. /\ kind' = kind /\ rows' = rows /\ now' \in 0..MaxTime
      /\ now \in Nat /\ now' \in Nat /\ now <= now'
  BY AggregateStoreAssumption DEF SaveFails, IInv, TypeOK
<1>3. RowSound'
  BY <1>2, SameKind DEF RowSound, IInv
<1>4. ASSUME NEW g \in Handlers, held'[g] # Nil PROVE CopySound(held[g])'
  <2>1. PICK d : d = held'[g]
    OBVIOUS
  <2>2. d = held[g] /\ d # Nil
    BY <1>4, <2>1 DEF SaveFails, IInv
  <2>3. CopySound(d)
    BY <2>2 DEF IInv
  <2>4. CopySound(d)'
    BY <1>2, <2>3, CopyStays
  <2>. QED BY <2>1, <2>4
<1>. QED BY <1>1, <1>2, <1>3, <1>4, TypesFollowNext

\* Time passing makes no copy stale.
LEMMA TickKeeps ==
  ASSUME IInv, Tick
  PROVE  IInv'
<1>1. held' \in [Handlers -> [op : Ops \cup {"Create"}, next : Records] \cup {Nil}]
  BY DEF Tick, IInv
<1>2. /\ kind' = kind /\ rows' = rows /\ now' \in 0..MaxTime
      /\ now \in Nat /\ now' \in Nat /\ now <= now'
  BY AggregateStoreAssumption DEF Tick, IInv, TypeOK
<1>3. RowSound'
  BY <1>2, SameKind DEF RowSound, IInv
<1>4. ASSUME NEW g \in Handlers, held'[g] # Nil PROVE CopySound(held[g])'
  <2>1. PICK d : d = held'[g]
    OBVIOUS
  <2>2. CopySound(d)
    BY <1>4, <2>1 DEF Tick, IInv
  <2>3. CopySound(d)'
    BY <1>2, <2>2, CopyStays
  <2>. QED BY <2>1, <2>3
<1>. QED BY <1>1, <1>2, <1>3, <1>4, TypesFollowNext

\* Every step keeps the inductive invariant.
LEMMA StepKeepsIInv ==
  ASSUME IInv, [Next]_vars
  PROVE  IInv'
<1>1. CASE \E h \in Handlers : Create(h)
  BY <1>1, CreateKeeps
<1>2. CASE \E h \in Handlers, op \in BusOps \cup UserOps : op \in Ops /\ Handle(h, op)
  BY <1>2, HandleKeeps
<1>3. CASE \E h \in Handlers : Save(h)
  BY <1>3, SaveKeeps
<1>4. CASE \E h \in Handlers : SaveFails(h)
  BY <1>4, SaveFailsKeeps
<1>5. CASE Tick
  BY <1>5, TickKeeps
<1>6. CASE UNCHANGED vars
  BY <1>6 DEF vars, IInv, TypeOK, RowSound, CopySound, CopyIsCurrent, Sound, Records, Ops,
               Outcome, Loaded
<1>. QED BY <1>1, <1>2, <1>3, <1>4, <1>5, <1>6 DEF Next

\* The inductive invariant holds in every reachable state: rows and copies are sound, and
\* a copy with the row's version was made from that row.
THEOREM IInvHolds == Spec => []IInv
<1>1. Init => IInv
  <2>1. SUFFICES ASSUME Init PROVE IInv
    OBVIOUS
  <2>2. kind \in {"bus", "user"} /\ now \in 0..MaxTime /\ RowSound
    BY <2>1, AggregateStoreAssumption DEF Init, RowSound
  <2>3. /\ held \in [Handlers -> [op : Ops \cup {"Create"}, next : Records] \cup {Nil}]
        /\ \A h \in Handlers : held[h] = Nil
    BY <2>1 DEF Init
  <2>. QED BY <2>2, <2>3, TypesFollow
<1>2. IInv /\ [Next]_vars => IInv'
  BY StepKeepsIInv
<1>. QED BY <1>1, <1>2, PTL DEF Spec

-----------------------------------------------------------------------------
\* The properties.

\* Every stored bus and user is sound, whatever the order of the commands.
THEOREM StoredRowsAreSound == Spec => []RowsAreSound
<1>1. ASSUME IInv PROVE RowsAreSound
  <2>1. TypeOK
    BY <1>1 DEF IInv
  <2>2. ASSUME kind = "bus", NEW b \in rows
        PROVE  /\ b.isAtTerminal <=> b.terminalArrivalTime # NoArrival
               /\ \A t \in BusMoments : CalculateTerminalDwellTime(b, t) > 0 => b.isAtTerminal
    <3>1. Sound(b)
      BY <1>1, RowsSound DEF IInv
    <3>2. b.isAtTerminal <=> b.terminalArrivalTime # NoArrival
      BY <2>2, <3>1 DEF Sound
    <3>3. ASSUME NEW t \in BusMoments, CalculateTerminalDwellTime(b, t) > 0
          PROVE  b.terminalArrivalTime # NoArrival
      BY <3>3 DEF CalculateTerminalDwellTime
    <3>. QED BY <3>2, <3>3
  <2>3. ASSUME kind = "user", NEW u \in rows PROVE Len(u.savedLocs) <= MaxLocations
    <3>1. u \in UserRecord
      BY <2>1, <2>3 DEF TypeOK, Records
    <3>2. u.savedLocs \in BoundedSeq(SavedLocation, MaxLocations)
      BY <3>1 DEF UserRecord
    <3>. QED BY <3>2, LocationLists, UserAssumption
  <2>. QED BY <2>1, <2>2, <2>3 DEF RowsAreSound
<1>. QED BY <1>1, IInvHolds, PTL

\* Only a negative stop index, taken over from a report, hides a stored bus from its
\* operator.
THEOREM OnlyStopIndexHides == Spec => []OnlyBadStopIndexHides
<1>1. ASSUME IInv PROVE OnlyBadStopIndexHides
  <2>1. SUFFICES ASSUME kind = "bus", NEW b \in rows
        PROVE  /\ Exists(rows) /\ b \in ListBusIDsByRoute(rows, b.operator, {b.status})
               /\ CanSubscribeToBus(rows, b.operator) <=> b.stopIndex >= 0
    BY DEF OnlyBadStopIndexHides
  <2>2. rows = {b} /\ Sound(b) /\ b.version >= 2
    BY <1>1, RowsSound DEF IInv
  <2>3. b \in BusRecord /\ b.position.valid /\ b.version > 0
    BY <2>1, <2>2, SoundVersion DEF Sound, Records
  <2>4. FindBus(rows) = IF b.stopIndex >= 0 THEN {b} ELSE {}
    BY <2>2, <2>3, LoadedBus
  <2>5. CanSubscribeToBus(rows, b.operator) <=> b.stopIndex >= 0
    BY <2>4 DEF CanSubscribeToBus
  <2>. QED BY <2>5 DEF Exists, ListBusIDsByRoute
<1>. QED BY <1>1, IInvHolds, PTL

\* A save that succeeds replaces the version its copy was made from.
LEMMA SaveIsSerial ==
  ASSUME IInv, NEW h \in Handlers, Save(h)
  PROVE  \/ rows = {} /\ held[h].op = "Create"
         \/ held[h].op \in Ops /\ \E t \in 0..now : held[h].next \in Outcome(held[h].op, rows, t)
<1>1. CopySound(held[h]) /\ kind \in {"bus", "user"}
  BY DEF Save, IInv, TypeOK
<1>2. Sound(held[h].next)
  BY <1>1 DEF CopySound
<1>3. \A r \in rows : r.version = held[h].next.version
  <2>1. PICK n \in Saved(rows, held[h].next) : TRUE
    BY DEF Save
  <2>. QED BY <1>1, <1>2, <2>1, SavedIsNext
<1>4. CASE held[h].op = "Create" /\ held[h].next.version = 1
  <2>1. ASSUME NEW r \in rows PROVE FALSE
    <3>1. r.version >= 2 /\ r.version = 1
      BY <1>3, <1>4, RowsSound DEF IInv
    <3>. QED BY <3>1
  <2>. QED BY <1>4, <2>1
<1>5. CASE held[h].op \in Ops /\ CopyIsCurrent(held[h])
  BY <1>3, <1>5 DEF CopyIsCurrent
<1>. QED BY <1>1, <1>4, <1>5 DEF CopySound

\* No command is lost between two handlers: each stored version is what its command
\* makes of the version it replaces.
THEOREM SerialSaves == Spec => SavesAreSerial
<1>1. IInv /\ [Next]_vars =>
        [\A h \in Handlers :
           Save(h) =>
             \/ rows = {} /\ held[h].op = "Create"
             \/ held[h].op \in Ops /\ \E t \in 0..now : held[h].next \in Outcome(held[h].op, rows, t)]_vars
  BY SaveIsSerial
<1>. QED BY <1>1, IInvHolds, PTL DEF Spec, SavesAreSerial

\* A subscription that has lapsed does not become active again.
LEMMA LapsedStays ==
  ASSUME NEW s \in Subscriptions, NEW t \in Nat, NEW w \in Nat, t <= w, ~IsActive(s, t)
  PROVE  ~IsActive(s, w)
<1>1. s.expiry \in Nat
  BY UserAssumption DEF Subscriptions
<1>. QED BY <1>1 DEF IsActive

\* What cannot be loaded now cannot be loaded later.
LEMMA UnloadableStays ==
  ASSUME kind \in {"bus", "user"}, NEW r, Sound(r), r.version >= 2,
         NEW t \in Nat, NEW w \in Nat, t <= w, Loaded({r}, t) = {}
  PROVE  Loaded({r}, w) = {}
<1>1. CASE kind = "bus"
  BY <1>1 DEF Loaded
<1>2. CASE kind = "user"
  <2>1. r \in UserRecord /\ r.version > 0
    BY <1>2, SoundVersion DEF Sound, Records
  <2>2. FindUser({r}, t) = {}
    BY <1>2 DEF Loaded
  <2>3. ~IsActive(r.subscription, t)
    BY <2>1, <2>2, LoadedUser
  <2>4. r.subscription \in Subscriptions
    BY <2>1 DEF UserRecord
  <2>5. ~IsActive(r.subscription, w)
    BY <2>3, <2>4, LapsedStays
  <2>6. FindUser({r}, w) = {}
    BY <2>1, <2>5, LoadedUser
  <2>. QED BY <1>2, <2>6 DEF Loaded
<1>. QED BY <1>1, <1>2

\* No step brings a stranded row back.
LEMMA StepKeepsStranded ==
  ASSUME IInv, Stranded, Next
  PROVE  Stranded'
<1>1. PICK r \in rows : rows = {r} /\ Sound(r) /\ r.version >= 2
  BY RowsSound DEF IInv, Stranded
<1>2. kind \in {"bus", "user"} /\ now \in Nat
  BY AggregateStoreAssumption DEF IInv, TypeOK
<1>3. Loaded(rows, now) = {}
  BY DEF Stranded
<1>4. \A h \in Handlers : held[h] # Nil => Saved(rows, held[h].next) = {}
  BY DEF Stranded
<1>5. CASE \E h \in Handlers : Create(h)
  <2>1. PICK h \in Handlers : Create(h)
    BY <1>5
  <2>2. PICK a \in Created : held' = [held EXCEPT ![h] = [op |-> "Create", next |-> a]]
    BY <2>1 DEF Create
  <2>3. UNCHANGED <<kind, rows, now>>
    BY <2>1 DEF Create
  <2>4. a.version = 1
    BY <1>2, <2>2, CreatedIsSound
  <2>5. Saved(rows, a) = {}
    BY <1>1, <1>2, <2>4, StaleIsRefused
  <2>6. ASSUME NEW g \in Handlers, held'[g] # Nil PROVE Saved(rows, held'[g].next) = {}
    <3>1. CASE g = h
      BY <2>2, <2>5, <3>1 DEF IInv
    <3>2. CASE g # h
      BY <1>4, <2>2, <2>6, <3>2 DEF IInv
    <3>. QED BY <3>1, <3>2
  <2>. QED BY <1>1, <1>3, <2>3, <2>6, SameKind DEF Stranded
<1>6. CASE \E h \in Handlers, op \in BusOps \cup UserOps : op \in Ops /\ Handle(h, op)
  <2>1. PICK op : Outcome(op, rows, now) # {}
    BY <1>6 DEF Handle
  <2>. QED BY <1>3, <2>1 DEF Outcome
<1>7. CASE \E h \in Handlers : Save(h)
  BY <1>4, <1>7 DEF Save
<1>8. CASE \E h \in Handlers : SaveFails(h)
  <2>1. PICK h \in Handlers : SaveFails(h)
    BY <1>8
  <2>2. UNCHANGED <<kind, rows, now>>
    BY <2>1 DEF SaveFails
  <2>3. ASSUME NEW g \in Handlers, held'[g] # Nil PROVE Saved(rows, held'[g].next) = {}
    BY <1>4, <2>1, <2>3 DEF SaveFails, IInv
  <2>. QED BY <1>1, <1>3, <2>2, <2>3, SameKind DEF Stranded
<1>9. CASE Tick
  <2>1. UNCHANGED <<kind, rows, held>> /\ now' = now + 1
    BY <1>9 DEF Tick
  <2>2. Loaded(rows, now') = {}
    BY <1>1, <1>2, <1>3, <2>1, UnloadableStays
  <2>. QED BY <1>1, <1>4, <2>1, <2>2, SameKind DEF Stranded
<1>. QED BY <1>5, <1>6, <1>7, <1>8, <1>9 DEF Next

\* A row that rehydration refuses, with no copy left that could replace it, stays as it
\* is for ever.
THEOREM StrandedRowsStay == Spec => StrandedForEver
<1>1. IInv /\ [Next]_vars => [Stranded => Stranded']_vars
  BY StepKeepsStranded
<1>. QED BY <1>1, IInvHolds, PTL DEF Spec, StrandedForEver

=============================================================================
