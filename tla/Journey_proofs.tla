---------------------------- MODULE Journey_proofs ----------------------------
(***************************************************************************)
(* Theorems about Journey, for any number of handlers, buses, moments and  *)
(* versions: the version check makes every save serial, so that the stored *)
(* journey follows its lifecycle however handlers race on their copies.    *)
(***************************************************************************)
EXTENDS Journey, TLAPS

\* A change of status that the lifecycle allows, or none.
Edge(s, t) == s = t \/ <<s, t>> \in Lifecycle!Forward \cup Lifecycle!Abandon

\* What any method may make of a journey.
Successor(j, k) ==
  /\ k \in JourneyRecord
  /\ k.version = j.version
  /\ Edge(j.status, k.status)

\* A recommendation list that is not empty has a first bus.
LEMMA FirstRecommended ==
  ASSUME NEW recs \in Recommendations, recs # <<>>
  PROVE  recs[1] \in Buses
BY DEF Recommendations

\* The recommended buses are buses.
LEMMA RecommendedAreBuses ==
  ASSUME NEW j \in JourneyRecord
  PROVE  Recommended(j) \subseteq Buses
BY DEF JourneyRecord, Recommendations, Recommended

\* Leaving the status alone is always allowed.
LEMMA Stays ==
  ASSUME NEW j \in JourneyRecord, NEW k \in JourneyRecord,
         k.version = j.version, k.status = j.status
  PROVE  Successor(j, k)
BY DEF Successor, Edge

\* CanTransitionTo allows only edges of the lifecycle.
LEMMA TransitionsAreEdges ==
  ASSUME NEW s, NEW t, CanTransitionTo(s, t)
  PROVE  t \in JourneyStatus /\ Edge(s, t)
BY DEF CanTransitionTo, JourneyStatus, Edge, Lifecycle!Forward, Lifecycle!Abandon,
       Lifecycle!Active

\* A guarded change of status is a successor, whatever else it changes.
LEMMA TransitionSucceeds ==
  ASSUME NEW j \in JourneyRecord, NEW c \in JourneyRecord, c.version = j.version,
         NEW s, NEW k \in Transition(j, s, c)
  PROVE  Successor(j, k)
<1>1. CanTransitionTo(j.status, s) /\ k = [c EXCEPT !.status = s]
  BY DEF Transition
<1>2. s \in JourneyStatus /\ Edge(j.status, s)
  BY <1>1, TransitionsAreEdges
<1>3. k \in JourneyRecord /\ k.version = c.version /\ k.status = s
  BY <1>1, <1>2 DEF JourneyRecord
<1>4. QED
  BY <1>2, <1>3 DEF Successor

-----------------------------------------------------------------------------
\* InitializeTracking.
LEMMA InitializeTrackingSucceeds ==
  ASSUME NEW j \in JourneyRecord, NEW recs \in Recommendations, NEW d \in Durations,
         NEW k \in InitializeTracking(j, recs, d)
  PROVE  Successor(j, k)
<1> DEFINE c == [j EXCEPT !.recs = recs, !.active = recs[1], !.expiration = j.createdAt + d]
<1>1. recs # <<>> /\ k \in Transition(j, "Tracking", c)
  BY DEF InitializeTracking
<1>2. recs[1] \in Buses
  BY <1>1, FirstRecommended
<1>3. j.createdAt + d \in Nat
  BY JourneyAssumption DEF JourneyRecord, Time
<1>4. c \in JourneyRecord /\ c.version = j.version
  BY <1>2, <1>3 DEF JourneyRecord
<1>5. QED
  BY <1>1, <1>4, TransitionSucceeds

\* UpdateRecommendations.
LEMMA UpdateRecommendationsSucceeds ==
  ASSUME NEW j \in JourneyRecord, NEW recs \in Recommendations, NEW t,
         NEW k \in UpdateRecommendations(j, recs, t)
  PROVE  Successor(j, k)
<1>1. CASE k = j
  BY <1>1, Stays
<1>2. CASE k = [j EXCEPT !.recs = recs]
  <2>1. k \in JourneyRecord /\ k.version = j.version /\ k.status = j.status
    BY <1>2 DEF JourneyRecord
  <2>2. QED
    BY <2>1, Stays
<1>3. CASE /\ recs # <<>>
           /\ k = [j EXCEPT !.recs = recs, !.active = recs[1], !.level = 0, !.window = NoTime]
  <2>1. recs[1] \in Buses
    BY <1>3, FirstRecommended
  <2>2. 0 \in ProximityLevel
    BY DEF ProximityLevel
  <2>3. k \in JourneyRecord /\ k.version = j.version /\ k.status = j.status
    BY <1>3, <2>1, <2>2 DEF JourneyRecord
  <2>4. QED
    BY <2>3, Stays
<1>4. QED
  BY <1>1, <1>2, <1>3 DEF UpdateRecommendations, ShouldUpdateRecommendations

\* SwitchBus, by name or by location.
LEMMA SwitchBusSucceeds ==
  ASSUME NEW j \in JourneyRecord, NEW bus, NEW t, NEW k \in SwitchBus(j, bus, t)
  PROVE  Successor(j, k)
<1>1. CASE k = j
  BY <1>1, Stays
<1>2. CASE bus \in Recommended(j) /\ k = [j EXCEPT !.active = bus, !.declines = 0]
  <2>1. bus \in Buses
    BY <1>2, RecommendedAreBuses
  <2>2. 0 \in 0..MaxDeclines
    BY JourneyAssumption
  <2>3. k \in JourneyRecord /\ k.version = j.version /\ k.status = j.status
    BY <1>2, <2>1, <2>2 DEF JourneyRecord
  <2>4. QED
    BY <2>3, Stays
<1>3. QED
  BY <1>1, <1>2 DEF SwitchBus

\* UpdateProximity.
LEMMA UpdateProximitySucceeds ==
  ASSUME NEW j \in JourneyRecord, NEW bus, NEW level, NEW t \in Time,
         NEW k \in UpdateProximity(j, bus, level, t)
  PROVE  Successor(j, k)
<1> DEFINE c == [j EXCEPT !.level = level, !.window = t]
<1>1. level \in ProximityLevel
  BY DEF UpdateProximity, isValidProximityProgression
<1>2. CASE k \in Transition(j, "BoardingPrompt", c)
  <2>1. c \in JourneyRecord /\ c.version = j.version
    BY <1>1 DEF JourneyRecord
  <2>2. QED
    BY <1>2, <2>1, TransitionSucceeds
<1>3. CASE k = [j EXCEPT !.level = level]
  <2>1. k \in JourneyRecord /\ k.version = j.version /\ k.status = j.status
    BY <1>1, <1>3 DEF JourneyRecord
  <2>2. QED
    BY <2>1, Stays
<1>4. QED
  BY <1>2, <1>3 DEF UpdateProximity

\* ConfirmBoarded, and the boarding that the end of the window brings about.
LEMMA BoardingSucceeds ==
  ASSUME NEW j \in JourneyRecord, NEW t \in Time,
         NEW k \in ConfirmBoarded(j, t) \cup AutoCompleteIfBoardingWindowExpired(j, t)
  PROVE  Successor(j, k)
<1> DEFINE c == [j EXCEPT !.boardedAt = t]
<1>1. c \in JourneyRecord /\ c.version = j.version
  BY DEF JourneyRecord
<1>2. CASE k = j
  BY <1>2, Stays
<1>3. CASE k \in Transition(j, "Boarded", c)
  BY <1>1, <1>3, TransitionSucceeds
<1>4. QED
  BY <1>2, <1>3 DEF ConfirmBoarded, AutoCompleteIfBoardingWindowExpired

\* DeclineBoarding.
LEMMA DeclineBoardingSucceeds ==
  ASSUME NEW j \in JourneyRecord, NEW t, NEW k \in DeclineBoarding(j, t)
  PROVE  Successor(j, k)
<1> DEFINE c == [j EXCEPT !.declines = @ + 1, !.level = 0]
<1>1. ~(j.declines >= MaxDeclines) /\ k \in Transition(j, "Tracking", c)
  BY DEF DeclineBoarding
<1>2. j.declines + 1 \in 0..MaxDeclines
  BY <1>1, JourneyAssumption DEF JourneyRecord
<1>3. 0 \in ProximityLevel
  BY DEF ProximityLevel
<1>4. c \in JourneyRecord /\ c.version = j.version
  BY <1>2, <1>3 DEF JourneyRecord
<1>5. QED
  BY <1>1, <1>4, TransitionSucceeds

\* CompleteJourney, CancelJourney and ExpireJourney.
LEMMA EndingSucceeds ==
  ASSUME NEW j \in JourneyRecord,
         NEW k \in CompleteJourney(j) \cup CancelJourney(j) \cup ExpireJourney(j)
  PROVE  Successor(j, k)
BY TransitionSucceeds DEF CompleteJourney, CancelJourney, ExpireJourney

\* Every command makes a successor of the journey it is applied to.
LEMMA OutcomeSucceeds ==
  ASSUME NEW j \in JourneyRecord, NEW t \in Time, NEW op \in Ops, NEW k \in Outcome(op, j, t)
  PROVE  Successor(j, k)
<1>1. CASE op = "InitializeTracking"
  BY <1>1, InitializeTrackingSucceeds DEF Outcome
<1>2. CASE op = "UpdateRecommendations"
  BY <1>2, UpdateRecommendationsSucceeds DEF Outcome
<1>3. CASE op = "SwitchBus"
  BY <1>3, SwitchBusSucceeds DEF Outcome
<1>4. CASE op = "SwitchBusByLocation"
  BY <1>4, SwitchBusSucceeds DEF Outcome
<1>5. CASE op = "UpdateProximity"
  BY <1>5, UpdateProximitySucceeds DEF Outcome
<1>6. CASE op = "ConfirmBoarding"
  BY <1>6, BoardingSucceeds DEF Outcome
<1>7. CASE op = "DeclineBoarding"
  BY <1>7, DeclineBoardingSucceeds DEF Outcome
<1>8. CASE op = "CompleteJourney"
  BY <1>8, EndingSucceeds DEF Outcome
<1>9. CASE op = "CancelJourney"
  BY <1>9, EndingSucceeds DEF Outcome
<1>10. CASE op = "ExpireJourney"
  BY <1>10, EndingSucceeds DEF Outcome
<1>11. CASE op = "AutoComplete"
  BY <1>11, BoardingSucceeds DEF Outcome
<1>12. QED
  BY <1>1, <1>2, <1>3, <1>4, <1>5, <1>6, <1>7, <1>8, <1>9, <1>10, <1>11 DEF Ops

-----------------------------------------------------------------------------
\* A copy that a handler is about to save.
Copy == [op : Ops \cup {"CreateJourney"}, next : JourneyRecord]

\* A new journey is a journey.
LEMMA NewJourneyIsRecord ==
  ASSUME NEW t \in Time
  PROVE  NewJourney(t) \in JourneyRecord
<1>1. t + DefaultExpiry \in Nat /\ 0 \in 0..MaxDeclines
  BY JourneyAssumption DEF Time
<1>2. <<>> \in Recommendations
  BY DEF Recommendations
<1>3. 0 \in ProximityLevel /\ "Searching" \in JourneyStatus
  BY DEF ProximityLevel, JourneyStatus
<1>4. QED
  BY <1>1, <1>2, <1>3 DEF NewJourney, JourneyRecord

\* The moments up to now are moments of the clock.
LEMMA Moments ==
  ASSUME now \in Time
  PROVE  0..now \subseteq Time /\ now \in 0..now
BY JourneyAssumption DEF Time

\* The UPSERT stores a journey of the next version.
LEMMA StoredIsRecord ==
  ASSUME NEW j \in JourneyRecord
  PROVE  /\ Stored(j) \in JourneyRecord
         /\ Stored(j) # Nil
         /\ Stored(j).version = j.version + 1
         /\ Stored(j).status = j.status
<1>1. j.version + 1 \in Nat
  BY DEF JourneyRecord
<1>2. Stored(j) = [j EXCEPT !.version = j.version + 1]
  BY DEF Stored
<1>3. Stored(j) \in JourneyRecord /\ Stored(j).version = j.version + 1 /\ Stored(j).status = j.status
  BY <1>1, <1>2 DEF JourneyRecord
<1>4. QED
  BY <1>3, NilAssumption

\* There is no row and nobody holds a copy at first.
THEOREM InitIInv == Init => IInv
<1> SUFFICES ASSUME Init PROVE IInv
  OBVIOUS
<1>1. TypeOK
  BY JourneyAssumption DEF Init, TypeOK, Time
<1>2. QED
  BY <1>1 DEF Init, IInv, CopiesAreCurrent

\* CreateJourney: the copy is a new journey.
LEMMA CreateKeepsIInv ==
  ASSUME IInv, NEW h \in Handlers, CreateJourney(h)
  PROVE  IInv'
<1>1. PICK t \in 0..now :
        held' = [held EXCEPT ![h] = [op |-> "CreateJourney", next |-> NewJourney(t)]]
  BY DEF CreateJourney
<1>2. UNCHANGED <<row, now>> /\ TypeOK
  BY DEF CreateJourney, IInv
<1>3. NewJourney(t) \in JourneyRecord
  BY <1>1, <1>2, Moments, NewJourneyIsRecord DEF TypeOK
<1>4. [op |-> "CreateJourney", next |-> NewJourney(t)] \in Copy
  BY <1>3 DEF Copy
<1>5. TypeOK'
  BY <1>1, <1>2, <1>4 DEF TypeOK, Copy
<1>6. CopiesAreCurrent'
  <2> SUFFICES ASSUME NEW g \in Handlers, held'[g] # Nil
               PROVE  CopyIsCurrent(held[g])'
    BY DEF CopiesAreCurrent
  <2>1. CASE g = h
    <3>1. held'[g] = [op |-> "CreateJourney", next |-> NewJourney(t)]
      BY <1>1, <1>2, <2>1 DEF TypeOK
    <3>2. QED
      BY <3>1 DEF CopyIsCurrent, NewJourney
  <2>2. CASE g # h
    <3>1. held'[g] = held[g]
      BY <1>1, <1>2, <2>2 DEF TypeOK
    <3>2. CopyIsCurrent(held[g])
      BY <3>1 DEF IInv, CopiesAreCurrent
    <3>3. QED
      BY <1>2, <3>1, <3>2 DEF CopyIsCurrent
  <2>3. QED
    BY <2>1, <2>2
<1>7. QED
  BY <1>2, <1>5, <1>6 DEF IInv

\* Handle: the copy is what the command makes of the row, now.
LEMMA HandleKeepsIInv ==
  ASSUME IInv, NEW h \in Handlers, NEW op \in Ops, Handle(h, op)
  PROVE  IInv'
<1>1. PICK k \in Outcome(op, row, now) : held' = [held EXCEPT ![h] = [op |-> op, next |-> k]]
  BY DEF Handle
<1>2. UNCHANGED <<row, now>> /\ row # Nil /\ TypeOK
  BY DEF Handle, IInv
<1>3. row \in JourneyRecord /\ now \in Time
  BY <1>2 DEF TypeOK
<1>4. Successor(row, k)
  BY <1>1, <1>3, OutcomeSucceeds
<1>5. k \in JourneyRecord /\ k.version = row.version
  BY <1>4 DEF Successor
<1>6. [op |-> op, next |-> k] \in Copy
  BY <1>5 DEF Copy
<1>7. TypeOK'
  BY <1>1, <1>2, <1>6 DEF TypeOK, Copy
<1>8. CopiesAreCurrent'
  <2> SUFFICES ASSUME NEW g \in Handlers, held'[g] # Nil
               PROVE  CopyIsCurrent(held[g])'
    BY DEF CopiesAreCurrent
  <2>1. CASE g = h
    <3>1. held'[g] = [op |-> op, next |-> k]
      BY <1>1, <1>2, <2>1 DEF TypeOK
    <3>2. k.version \in 2..row.version
      BY <1>2, <1>3, <1>5 DEF IInv, JourneyRecord
    <3>3. now \in 0..now
      BY <1>3, Moments
    <3>4. QED
      BY <1>1, <1>2, <3>1, <3>2, <3>3 DEF CopyIsCurrent
  <2>2. CASE g # h
    <3>1. held'[g] = held[g]
      BY <1>1, <1>2, <2>2 DEF TypeOK
    <3>2. CopyIsCurrent(held[g])
      BY <3>1 DEF IInv, CopiesAreCurrent
    <3>3. QED
      BY <1>2, <3>1, <3>2 DEF CopyIsCurrent
  <2>3. QED
    BY <2>1, <2>2
<1>9. QED
  BY <1>2, <1>7, <1>8 DEF IInv

\* What Save finds: a new journey when there is no row, else a copy of the row itself.
LEMMA SaveFinds ==
  ASSUME IInv, NEW h \in Handlers, Save(h)
  PROVE  /\ held[h] \in Copy
         /\ row = Nil => held[h].next.status = "Searching" /\ held[h].next.version = 1
         /\ row # Nil => /\ row \in JourneyRecord
                         /\ held[h].next.version = row.version
                         /\ held[h].op \in Ops
                         /\ \E t \in 0..now : held[h].next \in Outcome(held[h].op, row, t)
<1>1. held[h] \in Copy
  BY DEF Save, IInv, TypeOK, Copy
<1>2. CopyIsCurrent(held[h])
  BY DEF Save, IInv, CopiesAreCurrent
<1>3. row # Nil => row \in JourneyRecord /\ row.version >= 2 /\ held[h].next.version = row.version
  BY DEF Save, IInv, TypeOK
<1>4. QED
  BY <1>1, <1>2, <1>3 DEF CopyIsCurrent

\* Save: every other copy that came from the row is outdated from now on.
LEMMA SaveKeepsIInv ==
  ASSUME IInv, NEW h \in Handlers, Save(h)
  PROVE  IInv'
<1> DEFINE j == held[h].next
<1>1. j \in JourneyRecord
  BY SaveFinds DEF Copy
<1>2. row' = Stored(j) /\ held' = [held EXCEPT ![h] = Nil] /\ now' = now /\ TypeOK
  BY DEF Save, IInv
<1>3. row' \in JourneyRecord /\ row' # Nil /\ row'.version = j.version + 1
  BY <1>1, <1>2, StoredIsRecord
<1>4. TypeOK'
  BY <1>2, <1>3 DEF TypeOK
<1>5. j.version \in Nat /\ (row # Nil => row.version \in Nat /\ row.version >= 2)
  BY <1>1, SaveFinds DEF JourneyRecord, IInv
<1>6. row'.version >= 2
  BY <1>3, <1>5, SaveFinds
<1>7. CopiesAreCurrent'
  <2> SUFFICES ASSUME NEW g \in Handlers, held'[g] # Nil
               PROVE  CopyIsCurrent(held[g])'
    BY DEF CopiesAreCurrent
  <2>1. held'[g] = held[g] /\ held[g] # Nil
    BY <1>2 DEF TypeOK
  <2>2. CopyIsCurrent(held[g])
    BY <2>1 DEF IInv, CopiesAreCurrent
  <2>3. CASE held[g].op \in Ops /\ row # Nil /\ held[g].next.version \in 2..row.version
    <3>1. j.version = row.version
      BY <2>3, SaveFinds
    <3>2. held[g].next.version \in 2..row'.version /\ held[g].next.version # row'.version
      BY <1>3, <1>5, <2>3, <3>1
    <3>3. QED
      BY <1>3, <2>1, <2>3, <3>2 DEF CopyIsCurrent
  <2>4. QED
    BY <2>1, <2>2, <2>3 DEF CopyIsCurrent
<1>8. QED
  BY <1>3, <1>4, <1>6, <1>7 DEF IInv

\* A save that fails only forgets the copy.
LEMMA SaveFailsKeepsIInv ==
  ASSUME IInv, NEW h \in Handlers, SaveFails(h)
  PROVE  IInv'
<1>1. held' = [held EXCEPT ![h] = Nil] /\ UNCHANGED <<row, now>> /\ TypeOK
  BY DEF SaveFails, IInv
<1>2. TypeOK'
  BY <1>1 DEF TypeOK
<1>3. CopiesAreCurrent'
  <2> SUFFICES ASSUME NEW g \in Handlers, held'[g] # Nil
               PROVE  CopyIsCurrent(held[g])'
    BY DEF CopiesAreCurrent
  <2>1. held'[g] = held[g] /\ held[g] # Nil
    BY <1>1 DEF TypeOK
  <2>2. CopyIsCurrent(held[g])
    BY <2>1 DEF IInv, CopiesAreCurrent
  <2>3. QED
    BY <1>1, <2>1, <2>2 DEF CopyIsCurrent
<1>4. QED
  BY <1>1, <1>2, <1>3 DEF IInv

\* As time passes, the moment at which a copy was made stays in the past.
LEMMA TickKeepsIInv ==
  ASSUME IInv, Tick
  PROVE  IInv'
<1>1. UNCHANGED <<row, held>> /\ now' = now + 1 /\ now < MaxTime /\ TypeOK
  BY DEF Tick, IInv
<1>2. now' \in Time /\ 0..now \subseteq 0..now'
  BY <1>1, JourneyAssumption DEF TypeOK, Time
<1>3. TypeOK'
  BY <1>1, <1>2 DEF TypeOK
<1>4. CopiesAreCurrent'
  <2> SUFFICES ASSUME NEW g \in Handlers, held'[g] # Nil
               PROVE  CopyIsCurrent(held[g])'
    BY DEF CopiesAreCurrent
  <2>1. CopyIsCurrent(held[g])
    BY <1>1 DEF IInv, CopiesAreCurrent
  <2>2. QED
    BY <1>1, <1>2, <2>1 DEF CopyIsCurrent
<1>5. QED
  BY <1>1, <1>3, <1>4 DEF IInv

\* Every step of handlers, repository and clock keeps the invariant.
LEMMA NextKeepsIInv == IInv /\ [Next]_vars => IInv'
<1> SUFFICES ASSUME IInv, [Next]_vars PROVE IInv'
  OBVIOUS
<1>1. CASE \E h \in Handlers : CreateJourney(h)
  BY <1>1, CreateKeepsIInv
<1>2. CASE \E h \in Handlers, op \in Ops : Handle(h, op)
  BY <1>2, HandleKeepsIInv
<1>3. CASE \E h \in Handlers : Save(h)
  BY <1>3, SaveKeepsIInv
<1>4. CASE \E h \in Handlers : SaveFails(h)
  BY <1>4, SaveFailsKeepsIInv
<1>5. CASE Tick
  BY <1>5, TickKeepsIInv
<1>6. CASE UNCHANGED vars
  BY <1>6 DEF vars, IInv, TypeOK, CopiesAreCurrent, CopyIsCurrent
<1>7. QED
  BY <1>1, <1>2, <1>3, <1>4, <1>5, <1>6 DEF Next

\* The inductive invariant holds in every reachable state.
THEOREM IInvHolds == Spec => []IInv
BY InitIInv, NextKeepsIInv, PTL DEF Spec

\* Type correctness of the row, of the copies and of the clock.
THEOREM TypeCorrect == Spec => []TypeOK
<1>1. IInv => TypeOK
  BY DEF IInv
<1>2. QED
  BY <1>1, IInvHolds, PTL

\* The version check of the UPSERT loses no update: what is stored is always the saving
\* command's outcome on the row it replaces.
THEOREM SerialSaves == Spec => SavesAreSerial
<1>1. IInv /\ [Next]_vars =>
        [\A h \in Handlers :
           Save(h) /\ row # Nil =>
             \E t \in 0..now : held[h].op \in Ops /\ held[h].next \in Outcome(held[h].op, row, t)]_vars
  BY SaveFinds
<1>2. QED
  BY <1>1, IInvHolds, PTL DEF Spec, SavesAreSerial

\* A step of the handlers is a step of the lifecycle or leaves the row alone.
LEMMA StepsRefine == IInv /\ [Next]_vars => [Lifecycle!Next]_(Lifecycle!lvars)
<1> SUFFICES ASSUME IInv, [Next]_vars
             PROVE  [Lifecycle!Next]_(Lifecycle!lvars)
  OBVIOUS
<1>1. CASE row' = row
  BY <1>1 DEF Lifecycle!lvars
<1>2. CASE \E h \in Handlers : Save(h)
  <2>1. PICK h \in Handlers : Save(h)
    BY <1>2
  <2> DEFINE j == held[h].next
  <2>2. j \in JourneyRecord
    BY <2>1, SaveFinds DEF Copy
  <2>3. row' = Stored(j)
    BY <2>1 DEF Save
  <2>4. row' # Nil /\ row'.version = j.version + 1 /\ row'.status = j.status
    BY <2>2, <2>3, StoredIsRecord
  <2>5. CASE row = Nil
    <3>1. j.status = "Searching" /\ j.version = 1
      BY <2>1, <2>5, SaveFinds
    <3>2. Lifecycle!Create
      BY <2>4, <2>5, <3>1 DEF Lifecycle!Create
    <3>3. QED
      BY <3>2 DEF Lifecycle!Next
  <2>6. CASE row # Nil
    <3>1. /\ row \in JourneyRecord /\ j.version = row.version /\ held[h].op \in Ops
          /\ \E t \in 0..now : j \in Outcome(held[h].op, row, t)
      BY <2>1, <2>6, SaveFinds
    <3>2. 0..now \subseteq Time
      BY Moments DEF IInv, TypeOK
    <3>3. Edge(row.status, j.status)
      BY <3>1, <3>2, OutcomeSucceeds DEF Successor
    <3>4. CASE j.status = row.status
      <4>1. row.status # "None"
        BY <3>1 DEF JourneyRecord, JourneyStatus
      <4>2. Lifecycle!Touch
        BY <2>4, <2>6, <3>1, <3>4, <4>1 DEF Lifecycle!Touch
      <4>3. QED
        BY <4>2 DEF Lifecycle!Next
    <3>5. CASE j.status # row.status
      <4>1. <<row.status, j.status>> \in Lifecycle!Forward \cup Lifecycle!Abandon
        BY <3>3, <3>5 DEF Edge
      <4>2. Lifecycle!Move
        BY <2>4, <2>6, <3>1, <4>1 DEF Lifecycle!Move
      <4>3. QED
        BY <4>2 DEF Lifecycle!Next
    <3>6. QED
      BY <3>4, <3>5
  <2>7. QED
    BY <2>5, <2>6
<1>3. QED
  BY <1>1, <1>2 DEF Next, vars, CreateJourney, Handle, SaveFails, Tick

\* Handlers that race on copies of a row implement the lifecycle of one journey.
THEOREM LifecycleImplemented == Spec => ImplementsLifecycle
<1>1. Init => Lifecycle!Init
  BY DEF Init, Lifecycle!Init
<1>2. QED
  BY <1>1, StepsRefine, IInvHolds, PTL DEF Spec, ImplementsLifecycle, Lifecycle!Spec

-----------------------------------------------------------------------------
\* A moment of the clock is a number from 0 on, so that NoTime is before it.
LEMMA TimeIsLater ==
  ASSUME NEW t \in Time
  PROVE  t \in Nat /\ NoTime < t /\ t # NoTime
BY JourneyAssumption DEF Time, NoTime

\* The times of a journey can be compared.
LEMMA TimesAreNumbers ==
  ASSUME NEW j \in JourneyRecord
  PROVE  j.window \in Int /\ j.boardedAt \in Int /\ NoTime <= j.window /\ NoTime <= j.boardedAt
BY JourneyAssumption DEF JourneyRecord, Time, NoTime

\* InitializeTracking makes the first recommended bus the active one.
LEMMA InitializeTrackingSound ==
  ASSUME NEW j \in JourneyRecord, NEW t \in Time, Sound(j, t),
         NEW recs \in Recommendations, NEW d, NEW k \in InitializeTracking(j, recs, d)
  PROVE  Sound(k, t)
<1>1. /\ recs # <<>>
      /\ k = [j EXCEPT !.recs = recs, !.active = recs[1], !.expiration = j.createdAt + d,
                       !.status = "Tracking"]
      /\ j.status \in {"Searching", "BoardingPrompt"}
  BY DEF InitializeTracking, Transition, CanTransitionTo, JourneyRecord, JourneyStatus
<1>2. recs[1] \in {recs[i] : i \in DOMAIN recs}
  BY <1>1 DEF Recommendations
<1>3. /\ k.recs = recs /\ k.active = recs[1] /\ k.status = "Tracking"
      /\ k.window = j.window /\ k.boardedAt = j.boardedAt
  BY <1>1 DEF JourneyRecord
<1>4. QED
  BY <1>1, <1>2, <1>3 DEF Sound, PromptBacked, BoardingTimed, Recommended

\* UpdateRecommendations keeps the active bus among the recommended ones.
LEMMA UpdateRecommendationsSound ==
  ASSUME NEW j \in JourneyRecord, NEW t \in Time, Sound(j, t),
         NEW recs \in Recommendations, NEW k \in UpdateRecommendations(j, recs, t)
  PROVE  Sound(k, t)
<1>1. CASE k = j
  BY <1>1
<1>2. CASE /\ recs # <<>> /\ j.status # "BoardingPrompt"
           /\ \/ recs[1] = j.active /\ k = [j EXCEPT !.recs = recs]
              \/ k = [j EXCEPT !.recs = recs, !.active = recs[1], !.level = 0, !.window = NoTime]
  <2>1. recs[1] \in {recs[i] : i \in DOMAIN recs}
    BY <1>2 DEF Recommendations
  <2>2. /\ k.recs = recs /\ k.active = recs[1] /\ k.status = j.status
        /\ k.window \in {j.window, NoTime} /\ k.boardedAt = j.boardedAt
    BY <1>2 DEF JourneyRecord
  <2>3. k.window <= t /\ (j.boardedAt >= j.window => j.boardedAt >= k.window)
    BY <2>2, TimeIsLater, TimesAreNumbers DEF Sound, NoTime
  <2>4. QED
    BY <1>2, <2>1, <2>2, <2>3 DEF Sound, PromptBacked, BoardingTimed, Recommended
<1>3. QED
  BY <1>1, <1>2 DEF UpdateRecommendations, ShouldUpdateRecommendations

\* SwitchBus makes a recommended bus the active one, never at a prompt.
LEMMA SwitchBusSound ==
  ASSUME NEW j \in JourneyRecord, NEW t \in Time, Sound(j, t),
         NEW bus, NEW k \in SwitchBus(j, bus, t)
  PROVE  Sound(k, t)
<1>1. CASE k = j
  BY <1>1
<1>2. CASE /\ bus \in Recommended(j) /\ j.status # "BoardingPrompt"
           /\ k = [j EXCEPT !.active = bus, !.declines = 0]
  <2>1. /\ k.recs = j.recs /\ k.active = bus /\ k.status = j.status
        /\ k.window = j.window /\ k.boardedAt = j.boardedAt
    BY <1>2 DEF JourneyRecord
  <2>2. QED
    BY <1>2, <2>1 DEF Sound, PromptBacked, BoardingTimed, Recommended
<1>3. QED
  BY <1>1, <1>2 DEF SwitchBus

\* UpdateProximity opens the window as it prompts, for a bus that there is.
LEMMA UpdateProximitySound ==
  ASSUME NEW j \in JourneyRecord, NEW t \in Time, Sound(j, t),
         NEW bus \in Buses, NEW level, NEW k \in UpdateProximity(j, bus, level, t)
  PROVE  Sound(k, t)
<1>1. /\ bus = j.active /\ level = j.level + 1
      /\ \/ /\ level = Arrived /\ j.status = "Tracking"
            /\ k = [j EXCEPT !.level = level, !.window = t, !.status = "BoardingPrompt"]
         \/ level # Arrived /\ k = [j EXCEPT !.level = level]
  BY DEF UpdateProximity, isValidProximityProgression, Transition, CanTransitionTo
<1>2. j.active # NoBus
  BY <1>1, JourneyAssumption
<1>3. k.recs = j.recs /\ k.active = j.active /\ k.boardedAt = j.boardedAt /\ k.level = level
  BY <1>1 DEF JourneyRecord
<1>4. CASE k = [j EXCEPT !.level = level] /\ level # Arrived
  <2>1. k.status = j.status /\ k.window = j.window
    BY <1>4 DEF JourneyRecord
  <2>2. j.status # "BoardingPrompt"
    BY <1>1, <1>4 DEF Sound, PromptBacked, UpdateProximity, isValidProximityProgression,
                      ProximityLevel, Arrived
  <2>3. QED
    BY <1>3, <2>1, <2>2 DEF Sound, PromptBacked, BoardingTimed, Recommended
<1>5. CASE /\ level = Arrived /\ j.status = "Tracking"
           /\ k = [j EXCEPT !.level = level, !.window = t, !.status = "BoardingPrompt"]
  <2>1. k.status = "BoardingPrompt" /\ k.window = t
    BY <1>5 DEF JourneyRecord
  <2>2. t # NoTime /\ t <= t /\ j.boardedAt = NoTime
    BY <1>5, TimeIsLater DEF Sound, BoardingTimed
  <2>3. QED
    BY <1>2, <1>3, <1>5, <2>1, <2>2 DEF Sound, PromptBacked, BoardingTimed, Recommended
<1>6. QED
  BY <1>1, <1>4, <1>5

\* Boarding is timed, and not before the window was opened.
LEMMA BoardingSound ==
  ASSUME NEW j \in JourneyRecord, NEW t \in Time, Sound(j, t),
         NEW k \in ConfirmBoarded(j, t) \cup AutoCompleteIfBoardingWindowExpired(j, t)
  PROVE  Sound(k, t)
<1>1. CASE k = j
  BY <1>1
<1>2. CASE k = [j EXCEPT !.boardedAt = t, !.status = "Boarded"]
  <2>1. /\ k.recs = j.recs /\ k.active = j.active /\ k.status = "Boarded"
        /\ k.window = j.window /\ k.boardedAt = t
    BY <1>2 DEF JourneyRecord
  <2>2. t # NoTime /\ t >= j.window
    BY TimeIsLater, TimesAreNumbers DEF Sound
  <2>3. QED
    BY <2>1, <2>2 DEF Sound, PromptBacked, BoardingTimed, Recommended
<1>3. QED
  BY <1>1, <1>2 DEF ConfirmBoarded, AutoCompleteIfBoardingWindowExpired, Transition

\* DeclineBoarding goes back to tracking, where nobody has boarded.
LEMMA DeclineBoardingSound ==
  ASSUME NEW j \in JourneyRecord, NEW t \in Time, Sound(j, t), NEW k \in DeclineBoarding(j, t)
  PROVE  Sound(k, t)
<1>1. /\ j.status = "BoardingPrompt"
      /\ k = [j EXCEPT !.declines = j.declines + 1, !.level = 0, !.status = "Tracking"]
  BY DEF DeclineBoarding, Transition
<1>2. /\ k.recs = j.recs /\ k.active = j.active /\ k.status = "Tracking"
      /\ k.window = j.window /\ k.boardedAt = j.boardedAt
  BY <1>1 DEF JourneyRecord
<1>3. QED
  BY <1>1, <1>2 DEF Sound, PromptBacked, BoardingTimed, Recommended

\* An end changes only the status, and completes nothing but a boarded journey.
LEMMA EndingSound ==
  ASSUME NEW j \in JourneyRecord, NEW t \in Time, Sound(j, t),
         NEW k \in CompleteJourney(j) \cup CancelJourney(j) \cup ExpireJourney(j)
  PROVE  Sound(k, t)
<1>1. PICK s : /\ k = [j EXCEPT !.status = s]
               /\ s \in {"Cancelled", "Expired"} \/ (s = "Completed" /\ j.status = "Boarded")
  BY DEF CompleteJourney, CancelJourney, ExpireJourney, Transition
<1>2. /\ k.recs = j.recs /\ k.active = j.active /\ k.status = s
      /\ k.window = j.window /\ k.boardedAt = j.boardedAt
  BY <1>1 DEF JourneyRecord
<1>3. QED
  BY <1>1, <1>2 DEF Sound, PromptBacked, BoardingTimed, Recommended

\* Every command makes a sound journey of a sound one.
LEMMA OutcomeSound ==
  ASSUME NEW j \in JourneyRecord, NEW t \in Time, Sound(j, t), NEW op \in Ops,
         NEW k \in Outcome(op, j, t)
  PROVE  Sound(k, t)
<1>1. CASE op = "InitializeTracking"
  BY <1>1, InitializeTrackingSound DEF Outcome
<1>2. CASE op = "UpdateRecommendations"
  BY <1>2, UpdateRecommendationsSound DEF Outcome
<1>3. CASE op = "SwitchBus"
  BY <1>3, SwitchBusSound DEF Outcome
<1>4. CASE op = "SwitchBusByLocation"
  BY <1>4, SwitchBusSound DEF Outcome
<1>5. CASE op = "UpdateProximity"
  BY <1>5, UpdateProximitySound DEF Outcome
<1>6. CASE op \in {"ConfirmBoarding", "AutoComplete"}
  BY <1>6, BoardingSound DEF Outcome
<1>7. CASE op = "DeclineBoarding"
  BY <1>7, DeclineBoardingSound DEF Outcome
<1>8. CASE op \in {"CompleteJourney", "CancelJourney", "ExpireJourney"}
  BY <1>8, EndingSound DEF Outcome
<1>9. QED
  BY <1>1, <1>2, <1>3, <1>4, <1>5, <1>6, <1>7, <1>8 DEF Ops

\* A new journey is sound from the moment it was created.
LEMMA NewJourneySound ==
  ASSUME NEW t \in Time, NEW u \in Time
  PROVE  Sound(NewJourney(t), u)
<1>1. NoTime <= u
  BY TimeIsLater DEF NoTime
<1>2. QED
  BY <1>1 DEF NewJourney, Sound, PromptBacked, BoardingTimed

\* Saving changes nothing that soundness is about.
LEMMA StoredSound ==
  ASSUME NEW j \in JourneyRecord, NEW t, Sound(j, t)
  PROVE  Sound(Stored(j), t)
<1>1. /\ Stored(j).recs = j.recs /\ Stored(j).active = j.active /\ Stored(j).status = j.status
      /\ Stored(j).level = j.level /\ Stored(j).window = j.window
      /\ Stored(j).boardedAt = j.boardedAt
  BY DEF Stored, JourneyRecord
<1>2. QED
  BY <1>1 DEF Sound, PromptBacked, BoardingTimed, Recommended

\* A sound journey stays sound.
LEMMA SoundLater ==
  ASSUME NEW j \in JourneyRecord, NEW t \in Time, NEW u \in Time, t <= u, Sound(j, t)
  PROVE  Sound(j, u)
BY TimesAreNumbers, TimeIsLater DEF Sound

\* No handler and no moment makes a stored journey or a copy unsound.
LEMMA NextKeepsSound == JourneysAreSound /\ TypeOK' /\ [Next]_vars => JourneysAreSound'
<1> SUFFICES ASSUME JourneysAreSound, TypeOK', [Next]_vars
             PROVE  JourneysAreSound'
  OBVIOUS
<1>1. TypeOK /\ now \in Time
  BY DEF JourneysAreSound, TypeOK
<1> DEFINE New(h, op, k) ==
             /\ held' = [held EXCEPT ![h] = [op |-> op, next |-> k]]
             /\ UNCHANGED <<row, now>>
             /\ Sound(k, now)
<1>2. ASSUME NEW h \in Handlers, NEW op, NEW k, New(h, op, k)
      PROVE  JourneysAreSound'
  <2>1. \A g \in Handlers : held'[g] = IF g = h THEN [op |-> op, next |-> k] ELSE held[g]
    BY <1>1, <1>2 DEF TypeOK
  <2>2. QED
    BY <1>2, <2>1 DEF JourneysAreSound
<1>3. ASSUME NEW h \in Handlers, CreateJourney(h)
      PROVE  JourneysAreSound'
  <2>1. PICK t \in 0..now :
          held' = [held EXCEPT ![h] = [op |-> "CreateJourney", next |-> NewJourney(t)]]
    BY <1>3 DEF CreateJourney
  <2>2. Sound(NewJourney(t), now)
    BY <1>1, Moments, NewJourneySound
  <2>3. New(h, "CreateJourney", NewJourney(t))
    BY <1>3, <2>1, <2>2 DEF CreateJourney
  <2>4. QED
    BY <1>2, <2>3
<1>4. ASSUME NEW h \in Handlers, NEW op \in Ops, Handle(h, op)
      PROVE  JourneysAreSound'
  <2>1. PICK k \in Outcome(op, row, now) : held' = [held EXCEPT ![h] = [op |-> op, next |-> k]]
    BY <1>4 DEF Handle
  <2>2. row \in JourneyRecord /\ Sound(row, now)
    BY <1>1, <1>4 DEF Handle, JourneysAreSound, TypeOK
  <2>3. New(h, op, k)
    BY <1>1, <1>4, <2>1, <2>2, OutcomeSound DEF Handle
  <2>4. QED
    BY <1>2, <2>3
<1>5. ASSUME NEW h \in Handlers, Save(h)
      PROVE  JourneysAreSound'
  <2>1. held[h].next \in JourneyRecord /\ Sound(held[h].next, now)
    BY <1>1, <1>5 DEF Save, JourneysAreSound, TypeOK
  <2>2. row' = Stored(held[h].next) /\ now' = now /\ held' = [held EXCEPT ![h] = Nil]
    BY <1>5 DEF Save
  <2>3. Sound(row', now)
    BY <2>1, <2>2, StoredSound
  <2>4. \A g \in Handlers : held'[g] = IF g = h THEN Nil ELSE held[g]
    BY <1>1, <2>2 DEF TypeOK
  <2>5. QED
    BY <2>2, <2>3, <2>4 DEF JourneysAreSound
<1>6. ASSUME NEW h \in Handlers, SaveFails(h)
      PROVE  JourneysAreSound'
  <2>1. UNCHANGED <<row, now>> /\ \A g \in Handlers : held'[g] = IF g = h THEN Nil ELSE held[g]
    BY <1>1, <1>6 DEF TypeOK, SaveFails
  <2>2. QED
    BY <2>1 DEF JourneysAreSound
<1>7. CASE Tick
  <2>1. UNCHANGED <<row, held>> /\ now' \in Time /\ now <= now'
    BY <1>1, <1>7, TimeIsLater DEF Tick, TypeOK
  <2>2. row # Nil => row \in JourneyRecord
    BY <1>1 DEF TypeOK
  <2>3. \A h \in Handlers : held[h] # Nil => held[h].next \in JourneyRecord
    BY <1>1 DEF TypeOK
  <2>4. QED
    BY <1>1, <2>1, <2>2, <2>3, SoundLater DEF JourneysAreSound
<1>8. CASE UNCHANGED vars
  BY <1>8 DEF vars, JourneysAreSound
<1>9. QED
  BY <1>3, <1>4, <1>5, <1>6, <1>7, <1>8 DEF Next

\* Every journey that is stored, or that a handler is about to store, is sound.
THEOREM SoundJourneys == Spec => []JourneysAreSound
<1>1. Init => JourneysAreSound
  BY InitIInv DEF Init, IInv, JourneysAreSound
<1>2. QED
  BY <1>1, NextKeepsSound, TypeCorrect, PTL DEF Spec

\* The passenger is never asked to board a bus that has not arrived or is not recommended.
THEOREM PromptsAreBacked == Spec => []PromptIsBacked
<1>1. JourneysAreSound => PromptIsBacked
  BY DEF JourneysAreSound, Sound, PromptIsBacked
<1>2. QED
  BY <1>1, SoundJourneys, PTL

\* Boarding is timed, once, and after the arrival, whoever wins the race for it.
THEOREM BoardingsFollowArrival == Spec => []BoardedAfterArrival
<1>1. JourneysAreSound => BoardedAfterArrival
  BY DEF JourneysAreSound, Sound, BoardedAfterArrival
<1>2. QED
  BY <1>1, SoundJourneys, PTL

\* What NextProximityLevelForDistance proposes, UpdateProximity accepts.
THEOREM ProposalsAreAccepted == Spec => []ProposedLevelIsAccepted
<1>1. ASSUME TypeOK, row # Nil, NEW m \in Distances,
             NEW l \in NextProximityLevelForDistance(row, m), ~IsExpired(row, now)
      PROVE  UpdateProximity(row, row.active, l, now) # {}
  <2>1. row.level \in 0..3
    BY <1>1 DEF TypeOK, JourneyRecord, ProximityLevel
  <2>2. /\ row.status = "Tracking" /\ l = row.level + 1
        /\ isValidProximityProgression(row.level, l)
    BY <1>1 DEF NextProximityLevelForDistance
  <2>3. ~(l <= row.level)
    BY <2>1, <2>2
  <2>4. CanTransitionTo(row.status, "BoardingPrompt")
    BY <2>2 DEF CanTransitionTo
  <2>5. CASE l = Arrived
    <3>1. UpdateProximity(row, row.active, l, now) =
            Transition(row, "BoardingPrompt", [row EXCEPT !.level = l, !.window = now])
      BY <1>1, <2>2, <2>3, <2>5, Zenon DEF UpdateProximity
    <3>2. QED
      BY <2>4, <3>1, Zenon DEF Transition
  <2>6. CASE l # Arrived
    BY <1>1, <2>2, <2>3, <2>6, Zenon DEF UpdateProximity
  <2>7. QED
    BY <2>5, <2>6
<1>2. TypeOK => ProposedLevelIsAccepted
  BY <1>1 DEF ProposedLevelIsAccepted
<1>3. QED
  BY <1>2, TypeCorrect, PTL

=============================================================================
