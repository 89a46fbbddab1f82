------------------------------- MODULE Journey --------------------------------
(***************************************************************************)
(* One journey: the methods of domain/aggregates/journey*.go, the command  *)
(* handlers of application/journey/mgmt that load, change and save it, and *)
(* the optimistic locking of infrastructure/repositories.  A method maps a *)
(* journey to the set of journeys it can leave behind, empty when it       *)
(* returns an error.  A handler that saves successfully saw the row as it  *)
(* still is, so loading and applying the method are one step and the save  *)
(* is another; between them anything may happen.                           *)
(***************************************************************************)
EXTENDS Integers, Sequences

CONSTANTS
  Buses, NoBus,     \* bus identifiers, and the empty one
  Handlers,         \* concurrent command handlers
  MaxDeclines,      \* 5 in the code
  DefaultExpiry,    \* 30 minutes, in ticks
  Durations,        \* twice the durations InitializeTracking accepts, in ticks
  BoardingTimeout,  \* boardingTimeoutDuration, in ticks
  MaxTime,          \* bound: the last tick
  MaxVersion,       \* bound: how many versions are stored
  Nil

ASSUME JourneyAssumption ==
  /\ NoBus \notin Buses
  /\ MaxDeclines \in Nat /\ DefaultExpiry \in Nat /\ BoardingTimeout \in Nat
  /\ MaxTime \in Nat /\ MaxVersion \in Nat
  /\ Durations \subseteq Nat

VARIABLES
  row,   \* the row of the journeys table, Nil while there is none
  held,  \* handler -> the changed copy it is about to save, Nil when it is idle
  now

vars == <<row, held, now>>

-----------------------------------------------------------------------------
JourneyStatus ==
  {"Searching", "Tracking", "BoardingPrompt", "Boarded", "Completed", "Cancelled", "Expired"}

\* ProximityLevel: None, Approaching, Nearby, Arrived.
ProximityLevel == 0..3
Arrived == 3

\* A command carries any number.
LevelInputs == 0..(Arrived + 1)

\* The recommended buses in rank order; what else a recommendation carries only
\* decides whether equal lists are replaced by each other.
Recommendations == {s \in {<<>>} \cup [1..1 -> Buses] \cup [1..2 -> Buses] :
                      \A i, k \in DOMAIN s : s[i] = s[k] => i = k}

NoTime == -1
Time == 0..MaxTime

JourneyRecord ==
  [status : JourneyStatus, active : Buses \cup {NoBus}, recs : Recommendations,
   level : ProximityLevel, declines : 0..MaxDeclines, createdAt : Time,
   expiration : Nat, window : Time \cup {NoTime}, boardedAt : Time \cup {NoTime},
   version : Nat]

ASSUME NilAssumption == Nil \notin JourneyRecord

Recommended(j) == {j.recs[i] : i \in DOMAIN j.recs}

CanTransitionTo(s, t) ==
  \/ s = "Searching" /\ t \in {"Tracking", "Cancelled", "Expired"}
  \/ s = "Tracking" /\ t \in {"BoardingPrompt", "Cancelled", "Expired"}
  \/ s = "BoardingPrompt" /\ t \in {"Boarded", "Tracking", "Cancelled", "Expired"}
  \/ s = "Boarded" /\ t \in {"Completed", "Cancelled", "Expired"}

IsExpired(j, t) == t > j.expiration

IsBoardingWindowExpired(j, t) == j.window # NoTime /\ t - j.window > BoardingTimeout

isValidProximityProgression(from, to) == to \in ProximityLevel /\ to = from + 1

\* The journey moved to status s, or an error.
Transition(j, s, changed) == IF CanTransitionTo(j.status, s) THEN {[changed EXCEPT !.status = s]} ELSE {}

-----------------------------------------------------------------------------
NewJourney(createdAt) ==
  [status |-> "Searching", active |-> NoBus, recs |-> <<>>, level |-> 0, declines |-> 0,
   createdAt |-> createdAt, expiration |-> createdAt + DefaultExpiry,
   window |-> NoTime, boardedAt |-> NoTime, version |-> 1]

InitializeTracking(j, recs, d) ==
  IF recs = <<>> THEN {}
  ELSE Transition(j, "Tracking",
         [j EXCEPT !.recs = recs, !.active = recs[1], !.expiration = j.createdAt + d])

\* An arrival time that moved makes no other difference to the list kept here.
hasSignificantChange(j, recs) == recs # j.recs

\* After SwitchBus even the same list names another bus first.
ShouldUpdateRecommendations(j, recs) ==
  /\ j.status # "BoardingPrompt" /\ recs # <<>>
  /\ recs[1] # j.active \/ hasSignificantChange(j, recs)

UpdateRecommendations(j, recs, t) ==
  IF IsExpired(j, t) \/ j.status = "BoardingPrompt" THEN {}
  ELSE IF ~ShouldUpdateRecommendations(j, recs) THEN {j}
  ELSE IF recs[1] = j.active THEN {[j EXCEPT !.recs = recs]}
  ELSE {[j EXCEPT !.recs = recs, !.active = recs[1], !.level = 0, !.window = NoTime]}

SwitchBus(j, bus, t) ==
  IF IsExpired(j, t) \/ j.status = "BoardingPrompt" \/ bus \notin Recommended(j) THEN {}
  ELSE IF bus = j.active THEN {j}
  ELSE {[j EXCEPT !.active = bus, !.declines = 0]}

\* Mutant: the boarding window is not opened on arrival.
Bug_NoWindow(j, bus, level, t) ==
  IF \/ IsExpired(j, t) \/ bus # j.active \/ level <= j.level
     \/ ~isValidProximityProgression(j.level, level)
  THEN {}
  ELSE IF level = Arrived THEN Transition(j, "BoardingPrompt", [j EXCEPT !.level = level])
  ELSE {[j EXCEPT !.level = level]}

UpdateProximity(j, bus, level, t) ==
  IF \/ IsExpired(j, t) \/ bus # j.active \/ level <= j.level
     \/ ~isValidProximityProgression(j.level, level)
  THEN {}
  ELSE IF level = Arrived
       THEN Transition(j, "BoardingPrompt", [j EXCEPT !.level = level, !.window = t])
  ELSE {[j EXCEPT !.level = level]}

\* Meters at which the classes of NextProximityLevelForDistance change.
Distances == {0, 50, 51, 100, 101, 500, 501}

\* Mutant: the level the distance warrants, however many steps away.
Bug_SkipsLevels(j, meters) ==
  IF j.status # "Tracking" \/ j.level >= Arrived THEN {}
  ELSE LET target == IF meters <= 50 THEN 3 ELSE IF meters <= 100 THEN 2
                     ELSE IF meters <= 500 THEN 1 ELSE 0
       IN IF target <= j.level THEN {} ELSE {target}

\* The next level, or none.
NextProximityLevelForDistance(j, meters) ==
  IF j.status # "Tracking" \/ j.level >= Arrived THEN {}
  ELSE LET target == IF meters <= 50 THEN 3 ELSE IF meters <= 100 THEN 2
                     ELSE IF meters <= 500 THEN 1 ELSE 0
           next == j.level + 1
       IN IF target <= j.level \/ next > target \/ ~isValidProximityProgression(j.level, next)
          THEN {} ELSE {next}

\* Mutant: the time of boarding is not recorded.
Bug_ConfirmUntimed(j, t) ==
  IF j.status # "BoardingPrompt" \/ IsBoardingWindowExpired(j, t) THEN {}
  ELSE Transition(j, "Boarded", j)

ConfirmBoarded(j, t) ==
  IF j.status # "BoardingPrompt" \/ IsBoardingWindowExpired(j, t) THEN {}
  ELSE Transition(j, "Boarded", [j EXCEPT !.boardedAt = t])

DeclineBoarding(j, t) ==
  IF IsExpired(j, t) \/ j.status # "BoardingPrompt" \/ j.declines >= MaxDeclines THEN {}
  ELSE Transition(j, "Tracking", [j EXCEPT !.declines = @ + 1, !.level = 0])

CompleteJourney(j) == IF j.status # "Boarded" THEN {} ELSE Transition(j, "Completed", j)

CancelJourney(j) == IF j.status = "Completed" THEN {} ELSE Transition(j, "Cancelled", j)

ExpireJourney(j) == Transition(j, "Expired", j)

AutoCompleteIfBoardingWindowExpired(j, t) ==
  IF j.status # "BoardingPrompt" \/ ~IsBoardingWindowExpired(j, t) THEN {j}
  ELSE Transition(j, "Boarded", [j EXCEPT !.boardedAt = t])

-----------------------------------------------------------------------------
Ops == {"InitializeTracking", "UpdateRecommendations", "SwitchBus", "SwitchBusByLocation",
        "UpdateProximity", "ConfirmBoarding", "DeclineBoarding", "CompleteJourney",
        "CancelJourney", "ExpireJourney", "AutoComplete"}

\* What the handler of op can make of the journey j at time t, over its inputs.
\* SwitchBusByLocation returns without saving when the nearest recommended bus is
\* the active one.
Outcome(op, j, t) ==
  CASE op = "InitializeTracking"    -> UNION {InitializeTracking(j, r, d) : r \in Recommendations, d \in Durations}
    [] op = "UpdateRecommendations" -> UNION {UpdateRecommendations(j, r, t) : r \in Recommendations}
    [] op = "SwitchBus"             -> UNION {SwitchBus(j, b, t) : b \in Buses}
    [] op = "SwitchBusByLocation"   -> UNION {SwitchBus(j, b, t) : b \in Recommended(j) \ {j.active}}
    [] op = "UpdateProximity"       -> UNION {UpdateProximity(j, b, l, t) : b \in Buses, l \in LevelInputs}
    [] op = "ConfirmBoarding"       -> ConfirmBoarded(j, t)
    [] op = "DeclineBoarding"       -> DeclineBoarding(j, t)
    [] op = "CompleteJourney"       -> CompleteJourney(j)
    [] op = "CancelJourney"         -> CancelJourney(j)
    [] op = "ExpireJourney"         -> ExpireJourney(j)
    [] op = "AutoComplete"          -> AutoCompleteIfBoardingWindowExpired(j, t)

Init ==
  /\ row = Nil
  /\ held = [h \in Handlers |-> Nil]
  /\ now = 0

\* NewJourney accepts a creation time that is not in the future.
CreateJourney(h) ==
  /\ held[h] = Nil
  /\ \E t \in 0..now : held' = [held EXCEPT ![h] = [op |-> "CreateJourney", next |-> NewJourney(t)]]
  /\ UNCHANGED <<row, now>>

\* FindByID and the method; an error ends the handler with nothing to save.
Handle(h, op) ==
  /\ held[h] = Nil
  /\ row # Nil
  /\ \E k \in Outcome(op, row, now) : held' = [held EXCEPT ![h] = [op |-> op, next |-> k]]
  /\ UNCHANGED <<row, now>>

\* The row as the UPSERT writes it.
Stored(j) == [j EXCEPT !.version = @ + 1]

\* Mutant: the WHERE clause is missing.
Bug_SaveUnchecked(h) ==
  /\ held[h] # Nil
  /\ row # Nil => row.version < MaxVersion
  /\ row' = Stored(held[h].next)
  /\ held' = [held EXCEPT ![h] = Nil]
  /\ UNCHANGED now

\* The UPSERT inserts, or updates the version the handler loaded.
Save(h) ==
  /\ held[h] # Nil
  /\ row # Nil => row.version = held[h].next.version /\ row.version < MaxVersion
  /\ row' = Stored(held[h].next)
  /\ held' = [held EXCEPT ![h] = Nil]
  /\ UNCHANGED now

\* ErrJourneyVersionStale, a failed statement or a cancelled request.
SaveFails(h) ==
  /\ held[h] # Nil
  /\ held' = [held EXCEPT ![h] = Nil]
  /\ UNCHANGED <<row, now>>

Tick ==
  /\ now < MaxTime
  /\ now' = now + 1
  /\ UNCHANGED <<row, held>>

Next ==
  \/ \E h \in Handlers : CreateJourney(h)
  \/ \E h \in Handlers, op \in Ops : Handle(h, op)
  \/ \E h \in Handlers : Save(h)
  \/ \E h \in Handlers : SaveFails(h)
  \/ Tick

Spec == Init /\ [][Next]_vars

-----------------------------------------------------------------------------
\* Type correctness of the row, of the handlers' copies and of the clock.
TypeOK ==
  /\ row \in JourneyRecord \cup {Nil}
  /\ held \in [Handlers -> [op : Ops \cup {"CreateJourney"}, next : JourneyRecord] \cup {Nil}]
  /\ now \in Time

\* Every row that is stored is what the saving handler's command makes of the row it
\* overwrites, at some moment up to now: concurrent commands are never lost and
\* never applied to a journey that is no longer there (journey_repository.go:64).
SavesAreSerial ==
  [][\A h \in Handlers :
       Save(h) /\ row # Nil =>
         \E t \in 0..now : held[h].op \in Ops /\ held[h].next \in Outcome(held[h].op, row, t)]_vars

PromptBacked(j) ==
  /\ j.active # NoBus => j.active \in Recommended(j)
  /\ j.status = "BoardingPrompt" => j.active # NoBus /\ j.level = Arrived /\ j.window # NoTime

BoardingTimed(j) ==
  /\ j.status \in {"Boarded", "Completed"} => j.boardedAt # NoTime
  /\ j.boardedAt # NoTime =>
       j.boardedAt >= j.window /\ j.status \in {"Boarded", "Completed", "Cancelled", "Expired"}

\* The passenger is asked to board only when the active bus is a recommended one
\* that has arrived and its boarding window has been opened.
PromptIsBacked == row # Nil => PromptBacked(row)

\* Whoever boarded did so after the bus arrived, once, and nobody who did not board
\* has a boarding time, whichever of the passenger and the timeout came first.
BoardedAfterArrival == row # Nil => BoardingTimed(row)

\* The level the distance function proposes for a stored journey is one that the
\* proximity command accepts from it, unless the journey has expired.
ProposedLevelIsAccepted ==
  row # Nil =>
    \A m \in Distances : \A l \in NextProximityLevelForDistance(row, m) :
      IsExpired(row, now) \/ UpdateProximity(row, row.active, l, now) # {}

\* The stored journey, seen as its status and version.
Lifecycle == INSTANCE JourneyLifecycle WITH
  status  <- IF row = Nil THEN "None" ELSE row.status,
  version <- IF row = Nil THEN 0 ELSE row.version

\* Handlers racing on copies implement the lifecycle of one journey.
ImplementsLifecycle == Lifecycle!Spec

\* A copy is a new journey, or comes from a version that was stored; as long as that
\* version is still the row, the copy is what the command makes of the row.
CopyIsCurrent(c) ==
  \/ /\ c.op = "CreateJourney"
     /\ c.next.status = "Searching"
     /\ c.next.version = 1
  \/ /\ c.op \in Ops
     /\ row # Nil
     /\ c.next.version \in 2..row.version
     /\ c.next.version = row.version =>
          \E t \in 0..now : c.next \in Outcome(c.op, row, t)

CopiesAreCurrent == \A h \in Handlers : held[h] # Nil => CopyIsCurrent(held[h])

\* The inductive invariant behind serial saves and the lifecycle: a stored version is
\* above the one a new journey starts with, and copies are current or outdated.
IInv ==
  /\ TypeOK
  /\ row # Nil => row.version >= 2
  /\ CopiesAreCurrent

\* What every journey, stored or about to be, satisfies at time t: prompt and boarding
\* are backed, and no window was opened in the future.
Sound(j, t) == PromptBacked(j) /\ BoardingTimed(j) /\ j.window <= t

\* The inductive invariant behind PromptIsBacked and BoardedAfterArrival.
JourneysAreSound ==
  /\ TypeOK
  /\ row # Nil => Sound(row, now)
  /\ \A h \in Handlers : held[h] # Nil => Sound(held[h].next, now)

=============================================================================
