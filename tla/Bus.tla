--------------------------------- MODULE Bus ----------------------------------
(***************************************************************************)
(* The bus aggregate (domain/aggregates/bus*.go), its command handlers     *)
(* (application/bus/mgmt) and the statements of its repositories.  A       *)
(* method maps a bus to the set of buses it can leave behind, empty when   *)
(* it returns an error; AggregateStore runs the handlers against a row.    *)
(* Speeds, identifiers and the updated_at column decide nothing.           *)
(***************************************************************************)
EXTENDS Integers

CONSTANTS
  Operators,  \* operator identifiers
  BusMoments  \* the timestamps reports, arrivals and departures carry

ASSUME BusAssumption == BusMoments \subseteq Nat

NoArrival == -1   \* terminalArrivalTime = nil

BusStatus == {"Active", "Offline", "Maintenance"}
Direction == {"Outbound", "Inbound"}

\* What a caller may send: a position that GeoLocation.IsValid accepts or not, an
\* index that may be negative, and a direction that may be unknown.
Positions == [at : BusMoments, valid : BOOLEAN]
StopIndexInputs == {-1, 0}
DirectionInputs == Direction \cup {"Unknown"}

BusRecord ==
  [operator : Operators, position : Positions, stopIndex : Int, direction : Direction,
   status : BusStatus, isAtTerminal : BOOLEAN, terminalArrivalTime : BusMoments \cup {NoArrival},
   version : Nat]

-----------------------------------------------------------------------------
NewBus(operator, position, stopIndex, direction) ==
  IF ~position.valid \/ stopIndex < 0 \/ direction \notin Direction THEN {}
  ELSE {[operator |-> operator, position |-> position, stopIndex |-> stopIndex,
         direction |-> direction, status |-> "Active", isAtTerminal |-> FALSE,
         terminalArrivalTime |-> NoArrival, version |-> 1]}

RehydrateBus(b) ==
  {[n EXCEPT !.status = b.status, !.isAtTerminal = b.isAtTerminal,
             !.terminalArrivalTime = b.terminalArrivalTime,
             !.version = IF b.version > 0 THEN b.version ELSE n.version] :
     n \in NewBus(b.operator, b.position, b.stopIndex, b.direction)}

\* Mutant: the location of a report is stored unchecked.
Bug_AnyLocation(b, position, stopIndex) ==
  IF position.at < b.position.at THEN {}
  ELSE {[b EXCEPT !.position = position, !.stopIndex = stopIndex]}

\* The stop index of a report is taken as it is.
UpdatePosition(b, position, stopIndex) ==
  IF position.at < b.position.at \/ ~position.valid THEN {}
  ELSE {[b EXCEPT !.position = position, !.stopIndex = stopIndex]}

\* A direction the bus already has is no error and no change; it is saved all the same.
ChangeDirection(b, direction) ==
  IF direction \notin Direction THEN {} ELSE {[b EXCEPT !.direction = direction]}

ArriveAtTerminal(b, at) ==
  IF b.isAtTerminal THEN {}
  ELSE {[b EXCEPT !.isAtTerminal = TRUE, !.terminalArrivalTime = at]}

\* Mutant: the arrival time outlives the departure.
Bug_KeepsArrival(b) == IF ~b.isAtTerminal THEN {} ELSE {[b EXCEPT !.isAtTerminal = FALSE]}

DepartFromTerminal(b) ==
  IF ~b.isAtTerminal THEN {}
  ELSE {[b EXCEPT !.isAtTerminal = FALSE, !.terminalArrivalTime = NoArrival]}

ChangeBusStatus(b, status) ==
  IF status = "Offline" /\ b.status = "Offline" THEN {} ELSE {[b EXCEPT !.status = status]}

CalculateTerminalDwellTime(b, departure) ==
  IF b.terminalArrivalTime = NoArrival \/ departure < b.terminalArrivalTime THEN 0
  ELSE departure - b.terminalArrivalTime

-----------------------------------------------------------------------------
\* Mutant: the WHERE clause is missing.
Bug_SaveBusUnchecked(rows, b) == {[b EXCEPT !.version = @ + 1]}

\* The rows the UPSERT can leave; none on ErrBusVersionStale.
SaveBus(rows, b) ==
  IF \A r \in rows : r.version = b.version THEN {[b EXCEPT !.version = @ + 1]} ELSE {}

\* FindByID: the row, rebuilt by the constructor that may refuse it.
FindBus(rows) == UNION {RehydrateBus(r) : r \in rows}

BusOps == {"UpdateBusPosition", "ChangeBusDirection", "ArriveAtTerminal",
           "DepartFromTerminal", "ChangeBusStatus"}

CreateBus ==
  UNION {NewBus(o, p, i, d) : o \in Operators, p \in Positions,
                              i \in StopIndexInputs, d \in DirectionInputs}

\* What the handler of op can make of the bus b, over its inputs.
BusOutcome(op, b) ==
  CASE op = "UpdateBusPosition"  -> UNION {UpdatePosition(b, p, i) : p \in Positions, i \in StopIndexInputs}
    [] op = "ChangeBusDirection" -> UNION {ChangeDirection(b, d) : d \in DirectionInputs}
    [] op = "ArriveAtTerminal"   -> UNION {ArriveAtTerminal(b, t) : t \in BusMoments}
    [] op = "DepartFromTerminal" -> DepartFromTerminal(b)
    [] op = "ChangeBusStatus"    -> UNION {ChangeBusStatus(b, s) : s \in BusStatus}

\* The roster reads the table, not the aggregate: it lists what cannot be loaded.
ListBusIDsByRoute(rows, operator, statuses) ==
  {r \in rows : r.operator = operator /\ r.status \in statuses}

Exists(rows) == rows # {}

\* The policy loads the aggregate; a bus that cannot be loaded is nobody's.
CanSubscribeToBus(rows, operator) == \E b \in FindBus(rows) : b.operator = operator

=============================================================================
