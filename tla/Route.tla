-------------------------------- MODULE Route ---------------------------------
(***************************************************************************)
(* The route aggregate (domain/aggregates/route*.go) and its command       *)
(* handlers (application/route/mgmt), written like Bus: a method maps a    *)
(* route to the set of routes it can leave behind.  A stop is its          *)
(* identifier, its location and its cumulative distance, all three from    *)
(* the command; locations lie on a line, so that the distance on the       *)
(* sphere is a difference.  Names and reasons decide nothing, and a loaded *)
(* route has no event recorder.                                            *)
(***************************************************************************)
EXTENDS Integers, Sequences, FiniteSetsExt, SequencesExt

CONSTANTS
  StopIDs,     \* stop identifiers
  StopLists,   \* the lists of stops that commands carry
  NewStops,    \* the stops that AddStop carries
  Periods,     \* the active periods that commands carry
  Types,       \* the route types that commands carry
  Directions,  \* the directions that CreateRoute carries
  Statuses     \* the statuses that commands carry, which are not checked

\* at is in meters along the line.
Stop == [id : StopIDs, at : Nat, cum : Int]
Period == [from : Int, until : Int]

ASSUME RouteAssumption ==
  /\ StopLists \subseteq Seq(Stop) /\ NewStops \subseteq Stop
  /\ Periods \subseteq Period

RouteType == {"Urban", "Highway", "Mixed"}
RouteDirection == {"Bidirectional", "Unidirectional"}
Travel == {"Outbound", "Inbound"}

DistanceTo(a, b) == IF a >= b THEN a - b ELSE b - a

-----------------------------------------------------------------------------
\* avgDetourRate in tenths, as the domain derives it from the type.
setRouteCharacteristics(type) == CASE type = "Urban" -> 14 [] type = "Highway" -> 12 [] OTHER -> 13

\* Distance along the stops up to the i-th.
LineDistance(stops, i) ==
  LET d[k \in 1..i] == IF k = 1 THEN 0 ELSE d[k - 1] + DistanceTo(stops[k - 1].at, stops[k].at)
  IN d[i]

\* Mutant: the first stop keeps the distance it had.
Bug_KeepsFirst(stops) ==
  IF stops[Len(stops)].cum > 0 THEN stops
  ELSE [i \in DOMAIN stops |-> [stops[i] EXCEPT !.cum = LineDistance(stops, i)]]

\* The first stop is at 0; the others are kept when the last one has a distance and
\* all computed when it has none.
CalculateCumulativeDistances(stops) ==
  LET first == [stops EXCEPT ![1].cum = 0]
  IN IF first[Len(first)].cum > 0 THEN first
     ELSE [i \in DOMAIN first |-> [first[i] EXCEPT !.cum = LineDistance(first, i)]]

NewRoute(stops, direction, type, period) ==
  IF \/ Len(stops) < 2 \/ direction \notin RouteDirection \/ type \notin RouteType
     \/ period.until <= period.from
  THEN {}
  ELSE {[stops |-> CalculateCumulativeDistances(stops), direction |-> direction, type |-> type,
         rate |-> setRouteCharacteristics(type), status |-> "Active", period |-> period,
         version |-> 1]}

RehydrateRoute(r) ==
  {[n EXCEPT !.status = r.status, !.version = IF r.version > 0 THEN r.version ELSE n.version] :
     n \in NewRoute(r.stops, r.direction, r.type, r.period)}

\* A value the route already has is no error; it is saved all the same.
ChangeStatus(r, status) == {[r EXCEPT !.status = status]}

UpdateStops(r, stops) == IF Len(stops) < 2 THEN {} ELSE {[r EXCEPT !.stops = stops]}

ChangeRouteType(r, type) ==
  IF r.type # type /\ type \notin RouteType THEN {}
  ELSE {[r EXCEPT !.type = type, !.rate = setRouteCharacteristics(type)]}

ChangeActivePeriod(r, period) ==
  IF r.period # period /\ period.until <= period.from THEN {} ELSE {[r EXCEPT !.period = period]}

\* An empty name is refused; the name itself is not kept here.
ChangeName(r) == {r}

\* position counts from 0.
AddStop(r, stop, position) ==
  IF position < 0 \/ position > Len(r.stops) THEN {}
  ELSE {[r EXCEPT !.stops = SubSeq(@, 1, position) \o <<stop>> \o SubSeq(@, position + 1, Len(@))]}

\* The first place of a stop on the route, counted from 0, and -1 when it has none.
findStopIndex(r, id) ==
  LET at == {i \in DOMAIN r.stops : r.stops[i].id = id}
  IN IF at = {} THEN -1 ELSE Min(at) - 1

RemoveStop(r, id) ==
  IF findStopIndex(r, id) = -1 \/ Len(r.stops) <= 2 THEN {}
  ELSE {[r EXCEPT !.stops = RemoveAt(@, findStopIndex(r, id) + 1)]}

-----------------------------------------------------------------------------
IsActive(r, t) == r.status = "Active" /\ t > r.period.from /\ t < r.period.until

isValidDirection(r, origin, dest, travel) ==
  \/ travel = "Outbound" /\ origin < dest
  \/ travel = "Inbound" /\ r.direction = "Bidirectional" /\ origin > dest

\* The indices of the two stops, or an error.
ValidateJourney(r, origin, dest, travel) ==
  LET o == findStopIndex(r, origin)
      d == findStopIndex(r, dest)
  IN IF o = -1 \/ d = -1 \/ ~isValidDirection(r, o, d, travel) THEN {} ELSE {<<o, d>>}

DistanceBetweenStopIndices(r, from, to) ==
  LET diff == r.stops[to + 1].cum - r.stops[from + 1].cum IN IF diff < 0 THEN -diff ELSE diff

TotalRouteDistance(r) == r.stops[Len(r.stops)].cum

-----------------------------------------------------------------------------
RouteOps == {"UpdateRouteStops", "ChangeRouteStatus", "ChangeRouteName", "ChangeRouteType",
             "ChangeActivePeriod", "AddStop", "RemoveStop"}

CreateRoute ==
  UNION {NewRoute(s, d, t, p) : s \in StopLists, d \in Directions, t \in Types, p \in Periods}

\* What the handler of op can make of the route r, over its inputs.
RouteOutcome(op, r) ==
  CASE op = "UpdateRouteStops"   -> UNION {UpdateStops(r, s) : s \in StopLists}
    [] op = "ChangeRouteStatus"  -> UNION {ChangeStatus(r, s) : s \in Statuses}
    [] op = "ChangeRouteName"    -> ChangeName(r)
    [] op = "ChangeRouteType"    -> UNION {ChangeRouteType(r, t) : t \in Types}
    [] op = "ChangeActivePeriod" -> UNION {ChangeActivePeriod(r, p) : p \in Periods}
    [] op = "AddStop"            -> UNION {AddStop(r, s, p) : s \in NewStops, p \in -1..(Len(r.stops) + 1)}
    [] op = "RemoveStop"         -> UNION {RemoveStop(r, s) : s \in StopIDs}

=============================================================================
