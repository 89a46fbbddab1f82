SPECIFICATION RoutesSpec
CONSTANTS
  s1 = s1
  s2 = s2
  s3 = s3
  StopIDs = {s1, s2, s3}
  StopLists <- MCStopLists
  NewStops <- MCNewStops
  OtherStops <- MCOtherStops
  Periods <- MCPeriods
  Types = {"Urban", "Tram"}
  Directions = {"Bidirectional", "Inbound"}
  Statuses = {"Active", "Suspended"}
  Handlers = {h1, h2}
  MaxVersion = 4
  MaxStops = 3
  Absent = Absent
SYMMETRY Symmetry
INVARIANTS
  GeoFollowsRoute
  LoadsAreStable
PROPERTY
  SavesAreSerial
CHECK_DEADLOCK FALSE
