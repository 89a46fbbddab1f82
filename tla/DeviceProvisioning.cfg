SPECIFICATION Spec
CONSTANTS
  Calls = {c1, c2, c3}
  MaxFaults = 2
  Nil = Nil
INVARIANTS
  OneActivePerBus
  ReportedDeviceLives
  FailedDeviceIsUnusable
CHECK_DEADLOCK FALSE
