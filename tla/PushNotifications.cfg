SPECIFICATION PushSpec
CONSTANTS
  Devices = {d1, d2}
  Apps = {a1, a2}
  Padding = {a1}
  NoToken = NoToken
  Senders = {s1}
  BatchSize = 1
  MaxRetries = 1
INVARIANTS
  RevokesFollowReport
  CopiesBounded
PROPERTIES
  SendsEnd
