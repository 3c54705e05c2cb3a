\* Two polls, one of which may be another caller's update instead,
\* and a lost request, a failing statement or a restart.
CONSTANTS
  Polls = {p1, p2}
  Others = {p2}
  Macs = {m1}
  MaxTroubles = 1
SPECIFICATION MonitoringFairSpec
INVARIANTS
  LogFollowsStatus
PROPERTIES
  StatusSettles
  ClientsSettle
