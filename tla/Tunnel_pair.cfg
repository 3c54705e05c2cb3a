\* One tunnel; a failing command, a failing statement and a crash.
CONSTANTS
  create = create
  remove = remove
  Jobs <- BothJobs
  MaxSteps = 9
  Tasks <- TunnelTasks
  MaxFaults = 1
  MaxCrashes = 1
  MaxFailures = 2
SPECIFICATION TunnelSpec
CONSTRAINT TwoTroubles
INVARIANTS
  ActiveIsWhole
  RestIsAccountedFor
CHECK_DEADLOCK FALSE
