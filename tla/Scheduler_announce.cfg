\* Nothing fails; a job that succeeds is not announced.
CONSTANTS
  Jobs = {j1}
  MaxSteps = 2
  Tasks <- AllTasks
  MaxFaults = 0
  MaxCrashes = 0
SPECIFICATION Spec
INVARIANTS
  SuccessAnnounced
CHECK_DEADLOCK FALSE
