\* Two jobs for one router, each an adoption, managed or read-only, or a removal; one failing statement, one crash.
CONSTANTS
  Jobs = {j1, j2}
  MaxSteps = 5
  Tasks <- AdoptionTasks
  MaxFaults = 1
  MaxCrashes = 1
  None = none
  Earlier = earlier
SPECIFICATION AdoptionSpec
INVARIANTS
  ManagedIsReachable
  AdoptionTakesHold
  AttemptTellsOutcome
CHECK_DEADLOCK FALSE
