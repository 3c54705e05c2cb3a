\* One job, every task shape of up to three steps, two failing statements, one crash.
CONSTANTS
  Jobs = {j1}
  MaxSteps = 3
  Tasks <- AllTasks
  MaxFaults = 2
  MaxCrashes = 1
SPECIFICATION FairSpec
INVARIANTS
  RowsTellEffects
  RollbackBackwards
  OutcomeFollowsPolicy
PROPERTIES
  IsSaga
  StartedJobsSettle
CHECK_DEADLOCK FALSE
