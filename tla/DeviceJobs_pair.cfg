\* Two jobs about one matter of a device, two failing statements, one crash.
CONSTANTS
  Jobs = {j1, j2}
  MaxSteps = 3
  Tasks <- DeviceTasks
  MaxFaults = 2
  MaxCrashes = 1
  Keep = 2
  Initial = initial
  Null = null
SYMMETRY AnyJob
SPECIFICATION DeviceJobsSpec
INVARIANTS
  BackupsAreKept
  FirmwareNeverAhead
  DeploymentTold
  SuccessHeals
  CleanRollbackRestores
  OneSecretAtATime
  IdentityFollowsJob
CHECK_DEADLOCK FALSE
