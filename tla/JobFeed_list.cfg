\* One job of at most two steps, two readers at a time, one page, one lost socket, one failing statement, one crash.
CONSTANTS
  Jobs = {j1}
  MaxSteps = 2
  Tasks <- SmallTasks
  MaxFaults = 1
  MaxCrashes = 1
  MaxReaders = 2
  MaxPages = 1
  MaxCuts = 1
SPECIFICATION FeedFairSpec
INVARIANTS
  ShownIsCoherent
PROPERTIES
  IsView
  ListSettles
CHECK_DEADLOCK FALSE
