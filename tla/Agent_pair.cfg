SPECIFICATION AgentFairSpec
CONSTANTS
  r1 = r1
  r2 = r2
  Routers = {r1, r2}
  Looping = {r2}
  AddressOf <- OneAddress
  MaxTokens = 2
  MaxJoins = 2
  MaxFaults = 1
CHECK_DEADLOCK FALSE
INVARIANTS
  DevicesPerToken
  DoneIsWhole
PROPERTIES
  ManagedStays
  ScriptEnds
