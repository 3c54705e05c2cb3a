\* Two evaluations that may overlap, for ever, and one channel: each is told by itself.
CONSTANTS
  Evals = {e1, e2}
  Events = {a1, a2}
  Channels = {c1}
  Cooldown = 1
  MaxFaults = 1
SPECIFICATION FairSpec
INVARIANTS
  OneOpenAlert
PROPERTIES
  CooldownKept
  EventsFollowCondition
  AlertsAreTold
