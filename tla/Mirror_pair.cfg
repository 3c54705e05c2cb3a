\* Two collections of two entries that may say two things, one failing statement.
CONSTANTS
  Collections = {c1, c2}
  Ids = {i1, i2}
  Contents = {a, b}
  Absent = absent
  MaxFaults = 1
SPECIFICATION FairSpec
INVARIANTS
  MirrorsLastCollection
PROPERTIES
  OnlyMissingRowsGo
  MirrorSettles
