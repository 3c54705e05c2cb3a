\* Four requests, the past ones of a controller in use included; two emails; a failing statement.
CONSTANTS
  Requests = {r1, r2, r3, r4}
  Emails = {e1, e2}
  MaxFaults = 1
  Null = Null
SPECIFICATION Spec
INVARIANTS
  SomeoneIsLeft
  SetupLeavesAnAdmin
  RolesAsGiven
SYMMETRY AnyRequest
CHECK_DEADLOCK FALSE
