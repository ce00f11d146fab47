\* A new sprint may be asked for in any status.
CONSTANTS
  r1 = r1
  r2 = r2
  r3 = r3
  r4 = r4
  Requests <- TwoRequests
  SprintIds = {1, 2}
  Phases = {1, 2}
  Gates = {g1, g2}
  Absent = Absent
  Operations = {"create", "retro"}
  CreateStatuses = {"planned", "active", "shipped", "abandoned"}
SPECIFICATION Spec
SYMMETRY Symmetric
INVARIANT ShippedIsProven
CHECK_DEADLOCK FALSE
