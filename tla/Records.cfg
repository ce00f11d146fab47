\* Four requests on one of the tables, overlapping or one after the other.
CONSTANTS
  r1 = r1
  r2 = r2
  r3 = r3
  r4 = r4
  Requests <- FourRequests
  TodoIds = {1, 2}
  HabitIds = {1, 2}
  ItemIds = {1, 2, 3}
  SprintIds = {s1, s2}
  Dates = {d1, d2}
  Weeks = {1, 2}
  Absent = Absent
SPECIFICATION BoundedSpec
SYMMETRY Symmetric
INVARIANTS LinksAreLive AnsweredIsRecorded
PROPERTY PlannerSpec
CHECK_DEADLOCK FALSE
