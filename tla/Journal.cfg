\* Three requests, overlapping or one after the other, all operations.
CONSTANTS
  r1 = r1
  r2 = r2
  r3 = r3
  Requests <- ThreeRequests
  LogIds = {1, 2}
  AdrIds = {1, 2, 3}
  SprintIds = {s1, s2}
  Dates = {d1, d2}
  Numbers = {1}
  Absent = Absent
  Operations <- AllOperations
SPECIFICATION BoundedSpec
SYMMETRY Symmetric
INVARIANTS OneLogPerSprintDay NumbersDiffer AnsweredIsRecorded
PROPERTY DiarySpec
CHECK_DEADLOCK FALSE
