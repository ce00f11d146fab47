\* A post is created and deleted.
CONSTANTS
  r1 = r1
  r2 = r2
  r3 = r3
  r4 = r4
  r5 = r5
  Requests <- TwoRequests
  PostIds = {1, 2}
  SprintIds = {s1}
  Dates = {d1, d2}
  Tiers = {blog}
  AdrIds = {a1}
  Absent = Absent
  Operations = {"create", "delete"}
  Modes = {FALSE}
SPECIFICATION Spec
SYMMETRY Symmetric
INVARIANT DeletionIsRecorded
CHECK_DEADLOCK FALSE
