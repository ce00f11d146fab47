\* Two requests, overlapping or in turn, all operations.
CONSTANTS
  r1 = r1
  r2 = r2
  Requests <- TwoRequests
  Earlier = Earlier
  UserIds = {1, 2}
  Admin = admin
  Names = {admin, paul}
  Passwords = {p1, p2}
  Age = 1
  MaxClock = 2
  Keys = {1, 2}
  Platforms = {x, blog}
  Operations <- AllOperations
  Modes <- BothModes
  Absent = Absent
SPECIFICATION Spec
SYMMETRY Symmetric
INVARIANTS OneOperator OldSessionsEnd ChoiceIsWhole
PROPERTIES EndedStaysEnded ProgressIsKept
CHECK_DEADLOCK FALSE
