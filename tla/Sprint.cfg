\* Three requests that overlap freely, or four in turn: ids are used again.
CONSTANTS
  r1 = r1
  r2 = r2
  r3 = r3
  r4 = r4
  Requests <- FourRequests
  SprintIds = {1, 2}
  Phases = {1, 2}
  Gates = {g1}
  Absent = Absent
  Operations <- AllOperations
  CreateStatuses = {"planned", "active"}
SPECIFICATION BoundedSpec
SYMMETRY Symmetric
INVARIANTS OneActive ShippedIsProven DeletedStaysDeleted ChecklistBelongs LogTellsPhase
PROPERTIES BoardSpec
CHECK_DEADLOCK FALSE
