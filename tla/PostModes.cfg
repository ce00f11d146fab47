\* Three requests, overlapping or one after the other, all operations.
CONSTANTS
  r1 = r1
  r2 = r2
  r3 = r3
  r4 = r4
  r5 = r5
  Requests <- ThreeRequests
  PostIds = {1, 2}
  SprintIds = {s1, s2}
  Dates = {d1, d2}
  Tiers = {blog}
  AdrIds = {a1}
  Absent = Absent
  Operations <- AllOperations
  Modes = {TRUE, FALSE}
SPECIFICATION ModesSpec
SYMMETRY Symmetric
INVARIANTS OnePostPerDay TiersOfPosts PublishedHasURL DeclarationIsOwn LogNamesItsPost
PROPERTY PublishedStays
CHECK_DEADLOCK FALSE
