\* Seven days of posts or habits, or two days of a sprint.
CONSTANTS
  blog = blog
  x = x
  LastDay = 7
  Tiers = {blog, x}
  Credibility = {blog}
  Windows = {1, 3, 7}
  StreakLimit = 3
  DayLength = 2
  Zones <- AllZones
  LastInstant = 5
  MaxChanges = 3
  MaxItems = 4
  Lengths = {1, 2, 4}
  Never = Never
SPECIFICATION Spec
INVARIANTS StreaksAreRuns PanelsAgree RecentStreakIsARun ProgressIsTrue TraceFits BannerIsFair
PROPERTY PastStands
CHECK_DEADLOCK FALSE
