CONSTANTS
  Files <- MCFiles
  Modules = 2
  LinesEach = 1
  g1 = g1
  Listings = {g1}
SPECIFICATION FairSpec
INVARIANT EmptyMeansNone
CHECK_DEADLOCK FALSE
