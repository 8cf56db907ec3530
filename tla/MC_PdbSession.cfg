CONSTANTS
  Files <- MCFiles
  Modules = 2
  LinesEach = 2
  g1 = g1
  g2 = g2
  Listings = {g1, g2}
SPECIFICATION FairSpec
INVARIANT NothingLeaks
INVARIANT CacheIsItsStream
INVARIANT AnswersAgree
INVARIANT ListingsAreWhole
PROPERTY Released
CHECK_DEADLOCK FALSE
