\* What a pass loads: three items on two pages, three passes.
SPECIFICATION FairSpec
CONSTANTS
  IndexToRetain = 2
  PageSize = 2
  MaxItems = 3
  MaxTime = 2
  MaxLost = 1
  SameSecond = TRUE
INVARIANTS ItemsAccountedFor
PROPERTIES PassAdvances PassEnds
