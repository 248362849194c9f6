\* Two passes that start in the same second.
SPECIFICATION Spec
CONSTANTS
  IndexToRetain = 2
  PageSize = 1
  MaxItems = 1
  MaxTime = 1
  MaxLost = 0
  SameSecond = TRUE
INVARIANTS DiscardedIsNew
