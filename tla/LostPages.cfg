\* One pass over three pages of one item each.
SPECIFICATION Spec
CONSTANTS
  IndexToRetain = 2
  PageSize = 1
  MaxItems = 3
  MaxTime = 1
  MaxLost = 0
  SameSecond = FALSE
INVARIANTS OneOrTwoPagesMissing
