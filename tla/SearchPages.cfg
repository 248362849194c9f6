\* Four items on pages of two: two full pages with an empty one behind, or a partial one.
SPECIFICATION Spec
CONSTANTS
  Item = {a, b, c, d}
  PageSize = 2
  TypedSize = {0, 3}
  TypedPage <- McTypedPage
  MaxHits = 4
  None = None
SYMMETRY Symmetry
INVARIANTS TypeOK NothingMissed EmptyOnlyBehindFull NextWithinLast
PROPERTIES ButtonKeepsPromise
