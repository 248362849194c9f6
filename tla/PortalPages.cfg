\* Two requests at a time, six configurations, four keys in addresses.
SPECIFICATION Spec
CONSTANTS
  Request = {r1, r2}
  Config <- McConfig
  Typed <- McTyped
  None = None
SYMMETRY Symmetry
INVARIANTS TypeOK AskedRight ErrorOnlyForConfiguration DeadEndsOnlyTyped
   StatusComplete
PROPERTIES RequestsEnd
