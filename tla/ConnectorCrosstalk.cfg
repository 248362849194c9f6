\* Two requests of the portal at a time.
SPECIFICATION Spec
CONSTANTS
  Caller = {c1, c2}
  Site = {s1}
  Codes = {"OK", "NotFound"}
  None = None
INVARIANTS StatusIsOwn
