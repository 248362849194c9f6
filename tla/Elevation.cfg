\* Two tabs, two accounts, an elevation of two minutes and a clock of four.
SPECIFICATION Spec
CONSTANTS
  Tab = {tab1, tab2}
  Id = {i1, i2}
  Timeout = 2
  MaxTime = 4
  None = None
SYMMETRY Symmetry
INVARIANTS TypeOK CookiesWithinGrant JarCurrent
PROPERTIES ServedElevated 
