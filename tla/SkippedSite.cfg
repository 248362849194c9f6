\* A site without BaseUrl in front of one that is as it should be.
SPECIFICATION Spec
CONSTANTS
  Category = {"Account", "User"}
  None = None
  SiteLists <- MCBlankFirst
  DelaySettings = {2}
  Scale = 3
  MaxInt = 7
INVARIANTS EveryUsableSiteIndexed
