\* Two sites, configured well or not, a second of three milliseconds, and delays of none, one
\* and two seconds; a delay of three seconds overflows.
SPECIFICATION FairSpec
CONSTANTS
  Category = {"Account", "User"}
  None = None
  SiteLists <- MCSiteLists
  DelaySettings = {0, 1, 2, 3}
  Scale = 3
  MaxInt = 7
INVARIANTS TypeOK RunCovers
PROPERTIES DistinctSeconds StopNearer StopReturns KeepsIndexing
