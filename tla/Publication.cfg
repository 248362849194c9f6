\* Alias and retention: seven passes at most, an item or none, and at most one index left
\* behind unpublished between two publications.
SPECIFICATION Spec
CONSTANTS
  IndexToRetain = 2
  PageSize = 1
  MaxItems = 1
  MaxTime = 6
  MaxLost = 1
  SameSecond = FALSE
INVARIANTS TypeOK PublicationInv NewerAccountedFor RetentionHolds DiscardedIsNew
PROPERTIES AliasNeverLost SearchSpec
