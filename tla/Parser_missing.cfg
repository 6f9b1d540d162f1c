CONSTANTS
  MaxLength = 2
  MaxInside = 1
  Feeds <- AllFeeds
SPECIFICATION Spec
INVARIANT MissingTokenIsError
CHECK_DEADLOCK FALSE
