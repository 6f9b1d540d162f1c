CONSTANTS
  MaxLength = 2
  MaxInside = 2
  Feeds <- AllFeeds
SPECIFICATION Spec
INVARIANT ImportsAsDeclared
CHECK_DEADLOCK FALSE
