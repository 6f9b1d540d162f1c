CONSTANTS
  MaxLength = 4
  MaxInside = 2
  Feeds <- AllFeeds
SPECIFICATION FairSpec
PROPERTY Ends
INVARIANTS HolesAreErrors EveryTokenOnce FormsAreBuilt IncompleteIsOpen
CHECK_DEADLOCK FALSE
