CONSTANTS
  MaxItems = 2
  Trees <- AllTrees
  Depth <- AllDepths
  Memory <- AllMemory
  MaxDepth = 3
SPECIFICATION Spec
INVARIANTS OriginalStands CloneIsDeep EqualIsSame
CHECK_DEADLOCK FALSE
