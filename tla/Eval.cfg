CONSTANTS
  Nodes <- AllNodes
  Depth <- NodeDepth
  Names <- SymbolNames
  Packages <- AllPackages
  MaxPackages = 2
  Modulus = 8
  Floats <- SmallFloats
  FloatSum <- SmallSum
  FloatProduct <- SmallProduct
  FloatOf <- SmallOf
  MaxDepth = 4
SPECIFICATION FairSpec
INVARIANTS ScopesNest InspectEnds InferHoldsForBuiltins
PROPERTIES OnlyInnermostIsBound OrderDoesNotMatter GreaterIsAll Answers
CHECK_DEADLOCK FALSE
