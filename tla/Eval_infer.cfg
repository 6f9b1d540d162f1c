CONSTANTS
  Nodes <- AllNodes
  Depth <- NodeDepth
  Names <- SymbolNames
  Packages <- LookupPackages
  MaxPackages = 1
  Modulus = 8
  Floats <- SmallFloats
  FloatSum <- SmallSum
  FloatProduct <- SmallProduct
  FloatOf <- SmallOf
  MaxDepth = 0
SPECIFICATION Spec
INVARIANT InferHolds
CHECK_DEADLOCK FALSE
