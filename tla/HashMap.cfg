CONSTANTS
  v = v
  w = w
  Key = {k1, k2}
  Val = {v, w}
  NilMap = NilMap
  Nil = Nil
  OwnEq <- EmptyEqNil
  AnyEq <- Identity
  Elem <- Elements
  Batches <- SomeBatches
  MaxCells = 3
  MaxLists = 3
SYMMETRY KeySymmetry
SPECIFICATION Spec
INVARIANTS ListsPersist SurvivorsOnce ContainsAgrees
CHECK_DEADLOCK FALSE
