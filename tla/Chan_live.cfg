CONSTANTS
  a = a
  b = b
  NoValue = NoValue
  Producers = {p1, p2}
  Consumers = {c1}
  Closers = {k1, k2}
  Value = {a, b}
  TypeOf <- OneType
  Sizes = {0, 1}
  Preloads <- NoPreload
  MaxSent = 2
SPECIFICATION FairSpec
INVARIANTS FirstIsLatest
PROPERTIES CloseUnblocks QueueFairSpec
CHECK_DEADLOCK FALSE
