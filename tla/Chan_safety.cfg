CONSTANTS
  a = a
  b = b
  NoValue = NoValue
  Producers = {p1, p2}
  Consumers = {c1, c2}
  Closers = {k1}
  Value = {a, b}
  TypeOf <- TwoTypes
  Sizes = {0, 1, 2}
  Preloads <- SomePreloads
  MaxSent = 3
SPECIFICATION Spec
INVARIANTS TypeOK Conservation NilMeansClosed FirstWasReceived
PROPERTY QueueSpec
CHECK_DEADLOCK FALSE
