CONSTANTS
  EOF = EOF
  Newline = Newline
  Failure = Failure
  Rune = {a, Newline, EOF}
  MaxLength = 3
  Inputs <- AllInputs
SPECIFICATION Spec
INVARIANT DeliveredBeforeFailure
