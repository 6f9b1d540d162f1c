CONSTANTS
  EOF = EOF
  Newline = Newline
  Failure = Failure
  Digits <- One
  Odd <- Fraction
  Rune <- Alphabet
  MaxLength = 4
  MaxString = 6
  Inputs <- AllInputs
  MaxCalls = 6
SPECIFICATION LexFairSpec
INVARIANTS InOrder NothingLost PositionCounts EveryRuneOnce TokensAreLexemes StringErrorsAreReal EndIsFinal
PROPERTIES FailureIsReported EndIsReached
CHECK_DEADLOCK FALSE
