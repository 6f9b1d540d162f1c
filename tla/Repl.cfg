CONSTANTS
  Rune <- Runes
  EOF = "NUL"
  Newline = "NL"
  Failure = FAIL
  Digits <- ZeroOne
  Odd <- NoRunes
  ParseInt <- Ints
  ParseFloat <- Floats
  Lines <- Typed
  MaxLines = 3
  MaxCalls = 20
SPECIFICATION FairSpec
INVARIANTS PendingText PendingIsUnfinished FeedIsWellFormed
PROPERTIES WholeText LinesAreAnswered
CHECK_DEADLOCK FALSE
