------------------------------ MODULE Scanner ------------------------------
(***************************************************************************)
(* scanner.Scanner (lexer/scanner/scanner.go): a cursor over an            *)
(* io.RuneReader with one rune of look-ahead.                              *)
(*                                                                         *)
(* The reader is the environment.  It answers the reads in order, each     *)
(* with a rune or with an error that is not io.EOF; when it has answered   *)
(* them all it answers io.EOF for ever.  With an error comes the rune 0.   *)
(***************************************************************************)
EXTENDS Naturals, Sequences, FiniteSets

CONSTANTS
  Rune,      \* the runes of interest
  EOF,       \* the rune 0, which is also how Scan says there is no rune
  Newline,   \* the rune '\n'
  Failure,   \* in an input: a read that returns an error
  Inputs     \* what the readers hold

ASSUME RuneAssumption == EOF \in Rune /\ Newline \in Rune /\ EOF # Newline
ASSUME FailureAssumption == Failure \notin Rune
ASSUME InputsAssumption == Inputs \subseteq Seq(Rune \cup {Failure})

VARIABLES
  input,    \* the answers of this reader
  read,     \* how many times ReadRune was called
  current,  \* the rune under the cursor
  next,     \* the rune after it
  err,      \* the errors the scanner keeps: "eof", "fail"
  line,     \* the position, as counted
  column,
  seen      \* history: the runes other than EOF that were under the cursor

scanVars == <<input, read, current, next, err, line, column, seen>>

(* The k-th call of ReadRune: its rune and its error.                      *)
RuneAt(k) == IF k \in DOMAIN input /\ input[k] # Failure THEN input[k] ELSE EOF
ErrorAt(k) ==
  IF k \notin DOMAIN input THEN {"eof"}
  ELSE IF input[k] = Failure THEN {"fail"} ELSE {}

Visible(ru) == IF ru = EOF THEN << >> ELSE <<ru>>

(***************************************************************************)
(* Mistakes that this code does not make: each is what one definition      *)
(* below would be with a plausible bug, and breaks the property it names.  *)
(***************************************************************************)
ColumnRunsOn(ru) ==  \* PositionCounts
  /\ line' = IF ru = Newline THEN line + 1 ELSE line
  /\ column' = column + 1

ScanSkips ==  \* InOrder
  /\ next # EOF
  /\ read' = read + 2
  /\ current' = RuneAt(read + 1)
  /\ next' = RuneAt(read + 2)
  /\ seen' = seen \o Visible(RuneAt(read + 1))
  /\ UNCHANGED <<input, err, line, column>>

ScanLosesLast ==  \* NothingLost
  /\ next # EOF
  /\ ErrorAt(read + 1) # {"fail"}
  /\ read' = read + 1
  /\ next' = RuneAt(read + 1)
  /\ IF ErrorAt(read + 1) = {"eof"} THEN current' = EOF /\ UNCHANGED seen
                                    ELSE current' = next /\ seen' = Append(seen, next)
  /\ UNCHANGED <<input, err, line, column>>

FailureKeepsNext ==  \* EndIsFinal of Lexer
  /\ next # EOF
  /\ ErrorAt(read + 1) = {"fail"}
  /\ read' = read + 1
  /\ current' = EOF
  /\ err' = {"fail"}
  /\ UNCHANGED <<input, next, line, column, seen>>

(* New reads two runes.  It keeps the errors of both reads, and then the   *)
(* two runes whether or not there was an error.                            *)
New(in) ==
  /\ input = in
  /\ read = 2
  /\ current = RuneAt(1)
  /\ next = RuneAt(2)
  /\ err = ErrorAt(1) \cup ErrorAt(2)
  /\ line = 0
  /\ column = 0
  /\ seen = Visible(RuneAt(1))

Init == \E in \in Inputs : New(in)

updatePos(ru) ==
  /\ line' = IF ru = Newline THEN line + 1 ELSE line
  /\ column' = IF ru = Newline THEN 0 ELSE column + 1

(***************************************************************************)
(* Scan, by its three ways out.                                            *)
(***************************************************************************)
ScanAtEnd ==
  /\ next = EOF
  /\ current' = EOF
  /\ UNCHANGED <<input, read, next, err, line, column, seen>>

ScanAdvance ==
  /\ next # EOF
  /\ ErrorAt(read + 1) # {"fail"}
  /\ read' = read + 1
  /\ current' = next
  /\ next' = RuneAt(read + 1)
  /\ updatePos(next)
  /\ seen' = Append(seen, next)
  /\ UNCHANGED <<input, err>>

ScanFails ==
  /\ next # EOF
  /\ ErrorAt(read + 1) = {"fail"}
  /\ read' = read + 1
  /\ current' = EOF
  /\ next' = EOF
  /\ updatePos(next)
  /\ err' = {"fail"}
  /\ UNCHANGED <<input, seen>>

Scan == ScanAtEnd \/ ScanAdvance \/ ScanFails

Spec == Init /\ [][Scan]_scanVars

(***************************************************************************)
(* Properties.                                                             *)
(***************************************************************************)

TypeOK ==
  /\ input \in Seq(Rune \cup {Failure})
  /\ read \in 2 .. Len(input) + 2
  /\ current \in Rune
  /\ next \in Rune
  /\ err \subseteq {"eof", "fail"}
  /\ line \in Nat
  /\ column \in Nat
  /\ seen \in Seq(Rune \ {EOF})

(* The text of the input: what precedes the first rune 0 or failed read.   *)
IsText(n) == \A i \in 1 .. n : i \in DOMAIN input /\ input[i] \notin {EOF, Failure}

(* Runes come under the cursor in the order of the input, none left out    *)
(* and none twice, and the look-ahead is the rune that follows them.       *)
InOrder ==
  IsText(1) /\ current # EOF =>
    /\ IsText(Len(seen))
    /\ seen = SubSeq(input, 1, Len(seen))
    /\ read = Len(seen) + 1
    /\ next = RuneAt(read)

(* A reader that does not fail is delivered in full: when the scanner says *)
(* EOF, the next thing in the input is its end or a rune 0.                *)
NothingLost ==
  IsText(1) /\ current = EOF /\ "fail" \notin err => ~IsText(Len(seen) + 1)

(* Pos counts the newlines and the runes that Scan passed, the first rune, *)
(* which New fetched, not among them.                                      *)
Passed == SubSeq(seen, 2, Len(seen))
PositionCounts ==
  IsText(1) /\ current # EOF =>
    /\ line = Cardinality({i \in DOMAIN Passed : Passed[i] = Newline})
    /\ column = Cardinality({i \in DOMAIN Passed :
                               \A j \in i .. Len(Passed) : Passed[j] # Newline})

(* TestScanner_Error (scanner_test.go:63): everything that precedes the    *)
(* failure is scanned, and then the error is there.                        *)
DeliveredBeforeFailure ==
  IsText(1) /\ current = EOF => ~IsText(Len(seen) + 1)
=============================================================================
