------------------------------- MODULE Lexer -------------------------------
(***************************************************************************)
(* lexer.Lexer (lexer/lexer.go): Next skips separators, picks a reader by  *)
(* the rune under the cursor, and runs it.  One action is one iteration of *)
(* one of its loops, with the call of Scan it makes.                       *)
(*                                                                         *)
(* A rune is itself, but that " " stands for every space that is not a     *)
(* newline; a token is the stretch of runes it was read from.              *)
(***************************************************************************)
EXTENDS Scanner

CONSTANTS
  Digits,    \* the runes of unicode.Digit
  Odd,       \* runes that no token has but as its first, such as a fraction
  MaxCalls   \* bound: how many times Next is called

VARIABLES
  mode,  \* which loop the lexer is in; "idle" between the calls of Next
  from,  \* where in `seen' the token being read begins
  out    \* history: what the calls of Next returned

lexVars == <<mode, from, out>>
vars == <<scanVars, lexVars>>

(***************************************************************************)
(* The classes of runes.                                                   *)
(***************************************************************************)
isSpace(ru) == ru \in {" ", ",", Newline}
brackets == {"(", ")", "[", "]", "{", "}"}
isDigit(ru) == ru \in Digits
floaty == {".", "e", "E"}
numbery == {"+", "-", "_", "b", "o", "x"} \cup floaty
Quote == "\""
strEscapes == {"\\", Quote, "r", "n", "t", "x"}
isAtomRune(ru) == ~isSpace(ru) /\ ru \notin brackets \cup {"."} \cup Odd

(* The rune 0 is in none of the classes, a newline in that of spaces only, *)
(* and a digit in none of the others.                                      *)
ClassesApart ==
  /\ ~isSpace(EOF)
  /\ Digits \cap ({EOF, Newline, " ", ",", "'", ";", ":"}
       \cup brackets \cup numbery \cup strEscapes \cup Odd) = {}
  /\ {EOF, Newline} \cap (brackets \cup numbery \cup strEscapes \cup {"'", ";", ":"}) = {}

ASSUME ClassAssumption == ClassesApart

(* The cursor, as an index into `seen'.                                    *)
Here == IF current = EOF THEN Len(seen) + 1 ELSE Len(seen)

(* Next answers with the token and no error or, when a reader returned an  *)
(* error, with a token of kind EOF and the error.  A reader's token may be *)
(* nil.                                                                    *)
Return(kind, to, errs) ==
  /\ out' = Append(out,
       IF errs = {} THEN [kind |-> kind, from |-> from, to |-> to, errs |-> {}]
                    ELSE [kind |-> "EOF", from |-> from, to |-> to, errs |-> errs])
  /\ mode' = "idle"
  /\ UNCHANGED from

Goto(m) == mode' = m /\ UNCHANGED <<from, out>>

(***************************************************************************)
(* Mistakes that this code does not make: each is what one definition      *)
(* below would be with a plausible bug, and breaks the property it names.  *)
(***************************************************************************)
EndWithoutError == mode = "eof" /\ Scan /\ Return("EOF", from, {})  \* FailureIsReported

SingleStays == mode = "single" /\ Return(current, from + 1, {}) /\ UNCHANGED scanVars  \* EndIsReached

CommentTakesNewline ==  \* EveryRuneOnce
  /\ mode = "comment"
  /\ current \in {EOF, Newline}
  /\ Scan
  /\ Return("comment", Here, {})

EscapeIsOneRune ==  \* TokensAreLexemes
  /\ mode = "body"
  /\ current = "\\" /\ next \in strEscapes
  /\ Scan
  /\ UNCHANGED lexVars

EveryEscapeIsBad ==  \* StringErrorsAreReal
  /\ mode = "body"
  /\ current = "\\"
  /\ Return("nil", Here, {"bad string"})
  /\ UNCHANGED scanVars

StringAtEndIsBad ==  \* FeedIsWellFormed of Repl
  /\ mode = "body"
  /\ current = EOF
  /\ Return("nil", Here, err \cup {"bad string"})
  /\ UNCHANGED scanVars

(***************************************************************************)
(* next.                                                                   *)
(***************************************************************************)
Call ==
  /\ mode = "idle"
  /\ Len(out) < MaxCalls
  /\ Goto("start")
  /\ UNCHANGED scanVars

SkipSeparator ==
  /\ mode = "start"
  /\ isSpace(current)
  /\ Scan
  /\ UNCHANGED lexVars

reader(ru) ==
  IF ru = EOF THEN "eof"
  ELSE IF ru = ";" THEN "comment"
  ELSE IF ru \in brackets \cup {".", "'"} THEN "single"
  ELSE IF ru = Quote THEN "string"
  ELSE IF isDigit(ru) \/ ru \in {"+", "-"} THEN "number"
  ELSE IF ru = ":" THEN "keyword"
  ELSE "symbol"

Begin ==
  /\ mode = "start"
  /\ ~isSpace(current)
  /\ mode' = reader(current)
  /\ from' = Here
  /\ UNCHANGED <<scanVars, out>>

EndOfInput == mode = "eof" /\ Scan /\ Return("EOF", from, err')

Single == mode = "single" /\ Scan /\ Return(current, from + 1, {})

(***************************************************************************)
(* readComment: up to a newline, which it leaves, or the end of input.     *)
(***************************************************************************)
CommentRune ==
  /\ mode = "comment"
  /\ current \notin {EOF, Newline}
  /\ Scan
  /\ UNCHANGED lexVars

CommentEnd ==
  /\ mode = "comment"
  /\ current \in {EOF, Newline}
  /\ Return("comment", Here, {})
  /\ UNCHANGED scanVars

(***************************************************************************)
(* readString.  An escape is two runes, scanned one after the other.       *)
(***************************************************************************)
(* The loop's own Scan, and the second of an escape.                       *)
StringScan == mode = "string" /\ Scan /\ Goto("body")

StringAtEnd ==
  /\ mode = "body"
  /\ current = EOF
  /\ Return("nil", Here, err \cup {"bad string", "unexpected EOF"})
  /\ UNCHANGED scanVars

StringClose ==
  /\ mode = "body"
  /\ current = Quote
  /\ Scan
  /\ Return("string", Len(seen) + 1, err')

StringEscape ==
  /\ mode = "body"
  /\ current = "\\" /\ next \in strEscapes
  /\ Scan
  /\ Goto("string")

StringBadEscape ==
  /\ mode = "body"
  /\ current = "\\" /\ next \notin strEscapes
  /\ Return("nil", Here, {"bad string"})
  /\ UNCHANGED scanVars

StringRune ==
  /\ mode = "body"
  /\ current \notin {EOF, Quote, "\\"}
  /\ Scan
  /\ UNCHANGED lexVars

(***************************************************************************)
(* readNumber, which also reads the symbols + and -.                       *)
(***************************************************************************)
isNumberRune(ru) == isDigit(ru) \/ ru \in numbery

numberKind(value) ==
  IF Len(value) = 1 /\ value[1] \in {"+", "-"} THEN "symbol"
  ELSE IF \E i \in DOMAIN value : value[i] \in floaty THEN "float" ELSE "int"

NumberRune ==
  /\ mode = "number"
  /\ isNumberRune(current)
  /\ Scan
  /\ UNCHANGED lexVars

NumberEnd ==
  /\ mode = "number"
  /\ ~isNumberRune(current)
  /\ Return(numberKind(SubSeq(seen, from, Here - 1)), Here, {})
  /\ UNCHANGED scanVars

(***************************************************************************)
(* readAtom scans before it looks: the first rune is taken unseen, and at  *)
(* the end of input there is no token.                                     *)
(***************************************************************************)
AtomRune ==
  /\ mode \in {"keyword", "symbol"}
  /\ Scan
  /\ current' # EOF /\ isAtomRune(current')
  /\ UNCHANGED lexVars

AtomEnd ==
  /\ mode \in {"keyword", "symbol"}
  /\ Scan
  /\ current' # EOF /\ ~isAtomRune(current')
  /\ Return(mode, Len(seen'), err')

AtomAtEnd ==
  /\ mode \in {"keyword", "symbol"}
  /\ Scan
  /\ current' = EOF
  /\ Return("nil", Here', err')

(***************************************************************************)
(* The specification.                                                      *)
(***************************************************************************)
LexInit == Init /\ mode = "idle" /\ from = 1 /\ out = << >>

Step ==
  \/ SkipSeparator \/ Begin \/ EndOfInput \/ Single
  \/ CommentRune \/ CommentEnd
  \/ StringScan \/ StringAtEnd \/ StringClose \/ StringEscape \/ StringBadEscape \/ StringRune
  \/ NumberRune \/ NumberEnd
  \/ AtomRune \/ AtomEnd \/ AtomAtEnd

LexNext == Call \/ Step

LexSpec == LexInit /\ [][LexNext]_vars

(* A call runs on its own; the parser calls again until it sees the end.   *)
LexFairSpec == LexSpec /\ WF_vars(LexNext)

(***************************************************************************)
(* Properties.                                                             *)
(***************************************************************************)
LastOut == out[Len(out)]
Resumed(i) == IF i = 1 THEN 1 ELSE out[i - 1].to

(* Each call of Next goes on where the one before it stopped, takes a      *)
(* stretch of the input that is not empty unless it says EOF, and leaves   *)
(* out nothing but separators: no rune is read twice or passed over.       *)
EveryRuneOnce ==
  /\ \A i \in DOMAIN out :
       /\ Resumed(i) <= out[i].from /\ out[i].from <= out[i].to
       /\ \A k \in Resumed(i) .. out[i].from - 1 : isSpace(seen[k])
       /\ out[i].kind # "EOF" => out[i].from < out[i].to
  /\ mode = "idle" /\ out # << >> => Here = LastOut.to

(* What a token of each kind looks like, said without the loops.           *)
Escaped(s, i) ==
  Cardinality({j \in 2 .. i - 1 : \A k \in j .. i - 1 : s[k] = "\\"}) % 2 = 1
Quotes(s) == {i \in 2 .. Len(s) : s[i] = Quote /\ ~Escaped(s, i)}
BadEscapes(s) ==
  {i \in 2 .. Len(s) - 1 : s[i] = "\\" /\ ~Escaped(s, i) /\ s[i + 1] \notin strEscapes}

Lexeme(kind, s, follow) ==
  /\ kind = "comment" =>
       s[1] = ";" /\ (\A i \in DOMAIN s : s[i] # Newline) /\ follow \in {EOF, Newline}
  /\ kind = "string" => s[1] = Quote /\ Quotes(s) = {Len(s)} /\ BadEscapes(s) = {}
  /\ kind \in {"int", "float"} =>
       /\ \A i \in DOMAIN s : isNumberRune(s[i])
       /\ s[1] \in {"+", "-"} => Len(s) > 1
       /\ kind = "float" <=> \E i \in DOMAIN s : s[i] \in floaty
       /\ ~isNumberRune(follow)
  /\ kind \in {"symbol", "keyword"} =>
       /\ \A i \in 2 .. Len(s) : isAtomRune(s[i])
       /\ kind = "keyword" <=> s[1] = ":"
       /\ IF s[1] \in {"+", "-"} THEN Len(s) = 1 /\ ~isNumberRune(follow)
                                 ELSE follow # EOF /\ ~isAtomRune(follow)
  /\ kind \notin {"comment", "string", "int", "float", "symbol", "keyword"} =>
       Len(s) = 1 /\ s[1] = kind

Text(t) == SubSeq(seen, t.from, t.to - 1)
Follow(t) == IF t.to \in DOMAIN seen THEN seen[t.to] ELSE EOF

(* Every token is a longest lexeme of its kind: strings end at their first *)
(* quote that is not escaped, comments at the newline, and no number or    *)
(* atom is cut short or runs into its neighbour.                           *)
TokensAreLexemes ==
  \A i \in DOMAIN out : out[i].kind \notin {"EOF", "nil"} =>
    Lexeme(out[i].kind, Text(out[i]), Follow(out[i]))

(* A string is called unfinished only if no quote that is not escaped      *)
(* closes it -- the REPL then waits for another line -- and malformed only *)
(* if it is, at the rune the lexer stopped at.                             *)
StringErrorsAreReal ==
  \A i \in DOMAIN out : "bad string" \in out[i].errs =>
    /\ seen[out[i].from] = Quote
    /\ Quotes(Text(out[i])) = {} /\ BadEscapes(Text(out[i])) = {}
    /\ IF "unexpected EOF" \in out[i].errs
       THEN \A j \in i + 1 .. Len(out) : out[j].kind = "EOF"
       ELSE /\ seen[out[i].to] = "\\"
            /\ IsText(1) => RuneAt(out[i].to + 1) \notin strEscapes

(* The end of the input is final.  Once a call said EOF or, for an atom    *)
(* that touches the end, gave nil, every later call says EOF.              *)
EndIsFinal ==
  IsText(1) =>
    \A i \in DOMAIN out : out[i].kind \in {"EOF", "nil"} /\ out[i].errs # {"bad string"} =>
      \A j \in i + 1 .. Len(out) : out[j].kind = "EOF"

(* A failure of the reader is never passed off as the end of the input.    *)
FailureIsReported ==
  [][out' # out /\ "fail" \in err' =>
       LET t == out'[Len(out')] IN
       t.kind \in {"EOF", "nil"} /\ t.errs # {"bad string"} => "fail" \in t.errs]_vars

(* Whoever keeps calling Next is told the end, or an error, at last: no    *)
(* call runs for ever, and no malformed string holds it where it is.      *)
EndIsReached == <>(\E i \in DOMAIN out : out[i].kind = "EOF" /\ out[i].errs # {"bad string"})
=============================================================================
