-------------------------------- MODULE Repl --------------------------------
(***************************************************************************)
(* repl.Run (repl/repl.go): reads lines, adds each to a buffer, and lexes  *)
(* and parses the buffer from its beginning.  What came too early to its   *)
(* end stays in the buffer for the next line; what parsed is evaluated.    *)
(*                                                                         *)
(* This composes Lexer and Parser.  The parser asks the lexer for a token  *)
(* at a time, but nothing it does reaches the lexer, so here the lexer     *)
(* runs first and the parser has all the answers.  The evaluator is only   *)
(* what Run sees of it: it prints, or it panics, which ends the program.   *)
(***************************************************************************)
EXTENDS Naturals, Sequences, FiniteSets, SequencesExt

CONSTANTS Rune, EOF, Newline, Failure, Digits, Odd,
  ParseInt,    \* the texts that strconv.ParseInt takes in any base, 64 bits wide
  ParseFloat,  \* the texts that strconv.ParseFloat takes
  Lines,       \* what is typed
  MaxLines,    \* bound: how many lines are typed
  MaxCalls     \* bound: how many tokens the lexer gives, more than a buffer has

ASSUME ReplAssumption ==
  /\ EOF \in Rune /\ Newline \in Rune /\ EOF # Newline /\ Failure \notin Rune
  /\ Lines \subseteq Seq(Rune \ {EOF, Newline})

VARIABLES
  input, read, current, next, err, line, column, seen,  \* the scanner
  mode, from, out,                                      \* the lexer
  feed, at, errs, stack, parsed, pkg, start, pc,        \* the parser
  buf,      \* the buffer
  state,    \* what Run is doing
  pending,  \* history: the lines since the buffer was last reset
  typed     \* how many lines were typed

lexerVars == <<input, read, current, next, err, line, column, seen, mode, from, out>>
parserVars == <<feed, at, errs, stack, parsed, pkg, start, pc>>
vars == <<lexerVars, parserVars, buf, state, pending, typed>>

Lex == INSTANCE Lexer WITH Inputs <- Lines
ASSUME ClassAssumption == Lex!ClassesApart

Par == INSTANCE Parser WITH Feeds <- {}

Init ==
  /\ Lex!New(<< >>) /\ mode = "idle" /\ from = 1 /\ out = << >>
  /\ Par!New(<< >>)
  /\ buf = << >> /\ state = "prompt" /\ pending = << >> /\ typed = 0

(***************************************************************************)
(* Mistakes that this code does not make: each is what one definition      *)
(* below would be with a plausible bug, and breaks the property it names.  *)
(***************************************************************************)
WaitWithoutNewline ==  \* PendingText
  /\ state = "parsing" /\ pc = "done"
  /\ errs \cap {"eof", "unexpected EOF"} # {}
  /\ state' = "prompt"
  /\ UNCHANGED <<lexerVars, parserVars, buf, pending, typed>>

WaitAfterAnyError ==  \* PendingIsUnfinished
  /\ state = "parsing" /\ pc = "done"
  /\ errs # {}
  /\ buf' = Append(buf, Newline)
  /\ state' = "prompt"
  /\ UNCHANGED <<lexerVars, parserVars, pending, typed>>

(***************************************************************************)
(* Reading a line.                                                         *)
(***************************************************************************)
Quit == {<<":", "q">>, <<":", "q", "u", "i", "t">>}
Help == {<<":", "h">>, <<":", "h", "e", "l", "p">>}
TrimSpace(s) ==
  LET solid == {i \in DOMAIN s : s[i] # " "} IN
  IF solid = {} THEN << >> ELSE SubSeq(s, Min(solid), Max(solid))

(* lexer.NewLexer over the bytes of the buffer.                            *)
NewLexer ==
  /\ input' = buf'
  /\ read' = 2
  /\ current' = Lex!RuneAt(1)'
  /\ next' = Lex!RuneAt(2)'
  /\ err' = (Lex!ErrorAt(1) \cup Lex!ErrorAt(2))'
  /\ line' = 0 /\ column' = 0
  /\ seen' = Lex!Visible(current')
  /\ mode' = "idle" /\ from' = 1 /\ out' = << >>

ReadLine(l) ==
  /\ state = "prompt" /\ typed < MaxLines
  /\ TrimSpace(l) \notin Quit \cup Help
  /\ typed' = typed + 1
  /\ buf' = buf \o l
  /\ pending' = Append(pending, l)
  /\ NewLexer
  /\ state' = "lexing"
  /\ UNCHANGED parserVars

ReadHelp(l) ==
  /\ state = "prompt" /\ typed < MaxLines
  /\ TrimSpace(l) \in Help
  /\ typed' = typed + 1
  /\ UNCHANGED <<lexerVars, parserVars, buf, state, pending>>

ReadQuit(l) ==
  /\ state = "prompt" /\ typed < MaxLines
  /\ TrimSpace(l) \in Quit
  /\ typed' = typed + 1
  /\ state' = "done"
  /\ UNCHANGED <<lexerVars, parserVars, buf, pending>>

InputEnds ==
  /\ state = "prompt"
  /\ state' = "done"
  /\ UNCHANGED <<lexerVars, parserVars, buf, pending, typed>>

(***************************************************************************)
(* Lexing and parsing.                                                     *)
(***************************************************************************)
Drained ==
  /\ mode = "idle" /\ out # << >>
  /\ Lex!LastOut.kind = "nil" \/ (Lex!LastOut.kind = "EOF" /\ Lex!LastOut.errs # {"bad string"})

LexerRuns ==
  /\ state = "lexing"
  /\ ~Drained
  /\ Lex!LexNext
  /\ UNCHANGED <<parserVars, buf, state, pending, typed>>

(* The class of a token for the parser: the head of a special form, a      *)
(* Boolean or a symbol like any other; and of a number, whether strconv    *)
(* takes its text.                                                         *)
SymbolClass(text) ==
  CASE text \in {<<"+">>, <<"*">>} -> "+"
    [] text \in {<<"-">>, <<"/">>} -> "-"
    [] text = <<"i", "f">> -> "if"
    [] text = <<"c", "o", "n", "d">> -> "cond"
    [] text = <<"i", "m", "p", "o", "r", "t", "-", "g", "o">> -> "import-go"
    [] text \in {<<"t", "r", "u", "e">>, <<"f", "a", "l", "s", "e">>} -> "true"
    [] OTHER -> "symbol"
IsNumeral(t) == Lex!Text(t) \in IF t.kind = "int" THEN ParseInt ELSE ParseFloat

ErrorClass(es) ==
  IF es = {"bad string"} THEN "bad_string"
  ELSE IF "bad string" \notin es THEN "eof_error"
  ELSE IF "eof" \in es THEN "lone_quote" ELSE "open_string"

TokenClass(t) ==
  IF t.errs # {} THEN ErrorClass(t.errs)
  ELSE IF t.kind = "symbol" THEN SymbolClass(Lex!Text(t))
  ELSE IF t.kind \in {"int", "float"} THEN (IF IsNumeral(t) THEN "int" ELSE "bad int")
  ELSE IF t.kind \in {"[", "]", "{", "}", "'"} THEN "comment"
  ELSE t.kind

(* The answers up to the end; past them the parser is told EOF for ever.   *)
Answers ==
  LET toks == [i \in DOMAIN out |-> TokenClass(out[i])] IN
  IF Last(toks) = "EOF" THEN Front(toks) ELSE toks

(* parser.New over that lexer.                                             *)
NewParser ==
  /\ state = "lexing"
  /\ Drained
  /\ feed' = Answers
  /\ at' = 1
  /\ errs' = (Par!ErrorOf(Par!cur) \cup Par!ErrorOf(Par!next))'
  /\ stack' = << >> /\ parsed' = Par!Nil /\ pkg' = << >> /\ start' = 0
  /\ pc' = "parse"
  /\ state' = "parsing"
  /\ UNCHANGED <<lexerVars, buf, pending, typed>>

ParserRuns ==
  /\ state = "parsing"
  /\ Par!Next
  /\ UNCHANGED <<lexerVars, buf, state, pending, typed>>

ParserPanics ==
  /\ state = "parsing" /\ pc = "panicked"
  /\ state' = "crashed"
  /\ UNCHANGED <<lexerVars, parserVars, buf, pending, typed>>

(***************************************************************************)
(* What Run does with the outcome.                                         *)
(***************************************************************************)
Parsed == state = "parsing" /\ pc = "done"
Incomplete == errs \cap {"eof", "unexpected EOF"} # {}

WaitForMore ==
  /\ Parsed
  /\ Incomplete
  /\ buf' = Append(buf, Newline)
  /\ state' = "prompt"
  /\ UNCHANGED <<lexerVars, parserVars, pending, typed>>

Reset == buf' = << >> /\ pending' = << >> /\ state' = "prompt"

ShowError ==
  /\ Parsed
  /\ ~Incomplete /\ errs # {}
  /\ Reset
  /\ UNCHANGED <<lexerVars, parserVars, typed>>

(* Eval gives nil for a package without nodes, and Run inspects what it    *)
(* gives; Eval itself takes the first item of every list it evaluates.     *)
EmptyList(n) == n.t = "SExp" /\ n.kids = << >>
HasEmptyList == \E i \in DOMAIN feed : feed[i] = "(" /\ Par!Answer(i + 1) = ")"

ShowValue ==
  /\ Parsed
  /\ errs = {}
  /\ pkg # << >> /\ ~EmptyList(pkg[1])
  /\ Reset
  /\ UNCHANGED <<lexerVars, parserVars, typed>>

EvalPanics ==
  /\ Parsed
  /\ errs = {}
  /\ pkg = << >> \/ HasEmptyList
  /\ state' = "crashed"
  /\ UNCHANGED <<lexerVars, parserVars, buf, pending, typed>>

Step ==
  \/ LexerRuns \/ NewParser \/ ParserRuns \/ ParserPanics
  \/ WaitForMore \/ ShowError \/ ShowValue \/ EvalPanics

ReplNext ==
  \/ \E l \in Lines : ReadLine(l) \/ ReadHelp(l) \/ ReadQuit(l)
  \/ InputEnds
  \/ Step

Spec == Init /\ [][ReplNext]_vars

(* One goroutine: what a line sets off runs to its end.                    *)
FairSpec == Spec /\ WF_vars(Step)

(***************************************************************************)
(* Properties.                                                             *)
(***************************************************************************)
(* The buffer is what was typed since the last answer: at a prompt every   *)
(* pending line with the newline that Scan took off, and while a line is   *)
(* worked on all but its newline.  No line is lost, repeated or mixed with *)
(* one that was answered already.                                          *)
WithNewline(l) == Append(l, Newline)
Joined(ls) == FlattenSeq([i \in DOMAIN ls |-> WithNewline(ls[i])])

PendingText ==
  LET text == Joined(pending) IN
  IF state \in {"lexing", "parsing", "crashed"} THEN buf = Front(text)
  ELSE buf = text

(* The REPL asks for more only when more may help: the text is a rune or   *)
(* less, for which the scanner says EOF at once; or a list is open, a      *)
(* string is open or a point has nothing to select yet.  The one exception *)
(* is a malformed string before which a list or a selector is open: the    *)
(* parser takes the lexer's EOF token for the end, and no line helps then. *)
OpenBefore(k) ==  \* a list is open before token k
  \E i \in 1 .. k - 1 :
    feed[i] = "(" /\ \A j \in i .. k - 1 : Par!Count("(", i, j) > Par!Count(")", i, j)
DanglingAt(i) == feed[i] = "." /\ Par!Answer(i + 1) \in {")", "EOF", "bad_string"}

PendingIsUnfinished ==
  state = "prompt" /\ buf # << >> =>
    \/ Len(buf) <= 2
    \/ OpenBefore(Len(feed) + 1)
    \/ \E i \in DOMAIN feed : feed[i] \in {"open_string", "lone_quote"} \/ DanglingAt(i)
    \/ \E i \in DOMAIN feed : feed[i] = "bad_string" /\ OpenBefore(i)

(* The lexer keeps to what the parser was modelled to expect of it.        *)
FeedIsWellFormed == state = "parsing" => Par!LexerAnswers(feed)

(* A text is evaluated only as a whole: the nodes that Eval gets span      *)
(* every token of every pending line, with no gap, and none is nil.        *)
WholeText ==
  [][state = "parsing" /\ errs = {} /\ state' \in {"prompt", "crashed"} /\ pc # "panicked" =>
       /\ Par!Run(pkg, 1) = Len(feed) + 1
       /\ \A i \in DOMAIN pkg : Par!Built(pkg[i])]_vars

(* Every line is answered: whatever is typed, and after whatever, Run gets *)
(* back to its prompt unless it panics.                                    *)
LinesAreAnswered == state \in {"lexing", "parsing"} ~> state \in {"prompt", "crashed"}
=============================================================================
