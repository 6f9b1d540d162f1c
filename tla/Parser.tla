------------------------------- MODULE Parser -------------------------------
(***************************************************************************)
(* parser.Parser (parser/parser.go, infixes.go, special.go, pattern.go): a *)
(* recursive descent over the tokens of a Lexer, with one infix operator.  *)
(* The calls that are open -- parseSexp and parseDotSelector, each waiting *)
(* for a parseNode -- are the frames of a stack, and one action is one     *)
(* iteration of a loop or one return.                                      *)
(*                                                                         *)
(* A token is the class the parser tells apart.  A node remembers which    *)
(* tokens it was made from.  Positions in the text, and the wording of     *)
(* errors, are left out; an error is known by what errors.Is would say.    *)
(***************************************************************************)
EXTENDS Naturals, Sequences, FiniteSets, SequencesExt

CONSTANT Feeds  \* what a lexer answers, call by call, before it only says EOF

(***************************************************************************)
(* The lexer's answers.  An error comes with a token of kind EOF; a nil    *)
(* token comes without an error.                                           *)
(***************************************************************************)
Operators == {"+", "-"}  \* "+" stands for "*" too, and "-" for "/"
isSpecial == {"import-go", "if", "cond", "."} \cup Operators
Symbols == {"symbol"} \cup isSpecial
Literals == {"true", "int", "string"}
Leaves == Symbols \cup Literals \cup {"keyword"}

LexicalError == [bad_string |-> {"lexical"},
                 open_string |-> {"lexical", "unexpected EOF"},
                 lone_quote |-> {"lexical", "unexpected EOF", "eof"},
                 eof_error |-> {"eof"}]

Tokens == Leaves \cup {"(", ")", "bad int", "comment", "EOF", "nil"} \cup DOMAIN LexicalError

(* Nothing follows the end of the input or an atom that touches it; only   *)
(* an input of one rune or none fails with io.EOF; and a malformed string  *)
(* is followed by the atom that its bad escape begins.                     *)
LexerAnswers(f) ==
  /\ f \in Seq(Tokens \ {"EOF"})
  /\ \A i \in 1 .. Len(f) - 1 : f[i] \notin {"nil", "open_string", "lone_quote", "eof_error"}
  /\ \A i \in DOMAIN f :
       /\ f[i] = "lone_quote" => Len(f) = 1
       /\ f[i] = "eof_error" => Len(f) <= 2
       /\ f[i] = "bad_string" => i < Len(f) /\ f[i + 1] \in {"symbol", "nil"}

ASSUME FeedsAssumption == \A f \in Feeds : LexerAnswers(f)

VARIABLES
  feed,    \* the answers of this lexer
  at,      \* the number of the answer that is the current token
  errs,    \* what the recorded errors are: "eof", "unexpected EOF", "lexical", "syntax"
  stack,   \* the open calls, the innermost last
  parsed,  \* the node an infix loop holds or a parseNode returns
  pkg,     \* the nodes of the package
  start,   \* history: where the last node of the package began
  pc       \* the loop that goes on

vars == <<feed, at, errs, stack, parsed, pkg, start, pc>>

Answer(i) == IF i \in DOMAIN feed THEN feed[i] ELSE "EOF"
ErrorOf(tok) == IF tok \in DOMAIN LexicalError THEN LexicalError[tok] ELSE {}
IsEOF(tok) == tok = "EOF" \/ tok \in DOMAIN LexicalError

cur == Answer(at)
next == Answer(at + 1)

(* A mistake this code does not make: to drop the error of every token.    *)
nextTokForgets(n) == at' = at + n /\ errs' = errs  \* WholeText of Repl

(* nextTok, n times: an io.EOF is not recorded, whatever else it says.     *)
nextTok(n) ==
  LET found == {e \in {ErrorOf(Answer(i)) : i \in at + 2 .. at + 1 + n} : "eof" \notin e}
  IN  at' = at + n /\ errs' = errs \cup UNION found

(***************************************************************************)
(* Nodes.  A builder that fails returns a nil pointer of its own type,     *)
(* which as an ast.Node is not nil.                                        *)
(***************************************************************************)
Node(type, first, last, kids) == [t |-> type, from |-> first, to |-> last, kids |-> kids]
Nil == Node("nil", 0, 0, << >>)
NilOf(hole) == Node(hole, 0, 0, << >>)
Holes == {"nil", "nil SExp", "nil If", "nil ImportGo", "nil SpecialOp", "nil DotSelector"}
IsHole(n) == n.t \in Holes
IsSymbol(n) == n.t \in Symbols

(* Calling Name through a nil *SpecialOp dereferences it; so does matching *)
(* the items of a nil *SExp.                                               *)
NamePanics(n) == n.t = "nil SpecialOp"
ItemPanics(n) ==
  \/ NamePanics(n) \/ n.t = "nil SExp"
  \/ n.t = "SExp" /\ \E i \in DOMAIN n.kids : i <= 2 /\ NamePanics(n.kids[i])

ImportName(n) == n.t = "string" \/ IsSymbol(n)
ImportItem(n) ==
  \/ ImportName(n)
  \/ n.t = "SExp" /\ Len(n.kids) >= 2 /\ IsSymbol(n.kids[1]) /\ ImportName(n.kids[2])

(* sexpMatch looks at an item for each pattern and at no other; an item    *)
(* that is missing fails any but pOpt.  pEq compares the item with itself. *)
sexpMatches(items, patterns) == Len(items) >= patterns

buildIf(items, n) ==
  IF ~sexpMatches(items, 3) \/ (items[1].t = "cond" /\ Len(items) > 3)
  THEN NilOf("nil If")
  ELSE Node("If", n.from, n.to, SubSeq(items, 2, IF Len(items) = 3 THEN 3 ELSE 4))

buildDotSelector(items, n) ==
  IF ~sexpMatches(items, 3) THEN NilOf("nil DotSelector") ELSE Node("DotSelector", n.from, n.to, SubSeq(items, 2, 3))

buildSpecialOperator(items, n) ==
  IF Len(items) < 2 \/ (items[1].t = "-" /\ Len(items) # 3)
  THEN NilOf("nil SpecialOp")
  ELSE Node("SpecialOp", n.from, n.to, Tail(items))

(* buildImportGo stops at the first item it does not accept, and panics if *)
(* that is one it cannot even name.                                        *)
Refused(items) == {i \in 2 .. Len(items) : ~ImportItem(items[i])}
ImportPanics(items) ==
  \E i \in Refused(items) : ItemPanics(items[i]) /\ \A j \in Refused(items) : i <= j
buildImportGo(items, n) ==
  IF Refused(items) # {} THEN NilOf("nil ImportGo") ELSE Node("ImportGo", n.from, n.to, Tail(items))

(* Another: to take "cond" for a function.                                 *)
BuildWithoutCond(n) ==  \* FormsAreBuilt
  IF n.kids = << >> THEN n
  ELSE IF n.kids[1].t = "if" THEN buildIf(n.kids, n)
  ELSE IF n.kids[1].t = "." THEN buildDotSelector(n.kids, n)
  ELSE IF n.kids[1].t \in Operators THEN buildSpecialOperator(n.kids, n)
  ELSE IF n.kids[1].t = "import-go" THEN buildImportGo(n.kids, n)
  ELSE n

(* parseApply: the form that the head selects, or the list itself.         *)
Build(n) ==
  IF n.kids = << >> THEN n
  ELSE IF n.kids[1].t \in {"if", "cond"} THEN buildIf(n.kids, n)
  ELSE IF n.kids[1].t = "." THEN buildDotSelector(n.kids, n)
  ELSE IF n.kids[1].t \in Operators THEN buildSpecialOperator(n.kids, n)
  ELSE IF n.kids[1].t = "import-go" THEN buildImportGo(n.kids, n)
  ELSE n

BuildPanics(n) == n.kids # << >> /\ n.kids[1].t = "import-go" /\ ImportPanics(n.kids)

(***************************************************************************)
(* New and Parse.                                                          *)
(***************************************************************************)
New(f) ==
  /\ feed = f
  /\ at = 1
  /\ errs = ErrorOf(cur) \cup ErrorOf(next)
  /\ stack = << >> /\ parsed = Nil /\ pkg = << >> /\ start = 0
  /\ pc = "parse"

Init == \E f \in Feeds : New(f)

Goto(label) == pc' = label

(***************************************************************************)
(* Mistakes that this code does not make: each is what one definition      *)
(* below would be with a plausible bug, and breaks the property it names.  *)
(***************************************************************************)
RefuseSilently(err) ==  \* Ends, and LinesAreAnswered of Repl
  /\ parsed' = Nil
  /\ Goto("return")
  /\ UNCHANGED <<feed, at, errs, stack, pkg, start>>

SexpAtEOFSilently ==  \* HolesAreErrors
  /\ pc = "sexp"
  /\ IsEOF(cur)
  /\ parsed' = NilOf("nil SExp")
  /\ stack' = Front(stack)
  /\ Goto("infix")
  /\ UNCHANGED <<feed, at, errs, pkg, start>>

SexpAtEOFUnexpected ==  \* IncompleteIsOpen
  /\ pc = "sexp"
  /\ IsEOF(cur)
  /\ errs' = errs \cup {"syntax"}
  /\ parsed' = NilOf("nil SExp")
  /\ stack' = Front(stack)
  /\ Goto("infix")
  /\ UNCHANGED <<feed, at, pkg, start>>

ReturnToSexpStays ==  \* EveryTokenOnce
  /\ pc = "return" /\ stack # << >>
  /\ stack[Len(stack)].call = "sexp"
  /\ stack' = [stack EXCEPT ![Len(stack)].items =
                 IF parsed = Nil THEN @ ELSE Append(@, parsed)]
  /\ Goto("sexp")
  /\ UNCHANGED <<feed, at, errs, parsed, pkg, start>>

ParseStops ==
  /\ pc = "parse"
  /\ errs # {} \/ IsEOF(cur)
  /\ Goto("done")
  /\ UNCHANGED <<feed, at, errs, stack, parsed, pkg, start>>

ParseItem ==
  /\ pc = "parse"
  /\ errs = {} /\ ~IsEOF(cur)
  /\ start' = at
  /\ Goto("node")
  /\ UNCHANGED <<feed, at, errs, stack, parsed, pkg>>

(***************************************************************************)
(* parseNode, parseLeft and what they call.                                *)
(***************************************************************************)
Refuse(err) ==
  /\ errs' = errs \cup {err}
  /\ parsed' = Nil
  /\ Goto("return")
  /\ UNCHANGED <<feed, at, stack, pkg, start>>

NodeAtEOF == pc = "node" /\ IsEOF(cur) /\ Refuse("unexpected EOF")

NodeRefused == pc = "node" /\ cur \in {")", "bad int", "comment", "nil"} /\ Refuse("syntax")

NodeLeaf ==
  /\ pc = "node"
  /\ cur \in Leaves
  /\ parsed' = Node(cur, at, at, << >>)
  /\ Goto("infix")
  /\ UNCHANGED <<feed, at, errs, stack, pkg, start>>

NodeList ==
  /\ pc = "node"
  /\ cur = "("
  /\ stack' = Append(stack, [call |-> "sexp", from |-> at, items |-> << >>])
  /\ nextTok(1)
  /\ Goto("sexp")
  /\ UNCHANGED <<feed, parsed, pkg, start>>

(* The loop over infix operators: it looks at next.Kind, and next may be a *)
(* nil token.  An operator may have returned nil; the loop goes on all the *)
(* same.                                                                   *)
InfixPanics ==
  /\ pc = "infix"
  /\ next = "nil"
  /\ Goto("panicked")
  /\ UNCHANGED <<feed, at, errs, stack, parsed, pkg, start>>

InfixNone ==
  /\ pc = "infix"
  /\ next \notin {"nil", "."}
  /\ Goto("return")
  /\ UNCHANGED <<feed, at, errs, stack, parsed, pkg, start>>

parseDotSelector ==
  /\ pc = "infix"
  /\ next = "."
  /\ stack' = Append(stack, [call |-> "dot", from |-> parsed.from, items |-> <<parsed>>])
  /\ nextTok(2)
  /\ Goto("node")
  /\ UNCHANGED <<feed, parsed, pkg, start>>

(***************************************************************************)
(* parseSexp.                                                              *)
(***************************************************************************)
Top == stack[Len(stack)]

SexpItem ==
  /\ pc = "sexp"
  /\ cur # ")" /\ ~IsEOF(cur)
  /\ Goto("node")
  /\ UNCHANGED <<feed, at, errs, stack, parsed, pkg, start>>

SexpEnd ==
  /\ pc = "sexp"
  /\ cur = ")"
  /\ LET list == Node("SExp", Top.from, at, Top.items) IN
     /\ parsed' = Build(list)
     /\ errs' = IF IsHole(Build(list)) THEN errs \cup {"syntax"} ELSE errs
     /\ Goto(IF BuildPanics(list) THEN "panicked" ELSE "infix")
  /\ stack' = Front(stack)
  /\ UNCHANGED <<feed, at, pkg, start>>

SexpAtEOF ==
  /\ pc = "sexp"
  /\ IsEOF(cur)
  /\ errs' = errs \cup {"unexpected EOF"}
  /\ parsed' = NilOf("nil SExp")
  /\ stack' = Front(stack)
  /\ Goto("infix")
  /\ UNCHANGED <<feed, at, pkg, start>>

(***************************************************************************)
(* The return of a parseNode to its caller.                                *)
(***************************************************************************)
ReturnNothing ==
  /\ pc = "return" /\ stack = << >>
  /\ parsed = Nil
  /\ Goto("parse")
  /\ UNCHANGED <<feed, at, errs, stack, parsed, pkg, start>>

ReturnToParse ==
  /\ pc = "return" /\ stack = << >>
  /\ parsed # Nil
  /\ pkg' = Append(pkg, parsed)
  /\ nextTok(1)
  /\ Goto("parse")
  /\ UNCHANGED <<feed, stack, parsed, start>>

ReturnToSexp ==
  /\ pc = "return" /\ stack # << >> /\ Top.call = "sexp"
  /\ stack' = [stack EXCEPT ![Len(stack)].items =
                 IF parsed = Nil THEN @ ELSE Append(@, parsed)]
  /\ nextTok(1)
  /\ Goto("sexp")
  /\ UNCHANGED <<feed, parsed, pkg, start>>

ReturnToDot ==
  /\ pc = "return" /\ stack # << >> /\ Top.call = "dot"
  /\ parsed' = IF parsed = Nil THEN Nil
               ELSE Node("DotSelector", Top.from, parsed.to, Append(Top.items, parsed))
  /\ stack' = Front(stack)
  /\ Goto("infix")
  /\ UNCHANGED <<feed, at, errs, pkg, start>>

Next ==
  \/ ParseStops \/ ParseItem
  \/ NodeAtEOF \/ NodeRefused \/ NodeLeaf \/ NodeList
  \/ InfixPanics \/ InfixNone \/ parseDotSelector
  \/ SexpItem \/ SexpEnd \/ SexpAtEOF
  \/ ReturnNothing \/ ReturnToParse \/ ReturnToSexp \/ ReturnToDot

Spec == Init /\ [][Next]_vars

(* One goroutine, which runs.                                              *)
FairSpec == Spec /\ WF_vars(Next)

(***************************************************************************)
(* Properties.                                                             *)
(***************************************************************************)
(* A node that could not be built is never silent.  Parse loops until an   *)
(* error is recorded, and its caller looks at the error only, so a nil --  *)
(* plain or hidden in an interface, here or inside a list or a selector -- *)
(* must have left one.                                                     *)
Built(n) == ~IsHole(n) /\ \A i \in DOMAIN n.kids : ~IsHole(n.kids[i])

HolesAreErrors ==
  errs = {} =>
    /\ pc \in {"infix", "return"} => Built(parsed)
    /\ \A i \in DOMAIN pkg : Built(pkg[i])
    /\ \A i \in DOMAIN stack : \A j \in DOMAIN stack[i].items : Built(stack[i].items[j])

(* While no error is recorded the tree accounts for the tokens read: the   *)
(* nodes of the package, then those of every open list, follow one another *)
(* without gap or overlap up to the current token.                         *)
Run(nodes, first) ==  \* the token after nodes that follow one another from `first'
  IF /\ nodes # << >>
     /\ nodes[1].from = first
     /\ \A i \in 1 .. Len(nodes) - 1 : nodes[i + 1].from = nodes[i].to + 1
  THEN nodes[Len(nodes)].to + 1
  ELSE IF nodes = << >> THEN first ELSE 0

Begins(f) ==  \* where the call of frame f begins its work
  IF f.call = "sexp" THEN f.from + 1 ELSE f.from
Reaches(f) ==  \* the token that it has come to
  Run(f.items, Begins(f)) + (IF f.call = "dot" THEN 1 ELSE 0)

EveryTokenOnce ==
  errs = {} /\ pc # "panicked" =>
    /\ \A i \in DOMAIN stack :
         stack[i].from = IF i = 1 THEN Run(pkg, 1) ELSE Reaches(stack[i - 1])
    /\ LET here == IF stack = << >> THEN Run(pkg, 1) ELSE Reaches(Top) IN
       IF pc \in {"infix", "return"} THEN parsed.from = here /\ parsed.to = at
                                     ELSE here = at

(* A list whose head names a special form is never left a plain list, for  *)
(* the evaluator would look the name up instead; and a form that was built *)
(* has the operands the evaluator takes without looking.                   *)
Arity(n) ==
  /\ n.t = "SExp" => n.kids = << >> \/ n.kids[1].t \notin isSpecial
  /\ n.t = "If" => Len(n.kids) \in {2, 3}
  /\ n.t = "DotSelector" => Len(n.kids) = 2
  /\ n.t = "SpecialOp" => Len(n.kids) >= 1

FormsAreBuilt ==
  /\ \A i \in DOMAIN pkg : Arity(pkg[i])
  /\ \A i \in DOMAIN stack : \A j \in DOMAIN stack[i].items : Arity(stack[i].items[j])

(* What the REPL goes by: when the last item is a list that the text does  *)
(* not close, the errors say that the input ended too early; and they say  *)
(* so only if some list is not closed or a point has nothing to select.    *)
Count(tok, i, j) == Cardinality({k \in i .. j : Answer(k) = tok})
NeverClosed(i) ==
  feed[i] = "(" /\ \A j \in i .. Len(feed) : Count("(", i, j) > Count(")", i, j)
Clean == \A i \in DOMAIN feed : feed[i] \in Tokens \ (DOMAIN LexicalError \cup {"nil"})

IncompleteIsOpen ==
  pc = "done" /\ Clean /\ start \in DOMAIN feed =>
    /\ NeverClosed(start) => "unexpected EOF" \in errs
    /\ "unexpected EOF" \in errs =>
         \E i \in start .. Len(feed) :
           NeverClosed(i) \/ (feed[i] = "." /\ Answer(i + 1) \in {")", "EOF"})

(* Parsing ends, whatever the lexer answers.                               *)
Ends == <>(pc \in {"done", "panicked"})

(* The parser takes a missing token for an error ("no next token",         *)
(* parser.go:260, "no current token", parser.go:237): it does not panic.   *)
MissingTokenIsError == pc = "panicked" => next # "nil"

(* An import-go holds what its declaration says it holds: "string | symbol *)
(* | (symbol string)" (language/ast/special.go:9).                         *)
ImportGoItems(n) ==
  n.t = "ImportGo" =>
    \A i \in DOMAIN n.kids :
      \/ ImportName(n.kids[i])
      \/ LET kids == n.kids[i].kids IN
         Len(kids) = 2 /\ IsSymbol(kids[1]) /\ kids[2].t = "string"

ImportsAsDeclared == \A i \in DOMAIN pkg : ImportGoItems(pkg[i])
=============================================================================
