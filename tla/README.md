# A verification project for sulisp

sulisp is a small Lisp in Go: a scanner and a lexer over a rune reader, a
recursive-descent parser, a tree-walking evaluator, a REPL that ties them
together, and a library of collections of which one, the channel, is shared
between goroutines. This directory holds TLA+ models of that code, what TLC
checks of them, and what the TLA+ proof system proves of them for every value
of the constants.

Paths below are relative to the repository's root.

## The system

| component | state | operations | with whom |
|---|---|---|---|
| `std/core/chan.go` Chan | a Go channel, an atomic flag `closed`, an atomic cell `value` | Push, Next, First, Close, Empty, Len | any number of goroutines, no lock |
| `lexer/scanner` Scanner | two runes, the errors of the reads, line and column | New, Scan, Peek, Current, Err, Pos | reads an `io.RuneReader`, is driven by the lexer |
| `lexer` Lexer | its scanner | Next | gives tokens, nil or errors to the parser |
| `parser` Parser | two tokens, the errors, the Go call stack | New, Parse | pulls tokens, gives a package of nodes or errors |
| `repl` Run | a byte buffer of pending lines, one environment | the loop | makes a lexer and a parser for each line, calls the evaluator |
| `interpreter/astwalk` Eval | environments: a chain of name tables | Eval, the builtins, Infer | walks the nodes, gives an object |
| `std/core` list, map, values | persistent list; Go map and a sequence over it | Conj, Next, Put, Remove, Seq ... | used by nothing else in the tree |
| `language/ast`, `language/object`, `language/tokens` | values | Equal, Clone, Inspect, Compare | used by all of the above |
| `internal/*`, `ast`, `language/language.go`, `compiler` | | helpers; older code that nothing uses | |

Where it is hard:

* *Interleaving*: every method of Chan is several atomic steps with nothing
  that holds them together. What the sequence promises must survive any mix of
  producers, consumers and closers, and panics of some of them.
* *One-rune and one-token look-ahead*: scanner and parser run one item ahead of
  the cursor; the boundary cases are inputs of no, one and two runes, runes 0 in
  the text, failing readers, tokens at the very end.
* *Errors that must not be lost*: the lexer signals by token kind, by nil and by
  error; the parser keeps going after errors and after nil nodes, some of them
  typed nils; the REPL decides what to do from `errors.Is` on what is left.
* *Loops that only an error ends*: Parse, readString, the REPL's own.
* *Sharing*: lists share their tails, the sequence of a map looks at the live map,
  the clone of an import-go shares its array with the original. Each is right only
  as long as nobody writes where someone else looks.
* *State over many lines*: the REPL's buffer is lexed and parsed again with each
  line, and must be what was typed since the last answer.

## The modules

| module | models | built on |
|---|---|---|
| `ClosableQueue` | what a sequence over a channel promises (abstract) | |
| `Chan` | `std/core/chan.go` | implements `ClosableQueue` |
| `ChanProofs` | theorems on `Chan` | `Chan`, TLAPS |
| `Scanner` | `lexer/scanner/scanner.go` | |
| `Lexer` | `lexer/lexer.go` | EXTENDS `Scanner` |
| `Parser` | `parser/*.go` | |
| `Repl` | `repl/repl.go` and the composition | INSTANCE `Lexer`, INSTANCE `Parser` |
| `DataLemmas` | lemmas on numbers, sequences, counts and trees, of no component in particular | TLAPS |
| `LexerProofs` | theorems on `Scanner` and on `Lexer` | `Lexer`, `DataLemmas` |
| `ParserProofs` | theorems on `Parser` | `Parser`, `DataLemmas` |
| `ReplProofs` | theorems on `Repl` and on the composition | `Repl`, `DataLemmas`, INSTANCE `LexerProofs`, INSTANCE `ParserProofs` |
| `Infer` | syntax trees and `interpreter/astwalk/typed.go` | |
| `Eval` | `interpreter/astwalk/astwalk.go`, `language/object/env.go` | EXTENDS `Infer` |
| `Inspect` | which values `language/object/object.go` goes into to show one | EXTENDS `Eval` |
| `EvalProofs` | theorems on `Infer`, `Eval` and `Inspect` | `Inspect`, `DataLemmas` |
| `PersistentList` | `std/core/list.go` | |
| `HashMap` | `std/core/map.go`, Eq and Contains of `std/core/operations.go` | EXTENDS `PersistentList` |
| `HashMapProofs` | theorems on both | `HashMap`, TLAPS |
| `Ast` | Clone and Equal of `language/ast/*.go` | |
| `AstProofs` | theorems on `Ast` | `Ast`, `DataLemmas` |
| `MCChan`, `MCScanner`, `MCLexer`, `MCParser`, `MCRepl`, `MCEval`, `MCHashMap`, `MCAst` | the instances TLC checks | |

Each module has a section of *mistakes*: variants of its own definitions, each
with one plausible bug. They are no part of the specification. `PROJECT.json`
pairs each with the definition it replaces and the property that then fails, so
that no property here is one that the code could not break.

### Chan

A goroutine has a program counter; an action is one atomic step of a method: a
load of `closed` together with the branch it decides, the receive, the store of
the cell, the store of the flag, `close`. `pc` names the step that comes next:
"send" and "recv" are blocked channel operations, "store", "mark", "load" and
"close" the atomic operations of Next, First and Close. Go's own rules for
channels are part of the actions: a send waits for room or, on a channel
without a buffer, for a receiver (`Rendezvous`); it panics on a closed channel,
even when it was blocked before; a receive drains the buffer before it reports
the closing; a second close panics. `atomic.Value` panics on an element of
another dynamic type (`StorePanics`), which is possible as `E` may be an
interface type. A panic stops its goroutine and leaves the rest as it is.
`sent` and `taken` are history variables. Len, String and GoString only read.

What it shows. `Conservation` says that what Push accepted is what Next received
followed by what waits. `QueueSpec` says that the whole is a queue that goes
from open to closing to closed (`ClosableQueue`), with the refinement mapping
`phase`. Two limits of the code are visible and stated rather than hidden:
elements left in the buffer after Close are delivered only to goroutines that
were already past the check of the flag (`Wait` of the queue), and with two consumers
First may show the other's element (`FirstIsLatest` is about one consumer).
An element whose Store panics was received and is lost to its consumer.

### Scanner and Lexer

The reader is a sequence of answers, each a rune or a failure; beyond it the
answer is io.EOF. The actions of Scanner are the three ways out of Scan, those of
Lexer one iteration of a loop each, with the call of Scan in it. `seen` is the
history of runes under the cursor, and a token is a stretch `from`..`to` of it:
so "what was this token read from" can be compared with a declarative
description of its lexemes (`Lexeme`), which does not mention the loops. A rune
is itself, but that one stands for all spaces other than a newline; `Digits` are
those of unicode.Digit, `Odd` runes such as a vulgar fraction that start a symbol
but do not continue one. TLC is given one rune for all that the lexer treats alike.

Facts worth knowing that the properties had to be careful about: the error of
New is sticky, so a text of one rune fails with io.EOF; a rune 0 that comes
first is EOF to the lexer, which then goes on with the rest; the first rune is
not counted in positions; an atom that touches the end of input is dropped and
answered by nil.

### Parser

`stack` holds the open calls of parseSexp and parseDotSelector, each waiting for
a parseNode; `pc` is the loop that goes on. A node records which tokens it was
made from, so that `EveryTokenOnce` can say that the tree accounts for all
tokens without gap or overlap. Typed nils are nodes of type "nil SExp" and so
on, which the code does not recognise as nil. `Feeds` are the answers of a
lexer; `LexerAnswers` is the contract, an assumption on the constant here, and
checked and proved of the real lexer in `Repl` (`FeedIsWellFormed`).

### Repl

The composition. A line is appended to the buffer, Lexer runs over all of it,
Parser over the answers, and the outcome decides between waiting, an error and
evaluation. The code interleaves lexer and parser one token at a time, but the
parser never influences the lexer, so here the lexer runs first. `TokenClass` is
what the parser makes of a token: the heads of special forms and the Booleans are
told from other symbols by their text (`*` is classed with `+`, and `/` with `-`, which
the parser treats alike); a number is a literal if strconv takes its text, and an
error if not. `ParseInt` and `ParseFloat`, the sets of the texts it takes, are constants
of which nothing is assumed: hexadecimal numbers, underscores and what is too large
for 64 bits are theirs to decide. TLC is given lines with `1`, `0x1b` and `1.1`, which
are taken, and with `1+` and `1_`, which are not.
Evaluation is an answer or a panic: Eval takes the first item of every list it
comes to (so an empty list that is evaluated panics; whether one in the middle
of a text is reached is left open), and a package without nodes evaluates to nil,
which Run inspects. Signals change no state.

### Eval and Infer

Eval and the builtins call one another, and share the environments they write to
while their arguments are being evaluated. The model is a stack machine: a frame
is a Go call that waits for an Eval (apply for its head; assign, array, `>`, `+`,
`*` for an argument; if for its condition; an array for its index), and an action
is what happens between two calls of Eval. `envs` holds all environments ever
made, each with its parent; `env` and a frame's `env` are the arguments of that
name in Go. Integers are int64 reduced to `Modulus`, so that they wrap. A float is its
place in the order of cmp.Compare; the sum and the product of two, and the
conversion of an integer, which round, are the constants `FloatSum`, `FloatProduct` and
`FloatOf`. Of these it is assumed that the first two commute, and that 0.0 and 1.0 are
their units (`FloatsAssumption`), as IEEE 754 has it; not that they associate, which
they do not. Errors have no text. A package
evaluated after another meets the environment that one left, as in the REPL.

What it shows. `ScopesNest`: an expression inside nested namespaces is evaluated
in the innermost one that is being made, and that one's parent is the scope the
builtin was called in. `OnlyInnermostIsBound`: nothing else is ever written, one
name at a time, nothing is unbound, and a finished namespace never changes.
`OrderDoesNotMatter` permutes the operands of every sum and product that
succeeds: the kind of the result is the same in any order, and so is its value if all
operands are integers, or if there are two. Of more with a float among them the order
may show: each step rounds, so that `(+ 9007199254740992 1 1 0.0)` is less by two than
`(+ 1 1 9007199254740992 0.0)`. `GreaterIsAll`: `>` compares neighbours, yet its answer is that each
operand exceeds all later ones. `InspectEnds`: whatever is bound where, no namespace
is shown inside itself, also through arrays and other namespaces, so that Inspect
comes to an end on every value; it holds because a namespace becomes a value only
when it is finished, and finished ones are not written.
`guess` keeps what `Infer` says of a node before it is evaluated:
`InferHoldsForBuiltins` says that it holds of the result, for trees in which
builtins are applied by name and nothing is rebound while they are evaluated. Not
in general (`eval_infer`): an application of an array or a namespace is given the
head's type, a bare builtin the type of its result, and `assign` inside a tree
can change the type of a name that was looked up already.

What the code does and the model shows without anyone saying otherwise: assign
stores an error as a value, which is raised when the name is used; it leaves the
names bound that precede a failing argument; `(> true false)` is an error while
`(> false true)` is false, for Compare orders booleans in one direction only.

### PersistentList and HashMap

A heap of cells, an address being an index into it, and the lists as addresses of
cells or 0 for nil. `made` and `path` remember of what and of which cells each
list was made; `ListsPersist` compares them with the heap for every list at every
moment, so that a write to a cell another list goes through would be seen.

A Go map is a function from the keys it has, or `NilMap`; Put on the latter panics.
`zero` is the zero value of the type of its values: an ordinary value, or nil if the
type is an interface. Go visits keys in any order (`Orders`). The sequence is the
pair of the snapshot `rest` and the live map; a loop walks it as seqContains does,
Empty, First, the body, Next, while the map is put to, removed from and cleared in
between. `kept`, `shown` and `again` are the loop's history. `SurvivorsOnce`: when
the sequence says it is empty, every key that has been in the map since Seq was
shown, and none of them twice. A key that was removed may be shown all the same,
with the zero value, and one that was removed and put back once more; a key put in
later is never shown. `ContainsAgrees`: at any moment of the walk, hashmapSeq's own
Contains and the loop of seqContains, which the other replaces, answer the same, but
in three cases the property names, all at a key that is yet to come:

* a pair without a value is found by the loop alone, for Eq of lists takes a list for
  equal to what it begins;
* a nil that is looked for at a key that was removed makes the loop alone panic;
* Contains calls `Eq[V]`, which uses the Eq method of V if it has one, and the loop
  comes, through Eq of lists, to `Eq[Value]`, which is == or reflect.DeepEqual, as no
  type has an Eq of Values. The two equalities are the constants `OwnEq` and `AnyEq`,
  of which nothing is assumed. Lists are the same to the first if their values are
  and to the second if they are one list; a nil HashMap is not equal to an empty one
  but, by the first, the empty one is to the nil. TLC is given the latter.

Nothing in the code locks a map, and nothing says it is safe for several
goroutines; one goroutine runs here, and the interleaving is that of a loop with its
body.

### Ast

A tree is a record of a kind, a value and children. `Trees` are the trees that are
cloned and compared, and `Memory` says how each lies in memory before Clone is called:
nodes and arrays of children are heaps, a pointer is an index, and `MemoryAssumption`
says that the tree one finds by following the pointers (`TreeIn`, at most `MaxDepth`
deep) is that tree. Parts may be shared; TLC puts every node in a place of its own. A
copied struct has its fields copied, and a copied slice header still refers to the same
array, which is what ImportGo.Clone does. Clone is a stack machine with a frame for each
composite whose children are being cloned; nil interfaces and typed nils of leaves and
of composites are children like any other, and the last kind panics. `OriginalStands`
is checked in every state, also after a panic half way: an import-go's array is half
clones by then, but still the same tree. `CloneIsDeep` says that the clone is the same
tree, and that the nodes that are its own (reached from it, `Own`, but not through an
import-go) are none of those reached from the original (`Whole`), nor their arrays.
`EqualIsSame` compares every pair of trees of the instance without holes.

## The runs

| run | question | bounds |
|---|---|---|
| `chan_safety` | safety and refinement under all interleavings | see `Chan_safety.cfg` |
| `chan_live` | liveness, with one consumer for `FirstIsLatest` | see `Chan_live.cfg` |
| `scanner_failure` | is everything before a failure delivered? *No* | readers of up to 3 answers over a letter, a newline, rune 0, failure |
| `lexer` | safety of Scanner and Lexer; is the end reached? | texts of up to 4 runes over 16 classes and failure; strings of up to 7 runes |
| `parser` | safety; does Parse end? | feeds of up to 4 answers of all 21 classes, up to 2 arbitrary answers inside lists, `if`, `cond`, operators, import-go |
| `parser_missing` | is a missing token an error? *No, a panic* | length 2 |
| `parser_import` | does import-go hold what it declares? *No* | length 2 |
| `repl` | the composition | every sequence of 3 lines out of 29, with every special head and numerals of each kind |
| `hashmap` | lists and a map under a loop over it | 2 keys, 2 values, 3 cells, 3 lists, any number of operations |
| `ast` | Clone and Equal | `MaxDepth` 3: every composite of up to 2 children over leaves and holes; composites of composites |
| `eval` | safety, the laws of arithmetic and comparison, inference, termination | two packages out of some 300, integers of 3 bits, floats of a 2-bit significand with infinities and NaN |
| `eval_infer` | does the inferred type hold of what evaluation gives? *Not of an indexed array* | one package |

Why the bounds are enough: the channel's interesting cases need two producers or
consumers against a closer and a buffer of none, one or two; scanner and lexer
decide on two runes at a time, so that all pairs in all contexts occur within
four; the parser decides on two tokens and one frame, and the builders look at
no more than four items. Three lines open, continue and close a text, and then
meet what was left. A package of Eval is one tree or a binding followed by a use;
two of them bind, rebind and use names of every kind of value, and trees nest
bindings three deep; 3-bit integers wrap with two operands, and small floats round: of three
operands in another order the value does come out differently there. Three cells and lists make a list, one that
shares its tail, and a third that shares with both; a walk over two keys meets every
order of removing, putting back and clearing, and the theorems take over from there.
Clone treats one child like the next, so trees two deep meet every kind of child in
every kind of composite. `MaxSent`, `MaxCalls`, `MaxLines`, `MaxLength`, `MaxString` and
`MaxInside`, `MaxPackages`, `MaxCells`, `MaxLists`, `MaxItems`, `MaxDepth` and `Modulus` are
the only bounds. `MaxCalls` in Repl exceeds the tokens any buffer there has. `MaxDepth` is how
deep a tree in memory is followed in `Ast`, where no tree of the instance is deeper, and how
deep an array is looked into for namespaces in `Inspect`. `Depth`, of the trees of `Infer`
and of `Ast`, is no bound: any number that is smaller for the parts of a tree than for the
tree (`DepthAssumption`) serves the inductions of the proofs.

`CHECK_DEADLOCK FALSE` stands where the program really stops: at the end of the
input, of parsing, or when all goroutines are blocked, panicked or done.

Fairness. In Chan, weak fairness of each goroutine's own next step: the Go
scheduler runs whoever can run; nothing is assumed about a goroutine beginning a
call. In the sequential parts, weak fairness of the next step: one goroutine that
runs. Typing a line is never fair.

### What disagrees with the repository's own words

* `scanner_failure`: when a read fails, Scan overwrites the rune it has just
  moved to; the test of failing readers has an input of one rune, where this
  does not show.
* `parser_missing`: `1 a` without a newline panics in parseNode on a nil token,
  which the parser's other checks treat as an error.
* `parser_import`: a pair in import-go may be `(symbol symbol)`, and may have more
  items than two, where its declaration says `(symbol string)`.
* `eval_infer`: Infer, which "infers the type of an AST node", says array of
  `((array 1 2 3) 2)`, which a test evaluates to 3.

Other behaviour that the models show and nothing in the repository contradicts:
three empty lines end the REPL (Eval of an empty package is nil); a text of one
rune needs a second Enter; a malformed string inside an open list keeps the buffer
pending for good, as the parser takes the lexer's EOF token for the end
(`PendingIsUnfinished` names this exception); `if` drops its operands
after the fourth item; a nil map does not equal an empty one, which equals a nil one;
a keyword equals a missing node, and an `if` without else any `if` with the same
condition and branch; Symbol.UnmarshalText refuses what isIdent accepts.

## The proofs

`ChanProofs` proves, for any sets of goroutines, any elements, sizes, preloads
and bound:

* `Typing`: the type invariant, inductive as it stands.
* `NothingLost`: `Conservation`. The step that needs care is `Rendezvous`, where
  an element is sent and taken at once: it needs that a channel without a buffer
  has an empty one, which the second conjunct gives.
* `FlagBeforeClose`: the flag is up before the channel is closed (`CloseOrder`), which
  holds in every interleaving and carries the refinement; it needs the strengthening that whoever is about to
  close the channel, or to mark it, has set the flag or seen the channel closed.
* `NilOnlyWhenClosed`, `NobodyJoinsHolds`: from the guards and the fact that the
  flag is never lowered.
* `FirstInventsNothing`: needs that what is about to be stored was received.
* `FirstShowsLatest`: `FirstIsLatest`, for one consumer. Between its receive and its
  Store nobody else receives; a consumer about to store holds the element last taken,
  and in every other step the cell holds it already.
* `ImplementsQueue`: `Spec => Queue!Spec`, by a case for each action: it maps to an
  action of the queue or to a stutter. It rests on `CloseOrder`.

`LexerProofs` proves of Scanner `Typing`, `ScansInOrder`, `ScansAll` and `CountsPosition`, for
any readers. The inductive invariant relates `seen`, `read` and the two runes in each of
the cases *before the end*, *at the end* and *failed*. The position is the size of two
sets of places in what was passed, and one more rune changes each set by the last
place only (`AppendCounts`).

It proves of Lexer, for any readers, alphabets and number of calls:

* `IsScanner`: every step of the lexer is a Scan or leaves the scanner alone, so that
  what is proved of Scanner holds inside Lexer (`LexesInOrder`, `LexesAll`,
  `LexesCount`).
* `ReadsOnce`: `EveryRuneOnce`. The inductive invariant has, beside the types, three
  parts. `Reading`: a reader that has not moved yet stands on a rune it will take, the
  reason why a token has at least one; `Tile`: each answer lies within what was seen
  and begins where the one before ended, separators apart; `Place`: where the cursor
  is relative to the last answer. `StepCases` sorts the seventeen steps into four
  shapes, so that the invariant is shown for each shape once.
* `NeverPassedOff`: `FailureIsReported`, from the shape `Returns`: a call that gives up
  passes on all the errors of the scanner.
* `EndStays`: `EndIsFinal` needs `NothingFollows`, that an error or a cursor at EOF means
  that the look-ahead is empty; both conditions on the text's first rune are needed
  for it.

* `LexemesAreWhole`: `TokensAreLexemes`. What each loop knows of the runes it has read
  since it began (`Lexing`) becomes, at its return, the grammar's own description of the
  lexeme (`AllRead`). Strings need most: which backslashes escape is a statement on
  places counted from the opening quote, and one more rune does not change what was
  escaped before it (`StringGrows`). `EndIsSeen` ties the end to what was seen.
* `StringErrorsHold`: `StringErrorsAreReal`, from the same invariant: where a string gives
  up, what it had read is open, and the reason is in the text.
* `CallsBegin`, `CallsGoOn`, `CallsStay`: the same invariant with what a *caller* can know
  of the answers of a text without failures (`Told`): which errors come together, and
  by `AnswersFollow` in which order. That is the lexer's side of the contract below.

`ParserProofs` proves, for feeds of any length and stacks of any depth:

* `HolesLeaveErrors` (`HolesAreErrors`) and `FormsAreAlwaysBuilt` (`FormsAreBuilt`), together:
  `TreeIsSound` says of every node that anybody holds that it has the operands of its
  form and, without errors, no hole in it or right below it.
* `EveryTokenIsThereOnce`: `EveryTokenOnce` needs `NoGap`, that the runs are runs: a node
  that does not follow the one before makes `Run` 0, which no later node can mend.
* `IncompleteMeansOpen`: `IncompleteIsOpen` compares the stack of open calls, which the
  code has, with a count of parentheses, which it never makes. `Balanced`: while nothing
  was said of the end and no point dangles, the lists on the stack are as many as the
  parentheses that are open, from the beginning of the last item and from the beginning of
  each open list; `Held`: the list that began there is still on the stack while it is
  open in the text. `Place` says where the parser may be.
* `TakesWholeText`, `ParseBegins`, `ParseGoesOn`: for the composition. When parsing ends
  without an error, no answer that carries one was looked at, so it came to the very end
  (`Taken`); an error that says "too early" has a reason in the text (`WhyEarly`).

The first three hold whatever the lexer answers; from `Place` on the proofs use
`LexerAnswers`.

`ReplProofs` proves, for any lines and any number of them:

* `PendingIsTyped`: `PendingText`. The buffer and the history of lines are compared through
  `FlattenSeq`, whose recursion is unfolded once, by induction on the number of lines
  (`JoinedMore`).
* `ParserGetsAnswers`: `FeedIsWellFormed`. This discharges for the real lexer, on any text a
  user can type, the assumption under which the parser is modelled and proved
  (`FeedsAssumption`): the token classes are looked up case by case (`ClassIs`), whatever
  numerals strconv takes, and
  `LexerProofs!AnswersFollow` gives their order (`FeedIs`).
* `WaitsForAReason`: `PendingIsUnfinished`, and `EvaluatesWholes`: `WholeText`. The invariant
  `Pipeline` puts the invariants of the lexer and of the parser side by side: one of them
  goes on while the other stands still, and both begin anew with each line, on the buffer
  as it is. So what each was proved to do alone, it does here. The lemmas `SameLexer`,
  `SameParser` and so on only say that the operators of one module, instantiated
  twice, are the same.

`EvalProofs` proves, for any trees, any packages and integers of any width:

* `EveryScopeNests`: `ScopesNest`. `ScopeIn` is computed frame by frame; pushing, popping and
  replacing a frame each keep the nesting (`PushNests`, `PopNests`, `ReplaceNests`), and
  environments only grow, with parents that never change.
* `BindsInInnermostOnly`: `OnlyInnermostIsBound`: of all actions only two change an
  environment, and the one that binds does so in that of the innermost frame.
* `ValuesAlwaysHold`: the invariant that the next two need. There is a set of values, closed
  under taking the elements of an array and whose namespaces exist, in which everything lies
  that is bound, returned or collected by a frame; parents are older environments, so that
  LookUp comes to an end; and a frame has the arguments it still needs, so that no step takes
  an argument that is not there. That > has collected operands of one kind is part of it. So
  is what became of the namespaces: a set of *finished* ones, none of which is being made,
  and a namespace that is a value is one of them.
* `InspectAlwaysEnds`: `InspectEnds`, for arrays in arrays to any depth. A namespace can be
  shown only by names bound after it was finished, and the finished ones are written no
  more. The invariant is a set of namespaces closed under showing, with the property that
  each of its subsets that is not empty has a member that shows no other of them; a
  namespace that is finished now shows only such as were finished before, so it may join.
* `OperandsCommute`: `OrderDoesNotMatter`, for any number of operands. An int64 that is
  reduced after each step is as good as one reduced at the end (`WrapAgain`, from
  `RemainderIs`), so two operands change places; that all of them can is `AnyOrder` of
  `DataLemmas`, used in `IntegersInAnyOrder`. With floats nothing but `FloatsAssumption` is
  used: two of them may be exchanged (`TwoFloats`), and of more only the kind is claimed.
* `GreaterIsOfAll`: `GreaterIsAll`, by induction on the distance of two operands.
* `InferenceHoldsForBuiltins`: `InferHoldsForBuiltins`, for trees of any depth, by way of
  `SoundAlwaysHolds`. What `Infer` says of a tree is defined by what it says of its parts;
  `TreeFunction` of `DataLemmas` shows that such a function exists, with one value for each
  tree. So the invariant can speak of a table `I` of the types of all trees (`Explains`), the
  set `P` of plain ones, and a list `D` of *demands*: what the caller of each frame relies on,
  a value of some type, or a builtin that gives one. Each call of Eval meets the demand of
  its frame or raises an error, frame by frame (`Waits`), sums and products by what was
  collected and what is still to come (`Sums`). Nothing is demanded inside a namespace, and
  the global names stay what they were while a plain tree is evaluated.

`DataLemmas` has what these need and the library states with an operator as a parameter:
induction over numbers in the form "a set of numbers that has 0 and is closed under
successor", from the well-foundedness of <; what sequence operators do to a sequence of
whatever elements; `Tally`, how many numbers of an interval are in a set; division; and folds
of a function that lets two values change places: there is a function that gives each set of
places its total (`SetFoldExists`), and every order of folding ends with that of the whole set
(`AnyOrder`). The recursive function of `Total` in Eval is a fold of this kind
(`TotalIsFold`), which exists for any function (`FoldExists`). For trees, which have a depth, there is `TreeInduction`, and `TreeFunction`:
a rule that gives a tree a value by those of its parts has a solution.

`HashMapProofs` proves for any keys, values, elements and bounds:

* `WalksOnce`: `SurvivorsOnce`. The invariant says that the snapshot holds each key
  once, that a survivor is either in it or shown, and that none but its head is both.
* `MembershipAgrees`: `ContainsAgrees`, for any two equalities, needs only that no key
  occurs twice in the snapshot, which is what makes the entry of the pair's key the
  only one that can decide (`LoopAnswer`).
* `Persistence`: `ListsPersist`. Cells are only ever added, linked to older ones; the
  chain of each list is within the heap there was when it was made.

`AstProofs` proves, for any trees, however they lie in memory, shared parts included:

* `OriginalAlwaysStands`: `OriginalStands`. The invariant `Copies` says that there is a table
  `N` that gives each node, of the original or new, the node of the original that it is a
  copy of. A slot of a node holds a *finished* copy of what the same slot of its source
  held, or some frame has still to fill it (`Pending`); nobody but its frame knows a clone that
  is not finished. Where Clone writes into the array of the original, it puts a finished copy
  in the place of what it is a copy of. Two memories related like this contain the same tree to
  every depth (`CopiesAreAlike`, by induction on the depth that is followed).
* `CloneIsAlwaysDeep`: `CloneIsDeep`. That the result is the same tree follows from `Copies`.
  That it shares nothing needs a second invariant, `Sides`: there is a set of nodes that are the
  original's, those it had and the clones that were put below an import-go; what is below
  one of them, or below a clone of an import-go, is one of them; any other clone is linked to
  one of them only in a slot that is still to be filled; and no array belongs to both sides.
  When the stack is empty, nothing is left to be filled.
* `EqualIsAlwaysSame`: `EqualIsSame`. Equal is shown to be a solution of its rule (`EqualIs`, a
  function from trees to functions from trees), and `EqualTellsApart` is an induction over
  the first of the two trees, with a case for each way in which the node types compare.

The assumptions are those the modules name (`ValueAssumption`, `RuneAssumption`,
`ClassAssumption`, `KeyAssumption`, `ModulusAssumption`: the integers are an even number and at least 4,
`FloatsAssumption`, `LiteralsAssumption`: a literal is an int64 or a float64,
`EqAssumption` ...); TLC evaluates them in the runs. The
theorems on Scanner speak of it alone, whose run (`scanner_failure`) asks one question;
its properties are checked in `lexer`, where the scanner is driven by the lexer and sees
every text that it would see alone.

`Lexer`'s `ClassAssumption`, that the classes of runes do not overlap, is restated in
`Repl`, which composes it, and evaluated there too.

Only model-checked is all liveness (`CloseUnblocks`, `QueueFairSpec`, `EndIsReached`, `Ends`,
`LinesAreAnswered`, `Answers`), which needs ENABLED. Every other property of a run that
passes is stated by a theorem, for every value of the constants. `MCAst` builds the
memory of its trees with recursive operators; no module with a theorem uses one.

## Not modelled

* The text of values: String, Inspect, GoString, MarshalText and the wording of errors,
  and positions in the syntax tree. No property is about them.
* Symbols, keywords, primitives and type specs of `std/core`: values without state, whose
  methods convert to and from text. Of `operations.go`, Eq and Contains are in `HashMap`.
* `internal/readstring`: functions from a text to one of its prefixes that only their own
  tests call; the readers the program uses are the lexer's. `internal/collections`,
  `multierr`, `seq`, `arena`: thin wrappers without state that outlives a call or
  without a caller.
* `ast` (the older syntax tree), `language/language.go` and `compiler`: nothing uses them.
* Several goroutines on one list, map or environment: the code has no lock there and
  nothing in the repository says it may be done.

## Plan

1. Done: Chan with its abstract queue; Scanner; Lexer; Parser; Repl; Eval and Infer; the
   list and the map; Clone and Equal of the syntax tree.
2. Done: the proofs on Chan, Scanner, Lexer, Parser, the list and the map, the composition in
   Repl; on Eval the scopes, the arithmetic, the comparisons, Inspect and the inference;
   on the syntax tree Clone and Equal.
3. Nothing of the code as it is. If lists, maps or environments gain a lock: a model of what
   they then promise to several goroutines.
