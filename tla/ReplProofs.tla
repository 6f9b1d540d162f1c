----------------------------- MODULE ReplProofs -----------------------------
(***************************************************************************)
(* Proofs about Repl, for any lines and any number of them: what the       *)
(* buffer holds, and then the lexer, the parser and the loop together.     *)
(***************************************************************************)
EXTENDS Repl, DataLemmas

(***************************************************************************)
(* Joined is defined from the library's FlattenSeq: what it is when one    *)
(* more line is typed.                                                     *)
(***************************************************************************)
Flat(ss, n, f) == f = [i \in 1 .. n |-> IF i = 1 THEN ss[i] ELSE f[i - 1] \o ss[i]]

LEMMA FlatExists == \A ss : \A n \in Nat : \E f : Flat(ss, n, f)
<1> SUFFICES ASSUME NEW ss PROVE \A n \in Nat : \E f : Flat(ss, n, f)
  OBVIOUS
<1> DEFINE S == {n \in Nat : \E f : Flat(ss, n, f)}
<1>1. 0 \in S
  <2> DEFINE f == [i \in 1 .. 0 |-> << >>]
  <2>1. Flat(ss, 0, f)
    BY DEF Flat
  <2> HIDE DEF f
  <2> QED BY <2>1
<1>2. ASSUME NEW n \in S PROVE n + 1 \in S
  <2>1. PICK f : Flat(ss, n, f)
    OBVIOUS
  <2> DEFINE last == IF n + 1 = 1 THEN ss[n + 1] ELSE f[n] \o ss[n + 1]
             g == [i \in 1 .. n + 1 |-> IF i = n + 1 THEN last ELSE f[i]]
  <2> HIDE DEF last
  <2>2. \A i \in 1 .. n + 1 : g[i] = IF i = 1 THEN ss[i] ELSE g[i - 1] \o ss[i]
    <3>1. g[n + 1] = last /\ \A i \in 1 .. n : g[i] = f[i]
      OBVIOUS
    <3>2. \A i \in 1 .. n : f[i] = IF i = 1 THEN ss[i] ELSE f[i - 1] \o ss[i]
      BY <2>1 DEF Flat
    <3> HIDE DEF g
    <3>3. ASSUME NEW i \in 1 .. n PROVE g[i] = IF i = 1 THEN ss[i] ELSE g[i - 1] \o ss[i]
      BY <3>1, <3>2
    <3>4. g[n + 1] = IF n + 1 = 1 THEN ss[n + 1] ELSE g[(n + 1) - 1] \o ss[n + 1]
      BY <3>1 DEF last
    <3> QED BY <3>3, <3>4
  <2>3. g = [i \in 1 .. n + 1 |-> g[i]]
    OBVIOUS
  <2> HIDE DEF g
  <2>4. Flat(ss, n + 1, g)
    BY <2>2, <2>3 DEF Flat
  <2> QED BY <2>4
<1> HIDE DEF S
<1>3. \A n \in Nat : n \in S
  <2>1. S \in SUBSET Nat
    BY DEF S
  <2> QED BY <1>1, <1>2, <2>1, Induction
<1> QED BY <1>3 DEF S

LEMMA FlatIs ==
  \A ss, n, f : Flat(ss, n, f) =>
    \A i \in 1 .. n : f[i] = IF i = 1 THEN ss[i] ELSE f[i - 1] \o ss[i]
  BY DEF Flat

(* Two that agree on their first elements agree on what these come to.     *)
Agree(ss, ts, n) == \A i \in 1 .. n : ss[i] = ts[i]

LEMMA FlatAgrees ==
  ASSUME NEW ss, NEW ts, NEW n \in Nat, Agree(ss, ts, n),
         NEW m \in Nat, n <= m, NEW f, Flat(ss, n, f), NEW g, Flat(ts, m, g)
  PROVE  Agree(f, g, n)
<1> USE DEF Agree
<1> DEFINE S == {i \in Nat : i \in 1 .. n => f[i] = g[i]}
<1>1. \A i \in 1 .. n : /\ f[i] = IF i = 1 THEN ss[i] ELSE f[i - 1] \o ss[i]
                        /\ g[i] = IF i = 1 THEN ts[i] ELSE g[i - 1] \o ts[i]
  <2>1. \A i \in 1 .. n : i \in 1 .. m
    OBVIOUS
  <2> QED BY <2>1, FlatIs
<1>2. 0 \in S
  OBVIOUS
<1>3. ASSUME NEW i \in S PROVE i + 1 \in S
  <2> SUFFICES ASSUME i + 1 \in 1 .. n PROVE f[i + 1] = g[i + 1]
    OBVIOUS
  <2>1. ss[i + 1] = ts[i + 1] /\ (i + 1) - 1 = i /\ (i + 1 # 1 => i \in 1 .. n)
    OBVIOUS
  <2>2. i + 1 # 1 => f[i] = g[i]
    BY <2>1
  <2> QED BY <1>1, <2>1, <2>2
<1> HIDE DEF S
<1>4. \A i \in Nat : i \in S
  <2>1. S \in SUBSET Nat
    BY DEF S
  <2> QED BY <1>2, <1>3, <2>1, Induction
<1> QED BY <1>4 DEF S

LEMMA FlattenIs ==
  ASSUME NEW ss, IsSeq(ss), ss # << >>
  PROVE  \E f : Flat(ss, Len(ss), f) /\ FlattenSeq(ss) = f[Len(ss)]
<1> DEFINE g == CHOOSE f : Flat(ss, Len(ss), f)
<1>1. Len(ss) \in Nat /\ Len(ss) # 0
  BY SeqDomain
<1>2. Flat(ss, Len(ss), g)
  BY <1>1, FlatExists
<1>3. FlattenSeq(ss) = g[Len(ss)]
  BY <1>1 DEF FlattenSeq, Flat
<1> QED BY <1>2, <1>3

Ended(ls) == [i \in DOMAIN ls |-> WithNewline(ls[i])]

LEMMA EndedIs ==
  ASSUME NEW ls, IsSeq(ls)
  PROVE  /\ IsSeq(Ended(ls)) /\ Len(Ended(ls)) = Len(ls) /\ DOMAIN ls = 1 .. Len(ls)
         /\ \A i \in 1 .. Len(ls) : Ended(ls)[i] = WithNewline(ls[i])
<1> DEFINE S == {WithNewline(ls[i]) : i \in DOMAIN ls}
           n == Len(ls)
           es == Ended(ls)
<1>1. n \in Nat /\ DOMAIN ls = 1 .. n
  BY SeqDomain
<1>2. DOMAIN es = 1 .. n /\ \A i \in 1 .. n : es[i] = WithNewline(ls[i])
  BY <1>1 DEF Ended
<1>3. es \in [1 .. n -> S]
  BY <1>1 DEF Ended
<1> HIDE DEF n, es, S
<1>4. es \in Seq(S)
  BY <1>1, <1>3, SeqDef
<1>5. Len(es) = n
  BY <1>1, <1>2, <1>4, LenProperties
<1> QED BY <1>1, <1>2, <1>4, <1>5 DEF IsSeq, n, es

LEMMA JoinedNone == Joined(<< >>) = << >>
<1>1. Ended(<< >>) = << >>
  BY DEF Ended
<1> QED BY <1>1 DEF Joined, Ended, FlattenSeq

LEMMA JoinedMore ==
  ASSUME NEW ls, IsSeq(ls), NEW l
  PROVE  Joined(Append(ls, l)) = IF ls = << >> THEN WithNewline(l) ELSE Joined(ls) \o WithNewline(l)
<1> DEFINE n == Len(ls)
           more == Append(ls, l)
<1>1. /\ n \in Nat /\ IsSeq(more) /\ Len(more) = n + 1 /\ more # << >>
      /\ more[n + 1] = l /\ \A i \in 1 .. n : more[i] = ls[i]
  BY SeqAppend, SeqDomain
<1> HIDE DEF more
<1>2. /\ IsSeq(Ended(more)) /\ Len(Ended(more)) = n + 1 /\ Ended(more) # << >>
      /\ Ended(more)[n + 1] = WithNewline(l)
      /\ \A i \in 1 .. n : Ended(more)[i] = WithNewline(ls[i])
  BY <1>1, EndedIs, SeqDomain
<1>3. PICK g : Flat(Ended(more), n + 1, g) /\ Joined(more) = g[n + 1]
  BY <1>2, FlattenIs DEF Joined, Ended
<1>4. g[n + 1] = IF n = 0 THEN WithNewline(l) ELSE g[n] \o WithNewline(l)
  <2>1. n + 1 \in 1 .. n + 1 /\ (n + 1) - 1 = n /\ (n + 1 = 1 <=> n = 0)
    BY <1>1
  <2>2. g[n + 1] = IF n + 1 = 1 THEN Ended(more)[n + 1] ELSE g[(n + 1) - 1] \o Ended(more)[n + 1]
    BY <1>3, <2>1, FlatIs
  <2> QED BY <1>2, <2>1, <2>2
<1>5. ASSUME n # 0 PROVE g[n] = Joined(ls)
  <2>1. /\ IsSeq(Ended(ls)) /\ Len(Ended(ls)) = n /\ Ended(ls) # << >>
        /\ \A i \in 1 .. n : Ended(ls)[i] = WithNewline(ls[i])
    BY <1>1, <1>5, EndedIs, SeqDomain
  <2>2. PICK f : Flat(Ended(ls), n, f) /\ Joined(ls) = f[n]
    BY <2>1, FlattenIs DEF Joined, Ended
  <2>3. \A i \in 1 .. n : Ended(ls)[i] = Ended(more)[i]
    BY <1>2, <2>1
  <2>4. \A i \in 1 .. n : f[i] = g[i]
    <3> HIDE DEF n
    <3>1. n + 1 \in Nat /\ n <= n + 1
      BY <1>1
    <3>2. Agree(Ended(ls), Ended(more), n)
      BY <2>3 DEF Agree
    <3>3. n \in Nat /\ n + 1 \in Nat /\ n <= n + 1 /\ Flat(Ended(ls), n, f) /\ Flat(Ended(more), n + 1, g)
      BY <1>1, <1>3, <2>2, <3>1
    <3> QED BY <3>2, <3>3, FlatAgrees DEF Agree
  <2> QED BY <1>1, <1>5, <2>2, <2>4
<1>6. n = 0 <=> ls = << >>
  BY SeqDomain
<1> QED BY <1>1, <1>3, <1>4, <1>5, <1>6 DEF more

(***************************************************************************)
(* PendingText.  Buffer says it with the newline in its place and that the *)
(* pending lines are lines.                                                *)
(***************************************************************************)
Working == state \in {"lexing", "parsing", "crashed"}

Buffer ==
  /\ buf \in Seq(Rune) /\ IsSeq(pending)
  /\ Joined(pending) = IF Working THEN WithNewline(buf) ELSE buf

LEMMA BufferInit == Init => Buffer
  BY JoinedNone, SeqOfSome, EmptySeq DEF Init, Buffer, Working

LEMMA BufferStep == Buffer /\ [ReplNext]_vars => Buffer'
<1> SUFFICES ASSUME Buffer, [ReplNext]_vars PROVE Buffer'
  OBVIOUS
<1>1. ASSUME NEW l \in Lines, ReadLine(l) PROVE Buffer'
  <2>1. /\ state = "prompt" /\ state' = "lexing" /\ buf' = buf \o l /\ pending' = Append(pending, l)
        /\ buf \in Seq(Rune) /\ IsSeq(pending) /\ buf = Joined(pending)
    BY <1>1 DEF ReadLine, Buffer, Working
  <2>2. l \in Seq(Rune) /\ Newline \in Rune /\ <<Newline>> \in Seq(Rune)
    <3>1. l \in Seq(Rune \ {EOF, Newline}) /\ Newline \in Rune
      BY ReplAssumption
    <3> QED BY <3>1, SeqMonotonic
  <2>3. buf \o l \in Seq(Rune)
    BY <2>1, <2>2, ConcatProperties
  <2>4. buf \o WithNewline(l) = WithNewline(buf \o l)
    <3>1. WithNewline(l) = l \o <<Newline>> /\ WithNewline(buf \o l) = (buf \o l) \o <<Newline>>
      BY <2>2, <2>3, AppendIsConcat DEF WithNewline
    <3> QED BY <2>1, <2>2, <3>1, ConcatAssociative
  <2>5. IsSeq(pending')
    BY <2>1, SeqAppend
  <2>6. CASE pending = << >>
    <3>1. buf = << >> /\ Joined(pending') = WithNewline(l)
      BY <2>1, <2>6, JoinedNone, JoinedMore
    <3>2. buf \o l = l
      BY <2>2, <3>1, ConcatEmptySeq
    <3> QED BY <2>1, <2>3, <2>5, <3>1, <3>2 DEF Buffer, Working
  <2>7. CASE pending # << >>
    <3>1. Joined(pending') = buf \o WithNewline(l)
      BY <2>1, <2>7, JoinedMore
    <3> QED BY <2>1, <2>3, <2>4, <2>5, <3>1 DEF Buffer, Working
  <2> QED BY <2>6, <2>7
<1>2. CASE WaitForMore
  <2>1. Buffer /\ Newline \in Rune
    BY ReplAssumption
  <2>2. buf' = WithNewline(buf) /\ buf' \in Seq(Rune)
    BY <1>2, <2>1, AppendProperties DEF WaitForMore, WithNewline, Buffer
  <2> QED BY <1>2, <2>1, <2>2 DEF WaitForMore, Parsed, Buffer, Working
<1>3. CASE ShowError \/ ShowValue
  <2>1. buf' = << >> /\ pending' = << >> /\ state' = "prompt"
    BY <1>3 DEF ShowError, ShowValue, Reset
  <2> QED BY <2>1, JoinedNone, SeqOfSome, EmptySeq DEF Buffer, Working
<1>4. ASSUME UNCHANGED <<buf, pending>>, Working' = Working PROVE Buffer'
  BY <1>4 DEF Buffer
<1>5. CASE LexerRuns \/ NewParser \/ ParserRuns \/ ParserPanics \/ EvalPanics
  BY <1>4, <1>5 DEF LexerRuns, NewParser, ParserRuns, ParserPanics, EvalPanics, Parsed, Working
<1>6. ASSUME NEW l, ReadHelp(l) \/ ReadQuit(l) PROVE Buffer'
  BY <1>4, <1>6 DEF ReadHelp, ReadQuit, Working
<1>7. CASE InputEnds \/ UNCHANGED vars
  BY <1>4, <1>7 DEF InputEnds, vars, Working
<1> QED BY <1>1, <1>2, <1>3, <1>5, <1>6, <1>7 DEF ReplNext, Step

LEMMA FrontOfEnded == ASSUME NEW s \in Seq(Rune), Newline \in Rune PROVE Front(WithNewline(s)) = s
<1> DEFINE t == WithNewline(s)
<1>1. t \in Seq(Rune) /\ Len(t) = Len(s) + 1 /\ \A i \in 1 .. Len(s) : t[i] = s[i]
  BY AppendProperties DEF WithNewline
<1>2. Len(s) \in Nat /\ Len(t) - 1 = Len(s)
  BY <1>1, LenProperties
<1> HIDE DEF t
<1>3. \A i \in 1 .. Len(s) : t[i] \in Rune
  BY <1>1, ElementOfSeq
<1>4. Front(t) = SubSeq(t, 1, Len(s))
  BY <1>2 DEF Front
<1>5. /\ Front(t) \in Seq(Rune) /\ Len(Front(t)) = Len(s)
      /\ \A i \in 1 .. Len(s) : Front(t)[i] = s[i]
  <2>1. 1 \in Int /\ Len(s) \in Int
    BY <1>2
  <2>2. /\ SubSeq(t, 1, Len(s)) \in Seq(Rune)
        /\ Len(SubSeq(t, 1, Len(s))) = IF 1 <= Len(s) THEN Len(s) - 1 + 1 ELSE 0
        /\ \A i \in 1 .. Len(s) - 1 + 1 : SubSeq(t, 1, Len(s))[i] = t[1 + i - 1]
    BY <1>3, <2>1, SubSeqProperties
  <2> QED BY <1>1, <1>2, <1>4, <2>2
<1> QED BY <1>5, SeqEqual DEF t

(* Whatever is typed, and after whatever errors, no line is lost, repeated *)
(* or mixed with one that was answered already.                            *)
THEOREM PendingIsTyped == Spec => []PendingText
<1>1. Buffer => PendingText
  BY FrontOfEnded, ReplAssumption DEF Buffer, PendingText, Working
<1> QED BY <1>1, BufferInit, BufferStep, PTL DEF Spec

(***************************************************************************)
(* The lexer and the parser that Repl composes, with what is proved of them. *)
(* Repl names the operators of Lexer and Parser; LexerProofs and           *)
(* ParserProofs extend these modules, so each operator is there once more, *)
(* and the lemmas below say that it is the same one.  The lexer is given any *)
(* text, and ParserProofs never uses which answers there are in Feeds: its *)
(* lemmas are about a parser that was given some answers of a lexer.       *)
(***************************************************************************)
LexP == INSTANCE LexerProofs WITH Inputs <- Seq(Rune)
ParP == INSTANCE ParserProofs WITH Feeds <- {}

(* What LexerProofs assumes of its constants.                              *)
LEMMA LexContext ==
  /\ EOF \in Rune /\ Newline \in Rune /\ EOF # Newline
  /\ Failure \notin Rune
  /\ Seq(Rune) \subseteq Seq(Rune \cup {Failure})
  /\ LexP!ClassesApart
<1>1. EOF \in Rune /\ Newline \in Rune /\ EOF # Newline /\ Failure \notin Rune
  BY ReplAssumption
<1>2. Rune \subseteq Rune \cup {Failure} 
  OBVIOUS
<1>3. Seq(Rune) \subseteq Seq(Rune \cup {Failure})
  BY <1>2, SeqMonotonic
<1>4. LexP!ClassesApart
  BY ClassAssumption DEF Lex!ClassesApart, LexP!ClassesApart, Lex!isSpace, LexP!isSpace,
      Lex!isDigit, LexP!isDigit, Lex!brackets, LexP!brackets, Lex!numbery, LexP!numbery,
      Lex!floaty, LexP!floaty, Lex!strEscapes, LexP!strEscapes, Lex!Quote, LexP!Quote
<1> QED BY <1>1, <1>3, <1>4

LEMMA LexerBegins == LexP!LexInit => LexP!CallInv
  BY LexContext, LexP!CallsBegin

LEMMA LexerGoesOn ==
  ASSUME LexP!CallInv, LexP!LexNext, mode = "idle" /\ out # << >> => ~LexP!Stops(LexP!LastOut)
  PROVE  LexP!CallInv' /\ input' = input
  BY LexContext, LexP!CallsGoOn

LEMMA SameLexer == Lex!LexNext => LexP!LexNext
  BY DEF Lex!LexNext, LexP!LexNext, Lex!Call, LexP!Call, Lex!Step, LexP!Step, Lex!SkipSeparator,
      LexP!SkipSeparator, Lex!Begin, LexP!Begin, Lex!EndOfInput, LexP!EndOfInput, Lex!Single,
      LexP!Single, Lex!CommentRune, LexP!CommentRune, Lex!CommentEnd, LexP!CommentEnd,
      Lex!StringScan, LexP!StringScan, Lex!StringAtEnd, LexP!StringAtEnd, Lex!StringClose,
      LexP!StringClose, Lex!StringEscape, LexP!StringEscape, Lex!StringBadEscape,
      LexP!StringBadEscape, Lex!StringRune, LexP!StringRune, Lex!NumberRune, LexP!NumberRune,
      Lex!NumberEnd, LexP!NumberEnd, Lex!AtomRune, LexP!AtomRune, Lex!AtomEnd, LexP!AtomEnd,
      Lex!AtomAtEnd, LexP!AtomAtEnd, Lex!Scan, LexP!Scan, Lex!ScanAtEnd, LexP!ScanAtEnd,
      Lex!ScanAdvance, LexP!ScanAdvance, Lex!ScanFails, LexP!ScanFails, Lex!RuneAt, LexP!RuneAt,
      Lex!ErrorAt, LexP!ErrorAt, Lex!updatePos, LexP!updatePos, Lex!Goto, LexP!Goto, Lex!Return,
      LexP!Return, Lex!Here, LexP!Here, Lex!reader, LexP!reader, Lex!isSpace, LexP!isSpace,
      Lex!isDigit, LexP!isDigit, Lex!brackets, LexP!brackets, Lex!numbery, LexP!numbery,
      Lex!floaty, LexP!floaty, Lex!strEscapes, LexP!strEscapes, Lex!Quote, LexP!Quote,
      Lex!isAtomRune, LexP!isAtomRune, Lex!isNumberRune, LexP!isNumberRune, Lex!numberKind,
      LexP!numberKind, Lex!scanVars, LexP!scanVars, Lex!lexVars, LexP!lexVars

(***************************************************************************)
(* What the parser is given.                                               *)
(***************************************************************************)
LEMMA ClassIs ==
  ASSUME NEW t, LexP!Kind(t), LexP!ToldOf(t)
  PROVE  /\ TokenClass(t) \in Par!Tokens
         /\ TokenClass(t) = "EOF" => LexP!Stops(t)
         /\ TokenClass(t) = "bad_string" => t.errs = {"bad string"}
         /\ TokenClass(t) \in {"nil", "open_string", "lone_quote", "eof_error"} => LexP!Stops(t)
         /\ TokenClass(t) = "lone_quote" => "eof" \in t.errs /\ "bad string" \in t.errs
         /\ TokenClass(t) = "eof_error" => "eof" \in t.errs /\ Len(input) < 2
         /\ LexP!Escape(t) => TokenClass(t) \in {"symbol", "nil"}
<1>1. CASE t.errs # {}
  <2>1. t.kind = "EOF" /\ TokenClass(t) = ErrorClass(t.errs)
    BY <1>1 DEF LexP!Kind, TokenClass
  <2>2. /\ ErrorClass(t.errs) \in {"bad_string", "eof_error", "lone_quote", "open_string"}
        /\ ErrorClass(t.errs) = "bad_string" <=> t.errs = {"bad string"}
        /\ ErrorClass(t.errs) = "lone_quote" => "eof" \in t.errs /\ "bad string" \in t.errs
        /\ ErrorClass(t.errs) = "eof_error" => "bad string" \notin t.errs
    BY DEF ErrorClass
  <2>3. "bad string" \notin t.errs => "eof" \in t.errs /\ Len(input) < 2
    BY <1>1 DEF LexP!ToldOf, LexP!TextErrors
  <2>4. {"bad_string", "eof_error", "lone_quote", "open_string"} \subseteq Par!Tokens
    BY DEF Par!Tokens, Par!LexicalError
  <2>5. t.errs # {"bad string"} => LexP!Stops(t)
    BY <2>1 DEF LexP!Stops
  <2>6. ~LexP!Escape(t)
    BY <1>1 DEF LexP!Escape
  <2> QED BY <2>1, <2>2, <2>3, <2>4, <2>5, <2>6
<1>2. CASE t.errs = {}
  <2> PICK text : text = Lex!Text(t) /\ text = LexP!Text(t)
    BY DEF Lex!Text, LexP!Text
  <2>1. SymbolClass(text) \in {"+", "-", "if", "cond", "import-go", "true", "symbol"}
    BY DEF SymbolClass
  <2>2. text[1] = "\\" => SymbolClass(text) = "symbol"
    BY DEF SymbolClass
  <2>3. TokenClass(t) =
          IF t.kind = "symbol" THEN SymbolClass(text)
          ELSE IF t.kind \in {"int", "float"} THEN (IF IsNumeral(t) THEN "int" ELSE "bad int")
          ELSE IF t.kind \in {"[", "]", "{", "}", "'"} THEN "comment"
          ELSE t.kind
    BY <1>2 DEF TokenClass
  <2>4. t.kind \in LexP!TokenKinds
    BY DEF LexP!Kind
  <2>5. TokenClass(t) \in {"+", "-", "if", "cond", "import-go", "true", "symbol", "int", "bad int",
                           "comment", "string", "keyword", "(", ")", ".", "EOF", "nil"}
    BY <2>1, <2>3, <2>4 DEF LexP!TokenKinds, LexP!brackets
  <2>6. TokenClass(t) \in {"EOF", "nil"} => LexP!Stops(t)
    <3>1. TokenClass(t) \in {"EOF", "nil"} => t.kind = TokenClass(t)
      BY <2>1, <2>3
    <3> QED BY <1>2, <3>1 DEF LexP!Stops
  <2>7. LexP!Escape(t) => TokenClass(t) \in {"symbol", "nil"}
    BY <2>2, <2>3 DEF LexP!Escape
  <2>8. {"+", "-", "if", "cond", "import-go", "true", "symbol", "int", "bad int", "comment", "string",
         "keyword", "(", ")", ".", "EOF", "nil"} \subseteq Par!Tokens
    BY DEF Par!Tokens, Par!Leaves, Par!Symbols, Par!Literals, Par!isSpecial, Par!Operators
  <2> QED BY <2>5, <2>6, <2>7, <2>8
<1> QED BY <1>1, <1>2

LEMMA Told ==
  ASSUME LexP!CallInv, input \in Seq(Rune \ {EOF})
  PROVE  /\ LexP!ReadInv /\ LexP!Told /\ LexP!Whole /\ LexP!OnlyLastStops
         /\ IsSeq(out)
         /\ \A i \in DOMAIN out : LexP!Kind(out[i]) /\ LexP!ToldOf(out[i])
<1>1. LexP!ReadInv /\ LexP!Told /\ LexP!OnlyLastStops
  BY DEF LexP!CallInv
<1>2. LexP!Whole
  <2> SUFFICES ASSUME NEW i \in DOMAIN input PROVE input[i] \notin {EOF, Failure}
    BY DEF LexP!Whole
  <2>1. input[i] \in Rune \ {EOF}
    BY ElementOfSeq, LenProperties
  <2> QED BY <2>1, ReplAssumption
<1>3. out \in Seq(LexP!Answers)
  BY <1>1 DEF LexP!ReadInv, LexP!LexInv, LexP!LexTypes
<1> QED BY <1>1, <1>2, <1>3 DEF LexP!Told, IsSeq

LEMMA AnswersAre ==
  ASSUME IsSeq(out), out # << >>
  PROVE  LET n == Len(out)
             m == IF TokenClass(out[n]) = "EOF" THEN n - 1 ELSE n
         IN  /\ n \in Nat \ {0} /\ DOMAIN out = 1 .. n
             /\ IsSeq(Answers) /\ Len(Answers) = m /\ DOMAIN Answers = 1 .. m
             /\ \A i \in 1 .. m : Answers[i] = TokenClass(out[i])
<1> DEFINE toks == [i \in DOMAIN out |-> TokenClass(out[i])]
           S == {TokenClass(out[i]) : i \in DOMAIN out}
<1> PICK n \in Nat \ {0} : n = Len(out) /\ DOMAIN out = 1 .. n
  BY SeqDomain
<1>1. toks \in Seq(S) /\ Len(toks) = n
  <2>1. toks \in [1 .. n -> S]
    OBVIOUS
  <2> HIDE DEF toks, S
  <2>2. toks \in Seq(S)
    BY <2>1, SeqDef
  <2>3. DOMAIN toks = 1 .. n
    BY <2>1
  <2> QED BY <2>2, <2>3, LenProperties
<1>2. \A i \in 1 .. n : toks[i] = TokenClass(out[i])
  OBVIOUS
<1>3. Answers = IF toks[n] = "EOF" THEN SubSeq(toks, 1, n - 1) ELSE toks
  BY <1>1 DEF Answers, Last, Front
<1> HIDE DEF toks
<1>4. IsSeq(toks)
  BY <1>1 DEF IsSeq
<1>5. LET s == SubSeq(toks, 1, n - 1) IN
      IsSeq(s) /\ Len(s) = n - 1 /\ \A i \in 1 .. n - 1 : s[i] = toks[i]
  <2> DEFINE k == n - 1
             s == SubSeq(toks, 1, k)
  <2>1. k \in Nat /\ k <= Len(toks)
    BY <1>1
  <2> HIDE DEF k
  <2>2. IsSeq(s) /\ Len(s) = IF 1 <= k THEN k - 1 + 1 ELSE 0
    BY <1>4, <2>1, SeqSub
  <2>3. \A i \in 1 .. k - 1 + 1 : s[i] = toks[1 + i - 1]
    BY <1>4, <2>1, SeqSub
  <2> HIDE DEF s
  <2>4. Len(s) = k /\ \A i \in 1 .. k : s[i] = toks[i]
    BY <2>1, <2>2, <2>3
  <2> QED BY <2>2, <2>4 DEF k, s
<1>6. CASE toks[n] = "EOF"
  <2>1. IsSeq(Answers) /\ Len(Answers) = n - 1 /\ \A i \in 1 .. n - 1 : Answers[i] = toks[i]
    BY <1>3, <1>5, <1>6
  <2>2. DOMAIN Answers = 1 .. n - 1
    BY <2>1, SeqDomain
  <2> QED BY <1>2, <1>6, <2>1, <2>2
<1>7. CASE toks[n] # "EOF"
  <2>1. Answers = toks
    BY <1>3, <1>7
  <2>2. DOMAIN Answers = 1 .. n
    BY <1>1, <1>4, <2>1, SeqDomain
  <2> QED BY <1>1, <1>2, <1>4, <1>7, <2>1, <2>2
<1> QED BY <1>6, <1>7

LEMMA FeedIs ==
  ASSUME LexP!CallInv, input \in Seq(Rune \ {EOF}), Drained
  PROVE  /\ Par!LexerAnswers(Answers)
         /\ \A i \in DOMAIN Answers : Answers[i] = "eof_error" => Len(input) < 2
<1>1. /\ LexP!ReadInv /\ LexP!Told /\ LexP!Whole /\ LexP!OnlyLastStops
      /\ IsSeq(out) /\ out # << >>
      /\ \A i \in DOMAIN out : LexP!Kind(out[i]) /\ LexP!ToldOf(out[i])
  BY Told DEF Drained
<1> PICK n \in Nat \ {0} : n = Len(out) /\ DOMAIN out = 1 .. n
  BY <1>1, SeqDomain
<1> PICK m \in Nat : m = IF TokenClass(out[n]) = "EOF" THEN n - 1 ELSE n
  OBVIOUS
<1>2. /\ IsSeq(Answers) /\ Len(Answers) = m /\ DOMAIN Answers = 1 .. m
      /\ \A i \in 1 .. m : Answers[i] = TokenClass(out[i])
  BY <1>1, AnswersAre
<1>3. LexP!Stops(out[n]) /\ \A i \in 1 .. n - 1 : ~LexP!Stops(out[i])
  <2>1. LexP!Stops(out[n])
    BY DEF Drained, Lex!LastOut, LexP!Stops
  <2>2. \A i \in DOMAIN out : LexP!Stops(out[i]) => i = Len(out)
    BY <1>1 DEF LexP!OnlyLastStops
  <2> QED BY <2>1, <2>2
<1>4. ASSUME NEW i \in 1 .. m
      PROVE  /\ Answers[i] \in Par!Tokens \ {"EOF"}
             /\ i # n => Answers[i] \notin {"nil", "open_string", "lone_quote", "eof_error"}
             /\ Answers[i] \in {"nil", "open_string", "lone_quote", "eof_error"} => i = m
  <2>1. /\ Answers[i] = TokenClass(out[i]) /\ i \in DOMAIN out
        /\ LexP!Kind(out[i]) /\ LexP!ToldOf(out[i])
    BY <1>1, <1>2, <1>4
  <2>2. /\ TokenClass(out[i]) \in Par!Tokens
        /\ TokenClass(out[i]) = "EOF" => LexP!Stops(out[i])
        /\ TokenClass(out[i]) \in {"nil", "open_string", "lone_quote", "eof_error"} => LexP!Stops(out[i])
    BY <2>1, ClassIs
  <2>3. i # n => i \in 1 .. n - 1
    BY <1>4
  <2>4. i = n => TokenClass(out[i]) # "EOF" /\ i = m
    BY <1>4
  <2> QED BY <1>3, <2>1, <2>2, <2>3, <2>4
<1>5. ASSUME NEW i \in 1 .. m
      PROVE  /\ Answers[i] = "lone_quote" => m = 1
             /\ Answers[i] = "eof_error" => m <= 2 /\ Len(input) < 2
             /\ Answers[i] = "bad_string" => i < m /\ Answers[i + 1] \in {"symbol", "nil"}
  <2>1. /\ Answers[i] = TokenClass(out[i]) /\ i \in DOMAIN out
        /\ LexP!Kind(out[i]) /\ LexP!ToldOf(out[i])
    BY <1>1, <1>2, <1>5
  <2>2. \A j \in 1 .. i - 1 : ~LexP!Stops(out[j])
    BY <1>3, <1>5
  <2>3. /\ "eof" \in out[i].errs => i <= 2 /\ ("bad string" \in out[i].errs => i = 1)
        /\ out[i].errs = {"bad string"} /\ i + 1 \in DOMAIN out => LexP!Escape(out[i + 1])
    BY <1>1, <2>1, <2>2, LexContext, LexP!AnswersFollow
  <2>4. /\ TokenClass(out[i]) = "bad_string" => out[i].errs = {"bad string"}
        /\ TokenClass(out[i]) = "lone_quote" => "eof" \in out[i].errs /\ "bad string" \in out[i].errs
        /\ TokenClass(out[i]) = "eof_error" => "eof" \in out[i].errs /\ Len(input) < 2
    BY <2>1, ClassIs
  <2>5. ASSUME Answers[i] = "bad_string" PROVE i < m /\ Answers[i + 1] \in {"symbol", "nil"}
    <3>1. out[i].errs = {"bad string"} /\ out[i].kind = "EOF"
      BY <2>1, <2>4, <2>5 DEF LexP!Kind
    <3>2. i # n
      BY <1>3, <3>1 DEF LexP!Stops
    <3>a. i \in 1 .. n
      BY <2>1
    <3>b. i + 1 \in 1 .. n
      BY <3>2, <3>a
    <3>c. i + 1 \in DOMAIN out
      BY <3>b
    <3>3. i + 1 \in DOMAIN out /\ LexP!Escape(out[i + 1])
      BY <2>3, <3>1, <3>c
    <3>4. TokenClass(out[i + 1]) \in {"symbol", "nil"}
      BY <1>1, <3>3, ClassIs
    <3>5. i + 1 \in 1 .. m
      BY <3>2, <3>3, <3>4
    <3> QED BY <1>2, <3>4, <3>5
  <2> QED BY <1>4, <2>1, <2>3, <2>4, <2>5
<1>6. Answers \in Seq(Par!Tokens \ {"EOF"})
  <2> DEFINE T == Par!Tokens \ {"EOF"}
  <2>1. \A i \in 1 .. m : Answers[i] \in T
    BY <1>4
  <2> HIDE DEF T
  <2>2. PICK S : Answers \in Seq(S)
    BY <1>2 DEF IsSeq
  <2>3. Answers \in [1 .. m -> S]
    BY <1>2, <2>2, LenProperties
  <2>4. Answers \in [1 .. m -> T]
    BY <2>1, <2>3
  <2>5. Answers \in Seq(T)
    BY <2>4, SeqDef
  <2> QED BY <2>5 DEF T
<1>7. \A i \in 1 .. m - 1 : Answers[i] \notin {"nil", "open_string", "lone_quote", "eof_error"}
  BY <1>4
<1> QED BY <1>2, <1>5, <1>6, <1>7 DEF Par!LexerAnswers

(***************************************************************************)
(* The parser of Repl is that of ParserProofs.                             *)
(***************************************************************************)
LEMMA SameTokens ==
  /\ Par!Tokens = ParP!Tokens /\ Par!LexicalError = ParP!LexicalError
  /\ Par!Leaves = ParP!Leaves /\ Par!Operators = ParP!Operators /\ Par!Symbols = ParP!Symbols
  BY DEF Par!Tokens, ParP!Tokens, Par!Leaves, ParP!Leaves, Par!Symbols, ParP!Symbols,
      Par!Literals, ParP!Literals, Par!isSpecial, ParP!isSpecial, Par!Operators, ParP!Operators,
      Par!LexicalError, ParP!LexicalError

LEMMA SameAnswers == \A f : Par!LexerAnswers(f) <=> ParP!LexerAnswers(f)
  BY SameTokens DEF Par!LexerAnswers, ParP!LexerAnswers

LEMMA SameAnswer == \A i : Par!Answer(i) = ParP!Answer(i)
  BY DEF Par!Answer, ParP!Answer

LEMMA SameCount == \A tok, i, j : Par!Count(tok, i, j) = ParP!Count(tok, i, j)
<1> SUFFICES ASSUME NEW tok, NEW i, NEW j PROVE Par!Count(tok, i, j) = ParP!Count(tok, i, j)
  OBVIOUS
<1>1. {k \in i .. j : Par!Answer(k) = tok} = {k \in i .. j : ParP!Answer(k) = tok}
  BY SameAnswer
<1> QED BY <1>1 DEF Par!Count, ParP!Count, Par!Cardinality, ParP!Cardinality

LEMMA SameRun == \A nodes, first : Par!Run(nodes, first) = ParP!Run(nodes, first)
  BY DEF Par!Run, ParP!Run

LEMMA SameBuilt == \A n : Par!Built(n) <=> ParP!Built(n)
  BY DEF Par!Built, ParP!Built, Par!IsHole, ParP!IsHole, Par!Holes, ParP!Holes

LEMMA SameErrors == \A t : Par!ErrorOf(t) = ParP!ErrorOf(t) /\ (Par!IsEOF(t) <=> ParP!IsEOF(t))
  BY SameTokens DEF Par!ErrorOf, ParP!ErrorOf, Par!IsEOF, ParP!IsEOF

LEMMA SameCurrent == Par!cur = ParP!cur /\ Par!next = ParP!next
  BY SameAnswer DEF Par!cur, ParP!cur, Par!next, ParP!next

LEMMA SameNodes ==
  /\ Par!Nil = ParP!Nil
  /\ \A h : Par!NilOf(h) = ParP!NilOf(h)
  /\ \A t, i, j, kids : Par!Node(t, i, j, kids) = ParP!Node(t, i, j, kids)
  /\ \A n : Par!IsHole(n) <=> ParP!IsHole(n)
  BY DEF Par!Nil, ParP!Nil, Par!NilOf, ParP!NilOf, Par!Node, ParP!Node, Par!IsHole, ParP!IsHole,
      Par!Holes, ParP!Holes

LEMMA SameImports ==
  \A items : Par!Refused(items) = ParP!Refused(items) /\ (Par!ImportPanics(items) <=> ParP!ImportPanics(items))
<1>1. \A n : Par!ImportItem(n) <=> ParP!ImportItem(n)
  BY SameTokens DEF Par!ImportItem, ParP!ImportItem, Par!ImportName, ParP!ImportName,
      Par!IsSymbol, ParP!IsSymbol
<1>2. \A n : Par!ItemPanics(n) <=> ParP!ItemPanics(n)
  BY DEF Par!ItemPanics, ParP!ItemPanics, Par!NamePanics, ParP!NamePanics
<1>3. \A items : Par!Refused(items) = ParP!Refused(items)
  BY <1>1 DEF Par!Refused, ParP!Refused
<1> QED BY <1>2, <1>3 DEF Par!ImportPanics, ParP!ImportPanics

LEMMA SameBuild ==
  \A n : Par!Build(n) = ParP!Build(n) /\ (Par!BuildPanics(n) <=> ParP!BuildPanics(n))
<1> SUFFICES ASSUME NEW n PROVE Par!Build(n) = ParP!Build(n) /\ (Par!BuildPanics(n) <=> ParP!BuildPanics(n))
  OBVIOUS
<1>1. \A items : Par!buildIf(items, n) = ParP!buildIf(items, n)
  BY SameNodes DEF Par!buildIf, ParP!buildIf, Par!sexpMatches, ParP!sexpMatches
<1>2. \A items : Par!buildDotSelector(items, n) = ParP!buildDotSelector(items, n)
  BY SameNodes DEF Par!buildDotSelector, ParP!buildDotSelector, Par!sexpMatches, ParP!sexpMatches
<1>3. \A items : Par!buildSpecialOperator(items, n) = ParP!buildSpecialOperator(items, n)
  BY SameNodes DEF Par!buildSpecialOperator, ParP!buildSpecialOperator
<1>4. \A items : Par!buildImportGo(items, n) = ParP!buildImportGo(items, n)
  BY SameNodes, SameImports DEF Par!buildImportGo, ParP!buildImportGo
<1>5. Par!Build(n) = ParP!Build(n)
  BY <1>1, <1>2, <1>3, <1>4, SameTokens DEF Par!Build, ParP!Build
<1> QED BY <1>5, SameImports DEF Par!BuildPanics, ParP!BuildPanics

LEMMA SameNextTok == \A n : Par!nextTok(n) => ParP!nextTok(n)
<1> SUFFICES ASSUME NEW n, Par!nextTok(n) PROVE ParP!nextTok(n)
  OBVIOUS
<1>1. {Par!ErrorOf(Par!Answer(i)) : i \in at + 2 .. at + 1 + n} = {ParP!ErrorOf(ParP!Answer(i)) : i \in at + 2 .. at + 1 + n}
  BY SameErrors, SameAnswer
<1> QED BY <1>1 DEF Par!nextTok, ParP!nextTok

LEMMA SameParser == Par!Next => ParP!Next
<1> SUFFICES ASSUME Par!Next PROVE ParP!Next
  OBVIOUS
<1> USE SameCurrent, SameErrors, SameTokens, SameNodes
<1>1. CASE Par!ParseStops \/ Par!ParseItem
  BY <1>1 DEF ParP!Next, Par!ParseStops, ParP!ParseStops, Par!ParseItem, ParP!ParseItem,
      Par!Goto, ParP!Goto
<1>2. CASE Par!NodeAtEOF \/ Par!NodeRefused \/ Par!NodeLeaf
  BY <1>2 DEF ParP!Next, Par!NodeAtEOF, ParP!NodeAtEOF, Par!NodeRefused, ParP!NodeRefused,
      Par!NodeLeaf, ParP!NodeLeaf, Par!Refuse, ParP!Refuse, Par!Goto, ParP!Goto
<1>3. CASE Par!NodeList
  BY <1>3, SameNextTok DEF ParP!Next, Par!NodeList, ParP!NodeList, Par!Goto, ParP!Goto
<1>4. CASE Par!InfixPanics \/ Par!InfixNone
  BY <1>4 DEF ParP!Next, Par!InfixPanics, ParP!InfixPanics, Par!InfixNone, ParP!InfixNone,
      Par!Goto, ParP!Goto
<1>5. CASE Par!parseDotSelector
  BY <1>5, SameNextTok DEF ParP!Next, Par!parseDotSelector, ParP!parseDotSelector, Par!Goto,
      ParP!Goto
<1>6. CASE Par!SexpItem \/ Par!SexpAtEOF
  BY <1>6 DEF ParP!Next, Par!SexpItem, ParP!SexpItem, Par!SexpAtEOF, ParP!SexpAtEOF, Par!Goto,
      ParP!Goto, Par!Front, ParP!Front
<1>7. CASE Par!SexpEnd
  BY <1>7, SameBuild DEF ParP!Next, Par!SexpEnd, ParP!SexpEnd, Par!Goto, ParP!Goto, Par!Top,
      ParP!Top, Par!Front, ParP!Front
<1>8. CASE Par!ReturnNothing \/ Par!ReturnToDot
  BY <1>8 DEF ParP!Next, Par!ReturnNothing, ParP!ReturnNothing, Par!ReturnToDot, ParP!ReturnToDot,
    Par!Goto, ParP!Goto, Par!Top, ParP!Top, Par!Front, ParP!Front
<1>9. CASE Par!ReturnToParse
  BY <1>9, SameNextTok DEF ParP!Next, Par!ReturnToParse, ParP!ReturnToParse, Par!Goto, ParP!Goto
<1>10. CASE Par!ReturnToSexp
  BY <1>10, SameNextTok DEF ParP!Next, Par!ReturnToSexp, ParP!ReturnToSexp, Par!Goto, ParP!Goto,
      Par!Top, ParP!Top
<1> QED BY <1>1, <1>2, <1>3, <1>4, <1>5, <1>6, <1>7, <1>8, <1>9, <1>10 DEF Par!Next

LEMMA ParserBegins ==
  ASSUME ParP!LexerAnswers(feed), NEW f, ParP!New(f)
  PROVE  ParP!ParseInv
  BY ParP!ParseBegins

LEMMA ParserGoesOn == ParP!ParseInv /\ [ParP!Next]_parserVars => ParP!ParseInv'
<1>1. \A f \in {} : ParP!LexerAnswers(f)
  OBVIOUS
<1>2. [ParP!Next]_parserVars => [ParP!Next]_ParP!vars
  BY DEF parserVars, ParP!vars
<1> QED BY <1>1, <1>2, ParP!ParseGoesOn

(***************************************************************************)
(* What holds of the whole, at every step of Run.  The lexer and the       *)
(* parser are each in a state that their own proofs account for, although  *)
(* Run puts both back to their beginning again and again; the lexer works  *)
(* on the buffer as it is; and after an incomplete parse, what the parser  *)
(* recorded is still what the buffer, with its newline now, was answered.  *)
(* An eof error is for a text of one rune or none, which the newline makes *)
(* two at most.                                                            *)
(***************************************************************************)
Text == Rune \ {EOF}

LexerWorks == LexP!CallInv /\ input \in Seq(Text)
ParserWorks == ParP!ParseInv
TextIsLexed == buf \in Seq(Text) /\ (state \in {"lexing", "parsing"} => input = buf)
ErrorsComeOf(n) == \A i \in DOMAIN feed : feed[i] = "eof_error" => Len(buf) <= n
Waits ==
  /\ state = "parsing" => ErrorsComeOf(1)
  /\ state = "prompt" /\ buf # << >> => pc = "done" /\ ParP!TooEarly /\ ErrorsComeOf(2)

Pipeline == LexerWorks /\ ParserWorks /\ TextIsLexed /\ Waits

(* Each part goes on or stands still.                                      *)
LEMMA LexerStays == LexerWorks /\ UNCHANGED lexerVars => LexerWorks'
<1>1. UNCHANGED lexerVars => UNCHANGED LexP!vars
  BY DEF lexerVars, LexP!vars, LexP!scanVars, LexP!lexVars
<1> QED BY <1>1, LexContext, LexP!CallsStay DEF LexerWorks, lexerVars

LEMMA ParserStays == ParserWorks /\ UNCHANGED parserVars => ParserWorks'
  BY ParserGoesOn DEF ParserWorks

LEMMA LexerRunsOn == LexerWorks /\ LexerRuns => LexerWorks'
<1> SUFFICES ASSUME LexerWorks, LexerRuns PROVE LexerWorks'
  OBVIOUS
<1>1. LexP!LexNext
  BY SameLexer DEF LexerRuns
<1>2. mode = "idle" /\ out # << >> => ~LexP!Stops(LexP!LastOut)
  BY DEF LexerRuns, Drained, LexP!Stops, Lex!LastOut, LexP!LastOut
<1>3. LexP!CallInv' /\ input' = input
  BY <1>1, <1>2, LexerGoesOn DEF LexerWorks
<1> QED BY <1>3 DEF LexerWorks

LEMMA ParserRunsOn == ParserWorks /\ ParserRuns => ParserWorks'
  BY SameParser, ParserGoesOn DEF ParserRuns, ParserWorks

LEMMA LexerStarts == NewLexer /\ buf' \in Seq(Text) => LexerWorks'
<1> SUFFICES ASSUME NewLexer, buf' \in Seq(Text) PROVE LexerWorks'
  OBVIOUS
<1>1. input' \in Seq(Rune) /\ input' \in Seq(Text)
  BY SeqMonotonic DEF NewLexer, Text
<1>2. LexP!LexInit'
  BY <1>1 DEF NewLexer, LexP!LexInit, LexP!Init, LexP!New, LexP!RuneAt, LexP!ErrorAt,
      LexP!Visible, Lex!RuneAt, Lex!ErrorAt, Lex!Visible
<1>3. LexP!CallInv'
  BY <1>2, LexerBegins, PTL
<1> QED BY <1>1, <1>3 DEF LexerWorks

LEMMA ParserBegun == ParP!LexerAnswers(feed) /\ ParP!New(feed) => ParP!ParseInv
  BY ParserBegins

LEMMA ParserStarts ==
  LexerWorks /\ NewParser =>
    ParserWorks' /\ \A i \in DOMAIN feed' : feed'[i] = "eof_error" => Len(input) < 2
<1> SUFFICES ASSUME LexerWorks, NewParser
             PROVE  ParserWorks' /\ \A i \in DOMAIN feed' : feed'[i] = "eof_error" => Len(input) < 2
  OBVIOUS
<1>1. Drained /\ feed' = Answers
  BY DEF NewParser
<1>2. Par!LexerAnswers(Answers) /\ \A i \in DOMAIN Answers : Answers[i] = "eof_error" => Len(input) < 2
  BY <1>1, FeedIs DEF LexerWorks, Text
<1>3. ParP!LexerAnswers(feed)'
  <2>1. ParP!LexerAnswers(feed')
    BY <1>1, <1>2, SameAnswers
  <2> QED BY <2>1
<1>4. ParP!New(feed)'
  BY DEF NewParser, ParP!New, Par!ErrorOf, ParP!ErrorOf, Par!LexicalError, ParP!LexicalError,
      Par!cur, Par!next, ParP!cur, ParP!next, Par!Answer, ParP!Answer, Par!Nil, ParP!Nil,
      Par!Node, ParP!Node
<1>5. ParP!ParseInv'
  BY <1>3, <1>4, ParserBegun, PTL
<1> QED BY <1>1, <1>2, <1>5 DEF ParserWorks

LEMMA NoFeed == ParP!LexerAnswers(<< >>)
<1>1. << >> \in Seq(ParP!Tokens \ {"EOF"}) /\ DOMAIN << >> = {} /\ Len(<< >>) = 0
  BY EmptySeq
<1>2. 1 .. 0 - 1 = {}
  OBVIOUS
<1> QED BY <1>1, <1>2 DEF ParP!LexerAnswers

LEMMA PipelineInit == Init => Pipeline
<1> SUFFICES ASSUME Init PROVE Pipeline
  OBVIOUS
<1>1. << >> \in Seq(Text) /\ << >> \in Seq(Rune) /\ DOMAIN << >> = {}
  BY EmptySeq
<1>2. LexP!LexInit /\ input = << >>
  BY <1>1 DEF Init, LexP!LexInit, LexP!Init, LexP!New, Lex!New, LexP!RuneAt, LexP!ErrorAt,
      LexP!Visible, Lex!RuneAt, Lex!ErrorAt, Lex!Visible
<1>3. LexerWorks
  BY <1>1, <1>2, LexerBegins DEF LexerWorks
<1>4. feed = << >> /\ ParP!New(feed)
  BY DEF Init, Par!New, ParP!New, Par!ErrorOf, ParP!ErrorOf, Par!LexicalError,
      ParP!LexicalError, Par!cur, Par!next, ParP!cur, ParP!next, Par!Answer, ParP!Answer,
      Par!Nil, ParP!Nil, Par!Node, ParP!Node
<1>5. ParserWorks
  BY <1>4, NoFeed, ParserBegun DEF ParserWorks
<1>6. TextIsLexed /\ Waits
  BY <1>1 DEF Init, TextIsLexed, Waits
<1> QED BY <1>3, <1>5, <1>6 DEF Pipeline

LEMMA TextGrows ==
  ASSUME buf \in Seq(Text)
  PROVE  /\ << >> \in Seq(Text)
         /\ Append(buf, Newline) \in Seq(Text) /\ Len(Append(buf, Newline)) = Len(buf) + 1
         /\ \A l \in Lines : buf \o l \in Seq(Text)
<1>1. Newline \in Text
  BY ReplAssumption DEF Text
<1>2. Append(buf, Newline) \in Seq(Text) /\ Len(Append(buf, Newline)) = Len(buf) + 1
  BY <1>1, AppendProperties
<1>3. ASSUME NEW l \in Lines PROVE buf \o l \in Seq(Text)
  <2>1. Rune \ {EOF, Newline} \subseteq Text
    BY DEF Text
  <2>2. l \in Seq(Text)
    BY <2>1, ReplAssumption, SeqMonotonic
  <2> QED BY <2>2, ConcatProperties
<1> QED BY <1>2, <1>3, EmptySeq

LEMMA PipelineStep == Pipeline /\ [ReplNext]_vars => Pipeline'
<1> SUFFICES ASSUME Pipeline, [ReplNext]_vars PROVE Pipeline'
  OBVIOUS
<1>0. LexerWorks /\ ParserWorks /\ TextIsLexed /\ Waits /\ buf \in Seq(Text)
  BY DEF Pipeline, TextIsLexed
<1>1. ASSUME NEW l \in Lines, ReadLine(l) PROVE Pipeline'
  <2>1. buf' \in Seq(Text) /\ NewLexer /\ UNCHANGED parserVars /\ state' = "lexing"
    BY <1>0, <1>1, TextGrows DEF ReadLine
  <2>2. LexerWorks' /\ ParserWorks'
    BY <1>0, <2>1, LexerStarts, ParserStays
  <2>3. input' = buf'
    BY <2>1 DEF NewLexer
  <2> QED BY <2>1, <2>2, <2>3 DEF Pipeline, TextIsLexed, Waits
<1>2. CASE LexerRuns
  <2>1. LexerWorks' /\ ParserWorks'
    BY <1>0, <1>2, LexerRunsOn, ParserStays DEF LexerRuns
  <2>2. input' = input
    <3>1. LexP!LexNext /\ (mode = "idle" /\ out # << >> => ~LexP!Stops(LexP!LastOut))
      BY <1>2, SameLexer DEF LexerRuns, Drained, LexP!Stops, Lex!LastOut, LexP!LastOut
    <3> QED BY <1>0, <3>1, LexerGoesOn DEF LexerWorks
  <2>3. state = "lexing" /\ UNCHANGED <<buf, state>>
    BY <1>2 DEF LexerRuns
  <2> QED BY <1>0, <2>1, <2>2, <2>3 DEF Pipeline, TextIsLexed, Waits
<1>3. CASE NewParser
  <2>1. ParserWorks' /\ \A i \in DOMAIN feed' : feed'[i] = "eof_error" => Len(input) < 2
    BY <1>0, <1>3, ParserStarts
  <2>2. state = "lexing" /\ state' = "parsing" /\ UNCHANGED buf /\ UNCHANGED lexerVars
    BY <1>3 DEF NewParser
  <2>3. LexerWorks' /\ input = buf /\ input' = buf'
    BY <1>0, <2>2, LexerStays DEF TextIsLexed, lexerVars
  <2>4. ErrorsComeOf(1)'
    <3>1. Len(buf') \in Nat /\ input = buf'
      BY <1>0, <2>2, <2>3, LenProperties
    <3> QED BY <2>1, <3>1 DEF ErrorsComeOf
  <2> QED BY <1>0, <2>1, <2>2, <2>3, <2>4 DEF Pipeline, TextIsLexed, Waits
<1>4. CASE ParserRuns
  <2>1. LexerWorks' /\ ParserWorks'
    BY <1>0, <1>4, ParserRunsOn, LexerStays DEF ParserRuns
  <2>2. state = "parsing" /\ UNCHANGED <<buf, state, lexerVars>> /\ feed' = feed
    BY <1>4 DEF ParserRuns, Par!Next, Par!ParseStops, Par!ParseItem, Par!NodeAtEOF,
        Par!NodeRefused, Par!NodeLeaf, Par!NodeList, Par!InfixPanics, Par!InfixNone,
        Par!parseDotSelector, Par!SexpItem, Par!SexpEnd, Par!SexpAtEOF, Par!ReturnNothing,
        Par!ReturnToParse, Par!ReturnToSexp, Par!ReturnToDot, Par!Refuse
  <2>3. ErrorsComeOf(1)'
    BY <1>0, <2>2 DEF Waits, ErrorsComeOf
  <2> QED BY <1>0, <2>1, <2>2, <2>3 DEF Pipeline, TextIsLexed, Waits, lexerVars
<1>5. CASE WaitForMore
  <2>1. /\ state = "parsing" /\ state' = "prompt" /\ pc = "done" /\ ParP!TooEarly
        /\ buf' = Append(buf, Newline) /\ UNCHANGED lexerVars /\ UNCHANGED parserVars
    BY <1>5 DEF WaitForMore, Parsed, Incomplete, ParP!TooEarly
  <2>2. LexerWorks' /\ ParserWorks' /\ buf' \in Seq(Text) /\ Len(buf') = Len(buf) + 1
    BY <1>0, <2>1, TextGrows, LexerStays, ParserStays
  <2>3. ErrorsComeOf(1) /\ Len(buf) \in Nat
    BY <1>0, <2>1, LenProperties DEF Waits
  <2>4. ErrorsComeOf(2)'
    BY <2>1, <2>2, <2>3 DEF ErrorsComeOf, parserVars
  <2>5. pc' = "done" /\ ParP!TooEarly'
    BY <2>1 DEF ParP!TooEarly, parserVars
  <2> QED BY <2>1, <2>2, <2>4, <2>5 DEF Pipeline, TextIsLexed, Waits
<1>6. CASE ShowError \/ ShowValue
  <2>1. buf' = << >> /\ state' = "prompt" /\ UNCHANGED lexerVars /\ UNCHANGED parserVars
    BY <1>6 DEF ShowError, ShowValue, Reset
  <2>2. LexerWorks' /\ ParserWorks' /\ buf' \in Seq(Text)
    BY <1>0, <2>1, TextGrows, LexerStays, ParserStays
  <2> QED BY <2>1, <2>2 DEF Pipeline, TextIsLexed, Waits
<1>7. ASSUME UNCHANGED lexerVars, UNCHANGED parserVars, UNCHANGED buf, state' \in {state, "done", "crashed"}
      PROVE  Pipeline'
  <2>1. LexerWorks' /\ ParserWorks'
    BY <1>0, <1>7, LexerStays, ParserStays
  <2>2. TextIsLexed'
    BY <1>0, <1>7 DEF TextIsLexed, lexerVars
  <2>3. Waits'
    <3>1. pc' = pc /\ feed' = feed /\ (ParP!TooEarly' <=> ParP!TooEarly)
      BY <1>7 DEF parserVars, ParP!TooEarly
    <3> QED BY <1>0, <1>7, <3>1 DEF Waits, ErrorsComeOf
  <2> QED BY <2>1, <2>2, <2>3 DEF Pipeline
<1>8. CASE ParserPanics \/ EvalPanics \/ InputEnds \/ UNCHANGED vars
  BY <1>7, <1>8 DEF ParserPanics, EvalPanics, InputEnds, vars
<1>9. ASSUME NEW l, ReadHelp(l) \/ ReadQuit(l) PROVE Pipeline'
  BY <1>7, <1>9 DEF ReadHelp, ReadQuit
<1> QED BY <1>1, <1>2, <1>3, <1>4, <1>5, <1>6, <1>8, <1>9 DEF ReplNext, Step

LEMMA PipelineHolds == Spec => []Pipeline
  BY PipelineInit, PipelineStep, PTL DEF Spec

(* What the lexer answers on any buffer is what the parser was modelled    *)
(* and proved for: nothing after the end, an eof error only for a rune or  *)
(* none, a malformed string followed by an atom (repl.go:71-74).           *)
THEOREM ParserGetsAnswers == Spec => []FeedIsWellFormed
<1>1. Pipeline => FeedIsWellFormed
  BY SameAnswers DEF Pipeline, ParserWorks, ParP!ParseInv, ParP!Place, FeedIsWellFormed
<1> QED BY <1>1, PipelineHolds, PTL

(* The REPL asks for another line only if the buffer is a rune or less, or *)
(* leaves open a list, a string or a point (or has a malformed string in a *)
(* list): no complete text waits for more (repl.go:76-81).                 *)
THEOREM WaitsForAReason == Spec => []PendingIsUnfinished
<1>1. Pipeline => PendingIsUnfinished
  <2> SUFFICES ASSUME Pipeline, state = "prompt", buf # << >>, ~(Len(buf) <= 2)
               PROVE  \/ OpenBefore(Len(feed) + 1)
                      \/ \E i \in DOMAIN feed : feed[i] \in {"open_string", "lone_quote"} \/ DanglingAt(i)
                      \/ \E i \in DOMAIN feed : feed[i] = "bad_string" /\ OpenBefore(i)
    BY DEF PendingIsUnfinished
  <2>1. ParP!MoreMayHelp /\ ErrorsComeOf(2)
    BY DEF Pipeline, Waits, ParserWorks, ParP!ParseInv, ParP!WhyEarly
  <2>2. \A i \in DOMAIN feed : feed[i] # "eof_error"
    BY <2>1 DEF ErrorsComeOf
  <2>3. \A k : ParP!OpenBefore(k) <=> OpenBefore(k)
    BY SameCount DEF ParP!OpenBefore, OpenBefore
  <2>4. \A i : ParP!DanglingAt(i) <=> DanglingAt(i)
    BY SameAnswer DEF ParP!DanglingAt, DanglingAt
  <2> QED BY <2>1, <2>2, <2>3, <2>4 DEF ParP!MoreMayHelp
<1> QED BY <1>1, PipelineHolds, PTL

(* What Run hands to Eval is the whole of the buffer: the nodes span every *)
(* token without gap or overlap and none is nil, whatever lines the text   *)
(* came in (repl.go:76-89, parser.go:50-65).                               *)
THEOREM EvaluatesWholes == Spec => WholeText
<1> DEFINE Whole ==
      state = "parsing" /\ errs = {} /\ state' \in {"prompt", "crashed"} /\ pc # "panicked" =>
        /\ Par!Run(pkg, 1) = Len(feed) + 1
        /\ \A i \in DOMAIN pkg : Par!Built(pkg[i])
<1>1. Pipeline /\ [ReplNext]_vars => [Whole]_vars
  <2> SUFFICES ASSUME Pipeline, ReplNext, state = "parsing", errs = {},
                      state' \in {"prompt", "crashed"}, pc # "panicked"
               PROVE  Par!Run(pkg, 1) = Len(feed) + 1 /\ \A i \in DOMAIN pkg : Par!Built(pkg[i])
    OBVIOUS
  <2>1. pc = "done"
    BY DEF ReplNext, Step, ReadLine, ReadHelp, ReadQuit, InputEnds, LexerRuns, NewParser,
        ParserRuns, ParserPanics, WaitForMore, ShowError, ShowValue, EvalPanics, Parsed
  <2>2. /\ ParP!Shapes /\ ParP!Place /\ ParP!Taken /\ ParP!TreeIsSound /\ ParP!EveryTokenOnce /\ ParP!NoGap
    BY DEF Pipeline, ParserWorks, ParP!ParseInv
  <2>3. ParP!Run(pkg, 1) = Len(feed) + 1 /\ \A i \in DOMAIN pkg : ParP!Built(pkg[i])
    <3>1. \A f \in {} : ParP!LexerAnswers(f)
      OBVIOUS
    <3> QED BY <2>1, <2>2, <3>1, ParP!TakesWholeText
  <2> QED BY <2>3, SameRun, SameBuilt
<1> QED BY <1>1, PipelineHolds, PTL DEF Spec, WholeText
=============================================================================
