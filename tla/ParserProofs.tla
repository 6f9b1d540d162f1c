---------------------------- MODULE ParserProofs ----------------------------
(***************************************************************************)
(* Proofs about Parser, for feeds of any length.  What the nodes are, and  *)
(* which tokens they were made from, holds for any answers whatever; what  *)
(* counts lists rests on LexerAnswers, which ReplProofs proves of the      *)
(* lexer.                                                                  *)
(***************************************************************************)
EXTENDS Parser, DataLemmas

(***************************************************************************)
(* Shapes: what each variable holds, and which frame is on top.            *)
(***************************************************************************)
Spans(n) == n.from \in Nat /\ n.to \in Nat
ListOfNodes(s) == IsSeq(s) /\ \A i \in DOMAIN s : Spans(s[i])

Frame(f) ==
  /\ f = [call |-> f.call, from |-> f.from, items |-> f.items]
  /\ f.call \in {"sexp", "dot"}
  /\ f.from \in Nat
  /\ ListOfNodes(f.items)
  /\ f.call = "dot" => Len(f.items) = 1

Shapes ==
  /\ at \in Nat \ {0}
  /\ IsSeq(stack) /\ \A i \in DOMAIN stack : Frame(stack[i])
  /\ ListOfNodes(pkg)
  /\ Spans(parsed)
  /\ pc = "sexp" => stack # << >> /\ Top.call = "sexp"

LEMMA NodeIs ==
  ASSUME NEW t, NEW from \in Nat, NEW to \in Nat, NEW kids
  PROVE  /\ Node(t, from, to, kids).t = t /\ Node(t, from, to, kids).kids = kids
         /\ Node(t, from, to, kids).from = from /\ Node(t, from, to, kids).to = to
         /\ Spans(Node(t, from, to, kids))
  BY DEF Node, Spans

LEMMA NextTokKeeps ==
  ASSUME NEW n, nextTok(n) PROVE at' = at + n /\ errs \subseteq errs'
  BY DEF nextTok

(* What Build makes of a list: a hole, or a node over the same stretch     *)
(* whose children are some of the items, as many as its form wants.        *)
LEMMA BuildMakes ==
  ASSUME NEW from \in Nat, NEW to \in Nat, NEW items, IsSeq(items)
  PROVE  LET n == Build(Node("SExp", from, to, items)) IN
         /\ Spans(n) /\ Arity(n)
         /\ \/ IsHole(n)
            \/ /\ ~IsHole(n) /\ n.from = from /\ n.to = to
               /\ \A i \in DOMAIN n.kids : \E j \in DOMAIN items : n.kids[i] = items[j]
<1> DEFINE list == Node("SExp", from, to, items)
           Fits(n) == /\ Spans(n) /\ Arity(n)
                      /\ \/ IsHole(n)
                         \/ /\ ~IsHole(n) /\ n.from = from /\ n.to = to
                            /\ \A i \in DOMAIN n.kids : \E j \in DOMAIN items : n.kids[i] = items[j]
<1>1. /\ list.t = "SExp" /\ list.kids = items /\ list.from = from /\ list.to = to /\ Spans(list)
  BY NodeIs
<1>2. Len(items) \in Nat /\ DOMAIN items = 1 .. Len(items) /\ (items = << >> <=> Len(items) = 0)
  BY SeqDomain
<1> HIDE DEF list
<1>3. ASSUME NEW hole \in Holes PROVE Fits(NilOf(hole))
  <2>1. /\ NilOf(hole).t = hole /\ Spans(NilOf(hole))
    BY NodeIs DEF NilOf
  <2> QED BY <2>1 DEF IsHole, Holes, Arity
<1>4. ASSUME NEW t \in {"If", "DotSelector", "SpecialOp", "ImportGo"},
             NEW kids, IsSeq(kids), Arity(Node(t, from, to, kids)),
             \A i \in DOMAIN kids : \E j \in DOMAIN items : kids[i] = items[j]
      PROVE  Fits(Node(t, from, to, kids))
  <2>1. LET n == Node(t, from, to, kids) IN
        /\ n.t = t /\ n.kids = kids /\ n.from = from /\ n.to = to /\ Spans(n)
    BY NodeIs
  <2> QED BY <1>4, <2>1 DEF IsHole, Holes
<1>5. ASSUME NEW m \in {3, 4}, m <= Len(items)
      PROVE  /\ IsSeq(SubSeq(items, 2, m)) /\ Len(SubSeq(items, 2, m)) = m - 1
             /\ \A i \in DOMAIN SubSeq(items, 2, m) : \E j \in DOMAIN items : SubSeq(items, 2, m)[i] = items[j]
  <2>1. /\ IsSeq(SubSeq(items, 2, m)) /\ Len(SubSeq(items, 2, m)) = m - 1
        /\ \A i \in 1 .. m - 1 : SubSeq(items, 2, m)[i] = items[i + 1]
    BY <1>2, <1>5, SeqSub
  <2>2. DOMAIN SubSeq(items, 2, m) = 1 .. m - 1
    BY <2>1, SeqDomain
  <2> QED BY <1>2, <1>5, <2>1, <2>2
<1>6. ASSUME items # << >>
      PROVE  /\ IsSeq(Tail(items)) /\ Len(Tail(items)) = Len(items) - 1
             /\ \A i \in DOMAIN Tail(items) : \E j \in DOMAIN items : Tail(items)[i] = items[j]
  <2>1. /\ IsSeq(Tail(items)) /\ Len(Tail(items)) = Len(items) - 1
        /\ \A i \in 1 .. Len(items) - 1 : Tail(items)[i] = items[i + 1]
    BY <1>6, SeqTail
  <2>2. DOMAIN Tail(items) = 1 .. Len(items) - 1
    BY <2>1, SeqDomain
  <2> QED BY <1>2, <1>6, <2>1, <2>2
<1> HIDE DEF Fits
<1>7. Fits(buildIf(items, list))
  <2>1. CASE Len(items) < 3 \/ (items[1].t = "cond" /\ Len(items) > 3)
    <3>1. ~sexpMatches(items, 3) \/ (items[1].t = "cond" /\ Len(items) > 3)
      BY <1>2, <2>1 DEF sexpMatches
    <3>2. buildIf(items, list) = NilOf("nil If")
      BY <3>1 DEF buildIf
    <3> QED BY <1>3, <3>2 DEF Holes
  <2>2. CASE Len(items) >= 3 /\ ~(items[1].t = "cond" /\ Len(items) > 3)
    <3> DEFINE m == IF Len(items) = 3 THEN 3 ELSE 4
               kids == SubSeq(items, 2, m)
    <3>1. buildIf(items, list) = Node("If", from, to, kids)
      BY <1>1, <1>2, <2>2 DEF buildIf, sexpMatches
    <3>2. m \in {3, 4} /\ m <= Len(items)
      BY <1>2, <2>2
    <3> HIDE DEF m
    <3>3. /\ IsSeq(kids) /\ Len(kids) \in {2, 3}
          /\ \A i \in DOMAIN kids : \E j \in DOMAIN items : kids[i] = items[j]
      BY <1>5, <3>2
    <3> HIDE DEF kids
    <3>4. Arity(Node("If", from, to, kids))
      BY <3>3, NodeIs DEF Arity
    <3> QED BY <1>4, <3>1, <3>3, <3>4
  <2> QED BY <1>2, <2>1, <2>2
<1>8. Fits(buildDotSelector(items, list))
  <2>1. CASE Len(items) < 3
    <3>1. ~sexpMatches(items, 3)
      BY <1>2, <2>1 DEF sexpMatches
    <3>2. buildDotSelector(items, list) = NilOf("nil DotSelector")
      BY <3>1 DEF buildDotSelector
    <3> QED BY <1>3, <3>2 DEF Holes
  <2>2. CASE Len(items) >= 3
    <3> DEFINE kids == SubSeq(items, 2, 3)
    <3>1. buildDotSelector(items, list) = Node("DotSelector", from, to, kids)
      BY <1>1, <1>2, <2>2 DEF buildDotSelector, sexpMatches
    <3>2. /\ IsSeq(kids) /\ Len(kids) = 2
          /\ \A i \in DOMAIN kids : \E j \in DOMAIN items : kids[i] = items[j]
      BY <1>2, <1>5, <2>2
    <3> HIDE DEF kids
    <3>3. Arity(Node("DotSelector", from, to, kids))
      BY <3>2, NodeIs DEF Arity
    <3> QED BY <1>4, <3>1, <3>2, <3>3
  <2> QED BY <1>2, <2>1, <2>2
<1>9. ASSUME items # << >> PROVE Fits(buildSpecialOperator(items, list))
  <2>1. CASE Len(items) < 2 \/ (items[1].t = "-" /\ Len(items) # 3)
    BY <2>1, <1>2, <1>3 DEF buildSpecialOperator, Holes
  <2>2. CASE ~(Len(items) < 2 \/ (items[1].t = "-" /\ Len(items) # 3))
    <3>1. buildSpecialOperator(items, list) = Node("SpecialOp", from, to, Tail(items))
      BY <1>1, <2>2 DEF buildSpecialOperator
    <3>2. Len(Tail(items)) >= 1
      BY <1>2, <1>6, <1>9, <2>2
    <3>3. Arity(Node("SpecialOp", from, to, Tail(items)))
      BY <3>2 DEF Arity, Node
    <3> QED BY <1>4, <1>6, <1>9, <3>1, <3>3
  <2> QED BY <2>1, <2>2
<1>10. ASSUME items # << >> PROVE Fits(buildImportGo(items, list))
  <2>1. CASE Refused(items) # {}
    BY <2>1, <1>3 DEF buildImportGo, Holes
  <2>2. CASE Refused(items) = {}
    <3>1. buildImportGo(items, list) = Node("ImportGo", from, to, Tail(items))
      BY <1>1, <2>2 DEF buildImportGo
    <3>2. Arity(Node("ImportGo", from, to, Tail(items)))
      BY NodeIs DEF Arity
    <3> QED BY <1>4, <1>6, <1>10, <3>1, <3>2
  <2> QED BY <2>1, <2>2
<1>11. ASSUME items = << >> \/ items[1].t \notin isSpecial PROVE Fits(list)
  <2>1. Arity(list)
    BY <1>1, <1>11 DEF Arity
  <2> QED BY <1>1, <2>1 DEF IsHole, Holes, Fits
<1>12. Fits(Build(list))
  <2>1. CASE items = << >>
    BY <1>1, <1>11, <2>1 DEF Build
  <2>2. CASE items # << >>
    <3> HIDE DEF Fits
    <3>1. CASE items[1].t \in {"if", "cond"}
      BY <1>1, <1>7, <2>2, <3>1 DEF Build, Operators
    <3>2. CASE items[1].t = "."
      BY <1>1, <1>8, <2>2, <3>2 DEF Build, Operators
    <3>3. CASE items[1].t \in Operators
      BY <1>1, <1>9, <2>2, <3>3 DEF Build, Operators
    <3>4. CASE items[1].t = "import-go"
      BY <1>1, <1>10, <2>2, <3>4 DEF Build, Operators
    <3>5. CASE items[1].t \notin isSpecial
      BY <1>1, <1>11, <2>2, <3>5 DEF Build, isSpecial
    <3> QED BY <3>1, <3>2, <3>3, <3>4, <3>5 DEF isSpecial
  <2> QED BY <2>1, <2>2
<1> QED BY <1>12 DEF Fits, list

(***************************************************************************)
(* The stack: a call is pushed, popped, or gets another item.              *)
(***************************************************************************)
LEMMA PopStack ==
  ASSUME IsSeq(stack), stack # << >>, stack' = Front(stack)
  PROVE  /\ IsSeq(stack') /\ Len(stack') = Len(stack) - 1 /\ Len(stack) \in Nat \ {0}
         /\ \A i \in 1 .. Len(stack) - 1 : stack'[i] = stack[i]
         /\ DOMAIN stack = 1 .. Len(stack) /\ DOMAIN stack' = 1 .. Len(stack) - 1
<1>1. Len(stack) \in Nat \ {0} /\ DOMAIN stack = 1 .. Len(stack)
  BY SeqDomain
<1>2. stack' = SubSeq(stack, 1, Len(stack) - 1)
  BY DEF Front
<1>3. /\ IsSeq(stack') /\ Len(stack') = Len(stack) - 1
      /\ \A i \in 1 .. Len(stack) - 1 : stack'[i] = stack[i]
  BY <1>1, <1>2, SeqSub
<1> QED BY <1>1, <1>3, SeqDomain

LEMMA PushStack ==
  ASSUME IsSeq(stack), NEW f, stack' = Append(stack, f)
  PROVE  /\ IsSeq(stack') /\ Len(stack') = Len(stack) + 1 /\ Len(stack) \in Nat
         /\ stack'[Len(stack) + 1] = f /\ stack' # << >>
         /\ \A i \in 1 .. Len(stack) : stack'[i] = stack[i]
         /\ DOMAIN stack = 1 .. Len(stack) /\ DOMAIN stack' = 1 .. Len(stack) + 1
  BY SeqAppend, SeqDomain

LEMMA GrowTop ==
  ASSUME Shapes, stack # << >>, NEW items,
         stack' = [stack EXCEPT ![Len(stack)].items = items]
  PROVE  /\ IsSeq(stack') /\ Len(stack') = Len(stack) /\ Len(stack) \in Nat \ {0}
         /\ \A i \in 1 .. Len(stack) - 1 : stack'[i] = stack[i]
         /\ stack'[Len(stack)] = [call |-> Top.call, from |-> Top.from, items |-> items]
         /\ DOMAIN stack = 1 .. Len(stack) /\ DOMAIN stack' = 1 .. Len(stack)
<1>1. Len(stack) \in Nat \ {0} /\ DOMAIN stack = 1 .. Len(stack)
  BY SeqDomain DEF Shapes
<1>2. Top = [call |-> Top.call, from |-> Top.from, items |-> Top.items]
  BY <1>1 DEF Shapes, Frame, Top
<1>3. [Top EXCEPT !.items = items] = [call |-> Top.call, from |-> Top.from, items |-> items]
  BY <1>2
<1> DEFINE f == [Top EXCEPT !.items = items]
<1>4. stack' = [stack EXCEPT ![Len(stack)] = f]
  BY <1>1 DEF Top
<1> HIDE DEF f
<1>5. /\ IsSeq(stack') /\ Len(stack') = Len(stack)
      /\ stack'[Len(stack)] = f
      /\ \A i \in 1 .. Len(stack) : i # Len(stack) => stack'[i] = stack[i]
  <2>1. IsSeq(stack) /\ Len(stack) \in 1 .. Len(stack)
    BY <1>1 DEF Shapes
  <2>2. IsSeq([stack EXCEPT ![Len(stack)] = f]) /\ Len([stack EXCEPT ![Len(stack)] = f]) = Len(stack)
    BY <2>1, SeqExcept, Zenon
  <2>3. /\ [stack EXCEPT ![Len(stack)] = f][Len(stack)] = f
        /\ \A i \in 1 .. Len(stack) : i # Len(stack) => [stack EXCEPT ![Len(stack)] = f][i] = stack[i]
    BY <2>1, SeqExcept
  <2> QED BY <1>4, <2>2, <2>3
<1>6. DOMAIN stack' = 1 .. Len(stack)
  BY <1>5, SeqDomain
<1>7. f = [call |-> Top.call, from |-> Top.from, items |-> items]
  BY <1>3 DEF f
<1> QED BY <1>1, <1>5, <1>6, <1>7

LEMMA ItemsGrow ==
  ASSUME NEW items, ListOfNodes(items), NEW n, Spans(n)
  PROVE  ListOfNodes(Append(items, n))
<1>1. Len(items) \in Nat /\ DOMAIN items = 1 .. Len(items)
  BY SeqDomain DEF ListOfNodes
<1>2. /\ IsSeq(Append(items, n)) /\ Len(Append(items, n)) = Len(items) + 1
      /\ \A i \in 1 .. Len(items) : Append(items, n)[i] = items[i]
      /\ Append(items, n)[Len(items) + 1] = n
  BY SeqAppend DEF ListOfNodes
<1>3. DOMAIN Append(items, n) = 1 .. Len(items) + 1
  BY <1>1, <1>2, SeqDomain
<1> QED BY <1>1, <1>2, <1>3 DEF ListOfNodes

LEMMA ShapesInit == (\E f : New(f)) => Shapes
<1> SUFFICES ASSUME NEW f, New(f) PROVE Shapes
  OBVIOUS
<1>1. ListOfNodes(<< >>)
  BY SeqOfSome, SeqDomain DEF ListOfNodes
<1>2. Spans(Nil)
  BY NodeIs DEF Nil
<1> QED BY <1>1, <1>2 DEF New, Shapes, ListOfNodes, Goto

LEMMA ShapesStep == Shapes /\ [Next]_vars => Shapes'
<1> SUFFICES ASSUME Shapes, [Next]_vars PROVE Shapes'
  OBVIOUS
<1> USE DEF Goto
<1>0. Spans(Nil) /\ \A hole : Spans(NilOf(hole))
  BY NodeIs DEF Nil, NilOf
<1>1. CASE UNCHANGED vars
  BY <1>1 DEF vars, Shapes, Top
<1>2. CASE ParseStops \/ ParseItem \/ InfixPanics \/ InfixNone \/ SexpItem \/ ReturnNothing
  BY <1>2 DEF ParseStops, ParseItem, InfixPanics, InfixNone, SexpItem, ReturnNothing, Shapes, Top
<1>3. CASE NodeAtEOF \/ NodeRefused
  BY <1>0, <1>3 DEF NodeAtEOF, NodeRefused, Refuse, Shapes, Top
<1>4. CASE NodeLeaf
  <2>1. Spans(parsed')
    BY <1>4, NodeIs DEF NodeLeaf, Shapes
  <2> QED BY <1>4, <2>1 DEF NodeLeaf, Shapes, Top
<1>5. CASE NodeList
  <2> DEFINE f == [call |-> "sexp", from |-> at, items |-> << >>]
  <2>1. at' = at + 1 /\ stack' = Append(stack, f)
    BY <1>5, NextTokKeeps DEF NodeList
  <2>2. Frame(f)
    <3>1. ListOfNodes(<< >>)
      BY SeqOfSome, SeqDomain DEF ListOfNodes
    <3> QED BY <3>1 DEF Frame, Shapes
  <2>3. f.call = "sexp"
    OBVIOUS
  <2> HIDE DEF f
  <2>4. IsSeq(stack') /\ (\A i \in DOMAIN stack' : Frame(stack'[i])) /\ stack' # << >> /\ Top' = f
    BY <2>1, <2>2, PushStack DEF Shapes, Top
  <2> QED BY <1>5, <2>1, <2>3, <2>4 DEF NodeList, Shapes
<1>6. CASE parseDotSelector
  <2> DEFINE f == [call |-> "dot", from |-> parsed.from, items |-> <<parsed>>]
  <2>1. at' = at + 2 /\ stack' = Append(stack, f)
    BY <1>6, NextTokKeeps DEF parseDotSelector
  <2>2. Frame(f)
    <3>1. IsSeq(<<parsed>>) /\ Len(<<parsed>>) = 1
      BY SeqOfSome
    <3>2. DOMAIN <<parsed>> = 1 .. 1
      BY <3>1, SeqDomain
    <3>3. ListOfNodes(<<parsed>>)
      BY <3>1, <3>2 DEF ListOfNodes, Shapes
    <3> QED BY <3>1, <3>3 DEF Frame, Shapes, Spans
  <2> HIDE DEF f
  <2>3. IsSeq(stack') /\ (\A i \in DOMAIN stack' : Frame(stack'[i])) /\ stack' # << >>
    BY <2>1, <2>2, PushStack DEF Shapes
  <2> QED BY <1>6, <2>1, <2>3 DEF parseDotSelector, Shapes
<1>7. ASSUME stack # << >>, stack' = Front(stack)
      PROVE  IsSeq(stack') /\ \A i \in DOMAIN stack' : Frame(stack'[i])
  BY <1>7, PopStack DEF Shapes
<1>8. stack # << >> => Frame(Top)
  BY PopStack, SeqDomain DEF Shapes, Top
<1>9. CASE SexpEnd
  <2> DEFINE list == Node("SExp", Top.from, at, Top.items)
  <2>1. Spans(Build(list))
    BY <1>8, <1>9, BuildMakes DEF SexpEnd, Shapes, Frame, ListOfNodes
  <2>2. /\ parsed' = Build(list) /\ pc' # "sexp" /\ stack' = Front(stack) /\ stack # << >>
        /\ UNCHANGED <<at, pkg>>
    BY <1>9 DEF SexpEnd, Shapes
  <2> HIDE DEF list
  <2> QED BY <1>7, <2>1, <2>2 DEF Shapes, Spans, ListOfNodes
<1>10. CASE SexpAtEOF
  <2>1. /\ Spans(parsed') /\ pc' # "sexp" /\ stack' = Front(stack) /\ stack # << >>
        /\ UNCHANGED <<at, pkg>>
    BY <1>0, <1>10 DEF SexpAtEOF, Shapes
  <2> QED BY <1>7, <2>1 DEF Shapes
<1>11. CASE ReturnToParse
  <2>1. at' = at + 1 /\ ListOfNodes(pkg')
    BY <1>11, NextTokKeeps, ItemsGrow DEF ReturnToParse, Shapes
  <2> QED BY <1>11, <2>1 DEF ReturnToParse, Shapes
<1>12. CASE ReturnToSexp
  <2> DEFINE items == IF parsed = Nil THEN Top.items ELSE Append(Top.items, parsed)
  <2>1. at' = at + 1 /\ stack # << >> /\ Top.call = "sexp"
    BY <1>12, NextTokKeeps DEF ReturnToSexp
  <2>2. stack' = [stack EXCEPT ![Len(stack)].items = items]
    BY <1>12, <2>1, SeqDomain DEF ReturnToSexp, Top, Shapes
  <2>3. ListOfNodes(items)
    BY <1>8, <2>1, ItemsGrow DEF Frame, Shapes
  <2> HIDE DEF items
  <2>4. /\ IsSeq(stack') /\ Len(stack') = Len(stack) /\ Len(stack) \in Nat \ {0}
        /\ \A i \in 1 .. Len(stack) - 1 : stack'[i] = stack[i]
        /\ stack'[Len(stack)] = [call |-> Top.call, from |-> Top.from, items |-> items]
        /\ DOMAIN stack = 1 .. Len(stack) /\ DOMAIN stack' = 1 .. Len(stack)
    BY <2>1, <2>2, GrowTop
  <2>5. Frame(stack'[Len(stack)]) /\ Top'.call = "sexp"
    BY <1>8, <2>1, <2>3, <2>4 DEF Frame, Top
  <2>6. \A i \in DOMAIN stack' : Frame(stack'[i])
    BY <2>4, <2>5 DEF Shapes
  <2>7. stack' # << >>
    BY <2>4, SeqDomain
  <2>8. UNCHANGED <<parsed, pkg>>
    BY <1>12 DEF ReturnToSexp
  <2>9. at' \in Nat \ {0} /\ IsSeq(stack') /\ Spans(parsed') /\ ListOfNodes(pkg')
    BY <2>1, <2>4, <2>8 DEF Shapes
  <2> QED BY <2>5, <2>6, <2>7, <2>9 DEF Shapes
<1>13. CASE ReturnToDot
  <2>1. stack # << >> /\ stack' = Front(stack) /\ pc' # "sexp" /\ UNCHANGED <<at, pkg>>
    BY <1>13 DEF ReturnToDot
  <2>2. Spans(Node("DotSelector", Top.from, parsed.to, Append(Top.items, parsed)))
    BY <1>8, <2>1, NodeIs DEF Shapes, Frame, Spans
  <2>3. Spans(parsed')
    BY <1>0, <1>13, <2>2 DEF ReturnToDot
  <2> QED BY <1>7, <2>1, <2>3 DEF Shapes
<1> QED BY <1>1, <1>2, <1>3, <1>4, <1>5, <1>6, <1>9, <1>10, <1>11, <1>12, <1>13 DEF Next

(***************************************************************************)
(* HolesAreErrors and FormsAreBuilt, in one invariant: of a node that the  *)
(* parser holds, in whatever place, the same can be said.                  *)
(***************************************************************************)
Sound(n, errors) == Arity(n) /\ (errors = {} => Built(n))
SoundNodes(nodes, errors) == \A i \in DOMAIN nodes : Sound(nodes[i], errors)

TreeIsSound ==
  /\ pc \in {"infix", "return"} => Sound(parsed, errs)
  /\ SoundNodes(pkg, errs)
  /\ \A i \in DOMAIN stack : SoundNodes(stack[i].items, errs)

LEMMA SoundStays ==
  ASSUME errs \subseteq errs'
  PROVE  /\ \A n : Sound(n, errs) => Sound(n, errs')
         /\ \A nodes : SoundNodes(nodes, errs) => SoundNodes(nodes, errs')
         /\ (\A i \in DOMAIN stack : SoundNodes(stack[i].items, errs)) =>
              \A i \in DOMAIN stack : SoundNodes(stack[i].items, errs')
  BY DEF Sound, SoundNodes

LEMMA SoundAppend ==
  ASSUME NEW nodes, IsSeq(nodes), NEW errors, SoundNodes(nodes, errors), NEW n, Sound(n, errors)
  PROVE  SoundNodes(Append(nodes, n), errors)
<1>1. /\ Len(nodes) \in Nat /\ DOMAIN nodes = 1 .. Len(nodes)
      /\ DOMAIN Append(nodes, n) = 1 .. Len(nodes) + 1
      /\ \A i \in 1 .. Len(nodes) : Append(nodes, n)[i] = nodes[i]
      /\ Append(nodes, n)[Len(nodes) + 1] = n
  BY SeqAppend, SeqDomain
<1>2. ASSUME NEW i \in 1 .. Len(nodes) + 1 PROVE Sound(Append(nodes, n)[i], errors)
  <2>1. CASE i = Len(nodes) + 1
    BY <1>1, <2>1
  <2>2. CASE i \in 1 .. Len(nodes)
    BY <1>1, <2>2 DEF SoundNodes
  <2> QED BY <1>1, <2>1, <2>2
<1> QED BY <1>1, <1>2 DEF SoundNodes

LEMMA SoundInit == (\E f : New(f)) => TreeIsSound
<1>1. DOMAIN << >> = {}
  BY SeqOfSome, SeqDomain
<1> QED BY <1>1 DEF New, TreeIsSound, SoundNodes

LEMMA SoundStep == Shapes /\ TreeIsSound /\ [Next]_vars => TreeIsSound'
<1> SUFFICES ASSUME Shapes, TreeIsSound, [Next]_vars PROVE TreeIsSound'
  OBVIOUS
<1> USE DEF Goto
<1>0. \A hole \in Holes : \A errors : errors # {} => Sound(NilOf(hole), errors)
  BY DEF Sound, Arity, NilOf, Node, Holes
<1>1. CASE UNCHANGED vars
  BY <1>1 DEF vars, TreeIsSound
<1>2. CASE ParseStops \/ ParseItem \/ InfixPanics \/ InfixNone \/ SexpItem \/ ReturnNothing
  BY <1>2 DEF ParseStops, ParseItem, InfixPanics, InfixNone, SexpItem, ReturnNothing, TreeIsSound
<1>3. CASE NodeAtEOF \/ NodeRefused
  <2>1. /\ errs \subseteq errs' /\ errs' # {} /\ parsed' = Nil
        /\ UNCHANGED <<pkg, stack>>
    BY <1>3 DEF NodeAtEOF, NodeRefused, Refuse
  <2>2. Sound(parsed', errs')
    BY <2>1 DEF Nil, Sound, Arity, Node
  <2> QED BY <2>1, <2>2, SoundStays DEF TreeIsSound
<1>4. CASE NodeLeaf
  <2>1. Sound(Node(cur, at, at, << >>), errs)
    <3>1. cur \notin Holes /\ cur \notin {"SExp", "If", "DotSelector", "SpecialOp"}
      BY <1>4 DEF NodeLeaf, Leaves, Symbols, Literals, isSpecial, Operators, Holes
    <3>2. DOMAIN << >> = {}
      BY SeqOfSome, SeqDomain
    <3> QED BY <3>1, <3>2 DEF Sound, Arity, Built, IsHole, Node
  <2> QED BY <1>4, <2>1 DEF NodeLeaf, TreeIsSound
<1>5. CASE NodeList
  <2>1. /\ errs \subseteq errs' /\ pc' = "sexp" /\ UNCHANGED pkg
        /\ stack' = Append(stack, [call |-> "sexp", from |-> at, items |-> << >>])
    BY <1>5, NextTokKeeps DEF NodeList
  <2>2. SoundNodes(<< >>, errs')
    BY SeqOfSome, SeqDomain DEF SoundNodes
  <2>3. \A i \in DOMAIN stack' : SoundNodes(stack'[i].items, errs')
    BY <2>1, <2>2, PushStack, SoundStays DEF Shapes, TreeIsSound
  <2> QED BY <2>1, <2>3, SoundStays DEF TreeIsSound
<1>6. CASE parseDotSelector
  <2>1. /\ errs \subseteq errs' /\ pc' = "node" /\ UNCHANGED pkg
        /\ stack' = Append(stack, [call |-> "dot", from |-> parsed.from, items |-> <<parsed>>])
    BY <1>6, NextTokKeeps DEF parseDotSelector
  <2>2. SoundNodes(<<parsed>>, errs')
    <3>1. Sound(parsed, errs')
      BY <1>6, <2>1, SoundStays DEF parseDotSelector, TreeIsSound
    <3>2. IsSeq(<<parsed>>) /\ Len(<<parsed>>) = 1
      BY SeqOfSome
    <3>3. DOMAIN <<parsed>> = 1 .. 1
      BY <3>2, SeqDomain
    <3> QED BY <3>1, <3>3 DEF SoundNodes
  <2>3. \A i \in DOMAIN stack' : SoundNodes(stack'[i].items, errs')
    BY <2>1, <2>2, PushStack, SoundStays DEF Shapes, TreeIsSound
  <2> QED BY <2>1, <2>3, SoundStays DEF TreeIsSound
<1>7. ASSUME stack # << >> PROVE Frame(Top) /\ SoundNodes(Top.items, errs)
  <2>1. Len(stack) \in DOMAIN stack
    BY <1>7, SeqDomain DEF Shapes
  <2> QED BY <2>1 DEF Shapes, TreeIsSound, Top
<1>8. ASSUME stack # << >>, stack' = Front(stack), errs \subseteq errs'
      PROVE  \A i \in DOMAIN stack' : SoundNodes(stack'[i].items, errs')
  BY <1>8, PopStack, SoundStays DEF Shapes, TreeIsSound
<1>9. CASE SexpEnd
  <2> DEFINE list == Node("SExp", Top.from, at, Top.items)
  <2>1. /\ stack # << >> /\ stack' = Front(stack) /\ parsed' = Build(list) /\ UNCHANGED pkg
        /\ errs' = IF IsHole(Build(list)) THEN errs \cup {"syntax"} ELSE errs
    BY <1>9 DEF SexpEnd, Shapes
  <2>2. /\ Arity(Build(list))
        /\ \/ IsHole(Build(list))
           \/ /\ ~IsHole(Build(list))
              /\ \A i \in DOMAIN Build(list).kids :
                   \E j \in DOMAIN Top.items : Build(list).kids[i] = Top.items[j]
    BY <1>7, <2>1, BuildMakes DEF Frame, ListOfNodes, Shapes
  <2> HIDE DEF list
  <2>3. Sound(parsed', errs')
    BY <1>7, <2>1, <2>2 DEF Sound, SoundNodes, Built
  <2> QED BY <1>8, <2>1, <2>3, SoundStays DEF TreeIsSound
<1>10. CASE SexpAtEOF
  <2>1. /\ stack # << >> /\ stack' = Front(stack) /\ parsed' = NilOf("nil SExp") /\ UNCHANGED pkg
        /\ errs \subseteq errs' /\ errs' # {}
    BY <1>10 DEF SexpAtEOF, Shapes
  <2> QED BY <1>0, <1>8, <2>1, SoundStays DEF TreeIsSound, Holes
<1>11. CASE ReturnToParse
  <2>1. /\ errs \subseteq errs' /\ pkg' = Append(pkg, parsed) /\ pc' = "parse" /\ UNCHANGED stack
        /\ Sound(parsed, errs)
    BY <1>11, NextTokKeeps DEF ReturnToParse, TreeIsSound
  <2>2. SoundNodes(pkg', errs)
    BY <2>1, SoundAppend DEF TreeIsSound, Shapes, ListOfNodes
  <2> QED BY <2>1, <2>2, SoundStays DEF TreeIsSound
<1>12. CASE ReturnToSexp
  <2> DEFINE items == IF parsed = Nil THEN Top.items ELSE Append(Top.items, parsed)
  <2>1. /\ errs \subseteq errs' /\ pc' = "sexp" /\ UNCHANGED pkg /\ stack # << >>
        /\ Sound(parsed, errs)
    BY <1>12, NextTokKeeps DEF ReturnToSexp, TreeIsSound
  <2>2. stack' = [stack EXCEPT ![Len(stack)].items = items]
    BY <1>12, <2>1, SeqDomain DEF ReturnToSexp, Top, Shapes
  <2>3. SoundNodes(items, errs)
    BY <1>7, <2>1, SoundAppend DEF Frame, ListOfNodes
  <2> HIDE DEF items
  <2>4. /\ Len(stack) \in Nat \ {0} /\ DOMAIN stack = 1 .. Len(stack) /\ DOMAIN stack' = 1 .. Len(stack)
        /\ \A i \in 1 .. Len(stack) - 1 : stack'[i] = stack[i]
        /\ stack'[Len(stack)].items = items
    BY <2>1, <2>2, GrowTop
  <2>5. \A i \in DOMAIN stack' : SoundNodes(stack'[i].items, errs)
    BY <2>3, <2>4 DEF TreeIsSound
  <2>6. \A i \in DOMAIN stack' : SoundNodes(stack'[i].items, errs')
    BY <2>1, <2>5, SoundStays
  <2> QED BY <2>1, <2>6, SoundStays DEF TreeIsSound
<1>13. CASE ReturnToDot
  <2> DEFINE operands == Append(Top.items, parsed)
             dot == Node("DotSelector", Top.from, parsed.to, operands)
  <2>1. /\ stack # << >> /\ stack' = Front(stack) /\ Top.call = "dot" /\ UNCHANGED <<pkg, errs>>
        /\ parsed' = IF parsed = Nil THEN Nil ELSE dot
        /\ Sound(parsed, errs)
    BY <1>13 DEF ReturnToDot, TreeIsSound
  <2>2. SoundNodes(operands, errs) /\ Len(operands) = 2
    <3>1. IsSeq(Top.items) /\ Len(Top.items) = 1 /\ SoundNodes(Top.items, errs)
      BY <1>7, <2>1 DEF Frame, ListOfNodes
    <3>2. Len(operands) = Len(Top.items) + 1
      BY <3>1, SeqAppend
    <3>3. SoundNodes(operands, errs)
      BY <2>1, <3>1, SoundAppend
    <3> QED BY <3>1, <3>2, <3>3
  <2> HIDE DEF operands
  <2>3. Sound(dot, errs)
    <3>1. dot.t = "DotSelector" /\ dot.kids = operands
      BY DEF Node
    <3> HIDE DEF dot
    <3> QED BY <2>2, <3>1 DEF Sound, SoundNodes, Arity, Built, IsHole, Holes
  <2> HIDE DEF dot
  <2>4. Sound(parsed', errs')
    BY <2>1, <2>3
  <2> QED BY <1>8, <2>1, <2>4, SoundStays DEF TreeIsSound
<1> QED BY <1>1, <1>2, <1>3, <1>4, <1>5, <1>6, <1>9, <1>10, <1>11, <1>12, <1>13 DEF Next

LEMMA TreeIsAlwaysSound == Spec => [](Shapes /\ TreeIsSound)
<1>1. Init => Shapes /\ TreeIsSound
  BY ShapesInit, SoundInit DEF Init
<1>2. Shapes /\ TreeIsSound /\ [Next]_vars => (Shapes /\ TreeIsSound)'
  BY ShapesStep, SoundStep
<1> QED BY <1>1, <1>2, PTL DEF Spec

(* A node that could not be built has left an error, wherever it is.       *)
THEOREM HolesLeaveErrors == Spec => []HolesAreErrors
<1>1. TreeIsSound => HolesAreErrors
  BY DEF TreeIsSound, SoundNodes, Sound, HolesAreErrors
<1> QED BY <1>1, TreeIsAlwaysSound, PTL

(* No list whose head names a form stays a list, and every form that was   *)
(* built has the operands its evaluation takes.                            *)
THEOREM FormsAreAlwaysBuilt == Spec => []FormsAreBuilt
<1>1. TreeIsSound => FormsAreBuilt
  BY DEF TreeIsSound, SoundNodes, Sound, FormsAreBuilt
<1> QED BY <1>1, TreeIsAlwaysSound, PTL

(***************************************************************************)
(* EveryTokenOnce.  It is inductive together with TreeIsSound, for a nil   *)
(* that came without an error would be left out of its list, and with      *)
(* NoGap: 0, by which Run says that nodes do not follow one another, does  *)
(* not come up.                                                            *)
(***************************************************************************)
Below(i) == IF i = 1 THEN Run(pkg, 1) ELSE Reaches(stack[i - 1])
Here == IF stack = << >> THEN Run(pkg, 1) ELSE Reaches(Top)

FramesFollow == \A i \in DOMAIN stack : stack[i].from = Below(i)
NodeFollows ==
  IF pc \in {"infix", "return"} THEN parsed.from = Here /\ parsed.to = at ELSE Here = at
RunsWhole ==
  /\ Run(pkg, 1) >= 1
  /\ \A i \in DOMAIN stack : Run(stack[i].items, Begins(stack[i])) >= 1

NoGap == errs = {} /\ pc # "panicked" => RunsWhole

LEMMA RunIsNat ==
  ASSUME NEW nodes, ListOfNodes(nodes), NEW first \in Nat
  PROVE  Run(nodes, first) \in Nat
  BY SeqDomain DEF ListOfNodes, Spans, Run

LEMMA RunOfFew ==
  /\ \A first : Run(<< >>, first) = first
  /\ \A n : Run(<<n>>, n.from) = n.to + 1
<1>1. ASSUME NEW n PROVE Run(<<n>>, n.from) = n.to + 1
  <2>1. Len(<<n>>) = 1 /\ <<n>>[1] = n /\ <<n>> # << >>
    OBVIOUS
  <2> HIDE DEF Run
  <2>2. \A i \in 1 .. Len(<<n>>) - 1 : <<n>>[i + 1].from = <<n>>[i].to + 1
    BY <2>1
  <2> QED BY <2>1, <2>2 DEF Run
<1>2. \A first : Run(<< >>, first) = first
  BY DEF Run
<1> QED BY <1>1, <1>2

LEMMA RunAppend ==
  ASSUME NEW nodes, ListOfNodes(nodes), NEW first \in Nat,
         NEW n, Spans(n), n.from = Run(nodes, first), n.from >= 1
  PROVE  Run(Append(nodes, n), first) = n.to + 1
<1>1. /\ Len(nodes) \in Nat /\ DOMAIN nodes = 1 .. Len(nodes) /\ (nodes = << >> <=> Len(nodes) = 0)
      /\ Len(Append(nodes, n)) = Len(nodes) + 1 /\ IsSeq(Append(nodes, n))
      /\ \A i \in 1 .. Len(nodes) : Append(nodes, n)[i] = nodes[i]
      /\ Append(nodes, n)[Len(nodes) + 1] = n
  BY SeqAppend, SeqDomain DEF ListOfNodes
<1>2. Append(nodes, n) # << >>
  BY <1>1, SeqDomain
<1> DEFINE all == Append(nodes, n)
<1> HIDE DEF all
<1>3. all # << >> /\ Len(all) = Len(nodes) + 1 /\ all[Len(all)] = n
  BY <1>1, <1>2 DEF all
<1>4. CASE nodes = << >>
  <2>1. all[1] = n /\ n.from = first /\ Len(all) = 1
    BY <1>1, <1>4 DEF Run, all
  <2> QED BY <1>3, <2>1 DEF Run, all
<1>5. CASE nodes # << >>
  <2>1. /\ nodes[1].from = first /\ n.from = nodes[Len(nodes)].to + 1
        /\ \A i \in 1 .. Len(nodes) - 1 : nodes[i + 1].from = nodes[i].to + 1
    BY <1>1, <1>5 DEF Run
  <2>2. all[1].from = first
    BY <1>1, <1>5, <2>1 DEF all
  <2>3. ASSUME NEW i \in 1 .. Len(all) - 1 PROVE all[i + 1].from = all[i].to + 1
    <3>1. CASE i = Len(nodes)
      BY <1>1, <2>1, <3>1, <1>5 DEF all
    <3>2. CASE i \in 1 .. Len(nodes) - 1
      BY <1>1, <2>1, <3>2 DEF all
    <3>3. Len(all) - 1 = Len(nodes) /\ Len(nodes) \in Nat
      BY <1>1, <1>3
    <3>4. i = Len(nodes) \/ i \in 1 .. Len(nodes) - 1
      BY <3>3
    <3> QED BY <3>1, <3>2, <3>4
  <2> QED BY <1>3, <2>2, <2>3 DEF Run, all
<1> QED BY <1>4, <1>5

LEMMA TokensPop ==
  ASSUME Shapes, stack # << >>, stack' = Front(stack), UNCHANGED pkg, FramesFollow, RunsWhole
  PROVE  FramesFollow' /\ RunsWhole' /\ Here' = Top.from
<1>1. /\ Len(stack') = Len(stack) - 1 /\ Len(stack) \in Nat \ {0}
      /\ \A i \in 1 .. Len(stack) - 1 : stack'[i] = stack[i]
      /\ DOMAIN stack = 1 .. Len(stack) /\ DOMAIN stack' = 1 .. Len(stack) - 1
      /\ (stack' = << >> <=> Len(stack) = 1)
  BY PopStack, SeqDomain DEF Shapes
<1>2. \A i \in DOMAIN stack' : Below(i)' = Below(i)
  BY <1>1 DEF Below
<1>3. Here' = Below(Len(stack))
  <2>1. CASE Len(stack) = 1
    BY <1>1, <2>1 DEF Here, Below
  <2>2. CASE Len(stack) # 1
    <3>1. Top' = stack[Len(stack) - 1]
      BY <1>1, <2>2 DEF Top
    <3> QED BY <1>1, <2>2, <3>1 DEF Here, Below
  <2> QED BY <2>1, <2>2
<1>4. Top.from = Below(Len(stack))
  BY <1>1 DEF FramesFollow, Top
<1> QED BY <1>1, <1>2, <1>3, <1>4 DEF FramesFollow, RunsWhole

LEMMA TokensPush ==
  ASSUME Shapes, NEW f, stack' = Append(stack, f), UNCHANGED pkg, FramesFollow, RunsWhole,
         f.from = Here, Run(f.items, Begins(f)) >= 1
  PROVE  FramesFollow' /\ RunsWhole' /\ Here' = Reaches(f)
<1>1. /\ Len(stack') = Len(stack) + 1 /\ Len(stack) \in Nat
      /\ stack'[Len(stack) + 1] = f /\ stack' # << >>
      /\ \A i \in 1 .. Len(stack) : stack'[i] = stack[i]
      /\ DOMAIN stack = 1 .. Len(stack) /\ DOMAIN stack' = 1 .. Len(stack) + 1
      /\ (stack = << >> <=> Len(stack) = 0)
  BY PushStack, SeqDomain DEF Shapes
<1>2. \A i \in DOMAIN stack : Below(i)' = Below(i)
  BY <1>1 DEF Below
<1>3. ASSUME NEW i, i = Len(stack) + 1 PROVE f.from = Below(i)'
  <2>1. CASE stack = << >>
    BY <1>1, <1>3, <2>1 DEF Below, Here
  <2>2. CASE stack # << >>
    <3>1. i # 1 /\ i - 1 = Len(stack) /\ i - 1 \in 1 .. Len(stack)
      BY <1>1, <1>3, <2>2
    <3>2. stack'[i - 1] = Top
      BY <1>1, <3>1 DEF Top
    <3> QED BY <2>2, <3>1, <3>2 DEF Below, Here
  <2> QED BY <2>1, <2>2
<1>4. Here' = Reaches(f)
  BY <1>1 DEF Here, Top
<1>5. FramesFollow'
  <2>1. ASSUME NEW i \in DOMAIN stack' PROVE stack'[i].from = Below(i)'
    BY <1>1, <1>2, <1>3 DEF FramesFollow
  <2> QED BY <2>1 DEF FramesFollow
<1>6. RunsWhole'
  BY <1>1 DEF RunsWhole
<1> QED BY <1>4, <1>5, <1>6

LEMMA TokensInit == (\E f : New(f)) => EveryTokenOnce /\ NoGap
<1>1. DOMAIN << >> = {}
  BY SeqOfSome, SeqDomain
<1> QED BY <1>1, RunOfFew DEF New, EveryTokenOnce, NoGap, RunsWhole

LEMMA TokensStep ==
  Shapes /\ TreeIsSound /\ EveryTokenOnce /\ NoGap /\ [Next]_vars => (EveryTokenOnce /\ NoGap)'
<1> SUFFICES ASSUME Shapes, TreeIsSound, EveryTokenOnce, NoGap, [Next]_vars,
                    errs' = {}, pc' # "panicked"
             PROVE  (EveryTokenOnce /\ NoGap)'
  BY DEF EveryTokenOnce, NoGap
<1> SUFFICES FramesFollow' /\ NodeFollows' /\ RunsWhole'
  BY DEF EveryTokenOnce, NoGap, FramesFollow, NodeFollows, Here, Below
<1> USE DEF Goto
<1>0. errs = {} /\ pc # "panicked" => FramesFollow /\ NodeFollows /\ RunsWhole
  BY DEF EveryTokenOnce, NoGap, FramesFollow, NodeFollows, Here, Below
<1>n. at \in Nat \ {0} /\ ListOfNodes(pkg) /\ Spans(parsed)
  BY DEF Shapes
<1>f. ASSUME stack # << >> PROVE Frame(Top) /\ Top = stack[Len(stack)] /\ Len(stack) \in DOMAIN stack
  BY <1>f, SeqDomain DEF Shapes, Top
<1>1. CASE UNCHANGED vars
  BY <1>0, <1>1 DEF vars, FramesFollow, NodeFollows, RunsWhole, Here, Below, Top
<1>2. CASE ParseStops \/ ParseItem \/ InfixPanics \/ InfixNone \/ SexpItem
  <2>1. UNCHANGED <<at, errs, stack, parsed, pkg>> /\ pc # "panicked"
        /\ (pc \in {"infix", "return"} <=> pc' \in {"infix", "return"})
    BY <1>2 DEF ParseStops, ParseItem, InfixPanics, InfixNone, SexpItem
  <2> QED BY <1>0, <2>1 DEF FramesFollow, NodeFollows, RunsWhole, Here, Below, Top
<1>3. CASE NodeAtEOF \/ NodeRefused \/ SexpAtEOF
  BY <1>3 DEF NodeAtEOF, NodeRefused, Refuse, SexpAtEOF
<1>4. CASE NodeLeaf
  <2>1. UNCHANGED <<at, errs, stack, pkg>> /\ pc = "node" /\ pc' = "infix"
        /\ parsed' = Node(cur, at, at, << >>)
    BY <1>4 DEF NodeLeaf
  <2>2. parsed'.from = at /\ parsed'.to = at
    BY <2>1, NodeIs DEF Shapes
  <2> QED BY <1>0, <2>1, <2>2 DEF FramesFollow, NodeFollows, RunsWhole, Here, Below, Top
<1>5. CASE NodeList
  <2> DEFINE f == [call |-> "sexp", from |-> at, items |-> << >>]
  <2>1. /\ errs = {} /\ pc = "node" /\ pc' = "sexp" /\ UNCHANGED pkg /\ at' = at + 1
        /\ stack' = Append(stack, f)
    BY <1>5, NextTokKeeps DEF NodeList
  <2>2. FramesFollow /\ RunsWhole /\ Here = at
    BY <1>0, <2>1 DEF NodeFollows
  <2>3. Run(f.items, Begins(f)) = at + 1 /\ Reaches(f) = at + 1
    BY RunOfFew, <1>n DEF Begins, Reaches
  <2>4. f.from = at
    OBVIOUS
  <2> HIDE DEF f
  <2>5. FramesFollow' /\ RunsWhole' /\ Here' = Reaches(f)
    BY <1>n, <2>1, <2>2, <2>3, <2>4, TokensPush
  <2> QED BY <2>1, <2>3, <2>5 DEF NodeFollows
<1>6. CASE parseDotSelector
  <2> DEFINE f == [call |-> "dot", from |-> parsed.from, items |-> <<parsed>>]
  <2>1. /\ errs = {} /\ pc = "infix" /\ pc' = "node" /\ UNCHANGED pkg /\ at' = at + 2
        /\ stack' = Append(stack, f)
    BY <1>6, NextTokKeeps DEF parseDotSelector
  <2>2. FramesFollow /\ RunsWhole /\ Here = parsed.from /\ parsed.to = at
    BY <1>0, <2>1 DEF NodeFollows
  <2>3. Run(f.items, Begins(f)) = at + 1 /\ Reaches(f) = at + 2
    <3>1. Run(<<parsed>>, parsed.from) = at + 1
      BY <2>2, RunOfFew
    <3>2. f.items = <<parsed>> /\ Begins(f) = parsed.from /\ f.call = "dot"
      BY DEF Begins
    <3> HIDE DEF f
    <3> QED BY <1>n, <3>1, <3>2 DEF Reaches
  <2>4. f.from = parsed.from
    OBVIOUS
  <2> HIDE DEF f
  <2>5. FramesFollow' /\ RunsWhole' /\ Here' = Reaches(f)
    BY <1>n, <2>1, <2>2, <2>3, <2>4, TokensPush
  <2> QED BY <2>1, <2>3, <2>5 DEF NodeFollows
<1>7. CASE SexpEnd
  <2> DEFINE list == Node("SExp", Top.from, at, Top.items)
  <2>1. /\ stack # << >> /\ stack' = Front(stack) /\ parsed' = Build(list)
        /\ UNCHANGED <<pkg, at>> /\ pc = "sexp" /\ pc' = "infix"
        /\ errs' = IF IsHole(Build(list)) THEN errs \cup {"syntax"} ELSE errs
    BY <1>7 DEF SexpEnd, Shapes
  <2>2. ~IsHole(Build(list)) /\ errs = {}
    BY <2>1
  <2>3. Build(list).from = Top.from /\ Build(list).to = at
    BY <1>f, <1>n, <2>1, <2>2, BuildMakes DEF Frame, ListOfNodes
  <2> HIDE DEF list
  <2>4. FramesFollow' /\ RunsWhole' /\ Here' = Top.from
    BY <1>0, <2>1, <2>2, TokensPop
  <2> QED BY <2>1, <2>3, <2>4 DEF NodeFollows
<1>8. ASSUME pc \in {"infix", "return"}, errs = {} PROVE parsed # Nil
  <2>1. IsHole(Nil)
    BY DEF IsHole, Holes, Nil, Node
  <2>2. Built(parsed)
    BY <1>8 DEF TreeIsSound, Sound
  <2> QED BY <2>1, <2>2 DEF Built
<1>9. CASE ReturnNothing
  BY <1>8, <1>9 DEF ReturnNothing
<1>10. CASE ReturnToParse
  <2>1. /\ errs = {} /\ pkg' = Append(pkg, parsed) /\ pc = "return" /\ pc' = "parse" /\ UNCHANGED stack
        /\ at' = at + 1 /\ stack = << >>
    BY <1>10, NextTokKeeps DEF ReturnToParse
  <2>2. RunsWhole /\ parsed.from = Run(pkg, 1) /\ parsed.to = at
    BY <1>0, <2>1 DEF NodeFollows, Here
  <2>3. Run(pkg', 1) = at'
    BY <1>n, <2>1, <2>2, RunAppend DEF RunsWhole
  <2>4. DOMAIN stack' = {}
    BY <2>1, SeqOfSome, SeqDomain
  <2> QED BY <1>n, <2>1, <2>3, <2>4 DEF FramesFollow, NodeFollows, RunsWhole, Here
<1>11. CASE ReturnToSexp
  <2> DEFINE items == Append(Top.items, parsed)
             f == [call |-> Top.call, from |-> Top.from, items |-> items]
  <2>1. /\ errs = {} /\ pc = "return" /\ pc' = "sexp" /\ UNCHANGED pkg /\ at' = at + 1
        /\ stack # << >> /\ Top.call = "sexp"
    BY <1>11, NextTokKeeps DEF ReturnToSexp
  <2>2. stack' = [stack EXCEPT ![Len(stack)].items = items]
    BY <1>8, <1>11, <2>1, SeqDomain DEF ReturnToSexp, Top, Shapes
  <2>3. FramesFollow /\ RunsWhole /\ parsed.from = Reaches(Top) /\ parsed.to = at
    BY <1>0, <2>1 DEF NodeFollows, Here
  <2>4. Run(items, Top.from + 1) = at + 1
    <3>1. /\ Reaches(Top) = Run(Top.items, Top.from + 1) /\ Run(Top.items, Top.from + 1) >= 1
          /\ ListOfNodes(Top.items) /\ Top.from + 1 \in Nat
      <4>1. Begins(Top) = Top.from + 1 /\ ListOfNodes(Top.items) /\ Top.from + 1 \in Nat
        BY <1>f, <2>1 DEF Begins, Frame
      <4>2. Run(Top.items, Top.from + 1) \in Nat
        BY <4>1, RunIsNat
      <4>3. Run(Top.items, Top.from + 1) >= 1
        BY <1>f, <2>1, <2>3, <4>1 DEF RunsWhole
      <4> QED BY <2>1, <4>1, <4>2, <4>3 DEF Reaches
    <3> QED BY <1>n, <2>3, <3>1, RunAppend
  <2> HIDE DEF items
  <2>5. f.call = "sexp" /\ f.from = Top.from /\ f.items = items
    BY <2>1
  <2>6. Run(f.items, Begins(f)) = at + 1 /\ Reaches(f) = at + 1
    BY <1>n, <2>4, <2>5 DEF Begins, Reaches
  <2>7. /\ Len(stack') = Len(stack) /\ Len(stack) \in Nat \ {0}
        /\ \A i \in 1 .. Len(stack) - 1 : stack'[i] = stack[i]
        /\ stack'[Len(stack)] = f /\ stack' # << >>
        /\ DOMAIN stack = 1 .. Len(stack) /\ DOMAIN stack' = 1 .. Len(stack)
    BY <2>1, <2>2, GrowTop, SeqDomain
  <2> HIDE DEF f
  <2>8. Here' = at'
    BY <2>1, <2>6, <2>7 DEF Here, Top
  <2>9. \A i \in DOMAIN stack' : stack'[i].from = stack[i].from /\ Below(i)' = Below(i)
    BY <2>1, <2>5, <2>7, <1>f DEF Below
  <2>10. FramesFollow'
    BY <2>3, <2>7, <2>9 DEF FramesFollow
  <2>11. RunsWhole'
    BY <1>n, <2>1, <2>3, <2>6, <2>7 DEF RunsWhole
  <2> QED BY <2>1, <2>8, <2>10, <2>11 DEF NodeFollows
<1>12. CASE ReturnToDot
  <2> DEFINE dot == Node("DotSelector", Top.from, parsed.to, Append(Top.items, parsed))
  <2>1. /\ stack # << >> /\ stack' = Front(stack) /\ Top.call = "dot" /\ UNCHANGED <<pkg, errs, at>>
        /\ parsed' = IF parsed = Nil THEN Nil ELSE dot
        /\ pc = "return" /\ pc' = "infix"
    BY <1>12 DEF ReturnToDot
  <2>2. dot.from = Top.from /\ dot.to = parsed.to
    BY <1>f, <1>n, <2>1, NodeIs DEF Frame, Spans
  <2>3. parsed' = dot /\ parsed.to = at
    BY <1>0, <1>8, <2>1 DEF NodeFollows
  <2> HIDE DEF dot
  <2>4. FramesFollow' /\ RunsWhole' /\ Here' = Top.from
    BY <1>0, <2>1, TokensPop
  <2> QED BY <2>1, <2>2, <2>3, <2>4 DEF NodeFollows
<1> QED BY <1>1, <1>2, <1>3, <1>4, <1>5, <1>6, <1>7, <1>9, <1>10, <1>11, <1>12 DEF Next

(* While there is no error, the tree holds every token read, once and in   *)
(* order.                                                                  *)
THEOREM EveryTokenIsThereOnce == Spec => []EveryTokenOnce
<1> DEFINE Inv == Shapes /\ TreeIsSound /\ EveryTokenOnce /\ NoGap
<1>1. Init => Inv
  BY ShapesInit, SoundInit, TokensInit DEF Init
<1>2. Inv /\ [Next]_vars => Inv'
  BY ShapesStep, SoundStep, TokensStep
<1> QED BY <1>1, <1>2, PTL DEF Spec

(***************************************************************************)
(* IncompleteIsOpen.  It does not go by the tree, which errors leave       *)
(* behind, but by how many lists are open after the tokens that were taken *)
(* so far.  They are as many as the parentheses say, for every open call   *)
(* of parseSexp (Balanced), until a selector that lacks its operand takes  *)
(* the parenthesis of another call; even then they are no fewer (Deep).    *)
(***************************************************************************)
Came == IF pc \in {"infix", "return"} THEN at ELSE at - 1
Depth(i, j) == Count("(", i, j) - Count(")", i, j)
Calls == {k \in DOMAIN stack : stack[k].call = "sexp"}
Opens(k) == Tally(Calls, k, Len(stack))
Early == "unexpected EOF" \in errs
Dangling == \E i \in start .. Len(feed) : feed[i] = "." /\ Answer(i + 1) \in {")", "EOF"}

Level(from, came, open) ==  \* of a list that began at from, after token came
  /\ start <= from /\ from <= came /\ Answer(from) = "("
  /\ Depth(from, came) = open
  /\ \A j \in from .. came : Depth(from, j) >= 1
Balanced ==
  \A k, from, came, open :
    k \in Calls /\ from = stack[k].from /\ came = Came /\ open = Opens(k) => Level(from, came, open)

Held ==
  /\ 1 \in Calls /\ stack[1].from = start /\ start <= Came
  /\ \A from, came, open :
       from = start /\ came = Came /\ open = Opens(1) => Depth(from, came) <= open
Deep == (pc = "node" /\ at = start /\ stack = << >>) \/ Held

Place ==
  /\ LexerAnswers(feed)
  /\ start \in Nat /\ start <= at
  /\ pc \in {"parse", "done"} => stack = << >>
  /\ pc = "node" =>
       \/ Answer(at - 1) = "." /\ start < at
       \/ ~IsEOF(cur) /\ (cur = ")" => stack = << >>)

OpenListsCount ==
  Clean /\ start \in DOMAIN feed /\ pc # "panicked" =>
    \A from : from = start =>
      /\ NeverClosed(from) /\ ~Early => Deep
      /\ Early => Dangling \/ \E i \in from .. Len(feed) : NeverClosed(i)
      /\ ~Early /\ ~Dangling => Balanced

LEMMA PlaceStep == Shapes /\ Place /\ [Next]_vars => Place'
<1> SUFFICES ASSUME Shapes, Place, [Next]_vars PROVE Place'
  OBVIOUS
<1> USE DEF Goto
<1>1. CASE UNCHANGED vars
  BY <1>1 DEF vars, Place, LexerAnswers, Answer, cur
<1>2. at \in Nat \ {0}
  BY DEF Shapes
<1>3. feed' = feed
  BY <1>1 DEF Next, ParseStops, ParseItem, NodeAtEOF, NodeRefused, Refuse, NodeLeaf, NodeList,
              InfixPanics, InfixNone, parseDotSelector, SexpItem, SexpEnd, SexpAtEOF,
              ReturnNothing, ReturnToParse, ReturnToSexp, ReturnToDot, vars
<1>4. LexerAnswers(feed')
  BY <1>3 DEF Place
<1>5. CASE ParseItem
  BY <1>2, <1>3, <1>4, <1>5 DEF ParseItem, Place, cur, Answer
<1>6. CASE SexpItem
  BY <1>2, <1>3, <1>4, <1>6 DEF SexpItem, Place, cur, Answer
<1>7. CASE parseDotSelector
  <2>1. at' = at + 2 /\ next = "." /\ pc' = "node" /\ start' = start
    BY <1>7, NextTokKeeps DEF parseDotSelector
  <2>2. at' - 1 = at + 1
    BY <1>2, <2>1
  <2>3. Answer(at - 1)' = "."
    BY <1>3, <2>1, <2>2 DEF next, Answer
  <2> QED BY <1>2, <1>3, <1>4, <2>1, <2>3 DEF Place
<1>8. CASE ParseStops \/ ReturnNothing
  BY <1>3, <1>4, <1>8 DEF ParseStops, ReturnNothing, Place
<1>9. CASE ReturnToParse
  <2>1. at' = at + 1
    BY <1>9, NextTokKeeps DEF ReturnToParse
  <2> QED BY <1>2, <1>3, <1>4, <1>9, <2>1 DEF ReturnToParse, Place
<1>10. CASE NodeList \/ ReturnToSexp
  <2>1. at' = at + 1 /\ start' = start /\ pc' = "sexp"
    BY <1>10, NextTokKeeps DEF NodeList, ReturnToSexp
  <2> QED BY <1>2, <1>3, <1>4, <2>1 DEF Place
<1>11. CASE \/ NodeAtEOF \/ NodeRefused \/ NodeLeaf \/ InfixPanics \/ InfixNone
           \/ SexpEnd \/ SexpAtEOF \/ ReturnToDot
  <2>1. at' = at /\ start' = start /\ pc' \in {"return", "infix", "panicked"}
    BY <1>11 DEF NodeAtEOF, NodeRefused, Refuse, NodeLeaf, InfixPanics, InfixNone,
                 SexpEnd, SexpAtEOF, ReturnToDot
  <2> QED BY <1>2, <1>3, <1>4, <2>1 DEF Place
<1> QED BY <1>1, <1>5, <1>6, <1>7, <1>8, <1>9, <1>10, <1>11 DEF Next

LEMMA CleanAnswers ==
  ASSUME LexerAnswers(feed), Clean
  PROVE  /\ Len(feed) \in Nat /\ DOMAIN feed = 1 .. Len(feed)
         /\ \A k \in Nat :
              /\ k \in DOMAIN feed => Answer(k) = feed[k] /\ ~IsEOF(Answer(k))
              /\ k \notin DOMAIN feed => Answer(k) = "EOF"
              /\ ErrorOf(Answer(k)) = {} /\ Answer(k) # "nil"
<1>1. Len(feed) \in Nat /\ DOMAIN feed = 1 .. Len(feed)
  BY LenProperties DEF LexerAnswers
<1>2. \A k \in DOMAIN feed : feed[k] \in Tokens \ {"EOF"}
  BY <1>1, ElementOfSeq DEF LexerAnswers
<1>3. "EOF" \notin DOMAIN LexicalError /\ "EOF" # "nil"
  BY DEF LexicalError
<1>4. \A k \in DOMAIN feed : feed[k] \notin DOMAIN LexicalError /\ feed[k] # "nil" /\ feed[k] # "EOF"
  BY <1>2 DEF Clean
<1> QED BY <1>1, <1>3, <1>4 DEF Answer, IsEOF, ErrorOf

LEMMA CleanNextTok ==
  ASSUME LexerAnswers(feed), Clean, at \in Nat, NEW n \in Nat, nextTok(n)
  PROVE  errs' = errs
<1> DEFINE found == {e \in {ErrorOf(Answer(i)) : i \in at + 2 .. at + 1 + n} : "eof" \notin e}
<1>1. errs' = errs \cup UNION found
  BY DEF nextTok
<1>2. \A i \in at + 2 .. at + 1 + n : ErrorOf(Answer(i)) = {}
  BY CleanAnswers
<1>3. UNION found = {}
  BY <1>2
<1> QED BY <1>1, <1>3

LEMMA DepthStep ==
  ASSUME NEW i \in Nat, NEW j \in Nat, i <= j + 1
  PROVE  /\ Depth(i, j) \in Int
         /\ Depth(i, j + 1) = Depth(i, j) + (IF Answer(j + 1) = "(" THEN 1
                                             ELSE IF Answer(j + 1) = ")" THEN 0 - 1 ELSE 0)
<1> DEFINE At(tok) == {k \in Int : Answer(k) = tok}
<1>1. ASSUME NEW tok, NEW n \in Nat PROVE Count(tok, i, n) = Tally(At(tok), i, n)
  <2>1. {k \in i .. n : Answer(k) = tok} = At(tok) \cap i .. n
    OBVIOUS
  <2> QED BY <2>1 DEF Count, Tally
<1>2. \A tok : j + 1 \in At(tok) <=> Answer(j + 1) = tok
  OBVIOUS
<1> HIDE DEF At
<1>3. \A tok : /\ Count(tok, i, j) \in Nat
               /\ Count(tok, i, j + 1) = Count(tok, i, j) + (IF Answer(j + 1) = tok THEN 1 ELSE 0)
  BY <1>1, <1>2, TallyStep
<1> QED BY <1>3 DEF Depth

LEMMA DepthNone == ASSUME NEW i \in Nat, NEW j \in Nat, j < i PROVE Depth(i, j) = 0
<1>1. ASSUME NEW tok PROVE Count(tok, i, j) = 0
  <2>1. {k \in i .. j : Answer(k) = tok} = {}
    OBVIOUS
  <2> QED BY <2>1, FS_EmptySet DEF Count
<1> QED BY <1>1 DEF Depth

LEMMA NeverClosedIsDeep ==
  ASSUME NEW i \in Nat, NeverClosed(i), NEW j \in i .. Len(feed), Len(feed) \in Nat
  PROVE  Depth(i, j) >= 1
<1>1. Count("(", i, j) > Count(")", i, j)
  BY DEF NeverClosed
<1>2. ASSUME NEW tok PROVE Count(tok, i, j) \in Nat
  <2>1. IsFiniteSet(i .. j)
    BY FS_Interval
  <2>2. IsFiniteSet({k \in i .. j : Answer(k) = tok})
    BY <2>1, FS_Subset
  <2> QED BY <2>2, FS_CardinalityType DEF Count
<1> QED BY <1>1, <1>2 DEF Depth

(* Which lists are open, when the stack changes.                           *)
CallsStay ==
  /\ Calls' = Calls
  /\ \A k \in Calls : stack'[k].from = stack[k].from /\ Opens(k)' = Opens(k)

LEMMA StayWhenKept ==
  ASSUME Shapes, DOMAIN stack' = DOMAIN stack, Len(stack') = Len(stack),
         \A i \in DOMAIN stack : stack'[i].call = stack[i].call /\ stack'[i].from = stack[i].from
  PROVE  CallsStay
<1>1. Calls' = Calls
  BY DEF Calls
<1>2. \A k : Opens(k)' = Opens(k)
  BY <1>1 DEF Opens
<1>3. Calls \subseteq DOMAIN stack
  BY DEF Calls
<1> QED BY <1>1, <1>2, <1>3 DEF CallsStay

LEMMA StayWhenPushed ==
  ASSUME Shapes, NEW f, f.call = "dot", stack' = Append(stack, f)
  PROVE  CallsStay
<1>1. /\ Len(stack') = Len(stack) + 1 /\ Len(stack) \in Nat /\ stack'[Len(stack) + 1] = f
      /\ \A i \in 1 .. Len(stack) : stack'[i] = stack[i]
      /\ DOMAIN stack = 1 .. Len(stack) /\ DOMAIN stack' = 1 .. Len(stack) + 1
  BY PushStack DEF Shapes
<1>2. Calls' = Calls /\ Len(stack) + 1 \notin Calls
  BY <1>1 DEF Calls
<1>3. ASSUME NEW k \in Calls PROVE Opens(k)' = Opens(k)
  <2>1. k \in 1 .. Len(stack)
    BY <1>1 DEF Calls
  <2>2. Tally(Calls, k, Len(stack) + 1) = Tally(Calls, k, Len(stack)) + 0 /\ Tally(Calls, k, Len(stack)) \in Nat
    BY <1>1, <1>2, <2>1, TallyStep
  <2> QED BY <1>1, <1>2, <2>2 DEF Opens
<1> QED BY <1>1, <1>2, <1>3 DEF CallsStay, Calls

LEMMA StayWhenPopped ==
  ASSUME Shapes, stack # << >>, Top.call = "dot", stack' = Front(stack)
  PROVE  CallsStay
<1>1. /\ Len(stack') = Len(stack) - 1 /\ Len(stack) \in Nat \ {0}
      /\ \A i \in 1 .. Len(stack) - 1 : stack'[i] = stack[i]
      /\ DOMAIN stack = 1 .. Len(stack) /\ DOMAIN stack' = 1 .. Len(stack) - 1
  BY PopStack DEF Shapes
<1>2. Len(stack) \notin Calls
  BY DEF Calls, Top
<1>3. Calls' = Calls
  BY <1>1, <1>2 DEF Calls
<1>4. ASSUME NEW k \in Calls PROVE k \in 1 .. Len(stack) - 1 /\ Opens(k)' = Opens(k)
  <2>1. k \in 1 .. Len(stack) - 1
    BY <1>1, <1>2 DEF Calls
  <2> DEFINE m == Len(stack) - 1
  <2>2. m \in Int /\ k <= m + 1 /\ m + 1 = Len(stack) /\ Len(stack') = m /\ m + 1 \notin Calls
    BY <1>1, <1>2, <2>1
  <2> HIDE DEF m
  <2>3. Tally(Calls, k, m + 1) = Tally(Calls, k, m) + 0 /\ Tally(Calls, k, m) \in Nat
    BY <2>1, <2>2, TallyStep
  <2> QED BY <1>3, <2>1, <2>2, <2>3 DEF Opens
<1> QED BY <1>1, <1>3, <1>4 DEF CallsStay

LEMMA CallsGrow ==
  ASSUME Shapes, NEW f, f.call = "sexp", stack' = Append(stack, f)
  PROVE  LET new == Len(stack) + 1 IN
         /\ Len(stack) \in Nat /\ new \notin Calls
         /\ Calls' = Calls \cup {new} /\ stack'[new] = f /\ Calls \subseteq 1 .. Len(stack)
         /\ \A k : k = new => Opens(k)' = 1
         /\ \A k \in Calls : stack'[k] = stack[k] /\ Opens(k)' = Opens(k) + 1 /\ Opens(k) \in Nat
<1> DEFINE n == Len(stack)
<1>1. /\ Len(stack') = n + 1 /\ n \in Nat /\ stack'[n + 1] = f
      /\ \A i \in 1 .. n : stack'[i] = stack[i]
      /\ DOMAIN stack = 1 .. n /\ DOMAIN stack' = 1 .. n + 1
  BY PushStack DEF Shapes
<1>2. Calls' = Calls \cup {n + 1} /\ Calls \subseteq 1 .. n /\ n + 1 \notin Calls
  BY <1>1 DEF Calls
<1>3. ASSUME NEW k \in 1 .. n + 1 PROVE Opens(k)' = Tally(Calls, k, n) + 1 /\ Tally(Calls, k, n) \in Nat
  <2> DEFINE new == Calls'
  <2>1. n + 1 \in new /\ new \cap k .. n = Calls \cap k .. n
    BY <1>1, <1>2
  <2>2. Tally(new, k, n) = Tally(Calls, k, n)
    BY <2>1 DEF Tally
  <2> HIDE DEF new
  <2>3. Tally(new, k, n + 1) = Tally(new, k, n) + 1 /\ Tally(new, k, n) \in Nat
    BY <1>1, <2>1, TallyStep
  <2>4. Opens(k)' = Tally(new, k, n + 1)
    BY <1>1 DEF Opens, new
  <2> QED BY <2>2, <2>3, <2>4
<1>4. Tally(Calls, n + 1, n) = 0
  BY <1>1, TallyNone
<1>5. ASSUME NEW k, k = n + 1 PROVE Opens(k)' = 1
  BY <1>1, <1>3, <1>4, <1>5
<1>6. ASSUME NEW k \in Calls PROVE Opens(k)' = Opens(k) + 1 /\ Opens(k) \in Nat /\ stack'[k] = stack[k]
  <2>1. k \in 1 .. n /\ k \in 1 .. n + 1
    BY <1>1, <1>2
  <2>2. Opens(k) = Tally(Calls, k, n)
    BY DEF Opens
  <2> QED BY <1>1, <1>3, <2>1, <2>2
<1> QED BY <1>1, <1>2, <1>5, <1>6

LEMMA CallsShrink ==
  ASSUME Shapes, stack # << >>, Top.call = "sexp", stack' = Front(stack)
  PROVE  /\ Len(stack) \in Nat \ {0} /\ Len(stack) \in Calls /\ Calls \subseteq 1 .. Len(stack)
         /\ Calls' = Calls \ {Len(stack)}
         /\ \A k : k = Len(stack) => Opens(k) = 1
         /\ \A k \in Calls' : /\ stack'[k] = stack[k] /\ Opens(k) = Opens(k)' + 1
                              /\ Opens(k)' \in Nat /\ Opens(k)' >= 1
<1> DEFINE m == Len(stack) - 1
<1>1. /\ Len(stack') = m /\ m \in Nat /\ Len(stack) = m + 1
      /\ \A i \in 1 .. m : stack'[i] = stack[i]
      /\ DOMAIN stack = 1 .. m + 1 /\ DOMAIN stack' = 1 .. m
  BY PopStack DEF Shapes
<1> HIDE DEF m
<1>2. m + 1 \in Calls /\ Calls \subseteq 1 .. m + 1 /\ Calls' = Calls \ {m + 1}
  BY <1>1 DEF Calls, Top
<1>3. ASSUME NEW k \in 1 .. m + 1 PROVE Opens(k) = Tally(Calls, k, m) + 1 /\ Tally(Calls, k, m) \in Nat
  <2>1. Tally(Calls, k, m + 1) = Tally(Calls, k, m) + 1 /\ Tally(Calls, k, m) \in Nat
    BY <1>1, <1>2, TallyStep
  <2> QED BY <1>1, <2>1 DEF Opens
<1>4. Tally(Calls, m + 1, m) = 0
  BY <1>1, TallyNone
<1>5. \A k : k = m + 1 => Opens(k) = 1
  BY <1>1, <1>3, <1>4
<1>6. ASSUME NEW k \in Calls'
      PROVE  /\ stack'[k] = stack[k] /\ Opens(k) = Opens(k)' + 1
             /\ Opens(k)' \in Nat /\ Opens(k)' >= 1
  <2> DEFINE new == Calls'
  <2>1. k \in 1 .. m /\ k \in new /\ new \cap k .. m = Calls \cap k .. m
    BY <1>1, <1>2
  <2>2. Opens(k)' = Tally(new, k, m) /\ Tally(new, k, m) = Tally(Calls, k, m)
    BY <1>1, <2>1 DEF Opens, Tally
  <2> HIDE DEF new
  <2>3. Tally(new, k, m) >= 1
    BY <1>1, <2>1, TallyPositive
  <2> QED BY <1>1, <1>3, <2>1, <2>2, <2>3
<1> QED BY <1>1, <1>2, <1>5, <1>6

(* What a token does to Balanced and to Held, as lists open and close.     *)
LEMMA SameText ==
  ASSUME feed' = feed
  PROVE  /\ \A i : Answer(i)' = Answer(i)
         /\ \A i, j : Depth(i, j)' = Depth(i, j)
         /\ \A i : NeverClosed(i)' <=> NeverClosed(i)
         /\ Clean' <=> Clean
<1>1. \A i : Answer(i)' = Answer(i)
  BY DEF Answer
<1>2. ASSUME NEW tok, NEW i, NEW j PROVE Count(tok, i, j)' = Count(tok, i, j)
  <2>1. {k \in i .. j : Answer(k)' = tok} = {k \in i .. j : Answer(k) = tok}
    BY <1>1
  <2> QED BY <2>1 DEF Count
<1>3. \A i, j : Depth(i, j)' = Depth(i, j)
  BY <1>2 DEF Depth
<1>4. \A i : NeverClosed(i)' <=> NeverClosed(i)
  BY <1>2 DEF NeverClosed
<1> QED BY <1>1, <1>3, <1>4 DEF Clean

LEMMA FromIsNat == ASSUME Shapes PROVE \A k \in Calls : stack[k].from \in Nat
  BY DEF Shapes, Frame, Calls

LEMMA BalancedStays ==
  ASSUME feed' = feed, start' = start, start \in Nat, Shapes, CallsStay, Balanced, Came \in Nat,
         Came' = Came \/ (Came' = Came + 1 /\ Answer(Came + 1) \notin {"(", ")"})
  PROVE  Balanced'
<1> SUFFICES ASSUME NEW k \in Calls, NEW from, from = stack[k].from, NEW came, came = Came',
                    NEW open, open = Opens(k)
             PROVE  Level(from, came, open)'
  BY DEF Balanced, CallsStay
<1>1. from \in Nat
  BY FromIsNat
<1>2. \A now : now = Came => Level(from, now, open)
  BY DEF Balanced
<1>3. CASE Came' = Came
  BY <1>2, <1>3, SameText DEF Level
<1>4. CASE Came' = Came + 1 /\ Answer(Came + 1) \notin {"(", ")"}
  <2>1. PICK now \in Nat : now = Came
    OBVIOUS
  <2>2. Level(from, now, open) /\ came = now + 1
    BY <1>2, <1>4, <2>1
  <2>3. Depth(from, now + 1) = Depth(from, now) + 0 /\ Depth(from, now) \in Int
    BY <1>1, <1>4, <2>1, <2>2, DepthStep DEF Level
  <2>4. \A j \in from .. now + 1 : Depth(from, j) >= 1
    BY <1>1, <2>1, <2>2, <2>3 DEF Level
  <2> QED BY <1>1, <2>2, <2>3, <2>4, SameText DEF Level
<1> QED BY <1>3, <1>4

LEMMA BalancedOpens ==
  ASSUME feed' = feed, start' = start, start \in Nat, Shapes, Balanced, Came \in Nat,
         Came' = Came + 1, Answer(Came + 1) = "(", start <= Came + 1,
         NEW f, f.call = "sexp", f.from = Came + 1, stack' = Append(stack, f)
  PROVE  Balanced'
<1> SUFFICES ASSUME NEW k \in Calls', NEW from, from = stack'[k].from, NEW came, came = Came',
                    NEW open, open = Opens(k)'
             PROVE  Level(from, came, open)'
  BY DEF Balanced
<1>1. PICK now \in Nat : now = Came
  OBVIOUS
<1>2. came = now + 1 /\ Answer(now + 1) = "("
  BY <1>1
<1>3. CASE k \in Calls
  <2>1. /\ from = stack[k].from /\ open = Opens(k) + 1 /\ Opens(k) \in Nat /\ from \in Nat
    BY <1>3, CallsGrow, FromIsNat
  <2>2. PICK was : was = Opens(k)
    OBVIOUS
  <2>3. Level(from, now, was)
    BY <1>1, <1>3, <2>1, <2>2 DEF Balanced
  <2>4. Depth(from, now + 1) = Depth(from, now) + 1 /\ Depth(from, now) \in Int
    <3>1. from <= now + 1
      BY <2>1, <2>3 DEF Level
    <3> QED BY <1>2, <2>1, <3>1, DepthStep
  <2>5. \A j \in from .. now + 1 : Depth(from, j) >= 1
    BY <2>1, <2>3, <2>4 DEF Level
  <2> QED BY <1>2, <2>1, <2>2, <2>3, <2>4, <2>5, SameText DEF Level
<1>4. CASE k = Len(stack) + 1
  <2>1. from = now + 1 /\ open = 1
    BY <1>1, <1>4, CallsGrow
  <2>2. Depth(now + 1, now) = 0
    BY <1>1, DepthNone
  <2>3. Depth(now + 1, now + 1) = 1
    BY <1>2, <2>2, DepthStep
  <2> QED BY <1>1, <1>2, <2>1, <2>3, SameText DEF Level
<1> QED BY <1>3, <1>4, CallsGrow

LEMMA BalancedCloses ==
  ASSUME feed' = feed, start' = start, start \in Nat, Shapes, Balanced, Came \in Nat,
         Came' = Came + 1, Answer(Came + 1) = ")",
         stack # << >>, Top.call = "sexp", stack' = Front(stack)
  PROVE  Balanced'
<1> SUFFICES ASSUME NEW k \in Calls', NEW from, from = stack'[k].from, NEW came, came = Came',
                    NEW open, open = Opens(k)'
             PROVE  Level(from, came, open)'
  BY DEF Balanced
<1>1. PICK now \in Nat : now = Came
  OBVIOUS
<1>2. came = now + 1 /\ Answer(now + 1) = ")"
  BY <1>1
<1>3. /\ k \in Calls /\ from = stack[k].from /\ Opens(k) = open + 1
      /\ open \in Nat /\ open >= 1 /\ from \in Nat
  BY CallsShrink, FromIsNat
<1>4. PICK was : was = Opens(k)
  OBVIOUS
<1>5. Level(from, now, was)
  BY <1>1, <1>3, <1>4 DEF Balanced
<1>6. Depth(from, now + 1) = Depth(from, now) - 1 /\ Depth(from, now) \in Int
  <2>1. from <= now + 1
    BY <1>3, <1>5 DEF Level
  <2> PICK from0 \in Nat : from0 = from
    BY <1>3
  <2>2. /\ Depth(from0, now) \in Int
        /\ Depth(from0, now + 1) = Depth(from0, now) + (IF Answer(now + 1) = "(" THEN 1
                                             ELSE IF Answer(now + 1) = ")" THEN 0 - 1 ELSE 0)
    BY <1>1, <2>1, DepthStep
  <2> QED BY <1>2, <2>2
<1>7. Depth(from, now + 1) = open
  BY <1>3, <1>4, <1>5, <1>6 DEF Level
<1>8. \A j \in from .. now + 1 : Depth(from, j) >= 1
  BY <1>3, <1>5, <1>7 DEF Level
<1> QED BY <1>2, <1>3, <1>5, <1>7, <1>8, SameText DEF Level

LEMMA HeldStays ==
  ASSUME feed' = feed, start' = start, start \in Nat, CallsStay, Held, Came \in Nat, Opens(1) \in Nat,
         Came' = Came \/ (Came' = Came + 1 /\ Answer(Came + 1) # "(")
  PROVE  Held'
<1> SUFFICES ASSUME NEW from, from = start, NEW came, came = Came', NEW open, open = Opens(1)
             PROVE  Depth(from, came)' <= open
  BY DEF Held, CallsStay
<1>1. \A now : now = Came => Depth(from, now) <= open
  BY DEF Held
<1>2. CASE Came' = Came
  BY <1>1, <1>2, SameText
<1>3. CASE Came' = Came + 1 /\ Answer(Came + 1) # "("
  <2>1. PICK now \in Nat : now = Came
    OBVIOUS
  <2>2. came = now + 1 /\ Depth(from, now) <= open /\ from <= now + 1 /\ from \in Nat
    BY <1>1, <1>3, <2>1 DEF Held
  <2>3. Depth(from, now + 1) <= Depth(from, now) /\ Depth(from, now) \in Int /\ Depth(from, now + 1) \in Int
    BY <1>3, <2>1, <2>2, DepthStep
  <2> QED BY <2>2, <2>3, SameText
<1> QED BY <1>2, <1>3

LEMMA HeldOpens ==
  ASSUME feed' = feed, start' = start, start \in Nat, Shapes, Came \in Nat,
         Held \/ (stack = << >> /\ start = Came + 1),
         Came' = Came + 1, Answer(Came + 1) = "(",
         NEW f, f.call = "sexp", f.from = Came + 1, stack' = Append(stack, f)
  PROVE  Held'
<1>1. PICK now \in Nat : now = Came
  OBVIOUS
<1>2. PICK from \in Nat : from = start
  OBVIOUS
<1>3. CASE Held
  <2>1. 1 \in Calls' /\ stack'[1].from = start' /\ start' <= Came'
    BY <1>3, CallsGrow DEF Held
  <2>2. PICK was : was = Opens(1)
    OBVIOUS
  <2>3. Opens(1)' = was + 1 /\ was \in Nat
    BY <1>3, <2>2, CallsGrow DEF Held
  <2>4. Depth(from, now) <= was /\ from <= now + 1
    BY <1>1, <1>2, <1>3, <2>2 DEF Held
  <2>5. Depth(from, now + 1) <= was + 1
    <3>1. Answer(now + 1) = "("
      BY <1>1
    <3>2. Depth(from, now + 1) = Depth(from, now) + 1 /\ Depth(from, now) \in Int
      BY <2>4, <3>1, DepthStep
    <3> QED BY <2>3, <2>4, <3>2
  <2> QED BY <1>1, <1>2, <2>1, <2>3, <2>5, SameText DEF Held
<1>4. CASE stack = << >> /\ start = Came + 1
  <2>1. Len(stack) = 0
    BY <1>4
  <2>2. 1 \in Calls' /\ stack'[1].from = start' /\ start' <= Came' /\ Opens(1)' = 1
    BY <1>4, <2>1, CallsGrow
  <2>3. from = now + 1 /\ Depth(now + 1, now) = 0
    BY <1>1, <1>2, <1>4, DepthNone
  <2>4. Depth(from, now + 1) = 1
    BY <1>1, <2>3, DepthStep
  <2> QED BY <1>1, <1>2, <2>2, <2>4, SameText DEF Held
<1> QED BY <1>3, <1>4

LEMMA HeldCloses ==
  ASSUME feed' = feed, start' = start, start \in Nat, Shapes, Came \in Nat, Held,
         Came' = Came + 1, Answer(Came + 1) = ")", Len(feed) \in Nat, Came + 1 <= Len(feed),
         \A from : from = start => NeverClosed(from),
         stack # << >>, Top.call = "sexp", stack' = Front(stack)
  PROVE  Held'
<1>1. PICK now \in Nat : now = Came
  OBVIOUS
<1>2. PICK from \in Nat : from = start
  OBVIOUS
<1>3. PICK was : was = Opens(1)
  OBVIOUS
<1>4. Depth(from, now) <= was /\ from <= now
  BY <1>1, <1>2, <1>3 DEF Held
<1>5. Depth(from, now + 1) = Depth(from, now) - 1 /\ Depth(from, now) \in Int
  <2>1. from <= now + 1 /\ Answer(now + 1) = ")"
    BY <1>1, <1>4
  <2>2. Depth(from, now) \in Int
    BY <2>1, DepthStep
  <2>3. Depth(from, now + 1) = Depth(from, now) + (0 - 1)
    BY <2>1, DepthStep
  <2> QED BY <2>2, <2>3
<1>6. Depth(from, now + 1) >= 1
  BY <1>1, <1>2, <1>4, NeverClosedIsDeep
<1>7. 1 \in Calls'
  <2>1. CASE Len(stack) = 1
    <3>1. was = 1
      BY <1>3, <2>1, CallsShrink
    <3> QED BY <1>4, <1>5, <1>6, <3>1
  <2>2. CASE Len(stack) # 1
    BY <2>2, CallsShrink DEF Held
  <2> QED BY <2>1, <2>2
<1>8. stack'[1] = stack[1] /\ was = Opens(1)' + 1 /\ Opens(1)' \in Nat
  BY <1>3, <1>7, CallsShrink
<1>9. Depth(from, now + 1) <= Opens(1)'
  BY <1>4, <1>5, <1>8
<1> QED BY <1>1, <1>2, <1>4, <1>7, <1>8, <1>9, SameText DEF Held

LEMMA OpensIsNat == ASSUME Shapes PROVE Opens(1) \in Nat /\ (stack = << >> => Calls = {})
<1>1. Len(stack) \in Nat /\ (stack = << >> => DOMAIN stack = {})
  BY SeqDomain DEF Shapes
<1> QED BY <1>1, TallyStep DEF Opens, Calls

LEMMA OpenStep ==
  Shapes /\ Place /\ OpenListsCount /\ [Next]_vars => OpenListsCount'
<1> SUFFICES ASSUME Shapes, Place, OpenListsCount, [Next]_vars,
                    Clean', start' \in DOMAIN feed', pc' # "panicked",
                    NEW from, from = start'
             PROVE  (/\ NeverClosed(from) /\ ~Early => Deep
                     /\ Early => Dangling \/ \E i \in from .. Len(feed) : NeverClosed(i)
                     /\ ~Early /\ ~Dangling => Balanced)'
  BY DEF OpenListsCount
<1> USE DEF Goto
<1>1. feed' = feed
  BY DEF Next, ParseStops, ParseItem, NodeAtEOF, NodeRefused, Refuse, NodeLeaf, NodeList,
         InfixPanics, InfixNone, parseDotSelector, SexpItem, SexpEnd, SexpAtEOF,
         ReturnNothing, ReturnToParse, ReturnToSexp, ReturnToDot, vars
<1>2. /\ Clean /\ LexerAnswers(feed) /\ at \in Nat \ {0} /\ Came \in Nat
      /\ Len(feed) \in Nat /\ DOMAIN feed = 1 .. Len(feed)
  BY <1>1, SameText, CleanAnswers DEF Place, Shapes, Came
<1>3. CASE ParseItem
  <2>1. stack' = << >> /\ pc' = "node" /\ at' = start' /\ errs' = {}
    BY <1>3 DEF ParseItem, Place
  <2>2. Calls' = {}
    <3>1. DOMAIN stack' = {}
      BY <2>1, SeqOfSome, SeqDomain
    <3> QED BY <3>1 DEF Calls
  <2> QED BY <2>1, <2>2 DEF Deep, Early, Balanced
<1> DEFINE TooEarly == Dangling \/ \E i \in from .. Len(feed) : NeverClosed(i)
<1>4. CASE start' = start /\ pc # "panicked" /\ ~ParseItem
  <2>1. /\ NeverClosed(from) /\ ~Early => Deep
        /\ Early => TooEarly
        /\ ~Early /\ ~Dangling => Balanced
    BY <1>1, <1>2, <1>4 DEF OpenListsCount
  <2>2. /\ (NeverClosed(from)' <=> NeverClosed(from)) /\ (Dangling' <=> Dangling)
        /\ TooEarly' <=> TooEarly
    BY <1>1, <1>4, SameText DEF Dangling
  <2>3. start \in Nat /\ from \in Nat /\ start <= at /\ start \in DOMAIN feed
    BY <1>1, <1>4 DEF Place
  <2> DEFINE Claim == /\ NeverClosed(from) /\ ~Early => Deep
                      /\ Early => TooEarly
                      /\ ~Early /\ ~Dangling => Balanced
  <2> SUFFICES Claim'
    OBVIOUS
  <2> HIDE DEF TooEarly
  <2>4. ASSUME Early' <=> Early, Deep /\ NeverClosed(from) => Deep', Balanced /\ ~Dangling => Balanced'
        PROVE  Claim'
    BY <2>1, <2>2, <2>4
  <2>5. ASSUME TooEarly, Early' PROVE Claim'
    BY <2>2, <2>5
  <2> HIDE DEF Claim
  <2>6. ASSUME stack' = stack, Came' = Came, pc # "node" PROVE (Deep => Deep') /\ (Balanced => Balanced')
    <3>1. CallsStay
      BY <2>6, StayWhenKept
    <3>2. Held => Held'
      BY <1>1, <1>2, <1>4, <2>3, <2>6, <3>1, HeldStays, OpensIsNat
    <3>3. Balanced => Balanced'
      BY <1>1, <1>2, <1>4, <2>3, <2>6, <3>1, BalancedStays
    <3> QED BY <2>6, <3>2, <3>3 DEF Deep
  <2>7. ASSUME stack = << >>, stack' = << >>, pc # "node" PROVE (Deep => Deep') /\ (Balanced => Balanced')
    <3>1. Calls = {}
      BY <2>7, OpensIsNat
    <3>2. DOMAIN stack' = {}
      BY <2>7, SeqOfSome, SeqDomain
    <3>3. Calls' = {}
      BY <3>2 DEF Calls
    <3> QED BY <2>7, <3>1, <3>3 DEF Deep, Held, Balanced
  <2>8. CASE UNCHANGED vars
    <3>1. Early' <=> Early
      BY <2>8 DEF vars, Early
    <3>2. Came' = Came /\ stack' = stack
      BY <2>8 DEF vars, Came
    <3>3. CallsStay
      BY <3>2, StayWhenKept
    <3>4. Held => Held'
      BY <1>1, <1>2, <1>4, <2>3, <3>2, <3>3, HeldStays, OpensIsNat
    <3>5. Balanced => Balanced'
      BY <1>1, <1>2, <1>4, <2>3, <3>2, <3>3, BalancedStays
    <3>6. Deep => Deep'
      BY <2>8, <3>4 DEF Deep, vars
    <3> QED BY <2>4, <3>1, <3>5, <3>6
  <2>9. CASE ParseStops \/ InfixNone \/ SexpItem
    <3>1. stack' = stack /\ Came' = Came /\ pc # "node" /\ errs' = errs
      BY <2>9 DEF ParseStops, InfixNone, SexpItem, Came
    <3> QED BY <2>4, <2>6, <3>1 DEF Early
  <2>10. CASE ReturnNothing \/ ReturnToParse
    <3>1. stack' = << >> /\ stack = << >> /\ pc # "node" /\ errs' = errs
      BY <1>2, <2>10, CleanNextTok DEF ReturnNothing, ReturnToParse
    <3> QED BY <2>4, <2>7, <3>1 DEF Early
  <2>11. ASSUME Answer(at - 1) = ".", start < at, cur \in {")", "EOF"} PROVE Dangling
    <3>1. at - 1 \in Nat /\ (at - 1) + 1 = at /\ start <= at - 1
      BY <1>2, <2>3, <2>11
    <3>2. at - 1 \in DOMAIN feed /\ feed[at - 1] = "."
      BY <1>2, <2>11, <3>1, CleanAnswers
    <3>3. at - 1 \in start .. Len(feed)
      BY <1>2, <2>3, <3>1, <3>2
    <3> QED BY <2>11, <3>1, <3>2, <3>3 DEF Dangling, cur
  <2>12. CASE NodeAtEOF
    <3>1. cur = "EOF" /\ IsEOF(cur) /\ pc = "node" /\ "unexpected EOF" \in errs'
      BY <1>2, <2>12, CleanAnswers DEF NodeAtEOF, Refuse, cur
    <3>2. Dangling
      BY <2>11, <3>1 DEF Place
    <3> QED BY <2>5, <3>1, <3>2 DEF Early, TooEarly
  <2>13. ASSUME pc = "node", pc' \in {"infix", "return"}, UNCHANGED <<at, stack>>,
                cur # "(", cur = ")" => stack = << >> \/ Dangling
         PROVE  (Deep /\ NeverClosed(from) => Deep') /\ (Balanced /\ ~Dangling => Balanced')
    <3>1. Came' = Came + 1 /\ Answer(Came + 1) = cur
      BY <1>2, <2>13 DEF Came, cur
    <3>2. CallsStay
      BY <2>13, StayWhenKept
    <3>3. NeverClosed(from) => at # start
      <4>1. NeverClosed(from) => Answer(from) = "("
        BY <1>2, <1>4, <2>3 DEF NeverClosed, Answer
      <4> QED BY <1>4, <2>13, <4>1 DEF cur
    <3>4. Held => Held'
      BY <1>1, <1>2, <1>4, <2>3, <2>13, <3>1, <3>2, HeldStays, OpensIsNat
    <3>5. CASE cur # ")"
      <4>1. Balanced => Balanced'
        BY <1>1, <1>2, <1>4, <2>3, <2>13, <3>1, <3>2, <3>5, BalancedStays
      <4> QED BY <3>3, <3>4, <4>1 DEF Deep
    <3>6. CASE Dangling
      BY <3>3, <3>4, <3>6 DEF Deep
    <3>7. CASE stack = << >>
      <4>1. Calls' = {}
        BY <3>2, <3>7, OpensIsNat DEF CallsStay
      <4> QED BY <3>3, <3>4, <4>1 DEF Deep, Balanced
    <3> QED BY <2>13, <3>5, <3>6, <3>7
  <2>14. CASE NodeRefused \/ NodeLeaf
    <3>1. /\ pc = "node" /\ pc' \in {"infix", "return"} /\ UNCHANGED <<at, stack>>
          /\ cur # "(" /\ (Early' <=> Early)
      BY <2>14 DEF NodeRefused, NodeLeaf, Refuse, Early, Leaves, Symbols, Literals, isSpecial, Operators
    <3>2. cur = ")" => stack = << >> \/ Dangling
      BY <2>11, <3>1 DEF Place
    <3> QED BY <2>4, <2>13, <3>1, <3>2
  <2>15. CASE NodeList
    <3> DEFINE f == [call |-> "sexp", from |-> at, items |-> << >>]
    <3>1. /\ pc = "node" /\ pc' = "sexp" /\ cur = "(" /\ at' = at + 1 /\ errs' = errs
          /\ stack' = Append(stack, f)
      BY <1>2, <2>15, NextTokKeeps, CleanNextTok DEF NodeList
    <3>2. /\ Came' = Came + 1 /\ Answer(Came + 1) = "(" /\ start <= Came + 1
          /\ f.call = "sexp" /\ f.from = Came + 1 /\ at = Came + 1
      BY <1>2, <2>3, <3>1 DEF Came, cur
    <3> HIDE DEF f
    <3>3. Deep => Deep'
      <4>1. Held \/ (stack = << >> /\ start = Came + 1) => Held'
        BY <1>1, <1>2, <1>4, <2>3, <3>1, <3>2, HeldOpens
      <4> QED BY <3>2, <4>1 DEF Deep
    <3>4. Balanced => Balanced'
      BY <1>1, <1>2, <1>4, <2>3, <3>1, <3>2, BalancedOpens
    <3> QED BY <2>4, <3>1, <3>3, <3>4 DEF Early
  <2>16. ASSUME CallsStay, pc # "node", Came' = Came \/ (Came' = Came + 1 /\ Answer(Came + 1) = ".")
         PROVE  (Deep => Deep') /\ (Balanced => Balanced')
    <3>1. Held => Held'
      BY <1>1, <1>2, <1>4, <2>3, <2>16, HeldStays, OpensIsNat
    <3>2. Balanced => Balanced'
      BY <1>1, <1>2, <1>4, <2>3, <2>16, BalancedStays
    <3> QED BY <2>16, <3>1, <3>2 DEF Deep
  <2>17. CASE parseDotSelector
    <3> DEFINE f == [call |-> "dot", from |-> parsed.from, items |-> <<parsed>>]
    <3>1. /\ pc = "infix" /\ pc' = "node" /\ next = "." /\ at' = at + 2 /\ errs' = errs
          /\ stack' = Append(stack, f)
      BY <1>2, <2>17, NextTokKeeps, CleanNextTok DEF parseDotSelector
    <3>2. Came' = Came + 1 /\ Answer(Came + 1) = "." /\ f.call = "dot"
      BY <1>2, <3>1 DEF Came, next
    <3> HIDE DEF f
    <3>3. CallsStay
      BY <3>1, <3>2, StayWhenPushed
    <3> QED BY <2>4, <2>16, <3>1, <3>2, <3>3 DEF Early
  <2>18. CASE SexpEnd
    <3>1. /\ pc = "sexp" /\ pc' = "infix" /\ cur = ")" /\ at' = at /\ stack' = Front(stack)
          /\ stack # << >> /\ Top.call = "sexp" /\ (Early' <=> Early)
      BY <2>18 DEF SexpEnd, Shapes, Early
    <3>2. Came' = Came + 1 /\ Answer(Came + 1) = ")" /\ at = Came + 1
      BY <1>2, <3>1 DEF Came, cur
    <3>3. Came + 1 <= Len(feed)
      BY <1>2, <3>1, <3>2, CleanAnswers DEF cur
    <3>4. Deep /\ NeverClosed(from) => Deep'
      <4>1. ASSUME NeverClosed(from) PROVE \A i : i = start => NeverClosed(i)
        BY <1>4, <4>1
      <4>2. Held /\ NeverClosed(from) => Held'
        BY <1>1, <1>2, <1>4, <2>3, <3>1, <3>2, <3>3, <4>1, HeldCloses
      <4> QED BY <3>1, <4>2 DEF Deep
    <3>5. Balanced => Balanced'
      BY <1>1, <1>2, <1>4, <2>3, <3>1, <3>2, BalancedCloses
    <3> QED BY <2>4, <3>1, <3>4, <3>5
  <2>19. CASE SexpAtEOF
    <3>1. /\ pc = "sexp" /\ IsEOF(cur) /\ Early' /\ stack # << >> /\ Top.call = "sexp"
      BY <2>19 DEF SexpAtEOF, Shapes, Early
    <3>2. Came = at - 1 /\ at > Len(feed)
      BY <1>2, <3>1, CleanAnswers DEF Came, cur
    <3>3. ASSUME Balanced PROVE TooEarly
      <4>1. PICK k : k = Len(stack) /\ k \in Calls
        BY <3>1, SeqDomain DEF Calls, Top, Shapes
      <4>2. PICK i \in Nat : i = stack[k].from
        BY <4>1, FromIsNat
      <4>3. PICK came, open : came \in Nat /\ came = Came /\ open = Opens(k)
        BY <1>2
      <4>4. start <= i /\ i <= came /\ Answer(i) = "(" /\ \A j \in i .. came : Depth(i, j) >= 1
        BY <3>3, <4>1, <4>2, <4>3 DEF Balanced, Level
      <4>5. i \in DOMAIN feed /\ feed[i] = "("
        BY <1>2, <4>4, CleanAnswers
      <4>6. ASSUME NEW j \in i .. Len(feed) PROVE Count("(", i, j) > Count(")", i, j)
        <5>1. Depth(i, j) >= 1
          BY <1>2, <3>2, <4>3, <4>4, <4>6
        <5>2. ASSUME NEW tok PROVE Count(tok, i, j) \in Nat
          <6>1. IsFiniteSet(i .. j)
            BY FS_Interval
          <6>2. IsFiniteSet({n \in i .. j : Answer(n) = tok})
            BY <6>1, FS_Subset
          <6> QED BY <6>2, FS_CardinalityType DEF Count
        <5> QED BY <5>1, <5>2 DEF Depth
      <4>7. NeverClosed(i) /\ i \in from .. Len(feed)
        BY <1>2, <1>4, <2>3, <4>4, <4>5, <4>6 DEF NeverClosed
      <4> QED BY <4>7 DEF TooEarly
    <3>4. Dangling => TooEarly
      BY DEF TooEarly
    <3> QED BY <2>1, <2>5, <3>1, <3>3, <3>4
  <2>20. CASE ReturnToSexp
    <3>1. /\ pc = "return" /\ pc' = "sexp" /\ at' = at + 1 /\ errs' = errs /\ stack # << >>
      BY <1>2, <2>20, NextTokKeeps, CleanNextTok DEF ReturnToSexp
    <3>2. Came' = Came
      BY <1>2, <3>1 DEF Came
    <3> DEFINE items == IF parsed = Nil THEN Top.items ELSE Append(Top.items, parsed)
    <3>3. stack' = [stack EXCEPT ![Len(stack)].items = items]
      BY <2>20, <3>1, SeqDomain DEF ReturnToSexp, Top, Shapes
    <3> HIDE DEF items
    <3>4. /\ Len(stack') = Len(stack) /\ Len(stack) \in Nat \ {0}
          /\ \A i \in 1 .. Len(stack) - 1 : stack'[i] = stack[i]
          /\ stack'[Len(stack)] = [call |-> Top.call, from |-> Top.from, items |-> items]
          /\ DOMAIN stack = 1 .. Len(stack) /\ DOMAIN stack' = 1 .. Len(stack)
      BY <3>1, <3>3, GrowTop
    <3>5. \A i \in DOMAIN stack : stack'[i].call = stack[i].call /\ stack'[i].from = stack[i].from
      BY <3>4 DEF Top
    <3>6. CallsStay
      BY <3>4, <3>5, StayWhenKept
    <3> QED BY <2>4, <2>16, <3>1, <3>2, <3>6 DEF Early
  <2>21. CASE ReturnToDot
    <3>1. /\ pc = "return" /\ pc' = "infix" /\ at' = at /\ errs' = errs
          /\ stack # << >> /\ Top.call = "dot" /\ stack' = Front(stack)
      BY <2>21 DEF ReturnToDot
    <3>2. Came' = Came
      BY <3>1 DEF Came
    <3>3. CallsStay
      BY <3>1, StayWhenPopped
    <3> QED BY <2>4, <2>16, <3>1, <3>2, <3>3 DEF Early
  <2>22. ~InfixPanics
    BY DEF InfixPanics
  <2> QED BY <1>4, <2>8, <2>9, <2>10, <2>12, <2>14, <2>15, <2>17, <2>18, <2>19, <2>20, <2>21, <2>22 DEF Next
<1>5. ~ParseItem => start' = start /\ pc # "panicked"
  BY DEF Next, ParseStops, NodeAtEOF, NodeRefused, Refuse, NodeLeaf, NodeList,
         InfixPanics, InfixNone, parseDotSelector, SexpItem, SexpEnd, SexpAtEOF,
         ReturnNothing, ReturnToParse, ReturnToSexp, ReturnToDot, vars
<1> QED BY <1>3, <1>4, <1>5

(* What the REPL goes by: the input ended too early if the last list is    *)
(* never closed, and only if one is not, or a selector lacks its operand.  *)
THEOREM IncompleteMeansOpen == Spec => []IncompleteIsOpen
<1> DEFINE Inv == Shapes /\ Place /\ OpenListsCount
<1>1. Init => Inv
  <2> SUFFICES ASSUME Init PROVE Inv
    OBVIOUS
  <2>1. PICK f \in Feeds : New(f)
    BY DEF Init
  <2>2. LexerAnswers(feed)
    BY <2>1, FeedsAssumption DEF New
  <2>3. 0 \notin DOMAIN feed
    BY <2>2, LenProperties DEF LexerAnswers
  <2> QED BY <2>1, <2>2, <2>3, ShapesInit DEF New, Place, OpenListsCount
<1>2. Inv /\ [Next]_vars => Inv'
  BY ShapesStep, PlaceStep, OpenStep
<1>3. Inv => IncompleteIsOpen
  <2> SUFFICES ASSUME Inv, pc = "done", Clean, start \in DOMAIN feed
               PROVE  /\ NeverClosed(start) => Early
                      /\ Early => \E i \in start .. Len(feed) :
                           NeverClosed(i) \/ (feed[i] = "." /\ Answer(i + 1) \in {")", "EOF"})
    BY DEF IncompleteIsOpen, Early
  <2>1. stack = << >> /\ Calls = {}
    BY OpensIsNat DEF Place
  <2>2. ~Deep
    BY <2>1 DEF Deep, Held
  <2> QED BY <2>2 DEF OpenListsCount, Dangling
<1> QED BY <1>1, <1>2, <1>3, PTL DEF Spec

(***************************************************************************)
(* Parsing without an error takes the whole text: each answer that was     *)
(* looked at is none that carries an error, so the end that stops Parse is *)
(* the end of the answers, and nothing but a token of a node was passed.   *)
(***************************************************************************)
Taken ==
  errs = {} /\ pc # "panicked" =>
    /\ \A i \in 1 .. at + 1 : ErrorOf(Answer(i)) = {}
    /\ at <= Len(feed) + 1
    /\ pc \in {"infix", "return"} => at <= Len(feed)
    /\ pc = "done" => IsEOF(cur)

LEMMA ErrorsAre ==
  /\ DOMAIN LexicalError = {"bad_string", "open_string", "lone_quote", "eof_error"}
  /\ LexicalError["bad_string"] = {"lexical"}
  /\ LexicalError["open_string"] = {"lexical", "unexpected EOF"}
  /\ LexicalError["lone_quote"] = {"lexical", "unexpected EOF", "eof"}
  /\ LexicalError["eof_error"] = {"eof"}
  BY DEF LexicalError

LEMMA AnswersAre ==
  ASSUME LexerAnswers(feed)
  PROVE  /\ Len(feed) \in Nat /\ DOMAIN feed = 1 .. Len(feed)
         /\ \A k \in Nat :
              /\ k \in DOMAIN feed => Answer(k) = feed[k] /\ feed[k] \in Tokens \ {"EOF"}
              /\ k \notin DOMAIN feed => Answer(k) = "EOF"
              /\ IsEOF(Answer(k)) /\ ErrorOf(Answer(k)) = {} => k \notin DOMAIN feed
              /\ "eof" \in ErrorOf(Answer(k)) => k <= 2
<1>1. Len(feed) \in Nat /\ DOMAIN feed = 1 .. Len(feed)
  BY LenProperties DEF LexerAnswers
<1>2. \A k \in DOMAIN feed : feed[k] \in Tokens \ {"EOF"}
  BY <1>1, ElementOfSeq DEF LexerAnswers
<1>3. /\ "EOF" \notin DOMAIN LexicalError
      /\ \A tok \in DOMAIN LexicalError : ErrorOf(tok) # {}
      /\ \A tok : "eof" \in ErrorOf(tok) => tok \in {"lone_quote", "eof_error"}
  BY ErrorsAre DEF ErrorOf
<1>4. \A k \in DOMAIN feed : feed[k] \in {"lone_quote", "eof_error"} => k <= 2
  <2>1. \A k \in DOMAIN feed :
          (feed[k] = "lone_quote" => Len(feed) = 1) /\ (feed[k] = "eof_error" => Len(feed) <= 2)
    BY DEF LexerAnswers
  <2> QED BY <1>1, <2>1
<1> QED BY <1>1, <1>2, <1>3, <1>4 DEF Answer, IsEOF

LEMMA TakenInit ==
  ASSUME LexerAnswers(feed), NEW f, New(f)
  PROVE  Taken
<1>1. at = 1 /\ pc = "parse" /\ Len(feed) \in Nat /\ errs = ErrorOf(Answer(1)) \cup ErrorOf(Answer(2))
  BY AnswersAre DEF New, cur, next
<1>2. \A i \in 1 .. at + 1 : i = 1 \/ i = 2
  BY <1>1
<1> QED BY <1>1, <1>2 DEF Taken

LEMMA TakenStep == Shapes /\ Place /\ Taken /\ [Next]_vars => Taken'
<1> SUFFICES ASSUME Shapes, Place, Taken, [Next]_vars, errs' = {}, pc' # "panicked"
             PROVE  (/\ \A i \in 1 .. at + 1 : ErrorOf(Answer(i)) = {}
                     /\ at <= Len(feed) + 1
                     /\ pc \in {"infix", "return"} => at <= Len(feed)
                     /\ pc = "done" => IsEOF(cur))'
  BY DEF Taken
<1> USE DEF Goto
<1>1. feed' = feed /\ LexerAnswers(feed) /\ at \in Nat \ {0}
  BY DEF Place, Shapes, Next, ParseStops, ParseItem, NodeAtEOF, NodeRefused, Refuse, NodeLeaf, NodeList,
         InfixPanics, InfixNone, parseDotSelector, SexpItem, SexpEnd, SexpAtEOF,
         ReturnNothing, ReturnToParse, ReturnToSexp, ReturnToDot, vars
<1>2. /\ Len(feed) \in Nat /\ \A i : Answer(i)' = Answer(i)
      /\ cur # "EOF" => at <= Len(feed)
      /\ next # "EOF" => at + 1 <= Len(feed)
  BY <1>1, AnswersAre, SameText DEF cur, next
<1>3. pc # "panicked" /\ errs = {}
  BY DEF Next, ParseStops, ParseItem, NodeAtEOF, NodeRefused, Refuse, NodeLeaf, NodeList,
         InfixPanics, InfixNone, parseDotSelector, SexpItem, SexpEnd, SexpAtEOF, nextTok,
         ReturnNothing, ReturnToParse, ReturnToSexp, ReturnToDot, vars
<1>4. /\ \A i \in 1 .. at + 1 : ErrorOf(Answer(i)) = {}
      /\ at <= Len(feed) + 1
      /\ pc \in {"infix", "return"} => at <= Len(feed)
      /\ pc = "done" => IsEOF(cur)
  BY <1>3 DEF Taken
<1>5. ASSUME at' = at, pc' \in {"infix", "return"} => at <= Len(feed), pc' = "done" => IsEOF(cur)
      PROVE  (/\ \A i \in 1 .. at + 1 : ErrorOf(Answer(i)) = {}
              /\ at <= Len(feed) + 1
              /\ pc \in {"infix", "return"} => at <= Len(feed)
              /\ pc = "done" => IsEOF(cur))'
  BY <1>1, <1>2, <1>4, <1>5 DEF cur
<1>6. ASSUME NEW n \in {1, 2}, nextTok(n), at + n <= Len(feed) + 1, pc' \notin {"infix", "return", "done"}
      PROVE  (/\ \A i \in 1 .. at + 1 : ErrorOf(Answer(i)) = {}
              /\ at <= Len(feed) + 1
              /\ pc \in {"infix", "return"} => at <= Len(feed)
              /\ pc = "done" => IsEOF(cur))'
  <2>1. at' = at + n
    BY <1>6 DEF nextTok
  <2>2. ASSUME NEW i \in at + 2 .. at + 1 + n PROVE ErrorOf(Answer(i)) = {}
    <3>1. "eof" \notin ErrorOf(Answer(i))
      BY <1>1, <2>2, AnswersAre
    <3> QED BY <1>6, <2>2, <3>1 DEF nextTok
  <2>3. \A i \in 1 .. at' + 1 : i \in 1 .. at + 1 \/ i \in at + 2 .. at + 1 + n
    BY <1>1, <2>1
  <2> QED BY <1>1, <1>2, <1>4, <1>6, <2>1, <2>2, <2>3
<1>7. CASE UNCHANGED vars
  BY <1>4, <1>5, <1>7 DEF vars
<1>8. CASE ParseItem \/ SexpItem \/ ReturnNothing
  BY <1>5, <1>8 DEF ParseItem, SexpItem, ReturnNothing
<1>9. CASE ParseStops
  BY <1>3, <1>5, <1>9 DEF ParseStops
<1>10. CASE NodeLeaf \/ SexpEnd
  <2>1. cur # "EOF"
    BY <1>10 DEF NodeLeaf, SexpEnd, Leaves, Symbols, Literals, isSpecial, Operators
  <2> QED BY <1>2, <1>5, <1>10, <2>1 DEF NodeLeaf, SexpEnd
<1>11. CASE InfixNone \/ ReturnToDot
  BY <1>4, <1>5, <1>11 DEF InfixNone, ReturnToDot
<1>12. CASE NodeList
  BY <1>1, <1>2, <1>6, <1>12 DEF NodeList
<1>13. CASE parseDotSelector
  BY <1>1, <1>2, <1>6, <1>13 DEF parseDotSelector
<1>14. CASE ReturnToParse \/ ReturnToSexp
  BY <1>1, <1>2, <1>4, <1>6, <1>14 DEF ReturnToParse, ReturnToSexp
<1>15. ~NodeAtEOF /\ ~NodeRefused /\ ~SexpAtEOF /\ ~InfixPanics
  BY DEF NodeAtEOF, NodeRefused, Refuse, SexpAtEOF, InfixPanics
<1> QED BY <1>7, <1>8, <1>9, <1>10, <1>11, <1>12, <1>13, <1>14, <1>15 DEF Next

LEMMA TakesWholeText ==
  ASSUME Shapes, Place, Taken, TreeIsSound, EveryTokenOnce, NoGap, pc = "done", errs = {}
  PROVE  Run(pkg, 1) = Len(feed) + 1 /\ \A i \in DOMAIN pkg : Built(pkg[i])
<1>1. stack = << >> /\ at \in Nat \ {0} /\ LexerAnswers(feed)
  BY DEF Place, Shapes
<1>2. Run(pkg, 1) = at
  BY <1>1 DEF EveryTokenOnce
<1>3. at = Len(feed) + 1
  <2>1. IsEOF(cur) /\ at <= Len(feed) + 1 /\ ErrorOf(cur) = {}
    BY <1>1 DEF Taken, cur
  <2>2. at \notin DOMAIN feed
    BY <1>1, <2>1, AnswersAre DEF cur
  <2> QED BY <1>1, <2>1, <2>2, AnswersAre
<1>4. \A i \in DOMAIN pkg : Built(pkg[i])
  BY DEF TreeIsSound, SoundNodes, Sound
<1> QED BY <1>2, <1>3, <1>4

(***************************************************************************)
(* What there is in the text when the errors say that it ended too early,  *)
(* for any answers: the one place where a malformed string matters is      *)
(* before the end of a list, which then ends there.  As long as there is   *)
(* nothing of the kind, the open calls are what the parentheses say.       *)
(***************************************************************************)
OpenBefore(k) ==
  \E i \in 1 .. k - 1 : feed[i] = "(" /\ \A j \in i .. k - 1 : Count("(", i, j) > Count(")", i, j)
DanglingAt(i) == feed[i] = "." /\ Answer(i + 1) \in {")", "EOF", "bad_string"}

MoreMayHelp ==
  \/ OpenBefore(Len(feed) + 1)
  \/ \E i \in DOMAIN feed : feed[i] \in {"open_string", "lone_quote", "eof_error"} \/ DanglingAt(i)
  \/ \E i \in DOMAIN feed : feed[i] = "bad_string" /\ OpenBefore(i)

TooEarly == errs \cap {"eof", "unexpected EOF"} # {}

WhyEarly ==
  pc # "panicked" =>
    /\ TooEarly => MoreMayHelp
    /\ ~MoreMayHelp => Balanced

LEMMA MoreStays == feed' = feed => (MoreMayHelp' <=> MoreMayHelp)
<1> SUFFICES ASSUME feed' = feed PROVE MoreMayHelp' <=> MoreMayHelp
  OBVIOUS
<1>1. \A i : Answer(i)' = Answer(i)
  BY DEF Answer
<1>2. ASSUME NEW tok, NEW i, NEW j PROVE Count(tok, i, j)' = Count(tok, i, j)
  <2>1. {k \in i .. j : Answer(k)' = tok} = {k \in i .. j : Answer(k) = tok}
    BY <1>1
  <2> QED BY <2>1 DEF Count
<1>3. \A k : OpenBefore(k)' <=> OpenBefore(k)
  BY <1>2 DEF OpenBefore
<1>4. \A i : DanglingAt(i)' <=> DanglingAt(i)
  BY <1>1 DEF DanglingAt
<1> QED BY <1>3, <1>4 DEF MoreMayHelp

SaysEarly(tok) == ErrorOf(tok) \cap {"eof", "unexpected EOF"} # {}

LEMMA EarlyErrors ==
  ASSUME LexerAnswers(feed), NEW k \in Nat, SaysEarly(Answer(k))
  PROVE  MoreMayHelp
<1>1. Answer(k) \in {"open_string", "lone_quote", "eof_error"}
  BY ErrorsAre DEF SaysEarly, ErrorOf
<1>2. k \in DOMAIN feed /\ feed[k] = Answer(k)
  BY <1>1, AnswersAre
<1> QED BY <1>1, <1>2 DEF MoreMayHelp

LEMMA EarlyNextTok ==
  ASSUME LexerAnswers(feed), at \in Nat, NEW n \in Nat, nextTok(n), TooEarly'
  PROVE  TooEarly \/ MoreMayHelp
<1> DEFINE found == {e \in {ErrorOf(Answer(i)) : i \in at + 2 .. at + 1 + n} : "eof" \notin e}
<1>1. errs' = errs \cup UNION found
  BY DEF nextTok
<1> SUFFICES ASSUME ~TooEarly PROVE MoreMayHelp
  OBVIOUS
<1>2. PICK i \in at + 2 .. at + 1 + n : SaysEarly(Answer(i))
  BY <1>1 DEF TooEarly, SaysEarly
<1>3. i \in Nat
  OBVIOUS
<1> QED BY <1>2, <1>3, EarlyErrors

(* A call of parseSexp that is open now means a list open before token at. *)
LEMMA OpenCall ==
  ASSUME Shapes, Place, Balanced, pc = "sexp"
  PROVE  OpenBefore(at) /\ (at > Len(feed) => OpenBefore(Len(feed) + 1))
<1>1. stack # << >> /\ Top.call = "sexp" /\ at \in Nat \ {0} /\ start \in Nat /\ LexerAnswers(feed)
  BY DEF Shapes, Place
<1>2. PICK k : k = Len(stack) /\ k \in Calls
  BY <1>1, SeqDomain DEF Calls, Top, Shapes
<1>3. PICK i \in Nat : i = stack[k].from
  BY <1>2, FromIsNat
<1>4. PICK came, open : came = Came /\ open = Opens(k) /\ came = at - 1
  BY DEF Came
<1>5. i <= came /\ Answer(i) = "(" /\ \A j \in i .. came : Depth(i, j) >= 1
  BY <1>2, <1>3, <1>4 DEF Balanced, Level
<1>6. i \in DOMAIN feed /\ feed[i] = "(" /\ i \in 1 .. at - 1
  BY <1>1, <1>4, <1>5, AnswersAre
<1>7. ASSUME NEW j \in i .. at - 1 PROVE Count("(", i, j) > Count(")", i, j)
  <2>1. Depth(i, j) >= 1
    BY <1>4, <1>5
  <2>2. ASSUME NEW tok PROVE Count(tok, i, j) \in Nat
    <3>1. IsFiniteSet(i .. j)
      BY FS_Interval
    <3>2. IsFiniteSet({n \in i .. j : Answer(n) = tok})
      BY <3>1, FS_Subset
    <3> QED BY <3>2, FS_CardinalityType DEF Count
  <2> QED BY <2>1, <2>2 DEF Depth
<1>8. ASSUME NEW m \in Nat, i \in 1 .. m - 1, m - 1 <= at - 1 PROVE OpenBefore(m)
  <2>1. \A j \in i .. m - 1 : j \in i .. at - 1
    BY <1>1, <1>8
  <2> QED BY <1>6, <1>7, <1>8, <2>1 DEF OpenBefore
<1>9. OpenBefore(at)
  BY <1>1, <1>6, <1>8
<1>10. ASSUME at > Len(feed) PROVE OpenBefore(Len(feed) + 1)
  <2>1. Len(feed) + 1 \in Nat /\ i \in 1 .. Len(feed) + 1 - 1 /\ Len(feed) + 1 - 1 <= at - 1
    BY <1>1, <1>6, <1>10, AnswersAre
  <2> QED BY <1>8, <2>1
<1> QED BY <1>9, <1>10

LEMMA WhyInit ==
  ASSUME LexerAnswers(feed), NEW f, New(f)
  PROVE  WhyEarly
<1>1. errs = ErrorOf(Answer(1)) \cup ErrorOf(Answer(2)) /\ stack = << >>
  BY DEF New, cur, next
<1>2. Calls = {}
  BY <1>1, SeqOfSome, SeqDomain DEF Calls
<1>3. TooEarly => MoreMayHelp
  <2>1. TooEarly => SaysEarly(Answer(1)) \/ SaysEarly(Answer(2))
    BY <1>1 DEF TooEarly, SaysEarly
  <2> QED BY <2>1, EarlyErrors
<1> QED BY <1>2, <1>3 DEF WhyEarly, Balanced

LEMMA WhyStep == Shapes /\ Place /\ WhyEarly /\ [Next]_vars => WhyEarly'
<1> SUFFICES ASSUME Shapes, Place, WhyEarly, [Next]_vars, pc' # "panicked"
             PROVE  (TooEarly => MoreMayHelp)' /\ (~MoreMayHelp => Balanced)'
  BY DEF WhyEarly
<1> USE DEF Goto
<1>1. feed' = feed /\ pc # "panicked"
  BY DEF Next, ParseStops, ParseItem, NodeAtEOF, NodeRefused, Refuse, NodeLeaf, NodeList,
         InfixPanics, InfixNone, parseDotSelector, SexpItem, SexpEnd, SexpAtEOF,
         ReturnNothing, ReturnToParse, ReturnToSexp, ReturnToDot, vars
<1>2. CASE MoreMayHelp
  BY <1>1, <1>2, MoreStays
<1>3. CASE ~MoreMayHelp
  <2>1. ~TooEarly /\ Balanced /\ (MoreMayHelp' <=> MoreMayHelp)
    BY <1>1, <1>3, MoreStays DEF WhyEarly
  <2>2. /\ LexerAnswers(feed) /\ at \in Nat \ {0} /\ Came \in Nat /\ start \in Nat /\ start <= at
        /\ Len(feed) \in Nat /\ DOMAIN feed = 1 .. Len(feed)
    BY AnswersAre DEF Place, Shapes, Came
  <2> SUFFICES ~TooEarly' /\ Balanced'
    OBVIOUS
  <2>3. ASSUME UNCHANGED errs PROVE ~TooEarly'
    BY <2>1, <2>3 DEF TooEarly
  <2>4. ASSUME NEW n \in Nat, nextTok(n) PROVE ~TooEarly'
    BY <1>3, <2>1, <2>2, <2>4, EarlyNextTok
  <2>5. ASSUME stack' = << >> PROVE Balanced'
    <3>1. DOMAIN stack' = {}
      BY <2>5, SeqOfSome, SeqDomain
    <3> QED BY <3>1 DEF Balanced, Calls
  <2>6. ASSUME CallsStay, start' = start,
               Came' = Came \/ (Came' = Came + 1 /\ Answer(Came + 1) \notin {"(", ")"})
        PROVE  Balanced'
    BY <1>1, <2>1, <2>2, <2>6, BalancedStays
  <2>7. ASSUME stack' = stack PROVE CallsStay
    BY <2>7, StayWhenKept
  <2>8. CASE UNCHANGED vars \/ InfixNone \/ SexpItem
    <3>1. Came' = Came /\ stack' = stack /\ start' = start /\ errs' = errs
      BY <2>8 DEF vars, InfixNone, SexpItem, Came
    <3> QED BY <2>3, <2>6, <2>7, <3>1
  <2>9. CASE ParseStops \/ ParseItem \/ ReturnNothing
    <3>1. stack' = << >> /\ errs' = errs
      BY <2>9 DEF ParseStops, ParseItem, ReturnNothing, Place
    <3> QED BY <2>3, <2>5, <3>1
  <2>10. CASE ReturnToParse
    <3>1. stack' = << >> /\ nextTok(1)
      BY <2>10 DEF ReturnToParse
    <3> QED BY <2>4, <2>5, <3>1
  <2>11. ASSUME Answer(at - 1) = ".", start < at, cur \in {")", "EOF", "bad_string"} PROVE FALSE
    <3>1. at - 1 \in Nat /\ (at - 1) + 1 = at
      BY <2>2, <2>11
    <3>2. at - 1 \in DOMAIN feed /\ feed[at - 1] = "."
      BY <2>2, <2>11, <3>1, AnswersAre
    <3>3. DanglingAt(at - 1)
      BY <2>11, <3>1, <3>2 DEF DanglingAt, cur
    <3> QED BY <1>3, <3>2, <3>3 DEF MoreMayHelp
  <2>12. cur \notin {"open_string", "lone_quote", "eof_error"}
    <3>1. cur # "EOF" => at \in DOMAIN feed /\ feed[at] = cur
      BY <2>2, AnswersAre DEF cur
    <3> QED BY <1>3, <3>1 DEF MoreMayHelp
  <2>13. IsEOF(cur) => cur \in {"EOF", "bad_string"}
    BY <2>12, ErrorsAre DEF IsEOF
  <2>14. ~NodeAtEOF
    BY <2>11, <2>13 DEF NodeAtEOF, Place
  <2>15. ~SexpAtEOF
    <3> SUFFICES ASSUME SexpAtEOF PROVE FALSE
      OBVIOUS
    <3>1. pc = "sexp" /\ IsEOF(cur)
      BY DEF SexpAtEOF
    <3>2. OpenBefore(at)
      BY <2>1, <3>1, OpenCall
    <3>3. CASE cur = "bad_string"
      <4>1. at \in DOMAIN feed /\ feed[at] = "bad_string"
        BY <2>2, <3>3, AnswersAre DEF cur
      <4> QED BY <1>3, <3>2, <4>1 DEF MoreMayHelp
    <3>4. CASE cur = "EOF"
      <4>1. at > Len(feed)
        BY <2>2, <3>4, AnswersAre DEF cur
      <4>2. OpenBefore(Len(feed) + 1)
        BY <2>1, <3>1, <4>1, OpenCall
      <4> QED BY <1>3, <4>2 DEF MoreMayHelp
    <3> QED BY <2>13, <3>1, <3>3, <3>4
  <2>16. CASE NodeRefused \/ NodeLeaf
    <3>1. /\ pc = "node" /\ pc' \in {"infix", "return"} /\ UNCHANGED <<at, stack, start>>
          /\ cur # "(" /\ errs' \in {errs, errs \cup {"syntax"}}
      BY <2>16 DEF NodeRefused, NodeLeaf, Refuse, Leaves, Symbols, Literals, isSpecial, Operators
    <3>2. ~TooEarly'
      BY <2>1, <3>1 DEF TooEarly
    <3>3. cur = ")" => stack = << >>
      BY <2>11, <3>1 DEF Place
    <3>4. Came' = Came + 1 /\ Answer(Came + 1) = cur
      BY <2>2, <3>1 DEF Came, cur
    <3> QED BY <2>5, <2>6, <2>7, <3>1, <3>2, <3>3, <3>4
  <2>17. CASE NodeList
    <3> DEFINE f == [call |-> "sexp", from |-> at, items |-> << >>]
    <3>1. /\ pc = "node" /\ pc' = "sexp" /\ cur = "(" /\ at' = at + 1 /\ start' = start
          /\ stack' = Append(stack, f) /\ nextTok(1)
      BY <2>17, NextTokKeeps DEF NodeList
    <3>2. /\ Came' = Came + 1 /\ Answer(Came + 1) = "(" /\ start <= Came + 1
          /\ f.call = "sexp" /\ f.from = Came + 1
      BY <2>2, <3>1 DEF Came, cur
    <3> HIDE DEF f
    <3>3. Balanced'
      BY <1>1, <2>1, <2>2, <3>1, <3>2, BalancedOpens
    <3> QED BY <2>4, <3>1, <3>3
  <2>18. CASE parseDotSelector
    <3> DEFINE f == [call |-> "dot", from |-> parsed.from, items |-> <<parsed>>]
    <3>1. /\ pc = "infix" /\ pc' = "node" /\ next = "." /\ at' = at + 2 /\ start' = start
          /\ stack' = Append(stack, f) /\ nextTok(2)
      BY <2>18, NextTokKeeps DEF parseDotSelector
    <3>2. Came' = Came + 1 /\ Answer(Came + 1) = "." /\ f.call = "dot"
      BY <2>2, <3>1 DEF Came, next
    <3> HIDE DEF f
    <3>3. CallsStay
      BY <3>1, <3>2, StayWhenPushed
    <3> QED BY <2>4, <2>6, <3>1, <3>2, <3>3
  <2>19. CASE SexpEnd
    <3>1. /\ pc = "sexp" /\ pc' = "infix" /\ cur = ")" /\ at' = at /\ start' = start
          /\ stack' = Front(stack) /\ stack # << >> /\ Top.call = "sexp"
          /\ errs' \in {errs, errs \cup {"syntax"}}
      BY <2>19 DEF SexpEnd, Shapes
    <3>2. Came' = Came + 1 /\ Answer(Came + 1) = ")"
      BY <2>2, <3>1 DEF Came, cur
    <3>3. Balanced'
      BY <1>1, <2>1, <2>2, <3>1, <3>2, BalancedCloses
    <3> QED BY <2>1, <3>1, <3>3 DEF TooEarly
  <2>20. CASE ReturnToSexp
    <3>1. /\ pc = "return" /\ pc' = "sexp" /\ at' = at + 1 /\ start' = start /\ stack # << >> /\ nextTok(1)
      BY <2>20, NextTokKeeps DEF ReturnToSexp
    <3>2. Came' = Came
      BY <2>2, <3>1 DEF Came
    <3> DEFINE items == IF parsed = Nil THEN Top.items ELSE Append(Top.items, parsed)
    <3>3. stack' = [stack EXCEPT ![Len(stack)].items = items]
      BY <2>20, <3>1, SeqDomain DEF ReturnToSexp, Top, Shapes
    <3> HIDE DEF items
    <3>4. /\ Len(stack') = Len(stack) /\ Len(stack) \in Nat \ {0}
          /\ \A i \in 1 .. Len(stack) - 1 : stack'[i] = stack[i]
          /\ stack'[Len(stack)] = [call |-> Top.call, from |-> Top.from, items |-> items]
          /\ DOMAIN stack = 1 .. Len(stack) /\ DOMAIN stack' = 1 .. Len(stack)
      BY <3>1, <3>3, GrowTop
    <3>5. \A i \in DOMAIN stack : stack'[i].call = stack[i].call /\ stack'[i].from = stack[i].from
      BY <3>4 DEF Top
    <3>6. CallsStay
      BY <3>4, <3>5, StayWhenKept
    <3> QED BY <2>4, <2>6, <3>1, <3>2, <3>6
  <2>21. CASE ReturnToDot
    <3>1. /\ pc = "return" /\ pc' = "infix" /\ at' = at /\ start' = start /\ errs' = errs
          /\ stack # << >> /\ Top.call = "dot" /\ stack' = Front(stack)
      BY <2>21 DEF ReturnToDot
    <3>2. Came' = Came
      BY <3>1 DEF Came
    <3>3. CallsStay
      BY <3>1, StayWhenPopped
    <3> QED BY <2>3, <2>6, <3>1, <3>2, <3>3
  <2>22. ~InfixPanics
    BY DEF InfixPanics
  <2> QED BY <2>8, <2>9, <2>10, <2>14, <2>15, <2>16, <2>17, <2>18, <2>19, <2>20, <2>21, <2>22 DEF Next
<1> QED BY <1>2, <1>3

(* All that is known of a parser over answers that a lexer may give.       *)
ParseInv ==
  Shapes /\ TreeIsSound /\ EveryTokenOnce /\ NoGap /\ Place /\ Taken /\ WhyEarly

LEMMA ParseBegins ==
  ASSUME LexerAnswers(feed), NEW f, New(f)
  PROVE  ParseInv
<1>1. Shapes /\ TreeIsSound /\ EveryTokenOnce /\ NoGap
  BY ShapesInit, SoundInit, TokensInit
<1>2. Taken /\ WhyEarly
  BY TakenInit, WhyInit
<1>3. Place
  BY DEF New, Place
<1> QED BY <1>1, <1>2, <1>3 DEF ParseInv

LEMMA ParseGoesOn == ParseInv /\ [Next]_vars => ParseInv'
  BY ShapesStep, SoundStep, TokensStep, PlaceStep, TakenStep, WhyStep DEF ParseInv
=============================================================================
