------------------------------- MODULE MCAst -------------------------------
(***************************************************************************)
(* An instance of Ast for TLC: every tree of one composite over leaves and *)
(* holes, and composites of a composite and a leaf.                        *)
(***************************************************************************)
EXTENDS Ast, SequencesExt

CONSTANT MaxItems

T(kind, val, kids) == [kind |-> kind, val |-> val, kids |-> kids]

LeafTrees == {T("symbol", "x", << >>), T("symbol", "y", << >>),
              T("keyword", "x", << >>), T("literal", "x", << >>)}
Nils == {T("nil leaf", "", << >>), T("nil composite", "", << >>)}
NoElse == T("nothing", "", << >>)

Over(kids, elses, n) ==
  UNION {{T(kind, "", items) : kind \in Slices, items \in BoundedSeq(kids, n)},
         {T("special", "-", items) : items \in BoundedSeq(kids, n)},
         {T("dot", "", <<l, r>>) : l \in kids, r \in kids},
         {T("if", "", <<c, t, e>>) : c \in kids, t \in kids, e \in elses}}

Flat == Over(LeafTrees \cup Nils, LeafTrees \cup Nils \cup {NoElse}, MaxItems)
X == T("symbol", "x", << >>)
WithNils == {T(kind, "", <<X, T("nil composite", "", << >>)>>) : kind \in {"sexp", "import"}}
Small == Over({X}, {X}, 1) \cup WithNils
Nested == Over(Small \cup {X}, {X, NoElse}, 2)

TheTrees == UNION {LeafTrees, Nils, {NoElse}, Flat, Nested}

AllTrees == TheTrees  \* TLC keeps the value of TheTrees

RECURSIVE Height(_)
Height(t) == IF t.kids = << >> THEN 0 ELSE 1 + Max({Height(t.kids[i]) : i \in DOMAIN t.kids})
TheDepths == [t \in TheTrees |-> Height(t)]

(* The memory after a tree was put in it, children first, and where it is. *)
RECURSIVE Put(_, _), PutAll(_, _)
Put(heap, t) ==
  IF t.kind \in Holes
  THEN [heap EXCEPT !.root = CASE t.kind = "nothing" -> Nothing
                               [] t.kind = "nil leaf" -> NilLeaf
                               [] t.kind = "nil composite" -> NilComposite]
  ELSE LET below == PutAll([heap EXCEPT !.refs = << >>], t.kids)
           leaf  == t.kind \in Leaves
       IN  [nodes |-> Append(below.nodes,
                        [kind |-> t.kind, val |-> t.val,
                         kids |-> IF leaf THEN 0 ELSE Len(below.arrays) + 1]),
            arrays |-> IF leaf THEN below.arrays ELSE Append(below.arrays, below.refs),
            refs |-> heap.refs,
            root |-> Len(below.nodes) + 1]
PutAll(heap, ts) ==
  IF ts = << >> THEN heap
  ELSE LET one == Put(heap, Head(ts))
       IN  PutAll([one EXCEPT !.refs = Append(one.refs, one.root)], Tail(ts))

NoHeap == [nodes |-> << >>, arrays |-> << >>, refs |-> << >>, root |-> Nothing]
TheMemory == [t \in TheTrees |-> Put(NoHeap, t)]
AllDepths == TheDepths
AllMemory == TheMemory
=============================================================================
