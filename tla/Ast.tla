-------------------------------- MODULE Ast --------------------------------
(***************************************************************************)
(* The nodes of package ast (language/ast): Clone and Equal.               *)
(*                                                                         *)
(* Nodes and the arrays of their children are heaps, a pointer an index.   *)
(* The fields of an `if' and of a dot selector are an array of their own;  *)
(* the other composites have a slice.  Clone is a stack machine, a frame   *)
(* for each composite whose children are being cloned.                     *)
(***************************************************************************)
EXTENDS Integers, Sequences, SequencesExt

CONSTANTS
  Trees,    \* the trees that are cloned and compared, with all their subtrees
  Depth,    \* how deep each of them is
  Memory,   \* how each lies in memory: nodes, arrays, and a reference to it
  MaxDepth  \* bound: how deep a tree in memory is followed

(* References: a node, or no node.  A nil interface holds nothing; a nil   *)
(* pointer of a concrete type does not equal it.                           *)
Nothing == 0
NilLeaf == -1
NilComposite == -2

Leaves == {"literal", "symbol", "keyword"}
Fielded == {"if", "dot"}
Slices == {"sexp", "package", "special", "import"}
Kinds == Leaves \cup Fielded \cup Slices
Holes == {"nothing", "nil leaf", "nil composite"}

(* A tree is a record of kind, value and children.                         *)
ASSUME TreesAssumption ==
  \A t \in Trees :
    /\ t = [kind |-> t.kind, val |-> t.val, kids |-> t.kids]
    /\ t.kind \in Kinds \cup Holes /\ t.kids \in Seq(Trees)
    /\ t.kind \in Leaves \cup Holes => t.kids = << >>
    /\ t.kind = "if" => Len(t.kids) = 3
    /\ t.kind \notin Leaves \cup {"special"} => t.val = ""

ASSUME DepthAssumption ==
  \A t \in Trees : Depth[t] \in Nat /\ \A i \in DOMAIN t.kids : Depth[t.kids[i]] < Depth[t]

VARIABLES
  nodes,     \* the structs: kind, value, and the array of the children
  arrays,    \* the arrays
  root,      \* the node that is cloned
  original,  \* history: the tree it was
  stack,     \* Clone's frames: from a node, to its clone, at a child
  mode,      \* "call", "loop", "return", "done" or "panic"
  ref        \* the node Clone is called on, or the one it returns

vars == <<nodes, arrays, root, original, stack, mode, ref>>

(***************************************************************************)
(* The tree that lies in memory, from a reference on.                      *)
(***************************************************************************)
Refs(ns) == {Nothing, NilLeaf, NilComposite} \cup DOMAIN ns

Tip(kind) == [kind |-> kind, val |-> "", kids |-> << >>]
Hole(r) == Tip(CASE r = Nothing -> "nothing"
                 [] r = NilLeaf -> "nil leaf"
                 [] r = NilComposite -> "nil composite")

ChildrenIn(ns, as, r) == IF ns[r].kids = 0 THEN << >> ELSE as[ns[r].kids]

TreeIn(ns, as, r) ==
  LET tree[p \in (0 .. MaxDepth) \X Refs(ns)] ==
        LET n == p[1]
            s == p[2]
        IN  IF s <= 0 THEN Hole(s)
            ELSE IF n = 0 THEN Tip("too deep")
            ELSE [kind |-> ns[s].kind, val |-> ns[s].val,
                  kids |-> [i \in DOMAIN ChildrenIn(ns, as, s) |->
                              tree[<<n - 1, ChildrenIn(ns, as, s)[i]>>]]]
  IN  tree[<<MaxDepth, r>>]
Tree(r) == TreeIn(nodes, arrays, r)

Values == {t.val : t \in Trees}

IsHeap(ns, as) ==
  /\ ns \in Seq([kind : Kinds, val : Values, kids : 0 .. Len(as)])
  /\ as \in Seq(Seq(Refs(ns)))
  /\ \A r \in DOMAIN ns : ns[r].kids = 0 <=> ns[r].kind \in Leaves

(* None of the trees is deeper than MaxDepth.                              *)
ASSUME MemoryAssumption ==
  /\ MaxDepth \in Nat
  /\ \A t \in Trees :
       /\ IsHeap(Memory[t].nodes, Memory[t].arrays)
       /\ Memory[t].root \in Refs(Memory[t].nodes)
       /\ TreeIn(Memory[t].nodes, Memory[t].arrays, Memory[t].root) = t

(***************************************************************************)
(* Mistakes that this code does not make.                                  *)
(***************************************************************************)
FieldsAreShared(r) ==  \* CloneIsDeep
  IF nodes[r].kind \in {"import", "if"} THEN [arrays |-> arrays, kids |-> nodes[r].kids]
  ELSE [arrays |-> Append(arrays, [i \in DOMAIN arrays[nodes[r].kids] |-> Nothing]),
        kids |-> Len(arrays) + 1]

ImportIsEmptied(r) ==  \* OriginalStands
  IF nodes[r].kind = "import"
  THEN [arrays |-> [arrays EXCEPT ![nodes[r].kids] = [i \in DOMAIN @ |-> Nothing]],
        kids |-> nodes[r].kids]
  ELSE [arrays |-> Append(arrays, arrays[nodes[r].kids]), kids |-> Len(arrays) + 1]

PrefixMatches(as, bs) == Len(as) <= Len(bs)  \* EqualIsSame

(***************************************************************************)
(* Clone.                                                                  *)
(***************************************************************************)
Return(r) == mode' = "return" /\ ref' = r

CloneHole ==
  /\ mode = "call" /\ ref \in {Nothing, NilLeaf}
  /\ Return(ref)
  /\ UNCHANGED <<nodes, arrays, root, original, stack>>

(* The Clone of a composite's nil pointer is a nil interface, which cannot *)
(* be asserted to be a Node.                                               *)
ClonePanics ==
  /\ mode = "call" /\ ref = NilComposite
  /\ mode' = "panic"
  /\ UNCHANGED <<nodes, arrays, root, original, stack, ref>>

(* shallow.                                                                *)
CloneLeaf ==
  /\ mode = "call" /\ ref > 0 /\ nodes[ref].kind \in Leaves
  /\ nodes' = Append(nodes, nodes[ref])
  /\ Return(Len(nodes) + 1)
  /\ UNCHANGED <<arrays, root, original, stack>>

(* Where the clone of a composite has its children: an import-go keeps its *)
(* slice, a copied struct has the same fields to begin with, and cloneSlice*)
(* makes an array that is empty.                                           *)
SameSlice(kids) == [arrays |-> arrays, kids |-> kids]
CopiedFields(kids) == [arrays |-> Append(arrays, arrays[kids]), kids |-> Len(arrays) + 1]
cloneSlice(kids) ==
  [arrays |-> Append(arrays, [i \in DOMAIN arrays[kids] |-> Nothing]), kids |-> Len(arrays) + 1]

Children(r) ==
  LET kids == nodes[r].kids IN
  CASE nodes[r].kind = "import" -> SameSlice(kids)
    [] nodes[r].kind \in Fielded -> CopiedFields(kids)
    [] nodes[r].kind \in Slices \ {"import"} -> cloneSlice(kids)

CloneComposite ==
  /\ mode = "call" /\ ref > 0 /\ nodes[ref].kind \notin Leaves
  /\ arrays' = Children(ref).arrays
  /\ nodes' = Append(nodes, [nodes[ref] EXCEPT !.kids = Children(ref).kids])
  /\ stack' = Append(stack, [from |-> ref, to |-> Len(nodes) + 1, at |-> 1])
  /\ mode' = "loop"
  /\ UNCHANGED <<root, original, ref>>

Top == stack[Len(stack)]
Kids(r) == arrays[nodes[r].kids]

CloneChild ==
  /\ mode = "loop" /\ Top.at \in DOMAIN Kids(Top.from)
  /\ mode' = "call" /\ ref' = Kids(Top.from)[Top.at]
  /\ UNCHANGED <<nodes, arrays, root, original, stack>>

StoreChild ==
  /\ mode = "return" /\ stack # << >>
  /\ arrays' = [arrays EXCEPT ![nodes[Top.to].kids][Top.at] = ref]
  /\ stack' = [stack EXCEPT ![Len(stack)].at = @ + 1]
  /\ mode' = "loop"
  /\ UNCHANGED <<nodes, root, original, ref>>

EndOfChildren ==
  /\ mode = "loop" /\ Top.at \notin DOMAIN Kids(Top.from)
  /\ Return(Top.to)
  /\ stack' = Front(stack)
  /\ UNCHANGED <<nodes, arrays, root, original>>

EndOfClone ==
  /\ mode = "return" /\ stack = << >>
  /\ mode' = "done"
  /\ UNCHANGED <<nodes, arrays, root, original, stack, ref>>

(***************************************************************************)
(* Equal, of two trees all of whose nodes are there; an `if' may lack its  *)
(* else.  equalSlices wants slices of one length.  equal is Equal, of the  *)
(* children.                                                               *)
(***************************************************************************)
SameLength(as, bs) == Len(as) = Len(bs)

LeafEqual(a, b) == a.kind = b.kind /\ a.val = b.val

(* Keyword.Equal looks for nil in its argument only.                       *)
KeywordEqual(a, b) == b.kind = "nothing" \/ LeafEqual(a, b)

(* The else is compared if the receiver has one.                           *)
IfEqual(a, b, equal) ==
  /\ b.kind = "if"
  /\ \A i \in 1 .. 3 : a.kids[i].kind # "nothing" => equal[<<a.kids[i], b.kids[i]>>]

equalSlices(as, bs, equal) == SameLength(as, bs) /\ \A i \in DOMAIN as : equal[<<as[i], bs[i]>>]

equalNode(a, b, equal) ==
  CASE a.kind = "keyword" -> KeywordEqual(a, b)
    [] a.kind = "if" -> IfEqual(a, b, equal)
    [] a.kind \in Leaves \ {"keyword"} -> LeafEqual(a, b)
    [] OTHER -> LeafEqual(a, b) /\ equalSlices(a.kids, b.kids, equal)

Equal(a, b) ==
  LET equal[p \in Trees \X Trees] == equalNode(p[1], p[2], equal) IN equal[<<a, b>>]

(***************************************************************************)
(* The specification.                                                      *)
(***************************************************************************)
Init ==
  /\ original \in Trees
  /\ nodes = Memory[original].nodes /\ arrays = Memory[original].arrays
  /\ root = Memory[original].root
  /\ stack = << >> /\ mode = "call" /\ ref = root

Next ==
  \/ CloneHole \/ ClonePanics \/ CloneLeaf \/ CloneComposite
  \/ CloneChild \/ StoreChild \/ EndOfChildren \/ EndOfClone

Spec == Init /\ [][Next]_vars

(***************************************************************************)
(* Properties.                                                             *)
(***************************************************************************)
(* While it is cloned and after, also when Clone panics half way, a tree   *)
(* is what it was -- although the clone of an import-go is written into    *)
(* the array of the original.                                              *)
OriginalStands == Tree(root) = original

(* What can be reached from a node, through nodes of these kinds: in as    *)
(* many steps as there are nodes, or in no number of steps.                *)
Reach(r, kinds) ==
  LET layer[n \in 0 .. Len(nodes)] ==
        IF n = 0 THEN {r}
        ELSE UNION {ToSet(ChildrenIn(nodes, arrays, m)) :
                      m \in {k \in layer[n - 1] : k > 0 /\ nodes[k].kind \in kinds}}
  IN  (UNION {layer[n] : n \in 0 .. Len(nodes)}) \cap DOMAIN nodes

(* The clone is the same tree.  It shares neither a node nor an array with *)
(* the original -- but below an import-go, whose items are the same array. *)
Own == Reach(ref, Kinds \ {"import"})
Whole == Reach(root, Kinds)
ArraysOf(S) == {nodes[r].kids : r \in S} \ {0}

CloneIsDeep ==
  mode = "done" =>
    /\ Tree(ref) = original
    /\ Own \cap Whole = {}
    /\ ArraysOf({r \in Own : nodes[r].kind # "import"}) \cap ArraysOf(Whole) = {}

completeNode(t, complete) == t.kind \notin Holes /\ \A i \in DOMAIN t.kids : complete[t.kids[i]]
Complete(t) == LET complete[u \in Trees] == completeNode(u, complete) IN complete[t]

(* Equal tells trees apart, whatever their shapes, if they have no holes.  *)
(* A hole is also the missing else of an `if': Equal ignores that of the  *)
(* other when its own is missing, and a keyword equals a missing one.      *)
EqualIsSame ==
  stack = << >> /\ mode = "call" /\ Complete(original) =>
    \A other \in Trees : Complete(other) => (Equal(original, other) <=> original = other)
=============================================================================
