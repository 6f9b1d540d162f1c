--------------------------- MODULE PersistentList ---------------------------
(***************************************************************************)
(* core.List (std/core/list.go): a list is a pointer to a chain of cells.  *)
(* Conj puts cells before those of its receiver and Next goes past the     *)
(* first, so that lists share their tails.                                 *)
(*                                                                         *)
(* The cells are a heap, an address an index into it, and 0 is nil.  Every *)
(* list ever made is kept.                                                 *)
(***************************************************************************)
EXTENDS Naturals, Sequences

CONSTANTS
  Elem,      \* the elements
  Batches,   \* the values a caller may pass to ListNew and Conj
  MaxCells,  \* bounds: the cells that are allocated,
  MaxLists   \* and the lists that are made

ASSUME BatchesAssumption == Batches \subseteq Seq(Elem)

VARIABLES
  cells,  \* the heap of listNodes
  heads,  \* List.head of each list
  made,   \* history: the values each list was made of,
  path    \* and the cells they were put in

listVars == <<cells, heads, made, path>>

(* Fresh cells for the values, in one array, each linked to the one after  *)
(* it; the last one, tail, is linked to `after'.                           *)
Fresh(n) == [i \in 1 .. n |-> Len(cells) + i]
listAlloc(values, after) ==
  cells \o [i \in DOMAIN values |->
              [value |-> values[i],
               next |-> IF i = Len(values) THEN after ELSE Len(cells) + i + 1]]

(* A new List struct.                                                      *)
Handle(head, values, nodes) ==
  /\ Len(heads) < MaxLists
  /\ heads' = Append(heads, head)
  /\ made' = Append(made, values)
  /\ path' = Append(path, nodes)

Fits(values) == Len(cells) + Len(values) <= MaxCells

(***************************************************************************)
(* Mistakes that this code does not make.                                  *)
(***************************************************************************)
ConjInPlace(l, values) ==  \* ListsPersist
  /\ values # << >> /\ Fits(values)
  /\ Handle(Len(cells) + 1, values \o made[l], Fresh(Len(values)) \o path[l])
  /\ cells' = IF heads[l] = 0 THEN listAlloc(values, 0)
              ELSE [listAlloc(values, heads[l]) EXCEPT ![heads[l]].next = Len(cells) + 1]

(***************************************************************************)
(* The operations that make a list.  Conj without values gives its         *)
(* receiver back and Next of an empty list is nil: neither makes one.      *)
(***************************************************************************)
ListNew(values) ==
  /\ Fits(values)
  /\ cells' = listAlloc(values, 0)
  /\ Handle(IF values = << >> THEN 0 ELSE Len(cells) + 1, values, Fresh(Len(values)))

Conj(l, values) ==
  /\ values # << >> /\ Fits(values)
  /\ cells' = listAlloc(values, heads[l])
  /\ Handle(Len(cells) + 1, values \o made[l], Fresh(Len(values)) \o path[l])

ListNext(l) ==
  /\ heads[l] # 0
  /\ Handle(cells[heads[l]].next, Tail(made[l]), Tail(path[l]))
  /\ UNCHANGED cells

(***************************************************************************)
(* The specification.                                                      *)
(***************************************************************************)
ListInit == cells = << >> /\ heads = << >> /\ made = << >> /\ path = << >>

ListStep ==
  \/ \E values \in Batches : ListNew(values)
  \/ \E l \in DOMAIN heads, values \in Batches : Conj(l, values)
  \/ \E l \in DOMAIN heads : ListNext(l)

(***************************************************************************)
(* Properties.                                                             *)
(***************************************************************************)
(* What follows the i-th cell of a chain: the next one, or nil.            *)
Follower(nodes, i) == IF i < Len(nodes) THEN nodes[i + 1] ELSE 0

(* Lists are persistent.  Whatever was made since and shares its cells,    *)
(* from the head of every list one still walks through the values the list *)
(* was made of, in their order, and then comes to nil.                     *)
ListsPersist ==
  \A l \in DOMAIN heads :
    /\ heads[l] = Follower(path[l], 0)
    /\ \A i \in DOMAIN path[l] :
         cells[path[l][i]] = [value |-> made[l][i], next |-> Follower(path[l], i)]
=============================================================================
