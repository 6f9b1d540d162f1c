--------------------------- MODULE HashMapProofs ---------------------------
(***************************************************************************)
(* Proofs about HashMap and PersistentList, for every finite set of keys,  *)
(* all values and heaps of any size.                                       *)
(***************************************************************************)
EXTENDS HashMap, TLAPS, SequenceTheorems, FiniteSetTheorems

(***************************************************************************)
(* The walk.  While a key is kept, it is shown or ahead; only the key in   *)
(* the body of the loop can be both.                                       *)
(***************************************************************************)
MapTyping ==
  /\ map = NilMap \/ (InMap \subseteq Key /\ map \in [InMap -> Val])
  /\ zero \in Val \cup {Nil}
  /\ rest \in Seq(Key)
  /\ looked \in BOOLEAN

Distinct == \A i, j \in DOMAIN rest : rest[i] = rest[j] => i = j

WalkInv ==
  /\ kept \subseteq InMap
  /\ \A k \in kept : k \in shown \/ \E i \in DOMAIN rest : rest[i] = k
  /\ \A i \in DOMAIN rest : rest[i] \in kept \cap shown => looked /\ i = 1
  /\ looked => rest # << >> /\ Head(rest) \in shown
  /\ kept \cap again = {}

MapInv == MapTyping /\ Distinct /\ WalkInv

LEMMA OrdersList ==
  ASSUME NEW S \in SUBSET Key, NEW s \in Orders(S)
  PROVE  /\ s \in Seq(S) /\ s \in Seq(Key)
         /\ \A i, j \in DOMAIN s : s[i] = s[j] => i = j
         /\ \A x \in S : \E i \in DOMAIN s : s[i] = x
<1>1. IsFiniteSet(S)
  BY KeyAssumption, FS_Subset
<1>2. Cardinality(S) \in Nat
  BY <1>1, FS_CardinalityType
<1>3. s \in [1 .. Cardinality(S) -> S]
  BY DEF Orders
<1>4. s \in Seq(S) /\ s \in Seq(Key)
  BY <1>2, <1>3, SeqDef
<1>5. \A x \in S : \E i \in DOMAIN s : \A j \in DOMAIN s : s[j] = x <=> j = i
  BY Zenon DEF Orders
<1>6. \A x \in S : \E i \in DOMAIN s : s[i] = x
  BY <1>5
<1>7. ASSUME NEW i \in DOMAIN s, NEW j \in DOMAIN s, s[i] = s[j] PROVE i = j
  <2>1. s[i] \in S
    BY <1>3
  <2>2. PICK h \in DOMAIN s : \A m \in DOMAIN s : s[m] = s[i] <=> m = h
    BY <1>5, <2>1
  <2> QED BY <2>2, <1>7
<1> QED BY <1>4, <1>6, <1>7

LEMMA MapInit == Init => MapInv
<1> SUFFICES ASSUME Init PROVE MapInv
  OBVIOUS
<1>1. InMap = {} /\ (map = NilMap \/ map \in [{} -> Val])
  <2>1. CASE map = NilMap
    BY <2>1 DEF InMap
  <2>2. CASE map = [x \in {} |-> Nil]
    <3>1. map \in [{} -> Val] /\ DOMAIN map = {}
      BY <2>2
    <3> QED BY <3>1 DEF InMap
  <2> QED BY <2>1, <2>2 DEF Init
<1>2. rest \in Seq(Key) /\ DOMAIN rest = {}
  BY DEF Init
<1> QED BY <1>1, <1>2 DEF Init, MapInv, MapTyping, Distinct, WalkInv

LEMMA PutStep ==
  ASSUME MapInv, NEW k \in Key, NEW v \in Val, Put(k, v)
  PROVE  MapInv'
<1> DEFINE D == InMap \cup {k}
<1>1. D \in SUBSET Key /\ map' \in [D -> Val] /\ map' # NilMap
  <2>1. D \in SUBSET Key /\ map' \in [D -> Val]
    BY DEF MapInv, MapTyping, Put
  <2> QED BY <2>1, NilAssumption
<1>2. InMap' = D
  BY <1>1 DEF InMap
<1>3. MapTyping'
  BY <1>1, <1>2 DEF MapInv, MapTyping, Put, seqVars
<1>4. Distinct' /\ WalkInv'
  BY <1>2 DEF MapInv, Distinct, WalkInv, Put, seqVars
<1> QED BY <1>3, <1>4 DEF MapInv

LEMMA WithoutStep ==
  ASSUME MapInv, NEW S, Without(S)
  PROVE  MapInv'
<1> DEFINE D == InMap \ S
<1>1. D \in SUBSET Key /\ map' \in [D -> Val] /\ map' # NilMap
  <2>1. D \in SUBSET Key /\ map' \in [D -> Val]
    BY DEF MapInv, MapTyping, Without
  <2> QED BY <2>1, NilAssumption
<1>2. InMap' = D
  BY <1>1 DEF InMap
<1>3. MapTyping'
  BY <1>1, <1>2 DEF MapInv, MapTyping, Without
<1>4. Distinct' /\ WalkInv'
  BY <1>2 DEF MapInv, Distinct, WalkInv, Without
<1> QED BY <1>3, <1>4 DEF MapInv

LEMMA MapSeqStep ==
  ASSUME MapInv, MapSeq
  PROVE  MapInv'
<1>1. InMap \in SUBSET Key /\ InMap' = InMap
  BY DEF MapInv, MapTyping, MapSeq, InMap
<1>2. /\ rest' \in Seq(Key)
      /\ \A i, j \in DOMAIN rest' : rest'[i] = rest'[j] => i = j
      /\ \A x \in InMap : \E i \in DOMAIN rest' : rest'[i] = x
  BY <1>1, OrdersList DEF MapSeq
<1>3. MapTyping' /\ Distinct'
  BY <1>1, <1>2 DEF MapInv, MapTyping, Distinct, MapSeq
<1>4. WalkInv'
  BY <1>1, <1>2 DEF WalkInv, MapSeq
<1> QED BY <1>3, <1>4 DEF MapInv

LEMMA SeqFirstStep ==
  ASSUME MapInv, SeqFirst
  PROVE  MapInv'
<1>1. InMap' = InMap
  BY DEF SeqFirst, InMap
<1>2. rest \in Seq(Key) /\ rest # << >> /\ Head(rest) = rest[1] /\ 1 \in DOMAIN rest
  BY DEF MapInv, MapTyping, SeqFirst, SeqEmpty
<1>3. MapTyping' /\ Distinct'
  BY <1>1 DEF MapInv, MapTyping, Distinct, SeqFirst
<1>4. ~(Head(rest) \in kept /\ Head(rest) \in shown)
  BY <1>2 DEF MapInv, WalkInv, SeqFirst
<1>5. ASSUME NEW i \in DOMAIN rest, rest[i] \in kept \cap shown' PROVE i = 1
  BY <1>2, <1>5 DEF MapInv, WalkInv, Distinct, SeqFirst
<1>6. WalkInv'
  BY <1>1, <1>2, <1>4, <1>5 DEF MapInv, WalkInv, SeqFirst
<1> QED BY <1>3, <1>6 DEF MapInv

LEMMA SeqNextStep ==
  ASSUME MapInv, SeqNext
  PROVE  MapInv'
<1>1. InMap' = InMap
  BY DEF SeqNext, InMap
<1>2. rest \in Seq(Key) /\ rest # << >> /\ Head(rest) = rest[1] /\ 1 \in DOMAIN rest
  BY DEF MapInv, MapTyping, WalkInv, SeqNext
<1>3. CASE SeqEmpty
  <2>1. InMap = {} /\ kept = {}
    BY <1>2, <1>3 DEF SeqEmpty, MapInv, WalkInv
  <2> QED BY <1>1, <1>3, <2>1 DEF MapInv, MapTyping, Distinct, WalkInv, SeqNext
<1>4. CASE ~SeqEmpty
  <2>1. rest' = Tail(rest)
    BY <1>4 DEF SeqNext
  <2>2. /\ rest' \in Seq(Key)
        /\ \A i \in DOMAIN rest' : i + 1 \in DOMAIN rest /\ rest'[i] = rest[i + 1] /\ i + 1 # 1
        /\ \A i \in DOMAIN rest : i = 1 \/ (i - 1 \in DOMAIN rest' /\ rest'[i - 1] = rest[i])
    BY <1>2, <2>1
  <2>3. MapTyping'
    BY <1>1, <2>2 DEF MapInv, MapTyping, SeqNext
  <2>4. Distinct'
    <3> SUFFICES ASSUME NEW i \in DOMAIN rest', NEW j \in DOMAIN rest', rest'[i] = rest'[j]
                 PROVE  i = j
      BY DEF Distinct
    <3>1. i + 1 = j + 1
      BY <2>2 DEF MapInv, Distinct
    <3>2. i \in Nat /\ j \in Nat
      BY <2>2
    <3> QED BY <3>1, <3>2
  <2>5. \A k \in kept : k \in shown \/ \E i \in DOMAIN rest' : rest'[i] = k
    <3> SUFFICES ASSUME NEW k \in kept, k \notin shown PROVE \E i \in DOMAIN rest' : rest'[i] = k
      OBVIOUS
    <3>1. PICK i \in DOMAIN rest : rest[i] = k
      BY DEF MapInv, WalkInv
    <3>2. i # 1
      BY <1>2, <3>1 DEF MapInv, WalkInv, SeqNext
    <3> QED BY <2>2, <3>1, <3>2
  <2>6. \A i \in DOMAIN rest' : rest'[i] \notin kept \cap shown
    BY <2>2 DEF MapInv, WalkInv
  <2>7. WalkInv'
    BY <1>1, <2>5, <2>6 DEF MapInv, WalkInv, SeqNext
  <2> QED BY <2>3, <2>4, <2>7 DEF MapInv
<1> QED BY <1>3, <1>4

LEMMA MapInvStep == MapInv /\ [Next]_vars => MapInv'
<1> SUFFICES ASSUME MapInv, [Next]_vars PROVE MapInv'
  OBVIOUS
<1>1. ASSUME UNCHANGED <<map, zero, seqVars>> PROVE MapInv'
  BY <1>1 DEF MapInv, MapTyping, Distinct, WalkInv, InMap, seqVars
<1>2. ASSUME NEW k \in Key, NEW v \in Val, Put(k, v) PROVE MapInv'
  BY <1>2, PutStep
<1>3. ASSUME NEW k \in Key, Remove(k) PROVE MapInv'
  BY <1>3, WithoutStep DEF Remove
<1>4. CASE Clear
  BY <1>4, WithoutStep DEF Clear
<1>5. CASE KeyList
  BY <1>5, <1>1 DEF KeyList
<1>6. CASE ValueList
  BY <1>6, <1>1 DEF ValueList
<1>7. CASE UNCHANGED vars
  BY <1>7, <1>1 DEF vars
<1> QED BY <1>1, <1>2, <1>3, <1>4, <1>5, <1>6, <1>7, MapSeqStep, SeqFirstStep, SeqNextStep
        DEF Next, MapStep

(* Whatever is done to a map during a loop over its sequence, the keys     *)
(* that stay in it are shown, once each.                                   *)
THEOREM WalksOnce == Spec => []SurvivorsOnce
<1>1. MapInv => SurvivorsOnce
  BY DEF MapInv, WalkInv, SurvivorsOnce, SeqEmpty
<1> QED BY <1>1, MapInit, MapInvStep, PTL DEF Spec

(***************************************************************************)
(* Membership.                                                             *)
(***************************************************************************)
LEMMA PairLengths ==
  ASSUME NEW pair \in Pairs
  PROVE  /\ pair \in Seq(Key \cup Val \cup {Nil}) /\ Len(pair) \in 0 .. 3
         /\ pair # << >> => Len(pair) > 0
<1>1. PICK n \in 0 .. 3 : pair \in [1 .. n -> Key \cup Val \cup {Nil}]
  BY DEF Pairs
<1>2. pair \in Seq(Key \cup Val \cup {Nil}) /\ Len(pair) = n
  BY <1>1
<1> QED BY <1>1, <1>2

(* The only entry that can decide is the one of the pair's key.            *)
LEMMA LoopAnswer ==
  ASSUME MapTyping, Distinct, ~SeqEmpty, NEW pair \in Pairs, pair # << >>
  PROVE  seqContains(pair) =
           IF \E i \in DOMAIN rest : rest[i] = pair[1] THEN EqPair(pair[1], pair) ELSE "no"
<1> DEFINE Decides == {i \in DOMAIN rest : pair # << >> /\ EqPair(rest[i], pair) # "no"}
<1>1. Decides = {i \in DOMAIN rest : rest[i] = pair[1] /\ EqPair(pair[1], pair) # "no"}
  BY DEF EqPair
<1>2. CASE Decides = {}
  <2>1. seqContains(pair) = "no"
    BY <1>2 DEF seqContains
  <2> HIDE DEF Decides
  <2> QED BY <1>1, <1>2, <2>1
<1>3. CASE Decides # {}
  <2>1. \A i, j \in Decides : i = j
    BY <1>1 DEF Distinct
  <2>2. DOMAIN rest \subseteq Nat
    BY DEF MapTyping
  <2>3. PICK i \in Decides : \A j \in Decides : i <= j
    BY <1>3, <2>1, <2>2
  <2>4. (CHOOSE m \in Decides : \A j \in Decides : m <= j) \in Decides
    BY <2>3
  <2>5. \A m \in Decides : rest[m] = pair[1]
    BY <1>1
  <2>6. seqContains(pair) = EqPair(pair[1], pair)
    BY <1>3, <2>4, <2>5 DEF seqContains
  <2> HIDE DEF Decides
  <2> QED BY <1>1, <1>3, <2>5, <2>6
<1> QED BY <1>2, <1>3

LEMMA Agree == MapTyping /\ Distinct => ContainsAgrees
<1> SUFFICES ASSUME MapTyping, Distinct, NEW pair \in Pairs,
                    Contains(pair) # seqContains(pair)
             PROVE  LET toCome == ~SeqEmpty /\ pair # << >> /\
                                    \E i \in DOMAIN rest : rest[i] = pair[1]
                        value == ValueAt(pair[1])
                        Answers(own, any) == Contains(pair) = own /\ seqContains(pair) = any
                    IN  \/ toCome /\ Len(pair) = 1 /\ Answers("no", "yes")
                        \/ toCome /\ Len(pair) > 1 /\
                             IF pair[2] = Nil THEN value = Nil /\ Answers("no", "panic")
                             ELSE zero # Nil /\ Answers(OwnEq[<<value, pair[2]>>], AnyEq[<<value, pair[2]>>])
  BY DEF ContainsAgrees
<1> DEFINE value == ValueAt(pair[1])
<1>1. /\ pair \in Seq(Key \cup Val \cup {Nil}) /\ Len(pair) \in 0 .. 3
      /\ pair # << >> => Len(pair) > 0
  BY PairLengths
<1>2. ~SeqEmpty /\ pair # << >>
  BY DEF Contains, seqContains
<1>3. PICK i \in DOMAIN rest : rest[i] = pair[1]
  BY <1>2, LoopAnswer DEF Contains
<1>4. pair[1] \in Key /\ value \in Val \cup {zero}
  BY <1>3 DEF MapTyping, ValueAt, InMap
<1>5. seqContains(pair) = EqPair(pair[1], pair)
  BY <1>2, <1>3, LoopAnswer
<1>6. CASE Len(pair) < 2
  <2>1. Len(pair) = 1
    BY <1>1, <1>2, <1>6
  <2>2. Contains(pair) = "no"
    BY <2>1 DEF Contains
  <2>3. seqContains(pair) = "yes"
    BY <1>5, <2>1 DEF EqPair
  <2> QED BY <1>2, <1>3, <2>1, <2>2, <2>3
<1>7. CASE ~(Len(pair) < 2)
  <2>1. Len(pair) > 1 /\ Len(pair) # 1 /\ pair[2] \in Key \cup Val \cup {Nil}
    BY <1>1, <1>7
  <2>2. seqContains(pair) = EqValues(value, pair[2])
    BY <1>5, <2>1 DEF EqPair
  <2>3. Contains(pair) = IF IsVal(pair[2]) THEN EqOwn(value, pair[2]) ELSE "no"
    BY <1>2, <1>3, <1>4, <1>7 DEF Contains
  <2>4. CASE pair[2] = Nil
    <3>1. Contains(pair) = "no"
      BY <2>3, <2>4, NilAssumption DEF IsVal
    <3>2. value = Nil /\ seqContains(pair) = "panic"
      BY <2>2, <2>4, <3>1, NilAssumption DEF EqValues
    <3> QED BY <1>2, <1>3, <2>1, <2>4, <3>1, <3>2
  <2>5. CASE pair[2] # Nil
    <3>1. zero # Nil
      BY <2>2, <2>3, <2>5 DEF IsVal, EqOwn
    <3>2. value \in Val
      BY <1>4, <3>1 DEF MapTyping
    <3>3. pair[2] \in Val
      BY <2>2, <2>3, <3>1, <3>2, NilAssumption DEF IsVal, EqValues
    <3>4. Contains(pair) = OwnEq[<<value, pair[2]>>]
      BY <2>3, <3>1, <3>3 DEF IsVal, EqOwn
    <3>5. seqContains(pair) = AnyEq[<<value, pair[2]>>]
      BY <2>2, <3>2, <3>3, NilAssumption DEF EqValues
    <3> QED BY <1>2, <1>3, <2>1, <2>5, <3>1, <3>4, <3>5
  <2> QED BY <2>4, <2>5
<1> QED BY <1>6, <1>7

(* The method and the loop over the sequence answer the same, but for the  *)
(* three ways in which ContainsAgrees says they differ -- for any two      *)
(* equalities of the values.                                               *)
THEOREM MembershipAgrees == Spec => []ContainsAgrees
<1>1. MapInv => ContainsAgrees
  BY Agree DEF MapInv
<1> QED BY <1>1, MapInit, MapInvStep, PTL DEF Spec

(***************************************************************************)
(* Lists.                                                                  *)
(***************************************************************************)
ListTyping ==
  /\ cells \in Seq([value : Elem, next : Nat])
  /\ heads \in Seq(Nat) /\ made \in Seq(Seq(Elem)) /\ path \in Seq(Seq(Nat))
  /\ Len(made) = Len(heads) /\ Len(path) = Len(heads)

(* A list whose head, values and cells these are is in the heap.           *)
Holds(heap, head, values, nodes) ==
  /\ Len(nodes) = Len(values)
  /\ head = Follower(nodes, 0)
  /\ \A i \in DOMAIN nodes :
       /\ nodes[i] \in DOMAIN heap
       /\ heap[nodes[i]] = [value |-> values[i], next |-> Follower(nodes, i)]

ListInv == ListTyping /\ \A l \in DOMAIN heads : Holds(cells, heads[l], made[l], path[l])

(* The cells that listAlloc appends to the heap.                           *)
Extra(values, after) ==
  [i \in DOMAIN values |-> [value |-> values[i],
                            next |-> IF i = Len(values) THEN after ELSE Len(cells) + i + 1]]

(* A longer heap holds what the shorter one held.                          *)
LEMMA HeapGrows ==
  ASSUME NEW C, NEW heap \in Seq(C), NEW more \in Seq(C), NEW head,
         NEW values \in Seq(Elem), NEW nodes \in Seq(Nat), Holds(heap, head, values, nodes)
  PROVE  Holds(heap \o more, head, values, nodes)
<1>1. \A a \in DOMAIN heap : a \in DOMAIN (heap \o more) /\ (heap \o more)[a] = heap[a]
  OBVIOUS
<1> QED BY <1>1 DEF Holds

(* One more list over a heap that is at most longer.                       *)
LEMMA OneMoreList ==
  ASSUME ListInv, NEW more \in Seq([value : Elem, next : Nat]), cells' = cells \o more,
         NEW head \in Nat, NEW values \in Seq(Elem), NEW nodes \in Seq(Nat),
         Handle(head, values, nodes), Holds(cells', head, values, nodes)
  PROVE  ListInv'
<1> USE DEF ListInv, ListTyping
<1>1. cells' \in Seq([value : Elem, next : Nat])
  OBVIOUS
<1>2. ListTyping'
  BY <1>1 DEF Handle
<1>3. ASSUME NEW l \in DOMAIN heads' PROVE Holds(cells', heads'[l], made'[l], path'[l])
  <2>1. CASE l \in DOMAIN heads
    <3>1. heads'[l] = heads[l] /\ made'[l] = made[l] /\ path'[l] = path[l]
      BY <2>1 DEF Handle
    <3>2. made[l] \in Seq(Elem) /\ path[l] \in Seq(Nat)
      BY <2>1
    <3>3. Holds(cells, heads[l], made[l], path[l])
      BY <2>1
    <3> QED BY <3>1, <3>2, <3>3, HeapGrows
  <2>2. CASE l \notin DOMAIN heads
    <3>1. heads'[l] = head /\ made'[l] = values /\ path'[l] = nodes
      BY <2>2 DEF Handle
    <3> QED BY <3>1
  <2> QED BY <2>1, <2>2
<1> QED BY <1>2, <1>3

LEMMA AllocType ==
  ASSUME ListTyping, NEW values \in Seq(Elem), NEW after \in Nat
  PROVE  /\ Extra(values, after) \in Seq([value : Elem, next : Nat])
         /\ listAlloc(values, after) = cells \o Extra(values, after)
         /\ Fresh(Len(values)) \in Seq(Nat) /\ Len(Fresh(Len(values))) = Len(values)
         /\ DOMAIN Extra(values, after) = 1 .. Len(values)
<1>1. \A i \in DOMAIN values : Extra(values, after)[i] \in [value : Elem, next : Nat]
  BY DEF Extra, ListTyping
<1>2. DOMAIN Extra(values, after) = 1 .. Len(values) /\ Len(values) \in Nat
  BY DEF Extra
<1>3. Extra(values, after) \in [1 .. Len(values) -> [value : Elem, next : Nat]]
  BY <1>1, <1>2 DEF Extra
<1>4. Extra(values, after) \in Seq([value : Elem, next : Nat])
  <2> DEFINE Cell == [value : Elem, next : Nat]
             extra == Extra(values, after)
             n == Len(values)
  <2>1. n \in Nat /\ extra \in [1 .. n -> Cell]
    BY <1>2, <1>3
  <2> HIDE DEF Cell, extra, n
  <2>2. extra \in Seq(Cell)
    BY <2>1, SeqDef
  <2> QED BY <2>2 DEF extra, Cell
<1>5. Fresh(Len(values)) \in [1 .. Len(values) -> Nat]
  BY DEF Fresh, ListTyping
<1> QED BY <1>2, <1>4, <1>5, SeqDef DEF listAlloc, Extra

LEMMA NewList ==
  ASSUME ListInv, NEW values \in Seq(Elem), ListNew(values)
  PROVE  ListInv'
<1> DEFINE head == IF values = << >> THEN 0 ELSE Len(cells) + 1
           nodes == Fresh(Len(values))
           more == Extra(values, 0)
<1>1. /\ more \in Seq([value : Elem, next : Nat]) /\ cells' = cells \o more
      /\ nodes \in Seq(Nat) /\ Len(nodes) = Len(values) /\ DOMAIN more = 1 .. Len(values)
  BY AllocType DEF ListInv, ListNew
<1>2. cells \in Seq([value : Elem, next : Nat]) /\ Len(cells) \in Nat
  BY DEF ListInv, ListTyping
<1>3. head \in Nat /\ head = Follower(nodes, 0)
  BY <1>1, <1>2 DEF Follower, Fresh
<1>4. ASSUME NEW i \in DOMAIN nodes
      PROVE  /\ nodes[i] \in DOMAIN cells'
             /\ cells'[nodes[i]] = [value |-> values[i], next |-> Follower(nodes, i)]
  <2>1. i \in 1 .. Len(values) /\ nodes[i] = Len(cells) + i
    BY <1>1 DEF Fresh
  <2>2. nodes[i] \in DOMAIN cells' /\ cells'[nodes[i]] = more[i]
    BY <1>1, <1>2, <2>1
  <2>3. more[i].value = values[i] /\ more[i].next = Follower(nodes, i)
    <3>1. CASE i = Len(values)
      BY <1>1, <2>1, <3>1 DEF Extra, Follower
    <3>2. CASE i # Len(values)
      <4>1. i < Len(nodes) /\ nodes[i + 1] = Len(cells) + (i + 1)
        BY <1>1, <2>1, <3>2 DEF Fresh
      <4>2. more[i].next = Len(cells) + i + 1
        BY <1>1, <2>1, <3>2 DEF Extra
      <4> QED BY <1>2, <2>1, <4>1, <4>2 DEF Follower, Extra
    <3> QED BY <3>1, <3>2
  <2>4. more[i] = [value |-> values[i], next |-> Follower(nodes, i)]
    BY <2>1, <2>3 DEF Extra
  <2> QED BY <2>2, <2>4
<1>5. Holds(cells', head, values, nodes)
  BY <1>1, <1>3, <1>4 DEF Holds
<1>6. Handle(head, values, nodes)
  BY DEF ListNew
<1> HIDE DEF head, nodes, more
<1> QED BY <1>1, <1>3, <1>5, <1>6, OneMoreList

LEMMA ConjList ==
  ASSUME ListInv, NEW l \in DOMAIN heads, NEW values \in Seq(Elem), Conj(l, values)
  PROVE  ListInv'
<1> DEFINE n == Len(values)
           m == Len(path[l])
           head == Len(cells) + 1
           nodes == Fresh(n) \o path[l]
           joined == values \o made[l]
           more == Extra(values, heads[l])
<1>1. /\ cells \in Seq([value : Elem, next : Nat]) /\ Len(cells) \in Nat
      /\ heads[l] \in Nat /\ made[l] \in Seq(Elem) /\ path[l] \in Seq(Nat)
      /\ n \in Nat \ {0} /\ m \in Nat
  BY DEF ListInv, ListTyping, Conj
<1>2. /\ more \in Seq([value : Elem, next : Nat]) /\ cells' = cells \o more
      /\ Fresh(n) \in Seq(Nat) /\ Len(Fresh(n)) = n /\ DOMAIN more = 1 .. n
  BY <1>1, AllocType DEF ListInv, Conj
<1>3. /\ m = Len(made[l]) /\ heads[l] = Follower(path[l], 0)
      /\ \A i \in 1 .. m :
           /\ path[l][i] \in DOMAIN cells
           /\ cells[path[l][i]] = [value |-> made[l][i], next |-> Follower(path[l], i)]
  <2>1. Holds(cells, heads[l], made[l], path[l])
    BY DEF ListInv
  <2>2. DOMAIN path[l] = 1 .. m
    BY <1>1
  <2> QED BY <2>1, <2>2 DEF Holds
<1>4. /\ nodes \in Seq(Nat) /\ Len(nodes) = n + m
      /\ \A i \in 1 .. n : nodes[i] = Len(cells) + i
      /\ \A i \in 1 .. m : nodes[n + i] = path[l][i]
  <2>1. \A i \in 1 .. n : Fresh(n)[i] = Len(cells) + i
    BY DEF Fresh
  <2> DEFINE fresh == Fresh(n)
  <2>2. fresh \in Seq(Nat) /\ Len(fresh) = n
    BY <1>2
  <2> HIDE DEF fresh, n
  <2>3. /\ fresh \o path[l] \in Seq(Nat) /\ Len(fresh \o path[l]) = n + m
        /\ \A i \in 1 .. n : (fresh \o path[l])[i] = fresh[i]
        /\ \A i \in 1 .. m : (fresh \o path[l])[n + i] = path[l][i]
    <3> DEFINE old == path[l]
    <3>1. old \in Seq(Nat) /\ Len(old) = m /\ n \in Nat /\ m \in Nat
      BY <1>1
    <3> HIDE DEF old, m
    <3>2. /\ fresh \o old \in Seq(Nat) /\ Len(fresh \o old) = n + m
          /\ \A i \in 1 .. n + m :
               (fresh \o old)[i] = IF i <= n THEN fresh[i] ELSE old[i - n]
      BY <2>2, <3>1, ConcatProperties
    <3>3. ASSUME NEW i \in 1 .. m PROVE (fresh \o old)[n + i] = old[i]
      <4>1. n + i \in 1 .. n + m /\ ~(n + i <= n) /\ (n + i) - n = i
        BY <1>1, <3>1
      <4> QED BY <3>2, <4>1
    <3>4. ASSUME NEW i \in 1 .. n PROVE (fresh \o old)[i] = fresh[i]
      BY <1>1, <3>1, <3>2
    <3> QED BY <3>2, <3>3, <3>4 DEF old
  <2> QED BY <2>1, <2>3 DEF fresh
<1>5. /\ joined \in Seq(Elem) /\ Len(joined) = n + m
      /\ \A i \in 1 .. n : joined[i] = values[i]
      /\ \A i \in 1 .. m : joined[n + i] = made[l][i]
  BY <1>1, <1>3, ConcatProperties
<1>6. \A i \in 1 .. n :
        more[i] = [value |-> values[i], next |-> IF i = n THEN heads[l] ELSE Len(cells) + i + 1]
  BY DEF Extra
<1>7. /\ \A i \in 1 .. n : Len(cells) + i \in DOMAIN cells' /\ cells'[Len(cells) + i] = more[i]
      /\ \A a \in DOMAIN cells : a \in DOMAIN cells' /\ cells'[a] = cells[a]
  BY <1>1, <1>2
<1>8. Handle(head, joined, nodes)
  BY DEF Conj
<1> HIDE DEF n, m, nodes, joined, more
<1>9. head \in Nat /\ head = Follower(nodes, 0)
  BY <1>1, <1>4 DEF Follower
<1>10. ASSUME NEW i \in 1 .. n
       PROVE  /\ nodes[i] \in DOMAIN cells'
              /\ cells'[nodes[i]] = [value |-> joined[i], next |-> Follower(nodes, i)]
  <2>1. CASE i = n
    <3>1. Follower(nodes, n) = heads[l]
      <4>1. CASE m = 0
        BY <1>1, <1>3, <1>4, <4>1 DEF Follower, m
      <4>2. CASE m > 0
        <5>1. nodes[n + 1] = path[l][1] /\ n < Len(nodes)
          BY <1>1, <1>4, <4>2
        <5>2. heads[l] = path[l][1]
          BY <1>1, <1>3, <4>2 DEF Follower, m
        <5> QED BY <5>1, <5>2 DEF Follower
      <4> QED BY <1>1, <4>1, <4>2
    <3>2. more[n] = [value |-> values[n], next |-> heads[l]] /\ n \in 1 .. n
      BY <1>1, <1>6
    <3>3. nodes[n] = Len(cells) + n /\ joined[n] = values[n]
      BY <1>4, <1>5, <3>2
    <3>4. Len(cells) + n \in DOMAIN cells' /\ cells'[Len(cells) + n] = more[n]
      BY <1>7, <3>2
    <3> QED BY <2>1, <3>1, <3>2, <3>3, <3>4
  <2>2. CASE i # n
    <3>1. i < Len(nodes) /\ i + 1 \in 1 .. n
      BY <1>1, <1>4, <2>2
    <3>2. Follower(nodes, i) = Len(cells) + i + 1
      BY <1>1, <1>4, <3>1 DEF Follower
    <3> QED BY <1>4, <1>5, <1>6, <1>7, <2>2, <3>2
  <2> QED BY <2>1, <2>2
<1>11. ASSUME NEW j \in 1 .. m
       PROVE  /\ nodes[n + j] \in DOMAIN cells'
              /\ cells'[nodes[n + j]] = [value |-> joined[n + j], next |-> Follower(nodes, n + j)]
  <2>1. Follower(nodes, n + j) = Follower(path[l], j)
    <3>1. CASE j = m
      BY <1>1, <1>4, <3>1 DEF Follower, m
    <3>2. CASE j # m
      <4>1. j + 1 \in 1 .. m /\ n + j < Len(nodes) /\ (n + j) + 1 = n + (j + 1)
        BY <1>1, <1>4, <3>2
      <4>2. nodes[(n + j) + 1] = path[l][j + 1]
        BY <1>4, <4>1
      <4>3. j < Len(path[l])
        BY <1>1, <3>2 DEF m
      <4> QED BY <4>1, <4>2, <4>3 DEF Follower
    <3> QED BY <3>1, <3>2
  <2> QED BY <1>3, <1>4, <1>5, <1>7, <2>1
<1>12. ASSUME NEW i \in DOMAIN nodes
       PROVE  /\ nodes[i] \in DOMAIN cells'
              /\ cells'[nodes[i]] = [value |-> joined[i], next |-> Follower(nodes, i)]
  <2>1. i \in 1 .. n \/ (i - n \in 1 .. m /\ n + (i - n) = i)
    BY <1>1, <1>4
  <2> QED BY <1>10, <1>11, <2>1
<1>13. Holds(cells', head, joined, nodes)
  BY <1>4, <1>5, <1>9, <1>12 DEF Holds
<1> HIDE DEF head
<1> QED BY <1>2, <1>4, <1>5, <1>8, <1>9, <1>13, OneMoreList

LEMMA NextList ==
  ASSUME ListInv, NEW l \in DOMAIN heads, ListNext(l)
  PROVE  ListInv'
<1> DEFINE head == cells[heads[l]].next
           values == Tail(made[l])
           nodes == Tail(path[l])
<1>1. /\ cells \in Seq([value : Elem, next : Nat])
      /\ heads[l] \in Nat /\ made[l] \in Seq(Elem) /\ path[l] \in Seq(Nat)
  BY DEF ListInv, ListTyping
<1>2. /\ Len(path[l]) = Len(made[l]) /\ heads[l] = Follower(path[l], 0)
      /\ \A i \in DOMAIN path[l] :
           /\ path[l][i] \in DOMAIN cells
           /\ cells[path[l][i]] = [value |-> made[l][i], next |-> Follower(path[l], i)]
  BY DEF ListInv, Holds
<1>3. path[l] # << >> /\ made[l] # << >> /\ heads[l] = path[l][1] /\ 1 \in DOMAIN path[l]
  BY <1>1, <1>2 DEF ListNext, Follower
<1>4. /\ values \in Seq(Elem) /\ nodes \in Seq(Nat) /\ Len(nodes) = Len(values)
      /\ \A i \in DOMAIN nodes :
           /\ i + 1 \in DOMAIN path[l] /\ nodes[i] = path[l][i + 1]
           /\ values[i] = made[l][i + 1] /\ Follower(nodes, i) = Follower(path[l], i + 1)
  <2>1. /\ nodes \in Seq(Nat) /\ Len(nodes) = Len(path[l]) - 1
        /\ \A i \in DOMAIN nodes : i + 1 \in DOMAIN path[l] /\ nodes[i] = path[l][i + 1]
    BY <1>1, <1>3
  <2>2. /\ values \in Seq(Elem) /\ Len(values) = Len(made[l]) - 1
        /\ \A i \in DOMAIN values : values[i] = made[l][i + 1]
    BY <1>1, <1>3
  <2>3. DOMAIN nodes = DOMAIN values /\ Len(nodes) = Len(values)
    BY <1>1, <1>2, <2>1, <2>2
  <2>4. ASSUME NEW i \in DOMAIN nodes PROVE Follower(nodes, i) = Follower(path[l], i + 1)
    <3>1. i \in Nat /\ Len(path[l]) \in Nat /\ i \in 1 .. Len(nodes)
      BY <1>1, <2>1
    <3>2. CASE i < Len(nodes)
      BY <1>1, <2>1, <3>1, <3>2 DEF Follower
    <3>3. CASE ~(i < Len(nodes))
      BY <1>1, <2>1, <3>1, <3>3 DEF Follower
    <3> QED BY <3>2, <3>3
  <2> HIDE DEF nodes, values
  <2> QED BY <2>1, <2>2, <2>3, <2>4
<1>5. head = Follower(path[l], 1)
  <2>1. cells[heads[l]] = [value |-> made[l][1], next |-> Follower(path[l], 1)]
    BY <1>2, <1>3
  <2> QED BY <2>1
<1>6. head \in Nat /\ head = Follower(nodes, 0)
  BY <1>1, <1>3, <1>5 DEF Follower
<1>7. cells' = cells \o << >> /\ << >> \in Seq([value : Elem, next : Nat])
  BY <1>1 DEF ListNext
<1>8. Holds(cells', head, values, nodes)
  BY <1>2, <1>4, <1>6 DEF Holds, ListNext
<1>9. Handle(head, values, nodes)
  BY DEF ListNext
<1> HIDE DEF head, values, nodes
<1> QED BY <1>4, <1>6, <1>7, <1>8, <1>9, OneMoreList

LEMMA ListInvInit == Init => ListInv
BY DEF Init, ListInit, ListInv, ListTyping

LEMMA ListInvStep == MapInv /\ ListInv /\ [Next]_vars => ListInv'
<1> SUFFICES ASSUME MapInv, ListInv, [Next]_vars PROVE ListInv'
  OBVIOUS
<1>1. ASSUME UNCHANGED listVars PROVE ListInv'
  BY <1>1 DEF ListInv, ListTyping, Holds, listVars
<1>2. CASE ListStep
  BY <1>2, BatchesAssumption, NewList, ConjList, NextList DEF ListStep
<1>3. ASSUME NEW s \in Orders(InMap)
      PROVE  s \in Seq(Elem) /\ [i \in DOMAIN s |-> map[s[i]]] \in Seq(Elem)
  <2>1. InMap \in SUBSET Key /\ \A k \in InMap : map[k] \in Val
    BY DEF MapInv, MapTyping, InMap
  <2>2. s \in Seq(InMap)
    BY <2>1, OrdersList
  <2>3. s \in Seq(Elem)
    BY <2>1, <2>2, KeyAssumption
  <2>4. [i \in DOMAIN s |-> map[s[i]]] \in [1 .. Len(s) -> Elem]
    BY <2>1, <2>2, KeyAssumption
  <2> QED BY <2>2, <2>3, <2>4, SeqDef
<1>4. CASE KeyList
  BY <1>3, <1>4, NewList DEF KeyList
<1>5. CASE ValueList
  BY <1>3, <1>5, NewList DEF ValueList
<1>6. ASSUME NEW S, Without(S) PROVE ListInv'
  BY <1>1, <1>6 DEF Without
<1>7. ASSUME NEW k \in Key, NEW v \in Val, Put(k, v) PROVE ListInv'
  BY <1>1, <1>7 DEF Put
<1>8. CASE MapSeq \/ SeqFirst \/ SeqNext
  BY <1>1, <1>8 DEF MapSeq, SeqFirst, SeqNext
<1>9. CASE UNCHANGED vars
  BY <1>1, <1>9 DEF vars
<1> QED BY <1>2, <1>4, <1>5, <1>6, <1>7, <1>8, <1>9 DEF Next, MapStep, Remove, Clear

(* Every list, whatever is made of it and of its neighbours, goes on being *)
(* what it was made of.                                                    *)
THEOREM Persistence == Spec => []ListsPersist
<1>1. ListInv => ListsPersist
  BY DEF ListInv, Holds, ListsPersist
<1>2. MapInv /\ ListInv /\ [Next]_vars => (MapInv /\ ListInv)'
  BY MapInvStep, ListInvStep
<1> QED BY <1>1, <1>2, MapInit, ListInvInit, PTL DEF Spec
=============================================================================
