------------------------------ MODULE HashMap ------------------------------
(***************************************************************************)
(* core.HashMap and hashmapSeq (std/core/map.go), a Go map and a lazy      *)
(* sequence over it.  Seq takes a snapshot of the keys, but the sequence   *)
(* goes on looking at the live map: for the values it shows, and to tell   *)
(* whether it is empty.                                                    *)
(*                                                                         *)
(* One map is put to, removed from and cleared while one loop walks its    *)
(* sequence the way seqContains (std/core/operations.go) does: Empty,      *)
(* First, the body, Next.  Keys and Values give lists.                     *)
(***************************************************************************)
EXTENDS PersistentList, FiniteSets

CONSTANTS
  Key, Val,
  NilMap,  \* a map variable that was never made
  Nil,     \* the zero value of a map whose values are of an interface type
  OwnEq,   \* what the Eq method of a type says of two of its values, or == if
           \* it has none,
  AnyEq    \* and what == or reflect.DeepEqual does
ASSUME KeyAssumption == IsFiniteSet(Key) /\ Key \cup Val \subseteq Elem
ASSUME NilAssumption == Nil \notin Key \cup Val /\ \A S \in SUBSET Key : NilMap \notin [S -> Val]
ASSUME EqAssumption == {OwnEq, AnyEq} \subseteq [Val \X Val -> {"yes", "no", "panic"}]

VARIABLES
  map,     \* the map, a function from the keys it has
  zero,    \* the zero value of the type of its values
  rest,    \* hashmapSeq.keys of the sequence the loop is at
  looked,  \* whether the loop called First and is in its body
  kept,    \* history: the keys that have been in the map ever since Seq,
  shown,   \* those that First has shown,
  again    \* and those it has shown twice

seqVars == <<rest, looked, kept, shown, again>>
vars == <<listVars, map, zero, seqVars>>

(***************************************************************************)
(* The map.  A nil map reads as an empty one.                              *)
(***************************************************************************)
InMap == IF map = NilMap THEN {} ELSE DOMAIN map
ValueAt(k) == IF k \in InMap THEN map[k] ELSE zero

(* The order in which Go visits the keys of a map is any order.            *)
Orders(S) ==
  {s \in [1 .. Cardinality(S) -> S] :
     \A x \in S : \E i \in DOMAIN s : \A j \in DOMAIN s : s[j] = x <=> j = i}

(* hashmapSeq.Empty.                                                       *)
SeqEmpty == rest = << >> \/ InMap = {}

(* Whether a value can be one of the map's, as the type assertion finds:   *)
(* any but nil can if they are of an interface type.                       *)
IsVal(x) == x \in Val \/ (zero = Nil /\ x # Nil)

(* operations.Eq of two Values, a type to which nothing has an Eq method:  *)
(* it panics when it is given nil first.                                   *)
EqValues(a, b) ==
  IF a = Nil THEN "panic" ELSE IF b \in Val THEN AnyEq[<<a, b>>] ELSE "no"

(* And of two values of the map's own type.                                *)
EqOwn(a, b) == IF zero = Nil THEN EqValues(a, b) ELSE OwnEq[<<a, b>>]

(***************************************************************************)
(* Mistakes that this code does not make.                                  *)
(***************************************************************************)
NextOverRemoved ==  \* SurvivorsOnce
  /\ looked /\ looked' = FALSE
  /\ rest' = IF SeqEmpty THEN rest
             ELSE SubSeq(rest, IF Head(rest) \in InMap THEN 2 ELSE 3, Len(rest))
  /\ UNCHANGED <<listVars, map, zero, kept, shown, again>>

ContainsInMap(pair) ==  \* ContainsAgrees
  IF SeqEmpty \/ Len(pair) < 2 \/ pair[1] \notin Key \/ ~IsVal(pair[2]) THEN "no"
  ELSE EqOwn(ValueAt(pair[1]), pair[2])

(***************************************************************************)
(* The operations.  Put on a nil map panics, and changes nothing.          *)
(***************************************************************************)
Put(k, v) ==
  /\ map # NilMap
  /\ map' = [x \in InMap \cup {k} |-> IF x = k THEN v ELSE map[x]]
  /\ UNCHANGED <<listVars, zero, seqVars>>

Without(S) ==
  /\ map # NilMap
  /\ map' = [x \in InMap \ S |-> map[x]]
  /\ kept' = kept \ S
  /\ UNCHANGED <<listVars, zero, rest, looked, shown, again>>

Remove(k) == Without({k})

Clear == Without(InMap)

KeyList == \E s \in Orders(InMap) : ListNew(s) /\ UNCHANGED <<map, zero, seqVars>>

ValueList ==
  \E s \in Orders(InMap) :
    ListNew([i \in DOMAIN s |-> map[s[i]]]) /\ UNCHANGED <<map, zero, seqVars>>

MapSeq ==
  /\ rest' \in Orders(InMap)
  /\ looked' = FALSE
  /\ kept' = InMap
  /\ shown' = {} /\ again' = {}
  /\ UNCHANGED <<listVars, map, zero>>

(* The loop finds the sequence not empty and takes its First, a new list   *)
(* of the key and the value it has now, which the loop does not keep.      *)
SeqFirst ==
  /\ ~looked /\ ~SeqEmpty
  /\ looked' = TRUE
  /\ shown' = shown \cup {Head(rest)}
  /\ again' = again \cup ({Head(rest)} \cap shown)
  /\ UNCHANGED <<listVars, map, zero, rest, kept>>

(* Next of a sequence that is empty by now is the sequence itself.         *)
SeqNext ==
  /\ looked /\ looked' = FALSE
  /\ rest' = IF SeqEmpty THEN rest ELSE Tail(rest)
  /\ UNCHANGED <<listVars, map, zero, kept, shown, again>>

(***************************************************************************)
(* Two ways to look for a pair.  operations.Contains prefers the method of *)
(* the collection, Contains, to going through its sequence.                *)
(***************************************************************************)
Contains(pair) ==
  IF SeqEmpty \/ Len(pair) < 2 \/ pair[1] \notin Key \/ ~IsVal(pair[2]) THEN "no"
  ELSE IF \E i \in DOMAIN rest : rest[i] = pair[1] THEN EqOwn(ValueAt(pair[1]), pair[2])
  ELSE "no"

(* Eq of two lists of Values, an entry and the pair, compares as far as    *)
(* the shorter one goes.                                                   *)
EqPair(k, pair) ==
  IF k # pair[1] THEN "no" ELSE IF Len(pair) = 1 THEN "yes"
  ELSE EqValues(ValueAt(k), pair[2])

(* The loop over the sequence: the first entry of which Eq does not say    *)
(* "no" decides.                                                           *)
seqContains(pair) ==
  LET Decides == {i \in DOMAIN rest : pair # << >> /\ EqPair(rest[i], pair) # "no"}
  IN  IF SeqEmpty \/ Decides = {} THEN "no"
      ELSE EqPair(rest[CHOOSE i \in Decides : \A j \in Decides : i <= j], pair)

(***************************************************************************)
(* The specification.                                                      *)
(***************************************************************************)
Init ==
  /\ ListInit
  /\ map \in {NilMap, [x \in {} |-> Nil]}
  /\ zero \in Val \cup {Nil}
  /\ rest = << >> /\ looked = FALSE
  /\ kept = {} /\ shown = {} /\ again = {}

MapStep ==
  \/ \E k \in Key, v \in Val : Put(k, v)
  \/ \E k \in Key : Remove(k)
  \/ Clear \/ KeyList \/ ValueList
  \/ MapSeq \/ SeqFirst \/ SeqNext

Next == (ListStep /\ UNCHANGED <<map, zero, seqVars>>) \/ MapStep

Spec == Init /\ [][Next]_vars

(***************************************************************************)
(* Properties.                                                             *)
(***************************************************************************)
(* A loop over a map that changes meanwhile, even one that is emptied and  *)
(* filled again: when the sequence says it is empty, every key that was in *)
(* the map all the time since Seq has been shown, and none of them twice.  *)
SurvivorsOnce ==
  /\ SeqEmpty => kept \subseteq shown
  /\ kept \cap again = {}

(* The two ways to look for a pair agree at any moment of the walk and     *)
(* whatever became of the map: both find a key only while the snapshot has *)
(* it yet to come, and compare with what the map has there now.  They can  *)
(* differ in three ways only, and only at such a key.  A pair that lacks   *)
(* the value is found by the loop alone, for Eq of lists stops at the      *)
(* shorter.  A nil looked for where nothing is any more makes the loop     *)
(* alone panic.  And two values are the same to the method if their own    *)
(* type's Eq says so, to the loop if they are to == or DeepEqual.          *)
Pairs == UNION {[1 .. n -> Key \cup Val \cup {Nil}] : n \in 0 .. 3}

ContainsAgrees ==
  \A pair \in Pairs :
    LET toCome == ~SeqEmpty /\ pair # << >> /\ \E i \in DOMAIN rest : rest[i] = pair[1]
        value == ValueAt(pair[1])
        Answers(own, any) == Contains(pair) = own /\ seqContains(pair) = any
    IN  \/ Contains(pair) = seqContains(pair)
        \/ toCome /\ Len(pair) = 1 /\ Answers("no", "yes")
        \/ toCome /\ Len(pair) > 1 /\
             IF pair[2] = Nil THEN value = Nil /\ Answers("no", "panic")
             ELSE zero # Nil /\ Answers(OwnEq[<<value, pair[2]>>], AnyEq[<<value, pair[2]>>])
=============================================================================
