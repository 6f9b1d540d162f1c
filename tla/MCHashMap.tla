----------------------------- MODULE MCHashMap -----------------------------
(***************************************************************************)
(* An instance of HashMap for TLC: two keys, two values, and lists made of *)
(* one and of two values (an empty map's Keys makes the empty one).  The   *)
(* values are as a HashMap that is empty and one that is nil: Eq of the    *)
(* first to the second holds, the other way round it does not.             *)
(***************************************************************************)
EXTENDS HashMap, TLC

CONSTANTS v, w

Elements == Key \cup Val
SomeBatches == {<<v>>, <<w, v>>}
KeySymmetry == Permutations(Key)

EmptyEqNil ==
  [p \in Val \X Val |-> IF p[1] = p[2] \/ p = <<v, w>> THEN "yes" ELSE "no"]
Identity == [p \in Val \X Val |-> IF p[1] = p[2] THEN "yes" ELSE "no"]
=============================================================================
