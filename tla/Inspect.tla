------------------------------ MODULE Inspect ------------------------------
(***************************************************************************)
(* Inspect of the objects that evaluation makes (language/object): which   *)
(* namespaces are shown when a value is.                                   *)
(***************************************************************************)
EXTENDS Eval

CONSTANT MaxDepth  \* bound: how deep in arrays it is looked for namespaces

ASSUME MaxDepthAssumption == MaxDepth \in Nat

(* Array.Inspect shows its elements, Namespace.Inspect what is bound in    *)
(* it; other objects have no elements and show nothing but themselves.     *)
Nested(o) ==
  LET layer[n \in 0 .. MaxDepth] ==
        IF n = 0 THEN {o} ELSE UNION {ToSet(p.elems) : p \in layer[n - 1]}
  IN  UNION {layer[n] : n \in 0 .. MaxDepth}

Shown(o) == {p.num : p \in {q \in Nested(o) : q.kind = "namespace"}}

ShownIn(e) == UNION {Shown(envs[e].values[name]) : name \in DOMAIN envs[e].values}

(* Inspect comes to an end on every value.  Whatever is bound where, no    *)
(* namespace is shown inside itself, through others or arrays either: in   *)
(* no set of environments does each show another of the set.               *)
InspectEnds ==
  \A S \in (SUBSET DOMAIN envs) \ {{}} : \E e \in S : ShownIn(e) \cap S = {}
=============================================================================
