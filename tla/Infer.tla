-------------------------------- MODULE Infer --------------------------------
(***************************************************************************)
(* The syntax trees that the evaluator and the type inferencer walk, and   *)
(* TypeInferencer.Infer (interpreter/astwalk/typed.go), which is a         *)
(* function of a tree and of what its names are bound to.                  *)
(***************************************************************************)
EXTENDS Integers, Sequences, SequencesExt

CONSTANTS
  Nodes,  \* the trees, with all their subtrees
  Depth,  \* how deep each of them is
  Names   \* the names that symbols can have

(***************************************************************************)
(* A node: its Go type, a symbol's name or an operation, a literal's value *)
(* (a string or a float by its place among its like, a boolean as 0 or 1), *)
(* its parts.                                                              *)
(***************************************************************************)
Node(type, name, num, kids) == [t |-> type, name |-> name, num |-> num, kids |-> kids]

Literals == {"integer", "float64", "string", "boolean"}
NodeTypes == Literals \cup {"Symbol", "If", "SpecialOp", "SExp", "Keyword"}

ASSUME NodesAssumption ==
  \A n \in Nodes :
    /\ n.t \in NodeTypes
    /\ n.num \in Int
    /\ n.kids \in Seq(Nodes)
    /\ n.t = "Symbol" => n.name \in Names
    /\ n.t = "If" => Len(n.kids) \in {2, 3}
    /\ n.t = "SpecialOp" => Len(n.kids) >= 1

ASSUME DepthAssumption ==
  \A n \in Nodes : Depth[n] \in Nat /\ \A i \in DOMAIN n.kids : Depth[n.kids[i]] < Depth[n]

(***************************************************************************)
(* Types.                                                                  *)
(***************************************************************************)
Type(kind) == [kind |-> kind, params |-> << >>]
AnyArray == [kind |-> "array", params |-> <<"any">>]
NoType == Type("!")  \* an error instead of a type
AnyType == Type("any")

builtinType ==
  [name \in {"type-of", "assign", "apply", "namespace", ">", "array"} |->
     CASE name = "type-of" -> Type("type")
       [] name = "assign" -> AnyArray
       [] name = "apply" -> AnyType
       [] name = "namespace" -> Type("namespace")
       [] name = ">" -> Type("boolean")
       [] name = "array" -> Type("array")]

(* A mistake this code does not make, which breaks InferHoldsForBuiltins   *)
(* of Eval: an `if' has the type of its first branch.                      *)
inferIfAsThen(cond, branches) ==
  IF cond.kind # "boolean" \/ NoType \in ToSet(branches) THEN NoType ELSE branches[1]

inferIf(cond, branches) ==
  IF cond.kind # "boolean" \/ NoType \in ToSet(branches) THEN NoType
  ELSE IF branches = <<branches[1], branches[1]>> THEN branches[1] ELSE AnyType

inferSExp(kids) ==
  IF kids = << >> THEN AnyType
  ELSE IF kids[1] = Type("array") THEN AnyArray ELSE kids[1]

inferArithmetic(kids) ==
  IF \E i \in DOMAIN kids : kids[i].kind \notin {"integer", "float64", "ast"} THEN NoType
  ELSE IF \E i \in DOMAIN kids : kids[i].kind # "integer" THEN Type("float64")
  ELSE Type("integer")

(* typeOf gives the type of what a name is bound to, infer those of the    *)
(* parts of the node.                                                      *)
inferNode(n, infer, typeOf) ==
  IF n.t \in Literals THEN Type(n.t)
  ELSE IF n.t = "Symbol" THEN typeOf[n.name]
  ELSE IF n.t = "If"
  THEN inferIf(infer[n.kids[1]], [i \in 1 .. Len(n.kids) - 1 |-> infer[n.kids[i + 1]]])
  ELSE IF n.t = "SExp"
  THEN inferSExp(IF n.kids = << >> THEN << >> ELSE <<infer[n.kids[1]]>>)
  ELSE IF n.t = "SpecialOp" /\ n.name \in {"+", "*"}
  THEN inferArithmetic([i \in DOMAIN n.kids |-> infer[n.kids[i]]])
  ELSE NoType

Infer(node, typeOf) == LET infer[n \in Nodes] == inferNode(n, infer, typeOf) IN infer[node]
=============================================================================
