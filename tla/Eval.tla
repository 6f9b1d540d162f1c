-------------------------------- MODULE Eval --------------------------------
(***************************************************************************)
(* astwalk.Eval (interpreter/astwalk/astwalk.go) over environments         *)
(* (language/object/env.go).  Eval and the builtins call one another; the  *)
(* calls that wait for an Eval are the frames of a stack, and one action   *)
(* is what happens between two calls of Eval.                              *)
(*                                                                         *)
(* The packages come one after another to the same environment, as the     *)
(* REPL has it.  An error is an object without its text.  A float64 is its *)
(* place in the order of cmp.Compare, in which NaN comes first and the two *)
(* zeros have one place; its arithmetic rounds, as the constants say.      *)
(***************************************************************************)
EXTENDS Infer

CONSTANTS
  Packages,     \* what is evaluated: sequences of nodes
  MaxPackages,  \* bound: how many packages are evaluated
  Modulus,      \* 2^w for the w bits of an integer
  Floats,       \* the float64s,
  FloatSum, FloatProduct,  \* + and * of two of them,
  FloatOf       \* and the conversion of an integer

ASSUME PackagesAssumption == Packages \subseteq Seq(Nodes)
ASSUME ModulusAssumption == Modulus \in Nat /\ \E k \in 2 .. Modulus : Modulus = 2 * k

Int64 == -(Modulus \div 2) .. Modulus \div 2 - 1

(* What IEEE 754 says: addition and multiplication commute and 0.0 and 1.0 *)
(* are their units.  It does not say that they associate.                  *)
ASSUME FloatsAssumption ==
  /\ Floats \subseteq Int
  /\ FloatOf \in [Int64 -> Floats]
  /\ {FloatSum, FloatProduct} \subseteq [Floats \X Floats -> Floats]
  /\ \A x, y \in Floats : /\ FloatSum[<<x, y>>] = FloatSum[<<y, x>>]
                          /\ FloatProduct[<<x, y>>] = FloatProduct[<<y, x>>]
  /\ \A x \in Floats : FloatSum[<<FloatOf[0], x>>] = x /\ FloatProduct[<<FloatOf[1], x>>] = x

ASSUME LiteralsAssumption ==
  \A n \in Nodes : (n.t = "integer" => n.num \in Int64) /\ (n.t = "float64" => n.num \in Floats)

VARIABLES
  envs,    \* the environments made so far: the global one, then namespaces
  rest,    \* the nodes of the package that are still to be evaluated
  mode,    \* "idle", "eval": Eval is called, "return": it returns, "panicked"
  node,    \* what Eval is called for
  env,     \* and in which environment
  stack,   \* who waits for it, the innermost last
  obj,     \* what Eval returns, or returned last
  count,   \* how many packages were begun
  guess    \* history: the type inferred for a node of the package before its evaluation

vars == <<envs, rest, mode, node, env, stack, obj, count, guess>>

(***************************************************************************)
(* Objects.                                                                *)
(***************************************************************************)
Obj(kind, num, name, elems) == [kind |-> kind, num |-> num, name |-> name, elems |-> elems]

Null == Obj("null", 0, "", << >>)
Error == Obj("error", 0, "", << >>)
Nil == Obj("nil", 0, "", << >>)  \* what Eval returns for a package without nodes
Primitive(kind, num) == Obj(kind, num, "", << >>)
Boolean(b) == Primitive("boolean", IF b THEN 1 ELSE 0)
Builtin(name) == Obj("builtin", 0, name, << >>)
Namespace(e) == Obj("namespace", e, "", << >>)
Array(elems) == Obj("array", 0, "", elems)
TypeObject(type) == Obj("type", 0, type.kind, << >>)

IsPrimitive(o) == o.kind \in Literals

(* int64 arithmetic.                                                       *)
Wrap(n) == ((n + Modulus \div 2) % Modulus) - Modulus \div 2

(* The loops of sum and multiply have a float total and an integer one;    *)
(* this is either.                                                         *)
Combine(op, hasFloats, x, y) ==
  IF hasFloats THEN IF op = "+" THEN FloatSum[<<x, y>>] ELSE FloatProduct[<<x, y>>]
  ELSE Wrap(IF op = "+" THEN x + y ELSE x * y)
Start(op, hasFloats) ==
  LET unit == IF op = "+" THEN 0 ELSE 1 IN IF hasFloats THEN FloatOf[unit] ELSE unit
Operand(hasFloats, o) == IF hasFloats /\ o.kind = "integer" THEN FloatOf[o.num] ELSE o.num

Total(op, hasFloats, objs) ==
  LET total[i \in 0 .. Len(objs)] ==
        IF i = 0 THEN Start(op, hasFloats)
        ELSE Combine(op, hasFloats, total[i - 1], Operand(hasFloats, objs[i]))
  IN  Primitive(IF hasFloats THEN "float64" ELSE "integer", total[Len(objs)])

(* Compare, of two primitives of one kind.  It will not say that false is  *)
(* less than true.                                                         *)
Comparable(o, other) == o.kind # "boolean" \/ o.num >= other.num

(***************************************************************************)
(* Environments.                                                           *)
(***************************************************************************)
Global == 1
DefaultEnv == [parent |-> 0, values |-> [name \in DOMAIN builtinType |-> Builtin(name)]]
Child(e) == [parent |-> e, values |-> << >>]

(* A mistake this code does not make: to rebind a name where it was bound. *)
AssignWhereBound(e, name, o) ==
  LET f == IF name \notin DOMAIN envs[e].values /\ envs[e].parent # 0 THEN envs[e].parent ELSE e
  IN  [envs EXCEPT ![f].values = [n \in DOMAIN @ \cup {name} |-> IF n = name THEN o ELSE @[n]]]

Assign(e, name, o) ==
  [envs EXCEPT ![e].values = [n \in DOMAIN @ \cup {name} |-> IF n = name THEN o ELSE @[n]]]

LookUp(e, name) ==
  LET look[i \in 0 .. Len(envs)] ==
        IF i = 0 THEN Null
        ELSE IF name \in DOMAIN envs[i].values THEN envs[i].values[name]
        ELSE look[envs[i].parent]
  IN  look[e]

typeOf(e) ==
  [name \in Names |->
     LET o == LookUp(e, name) IN
     IF o.kind = "builtin" THEN builtinType[o.name] ELSE Type(o.kind)]

(***************************************************************************)
(* Calls of Eval and returns from it.                                      *)
(***************************************************************************)
Frame(call, e, args, objs) ==
  [call |-> call, env |-> e, args |-> args, objs |-> objs]

Top == stack[Len(stack)]

Call(n, e) == mode' = "eval" /\ node' = n /\ env' = e
Return(o) == mode' = "return" /\ obj' = o /\ UNCHANGED <<node, env>>

Push(frame) == stack' = Append(stack, frame)
Pop == stack' = Front(stack)
Replace(frame) == stack' = [stack EXCEPT ![Len(stack)] = frame]

NoGuess == [type |-> NoType, plain |-> FALSE]

Init ==
  /\ envs = <<DefaultEnv>>
  /\ rest = << >> /\ mode = "idle" /\ node = << >> /\ env = Global
  /\ stack = << >> /\ obj = Nil /\ count = 0
  /\ guess = NoGuess

(* Whether all that a node does with builtins is to apply them by their    *)
(* names, never assign, and it applies nothing else.                       *)
IsBuiltin(n) == n.t = "Symbol" /\ LookUp(Global, n.name).kind = "builtin"
plainNode(m, plain) ==
  /\ \A i \in DOMAIN m.kids : plain[m.kids[i]] \/ (m.t = "SExp" /\ i = 1)
  /\ ~IsBuiltin(m)
  /\ m.t = "SExp" =>
       /\ m.kids # << >>
       /\ IsBuiltin(m.kids[1])
       /\ LookUp(Global, m.kids[1].name) # Builtin("assign")
IsPlain(n) == LET plain[m \in Nodes] == plainNode(m, plain) IN plain[n]

(***************************************************************************)
(* Mistakes that this code does not make: each is what one definition      *)
(* below would be with a plausible bug, and breaks the property it names.  *)
(***************************************************************************)
BeginInParent(call, e) ==  \* ScopesNest
  IF Len(Top.args) % 2 # 0 \/ (Top.args # << >> /\ Top.args[1].t # "Symbol")
  THEN Return(Error) /\ Pop
  ELSE IF Top.args = << >>
  THEN Return(IF call = "assign" THEN Array(<< >>) ELSE Namespace(e)) /\ Pop
  ELSE Call(Top.args[2], Top.env) /\ Replace(Frame(call, e, Top.args, << >>)) /\ UNCHANGED obj

ApplyAgain ==  \* Answers
  /\ mode = "return" /\ stack # << >> /\ Top.call = "apply"
  /\ obj = Builtin("apply")
  /\ IF Len(Top.args) = 2 THEN Call(Top.args[1], Top.env) /\ UNCHANGED <<stack, obj>>
     ELSE Return(Error) /\ Pop
  /\ UNCHANGED <<envs, rest, count, guess>>

sumByFirst(objs) == Total("+", objs[1].kind = "float64", objs)  \* OrderDoesNotMatter

isDecreasingAtEnds(objs) == Boolean(objs[1].num > objs[Len(objs)].num)  \* GreaterIsAll

NamespaceIsItsScope ==  \* InspectEnds
  /\ mode = "return" /\ stack # << >> /\ Top.call = "apply"
  /\ obj = Builtin("namespace")
  /\ UNCHANGED <<envs, rest, count, guess>>
  /\ IF Len(Top.args) % 2 # 0 \/ (Top.args # << >> /\ Top.args[1].t # "Symbol")
     THEN Return(Error) /\ Pop
     ELSE IF Top.args = << >> THEN Return(Namespace(Top.env)) /\ Pop
     ELSE /\ Call(Top.args[2], Top.env)
          /\ Replace(Frame("namespace", Top.env, Top.args, << >>))
          /\ UNCHANGED obj

(***************************************************************************)
(* A package.                                                              *)
(***************************************************************************)
EvalPackage(p) ==
  /\ mode = "idle" /\ count < MaxPackages
  /\ count' = count + 1
  /\ rest' = p
  /\ mode' = "package"
  /\ obj' = Nil
  /\ UNCHANGED <<envs, node, env, stack, guess>>

NextNode ==
  /\ mode = "package"
  /\ rest # << >>
  /\ Call(Head(rest), Global)
  /\ rest' = Tail(rest)
  /\ guess' = [type |-> Infer(Head(rest), typeOf(Global)), plain |-> IsPlain(Head(rest))]
  /\ UNCHANGED <<envs, stack, obj, count>>

PackageEnds ==
  /\ mode = "package"
  /\ rest = << >>
  /\ mode' = "idle"
  /\ UNCHANGED <<envs, rest, node, env, stack, obj, count, guess>>

NodeEnds ==
  /\ mode = "return" /\ stack = << >>
  /\ mode' = IF obj = Error THEN "idle" ELSE "package"
  /\ node' = << >> /\ guess' = NoGuess
  /\ UNCHANGED <<envs, rest, env, stack, obj, count>>

(***************************************************************************)
(* Eval, by the type of the node.                                          *)
(***************************************************************************)
Evaluates(type) == mode = "eval" /\ node.t = type /\ UNCHANGED <<envs, rest, count, guess>>

EvalLiteral ==
  \E type \in Literals :
    Evaluates(type) /\ Return(Primitive(type, node.num)) /\ UNCHANGED stack

EvalSymbol == Evaluates("Symbol") /\ Return(LookUp(env, node.name)) /\ UNCHANGED stack

EvalOther == Evaluates("Keyword") /\ Return(Error) /\ UNCHANGED stack

evalIf ==
  /\ Evaluates("If")
  /\ Push(Frame("if", env, Tail(node.kids), << >>))
  /\ Call(Head(node.kids), env)
  /\ UNCHANGED obj

evalSpecialOp ==
  /\ Evaluates("SpecialOp")
  /\ IF node.name \in {"+", "*"}
     THEN /\ Push(Frame(node.name, env, Tail(node.kids), << >>))
          /\ Call(Head(node.kids), env)
          /\ UNCHANGED obj
     ELSE Return(Error) /\ UNCHANGED stack

EvalSExp ==
  /\ Evaluates("SExp")
  /\ node.kids # << >>
  /\ Push(Frame("apply", env, Tail(node.kids), << >>))
  /\ Call(Head(node.kids), env)
  /\ UNCHANGED obj

EvalPanics ==
  /\ Evaluates("SExp")
  /\ node.kids = << >>
  /\ mode' = "panicked"
  /\ UNCHANGED <<node, env, stack, obj>>

(***************************************************************************)
(* apply: the head was evaluated, and selects what is done with the        *)
(* arguments.                                                              *)
(***************************************************************************)
Applies(kind) ==
  /\ mode = "return" /\ stack # << >> /\ Top.call = "apply"
  /\ obj.kind = kind
  /\ UNCHANGED <<rest, count, guess>>

CallsBuiltin(name) == Applies("builtin") /\ obj.name = name

Args == Top.args
AsksForNamespace == Len(Args) >= 1 /\ Args[1].t = "Symbol"

builtinTypeOf ==
  /\ CallsBuiltin("type-of")
  /\ LET type == IF Args = << >> THEN NoType ELSE Infer(Args[1], typeOf(Top.env)) IN
     Return(IF type = NoType THEN Error ELSE TypeObject(type))
  /\ Pop
  /\ UNCHANGED envs

(* assign binds the names one by one; what it bound before it met an       *)
(* argument that is no name stays bound.                                   *)
BeginAssign(call, e) ==
  IF Len(Args) % 2 # 0 \/ (Args # << >> /\ Args[1].t # "Symbol")
  THEN Return(Error) /\ Pop
  ELSE IF Args = << >>
  THEN Return(IF call = "assign" THEN Array(<< >>) ELSE Namespace(e)) /\ Pop
  ELSE Call(Args[2], e) /\ Replace(Frame(call, e, Args, << >>)) /\ UNCHANGED obj

assign ==
  /\ CallsBuiltin("assign")
  /\ BeginAssign("assign", Top.env)
  /\ UNCHANGED envs

createNamespace ==
  /\ CallsBuiltin("namespace")
  /\ envs' = Append(envs, Child(Top.env))
  /\ BeginAssign("namespace", Len(envs) + 1)

AssignValue ==
  /\ mode = "return" /\ stack # << >> /\ Top.call \in {"assign", "namespace"}
  /\ envs' = Assign(Top.env, Args[1].name, obj)
  /\ LET left == SubSeq(Args, 3, Len(Args))
         objs == Append(Top.objs, obj) IN
     IF left = << >>
     THEN Return(IF Top.call = "assign" THEN Array(objs) ELSE Namespace(Top.env)) /\ Pop
     ELSE IF left[1].t # "Symbol" THEN Return(Error) /\ Pop
     ELSE /\ Call(left[2], Top.env)
          /\ Replace(Frame(Top.call, Top.env, left, objs))
          /\ UNCHANGED obj
  /\ UNCHANGED <<rest, count, guess>>

builtinApply ==
  /\ CallsBuiltin("apply")
  /\ IF Len(Args) = 2
     THEN /\ Call(Args[1], Top.env)
          /\ Replace(Frame("apply", Top.env, Tail(Args), << >>))
          /\ UNCHANGED obj
     ELSE Return(Error) /\ Pop
  /\ UNCHANGED envs

gt ==
  /\ CallsBuiltin(">")
  /\ IF Len(Args) >= 2
     THEN Call(Args[1], Top.env) /\ Replace(Frame(">", Top.env, Tail(Args), << >>)) /\ UNCHANGED obj
     ELSE Return(Error) /\ Pop
  /\ UNCHANGED envs

array ==
  /\ CallsBuiltin("array")
  /\ IF Args # << >>
     THEN /\ Call(Args[1], Top.env)
          /\ Replace(Frame("array", Top.env, Tail(Args), << >>))
          /\ UNCHANGED obj
     ELSE Return(Array(<< >>)) /\ Pop
  /\ UNCHANGED envs

ApplyNamespace ==
  /\ Applies("namespace")
  /\ Return(IF AsksForNamespace THEN LookUp(obj.num, Args[1].name) ELSE Error)
  /\ Pop
  /\ UNCHANGED envs

ApplyArray ==
  /\ Applies("array")
  /\ IF Args = << >>
     THEN Return(obj) /\ Pop
     ELSE /\ Call(Args[1], Top.env)
          /\ Replace(Frame("index", Top.env, << >>, <<obj>>))
          /\ UNCHANGED obj
  /\ UNCHANGED envs

ApplyOther ==
  /\ mode = "return" /\ stack # << >> /\ Top.call = "apply"
  /\ obj.kind \notin {"builtin", "namespace", "array"}
  /\ Return(Error) /\ Pop
  /\ UNCHANGED <<envs, rest, count, guess>>

(***************************************************************************)
(* A value comes back to who waits for it.                                 *)
(***************************************************************************)
ReturnsTo(calls) ==
  /\ mode = "return" /\ stack # << >> /\ Top.call \in calls
  /\ UNCHANGED <<envs, rest, count, guess>>

Index ==
  /\ ReturnsTo({"index"})
  /\ LET elems == Top.objs[1].elems IN
     Return(IF obj.kind = "integer" /\ obj.num \in 0 .. Len(elems) - 1
            THEN elems[obj.num + 1] ELSE Error)
  /\ Pop

IfBranch ==
  /\ ReturnsTo({"if"})
  /\ Pop
  /\ IF obj.kind # "boolean" THEN Return(Error)
     ELSE IF obj.num = 1 THEN Call(Args[1], Top.env) /\ UNCHANGED obj
     ELSE IF Len(Args) = 1 THEN Return(Null)
     ELSE Call(Args[2], Top.env) /\ UNCHANGED obj

(* One more value for a call that takes any number: refused, or the next   *)
(* argument, or the result.                                                *)
Accepts(call, objs, o) ==
  /\ call = "array" => o # Error
  /\ call \in {"+", "*"} => o.kind \in {"integer", "float64"}
  /\ call = ">" =>
       /\ IsPrimitive(o)
       /\ objs # << >> => objs[Len(objs)].kind = o.kind /\ Comparable(o, objs[Len(objs)])

HasFloats(objs) == \E i \in DOMAIN objs : objs[i].kind = "float64"
sum(objs) == Total("+", HasFloats(objs), objs)
multiply(objs) == Total("*", HasFloats(objs), objs)
isDecreasing(objs) == Boolean(\A i \in 1 .. Len(objs) - 1 : objs[i].num > objs[i + 1].num)

Result(call, objs) ==
  IF call = "array" THEN Array(objs)
  ELSE IF call = "+" THEN sum(objs)
  ELSE IF call = "*" THEN multiply(objs) ELSE isDecreasing(objs)

NextArgument ==
  /\ ReturnsTo({"array", "+", "*", ">"})
  /\ LET objs == Append(Top.objs, obj) IN
     IF ~Accepts(Top.call, Top.objs, obj) THEN Return(Error) /\ Pop
     ELSE IF Args = << >> THEN Return(Result(Top.call, objs)) /\ Pop
     ELSE /\ Call(Args[1], Top.env)
          /\ Replace(Frame(Top.call, Top.env, Tail(Args), objs))
          /\ UNCHANGED obj

(***************************************************************************)
(* The specification.                                                      *)
(***************************************************************************)
Step ==
  \/ NextNode \/ PackageEnds \/ NodeEnds
  \/ EvalLiteral \/ EvalSymbol \/ EvalOther \/ evalIf \/ evalSpecialOp \/ EvalSExp \/ EvalPanics
  \/ builtinTypeOf \/ assign \/ createNamespace \/ builtinApply \/ gt \/ array
  \/ ApplyNamespace \/ ApplyArray \/ ApplyOther
  \/ AssignValue \/ Index \/ IfBranch \/ NextArgument

Next == Step \/ \E p \in Packages : EvalPackage(p)

Spec == Init /\ [][Next]_vars

(* One goroutine: an evaluation once begun goes on.                        *)
FairSpec == Spec /\ WF_vars(Step)

(***************************************************************************)
(* Properties.                                                             *)
(***************************************************************************)
(* Dynamic scope, properly nested: however assign, namespace and apply     *)
(* call one another, what waits and what is evaluated belongs to the       *)
(* innermost namespace that is being made, whose parent is the scope that  *)
(* namespace was called in.                                                *)
Scope(k) ==  \* the scope inside the first k frames
  LET open == {i \in 1 .. k : stack[i].call = "namespace"} IN
  IF open = {} THEN Global ELSE stack[CHOOSE i \in open : \A j \in open : j <= i].env

ScopesNest ==
  /\ \A k \in DOMAIN stack :
       IF stack[k].call = "namespace" THEN envs[stack[k].env].parent = Scope(k - 1)
                                      ELSE stack[k].env = Scope(k - 1)
  /\ mode = "eval" => env = Scope(Len(stack))

(* A name is bound in the innermost scope only, one at a time, and never   *)
(* unbound: making a namespace does not touch what surrounds it, one that  *)
(* is made never changes again, and what was bound before an error stays.  *)
OnlyInnermostIsBound ==
  [][\A i \in DOMAIN envs :
       LET old == envs[i].values  new == envs'[i].values IN
       envs'[i] # envs[i] =>
         /\ i = Scope(Len(stack)) /\ envs'[i].parent = envs[i].parent
         /\ DOMAIN old \subseteq DOMAIN new
         /\ \A m, n \in DOMAIN new :
              (m \notin DOMAIN old \/ new[m] # old[m]) /\ (n \notin DOMAIN old \/ new[n] # old[n])
                => m = n]_vars

(* The order of operands matters to + and * as little as it can ("only     *)
(* commutative operators can have more than 2 operands", special.go:124):  *)
(* the total has the same kind in any order, and the same value if all are *)
(* integers, however they wrap, or if they are two.  Of more with a float  *)
(* among them the order may show, for each step rounds.                    *)
Operands == Append(Top.objs, obj)
Ends(calls) ==
  mode = "return" /\ stack # << >> /\ Top.call \in calls /\ mode' = "return" /\ obj' # Error
Orders(n) == {p \in [1 .. n -> 1 .. n] : \A i, j \in 1 .. n : p[i] = p[j] => i = j}

OrderDoesNotMatter ==
  [][Ends({"+", "*"}) =>
       \A p \in Orders(Len(Operands)) :
         LET other == Result(Top.call, [i \in 1 .. Len(Operands) |-> Operands[p[i]]]) IN
         /\ other.kind = obj'.kind
         /\ Len(Operands) = 2 \/ ~HasFloats(Operands) => other = obj']_vars

(* (> a b c ...) compares neighbours only, yet is true exactly when each   *)
(* operand is greater than every later one, all being of one kind.         *)
GreaterIsAll ==
  [][Ends({">"}) =>
       /\ \A i \in DOMAIN Operands : Operands[i].kind = Operands[1].kind
       /\ obj' = Boolean(\A i, j \in DOMAIN Operands :
                           i < j => Operands[i].num > Operands[j].num)]_vars

(* What Infer says of a node, evaluation gives, or an error.               *)
Inferred ==
  mode = "return" /\ stack = << >> /\ obj # Error =>
    guess.type = NoType \/ guess.type.kind \in {"any", obj.kind}

(* "Infer infers the type of an AST node" (typed.go:59), whatever the node.*)
InferHolds == Inferred

(* It does where builtins are all that is applied and assign is not among  *)
(* them, whatever is bound to the names it looks up.                       *)
InferHoldsForBuiltins == guess.plain => Inferred

(* Every evaluation ends: no program makes a tree walk for ever.           *)
Answers == mode # "idle" ~> mode \in {"idle", "panicked"}
=============================================================================
