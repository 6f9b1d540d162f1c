------------------------------- MODULE MCEval -------------------------------
(***************************************************************************)
(* An instance of Eval for TLC: packages of one or two nodes, one after    *)
(* another in one environment, that bind, rebind, nest and fail.           *)
(***************************************************************************)
EXTENDS Inspect

(***************************************************************************)
(* A small float: a significand of two bits, up to 8, rounded to the       *)
(* nearest and half way to even; what is larger is infinite.  So           *)
(* (4.0 + 1) + 1 is 4.0 and 4.0 + (1 + 1) is 6.0.                          *)
(***************************************************************************)
Inf == 16
NaN == -32
SmallFloats == {NaN, -Inf, Inf} \cup (-4 .. 4) \cup {-8, -6, 6, 8}
Rounded(x) ==
  IF x > 9 THEN Inf ELSE IF x < -9 THEN -Inf
  ELSE IF x \in SmallFloats THEN x ELSE 4 * ((x + 2) \div 4)

SmallSum ==
  [p \in SmallFloats \X SmallFloats |->
     LET ends == {p[1], p[2]} \cap {-Inf, Inf} IN
     IF NaN \in {p[1], p[2]} \/ ends = {-Inf, Inf} THEN NaN
     ELSE IF ends # {} THEN CHOOSE x \in ends : TRUE ELSE Rounded(p[1] + p[2])]
SmallProduct ==
  [p \in SmallFloats \X SmallFloats |->
     IF NaN \in {p[1], p[2]} \/ {p[1], p[2]} \in {{0, Inf}, {0, -Inf}} THEN NaN
     ELSE Rounded(p[1] * p[2])]
SmallOf == [i \in Int64 |-> Rounded(i)]

SymbolNames == {"a", "n"} \cup DOMAIN builtinType

I(i) == Node("integer", "", i, << >>)
F(i) == Node("float64", "", i, << >>)
S == Node("string", "", 1, << >>)
B(b) == Node("boolean", "", IF b THEN 1 ELSE 0, << >>)
K == Node("Keyword", "", 0, << >>)
Sym(name) == Node("Symbol", name, 0, << >>)
L(items) == Node("SExp", "", 0, items)
App(f, args) == L(<<Sym(f)>> \o args)
Op(name, args) == Node("SpecialOp", name, 0, args)
If(parts) == Node("If", "", 0, parts)

a == Sym("a")
n == Sym("n")
SetA(x) == App("assign", <<a, x>>)
SetN(x) == App("assign", <<n, x>>)
First(x) == L(<<App("array", <<I(1), x>>), I(0)>>)  \* x for its effect

Operands0 == {I(1), I(3), F(2), a, B(TRUE)}
Arithmetic ==
  {Op(o, <<x, y, z>>) : o \in {"+", "*"}, x \in Operands0, y \in {I(3), F(2)}, z \in {I(3), a}}
    \cup {Op(o, <<I(3), F(2)>>) : o \in {"+", "*"}}
    \cup {Op("-", <<I(1), I(1)>>), Op("+", <<S, I(1)>>), Op("+", <<a>>)}
Comparisons ==
  {App(">", s) : s \in {<<x, y, z>> : x, y, z \in {I(1), I(3), a}}}
    \cup {App(">", <<x, y>>) : x, y \in {B(TRUE), B(FALSE), S, n}} \cup {App(">", <<I(1)>>)}
Values ==
  {I(1), F(2), B(TRUE), a, n, K, Sym(">"), Op("+", <<I(1), S>>), App("array", <<>>), App("array", <<a, SetA(I(3))>>)}
Lookups ==
  {L(<<n, a>>), L(<<n, n>>), L(<<n>>), L(<<n, I(1)>>), L(<<a, First(SetA(S))>>), First(I(3)), L(<<I(1), a>>), L(<<>>),
   L(<<L(<<n, n>>), a>>)}
Ifs ==
  {If(<<c, x>>) : c \in {a, App(">", <<a, I(1)>>), App(">", <<First(SetA(S)), I(0)>>)}, x \in {a, I(1)}}
    \cup {If(<<App(">", <<x, I(1)>>), a, y>>) : x \in {I(3), First(SetA(S))}, y \in {I(1), S}}
Namespaces ==
  {App("namespace", s) : s \in
    {<<>>, <<a>>, <<I(1), a>>, <<a, I(3)>>, <<a, SetA(I(1))>>, <<a, I(3), n, App("array", <<a, SetA(S)>>)>>,
     <<n, App("namespace", <<a, a>>)>>, <<n, App("namespace", <<n, SetN(a)>>), a, SetN(I(1))>>,
     <<a, I(1), I(2), I(3)>>}}
Assigns ==
  {SetA(x) : x \in Values} \cup {SetN(x) : x \in Namespaces}
    \cup {App("assign", s) : s \in {<<>>, <<a>>, <<a, I(3), S, I(1)>>, <<a, I(3), n, a>>}}
Applies0 ==
  {App("apply", s) : s \in {<<n, a>>, <<Sym("apply"), a>>, <<Sym("array"), SetA(I(1))>>, <<a>>}}
    \cup {App("type-of", s) : s \in {<<>>, <<a>>, <<K>>, <<SetA(I(1))>>}}

Roots ==
  Arithmetic \cup Comparisons \cup Values \cup Lookups \cup Ifs \cup Namespaces \cup Assigns \cup Applies0

RECURSIVE Subtrees(_)
Subtrees(m) == {m} \cup UNION {Subtrees(m.kids[i]) : i \in DOMAIN m.kids}
AllNodes == UNION {Subtrees(m) : m \in Roots}
NodeDepth[m \in AllNodes] == IF m.kids = << >> THEN 0 ELSE 1 + Max({NodeDepth[m.kids[i]] : i \in DOMAIN m.kids})

LookupPackages == {<<m>> : m \in Lookups}
AllPackages == {<<m>> : m \in Roots} \cup {<<>>} \cup {<<x, y>> : x \in Assigns, y \in {a, K, L(<<n, a>>)}}
=============================================================================
