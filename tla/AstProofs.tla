----------------------------- MODULE AstProofs -----------------------------
(***************************************************************************)
(* Proofs about Ast, for any trees, however they lie in memory.            *)
(***************************************************************************)
EXTENDS Ast, DataLemmas

(***************************************************************************)
(* A heap, element by element.                                             *)
(***************************************************************************)
IsNode(n, as) ==
  /\ n = [kind |-> n.kind, val |-> n.val, kids |-> n.kids]
  /\ n.kind \in Kinds /\ n.kids \in 0 .. Len(as) /\ (n.kids = 0 <=> n.kind \in Leaves)

Heaped(ns, as) ==
  /\ IsSeq(ns) /\ IsSeq(as)
  /\ \A r \in 1 .. Len(ns) : IsNode(ns[r], as)
  /\ \A a \in 1 .. Len(as) : IsSeq(as[a]) /\ \A i \in 1 .. Len(as[a]) : as[a][i] \in Refs(ns)

LEMMA RefsAre ==
  ASSUME NEW ns, IsSeq(ns)
  PROVE  \A r : r \in Refs(ns) <=> r \in {0, -1, -2} \cup 1 .. Len(ns)
  BY SeqDomain DEF Refs, Nothing, NilLeaf, NilComposite

LEMMA HeapIsHeaped ==
  ASSUME NEW ns, NEW as, IsHeap(ns, as) PROVE Heaped(ns, as)
<1> DEFINE N == [kind : Kinds, val : Values, kids : 0 .. Len(as)]
           R == Refs(ns)
<1>1. ns \in Seq(N) /\ as \in Seq(Seq(R)) /\ \A r \in DOMAIN ns : ns[r].kids = 0 <=> ns[r].kind \in Leaves
  BY DEF IsHeap
<1>2. IsSeq(ns) /\ IsSeq(as)
  BY <1>1 DEF IsSeq
<1>3. ASSUME NEW r \in 1 .. Len(ns) PROVE IsNode(ns[r], as)
  <2>1. r \in DOMAIN ns
    BY <1>2, SeqDomain
  <2>2. ns[r] \in N
    BY <1>1, ElementOfSeq
  <2>3. /\ ns[r] = [kind |-> ns[r].kind, val |-> ns[r].val, kids |-> ns[r].kids]
        /\ ns[r].kind \in Kinds /\ ns[r].kids \in 0 .. Len(as)
    BY <2>2
  <2> QED BY <1>1, <2>1, <2>3 DEF IsNode
<1>4. ASSUME NEW a \in 1 .. Len(as) PROVE IsSeq(as[a]) /\ \A i \in 1 .. Len(as[a]) : as[a][i] \in R
  <2> HIDE DEF R
  <2>1. as[a] \in Seq(R)
    BY <1>1, ElementOfSeq
  <2> QED BY <2>1, ElementOfSeq DEF IsSeq
<1> QED BY <1>2, <1>3, <1>4 DEF Heaped

LEMMA ChildrenAre ==
  ASSUME NEW ns, NEW as, Heaped(ns, as), NEW r \in 1 .. Len(ns)
  PROVE  /\ IsSeq(ChildrenIn(ns, as, r)) /\ DOMAIN ChildrenIn(ns, as, r) = 1 .. Len(ChildrenIn(ns, as, r))
         /\ \A i \in 1 .. Len(ChildrenIn(ns, as, r)) : ChildrenIn(ns, as, r)[i] \in Refs(ns)
<1>1. CASE ns[r].kids = 0
  <2>1. ChildrenIn(ns, as, r) = << >>
    BY <1>1 DEF ChildrenIn
  <2> QED BY <2>1, SeqOfSome, SeqDomain
<1>2. CASE ns[r].kids # 0
  <2>1. ns[r].kids \in 0 .. Len(as) /\ Len(as) \in Nat
    BY SeqDomain DEF Heaped, IsNode
  <2>2. ChildrenIn(ns, as, r) = as[ns[r].kids]
    BY <1>2 DEF ChildrenIn
  <2>3. \A k, l : k # 0 /\ k \in 0 .. l /\ l \in Nat => k \in 1 .. l
    OBVIOUS
  <2>4. ns[r].kids \in 1 .. Len(as)
    BY <1>2, <2>1, <2>3, Zenon
  <2> QED BY <2>2, <2>4, SeqDomain DEF Heaped
<1> QED BY <1>1, <1>2

(***************************************************************************)
(* The tree in memory.  t gives it for each depth and reference.           *)
(***************************************************************************)
Grown(t, ns, as, n, s) ==
  IF s <= 0 THEN Hole(s)
  ELSE IF n = 0 THEN Tip("too deep")
  ELSE [kind |-> ns[s].kind, val |-> ns[s].val,
        kids |-> [i \in DOMAIN ChildrenIn(ns, as, s) |-> t[<<n - 1, ChildrenIn(ns, as, s)[i]>>]]]

GrowsTo(t, ns, as, k) == \A n \in 0 .. k : \A s \in Refs(ns) : t[<<n, s>>] = Grown(t, ns, as, n, s)

LEMMA GrowsMore ==
  ASSUME NEW ns, NEW as, Heaped(ns, as), NEW k \in Nat, NEW t, GrowsTo(t, ns, as, k),
         NEW D, \A n \in 0 .. k + 1 : \A s \in Refs(ns) : <<n, s>> \in D
  PROVE  \E u : u = [p \in D |-> u[p]] /\ GrowsTo(u, ns, as, k + 1)
<1> DEFINE u == [p \in D |-> IF p[1] \in 0 .. k THEN t[p] ELSE Grown(t, ns, as, p[1], p[2])]
<1>1. ASSUME NEW n \in 0 .. k + 1, NEW s \in Refs(ns)
      PROVE  u[<<n, s>>] = IF n <= k THEN t[<<n, s>>] ELSE Grown(t, ns, as, n, s)
  <2>1. <<n, s>> \in D /\ (n \in 0 .. k <=> n <= k) /\ <<n, s>>[1] = n /\ <<n, s>>[2] = s
    OBVIOUS
  <2>2. u[<<n, s>>] = IF <<n, s>>[1] \in 0 .. k THEN t[<<n, s>>] ELSE Grown(t, ns, as, <<n, s>>[1], <<n, s>>[2])
    BY <2>1, Zenon
  <2> HIDE DEF u
  <2> QED BY <2>1, <2>2, Zenon
<1>2. u = [p \in D |-> u[p]]
  OBVIOUS
<1> HIDE DEF u
<1>3. ASSUME NEW n \in 0 .. k + 1, NEW s \in Refs(ns) PROVE Grown(u, ns, as, n, s) = Grown(t, ns, as, n, s)
  <2>1. CASE s <= 0 \/ n = 0
    BY <2>1 DEF Grown
  <2>2. CASE ~(s <= 0) /\ n # 0
    <3>1. s \in 1 .. Len(ns) /\ n - 1 \in 0 .. k + 1 /\ n - 1 <= k
      BY <2>2, RefsAre DEF Heaped
    <3>2. \A i \in DOMAIN ChildrenIn(ns, as, s) : ChildrenIn(ns, as, s)[i] \in Refs(ns)
      BY <3>1, ChildrenAre
    <3>3. \A i \in DOMAIN ChildrenIn(ns, as, s) :
            u[<<n - 1, ChildrenIn(ns, as, s)[i]>>] = t[<<n - 1, ChildrenIn(ns, as, s)[i]>>]
      BY <1>1, <3>1, <3>2
    <3> QED BY <2>2, <3>3 DEF Grown
  <2> QED BY <2>1, <2>2
<1>4. GrowsTo(u, ns, as, k + 1)
  <2>1. ASSUME NEW n \in 0 .. k + 1, NEW s \in Refs(ns) PROVE u[<<n, s>>] = Grown(u, ns, as, n, s)
    <3>1. n <= k => n \in 0 .. k
      OBVIOUS
    <3>2. n <= k => t[<<n, s>>] = Grown(t, ns, as, n, s)
      BY <3>1, Zenon DEF GrowsTo
    <3> QED BY <1>1, <1>3, <3>2
  <2> QED BY <2>1 DEF GrowsTo
<1> QED BY <1>2, <1>4

LEMMA TreeGrows ==
  ASSUME NEW ns, NEW as, Heaped(ns, as)
  PROVE  \E t : GrowsTo(t, ns, as, MaxDepth) /\ \A r : TreeIn(ns, as, r) = t[<<MaxDepth, r>>]
<1> DEFINE D == (0 .. MaxDepth) \X Refs(ns)
           Is(t) == t = [p \in D |-> LET n == p[1]
                                         s == p[2]
                                     IN  IF s <= 0 THEN Hole(s)
                                         ELSE IF n = 0 THEN Tip("too deep")
                                         ELSE [kind |-> ns[s].kind, val |-> ns[s].val,
                                               kids |-> [i \in DOMAIN ChildrenIn(ns, as, s) |->
                                                           t[<<n - 1, ChildrenIn(ns, as, s)[i]>>]]]]
           tree == CHOOSE t : Is(t)
           S == {k \in Nat : k <= MaxDepth => \E t : t = [p \in D |-> t[p]] /\ GrowsTo(t, ns, as, k)}
<1>1. MaxDepth \in Nat
  BY MemoryAssumption
<1>2. 0 \in S
  <2> DEFINE t == [p \in D |-> Grown(0, ns, as, 0, p[2])]
  <2>1. ASSUME NEW s \in Refs(ns) PROVE t[<<0, s>>] = Grown(0, ns, as, 0, s)
    <3>1. <<0, s>> \in D /\ <<0, s>>[2] = s
      BY <1>1
    <3>2. t[<<0, s>>] = Grown(0, ns, as, 0, <<0, s>>[2])
      BY <3>1, Zenon
    <3> QED BY <3>1, <3>2
  <2>2. t = [p \in D |-> t[p]]
    OBVIOUS
  <2> HIDE DEF t
  <2>3. GrowsTo(t, ns, as, 0)
    <3>1. ASSUME NEW n \in 0 .. 0, NEW s \in Refs(ns) PROVE t[<<n, s>>] = Grown(t, ns, as, n, s)
      <4>1. n = 0
        OBVIOUS
      <4>2. Grown(0, ns, as, 0, s) = Grown(t, ns, as, 0, s)
        BY DEF Grown
      <4> QED BY <2>1, <4>1, <4>2
    <3> QED BY <3>1 DEF GrowsTo
  <2> QED BY <2>2, <2>3
<1>3. ASSUME NEW k \in S PROVE k + 1 \in S
  <2>0. k + 1 \in Nat
    OBVIOUS
  <2> SUFFICES ASSUME k + 1 <= MaxDepth
               PROVE  \E t : t = [p \in D |-> t[p]] /\ GrowsTo(t, ns, as, k + 1)
    <3> HIDE DEF D
    <3> QED BY <2>0, Zenon
  <2>1. k \in Nat /\ k <= MaxDepth
    BY <1>1
  <2>2. PICK t : GrowsTo(t, ns, as, k)
    BY <2>1
  <2>3. \A n \in 0 .. k + 1 : \A s \in Refs(ns) : <<n, s>> \in D
    <3>1. \A n \in 0 .. k + 1 : n \in 0 .. MaxDepth
      BY <1>1, <2>1
    <3> QED BY <3>1, Zenon
  <2> HIDE DEF D
  <2> QED BY <2>1, <2>2, <2>3, GrowsMore
<1>4. MaxDepth \in S
  <2>1. S \in SUBSET Nat
    OBVIOUS
  <2> HIDE DEF S
  <2> QED BY <1>1, <1>2, <1>3, <2>1, Induction
<1>5. PICK t : t = [p \in D |-> t[p]] /\ GrowsTo(t, ns, as, MaxDepth)
  <2>1. MaxDepth <= MaxDepth
    BY <1>1
  <2> HIDE DEF D
  <2> QED BY <1>4, <2>1
<1>6. Is(t)
  <2>1. ASSUME NEW p \in D PROVE t[p] = Grown(t, ns, as, p[1], p[2])
    <3>1. p[1] \in 0 .. MaxDepth /\ p[2] \in Refs(ns) /\ p = <<p[1], p[2]>>
      OBVIOUS
    <3> QED BY <1>5, <3>1 DEF GrowsTo
  <2> QED BY <1>5, <2>1 DEF Grown
<1>7. Is(tree)
  <2> HIDE DEF Is
  <2> QED BY <1>6
<1>8. \A r : TreeIn(ns, as, r) = tree[<<MaxDepth, r>>]
  BY Zenon DEF TreeIn
<1> HIDE DEF tree
<1>9. GrowsTo(tree, ns, as, MaxDepth)
  <2>1. ASSUME NEW n \in 0 .. MaxDepth, NEW s \in Refs(ns) PROVE tree[<<n, s>>] = Grown(tree, ns, as, n, s)
    <3>1. <<n, s>> \in D /\ <<n, s>>[1] = n /\ <<n, s>>[2] = s
      OBVIOUS
    <3> HIDE DEF D
    <3> QED BY <1>7, <3>1 DEF Grown
  <2> QED BY <2>1 DEF GrowsTo
<1> QED BY <1>8, <1>9

(***************************************************************************)
(* Two heaps.  If what R relates looks the same, and R relates what is     *)
(* below it, the trees there are the same.                                 *)
(***************************************************************************)
LooksLike(ns, as, r, ms, bs, s) ==
  /\ ns[r].kind = ms[s].kind /\ ns[r].val = ms[s].val
  /\ Len(ChildrenIn(ns, as, r)) = Len(ChildrenIn(ms, bs, s))

Alike(ns, as, ms, bs, R) ==
  /\ Heaped(ns, as) /\ Heaped(ms, bs)
  /\ \A r \in Refs(ns) : \A s \in Refs(ms) : <<r, s>> \in R =>
       /\ r <= 0 \/ s <= 0 => r = s
       /\ r > 0 =>
            /\ LooksLike(ns, as, r, ms, bs, s)
            /\ \A i \in 1 .. Len(ChildrenIn(ns, as, r)) :
                 <<ChildrenIn(ns, as, r)[i], ChildrenIn(ms, bs, s)[i]>> \in R

Agree(t, ns, u, ms, R, n) ==
  \A r \in Refs(ns) : \A s \in Refs(ms) : <<r, s>> \in R => t[<<n, r>>] = u[<<n, s>>]

GrowAlike(t, ns, as, u, ms, bs, R) ==
  \A n \in Nat : (n > 0 => Agree(t, ns, u, ms, R, n - 1)) =>
    \A r \in Refs(ns) : \A s \in Refs(ms) : <<r, s>> \in R => Grown(t, ns, as, n, r) = Grown(u, ms, bs, n, s)

LEMMA SameGrown ==
  ASSUME NEW ns, NEW as, NEW ms, NEW bs, NEW R, Alike(ns, as, ms, bs, R),
         NEW t, NEW u
  PROVE  GrowAlike(t, ns, as, u, ms, bs, R)
<1> SUFFICES ASSUME NEW n \in Nat, n > 0 => Agree(t, ns, u, ms, R, n - 1),
                    NEW r \in Refs(ns), NEW s \in Refs(ms), <<r, s>> \in R
             PROVE  Grown(t, ns, as, n, r) = Grown(u, ms, bs, n, s)
  BY Zenon DEF GrowAlike
<1>0. Heaped(ns, as) /\ Heaped(ms, bs)
  BY DEF Alike
<1> DEFINE c == ChildrenIn(ns, as, r)
           d == ChildrenIn(ms, bs, s)
<1>1. CASE r <= 0 \/ s <= 0
  <2>1. r = s /\ r <= 0
    BY <1>1 DEF Alike
  <2> QED BY <2>1 DEF Grown
<1>2. CASE ~(r <= 0) /\ ~(s <= 0) /\ n = 0
  BY <1>2 DEF Grown
<1>3. CASE ~(r <= 0) /\ ~(s <= 0) /\ n # 0
  <2>1. r \in 1 .. Len(ns) /\ s \in 1 .. Len(ms) /\ r > 0 /\ n > 0
    BY <1>0, <1>3, RefsAre DEF Heaped
  <2>2. /\ ns[r].kind = ms[s].kind /\ ns[r].val = ms[s].val /\ Len(c) = Len(d)
        /\ \A i \in 1 .. Len(c) : <<c[i], d[i]>> \in R
    BY <2>1 DEF Alike, LooksLike
  <2>3. /\ DOMAIN c = 1 .. Len(c) /\ \A i \in 1 .. Len(c) : c[i] \in Refs(ns)
        /\ DOMAIN d = 1 .. Len(d) /\ \A i \in 1 .. Len(d) : d[i] \in Refs(ms)
    BY <1>0, <2>1, ChildrenAre
  <2> HIDE DEF c, d
  <2>4. \A i \in DOMAIN c : t[<<n - 1, c[i]>>] = u[<<n - 1, d[i]>>]
    BY <2>1, <2>2, <2>3 DEF Agree
  <2>5. [i \in DOMAIN c |-> t[<<n - 1, c[i]>>]] = [i \in DOMAIN d |-> u[<<n - 1, d[i]>>]]
    BY <2>2, <2>3, <2>4
  <2>6. /\ Grown(t, ns, as, n, r) =
             [kind |-> ns[r].kind, val |-> ns[r].val, kids |-> [i \in DOMAIN c |-> t[<<n - 1, c[i]>>]]]
        /\ Grown(u, ms, bs, n, s) =
             [kind |-> ms[s].kind, val |-> ms[s].val, kids |-> [i \in DOMAIN d |-> u[<<n - 1, d[i]>>]]]
    BY <1>3, Zenon DEF Grown, c, d
  <2> QED BY <2>2, <2>5, <2>6, Zenon
<1> QED BY <1>1, <1>2, <1>3

LEMMA SameTree ==
  ASSUME NEW ns, NEW as, NEW ms, NEW bs, NEW R, Alike(ns, as, ms, bs, R),
         NEW r \in Refs(ns), NEW s \in Refs(ms), <<r, s>> \in R
  PROVE  TreeIn(ns, as, r) = TreeIn(ms, bs, s)
<1>0. Heaped(ns, as) /\ Heaped(ms, bs)
  BY DEF Alike
<1>1. PICK t : GrowsTo(t, ns, as, MaxDepth) /\ \A x : TreeIn(ns, as, x) = t[<<MaxDepth, x>>]
  BY <1>0, TreeGrows
<1>2. PICK u : GrowsTo(u, ms, bs, MaxDepth) /\ \A x : TreeIn(ms, bs, x) = u[<<MaxDepth, x>>]
  BY <1>0, TreeGrows
<1> DEFINE Same(n) == Agree(t, ns, u, ms, R, n)
           S == {n \in Nat : n <= MaxDepth => Same(n)}
<1>3. MaxDepth \in Nat
  BY MemoryAssumption
<1>4. ASSUME NEW n \in 0 .. MaxDepth, n > 0 => Same(n - 1) PROVE Same(n)
  <2> SUFFICES ASSUME NEW x \in Refs(ns), NEW y \in Refs(ms), <<x, y>> \in R PROVE t[<<n, x>>] = u[<<n, y>>]
    BY DEF Agree
  <2>1. n \in Nat
    BY <1>3
  <2> HIDE DEF S
  <2>2. Grown(t, ns, as, n, x) = Grown(u, ms, bs, n, y)
    <3>1. n > 0 => Agree(t, ns, u, ms, R, n - 1)
      BY <1>4
    <3>2. GrowAlike(t, ns, as, u, ms, bs, R)
      BY SameGrown
    <3> QED BY <2>1, <3>1, <3>2, Zenon DEF GrowAlike
  <2>3. t[<<n, x>>] = Grown(t, ns, as, n, x) /\ u[<<n, y>>] = Grown(u, ms, bs, n, y)
    BY <1>1, <1>2, Zenon DEF GrowsTo
  <2> QED BY <2>2, <2>3
<1> HIDE DEF Same
<1>5. 0 \in S
  BY <1>3, <1>4
<1>6. ASSUME NEW n \in S PROVE n + 1 \in S
  <2>1. n + 1 \in Nat /\ (n + 1) - 1 = n /\ n \in Nat
    OBVIOUS
  <2>2. ASSUME n + 1 <= MaxDepth PROVE Same(n + 1)
    <3>1. n + 1 \in 0 .. MaxDepth /\ n <= MaxDepth
      BY <1>3, <2>1, <2>2
    <3>2. Same(n)
      BY <3>1
    <3> QED BY <1>4, <2>1, <3>1, <3>2
  <2> QED BY <2>1, <2>2
<1>7. MaxDepth \in S
  <2>1. S \in SUBSET Nat
    OBVIOUS
  <2> HIDE DEF S
  <2> QED BY <1>3, <1>5, <1>6, <2>1, Induction
<1>8. Same(MaxDepth)
  BY <1>3, <1>7
<1> QED BY <1>1, <1>2, <1>8 DEF Same, Agree

(***************************************************************************)
(* Stacks.                                                                 *)
(***************************************************************************)
LEMMA Pushed ==
  ASSUME NEW s, IsSeq(s), NEW f
  PROVE  /\ IsSeq(Append(s, f)) /\ Len(Append(s, f)) = Len(s) + 1 /\ Len(s) \in Nat
         /\ Append(s, f)[Len(s) + 1] = f
         /\ \A i \in 1 .. Len(s) : Append(s, f)[i] = s[i]
  BY SeqAppend, SeqDomain

LEMMA Popped ==
  ASSUME NEW s, IsSeq(s), s # << >>
  PROVE  /\ IsSeq(Front(s)) /\ Len(Front(s)) = Len(s) - 1 /\ Len(s) \in Nat \ {0}
         /\ \A i \in 1 .. Len(s) - 1 : Front(s)[i] = s[i]
<1> DEFINE t == Front(s)
           m == Len(s) - 1
<1>1. m \in Nat /\ m <= Len(s) /\ Len(s) \in Nat \ {0}
  BY SeqDomain
<1>2. t = SubSeq(s, 1, m)
  BY DEF Front
<1> HIDE DEF t, m
<1>3. IsSeq(t) /\ Len(t) = m /\ \A i \in 1 .. m : t[i] = s[i]
  BY <1>1, <1>2, SeqSub
<1> QED BY <1>1, <1>3 DEF t, m

(***************************************************************************)
(* Reach stays in a set that has what is below its elements.               *)
(***************************************************************************)
LEMMA ReachIn ==
  ASSUME Heaped(nodes, arrays), NEW r \in Refs(nodes), NEW kinds,
         NEW S \in SUBSET (1 .. Len(nodes)), r > 0 => r \in S,
         \A m \in S : nodes[m].kind \in kinds =>
           \A i \in 1 .. Len(ChildrenIn(nodes, arrays, m)) :
             ChildrenIn(nodes, arrays, m)[i] > 0 => ChildrenIn(nodes, arrays, m)[i] \in S
  PROVE  Reach(r, kinds) \subseteq S
<1> DEFINE N == Len(nodes)
           Down(s) == UNION {ToSet(ChildrenIn(nodes, arrays, m)) : m \in {k \in s : k > 0 /\ nodes[k].kind \in kinds}}
           Is(t) == t = [n \in 0 .. N |-> IF n = 0 THEN {r} ELSE Down(t[n - 1])]
           layer == CHOOSE t : Is(t)
           V == {0, -1, -2} \cup S
           X == SUBSET V
<1>1. N \in Nat /\ DOMAIN nodes = 1 .. N /\ \A x : x \in Refs(nodes) <=> x \in {0, -1, -2} \cup 1 .. N
  BY RefsAre, SeqDomain DEF Heaped
<1>2. ASSUME NEW s \in X PROVE Down(s) \in X
  <2>1. ASSUME NEW m \in s, m > 0, nodes[m].kind \in kinds PROVE ToSet(ChildrenIn(nodes, arrays, m)) \subseteq V
    <3> DEFINE c == ChildrenIn(nodes, arrays, m)
    <3>1. m \in S /\ m \in 1 .. Len(nodes)
      BY <2>1
    <3>2. DOMAIN c = 1 .. Len(c) /\ \A i \in 1 .. Len(c) : c[i] \in Refs(nodes) /\ (c[i] > 0 => c[i] \in S)
      BY <2>1, <3>1, ChildrenAre
    <3> HIDE DEF c
    <3>3. \A i \in 1 .. Len(c) : c[i] \in V
      BY <1>1, <3>2
    <3>4. ToSet(c) \subseteq V
      BY <3>2, <3>3 DEF ToSet
    <3> QED BY <3>4 DEF c
  <2> QED BY <2>1
<1>3. {r} \in X
  BY <1>1
<1> HIDE DEF Down, V
<1>4. \E t : Is(t)
  <2> DEFINE G == [pair \in X \X {0} |-> Down(pair[1])]
             v == [i \in 1 .. N |-> 0]
  <2>1. G \in [X \X {0} -> X] /\ \A x \in X : G[<<x, 0>>] = Down(x)
    BY <1>2
  <2>2. Exchange(G, X, {0}) /\ AreIn(v, N, {0})
    BY DEF Exchange, AreIn
  <2>3. \A i \in 1 .. N : v[i] = 0
    OBVIOUS
  <2> HIDE DEF G, X, v, N
  <2>4. PICK t \in [0 .. N -> X] : IsFold(G, X, {r}, v, N, t)
    BY <1>1, <1>3, <2>1, <2>2, FoldExists
  <2>5. t[0] = {r} /\ \A i \in 1 .. N : t[i] = G[<<t[i - 1], 0>>]
    BY <1>1, <2>3, <2>4 DEF IsFold
  <2>6. \A i \in 0 .. N : t[i] = IF i = 0 THEN {r} ELSE Down(t[i - 1])
    <3>1. \A i \in 1 .. N : t[i - 1] \in X
      BY <1>1, <2>4
    <3>2. \A i \in 1 .. N : t[i] = Down(t[i - 1])
      BY <2>1, <2>5, <3>1
    <3> QED BY <1>1, <2>5, <3>2
  <2>7. t = [n \in 0 .. N |-> t[n]]
    OBVIOUS
  <2>8. Is(t)
    BY <2>6, <2>7
  <2> QED BY <2>8
<1>5. Is(layer)
  <2> HIDE DEF Is
  <2> QED BY <1>4
<1>6. Reach(r, kinds) = (UNION {layer[n] : n \in 0 .. N}) \cap DOMAIN nodes
  BY Zenon DEF Reach, Down
<1> HIDE DEF layer, N
<1>7. layer[0] = {r} /\ \A n \in 1 .. N : layer[n] = Down(layer[n - 1])
  <2>1. \A n \in 0 .. N : layer[n] = IF n = 0 THEN {r} ELSE Down(layer[n - 1])
    BY <1>5, Zenon
  <2>2. 0 \in 0 .. N /\ \A n \in 1 .. N : n # 0 /\ n \in 0 .. N
    BY <1>1
  <2> QED BY <2>1, <2>2
<1> DEFINE T == {n \in Nat : n <= N => layer[n] \in X}
<1>8. T \in SUBSET Nat /\ 0 \in T /\ \A n \in T : n + 1 \in T
  BY <1>1, <1>2, <1>3, <1>7
<1>9. \A n \in 0 .. N : layer[n] \in X
  <2>1. \A n \in Nat : n \in T
    <3> HIDE DEF T
    <3> QED BY <1>8, Induction
  <2> QED BY <1>1, <2>1
<1>10. UNION {layer[n] : n \in 0 .. N} \subseteq V
  BY <1>9
<1>11. (UNION {layer[n] : n \in 0 .. N}) \cap DOMAIN nodes \subseteq V \cap 1 .. N
  BY <1>1, <1>10
<1>12. V \cap 1 .. N \subseteq S
  BY DEF V
<1> QED BY <1>6, <1>11, <1>12

(***************************************************************************)
(* Types.  A frame is at a child while that is cloned, and past the last   *)
(* one at the most.                                                        *)
(***************************************************************************)
Below(ns, as, r) == as[ns[r].kids]

IsFrame(ns, as, f) ==
  /\ f = [from |-> f.from, to |-> f.to, at |-> f.at]
  /\ f.from \in 1 .. Len(ns) /\ f.to \in 1 .. Len(ns)
  /\ ns[f.from].kind = ns[f.to].kind /\ ns[f.from].kind \notin Leaves
  /\ Len(Below(ns, as, f.from)) = Len(Below(ns, as, f.to))
  /\ f.at \in 1 .. Len(Below(ns, as, f.from)) + 1

Typing ==
  /\ Heaped(nodes, arrays) /\ IsSeq(stack)
  /\ original \in Trees /\ root \in Refs(nodes) /\ ref \in Refs(nodes)
  /\ mode \in {"call", "loop", "return", "done", "panic"}
  /\ mode = "loop" => stack # << >>
  /\ mode = "done" => stack = << >>
  /\ \A k \in 1 .. Len(stack) :
       /\ IsFrame(nodes, arrays, stack[k])
       /\ k < Len(stack) \/ mode \in {"call", "return"} =>
            stack[k].at <= Len(Below(nodes, arrays, stack[k].from))

LEMMA Within ==
  ASSUME NEW l \in Nat, NEW m \in Nat, l <= m
  PROVE  /\ \A k \in 0 .. l : k \in 0 .. m
         /\ \A k \in 1 .. l : k \in 1 .. m
         /\ \A k \in 1 .. m : k \in 1 .. l \/ k > l
  OBVIOUS

IsChanged(t, s, i, e) == t = [s EXCEPT ![i] = e]

LEMMA Changed ==
  ASSUME NEW s, IsSeq(s), NEW i \in 1 .. Len(s), NEW e, NEW t, IsChanged(t, s, i, e)
  PROVE  /\ IsSeq(t) /\ Len(t) = Len(s) /\ t[i] = e
         /\ \A j \in 1 .. Len(s) : j # i => t[j] = s[j]
<1>1. IsSeq(t) /\ Len(t) = Len(s)
  BY SeqExcept, Zenon DEF IsChanged
<1>2. t[i] = e /\ \A j \in 1 .. Len(s) : j # i => t[j] = s[j]
  BY SeqExcept DEF IsChanged
<1> QED BY <1>1, <1>2

(* The heap gets new nodes and arrays.                                     *)
Extends(t, s) == IsSeq(t) /\ Len(s) <= Len(t) /\ \A i \in 1 .. Len(s) : t[i] = s[i]

LEMMA HeapGrows ==
  ASSUME NEW ns, NEW as, Heaped(ns, as), NEW ms, Extends(ms, ns), NEW bs, Extends(bs, as),
         \A r \in 1 .. Len(ms) : r > Len(ns) => IsNode(ms[r], bs),
         \A a \in 1 .. Len(bs) : a > Len(as) => IsSeq(bs[a]) /\ \A i \in 1 .. Len(bs[a]) : bs[a][i] \in Refs(ms)
  PROVE  Heaped(ms, bs) /\ \A r \in Refs(ns) : r \in Refs(ms)
<1>0. Len(as) <= Len(bs)
  BY DEF Extends
<1>1. Len(ns) \in Nat /\ Len(ms) \in Nat /\ Len(as) \in Nat /\ Len(bs) \in Nat
  BY SeqDomain DEF Heaped, Extends
<1>2. \A r \in Refs(ns) : r \in Refs(ms)
  BY <1>1, RefsAre DEF Heaped, Extends
<1>3. ASSUME NEW r \in 1 .. Len(ms) PROVE IsNode(ms[r], bs)
  <2>1. CASE r <= Len(ns)
    <3>1. r \in 1 .. Len(ns) /\ ms[r] = ns[r]
      BY <1>1, <2>1 DEF Extends
    <3>2. IsNode(ns[r], as)
      BY <3>1 DEF Heaped
    <3>3. \A k \in 0 .. Len(as) : k \in 0 .. Len(bs)
      BY <1>0, <1>1, Within, Zenon
    <3> QED BY <3>1, <3>2, <3>3 DEF IsNode
  <2> QED BY <1>1, <2>1
<1>4. ASSUME NEW a \in 1 .. Len(bs) PROVE IsSeq(bs[a]) /\ \A i \in 1 .. Len(bs[a]) : bs[a][i] \in Refs(ms)
  <2>0. a \in 1 .. Len(as) \/ a > Len(as)
    BY <1>0, <1>1, Within, Zenon
  <2>1. CASE a \in 1 .. Len(as)
    <3>2. bs[a] = as[a]
      BY <2>1, Zenon DEF Extends
    <3>3. IsSeq(as[a]) /\ \A i \in 1 .. Len(as[a]) : as[a][i] \in Refs(ns)
      BY <2>1, Zenon DEF Heaped
    <3> QED BY <1>2, <3>2, <3>3
  <2>2. CASE a > Len(as)
    BY <2>2
  <2> QED BY <2>0, <2>1, <2>2
<1> QED BY <1>2, <1>3, <1>4 DEF Heaped, Extends

LEMMA KidsOf ==
  ASSUME Heaped(nodes, arrays), NEW r \in 1 .. Len(nodes), nodes[r].kind \notin Leaves
  PROVE  /\ nodes[r].kids \in 1 .. Len(arrays) /\ nodes[r].kids # 0
         /\ IsSeq(Kids(r)) /\ DOMAIN Kids(r) = 1 .. Len(Kids(r)) /\ Len(Kids(r)) \in Nat
         /\ \A i \in 1 .. Len(Kids(r)) : Kids(r)[i] \in Refs(nodes)
<1>1. nodes[r].kids \in 0 .. Len(arrays) /\ nodes[r].kids # 0 /\ Len(arrays) \in Nat
  BY SeqDomain DEF Heaped, IsNode
<1>2. \A k, l : k # 0 /\ k \in 0 .. l /\ l \in Nat => k \in 1 .. l
  OBVIOUS
<1>3. nodes[r].kids \in 1 .. Len(arrays)
  BY <1>1, <1>2, Zenon
<1> QED BY <1>1, <1>3, SeqDomain DEF Heaped, Kids

LEMMA RefIs ==
  ASSUME Typing
  PROVE  /\ Len(nodes) \in Nat /\ Len(arrays) \in Nat /\ Len(stack) \in Nat
         /\ \A r \in Refs(nodes) : r \in {0, -1, -2} \cup 1 .. Len(nodes)
         /\ ref > 0 => ref \in 1 .. Len(nodes)
  BY RefsAre, SeqDomain DEF Typing, Heaped

(***************************************************************************)
(* What the steps do to the heap and to the stack.                         *)
(***************************************************************************)
LEMMA LeafStep ==
  ASSUME Typing, CloneLeaf
  PROVE  /\ ref \in 1 .. Len(nodes) /\ nodes[ref].kind \in Leaves /\ nodes[ref].kids = 0
         /\ Extends(nodes', nodes) /\ Len(nodes') = Len(nodes) + 1 /\ nodes'[Len(nodes) + 1] = nodes[ref]
         /\ mode = "call" /\ mode' = "return" /\ ref' = Len(nodes) + 1
         /\ UNCHANGED <<arrays, root, original, stack>>
<1>1. ref \in 1 .. Len(nodes) /\ nodes[ref].kind \in Leaves /\ IsSeq(nodes)
  BY RefIs DEF CloneLeaf, Typing, Heaped
<1>2. nodes[ref].kids = 0
  BY <1>1 DEF Typing, Heaped, IsNode
<1>3. nodes' = Append(nodes, nodes[ref])
  BY DEF CloneLeaf
<1>4. Extends(nodes', nodes) /\ Len(nodes') = Len(nodes) + 1 /\ nodes'[Len(nodes) + 1] = nodes[ref]
  BY <1>1, <1>3, Pushed DEF Extends
<1> QED BY <1>1, <1>2, <1>4 DEF CloneLeaf, Return

LEMMA CompositeStep ==
  ASSUME Typing, CloneComposite
  PROVE  /\ ref \in 1 .. Len(nodes) /\ nodes[ref].kind \notin Leaves
         /\ Extends(nodes', nodes) /\ Len(nodes') = Len(nodes) + 1
         /\ \E kids :
              /\ nodes'[Len(nodes) + 1] = [kind |-> nodes[ref].kind, val |-> nodes[ref].val, kids |-> kids]
              /\ nodes[ref].kind = "import" => kids = nodes[ref].kids /\ arrays' = arrays
              /\ nodes[ref].kind # "import" =>
                   /\ kids = Len(arrays) + 1 /\ Len(arrays') = Len(arrays) + 1
                   /\ IsSeq(arrays'[kids]) /\ Len(arrays'[kids]) = Len(Kids(ref))
                   /\ \A i \in 1 .. Len(Kids(ref)) : arrays'[kids][i] \in {0, Kids(ref)[i]}
         /\ Extends(arrays', arrays)
         /\ Extends(stack', stack) /\ Len(stack') = Len(stack) + 1
         /\ stack'[Len(stack) + 1] = [from |-> ref, to |-> Len(nodes) + 1, at |-> 1]
         /\ mode = "call" /\ mode' = "loop"
         /\ UNCHANGED <<root, original, ref>>
<1>1. /\ ref \in 1 .. Len(nodes) /\ nodes[ref].kind \notin Leaves
      /\ IsSeq(nodes) /\ IsSeq(arrays) /\ IsSeq(stack) /\ Len(arrays) \in Nat
  BY RefIs DEF CloneComposite, Typing, Heaped
<1> DEFINE kids == Children(ref).kids
<1>2. /\ nodes' = Append(nodes, [nodes[ref] EXCEPT !.kids = kids])
      /\ arrays' = Children(ref).arrays
      /\ stack' = Append(stack, [from |-> ref, to |-> Len(nodes) + 1, at |-> 1])
  BY DEF CloneComposite
<1>3. IsNode(nodes[ref], arrays)
  BY <1>1 DEF Typing, Heaped
<1>4. [nodes[ref] EXCEPT !.kids = kids] = [kind |-> nodes[ref].kind, val |-> nodes[ref].val, kids |-> kids]
  <2>1. nodes[ref] = [kind |-> nodes[ref].kind, val |-> nodes[ref].val, kids |-> nodes[ref].kids]
    BY <1>3 DEF IsNode
  <2> HIDE DEF kids
  <2> QED BY <2>1
<1>5. IsSeq(Kids(ref)) /\ DOMAIN Kids(ref) = 1 .. Len(Kids(ref)) /\ Len(Kids(ref)) \in Nat
  BY <1>1, KidsOf DEF Typing
<1>8. /\ ref \in 1 .. Len(nodes) /\ nodes[ref].kind \notin Leaves
      /\ Extends(nodes', nodes) /\ Len(nodes') = Len(nodes) + 1
      /\ nodes'[Len(nodes) + 1] = [kind |-> nodes[ref].kind, val |-> nodes[ref].val, kids |-> kids]
      /\ Extends(stack', stack) /\ Len(stack') = Len(stack) + 1
      /\ stack'[Len(stack) + 1] = [from |-> ref, to |-> Len(nodes) + 1, at |-> 1]
      /\ mode = "call" /\ mode' = "loop"
      /\ UNCHANGED <<root, original, ref>>
  <2> DEFINE n == [kind |-> nodes[ref].kind, val |-> nodes[ref].val, kids |-> kids]
             f == [from |-> ref, to |-> Len(nodes) + 1, at |-> 1]
  <2> HIDE DEF n, f
  <2>1. nodes' = Append(nodes, n) /\ stack' = Append(stack, f)
    BY <1>2, <1>4 DEF n, f
  <2>2. Extends(nodes', nodes) /\ Len(nodes') = Len(nodes) + 1 /\ nodes'[Len(nodes) + 1] = n
    BY <1>1, <2>1, Pushed DEF Extends
  <2>3. Extends(stack', stack) /\ Len(stack') = Len(stack) + 1 /\ stack'[Len(stack) + 1] = f
    BY <1>1, <2>1, Pushed DEF Extends
  <2> QED BY <1>1, <2>2, <2>3 DEF CloneComposite, n, f
<1>6. CASE nodes[ref].kind = "import"
  <2>1. kids = nodes[ref].kids /\ arrays' = arrays
    <3>1. Children(ref) = SameSlice(nodes[ref].kids)
      BY <1>6 DEF Children, Fielded, Slices
    <3> QED BY <1>2, <3>1 DEF SameSlice
  <2>2. Extends(arrays', arrays)
    BY <1>1, <2>1 DEF Extends
  <2> HIDE DEF kids
  <2> QED BY <1>6, <1>8, <2>1, <2>2
<1>7. CASE nodes[ref].kind # "import"
  <2>1. PICK new : /\ kids = Len(arrays) + 1 /\ arrays' = Append(arrays, new)
                   /\ IsSeq(new) /\ Len(new) = Len(Kids(ref))
                   /\ \A i \in 1 .. Len(Kids(ref)) : new[i] \in {0, Kids(ref)[i]}
    <3>1. CASE nodes[ref].kind \in Fielded
      <4>0. Children(ref) = CopiedFields(nodes[ref].kids)
        <5>1. nodes[ref].kind \notin Slices /\ nodes[ref].kind # "import"
          BY <3>1 DEF Slices, Fielded
        <5> QED BY <3>1, <5>1, Zenon DEF Children
      <4>1. kids = Len(arrays) + 1 /\ arrays' = Append(arrays, Kids(ref))
        BY <1>2, <4>0 DEF CopiedFields, Kids
      <4> QED BY <1>5, <4>1
    <3>2. CASE nodes[ref].kind \in Slices \ {"import"}
      <4>1. nodes[ref].kind \notin Fielded
        BY <3>2 DEF Slices, Fielded
      <4> DEFINE new == [i \in DOMAIN Kids(ref) |-> Nothing]
      <4>2. kids = Len(arrays) + 1 /\ arrays' = Append(arrays, new)
        BY <1>2, <1>7, <3>2, <4>1 DEF Children, cloneSlice, Kids
      <4>3. new \in Seq({0}) /\ Len(new) = Len(Kids(ref)) /\ \A i \in 1 .. Len(Kids(ref)) : new[i] = 0
        BY <1>5 DEF Nothing
      <4> HIDE DEF new, kids
      <4>4. IsSeq(new)
        BY <4>3 DEF IsSeq
      <4> QED BY <4>2, <4>3, <4>4
    <3>3. nodes[ref].kind \in Kinds
      BY <1>3 DEF IsNode
    <3> QED BY <1>1, <1>7, <3>1, <3>2, <3>3 DEF Kinds
  <2> HIDE DEF kids
  <2>2. /\ Extends(arrays', arrays) /\ Len(arrays') = Len(arrays) + 1 /\ arrays'[kids] = new
    BY <1>1, <2>1, Pushed DEF Extends
  <2>3. IsSeq(arrays'[kids]) /\ Len(arrays'[kids]) = Len(Kids(ref))
        /\ \A i \in 1 .. Len(Kids(ref)) : arrays'[kids][i] \in {0, Kids(ref)[i]}
    BY <2>1, <2>2
  <2> QED BY <1>7, <1>8, <2>1, <2>2, <2>3
<1> QED BY <1>6, <1>7

LEMMA TopIs ==
  ASSUME Typing, stack # << >>
  PROVE  /\ Len(stack) \in 1 .. Len(stack) /\ Len(stack) \in Nat \ {0} /\ Top = stack[Len(stack)] /\ IsFrame(nodes, arrays, Top)
         /\ Top.from \in 1 .. Len(nodes) /\ Top.to \in 1 .. Len(nodes)
         /\ nodes[Top.from].kids \in 1 .. Len(arrays) /\ nodes[Top.to].kids \in 1 .. Len(arrays)
         /\ DOMAIN Kids(Top.from) = 1 .. Len(Kids(Top.from)) /\ Len(Kids(Top.from)) \in Nat
         /\ \A i \in 1 .. Len(Kids(Top.from)) : Kids(Top.from)[i] \in Refs(nodes)
         /\ Len(arrays[nodes[Top.to].kids]) = Len(Kids(Top.from))
         /\ Top.at \in 1 .. Len(Kids(Top.from)) + 1
<1>1. Len(stack) \in Nat \ {0} /\ Len(stack) \in 1 .. Len(stack) /\ Top = stack[Len(stack)]
  BY SeqDomain DEF Typing, Top
<1>2. IsFrame(nodes, arrays, Top)
  BY <1>1 DEF Typing
<1>3. Top.from \in 1 .. Len(nodes) /\ Top.to \in 1 .. Len(nodes) /\ nodes[Top.from].kind \notin Leaves
      /\ nodes[Top.to].kind \notin Leaves /\ Top.at \in 1 .. Len(Kids(Top.from)) + 1
      /\ Len(Kids(Top.from)) = Len(Kids(Top.to))
  BY <1>2 DEF IsFrame, Below, Kids
<1>4. Heaped(nodes, arrays)
  BY DEF Typing
<1> QED BY <1>1, <1>2, <1>3, <1>4, KidsOf DEF Kids

LEMMA StoreStep ==
  ASSUME Typing, StoreChild
  PROVE  LET a == nodes[Top.to].kids IN
         /\ stack # << >> /\ a \in 1 .. Len(arrays) /\ Top.at \in 1 .. Len(arrays[a])
         /\ IsSeq(arrays') /\ Len(arrays') = Len(arrays)
         /\ \A b \in 1 .. Len(arrays) : b # a => arrays'[b] = arrays[b]
         /\ IsSeq(arrays'[a]) /\ Len(arrays'[a]) = Len(arrays[a]) /\ arrays'[a][Top.at] = ref
         /\ \A i \in 1 .. Len(arrays[a]) : i # Top.at => arrays'[a][i] = arrays[a][i]
         /\ IsSeq(stack') /\ Len(stack') = Len(stack)
         /\ \A k \in 1 .. Len(stack) : k # Len(stack) => stack'[k] = stack[k]
         /\ stack'[Len(stack)] = [from |-> Top.from, to |-> Top.to, at |-> Top.at + 1]
         /\ mode = "return" /\ mode' = "loop" /\ UNCHANGED <<nodes, root, original, ref>>
<1> DEFINE a == nodes[Top.to].kids
           n == Len(stack)
           new == [arrays[a] EXCEPT ![Top.at] = ref]
           f == [Top EXCEPT !.at = Top.at + 1]
<1>1. stack # << >> /\ mode = "return" /\ mode' = "loop" /\ UNCHANGED <<nodes, root, original, ref>>
      /\ IsChanged(arrays', arrays, a, new) /\ IsChanged(stack', stack, n, f)
      /\ IsChanged(new, arrays[a], Top.at, ref)
  BY DEF StoreChild, Top, IsChanged
<1>2. /\ a \in 1 .. Len(arrays) /\ Len(arrays[a]) = Len(Kids(Top.from)) /\ n \in 1 .. Len(stack)
      /\ Top.at \in 1 .. Len(Kids(Top.from)) + 1 /\ Len(Kids(Top.from)) \in Nat
      /\ IsSeq(arrays) /\ IsSeq(stack) /\ IsSeq(arrays[a])
  BY <1>1, TopIs DEF Typing, Heaped
<1>3. Top.at <= Len(Kids(Top.from))
  BY <1>1, <1>2 DEF Typing, Top, Below, Kids
<1>4. Top.at \in 1 .. Len(arrays[a])
  BY <1>2, <1>3
<1>5. f = [from |-> Top.from, to |-> Top.to, at |-> Top.at + 1]
  <2>1. Top = [from |-> Top.from, to |-> Top.to, at |-> Top.at]
    BY <1>1, TopIs DEF IsFrame
  <2> QED BY <2>1
<1> HIDE DEF f, new, a, n
<1>6. /\ IsSeq(arrays') /\ Len(arrays') = Len(arrays) /\ arrays'[a] = new
      /\ \A b \in 1 .. Len(arrays) : b # a => arrays'[b] = arrays[b]
  BY <1>1, <1>2, Changed
<1>7. /\ IsSeq(stack') /\ Len(stack') = Len(stack) /\ stack'[n] = f
      /\ \A k \in 1 .. Len(stack) : k # n => stack'[k] = stack[k]
  BY <1>1, <1>2, Changed
<1>8. /\ IsSeq(new) /\ Len(new) = Len(arrays[a]) /\ new[Top.at] = ref
      /\ \A i \in 1 .. Len(arrays[a]) : i # Top.at => new[i] = arrays[a][i]
  BY <1>1, <1>2, <1>4, Changed
<1> QED BY <1>1, <1>2, <1>4, <1>5, <1>6, <1>7, <1>8 DEF a, n

LEMMA PopStep ==
  ASSUME Typing, EndOfChildren
  PROVE  /\ stack # << >> /\ Top.at > Len(arrays[nodes[Top.to].kids])
         /\ IsSeq(stack') /\ Len(stack') = Len(stack) - 1 /\ \A k \in 1 .. Len(stack') : stack'[k] = stack[k]
         /\ mode = "loop" /\ mode' = "return" /\ ref' = Top.to /\ UNCHANGED <<nodes, arrays, root, original>>
<1>1. stack # << >> /\ Top.at \notin DOMAIN Kids(Top.from) /\ stack' = Front(stack)
      /\ mode = "loop" /\ mode' = "return" /\ ref' = Top.to /\ UNCHANGED <<nodes, arrays, root, original>>
  BY DEF EndOfChildren, Typing, Return
<1>2. Top.at > Len(arrays[nodes[Top.to].kids])
  BY <1>1, TopIs
<1>3. IsSeq(stack)
  BY DEF Typing
<1> QED BY <1>1, <1>2, <1>3, Popped

LEMMA FrameStays ==
  ASSUME NEW ns, NEW as, Heaped(ns, as), NEW f, IsFrame(ns, as, f),
         NEW ms, Extends(ms, ns), NEW bs, \A a \in 1 .. Len(as) : Len(bs[a]) = Len(as[a])
  PROVE  IsFrame(ms, bs, f) /\ Len(Below(ms, bs, f.from)) = Len(Below(ns, as, f.from))
<1>1. Len(ns) \in Nat /\ Len(ms) \in Nat /\ Len(ns) <= Len(ms) /\ Len(as) \in Nat
  BY SeqDomain DEF Heaped, Extends
<1>2. f.from \in 1 .. Len(ns) /\ f.to \in 1 .. Len(ns)
      /\ ns[f.from].kind \notin Leaves /\ ns[f.to].kind \notin Leaves
  BY DEF IsFrame
<1>3. \A r \in 1 .. Len(ns) : ms[r] = ns[r] /\ r \in 1 .. Len(ms)
  BY <1>1, Within DEF Extends
<1>4. ASSUME NEW r \in 1 .. Len(ns), ns[r].kind \notin Leaves PROVE Len(Below(ms, bs, r)) = Len(Below(ns, as, r))
  <2>1. ns[r].kids \in 0 .. Len(as) /\ ns[r].kids # 0
    BY <1>4 DEF Heaped, IsNode
  <2>2. \A k, l : k # 0 /\ k \in 0 .. l /\ l \in Nat => k \in 1 .. l
    OBVIOUS
  <2>3. ns[r].kids \in 1 .. Len(as)
    BY <1>1, <2>1, <2>2, Zenon
  <2> QED BY <1>3, <2>3 DEF Below
<1> QED BY <1>2, <1>3, <1>4 DEF IsFrame

LEMMA TypingInit ==
  ASSUME Init PROVE Typing
<1>1. Heaped(nodes, arrays) /\ root \in Refs(nodes)
  BY MemoryAssumption, HeapIsHeaped DEF Init
<1> QED BY <1>1, SeqOfSome, SeqDomain DEF Init, Typing

LEMMA TypingStep ==
  ASSUME Typing, [Next]_vars PROVE Typing'
<1>0. /\ Heaped(nodes, arrays) /\ IsSeq(nodes) /\ IsSeq(arrays) /\ IsSeq(stack)
      /\ Len(nodes) \in Nat /\ Len(arrays) \in Nat /\ Len(stack) \in Nat
      /\ original \in Trees /\ root \in Refs(nodes) /\ ref \in Refs(nodes)
      /\ \A k \in 1 .. Len(stack) : IsFrame(nodes, arrays, stack[k])
  BY RefIs DEF Typing, Heaped
<1>10. original' = original
  BY DEF Next, CloneHole, ClonePanics, CloneLeaf, CloneComposite, CloneChild, StoreChild, EndOfChildren, EndOfClone, vars
<1>1. CASE CloneHole
  BY <1>1 DEF CloneHole, Return, Typing
<1>2. CASE ClonePanics
  BY <1>2 DEF ClonePanics, Typing
<1>3. CASE CloneLeaf
  <2>1. /\ ref \in 1 .. Len(nodes) /\ Extends(nodes', nodes) /\ Len(nodes') = Len(nodes) + 1
        /\ nodes'[Len(nodes) + 1] = nodes[ref] /\ mode = "call" /\ mode' = "return" /\ ref' = Len(nodes) + 1
        /\ arrays' = arrays /\ root' = root /\ stack' = stack
    BY <1>3, LeafStep
  <2>2. Heaped(nodes', arrays') /\ \A r \in Refs(nodes) : r \in Refs(nodes')
    <3>1. \A r \in 1 .. Len(nodes') : r > Len(nodes) => IsNode(nodes'[r], arrays')
      BY <1>0, <2>1 DEF Heaped
    <3>2. Extends(arrays', arrays) /\ \A a \in 1 .. Len(arrays') : ~(a > Len(arrays))
      BY <1>0, <2>1 DEF Extends
    <3> QED BY <1>0, <2>1, <3>1, <3>2, HeapGrows
  <2>3. ref' \in Refs(nodes')
    BY <1>0, <2>1, RefsAre DEF Extends
  <2>4. \A k \in 1 .. Len(stack) :
          /\ IsFrame(nodes', arrays', stack[k])
          /\ Len(Below(nodes', arrays', stack[k].from)) = Len(Below(nodes, arrays, stack[k].from))
    BY <1>0, <2>1, FrameStays
  <2> QED BY <1>0, <1>10, <2>1, <2>2, <2>3, <2>4 DEF Typing
<1>4. CASE CloneComposite
  <2> DEFINE n == Len(nodes) + 1
             f == [from |-> ref, to |-> n, at |-> 1]
  <2>1. /\ ref \in 1 .. Len(nodes) /\ nodes[ref].kind \notin Leaves
        /\ Extends(nodes', nodes) /\ Len(nodes') = n /\ Extends(arrays', arrays)
        /\ Extends(stack', stack) /\ Len(stack') = Len(stack) + 1 /\ stack'[Len(stack) + 1] = f
        /\ mode = "call" /\ mode' = "loop" /\ root' = root /\ ref' = ref
    BY <1>4, CompositeStep
  <2>2. PICK kids :
          /\ nodes'[n] = [kind |-> nodes[ref].kind, val |-> nodes[ref].val, kids |-> kids]
          /\ nodes[ref].kind = "import" => kids = nodes[ref].kids /\ arrays' = arrays
          /\ nodes[ref].kind # "import" =>
               /\ kids = Len(arrays) + 1 /\ Len(arrays') = Len(arrays) + 1
               /\ IsSeq(arrays'[kids]) /\ Len(arrays'[kids]) = Len(Kids(ref))
               /\ \A i \in 1 .. Len(Kids(ref)) : arrays'[kids][i] \in {0, Kids(ref)[i]}
    BY <1>4, CompositeStep
  <2>3. /\ nodes[ref].kids \in 1 .. Len(arrays) /\ Len(Kids(ref)) \in Nat
        /\ \A i \in 1 .. Len(Kids(ref)) : Kids(ref)[i] \in Refs(nodes)
    BY <1>0, <2>1, KidsOf
  <2>4. /\ \A k \in 1 .. Len(stack) : stack'[k] = stack[k]
        /\ nodes'[ref] = nodes[ref] /\ n \in 1 .. n /\ ref \in 1 .. n
    BY <1>0, <2>1 DEF Extends
  <2>5. kids \in 1 .. Len(arrays') /\ Len(arrays') \in Nat /\ kids # 0 /\ Len(arrays'[kids]) = Len(Kids(ref))
    BY <1>0, <2>2, <2>3 DEF Kids
  <2>6. Heaped(nodes', arrays') /\ \A r \in Refs(nodes) : r \in Refs(nodes')
    <3>1. ASSUME NEW r \in 1 .. Len(nodes'), r > Len(nodes) PROVE IsNode(nodes'[r], arrays')
      <4>1. r = n
        BY <1>0, <2>1, <3>1
      <4>2. nodes[ref].kind \in Kinds
        BY <1>0, <2>1 DEF Heaped, IsNode
      <4>3. kids \in 0 .. Len(arrays')
        BY <2>5
      <4>4. /\ nodes'[r].kind = nodes[ref].kind /\ nodes'[r].kids = kids
            /\ nodes'[r] = [kind |-> nodes'[r].kind, val |-> nodes'[r].val, kids |-> nodes'[r].kids]
        BY <2>2, <4>1
      <4> QED BY <2>1, <2>5, <4>2, <4>3, <4>4 DEF IsNode
    <3>2. ASSUME NEW a \in 1 .. Len(arrays'), a > Len(arrays)
          PROVE  IsSeq(arrays'[a]) /\ \A i \in 1 .. Len(arrays'[a]) : arrays'[a][i] \in Refs(nodes')
      <4>1. nodes[ref].kind # "import"
        BY <1>0, <2>2, <3>2
      <4>2. a = kids /\ IsSeq(arrays'[kids]) /\ Len(arrays'[kids]) = Len(Kids(ref))
            /\ \A i \in 1 .. Len(Kids(ref)) : arrays'[kids][i] \in {0, Kids(ref)[i]}
        BY <1>0, <2>2, <3>2, <4>1
      <4>3. \A r : r \in Refs(nodes) \/ r = 0 => r \in Refs(nodes')
        BY <1>0, <2>1, RefsAre DEF Extends
      <4> QED BY <2>3, <4>2, <4>3
    <3> QED BY <1>0, <2>1, <3>1, <3>2, HeapGrows
  <2>7. \A k \in 1 .. Len(stack) :
          /\ IsFrame(nodes', arrays', stack[k])
          /\ Len(Below(nodes', arrays', stack[k].from)) = Len(Below(nodes, arrays, stack[k].from))
    <3>1. \A a \in 1 .. Len(arrays) : Len(arrays'[a]) = Len(arrays[a])
      BY <2>1 DEF Extends
    <3> QED BY <1>0, <2>1, <3>1, FrameStays
  <2>8. IsFrame(nodes', arrays', f)
    <3>1. f.from = ref /\ f.to = n /\ f.at = 1 /\ f = [from |-> f.from, to |-> f.to, at |-> f.at]
      OBVIOUS
    <3> HIDE DEF f, n
    <3>2. nodes'[n].kind = nodes[ref].kind /\ nodes'[n].kids = kids
      BY <2>2
    <3>3. Below(nodes', arrays', n) = arrays'[kids] /\ Below(nodes', arrays', ref) = Kids(ref)
      <4>1. arrays'[nodes[ref].kids] = arrays[nodes[ref].kids]
        BY <2>1, <2>3 DEF Extends
      <4> QED BY <2>4, <3>2, <4>1 DEF Below, Kids
    <3>4. Len(Below(nodes', arrays', n)) = Len(Below(nodes', arrays', ref)) /\ Len(Kids(ref)) \in Nat
      BY <2>3, <2>5, <3>3
    <3>5. 1 \in 1 .. Len(Kids(ref)) + 1
      BY <3>4
    <3> QED BY <2>1, <2>4, <3>1, <3>2, <3>3, <3>4, <3>5 DEF IsFrame
  <2>9. \A k \in 1 .. Len(stack) + 1 : k \in 1 .. Len(stack) \/ k = Len(stack) + 1
    BY <1>0
  <2>10. \A k \in 1 .. Len(stack') :
           /\ IsFrame(nodes', arrays', stack'[k])
           /\ k < Len(stack') => stack'[k].at <= Len(Below(nodes', arrays', stack'[k].from))
    <3> HIDE DEF f, n
    <3>1. ASSUME NEW k \in 1 .. Len(stack)
          PROVE  /\ IsFrame(nodes', arrays', stack'[k])
                 /\ stack'[k].at <= Len(Below(nodes', arrays', stack'[k].from))
      <4>1. stack[k].at <= Len(Below(nodes, arrays, stack[k].from))
        BY <2>1 DEF Typing
      <4> QED BY <2>4, <2>7, <4>1
    <3>2. IsFrame(nodes', arrays', stack'[Len(stack) + 1])
      BY <2>1, <2>8
    <3>3. ~(Len(stack) + 1 < Len(stack'))
      BY <1>0, <2>1
    <3> QED BY <2>1, <2>9, <3>1, <3>2, <3>3
  <2>11. stack' # << >> /\ IsSeq(stack')
    <3>1. IsSeq(stack') /\ Len(stack') # 0
      BY <1>0, <2>1 DEF Extends
    <3> QED BY <3>1, SeqDomain
  <2>12. root' \in Refs(nodes') /\ ref' \in Refs(nodes')
    BY <1>0, <2>1, <2>6
  <2> HIDE DEF f, n
  <2> QED BY <1>0, <1>10, <2>1, <2>6, <2>10, <2>11, <2>12 DEF Typing
<1>5. CASE CloneChild
  <2>1. stack # << >> /\ mode = "loop" /\ Top.at \in DOMAIN Kids(Top.from)
    BY <1>5 DEF CloneChild, Typing
  <2>2. /\ Top = stack[Len(stack)] /\ Top.at \in 1 .. Len(Kids(Top.from)) /\ Len(Kids(Top.from)) \in Nat
        /\ Kids(Top.from)[Top.at] \in Refs(nodes)
    BY <2>1, TopIs
  <2>3. Top.at <= Len(Below(nodes, arrays, Top.from))
    BY <2>2 DEF Below, Kids
  <2>4. \A k \in 1 .. Len(stack) : k < Len(stack) \/ k = Len(stack)
    BY <1>0
  <2>5. /\ mode' = "call" /\ ref' = Kids(Top.from)[Top.at]
        /\ nodes' = nodes /\ arrays' = arrays /\ root' = root /\ stack' = stack
    BY <1>5 DEF CloneChild
  <2>6. \A k \in 1 .. Len(stack) : stack[k].at <= Len(Below(nodes, arrays, stack[k].from))
    BY <2>2, <2>3, <2>4 DEF Typing
  <2> QED BY <1>0, <1>10, <2>2, <2>5, <2>6 DEF Typing
<1>6. CASE StoreChild
  <2> DEFINE a == nodes[Top.to].kids
  <2>1. /\ stack # << >> /\ a \in 1 .. Len(arrays) /\ Top.at \in 1 .. Len(arrays[a])
        /\ IsSeq(arrays') /\ Len(arrays') = Len(arrays)
        /\ \A b \in 1 .. Len(arrays) : b # a => arrays'[b] = arrays[b]
        /\ IsSeq(arrays'[a]) /\ Len(arrays'[a]) = Len(arrays[a]) /\ arrays'[a][Top.at] = ref
        /\ \A i \in 1 .. Len(arrays[a]) : i # Top.at => arrays'[a][i] = arrays[a][i]
        /\ IsSeq(stack') /\ Len(stack') = Len(stack)
        /\ \A k \in 1 .. Len(stack) : k # Len(stack) => stack'[k] = stack[k]
        /\ stack'[Len(stack)] = [from |-> Top.from, to |-> Top.to, at |-> Top.at + 1]
        /\ mode = "return" /\ mode' = "loop" /\ nodes' = nodes /\ root' = root /\ ref' = ref
    BY <1>6, StoreStep
  <2>2. Len(stack) \in 1 .. Len(stack) /\ Top = stack[Len(stack)] /\ Len(stack) # 0
        /\ Len(arrays[a]) = Len(Kids(Top.from)) /\ Len(Kids(Top.from)) \in Nat
    BY <2>1, TopIs
  <2> HIDE DEF a
  <2>3. \A b \in 1 .. Len(arrays) : Len(arrays'[b]) = Len(arrays[b])
    BY <2>1
  <2>4. Heaped(nodes', arrays')
    <3>1. ASSUME NEW b \in 1 .. Len(arrays)
          PROVE  IsSeq(arrays'[b]) /\ \A i \in 1 .. Len(arrays'[b]) : arrays'[b][i] \in Refs(nodes)
      <4>1. IsSeq(arrays[b]) /\ \A i \in 1 .. Len(arrays[b]) : arrays[b][i] \in Refs(nodes)
        BY <1>0 DEF Heaped
      <4> QED BY <1>0, <2>1, <4>1
    <3>2. \A r \in 1 .. Len(nodes) : IsNode(nodes[r], arrays')
      BY <1>0, <2>1 DEF Heaped, IsNode
    <3> QED BY <1>0, <2>1, <3>1, <3>2 DEF Heaped
  <2>5. Extends(nodes', nodes)
    BY <1>0, <2>1 DEF Extends
  <2>6. \A f : IsFrame(nodes, arrays, f) =>
          /\ IsFrame(nodes', arrays', f)
          /\ Len(Below(nodes', arrays', f.from)) = Len(Below(nodes, arrays, f.from))
    BY <1>0, <2>3, <2>5, FrameStays
  <2>7. ASSUME NEW k \in 1 .. Len(stack)
        PROVE  /\ IsFrame(nodes', arrays', stack'[k])
               /\ k < Len(stack) => stack'[k].at <= Len(Below(nodes', arrays', stack'[k].from))
    <3>1. IsFrame(nodes, arrays, stack[k])
      BY <1>0
    <3>2. CASE k # Len(stack)
      <4>1. k < Len(stack)
        BY <1>0, <3>2
      <4>2. stack'[k] = stack[k] /\ stack[k].at <= Len(Below(nodes, arrays, stack[k].from))
        BY <2>1, <3>2, <4>1 DEF Typing
      <4> QED BY <2>6, <3>1, <4>2
    <3>3. CASE k = Len(stack)
      <4> DEFINE g == stack'[k]
      <4>1. g = [from |-> Top.from, to |-> Top.to, at |-> Top.at + 1]
        BY <2>1, <3>3
      <4>2. IsFrame(nodes', arrays', Top)
        BY <2>2, <2>6, <3>1, <3>3
      <4>3. Len(Below(nodes', arrays', Top.from)) = Len(Kids(Top.from))
        BY <2>2, <2>6, <3>1, <3>3 DEF Below, Kids
      <4>4. Top.at + 1 \in 1 .. Len(Below(nodes', arrays', Top.from)) + 1
        BY <2>1, <2>2, <4>3
      <4>5. g.from = Top.from /\ g.to = Top.to /\ g.at = Top.at + 1 /\ g = [from |-> g.from, to |-> g.to, at |-> g.at]
        BY <4>1
      <4> HIDE DEF g
      <4>6. IsFrame(nodes', arrays', g)
        BY <4>2, <4>4, <4>5 DEF IsFrame
      <4>7. ~(k < Len(stack))
        BY <1>0, <3>3
      <4> QED BY <4>6, <4>7 DEF g
    <3> QED BY <3>2, <3>3
  <2>8. stack' # << >>
    BY <2>1, <2>2, SeqDomain
  <2> QED BY <1>0, <1>10, <2>1, <2>4, <2>7, <2>8 DEF Typing
<1>7. CASE EndOfChildren
  <2>1. /\ stack # << >> /\ IsSeq(stack') /\ Len(stack') = Len(stack) - 1
        /\ \A k \in 1 .. Len(stack') : stack'[k] = stack[k]
        /\ mode' = "return" /\ ref' = Top.to /\ nodes' = nodes /\ arrays' = arrays /\ root' = root
    BY <1>7, PopStep
  <2>2. Top.to \in Refs(nodes)
    BY <1>0, <2>1, TopIs, RefsAre
  <2>3. \A k \in 1 .. Len(stack') : k \in 1 .. Len(stack) /\ k < Len(stack)
    BY <1>0, <2>1
  <2> QED BY <1>0, <1>10, <2>1, <2>2, <2>3 DEF Typing
<1>8. CASE EndOfClone
  BY <1>8 DEF EndOfClone, Typing
<1>9. CASE UNCHANGED vars
  BY <1>9 DEF vars, Typing
<1> QED BY <1>1, <1>2, <1>3, <1>4, <1>5, <1>6, <1>7, <1>8, <1>9 DEF Next

(***************************************************************************)
(* Every node is a copy of one of the original, N gives which.  M is the   *)
(* memory the original lies in.  A slot holds a finished copy of what is   *)
(* in the slot of its source, or a frame has still to fill it.             *)
(***************************************************************************)
Done(st, v) == \A k \in 1 .. Len(st) : st[k].to # v

Matches(ns, st, N, v, w) ==
  IF v <= 0 THEN w = v ELSE v \in 1 .. Len(ns) /\ Done(st, v) /\ N[v] = w

Pending(ns, st, a, i) ==
  \E k \in 1 .. Len(st) : ns[st[k].to].kind # "import" /\ ns[st[k].to].kids = a /\ st[k].at <= i

Source(M, N, r) == Below(M.nodes, M.arrays, N[r])
Wanted(M, N, st, k) == IF k = 0 THEN M.root ELSE Source(M, N, st[k].from)[st[k].at]

Copied(M, N, ns) ==
  /\ Len(M.nodes) <= Len(ns) /\ \A r \in 1 .. Len(M.nodes) : N[r] = r
  /\ \A r \in 1 .. Len(ns) :
       /\ N[r] \in 1 .. Len(M.nodes)
       /\ ns[r].kind = M.nodes[N[r]].kind /\ ns[r].val = M.nodes[N[r]].val

Slots(M, N, ns, as, st, r) ==
  /\ Len(Below(ns, as, r)) = Len(Source(M, N, r))
  /\ \A i \in 1 .. Len(Below(ns, as, r)) :
       Matches(ns, st, N, Below(ns, as, r)[i], Source(M, N, r)[i]) \/ Pending(ns, st, ns[r].kids, i)

Filled(M, N, ns, as, st) == \A r \in 1 .. Len(ns) : ns[r].kind \notin Leaves => Slots(M, N, ns, as, st, r)

SameSources(M, N, ns) ==
  \A r, s \in 1 .. Len(ns) :
    ns[r].kind \notin Leaves /\ ns[r].kids = ns[s].kids => M.nodes[N[r]].kids = M.nodes[N[s]].kids

FrameCopies(M, N, ns, st, k) ==
  LET f == st[k] IN
  /\ Done(st, f.from) /\ N[f.from] = Wanted(M, N, st, k - 1)
  /\ N[f.to] = Wanted(M, N, st, k - 1) /\ f.to > Len(M.nodes)
  /\ \A l \in 1 .. Len(st) : l # k => st[l].to # f.to
  /\ ns[f.to].kind # "import" => \A r \in 1 .. Len(ns) : r # f.to => ns[r].kids # ns[f.to].kids

Copying(M, N, ns, as, st) ==
  /\ Copied(M, N, ns) /\ Filled(M, N, ns, as, st) /\ SameSources(M, N, ns)
  /\ \A k \in 1 .. Len(st) : FrameCopies(M, N, ns, st, k)

Copies(N) ==
  /\ root = Memory[original].root
  /\ Copying(Memory[original], N, nodes, arrays, stack)
  /\ mode \in {"call", "return", "done"} =>
       Matches(nodes, stack, N, ref, Wanted(Memory[original], N, stack, Len(stack)))

Framed(ns, as, st) == Heaped(ns, as) /\ IsSeq(st) /\ \A k \in 1 .. Len(st) : IsFrame(ns, as, st[k])

(* A node more, the copy of K; and perhaps a frame that is to fill it.     *)
More(ns, as, st, ms, bs, su, K) ==
  /\ Extends(ms, ns) /\ Len(ms) = Len(ns) + 1 /\ Extends(bs, as) /\ Extends(su, st)
  /\ \A k \in 1 .. Len(su) : k > Len(st) => su[k].to = Len(ns) + 1
  /\ K \in 1 .. Len(ns) /\ Done(st, K)
  /\ ms[Len(ns) + 1].kind = ns[K].kind /\ ms[Len(ns) + 1].val = ns[K].val

Also(N, n, r) == [s \in 1 .. n |-> IF s = n THEN r ELSE N[s]]

(* What that leaves as it was.                                             *)
Kept(N, ns, as, st, ms, bs, su, K) ==
  /\ Len(ns) \in Nat /\ Len(st) \in Nat /\ Len(as) \in Nat
  /\ \A r \in 1 .. Len(ns) : r # Len(ns) + 1 /\ r \in 1 .. Len(ms) /\ ms[r] = ns[r]
  /\ \A r \in 1 .. Len(ms) : r \in 1 .. Len(ns) \/ r = Len(ns) + 1
  /\ \A r \in 1 .. Len(ns) : Also(N, Len(ns) + 1, N[K])[r] = N[r]
  /\ Also(N, Len(ns) + 1, N[K])[Len(ns) + 1] = N[K]
  /\ \A k \in 1 .. Len(st) : k \in 1 .. Len(su) /\ su[k] = st[k]
  /\ \A k \in 1 .. Len(su) : k \in 1 .. Len(st) \/ k > Len(st)
  /\ \A r \in 1 .. Len(ns) : ns[r].kind \notin Leaves => Below(ms, bs, r) = Below(ns, as, r)

LEMMA MoreIs ==
  ASSUME NEW ns, NEW as, NEW st, Framed(ns, as, st),
         NEW ms, NEW bs, NEW su, NEW K, More(ns, as, st, ms, bs, su, K), NEW N
  PROVE  Kept(N, ns, as, st, ms, bs, su, K)
<1>1. Len(ns) \in Nat /\ Len(st) \in Nat /\ Len(as) \in Nat /\ Len(su) \in Nat /\ Len(ms) = Len(ns) + 1
      /\ Len(st) <= Len(su)
  BY SeqDomain DEF Framed, Heaped, More, Extends
<1>2. /\ \A r \in 1 .. Len(ns) : r # Len(ns) + 1 /\ r \in 1 .. Len(ms)
      /\ \A r \in 1 .. Len(ms) : r \in 1 .. Len(ns) \/ r = Len(ns) + 1
      /\ \A k \in 1 .. Len(st) : k \in 1 .. Len(su)
      /\ \A k \in 1 .. Len(su) : k \in 1 .. Len(st) \/ k > Len(st)
  BY <1>1
<1>3. /\ \A r \in 1 .. Len(ns) : ms[r] = ns[r]
      /\ \A k \in 1 .. Len(st) : su[k] = st[k]
      /\ \A a \in 1 .. Len(as) : bs[a] = as[a]
  BY DEF More, Extends
<1>4. /\ \A r \in 1 .. Len(ns) : Also(N, Len(ns) + 1, N[K])[r] = N[r]
      /\ Also(N, Len(ns) + 1, N[K])[Len(ns) + 1] = N[K]
  BY <1>1 DEF Also
<1>5. ASSUME NEW r \in 1 .. Len(ns), ns[r].kind \notin Leaves PROVE Below(ms, bs, r) = Below(ns, as, r)
  <2>1. ns[r].kids \in 0 .. Len(as) /\ ns[r].kids # 0
    BY <1>5 DEF Framed, Heaped, IsNode
  <2>2. \A k, l : k # 0 /\ k \in 0 .. l /\ l \in Nat => k \in 1 .. l
    OBVIOUS
  <2>3. ns[r].kids \in 1 .. Len(as)
    BY <1>1, <2>1, <2>2, Zenon
  <2> QED BY <1>3, <2>3 DEF Below
<1> QED BY <1>1, <1>2, <1>3, <1>4, <1>5 DEF Kept

LEMMA MatchesMore ==
  ASSUME NEW ns, NEW as, NEW st, Framed(ns, as, st),
         NEW ms, NEW bs, NEW su, NEW K, More(ns, as, st, ms, bs, su, K), NEW N
  PROVE  /\ \A v \in 1 .. Len(ns) : Done(st, v) => Done(su, v)
         /\ \A v, w : Matches(ns, st, N, v, w) => Matches(ms, su, Also(N, Len(ns) + 1, N[K]), v, w)
         /\ \A r \in 1 .. Len(ns) : \A i :
              Pending(ns, st, ns[r].kids, i) => Pending(ms, su, ms[r].kids, i)
<1> DEFINE N2 == Also(N, Len(ns) + 1, N[K])
<1>0. Kept(N, ns, as, st, ms, bs, su, K)
  BY MoreIs
<1>1. ASSUME NEW v \in 1 .. Len(ns), Done(st, v), NEW k \in 1 .. Len(su) PROVE su[k].to # v
  <2>1. CASE k \in 1 .. Len(st)
    BY <1>0, <1>1, <2>1 DEF Done, Kept
  <2>2. CASE k > Len(st)
    <3>1. su[k].to = Len(ns) + 1
      BY <2>2 DEF More
    <3> QED BY <1>0, <3>1 DEF Kept
  <2> QED BY <1>0, <2>1, <2>2 DEF Kept
<1>2. \A v \in 1 .. Len(ns) : Done(st, v) => Done(su, v)
  BY <1>1 DEF Done
<1>3. \A r \in 1 .. Len(ns) : N2[r] = N[r] /\ r \in 1 .. Len(ms)
  BY <1>0 DEF Kept
<1> HIDE DEF N2
<1>4. \A v, w : Matches(ns, st, N, v, w) => Matches(ms, su, N2, v, w)
  BY <1>2, <1>3 DEF Matches
<1>5. ASSUME NEW r \in 1 .. Len(ns), NEW i, Pending(ns, st, ns[r].kids, i) PROVE Pending(ms, su, ms[r].kids, i)
  <2>1. PICK k \in 1 .. Len(st) : ns[st[k].to].kind # "import" /\ ns[st[k].to].kids = ns[r].kids /\ st[k].at <= i
    BY <1>5 DEF Pending
  <2>2. st[k].to \in 1 .. Len(ns)
    BY DEF Framed, IsFrame
  <2>3. ms[r] = ns[r] /\ ms[st[k].to] = ns[st[k].to] /\ su[k] = st[k] /\ k \in 1 .. Len(su)
    BY <1>0, <2>2 DEF Kept
  <2> QED BY <2>1, <2>3 DEF Pending
<1> QED BY <1>2, <1>4, <1>5 DEF N2

LEMMA CopyingMore ==
  ASSUME NEW M, NEW N, NEW ns, NEW as, NEW st, Framed(ns, as, st), Copying(M, N, ns, as, st),
         NEW ms, NEW bs, NEW su, NEW K, More(ns, as, st, ms, bs, su, K),
         \A k \in 1 .. Len(st) : ns[st[k].to].kind # "import" => ms[Len(ns) + 1].kids # ns[st[k].to].kids
  PROVE  LET N2 == Also(N, Len(ns) + 1, N[K]) IN
         /\ Copied(M, N2, ms)
         /\ \A r \in 1 .. Len(ns) : ns[r].kind \notin Leaves => Slots(M, N2, ms, bs, su, r)
         /\ \A r, s \in 1 .. Len(ns) : ms[r].kind \notin Leaves /\ ms[r].kids = ms[s].kids =>
              M.nodes[N2[r]].kids = M.nodes[N2[s]].kids
         /\ \A k \in 0 .. Len(st) : Wanted(M, N2, su, k) = Wanted(M, N, st, k)
         /\ \A k \in 1 .. Len(st) : FrameCopies(M, N2, ms, su, k)
<1> DEFINE n == Len(ns) + 1
           N2 == Also(N, n, N[K])
<1>0. /\ Kept(N, ns, as, st, ms, bs, su, K)
      /\ \A v \in 1 .. Len(ns) : Done(st, v) => Done(su, v)
      /\ \A v, w : Matches(ns, st, N, v, w) => Matches(ms, su, N2, v, w)
      /\ \A r \in 1 .. Len(ns) : \A i : Pending(ns, st, ns[r].kids, i) => Pending(ms, su, ms[r].kids, i)
  BY MoreIs, MatchesMore
<1>1. /\ Len(ns) \in Nat /\ Len(st) \in Nat /\ Len(ms) = n
      /\ \A r \in 1 .. Len(ns) : r # n /\ r \in 1 .. Len(ms) /\ ms[r] = ns[r] /\ N2[r] = N[r]
      /\ \A r \in 1 .. Len(ms) : r \in 1 .. Len(ns) \/ r = n
      /\ N2[n] = N[K] /\ K \in 1 .. Len(ns)
      /\ \A k \in 1 .. Len(st) : k \in 1 .. Len(su) /\ su[k] = st[k]
      /\ \A k \in 1 .. Len(su) : k \in 1 .. Len(st) \/ su[k].to = n
      /\ \A r \in 1 .. Len(ns) : ns[r].kind \notin Leaves => Below(ms, bs, r) = Below(ns, as, r)
  BY <1>0 DEF Kept, More
<1>2. /\ Copied(M, N, ns) /\ Filled(M, N, ns, as, st) /\ SameSources(M, N, ns)
      /\ \A k \in 1 .. Len(st) : FrameCopies(M, N, ns, st, k)
  BY DEF Copying
<1>3. ms[n].kind = ns[K].kind /\ ms[n].val = ns[K].val
  BY DEF More
<1>4. \A k \in 1 .. Len(st) : st[k].from \in 1 .. Len(ns) /\ st[k].to \in 1 .. Len(ns)
  BY DEF Framed, IsFrame
<1>5. \A k \in 1 .. Len(st) : ns[st[k].to].kind # "import" => ms[n].kids # ns[st[k].to].kids
  OBVIOUS
<1> HIDE DEF n, N2
<1>6. Copied(M, N2, ms)
  <2>1. Len(M.nodes) <= Len(ns) /\ \A r \in 1 .. Len(M.nodes) : N[r] = r
    BY <1>2 DEF Copied
  <2>2. Len(M.nodes) <= Len(ms) /\ \A r \in 1 .. Len(M.nodes) : N2[r] = r
    <3>1. \A r \in 1 .. Len(M.nodes) : r \in 1 .. Len(ns)
      BY <1>1, <2>1
    <3>2. Len(M.nodes) <= n
      BY <1>1, <2>1 DEF n
    <3> QED BY <1>1, <2>1, <3>1, <3>2
  <2>3. ASSUME NEW r \in 1 .. Len(ms)
        PROVE  /\ N2[r] \in 1 .. Len(M.nodes)
               /\ ms[r].kind = M.nodes[N2[r]].kind /\ ms[r].val = M.nodes[N2[r]].val
    <3>1. CASE r \in 1 .. Len(ns)
      BY <1>1, <1>2, <3>1 DEF Copied
    <3>2. CASE r = n
      BY <1>1, <1>2, <1>3, <3>2 DEF Copied
    <3> QED BY <1>1, <3>1, <3>2
  <2> QED BY <2>2, <2>3 DEF Copied
<1>7. ASSUME NEW r \in 1 .. Len(ns), ns[r].kind \notin Leaves PROVE Slots(M, N2, ms, bs, su, r)
  <2>1. Slots(M, N, ns, as, st, r)
    BY <1>2, <1>7 DEF Filled
  <2>2. Below(ms, bs, r) = Below(ns, as, r) /\ Source(M, N2, r) = Source(M, N, r)
    BY <1>1, <1>7 DEF Source
  <2> QED BY <1>0, <2>1, <2>2 DEF Slots
<1>8. ASSUME NEW r \in 1 .. Len(ns), NEW s \in 1 .. Len(ns), ms[r].kind \notin Leaves, ms[r].kids = ms[s].kids
      PROVE  M.nodes[N2[r]].kids = M.nodes[N2[s]].kids
  BY <1>1, <1>2, <1>8 DEF SameSources
<1>9. ASSUME NEW k \in 0 .. Len(st) PROVE Wanted(M, N2, su, k) = Wanted(M, N, st, k)
  <2>1. CASE k = 0
    BY <2>1 DEF Wanted
  <2>2. CASE k # 0
    <3>1. k \in 1 .. Len(st)
      BY <1>1, <2>2
    <3> QED BY <1>1, <1>4, <2>2, <3>1 DEF Wanted, Source
  <2> QED BY <2>1, <2>2
<1>10. ASSUME NEW k \in 1 .. Len(st) PROVE FrameCopies(M, N2, ms, su, k)
  <2> DEFINE f == st[k]
  <2>1. /\ Done(st, f.from) /\ N[f.from] = Wanted(M, N, st, k - 1)
        /\ N[f.to] = Wanted(M, N, st, k - 1) /\ f.to > Len(M.nodes)
        /\ \A l \in 1 .. Len(st) : l # k => st[l].to # f.to
        /\ ns[f.to].kind # "import" => \A r \in 1 .. Len(ns) : r # f.to => ns[r].kids # ns[f.to].kids
    BY <1>2 DEF FrameCopies
  <2>2. su[k] = f /\ f.from \in 1 .. Len(ns) /\ f.to \in 1 .. Len(ns) /\ f.to # n
        /\ (ns[f.to].kind # "import" => ms[n].kids # ns[f.to].kids)
    BY <1>1, <1>4, <1>5
  <2>3. Wanted(M, N2, su, k - 1) = Wanted(M, N, st, k - 1)
    <3>1. k - 1 \in 0 .. Len(st)
      BY <1>1
    <3> QED BY <1>9, <3>1
  <2> HIDE DEF f
  <2>4. Done(su, f.from) /\ N2[f.from] = N[f.from] /\ N2[f.to] = N[f.to] /\ ms[f.to] = ns[f.to]
    BY <1>0, <1>1, <2>1, <2>2
  <2>5. \A l \in 1 .. Len(su) : l # k => su[l].to # f.to
    BY <1>1, <2>1, <2>2
  <2>6. ns[f.to].kind # "import" => \A r \in 1 .. Len(ms) : r # f.to => ms[r].kids # ns[f.to].kids
    BY <1>1, <2>1, <2>2
  <2> QED BY <2>1, <2>2, <2>3, <2>4, <2>5, <2>6 DEF FrameCopies
<1> QED BY <1>6, <1>7, <1>8, <1>9, <1>10 DEF n, N2

LEMMA Frames ==
  ASSUME Typing PROVE Framed(nodes, arrays, stack)
  BY DEF Typing, Framed

LEMMA MemoryIs ==
  ASSUME Typing
  PROVE  LET M == Memory[original] IN
         /\ Heaped(M.nodes, M.arrays) /\ IsSeq(M.nodes) /\ Len(M.nodes) \in Nat
         /\ M.root \in Refs(M.nodes) /\ TreeIn(M.nodes, M.arrays, M.root) = original
<1> DEFINE M == Memory[original]
<1>1. IsHeap(M.nodes, M.arrays) /\ M.root \in Refs(M.nodes) /\ TreeIn(M.nodes, M.arrays, M.root) = original
  BY MemoryAssumption DEF Typing
<1>2. Heaped(M.nodes, M.arrays)
  BY <1>1, HeapIsHeaped
<1> QED BY <1>1, <1>2, SeqDomain DEF Heaped

LEMMA NodesAre ==
  ASSUME NEW ns, NEW as, Heaped(ns, as), NEW r \in 1 .. Len(ns)
  PROVE  /\ ns[r].kids # Len(as) + 1
         /\ ns[r].kind \notin Leaves => ns[r].kids \in 1 .. Len(as) /\ ns[r].kids # 0
<1>1. ns[r].kids \in 0 .. Len(as) /\ (ns[r].kids = 0 <=> ns[r].kind \in Leaves) /\ Len(as) \in Nat
  BY SeqDomain DEF Heaped, IsNode
<1>2. \A k, l : k \in 0 .. l /\ l \in Nat => k # l + 1 /\ (k # 0 => k \in 1 .. l)
  OBVIOUS
<1> QED BY <1>1, <1>2, Zenon

LEMMA LeafCopied ==
  ASSUME Typing, NEW N, Copies(N), CloneLeaf, NEW L, L = Also(N, Len(nodes) + 1, N[ref])
  PROVE  Copies(L)'
<1> DEFINE M == Memory[original]
           n == Len(nodes) + 1
<1>1. /\ ref \in 1 .. Len(nodes) /\ nodes[ref].kind \in Leaves /\ nodes[ref].kids = 0
      /\ Extends(nodes', nodes) /\ Len(nodes') = n /\ nodes'[n] = nodes[ref]
      /\ mode = "call" /\ mode' = "return" /\ ref' = n
      /\ arrays' = arrays /\ root' = root /\ original' = original /\ stack' = stack
  BY LeafStep
<1>2. /\ root = M.root /\ Copying(M, N, nodes, arrays, stack)
      /\ Matches(nodes, stack, N, ref, Wanted(M, N, stack, Len(stack)))
  BY <1>1 DEF Copies
<1>3. /\ Framed(nodes, arrays, stack) /\ Heaped(nodes, arrays) /\ Len(nodes) \in Nat
      /\ Len(stack) \in Nat /\ IsSeq(arrays) /\ IsSeq(stack)
  BY Frames, RefIs DEF Typing, Heaped
<1>4. Done(stack, ref) /\ N[ref] = Wanted(M, N, stack, Len(stack))
  <2>1. ~(ref <= 0)
    BY <1>1, <1>3
  <2> QED BY <1>2, <2>1 DEF Matches
<1>5. \A k \in 1 .. Len(stack) : stack[k].to \in 1 .. Len(nodes) /\ nodes[stack[k].to].kind \notin Leaves
  BY <1>3 DEF Framed, IsFrame
<1>6. More(nodes, arrays, stack, nodes', arrays, stack, ref)
  <2>1. Extends(arrays, arrays) /\ Extends(stack, stack) /\ \A k \in 1 .. Len(stack) : ~(k > Len(stack))
    BY <1>3, SeqDomain DEF Extends
  <2> QED BY <1>1, <1>4, <2>1 DEF More
<1>7. \A k \in 1 .. Len(stack) : nodes'[n].kids # nodes[stack[k].to].kids
  BY <1>1, <1>3, <1>5, NodesAre
<1>8. /\ Copied(M, L, nodes')
      /\ \A r \in 1 .. Len(nodes) : nodes[r].kind \notin Leaves => Slots(M, L, nodes', arrays, stack, r)
      /\ \A r, s \in 1 .. Len(nodes) : nodes'[r].kind \notin Leaves /\ nodes'[r].kids = nodes'[s].kids =>
           M.nodes[L[r]].kids = M.nodes[L[s]].kids
      /\ \A k \in 0 .. Len(stack) : Wanted(M, L, stack, k) = Wanted(M, N, stack, k)
      /\ \A k \in 1 .. Len(stack) : FrameCopies(M, L, nodes', stack, k)
  BY <1>2, <1>3, <1>6, <1>7, CopyingMore
<1>9. /\ \A r \in 1 .. Len(nodes) : r # n /\ nodes'[r] = nodes[r]
      /\ \A r \in 1 .. Len(nodes') : r \in 1 .. Len(nodes) \/ r = n
      /\ L[n] = N[ref]
  <2>1. Kept(N, nodes, arrays, stack, nodes', arrays, stack, ref)
    BY <1>3, <1>6, MoreIs
  <2> QED BY <2>1 DEF Kept
<1> HIDE DEF n, M
<1>10. Filled(M, L, nodes', arrays, stack)
  BY <1>1, <1>8, <1>9 DEF Filled
<1>11. SameSources(M, L, nodes')
  <2> SUFFICES ASSUME NEW r \in 1 .. Len(nodes'), NEW s \in 1 .. Len(nodes'),
                      nodes'[r].kind \notin Leaves, nodes'[r].kids = nodes'[s].kids
               PROVE  M.nodes[L[r]].kids = M.nodes[L[s]].kids
    BY DEF SameSources
  <2>1. r \in 1 .. Len(nodes) /\ nodes'[r] = nodes[r]
    BY <1>1, <1>9
  <2>2. nodes'[r].kids # 0
    BY <1>3, <2>1, NodesAre
  <2>3. s # n
    BY <1>1, <2>2
  <2> QED BY <1>8, <1>9, <2>1, <2>3
<1>12. Matches(nodes', stack, L, n, Wanted(M, L, stack, Len(stack)))
  <2>1. Done(stack, n)
    BY <1>5, <1>9 DEF Done
  <2>2. n \in 1 .. Len(nodes') /\ ~(n <= 0)
    BY <1>1, <1>3 DEF n
  <2>3. Wanted(M, L, stack, Len(stack)) = L[n]
    <3>1. Len(stack) \in 0 .. Len(stack)
      BY <1>3
    <3> QED BY <1>4, <1>8, <1>9, <3>1
  <2> QED BY <2>1, <2>2, <2>3 DEF Matches
<1>13. M = Memory[original'] /\ root' = M.root
  BY <1>1, <1>2 DEF M
<1> QED BY <1>1, <1>8, <1>10, <1>11, <1>12, <1>13 DEF Copies, Copying

LEMMA CompositeCopied ==
  ASSUME Typing, NEW N, Copies(N), CloneComposite, NEW L, L = Also(N, Len(nodes) + 1, N[ref])
  PROVE  Copies(L)'
<1> DEFINE M == Memory[original]
           n == Len(nodes) + 1
           f == [from |-> ref, to |-> n, at |-> 1]
<1>1. /\ ref \in 1 .. Len(nodes) /\ nodes[ref].kind \notin Leaves
      /\ Extends(nodes', nodes) /\ Len(nodes') = n /\ Extends(arrays', arrays)
      /\ Extends(stack', stack) /\ Len(stack') = Len(stack) + 1 /\ stack'[Len(stack) + 1] = f
      /\ mode = "call" /\ mode' = "loop" /\ root' = root /\ original' = original
  BY CompositeStep
<1>2. PICK kids :
        /\ nodes'[n] = [kind |-> nodes[ref].kind, val |-> nodes[ref].val, kids |-> kids]
        /\ nodes[ref].kind = "import" => kids = nodes[ref].kids /\ arrays' = arrays
        /\ nodes[ref].kind # "import" =>
             /\ kids = Len(arrays) + 1 /\ Len(arrays') = Len(arrays) + 1
             /\ IsSeq(arrays'[kids]) /\ Len(arrays'[kids]) = Len(Kids(ref))
             /\ \A i \in 1 .. Len(Kids(ref)) : arrays'[kids][i] \in {0, Kids(ref)[i]}
  BY CompositeStep
<1>3. /\ root = M.root /\ Copying(M, N, nodes, arrays, stack)
      /\ Matches(nodes, stack, N, ref, Wanted(M, N, stack, Len(stack)))
  BY <1>1 DEF Copies
<1>4. /\ Framed(nodes, arrays, stack) /\ Heaped(nodes, arrays) /\ Len(nodes) \in Nat
      /\ Len(stack) \in Nat /\ IsSeq(arrays) /\ IsSeq(stack)
  BY Frames, RefIs DEF Typing, Heaped
<1>5. Done(stack, ref) /\ N[ref] = Wanted(M, N, stack, Len(stack))
  <2>1. ~(ref <= 0)
    BY <1>1, <1>4
  <2> QED BY <1>3, <2>1 DEF Matches
<1>6. \A k \in 1 .. Len(stack) : stack[k].to \in 1 .. Len(nodes) /\ nodes[stack[k].to].kind \notin Leaves
  BY <1>4 DEF Framed, IsFrame
<1>7. /\ nodes'[n].kind = nodes[ref].kind /\ nodes'[n].val = nodes[ref].val /\ nodes'[n].kids = kids
      /\ f.from = ref /\ f.to = n /\ f.at = 1
  BY <1>2
<1> HIDE DEF f
<1>8. /\ \A k \in 1 .. Len(stack') : k \in 1 .. Len(stack) \/ k = Len(stack) + 1
      /\ ~(Len(stack) + 1 \in 1 .. Len(stack)) /\ Len(stack) + 1 \in 1 .. Len(stack')
      /\ (Len(stack) + 1) - 1 = Len(stack)
      /\ Len(stack) \in 0 .. Len(stack) /\ n \in 1 .. n
  BY <1>1, <1>4
<1>9. More(nodes, arrays, stack, nodes', arrays', stack', ref)
  <2>1. \A k \in 1 .. Len(stack') : k > Len(stack) => stack'[k].to = n
    <3>1. \A k \in 1 .. Len(stack) : ~(k > Len(stack))
      BY <1>4
    <3> QED BY <1>1, <1>7, <1>8, <3>1
  <2> QED BY <1>1, <1>5, <1>7, <2>1 DEF More
<1>10. \A k \in 1 .. Len(stack) : nodes[stack[k].to].kind # "import" => nodes'[n].kids # nodes[stack[k].to].kids
  <2> SUFFICES ASSUME NEW k \in 1 .. Len(stack), nodes[stack[k].to].kind # "import"
               PROVE  kids # nodes[stack[k].to].kids
    BY <1>7
  <2>1. CASE nodes[ref].kind = "import"
    <3>1. /\ \A r \in 1 .. Len(nodes) : r # stack[k].to => nodes[r].kids # nodes[stack[k].to].kids
      BY <1>3 DEF Copying, FrameCopies
    <3>2. ref # stack[k].to
      BY <1>5 DEF Done
    <3> QED BY <1>1, <1>2, <2>1, <3>1, <3>2
  <2>2. CASE nodes[ref].kind # "import"
    BY <1>2, <1>4, <1>6, <2>2, NodesAre
  <2> QED BY <2>1, <2>2
<1>11. /\ Copied(M, L, nodes')
       /\ \A r \in 1 .. Len(nodes) : nodes[r].kind \notin Leaves => Slots(M, L, nodes', arrays', stack', r)
       /\ \A r, s \in 1 .. Len(nodes) : nodes'[r].kind \notin Leaves /\ nodes'[r].kids = nodes'[s].kids =>
            M.nodes[L[r]].kids = M.nodes[L[s]].kids
       /\ \A k \in 0 .. Len(stack) : Wanted(M, L, stack', k) = Wanted(M, N, stack, k)
       /\ \A k \in 1 .. Len(stack) : FrameCopies(M, L, nodes', stack', k)
  BY <1>3, <1>4, <1>9, <1>10, CopyingMore
<1>12. /\ \A r \in 1 .. Len(nodes) : r # n /\ nodes'[r] = nodes[r] /\ L[r] = N[r]
       /\ \A r \in 1 .. Len(nodes') : r \in 1 .. Len(nodes) \/ r = n
       /\ L[n] = N[ref] /\ Below(nodes', arrays', ref) = Below(nodes, arrays, ref)
       /\ \A k \in 1 .. Len(stack) : stack'[k] = stack[k]
  <2>1. Kept(N, nodes, arrays, stack, nodes', arrays', stack', ref)
    BY <1>4, <1>9, MoreIs
  <2> QED BY <1>1, <2>1 DEF Kept
<1>13. /\ \A v \in 1 .. Len(nodes) : Done(stack, v) => Done(stack', v)
  BY <1>4, <1>9, MatchesMore
<1>14. Len(M.nodes) <= Len(nodes)
  BY <1>3 DEF Copying, Copied
<1> HIDE DEF n, M
<1>15. Slots(M, L, nodes', arrays', stack', n)
  <2>1. Slots(M, L, nodes', arrays', stack', ref) /\ nodes'[ref] = nodes[ref]
    BY <1>1, <1>11, <1>12
  <2>2. Source(M, L, n) = Source(M, L, ref)
    BY <1>1, <1>12 DEF Source
  <2>3. CASE nodes[ref].kind = "import"
    <3>1. nodes'[n].kids = nodes'[ref].kids
      BY <1>2, <1>7, <2>1, <2>3
    <3>2. Below(nodes', arrays', n) = Below(nodes', arrays', ref)
      BY <3>1 DEF Below
    <3> QED BY <2>1, <2>2, <3>1, <3>2 DEF Slots
  <2>4. CASE nodes[ref].kind # "import"
    <3>1. Len(Below(nodes', arrays', n)) = Len(Source(M, L, n))
      <4>1. Len(Below(nodes', arrays', ref)) = Len(Source(M, L, ref))
        BY <2>1 DEF Slots
      <4>2. Len(arrays'[kids]) = Len(Below(nodes, arrays, ref))
        BY <1>2, <2>4 DEF Kids, Below
      <4> QED BY <1>7, <1>12, <2>2, <4>1, <4>2 DEF Below
    <3>2. ASSUME NEW i \in 1 .. Len(Below(nodes', arrays', n)) PROVE Pending(nodes', stack', nodes'[n].kids, i)
      <4>1. 1 <= i
        OBVIOUS
      <4> DEFINE k == Len(stack) + 1
      <4>2. k \in 1 .. Len(stack') /\ stack'[k].to = n /\ stack'[k].at = 1
        BY <1>1, <1>7, <1>8
      <4> HIDE DEF k
      <4> QED BY <1>7, <2>4, <4>1, <4>2 DEF Pending
    <3> QED BY <3>1, <3>2 DEF Slots
  <2> QED BY <2>3, <2>4
<1>16. Filled(M, L, nodes', arrays', stack')
  BY <1>1, <1>11, <1>12, <1>15 DEF Filled
<1>17. SameSources(M, L, nodes')
  <2> SUFFICES ASSUME NEW r \in 1 .. Len(nodes'), NEW s \in 1 .. Len(nodes'),
                      nodes'[r].kind \notin Leaves, nodes'[r].kids = nodes'[s].kids
               PROVE  M.nodes[L[r]].kids = M.nodes[L[s]].kids
    BY DEF SameSources
  <2>1. CASE r \in 1 .. Len(nodes) /\ s \in 1 .. Len(nodes)
    BY <1>11, <2>1
  <2>2. CASE r = n /\ s = n
    BY <2>2
  <2>3. \A q \in 1 .. Len(nodes) : nodes'[q].kids = nodes'[n].kids => nodes[ref].kind = "import"
    BY <1>2, <1>4, <1>7, <1>12, NodesAre
  <2>4. ASSUME NEW q \in 1 .. Len(nodes), nodes'[q].kids = nodes'[n].kids
        PROVE  M.nodes[L[q]].kids = M.nodes[L[n]].kids
    <3>1. nodes'[ref].kids = nodes'[n].kids /\ nodes'[ref].kind \notin Leaves
      BY <1>1, <1>2, <1>7, <1>12, <2>3, <2>4
    <3>2. nodes'[ref].kids = nodes'[q].kids
      BY <2>4, <3>1
    <3>3. M.nodes[L[ref]].kids = M.nodes[L[q]].kids
      BY <1>1, <1>11, <3>1, <3>2
    <3> QED BY <1>1, <1>12, <3>3
  <2>5. CASE r = n /\ s \in 1 .. Len(nodes)
    BY <2>4, <2>5
  <2>6. CASE s = n /\ r \in 1 .. Len(nodes)
    BY <2>4, <2>6
  <2> QED BY <1>12, <2>1, <2>2, <2>5, <2>6
<1>18. FrameCopies(M, L, nodes', stack', Len(stack) + 1)
  <2> DEFINE k == Len(stack) + 1
  <2>1. stack'[k] = f /\ k - 1 = Len(stack)
    BY <1>1, <1>8
  <2> HIDE DEF k
  <2>2. Done(stack', ref)
    BY <1>1, <1>5, <1>13
  <2>3. Wanted(M, L, stack', k - 1) = N[ref]
    <3>1. Wanted(M, L, stack', Len(stack)) = Wanted(M, N, stack, Len(stack))
      BY <1>8, <1>11
    <3> QED BY <1>5, <2>1, <3>1
  <2>4. L[ref] = N[ref] /\ L[n] = N[ref]
    BY <1>1, <1>12
  <2>5. n > Len(M.nodes)
    <3>1. Copied(M, N, nodes)
      BY <1>3 DEF Copying
    <3>2. Len(M.nodes) \in Nat
      BY MemoryIs DEF M
    <3> QED BY <1>4, <1>14, <3>2 DEF n
  <2>6. \A l \in 1 .. Len(stack') : l # k => stack'[l].to # n
    BY <1>6, <1>8, <1>12 DEF k
  <2>7. nodes'[n].kind # "import" => \A r \in 1 .. Len(nodes') : r # n => nodes'[r].kids # nodes'[n].kids
    BY <1>2, <1>4, <1>7, <1>12, NodesAre
  <2> QED BY <1>7, <2>1, <2>2, <2>3, <2>4, <2>5, <2>6, <2>7 DEF FrameCopies, k
<1>19. M = Memory[original'] /\ root' = M.root
  BY <1>1, <1>3 DEF M
<1>20. \A k \in 1 .. Len(stack') : FrameCopies(M, L, nodes', stack', k)
  BY <1>8, <1>11, <1>18
<1>21. Copying(M, L, nodes', arrays', stack')
  BY <1>11, <1>16, <1>17, <1>20 DEF Copying
<1> QED BY <1>1, <1>19, <1>21 DEF Copies

(* A slot of a node that is finished is not to be filled.                  *)
LEMMA NotPending ==
  ASSUME NEW M, NEW N, NEW ns, NEW as, NEW st, Copying(M, N, ns, as, st),
         NEW r \in 1 .. Len(ns), Done(st, r), NEW i
  PROVE  ~Pending(ns, st, ns[r].kids, i)
<1> SUFFICES ASSUME NEW k \in 1 .. Len(st), ns[st[k].to].kind # "import", ns[st[k].to].kids = ns[r].kids
             PROVE  FALSE
  BY DEF Pending
<1>1. FrameCopies(M, N, ns, st, k)
  BY DEF Copying
<1>2. r # st[k].to
  BY DEF Done
<1> QED BY <1>1, <1>2 DEF FrameCopies

LEMMA ChildCopied ==
  ASSUME Typing, NEW N, Copies(N), CloneChild
  PROVE  Copies(N)'
<1> DEFINE M == Memory[original]
           n == Len(stack)
<1>1. /\ stack # << >> /\ Top.at \in DOMAIN Kids(Top.from)
      /\ mode' = "call" /\ ref' = Kids(Top.from)[Top.at]
      /\ nodes' = nodes /\ arrays' = arrays /\ root' = root /\ original' = original /\ stack' = stack
  BY DEF CloneChild, Typing
<1>2. /\ n \in 1 .. n /\ n # 0 /\ Top = stack[n] /\ Top.from \in 1 .. Len(nodes)
      /\ Top.at \in 1 .. Len(Kids(Top.from)) /\ nodes[Top.from].kind \notin Leaves
  BY <1>1, TopIs DEF IsFrame
<1>3. root = M.root /\ Copying(M, N, nodes, arrays, stack)
  BY DEF Copies
<1>4. FrameCopies(M, N, nodes, stack, n) /\ Slots(M, N, nodes, arrays, stack, Top.from)
  BY <1>2, <1>3 DEF Copying, Filled
<1>5. Done(stack, Top.from)
  BY <1>2, <1>4 DEF FrameCopies
<1>6. ~Pending(nodes, stack, nodes[Top.from].kids, Top.at)
  BY <1>2, <1>3, <1>5, NotPending
<1>7. Matches(nodes, stack, N, Kids(Top.from)[Top.at], Source(M, N, Top.from)[Top.at])
  BY <1>2, <1>4, <1>6 DEF Slots, Below, Kids
<1>8. Source(M, N, Top.from)[Top.at] = Wanted(M, N, stack, n)
  BY <1>2 DEF Wanted
<1>9. M = Memory[original']
  BY <1>1
<1> HIDE DEF M
<1> QED BY <1>1, <1>3, <1>7, <1>8, <1>9 DEF Copies

(* The slot that is stored to is the one that the frame need not fill now. *)
LEMMA StorePending ==
  ASSUME Typing, StoreChild, NEW b, NEW i \in Int, Pending(nodes, stack, b, i),
         b # nodes[Top.to].kids \/ i # Top.at
  PROVE  Pending(nodes, stack', b, i)
<1> DEFINE n == Len(stack)
<1>1. /\ stack # << >> /\ Len(stack') = n /\ \A k \in 1 .. n : k # n => stack'[k] = stack[k]
      /\ stack'[n] = [from |-> Top.from, to |-> Top.to, at |-> Top.at + 1]
  BY StoreStep
<1>2. Top = stack[n] /\ Top.at \in 1 .. Len(Kids(Top.from)) + 1 /\ Len(Kids(Top.from)) \in Nat
  BY <1>1, TopIs
<1> HIDE DEF n
<1>3. PICK k \in 1 .. n : nodes[stack[k].to].kind # "import" /\ nodes[stack[k].to].kids = b /\ stack[k].at <= i
  BY DEF Pending, n
<1>4. CASE k # n
  BY <1>1, <1>3, <1>4 DEF Pending
<1>5. CASE k = n
  <2>1. b = nodes[Top.to].kids /\ Top.at <= i /\ i # Top.at /\ Top.at \in Int
    BY <1>2, <1>3, <1>5
  <2>2. Top.at + 1 <= i
    BY <2>1
  <2>3. stack'[k].at = Top.at + 1 /\ stack'[k].to = stack[k].to
    <3>1. stack'[k] = [from |-> Top.from, to |-> Top.to, at |-> Top.at + 1]
      BY <1>1, <1>5
    <3>2. stack'[k].to = Top.to /\ stack'[k].at = Top.at + 1
      BY <3>1
    <3> QED BY <1>2, <1>5, <3>2
  <2> QED BY <1>1, <1>3, <2>2, <2>3 DEF Pending
<1> QED BY <1>4, <1>5

LEMMA StoreCopied ==
  ASSUME Typing, NEW N, Copies(N), StoreChild
  PROVE  Copies(N)'
<1> DEFINE M == Memory[original]
           n == Len(stack)
           a == nodes[Top.to].kids
<1>1. /\ stack # << >> /\ a \in 1 .. Len(arrays) /\ Top.at \in 1 .. Len(arrays[a])
      /\ IsSeq(arrays') /\ Len(arrays') = Len(arrays)
      /\ \A b \in 1 .. Len(arrays) : b # a => arrays'[b] = arrays[b]
      /\ IsSeq(arrays'[a]) /\ Len(arrays'[a]) = Len(arrays[a]) /\ arrays'[a][Top.at] = ref
      /\ \A i \in 1 .. Len(arrays[a]) : i # Top.at => arrays'[a][i] = arrays[a][i]
      /\ IsSeq(stack') /\ Len(stack') = n
      /\ \A k \in 1 .. n : k # n => stack'[k] = stack[k]
      /\ stack'[n] = [from |-> Top.from, to |-> Top.to, at |-> Top.at + 1]
      /\ mode = "return" /\ mode' = "loop" /\ UNCHANGED <<nodes, root, original, ref>>
  BY StoreStep
<1>2. /\ n \in 1 .. n /\ n \in Nat /\ n # 0 /\ Top = stack[n]
      /\ Top.from \in 1 .. Len(nodes) /\ Top.to \in 1 .. Len(nodes)
      /\ nodes[Top.to].kind \notin Leaves /\ Top.at \in Nat
  <2>1. /\ n \in 1 .. n /\ n \in Nat /\ n # 0 /\ Top = stack[n]
        /\ IsFrame(nodes, arrays, Top) /\ Top.at \in 1 .. Len(Kids(Top.from)) + 1 /\ Len(Kids(Top.from)) \in Nat
    BY <1>1, TopIs
  <2>2. Top.at \in Nat
    BY <2>1
  <2> QED BY <2>1, <2>2 DEF IsFrame
<1>3. /\ root = M.root /\ Copying(M, N, nodes, arrays, stack)
      /\ Matches(nodes, stack, N, ref, Wanted(M, N, stack, n))
  BY <1>1 DEF Copies
<1>4. \A k \in 1 .. n : FrameCopies(M, N, nodes, stack, k)
  BY <1>3 DEF Copying
<1>5. \A k \in 1 .. n : stack'[k].from = stack[k].from /\ stack'[k].to = stack[k].to
  <2>1. stack'[n].from = stack[n].from /\ stack'[n].to = stack[n].to
    <3>1. stack'[n] = [from |-> Top.from, to |-> Top.to, at |-> Top.at + 1]
      BY <1>1
    <3>2. stack'[n].from = Top.from /\ stack'[n].to = Top.to
      BY <3>1
    <3> QED BY <1>2, <3>2
  <2> QED BY <1>1, <2>1
<1>6. \A v : Done(stack, v) <=> Done(stack', v)
  BY <1>1, <1>5 DEF Done
<1>7. \A v, w : Matches(nodes, stack, N, v, w) => Matches(nodes', stack', N, v, w)
  BY <1>1, <1>6 DEF Matches
<1> HIDE DEF M, n, a
<1>8. ASSUME NEW b, NEW i \in Int, Pending(nodes, stack, b, i), b # a \/ i # Top.at
      PROVE  Pending(nodes', stack', b, i)
  <2>1. Pending(nodes, stack', b, i)
    BY <1>8, StorePending DEF a
  <2> QED BY <1>1, <2>1
<1>9. ASSUME NEW r \in 1 .. Len(nodes), nodes[r].kind \notin Leaves PROVE Slots(M, N, nodes', arrays', stack', r)
  <2>1. Slots(M, N, nodes, arrays, stack, r)
    BY <1>3, <1>9 DEF Copying, Filled
  <2>2. nodes[r].kids \in 1 .. Len(arrays)
    BY <1>9, NodesAre DEF Typing
  <2>3. CASE nodes[r].kids # a
    <3>1. Below(nodes', arrays', r) = Below(nodes, arrays, r)
      BY <1>1, <2>2, <2>3 DEF Below
    <3>2. \A i \in 1 .. Len(Below(nodes, arrays, r)) :
            Pending(nodes, stack, nodes[r].kids, i) => Pending(nodes', stack', nodes[r].kids, i)
      BY <1>8, <2>3
    <3> QED BY <1>1, <1>7, <2>1, <3>1, <3>2 DEF Slots
  <2>4. CASE nodes[r].kids = a
    <3>1. Below(nodes', arrays', r) = arrays'[a] /\ Below(nodes, arrays, r) = arrays[a]
      BY <1>1, <2>4 DEF Below
    <3>2. Source(M, N, r) = Source(M, N, Top.from)
      <4>1. M.nodes[N[r]].kids = M.nodes[N[Top.to]].kids
        BY <1>2, <1>3, <1>9, <2>4 DEF Copying, SameSources, a
      <4>2. N[Top.to] = N[Top.from]
        BY <1>2, <1>4 DEF FrameCopies
      <4> QED BY <4>1, <4>2 DEF Source, Below
    <3>3. Matches(nodes', stack', N, ref, Source(M, N, r)[Top.at])
      <4>1. Wanted(M, N, stack, n) = Source(M, N, Top.from)[Top.at]
        BY <1>2 DEF Wanted
      <4> QED BY <1>3, <1>7, <3>2, <4>1
    <3>4. ASSUME NEW i \in 1 .. Len(arrays'[a])
          PROVE  \/ Matches(nodes', stack', N, arrays'[a][i], Source(M, N, r)[i])
                 \/ Pending(nodes', stack', nodes[r].kids, i)
      <4>1. CASE i = Top.at
        BY <1>1, <3>3, <4>1
      <4>2. CASE i # Top.at
        <5>1. \/ Matches(nodes, stack, N, arrays[a][i], Source(M, N, r)[i])
              \/ Pending(nodes, stack, nodes[r].kids, i)
          BY <1>1, <2>1, <3>1 DEF Slots
        <5> QED BY <1>1, <1>7, <1>8, <4>2, <5>1
      <4> QED BY <4>1, <4>2
    <3> QED BY <1>1, <2>1, <3>1, <3>4 DEF Slots
  <2> QED BY <2>3, <2>4
<1>10. Filled(M, N, nodes', arrays', stack')
  BY <1>1, <1>9 DEF Filled
<1>11. Copied(M, N, nodes') /\ SameSources(M, N, nodes')
  BY <1>1, <1>3 DEF Copying
<1>12. ASSUME NEW k \in 1 .. n PROVE FrameCopies(M, N, nodes', stack', k)
  <2>1. FrameCopies(M, N, nodes, stack, k)
    BY <1>4
  <2>2. Wanted(M, N, stack', k - 1) = Wanted(M, N, stack, k - 1)
    <3>1. CASE k = 1
      BY <3>1 DEF Wanted
    <3>2. CASE k # 1
      <4>1. k - 1 \in 1 .. n /\ k - 1 # n
        BY <1>2, <3>2
      <4>2. stack'[k - 1] = stack[k - 1]
        BY <1>1, <4>1
      <4> QED BY <4>2 DEF Wanted
    <3> QED BY <3>1, <3>2
  <2>3. \A l \in 1 .. Len(stack') : l # k => stack'[l].to # stack[k].to
    BY <1>1, <1>5, <2>1 DEF FrameCopies, n
  <2> QED BY <1>1, <1>5, <1>6, <2>1, <2>2, <2>3 DEF FrameCopies
<1>13. M = Memory[original'] /\ root' = M.root
  BY <1>1, <1>3 DEF M
<1>14. Copying(M, N, nodes', arrays', stack')
  BY <1>1, <1>10, <1>11, <1>12 DEF Copying
<1> QED BY <1>1, <1>13, <1>14 DEF Copies

(* A frame that is through its children has nothing left to fill.          *)
LEMMA PopPending ==
  ASSUME Typing, EndOfChildren, NEW r \in 1 .. Len(nodes), nodes[r].kind \notin Leaves,
         NEW i \in 1 .. Len(Below(nodes, arrays, r)), Pending(nodes, stack, nodes[r].kids, i)
  PROVE  Pending(nodes, stack', nodes[r].kids, i)
<1> DEFINE n == Len(stack)
<1>1. /\ stack # << >> /\ Top.at > Len(arrays[nodes[Top.to].kids])
      /\ Len(stack') = n - 1 /\ \A k \in 1 .. Len(stack') : stack'[k] = stack[k]
  BY PopStep
<1>2. n \in Nat /\ Top = stack[n] /\ Top.at \in Nat /\ Len(arrays[nodes[Top.to].kids]) \in Nat
  BY <1>1, TopIs
<1> HIDE DEF n
<1>3. PICK k \in 1 .. n : nodes[stack[k].to].kind # "import" /\ nodes[stack[k].to].kids = nodes[r].kids /\ stack[k].at <= i
  BY DEF Pending, n
<1>4. k # n
  <2> SUFFICES ASSUME k = n PROVE FALSE
    OBVIOUS
  <2>1. i \in 1 .. Len(arrays[nodes[Top.to].kids]) /\ Top.at <= i
    BY <1>2, <1>3 DEF Below
  <2> QED BY <1>1, <1>2, <2>1
<1>5. k \in 1 .. Len(stack')
  BY <1>1, <1>2, <1>4
<1> QED BY <1>1, <1>3, <1>5 DEF Pending

LEMMA PopCopied ==
  ASSUME Typing, NEW N, Copies(N), EndOfChildren
  PROVE  Copies(N)'
<1> DEFINE M == Memory[original]
           n == Len(stack)
<1>1. /\ stack # << >> /\ IsSeq(stack') /\ Len(stack') = n - 1
      /\ \A k \in 1 .. Len(stack') : stack'[k] = stack[k]
      /\ mode' = "return" /\ ref' = Top.to /\ UNCHANGED <<nodes, arrays, root, original>>
  BY PopStep
<1>2. n \in 1 .. n /\ n \in Nat /\ Top = stack[n] /\ Top.to \in 1 .. Len(nodes) /\ Len(nodes) \in Nat
  BY <1>1, TopIs, RefIs
<1>3. root = M.root /\ Copying(M, N, nodes, arrays, stack)
  BY DEF Copies
<1>4. \A k \in 1 .. n : FrameCopies(M, N, nodes, stack, k)
  BY <1>3 DEF Copying
<1> HIDE DEF M, n
<1>5. \A k \in 1 .. Len(stack') : k \in 1 .. n /\ k # n /\ k - 1 \in 0 .. Len(stack')
  BY <1>1, <1>2
<1>6. \A v : Done(stack, v) => Done(stack', v)
  BY <1>1, <1>5 DEF Done, n
<1>7. \A v, w : Matches(nodes, stack, N, v, w) => Matches(nodes, stack', N, v, w)
  BY <1>6 DEF Matches
<1>8. \A k \in 0 .. Len(stack') : Wanted(M, N, stack', k) = Wanted(M, N, stack, k)
  <2>1. \A k \in 0 .. Len(stack') : k # 0 => k \in 1 .. Len(stack')
    BY <1>1, <1>2
  <2> QED BY <1>1, <2>1 DEF Wanted
<1>9. ASSUME NEW r \in 1 .. Len(nodes), nodes[r].kind \notin Leaves PROVE Slots(M, N, nodes, arrays, stack', r)
  <2>1. Slots(M, N, nodes, arrays, stack, r)
    BY <1>3, <1>9 DEF Copying, Filled
  <2>2. \A i \in 1 .. Len(Below(nodes, arrays, r)) :
          Pending(nodes, stack, nodes[r].kids, i) => Pending(nodes, stack', nodes[r].kids, i)
    BY <1>9, PopPending
  <2> QED BY <1>7, <2>1, <2>2 DEF Slots
<1>10. ASSUME NEW k \in 1 .. Len(stack') PROVE FrameCopies(M, N, nodes, stack', k)
  <2>1. FrameCopies(M, N, nodes, stack, k) /\ stack'[k] = stack[k]
    BY <1>1, <1>4, <1>5
  <2>2. Wanted(M, N, stack', k - 1) = Wanted(M, N, stack, k - 1)
    BY <1>5, <1>8
  <2>3. \A l \in 1 .. Len(stack') : l # k => stack'[l].to # stack[k].to
    BY <1>1, <1>5, <2>1 DEF FrameCopies, n
  <2> QED BY <1>6, <2>1, <2>2, <2>3 DEF FrameCopies
<1>11. Copying(M, N, nodes, arrays, stack')
  BY <1>3, <1>9, <1>10 DEF Copying, Filled
<1>12. Matches(nodes, stack', N, Top.to, Wanted(M, N, stack', Len(stack')))
  <2>1. Len(stack') \in 0 .. Len(stack') /\ Len(stack') = n - 1 /\ ~(Top.to <= 0)
    BY <1>1, <1>2
  <2>2. N[Top.to] = Wanted(M, N, stack, n - 1) /\ \A l \in 1 .. n : l # n => stack[l].to # Top.to
    BY <1>2, <1>4 DEF FrameCopies, n
  <2>3. Done(stack', Top.to)
    BY <1>1, <1>5, <2>2 DEF Done
  <2> QED BY <1>2, <1>8, <2>1, <2>2, <2>3 DEF Matches
<1>13. M = Memory[original'] /\ root' = M.root
  BY <1>1, <1>3 DEF M
<1> QED BY <1>1, <1>11, <1>12, <1>13 DEF Copies

LEMMA CopiesInit ==
  ASSUME Init, Typing PROVE \E N : Copies(N)
<1> DEFINE M == Memory[original]
           N == [r \in 1 .. Len(nodes) |-> r]
<1>1. nodes = M.nodes /\ arrays = M.arrays /\ root = M.root /\ stack = << >> /\ mode = "call" /\ ref = root
  BY DEF Init
<1>2. /\ Len(nodes) \in Nat /\ Heaped(nodes, arrays) /\ Len(stack) = 0
  BY <1>1, RefIs, SeqDomain DEF Typing
<1>3. \A r \in 1 .. Len(nodes) : N[r] = r
  OBVIOUS
<1> HIDE DEF M, N
<1>4. Copied(M, N, nodes) /\ SameSources(M, N, nodes)
  BY <1>1, <1>2, <1>3 DEF Copied, SameSources
<1>5. \A v : Done(stack, v)
  BY <1>2 DEF Done
<1>6. \A v \in Refs(nodes) : Matches(nodes, stack, N, v, v)
  BY <1>2, <1>3, <1>5, RefsAre DEF Matches, Heaped
<1>7. ASSUME NEW r \in 1 .. Len(nodes), nodes[r].kind \notin Leaves PROVE Slots(M, N, nodes, arrays, stack, r)
  <2>1. Source(M, N, r) = Below(nodes, arrays, r)
    BY <1>1, <1>3 DEF Source
  <2>2. \A i \in 1 .. Len(Below(nodes, arrays, r)) : Below(nodes, arrays, r)[i] \in Refs(nodes)
    <3>1. nodes[r].kids \in 1 .. Len(arrays)
      BY <1>2, <1>7, NodesAre
    <3> QED BY <1>2, <3>1 DEF Heaped, Below
  <2> QED BY <1>6, <2>1, <2>2 DEF Slots
<1>8. Copying(M, N, nodes, arrays, stack)
  BY <1>2, <1>4, <1>7 DEF Copying, Filled
<1>9. Matches(nodes, stack, N, ref, Wanted(M, N, stack, Len(stack)))
  BY <1>1, <1>2, <1>6 DEF Wanted, Typing
<1>10. Copies(N)
  BY <1>1, <1>8, <1>9 DEF Copies, M
<1> QED BY <1>10

LEMMA CopiesStep ==
  ASSUME Typing, NEW N, Copies(N), [Next]_vars
  PROVE  \E L : Copies(L)'
<1>1. CASE CloneHole
  BY <1>1 DEF CloneHole, Return, Copies
<1>2. CASE ClonePanics
  BY <1>2 DEF ClonePanics, Copies
<1>3. CASE CloneLeaf
  <2> DEFINE L == Also(N, Len(nodes) + 1, N[ref])
  <2>1. PICK l : l = L
    OBVIOUS
  <2>2. Copies(l)'
    BY <1>3, <2>1, LeafCopied
  <2> QED BY <2>2
<1>4. CASE CloneComposite
  <2>1. PICK l : l = Also(N, Len(nodes) + 1, N[ref])
    OBVIOUS
  <2>2. Copies(l)'
    BY <1>4, <2>1, CompositeCopied
  <2> QED BY <2>2
<1>5. CASE CloneChild
  <2>1. Copies(N)'
    BY <1>5, ChildCopied
  <2> QED BY <2>1
<1>6. CASE StoreChild
  <2>1. Copies(N)'
    BY <1>6, StoreCopied
  <2> QED BY <2>1
<1>7. CASE EndOfChildren
  <2>1. Copies(N)'
    BY <1>7, PopCopied
  <2> QED BY <2>1
<1>8. CASE EndOfClone
  BY <1>8 DEF EndOfClone, Copies
<1>9. CASE UNCHANGED vars
  BY <1>9 DEF vars, Copies
<1> QED BY <1>1, <1>2, <1>3, <1>4, <1>5, <1>6, <1>7, <1>8, <1>9 DEF Next

(***************************************************************************)
(* What matches is the same tree.                                          *)
(***************************************************************************)
LEMMA CopiesAreAlike ==
  ASSUME Typing, NEW N, Copies(N), NEW r \in Refs(nodes), NEW s, Matches(nodes, stack, N, r, s)
  PROVE  Tree(r) = TreeIn(Memory[original].nodes, Memory[original].arrays, s)
<1> DEFINE M == Memory[original]
           R == {p \in Refs(nodes) \X Refs(M.nodes) : Matches(nodes, stack, N, p[1], p[2])}
<1>1. /\ Heaped(M.nodes, M.arrays) /\ Heaped(nodes, arrays) /\ Copying(M, N, nodes, arrays, stack)
      /\ Len(nodes) \in Nat
  BY MemoryIs, RefIs DEF Copies, Typing
<1> HIDE DEF M
<1>2. ASSUME NEW v \in Refs(nodes), NEW w, Matches(nodes, stack, N, v, w)
      PROVE  w \in Refs(M.nodes) /\ <<v, w>> \in R
  <2>1. CASE v <= 0
    <3>1. w = v /\ w \in {0, -1, -2}
      BY <1>1, <1>2, <2>1, RefsAre DEF Matches, Heaped
    <3> QED BY <1>1, <1>2, <3>1, RefsAre DEF Heaped
  <2>2. CASE ~(v <= 0)
    <3>1. v \in 1 .. Len(nodes) /\ N[v] = w
      BY <1>2, <2>2 DEF Matches
    <3>2. w \in 1 .. Len(M.nodes)
      BY <1>1, <3>1 DEF Copying, Copied
    <3> QED BY <1>1, <1>2, <3>2, RefsAre DEF Heaped
  <2> QED BY <2>1, <2>2
<1>3. ASSUME NEW v \in Refs(nodes), NEW w \in Refs(M.nodes), <<v, w>> \in R, v > 0
      PROVE  /\ w > 0 /\ LooksLike(nodes, arrays, v, M.nodes, M.arrays, w)
             /\ \A i \in 1 .. Len(ChildrenIn(nodes, arrays, v)) :
                  <<ChildrenIn(nodes, arrays, v)[i], ChildrenIn(M.nodes, M.arrays, w)[i]>> \in R
  <2>1. v \in 1 .. Len(nodes) /\ N[v] = w /\ Done(stack, v)
    <3>1. Matches(nodes, stack, N, v, w) /\ ~(v <= 0)
      BY <1>1, <1>3, RefsAre DEF Heaped
    <3> QED BY <3>1 DEF Matches
  <2>2. w \in 1 .. Len(M.nodes) /\ nodes[v].kind = M.nodes[w].kind /\ nodes[v].val = M.nodes[w].val
    BY <1>1, <2>1 DEF Copying, Copied
  <2>3. CASE nodes[v].kind \in Leaves
    <3>1. nodes[v].kids = 0 /\ M.nodes[w].kids = 0
      BY <1>1, <2>1, <2>2, <2>3 DEF Heaped, IsNode
    <3>2. ChildrenIn(nodes, arrays, v) = << >> /\ ChildrenIn(M.nodes, M.arrays, w) = << >>
      BY <3>1 DEF ChildrenIn
    <3> QED BY <2>2, <3>2, SeqOfSome, SeqDomain DEF LooksLike
  <2>4. CASE nodes[v].kind \notin Leaves
    <3>1. Slots(M, N, nodes, arrays, stack, v)
      BY <1>1, <2>1, <2>4 DEF Copying, Filled
    <3>2. nodes[v].kids # 0 /\ M.nodes[w].kids # 0
      BY <1>1, <2>1, <2>2, <2>4, NodesAre
    <3>3. /\ ChildrenIn(nodes, arrays, v) = Below(nodes, arrays, v)
          /\ ChildrenIn(M.nodes, M.arrays, w) = Source(M, N, v)
      BY <2>1, <3>2 DEF ChildrenIn, Below, Source
    <3>4. \A i : ~Pending(nodes, stack, nodes[v].kids, i)
      BY <1>1, <2>1, NotPending
    <3>5. \A i \in 1 .. Len(Below(nodes, arrays, v)) :
            /\ Matches(nodes, stack, N, Below(nodes, arrays, v)[i], Source(M, N, v)[i])
            /\ Below(nodes, arrays, v)[i] \in Refs(nodes)
      <4>1. nodes[v].kids \in 1 .. Len(arrays)
        BY <1>1, <2>1, <2>4, NodesAre
      <4> QED BY <1>1, <3>1, <3>4, <4>1 DEF Slots, Heaped, Below
    <3> HIDE DEF R
    <3>6. \A i \in 1 .. Len(Below(nodes, arrays, v)) : <<Below(nodes, arrays, v)[i], Source(M, N, v)[i]>> \in R
      BY <1>2, <3>5
    <3>7. LooksLike(nodes, arrays, v, M.nodes, M.arrays, w)
      BY <2>2, <3>1, <3>3 DEF LooksLike, Slots
    <3> QED BY <2>2, <3>3, <3>6, <3>7
  <2> HIDE DEF R
  <2> QED BY <2>3, <2>4
<1>4. \A v \in Refs(nodes) : \A w \in Refs(M.nodes) : <<v, w>> \in R =>
        v \in Int /\ w \in Int /\ (v <= 0 => v = w)
  BY <1>1, RefsAre DEF Matches, Heaped
<1>5. s \in Refs(M.nodes) /\ <<r, s>> \in R
  BY <1>2
<1> HIDE DEF R
<1>6. Alike(nodes, arrays, M.nodes, M.arrays, R)
  <2> SUFFICES ASSUME NEW v \in Refs(nodes), NEW w \in Refs(M.nodes), <<v, w>> \in R
               PROVE  /\ v <= 0 \/ w <= 0 => v = w
                      /\ v > 0 =>
                           /\ LooksLike(nodes, arrays, v, M.nodes, M.arrays, w)
                           /\ \A i \in 1 .. Len(ChildrenIn(nodes, arrays, v)) :
                                <<ChildrenIn(nodes, arrays, v)[i], ChildrenIn(M.nodes, M.arrays, w)[i]>> \in R
    BY <1>1 DEF Alike
  <2>1. v > 0 => w > 0
    BY <1>3
  <2>2. v <= 0 \/ w <= 0 => v = w
    BY <1>4, <2>1
  <2> QED BY <1>3, <2>2
<1> QED BY <1>5, <1>6, SameTree DEF Tree, M

(***************************************************************************)
(* While it is cloned and after, also when Clone panics half way, the      *)
(* original is the tree that it was.                                       *)
(***************************************************************************)
LEMMA RootMatches ==
  ASSUME Typing, NEW N, Copies(N) PROVE Matches(nodes, stack, N, root, Memory[original].root)
<1> DEFINE M == Memory[original]
<1>1. root = M.root /\ Copying(M, N, nodes, arrays, stack) /\ IsSeq(M.nodes) /\ Len(M.nodes) \in Nat
      /\ Len(nodes) \in Nat /\ M.root \in Refs(M.nodes)
  BY MemoryIs, RefIs DEF Copies
<1> HIDE DEF M
<1>2. CASE root <= 0
  BY <1>1, <1>2 DEF Matches, M
<1>3. CASE ~(root <= 0)
  <2>1. root \in 1 .. Len(M.nodes)
    BY <1>1, <1>3, RefsAre
  <2>2. Len(M.nodes) <= Len(nodes) /\ N[root] = root
    BY <1>1, <2>1 DEF Copying, Copied
  <2>3. root \in 1 .. Len(nodes)
    BY <1>1, <2>1, <2>2
  <2>4. Done(stack, root)
    <3>1. \A k \in 1 .. Len(stack) : stack[k].to > Len(M.nodes)
      BY <1>1 DEF Copying, FrameCopies
    <3>2. ~(root > Len(M.nodes))
      BY <1>1, <2>1
    <3> QED BY <3>1, <3>2 DEF Done
  <2> QED BY <1>1, <1>3, <2>2, <2>3, <2>4 DEF Matches, M
<1> QED BY <1>2, <1>3

LEMMA StandsThen ==
  ASSUME Typing, \E N : Copies(N) PROVE OriginalStands
<1>1. PICK N : Copies(N)
  OBVIOUS
<1>2. Matches(nodes, stack, N, root, Memory[original].root) /\ root \in Refs(nodes)
  BY <1>1, RootMatches DEF Typing
<1> QED BY <1>1, <1>2, CopiesAreAlike, MemoryIs DEF OriginalStands

(* Clone only follows references to nodes and arrays that there are, and   *)
(* a frame's clone has as many places for children as what it copies.      *)
THEOREM TypingAlwaysHolds == Spec => []Typing
<1> QED BY TypingInit, TypingStep, PTL DEF Spec

(* At every step of Clone, the tree that is cloned is what it was, also    *)
(* while Clone writes the clones of an import-go's items over the items,   *)
(* and after Clone panicked half way.                                      *)
THEOREM OriginalAlwaysStands == Spec => []OriginalStands
<1>1. Init => Typing /\ \E N : Copies(N)
  BY TypingInit, CopiesInit
<1>2. (Typing /\ \E N : Copies(N)) /\ [Next]_vars => (Typing /\ \E N : Copies(N))'
  BY TypingStep, CopiesStep
<1>3. Typing /\ (\E N : Copies(N)) => OriginalStands
  BY StandsThen
<1> QED BY <1>1, <1>2, <1>3, PTL DEF Spec

(***************************************************************************)
(* What is the original's: its nodes, and the clones that were put below   *)
(* an import-go.  A node is theirs if what is below it is the original's.  *)
(***************************************************************************)
Theirs(ns, S, r) == r \in S \/ ns[r].kind = "import"

Inside(ns, st, S, k) == k > 0 /\ Theirs(ns, S, st[k].to)

SlotSides(ns, as, st, S, r) ==
  \A i \in 1 .. Len(Below(ns, as, r)) :
    /\ Theirs(ns, S, r) /\ Below(ns, as, r)[i] > 0 => Below(ns, as, r)[i] \in S
    /\ ~Theirs(ns, S, r) /\ Below(ns, as, r)[i] \in S => Pending(ns, st, ns[r].kids, i)

Apart(ns, S) ==
  \A r, s \in 1 .. Len(ns) :
    ns[r].kind \notin Leaves /\ Theirs(ns, S, r) /\ ~Theirs(ns, S, s) => ns[r].kids # ns[s].kids

FrameSides(ns, st, S, k) == st[k].from \in S /\ (st[k].to \in S <=> Inside(ns, st, S, k - 1))

Siding(ns, as, st, S) ==
  /\ S \subseteq 1 .. Len(ns) /\ Apart(ns, S)
  /\ \A r \in 1 .. Len(ns) : ns[r].kind \notin Leaves => SlotSides(ns, as, st, S, r)
  /\ \A k \in 1 .. Len(st) : FrameSides(ns, st, S, k)

Sides(S) ==
  /\ Siding(nodes, arrays, stack, S)
  /\ root > 0 => root \in S
  /\ mode = "call" /\ ref > 0 => ref \in S
  /\ mode = "return" /\ ref > 0 => (ref \in S <=> Inside(nodes, stack, S, Len(stack)))
  /\ mode = "done" /\ ref > 0 => ref \notin S

SideOf(ns, st, S) == IF Inside(ns, st, S, Len(st)) THEN S \cup {Len(ns) + 1} ELSE S

LEMMA SidingMore ==
  ASSUME NEW S, NEW ns, NEW as, NEW st, Framed(ns, as, st), Siding(ns, as, st, S),
         NEW ms, NEW bs, NEW su, NEW K, More(ns, as, st, ms, bs, su, K)
  PROVE  LET T == SideOf(ns, st, S) IN
         /\ T \subseteq 1 .. Len(ms)
         /\ \A r \in 1 .. Len(ns) : (r \in T <=> r \in S) /\ (Theirs(ms, T, r) <=> Theirs(ns, S, r))
         /\ Len(ns) + 1 \in T <=> Inside(ns, st, S, Len(st))
         /\ \A r \in 1 .. Len(ns) : ns[r].kind \notin Leaves => SlotSides(ms, bs, su, T, r)
         /\ \A k \in 0 .. Len(st) : Inside(ms, su, T, k) <=> Inside(ns, st, S, k)
         /\ \A k \in 1 .. Len(st) : FrameSides(ms, su, T, k)
<1> DEFINE n == Len(ns) + 1
           T == SideOf(ns, st, S)
<1>0. /\ Kept(0, ns, as, st, ms, bs, su, K)
      /\ \A r \in 1 .. Len(ns) : \A i : Pending(ns, st, ns[r].kids, i) => Pending(ms, su, ms[r].kids, i)
  BY MoreIs, MatchesMore
<1>1. /\ Len(ns) \in Nat /\ Len(st) \in Nat /\ Len(ms) = n
      /\ \A r \in 1 .. Len(ns) : r # n /\ r \in 1 .. Len(ms) /\ ms[r] = ns[r]
      /\ \A k \in 1 .. Len(st) : su[k] = st[k]
      /\ \A r \in 1 .. Len(ns) : ns[r].kind \notin Leaves => Below(ms, bs, r) = Below(ns, as, r)
  BY <1>0 DEF Kept, More
<1>9. n \in 1 .. n
  BY <1>1
<1>2. /\ S \subseteq 1 .. Len(ns) /\ n \in 1 .. n
      /\ \A r \in 1 .. Len(ns) : ns[r].kind \notin Leaves => SlotSides(ns, as, st, S, r)
      /\ \A k \in 1 .. Len(st) : FrameSides(ns, st, S, k)
  BY <1>9 DEF Siding
<1>3. \A k \in 1 .. Len(st) : st[k].from \in 1 .. Len(ns) /\ st[k].to \in 1 .. Len(ns)
  BY DEF Framed, IsFrame
<1>4. T \subseteq 1 .. Len(ms) /\ (\A r : r # n => (r \in T <=> r \in S))
      /\ (n \in T <=> Inside(ns, st, S, Len(st)))
  <2>1. n \notin S
    BY <1>1, <1>2
  <2> HIDE DEF n
  <2>2. T = IF Inside(ns, st, S, Len(st)) THEN S \cup {n} ELSE S
    BY Zenon DEF SideOf, n
  <2> HIDE DEF T
  <2>3. S \subseteq 1 .. Len(ms) /\ n \in 1 .. Len(ms)
    BY <1>1, <1>2
  <2> QED BY <2>1, <2>2, <2>3
<1> HIDE DEF n, T
<1>5. \A r \in 1 .. Len(ns) : (r \in T <=> r \in S) /\ (Theirs(ms, T, r) <=> Theirs(ns, S, r))
  BY <1>1, <1>4 DEF Theirs
<1>6. ASSUME NEW r \in 1 .. Len(ns), ns[r].kind \notin Leaves PROVE SlotSides(ms, bs, su, T, r)
  <2>1. SlotSides(ns, as, st, S, r) /\ Below(ms, bs, r) = Below(ns, as, r)
    BY <1>1, <1>2, <1>6
  <2>2. \A i \in 1 .. Len(Below(ns, as, r)) : Below(ns, as, r)[i] # n
    <3>1. ns[r].kids \in 1 .. Len(as)
      BY <1>6, NodesAre DEF Framed
    <3>2. \A i \in 1 .. Len(Below(ns, as, r)) : Below(ns, as, r)[i] \in Refs(ns)
      BY <3>1 DEF Framed, Heaped, Below
    <3>3. n \notin Refs(ns)
      BY <1>1, RefsAre DEF n, Framed, Heaped
    <3> QED BY <3>2, <3>3
  <2> QED BY <1>0, <1>4, <1>5, <2>1, <2>2 DEF SlotSides
<1>7. \A k \in 0 .. Len(st) : Inside(ms, su, T, k) <=> Inside(ns, st, S, k)
  <2>1. \A k \in 0 .. Len(st) : k > 0 => k \in 1 .. Len(st)
    BY <1>1
  <2> QED BY <1>1, <1>3, <1>5, <2>1 DEF Inside
<1>8. ASSUME NEW k \in 1 .. Len(st) PROVE FrameSides(ms, su, T, k)
  <2>1. FrameSides(ns, st, S, k) /\ su[k] = st[k] /\ k - 1 \in 0 .. Len(st)
    BY <1>1, <1>2
  <2> QED BY <1>3, <1>5, <1>7, <2>1 DEF FrameSides
<1> QED BY <1>4, <1>5, <1>6, <1>7, <1>8 DEF n, T

LEMMA LeafSides ==
  ASSUME Typing, NEW N, Copies(N), NEW S, Sides(S), CloneLeaf, NEW T, T = SideOf(nodes, stack, S)
  PROVE  Sides(T)'
<1> DEFINE n == Len(nodes) + 1
<1>1. /\ ref \in 1 .. Len(nodes) /\ nodes[ref].kind \in Leaves /\ nodes[ref].kids = 0
      /\ Extends(nodes', nodes) /\ Len(nodes') = n /\ nodes'[n] = nodes[ref]
      /\ mode = "call" /\ mode' = "return" /\ ref' = n
      /\ arrays' = arrays /\ root' = root /\ stack' = stack
  BY LeafStep
<1>2. /\ Framed(nodes, arrays, stack) /\ Heaped(nodes, arrays) /\ Len(nodes) \in Nat
      /\ Len(stack) \in Nat /\ IsSeq(arrays) /\ IsSeq(stack) /\ root \in Refs(nodes)
  BY Frames, RefIs DEF Typing, Heaped
<1>3. More(nodes, arrays, stack, nodes', arrays, stack, ref)
  <2>1. Matches(nodes, stack, N, ref, Wanted(Memory[original], N, stack, Len(stack))) /\ ~(ref <= 0)
    BY <1>1, <1>2 DEF Copies
  <2>2. Extends(arrays, arrays) /\ Extends(stack, stack) /\ \A k \in 1 .. Len(stack) : ~(k > Len(stack))
    BY <1>2, SeqDomain DEF Extends
  <2> QED BY <1>1, <2>1, <2>2 DEF More, Matches
<1>4. Siding(nodes, arrays, stack, S) /\ (root > 0 => root \in S)
  BY DEF Sides
<1>5. /\ T \subseteq 1 .. Len(nodes')
      /\ \A r \in 1 .. Len(nodes) : (r \in T <=> r \in S) /\ (Theirs(nodes', T, r) <=> Theirs(nodes, S, r))
      /\ n \in T <=> Inside(nodes, stack, S, Len(stack))
      /\ \A r \in 1 .. Len(nodes) : nodes[r].kind \notin Leaves => SlotSides(nodes', arrays, stack, T, r)
      /\ \A k \in 0 .. Len(stack) : Inside(nodes', stack, T, k) <=> Inside(nodes, stack, S, k)
      /\ \A k \in 1 .. Len(stack) : FrameSides(nodes', stack, T, k)
  BY <1>2, <1>3, <1>4, SidingMore
<1>6. /\ \A r \in 1 .. Len(nodes) : nodes'[r] = nodes[r]
      /\ \A r \in 1 .. Len(nodes') : r \in 1 .. Len(nodes) \/ r = n
  <2>1. Kept(0, nodes, arrays, stack, nodes', arrays, stack, ref)
    BY <1>2, <1>3, MoreIs
  <2> QED BY <2>1 DEF Kept
<1> HIDE DEF n
<1>7. Apart(nodes', T)
  <2> SUFFICES ASSUME NEW r \in 1 .. Len(nodes'), NEW s \in 1 .. Len(nodes'),
                      nodes'[r].kind \notin Leaves, Theirs(nodes', T, r), ~Theirs(nodes', T, s)
               PROVE  nodes'[r].kids # nodes'[s].kids
    BY DEF Apart
  <2>1. r \in 1 .. Len(nodes)
    BY <1>1, <1>6
  <2>2. CASE s \in 1 .. Len(nodes)
    BY <1>4, <1>5, <1>6, <2>1, <2>2 DEF Siding, Apart
  <2>3. CASE s = n
    <3>1. nodes'[r].kids # 0
      BY <1>2, <1>6, <2>1, NodesAre
    <3> QED BY <1>1, <2>3, <3>1
  <2> QED BY <1>6, <2>2, <2>3
<1>8. \A r \in 1 .. Len(nodes') : nodes'[r].kind \notin Leaves => SlotSides(nodes', arrays, stack, T, r)
  BY <1>1, <1>5, <1>6
<1>9. Siding(nodes', arrays', stack', T)
  BY <1>1, <1>5, <1>7, <1>8 DEF Siding
<1>10. root > 0 => root \in T
  BY <1>2, <1>4, <1>5, RefsAre DEF Heaped
<1>11. n \in T <=> Inside(nodes', stack', T, Len(stack'))
  <2>1. Len(stack) \in 0 .. Len(stack)
    BY <1>2
  <2> QED BY <1>1, <1>5, <2>1
<1> QED BY <1>1, <1>9, <1>10, <1>11 DEF Sides

LEMMA CompositeSides ==
  ASSUME Typing, NEW N, Copies(N), NEW S, Sides(S), CloneComposite, NEW T, T = SideOf(nodes, stack, S)
  PROVE  Sides(T)'
<1> DEFINE n == Len(nodes) + 1
           f == [from |-> ref, to |-> n, at |-> 1]
<1>1. /\ ref \in 1 .. Len(nodes) /\ nodes[ref].kind \notin Leaves
      /\ Extends(nodes', nodes) /\ Len(nodes') = n /\ Extends(arrays', arrays)
      /\ Extends(stack', stack) /\ Len(stack') = Len(stack) + 1 /\ stack'[Len(stack) + 1] = f
      /\ mode = "call" /\ mode' = "loop" /\ root' = root
  BY CompositeStep
<1>2. PICK kids :
        /\ nodes'[n] = [kind |-> nodes[ref].kind, val |-> nodes[ref].val, kids |-> kids]
        /\ nodes[ref].kind = "import" => kids = nodes[ref].kids /\ arrays' = arrays
        /\ nodes[ref].kind # "import" =>
             /\ kids = Len(arrays) + 1 /\ Len(arrays') = Len(arrays) + 1
             /\ IsSeq(arrays'[kids]) /\ Len(arrays'[kids]) = Len(Kids(ref))
             /\ \A i \in 1 .. Len(Kids(ref)) : arrays'[kids][i] \in {0, Kids(ref)[i]}
  BY CompositeStep
<1>3. /\ Framed(nodes, arrays, stack) /\ Heaped(nodes, arrays) /\ Len(nodes) \in Nat
      /\ Len(stack) \in Nat /\ root \in Refs(nodes)
  BY Frames, RefIs DEF Typing, Heaped
<1>4. Siding(nodes, arrays, stack, S) /\ (root > 0 => root \in S) /\ ref \in S
  <2>1. ref > 0
    BY <1>1, <1>3
  <2> QED BY <1>1, <2>1 DEF Sides
<1>5. /\ nodes'[n].kind = nodes[ref].kind /\ nodes'[n].kids = kids
      /\ f.from = ref /\ f.to = n /\ f.at = 1
  BY <1>2
<1> HIDE DEF f
<1>6. /\ \A k \in 1 .. Len(stack') : k \in 1 .. Len(stack) \/ k = Len(stack) + 1
      /\ Len(stack) + 1 \in 1 .. Len(stack') /\ (Len(stack) + 1) - 1 = Len(stack)
      /\ Len(stack) \in 0 .. Len(stack)
  BY <1>1, <1>3
<1>7. More(nodes, arrays, stack, nodes', arrays', stack', ref)
  <2>1. \A k \in 1 .. Len(stack') : k > Len(stack) => stack'[k].to = n
    <3>1. \A k \in 1 .. Len(stack) : ~(k > Len(stack))
      BY <1>3
    <3> QED BY <1>1, <1>5, <1>6, <3>1
  <2>2. Matches(nodes, stack, N, ref, Wanted(Memory[original], N, stack, Len(stack))) /\ ~(ref <= 0)
    BY <1>1, <1>3 DEF Copies
  <2>3. nodes'[n].val = nodes[ref].val
    BY <1>2
  <2> QED BY <1>1, <1>5, <2>1, <2>2, <2>3 DEF More, Matches
<1>8. /\ T \subseteq 1 .. Len(nodes')
      /\ \A r \in 1 .. Len(nodes) : (r \in T <=> r \in S) /\ (Theirs(nodes', T, r) <=> Theirs(nodes, S, r))
      /\ n \in T <=> Inside(nodes, stack, S, Len(stack))
      /\ \A r \in 1 .. Len(nodes) : nodes[r].kind \notin Leaves => SlotSides(nodes', arrays', stack', T, r)
      /\ \A k \in 0 .. Len(stack) : Inside(nodes', stack', T, k) <=> Inside(nodes, stack, S, k)
      /\ \A k \in 1 .. Len(stack) : FrameSides(nodes', stack', T, k)
  BY <1>3, <1>4, <1>7, SidingMore
<1>9. /\ \A r \in 1 .. Len(nodes) : nodes'[r] = nodes[r]
      /\ \A r \in 1 .. Len(nodes') : r \in 1 .. Len(nodes) \/ r = n
      /\ Below(nodes', arrays', ref) = Kids(ref)
  <2>1. Kept(0, nodes, arrays, stack, nodes', arrays', stack', ref)
    BY <1>3, <1>7, MoreIs
  <2> QED BY <1>1, <2>1 DEF Kept, Below, Kids
<1> HIDE DEF n
<1>10. /\ Theirs(nodes', T, ref) /\ SlotSides(nodes', arrays', stack', T, ref)
       /\ Theirs(nodes, S, ref) /\ ref \in T
  BY <1>1, <1>4, <1>8 DEF Theirs
<1>11. SlotSides(nodes', arrays', stack', T, n)
  <2>1. CASE nodes[ref].kind = "import"
    <3>1. Theirs(nodes', T, n) /\ Below(nodes', arrays', n) = Below(nodes', arrays', ref)
      BY <1>1, <1>2, <1>5, <1>9, <2>1 DEF Theirs, Below
    <3> QED BY <1>10, <3>1 DEF SlotSides
  <2>2. CASE nodes[ref].kind # "import"
    <3>1. Below(nodes', arrays', n) = arrays'[kids]
      BY <1>5 DEF Below
    <3>2. ASSUME NEW i \in 1 .. Len(arrays'[kids]), arrays'[kids][i] > 0, Theirs(nodes', T, n)
          PROVE  arrays'[kids][i] \in T
      <4>1. i \in 1 .. Len(Kids(ref)) /\ arrays'[kids][i] \in {0, Kids(ref)[i]}
        BY <1>2, <2>2, <3>2
      <4>2. arrays'[kids][i] = Kids(ref)[i]
        BY <3>2, <4>1
      <4> QED BY <1>9, <1>10, <3>2, <4>1, <4>2 DEF SlotSides
    <3>3. ASSUME NEW i \in 1 .. Len(arrays'[kids]) PROVE Pending(nodes', stack', kids, i)
      <4> DEFINE k == Len(stack) + 1
      <4>1. k \in 1 .. Len(stack') /\ stack'[k].to = n /\ stack'[k].at = 1 /\ 1 <= i
        BY <1>1, <1>5, <1>6
      <4> HIDE DEF k
      <4> QED BY <1>5, <2>2, <4>1 DEF Pending
    <3> QED BY <1>5, <3>1, <3>2, <3>3 DEF SlotSides
  <2> QED BY <2>1, <2>2
<1>12. Apart(nodes', T)
  <2> SUFFICES ASSUME NEW r \in 1 .. Len(nodes'), NEW s \in 1 .. Len(nodes'),
                      nodes'[r].kind \notin Leaves, Theirs(nodes', T, r), ~Theirs(nodes', T, s)
               PROVE  nodes'[r].kids # nodes'[s].kids
    BY DEF Apart
  <2>1. CASE r \in 1 .. Len(nodes) /\ s \in 1 .. Len(nodes)
    BY <1>4, <1>8, <1>9, <2>1 DEF Siding, Apart
  <2>2. \A q \in 1 .. Len(nodes) : nodes[ref].kind # "import" => nodes'[q].kids # nodes'[n].kids
    BY <1>2, <1>3, <1>5, <1>9, NodesAre
  <2>3. CASE r = n /\ s \in 1 .. Len(nodes)
    <3>1. CASE nodes[ref].kind = "import"
      <4>1. nodes[ref].kids # nodes[s].kids
        BY <1>1, <1>4, <1>8, <1>10, <2>3 DEF Siding, Apart
      <4> QED BY <1>2, <1>5, <1>9, <2>3, <3>1, <4>1
    <3>2. CASE nodes[ref].kind # "import"
      BY <2>2, <2>3, <3>2
    <3> QED BY <3>1, <3>2
  <2>4. CASE s = n /\ r \in 1 .. Len(nodes)
    <3>1. nodes[ref].kind # "import"
      BY <1>5, <2>4 DEF Theirs
    <3> QED BY <2>2, <2>4, <3>1
  <2> QED BY <1>9, <2>1, <2>3, <2>4
<1>13. FrameSides(nodes', stack', T, Len(stack) + 1)
  <2> DEFINE k == Len(stack) + 1
  <2>1. stack'[k] = f /\ k - 1 = Len(stack)
    BY <1>1, <1>6
  <2> HIDE DEF k
  <2>2. n \in T <=> Inside(nodes', stack', T, k - 1)
    BY <1>6, <1>8, <2>1
  <2>3. FrameSides(nodes', stack', T, k)
    BY <1>5, <1>10, <2>1, <2>2 DEF FrameSides
  <2> QED BY <2>3 DEF k
<1>14. Siding(nodes', arrays', stack', T)
  <2>1. \A r \in 1 .. Len(nodes') : nodes'[r].kind \notin Leaves => SlotSides(nodes', arrays', stack', T, r)
    BY <1>8, <1>9, <1>11
  <2>2. \A k \in 1 .. Len(stack') : FrameSides(nodes', stack', T, k)
    BY <1>6, <1>8, <1>13
  <2>3. T \subseteq 1 .. Len(nodes')
    BY <1>8
  <2> QED BY <1>12, <2>1, <2>2, <2>3 DEF Siding
<1>15. root > 0 => root \in T
  BY <1>3, <1>4, <1>8, RefsAre DEF Heaped
<1> QED BY <1>1, <1>14, <1>15 DEF Sides

LEMMA ChildSides ==
  ASSUME Typing, NEW S, Sides(S), CloneChild
  PROVE  Sides(S)'
<1> DEFINE n == Len(stack)
<1>1. /\ stack # << >> /\ Top.at \in DOMAIN Kids(Top.from)
      /\ mode' = "call" /\ ref' = Kids(Top.from)[Top.at]
      /\ nodes' = nodes /\ arrays' = arrays /\ root' = root /\ stack' = stack
  BY DEF CloneChild, Typing
<1>2. /\ n \in 1 .. n /\ Top = stack[n] /\ Top.from \in 1 .. Len(nodes)
      /\ Top.at \in 1 .. Len(Kids(Top.from)) /\ nodes[Top.from].kind \notin Leaves
  BY <1>1, TopIs DEF IsFrame
<1>3. Siding(nodes, arrays, stack, S) /\ (root > 0 => root \in S)
  BY DEF Sides
<1>4. Top.from \in S /\ SlotSides(nodes, arrays, stack, S, Top.from)
  BY <1>2, <1>3 DEF Siding, FrameSides
<1>5. ref' > 0 => ref' \in S
  BY <1>1, <1>2, <1>4 DEF SlotSides, Theirs, Below, Kids
<1> QED BY <1>1, <1>3, <1>5 DEF Sides

LEMMA PopSides ==
  ASSUME Typing, NEW S, Sides(S), EndOfChildren
  PROVE  Sides(S)'
<1> DEFINE n == Len(stack)
<1>1. /\ stack # << >> /\ Len(stack') = n - 1
      /\ \A k \in 1 .. Len(stack') : stack'[k] = stack[k]
      /\ mode' = "return" /\ ref' = Top.to /\ nodes' = nodes /\ arrays' = arrays /\ root' = root
  BY PopStep
<1>2. n \in 1 .. n /\ n \in Nat /\ Top = stack[n]
  BY <1>1, TopIs
<1>3. Siding(nodes, arrays, stack, S) /\ (root > 0 => root \in S)
  BY DEF Sides
<1> HIDE DEF n
<1>4. /\ \A k \in 1 .. Len(stack') : k \in 1 .. n /\ k - 1 \in 0 .. Len(stack')
      /\ \A k \in 0 .. Len(stack') : k > 0 => k \in 1 .. Len(stack')
      /\ n - 1 \in 0 .. Len(stack')
  BY <1>1, <1>2
<1>5. \A k \in 0 .. Len(stack') : Inside(nodes, stack', S, k) <=> Inside(nodes, stack, S, k)
  BY <1>1, <1>4 DEF Inside
<1>6. ASSUME NEW r \in 1 .. Len(nodes), nodes[r].kind \notin Leaves PROVE SlotSides(nodes, arrays, stack', S, r)
  <2>1. SlotSides(nodes, arrays, stack, S, r)
    BY <1>3, <1>6 DEF Siding
  <2>2. \A i \in 1 .. Len(Below(nodes, arrays, r)) :
          Pending(nodes, stack, nodes[r].kids, i) => Pending(nodes, stack', nodes[r].kids, i)
    BY <1>6, PopPending
  <2> QED BY <2>1, <2>2 DEF SlotSides
<1>7. \A k \in 1 .. Len(stack') : FrameSides(nodes, stack', S, k)
  <2> TAKE k \in 1 .. Len(stack')
  <2>1. FrameSides(nodes, stack, S, k) /\ stack'[k] = stack[k]
    BY <1>1, <1>3, <1>4 DEF Siding, n
  <2> QED BY <1>4, <1>5, <2>1 DEF FrameSides
<1>8. Siding(nodes, arrays, stack', S)
  BY <1>3, <1>6, <1>7 DEF Siding
<1>9. Top.to \in S <=> Inside(nodes, stack', S, Len(stack'))
  <2>1. FrameSides(nodes, stack, S, n)
    BY <1>2, <1>3 DEF Siding, n
  <2> QED BY <1>1, <1>2, <1>4, <1>5, <2>1 DEF FrameSides
<1> QED BY <1>1, <1>3, <1>8, <1>9 DEF Sides

LEMMA StoreSides ==
  ASSUME Typing, NEW S, Sides(S), StoreChild
  PROVE  Sides(S)'
<1> DEFINE n == Len(stack)
           a == nodes[Top.to].kids
<1>1. /\ stack # << >> /\ a \in 1 .. Len(arrays) /\ Top.at \in 1 .. Len(arrays[a])
      /\ \A b \in 1 .. Len(arrays) : b # a => arrays'[b] = arrays[b]
      /\ Len(arrays'[a]) = Len(arrays[a]) /\ arrays'[a][Top.at] = ref
      /\ \A i \in 1 .. Len(arrays[a]) : i # Top.at => arrays'[a][i] = arrays[a][i]
      /\ Len(stack') = n /\ \A k \in 1 .. n : k # n => stack'[k] = stack[k]
      /\ stack'[n] = [from |-> Top.from, to |-> Top.to, at |-> Top.at + 1]
      /\ mode = "return" /\ mode' = "loop" /\ UNCHANGED <<nodes, root, ref>>
  BY StoreStep
<1>2. /\ n \in 1 .. n /\ n \in Nat /\ n > 0 /\ Top = stack[n]
      /\ Top.to \in 1 .. Len(nodes) /\ nodes[Top.to].kind \notin Leaves
  BY <1>1, TopIs DEF IsFrame
<1>3. /\ Siding(nodes, arrays, stack, S) /\ (root > 0 => root \in S)
      /\ (ref > 0 => (ref \in S <=> Inside(nodes, stack, S, n)))
  BY <1>1 DEF Sides
<1>4. /\ S \subseteq 1 .. Len(nodes) /\ Apart(nodes, S) /\ Len(nodes) \in Nat
      /\ \A r \in 1 .. Len(nodes) : nodes[r].kind \notin Leaves => SlotSides(nodes, arrays, stack, S, r)
      /\ \A k \in 1 .. n : FrameSides(nodes, stack, S, k)
  BY <1>3, RefIs DEF Siding
<1>5. \A k \in 1 .. n : stack'[k].from = stack[k].from /\ stack'[k].to = stack[k].to
  <2>1. stack'[n].from = stack[n].from /\ stack'[n].to = stack[n].to
    <3>1. stack'[n] = [from |-> Top.from, to |-> Top.to, at |-> Top.at + 1]
      BY <1>1
    <3>2. stack'[n].from = Top.from /\ stack'[n].to = Top.to
      BY <3>1
    <3> QED BY <1>2, <3>2
  <2> QED BY <1>1, <2>1
<1>6. ref > 0 => (ref \in S <=> Theirs(nodes, S, Top.to))
  BY <1>2, <1>3 DEF Inside
<1>7. \A b : \A i \in Int : Pending(nodes, stack, b, i) /\ (b # a \/ i # Top.at) => Pending(nodes, stack', b, i)
  BY StorePending
<1> HIDE DEF n, a
<1>8. ASSUME NEW r \in 1 .. Len(nodes), nodes[r].kind \notin Leaves PROVE SlotSides(nodes, arrays', stack', S, r)
  <2>1. SlotSides(nodes, arrays, stack, S, r)
    BY <1>4, <1>8
  <2>2. nodes[r].kids \in 1 .. Len(arrays)
    BY <1>8, NodesAre DEF Typing
  <2>3. CASE nodes[r].kids # a
    <3>1. Below(nodes, arrays', r) = Below(nodes, arrays, r)
      BY <1>1, <2>2, <2>3 DEF Below
    <3>2. \A i \in 1 .. Len(Below(nodes, arrays, r)) :
            Pending(nodes, stack, nodes[r].kids, i) => Pending(nodes, stack', nodes[r].kids, i)
      BY <1>7, <2>3
    <3> QED BY <2>1, <3>1, <3>2 DEF SlotSides
  <2>4. CASE nodes[r].kids = a
    <3>1. Below(nodes, arrays', r) = arrays'[a] /\ Below(nodes, arrays, r) = arrays[a]
      BY <2>4 DEF Below
    <3>2. Theirs(nodes, S, r) <=> Theirs(nodes, S, Top.to)
      BY <1>2, <1>4, <1>8, <2>4 DEF Apart, a
    <3>3. ref \in S => ref > 0
      BY <1>4
    <3>4. ASSUME NEW i \in 1 .. Len(arrays'[a])
          PROVE  /\ Theirs(nodes, S, r) /\ arrays'[a][i] > 0 => arrays'[a][i] \in S
                 /\ ~Theirs(nodes, S, r) /\ arrays'[a][i] \in S => Pending(nodes, stack', nodes[r].kids, i)
      <4>1. CASE i = Top.at
        BY <1>1, <1>6, <3>2, <3>3, <4>1
      <4>2. CASE i # Top.at
        <5>1. i \in 1 .. Len(arrays[a]) /\ arrays'[a][i] = arrays[a][i] /\ i \in Int
          BY <1>1, <4>2
        <5>2. /\ Theirs(nodes, S, r) /\ arrays[a][i] > 0 => arrays[a][i] \in S
              /\ ~Theirs(nodes, S, r) /\ arrays[a][i] \in S => Pending(nodes, stack, nodes[r].kids, i)
          BY <2>1, <3>1, <5>1 DEF SlotSides
        <5> QED BY <1>7, <4>2, <5>1, <5>2
      <4> QED BY <4>1, <4>2
    <3> QED BY <3>1, <3>4 DEF SlotSides
  <2> QED BY <2>3, <2>4
<1>9. \A k \in 1 .. n : FrameSides(nodes, stack', S, k)
  <2> TAKE k \in 1 .. n
  <2>1. k - 1 > 0 => k - 1 \in 1 .. n
    BY <1>2
  <2>2. Inside(nodes, stack', S, k - 1) <=> Inside(nodes, stack, S, k - 1)
    BY <1>5, <2>1 DEF Inside
  <2> QED BY <1>4, <1>5, <2>2 DEF FrameSides
<1>10. Siding(nodes, arrays', stack', S)
  BY <1>1, <1>4, <1>8, <1>9 DEF Siding
<1> QED BY <1>1, <1>3, <1>10 DEF Sides

LEMMA SidesInit ==
  ASSUME Init, Typing PROVE \E S : Sides(S)
<1> DEFINE S == 1 .. Len(nodes)
<1>1. stack = << >> /\ mode = "call" /\ ref = root /\ Len(stack) = 0
  BY SeqOfSome, SeqDomain DEF Init
<1>2. Heaped(nodes, arrays) /\ Len(nodes) \in Nat /\ ref \in Refs(nodes)
  BY RefIs DEF Typing
<1>3. ref > 0 => ref \in S
  BY <1>2, RefsAre DEF Heaped
<1>4. \A r \in 1 .. Len(nodes) : Theirs(nodes, S, r)
  BY DEF Theirs
<1>5. ASSUME NEW r \in 1 .. Len(nodes), nodes[r].kind \notin Leaves PROVE SlotSides(nodes, arrays, stack, S, r)
  <2>1. nodes[r].kids \in 1 .. Len(arrays)
    BY <1>2, <1>5, NodesAre
  <2>2. \A i \in 1 .. Len(Below(nodes, arrays, r)) : Below(nodes, arrays, r)[i] \in Refs(nodes)
    BY <1>2, <2>1 DEF Heaped, Below
  <2>3. \A v \in Refs(nodes) : v > 0 => v \in S
    BY <1>2, RefsAre DEF Heaped
  <2> HIDE DEF S
  <2> QED BY <1>4, <2>2, <2>3 DEF SlotSides
<1>6. Siding(nodes, arrays, stack, S)
  <2>1. S \subseteq 1 .. Len(nodes) /\ \A k \in 1 .. 0 : FALSE
    OBVIOUS
  <2> HIDE DEF S
  <2> QED BY <1>1, <1>4, <1>5, <2>1 DEF Siding, Apart
<1>7. Sides(S)
  BY <1>1, <1>3, <1>6 DEF Sides
<1> QED BY <1>7

LEMMA SidesStep ==
  ASSUME Typing, NEW N, Copies(N), NEW S, Sides(S), [Next]_vars
  PROVE  \E T : Sides(T)'
<1>1. CASE CloneHole
  <2>1. ~(ref > 0)
    BY <1>1 DEF CloneHole, Nothing, NilLeaf
  <2>2. Sides(S)'
    BY <1>1, <2>1 DEF CloneHole, Return, Sides
  <2> QED BY <2>2
<1>2. CASE ClonePanics
  BY <1>2 DEF ClonePanics, Sides
<1>3. CASE CloneLeaf
  <2>1. PICK T : T = SideOf(nodes, stack, S)
    OBVIOUS
  <2>2. Sides(T)'
    BY <1>3, <2>1, LeafSides
  <2> QED BY <2>2
<1>4. CASE CloneComposite
  <2>1. PICK T : T = SideOf(nodes, stack, S)
    OBVIOUS
  <2>2. Sides(T)'
    BY <1>4, <2>1, CompositeSides
  <2> QED BY <2>2
<1>5. CASE CloneChild
  <2>1. Sides(S)'
    BY <1>5, ChildSides
  <2> QED BY <2>1
<1>6. CASE StoreChild
  <2>1. Sides(S)'
    BY <1>6, StoreSides
  <2> QED BY <2>1
<1>7. CASE EndOfChildren
  <2>1. Sides(S)'
    BY <1>7, PopSides
  <2> QED BY <2>1
<1>8. CASE EndOfClone
  <2>1. Len(stack) = 0 /\ ~(Len(stack) > 0)
    BY <1>8, SeqOfSome, SeqDomain DEF EndOfClone
  <2>2. Sides(S)'
    BY <1>8, <2>1 DEF EndOfClone, Sides, Inside
  <2> QED BY <2>2
<1>9. CASE UNCHANGED vars
  BY <1>9 DEF vars, Sides
<1> QED BY <1>1, <1>2, <1>3, <1>4, <1>5, <1>6, <1>7, <1>8, <1>9 DEF Next

(***************************************************************************)
(* The clone is the tree that was cloned, and on its own.                  *)
(***************************************************************************)
LEMMA DeepThen ==
  ASSUME Typing, NEW N, Copies(N), NEW S, Sides(S) PROVE CloneIsDeep
<1> SUFFICES ASSUME mode = "done"
             PROVE  /\ Tree(ref) = original /\ Own \cap Whole = {}
                    /\ ArraysOf({r \in Own : nodes[r].kind # "import"}) \cap ArraysOf(Whole) = {}
  BY DEF CloneIsDeep
<1>1. /\ stack = << >> /\ Len(stack) = 0 /\ Heaped(nodes, arrays) /\ Len(nodes) \in Nat
      /\ ref \in Refs(nodes) /\ root \in Refs(nodes)
  BY RefIs, SeqOfSome, SeqDomain DEF Typing
<1>2. Tree(ref) = original
  <2>1. Matches(nodes, stack, N, ref, Memory[original].root)
    BY <1>1 DEF Copies, Wanted
  <2> QED BY <1>1, <2>1, CopiesAreAlike, MemoryIs
<1>3. /\ Siding(nodes, arrays, stack, S) /\ (root > 0 => root \in S) /\ (ref > 0 => ref \notin S)
  BY DEF Sides
<1>4. \A b, i : ~Pending(nodes, stack, b, i)
  <2>1. \A k \in 1 .. 0 : FALSE
    OBVIOUS
  <2> QED BY <1>1, <2>1 DEF Pending
<1> DEFINE O == (1 .. Len(nodes)) \ S
<1>5. ASSUME NEW m \in 1 .. Len(nodes), NEW i \in 1 .. Len(ChildrenIn(nodes, arrays, m)),
             ChildrenIn(nodes, arrays, m)[i] > 0
      PROVE  /\ ChildrenIn(nodes, arrays, m)[i] \in 1 .. Len(nodes)
             /\ m \in S => ChildrenIn(nodes, arrays, m)[i] \in S
             /\ m \notin S /\ nodes[m].kind # "import" => ChildrenIn(nodes, arrays, m)[i] \notin S
  <2>1. ChildrenIn(nodes, arrays, m)[i] \in Refs(nodes)
    BY <1>1, ChildrenAre
  <2>2. ChildrenIn(nodes, arrays, m)[i] \in 1 .. Len(nodes)
    BY <1>1, <1>5, <2>1, RefsAre DEF Heaped
  <2>3. nodes[m].kind \notin Leaves
    <3> SUFFICES ASSUME nodes[m].kind \in Leaves PROVE FALSE
      OBVIOUS
    <3>1. nodes[m].kids = 0
      BY <1>1 DEF Heaped, IsNode
    <3>2. ChildrenIn(nodes, arrays, m) = << >> /\ Len(<< >>) = 0
      BY <3>1, SeqOfSome, SeqDomain DEF ChildrenIn
    <3>3. \A k \in 1 .. 0 : FALSE
      OBVIOUS
    <3> QED BY <3>2, <3>3
  <2>4. SlotSides(nodes, arrays, stack, S, m) /\ ChildrenIn(nodes, arrays, m) = Below(nodes, arrays, m)
    <3>1. nodes[m].kids # 0
      BY <1>1, <2>3, NodesAre
    <3> QED BY <1>3, <2>3, <3>1 DEF Siding, ChildrenIn, Below
  <2> QED BY <1>4, <1>5, <2>2, <2>4 DEF SlotSides, Theirs
<1>6. Whole \subseteq S
  <2>1. \A m \in S : nodes[m].kind \in Kinds => \A i \in 1 .. Len(ChildrenIn(nodes, arrays, m)) :
          ChildrenIn(nodes, arrays, m)[i] > 0 => ChildrenIn(nodes, arrays, m)[i] \in S
    BY <1>3, <1>5 DEF Siding
  <2>2. S \in SUBSET (1 .. Len(nodes))
    BY <1>3 DEF Siding
  <2> QED BY <1>1, <1>3, <2>1, <2>2, ReachIn DEF Whole
<1>7. Own \subseteq O
  <2>1. \A m \in O : nodes[m].kind \in Kinds \ {"import"} => \A i \in 1 .. Len(ChildrenIn(nodes, arrays, m)) :
          ChildrenIn(nodes, arrays, m)[i] > 0 => ChildrenIn(nodes, arrays, m)[i] \in O
    BY <1>5
  <2>2. ref > 0 => ref \in O
    BY <1>1, <1>3, RefsAre DEF Heaped
  <2>3. O \in SUBSET (1 .. Len(nodes))
    OBVIOUS
  <2> HIDE DEF O
  <2> QED BY <1>1, <2>1, <2>2, <2>3, ReachIn DEF Own
<1>8. ASSUME NEW r \in Own, nodes[r].kind # "import", NEW s \in Whole, nodes[r].kids = nodes[s].kids
      PROVE  nodes[r].kids = 0
  <2>1. r \in 1 .. Len(nodes) /\ s \in 1 .. Len(nodes) /\ r \notin S /\ s \in S
    BY <1>3, <1>6, <1>7 DEF Siding
  <2>2. ~Theirs(nodes, S, r) /\ Theirs(nodes, S, s)
    BY <1>8, <2>1 DEF Theirs
  <2>3. nodes[s].kind \in Leaves
    BY <1>3, <1>8, <2>1, <2>2 DEF Siding, Apart
  <2> QED BY <1>1, <1>8, <2>1, <2>3 DEF Heaped, IsNode
<1>9. Own \cap Whole = {}
  BY <1>6, <1>7
<1>10. ArraysOf({r \in Own : nodes[r].kind # "import"}) \cap ArraysOf(Whole) = {}
  BY <1>8 DEF ArraysOf
<1> QED BY <1>2, <1>9, <1>10

(* When Clone is done, its result is the same tree as the original; no     *)
(* node and no array is in both, but below an import-go.                   *)
THEOREM CloneIsAlwaysDeep == Spec => []CloneIsDeep
<1> DEFINE Inv == Typing /\ (\E N : Copies(N)) /\ \E S : Sides(S)
<1>1. Init => Inv
  BY TypingInit, CopiesInit, SidesInit
<1>2. Inv /\ [Next]_vars => Inv'
  BY TypingStep, CopiesStep, SidesStep
<1>3. Inv => CloneIsDeep
  BY DeepThen
<1> QED BY <1>1, <1>2, <1>3, PTL DEF Spec

(***************************************************************************)
(* Equal, of trees without holes.                                          *)
(***************************************************************************)
LEMMA TreesAre ==
  /\ IsForest(Trees, Depth)
  /\ \A t \in Trees :
       /\ DOMAIN t.kids = 1 .. Len(t.kids) /\ Len(t.kids) \in Nat
       /\ \A i \in 1 .. Len(t.kids) : t.kids[i] \in Trees
<1>1. ASSUME NEW t \in Trees
      PROVE  /\ DOMAIN t.kids = 1 .. Len(t.kids) /\ Len(t.kids) \in Nat
             /\ \A i \in 1 .. Len(t.kids) : t.kids[i] \in Trees
  <2>1. t.kids \in Seq(Trees)
    BY TreesAssumption
  <2> QED BY <2>1, ElementOfSeq, LenProperties
<1>2. IsForest(Trees, Depth)
  BY <1>1, DepthAssumption DEF IsForest
<1> QED BY <1>1, <1>2

LEMMA FunctionOfTrees ==
  ASSUME NEW X, NEW u \in X, NEW G \in [Trees \X [Trees -> X] -> X], IsLocal(G, Trees, X)
  PROVE  \E f \in [Trees -> X] : \A n \in Trees : f[n] = G[<<n, f>>]
<1>1. IsForest(Trees, Depth) /\ IsRule(G, Trees, X) /\ X # {}
  BY TreesAre DEF IsRule
<1>2. HasSolution(G, Trees, X)
  BY <1>1, TreeFunction
<1> QED BY <1>2 DEF HasSolution

LEMMA CompleteIs ==
  \A t \in Trees : Complete(t) <=> t.kind \notin Holes /\ \A i \in DOMAIN t.kids : Complete(t.kids[i])
<1> DEFINE Is(f) == f = [u \in Trees |-> completeNode(u, f)]
           complete == CHOOSE f : Is(f)
<1>1. \E f : Is(f)
  <2> DEFINE G == [pair \in Trees \X [Trees -> BOOLEAN] |-> completeNode(pair[1], pair[2])]
  <2>1. \A t \in Trees, f \in [Trees -> BOOLEAN] : G[<<t, f>>] = completeNode(t, f)
    OBVIOUS
  <2>2. \A t, f : completeNode(t, f) \in BOOLEAN
    BY DEF completeNode
  <2>3. G \in [Trees \X [Trees -> BOOLEAN] -> BOOLEAN]
    BY <2>2
  <2> HIDE DEF G
  <2>4. IsLocal(G, Trees, BOOLEAN)
    <3>1. \A t \in Trees : \A f, g \in [Trees -> BOOLEAN] : AgreeBelow(f, g, t) => completeNode(t, f) = completeNode(t, g)
      BY DEF AgreeBelow, completeNode
    <3> QED BY <2>1, <3>1 DEF IsLocal
  <2>5. PICK f \in [Trees -> BOOLEAN] : \A t \in Trees : f[t] = G[<<t, f>>]
    BY <2>3, <2>4, FunctionOfTrees
  <2>6. f = [t \in Trees |-> f[t]] /\ \A t \in Trees : f[t] = completeNode(t, f)
    BY <2>1, <2>5
  <2>7. Is(f)
    BY <2>6
  <2> QED BY <2>7
<1>2. Is(complete)
  <2> HIDE DEF Is
  <2> QED BY <1>1
<1>3. \A t : Complete(t) = complete[t]
  BY Zenon DEF Complete
<1> HIDE DEF complete
<1>4. \A t \in Trees : complete[t] = completeNode(t, complete)
  BY <1>2
<1> QED BY <1>3, <1>4 DEF completeNode

IsEqual(E) == \A a, b \in Trees : E[<<a, b>>] = equalNode(a, b, E)

LEMMA EqualIs == \E E : IsEqual(E) /\ \A a, b : Equal(a, b) = E[<<a, b>>]
<1> DEFINE Is(f) == f = [p \in Trees \X Trees |-> equalNode(p[1], p[2], f)]
           equal == CHOOSE f : Is(f)
<1>1. \E f : Is(f)
  <2> DEFINE X == [Trees -> BOOLEAN]
             pairs(f) == [p \in Trees \X Trees |-> f[p[1]][p[2]]]
             row(t, f) == [u \in Trees |-> equalNode(t, u, pairs(f))]
             G == [pair \in Trees \X [Trees -> X] |-> row(pair[1], pair[2])]
  <2>1. \A a, b, e : equalNode(a, b, e) \in BOOLEAN
    BY DEF equalNode, KeywordEqual, IfEqual, LeafEqual, equalSlices
  <2>2. \A t, f : row(t, f) \in X
    BY <2>1
  <2>3. G \in [Trees \X [Trees -> X] -> X] /\ \A t \in Trees, f \in [Trees -> X] : G[<<t, f>>] = row(t, f)
    <3> HIDE DEF row, X
    <3> QED BY <2>2
  <2>4. IsLocal(G, Trees, X)
    <3> SUFFICES ASSUME NEW t \in Trees, NEW f \in [Trees -> X], NEW g \in [Trees -> X], AgreeBelow(f, g, t)
                 PROVE  row(t, f) = row(t, g)
      <4> HIDE DEF row, X, G
      <4> QED BY <2>3 DEF IsLocal
    <3>1. ASSUME NEW u \in Trees PROVE equalNode(t, u, pairs(f)) = equalNode(t, u, pairs(g))
      <4>1. \A i \in 1 .. Len(t.kids), j \in 1 .. Len(u.kids) :
              pairs(f)[<<t.kids[i], u.kids[j]>>] = pairs(g)[<<t.kids[i], u.kids[j]>>]
        <5> SUFFICES ASSUME NEW i \in 1 .. Len(t.kids), NEW j \in 1 .. Len(u.kids)
                     PROVE  pairs(f)[<<t.kids[i], u.kids[j]>>] = pairs(g)[<<t.kids[i], u.kids[j]>>]
          BY Zenon
        <5>1. <<t.kids[i], u.kids[j]>> \in Trees \X Trees /\ f[t.kids[i]] = g[t.kids[i]]
          BY TreesAre DEF AgreeBelow
        <5> QED BY <5>1
      <4>2. (t.kind = "if" => Len(t.kids) = 3) /\ (u.kind = "if" => Len(u.kids) = 3)
        BY TreesAssumption
      <4>3. DOMAIN t.kids = 1 .. Len(t.kids) /\ DOMAIN u.kids = 1 .. Len(u.kids)
        BY TreesAre
      <4> HIDE DEF pairs
      <4>4. t.kind = "if" => IfEqual(t, u, pairs(f)) = IfEqual(t, u, pairs(g))
        BY <4>1, <4>2 DEF IfEqual
      <4>5. equalSlices(t.kids, u.kids, pairs(f)) = equalSlices(t.kids, u.kids, pairs(g))
        BY <4>1, <4>3 DEF equalSlices, SameLength
      <4> QED BY <4>4, <4>5 DEF equalNode
    <3> QED BY <3>1
  <2>5. [u \in Trees |-> TRUE] \in X
    OBVIOUS
  <2> HIDE DEF X, G
  <2>6. PICK f \in [Trees -> X] : \A t \in Trees : f[t] = G[<<t, f>>]
    BY <2>3, <2>4, <2>5, FunctionOfTrees
  <2>7. \A t, u \in Trees : f[t][u] = equalNode(t, u, pairs(f))
    <3>1. \A t \in Trees : f[t] = row(t, f)
      BY <2>3, <2>6, Zenon
    <3> HIDE DEF pairs
    <3> QED BY <3>1
  <2>8. \A p \in Trees \X Trees : p[1] \in Trees /\ p[2] \in Trees /\ pairs(f)[p] = f[p[1]][p[2]]
    OBVIOUS
  <2>9. \A p \in Trees \X Trees : pairs(f)[p] = equalNode(p[1], p[2], pairs(f))
    <3> HIDE DEF pairs
    <3> QED BY <2>7, <2>8
  <2>10. pairs(f) = [p \in Trees \X Trees |-> pairs(f)[p]]
    OBVIOUS
  <2> HIDE DEF pairs
  <2>11. Is(pairs(f))
    BY <2>9, <2>10
  <2> HIDE DEF Is
  <2> QED BY <2>11
<1>2. Is(equal)
  <2> HIDE DEF Is
  <2> QED BY <1>1
<1>3. \A a, b : Equal(a, b) = equal[<<a, b>>]
  BY Zenon DEF Equal
<1> HIDE DEF equal
<1>4. IsEqual(equal)
  <2> SUFFICES ASSUME NEW a \in Trees, NEW b \in Trees PROVE equal[<<a, b>>] = equalNode(a, b, equal)
    BY DEF IsEqual
  <2>1. <<a, b>> \in Trees \X Trees /\ <<a, b>>[1] = a /\ <<a, b>>[2] = b
    OBVIOUS
  <2>2. equal[<<a, b>>] = equalNode(<<a, b>>[1], <<a, b>>[2], equal)
    BY <1>2, <2>1, Zenon
  <2> QED BY <2>1, <2>2
<1> QED BY <1>3, <1>4

LEMMA TreeIsItsParts ==
  \A a, b \in Trees :
    a = b <=> /\ a.kind = b.kind /\ a.val = b.val
              /\ Len(a.kids) = Len(b.kids) /\ \A i \in 1 .. Len(a.kids) : a.kids[i] = b.kids[i]
<1> SUFFICES ASSUME NEW a \in Trees, NEW b \in Trees, a.kind = b.kind, a.val = b.val,
                    Len(a.kids) = Len(b.kids), \A i \in 1 .. Len(a.kids) : a.kids[i] = b.kids[i]
             PROVE  a = b
  OBVIOUS
<1>1. a.kids \in Seq(Trees) /\ b.kids \in Seq(Trees)
  BY TreesAssumption
<1>2. a.kids = b.kids
  BY <1>1, SeqEqual
<1>3. a = [kind |-> a.kind, val |-> a.val, kids |-> a.kids] /\ b = [kind |-> b.kind, val |-> b.val, kids |-> b.kids]
  BY TreesAssumption
<1> QED BY <1>2, <1>3

LEMMA EqualTellsApart ==
  \A a, b \in Trees : Complete(a) /\ Complete(b) => (Equal(a, b) <=> a = b)
<1>1. PICK E : IsEqual(E) /\ \A a, b : Equal(a, b) = E[<<a, b>>]
  BY EqualIs
<1> DEFINE Tells(a) == Complete(a) => \A b \in Trees : Complete(b) => (E[<<a, b>>] <=> a = b)
           S == {a \in Trees : Tells(a)}
<1>2. ASSUME NEW a \in Trees, \A i \in DOMAIN a.kids : a.kids[i] \in S
      PROVE  a \in S
  <2> SUFFICES ASSUME Complete(a), NEW b \in Trees, Complete(b)
               PROVE  E[<<a, b>>] <=> a = b
    OBVIOUS
  <2>1. \A i \in DOMAIN a.kids, j \in DOMAIN b.kids : E[<<a.kids[i], b.kids[j]>>] <=> a.kids[i] = b.kids[j]
    <3> SUFFICES ASSUME NEW i \in DOMAIN a.kids, NEW j \in DOMAIN b.kids
                 PROVE  E[<<a.kids[i], b.kids[j]>>] <=> a.kids[i] = b.kids[j]
      OBVIOUS
    <3>1. Complete(a.kids[i]) /\ Complete(b.kids[j])
      BY CompleteIs
    <3>2. b.kids[j] \in Trees
      BY TreesAre
    <3>3. Tells(a.kids[i])
      BY <1>2
    <3> QED BY <3>1, <3>2, <3>3
  <2>2. E[<<a, b>>] = equalNode(a, b, E)
    BY <1>1 DEF IsEqual
  <2>3. a.kind \notin Holes /\ b.kind \notin Holes /\ \A i \in DOMAIN a.kids : a.kids[i].kind \notin Holes
    <3>1. \A i \in DOMAIN a.kids : a.kids[i] \in Trees /\ Complete(a.kids[i])
      BY CompleteIs, TreesAre
    <3> QED BY <3>1, CompleteIs
  <2>4. DOMAIN a.kids = 1 .. Len(a.kids) /\ DOMAIN b.kids = 1 .. Len(b.kids)
    BY TreesAre
  <2>5. a = b <=> /\ a.kind = b.kind /\ a.val = b.val
                  /\ Len(a.kids) = Len(b.kids) /\ \A i \in 1 .. Len(a.kids) : a.kids[i] = b.kids[i]
    BY TreeIsItsParts
  <2>6. CASE a.kind \in Leaves
    <3>1. b.kind \in Leaves => Len(a.kids) = Len(b.kids) /\ Len(a.kids) = 0
      <4>1. b.kind \in Leaves => a.kids = << >> /\ b.kids = << >>
        BY <2>6, TreesAssumption
      <4> QED BY <4>1
    <3>2. equalNode(a, b, E) <=> a.kind = b.kind /\ a.val = b.val
      <4>1. b.kind # "nothing"
        BY <2>3 DEF Holes
      <4>2. equalNode(a, b, E) <=> LeafEqual(a, b)
        BY <2>6, <4>1 DEF equalNode, KeywordEqual, Leaves
      <4> QED BY <4>2 DEF LeafEqual
    <3> QED BY <2>2, <2>5, <2>6, <3>1, <3>2
  <2>7. CASE a.kind = "if"
    <3>1. Len(a.kids) = 3 /\ (b.kind = "if" => Len(b.kids) = 3) /\ (b.kind = "if" => a.val = b.val)
      BY <2>7, TreesAssumption DEF Leaves
    <3>2. equalNode(a, b, E) <=> b.kind = "if" /\ \A i \in 1 .. 3 : E[<<a.kids[i], b.kids[i]>>]
      <4>1. \A i \in 1 .. 3 : a.kids[i].kind # "nothing"
        BY <2>3, <2>4, <3>1 DEF Holes
      <4>2. equalNode(a, b, E) <=> IfEqual(a, b, E)
        BY <2>7 DEF equalNode, Leaves
      <4> QED BY <4>1, <4>2 DEF IfEqual
    <3>3. b.kind = "if" => \A i \in 1 .. 3 : E[<<a.kids[i], b.kids[i]>>] <=> a.kids[i] = b.kids[i]
      BY <2>1, <2>4, <3>1
    <3> QED BY <2>2, <2>5, <2>7, <3>1, <3>2, <3>3
  <2>8. CASE a.kind \notin Leaves /\ a.kind # "if"
    <3>1. equalNode(a, b, E) <=> /\ a.kind = b.kind /\ a.val = b.val /\ Len(a.kids) = Len(b.kids)
                                 /\ \A i \in DOMAIN a.kids : E[<<a.kids[i], b.kids[i]>>]
      <4>1. equalNode(a, b, E) <=> LeafEqual(a, b) /\ equalSlices(a.kids, b.kids, E)
        BY <2>8 DEF equalNode, Leaves
      <4> QED BY <4>1 DEF LeafEqual, equalSlices, SameLength
    <3>2. Len(a.kids) = Len(b.kids) =>
            \A i \in 1 .. Len(a.kids) : E[<<a.kids[i], b.kids[i]>>] <=> a.kids[i] = b.kids[i]
      BY <2>1, <2>4
    <3> QED BY <2>2, <2>4, <2>5, <3>1, <3>2
  <2> QED BY <2>6, <2>7, <2>8
<1>3. \A a \in Trees : a \in S
  <2> HIDE DEF S
  <2>1. IsForest(Trees, Depth)
    BY TreesAre
  <2> QED BY <1>2, <2>1, TreeInduction
<1> QED BY <1>1, <1>3

(* Whatever is cloned, Equal tells it from every other tree, and finds it  *)
(* the same as itself: of trees none of whose nodes is missing.            *)
THEOREM EqualIsAlwaysSame == Spec => []EqualIsSame
<1>1. Typing => EqualIsSame
  <2>1. Typing => original \in Trees
    BY DEF Typing
  <2> QED BY <2>1, EqualTellsApart DEF EqualIsSame
<1> QED BY <1>1, TypingAlwaysHolds, PTL
=============================================================================
