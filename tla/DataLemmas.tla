----------------------------- MODULE DataLemmas -----------------------------
(***************************************************************************)
(* Lemmas about numbers, sequences and counts that the proofs of several   *)
(* components need.  Induction is stated with sets, so that it can be      *)
(* applied to a set of numbers {n \in Nat : ...}.                          *)
(***************************************************************************)
EXTENDS TLAPS, SequenceTheorems, FiniteSetTheorems, FunctionTheorems

(***************************************************************************)
(* Induction.                                                              *)
(***************************************************************************)
LEMMA LeastElement ==
  ASSUME NEW T \in SUBSET Nat, T # {}
  PROVE  \E m \in T : \A k \in T : m <= k
<1> DEFINE R == {pair \in Nat \X Nat : pair[1] < pair[2]}
<1>1. IsWellFoundedOn(R, Nat)
  BY NatLessThanWellFounded DEF OpToRel
<1>2. \A k, m \in Nat : k < m => <<k, m>> \in R
  BY Zenon
<1> HIDE DEF R
<1>3. PICK m \in T : \A k \in T : ~(<<k, m>> \in R)
  BY <1>1, WFMin
<1>4. \A k \in T : ~(k < m)
  BY <1>2, <1>3, Zenon
<1> QED BY <1>4

LEMMA Induction ==
  ASSUME NEW S \in SUBSET Nat, 0 \in S, \A n \in S : n + 1 \in S
  PROVE  \A n \in Nat : n \in S
<1> DEFINE T == Nat \ S
<1> SUFFICES ASSUME T # {} PROVE FALSE
  OBVIOUS
<1>1. T \in SUBSET Nat
  OBVIOUS
<1> HIDE DEF T
<1>2. PICK m \in T : \A k \in T : m <= k
  BY <1>1, LeastElement
<1>3. m \in Nat /\ m # 0 /\ m \notin S
  BY <1>2 DEF T
<1>4. m - 1 \in Nat /\ m - 1 \notin T
  BY <1>2, <1>3
<1>5. m - 1 \in S
  BY <1>4 DEF T
<1> QED BY <1>3, <1>5

(***************************************************************************)
(* Sequences of whatever elements.                                         *)
(***************************************************************************)
IsSeq(s) == \E S : s \in Seq(S)

LEMMA SeqDomain ==
  ASSUME NEW s, IsSeq(s)
  PROVE  /\ Len(s) \in Nat /\ DOMAIN s = 1 .. Len(s)
         /\ s = << >> <=> Len(s) = 0
  BY LenProperties, EmptySeq DEF IsSeq

LEMMA SeqSame ==
  ASSUME NEW s, IsSeq(s), NEW t, IsSeq(t), Len(s) = Len(t), \A i \in 1 .. Len(s) : s[i] = t[i]
  PROVE  s = t
<1>1. PICK S : s \in Seq(S)
  BY DEF IsSeq
<1>2. PICK T : t \in Seq(T)
  BY DEF IsSeq
<1>3. s \in Seq(S \cup T) /\ t \in Seq(S \cup T)
  BY <1>1, <1>2, SeqMonotonic
<1> QED BY <1>3, SeqEqual

LEMMA SeqOfSome == IsSeq(<< >>) /\ \A e : IsSeq(<<e>>)
<1>1. << >> \in Seq({})
  BY EmptySeq
<1>2. ASSUME NEW e PROVE <<e>> \in Seq({e})
  OBVIOUS
<1> QED BY <1>1, <1>2 DEF IsSeq

LEMMA SeqAppend ==
  ASSUME NEW s, IsSeq(s), NEW e
  PROVE  /\ IsSeq(Append(s, e))
         /\ Len(Append(s, e)) = Len(s) + 1
         /\ \A i \in 1 .. Len(s) : Append(s, e)[i] = s[i]
         /\ Append(s, e)[Len(s) + 1] = e
<1>1. PICK S : s \in Seq(S)
  BY DEF IsSeq
<1> DEFINE T == S \cup {e}
<1>2. s \in Seq(T) /\ e \in T
  BY <1>1, SeqMonotonic
<1> HIDE DEF T
<1>3. Append(s, e) \in Seq(T)
  BY <1>2, AppendProperties
<1> QED BY <1>2, <1>3, AppendProperties DEF IsSeq

LEMMA SeqSub ==
  ASSUME NEW s, IsSeq(s), NEW m \in Nat \ {0}, NEW n \in Nat, n <= Len(s)
  PROVE  /\ IsSeq(SubSeq(s, m, n))
         /\ Len(SubSeq(s, m, n)) = IF m <= n THEN n - m + 1 ELSE 0
         /\ \A i \in 1 .. n - m + 1 : SubSeq(s, m, n)[i] = s[m + i - 1]
<1>1. PICK S : s \in Seq(S)
  BY DEF IsSeq
<1>2. \A i \in m .. n : s[i] \in S
  BY <1>1, ElementOfSeq, LenProperties
<1>3. m \in Int /\ n \in Int
  OBVIOUS
<1>4. /\ SubSeq(s, m, n) \in Seq(S)
      /\ Len(SubSeq(s, m, n)) = IF m <= n THEN n - m + 1 ELSE 0
      /\ \A i \in 1 .. n - m + 1 : SubSeq(s, m, n)[i] = s[m + i - 1]
  BY <1>2, <1>3, SubSeqProperties
<1> QED BY <1>4 DEF IsSeq

LEMMA SeqTail ==
  ASSUME NEW s, IsSeq(s), s # << >>
  PROVE  /\ IsSeq(Tail(s)) /\ Len(Tail(s)) = Len(s) - 1
         /\ \A i \in 1 .. Len(s) - 1 : Tail(s)[i] = s[i + 1]
<1>1. PICK S : s \in Seq(S)
  BY DEF IsSeq
<1> QED BY <1>1, HeadTailProperties DEF IsSeq

LEMMA SeqExcept ==
  ASSUME NEW s, IsSeq(s), NEW i \in 1 .. Len(s), NEW e
  PROVE  /\ IsSeq([s EXCEPT ![i] = e])
         /\ Len([s EXCEPT ![i] = e]) = Len(s)
         /\ [s EXCEPT ![i] = e][i] = e
         /\ \A j \in 1 .. Len(s) : j # i => [s EXCEPT ![i] = e][j] = s[j]
<1>1. PICK S : s \in Seq(S)
  BY DEF IsSeq
<1> DEFINE T == S \cup {e}
<1>2. s \in Seq(T) /\ e \in T
  BY <1>1, SeqMonotonic
<1> HIDE DEF T
<1>3. [s EXCEPT ![i] = e] \in Seq(T)
  BY <1>2, ExceptSeq
<1> QED BY <1>2, <1>3, ExceptSeq DEF IsSeq

(***************************************************************************)
(* How many numbers of an interval are in a set.                           *)
(***************************************************************************)
Tally(S, i, j) == Cardinality(S \cap i .. j)

LEMMA TallyStep ==
  ASSUME NEW S, NEW i \in Int, NEW j \in Int, i <= j + 1
  PROVE  /\ Tally(S, i, j) \in Nat
         /\ Tally(S, i, j + 1) = Tally(S, i, j) + (IF j + 1 \in S THEN 1 ELSE 0)
<1>1. IsFiniteSet(S \cap i .. j)
  BY FS_Interval, FS_Intersection
<1>2. Tally(S, i, j) \in Nat
  BY <1>1, FS_CardinalityType DEF Tally
<1>3. CASE j + 1 \in S
  <2>1. S \cap i .. j + 1 = (S \cap i .. j) \cup {j + 1} /\ j + 1 \notin S \cap i .. j
    BY <1>3
  <2>2. Cardinality((S \cap i .. j) \cup {j + 1}) = Cardinality(S \cap i .. j) + 1
    BY <1>1, <2>1, FS_AddElement
  <2> QED BY <1>2, <1>3, <2>1, <2>2 DEF Tally
<1>4. CASE j + 1 \notin S
  <2>1. S \cap i .. j + 1 = S \cap i .. j
    BY <1>4
  <2> QED BY <1>2, <1>4, <2>1 DEF Tally
<1> QED BY <1>2, <1>3, <1>4

LEMMA TallyNone ==
  ASSUME NEW S, NEW i \in Int, NEW j \in Int, j < i PROVE Tally(S, i, j) = 0
<1>1. S \cap i .. j = {}
  OBVIOUS
<1> QED BY <1>1, FS_EmptySet DEF Tally

LEMMA TallyPositive ==
  ASSUME NEW S, NEW i \in Int, NEW j \in Int, i <= j, i \in S
  PROVE  Tally(S, i, j) \in Nat /\ Tally(S, i, j) >= 1
<1>1. IsFiniteSet(S \cap i .. j)
  BY FS_Interval, FS_Intersection
<1>2. Tally(S, i, j) \in Nat /\ Tally(S, i, j) # 0
  BY <1>1, FS_CardinalityType, FS_EmptySet DEF Tally
<1> QED BY <1>2

(***************************************************************************)
(* Division.                                                               *)
(***************************************************************************)
LEMMA DivisionIs ==
  ASSUME NEW m \in Nat \ {0}, NEW a \in Int
  PROVE  a % m \in 0 .. m - 1 /\ a \div m \in Int /\ a = m * (a \div m) + (a % m)
  OBVIOUS

LEMMA SmallMultiple ==
  ASSUME NEW m \in Nat \ {0}, NEW q \in Int, m * q < m, -m < m * q
  PROVE  q = 0
<1>1. q >= 1 => m * q >= m
  OBVIOUS
<1>2. q <= -1 => m * q <= -m
  OBVIOUS
<1> QED BY <1>1, <1>2

LEMMA RemainderIs ==
  ASSUME NEW m \in Nat \ {0}, NEW a \in Int, NEW q \in Int, NEW r \in 0 .. m - 1, a = m * q + r
  PROVE  a % m = r
<1>1. PICK s \in 0 .. m - 1, t \in Int : s = a % m /\ a = m * t + s
  BY DivisionIs
<1>2. m * (q - t) = s - r
  <2>1. m * (q - t) = m * q - m * t
    OBVIOUS
  <2> DEFINE x == m * q
             y == m * t
  <2>2. x \in Int /\ y \in Int /\ a = x + r /\ a = y + s
    BY <1>1
  <2> HIDE DEF x, y
  <2>3. x - y = s - r
    BY <2>2
  <2> QED BY <2>1, <2>3 DEF x, y
<1>3. q - t = 0
  BY <1>2, SmallMultiple
<1> QED BY <1>1, <1>2, <1>3

(***************************************************************************)
(* Folding a function of pairs, G, over values v[1], ..., v[n], from u on. *)
(* When G lets two values change places, the order of all does not matter. *)
(***************************************************************************)
(* A function with a value for every set of places, which it gets from the *)
(* value of the set without any of its places.                             *)
SetFold(G, u, v, n, F) ==
  /\ F[{}] = u
  /\ \A s \in SUBSET (1 .. n) : \A k \in s : F[s] = G[<<F[s \ {k}], v[k]>>]

Exchange(G, X, V) == \A x \in X, a, b \in V : G[<<G[<<x, a>>], b>>] = G[<<G[<<x, b>>], a>>]

AreIn(v, n, V) == \A i \in 1 .. n : v[i] \in V

LEMMA SetFoldExists ==
  ASSUME NEW X, NEW V, NEW G \in [X \X V -> X], NEW u \in X, NEW v, Exchange(G, X, V)
  PROVE  \A n \in Nat : (\A i \in 1 .. n : v[i] \in V) =>
           \E F \in [SUBSET (1 .. n) -> X] : SetFold(G, u, v, n, F)
<1> DEFINE Exists(n) == \E F \in [SUBSET (1 .. n) -> X] : SetFold(G, u, v, n, F)
           S == {n \in Nat : (\A i \in 1 .. n : v[i] \in V) => Exists(n)}
<1>1. 0 \in S
  <2> DEFINE F == [s \in SUBSET (1 .. 0) |-> u]
  <2>1. F \in [SUBSET (1 .. 0) -> X] /\ 1 .. 0 = {}
    OBVIOUS
  <2>2. SetFold(G, u, v, 0, F)
    BY <2>1 DEF SetFold
  <2> QED BY <2>1, <2>2
<1>2. ASSUME NEW n \in S PROVE n + 1 \in S
  <2>1. n \in Nat /\ n + 1 \in Nat /\ ((\A i \in 1 .. n : v[i] \in V) => Exists(n))
    <3> HIDE DEF Exists
    <3> QED OBVIOUS
  <2> SUFFICES ASSUME \A i \in 1 .. n + 1 : v[i] \in V PROVE Exists(n + 1)
    <3> HIDE DEF Exists
    <3> QED BY <2>1
  <2>2. Exists(n)
    <3>1. \A i \in 1 .. n : i \in 1 .. n + 1
      BY <2>1
    <3> QED BY <2>1, <3>1, Zenon
  <2>3. PICK F \in [SUBSET (1 .. n) -> X] : SetFold(G, u, v, n, F)
    BY <2>2, Zenon
  <2> DEFINE m == n + 1
             Less(s) == s \ {m}
             H == [s \in SUBSET (1 .. m) |-> IF m \in s THEN G[<<F[Less(s)], v[m]>>] ELSE F[s]]
  <2>4. n \in Nat /\ m \in Nat /\ m \notin 1 .. n /\ 1 .. m = (1 .. n) \cup {m} /\ v[m] \in V
    OBVIOUS
  <2> HIDE DEF m
  <2>5. \A s \in SUBSET (1 .. m) : Less(s) \in SUBSET (1 .. n) /\ (m \notin s => s \in SUBSET (1 .. n))
    BY <2>4
  <2>6. H \in [SUBSET (1 .. m) -> X]
    BY <2>4, <2>5
  <2>7. \A s \in SUBSET (1 .. m) : H[s] = IF m \in s THEN G[<<F[Less(s)], v[m]>>] ELSE F[s]
    OBVIOUS
  <2> HIDE DEF H
  <2>8. F[{}] = u /\ \A s \in SUBSET (1 .. n) : \A k \in s : F[s] = G[<<F[s \ {k}], v[k]>>]
    BY <2>3 DEF SetFold
  <2>9. H[{}] = u
    BY <2>7, <2>8
  <2>10. ASSUME NEW s \in SUBSET (1 .. m), NEW k \in s PROVE H[s] = G[<<H[s \ {k}], v[k]>>]
    <3> DEFINE t == s \ {k}
    <3>0. t \in SUBSET (1 .. m)
      OBVIOUS
    <3>1. CASE m \notin s
      <4>1. s \in SUBSET (1 .. n) /\ m \notin t
        BY <2>5, <3>1
      <4> QED BY <2>7, <2>8, <3>0, <3>1, <4>1
    <3>2. CASE k = m
      <4>1. m \in s /\ m \notin t /\ t = Less(s)
        BY <3>2
      <4>2. H[s] = G[<<F[Less(s)], v[m]>>] /\ H[t] = F[t]
        BY <2>7, <3>0, <4>1
      <4> QED BY <3>2, <4>1, <4>2
    <3>3. CASE m \in s /\ k # m
      <4> DEFINE r == Less(s) \ {k}
      <4>1. k \in 1 .. n /\ v[k] \in V /\ r \in SUBSET (1 .. n) /\ Less(s) \in SUBSET (1 .. n) /\ k \in Less(s)
        BY <2>4, <2>5, <3>3
      <4>2. F[Less(s)] = G[<<F[r], v[k]>>]
        BY <2>8, <4>1
      <4>3. m \in t /\ Less(t) = r
        BY <3>3
      <4>4. H[s] = G[<<G[<<F[r], v[k]>>], v[m]>>] /\ H[t] = G[<<F[r], v[m]>>]
        <5>1. H[s] = G[<<F[Less(s)], v[m]>>]
          BY <2>7, <3>3
        <5>2. H[t] = G[<<F[Less(t)], v[m]>>]
          BY <2>7, <3>0, <4>3
        <5> HIDE DEF r, t, Less
        <5> QED BY <4>2, <4>3, <5>1, <5>2
      <4>5. F[r] \in X
        BY <4>1
      <4> HIDE DEF r, t
      <4>6. G[<<G[<<F[r], v[k]>>], v[m]>>] = G[<<G[<<F[r], v[m]>>], v[k]>>]
        BY <2>4, <4>1, <4>5 DEF Exchange
      <4>7. H[s] = G[<<H[t], v[k]>>]
        BY <4>4, <4>6
      <4> QED BY <4>7 DEF t
    <3> QED BY <3>1, <3>2, <3>3
  <2>11. SetFold(G, u, v, m, H)
    BY <2>9, <2>10 DEF SetFold
  <2> QED BY <2>6, <2>11, Zenon DEF m
<1> HIDE DEF S
<1>3. \A n \in Nat : n \in S
  <2>1. S \in SUBSET Nat
    BY DEF S
  <2> QED BY <1>1, <1>2, <2>1, Induction
<1> QED BY <1>3 DEF S

(* f has the values of folding the n values w from u on, as long as they   *)
(* stay in X.                                                              *)
IsFold(G, X, u, w, n, f) ==
  f[0] = u /\ \A i \in 1 .. n : f[i - 1] \in X => f[i] = G[<<f[i - 1], w[i]>>]

(* An order of the places 1 .. n has them all.                             *)
IsOrder(p, n) == p \in [1 .. n -> 1 .. n] /\ \A i, j \in 1 .. n : p[i] = p[j] => i = j

LEMMA OrderHasAll ==
  ASSUME NEW n \in Nat, NEW p, IsOrder(p, n) PROVE \A t \in 1 .. n : \E i \in 1 .. n : p[i] = t
<1> DEFINE D == 1 .. n
<1>1. p \in [D -> D] /\ \A i, j \in D : p[i] = p[j] => i = j
  BY DEF IsOrder
<1>2. p \in Injection(D, D)
  BY <1>1, Fun_IsInj
<1>3. IsFiniteSet(D)
  BY FS_Interval
<1> HIDE DEF D
<1>4. p \in Surjection(D, D)
  BY <1>2, <1>3, FS_Injection
<1> QED BY <1>4 DEF D, Surjection

(* Each fold ends with the value of the set of all places: folding the     *)
(* values in one order or in another ends the same.                        *)
IsReordered(w, v, p, n) == \A i \in 1 .. n : w[i] = v[p[i]]

LEMMA AnyOrder ==
  ASSUME NEW X, NEW V, NEW G \in [X \X V -> X], NEW u \in X, Exchange(G, X, V),
         NEW n \in Nat, NEW v, AreIn(v, n, V),
         NEW p, IsOrder(p, n), NEW w, IsReordered(w, v, p, n),
         NEW f, IsFold(G, X, u, v, n, f), NEW g, IsFold(G, X, u, w, n, g)
  PROVE  f[n] = g[n] /\ f[n] \in X
<1>1. PICK F \in [SUBSET (1 .. n) -> X] : SetFold(G, u, v, n, F)
  BY SetFoldExists DEF AreIn
<1>2. ASSUME NEW q, IsOrder(q, n), NEW x, IsReordered(x, v, q, n), NEW h, IsFold(G, X, u, x, n, h)
      PROVE  h[n] = F[1 .. n]
  <2>0. /\ q \in [1 .. n -> 1 .. n] /\ \A i, j \in 1 .. n : q[i] = q[j] => i = j
        /\ \A i \in 1 .. n : x[i] = v[q[i]]
    BY <1>2 DEF IsOrder, IsReordered
  <2> DEFINE Image(k) == {q[i] : i \in 1 .. k}
             S == {k \in Nat : k <= n => h[k] = F[Image(k)]}
  <2>1. \A k \in 0 .. n : Image(k) \in SUBSET (1 .. n)
    BY <2>0
  <2>2. 0 \in S
    <3>1. Image(0) = {}
      OBVIOUS
    <3> HIDE DEF Image
    <3> QED BY <1>1, <1>2, <3>1 DEF SetFold, IsFold
  <2>3. ASSUME NEW k \in S PROVE k + 1 \in S
    <3> SUFFICES ASSUME k \in Nat, k + 1 <= n, h[k] = F[Image(k)] PROVE h[k + 1] = F[Image(k + 1)]
      <4> HIDE DEF Image
      <4> QED OBVIOUS
    <3> DEFINE m == q[k + 1]
    <3>0. k + 1 \in 1 .. n /\ k \in 0 .. n /\ (k + 1) - 1 = k
      OBVIOUS
    <3>1. m \in Image(k + 1) /\ Image(k + 1) \ {m} = Image(k)
      <4>1. \A i \in 1 .. k : i \in 1 .. k + 1 /\ i # k + 1 /\ i \in 1 .. n
        BY <3>0
      <4>2. \A i \in 1 .. k + 1 : i = k + 1 \/ i \in 1 .. k
        BY <3>0
      <4>3. \A i \in 1 .. k : q[i] # m
        BY <2>0, <3>0, <4>1
      <4>4. k + 1 \in 1 .. k + 1
        BY <3>0
      <4> HIDE DEF m
      <4>5. \A y : y \in Image(k + 1) <=> \E i \in 1 .. k + 1 : y = q[i]
        OBVIOUS
      <4>6. \A y : y \in Image(k) <=> \E i \in 1 .. k : y = q[i]
        OBVIOUS
      <4>7. m \in Image(k + 1)
        BY <4>4 DEF m
      <4> HIDE DEF Image
      <4>8. ASSUME NEW y \in Image(k + 1), y # m PROVE y \in Image(k)
        BY <4>2, <4>5, <4>6, <4>8, Zenon DEF m
      <4>9. ASSUME NEW y \in Image(k) PROVE y \in Image(k + 1) /\ y # m
        BY <4>1, <4>3, <4>5, <4>6, Zenon
      <4> QED BY <4>7, <4>8, <4>9, Zenon
    <3> HIDE DEF Image
    <3>2. F[Image(k)] \in X /\ Image(k + 1) \in SUBSET (1 .. n)
      BY <2>1, <3>0
    <3>3. F[Image(k + 1)] = G[<<F[Image(k)], v[m]>>]
      <4>1. F[Image(k + 1)] = G[<<F[Image(k + 1) \ {m}], v[m]>>]
        BY <1>1, <3>1, <3>2, Zenon DEF SetFold
      <4> QED BY <3>1, <4>1
    <3>4. h[k + 1] = G[<<h[k], x[k + 1]>>]
      <4>1. h[k] \in X
        BY <3>2
      <4>2. \A i \in 1 .. n : h[i - 1] \in X => h[i] = G[<<h[i - 1], x[i]>>]
        BY <1>2 DEF IsFold
      <4> QED BY <3>0, <4>1, <4>2
    <3>5. x[k + 1] = v[m]
      BY <2>0, <3>0
    <3> QED BY <3>3, <3>4, <3>5
  <2>4. h[n] = F[Image(n)]
    <3> HIDE DEF Image
    <3>1. S \in SUBSET Nat
      OBVIOUS
    <3> HIDE DEF S
    <3>2. n \in S
      BY <2>2, <2>3, <3>1, Induction
    <3> QED BY <3>2 DEF S
  <2>5. Image(n) = 1 .. n
    <3>1. \A t \in 1 .. n : \E i \in 1 .. n : q[i] = t
      BY <1>2, OrderHasAll
    <3> QED BY <2>0, <3>1
  <2>6. F[1 .. n] \in X
    <3>1. 1 .. n \in SUBSET (1 .. n)
      OBVIOUS
    <3> QED BY <3>1
  <2> QED BY <2>4, <2>5, <2>6
<1> DEFINE id == [i \in 1 .. n |-> i]
<1>3. IsOrder(id, n) /\ IsReordered(v, v, id, n)
  BY DEF IsOrder, IsReordered
<1> HIDE DEF id
<1> DEFINE all == 1 .. n
           Ends(q, x, h) == IsOrder(q, n) /\ IsReordered(x, v, q, n) /\ IsFold(G, X, u, x, n, h) => h[n] = F[all]
<1>4. \A q, x, h : Ends(q, x, h)
  BY <1>2
<1> HIDE DEF all
<1>5. f[n] = F[all]
  <2>1. Ends(id, v, f)
    BY <1>4
  <2> QED BY <1>3, <2>1
<1>6. g[n] = F[all]
  <2>1. Ends(p, w, g)
    BY <1>4
  <2> QED BY <2>1
<1>7. F[all] \in X
  <2>1. all \in SUBSET (1 .. n)
    BY DEF all
  <2> QED BY <2>1
<1> QED BY <1>5, <1>6, <1>7

(* A fold of values in V by a function of X and V stays in X, and there is *)
(* one.                                                                    *)
LEMMA FoldStays ==
  ASSUME NEW X, NEW V, NEW G \in [X \X V -> X], NEW u \in X, NEW n \in Nat, NEW v, AreIn(v, n, V),
         NEW f, IsFold(G, X, u, v, n, f)
  PROVE  \A i \in 0 .. n : f[i] \in X
<1> DEFINE S == {i \in Nat : i <= n => f[i] \in X}
<1>1. 0 \in S
  BY DEF IsFold
<1>2. ASSUME NEW i \in S PROVE i + 1 \in S
  <2> SUFFICES ASSUME i + 1 <= n PROVE f[i + 1] \in X
    OBVIOUS
  <2>1. f[i] \in X /\ i + 1 \in 1 .. n /\ (i + 1) - 1 = i
    OBVIOUS
  <2>2. f[i + 1] = G[<<f[i], v[i + 1]>>] /\ v[i + 1] \in V
    BY <2>1 DEF IsFold, AreIn
  <2> QED BY <2>1, <2>2
<1>3. \A i \in Nat : i \in S
  <2>1. S \in SUBSET Nat
    OBVIOUS
  <2> HIDE DEF S
  <2> QED BY <1>1, <1>2, <2>1, Induction
<1> QED BY <1>3

LEMMA FoldExists ==
  ASSUME NEW X, NEW V, NEW G \in [X \X V -> X], NEW u \in X, NEW n \in Nat, NEW v, AreIn(v, n, V)
  PROVE  \E f \in [0 .. n -> X] : IsFold(G, X, u, v, n, f)
<1> DEFINE Exists(m) == \E f \in [0 .. m -> X] : IsFold(G, X, u, v, m, f)
           S == {m \in Nat : m <= n => Exists(m)}
<1>1. 0 \in S
  <2>1. [i \in 0 .. 0 |-> u] \in [0 .. 0 -> X] /\ IsFold(G, X, u, v, 0, [i \in 0 .. 0 |-> u])
    BY DEF IsFold
  <2> QED BY <2>1
<1>2. ASSUME NEW m \in S PROVE m + 1 \in S
  <2> SUFFICES ASSUME m + 1 <= n PROVE Exists(m + 1)
    OBVIOUS
  <2>1. m \in Nat /\ Exists(m)
    OBVIOUS
  <2>2. PICK f \in [0 .. m -> X] : IsFold(G, X, u, v, m, f)
    BY <2>1
  <2> DEFINE g == [i \in 0 .. m + 1 |-> IF i = m + 1 THEN G[<<f[m], v[m + 1]>>] ELSE f[i]]
  <2>3. G[<<f[m], v[m + 1]>>] \in X
    <3>1. f[m] \in X /\ m + 1 \in 1 .. n
      BY <2>1, <2>2
    <3> QED BY <3>1 DEF AreIn
  <2>4. /\ g \in [0 .. m + 1 -> X] /\ g[m + 1] = G[<<f[m], v[m + 1]>>]
        /\ \A i \in 0 .. m : g[i] = f[i]
    BY <2>1, <2>2, <2>3
  <2> HIDE DEF g
  <2>5. g[0] = u
    BY <2>1, <2>2, <2>4 DEF IsFold
  <2>6. ASSUME NEW i \in 1 .. m + 1, g[i - 1] \in X PROVE g[i] = G[<<g[i - 1], v[i]>>]
    <3>1. CASE i = m + 1
      <4>1. i - 1 = m /\ m \in 0 .. m
        BY <2>1, <3>1
      <4> QED BY <2>4, <3>1, <4>1
    <3>2. CASE i # m + 1
      <4>1. i \in 1 .. m /\ i \in 0 .. m /\ i - 1 \in 0 .. m
        BY <2>1, <3>2
      <4> QED BY <2>2, <2>4, <2>6, <4>1 DEF IsFold
    <3> QED BY <3>1, <3>2
  <2>7. IsFold(G, X, u, v, m + 1, g)
    BY <2>5, <2>6 DEF IsFold
  <2> QED BY <2>4, <2>7
<1>3. \A m \in Nat : m \in S
  <2>1. S \in SUBSET Nat
    OBVIOUS
  <2> HIDE DEF S
  <2> QED BY <1>1, <1>2, <2>1, Induction
<1>4. n <= n
  OBVIOUS
<1> QED BY <1>3, <1>4

(***************************************************************************)
(* Trees: records with a sequence of kids, D gives how deep each is.       *)
(***************************************************************************)
IsForest(T, D) ==
  \A n \in T : D[n] \in Nat /\ \A i \in DOMAIN n.kids : n.kids[i] \in T /\ D[n.kids[i]] \in Nat /\ D[n.kids[i]] < D[n]

LEMMA TreeInduction ==
  ASSUME NEW T, NEW D, IsForest(T, D), NEW S,
         \A n \in T : (\A i \in DOMAIN n.kids : n.kids[i] \in S) => n \in S
  PROVE  \A n \in T : n \in S
<1> DEFINE U == {D[n] : n \in {m \in T : m \notin S}}
<1> SUFFICES ASSUME U # {} PROVE FALSE
  OBVIOUS
<1>1. U \in SUBSET Nat
  BY DEF IsForest
<1>2. PICK least \in U : \A e \in U : least <= e
  BY <1>1, LeastElement
<1>3. PICK n \in T : D[n] = least /\ n \notin S
  BY <1>2
<1>4. ASSUME NEW i \in DOMAIN n.kids PROVE n.kids[i] \in S
  <2> DEFINE m == n.kids[i]
  <2>1. m \in T /\ D[m] < D[n] /\ D[m] \in Nat /\ D[n] \in Nat
    BY DEF IsForest
  <2> HIDE DEF m
  <2>2. D[m] \notin U
    BY <1>2, <1>3, <2>1
  <2>3. m \in S
    BY <2>1, <2>2
  <2> QED BY <2>3 DEF m
<1> QED BY <1>3, <1>4

(* Functions of a tree.  G gives the value at a tree for those at its kids;*)
(* as trees have a depth, there is a function that follows G.              *)
AgreeBelow(f, g, n) == \A i \in DOMAIN n.kids : f[n.kids[i]] = g[n.kids[i]]
IsLocal(G, T, X) == \A n \in T : \A f, g \in [T -> X] : AgreeBelow(f, g, n) => G[<<n, f>>] = G[<<n, g>>]
Follows(f, G, T, D, d) == \A n \in T : D[n] < d => f[n] = G[<<n, f>>]

LEMMA FollowsToDepth ==
  ASSUME NEW T, NEW D, IsForest(T, D),
         NEW X, NEW u \in X, NEW G \in [T \X [T -> X] -> X], IsLocal(G, T, X)
  PROVE  \A d \in Nat : \E f \in [T -> X] : Follows(f, G, T, D, d)
<1> DEFINE S == {d \in Nat : \E f \in [T -> X] : Follows(f, G, T, D, d)}
<1>1. 0 \in S
  <2> DEFINE f == [n \in T |-> u]
  <2>1. f \in [T -> X] /\ Follows(f, G, T, D, 0)
    BY DEF IsForest, Follows
  <2> QED BY <2>1
<1>2. ASSUME NEW d \in S PROVE d + 1 \in S
  <2>1. PICK f \in [T -> X] : Follows(f, G, T, D, d)
    OBVIOUS
  <2> DEFINE g == [n \in T |-> IF D[n] < d THEN f[n] ELSE G[<<n, f>>]]
  <2>2. g \in [T -> X]
    OBVIOUS
  <2>3. \A n \in T : g[n] = IF D[n] < d THEN f[n] ELSE G[<<n, f>>]
    OBVIOUS
  <2> HIDE DEF g
  <2>4. ASSUME NEW n \in T, D[n] < d + 1 PROVE g[n] = G[<<n, g>>]
    <3>1. \A i \in DOMAIN n.kids : D[n.kids[i]] < d /\ n.kids[i] \in T
      BY <2>4 DEF IsForest
    <3>2. AgreeBelow(f, g, n)
      BY <2>3, <3>1 DEF AgreeBelow
    <3>3. G[<<n, f>>] = G[<<n, g>>]
      BY <2>2, <3>2 DEF IsLocal
    <3>4. g[n] = G[<<n, f>>]
      BY <2>1, <2>3 DEF Follows
    <3> QED BY <3>3, <3>4
  <2>5. Follows(g, G, T, D, d + 1)
    BY <2>4 DEF Follows
  <2> QED BY <2>2, <2>5
<1>3. S \in SUBSET Nat
  OBVIOUS
<1>4. \A d \in Nat : d \in S
  <2> HIDE DEF S
  <2> QED BY <1>1, <1>2, <1>3, Induction
<1> QED BY <1>4

LEMMA FollowsOnce ==
  ASSUME NEW T, NEW D, IsForest(T, D), NEW X, NEW G, IsLocal(G, T, X), NEW d \in Nat,
         NEW f \in [T -> X], NEW g \in [T -> X], Follows(f, G, T, D, d), Follows(g, G, T, D, d)
  PROVE  \A n \in T : D[n] < d => f[n] = g[n]
<1> DEFINE U == {D[n] : n \in {m \in T : D[m] < d /\ f[m] # g[m]}}
<1> SUFFICES ASSUME U # {} PROVE FALSE
  OBVIOUS
<1>1. U \in SUBSET Nat
  BY DEF IsForest
<1>2. PICK least \in U : \A e \in U : least <= e
  BY <1>1, LeastElement
<1>3. PICK n \in T : D[n] = least /\ D[n] < d /\ f[n] # g[n]
  BY <1>2
<1>4. ASSUME NEW i \in DOMAIN n.kids PROVE f[n.kids[i]] = g[n.kids[i]]
  <2> DEFINE m == n.kids[i]
  <2>1. m \in T /\ D[m] < D[n] /\ D[m] \in Nat /\ D[n] \in Nat
    BY DEF IsForest
  <2> HIDE DEF m
  <2>2. D[m] \notin U
    BY <1>2, <1>3, <2>1
  <2>3. D[m] < d
    BY <1>3, <2>1
  <2>4. f[m] = g[m]
    BY <2>1, <2>2, <2>3
  <2> QED BY <2>4 DEF m
<1>5. AgreeBelow(f, g, n)
  BY <1>4 DEF AgreeBelow
<1> QED BY <1>3, <1>5 DEF IsLocal, Follows

(* A rule gives a tree a value by those of its kids; it has a solution.    *)
IsRule(G, T, X) == G \in [T \X [T -> X] -> X] /\ IsLocal(G, T, X)
HasSolution(G, T, X) == \E f \in [T -> X] : \A n \in T : f[n] = G[<<n, f>>]

LEMMA TreeFunction ==
  ASSUME NEW T, NEW D, IsForest(T, D), NEW X, X # {}, NEW G, IsRule(G, T, X)
  PROVE  HasSolution(G, T, X)
<1>0. PICK u : u \in X
  OBVIOUS
<1> USE DEF IsRule
<1> DEFINE to(d) == CHOOSE f \in [T -> X] : Follows(f, G, T, D, d)
           f == [n \in T |-> to(D[n] + 1)[n]]
<1>1. \A d \in Nat : to(d) \in [T -> X] /\ Follows(to(d), G, T, D, d)
  BY <1>0, FollowsToDepth
<1> HIDE DEF to, IsRule
<1>2. f \in [T -> X]
  BY <1>1 DEF IsForest
<1>3. ASSUME NEW n \in T PROVE f[n] = G[<<n, f>>]
  <2> DEFINE d == D[n] + 1
             g == to(d)
  <2>1. d \in Nat /\ g \in [T -> X] /\ Follows(g, G, T, D, d) /\ D[n] < d /\ f[n] = g[n]
    BY <1>1 DEF IsForest
  <2>2. ASSUME NEW i \in DOMAIN n.kids PROVE f[n.kids[i]] = g[n.kids[i]]
    <3> DEFINE m == n.kids[i]
               e == D[m] + 1
               h == to(e)
    <3>1. m \in T /\ e \in Nat /\ e <= d /\ D[m] < e /\ \A k \in T : D[k] \in Nat
      BY DEF IsForest
    <3>2. h \in [T -> X] /\ Follows(h, G, T, D, e) /\ f[m] = h[m]
      BY <1>1, <3>1
    <3> HIDE DEF m, e, h, d, g, f
    <3>3. Follows(g, G, T, D, e)
      <4>1. \A k \in T : D[k] < e => D[k] < d
        BY <2>1, <3>1
      <4> QED BY <2>1, <4>1 DEF Follows
    <3>4. h[m] = g[m]
      BY <2>1, <3>1, <3>2, <3>3, FollowsOnce DEF IsRule
    <3>5. f[m] = g[m]
      BY <3>2, <3>4
    <3> QED BY <3>5 DEF m
  <2> HIDE DEF f, g, d
  <2>3. AgreeBelow(f, g, n)
    BY <2>2 DEF AgreeBelow
  <2> QED BY <1>2, <2>1, <2>3 DEF IsRule, IsLocal, Follows
<1> QED BY <1>2, <1>3 DEF HasSolution
=============================================================================
