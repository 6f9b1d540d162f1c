----------------------------- MODULE EvalProofs -----------------------------
(***************************************************************************)
(* Proofs about Eval, for any trees, any number of packages and integers   *)
(* of any width.                                                           *)
(***************************************************************************)
EXTENDS Inspect, DataLemmas

(***************************************************************************)
(* Stacks: the last frame is dropped, replaced or followed by another.     *)
(***************************************************************************)
LEMMA NotEmpty ==
  ASSUME NEW s, IsSeq(s), s # << >>
  PROVE  Len(s) \in Nat \ {0} /\ Len(s) \in DOMAIN s /\ DOMAIN s = 1 .. Len(s) /\ Len(s) - 1 \in Nat
  BY SeqDomain

LEMMA DropLast ==
  ASSUME NEW s, IsSeq(s), s # << >>
  PROVE  /\ IsSeq(Front(s)) /\ Len(Front(s)) = Len(s) - 1
         /\ DOMAIN Front(s) = 1 .. Len(s) - 1
         /\ \A i \in 1 .. Len(s) - 1 : Front(s)[i] = s[i]
<1> DEFINE t == Front(s)
           m == Len(s) - 1
<1>1. m \in Nat /\ m <= Len(s)
  BY NotEmpty
<1>2. t = SubSeq(s, 1, m)
  BY DEF Front
<1> HIDE DEF t, m
<1>3. IsSeq(t) /\ Len(t) = m /\ \A i \in 1 .. m : t[i] = s[i]
  BY <1>1, <1>2, SeqSub
<1>4. DOMAIN t = 1 .. m
  BY <1>3, SeqDomain
<1> QED BY <1>3, <1>4 DEF t, m

LEMMA AddLast ==
  ASSUME NEW s, IsSeq(s), NEW f
  PROVE  /\ IsSeq(Append(s, f)) /\ Len(Append(s, f)) = Len(s) + 1 /\ Len(s) \in Nat
         /\ DOMAIN Append(s, f) = 1 .. Len(s) + 1 /\ Append(s, f) # << >>
         /\ Append(s, f)[Len(s) + 1] = f
         /\ \A i \in 1 .. Len(s) : Append(s, f)[i] = s[i]
  BY SeqAppend, SeqDomain

IsChanged(t, s, f) == t = [s EXCEPT ![Len(s)] = f]

LEMMA ChangeLast ==
  ASSUME NEW s, IsSeq(s), s # << >>, NEW f, NEW t, IsChanged(t, s, f)
  PROVE  /\ IsSeq(t) /\ Len(t) = Len(s) /\ DOMAIN t = 1 .. Len(s) /\ t # << >>
         /\ t[Len(s)] = f
         /\ \A i \in 1 .. Len(s) - 1 : t[i] = s[i]
<1>1. Len(s) \in 1 .. Len(s) /\ Len(s) \in Nat \ {0}
  BY NotEmpty
<1>2. IsSeq(t) /\ Len(t) = Len(s)
  BY <1>1, SeqExcept, Zenon DEF IsChanged
<1>3. t[Len(s)] = f /\ \A i \in 1 .. Len(s) : i # Len(s) => t[i] = s[i]
  BY <1>1, SeqExcept DEF IsChanged
<1> QED BY <1>1, <1>2, <1>3, SeqDomain

(***************************************************************************)
(* Scope, one frame at a time.  ScopeIn is Scope of any stack.             *)
(***************************************************************************)
Namespaces(frames, k) == {i \in 1 .. k : frames[i].call = "namespace"}
ScopeIn(frames, k) ==
  LET open == Namespaces(frames, k) IN
  IF open = {} THEN Global ELSE frames[CHOOSE i \in open : \A j \in open : j <= i].env

(* What it chooses: the last namespace that is being made, if any.         *)
IsScope(frames, k, e) ==
  \/ Namespaces(frames, k) = {} /\ e = Global
  \/ \E i \in Namespaces(frames, k) : (\A j \in Namespaces(frames, k) : j <= i) /\ e = frames[i].env

LEMMA ScopeIs ==
  ASSUME NEW frames, NEW k \in Nat PROVE \A e : IsScope(frames, k, e) <=> e = ScopeIn(frames, k)
<1> DEFINE S == Namespaces(frames, k)
           m == CHOOSE i \in S : \A j \in S : j <= i
<1>1. CASE S = {}
  BY <1>1 DEF IsScope, ScopeIn, Namespaces
<1>2. CASE S # {}
  <2> DEFINE T == {k - i : i \in S}
  <2>1. T \in SUBSET Nat /\ T # {} /\ S \subseteq 1 .. k
    BY <1>2 DEF Namespaces
  <2> HIDE DEF S
  <2>2. PICK least \in T : \A d \in T : least <= d
    BY <2>1, LeastElement
  <2>3. PICK i \in S : least = k - i
    OBVIOUS
  <2>4. ASSUME NEW j \in S PROVE j <= i
    <3>1. least <= k - j /\ j \in 1 .. k /\ i \in 1 .. k
      BY <2>1, <2>2
    <3> QED BY <2>3, <3>1
  <2>5. m \in S /\ \A j \in S : j <= m
    BY <2>4
  <2> HIDE DEF m, T
  <2>6. \A n \in S : (\A j \in S : j <= n) => n = m
    BY <2>1, <2>5
  <2>7. ScopeIn(frames, k) = frames[m].env
    BY <1>2 DEF ScopeIn, S, m
  <2> QED BY <1>2, <2>5, <2>6, <2>7 DEF IsScope, S
<1> QED BY <1>1, <1>2

LEMMA ScopeInStep ==
  ASSUME NEW frames
  PROVE  /\ ScopeIn(frames, 0) = Global
         /\ \A k \in Nat \ {0} :
              ScopeIn(frames, k) = IF frames[k].call = "namespace" THEN frames[k].env
                                                                  ELSE ScopeIn(frames, k - 1)
<1>1. ScopeIn(frames, 0) = Global
  <2>1. Namespaces(frames, 0) = {}
    BY DEF Namespaces
  <2> QED BY <2>1 DEF ScopeIn
<1>2. ASSUME NEW k \in Nat \ {0}, frames[k].call = "namespace" PROVE ScopeIn(frames, k) = frames[k].env
  <2>1. k \in Namespaces(frames, k) /\ \A j \in Namespaces(frames, k) : j <= k
    BY <1>2 DEF Namespaces
  <2>2. IsScope(frames, k, frames[k].env)
    BY <2>1 DEF IsScope
  <2> QED BY <2>2, ScopeIs
<1>3. ASSUME NEW k \in Nat \ {0}, frames[k].call # "namespace"
      PROVE  ScopeIn(frames, k) = ScopeIn(frames, k - 1)
  <2>1. Namespaces(frames, k) = Namespaces(frames, k - 1)
    BY <1>3 DEF Namespaces
  <2> QED BY <2>1 DEF ScopeIn
<1> QED BY <1>1, <1>2, <1>3

LEMMA ScopeInKept ==
  ASSUME NEW frames, NEW others, NEW n \in Nat, \A i \in 1 .. n : others[i] = frames[i]
  PROVE  \A k \in 0 .. n : ScopeIn(others, k) = ScopeIn(frames, k)
<1> SUFFICES ASSUME NEW k \in 0 .. n PROVE ScopeIn(others, k) = ScopeIn(frames, k)
  OBVIOUS
<1>1. Namespaces(others, k) = Namespaces(frames, k)
  BY DEF Namespaces
<1>2. \A i \in Namespaces(frames, k) : others[i] = frames[i]
  BY DEF Namespaces
<1>3. \A e : IsScope(others, k, e) <=> IsScope(frames, k, e)
  BY <1>1, <1>2 DEF IsScope
<1>4. k \in Nat
  OBVIOUS
<1> QED BY <1>3, <1>4, ScopeIs

(***************************************************************************)
(* ScopesNest.  It is inductive with NestedScopes: every frame belongs to  *)
(* an environment that exists, and nobody waits between two nodes.         *)
(***************************************************************************)
FramesNest(frames, es) ==
  \A k \in DOMAIN frames :
    /\ frames[k].env \in DOMAIN es
    /\ IF frames[k].call = "namespace" THEN es[frames[k].env].parent = ScopeIn(frames, k - 1)
                                       ELSE frames[k].env = ScopeIn(frames, k - 1)

EnvsGrow(es, fs) == DOMAIN es \subseteq DOMAIN fs /\ \A e \in DOMAIN es : fs[e].parent = es[e].parent

EnvsAre ==
  /\ IsSeq(envs) /\ Global \in DOMAIN envs
  /\ \A e \in DOMAIN envs : envs[e] = [parent |-> envs[e].parent, values |-> envs[e].values]

NestedScopes ==
  /\ EnvsAre
  /\ IsSeq(stack) /\ FramesNest(stack, envs)
  /\ mode = "eval" => env = ScopeIn(stack, Len(stack))
  /\ mode \in {"idle", "package"} => stack = << >>

LEMMA ScopeExists ==
  ASSUME NEW frames, IsSeq(frames), NEW es, FramesNest(frames, es), Global \in DOMAIN es,
         NEW k \in 0 .. Len(frames)
  PROVE  ScopeIn(frames, k) \in DOMAIN es
<1>1. IsScope(frames, k, ScopeIn(frames, k))
  BY ScopeIs, SeqDomain
<1>2. \A i \in Namespaces(frames, k) : frames[i].env \in DOMAIN es
  BY SeqDomain DEF Namespaces, FramesNest
<1> QED BY <1>1, <1>2 DEF IsScope

LEMMA PopNests ==
  ASSUME NEW frames, IsSeq(frames), frames # << >>, NEW es, NEW fs, EnvsGrow(es, fs), FramesNest(frames, es)
  PROVE  /\ FramesNest(Front(frames), fs)
         /\ frames[Len(frames)].call # "namespace" =>
              ScopeIn(Front(frames), Len(Front(frames))) = frames[Len(frames)].env
<1> DEFINE m == Len(frames) - 1
           less == Front(frames)
<1>1. m \in Nat /\ Len(frames) = m + 1 /\ DOMAIN frames = 1 .. m + 1
  BY NotEmpty
<1>2. Len(less) = m /\ DOMAIN less = 1 .. m /\ \A i \in 1 .. m : less[i] = frames[i]
  BY DropLast
<1> HIDE DEF m, less
<1>3. \A k \in 0 .. m : ScopeIn(less, k) = ScopeIn(frames, k)
  BY <1>1, <1>2, ScopeInKept
<1>4. FramesNest(less, fs)
  <2> SUFFICES ASSUME NEW k \in 1 .. m
               PROVE  /\ less[k].env \in DOMAIN fs
                      /\ IF less[k].call = "namespace" THEN fs[less[k].env].parent = ScopeIn(less, k - 1)
                                                       ELSE less[k].env = ScopeIn(less, k - 1)
    BY <1>2 DEF FramesNest
  <2>1. k \in DOMAIN frames /\ less[k] = frames[k] /\ ScopeIn(less, k - 1) = ScopeIn(frames, k - 1)
    BY <1>1, <1>2, <1>3
  <2> QED BY <2>1 DEF FramesNest, EnvsGrow
<1>5. frames[m + 1].call # "namespace" => ScopeIn(less, m) = frames[m + 1].env
  <2>1. m + 1 \in DOMAIN frames /\ (m + 1) - 1 = m /\ ScopeIn(less, m) = ScopeIn(frames, m)
    BY <1>1, <1>3
  <2> QED BY <2>1 DEF FramesNest
<1> QED BY <1>1, <1>2, <1>4, <1>5 DEF less

LEMMA PushNests ==
  ASSUME NEW frames, IsSeq(frames), NEW es, FramesNest(frames, es),
         NEW f, f.call # "namespace", f.env = ScopeIn(frames, Len(frames)), f.env \in DOMAIN es
  PROVE  /\ FramesNest(Append(frames, f), es)
         /\ ScopeIn(Append(frames, f), Len(Append(frames, f))) = f.env
<1> DEFINE all == Append(frames, f)
           n == Len(frames)
<1>1. /\ n \in Nat /\ DOMAIN frames = 1 .. n /\ Len(all) = n + 1 /\ DOMAIN all = 1 .. n + 1
      /\ all[n + 1] = f /\ \A i \in 1 .. n : all[i] = frames[i]
  BY AddLast, SeqDomain
<1> HIDE DEF all, n
<1>2. \A k \in 0 .. n : ScopeIn(all, k) = ScopeIn(frames, k)
  BY <1>1, ScopeInKept
<1>3. ScopeIn(all, n + 1) = f.env /\ ScopeIn(all, n) = f.env
  BY <1>1, <1>2, ScopeInStep DEF n
<1>4. ASSUME NEW k \in 1 .. n + 1
      PROVE  /\ all[k].env \in DOMAIN es
             /\ IF all[k].call = "namespace" THEN es[all[k].env].parent = ScopeIn(all, k - 1)
                                             ELSE all[k].env = ScopeIn(all, k - 1)
  <2>1. CASE k = n + 1
    BY <1>1, <1>3, <2>1
  <2>2. CASE k \in 1 .. n
    <3>1. ScopeIn(all, k - 1) = ScopeIn(frames, k - 1) /\ all[k] = frames[k] /\ k \in DOMAIN frames
      BY <1>1, <1>2, <2>2
    <3> QED BY <3>1 DEF FramesNest
  <2> QED BY <1>1, <2>1, <2>2
<1> QED BY <1>1, <1>3, <1>4 DEF FramesNest, all

LEMMA ReplaceNests ==
  ASSUME NEW frames, IsSeq(frames), frames # << >>, NEW es, NEW fs, EnvsGrow(es, fs), FramesNest(frames, es),
         NEW f, NEW others, Len(others) = Len(frames), DOMAIN others = 1 .. Len(frames),
         others[Len(frames)] = f, \A i \in 1 .. Len(frames) - 1 : others[i] = frames[i],
         f.env \in DOMAIN fs,
         IF f.call = "namespace" THEN fs[f.env].parent = ScopeIn(frames, Len(frames) - 1)
                                 ELSE f.env = ScopeIn(frames, Len(frames) - 1)
  PROVE  FramesNest(others, fs) /\ ScopeIn(others, Len(others)) = f.env
<1> DEFINE m == Len(frames) - 1
<1>1. m \in Nat /\ Len(frames) = m + 1 /\ DOMAIN frames = 1 .. m + 1
  BY NotEmpty
<1>2. /\ Len(others) = m + 1 /\ DOMAIN others = 1 .. m + 1
      /\ others[m + 1] = f /\ \A i \in 1 .. m : others[i] = frames[i]
  BY <1>1
<1>3. IF f.call = "namespace" THEN fs[f.env].parent = ScopeIn(frames, m) ELSE f.env = ScopeIn(frames, m)
  OBVIOUS
<1> HIDE DEF m
<1>4. \A k \in 0 .. m : ScopeIn(others, k) = ScopeIn(frames, k)
  BY <1>1, <1>2, ScopeInKept
<1>5. ScopeIn(others, m) = ScopeIn(frames, m) /\ (m + 1) - 1 = m
  BY <1>1, <1>4
<1>6. ScopeIn(others, m + 1) = f.env
  BY <1>1, <1>2, <1>3, <1>5, ScopeInStep
<1>7. ASSUME NEW k \in 1 .. m + 1
      PROVE  /\ others[k].env \in DOMAIN fs
             /\ IF others[k].call = "namespace" THEN fs[others[k].env].parent = ScopeIn(others, k - 1)
                                                ELSE others[k].env = ScopeIn(others, k - 1)
  <2>1. CASE k = m + 1
    BY <1>2, <1>3, <1>5, <2>1
  <2>2. CASE k \in 1 .. m
    <3>1. ScopeIn(others, k - 1) = ScopeIn(frames, k - 1) /\ others[k] = frames[k] /\ k \in DOMAIN frames
      BY <1>1, <1>2, <1>4, <2>2
    <3> QED BY <3>1 DEF FramesNest, EnvsGrow
  <2> QED BY <1>1, <2>1, <2>2
<1> QED BY <1>2, <1>6, <1>7 DEF FramesNest

LEMMA NestedInit == Init => NestedScopes
<1> SUFFICES ASSUME Init PROVE NestedScopes
  OBVIOUS
<1>1. IsSeq(envs) /\ DOMAIN envs = 1 .. 1 /\ envs[1] = DefaultEnv
  <2>1. IsSeq(envs) /\ Len(envs) = 1
    BY SeqOfSome DEF Init
  <2> QED BY <2>1, SeqDomain DEF Init
<1>2. DOMAIN stack = {} /\ IsSeq(stack)
  BY SeqOfSome, SeqDomain DEF Init
<1>3. DefaultEnv = [parent |-> DefaultEnv.parent, values |-> DefaultEnv.values]
  BY DEF DefaultEnv
<1> HIDE DEF Init
<1>4. EnvsAre
  BY <1>1, <1>3 DEF EnvsAre, Global
<1> QED BY <1>2, <1>4 DEF NestedScopes, FramesNest, Init

(* assign and namespace change what one environment binds, and nothing     *)
(* else of it.                                                             *)
LEMMA AssignKeeps ==
  ASSUME EnvsAre, NEW e \in DOMAIN envs, NEW name, NEW o, envs' = Assign(e, name, o)
  PROVE  /\ EnvsAre' /\ EnvsGrow(envs, envs')
         /\ \A i \in DOMAIN envs : i # e => envs'[i] = envs[i]
         /\ DOMAIN envs'[e].values = DOMAIN envs[e].values \cup {name}
         /\ envs'[e].values[name] = o
         /\ \A n \in DOMAIN envs[e].values : n # name => envs'[e].values[n] = envs[e].values[n]
<1> DEFINE values == [n \in DOMAIN envs[e].values \cup {name} |-> IF n = name THEN o ELSE envs[e].values[n]]
           new == [parent |-> envs[e].parent, values |-> values]
<1>1. [envs[e] EXCEPT !.values = values] = new
  <2> HIDE DEF values
  <2> QED BY DEF EnvsAre
<1>2. envs' = [envs EXCEPT ![e] = [envs[e] EXCEPT !.values = values]]
  BY DEF Assign
<1>3. envs' = [envs EXCEPT ![e] = new]
  BY <1>1, <1>2
<1>4. new.parent = envs[e].parent /\ new.values = values
      /\ new = [parent |-> new.parent, values |-> new.values]
  OBVIOUS
<1>9. /\ DOMAIN values = DOMAIN envs[e].values \cup {name}
      /\ values[name] = o
      /\ \A n \in DOMAIN envs[e].values : n # name => values[n] = envs[e].values[n]
  OBVIOUS
<1> HIDE DEF values, new
<1>5. e \in 1 .. Len(envs) /\ DOMAIN envs = 1 .. Len(envs) /\ Len(envs) \in Nat
  BY SeqDomain DEF EnvsAre
<1>6. IsSeq(envs') /\ Len(envs') = Len(envs)
  <2>1. IsSeq(envs)
    BY DEF EnvsAre
  <2>2. IsSeq([envs EXCEPT ![e] = new]) /\ Len([envs EXCEPT ![e] = new]) = Len(envs)
    BY <1>5, <2>1, SeqExcept, Zenon
  <2> QED BY <1>3, <2>2, Zenon
<1>7. DOMAIN envs' = DOMAIN envs
  BY <1>5, <1>6, SeqDomain
<1>8. envs'[e] = new /\ \A i \in DOMAIN envs : i # e => envs'[i] = envs[i]
  BY <1>3
<1> QED BY <1>4, <1>6, <1>7, <1>8, <1>9 DEF EnvsAre, EnvsGrow

LEMMA NestedStep == NestedScopes /\ [Next]_vars => NestedScopes'
<1> SUFFICES ASSUME NestedScopes, [Next]_vars PROVE NestedScopes'
  OBVIOUS
<1> USE DEF Call, Return, Push, Pop, Replace
<1>0. \A call, e, args, objs : Frame(call, e, args, objs).call = call /\ Frame(call, e, args, objs).env = e
  BY DEF Frame
<1>1. IsSeq(stack) /\ FramesNest(stack, envs) /\ EnvsAre
  BY DEF NestedScopes
<1>2. ASSUME UNCHANGED envs PROVE EnvsAre' /\ EnvsGrow(envs, envs')
  BY <1>1, <1>2 DEF EnvsAre, EnvsGrow
<1>3. ASSUME UNCHANGED <<envs, stack>>, mode' = "eval" => env' = ScopeIn(stack, Len(stack)),
             mode' \in {"idle", "package"} => stack = << >>
      PROVE  NestedScopes'
  BY <1>1, <1>2, <1>3 DEF NestedScopes
<1>4. ASSUME stack # << >>, stack' = Front(stack), EnvsAre', EnvsGrow(envs, envs'),
             mode' = "return" \/ (mode' = "eval" /\ Top.call # "namespace" /\ env' = Top.env)
      PROVE  NestedScopes'
  <2>1. /\ FramesNest(stack', envs') /\ IsSeq(stack')
        /\ Top.call # "namespace" => ScopeIn(stack', Len(stack')) = Top.env
    BY <1>1, <1>4, PopNests, DropLast DEF Top
  <2> QED BY <1>4, <2>1 DEF NestedScopes
<1>5. ASSUME NEW f, f.call # "namespace", f.env = env, stack' = Append(stack, f), mode = "eval",
             mode' = "eval", UNCHANGED <<env, envs>>
      PROVE  NestedScopes'
  <2>1. env = ScopeIn(stack, Len(stack)) /\ env \in DOMAIN envs
    BY <1>1, <1>5, ScopeExists, SeqDomain DEF NestedScopes, EnvsAre
  <2>2. FramesNest(stack', envs) /\ ScopeIn(stack', Len(stack')) = f.env
    BY <1>1, <1>5, <2>1, PushNests
  <2>3. IsSeq(stack')
    BY <1>1, <1>5, AddLast
  <2> QED BY <1>2, <1>5, <2>2, <2>3 DEF NestedScopes
<1>6. ASSUME NEW f, stack # << >>, stack' = [stack EXCEPT ![Len(stack)] = f],
             EnvsAre', EnvsGrow(envs, envs'), f.env \in DOMAIN envs',
             IF f.call = "namespace" THEN envs'[f.env].parent = ScopeIn(stack, Len(stack) - 1)
                                     ELSE f.env = ScopeIn(stack, Len(stack) - 1),
             mode' = "eval", env' = f.env
      PROVE  NestedScopes'
  <2>0. stack # << >> /\ stack' = [stack EXCEPT ![Len(stack)] = f]
    BY <1>6
  <2>1. /\ IsSeq(stack') /\ Len(stack') = Len(stack) /\ DOMAIN stack' = 1 .. Len(stack)
        /\ stack'[Len(stack)] = f /\ \A i \in 1 .. Len(stack) - 1 : stack'[i] = stack[i]
    <3>1. IsSeq(stack) /\ stack # << >> /\ IsChanged(stack', stack, f)
      BY <1>1, <2>0 DEF IsChanged
    <3> QED BY <3>1, ChangeLast
  <2> DEFINE new == stack'
  <2> HIDE DEF new
  <2>2. /\ IsSeq(new) /\ Len(new) = Len(stack) /\ DOMAIN new = 1 .. Len(stack)
        /\ new[Len(stack)] = f /\ \A i \in 1 .. Len(stack) - 1 : new[i] = stack[i]
    BY <2>1 DEF new
  <2>3. FramesNest(new, envs') /\ ScopeIn(new, Len(new)) = f.env
    BY <1>1, <1>6, <2>2, ReplaceNests
  <2> QED BY <1>6, <2>1, <2>3 DEF NestedScopes, new
<1>7. ASSUME stack # << >>
      PROVE  /\ Top.env \in DOMAIN envs
             /\ IF Top.call = "namespace" THEN envs[Top.env].parent = ScopeIn(stack, Len(stack) - 1)
                                          ELSE Top.env = ScopeIn(stack, Len(stack) - 1)
  BY <1>1, <1>7, NotEmpty DEF FramesNest, Top
<1>8. ASSUME NEW f, stack # << >>, Top.call # "namespace", stack' = [stack EXCEPT ![Len(stack)] = f],
             f.call # "namespace", f.env = Top.env, mode' = "eval", env' = Top.env, UNCHANGED envs
      PROVE  NestedScopes'
  BY <1>2, <1>6, <1>7, <1>8
<1>9. CASE UNCHANGED vars
  <2>1. UNCHANGED <<envs, stack, mode, env>>
    BY <1>9 DEF vars
  <2> QED BY <1>3, <2>1 DEF NestedScopes
<1>10. ASSUME NEW p \in Packages, EvalPackage(p) PROVE NestedScopes'
  BY <1>3, <1>10 DEF EvalPackage, NestedScopes
<1>11. CASE NextNode
  <2>1. stack = << >> /\ UNCHANGED <<envs, stack>> /\ mode' = "eval" /\ env' = Global
    BY <1>11 DEF NextNode, NestedScopes
  <2>2. ScopeIn(stack, Len(stack)) = Global
    BY <1>1, <2>1, ScopeInStep, SeqDomain
  <2> QED BY <1>3, <2>1, <2>2
<1>12. CASE PackageEnds \/ NodeEnds
  BY <1>3, <1>12 DEF PackageEnds, NodeEnds, NestedScopes
<1>13. CASE EvalLiteral \/ EvalSymbol \/ EvalOther \/ EvalPanics
  BY <1>3, <1>13 DEF EvalLiteral, EvalSymbol, EvalOther, EvalPanics, Evaluates
<1>14. CASE evalIf \/ evalSpecialOp \/ EvalSExp
  <2>1. mode = "eval" /\ UNCHANGED envs
    BY <1>14 DEF evalIf, evalSpecialOp, EvalSExp, Evaluates
  <2>2. CASE mode' = "return"
    BY <1>3, <1>14, <2>2 DEF evalIf, evalSpecialOp, EvalSExp, Evaluates
  <2>3. CASE mode' # "return"
    <3>1. /\ UNCHANGED env /\ mode' = "eval"
          /\ \E call \in {"if", "+", "*", "apply"} :
               stack' = Append(stack, Frame(call, env, Tail(node.kids), << >>))
      BY <1>14, <2>3 DEF evalIf, evalSpecialOp, EvalSExp, Evaluates
    <3> QED BY <1>0, <1>5, <2>1, <3>1
  <2> QED BY <2>2, <2>3
<1>15. ASSUME stack # << >>, UNCHANGED envs, Top.call # "namespace",
              \/ stack' = Front(stack) /\ mode' = "return"
              \/ \E call, args, objs :
                   /\ call # "namespace" /\ mode' = "eval" /\ env' = Top.env
                   /\ stack' = [stack EXCEPT ![Len(stack)] = Frame(call, Top.env, args, objs)]
       PROVE  NestedScopes'
  BY <1>0, <1>2, <1>4, <1>8, <1>15
<1>16. CASE builtinTypeOf \/ ApplyNamespace \/ ApplyOther \/ Index
  BY <1>15, <1>16 DEF builtinTypeOf, CallsBuiltin, Applies, ApplyNamespace, ApplyOther, Index, ReturnsTo
<1>17. CASE builtinApply \/ gt \/ array \/ ApplyArray
  BY <1>15, <1>17 DEF builtinApply, gt, array, ApplyArray, CallsBuiltin, Applies
<1>18. CASE NextArgument
  <2>1. /\ Top.call \in {"array", "+", "*", ">"}
        /\ stack # << >> /\ UNCHANGED envs
    BY <1>18 DEF NextArgument, ReturnsTo
  <2> QED BY <1>15, <1>18, <2>1 DEF NextArgument
<1>19. CASE assign
  BY <1>15, <1>19 DEF assign, BeginAssign, CallsBuiltin, Applies
<1>20. CASE IfBranch
  BY <1>2, <1>4, <1>20 DEF IfBranch, ReturnsTo
<1>21. CASE createNamespace
  <2> DEFINE n == Len(envs)
             new == Child(Top.env)
  <2>1. /\ stack # << >> /\ Top.call = "apply" /\ envs' = Append(envs, new)
        /\ BeginAssign("namespace", n + 1)
    BY <1>21 DEF createNamespace, CallsBuiltin, Applies
  <2>2. /\ IsSeq(envs') /\ DOMAIN envs = 1 .. n /\ DOMAIN envs' = 1 .. n + 1 /\ n \in Nat
        /\ envs'[n + 1] = new /\ \A e \in 1 .. n : envs'[e] = envs[e]
    BY <1>1, <2>1, AddLast, SeqDomain DEF EnvsAre
  <2>3. new.parent = Top.env /\ new = [parent |-> new.parent, values |-> new.values]
    BY DEF Child
  <2> HIDE DEF n, new
  <2>4. EnvsAre' /\ EnvsGrow(envs, envs')
    <3>1. \A e \in 1 .. n + 1 : e = n + 1 \/ e \in 1 .. n
      BY <2>2
    <3>2. \A e \in DOMAIN envs' : envs'[e] = [parent |-> envs'[e].parent, values |-> envs'[e].values]
      BY <1>1, <2>2, <2>3, <3>1 DEF EnvsAre
    <3>3. Global \in DOMAIN envs'
      BY <1>1, <2>2 DEF EnvsAre
    <3> QED BY <2>2, <3>2, <3>3 DEF EnvsAre, EnvsGrow
  <2>5. CASE stack' = Front(stack) /\ mode' = "return"
    BY <1>4, <2>1, <2>4, <2>5
  <2>6. CASE ~(stack' = Front(stack) /\ mode' = "return")
    <3> DEFINE f == Frame("namespace", n + 1, Args, << >>)
    <3>1. stack' = [stack EXCEPT ![Len(stack)] = f] /\ mode' = "eval" /\ env' = f.env
      BY <1>0, <2>1, <2>6 DEF BeginAssign
    <3>2. f.call = "namespace" /\ f.env = n + 1
      BY <1>0
    <3>3. envs'[n + 1].parent = ScopeIn(stack, Len(stack) - 1) /\ n + 1 \in DOMAIN envs'
      BY <1>7, <2>1, <2>2, <2>3
    <3> HIDE DEF f
    <3> QED BY <1>6, <2>1, <2>4, <3>1, <3>2, <3>3
  <2> QED BY <2>5, <2>6
<1>22. CASE AssignValue
  <2>1. /\ stack # << >> /\ Top.call \in {"assign", "namespace"}
        /\ envs' = Assign(Top.env, Args[1].name, obj)
    BY <1>22 DEF AssignValue
  <2>2. EnvsAre' /\ EnvsGrow(envs, envs') /\ Top.env \in DOMAIN envs
    BY <1>1, <1>7, <2>1, AssignKeeps
  <2>3. CASE stack' = Front(stack) /\ mode' = "return"
    BY <1>4, <2>1, <2>2, <2>3
  <2>4. CASE ~(stack' = Front(stack) /\ mode' = "return")
    <3>1. PICK args, objs :
            /\ stack' = [stack EXCEPT ![Len(stack)] = Frame(Top.call, Top.env, args, objs)]
            /\ mode' = "eval" /\ env' = Top.env
      BY <1>22, <2>4 DEF AssignValue
    <3> DEFINE f == Frame(Top.call, Top.env, args, objs)
    <3>2. f.call = Top.call /\ f.env = Top.env
      BY <1>0
    <3>3. /\ f.env \in DOMAIN envs'
          /\ IF f.call = "namespace" THEN envs'[f.env].parent = ScopeIn(stack, Len(stack) - 1)
                                     ELSE f.env = ScopeIn(stack, Len(stack) - 1)
      BY <1>7, <2>1, <2>2, <3>2 DEF EnvsGrow
    <3>4. stack' = [stack EXCEPT ![Len(stack)] = f] /\ env' = f.env
      BY <3>1, <3>2
    <3> HIDE DEF f
    <3> QED BY <1>6, <2>1, <2>2, <3>1, <3>3, <3>4
  <2> QED BY <2>3, <2>4
<1> QED BY <1>9, <1>10, <1>11, <1>12, <1>13, <1>14, <1>16, <1>17, <1>18, <1>19, <1>20, <1>21, <1>22
        DEF Next, Step

(* The inductive invariant behind the next two theorems: the scopes that   *)
(* are being made lie inside one another as the frames of their calls do,  *)
(* and every frame goes on in the scope that it was called in.             *)
THEOREM NestedScopesHold == Spec => []NestedScopes
  BY NestedInit, NestedStep, PTL DEF Spec

(* Whatever assign, namespace and apply call inside one another, each      *)
(* frame and each evaluation is in the scope of the innermost namespace    *)
(* that is being made.                                                     *)
THEOREM EveryScopeNests == Spec => []ScopesNest
<1>1. \A k : Scope(k) = ScopeIn(stack, k)
  BY DEF Scope, ScopeIn, Namespaces
<1>2. NestedScopes => ScopesNest
  BY <1>1 DEF NestedScopes, FramesNest, ScopesNest
<1> QED BY <1>2, NestedScopesHold, PTL

(***************************************************************************)
(* OnlyInnermostIsBound follows from NestedScopes: two actions change      *)
(* environments, one that makes another and one that binds a name in the   *)
(* scope of the frame that waits.                                          *)
(***************************************************************************)
LEMMA TopIsInnermost ==
  ASSUME NestedScopes, stack # << >> PROVE Scope(Len(stack)) = Top.env /\ Top.env \in DOMAIN envs
<1>1. Scope(Len(stack)) = ScopeIn(stack, Len(stack))
  BY DEF Scope, ScopeIn, Namespaces
<1>2. Len(stack) \in Nat \ {0} /\ Len(stack) \in DOMAIN stack
  BY NotEmpty DEF NestedScopes
<1> QED BY <1>1, <1>2, ScopeInStep DEF NestedScopes, FramesNest, Top

LEMMA TwoChangeEnvironments == [Next]_vars => UNCHANGED envs \/ createNamespace \/ AssignValue
  BY DEF Next, Step, vars, EvalPackage, NextNode, PackageEnds, NodeEnds, EvalLiteral, EvalSymbol,
         EvalOther, evalIf, evalSpecialOp, EvalSExp, EvalPanics, Evaluates, builtinTypeOf, assign,
         builtinApply, gt, array, ApplyNamespace, ApplyArray, ApplyOther, Index, IfBranch,
         NextArgument, ReturnsTo

(* Whatever is evaluated, a name is bound in the innermost scope only, one *)
(* at a time, and none is ever unbound; every other environment stands.    *)
THEOREM BindsInInnermostOnly == Spec => OnlyInnermostIsBound
<1> DEFINE Bound(i) ==
             LET old == envs[i].values  new == envs'[i].values IN
             envs'[i] # envs[i] =>
               /\ i = Scope(Len(stack)) /\ envs'[i].parent = envs[i].parent
               /\ DOMAIN old \subseteq DOMAIN new
               /\ \A m, n \in DOMAIN new :
                    (m \notin DOMAIN old \/ new[m] # old[m]) /\ (n \notin DOMAIN old \/ new[n] # old[n])
                      => m = n
<1>1. ASSUME NestedScopes, [Next]_vars, NEW i \in DOMAIN envs PROVE Bound(i)
  <2>1. CASE UNCHANGED envs
    BY <2>1
  <2>2. CASE createNamespace
    <3>1. IsSeq(envs) /\ envs' = Append(envs, Child(Top.env))
      BY <1>1, <2>2 DEF createNamespace, NestedScopes, EnvsAre
    <3>2. envs'[i] = envs[i]
      BY <3>1, AddLast, SeqDomain
    <3> QED BY <3>2
  <2>3. CASE AssignValue
    <3>1. stack # << >> /\ envs' = Assign(Top.env, Args[1].name, obj)
      BY <2>3 DEF AssignValue
    <3>2. Scope(Len(stack)) = Top.env /\ Top.env \in DOMAIN envs /\ EnvsAre
      BY <1>1, <3>1, TopIsInnermost DEF NestedScopes
    <3> DEFINE name == Args[1].name
               old == envs[i].values
               new == envs'[i].values
    <3> HIDE DEF old, new, name
    <3>0. envs' = Assign(Top.env, name, obj)
      BY <3>1 DEF name
    <3>3. /\ EnvsGrow(envs, envs')
          /\ i # Top.env => envs'[i] = envs[i]
          /\ DOMAIN envs'[Top.env].values = DOMAIN envs[Top.env].values \cup {name}
          /\ \A n \in DOMAIN envs[Top.env].values :
               n # name => envs'[Top.env].values[n] = envs[Top.env].values[n]
      BY <3>0, <3>2, AssignKeeps
    <3>4. CASE i # Top.env
      BY <3>3, <3>4
    <3>5. CASE i = Top.env
      <4>1. DOMAIN new = DOMAIN old \cup {name} /\ \A n \in DOMAIN old : n # name => new[n] = old[n]
        BY <3>3, <3>5 DEF old, new
      <4>2. i = Scope(Len(stack)) /\ envs'[i].parent = envs[i].parent
        BY <3>2, <3>3, <3>5 DEF EnvsGrow
      <4>3. \A m \in DOMAIN new : m \notin DOMAIN old \/ new[m] # old[m] => m = name
        BY <4>1
      <4>4. DOMAIN old \subseteq DOMAIN new
        BY <4>1
      <4> QED BY <4>2, <4>3, <4>4 DEF old, new
    <3> QED BY <3>4, <3>5
  <2> QED BY <1>1, <2>1, <2>2, <2>3, TwoChangeEnvironments
<1> DEFINE AllBound == \A i \in DOMAIN envs : Bound(i)
<1>2. NestedScopes /\ [Next]_vars => AllBound
  BY <1>1
<1>3. Spec => [][AllBound]_vars
  <2> HIDE DEF AllBound
  <2> QED BY <1>2, NestedScopesHold, PTL DEF Spec
<1> QED BY <1>3 DEF OnlyInnermostIsBound

(***************************************************************************)
(* Values.  V is a set of objects that has the elements of its arrays, and *)
(* no namespaces but those of F; their numbers are such that arithmetic is *)
(* defined.  There are six builtins, and no object is a syntax tree.       *)
(***************************************************************************)
Builtins == {Builtin(name) : name \in DOMAIN builtinType}

IsObject(o, V, F) ==
  /\ o.num \in Int /\ o.elems \in Seq(V) /\ o.kind # "ast"
  /\ o.kind = "integer" => o.num \in Int64
  /\ o.kind = "float64" => o.num \in Floats
  /\ o.kind = "namespace" => o.num \in F
  /\ o.kind = "builtin" => o \in Builtins

AreValues(V, F) == {Null, Error, Nil} \subseteq V /\ \A o \in V : IsObject(o, V, F)

(* Environments: they bind values, and their parents are older.            *)
EnvsHold(es, V) ==
  \A e \in DOMAIN es :
    /\ es[e].parent \in 0 .. e - 1
    /\ \A name \in DOMAIN es[e].values : es[e].values[name] \in V

LEMMA AddValue ==
  ASSUME NEW V, NEW F, AreValues(V, F), NEW G, F \subseteq G, NEW o, IsObject(o, V, G)
  PROVE  AreValues(V \cup {o}, G)
<1> DEFINE W == V \cup {o}
<1>1. ASSUME NEW p \in W PROVE IsObject(p, W, G)
  <2>1. IsObject(p, V, G)
    BY DEF AreValues, IsObject
  <2>2. p.elems \in Seq(W)
    BY <2>1, SeqMonotonic DEF IsObject
  <2> QED BY <2>1, <2>2 DEF IsObject
<1>2. {Null, Error, Nil} \subseteq W
  BY DEF AreValues
<1> QED BY <1>1, <1>2 DEF AreValues

(* What LookUp computes at environment i.                                  *)
Looks(look, name, i) ==
  IF i = 0 THEN Null
  ELSE IF name \in DOMAIN envs[i].values THEN envs[i].values[name]
  ELSE look[envs[i].parent]

LEMMA LookExists ==
  ASSUME NEW V, Null \in V, EnvsHold(envs, V), IsSeq(envs), NEW name
  PROVE  \E look \in [0 .. Len(envs) -> V] : \A i \in 0 .. Len(envs) : look[i] = Looks(look, name, i)
<1> DEFINE n0 == Len(envs)
           IsLook(look, n) == \A i \in 0 .. n : look[i] = Looks(look, name, i)
           Exists(n) == \E look \in [0 .. n -> V] : IsLook(look, n)
           S == {n \in Nat : n <= n0 => Exists(n)}
<1>1. n0 \in Nat /\ DOMAIN envs = 1 .. n0
  BY SeqDomain
<1> HIDE DEF n0
<1>2. Exists(0)
  <2> DEFINE look == [i \in 0 .. 0 |-> Null]
  <2>1. look \in [0 .. 0 -> V] /\ IsLook(look, 0)
    BY DEF Looks
  <2> QED BY <2>1
<1>3. ASSUME NEW n \in Nat, n + 1 <= n0, Exists(n) PROVE Exists(n + 1)
  <2>1. PICK old \in [0 .. n -> V] : IsLook(old, n)
    BY <1>3
  <2> DEFINE m == n + 1
             new == [i \in 0 .. m |-> IF i = m THEN Looks(old, name, m) ELSE old[i]]
  <2>2. \A i \in 1 .. m : i \in DOMAIN envs /\ envs[i].parent \in 0 .. i - 1 /\ envs[i].parent \in 0 .. n
    BY <1>1, <1>3 DEF EnvsHold
  <2>3. Looks(old, name, m) \in V
    <3>1. m \in 1 .. m /\ m # 0
      OBVIOUS
    <3> HIDE DEF m
    <3> QED BY <2>2, <3>1 DEF Looks, EnvsHold
  <2>4. new \in [0 .. m -> V]
    <3>1. \A i \in 0 .. m : i # m => old[i] \in V
      OBVIOUS
    <3> HIDE DEF m
    <3> QED BY <2>3, <3>1
  <2>5. new[m] = Looks(old, name, m) /\ \A i \in 0 .. n : new[i] = old[i]
    <3>1. m \in 0 .. m /\ \A i \in 0 .. n : i \in 0 .. m /\ i # m
      OBVIOUS
    <3> HIDE DEF m
    <3> QED BY <3>1
  <2> HIDE DEF new
  <2>6. ASSUME NEW i \in 0 .. m PROVE new[i] = Looks(new, name, i)
    <3>1. i # 0 => new[envs[i].parent] = old[envs[i].parent]
      BY <2>2, <2>5
    <3>2. Looks(new, name, i) = Looks(old, name, i)
      BY <3>1 DEF Looks
    <3>3. i = m \/ i \in 0 .. n
      OBVIOUS
    <3> HIDE DEF m
    <3> QED BY <2>1, <2>5, <3>2, <3>3
  <2> QED BY <2>4, <2>6
<1> HIDE DEF Exists
<1>4. S \in SUBSET Nat /\ 0 \in S /\ \A n \in S : n + 1 \in S
  BY <1>1, <1>2, <1>3
<1>5. n0 \in S
  <2> HIDE DEF S
  <2> QED BY <1>1, <1>4, Induction
<1> QED BY <1>1, <1>5 DEF Exists, n0

LEMMA LookUpLooks ==
  ASSUME NEW V, Null \in V, EnvsHold(envs, V), IsSeq(envs), NEW name
  PROVE  \E look : /\ \A i \in 0 .. Len(envs) : look[i] = Looks(look, name, i)
                   /\ \A e : LookUp(e, name) = look[e]
<1> DEFINE n == Len(envs)
           Is(t) == t = [i \in 0 .. n |-> IF i = 0 THEN Null
                                          ELSE IF name \in DOMAIN envs[i].values THEN envs[i].values[name]
                                          ELSE t[envs[i].parent]]
           look == CHOOSE t : Is(t)
<1>1. \A e : LookUp(e, name) = look[e]
  BY DEF LookUp
<1>2. \E t : Is(t)
  <2>1. PICK t \in [0 .. n -> V] : \A i \in 0 .. n : t[i] = Looks(t, name, i)
    BY LookExists
  <2>2. t = [i \in 0 .. n |-> t[i]]
    OBVIOUS
  <2>3. t = [i \in 0 .. n |-> Looks(t, name, i)]
    <3> HIDE DEF n
    <3> QED BY <2>1, <2>2
  <2>4. Is(t)
    BY <2>3, Zenon DEF Looks
  <2> QED BY <2>4
<1>3. Is(look)
  <2> HIDE DEF Is
  <2> QED BY <1>2
<1> HIDE DEF look, n
<1>4. \A i \in 0 .. n : look[i] = Looks(look, name, i)
  BY <1>3 DEF Looks
<1> QED BY <1>1, <1>4 DEF n

LEMMA LookUpIsValue ==
  ASSUME NEW V, Null \in V, EnvsHold(envs, V), IsSeq(envs), NEW name, NEW e \in DOMAIN envs
  PROVE  LookUp(e, name) \in V
<1> DEFINE n == Len(envs)
<1>1. PICK look : /\ \A i \in 0 .. Len(envs) : look[i] = Looks(look, name, i)
                  /\ \A i : LookUp(i, name) = look[i]
  BY LookUpLooks
<1>2. n \in Nat /\ DOMAIN envs = 1 .. n
  BY SeqDomain
<1>5. \A i \in 0 .. n : look[i] = Looks(look, name, i)
  BY <1>1
<1> HIDE DEF n
<1> DEFINE S == {m \in Nat : \A i \in 0 .. m : i <= n => look[i] \in V}
<1>6. 0 \in S
  BY <1>2, <1>5 DEF Looks
<1>7. ASSUME NEW m \in S PROVE m + 1 \in S
  <2>1. m \in Nat /\ \A i \in 0 .. m : i <= n => look[i] \in V
    OBVIOUS
  <2>2. ASSUME m + 1 <= n PROVE look[m + 1] \in V
    <3>1. m + 1 \in DOMAIN envs /\ m + 1 \in 0 .. n
      BY <1>2, <2>1, <2>2
    <3>2. /\ envs[m + 1].parent \in 0 .. m + 1 - 1
          /\ \A k \in DOMAIN envs[m + 1].values : envs[m + 1].values[k] \in V
      BY <3>1 DEF EnvsHold
    <3>3. look[envs[m + 1].parent] \in V
      BY <1>2, <2>1, <2>2, <3>2
    <3> QED BY <1>5, <3>1, <3>2, <3>3 DEF Looks
  <2>3. \A i \in 0 .. m + 1 : i = m + 1 \/ i \in 0 .. m
    BY <2>1
  <2> QED BY <2>1, <2>2, <2>3
<1>8. e \in S
  <2>1. S \in SUBSET Nat
    OBVIOUS
  <2> HIDE DEF S
  <2>2. e \in Nat
    BY <1>2
  <2> QED BY <1>6, <1>7, <2>1, <2>2, Induction
<1> QED BY <1>1, <1>2, <1>8

(***************************************************************************)
(* The arithmetic of integers: however it wraps, operands change places.   *)
(***************************************************************************)
LEMMA Half ==
  /\ Modulus \div 2 \in Int /\ Modulus = 2 * (Modulus \div 2)
  /\ Int64 \subseteq Int /\ {0, 1} \subseteq Int64
<1>1. PICK k \in 2 .. Modulus : Modulus = 2 * k
  BY ModulusAssumption
<1>2. Modulus \div 2 = k /\ k \in Int /\ k >= 2
  BY <1>1, ModulusAssumption
<1> DEFINE h == Modulus \div 2
<1>3. h \in Int /\ h >= 2 /\ Int64 = -h .. h - 1
  BY <1>2 DEF Int64
<1> HIDE DEF h
<1>4. Int64 \subseteq Int /\ {0, 1} \subseteq Int64
  BY <1>3
<1> QED BY <1>1, <1>2, <1>4

LEMMA WrapIs ==
  ASSUME NEW a \in Int, NEW k \in Int
  PROVE  /\ Wrap(a) \in Int64 /\ Wrap(a) \in Int /\ Wrap(a + Modulus * k) = Wrap(a)
         /\ \E q \in Int : Wrap(a) = a + Modulus * q
<1> DEFINE m == Modulus
           h == Modulus \div 2
           r == (a + h) % m
           q == (a + h) \div m
<1>1. m \in Nat \ {0} /\ h \in Int
  <2>1. m \in Nat \ {0}
    BY ModulusAssumption
  <2>2. 2 \in Nat \ {0} /\ m \in Int
    BY <2>1
  <2> HIDE DEF m
  <2> QED BY <2>1, <2>2, DivisionIs DEF m
<1> HIDE DEF m, h
<1>2. r \in 0 .. m - 1 /\ q \in Int /\ a + h = m * q + r
  <2>1. a + h \in Int
    BY <1>1
  <2> DEFINE c == a + h
  <2> HIDE DEF c
  <2>2. c % m \in 0 .. m - 1 /\ c \div m \in Int /\ c = m * (c \div m) + (c % m)
    BY <1>1, <2>1, DivisionIs DEF c
  <2> QED BY <2>2 DEF c
<1>3. Wrap(a) = r - h
  BY DEF Wrap, m, h
<1> HIDE DEF r, q
<1>4. m * (q + k) = m * q + m * k /\ m * (-q) = -(m * q)
  BY <1>1, <1>2
<1> DEFINE mq == m * q
           mk == m * k
<1>5. mq \in Int /\ mk \in Int
  BY <1>1, <1>2
<1> HIDE DEF mq, mk
<1>6. (a + mk) + h = m * (q + k) + r
  BY <1>1, <1>2, <1>4, <1>5 DEF mq, mk
<1>7. ((a + mk) + h) % m = r
  <2>1. a + mk + h \in Int /\ q + k \in Int
    BY <1>1, <1>2, <1>5
  <2> QED BY <1>1, <1>2, <1>6, <2>1, RemainderIs
<1>8. Wrap(a + mk) = Wrap(a)
  BY <1>3, <1>7 DEF Wrap, m, h
<1>9. Wrap(a) = a + m * (-q) /\ -q \in Int /\ Wrap(a) \in Int
  BY <1>1, <1>2, <1>3, <1>4, <1>5 DEF mq
<1>10. Wrap(a) \in Int64
  <2>1. m = 2 * h /\ Int64 = -h .. h - 1
    BY Half DEF m, h, Int64
  <2> QED BY <1>1, <1>2, <1>3, <2>1
<1> QED BY <1>8, <1>9, <1>10 DEF mk, m

LEMMA WrapAgain ==
  ASSUME NEW a \in Int, NEW b \in Int
  PROVE  Wrap(Wrap(a) + b) = Wrap(a + b) /\ Wrap(Wrap(a) * b) = Wrap(a * b)
<1>1. PICK q \in Int : Wrap(a) = a + Modulus * q
  BY WrapIs, 0 \in Int
<1>2. Modulus \in Int
  BY ModulusAssumption
<1>3. (a + Modulus * q) + b = (a + b) + Modulus * q
  <2> DEFINE c == Modulus * q
  <2>1. c \in Int
    BY <1>2
  <2> HIDE DEF c
  <2> QED BY <2>1 DEF c
<1>4. (a + Modulus * q) * b = a * b + Modulus * (q * b)
  <2>1. Modulus * (q * b) = (Modulus * q) * b
    BY <1>2
  <2> DEFINE c == Modulus * q
  <2>2. c \in Int
    BY <1>2
  <2> HIDE DEF c
  <2>3. (a + c) * b = a * b + c * b
    BY <2>2
  <2> QED BY <2>1, <2>3 DEF c
<1>5. a + b \in Int /\ a * b \in Int /\ q * b \in Int
  OBVIOUS
<1>6. Wrap((a + b) + Modulus * q) = Wrap(a + b)
  BY <1>5, WrapIs
<1>7. Wrap(a * b + Modulus * (q * b)) = Wrap(a * b)
  BY <1>5, WrapIs
<1> QED BY <1>1, <1>3, <1>4, <1>6, <1>7

(***************************************************************************)
(* The totals.  What + and * take are numbers of one set: floats if there  *)
(* is one among them, else integers.                                       *)
(***************************************************************************)
NumberSet(hasFloats) == IF hasFloats THEN Floats ELSE Int64

Combination(op, hasFloats) ==
  [pair \in NumberSet(hasFloats) \X NumberSet(hasFloats) |-> Combine(op, hasFloats, pair[1], pair[2])]

LEMMA Combines ==
  ASSUME NEW op, NEW hasFloats \in BOOLEAN, NEW N, N = NumberSet(hasFloats)
  PROVE  /\ Combination(op, hasFloats) \in [N \X N -> N] /\ Start(op, hasFloats) \in N
         /\ \A x, y \in N : Combination(op, hasFloats)[<<x, y>>] = Combine(op, hasFloats, x, y)
<1> DEFINE C(x, y) == Combine(op, hasFloats, x, y)
<1>1. ASSUME NEW x \in N, NEW y \in N PROVE C(x, y) \in N
  <2>1. CASE hasFloats
    <3>1. x \in Floats /\ y \in Floats /\ N = Floats
      BY <2>1 DEF NumberSet
    <3>2. FloatSum[<<x, y>>] \in Floats /\ FloatProduct[<<x, y>>] \in Floats
      BY <3>1, FloatsAssumption
    <3> QED BY <2>1, <3>1, <3>2 DEF Combine
  <2>2. CASE ~hasFloats
    <3>1. x \in Int /\ y \in Int /\ N = Int64
      BY <2>2, Half DEF NumberSet
    <3>2. x + y \in Int /\ x * y \in Int
      BY <3>1
    <3>3. Wrap(x + y) \in Int64 /\ Wrap(x * y) \in Int64
      BY <3>2, WrapIs, 0 \in Int
    <3> QED BY <2>2, <3>1, <3>3 DEF Combine
  <2> QED BY <2>1, <2>2
<1>2. Start(op, hasFloats) \in N
  BY Half, FloatsAssumption DEF Start, NumberSet
<1>3. \A pair \in N \X N : pair[1] \in N /\ pair[2] \in N
  OBVIOUS
<1>4. Combination(op, hasFloats) = [pair \in N \X N |-> C(pair[1], pair[2])]
  BY DEF Combination
<1> HIDE DEF C
<1>5. /\ Combination(op, hasFloats) \in [N \X N -> N]
      /\ \A x, y \in N : Combination(op, hasFloats)[<<x, y>>] = C(x, y)
  BY <1>1, <1>3, <1>4
<1> QED BY <1>2, <1>5 DEF C

LEMMA IntegersCombine ==
  ASSUME NEW op
  PROVE  /\ Combination(op, FALSE) \in [Int64 \X Int64 -> Int64] /\ Start(op, FALSE) \in Int64
         /\ \A x, y \in Int64 : Combination(op, FALSE)[<<x, y>>] = Combine(op, FALSE, x, y)
<1>1. PICK h \in BOOLEAN : h = FALSE
  OBVIOUS
<1>2. NumberSet(h) = Int64
  BY <1>1 DEF NumberSet
<1>3. /\ Combination(op, h) \in [Int64 \X Int64 -> Int64] /\ Start(op, h) \in Int64
      /\ \A x, y \in Int64 : Combination(op, h)[<<x, y>>] = Combine(op, h, x, y)
  BY <1>2, Combines
<1> QED BY <1>1, <1>3

LEMMA IntegersExchange ==
  ASSUME NEW op
  PROVE  Exchange(Combination(op, FALSE), Int64, Int64)
<1> DEFINE G == Combination(op, FALSE)
           C(x, y) == Combine(op, FALSE, x, y)
<1>1. G \in [Int64 \X Int64 -> Int64] /\ \A x, y \in Int64 : G[<<x, y>>] = C(x, y)
  BY IntegersCombine
<1>2. ASSUME NEW x \in Int64, NEW a \in Int64, NEW b \in Int64 PROVE C(C(x, a), b) = C(C(x, b), a)
  <2>1. x \in Int /\ a \in Int /\ b \in Int
    BY Half
  <2>2. (x + a) + b = (x + b) + a /\ (x * a) * b = (x * b) * a
    BY <2>1
  <2>3. x + a \in Int /\ x + b \in Int /\ x * a \in Int /\ x * b \in Int
    BY <2>1
  <2>4. /\ Wrap(Wrap(x + a) + b) = Wrap((x + a) + b) /\ Wrap(Wrap(x * a) * b) = Wrap((x * a) * b)
        /\ Wrap(Wrap(x + b) + a) = Wrap((x + b) + a) /\ Wrap(Wrap(x * b) * a) = Wrap((x * b) * a)
    BY <2>1, <2>3, WrapAgain
  <2>5. \A y, z : C(y, z) = IF op = "+" THEN Wrap(y + z) ELSE Wrap(y * z)
    BY DEF Combine
  <2> HIDE DEF C
  <2> QED BY <2>2, <2>4, <2>5
<1> HIDE DEF C, G
<1>3. ASSUME NEW x \in Int64, NEW a \in Int64, NEW b \in Int64
      PROVE  G[<<G[<<x, a>>], b>>] = C(C(x, a), b)
  <2>1. G[<<x, a>>] \in Int64
    BY <1>1
  <2> QED BY <1>1, <2>1
<1>4. \A x \in Int64, a, b \in Int64 : G[<<G[<<x, a>>], b>>] = G[<<G[<<x, b>>], a>>]
  BY <1>2, <1>3
<1> QED BY <1>4, Zenon DEF Exchange, G

(* What Total computes, as a fold over the numbers of the objects.         *)
Numbers(hasFloats, objs) == [i \in 1 .. Len(objs) |-> Operand(hasFloats, objs[i])]

AreOperands(hasFloats, objs) ==
  Len(objs) \in Nat /\ \A i \in 1 .. Len(objs) : Operand(hasFloats, objs[i]) \in NumberSet(hasFloats)

IsTotal(op, hasFloats, objs, f) ==
  /\ IsFold(Combination(op, hasFloats), NumberSet(hasFloats), Start(op, hasFloats), Numbers(hasFloats, objs),
            Len(objs), f)
  /\ Total(op, hasFloats, objs) = Primitive(IF hasFloats THEN "float64" ELSE "integer", f[Len(objs)])

LEMMA TotalIsFold ==
  ASSUME NEW op, NEW hasFloats \in BOOLEAN, NEW objs, AreOperands(hasFloats, objs)
  PROVE  \E f : IsTotal(op, hasFloats, objs, f) /\ \A i \in 0 .. Len(objs) : f[i] \in NumberSet(hasFloats)
<1> DEFINE n == Len(objs)
           G == Combination(op, hasFloats)
           v == Numbers(hasFloats, objs)
           N == NumberSet(hasFloats)
           u == Start(op, hasFloats)
           Is(t) == t = [i \in 0 .. n |-> IF i = 0 THEN u
                                          ELSE Combine(op, hasFloats, t[i - 1], Operand(hasFloats, objs[i]))]
           total == CHOOSE t : Is(t)
<1>1. Total(op, hasFloats, objs) = Primitive(IF hasFloats THEN "float64" ELSE "integer", total[n])
  BY DEF Total
<1>2. n \in Nat /\ AreIn(v, n, N) /\ \A i \in 1 .. n : v[i] = Operand(hasFloats, objs[i])
  BY DEF AreOperands, AreIn, Numbers
<1>3. G \in [N \X N -> N] /\ u \in N /\ \A x, y \in N : G[<<x, y>>] = Combine(op, hasFloats, x, y)
  BY Combines
<1> HIDE DEF n, v, N, u, G
<1>4. PICK f \in [0 .. n -> N] : IsFold(G, N, u, v, n, f)
  BY <1>2, <1>3, FoldExists
<1>5. ASSUME NEW i \in 0 .. n
      PROVE  f[i] = IF i = 0 THEN u ELSE Combine(op, hasFloats, f[i - 1], Operand(hasFloats, objs[i]))
  <2>1. CASE i # 0
    <3>1. i \in 1 .. n /\ i - 1 \in 0 .. n
      BY <1>2, <2>1
    <3>2. f[i - 1] \in N /\ v[i] \in N
      BY <1>2, <3>1 DEF AreIn
    <3>3. f[i] = G[<<f[i - 1], v[i]>>]
      BY <1>4, <3>1, <3>2 DEF IsFold
    <3> QED BY <1>2, <1>3, <2>1, <3>1, <3>2, <3>3
  <2> QED BY <1>4, <2>1 DEF IsFold
<1>6. Is(f)
  <2>1. f = [i \in 0 .. n |-> f[i]]
    OBVIOUS
  <2> QED BY <1>5, <2>1
<1>7. Is(total)
  <2> HIDE DEF Is
  <2> QED BY <1>6
<1> HIDE DEF total
<1>8. \A i \in 0 .. n : total[i] = IF i = 0 THEN u
                                   ELSE Combine(op, hasFloats, total[i - 1], Operand(hasFloats, objs[i]))
  BY <1>7
<1>9. IsFold(G, N, u, v, n, total)
  <2>1. total[0] = u
    BY <1>2, <1>8
  <2>2. ASSUME NEW i \in 1 .. n, total[i - 1] \in N PROVE total[i] = G[<<total[i - 1], v[i]>>]
    <3>1. i \in 0 .. n /\ i # 0 /\ v[i] \in N
      BY <1>2 DEF AreIn
    <3> QED BY <1>2, <1>3, <1>8, <2>2, <3>1
  <2> QED BY <2>1, <2>2 DEF IsFold
<1>10. \A i \in 0 .. n : total[i] \in N
  BY <1>2, <1>3, <1>9, FoldStays
<1> QED BY <1>1, <1>9, <1>10 DEF n, v, N, u, G, IsTotal

(* A total is a number.                                                    *)
LEMMA TotalIs ==
  ASSUME NEW op, NEW hasFloats \in BOOLEAN, NEW objs, AreOperands(hasFloats, objs)
  PROVE  LET o == Total(op, hasFloats, objs) IN
         /\ o.num \in NumberSet(hasFloats) /\ o.elems = << >>
         /\ o.kind = IF hasFloats THEN "float64" ELSE "integer"
<1>1. PICK f : IsTotal(op, hasFloats, objs, f) /\ \A i \in 0 .. Len(objs) : f[i] \in NumberSet(hasFloats)
  BY TotalIsFold
<1>2. f[Len(objs)] \in NumberSet(hasFloats)
  BY <1>1 DEF AreOperands
<1>3. \A kind, num : /\ Primitive(kind, num).num = num /\ Primitive(kind, num).elems = << >>
                     /\ Primitive(kind, num).kind = kind
  BY DEF Primitive, Obj
<1> QED BY <1>1, <1>2, <1>3 DEF IsTotal

(* The order of integers does not matter.                                  *)
LEMMA IntegersInAnyOrder ==
  ASSUME NEW op, NEW objs, NEW h, h = FALSE, AreOperands(h, objs), NEW p, IsOrder(p, Len(objs)),
         NEW others, Len(others) = Len(objs), IsReordered(others, objs, p, Len(objs))
  PROVE  Total(op, h, others) = Total(op, h, objs)
<1> SUFFICES ASSUME AreOperands(FALSE, objs) PROVE Total(op, FALSE, others) = Total(op, FALSE, objs)
  OBVIOUS
<1>0. \A i \in 1 .. Len(objs) : others[i] = objs[p[i]]
  BY DEF IsReordered
<1> DEFINE n == Len(objs)
           G == Combination(op, FALSE)
           v == Numbers(FALSE, objs)
           w == Numbers(FALSE, others)
           u == Start(op, FALSE)
<1>1. n \in Nat /\ \A i \in 1 .. n : p[i] \in 1 .. n
  BY DEF IsOrder, AreOperands
<1>2. IsReordered(w, v, p, n) /\ AreIn(v, n, Int64)
  BY <1>0, <1>1 DEF IsReordered, Numbers, AreIn, AreOperands, NumberSet
<1>3. AreOperands(FALSE, others)
  BY <1>0, <1>1 DEF AreOperands
<1>4. PICK f : IsTotal(op, FALSE, objs, f)
  BY TotalIsFold
<1>5. PICK g : IsTotal(op, FALSE, others, g)
  BY <1>3, TotalIsFold
<1>6. NumberSet(FALSE) = Int64
  BY DEF NumberSet
<1>7. IsFold(G, Int64, u, v, n, f) /\ IsFold(G, Int64, u, w, n, g)
  BY <1>4, <1>5, <1>6, Zenon DEF IsTotal
<1>8. G \in [Int64 \X Int64 -> Int64] /\ u \in Int64 /\ Exchange(G, Int64, Int64)
  BY IntegersCombine, IntegersExchange
<1> HIDE DEF G, v, w, u
<1> DEFINE X == Int64
<1>10. /\ G \in [X \X X -> X] /\ u \in X /\ Exchange(G, X, X) /\ n \in Nat /\ AreIn(v, n, X)
       /\ IsOrder(p, n) /\ IsReordered(w, v, p, n) /\ IsFold(G, X, u, v, n, f) /\ IsFold(G, X, u, w, n, g)
  BY <1>1, <1>2, <1>7, <1>8
<1> HIDE DEF X, n
<1>9. f[n] = g[n] /\ f[n] \in X
  BY <1>10, AnyOrder
<1> QED BY <1>4, <1>5, <1>9 DEF IsTotal, n

(* Nor does that of two floats.                                            *)
LEMMA TwoFloats ==
  ASSUME NEW op \in {"+", "*"}, NEW objs, AreOperands(TRUE, objs), Len(objs) = 2
  PROVE  LET x == Operand(TRUE, objs[1])  y == Operand(TRUE, objs[2]) IN
         /\ Combine(op, TRUE, x, y) = Combine(op, TRUE, y, x)
         /\ Total(op, TRUE, objs) = Primitive("float64", Combine(op, TRUE, x, y))
<1> DEFINE x == Operand(TRUE, objs[1])
           y == Operand(TRUE, objs[2])
           u == Start(op, TRUE)
           G == Combination(op, TRUE)
           v == Numbers(TRUE, objs)
<1>1. x \in Floats /\ y \in Floats /\ v[1] = x /\ v[2] = y
  <2>1. 1 \in 1 .. Len(objs) /\ 2 \in 1 .. Len(objs)
    OBVIOUS
  <2>2. v[1] = x /\ v[2] = y
    BY <2>1 DEF Numbers
  <2>3. x \in NumberSet(TRUE) /\ y \in NumberSet(TRUE)
    BY <2>1 DEF AreOperands
  <2> QED BY <2>2, <2>3 DEF NumberSet
<1>2. PICK f : IsTotal(op, TRUE, objs, f) /\ \A i \in 0 .. 2 : f[i] \in NumberSet(TRUE)
  BY TotalIsFold
<1>3. IsFold(G, Floats, u, v, 2, f) /\ \A i \in 0 .. 2 : f[i] \in Floats
  BY <1>2 DEF IsTotal, NumberSet
<1>4. \A a, b \in Floats : G[<<a, b>>] = Combine(op, TRUE, a, b)
  <2>1. PICK h \in BOOLEAN : h = TRUE
    OBVIOUS
  <2>2. NumberSet(h) = Floats
    BY <2>1 DEF NumberSet
  <2>3. /\ Combination(op, h) \in [Floats \X Floats -> Floats] /\ Start(op, h) \in Floats
        /\ \A a, b \in Floats : Combination(op, h)[<<a, b>>] = Combine(op, h, a, b)
    BY <2>2, Combines
  <2> QED BY <2>1, <2>3
<1>5. Combine(op, TRUE, u, x) = x /\ Combine(op, TRUE, x, y) = Combine(op, TRUE, y, x)
  BY <1>1, FloatsAssumption DEF Combine, Start
<1> HIDE DEF x, y, u, G, v
<1>6. f[0] = u /\ f[1] = G[<<f[0], v[1]>>] /\ f[2] = G[<<f[1], v[2]>>]
  <2>1. 1 \in 1 .. 2 /\ 2 \in 1 .. 2 /\ 1 - 1 = 0 /\ 2 - 1 = 1 /\ f[0] \in Floats /\ f[1] \in Floats
    BY <1>3
  <2> QED BY <1>3, <2>1 DEF IsFold
<1>7. f[1] = x /\ f[2] = Combine(op, TRUE, x, y)
  <2>1. u \in Floats
    BY <1>3, <1>6
  <2>2. f[1] = Combine(op, TRUE, u, x)
    BY <1>1, <1>4, <1>6, <2>1
  <2>3. f[1] = x
    BY <1>5, <2>2
  <2> QED BY <1>1, <1>4, <1>6, <2>3
<1>8. Total(op, TRUE, objs) = Primitive("float64", f[2])
  BY <1>2 DEF IsTotal
<1> QED BY <1>5, <1>7, <1>8 DEF x, y

(***************************************************************************)
(* Namespaces that are being made are open; each is once.                  *)
(***************************************************************************)
Open(frames) == {frames[k].env : k \in Namespaces(frames, Len(frames))}
OpenOnce(frames) ==
  \A i, j \in Namespaces(frames, Len(frames)) : frames[i].env = frames[j].env => i = j

(* No namespace is opened: a frame goes, another call comes, or the last   *)
(* frame goes on with what it does.                                        *)
OpensNone(others, frames) ==
  \/ others = frames
  \/ frames # << >> /\ others = Front(frames)
  \/ \E f : f.call # "namespace" /\ others = Append(frames, f)
  \/ \E f : /\ frames # << >> /\ IsChanged(others, frames, f)
            /\ f.call = "namespace" => f.call = frames[Len(frames)].call /\ f.env = frames[Len(frames)].env

SameOpen(others, frames) ==
  \A i \in Namespaces(others, Len(others)) :
    i \in Namespaces(frames, Len(frames)) /\ others[i].env = frames[i].env

LEMMA OpensNoneIs ==
  ASSUME NEW frames, IsSeq(frames), NEW others, OpensNone(others, frames) PROVE SameOpen(others, frames)
<1>1. CASE others = frames
  BY <1>1 DEF SameOpen
<1>2. CASE frames # << >> /\ others = Front(frames)
  <2>1. /\ Len(others) = Len(frames) - 1 /\ Len(frames) \in Nat
        /\ \A i \in 1 .. Len(frames) - 1 : others[i] = frames[i]
    BY <1>2, DropLast, NotEmpty
  <2> QED BY <2>1 DEF SameOpen, Namespaces
<1>3. ASSUME NEW f, f.call # "namespace", others = Append(frames, f) PROVE SameOpen(others, frames)
  <2>1. /\ Len(others) = Len(frames) + 1 /\ Len(frames) \in Nat /\ others[Len(frames) + 1] = f
        /\ \A i \in 1 .. Len(frames) : others[i] = frames[i]
    BY <1>3, AddLast
  <2>2. \A i \in 1 .. Len(frames) + 1 : i = Len(frames) + 1 \/ i \in 1 .. Len(frames)
    BY <2>1
  <2> QED BY <1>3, <2>1, <2>2 DEF SameOpen, Namespaces
<1>4. ASSUME NEW f, frames # << >>, IsChanged(others, frames, f),
             f.call = "namespace" => f.call = frames[Len(frames)].call /\ f.env = frames[Len(frames)].env
      PROVE  SameOpen(others, frames)
  <2>1. /\ Len(others) = Len(frames) /\ Len(frames) \in Nat \ {0} /\ others[Len(frames)] = f
        /\ \A i \in 1 .. Len(frames) - 1 : others[i] = frames[i]
    BY <1>4, ChangeLast, NotEmpty
  <2>2. \A i \in 1 .. Len(frames) : i = Len(frames) \/ i \in 1 .. Len(frames) - 1
    BY <2>1
  <2> QED BY <1>4, <2>1, <2>2 DEF SameOpen, Namespaces
<1> QED BY <1>1, <1>2, <1>3, <1>4 DEF OpensNone

LEMMA OpenStays ==
  ASSUME NEW frames, IsSeq(frames), OpenOnce(frames), NEW others, OpensNone(others, frames)
  PROVE  Open(others) \subseteq Open(frames) /\ OpenOnce(others)
  BY OpensNoneIs DEF SameOpen, Open, OpenOnce

(* The last frame goes, and its namespace is open no more.                 *)
LEMMA OpenCloses ==
  ASSUME NEW frames, IsSeq(frames), OpenOnce(frames), frames # << >>, frames[Len(frames)].call = "namespace"
  PROVE  frames[Len(frames)].env \notin Open(Front(frames))
<1>1. OpensNone(Front(frames), frames)
  BY DEF OpensNone
<1>2. SameOpen(Front(frames), frames)
  BY <1>1, OpensNoneIs
<1>3. Len(Front(frames)) = Len(frames) - 1 /\ Len(frames) \in Nat \ {0}
  BY DropLast, NotEmpty
<1>4. Len(frames) \in Namespaces(frames, Len(frames)) /\ Len(frames) \notin Namespaces(Front(frames), Len(frames) - 1)
  BY <1>3 DEF Namespaces
<1> QED BY <1>2, <1>3, <1>4 DEF SameOpen, Open, OpenOnce

(* The last call turns to the making of a namespace that was not open.     *)
LEMMA OpenMore ==
  ASSUME NEW frames, IsSeq(frames), OpenOnce(frames), frames # << >>, NEW f, NEW others,
         IsChanged(others, frames, f), f.env \notin Open(frames)
  PROVE  Open(others) \subseteq Open(frames) \cup {f.env} /\ OpenOnce(others)
<1> DEFINE n == Len(frames)
<1>1. /\ Len(others) = n /\ n \in Nat \ {0} /\ others[n] = f
      /\ \A i \in 1 .. n - 1 : others[i] = frames[i]
  BY ChangeLast, NotEmpty
<1>2. \A i \in 1 .. n : i = n \/ i \in 1 .. n - 1
  BY <1>1
<1>3. \A i \in Namespaces(others, n) : i # n => i \in Namespaces(frames, n) /\ others[i] = frames[i]
  BY <1>1, <1>2 DEF Namespaces
<1>4. \A i \in Namespaces(others, n) : i # n => others[i].env \in Open(frames)
  BY <1>3 DEF Open
<1>5. Open(others) \subseteq Open(frames) \cup {f.env}
  BY <1>1, <1>4 DEF Open
<1>6. OpenOnce(others)
  BY <1>1, <1>3, <1>4 DEF OpenOnce
<1> QED BY <1>5, <1>6

(***************************************************************************)
(* What is shown when a value is: a value shows no namespaces but those    *)
(* that are values.                                                        *)
(***************************************************************************)
LEMMA ShowsValues ==
  ASSUME NEW V, NEW F, AreValues(V, F), NEW o \in V PROVE Shown(o) \subseteq F
<1> DEFINE Below(s) == UNION {ToSet(p.elems) : p \in s}
           Is(t) == t = [n \in 0 .. MaxDepth |-> IF n = 0 THEN {o} ELSE Below(t[n - 1])]
           layer == CHOOSE t : Is(t)
<1>1. \A s \in SUBSET V : Below(s) \in SUBSET V
  <2>1. ASSUME NEW p \in V PROVE ToSet(p.elems) \subseteq V
    <3>1. p.elems \in Seq(V)
      BY DEF AreValues, IsObject
    <3>2. DOMAIN p.elems = 1 .. Len(p.elems) /\ \A i \in 1 .. Len(p.elems) : p.elems[i] \in V
      BY <3>1, ElementOfSeq, LenProperties
    <3> QED BY <3>2 DEF ToSet
  <2> QED BY <2>1
<1>2. MaxDepth \in Nat
  BY MaxDepthAssumption
<1>3. \E t : Is(t)
  <2> DEFINE X == SUBSET V
             G == [pair \in X \X {0} |-> Below(pair[1])]
             v == [i \in 1 .. MaxDepth |-> 0]
  <2>1. G \in [X \X {0} -> X] /\ \A x \in X : G[<<x, 0>>] = Below(x)
    <3> HIDE DEF Below
    <3> QED BY <1>1
  <2>2. {o} \in X /\ Exchange(G, X, {0}) /\ AreIn(v, MaxDepth, {0})
    BY DEF Exchange, AreIn
  <2>3. \A i \in 1 .. MaxDepth : v[i] = 0
    OBVIOUS
  <2> HIDE DEF G, X, v
  <2>4. PICK t \in [0 .. MaxDepth -> X] : IsFold(G, X, {o}, v, MaxDepth, t)
    BY <1>2, <2>1, <2>2, FoldExists
  <2>5. t[0] = {o} /\ \A i \in 1 .. MaxDepth : t[i] = G[<<t[i - 1], 0>>]
    BY <1>2, <2>3, <2>4 DEF IsFold
  <2> HIDE DEF Below
  <2>6. \A i \in 0 .. MaxDepth : t[i] = IF i = 0 THEN {o} ELSE Below(t[i - 1])
    <3>1. \A i \in 1 .. MaxDepth : t[i - 1] \in X
      BY <1>2, <2>4
    <3>2. \A i \in 1 .. MaxDepth : t[i] = Below(t[i - 1])
      BY <2>1, <2>5, <3>1
    <3> QED BY <1>2, <2>5, <3>2
  <2>7. t = [n \in 0 .. MaxDepth |-> t[n]]
    OBVIOUS
  <2>8. Is(t)
    BY <2>6, <2>7
  <2> QED BY <2>8
<1>4. Is(layer)
  <2> HIDE DEF Is
  <2> QED BY <1>3
<1>5. Nested(o) = UNION {layer[n] : n \in 0 .. MaxDepth}
  BY Zenon DEF Nested
<1> HIDE DEF layer
<1>6. layer[0] = {o} /\ \A n \in 1 .. MaxDepth : layer[n] = Below(layer[n - 1])
  <2> HIDE DEF Below
  <2>1. \A n \in 0 .. MaxDepth : layer[n] = IF n = 0 THEN {o} ELSE Below(layer[n - 1])
    BY <1>4, Zenon
  <2>2. 0 \in 0 .. MaxDepth /\ \A n \in 1 .. MaxDepth : n # 0 /\ n \in 0 .. MaxDepth
    BY <1>2
  <2> QED BY <2>1, <2>2
<1> HIDE DEF Below
<1> DEFINE S == {n \in Nat : n <= MaxDepth => layer[n] \in SUBSET V}
<1>7. S \in SUBSET Nat /\ 0 \in S /\ \A n \in S : n + 1 \in S
  BY <1>1, <1>2, <1>6
<1>8. \A n \in 0 .. MaxDepth : layer[n] \subseteq V
  <2>1. \A n \in Nat : n \in S
    <3> HIDE DEF S
    <3> QED BY <1>7, Induction
  <2> QED BY <1>2, <2>1
<1>9. Nested(o) \subseteq V
  BY <1>5, <1>8
<1> QED BY <1>9 DEF Shown, AreValues, IsObject

(***************************************************************************)
(* Finished namespaces: they are not open, so that they do not change, and *)
(* none is shown inside itself.                                            *)
(***************************************************************************)
ShownBy(es, e) == UNION {Shown(es[e].values[name]) : name \in DOMAIN es[e].values}
EndsIn(es, F) == \A S \in (SUBSET F) \ {{}} : \E e \in S : ShownBy(es, e) \cap S = {}

Finished(F) ==
  /\ F \subseteq DOMAIN envs /\ Global \notin F
  /\ Open(stack) \cap F = {} /\ OpenOnce(stack)
  /\ EndsIn(envs, F)

LEMMA BindingsShowFinished ==
  ASSUME NEW V, NEW F, AreValues(V, F), NEW es, EnvsHold(es, V), NEW e \in DOMAIN es
  PROVE  ShownBy(es, e) \subseteq F
  BY ShowsValues DEF ShownBy, EnvsHold

(* They go on like that as long as they are not bound to.                  *)
LEMMA EndsStays ==
  ASSUME NEW es, NEW F, EndsIn(es, F), NEW fs, \A e \in F : fs[e].values = es[e].values
  PROVE  EndsIn(fs, F)
<1>1. \A e \in F : ShownBy(fs, e) = ShownBy(es, e)
  BY DEF ShownBy
<1> QED BY <1>1 DEF EndsIn

(* One more, which shows others and is not shown by any of them.           *)
LEMMA EndsWithMore ==
  ASSUME NEW es, NEW F, EndsIn(es, F), NEW e, e \notin F, \A d \in F \cup {e} : ShownBy(es, d) \subseteq F
  PROVE  EndsIn(es, F \cup {e})
<1> SUFFICES ASSUME NEW S \in (SUBSET (F \cup {e})) \ {{}}
             PROVE  \E d \in S : ShownBy(es, d) \cap S = {}
  BY DEF EndsIn
<1> DEFINE T == S \ {e}
<1>1. CASE T = {}
  <2>1. S = {e}
    BY <1>1
  <2> QED BY <2>1
<1>2. CASE T # {}
  <2>1. PICK d \in T : ShownBy(es, d) \cap T = {}
    BY <1>2 DEF EndsIn
  <2>2. ShownBy(es, d) \subseteq F
    OBVIOUS
  <2> QED BY <2>1, <2>2
<1> QED BY <1>1, <1>2

(***************************************************************************)
(* ValuesHold: what is evaluated are nodes, and what is bound, returned or *)
(* collected are values, finished namespaces among them.  The calls that   *)
(* wait have the arguments they still need, what > has collected is of one *)
(* kind, and what + and * have are numbers.                                *)
(***************************************************************************)
AreNumbers(objs) == \A i \in 1 .. Len(objs) : objs[i].kind \in {"integer", "float64"}

IsFrame(f, V) ==
  /\ f.args \in Seq(Nodes) /\ f.objs \in Seq(V)
  /\ f.call = "if" => Len(f.args) \in {1, 2}
  /\ f.call \in {"assign", "namespace"} => Len(f.args) >= 2
  /\ f.call \in {"assign", "namespace"} => Len(f.args) % 2 = 0
  /\ f.call = "index" => f.objs # << >>
  /\ f.call = ">" => \A i \in 1 .. Len(f.objs) : f.objs[i].kind = f.objs[1].kind
  /\ f.call \in {"+", "*"} => AreNumbers(f.objs)

ValuesIn(V, F) ==
  /\ AreValues(V, F) /\ Finished(F) /\ EnvsHold(envs, V)
  /\ obj \in V
  /\ \A k \in DOMAIN stack : IsFrame(stack[k], V)
  /\ mode = "eval" => node \in Nodes
  /\ rest \in Seq(Nodes)

ValuesHold == \E V, F : ValuesIn(V, F)

LEMMA MoreValues ==
  ASSUME NEW V, NEW W, V \subseteq W, NEW f, IsFrame(f, V) PROVE IsFrame(f, W)
  BY SeqMonotonic DEF IsFrame

LEMMA ValuesStep ==
  ASSUME NEW V, NEW F, ValuesIn(V, F), IsSeq(stack), NEW G, F \subseteq G, Finished(G)',
         EnvsHold(envs', V), IsObject(obj', V, G),
         \/ stack' = stack
         \/ stack # << >> /\ stack' = Front(stack)
         \/ \E f : /\ IsFrame(f, V)
                   /\ \/ stack' = Append(stack, f)
                      \/ stack # << >> /\ IsChanged(stack', stack, f),
         mode' = "eval" => node' \in Nodes,
         rest' \in Seq(Nodes)
  PROVE  ValuesHold'
<1>1. PICK W : W = V \cup {obj'}
  OBVIOUS
<1>2. AreValues(W, G) /\ obj' \in W /\ V \subseteq W
  BY <1>1, AddValue DEF ValuesIn
<1>3. EnvsHold(envs', W)
  BY <1>2 DEF EnvsHold
<1>4. ASSUME NEW k \in DOMAIN stack' PROVE IsFrame(stack'[k], V)
  <2>0. DOMAIN stack = 1 .. Len(stack) /\ Len(stack) \in Nat /\ \A i \in 1 .. Len(stack) : IsFrame(stack[i], V)
    BY SeqDomain DEF ValuesIn
  <2>1. CASE stack' = stack
    BY <1>4, <2>0, <2>1
  <2>2. CASE stack # << >> /\ stack' = Front(stack)
    <3>1. k \in 1 .. Len(stack) - 1 /\ stack'[k] = stack[k]
      BY <1>4, <2>2, DropLast
    <3> QED BY <2>0, <3>1
  <2>3. ASSUME NEW f, IsFrame(f, V), stack' = Append(stack, f) PROVE IsFrame(stack'[k], V)
    <3>1. k \in 1 .. Len(stack) + 1 /\ stack'[Len(stack) + 1] = f /\ \A i \in 1 .. Len(stack) : stack'[i] = stack[i]
      BY <1>4, <2>3, AddLast
    <3>2. k = Len(stack) + 1 \/ k \in 1 .. Len(stack)
      BY <2>0, <3>1
    <3> QED BY <2>0, <2>3, <3>1, <3>2
  <2>4. ASSUME NEW f, IsFrame(f, V), stack # << >>, IsChanged(stack', stack, f) PROVE IsFrame(stack'[k], V)
    <3> DEFINE new == stack'
    <3>1. IsChanged(new, stack, f) /\ k \in DOMAIN new
      BY <1>4, <2>4
    <3> HIDE DEF new
    <3>2. k \in 1 .. Len(stack) /\ new[Len(stack)] = f /\ \A i \in 1 .. Len(stack) - 1 : new[i] = stack[i]
      BY <2>4, <3>1, ChangeLast
    <3>3. k = Len(stack) \/ (k \in 1 .. Len(stack) - 1 /\ k \in 1 .. Len(stack))
      BY <2>0, <3>2
    <3>4. IsFrame(new[k], V)
      BY <2>0, <2>4, <3>2, <3>3
    <3> QED BY <3>4 DEF new
  <2> QED BY <2>1, <2>2, <2>3, <2>4
<1>5. \A k \in DOMAIN stack' : IsFrame(stack'[k], W)
  BY <1>2, <1>4, MoreValues
<1>6. ValuesIn(W, G)'
  BY <1>2, <1>3, <1>5 DEF ValuesIn
<1> QED BY <1>6 DEF ValuesHold

(* Objects are values.                                                     *)
LEMMA ObjectsAre ==
  ASSUME NEW V, NEW F
  PROVE  /\ \A kind, num : (/\ kind \notin {"namespace", "builtin", "ast"} /\ num \in Int
                             /\ (kind = "integer" => num \in Int64)
                             /\ (kind = "float64" => num \in Floats))
                            => IsObject(Primitive(kind, num), V, F)
         /\ \A b : IsObject(Boolean(b), V, F)
         /\ IsObject(Error, V, F) /\ IsObject(Null, V, F) /\ IsObject(Nil, V, F)
         /\ \A o \in Builtins : IsObject(o, V, F)
         /\ \A type : IsObject(TypeObject(type), V, F)
         /\ \A elems \in Seq(V) : IsObject(Array(elems), V, F)
         /\ \A e \in F : e \in Int => IsObject(Namespace(e), V, F)
<1>1. << >> \in Seq(V)
  BY EmptySeq
<1>2. \A kind, num, name, elems :
        /\ Obj(kind, num, name, elems).kind = kind /\ Obj(kind, num, name, elems).num = num
        /\ Obj(kind, num, name, elems).elems = elems
  BY DEF Obj
<1>3. ASSUME NEW kind, NEW num, NEW name, NEW elems,
             num \in Int, elems \in Seq(V), kind # "ast", kind = "namespace" => num \in F,
             kind = "integer" => num \in Int64, kind = "float64" => num \in Floats,
             kind = "builtin" => Obj(kind, num, name, elems) \in Builtins
      PROVE  IsObject(Obj(kind, num, name, elems), V, F)
  BY <1>2, <1>3 DEF IsObject
<1>4. 0 \in Int
  OBVIOUS
<1>5. ASSUME NEW kind, NEW num, kind \notin {"namespace", "builtin", "ast"}, num \in Int,
             kind = "integer" => num \in Int64, kind = "float64" => num \in Floats
      PROVE  IsObject(Primitive(kind, num), V, F)
  <2>1. kind # "namespace" /\ kind # "builtin" /\ kind # "ast"
    BY <1>5
  <2> QED BY <1>1, <1>3, <1>5, <2>1 DEF Primitive
<1>6. \A b : IsObject(Boolean(b), V, F)
  BY <1>5 DEF Boolean
<1>7. IsObject(Error, V, F) /\ IsObject(Null, V, F) /\ IsObject(Nil, V, F)
  <2>1. \A kind \in {"error", "null", "nil"} :
          kind \notin {"namespace", "builtin", "ast", "integer", "float64"}
    OBVIOUS
  <2>2. \A kind \in {"error", "null", "nil"} : IsObject(Obj(kind, 0, "", << >>), V, F)
    BY <1>4, <1>1, <1>3, <2>1, Zenon
  <2> QED BY <2>2 DEF Error, Null, Nil
<1>8. \A o \in Builtins : IsObject(o, V, F)
  <2>1. "builtin" \notin {"namespace", "ast", "integer", "float64"}
    OBVIOUS
  <2> QED BY <1>4, <1>1, <1>3, <2>1, Zenon DEF Builtin, Builtins
<1>11. \A type : IsObject(TypeObject(type), V, F)
  <2>1. "type" \notin {"namespace", "builtin", "ast", "integer", "float64"}
    OBVIOUS
  <2> QED BY <1>4, <1>1, <1>3, <2>1, Zenon DEF TypeObject
<1>9. \A elems \in Seq(V) : IsObject(Array(elems), V, F)
  <2>1. "array" \notin {"namespace", "builtin", "ast", "integer", "float64"}
    OBVIOUS
  <2> QED BY <1>4, <1>3, <2>1, Zenon DEF Array
<1>10. \A e \in F : e \in Int => IsObject(Namespace(e), V, F)
  <2>1. "namespace" \notin {"builtin", "ast", "integer", "float64"}
    OBVIOUS
  <2> QED BY <1>1, <1>3, <2>1, Zenon DEF Namespace
<1> QED BY <1>5, <1>6, <1>7, <1>8, <1>9, <1>10, <1>11

LEMMA ValuesInit == Init => ValuesHold
<1> SUFFICES ASSUME Init PROVE ValuesHold
  OBVIOUS
<1> DEFINE V == {Null, Error, Nil} \cup Builtins
<1>1. AreValues(V, {})
  <2>1. ASSUME NEW o \in V PROVE IsObject(o, V, {})
    <3>1. o \in {Null, Error, Nil} \/ o \in Builtins
      OBVIOUS
    <3> HIDE DEF V
    <3> QED BY <3>1, ObjectsAre
  <2>2. {Null, Error, Nil} \subseteq V
    OBVIOUS
  <2> HIDE DEF V
  <2> QED BY <2>1, <2>2 DEF AreValues
<1>2. DOMAIN envs = {1} /\ envs[1] = DefaultEnv
  BY DEF Init
<1>3. DefaultEnv.parent = 0 /\ \A name \in DOMAIN DefaultEnv.values : DefaultEnv.values[name] \in V
  BY DEF DefaultEnv, Builtins
<1>4. Nil \in V
  OBVIOUS
<1> HIDE DEF V
<1>5. EnvsHold(envs, V)
  BY <1>2, <1>3 DEF EnvsHold
<1>6. DOMAIN stack = {} /\ rest \in Seq(Nodes) /\ mode # "eval" /\ obj = Nil
  BY EmptySeq DEF Init
<1>7. Finished({})
  <2>1. stack = << >> /\ Len(stack) = 0
    BY EmptySeq DEF Init
  <2> QED BY <2>1 DEF Finished, Open, OpenOnce, Namespaces, EndsIn
<1> QED BY <1>1, <1>4, <1>5, <1>6, <1>7 DEF ValuesHold, ValuesIn

LEMMA OperandsFit ==
  ASSUME NEW V, NEW F, AreValues(V, F), NEW objs \in Seq(V), AreNumbers(objs)
  PROVE  HasFloats(objs) \in BOOLEAN /\ AreOperands(HasFloats(objs), objs)
<1>1. Len(objs) \in Nat /\ DOMAIN objs = 1 .. Len(objs) /\ \A i \in 1 .. Len(objs) : objs[i] \in V
  BY LenProperties, ElementOfSeq
<1>2. ASSUME NEW i \in 1 .. Len(objs)
      PROVE  /\ objs[i].kind = "integer" => objs[i].num \in Int64
             /\ objs[i].kind = "float64" => objs[i].num \in Floats
             /\ objs[i].kind \in {"integer", "float64"}
  BY <1>1 DEF AreValues, IsObject, AreNumbers
<1>5. PICK h \in BOOLEAN : h = HasFloats(objs)
  BY DEF HasFloats
<1>3. ASSUME h = TRUE PROVE AreOperands(h, objs)
  <2>1. ASSUME NEW i \in 1 .. Len(objs) PROVE Operand(TRUE, objs[i]) \in Floats
    BY <1>2, FloatsAssumption DEF Operand
  <2> QED BY <1>1, <1>3, <2>1 DEF AreOperands, NumberSet
<1>4. ASSUME h = FALSE PROVE AreOperands(h, objs)
  <2>1. ASSUME NEW i \in 1 .. Len(objs) PROVE Operand(FALSE, objs[i]) \in Int64
    BY <1>1, <1>2, <1>4, <1>5 DEF Operand, HasFloats
  <2> QED BY <1>1, <1>4, <2>1 DEF AreOperands, NumberSet
<1>6. AreOperands(h, objs)
  BY <1>3, <1>4
<1> QED BY <1>5, <1>6

LEMMA ResultIsValue ==
  ASSUME NEW V, NEW F, AreValues(V, F), NEW objs \in Seq(V), NEW call,
         call \in {"+", "*"} => AreNumbers(objs)
  PROVE  IsObject(Result(call, objs), V, F)
<1>1. ASSUME NEW op, AreNumbers(objs) PROVE IsObject(Total(op, HasFloats(objs), objs), V, F)
  <2> DEFINE h == HasFloats(objs)
             o == Total(op, h, objs)
  <2>1. h \in BOOLEAN /\ AreOperands(h, objs)
    BY <1>1, OperandsFit
  <2>2. o.num \in NumberSet(h) /\ o.elems = << >> /\ o.kind = IF h THEN "float64" ELSE "integer"
    BY <2>1, TotalIs
  <2>3. NumberSet(h) \subseteq Int /\ NumberSet(TRUE) = Floats /\ NumberSet(FALSE) = Int64
    BY Half, FloatsAssumption DEF NumberSet
  <2>4. << >> \in Seq(V)
    BY EmptySeq
  <2> HIDE DEF h, o
  <2>5. IsObject(o, V, F)
    BY <2>1, <2>2, <2>3, <2>4 DEF IsObject
  <2> QED BY <2>5 DEF o, h
<1>2. AreNumbers(objs) => IsObject(sum(objs), V, F) /\ IsObject(multiply(objs), V, F)
  BY <1>1 DEF sum, multiply
<1>3. IsObject(isDecreasing(objs), V, F) /\ IsObject(Array(objs), V, F)
  BY ObjectsAre DEF isDecreasing
<1> QED BY <1>2, <1>3 DEF Result

LEMMA AssignHolds ==
  ASSUME NEW V, EnvsHold(envs, V), EnvsAre, NEW e \in DOMAIN envs, NEW name, NEW o \in V,
         envs' = Assign(e, name, o)
  PROVE  EnvsHold(envs', V) /\ DOMAIN envs' = DOMAIN envs
<1>1. /\ EnvsGrow(envs, envs')
      /\ \A i \in DOMAIN envs : i # e => envs'[i] = envs[i]
      /\ DOMAIN envs'[e].values = DOMAIN envs[e].values \cup {name}
      /\ envs'[e].values[name] = o
      /\ \A n \in DOMAIN envs[e].values : n # name => envs'[e].values[n] = envs[e].values[n]
  BY AssignKeeps
<1>2. DOMAIN envs' = DOMAIN envs
  BY DEF Assign
<1>3. ASSUME NEW i \in DOMAIN envs
      PROVE  /\ envs'[i].parent \in 0 .. i - 1
             /\ \A n \in DOMAIN envs'[i].values : envs'[i].values[n] \in V
  <2>1. envs'[i].parent = envs[i].parent
    BY <1>1 DEF EnvsGrow
  <2>2. envs[i].parent \in 0 .. i - 1 /\ \A n \in DOMAIN envs[i].values : envs[i].values[n] \in V
    BY DEF EnvsHold
  <2>3. \A n \in DOMAIN envs'[i].values : envs'[i].values[n] \in V
    BY <1>1, <2>2
  <2> QED BY <2>1, <2>2, <2>3
<1> QED BY <1>2, <1>3 DEF EnvsHold

LEMMA NamespaceHolds ==
  ASSUME NEW V, EnvsHold(envs, V), EnvsAre, NEW e \in DOMAIN envs, envs' = Append(envs, Child(e))
  PROVE  EnvsHold(envs', V) /\ DOMAIN envs \subseteq DOMAIN envs' /\ Len(envs) + 1 \in DOMAIN envs'
<1> DEFINE n == Len(envs)
           new == Child(e)
<1>1. /\ IsSeq(envs) /\ n \in Nat /\ DOMAIN envs = 1 .. n /\ DOMAIN envs' = 1 .. n + 1
      /\ envs'[n + 1] = new /\ \A i \in 1 .. n : envs'[i] = envs[i]
  BY AddLast, SeqDomain DEF EnvsAre
<1>2. new.parent = e /\ new.values = << >>
  BY DEF Child
<1>3. DOMAIN (<< >>) = {}
  OBVIOUS
<1> HIDE DEF n, new
<1>4. ASSUME NEW i \in 1 .. n + 1
      PROVE  /\ envs'[i].parent \in 0 .. i - 1
             /\ \A name \in DOMAIN envs'[i].values : envs'[i].values[name] \in V
  <2>1. CASE i = n + 1
    BY <1>1, <1>2, <1>3, <2>1
  <2>2. CASE i \in 1 .. n
    BY <1>1, <2>2 DEF EnvsHold
  <2> QED BY <1>1, <2>1, <2>2
<1>5. EnvsHold(envs', V)
  BY <1>1, <1>4 DEF EnvsHold
<1>6. n + 1 \in 1 .. n + 1 /\ 1 .. n \subseteq 1 .. n + 1
  BY <1>1
<1> QED BY <1>1, <1>5, <1>6 DEF n

LEMMA FrameIs ==
  ASSUME NEW V, NEW call, NEW e, NEW args \in Seq(Nodes), NEW objs \in Seq(V),
         call = "if" => Len(args) \in {1, 2},
         call \in {"assign", "namespace"} => Len(args) >= 2,
         call \in {"assign", "namespace"} => Len(args) % 2 = 0,
         call = "index" => objs # << >>,
         call = ">" => \A i \in 1 .. Len(objs) : objs[i].kind = objs[1].kind,
         call \in {"+", "*"} => AreNumbers(objs)
  PROVE  IsFrame(Frame(call, e, args, objs), V)
<1> DEFINE f == Frame(call, e, args, objs)
<1>1. f.call = call /\ f.args = args /\ f.objs = objs
  BY DEF Frame
<1> HIDE DEF f
<1> QED BY <1>1 DEF IsFrame, f

LEMMA EmptyFrameIs ==
  ASSUME NEW V, NEW call, NEW e, NEW args \in Seq(Nodes), call \in {"if", "+", "*", "apply", "array", ">"},
         call = "if" => Len(args) \in {1, 2}
  PROVE  IsFrame(Frame(call, e, args, << >>), V)
<1>1. PICK objs \in Seq(V) : objs = << >> /\ Len(objs) = 0
  BY EmptySeq
<1>2. (\A i \in 1 .. Len(objs) : objs[i].kind = objs[1].kind) /\ AreNumbers(objs)
  BY <1>1 DEF AreNumbers
<1>3. IsFrame(Frame(call, e, args, objs), V)
  BY <1>2, FrameIs
<1> QED BY <1>1, <1>3

LEMMA MoreNumbers ==
  ASSUME NEW V, NEW objs \in Seq(V), NEW o, AreNumbers(objs), o.kind \in {"integer", "float64"}
  PROVE  AreNumbers(Append(objs, o))
<1> DEFINE all == Append(objs, o)
<1>1. Len(objs) \in Nat /\ Len(all) = Len(objs) + 1 /\ all[Len(objs) + 1] = o
      /\ \A i \in 1 .. Len(objs) : all[i] = objs[i]
  BY AppendProperties, LenProperties
<1> HIDE DEF all
<1>2. \A i \in 1 .. Len(all) : i \in 1 .. Len(objs) \/ i = Len(objs) + 1
  BY <1>1
<1>3. AreNumbers(all)
  BY <1>1, <1>2 DEF AreNumbers
<1> QED BY <1>3 DEF all

LEMMA OneKind ==
  ASSUME NEW V, NEW objs \in Seq(V), NEW o, \A i \in 1 .. Len(objs) : objs[i].kind = objs[1].kind,
         objs # << >> => objs[Len(objs)].kind = o.kind
  PROVE  \A i \in 1 .. Len(Append(objs, o)) : Append(objs, o)[i].kind = Append(objs, o)[1].kind
<1> DEFINE all == Append(objs, o)
           n == Len(objs)
<1>1. IsSeq(objs)
  BY DEF IsSeq
<1>2. n \in Nat /\ (objs = << >> <=> n = 0) /\ Len(all) = n + 1 /\ all[n + 1] = o
      /\ \A i \in 1 .. n : all[i] = objs[i]
  BY <1>1, SeqAppend, SeqDomain
<1> HIDE DEF all, n
<1>3. n # 0 => all[1] = objs[1] /\ objs[n].kind = o.kind /\ objs[n].kind = objs[1].kind
  BY <1>2 DEF n
<1>4. ASSUME NEW i \in 1 .. n + 1 PROVE all[i].kind = all[1].kind
  <2>1. CASE i = n + 1
    BY <1>2, <1>3, <2>1
  <2>2. CASE i \in 1 .. n
    BY <1>2, <1>3, <2>2 DEF n
  <2> QED BY <1>2, <2>1, <2>2
<1> QED BY <1>2, <1>4 DEF all

(* Where the last frame is, is open or Global; where a namespace is made,  *)
(* is not Global.                                                          *)
LEMMA TopIsOpen ==
  ASSUME NestedScopes, stack # << >>
  PROVE  /\ Top.env = Global \/ Top.env \in Open(stack)
         /\ Open(stack) \subseteq DOMAIN envs
<1>1. Top.env = ScopeIn(stack, Len(stack))
  BY TopIsInnermost DEF Scope, ScopeIn, Namespaces
<1>2. Len(stack) \in Nat /\ DOMAIN stack = 1 .. Len(stack)
  BY SeqDomain DEF NestedScopes
<1>3. IsScope(stack, Len(stack), Top.env)
  BY <1>1, <1>2, ScopeIs
<1>4. Open(stack) \subseteq DOMAIN envs
  BY <1>2 DEF NestedScopes, FramesNest, Open, Namespaces
<1> QED BY <1>3, <1>4 DEF IsScope, Open

LEMMA GlobalIsNotMade ==
  ASSUME NestedScopes, NEW V, EnvsHold(envs, V), NEW i \in Namespaces(stack, Len(stack))
  PROVE  stack[i].env # Global /\ stack[i].env \in DOMAIN envs /\ stack[i].env \in Int
<1>1. i \in DOMAIN stack /\ i - 1 \in 0 .. Len(stack) /\ stack[i].call = "namespace"
  BY SeqDomain DEF NestedScopes, Namespaces
<1>2. stack[i].env \in DOMAIN envs /\ envs[stack[i].env].parent = ScopeIn(stack, i - 1)
  BY <1>1 DEF NestedScopes, FramesNest
<1>3. ScopeIn(stack, i - 1) \in DOMAIN envs
  BY <1>1, ScopeExists DEF NestedScopes, EnvsAre
<1>4. stack[i].env \in Int /\ envs[stack[i].env].parent \in 0 .. stack[i].env - 1 /\ envs[stack[i].env].parent >= 1
  BY <1>2, <1>3, SeqDomain DEF NestedScopes, EnvsAre, EnvsHold
<1>5. stack[i].env # Global
  BY <1>4 DEF Global
<1> QED BY <1>2, <1>4, <1>5

LEMMA MadeIsOpen ==
  ASSUME NestedScopes, stack # << >>, Top.call = "namespace", NEW V, EnvsHold(envs, V)
  PROVE  Top.env \in Open(stack) /\ Top.env # Global /\ Top.env \in DOMAIN envs /\ Top.env \in Int
<1>1. Len(stack) \in Namespaces(stack, Len(stack))
  BY NotEmpty DEF NestedScopes, Namespaces, Top
<1> QED BY <1>1, GlobalIsNotMade DEF Open, Top

LEMMA SameFinished ==
  ASSUME NEW F, Finished(F), UNCHANGED <<envs, stack>> PROVE Finished(F)'
  BY DEF Finished

LEMMA ValuesNext == NestedScopes /\ ValuesHold /\ [Next]_vars => ValuesHold'
<1> SUFFICES ASSUME NestedScopes, ValuesHold, [Next]_vars PROVE ValuesHold'
  OBVIOUS
<1>1. PICK V, F : ValuesIn(V, F)
  BY DEF ValuesHold
<1> USE DEF Call, Return, Push, Pop, Replace
<1>2. IsSeq(stack) /\ EnvsAre
  BY DEF NestedScopes
<1>3. \A call, e, args, objs : /\ Frame(call, e, args, objs).call = call /\ Frame(call, e, args, objs).env = e
                               /\ Frame(call, e, args, objs).args = args /\ Frame(call, e, args, objs).objs = objs
  BY DEF Frame
<1>4. EnvsHold(envs, V) /\ obj \in V /\ IsObject(obj, V, F) /\ rest \in Seq(Nodes)
      /\ (mode = "eval" => node \in Nodes)
      /\ AreValues(V, F) /\ Null \in V /\ Error \in V /\ Finished(F)
  BY <1>1 DEF ValuesIn, AreValues
<1>5. IsSeq(envs)
  BY <1>2 DEF EnvsAre
<1>6. mode = "eval" => env \in DOMAIN envs
  BY <1>2, ScopeExists, SeqDomain DEF NestedScopes, EnvsAre
<1>7. stack # << >> => Top.env \in DOMAIN envs /\ IsFrame(Top, V)
  BY <1>1, <1>2, TopIsInnermost, NotEmpty DEF ValuesIn, Top
<1>8. \A e \in DOMAIN envs : \A name : LookUp(e, name) \in V /\ IsObject(LookUp(e, name), V, F)
  BY <1>4, <1>5, LookUpIsValue DEF AreValues
<1>9. \A n \in Nodes : n.kids \in Seq(Nodes) /\ n.num \in Int /\ n.t \in NodeTypes
                       /\ (n.t = "If" => Len(n.kids) \in {2, 3}) /\ (n.t = "SpecialOp" => Len(n.kids) >= 1)
  BY NodesAssumption
<1>10. \A s \in Seq(Nodes) : s # << >> => Head(s) \in Nodes /\ s[1] \in Nodes /\ Tail(s) \in Seq(Nodes)
                                          /\ Len(Tail(s)) = Len(s) - 1 /\ Len(s) \in Nat
  BY HeadTailProperties, LenProperties, ElementOfSeq, EmptySeq
<1>11. \A s \in Seq(Nodes) : (s = << >> <=> Len(s) = 0) /\ Len(s) \in Nat
  BY SeqDomain DEF IsSeq
<1>12. << >> \in Seq(V) /\ Len(<< >>) = 0
  BY EmptySeq
(* A step that leaves the environments.                                    *)
<1>13. ASSUME UNCHANGED <<envs, rest>>, IsObject(obj', V, F),
              \/ stack' = stack
              \/ stack # << >> /\ stack' = Front(stack)
              \/ \E f : /\ IsFrame(f, V) /\ f.call # "namespace"
                        /\ \/ stack' = Append(stack, f)
                           \/ stack # << >> /\ IsChanged(stack', stack, f),
              mode' = "eval" => node' \in Nodes
       PROVE  ValuesHold'
  <2>1. OpensNone(stack', stack)
    BY <1>13 DEF OpensNone
  <2>2. Finished(F)'
    BY <1>2, <1>4, <1>13, <2>1, OpenStays DEF Finished
  <2> QED BY <1>1, <1>2, <1>4, <1>13, <2>2, ValuesStep
<1>14. CASE UNCHANGED vars
  BY <1>4, <1>13, <1>14 DEF vars
<1>15. ASSUME NEW p \in Packages, EvalPackage(p) PROVE ValuesHold'
  <2>1. rest' \in Seq(Nodes) /\ UNCHANGED <<envs, stack>> /\ mode' # "eval" /\ IsObject(obj', V, F)
    BY <1>15, PackagesAssumption, ObjectsAre DEF EvalPackage
  <2> QED BY <1>1, <1>2, <1>4, <2>1, SameFinished, ValuesStep
<1>16. CASE NextNode
  <2>1. rest' \in Seq(Nodes) /\ node' \in Nodes /\ UNCHANGED <<envs, stack, obj>>
    BY <1>4, <1>10, <1>16 DEF NextNode
  <2> QED BY <1>1, <1>2, <1>4, <2>1, SameFinished, ValuesStep
<1>17. CASE PackageEnds \/ NodeEnds
  <2>1. UNCHANGED <<envs, rest, stack, obj>> /\ mode' # "eval"
    BY <1>17 DEF PackageEnds, NodeEnds
  <2> QED BY <1>4, <1>13, <2>1
<1>18. CASE EvalLiteral
  <2>1. PICK type \in Literals : Evaluates(type) /\ Return(Primitive(type, node.num)) /\ UNCHANGED stack
    BY <1>18 DEF EvalLiteral
  <2>2. /\ type \notin {"namespace", "builtin", "ast"} /\ node.num \in Int /\ obj' = Primitive(type, node.num)
        /\ (type = "integer" => node.num \in Int64) /\ (type = "float64" => node.num \in Floats)
    BY <1>4, <1>9, <2>1, LiteralsAssumption DEF Literals, Evaluates
  <2>3. IsObject(obj', V, F)
    BY <2>2, ObjectsAre
  <2> QED BY <1>13, <2>1, <2>3 DEF Evaluates
<1>19. CASE EvalSymbol
  <2>1. mode = "eval" /\ obj' = LookUp(env, node.name) /\ UNCHANGED <<stack, envs, rest>> /\ mode' = "return"
    BY <1>19 DEF EvalSymbol, Evaluates
  <2> QED BY <1>6, <1>8, <1>13, <2>1
<1>20. CASE EvalOther
  <2>1. obj' = Error /\ UNCHANGED <<stack, envs, rest>> /\ mode' = "return"
    BY <1>20 DEF EvalOther, Evaluates
  <2> QED BY <1>13, <2>1, ObjectsAre
<1>21. CASE EvalPanics
  <2>1. UNCHANGED <<stack, envs, rest, obj>> /\ mode' = "panicked"
    BY <1>21 DEF EvalPanics, Evaluates
  <2> QED BY <1>4, <1>13, <2>1
<1>22. ASSUME NEW call, call \in {"if", "+", "*", "apply"}, mode = "eval", node.kids # << >>,
              call = "if" => Len(node.kids) \in {2, 3},
              stack' = Append(stack, Frame(call, env, Tail(node.kids), << >>)), node' = Head(node.kids),
              UNCHANGED <<envs, rest, obj>>
       PROVE  ValuesHold'
  <2>1. /\ Tail(node.kids) \in Seq(Nodes) /\ Head(node.kids) \in Nodes /\ Len(Tail(node.kids)) = Len(node.kids) - 1
        /\ Len(node.kids) \in Nat
    BY <1>4, <1>9, <1>10, <1>22
  <2>2. IsFrame(Frame(call, env, Tail(node.kids), << >>), V)
    <3>1. call = "if" => Len(Tail(node.kids)) \in {1, 2}
      BY <1>22, <2>1
    <3> DEFINE args == Tail(node.kids)
    <3> HIDE DEF args
    <3>2. args \in Seq(Nodes) /\ call \in {"if", "+", "*", "apply", "array", ">"}
          /\ (call = "if" => Len(args) \in {1, 2})
      BY <1>22, <2>1, <3>1 DEF args
    <3>3. IsFrame(Frame(call, env, args, << >>), V)
      BY <3>2, EmptyFrameIs
    <3> QED BY <3>3 DEF args
  <2>3. Frame(call, env, Tail(node.kids), << >>).call # "namespace"
    BY <1>3, <1>22
  <2> QED BY <1>4, <1>13, <1>22, <2>1, <2>2, <2>3
<1>23. CASE evalIf \/ evalSpecialOp \/ EvalSExp
  <2>1. mode = "eval" /\ UNCHANGED <<envs, rest>> /\ node \in Nodes
    BY <1>4, <1>23 DEF evalIf, evalSpecialOp, EvalSExp, Evaluates
  <2>2. CASE evalSpecialOp /\ mode' = "return"
    <3>1. obj' = Error /\ UNCHANGED stack
      BY <2>2 DEF evalSpecialOp
    <3> QED BY <1>13, <2>1, <2>2, <3>1, ObjectsAre
  <2>3. CASE ~(evalSpecialOp /\ mode' = "return")
    <3>2. node.t \in {"If", "SpecialOp"} => node.kids # << >>
      <4>1. node.t \in {"If", "SpecialOp"} => Len(node.kids) # 0 /\ node.kids \in Seq(Nodes)
        <5>1. node.kids \in Seq(Nodes) /\ (node.t = "If" => Len(node.kids) \in {2, 3})
              /\ (node.t = "SpecialOp" => Len(node.kids) >= 1)
          BY <1>9, <2>1
        <5>2. Len(node.kids) \in Nat
          BY <1>11, <5>1
        <5> DEFINE l == Len(node.kids)
        <5> HIDE DEF l
        <5>3. l \in Nat /\ (node.t = "If" => l \in {2, 3}) /\ (node.t = "SpecialOp" => l >= 1)
          BY <5>1, <5>2 DEF l
        <5>4. node.t \in {"If", "SpecialOp"} => l # 0
          BY <5>3
        <5> QED BY <5>1, <5>4 DEF l
      <4> QED BY <1>11, <4>1
    <3>3. \E call \in {"if", "+", "*", "apply"} :
            /\ node.kids # << >> /\ (call = "if" => Len(node.kids) \in {2, 3})
            /\ stack' = Append(stack, Frame(call, env, Tail(node.kids), << >>)) /\ node' = Head(node.kids)
            /\ UNCHANGED obj
      BY <1>9, <1>23, <2>1, <2>3, <3>2 DEF evalIf, evalSpecialOp, EvalSExp, Evaluates
    <3> QED BY <1>22, <2>1, <3>3
  <2> QED BY <1>23, <2>2, <2>3
(* A call that waits is replaced by what it waits for next, or returns.    *)
<1>24. ASSUME stack # << >>, stack' = Front(stack), mode' = "return", IsObject(obj', V, F),
              UNCHANGED <<envs, rest>>
       PROVE  ValuesHold'
  BY <1>13, <1>24
<1>25. ASSUME NEW call, NEW args \in Seq(Nodes), stack # << >>, call \in {"apply", "array", ">"},
              stack' = [stack EXCEPT ![Len(stack)] = Frame(call, Top.env, args, << >>)],
              node' \in Nodes, UNCHANGED <<envs, rest, obj>>
       PROVE  ValuesHold'
  <2>1. IsFrame(Frame(call, Top.env, args, << >>), V)
    BY <1>25, EmptyFrameIs
  <2>2. Frame(call, Top.env, args, << >>).call # "namespace"
    BY <1>3, <1>25
  <2> QED BY <1>4, <1>13, <1>25, <2>1, <2>2 DEF IsChanged
<1>26. ASSUME stack # << >> PROVE Args \in Seq(Nodes)
  BY <1>7, <1>26 DEF IsFrame, Args
<1>27. CASE builtinTypeOf \/ ApplyOther
  <2>1. stack # << >> /\ stack' = Front(stack) /\ mode' = "return" /\ UNCHANGED <<envs, rest>>
        /\ (obj' = Error \/ \E type : obj' = TypeObject(type))
    BY <1>27 DEF builtinTypeOf, ApplyOther, CallsBuiltin, Applies
  <2> QED BY <1>24, <2>1, ObjectsAre
<1>28. CASE ApplyNamespace
  <2>1. stack # << >> /\ stack' = Front(stack) /\ mode' = "return" /\ UNCHANGED <<envs, rest>>
        /\ obj.kind = "namespace" /\ (obj' = Error \/ \E name : obj' = LookUp(obj.num, name))
    BY <1>28 DEF ApplyNamespace, Applies
  <2>2. obj.num \in DOMAIN envs
    BY <1>4, <2>1 DEF IsObject, Finished
  <2> QED BY <1>8, <1>24, <2>1, <2>2, ObjectsAre
<1>29. CASE Index
  <2>1. stack # << >> /\ stack' = Front(stack) /\ mode' = "return" /\ UNCHANGED <<envs, rest>>
        /\ Top.call = "index"
    BY <1>29 DEF Index, ReturnsTo
  <2>2. Top.objs[1] \in V
    <3>1. Top.objs \in Seq(V) /\ Top.objs # << >>
      BY <1>7, <2>1 DEF IsFrame
    <3> QED BY <3>1, ElementOfSeq, LenProperties, EmptySeq
  <2>3. Top.objs[1].elems \in Seq(V)
    BY <1>4, <2>2 DEF AreValues, IsObject
  <2>4. obj.num \in Int
    BY <1>4 DEF IsObject
  <2>5. obj' \in V
    <3> DEFINE elems == Top.objs[1].elems
               n == obj.num
    <3>1. obj' = Error \/ (n \in 0 .. Len(elems) - 1 /\ obj' = elems[n + 1])
      BY <1>29 DEF Index
    <3>2. n \in Int /\ elems \in Seq(V) /\ Len(elems) \in Nat
      BY <2>3, <2>4, LenProperties
    <3> HIDE DEF n, elems
    <3>3. n \in 0 .. Len(elems) - 1 => n + 1 \in 1 .. Len(elems)
      BY <3>2
    <3> QED BY <1>4, <3>1, <3>2, <3>3, ElementOfSeq
  <2> QED BY <1>4, <1>24, <2>1, <2>5 DEF AreValues
<1>30. CASE builtinApply \/ gt \/ array
  <2>1. stack # << >> /\ UNCHANGED <<envs, rest>> /\ Args \in Seq(Nodes)
    BY <1>26, <1>30 DEF builtinApply, gt, array, CallsBuiltin, Applies
  <2>2. CASE mode' = "return"
    <3>1. stack' = Front(stack) /\ (obj' = Error \/ obj' = Array(<< >>))
      BY <1>30, <2>2 DEF builtinApply, gt, array, CallsBuiltin, Applies
    <3> QED BY <1>12, <1>24, <2>1, <2>2, <3>1, ObjectsAre
  <2>3. CASE mode' # "return"
    <3>1. /\ Args # << >> /\ node' = Args[1] /\ UNCHANGED obj
          /\ \E call \in {"apply", "array", ">"} :
               stack' = [stack EXCEPT ![Len(stack)] = Frame(call, Top.env, Tail(Args), << >>)]
      BY <1>11, <1>30, <2>1, <2>3 DEF builtinApply, gt, array, CallsBuiltin, Applies
    <3>2. Tail(Args) \in Seq(Nodes) /\ Args[1] \in Nodes
      BY <1>10, <2>1, <3>1
    <3> QED BY <1>25, <2>1, <3>1, <3>2
  <2> QED BY <2>2, <2>3
<1>31. CASE ApplyArray
  <2>1. stack # << >> /\ UNCHANGED <<envs, rest, obj>> /\ Args \in Seq(Nodes)
    BY <1>26, <1>31 DEF ApplyArray, Applies
  <2>2. CASE Args = << >>
    BY <1>4, <1>24, <1>31, <2>1, <2>2 DEF ApplyArray
  <2>3. CASE Args # << >>
    <3>1. node' = Args[1] /\ stack' = [stack EXCEPT ![Len(stack)] = Frame("index", Top.env, << >>, <<obj>>)]
      BY <1>31, <2>3 DEF ApplyArray
    <3>2. PICK args \in Seq(Nodes), objs \in Seq(V) : args = << >> /\ objs = <<obj>> /\ objs # << >>
      <4>1. <<obj>> \in Seq(V) /\ <<obj>> # << >>
        BY <1>4
      <4>2. << >> \in Seq(Nodes)
        BY EmptySeq
      <4> QED BY <4>1, <4>2, Zenon
    <3>3. IsFrame(Frame("index", Top.env, args, objs), V)
      BY <3>2, FrameIs
    <3>4. node' \in Nodes
      BY <1>10, <2>1, <2>3, <3>1
    <3>5. Frame("index", Top.env, args, objs).call # "namespace"
      BY <1>3
    <3> QED BY <1>4, <1>13, <2>1, <3>1, <3>2, <3>3, <3>4, <3>5 DEF IsChanged
  <2> QED BY <2>2, <2>3
<1>32. CASE IfBranch
  <2>1. stack # << >> /\ stack' = Front(stack) /\ UNCHANGED <<envs, rest>> /\ Top.call = "if"
    BY <1>32 DEF IfBranch, ReturnsTo
  <2>2. Args \in Seq(Nodes) /\ Len(Args) \in {1, 2}
    BY <1>7, <2>1 DEF IsFrame, Args
  <2>3. Args[1] \in Nodes /\ (Len(Args) # 1 => Args[2] \in Nodes)
    BY <2>2, ElementOfSeq
  <2>4. \/ mode' = "return" /\ (obj' = Error \/ obj' = Null)
        \/ UNCHANGED obj /\ node' \in Nodes
    BY <1>32, <2>3 DEF IfBranch
  <2>5. IsObject(obj', V, F)
    BY <1>4, <2>4, ObjectsAre
  <2> QED BY <1>13, <2>1, <2>4, <2>5
<1>33. ASSUME NEW call \in {"assign", "namespace"}, NEW e, NEW args \in Seq(Nodes), args # << >>, Len(args) % 2 = 0
       PROVE  args[2] \in Nodes /\ IsFrame(Frame(call, e, args, << >>), V)
  <2>1. Len(args) \in Nat /\ Len(args) # 0
    BY <1>11, <1>33
  <2>2. Len(args) >= 2
    BY <1>33, <2>1
  <2>3. args[2] \in Nodes
    BY <2>1, <2>2, ElementOfSeq
  <2>4. PICK objs \in Seq(V) : objs = << >>
    BY EmptySeq
  <2>5. IsFrame(Frame(call, e, args, objs), V)
    BY <1>33, <2>2, FrameIs
  <2> QED BY <2>3, <2>4, <2>5
<1>34. CASE assign
  <2>1. stack # << >> /\ UNCHANGED <<envs, rest>> /\ Args \in Seq(Nodes) /\ BeginAssign("assign", Top.env)
    BY <1>26, <1>34 DEF assign, CallsBuiltin, Applies
  <2>2. CASE mode' = "return"
    <3>1. stack' = Front(stack) /\ (obj' = Error \/ obj' = Array(<< >>))
      BY <2>1, <2>2 DEF BeginAssign
    <3> QED BY <1>12, <1>24, <2>1, <2>2, <3>1, ObjectsAre
  <2>3. CASE mode' # "return"
    <3>1. /\ Len(Args) % 2 = 0 /\ Args # << >> /\ node' = Args[2] /\ UNCHANGED obj
          /\ stack' = [stack EXCEPT ![Len(stack)] = Frame("assign", Top.env, Args, << >>)]
      BY <2>1, <2>3 DEF BeginAssign
    <3>2. Frame("assign", Top.env, Args, << >>).call # "namespace"
      BY <1>3
    <3> QED BY <1>4, <1>13, <1>33, <2>1, <3>1, <3>2 DEF IsChanged
  <2> QED BY <2>2, <2>3
<1>35. CASE createNamespace
  <2> DEFINE n == Len(envs) + 1
  <2>1. stack # << >> /\ UNCHANGED rest /\ Args \in Seq(Nodes) /\ BeginAssign("namespace", n)
        /\ envs' = Append(envs, Child(Top.env))
    BY <1>26, <1>35 DEF createNamespace, CallsBuiltin, Applies
  <2>2. EnvsHold(envs', V) /\ DOMAIN envs \subseteq DOMAIN envs' /\ n \in DOMAIN envs' /\ n \in Int
    <3>1. Top.env \in DOMAIN envs
      BY <1>7, <2>1
    <3>2. Len(envs) \in Nat
      BY <1>5, SeqDomain
    <3> QED BY <1>2, <1>4, <2>1, <3>1, <3>2, NamespaceHolds
  <2>5. /\ n \notin F /\ n \notin Open(stack) /\ n # Global
        /\ envs'[n].values = << >> /\ \A e \in F : envs'[e].values = envs[e].values
    <3>1. Len(envs) \in Nat /\ DOMAIN envs = 1 .. Len(envs)
      BY <1>5, SeqDomain
    <3>2. F \subseteq DOMAIN envs /\ Open(stack) \subseteq DOMAIN envs /\ Global \in DOMAIN envs
      BY <1>2, <1>4, <2>1, TopIsOpen DEF Finished, EnvsAre
    <3>3. n \notin DOMAIN envs
      BY <3>1
    <3>4. envs'[n] = Child(Top.env) /\ \A e \in DOMAIN envs : envs'[e] = envs[e]
      BY <1>5, <2>1, <3>1, AddLast
    <3> QED BY <3>2, <3>3, <3>4 DEF Child
  <2> HIDE DEF n
  <2>6. EndsIn(envs', F) /\ F \subseteq DOMAIN envs'
    BY <1>4, <2>2, <2>5, EndsStays DEF Finished
  <2>3. CASE mode' = "return"
    <3>1. stack' = Front(stack) /\ (obj' = Error \/ obj' = Namespace(n))
      BY <2>1, <2>3 DEF BeginAssign
    <3>2. Open(stack') \subseteq Open(stack) /\ OpenOnce(stack')
      <4>1. OpensNone(stack', stack)
        BY <2>1, <3>1 DEF OpensNone
      <4> QED BY <1>2, <1>4, <4>1, OpenStays DEF Finished
    <3>3. CASE obj' = Error
      <4>1. Finished(F)'
        BY <1>4, <2>6, <3>2 DEF Finished
      <4> QED BY <1>1, <1>2, <1>4, <2>1, <2>2, <2>3, <3>1, <3>3, <4>1, ObjectsAre, ValuesStep
    <3>4. CASE obj' = Namespace(n)
      <4>1. PICK G : G = F \cup {n}
        OBVIOUS
      <4>2. \A d \in F \cup {n} : ShownBy(envs', d) \subseteq F
        <5>1. \A d \in DOMAIN envs' : ShownBy(envs', d) \subseteq F
          BY <1>4, <2>2, BindingsShowFinished
        <5> QED BY <2>2, <2>6, <5>1
      <4>3. EndsIn(envs', G)
        BY <2>5, <2>6, <4>1, <4>2, EndsWithMore
      <4>4. Finished(G)'
        BY <1>4, <2>2, <2>5, <2>6, <3>2, <4>1, <4>3 DEF Finished
      <4>5. IsObject(obj', V, G) /\ F \subseteq G
        BY <2>2, <3>4, <4>1, ObjectsAre
      <4> QED BY <1>1, <1>2, <2>1, <2>2, <2>3, <3>1, <4>4, <4>5, <1>4, ValuesStep
    <3> QED BY <3>1, <3>3, <3>4
  <2>4. CASE mode' # "return"
    <3>1. /\ Len(Args) % 2 = 0 /\ Args # << >> /\ node' = Args[2] /\ UNCHANGED obj
          /\ stack' = [stack EXCEPT ![Len(stack)] = Frame("namespace", n, Args, << >>)]
      BY <2>1, <2>4 DEF BeginAssign
    <3>2. node' \in Nodes /\ IsFrame(Frame("namespace", n, Args, << >>), V)
      BY <1>33, <2>1, <3>1
    <3>3. Open(stack') \subseteq Open(stack) \cup {n} /\ OpenOnce(stack')
      <4> DEFINE f == Frame("namespace", n, Args, << >>)
                 new == stack'
      <4>1. IsChanged(new, stack, f) /\ f.env = n
        BY <1>3, <3>1 DEF IsChanged
      <4> HIDE DEF f, new
      <4>2. Open(new) \subseteq Open(stack) \cup {n} /\ OpenOnce(new)
        BY <1>2, <1>4, <2>1, <2>5, <4>1, OpenMore DEF Finished
      <4> QED BY <4>2 DEF new
    <3>4. Finished(F)'
      BY <1>4, <2>5, <2>6, <3>3 DEF Finished
    <3> QED BY <1>1, <1>2, <1>4, <2>1, <2>2, <3>1, <3>2, <3>4, ValuesStep DEF IsChanged
  <2> QED BY <2>3, <2>4
<1>36. CASE AssignValue
  <2> DEFINE left == SubSeq(Args, 3, Len(Args))
             objs == Append(Top.objs, obj)
  <2>1. /\ stack # << >> /\ Top.call \in {"assign", "namespace"} /\ UNCHANGED rest
        /\ envs' = Assign(Top.env, Args[1].name, obj)
    BY <1>36 DEF AssignValue
  <2>2. EnvsHold(envs', V) /\ DOMAIN envs' = DOMAIN envs
    BY <1>2, <1>4, <1>7, <2>1, AssignHolds
  <2>7. Top.env \notin F /\ \A e \in F : envs'[e].values = envs[e].values
    <3>1. Top.env \notin F
      BY <1>4, <2>1, TopIsOpen DEF Finished
    <3>2. \A e \in DOMAIN envs : e # Top.env => envs'[e] = envs[e]
      BY <1>2, <1>7, <2>1, AssignKeeps
    <3> QED BY <1>4, <3>1, <3>2 DEF Finished
  <2>8. EndsIn(envs', F) /\ F \subseteq DOMAIN envs'
    BY <1>4, <2>2, <2>7, EndsStays DEF Finished
  <2>9. ASSUME OpensNone(stack', stack) PROVE Finished(F)' /\ Open(stack') \subseteq Open(stack) /\ OpenOnce(stack')
    BY <1>2, <1>4, <2>8, <2>9, OpenStays DEF Finished
  <2>3. Args \in Seq(Nodes) /\ Len(Args) >= 2 /\ Len(Args) % 2 = 0 /\ Len(Args) \in Nat /\ objs \in Seq(V)
    <3>1. Top.objs \in Seq(V) /\ Len(Args) >= 2 /\ Len(Args) % 2 = 0
      BY <1>7, <2>1 DEF IsFrame, Args
    <3> QED BY <1>4, <1>11, <1>26, <2>1, <3>1
  <2>4. left \in Seq(Nodes) /\ Len(left) = Len(Args) - 2
    <3> DEFINE m == Len(Args)
    <3>1. m \in Nat /\ m >= 2 /\ \A i \in 3 .. m : Args[i] \in Nodes
      BY <2>3, ElementOfSeq
    <3> HIDE DEF m
    <3>2. SubSeq(Args, 3, m) \in Seq(Nodes) /\ Len(SubSeq(Args, 3, m)) = IF 3 <= m THEN m - 3 + 1 ELSE 0
      BY <3>1, SubSeqProperties
    <3>3. Len(SubSeq(Args, 3, m)) = m - 2
      BY <3>1, <3>2
    <3> QED BY <3>2, <3>3 DEF m
  <2> HIDE DEF objs, left
  <2>5. CASE mode' = "return"
    <3>1. /\ stack' = Front(stack)
          /\ \/ obj' = Error \/ obj' = Array(objs)
             \/ Top.call = "namespace" /\ obj' = Namespace(Top.env)
      BY <1>36, <2>1, <2>5 DEF AssignValue, left, objs
    <3>2. Finished(F)' /\ Open(stack') \subseteq Open(stack) /\ OpenOnce(stack')
      BY <2>1, <2>9, <3>1 DEF OpensNone
    <3>3. CASE obj' = Error \/ obj' = Array(objs)
      <4>1. IsObject(obj', V, F)
        BY <2>3, <3>3, ObjectsAre
      <4> QED BY <1>1, <1>2, <1>4, <2>1, <2>2, <2>5, <3>1, <3>2, <4>1, ValuesStep
    <3>4. CASE Top.call = "namespace" /\ obj' = Namespace(Top.env)
      <4>1. PICK e, G : e = Top.env /\ G = F \cup {e}
        OBVIOUS
      <4>2. e \in DOMAIN envs' /\ e # Global /\ e \in Int /\ e \notin F
        BY <1>4, <2>1, <2>2, <2>7, <3>4, <4>1, MadeIsOpen
      <4>3. e \notin Open(stack')
        BY <1>2, <1>4, <2>1, <3>1, <3>4, <4>1, OpenCloses DEF Finished, Top
      <4>4. \A d \in F \cup {e} : ShownBy(envs', d) \subseteq F
        <5>1. \A d \in DOMAIN envs' : ShownBy(envs', d) \subseteq F
          BY <1>4, <2>2, BindingsShowFinished
        <5> QED BY <2>8, <4>2, <5>1
      <4>5. EndsIn(envs', G)
        BY <2>8, <4>1, <4>2, <4>4, EndsWithMore
      <4>6. Finished(G)'
        BY <1>4, <2>8, <3>2, <4>1, <4>2, <4>3, <4>5 DEF Finished
      <4>7. IsObject(obj', V, G) /\ F \subseteq G
        BY <3>4, <4>1, <4>2, ObjectsAre
      <4> QED BY <1>1, <1>2, <1>4, <2>1, <2>2, <2>5, <3>1, <4>6, <4>7, ValuesStep
    <3> QED BY <3>1, <3>3, <3>4
  <2>6. CASE mode' # "return"
    <3>1. /\ left # << >> /\ node' = left[2] /\ UNCHANGED obj
          /\ stack' = [stack EXCEPT ![Len(stack)] = Frame(Top.call, Top.env, left, objs)]
      BY <1>36, <2>6 DEF AssignValue, left, objs
    <3>2. Len(left) >= 2 /\ Len(left) % 2 = 0
      <4> DEFINE l == Len(left)
                 m == Len(Args)
      <4>1. l # 0 /\ m \in Nat /\ l = m - 2 /\ m >= 2 /\ m % 2 = 0
        BY <1>11, <2>3, <2>4, <3>1
      <4> HIDE DEF l, m
      <4>2. l >= 2 /\ l % 2 = 0
        BY <4>1
      <4> QED BY <4>2 DEF l
    <3>3. node' \in Nodes
      BY <2>4, <3>1, <3>2, <1>11, ElementOfSeq
    <3>4. IsFrame(Frame(Top.call, Top.env, left, objs), V)
      BY <2>1, <2>3, <2>4, <3>2, FrameIs
    <3>5. Finished(F)'
      <4>1. OpensNone(stack', stack)
        <5> DEFINE f == Frame(Top.call, Top.env, left, objs)
                   new == stack'
        <5>1. IsChanged(new, stack, f) /\ f.call = stack[Len(stack)].call /\ f.env = stack[Len(stack)].env
          BY <1>3, <3>1 DEF IsChanged, Top
        <5> HIDE DEF f, new
        <5>2. OpensNone(new, stack)
          BY <2>1, <5>1 DEF OpensNone
        <5> QED BY <5>2 DEF new
      <4> QED BY <2>9, <4>1
    <3> QED BY <1>1, <1>2, <1>4, <2>1, <2>2, <3>1, <3>3, <3>4, <3>5, ValuesStep DEF IsChanged
  <2> QED BY <2>5, <2>6
<1>37. CASE NextArgument
  <2> DEFINE objs == Append(Top.objs, obj)
  <2>1. stack # << >> /\ Top.call \in {"array", "+", "*", ">"} /\ UNCHANGED <<envs, rest>> /\ Args \in Seq(Nodes)
    BY <1>26, <1>37 DEF NextArgument, ReturnsTo
  <2>2. objs \in Seq(V)
    BY <1>4, <1>7, <2>1 DEF IsFrame
  <2>0. Accepts(Top.call, Top.objs, obj) /\ Top.call \in {"+", "*"} => AreNumbers(objs)
    <3>1. Top.objs \in Seq(V) /\ (Top.call \in {"+", "*"} => AreNumbers(Top.objs))
      BY <1>7, <2>1 DEF IsFrame
    <3>2. Top.call \in {"+", "*"} /\ Accepts(Top.call, Top.objs, obj) => obj.kind \in {"integer", "float64"}
      BY DEF Accepts
    <3> QED BY <3>1, <3>2, MoreNumbers
  <2>3. CASE mode' = "return"
    <3>1. /\ stack' = Front(stack)
          /\ obj' = Error \/ (Accepts(Top.call, Top.objs, obj) /\ obj' = Result(Top.call, objs))
      BY <1>37, <2>3 DEF NextArgument
    <3> HIDE DEF objs
    <3>2. IsObject(obj', V, F)
      BY <1>4, <2>0, <2>2, <3>1, ObjectsAre, ResultIsValue
    <3> QED BY <1>24, <2>1, <2>3, <3>1, <3>2
  <2>4. CASE mode' # "return"
    <3>1. /\ Accepts(Top.call, Top.objs, obj) /\ Args # << >> /\ node' = Args[1] /\ UNCHANGED obj
          /\ stack' = [stack EXCEPT ![Len(stack)] = Frame(Top.call, Top.env, Tail(Args), objs)]
      BY <1>37, <2>4 DEF NextArgument
    <3>2. Top.call = ">" => \A i \in 1 .. Len(objs) : objs[i].kind = objs[1].kind
      BY <1>7, <2>1, <3>1, OneKind DEF IsFrame, Accepts
    <3> HIDE DEF objs
    <3>3. node' \in Nodes /\ Tail(Args) \in Seq(Nodes)
      BY <1>10, <2>1, <3>1
    <3>4. IsFrame(Frame(Top.call, Top.env, Tail(Args), objs), V)
      BY <2>0, <2>1, <2>2, <3>1, <3>2, <3>3, FrameIs
    <3>5. Frame(Top.call, Top.env, Tail(Args), objs).call # "namespace"
      BY <1>3, <2>1
    <3> QED BY <1>4, <1>13, <2>1, <3>1, <3>3, <3>4, <3>5 DEF IsChanged
  <2> QED BY <2>3, <2>4
<1> QED BY <1>14, <1>15, <1>16, <1>17, <1>18, <1>19, <1>20, <1>21, <1>23, <1>27, <1>28, <1>29, <1>30, <1>31, <1>32,
           <1>34, <1>35, <1>36, <1>37 DEF Next, Step

(* Whatever is evaluated: values only are bound, returned and collected,   *)
(* no namespace before it is finished, and a call never waits for an       *)
(* argument that is not there.                                             *)
THEOREM ValuesAlwaysHold == Spec => []ValuesHold
  BY ValuesInit, ValuesNext, NestedScopesHold, PTL DEF Spec

(* Inspect comes to an end on every value, however many environments there *)
(* are and however deep in arrays it is looked for them: what is bound     *)
(* shows finished namespaces only, and of those none is shown in itself.   *)
THEOREM InspectAlwaysEnds == Spec => []InspectEnds
<1>1. ASSUME ValuesHold PROVE InspectEnds
  <2>1. PICK V, F : ValuesIn(V, F)
    BY <1>1 DEF ValuesHold
  <2>2. \A e \in DOMAIN envs : ShownIn(e) \subseteq F /\ ShownIn(e) = ShownBy(envs, e)
    BY <2>1, BindingsShowFinished DEF ValuesIn, ShownIn, ShownBy
  <2>3. EndsIn(envs, F)
    BY <2>1 DEF ValuesIn, Finished
  <2> SUFFICES ASSUME NEW S \in (SUBSET DOMAIN envs) \ {{}} PROVE \E e \in S : ShownIn(e) \cap S = {}
    BY DEF InspectEnds
  <2> DEFINE T == S \cap F
  <2>4. CASE T = {}
    BY <2>2, <2>4
  <2>5. CASE T # {}
    <3>1. PICK e \in T : ShownBy(envs, e) \cap T = {}
      BY <2>3, <2>5 DEF EndsIn
    <3> QED BY <2>2, <3>1
  <2> QED BY <2>4, <2>5
<1> QED BY <1>1, ValuesAlwaysHold, PTL

(***************************************************************************)
(* Arithmetic and comparison.  The last argument ends them, with the       *)
(* result for the operands, which are all that was collected.              *)
(***************************************************************************)
LEMMA EndsWithResult ==
  ASSUME Next, NEW calls, calls \subseteq {"+", "*", ">"}, Ends(calls)
  PROVE  Accepts(Top.call, Top.objs, obj) /\ obj' = Result(Top.call, Operands)
<1>1. mode = "return" /\ stack # << >> /\ Top.call \in {"+", "*", ">"} /\ mode' = "return" /\ obj' # Error
  BY DEF Ends
<1>2. NextArgument
  BY <1>1 DEF Next, Step, EvalPackage, NextNode, PackageEnds, NodeEnds, EvalLiteral, EvalSymbol, EvalOther, evalIf,
         evalSpecialOp, EvalSExp, EvalPanics, Evaluates, builtinTypeOf, assign, createNamespace, builtinApply, gt,
         array, ApplyNamespace, ApplyArray, ApplyOther, CallsBuiltin, Applies, AssignValue, Index, IfBranch,
         ReturnsTo
<1> QED BY <1>1, <1>2 DEF NextArgument, Operands, Call, Return

LEMMA OperandsAre ==
  ASSUME NestedScopes, NEW V, NEW F, ValuesIn(V, F), stack # << >>
  PROVE  Operands \in Seq(V) /\ IsFrame(Top, V) /\ AreValues(V, F)
<1>1. IsFrame(Top, V)
  BY NotEmpty DEF NestedScopes, ValuesIn, Top
<1>2. Top.objs \in Seq(V) /\ obj \in V
  BY <1>1 DEF IsFrame, ValuesIn
<1>3. Operands \in Seq(V)
  BY <1>2 DEF Operands
<1> QED BY <1>1, <1>3 DEF ValuesIn

LEMMA SameInAnyOrder ==
  ASSUME NEW V, NEW F, AreValues(V, F), NEW objs \in Seq(V), AreNumbers(objs),
         NEW p \in Orders(Len(objs)), NEW call \in {"+", "*"}
  PROVE  LET other == Result(call, [i \in 1 .. Len(objs) |-> objs[p[i]]]) IN
         /\ other.kind = Result(call, objs).kind
         /\ Len(objs) = 2 \/ ~HasFloats(objs) => other = Result(call, objs)
<1> DEFINE n == Len(objs)
           others == [i \in 1 .. n |-> objs[p[i]]]
           h == HasFloats(objs)
<1>1. IsOrder(p, n) /\ n \in Nat /\ p \in [1 .. n -> 1 .. n]
  BY LenProperties DEF Orders, IsOrder
<1>2. (\A i \in 1 .. n : objs[i] \in V) /\ DOMAIN objs = 1 .. n
  BY ElementOfSeq, LenProperties
<1>3. others \in Seq(V) /\ Len(others) = n /\ DOMAIN others = 1 .. n /\ \A i \in 1 .. n : others[i] = objs[p[i]]
  BY <1>1, <1>2, LenProperties
<1>4. \A t \in 1 .. n : \E i \in 1 .. n : p[i] = t
  BY <1>1, OrderHasAll
<1>5. AreNumbers(others)
  <2> HIDE DEF others
  <2> QED BY <1>1, <1>3 DEF AreNumbers
<1> HIDE DEF others, n, h
<1>6. h = HasFloats(others)
  <2>1. ASSUME NEW i \in 1 .. n, others[i].kind = "float64" PROVE \E t \in 1 .. n : objs[t].kind = "float64"
    BY <1>1, <1>3, <2>1
  <2>2. ASSUME NEW t \in 1 .. n, objs[t].kind = "float64" PROVE \E i \in 1 .. n : others[i].kind = "float64"
    <3>1. PICK i \in 1 .. n : p[i] = t
      BY <1>4
    <3> QED BY <1>3, <2>2, <3>1
  <2> QED BY <1>2, <1>3, <2>1, <2>2 DEF HasFloats, h
<1>7. h \in BOOLEAN /\ AreOperands(h, objs) /\ AreOperands(h, others)
  BY <1>3, <1>5, <1>6, OperandsFit DEF h
<1>8. Result(call, objs) = Total(call, h, objs) /\ Result(call, others) = Total(call, h, others)
  BY <1>6 DEF Result, sum, multiply, h
<1>9. Result(call, others).kind = Result(call, objs).kind
  BY <1>7, <1>8, TotalIs
<1>10. CASE h = FALSE
  <2>1. AreOperands(h, objs) /\ IsOrder(p, Len(objs))
        /\ Len(others) = Len(objs) /\ IsReordered(others, objs, p, Len(objs))
    BY <1>1, <1>3, <1>7 DEF n, IsReordered
  <2>2. Total(call, h, others) = Total(call, h, objs)
    BY <1>10, <2>1, IntegersInAnyOrder
  <2> QED BY <1>8, <1>9, <1>10, <2>2 DEF others, n
<1>11. CASE h = TRUE /\ n = 2
  <2> DEFINE x == Operand(TRUE, objs[1])
             y == Operand(TRUE, objs[2])
             C(a, b) == Combine(call, TRUE, a, b)
  <2>1. C(x, y) = C(y, x) /\ Total(call, TRUE, objs) = Primitive("float64", C(x, y))
    BY <1>7, <1>11, TwoFloats DEF n
  <2>2. Total(call, TRUE, others) =
          Primitive("float64", C(Operand(TRUE, others[1]), Operand(TRUE, others[2])))
    BY <1>3, <1>7, <1>11, TwoFloats
  <2>3. \/ others[1] = objs[1] /\ others[2] = objs[2]
        \/ others[1] = objs[2] /\ others[2] = objs[1]
    <3>1. 1 \in 1 .. 2 /\ 2 \in 1 .. 2 /\ p[1] \in {1, 2} /\ p[2] \in {1, 2} /\ p[1] # p[2]
      BY <1>1, <1>11 DEF IsOrder
    <3> QED BY <1>3, <1>11, <3>1
  <2> HIDE DEF C
  <2>4. Total(call, TRUE, others) = Total(call, TRUE, objs)
    BY <2>1, <2>2, <2>3
  <2> QED BY <1>8, <1>9, <1>11, <2>4 DEF others, n
<1> QED BY <1>7, <1>9, <1>10, <1>11 DEF others, n, h

(* The order of operands does not change the kind of what + and * give,    *)
(* however many they are and whatever kinds they mix; nor its value, if    *)
(* all are integers, of whatever width, or if there are two, of whatever   *)
(* kinds -- as far as the addition and multiplication of floats commute.   *)
THEOREM OperandsCommute == Spec => OrderDoesNotMatter
<1> DEFINE Same(p) ==
             LET other == Result(Top.call, [i \in 1 .. Len(Operands) |-> Operands[p[i]]]) IN
             /\ other.kind = obj'.kind
             /\ Len(Operands) = 2 \/ ~HasFloats(Operands) => other = obj'
           A == Ends({"+", "*"}) => \A p \in Orders(Len(Operands)) : Same(p)
<1>1. ASSUME NestedScopes, ValuesHold, Next, Ends({"+", "*"}), NEW p \in Orders(Len(Operands))
      PROVE  Same(p)
  <2>1. /\ obj' = Result(Top.call, Operands) /\ Top.call \in {"+", "*"} /\ stack # << >>
        /\ Accepts(Top.call, Top.objs, obj)
    BY <1>1, EndsWithResult DEF Ends
  <2>2. PICK V, F : ValuesIn(V, F)
    BY <1>1 DEF ValuesHold
  <2>3. Operands \in Seq(V) /\ IsFrame(Top, V) /\ AreValues(V, F)
    BY <1>1, <2>1, <2>2, OperandsAre
  <2>4. AreNumbers(Operands)
    BY <2>1, <2>3, MoreNumbers DEF IsFrame, Accepts, Operands
  <2> QED BY <2>1, <2>3, <2>4, SameInAnyOrder
<1>2. NestedScopes /\ ValuesHold /\ [Next]_vars => [A]_vars
  <2> HIDE DEF Same
  <2> QED BY <1>1
<1>3. Spec => [][A]_vars
  <2> HIDE DEF A
  <2> QED BY <1>2, NestedScopesHold, ValuesAlwaysHold, PTL DEF Spec
<1> QED BY <1>3, PTL DEF OrderDoesNotMatter

(* Each neighbour being greater, each operand is greater than every later  *)
(* one.                                                                    *)
LEMMA DecreasingIsAll ==
  ASSUME NEW objs, NEW n \in Nat, \A i \in 1 .. n : objs[i].num \in Int,
         \A i \in 1 .. n - 1 : objs[i].num > objs[i + 1].num
  PROVE  \A i, j \in 1 .. n : i < j => objs[i].num > objs[j].num
<1> DEFINE S == {k \in Nat : \A i \in 1 .. n : i + k + 1 <= n => objs[i].num > objs[i + k + 1].num}
<1>1. 0 \in S
  <2>1. \A i \in 1 .. n : i + 0 + 1 <= n => i \in 1 .. n - 1 /\ i + 0 + 1 = i + 1
    OBVIOUS
  <2> QED BY <2>1
<1>2. ASSUME NEW k \in S PROVE k + 1 \in S
  <2>1. k \in Nat /\ \A i \in 1 .. n : i + k + 1 <= n => objs[i].num > objs[i + k + 1].num
    OBVIOUS
  <2>2. ASSUME NEW i \in 1 .. n, i + (k + 1) + 1 <= n PROVE objs[i].num > objs[i + (k + 1) + 1].num
    <3> DEFINE j == i + k + 1
    <3>1. j \in 1 .. n /\ j \in 1 .. n - 1 /\ j + 1 \in 1 .. n /\ i + (k + 1) + 1 = j + 1 /\ j <= n
      BY <2>1, <2>2
    <3>2. objs[i].num > objs[j].num
      BY <2>1, <3>1
    <3> HIDE DEF j
    <3>3. objs[j].num > objs[j + 1].num
      BY <3>1
    <3>4. objs[i].num \in Int /\ objs[j].num \in Int /\ objs[j + 1].num \in Int
      BY <3>1
    <3>5. objs[i].num > objs[j + 1].num
      BY <3>2, <3>3, <3>4
    <3> QED BY <3>1, <3>5
  <2> QED BY <2>1, <2>2
<1>3. \A k \in Nat : k \in S
  <2>1. S \in SUBSET Nat
    OBVIOUS
  <2> HIDE DEF S
  <2> QED BY <1>1, <1>2, <2>1, Induction
<1>4. ASSUME NEW i \in 1 .. n, NEW j \in 1 .. n, i < j PROVE objs[i].num > objs[j].num
  <2> DEFINE k == j - i - 1
  <2>1. k \in Nat /\ i + k + 1 = j /\ i + k + 1 <= n
    BY <1>4
  <2> HIDE DEF k
  <2>2. \A m \in 1 .. n : m + k + 1 <= n => objs[m].num > objs[m + k + 1].num
    BY <1>3, <2>1
  <2> QED BY <2>1, <2>2
<1> QED BY <1>4

(* (> a b c ...) answers whether each operand is greater than every later  *)
(* one, for any number of operands of whatever one kind they have.         *)
THEOREM GreaterIsOfAll == Spec => GreaterIsAll
<1> DEFINE all == \A i, j \in DOMAIN Operands : i < j => Operands[i].num > Operands[j].num
           Same == \A i \in DOMAIN Operands : Operands[i].kind = Operands[1].kind
           A == Ends({">"}) => Same /\ obj' = Boolean(all)
<1>1. ASSUME NestedScopes, ValuesHold, Next, Ends({">"}) PROVE Same /\ obj' = Boolean(all)
  <2>1. obj' = isDecreasing(Operands) /\ Accepts(">", Top.objs, obj) /\ Top.call = ">" /\ stack # << >>
    BY <1>1, EndsWithResult DEF Ends, Result
  <2>2. PICK V, F : ValuesIn(V, F)
    BY <1>1 DEF ValuesHold
  <2>3. Operands \in Seq(V) /\ IsFrame(Top, V) /\ \A o \in V : o.num \in Int
    BY <1>1, <2>1, <2>2, OperandsAre DEF AreValues, IsObject
  <2> DEFINE n == Len(Operands)
  <2>4. n \in Nat /\ DOMAIN Operands = 1 .. n /\ \A i \in 1 .. n : Operands[i].num \in Int
    BY <2>3, LenProperties, ElementOfSeq
  <2>5. \A i \in 1 .. n : Operands[i].kind = Operands[1].kind
    <3>1. Top.objs \in Seq(V) /\ \A i \in 1 .. Len(Top.objs) : Top.objs[i].kind = Top.objs[1].kind
      BY <2>1, <2>3 DEF IsFrame
    <3>2. Top.objs # << >> => Top.objs[Len(Top.objs)].kind = obj.kind
      BY <2>1 DEF Accepts
    <3> QED BY <3>1, <3>2, OneKind DEF Operands
  <2> DEFINE next == \A i \in 1 .. n - 1 : Operands[i].num > Operands[i + 1].num
             every == \A i, j \in 1 .. n : i < j => Operands[i].num > Operands[j].num
  <2>6. next => every
    <3> HIDE DEF n
    <3> QED BY <2>4, DecreasingIsAll
  <2>7. every => next
    <3> HIDE DEF n
    <3>1. \A i \in 1 .. n - 1 : i \in 1 .. n /\ i + 1 \in 1 .. n /\ i < i + 1
      BY <2>4
    <3> QED BY <3>1
  <2>8. obj' = Boolean(next)
    BY <2>1 DEF isDecreasing
  <2>9. all <=> every
    BY <2>4
  <2> HIDE DEF next, every, all
  <2>10. Boolean(next) = Boolean(all)
    BY <2>6, <2>7, <2>9 DEF Boolean
  <2> QED BY <2>4, <2>5, <2>8, <2>10
<1>2. NestedScopes /\ ValuesHold /\ [Next]_vars => [A]_vars
  BY <1>1
<1>3. Spec => [][A]_vars
  <2> HIDE DEF A
  <2> QED BY <1>2, NestedScopesHold, ValuesAlwaysHold, PTL DEF Spec
<1> QED BY <1>3, PTL DEF GreaterIsAll

LEMMA Parts ==
  ASSUME NEW n \in Nodes
  PROVE  /\ Depth[n] \in Nat
         /\ \A i \in DOMAIN n.kids : n.kids[i] \in Nodes /\ Depth[n.kids[i]] \in Nat /\ Depth[n.kids[i]] < Depth[n]
<1>1. n.kids \in Seq(Nodes)
  BY NodesAssumption
<1>2. \A i \in DOMAIN n.kids : n.kids[i] \in Nodes
  BY <1>1, ElementOfSeq, LenProperties
<1> QED BY <1>2, DepthAssumption

LEMMA NodesAreTrees == IsForest(Nodes, Depth)
  BY Parts DEF IsForest

LEMMA FunctionOfNodes ==
  ASSUME NEW X, NEW u \in X, NEW G \in [Nodes \X [Nodes -> X] -> X], IsLocal(G, Nodes, X)
  PROVE  \E f \in [Nodes -> X] : \A n \in Nodes : f[n] = G[<<n, f>>]
<1>1. IsForest(Nodes, Depth) /\ IsRule(G, Nodes, X) /\ X # {}
  BY NodesAreTrees DEF IsRule
<1>2. HasSolution(G, Nodes, X)
  BY <1>1, TreeFunction
<1> QED BY <1>2 DEF HasSolution

(***************************************************************************)
(* Infer gives a type to each tree by those of its parts, and whether it   *)
(* is plain depends on its parts likewise.                                 *)
(***************************************************************************)
TypesOf(ty) == {ty[name] : name \in Names} \cup {Type(l) : l \in Literals} \cup {NoType, AnyType, AnyArray}
IsInferred(I, ty) == \A n \in Nodes : I[n] = inferNode(n, I, ty)

LEMMA InferNodeIn ==
  ASSUME NEW ty, NEW n \in Nodes, NEW f, \A i \in DOMAIN n.kids : f[n.kids[i]] \in TypesOf(ty)
  PROVE  inferNode(n, f, ty) \in TypesOf(ty)
<1> DEFINE X == TypesOf(ty)
<1>1. /\ n.kids \in Seq(Nodes) /\ DOMAIN n.kids = 1 .. Len(n.kids) /\ Len(n.kids) \in Nat
      /\ n.kids # << >> => 1 \in DOMAIN n.kids
      /\ n.t = "If" => {1, 2} \subseteq DOMAIN n.kids /\ 1 \in 1 .. Len(n.kids) - 1
      /\ n.t = "Symbol" => n.name \in Names
  <2>1. n.kids \in Seq(Nodes) /\ (n.t = "If" => Len(n.kids) \in {2, 3}) /\ (n.t = "Symbol" => n.name \in Names)
    BY NodesAssumption
  <2>2. DOMAIN n.kids = 1 .. Len(n.kids) /\ Len(n.kids) \in Nat /\ (n.kids # << >> => 1 \in DOMAIN n.kids)
    BY <2>1, LenProperties, EmptySeq
  <2>3. n.t = "If" => {1, 2} \subseteq DOMAIN n.kids /\ 1 \in 1 .. Len(n.kids) - 1
    BY <2>1, <2>2
  <2> QED BY <2>1, <2>2, <2>3
<1>2. NoType \in X /\ AnyType \in X /\ AnyArray \in X
  BY DEF TypesOf
<1>3. CASE n.t \in Literals
  BY <1>3 DEF inferNode, TypesOf
<1>4. CASE n.t \notin Literals /\ n.t = "Symbol"
  BY <1>1, <1>4 DEF inferNode, TypesOf
<1>5. CASE n.t \notin Literals /\ n.t = "If"
  <2> DEFINE branches == [i \in 1 .. Len(n.kids) - 1 |-> f[n.kids[i + 1]]]
  <2>1. inferNode(n, f, ty) = inferIf(f[n.kids[1]], branches)
    BY <1>5 DEF inferNode
  <2>2. branches[1] \in X
    BY <1>1, <1>5
  <2> HIDE DEF branches
  <2> QED BY <1>2, <2>1, <2>2 DEF inferIf
<1>6. CASE n.t \notin Literals /\ n.t = "SExp"
  <2>1. CASE n.kids = << >>
    <3>1. inferNode(n, f, ty) = inferSExp(<< >>)
      BY <1>6, <2>1 DEF inferNode
    <3> QED BY <1>2, <3>1 DEF inferSExp
  <2>2. CASE n.kids # << >>
    <3>1. inferNode(n, f, ty) = inferSExp(<<f[n.kids[1]]>>) /\ f[n.kids[1]] \in X
      BY <1>1, <1>6, <2>2 DEF inferNode
    <3> QED BY <1>2, <3>1 DEF inferSExp
  <2> QED BY <2>1, <2>2
<1>7. CASE n.t \notin Literals \cup {"Symbol", "If", "SExp"}
  <2>1. Type("float64") \in X /\ Type("integer") \in X
    BY DEF TypesOf, Literals
  <2>2. inferNode(n, f, ty) \in {NoType, Type("float64"), Type("integer")}
    BY <1>7 DEF inferNode, inferArithmetic
  <2> QED BY <1>2, <2>1, <2>2
<1> QED BY <1>3, <1>4, <1>5, <1>6, <1>7

LEMMA InferNodeLocal ==
  ASSUME NEW ty, NEW n \in Nodes, NEW f, NEW g, AgreeBelow(f, g, n)
  PROVE  inferNode(n, f, ty) = inferNode(n, g, ty)
<1>1. n.kids \in Seq(Nodes) /\ DOMAIN n.kids = 1 .. Len(n.kids) /\ Len(n.kids) \in Nat
      /\ (n.kids # << >> => 1 \in DOMAIN n.kids) /\ (n.t = "If" => 1 \in DOMAIN n.kids)
  BY NodesAssumption, LenProperties, EmptySeq
<1>2. \A i \in DOMAIN n.kids : f[n.kids[i]] = g[n.kids[i]]
  BY DEF AgreeBelow
<1>3. [i \in DOMAIN n.kids |-> f[n.kids[i]]] = [i \in DOMAIN n.kids |-> g[n.kids[i]]]
  BY <1>2
<1>4. [i \in 1 .. Len(n.kids) - 1 |-> f[n.kids[i + 1]]] = [i \in 1 .. Len(n.kids) - 1 |-> g[n.kids[i + 1]]]
  <2>1. \A i \in 1 .. Len(n.kids) - 1 : i + 1 \in DOMAIN n.kids
    BY <1>1
  <2>2. \A i \in 1 .. Len(n.kids) - 1 : f[n.kids[i + 1]] = g[n.kids[i + 1]]
    BY <1>2, <2>1
  <2> QED BY <2>2
<1>5. n.kids # << >> \/ n.t = "If" => f[n.kids[1]] = g[n.kids[1]]
  BY <1>1, <1>2
<1> QED BY <1>3, <1>4, <1>5, Zenon DEF inferNode

LEMMA InferIs ==
  ASSUME NEW ty
  PROVE  \E I \in [Nodes -> TypesOf(ty)] : IsInferred(I, ty) /\ \A n \in Nodes : Infer(n, ty) = I[n]
<1> DEFINE X == TypesOf(ty)
           Is(t) == t = [n \in Nodes |-> inferNode(n, t, ty)]
           infer == CHOOSE t : Is(t)
<1>1. \E t : Is(t)
  <2> DEFINE G == [pair \in Nodes \X [Nodes -> X] |-> inferNode(pair[1], pair[2], ty)]
  <2>1. \A n \in Nodes, f \in [Nodes -> X] : G[<<n, f>>] = inferNode(n, f, ty)
    OBVIOUS
  <2>2. \A n \in Nodes, f \in [Nodes -> X] : inferNode(n, f, ty) \in X
    <3>1. \A n \in Nodes, f \in [Nodes -> X] : \A i \in DOMAIN n.kids : f[n.kids[i]] \in X
      BY Parts
    <3> QED BY <3>1, InferNodeIn
  <2>3. G \in [Nodes \X [Nodes -> X] -> X]
    BY <2>2
  <2> HIDE DEF G
  <2>4. IsLocal(G, Nodes, X)
    BY <2>1, InferNodeLocal DEF IsLocal
  <2>5. NoType \in X
    BY DEF TypesOf
  <2>6. PICK f \in [Nodes -> X] : \A n \in Nodes : f[n] = G[<<n, f>>]
    BY <2>3, <2>4, <2>5, FunctionOfNodes
  <2>7. f = [n \in Nodes |-> f[n]] /\ \A n \in Nodes : f[n] = inferNode(n, f, ty)
    BY <2>1, <2>6
  <2>8. Is(f)
    BY <2>7
  <2> QED BY <2>8
<1>2. Is(infer)
  <2> HIDE DEF Is
  <2> QED BY <1>1
<1>3. \A n \in Nodes : Infer(n, ty) = infer[n]
  BY DEF Infer
<1> HIDE DEF infer
<1>4. IsInferred(infer, ty)
  BY <1>2 DEF IsInferred
<1>5. infer = [n \in Nodes |-> infer[n]]
  BY <1>2
<1> DEFINE T == {Depth[n] : n \in {m \in Nodes : infer[m] \notin X}}
<1>6. T = {}
  <2> SUFFICES ASSUME T # {} PROVE FALSE
    OBVIOUS
  <2>1. T \in SUBSET Nat
    BY Parts
  <2>2. PICK least \in T : \A e \in T : least <= e
    BY <2>1, LeastElement
  <2>3. PICK n \in Nodes : Depth[n] = least /\ infer[n] \notin X
    BY <2>2
  <2>4. ASSUME NEW i \in DOMAIN n.kids PROVE infer[n.kids[i]] \in X
    <3> DEFINE m == n.kids[i]
    <3>1. m \in Nodes /\ Depth[m] < Depth[n] /\ Depth[m] \in Nat /\ Depth[n] \in Nat
      BY Parts
    <3> HIDE DEF m
    <3>2. Depth[m] \notin T
      BY <2>2, <2>3, <3>1
    <3>3. infer[m] \in X
      BY <3>1, <3>2
    <3> QED BY <3>3 DEF m
  <2>5. inferNode(n, infer, ty) \in X
    BY <2>4, InferNodeIn
  <2> QED BY <1>4, <2>3, <2>5 DEF IsInferred
<1>7. \A n \in Nodes : infer[n] \in X
  BY <1>6
<1>8. infer \in [Nodes -> X]
  <2> HIDE DEF X
  <2> QED BY <1>5, <1>7
<1> QED BY <1>3, <1>4, <1>8

LEMMA PlainIs ==
  \E P \in SUBSET Nodes :
    /\ \A n \in Nodes : IsPlain(n) => n \in P
    /\ \A m \in P : plainNode(m, [n \in Nodes |-> n \in P])
<1> DEFINE Is(t) == t = [m \in Nodes |-> plainNode(m, t)]
           plain == CHOOSE t : Is(t)
<1>1. \E t : Is(t)
  <2> DEFINE G == [pair \in Nodes \X [Nodes -> BOOLEAN] |-> plainNode(pair[1], pair[2])]
  <2>1. \A n \in Nodes, f \in [Nodes -> BOOLEAN] : G[<<n, f>>] = plainNode(n, f)
    BY Zenon
  <2>2. G \in [Nodes \X [Nodes -> BOOLEAN] -> BOOLEAN]
    BY DEF plainNode
  <2> HIDE DEF G
  <2>3. IsLocal(G, Nodes, BOOLEAN)
    <3>1. \A n \in Nodes : \A f, g \in [Nodes -> BOOLEAN] : AgreeBelow(f, g, n) => plainNode(n, f) = plainNode(n, g)
      BY DEF AgreeBelow, plainNode
    <3> QED BY <2>1, <3>1 DEF IsLocal
  <2>4. PICK f \in [Nodes -> BOOLEAN] : \A n \in Nodes : f[n] = G[<<n, f>>]
    BY <2>2, <2>3, FunctionOfNodes
  <2>5. \A n \in Nodes : f[n] = plainNode(n, f)
    BY <2>1, <2>4
  <2>6. f = [n \in Nodes |-> f[n]]
    OBVIOUS
  <2>7. Is(f)
    BY <2>5, <2>6
  <2> QED BY <2>7
<1>2. Is(plain)
  <2> HIDE DEF Is
  <2> QED BY <1>1
<1>3. \A n : IsPlain(n) = plain[n]
  BY Zenon DEF IsPlain
<1> HIDE DEF plain
<1>4. \A m \in Nodes : plain[m] = plainNode(m, plain)
  BY <1>2, Zenon
<1> DEFINE P == {m \in Nodes : plain[m]}
           f == [n \in Nodes |-> n \in P]
<1>5. ASSUME NEW m \in P PROVE plainNode(m, f)
  <2>1. plainNode(m, plain)
    BY <1>4
  <2>2. \A i \in DOMAIN m.kids : m.kids[i] \in Nodes
    BY Parts
  <2>3. \A n \in Nodes : f[n] = (n \in P)
    BY Zenon
  <2>4. \A n \in Nodes : plain[n] => f[n]
    BY <2>3
  <2> HIDE DEF f, P
  <2> QED BY <2>1, <2>2, <2>4, Zenon DEF plainNode
<1> QED BY <1>3, <1>5, Zenon

(***************************************************************************)
(* A name in the global environment.                                       *)
(***************************************************************************)
InGlobal(name) == IF name \in DOMAIN envs[Global].values THEN envs[Global].values[name] ELSE Null

LEMMA LookUpInGlobal ==
  ASSUME EnvsAre, NEW V, Null \in V, EnvsHold(envs, V), NEW name
  PROVE  LookUp(Global, name) = InGlobal(name)
<1>1. PICK look : /\ \A i \in 0 .. Len(envs) : look[i] = Looks(look, name, i)
                  /\ \A i : LookUp(i, name) = look[i]
  BY LookUpLooks DEF EnvsAre
<1>2. DOMAIN envs = 1 .. Len(envs) /\ Len(envs) \in Nat /\ Global \in DOMAIN envs
  BY SeqDomain DEF EnvsAre
<1>3. envs[Global].parent = 0
  BY <1>2 DEF EnvsHold, Global
<1>4. 0 \in 0 .. Len(envs) /\ Global \in 0 .. Len(envs) /\ Global # 0
  BY <1>2 DEF Global
<1>5. look[0] = Null /\ look[Global] = Looks(look, name, Global)
  BY <1>1, <1>4 DEF Looks
<1> QED BY <1>1, <1>3, <1>4, <1>5 DEF Looks, InGlobal

(* It is bound there only where no namespace is being made.                *)
LEMMA GlobalStands ==
  ASSUME NestedScopes, ValuesHold, [Next]_vars,
         AssignValue => Top.call = "namespace" \/ Namespaces(stack, Len(stack)) # {}
  PROVE  envs'[Global] = envs[Global]
<1>1. PICK V, F : ValuesIn(V, F)
  BY DEF ValuesHold
<1>2. EnvsHold(envs, V) /\ EnvsAre /\ Global \in DOMAIN envs
  BY <1>1 DEF ValuesIn, NestedScopes, EnvsAre
<1>3. CASE createNamespace
  <2>1. envs' = Append(envs, Child(Top.env)) /\ IsSeq(envs)
    BY <1>2, <1>3 DEF createNamespace, EnvsAre
  <2> QED BY <1>2, <2>1, AddLast, SeqDomain
<1>4. CASE AssignValue
  <2>1. stack # << >> /\ envs' = Assign(Top.env, Args[1].name, obj)
    BY <1>4 DEF AssignValue
  <2>2. Top.env = ScopeIn(stack, Len(stack)) /\ Len(stack) \in Nat \ {0} /\ Top.env \in DOMAIN envs
    BY <2>1, TopIsInnermost, NotEmpty DEF Scope, ScopeIn, Namespaces, NestedScopes
  <2>3. Namespaces(stack, Len(stack)) # {}
    BY <1>4, <2>2 DEF Namespaces, Top
  <2>4. \E i \in Namespaces(stack, Len(stack)) : Top.env = stack[i].env
    BY <2>2, <2>3, ScopeIs DEF IsScope
  <2>5. Top.env # Global
    BY <1>2, <2>4, GlobalIsNotMade
  <2> QED BY <1>2, <2>1, <2>2, <2>5, AssignKeeps
<1> QED BY <1>3, <1>4, TwoChangeEnvironments

(***************************************************************************)
(* What a plain node is made of, with the types I of nodes, for what L     *)
(* gives the global names.                                                 *)
(***************************************************************************)
AnyT(T) == T = NoType \/ T.kind = "any"
Fits(o, T) == o = Error \/ AnyT(T) \/ T.kind = o.kind

(* A builtin that gives a value of type T.                                 *)
Gives(b, T) ==
  b.kind = "builtin" /\ b.name # "assign" /\ (AnyT(T) \/ T.kind = builtinType[b.name].kind)

IsMade(n, I, P, L) ==
  /\ n \in Nodes
  /\ n.t \in Literals => I[n].kind = n.t
  /\ n.t = "Symbol" => I[n].kind = L[n.name].kind
  /\ n.t = "If" =>
       /\ \A i \in DOMAIN n.kids : n.kids[i] \in P
       /\ AnyT(I[n]) \/ (Len(n.kids) = 3 /\ I[n.kids[2]] = I[n] /\ I[n.kids[3]] = I[n])
  /\ n.t = "SpecialOp" => \A i \in DOMAIN n.kids : n.kids[i] \in P
  /\ n.t = "SpecialOp" /\ n.name \in {"+", "*"} =>
       \/ AnyT(I[n])
       \/ I[n].kind = "integer" /\ \A i \in DOMAIN n.kids : I[n.kids[i]].kind = "integer"
       \/ I[n].kind = "float64" /\ \E i \in DOMAIN n.kids : I[n.kids[i]].kind = "float64"
  /\ n.t = "SExp" =>
       /\ n.kids # << >> /\ n.kids[1].t = "Symbol" /\ n.kids[1].name \in Names
       /\ \A i \in DOMAIN n.kids : i # 1 => n.kids[i] \in P
       /\ Gives(L[n.kids[1].name], I[n])

Explains(I, P, L) == \A n \in P : IsMade(n, I, P, L)

TypeFor(L) ==
  [name \in Names |-> IF L[name].kind = "builtin" THEN builtinType[L[name].name] ELSE Type(L[name].kind)]

LEMMA BuiltinTypes ==
  \A name \in DOMAIN builtinType :
    /\ builtinType[name].kind \in {"type", "array", "any", "namespace", "boolean"}
    /\ inferSExp(<<builtinType[name]>>).kind = builtinType[name].kind
<1>1. \A T : inferSExp(<<T>>) = IF T = Type("array") THEN AnyArray ELSE T
  BY DEF inferSExp
<1>2. Type("array").kind = AnyArray.kind
  BY DEF Type, AnyArray
<1>3. \A T : inferSExp(<<T>>).kind = T.kind
  BY <1>1, <1>2
<1>4. \A name \in DOMAIN builtinType : builtinType[name].kind \in {"type", "array", "any", "namespace", "boolean"}
  BY DEF builtinType, Type, AnyArray, AnyType
<1> QED BY <1>3, <1>4

LEMMA Explained ==
  ASSUME NEW L, \A name \in Names : L[name].kind # "ast" /\ (L[name].kind = "builtin" => L[name] \in Builtins),
         NEW I, IsInferred(I, TypeFor(L)), I \in [Nodes -> TypesOf(TypeFor(L))],
         NEW P \in SUBSET Nodes,
         \A n \in Nodes : IsBuiltin(n) <=> n.t = "Symbol" /\ L[n.name].kind = "builtin",
         \A n \in Nodes : IsBuiltin(n) => LookUp(Global, n.name) = L[n.name],
         \A m \in P : plainNode(m, [n \in Nodes |-> n \in P])
  PROVE  Explains(I, P, L)
<1> SUFFICES ASSUME NEW n \in P PROVE IsMade(n, I, P, L)
  BY DEF Explains
<1>1. /\ n \in Nodes /\ n.kids \in Seq(Nodes) /\ DOMAIN n.kids = 1 .. Len(n.kids) /\ Len(n.kids) \in Nat
      /\ n.t \in NodeTypes
      /\ n.t = "If" => Len(n.kids) \in {2, 3}
      /\ n.t = "Symbol" => n.name \in Names
      /\ \A i \in DOMAIN n.kids : n.kids[i] \in Nodes
  BY NodesAssumption, LenProperties, ElementOfSeq
<1>2. plainNode(n, [m \in Nodes |-> m \in P])
  OBVIOUS
<1>3. (\A i \in DOMAIN n.kids : n.kids[i] \in P \/ (n.t = "SExp" /\ i = 1)) /\ ~IsBuiltin(n)
  BY <1>1, <1>2 DEF plainNode
<1>4. I[n] = inferNode(n, I, TypeFor(L))
  BY <1>1 DEF IsInferred
<1>5. \A b \in Builtins : b.kind = "builtin" /\ b.name \in DOMAIN builtinType /\ b = Builtin(b.name)
  BY DEF Builtins, Builtin, Obj
<1>6. ASSUME NEW m \in Nodes PROVE I[m].kind # "ast"
  <2>1. I[m] \in TypesOf(TypeFor(L))
    OBVIOUS
  <2>2. ASSUME NEW name \in Names PROVE TypeFor(L)[name].kind # "ast"
    BY <1>5, BuiltinTypes DEF TypeFor, Type
  <2>3. \A l \in Literals : Type(l).kind # "ast"
    BY DEF Literals, Type
  <2>4. NoType.kind # "ast" /\ AnyType.kind # "ast" /\ AnyArray.kind # "ast"
    BY DEF NoType, AnyType, AnyArray, Type
  <2> QED BY <2>1, <2>2, <2>3, <2>4 DEF TypesOf
<1>7. n.t \in Literals => I[n].kind = n.t
  BY <1>4 DEF inferNode, Type
<1>8. n.t = "Symbol" => I[n].kind = L[n.name].kind
  BY <1>1, <1>3, <1>4 DEF inferNode, Type, TypeFor, Literals
<1>9. n.t = "If" =>
        /\ \A i \in DOMAIN n.kids : n.kids[i] \in P
        /\ AnyT(I[n]) \/ (Len(n.kids) = 3 /\ I[n.kids[2]] = I[n] /\ I[n.kids[3]] = I[n])
  <2> SUFFICES ASSUME n.t = "If"
               PROVE  AnyT(I[n]) \/ (Len(n.kids) = 3 /\ I[n.kids[2]] = I[n] /\ I[n.kids[3]] = I[n])
    BY <1>3
  <2> DEFINE branches == [i \in 1 .. Len(n.kids) - 1 |-> I[n.kids[i + 1]]]
  <2>1. I[n] = inferIf(I[n.kids[1]], branches)
    BY <1>4 DEF inferNode, Literals
  <2>2. AnyType.kind = "any"
    BY DEF AnyType, Type
  <2>3. I[n] = NoType \/ I[n] = AnyType \/ (branches = <<branches[1], branches[1]>> /\ I[n] = branches[1])
    <3> HIDE DEF branches
    <3> QED BY <2>1 DEF inferIf
  <2>4. CASE branches = <<branches[1], branches[1]>> /\ I[n] = branches[1]
    <3>1. DOMAIN branches = 1 .. Len(n.kids) - 1
      OBVIOUS
    <3>2. branches[1] = I[n.kids[2]] /\ (Len(n.kids) = 3 => branches[2] = I[n.kids[3]])
      BY <1>1
    <3> HIDE DEF branches
    <3>3. DOMAIN branches = 1 .. 2 /\ branches[2] = branches[1]
      BY <2>4
    <3>4. Len(n.kids) = 3
      BY <1>1, <3>1, <3>3
    <3> QED BY <2>4, <3>2, <3>3, <3>4
  <2> QED BY <2>2, <2>3, <2>4 DEF AnyT
<1>10. n.t = "SpecialOp" /\ n.name \in {"+", "*"} =>
       \/ AnyT(I[n])
       \/ I[n].kind = "integer" /\ \A i \in DOMAIN n.kids : I[n.kids[i]].kind = "integer"
       \/ I[n].kind = "float64" /\ \E i \in DOMAIN n.kids : I[n.kids[i]].kind = "float64"
  <2> SUFFICES ASSUME n.t = "SpecialOp", n.name \in {"+", "*"}
               PROVE  \/ AnyT(I[n])
                      \/ I[n].kind = "integer" /\ \A i \in DOMAIN n.kids : I[n.kids[i]].kind = "integer"
                      \/ I[n].kind = "float64" /\ \E i \in DOMAIN n.kids : I[n.kids[i]].kind = "float64"
    OBVIOUS
  <2> DEFINE kids == [i \in DOMAIN n.kids |-> I[n.kids[i]]]
  <2>1. I[n] = inferArithmetic(kids)
    BY <1>4 DEF inferNode, Literals
  <2>2. DOMAIN kids = DOMAIN n.kids /\ \A i \in DOMAIN n.kids : kids[i] = I[n.kids[i]] /\ kids[i].kind # "ast"
    BY <1>1, <1>6
  <2> HIDE DEF kids
  <2>3. CASE \E i \in DOMAIN kids : kids[i].kind \notin {"integer", "float64", "ast"}
    BY <2>1, <2>3 DEF inferArithmetic, AnyT
  <2>4. CASE /\ ~\E i \in DOMAIN kids : kids[i].kind \notin {"integer", "float64", "ast"}
             /\ \E i \in DOMAIN kids : kids[i].kind # "integer"
    <3>1. I[n] = Type("float64")
      BY <2>1, <2>4 DEF inferArithmetic
    <3> QED BY <2>2, <2>4, <3>1 DEF Type
  <2>5. CASE /\ ~\E i \in DOMAIN kids : kids[i].kind \notin {"integer", "float64", "ast"}
             /\ ~\E i \in DOMAIN kids : kids[i].kind # "integer"
    <3>1. I[n] = Type("integer")
      BY <2>1, <2>5 DEF inferArithmetic
    <3> QED BY <2>2, <2>5, <3>1 DEF Type
  <2> QED BY <2>3, <2>4, <2>5
<1>11. n.t = "SExp" =>
       /\ n.kids # << >> /\ n.kids[1].t = "Symbol" /\ n.kids[1].name \in Names
       /\ \A i \in DOMAIN n.kids : i # 1 => n.kids[i] \in P
       /\ Gives(L[n.kids[1].name], I[n])
  <2> SUFFICES ASSUME n.t = "SExp"
               PROVE  /\ n.kids # << >> /\ n.kids[1].t = "Symbol" /\ n.kids[1].name \in Names
                      /\ Gives(L[n.kids[1].name], I[n])
    BY <1>3
  <2> DEFINE m == n.kids[1]
             b == L[m.name]
  <2>1. n.kids # << >> /\ IsBuiltin(m) /\ LookUp(Global, m.name) # Builtin("assign")
    BY <1>2 DEF plainNode
  <2>2. m \in Nodes
    BY <1>1, <2>1, EmptySeq
  <2>3. m.t = "Symbol" /\ m.name \in Names /\ b.kind = "builtin" /\ b # Builtin("assign")
    BY <2>1, <2>2, NodesAssumption
  <2>4. b \in Builtins
    BY <2>3
  <2>5. b.name \in DOMAIN builtinType /\ b.name # "assign"
    BY <1>5, <2>3, <2>4
  <2>6. I[m] = builtinType[b.name]
    <3>1. I[m] = inferNode(m, I, TypeFor(L))
      BY <2>2 DEF IsInferred
    <3> HIDE DEF m
    <3>2. I[m] = TypeFor(L)[m.name]
      BY <2>3, <3>1 DEF inferNode, Literals
    <3> QED BY <2>3, <3>2 DEF TypeFor
  <2>7. I[n] = inferSExp(<<I[m]>>)
    BY <1>4, <2>1 DEF inferNode, Literals
  <2> HIDE DEF m
  <2>8. I[n].kind = builtinType[b.name].kind
    BY <2>5, <2>6, <2>7, BuiltinTypes
  <2> QED BY <2>1, <2>3, <2>5, <2>8 DEF Gives, m
<1> QED BY <1>1, <1>3, <1>7, <1>8, <1>9, <1>10, <1>11 DEF IsMade

(***************************************************************************)
(* What is asked of an evaluation that is waited for: a value of a type,   *)
(* or, of the head of an S-expression, a builtin that gives such a value.  *)
(***************************************************************************)
Ask(T) == [type |-> T, head |-> FALSE]
AskHead(T) == [type |-> T, head |-> TRUE]

(* It is so for what is evaluated, and for what was returned.              *)
Meets(called, n, o, A, I, P, L) ==
  /\ called = "eval" => IF A.head THEN n.t = "Symbol" /\ n.name \in Names /\ Gives(L[n.name], A.type)
                        ELSE n \in P /\ (AnyT(A.type) \/ I[n] = A.type)
  /\ called = "return" => IF A.head THEN Gives(o, A.type) ELSE Fits(o, A.type)

(* A sum or a product of objects, of what A asks for and of arguments.     *)
Sums(args, objs, T, A, I) ==
  \/ AnyT(T)
  \/ /\ T.kind = "integer" /\ ~A.head /\ A.type.kind = "integer"
     /\ \A i \in DOMAIN args : I[args[i]].kind = "integer"
     /\ \A i \in DOMAIN objs : objs[i].kind = "integer"
  \/ /\ T.kind = "float64"
     /\ \/ ~A.head /\ A.type.kind = "float64"
        \/ \E i \in DOMAIN args : I[args[i]].kind = "float64"
        \/ \E i \in DOMAIN objs : objs[i].kind = "float64"

(* A frame of which a value of type T is asked, and that asks for A.       *)
Waits(f, T, A, I, P) ==
  /\ f.call # "assign"
  /\ f.call # "namespace" => \A i \in DOMAIN f.args : f.args[i] \in P
  /\ f.call \in {"array", "namespace"} => AnyT(T) \/ T.kind = f.call
  /\ f.call = ">" => AnyT(T) \/ T.kind = "boolean"
  /\ f.call = "index" => AnyT(T)
  /\ f.call = "if" => AnyT(T) \/ (Len(f.args) = 2 /\ I[f.args[1]] = T /\ I[f.args[2]] = T)
  /\ f.call \in {"+", "*"} => Sums(f.args, f.objs, T, A, I)
  /\ f.call = "apply" => A = AskHead(T) \/ (AnyT(T) /\ Len(f.args) = 1)

(* D is what is asked of the frames, and of what they wait for.  Inside a  *)
(* namespace nothing is: that gives a namespace, or an error.              *)
Waiting(frames, D, I, P) ==
  \A k \in 1 .. Len(frames) :
    Namespaces(frames, k - 1) = {} => ~D[k].head /\ Waits(frames[k], D[k].type, D[k + 1], I, P)

Sound(I, P, L, D) ==
  /\ \A name \in Names : L[name] = InGlobal(name)
  /\ Explains(I, P, L)
  /\ D[1] = Ask(guess.type)
  /\ Waiting(stack, D, I, P)
  /\ Namespaces(stack, Len(stack)) = {} => Meets(mode, node, obj, D[Len(stack) + 1], I, P, L)

SoundHolds == guess.plain /\ mode \in {"eval", "return"} => \E I, P, L, D : Sound(I, P, L, D)

(* The first m frames stay, and one more comes or none.                    *)
GoOn(others, frames, m) ==
  /\ m \in Nat /\ Len(frames) \in Nat /\ m <= Len(frames) /\ Len(others) \in {m, m + 1}
  /\ \A i \in 1 .. m : others[i] = frames[i]

AsksNext(others, m, D, A, I, P) ==
  Len(others) = m + 1 /\ Namespaces(others, m) = {}
    => ~D[m + 1].head /\ Waits(others[m + 1], D[m + 1].type, A, I, P)

LEMMA WaitingNext ==
  ASSUME NEW frames, NEW others, NEW m, GoOn(others, frames, m),
         NEW D, NEW I, NEW P, Waiting(frames, D, I, P), NEW A, AsksNext(others, m, D, A, I, P)
  PROVE  \E U : (\A k \in 1 .. m + 1 : U[k] = D[k]) /\ U[m + 2] = A /\ Waiting(others, U, I, P)
<1> USE DEF GoOn
<1> DEFINE U == [k \in 1 .. m + 2 |-> IF k = m + 2 THEN A ELSE D[k]]
<1>1. (\A k \in 1 .. m + 1 : U[k] = D[k]) /\ U[m + 2] = A
  OBVIOUS
<1> HIDE DEF U
<1>2. ASSUME NEW k \in 1 .. Len(others), Namespaces(others, k - 1) = {}
      PROVE  ~U[k].head /\ Waits(others[k], U[k].type, U[k + 1], I, P)
  <2>1. k \in 1 .. m + 1 /\ \A i \in 1 .. k - 1 : others[i] = frames[i]
    OBVIOUS
  <2>2. Namespaces(frames, k - 1) = {}
    BY <1>2, <2>1 DEF Namespaces
  <2>3. CASE k = m + 1
    <3>1. (k - 1 = m) /\ (k + 1 = m + 2) /\ Len(others) = m + 1
      BY <2>3
    <3> QED BY <1>1, <1>2, <2>3, <3>1 DEF AsksNext
  <2>4. CASE k # m + 1
    <3>1. k \in 1 .. m /\ k \in 1 .. Len(frames) /\ k + 1 \in 1 .. m + 1
      BY <2>1, <2>4
    <3> QED BY <1>1, <2>2, <3>1 DEF Waiting
  <2> QED BY <2>3, <2>4
<1> QED BY <1>1, <1>2 DEF Waiting

LEMMA SoundGoesOn ==
  ASSUME NEW I, NEW P, NEW L, NEW D, Sound(I, P, L, D), UNCHANGED guess, envs'[Global] = envs[Global],
         NEW m, GoOn(stack', stack, m), NEW A, AsksNext(stack', m, D, A, I, P),
         Namespaces(stack', Len(stack')) = {} =>
           Meets(mode', node', obj', IF Len(stack') = m THEN D[m + 1] ELSE A, I, P, L)
  PROVE  SoundHolds'
<1>1. Waiting(stack, D, I, P) /\ D[1] = Ask(guess.type) /\ Explains(I, P, L)
  BY DEF Sound
<1>2. PICK U : (\A k \in 1 .. m + 1 : U[k] = D[k]) /\ U[m + 2] = A /\ Waiting(stack', U, I, P)
  BY <1>1, WaitingNext
<1>3. Namespaces(stack', Len(stack')) = {} => Meets(mode', node', obj', U[Len(stack') + 1], I, P, L)
  <2>1. m + 1 \in 1 .. m + 1 /\ (m + 1) + 1 = m + 2 /\ Len(stack') \in {m, m + 1} /\ m # m + 1
    BY DEF GoOn
  <2>2. U[Len(stack') + 1] = IF Len(stack') = m THEN D[m + 1] ELSE A
    BY <1>2, <2>1
  <2> QED BY <2>2
<1>4. \A name \in Names : L[name] = InGlobal(name)'
  BY DEF Sound, InGlobal
<1>5. U[1] = Ask(guess.type)'
  <2>1. U[1] = D[1]
    BY <1>2 DEF GoOn
  <2>2. Ask(guess.type)' = Ask(guess.type)
    BY DEF Ask
  <2> QED BY <1>1, <2>1, <2>2
<1>6. Sound(I, P, L, U)'
  BY <1>1, <1>2, <1>3, <1>4, <1>5 DEF Sound
<1> QED BY <1>6 DEF SoundHolds

LEMMA FitsNumber ==
  ASSUME NEW o, NEW T, Fits(o, T), o.kind \in {"integer", "float64"}, T.kind \in {"integer", "float64"}
  PROVE  o.kind = T.kind
<1>1. Error.kind = "error"
  BY DEF Error, Obj
<1>2. NoType.kind = "!"
  BY DEF NoType, Type
<1> QED BY <1>1, <1>2 DEF Fits, AnyT

LEMMA SumsNext ==
  ASSUME NEW args \in Seq(Nodes), NEW V, NEW objs \in Seq(V), NEW T, NEW A, NEW I, Sums(args, objs, T, A, I),
         NEW o, ~A.head => Fits(o, A.type), o.kind \in {"integer", "float64"}
  PROVE  /\ args # << >> => Sums(Tail(args), Append(objs, o), T, Ask(I[args[1]]), I)
         /\ args = << >> => AnyT(T) \/ T.kind = (IF HasFloats(Append(objs, o)) THEN "float64" ELSE "integer")
<1> DEFINE all == Append(objs, o)
<1>1. /\ DOMAIN all = 1 .. Len(objs) + 1 /\ Len(objs) \in Nat /\ DOMAIN objs = 1 .. Len(objs)
      /\ all[Len(objs) + 1] = o /\ \A i \in 1 .. Len(objs) : all[i] = objs[i]
  BY AddLast, SeqDomain DEF IsSeq
<1>2. /\ DOMAIN args = 1 .. Len(args) /\ Len(args) \in Nat
      /\ args = << >> => DOMAIN args = {}
      /\ args # << >> =>
           /\ Len(args) # 0 /\ 1 \in DOMAIN args /\ DOMAIN Tail(args) = 1 .. Len(args) - 1
           /\ \A i \in 1 .. Len(args) - 1 : Tail(args)[i] = args[i + 1]
  BY LenProperties, EmptySeq, HeadTailProperties
<1>3. Ask(I[args[1]]).type = I[args[1]] /\ ~Ask(I[args[1]]).head
  BY DEF Ask
<1> HIDE DEF all
<1>4. CASE AnyT(T)
  BY <1>4 DEF Sums
<1>5. CASE /\ T.kind = "integer" /\ ~A.head /\ A.type.kind = "integer"
           /\ \A i \in DOMAIN args : I[args[i]].kind = "integer"
           /\ \A i \in DOMAIN objs : objs[i].kind = "integer"
  <2>1. o.kind = "integer"
    BY <1>5, FitsNumber
  <2>2. \A i \in DOMAIN all : all[i].kind = "integer"
    <3>1. \A i \in 1 .. Len(objs) + 1 : i = Len(objs) + 1 \/ i \in 1 .. Len(objs)
      BY <1>1
    <3> QED BY <1>1, <1>5, <2>1, <3>1
  <2>3. ~HasFloats(all)
    BY <2>2 DEF HasFloats
  <2>4. ASSUME args # << >> PROVE \A i \in DOMAIN Tail(args) : I[Tail(args)[i]].kind = "integer"
    <3>1. \A i \in 1 .. Len(args) - 1 : i + 1 \in DOMAIN args
      BY <1>2
    <3> QED BY <1>2, <1>5, <2>4, <3>1
  <2>5. args # << >> => Sums(Tail(args), all, T, Ask(I[args[1]]), I)
    BY <1>2, <1>3, <1>5, <2>2, <2>4 DEF Sums
  <2> QED BY <1>5, <2>3, <2>5 DEF all
<1>6. CASE /\ T.kind = "float64"
           /\ \/ ~A.head /\ A.type.kind = "float64"
              \/ \E i \in DOMAIN args : I[args[i]].kind = "float64"
              \/ \E i \in DOMAIN objs : objs[i].kind = "float64"
  <2>1. ~A.head /\ A.type.kind = "float64" => o.kind = "float64"
    BY FitsNumber
  <2>2. HasFloats(all) \/ \E i \in DOMAIN args : I[args[i]].kind = "float64"
    <3>1. \A i \in 1 .. Len(objs) : i \in DOMAIN all
      BY <1>1
    <3>2. Len(objs) + 1 \in DOMAIN all
      BY <1>1
    <3> QED BY <1>1, <1>6, <2>1, <3>1, <3>2 DEF HasFloats
  <2>3. args = << >> => HasFloats(all)
    BY <1>2, <2>2
  <2>4. args # << >> => Sums(Tail(args), all, T, Ask(I[args[1]]), I)
    <3>1. CASE HasFloats(all)
      BY <1>6, <3>1 DEF HasFloats, Sums
    <3>2. ASSUME NEW i \in DOMAIN args, I[args[i]].kind = "float64", args # << >>
          PROVE  Sums(Tail(args), all, T, Ask(I[args[1]]), I)
      <4>1. CASE i = 1
        BY <1>3, <1>6, <3>2, <4>1 DEF Sums
      <4>2. CASE i # 1
        <5>1. i - 1 \in 1 .. Len(args) - 1 /\ (i - 1) + 1 = i
          BY <1>2, <4>2
        <5>2. i - 1 \in DOMAIN Tail(args) /\ Tail(args)[i - 1] = args[i]
          BY <1>2, <3>2, <5>1
        <5> QED BY <1>6, <3>2, <5>2 DEF Sums
      <4> QED BY <4>1, <4>2
    <3> QED BY <2>2, <3>1, <3>2
  <2> QED BY <1>6, <2>3, <2>4 DEF all
<1> QED BY <1>4, <1>5, <1>6 DEF Sums

Works ==
  \/ EvalLiteral \/ EvalSymbol \/ EvalOther \/ evalIf \/ evalSpecialOp \/ EvalSExp
  \/ builtinTypeOf \/ assign \/ createNamespace \/ builtinApply \/ gt \/ array
  \/ ApplyNamespace \/ ApplyArray \/ ApplyOther
  \/ AssignValue \/ Index \/ IfBranch \/ NextArgument

LEMMA SameNamespaces ==
  ASSUME NEW others, NEW frames, NEW m \in Nat, \A i \in 1 .. m : others[i] = frames[i]
  PROVE  Namespaces(others, m) = Namespaces(frames, m)
  BY DEF Namespaces

LEMMA OneMore ==
  ASSUME NEW frames, NEW m \in Nat
  PROVE  Namespaces(frames, m + 1) = {} <=> Namespaces(frames, m) = {} /\ frames[m + 1].call # "namespace"
<1>1. 1 .. m \subseteq 1 .. m + 1 /\ m + 1 \in 1 .. m + 1 /\ \A i \in 1 .. m + 1 : i = m + 1 \/ i \in 1 .. m
  OBVIOUS
<1> QED BY <1>1 DEF Namespaces

LEMMA ArgsIn ==
  ASSUME NEW args \in Seq(Nodes), args # << >>, NEW P, \A i \in DOMAIN args : args[i] \in P
  PROVE  /\ args[1] \in P /\ Head(args) = args[1] /\ Len(Tail(args)) = Len(args) - 1
         /\ \A i \in DOMAIN Tail(args) : Tail(args)[i] \in P
<1>1. Len(args) \in Nat \ {0} /\ DOMAIN args = 1 .. Len(args) /\ Head(args) = args[1]
      /\ Len(Tail(args)) = Len(args) - 1 /\ DOMAIN Tail(args) = 1 .. Len(args) - 1
      /\ \A i \in 1 .. Len(args) - 1 : Tail(args)[i] = args[i + 1]
  BY LenProperties, EmptySeq, HeadTailProperties
<1>2. 1 \in DOMAIN args /\ \A i \in 1 .. Len(args) - 1 : i + 1 \in DOMAIN args
  BY <1>1
<1> QED BY <1>1, <1>2

LEMMA SumsBegin ==
  ASSUME NEW kids \in Seq(Nodes), kids # << >>, NEW I, NEW T, NEW S, AnyT(T) \/ S = T,
         \/ AnyT(S)
         \/ S.kind = "integer" /\ \A i \in DOMAIN kids : I[kids[i]].kind = "integer"
         \/ S.kind = "float64" /\ \E i \in DOMAIN kids : I[kids[i]].kind = "float64"
  PROVE  Sums(Tail(kids), << >>, T, Ask(I[kids[1]]), I)
<1>1. Len(kids) \in Nat \ {0} /\ DOMAIN kids = 1 .. Len(kids)
      /\ DOMAIN Tail(kids) = 1 .. Len(kids) - 1
      /\ \A i \in 1 .. Len(kids) - 1 : Tail(kids)[i] = kids[i + 1]
  BY LenProperties, EmptySeq, HeadTailProperties
<1>2. Ask(I[kids[1]]).type = I[kids[1]] /\ ~Ask(I[kids[1]]).head
  BY DEF Ask
<1>3. CASE AnyT(T)
  BY <1>3 DEF Sums
<1>4. CASE T.kind = "integer" /\ \A i \in DOMAIN kids : I[kids[i]].kind = "integer"
  <2>1. 1 \in DOMAIN kids /\ \A i \in 1 .. Len(kids) - 1 : i + 1 \in DOMAIN kids
    BY <1>1
  <2>2. \A i \in DOMAIN Tail(kids) : I[Tail(kids)[i]].kind = "integer"
    BY <1>1, <1>4, <2>1
  <2>3. DOMAIN (<< >>) = {}
    OBVIOUS
  <2> QED BY <1>2, <1>4, <2>1, <2>2, <2>3 DEF Sums
<1>5. ASSUME T.kind = "float64", NEW i \in DOMAIN kids, I[kids[i]].kind = "float64"
      PROVE  Sums(Tail(kids), << >>, T, Ask(I[kids[1]]), I)
  <2>1. CASE i = 1
    BY <1>2, <1>5, <2>1 DEF Sums
  <2>2. CASE i # 1
    <3>1. i - 1 \in 1 .. Len(kids) - 1 /\ (i - 1) + 1 = i
      BY <1>1, <2>2
    <3>2. i - 1 \in DOMAIN Tail(kids) /\ Tail(kids)[i - 1] = kids[i]
      BY <1>1, <3>1
    <3> QED BY <1>5, <3>2 DEF Sums
  <2> QED BY <2>1, <2>2
<1> QED BY <1>3, <1>4, <1>5

LEMMA SoundWorks ==
  ASSUME NestedScopes, ValuesHold, NEW I, NEW P, NEW L, NEW D, Sound(I, P, L, D), Next, Works
  PROVE  SoundHolds'
<1> USE DEF Call, Return, Push, Pop, Replace
<1>1. PICK n : n = Len(stack)
  OBVIOUS
<1>2. PICK V, F : ValuesIn(V, F)
  BY DEF ValuesHold
<1>3. /\ IsSeq(stack) /\ EnvsAre /\ n \in Nat /\ EnvsHold(envs, V) /\ Null \in V
      /\ stack # << >> => n # 0 /\ n - 1 \in Nat /\ Top = stack[n]
      /\ mode = "eval" => node \in Nodes
      /\ obj \in V
  BY <1>1, <1>2, SeqDomain, NotEmpty DEF NestedScopes, ValuesIn, AreValues, Top
<1>4. /\ Explains(I, P, L) /\ Waiting(stack, D, I, P) /\ (\A name \in Names : L[name] = InGlobal(name))
      /\ Namespaces(stack, n) = {} => Meets(mode, node, obj, D[n + 1], I, P, L)
  BY <1>1 DEF Sound
<1>5. UNCHANGED guess
  BY DEF Works, EvalLiteral, EvalSymbol, EvalOther, evalIf, evalSpecialOp, EvalSExp, Evaluates, builtinTypeOf, assign,
         createNamespace, builtinApply, gt, array, CallsBuiltin, Applies, ApplyNamespace, ApplyArray, ApplyOther,
         AssignValue, Index, IfBranch, NextArgument, ReturnsTo
(* What is known of the last frame.                                        *)
<1>6. ASSUME stack # << >>, Namespaces(stack, n - 1) = {}
      PROVE  /\ ~D[n].head /\ Waits(Top, D[n].type, D[n + 1], I, P)
             /\ Top.call # "namespace" /\ mode = "return" =>
                  IF D[n + 1].head THEN Gives(obj, D[n + 1].type) ELSE Fits(obj, D[n + 1].type)
  <2>1. n \in 1 .. Len(stack) /\ n - 1 \in Nat /\ (n - 1) + 1 = n
    BY <1>1, <1>3, <1>6
  <2>2. ~D[n].head /\ Waits(Top, D[n].type, D[n + 1], I, P)
    BY <1>3, <1>4, <1>6, <2>1 DEF Waiting
  <2>3. Top.call # "namespace" => Namespaces(stack, n) = {}
    BY <1>3, <1>6, <2>1, OneMore
  <2> QED BY <1>4, <2>2, <2>3 DEF Meets
<1>7. envs'[Global] = envs[Global]
  <2>1. ASSUME AssignValue PROVE Top.call = "namespace" \/ Namespaces(stack, Len(stack)) # {}
    <3>1. stack # << >> /\ Top.call \in {"assign", "namespace"}
      BY <2>1 DEF AssignValue
    <3>2. Namespaces(stack, n - 1) = {} => Top.call = "namespace"
      BY <1>6, <3>1 DEF Waits
    <3>3. Namespaces(stack, n) = {} => Namespaces(stack, n - 1) = {}
      <4>1. n - 1 \in Nat /\ (n - 1) + 1 = n
        BY <1>3, <3>1
      <4> QED BY <4>1, OneMore
    <3> QED BY <1>1, <3>2, <3>3
  <2> QED BY <2>1, GlobalStands
(* The ways a step goes on.                                                *)
<1>8. ASSUME UNCHANGED stack, Namespaces(stack, n) = {} => Meets(mode', node', obj', D[n + 1], I, P, L)
      PROVE  SoundHolds'
  <2>1. GoOn(stack', stack, n) /\ AsksNext(stack', n, D, Ask(NoType), I, P)
    BY <1>1, <1>3, <1>8 DEF GoOn, AsksNext
  <2>2. Len(stack') = n
    BY <1>1, <1>8
  <2>3. PICK A : A = Ask(NoType)
    OBVIOUS
  <2> QED BY <1>5, <1>7, <1>8, <2>1, <2>2, <2>3, SoundGoesOn
<1>9. ASSUME stack # << >>, stack' = Front(stack),
             Namespaces(stack, n - 1) = {} => Meets(mode', node', obj', D[n], I, P, L)
      PROVE  SoundHolds'
  <2>1. PICK A, m : A = Ask(NoType) /\ m = n - 1
    OBVIOUS
  <2>2. m \in Nat /\ m + 1 = n /\ Len(stack') = m /\ \A i \in 1 .. m : stack'[i] = stack[i]
    BY <1>1, <1>3, <1>9, <2>1, DropLast
  <2>3. GoOn(stack', stack, m) /\ AsksNext(stack', m, D, A, I, P)
    BY <1>1, <1>3, <2>2 DEF GoOn, AsksNext
  <2>4. Namespaces(stack', Len(stack')) = {} => Namespaces(stack, n - 1) = {}
    BY <2>1, <2>2, SameNamespaces
  <2> QED BY <1>5, <1>7, <1>9, <2>2, <2>3, <2>4, SoundGoesOn
<1>10. ASSUME NEW f, f.call # "namespace", stack' = Append(stack, f), mode' = "eval", NEW A,
              Namespaces(stack, n) = {} =>
                /\ ~D[n + 1].head /\ Waits(f, D[n + 1].type, A, I, P)
                /\ Meets("eval", node', obj', A, I, P, L)
       PROVE  SoundHolds'
  <2>1. Len(stack') = n + 1 /\ stack'[n + 1] = f /\ \A i \in 1 .. n : stack'[i] = stack[i]
    BY <1>1, <1>3, <1>10, AddLast
  <2>2. Namespaces(stack', n) = Namespaces(stack, n) /\ (Namespaces(stack', n + 1) = {} => Namespaces(stack', n) = {})
    <3>1. Namespaces(stack', n) = Namespaces(stack, n)
      BY <1>3, <2>1, SameNamespaces
    <3>2. Namespaces(stack', n + 1) = {} <=> Namespaces(stack', n) = {} /\ stack'[n + 1].call # "namespace"
      BY <1>3, OneMore
    <3> QED BY <3>1, <3>2
  <2>3. GoOn(stack', stack, n) /\ AsksNext(stack', n, D, A, I, P)
    BY <1>1, <1>3, <1>10, <2>1, <2>2 DEF GoOn, AsksNext
  <2>4. Namespaces(stack', Len(stack')) = {} => Meets(mode', node', obj', A, I, P, L)
    BY <1>10, <2>1, <2>2
  <2>5. Len(stack') # n
    BY <1>3, <2>1
  <2> QED BY <1>5, <1>7, <2>3, <2>4, <2>5, SoundGoesOn
<1>11. ASSUME NEW f, stack # << >>, IsChanged(stack', stack, f), mode' = "eval",
              Namespaces(stack, n - 1) = {} =>
                /\ Waits(f, D[n].type, Ask(I[node']), I, P)
                /\ f.call # "namespace" => node' \in P
       PROVE  SoundHolds'
  <2>1. PICK A, m : A = Ask(I[node']) /\ m = n - 1
    OBVIOUS
  <2>2. m \in Nat /\ m + 1 = n /\ Len(stack') = m + 1 /\ stack'[m + 1] = f /\ \A i \in 1 .. m : stack'[i] = stack[i]
    <3> DEFINE new == stack'
    <3>1. IsChanged(new, stack, f)
      BY <1>11
    <3> HIDE DEF new
    <3>2. Len(new) = n /\ new[n] = f /\ \A i \in 1 .. n - 1 : new[i] = stack[i]
      BY <1>1, <1>3, <1>11, <3>1, ChangeLast
    <3>3. m \in Nat /\ m + 1 = n
      BY <1>3, <1>11, <2>1
    <3> QED BY <2>1, <3>2, <3>3 DEF new
  <2>3. /\ Namespaces(stack', m) = Namespaces(stack, n - 1)
        /\ Namespaces(stack', m + 1) = {} => Namespaces(stack', m) = {} /\ f.call # "namespace"
    <3>1. Namespaces(stack', m) = Namespaces(stack, m)
      BY <2>2, SameNamespaces
    <3>2. Namespaces(stack', m + 1) = {} <=> Namespaces(stack', m) = {} /\ stack'[m + 1].call # "namespace"
      BY <2>2, OneMore
    <3> QED BY <2>1, <2>2, <3>1, <3>2
  <2>4. GoOn(stack', stack, m) /\ AsksNext(stack', m, D, A, I, P)
    BY <1>1, <1>3, <1>6, <1>11, <2>1, <2>2, <2>3 DEF GoOn, AsksNext
  <2>5. Namespaces(stack', Len(stack')) = {} => Meets(mode', node', obj', A, I, P, L)
    BY <1>11, <2>1, <2>2, <2>3 DEF Meets, Ask
  <2>6. Len(stack') # m
    BY <2>2
  <2> QED BY <1>5, <1>7, <2>4, <2>5, <2>6, SoundGoesOn
(* A value, or an error, comes back from the last frame.                   *)
<1>12. ASSUME stack # << >>, stack' = Front(stack), mode' = "return",
              Namespaces(stack, n - 1) = {} => Fits(obj', D[n].type)
       PROVE  SoundHolds'
  BY <1>6, <1>9, <1>12 DEF Meets
<1>13. \A call, e, args, objs : /\ Frame(call, e, args, objs).call = call /\ Frame(call, e, args, objs).env = e
                                /\ Frame(call, e, args, objs).args = args /\ Frame(call, e, args, objs).objs = objs
  BY DEF Frame
<1>14. ASSUME stack # << >> PROVE IsFrame(Top, V) /\ Args \in Seq(Nodes)
  <2>1. IsFrame(Top, V)
    BY <1>2, <1>3, <1>14, NotEmpty DEF ValuesIn, Top
  <2> QED BY <2>1 DEF IsFrame, Args
<1>15. ASSUME mode = "eval", node.t # "Symbol", Namespaces(stack, n) = {}
       PROVE  /\ ~D[n + 1].head /\ IsMade(node, I, P, L)
              /\ AnyT(D[n + 1].type) \/ I[node] = D[n + 1].type
  BY <1>4, <1>15 DEF Meets, Explains
(* Eval.                                                                   *)
<1>16. CASE EvalLiteral
  <2>1. PICK type \in Literals : Evaluates(type) /\ Return(Primitive(type, node.num)) /\ UNCHANGED stack
    BY <1>16 DEF EvalLiteral
  <2>2. /\ mode = "eval" /\ node.t = type /\ node.t # "Symbol" /\ UNCHANGED stack
        /\ mode' = "return" /\ obj'.kind = node.t
    BY <2>1 DEF Evaluates, Primitive, Obj, Literals
  <2>3. ASSUME Namespaces(stack, n) = {} PROVE ~D[n + 1].head /\ Fits(obj', D[n + 1].type)
    BY <1>15, <2>1, <2>2, <2>3 DEF IsMade, Fits
  <2> QED BY <1>8, <2>2, <2>3 DEF Meets
<1>17. CASE EvalSymbol
  <2>1. /\ mode = "eval" /\ node.t = "Symbol" /\ UNCHANGED stack
        /\ mode' = "return" /\ obj' = LookUp(env, node.name)
    BY <1>17 DEF EvalSymbol, Evaluates
  <2>2. node \in Nodes /\ node.name \in Names
    BY <1>3, <2>1, NodesAssumption
  <2>3. ASSUME Namespaces(stack, n) = {} PROVE obj' = L[node.name]
    <3>1. env = Global
      BY <1>1, <2>1, <2>3 DEF NestedScopes, ScopeIn
    <3> QED BY <1>3, <1>4, <2>1, <2>2, <3>1, LookUpInGlobal
  <2>4. ASSUME Namespaces(stack, n) = {} PROVE Meets("return", node', obj', D[n + 1], I, P, L)
    <3>1. Meets("eval", node, obj, D[n + 1], I, P, L)
      BY <1>4, <2>1, <2>4
    <3>2. CASE D[n + 1].head
      BY <2>3, <2>4, <3>1, <3>2 DEF Meets
    <3>3. CASE ~D[n + 1].head
      BY <1>4, <2>1, <2>3, <2>4, <3>1, <3>3 DEF Meets, Explains, IsMade, Fits
    <3> QED BY <3>2, <3>3
  <2> QED BY <1>8, <2>1, <2>4
<1>18. CASE EvalOther
  <2>1. mode = "eval" /\ node.t # "Symbol" /\ UNCHANGED stack /\ mode' = "return" /\ obj' = Error
    BY <1>18 DEF EvalOther, Evaluates
  <2> QED BY <1>8, <1>15, <2>1 DEF Meets, Fits
<1>19. CASE evalIf
  <2> DEFINE kids == node.kids
             f == Frame("if", env, Tail(kids), << >>)
  <2>1. /\ mode = "eval" /\ node.t = "If" /\ node.t # "Symbol" /\ mode' = "eval"
        /\ stack' = Append(stack, f) /\ node' = Head(kids)
    BY <1>19 DEF evalIf, Evaluates
  <2>2. kids \in Seq(Nodes) /\ Len(kids) \in {2, 3} /\ kids # << >>
    <3>1. kids \in Seq(Nodes) /\ Len(kids) \in {2, 3}
      BY <1>3, <2>1, NodesAssumption
    <3>2. 2 # 0 /\ 3 # 0
      OBVIOUS
    <3> HIDE DEF kids
    <3> QED BY <3>1, <3>2, EmptySeq
  <2>3. PICK A : A = Ask(I[Head(kids)])
    OBVIOUS
  <2>4. f.call = "if" /\ f.args = Tail(kids)
    BY <1>13
  <2>5. ASSUME Namespaces(stack, n) = {}
        PROVE  /\ ~D[n + 1].head /\ Waits(f, D[n + 1].type, A, I, P)
               /\ Meets("eval", node', obj', A, I, P, L)
    <3>1. /\ ~D[n + 1].head /\ (AnyT(D[n + 1].type) \/ I[node] = D[n + 1].type)
          /\ \A i \in DOMAIN kids : kids[i] \in P
          /\ AnyT(I[node]) \/ (Len(kids) = 3 /\ I[kids[2]] = I[node] /\ I[kids[3]] = I[node])
      BY <1>15, <2>1, <2>5 DEF IsMade
    <3> HIDE DEF kids, f
    <3>2. /\ kids[1] \in P /\ Head(kids) = kids[1] /\ Len(Tail(kids)) = Len(kids) - 1
          /\ \A i \in DOMAIN Tail(kids) : Tail(kids)[i] \in P
      BY <2>2, <3>1, ArgsIn
    <3>3. Len(kids) = 3 => Tail(kids)[1] = kids[2] /\ Tail(kids)[2] = kids[3] /\ Len(Tail(kids)) = 2
      <4>1. /\ Len(Tail(kids)) = Len(kids) - 1
            /\ \A i \in 1 .. Len(kids) - 1 : Tail(kids)[i] = kids[i + 1]
        BY <2>2, HeadTailProperties
      <4>2. Len(kids) = 3 => 1 \in 1 .. Len(kids) - 1 /\ 2 \in 1 .. Len(kids) - 1
        OBVIOUS
      <4> QED BY <4>1, <4>2
    <3>4. Waits(f, D[n + 1].type, A, I, P)
      BY <2>4, <3>1, <3>2, <3>3 DEF Waits
    <3>5. Meets("eval", node', obj', A, I, P, L)
      BY <2>1, <2>3, <3>2 DEF Meets, Ask
    <3> QED BY <3>1, <3>4, <3>5
  <2> HIDE DEF f, kids
  <2>6. f.call # "namespace"
    BY <2>4
  <2> QED BY <1>10, <2>1, <2>5, <2>6
<1>20. CASE evalSpecialOp
  <2> DEFINE kids == node.kids
             f == Frame(node.name, env, Tail(kids), << >>)
  <2>1. mode = "eval" /\ node.t = "SpecialOp" /\ node.t # "Symbol"
    BY <1>20 DEF evalSpecialOp, Evaluates
  <2>2. CASE node.name \notin {"+", "*"}
    <3>1. UNCHANGED stack /\ mode' = "return" /\ obj' = Error
      BY <1>20, <2>2 DEF evalSpecialOp
    <3> QED BY <1>8, <1>15, <2>1, <3>1 DEF Meets, Fits
  <2>3. CASE node.name \in {"+", "*"}
    <3>1. stack' = Append(stack, f) /\ node' = Head(kids) /\ mode' = "eval"
      BY <1>20, <2>3 DEF evalSpecialOp
    <3>2. kids \in Seq(Nodes) /\ kids # << >>
      <4>1. kids \in Seq(Nodes) /\ Len(kids) >= 1
        BY <1>3, <2>1, NodesAssumption
      <4> QED BY <4>1, EmptySeq
    <3>3. PICK A : A = Ask(I[kids[1]])
      OBVIOUS
    <3>4. f.call = node.name /\ f.args = Tail(kids) /\ f.objs = << >>
      BY <1>13
    <3>5. ASSUME Namespaces(stack, n) = {}
          PROVE  /\ ~D[n + 1].head /\ Waits(f, D[n + 1].type, A, I, P)
                 /\ Meets("eval", node', obj', A, I, P, L)
      <4>1. /\ ~D[n + 1].head /\ (AnyT(D[n + 1].type) \/ I[node] = D[n + 1].type)
            /\ \A i \in DOMAIN kids : kids[i] \in P
            /\ \/ AnyT(I[node])
               \/ I[node].kind = "integer" /\ \A i \in DOMAIN kids : I[kids[i]].kind = "integer"
               \/ I[node].kind = "float64" /\ \E i \in DOMAIN kids : I[kids[i]].kind = "float64"
        BY <1>15, <2>1, <2>3, <3>5 DEF IsMade
      <4> HIDE DEF kids, f
      <4>2. /\ kids[1] \in P /\ Head(kids) = kids[1]
            /\ \A i \in DOMAIN Tail(kids) : Tail(kids)[i] \in P
        BY <3>2, <4>1, ArgsIn
      <4>3. Sums(Tail(kids), << >>, D[n + 1].type, A, I)
        BY <3>2, <3>3, <4>1, SumsBegin
      <4>4. Waits(f, D[n + 1].type, A, I, P)
        BY <2>3, <3>4, <4>2, <4>3 DEF Waits
      <4>5. Meets("eval", node', obj', A, I, P, L)
        BY <3>1, <3>3, <4>2 DEF Meets, Ask
      <4> QED BY <4>1, <4>4, <4>5
    <3>6. f.call # "namespace"
      BY <2>3, <3>4
    <3> HIDE DEF f, kids
    <3> QED BY <1>10, <3>1, <3>5, <3>6
  <2> QED BY <2>2, <2>3
<1>21. CASE EvalSExp
  <2> DEFINE kids == node.kids
             f == Frame("apply", env, Tail(kids), << >>)
  <2>1. /\ mode = "eval" /\ node.t = "SExp" /\ node.t # "Symbol" /\ mode' = "eval"
        /\ stack' = Append(stack, f) /\ node' = Head(kids) /\ kids # << >>
    BY <1>21 DEF EvalSExp, Evaluates
  <2>2. kids \in Seq(Nodes)
    BY <1>3, <2>1, NodesAssumption
  <2>3. PICK A : A = AskHead(D[n + 1].type)
    OBVIOUS
  <2>4. f.call = "apply" /\ f.args = Tail(kids)
    BY <1>13
  <2>5. ASSUME Namespaces(stack, n) = {}
        PROVE  /\ ~D[n + 1].head /\ Waits(f, D[n + 1].type, A, I, P)
               /\ Meets("eval", node', obj', A, I, P, L)
    <3>1. /\ ~D[n + 1].head /\ (AnyT(D[n + 1].type) \/ I[node] = D[n + 1].type)
          /\ kids[1].t = "Symbol" /\ kids[1].name \in Names
          /\ \A i \in DOMAIN kids : i # 1 => kids[i] \in P
          /\ Gives(L[kids[1].name], I[node])
      BY <1>15, <2>1, <2>5 DEF IsMade
    <3> HIDE DEF kids, f
    <3>2. Head(kids) = kids[1] /\ \A i \in DOMAIN Tail(kids) : Tail(kids)[i] \in P
      <4>1. Len(kids) \in Nat \ {0} /\ DOMAIN kids = 1 .. Len(kids) /\ Head(kids) = kids[1]
            /\ DOMAIN Tail(kids) = 1 .. Len(kids) - 1
            /\ \A i \in 1 .. Len(kids) - 1 : Tail(kids)[i] = kids[i + 1]
        BY <2>1, <2>2, LenProperties, EmptySeq, HeadTailProperties
      <4>2. \A i \in 1 .. Len(kids) - 1 : i + 1 \in DOMAIN kids /\ i + 1 # 1
        BY <4>1
      <4> QED BY <3>1, <4>1, <4>2
    <3>3. Waits(f, D[n + 1].type, A, I, P)
      BY <2>3, <2>4, <3>2 DEF Waits
    <3>4. Gives(L[kids[1].name], D[n + 1].type)
      BY <3>1 DEF Gives
    <3>5. Meets("eval", node', obj', A, I, P, L)
      BY <2>1, <2>3, <3>1, <3>2, <3>4 DEF Meets, AskHead
    <3> QED BY <3>1, <3>3, <3>5
  <2> HIDE DEF f, kids
  <2>6. f.call # "namespace"
    BY <2>4
  <2> QED BY <1>10, <2>1, <2>5, <2>6
(* apply: either a builtin was asked for, or nothing is asked of what one  *)
(* argument is applied to.                                                 *)
<1>22. ASSUME stack # << >>, Top.call = "apply", mode = "return", Namespaces(stack, n - 1) = {}
       PROVE  /\ \A i \in DOMAIN Args : Args[i] \in P
              /\ Gives(obj, D[n].type) \/ (AnyT(D[n].type) /\ Len(Args) = 1)
  <2>1. D[n + 1] = AskHead(D[n].type) => D[n + 1].head /\ D[n + 1].type = D[n].type
    BY DEF AskHead
  <2>2. "apply" # "namespace"
    OBVIOUS
  <2> QED BY <1>6, <1>22, <2>1, <2>2 DEF Waits, Args
<1>23. ASSUME NEW name \in DOMAIN builtinType, CallsBuiltin(name), Namespaces(stack, n - 1) = {}
       PROVE  /\ \A i \in DOMAIN Args : Args[i] \in P
              /\ \/ AnyT(D[n].type) /\ (name # "assign" \/ Len(Args) = 1)
                 \/ name # "assign" /\ D[n].type.kind = builtinType[name].kind
  <2>1. stack # << >> /\ Top.call = "apply" /\ mode = "return" /\ obj.name = name
    BY <1>23 DEF CallsBuiltin, Applies
  <2> QED BY <1>22, <1>23, <2>1 DEF Gives
<1>24. /\ builtinType["type-of"].kind = "type" /\ builtinType["namespace"].kind = "namespace"
       /\ builtinType[">"].kind = "boolean" /\ builtinType["array"].kind = "array"
       /\ builtinType["apply"].kind = "any"
       /\ {"type-of", "assign", "namespace", ">", "array", "apply"} \subseteq DOMAIN builtinType
  BY DEF builtinType, Type, AnyType
<1>25. CASE builtinTypeOf
  <2>1. /\ stack # << >> /\ stack' = Front(stack) /\ mode' = "return" /\ CallsBuiltin("type-of")
        /\ obj' = Error \/ \E type : obj' = TypeObject(type)
    BY <1>25 DEF builtinTypeOf, CallsBuiltin, Applies
  <2>2. obj' = Error \/ obj'.kind = "type"
    BY <2>1 DEF TypeObject, Obj
  <2>3. Namespaces(stack, n - 1) = {} => Fits(obj', D[n].type)
    BY <1>23, <1>24, <2>1, <2>2 DEF Fits
  <2> QED BY <1>12, <2>1, <2>3
<1>26. CASE assign
  <2>1. stack # << >> /\ CallsBuiltin("assign") /\ BeginAssign("assign", Top.env)
    BY <1>26 DEF assign, CallsBuiltin, Applies
  <2>2. Namespaces(stack, n - 1) = {} => AnyT(D[n].type) /\ Len(Args) % 2 # 0
    <3>1. Namespaces(stack, n - 1) = {} => AnyT(D[n].type) /\ Len(Args) = 1
      BY <1>23, <1>24, <2>1
    <3>2. 1 % 2 # 0
      OBVIOUS
    <3> QED BY <3>1, <3>2
  <2>3. CASE mode' = "return"
    BY <1>12, <2>1, <2>2, <2>3 DEF BeginAssign, Fits
  <2>4. CASE mode' # "return"
    <3> DEFINE f == Frame("assign", Top.env, Args, << >>)
    <3>1. IsChanged(stack', stack, f) /\ mode' = "eval" /\ Len(Args) % 2 = 0
      BY <2>1, <2>4 DEF BeginAssign, IsChanged
    <3> HIDE DEF f
    <3> QED BY <1>11, <2>1, <2>2, <3>1
  <2> QED BY <2>3, <2>4
<1>27. CASE createNamespace
  <2>1. stack # << >> /\ CallsBuiltin("namespace") /\ BeginAssign("namespace", Len(envs) + 1)
    BY <1>27 DEF createNamespace, CallsBuiltin, Applies
  <2>2. Namespaces(stack, n - 1) = {} => AnyT(D[n].type) \/ D[n].type.kind = "namespace"
    BY <1>23, <1>24, <2>1
  <2>3. CASE mode' = "return"
    <3>1. stack' = Front(stack) /\ (obj' = Error \/ obj' = Namespace(Len(envs) + 1))
      BY <2>1, <2>3 DEF BeginAssign
    <3>2. \A e : Namespace(e).kind = "namespace"
      BY DEF Namespace, Obj
    <3> QED BY <1>12, <2>1, <2>2, <2>3, <3>1, <3>2 DEF Fits
  <2>4. CASE mode' # "return"
    <3> DEFINE f == Frame("namespace", Len(envs) + 1, Args, << >>)
    <3>1. IsChanged(stack', stack, f) /\ mode' = "eval"
      BY <2>1, <2>4 DEF BeginAssign, IsChanged
    <3>2. f.call = "namespace"
      BY <1>13
    <3> HIDE DEF f
    <3>3. Namespaces(stack, n - 1) = {} => Waits(f, D[n].type, Ask(I[node']), I, P)
      BY <2>2, <3>2 DEF Waits
    <3> QED BY <1>11, <2>1, <3>1, <3>2, <3>3
  <2> QED BY <2>3, <2>4
(* A call goes on with its first argument.                                 *)
<1>28. ASSUME NEW name \in {"apply", ">", "array"}, CallsBuiltin(name), Args # << >>, mode' = "eval", node' = Args[1],
              stack' = [stack EXCEPT ![Len(stack)] = Frame(name, Top.env, Tail(Args), << >>)],
              name = "apply" => Len(Args) = 2
       PROVE  SoundHolds'
  <2> DEFINE f == Frame(name, Top.env, Tail(Args), << >>)
  <2>1. IsChanged(stack', stack, f) /\ stack # << >>
    BY <1>28 DEF IsChanged, CallsBuiltin, Applies
  <2>2. f.call = name /\ f.args = Tail(Args)
    BY DEF Frame
  <2> HIDE DEF f
  <2>3. ASSUME Namespaces(stack, n - 1) = {} PROVE Waits(f, D[n].type, Ask(I[node']), I, P) /\ node' \in P
    <3>1. /\ \A i \in DOMAIN Args : Args[i] \in P
          /\ AnyT(D[n].type) \/ D[n].type.kind = builtinType[name].kind
      BY <1>23, <1>24, <1>28, <2>3
    <3>2. Args[1] \in P /\ Len(Tail(Args)) = Len(Args) - 1 /\ \A i \in DOMAIN Tail(Args) : Tail(Args)[i] \in P
      BY <1>14, <1>28, <2>1, <3>1, ArgsIn
    <3>3. name = "apply" => AnyT(D[n].type) /\ Len(Tail(Args)) = 1
      BY <1>24, <1>28, <3>1, <3>2 DEF AnyT
    <3>4. name \in {">", "array"} => AnyT(D[n].type) \/ D[n].type.kind = (IF name = ">" THEN "boolean" ELSE "array")
      BY <1>24, <3>1
    <3> QED BY <1>28, <2>2, <3>2, <3>3, <3>4 DEF Waits
  <2> QED BY <1>11, <1>28, <2>1, <2>3
<1>29. CASE builtinApply
  <2>1. stack # << >> /\ CallsBuiltin("apply")
    BY <1>29 DEF builtinApply, CallsBuiltin, Applies
  <2>2. CASE Len(Args) = 2
    <3>1. Args # << >>
      BY <1>14, <2>1, <2>2, EmptySeq
    <3> QED BY <1>28, <1>29, <2>1, <2>2, <3>1 DEF builtinApply
  <2>3. CASE Len(Args) # 2
    BY <1>12, <1>29, <2>1, <2>3 DEF builtinApply, Fits
  <2> QED BY <2>2, <2>3
<1>30. CASE gt
  <2>1. stack # << >> /\ CallsBuiltin(">")
    BY <1>30 DEF gt, CallsBuiltin, Applies
  <2>2. CASE Len(Args) >= 2
    <3>1. Args # << >>
      <4>1. ~(0 >= 2)
        OBVIOUS
      <4> QED BY <1>14, <2>1, <2>2, <4>1, EmptySeq, Zenon
    <3> QED BY <1>28, <1>30, <2>1, <2>2, <3>1 DEF gt
  <2>3. CASE ~(Len(Args) >= 2)
    BY <1>12, <1>30, <2>1, <2>3 DEF gt, Fits
  <2> QED BY <2>2, <2>3
<1>31. CASE array
  <2>1. stack # << >> /\ CallsBuiltin("array")
    BY <1>31 DEF array, CallsBuiltin, Applies
  <2>2. CASE Args # << >>
    BY <1>28, <1>31, <2>1, <2>2 DEF array
  <2>3. CASE Args = << >>
    <3>1. stack' = Front(stack) /\ mode' = "return" /\ obj' = Array(<< >>)
      BY <1>31, <2>3 DEF array
    <3>3. \A elems : Array(elems).kind = "array"
      BY DEF Array, Obj
    <3>2. Namespaces(stack, n - 1) = {} => Fits(obj', D[n].type)
      BY <1>23, <1>24, <2>1, <3>1, <3>3 DEF Fits
    <3> QED BY <1>12, <2>1, <3>1, <3>2
  <2> QED BY <2>2, <2>3
<1>32. ASSUME stack # << >>, Top.call = "apply", mode = "return", obj.kind # "builtin", Namespaces(stack, n - 1) = {}
       PROVE  AnyT(D[n].type) /\ \A i \in DOMAIN Args : Args[i] \in P
  BY <1>22, <1>32 DEF Gives
<1>33. CASE ApplyNamespace
  <2>1. /\ stack # << >> /\ Top.call = "apply" /\ mode = "return" /\ obj.kind # "builtin"
        /\ stack' = Front(stack) /\ mode' = "return"
    BY <1>33 DEF ApplyNamespace, Applies
  <2> QED BY <1>12, <1>32, <2>1 DEF Fits
<1>34. CASE ApplyOther
  BY <1>12, <1>34 DEF ApplyOther, Fits
<1>35. CASE ApplyArray
  <2>1. /\ stack # << >> /\ Top.call = "apply" /\ mode = "return" /\ obj.kind # "builtin"
    BY <1>35 DEF ApplyArray, Applies
  <2>2. CASE Args = << >>
    BY <1>12, <1>32, <1>35, <2>1, <2>2 DEF ApplyArray, Fits
  <2>3. CASE Args # << >>
    <3> DEFINE f == Frame("index", Top.env, << >>, <<obj>>)
    <3>1. IsChanged(stack', stack, f) /\ mode' = "eval" /\ node' = Args[1]
      BY <1>35, <2>3 DEF ApplyArray, IsChanged
    <3>2. f.call = "index" /\ f.args = << >> /\ DOMAIN (<< >>) = {}
      BY DEF Frame
    <3>3. 1 \in DOMAIN Args
      BY <1>14, <2>1, <2>3, LenProperties, EmptySeq
    <3> HIDE DEF f
    <3>4. ASSUME Namespaces(stack, n - 1) = {} PROVE Waits(f, D[n].type, Ask(I[node']), I, P) /\ node' \in P
      BY <1>32, <2>1, <3>1, <3>2, <3>3, <3>4 DEF Waits
    <3> QED BY <1>11, <2>1, <3>1, <3>4
  <2> QED BY <2>2, <2>3
(* A value comes back to who waits for it.                                 *)
<1>36. CASE AssignValue
  <2>1. stack # << >> /\ Top.call \in {"assign", "namespace"}
    BY <1>36 DEF AssignValue
  <2>2. ASSUME Namespaces(stack, n - 1) = {}
        PROVE  Top.call = "namespace" /\ (AnyT(D[n].type) \/ D[n].type.kind = "namespace")
    BY <1>6, <2>1, <2>2 DEF Waits
  <2>3. CASE mode' = "return"
    <3>1. stack' = Front(stack) /\ (obj' = Error \/ Top.call = "assign" \/ obj' = Namespace(Top.env))
      BY <1>36, <2>3 DEF AssignValue
    <3>2. Namespace(Top.env).kind = "namespace"
      BY DEF Namespace, Obj
    <3> QED BY <1>12, <2>1, <2>2, <2>3, <3>1, <3>2 DEF Fits
  <2>4. CASE mode' # "return"
    <3>1. PICK args, objs : /\ stack' = [stack EXCEPT ![Len(stack)] = Frame(Top.call, Top.env, args, objs)]
                            /\ mode' = "eval"
      BY <1>36, <2>4 DEF AssignValue
    <3> DEFINE f == Frame(Top.call, Top.env, args, objs)
    <3>2. f.call = Top.call /\ IsChanged(stack', stack, f)
      BY <1>13, <3>1 DEF IsChanged
    <3> HIDE DEF f
    <3>3. Namespaces(stack, n - 1) = {} => f.call = "namespace" /\ Waits(f, D[n].type, Ask(I[node']), I, P)
      BY <2>2, <3>2 DEF Waits
    <3> QED BY <1>11, <2>1, <3>1, <3>2, <3>3
  <2> QED BY <2>3, <2>4
<1>37. CASE Index
  <2>1. stack # << >> /\ Top.call = "index" /\ stack' = Front(stack) /\ mode' = "return"
    BY <1>37 DEF Index, ReturnsTo
  <2>2. Namespaces(stack, n - 1) = {} => AnyT(D[n].type)
    BY <1>6, <2>1 DEF Waits
  <2> QED BY <1>12, <2>1, <2>2 DEF Fits
<1>38. CASE IfBranch
  <2>1. stack # << >> /\ Top.call = "if" /\ stack' = Front(stack)
    BY <1>38 DEF IfBranch, ReturnsTo
  <2>2. Args \in Seq(Nodes) /\ Len(Args) \in {1, 2}
    BY <1>14, <2>1 DEF IsFrame, Args
  <2>3. ASSUME Namespaces(stack, n - 1) = {}
        PROVE  /\ ~D[n].head /\ \A i \in DOMAIN Args : Args[i] \in P
               /\ AnyT(D[n].type) \/ (Len(Args) = 2 /\ I[Args[1]] = D[n].type /\ I[Args[2]] = D[n].type)
    BY <1>6, <2>1, <2>3 DEF Waits, Args
  <2>4. CASE mode' = "return"
    <3>1. obj' = Error \/ Len(Args) = 1
      BY <1>38, <2>4 DEF IfBranch
    <3>2. Namespaces(stack, n - 1) = {} => Fits(obj', D[n].type)
      BY <2>3, <3>1 DEF Fits
    <3> QED BY <1>12, <2>1, <2>4, <3>2
  <2>5. CASE mode' # "return"
    <3>1. mode' = "eval" /\ (node' = Args[1] \/ (Len(Args) # 1 /\ node' = Args[2]))
      BY <1>38, <2>5 DEF IfBranch
    <3>2. 1 \in DOMAIN Args /\ (Len(Args) # 1 => 2 \in DOMAIN Args)
      BY <2>2, LenProperties
    <3>3. Namespaces(stack, n - 1) = {} => Meets(mode', node', obj', D[n], I, P, L)
      BY <2>3, <3>1, <3>2 DEF Meets
    <3> QED BY <1>9, <2>1, <3>3
  <2> QED BY <2>4, <2>5
<1>39. CASE NextArgument
  <2> DEFINE objs == Append(Top.objs, obj)
             T == D[n].type
  <2>1. /\ stack # << >> /\ Top.call \in {"array", "+", "*", ">"} /\ mode = "return" /\ Top.call # "namespace"
    BY <1>39 DEF NextArgument, ReturnsTo
  <2>2. Args \in Seq(Nodes) /\ Top.objs \in Seq(V)
    BY <1>14, <2>1 DEF IsFrame
  <2>3. ASSUME Namespaces(stack, n - 1) = {}
        PROVE  /\ \A i \in DOMAIN Args : Args[i] \in P
               /\ Top.call = "array" => AnyT(T) \/ T.kind = "array"
               /\ Top.call = ">" => AnyT(T) \/ T.kind = "boolean"
               /\ Top.call \in {"+", "*"} => Sums(Args, Top.objs, T, D[n + 1], I)
               /\ ~D[n + 1].head => Fits(obj, D[n + 1].type)
    BY <1>6, <2>1, <2>3 DEF Waits, Args
  <2>4. ASSUME Namespaces(stack, n - 1) = {}, Top.call \in {"+", "*"}, Accepts(Top.call, Top.objs, obj)
        PROVE  /\ Args # << >> => Sums(Tail(Args), objs, T, Ask(I[Args[1]]), I)
               /\ Args = << >> => AnyT(T) \/ T.kind = (IF HasFloats(objs) THEN "float64" ELSE "integer")
    <3>1. obj.kind \in {"integer", "float64"}
      BY <2>4 DEF Accepts
    <3> QED BY <2>2, <2>3, <2>4, <3>1, SumsNext
  <2> HIDE DEF objs, T
  <2>5. CASE ~Accepts(Top.call, Top.objs, obj)
    BY <1>12, <1>39, <2>1, <2>5 DEF NextArgument, Fits
  <2>6. CASE Accepts(Top.call, Top.objs, obj) /\ Args = << >>
    <3>1. stack' = Front(stack) /\ mode' = "return" /\ obj' = Result(Top.call, objs)
      BY <1>39, <2>6 DEF NextArgument, objs
    <3>2. /\ Top.call = "array" => obj'.kind = "array"
          /\ Top.call = ">" => obj'.kind = "boolean"
          /\ Top.call \in {"+", "*"} => obj'.kind = (IF HasFloats(objs) THEN "float64" ELSE "integer")
      <4>1. /\ Top.call = "array" => obj' = Array(objs)
            /\ Top.call = ">" => obj' = isDecreasing(objs)
            /\ Top.call \in {"+", "*"} => \E op : obj' = Total(op, HasFloats(objs), objs)
        BY <2>1, <3>1 DEF Result, sum, multiply
      <4>2. \A num, kind : Primitive(kind, num).kind = kind
        BY DEF Primitive, Obj
      <4>3. \A op, hasFloats : Total(op, hasFloats, objs).kind = (IF hasFloats THEN "float64" ELSE "integer")
        BY <4>2 DEF Total
      <4>4. isDecreasing(objs).kind = "boolean" /\ Array(objs).kind = "array"
        BY <4>2 DEF isDecreasing, Boolean, Array, Obj
      <4> QED BY <4>1, <4>3, <4>4
    <3>3. Namespaces(stack, n - 1) = {} => Fits(obj', T)
      BY <2>1, <2>3, <2>4, <2>6, <3>2 DEF Fits
    <3> QED BY <1>12, <2>1, <3>1, <3>3 DEF T
  <2>7. CASE Accepts(Top.call, Top.objs, obj) /\ Args # << >>
    <3> DEFINE f == Frame(Top.call, Top.env, Tail(Args), objs)
    <3>1. IsChanged(stack', stack, f) /\ mode' = "eval" /\ node' = Args[1]
      BY <1>39, <2>7 DEF NextArgument, IsChanged, objs
    <3>2. f.call = Top.call /\ f.args = Tail(Args) /\ f.objs = objs
      BY DEF Frame
    <3> HIDE DEF f
    <3>3. ASSUME Namespaces(stack, n - 1) = {} PROVE Waits(f, T, Ask(I[node']), I, P) /\ node' \in P
      <4>1. Args[1] \in P /\ \A i \in DOMAIN Tail(Args) : Tail(Args)[i] \in P
        BY <2>2, <2>3, <2>7, <3>3, ArgsIn
      <4>2. Top.call \in {"+", "*"} => Sums(Tail(Args), objs, T, Ask(I[node']), I)
        BY <2>4, <2>7, <3>1, <3>3
      <4> QED BY <2>1, <2>3, <3>1, <3>2, <3>3, <4>1, <4>2 DEF Waits
    <3> QED BY <1>11, <2>1, <3>1, <3>3 DEF T
  <2> QED BY <2>5, <2>6, <2>7
<1> QED BY <1>16, <1>17, <1>18, <1>19, <1>20, <1>21, <1>25, <1>26, <1>27, <1>29, <1>30, <1>31, <1>33, <1>34, <1>35,
           <1>36, <1>37, <1>38, <1>39 DEF Works

LEMMA SoundBegins ==
  ASSUME NestedScopes, ValuesHold, NextNode PROVE SoundHolds'
<1>1. PICK V, F : ValuesIn(V, F)
  BY DEF ValuesHold
<1>2. /\ EnvsAre /\ EnvsHold(envs, V) /\ Null \in V /\ rest \in Seq(Nodes) /\ AreValues(V, F)
      /\ Global \in DOMAIN envs
  BY <1>1 DEF NestedScopes, ValuesIn, AreValues, EnvsAre
<1>3. /\ stack = << >> /\ rest # << >> /\ UNCHANGED <<envs, stack>> /\ mode' = "eval" /\ node' = Head(rest)
      /\ guess' = [type |-> Infer(Head(rest), typeOf(Global)), plain |-> IsPlain(Head(rest))]
  BY DEF NextNode, NestedScopes, Call
<1>4. PICK n \in Nodes : n = Head(rest)
  BY <1>2, <1>3, HeadTailProperties
<1>5. Len(stack) = 0
  BY <1>3, EmptySeq
<1> DEFINE L == [name \in Names |-> LookUp(Global, name)]
<1>6. PICK M : M = L
  OBVIOUS
<1>7. \A name : LookUp(Global, name) = InGlobal(name) /\ LookUp(Global, name) \in V
  BY <1>2, LookUpInGlobal, LookUpIsValue DEF EnvsAre
<1>8. /\ \A name \in Names : M[name] = LookUp(Global, name) /\ M[name] = InGlobal(name) /\ IsObject(M[name], V, F)
      /\ \A name \in Names : M[name].kind # "ast" /\ (M[name].kind = "builtin" => M[name] \in Builtins)
  BY <1>2, <1>6, <1>7 DEF AreValues, IsObject
<1>9. typeOf(Global) = TypeFor(M)
  BY <1>8 DEF typeOf, TypeFor
<1>10. PICK I \in [Nodes -> TypesOf(TypeFor(M))] : IsInferred(I, TypeFor(M)) /\ \A m \in Nodes : Infer(m, TypeFor(M)) = I[m]
  BY InferIs
<1>11. PICK P \in SUBSET Nodes : /\ \A m \in Nodes : IsPlain(m) => m \in P
                                 /\ \A m \in P : plainNode(m, [k \in Nodes |-> k \in P])
  BY PlainIs
<1>12. \A m \in Nodes : /\ IsBuiltin(m) <=> m.t = "Symbol" /\ M[m.name].kind = "builtin"
                        /\ IsBuiltin(m) => LookUp(Global, m.name) = M[m.name]
  BY <1>8, NodesAssumption DEF IsBuiltin
<1>13. Explains(I, P, M)
  <2>1. /\ \A m \in Nodes : IsBuiltin(m) <=> m.t = "Symbol" /\ M[m.name].kind = "builtin"
        /\ \A m \in Nodes : IsBuiltin(m) => LookUp(Global, m.name) = M[m.name]
    BY <1>12
  <2> QED BY <1>8, <1>10, <1>11, <2>1, Explained
<1> HIDE DEF L
<1>14. PICK D : D = [k \in {1} |-> Ask(I[n])]
  OBVIOUS
<1>15. guess.type' = I[n] /\ (guess.plain' => n \in P)
  BY <1>3, <1>4, <1>9, <1>10, <1>11
<1>16. ASSUME guess.plain' PROVE Sound(I, P, M, D)'
  <2>1. \A name \in Names : M[name] = InGlobal(name)'
    BY <1>3, <1>8 DEF InGlobal
  <2>2. D[1] = Ask(guess.type)'
    BY <1>14, <1>15 DEF Ask
  <2>3. Waiting(stack', D, I, P)
    BY <1>3, <1>5 DEF Waiting
  <2>4. Meets(mode', node', obj', D[Len(stack') + 1], I, P, M)
    <3>1. D[1].type = I[n] /\ ~D[1].head /\ Len(stack') + 1 = 1
      BY <1>3, <1>5, <1>14 DEF Ask
    <3> QED BY <1>3, <1>4, <1>15, <1>16, <3>1 DEF Meets
  <2> QED BY <1>13, <2>1, <2>2, <2>3, <2>4 DEF Sound
<1> QED BY <1>16 DEF SoundHolds

LEMMA SoundNext == NestedScopes /\ ValuesHold /\ SoundHolds /\ [Next]_vars => SoundHolds'
<1> SUFFICES ASSUME NestedScopes, ValuesHold, SoundHolds, [Next]_vars PROVE SoundHolds'
  OBVIOUS
<1>1. CASE UNCHANGED vars
  BY <1>1 DEF vars, SoundHolds, Sound, InGlobal
<1>2. CASE mode' \notin {"eval", "return"} \/ ~guess.plain'
  BY <1>2 DEF SoundHolds
<1>3. CASE NextNode
  BY <1>3, SoundBegins
<1>4. CASE Works
  <2>1. mode \in {"eval", "return"} /\ UNCHANGED guess
    BY <1>4 DEF Works, EvalLiteral, EvalSymbol, EvalOther, evalIf, evalSpecialOp, EvalSExp, Evaluates, builtinTypeOf,
           assign, createNamespace, builtinApply, gt, array, CallsBuiltin, Applies, ApplyNamespace, ApplyArray,
           ApplyOther, AssignValue, Index, IfBranch, NextArgument, ReturnsTo
  <2>2. CASE ~guess.plain
    BY <1>2, <2>1, <2>2
  <2>3. CASE guess.plain
    <3>1. PICK I, P, L, D : Sound(I, P, L, D)
      BY <2>1, <2>3 DEF SoundHolds
    <3>2. Next
      BY <1>4 DEF Works, Next, Step
    <3> QED BY <1>4, <3>1, <3>2, SoundWorks
  <2> QED BY <2>2, <2>3
<1>5. CASE Next /\ ~NextNode /\ ~Works
  <2>1. mode' \notin {"eval", "return"} \/ ~guess.plain'
    BY <1>5 DEF Next, Step, Works, EvalPackage, PackageEnds, NodeEnds, EvalPanics
  <2> QED BY <1>2, <2>1
<1> QED BY <1>1, <1>3, <1>4, <1>5

LEMMA SoundInit == Init => SoundHolds
  BY DEF Init, SoundHolds

(* While a plain tree is evaluated, there are types of all trees that are  *)
(* a solution of inferNode, and what each frame waits for has the type     *)
(* that was inferred for it (runtime.go, typecheck.go).                    *)
THEOREM SoundAlwaysHolds == Spec => []SoundHolds
  BY SoundInit, SoundNext, NestedScopesHold, ValuesAlwaysHold, PTL DEF Spec

(* What Infer says of a plain node, its evaluation gives, or an error:     *)
(* for any trees, whatever was bound to any name before.                   *)
THEOREM InferenceHoldsForBuiltins == Spec => []InferHoldsForBuiltins
<1>1. ASSUME SoundHolds PROVE InferHoldsForBuiltins
  <2> SUFFICES ASSUME guess.plain, mode = "return", stack = << >>, obj # Error
               PROVE  guess.type = NoType \/ guess.type.kind \in {"any", obj.kind}
    BY DEF InferHoldsForBuiltins, Inferred
  <2>1. PICK I, P, L, D : Sound(I, P, L, D)
    BY <1>1 DEF SoundHolds
  <2>2. Len(stack) = 0 /\ Namespaces(stack, 0) = {}
    BY EmptySeq DEF Namespaces
  <2>3. Meets("return", node, obj, Ask(guess.type), I, P, L)
    BY <2>1, <2>2 DEF Sound
  <2>4. Fits(obj, guess.type)
    BY <2>3 DEF Meets, Ask
  <2> QED BY <2>4 DEF Fits, AnyT
<1> QED BY <1>1, SoundAlwaysHolds, PTL
=============================================================================
