--------------------------- MODULE CommandListProofs ---------------------------
(***************************************************************************)
(* Theorems about module CommandList, for every value of its constants.    *)
(***************************************************************************)
EXTENDS CommandList, FiniteSetTheorems, SequenceTheorems, TLAPS

-----------------------------------------------------------------------------
(* Induction over the naturals for a set: that of the numbers for which    *)
(* what is to be shown holds.                                              *)

Less == {ss \in Nat \X Nat : ss[1] < ss[2]}

LEMMA LeastNat ==
  ASSUME NEW S, S \subseteq Nat, S # {}
  PROVE  \E s \in S : \A t \in S : s <= t
<1>1. IsWellFoundedOn(Less, Nat)
  BY NatLessThanWellFounded, Zenon DEF OpToRel, Less
<1>2. PICK x \in S : \A y \in S : <<y, x>> \notin Less
  BY <1>1, WFMin, Zenon
<1>3. ASSUME NEW t \in S PROVE x <= t
  <2>1. x \in Nat /\ t \in Nat
    BY <1>2
  <2>2. <<t, x>> \in Less <=> t < x
    BY <2>1 DEF Less
  <2>3. QED BY <1>2, <2>1, <2>2
<1>4. QED BY <1>2, <1>3

LEMMA SetInduction ==
  ASSUME NEW S, 0 \in S, \A n \in Nat : n \in S => n + 1 \in S
  PROVE  Nat \subseteq S
<1> DEFINE Missing == Nat \ S
<1>1. SUFFICES ASSUME Missing # {} PROVE FALSE
  OBVIOUS
<1>2. PICK m \in Missing : \A t \in Missing : m <= t
  <2> HIDE DEF Missing
  <2> QED BY <1>1, LeastNat DEF Missing
<1>3. m # 0 /\ m - 1 \in Nat /\ m - 1 \notin Missing
  BY <1>2
<1>4. QED BY <1>2, <1>3

LEMMA FunctionIsSeq ==
  ASSUME NEW V, NEW n \in Nat, NEW p \in [1..n -> V]
  PROVE  p \in Seq(V) /\ Len(p) = n
OBVIOUS

-----------------------------------------------------------------------------
(* A sequence of sequences one after the other, and what is in it.         *)

In(x, s) == \E i \in 1..Len(s) : s[i] = x
InSome(x, n, p) == \E i \in 1..n : In(x, p[i])

LEMMA InConcat ==
  ASSUME NEW V, NEW s \in Seq(V), NEW t \in Seq(V)
  PROVE  /\ s \o t \in Seq(V)
         /\ \A x : In(x, s \o t) <=> In(x, s) \/ In(x, t)
<1>1. /\ s \o t \in Seq(V) /\ Len(s \o t) = Len(s) + Len(t)
      /\ \A i \in 1..Len(s) + Len(t) :
           (s \o t)[i] = IF i <= Len(s) THEN s[i] ELSE t[i - Len(s)]
  OBVIOUS
<1>2. ASSUME NEW x, In(x, s) PROVE In(x, s \o t)
  <2>1. PICK i \in 1..Len(s) : s[i] = x
    BY <1>2 DEF In
  <2>2. i \in 1..Len(s \o t) /\ (s \o t)[i] = x
    BY <1>1, <2>1
  <2>3. QED BY <2>2 DEF In
<1>3. ASSUME NEW x, In(x, t) PROVE In(x, s \o t)
  <2>1. PICK i \in 1..Len(t) : t[i] = x
    BY <1>3 DEF In
  <2>2. Len(s) + i \in 1..Len(s \o t) /\ (s \o t)[Len(s) + i] = x
    BY <1>1, <2>1
  <2>3. QED BY <2>2 DEF In
<1>4. ASSUME NEW x, In(x, s \o t) PROVE In(x, s) \/ In(x, t)
  <2>1. PICK i \in 1..Len(s \o t) : (s \o t)[i] = x
    BY <1>4 DEF In
  <2>2. CASE i <= Len(s)
    BY <1>1, <2>1, <2>2 DEF In
  <2>3. CASE i > Len(s)
    <3>1. i - Len(s) \in 1..Len(t) /\ t[i - Len(s)] = x
      BY <1>1, <2>1, <2>3
    <3>2. QED BY <3>1 DEF In
  <2>4. QED BY <2>1, <2>2, <2>3
<1>5. QED BY <1>1, <1>2, <1>3, <1>4

LEMMA InOne ==
  ASSUME NEW V, NEW v \in V
  PROVE  <<v>> \in Seq(V) /\ \A x : In(x, <<v>>) <=> x = v
BY DEF In

LEMMA InNone ==
  ASSUME NEW V
  PROVE  <<>> \in Seq(V) /\ \A x : ~In(x, <<>>)
BY DEF In

\* The running concatenation g[0], g[1], ... of the sequences p[1], p[2], ...
LEMMA RunningConcat ==
  ASSUME NEW V, NEW n \in Nat, NEW p \in [1..n -> Seq(V)],
         NEW g, g[0] = <<>>, \A i \in 1..n : g[i] = g[i - 1] \o p[i]
  PROVE  /\ g[n] \in Seq(V)
         /\ \A x : In(x, g[n]) <=> InSome(x, n, p)
<1> DEFINE Covered(x, k) == InSome(x, k, p)
           Good(k) == g[k] \in Seq(V) /\ \A x : In(x, g[k]) <=> Covered(x, k)
           S == {k \in Nat : k <= n => Good(k)}
<1>1. 0 \in S
  <2>1. \A x : ~Covered(x, 0)
    BY DEF InSome
  <2>2. Good(0)
    <3> HIDE DEF Covered
    <3> QED BY <2>1, InNone
  <2> HIDE DEF Good
  <2> QED BY <2>2
<1>2. ASSUME NEW k \in Nat, k \in S PROVE k + 1 \in S
  <2>1. CASE ~(k + 1 <= n)
    BY <2>1
  <2>2. CASE k + 1 <= n
    <3>1. Good(k)
      <4> HIDE DEF Good
      <4> QED BY <1>2, <2>2
    <3>2. g[k + 1] = g[k] \o p[k + 1] /\ p[k + 1] \in Seq(V)
      <4>1. k + 1 \in 1..n /\ k + 1 - 1 = k
        BY <2>2
      <4>2. g[k + 1] = g[(k + 1) - 1] \o p[k + 1]
        BY <4>1
      <4> QED BY <4>1, <4>2
    <3>3. /\ g[k + 1] \in Seq(V)
          /\ \A x : In(x, g[k + 1]) <=> In(x, g[k]) \/ In(x, p[k + 1])
      <4> HIDE DEF Covered
      <4> QED BY <3>1, <3>2, InConcat
    <3>4. \A x : Covered(x, k + 1) <=> Covered(x, k) \/ In(x, p[k + 1])
      <4>1. \A i : i \in 1..k + 1 <=> i \in 1..k \/ i = k + 1
        OBVIOUS
      <4> QED BY <4>1, Zenon DEF InSome
    <3>5. Good(k + 1)
      <4> HIDE DEF Covered
      <4> QED BY <3>1, <3>3, <3>4
    <3> HIDE DEF Good
    <3> QED BY <3>5
  <2>3. QED BY <2>1, <2>2
<1>3. Nat \subseteq S
  <2> HIDE DEF S
  <2> QED BY <1>1, <1>2, SetInduction
<1>4. Good(n)
  <2> HIDE DEF Good
  <2> QED BY <1>3
<1>5. QED BY <1>4

\* The recursive functions that concatenate exist.
LEMMA ConcatFrom0 ==
  ASSUME NEW n \in Nat, NEW p
  PROVE  \E f : f = [i \in 0..n |-> IF i = 0 THEN <<>> ELSE f[i - 1] \o p[i]]
<1> DEFINE Fits(f, k) == f = [i \in 0..k |-> IF i = 0 THEN <<>> ELSE f[i - 1] \o p[i]]
           S == {k \in Nat : \E f : Fits(f, k)}
<1>1. 0 \in S
  <2>1. Fits([i \in 0..0 |-> <<>>], 0)
    OBVIOUS
  <2>2. QED BY <2>1
<1>2. ASSUME NEW k \in Nat, k \in S PROVE k + 1 \in S
  <2>1. PICK f : Fits(f, k)
    BY <1>2
  <2> DEFINE g == [i \in 0..k + 1 |-> IF i <= k THEN f[i] ELSE f[k] \o p[i]]
  <2>2. \A i \in 0..k : g[i] = f[i] /\ f[i] = IF i = 0 THEN <<>> ELSE f[i - 1] \o p[i]
    BY <2>1
  <2>3. g[k + 1] = f[k] \o p[k + 1]
    <3>1. k + 1 \in 0..k + 1 /\ ~(k + 1 <= k)
      OBVIOUS
    <3>2. QED BY <3>1, Zenon
  <2>4. \A i \in 0..k + 1 : g[i] = IF i = 0 THEN <<>> ELSE g[i - 1] \o p[i]
    <3>1. TAKE i \in 0..k + 1
    <3>2. CASE i = k + 1
      <4>1. i # 0 /\ i - 1 = k /\ k \in 0..k
        BY <3>2
      <4>2. g[k] = f[k]
        BY <2>2, <4>1, Zenon
      <4> HIDE DEF g
      <4> QED BY <2>3, <3>2, <4>1, <4>2, Zenon
    <3>3. CASE i # k + 1
      <4>1. i \in 0..k /\ (i # 0 => i - 1 \in 0..k)
        BY <3>3
      <4>2. i # 0 => g[i - 1] = f[i - 1]
        BY <2>2, <4>1
      <4> HIDE DEF g
      <4> QED BY <2>2, <4>1, <4>2
    <3>4. QED BY <3>2, <3>3
  <2>5. g = [i \in 0..k + 1 |-> g[i]]
    OBVIOUS
  <2>6. Fits(g, k + 1)
    <3> HIDE DEF g
    <3> QED BY <2>4, <2>5, Zenon
  <2>7. \E h : Fits(h, k + 1)
    <3> HIDE DEF Fits, g
    <3> QED BY <2>6
  <2> HIDE DEF Fits
  <2>8. QED BY <2>7
<1>3. n \in S
  <2> HIDE DEF S
  <2> QED BY <1>1, <1>2, SetInduction
<1>4. QED BY <1>3

LEMMA ConcatFrom1 ==
  ASSUME NEW n \in Nat \ {0}, NEW V, NEW p \in [1..n -> Seq(V)]
  PROVE  \E f : f = [i \in 1..n |-> IF i = 1 THEN p[i] ELSE f[i - 1] \o p[i]]
<1>1. PICK g : g = [i \in 0..n |-> IF i = 0 THEN <<>> ELSE g[i - 1] \o p[i]]
  BY ConcatFrom0
<1> DEFINE f == [i \in 1..n |-> g[i]]
<1>2. \A i \in 0..n : g[i] = IF i = 0 THEN <<>> ELSE g[i - 1] \o p[i]
  BY <1>1, Zenon
<1>3. g[0] = <<>>
  <2>1. 0 \in 0..n
    OBVIOUS
  <2>2. QED BY <1>2, <2>1, Zenon
<1>4. \A i \in 1..n : g[i] = IF i = 1 THEN p[i] ELSE f[i - 1] \o p[i]
  <2>1. TAKE i \in 1..n
  <2>2. g[i] = g[i - 1] \o p[i] /\ p[i] \in Seq(V)
    <3>1. i \in 0..n /\ i # 0 /\ p[i] \in Seq(V)
      OBVIOUS
    <3>2. QED BY <1>2, <3>1, Zenon
  <2>3. i = 1 => g[i] = p[i]
    <3>1. i = 1 => g[i - 1] = <<>>
      BY <1>3
    <3>2. QED BY <2>2, <3>1
  <2>4. i # 1 => f[i - 1] = g[i - 1]
    OBVIOUS
  <2> HIDE DEF f
  <2>5. QED BY <2>2, <2>3, <2>4
<1>5. f = [i \in 1..n |-> IF i = 1 THEN p[i] ELSE f[i - 1] \o p[i]]
  BY <1>4, Zenon
<1>6. QED BY <1>5

LEMMA FlattenIn ==
  ASSUME NEW V, NEW ss \in Seq(Seq(V))
  PROVE  /\ FlattenSeq(ss) \in Seq(V)
         /\ \A x : In(x, FlattenSeq(ss)) <=> InSome(x, Len(ss), ss)
<1> DEFINE n == Len(ss)
           flatten == CHOOSE f : f = [i \in 1..n |-> IF i = 1 THEN ss[i] ELSE f[i - 1] \o ss[i]]
<1>1. CASE n = 0
  <2>1. FlattenSeq(ss) = <<>> /\ 1..n = {}
    BY <1>1 DEF FlattenSeq
  <2>2. QED BY <2>1, InNone DEF InSome
<1>2. CASE n # 0
  <2>1. n \in Nat \ {0} /\ ss \in [1..n -> Seq(V)]
    BY <1>2
  <2>2. \E f : f = [i \in 1..n |-> IF i = 1 THEN ss[i] ELSE f[i - 1] \o ss[i]]
    <3> HIDE DEF n
    <3> QED BY <2>1, ConcatFrom1
  <2>3. flatten = [i \in 1..n |-> IF i = 1 THEN ss[i] ELSE flatten[i - 1] \o ss[i]]
    BY <2>2, Zenon
  <2>4. FlattenSeq(ss) = flatten[n]
    BY <1>2 DEF FlattenSeq
  <2> DEFINE g == [i \in 0..n |-> IF i = 0 THEN <<>> ELSE flatten[i]]
  <2> HIDE DEF flatten
  <2>5. g[0] = <<>> /\ g[n] = flatten[n]
    BY <2>1
  <2>6. \A i \in 1..n : g[i] = g[i - 1] \o ss[i]
    <3>1. TAKE i \in 1..n
    <3>2. ss[i] \in Seq(V) /\ g[i] = flatten[i]
      BY <2>1
    <3>3. CASE i = 1
      <4>1. g[i - 1] = <<>>
        BY <3>3
      <4>2. flatten[i] = ss[i]
        BY <2>3, <3>3, Zenon
      <4> HIDE DEF g
      <4> QED BY <3>2, <4>1, <4>2
    <3>4. CASE i # 1
      <4>1. g[i - 1] = flatten[i - 1]
        BY <3>4
      <4>2. flatten[i] = flatten[i - 1] \o ss[i]
        BY <2>3, <3>4, Zenon
      <4> HIDE DEF g
      <4> QED BY <3>2, <4>1, <4>2
    <3>5. QED BY <3>3, <3>4
  <2>7. /\ g[n] \in Seq(V)
        /\ \A x : In(x, g[n]) <=> InSome(x, n, ss)
    <3> HIDE DEF g, n
    <3> QED BY <2>1, <2>5, <2>6, RunningConcat, Zenon
  <2>8. QED BY <2>4, <2>5, <2>7
<1>3. QED BY <1>1, <1>2

\* The function by which Each is defined, for p[i] in the place of what the
\* i-th view contributes.
LEMMA EachFunction ==
  ASSUME NEW n \in Nat, NEW V, NEW p \in [1..n -> Seq(V)], NEW e,
         e = [i \in 0..n |-> IF i = 0 THEN <<>> ELSE e[i - 1] \o p[i]]
  PROVE  /\ e[n] \in Seq(V)
         /\ \A x : In(x, e[n]) <=> InSome(x, n, p)
<1>1. e[0] = <<>>
  <2>1. 0 \in 0..n
    OBVIOUS
  <2>2. QED BY <2>1, Zenon
<1>2. \A i \in 1..n : e[i] = e[i - 1] \o p[i]
  <2>1. \A i \in 1..n : i \in 0..n /\ i # 0
    OBVIOUS
  <2>2. QED BY <2>1, Zenon
<1>3. QED BY <1>1, <1>2, RunningConcat, Zenon

LEMMA ViewsFacts ==
  /\ AllViews \in Seq(Views) /\ TopLevels \subseteq Views
  /\ \A v \in Views : \E i \in 1..Len(AllViews) : AllViews[i] = v
BY ViewsAssumption DEF Views

LEMMA EachIn ==
  ASSUME NEW V, NEW S \in SUBSET Views, NEW of, \A u \in S : of[u] \in Seq(V)
  PROVE  /\ Each(S, of) \in Seq(V)
         /\ \A x : In(x, Each(S, of)) <=> \E u \in S : In(x, of[u])
<1> DEFINE n == Len(AllViews)
           p == [i \in 1..n |-> IF AllViews[i] \in S THEN of[AllViews[i]] ELSE <<>>]
           Fits(f) == f = [i \in 0..n |->
             IF i = 0 THEN <<>>
             ELSE f[i - 1] \o IF AllViews[i] \in S THEN of[AllViews[i]] ELSE <<>>]
           e == CHOOSE f : Fits(f)
<1>1. n \in Nat
  BY ViewsFacts
<1>2. \A i \in 0..n : i # 0 => p[i] = IF AllViews[i] \in S THEN of[AllViews[i]] ELSE <<>>
  BY <1>1
<1>3. PICK h : h = [i \in 0..n |-> IF i = 0 THEN <<>> ELSE h[i - 1] \o p[i]]
  <2> HIDE DEF p, n
  <2> QED BY <1>1, ConcatFrom0
<1>4. Fits(h)
  <2> HIDE DEF p, n
  <2> QED BY <1>2, <1>3, Zenon
<1>5. Fits(e)
  <2> HIDE DEF Fits
  <2> QED BY <1>4, Zenon
<1>6. e = [i \in 0..n |-> IF i = 0 THEN <<>> ELSE e[i - 1] \o p[i]]
  <2> HIDE DEF e, p, n
  <2> QED BY <1>2, <1>5, Zenon
<1>7. Each(S, of) = e[n]
  BY Zenon DEF Each
<1>8. \A i \in 1..n : /\ p[i] \in Seq(V)
                      /\ \A x : In(x, p[i]) <=> AllViews[i] \in S /\ In(x, of[AllViews[i]])
  <2>1. TAKE i \in 1..n
  <2>2. CASE AllViews[i] \in S
    BY <2>2
  <2>3. CASE AllViews[i] \notin S
    <3>1. p[i] = <<>>
      BY <2>3
    <3> HIDE DEF p
    <3> QED BY <2>3, <3>1, InNone
  <2>4. QED BY <2>2, <2>3
<1>9. p \in [1..n -> Seq(V)]
  BY <1>8
<1>10. /\ e[n] \in Seq(V)
       /\ \A x : In(x, e[n]) <=> InSome(x, n, p)
  <2> HIDE DEF e, p, n
  <2> QED BY <1>1, <1>6, <1>9, EachFunction, Zenon
<1>11. \A x : In(x, e[n]) <=> \E u \in S : In(x, of[u])
  <2> HIDE DEF e, p
  <2>1. ASSUME NEW x, In(x, e[n]) PROVE \E u \in S : In(x, of[u])
    BY <1>8, <1>10, <2>1, Zenon DEF InSome
  <2>2. ASSUME NEW x, NEW u \in S, In(x, of[u]) PROVE In(x, e[n])
    <3>1. PICK i \in 1..n : AllViews[i] = u
      BY ViewsFacts
    <3> HIDE DEF n
    <3>2. In(x, p[i])
      BY <1>8, <2>2, <3>1
    <3>3. QED BY <1>10, <3>2 DEF InSome
  <2>3. QED BY <2>1, <2>2
<1>12. QED BY <1>7, <1>10, <1>11

-----------------------------------------------------------------------------
(* The nodes of the tree: workspaces, and every toplevel view wherever it  *)
(* is; the containers that criteria select are among them.                 *)

ContainerRec == [id : TopLevels \cup {NoView}, nodes : SUBSET TopLevels]
NodeRec == [id : Int, con : ContainerRec]
ViewNodes == {ViewNode(v, nodes) : v \in TopLevels, nodes \in SUBSET TopLevels}
WorkspaceNodes == {WorkspaceNode(i) : i \in 1..NumWorkspaces} \cup {ScratchNode}

LEMMA NodeTypes ==
  /\ ViewNodes \subseteq NodeRec /\ WorkspaceNodes \subseteq NodeRec
  /\ \A x \in ViewNodes : x.con # NoContainer
  /\ \A x \in WorkspaceNodes : x.con = NoContainer
<1>1. \A v \in TopLevels : Id[v] \in Int /\ v # NoView
  BY NamesAssumption, ViewsAssumption
<1>2. \A i \in 1..NumWorkspaces : WorkspaceId(i) \in Int
  BY NamesAssumption, ViewsAssumption DEF WorkspaceId
<1>3. \A v \in TopLevels, nodes \in SUBSET TopLevels :
        /\ ViewNode(v, nodes) \in NodeRec /\ ViewNode(v, nodes).con # NoContainer
  BY <1>1 DEF ViewNode, Container, NodeRec, ContainerRec, NoContainer
<1>4. \A i \in 1..NumWorkspaces :
        /\ WorkspaceNode(i) \in NodeRec /\ WorkspaceNode(i).con = NoContainer
  BY <1>2 DEF WorkspaceNode, Container, NodeRec, ContainerRec, NoContainer
<1>5. ScratchNode \in NodeRec /\ ScratchNode.con = NoContainer
  BY NamesAssumption DEF ScratchNode, Container, NodeRec, ContainerRec, NoContainer
<1>6. QED BY <1>3, <1>4, <1>5 DEF ViewNodes, WorkspaceNodes

LEMMA LeafIn ==
  ASSUME NEW S \in SUBSET TopLevels
  PROVE  /\ Each(S, Leaf) \in Seq(NodeRec)
         /\ \A x : In(x, Each(S, Leaf)) => x \in ViewNodes
<1>1. \A u \in S : Leaf[u] = <<ViewNode(u, {})>> /\ ViewNode(u, {}) \in ViewNodes
  BY DEF Leaf, ViewNodes
<1>2. ASSUME NEW u \in S
      PROVE  Leaf[u] \in Seq(NodeRec) /\ \A x : In(x, Leaf[u]) => x \in ViewNodes
  <2> DEFINE V == ViewNode(u, {})
  <2>1. Leaf[u] = <<V>> /\ V \in ViewNodes /\ V \in NodeRec
    BY <1>1, NodeTypes
  <2> HIDE DEF V
  <2>2. <<V>> \in Seq(NodeRec) /\ \A x : In(x, <<V>>) <=> x = V
    BY <2>1, InOne
  <2>3. QED BY <2>1, <2>2
<1>3. S \in SUBSET Views
  BY ViewsFacts
<1>4. QED BY <1>2, <1>3, EachIn

LEMMA SubtreeIn ==
  ASSUME NEW v \in TopLevels
  PROVE  /\ Subtree[v] \in Seq(NodeRec)
         /\ \A x : In(x, Subtree[v]) => x \in ViewNodes
         /\ In(ViewNode(v, Children(v) \ Above), Subtree[v])
<1> DEFINE A == Children(v) \ Above
           B == Children(v) \cap Above
           V == ViewNode(v, A)
<1>1. A \in SUBSET TopLevels /\ B \in SUBSET TopLevels
  BY DEF Children
<1>2. V \in ViewNodes /\ V \in NodeRec
  BY <1>1, NodeTypes DEF ViewNodes
<1>3. Subtree[v] = <<V>> \o Each(A, Leaf) \o Each(B, Leaf)
  BY DEF Subtree
<1> HIDE DEF A, B, V
<1>4. <<V>> \in Seq(NodeRec) /\ \A x : In(x, <<V>>) <=> x = V
  BY <1>2, InOne
<1>5. /\ <<V>> \o Each(A, Leaf) \in Seq(NodeRec)
      /\ \A x : In(x, <<V>> \o Each(A, Leaf)) <=> In(x, <<V>>) \/ In(x, Each(A, Leaf))
  BY <1>1, <1>4, LeafIn, InConcat
<1>6. /\ Subtree[v] \in Seq(NodeRec)
      /\ \A x : In(x, Subtree[v]) <=> In(x, <<V>> \o Each(A, Leaf)) \/ In(x, Each(B, Leaf))
  <2> DEFINE s == <<V>> \o Each(A, Leaf)
             t == Each(B, Leaf)
  <2>1. s \in Seq(NodeRec) /\ t \in Seq(NodeRec) /\ Subtree[v] = s \o t
    BY <1>1, <1>3, <1>5, LeafIn
  <2> HIDE DEF s, t
  <2>2. /\ s \o t \in Seq(NodeRec)
        /\ \A x : In(x, s \o t) <=> In(x, s) \/ In(x, t)
    BY <2>1, InConcat
  <2>3. QED BY <2>1, <2>2 DEF s, t
<1>7. QED BY <1>1, <1>2, <1>4, <1>5, <1>6, LeafIn DEF V, A

LEMMA SubtreesIn ==
  ASSUME NEW S \in SUBSET TopLevels
  PROVE  /\ Subtrees(S) \in Seq(NodeRec)
         /\ \A x : In(x, Subtrees(S)) => x \in ViewNodes
         /\ \A v \in S : In(ViewNode(v, Children(v) \ Above), Subtrees(S))
<1>1. S \in SUBSET Views
  BY ViewsFacts
<1>2. \A v \in S : Subtree[v] \in Seq(NodeRec)
  BY SubtreeIn
<1>3. /\ Subtrees(S) \in Seq(NodeRec)
      /\ \A x : In(x, Subtrees(S)) <=> \E u \in S : In(x, Subtree[u])
  BY <1>1, <1>2, EachIn DEF Subtrees
<1>4. QED BY <1>3, SubtreeIn

LEMMA TreeIn ==
  ASSUME NEW w \in World
  PROVE  /\ Tree(w) \in Seq(NodeRec)
         /\ \A x : In(x, Tree(w)) => x \in ViewNodes \cup WorkspaceNodes
         /\ \A v \in TopLevels : In(ViewNode(v, Children(v) \ Above), Tree(w))
<1> DEFINE N == NumWorkspaces
           hidden == [i \in 1..N |-> Subtrees(On(i, TRUE, w))]
           shown == [i \in 1..N |-> <<WorkspaceNode(i)>> \o Subtrees(On(i, FALSE, w))
                                    \o Subtrees(On(i, FALSE, w) \cap Raised)]
           Node(v) == ViewNode(v, Children(v) \ Above)
<1>1. \A i \in 1..N, b \in BOOLEAN : On(i, b, w) \in SUBSET TopLevels
  BY DEF On
<1>2. N \in Nat
  BY ViewsAssumption
<1>3. \A v \in TopLevels : w.view[v].ws \in 1..N /\ w.view[v].minimized \in BOOLEAN
  BY ViewsFacts DEF World, ViewRec
<1>4. \A i \in 1..N : /\ hidden[i] \in Seq(NodeRec)
                      /\ \A x : In(x, hidden[i]) => x \in ViewNodes
                      /\ \A v \in On(i, TRUE, w) : In(Node(v), hidden[i])
  BY <1>1, SubtreesIn
<1>5. \A i \in 1..N : /\ shown[i] \in Seq(NodeRec)
                      /\ \A x : In(x, shown[i]) => x \in ViewNodes \cup WorkspaceNodes
                      /\ \A v \in On(i, FALSE, w) : In(Node(v), shown[i])
  <2>1. TAKE i \in 1..N
  <2> DEFINE W == WorkspaceNode(i)
             T == Subtrees(On(i, FALSE, w))
             R == Subtrees(On(i, FALSE, w) \cap Raised)
  <2>2. W \in WorkspaceNodes /\ W \in NodeRec
    BY NodeTypes DEF WorkspaceNodes
  <2>3. /\ T \in Seq(NodeRec) /\ \A x : In(x, T) => x \in ViewNodes
        /\ \A v \in On(i, FALSE, w) : In(Node(v), T)
    BY <1>1, SubtreesIn
  <2>4. R \in Seq(NodeRec) /\ \A x : In(x, R) => x \in ViewNodes
    <3>1. On(i, FALSE, w) \cap Raised \in SUBSET TopLevels
      BY <1>1
    <3>2. QED BY <3>1, SubtreesIn
  <2>5. shown[i] = <<W>> \o T \o R
    OBVIOUS
  <2> HIDE DEF W, T, R, shown, Node
  <2>6. <<W>> \in Seq(NodeRec) /\ \A x : In(x, <<W>>) <=> x = W
    BY <2>2, InOne
  <2> DEFINE WT == <<W>> \o T
  <2>7. WT \in Seq(NodeRec) /\ \A x : In(x, WT) <=> In(x, <<W>>) \/ In(x, T)
    BY <2>3, <2>6, InConcat
  <2>8. shown[i] = WT \o R
    BY <2>5
  <2> HIDE DEF WT
  <2>9. shown[i] \in Seq(NodeRec) /\ \A x : In(x, shown[i]) <=> In(x, WT) \/ In(x, R)
    BY <2>4, <2>7, <2>8, InConcat
  <2>10. QED BY <2>2, <2>3, <2>4, <2>6, <2>7, <2>9
<1>6. hidden \in Seq(Seq(NodeRec)) /\ Len(hidden) = N
  <2>1. hidden \in [1..N -> Seq(NodeRec)]
    BY <1>4
  <2> HIDE DEF hidden, N
  <2>2. QED BY <1>2, <2>1, FunctionIsSeq
<1>7. shown \in Seq(Seq(NodeRec)) /\ Len(shown) = N
  <2>1. shown \in [1..N -> Seq(NodeRec)]
    BY <1>5
  <2> HIDE DEF shown, N
  <2>2. QED BY <1>2, <2>1, FunctionIsSeq
<1> DEFINE scratch == <<ScratchNode>> \o FlattenSeq(hidden)
<1>8. Tree(w) = scratch \o FlattenSeq(shown)
  BY DEF Tree
<1> HIDE DEF hidden, shown, Node, N
<1>9. /\ FlattenSeq(hidden) \in Seq(NodeRec)
      /\ \A x : In(x, FlattenSeq(hidden)) <=> \E i \in 1..N : In(x, hidden[i])
  BY <1>6, FlattenIn DEF InSome
<1>10. /\ FlattenSeq(shown) \in Seq(NodeRec)
       /\ \A x : In(x, FlattenSeq(shown)) <=> \E i \in 1..N : In(x, shown[i])
  BY <1>7, FlattenIn DEF InSome
<1>11. /\ Tree(w) \in Seq(NodeRec)
       /\ \A x : In(x, Tree(w)) <=>
            x = ScratchNode \/ In(x, FlattenSeq(hidden)) \/ In(x, FlattenSeq(shown))
  <2>1. ScratchNode \in NodeRec
    BY NodeTypes DEF WorkspaceNodes
  <2>2. <<ScratchNode>> \in Seq(NodeRec) /\ \A x : In(x, <<ScratchNode>>) <=> x = ScratchNode
    BY <2>1, InOne
  <2>3. /\ scratch \in Seq(NodeRec)
        /\ \A x : In(x, scratch) <=> In(x, <<ScratchNode>>) \/ In(x, FlattenSeq(hidden))
    BY <1>9, <2>2, InConcat
  <2> HIDE DEF scratch
  <2>4. /\ Tree(w) \in Seq(NodeRec)
        /\ \A x : In(x, Tree(w)) <=> In(x, scratch) \/ In(x, FlattenSeq(shown))
    BY <1>8, <1>10, <2>3, InConcat
  <2>5. QED BY <2>2, <2>3, <2>4
<1>12. \A x : In(x, Tree(w)) => x \in ViewNodes \cup WorkspaceNodes
  BY <1>4, <1>5, <1>9, <1>10, <1>11 DEF WorkspaceNodes
<1> HIDE DEF scratch
<1>13. ASSUME NEW v \in TopLevels PROVE In(Node(v), Tree(w))
  <2> DEFINE i == w.view[v].ws
  <2>1. i \in 1..N
    BY <1>3
  <2>2. CASE w.view[v].minimized = TRUE
    <3>1. v \in On(i, TRUE, w)
      BY <2>2 DEF On
    <3> HIDE DEF i
    <3>2. QED BY <1>4, <1>9, <1>11, <2>1, <3>1
  <2>3. CASE w.view[v].minimized = FALSE
    <3>1. v \in On(i, FALSE, w)
      BY <2>3 DEF On
    <3> HIDE DEF i
    <3>2. QED BY <1>5, <1>10, <1>11, <2>1, <3>1
  <2>4. QED BY <1>3, <2>2, <2>3
<1>14. QED BY <1>11, <1>12, <1>13 DEF Node

\* matches_container
Matches(c, node, w) ==
  IF node.con = NoContainer THEN c.con_id # 0 /\ node.id = c.con_id
  ELSE MatchesView(c, node.con.id, w)

LEMMA GetContainersIn ==
  ASSUME NEW w \in World, NEW tokens
  PROVE  /\ GetContainers(tokens, w) \in Seq(ContainerRec)
         /\ \A con : In(con, GetContainers(tokens, w)) <=>
              \E node : In(node, Tree(w)) /\ Matches(Parse(tokens, w), node, w) /\ con = node.con
<1> DEFINE tree == Tree(w)
           M(node) == Matches(Parse(tokens, w), node, w)
           parts == [i \in DOMAIN tree |-> IF M(tree[i]) THEN <<tree[i].con>> ELSE <<>>]
<1>1. tree \in Seq(NodeRec)
  BY TreeIn
<1>2. GetContainers(tokens, w) = FlattenSeq(parts)
  BY DEF GetContainers, Matches
<1> HIDE DEF tree, M
<1>3. \A i \in 1..Len(tree) : /\ parts[i] \in Seq(ContainerRec)
                              /\ \A x : In(x, parts[i]) <=> M(tree[i]) /\ x = tree[i].con
  <2>1. TAKE i \in 1..Len(tree)
  <2>2. tree[i].con \in ContainerRec
    <3>1. tree[i] \in NodeRec
      BY <1>1
    <3>2. QED BY <3>1 DEF NodeRec
  <2>3. CASE M(tree[i])
    <3>1. parts[i] = <<tree[i].con>>
      BY <1>1, <2>3
    <3> HIDE DEF parts
    <3> QED BY <2>2, <2>3, <3>1, InOne
  <2>4. CASE ~M(tree[i])
    <3>1. parts[i] = <<>>
      BY <1>1, <2>4
    <3> HIDE DEF parts
    <3> QED BY <2>4, <3>1, InNone
  <2>5. QED BY <2>3, <2>4
<1>4. parts \in Seq(Seq(ContainerRec)) /\ Len(parts) = Len(tree)
  <2>1. Len(tree) \in Nat /\ DOMAIN tree = 1..Len(tree)
    BY <1>1
  <2>2. parts \in [1..Len(tree) -> Seq(ContainerRec)]
    BY <1>3, <2>1
  <2> HIDE DEF parts
  <2>3. QED BY <2>1, <2>2, FunctionIsSeq
<1> HIDE DEF parts
<1>5. /\ FlattenSeq(parts) \in Seq(ContainerRec)
      /\ \A x : In(x, FlattenSeq(parts)) <=> InSome(x, Len(tree), parts)
  BY <1>4, FlattenIn
<1>6. \A x : InSome(x, Len(tree), parts) <=> \E node : In(node, tree) /\ M(node) /\ x = node.con
  BY ZenonT(30), <1>3 DEF InSome, In
<1>7. QED BY <1>2, <1>5, <1>6 DEF M, tree

-----------------------------------------------------------------------------
(* What the parser makes of a list of tokens, one token after the other.   *)

LEMMA MaxIs ==
  ASSUME NEW m \in Nat, NEW s \in SUBSET (1..m), m \in s
  PROVE  Max(s) = m
<1>1. \A x \in s : x \in 1..m
  OBVIOUS
<1>2. \A y \in s : m >= y
  BY <1>1
<1>3. Max(s) \in s /\ \A y \in s : Max(s) >= y
  BY <1>2, Zenon DEF Max
<1>4. Max(s) \in 1..m /\ Max(s) >= m
  BY <1>1, <1>3, Zenon
<1>5. QED BY <1>4

\* The function that folds the parser over sets of positions.
ParseStep(f, s, tokens, w) ==
  IF s = {} THEN NoCriteria ELSE ParseToken(f[s \ {Max(s)}], tokens[Max(s)], w)
Folds(f, n, tokens, w) == f = [s \in SUBSET (1..n) |-> ParseStep(f, s, tokens, w)]

LEMMA ParseFunction ==
  ASSUME NEW n \in Nat, NEW tokens, NEW w
  PROVE  \E f : Folds(f, n, tokens, w)
<1> DEFINE Step(f, s) == ParseStep(f, s, tokens, w)
           Fits(f, k) == f = [s \in SUBSET (1..k) |-> Step(f, s)]
           S == {k \in Nat : \E f : Fits(f, k)}
<1>1. 0 \in S
  <2> DEFINE f == [s \in SUBSET (1..0) |-> NoCriteria]
  <2>1. \A s \in SUBSET (1..0) : Step(f, s) = NoCriteria
    BY DEF ParseStep
  <2>2. Fits(f, 0)
    <3> HIDE DEF Step
    <3> QED BY <2>1
  <2>3. \E h : Fits(h, 0)
    <3> HIDE DEF Fits, f
    <3> QED BY <2>2
  <2> HIDE DEF Fits
  <2>4. QED BY <2>3
<1>2. ASSUME NEW k \in Nat, k \in S PROVE k + 1 \in S
  <2>1. PICK f : Fits(f, k)
    BY <1>2
  <2> DEFINE m == k + 1
             g == [s \in SUBSET (1..m) |->
                    IF m \in s THEN ParseToken(f[s \ {m}], tokens[m], w) ELSE f[s]]
  <2>2. ASSUME NEW s \in SUBSET (1..m) PROVE g[s] = Step(g, s)
    <3>1. CASE m \in s
      <4>1. Max(s) = m
        BY <2>2, <3>1, MaxIs
      <4>2. s \ {m} \in SUBSET (1..m) /\ m \notin s \ {m}
        BY <2>2
      <4>3. g[s \ {m}] = f[s \ {m}]
        BY <4>2
      <4>4. g[s] = ParseToken(f[s \ {m}], tokens[m], w)
        BY <2>2, <3>1, Zenon
      <4> HIDE DEF g, m
      <4>5. Step(g, s) = ParseToken(g[s \ {m}], tokens[m], w)
        BY <3>1, <4>1 DEF ParseStep
      <4>6. QED BY <4>3, <4>4, <4>5
    <3>2. CASE m \notin s
      <4>1. s \in SUBSET (1..k) /\ s \ {Max(s)} \in SUBSET (1..k)
        <5>1. \A x \in s : x \in 1..k
          BY <2>2, <3>2
        <5>2. QED BY <5>1
      <4>2. f[s] = Step(f, s)
        <5> HIDE DEF Step
        <5> QED BY <2>1, <4>1
      <4>3. g[s] = f[s]
        BY <2>2, <3>2
      <4>4. g[s \ {Max(s)}] = f[s \ {Max(s)}]
        BY <2>2, <3>2, <4>1
      <4> HIDE DEF g
      <4>5. QED BY <4>2, <4>3, <4>4 DEF ParseStep
    <3>3. QED BY <3>1, <3>2
  <2>3. Fits(g, m)
    <3>1. g = [s \in SUBSET (1..m) |-> g[s]]
      OBVIOUS
    <3> HIDE DEF g, Step
    <3>2. QED BY <2>2, <3>1
  <2>4. \E h : Fits(h, m)
    <3> HIDE DEF Fits, g
    <3> QED BY <2>3
  <2> HIDE DEF Fits
  <2>5. QED BY <2>4
<1>3. n \in S
  <2> HIDE DEF S
  <2> QED BY <1>1, <1>2, SetInduction
<1>4. QED BY <1>3 DEF Folds

LEMMA ParseSteps ==
  ASSUME NEW V, NEW tokens \in Seq(V), NEW w
  PROVE  \E r : /\ r[0] = NoCriteria /\ r[Len(tokens)] = Parse(tokens, w)
                /\ \A k \in 1..Len(tokens) : r[k] = ParseToken(r[k - 1], tokens[k], w)
<1> DEFINE n == Len(tokens)
           Step(f, s) == ParseStep(f, s, tokens, w)
           Fits(f) == f = [s \in SUBSET (1..n) |-> Step(f, s)]
           e == CHOOSE f : Fits(f)
           r == [k \in 0..n |-> e[1..k]]
<1>1. n \in Nat /\ DOMAIN tokens = 1..n
  OBVIOUS
<1>2. \E f : Fits(f)
  <2>1. PICK h : Folds(h, n, tokens, w)
    <3> HIDE DEF n
    <3> QED BY <1>1, ParseFunction, Zenon
  <2>2. Fits(h)
    BY <2>1, Zenon DEF Folds
  <2> HIDE DEF Fits
  <2>3. QED BY <2>2
<1>3. Fits(e)
  <2> HIDE DEF Fits
  <2> QED BY <1>2, Zenon
<1>4. Parse(tokens, w) = e[1..n]
  BY <1>1 DEF Parse, FoldLeft, MapThenFoldSet, ParseStep
<1>5. \A s \in SUBSET (1..n) : e[s] = Step(e, s)
  <2> HIDE DEF e, Step
  <2> QED BY <1>3
<1> HIDE DEF e
<1>6. r[0] = NoCriteria
  <2>1. r[0] = e[{}]
    BY <1>1
  <2>2. {} \in SUBSET (1..n)
    OBVIOUS
  <2>3. QED BY <1>5, <2>1, <2>2 DEF ParseStep
<1>7. r[n] = Parse(tokens, w)
  <2>1. n \in 0..n
    BY <1>1
  <2>2. r[n] = e[1..n]
    BY <2>1
  <2>3. QED BY <1>4, <2>2
<1>8. ASSUME NEW k \in 1..n PROVE r[k] = ParseToken(r[k - 1], tokens[k], w)
  <2>1. 1..k \in SUBSET (1..n) /\ 1..k # {} /\ (1..k) \ {k} = 1..k - 1
    <3>1. n \in Nat /\ k \in Nat /\ 1 <= k /\ k <= n
      BY <1>1
    <3> HIDE DEF n, r, Step
    <3>2. 1..k \in SUBSET (1..n)
      BY <3>1
    <3>3. k \in 1..k
      BY <3>1
    <3>4. ASSUME NEW i \in 1..k, i # k PROVE i \in 1..k - 1
      BY <3>1, <3>4
    <3>5. ASSUME NEW i \in 1..k - 1 PROVE i \in 1..k /\ i # k
      BY <3>1, <3>5
    <3>6. (1..k) \ {k} = 1..k - 1
      BY ONLY <3>4, <3>5, Zenon
    <3>7. 1..k # {}
      BY ONLY <3>3, Zenon
    <3>8. QED BY <3>2, <3>6, <3>7
  <2>2. Max(1..k) = k
    BY <1>1, MaxIs
  <2>3. r[k] = e[1..k] /\ r[k - 1] = e[1..k - 1]
    BY <1>1
  <2> HIDE DEF r
  <2>4. QED BY <1>5, <2>1, <2>2, <2>3 DEF ParseStep
<1> HIDE DEF r
<1>9. QED BY <1>6, <1>7, <1>8

-----------------------------------------------------------------------------
(* Criteria that are understood select what they mean.                     *)

LEMMA ActiveIn ==
  ASSUME NEW w
  PROVE  ActiveView(w) \in Views \cup {NoView}
<1> DEFINE S == {v \in Views : Visible(w, v)}
           D == {i \in 1..Len(AllViews) : AllViews[i] \in S}
<1>1. CASE ~w.focus \/ S = {}
  BY <1>1 DEF ActiveView, First
<1>2. CASE w.focus /\ S # {}
  <2>1. D # {} /\ D \subseteq Nat
    BY <1>2, ViewsFacts
  <2>2. PICK m \in D : \A t \in D : m <= t
    <3> HIDE DEF D
    <3> QED BY <2>1, LeastNat
  <2>3. m \in DOMAIN AllViews /\ AllViews[m] \in S /\ \A j \in 1..m - 1 : AllViews[j] \notin S
    <3> HIDE DEF S
    <3>1. m \in 1..Len(AllViews) /\ Len(AllViews) \in Nat /\ DOMAIN AllViews = 1..Len(AllViews)
      BY <2>2, ViewsFacts
    <3>2. \A j \in 1..m - 1 : j \notin D
      <4>1. \A j \in 1..m - 1 : ~(m <= j)
        BY <3>1
      <4>2. QED BY <2>2, <4>1
    <3>3. \A j \in 1..m - 1 : j \in 1..Len(AllViews)
      BY <3>1
    <3>4. QED BY <2>2, <3>1, <3>2, <3>3
  <2> DEFINE c == CHOOSE i \in DOMAIN AllViews :
                    AllViews[i] \in S /\ \A j \in 1..i - 1 : AllViews[j] \notin S
  <2>4. ActiveView(w) = AllViews[c]
    BY <1>2 DEF ActiveView, First
  <2> HIDE DEF S
  <2>5. AllViews[c] \in S
    BY <2>3, Zenon
  <2>6. QED BY <2>4, <2>5 DEF S
<1>3. QED BY <1>1, <1>2

\* The record after k tokens of which no two have the same name.
Made(a, f, m, p, s, n, q) ==
  [all |-> a, floating |-> f, tiling |-> FALSE, con_mark |-> m,
   app_id |-> p, shell |-> s, workspace |-> NoPattern, con_id |-> n, pid |-> q]
Shape(c) == \E a, f, m, p, s, n, q : c = Made(a, f, m, p, s, n, q)
Absent(name, k, tokens) == \A i \in 1..k : tokens[i].name # name
Named(name, k, tokens) == {i \in 1..k : tokens[i].name = name}
ConId(t, w) == IF t.focused THEN FocusedId(w) ELSE The(t.value)
Field(c, k, tokens, w) ==
  /\ Shape(c)
  /\ c.floating = ~Absent("floating", k, tokens)
  /\ \A i \in Named("app_id", k, tokens) : c.app_id = Pattern(tokens[i])
  /\ Absent("app_id", k, tokens) => c.app_id = NoPattern
  /\ \A i \in Named("shell", k, tokens) : c.shell = Pattern(tokens[i])
  /\ Absent("shell", k, tokens) => c.shell = NoPattern
  /\ \A i \in Named("con_id", k, tokens) : c.con_id = ConId(tokens[i], w)
  /\ Absent("con_id", k, tokens) => c.con_id = 0
  /\ \A i \in Named("pid", k, tokens) : c.pid = The(tokens[i].value)
  /\ Absent("pid", k, tokens) => c.pid = 0

LEMMA FieldStep ==
  ASSUME NEW w, NEW tokens, NEW k \in Nat, NEW c, Field(c, k, tokens, w),
         tokens[k + 1].name \in {"app_id", "shell", "con_id", "pid", "floating", "all"},
         \A j \in 1..k : tokens[j].name # tokens[k + 1].name
  PROVE  Field(ParseToken(c, tokens[k + 1], w), k + 1, tokens, w)
<1> DEFINE t == tokens[k + 1]
           d == ParseToken(c, t, w)
<1>0. PICK a, f, m, p, s, n, q : c = Made(a, f, m, p, s, n, q)
  BY DEF Field, Shape
<1>1. k + 1 \in 1..k + 1 /\ \A i : i \in 1..k + 1 <=> i \in 1..k \/ i = k + 1
  OBVIOUS
<1>2. ASSUME NEW x
      PROVE  /\ Absent(x, k + 1, tokens) <=> Absent(x, k, tokens) /\ t.name # x
             /\ t.name # x => Named(x, k + 1, tokens) = Named(x, k, tokens)
             /\ t.name = x => Named(x, k + 1, tokens) = {k + 1}
  <2>1. Absent(x, k + 1, tokens) <=> Absent(x, k, tokens) /\ t.name # x
    BY <1>1 DEF Absent
  <2>2. t.name # x => Named(x, k + 1, tokens) = Named(x, k, tokens)
    BY <1>1 DEF Named
  <2>3. t.name = x => Named(x, k + 1, tokens) = {k + 1}
    BY <1>1 DEF Named
  <2>4. QED BY <2>1, <2>2, <2>3
<1>3. CASE t.name = "app_id"
  <2>1. d = Made(a, f, m, Pattern(t), s, n, q)
    BY <1>0, <1>3 DEF ParseToken, Made
  <2> HIDE DEF d
  <2>2. /\ Shape(d) /\ d.app_id = Pattern(t)
        /\ d.floating = c.floating /\ d.con_id = c.con_id /\ d.pid = c.pid /\ d.shell = c.shell
    <3>1. Shape(d)
      BY <2>1, Zenon DEF Shape
    <3>2. QED BY <1>0, <2>1, <3>1 DEF Made
  <2>3. Field(d, k + 1, tokens, w)
    BY <1>2, <1>3, <2>2 DEF Field
  <2>4. QED BY <2>3 DEF d
<1>4. CASE t.name = "con_id"
  <2>1. d = Made(a, f, m, p, s, ConId(t, w), q)
    BY <1>0, <1>4 DEF ParseToken, ConId, Made
  <2> HIDE DEF d
  <2>2. /\ Shape(d) /\ d.con_id = ConId(t, w)
        /\ d.floating = c.floating /\ d.app_id = c.app_id /\ d.pid = c.pid /\ d.shell = c.shell
    <3>1. Shape(d)
      BY <2>1, Zenon DEF Shape
    <3>2. QED BY <1>0, <2>1, <3>1 DEF Made
  <2>3. Field(d, k + 1, tokens, w)
    BY <1>2, <1>4, <2>2 DEF Field
  <2>4. QED BY <2>3 DEF d
<1>5. CASE t.name = "pid"
  <2>1. d = Made(a, f, m, p, s, n, The(t.value))
    BY <1>0, <1>5 DEF ParseToken, Made
  <2> HIDE DEF d
  <2>2. /\ Shape(d) /\ d.pid = The(t.value)
        /\ d.floating = c.floating /\ d.app_id = c.app_id /\ d.con_id = c.con_id
        /\ d.shell = c.shell
    <3>1. Shape(d)
      BY <2>1, Zenon DEF Shape
    <3>2. QED BY <1>0, <2>1, <3>1 DEF Made
  <2>3. Field(d, k + 1, tokens, w)
    BY <1>2, <1>5, <2>2 DEF Field
  <2>4. QED BY <2>3 DEF d
<1>6. CASE t.name = "floating"
  <2>1. d = Made(a, TRUE, m, p, s, n, q)
    BY <1>0, <1>6 DEF ParseToken, Made
  <2> HIDE DEF d
  <2>2. /\ Shape(d) /\ d.floating = TRUE
        /\ d.app_id = c.app_id /\ d.con_id = c.con_id /\ d.pid = c.pid /\ d.shell = c.shell
    <3>1. Shape(d)
      BY <2>1, Zenon DEF Shape
    <3>2. QED BY <1>0, <2>1, <3>1 DEF Made
  <2>3. Field(d, k + 1, tokens, w)
    BY <1>2, <1>6, <2>2 DEF Field
  <2>4. QED BY <2>3 DEF d
<1>7. CASE t.name = "all"
  <2>1. d = Made(TRUE, f, m, p, s, n, q)
    BY <1>0, <1>7 DEF ParseToken, Made
  <2> HIDE DEF d
  <2>2. /\ Shape(d) /\ d.floating = c.floating
        /\ d.app_id = c.app_id /\ d.con_id = c.con_id /\ d.pid = c.pid /\ d.shell = c.shell
    <3>1. Shape(d)
      BY <2>1, Zenon DEF Shape
    <3>2. QED BY <1>0, <2>1, <3>1 DEF Made
  <2>3. Field(d, k + 1, tokens, w)
    BY <1>2, <1>7, <2>2 DEF Field
  <2>4. QED BY <2>3 DEF d
<1>8. CASE t.name = "shell"
  <2>1. d = Made(a, f, m, p, Pattern(t), n, q)
    BY <1>0, <1>8 DEF ParseToken, Made
  <2> HIDE DEF d
  <2>2. /\ Shape(d) /\ d.shell = Pattern(t)
        /\ d.floating = c.floating /\ d.app_id = c.app_id /\ d.con_id = c.con_id
        /\ d.pid = c.pid
    <3>1. Shape(d)
      BY <2>1, Zenon DEF Shape
    <3>2. QED BY <1>0, <2>1, <3>1 DEF Made
  <2>3. Field(d, k + 1, tokens, w)
    BY <1>2, <1>8, <2>2 DEF Field
  <2>4. QED BY <2>3 DEF d
<1>9. QED BY <1>3, <1>4, <1>5, <1>6, <1>7, <1>8

LEMMA Parsed ==
  ASSUME NEW V, NEW tokens \in Seq(V), NEW w, Understood(tokens, w)
  PROVE  Field(Parse(tokens, w), Len(tokens), tokens, w)
<1> DEFINE n == Len(tokens)
<1>1. PICK r : /\ r[0] = NoCriteria /\ r[n] = Parse(tokens, w)
               /\ \A k \in 1..n : r[k] = ParseToken(r[k - 1], tokens[k], w)
  BY ParseSteps, Zenon
<1> DEFINE S == {k \in Nat : k <= n => Field(r[k], k, tokens, w)}
<1>2. 0 \in S
  <2>1. Field(NoCriteria, 0, tokens, w)
    <3>1. NoCriteria = Made(FALSE, FALSE, FALSE, NoPattern, NoPattern, 0, 0)
      BY DEF NoCriteria, Made
    <3>2. \A x : Absent(x, 0, tokens) /\ Named(x, 0, tokens) = {}
      BY DEF Absent, Named
    <3>3. Shape(NoCriteria)
      BY <3>1 DEF Shape
    <3>4. QED BY <3>2, <3>3 DEF Field, NoCriteria
  <2>2. QED BY <1>1, <2>1
<1>3. ASSUME NEW k \in Nat, k \in S PROVE k + 1 \in S
  <2>1. CASE ~(k + 1 <= n)
    BY <2>1
  <2>2. CASE k + 1 <= n
    <3>1. k + 1 \in 1..n /\ k + 1 - 1 = k /\ k <= n /\ DOMAIN tokens = 1..n
      BY <2>2
    <3>2. Field(r[k], k, tokens, w)
      BY <1>3, <3>1
    <3>3. r[k + 1] = ParseToken(r[k], tokens[k + 1], w)
      <4>1. r[k + 1] = ParseToken(r[(k + 1) - 1], tokens[k + 1], w)
        BY <1>1, <3>1
      <4>2. QED BY <3>1, <4>1
    <3>4. /\ tokens[k + 1].name \in {"app_id", "shell", "con_id", "pid", "floating", "all"}
          /\ \A j \in 1..k : tokens[j].name # tokens[k + 1].name
      BY <3>1 DEF Understood
    <3>5. Field(r[k + 1], k + 1, tokens, w)
      BY <3>2, <3>3, <3>4, FieldStep
    <3>6. QED BY <3>5
  <2>3. QED BY <2>1, <2>2
<1>4. Nat \subseteq S
  <2> HIDE DEF S
  <2> QED BY <1>2, <1>3, SetInduction
<1>5. n \in Nat /\ n <= n
  OBVIOUS
<1>6. QED BY <1>1, <1>4, <1>5

\* Two tokens have different names.
LEMMA OnlyOne ==
  ASSUME NEW V, NEW tokens \in Seq(V), NEW w, Understood(tokens, w),
         NEW k \in 1..Len(tokens)
  PROVE  Named(tokens[k].name, Len(tokens), tokens) = {k}
<1> DEFINE n == Len(tokens)
<1>1. \A i, j \in 1..n : j < i => tokens[j].name # tokens[i].name
  <2>1. \A i, j \in 1..n : j < i => i \in DOMAIN tokens /\ j \in 1..i - 1
    OBVIOUS
  <2>2. QED BY <2>1 DEF Understood
<1>2. \A i \in 1..n : tokens[i].name = tokens[k].name => i = k
  BY <1>1
<1>3. QED BY <1>2 DEF Named

\* What each kind of token contributes to matches_view.
LEMMA AppMatches ==
  ASSUME NEW V, NEW tokens \in Seq(V), NEW w, Understood(tokens, w), NEW v \in TopLevels,
         NEW c, Field(c, Len(tokens), tokens, w)
  PROVE  (/\ c.app_id.on /\ c.app_id.focused /\ ActiveView(w) # NoView => App[v] = App[ActiveView(w)]
          /\ c.app_id.on /\ ~c.app_id.focused => App[v] \in c.app_id.names)
         <=> \A i \in Named("app_id", Len(tokens), tokens) : Means(tokens[i], v, w)
<1> DEFINE n == Len(tokens)
<1>1. CASE Absent("app_id", n, tokens)
  <2>1. c.app_id = NoPattern /\ Named("app_id", n, tokens) = {}
    BY <1>1 DEF Field, Absent, Named
  <2>2. QED BY <2>1 DEF NoPattern
<1>2. CASE ~Absent("app_id", n, tokens)
  <2>1. PICK k \in 1..n : tokens[k].name = "app_id"
    BY <1>2 DEF Absent
  <2>2. Named("app_id", n, tokens) = {k}
    BY <2>1, OnlyOne
  <2> DEFINE t == tokens[k]
  <2>3. c.app_id = Pattern(t)
    BY <2>2 DEF Field
  <2>4. t.focused => ActiveView(w) # NoView
    <3>1. k \in DOMAIN tokens /\ t.name = "app_id"
      BY <2>1
    <3>2. QED BY <3>1 DEF Understood
  <2>5. Means(t, v, w) <=> IF t.focused THEN App[v] = App[ActiveView(w)] ELSE App[v] \in t.value
    BY <2>1 DEF Means
  <2> HIDE DEF t
  <2>6. QED BY <2>2, <2>3, <2>4, <2>5 DEF Pattern, t
<1>3. QED BY <1>1, <1>2

LEMMA ShellMatches ==
  ASSUME NEW V, NEW tokens \in Seq(V), NEW w, Understood(tokens, w), NEW v \in TopLevels,
         NEW c, Field(c, Len(tokens), tokens, w)
  PROVE  (/\ c.shell.on /\ c.shell.focused =>
               ActiveView(w) \in TopLevels /\ Shell[v] = Shell[ActiveView(w)]
          /\ c.shell.on /\ ~c.shell.focused => Shell[v] \in c.shell.names)
         <=> \A i \in Named("shell", Len(tokens), tokens) : Means(tokens[i], v, w)
<1> DEFINE n == Len(tokens)
<1>1. CASE Absent("shell", n, tokens)
  <2>1. c.shell = NoPattern /\ Named("shell", n, tokens) = {}
    BY <1>1 DEF Field, Absent, Named
  <2>2. QED BY <2>1 DEF NoPattern
<1>2. CASE ~Absent("shell", n, tokens)
  <2>1. PICK k \in 1..n : tokens[k].name = "shell"
    BY <1>2 DEF Absent
  <2>2. Named("shell", n, tokens) = {k}
    BY <2>1, OnlyOne
  <2> DEFINE t == tokens[k]
  <2>3. c.shell = Pattern(t)
    BY <2>2 DEF Field
  <2>4. Means(t, v, w) <=>
          IF t.focused THEN ActiveView(w) \in TopLevels /\ Shell[v] = Shell[ActiveView(w)]
          ELSE Shell[v] \in t.value
    BY <2>1 DEF Means
  <2> HIDE DEF t
  <2>5. QED BY <2>2, <2>3, <2>4 DEF Pattern, t
<1>3. QED BY <1>1, <1>2

LEMMA ConIdMatches ==
  ASSUME NEW V, NEW tokens \in Seq(V), NEW w, Understood(tokens, w), NEW v \in TopLevels,
         NEW c, Field(c, Len(tokens), tokens, w)
  PROVE  (c.con_id # 0 => Id[v] = c.con_id)
         <=> \A i \in Named("con_id", Len(tokens), tokens) : Means(tokens[i], v, w)
<1> DEFINE n == Len(tokens)
<1>1. CASE Absent("con_id", n, tokens)
  <2>1. c.con_id = 0 /\ Named("con_id", n, tokens) = {}
    BY <1>1 DEF Field, Absent, Named
  <2>2. QED BY <2>1
<1>2. CASE ~Absent("con_id", n, tokens)
  <2>1. PICK k \in 1..n : tokens[k].name = "con_id"
    BY <1>2 DEF Absent
  <2>2. Named("con_id", n, tokens) = {k}
    BY <2>1, OnlyOne
  <2> DEFINE t == tokens[k]
             a == ActiveView(w)
  <2>3. c.con_id = ConId(t, w)
    BY <2>2 DEF Field
  <2>4. /\ t.focused => a # NoView
        /\ ~t.focused => 0 \notin t.value /\ \E x \in t.value : t.value = {x}
    <3>1. k \in DOMAIN tokens
      BY <2>1
    <3>2. QED BY <2>1, <3>1 DEF Understood
  <2>5. Means(t, v, w) <=> IF t.focused THEN v = a ELSE Id[v] \in t.value
    BY <2>1 DEF Means
  <2>6. CASE t.focused
    <3>1. a \in Views /\ v \in Views
      BY <2>4, <2>6, ActiveIn, ViewsFacts
    <3>2. c.con_id = Id[a]
      BY <2>3, <2>4, <2>6 DEF ConId, FocusedId
    <3>3. Id[a] # 0 /\ (Id[v] = Id[a] <=> v = a)
      BY <3>1, NamesAssumption
    <3> HIDE DEF t, a
    <3>4. QED BY <2>2, <2>5, <2>6, <3>2, <3>3 DEF t
  <2>7. CASE ~t.focused
    <3>1. PICK x \in t.value : t.value = {x}
      BY <2>4, <2>7
    <3>2. c.con_id = x /\ x # 0
      BY <2>3, <2>4, <2>7, <3>1 DEF ConId, The
    <3> HIDE DEF t, a
    <3>3. QED BY <2>2, <2>5, <2>7, <3>1, <3>2 DEF t
  <2>8. QED BY <2>6, <2>7
<1>3. QED BY <1>1, <1>2

LEMMA PidMatches ==
  ASSUME NEW V, NEW tokens \in Seq(V), NEW w, Understood(tokens, w), NEW v \in TopLevels,
         NEW c, Field(c, Len(tokens), tokens, w)
  PROVE  (c.pid # 0 => Pid[v] = c.pid)
         <=> \A i \in Named("pid", Len(tokens), tokens) : Means(tokens[i], v, w)
<1> DEFINE n == Len(tokens)
<1>1. CASE Absent("pid", n, tokens)
  <2>1. c.pid = 0 /\ Named("pid", n, tokens) = {}
    BY <1>1 DEF Field, Absent, Named
  <2>2. QED BY <2>1
<1>2. CASE ~Absent("pid", n, tokens)
  <2>1. PICK k \in 1..n : tokens[k].name = "pid"
    BY <1>2 DEF Absent
  <2>2. Named("pid", n, tokens) = {k}
    BY <2>1, OnlyOne
  <2> DEFINE t == tokens[k]
  <2>3. c.pid = The(t.value)
    BY <2>2 DEF Field
  <2>4. 0 \notin t.value /\ \E x \in t.value : t.value = {x}
    <3>1. k \in DOMAIN tokens
      BY <2>1
    <3>2. QED BY <2>1, <3>1 DEF Understood
  <2>5. Means(t, v, w) <=> Pid[v] \in t.value
    BY <2>1 DEF Means
  <2>6. PICK x \in t.value : t.value = {x}
    BY <2>4
  <2>7. c.pid = x /\ x # 0
    BY <2>3, <2>4, <2>6 DEF The
  <2> HIDE DEF t
  <2>8. QED BY <2>2, <2>5, <2>6, <2>7 DEF t
<1>3. QED BY <1>1, <1>2

LEMMA FloatingMatches ==
  ASSUME NEW V, NEW tokens \in Seq(V), NEW w, NEW v \in TopLevels,
         NEW c, Field(c, Len(tokens), tokens, w)
  PROVE  (c.floating => v \in Floating)
         <=> \A i \in Named("floating", Len(tokens), tokens) : Means(tokens[i], v, w)
<1> DEFINE N == Named("floating", Len(tokens), tokens)
<1>1. c.floating <=> N # {}
  BY DEF Field, Absent, Named
<1>2. \A i \in N : Means(tokens[i], v, w) <=> v \in Floating
  BY DEF Named, Means
<1> HIDE DEF N
<1>3. QED BY <1>1, <1>2 DEF N

LEMMA MatchesMeans ==
  ASSUME NEW V, NEW tokens \in Seq(V), NEW w, Understood(tokens, w), NEW v \in TopLevels
  PROVE  MatchesView(Parse(tokens, w), v, w) <=> \A i \in DOMAIN tokens : Means(tokens[i], v, w)
<1> DEFINE n == Len(tokens)
           c == Parse(tokens, w)
           N(x) == \A i \in Named(x, n, tokens) : Means(tokens[i], v, w)
<1>1. Field(c, n, tokens, w)
  BY Parsed
<1>2. ~c.tiling /\ ~c.workspace.on
  BY <1>1 DEF Field, Shape, Made, NoPattern
<1>3. (/\ c.app_id.on /\ c.app_id.focused /\ ActiveView(w) # NoView => App[v] = App[ActiveView(w)]
       /\ c.app_id.on /\ ~c.app_id.focused => App[v] \in c.app_id.names) <=> N("app_id")
  <2> HIDE DEF c
  <2> QED BY <1>1, AppMatches
<1>4. (c.con_id # 0 => Id[v] = c.con_id) <=> N("con_id")
  <2> HIDE DEF c
  <2> QED BY <1>1, ConIdMatches
<1>5. (c.pid # 0 => Pid[v] = c.pid) <=> N("pid")
  <2> HIDE DEF c
  <2> QED BY <1>1, PidMatches
<1>6. (c.floating => v \in Floating) <=> N("floating")
  <2> HIDE DEF c
  <2> QED BY <1>1, FloatingMatches
<1>7. (/\ c.shell.on /\ c.shell.focused =>
            ActiveView(w) \in TopLevels /\ Shell[v] = Shell[ActiveView(w)]
       /\ c.shell.on /\ ~c.shell.focused => Shell[v] \in c.shell.names) <=> N("shell")
  <2> HIDE DEF c
  <2> QED BY <1>1, ShellMatches
<1>8. N("all")
  BY DEF Named, Means
<1>9. (\A i \in DOMAIN tokens : Means(tokens[i], v, w))
      <=> N("app_id") /\ N("shell") /\ N("con_id") /\ N("pid") /\ N("floating") /\ N("all")
  <2>1. DOMAIN tokens = 1..n
    OBVIOUS
  <2>2. \A i \in 1..n : tokens[i].name \in {"app_id", "shell", "con_id", "pid", "floating", "all"}
    BY <2>1 DEF Understood
  <2>3. QED BY <2>1, <2>2 DEF Named
<1> HIDE DEF c, N
<1>10. QED BY <1>2, <1>3, <1>4, <1>5, <1>6, <1>7, <1>8, <1>9 DEF MatchesView, c

Ids(s) == {con.id : con \in {x \in ContainerRec : In(x, s)}}

LEMMA NoWorkspace ==
  ASSUME NEW V, NEW tokens \in Seq(V), NEW w, Understood(tokens, w),
         NEW x \in WorkspaceNodes
  PROVE  ~Matches(Parse(tokens, w), x, w)
<1> DEFINE c == Parse(tokens, w)
           n == Len(tokens)
<1> DEFINE N == {WorkspaceId(j) : j \in 1..NumWorkspaces} \cup {ScratchId}
<1>1. (\E j \in 1..NumWorkspaces : x = WorkspaceNode(j)) \/ x = ScratchNode
  BY DEF WorkspaceNodes
<1>2. x.con = NoContainer /\ x.id \in N
  BY <1>1, NodeTypes DEF WorkspaceNode, ScratchNode
<1>3. Field(c, n, tokens, w)
  BY Parsed
<1>4. c.con_id # 0 => c.con_id \notin N
  <2>1. CASE Absent("con_id", n, tokens)
    BY <1>3, <2>1 DEF Field
  <2>2. CASE ~Absent("con_id", n, tokens)
    <3>1. PICK k \in 1..n : tokens[k].name = "con_id"
      BY <2>2 DEF Absent
    <3> DEFINE t == tokens[k]
    <3>2. c.con_id = ConId(t, w)
      BY <1>3, <3>1 DEF Field, Named
    <3>3. (IF t.focused THEN FocusedId(w) ELSE The(t.value)) \notin N
      <4>1. k \in DOMAIN tokens
        BY <3>1
      <4>2. QED BY <3>1, <4>1 DEF Understood
    <3>4. QED BY <3>2, <3>3 DEF ConId
  <2>3. QED BY <2>1, <2>2
<1>5. QED BY <1>2, <1>4 DEF Matches

LEMMA SelectedFound ==
  ASSUME NEW V, NEW tokens \in Seq(V), NEW w \in World, Understood(tokens, w)
  PROVE  Ids(GetContainers(tokens, w)) = Selected(tokens, w)
<1> DEFINE G == GetContainers(tokens, w)
           c == Parse(tokens, w)
<1>1. /\ G \in Seq(ContainerRec)
      /\ \A con : In(con, G) <=> \E node : In(node, Tree(w)) /\ Matches(c, node, w) /\ con = node.con
  BY GetContainersIn
<1>2. \A v \in TopLevels, nodes \in SUBSET TopLevels :
        Matches(c, ViewNode(v, nodes), w) <=> v \in Selected(tokens, w)
  <2>1. TAKE v \in TopLevels, nodes \in SUBSET TopLevels
  <2>2. ViewNode(v, nodes) \in ViewNodes
    BY DEF ViewNodes
  <2>3. ViewNode(v, nodes).con # NoContainer /\ ViewNode(v, nodes).con.id = v
    BY <2>2, NodeTypes DEF ViewNode, Container
  <2>4. MatchesView(c, v, w) <=> v \in Selected(tokens, w)
    BY MatchesMeans DEF Selected
  <2>5. QED BY <2>3, <2>4 DEF Matches
<1>3. ASSUME NEW x \in ContainerRec, In(x, G) PROVE x.id \in Selected(tokens, w)
  <2>1. PICK node : In(node, Tree(w)) /\ Matches(c, node, w) /\ x = node.con
    BY <1>1, <1>3
  <2>2. node \in ViewNodes
    BY <2>1, TreeIn, NoWorkspace
  <2>3. PICK v \in TopLevels, nodes \in SUBSET TopLevels : node = ViewNode(v, nodes)
    BY <2>2 DEF ViewNodes
  <2>4. QED BY <1>2, <2>1, <2>3 DEF ViewNode, Container
<1>4. ASSUME NEW v \in Selected(tokens, w) PROVE v \in Ids(G)
  <2> DEFINE nodes == Children(v) \ Above
             node == ViewNode(v, nodes)
  <2>1. v \in TopLevels /\ nodes \in SUBSET TopLevels
    BY DEF Selected, Children
  <2>2. In(node, Tree(w)) /\ Matches(c, node, w)
    BY <1>2, <2>1, TreeIn
  <2>3. In(node.con, G)
    BY <1>1, <2>2
  <2>4. node \in ViewNodes
    BY <2>1 DEF ViewNodes
  <2>5. node.con \in ContainerRec /\ node.con.id = v
    BY <2>4, NodeTypes DEF NodeRec, ViewNode, Container
  <2>6. QED BY <2>3, <2>5 DEF Ids
<1>5. QED BY <1>3, <1>4 DEF Ids

-----------------------------------------------------------------------------
(* What the handlers return: a world, and the same one when they fail.     *)

Fair(r, w) == r.world \in World /\ r.ok \in BOOLEAN /\ (~r.ok => r.world = w)

LEMMA FailedFair ==
  ASSUME NEW w \in World
  PROVE  Fair(Failed(w), w) /\ Fair(Done(w), w)
BY DEF Fair, Failed, Done

LEMMA DoneFair ==
  ASSUME NEW w, NEW u \in World
  PROVE  Fair(Done(u), w)
BY DEF Fair, Done

LEMMA ContainerViews ==
  ASSUME NEW con \in ContainerRec, con.id # NoView
  PROVE  con.id \in Views /\ con.nodes \subseteq Views
BY ViewsFacts DEF ContainerRec

\* One view changes.
LEMMA ViewChanges ==
  ASSUME NEW w \in World, NEW v, NEW r \in ViewRec
  PROVE  [w EXCEPT !.view[v] = r] \in World
BY DEF World

LEMMA HandlerFair ==
  ASSUME NEW c, c.name \in Handled, NEW w \in World, NEW con \in ContainerRec, NEW o \in BOOLEAN
  PROVE  Fair(Handler(c, w, con, o), w)
<1>0. /\ \A v \in Views : w.view[v] \in ViewRec
      /\ w.ws \in 1..NumWorkspaces /\ w.closing \in SUBSET Views
  BY DEF World
<1>1. CASE c.name = "kill"
  <2>1. Handler(c, w, con, o) = Kill(w, con)
    BY <1>1 DEF Handler
  <2>2. CASE con.id = NoView
    BY <2>1, <2>2, FailedFair DEF Kill
  <2>3. CASE con.id # NoView
    <3> DEFINE u == [w EXCEPT !.closing = @ \cup {con.id} \cup con.nodes]
    <3>1. w.closing \cup {con.id} \cup con.nodes \in SUBSET Views
      BY <1>0, <2>3, ContainerViews
    <3>2. u \in World
      BY <3>1 DEF World
    <3>3. Kill(w, con) = Done(u)
      BY <2>3 DEF Kill
    <3> HIDE DEF u
    <3>4. QED BY <2>1, <3>2, <3>3, DoneFair
  <2>4. QED BY <2>2, <2>3
<1>2. CASE c.name = "sticky"
  <2>1. Handler(c, w, con, o) = Sticky(c, w, con)
    BY <1>2 DEF Handler
  <2>2. CASE c.word = "" \/ con.id = NoView
    BY <2>1, <2>2, FailedFair DEF Sticky
  <2>3. CASE ~(c.word = "" \/ con.id = NoView)
    <3> DEFINE r == [w.view[con.id] EXCEPT !.sticky = Boolean(c.word, w.view[con.id].sticky)]
               u == [w EXCEPT !.view[con.id] = r]
    <3>1. con.id \in Views
      BY <2>3, ContainerViews
    <3>2. r \in ViewRec
      BY <1>0, <3>1 DEF ViewRec, Boolean
    <3>3. u \in World
      <4> HIDE DEF r
      <4> QED BY <3>2, ViewChanges
    <3>4. Sticky(c, w, con) = Done(u)
      BY <2>3 DEF Sticky
    <3> HIDE DEF u
    <3>5. QED BY <2>1, <3>3, <3>4, DoneFair
  <2>4. QED BY <2>2, <2>3
<1>3. CASE c.name = "fullscreen"
  <2>1. Handler(c, w, con, o) = Fullscreen(c, w, con)
    BY <1>3 DEF Handler
  <2>2. CASE con.id = NoView
    BY <2>1, <2>2, FailedFair DEF Fullscreen
  <2>3. CASE con.id # NoView
    <3> DEFINE is == w.view[con.id].full
               enable == IF c.word \in {"", "global"} THEN ~is ELSE Boolean(c.word, is)
               r == [w.view[con.id] EXCEPT !.asked = enable]
               u == [w EXCEPT !.view[con.id] = r]
    <3>1. con.id \in Views
      BY <2>3, ContainerViews
    <3>2. r \in ViewRec
      BY <1>0, <3>1 DEF ViewRec, Boolean
    <3>3. u \in World
      <4> HIDE DEF r
      <4> QED BY <3>2, ViewChanges
    <3>4. Fullscreen(c, w, con) = Done(u)
      BY <2>3 DEF Fullscreen
    <3> HIDE DEF u
    <3>5. QED BY <2>1, <3>3, <3>4, DoneFair
  <2>4. QED BY <2>2, <2>3
<1>4. CASE c.name = "opacity"
  <2>1. Handler(c, w, con, o) = Opacity(c, w, con)
    BY <1>4 DEF Handler
  <2> DEFINE n == CHOOSE x \in c.n : TRUE
             alpha == w.view[con.id].alpha
             val == CASE c.word = "plus" -> alpha + n [] c.word = "minus" -> alpha - n [] OTHER -> n
             rejected == con.id = NoView \/ c.n = {} \/ c.word \notin {"", "set", "plus", "minus"}
             r == [w.view[con.id] EXCEPT !.alpha = val]
             u == [w EXCEPT !.view[con.id] = r]
  <2>2. Opacity(c, w, con) = IF rejected \/ val \notin 0..Opaque THEN Failed(w) ELSE Done(u)
    BY DEF Opacity
  <2> HIDE DEF val
  <2>3. CASE rejected \/ val \notin 0..Opaque
    BY <2>1, <2>2, <2>3, FailedFair
  <2>4. CASE ~(rejected \/ val \notin 0..Opaque)
    <3>1. con.id \in Views /\ val \in 0..Opaque
      BY <2>4, ContainerViews
    <3>2. r \in ViewRec
      BY <1>0, <3>1 DEF ViewRec
    <3>3. u \in World
      <4> HIDE DEF r
      <4> QED BY <3>2, ViewChanges
    <3>4. Opacity(c, w, con) = Done(u)
      BY <2>2, <2>4
    <3> HIDE DEF u
    <3>5. QED BY <2>1, <3>3, <3>4, DoneFair
  <2>5. QED BY <2>3, <2>4
<1>5. CASE c.name = "workspace"
  <2>1. Handler(c, w, con, o) = Workspace(c, w)
    BY <1>5 DEF Handler
  <2> DEFINE target == CASE c.word = "next" /\ w.ws < NumWorkspaces -> w.ws + 1
                         [] c.word = "prev" /\ w.ws > 1 -> w.ws - 1
                         [] c.word \notin {"next", "prev"} /\ c.n # {} -> CHOOSE x \in c.n : TRUE
                         [] OTHER -> w.ws
             rejected == (c.n = {} /\ c.word \in {"", "number"}) \/ target \notin 1..NumWorkspaces
             u == [w EXCEPT !.ws = target, !.focus = TRUE]
  <2>2. Workspace(c, w) = IF rejected THEN Failed(w) ELSE Done(u)
    BY DEF Workspace
  <2> HIDE DEF target
  <2>3. CASE rejected
    BY <2>1, <2>2, <2>3, FailedFair
  <2>4. CASE ~rejected
    <3>1. u \in World
      BY <2>4 DEF World
    <3> HIDE DEF u
    <3>2. QED BY <2>1, <2>2, <2>4, <3>1, DoneFair
  <2>5. QED BY <2>3, <2>4
<1>6. CASE c.name = "scratchpad"
  <2>1. Handler(c, w, con, o) = Scratchpad(c, w, con, o)
    BY <1>6 DEF Handler
  <2>2. CASE c.word # "show"
    BY <2>1, <2>2, FailedFair DEF Scratchpad
  <2>3. CASE c.word = "show" /\ ~o
    <3>0. ASSUME NEW v, NEW b \in BOOLEAN
          PROVE  [w EXCEPT !.view[v].minimized = b] \in World
      <4> DEFINE r == [w.view[v] EXCEPT !.minimized = b]
                 x == [w EXCEPT !.view[v] = r]
      <4>1. CASE v \in Views
        <5>1. r \in ViewRec
          BY <1>0, <4>1 DEF World, ViewRec
        <5> HIDE DEF r
        <5>2. x \in World
          BY <4>1, <5>1, ViewChanges
        <5>3. QED BY <5>2 DEF r
      <4>2. CASE v \notin Views
        <5>1. [w.view EXCEPT ![v] = r] = w.view
          BY <4>2 DEF World
        <5> HIDE DEF r
        <5>2. x \in World
          BY <5>1 DEF World
        <5>3. QED BY <5>2 DEF r
      <4>3. QED BY <4>1, <4>2
    <3>1. \A v : [w EXCEPT !.view[v].minimized = FALSE] \in World
      BY <3>0, Zenon
    <3>2. \A v : [w EXCEPT !.view[v].minimized = TRUE] \in World
      BY <3>0, Zenon
    <3>3. ASSUME NEW v
          PROVE  [w EXCEPT !.view[v].minimized = TRUE, !.view[v].ws = w.ws] \in World
      <4> DEFINE u == [w EXCEPT !.view[v].minimized = TRUE]
                 x == [u EXCEPT !.view[v].ws = w.ws]
      <4>1. u \in World
        BY <3>2
      <4>2. x \in World
        <5> DEFINE r == [u.view[v] EXCEPT !.ws = w.ws]
        <5> HIDE DEF u
        <5>1. CASE v \in Views
          <6>1. r \in ViewRec
            BY <1>0, <4>1, <5>1 DEF World, ViewRec
          <6>2. x = [u EXCEPT !.view[v] = r]
            OBVIOUS
          <6> HIDE DEF r, x
          <6>3. QED BY <4>1, <6>1, <6>2, ViewChanges
        <5>2. CASE v \notin Views
          <6>1. [u.view EXCEPT ![v] = r] = u.view
            BY <4>1, <5>2 DEF World
          <6>2. x = [u EXCEPT !.view = [u.view EXCEPT ![v] = r]]
            OBVIOUS
          <6> HIDE DEF r, x
          <6>3. QED BY <4>1, <6>1, <6>2 DEF World
        <5>3. QED BY <5>1, <5>2
      <4>3. QED BY <4>2
    <3>4. ScratchpadAuto(w) \in World
      BY <3>1, <3>2, <3>3 DEF ScratchpadAuto
    <3>5. Scratchpad(c, w, con, o) = Done(ScratchpadAuto(w))
      BY <2>3 DEF Scratchpad
    <3>6. QED BY <2>1, <3>4, <3>5, DoneFair
  <2>4. CASE c.word = "show" /\ o /\ con.id = NoView
    BY <2>1, <2>4, FailedFair DEF Scratchpad
  <2>5. CASE c.word = "show" /\ o /\ con.id # NoView
    <3> DEFINE r == [w.view[con.id] EXCEPT !.minimized = ~w.view[con.id].minimized]
               u == [w EXCEPT !.view[con.id] = r]
    <3>1. con.id \in Views
      BY <2>5, ContainerViews
    <3>2. r \in ViewRec
      BY <1>0, <3>1 DEF ViewRec
    <3>3. u \in World
      <4> HIDE DEF r
      <4> QED BY <3>2, ViewChanges
    <3>4. Scratchpad(c, w, con, o) = Done(u)
      BY <2>5 DEF Scratchpad
    <3> HIDE DEF u
    <3>5. QED BY <2>1, <3>3, <3>4, DoneFair
  <2>6. QED BY <2>2, <2>3, <2>4, <2>5
<1>7. CASE c.name = "exit"
  <2>1. Handler(c, w, con, o) = Exit(c, w)
    BY <1>7 DEF Handler
  <2> DEFINE u == [w EXCEPT !.down = TRUE]
  <2>2. u \in World
    BY DEF World
  <2>3. Exit(c, w) = Failed(w) \/ Exit(c, w) = Done(u)
    BY DEF Exit
  <2> HIDE DEF u
  <2>4. QED BY <2>1, <2>2, <2>3, FailedFair, DoneFair
<1>8. QED BY <1>1, <1>2, <1>3, <1>4, <1>5, <1>6, <1>7 DEF Handled

\* The sub-commands of "output" likewise.
FairSub(r, g) == r.config \in Config /\ r.ok \in BOOLEAN /\ (~r.ok => r.config = g) /\ r.used \in Nat

LEMMA RejectFair ==
  ASSUME NEW g \in Config
  PROVE  FairSub(Reject(g), g)
BY DEF FairSub, Reject

LEMMA AcceptFair ==
  ASSUME NEW g, NEW h \in Config, NEW n \in Nat
  PROVE  FairSub(Accept(n, h), g)
BY DEF FairSub, Accept

\* The words of an argument and what they say.
Says(p) == p = <<>> \/ (p \in Nat \X (Int \X Int) /\ p # <<>>)

LEMMA TwoNumbersSay ==
  ASSUME NEW words \in Seq(STRING), NEW both, both \in [DOMAIN both -> Int \X Int],
         DOMAIN Number \cap DOMAIN both = {}
  PROVE  Says(TwoNumbers(words, both))
<1>1. CASE words # <<>> /\ words[1] \in DOMAIN both
  <2>1. TwoNumbers(words, both) = <<1, both[words[1]]>>
    BY <1>1 DEF TwoNumbers
  <2>2. both[words[1]] \in Int \X Int
    BY <1>1
  <2>3. QED BY <2>1, <2>2 DEF Says
<1>2. CASE /\ ~(words # <<>> /\ words[1] \in DOMAIN both)
           /\ Len(words) > 1 /\ words[1] \in DOMAIN Number /\ words[2] \in DOMAIN Number
  <2>1. TwoNumbers(words, both) = <<2, <<Number[words[1]], Number[words[2]]>>>>
    BY <1>2 DEF TwoNumbers
  <2>2. Number[words[1]] \in Int /\ Number[words[2]] \in Int
    BY <1>2, WordsAssumption
  <2>3. QED BY <2>1, <2>2 DEF Says
<1>3. CASE /\ ~(words # <<>> /\ words[1] \in DOMAIN both)
           /\ ~(Len(words) > 1 /\ words[1] \in DOMAIN Number /\ words[2] \in DOMAIN Number)
  BY <1>3 DEF TwoNumbers, Says
<1>4. QED BY <1>1, <1>2, <1>3

LEMMA SubHandlerFair ==
  ASSUME NEW sub, NEW words \in Seq(STRING), NEW name, NEW g \in Config
  PROVE  FairSub(SubHandler(sub, words, name, g), g)
<1>0. Known(name) => g[name] \in OutputRec
  BY DEF Known, Config
<1>1. CASE sub = "scale"
  <2>1. SubHandler(sub, words, name, g) = Scale(words, name, g)
    BY <1>1 DEF SubHandler
  <2>2. CASE words # <<>> /\ words[1] \in DOMAIN Number /\ Known(name)
    <3> DEFINE h == [g EXCEPT ![name].scale = Number[words[1]]]
    <3>1. Number[words[1]] \in Int
      BY <2>2, WordsAssumption
    <3>2. h \in Config
      BY <1>0, <2>2, <3>1 DEF Config, OutputRec
    <3>3. Scale(words, name, g) = Accept(1, h)
      BY <2>2 DEF Scale
    <3> HIDE DEF h
    <3>4. QED BY <2>1, <3>2, <3>3, AcceptFair
  <2>3. CASE ~(words # <<>> /\ words[1] \in DOMAIN Number /\ Known(name))
    BY <2>1, <2>3, RejectFair DEF Scale
  <2>4. QED BY <2>2, <2>3
<1>2. CASE sub = "position"
  <2> DEFINE p == TwoNumbers(words, Point)
  <2>1. SubHandler(sub, words, name, g) = Position(words, name, g)
    BY <1>2 DEF SubHandler
  <2>2. Says(p)
    BY TwoNumbersSay, WordsAssumption
  <2>3. CASE p # <<>> /\ Known(name)
    <3> DEFINE h == [g EXCEPT ![name].pos = p[2]]
    <3>1. Position(words, name, g) = Accept(p[1], h)
      BY <2>3 DEF Position
    <3> HIDE DEF p
    <3>2. p[1] \in Nat /\ p[2] \in Int \X Int
      BY <2>2, <2>3 DEF Says
    <3>3. h \in Config
      BY <1>0, <2>3, <3>2 DEF Config, OutputRec
    <3> HIDE DEF h
    <3>4. QED BY <2>1, <3>1, <3>2, <3>3, AcceptFair
  <2>4. CASE ~(p # <<>> /\ Known(name))
    BY <2>1, <2>4, RejectFair DEF Position
  <2>5. QED BY <2>3, <2>4
<1>3. CASE sub = "mode"
  <2> DEFINE custom == words # <<>> /\ words[1] = "--custom"
             p == TwoNumbers(IF custom THEN Tail(words) ELSE words, Extent)
             n == IF custom THEN 1 ELSE 0
             accepted == p # <<>> /\ Known(name) /\ (custom \/ p[2] \in Modes)
  <2>1. SubHandler(sub, words, name, g) = Mode(words, name, g)
    BY <1>3 DEF SubHandler
  <2>2. Says(p)
    <3>1. (IF custom THEN Tail(words) ELSE words) \in Seq(STRING)
      <4>1. custom => words # <<>> /\ Tail(words) \in Seq(STRING)
        OBVIOUS
      <4> HIDE DEF custom
      <4>2. QED BY <4>1
    <3>2. QED BY <3>1, TwoNumbersSay, WordsAssumption
  <2>3. CASE accepted
    <3> DEFINE h == [g EXCEPT ![name].mode = p[2]]
    <3>1. Mode(words, name, g) = Accept(p[1] + n, h)
      BY <2>3 DEF Mode
    <3> HIDE DEF p
    <3>2. p[1] \in Nat /\ p[2] \in Int \X Int
      BY <2>2, <2>3 DEF Says
    <3>3. h \in Config
      BY <1>0, <2>3, <3>2 DEF Config, OutputRec
    <3>4. p[1] + n \in Nat
      BY <3>2
    <3> HIDE DEF h, n
    <3>5. QED BY <2>1, <3>1, <3>3, <3>4, AcceptFair
  <2>4. CASE ~accepted
    BY <2>1, <2>4, RejectFair DEF Mode
  <2>5. QED BY <2>3, <2>4
<1>4. CASE sub = "transform"
  <2> DEFINE turn == Inverted(Quarters[words[1]])
             relative == Len(words) > 1 /\ words[2] \in {"clockwise", "anticlockwise"}
             by == IF words[2] = "anticlockwise" THEN Inverted(turn) ELSE turn
             rejected == words = <<>> \/ words[1] \notin DOMAIN Quarters \/ ~Known(name)
  <2>1. SubHandler(sub, words, name, g) = Transform(words, name, g)
    BY <1>4 DEF SubHandler
  <2>2. CASE rejected
    BY <2>1, <2>2, RejectFair DEF Transform
  <2>3. CASE ~rejected
    <3> DEFINE h == [g EXCEPT ![name].turn = (g[name].turn + by) % 4]
               k == [g EXCEPT ![name].turn = turn]
    <3>1. Quarters[words[1]] \in 0..3
      BY <2>3, WordsAssumption
    <3>2. turn \in 0..3 /\ by \in 0..3
      BY <3>1 DEF Inverted
    <3>3. Transform(words, name, g) = IF relative THEN Accept(2, h) ELSE Accept(1, k)
      BY <2>3 DEF Transform
    <3> HIDE DEF turn, by
    <3>4. g[name].turn \in 0..3
      BY <1>0, <2>3 DEF OutputRec
    <3>5. (g[name].turn + by) % 4 \in 0..3
      BY <3>2, <3>4
    <3>6. h \in Config /\ k \in Config
      BY <1>0, <2>3, <3>2, <3>5 DEF Config, OutputRec
    <3> HIDE DEF h, k
    <3>7. QED BY <2>1, <3>3, <3>6, AcceptFair
  <2>4. QED BY <2>2, <2>3
<1>5. CASE sub \in {"power", "dpms"}
  <2>1. SubHandler(sub, words, name, g) = PowerSignal(words, g)
    BY <1>5 DEF SubHandler
  <2>2. QED BY <2>1, RejectFair, AcceptFair DEF PowerSignal
<1>6. CASE sub \notin {"scale", "position", "mode", "transform", "power", "dpms"}
  BY <1>6, RejectFair DEF SubHandler
<1>7. QED BY <1>1, <1>2, <1>3, <1>4, <1>5, <1>6

-----------------------------------------------------------------------------
(* Types: those of the variables, and what the phases say of the command.  *)

CallRec ==
  [item : Nat, segment : Nat, view : TopLevels \cup {NoView}, overridden : BOOLEAN,
   active : Views \cup {NoView}, began : World, ok : BOOLEAN]
Executed == Handled \cup {"output"}
Empty == {NoCommand, Blank}
Result == {"ok", "fail", "nomatch"}

TypeInv ==
  /\ TypeOK
  /\ list \in Lists /\ began \in World /\ usingCriteria \in BOOLEAN /\ segment \in Nat
  /\ results \in Seq(Result) /\ calls \in Seq(CallRec)
  /\ containers \in Seq(ContainerRec) /\ todo \in Seq(ContainerRec)
  /\ ctx \in [con : ContainerRec, overridden : BOOLEAN]
  /\ phase \in {"focus", "each", "sub"} =>
       pos > 1 /\ cmd = list[pos - 1].cmd /\ cmd.name \in Executed
  /\ phase = "sub" => cmd.name = "output" /\ args \in Seq(STRING)
  /\ phase = "each" => todo # <<>>

LEMMA ListFacts ==
  ASSUME NEW l \in Lists
  PROVE  /\ Len(l) \in Nat /\ DOMAIN l = 1..Len(l)
         /\ \A i \in 1..Len(l) : /\ l[i].sep \in {";", ",", ""}
                                 /\ l[i].crit \in Seq(Range(l[i].crit))
                                 /\ l[i].cmd.name = "output" => l[i].cmd.words \in Seq(STRING)
<1>1. l \in Seq(Range(l))
  BY ListsAssumption
<1>2. Len(l) \in Nat /\ DOMAIN l = 1..Len(l)
  BY <1>1
<1>3. QED BY <1>2, ListsAssumption

LEMMA DescribeType ==
  ASSUME NEW v
  PROVE  Describe(v) \in ContainerRec
BY DEF Describe, ContainerRec, Container, NoContainer

LEMMA Positions ==
  ASSUME TypeInv
  PROVE  /\ list \in Lists /\ Len(list) \in Nat /\ DOMAIN list = 1..Len(list)
         /\ pos \in Nat \ {0} /\ pos <= Len(list) + 1
<1>1. list \in Lists /\ pos \in 1..Len(list) + 1
  BY DEF TypeInv, TypeOK
<1>2. Len(list) \in Nat /\ DOMAIN list = 1..Len(list)
  BY <1>1, ListFacts
<1>3. QED BY <1>1, <1>2

\* The next command is the first behind the position.
LEMMA NextWordFacts ==
  ASSUME TypeInv, Rest # {}
  PROVE  /\ NextWord \in pos..Len(list) /\ Word(NextWord) # NoCommand
         /\ \A k \in pos..NextWord - 1 : Word(k) \in Empty
<1>1. Rest \subseteq Nat /\ pos \in Nat /\ Len(list) \in Nat
  BY Positions DEF Rest
<1>2. PICK m \in Rest : \A j \in Rest : m <= j
  BY <1>1, LeastNat
<1>3. NextWord \in Rest /\ \A j \in Rest : NextWord <= j
  BY <1>2, Zenon DEF NextWord
<1>4. \A k \in pos..NextWord - 1 : k \in pos..Len(list) /\ ~(NextWord <= k)
  BY <1>1, <1>3 DEF Rest
<1>5. \A k \in pos..NextWord - 1 : k \notin Rest
  BY <1>3, <1>4
<1>6. QED BY <1>3, <1>4, <1>5 DEF Rest, Passed, Empty

\* No name of a command is that of none, or of one that is unknown.
LEMMA Names ==
  /\ Unknown \notin Empty /\ Unknown.name \notin Executed
  /\ \A c \in Empty : c.name \notin Executed
<1>1. Unknown.name = "?" /\ NoCommand.name = "" /\ Blank.name = ""
  BY DEF Unknown, NoCommand, Blank, Command
<1>2. "?" # "" /\ "?" \notin Executed /\ "" \notin Executed
  BY DEF Executed, Handled
<1>3. QED BY <1>1, <1>2 DEF Empty

\* What is passed over is empty; what is found is that of an item, or unknown.
LEMMA SplitFacts ==
  ASSUME TypeInv, Split
  PROVE  /\ pos' \in Nat /\ pos' - 1 \in pos..Len(list) /\ pos' - 1 \in Nat
         /\ \A k \in pos..pos' - 2 : list[k].cmd \in Empty
         /\ matched' = list[pos' - 1].sep
         /\ NextWord = pos' - 1
         /\ Word(NextWord) = Unknown \/ Word(NextWord) = list[pos' - 1].cmd
         /\ Word(NextWord) # NoCommand
<1>1. /\ NextWord \in pos..Len(list) /\ Word(NextWord) # NoCommand
      /\ \A k \in pos..NextWord - 1 : Word(k) \in Empty
  BY NextWordFacts DEF Split
<1>2. pos' = NextWord + 1 /\ matched' = list[NextWord].sep
  BY DEF Split
<1>3. pos \in Nat /\ Len(list) \in Nat
  BY Positions
<1>4. /\ pos' \in Nat /\ pos' - 1 \in pos..Len(list) /\ pos' - 1 \in Nat /\ pos' - 1 = NextWord
      /\ pos' - 2 = NextWord - 1
  BY <1>1, <1>2, <1>3
<1>5. \A k : Word(k) = Unknown \/ Word(k) = list[k].cmd
  BY DEF Word
<1>6. \A k \in pos..pos' - 2 : list[k].cmd \in Empty
  BY <1>1, <1>4, <1>5, Names
<1>7. QED BY <1>1, <1>2, <1>4, <1>5, <1>6

LEMMA BlankFacts ==
  ASSUME TypeInv, IgnoreBlank
  PROVE  Split /\ list[pos' - 1].cmd \in Empty
<1>1. Split /\ Word(NextWord) = Blank
  BY DEF IgnoreBlank
<1>2. Blank \in Empty
  BY DEF Empty
<1>3. QED BY <1>1, <1>2, SplitFacts, Names

LEMMA TakeFacts ==
  ASSUME TypeInv, TakeCommand
  PROVE  /\ Split
         /\ cmd'.name \in Executed => cmd' = list[pos' - 1].cmd /\ cmd' \notin Empty
         /\ phase' \in {"next", "focus", "each", "done"}
         /\ phase' = "done" <=> cmd'.name \notin Executed
         /\ phase' = "done" => results' = Append(results, "fail")
         /\ phase' = "next" => results' = Append(results, "nomatch") /\ usingCriteria' /\ todo' = <<>>
         /\ phase' = "focus" => results' = results /\ ~usingCriteria'
         /\ phase' = "each" => results' = results /\ usingCriteria' /\ todo' # <<>>
<1>1. Split /\ cmd' = Word(NextWord)
  BY DEF TakeCommand
<1>2. cmd'.name \in Executed => cmd' = list[pos' - 1].cmd /\ cmd' \notin Empty
  BY <1>1, SplitFacts, Names
<1>3. /\ phase' \in {"next", "focus", "each", "done"}
      /\ phase' = "done" <=> cmd'.name \notin Executed
      /\ phase' = "done" => results' = Append(results, "fail")
      /\ phase' = "next" => results' = Append(results, "nomatch") /\ usingCriteria' /\ todo' = <<>>
      /\ phase' = "focus" => results' = results /\ ~usingCriteria'
      /\ phase' = "each" => results' = results /\ usingCriteria' /\ todo' # <<>>
  BY DEF TakeCommand, Executed
<1>4. QED BY <1>1, <1>2, <1>3

\* A handler has returned.
LEMMA ReturnFacts ==
  ASSUME NEW ok \in BOOLEAN, Return(ok)
  PROVE  /\ phase' \in {"next", "each", "done"}
         /\ phase' = "done" <=> ~ok
         /\ phase' = "each" <=> ok /\ todo' # <<>>
         /\ phase' = "next" <=> ok /\ todo' = <<>>
         /\ phase' = "done" => results' = Append(results, "fail")
         /\ phase' = "each" => results' = results
         /\ phase' = "next" => results' = Append(results, "ok")
BY DEF Return

\* A handler is called in the context ctx'.
LEMMA CallFacts ==
  ASSUME TypeInv, cmd.name \in Executed, ctx' \in [con : ContainerRec, overridden : BOOLEAN], Call
  PROVE  /\ world' \in World
         /\ phase' \in {"next", "each", "done", "sub"}
         /\ phase' = "sub" => /\ cmd.name = "output" /\ args' = cmd.words
                              /\ UNCHANGED <<world, results>>
         /\ phase' = "done" => results' = Append(results, "fail") /\ world' = world
         /\ phase' = "each" => results' = results /\ todo' # <<>>
         /\ phase' = "next" => results' = Append(results, "ok") /\ todo' = <<>>
<1>1. CASE cmd.name = "output"
  <2>1. phase' = "sub" /\ args' = cmd.words /\ world' = world /\ results' = results
    BY <1>1 DEF Call
  <2>2. world \in World
    BY DEF TypeInv, TypeOK
  <2>3. QED BY <1>1, <2>1, <2>2
<1>2. CASE cmd.name # "output"
  <2> DEFINE r == Handler(cmd, world, ctx'.con, ctx'.overridden)
  <2>1. world \in World
    BY DEF TypeInv, TypeOK
  <2>2. Fair(r, world)
    BY <1>2, <2>1, HandlerFair DEF Executed
  <2>3. world' = r.world /\ Return(r.ok)
    BY <1>2 DEF Call
  <2> HIDE DEF r
  <2>4. r.ok \in BOOLEAN /\ r.world \in World /\ (~r.ok => r.world = world)
    BY <2>2 DEF Fair
  <2>5. QED BY <2>3, <2>4, ReturnFacts
<1>3. QED BY <1>1, <1>2

\* The call that Called adds.
NewCall ==
  [item |-> pos - 1, segment |-> segment, began |-> began, active |-> ActiveView(world),
   view |-> ctx'.con.id, overridden |-> ctx'.overridden, ok |-> phase' # "done"]

LEMMA CalledType ==
  ASSUME TypeInv, phase \in {"focus", "each"}, ctx' \in [con : ContainerRec, overridden : BOOLEAN], Called
  PROVE  calls' \in Seq(CallRec)
<1>1. pos - 1 \in Nat
  BY Positions DEF TypeInv
<1>2. ctx'.con.id \in TopLevels \cup {NoView} /\ ctx'.overridden \in BOOLEAN
  BY DEF ContainerRec
<1>3. ActiveView(world) \in Views \cup {NoView}
  BY ActiveIn
<1>4. began \in World /\ calls \in Seq(CallRec) /\ segment \in Nat
  BY DEF TypeInv
<1>5. NewCall \in CallRec
  BY <1>1, <1>2, <1>3, <1>4 DEF CallRec, NewCall
<1>6. calls' = Append(calls, NewCall)
  BY DEF Called, NewCall
<1> HIDE DEF NewCall
<1>7. QED BY <1>4, <1>5, <1>6

LEMMA SubFacts ==
  ASSUME TypeInv, SubCommand
  PROVE  /\ config' \in Config /\ args' \in Seq(STRING)
         /\ phase' \in {"sub", "done"}
         /\ phase' = "sub" => results' = results
         /\ phase' = "done" => results' = Append(results, "fail") /\ config' = config
<1> DEFINE r == SubHandler(args[1], Tail(args), cmd.word, config)
<1>1. phase = "sub" /\ args \in Seq(STRING) /\ args # <<>> /\ config \in Config
  BY DEF SubCommand, TypeInv, TypeOK, Config
<1>2. Tail(args) \in Seq(STRING)
  BY <1>1
<1>3. FairSub(r, config)
  BY <1>1, <1>2, SubHandlerFair
<1>4. /\ config' = r.config /\ args' = SubSeq(args, 2 + r.used, Len(args))
      /\ IF r.ok THEN UNCHANGED <<phase, results>> ELSE Return(FALSE)
  BY DEF SubCommand
<1> HIDE DEF r
<1>5. /\ r.config \in Config /\ r.ok \in BOOLEAN /\ r.used \in Nat
      /\ ~r.ok => r.config = config
  BY <1>3 DEF FairSub
<1>6. args' \in Seq(STRING)
  <2>1. 2 + r.used >= 1 /\ 2 + r.used \in Int
    BY <1>5
  <2>2. \A i \in 2 + r.used..Len(args) : args[i] \in STRING
    BY <1>1, <2>1
  <2>3. SubSeq(args, 2 + r.used, Len(args)) \in Seq(STRING)
    BY <1>1, <2>1, <2>2, SubSeqProperties
  <2>4. QED BY <1>4, <2>3
<1>7. CASE r.ok
  BY <1>1, <1>4, <1>5, <1>6, <1>7
<1>8. CASE ~r.ok
  <2>1. Return(FALSE)
    BY <1>4, <1>8
  <2>2. QED BY <1>4, <1>5, <1>6, <1>8, <2>1, ReturnFacts
<1>9. QED BY <1>5, <1>7, <1>8

LEMMA AnotherResult ==
  ASSUME NEW s \in Seq(Result), NEW x \in Result
  PROVE  Append(s, x) \in Seq(Result)
OBVIOUS

\* The next command has been found, in the list's types.
LEMMA SplitType ==
  ASSUME TypeInv, Split
  PROVE  /\ containers' \in Seq(ContainerRec) /\ began' \in World /\ usingCriteria' \in BOOLEAN
         /\ segment' \in Nat
         /\ (/\ list' = list /\ world' = world /\ config' = config
             /\ phase' \in {"next", "focus", "each", "done"}) => TypeOK'
<1>1. /\ began \in World /\ world \in World /\ usingCriteria \in BOOLEAN /\ segment \in Nat
      /\ containers \in Seq(ContainerRec) /\ TypeOK /\ list \in Lists
  BY DEF TypeInv, TypeOK
<1>2. GetContainers(list[pos].crit, world) \in Seq(ContainerRec)
  BY <1>1, GetContainersIn
<1>3. /\ containers' = IF AtCriteria THEN GetContainers(list[pos].crit, world) ELSE containers
      /\ usingCriteria' = IF matched = ";" THEN AtCriteria ELSE usingCriteria
      /\ segment' = IF matched = ";" THEN pos ELSE segment
      /\ began' = IF matched = ";" THEN world ELSE began
  BY DEF Split
<1>4. containers' \in Seq(ContainerRec) /\ began' \in World
  BY <1>1, <1>2, <1>3, Zenon
<1>5. usingCriteria' \in BOOLEAN /\ segment' \in Nat
  BY <1>1, <1>3, Positions DEF AtCriteria
<1>6. pos' \in 1..Len(list) + 1 /\ pos' - 1 \in 1..Len(list)
  BY SplitFacts, Positions
<1>7. matched' \in {";", ",", ""}
  BY <1>1, <1>6, SplitFacts, ListFacts
<1>8. QED BY <1>1, <1>4, <1>5, <1>6, <1>7 DEF TypeOK

LEMMA TypeStep ==
  ASSUME TypeInv, [Next]_vars
  PROVE  TypeInv'
<1> USE DEF TypeInv
<1>0. /\ TypeOK /\ config \in Config
  BY DEF TypeOK, Config
<1>1. CASE UNCHANGED vars
  BY <1>1 DEF vars, TypeOK
<1>2. CASE Finish
  BY <1>2 DEF Finish, shape, TypeOK
<1>3. CASE RejectCriteria
  <2>1. results' \in Seq(Result)
    <3>1. results \in Seq(Result) /\ "fail" \in Result
      BY DEF Result
    <3> HIDE DEF TypeInv
    <3>2. QED BY <1>3, <3>1, AnotherResult DEF RejectCriteria
  <2>2. QED BY <1>3, <2>1 DEF RejectCriteria, shape, TypeOK
<1>4. CASE IgnoreBlank
  <2>1. /\ list' = list /\ world' = world /\ config' = config /\ phase' = phase /\ phase = "next"
        /\ UNCHANGED <<ctx, calls, results, todo, args, cmd>>
    BY <1>4 DEF IgnoreBlank, Split
  <2>2. Split
    BY <1>4 DEF IgnoreBlank
  <2>3. TypeOK'
    BY <2>1, <2>2, SplitType
  <2>4. QED BY <2>1, <2>2, <2>3, SplitType, Zenon
<1>5. CASE TakeCommand
  <2>1. /\ list' = list /\ world' = world /\ config' = config /\ ctx' = ctx /\ calls' = calls
        /\ args' = args /\ todo' = containers' /\ Split
    BY <1>5 DEF TakeCommand
  <2>2. /\ containers' \in Seq(ContainerRec) /\ began' \in World /\ usingCriteria' \in BOOLEAN
        /\ segment' \in Nat
    BY <2>1, SplitType
  <2>3. /\ pos' \in Nat /\ pos' - 1 \in pos..Len(list) /\ pos' - 1 \in Nat
    BY <2>1, SplitFacts
  <2>4. /\ pos' > 1 /\ pos' - 1 \in 1..Len(list)
    BY <2>3, Positions
  <2>5. /\ cmd'.name \in Executed => cmd' = list[pos' - 1].cmd
        /\ phase' \in {"next", "focus", "each", "done"}
        /\ phase' = "done" <=> cmd'.name \notin Executed
        /\ phase' = "done" => results' = Append(results, "fail")
        /\ phase' = "next" => results' = Append(results, "nomatch")
        /\ phase' = "focus" => results' = results
        /\ phase' = "each" => results' = results /\ todo' # <<>>
    BY <1>5, TakeFacts
  <2>6. results' \in Seq(Result)
    <3>1. results \in Seq(Result) /\ {"ok", "fail", "nomatch"} \subseteq Result
      BY DEF Result
    <3> HIDE DEF TypeInv
    <3>2. QED BY <2>5, <3>1, AnotherResult
  <2>7. TypeOK'
    BY <2>1, <2>5, SplitType
  <2>8. list' \in Lists /\ calls' \in Seq(CallRec) /\ todo' \in Seq(ContainerRec)
        /\ ctx' \in [con : ContainerRec, overridden : BOOLEAN]
    BY <2>1, <2>2
  <2>9. /\ phase' \in {"focus", "each", "sub"} =>
             pos' > 1 /\ cmd' = list'[pos' - 1].cmd /\ cmd'.name \in Executed
        /\ phase' # "sub" /\ (phase' = "each" => todo' # <<>>)
    <3> HIDE DEF TypeInv
    <3>1. QED BY <2>1, <2>4, <2>5
  <2>10. phase' = "sub" => cmd'.name = "output" /\ args' \in Seq(STRING)
    BY <2>9
  <2>11. QED BY <2>2, <2>6, <2>7, <2>8, <2>9, <2>10, Zenon
<1>6. CASE CallOnFocus \/ CallOnContainer
  <2>1. UNCHANGED shape /\ config' = config /\ Call /\ Called /\ phase \in {"focus", "each"}
    BY <1>6 DEF CallOnFocus, CallOnContainer
  <2>2. ctx' \in [con : ContainerRec, overridden : BOOLEAN] /\ todo' \in Seq(ContainerRec)
    <3>1. CASE CallOnFocus
      <4>1. Describe(ActiveView(world)) \in ContainerRec
        BY DescribeType
      <4>2. QED BY <3>1, <4>1 DEF CallOnFocus
    <3>2. CASE CallOnContainer
      <4>1. todo \in Seq(ContainerRec) /\ todo # <<>>
        BY <3>2 DEF CallOnContainer
      <4>2. todo[1] \in ContainerRec /\ Tail(todo) \in Seq(ContainerRec)
        BY <4>1
      <4>3. QED BY <3>2, <4>2 DEF CallOnContainer
    <3>3. QED BY <1>6, <3>1, <3>2
  <2>3. pos > 1 /\ cmd = list[pos - 1].cmd /\ cmd.name \in Executed
    BY <2>1
  <2>4. /\ world' \in World
        /\ phase' \in {"next", "each", "done", "sub"}
        /\ phase' = "sub" => cmd.name = "output" /\ args' = cmd.words /\ results' = results
        /\ phase' = "done" => results' = Append(results, "fail")
        /\ phase' = "each" => results' = results /\ todo' # <<>>
        /\ phase' = "next" => results' = Append(results, "ok")
    BY <2>1, <2>2, <2>3, CallFacts
  <2>5. calls' \in Seq(CallRec)
    BY <2>1, <2>2, CalledType
  <2>6. results' \in Seq(Result)
    <3>1. results \in Seq(Result) /\ {"ok", "fail", "nomatch"} \subseteq Result
      BY DEF Result
    <3> HIDE DEF TypeInv
    <3>2. QED BY <2>4, <3>1, AnotherResult
  <2>7. phase' = "sub" => args' \in Seq(STRING)
    <3>1. pos - 1 \in 1..Len(list)
      BY <2>3, Positions
    <3>2. QED BY <2>3, <2>4, <3>1, ListFacts
  <2>8. TypeOK'
    BY <1>0, <2>1, <2>4 DEF TypeOK, shape
  <2>9. QED BY <2>1, <2>2, <2>3, <2>4, <2>5, <2>6, <2>7, <2>8 DEF shape
<1>7. CASE SubCommand
  <2>1. UNCHANGED <<shape, todo, ctx, world, calls>> /\ phase = "sub"
    BY <1>7 DEF SubCommand
  <2>2. /\ config' \in Config /\ args' \in Seq(STRING)
        /\ phase' \in {"sub", "done"}
        /\ phase' = "sub" => results' = results
        /\ phase' = "done" => results' = Append(results, "fail")
    BY <1>7, SubFacts
  <2>3. results' \in Seq(Result)
    <3>1. results \in Seq(Result) /\ {"ok", "fail", "nomatch"} \subseteq Result
      BY DEF Result
    <3> HIDE DEF TypeInv
    <3>2. QED BY <2>2, <3>1, AnotherResult
  <2>4. TypeOK'
    BY <1>0, <2>1, <2>2 DEF TypeOK, shape, Config
  <2>5. QED BY <2>1, <2>2, <2>3, <2>4 DEF shape
<1>8. CASE SubCommandsDone
  <2>1. UNCHANGED <<shape, todo, args, ctx, world, config, calls>> /\ phase = "sub" /\ Return(TRUE)
    BY <1>8 DEF SubCommandsDone
  <2>2. /\ phase' \in {"next", "each"}
        /\ phase' = "each" => results' = results /\ todo' # <<>>
        /\ phase' = "next" => results' = Append(results, "ok")
    BY <2>1, ReturnFacts
  <2>3. results' \in Seq(Result)
    <3>1. results \in Seq(Result) /\ {"ok", "fail", "nomatch"} \subseteq Result
      BY DEF Result
    <3> HIDE DEF TypeInv
    <3>2. QED BY <2>2, <3>1, AnotherResult
  <2>4. TypeOK'
    BY <1>0, <2>1, <2>2 DEF TypeOK, shape
  <2>5. QED BY <2>1, <2>2, <2>3, <2>4 DEF shape
<1>9. QED BY <1>1, <1>2, <1>3, <1>4, <1>5, <1>6, <1>7, <1>8 DEF Next

LEMMA TypeInit ==
  ASSUME Init
  PROVE  TypeInv
<1>1. list \in Lists /\ world \in World /\ config \in Config /\ began \in World
  BY ListsAssumption DEF Init
<1>2. pos \in 1..Len(list) + 1
  <2>1. Len(list) \in Nat /\ pos = 1
    BY <1>1, ListFacts DEF Init
  <2>2. QED BY <2>1
<1>3. NoContainer \in ContainerRec
  BY DEF NoContainer, Container, ContainerRec
<1>4. TypeOK
  BY <1>1, <1>2 DEF Init, TypeOK, Config
<1>5. /\ results \in Seq(Result) /\ calls \in Seq(CallRec)
      /\ containers \in Seq(ContainerRec) /\ todo \in Seq(ContainerRec)
  <2>1. <<>> \in Seq(Result) /\ <<>> \in Seq(CallRec) /\ <<>> \in Seq(ContainerRec)
    OBVIOUS
  <2>2. QED BY <2>1 DEF Init
<1>6. QED BY <1>1, <1>3, <1>4, <1>5 DEF Init, TypeInv

\* The variables of execute_command have their types throughout; in
\* particular the world stays one: opacity within bounds, a workspace of the
\* output, only views asked to close.
THEOREM TypeCorrect == Spec => []TypeOK
<1>1. Init => TypeInv
  BY TypeInit
<1>2. TypeInv /\ [Next]_vars => TypeInv'
  BY TypeStep
<1>3. TypeInv => TypeOK
  BY DEF TypeInv
<1>4. QED BY <1>1, <1>2, <1>3, PTL DEF Spec

-----------------------------------------------------------------------------
(* Failing, and what the results tell.                                     *)

LEMMA AppendFacts ==
  ASSUME NEW V, NEW s \in Seq(V), NEW x \in V
  PROVE  /\ Len(s) \in Nat /\ Len(Append(s, x)) = Len(s) + 1
         /\ Append(s, x) # <<>> /\ Append(s, x) # s /\ Append(s, x)[Len(Append(s, x))] = x
         /\ \A i \in 1..Len(s) : Append(s, x)[i] = s[i]
OBVIOUS

LEMMA ResultsType ==
  ASSUME TypeInv
  PROVE  /\ results \in Seq(Result) /\ Len(results) \in Nat
         /\ \A x \in Result : /\ Append(results, x)[Len(Append(results, x))] = x
                              /\ Append(results, x) # <<>> /\ Len(Append(results, x)) = Len(results) + 1
                              /\ \A i \in 1..Len(results) : Append(results, x)[i] = results[i]
<1>1. results \in Seq(Result)
  BY DEF TypeInv
<1>2. QED BY <1>1, AppendFacts

LEMMA ResultNames == {"ok", "fail", "nomatch"} \subseteq Result
BY DEF Result

LEMMA StepFails ==
  ASSUME TypeInv, Next, results' # results, results'[Len(results')] = "fail"
  PROVE  UNCHANGED <<world, config>>
<1>1. results' # Append(results, "ok") /\ results' # Append(results, "nomatch")
  BY ResultsType, ResultNames
<1>2. CASE Finish \/ RejectCriteria \/ IgnoreBlank \/ TakeCommand
  BY <1>2 DEF Finish, RejectCriteria, IgnoreBlank, TakeCommand
<1>3. CASE CallOnFocus \/ CallOnContainer
  <2>1. config' = config /\ Call /\ phase \in {"focus", "each"}
    BY <1>3 DEF CallOnFocus, CallOnContainer
  <2>2. cmd.name \in Executed
    BY <2>1 DEF TypeInv
  <2>3. ctx' \in [con : ContainerRec, overridden : BOOLEAN]
    BY <1>3, TypeStep DEF TypeInv, Next
  <2>4. QED BY <1>1, <2>1, <2>2, <2>3, CallFacts
<1>4. CASE SubCommand
  <2>1. world' = world /\ (phase' = "sub" => results' = results)
    BY <1>4, SubFacts DEF SubCommand
  <2>2. QED BY <1>4, <2>1, SubFacts
<1>5. CASE SubCommandsDone
  BY <1>5 DEF SubCommandsDone
<1>6. QED BY <1>2, <1>3, <1>4, <1>5 DEF Next

\* A command that fails on a view has not changed it, nor anything else; the
\* sub-command of "output" that fails has changed nothing either.
THEOREM FailureChangesNothingHolds == Spec => FailureChangesNothing
<1>1. Init => TypeInv
  BY TypeInit
<1>2. TypeInv /\ [Next]_vars => TypeInv'
  BY TypeStep
<1>3. TypeInv /\ [Next]_vars =>
        [results' # results /\ results'[Len(results')] = "fail" => UNCHANGED <<world, config>>]_vars
  BY StepFails
<1>4. QED BY <1>1, <1>2, <1>3, PTL DEF Spec, FailureChangesNothing

-----------------------------------------------------------------------------
(* The calls of handlers.                                                  *)

LEMMA CallsMore ==
  ASSUME TypeInv, Called
  PROVE  /\ Len(calls) \in Nat /\ Len(calls') = Len(calls) + 1
         /\ \A i \in 1..Len(calls) : calls'[i] = calls[i]
         /\ calls'[Len(calls')] = NewCall
         /\ DOMAIN calls' = 1..Len(calls) + 1 /\ DOMAIN calls = 1..Len(calls)
         /\ \A i \in DOMAIN calls' : i \in DOMAIN calls \/ i = Len(calls')
<1>1. calls \in Seq(CallRec)
  BY DEF TypeInv
<1>2. calls' = Append(calls, NewCall)
  BY DEF Called, NewCall
<1> HIDE DEF NewCall
<1>3. QED BY <1>1, <1>2

LEMMA CallsType ==
  ASSUME TypeInv
  PROVE  /\ Len(calls) \in Nat /\ DOMAIN calls = 1..Len(calls)
         /\ \A i \in DOMAIN calls : calls[i].item \in Nat
         /\ calls # <<>> => Len(calls) \in DOMAIN calls
<1>1. calls \in Seq(CallRec)
  BY DEF TypeInv
<1>2. Len(calls) \in Nat /\ DOMAIN calls = 1..Len(calls) /\ \A i \in DOMAIN calls : calls[i] \in CallRec
  BY <1>1
<1>3. calls # <<>> => Len(calls) \in DOMAIN calls
  BY <1>1
<1>4. QED BY <1>2, <1>3 DEF CallRec

\* The last call is one of the command at hand.
Recent(c) == c.item = pos - 1 /\ c.segment = segment /\ c.began = began

\* Calls are of commands that have been passed, and while sub-commands of
\* "output" are executed the last is that of "output".
CallsInv ==
  /\ \A i \in DOMAIN calls : calls[i].item < pos
  /\ phase = "sub" => calls # <<>> /\ Recent(calls[Len(calls)])

LEMMA NewIsRecent ==
  /\ Recent(NewCall) /\ NewCall.view = ctx'.con.id /\ NewCall.overridden = ctx'.overridden
  /\ NewCall.active = ActiveView(world) /\ NewCall.ok = (phase' # "done")
BY DEF Recent, NewCall

\* What a call leaves alone.
LEMMA CallStep ==
  ASSUME TypeInv, CallOnFocus \/ CallOnContainer
  PROVE  /\ UNCHANGED shape /\ Call /\ Called /\ phase \in {"focus", "each"}
         /\ list' = list /\ pos' = pos /\ segment' = segment /\ began' = began
         /\ usingCriteria' = usingCriteria /\ containers' = containers /\ matched' = matched
         /\ phase' \in {"next", "each", "done", "sub"}
         /\ phase' \in {"sub", "each"} => results' = results
         /\ phase' = "each" => todo' # <<>>
         /\ phase' = "done" => results' = Append(results, "fail")
         /\ phase' = "next" => results' = Append(results, "ok") /\ todo' = <<>>
<1>1. UNCHANGED shape /\ Call /\ Called /\ phase \in {"focus", "each"}
  BY DEF CallOnFocus, CallOnContainer
<1>2. cmd.name \in Executed
  BY <1>1 DEF TypeInv
<1>3. ctx' \in [con : ContainerRec, overridden : BOOLEAN]
  BY TypeStep DEF TypeInv, Next
<1>4. QED BY <1>1, <1>2, <1>3, CallFacts DEF shape

\* What the other steps do to them.
LEMMA OtherStep ==
  ASSUME TypeInv, UNCHANGED vars \/ Finish \/ RejectCriteria \/ SubCommand \/ SubCommandsDone
  PROVE  /\ UNCHANGED shape /\ calls' = calls /\ todo' = todo /\ ctx' = ctx
         /\ list' = list /\ pos' = pos /\ segment' = segment /\ began' = began
         /\ usingCriteria' = usingCriteria /\ containers' = containers /\ matched' = matched
         /\ \/ phase' = phase /\ results' = results
            \/ phase' = "done"
            \/ phase = "sub" /\ phase' = "next" /\ todo = <<>>
            \/ phase = "sub" /\ phase' = "each" /\ todo # <<>>
<1>1. UNCHANGED shape /\ calls' = calls /\ todo' = todo /\ ctx' = ctx
  BY DEF vars, shape, Finish, RejectCriteria, SubCommand, SubCommandsDone
<1>2. \/ phase' = phase /\ results' = results
      \/ phase' = "done"
      \/ phase = "sub" /\ phase' = "next" /\ todo = <<>>
      \/ phase = "sub" /\ phase' = "each" /\ todo # <<>>
  <2>1. CASE UNCHANGED vars
    BY <2>1 DEF vars
  <2>2. CASE Finish \/ RejectCriteria
    BY <2>2 DEF Finish, RejectCriteria
  <2>3. CASE SubCommand
    BY <2>3, SubFacts DEF SubCommand
  <2>4. CASE SubCommandsDone
    BY <1>1, <2>4, ReturnFacts DEF SubCommandsDone
  <2>5. QED BY <2>1, <2>2, <2>3, <2>4
<1>3. QED BY <1>1, <1>2 DEF shape

\* A command that is ignored or looked up.
LEMMA SplitStep ==
  ASSUME TypeInv, IgnoreBlank \/ TakeCommand
  PROVE  /\ Split /\ list' = list /\ calls' = calls /\ ctx' = ctx /\ phase = "next"
         /\ phase' \in {"next", "focus", "each", "done"}
         /\ IgnoreBlank => phase' = "next" /\ results' = results
         /\ pos \in Nat /\ pos >= 1 /\ pos' \in Nat /\ pos < pos' /\ pos' - 1 <= Len(list)
<1>1. Split /\ list' = list /\ calls' = calls /\ ctx' = ctx /\ phase = "next"
  BY DEF IgnoreBlank, TakeCommand, Split
<1>2. phase' \in {"next", "focus", "each", "done"} /\ (IgnoreBlank => phase' = "next" /\ results' = results)
  BY <1>1, TakeFacts DEF IgnoreBlank
<1>3. PICK q : q = pos'
  OBVIOUS
<1>4. pos \in Nat \ {0} /\ Len(list) \in Nat /\ q \in Nat /\ q - 1 \in pos..Len(list)
  BY <1>1, <1>3, SplitFacts, Positions
<1>5. pos \in Nat /\ pos >= 1 /\ q \in Nat /\ pos < q /\ q - 1 <= Len(list)
  BY <1>4
<1>6. QED BY <1>1, <1>2, <1>3, <1>5

LEMMA CallsInit ==
  ASSUME Init
  PROVE  CallsInv
<1>1. calls = <<>> /\ phase = "next"
  BY Zenon DEF Init
<1>2. DOMAIN <<>> = {}
  OBVIOUS
<1>3. DOMAIN calls = {}
  BY <1>1, <1>2, Zenon
<1>4. QED BY <1>1, <1>3 DEF CallsInv

LEMMA CallsStep ==
  ASSUME TypeInv, CallsInv, [Next]_vars
  PROVE  CallsInv'
<1>0. \A i \in DOMAIN calls : calls[i].item \in Nat /\ calls[i].item < pos
  BY CallsType DEF CallsInv
<1>1. CASE IgnoreBlank \/ TakeCommand
  <2>1. PICK q : q = pos'
    OBVIOUS
  <2>2. calls' = calls /\ phase' # "sub" /\ pos \in Nat /\ q \in Nat /\ pos < q
    BY <1>1, <2>1, SplitStep
  <2>3. \A i \in DOMAIN calls : calls[i].item < q
    BY <1>0, <2>2
  <2>4. QED BY <2>1, <2>2, <2>3 DEF CallsInv
<1>2. CASE CallOnFocus \/ CallOnContainer
  <2>1. pos' = pos /\ segment' = segment /\ began' = began /\ Called
    BY <1>2, CallStep
  <2>2. /\ \A i \in DOMAIN calls : calls'[i] = calls[i]
        /\ calls'[Len(calls')] = NewCall /\ Len(calls') \in DOMAIN calls'
        /\ \A i \in DOMAIN calls' : i \in DOMAIN calls \/ i = Len(calls')
    BY <2>1, CallsMore
  <2>3. NewCall.item < pos
    <3>1. pos \in Nat /\ pos - 1 < pos
      BY Positions
    <3>2. QED BY <3>1 DEF NewCall
  <2>4. \A i \in DOMAIN calls' : calls'[i].item < pos
    BY <1>0, <2>2, <2>3
  <2>5. calls' # <<>>
    <3>1. DOMAIN <<>> = {}
      OBVIOUS
    <3>2. QED BY <2>2, <3>1, Zenon
  <2>6. Recent(calls'[Len(calls')])
    BY <2>2, NewIsRecent
  <2>7. Recent(calls[Len(calls)])'
    BY <2>1, <2>6 DEF Recent
  <2>8. QED BY <2>1, <2>4, <2>5, <2>7 DEF CallsInv
<1>3. CASE UNCHANGED vars \/ Finish \/ RejectCriteria \/ SubCommand \/ SubCommandsDone
  <2>1. /\ calls' = calls /\ pos' = pos /\ segment' = segment /\ began' = began
        /\ phase' = "sub" => phase = "sub"
    BY <1>3, OtherStep
  <2>2. \A c : Recent(c)' <=> Recent(c)
    BY <2>1 DEF Recent
  <2>3. QED BY <2>1, <2>2 DEF CallsInv
<1>4. QED BY <1>1, <1>2, <1>3 DEF Next

-----------------------------------------------------------------------------
(* What the results tell.                                                  *)

\* The commands among the first k items, and their number.
CommandsTo(k) == {j \in 1..k : list[j].cmd \notin Empty}
Count(k) == Cardinality(CommandsTo(k))

LEMMA CommandsAre ==
  ASSUME TypeInv
  PROVE  /\ Commands = CommandsTo(Len(list))
         /\ \A k : k \in Commands <=> k \in 1..Len(list) /\ list[k].cmd \notin Empty
         /\ \A k \in Commands : Commands \cap 1..k = CommandsTo(k)
<1>1. Len(list) \in Nat /\ DOMAIN list = 1..Len(list)
  BY Positions
<1>2. \A k \in 1..Len(list) : 1..k \subseteq 1..Len(list)
  BY <1>1
<1>3. QED BY <1>1, <1>2 DEF Commands, CommandsTo, Empty

LEMMA CountType ==
  ASSUME NEW k \in Nat
  PROVE  IsFiniteSet(CommandsTo(k)) /\ Count(k) \in Nat
<1>1. IsFiniteSet(1..k)
  BY FS_Interval
<1>2. CommandsTo(k) \subseteq 1..k
  BY DEF CommandsTo
<1>3. QED BY <1>1, <1>2, FS_Subset, FS_CardinalityType DEF Count

LEMMA CountSame ==
  ASSUME NEW i \in Nat, NEW n \in Nat, i <= n, \A k \in i + 1..n : list[k].cmd \in Empty
  PROVE  CommandsTo(n) = CommandsTo(i)
BY DEF CommandsTo

\* A command counts.
LEMMA CountMore ==
  ASSUME NEW i \in Nat, NEW n \in Nat, i < n, list[n].cmd \notin Empty
  PROVE  Count(i) < Count(n)
<1>1. CommandsTo(i) \cup {n} \subseteq CommandsTo(n) /\ n \notin CommandsTo(i)
  BY DEF CommandsTo
<1>2. IsFiniteSet(CommandsTo(n)) /\ IsFiniteSet(CommandsTo(i)) /\ Count(i) \in Nat /\ Count(n) \in Nat
  BY CountType
<1>3. Cardinality(CommandsTo(i) \cup {n}) = Count(i) + 1
  BY <1>1, <1>2, FS_AddElement DEF Count
<1>4. Cardinality(CommandsTo(i) \cup {n}) <= Count(n)
  BY <1>1, <1>2, FS_Subset DEF Count
<1>5. QED BY <1>2, <1>3, <1>4

\* One command is one more.
LEMMA CountOne ==
  ASSUME NEW i \in Nat, NEW n \in Nat, i < n, \A k \in i + 1..n - 1 : list[k].cmd \in Empty,
         list[n].cmd \notin Empty
  PROVE  Count(n) = Count(i) + 1
<1>1. CommandsTo(n) = CommandsTo(i) \cup {n}
  BY DEF CommandsTo
<1>2. n \notin CommandsTo(i)
  BY DEF CommandsTo
<1>3. QED BY <1>1, <1>2, CountType, FS_AddElement DEF Count

\* Different commands count differently.
LEMMA CountOnce ==
  ASSUME TypeInv, NEW i \in Commands, NEW k \in Commands, Count(i) = Count(k)
  PROVE  i = k
<1>1. /\ i \in Nat /\ k \in Nat /\ list[i].cmd \notin Empty /\ list[k].cmd \notin Empty
  BY CommandsAre
<1>2. Count(i) \in Nat /\ Count(k) \in Nat
  BY <1>1, CountType
<1>3. ~(i < k)
  BY <1>1, <1>2, CountMore
<1>4. ~(k < i)
  BY <1>1, <1>2, CountMore
<1>5. QED BY <1>1, <1>3, <1>4

\* The result of the k-th item says what has become of its command.
Told(k) ==
  Count(k) <= Len(results) /\ results[Count(k)] # "fail" =>
    /\ results[Count(k)] = "nomatch" <=> CallsOf(k) = {}
    /\ \A c \in CallsOf(k) : c.ok

\* As long as the list is executed nothing has failed, and every command
\* passed has its result.
ResultsInv ==
  /\ \A i \in 1..Len(results) - 1 : results[i] # "fail"
  /\ \A i \in 1..Len(calls) - 1 : calls[i].ok
  /\ \A k \in Commands : Told(k)
  /\ phase # "done" => /\ \A i \in 1..Len(results) : results[i] # "fail"
                       /\ \A i \in 1..Len(calls) : calls[i].ok
  /\ phase = "next" => Len(results) = Count(pos - 1)
  /\ phase \in {"focus", "each", "sub"} => Len(results) + 1 = Count(pos - 1)
  /\ phase = "done" /\ (results # <<>> => results[Len(results)] # "fail") =>
       Len(results) = Cardinality(Commands)

LEMMA ResultsMean ==
  ASSUME TypeInv, ResultsInv
  PROVE  ResultsTell
<1>1. \A i, j \in DOMAIN calls : i < j /\ ~calls[i].ok => calls[j].item = calls[i].item
  <2>1. Len(calls) \in Nat /\ DOMAIN calls = 1..Len(calls)
    BY CallsType
  <2>2. \A i, j \in DOMAIN calls : i < j => i \in 1..Len(calls) - 1
    BY <2>1
  <2>3. QED BY <2>2 DEF ResultsInv
<1>2. \A k \in Commands : Commands \cap 1..k = CommandsTo(k)
  BY CommandsAre
<1>3. \A k \in Commands :
        LET m == Cardinality(Commands \cap 1..k)
        IN m <= Len(results) /\ results[m] # "fail" =>
             /\ results[m] = "nomatch" <=> CallsOf(k) = {}
             /\ \A c \in CallsOf(k) : c.ok
  BY <1>2 DEF ResultsInv, Told, Count
<1>4. QED BY <1>1, <1>3 DEF ResultsTell, ResultsInv

LEMMA ResultsInit ==
  ASSUME Init
  PROVE  ResultsInv
<1>1. results = <<>> /\ calls = <<>> /\ phase = "next" /\ pos - 1 = 0
  <2>1. results = <<>> /\ calls = <<>> /\ phase = "next" /\ pos = 1
    BY Zenon DEF Init
  <2>2. QED BY <2>1
<1>2. Len(<<>>) = 0 /\ Count(0) = 0
  <2>1. CommandsTo(0) = {} /\ Cardinality({}) = 0
    BY FS_EmptySet DEF CommandsTo
  <2>2. QED BY <2>1 DEF Count
<1>3. \A k \in Commands : Told(k)
  <2> SUFFICES ASSUME NEW k \in Commands PROVE Told(k)
    OBVIOUS
  <2>1. k \in Nat /\ 0 < k /\ list[k].cmd \notin Empty
    BY TypeInit, CommandsAre
  <2>2. 0 < Count(k) /\ Count(k) \in Nat
    BY <1>2, <2>1, CountMore, CountType
  <2>3. ~(Count(k) <= Len(results))
    BY <1>1, <1>2, <2>2
  <2>4. QED BY <2>3 DEF Told
<1>4. Len(results) = Count(pos - 1)
  BY <1>1, <1>2
<1>5. QED BY <1>1, <1>2, <1>3, <1>4 DEF ResultsInv

\* The calls of an item before and after a call.
LEMMA CallsOfMore ==
  ASSUME TypeInv, Called, NEW k
  PROVE  CallsOf(k)' = CallsOf(k) \cup (IF k = pos - 1 THEN {NewCall} ELSE {})
<1>1. /\ \A i \in DOMAIN calls : calls'[i] = calls[i]
      /\ calls'[Len(calls')] = NewCall /\ Len(calls') \in DOMAIN calls'
      /\ \A i \in DOMAIN calls' : i \in DOMAIN calls \/ i = Len(calls')
      /\ \A i \in DOMAIN calls : i \in DOMAIN calls'
  BY CallsMore
<1>2. NewCall.item = pos - 1
  BY DEF NewCall
<1>3. CallsOf(k) = {calls[i] : i \in {j \in DOMAIN calls : calls[j].item = k}}
  BY DEF CallsOf
<1>4. CallsOf(k)' = {calls'[i] : i \in {j \in DOMAIN calls' : calls'[j].item = k}}
  BY DEF CallsOf
<1> HIDE DEF CallsOf
<1>5. QED BY <1>1, <1>2, <1>3, <1>4

\* A result is added.
LEMMA ToldMore ==
  ASSUME TypeInv, ResultsInv, list' = list, NEW x \in Result, results' = Append(results, x),
         \A k \in Commands : Count(k) <= Len(results) => CallsOf(k)' = CallsOf(k),
         x # "fail" => \A k \in Commands : Count(k) = Len(results) + 1 =>
                         (x = "nomatch" <=> CallsOf(k)' = {}) /\ \A c \in CallsOf(k)' : c.ok
  PROVE  (\A k \in Commands : Told(k))'
<1>1. /\ Len(results) \in Nat /\ Len(results') = Len(results) + 1
      /\ results'[Len(results')] = x
      /\ \A i \in 1..Len(results) : results'[i] = results[i]
  BY ResultsType
<1>2. Commands' = Commands /\ \A k : Count(k)' = Count(k)
  BY DEF Commands, CommandsTo, Count
<1> SUFFICES ASSUME NEW k \in Commands PROVE Told(k)'
  BY <1>2
<1>3. k \in Nat /\ 0 < k /\ list[k].cmd \notin Empty
  BY CommandsAre
<1> DEFINE m == Count(k)
<1>4. m \in Nat /\ 0 < m
  <2>1. 0 \in Nat /\ Count(0) \in Nat
    BY CountType
  <2>2. QED BY <1>3, <2>1, CountMore, CountType
<1>5. Count(k)' = m
  BY <1>2
<1>6. Told(k) /\ (m <= Len(results) => CallsOf(k)' = CallsOf(k))
  BY DEF ResultsInv
<1>7. x # "fail" /\ m = Len(results) + 1 =>
        (x = "nomatch" <=> CallsOf(k)' = {}) /\ \A c \in CallsOf(k)' : c.ok
  OBVIOUS
<1>8. Told(k)' <=>
        (m <= Len(results') /\ results'[m] # "fail" =>
           /\ results'[m] = "nomatch" <=> CallsOf(k)' = {}
           /\ \A c \in CallsOf(k)' : c.ok)
  BY <1>5 DEF Told
<1>9. Told(k) <=>
        (m <= Len(results) /\ results[m] # "fail" =>
           /\ results[m] = "nomatch" <=> CallsOf(k) = {}
           /\ \A c \in CallsOf(k) : c.ok)
  BY DEF Told
<1> HIDE DEF m
<1>10. CASE m <= Len(results)
  <2>1. results'[m] = results[m] /\ CallsOf(k)' = CallsOf(k)
    BY <1>1, <1>4, <1>6, <1>10
  <2>2. QED BY <1>6, <1>8, <1>9, <1>10, <2>1
<1>11. CASE m = Len(results')
  <2>1. results'[m] = x /\ m = Len(results) + 1
    BY <1>1, <1>11
  <2>2. QED BY <1>7, <1>8, <2>1
<1>12. CASE m > Len(results')
  BY <1>1, <1>4, <1>8, <1>12
<1>13. QED BY <1>1, <1>4, <1>10, <1>11, <1>12

\* A result is added and the list goes on, or ends with a failure.
LEMMA AddResult ==
  ASSUME TypeInv, ResultsInv, phase # "done", list' = list, NEW x \in Result,
         results' = Append(results, x), phase' = "done" <=> x = "fail",
         (\A k \in Commands : Told(k))',
         \A i \in 1..Len(calls') - 1 : calls'[i].ok,
         phase' # "done" => /\ phase' = "next" /\ \A i \in 1..Len(calls') : calls'[i].ok
                            /\ Len(results) + 1 = Count(pos' - 1)
  PROVE  ResultsInv'
<1>1. /\ Len(results) \in Nat /\ Len(results') = Len(results) + 1
      /\ results'[Len(results')] = x /\ results' # <<>>
      /\ \A i \in 1..Len(results) : results'[i] = results[i]
  BY ResultsType
<1>2. \A i \in 1..Len(results) : results[i] # "fail"
  BY DEF ResultsInv
<1>3. \A i \in 1..Len(results') - 1 : results'[i] # "fail"
  BY <1>1, <1>2
<1>4. x # "fail" => \A i \in 1..Len(results') : results'[i] # "fail"
  BY <1>1, <1>2
<1>5. Count(pos - 1)' = Count(pos' - 1)
  BY DEF CommandsTo, Count
<1>6. QED BY <1>1, <1>3, <1>4, <1>5 DEF ResultsInv

\* No result is added and the list goes on.
LEMMA NoResult ==
  ASSUME TypeInv, ResultsInv, phase # "done", list' = list, results' = results,
         \A i \in 1..Len(calls') : calls'[i].ok, \A i \in 1..Len(calls') - 1 : calls'[i].ok,
         \A k \in Commands : Count(k) <= Len(results) => CallsOf(k)' = CallsOf(k),
         \/ phase' = "next" /\ Len(results) = Count(pos' - 1)
         \/ phase' \in {"focus", "each", "sub"} /\ Len(results) + 1 = Count(pos' - 1)
  PROVE  ResultsInv'
<1>1. Len(results) \in Nat
  BY ResultsType
<1>2. \A i \in 1..Len(results) : results[i] # "fail"
  BY DEF ResultsInv
<1>3. Commands' = Commands /\ \A k : Count(k)' = Count(k)
  BY DEF Commands, CommandsTo, Count
<1>4. (\A k \in Commands : Told(k))'
  <2> SUFFICES ASSUME NEW k \in Commands PROVE Told(k)'
    BY <1>3
  <2>1. Told(k) /\ Count(k)' = Count(k) /\ (Count(k) <= Len(results) => CallsOf(k)' = CallsOf(k))
    BY <1>3 DEF ResultsInv
  <2>2. QED BY <2>1 DEF Told
<1>5. Count(pos - 1)' = Count(pos' - 1)
  BY DEF CommandsTo, Count
<1>6. QED BY <1>2, <1>4, <1>5 DEF ResultsInv

\* Where no handler is called.
LEMMA CallsSame ==
  ASSUME TypeInv, ResultsInv, phase # "done", calls' = calls
  PROVE  /\ \A i \in 1..Len(calls') : calls'[i].ok
         /\ \A i \in 1..Len(calls') - 1 : calls'[i].ok
         /\ \A k : CallsOf(k)' = CallsOf(k)
<1>1. Len(calls) \in Nat
  BY DEF TypeInv
<1>2. \A i \in 1..Len(calls) : calls[i].ok
  BY DEF ResultsInv
<1>3. QED BY <1>1, <1>2 DEF CallsOf

\* The item of the command at hand.
LEMMA AtHand ==
  ASSUME TypeInv, ResultsInv, phase \in {"focus", "each", "sub"}
  PROVE  /\ pos - 1 \in Commands /\ Len(results) + 1 = Count(pos - 1)
         /\ \A k \in Commands : Count(k) = Len(results) + 1 => k = pos - 1
<1>1. pos > 1 /\ list[pos - 1].cmd.name \in Executed
  BY DEF TypeInv
<1>2. pos - 1 \in 1..Len(list)
  BY <1>1, Positions
<1>3. pos - 1 \in Commands
  BY <1>1, <1>2, CommandsAre, Names
<1>4. Len(results) + 1 = Count(pos - 1)
  BY DEF ResultsInv
<1>5. QED BY <1>3, <1>4, CountOnce

LEMMA ResultsStep ==
  ASSUME TypeInv, CallsInv, ResultsInv, [Next]_vars
  PROVE  ResultsInv'
<1>0. /\ pos - 1 \in Nat /\ pos \in Nat /\ Len(list) \in Nat
      /\ pos - 1 <= Len(list) /\ (pos - 1) + 1 = pos
  BY Positions
<1>1. CASE UNCHANGED vars
  <2>1. Commands' = Commands /\ (\A k : Count(k)' = Count(k) /\ CallsOf(k)' = CallsOf(k))
    BY <1>1 DEF vars, Commands, CommandsTo, Count, CallsOf
  <2>2. \A k : Told(k)' <=> Told(k)
    BY <1>1, <2>1 DEF vars, Told
  <2>3. Count(pos - 1)' = Count(pos - 1)
    BY <1>1 DEF vars, CommandsTo, Count
  <2>4. QED BY <1>1, <2>1, <2>2, <2>3 DEF vars, ResultsInv
<1>2. CASE Finish
  <2>1. phase' = "done" /\ list' = list /\ results' = results /\ calls' = calls
        /\ phase = "next" /\ Rest = {}
    BY <1>2 DEF Finish, shape
  <2>2. \A k \in pos..Len(list) : list[k].cmd \in Empty
    <3>1. \A k \in pos..Len(list) : Word(k) \in Empty
      BY <2>1 DEF Rest, Passed, Empty
    <3>2. QED BY <3>1, Names DEF Word
  <2>3. Commands = CommandsTo(pos - 1)
    <3>1. CommandsTo(Len(list)) = CommandsTo(pos - 1)
      BY <1>0, <2>2, CountSame
    <3>2. QED BY <3>1, CommandsAre
  <2>4. Commands' = Commands /\ \A k : Count(k)' = Count(k) /\ CallsOf(k)' = CallsOf(k)
    BY <2>1 DEF Commands, CommandsTo, Count, CallsOf
  <2>5. \A k : Told(k)' <=> Told(k)
    BY <2>1, <2>4 DEF Told
  <2>6. Len(results) = Cardinality(Commands)
    BY <2>1, <2>3 DEF ResultsInv, Count
  <2>7. QED BY <2>1, <2>4, <2>5, <2>6 DEF ResultsInv
<1>3. CASE RejectCriteria
  <2>1. /\ phase' = "done" /\ list' = list /\ results' = Append(results, "fail") /\ calls' = calls
        /\ phase = "next"
    BY <1>3 DEF RejectCriteria, shape
  <2>2. "fail" \in Result
    BY ResultNames
  <2>3. (\A k \in Commands : Told(k))'
    BY <2>1, <2>2, CallsSame, ToldMore
  <2>4. QED BY <2>1, <2>2, <2>3, CallsSame, AddResult
<1>4. CASE IgnoreBlank
  <2>1. /\ phase = "next" /\ list' = list /\ calls' = calls /\ results' = results
        /\ phase' = "next" /\ Split
    BY <1>4, SplitStep
  <2>2. Len(results) = Count(pos' - 1)
    <3>1. PICK q : q = pos'
      OBVIOUS
    <3>2. /\ q \in Nat /\ q - 1 \in Nat /\ \A k \in pos..q - 2 : list[k].cmd \in Empty
          /\ list[q - 1].cmd \in Empty /\ q - 1 \in pos..Len(list)
      BY <1>4, <2>1, <3>1, SplitFacts, BlankFacts
    <3>3. pos - 1 <= q - 1 /\ \A k \in (pos - 1) + 1..q - 1 : k \in pos..q - 2 \/ k = q - 1
      BY <1>0, <3>2
    <3>4. CommandsTo(q - 1) = CommandsTo(pos - 1)
      BY <1>0, <3>2, <3>3, CountSame
    <3>5. QED BY <2>1, <3>1, <3>4 DEF ResultsInv, Count
  <2>3. QED BY <2>1, <2>2, CallsSame, NoResult
<1>5. CASE TakeCommand
  <2>1. phase = "next" /\ list' = list /\ calls' = calls /\ Split /\ Len(results) \in Nat
    BY <1>5, SplitStep, ResultsType
  <2>2. /\ \A i \in 1..Len(calls') : calls'[i].ok
        /\ \A i \in 1..Len(calls') - 1 : calls'[i].ok
        /\ \A k : CallsOf(k)' = CallsOf(k)
    BY <2>1, CallsSame
  <2>3. phase' # "done" =>
          /\ Len(results) + 1 = Count(pos' - 1)
          /\ \A k \in Commands : Count(k) = Len(results) + 1 => CallsOf(k) = {}
    <3> SUFFICES ASSUME phase' # "done"
                 PROVE  /\ Len(results) + 1 = Count(pos' - 1)
                        /\ \A k \in Commands : Count(k) = Len(results) + 1 => CallsOf(k) = {}
      OBVIOUS
    <3>1. PICK q : q = pos'
      OBVIOUS
    <3>2. /\ q \in Nat /\ q - 1 \in Nat /\ q - 1 \in pos..Len(list)
          /\ \A k \in pos..q - 2 : list[k].cmd \in Empty
      BY <2>1, <3>1, SplitFacts
    <3>3. list[q - 1].cmd \notin Empty
      BY <1>5, <3>1, TakeFacts
    <3>4. pos - 1 < q - 1 /\ (q - 1) - 1 = q - 2 /\ q - 1 \in 1..Len(list)
      BY <1>0, <3>2
    <3>5. Count(q - 1) = Count(pos - 1) + 1
      BY <1>0, <3>2, <3>3, <3>4, CountOne
    <3>6. Len(results) + 1 = Count(q - 1) /\ q - 1 \in Commands
      BY <2>1, <3>3, <3>4, <3>5, CommandsAre DEF ResultsInv
    <3>7. CallsOf(q - 1) = {}
      <4>1. \A i \in DOMAIN calls : calls[i].item \in Nat /\ calls[i].item < pos
        BY CallsType DEF CallsInv
      <4>2. \A i \in DOMAIN calls : calls[i].item # q - 1
        BY <1>0, <3>2, <4>1
      <4>3. QED BY <4>2 DEF CallsOf
    <3>8. QED BY <3>1, <3>6, <3>7, CountOnce
  <2>4. CASE phase' \in {"focus", "each"}
    <3>1. results' = results
      BY <1>5, <2>4, TakeFacts
    <3>2. QED BY <2>1, <2>2, <2>3, <2>4, <3>1, NoResult
  <2>5. CASE phase' = "done"
    <3>1. results' = Append(results, "fail") /\ "fail" \in Result
      BY <1>5, <2>5, TakeFacts, ResultNames
    <3>2. (\A k \in Commands : Told(k))'
      BY <2>1, <2>2, <3>1, ToldMore
    <3>3. QED BY <2>1, <2>2, <2>5, <3>1, <3>2, AddResult
  <2>6. CASE phase' = "next"
    <3>1. results' = Append(results, "nomatch") /\ "nomatch" \in Result
      BY <1>5, <2>6, TakeFacts, ResultNames
    <3>2. \A k \in Commands : Count(k) = Len(results) + 1 => CallsOf(k)' = {}
      BY <2>2, <2>3, <2>6
    <3>3. (\A k \in Commands : Told(k))'
      BY <2>1, <2>2, <3>1, <3>2, ToldMore
    <3>4. QED BY <2>1, <2>2, <2>3, <2>6, <3>1, <3>3, AddResult
  <2>7. QED BY <1>5, <2>4, <2>5, <2>6, TakeFacts
<1>6. CASE CallOnFocus \/ CallOnContainer
  <2>1. /\ list' = list /\ pos' = pos /\ Called /\ phase \in {"focus", "each"}
        /\ phase' \in {"next", "each", "done", "sub"}
        /\ phase' \in {"sub", "each"} => results' = results
        /\ phase' = "done" => results' = Append(results, "fail")
        /\ phase' = "next" => results' = Append(results, "ok")
    BY <1>6, CallStep
  <2>2. /\ pos - 1 \in Commands /\ Len(results) + 1 = Count(pos - 1)
        /\ \A k \in Commands : Count(k) = Len(results) + 1 => k = pos - 1
    BY <2>1, AtHand
  <2>3. \A i \in 1..Len(calls) : calls[i].ok
    BY <2>1 DEF ResultsInv
  <2>4. /\ \A i \in 1..Len(calls') - 1 : calls'[i].ok
        /\ phase' # "done" => \A i \in 1..Len(calls') : calls'[i].ok
    <3>1. /\ Len(calls) \in Nat /\ Len(calls') = Len(calls) + 1 /\ Len(calls') - 1 = Len(calls)
          /\ \A i \in 1..Len(calls) : calls'[i] = calls[i]
          /\ calls'[Len(calls')] = NewCall
      BY <2>1, CallsMore
    <3>2. \A i \in 1..Len(calls') : i \in 1..Len(calls) \/ i = Len(calls')
      BY <3>1
    <3>3. \A i \in 1..Len(calls) : calls'[i].ok
      BY <2>3, <3>1
    <3>4. phase' # "done" => calls'[Len(calls')].ok
      BY <3>1, NewIsRecent
    <3>5. \A i \in 1..Len(calls') - 1 : calls'[i].ok
      BY <3>1, <3>3
    <3>6. QED BY <3>2, <3>3, <3>4, <3>5
  <2>5. \A k \in Commands : Count(k) <= Len(results) => CallsOf(k)' = CallsOf(k)
    <3> SUFFICES ASSUME NEW k \in Commands, Count(k) <= Len(results) PROVE CallsOf(k)' = CallsOf(k)
      OBVIOUS
    <3>1. Len(results) \in Nat
      BY ResultsType
    <3>2. k # pos - 1
      BY <2>2, <3>1
    <3>3. QED BY <2>1, <3>2, CallsOfMore
  <2>6. CASE phase' \in {"sub", "each"}
    BY <2>1, <2>2, <2>4, <2>5, <2>6, NoResult
  <2>7. CASE phase' = "done"
    <3>1. results' = Append(results, "fail") /\ "fail" \in Result
      BY <2>1, <2>7, ResultNames
    <3>2. (\A k \in Commands : Told(k))'
      BY <2>1, <2>5, <3>1, ToldMore
    <3>3. QED BY <2>1, <2>4, <2>7, <3>1, <3>2, AddResult
  <2>8. CASE phase' = "next"
    <3>1. results' = Append(results, "ok") /\ "ok" \in Result
      BY <2>1, <2>8, ResultNames
    <3>2. \A k \in Commands : Count(k) = Len(results) + 1 =>
            CallsOf(k)' # {} /\ \A c \in CallsOf(k)' : c.ok
      <4>0. PICK j : j = pos - 1
        OBVIOUS
      <4>1. CallsOf(j)' = CallsOf(j) \cup {NewCall}
        BY <2>1, <4>0, CallsOfMore
      <4>2. NewCall.ok
        BY <2>8, NewIsRecent
      <4>3. \A c \in CallsOf(j) : c.ok
        <5>1. \A i \in DOMAIN calls : calls[i].ok
          BY <2>3, CallsType
        <5>2. QED BY <5>1 DEF CallsOf
      <4>4. QED BY <2>2, <4>0, <4>1, <4>2, <4>3
    <3>3. (\A k \in Commands : Told(k))'
      BY <2>1, <2>5, <3>1, <3>2, ToldMore
    <3>4. QED BY <2>1, <2>2, <2>4, <2>8, <3>1, <3>3, AddResult
  <2>9. QED BY <2>1, <2>6, <2>7, <2>8
<1>7. CASE SubCommand \/ SubCommandsDone
  <2>1. list' = list /\ pos' = pos /\ calls' = calls /\ phase = "sub"
    BY <1>7 DEF SubCommand, SubCommandsDone, shape
  <2>2. /\ pos - 1 \in Commands /\ Len(results) + 1 = Count(pos - 1)
        /\ \A k \in Commands : Count(k) = Len(results) + 1 => k = pos - 1
    BY <2>1, AtHand
  <2>3. /\ \A i \in 1..Len(calls') : calls'[i].ok
        /\ \A i \in 1..Len(calls') - 1 : calls'[i].ok
        /\ \A k : CallsOf(k)' = CallsOf(k)
    BY <2>1, CallsSame
  <2>4. /\ phase' \in {"sub", "next", "each", "done"}
        /\ phase' \in {"sub", "each"} => results' = results
        /\ phase' = "done" => results' = Append(results, "fail")
        /\ phase' = "next" => results' = Append(results, "ok")
    <3>1. CASE SubCommand
      BY <3>1, SubFacts
    <3>2. CASE SubCommandsDone
      BY <3>2, ReturnFacts DEF SubCommandsDone
    <3>3. QED BY <1>7, <3>1, <3>2
  <2>5. CASE phase' \in {"sub", "each"}
    BY <2>1, <2>2, <2>3, <2>4, <2>5, NoResult
  <2>6. CASE phase' = "done"
    <3>1. results' = Append(results, "fail") /\ "fail" \in Result
      BY <2>4, <2>6, ResultNames
    <3>2. (\A k \in Commands : Told(k))'
      BY <2>1, <2>3, <3>1, ToldMore
    <3>3. QED BY <2>1, <2>3, <2>6, <3>1, <3>2, AddResult
  <2>7. CASE phase' = "next"
    <3>1. results' = Append(results, "ok") /\ "ok" \in Result
      BY <2>4, <2>7, ResultNames
    <3>2. CallsOf(pos - 1) # {} /\ \A c \in CallsOf(pos - 1) : c.ok
      <4>1. calls # <<>> /\ calls[Len(calls)].item = pos - 1
        BY <2>1 DEF CallsInv, Recent
      <4>2. Len(calls) \in DOMAIN calls
        BY <4>1, CallsType
      <4>3. \A i \in DOMAIN calls : calls[i].ok
        BY <2>1, <2>3, CallsType
      <4>4. QED BY <4>1, <4>2, <4>3 DEF CallsOf
    <3>3. \A k \in Commands : Count(k) = Len(results) + 1 =>
            CallsOf(k)' # {} /\ \A c \in CallsOf(k)' : c.ok
      BY <2>2, <2>3, <3>2
    <3>4. (\A k \in Commands : Told(k))'
      BY <2>1, <2>3, <3>1, <3>3, ToldMore
    <3>5. QED BY <2>1, <2>2, <2>3, <2>7, <3>1, <3>4, AddResult
  <2>8. QED BY <2>4, <2>5, <2>6, <2>7
<1>8. QED BY <1>1, <1>2, <1>3, <1>4, <1>5, <1>6, <1>7 DEF Next

\* A client can tell from the results what has happened: they are those of
\* the commands in their order, "ok" only if the command was called and
\* failed for no view, "nomatch" only if it was not called, one for every
\* command unless the last is a failure, after which no other was called.
THEOREM ResultsTellHolds == Spec => []ResultsTell
<1>1. Init => TypeInv /\ CallsInv /\ ResultsInv
  BY TypeInit, CallsInit, ResultsInit
<1>2. TypeInv /\ CallsInv /\ ResultsInv /\ [Next]_vars => TypeInv' /\ CallsInv' /\ ResultsInv'
  BY TypeStep, CallsStep, ResultsStep
<1>3. TypeInv /\ ResultsInv => ResultsTell
  BY ResultsMean
<1>4. QED BY <1>1, <1>2, <1>3, PTL DEF Spec

-----------------------------------------------------------------------------
(* The scope of criteria.                                                  *)

LEMMA InTail ==
  ASSUME NEW V, NEW s \in Seq(V), s # <<>>
  PROVE  /\ s[1] \in V /\ In(s[1], s)
         /\ \A x : In(x, s) <=> x = s[1] \/ In(x, Tail(s))
<1>1. Len(s) \in Nat /\ Len(s) >= 1 /\ Len(Tail(s)) = Len(s) - 1 /\ s[1] \in V
  OBVIOUS
<1>2. \A i \in 1..Len(s) - 1 : Tail(s)[i] = s[i + 1]
  OBVIOUS
<1>3. ASSUME NEW x, In(x, s), x # s[1] PROVE In(x, Tail(s))
  <2>1. PICK i \in 1..Len(s) : s[i] = x
    BY <1>3 DEF In
  <2>2. i - 1 \in 1..Len(s) - 1 /\ (i - 1) + 1 = i
    BY <1>1, <1>3, <2>1
  <2>3. QED BY <1>1, <1>2, <2>1, <2>2 DEF In
<1>4. ASSUME NEW x, In(x, Tail(s)) PROVE In(x, s)
  <2>1. PICK i \in 1..Len(s) - 1 : Tail(s)[i] = x
    BY <1>1, <1>4 DEF In
  <2>2. i + 1 \in 1..Len(s)
    BY <1>1, <2>1
  <2>3. QED BY <1>2, <2>1, <2>2 DEF In
<1>5. In(s[1], s)
  BY <1>1 DEF In
<1>6. QED BY <1>1, <1>3, <1>4, <1>5

LEMMA InEmpty ==
  ASSUME NEW x
  PROVE  ~In(x, <<>>)
<1>1. Len(<<>>) = 0
  OBVIOUS
<1>2. 1..0 = {}
  OBVIOUS
<1>3. QED BY <1>1, <1>2 DEF In

\* The criteria that hold for the command at hand.
ItsCriteria == list[segment].crit

\* The i-th call is as Governed says.
GovernedBy(i) ==
  LET c == calls[i]
      crit == list[c.segment].crit
  IN /\ c.segment \in 1..c.item
     /\ c.segment # 1 => list[c.segment - 1].sep = ";"
     /\ \A k \in Commands \cap c.segment..c.item - 1 : list[k].sep # ";"
     /\ IF crit # <<>>
          THEN Understood(crit, c.began) => c.overridden /\ c.view \in Selected(crit, c.began)
        ELSE IF c.active # NoView
          THEN ~c.overridden /\ c.view = Describe(c.active).id
        ELSE c.view = IF i = 1 THEN NoView ELSE calls[i - 1].view

\* The segment at hand: it begins the list or follows a semicolon, and ends
\* with the first command that a semicolon follows.
SegmentInv ==
  /\ matched = IF pos = 1 THEN ";" ELSE list[pos - 1].sep
  /\ segment \in 1..pos /\ (pos > 1 => segment \in 1..pos - 1)
  /\ segment # 1 => list[segment - 1].sep = ";"
  /\ \A k \in Commands \cap segment..pos - 2 : list[k].sep # ";"

ScopeInv ==
  /\ SegmentInv
  /\ usingCriteria => containers = GetContainers(ItsCriteria, began)
  /\ pos > 1 => (usingCriteria <=> ItsCriteria # <<>>)
  /\ phase = "focus" => ~usingCriteria
  /\ phase = "each" => usingCriteria
  /\ phase = "sub" /\ ~usingCriteria => todo = <<>>
  /\ phase \in {"each", "sub"} => \A con : In(con, todo) => In(con, containers)
  /\ ctx.con.id = IF calls = <<>> THEN NoView ELSE calls[Len(calls)].view
  /\ \A i \in DOMAIN calls : GovernedBy(i)

LEMMA ScopeMeans == ScopeInv => Governed
BY DEF ScopeInv, GovernedBy, Governed

\* Calls stay as they are.
LEMMA StillGoverned ==
  ASSUME TypeInv, list' = list, NEW i \in DOMAIN calls, \A j \in DOMAIN calls : calls'[j] = calls[j],
         GovernedBy(i)
  PROVE  GovernedBy(i)'
<1>1. Commands' = Commands /\ calls'[i] = calls[i]
  BY DEF Commands
<1>2. i # 1 => calls'[i - 1] = calls[i - 1]
  <2>1. i \in 1..Len(calls) /\ DOMAIN calls = 1..Len(calls) /\ Len(calls) \in Nat
    BY CallsType
  <2>2. i # 1 => i - 1 \in DOMAIN calls
    BY <2>1
  <2>3. QED BY <2>2
<1>3. QED BY <1>1, <1>2 DEF GovernedBy

LEMMA SameSegment ==
  ASSUME list' = list, pos' = pos, segment' = segment, matched' = matched, SegmentInv
  PROVE  SegmentInv' /\ ItsCriteria' = ItsCriteria
<1>1. Commands' = Commands
  BY DEF Commands
<1>2. QED BY <1>1 DEF SegmentInv, ItsCriteria

LEMMA SegmentInit ==
  ASSUME Init
  PROVE  SegmentInv
<1>1. matched = ";" /\ pos = 1 /\ segment = 1
  BY Zenon DEF Init
<1>2. \A k \in Commands \cap segment..pos - 2 : list[k].sep # ";"
  <2>1. 1..1 - 2 = {}
    OBVIOUS
  <2>2. segment..pos - 2 = {}
    BY <1>1, <2>1
  <2>3. QED BY <2>2
<1>3. 1 \in 1..1 /\ ~(1 > 1)
  OBVIOUS
<1>4. QED BY <1>1, <1>2, <1>3, Zenon DEF SegmentInv

\* A new segment begins behind a semicolon, and only there.
LEMMA SegmentStep ==
  ASSUME TypeInv, SegmentInv, Split, list' = list
  PROVE  /\ SegmentInv' /\ (pos > 1)'
         /\ matched = ";" => ItsCriteria' = list[pos].crit
         /\ matched # ";" => ItsCriteria' = ItsCriteria /\ pos > 1
<1>0. PICK q : q = pos'
  OBVIOUS
<1>1. /\ pos \in Nat /\ pos >= 1 /\ Len(list) \in Nat
      /\ q \in Nat /\ q - 1 \in Nat /\ pos <= q - 1 /\ q - 1 <= Len(list)
  <2>1. pos \in Nat \ {0} /\ Len(list) \in Nat
    BY Positions
  <2>2. q \in Nat /\ q - 1 \in pos..Len(list) /\ q - 1 \in Nat
    BY <1>0, SplitFacts
  <2>3. QED BY <2>1, <2>2
<1>2. /\ \A k \in pos..q - 2 : list[k].cmd \in Empty
      /\ matched' = list[q - 1].sep
      /\ segment' = IF matched = ";" THEN pos ELSE segment
  BY <1>0, SplitFacts DEF Split
<1>3. \A k \in pos..q - 2 : k \notin Commands
  BY <1>2, CommandsAre
<1>4. /\ q # 1 /\ q > 1 /\ pos \in 1..q - 1 /\ pos \in 1..q
      /\ \A k \in 1..pos : k \in 1..q - 1 /\ k \in 1..q
  BY <1>1
<1>5. CASE matched = ";"
  <2>1. segment' = pos
    BY <1>2, <1>5
  <2>2. pos # 1 => list[pos - 1].sep = ";"
    BY <1>5 DEF SegmentInv
  <2>3. (\A k \in Commands \cap segment..pos - 2 : list[k].sep # ";")'
    <3>1. \A k \in Commands \cap pos..q - 2 : list[k].sep # ";"
      BY <1>3
    <3>2. Commands' = Commands
      BY DEF Commands
    <3>3. QED BY <1>0, <2>1, <3>1, <3>2
  <2>4. SegmentInv'
    BY <1>0, <1>2, <1>4, <2>1, <2>2, <2>3 DEF SegmentInv
  <2>5. QED BY <1>0, <1>4, <1>5, <2>1, <2>4 DEF ItsCriteria
<1>6. CASE matched # ";"
  <2>1. segment' = segment
    BY <1>2, <1>6
  <2>2. pos # 1 /\ list[pos - 1].sep # ";"
    BY <1>6 DEF SegmentInv
  <2>3. (\A k \in Commands \cap segment..pos - 2 : list[k].sep # ";")'
    <3>1. \A k \in Commands \cap segment..pos - 2 : list[k].sep # ";"
      BY DEF SegmentInv
    <3>2. segment \in Nat
      BY DEF TypeInv
    <3>3. \A k \in segment..q - 2 : k \in segment..pos - 2 \/ k = pos - 1 \/ k \in pos..q - 2
      BY <1>1, <3>2
    <3>4. \A k \in Commands \cap segment..q - 2 : list[k].sep # ";"
      BY <1>3, <2>2, <3>1, <3>3
    <3>5. Commands' = Commands
      BY DEF Commands
    <3>6. QED BY <1>0, <2>1, <3>4, <3>5
  <2>4. segment \in 1..pos /\ (segment # 1 => list[segment - 1].sep = ";")
    BY DEF SegmentInv
  <2>5. SegmentInv'
    BY <1>0, <1>2, <1>4, <2>1, <2>3, <2>4 DEF SegmentInv
  <2>6. pos > 1
    <3>1. pos # 1
      BY <2>2
    <3>2. QED BY <1>1, <3>1
  <2>7. QED BY <1>0, <1>4, <1>6, <2>1, <2>5, <2>6 DEF ItsCriteria
<1>7. QED BY <1>5, <1>6

\* The criteria of an item are a sequence.
LEMMA CriteriaAre ==
  ASSUME TypeInv, NEW k \in Nat, k >= 1, k < pos
  PROVE  \E V : list[k].crit \in Seq(V)
<1>1. pos \in Nat /\ pos <= Len(list) + 1 /\ Len(list) \in Nat /\ list \in Lists
  BY Positions
<1>2. k \in 1..Len(list)
  BY <1>1
<1>3. QED BY <1>1, <1>2, ListFacts

\* The next container is one of those that the criteria select.
LEMMA NextSelected ==
  ASSUME TypeInv, ScopeInv, phase = "each", Understood(ItsCriteria, began)
  PROVE  todo[1].id \in Selected(ItsCriteria, began)
<1>1. pos > 1 /\ containers = GetContainers(ItsCriteria, began) /\ began \in World
  BY DEF ScopeInv, TypeInv
<1>2. PICK V : ItsCriteria \in Seq(V)
  <2>1. segment \in 1..pos - 1 /\ pos \in Nat
    BY <1>1, Positions DEF ScopeInv, SegmentInv
  <2>2. segment \in Nat /\ segment >= 1 /\ segment < pos
    BY <2>1
  <2>3. QED BY <2>2, CriteriaAre DEF ItsCriteria
<1>3. Ids(containers) = Selected(ItsCriteria, began)
  BY <1>1, <1>2, SelectedFound
<1>4. todo \in Seq(ContainerRec) /\ todo # <<>>
  BY DEF TypeInv
<1>5. todo[1] \in ContainerRec /\ In(todo[1], todo)
  BY <1>4, InTail
<1>6. In(todo[1], containers)
  BY <1>5 DEF ScopeInv
<1>7. QED BY <1>3, <1>5, <1>6 DEF Ids

\* Every call is governed by the criteria of its segment.
LEMMA CallGoverned ==
  ASSUME TypeInv, ScopeInv, CallOnFocus \/ CallOnContainer, NEW n, n = Len(calls')
  PROVE  GovernedBy(n)'
<1>1. phase \in {"focus", "each"} /\ pos > 1 /\ Called /\ list' = list
  BY CallStep DEF TypeInv
<1> DEFINE c == NewCall
<1>2. /\ c.item = pos - 1 /\ c.segment = segment /\ c.began = began
      /\ c.view = ctx'.con.id /\ c.overridden = ctx'.overridden /\ c.active = ActiveView(world)
  BY NewIsRecent DEF Recent
<1>3. /\ n = Len(calls) + 1 /\ Len(calls) \in Nat /\ calls'[n] = c
      /\ \A i \in 1..Len(calls) : calls'[i] = calls[i]
  BY <1>1, CallsMore
<1>4. usingCriteria <=> ItsCriteria # <<>>
  BY <1>1 DEF ScopeInv
<1>5. /\ segment \in 1..pos - 1 /\ (segment # 1 => list[segment - 1].sep = ";")
      /\ \A k \in Commands \cap segment..(pos - 1) - 1 : list[k].sep # ";"
  <2>1. (pos - 1) - 1 = pos - 2
    BY Positions
  <2>2. QED BY <1>1, <2>1 DEF ScopeInv, SegmentInv
<1>6. Commands' = Commands
  BY <1>1 DEF Commands
<1>7. ctx.con.id = IF n = 1 THEN NoView ELSE calls'[n - 1].view
  <2>1. calls = <<>> <=> n = 1
    <3>1. calls = <<>> <=> Len(calls) = 0
      BY DEF TypeInv
    <3>2. QED BY <1>3, <3>1
  <2>2. n # 1 => calls'[n - 1] = calls[Len(calls)]
    BY <1>3
  <2>3. QED BY <2>1, <2>2 DEF ScopeInv
<1> HIDE DEF c
<1>8. IF ItsCriteria # <<>>
        THEN Understood(ItsCriteria, began) => c.overridden /\ c.view \in Selected(ItsCriteria, began)
      ELSE IF c.active # NoView
        THEN ~c.overridden /\ c.view = Describe(c.active).id
      ELSE c.view = IF n = 1 THEN NoView ELSE calls'[n - 1].view
  <2>1. CASE CallOnFocus
    <3>1. ItsCriteria = <<>>
      BY <1>4, <2>1 DEF CallOnFocus, ScopeInv
    <3>2. ctx' = IF ActiveView(world) = NoView THEN ctx
                 ELSE [con |-> Describe(ActiveView(world)), overridden |-> FALSE]
      BY <2>1 DEF CallOnFocus
    <3>3. CASE c.active # NoView
      BY <1>2, <3>1, <3>2, <3>3
    <3>4. CASE c.active = NoView
      BY <1>2, <1>7, <3>1, <3>2, <3>4
    <3>5. QED BY <3>3, <3>4
  <2>2. CASE CallOnContainer
    <3>1. phase = "each" /\ ctx' = [con |-> todo[1], overridden |-> TRUE]
      BY <2>2 DEF CallOnContainer
    <3>2. ItsCriteria # <<>>
      BY <1>4, <3>1 DEF ScopeInv
    <3>3. Understood(ItsCriteria, began) => c.overridden /\ c.view \in Selected(ItsCriteria, began)
      BY <1>2, <3>1, NextSelected
    <3>4. QED BY <3>2, <3>3
  <2>3. QED BY <2>1, <2>2
<1>9. calls'[n].segment = segment /\ calls'[n].item = pos - 1 /\ calls'[n] = c /\ c.began = began
  BY <1>2, <1>3
<1>10. QED BY <1>1, <1>5, <1>6, <1>8, <1>9 DEF GovernedBy, ItsCriteria

LEMMA ScopeInit ==
  ASSUME Init
  PROVE  ScopeInv
<1>1. pos = 1 /\ usingCriteria = FALSE /\ phase = "next" /\ calls = <<>>
      /\ ctx = [con |-> NoContainer, overridden |-> FALSE]
  BY Zenon DEF Init
<1>2. DOMAIN calls = {}
  <2>1. DOMAIN <<>> = {}
    OBVIOUS
  <2>2. QED BY <1>1, <2>1, Zenon
<1>3. ~(pos > 1)
  <2>1. ~(1 > 1)
    OBVIOUS
  <2>2. QED BY <1>1, <2>1, Zenon
<1>4. ctx.con.id = NoView
  BY <1>1 DEF NoContainer, Container
<1>5. QED BY <1>1, <1>2, <1>3, <1>4, SegmentInit DEF ScopeInv

\* The next command is looked at.
LEMMA ScopeTake ==
  ASSUME TypeInv, ScopeInv, IgnoreBlank \/ TakeCommand
  PROVE  ScopeInv'
<1>1. Split /\ list' = list /\ calls' = calls /\ ctx' = ctx /\ phase = "next"
  BY SplitStep
<1>2. /\ usingCriteria' = IF matched = ";" THEN AtCriteria ELSE usingCriteria
      /\ containers' = IF AtCriteria THEN GetContainers(list[pos].crit, world) ELSE containers
      /\ began' = IF matched = ";" THEN world ELSE began
  BY <1>1 DEF Split
<1>3. /\ SegmentInv' /\ (pos > 1)'
      /\ matched = ";" => ItsCriteria' = list[pos].crit
      /\ matched # ";" => ItsCriteria' = ItsCriteria /\ pos > 1
  BY <1>1, SegmentStep DEF ScopeInv
<1>4. AtCriteria <=> matched = ";" /\ list[pos].crit # <<>>
  <2>1. pos <= Len(list)
    <3>1. PICK q : q = pos'
      OBVIOUS
    <3>2. pos \in Nat \ {0} /\ Len(list) \in Nat /\ q \in Nat /\ q - 1 \in pos..Len(list)
      BY <1>1, <3>1, SplitFacts, Positions
    <3>3. QED BY <3>2
  <2>2. QED BY <2>1 DEF AtCriteria
<1>5. /\ usingCriteria => containers = GetContainers(ItsCriteria, began)
      /\ pos > 1 => (usingCriteria <=> ItsCriteria # <<>>)
  BY DEF ScopeInv
<1>6. usingCriteria' <=> ItsCriteria' # <<>>
  BY <1>2, <1>3, <1>4, <1>5
<1>7. usingCriteria' => containers' = GetContainers(ItsCriteria', began')
  BY <1>2, <1>3, <1>4, <1>5
<1>8. /\ phase' \in {"next", "focus", "each", "done"}
      /\ phase' = "focus" => ~usingCriteria'
      /\ phase' = "each" => usingCriteria' /\ todo' = containers'
  <2>1. CASE IgnoreBlank
    BY <2>1, SplitStep
  <2>2. CASE TakeCommand
    BY <2>2, TakeFacts DEF TakeCommand
  <2>3. QED BY <2>1, <2>2
<1>9. (phase \in {"each", "sub"} => \A con : In(con, todo) => In(con, containers))'
  BY <1>8
<1>10. (\A i \in DOMAIN calls : GovernedBy(i))'
  <2>1. \A i \in DOMAIN calls : GovernedBy(i)
    BY DEF ScopeInv
  <2>2. QED BY <1>1, <2>1, StillGoverned
<1>11. (ctx.con.id = IF calls = <<>> THEN NoView ELSE calls[Len(calls)].view)'
  BY <1>1 DEF ScopeInv
<1>12. QED BY <1>3, <1>6, <1>7, <1>8, <1>9, <1>10, <1>11 DEF ScopeInv

\* A handler is called, for the active view or for the next container.
LEMMA ScopeCall ==
  ASSUME TypeInv, ScopeInv, CallOnFocus \/ CallOnContainer
  PROVE  ScopeInv'
<1>1. /\ list' = list /\ pos' = pos /\ matched' = matched /\ segment' = segment
      /\ usingCriteria' = usingCriteria /\ containers' = containers /\ began' = began
      /\ Called /\ phase \in {"focus", "each"}
      /\ phase' \in {"next", "each", "done", "sub"} /\ (phase' = "each" => todo' # <<>>)
  BY CallStep
<1>2. SegmentInv' /\ ItsCriteria' = ItsCriteria
  BY <1>1, SameSegment DEF ScopeInv
<1>3. /\ usingCriteria \/ todo' = <<>>
      /\ \A con : In(con, todo') => In(con, containers)
  <2>1. CASE CallOnFocus
    BY <2>1, InEmpty DEF CallOnFocus
  <2>2. CASE CallOnContainer
    <3>1. phase = "each" /\ todo' = Tail(todo) /\ usingCriteria
      BY <2>2 DEF CallOnContainer, ScopeInv
    <3>2. todo \in Seq(ContainerRec) /\ todo # <<>>
      BY <3>1 DEF TypeInv
    <3>3. \A con : In(con, todo) => In(con, containers)
      BY <3>1 DEF ScopeInv
    <3>4. \A x : In(x, Tail(todo)) => In(x, todo)
      BY <3>2, InTail
    <3>5. QED BY <3>1, <3>3, <3>4
  <2>3. QED BY <2>1, <2>2
<1>4. /\ Len(calls') \in DOMAIN calls' /\ calls'[Len(calls')] = NewCall
      /\ \A i \in DOMAIN calls : calls'[i] = calls[i]
      /\ \A i \in DOMAIN calls' : i \in DOMAIN calls \/ i = Len(calls')
  BY <1>1, CallsMore
<1>5. (\A i \in DOMAIN calls : GovernedBy(i))'
  <2>1. \A i : i = Len(calls') => GovernedBy(i)'
    BY CallGoverned
  <2>2. \A i \in DOMAIN calls : GovernedBy(i)'
    BY <1>1, <1>4, StillGoverned DEF ScopeInv
  <2>3. \A i \in DOMAIN calls' : GovernedBy(i)'
    BY <1>4, <2>1, <2>2
  <2>4. QED BY <2>3
<1>6. (ctx.con.id = IF calls = <<>> THEN NoView ELSE calls[Len(calls)].view)'
  <2>1. calls' # <<>>
    <3>1. DOMAIN <<>> = {}
      OBVIOUS
    <3>2. QED BY <1>4, <3>1, Zenon
  <2>2. QED BY <1>4, <2>1, NewIsRecent
<1>7. (/\ usingCriteria => containers = GetContainers(ItsCriteria, began)
       /\ pos > 1 => (usingCriteria <=> ItsCriteria # <<>>))'
  BY <1>1, <1>2 DEF ScopeInv
<1>8. phase = "each" => usingCriteria
  BY DEF ScopeInv
<1>9. QED BY <1>1, <1>2, <1>3, <1>5, <1>6, <1>7 DEF ScopeInv

LEMMA ScopeStep ==
  ASSUME TypeInv, ScopeInv, [Next]_vars
  PROVE  ScopeInv'
<1>1. CASE IgnoreBlank \/ TakeCommand
  BY <1>1, ScopeTake
<1>2. CASE CallOnFocus \/ CallOnContainer
  BY <1>2, ScopeCall
<1>3. CASE UNCHANGED vars \/ Finish \/ RejectCriteria \/ SubCommand \/ SubCommandsDone
  <2>1. /\ list' = list /\ pos' = pos /\ matched' = matched /\ usingCriteria' = usingCriteria
        /\ segment' = segment /\ containers' = containers /\ began' = began /\ calls' = calls
        /\ todo' = todo /\ ctx' = ctx
        /\ \/ phase' = phase
           \/ phase' = "done"
           \/ phase = "sub" /\ phase' = "next"
           \/ phase = "sub" /\ phase' = "each" /\ todo # <<>>
    BY <1>3, OtherStep
  <2>2. SegmentInv' /\ ItsCriteria' = ItsCriteria
    BY <2>1, SameSegment DEF ScopeInv
  <2>3. (\A i \in DOMAIN calls : GovernedBy(i))'
    <3>1. \A i \in DOMAIN calls : GovernedBy(i)
      BY DEF ScopeInv
    <3>2. QED BY <2>1, <3>1, StillGoverned
  <2>4. (/\ usingCriteria => containers = GetContainers(ItsCriteria, began)
         /\ pos > 1 => (usingCriteria <=> ItsCriteria # <<>>)
         /\ ctx.con.id = IF calls = <<>> THEN NoView ELSE calls[Len(calls)].view)'
    BY <2>1, <2>2 DEF ScopeInv
  <2>5. QED BY <2>1, <2>2, <2>3, <2>4 DEF ScopeInv
<1>4. QED BY <1>1, <1>2, <1>3 DEF Next

\* However criteria, separators, empty and failing commands follow each
\* other: a command is applied to views that the criteria of its segment
\* select in the state in which they were read, without criteria to the
\* active view of the moment, or to the view of the call before.
THEOREM GovernedHolds == Spec => []Governed
<1>1. Init => TypeInv /\ ScopeInv
  BY TypeInit, ScopeInit
<1>2. TypeInv /\ ScopeInv /\ [Next]_vars => TypeInv' /\ ScopeInv'
  BY TypeStep, ScopeStep
<1>3. ScopeInv => Governed
  BY ScopeMeans
<1>4. QED BY <1>1, <1>2, <1>3, PTL DEF Spec

-----------------------------------------------------------------------------
(* No selected view is missed: what the command has been applied to and    *)
(* what is left to do are together all the containers.                     *)

ViewsOf(k) == {c.view : c \in CallsOf(k)}

\* All that the criteria of a call find has been reached.
AllReached(c) == ViewsOf(c.item) = Ids(GetContainers(list[c.segment].crit, c.began))

ReachInv ==
  /\ phase \in {"each", "sub"} /\ usingCriteria =>
       ViewsOf(pos - 1) \cup Ids(todo) = Ids(containers)
  /\ phase = "next" /\ results # <<>> /\ results[Len(results)] = "ok" =>
       /\ calls # <<>>
       /\ list[calls[Len(calls)].segment].crit # <<>> => AllReached(calls[Len(calls)])

LEMMA ReachMeans ==
  ASSUME TypeInv, CallsInv, ScopeInv, ReachInv
  PROVE  Reached
<1> DEFINE c == calls[Len(calls)]
           crit == list[c.segment].crit
<1> SUFFICES ASSUME phase = "next", results # <<>>, results[Len(results)] = "ok",
                    crit # <<>>, Understood(crit, c.began)
             PROVE  ViewsOf(c.item) = Selected(crit, c.began)
  BY DEF Reached, ViewsOf
<1>1. calls # <<>> /\ AllReached(c)
  BY DEF ReachInv
<1>2. Len(calls) \in DOMAIN calls
  BY <1>1, CallsType
<1>3. c.segment \in 1..c.item /\ c.item < pos /\ c.item \in Nat
  BY <1>2, CallsType DEF ScopeInv, CallsInv, GovernedBy
<1>4. PICK V : crit \in Seq(V)
  <2>1. c.segment \in Nat /\ c.segment >= 1 /\ c.segment < pos
    <3>1. pos \in Nat
      BY Positions
    <3>2. QED BY <1>3, <3>1
  <2> HIDE DEF c
  <2>2. QED BY <2>1, CriteriaAre
<1>5. c.began \in World
  <2>1. calls \in Seq(CallRec) /\ c \in CallRec
    BY <1>2 DEF TypeInv
  <2> HIDE DEF c
  <2>2. QED BY <2>1 DEF CallRec
<1> HIDE DEF c
<1>6. Ids(GetContainers(crit, c.began)) = Selected(crit, c.began)
  BY <1>4, <1>5, SelectedFound
<1>7. QED BY <1>1, <1>6 DEF AllReached

LEMMA ViewsSame ==
  ASSUME calls' = calls
  PROVE  \A k : ViewsOf(k)' = ViewsOf(k)
BY DEF ViewsOf, CallsOf

LEMMA ViewsMore ==
  ASSUME TypeInv, Called, pos' = pos
  PROVE  ViewsOf(pos - 1)' = ViewsOf(pos - 1) \cup {ctx'.con.id}
<1>0. PICK k : k = pos - 1
  OBVIOUS
<1>1. CallsOf(k)' = CallsOf(k) \cup {NewCall}
  BY <1>0, CallsOfMore
<1>2. NewCall.view = ctx'.con.id
  BY NewIsRecent
<1>3. {c.view : c \in CallsOf(k)'} = {c.view : c \in CallsOf(k)} \cup {ctx'.con.id}
  BY <1>1, <1>2
<1>4. ViewsOf(k)' = {c.view : c \in CallsOf(k)'}
  BY DEF ViewsOf
<1>5. ViewsOf(k)' = ViewsOf(k) \cup {ctx'.con.id}
  BY <1>3, <1>4 DEF ViewsOf
<1>6. ViewsOf(pos - 1)' = ViewsOf(k)'
  BY <1>0
<1>7. QED BY <1>0, <1>5, <1>6

LEMMA IdsFacts ==
  /\ Ids(<<>>) = {}
  /\ \A s \in Seq(ContainerRec) : s # <<>> => Ids(s) = {s[1].id} \cup Ids(Tail(s))
<1>1. Ids(<<>>) = {}
  BY InEmpty DEF Ids
<1>2. ASSUME NEW s \in Seq(ContainerRec), s # <<>> PROVE Ids(s) = {s[1].id} \cup Ids(Tail(s))
  <2>1. s[1] \in ContainerRec /\ \A x : In(x, s) <=> x = s[1] \/ In(x, Tail(s))
    BY <1>2, InTail
  <2>2. {x \in ContainerRec : In(x, s)} = {s[1]} \cup {x \in ContainerRec : In(x, Tail(s))}
    BY <2>1
  <2>3. QED BY <2>2 DEF Ids
<1>3. QED BY <1>1, <1>2

\* The command at hand has been applied to all that its criteria have found.
LEMMA AtHandReached ==
  ASSUME TypeInv, ScopeInv, pos > 1, calls # <<>>, Recent(calls[Len(calls)]),
         usingCriteria => ViewsOf(pos - 1) = Ids(containers)
  PROVE  list[calls[Len(calls)].segment].crit # <<>> => AllReached(calls[Len(calls)])
<1> DEFINE c == calls[Len(calls)]
<1>1. c.item = pos - 1 /\ c.segment = segment /\ c.began = began
  BY DEF Recent
<1>2. ItsCriteria # <<>> => ViewsOf(pos - 1) = Ids(GetContainers(ItsCriteria, began))
  BY DEF ScopeInv
<1> HIDE DEF c
<1>3. QED BY <1>1, <1>2 DEF AllReached, ItsCriteria, c

\* The same of the next state.
LEMMA ReachedNext ==
  (/\ TypeInv /\ ScopeInv /\ pos > 1 /\ calls # <<>> /\ Recent(calls[Len(calls)])
   /\ usingCriteria => ViewsOf(pos - 1) = Ids(containers))'
  => (list[calls[Len(calls)].segment].crit # <<>> => AllReached(calls[Len(calls)]))'
<1>1. (/\ TypeInv /\ ScopeInv /\ pos > 1 /\ calls # <<>> /\ Recent(calls[Len(calls)])
       /\ usingCriteria => ViewsOf(pos - 1) = Ids(containers))
      => (list[calls[Len(calls)].segment].crit # <<>> => AllReached(calls[Len(calls)]))
  BY AtHandReached
<1>2. QED BY <1>1, PTL

LEMMA ReachTake ==
  ASSUME TypeInv, CallsInv, ReachInv, IgnoreBlank \/ TakeCommand
  PROVE  ReachInv'
<1>0. PICK q : q = pos'
  OBVIOUS
<1>1. /\ list' = list /\ calls' = calls /\ phase = "next" /\ pos \in Nat /\ q \in Nat /\ pos < q
      /\ phase' \in {"next", "focus", "each", "done"}
  BY <1>0, SplitStep
<1>2. ViewsOf(pos - 1)' = {}
  <2>1. \A i \in DOMAIN calls : calls[i].item \in Nat /\ calls[i].item < pos
    BY CallsType DEF CallsInv
  <2>2. \A i \in DOMAIN calls : calls[i].item # q - 1
    BY <1>1, <2>1
  <2>3. CallsOf(q - 1) = {}
    BY <2>2 DEF CallsOf
  <2>4. CallsOf(pos - 1)' = CallsOf(q - 1)
    BY <1>0, <1>1 DEF CallsOf
  <2>5. QED BY <2>3, <2>4 DEF ViewsOf
<1>3. phase' = "each" => Ids(todo)' = Ids(containers)'
  <2> SUFFICES ASSUME phase' = "each" PROVE Ids(todo)' = Ids(containers)'
    OBVIOUS
  <2>1. todo' = containers'
    BY <1>1 DEF TakeCommand, IgnoreBlank
  <2>2. QED BY <2>1 DEF Ids, In
<1>4. phase' = "next" /\ results' # <<>> /\ results'[Len(results')] = "ok" => results' = results
  <2>1. CASE IgnoreBlank
    BY <2>1 DEF IgnoreBlank
  <2>2. CASE TakeCommand
    BY <2>2, TakeFacts, ResultsType, ResultNames
  <2>3. QED BY <2>1, <2>2
<1>5. (phase = "next" /\ results # <<>> /\ results[Len(results)] = "ok" =>
         /\ calls # <<>>
         /\ list[calls[Len(calls)].segment].crit # <<>> => AllReached(calls[Len(calls)]))'
  <2>1. \A c : AllReached(c)' <=> AllReached(c)
    BY <1>1, ViewsSame DEF AllReached, Ids, In
  <2>2. QED BY <1>1, <1>4, <2>1 DEF ReachInv
<1>6. QED BY <1>1, <1>2, <1>3, <1>5 DEF ReachInv

LEMMA ReachCall ==
  ASSUME TypeInv, CallsInv, ScopeInv, ReachInv, CallOnFocus \/ CallOnContainer,
         TypeInv', ScopeInv'
  PROVE  ReachInv'
<1>1. /\ pos' = pos /\ usingCriteria' = usingCriteria /\ containers' = containers
      /\ segment' = segment /\ began' = began
      /\ Called /\ phase \in {"focus", "each"}
      /\ phase' \in {"next", "each", "done", "sub"}
      /\ phase' = "next" => todo' = <<>>
  BY CallStep
<1>2. usingCriteria => ViewsOf(pos - 1)' \cup Ids(todo)' = Ids(containers)
  <2>1. CASE CallOnFocus
    BY <2>1 DEF CallOnFocus, ScopeInv
  <2>2. CASE CallOnContainer
    <3>1. phase = "each" /\ todo' = Tail(todo) /\ ctx'.con = todo[1]
      BY <2>2 DEF CallOnContainer
    <3>2. todo \in Seq(ContainerRec) /\ todo # <<>>
      BY <3>1 DEF TypeInv
    <3>3. Ids(todo) = {todo[1].id} \cup Ids(todo')
      BY <3>1, <3>2, IdsFacts
    <3>4. ViewsOf(pos - 1)' = ViewsOf(pos - 1) \cup {todo[1].id}
      BY <1>1, ViewsMore, <3>1
    <3>5. usingCriteria => ViewsOf(pos - 1) \cup Ids(todo) = Ids(containers)
      BY <3>1 DEF ReachInv
    <3>6. Ids(todo)' = Ids(todo')
      BY DEF Ids, In
    <3>7. QED BY <3>3, <3>4, <3>5, <3>6
  <2>3. QED BY <2>1, <2>2
<1>3. todo' = <<>> => Ids(todo)' = {}
  BY IdsFacts DEF Ids, In
<1>4. Ids(containers)' = Ids(containers)
  BY <1>1 DEF Ids, In
<1>5. calls' # <<>> /\ Recent(calls[Len(calls)])'
  <2>1. calls'[Len(calls')] = NewCall /\ Len(calls') \in DOMAIN calls'
    BY <1>1, CallsMore
  <2>2. calls' # <<>>
    <3>1. DOMAIN <<>> = {}
      OBVIOUS
    <3>2. QED BY <2>1, <3>1, Zenon
  <2>3. QED BY <1>1, <2>1, <2>2, NewIsRecent DEF Recent
<1>6. (pos > 1)'
  BY <1>1 DEF TypeInv
<1>7. phase' = "next" =>
        (list[calls[Len(calls)].segment].crit # <<>> => AllReached(calls[Len(calls)]))'
  <2> SUFFICES ASSUME phase' = "next"
               PROVE  (list[calls[Len(calls)].segment].crit # <<>> => AllReached(calls[Len(calls)]))'
    OBVIOUS
  <2>1. (usingCriteria => ViewsOf(pos - 1) = Ids(containers))'
    <3>1. usingCriteria => ViewsOf(pos - 1)' = Ids(containers)
      BY <1>1, <1>2, <1>3
    <3>2. QED BY <1>1, <1>4, <3>1
  <2>2. QED BY <1>5, <1>6, <2>1, ReachedNext
<1>8. QED BY <1>1, <1>2, <1>4, <1>5, <1>7 DEF ReachInv

LEMMA ReachStep ==
  ASSUME TypeInv, CallsInv, ScopeInv, ReachInv, [Next]_vars, TypeInv', ScopeInv'
  PROVE  ReachInv'
<1>1. CASE IgnoreBlank \/ TakeCommand
  BY <1>1, ReachTake
<1>2. CASE CallOnFocus \/ CallOnContainer
  BY <1>2, ReachCall
<1>3. CASE UNCHANGED vars \/ Finish \/ RejectCriteria \/ SubCommand \/ SubCommandsDone
  <2>1. /\ pos' = pos /\ usingCriteria' = usingCriteria /\ list' = list
        /\ containers' = containers /\ calls' = calls /\ todo' = todo
        /\ \/ phase' = phase /\ results' = results
           \/ phase' = "done"
           \/ phase = "sub" /\ phase' = "next" /\ todo = <<>>
           \/ phase = "sub" /\ phase' = "each"
    BY <1>3, OtherStep
  <2>2. /\ ViewsOf(pos - 1)' = ViewsOf(pos - 1) /\ Ids(todo)' = Ids(todo)
        /\ Ids(containers)' = Ids(containers)
        /\ \A c : AllReached(c)' <=> AllReached(c)
    BY <2>1, ViewsSame DEF AllReached, Ids, In
  <2>3. CASE phase = "sub" /\ phase' = "next" /\ todo = <<>>
    <3>1. pos > 1 /\ calls # <<>> /\ Recent(calls[Len(calls)])
      BY <2>3 DEF TypeInv, CallsInv
    <3>2. usingCriteria => ViewsOf(pos - 1) = Ids(containers)
      BY <2>3, IdsFacts DEF ReachInv
    <3>3. list[calls[Len(calls)].segment].crit # <<>> => AllReached(calls[Len(calls)])
      BY <3>1, <3>2, AtHandReached
    <3>4. QED BY <2>1, <2>2, <2>3, <3>1, <3>3 DEF ReachInv
  <2>4. CASE ~(phase = "sub" /\ phase' = "next")
    BY <2>1, <2>2, <2>4 DEF ReachInv
  <2>5. QED BY <2>1, <2>3, <2>4
<1>4. QED BY <1>1, <1>2, <1>3 DEF Next

LEMMA ReachInit ==
  ASSUME Init
  PROVE  ReachInv
<1>1. results = <<>> /\ phase = "next"
  BY Zenon DEF Init
<1>2. QED BY <1>1 DEF ReachInv

\* And to all of them: when a command with criteria has succeeded, it has
\* been applied to every selected view, also in the scratchpad and on other
\* workspaces.
THEOREM ReachedHolds == Spec => []Reached
<1>1. Init => TypeInv /\ CallsInv /\ ScopeInv /\ ReachInv
  BY TypeInit, CallsInit, ScopeInit, ReachInit
<1>2. TypeInv /\ CallsInv /\ ScopeInv /\ ReachInv /\ [Next]_vars =>
        TypeInv' /\ CallsInv' /\ ScopeInv' /\ ReachInv'
  <2>1. TypeInv /\ CallsInv /\ ScopeInv /\ [Next]_vars => TypeInv' /\ CallsInv' /\ ScopeInv'
    BY TypeStep, CallsStep, ScopeStep
  <2>2. QED BY <2>1, ReachStep
<1>3. TypeInv /\ CallsInv /\ ScopeInv /\ ReachInv => Reached
  BY ReachMeans
<1>4. QED BY <1>1, <1>2, <1>3, PTL DEF Spec

-----------------------------------------------------------------------------
(* The words of "output".                                                  *)

LEMMA TwoNumbersAre ==
  ASSUME NEW words \in Seq(STRING), NEW both, DOMAIN Number \cap DOMAIN both = {}
  PROVE  /\ words # <<>> /\ words[1] \in DOMAIN both =>
              TwoNumbers(words, both) = <<1, both[words[1]]>>
         /\ (/\ words[1] \notin DOMAIN both /\ Len(words) > 1
             /\ words[1] \in DOMAIN Number /\ words[2] \in DOMAIN Number)
            => TwoNumbers(words, both) = <<2, <<Number[words[1]], Number[words[2]]>>>>
<1> DEFINE D == DOMAIN both
           one == <<1, both[words[1]]>>
           two == <<2, <<Number[words[1]], Number[words[2]]>>>>
<1>1. TwoNumbers(words, both) =
        CASE words # <<>> /\ words[1] \in D -> one
          [] Len(words) > 1 /\ words[1] \in DOMAIN Number /\ words[2] \in DOMAIN Number -> two
          [] OTHER -> <<>>
  BY DEF TwoNumbers
<1> HIDE DEF D, one, two
<1>2. words # <<>> /\ words[1] \in D => TwoNumbers(words, both) = one
  <2>1. words[1] \in D => words[1] \notin DOMAIN Number
    BY DEF D
  <2>2. QED BY <1>1, <2>1
<1>3. (/\ words[1] \notin D /\ Len(words) > 1
       /\ words[1] \in DOMAIN Number /\ words[2] \in DOMAIN Number)
      => TwoNumbers(words, both) = two
  BY <1>1
<1>4. QED BY <1>2, <1>3 DEF D, one, two

LEMMA TailIs ==
  ASSUME NEW s \in Seq(STRING), Len(s) >= 2
  PROVE  /\ Tail(s) \in Seq(STRING) /\ Tail(s) # <<>> /\ Tail(s)[1] = s[2]
         /\ Len(s) >= 3 => Len(Tail(s)) > 1 /\ Tail(s)[2] = s[3]
<1>1. s # <<>> /\ Len(s) \in Nat
  OBVIOUS
<1>2. Tail(s) \in Seq(STRING) /\ Len(Tail(s)) = Len(s) - 1
  BY <1>1
<1>3. Len(Tail(s)) # 0 /\ Len(<<>>) = 0
  BY <1>1, <1>2
<1>4. Tail(s) # <<>>
  BY <1>3, Zenon
<1>5. QED BY <1>1, <1>2, <1>4

\* A sub-command uses the words that belong to it, and no other.
LEMMA SubTakes ==
  ASSUME NEW rest \in Seq(STRING), NEW a \in Seq(STRING), Len(a) <= Len(rest),
         \A k \in 1..Len(a) : a[k] = rest[k],
         Len(a) < Len(rest) => rest[Len(a) + 1] \in SubNames,
         NEW sub \in SubNames, Proper(sub, a), NEW name, Known(name), NEW g
  PROVE  SubHandler(sub, rest, name, g).ok /\ SubHandler(sub, rest, name, g).used = Len(a)
<1> DEFINE r == SubHandler(sub, rest, name, g)
<1>0. /\ Len(a) \in Nat /\ Len(rest) \in Nat /\ (Len(a) >= 1 => rest # <<>>)
      /\ \A h, n : Accept(n, h).ok /\ Accept(n, h).used = n
  BY DEF Accept
<1>1. CASE sub = "scale"
  <2>1. Len(a) = 1 /\ a[1] \in DOMAIN Number
    BY <1>1 DEF Proper
  <2>2. rest # <<>> /\ rest[1] \in DOMAIN Number
    BY <1>0, <2>1
  <2>3. r = Accept(1, [g EXCEPT ![name].scale = Number[rest[1]]])
    BY <1>1, <2>2 DEF SubHandler, Scale
  <2>4. QED BY <1>0, <2>1, <2>3
<1>2. CASE sub = "position"
  <2> DEFINE p == TwoNumbers(rest, Point)
  <2>1. r = Position(rest, name, g)
    BY <1>2 DEF SubHandler
  <2>2. p # <<>> /\ p[1] = Len(a)
    <3>1. CASE Len(a) = 1 /\ a[1] \in DOMAIN Point
      <4>1. rest # <<>> /\ rest[1] \in DOMAIN Point
        BY <1>0, <3>1
      <4>2. p = <<1, Point[rest[1]]>>
        BY <4>1, TwoNumbersAre, WordsAssumption
      <4>3. QED BY <3>1, <4>2
    <3>2. CASE Len(a) = 2 /\ a[1] \in DOMAIN Number /\ a[2] \in DOMAIN Number
      <4>1. Len(rest) > 1 /\ rest[1] \in DOMAIN Number /\ rest[2] \in DOMAIN Number
        BY <1>0, <3>2
      <4>2. rest[1] \notin DOMAIN Point
        BY <4>1, WordsAssumption
      <4>3. p = <<2, <<Number[rest[1]], Number[rest[2]]>>>>
        BY <4>1, <4>2, TwoNumbersAre, WordsAssumption
      <4>4. QED BY <3>2, <4>3
    <3>3. QED BY <1>2, <3>1, <3>2 DEF Proper
  <2>3. Position(rest, name, g) = Accept(p[1], [g EXCEPT ![name].pos = p[2]])
    BY <2>2 DEF Position
  <2> HIDE DEF p
  <2>4. QED BY <1>0, <2>1, <2>2, <2>3
<1>3. CASE sub = "mode"
  <2> DEFINE custom == rest # <<>> /\ rest[1] = "--custom"
             p == TwoNumbers(IF custom THEN Tail(rest) ELSE rest, Extent)
             n == IF custom THEN 1 ELSE 0
  <2>1. r = Mode(rest, name, g)
    BY <1>3 DEF SubHandler
  <2>2. p # <<>> /\ p[1] + n = Len(a) /\ (custom \/ p[2] \in Modes)
    <3>1. CASE Len(a) = 1 /\ a[1] \in DOMAIN Extent /\ Extent[a[1]] \in Modes
      <4>1. rest # <<>> /\ rest[1] = a[1]
        BY <1>0, <3>1
      <4>2. ~custom
        BY <3>1, <4>1, WordsAssumption
      <4>3. p = <<1, Extent[rest[1]]>>
        BY <3>1, <4>1, <4>2, TwoNumbersAre, WordsAssumption
      <4>4. p # <<>> /\ p[1] = 1 /\ p[2] \in Modes /\ n = 0
        BY <3>1, <4>1, <4>2, <4>3
      <4>5. QED BY <3>1, <4>4
    <3>2. CASE Len(a) = 2 /\ a[1] = "--custom" /\ a[2] \in DOMAIN Extent
      <4>1. rest # <<>> /\ rest[1] = "--custom" /\ rest[2] \in DOMAIN Extent /\ Len(rest) >= 2
        BY <1>0, <3>2
      <4>2. Tail(rest) \in Seq(STRING) /\ Tail(rest) # <<>> /\ Tail(rest)[1] = rest[2]
        BY <4>1, TailIs
      <4>5. p = TwoNumbers(Tail(rest), Extent)
        BY <4>1
      <4>3. p = <<1, Extent[rest[2]]>>
        BY <4>1, <4>2, <4>5, TwoNumbersAre, WordsAssumption
      <4>4. p # <<>> /\ p[1] = 1 /\ custom /\ n = 1
        BY <4>1, <4>3
      <4>6. QED BY <3>2, <4>4
    <3>3. CASE Len(a) = 3 /\ a[1] = "--custom" /\ {a[2], a[3]} \subseteq DOMAIN Number
      <4>1. /\ rest # <<>> /\ rest[1] = "--custom" /\ Len(rest) >= 3
            /\ rest[2] \in DOMAIN Number /\ rest[3] \in DOMAIN Number
        BY <1>0, <3>3
      <4>2. /\ Tail(rest) \in Seq(STRING)
            /\ Tail(rest)[1] = rest[2] /\ Tail(rest)[2] = rest[3] /\ Len(Tail(rest)) > 1
        BY <4>1, TailIs
      <4>6. p = TwoNumbers(Tail(rest), Extent)
        BY <4>1
      <4>3. rest[2] \notin DOMAIN Extent
        BY <4>1, WordsAssumption
      <4>4. p = <<2, <<Number[rest[2]], Number[rest[3]]>>>>
        BY <4>1, <4>2, <4>3, <4>6, TwoNumbersAre, WordsAssumption
      <4>5. p # <<>> /\ p[1] = 2 /\ custom /\ n = 1
        BY <4>1, <4>4
      <4>7. QED BY <3>3, <4>5
    <3>4. QED BY <1>3, <3>1, <3>2, <3>3 DEF Proper
  <2>3. Mode(rest, name, g) = Accept(p[1] + n, [g EXCEPT ![name].mode = p[2]])
    BY <2>2 DEF Mode
  <2> HIDE DEF p, n, custom
  <2>4. QED BY <1>0, <2>1, <2>2, <2>3
<1>4. CASE sub = "transform"
  <2> DEFINE relative == Len(rest) > 1 /\ rest[2] \in {"clockwise", "anticlockwise"}
  <2>1. /\ Len(a) \in 1..2 /\ a[1] \in DOMAIN Quarters
        /\ Len(a) = 2 => a[2] \in {"clockwise", "anticlockwise"}
    BY <1>4 DEF Proper
  <2>2. rest # <<>> /\ rest[1] \in DOMAIN Quarters
    BY <1>0, <2>1
  <2>3. relative <=> Len(a) = 2
    <3>1. CASE Len(a) = 2
      BY <1>0, <2>1, <3>1
    <3>2. CASE Len(a) = 1
      <4>1. Len(rest) > 1 => rest[2] \in SubNames
        BY <1>0, <3>2
      <4>2. QED BY <3>2, <4>1 DEF SubNames
    <3>3. QED BY <2>1, <3>1, <3>2
  <2>4. \E h, k : Transform(rest, name, g) = IF relative THEN Accept(2, h) ELSE Accept(1, k)
    BY <2>2 DEF Transform
  <2>5. r = Transform(rest, name, g)
    BY <1>4 DEF SubHandler
  <2> HIDE DEF relative, r
  <2>6. QED BY <1>0, <2>1, <2>3, <2>4, <2>5 DEF r
<1>5. CASE sub \in {"power", "dpms"}
  <2>1. Len(a) = 1
    BY <1>5 DEF Proper
  <2>2. rest # <<>>
    BY <1>0, <2>1
  <2>3. r = Accept(1, g)
    BY <1>5, <2>2 DEF SubHandler, PowerSignal
  <2>4. QED BY <1>0, <2>1, <2>3
<1>6. QED BY <1>1, <1>2, <1>3, <1>4, <1>5 DEF SubNames

LEMMA EndFacts ==
  ASSUME NEW words \in Seq(STRING), NEW i \in Starts(words)
  PROVE  /\ i \in 1..Len(words) /\ EndOf(words, i) \in i..Len(words)
         /\ EndOf(words, i) < Len(words) => EndOf(words, i) + 1 \in Starts(words)
<1>0. PICK n \in Nat : n = Len(words)
  OBVIOUS
<1> DEFINE T == Starts(words)
<1>1. i \in 1..n /\ i \in Nat /\ T \subseteq 1..n
  BY <1>0 DEF Starts
<1> HIDE DEF T
<1> DEFINE S == {e \in Nat : i <= e /\ e <= n /\ (e = n \/ e + 1 \in T)}
<1>2. n \in S /\ S \subseteq Nat
  BY <1>1
<1>3. PICK e \in S : \A t \in S : e <= t
  <2> HIDE DEF S
  <2>1. QED BY <1>2, LeastNat
<1>4. e \in Nat /\ e \in i..n /\ (e = n \/ e + 1 \in T)
  <2>1. e \in Nat /\ i <= e /\ e <= n /\ (e = n \/ e + 1 \in T)
    BY <1>3
  <2>2. QED BY <1>1, <2>1
<1>5. \A j \in i + 1..e : j \notin T
  <2> SUFFICES ASSUME NEW j \in i + 1..e, j \in T PROVE FALSE
    OBVIOUS
  <2>1. j \in Nat /\ i + 1 <= j /\ j <= e
    BY <1>1, <1>4
  <2>2. /\ j - 1 \in Nat /\ i <= j - 1 /\ j - 1 <= n /\ (j - 1) + 1 = j /\ ~(e <= j - 1)
    BY <1>1, <1>4, <2>1
  <2>3. j - 1 \in S
    BY <2>2
  <2>4. QED BY <1>3, <2>2, <2>3
<1> DEFINE f == EndOf(words, i)
<1>6. f \in i..n /\ (f = n \/ f + 1 \in T)
  <2>1. \E x \in i..n : (\A j \in i + 1..x : j \notin T) /\ (x = n \/ x + 1 \in T)
    BY <1>4, <1>5
  <2>2. f = CHOOSE x \in i..n : (\A j \in i + 1..x : j \notin T) /\ (x = n \/ x + 1 \in T)
    BY <1>0 DEF EndOf, T
  <2> HIDE DEF f
  <2>3. QED BY <2>1, <2>2, Zenon
<1> HIDE DEF f
<1>7. f < n => f + 1 \in T
  BY <1>1, <1>6
<1>8. QED BY <1>0, <1>1, <1>6, <1>7 DEF f, T

\* What is left of the words is nothing, or begins with the name of a
\* sub-command.
Left(words, s) == s = <<>> \/ \E i \in Starts(words) : s = SubSeq(words, i, Len(words))

LEMMA SuffixFacts ==
  ASSUME NEW words \in Seq(STRING), NEW i \in 1..Len(words), NEW s, s = SubSeq(words, i, Len(words))
  PROVE  /\ s \in Seq(STRING) /\ s # <<>> /\ Len(s) = Len(words) - i + 1 /\ s[1] = words[i]
         /\ Tail(s) \in Seq(STRING) /\ Len(Tail(s)) = Len(words) - i
         /\ \A k \in 1..Len(words) - i : Tail(s)[k] = words[i + k]
         /\ \A d \in Nat : d <= Len(words) - i =>
              SubSeq(s, 2 + d, Len(s)) =
                IF d = Len(words) - i THEN <<>> ELSE SubSeq(words, i + d + 1, Len(words))
<1> DEFINE n == Len(words)
<1>0. n \in Nat /\ i \in Nat /\ i >= 1 /\ i <= n /\ \A k \in 1..n : words[k] \in STRING
  OBVIOUS
<1>1. \A m \in 1..n : /\ SubSeq(words, m, n) \in Seq(STRING) /\ Len(SubSeq(words, m, n)) = n - m + 1
                      /\ \A k \in 1..n - m + 1 : SubSeq(words, m, n)[k] = words[m + k - 1]
  <2> SUFFICES ASSUME NEW m \in 1..n
               PROVE  /\ SubSeq(words, m, n) \in Seq(STRING) /\ Len(SubSeq(words, m, n)) = n - m + 1
                      /\ \A k \in 1..n - m + 1 : SubSeq(words, m, n)[k] = words[m + k - 1]
    OBVIOUS
  <2>1. \A k \in m..n : words[k] \in STRING
    BY <1>0
  <2>2. QED BY <1>0, <2>1, SubSeqProperties
<1>2. /\ s \in Seq(STRING) /\ Len(s) = n - i + 1
      /\ \A k \in 1..n - i + 1 : s[k] = words[i + k - 1]
  BY <1>0, <1>1
<1> HIDE DEF n
<1>3. Len(s) >= 1 /\ s[1] = words[i] /\ s # <<>>
  <2>1. Len(s) >= 1 /\ 1 \in 1..n - i + 1 /\ i + 1 - 1 = i
    BY <1>0, <1>2
  <2>2. Len(<<>>) = 0
    OBVIOUS
  <2>3. Len(s) # 0
    BY <2>1
  <2>4. s # <<>>
    BY <2>2, <2>3, Zenon
  <2>5. QED BY <1>2, <2>1, <2>4
<1>4. /\ Tail(s) \in Seq(STRING) /\ Len(Tail(s)) = n - i
      /\ \A k \in 1..n - i : Tail(s)[k] = words[i + k]
  <2>1. Tail(s) \in Seq(STRING) /\ Len(Tail(s)) = Len(s) - 1
    BY <1>2, <1>3, HeadTailProperties
  <2>2. \A k \in 1..n - i : Tail(s)[k] = s[k + 1]
    BY <1>0, <1>2, <1>3
  <2>3. \A k \in 1..n - i : k + 1 \in 1..n - i + 1 /\ i + (k + 1) - 1 = i + k
    BY <1>0
  <2>4. QED BY <1>0, <1>2, <2>1, <2>2, <2>3
<1>5. ASSUME NEW d \in Nat, d <= n - i
      PROVE  SubSeq(s, 2 + d, Len(s)) =
               IF d = n - i THEN <<>> ELSE SubSeq(words, i + d + 1, n)
  <2>1. CASE d = n - i
    <3>1. 2 + d > Len(s) /\ 2 + d \in Int /\ Len(s) \in Int
      BY <1>0, <1>2, <2>1
    <3>2. SubSeq(s, 2 + d, Len(s)) = <<>>
      BY <3>1, SubSeqEmpty
    <3>3. QED BY <2>1, <3>2
  <2>2. CASE d # n - i
    <3> DEFINE m == i + d + 1
               p == SubSeq(s, 2 + d, Len(s))
               r == SubSeq(words, m, n)
    <3>1. m \in 1..n /\ 2 + d \in 1..Len(s) /\ Len(s) - (2 + d) + 1 = n - m + 1 /\ n - m + 1 \in Nat
      BY <1>0, <1>2, <1>5, <2>2
    <3>2. r \in Seq(STRING) /\ Len(r) = n - m + 1 /\ \A k \in 1..n - m + 1 : r[k] = words[m + k - 1]
      BY <1>1, <3>1
    <3>3. /\ p \in Seq(STRING) /\ Len(p) = n - m + 1
          /\ \A k \in 1..n - m + 1 : p[k] = s[2 + d + k - 1]
      <4>1. \A k \in 2 + d..Len(s) : s[k] \in STRING
        BY <1>2, <3>1
      <4>2. QED BY <1>2, <3>1, <4>1, SubSeqProperties
    <3>4. \A k \in 1..n - m + 1 : s[2 + d + k - 1] = words[m + k - 1]
      <4>1. \A k \in 1..n - m + 1 : 2 + d + k - 1 \in 1..n - i + 1 /\ i + (2 + d + k - 1) - 1 = m + k - 1
        BY <1>0, <1>5, <3>1
      <4>2. QED BY <1>2, <4>1
    <3> HIDE DEF m, p, r
    <3>5. p = r
      BY <3>2, <3>3, <3>4, SeqEqual
    <3>6. QED BY <2>2, <3>5 DEF m, p, r
  <2>3. QED BY <2>1, <2>2
<1>6. QED BY <1>2, <1>3, <1>4, <1>5 DEF n

WordsInv ==
  phase = "sub" /\ Known(cmd.word) /\ WellFormed(cmd.words) => Left(cmd.words, args)

LEMMA WordsType ==
  ASSUME TypeInv, phase \in {"focus", "each", "sub"}, cmd.name = "output"
  PROVE  cmd.words \in Seq(STRING)
<1>1. pos > 1 /\ cmd = list[pos - 1].cmd
  BY DEF TypeInv
<1>2. list \in Lists /\ pos - 1 \in 1..Len(list)
  BY <1>1, Positions
<1>3. QED BY <1>1, <1>2, ListFacts

\* A well-formed sub-command succeeds, and leaves the name of the next.
LEMMA SubGood ==
  ASSUME TypeInv, WordsInv, phase = "sub", args # <<>>, Known(cmd.word), WellFormed(cmd.words),
         NEW r, r = SubHandler(args[1], Tail(args), cmd.word, config)
  PROVE  r.ok /\ Left(cmd.words, SubSeq(args, 2 + r.used, Len(args)))
<1> DEFINE words == cmd.words
           n == Len(words)
<1>1. words \in Seq(STRING) /\ n \in Nat
  BY WordsType DEF TypeInv
<1>2. PICK i \in Starts(words) : args = SubSeq(words, i, n)
  BY DEF WordsInv, Left
<1> DEFINE e == EndOf(words, i)
           a == SubSeq(words, i + 1, e)
           rest == Tail(args)
<1>3. i \in 1..n /\ e \in i..n /\ (e < n => e + 1 \in Starts(words))
  BY <1>1, EndFacts
<1>4. words[i] \in SubNames /\ Proper(words[i], a)
  BY DEF WellFormed, Starts
<1> HIDE DEF words, e
<1>5. /\ args # <<>> /\ Len(args) = n - i + 1 /\ args[1] = words[i]
      /\ rest \in Seq(STRING) /\ Len(rest) = n - i
      /\ \A k \in 1..n - i : rest[k] = words[i + k]
      /\ \A d \in Nat : d <= n - i =>
           SubSeq(args, 2 + d, Len(args)) = IF d = n - i THEN <<>> ELSE SubSeq(words, i + d + 1, n)
  BY <1>1, <1>2, <1>3, SuffixFacts
<1>6. /\ a \in Seq(STRING) /\ Len(a) = e - i
      /\ \A k \in 1..e - i : a[k] = words[i + k]
  <2>1. /\ i \in Int /\ e \in Int /\ e - i \in Nat /\ e - (i + 1) + 1 = e - i
        /\ \A k \in i + 1..e : words[k] \in STRING
    BY <1>1, <1>3
  <2>2. i + 1 \in Int
    BY <2>1
  <2>3. /\ a \in Seq(STRING) /\ Len(a) = IF i + 1 <= e THEN e - (i + 1) + 1 ELSE 0
        /\ \A k \in 1..e - (i + 1) + 1 : a[k] = words[i + 1 + k - 1]
    BY <2>1, <2>2, SubSeqProperties
  <2>4. (IF i + 1 <= e THEN e - (i + 1) + 1 ELSE 0) = e - i
    BY <1>3, <2>1
  <2>5. \A k \in 1..e - i : i + 1 + k - 1 = i + k
    BY <2>1
  <2>6. QED BY <2>1, <2>3, <2>4, <2>5
<1> HIDE DEF a, n
<1>7. /\ Len(a) <= Len(rest) /\ e - i \in Nat /\ e - i <= n - i
      /\ e - i < n - i => e < n
      /\ i + (e - i + 1) = e + 1 /\ i + (e - i) + 1 = e + 1
      /\ \A k \in 1..e - i : k \in 1..n - i
      /\ e - i < n - i => e - i + 1 \in 1..n - i
      /\ e - i = n - i \/ e < n
  BY <1>1, <1>3, <1>5, <1>6
<1> HIDE DEF rest
<1>8. \A k \in 1..Len(a) : a[k] = rest[k]
  BY <1>5, <1>6, <1>7
<1>9. Len(a) < Len(rest) => rest[Len(a) + 1] \in SubNames
  <2>1. e < n => words[e + 1] \in SubNames
    BY <1>3 DEF Starts
  <2>2. e - i < n - i => rest[e - i + 1] = words[e + 1]
    <3>1. \A k \in 1..n - i : rest[k] = words[i + k]
      BY <1>5
    <3>2. e - i < n - i => e - i + 1 \in 1..n - i
      BY <1>7
    <3>3. i + (e - i + 1) = e + 1
      BY <1>7
    <3> DEFINE k == e - i + 1
    <3> HIDE DEF k
    <3>4. e - i < n - i => rest[k] = words[i + k]
      BY <3>1, <3>2 DEF k
    <3>5. QED BY <3>3, <3>4 DEF k
  <2>3. QED BY <1>5, <1>6, <1>7, <2>1, <2>2
<1>10. r.ok /\ r.used = e - i
  <2>1. r = SubHandler(words[i], rest, cmd.word, config)
    BY <1>5 DEF rest
  <2>2. Len(a) <= Len(rest) /\ a \in Seq(STRING) /\ rest \in Seq(STRING) /\ Len(a) = e - i
    BY <1>5, <1>6, <1>7
  <2> HIDE DEF a, rest
  <2>3. /\ SubHandler(words[i], rest, cmd.word, config).ok
        /\ SubHandler(words[i], rest, cmd.word, config).used = Len(a)
    BY <1>4, <1>8, <1>9, <2>2, SubTakes
  <2>4. QED BY <2>1, <2>2, <2>3
<1>11. SubSeq(args, 2 + r.used, Len(args)) = IF e - i = n - i THEN <<>> ELSE SubSeq(words, e + 1, n)
  BY <1>5, <1>7, <1>10
<1>12. Left(words, SubSeq(args, 2 + r.used, Len(args)))
  BY <1>3, <1>7, <1>11 DEF Left, n
<1>13. QED BY <1>10, <1>12 DEF words

LEMMA WordsMean ==
  ASSUME TypeInv, WordsInv
  PROVE  OutputWordsConsumed
BY SubGood DEF OutputWordsConsumed

LEMMA WordsStep ==
  ASSUME TypeInv, WordsInv, [Next]_vars
  PROVE  WordsInv'
<1>1. CASE UNCHANGED vars
  BY <1>1 DEF vars, WordsInv
<1>2. CASE Finish \/ RejectCriteria
  BY <1>2 DEF Finish, RejectCriteria, WordsInv
<1>3. CASE IgnoreBlank \/ TakeCommand
  BY <1>3, TakeFacts DEF IgnoreBlank, Split, WordsInv
<1>4. CASE CallOnFocus \/ CallOnContainer
  <2>1. cmd' = cmd /\ Call /\ phase \in {"focus", "each"}
    BY <1>4 DEF CallOnFocus, CallOnContainer, shape
  <2>2. ctx' \in [con : ContainerRec, overridden : BOOLEAN]
    BY <1>4, TypeStep DEF TypeInv, Next
  <2>3. phase' = "sub" => cmd.name = "output" /\ args' = cmd.words
    BY <2>1, <2>2, CallFacts DEF TypeInv
  <2>4. SUFFICES ASSUME phase' = "sub", WellFormed(cmd.words)
                 PROVE  Left(cmd.words, cmd.words)
    BY <2>1, <2>3 DEF WordsInv
  <2>5. cmd.words \in Seq(STRING)
    BY <2>1, <2>3, <2>4, WordsType
  <2>6. CASE cmd.words # <<>>
    <3>1. 1 \in Starts(cmd.words)
      BY <2>4, <2>6 DEF WellFormed
    <3>2. cmd.words = SubSeq(cmd.words, 1, Len(cmd.words))
      BY <2>5
    <3>3. QED BY <3>1, <3>2 DEF Left
  <2>7. QED BY <2>6 DEF Left
<1>5. CASE SubCommand
  <2> DEFINE r == SubHandler(args[1], Tail(args), cmd.word, config)
  <2>1. /\ phase = "sub" /\ args # <<>> /\ cmd' = cmd
        /\ args' = SubSeq(args, 2 + r.used, Len(args))
    BY <1>5 DEF SubCommand, shape
  <2> HIDE DEF r
  <2>2. Known(cmd.word) /\ WellFormed(cmd.words) => Left(cmd.words, args')
    BY <2>1, SubGood DEF r
  <2>3. QED BY <2>1, <2>2 DEF WordsInv
<1>6. CASE SubCommandsDone
  BY <1>6, ReturnFacts DEF SubCommandsDone, WordsInv
<1>7. QED BY <1>1, <1>2, <1>3, <1>4, <1>5, <1>6 DEF Next

\* Whatever number of words a sub-command of "output" takes, what it leaves
\* is nothing or begins with the name of the next, so that in a list of
\* well-formed ones each succeeds.
THEOREM OutputWordsConsumedHolds == Spec => []OutputWordsConsumed
<1>1. Init => TypeInv /\ WordsInv
  <2>1. Init => phase # "sub"
    BY Zenon DEF Init
  <2>2. QED BY <2>1, TypeInit DEF WordsInv
<1>2. TypeInv /\ WordsInv /\ [Next]_vars => TypeInv' /\ WordsInv'
  BY TypeStep, WordsStep
<1>3. TypeInv /\ WordsInv => OutputWordsConsumed
  BY WordsMean
<1>4. QED BY <1>1, <1>2, <1>3, PTL DEF Spec
================================================================================
