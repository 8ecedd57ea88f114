---------------------------- MODULE LeanIMTProofs ----------------------------
(***************************************************************************)
(* The commitment tree for every depth, every size of the ring of roots    *)
(* and every sequence of leaves: the frontier, the mirror, the paths it    *)
(* serves and the membership argument of the circuits all speak of one     *)
(* and the same tree, the one Layer builds from scratch.                   *)
(***************************************************************************)
EXTENDS LeanIMT, FiniteSetTheorems, TLAPS

-----------------------------------------------------------------------------
(* Numbers                                                                 *)

\* A nonempty set of numbers has a least element.  Every induction over the levels
\* of the tree below looks at the least level at which its claim fails.
LEMMA LeastLevel ==
    ASSUME NEW S \in SUBSET Nat, S # {} PROVE \E x \in S : \A y \in S : x <= y
  <1> DEFINE below == {0 .. x : x \in S}
  <1>1. ASSUME NEW x \in S PROVE 0 .. x \in FiniteSubsetsOf(Nat)
    <2>1. IsFiniteSet(0 .. x) /\ 0 .. x \subseteq Nat
      BY FS_Interval
    <2> QED
      BY <2>1 DEF FiniteSubsetsOf
  <1>2. PICK b \in below : \A c \in below : <<c, b>> \notin StrictSubsetOrdering(Nat)
    <2>1. below \subseteq FiniteSubsetsOf(Nat) /\ below # {}
      BY <1>1
    <2>2. IsWellFoundedOn(StrictSubsetOrdering(Nat), FiniteSubsetsOf(Nat))
      BY FS_StrictSubsetOrderingWellFounded
    <2> HIDE DEF below
    <2> QED
      BY <2>1, <2>2, WFMin
  <1>3. PICK x \in S : b = 0 .. x
    OBVIOUS
  <1>4. ASSUME NEW y \in S, y < x PROVE FALSE
    <2>1. 0 .. y \subseteq 0 .. x /\ x \in 0 .. x /\ x \notin 0 .. y
      BY <1>4
    <2>2. 0 .. y \in SUBSET Nat /\ 0 .. x \in SUBSET Nat /\ 0 .. y # 0 .. x
      BY <2>1
    <2>3. <<0 .. y, 0 .. x>> \in StrictSubsetOrdering(Nat)
      BY <2>1, <2>2 DEF StrictSubsetOrdering
    <2> QED
      BY <1>2, <1>3, <2>3
  <1>5. \A y \in S : x =< y
    BY <1>4
  <1> QED
    BY <1>5

\* A set of levels that holds 0 and, with every level, the next one, holds them all.
LEMMA LevelInduction ==
    ASSUME NEW n \in Nat, NEW G, 0 \in G, \A l \in 1 .. n : l - 1 \in G => l \in G
    PROVE  0 .. n \subseteq G
  <1> SUFFICES ASSUME (0 .. n) \ G # {} PROVE FALSE
    OBVIOUS
  <1> DEFINE bad == (0 .. n) \ G
  <1>0. bad \in SUBSET Nat /\ bad # {}
    OBVIOUS
  <1>1. PICK m \in bad : \A y \in bad : m <= y
    <2> HIDE DEF bad
    <2> QED
      BY <1>0, LeastLevel
  <1>2. m \in 1 .. n /\ m - 1 \in 0 .. n /\ ~(m <= m - 1)
    BY <1>1
  <1> QED
    BY <1>1, <1>2

-----------------------------------------------------------------------------
(* Powers of two and the nodes above a leaf                                *)

LEMMA Pow2Exists ==
    \E f : f = [l \in 0 .. TreeDepth |-> IF l = 0 THEN 1 ELSE 2 * f[l - 1]]
  <1> DEFINE Good == {n \in Nat : \E f : f = [l \in 0 .. n |-> IF l = 0 THEN 1 ELSE 2 * f[l - 1]]}
  <1>1. 0 \in Good
    <2> DEFINE f == [l \in 0 .. 0 |-> 1]
    <2>1. f = [l \in 0 .. 0 |-> IF l = 0 THEN 1 ELSE 2 * f[l - 1]]
      OBVIOUS
    <2> QED
      BY <2>1
  <1>2. ASSUME NEW n \in 1 .. TreeDepth, n - 1 \in Good PROVE n \in Good
    <2>1. PICK f : f = [l \in 0 .. n - 1 |-> IF l = 0 THEN 1 ELSE 2 * f[l - 1]]
      BY <1>2
    <2> DEFINE g == [l \in 0 .. n |-> IF l = n THEN 2 * f[n - 1] ELSE f[l]]
    <2>2. ASSUME NEW l \in 0 .. n PROVE g[l] = IF l = 0 THEN 1 ELSE 2 * g[l - 1]
      BY <2>1
    <2>3. g = [l \in 0 .. n |-> IF l = 0 THEN 1 ELSE 2 * g[l - 1]]
      BY <2>2
    <2>4. \E h : h = [l \in 0 .. n |-> IF l = 0 THEN 1 ELSE 2 * h[l - 1]]
      <3> HIDE DEF g
      <3> QED
        BY <2>3
    <2> QED
      BY <2>4
  <1> HIDE DEF Good
  <1>3. 0 .. TreeDepth \subseteq Good
    BY <1>1, <1>2, LevelInduction, TreeDepthAssumption
  <1>4. TreeDepth \in Good
    BY <1>3, TreeDepthAssumption
  <1> QED
    BY <1>4 DEF Good

LEMMA Pow2Def ==
    /\ Pow2[0] = 1
    /\ \A l \in 1 .. TreeDepth : Pow2[l] = 2 * Pow2[l - 1]
  <1>1. Pow2 = [l \in 0 .. TreeDepth |-> IF l = 0 THEN 1 ELSE 2 * Pow2[l - 1]]
    BY Pow2Exists DEF Pow2
  <1> QED
    BY <1>1, TreeDepthAssumption

LEMMA Pow2Positive ==
    \A l \in 0 .. TreeDepth : Pow2[l] \in Nat \ {0}
  <1> DEFINE Good == {l \in 0 .. TreeDepth : Pow2[l] \in Nat \ {0}}
  <1>1. 0 \in Good
    BY Pow2Def, TreeDepthAssumption
  <1>2. ASSUME NEW l \in 1 .. TreeDepth, l - 1 \in Good PROVE l \in Good
    <2>1. Pow2[l - 1] \in Nat \ {0} /\ Pow2[l] = 2 * Pow2[l - 1]
      BY <1>2, Pow2Def
    <2> QED
      BY <2>1, TreeDepthAssumption
  <1> HIDE DEF Good
  <1>3. 0 .. TreeDepth \subseteq Good
    BY <1>1, <1>2, LevelInduction, TreeDepthAssumption
  <1> QED
    BY <1>3 DEF Good

\* The node above a leaf, level by level: the code shifts the index by one bit.
LEMMA AncestorStep ==
    ASSUME NEW i \in Nat
    PROVE  /\ Ancestor(i, 0) = i
           /\ \A l \in 0 .. TreeDepth : Ancestor(i, l) \in Nat
           /\ \A l \in 1 .. TreeDepth : Ancestor(i, l) = Ancestor(i, l - 1) \div 2
  <1>1. Ancestor(i, 0) = i
    BY Pow2Def DEF Ancestor
  <1>2. ASSUME NEW l \in 0 .. TreeDepth PROVE Ancestor(i, l) \in Nat
    <2> DEFINE P == Pow2[l]
    <2>1. P \in Nat \ {0}
      BY Pow2Positive
    <2> HIDE DEF P
    <2>2. i \div P \in Nat
      BY <2>1
    <2> QED
      BY <2>2 DEF P, Ancestor
  <1>3. ASSUME NEW l \in 1 .. TreeDepth PROVE Ancestor(i, l) = Ancestor(i, l - 1) \div 2
    <2> DEFINE P == Pow2[l - 1]
    <2>1. P \in Nat \ {0} /\ Pow2[l] = 2 * P
      BY Pow2Positive, Pow2Def, TreeDepthAssumption
    <2> HIDE DEF P
    <2>2. i \div (2 * P) = (i \div P) \div 2
      BY <2>1
    <2> QED
      BY <2>1, <2>2 DEF P, Ancestor
  <1> QED
    BY <1>1, <1>2, <1>3

\* Below the tree's capacity, the topmost node above a leaf is the root.
LEMMA AncestorTop ==
    ASSUME NEW i \in Nat, i < Capacity PROVE Ancestor(i, TreeDepth) = 0
  <1> DEFINE P == Pow2[TreeDepth]
  <1>1. P \in Nat \ {0} /\ i < P
    BY Pow2Positive, TreeDepthAssumption DEF Capacity
  <1> HIDE DEF P
  <1>2. i \div P = 0
    BY <1>1
  <1> QED
    BY <1>2 DEF P, Ancestor

\* The node above the next leaf is the same one or the next.
LEMMA AncestorNext ==
    ASSUME NEW i \in Nat
    PROVE  \A l \in 0 .. TreeDepth :
               Ancestor(i + 1, l) = Ancestor(i, l) \/ Ancestor(i + 1, l) = Ancestor(i, l) + 1
  <1> DEFINE Good == {l \in 0 .. TreeDepth :
               Ancestor(i + 1, l) = Ancestor(i, l) \/ Ancestor(i + 1, l) = Ancestor(i, l) + 1}
  <1>1. 0 \in Good
    BY AncestorStep, TreeDepthAssumption
  <1>2. ASSUME NEW l \in 1 .. TreeDepth, l - 1 \in Good PROVE l \in Good
    <2>1. /\ Ancestor(i, l) = Ancestor(i, l - 1) \div 2
          /\ Ancestor(i + 1, l) = Ancestor(i + 1, l - 1) \div 2
          /\ Ancestor(i, l - 1) \in Nat
      BY AncestorStep, TreeDepthAssumption
    <2>2. \/ Ancestor(i + 1, l - 1) = Ancestor(i, l - 1)
          \/ Ancestor(i + 1, l - 1) = Ancestor(i, l - 1) + 1
      BY <1>2
    <2> QED
      BY <2>1, <2>2
  <1> HIDE DEF Good
  <1>3. 0 .. TreeDepth \subseteq Good
    BY <1>1, <1>2, LevelInduction, TreeDepthAssumption
  <1> QED
    BY <1>3 DEF Good

-----------------------------------------------------------------------------
(* The reference tree                                                      *)

LEMMA LayerExists ==
    ASSUME NEW s
    PROVE  \E f : f = [l \in 0 .. TreeDepth |-> IF l = 0 THEN s ELSE LayerAbove(f[l - 1], l - 1)]
  <1> DEFINE Good == {n \in Nat : \E f : f = [l \in 0 .. n |-> IF l = 0 THEN s ELSE LayerAbove(f[l - 1], l - 1)]}
  <1>1. 0 \in Good
    <2> DEFINE f == [l \in 0 .. 0 |-> s]
    <2>1. f = [l \in 0 .. 0 |-> IF l = 0 THEN s ELSE LayerAbove(f[l - 1], l - 1)]
      OBVIOUS
    <2> QED
      BY <2>1
  <1>2. ASSUME NEW n \in 1 .. TreeDepth, n - 1 \in Good PROVE n \in Good
    <2>1. PICK f : f = [l \in 0 .. n - 1 |-> IF l = 0 THEN s ELSE LayerAbove(f[l - 1], l - 1)]
      BY <1>2
    <2> DEFINE g == [l \in 0 .. n |-> IF l = n THEN LayerAbove(f[n - 1], n - 1) ELSE f[l]]
    <2>2. ASSUME NEW l \in 0 .. n PROVE g[l] = IF l = 0 THEN s ELSE LayerAbove(g[l - 1], l - 1)
      BY <2>1
    <2>3. g = [l \in 0 .. n |-> IF l = 0 THEN s ELSE LayerAbove(g[l - 1], l - 1)]
      BY <2>2
    <2>4. \E h : h = [l \in 0 .. n |-> IF l = 0 THEN s ELSE LayerAbove(h[l - 1], l - 1)]
      <3> HIDE DEF g
      <3> QED
        BY <2>3
    <2> QED
      BY <2>4
  <1> HIDE DEF Good
  <1>3. 0 .. TreeDepth \subseteq Good
    BY <1>1, <1>2, LevelInduction, TreeDepthAssumption
  <1>4. TreeDepth \in Good
    BY <1>3, TreeDepthAssumption
  <1> QED
    BY <1>4 DEF Good

LEMMA LayerDef ==
    ASSUME NEW s
    PROVE  /\ Layer(s)[0] = s
           /\ \A l \in 1 .. TreeDepth : Layer(s)[l] = LayerAbove(Layer(s)[l - 1], l - 1)
  <1> DEFINE F == Layer(s)
  <1>1. F = [l \in 0 .. TreeDepth |-> IF l = 0 THEN s ELSE LayerAbove(F[l - 1], l - 1)]
    BY LayerExists DEF Layer
  <1> HIDE DEF F
  <1>2. /\ F[0] = s
        /\ \A l \in 1 .. TreeDepth : F[l] = LayerAbove(F[l - 1], l - 1)
    BY <1>1, TreeDepthAssumption
  <1> QED
    BY <1>2 DEF F

\* The number of nodes of the layers: that of the leaves halved and rounded up at
\* every level.
IsLayer(x, n) == n \in Nat /\ Len(x) = n /\ DOMAIN x = 1 .. n

LEMMA LayerAboveLen ==
    ASSUME NEW x, NEW n \in Nat, IsLayer(x, n), NEW level
    PROVE  /\ IsLayer(LayerAbove(x, level), (n + 1) \div 2)
           /\ \A j \in 1 .. (n + 1) \div 2 :
                 LayerAbove(x, level)[j] = IF 2 * j <= n THEN Hash3(x[2 * j - 1], x[2 * j], level)
                                                         ELSE x[2 * j - 1]
  <1>1. Len(x) = n
    BY DEF IsLayer
  <1>2. (n + 1) \div 2 \in Nat
    OBVIOUS
  <1>3. DOMAIN LayerAbove(x, level) = 1 .. (n + 1) \div 2
    BY <1>1 DEF LayerAbove
  <1>4. Len(LayerAbove(x, level)) = (n + 1) \div 2
    BY <1>1, <1>2 DEF LayerAbove
  <1> QED
    BY <1>1, <1>2, <1>3, <1>4 DEF LayerAbove, IsLayer

LEMMA LayerLen ==
    ASSUME NEW s, NEW n \in Nat, IsLayer(s, n + 1)
    PROVE  \A l \in 0 .. TreeDepth : IsLayer(Layer(s)[l], Ancestor(n, l) + 1)
  <1> DEFINE Good == {l \in 0 .. TreeDepth : IsLayer(Layer(s)[l], Ancestor(n, l) + 1)}
  <1>1. 0 \in Good
    BY LayerDef, AncestorStep, TreeDepthAssumption
  <1>2. ASSUME NEW l \in 1 .. TreeDepth, l - 1 \in Good PROVE l \in Good
    <2> DEFINE a == Ancestor(n, l - 1)
    <2> DEFINE x == Layer(s)[l - 1]
    <2>1. a \in Nat /\ Ancestor(n, l) = a \div 2
      BY AncestorStep, TreeDepthAssumption
    <2>2. IsLayer(x, a + 1) /\ Layer(s)[l] = LayerAbove(x, l - 1)
      BY <1>2, LayerDef
    <2> HIDE DEF a, x
    <2>3. IsLayer(LayerAbove(x, l - 1), ((a + 1) + 1) \div 2)
      BY <2>1, <2>2, LayerAboveLen
    <2>4. ((a + 1) + 1) \div 2 = a \div 2 + 1
      BY <2>1
    <2> QED
      BY <2>1, <2>2, <2>3, <2>4, TreeDepthAssumption
  <1> HIDE DEF Good
  <1>3. 0 .. TreeDepth \subseteq Good
    BY <1>1, <1>2, LevelInduction, TreeDepthAssumption
  <1> QED
    BY <1>3 DEF Good

LEMMA LayerLenEmpty ==
    ASSUME NEW s, IsLayer(s, 0)
    PROVE  \A l \in 0 .. TreeDepth : IsLayer(Layer(s)[l], 0)
  <1> DEFINE Good == {l \in 0 .. TreeDepth : IsLayer(Layer(s)[l], 0)}
  <1>1. 0 \in Good
    BY LayerDef, TreeDepthAssumption
  <1>2. ASSUME NEW l \in 1 .. TreeDepth, l - 1 \in Good PROVE l \in Good
    <2> DEFINE x == Layer(s)[l - 1]
    <2>1. IsLayer(x, 0) /\ Layer(s)[l] = LayerAbove(x, l - 1)
      BY <1>2, LayerDef
    <2> HIDE DEF x
    <2>2. IsLayer(LayerAbove(x, l - 1), (0 + 1) \div 2)
      BY <2>1, LayerAboveLen
    <2>3. (0 + 1) \div 2 = 0
      OBVIOUS
    <2> QED
      BY <2>1, <2>2, <2>3, TreeDepthAssumption
  <1> HIDE DEF Good
  <1>3. 0 .. TreeDepth \subseteq Good
    BY <1>1, <1>2, LevelInduction, TreeDepthAssumption
  <1> QED
    BY <1>3 DEF Good

\* Node j of a level, counted from 0, is the hash of nodes 2j and 2j + 1 of the level
\* below, or node 2j itself where that is the last.
Node(s, l, j) == Layer(s)[l][j + 1]

LEMMA NodeStep ==
    ASSUME NEW s, NEW n \in Nat, IsLayer(s, n + 1), NEW l \in 1 .. TreeDepth, NEW j \in 0 .. Ancestor(n, l)
    PROVE  Node(s, l, j) = IF 2 * j + 1 <= Ancestor(n, l - 1)
                           THEN Hash3(Node(s, l - 1, 2 * j), Node(s, l - 1, 2 * j + 1), l - 1)
                           ELSE Node(s, l - 1, 2 * j)
  <1> DEFINE a == Ancestor(n, l - 1)
  <1> DEFINE x == Layer(s)[l - 1]
  <1>1. a \in Nat /\ Ancestor(n, l) = a \div 2
    BY AncestorStep, TreeDepthAssumption
  <1>2. IsLayer(x, a + 1) /\ Layer(s)[l] = LayerAbove(x, l - 1)
    BY LayerDef, LayerLen, TreeDepthAssumption
  <1>5. j \in 0 .. a \div 2
    BY <1>1
  <1> HIDE DEF a, x
  <1>3. \A i \in 1 .. ((a + 1) + 1) \div 2 :
            LayerAbove(x, l - 1)[i] = IF 2 * i <= a + 1 THEN Hash3(x[2 * i - 1], x[2 * i], l - 1)
                                                        ELSE x[2 * i - 1]
    BY <1>1, <1>2, LayerAboveLen
  <1>4. /\ j + 1 \in 1 .. ((a + 1) + 1) \div 2
        /\ 2 * (j + 1) - 1 = 2 * j + 1 /\ 2 * (j + 1) = (2 * j + 1) + 1
        /\ (2 * (j + 1) <= a + 1) = (2 * j + 1 <= a)
    BY <1>1, <1>5
  <1>6. LayerAbove(x, l - 1)[j + 1] = IF 2 * j + 1 <= a THEN Hash3(x[2 * j + 1], x[(2 * j + 1) + 1], l - 1)
                                                        ELSE x[2 * j + 1]
    BY <1>3, <1>4
  <1> QED
    BY <1>2, <1>6 DEF Node, a, x

LEMMA NodeZero ==
    ASSUME NEW s, NEW j PROVE Node(s, 0, j) = s[j + 1]
  BY LayerDef DEF Node

\* The nodes whose leaves are all among the first k depend on those k leaves only.
AgreeUpTo(k, s, m, t, n) ==
    /\ k \in Nat /\ m \in Nat /\ n \in Nat /\ k <= m + 1 /\ k <= n + 1
    /\ IsLayer(s, m + 1) /\ IsLayer(t, n + 1)
    /\ \A j \in 0 .. k - 1 : s[j + 1] = t[j + 1]

LEMMA SamePrefix ==
    ASSUME NEW k, NEW s, NEW m, NEW t, NEW n, AgreeUpTo(k, s, m, t, n)
    PROVE  \A l \in 0 .. TreeDepth :
               /\ Ancestor(k, l) <= Ancestor(m, l) + 1 /\ Ancestor(k, l) <= Ancestor(n, l) + 1
               /\ \A j \in 0 .. Ancestor(k, l) - 1 : Node(s, l, j) = Node(t, l, j)
  <1> DEFINE Good == {l \in 0 .. TreeDepth :
               /\ Ancestor(k, l) <= Ancestor(m, l) + 1 /\ Ancestor(k, l) <= Ancestor(n, l) + 1
               /\ \A j \in 0 .. Ancestor(k, l) - 1 : Node(s, l, j) = Node(t, l, j)}
  <1> /\ k \in Nat /\ m \in Nat /\ n \in Nat /\ k <= m + 1 /\ k <= n + 1
      /\ IsLayer(s, m + 1) /\ IsLayer(t, n + 1)
      /\ \A j \in 0 .. k - 1 : s[j + 1] = t[j + 1]
    BY DEF AgreeUpTo
  <1>1. 0 \in Good
    BY NodeZero, AncestorStep, TreeDepthAssumption
  <1>2. ASSUME NEW l \in 1 .. TreeDepth, l - 1 \in Good PROVE l \in Good
    <2>1. /\ Ancestor(k, l) = Ancestor(k, l - 1) \div 2 /\ Ancestor(k, l - 1) \in Nat
          /\ Ancestor(m, l) = Ancestor(m, l - 1) \div 2 /\ Ancestor(m, l - 1) \in Nat
          /\ Ancestor(n, l) = Ancestor(n, l - 1) \div 2 /\ Ancestor(n, l - 1) \in Nat
      BY AncestorStep, TreeDepthAssumption
    <2>2. /\ Ancestor(k, l - 1) <= Ancestor(m, l - 1) + 1 /\ Ancestor(k, l - 1) <= Ancestor(n, l - 1) + 1
          /\ \A j \in 0 .. Ancestor(k, l - 1) - 1 : Node(s, l - 1, j) = Node(t, l - 1, j)
      BY <1>2
    <2>3. Ancestor(k, l) <= Ancestor(m, l) + 1 /\ Ancestor(k, l) <= Ancestor(n, l) + 1
      BY <2>1, <2>2
    <2>4. ASSUME NEW j \in 0 .. Ancestor(k, l) - 1 PROVE Node(s, l, j) = Node(t, l, j)
      <3>1. /\ 2 * j \in 0 .. Ancestor(k, l - 1) - 1 /\ 2 * j + 1 \in 0 .. Ancestor(k, l - 1) - 1
            /\ 2 * j + 1 <= Ancestor(m, l - 1) /\ 2 * j + 1 <= Ancestor(n, l - 1)
            /\ j \in 0 .. Ancestor(m, l) /\ j \in 0 .. Ancestor(n, l)
        BY <2>1, <2>2
      <3>2. Node(s, l, j) = Hash3(Node(s, l - 1, 2 * j), Node(s, l - 1, 2 * j + 1), l - 1)
        BY <3>1, NodeStep
      <3>3. Node(t, l, j) = Hash3(Node(t, l - 1, 2 * j), Node(t, l - 1, 2 * j + 1), l - 1)
        BY <3>1, NodeStep
      <3> QED
        BY <2>2, <3>1, <3>2, <3>3
    <2> QED
      BY <2>3, <2>4, TreeDepthAssumption
  <1> HIDE DEF Good
  <1>3. 0 .. TreeDepth \subseteq Good
    BY <1>1, <1>2, LevelInduction, TreeDepthAssumption
  <1> QED
    BY <1>3 DEF Good

\* The last node of a level: where its index is even the last node below has no
\* sibling and passes through.
LEMMA LastNode ==
    ASSUME NEW t, NEW n \in Nat, IsLayer(t, n + 1), NEW l \in 1 .. TreeDepth
    PROVE  LET a == Ancestor(n, l - 1)
           IN  Node(t, l, Ancestor(n, l)) = IF a % 2 = 0 THEN Node(t, l - 1, a)
                                            ELSE Hash3(Node(t, l - 1, a - 1), Node(t, l - 1, a), l - 1)
  <1> DEFINE a == Ancestor(n, l - 1)
  <1>1. a \in Nat /\ Ancestor(n, l) = a \div 2
    BY AncestorStep, TreeDepthAssumption
  <1>2. a \div 2 \in 0 .. Ancestor(n, l)
    BY <1>1
  <1>3. Node(t, l, a \div 2) = IF 2 * (a \div 2) + 1 <= a
                           THEN Hash3(Node(t, l - 1, 2 * (a \div 2)), Node(t, l - 1, 2 * (a \div 2) + 1), l - 1)
                           ELSE Node(t, l - 1, 2 * (a \div 2))
    BY <1>2, NodeStep
  <1> HIDE DEF a
  <1>4. CASE a % 2 = 0
    <2>1. 2 * (a \div 2) = a
      BY <1>1, <1>4
    <2> QED
      BY <1>1, <1>3, <1>4, <2>1 DEF a
  <1>5. CASE a % 2 # 0
    <2>1. 2 * (a \div 2) = a - 1 /\ (a - 1) + 1 = a
      BY <1>1, <1>5
    <2> QED
      BY <1>1, <1>3, <1>5, <2>1 DEF a
  <1> QED
    BY <1>4, <1>5

LEMMA AppendLayer ==
    ASSUME NEW S, NEW s \in Seq(S), NEW x \in S
    PROVE  /\ IsLayer(s, Len(s)) /\ IsLayer(Append(s, x), Len(s) + 1) /\ Len(s) \in Nat
           /\ \A j \in 0 .. Len(s) - 1 : s[j + 1] = Append(s, x)[j + 1]
           /\ Append(s, x)[Len(s) + 1] = x
  BY DEF IsLayer

\* What a new leaf changes: the last node of every level, or a new last node.
LEMMA AppendNodes ==
    ASSUME NEW S, NEW s \in Seq(S), NEW x \in S
    PROVE  \A l \in 0 .. TreeDepth :
              /\ IsLayer(Layer(Append(s, x))[l], Ancestor(Len(s), l) + 1)
              /\ \/ IsLayer(Layer(s)[l], Ancestor(Len(s), l))
                 \/ IsLayer(Layer(s)[l], Ancestor(Len(s), l) + 1)
              /\ \A j \in 0 .. Ancestor(Len(s), l) - 1 : Node(s, l, j) = Node(Append(s, x), l, j)
  <1> DEFINE t == Append(s, x)
  <1> DEFINE n == Len(s)
  <1>1. /\ IsLayer(s, n) /\ IsLayer(t, n + 1) /\ n \in Nat
        /\ \A j \in 0 .. n - 1 : s[j + 1] = t[j + 1]
    BY AppendLayer
  <1> HIDE DEF t, n
  <1>2. \A l \in 0 .. TreeDepth : IsLayer(Layer(t)[l], Ancestor(n, l) + 1)
    BY <1>1, LayerLen
  <1>3. CASE n = 0
    <2>1. \A l \in 0 .. TreeDepth : IsLayer(Layer(s)[l], 0)
      BY <1>1, <1>3, LayerLenEmpty
    <2>2. ASSUME NEW l \in 0 .. TreeDepth PROVE Ancestor(0, l) = 0
      <3> DEFINE P == Pow2[l]
      <3>1. P \in Nat \ {0}
        BY Pow2Positive
      <3> HIDE DEF P
      <3>2. 0 \div P = 0
        BY <3>1
      <3> QED
        BY <3>2 DEF Ancestor, P
    <2> QED
      BY <1>2, <1>3, <2>1, <2>2 DEF t, n
  <1>4. CASE n # 0
    <2> DEFINE m == n - 1
    <2>1. m \in Nat /\ n = m + 1
      BY <1>1, <1>4
    <2> HIDE DEF m
    <2>2. \A l \in 0 .. TreeDepth : IsLayer(Layer(s)[l], Ancestor(m, l) + 1)
      BY <1>1, <2>1, LayerLen
    <2>3. \A l \in 0 .. TreeDepth : Ancestor(n, l) = Ancestor(m, l) \/ Ancestor(n, l) = Ancestor(m, l) + 1
      BY <2>1, AncestorNext
    <2>4. \A l \in 0 .. TreeDepth : \A j \in 0 .. Ancestor(n, l) - 1 : Node(s, l, j) = Node(t, l, j)
      <3>1. AgreeUpTo(n, s, m, t, n)
        BY <1>1, <2>1 DEF AgreeUpTo
      <3> QED
        BY <3>1, SamePrefix
    <2> QED
      BY <1>2, <2>2, <2>3, <2>4 DEF t, n
  <1> QED
    BY <1>3, <1>4

-----------------------------------------------------------------------------
(* merkle::insert                                                          *)

\* What the frontier has to hold after n leaves: wherever the next leaf will come in
\* from the right, the node on its left.
Frontier(side, s, n) ==
    /\ side = [l \in Levels |-> side[l]]
    /\ \A l \in Levels : Ancestor(n, l) % 2 = 1 => side[l] = Node(s, l, Ancestor(n, l) - 1)

LEMMA WalkExists ==
    ASSUME NEW w0
    PROVE  \E f : f = [l \in 0 .. TreeDepth |-> IF l = 0 THEN w0 ELSE LevelStep(f[l - 1], l - 1)]
  <1> DEFINE Good == {n \in Nat : \E f : f = [l \in 0 .. n |-> IF l = 0 THEN w0 ELSE LevelStep(f[l - 1], l - 1)]}
  <1>1. 0 \in Good
    <2> DEFINE f == [l \in 0 .. 0 |-> w0]
    <2>1. f = [l \in 0 .. 0 |-> IF l = 0 THEN w0 ELSE LevelStep(f[l - 1], l - 1)]
      OBVIOUS
    <2> QED
      BY <2>1
  <1>2. ASSUME NEW n \in 1 .. TreeDepth, n - 1 \in Good PROVE n \in Good
    <2>1. PICK f : f = [l \in 0 .. n - 1 |-> IF l = 0 THEN w0 ELSE LevelStep(f[l - 1], l - 1)]
      BY <1>2
    <2> DEFINE g == [l \in 0 .. n |-> IF l = n THEN LevelStep(f[n - 1], n - 1) ELSE f[l]]
    <2>2. ASSUME NEW l \in 0 .. n PROVE g[l] = IF l = 0 THEN w0 ELSE LevelStep(g[l - 1], l - 1)
      BY <2>1
    <2>3. g = [l \in 0 .. n |-> IF l = 0 THEN w0 ELSE LevelStep(g[l - 1], l - 1)]
      BY <2>2
    <2>4. \E h : h = [l \in 0 .. n |-> IF l = 0 THEN w0 ELSE LevelStep(h[l - 1], l - 1)]
      <3> HIDE DEF g
      <3> QED
        BY <2>3
    <2> QED
      BY <2>4
  <1> HIDE DEF Good
  <1>3. 0 .. TreeDepth \subseteq Good
    BY <1>1, <1>2, LevelInduction, TreeDepthAssumption
  <1>4. TreeDepth \in Good
    BY <1>3, TreeDepthAssumption
  <1> QED
    BY <1>4 DEF Good

\* The walk of an insert after l levels: it carries the last node of level l of the
\* new tree, and the side nodes below l are those of the new frontier.
Walked(w, side, t, n, l) ==
    /\ w = [node |-> w.node, index |-> w.index, side |-> w.side, done |-> w.done]
    /\ w.side = [k \in Levels |-> w.side[k]]
    /\ w.done \in BOOLEAN
    /\ w.node = Node(t, l, Ancestor(n, l))
    /\ ~w.done => w.index = Ancestor(n, l)
    /\ w.done => Ancestor(n, l) = 0 /\ Ancestor(n + 1, l) = 0
    /\ \A k \in Levels : k < l /\ Ancestor(n + 1, k) % 2 = 1 => w.side[k] = Node(t, k, Ancestor(n + 1, k) - 1)
    /\ \A k \in Levels : k >= l => w.side[k] = side[k]

LEMMA WalkStep ==
    ASSUME NEW t, NEW n \in Nat, IsLayer(t, n + 1), NEW side, NEW w, NEW l \in 1 .. TreeDepth,
           \A k \in Levels : Ancestor(n, k) % 2 = 1 => side[k] = Node(t, k, Ancestor(n, k) - 1),
           Walked(w, side, t, n, l - 1)
    PROVE  Walked(LevelStep(w, l - 1), side, t, n, l)
  <1> DEFINE a == Ancestor(n, l - 1)
  <1> DEFINE b == Ancestor(n + 1, l - 1)
  <1>1. /\ a \in Nat /\ Ancestor(n, l) = a \div 2 /\ b \in Nat /\ Ancestor(n + 1, l) = b \div 2
        /\ l - 1 \in Levels /\ l - 1 \in 0 .. TreeDepth
    BY AncestorStep, TreeDepthAssumption DEF Levels
  <1>2. b = a \/ b = a + 1
    BY <1>1, AncestorNext
  <1>3. Node(t, l, Ancestor(n, l)) = IF a % 2 = 0 THEN Node(t, l - 1, a)
                                     ELSE Hash3(Node(t, l - 1, a - 1), Node(t, l - 1, a), l - 1)
    BY LastNode
  <1>4. a % 2 = 1 => side[l - 1] = Node(t, l - 1, a - 1)
    BY <1>1
  <1>w. /\ w = [node |-> w.node, index |-> w.index, side |-> w.side, done |-> w.done]
        /\ w.side = [k \in Levels |-> w.side[k]]
        /\ w.done \in BOOLEAN
        /\ w.node = Node(t, l - 1, a)
        /\ ~w.done => w.index = a
        /\ w.done => a = 0 /\ b = 0
        /\ \A k \in Levels : k < l - 1 /\ Ancestor(n + 1, k) % 2 = 1 => w.side[k] = Node(t, k, Ancestor(n + 1, k) - 1)
        /\ \A k \in Levels : k >= l - 1 => w.side[k] = side[k]
    BY DEF Walked
  <1>b. Levels \subseteq Int /\ a % 2 \in {0, 1}
    BY <1>1, TreeDepthAssumption DEF Levels
  <1>5. CASE w.done
    <2>1. LevelStep(w, l - 1) = w
      BY <1>5 DEF LevelStep
    <2>2. a = 0 /\ b = 0 /\ Ancestor(n, l) = 0 /\ Ancestor(n + 1, l) = 0
      BY <1>1, <1>5, <1>w
    <2>3. w.node = Node(t, l, Ancestor(n, l))
      BY <1>3, <1>w, <2>2
    <2>4. \A k \in Levels : k < l /\ Ancestor(n + 1, k) % 2 = 1 => w.side[k] = Node(t, k, Ancestor(n + 1, k) - 1)
      BY <1>b, <1>w, <2>2
    <2>5. \A k \in Levels : k >= l => w.side[k] = side[k]
      BY <1>b, <1>w
    <2> QED
      BY <1>5, <1>w, <2>1, <2>2, <2>3, <2>4, <2>5 DEF Walked
  <1>6. CASE ~w.done /\ a % 2 = 0
    <2> DEFINE v == LevelStep(w, l - 1)
    <2>1. v = [w EXCEPT !.side[l - 1] = w.node, !.done = (w.index = 0), !.index = w.index \div 2]
      BY <1>6, <1>w DEF LevelStep
    <2>2. /\ v = [node |-> v.node, index |-> v.index, side |-> v.side, done |-> v.done]
          /\ v.node = w.node /\ v.index = a \div 2 /\ v.done = (a = 0)
          /\ v.side = [w.side EXCEPT ![l - 1] = w.node]
      BY <1>6, <1>w, <2>1
    <2> HIDE DEF v
    <2>3. v.side = [k \in Levels |-> v.side[k]]
      BY <1>w, <2>2
    <2>4. v.node = Node(t, l, Ancestor(n, l))
      BY <1>3, <1>6, <1>w, <2>2
    <2>5. v.done => Ancestor(n, l) = 0 /\ Ancestor(n + 1, l) = 0
      <3>1. v.done => a = 0
        BY <2>2
      <3>2. a = 0 => a \div 2 = 0 /\ b \div 2 = 0
        BY <1>2
      <3> QED
        BY <1>1, <3>1, <3>2
    <2>6. ASSUME NEW k \in Levels, k < l, Ancestor(n + 1, k) % 2 = 1
          PROVE  v.side[k] = Node(t, k, Ancestor(n + 1, k) - 1)
      <3>1. CASE k = l - 1
        <4>1. b = a + 1
          BY <1>1, <1>2, <1>6, <2>6, <3>1
        <4> QED
          BY <1>1, <1>w, <2>2, <3>1, <4>1
      <3>2. CASE k # l - 1
        BY <1>b, <1>w, <2>2, <2>6, <3>2
      <3> QED
        BY <3>1, <3>2
    <2>7. \A k \in Levels : k >= l => v.side[k] = side[k]
      BY <1>b, <1>w, <2>2
    <2> QED
      BY <1>1, <2>2, <2>3, <2>4, <2>5, <2>6, <2>7 DEF Walked, v
  <1>7. CASE ~w.done /\ a % 2 = 1
    <2> DEFINE v == LevelStep(w, l - 1)
    <2>1. v = [w EXCEPT !.node = Hash3(w.side[l - 1], w.node, l - 1), !.index = w.index \div 2]
      BY <1>7, <1>w DEF LevelStep
    <2>2. /\ v = [node |-> v.node, index |-> v.index, side |-> v.side, done |-> v.done]
          /\ v.node = Hash3(w.side[l - 1], w.node, l - 1) /\ v.index = a \div 2 /\ v.done = FALSE
          /\ v.side = w.side
      BY <1>7, <1>w, <2>1
    <2> HIDE DEF v
    <2>3. w.side[l - 1] = Node(t, l - 1, a - 1)
      BY <1>1, <1>4, <1>7, <1>w
    <2>4. v.node = Node(t, l, Ancestor(n, l))
      BY <1>3, <1>7, <1>w, <2>2, <2>3
    <2>6. ASSUME NEW k \in Levels, k < l, Ancestor(n + 1, k) % 2 = 1
          PROVE  v.side[k] = Node(t, k, Ancestor(n + 1, k) - 1)
      <3>1. CASE k = l - 1
        <4>1. b = a
          BY <1>1, <1>2, <1>7, <2>6, <3>1
        <4> QED
          BY <1>1, <1>w, <2>2, <2>3, <3>1, <4>1
      <3>2. CASE k # l - 1
        BY <1>b, <1>w, <2>2, <2>6, <3>2
      <3> QED
        BY <3>1, <3>2
    <2>7. \A k \in Levels : k >= l => v.side[k] = side[k]
      BY <1>b, <1>w, <2>2
    <2> QED
      BY <1>1, <1>w, <2>2, <2>4, <2>6, <2>7 DEF Walked, v
  <1> QED
    BY <1>5, <1>6, <1>7, <1>b

\* An insert on a right frontier returns the root of the tree with the new leaf, and
\* leaves a right frontier behind.
LEMMA InsertWalk ==
    ASSUME NEW S, NEW s \in Seq(S), NEW x \in S, NEW side, Frontier(side, s, Len(s)), Len(s) < Capacity
    PROVE  /\ FrontierWalk(side, x, Len(s)).node = ReferenceRoot(Append(s, x))
           /\ Frontier(FrontierWalk(side, x, Len(s)).side, Append(s, x), Len(s) + 1)
  <1> DEFINE t == Append(s, x)
  <1> DEFINE n == Len(s)
  <1> DEFINE w0 == [node |-> x, index |-> n, side |-> side, done |-> FALSE]
  <1>1. IsLayer(t, n + 1) /\ n \in Nat /\ t[n + 1] = x /\ Ancestor(n, 0) = n
    BY AppendLayer, AncestorStep
  <1>2. PICK f : /\ f = [l \in 0 .. TreeDepth |-> IF l = 0 THEN w0 ELSE LevelStep(f[l - 1], l - 1)]
                 /\ FrontierWalk(side, x, n) = f[TreeDepth]
    BY WalkExists DEF FrontierWalk
  <1>f. f[0] = w0 /\ \A l \in 1 .. TreeDepth : f[l] = LevelStep(f[l - 1], l - 1)
    <2> HIDE DEF w0
    <2> QED
      BY <1>2, TreeDepthAssumption
  <1>3. \A k \in Levels : Ancestor(n, k) % 2 = 1 => side[k] = Node(t, k, Ancestor(n, k) - 1)
    <2> SUFFICES ASSUME NEW k \in Levels, Ancestor(n, k) % 2 = 1
                 PROVE  side[k] = Node(t, k, Ancestor(n, k) - 1)
      OBVIOUS
    <2>0. k \in 0 .. TreeDepth
      BY TreeDepthAssumption DEF Levels
    <2>1. Ancestor(n, k) \in Nat
      BY <1>1, <2>0, AncestorStep
    <2>3. Ancestor(n, k) - 1 \in 0 .. Ancestor(n, k) - 1
      BY <2>1
    <2>2. Node(s, k, Ancestor(n, k) - 1) = Node(t, k, Ancestor(n, k) - 1)
      BY <2>0, <2>3, AppendNodes
    <2> QED
      BY <2>2 DEF Frontier
  <1>4. side = [l \in Levels |-> side[l]]
    BY DEF Frontier
  <1> DEFINE Good == {l \in 0 .. TreeDepth : Walked(f[l], side, t, n, l)}
  <1>5. 0 \in Good
    <2>1. f[0] = w0
      BY <1>f
    <2>2. Node(t, 0, Ancestor(n, 0)) = x
      BY <1>1, NodeZero
    <2>3. \A k \in Levels : ~(k < 0)
      BY TreeDepthAssumption DEF Levels
    <2>4. Walked(w0, side, t, n, 0)
      BY <1>1, <1>4, <2>2, <2>3 DEF Walked
    <2> QED
      BY <2>1, <2>4, TreeDepthAssumption
  <1>6. ASSUME NEW l \in 1 .. TreeDepth, l - 1 \in Good PROVE l \in Good
    <2>1. f[l] = LevelStep(f[l - 1], l - 1)
      BY <1>f
    <2>2. Walked(f[l - 1], side, t, n, l - 1)
      BY <1>6
    <2>3. Walked(LevelStep(f[l - 1], l - 1), side, t, n, l)
      <3> HIDE DEF t, n, Good
      <3> QED
        BY <1>1, <1>3, <2>2, WalkStep
    <2> QED
      BY <2>1, <2>3, TreeDepthAssumption
  <1>7. TreeDepth \in Good
    <2> HIDE DEF Good
    <2> QED
      BY <1>5, <1>6, LevelInduction, TreeDepthAssumption
  <1>8. Walked(FrontierWalk(side, x, n), side, t, n, TreeDepth)
    BY <1>2, <1>7
  <1>9. Ancestor(n, TreeDepth) = 0
    BY <1>1, AncestorTop
  <1>10. FrontierWalk(side, x, n).node = ReferenceRoot(t)
    BY <1>8, <1>9 DEF Walked, ReferenceRoot, Node
  <1>11. Frontier(FrontierWalk(side, x, n).side, t, n + 1)
    <2>1. \A k \in Levels : k < TreeDepth
      BY TreeDepthAssumption DEF Levels
    <2> HIDE DEF t, n
    <2> QED
      BY <1>8, <2>1 DEF Walked, Frontier
  <1> QED
    BY <1>10, <1>11

-----------------------------------------------------------------------------
(* The pool: the frontier and the history of roots                         *)

Prefix(s, k) == SubSeq(s, 1, k)

PoolOK ==
    /\ leaves \in Seq(Leaves \ {ZeroRoot})
    /\ Len(leaves) = nextLeafIndex /\ nextLeafIndex <= Capacity
    /\ Frontier(sideNodes, leaves, nextLeafIndex)
    /\ rootHistory = [k \in 1 .. nextLeafIndex |-> ReferenceRoot(Prefix(leaves, k))]

LEMMA PrefixFacts ==
    ASSUME NEW S, NEW s \in Seq(S), NEW x \in S
    PROVE  /\ Prefix(s, Len(s)) = s
           /\ \A k \in 0 .. Len(s) : /\ Prefix(s, k) \in Seq(S) /\ Len(Prefix(s, k)) = k
                                     /\ Prefix(Append(s, x), k) = Prefix(s, k)
                                     /\ \A j \in 1 .. k : Prefix(s, k)[j] = s[j]
           /\ \A k \in 1 .. Len(s) : Prefix(s, k) = Append(Prefix(s, k - 1), s[k])
  <1>1. Prefix(s, Len(s)) = s
    BY DEF Prefix
  <1>2. ASSUME NEW k \in 0 .. Len(s)
        PROVE  /\ Prefix(s, k) \in Seq(S) /\ Len(Prefix(s, k)) = k
               /\ Prefix(Append(s, x), k) = Prefix(s, k)
               /\ \A j \in 1 .. k : Prefix(s, k)[j] = s[j]
    <2>1. Prefix(s, k) \in Seq(S) /\ Len(Prefix(s, k)) = k
      BY DEF Prefix
    <2>2. \A j \in 1 .. k : Prefix(s, k)[j] = s[j]
      BY DEF Prefix
    <2>3. Prefix(Append(s, x), k) = Prefix(s, k)
      BY DEF Prefix
    <2> QED
      BY <2>1, <2>2, <2>3
  <1>3. ASSUME NEW k \in 1 .. Len(s) PROVE Prefix(s, k) = Append(Prefix(s, k - 1), s[k])
    BY DEF Prefix
  <1> QED
    BY <1>1, <1>2, <1>3

LEMMA CapacityNat == Capacity \in Nat \ {0}
  BY Pow2Positive, TreeDepthAssumption DEF Capacity

LEMMA InitPool == Init => PoolOK
  <1> SUFFICES ASSUME Init PROVE PoolOK
    OBVIOUS
  <1>1. leaves \in Seq(Leaves \ {ZeroRoot}) /\ Len(leaves) = nextLeafIndex /\ nextLeafIndex <= Capacity
    BY CapacityNat DEF Init
  <1>2. Frontier(sideNodes, leaves, nextLeafIndex)
    <2>1. ASSUME NEW l \in Levels PROVE Ancestor(0, l) % 2 # 1
      <3> DEFINE P == Pow2[l]
      <3>1. P \in Nat \ {0}
        BY Pow2Positive, TreeDepthAssumption DEF Levels
      <3> HIDE DEF P
      <3>2. (0 \div P) % 2 = 0
        BY <3>1
      <3> QED
        BY <3>2 DEF Ancestor, P
    <2> QED
      BY <2>1 DEF Init, Frontier
  <1>3. rootHistory = [k \in 1 .. nextLeafIndex |-> ReferenceRoot(Prefix(leaves, k))]
    BY DEF Init
  <1> QED
    BY <1>1, <1>2, <1>3 DEF PoolOK

LEMMA InsertPool ==
    ASSUME PoolOK, NEW leaf \in Leaves, Insert(leaf) PROVE PoolOK'
  <1> DEFINE S == Leaves \ {ZeroRoot}
  <1> DEFINE n == nextLeafIndex
  <1>1. leaf \in S /\ leaves \in Seq(S) /\ Len(leaves) = n /\ n < Capacity /\ n \in Nat
    BY CapacityNat DEF PoolOK, Insert
  <1>2. /\ FrontierWalk(sideNodes, leaf, n).node = ReferenceRoot(Append(leaves, leaf))
        /\ Frontier(FrontierWalk(sideNodes, leaf, n).side, Append(leaves, leaf), n + 1)
    <2>1. Frontier(sideNodes, leaves, Len(leaves)) /\ Len(leaves) < Capacity
      BY <1>1 DEF PoolOK
    <2> HIDE DEF S
    <2> QED
      BY <1>1, <2>1, InsertWalk
  <1>3. /\ leaves' = Append(leaves, leaf) /\ nextLeafIndex' = n + 1
        /\ sideNodes' = FrontierWalk(sideNodes, leaf, n).side
        /\ rootHistory' = Append(rootHistory, ReferenceRoot(Append(leaves, leaf)))
    BY <1>2 DEF Insert
  <1>4. leaves' \in Seq(S) /\ Len(leaves') = n + 1 /\ n + 1 <= Capacity
    BY <1>1, <1>3, CapacityNat
  <1>5. rootHistory' = [k \in 1 .. n + 1 |-> ReferenceRoot(Prefix(leaves', k))]
    <2> DEFINE R(k) == ReferenceRoot(Prefix(leaves, k))
    <2> DEFINE Q(k) == ReferenceRoot(Prefix(Append(leaves, leaf), k))
    <2>1. \A k \in 1 .. n : Q(k) = R(k)
      BY <1>1, PrefixFacts
    <2>2. Q(n + 1) = ReferenceRoot(Append(leaves, leaf))
      <3>1. Append(leaves, leaf) \in Seq(S) /\ Len(Append(leaves, leaf)) = n + 1
        BY <1>1
      <3>2. Prefix(Append(leaves, leaf), n + 1) = Append(leaves, leaf)
        BY <1>1, <3>1, PrefixFacts
      <3> QED
        BY <3>2
    <2>3. rootHistory = [k \in 1 .. n |-> R(k)]
      BY DEF PoolOK
    <2> HIDE DEF R, Q
    <2>4. Append(rootHistory, Q(n + 1)) = [k \in 1 .. n + 1 |-> Q(k)]
      <3>1. rootHistory \in Seq({R(k) : k \in 1 .. n}) /\ Len(rootHistory) = n
        BY <1>1, <2>3
      <3> QED
        BY <1>1, <2>1, <2>3, <3>1
    <2> QED
      BY <1>3, <2>2, <2>4 DEF Q
  <1> QED
    BY <1>2, <1>3, <1>4, <1>5 DEF PoolOK

-----------------------------------------------------------------------------
(* The mirror                                                              *)

\* The hash the code uses is taken to be ideal.  The first half, that no hash is the
\* zero word, is what the mirror and the paths need; membership and the log need that
\* a hash is no leaf and determines its two children and its level as well.
NoZeroHash == \A x, y, level : Hash3(x, y, level) # ZeroRoot

CollisionFree ==
    /\ NoZeroHash
    /\ \A x, y, level : Hash3(x, y, level) \notin Leaves
    /\ \A x, y, k, u, v, l : Hash3(x, y, k) = Hash3(u, v, l) => x = u /\ y = v /\ k = l

\* No node of the tree is the word that stands for a missing one.
LEMMA NodesNonZero ==
    ASSUME NoZeroHash, NEW s, NEW n \in Nat, IsLayer(s, n + 1), \A j \in 0 .. n : s[j + 1] # ZeroRoot
    PROVE  \A l \in 0 .. TreeDepth : \A j \in 0 .. Ancestor(n, l) : Node(s, l, j) # ZeroRoot
  <1> DEFINE Good == {l \in 0 .. TreeDepth : \A j \in 0 .. Ancestor(n, l) : Node(s, l, j) # ZeroRoot}
  <1>1. 0 \in Good
    BY NodeZero, AncestorStep, TreeDepthAssumption
  <1>2. ASSUME NEW l \in 1 .. TreeDepth, l - 1 \in Good PROVE l \in Good
    <2>1. Ancestor(n, l) = Ancestor(n, l - 1) \div 2 /\ Ancestor(n, l - 1) \in Nat
      BY AncestorStep, TreeDepthAssumption
    <2>2. ASSUME NEW j \in 0 .. Ancestor(n, l) PROVE Node(s, l, j) # ZeroRoot
      <3>1. 2 * j \in 0 .. Ancestor(n, l - 1)
        BY <2>1
      <3>2. Node(s, l - 1, 2 * j) # ZeroRoot
        BY <1>2, <3>1
      <3>3. Node(s, l, j) = IF 2 * j + 1 <= Ancestor(n, l - 1)
                           THEN Hash3(Node(s, l - 1, 2 * j), Node(s, l - 1, 2 * j + 1), l - 1)
                           ELSE Node(s, l - 1, 2 * j)
        BY NodeStep
      <3> QED
        BY <3>2, <3>3 DEF NoZeroHash
    <2> QED
      BY <2>2, TreeDepthAssumption
  <1> HIDE DEF Good
  <1>3. 0 .. TreeDepth \subseteq Good
    BY <1>1, <1>2, LevelInduction, TreeDepthAssumption
  <1> QED
    BY <1>3 DEF Good

\* The levels the mirror has to hold for the leaves s, and those it holds after it
\* has stored the new nodes up to level l.
MirrorLevel(s, l) == [j \in 0 .. Len(Layer(s)[l]) - 1 |-> Node(s, l, j)]
MirrorOf(s) == [l \in 0 .. TreeDepth |-> MirrorLevel(s, l)]
Extended(s, t, l, a) ==
    [k \in DOMAIN MirrorLevel(s, l) \union {a} |-> IF k = a THEN Node(t, l, a) ELSE MirrorLevel(s, l)[k]]
Mixed(s, t, l) == [k \in 0 .. TreeDepth |-> IF k <= l THEN MirrorLevel(t, k) ELSE MirrorLevel(s, k)]

LEMMA MirrorLevelDef ==
    ASSUME NEW s, NEW l, NEW k \in Nat, IsLayer(Layer(s)[l], k)
    PROVE  MirrorLevel(s, l) = [j \in 0 .. k - 1 |-> Node(s, l, j)]
  BY DEF MirrorLevel, IsLayer

LEMMA SetLevel ==
    ASSUME NEW S, NEW s \in Seq(S), NEW x \in S, NEW l \in 0 .. TreeDepth, NEW a, a = Ancestor(Len(s), l)
    PROVE  Extended(s, Append(s, x), l, a) = MirrorLevel(Append(s, x), l)
  <1> DEFINE t == Append(s, x)
  <1>1. a \in Nat
    BY AncestorStep, AppendLayer
  <1>2. /\ IsLayer(Layer(t)[l], a + 1)
        /\ IsLayer(Layer(s)[l], a) \/ IsLayer(Layer(s)[l], a + 1)
        /\ \A j \in 0 .. a - 1 : Node(s, l, j) = Node(t, l, j)
    BY AppendNodes
  <1> HIDE DEF t
  <1>3. MirrorLevel(t, l) = [j \in 0 .. (a + 1) - 1 |-> Node(t, l, j)]
    BY <1>1, <1>2, MirrorLevelDef
  <1>4. CASE IsLayer(Layer(s)[l], a)
    <2>1. MirrorLevel(s, l) = [j \in 0 .. a - 1 |-> Node(s, l, j)]
      BY <1>1, <1>4, MirrorLevelDef
    <2>2. (0 .. a - 1) \union {a} = 0 .. (a + 1) - 1
      BY <1>1
    <2> QED
      BY <1>1, <1>2, <1>3, <2>1, <2>2 DEF t, Extended
  <1>5. CASE IsLayer(Layer(s)[l], a + 1)
    <2>1. MirrorLevel(s, l) = [j \in 0 .. (a + 1) - 1 |-> Node(s, l, j)]
      BY <1>1, <1>5, MirrorLevelDef
    <2>2. (0 .. (a + 1) - 1) \union {a} = 0 .. (a + 1) - 1
      BY <1>1
    <2> QED
      BY <1>1, <1>2, <1>3, <2>1, <2>2 DEF t, Extended
  <1> QED
    BY <1>2, <1>4, <1>5

IsMirrorWalk(f, w0, i) ==
    f = [l \in 0 .. TreeDepth |-> IF l = 0 THEN w0 ELSE MirrorStep(f[l - 1], i, l - 1)]

LEMMA MirrorExists ==
    ASSUME NEW w0, NEW i PROVE \E f : IsMirrorWalk(f, w0, i)
  <1> DEFINE Good == {n \in Nat : \E f : f = [l \in 0 .. n |-> IF l = 0 THEN w0 ELSE MirrorStep(f[l - 1], i, l - 1)]}
  <1>1. 0 \in Good
    <2> DEFINE f == [l \in 0 .. 0 |-> w0]
    <2>1. f = [l \in 0 .. 0 |-> IF l = 0 THEN w0 ELSE MirrorStep(f[l - 1], i, l - 1)]
      OBVIOUS
    <2> QED
      BY <2>1
  <1>2. ASSUME NEW n \in 1 .. TreeDepth, n - 1 \in Good PROVE n \in Good
    <2>1. PICK f : f = [l \in 0 .. n - 1 |-> IF l = 0 THEN w0 ELSE MirrorStep(f[l - 1], i, l - 1)]
      BY <1>2
    <2> DEFINE g == [l \in 0 .. n |-> IF l = n THEN MirrorStep(f[n - 1], i, n - 1) ELSE f[l]]
    <2>2. ASSUME NEW l \in 0 .. n PROVE g[l] = IF l = 0 THEN w0 ELSE MirrorStep(g[l - 1], i, l - 1)
      BY <2>1
    <2>3. g = [l \in 0 .. n |-> IF l = 0 THEN w0 ELSE MirrorStep(g[l - 1], i, l - 1)]
      BY <2>2
    <2>4. \E h : h = [l \in 0 .. n |-> IF l = 0 THEN w0 ELSE MirrorStep(h[l - 1], i, l - 1)]
      <3> HIDE DEF g
      <3> QED
        BY <2>3
    <2> QED
      BY <2>4
  <1> HIDE DEF Good
  <1>3. 0 .. TreeDepth \subseteq Good
    BY <1>1, <1>2, LevelInduction, TreeDepthAssumption
  <1>4. TreeDepth \in Good
    BY <1>3, TreeDepthAssumption
  <1> QED
    BY <1>4 DEF Good, IsMirrorWalk

\* Storing the new node of the next level.
LEMMA MixedStore ==
    ASSUME NEW S, NEW s \in Seq(S), NEW x \in S, NEW l \in 1 .. TreeDepth, NEW a, a = Ancestor(Len(s), l)
    PROVE  SetNode(Mixed(s, Append(s, x), l - 1), l, a, Node(Append(s, x), l, a)) = Mixed(s, Append(s, x), l)
  <1> DEFINE t == Append(s, x)
  <1> DEFINE lv == Mixed(s, t, l - 1)
  <1> DEFINE new == Extended(s, t, l, a)
  <1>0. l \in 0 .. TreeDepth
    BY TreeDepthAssumption
  <1>1. new = MirrorLevel(t, l)
    BY <1>0, SetLevel
  <1>2. lv[l] = MirrorLevel(s, l)
    BY <1>0, TreeDepthAssumption DEF Mixed
  <1>3. SetNode(lv, l, a, Node(t, l, a)) = [lv EXCEPT ![l] = new]
    BY <1>2 DEF SetNode, Extended
  <1> HIDE DEF t, new
  <1>4. [lv EXCEPT ![l] = new] = Mixed(s, t, l)
    <2>1. ASSUME NEW k \in 0 .. TreeDepth
          PROVE  [lv EXCEPT ![l] = new][k] = Mixed(s, t, l)[k]
      BY <1>0, <1>1, TreeDepthAssumption DEF Mixed
    <2>2. DOMAIN lv = 0 .. TreeDepth /\ DOMAIN Mixed(s, t, l) = 0 .. TreeDepth
      BY DEF Mixed
    <2>3. Mixed(s, t, l) = [k \in 0 .. TreeDepth |-> Mixed(s, t, l)[k]]
      BY DEF Mixed
    <2> HIDE DEF lv
    <2> QED
      BY <2>1, <2>2, <2>3
  <1> QED
    BY <1>3, <1>4 DEF t

LEMMA MirrorStepOK ==
    ASSUME NoZeroHash, NEW S, ZeroRoot \notin S, NEW s \in Seq(S), NEW x \in S, NEW l \in 1 .. TreeDepth
    PROVE  MirrorStep(Mixed(s, Append(s, x), l - 1), Len(s), l - 1) = Mixed(s, Append(s, x), l)
  <1> DEFINE t == Append(s, x)
  <1> DEFINE n == Len(s)
  <1> DEFINE a == Ancestor(n, l - 1)
  <1> DEFINE lv == Mixed(s, t, l - 1)
  <1>1. n \in Nat /\ IsLayer(t, n + 1) /\ \A j \in 0 .. n : t[j + 1] # ZeroRoot
    <2>1. t \in Seq(S) /\ Len(t) = n + 1
      OBVIOUS
    <2>2. ASSUME NEW j \in 0 .. n PROVE t[j + 1] # ZeroRoot
      BY <2>1
    <2> QED
      BY <2>2, AppendLayer
  <1>2. a \in Nat /\ Ancestor(n, l) = a \div 2 /\ l - 1 \in 0 .. TreeDepth
    <2> HIDE DEF n
    <2>1. l - 1 \in 0 .. TreeDepth
      BY TreeDepthAssumption
    <2> QED
      BY <1>1, <2>1, AncestorStep
  <1>3. \A j \in 0 .. a : Node(t, l - 1, j) # ZeroRoot
    <2> HIDE DEF t, n
    <2> QED
      BY <1>1, <1>2, NodesNonZero
  <1>4. lv[l - 1] = [j \in 0 .. (a + 1) - 1 |-> Node(t, l - 1, j)]
    <2>1. IsLayer(Layer(t)[l - 1], a + 1)
      BY <1>2, AppendNodes
    <2>2. lv[l - 1] = MirrorLevel(t, l - 1)
      BY <1>2, TreeDepthAssumption DEF Mixed
    <2> HIDE DEF t, a, lv
    <2> QED
      BY <1>2, <2>1, <2>2, MirrorLevelDef
  <1>5. Node(t, l, Ancestor(n, l)) = IF a % 2 = 0 THEN Node(t, l - 1, a)
                                     ELSE Hash3(Node(t, l - 1, a - 1), Node(t, l - 1, a), l - 1)
    BY <1>1, LastNode
  <1>6. SetNode(lv, l, a \div 2, Node(t, l, a \div 2)) = Mixed(s, t, l)
    BY <1>2, MixedStore
  <1> HIDE DEF t, n, a, lv
  <1>7. CASE a % 2 = 0
    <2>1. lv[l - 1][a] = Node(t, l - 1, a) /\ SiblingIndex(a) = a + 1 /\ NodeAt(lv, l - 1, a + 1) = ZeroRoot
      BY <1>2, <1>4, <1>7 DEF NodeAt, SiblingIndex
    <2>2. MirrorStep(lv, n, l - 1) = SetNode(lv, (l - 1) + 1, a \div 2, Node(t, l - 1, a))
      BY <1>7, <2>1 DEF MirrorStep, a, ParentNode
    <2> QED
      BY <1>2, <1>5, <1>6, <1>7, <2>2 DEF t, n, lv
  <1>8. CASE a % 2 # 0
    <2>1. a - 1 \in 0 .. a /\ a \in 0 .. a
      BY <1>2, <1>8
    <2>2. /\ lv[l - 1][a] = Node(t, l - 1, a) /\ SiblingIndex(a) = a - 1
          /\ NodeAt(lv, l - 1, a - 1) = Node(t, l - 1, a - 1)
      BY <1>2, <1>4, <1>8, <2>1 DEF NodeAt, SiblingIndex
    <2>3. Node(t, l - 1, a) # ZeroRoot /\ Node(t, l - 1, a - 1) # ZeroRoot
      BY <1>3, <2>1
    <2>4. MirrorStep(lv, n, l - 1)
             = SetNode(lv, (l - 1) + 1, a \div 2, Hash3(Node(t, l - 1, a - 1), Node(t, l - 1, a), l - 1))
      BY <1>8, <2>2, <2>3 DEF MirrorStep, a, ParentNode
    <2> QED
      BY <1>2, <1>5, <1>6, <1>8, <2>4 DEF t, n, lv
  <1> QED
    BY <1>7, <1>8

\* The mirror's insert turns the levels for s into the levels for s and the new leaf.
LEMMA MirrorWalkOK ==
    ASSUME NoZeroHash, NEW S, ZeroRoot \notin S, NEW s \in Seq(S), NEW x \in S
    PROVE  MirrorWalk(MirrorOf(s), x, Len(s)) = MirrorOf(Append(s, x))
  <1> DEFINE t == Append(s, x)
  <1> DEFINE n == Len(s)
  <1> DEFINE w0 == SetNode(MirrorOf(s), 0, n, x)
  <1>1. PICK f : /\ f = [l \in 0 .. TreeDepth |-> IF l = 0 THEN w0 ELSE MirrorStep(f[l - 1], n, l - 1)]
                 /\ MirrorWalk(MirrorOf(s), x, n) = f[TreeDepth]
    <2>1. \E f : IsMirrorWalk(f, w0, n)
      BY MirrorExists
    <2> QED
      BY <2>1 DEF MirrorWalk, IsMirrorWalk
  <1>2. f[0] = w0 /\ \A l \in 1 .. TreeDepth : f[l] = MirrorStep(f[l - 1], n, l - 1)
    <2> HIDE DEF w0, n
    <2> QED
      BY <1>1, TreeDepthAssumption
  <1> DEFINE Good == {l \in 0 .. TreeDepth : f[l] = Mixed(s, t, l)}
  <1>3. 0 \in Good
    <2>1. n \in Nat /\ t[n + 1] = x
      BY AppendLayer
    <2>2. n = Ancestor(n, 0) /\ Node(t, 0, n) = x
      <3> HIDE DEF n, t
      <3> QED
        BY <2>1, AncestorStep, NodeZero
    <2> DEFINE new == Extended(s, t, 0, n)
    <2>0. 0 \in 0 .. TreeDepth
      BY TreeDepthAssumption
    <2>3. new = MirrorLevel(t, 0)
      BY <2>0, <2>2, SetLevel
    <2>4. w0 = [MirrorOf(s) EXCEPT ![0] = new]
      BY <2>0, <2>2 DEF SetNode, MirrorOf, Extended
    <2> HIDE DEF new, t, w0
    <2>5. [MirrorOf(s) EXCEPT ![0] = new] = Mixed(s, t, 0)
      BY <2>3, TreeDepthAssumption DEF MirrorOf, Mixed
    <2>6. f[0] = Mixed(s, t, 0)
      BY <1>2, <2>4, <2>5
    <2> QED
      BY <2>0, <2>6
  <1>4. ASSUME NEW l \in 1 .. TreeDepth, l - 1 \in Good PROVE l \in Good
    <2>1. f[l] = MirrorStep(Mixed(s, t, l - 1), n, l - 1)
      BY <1>2, <1>4
    <2>2. MirrorStep(Mixed(s, t, l - 1), n, l - 1) = Mixed(s, t, l)
      BY MirrorStepOK
    <2> QED
      BY <2>1, <2>2, TreeDepthAssumption
  <1>5. TreeDepth \in Good
    <2>1. \A l \in 1 .. TreeDepth : l - 1 \in Good => l \in Good
      BY <1>4
    <2> HIDE DEF Good
    <2>2. 0 .. TreeDepth \subseteq Good
      BY <1>3, <2>1, LevelInduction, TreeDepthAssumption
    <2> QED
      BY <2>2, TreeDepthAssumption
  <1>6. Mixed(s, t, TreeDepth) = MirrorOf(t)
    BY TreeDepthAssumption DEF Mixed, MirrorOf
  <1> QED
    BY <1>1, <1>5, <1>6

-----------------------------------------------------------------------------
(* The fold of a path                                                      *)

PathOf(s, i) == [l \in Levels |-> NodeAt(MirrorOf(s), l, SiblingIndex(Ancestor(i, l)))]

LEMMA SiblingAt ==
    ASSUME NEW s, NEW n \in Nat, IsLayer(s, n + 1), NEW l \in 0 .. TreeDepth, NEW j \in 0 .. Ancestor(n, l)
    PROVE  NodeAt(MirrorOf(s), l, SiblingIndex(j)) =
               IF j % 2 = 1 THEN Node(s, l, j - 1)
               ELSE IF j + 1 <= Ancestor(n, l) THEN Node(s, l, j + 1) ELSE ZeroRoot
  <1> DEFINE a == Ancestor(n, l)
  <1>1. a \in Nat
    BY AncestorStep
  <1>2. IsLayer(Layer(s)[l], a + 1) /\ MirrorOf(s)[l] = MirrorLevel(s, l)
    BY LayerLen DEF MirrorOf
  <1> HIDE DEF a
  <1>3. MirrorOf(s)[l] = [k \in 0 .. (a + 1) - 1 |-> Node(s, l, k)]
    BY <1>1, <1>2, MirrorLevelDef
  <1>4. j \in 0 .. a
    BY DEF a
  <1>5. CASE j % 2 = 1
    <2>1. SiblingIndex(j) = j - 1 /\ j - 1 \in 0 .. (a + 1) - 1
      BY <1>1, <1>4, <1>5 DEF SiblingIndex
    <2> QED
      BY <1>3, <1>5, <2>1 DEF NodeAt
  <1>6. CASE j % 2 # 1
    <2>1. SiblingIndex(j) = j + 1 /\ (j + 1 <= a <=> j + 1 \in 0 .. (a + 1) - 1)
      BY <1>1, <1>4, <1>6 DEF SiblingIndex
    <2> QED
      BY <1>3, <1>6, <2>1 DEF NodeAt, a
  <1> QED
    BY <1>5, <1>6

IsFold(f, leaf, i, path) ==
    f = [l \in 0 .. TreeDepth |->
            IF l = 0 THEN leaf ELSE FoldStep(f[l - 1], Ancestor(i, l - 1) % 2, path[l - 1], l - 1)]

LEMMA FoldExists ==
    ASSUME NEW leaf, NEW i, NEW path PROVE \E f : IsFold(f, leaf, i, path)
  <1> DEFINE Step(x, l) == FoldStep(x, Ancestor(i, l) % 2, path[l], l)
  <1> DEFINE Good == {n \in Nat : \E f : f = [l \in 0 .. n |-> IF l = 0 THEN leaf ELSE Step(f[l - 1], l - 1)]}
  <1> HIDE DEF Step
  <1>1. 0 \in Good
    <2> DEFINE f == [l \in 0 .. 0 |-> leaf]
    <2>1. f = [l \in 0 .. 0 |-> IF l = 0 THEN leaf ELSE Step(f[l - 1], l - 1)]
      OBVIOUS
    <2> QED
      BY <2>1
  <1>2. ASSUME NEW n \in 1 .. TreeDepth, n - 1 \in Good PROVE n \in Good
    <2>1. PICK f : f = [l \in 0 .. n - 1 |-> IF l = 0 THEN leaf ELSE Step(f[l - 1], l - 1)]
      BY <1>2
    <2> DEFINE g == [l \in 0 .. n |-> IF l = n THEN Step(f[n - 1], n - 1) ELSE f[l]]
    <2>2. ASSUME NEW l \in 0 .. n PROVE g[l] = IF l = 0 THEN leaf ELSE Step(g[l - 1], l - 1)
      BY <2>1
    <2>3. g = [l \in 0 .. n |-> IF l = 0 THEN leaf ELSE Step(g[l - 1], l - 1)]
      BY <2>2
    <2>4. \E h : h = [l \in 0 .. n |-> IF l = 0 THEN leaf ELSE Step(h[l - 1], l - 1)]
      <3> HIDE DEF g
      <3> QED
        BY <2>3
    <2> QED
      BY <2>4
  <1> HIDE DEF Good
  <1>3. 0 .. TreeDepth \subseteq Good
    BY <1>1, <1>2, LevelInduction, TreeDepthAssumption
  <1>4. TreeDepth \in Good
    BY <1>3, TreeDepthAssumption
  <1> QED
    BY <1>4 DEF Good, IsFold, Step

\* The path of leaf i, as the mirror serves it, folds through the nodes above i.
LEMMA FoldNode ==
    ASSUME NoZeroHash, NEW s, NEW n \in Nat, IsLayer(s, n + 1), \A j \in 0 .. n : s[j + 1] # ZeroRoot,
           NEW i \in 0 .. n, NEW l \in 1 .. TreeDepth, Ancestor(i, l - 1) <= Ancestor(n, l - 1)
    PROVE  /\ Ancestor(i, l) <= Ancestor(n, l)
           /\ FoldStep(Node(s, l - 1, Ancestor(i, l - 1)), Ancestor(i, l - 1) % 2, PathOf(s, i)[l - 1], l - 1)
                 = Node(s, l, Ancestor(i, l))
  <1> DEFINE a == Ancestor(i, l - 1)
  <1> DEFINE b == Ancestor(n, l - 1)
  <1>1. l - 1 \in 0 .. TreeDepth /\ l - 1 \in Levels /\ i \in Nat
    BY TreeDepthAssumption DEF Levels
  <1>2. a \in Nat /\ b \in Nat /\ a <= b /\ Ancestor(i, l) = a \div 2 /\ Ancestor(n, l) = b \div 2
    BY <1>1, AncestorStep
  <1>3. PathOf(s, i)[l - 1] = IF a % 2 = 1 THEN Node(s, l - 1, a - 1)
                              ELSE IF a + 1 <= b THEN Node(s, l - 1, a + 1) ELSE ZeroRoot
    <2>1. a \in 0 .. Ancestor(n, l - 1)
      BY <1>2
    <2>2. PathOf(s, i)[l - 1] = NodeAt(MirrorOf(s), l - 1, SiblingIndex(a))
      BY <1>1 DEF PathOf
    <2> HIDE DEF a
    <2> QED
      BY <1>1, <2>1, <2>2, SiblingAt
  <1>4. \A j \in 0 .. b : Node(s, l - 1, j) # ZeroRoot
    BY <1>1, NodesNonZero
  <1>5. Node(s, l, a \div 2) = IF 2 * (a \div 2) + 1 <= b
                       THEN Hash3(Node(s, l - 1, 2 * (a \div 2)), Node(s, l - 1, 2 * (a \div 2) + 1), l - 1)
                       ELSE Node(s, l - 1, 2 * (a \div 2))
    <2>1. a \div 2 \in 0 .. Ancestor(n, l)
      BY <1>2
    <2> QED
      BY <2>1, NodeStep
  <1>6. a \div 2 <= b \div 2
    BY <1>2
  <1> DEFINE p == PathOf(s, i)[l - 1]
  <1> HIDE DEF a, b, p
  <1>7. FoldStep(Node(s, l - 1, a), a % 2, p, l - 1) = Node(s, l, a \div 2)
    <2>1. Node(s, l - 1, a) # ZeroRoot
      BY <1>2, <1>4
    <2>2. CASE a % 2 = 1
      <3>1. 2 * (a \div 2) = a - 1 /\ (a - 1) + 1 = a /\ a <= b /\ a - 1 \in 0 .. b
        BY <1>2, <2>2
      <3>2. p = Node(s, l - 1, a - 1) /\ p # ZeroRoot
        BY <1>3, <1>4, <2>2, <3>1 DEF p
      <3>3. Node(s, l, a \div 2) = Hash3(Node(s, l - 1, a - 1), Node(s, l - 1, a), l - 1)
        BY <1>5, <3>1
      <3> QED
        BY <2>1, <2>2, <3>2, <3>3 DEF FoldStep
    <2>3. CASE a % 2 # 1 /\ a + 1 <= b
      <3>1. 2 * (a \div 2) = a /\ a + 1 \in 0 .. b
        BY <1>2, <2>3
      <3>2. p = Node(s, l - 1, a + 1) /\ p # ZeroRoot
        BY <1>3, <1>4, <2>3, <3>1 DEF p
      <3>3. Node(s, l, a \div 2) = Hash3(Node(s, l - 1, a), Node(s, l - 1, a + 1), l - 1)
        BY <1>5, <2>3, <3>1
      <3> QED
        BY <2>1, <2>3, <3>2, <3>3 DEF FoldStep
    <2>4. CASE a % 2 # 1 /\ ~(a + 1 <= b)
      <3>1. 2 * (a \div 2) = a
        BY <1>2, <2>4
      <3>2. p = ZeroRoot
        BY <1>3, <2>4 DEF p
      <3>3. Node(s, l, a \div 2) = Node(s, l - 1, a)
        BY <1>5, <2>4, <3>1
      <3> QED
        BY <2>1, <2>4, <3>2, <3>3 DEF FoldStep
    <2> QED
      BY <2>2, <2>3, <2>4
  <1> QED
    BY <1>2, <1>6, <1>7 DEF a, b, p

LEMMA FoldOK ==
    ASSUME NoZeroHash, NEW s, NEW n \in Nat, IsLayer(s, n + 1), \A j \in 0 .. n : s[j + 1] # ZeroRoot,
           NEW i \in 0 .. n, n < Capacity
    PROVE  FoldPath(s[i + 1], i, PathOf(s, i)) = ReferenceRoot(s)
  <1> DEFINE leaf == s[i + 1]
  <1> DEFINE path == PathOf(s, i)
  <1>1. PICK f : IsFold(f, leaf, i, path) /\ FoldPath(leaf, i, path) = f[TreeDepth]
    <2>1. \E f : IsFold(f, leaf, i, path)
      BY FoldExists
    <2> QED
      BY <2>1 DEF FoldPath, IsFold
  <1> HIDE DEF leaf, path
  <1>2. /\ f[0] = leaf
        /\ \A l \in 1 .. TreeDepth : f[l] = FoldStep(f[l - 1], Ancestor(i, l - 1) % 2, path[l - 1], l - 1)
    BY <1>1, TreeDepthAssumption DEF IsFold
  <1> DEFINE Good == {l \in 0 .. TreeDepth : f[l] = Node(s, l, Ancestor(i, l)) /\ Ancestor(i, l) <= Ancestor(n, l)}
  <1>3. 0 \in Good
    <2>1. Ancestor(i, 0) = i /\ Ancestor(n, 0) = n
      BY AncestorStep
    <2>2. Node(s, 0, i) = leaf
      BY NodeZero DEF leaf
    <2> QED
      BY <1>2, <2>1, <2>2, TreeDepthAssumption
  <1>4. \A l \in 1 .. TreeDepth : l - 1 \in Good => l \in Good
    <2> SUFFICES ASSUME NEW l \in 1 .. TreeDepth, l - 1 \in Good PROVE l \in Good
      OBVIOUS
    <2>1. f[l - 1] = Node(s, l - 1, Ancestor(i, l - 1)) /\ Ancestor(i, l - 1) <= Ancestor(n, l - 1)
      OBVIOUS
    <2>2. /\ Ancestor(i, l) <= Ancestor(n, l)
          /\ FoldStep(Node(s, l - 1, Ancestor(i, l - 1)), Ancestor(i, l - 1) % 2, path[l - 1], l - 1)
                 = Node(s, l, Ancestor(i, l))
      <3> HIDE DEF Good
      <3> QED
        BY <2>1, FoldNode DEF path
    <2>3. f[l] = Node(s, l, Ancestor(i, l))
      BY <1>2, <2>1, <2>2
    <2> QED
      BY <2>2, <2>3, TreeDepthAssumption
  <1>5. f[TreeDepth] = Node(s, TreeDepth, Ancestor(i, TreeDepth))
    <2> HIDE DEF Good
    <2>1. 0 .. TreeDepth \subseteq Good
      BY <1>3, <1>4, LevelInduction, TreeDepthAssumption
    <2>2. TreeDepth \in Good
      BY <2>1, TreeDepthAssumption
    <2> QED
      BY <2>2 DEF Good
  <1>6. Ancestor(i, TreeDepth) = 0
    <2>1. i \in Nat /\ i < Capacity
      BY CapacityNat
    <2> QED
      BY <2>1, AncestorTop
  <1> QED
    BY <1>1, <1>5, <1>6 DEF ReferenceRoot, Node, leaf, path

-----------------------------------------------------------------------------
(* The inductive invariant                                                 *)

MirrorOK ==
    /\ mirrorNext \in 0 .. nextLeafIndex
    /\ levels = MirrorOf(Prefix(leaves, mirrorNext))

\* A path under way is the one of its leaf in the tree of its moment.
WitnessOK ==
    witness.pending =>
        /\ witness.seen \in 1 .. mirrorNext
        /\ witness.index \in 0 .. witness.seen - 1
        /\ witness.siblings = PathOf(Prefix(leaves, witness.seen), witness.index)

LEMMA InitMirror == Init => MirrorOK /\ WitnessOK
  <1> SUFFICES ASSUME Init PROVE MirrorOK /\ WitnessOK
    OBVIOUS
  <1>1. mirrorNext \in 0 .. nextLeafIndex /\ witness.pending = FALSE
    BY DEF Init, NoWitness
  <1>2. levels = MirrorOf(Prefix(leaves, mirrorNext))
    <2> DEFINE s == Prefix(leaves, mirrorNext)
    <2>1. IsLayer(s, 0)
      BY DEF Init, Prefix, IsLayer
    <2> HIDE DEF s
    <2>2. \A l \in 0 .. TreeDepth : IsLayer(Layer(s)[l], 0)
      BY <2>1, LayerLenEmpty
    <2>3. \A l \in 0 .. TreeDepth : MirrorLevel(s, l) = [j \in {} |-> ZeroRoot]
      <3> SUFFICES ASSUME NEW l \in 0 .. TreeDepth PROVE MirrorLevel(s, l) = [j \in {} |-> ZeroRoot]
        OBVIOUS
      <3>1. MirrorLevel(s, l) = [j \in 0 .. 0 - 1 |-> Node(s, l, j)]
        BY <2>2, MirrorLevelDef
      <3>2. 0 .. 0 - 1 = {}
        OBVIOUS
      <3> QED
        BY <3>1, <3>2
    <2>4. levels = [l \in 0 .. TreeDepth |-> [j \in {} |-> ZeroRoot]]
      BY DEF Init
    <2> QED
      BY <2>3, <2>4 DEF MirrorOf, s
  <1> QED
    BY <1>1, <1>2 DEF MirrorOK, WitnessOK

LEMMA StepMirror ==
    ASSUME NoZeroHash, PoolOK, MirrorOK, WitnessOK, [Next]_vars PROVE MirrorOK' /\ WitnessOK'
  <1> DEFINE S == Leaves \ {ZeroRoot}
  <1>0. /\ leaves \in Seq(S) /\ Len(leaves) = nextLeafIndex /\ nextLeafIndex \in Nat
        /\ mirrorNext \in 0 .. nextLeafIndex /\ mirrorNext \in Nat
        /\ levels = MirrorOf(Prefix(leaves, mirrorNext))
    BY DEF PoolOK, MirrorOK
  <1>1. ASSUME NEW leaf \in Leaves, Insert(leaf) PROVE MirrorOK' /\ WitnessOK'
    <2>1. /\ leaf \in S /\ leaves' = Append(leaves, leaf) /\ nextLeafIndex' = nextLeafIndex + 1
          /\ UNCHANGED <<levels, mirrorNext, witness>>
      BY <1>1 DEF Insert, mirrorVars
    <2>2. \A k \in 0 .. nextLeafIndex : Prefix(leaves', k) = Prefix(leaves, k)
      BY <1>0, <2>1, PrefixFacts
    <2>3. MirrorOK'
      BY <1>0, <2>1, <2>2 DEF MirrorOK
    <2>4. ASSUME witness.pending PROVE witness.seen \in 0 .. nextLeafIndex
      BY <1>0, <2>4 DEF WitnessOK
    <2>5. WitnessOK'
      BY <2>1, <2>2, <2>4 DEF WitnessOK
    <2> QED
      BY <2>3, <2>5
  <1>2. ASSUME MirrorInsert PROVE MirrorOK' /\ WitnessOK'
    <2> DEFINE m == mirrorNext
    <2> DEFINE p == Prefix(leaves, m)
    <2> DEFINE x == leaves[m + 1]
    <2>1. /\ m < nextLeafIndex /\ mirrorNext' = m + 1
          /\ UNCHANGED <<leaves, nextLeafIndex, witness>>
          /\ levels' = MirrorWalk(MirrorOf(p), x, m)
      BY <1>0, <1>2 DEF MirrorInsert, poolVars
    <2>2. x \in S /\ m + 1 \in 1 .. Len(leaves) /\ m \in 0 .. Len(leaves)
      BY <1>0, <2>1
    <2>3. p \in Seq(S) /\ Len(p) = m
      BY <1>0, <2>2, PrefixFacts
    <2>4. Prefix(leaves, m + 1) = Append(p, x)
      <3>1. Prefix(leaves, m + 1) = Append(Prefix(leaves, (m + 1) - 1), leaves[m + 1])
        BY <1>0, <2>2, PrefixFacts
      <3>2. (m + 1) - 1 = m
        BY <1>0
      <3> QED
        BY <3>1, <3>2
    <2>5. MirrorWalk(MirrorOf(p), x, Len(p)) = MirrorOf(Append(p, x))
      <3>1. ZeroRoot \notin S
        OBVIOUS
      <3> HIDE DEF S, p, x
      <3> QED
        BY <2>2, <2>3, <3>1, MirrorWalkOK
    <2>6. MirrorOK'
      <3>1. mirrorNext' \in 0 .. nextLeafIndex'
        BY <1>0, <2>1
      <3>2. levels' = MirrorOf(Prefix(leaves, m + 1))
        BY <2>1, <2>3, <2>4, <2>5
      <3>3. levels' = MirrorOf(Prefix(leaves', mirrorNext'))
        BY <2>1, <3>2
      <3> QED
        BY <3>1, <3>3 DEF MirrorOK
    <2>7. WitnessOK'
      BY <1>0, <2>1 DEF WitnessOK
    <2> QED
      BY <2>6, <2>7
  <1>3. ASSUME NEW i \in 0 .. mirrorNext - 1, FetchPath(i) PROVE MirrorOK' /\ WitnessOK'
    <2>1. UNCHANGED <<leaves, nextLeafIndex, levels, mirrorNext>>
      BY <1>3 DEF FetchPath, poolVars, mirrorVars
    <2>2. witness' = [pending |-> TRUE, index |-> i, siblings |-> GetPath(i), seen |-> mirrorNext]
      BY <1>3 DEF FetchPath
    <2>3. GetPath(i) = PathOf(Prefix(leaves, mirrorNext), i)
      BY <1>0 DEF GetPath, PathOf
    <2> QED
      BY <1>0, <2>1, <2>2, <2>3 DEF MirrorOK, WitnessOK
  <1>4. ASSUME FetchRoot PROVE MirrorOK' /\ WitnessOK'
    BY <1>4 DEF FetchRoot, poolVars, mirrorVars, MirrorOK, WitnessOK, NoWitness
  <1>5. ASSUME UNCHANGED vars PROVE MirrorOK' /\ WitnessOK'
    BY <1>5 DEF vars, poolVars, mirrorVars, MirrorOK, WitnessOK
  <1> QED
    BY <1>1, <1>2, <1>3, <1>4, <1>5 DEF Next

LEMMA StepPool ==
    ASSUME PoolOK, [Next]_vars PROVE PoolOK'
  <1>1. ASSUME NEW leaf \in Leaves, Insert(leaf) PROVE PoolOK'
    BY <1>1, InsertPool
  <1>2. ASSUME UNCHANGED poolVars PROVE PoolOK'
    BY <1>2 DEF poolVars, PoolOK
  <1>3. ASSUME MirrorInsert \/ (\E i \in 0 .. mirrorNext - 1 : FetchPath(i)) \/ FetchRoot \/ UNCHANGED vars
        PROVE  UNCHANGED poolVars
    BY <1>3 DEF MirrorInsert, FetchPath, FetchRoot, vars
  <1> QED
    BY <1>1, <1>2, <1>3 DEF Next

-----------------------------------------------------------------------------
(* Frontier, mirror and witnesses                                          *)

\* The root the frontier walk of merkle::insert returns is the root of the tree
\* rebuilt from all leaves, for every depth and every hash.
THEOREM TreeFrontierIsReference == Spec => []FrontierIsReference
  <1>1. Spec => []PoolOK
    BY InitPool, StepPool, PTL DEF Spec
  <1>2. PoolOK => FrontierIsReference
    <2> SUFFICES ASSUME PoolOK, leaves # << >> PROVE rootHistory[Len(leaves)] = ReferenceRoot(leaves)
      BY DEF FrontierIsReference
    <2>1. Len(leaves) \in 1 .. nextLeafIndex /\ leaves \in Seq(Leaves \ {ZeroRoot})
      BY DEF PoolOK
    <2>2. Prefix(leaves, Len(leaves)) = leaves
      BY <2>1 DEF Prefix
    <2> QED
      BY <2>1, <2>2 DEF PoolOK
  <1> QED
    BY <1>1, <1>2, PTL

\* The first k leaves, as the lemmas about the tree want them.
LEMMA PrefixLayer ==
    ASSUME PoolOK, NEW k \in 1 .. nextLeafIndex
    PROVE  /\ k - 1 \in Nat /\ k - 1 < Capacity
           /\ IsLayer(Prefix(leaves, k), (k - 1) + 1)
           /\ \A j \in 0 .. k - 1 : /\ Prefix(leaves, k)[j + 1] = leaves[j + 1]
                                    /\ Prefix(leaves, k)[j + 1] \in Leaves \ {ZeroRoot}
  <1> DEFINE S == Leaves \ {ZeroRoot}
  <1>1. leaves \in Seq(S) /\ Len(leaves) = nextLeafIndex /\ nextLeafIndex <= Capacity /\ nextLeafIndex \in Nat
    BY DEF PoolOK
  <1>2. k - 1 \in Nat /\ k - 1 < Capacity /\ k \in 0 .. Len(leaves) /\ (k - 1) + 1 = k /\ leaves[1] \in S
    BY <1>1, CapacityNat
  <1>3. /\ Prefix(leaves, k) \in Seq(S) /\ Len(Prefix(leaves, k)) = k
        /\ \A j \in 1 .. k : Prefix(leaves, k)[j] = leaves[j]
    BY <1>1, <1>2, PrefixFacts
  <1> DEFINE p == Prefix(leaves, k)
  <1> HIDE DEF p, S
  <1>4. ASSUME NEW j \in 0 .. k - 1 PROVE p[j + 1] = leaves[j + 1] /\ p[j + 1] \in S
    BY <1>2, <1>3 DEF p
  <1>5. IsLayer(p, (k - 1) + 1)
    BY <1>2, <1>3 DEF IsLayer, p
  <1> QED
    BY <1>2, <1>4, <1>5 DEF p, S

LEMMA MirrorRootIs ==
    ASSUME PoolOK, MirrorOK, mirrorNext > 0
    PROVE  /\ MirrorRoot = ReferenceRoot(Prefix(leaves, mirrorNext))
           /\ MirrorRoot = rootHistory[mirrorNext]
  <1> DEFINE s == Prefix(leaves, mirrorNext)
  <1> DEFINE n == mirrorNext - 1
  <1>1. mirrorNext \in 1 .. nextLeafIndex /\ levels = MirrorOf(s)
    BY DEF PoolOK, MirrorOK
  <1>2. n \in Nat /\ n < Capacity /\ IsLayer(s, n + 1)
    BY <1>1, PrefixLayer
  <1> HIDE DEF s, n
  <1>3. Ancestor(n, TreeDepth) = 0
    BY <1>2, AncestorTop
  <1>4. IsLayer(Layer(s)[TreeDepth], 1)
    <2>1. TreeDepth \in 0 .. TreeDepth /\ 0 + 1 = 1
      BY TreeDepthAssumption
    <2> QED
      BY <1>2, <1>3, <2>1, LayerLen
  <1>5. levels[TreeDepth] = [j \in 0 .. 1 - 1 |-> Node(s, TreeDepth, j)]
    <2>1. levels[TreeDepth] = MirrorLevel(s, TreeDepth)
      BY <1>1, TreeDepthAssumption DEF MirrorOf
    <2> QED
      BY <1>4, <2>1, MirrorLevelDef
  <1>6. MirrorRoot = ReferenceRoot(s)
    BY <1>5 DEF MirrorRoot, NodeAt, ReferenceRoot, Node
  <1>7. rootHistory[mirrorNext] = ReferenceRoot(Prefix(leaves, mirrorNext))
    BY <1>1 DEF PoolOK
  <1> QED
    BY <1>6, <1>7 DEF s

LEMMA TreeInvariant ==
    ASSUME NoZeroHash PROVE Spec => [](PoolOK /\ MirrorOK /\ WitnessOK)
  <1>1. Init => PoolOK /\ MirrorOK /\ WitnessOK
    BY InitPool, InitMirror
  <1>2. PoolOK /\ MirrorOK /\ WitnessOK /\ [Next]_vars => (PoolOK /\ MirrorOK /\ WitnessOK)'
    BY StepPool, StepMirror
  <1> QED
    BY <1>1, <1>2, PTL DEF Spec

\* The indexer's mirror, wherever it is, has the root the pool had after the same
\* number of leaves: the two insert algorithms agree on every sequence of leaves.
THEOREM TreeMirrorAgrees ==
    ASSUME NoZeroHash PROVE Spec => []MirrorAgrees
  <1>1. PoolOK /\ MirrorOK /\ WitnessOK => MirrorAgrees
    BY MirrorRootIs DEF MirrorAgrees
  <1> QED
    BY <1>1, TreeInvariant, PTL

\* Every path served folds to the root of its moment, and a client accepts a path and
\* a root read apart only if the path opens a root the pool had.
THEOREM TreeWitnessUsable ==
    ASSUME NoZeroHash PROVE Spec => []WitnessUsable
  <1>1. ASSUME PoolOK, MirrorOK, WitnessOK PROVE WitnessUsable
    <2> SUFFICES ASSUME witness.pending
                 PROVE  /\ Reproduces(witness) => OpenedRoot(witness) = rootHistory[mirrorNext]
                        /\ ~Reproduces(witness) => witness.seen < mirrorNext
      BY DEF WitnessUsable
    <2>1. /\ witness.seen \in 1 .. mirrorNext /\ witness.index \in 0 .. witness.seen - 1
          /\ witness.siblings = PathOf(Prefix(leaves, witness.seen), witness.index)
          /\ mirrorNext \in 1 .. nextLeafIndex
      BY <1>1 DEF WitnessOK, MirrorOK, PoolOK
    <2>2. MirrorRoot = rootHistory[mirrorNext] /\ MirrorRoot = ReferenceRoot(Prefix(leaves, mirrorNext))
      BY <1>1, <2>1, MirrorRootIs
    <2>3. ASSUME witness.seen = mirrorNext PROVE Reproduces(witness)
      <3> DEFINE s == Prefix(leaves, mirrorNext)
      <3> DEFINE n == mirrorNext - 1
      <3> DEFINE i == witness.index
      <3>1. /\ n \in Nat /\ n < Capacity /\ IsLayer(s, n + 1)
            /\ \A j \in 0 .. n : s[j + 1] = leaves[j + 1] /\ s[j + 1] \in Leaves \ {ZeroRoot}
        BY <1>1, <2>1, PrefixLayer
      <3>2. i \in 0 .. n
        BY <2>1, <2>3
      <3>3. \A j \in 0 .. n : s[j + 1] # ZeroRoot
        BY <3>1
      <3>4. witness.siblings = PathOf(s, i) /\ leaves[i + 1] = s[i + 1]
        BY <2>1, <2>3, <3>1, <3>2
      <3> HIDE DEF s, n, i
      <3>5. FoldPath(s[i + 1], i, PathOf(s, i)) = ReferenceRoot(s)
        BY <3>1, <3>2, <3>3, FoldOK
      <3> QED
        BY <2>2, <3>4, <3>5 DEF Reproduces, OpenedRoot, s, i
    <2>4. Reproduces(witness) => OpenedRoot(witness) = rootHistory[mirrorNext]
      BY <2>2 DEF Reproduces
    <2> QED
      BY <2>1, <2>3, <2>4
  <1> QED
    BY <1>1, TreeInvariant, PTL

-----------------------------------------------------------------------------
(* Membership                                                              *)

\* What can stand below level l of the tree: a leaf, or a hash tagged with a lower
\* level.  The tag is what keeps a subtree from passing for a node higher up.
Low(x, l) == x \in Leaves \/ \E u, v : \E k \in 0 .. l - 1 : x = Hash3(u, v, k)

LEMMA LowNotHash ==
    ASSUME CollisionFree, NEW x, NEW l \in Nat, Low(x, l), NEW u, NEW v
    PROVE  x # Hash3(u, v, l)
  BY DEF Low, CollisionFree

LEMMA NodesLow ==
    ASSUME NEW s, NEW n \in Nat, IsLayer(s, n + 1), \A j \in 0 .. n : s[j + 1] \in Leaves
    PROVE  \A l \in 0 .. TreeDepth : \A j \in 0 .. Ancestor(n, l) : Low(Node(s, l, j), l)
  <1> DEFINE Good == {l \in 0 .. TreeDepth : \A j \in 0 .. Ancestor(n, l) : Low(Node(s, l, j), l)}
  <1>1. 0 \in Good
    BY NodeZero, AncestorStep, TreeDepthAssumption DEF Low
  <1>2. ASSUME NEW l \in 1 .. TreeDepth, l - 1 \in Good PROVE l \in Good
    <2>1. Ancestor(n, l) = Ancestor(n, l - 1) \div 2 /\ Ancestor(n, l - 1) \in Nat
      BY AncestorStep, TreeDepthAssumption
    <2>2. ASSUME NEW j \in 0 .. Ancestor(n, l) PROVE Low(Node(s, l, j), l)
      <3>1. 2 * j \in 0 .. Ancestor(n, l - 1)
        BY <2>1
      <3>2. Low(Node(s, l - 1, 2 * j), l - 1)
        BY <1>2, <3>1
      <3>3. Node(s, l, j) = IF 2 * j + 1 <= Ancestor(n, l - 1)
                           THEN Hash3(Node(s, l - 1, 2 * j), Node(s, l - 1, 2 * j + 1), l - 1)
                           ELSE Node(s, l - 1, 2 * j)
        BY NodeStep
      <3>4. l - 1 \in 0 .. l - 1 /\ 0 .. (l - 1) - 1 \subseteq 0 .. l - 1
        BY TreeDepthAssumption
      <3> QED
        BY <3>2, <3>3, <3>4 DEF Low
    <2> QED
      BY <2>2, TreeDepthAssumption
  <1> HIDE DEF Good
  <1>3. 0 .. TreeDepth \subseteq Good
    BY <1>1, <1>2, LevelInduction, TreeDepthAssumption
  <1> QED
    BY <1>3 DEF Good

IsOpenings(f, siblings) ==
    f = [l \in 0 .. TreeDepth |->
            IF l = 0 THEN LeafOpenings ELSE OpeningsAbove(f[l - 1], siblings, l - 1)]

LEMMA OpeningsExist ==
    ASSUME NEW siblings PROVE \E f : IsOpenings(f, siblings)
  <1> DEFINE Good == {n \in Nat : \E f : f = [l \in 0 .. n |-> IF l = 0 THEN LeafOpenings ELSE OpeningsAbove(f[l - 1], siblings, l - 1)]}
  <1>1. 0 \in Good
    <2> DEFINE f == [l \in 0 .. 0 |-> LeafOpenings]
    <2>1. f = [l \in 0 .. 0 |-> IF l = 0 THEN LeafOpenings ELSE OpeningsAbove(f[l - 1], siblings, l - 1)]
      OBVIOUS
    <2> QED
      BY <2>1
  <1>2. ASSUME NEW n \in 1 .. TreeDepth, n - 1 \in Good PROVE n \in Good
    <2>1. PICK f : f = [l \in 0 .. n - 1 |-> IF l = 0 THEN LeafOpenings ELSE OpeningsAbove(f[l - 1], siblings, l - 1)]
      BY <1>2
    <2> DEFINE g == [l \in 0 .. n |-> IF l = n THEN OpeningsAbove(f[n - 1], siblings, n - 1) ELSE f[l]]
    <2>2. ASSUME NEW l \in 0 .. n PROVE g[l] = IF l = 0 THEN LeafOpenings ELSE OpeningsAbove(g[l - 1], siblings, l - 1)
      BY <2>1
    <2>3. g = [l \in 0 .. n |-> IF l = 0 THEN LeafOpenings ELSE OpeningsAbove(g[l - 1], siblings, l - 1)]
      BY <2>2
    <2>4. \E h : h = [l \in 0 .. n |-> IF l = 0 THEN LeafOpenings ELSE OpeningsAbove(h[l - 1], siblings, l - 1)]
      <3> HIDE DEF g
      <3> QED
        BY <2>3
    <2> QED
      BY <2>4
  <1> HIDE DEF Good
  <1>3. 0 .. TreeDepth \subseteq Good
    BY <1>1, <1>2, LevelInduction, TreeDepthAssumption
  <1>4. TreeDepth \in Good
    BY <1>3, TreeDepthAssumption
  <1> QED
    BY <1>4 DEF Good, IsOpenings

\* A partial opening that has reached node j of level l was opened at a leaf below
\* that node, at the index its bits spell.
OpenOK(o, s, n, l) ==
    /\ o[3] \in Nat
    /\ o[2] = ZeroRoot \/ Low(o[2], l)
    /\ \A j \in 0 .. Ancestor(n, l) :
          o[2] = Node(s, l, j) => /\ o[3] + j * Pow2[l] <= n
                                  /\ s[(o[3] + j * Pow2[l]) + 1] = o[1]

LEMMA OpenStep ==
    ASSUME CollisionFree, NEW s, NEW n \in Nat, IsLayer(s, n + 1),
           \A j \in 0 .. n : s[j + 1] \in Leaves \ {ZeroRoot},
           NEW l \in 1 .. TreeDepth, NEW o, OpenOK(o, s, n, l - 1), NEW bit \in {0, 1}, NEW sib
    PROVE  OpenOK(<<o[1], FoldStep(o[2], bit, sib, l - 1), o[3] + bit * Pow2[l - 1]>>, s, n, l)
  <1> DEFINE z == FoldStep(o[2], bit, sib, l - 1)
  <1> DEFINE P == Pow2[l - 1]
  <1> DEFINE a == Ancestor(n, l - 1)
  <1>1. l - 1 \in 0 .. TreeDepth /\ l - 1 \in Nat
    BY TreeDepthAssumption
  <1>2. P \in Nat \ {0} /\ Pow2[l] = 2 * P
    BY <1>1, Pow2Positive, Pow2Def
  <1>3. a \in Nat /\ Ancestor(n, l) = a \div 2
    BY <1>1, AncestorStep
  <1>4. /\ o[3] \in Nat
        /\ o[2] = ZeroRoot \/ Low(o[2], l - 1)
        /\ \A j \in 0 .. a : o[2] = Node(s, l - 1, j) =>
               o[3] + j * P <= n /\ s[(o[3] + j * P) + 1] = o[1]
    BY DEF OpenOK
  <1>5. \A j \in 0 .. a : Low(Node(s, l - 1, j), l - 1) /\ Node(s, l - 1, j) # ZeroRoot
    <2>1. \A j \in 0 .. n : s[j + 1] \in Leaves
      OBVIOUS
    <2>2. \A j \in 0 .. n : s[j + 1] # ZeroRoot
      OBVIOUS
    <2>3. NoZeroHash
      BY DEF CollisionFree
    <2> QED
      BY <1>1, <2>1, <2>2, <2>3, NodesLow, NodesNonZero
  <1>6. z = ZeroRoot \/ Low(z, l)
    <2>1. l - 1 \in 0 .. l - 1 /\ 0 .. (l - 1) - 1 \subseteq 0 .. l - 1
      BY <1>1
    <2>2. Low(o[2], l - 1) => Low(o[2], l)
      BY <2>1 DEF Low
    <2>3. \A u, v : Low(Hash3(u, v, l - 1), l)
      BY <2>1 DEF Low
    <2> QED
      BY <1>4, <2>2, <2>3 DEF FoldStep
  <1> HIDE DEF P, a
  <1>7. o[3] + bit * P \in Nat
    BY <1>2, <1>4
  <1>8. ASSUME NEW j \in 0 .. Ancestor(n, l), z = Node(s, l, j)
        PROVE  /\ (o[3] + bit * P) + j * Pow2[l] <= n
               /\ s[((o[3] + bit * P) + j * Pow2[l]) + 1] = o[1]
    <2>1. Node(s, l, j) = IF 2 * j + 1 <= a
                          THEN Hash3(Node(s, l - 1, 2 * j), Node(s, l - 1, 2 * j + 1), l - 1)
                          ELSE Node(s, l - 1, 2 * j)
      BY NodeStep DEF a
    <2>2. 2 * j \in 0 .. a /\ (2 * j + 1 <= a => 2 * j + 1 \in 0 .. a) /\ j \in Nat
      BY <1>3
    <2>3. z # ZeroRoot
      BY <1>5, <1>8, <2>1, <2>2 DEF CollisionFree, NoZeroHash
    <2>4. o[2] # ZeroRoot /\ Low(o[2], l - 1) /\ ~(sib = ZeroRoot /\ bit = 1)
      BY <1>4, <2>3 DEF FoldStep
    <2>5. ASSUME NEW i \in 0 .. a, i = 2 * j + bit, o[2] = Node(s, l - 1, i)
          PROVE  /\ (o[3] + bit * P) + j * Pow2[l] <= n
                 /\ s[((o[3] + bit * P) + j * Pow2[l]) + 1] = o[1]
      <3>1. (o[3] + bit * P) + j * (2 * P) = o[3] + (2 * j + bit) * P
        <4>1. CASE bit = 0
          BY <1>2, <1>4, <2>2, <4>1
        <4>2. CASE bit = 1
          BY <1>2, <1>4, <2>2, <4>2
        <4> QED
          BY <4>1, <4>2
      <3>2. o[3] + i * P <= n /\ s[(o[3] + i * P) + 1] = o[1]
        BY <1>4, <2>5
      <3> QED
        BY <1>2, <2>5, <3>1, <3>2
    <2>6. CASE sib = ZeroRoot
      <3>1. z = o[2] /\ bit = 0
        BY <2>4, <2>6 DEF FoldStep
      <3>2. o[2] # Hash3(Node(s, l - 1, 2 * j), Node(s, l - 1, 2 * j + 1), l - 1)
        BY <1>1, <2>4, LowNotHash
      <3>3. o[2] = Node(s, l - 1, 2 * j) /\ 2 * j = 2 * j + bit
        BY <1>8, <2>1, <2>2, <3>1, <3>2
      <3> QED
        BY <2>2, <2>5, <3>3
    <2>7. CASE sib # ZeroRoot
      <3>1. /\ bit = 1 => z = Hash3(sib, o[2], l - 1)
            /\ bit = 0 => z = Hash3(o[2], sib, l - 1)
        BY <2>4, <2>7 DEF FoldStep
      <3>2. \A u, v : Node(s, l - 1, 2 * j) # Hash3(u, v, l - 1)
        BY <1>1, <1>5, <2>2, LowNotHash
      <3>3. 2 * j + 1 <= a /\ z = Hash3(Node(s, l - 1, 2 * j), Node(s, l - 1, 2 * j + 1), l - 1)
        BY <1>8, <2>1, <3>1, <3>2
      <3>4. CASE bit = 1
        <4>1. o[2] = Node(s, l - 1, 2 * j + 1)
          BY <3>1, <3>3, <3>4 DEF CollisionFree
        <4> QED
          BY <2>2, <2>5, <3>3, <3>4, <4>1
      <3>5. CASE bit = 0
        <4>1. o[2] = Node(s, l - 1, 2 * j) /\ 2 * j = 2 * j + bit
          BY <2>2, <3>1, <3>3, <3>5 DEF CollisionFree
        <4> QED
          BY <2>2, <2>5, <4>1
      <3> QED
        BY <3>4, <3>5
    <2> QED
      BY <2>6, <2>7
  <1> HIDE DEF z
  <1> DEFINE q == <<o[1], z, o[3] + bit * P>>
  <1>9. q[1] = o[1] /\ q[2] = z /\ q[3] = o[3] + bit * P
    OBVIOUS
  <1> HIDE DEF q
  <1>10. OpenOK(q, s, n, l)
    BY <1>6, <1>7, <1>8, <1>9 DEF OpenOK
  <1> QED
    BY <1>10 DEF q, z, P

LEMMA OpeningsOK ==
    ASSUME CollisionFree, NEW s, NEW n \in Nat, IsLayer(s, n + 1),
           \A j \in 0 .. n : s[j + 1] \in Leaves \ {ZeroRoot}, NEW siblings
    PROVE  \A o \in Openings(siblings)[TreeDepth] : OpenOK(o, s, n, TreeDepth)
  <1>1. PICK f : IsOpenings(f, siblings) /\ Openings(siblings) = f
    <2>1. \E f : IsOpenings(f, siblings)
      BY OpeningsExist
    <2> QED
      BY <2>1 DEF Openings, IsOpenings
  <1>2. f[0] = LeafOpenings
    BY <1>1, TreeDepthAssumption DEF IsOpenings
  <1>3. \A l \in 1 .. TreeDepth : f[l] = OpeningsAbove(f[l - 1], siblings, l - 1)
    BY <1>1, TreeDepthAssumption DEF IsOpenings
  <1> DEFINE Good == {l \in 0 .. TreeDepth : \A o \in f[l] : OpenOK(o, s, n, l)}
  <1>4. 0 \in Good
    <2> SUFFICES ASSUME NEW leaf \in Leaves PROVE OpenOK(<<leaf, leaf, 0>>, s, n, 0)
      BY <1>2, TreeDepthAssumption DEF LeafOpenings
    <2>1. Low(leaf, 0) /\ Pow2[0] = 1 /\ Ancestor(n, 0) = n
      BY Pow2Def, AncestorStep DEF Low
    <2>2. \A j \in 0 .. n : Node(s, 0, j) = s[j + 1] /\ 0 + j * 1 = j
      BY NodeZero
    <2> QED
      BY <2>1, <2>2 DEF OpenOK
  <1>5. \A l \in 1 .. TreeDepth : l - 1 \in Good => l \in Good
    <2> SUFFICES ASSUME NEW l \in 1 .. TreeDepth, l - 1 \in Good, NEW q \in f[l] PROVE OpenOK(q, s, n, l)
      BY TreeDepthAssumption
    <2>1. PICK o \in f[l - 1], bit \in {0, 1}, sib \in siblings :
             q = <<o[1], FoldStep(o[2], bit, sib, l - 1), o[3] + bit * Pow2[l - 1]>>
      BY <1>3 DEF OpeningsAbove
    <2>2. OpenOK(o, s, n, l - 1)
      OBVIOUS
    <2> HIDE DEF Good
    <2>3. OpenOK(<<o[1], FoldStep(o[2], bit, sib, l - 1), o[3] + bit * Pow2[l - 1]>>, s, n, l)
      BY <2>2, OpenStep
    <2> QED
      BY <2>1, <2>3
  <1>6. TreeDepth \in Good
    <2> HIDE DEF Good
    <2>1. 0 .. TreeDepth \subseteq Good
      BY <1>4, <1>5, LevelInduction, TreeDepthAssumption
    <2> QED
      BY <2>1, TreeDepthAssumption
  <1> QED
    BY <1>1, <1>6

\* A leaf opens the current root only at the index it was inserted at, whatever the
\* siblings: for every depth, given an ideal hash.
THEOREM TreeOpeningsAreGenuine ==
    ASSUME CollisionFree PROVE Spec => []OpeningsAreGenuine
  <1>1. ASSUME PoolOK PROVE OpeningsAreGenuine
    <2> SUFFICES ASSUME nextLeafIndex > 0, NEW siblings, NEW o \in Openings(siblings)[TreeDepth],
                        o[2] = rootHistory[nextLeafIndex]
                 PROVE  o[3] < nextLeafIndex /\ leaves[o[3] + 1] = o[1]
      BY DEF OpeningsAreGenuine
    <2> DEFINE s == Prefix(leaves, nextLeafIndex)
    <2> DEFINE n == nextLeafIndex - 1
    <2>1. nextLeafIndex \in 1 .. nextLeafIndex /\ nextLeafIndex \in Nat
      BY <1>1 DEF PoolOK
    <2>2. /\ n \in Nat /\ n < Capacity /\ IsLayer(s, n + 1)
          /\ \A j \in 0 .. n : s[j + 1] = leaves[j + 1] /\ s[j + 1] \in Leaves \ {ZeroRoot}
      BY <1>1, <2>1, PrefixLayer
    <2>3. o[2] = Layer(s)[TreeDepth][0 + 1]
      BY <1>1, <2>1 DEF PoolOK, ReferenceRoot
    <2> HIDE DEF s, n
    <2>4. OpenOK(o, s, n, TreeDepth)
      BY <2>2, OpeningsOK
    <2>5. Ancestor(n, TreeDepth) = 0 /\ 0 * Pow2[TreeDepth] = 0
      BY <2>2, AncestorTop, Pow2Positive, TreeDepthAssumption
    <2>6. o[3] \in Nat /\ o[3] + 0 <= n /\ s[(o[3] + 0) + 1] = o[1]
      BY <2>3, <2>4, <2>5 DEF OpenOK, Node
    <2>7. o[3] \in 0 .. n /\ o[3] + 0 = o[3]
      BY <2>2, <2>6
    <2>8. leaves[o[3] + 1] = o[1]
      BY <2>2, <2>6, <2>7
    <2> QED
      BY <2>1, <2>7, <2>8 DEF n
  <1>2. Spec => []PoolOK
    BY InitPool, StepPool, PTL DEF Spec
  <1> QED
    BY <1>1, <1>2, PTL

-----------------------------------------------------------------------------
(* A root determines the leaves below it                                   *)

SameLevel(s, m, t, n, l) ==
    /\ Ancestor(m, l) = Ancestor(n, l)
    /\ \A j \in 0 .. Ancestor(m, l) : Node(s, l, j) = Node(t, l, j)

LeafRow(s, m) == m \in Nat /\ m < Capacity /\ IsLayer(s, m + 1) /\ \A j \in 0 .. m : s[j + 1] \in Leaves \ {ZeroRoot}

LEMMA DownStep ==
    ASSUME CollisionFree, NEW s, NEW m, NEW t, NEW n, LeafRow(s, m), LeafRow(t, n),
           NEW l \in 1 .. TreeDepth, SameLevel(s, m, t, n, l)
    PROVE  SameLevel(s, m, t, n, l - 1)
  <1> DEFINE a == Ancestor(m, l - 1)
  <1> DEFINE b == Ancestor(n, l - 1)
  <1> DEFINE c == a \div 2
  <1>1. /\ m \in Nat /\ IsLayer(s, m + 1) /\ \A j \in 0 .. m : s[j + 1] \in Leaves
        /\ n \in Nat /\ IsLayer(t, n + 1) /\ \A j \in 0 .. n : t[j + 1] \in Leaves
    BY DEF LeafRow
  <1>2. l - 1 \in 0 .. TreeDepth /\ l - 1 \in Nat
    BY TreeDepthAssumption
  <1>3. a \in Nat /\ b \in Nat /\ Ancestor(m, l) = c /\ Ancestor(n, l) = b \div 2
    BY <1>1, <1>2, AncestorStep
  <1>4. c = b \div 2 /\ \A j \in 0 .. c : Node(s, l, j) = Node(t, l, j)
    BY <1>3 DEF SameLevel
  <1>5. \A j \in 0 .. c : Node(s, l, j) = IF 2 * j + 1 <= a
                            THEN Hash3(Node(s, l - 1, 2 * j), Node(s, l - 1, 2 * j + 1), l - 1)
                            ELSE Node(s, l - 1, 2 * j)
    BY <1>1, <1>3, NodeStep
  <1>6. \A j \in 0 .. c : Node(t, l, j) = IF 2 * j + 1 <= b
                            THEN Hash3(Node(t, l - 1, 2 * j), Node(t, l - 1, 2 * j + 1), l - 1)
                            ELSE Node(t, l - 1, 2 * j)
    BY <1>1, <1>3, <1>4, NodeStep
  <1>7. /\ \A j \in 0 .. a : Low(Node(s, l - 1, j), l - 1)
        /\ \A j \in 0 .. b : Low(Node(t, l - 1, j), l - 1)
    BY <1>1, <1>2, NodesLow
  <1>8. /\ \A j \in 0 .. a : \A u, v : Node(s, l - 1, j) # Hash3(u, v, l - 1)
        /\ \A j \in 0 .. b : \A u, v : Node(t, l - 1, j) # Hash3(u, v, l - 1)
    BY <1>2, <1>7, LowNotHash
  <1> HIDE DEF a, b
  <1>9. a = b
    <2>1. c \in 0 .. c /\ 2 * c \in 0 .. a /\ 2 * c \in 0 .. b
      BY <1>3, <1>4
    <2>2. ASSUME 2 * c + 1 <= a, ~(2 * c + 1 <= b) PROVE FALSE
      <3>1. Node(s, l, c) = Hash3(Node(s, l - 1, 2 * c), Node(s, l - 1, 2 * c + 1), l - 1)
        BY <1>5, <2>1, <2>2
      <3>2. Node(t, l, c) = Node(t, l - 1, 2 * c)
        BY <1>6, <2>1, <2>2
      <3>3. Node(s, l, c) = Node(t, l, c)
        BY <1>4, <2>1
      <3> HIDE DEF c
      <3> QED
        BY <1>8, <2>1, <3>1, <3>2, <3>3
    <2>3. ASSUME ~(2 * c + 1 <= a), 2 * c + 1 <= b PROVE FALSE
      <3>1. Node(t, l, c) = Hash3(Node(t, l - 1, 2 * c), Node(t, l - 1, 2 * c + 1), l - 1)
        BY <1>6, <2>1, <2>3
      <3>2. Node(s, l, c) = Node(s, l - 1, 2 * c)
        BY <1>5, <2>1, <2>3
      <3>3. Node(s, l, c) = Node(t, l, c)
        BY <1>4, <2>1
      <3> HIDE DEF c
      <3> QED
        BY <1>8, <2>1, <3>1, <3>2, <3>3
    <2> QED
      BY <1>3, <1>4, <2>2, <2>3
  <1>10. ASSUME NEW i \in 0 .. a PROVE Node(s, l - 1, i) = Node(t, l - 1, i)
    <2> DEFINE j == i \div 2
    <2>1. j \in 0 .. c /\ (i = 2 * j \/ (i = 2 * j + 1 /\ 2 * j + 1 <= a))
      BY <1>3
    <2>2. Node(s, l, j) = Node(t, l, j)
      BY <1>4, <2>1
    <2> HIDE DEF j
    <2>3. CASE 2 * j + 1 <= a
      <3>1. Hash3(Node(s, l - 1, 2 * j), Node(s, l - 1, 2 * j + 1), l - 1)
               = Hash3(Node(t, l - 1, 2 * j), Node(t, l - 1, 2 * j + 1), l - 1)
        BY <1>5, <1>6, <1>9, <2>1, <2>2, <2>3
      <3>2. Node(s, l - 1, 2 * j) = Node(t, l - 1, 2 * j) /\ Node(s, l - 1, 2 * j + 1) = Node(t, l - 1, 2 * j + 1)
        BY <3>1 DEF CollisionFree
      <3> QED
        BY <2>1, <3>2
    <2>4. CASE ~(2 * j + 1 <= a)
      <3>1. Node(s, l - 1, 2 * j) = Node(t, l - 1, 2 * j)
        BY <1>5, <1>6, <1>9, <2>1, <2>2, <2>4
      <3> QED
        BY <2>1, <2>4, <3>1
    <2> QED
      BY <2>3, <2>4
  <1> QED
    BY <1>9, <1>10 DEF SameLevel, a, b

LEMMA RootDetermines ==
    ASSUME CollisionFree, NEW s, NEW m, NEW t, NEW n, LeafRow(s, m), LeafRow(t, n),
           ReferenceRoot(s) = ReferenceRoot(t)
    PROVE  m = n
  <1> DEFINE Good == {d \in 0 .. TreeDepth : SameLevel(s, m, t, n, TreeDepth - d)}
  <1>1. m \in Nat /\ m < Capacity /\ n \in Nat /\ n < Capacity
    BY DEF LeafRow
  <1>2. 0 \in Good
    <2>1. Ancestor(m, TreeDepth) = 0 /\ Ancestor(n, TreeDepth) = 0
      BY <1>1, AncestorTop
    <2>2. Node(s, TreeDepth, 0) = Node(t, TreeDepth, 0)
      BY DEF ReferenceRoot, Node
    <2>3. SameLevel(s, m, t, n, TreeDepth)
      BY <2>1, <2>2 DEF SameLevel
    <2>4. TreeDepth - 0 = TreeDepth /\ 0 \in 0 .. TreeDepth
      BY TreeDepthAssumption
    <2> QED
      BY <2>3, <2>4
  <1>3. \A d \in 1 .. TreeDepth : d - 1 \in Good => d \in Good
    <2> SUFFICES ASSUME NEW d \in 1 .. TreeDepth, d - 1 \in Good PROVE d \in Good
      OBVIOUS
    <2> DEFINE l == TreeDepth - (d - 1)
    <2>1. l \in 1 .. TreeDepth /\ l - 1 = TreeDepth - d /\ d \in 0 .. TreeDepth
      BY TreeDepthAssumption
    <2>2. SameLevel(s, m, t, n, l)
      OBVIOUS
    <2> HIDE DEF l, Good
    <2>3. SameLevel(s, m, t, n, l - 1)
      BY <2>1, <2>2, DownStep
    <2> QED
      BY <2>1, <2>3 DEF Good
  <1>4. TreeDepth \in Good
    <2> HIDE DEF Good
    <2>1. 0 .. TreeDepth \subseteq Good
      BY <1>2, <1>3, LevelInduction, TreeDepthAssumption
    <2> QED
      BY <2>1, TreeDepthAssumption
  <1>5. TreeDepth - TreeDepth = 0
    BY TreeDepthAssumption
  <1>6. SameLevel(s, m, t, n, 0)
    BY <1>4, <1>5
  <1>7. Ancestor(m, 0) = m /\ Ancestor(n, 0) = n
    BY <1>1, AncestorStep
  <1> QED
    BY <1>6, <1>7 DEF SameLevel

-----------------------------------------------------------------------------
(* The tree implements the commitment log                                  *)

HistoryOf(s) == [k \in 1 .. Len(s) |-> ReferenceRoot(Prefix(s, k))]

\* PrefixOf, with the variables it reads as parameters.
PrefixIn(root, h, s) ==
    LET prefixes == {k \in DOMAIN h : root = h[k] /\ root = ReferenceRoot(SubSeq(s, 1, k))}
    IN  IF root = ZeroRoot THEN 0
        ELSE IF prefixes = {} THEN -1 ELSE CHOOSE k \in prefixes : TRUE

LEMMA PrefixRow ==
    ASSUME NEW s \in Seq(Leaves \ {ZeroRoot}), Len(s) <= Capacity, NEW k \in 1 .. Len(s)
    PROVE  LeafRow(Prefix(s, k), k - 1)
  <1> DEFINE S == Leaves \ {ZeroRoot}
  <1>1. k - 1 \in Nat /\ k - 1 < Capacity /\ k \in 0 .. Len(s) /\ (k - 1) + 1 = k /\ s[1] \in S /\ k \in Nat
    BY CapacityNat
  <1> DEFINE p == Prefix(s, k)
  <1>2. p \in Seq(S) /\ Len(p) = k
    BY <1>1, PrefixFacts
  <1> HIDE DEF p, S
  <1>3. ASSUME NEW j \in 0 .. k - 1 PROVE p[j + 1] \in S
    BY <1>1, <1>2
  <1>4. IsLayer(p, (k - 1) + 1)
    BY <1>1, <1>2 DEF IsLayer
  <1> QED
    BY <1>1, <1>3, <1>4 DEF LeafRow, p, S

\* Every root of the history stands for exactly one prefix.
LEMMA RootPrefix ==
    ASSUME CollisionFree, NEW s \in Seq(Leaves \ {ZeroRoot}), Len(s) <= Capacity, NEW k \in 1 .. Len(s)
    PROVE  HistoryOf(s)[k] # ZeroRoot /\ PrefixIn(HistoryOf(s)[k], HistoryOf(s), s) = k
  <1> DEFINE h == HistoryOf(s)
  <1>1. DOMAIN h = 1 .. Len(s) /\ \A i \in 1 .. Len(s) : h[i] = ReferenceRoot(Prefix(s, i))
    BY DEF HistoryOf
  <1>2. h[k] # ZeroRoot
    <2> DEFINE n == k - 1
    <2> DEFINE p == Prefix(s, k)
    <2>1. n \in Nat /\ n < Capacity /\ IsLayer(p, n + 1) /\ \A j \in 0 .. n : p[j + 1] # ZeroRoot
      BY PrefixRow DEF LeafRow
    <2> HIDE DEF n, p
    <2>2. Ancestor(n, TreeDepth) = 0 /\ TreeDepth \in 0 .. TreeDepth /\ 0 \in 0 .. 0 /\ NoZeroHash
      BY <2>1, AncestorTop, TreeDepthAssumption DEF CollisionFree
    <2>3. Node(p, TreeDepth, 0) # ZeroRoot
      BY <2>1, <2>2, NodesNonZero
    <2> QED
      BY <1>1, <2>3 DEF Node, ReferenceRoot, p
  <1>3. ASSUME NEW i \in 1 .. Len(s), h[i] = h[k] PROVE i = k
    <2>1. LeafRow(Prefix(s, i), i - 1) /\ LeafRow(Prefix(s, k), k - 1)
      BY PrefixRow
    <2>2. ReferenceRoot(Prefix(s, i)) = ReferenceRoot(Prefix(s, k))
      BY <1>1, <1>3
    <2>3. i - 1 = k - 1
      BY <2>1, <2>2, RootDetermines
    <2> QED
      BY <2>3
  <1> DEFINE prefixes == {i \in DOMAIN h : h[k] = h[i] /\ h[k] = ReferenceRoot(SubSeq(s, 1, i))}
  <1>4. prefixes = {k}
    BY <1>1, <1>3 DEF Prefix
  <1> HIDE DEF h
  <1>5. PrefixIn(h[k], h, s) = IF h[k] = ZeroRoot THEN 0
                               ELSE IF prefixes = {} THEN -1 ELSE CHOOSE i \in prefixes : TRUE
    BY DEF PrefixIn
  <1> HIDE DEF prefixes
  <1> QED
    BY <1>2, <1>4, <1>5 DEF h

RingOK ==
    /\ ring = [roots |-> ring.roots, cursor |-> ring.cursor]
    /\ ring.roots = [s \in Slots |-> ring.roots[s]]
    /\ ring.cursor \in Slots
    /\ \A s \in Slots : ring.roots[s] = ZeroRoot \/ \E k \in 1 .. nextLeafIndex : ring.roots[s] = rootHistory[k]

AbstractRing == [roots |-> [s \in Slots |-> PrefixOf(ring.roots[s])], cursor |-> ring.cursor]

LEMMA InsertRing ==
    ASSUME CollisionFree, PoolOK, RingOK, NEW leaf \in Leaves, Insert(leaf)
    PROVE  /\ RingOK'
           /\ AbstractRing' = PushRoot(AbstractRing, Len(leaves) + 1)
  <1> DEFINE n == nextLeafIndex
  <1> DEFINE r == rootHistory'[n + 1]
  <1>1. PoolOK'
    BY InsertPool
  <1>2. n \in Nat /\ nextLeafIndex' = n + 1 /\ leaves' = Append(leaves, leaf) /\ Len(leaves) = n /\ Len(leaves') = n + 1
    BY DEF PoolOK, Insert
  <1>3. rootHistory = HistoryOf(leaves) /\ rootHistory' = HistoryOf(leaves')
    BY <1>1, <1>2 DEF PoolOK, HistoryOf
  <1>4. /\ leaves \in Seq(Leaves \ {ZeroRoot}) /\ Len(leaves) <= Capacity
        /\ leaves' \in Seq(Leaves \ {ZeroRoot}) /\ Len(leaves') <= Capacity
    BY <1>1, <1>2 DEF PoolOK
  <1>5. \A k \in 1 .. n : PrefixIn(rootHistory[k], rootHistory, leaves) = k
    <2> SUFFICES ASSUME NEW k \in 1 .. n PROVE PrefixIn(HistoryOf(leaves)[k], HistoryOf(leaves), leaves) = k
      BY <1>3
    <2> QED
      BY <1>2, <1>4, RootPrefix
  <1>6. \A k \in 1 .. n + 1 : PrefixIn(rootHistory'[k], rootHistory', leaves') = k
    <2> SUFFICES ASSUME NEW k \in 1 .. n + 1 PROVE PrefixIn(HistoryOf(leaves')[k], HistoryOf(leaves'), leaves') = k
      BY <1>3
    <2>1. k \in 1 .. Len(leaves')
      BY <1>2
    <2> HIDE DEF n
    <2> QED
      BY <1>4, <2>1, RootPrefix
  <1>7. \A k \in 1 .. n : rootHistory'[k] = rootHistory[k]
    <2>1. leaf \in Leaves \ {ZeroRoot}
      BY DEF Insert
    <2>2. \A k \in 1 .. n : Prefix(leaves', k) = Prefix(leaves, k)
      BY <1>2, <1>4, <2>1, PrefixFacts
    <2> QED
      BY <1>2, <1>3, <2>2 DEF HistoryOf
  <1>8. ring' = PushRoot(ring, r)
    <2> DEFINE w == FrontierWalk(sideNodes, leaf, nextLeafIndex)
    <2>1. ring' = PushRoot(ring, w.node) /\ rootHistory' = Append(rootHistory, w.node)
      BY DEF Insert
    <2> HIDE DEF w
    <2>2. Append(rootHistory, w.node)[n + 1] = w.node
      <3>1. rootHistory = [k \in 1 .. n |-> rootHistory[k]]
        BY <1>2, <1>3 DEF HistoryOf
      <3>2. rootHistory \in Seq({rootHistory[k] : k \in 1 .. n}) /\ Len(rootHistory) = n
        BY <1>2, <3>1
      <3> QED
        BY <1>2, <3>2
    <2> QED
      BY <2>1, <2>2
  <1> HIDE DEF r
  <1>9. /\ ring'.roots = [ring.roots EXCEPT ![ring.cursor] = r] /\ ring'.cursor = NextCursor(ring.cursor)
        /\ ring' = [roots |-> ring'.roots, cursor |-> ring'.cursor]
    BY <1>8 DEF PushRoot
  <1>10. NextCursor(ring.cursor) \in Slots
    BY RootRingAssumption DEF RingOK, NextCursor, Slots
  <1>11. RingOK'
    <2>1. ASSUME NEW s \in Slots
          PROVE  ring'.roots[s] = ZeroRoot \/ \E k \in 1 .. n + 1 : ring'.roots[s] = rootHistory'[k]
      <3>1. CASE s = ring.cursor
        <4>1. ring'.roots[s] = r /\ n + 1 \in 1 .. n + 1
          BY <1>2, <1>9, <3>1 DEF RingOK
        <4> QED
          BY <4>1 DEF r
      <3>2. CASE s # ring.cursor
        <4>1. ring'.roots[s] = ring.roots[s]
          BY <1>9, <3>2 DEF RingOK
        <4>2. 1 .. n \subseteq 1 .. n + 1
          BY <1>2
        <4> QED
          BY <1>7, <4>1, <4>2 DEF RingOK
      <3> QED
        BY <3>1, <3>2
    <2>2. ring'.roots = [s \in Slots |-> ring'.roots[s]]
      BY <1>9 DEF RingOK
    <2> QED
      BY <1>2, <1>9, <1>10, <2>1, <2>2 DEF RingOK
  <1>12. ASSUME NEW s \in Slots
         PROVE  PrefixOf(ring.roots[s])' = IF s = ring.cursor THEN n + 1 ELSE PrefixOf(ring.roots[s])
    <2>1. PrefixOf(ring.roots[s])' = PrefixIn(ring'.roots[s], rootHistory', leaves')
      BY DEF PrefixOf, PrefixIn
    <2>2. PrefixOf(ring.roots[s]) = PrefixIn(ring.roots[s], rootHistory, leaves)
      BY DEF PrefixOf, PrefixIn
    <2>3. CASE s = ring.cursor
      <3>1. ring'.roots[s] = r
        BY <1>9, <2>3 DEF RingOK
      <3>2. PrefixIn(r, rootHistory', leaves') = n + 1
        BY <1>2, <1>6 DEF r
      <3> QED
        BY <2>1, <2>3, <3>1, <3>2
    <2>4. CASE s # ring.cursor
      <3>1. ring'.roots[s] = ring.roots[s]
        BY <1>9, <2>4 DEF RingOK
      <3>2. CASE ring.roots[s] = ZeroRoot
        <4>1. PrefixIn(ZeroRoot, rootHistory', leaves') = 0 /\ PrefixIn(ZeroRoot, rootHistory, leaves) = 0
          BY DEF PrefixIn
        <4> QED
          BY <2>1, <2>2, <2>4, <3>1, <3>2, <4>1
      <3>3. CASE ring.roots[s] # ZeroRoot
        <4>1. PICK k \in 1 .. n : ring.roots[s] = rootHistory[k]
          BY <3>3 DEF RingOK
        <4>2. k \in 1 .. n + 1
          BY <1>2
        <4>3. PrefixIn(ring.roots[s], rootHistory', leaves') = k /\ PrefixIn(ring.roots[s], rootHistory, leaves) = k
          BY <1>5, <1>6, <1>7, <4>1, <4>2
        <4> QED
          BY <2>1, <2>2, <2>4, <3>1, <4>3
      <3> QED
        BY <3>2, <3>3
    <2> QED
      BY <2>3, <2>4
  <1>13. AbstractRing' = PushRoot(AbstractRing, n + 1)
    <2>1. AbstractRing' = [roots |-> [s \in Slots |-> PrefixOf(ring.roots[s])'], cursor |-> NextCursor(ring.cursor)]
      BY <1>9 DEF AbstractRing
    <2>2. PushRoot(AbstractRing, n + 1)
            = [roots |-> [[s \in Slots |-> PrefixOf(ring.roots[s])] EXCEPT ![ring.cursor] = n + 1],
               cursor |-> NextCursor(ring.cursor)]
      BY DEF AbstractRing, PushRoot
    <2>3. [s \in Slots |-> PrefixOf(ring.roots[s])']
            = [[s \in Slots |-> PrefixOf(ring.roots[s])] EXCEPT ![ring.cursor] = n + 1]
      BY <1>12
    <2> QED
      BY <2>1, <2>2, <2>3
  <1> QED
    BY <1>2, <1>11, <1>13

\* The hashed tree with its frontier, its hashes and its ring of roots behaves as an
\* append-only log whose recent lengths the pool remembers: the module the pool, the
\* indexer and the wallet are written over.
THEOREM TreeImplementsCommitmentLog ==
    ASSUME CollisionFree PROVE Spec => ImplementsCommitmentLog
  <1>1. Init => AbstractLog!Init /\ PoolOK /\ RingOK
    <2> SUFFICES ASSUME Init PROVE AbstractLog!Init /\ RingOK
      BY InitPool
    <2>1. ring = [roots |-> [s \in Slots |-> ZeroRoot], cursor |-> 0] /\ leaves = << >>
      BY DEF Init, EmptyRing
    <2>2. PrefixOf(ZeroRoot) = 0
      BY DEF PrefixOf
    <2>3. RingOK
      BY <2>1, RootRingAssumption DEF RingOK, Slots
    <2>4. AbstractLog!Init
      BY <2>1, <2>2 DEF AbstractLog!Init, AbstractLog!EmptyRing, AbstractLog!Slots, Slots
    <2> QED
      BY <2>3, <2>4
  <1>2. PoolOK /\ RingOK /\ [Next]_vars => RingOK' /\ [AbstractLog!Next]_<<leaves, AbstractRing>>
    <2> SUFFICES ASSUME PoolOK, RingOK, [Next]_vars PROVE RingOK' /\ [AbstractLog!Next]_<<leaves, AbstractRing>>
      OBVIOUS
    <2>1. ASSUME NEW leaf \in Leaves, Insert(leaf) PROVE RingOK' /\ AbstractLog!Next
      <3>1. RingOK' /\ AbstractRing' = PushRoot(AbstractRing, Len(leaves) + 1)
        BY <2>1, InsertRing
      <3>2. Len(leaves) < Capacity /\ leaves' = Append(leaves, leaf)
        BY <2>1 DEF Insert, PoolOK
      <3>3. AbstractLog!Append1(leaf)
        BY <3>1, <3>2 DEF AbstractLog!Append1, AbstractLog!PushRoot, AbstractLog!NextCursor,
                          PushRoot, NextCursor, AbstractRing
      <3> QED
        BY <2>1, <3>1, <3>3 DEF AbstractLog!Next
    <2>2. ASSUME UNCHANGED poolVars PROVE RingOK' /\ UNCHANGED <<leaves, AbstractRing>>
      <3>1. UNCHANGED <<ring, leaves, rootHistory, nextLeafIndex>>
        BY <2>2 DEF poolVars
      <3>2. RingOK'
        BY <3>1 DEF RingOK
      <3>3. ASSUME NEW s \in Slots PROVE PrefixOf(ring.roots[s])' = PrefixOf(ring.roots[s])
        BY <3>1 DEF PrefixOf
      <3>4. AbstractRing' = AbstractRing
        BY <3>1, <3>3 DEF AbstractRing
      <3> QED
        BY <3>1, <3>2, <3>4
    <2>3. ASSUME MirrorInsert \/ (\E i \in 0 .. mirrorNext - 1 : FetchPath(i)) \/ FetchRoot \/ UNCHANGED vars
          PROVE  UNCHANGED poolVars
      BY <2>3 DEF MirrorInsert, FetchPath, FetchRoot, vars
    <2> QED
      BY <2>1, <2>2, <2>3 DEF Next
  <1>3. PoolOK /\ [Next]_vars => PoolOK'
    BY StepPool
  <1> QED
    BY <1>1, <1>2, <1>3, PTL DEF Spec, ImplementsCommitmentLog, AbstractLog!Spec, AbstractRing

=============================================================================
