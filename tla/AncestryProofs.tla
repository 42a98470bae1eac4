--------------------------- MODULE AncestryProofs ---------------------------
(***************************************************************************)
(* What pprev, nHeight and the walks along them mean on any tree of        *)
(* blocks: the recursive functions of Ancestry are defined, the blocks     *)
(* below one block are in a row, one at each height, and so on.            *)
(*                                                                         *)
(* Induction is over sets of blocks (TreeAssumption).                      *)
(***************************************************************************)
EXTENDS Ancestry, TLAPS

-----------------------------------------------------------------------------
(* Recursion along pprev *)

\* The function g on the blocks of D satisfies the recursion with the value v at Genesis
\* and the step F.
Solves(g, D, v, F) ==
    /\ Genesis \in D => g[Genesis] = v
    /\ \A b \in D \ {Genesis} : Parent[b] \in D /\ g[b] = F[<<b, g[Parent[b]]>>]

Agree(g, D, h, E) == \A b \in Block : b \in D /\ b \in E => g[b] = h[b]

LEMMA SolutionsAgree ==
    \A v, F, D, g, E, h : Solves(g, D, v, F) /\ Solves(h, E, v, F) => Agree(g, D, h, E)
  <1> SUFFICES ASSUME NEW v, NEW F, NEW D, NEW g, NEW E, NEW h,
                      Solves(g, D, v, F), Solves(h, E, v, F)
               PROVE  Agree(g, D, h, E)
    BY Zenon
  <1> DEFINE S == {b \in Block : b \in D /\ b \in E => g[b] = h[b]}
  <1>1. Genesis \in S
    BY AncestryAssumption, Zenon DEF Solves
  <1>2. ASSUME NEW b \in Block \ {Genesis}, Parent[b] \in S PROVE b \in S
    BY <1>2, Zenon DEF Solves
  <1>3. S = Block
    BY <1>1, <1>2, TreeAssumption, Zenon
  <1> QED  BY <1>3, Zenon DEF Agree

LEMMA SolutionsReach ==
    ASSUME NEW V, NEW v \in V, NEW F \in [Block \X V -> V], NEW b \in Block
    PROVE  \E D \in SUBSET Block : \E g \in [D -> V] : b \in D /\ Solves(g, D, v, F)
  <1> DEFINE S == {c \in Block :
                     \E D \in SUBSET Block : \E g \in [D -> V] : c \in D /\ Solves(g, D, v, F)}
  <1>1. Genesis \in S
    <2> DEFINE g == [c \in {Genesis} |-> v]
    <2>1. {Genesis} \in SUBSET Block /\ g \in [{Genesis} -> V]
      BY AncestryAssumption, Zenon
    <2>2. Solves(g, {Genesis}, v, F)
      BY Zenon DEF Solves
    <2> QED  BY <2>1, <2>2, AncestryAssumption, Zenon
  <1>2. ASSUME NEW c \in Block \ {Genesis}, Parent[c] \in S PROVE c \in S
    <2>1. PICK D \in SUBSET Block : \E g \in [D -> V] : Parent[c] \in D /\ Solves(g, D, v, F)
      BY <1>2, Zenon
    <2>2. PICK g \in [D -> V] : Parent[c] \in D /\ Solves(g, D, v, F)
      BY <2>1, Zenon
    <2>3. CASE c \in D
      BY <2>2, <2>3, Zenon
    <2>4. CASE c \notin D
      <3> DEFINE E == D \cup {c}
                 w == F[<<c, g[Parent[c]]>>]
                 h == [d \in E |-> IF d = c THEN w ELSE g[d]]
      <3>1. w \in V
        BY <2>2, Zenon
      <3>2. h \in [E -> V] /\ E \in SUBSET Block
        BY <3>1, Zenon
      <3>3. h[c] = w /\ \A d \in D : h[d] = g[d]
        BY <2>4, Zenon
      <3> HIDE DEF h, w
      <3>4. Solves(h, E, v, F)
        <4>1. Genesis \in E => h[Genesis] = v
          BY <2>2, <3>3, Zenon DEF Solves
        <4>2. ASSUME NEW d \in E \ {Genesis}
              PROVE  Parent[d] \in E /\ h[d] = F[<<d, h[Parent[d]]>>]
          <5>1. CASE d = c
            BY <2>2, <3>3, <5>1, Zenon DEF w
          <5>2. CASE d \in D
            BY <2>2, <3>3, <5>2, Zenon DEF Solves
          <5> QED  BY <5>1, <5>2, Zenon
        <4> QED  BY <4>1, <4>2, Zenon DEF Solves
      <3> QED  BY <3>2, <3>4, Zenon
    <2> QED  BY <2>3, <2>4, Zenon
  <1>3. S = Block
    BY <1>1, <1>2, TreeAssumption, Zenon
  <1> QED  BY <1>3, Zenon

\* A recursion along pprev has a solution on the whole tree.
LEMMA TreeRecursion ==
    ASSUME NEW V, NEW v \in V, NEW F \in [Block \X V -> V]
    PROVE  \E f \in [Block -> V] : Solves(f, Block, v, F)
  <1> DEFINE IsValue(b, w) ==
                 \E D \in SUBSET Block : \E g \in [D -> V] :
                     b \in D /\ Solves(g, D, v, F) /\ w = g[b]
             f == [b \in Block |-> CHOOSE w \in V : IsValue(b, w)]
  <1>1. ASSUME NEW b \in Block PROVE \E w \in V : IsValue(b, w)
    <2>1. \E D \in SUBSET Block : \E g \in [D -> V] : b \in D /\ Solves(g, D, v, F)
      BY SolutionsReach, Zenon
    <2> QED  BY <2>1, Zenon
  <1>2. \A b \in Block : f[b] \in V /\ IsValue(b, f[b])
    BY <1>1, Zenon
  <1> HIDE DEF f
  <1>3. ASSUME NEW D \in SUBSET Block, NEW g \in [D -> V], Solves(g, D, v, F), NEW b \in D
        PROVE  f[b] = g[b]
    <2>1. PICK E \in SUBSET Block : \E h \in [E -> V] :
              b \in E /\ Solves(h, E, v, F) /\ f[b] = h[b]
      BY <1>2, Zenon
    <2>2. PICK h \in [E -> V] : b \in E /\ Solves(h, E, v, F) /\ f[b] = h[b]
      BY <2>1, Zenon
    <2>3. Agree(g, D, h, E)
      BY <1>3, <2>2, SolutionsAgree, Zenon
    <2> QED  BY <2>2, <2>3, Zenon DEF Agree
  <1>4. f \in [Block -> V]
    BY <1>2, Zenon DEF f
  <1>5. f[Genesis] = v
    <2>1. IsValue(Genesis, f[Genesis])
      BY <1>2, AncestryAssumption, Zenon
    <2> QED  BY <2>1, Zenon DEF Solves
  <1>6. ASSUME NEW b \in Block \ {Genesis}
        PROVE  Parent[b] \in Block /\ f[b] = F[<<b, f[Parent[b]]>>]
    <2>1. PICK D \in SUBSET Block : \E g \in [D -> V] :
              b \in D /\ Solves(g, D, v, F) /\ f[b] = g[b]
      BY <1>2, Zenon
    <2>2. PICK g \in [D -> V] : b \in D /\ Solves(g, D, v, F) /\ f[b] = g[b]
      BY <2>1, Zenon
    <2>3. Parent[b] \in D /\ g[b] = F[<<b, g[Parent[b]]>>]
      BY <2>2, Zenon DEF Solves
    <2>4. f[Parent[b]] = g[Parent[b]]
      BY <1>3, <2>2, <2>3, Zenon
    <2> QED  BY <2>2, <2>3, <2>4, Zenon
  <1>7. Solves(f, Block, v, F)
    BY <1>5, <1>6, Zenon DEF Solves
  <1> QED  BY <1>4, <1>7, Zenon

-----------------------------------------------------------------------------
(* nHeight and the blocks below a block *)

\* nHeight is defined on the whole tree, one more than the parent's.
LEMMA HeightDef ==
    /\ Height \in [Block -> Nat]
    /\ Height[Genesis] = 0
    /\ \A b \in Block \ {Genesis} : Height[b] = 1 + Height[Parent[b]]
  <1> DEFINE F == [p \in Block \X Nat |-> 1 + p[2]]
             IsHeight(f) == f = [b \in Block |-> IF b = Genesis THEN 0 ELSE 1 + f[Parent[b]]]
  <1>1. F \in [Block \X Nat -> Nat]
    OBVIOUS
  <1>2. \A b \in Block, n \in Nat : F[<<b, n>>] = 1 + n
    BY Zenon
  <1> HIDE DEF F
  <1>3. PICK f \in [Block -> Nat] : Solves(f, Block, 0, F)
    BY <1>1, TreeRecursion, Zenon
  <1>4. IsHeight(f)
    <2>1. \A b \in Block : f[b] = IF b = Genesis THEN 0 ELSE 1 + f[Parent[b]]
      BY <1>2, <1>3, AncestryAssumption, Zenon DEF Solves
    <2> QED  BY <2>1, Zenon
  <1>5. IsHeight(Height)
    BY <1>4, Zenon DEF Height
  <1> DEFINE S == {b \in Block : Height[b] \in Nat}
  <1>6. \A b \in Block : Height[b] = IF b = Genesis THEN 0 ELSE 1 + Height[Parent[b]]
    BY <1>5, Zenon
  <1>7. S = Block
    <2>1. Genesis \in S
      BY <1>6, AncestryAssumption
    <2>2. \A b \in Block \ {Genesis} : Parent[b] \in S => b \in S
      BY <1>6
    <2> QED  BY <2>1, <2>2, TreeAssumption, Zenon
  <1>8. Height \in [Block -> Nat]
    BY <1>5, <1>7, Zenon
  <1> QED  BY <1>6, <1>8, AncestryAssumption, Zenon

\* The blocks from a block down to Genesis are defined on the whole tree.
LEMMA AncestorsDef ==
    /\ Ancestors \in [Block -> SUBSET Block]
    /\ Ancestors[Genesis] = {Genesis}
    /\ \A b \in Block \ {Genesis} : Ancestors[b] = {b} \cup Ancestors[Parent[b]]
  <1> DEFINE V == SUBSET Block
             F == [p \in Block \X V |-> {p[1]} \cup p[2]]
             IsAncestors(f) ==
                 f = [b \in Block |-> IF b = Genesis THEN {b} ELSE {b} \cup f[Parent[b]]]
  <1>1. F \in [Block \X V -> V]
    BY Zenon
  <1>2. \A b \in Block, W \in V : F[<<b, W>>] = {b} \cup W
    BY Zenon
  <1>3. {Genesis} \in V
    BY AncestryAssumption, Zenon
  <1> HIDE DEF F
  <1>4. PICK f \in [Block -> V] : Solves(f, Block, {Genesis}, F)
    <2> HIDE DEF V
    <2> QED  BY <1>1, <1>3, TreeRecursion, Zenon
  <1>5. IsAncestors(f)
    <2>1. \A b \in Block : f[b] = IF b = Genesis THEN {b} ELSE {b} \cup f[Parent[b]]
      BY <1>2, <1>4, AncestryAssumption, Zenon DEF Solves
    <2> QED  BY <2>1, Zenon
  <1>6. IsAncestors(Ancestors)
    BY <1>5, Zenon DEF Ancestors
  <1> DEFINE S == {b \in Block : Ancestors[b] \subseteq Block}
  <1>7. \A b \in Block : Ancestors[b] = IF b = Genesis THEN {b} ELSE {b} \cup Ancestors[Parent[b]]
    BY <1>6, Zenon
  <1>8. S = Block
    <2>1. Genesis \in S
      BY <1>7, AncestryAssumption, Zenon
    <2>2. \A b \in Block \ {Genesis} : Parent[b] \in S => b \in S
      BY <1>7, Zenon
    <2> QED  BY <2>1, <2>2, TreeAssumption, Zenon
  <1>9. Ancestors \in [Block -> SUBSET Block]
    BY <1>6, <1>8, Zenon
  <1> QED  BY <1>7, <1>9, AncestryAssumption, Zenon

\* The chain of a block begins with the block and ends with Genesis.
LEMMA AncestorsEnds ==
    \A b \in Block : Ancestors[b] \subseteq Block /\ b \in Ancestors[b] /\ Genesis \in Ancestors[b]
  <1> DEFINE S == {b \in Block : b \in Ancestors[b] /\ Genesis \in Ancestors[b]}
  <1>1. S = Block
    <2>1. Genesis \in S
      BY AncestorsDef, AncestryAssumption, Zenon
    <2>2. \A b \in Block \ {Genesis} : Parent[b] \in S => b \in S
      BY AncestorsDef, Zenon
    <2> QED  BY <2>1, <2>2, TreeAssumption, Zenon
  <1> QED  BY <1>1, AncestorsDef, Zenon

\* It holds the whole chain of each of its blocks.
LEMMA AncestorsClosed ==
    \A b \in Block : \A a \in Ancestors[b] : Ancestors[a] \subseteq Ancestors[b]
  <1> DEFINE S == {b \in Block : \A a \in Ancestors[b] : Ancestors[a] \subseteq Ancestors[b]}
  <1>1. Genesis \in S
    BY AncestorsDef, AncestryAssumption, Zenon
  <1>2. ASSUME NEW b \in Block \ {Genesis}, Parent[b] \in S PROVE b \in S
    BY <1>2, AncestorsDef
  <1>3. S = Block
    BY <1>1, <1>2, TreeAssumption, Zenon
  <1> QED  BY <1>3, Zenon

LEMMA ParentBelow ==
    \A b \in Block : \A a \in Ancestors[b] \ {Genesis} : Parent[a] \in Ancestors[b]
  <1> SUFFICES ASSUME NEW b \in Block, NEW a \in Ancestors[b] \ {Genesis}
               PROVE  Parent[a] \in Ancestors[b]
    BY Zenon
  <1>1. a \in Block /\ Parent[a] \in Block
    BY AncestorsEnds, AncestryAssumption, Zenon
  <1>2. Parent[a] \in Ancestors[a]
    BY <1>1, AncestorsDef, AncestorsEnds, Zenon
  <1> QED  BY <1>2, AncestorsClosed, Zenon

\* The blocks below a block are lower than it.
LEMMA LowerBelow ==
    \A b \in Block : \A a \in Ancestors[b] : a = b \/ Height[a] < Height[b]
  <1> DEFINE S == {b \in Block : \A a \in Ancestors[b] : a = b \/ Height[a] < Height[b]}
  <1>1. Genesis \in S
    BY AncestorsDef, AncestryAssumption, Zenon
  <1>2. ASSUME NEW b \in Block \ {Genesis}, Parent[b] \in S PROVE b \in S
    <2>1. ASSUME NEW a \in Ancestors[Parent[b]] PROVE Height[a] < Height[b]
      <3>1. a \in Block /\ Parent[b] \in Block
        BY AncestorsEnds, AncestryAssumption, Zenon
      <3>2. a = Parent[b] \/ Height[a] < Height[Parent[b]]
        BY <1>2, Zenon
      <3>3. Height[a] \in Nat /\ Height[Parent[b]] \in Nat /\ Height[b] = 1 + Height[Parent[b]]
        BY <3>1, HeightDef, Zenon
      <3> QED  BY <3>2, <3>3
    <2>2. Ancestors[b] = {b} \cup Ancestors[Parent[b]]
      BY AncestorsDef, Zenon
    <2> QED  BY <2>1, <2>2, Zenon
  <1>3. S = Block
    BY <1>1, <1>2, TreeAssumption, Zenon
  <1> QED  BY <1>3, Zenon

\* Of two blocks below one block, one is below the other.
LEMMA InARow ==
    \A b \in Block : \A a, c \in Ancestors[b] : a \in Ancestors[c] \/ c \in Ancestors[a]
  <1> DEFINE S == {b \in Block :
                     \A a, c \in Ancestors[b] : a \in Ancestors[c] \/ c \in Ancestors[a]}
  <1>1. Genesis \in S
    BY AncestorsDef, AncestryAssumption, Zenon
  <1>2. ASSUME NEW b \in Block \ {Genesis}, Parent[b] \in S PROVE b \in S
    BY <1>2, AncestorsDef
  <1>3. S = Block
    BY <1>1, <1>2, TreeAssumption, Zenon
  <1> QED  BY <1>3, Zenon

\* There is one block at a height below a block.
LEMMA OneAtAHeight ==
    \A b \in Block : \A a, c \in Ancestors[b] : Height[a] = Height[c] => a = c
  <1> SUFFICES ASSUME NEW b \in Block, NEW a \in Ancestors[b], NEW c \in Ancestors[b],
                      Height[a] = Height[c]
               PROVE  a = c
    BY Zenon
  <1>1. a \in Block /\ c \in Block
    BY AncestorsEnds, Zenon
  <1>2. Height[a] \in Nat /\ Height[c] \in Nat
    BY <1>1, HeightDef, Zenon
  <1>3. a \in Ancestors[c] \/ c \in Ancestors[a]
    BY InARow, Zenon
  <1>4. a = c \/ Height[a] < Height[c] \/ Height[c] < Height[a]
    BY <1>1, <1>3, LowerBelow, Zenon
  <1> QED  BY <1>2, <1>4

\* On the way up to a block, every block below it has a child.
LEMMA NextUp ==
    \A b \in Block : \A a \in Ancestors[b] \ {b} :
        \E c \in Ancestors[b] \ {Genesis} : Parent[c] = a
  <1> DEFINE S == {b \in Block : \A a \in Ancestors[b] \ {b} :
                     \E c \in Ancestors[b] \ {Genesis} : Parent[c] = a}
  <1>1. Genesis \in S
    BY AncestorsDef, AncestryAssumption, Zenon
  <1>2. ASSUME NEW b \in Block \ {Genesis}, Parent[b] \in S PROVE b \in S
    BY <1>2, AncestorsDef
  <1>3. S = Block
    BY <1>1, <1>2, TreeAssumption, Zenon
  <1> QED  BY <1>3, Zenon

\* A set of blocks below one block has a highest one.
LEMMA HighestBelow ==
    ASSUME NEW b \in Block, NEW T \in SUBSET Ancestors[b], T # {}
    PROVE  \E t \in T : \A a \in T : Height[a] <= Height[t]
  <1> DEFINE S == {c \in Block : \A U \in SUBSET Ancestors[c] :
                     U # {} => \E t \in U : \A a \in U : Height[a] <= Height[t]}
  <1>1. Genesis \in S
    BY AncestorsDef, AncestryAssumption, HeightDef
  <1>2. ASSUME NEW c \in Block \ {Genesis}, Parent[c] \in S PROVE c \in S
    <2> SUFFICES ASSUME NEW U \in SUBSET Ancestors[c], U # {}
                 PROVE  \E t \in U : \A a \in U : Height[a] <= Height[t]
      BY Zenon
    <2>1. CASE c \in U
      <3>1. \A a \in U : a = c \/ Height[a] < Height[c]
        BY LowerBelow, Zenon
      <3>2. \A a \in U : Height[a] \in Nat
        BY HeightDef, AncestorsEnds, Zenon
      <3> QED  BY <2>1, <3>1, <3>2
    <2>2. CASE c \notin U
      <3>1. U \in SUBSET Ancestors[Parent[c]]
        BY <2>2, AncestorsDef, Zenon
      <3> QED  BY <1>2, <3>1, Zenon
    <2> QED  BY <2>1, <2>2, Zenon
  <1>3. S = Block
    BY <1>1, <1>2, TreeAssumption, Zenon
  <1> QED  BY <1>3, Zenon

-----------------------------------------------------------------------------
(* GetAncestor and LastCommonAncestor *)

\* Every height up to a block's has a block below it.
LEMMA AtEveryHeight ==
    \A b \in Block : \A h \in 0..Height[b] : \E a \in Ancestors[b] : Height[a] = h
  <1> DEFINE S == {b \in Block : \A h \in 0..Height[b] : \E a \in Ancestors[b] : Height[a] = h}
  <1>1. Genesis \in S
    BY AncestorsDef, AncestryAssumption, HeightDef
  <1>2. ASSUME NEW b \in Block \ {Genesis}, Parent[b] \in S PROVE b \in S
    <2> SUFFICES ASSUME NEW h \in 0..Height[b] PROVE \E a \in Ancestors[b] : Height[a] = h
      BY Zenon
    <2>1. Height[b] = 1 + Height[Parent[b]] /\ Height[Parent[b]] \in Nat
      BY HeightDef, AncestryAssumption, Zenon
    <2>2. h = Height[b] \/ h \in 0..Height[Parent[b]]
      BY <2>1
    <2> QED  BY <1>2, <2>2, AncestorsDef, AncestorsEnds
  <1>3. S = Block
    BY <1>1, <1>2, TreeAssumption, Zenon
  <1> QED  BY <1>3, Zenon

\* GetAncestor finds the block below b at a height, or nothing.
LEMMA GetAncestorDef ==
    ASSUME NEW b \in Block, NEW h \in Int
    PROVE  /\ h \in 0..Height[b] =>
                  GetAncestor(b, h) \in Ancestors[b] /\ Height[GetAncestor(b, h)] = h
           /\ h \notin 0..Height[b] => GetAncestor(b, h) = NoBlock
  BY AtEveryHeight, Zenon DEF GetAncestor

\* It is how the code asks whether c is below b.
LEMMA GetAncestorTest ==
    ASSUME NEW b \in Block, NEW c \in Block
    PROVE  GetAncestor(b, Height[c]) = c <=> c \in Ancestors[b]
  <1>1. Height[c] \in Nat /\ Height[b] \in Nat
    BY HeightDef, Zenon
  <1>2. CASE Height[c] \in 0..Height[b]
    <2>1. GetAncestor(b, Height[c]) \in Ancestors[b]
          /\ Height[GetAncestor(b, Height[c])] = Height[c]
      BY <1>1, <1>2, GetAncestorDef
    <2> QED  BY <2>1, OneAtAHeight, Zenon
  <1>3. CASE Height[c] \notin 0..Height[b]
    <2>1. GetAncestor(b, Height[c]) = NoBlock
      BY <1>1, <1>3, GetAncestorDef
    <2>2. c \notin Ancestors[b]
      BY <1>1, <1>3, LowerBelow
    <2> QED  BY <2>1, <2>2, AncestryAssumption, Zenon
  <1> QED  BY <1>2, <1>3, Zenon

\* The blocks below both of two blocks are those below their last common ancestor.
LEMMA ForkDef ==
    ASSUME NEW a \in Block, NEW b \in Block
    PROVE  /\ LastCommonAncestor(a, b) \in Ancestors[a] \cap Ancestors[b]
           /\ Ancestors[LastCommonAncestor(a, b)] = Ancestors[a] \cap Ancestors[b]
  <1> DEFINE T == Ancestors[a] \cap Ancestors[b]
             f == LastCommonAncestor(a, b)
  <1>1. T \in SUBSET Ancestors[a] /\ T # {}
    BY AncestorsEnds, Zenon
  <1>2. \E t \in T : \A d \in T : Height[d] <= Height[t]
    <2> HIDE DEF T
    <2> QED  BY <1>1, HighestBelow, Zenon
  <1>3. f \in T /\ \A d \in T : Height[d] <= Height[f]
    BY <1>2, Zenon DEF LastCommonAncestor
  <1>4. Ancestors[f] \subseteq T
    BY <1>3, AncestorsClosed, Zenon
  <1>5. ASSUME NEW d \in T PROVE d \in Ancestors[f]
    <2>1. d \in Block /\ f \in Block
      BY <1>3, AncestorsEnds, Zenon
    <2>2. d \in Ancestors[f] \/ f \in Ancestors[d]
      BY <1>3, InARow, Zenon
    <2>3. Height[d] \in Nat /\ Height[f] \in Nat
      BY <2>1, HeightDef, Zenon
    <2>4. f \in Ancestors[d] => f = d
      BY <1>3, <2>1, <2>3, LowerBelow
    <2> QED  BY <2>1, <2>2, <2>4, AncestorsEnds, Zenon
  <1> QED  BY <1>3, <1>4, <1>5, Zenon
=============================================================================
