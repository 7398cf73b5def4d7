------------------------- MODULE AnyVecLayoutProofs -------------------------
(***************************************************************************)
(* Proofs about AnyVecLayout, for any values, element size, first block    *)
(* and length.                                                             *)
(*                                                                         *)
(* The argument: each block is twice as long as the one before it          *)
(* (BlocksInv), so the arithmetic has closed forms: the block at i has     *)
(* Width(i) elements, of which the first has index Width(i) - FirstBlock.  *)
(* The functions that the code computes by going through the blocks equal  *)
(* these, and so number and address every slot alike.  That holds with any *)
(* number of removers.  With one remover, in addition, the only dead bytes *)
(* are in the hole that it is about to fill (MemInv), so that nothing is   *)
(* lost and its caller sees one step (ContentsIdle, ContentsBusy).         *)
(***************************************************************************)
EXTENDS AnyVecLayout, FiniteSetTheorems, FunctionTheorems, SequenceTheorems,
        WellFoundedInduction, TLAPS

\* How many elements the block at i has, when all blocks before it are there
Width(i) == FirstBlock * 2 ^ i

\* Each block is twice as long as the one before it
Doubling(b) == b \in Seq(Nat) /\ \A k \in 1 .. Len(b) : b[k] = Width(k - 1) * Size

\* The inductive invariant for any removers: init_len stays below the capacity
BlocksInv ==
  /\ Doubling(blocks) /\ Len(blocks) \in Nat \ {0}
  /\ initLen \in Int /\ initLen < Capacity(blocks)
  /\ pc \in [Removers -> {"idle", "len", "fill"}]

-----------------------------------------------------------------------------
(* Powers and widths                                                       *)

\* A set of natural numbers has a smallest element, unless it is empty
LEMMA SmallestOf ==
  ASSUME NEW T, T \subseteq Nat, T # {}
  PROVE  \E i \in T : \A j \in T : i <= j
<1> DEFINE R == {p \in Nat \X Nat : p[1] < p[2]}
<1>1. IsWellFoundedOn(R, Nat)
  BY NatLessThanWellFounded DEF OpToRel
<1>2. ASSUME NEW i \in T, NEW j \in T, <<j, i>> \notin R
      PROVE  i <= j
  <2>1. <<j, i>> \in Nat \X Nat
    OBVIOUS
  <2>2. ~ (j < i)
    BY <1>2, <2>1
  <2>3. i \in Nat /\ j \in Nat
    OBVIOUS
  <2>4. QED  BY <2>2, <2>3
<1> HIDE DEF R
<1>3. \E i \in T : \A j \in T : ~ (<<j, i>> \in R)
  BY <1>1, WFMin, Zenon
<1>4. QED  BY <1>2, <1>3

\* 2 ^ n is the number of subsets of a set of n elements: this is what is known
\* of exponentiation
LEMMA PowerCounts ==
  ASSUME NEW n \in Nat
  PROVE  IsFiniteSet(SUBSET (1 .. n)) /\ Cardinality(SUBSET (1 .. n)) = 2 ^ n /\ 2 ^ n \in Nat
<1>1. IsFiniteSet(1 .. n) /\ Cardinality(1 .. n) = n
  BY FS_Interval
<1>2. QED  BY <1>1, FS_SUBSET, FS_CardinalityType

\* Half of the subsets of 1 .. n + 1 have n + 1 as a member
LEMMA PowerDoubles ==
  ASSUME NEW n \in Nat
  PROVE  2 ^ (n + 1) = 2 * 2 ^ n /\ 2 ^ n \in Nat \ {0}
<1> DEFINE Without == SUBSET (1 .. n)
           With == {X \in SUBSET (1 .. n + 1) : n + 1 \in X}
           join == [X \in Without |-> X \cup {n + 1}]
<1>1. IsFiniteSet(Without) /\ Cardinality(Without) = 2 ^ n /\ 2 ^ n \in Nat
  BY PowerCounts
<1>2. Cardinality(SUBSET (1 .. n + 1)) = 2 ^ (n + 1)
  BY PowerCounts
<1>3. ExistsBijection(Without, With)
  <2>1. \A X \in Without : n + 1 \notin X /\ X \cup {n + 1} \in With
    OBVIOUS
  <2>2. join \in [Without -> With]
    BY <2>1
  <2>3. ASSUME NEW X \in Without, NEW Y \in Without, join[X] = join[Y]
        PROVE  X = Y
    BY <2>1, <2>3
  <2>4. ASSUME NEW Y \in With
        PROVE  \E X \in Without : join[X] = Y
    <3>1. Y \ {n + 1} \in Without
      OBVIOUS
    <3>2. join[Y \ {n + 1}] = Y
      BY <3>1
    <3>3. QED  BY <3>1, <3>2
  <2>5. join \in Bijection(Without, With)
    BY <2>2, <2>3, <2>4 DEF Bijection, Injection, Surjection, IsInjective
  <2>6. QED  BY <2>5 DEF ExistsBijection
<1>4. IsFiniteSet(With) /\ Cardinality(With) = 2 ^ n
  BY <1>1, <1>3, FS_Bijection
<1>5. Without \cap With = {} /\ SUBSET (1 .. n + 1) = Without \cup With
  <2>1. \A X \in SUBSET (1 .. n + 1) : n + 1 \in X \/ X \subseteq 1 .. n
    OBVIOUS
  <2>2. QED  BY <2>1
<1>6. PICK c \in Nat : c = 2 ^ n
  BY <1>1
<1> HIDE DEF Without, With, join
<1>7. Cardinality(Without \cap With) = 0
  BY <1>5, FS_EmptySet
<1>8. Cardinality(Without \cup With)
        = Cardinality(Without) + Cardinality(With) - Cardinality(Without \cap With)
  BY <1>1, <1>4, FS_Union
<1>9. 2 ^ (n + 1) = c + c - 0
  BY <1>1, <1>2, <1>4, <1>5, <1>6, <1>7, <1>8
<1>10. c # 0
  <2>1. Without # {}
    BY DEF Without
  <2>2. QED  BY <1>1, <1>6, <2>1, FS_EmptySet
<1>11. QED  BY <1>6, <1>9, <1>10

\* Elements are laid out without gaps
LEMMA Exactly ==
  ASSUME NEW n \in Nat
  PROVE  (n * Size) \div Size = n /\ n * Size \in Nat /\ (n * Size) % Size = 0
BY SizeAssumption

LEMMA WidthDoubles ==
  ASSUME NEW i \in Nat
  PROVE  /\ Width(i) \in Nat \ {0} /\ Width(i + 1) = 2 * Width(i)
         /\ Width(i + 1) * Size = 2 * (Width(i) * Size)
<1>1. PICK p \in Nat \ {0} : p = 2 ^ i /\ 2 ^ (i + 1) = 2 * p
  BY PowerDoubles
<1>2. PICK f \in Nat \ {0} : f = FirstBlock
  BY FirstBlockAssumption
<1>3. f * p \in Nat \ {0} /\ f * (2 * p) = 2 * (f * p)
  OBVIOUS
<1>4. PICK w \in Nat \ {0} : w = f * p
  BY <1>3
<1>5. Width(i) = w /\ Width(i + 1) = 2 * w
  BY <1>1, <1>2, <1>3, <1>4 DEF Width
<1>6. (2 * w) * Size = 2 * (w * Size)
  BY SizeAssumption
<1>7. QED  BY <1>5, <1>6

LEMMA FirstWidth == Width(0) = FirstBlock
<1>1. 2 ^ 0 = 1
  OBVIOUS
<1>2. QED  BY <1>1, FirstBlockAssumption DEF Width

\* The blocks are longer the later they are
LEMMA WidthGrows ==
  ASSUME NEW i \in Nat, NEW j \in Nat, i < j
  PROVE  2 * Width(i) <= Width(j)
<1> DEFINE Bad == {k \in Nat : i < k /\ ~ (2 * Width(i) <= Width(k))}
<1>1. SUFFICES ASSUME Bad # {} PROVE FALSE
  OBVIOUS
<1>2. PICK k \in Bad : \A l \in Bad : k <= l
  BY <1>1, SmallestOf
<1>3. CASE k = i + 1
  BY <1>3, <1>2, WidthDoubles
<1>4. CASE k # i + 1
  <2>1. k - 1 \in Nat /\ i < k - 1 /\ (k - 1) + 1 = k
    BY <1>2, <1>4
  <2>2. k - 1 \notin Bad
    BY <1>2, <2>1
  <2>3. 2 * Width(i) <= Width(k - 1)
    BY <2>1, <2>2
  <2>4. Width(k) = 2 * Width(k - 1) /\ Width(k - 1) \in Nat /\ Width(i) \in Nat
    BY <2>1, WidthDoubles
  <2>5. QED  BY <1>2, <2>3, <2>4
<1>5. QED  BY <1>3, <1>4

-----------------------------------------------------------------------------
(* The capacity                                                            *)

LEMMA CapacityIs ==
  ASSUME NEW b, Doubling(b)
  PROVE  Capacity(b) = Width(Len(b)) - FirstBlock
<1> DEFINE D == 0 .. Len(b)
           e(f, n) == IF n = 0 THEN 0 ELSE f[n - 1] + b[n] \div Size
           Sum == CHOOSE f : f = [n \in D |-> e(f, n)]
           closed == [n \in D |-> Width(n) - FirstBlock]
<1>1. Len(b) \in Nat
  BY DEF Doubling
<1>2. ASSUME NEW n \in D, n # 0
      PROVE  /\ b[n] \div Size = Width(n - 1) /\ n - 1 \in D
             /\ Width(n) - FirstBlock = (Width(n - 1) - FirstBlock) + b[n] \div Size
  <2>1. n - 1 \in D /\ n - 1 \in Nat /\ n \in 1 .. Len(b) /\ (n - 1) + 1 = n
    BY <1>1, <1>2
  <2>2. Width(n - 1) \in Nat /\ Width(n) = 2 * Width(n - 1)
    BY <2>1, WidthDoubles
  <2>3. b[n] \div Size = Width(n - 1)
    BY <2>1, <2>2, Exactly DEF Doubling
  <2>4. QED  BY <2>1, <2>2, <2>3, FirstBlockAssumption
<1>3. closed = [n \in D |-> e(closed, n)]
  <2>1. ASSUME NEW n \in D
        PROVE  closed[n] = e(closed, n)
    <3>1. CASE n = 0
      BY <3>1, FirstWidth, FirstBlockAssumption
    <3>2. CASE n # 0
      BY <3>2, <1>2
    <3>3. QED  BY <3>1, <3>2
  <2>2. QED  BY <2>1
<1>4. Sum = [n \in D |-> e(Sum, n)]
  BY <1>3
<1>5. \A n \in D : Sum[n] = closed[n]
  <2> DEFINE Bad == {n \in D : Sum[n] # closed[n]}
  <2>1. SUFFICES ASSUME Bad # {} PROVE FALSE
    OBVIOUS
  <2>2. PICK n \in Bad : \A m \in Bad : n <= m
    <3>1. Bad \subseteq Nat
      BY <1>1
    <3>2. QED  BY <2>1, <3>1, SmallestOf, Zenon
  <2>3. Sum[n] = e(Sum, n)
    BY <1>4
  <2>4. closed[n] = e(closed, n)
    BY <1>3
  <2>5. n # 0
    BY <2>2, <2>3, <2>4
  <2>6. n - 1 \in D /\ n - 1 < n
    BY <1>1, <1>2, <2>5
  <2>7. Sum[n - 1] = closed[n - 1]
    BY <1>1, <2>2, <2>6
  <2>8. QED  BY <2>2, <2>3, <2>4, <2>5, <2>7
<1>6. Capacity(b) = Sum[Len(b)]
  BY DEF Capacity
<1>7. QED  BY <1>1, <1>5, <1>6

-----------------------------------------------------------------------------
(* Pointers                                                                *)

\* Where the block at i starts, counted in bytes from one block length before
\* the first
Edge(i) == Width(i) * Size

LEMMA EdgeDoubles ==
  ASSUME NEW i \in Nat
  PROVE  Edge(i) \in Nat \ {0} /\ Edge(i + 1) = 2 * Edge(i)
BY WidthDoubles, SizeAssumption DEF Edge

LEMMA EdgeGrows ==
  ASSUME NEW i \in Nat, NEW j \in Nat, i < j
  PROVE  2 * Edge(i) <= Edge(j)
<1>1. PICK d \in Nat : Width(j) = 2 * Width(i) + d
  <2>1. Width(i) \in Nat /\ Width(j) \in Nat /\ 2 * Width(i) <= Width(j)
    BY WidthDoubles, WidthGrows
  <2>2. Width(j) - 2 * Width(i) \in Nat
    BY <2>1
  <2>3. QED  BY <2>1, <2>2
<1>2. PICK w \in Nat : w = Width(i)
  BY WidthDoubles
<1>3. (2 * w + d) * Size = 2 * (w * Size) + d * Size /\ d * Size \in Nat /\ w * Size \in Nat
  BY SizeAssumption
<1>4. QED  BY <1>1, <1>2, <1>3 DEF Edge

\* What the search of get_bytes_ptr does at block p[1], with p[2] left of the
\* offset
Step(b, f, p) ==
  IF p[1] = Len(b) \/ p[2] < b[p[1] + 1] THEN p
  ELSE f[<<p[1] + 1, p[2] - b[p[1] + 1]>>]

\* The search, as the recursive definition in Pointer has it
Search(b) == CHOOSE f : f = [p \in (0 .. Len(b)) \X Nat |-> Step(b, f, p)]

LEMMA PointerSearches ==
  ASSUME NEW b, NEW index
  PROVE  Pointer(b, index) = Search(b)[<<0, index * Size>>]
BY DEF Pointer, Search, Step

\* The first edge that is beyond the offset o, where o is counted from the
\* block at i
Found(b, i, o) == {m \in i .. Len(b) : m = Len(b) \/ o + Edge(i) < Edge(m + 1)}
Least(S) == CHOOSE m \in S : \A l \in S : m <= l
Ending(b, i, o) ==
  <<Least(Found(b, i, o)), (o + Edge(i)) - Edge(Least(Found(b, i, o)))>>

\* Looking for that edge is doing what the search does
LEMMA EndingSteps ==
  ASSUME NEW b, Doubling(b), NEW i \in 0 .. Len(b), NEW o \in Nat
  PROVE  Ending(b, i, o) = IF i = Len(b) \/ o < b[i + 1] THEN <<i, o>>
                           ELSE Ending(b, i + 1, o - b[i + 1])
<1>1. Len(b) \in Nat
  BY DEF Doubling
<1>2. Edge(i) \in Nat /\ Edge(i + 1) = 2 * Edge(i) /\ i \in Nat
  BY <1>1, EdgeDoubles
<1>3. i # Len(b) => b[i + 1] = Edge(i) /\ i + 1 \in 0 .. Len(b)
  <2>1. i # Len(b) => i + 1 \in 1 .. Len(b) /\ (i + 1) - 1 = i
    BY <1>1
  <2>2. QED  BY <1>1, <2>1 DEF Doubling, Edge
<1>4. CASE i = Len(b) \/ o < b[i + 1]
  <2>1. i \in Found(b, i, o) /\ Found(b, i, o) \subseteq i .. Len(b)
    BY <1>1, <1>2, <1>3, <1>4 DEF Found
  <2>2. \A l \in Found(b, i, o) : i <= l
    BY <1>1, <1>2, <2>1
  <2>3. /\ Least(Found(b, i, o)) \in Found(b, i, o)
        /\ \A l \in Found(b, i, o) : Least(Found(b, i, o)) <= l
    BY <2>1, <2>2 DEF Least
  <2>4. Least(Found(b, i, o)) = i
    BY <1>1, <1>2, <2>1, <2>2, <2>3
  <2>5. (o + Edge(i)) - Edge(i) = o
    BY <1>2
  <2>6. QED  BY <1>4, <2>4, <2>5 DEF Ending
<1>5. CASE ~ (i = Len(b) \/ o < b[i + 1])
  <2>1. b[i + 1] = Edge(i) /\ o - Edge(i) \in Nat
        /\ (o - Edge(i)) + Edge(i + 1) = o + Edge(i)
    BY <1>2, <1>3, <1>5
  <2>2. Found(b, i + 1, o - Edge(i)) = Found(b, i, o)
    BY <1>1, <1>2, <1>5, <2>1 DEF Found
  <2>3. QED  BY <1>5, <2>1, <2>2 DEF Ending
<1>6. QED  BY <1>4, <1>5

\* So there is a function that does what the search does
LEMMA SearchExists ==
  ASSUME NEW b, Doubling(b), NEW i \in 0 .. Len(b), NEW o \in Nat
  PROVE  Search(b)[<<i, o>>] = IF i = Len(b) \/ o < b[i + 1] THEN <<i, o>>
                               ELSE Search(b)[<<i + 1, o - b[i + 1]>>]
<1> DEFINE D == (0 .. Len(b)) \X Nat
           closed == [p \in D |-> Ending(b, p[1], p[2])]
<1>1. Len(b) \in Nat
  BY DEF Doubling
<1>2. ASSUME NEW p \in D
      PROVE  closed[p] = Step(b, closed, p)
  <2>1. p[1] \in 0 .. Len(b) /\ p[2] \in Nat /\ p = <<p[1], p[2]>>
    OBVIOUS
  <2>2. CASE p[1] = Len(b) \/ p[2] < b[p[1] + 1]
    BY <2>1, <2>2, EndingSteps DEF Step
  <2>3. CASE ~ (p[1] = Len(b) \/ p[2] < b[p[1] + 1])
    <3>1. p[1] + 1 \in 0 .. Len(b) /\ p[1] + 1 \in 1 .. Len(b)
      BY <1>1, <2>1, <2>3
    <3>2. b[p[1] + 1] \in Nat
      BY <3>1 DEF Doubling
    <3>3. p[2] - b[p[1] + 1] \in Nat
      BY <2>1, <2>3, <3>2
    <3>4. closed[<<p[1] + 1, p[2] - b[p[1] + 1]>>]
            = Ending(b, p[1] + 1, p[2] - b[p[1] + 1])
      BY <3>1, <3>3
    <3>5. Ending(b, p[1], p[2]) = Ending(b, p[1] + 1, p[2] - b[p[1] + 1])
      BY <2>1, <2>3, EndingSteps
    <3>6. closed[p] = Ending(b, p[1], p[2])
      OBVIOUS
    <3> HIDE DEF closed
    <3>7. QED  BY <2>3, <3>4, <3>5, <3>6 DEF Step
  <2>4. QED  BY <2>2, <2>3
<1>3. closed = [p \in D |-> Step(b, closed, p)]
  BY <1>2
<1> HIDE DEF closed
<1>4. Search(b) = [p \in D |-> Step(b, Search(b), p)]
  BY <1>3 DEF Search
<1>5. <<i, o>> \in D
  OBVIOUS
<1>6. Search(b)[<<i, o>>] = Step(b, Search(b), <<i, o>>)
  BY <1>4, <1>5
<1>7. QED  BY <1>6 DEF Step

\* The search ends in the block where the offset falls
LEMMA SearchFinds ==
  ASSUME NEW b, Doubling(b), NEW m \in 0 .. Len(b) - 1, NEW r \in Nat, r < Edge(m)
  PROVE  Search(b)[<<0, (Edge(m) + r) - Edge(0)>>] = <<m, r>>
<1> DEFINE Rest(i) == (Edge(m) + r) - Edge(i)
           Bad == {d \in 0 .. m : Search(b)[<<m - d, Rest(m - d)>>] # <<m, r>>}
<1>1. Len(b) \in Nat /\ m \in Nat /\ Edge(m) \in Nat
  <2>1. Len(b) \in Nat
    BY DEF Doubling
  <2>2. m \in Nat
    BY <2>1
  <2>3. QED  BY <2>1, <2>2, EdgeDoubles
<1>2. ASSUME NEW i \in 0 .. m
      PROVE  Search(b)[<<i, Rest(i)>>] = IF Rest(i) < Edge(i) THEN <<i, Rest(i)>>
                                         ELSE Search(b)[<<i + 1, Rest(i) - Edge(i)>>]
  <2>1. i + 1 \in 1 .. Len(b) /\ (i + 1) - 1 = i /\ i # Len(b) /\ i \in 0 .. Len(b) /\ i \in Nat
    BY <1>1
  <2>2. b[i + 1] = Edge(i)
    BY <2>1 DEF Doubling, Edge
  <2>3. Edge(i) <= Edge(m) /\ Edge(i) \in Nat
    <3>1. Edge(i) \in Nat
      BY <2>1, EdgeDoubles
    <3>2. i = m \/ i < m
      BY <1>1, <2>1
    <3>3. i < m => 2 * Edge(i) <= Edge(m)
      BY <1>1, <2>1, EdgeGrows
    <3>4. QED  BY <1>1, <3>1, <3>2, <3>3
  <2>4. Rest(i) \in Nat
    BY <1>1, <2>3
  <2> HIDE DEF Rest
  <2>5. QED  BY <2>1, <2>2, <2>4, SearchExists
<1>3. ASSUME NEW d \in Bad, \A c \in Bad : d <= c
      PROVE  FALSE
  <2>1. d \in 0 .. m /\ d \in Nat /\ Search(b)[<<m - d, Rest(m - d)>>] # <<m, r>>
    OBVIOUS
  <2>2. CASE d = 0
    <3>1. m - d = m /\ Rest(m) = r /\ m \in 0 .. m
      BY <1>1, <2>2
    <3>2. Search(b)[<<m, Rest(m)>>] = <<m, r>>
      BY <1>2, <3>1
    <3>3. QED  BY <2>1, <3>1, <3>2
  <2>3. CASE d # 0
    <3>1. /\ m - d \in 0 .. m /\ m - d \in Nat /\ m - d < m
          /\ d - 1 \in 0 .. m /\ m - (d - 1) = (m - d) + 1 /\ ~ (d <= d - 1)
      BY <1>1, <2>1, <2>3
    <3>2. /\ Edge(m - d) \in Nat /\ Edge((m - d) + 1) = 2 * Edge(m - d)
          /\ 2 * Edge(m - d) <= Edge(m)
      BY <1>1, <3>1, EdgeDoubles, EdgeGrows
    <3>3. ~ (Rest(m - d) < Edge(m - d)) /\ Rest(m - d) - Edge(m - d) = Rest((m - d) + 1)
      BY <1>1, <3>2
    <3>4. Search(b)[<<m - d, Rest(m - d)>>] = Search(b)[<<m - (d - 1), Rest(m - (d - 1))>>]
      BY <1>2, <3>1, <3>3
    <3>5. d - 1 \notin Bad
      BY <1>3, <3>1
    <3>6. QED  BY <2>1, <3>1, <3>4, <3>5
  <2>4. QED  BY <2>2, <2>3
<1>4. Bad = {}
  <2>1. Bad \subseteq Nat
    BY <1>1
  <2> HIDE DEF Bad
  <2>2. QED  BY <1>3, <2>1, SmallestOf
<1>5. m \in 0 .. m /\ m - m = 0
  BY <1>1
<1>6. QED  BY <1>4, <1>5

\* The index of the first element of the block at i
First(i) == Width(i) - FirstBlock

LEMMA PointerIs ==
  ASSUME NEW b, Doubling(b), NEW i \in 0 .. Len(b) - 1, NEW j \in 0 .. Width(i) - 1
  PROVE  Pointer(b, First(i) + j) = <<i, j * Size>>
<1>1. PICK w \in Nat : w = Width(i)
  <2>1. i \in Nat
    BY DEF Doubling
  <2>2. QED  BY <2>1, WidthDoubles
<1>2. PICK f \in Nat : f = FirstBlock
  BY FirstBlockAssumption
<1>3. j \in Nat /\ j + 1 <= w
  BY <1>1
<1>4. PICK d \in Nat : w = j + 1 + d
  <2>1. w - (j + 1) \in Nat
    BY <1>3
  <2>2. QED  BY <1>3, <2>1
<1>5. ((w - f) + j) * Size = (w * Size + j * Size) - f * Size
  BY <1>3, SizeAssumption
<1>6. j * Size \in Nat /\ j * Size < w * Size
  <2>1. (j + 1 + d) * Size = j * Size + Size + d * Size /\ j * Size \in Nat /\ d * Size \in Nat
    BY <1>3, SizeAssumption
  <2>2. QED  BY <1>4, <2>1, SizeAssumption
<1>7. Edge(i) = w * Size /\ Edge(0) = f * Size
  BY <1>1, <1>2, FirstWidth DEF Edge
<1>8. Search(b)[<<0, (Edge(i) + j * Size) - Edge(0)>>] = <<i, j * Size>>
  BY <1>6, <1>7, SearchFinds
<1>9. (First(i) + j) * Size = (Edge(i) + j * Size) - Edge(0)
  BY <1>1, <1>2, <1>5, <1>7 DEF First
<1>10. QED  BY <1>8, <1>9, PointerSearches

-----------------------------------------------------------------------------
(* The slots                                                               *)

LEMMA FirstIs ==
  ASSUME NEW i \in Nat
  PROVE  First(i) \in Nat /\ First(i) + FirstBlock = Width(i) /\ FirstBlock <= Width(i)
<1>1. Width(i) \in Nat /\ Width(0) = FirstBlock /\ FirstBlock \in Nat
  BY WidthDoubles, FirstWidth, FirstBlockAssumption
<1>2. i = 0 \/ 2 * Width(0) <= Width(i)
  BY WidthGrows
<1>3. QED  BY <1>1, <1>2 DEF First

\* Each index below that of the first element of the block at n is that of one
\* slot of an earlier block
InSlot(n, k, i, j) == i \in 0 .. n - 1 /\ j \in 0 .. Width(i) - 1 /\ k = First(i) + j

LEMMA SlotOf ==
  ASSUME NEW n \in Nat, NEW k \in Nat, k < First(n)
  PROVE  \E i, j \in Nat : InSlot(n, k, i, j)
<1> DEFINE Beyond == {i \in 0 .. n : k < First(i)}
<1>1. n \in Beyond /\ Beyond \subseteq Nat
  OBVIOUS
<1>2. PICK i \in Beyond : \A l \in Beyond : i <= l
  <2> HIDE DEF Beyond
  <2>1. Beyond # {}
    BY <1>1
  <2>2. QED  BY <1>1, <2>1, SmallestOf, Zenon
<1>3. i # 0
  BY FirstWidth, FirstBlockAssumption DEF First
<1>4. i - 1 \in 0 .. n - 1 /\ i - 1 \in 0 .. n /\ i - 1 \in Nat /\ (i - 1) + 1 = i /\ ~ (i <= i - 1)
  BY <1>3
<1>5. ~ (k < First(i - 1)) /\ k < First(i)
  BY <1>2, <1>4
<1>6. Width(i) = 2 * Width(i - 1) /\ Width(i - 1) \in Nat
  BY <1>4, WidthDoubles
<1>7. First(i - 1) \in Nat /\ First(i) = First(i - 1) + Width(i - 1)
  <2>1. First(i - 1) \in Nat
    BY <1>4, FirstIs
  <2>2. QED  BY <1>6, <2>1, FirstBlockAssumption DEF First
<1>8. k - First(i - 1) \in 0 .. Width(i - 1) - 1 /\ k = First(i - 1) + (k - First(i - 1))
  BY <1>5, <1>6, <1>7
<1>9. k - First(i - 1) \in Nat
  BY <1>5, <1>7
<1>10. InSlot(n, k, i - 1, k - First(i - 1))
  BY <1>4, <1>8 DEF InSlot
<1>11. QED  BY <1>4, <1>9, <1>10

\* and the other way round
LEMMA SlotBelow ==
  ASSUME NEW n \in Nat, NEW i \in 0 .. n - 1, NEW j \in 0 .. Width(i) - 1
  PROVE  First(i) + j \in 0 .. First(n) - 1
<1>1. i \in Nat /\ i < n
  OBVIOUS
<1>2. Width(i) \in Nat /\ Width(n) \in Nat /\ 2 * Width(i) <= Width(n) /\ First(i) \in Nat
  BY <1>1, WidthDoubles, WidthGrows, FirstIs
<1>3. QED  BY <1>2, FirstBlockAssumption DEF First

\* Where an index is
LEMMA PointerAt ==
  ASSUME NEW b, Doubling(b), NEW k \in 0 .. Capacity(b) - 1
  PROVE  \E i, j \in Nat : InSlot(Len(b), k, i, j) /\ Pointer(b, k) = <<i, j * Size>>
<1>1. Len(b) \in Nat
  BY DEF Doubling
<1>2. Capacity(b) = First(Len(b)) /\ First(Len(b)) \in Nat
  BY <1>1, CapacityIs, FirstIs DEF First
<1>3. PICK i \in Nat, j \in Nat : InSlot(Len(b), k, i, j)
  <2>1. k \in Nat /\ k < First(Len(b))
    BY <1>2
  <2>2. QED  BY <1>1, <2>1, SlotOf
<1>4. Pointer(b, k) = <<i, j * Size>>
  BY <1>3, PointerIs DEF InSlot
<1>5. QED  BY <1>3, <1>4

LEMMA SlotsApart ==
  ASSUME NEW i \in Nat, NEW j \in 0 .. Width(i) - 1,
         NEW h \in Nat, NEW l \in 0 .. Width(h) - 1,
         <<i, j * Size>> = <<h, l * Size>>
  PROVE  i = h /\ j = l
<1>1. j \in Nat /\ l \in Nat
  BY WidthDoubles
<1>2. (j * Size) \div Size = j /\ (l * Size) \div Size = l
  BY <1>1, Exactly
<1>3. QED  BY <1>2

\* Two elements are at two places
LEMMA PointersApart ==
  ASSUME NEW b, Doubling(b), NEW k \in 0 .. Capacity(b) - 1, NEW l \in 0 .. Capacity(b) - 1,
         Pointer(b, k) = Pointer(b, l)
  PROVE  k = l
<1>1. PICK i \in Nat, j \in Nat :
        InSlot(Len(b), k, i, j) /\ Pointer(b, k) = <<i, j * Size>>
  BY PointerAt
<1>2. PICK h \in Nat, m \in Nat :
        InSlot(Len(b), l, h, m) /\ Pointer(b, l) = <<h, m * Size>>
  BY PointerAt
<1>3. i = h /\ j = m
  BY <1>1, <1>2, SlotsApart DEF InSlot
<1>4. QED  BY <1>1, <1>2, <1>3 DEF InSlot

\* An element stays where it is when the blocks grow
LEMMA PointerStays ==
  ASSUME NEW b, Doubling(b), NEW c, Doubling(c), Len(b) <= Len(c),
         NEW k \in 0 .. Capacity(b) - 1
  PROVE  Pointer(c, k) = Pointer(b, k)
<1>1. PICK i \in Nat, j \in Nat :
        InSlot(Len(b), k, i, j) /\ Pointer(b, k) = <<i, j * Size>>
  BY PointerAt
<1>2. i \in 0 .. Len(c) - 1
  BY <1>1 DEF Doubling, InSlot
<1>3. QED  BY <1>1, <1>2, PointerIs DEF InSlot

-----------------------------------------------------------------------------
(* What iterations and drop go through                                     *)

LEMMA BlockHas ==
  ASSUME BlocksInv, NEW i \in Positions
  PROVE  /\ i \in Nat /\ blocks[i + 1] = Width(i) * Size
         /\ Chunks(i) = 0 .. Width(i) - 1
         /\ StartIndex(blocks[i + 1], i) = First(i)
<1>1. i \in Nat /\ i + 1 \in 1 .. Len(blocks) /\ (i + 1) - 1 = i
  BY DEF BlocksInv, Doubling, Positions
<1>2. blocks[i + 1] = Width(i) * Size
  BY <1>1 DEF BlocksInv, Doubling
<1>3. (Width(i) * Size) \div Size = Width(i)
  BY <1>1, WidthDoubles, Exactly
<1>4. PICK p \in Nat \ {0} : p = 2 ^ i
  BY <1>1, PowerDoubles
<1>5. PICK f \in Nat \ {0} : f = FirstBlock
  BY FirstBlockAssumption
<1>6. PICK q \in Nat : p = q + 1
  <2>1. p - 1 \in Nat /\ p = (p - 1) + 1
    OBVIOUS
  <2>2. QED  BY <2>1
<1>7. StartIndex(blocks[i + 1], i) = ((((f * p) * Size) * q) \div p) \div Size
  BY <1>2, <1>4, <1>5, <1>6 DEF StartIndex, BLOCK_GROWTH_RATE, Width
<1>8. ((f * p) * Size) * q = ((f * q) * Size) * p /\ f * q \in Nat /\ (f * q) * Size \in Nat
  BY SizeAssumption
<1>9. ASSUME NEW x \in Nat
      PROVE  (x * p) \div p = x
  OBVIOUS
<1>10. StartIndex(blocks[i + 1], i) = f * q
  BY <1>7, <1>8, <1>9, Exactly
<1>11. First(i) = f * q
  BY <1>4, <1>5, <1>6 DEF First, Width
<1>12. QED  BY <1>1, <1>2, <1>3, <1>10, <1>11 DEF Chunks

LEMMA CapacityHas ==
  ASSUME BlocksInv
  PROVE  Capacity(blocks) = First(Len(blocks)) /\ Capacity(blocks) \in Nat
BY CapacityIs, FirstIs DEF BlocksInv, First

\* Iterations number the slots as get_bytes_ptr does
LEMMA NumberedIs ==
  ASSUME BlocksInv
  PROVE  Numbered = {[index |-> k, ptr |-> Pointer(blocks, k)] : k \in 0 .. Capacity(blocks) - 1}
<1>1. Len(blocks) \in Nat /\ Doubling(blocks)
  BY DEF BlocksInv
<1>2. ASSUME NEW i \in Positions, NEW j \in Chunks(i)
      PROVE  \E k \in 0 .. Capacity(blocks) - 1 :
               [index |-> StartIndex(blocks[i + 1], i) + j, ptr |-> <<i, j * Size>>]
                 = [index |-> k, ptr |-> Pointer(blocks, k)]
  <2>1. i \in 0 .. Len(blocks) - 1 /\ j \in 0 .. Width(i) - 1
    BY BlockHas DEF Positions
  <2>2. First(i) + j \in 0 .. Capacity(blocks) - 1
    BY <1>1, <2>1, SlotBelow, CapacityHas
  <2>3. Pointer(blocks, First(i) + j) = <<i, j * Size>>
    BY <1>1, <2>1, PointerIs
  <2>4. QED  BY <2>2, <2>3, BlockHas
<1>3. ASSUME NEW k \in 0 .. Capacity(blocks) - 1
      PROVE  \E i \in Positions : \E j \in Chunks(i) :
               [index |-> StartIndex(blocks[i + 1], i) + j, ptr |-> <<i, j * Size>>]
                 = [index |-> k, ptr |-> Pointer(blocks, k)]
  <2>1. PICK i \in Nat, j \in Nat :
          InSlot(Len(blocks), k, i, j) /\ Pointer(blocks, k) = <<i, j * Size>>
    BY <1>1, PointerAt
  <2>2. i \in Positions
    BY <2>1 DEF InSlot, Positions
  <2>3. j \in Chunks(i) /\ StartIndex(blocks[i + 1], i) + j = k
    BY <2>1, <2>2, BlockHas DEF InSlot
  <2>4. QED  BY <2>1, <2>2, <2>3
<1>4. ASSUME NEW s
      PROVE  s \in Numbered <=>
               \E i \in Positions : \E j \in Chunks(i) :
                 s = [index |-> StartIndex(blocks[i + 1], i) + j, ptr |-> <<i, j * Size>>]
  BY DEF Numbered
<1> DEFINE Slots == {[index |-> k, ptr |-> Pointer(blocks, k)] : k \in 0 .. Capacity(blocks) - 1}
<1>5. ASSUME NEW s \in Numbered PROVE s \in Slots
  <2>1. PICK i \in Positions : \E j \in Chunks(i) :
          s = [index |-> StartIndex(blocks[i + 1], i) + j, ptr |-> <<i, j * Size>>]
    BY <1>4
  <2>2. QED  BY <1>2, <2>1
<1>6. ASSUME NEW s \in Slots PROVE s \in Numbered
  <2>1. PICK k \in 0 .. Capacity(blocks) - 1 : s = [index |-> k, ptr |-> Pointer(blocks, k)]
    OBVIOUS
  <2>2. QED  BY <1>3, <1>4, <2>1
<1>7. QED  BY <1>5, <1>6

LEMMA InNumbered ==
  ASSUME BlocksInv, NEW s
  PROVE  s \in Numbered <=> \E k \in 0 .. Capacity(blocks) - 1 :
                               s = [index |-> k, ptr |-> Pointer(blocks, k)]
BY NumberedIs

\* par_iter visits the elements
LEMMA VisitedIs ==
  ASSUME BlocksInv
  PROVE  IterExact /\ Visited = {Pointer(blocks, k) : k \in 0 .. initLen - 1}
<1>1. \A k \in 0 .. initLen - 1 : k \in 0 .. Capacity(blocks) - 1
  BY CapacityHas DEF BlocksInv
<1>2. \A k \in 0 .. Capacity(blocks) - 1 : k < initLen => k \in 0 .. initLen - 1
  BY CapacityHas DEF BlocksInv
<1>3. ASSUME NEW p
      PROVE  p \in Visited <=> \E k \in 0 .. initLen - 1 : p = Pointer(blocks, k)
  <2>1. p \in Visited <=> \E s \in Numbered : s.index < initLen /\ p = s.ptr
    BY DEF Visited
  <2>2. p \in Visited <=> \E k \in 0 .. Capacity(blocks) - 1 :
                             k < initLen /\ p = Pointer(blocks, k)
    <3>1. ASSUME NEW s \in Numbered, s.index < initLen, p = s.ptr
          PROVE  \E k \in 0 .. Capacity(blocks) - 1 : k < initLen /\ p = Pointer(blocks, k)
      BY <3>1, InNumbered
    <3>2. ASSUME NEW k \in 0 .. Capacity(blocks) - 1, k < initLen, p = Pointer(blocks, k)
          PROVE  \E s \in Numbered : s.index < initLen /\ p = s.ptr
      <4> DEFINE s == [index |-> k, ptr |-> Pointer(blocks, k)]
      <4>1. s \in Numbered /\ s.index < initLen /\ p = s.ptr
        BY <3>2, InNumbered
      <4>2. QED  BY <4>1
    <3>3. QED  BY <2>1, <3>1, <3>2
  <2>3. \A k \in 0 .. initLen - 1 : k < initLen
    BY DEF BlocksInv
  <2>4. QED  BY <1>1, <1>2, <2>2, <2>3
<1>4. Visited = {Pointer(blocks, k) : k \in 0 .. initLen - 1}
  BY <1>3
<1>5. QED  BY <1>4 DEF IterExact, At

\* par_iter_combinations pairs each element with each later one
LEMMA PairsAre ==
  ASSUME BlocksInv
  PROVE  PairsExact
<1> DEFINE later(i) == {<<At[i], At[j]>> : j \in i + 1 .. initLen - 1}
           paired(s) == {<<s.ptr, Pointer(blocks, j)>> : j \in s.index + 1 .. initLen - 1}
           slot(k) == [index |-> k, ptr |-> Pointer(blocks, k)]
<1>1. ASSUME NEW k \in 0 .. Capacity(blocks) - 1
      PROVE  k \in 0 .. initLen - 1 \/ k + 1 .. initLen - 1 = {}
  BY CapacityHas DEF BlocksInv
<1>2. \A k \in 0 .. initLen - 1 : k \in 0 .. Capacity(blocks) - 1
  BY CapacityHas DEF BlocksInv
<1>3. ASSUME NEW k \in 0 .. initLen - 1
      PROVE  paired(slot(k)) = later(k)
  <2>1. \A j \in k + 1 .. initLen - 1 : At[j] = Pointer(blocks, j)
    BY DEF At, BlocksInv
  <2>2. At[k] = Pointer(blocks, k)
    BY DEF At
  <2>3. QED  BY <2>1, <2>2
<1>4. ASSUME NEW q
      PROVE  q \in Pairs <=> \E k \in 0 .. initLen - 1 : q \in later(k)
  <2>1. q \in Pairs <=> \E s \in Numbered : q \in paired(s)
    BY DEF Pairs
  <2>2. q \in Pairs <=> \E k \in 0 .. Capacity(blocks) - 1 : q \in paired(slot(k))
    <3>1. \A k \in 0 .. Capacity(blocks) - 1 : slot(k) \in Numbered
      BY InNumbered
    <3>2. \A s \in Numbered : \E k \in 0 .. Capacity(blocks) - 1 : s = slot(k)
      BY InNumbered
    <3> HIDE DEF paired, slot
    <3>3. QED  BY <2>1, <3>1, <3>2
  <2>3. ASSUME NEW k \in 0 .. Capacity(blocks) - 1, q \in paired(slot(k))
        PROVE  k \in 0 .. initLen - 1
    BY <1>1, <2>3
  <2> HIDE DEF paired, later, slot
  <2>4. QED  BY <1>2, <1>3, <2>2, <2>3
<1>5. Pairs = UNION {later(i) : i \in 0 .. initLen - 1}
  <2> HIDE DEF later
  <2>1. QED  BY <1>4
<1>6. Combinations(2) = [panics |-> FALSE, calls |-> Pairs]
  BY DEF Combinations
<1>7. QED  BY <1>5, <1>6 DEF PairsExact

\* The blocks before a position are as doubling as all of them
LEMMA BeforeIs ==
  ASSUME BlocksInv, NEW i \in Positions
  PROVE  Capacity(SubSeq(blocks, 1, i)) = First(i)
<1> DEFINE b == SubSeq(blocks, 1, i)
<1>1. i \in Nat /\ i <= Len(blocks) /\ blocks \in Seq(Nat) /\ Len(blocks) \in Nat
  BY DEF BlocksInv, Doubling, Positions
<1>2. b \in Seq(Nat) /\ Len(b) = i /\ \A k \in 1 .. i : b[k] = blocks[k]
  BY <1>1
<1>3. \A k \in 1 .. i : b[k] = Width(k - 1) * Size
  BY <1>1, <1>2 DEF BlocksInv, Doubling
<1> HIDE DEF b
<1>4. Doubling(b)
  BY <1>2, <1>3 DEF Doubling
<1>5. Capacity(b) = First(i)
  BY <1>2, <1>4, CapacityIs DEF First
<1>6. QED  BY <1>5 DEF b

\* drop drops the elements
LEMMA DroppedAre ==
  ASSUME BlocksInv
  PROVE  DropExact
<1>1. Len(blocks) \in Nat /\ Doubling(blocks)
  BY DEF BlocksInv
<1>2. ASSUME NEW p
      PROVE  p \in Dropped <=> \E i \in Positions : \E j \in Chunks(i) :
                                  First(i) + j < initLen /\ p = <<i, j * Size>>
  BY BeforeIs DEF Dropped
<1>3. ASSUME NEW p \in Dropped
      PROVE  \E k \in 0 .. initLen - 1 : p = At[k]
  <2>1. PICK i \in Positions : \E j \in Chunks(i) : First(i) + j < initLen /\ p = <<i, j * Size>>
    BY <1>2
  <2>2. PICK j \in Chunks(i) : First(i) + j < initLen /\ p = <<i, j * Size>>
    BY <2>1
  <2>3. i \in 0 .. Len(blocks) - 1 /\ j \in 0 .. Width(i) - 1
    BY BlockHas DEF Positions
  <2>4. First(i) + j \in 0 .. First(Len(blocks)) - 1
    BY <1>1, <2>3, SlotBelow
  <2>5. First(i) + j \in 0 .. initLen - 1
    BY <2>2, <2>4 DEF BlocksInv
  <2>6. Pointer(blocks, First(i) + j) = p
    BY <1>1, <2>2, <2>3, PointerIs
  <2>7. QED  BY <2>5, <2>6 DEF At
<1>4. ASSUME NEW k \in 0 .. initLen - 1
      PROVE  At[k] \in Dropped
  <2>1. k \in 0 .. Capacity(blocks) - 1 /\ k < initLen
    BY CapacityHas DEF BlocksInv
  <2>2. PICK i \in Nat, j \in Nat :
          InSlot(Len(blocks), k, i, j) /\ Pointer(blocks, k) = <<i, j * Size>>
    BY <1>1, <2>1, PointerAt
  <2>3. i \in Positions
    BY <2>2 DEF InSlot, Positions
  <2>4. j \in Chunks(i) /\ First(i) + j < initLen
    BY <2>1, <2>2, <2>3, BlockHas DEF InSlot
  <2>5. At[k] = <<i, j * Size>>
    BY <2>2 DEF At
  <2>6. QED  BY <1>2, <2>3, <2>4, <2>5
<1>5. QED  BY <1>3, <1>4 DEF DropExact

-----------------------------------------------------------------------------
(* The blocks that push leaves                                             *)

\* b with n blocks more, each twice as long as the last
Longer(b, n) ==
  [i \in 1 .. Len(b) + n |->
     IF i <= Len(b) THEN b[i] ELSE b[Len(b)] * BLOCK_GROWTH_RATE ^ (i - Len(b))]

LEMMA LongerIs ==
  ASSUME NEW b, Doubling(b), Len(b) \in Nat \ {0}
  PROVE  /\ Longer(b, 0) = b
         /\ Doubling(Longer(b, 1)) /\ Len(Longer(b, 1)) = Len(b) + 1
<1>1. b \in Seq(Nat) /\ Len(b) \in Nat
  BY DEF Doubling
<1>2. Longer(b, 0) = b
  <2>1. Longer(b, 0) = [i \in 1 .. Len(b) |-> b[i]]
    BY <1>1 DEF Longer
  <2>2. b = [i \in 1 .. Len(b) |-> b[i]]
    BY <1>1
  <2>3. QED  BY <2>1, <2>2
<1>3. \A i \in 1 .. Len(b) : Longer(b, 1)[i] = b[i]
  BY <1>1 DEF Longer
<1>4. Longer(b, 1)[Len(b) + 1] = Width(Len(b)) * Size
  <2>1. Longer(b, 1)[Len(b) + 1] = b[Len(b)] * 2 ^ 1
    <3>1. Len(b) + 1 \in 1 .. Len(b) + 1 /\ ~ (Len(b) + 1 <= Len(b)) /\ (Len(b) + 1) - Len(b) = 1
      BY <1>1
    <3>2. QED  BY <3>1 DEF Longer, BLOCK_GROWTH_RATE
  <2>2. 2 ^ 1 = 2
    <3>1. 2 ^ 0 = 1 /\ 2 ^ (0 + 1) = 2 * 2 ^ 0
      BY PowerDoubles
    <3>2. QED  BY <3>1
  <2>3. b[Len(b)] = Edge(Len(b) - 1)
    BY <1>1 DEF Doubling, Edge
  <2>4. Len(b) - 1 \in Nat /\ (Len(b) - 1) + 1 = Len(b)
    OBVIOUS
  <2>5. Edge(Len(b)) = 2 * Edge(Len(b) - 1) /\ Edge(Len(b) - 1) \in Nat
    BY <2>4, EdgeDoubles
  <2>6. QED  BY <2>1, <2>2, <2>3, <2>5 DEF Edge
<1>5. \A i \in 1 .. Len(b) + 1 : Longer(b, 1)[i] = Width(i - 1) * Size
  <2>1. ASSUME NEW i \in 1 .. Len(b) + 1
        PROVE  i \in 1 .. Len(b) \/ (i = Len(b) + 1 /\ i - 1 = Len(b))
    BY <1>1
  <2>2. \A i \in 1 .. Len(b) : b[i] = Width(i - 1) * Size
    BY DEF Doubling
  <2>3. QED  BY <1>3, <1>4, <2>1, <2>2
<1>6. \A i \in 1 .. Len(b) + 1 : Longer(b, 1)[i] \in Nat
  <2>1. ASSUME NEW i \in 1 .. Len(b) + 1
        PROVE  Width(i - 1) * Size \in Nat
    <3>1. i - 1 \in Nat
      BY <1>1
    <3>2. Edge(i - 1) \in Nat
      BY <3>1, EdgeDoubles
    <3>3. QED  BY <3>2 DEF Edge
  <2>2. QED  BY <1>5, <2>1
<1>7. DOMAIN Longer(b, 1) = 1 .. Len(b) + 1 /\ Longer(b, 1) = [i \in 1 .. Len(b) + 1 |-> Longer(b, 1)[i]]
  BY DEF Longer
<1>8. Longer(b, 1) \in Seq(Nat) /\ Len(Longer(b, 1)) = Len(b) + 1
  BY <1>1, <1>6, <1>7
<1>9. QED  BY <1>2, <1>5, <1>8 DEF Doubling

\* A push has to add at most one block
LEMMA GrownIs ==
  ASSUME NEW b, Doubling(b), Len(b) \in Nat \ {0},
         NEW len \in Int, len <= Capacity(b), len <= MaxLen
  PROVE  /\ Doubling(Grown(b, len)) /\ Len(Grown(b, len)) \in Nat \ {0}
         /\ Len(b) <= Len(Grown(b, len)) /\ len < Capacity(Grown(b, len))
<1> DEFINE Enough == {n \in 0 .. MaxLen : len < Capacity(Longer(b, n))}
           n == CHOOSE k \in Enough : \A m \in Enough : k <= m
<1>1. Grown(b, len) = Longer(b, n)
  BY DEF Grown, Longer
<1>2. Capacity(b) = First(Len(b)) /\ Capacity(b) \in Nat
  BY CapacityIs, FirstIs DEF First
<1>3. MaxLen \in Nat
  BY MaxLenAssumption
<1>4. CASE len < Capacity(b)
  <2>1. 0 \in Enough /\ \A m \in Enough : 0 <= m
    BY <1>3, <1>4, LongerIs
  <2>2. \A m \in Enough : m \in Nat
    BY <1>3
  <2> HIDE DEF Enough
  <2>3. n = 0
    <3>1. n \in Enough /\ \A m \in Enough : n <= m
      BY <2>1
    <3>2. QED  BY <2>1, <2>2, <3>1
  <2> HIDE DEF n
  <2>4. Grown(b, len) = b
    BY <1>1, <2>3, LongerIs
  <2>5. Len(b) <= Len(b)
    OBVIOUS
  <2>6. QED  BY <1>4, <2>4, <2>5
<1>5. CASE ~ (len < Capacity(b))
  <2>1. len = Capacity(b)
    BY <1>2, <1>5
  <2>2. 1 \in 0 .. MaxLen
    <3>1. Capacity(b) # 0
      <4>1. 0 \in 0 .. Len(b) - 1 /\ 0 \in 0 .. Width(0) - 1
        BY FirstWidth, FirstBlockAssumption
      <4>2. First(0) + 0 \in 0 .. First(Len(b)) - 1
        BY <4>1, SlotBelow
      <4>3. QED  BY <1>2, <4>2
    <3>2. QED  BY <1>2, <1>3, <2>1, <3>1
  <2>3. Capacity(Longer(b, 1)) = First(Len(b) + 1)
    BY LongerIs, CapacityIs DEF First
  <2>4. len < Capacity(Longer(b, 1))
    <3>1. Width(Len(b) + 1) = 2 * Width(Len(b)) /\ Width(Len(b)) \in Nat \ {0}
      BY WidthDoubles
    <3>2. QED  BY <1>2, <2>1, <2>3, <3>1, FirstBlockAssumption DEF First
  <2>5. 1 \in Enough /\ 0 \notin Enough
    BY <1>5, <2>2, <2>4, LongerIs
  <2>6. \A m \in Enough : m \in Nat
    BY <1>3
  <2> HIDE DEF Enough
  <2>7. \A m \in Enough : 1 <= m
    BY <2>5, <2>6
  <2>8. n = 1
    <3>1. n \in Enough /\ \A m \in Enough : n <= m
      BY <2>5, <2>7
    <3>2. QED  BY <2>5, <2>6, <2>7, <3>1
  <2> HIDE DEF n
  <2>9. Grown(b, len) = Longer(b, 1)
    BY <1>1, <2>8
  <2>10. Doubling(Longer(b, 1)) /\ Len(Longer(b, 1)) = Len(b) + 1
    BY LongerIs
  <2>11. Len(b) + 1 \in Nat \ {0} /\ Len(b) <= Len(b) + 1
    OBVIOUS
  <2>12. QED  BY <2>4, <2>9, <2>10, <2>11
<1>6. QED  BY <1>4, <1>5

LEMMA BlocksInit ==
  ASSUME Init
  PROVE  BlocksInv
<1>1. blocks = <<FirstBlock * Size>> /\ FirstBlock * Size \in Nat
  BY FirstBlockAssumption, SizeAssumption DEF Init
<1>2. blocks \in Seq(Nat) /\ Len(blocks) = 1 /\ blocks[1] = Width(1 - 1) * Size
  BY <1>1, FirstWidth
<1>3. Doubling(blocks)
  BY <1>2 DEF Doubling
<1>4. 0 < Capacity(blocks)
  <2>1. 0 \in 0 .. 1 - 1 /\ 0 \in 0 .. Width(0) - 1
    BY FirstWidth, FirstBlockAssumption
  <2>2. First(0) + 0 \in 0 .. First(1) - 1
    BY <2>1, SlotBelow
  <2>3. Capacity(blocks) = First(1)
    BY <1>2, <1>3, CapacityIs DEF First
  <2>4. QED  BY <2>2, <2>3, FirstIs
<1>5. QED  BY <1>2, <1>3, <1>4 DEF BlocksInv, Init

LEMMA BlocksKeep ==
  ASSUME BlocksInv, [Next]_vars
  PROVE  BlocksInv'
<1>1. ASSUME NEW v \in Values, Push(v)
      PROVE  BlocksInv'
  <2>1. initLen + 1 \in Int /\ initLen + 1 <= Capacity(blocks) /\ initLen + 1 <= MaxLen
    BY <1>1, CapacityHas, MaxLenAssumption DEF BlocksInv, Push
  <2>2. /\ blocks' = Grown(blocks, initLen + 1) /\ initLen' = initLen + 1
        /\ UNCHANGED pc
    BY <1>1 DEF Push, removals
  <2>3. QED  BY <2>1, <2>2, GrownIs DEF BlocksInv
<1>2. ASSUME NEW t \in Removers, NEW p \in Visited, DropInPlace(t, p)
      PROVE  BlocksInv'
  BY <1>2 DEF BlocksInv, DropInPlace, Goto
<1>3. ASSUME NEW t \in Removers, Shrink(t)
      PROVE  BlocksInv'
  <2>1. initLen - 1 \in Int /\ initLen - 1 < Capacity(blocks)
    BY CapacityHas DEF BlocksInv
  <2>2. QED  BY <1>3, <2>1 DEF BlocksInv, Shrink, Goto
<1>4. ASSUME NEW t \in Removers, Fill(t)
      PROVE  BlocksInv'
  BY <1>4 DEF BlocksInv, Fill, Goto
<1>5. CASE UNCHANGED vars
  BY <1>5 DEF BlocksInv, vars, removals
<1>6. QED  BY <1>1, <1>2, <1>3, <1>4, <1>5 DEF Next

LEMMA BlocksInvariance == Spec => []BlocksInv
<1>1. Init => BlocksInv
  BY BlocksInit
<1>2. BlocksInv /\ [Next]_vars => BlocksInv'
  BY BlocksKeep
<1>3. QED  BY <1>1, <1>2, PTL DEF Spec

\* par_iter visits the elements, all of them and nothing else, whatever the
\* sizes and however many threads remove
THEOREM IterIsExact == Spec => []IterExact
<1>1. BlocksInv => IterExact
  BY VisitedIs
<1>2. QED  BY <1>1, BlocksInvariance, PTL

\* par_iter_combinations passes each two elements once
THEOREM PairsAreExact == Spec => []PairsExact
<1>1. BlocksInv => PairsExact
  BY PairsAre
<1>2. QED  BY <1>1, BlocksInvariance, PTL

\* drop drops the elements, all of them and nothing else
THEOREM DropIsExact == Spec => []DropExact
<1>1. BlocksInv => DropExact
  BY DroppedAre
<1>2. QED  BY <1>1, BlocksInvariance, PTL

-----------------------------------------------------------------------------
(* One remover                                                             *)

\* process_queues removes by itself: at most one thread is ever removing
OneRemover == \A s, t \in Removers : s = t

Place(k) == Pointer(blocks, k)

\* A removal that has lowered init_len still needs the last element
Extent == IF \E t \in Removers : pc[t] = "fill" THEN initLen + 1 ELSE initLen

\* The elements are all there, but for the one that is being removed
MemInv ==
  /\ initLen \in Nat /\ Extent <= MaxLen /\ Extent < Capacity(blocks)
  /\ DOMAIN mem \subseteq {Place(k) : k \in 0 .. Capacity(blocks) - 1}
  /\ mem \in [DOMAIN mem -> Values \cup {Dead}]
  /\ \A k \in 0 .. Extent - 1 : Place(k) \in DOMAIN mem
  /\ \A k \in 0 .. Extent - 1 :
       mem[Place(k)] = Dead => \E t \in Removers : pc[t] # "idle" /\ target[t] = Place(k)
  /\ \A t \in Removers : pc[t] # "idle" =>
       /\ mem[target[t]] = Dead
       /\ \E k \in 0 .. Extent - 1 : target[t] = Place(k)
  /\ \A t \in Removers : pc[t] = "fill" => last[t] = initLen
  /\ target \in [Removers -> DOMAIN mem \cup {<<0, 0>>}]
  /\ last \in [Removers -> 0 .. MaxLen]

\* The indices that hold v
Holding(v) == {k \in 0 .. Extent - 1 : mem[Place(k)] = v}

LiveInv ==
  /\ live \in [Values -> Nat]
  /\ \A v \in Values : live[v] = Cardinality(Holding(v))

\* The inductive invariant for one remover
RemoverInv == BlocksInv /\ MemInv /\ LiveInv

LEMMA PlacesApart ==
  ASSUME BlocksInv, NEW k \in 0 .. Capacity(blocks) - 1, NEW l \in 0 .. Capacity(blocks) - 1,
         Place(k) = Place(l)
  PROVE  k = l
BY PointersApart DEF Place, BlocksInv

LEMMA ExtentIs ==
  ASSUME BlocksInv, MemInv
  PROVE  /\ Extent \in Nat /\ \A k \in 0 .. Extent - 1 : k \in 0 .. Capacity(blocks) - 1
         /\ \A k, l \in 0 .. Extent - 1 : Place(k) = Place(l) => k = l
<1>1. Extent \in Nat
  BY DEF MemInv, Extent
<1>2. \A k \in 0 .. Extent - 1 : k \in 0 .. Capacity(blocks) - 1
  BY <1>1, CapacityHas DEF MemInv
<1>3. QED  BY <1>1, <1>2, PlacesApart

LEMMA HoldingFinite ==
  ASSUME BlocksInv, MemInv, NEW v
  PROVE  IsFiniteSet(Holding(v)) /\ Cardinality(Holding(v)) \in Nat
<1>1. IsFiniteSet(0 .. Extent - 1)
  BY ExtentIs, FS_Interval
<1>2. Holding(v) \subseteq 0 .. Extent - 1
  BY DEF Holding
<1>3. QED  BY <1>1, <1>2, FS_Subset, FS_CardinalityType

LEMMA RemoverInit ==
  ASSUME Init
  PROVE  RemoverInv
<1>1. BlocksInv
  BY BlocksInit
<1>2. Extent = 0 /\ initLen = 0
  BY DEF Init, Extent
<1>3. DOMAIN mem = {} /\ mem \in [{} -> Values \cup {Dead}]
  BY DEF Init
<1>4. 0 .. Extent - 1 = {}
  BY <1>2
<1>5. MemInv
  <2>1. last \in [Removers -> 0 .. MaxLen] /\ target \in [Removers -> DOMAIN mem \cup {<<0, 0>>}]
    BY MaxLenAssumption DEF Init
  <2>2. \A t \in Removers : pc[t] = "idle"
    BY DEF Init
  <2>3. Extent <= MaxLen /\ Extent < Capacity(blocks)
    BY <1>1, <1>2, MaxLenAssumption DEF BlocksInv
  <2>4. QED  BY <1>2, <1>3, <1>4, <2>1, <2>2, <2>3 DEF MemInv
<1>6. LiveInv
  <2>1. \A v \in Values : Holding(v) = {}
    BY <1>4 DEF Holding
  <2>2. QED  BY <2>1, FS_EmptySet DEF Init, LiveInv
<1>7. QED  BY <1>1, <1>5, <1>6 DEF RemoverInv

\* What a push adds
LEMMA PushAdds ==
  ASSUME RemoverInv, NEW v \in Values, Push(v), NEW n \in Nat, n = initLen
  PROVE  /\ Extent = n /\ Extent' = n + 1 /\ initLen' = n + 1
         /\ Capacity(blocks) \in Nat /\ Capacity(blocks)' \in Nat
         /\ Capacity(blocks) <= Capacity(blocks)' /\ Extent' < Capacity(blocks)'
         /\ \A k \in 0 .. Capacity(blocks) - 1 : Place(k)' = Place(k)
         /\ \A k \in 0 .. n - 1 : Place(k)' # Place(n)'
         /\ mem' = [q \in DOMAIN mem \cup {Place(n)'} |-> IF q = Place(n)' THEN v ELSE mem[q]]
<1>1. Extent = n /\ Extent' = n + 1 /\ initLen' = n + 1
  BY DEF Push, NoRemoval, Extent, removals
<1>2. /\ Doubling(blocks) /\ Len(blocks) \in Nat \ {0}
      /\ n + 1 <= Capacity(blocks) /\ n + 1 <= MaxLen /\ n + 1 \in Int
      /\ blocks' = Grown(blocks, n + 1)
  BY CapacityHas, MaxLenAssumption DEF RemoverInv, BlocksInv, MemInv, Push
<1>3. /\ Doubling(blocks') /\ Len(blocks') \in Nat \ {0} /\ Len(blocks) <= Len(blocks')
      /\ n + 1 < Capacity(blocks')
  BY <1>2, GrownIs
<1>4. Capacity(blocks) = First(Len(blocks)) /\ Capacity(blocks') = First(Len(blocks'))
  BY <1>2, <1>3, CapacityIs DEF First
<1>5. Capacity(blocks) \in Nat /\ Capacity(blocks') \in Nat /\ Capacity(blocks) <= Capacity(blocks')
  <2>1. First(Len(blocks)) \in Nat /\ First(Len(blocks')) \in Nat
    BY <1>2, <1>3, FirstIs
  <2>2. Width(Len(blocks)) \in Nat /\ Width(Len(blocks')) \in Nat
    BY <1>2, <1>3, WidthDoubles
  <2>3. Len(blocks) = Len(blocks') \/ 2 * Width(Len(blocks)) <= Width(Len(blocks'))
    BY <1>2, <1>3, WidthGrows
  <2>4. QED  BY <1>4, <2>1, <2>2, <2>3, FirstBlockAssumption DEF First
<1>6. \A k \in 0 .. Capacity(blocks) - 1 : Place(k)' = Place(k)
  BY <1>2, <1>3, PointerStays DEF Place
<1>7. \A k \in 0 .. n - 1 : Place(k)' # Place(n)'
  <2>1. \A k \in 0 .. n - 1 : k # n /\ k \in 0 .. Capacity(blocks') - 1
    BY <1>1, <1>3, <1>5
  <2>2. n \in 0 .. Capacity(blocks') - 1
    BY <1>3, <1>5
  <2>3. QED  BY <1>3, <2>1, <2>2, PointersApart DEF Place
<1>8. mem' = [q \in DOMAIN mem \cup {Place(n)'} |-> IF q = Place(n)' THEN v ELSE mem[q]]
  BY DEF Push, Place
<1>9. QED  BY <1>1, <1>3, <1>5, <1>6, <1>7, <1>8

LEMMA PushKeeps ==
  ASSUME RemoverInv, NEW v \in Values, Push(v)
  PROVE  MemInv' /\ LiveInv'
<1>0. PICK n \in Nat : n = initLen
  BY DEF RemoverInv, MemInv
<1> DEFINE p == Place(n)'
<1>1. n + 1 <= MaxLen
  BY <1>0, MaxLenAssumption DEF Push
<1>2. /\ Extent = n /\ Extent' = n + 1 /\ initLen' = n + 1
      /\ Capacity(blocks) \in Nat /\ Capacity(blocks)' \in Nat
      /\ Capacity(blocks) <= Capacity(blocks)' /\ Extent' < Capacity(blocks)'
      /\ \A k \in 0 .. Capacity(blocks) - 1 : Place(k)' = Place(k)
      /\ \A k \in 0 .. n - 1 : Place(k)' # p
      /\ mem' = [q \in DOMAIN mem \cup {p} |-> IF q = p THEN v ELSE mem[q]]
  BY <1>0, PushAdds
<1>3. /\ \A k \in 0 .. n - 1 : k \in 0 .. Capacity(blocks) - 1
      /\ \A k \in 0 .. Extent' - 1 : k \in 0 .. n - 1 \/ k = n
      /\ n \in 0 .. Capacity(blocks)' - 1
      /\ \A k \in 0 .. Capacity(blocks) - 1 : k \in 0 .. Capacity(blocks)' - 1
  BY <1>0, <1>1, <1>2 DEF RemoverInv, MemInv
<1>4. /\ \A t \in Removers : pc[t] = "idle" /\ pc'[t] = "idle"
      /\ UNCHANGED <<target, last>> /\ live' = [live EXCEPT ![v] = @ + 1]
  BY DEF Push, NoRemoval, removals
<1>5. DOMAIN mem' = DOMAIN mem \cup {p} /\ mem'[p] = v
      /\ \A q \in DOMAIN mem : q # p => mem'[q] = mem[q]
  BY <1>2
<1> HIDE DEF p
<1>6. \A k \in 0 .. n - 1 :
        Place(k) \in DOMAIN mem /\ Place(k)' = Place(k) /\ mem'[Place(k)'] = mem[Place(k)]
  BY <1>2, <1>3, <1>5 DEF RemoverInv, MemInv
<1>7. \A k \in 0 .. n - 1 : mem[Place(k)] # Dead
  BY <1>2, <1>4 DEF RemoverInv, MemInv
<1>8. v # Dead
  BY DeadAssumption
<1>9. MemInv'
  <2>1. DOMAIN mem' \subseteq {Place(k)' : k \in 0 .. Capacity(blocks)' - 1}
    <3>1. p \in {Place(k)' : k \in 0 .. Capacity(blocks)' - 1}
      BY <1>3 DEF p
    <3>2. ASSUME NEW q \in DOMAIN mem
          PROVE  q \in {Place(k)' : k \in 0 .. Capacity(blocks)' - 1}
      <4>1. PICK k \in 0 .. Capacity(blocks) - 1 : q = Place(k)
        BY DEF RemoverInv, MemInv
      <4>2. q = Place(k)' /\ k \in 0 .. Capacity(blocks)' - 1
        BY <1>2, <1>3, <4>1
      <4>3. QED  BY <4>2
    <3>3. QED  BY <1>5, <3>1, <3>2
  <2>2. mem' \in [DOMAIN mem' -> Values \cup {Dead}]
    BY <1>2, <1>5 DEF RemoverInv, MemInv
  <2>3. \A k \in 0 .. Extent' - 1 : Place(k)' \in DOMAIN mem' /\ mem'[Place(k)'] # Dead
    BY <1>3, <1>5, <1>6, <1>7, <1>8 DEF p
  <2>4. target' \in [Removers -> DOMAIN mem' \cup {<<0, 0>>}]
    BY <1>4, <1>5 DEF RemoverInv, MemInv
  <2>5. initLen' \in Nat /\ Extent' <= MaxLen /\ last' \in [Removers -> 0 .. MaxLen]
    BY <1>1, <1>2, <1>4 DEF RemoverInv, MemInv
  <2>6. QED  BY <1>2, <1>4, <2>1, <2>2, <2>3, <2>4, <2>5 DEF MemInv
<1>10. LiveInv'
  <2>1. ASSUME NEW u \in Values
        PROVE  live'[u] = Cardinality(Holding(u)') /\ live'[u] \in Nat
    <3>1. /\ IsFiniteSet(Holding(u)) /\ Cardinality(Holding(u)) \in Nat
          /\ live[u] = Cardinality(Holding(u))
      BY HoldingFinite DEF RemoverInv, LiveInv
    <3>2. n \notin Holding(u)
      BY <1>1, <1>2 DEF Holding
    <3>3. mem'[Place(n)'] = v
      BY <1>5 DEF p
    <3>4. \A k : k \in 0 .. Extent' - 1 <=> k \in 0 .. n - 1 \/ k = n
      BY <1>1, <1>2
    <3>5. Holding(u) = {k \in 0 .. n - 1 : mem[Place(k)] = u}
      BY <1>2 DEF Holding
    <3>6. CASE u = v
      <4>1. Holding(u)' = Holding(u) \cup {n}
        BY <1>6, <3>3, <3>4, <3>5, <3>6 DEF Holding
      <4>2. live'[u] = live[u] + 1
        BY <1>4, <3>6 DEF RemoverInv, LiveInv
      <4>3. QED  BY <3>1, <3>2, <4>1, <4>2, FS_AddElement
    <3>7. CASE u # v
      <4>1. Holding(u)' = Holding(u)
        BY <1>6, <3>3, <3>4, <3>5, <3>7 DEF Holding
      <4>2. live'[u] = live[u]
        BY <1>4, <3>7 DEF RemoverInv, LiveInv
      <4>3. QED  BY <3>1, <4>1, <4>2
    <3>8. QED  BY <3>6, <3>7
  <2>2. live' = [u \in Values |-> live'[u]]
    BY <1>4 DEF RemoverInv, LiveInv
  <2>3. QED  BY <2>1, <2>2 DEF LiveInv
<1>11. QED  BY <1>9, <1>10

\* A destructor takes one element away and leaves a hole
LEMMA DropTakes ==
  ASSUME OneRemover, RemoverInv, NEW t \in Removers, NEW p \in Visited, DropInPlace(t, p)
  PROVE  /\ Extent = initLen /\ Extent' = initLen
         /\ \E i \in 0 .. initLen - 1 : p = Place(i)
         /\ p \in DOMAIN mem /\ mem[p] \in Values
         /\ mem' = [mem EXCEPT ![p] = Dead] /\ target' = [target EXCEPT ![t] = p]
         /\ live' = [live EXCEPT ![mem[p]] = @ - 1]
         /\ UNCHANGED <<blocks, initLen, last>>
         /\ \A s \in Removers : s = t /\ pc[s] = "idle" /\ pc'[s] = "len"
<1>1. \A s \in Removers : s = t
  BY DEF OneRemover
<1>2. pc[t] = "idle" /\ pc' = [pc EXCEPT ![t] = "len"]
  BY DEF DropInPlace, Goto
<1>3. pc'[t] = "len"
  BY <1>2 DEF RemoverInv, BlocksInv
<1>4. Extent = initLen /\ Extent' = initLen
  BY <1>1, <1>2, <1>3 DEF Extent, DropInPlace
<1>5. \E i \in 0 .. initLen - 1 : p = Place(i)
  BY VisitedIs DEF RemoverInv, Place
<1>6. p \in DOMAIN mem /\ mem[p] # Dead
  BY <1>4, <1>5 DEF RemoverInv, MemInv, DropInPlace
<1>7. mem[p] \in Values
  BY <1>6 DEF RemoverInv, MemInv
<1>8. QED  BY <1>1, <1>2, <1>3, <1>4, <1>5, <1>6, <1>7 DEF DropInPlace

LEMMA DropKeeps ==
  ASSUME OneRemover, RemoverInv, NEW t \in Removers, NEW p \in Visited, DropInPlace(t, p)
  PROVE  MemInv' /\ LiveInv'
<1>1. /\ Extent = initLen /\ Extent' = initLen
      /\ p \in DOMAIN mem /\ mem[p] \in Values
      /\ mem' = [mem EXCEPT ![p] = Dead] /\ target' = [target EXCEPT ![t] = p]
      /\ live' = [live EXCEPT ![mem[p]] = @ - 1]
      /\ UNCHANGED <<blocks, initLen, last>>
      /\ \A s \in Removers : s = t /\ pc[s] = "idle" /\ pc'[s] = "len"
  BY DropTakes
<1>2. PICK i \in 0 .. initLen - 1 : p = Place(i)
  BY DropTakes
<1>3. initLen \in Nat /\ \A k \in 0 .. initLen - 1 : k # i => Place(k) # p
  BY <1>1, <1>2, ExtentIs DEF RemoverInv, MemInv
<1>4. /\ DOMAIN mem' = DOMAIN mem /\ mem'[p] = Dead
      /\ \A q \in DOMAIN mem : q # p => mem'[q] = mem[q]
      /\ mem' \in [DOMAIN mem -> Values \cup {Dead}]
  BY <1>1 DEF RemoverInv, MemInv
<1>5. target' \in [Removers -> DOMAIN mem \cup {<<0, 0>>}] /\ target'[t] = p
  BY <1>1 DEF RemoverInv, MemInv
<1>6. \A k : Place(k)' = Pointer(blocks, k) /\ Place(k) = Pointer(blocks, k)
  BY <1>1 DEF Place
<1>7. \A k \in 0 .. initLen - 1 : Place(k) \in DOMAIN mem /\ mem[Place(k)] # Dead
  BY <1>1 DEF RemoverInv, MemInv
<1>8. MemInv'
  <2>1. \A k \in 0 .. Extent' - 1 :
          /\ Place(k)' \in DOMAIN mem'
          /\ mem'[Place(k)'] = Dead => \E s \in Removers : pc'[s] # "idle" /\ target'[s] = Place(k)'
    <3>1. ASSUME NEW k \in 0 .. initLen - 1
          PROVE  Place(k) \in DOMAIN mem' /\ (mem'[Place(k)] = Dead => Place(k) = target'[t])
      BY <1>4, <1>5, <1>7
    <3>2. pc'[t] # "idle"
      BY <1>1
    <3>3. QED  BY <1>1, <1>6, <3>1, <3>2
  <2>2. \A s \in Removers : pc'[s] # "idle" =>
          /\ mem'[target'[s]] = Dead
          /\ \E k \in 0 .. Extent' - 1 : target'[s] = Place(k)'
    BY <1>1, <1>2, <1>4, <1>5, <1>6
  <2>3. DOMAIN mem' \subseteq {Place(k)' : k \in 0 .. Capacity(blocks)' - 1}
    BY <1>1, <1>4, <1>6 DEF RemoverInv, MemInv
  <2>4. QED  BY <1>1, <1>4, <1>5, <2>1, <2>2, <2>3 DEF RemoverInv, MemInv
<1>9. LiveInv'
  <2>1. ASSUME NEW v \in Values
        PROVE  live'[v] = Cardinality(Holding(v)') /\ live'[v] \in Nat
    <3>1. /\ IsFiniteSet(Holding(v)) /\ Cardinality(Holding(v)) \in Nat
          /\ live[v] = Cardinality(Holding(v))
      BY HoldingFinite DEF RemoverInv, LiveInv
    <3>2. /\ Holding(v) = {k \in 0 .. initLen - 1 : mem[Place(k)] = v}
          /\ Holding(v)' = {k \in 0 .. initLen - 1 : mem'[Place(k)] = v}
      BY <1>1, <1>6 DEF Holding
    <3>3. v # Dead
      BY DeadAssumption
    <3>4. \A k \in 0 .. initLen - 1 : mem'[Place(k)] = IF k = i THEN Dead ELSE mem[Place(k)]
      BY <1>2, <1>3, <1>4, <1>7
    <3>5. Holding(v)' = Holding(v) \ {i}
      BY <3>2, <3>3, <3>4
    <3>6. i \in Holding(v) <=> mem[p] = v
      BY <1>2, <3>2
    <3>7. live'[v] = IF mem[p] = v THEN live[v] - 1 ELSE live[v]
      BY <1>1 DEF RemoverInv, LiveInv
    <3>8. /\ IsFiniteSet(Holding(v) \ {i})
          /\ Cardinality(Holding(v) \ {i}) =
               IF i \in Holding(v) THEN Cardinality(Holding(v)) - 1 ELSE Cardinality(Holding(v))
      BY <3>1, FS_RemoveElement
    <3>9. Cardinality(Holding(v)') \in Nat
      BY <3>5, <3>8, FS_CardinalityType
    <3>10. QED  BY <3>1, <3>5, <3>6, <3>7, <3>8, <3>9
  <2>2. live' = [v \in Values |-> live'[v]]
    BY <1>1 DEF RemoverInv, LiveInv
  <2>3. QED  BY <2>1, <2>2 DEF LiveInv
<1>10. QED  BY <1>8, <1>9

\* init_len is lowered, but the last element is still needed
LEMMA ShrinkHolds ==
  ASSUME OneRemover, RemoverInv, NEW t \in Removers, Shrink(t)
  PROVE  /\ Extent = initLen /\ Extent' = initLen
         /\ initLen \in Nat \ {0} /\ initLen' = initLen - 1
         /\ last' = [last EXCEPT ![t] = initLen - 1]
         /\ UNCHANGED <<blocks, mem, target, live>>
         /\ \A s \in Removers : s = t /\ pc[s] = "len" /\ pc'[s] = "fill"
<1>1. \A s \in Removers : s = t
  BY DEF OneRemover
<1>2. pc[t] = "len" /\ pc' = [pc EXCEPT ![t] = "fill"]
  BY DEF Shrink, Goto
<1>3. pc'[t] = "fill"
  BY <1>2 DEF RemoverInv, BlocksInv
<1>4. initLen \in Nat /\ initLen' = initLen - 1
  BY DEF Shrink, RemoverInv, MemInv
<1>5. Extent = initLen /\ Extent' = initLen
  BY <1>1, <1>2, <1>3, <1>4 DEF Extent
<1>6. PICK k \in 0 .. initLen - 1 : target[t] = Place(k)
  BY <1>2, <1>5 DEF RemoverInv, MemInv
<1>7. QED  BY <1>1, <1>2, <1>3, <1>4, <1>5, <1>6 DEF Shrink

LEMMA ShrinkKeeps ==
  ASSUME OneRemover, RemoverInv, NEW t \in Removers, Shrink(t)
  PROVE  MemInv' /\ LiveInv'
<1>1. /\ Extent = initLen /\ Extent' = initLen
      /\ initLen \in Nat \ {0} /\ initLen' = initLen - 1
      /\ last' = [last EXCEPT ![t] = initLen - 1]
      /\ UNCHANGED <<blocks, mem, target, live>>
      /\ \A s \in Removers : s = t /\ pc[s] = "len" /\ pc'[s] = "fill"
  BY ShrinkHolds
<1>2. \A k : Place(k)' = Place(k)
  BY <1>1 DEF Place
<1>3. Extent' = Extent /\ Capacity(blocks)' = Capacity(blocks)
  BY <1>1
<1>4. initLen' \in Nat /\ last' \in [Removers -> 0 .. MaxLen] /\ last'[t] = initLen'
  <2>1. initLen - 1 \in 0 .. MaxLen
    BY <1>1, MaxLenAssumption DEF RemoverInv, MemInv
  <2>2. QED  BY <1>1, <2>1 DEF RemoverInv, MemInv
<1>5. MemInv'
  <2>1. \A k \in 0 .. Extent - 1 :
          /\ Place(k) \in DOMAIN mem
          /\ mem[Place(k)] = Dead => \E s \in Removers : pc'[s] # "idle" /\ target[s] = Place(k)
    BY <1>1 DEF RemoverInv, MemInv
  <2>2. \A s \in Removers : pc'[s] # "idle" =>
          /\ mem[target[s]] = Dead /\ \E k \in 0 .. Extent - 1 : target[s] = Place(k)
    BY <1>1 DEF RemoverInv, MemInv
  <2>3. \A s \in Removers : pc'[s] = "fill" => last'[s] = initLen'
    BY <1>1, <1>4
  <2>4. /\ Extent <= MaxLen /\ Extent < Capacity(blocks)
        /\ DOMAIN mem \subseteq {Place(k) : k \in 0 .. Capacity(blocks) - 1}
        /\ mem \in [DOMAIN mem -> Values \cup {Dead}]
        /\ target \in [Removers -> DOMAIN mem \cup {<<0, 0>>}]
    BY DEF RemoverInv, MemInv
  <2>5. {Place(k)' : k \in 0 .. Capacity(blocks)' - 1} = {Place(k) : k \in 0 .. Capacity(blocks) - 1}
    BY <1>2, <1>3
  <2>6. mem' = mem /\ target' = target
    BY <1>1
  <2>7. QED  BY <1>2, <1>3, <1>4, <2>1, <2>2, <2>3, <2>4, <2>5, <2>6 DEF MemInv
<1>6. LiveInv'
  <2>1. \A v : Holding(v)' = Holding(v)
    BY <1>1, <1>2, <1>3 DEF Holding
  <2>2. QED  BY <1>1, <2>1 DEF RemoverInv, LiveInv
<1>7. QED  BY <1>5, <1>6

\* The last element moves into the hole, unless the hole is its place
LEMMA FillMoves ==
  ASSUME OneRemover, RemoverInv, NEW t \in Removers, Fill(t), NEW n \in Nat, n = initLen
  PROVE  /\ Extent = n + 1 /\ Extent' = n
         /\ \E i \in 0 .. n : target[t] = Place(i)
         /\ Place(n) \in DOMAIN mem /\ target[t] \in DOMAIN mem /\ mem[target[t]] = Dead
         /\ mem' = [mem EXCEPT ![target[t]] = mem[Place(n)]]
         /\ UNCHANGED <<blocks, initLen, target, last, live>>
         /\ \A s \in Removers : s = t /\ pc[s] = "fill" /\ pc'[s] = "idle"
         /\ \A k, l \in 0 .. n : Place(k) = Place(l) => k = l
         /\ \A k \in 0 .. n : /\ Place(k) \in DOMAIN mem
                              /\ mem[Place(k)] = Dead => Place(k) = target[t]
<1>1. \A s \in Removers : s = t
  BY DEF OneRemover
<1>2. pc[t] = "fill" /\ pc' = [pc EXCEPT ![t] = "idle"]
  BY DEF Fill, Goto
<1>3. pc'[t] = "idle"
  BY <1>2 DEF RemoverInv, BlocksInv
<1>4. Extent = n + 1 /\ Extent' = n
  BY <1>1, <1>2, <1>3 DEF Extent, Fill
<1>5. \A k : k \in 0 .. Extent - 1 <=> k \in 0 .. n
  BY <1>4
<1>6. /\ \A k \in 0 .. n : Place(k) \in DOMAIN mem
      /\ \A k \in 0 .. n : mem[Place(k)] = Dead => Place(k) = target[t]
      /\ \E k \in 0 .. n : target[t] = Place(k)
      /\ mem[target[t]] = Dead /\ last[t] = n
  BY <1>1, <1>2, <1>5 DEF RemoverInv, MemInv
<1>7. \A k, l \in 0 .. n : Place(k) = Place(l) => k = l
  BY <1>5, ExtentIs DEF RemoverInv
<1>8. n \in 0 .. n
  OBVIOUS
<1>9. mem' = [mem EXCEPT ![target[t]] = mem[Place(n)]]
  BY <1>6 DEF Fill, Place
<1>10. QED  BY <1>1, <1>2, <1>3, <1>4, <1>6, <1>7, <1>8, <1>9 DEF Fill

LEMMA FillKeeps ==
  ASSUME OneRemover, RemoverInv, NEW t \in Removers, Fill(t)
  PROVE  MemInv' /\ LiveInv'
<1>1. PICK n \in Nat : n = initLen
  BY DEF RemoverInv, MemInv
<1>2. /\ Extent = n + 1 /\ Extent' = n
      /\ Place(n) \in DOMAIN mem /\ target[t] \in DOMAIN mem /\ mem[target[t]] = Dead
      /\ mem' = [mem EXCEPT ![target[t]] = mem[Place(n)]]
      /\ UNCHANGED <<blocks, initLen, target, last, live>>
      /\ \A s \in Removers : s = t /\ pc[s] = "fill" /\ pc'[s] = "idle"
      /\ \A k, l \in 0 .. n : Place(k) = Place(l) => k = l
      /\ \A k \in 0 .. n : /\ Place(k) \in DOMAIN mem
                           /\ mem[Place(k)] = Dead => Place(k) = target[t]
  BY <1>1, FillMoves
<1>3. PICK i \in 0 .. n : target[t] = Place(i)
  BY <1>1, FillMoves
<1>4. /\ DOMAIN mem' = DOMAIN mem
      /\ mem' \in [DOMAIN mem -> Values \cup {Dead}]
      /\ \A k \in 0 .. n : mem'[Place(k)] = IF k = i THEN mem[Place(n)] ELSE mem[Place(k)]
  <2>1. mem[Place(n)] \in Values \cup {Dead}
    BY <1>2 DEF RemoverInv, MemInv
  <2>2. \A k \in 0 .. n : k # i => Place(k) # target[t]
    BY <1>2, <1>3
  <2>3. QED  BY <1>2, <1>3, <2>1, <2>2 DEF RemoverInv, MemInv
<1>5. \A k : Place(k)' = Place(k)
  BY <1>2 DEF Place
<1>6. /\ \A k \in 0 .. n - 1 : k \in 0 .. n /\ k # n
      /\ \A k \in 0 .. n : k # n => k \in 0 .. n - 1
      /\ n \in 0 .. n
  OBVIOUS
<1>7. ASSUME NEW k \in 0 .. n - 1
      PROVE  Place(k) \in DOMAIN mem /\ mem'[Place(k)] # Dead
  <2>1. CASE k = i
    <3>1. Place(n) # target[t]
      BY <1>2, <1>3, <1>6, <2>1
    <3>2. mem[Place(n)] # Dead
      BY <1>2, <1>6, <3>1
    <3>3. QED  BY <1>2, <1>4, <1>6, <2>1, <3>2
  <2>2. CASE k # i
    <3>1. Place(k) # target[t]
      BY <1>2, <1>3, <1>6, <2>2
    <3>2. QED  BY <1>2, <1>4, <1>6, <2>2, <3>1
  <2>3. QED  BY <2>1, <2>2
<1>8. MemInv'
  <2>1. \A k \in 0 .. Extent' - 1 : Place(k)' \in DOMAIN mem' /\ mem'[Place(k)'] # Dead
    BY <1>2, <1>4, <1>5, <1>7
  <2>2. {Place(k)' : k \in 0 .. Capacity(blocks)' - 1} = {Place(k) : k \in 0 .. Capacity(blocks) - 1}
    BY <1>2, <1>5
  <2>3. /\ initLen' \in Nat /\ Extent' <= MaxLen /\ Extent' < Capacity(blocks)'
        /\ target' \in [Removers -> DOMAIN mem' \cup {<<0, 0>>}]
        /\ last' \in [Removers -> 0 .. MaxLen]
    BY <1>2, <1>4, CapacityHas, MaxLenAssumption DEF RemoverInv, MemInv
  <2>4. DOMAIN mem' \subseteq {Place(k)' : k \in 0 .. Capacity(blocks)' - 1}
    BY <1>4, <2>2 DEF RemoverInv, MemInv
  <2>5. mem' \in [DOMAIN mem' -> Values \cup {Dead}]
    BY <1>4
  <2>6. QED  BY <1>2, <2>1, <2>3, <2>4, <2>5 DEF MemInv
<1>9. LiveInv'
  <2>1. ASSUME NEW v \in Values
        PROVE  live[v] = Cardinality(Holding(v)')
    <3>1. /\ IsFiniteSet(Holding(v)) /\ Cardinality(Holding(v)) \in Nat
          /\ live[v] = Cardinality(Holding(v))
      BY HoldingFinite DEF RemoverInv, LiveInv
    <3>2. /\ Holding(v) = {k \in 0 .. n : mem[Place(k)] = v}
          /\ Holding(v)' = {k \in 0 .. n - 1 : mem'[Place(k)] = v}
      <4>1. (n + 1) - 1 = n
        OBVIOUS
      <4>2. QED  BY <1>2, <1>5, <4>1 DEF Holding
    <3>3. v # Dead
      BY DeadAssumption
    <3>4. i \notin Holding(v)
      BY <1>2, <1>3, <3>2, <3>3
    <3>5. CASE n \notin Holding(v)
      <4>1. mem[Place(n)] # v
        BY <1>6, <3>2, <3>5
      <4>2. Holding(v)' = Holding(v)
        BY <1>4, <1>6, <3>2, <3>4, <4>1
      <4>3. QED  BY <3>1, <4>2
    <3>6. CASE n \in Holding(v)
      <4>1. mem[Place(n)] = v /\ i # n /\ i \in 0 .. n - 1
        BY <1>6, <3>2, <3>4, <3>6
      <4>2. Holding(v)' = (Holding(v) \ {n}) \cup {i}
        BY <1>4, <1>6, <3>2, <4>1
      <4>3. /\ IsFiniteSet(Holding(v) \ {n})
            /\ Cardinality(Holding(v) \ {n}) = Cardinality(Holding(v)) - 1
        BY <3>1, <3>6, FS_RemoveElement
      <4>4. Cardinality((Holding(v) \ {n}) \cup {i}) = Cardinality(Holding(v) \ {n}) + 1
        BY <3>4, <4>3, FS_AddElement
      <4>5. QED  BY <3>1, <4>2, <4>3, <4>4
    <3>7. QED  BY <3>5, <3>6
  <2>2. QED  BY <1>2, <2>1 DEF RemoverInv, LiveInv
<1>10. QED  BY <1>8, <1>9

LEMMA RemoverKeeps ==
  ASSUME OneRemover, RemoverInv, [Next]_vars
  PROVE  RemoverInv'
<1>1. BlocksInv'
  BY BlocksKeep DEF RemoverInv
<1>2. CASE Next
  BY <1>1, <1>2, PushKeeps, DropKeeps, ShrinkKeeps, FillKeeps DEF Next, RemoverInv
<1>3. CASE UNCHANGED vars
  <2>1. UNCHANGED <<blocks, initLen, mem, pc, target, last, live>>
    BY <1>3 DEF vars, removals
  <2>2. Extent' = Extent /\ \A k : Place(k)' = Place(k)
    BY <2>1 DEF Extent, Place
  <2>3. MemInv'
    BY <2>1, <2>2 DEF RemoverInv, MemInv
  <2>4. LiveInv'
    BY <2>1, <2>2 DEF RemoverInv, LiveInv, Holding
  <2>5. QED  BY <1>1, <2>3, <2>4 DEF RemoverInv
<1>4. QED  BY <1>2, <1>3

LEMMA RemoverInvariance ==
  ASSUME OneRemover
  PROVE  Spec => []RemoverInv
<1>1. Init => RemoverInv
  BY RemoverInit
<1>2. RemoverInv /\ [Next]_vars => RemoverInv'
  BY RemoverKeeps
<1>3. QED  BY <1>1, <1>2, PTL DEF Spec

\* With one remover the state has its shape: elements are inside their blocks,
\* and the only dead bytes are those in the hole of a removal under way
THEOREM LayoutTypes == ASSUME OneRemover PROVE Spec => []TypeOK
<1>1. RemoverInv => TypeOK
  <2> SUFFICES ASSUME RemoverInv PROVE TypeOK
    OBVIOUS
  <2>1. /\ initLen \in Nat /\ initLen <= Extent
        /\ \A k \in 0 .. initLen - 1 : k \in 0 .. Extent - 1 /\ At[k] = Place(k)
    BY DEF RemoverInv, MemInv, Extent, At, Place
  <2>2. initLen \in 0 .. MaxLen
    BY <2>1, MaxLenAssumption DEF RemoverInv, MemInv, Extent
  <2>3. ASSUME NEW p \in DOMAIN mem
        PROVE  p[1] \in Positions /\ p[2] % Size = 0 /\ p[2] + Size <= blocks[p[1] + 1]
    <3>1. PICK k \in 0 .. Capacity(blocks) - 1 : p = Place(k)
      BY DEF RemoverInv, MemInv
    <3>2. PICK i \in Nat, j \in Nat :
            InSlot(Len(blocks), k, i, j) /\ Pointer(blocks, k) = <<i, j * Size>>
      BY PointerAt DEF RemoverInv, BlocksInv
    <3>3. p[1] = i /\ p[2] = j * Size /\ i \in Positions /\ j \in 0 .. Width(i) - 1
      BY <3>1, <3>2 DEF Place, InSlot, Positions
    <3>4. blocks[i + 1] = Width(i) * Size
      BY <3>3, BlockHas DEF RemoverInv
    <3>5. PICK d \in Nat : Width(i) = j + 1 + d
      <4>1. PICK w \in Nat : w = Width(i)
        BY WidthDoubles
      <4>2. w - (j + 1) \in Nat /\ w = j + 1 + (w - (j + 1))
        BY <3>3, <4>1
      <4>3. QED  BY <4>1, <4>2
    <3>6. (j + 1 + d) * Size = j * Size + Size + d * Size /\ d * Size \in Nat /\ j * Size \in Nat
      BY SizeAssumption
    <3>7. (j * Size) % Size = 0
      BY Exactly
    <3>8. j * Size + Size <= blocks[i + 1]
      BY <3>4, <3>5, <3>6, SizeAssumption
    <3>9. QED  BY <3>3, <3>7, <3>8
  <2>4. \A k \in 0 .. initLen - 1 :
          /\ At[k] \in DOMAIN mem
          /\ mem[At[k]] = Dead => \E t \in Removers : pc[t] # "idle" /\ target[t] = At[k]
    BY <2>1 DEF RemoverInv, MemInv
  <2>5. QED
    BY <2>2, <2>3, <2>4 DEF RemoverInv, BlocksInv, MemInv, LiveInv, TypeOK
<1>2. QED  BY <1>1, RemoverInvariance, PTL

\* With one remover the vector holds what was pushed and not removed, each
\* element as often as it should; with two it does not
THEOREM OneRemoverSurvivors == ASSUME OneRemover PROVE Spec => []SurvivorsExact
<1>1. RemoverInv => SurvivorsExact
  <2> SUFFICES ASSUME RemoverInv, NoRemoval, NEW v \in Values
               PROVE  Cardinality({k \in 0 .. initLen - 1 : mem[At[k]] = v}) = live[v]
    BY DEF SurvivorsExact
  <2>1. Extent = initLen
    BY DEF Extent, NoRemoval
  <2>2. {k \in 0 .. initLen - 1 : mem[At[k]] = v} = Holding(v)
    BY <2>1 DEF Holding, At, Place
  <2>3. QED  BY <2>2 DEF RemoverInv, LiveInv
<1>2. QED  BY <1>1, RemoverInvariance, PTL

\* How many are in one of these steps: none or one
LEMMA MidwayIs ==
  ASSUME OneRemover, NEW t \in Removers, NEW step
  PROVE  Cardinality(Midway(step)) = IF pc[t] \in step THEN 1 ELSE 0
<1>1. \A s \in Removers : s = t
  BY DEF OneRemover
<1>2. CASE pc[t] \in step
  <2>1. Midway(step) = {t}
    BY <1>1, <1>2 DEF Midway
  <2>2. QED  BY <1>2, <2>1, FS_Singleton
<1>3. CASE pc[t] \notin step
  <2>1. Midway(step) = {}
    BY <1>1, <1>3 DEF Midway
  <2>2. QED  BY <1>3, <2>1, FS_EmptySet
<1>4. QED  BY <1>2, <1>3

\* The vector when nothing is being removed
WhenIdle ==
  NoRemoval /\ initLen \in Nat => Contents = [k \in 1 .. initLen |-> mem[Place(k - 1)]]

\* The vector during a removal: the last element is in the place of the one
\* that is removed
WhenBusy(t) ==
  pc[t] \in {"len", "fill"} /\ initLen \in Nat =>
    Contents = [k \in 1 .. Extent - 1 |->
                  mem[IF Place(k - 1) = target[t] THEN Place(Extent - 1) ELSE Place(k - 1)]]

LEMMA ContentsIdle == WhenIdle
<1> SUFFICES ASSUME NoRemoval, initLen \in Nat
             PROVE  Contents = [k \in 1 .. initLen |-> mem[Place(k - 1)]]
  BY DEF WhenIdle
<1>1. Midway({"fill"}) = {} /\ Midway({"len", "fill"}) = {}
  BY DEF NoRemoval, Midway
<1>2. Cardinality({}) = 0
  BY FS_EmptySet
<1>3. (initLen + 0) - 0 = initLen
  OBVIOUS
<1>4. QED  BY <1>1, <1>2, <1>3 DEF Contents, Place

LEMMA ContentsBusy ==
  ASSUME OneRemover, NEW t \in Removers
  PROVE  WhenBusy(t)
<1> SUFFICES ASSUME pc[t] \in {"len", "fill"}, initLen \in Nat
             PROVE  Contents = [k \in 1 .. Extent - 1 |->
                         mem[IF Place(k - 1) = target[t] THEN Place(Extent - 1) ELSE Place(k - 1)]]
  BY DEF WhenBusy
<1>1. \A s \in Removers : s = t
  BY DEF OneRemover
<1>2. Cardinality(Midway({"len", "fill"})) = 1
  BY MidwayIs
<1>3. initLen + Cardinality(Midway({"fill"})) = Extent
  <2>1. Cardinality(Midway({"fill"})) = IF pc[t] = "fill" THEN 1 ELSE 0
    BY MidwayIs
  <2>2. QED  BY <1>1, <2>1 DEF Extent
<1>4. \A p : (\E s \in Midway({"len", "fill"}) : target[s] = p) <=> p = target[t]
  BY <1>1 DEF Midway
<1>5. QED  BY <1>2, <1>3, <1>4 DEF Contents, Place

LEMMA ContentsIdleNext == WhenIdle'
BY ContentsIdle, PTL

LEMMA ContentsBusyNext ==
  ASSUME OneRemover, NEW t \in Removers
  PROVE  WhenBusy(t)'
<1>1. WhenBusy(t)
  BY ContentsBusy
<1>2. QED  BY <1>1, PTL

\* The caller's view of each step
LEMMA PushAppends ==
  ASSUME RemoverInv, NEW v \in Values, Push(v)
  PROVE  NoRemoval /\ Contents' = Append(Contents, v)
<1>1. PICK n \in Nat : n = initLen
  BY DEF RemoverInv, MemInv
<1>2. /\ initLen' = n + 1
      /\ Capacity(blocks) \in Nat
      /\ \A k \in 0 .. Capacity(blocks) - 1 : Place(k)' = Place(k)
      /\ \A k \in 0 .. n - 1 : Place(k)' # Place(n)'
      /\ mem' = [q \in DOMAIN mem \cup {Place(n)'} |-> IF q = Place(n)' THEN v ELSE mem[q]]
  BY <1>1, PushAdds
<1>3. NoRemoval /\ NoRemoval'
  BY DEF Push, NoRemoval, removals
<1>4. Contents = [k \in 1 .. n |-> mem[Place(k - 1)]]
  BY <1>1, <1>3, ContentsIdle DEF WhenIdle
<1>5. Contents' = [k \in 1 .. n + 1 |-> mem'[Place(k - 1)']]
  <2>1. n + 1 \in Nat /\ initLen' = n + 1
    BY <1>1, <1>2
  <2>2. initLen' \in Nat
    BY <2>1
  <2>3. Contents' = [k \in 1 .. initLen' |-> mem'[Place(k - 1)']]
    BY <1>3, <2>2, ContentsIdleNext DEF WhenIdle
  <2>4. QED  BY <2>1, <2>3
<1>6. ASSUME NEW k \in 1 .. n
      PROVE  mem'[Place(k - 1)'] = mem[Place(k - 1)]
  <2>1. k - 1 \in 0 .. n - 1
    BY <1>1
  <2>2. k - 1 \in 0 .. Extent - 1 /\ k - 1 \in 0 .. Capacity(blocks) - 1
    BY <1>1, <1>2, <1>3, <2>1, ExtentIs DEF RemoverInv, Extent, NoRemoval
  <2>3. Place(k - 1) \in DOMAIN mem /\ Place(k - 1)' = Place(k - 1) /\ Place(k - 1)' # Place(n)'
    BY <1>2, <2>1, <2>2 DEF RemoverInv, MemInv
  <2>4. QED  BY <1>2, <2>3
<1>7. mem'[Place(n)'] = v
  BY <1>2
<1>8. \A k \in 1 .. n + 1 : k \in 1 .. n \/ (k = n + 1 /\ k - 1 = n)
  BY <1>1
<1> DEFINE old(k) == mem[Place(k - 1)]
           new(k) == mem'[Place(k - 1)']
<1>9. /\ \A k \in 1 .. n : new(k) = old(k)
      /\ Contents = [k \in 1 .. n |-> old(k)]
      /\ Contents' = [k \in 1 .. n + 1 |-> new(k)]
  BY <1>4, <1>5, <1>6
<1>10. new(n + 1) = v
  <2>1. (n + 1) - 1 = n
    BY <1>1
  <2>2. QED  BY <1>7, <2>1
<1> HIDE DEF old, new
<1>11. Contents' = Append(Contents, v)
  <2>1. Len(Contents) = n
    BY <1>1, <1>9
  <2>2. Append(Contents, v) = [k \in 1 .. n + 1 |-> IF k = n + 1 THEN v ELSE Contents[k]]
    BY <1>1, <1>9, <2>1
  <2>3. QED  BY <1>1, <1>8, <1>9, <1>10, <2>2
<1>12. QED  BY <1>3, <1>11

LEMMA DropRemoves ==
  ASSUME OneRemover, RemoverInv, NEW t \in Removers, NEW p \in Visited, DropInPlace(t, p)
  PROVE  \E i \in 1 .. initLen :
           /\ NoRemoval
           /\ Contents' = [k \in 1 .. initLen - 1 |->
                             IF k = i THEN Contents[initLen] ELSE Contents[k]]
<1>1. PICK n \in Nat : n = initLen
  BY DEF RemoverInv, MemInv
<1>2. /\ Extent = n /\ Extent' = n
      /\ p \in DOMAIN mem
      /\ mem' = [mem EXCEPT ![p] = Dead] /\ target' = [target EXCEPT ![t] = p]
      /\ UNCHANGED <<blocks, initLen, last>>
      /\ \A s \in Removers : s = t /\ pc[s] = "idle" /\ pc'[s] = "len"
  BY <1>1, DropTakes
<1>3. PICK i \in 0 .. n - 1 : p = Place(i)
  BY <1>1, DropTakes
<1>4. NoRemoval /\ target'[t] = p
  BY <1>2 DEF NoRemoval, RemoverInv, MemInv
<1>5. Contents = [k \in 1 .. n |-> mem[Place(k - 1)]]
  BY <1>1, <1>4, ContentsIdle DEF WhenIdle
<1>6. \A k : Place(k)' = Place(k)
  BY <1>2 DEF Place
<1>7. Contents' = [k \in 1 .. n - 1 |->
                     mem'[IF Place(k - 1) = p THEN Place(n - 1) ELSE Place(k - 1)]]
  <2>1. (pc[t] \in {"len", "fill"} /\ initLen \in Nat)'
    BY <1>1, <1>2
  <2>2. Contents' = [k \in 1 .. Extent' - 1 |->
                       mem'[IF Place(k - 1)' = target'[t] THEN Place(Extent - 1)' ELSE Place(k - 1)']]
    BY <2>1, ContentsBusyNext DEF WhenBusy
  <2>3. Place(Extent - 1)' = Place(n - 1)
    BY <1>2 DEF Place
  <2>4. QED  BY <1>2, <1>4, <1>6, <2>2, <2>3
<1>8. \A k, l \in 0 .. n - 1 : Place(k) = Place(l) => k = l
  BY <1>2, ExtentIs DEF RemoverInv
<1>9. ASSUME NEW k \in 1 .. n - 1
      PROVE  mem'[IF Place(k - 1) = p THEN Place(n - 1) ELSE Place(k - 1)] =
               IF k = i + 1 THEN Contents[n] ELSE Contents[k]
  <2>1. /\ k - 1 \in 0 .. n - 1 /\ n - 1 \in 0 .. n - 1 /\ k - 1 # n - 1
        /\ k \in 1 .. n /\ n \in 1 .. n
        /\ k = i + 1 <=> k - 1 = i
    BY <1>1, <1>3
  <2>2. Contents[k] = mem[Place(k - 1)] /\ Contents[n] = mem[Place(n - 1)]
    BY <1>5, <2>1
  <2>3. \A q \in DOMAIN mem : q # p => mem'[q] = mem[q]
    BY <1>2
  <2>4. Place(k - 1) \in DOMAIN mem /\ Place(n - 1) \in DOMAIN mem
    BY <1>2, <2>1 DEF RemoverInv, MemInv
  <2>5. CASE k = i + 1
    <3>1. Place(k - 1) = p /\ Place(n - 1) # p
      BY <1>3, <1>8, <2>1, <2>5
    <3>2. QED  BY <2>2, <2>3, <2>4, <2>5, <3>1
  <2>6. CASE k # i + 1
    <3>1. Place(k - 1) # p
      BY <1>3, <1>8, <2>1, <2>6
    <3>2. QED  BY <2>2, <2>3, <2>4, <2>6, <3>1
  <2>7. QED  BY <2>5, <2>6
<1>10. i + 1 \in 1 .. n
  BY <1>1, <1>3
<1>11. Contents' = [k \in 1 .. n - 1 |-> IF k = i + 1 THEN Contents[n] ELSE Contents[k]]
  BY <1>7, <1>9
<1>12. QED  BY <1>1, <1>4, <1>10, <1>11

LEMMA ShrinkUnseen ==
  ASSUME OneRemover, RemoverInv, NEW t \in Removers, Shrink(t)
  PROVE  ~ NoRemoval /\ UNCHANGED Contents
<1>1. /\ Extent = initLen /\ Extent' = initLen
      /\ initLen \in Nat \ {0} /\ initLen' = initLen - 1
      /\ UNCHANGED <<blocks, mem, target>>
      /\ pc[t] = "len" /\ pc'[t] = "fill"
  BY ShrinkHolds
<1>2. initLen' \in Nat
  BY <1>1
<1>3. Extent' = Extent /\ \A k : Place(k)' = Pointer(blocks, k) /\ Place(k) = Pointer(blocks, k)
  BY <1>1 DEF Place
<1>4. Place(Extent - 1)' = Place(Extent - 1)
  BY <1>1, <1>3 DEF Place
<1>5. Contents = [k \in 1 .. Extent - 1 |->
                    mem[IF Place(k - 1) = target[t] THEN Place(Extent - 1) ELSE Place(k - 1)]]
  BY <1>1, ContentsBusy DEF WhenBusy
<1>6. Contents' = [k \in 1 .. Extent' - 1 |->
                     mem'[IF Place(k - 1)' = target'[t] THEN Place(Extent - 1)' ELSE Place(k - 1)']]
  BY <1>1, <1>2, ContentsBusyNext DEF WhenBusy
<1>7. Contents' = Contents
  BY <1>1, <1>3, <1>4, <1>5, <1>6
<1>8. QED  BY <1>1, <1>7 DEF NoRemoval

LEMMA FillUnseen ==
  ASSUME OneRemover, RemoverInv, NEW t \in Removers, Fill(t)
  PROVE  ~ NoRemoval /\ UNCHANGED Contents
<1>1. PICK n \in Nat : n = initLen
  BY DEF RemoverInv, MemInv
<1>2. /\ Extent = n + 1 /\ Extent' = n
      /\ Place(n) \in DOMAIN mem /\ target[t] \in DOMAIN mem
      /\ mem' = [mem EXCEPT ![target[t]] = mem[Place(n)]]
      /\ UNCHANGED <<blocks, initLen, target>>
      /\ \A s \in Removers : s = t /\ pc[s] = "fill" /\ pc'[s] = "idle"
      /\ \A k \in 0 .. n : Place(k) \in DOMAIN mem
  BY <1>1, FillMoves
<1>3. \A k : Place(k)' = Place(k)
  BY <1>2 DEF Place
<1>4. NoRemoval' /\ ~ NoRemoval
  BY <1>2 DEF NoRemoval
<1>5. Contents = [k \in 1 .. n |-> mem[IF Place(k - 1) = target[t] THEN Place(n) ELSE Place(k - 1)]]
  <2>1. (n + 1) - 1 = n
    BY <1>1
  <2>2. QED  BY <1>1, <1>2, <2>1, ContentsBusy DEF WhenBusy
<1>6. Contents' = [k \in 1 .. n |-> mem'[Place(k - 1)]]
  <2>1. Contents' = [k \in 1 .. initLen' |-> mem'[Place(k - 1)']]
    BY <1>1, <1>2, <1>4, ContentsIdleNext DEF WhenIdle
  <2>2. QED  BY <1>1, <1>2, <1>3, <2>1
<1>7. \A k \in 1 .. n :
        mem'[Place(k - 1)] = mem[IF Place(k - 1) = target[t] THEN Place(n) ELSE Place(k - 1)]
  <2>1. \A k \in 1 .. n : k - 1 \in 0 .. n
    BY <1>1
  <2>2. \A q \in DOMAIN mem : mem'[q] = mem[IF q = target[t] THEN Place(n) ELSE q]
    BY <1>2
  <2>3. QED  BY <1>2, <2>1, <2>2
<1>8. QED  BY <1>4, <1>5, <1>6, <1>7

\* With one remover an operation changes the contents once, as ConcurrentVec
\* says: a push appends, a removal puts the last element in the place of the
\* one it removes, and the steps in between change nothing
THEOREM OneRemoverSteps == ASSUME OneRemover PROVE Spec => StepsExact
<1> DEFINE Changed ==
      \/ \E v \in Values : NoRemoval /\ Contents' = Append(Contents, v)
      \/ \E i \in 1 .. initLen :
           /\ NoRemoval
           /\ Contents' = [k \in 1 .. initLen - 1 |->
                             IF k = i THEN Contents[initLen] ELSE Contents[k]]
      \/ ~NoRemoval /\ UNCHANGED Contents
<1>1. RemoverInv /\ [Next]_vars => [Changed]_vars
  <2> SUFFICES ASSUME RemoverInv, Next PROVE Changed
    OBVIOUS
  <2>1. ASSUME NEW v \in Values, Push(v)
        PROVE  Changed
    BY <2>1, PushAppends
  <2>2. ASSUME NEW t \in Removers, NEW p \in Visited, DropInPlace(t, p)
        PROVE  Changed
    BY <2>2, DropRemoves
  <2>3. ASSUME NEW t \in Removers, Shrink(t) \/ Fill(t)
        PROVE  Changed
    BY <2>3, ShrinkUnseen, FillUnseen
  <2> HIDE DEF Changed
  <2>4. QED  BY <2>1, <2>2, <2>3 DEF Next
<1>2. QED  BY <1>1, RemoverInvariance, PTL DEF Spec, StepsExact
=============================================================================
