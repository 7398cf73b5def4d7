-------------------------- MODULE ALinkedListProofs --------------------------
(***************************************************************************)
(* Proofs about ALinkedList, for any finite set of pushers, any readers    *)
(* and any number of nodes.                                                *)
(*                                                                         *)
(* The argument: order is a sequence of nodes without repetition, and each *)
(* push that has swapped is at a place of its own in it, between the node  *)
(* it links behind and its own; a gap in the list is where such a push is. *)
(* The pushes that have not counted are the difference of len and order,   *)
(* and each is at a gap, so that len covers what is before the first gap.  *)
(***************************************************************************)
EXTENDS ALinkedList, FiniteSetTheorems, SequenceTheorems, WellFoundedInduction, TLAPS

\* What the model's types say of the state, but for the size of the counters
Shape ==
  /\ Len(next) \in 1 .. MaxNodes
  /\ next \in [Nodes -> Nodes \cup {NoNode}]
  /\ last \in Nodes
  /\ len \in Int
  /\ pc \in [Pushers -> {"idle", "swap", "count", "link"}]
  /\ node \in [Pushers -> Nodes \cup {NoNode}]
  /\ lastPtr \in [Pushers -> Nodes \cup {NoNode}]
  /\ current \in [Readers -> Nodes \cup {NoNode}]
  /\ seen \in [Readers -> Seq(Nodes)]
  /\ order \in Seq(Nodes)
  /\ found \in [Readers -> Int]

Places == 1 .. Len(order)

\* The nodes that are made and not swapped in are new ones
OrderInv ==
  /\ Len(order) >= 1 /\ order[1] = First /\ order[Len(order)] = last
  /\ \A j, k \in Places : order[j] = order[k] => j = k
  /\ \A t \in Pushers : pc[t] = "swap" =>
       /\ node[t] \in Nodes /\ next[node[t]] = NoNode
       /\ \A k \in Places : order[k] # node[t]
       /\ \A u \in Pushers : pc[u] = "swap" /\ node[u] = node[t] => u = t

\* The push of t links the node after the one at k
At(t, k) ==
  k \in 1 .. Len(order) - 1 /\ lastPtr[t] = order[k] /\ node[t] = order[k + 1]

\* There is a gap in the list just where a push is
GapInv ==
  /\ next[last] = NoNode
  /\ \A t \in Unlinked : \E k \in Places : At(t, k) /\ next[order[k]] = NoNode
  /\ \A t, u \in Unlinked : lastPtr[t] = lastPtr[u] => t = u
  /\ \A k \in 1 .. Len(order) - 1 :
       \/ next[order[k]] = order[k + 1]
       \/ next[order[k]] = NoNode /\ \E t \in Unlinked : At(t, k)

Counting == {t \in Pushers : pc[t] = "count"}

CountInv == len = Len(order) - Cardinality(Counting)

ReadInv ==
  \A r \in Readers :
    LET n == Len(seen[r]) IN
    /\ n \in 0 .. Len(order) /\ LinkedUpTo(n)
    /\ \A k \in 1 .. n : seen[r][k] = order[k]
    /\ found[r] \in 0 .. Len(order) /\ LinkedUpTo(found[r])
    /\ current[r] = NoNode => n >= found[r]
    /\ current[r] # NoNode => n + 1 \in Places /\ current[r] = order[n + 1] /\ LinkedUpTo(n + 1)

LInv == Shape /\ OrderInv /\ GapInv /\ CountInv /\ ReadInv

-----------------------------------------------------------------------------
(* The order and the counters                                              *)

\* A set of natural numbers has a smallest element, unless it is empty
LEMMA SmallestOf ==
  ASSUME NEW T, T \subseteq Nat, T # {}
  PROVE  \E i \in T : \A j \in T : i <= j
<1> DEFINE R == {p \in Nat \X Nat : p[1] < p[2]}
<1>1. IsWellFoundedOn(R, Nat)
  BY NatLessThanWellFounded DEF OpToRel
<1>2. ASSUME NEW i \in T, NEW j \in T, <<j, i>> \notin R
      PROVE  i <= j
  <2>1. <<j, i>> \in Nat \X Nat /\ i \in Nat /\ j \in Nat
    OBVIOUS
  <2>2. ~ (j < i)
    BY <1>2, <2>1
  <2>3. QED  BY <2>1, <2>2
<1> HIDE DEF R
<1>3. \E i \in T : \A j \in T : ~ (<<j, i>> \in R)
  BY <1>1, WFMin, Zenon
<1>4. QED  BY <1>2, <1>3

\* An iteration that starts can go up to the first gap
LEMMA ReachIs ==
  ASSUME Shape, OrderInv
  PROVE  Reach \in Places /\ LinkedUpTo(Reach)
<1> DEFINE T == {k \in Places : k = Len(order) \/ next[order[k]] = NoNode}
<1>1. Len(order) \in Nat /\ Len(order) \in T /\ T \subseteq Nat
  BY DEF Shape, OrderInv, Places
<1>2. PICK k \in T : \A j \in T : k <= j
  BY <1>1, SmallestOf
<1>3. LinkedUpTo(k)
  BY <1>1, <1>2 DEF LinkedUpTo, Places
<1>4. \E m \in 1 .. Len(order) : LinkedUpTo(m) /\ (m = Len(order) \/ next[order[m]] = NoNode)
  BY <1>2, <1>3 DEF Places
<1>5. QED  BY <1>4 DEF Reach, Places

LEMMA FiniteCounting ==
  IsFiniteSet(Counting) /\ Cardinality(Counting) \in Nat
BY PushersAssumption, FS_Subset, FS_CardinalityType DEF Counting

LEMMA IntervalSize ==
  ASSUME NEW a \in Int, NEW b \in Int, a <= b + 1
  PROVE  IsFiniteSet(a .. b) /\ Cardinality(a .. b) = b - a + 1
<1>1. IsFiniteSet(a .. b) /\ Cardinality(a .. b) = IF a > b THEN 0 ELSE b - a + 1
  BY FS_Interval
<1>2. QED  BY <1>1

\* The nodes in the order are different ones
LEMMA OrderFits ==
  ASSUME Shape, OrderInv
  PROVE  Len(order) <= Len(next)
<1>1. Len(order) \in Nat /\ Len(next) \in Nat
  BY DEF Shape
<1>2. /\ IsFiniteSet(Nodes) /\ Cardinality(Nodes) = Len(next)
      /\ Cardinality(Places) = Len(order)
  <2>1. PICK m \in Nat, n \in Nat : m = Len(order) /\ n = Len(next)
    BY <1>1
  <2>2. Cardinality(1 .. m) = m /\ IsFiniteSet(1 .. n) /\ Cardinality(1 .. n) = n
    BY IntervalSize
  <2>3. QED  BY <2>1, <2>2 DEF Nodes, Places
<1>3. [k \in Places |-> order[k]] \in Injection(Places, Nodes)
  BY DEF Shape, OrderInv, Places, Injection, IsInjective
<1>4. QED  BY <1>2, <1>3, FS_Injection

\* Each push that has not counted is at a gap of its own
LEMMA CountingFits ==
  ASSUME Shape, OrderInv, GapInv, NEW k \in Places, LinkedUpTo(k)
  PROVE  Cardinality(Counting) <= Len(order) - k
<1> DEFINE Gaps == k .. Len(order) - 1
           g == [t \in Counting |-> CHOOSE j \in Places : At(t, j) /\ next[order[j]] = NoNode]
<1>1. Len(order) \in Nat /\ k \in 1 .. Len(order)
  BY DEF Shape, Places
<1>2. IsFiniteSet(Gaps) /\ Cardinality(Gaps) = Len(order) - k
  <2>1. IsFiniteSet(Gaps) /\ Cardinality(Gaps) = (Len(order) - 1) - k + 1
    BY <1>1, IntervalSize
  <2>2. QED  BY <1>1, <2>1
<1>3. ASSUME NEW t \in Counting
      PROVE  g[t] \in Gaps /\ lastPtr[t] = order[g[t]]
  <2>1. \E j \in Places : At(t, j) /\ next[order[j]] = NoNode
    BY DEF GapInv, Counting, Unlinked
  <2>2. PICK j : j = g[t] /\ j \in Places /\ At(t, j) /\ next[order[j]] = NoNode
    BY <2>1
  <2>3. j \in 1 .. Len(order) - 1 /\ ~ (j \in 1 .. k - 1) /\ lastPtr[t] = order[j]
    BY <2>2 DEF At, LinkedUpTo
  <2>4. QED  BY <1>1, <2>2, <2>3
<1> HIDE DEF g
<1>4. ASSUME NEW t \in Counting, NEW u \in Counting, g[t] = g[u]
      PROVE  t = u
  <2>1. lastPtr[t] = lastPtr[u] /\ t \in Unlinked /\ u \in Unlinked
    BY <1>3, <1>4 DEF Counting, Unlinked
  <2>2. QED  BY <2>1 DEF GapInv
<1>5. g \in [Counting -> Gaps]
  BY <1>3 DEF g
<1>6. g \in Injection(Counting, Gaps)
  BY <1>4, <1>5 DEF Injection, IsInjective
<1>7. QED  BY <1>2, <1>6, FS_Injection

LEMMA LenIs ==
  ASSUME Shape, OrderInv, GapInv, CountInv
  PROVE  /\ len \in 1 .. Len(order) /\ Len(order) <= Len(next)
         /\ \A k \in Places : LinkedUpTo(k) => k <= len
<1>1. Len(order) \in Nat /\ Cardinality(Counting) \in Nat
  BY FiniteCounting DEF Shape
<1>2. \A k \in Places : LinkedUpTo(k) => k <= len
  BY <1>1, CountingFits DEF CountInv, Places
<1>3. 1 \in Places /\ LinkedUpTo(1)
  BY <1>1 DEF OrderInv, Places, LinkedUpTo
<1>4. QED  BY <1>1, <1>2, <1>3, OrderFits DEF CountInv

-----------------------------------------------------------------------------
(* The steps of a push                                                     *)

LEMMA NextSeq == Shape => next \in Seq(Nat)
<1> SUFFICES ASSUME Shape
             PROVE  next \in Seq(Nat)
  OBVIOUS
<1>1. PICK n \in Nat : n = Len(next)
  BY DEF Shape
<1>2. next \in [1 .. n -> Nat]
  BY SMTT(30), <1>1 DEF Shape, Nodes, NoNode
<1>3. QED  BY <1>2, SeqDef

LEMMA AllocateKeeps ==
  ASSUME LInv, NEW t \in Pushers, Allocate(t)
  PROVE  LInv'
<1> USE DEF LInv
<1>1. PICK n : n = Len(next) + 1
  OBVIOUS
<1>2. /\ UNCHANGED <<last, len, lastPtr, current, seen, found, order>>
      /\ pc[t] = "idle" /\ pc'[t] = "swap" /\ node'[t] = n
      /\ \A u \in Pushers : u # t => pc'[u] = pc[u] /\ node'[u] = node[u]
  BY <1>1 DEF Allocate, Goto, Shape, iterVars
<1>3. /\ n \notin Nodes /\ Len(next') = n /\ next'[n] = NoNode
      /\ Nodes' = Nodes \cup {n} /\ \A i \in Nodes : next'[i] = next[i]
      /\ n \in 1 .. MaxNodes /\ next' \in [Nodes' -> Nodes' \cup {NoNode}]
  <2>1. next' = Append(next, NoNode) /\ next \in Seq(Nat) /\ Len(next) < MaxNodes
    BY NextSeq DEF Allocate
  <2>2. /\ n \notin Nodes /\ Len(next') = n /\ next'[n] = NoNode
        /\ Nodes' = Nodes \cup {n} /\ \A i \in Nodes : next'[i] = next[i]
        /\ n \in 1 .. MaxNodes
    BY <1>1, <2>1, MaxNodesAssumption DEF Nodes
  <2>3. next' \in Seq(Nat) /\ \A i \in Nodes' : next'[i] \in Nodes' \cup {NoNode}
    BY <2>1, <2>2 DEF Shape, NoNode
  <2>4. QED  BY <2>2, <2>3 DEF Nodes
<1>4. \A k \in Places : order[k] \in Nodes
  BY DEF Shape, Places
<1>5. \A k \in 0 .. Len(order) : LinkedUpTo(k)' <=> LinkedUpTo(k)
  BY <1>2, <1>3, <1>4 DEF LinkedUpTo, Places, Shape
<1>6. Shape'
  <2>1. order \in Seq(Nodes') /\ \A r \in Readers : seen[r] \in Seq(Nodes')
    BY <1>3, SeqMonotonic DEF Shape
  <2>2. /\ node' \in [Pushers -> Nodes' \cup {NoNode}]
        /\ pc' \in [Pushers -> {"idle", "swap", "count", "link"}]
    BY <1>1, <1>3 DEF Allocate, Goto, Shape
  <2>3. QED  BY <1>2, <1>3, <2>1, <2>2 DEF Shape
<1>7. OrderInv'
  <2>1. ASSUME NEW u \in Pushers, pc'[u] = "swap"
        PROVE  /\ node'[u] \in Nodes' /\ next'[node'[u]] = NoNode
               /\ \A k \in Places : order[k] # node'[u]
               /\ \A w \in Pushers : pc'[w] = "swap" /\ node'[w] = node'[u] => w = u
    <3>1. \A w \in Pushers : w # t /\ pc'[w] = "swap" => node'[w] \in Nodes /\ node'[w] # n
      BY <1>2, <1>3 DEF OrderInv
    <3>2. CASE u = t
      BY <1>2, <1>3, <1>4, <3>1, <3>2
    <3>3. CASE u # t
      BY <1>2, <1>3, <2>1, <3>1, <3>3 DEF OrderInv
    <3>4. QED  BY <3>2, <3>3
  <2>2. QED  BY <1>2, <2>1 DEF OrderInv, Places
<1>8. /\ Unlinked' = Unlinked /\ Counting' = Counting
      /\ \A u \in Unlinked : \A k : At(u, k)' <=> At(u, k)
  BY <1>2 DEF Unlinked, Counting, At
<1>9. GapInv'
  <2>1. Len(order) \in Nat /\ last \in Nodes
    BY DEF Shape
  <2>2. \A k \in 1 .. Len(order) - 1 : next'[order[k]] = next[order[k]]
    BY <1>3, <1>4, <2>1 DEF Places
  <2>3. \A u \in Unlinked : \E k \in Places : At(u, k)' /\ next'[order[k]] = NoNode
    <3> SUFFICES ASSUME NEW u \in Unlinked
                 PROVE  \E k \in Places : At(u, k)' /\ next'[order[k]] = NoNode
      OBVIOUS
    <3>1. PICK k \in Places : At(u, k) /\ next[order[k]] = NoNode
      BY DEF GapInv
    <3>2. QED  BY <1>8, <2>2, <3>1 DEF At
  <2>4. \A k \in 1 .. Len(order) - 1 :
          \/ next'[order[k]] = order[k + 1]
          \/ next'[order[k]] = NoNode /\ \E u \in Unlinked : At(u, k)'
    BY <1>8, <2>2 DEF GapInv
  <2>5. next'[last] = NoNode
    BY <1>3, <2>1 DEF GapInv
  <2>6. QED  BY <1>2, <1>8, <2>3, <2>4, <2>5 DEF GapInv, Places
<1>10. CountInv'
  BY <1>2, <1>8 DEF CountInv
<1>11. ReadInv'
  BY <1>2, <1>5 DEF ReadInv, Places, Shape
<1>12. QED  BY <1>6, <1>7, <1>9, <1>10, <1>11

LEMMA CountKeeps ==
  ASSUME LInv, NEW t \in Pushers, Count(t)
  PROVE  LInv'
<1> USE DEF LInv
<1>1. /\ UNCHANGED <<next, last, node, lastPtr, current, seen, found, order>>
      /\ len' = len + 1 /\ pc[t] = "count" /\ pc'[t] = "link"
      /\ \A u \in Pushers : u # t => pc'[u] = pc[u]
      /\ pc' \in [Pushers -> {"idle", "swap", "count", "link"}]
  BY DEF Count, Goto, Shape, iterVars
<1>2. Unlinked' = Unlinked /\ Counting' = Counting \ {t} /\ t \in Counting
  BY <1>1 DEF Unlinked, Counting
<1>3. Shape'
  BY <1>1 DEF Shape, Nodes
<1>4. OrderInv'
  BY <1>1 DEF OrderInv, Places, Nodes
<1>5. GapInv'
  BY <1>1, <1>2 DEF GapInv, Places, At
<1>6. CountInv'
  <2>1. Cardinality(Counting') = Cardinality(Counting) - 1
    BY <1>2, FiniteCounting, FS_RemoveElement
  <2>2. QED  BY <1>1, <2>1, FiniteCounting DEF CountInv, Shape
<1>7. ReadInv'
  BY <1>1 DEF ReadInv, Places, LinkedUpTo
<1>8. QED  BY <1>3, <1>4, <1>5, <1>6, <1>7

LEMMA SwapKeeps ==
  ASSUME LInv, NEW t \in Pushers, Swap(t)
  PROVE  LInv'
<1> USE DEF LInv
<1>1. PICK n \in Nat, m \in Nodes : n = Len(order) /\ m = node[t] /\ next[m] = NoNode
  BY DEF Swap, Goto, Shape, OrderInv
<1>2. /\ UNCHANGED <<next, len, node, current, seen, found>>
      /\ pc[t] = "swap" /\ pc'[t] = "count" /\ lastPtr'[t] = last /\ last' = m
      /\ \A u \in Pushers : u # t => pc'[u] = pc[u] /\ lastPtr'[u] = lastPtr[u]
  BY <1>1 DEF Swap, Goto, Shape, iterVars
<1>3. /\ Len(order') = n + 1 /\ order'[n + 1] = m /\ order[n] = last /\ n >= 1
      /\ \A k \in 1 .. n : order'[k] = order[k] /\ order[k] \in Nodes /\ order[k] # m
  BY <1>1, <1>2 DEF Swap, Shape, OrderInv, Places
<1>4. Shape'
  <2>1. /\ lastPtr' \in [Pushers -> Nodes \cup {NoNode}] /\ order' \in Seq(Nodes)
        /\ pc' \in [Pushers -> {"idle", "swap", "count", "link"}]
    BY <1>1 DEF Swap, Goto, Shape
  <2>2. QED  BY <1>2, <2>1 DEF Shape, Nodes
<1>5. OrderInv'
  <2>1. \A j, k \in 1 .. n + 1 : order'[j] = order'[k] => j = k
    BY <1>1, <1>3 DEF OrderInv, Places
  <2>2. ASSUME NEW u \in Pushers, pc'[u] = "swap"
        PROVE  /\ node[u] \in Nodes /\ next[node[u]] = NoNode
               /\ \A k \in 1 .. n + 1 : order'[k] # node[u]
               /\ \A w \in Pushers : pc'[w] = "swap" /\ node[w] = node[u] => w = u
    <3>1. u # t /\ pc[u] = "swap" /\ node[u] # m
      BY <1>1, <1>2, <2>2 DEF OrderInv
    <3>2. QED  BY <1>1, <1>2, <1>3, <3>1 DEF OrderInv, Places
  <2>3. order'[1] = First
    BY <1>1, <1>3 DEF OrderInv
  <2>4. QED  BY <1>2, <1>3, <2>1, <2>2, <2>3 DEF OrderInv, Places, Nodes
<1>6. Unlinked' = Unlinked \cup {t} /\ t \notin Unlinked
  BY <1>2 DEF Unlinked
<1>7. GapInv'
  <2>1. \A u \in Unlinked : \A k \in 1 .. n : At(u, k) => At(u, k)' /\ k # n
    BY <1>1, <1>2, <1>3, <1>6 DEF At, Unlinked
  <2>2. At(t, n)' /\ next[order'[n]] = NoNode
    BY <1>1, <1>2, <1>3 DEF At, GapInv
  <2>3. ASSUME NEW u \in Unlinked'
        PROVE  \E k \in 1 .. n + 1 : At(u, k)' /\ next[order'[k]] = NoNode
    <3>1. CASE u = t
      BY <1>3, <2>2, <3>1
    <3>2. CASE u # t
      <4>1. PICK k \in 1 .. n : At(u, k) /\ next[order[k]] = NoNode
        BY <1>1, <1>6, <3>2 DEF GapInv, Places
      <4>2. QED  BY <1>3, <1>6, <2>1, <3>2, <4>1
    <3>3. QED  BY <3>1, <3>2
  <2>4. \A u \in Unlinked : lastPtr'[u] = lastPtr[u] /\ lastPtr[u] # last
    <3> SUFFICES ASSUME NEW u \in Unlinked
                 PROVE  lastPtr'[u] = lastPtr[u] /\ lastPtr[u] # last
      OBVIOUS
    <3>1. PICK k \in 1 .. n : At(u, k)
      BY <1>1 DEF GapInv, Places
    <3>2. QED  BY <1>1, <1>2, <1>3, <1>6, <3>1 DEF At, OrderInv, Places, Unlinked
  <2>5. \A u, w \in Unlinked' : lastPtr'[u] = lastPtr'[w] => u = w
    BY <1>2, <1>6, <2>4 DEF GapInv
  <2>6. ASSUME NEW k \in 1 .. n
        PROVE  \/ next[order'[k]] = order'[k + 1]
               \/ next[order'[k]] = NoNode /\ \E u \in Unlinked' : At(u, k)'
    <3>1. CASE k = n
      BY <1>6, <2>2, <3>1
    <3>2. CASE k # n
      <4>1. k \in 1 .. n - 1 /\ k + 1 \in 1 .. n
        BY <3>2
      <4>2. QED  BY <1>1, <1>3, <1>6, <2>1, <4>1 DEF GapInv
    <3>3. QED  BY <3>1, <3>2
  <2>7. Len(order') - 1 = n /\ Places' = 1 .. n + 1
    BY <1>1, <1>3 DEF Places
  <2>8. QED  BY <1>1, <1>2, <2>3, <2>5, <2>6, <2>7 DEF GapInv
<1>8. CountInv'
  <2>1. Counting' = Counting \cup {t} /\ t \notin Counting
    BY <1>2 DEF Counting
  <2>2. Cardinality(Counting') = Cardinality(Counting) + 1
    BY <2>1, FiniteCounting, FS_AddElement
  <2>3. QED  BY <1>1, <1>2, <1>3, <2>2, FiniteCounting DEF CountInv
<1>9. ReadInv'
  <2>1. \A k \in 0 .. n : LinkedUpTo(k)' <=> LinkedUpTo(k)
    BY <1>1, <1>2, <1>3 DEF LinkedUpTo
  <2>2. ASSUME NEW r \in Readers, NEW k \in Nat, k = Len(seen[r])
        PROVE  /\ k \in 0 .. n + 1 /\ LinkedUpTo(k)'
               /\ \A j \in 1 .. k : seen[r][j] = order'[j]
               /\ found[r] \in 0 .. n + 1 /\ LinkedUpTo(found[r])'
               /\ current[r] = NoNode => k >= found[r]
               /\ current[r] # NoNode => /\ k + 1 \in 1 .. n + 1 /\ current[r] = order'[k + 1]
                                         /\ LinkedUpTo(k + 1)'
    <3>1. /\ k \in 0 .. n /\ LinkedUpTo(k) /\ \A j \in 1 .. k : seen[r][j] = order[j]
          /\ found[r] \in 0 .. n /\ LinkedUpTo(found[r])
          /\ current[r] = NoNode => k >= found[r]
          /\ current[r] # NoNode =>
               k + 1 \in 1 .. n /\ current[r] = order[k + 1] /\ LinkedUpTo(k + 1)
      BY <1>1, <2>2 DEF ReadInv, Places
    <3>2. LinkedUpTo(k)' /\ LinkedUpTo(found[r])'
      <4>1. PICK f \in 0 .. n : f = found[r] /\ f = found'[r]
        BY <1>2, <3>1
      <4>2. LinkedUpTo(k)' /\ LinkedUpTo(f)'
        BY <2>1, <3>1, <4>1
      <4>3. QED  BY <4>1, <4>2 DEF LinkedUpTo
    <3>3. current[r] # NoNode => /\ k + 1 \in 1 .. n + 1 /\ current[r] = order'[k + 1]
                                 /\ LinkedUpTo(k + 1)'
      <4>1. k + 1 \in 1 .. n => k + 1 \in 0 .. n /\ k + 1 \in 1 .. n + 1
        BY <1>1
      <4>2. QED  BY <1>3, <2>1, <3>1, <4>1
    <3>4. \A j \in 1 .. k : j \in 1 .. n
      BY <3>1
    <3>5. \A j \in 1 .. k : seen[r][j] = order'[j]
      BY <1>3, <3>1, <3>4
    <3>6. k \in 0 .. n + 1 /\ found[r] \in 0 .. n + 1
      BY <3>1
    <3>7. QED  BY <3>1, <3>2, <3>3, <3>5, <3>6
  <2>3. \A r \in Readers : Len(seen[r]) \in Nat
    BY DEF Shape
  <2>4. Places' = 1 .. n + 1
    BY <1>3 DEF Places
  <2>5. QED  BY <1>2, <1>3, <2>2, <2>3, <2>4 DEF ReadInv
<1>10. QED  BY <1>4, <1>5, <1>7, <1>8, <1>9

LEMMA LinkKeeps ==
  ASSUME LInv, NEW t \in Pushers, Link(t)
  PROVE  LInv'
<1> USE DEF LInv
<1>1. PICK n \in Nat : n = Len(order)
  BY DEF Shape
<1>2. /\ UNCHANGED <<last, len, node, lastPtr, current, seen, found, order>>
      /\ pc[t] = "link" /\ pc'[t] = "idle"
      /\ \A u \in Pushers : u # t => pc'[u] = pc[u]
  BY DEF Link, Goto, Shape, iterVars
<1>3. PICK k \in 1 .. n - 1 : At(t, k)
  BY <1>1, <1>2 DEF GapInv, Unlinked, At
<1>4. \A j \in 1 .. n : order[j] \in Nodes /\ order[j] # NoNode
  BY <1>1 DEF Shape, Nodes, NoNode
<1>5. /\ Nodes' = Nodes /\ Len(next') = Len(next) /\ next'[order[k]] = order[k + 1]
      /\ next' \in [Nodes -> Nodes \cup {NoNode}]
      /\ \A i \in Nodes : i # order[k] => next'[i] = next[i]
  <2>1. next' = [next EXCEPT ![order[k]] = order[k + 1]]
    BY <1>3 DEF At, Link
  <2>2. order[k] \in Nodes /\ order[k + 1] \in Nodes
    BY <1>1, <1>3, <1>4
  <2>3. Len(next') = Len(next)
    BY <2>1, NextSeq, ExceptSeq
  <2>4. QED  BY <2>1, <2>2, <2>3 DEF Shape, Nodes
<1>6. \A j \in 1 .. n : j # k => next'[order[j]] = next[order[j]]
  BY <1>1, <1>3, <1>4, <1>5 DEF OrderInv, Places
<1>7. \A m \in 0 .. n : LinkedUpTo(m) => LinkedUpTo(m)'
  <2>1. \A j \in 1 .. n : next[order[j]] # NoNode => next'[order[j]] # NoNode
    BY <1>1, <1>3, <1>4, <1>5, <1>6
  <2>2. QED  BY <1>1, <1>2, <2>1 DEF LinkedUpTo
<1>8. Shape'
  BY <1>2, <1>5 DEF Shape, Link, Goto
<1>9. OrderInv'
  BY <1>1, <1>2, <1>3, <1>5 DEF OrderInv, Places
<1>10. /\ Unlinked' = Unlinked \ {t} /\ t \in Unlinked /\ Counting' = Counting
       /\ \A u \in Pushers : \A j : At(u, j)' <=> At(u, j)
  BY <1>2 DEF Unlinked, Counting, At
<1>11. GapInv'
  <2>1. next'[last] = NoNode
    BY <1>1, <1>3, <1>6 DEF GapInv, OrderInv
  <2>2. ASSUME NEW u \in Unlinked'
        PROVE  \E j \in 1 .. n : At(u, j)' /\ next'[order[j]] = NoNode
    <3>1. PICK j \in 1 .. n : At(u, j) /\ next[order[j]] = NoNode
      BY <1>1, <1>10 DEF GapInv, Places
    <3>2. j # k
      BY <1>3, <1>10, <3>1 DEF GapInv, At
    <3>3. QED  BY <1>6, <1>10, <3>1, <3>2 DEF Unlinked
  <2>3. ASSUME NEW j \in 1 .. n - 1
        PROVE  \/ next'[order[j]] = order[j + 1]
               \/ next'[order[j]] = NoNode /\ \E u \in Unlinked' : At(u, j)'
    <3>1. CASE j = k
      BY <1>5, <3>1
    <3>2. CASE j # k /\ next[order[j]] = order[j + 1]
      BY <1>6, <3>2
    <3>3. CASE j # k /\ next[order[j]] # order[j + 1]
      <4>1. PICK u \in Unlinked : At(u, j) /\ next[order[j]] = NoNode
        BY <1>1, <3>3 DEF GapInv
      <4>2. u # t
        BY <1>1, <1>3, <3>3, <4>1 DEF At, OrderInv, Places
      <4>3. QED  BY <1>6, <1>10, <3>3, <4>1, <4>2 DEF Unlinked
    <3>4. QED  BY <3>1, <3>2, <3>3
  <2>4. QED  BY <1>1, <1>2, <1>10, <2>1, <2>2, <2>3 DEF GapInv, Places
<1>12. CountInv'
  BY <1>2, <1>10 DEF CountInv
<1>13. ReadInv'
  <2>1. ASSUME NEW r \in Readers, NEW m \in Nat, m = Len(seen[r])
        PROVE  /\ m \in 0 .. n /\ LinkedUpTo(m)'
               /\ \A j \in 1 .. m : seen[r][j] = order[j]
               /\ found[r] \in 0 .. n /\ LinkedUpTo(found[r])'
               /\ current[r] = NoNode => m >= found[r]
               /\ current[r] # NoNode =>
                    m + 1 \in 1 .. n /\ current[r] = order[m + 1] /\ LinkedUpTo(m + 1)'
    <3>1. /\ m \in 0 .. n /\ LinkedUpTo(m) /\ \A j \in 1 .. m : seen[r][j] = order[j]
          /\ found[r] \in 0 .. n /\ LinkedUpTo(found[r])
          /\ current[r] = NoNode => m >= found[r]
          /\ current[r] # NoNode =>
               m + 1 \in 1 .. n /\ current[r] = order[m + 1] /\ LinkedUpTo(m + 1)
      BY <1>1, <2>1 DEF ReadInv, Places
    <3>2. PICK f \in 0 .. n : f = found[r] /\ f = found'[r]
      BY <1>2, <3>1
    <3>3. LinkedUpTo(m)' /\ LinkedUpTo(f)'
      BY <1>7, <3>1, <3>2
    <3>4. LinkedUpTo(found[r])'
      BY <3>2, <3>3 DEF LinkedUpTo
    <3>5. m + 1 \in 1 .. n => m + 1 \in 0 .. n
      OBVIOUS
    <3>6. QED  BY <1>7, <3>1, <3>3, <3>4, <3>5
  <2>2. \A r \in Readers : Len(seen[r]) \in Nat
    BY DEF Shape
  <2>3. QED  BY <1>1, <1>2, <2>1, <2>2 DEF ReadInv, Places
<1>14. QED  BY <1>8, <1>9, <1>11, <1>12, <1>13

-----------------------------------------------------------------------------
(* The steps of an iteration                                               *)

LEMMA StartIterKeeps ==
  ASSUME LInv, NEW r \in Readers, StartIter(r)
  PROVE  LInv'
<1> USE DEF LInv
<1>1. PICK k \in Places : k = Reach /\ LinkedUpTo(k)
  BY ReachIs
<1>2. /\ UNCHANGED <<next, last, len, pc, node, lastPtr, order>>
      /\ current' = [current EXCEPT ![r] = First] /\ seen' = [seen EXCEPT ![r] = <<>>]
      /\ found' = [found EXCEPT ![r] = k]
  BY <1>1 DEF StartIter, pushVars
<1>3. Shape'
  <2>1. First \in Nodes /\ <<>> \in Seq(Nodes) /\ k \in Int
    BY DEF Shape, First, Nodes, Places
  <2>2. QED  BY <1>2, <2>1 DEF Shape, Nodes
<1>4. OrderInv' /\ GapInv' /\ CountInv'
  BY <1>2 DEF OrderInv, GapInv, CountInv, Places, Nodes, Unlinked, At, Counting
<1>5. ReadInv'
  <2>1. \A j : LinkedUpTo(j)' <=> LinkedUpTo(j)
    BY <1>2 DEF LinkedUpTo
  <2>2. LinkedUpTo(0) /\ LinkedUpTo(1) /\ 1 \in Places /\ Len(order) \in Nat /\ k \in 0 .. Len(order)
    BY DEF LinkedUpTo, OrderInv, Places, Shape
  <2>3. ASSUME NEW q \in Readers, q # r
        PROVE  current'[q] = current[q] /\ seen'[q] = seen[q] /\ found'[q] = found[q]
    BY <1>2, <2>3 DEF Shape
  <2>4. current'[r] = First /\ seen'[r] = <<>> /\ found'[r] = k
    BY <1>2 DEF Shape
  <2>5. First # NoNode /\ order[1] = First /\ Len(<<>>) = 0
    BY DEF First, NoNode, OrderInv
  <2>6. QED  BY <1>1, <1>2, <2>1, <2>2, <2>3, <2>4, <2>5 DEF ReadInv, Places
<1>6. QED  BY <1>3, <1>4, <1>5

LEMMA NextItemKeeps ==
  ASSUME LInv, NEW r \in Readers, NextItem(r)
  PROVE  LInv'
<1> USE DEF LInv
<1>1. PICK n \in Nat, c \in Nodes, k \in Nat :
        n = Len(order) /\ c = current[r] /\ k = Len(seen[r]) /\ c # NoNode
  BY DEF NextItem, Shape
<1>2. /\ UNCHANGED <<next, last, len, pc, node, lastPtr, order, found>>
      /\ current' = [current EXCEPT ![r] = next[c]] /\ seen' = [seen EXCEPT ![r] = Append(@, c)]
  BY <1>1 DEF NextItem, pushVars
<1>3. /\ k + 1 \in 1 .. n /\ c = order[k + 1] /\ LinkedUpTo(k + 1)
      /\ \A j \in 1 .. k : seen[r][j] = order[j]
      /\ found[r] \in 0 .. n /\ LinkedUpTo(found[r])
  BY <1>1 DEF ReadInv, Places
<1>4. Shape'
  BY <1>1, <1>2 DEF Shape, Nodes
<1>5. OrderInv' /\ GapInv' /\ CountInv'
  <2>1. UNCHANGED <<next, last, len, pc, node, lastPtr, order>>
    BY <1>2
  <2>2. OrderInv' /\ CountInv'
    BY <2>1 DEF OrderInv, CountInv, Places, Nodes, Counting
  <2>3. GapInv'
    BY <2>1 DEF GapInv, Places, Unlinked, At
  <2>4. QED  BY <2>2, <2>3
<1>6. /\ current'[r] = next[c] /\ Len(seen'[r]) = k + 1
      /\ \A j \in 1 .. k + 1 : seen'[r][j] = order[j]
  BY <1>1, <1>2, <1>3 DEF Shape
<1>7. ASSUME next[c] = NoNode
      PROVE  k + 1 >= found[r]
  BY <1>1, <1>3, <1>7 DEF LinkedUpTo
<1>8. ASSUME next[c] # NoNode
      PROVE  k + 2 \in 1 .. n /\ next[c] = order[k + 2] /\ LinkedUpTo(k + 2)
  <2>1. k + 1 # n
    BY <1>1, <1>3, <1>8 DEF GapInv, OrderInv
  <2>2. k + 1 \in 1 .. n - 1 /\ k + 2 \in 1 .. n /\ k + 1 + 1 = k + 2
    BY <1>3, <2>1
  <2>3. next[c] = order[k + 2]
    BY <1>1, <1>3, <1>8, <2>2 DEF GapInv
  <2>4. QED  BY <1>3, <1>8, <2>2, <2>3 DEF LinkedUpTo
<1>9. ReadInv'
  <2>1. \A j : LinkedUpTo(j)' <=> LinkedUpTo(j)
    BY <1>2 DEF LinkedUpTo
  <2>2. ASSUME NEW q \in Readers, q # r
        PROVE  current'[q] = current[q] /\ seen'[q] = seen[q]
    BY <1>2, <2>2 DEF Shape
  <2>3. k + 1 \in 0 .. n /\ (k + 1) + 1 = k + 2
    BY <1>3
  <2>4. QED  BY <1>1, <1>2, <1>3, <1>6, <1>7, <1>8, <2>1, <2>2, <2>3 DEF ReadInv, Places
<1>10. QED  BY <1>4, <1>5, <1>9

-----------------------------------------------------------------------------
(* The invariant                                                           *)

LEMMA InitLinked == Init => LInv
<1> SUFFICES ASSUME Init
             PROVE  LInv
  OBVIOUS
<1>1. /\ next = <<NoNode>> /\ order = <<First>> /\ last = First /\ len = 1
      /\ Len(next) = 1 /\ Len(order) = 1 /\ Nodes = {1} /\ Places = {1}
      /\ next[1] = NoNode /\ order[1] = First /\ First = 1 /\ NoNode = 0
      /\ Unlinked = {} /\ Counting = {} /\ \A t \in Pushers : pc[t] = "idle"
  BY DEF Init, Nodes, Places, First, NoNode, Unlinked, Counting
<1>2. Shape
  <2>1. <<First>> \in Seq(Nodes) /\ <<>> \in Seq(Nodes) /\ next \in [Nodes -> {0}]
    BY <1>1
  <2>2. QED  BY <1>1, <2>1, MaxNodesAssumption DEF Init, Shape
<1>3. OrderInv
  BY <1>1 DEF OrderInv
<1>4. GapInv
  BY <1>1 DEF GapInv
<1>5. CountInv
  BY <1>1, FS_EmptySet DEF CountInv
<1>6. ReadInv
  BY <1>1 DEF Init, ReadInv, LinkedUpTo
<1>7. QED  BY <1>2, <1>3, <1>4, <1>5, <1>6 DEF LInv

LEMMA NextLinked == LInv /\ [Next]_vars => LInv'
<1> SUFFICES ASSUME LInv, [Next]_vars
             PROVE  LInv'
  OBVIOUS
<1>1. CASE \E t \in Pushers : Allocate(t) \/ PushStep(t)
  BY <1>1, AllocateKeeps, SwapKeeps, CountKeeps, LinkKeeps DEF PushStep
<1>2. CASE \E r \in Readers : StartIter(r) \/ NextItem(r)
  BY <1>2, StartIterKeeps, NextItemKeeps
<1>3. CASE UNCHANGED vars
  <2>1. UNCHANGED <<next, last, len, pc, node, lastPtr, current, seen, order, found>>
    BY <1>3 DEF vars, pushVars, iterVars
  <2>2. Shape' /\ OrderInv' /\ CountInv'
    BY <2>1 DEF LInv, Shape, OrderInv, CountInv, Counting, Places, Nodes
  <2>3. GapInv' /\ ReadInv'
    BY <2>1 DEF LInv, GapInv, ReadInv, Places, Unlinked, At, LinkedUpTo
  <2>4. QED  BY <2>2, <2>3 DEF LInv
<1>4. QED  BY <1>1, <1>2, <1>3 DEF Next

LEMMA Linked == Spec => []LInv
BY InitLinked, NextLinked, PTL DEF Spec

LEMMA LinkedTypes == LInv => TypeOK
<1> SUFFICES ASSUME LInv
             PROVE  TypeOK
  OBVIOUS
<1>1. PICK m \in Nat, n \in Nat : m = Len(next) /\ n = Len(order) /\ n <= m /\ len \in 1 .. n
  BY LenIs DEF LInv, Shape
<1>2. \A r \in Readers : found[r] \in 0 .. m
  BY <1>1 DEF LInv, ReadInv
<1>3. found \in [Readers -> 0 .. m]
  BY <1>2 DEF LInv, Shape
<1>4. QED  BY <1>1, <1>3 DEF LInv, Shape, TypeOK

\* The link after the node at k is missing just while a push is to set it
LEMMA LinkedChain == LInv => ChainExact
<1> SUFFICES ASSUME LInv
             PROVE  ChainExact
  OBVIOUS
<1>1. PICK n \in Nat : n = Len(order)
  BY DEF LInv, Shape
<1>2. ASSUME NEW k \in 1 .. n - 1, NEW t \in Unlinked, lastPtr[t] = order[k]
      PROVE  next[order[k]] = NoNode
  <2>1. PICK j \in 1 .. n : At(t, j) /\ next[order[j]] = NoNode
    BY <1>1 DEF LInv, GapInv, Places
  <2>2. order[j] = order[k] /\ j \in Places /\ k \in Places
    BY <1>1, <1>2, <2>1 DEF Places, At
  <2>3. j = k
    BY <2>2 DEF LInv, OrderInv
  <2>4. QED  BY <2>1, <2>3
<1>3. \A k \in 1 .. n - 1 : order[k + 1] # NoNode
  BY <1>1 DEF LInv, Shape, Nodes, NoNode
<1>4. QED  BY <1>1, <1>2, <1>3 DEF LInv, GapInv, OrderInv, At, ChainExact

LEMMA LinkedLen == LInv => LenCovers
<1> SUFFICES ASSUME LInv
             PROVE  LenCovers
  OBVIOUS
<1>1. /\ len \in 1 .. Len(order) /\ Len(order) \in Nat
      /\ \A k \in Places : LinkedUpTo(k) => k <= len
  BY LenIs DEF LInv, Shape
<1>2. ASSUME NEW r \in Readers
      PROVE  Len(seen[r]) <= len
  <2>1. PICK k \in 0 .. Len(order) : k = Len(seen[r]) /\ LinkedUpTo(k)
    BY DEF LInv, ReadInv
  <2>2. CASE k = 0
    BY <1>1, <2>1, <2>2
  <2>3. CASE k # 0
    <3>1. k \in Places
      BY <1>1, <2>1, <2>3 DEF Places
    <3>2. QED  BY <1>1, <2>1, <3>1
  <2>4. QED  BY <2>2, <2>3
<1>3. QED  BY <1>1, <1>2 DEF LenCovers, Places

LEMMA LinkedIter == LInv => IterSound
<1> SUFFICES ASSUME LInv, NEW r \in Readers
             PROVE  /\ seen[r] = SubSeq(order, 1, Len(seen[r]))
                    /\ current[r] # NoNode => current[r] = order[Len(seen[r]) + 1]
                    /\ current[r] = NoNode => Len(seen[r]) >= found[r]
  BY DEF IterSound
<1>1. PICK k \in 0 .. Len(order) : k = Len(seen[r]) /\ \A j \in 1 .. k : seen[r][j] = order[j]
  BY DEF LInv, ReadInv
<1>2. seen[r] \in Seq(Nodes) /\ order \in Seq(Nodes) /\ Len(order) \in Nat
  BY DEF LInv, Shape
<1>3. /\ SubSeq(order, 1, k) \in Seq(Nodes) /\ Len(SubSeq(order, 1, k)) = k
      /\ \A j \in 1 .. k : SubSeq(order, 1, k)[j] = order[j]
  BY <1>1, <1>2
<1>4. seen[r] = SubSeq(order, 1, k)
  BY <1>1, <1>2, <1>3, SeqEqual
<1>5. QED  BY <1>1, <1>4 DEF LInv, ReadInv

-----------------------------------------------------------------------------
(* The theorems                                                            *)

\* What push_back keeps is in shape: among the rest, len is between one and
\* the number of the nodes that were made
THEOREM TypeCorrect == Spec => []TypeOK
BY Linked, LinkedTypes, PTL

\* However many threads run push_back, each node has the one successor that
\* was swapped in after it, missing just while that push is on the way
THEOREM ChainIsExact == Spec => []ChainExact
BY Linked, LinkedChain, PTL

\* However many threads run push_back beside iterations, no iteration is ahead
\* of len, and len is never ahead of the swaps
THEOREM LenIsCover == Spec => []LenCovers
BY Linked, LinkedLen, PTL

\* An iteration beside any number of pushes returns a prefix of the order of
\* the swaps, and at least what could be reached when it started
THEOREM IterIsSound == Spec => []IterSound
BY Linked, LinkedIter, PTL
=============================================================================
