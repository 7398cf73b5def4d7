---------------------------- MODULE AnyVecLayout ----------------------------
(***************************************************************************)
(* Where jaya-ecs/src/collections.rs finds the elements of an AnyVec: the  *)
(* arithmetic, in bytes, of get_capacity, get_bytes_ptr, par_iter,         *)
(* par_iter_combinations and drop, on the blocks that push leaves when one *)
(* thread at a time calls it (AnyVec has several), and swap_remove_by_ptr  *)
(* one memory access at a time, called by one or by several threads on     *)
(* different elements while nothing is pushed, as "removals can happen     *)
(* concurrently" and items 4 to 6 of its safety list allow.                *)
(*                                                                         *)
(* A pointer is a block and an offset in it.  Positions of blocks count    *)
(* from 0 where the code's do, and blocks[i + 1] is the block at i.        *)
(***************************************************************************)
EXTENDS Integers, Sequences, FiniteSets

CONSTANTS
  Removers,     \* threads that call swap_remove_by_ptr
  Values,       \* elements
  Dead,         \* the bytes of an element whose destructor has run
  FirstBlock,   \* elements in the first block (DEFAULT_BLOCK_SIZE, 32)
  Size,         \* element_size, in bytes
  MaxLen        \* bound: elements

ASSUME FirstBlockAssumption == FirstBlock \in Nat \ {0}
ASSUME DeadAssumption == Dead \notin Values
ASSUME SizeAssumption == Size \in Nat \ {0}
ASSUME MaxLenAssumption == MaxLen \in Nat

BLOCK_GROWTH_RATE == 2

VARIABLES
  blocks,   \* the length of each block in bytes
  initLen,  \* init_len, and maybe_init_len with it
  mem,      \* what has been written to each slot, by pointer
  pc,       \* where each remover is in swap_remove_by_ptr
  target,   \* its ptr
  last,     \* current_len: the index of the element that is to fill the hole
  live      \* history: how many elements of each value are to be in the vector

removals == <<pc, target, last>>
vars == <<blocks, initLen, mem, removals, live>>

-----------------------------------------------------------------------------
(* The arithmetic                                                          *)

Positions == 0 .. Len(blocks) - 1

\* get_capacity: how many elements the blocks b hold
Capacity(b) ==
  LET Sum[n \in 0 .. Len(b)] == IF n = 0 THEN 0 ELSE Sum[n - 1] + b[n] \div Size
  IN  Sum[Len(b)]

\* Broken variant: the index is taken for an offset
PointerUnscaled(b, index) ==
  LET Find[p \in (0 .. Len(b)) \X Nat] ==
        IF p[1] = Len(b) \/ p[2] < b[p[1] + 1] THEN p
        ELSE Find[<<p[1] + 1, p[2] - b[p[1] + 1]>>]
  IN  Find[<<0, index>>]

\* get_bytes_ptr: go through the blocks, and take the length of each off the
\* offset, until it is inside one; behind the last is unreachable_unchecked
Pointer(b, index) ==
  LET Find[p \in (0 .. Len(b)) \X Nat] ==
        IF p[1] = Len(b) \/ p[2] < b[p[1] + 1] THEN p
        ELSE Find[<<p[1] + 1, p[2] - b[p[1] + 1]>>]
  IN  Find[<<0, index * Size>>]

\* The index of the first element of the block at i, from its length alone:
\* len * (1 - 1 / 2^i), which a double holds exactly, over the size
StartIndex(len, i) ==
  ((len * (BLOCK_GROWTH_RATE ^ i - 1)) \div BLOCK_GROWTH_RATE ^ i) \div Size

\* par_chunks_exact: the positions of the elements that fit in the block at i
Chunks(i) == 0 .. blocks[i + 1] \div Size - 1

\* Every slot of every block, with the index both iterations give it
Numbered ==
  UNION {{[index |-> StartIndex(blocks[i + 1], i) + j, ptr |-> <<i, j * Size>>] :
            j \in Chunks(i)} : i \in Positions}

\* What par_iter visits
Visited == {s.ptr : s \in {t \in Numbered : t.index < initLen}}

\* Broken variant: an element with itself
PairsWithSelf ==
  UNION {{<<s.ptr, Pointer(blocks, j)>> : j \in s.index .. initLen - 1} : s \in Numbered}

\* The first element of each pair from the numbered slots, the second by its
\* index
Pairs ==
  UNION {{<<s.ptr, Pointer(blocks, j)>> : j \in s.index + 1 .. initLen - 1} :
           s \in Numbered}

\* par_iter_combinations for arrays of n: it panics when n is more than 2, and
\* when the array has no place for the second of a pair
Combinations(n) ==
  CASE n = 0 -> [panics |-> FALSE, calls |-> {}]
    [] n = 1 -> [panics |-> Pairs # {}, calls |-> {}]
    [] n = 2 -> [panics |-> FALSE, calls |-> Pairs]
    [] OTHER -> [panics |-> TRUE, calls |-> {}]

\* Broken variant: the count is not looked at inside a block
DroppedByBlock ==
  UNION {{<<i, j * Size>> : j \in Chunks(i)} :
           i \in {k \in Positions : Capacity(SubSeq(blocks, 1, k)) < initLen}}

\* What drop drops: it counts init_len down through the slots of each block
Dropped ==
  LET Before(i) == Capacity(SubSeq(blocks, 1, i)) IN
  UNION {{<<i, j * Size>> : j \in {k \in Chunks(i) : Before(i) + k < initLen}} :
           i \in Positions}

-----------------------------------------------------------------------------
(* push and swap_remove_by_ptr                                             *)

Init ==
  /\ blocks = <<FirstBlock * Size>>
  /\ initLen = 0
  /\ mem = << >>
  /\ pc = [t \in Removers |-> "idle"]
  /\ target = [t \in Removers |-> <<0, 0>>]
  /\ last = [t \in Removers |-> 0]
  /\ live = [v \in Values |-> 0]

\* Broken variant: every block is as long as the last
GrownEvenly(b, len) ==
  LET Extended(n) == [i \in 1 .. Len(b) + n |-> IF i <= Len(b) THEN b[i] ELSE b[Len(b)]]
      Enough == {n \in 0 .. MaxLen : len < Capacity(Extended(n))}
  IN  Extended(CHOOSE n \in Enough : \A m \in Enough : n <= m)

\* Append blocks, each twice as long as the last, until len is below the
\* capacity
Grown(b, len) ==
  LET Extended(n) ==
        [i \in 1 .. Len(b) + n |->
           IF i <= Len(b) THEN b[i] ELSE b[Len(b)] * BLOCK_GROWTH_RATE ^ (i - Len(b))]
      Enough == {n \in 0 .. MaxLen : len < Capacity(Extended(n))}
  IN  Extended(CHOOSE n \in Enough : \A m \in Enough : n <= m)

NoRemoval == \A t \in Removers : pc[t] = "idle"

Push(v) ==
  /\ NoRemoval
  /\ initLen < MaxLen
  /\ blocks' = Grown(blocks, initLen + 1)
  /\ initLen' = initLen + 1
  /\ LET p == Pointer(blocks', initLen) IN
     mem' = [q \in DOMAIN mem \cup {p} |-> IF q = p THEN v ELSE mem[q]]
  /\ live' = [live EXCEPT ![v] = @ + 1]
  /\ UNCHANGED removals

Goto(t, from, to) == pc[t] = from /\ pc' = [pc EXCEPT ![t] = to]

\* (self.dropper)(ptr): the destructor of a valid element runs in place
DropInPlace(t, p) ==
  /\ Goto(t, "idle", "len")
  /\ mem[p] # Dead
  /\ mem' = [mem EXCEPT ![p] = Dead]
  /\ live' = [live EXCEPT ![mem[p]] = @ - 1]
  /\ target' = [target EXCEPT ![t] = p]
  /\ UNCHANGED <<blocks, initLen, last>>

\* init_len.fetch_sub(1) - 1; maybe_init_len follows, which nobody reads before
\* the next push
Shrink(t) ==
  /\ Goto(t, "len", "fill")
  /\ initLen' = initLen - 1
  /\ last' = [last EXCEPT ![t] = initLen - 1]
  /\ UNCHANGED <<blocks, mem, target, live>>

\* Broken variant: the element after the hole is moved into it
FillWithNext(t) ==
  LET next == <<target[t][1], target[t][2] + Size>> IN
  /\ Goto(t, "fill", "idle")
  /\ mem' = IF next \in DOMAIN mem THEN [mem EXCEPT ![target[t]] = mem[next]] ELSE mem
  /\ UNCHANGED <<blocks, initLen, target, last, live>>

\* copy_nonoverlapping(last_ptr, ptr), unless the last element is the one that
\* is removed; what stays behind where it was is not an element any more
Fill(t) ==
  /\ Goto(t, "fill", "idle")
  /\ mem' = [mem EXCEPT ![target[t]] = mem[Pointer(blocks, last[t])]]
  /\ UNCHANGED <<blocks, initLen, target, last, live>>

Next ==
  \/ \E v \in Values : Push(v)
  \/ \E t \in Removers :
       \/ \E p \in Visited : DropInPlace(t, p)
       \/ Shrink(t) \/ Fill(t)

Spec == Init /\ [][Next]_vars

-----------------------------------------------------------------------------
(* Properties                                                              *)

\* The pointers of the elements, by index
At == [k \in 0 .. initLen - 1 |-> Pointer(blocks, k)]

\* The shape of the state: an element starts at a multiple of its size and
\* ends in the block where it starts; only a removal leaves dead bytes, in the
\* place it has not filled yet
TypeOK ==
  /\ initLen \in 0 .. MaxLen
  /\ mem \in [DOMAIN mem -> Values \cup {Dead}]
  /\ \A p \in DOMAIN mem :
       /\ p[1] \in Positions
       /\ p[2] % Size = 0 /\ p[2] + Size <= blocks[p[1] + 1]
  /\ \A k \in 0 .. initLen - 1 :
       /\ At[k] \in DOMAIN mem
       /\ mem[At[k]] = Dead => \E t \in Removers : pc[t] # "idle" /\ target[t] = At[k]
  /\ pc \in [Removers -> {"idle", "len", "fill"}]
  /\ target \in [Removers -> DOMAIN mem \cup {<<0, 0>>}]
  /\ last \in [Removers -> 0 .. MaxLen]
  /\ live \in [Values -> Nat]

\* par_iter numbers the slots from the lengths of their blocks alone, while
\* get_bytes_ptr goes through the blocks: they agree, so an iteration visits
\* the elements, all of them and nothing else
IterExact == Visited = {At[k] : k \in 0 .. initLen - 1}

\* "Combinations are like permutations, except that the order of the
\* components does not matter": each pair of two elements once
PairsExact ==
  Combinations(2) =
    [panics |-> FALSE,
     calls |-> UNION {{<<At[i], At[j]>> : j \in i + 1 .. initLen - 1} :
                        i \in 0 .. initLen - 1}]

\* Dropping the vector drops its elements, all of them and nothing else
DropExact == Dropped = {At[k] : k \in 0 .. initLen - 1}

\* The vector as its caller sees it: a removal that is under way has been made
Midway(step) == {t \in Removers : pc[t] \in step}

Contents ==
  LET n == initLen + Cardinality(Midway({"fill"}))
      Hole(p) == \E t \in Midway({"len", "fill"}) : target[t] = p
      Slot(k) == IF Hole(Pointer(blocks, k)) THEN Pointer(blocks, n - 1) ELSE Pointer(blocks, k)
  IN  [k \in 1 .. n - Cardinality(Midway({"len", "fill"})) |-> mem[Slot(k - 1)]]

\* Elements stay where they are when a block is added or another is removed,
\* and to its caller a removal by a single thread is one step: an operation
\* changes the contents as ConcurrentVec says, and its other steps do not
StepsExact ==
  [][ \/ \E v \in Values : NoRemoval /\ Contents' = Append(Contents, v)
      \/ \E i \in 1 .. initLen :
           /\ NoRemoval
           /\ Contents' = [k \in 1 .. initLen - 1 |->
                             IF k = i THEN Contents[initLen] ELSE Contents[k]]
      \/ ~NoRemoval /\ UNCHANGED Contents ]_vars

\* "removals can happen concurrently": when no removal is running the vector
\* holds what was pushed and not removed, each element as often as it should
SurvivorsExact ==
  NoRemoval =>
    \A v \in Values : Cardinality({k \in 0 .. initLen - 1 : mem[At[k]] = v}) = live[v]
=============================================================================
