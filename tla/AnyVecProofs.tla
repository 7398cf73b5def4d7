---------------------------- MODULE AnyVecProofs ----------------------------
(***************************************************************************)
(* Proofs about AnyVec, for any number of threads, any size of the first   *)
(* block and any bound.                                                    *)
(*                                                                         *)
(* The inductive invariant IInv says how the threads inside push and the   *)
(* iterations relate to the counters, the contents and the blocks; one     *)
(* lemma per action shows that the action keeps it.  The safety properties *)
(* follow from it, and so does the refinement: Reserve is the call,        *)
(* Publish the moment at which the element arrives, SwapRemove the         *)
(* removal, and every other step a stutter.                                *)
(* GrowthInv adds the lengths of the blocks, for the formula of par_iter;  *)
(* the provers know nothing of powers, but a power of 2 is the cardinality *)
(* of a set of subsets, and of finite sets they know enough.               *)
(***************************************************************************)
EXTENDS AnyVec, FiniteSetTheorems, FunctionTheorems, SequenceTheorems, TLAPS

-----------------------------------------------------------------------------
(* The inductive invariant                                                 *)

\* The indices from init_len up to maybe_init_len belong to the threads inside
\* push, one each.  Publish raises init_len, which is right only because the
\* index that leaves the range is that of the thread that publishes
TicketInv ==
  /\ initLen <= maybeInitLen
  /\ \A t \in Pushers : InPush(t) => ticket[t] \in initLen .. maybeInitLen - 1
  /\ \A s, t \in Pushers :
       InPush(s) /\ InPush(t) /\ ticket[s] = ticket[t] => s = t
  /\ \A k \in initLen .. maybeInitLen - 1 :
       \E t \in Pushers : InPush(t) /\ ticket[t] = k

\* Published indices hold values, as do those of the threads that have copied
\* theirs; a thread that is about to publish has the lowest index
ContentInv ==
  /\ \A i \in 0 .. initLen - 1 : slots[i] \in Values
  /\ \A t \in Pushers : value[t] \in Values <=> InPush(t)
  /\ \A t \in Pushers : pc[t] \in {"await", "publish"} => slots[ticket[t]] = value[t]
  /\ \A t \in Pushers : pc[t] = "publish" => ticket[t] = initLen

\* The thread has won resizing.swap and has not cleared the flag
Holds(t) == pc[t] \in {"grow", "unlock"}

\* The flag is a lock: one thread at a time appends a block
LockInv ==
  /\ \A t \in Pushers : Holds(t) => resizing
  /\ \A s, t \in Pushers : Holds(s) /\ Holds(t) => s = t

\* The blocks reach every published index and every index that a thread has
\* found to be within the capacity: capacity never shrinks, so what a thread
\* has found stays true while it goes on
BlockInv ==
  /\ Len(bytes) > 0
  /\ \A n \in 1 .. Len(bytes) : Capacity(n) <= Capacity(Len(bytes))
  /\ initLen <= Capacity(Len(bytes))
  /\ \A t \in Pushers : PusherWalks(t) => view[t].n \in 1 .. Len(bytes)
  /\ \A t \in Pushers : pc[t] \in {"slot", "copy", "await", "publish"}
                          => ticket[t] < Capacity(Len(bytes))
  /\ \A t \in Pushers : pc[t] = "copy" => ticket[t] < Capacity(view[t].n)

\* An iteration has loaded a length that is still published, and its slice,
\* taken later, reaches that far
IterInv ==
  \A r \in Readers :
    /\ iter[r].at # "idle" => iter[r].len <= initLen
    /\ iter[r].at = "walk" => /\ iter[r].view.n \in 1 .. Len(bytes)
                              /\ iter[r].len <= Capacity(iter[r].view.n)

\* The inductive invariant
IInv == TypeOK /\ TicketInv /\ ContentInv /\ LockInv /\ BlockInv /\ IterInv

-----------------------------------------------------------------------------
(* Lemmas about the blocks                                                 *)

\* The fields of a block in a list of blocks are numbers
LEMMA BlockAt ==
  ASSUME NEW b \in Seq(Block), NEW n \in 1 .. Len(b)
  PROVE  b[n].first \in Nat /\ b[n].len \in Nat
<1>1. b[n] \in Block
  OBVIOUS
<1>2. QED  BY <1>1 DEF Block

\* The capacity of the first n blocks is a number
LEMMA CapacityNat ==
  ASSUME TypeOK, NEW n \in 1 .. Len(bytes)
  PROVE  Capacity(n) \in Nat
<1>1. bytes[n].first \in Nat /\ bytes[n].len \in Nat
  BY BlockAt DEF TypeOK
<1>2. QED  BY <1>1 DEF Capacity

\* There is a last block, with a length, and so a capacity
LEMMA LastBlock ==
  ASSUME TypeOK, Len(bytes) > 0
  PROVE  /\ Len(bytes) \in 1 .. Len(bytes)
         /\ Capacity(Len(bytes)) \in Nat /\ bytes[Len(bytes)].len \in Nat
<1>1. Len(bytes) \in 1 .. Len(bytes)
  BY DEF TypeOK
<1>2. QED  BY <1>1, BlockAt, CapacityNat DEF TypeOK

-----------------------------------------------------------------------------
(* Every action keeps the invariant                                        *)

\* maybe_init_len.fetch_add: the new index is one nobody else has
LEMMA ReserveKeeps ==
  ASSUME IInv, NEW t \in Pushers, NEW v \in Values, Reserve(t, v)
  PROVE  IInv'
<1> USE EmptyAssumption, FirstBlockAssumption, MaxLenAssumption
    DEF IInv, counters, list, locals
<1>1. TypeOK'
  BY DEF TypeOK, Slots, Block, View, Reserve, Goto
<1>2. TicketInv'
  <2>1. ASSUME NEW k \in initLen .. maybeInitLen
        PROVE  \E s \in Pushers : pc'[s] # "idle" /\ ticket'[s] = k
    <3>1. CASE k = maybeInitLen
      BY <3>1 DEF TypeOK, Reserve, Goto
    <3>2. CASE k < maybeInitLen
      <4>1. PICK s \in Pushers : InPush(s) /\ ticket[s] = k
        <5>1. k \in initLen .. maybeInitLen - 1
          BY <3>2 DEF TypeOK
        <5>2. QED  BY <5>1 DEF TicketInv
      <4>2. s # t
        BY <4>1 DEF InPush, Reserve, Goto
      <4>3. QED  BY <4>1, <4>2 DEF InPush, TypeOK, Reserve, Goto
    <3>3. QED  BY <3>1, <3>2 DEF TypeOK
  <2>2. QED
    BY <2>1 DEF TicketInv, TypeOK, Slots, InPush, Reserve, Goto
<1>3. ContentInv'
  BY DEF ContentInv, TicketInv, TypeOK, Slots, InPush, Reserve, Goto
<1>4. LockInv'
  BY DEF LockInv, Holds, TypeOK, Reserve, Goto
<1>5. BlockInv'
  BY DEF BlockInv, TypeOK, PusherWalks, Capacity, Block, View, Reserve, Goto
<1>6. IterInv'
  BY DEF IterInv, TypeOK, Capacity, View, Block, Reserve, Goto
<1>7. QED  BY <1>1, <1>2, <1>3, <1>4, <1>5, <1>6

\* get_capacity's slice is no longer than the list
LEMMA TakeSliceKeeps ==
  ASSUME IInv, NEW t \in Pushers, TakeSlice(t)
  PROVE  IInv'
<1> USE EmptyAssumption, FirstBlockAssumption, MaxLenAssumption
    DEF IInv, counters, list, locals
<1>1. TypeOK'
  BY DEF TypeOK, Slots, Block, View, TakeSlice, Goto, Snapshot
<1>2. TicketInv'
  BY DEF TicketInv, TypeOK, Slots, InPush, TakeSlice, Goto, Snapshot
<1>3. ContentInv'
  BY DEF ContentInv, TicketInv, TypeOK, Slots, InPush, TakeSlice, Goto, Snapshot
<1>4. LockInv'
  BY DEF LockInv, Holds, TypeOK, TakeSlice, Goto, Snapshot
<1>5. BlockInv'
  BY DEF BlockInv, TypeOK, PusherWalks, Capacity, Block, View, TakeSlice, Goto, Snapshot
<1>6. IterInv'
  BY DEF IterInv, TypeOK, Capacity, View, Block, TakeSlice, Goto, Snapshot
<1>7. QED  BY <1>1, <1>2, <1>3, <1>4, <1>5, <1>6

\* An index found to be within the capacity of a slice is within that of the
\* list, which is at least as long
LEMMA SumCapacityKeeps ==
  ASSUME IInv, NEW t \in Pushers, SumCapacity(t)
  PROVE  IInv'
<1> USE EmptyAssumption, FirstBlockAssumption, MaxLenAssumption
    DEF IInv, counters, list, locals
<1>1. TypeOK'
  BY DEF TypeOK, Slots, Block, View, SumCapacity, Goto, IsFull
<1>2. TicketInv'
  BY DEF TicketInv, TypeOK, Slots, InPush, SumCapacity, Goto, IsFull
<1>3. ContentInv'
  BY DEF ContentInv, TicketInv, TypeOK, Slots, InPush, SumCapacity, Goto, IsFull
<1>4. LockInv'
  BY DEF LockInv, Holds, TypeOK, SumCapacity, Goto, IsFull
<1>5. BlockInv'
  <2>1. ~IsFull(t) => ticket[t] < Capacity(Len(bytes))
    <3>1. view[t].n \in 1 .. Len(bytes)
      BY DEF BlockInv, PusherWalks, SumCapacity, Goto
    <3>2. Capacity(view[t].n) \in Nat /\ Capacity(Len(bytes)) \in Nat
      BY <3>1, CapacityNat, LastBlock DEF BlockInv
    <3>3. Capacity(view[t].n) <= Capacity(Len(bytes))
      BY <3>1 DEF BlockInv
    <3>4. QED  BY <3>2, <3>3 DEF IsFull, TypeOK, Slots
  <2>2. QED
    BY <2>1 DEF BlockInv, TypeOK, PusherWalks, Capacity, SumCapacity, Goto
<1>6. IterInv'
  BY DEF IterInv, TypeOK, Capacity, View, Block, SumCapacity, Goto, IsFull
<1>7. QED  BY <1>1, <1>2, <1>3, <1>4, <1>5, <1>6

\* Only the thread that finds the flag clear goes on to append a block
LEMMA TryResizeKeeps ==
  ASSUME IInv, NEW t \in Pushers, TryResize(t)
  PROVE  IInv'
<1> USE EmptyAssumption, FirstBlockAssumption, MaxLenAssumption
    DEF IInv, counters, list, locals
<1>1. TypeOK'
  <2>1. bytes[Len(bytes)].len \in Nat
    BY LastBlock DEF BlockInv
  <2>2. newLen' \in [Pushers -> Nat]
    BY <2>1 DEF TypeOK, TryResize, BLOCK_GROWTH_RATE
  <2>3. QED  BY <2>2 DEF TypeOK, TryResize, Goto
<1>2. TicketInv'
  BY DEF TicketInv, TypeOK, Slots, InPush, TryResize, Goto, BLOCK_GROWTH_RATE
<1>3. ContentInv'
  BY DEF ContentInv, TicketInv, TypeOK, Slots, InPush, TryResize, Goto, BLOCK_GROWTH_RATE
<1>4. LockInv'
  BY DEF LockInv, Holds, TypeOK, TryResize, Goto, BLOCK_GROWTH_RATE
<1>5. BlockInv'
  BY DEF BlockInv, TypeOK, PusherWalks, Capacity, Block, View, TryResize, Goto, BLOCK_GROWTH_RATE
<1>6. IterInv'
  BY DEF IterInv, TypeOK, Capacity, View, Block, TryResize, Goto, BLOCK_GROWTH_RATE
<1>7. QED  BY <1>1, <1>2, <1>3, <1>4, <1>5, <1>6

\* A longer list leaves the capacity of every shorter slice as it was
LEMMA AppendBlockKeeps ==
  ASSUME IInv, NEW t \in Pushers, AppendBlock(t)
  PROVE  IInv'
<1> USE EmptyAssumption, FirstBlockAssumption, MaxLenAssumption
    DEF IInv, counters, list, locals
<1>a. /\ Len(bytes') = Len(bytes) + 1
      /\ \A n \in 1 .. Len(bytes) : bytes'[n] = bytes[n]
      /\ bytes'[Len(bytes) + 1] = [first |-> Capacity(Len(bytes)), len |-> newLen[t]]
  BY DEF TypeOK, AppendBlock, PushBlock
<1>1. TypeOK'
  <2>1. Capacity(Len(bytes)) \in Nat
    BY LastBlock DEF BlockInv
  <2>2. bytes' \in Seq(Block) /\ alloc' \in [gen : Nat, cap : Nat]
    BY <2>1 DEF TypeOK, Block, AppendBlock, PushBlock, GrownCap
  <2>3. QED  BY <2>2 DEF TypeOK, AppendBlock, Goto
<1>2. TicketInv'
  BY DEF TicketInv, TypeOK, Slots, InPush, AppendBlock, Goto, PushBlock, GrownCap
<1>3. ContentInv'
  BY DEF ContentInv, TicketInv, TypeOK, Slots, InPush, AppendBlock, Goto, PushBlock, GrownCap
<1>4. LockInv'
  BY DEF LockInv, Holds, TypeOK, AppendBlock, Goto, PushBlock, GrownCap
<1>5. BlockInv'
  <2>1. \A n \in 1 .. Len(bytes) : Capacity(n)' = Capacity(n)
    BY <1>a DEF Capacity
  <2>2. /\ Len(bytes) \in Nat
        /\ \A n \in 1 .. Len(bytes) : Capacity(n) \in Nat
        /\ \A n \in 1 .. Len(bytes) : Capacity(n) <= Capacity(Len(bytes))
        /\ Capacity(Len(bytes)) \in Nat /\ newLen[t] \in Nat
    BY CapacityNat, LastBlock DEF BlockInv, TypeOK
  <2>3. Capacity(Len(bytes))' = Capacity(Len(bytes)) + newLen[t]
    BY <1>a DEF Capacity
  <2>4. Capacity(Len(bytes)) <= Capacity(Len(bytes))' /\ Capacity(Len(bytes))' \in Nat
    BY <2>2, <2>3
  <2>5. ASSUME NEW n \in 1 .. Len(bytes')
        PROVE  Capacity(n)' <= Capacity(Len(bytes))'
    <3>1. CASE n \in 1 .. Len(bytes)
      BY <3>1, <2>1, <2>2, <2>4
    <3>2. CASE n = Len(bytes')
      BY <3>2, <2>4
    <3>3. QED  BY <1>a, <2>2, <3>1, <3>2
  <2>6. ASSUME NEW s \in Pushers
        PROVE  /\ PusherWalks(s)' => view'[s].n \in 1 .. Len(bytes')
               /\ pc'[s] \in {"slot", "copy", "await", "publish"}
                    => ticket'[s] < Capacity(Len(bytes))'
               /\ pc'[s] = "copy" => ticket'[s] < Capacity(view[s].n)'
    <3>1. /\ view' = view /\ ticket' = ticket
          /\ pc'[s] \in {"sum", "slot", "copy", "await", "publish"} => pc'[s] = pc[s]
          /\ ticket[s] \in Int
      BY DEF AppendBlock, Goto, TypeOK, Slots
    <3>2. PusherWalks(s)' => view'[s].n \in 1 .. Len(bytes) /\ view'[s].n \in 1 .. Len(bytes')
      BY <1>a, <2>2, <3>1 DEF BlockInv, PusherWalks
    <3>3. pc'[s] \in {"slot", "copy", "await", "publish"} => ticket[s] < Capacity(Len(bytes))
      BY <3>1 DEF BlockInv
    <3>4. pc'[s] = "copy" => ticket[s] < Capacity(view[s].n)
      BY <3>1 DEF BlockInv
    <3>5. pc'[s] = "copy" => Capacity(view[s].n)' = Capacity(view[s].n)
      BY <2>1, <3>1, <3>2 DEF PusherWalks, Capacity
    <3>6. QED  BY <2>2, <2>4, <3>1, <3>2, <3>3, <3>4, <3>5
  <2>7. initLen' <= Capacity(Len(bytes))'
    BY <2>2, <2>4 DEF BlockInv, TypeOK, AppendBlock
  <2>8. QED
    BY <1>a, <2>2, <2>5, <2>6, <2>7 DEF BlockInv
<1>6. IterInv'
  BY <1>a DEF IterInv, TypeOK, Capacity, View, AppendBlock, locals
<1>7. QED  BY <1>1, <1>2, <1>3, <1>4, <1>5, <1>6

\* The thread that clears the flag holds it no longer
LEMMA UnlockKeeps ==
  ASSUME IInv, NEW t \in Pushers, Unlock(t)
  PROVE  IInv'
<1> USE EmptyAssumption, FirstBlockAssumption, MaxLenAssumption
    DEF IInv, counters, list, locals
<1>1. TypeOK'
  BY DEF TypeOK, Slots, Block, View, Unlock, Goto
<1>2. TicketInv'
  BY DEF TicketInv, TypeOK, Slots, InPush, Unlock, Goto
<1>3. ContentInv'
  BY DEF ContentInv, TicketInv, TypeOK, Slots, InPush, Unlock, Goto
<1>4. LockInv'
  BY DEF LockInv, Holds, TypeOK, Unlock, Goto
<1>5. BlockInv'
  BY DEF BlockInv, TypeOK, PusherWalks, Capacity, Block, View, Unlock, Goto
<1>6. IterInv'
  BY DEF IterInv, TypeOK, Capacity, View, Block, Unlock, Goto
<1>7. QED  BY <1>1, <1>2, <1>3, <1>4, <1>5, <1>6

\* get_bytes_ptr's slice is as long as the list, so it reaches the index
LEMMA TakeSliceForSlotKeeps ==
  ASSUME IInv, NEW t \in Pushers, TakeSliceForSlot(t)
  PROVE  IInv'
<1> USE EmptyAssumption, FirstBlockAssumption, MaxLenAssumption
    DEF IInv, counters, list, locals
<1>1. TypeOK'
  BY DEF TypeOK, Slots, Block, View, TakeSliceForSlot, Goto, Snapshot
<1>2. TicketInv'
  BY DEF TicketInv, TypeOK, Slots, InPush, TakeSliceForSlot, Goto, Snapshot
<1>3. ContentInv'
  BY DEF ContentInv, TicketInv, TypeOK, Slots, InPush, TakeSliceForSlot, Goto, Snapshot
<1>4. LockInv'
  BY DEF LockInv, Holds, TypeOK, TakeSliceForSlot, Goto, Snapshot
<1>5. BlockInv'
  BY DEF BlockInv, TypeOK, PusherWalks, Capacity, Block, View, TakeSliceForSlot, Goto, Snapshot
<1>6. IterInv'
  BY DEF IterInv, TypeOK, Capacity, View, Block, TakeSliceForSlot, Goto, Snapshot
<1>7. QED  BY <1>1, <1>2, <1>3, <1>4, <1>5, <1>6

\* The copy disturbs no published index and no index of another thread
LEMMA CopyValueKeeps ==
  ASSUME IInv, NEW t \in Pushers, CopyValue(t)
  PROVE  IInv'
<1> USE EmptyAssumption, FirstBlockAssumption, MaxLenAssumption
    DEF IInv, counters, list, locals
<1>1. TypeOK'
  BY DEF TypeOK, Slots, Block, View, CopyValue, Goto
<1>2. TicketInv'
  BY DEF TicketInv, TypeOK, Slots, InPush, CopyValue, Goto
<1>3. ContentInv'
  BY DEF ContentInv, TicketInv, TypeOK, Slots, InPush, CopyValue, Goto
<1>4. LockInv'
  BY DEF LockInv, Holds, TypeOK, CopyValue, Goto
<1>5. BlockInv'
  BY DEF BlockInv, TypeOK, PusherWalks, Capacity, Block, View, CopyValue, Goto
<1>6. IterInv'
  BY DEF IterInv, TypeOK, Capacity, View, Block, CopyValue, Goto
<1>7. QED  BY <1>1, <1>2, <1>3, <1>4, <1>5, <1>6

\* The thread that goes on has the index init_len
LEMMA AwaitTurnKeeps ==
  ASSUME IInv, NEW t \in Pushers, AwaitTurn(t)
  PROVE  IInv'
<1> USE EmptyAssumption, FirstBlockAssumption, MaxLenAssumption
    DEF IInv, counters, list, locals
<1>1. TypeOK'
  BY DEF TypeOK, Slots, Block, View, AwaitTurn, Goto, IsMyTurn
<1>2. TicketInv'
  BY DEF TicketInv, TypeOK, Slots, InPush, AwaitTurn, Goto, IsMyTurn
<1>3. ContentInv'
  BY DEF ContentInv, TicketInv, TypeOK, Slots, InPush, AwaitTurn, Goto, IsMyTurn
<1>4. LockInv'
  BY DEF LockInv, Holds, TypeOK, AwaitTurn, Goto, IsMyTurn
<1>5. BlockInv'
  BY DEF BlockInv, TypeOK, PusherWalks, Capacity, Block, View, AwaitTurn, Goto, IsMyTurn
<1>6. IterInv'
  BY DEF IterInv, TypeOK, Capacity, View, Block, AwaitTurn, Goto, IsMyTurn
<1>7. QED  BY <1>1, <1>2, <1>3, <1>4, <1>5, <1>6

\* The index that leaves the range of reserved ones is the thread's own, and
\* what becomes readable has been copied
LEMMA PublishKeeps ==
  ASSUME IInv, NEW t \in Pushers, Publish(t)
  PROVE  IInv'
<1> USE EmptyAssumption, FirstBlockAssumption, MaxLenAssumption
    DEF IInv, counters, list, locals
<1>a. InPush(t) /\ ticket[t] = initLen
  BY DEF ContentInv, InPush, Publish, Goto
<1>b. initLen < maybeInitLen /\ initLen \in Nat /\ maybeInitLen \in 0 .. MaxLen
  BY <1>a DEF TicketInv, TypeOK
<1>1. TypeOK'
  <2>1. initLen' \in 0 .. MaxLen
    BY <1>b DEF Publish
  <2>2. QED  BY <2>1 DEF TypeOK, Publish, Goto, NoView, View
<1>2. TicketInv'
  <2>1. ASSUME NEW s \in Pushers, InPush(s)'
        PROVE  s # t /\ InPush(s) /\ ticket[s] \in initLen + 1 .. maybeInitLen - 1
    <3>1. s # t /\ InPush(s)
      BY <2>1 DEF InPush, Publish, Goto, TypeOK
    <3>2. ticket[s] # initLen
      BY <1>a, <3>1 DEF TicketInv
    <3>3. ticket[s] \in initLen .. maybeInitLen - 1
      BY <3>1 DEF TicketInv
    <3>4. QED  BY <1>b, <3>1, <3>2, <3>3
  <2>2. ASSUME NEW k \in initLen + 1 .. maybeInitLen - 1
        PROVE  \E s \in Pushers : InPush(s)' /\ ticket[s] = k
    <3>1. k \in initLen .. maybeInitLen - 1 /\ k # initLen
      BY <1>b
    <3>2. PICK s \in Pushers : InPush(s) /\ ticket[s] = k
      BY <3>1 DEF TicketInv
    <3>3. s # t
      BY <1>a, <3>1, <3>2
    <3>4. InPush(s)'
      BY <3>2, <3>3 DEF InPush, Publish, Goto, TypeOK
    <3>5. QED  BY <3>2, <3>4
  <2>3. initLen' = initLen + 1 /\ maybeInitLen' = maybeInitLen /\ ticket' = ticket
    BY DEF Publish
  <2>4. \A s, u \in Pushers :
          InPush(s)' /\ InPush(u)' /\ ticket[s] = ticket[u] => s = u
    BY <2>1 DEF TicketInv
  <2>5. QED
    BY <1>b, <2>1, <2>2, <2>3, <2>4 DEF TicketInv
<1>3. ContentInv'
  BY DEF ContentInv, TicketInv, TypeOK, Slots, InPush, Publish, Goto, NoView
<1>4. LockInv'
  BY DEF LockInv, Holds, TypeOK, Publish, Goto, NoView
<1>5. BlockInv'
  <2>1. initLen + 1 <= Capacity(Len(bytes))
    <3>1. Capacity(Len(bytes)) \in Nat
      BY LastBlock DEF BlockInv
    <3>2. initLen < Capacity(Len(bytes))
      BY <1>a DEF BlockInv, Publish, Goto
    <3>3. QED  BY <1>b, <3>1, <3>2
  <2>2. QED
    BY <2>1 DEF BlockInv, TypeOK, PusherWalks, Capacity, Publish, Goto
<1>6. IterInv'
  BY DEF IterInv, TypeOK, Capacity, View, Block, Publish, Goto, NoView
<1>7. QED  BY <1>1, <1>2, <1>3, <1>4, <1>5, <1>6

\* The length is loaded first, and the slice taken after it reaches that far
LEMMA StartIterKeeps ==
  ASSUME IInv, NEW r \in Readers, StartIter(r)
  PROVE  IInv'
<1> USE EmptyAssumption, FirstBlockAssumption, MaxLenAssumption
    DEF IInv, counters, list, locals
<1>a. PICK q \in [at : {"loaded", "walk"}, len : 0 .. MaxLen, view : View] :
        /\ iter' = [iter EXCEPT ![r] = q]
        /\ \/ q.at = "loaded" /\ q.len = initLen
           \/ /\ iter[r].at = "loaded" /\ q.at = "walk"
              /\ q.len = iter[r].len /\ q.view.n = Len(bytes)
  <2>1. CASE iter[r].at = "idle"
    <3> DEFINE q == [at |-> "loaded", len |-> initLen, view |-> iter[r].view]
    <3>1. iter' = [iter EXCEPT ![r] = q]
      BY <2>1 DEF TypeOK, StartIter
    <3>2. q \in [at : {"loaded", "walk"}, len : 0 .. MaxLen, view : View]
      BY DEF TypeOK
    <3>3. QED  BY <3>1, <3>2
  <2>2. CASE iter[r].at = "loaded"
    <3> DEFINE q == [at |-> "walk", len |-> iter[r].len, view |-> Snapshot]
    <3>1. iter' = [iter EXCEPT ![r] = q]
      BY <2>2 DEF TypeOK, StartIter
    <3>2. q \in [at : {"loaded", "walk"}, len : 0 .. MaxLen, view : View]
      BY DEF TypeOK, Snapshot, View
    <3>3. QED  BY <2>2, <3>1, <3>2 DEF Snapshot
  <2>3. QED  BY <2>1, <2>2 DEF StartIter
<1>1. TypeOK'
  BY <1>a DEF TypeOK, StartIter
<1>2. TicketInv'
  BY DEF TicketInv, TypeOK, Slots, InPush, StartIter, Snapshot
<1>3. ContentInv'
  BY DEF ContentInv, TicketInv, TypeOK, Slots, InPush, StartIter, Snapshot
<1>4. LockInv'
  BY DEF LockInv, Holds, TypeOK, StartIter, Snapshot
<1>5. BlockInv'
  BY DEF BlockInv, TypeOK, PusherWalks, Capacity, Block, View, StartIter, Snapshot
<1>6. IterInv'
  <2>1. iter'[r] = q /\ \A s \in Readers : s # r => iter'[s] = iter[s]
    BY <1>a DEF TypeOK
  <2>2. initLen' = initLen /\ bytes' = bytes
    BY DEF StartIter
  <2>3. q.at = "walk" => q.len <= initLen /\ q.view.n \in 1 .. Len(bytes)
                         /\ q.len <= Capacity(q.view.n)
    <3>1. /\ Len(bytes) \in 1 .. Len(bytes) /\ Capacity(Len(bytes)) \in Nat
          /\ initLen <= Capacity(Len(bytes))
      BY LastBlock DEF BlockInv
    <3>2. q.at = "walk" => q.len <= initLen
      BY <1>a DEF IterInv
    <3>3. QED  BY <1>a, <3>1, <3>2 DEF TypeOK
  <2>4. q.len <= initLen
    BY <1>a, <2>3 DEF TypeOK
  <2>5. QED  BY <2>1, <2>2, <2>3, <2>4 DEF IterInv, Capacity
<1>7. QED  BY <1>1, <1>2, <1>3, <1>4, <1>5, <1>6

\* The end of an iteration changes nothing the invariant depends on
LEMMA EndIterKeeps ==
  ASSUME IInv, NEW r \in Readers, EndIter(r)
  PROVE  IInv'
<1> USE EmptyAssumption, FirstBlockAssumption, MaxLenAssumption
    DEF IInv, counters, list, locals
<1>1. TypeOK'
  BY DEF TypeOK, Slots, Block, View, EndIter, Idle, NoView
<1>2. TicketInv'
  BY DEF TicketInv, TypeOK, Slots, InPush, EndIter, Idle, NoView
<1>3. ContentInv'
  BY DEF ContentInv, TicketInv, TypeOK, Slots, InPush, EndIter, Idle, NoView
<1>4. LockInv'
  BY DEF LockInv, Holds, TypeOK, EndIter, Idle, NoView
<1>5. BlockInv'
  BY DEF BlockInv, TypeOK, PusherWalks, Capacity, Block, View, EndIter, Idle, NoView
<1>6. IterInv'
  BY DEF IterInv, TypeOK, Capacity, View, Block, EndIter, Idle, NoView
<1>7. QED  BY <1>1, <1>2, <1>3, <1>4, <1>5, <1>6

\* With no push in progress the two counters are equal, and stay so
LEMMA SwapRemoveKeeps ==
  ASSUME IInv, NEW i \in 0 .. initLen - 1, SwapRemove(i)
  PROVE  IInv'
<1> USE EmptyAssumption, FirstBlockAssumption, MaxLenAssumption
    DEF IInv, counters, list, locals
<1>a. initLen = maybeInitLen /\ \A t \in Pushers : ~InPush(t)
  <2>1. \A t \in Pushers : ~InPush(t)
    BY DEF InPush, SwapRemove, Exclusive
  <2>2. ~(initLen \in initLen .. maybeInitLen - 1)
    BY <2>1 DEF TicketInv
  <2>3. QED  BY <2>1, <2>2 DEF TicketInv, TypeOK
<1>b. initLen - 1 \in 0 .. MaxLen /\ maybeInitLen - 1 \in 0 .. MaxLen
  BY <1>a DEF TypeOK
<1>1. TypeOK'
  BY <1>b DEF TypeOK, TicketInv, Slots, SwapRemove
<1>2. TicketInv'
  <2>1. \A t \in Pushers : ~InPush(t)'
    BY <1>a DEF InPush, SwapRemove
  <2>2. initLen' = maybeInitLen' /\ initLen' \in Int
    BY <1>a, <1>b DEF SwapRemove
  <2>3. QED  BY <2>1, <2>2 DEF TicketInv
<1>3. ContentInv'
  BY DEF ContentInv, TicketInv, TypeOK, Slots, InPush, SwapRemove, Exclusive
<1>4. LockInv'
  BY DEF LockInv, Holds, TypeOK, SwapRemove, Exclusive
<1>5. BlockInv'
  <2>1. \A t \in Pushers : pc'[t] = "idle"
    BY DEF SwapRemove, Exclusive
  <2>2. initLen' <= Capacity(Len(bytes))
    BY <1>b, LastBlock DEF SwapRemove, BlockInv, TypeOK
  <2>3. QED  BY <2>1, <2>2 DEF BlockInv, PusherWalks, Capacity, SwapRemove
<1>6. IterInv'
  BY DEF IterInv, TypeOK, Capacity, View, Block, SwapRemove, Exclusive
<1>7. QED  BY <1>1, <1>2, <1>3, <1>4, <1>5, <1>6

\* The death of the process changes nothing the invariant depends on
LEMMA FaultKeeps ==
  ASSUME IInv, Fault
  PROVE  IInv'
<1> USE EmptyAssumption, FirstBlockAssumption, MaxLenAssumption
    DEF IInv, counters, list, locals
<1>1. TypeOK'
  BY DEF TypeOK, Slots, Block, View, Fault
<1>2. TicketInv'
  BY DEF TicketInv, TypeOK, Slots, InPush, Fault
<1>3. ContentInv'
  BY DEF ContentInv, TicketInv, TypeOK, Slots, InPush, Fault
<1>4. LockInv'
  BY DEF LockInv, Holds, TypeOK, Fault
<1>5. BlockInv'
  BY DEF BlockInv, TypeOK, PusherWalks, Capacity, Block, View, Fault
<1>6. IterInv'
  BY DEF IterInv, TypeOK, Capacity, View, Block, Fault
<1>7. QED  BY <1>1, <1>2, <1>3, <1>4, <1>5, <1>6

\* An empty AnyVec has the invariant
LEMMA InitIInv ==
  ASSUME Init
  PROVE  IInv
<1> USE EmptyAssumption, FirstBlockAssumption, MaxLenAssumption
<1>1. TypeOK
  <2>1. bytes \in Seq(Block)
    <3>1. [first |-> 0, len |-> FirstBlock] \in Block
      BY DEF Block
    <3>2. QED  BY <3>1 DEF Init
  <2>2. Idle \in [at : {"idle", "loaded", "walk"}, len : 0 .. MaxLen, view : View]
    BY DEF Idle, View, NoView
  <2>3. iter \in [Readers -> [at : {"idle", "loaded", "walk"}, len : 0 .. MaxLen,
                             view : View]]
    BY <2>2 DEF Init
  <2>4. view \in [Pushers -> View]
    BY DEF Init, View, NoView
  <2>5. /\ slots \in [Slots -> Values \cup {Empty}]
        /\ ticket \in [Pushers -> Slots \cup {-1}]
        /\ value \in [Pushers -> Values \cup {Empty}]
        /\ newLen \in [Pushers -> Nat]
    BY DEF Init
  <2>6. maybeInitLen \in 0 .. MaxLen /\ initLen \in 0 .. MaxLen
    BY DEF Init
  <2>7. alloc \in [gen : Nat, cap : Nat]
    BY DEF Init
  <2>8. resizing \in BOOLEAN /\ faulted \in BOOLEAN
    BY DEF Init
  <2>9. QED  BY <2>1, <2>3, <2>4, <2>5, <2>6, <2>7, <2>8 DEF Init, TypeOK
<1>2. TicketInv
  BY DEF Init, TicketInv, InPush
<1>3. ContentInv
  BY DEF Init, ContentInv, InPush
<1>4. LockInv
  BY DEF Init, LockInv, Holds
<1>5. BlockInv
  BY DEF Init, BlockInv, PusherWalks, Capacity
<1>6. IterInv
  BY DEF Init, IterInv, Idle
<1>7. QED  BY <1>1, <1>2, <1>3, <1>4, <1>5, <1>6 DEF IInv

\* A step that changes nothing keeps the invariant
LEMMA UnchangedKeeps ==
  ASSUME IInv, UNCHANGED vars
  PROVE  IInv'
BY DEF IInv, vars, counters, list, locals, TypeOK, TicketInv, ContentInv,
       LockInv, BlockInv, IterInv, InPush, Holds, PusherWalks, Capacity

\* The invariant is inductive
LEMMA NextKeeps ==
  ASSUME IInv, [Next]_vars
  PROVE  IInv'
<1>1. ASSUME NEW t \in Pushers, PushStep(t)
      PROVE  IInv'
  BY <1>1, TakeSliceKeeps, SumCapacityKeeps, TryResizeKeeps, AppendBlockKeeps,
     UnlockKeeps, TakeSliceForSlotKeeps, CopyValueKeeps, AwaitTurnKeeps,
     PublishKeeps
  DEF PushStep
<1>2. ASSUME Step
      PROVE  IInv'
  BY <1>1, <1>2, ReserveKeeps, StartIterKeeps, EndIterKeeps, SwapRemoveKeeps,
     FaultKeeps
  DEF Step
<1>3. QED  BY <1>2, UnchangedKeeps DEF Next

-----------------------------------------------------------------------------
(* The safety properties                                                   *)

\* In every reachable state of an AnyVec, the inductive invariant holds
THEOREM Invariance == Spec => []IInv
BY InitIInv, NextKeeps, PTL DEF Spec

\* The state always has its shape; in particular no counter wraps below zero
\* when elements are removed
THEOREM TypeCorrect == Spec => []TypeOK
BY Invariance, PTL DEF IInv

\* However pushes interleave, every index below init_len holds a pushed value,
\* so no reader meets an uninitialised element
THEOREM ReadersSeeInitialised == Spec => []PublishedInitialised
<1>1. IInv => PublishedInitialised
  BY DEF IInv, ContentInv, PublishedInitialised
<1>2. QED  BY <1>1, Invariance, PTL

\* The indices that are reserved and not published are those of the threads
\* inside push, one each: none is shared, and none is orphaned
THEOREM TicketsAreExact == Spec => []TicketsExact
<1>1. ASSUME IInv, NEW k \in initLen .. maybeInitLen - 1
      PROVE  Cardinality({t \in Pushers : InPush(t) /\ ticket[t] = k}) = 1
  <2>1. PICK s \in Pushers : InPush(s) /\ ticket[s] = k
    BY <1>1 DEF IInv, TicketInv
  <2>2. {t \in Pushers : InPush(t) /\ ticket[t] = k} = {s}
    BY <1>1, <2>1 DEF IInv, TicketInv
  <2>3. QED  BY <2>2, FS_Singleton
<1>2. IInv => TicketsExact
  BY <1>1 DEF IInv, TicketInv, TicketsExact
<1>3. QED  BY <1>2, Invariance, PTL

\* push never copies a value past the end of the blocks, although the capacity
\* was computed before, and from another slice of the list
THEOREM WritesInBounds == Spec => []WriteInBounds
<1>1. IInv => WriteInBounds
  BY DEF IInv, BlockInv, WriteInBounds
<1>2. QED  BY <1>1, Invariance, PTL

\* par_iter and par_iter_combinations find every index below the length they
\* loaded in the slice they took, and a pushed value at each
THEOREM IterationsSound == Spec => []IterSound
<1>1. ASSUME IInv, NEW r \in Readers, iter[r].at = "walk"
      PROVE  /\ iter[r].len <= Capacity(iter[r].view.n)
             /\ \A i \in 0 .. iter[r].len - 1 : slots[i] \in Values
  <2>1. iter[r].len <= initLen /\ iter[r].len \in Int /\ initLen \in Int
    BY <1>1 DEF IInv, IterInv, TypeOK
  <2>2. QED  BY <1>1, <2>1 DEF IInv, IterInv, ContentInv
<1>2. IInv => IterSound
  BY <1>1 DEF IterSound
<1>3. QED  BY <1>2, Invariance, PTL

-----------------------------------------------------------------------------
(* The numbering of the blocks                                             *)

\* Every block is twice as long as the one before, and so as long as all those
\* before together, but for the first; who holds the flag has doubled the
\* length of what is still the last block
GrowthInv ==
  /\ \A k \in 1 .. Len(bytes) :
       /\ bytes[k].len = FirstBlock * 2 ^ (k - 1)
       /\ bytes[k].first + FirstBlock = bytes[k].len
  /\ \A t \in Pushers : pc[t] = "grow" => newLen[t] = bytes[Len(bytes)].len * BLOCK_GROWTH_RATE

\* 2 ^ n is the number of subsets of a set of n elements: this is what is known
\* of exponentiation
LEMMA PowerCounts ==
  ASSUME NEW n \in Nat
  PROVE  IsFiniteSet(SUBSET (1 .. n)) /\ Cardinality(SUBSET (1 .. n)) = 2 ^ n /\ 2 ^ n \in Nat
<1>1. IsFiniteSet(1 .. n) /\ Cardinality(1 .. n) = n
  BY FS_Interval
<1>2. QED  BY <1>1, FS_SUBSET, FS_CardinalityType

\* Half of the subsets of 1 .. n + 1 have n + 1 as a member
LEMMA PowerDoubles ==
  ASSUME NEW n \in Nat
  PROVE  2 ^ (n + 1) = 2 * 2 ^ n /\ 2 ^ n \in Nat \ {0}
<1> DEFINE Without == SUBSET (1 .. n)
           With == {X \in SUBSET (1 .. n + 1) : n + 1 \in X}
           join == [X \in Without |-> X \cup {n + 1}]
<1>1. IsFiniteSet(Without) /\ Cardinality(Without) = 2 ^ n /\ 2 ^ n \in Nat
  BY PowerCounts
<1>2. Cardinality(SUBSET (1 .. n + 1)) = 2 ^ (n + 1)
  BY PowerCounts
<1>3. ExistsBijection(Without, With)
  <2>1. \A X \in Without : n + 1 \notin X /\ X \cup {n + 1} \in With
    OBVIOUS
  <2>2. join \in [Without -> With]
    BY <2>1
  <2>3. ASSUME NEW X \in Without, NEW Y \in Without, join[X] = join[Y]
        PROVE  X = Y
    BY <2>1, <2>3
  <2>4. ASSUME NEW Y \in With
        PROVE  \E X \in Without : join[X] = Y
    <3>1. Y \ {n + 1} \in Without
      OBVIOUS
    <3>2. join[Y \ {n + 1}] = Y
      BY <3>1
    <3>3. QED  BY <3>1, <3>2
  <2>5. join \in Bijection(Without, With)
    BY <2>2, <2>3, <2>4 DEF Bijection, Injection, Surjection, IsInjective
  <2>6. QED  BY <2>5 DEF ExistsBijection
<1>4. IsFiniteSet(With) /\ Cardinality(With) = 2 ^ n
  BY <1>1, <1>3, FS_Bijection
<1>5. Without \cap With = {} /\ SUBSET (1 .. n + 1) = Without \cup With
  <2>1. \A X \in SUBSET (1 .. n + 1) : n + 1 \in X \/ X \subseteq 1 .. n
    OBVIOUS
  <2>2. QED  BY <2>1
<1>6. PICK c \in Nat : c = 2 ^ n
  BY <1>1
<1> HIDE DEF Without, With, join
<1>7. Cardinality(Without \cap With) = 0
  BY <1>5, FS_EmptySet
<1>8. Cardinality(Without \cup With)
        = Cardinality(Without) + Cardinality(With) - Cardinality(Without \cap With)
  BY <1>1, <1>4, FS_Union
<1>9. 2 ^ (n + 1) = c + c - 0
  BY <1>1, <1>2, <1>4, <1>5, <1>6, <1>7, <1>8
<1>10. c # 0
  <2>1. Without # {}
    BY DEF Without
  <2>2. QED  BY <1>1, <1>6, <2>1, FS_EmptySet
<1>11. QED  BY <1>6, <1>9, <1>10

LEMMA InitGrowth == Init => GrowthInv
<1> SUFFICES ASSUME Init PROVE GrowthInv
  OBVIOUS
<1>1. /\ bytes = <<[first |-> 0, len |-> FirstBlock]>> /\ Len(bytes) = 1
      /\ \A t \in Pushers : pc[t] # "grow"
  BY DEF Init
<1>2. 2 ^ 0 = 1
  <2>1. SUBSET (1 .. 0) = {{}}
    OBVIOUS
  <2>2. QED  BY <2>1, PowerCounts, FS_Singleton
<1>3. ASSUME NEW k \in 1 .. Len(bytes)
      PROVE  bytes[k].len = FirstBlock * 2 ^ (k - 1) /\ bytes[k].first + FirstBlock = bytes[k].len
  <2>1. k = 1 /\ k - 1 = 0
    BY <1>1
  <2>2. bytes[k].len = FirstBlock /\ bytes[k].first = 0
    BY <1>1, <2>1
  <2>3. QED  BY <1>2, <2>1, <2>2, FirstBlockAssumption
<1>4. QED  BY <1>1, <1>3 DEF GrowthInv

\* Only the holder of the flag changes the list, by what it has read of it
LEMMA NextGrowth ==
  ASSUME IInv, GrowthInv, [Next]_vars
  PROVE  GrowthInv'
<1>1. ASSUME NEW t \in Pushers, TryResize(t)
      PROVE  GrowthInv'
  <2>1. UNCHANGED bytes
    BY <1>1 DEF TryResize, list
  <2>2. ASSUME NEW s \in Pushers, pc'[s] = "grow"
        PROVE  newLen'[s] = bytes[Len(bytes)].len * BLOCK_GROWTH_RATE
    <3>1. CASE s = t
      BY <1>1, <2>2, <3>1 DEF TryResize, Goto, IInv, TypeOK
    <3>2. CASE s # t
      BY <1>1, <2>2, <3>2 DEF TryResize, Goto, IInv, TypeOK, GrowthInv
    <3>3. QED  BY <3>1, <3>2
  <2>3. QED  BY <2>1, <2>2 DEF GrowthInv
<1>2. ASSUME NEW t \in Pushers, AppendBlock(t)
      PROVE  GrowthInv'
  <2>1. PICK n \in Nat : n = Len(bytes) /\ n > 0
    BY DEF IInv, TypeOK, BlockInv
  <2>2. /\ Len(bytes') = n + 1
        /\ \A k \in 1 .. n : bytes'[k] = bytes[k]
        /\ bytes'[n + 1] = [first |-> Capacity(n), len |-> newLen[t]]
    BY <1>2, <2>1 DEF IInv, TypeOK, AppendBlock, PushBlock
  <2>3. ASSUME NEW s \in Pushers
        PROVE  pc'[s] # "grow"
    <3>1. CASE s = t
      BY <1>2, <3>1 DEF AppendBlock, Goto, IInv, TypeOK
    <3>2. CASE s # t
      BY <1>2, <3>2 DEF AppendBlock, Goto, IInv, TypeOK, LockInv, Holds
    <3>3. QED  BY <3>1, <3>2
  <2>4. PICK p \in Nat : p = 2 ^ (n - 1) /\ 2 ^ n = 2 * p
    <3>1. n - 1 \in Nat /\ (n - 1) + 1 = n
      BY <2>1
    <3>2. QED  BY <3>1, PowerDoubles
  <2>5. bytes[n].len = FirstBlock * p /\ bytes[n].first + FirstBlock = bytes[n].len
        /\ bytes[n].first \in Nat /\ bytes[n].len \in Nat
    BY <2>1, <2>4, BlockAt DEF GrowthInv, IInv, TypeOK
  <2>6. newLen[t] = bytes[n].len * 2
    BY <1>2, <2>1 DEF AppendBlock, Goto, GrowthInv, BLOCK_GROWTH_RATE
  <2>7. newLen[t] = FirstBlock * (2 * p)
    BY <2>5, <2>6, FirstBlockAssumption
  <2>8. Capacity(n) + FirstBlock = newLen[t]
    BY <2>5, <2>6, FirstBlockAssumption DEF Capacity
  <2>9. ASSUME NEW k \in 1 .. n + 1
        PROVE  /\ bytes'[k].len = FirstBlock * 2 ^ (k - 1)
               /\ bytes'[k].first + FirstBlock = bytes'[k].len
    <3>1. CASE k \in 1 .. n
      BY <2>1, <2>2, <3>1 DEF GrowthInv
    <3>2. CASE k = n + 1
      <4>1. k - 1 = n /\ bytes'[k] = [first |-> Capacity(n), len |-> newLen[t]]
        BY <2>1, <2>2, <3>2
      <4>2. QED  BY <2>4, <2>7, <2>8, <4>1
    <3>3. QED  BY <2>1, <3>1, <3>2
  <2>10. QED  BY <2>2, <2>3, <2>9 DEF GrowthInv
<1>3. ASSUME UNCHANGED bytes, \A t \in Pushers : pc'[t] = "grow" => pc[t] = "grow" /\ newLen'[t] = newLen[t]
      PROVE  GrowthInv'
  BY <1>3 DEF GrowthInv
<1>4. ASSUME NEW t \in Pushers,
             \/ \E v \in Values : Reserve(t, v)
             \/ TakeSlice(t) \/ SumCapacity(t) \/ Unlock(t) \/ TakeSliceForSlot(t)
             \/ CopyValue(t) \/ AwaitTurn(t) \/ Publish(t)
      PROVE  GrowthInv'
  <2>1. UNCHANGED bytes
    BY <1>4 DEF Reserve, TakeSlice, SumCapacity, Unlock, TakeSliceForSlot, CopyValue, AwaitTurn,
       Publish, list
  <2>2. \A s \in Pushers : pc'[s] = "grow" => pc[s] = "grow" /\ newLen'[s] = newLen[s]
    BY <1>4 DEF Reserve, TakeSlice, SumCapacity, Unlock, TakeSliceForSlot, CopyValue, AwaitTurn,
       Publish, locals, Goto, IInv, TypeOK
  <2>3. QED  BY <1>3, <2>1, <2>2
<1>5. ASSUME \/ \E r \in Readers : StartIter(r) \/ EndIter(r)
             \/ \E i \in 0 .. initLen - 1 : SwapRemove(i)
             \/ Fault \/ UNCHANGED vars
      PROVE  GrowthInv'
  <2>1. UNCHANGED <<bytes, pc, newLen>>
    BY <1>5 DEF StartIter, EndIter, SwapRemove, Fault, vars, list, locals
  <2>2. QED  BY <1>3, <2>1
<1>6. QED
  BY <1>1, <1>2, <1>4, <1>5 DEF Next, Step, PushStep

\* par_iter's formula for the first index of a block gives the index that push
\* has its first element at, however resizes have raced
THEOREM StartIndicesExact == Spec => []StartIndexExact
<1>1. ASSUME IInv, GrowthInv, NEW k \in 1 .. Len(bytes)
      PROVE  StartIndex(bytes[k].len, k - 1) = bytes[k].first
  <2>1. PICK i \in Nat, p \in Nat \ {0} : i = k - 1 /\ p = 2 ^ i
    <3>1. k - 1 \in Nat
      BY <1>1 DEF IInv, TypeOK
    <3>2. QED  BY <3>1, PowerDoubles
  <2>2. bytes[k].len = FirstBlock * p /\ bytes[k].first + FirstBlock = bytes[k].len
        /\ bytes[k].first \in Nat
    BY <1>1, <2>1, BlockAt DEF GrowthInv, IInv, TypeOK
  <2>3. PICK f \in Nat : f = bytes[k].first /\ f + FirstBlock = FirstBlock * p
    BY <2>2
  <2>4. (FirstBlock * p) * (p - 1) = f * p
    <3>1. PICK m \in Nat : m = FirstBlock * p
      BY FirstBlockAssumption
    <3>2. f = m - FirstBlock
      BY <2>3, <3>1, FirstBlockAssumption
    <3>3. (m - FirstBlock) * p = m * p - FirstBlock * p
      BY FirstBlockAssumption
    <3>4. m * (p - 1) = m * p - m
      OBVIOUS
    <3>5. QED  BY <3>1, <3>2, <3>3, <3>4
  <2>5. (f * p) \div p = f
    OBVIOUS
  <2>6. StartIndex(bytes[k].len, k - 1) = ((FirstBlock * p) * (p - 1)) \div p
    BY <2>1, <2>2 DEF StartIndex, BLOCK_GROWTH_RATE
  <2>7. QED  BY <2>3, <2>4, <2>5, <2>6
<1>2. IInv /\ GrowthInv => StartIndexExact
  BY <1>1 DEF StartIndexExact
<1>3. QED  BY <1>2, InitGrowth, NextGrowth, Invariance, PTL DEF Spec

-----------------------------------------------------------------------------
(* AnyVec implements ConcurrentVec                                         *)

\* The state functions that AnyVec puts for the variables of ConcurrentVec
Elements == [i \in 1 .. initLen |-> slots[i - 1]]
Address == [t \in Pushers |-> IF InPush(t) THEN -1 ELSE ticket[t]]

\* Reserving an index is the call of push
LEMMA ReserveCalls ==
  ASSUME IInv, NEW t \in Pushers, NEW v \in Values, Reserve(t, v)
  PROVE  Abstract!Call(t, v)
<1>1. value[t] = Empty
  BY DEF IInv, ContentInv, TypeOK, InPush, Reserve, Goto
<1>2. Address' = [Address EXCEPT ![t] = -1]
  BY DEF IInv, TypeOK, InPush, Reserve, Goto, Address
<1>3. Elements' = Elements
  BY DEF Elements, Reserve
<1>4. QED
  BY <1>1, <1>2, <1>3 DEF Abstract!Call, Reserve, Address, Elements

\* A sequence one longer than e that agrees with e and ends in v
LEMMA AppendIs ==
  ASSUME NEW S, NEW e \in Seq(S), NEW v \in S, NEW f \in Seq(S),
         Len(f) = Len(e) + 1, f[Len(e) + 1] = v,
         \A k \in 1 .. Len(e) : f[k] = e[k]
  PROVE  f = Append(e, v)
<1>1. /\ Append(e, v) \in Seq(S) /\ Len(Append(e, v)) = Len(f)
      /\ Len(e) \in Nat
  BY AppendProperties
<1>2. ASSUME NEW k \in 1 .. Len(f)
      PROVE  f[k] = Append(e, v)[k]
  <2>1. k = Len(e) + 1 => f[k] = Append(e, v)[k]
    BY AppendProperties
  <2>2. k \in 1 .. Len(e) => f[k] = Append(e, v)[k]
    BY AppendProperties
  <2>3. QED  BY <1>1, <2>1, <2>2
<1>3. QED  BY <1>1, <1>2, SeqEqual

\* Publishing the index is the arrival of the element, at the end, and gives
\* the address that push returns
LEMMA PublishCommits ==
  ASSUME IInv, NEW t \in Pushers, Publish(t)
  PROVE  Abstract!Commit(t)
<1>a. /\ InPush(t) /\ ticket[t] = initLen /\ value[t] \in Values
      /\ slots[initLen] = value[t] /\ initLen \in Nat
  BY DEF IInv, ContentInv, TypeOK, InPush, Publish, Goto
<1>1. Elements' = Append(Elements, value[t])
  <2>1. Elements \in Seq(Values)
    BY <1>a DEF IInv, ContentInv, Elements
  <2>2. Len(Elements) = initLen
    BY <1>a DEF Elements
  <2>3. Elements' = [i \in 1 .. initLen + 1 |-> slots[i - 1]]
    BY DEF Elements, Publish
  <2>4. Elements' \in Seq(Values) /\ Len(Elements') = initLen + 1
    BY <1>a, <2>3 DEF IInv, ContentInv
  <2>5. \A k \in 1 .. initLen : Elements[k] = slots[k - 1]
    BY DEF Elements
  <2>6. QED  BY <1>a, <2>1, <2>2, <2>3, <2>4, <2>5, AppendIs
<1>2. Len(Elements) = initLen
  BY <1>a DEF Elements
<1>3. Address' = [Address EXCEPT ![t] = initLen]
  BY <1>a DEF IInv, TypeOK, InPush, Publish, Goto, Address
<1>4. QED
  BY <1>a, <1>1, <1>2, <1>3 DEF Abstract!Commit, Publish, Address, Elements

\* swap_remove_by_ptr at index i removes the (i + 1)st element
LEMMA SwapRemoveRemoves ==
  ASSUME IInv, NEW i \in 0 .. initLen - 1, SwapRemove(i)
  PROVE  Abstract!SwapRemove(i + 1)
<1>1. \A t \in Pushers : value[t] = Empty
  BY DEF IInv, ContentInv, TypeOK, InPush, SwapRemove, Exclusive
<1>2. Len(Elements) = initLen /\ initLen \in Nat
  BY DEF IInv, TypeOK, Elements
<1>3. Elements' = [k \in 1 .. initLen - 1 |->
                     IF k = i + 1 THEN Elements[initLen] ELSE Elements[k]]
  <2>1. Elements' = [k \in 1 .. initLen - 1 |-> slots'[k - 1]]
    BY DEF Elements, SwapRemove
  <2>2. ASSUME NEW k \in 1 .. initLen - 1
        PROVE  slots'[k - 1] = IF k = i + 1 THEN Elements[initLen] ELSE Elements[k]
    BY <1>2, MaxLenAssumption DEF IInv, TypeOK, Slots, Elements, SwapRemove
  <2>3. QED  BY <2>1, <2>2
<1>4. Address' = Address
  BY DEF Address, InPush, SwapRemove, locals
<1>5. Elements' = [k \in 1 .. Len(Elements) - 1 |->
                     IF k = i + 1 THEN Elements[Len(Elements)] ELSE Elements[k]]
  BY <1>2, <1>3
<1>6. value' = value /\ \A t \in Pushers : value[t] = Empty
  BY <1>1 DEF SwapRemove, locals
<1>7. QED
  BY <1>4, <1>5, <1>6 DEF Abstract!SwapRemove, Address, Elements

\* Nothing else can be seen from outside: not the search for room, the resize,
\* the copy to an unpublished index, the wait, or an iteration
LEMMA OtherStepsStutter ==
  ASSUME IInv, Step,
         ~ \E t \in Pushers, v \in Values : Reserve(t, v),
         ~ \E t \in Pushers : Publish(t),
         ~ \E i \in 0 .. initLen - 1 : SwapRemove(i)
  PROVE  UNCHANGED Abstract!vars
<1>1. ASSUME NEW t \in Pushers, CopyValue(t)
      PROVE  Elements' = Elements
  <2>1. ticket[t] >= initLen /\ ticket[t] \in Int /\ initLen \in Int
    BY <1>1 DEF IInv, TicketInv, TypeOK, Slots, InPush, CopyValue, Goto
  <2>2. \A i \in 1 .. initLen : slots'[i - 1] = slots[i - 1]
    BY <1>1, <2>1 DEF IInv, TypeOK, CopyValue
  <2>3. QED  BY <1>1, <2>2 DEF Elements, CopyValue, counters
<1>2. Elements' = Elements
  BY <1>1 DEF Step, PushStep, Elements, counters, TakeSlice, SumCapacity,
     TryResize, AppendBlock, Unlock, TakeSliceForSlot, AwaitTurn, StartIter,
     EndIter, Fault
<1>3. value' = value /\ ticket' = ticket
  BY DEF Step, PushStep, locals, TakeSlice, SumCapacity, TryResize,
     AppendBlock, Unlock, TakeSliceForSlot, CopyValue, AwaitTurn, StartIter,
     EndIter, Fault
<1>4. \A t \in Pushers : InPush(t)' <=> InPush(t)
  BY DEF IInv, TypeOK, Step, PushStep, InPush, Goto, TakeSlice, SumCapacity,
     TryResize, AppendBlock, Unlock, TakeSliceForSlot, CopyValue, AwaitTurn,
     StartIter, EndIter, Fault
<1>5. Address' = Address
  BY <1>3, <1>4 DEF Address
<1>6. QED  BY <1>2, <1>3, <1>5 DEF Abstract!vars, Elements, Address

\* push and swap_remove_by_ptr are linearizable: an AnyVec implements a vector
\* whose elements arrive at once and are found at the address push returned
THEOREM Refinement == Spec => RefinesConcurrentVec
<1>1. Init => Abstract!Init
  BY DEF Init, Abstract!Init, InPush
<1>2. ASSUME IInv, [Next]_vars
      PROVE  [Abstract!Next]_(Abstract!vars)
  <2>1. CASE UNCHANGED vars
    BY <2>1 DEF vars, counters, locals, Abstract!vars, InPush
  <2>2. CASE Step
    <3>1. ASSUME NEW t \in Pushers, NEW v \in Values, Reserve(t, v)
          PROVE  Abstract!Next
      BY <1>2, <3>1, ReserveCalls DEF Abstract!Next
    <3>2. ASSUME NEW t \in Pushers, Publish(t)
          PROVE  Abstract!Next
      BY <1>2, <3>2, PublishCommits DEF Abstract!Next
    <3>3. ASSUME NEW i \in 0 .. initLen - 1, SwapRemove(i)
          PROVE  Abstract!Next
      <4>1. i + 1 \in 1 .. Len(Elements)
        BY <1>2 DEF IInv, TypeOK, Elements
      <4>2. Abstract!SwapRemove(i + 1)
        BY <1>2, <3>3, SwapRemoveRemoves
      <4>3. QED  BY <4>1, <4>2 DEF Abstract!Next, Elements
    <3>4. QED
      BY <1>2, <2>2, <3>1, <3>2, <3>3, OtherStepsStutter
  <2>3. QED  BY <1>2, <2>1, <2>2 DEF Next
<1>3. QED
  BY <1>1, <1>2, Invariance, PTL DEF Spec, Abstract!Spec, RefinesConcurrentVec
=============================================================================
