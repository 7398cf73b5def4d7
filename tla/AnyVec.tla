------------------------------- MODULE AnyVec -------------------------------
(***************************************************************************)
(* The type-erased vector of jaya-ecs/src/collections.rs.                  *)
(*                                                                         *)
(* push reserves an index by fetch_add on maybe_init_len, makes sure a     *)
(* block holds that index (appending one under the resizing flag if not),  *)
(* copies the value there, waits for its turn and publishes it by          *)
(* fetch_add on init_len.  Each atomic access and each walk of the block   *)
(* list is a step of its own.  Iterations run beside the pushes; removals  *)
(* only while nothing else runs (the caller holds a &mut).                 *)
(*                                                                         *)
(* The list of blocks is itself a Vec: appending a block to a full one     *)
(* moves the list and frees the old one, which a thread that has already   *)
(* taken the list's slice is still going to read.  What such a read gives  *)
(* is undefined: in the model the old contents (nothing has reused the     *)
(* memory yet), or the death of the process.                               *)
(*                                                                         *)
(* Sizes are in elements, not bytes: element_size divides every block.     *)
(***************************************************************************)
EXTENDS Integers, Sequences, FiniteSets

CONSTANTS
  Pushers,      \* threads that call push
  Readers,      \* threads that run par_iter or par_iter_combinations
  Values,       \* elements
  Empty,        \* the content of a slot no element has been copied to
  FirstBlock,   \* elements in the first block (DEFAULT_BLOCK_SIZE, 32)
  MaxLen        \* bound: a push starts only below this length

ASSUME EmptyAssumption == Empty \notin Values
ASSUME FirstBlockAssumption == FirstBlock \in Nat \ {0}
ASSUME MaxLenAssumption == MaxLen \in Nat

BLOCK_GROWTH_RATE == 2

VARIABLES
  maybeInitLen, \* indices reserved
  initLen,      \* indices published
  resizing,     \* the spin lock around the append of a block
  bytes,        \* the blocks: where each starts and how many elements it holds
  alloc,        \* the allocation behind the list of blocks
  slots,        \* the elements, by index
  pc,           \* where each pusher is in push
  ticket,       \* the index it reserved; after its return, the address
  value,        \* the value it pushes
  view,         \* the slice of the block list it walks
  newLen,       \* last_block_len
  iter,         \* the iteration each reader runs
  faulted       \* an undefined read has killed the process

counters == <<maybeInitLen, initLen>>
list == <<bytes, alloc>>
locals == <<ticket, value, view, newLen>>
vars == <<counters, resizing, list, slots, pc, locals, iter, faulted>>

Slots == 0 .. MaxLen - 1
Block == [first : Nat, len : Nat]
View == [gen : Nat, n : Nat]
NoView == [gen |-> 0, n |-> 0]
Idle == [at |-> "idle", len |-> 0, view |-> NoView]

-----------------------------------------------------------------------------
(* The block list                                                          *)

\* get_capacity over the first n blocks
Capacity(n) == bytes[n].first + bytes[n].len

\* The slice of the block list as it is now: which allocation, how long
Snapshot == [gen |-> alloc.gen, n |-> Len(bytes)]

\* The slice belongs to an allocation that has been freed
Stale(v) == v.gen # alloc.gen

\* How Vec grows when it is full (8-byte pointers with a length: at least 4)
GrownCap(c) == IF 2 * c > 4 THEN 2 * c ELSE 4

\* Vec::push on the list of blocks
PushBlock(len) ==
  /\ bytes' = Append(bytes, [first |-> Capacity(Len(bytes)), len |-> len])
  /\ alloc' = IF Len(bytes) = alloc.cap
              THEN [gen |-> alloc.gen + 1, cap |-> GrownCap(alloc.cap)]
              ELSE alloc

\* The index of a block's first element as par_iter computes it from the
\* block's length and its position i (from 0): len * (1 - 1 / 2^i)
StartIndex(len, i) ==
  (len * (BLOCK_GROWTH_RATE ^ i - 1)) \div (BLOCK_GROWTH_RATE ^ i)

-----------------------------------------------------------------------------
Init ==
  /\ maybeInitLen = 0
  /\ initLen = 0
  /\ resizing = FALSE
  /\ bytes = <<[first |-> 0, len |-> FirstBlock]>>
  /\ alloc = [gen |-> 0, cap |-> 1]
  /\ slots = [i \in Slots |-> Empty]
  /\ pc = [t \in Pushers |-> "idle"]
  /\ ticket = [t \in Pushers |-> -1]
  /\ value = [t \in Pushers |-> Empty]
  /\ view = [t \in Pushers |-> NoView]
  /\ newLen = [t \in Pushers |-> 0]
  /\ iter = [r \in Readers |-> Idle]
  /\ faulted = FALSE

Goto(t, from, to) ==
  /\ pc[t] = from
  /\ pc' = [pc EXCEPT ![t] = to]

-----------------------------------------------------------------------------
(* push                                                                    *)

\* maybe_init_len.fetch_add(1): the index is ours
Reserve(t, v) ==
  /\ maybeInitLen < MaxLen
  /\ Goto(t, "idle", "check")
  /\ maybeInitLen' = maybeInitLen + 1
  /\ ticket' = [ticket EXCEPT ![t] = maybeInitLen]
  /\ value' = [value EXCEPT ![t] = v]
  /\ UNCHANGED <<initLen, resizing, list, slots, view, newLen, iter, faulted>>

\* get_capacity takes the slice of the block list ...
TakeSlice(t) ==
  /\ Goto(t, "check", "sum")
  /\ view' = [view EXCEPT ![t] = Snapshot]
  /\ UNCHANGED <<counters, resizing, list, slots, ticket, value, newLen, iter,
                 faulted>>

\* Broken variant: one element too many before the resize
IsFullLate(t) == ticket[t] > Capacity(view[t].n)

\* current_len >= capacity, with current_len one more than the index
IsFull(t) == ticket[t] + 1 >= Capacity(view[t].n)

\* ... walks it, and the answer decides whether to resize or to write
SumCapacity(t) ==
  /\ Goto(t, "sum", IF IsFull(t) THEN "swap" ELSE "slot")
  /\ UNCHANGED <<counters, resizing, list, slots, locals, iter, faulted>>

\* Broken variant: the answer of swap is ignored
TryResizeAlways(t) ==
  /\ Goto(t, "swap", "grow")
  /\ resizing' = TRUE
  /\ newLen' = [newLen EXCEPT ![t] = bytes[Len(bytes)].len * BLOCK_GROWTH_RATE]
  /\ UNCHANGED <<counters, list, slots, ticket, value, view, iter, faulted>>

\* resizing.swap(true): the loser snoozes and starts over; the winner reads
\* the last block's length
TryResize(t) ==
  /\ Goto(t, "swap", IF resizing THEN "check" ELSE "grow")
  /\ resizing' = TRUE
  /\ newLen' = IF resizing THEN newLen
               ELSE [newLen EXCEPT ![t] =
                       bytes[Len(bytes)].len * BLOCK_GROWTH_RATE]
  /\ UNCHANGED <<counters, list, slots, ticket, value, view, iter, faulted>>

\* Allocate the block and push it on the list
AppendBlock(t) ==
  /\ Goto(t, "grow", "unlock")
  /\ PushBlock(newLen[t])
  /\ UNCHANGED <<counters, resizing, slots, locals, iter, faulted>>

\* Broken variant: the flag is never cleared
UnlockForgotten(t) ==
  /\ Goto(t, "unlock", "check")
  /\ UNCHANGED <<counters, resizing, list, slots, locals, iter, faulted>>

\* resizing.store(false), and look again
Unlock(t) ==
  /\ Goto(t, "unlock", "check")
  /\ resizing' = FALSE
  /\ UNCHANGED <<counters, list, slots, locals, iter, faulted>>

\* get_bytes_ptr takes the slice of the block list ...
TakeSliceForSlot(t) ==
  /\ Goto(t, "slot", "copy")
  /\ view' = [view EXCEPT ![t] = Snapshot]
  /\ UNCHANGED <<counters, resizing, list, slots, ticket, value, newLen, iter,
                 faulted>>

\* Broken variant: the value goes to the first unpublished index
CopyToInitLen(t) ==
  /\ Goto(t, "copy", "await")
  /\ slots' = [slots EXCEPT ![initLen] = value[t]]
  /\ UNCHANGED <<counters, resizing, list, locals, iter, faulted>>

\* ... walks it to the reserved index, and the value is copied there
CopyValue(t) ==
  /\ Goto(t, "copy", "await")
  /\ slots' = [slots EXCEPT ![ticket[t]] = value[t]]
  /\ UNCHANGED <<counters, resizing, list, locals, iter, faulted>>

\* Broken variant: nobody waits
NeverWait(t) == TRUE

\* init_len.load() = current_len - 1: every lower index is published
IsMyTurn(t) == initLen = ticket[t]

\* Snooze until it is our turn
AwaitTurn(t) ==
  /\ IsMyTurn(t)
  /\ Goto(t, "await", "publish")
  /\ UNCHANGED <<counters, resizing, list, slots, locals, iter, faulted>>

\* init_len.fetch_add(1) and return the address
Publish(t) ==
  /\ Goto(t, "publish", "idle")
  /\ initLen' = initLen + 1
  /\ value' = [value EXCEPT ![t] = Empty]
  /\ view' = [view EXCEPT ![t] = NoView]
  /\ newLen' = [newLen EXCEPT ![t] = 0]
  /\ UNCHANGED <<maybeInitLen, resizing, list, slots, ticket, iter, faulted>>

PushStep(t) ==
  \/ TakeSlice(t) \/ SumCapacity(t)
  \/ TryResize(t) \/ AppendBlock(t) \/ Unlock(t)
  \/ TakeSliceForSlot(t) \/ CopyValue(t)
  \/ AwaitTurn(t) \/ Publish(t)

-----------------------------------------------------------------------------
(* par_iter and par_iter_combinations                                      *)

\* Broken variant: the slice of the block list is taken first
StartIterSliceFirst(r) ==
  /\ \/ /\ iter[r].at = "idle"
        /\ iter' = [iter EXCEPT ![r].at = "loaded", ![r].view = Snapshot]
     \/ /\ iter[r].at = "loaded"
        /\ iter' = [iter EXCEPT ![r].at = "walk", ![r].len = initLen]
  /\ UNCHANGED <<counters, resizing, list, slots, pc, locals, faulted>>

\* init_len is loaded before the slice of the block list is taken
StartIter(r) ==
  /\ \/ /\ iter[r].at = "idle"
        /\ iter' = [iter EXCEPT ![r].at = "loaded", ![r].len = initLen]
     \/ /\ iter[r].at = "loaded"
        /\ iter' = [iter EXCEPT ![r].at = "walk", ![r].view = Snapshot]
  /\ UNCHANGED <<counters, resizing, list, slots, pc, locals, faulted>>

\* The iteration visits the indices below len in any order; it changes nothing
EndIter(r) ==
  /\ iter[r].at = "walk"
  /\ iter' = [iter EXCEPT ![r] = Idle]
  /\ UNCHANGED <<counters, resizing, list, slots, pc, locals, faulted>>

-----------------------------------------------------------------------------
(* swap_remove_by_ptr, called by process_queues                            *)

\* Rust lends process_queues a &mut: no push and no iteration is running
Exclusive ==
  /\ \A t \in Pushers : pc[t] = "idle"
  /\ \A r \in Readers : iter[r].at = "idle"

\* Broken variants: one of the two counters is forgotten
RemoveKeepsInitLen(i) ==
  /\ Exclusive
  /\ maybeInitLen' = maybeInitLen - 1
  /\ slots' = [slots EXCEPT ![i] = slots[initLen - 1], ![initLen - 1] = Empty]
  /\ UNCHANGED <<initLen, resizing, list, pc, locals, iter, faulted>>

RemoveKeepsMaybe(i) ==
  /\ Exclusive
  /\ initLen' = initLen - 1
  /\ slots' = [slots EXCEPT ![i] = slots[initLen - 1], ![initLen - 1] = Empty]
  /\ UNCHANGED <<maybeInitLen, resizing, list, pc, locals, iter, faulted>>

\* Drop the element at index i and move the last one into its place
SwapRemove(i) ==
  /\ Exclusive
  /\ maybeInitLen' = maybeInitLen - 1
  /\ initLen' = initLen - 1
  /\ slots' = [slots EXCEPT ![i] = slots[initLen - 1], ![initLen - 1] = Empty]
  /\ UNCHANGED <<resizing, list, pc, locals, iter, faulted>>

-----------------------------------------------------------------------------
(* Reads of a freed block list                                             *)

\* The next thing the thread does is to read the slice it took
PusherWalks(t) == pc[t] \in {"sum", "copy"}
ReaderWalks(r) == iter[r].at = "walk"

Fault ==
  /\ \/ \E t \in Pushers : PusherWalks(t) /\ Stale(view[t])
     \/ \E r \in Readers : ReaderWalks(r) /\ Stale(iter[r].view)
  /\ faulted' = TRUE
  /\ UNCHANGED <<counters, resizing, list, slots, pc, locals, iter>>

-----------------------------------------------------------------------------
Step ==
  \/ \E t \in Pushers, v \in Values : Reserve(t, v)
  \/ \E t \in Pushers : PushStep(t)
  \/ \E r \in Readers : StartIter(r) \/ EndIter(r)
  \/ \E i \in 0 .. initLen - 1 : SwapRemove(i)
  \/ Fault

Next ==
  \/ ~faulted /\ Step
  \/ faulted /\ UNCHANGED vars

Spec == Init /\ [][Next]_vars

\* Every thread that is inside push is scheduled again and again
Fairness == \A t \in Pushers : WF_vars(~faulted /\ PushStep(t))

FairSpec == Spec /\ Fairness

-----------------------------------------------------------------------------
(* Properties                                                              *)

\* The shape of the state; initLen - 1 must not wrap when removing
TypeOK ==
  /\ maybeInitLen \in 0 .. MaxLen
  /\ initLen \in 0 .. MaxLen
  /\ resizing \in BOOLEAN
  /\ bytes \in Seq(Block)
  /\ alloc \in [gen : Nat, cap : Nat]
  /\ slots \in [Slots -> Values \cup {Empty}]
  /\ pc \in [Pushers -> {"idle", "check", "sum", "swap", "grow", "unlock",
                         "slot", "copy", "await", "publish"}]
  /\ ticket \in [Pushers -> Slots \cup {-1}]
  /\ value \in [Pushers -> Values \cup {Empty}]
  /\ view \in [Pushers -> View]
  /\ newLen \in [Pushers -> Nat]
  /\ iter \in [Readers -> [at : {"idle", "loaded", "walk"}, len : 0 .. MaxLen,
                           view : View]]
  /\ faulted \in BOOLEAN

\* A thread is inside push
InPush(t) == pc[t] # "idle"

\* Whatever the order in which the copies finish, an index below init_len
\* holds a value copied there: no reader meets an uninitialised element
PublishedInitialised == \A i \in 0 .. initLen - 1 : slots[i] \in Values

\* The reserved and not yet published indices are exactly those of the pushes
\* in progress, each of one of them: no index is shared, and none is orphaned,
\* which would make every later push wait for ever
TicketsExact ==
  /\ \A k \in initLen .. maybeInitLen - 1 :
       Cardinality({t \in Pushers : InPush(t) /\ ticket[t] = k}) = 1
  /\ \A t \in Pushers :
       InPush(t) => ticket[t] \in initLen .. maybeInitLen - 1

\* The copy of a value lands inside a block of the slice being walked
WriteInBounds ==
  \A t \in Pushers : pc[t] = "copy" => ticket[t] < Capacity(view[t].n)

\* The formula by which par_iter numbers the elements of a block agrees with
\* where push puts them: it relies on every block doubling the one before it,
\* which racing resizes must not break
StartIndexExact ==
  \A k \in 1 .. Len(bytes) : StartIndex(bytes[k].len, k - 1) = bytes[k].first

\* The slice an iteration walks reaches every element published when it
\* started, and all of them are initialised
IterSound ==
  \A r \in Readers : iter[r].at = "walk" =>
    /\ iter[r].len <= Capacity(iter[r].view.n)
    /\ \A i \in 0 .. iter[r].len - 1 : slots[i] \in Values

\* "AnyVec can be extended and iterated through concurrently": nobody is about
\* to read a block list that a resize has freed
NoFreedListRead ==
  /\ \A t \in Pushers : PusherWalks(t) => ~Stale(view[t])
  /\ \A r \in Readers : ReaderWalks(r) => ~Stale(iter[r].view)

\* Every push returns, unless the process dies
PushReturns == \A t \in Pushers : InPush(t) ~> (~InPush(t) \/ faulted)

\* The vector behaves as one whose elements arrive at once
Abstract == INSTANCE ConcurrentVec WITH
  NoValue <- Empty,
  elements <- [i \in 1 .. initLen |-> slots[i - 1]],
  pending <- value,
  address <- [t \in Pushers |-> IF InPush(t) THEN -1 ELSE ticket[t]]

RefinesConcurrentVec == Abstract!Spec
=============================================================================
