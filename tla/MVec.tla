-------------------------------- MODULE MVec --------------------------------
(***************************************************************************)
(* The vector of mvec/src/mvec.rs: pushes are queued, an item is dropped   *)
(* by dropping the MItemRef that was handed out for it, which queues its   *)
(* address, and process_queue applies both queues.  It has the vector for  *)
(* itself (&mut self), so nothing is pushed meanwhile, but the MItemRefs   *)
(* hold the queue of drops and can be dropped at any time.                 *)
(*                                                                         *)
(* An item is the number of its push.  An address is a block and a cell of *)
(* it; what is popped or moved away leaves its bytes in its cell.          *)
(***************************************************************************)
EXTENDS Integers, Sequences, FiniteSets

CONSTANTS
  BASE_BLOCK_SIZE,  \* cells of the first block (32)
  MaxItems          \* bound: pushes

BLOCK_GROWTH_RATE == 2

VARIABLES
  blocks,        \* the blocks: capacity, length, and the items in the cells
  pendingPushes, \* items to add
  pendingDrops,  \* addresses of items to drop
  refs,          \* the MItemRefs: the address, and the item it was made for
  phase,         \* where process_queue is
  queued,        \* history: how many items have been pushed
  released,      \* history: the items whose MItemRef has been dropped
  drops          \* history: the items whose destructor has run, as often as it has

vars == <<blocks, pendingPushes, pendingDrops, refs, phase, queued, released, drops>>

NewBlock(cap) == [cap |-> cap, len |-> 0, cells |-> <<>>]

\* An address is of a block by its position and a cell of it from 1 up
Content(b, p) == b[p[1]].cells[p[2]]
Stored(b, p, i) ==
  [b EXCEPT ![p[1]].cells =
     [k \in 1 .. Len(@) \cup {p[2]} |-> IF k = p[2] THEN i ELSE @[k]]]

Init ==
  /\ blocks = <<NewBlock(BASE_BLOCK_SIZE)>>
  /\ pendingPushes = <<>>
  /\ pendingDrops = <<>>
  /\ refs = {}
  /\ phase = "idle"
  /\ queued = 0
  /\ released = {}
  /\ drops = <<>>

-----------------------------------------------------------------------------
(* Users                                                                   *)

\* queue_push
QueuePush ==
  /\ phase = "idle"
  /\ queued < MaxItems
  /\ queued' = queued + 1
  /\ pendingPushes' = Append(pendingPushes, queued + 1)
  /\ UNCHANGED <<blocks, pendingDrops, refs, phase, released, drops>>

\* MItemRef::drop
DropRef(ref) ==
  /\ pendingDrops' = Append(pendingDrops, ref.ptr)
  /\ refs' = refs \ {ref}
  /\ released' = released \cup {ref.item}
  /\ UNCHANGED <<blocks, pendingPushes, phase, queued, drops>>

\* MItemRef::forget
Forget(ref) ==
  /\ refs' = refs \ {ref}
  /\ UNCHANGED <<blocks, pendingPushes, pendingDrops, phase, queued, released, drops>>

-----------------------------------------------------------------------------
(* process_queue                                                           *)

Begin ==
  /\ phase = "idle"
  /\ phase' = "reuse"
  /\ UNCHANGED <<blocks, pendingPushes, pendingDrops, refs, queued, released, drops>>

\* A queued item overwrites, and so drops, the one at a queued address
Reuse ==
  /\ phase = "reuse"
  /\ pendingPushes # <<>> /\ pendingDrops # <<>>
  /\ LET spot == Head(pendingDrops)
         push == Head(pendingPushes)
     IN
     /\ drops' = Append(drops, Content(blocks, spot))
     /\ blocks' = Stored(blocks, spot, push)
     /\ refs' = refs \cup {[ptr |-> spot, item |-> push]}
  /\ pendingPushes' = Tail(pendingPushes)
  /\ pendingDrops' = Tail(pendingDrops)
  /\ UNCHANGED <<phase, queued, released>>

\* No address is queued: from here on all items go to the end
NoSpot ==
  /\ phase = "reuse"
  /\ pendingPushes # <<>> /\ pendingDrops = <<>>
  /\ phase' = "append"
  /\ UNCHANGED <<blocks, pendingPushes, pendingDrops, refs, queued, released, drops>>

\* push_back: into the last block, or, with an MItemRef, into a new one
PushBack ==
  /\ phase = "append" /\ pendingPushes # <<>>
  /\ LET n == Len(blocks)
         full == blocks[n].len = blocks[n].cap
         grown == IF full
                  THEN Append(blocks, NewBlock(blocks[n].len * BLOCK_GROWTH_RATE))
                  ELSE blocks
         p == <<Len(grown), grown[Len(grown)].len + 1>>
         push == Head(pendingPushes)
     IN
     /\ blocks' = [Stored(grown, p, push) EXCEPT ![p[1]].len = p[2]]
     /\ refs' = IF full THEN refs \cup {[ptr |-> p, item |-> push]} ELSE refs
  /\ pendingPushes' = Tail(pendingPushes)
  /\ UNCHANGED <<phase, pendingDrops, queued, released, drops>>

NoMorePushes ==
  /\ phase = "reuse" /\ pendingPushes = <<>>
  /\ phase' = "shrink"
  /\ UNCHANGED <<blocks, pendingPushes, pendingDrops, refs, queued, released, drops>>

NonEmpty == {n \in 1 .. Len(blocks) : blocks[n].len > 0}

\* The item at the end of the last block that has one changes places with the
\* one at the queued address, and is popped.  When no block has one the search
\* for it runs below the first block (a panic, or an access outside)
Shrink ==
  /\ phase = "shrink" /\ pendingDrops # <<>>
  /\ IF NonEmpty = {}
     THEN phase' = "dead" /\ UNCHANGED <<blocks, drops>>
     ELSE LET n == CHOOSE m \in NonEmpty : \A k \in NonEmpty : k <= m
              end == <<n, blocks[n].len>>
              spot == Head(pendingDrops)
              swapped == Stored(Stored(blocks, spot, Content(blocks, end)),
                                end, Content(blocks, spot))
          IN
          /\ blocks' = [swapped EXCEPT ![n].len = @ - 1]
          /\ drops' = Append(drops, Content(swapped, end))
          /\ UNCHANGED phase
  /\ pendingDrops' = Tail(pendingDrops)
  /\ UNCHANGED <<pendingPushes, refs, queued, released>>

Return ==
  /\ \/ phase = "append" /\ pendingPushes = <<>>
     \/ phase = "shrink" /\ pendingDrops = <<>>
  /\ phase' = "idle"
  /\ UNCHANGED <<blocks, pendingPushes, pendingDrops, refs, queued, released, drops>>

Next ==
  \/ QueuePush
  \/ \E ref \in refs : DropRef(ref) \/ Forget(ref)
  \/ Begin \/ Reuse \/ NoSpot \/ PushBack \/ NoMorePushes \/ Shrink \/ Return

Spec == Init /\ [][Next]_vars

-----------------------------------------------------------------------------
(* Properties                                                              *)

\* MVecIter: the cells below the length of each block
Addresses == UNION {{<<n, k>> : k \in 1 .. blocks[n].len} : n \in 1 .. Len(blocks)}

Times(i, seq) == Cardinality({k \in 1 .. Len(seq) : seq[k] = i})

Waiting == {pendingPushes[k] : k \in 1 .. Len(pendingPushes)}

\* "dropping this struct queues the associated item for dropping": between two
\* calls of process_queue an item that has been added is in the vector once, or
\* has been dropped once, and only items whose own MItemRef was dropped have
\* been
ItemsExact ==
  phase = "idle" =>
    \A i \in 1 .. queued \ Waiting :
      /\ Cardinality({p \in Addresses : Content(blocks, p) = i}) + Times(i, drops) = 1
      /\ Times(i, drops) > 0 => i \in released
=============================================================================
