----------------------------- MODULE ALinkedList -----------------------------
(***************************************************************************)
(* The concurrently appendable linked list of mvec/src/alink.rs.           *)
(*                                                                         *)
(* push_back makes a node, swaps it into last, counts it in len, and then  *)
(* links it behind the node it got from the swap: three accesses to shared *)
(* memory.  Between the swap and the link the list is cut: last and len    *)
(* know of nodes that an iteration, which follows next from first, does    *)
(* not reach, those of pushes that have returned among them.               *)
(*                                                                         *)
(* A node stands for its value; nodes are numbered as they are allocated   *)
(* and node 1 is first.  The link is a plain write of one pointer that an  *)
(* iteration may read at the same time: the model lets the read give the   *)
(* pointer from before or from after, as it does where such a write is     *)
(* one store.                                                              *)
(***************************************************************************)
EXTENDS Threads, Integers, Sequences

CONSTANT MaxNodes   \* bound: nodes ever allocated

ASSUME MaxNodesAssumption == MaxNodes \in Nat \ {0}

NoNode == 0
First == 1

VARIABLES
  next,      \* the next of each allocated node
  last,      \* the node the next push will link behind
  len,       \* len
  pc,        \* where each pusher is in push_back
  node,      \* the node it made
  lastPtr,   \* last_ptr: the node it links behind
  current,   \* current_node of each reader's iteration
  seen,      \* the nodes the iteration has returned
  order,     \* history: the nodes in the order of their swaps
  found      \* history: how many nodes could be reached when it started

pushVars == <<pc, node, lastPtr>>
iterVars == <<current, seen, found>>
vars == <<next, last, len, pushVars, iterVars, order>>

Nodes == 1 .. Len(next)

Init ==
  /\ next = <<NoNode>>
  /\ last = First
  /\ len = 1
  /\ pc = [t \in Pushers |-> "idle"]
  /\ node = [t \in Pushers |-> NoNode]
  /\ lastPtr = [t \in Pushers |-> NoNode]
  /\ current = [r \in Readers |-> NoNode]
  /\ seen = [r \in Readers |-> <<>>]
  /\ order = <<First>>
  /\ found = [r \in Readers |-> 0]

-----------------------------------------------------------------------------
(* push_back                                                               *)

Goto(t, from, to) ==
  /\ pc[t] = from
  /\ pc' = [pc EXCEPT ![t] = to]

Allocate(t) ==
  /\ Len(next) < MaxNodes
  /\ Goto(t, "idle", "swap")
  /\ next' = Append(next, NoNode)
  /\ node' = [node EXCEPT ![t] = Len(next) + 1]
  /\ UNCHANGED <<last, len, lastPtr, iterVars, order>>

\* last.swap(next)
Swap(t) ==
  /\ Goto(t, "swap", "count")
  /\ lastPtr' = [lastPtr EXCEPT ![t] = last]
  /\ last' = node[t]
  /\ order' = Append(order, node[t])
  /\ UNCHANGED <<next, len, node, iterVars>>

\* Broken variants: the node is not counted, or counted with the one before
CountForgotten(t) ==
  /\ Goto(t, "count", "link")
  /\ UNCHANGED <<next, last, len, node, lastPtr, iterVars, order>>

CountTwice(t) ==
  /\ Goto(t, "count", "link")
  /\ len' = len + 2
  /\ UNCHANGED <<next, last, node, lastPtr, iterVars, order>>

\* len.fetch_add(1)
Count(t) ==
  /\ Goto(t, "count", "link")
  /\ len' = len + 1
  /\ UNCHANGED <<next, last, node, lastPtr, iterVars, order>>

\* Broken variant: behind the node that is last by now
LinkBehindLast(t) ==
  /\ Goto(t, "link", "idle")
  /\ next' = [next EXCEPT ![last] = IF last = node[t] THEN @ ELSE node[t]]
  /\ UNCHANGED <<last, len, node, lastPtr, iterVars, order>>

\* Broken variant: a write to a copy of the node
LinkForgotten(t) ==
  /\ Goto(t, "link", "idle")
  /\ UNCHANGED <<next, last, len, node, lastPtr, iterVars, order>>

\* last_ptr.next = Some(next): the push is over
Link(t) ==
  /\ Goto(t, "link", "idle")
  /\ next' = [next EXCEPT ![lastPtr[t]] = node[t]]
  /\ UNCHANGED <<last, len, node, lastPtr, iterVars, order>>

-----------------------------------------------------------------------------
(* iter, and iter_mut when no push is running                              *)

\* The first k nodes of the order are linked up
LinkedUpTo(k) == \A j \in 1 .. k - 1 : next[order[j]] # NoNode

\* How many nodes an iteration finds if nothing changes
Reach == CHOOSE k \in 1 .. Len(order) :
           /\ LinkedUpTo(k)
           /\ k = Len(order) \/ next[order[k]] = NoNode

\* Broken variant: the iteration starts where the list ends
StartIterLast(r) ==
  /\ current[r] = NoNode
  /\ current' = [current EXCEPT ![r] = last]
  /\ seen' = [seen EXCEPT ![r] = <<>>]
  /\ found' = [found EXCEPT ![r] = Reach]
  /\ UNCHANGED <<next, last, len, pushVars, order>>

StartIter(r) ==
  /\ current[r] = NoNode
  /\ current' = [current EXCEPT ![r] = First]
  /\ seen' = [seen EXCEPT ![r] = <<>>]
  /\ found' = [found EXCEPT ![r] = Reach]
  /\ UNCHANGED <<next, last, len, pushVars, order>>

\* ALinkedListIter::next: the link is read together with the node, so a node
\* linked behind the last one returned comes too late for this iteration
NextItem(r) ==
  /\ current[r] # NoNode
  /\ seen' = [seen EXCEPT ![r] = Append(@, current[r])]
  /\ current' = [current EXCEPT ![r] = next[current[r]]]
  /\ UNCHANGED <<next, last, len, pushVars, order, found>>

-----------------------------------------------------------------------------

PushStep(t) == Swap(t) \/ Count(t) \/ Link(t)

Next ==
  \/ \E t \in Pushers : Allocate(t) \/ PushStep(t)
  \/ \E r \in Readers : StartIter(r) \/ NextItem(r)

Spec == Init /\ [][Next]_vars

\* A thread that has begun a push goes on with it: there is nothing in it to
\* wait for.  Nobody has to begin one, or to iterate.
Fairness == \A t \in Pushers : WF_vars(PushStep(t))

FairSpec == Spec /\ Fairness

-----------------------------------------------------------------------------
(* Properties                                                              *)

\* The shape of the state
TypeOK ==
  /\ Len(next) \in 1 .. MaxNodes
  /\ next \in [Nodes -> Nodes \cup {NoNode}]
  /\ last \in Nodes
  /\ len \in 1 .. Len(next)
  /\ pc \in [Pushers -> {"idle", "swap", "count", "link"}]
  /\ node \in [Pushers -> Nodes \cup {NoNode}]
  /\ lastPtr \in [Pushers -> Nodes \cup {NoNode}]
  /\ current \in [Readers -> Nodes \cup {NoNode}]
  /\ seen \in [Readers -> Seq(Nodes)]
  /\ order \in Seq(Nodes)
  /\ found \in [Readers -> 0 .. Len(next)]

\* The pushers that have swapped their node in and not linked it
Unlinked == {t \in Pushers : pc[t] \in {"count", "link"}}

\* However the pushes interleave, each node gets one successor, the one that
\* was swapped in after it, and has none only while that one's push is still
\* on the way: when no push is running the list is whole, in the order of the
\* swaps, and ends at last
ChainExact ==
  /\ last = order[Len(order)] /\ next[last] = NoNode
  /\ \A k \in 1 .. Len(order) - 1 :
       next[order[k]] =
         IF \E t \in Unlinked : lastPtr[t] = order[k] /\ node[t] = order[k + 1]
         THEN NoNode ELSE order[k + 1]

\* len and the list are changed by separate accesses, len first: an iteration
\* can never return more nodes than len says, and len never says more than
\* have been swapped in
LenCovers ==
  /\ len <= Len(order)
  /\ \A k \in 1 .. Len(order) : LinkedUpTo(k) => k <= len
  /\ \A r \in Readers : Len(seen[r]) <= len

\* An iteration beside pushes returns the nodes in the order of their swaps,
\* none twice and none left out between two others, and at least those that
\* could be reached when it started
IterSound ==
  \A r \in Readers :
    /\ seen[r] = SubSeq(order, 1, Len(seen[r]))
    /\ current[r] # NoNode => current[r] = order[Len(seen[r]) + 1]
    /\ current[r] = NoNode => Len(seen[r]) >= found[r]

\* A push that has returned may be out of reach behind one that has not linked
\* its node; it does not stay so: every node swapped in is reached in the end
PushedIsFound ==
  \A k \in 2 .. MaxNodes : k <= Len(order) ~> LinkedUpTo(k)
=============================================================================
