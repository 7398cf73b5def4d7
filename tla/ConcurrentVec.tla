---------------------------- MODULE ConcurrentVec ----------------------------
(***************************************************************************)
(* What AnyVec promises its callers, with none of its counters, blocks or  *)
(* spin loops: a vector whose elements each arrive at once, at the end,    *)
(* some time between the call of push and its return, whose elements never *)
(* move while pushes run, and whose returned address is the place where    *)
(* the pushed value is.  A removal happens only while no push is running   *)
(* and fills the hole with the last element.                               *)
(***************************************************************************)
EXTENDS Integers, Sequences

CONSTANTS
  Pushers,    \* the threads that call push
  Values,     \* what they push
  NoValue     \* not an element of Values

VARIABLES
  elements,   \* what a reader that starts now sees, in order
  pending,    \* the value each thread is pushing, NoValue when it is not
  address     \* the index its last push returned, -1 when there is none

vars == <<elements, pending, address>>

Init ==
  /\ elements = <<>>
  /\ pending = [t \in Pushers |-> NoValue]
  /\ address = [t \in Pushers |-> -1]

Call(t, v) ==
  /\ pending[t] = NoValue
  /\ pending' = [pending EXCEPT ![t] = v]
  /\ address' = [address EXCEPT ![t] = -1]
  /\ UNCHANGED elements

Commit(t) ==
  /\ pending[t] \in Values
  /\ elements' = Append(elements, pending[t])
  /\ address' = [address EXCEPT ![t] = Len(elements)]
  /\ pending' = [pending EXCEPT ![t] = NoValue]

SwapRemove(i) ==
  /\ \A t \in Pushers : pending[t] = NoValue
  /\ elements' = [k \in 1 .. Len(elements) - 1 |->
                    IF k = i THEN elements[Len(elements)] ELSE elements[k]]
  /\ UNCHANGED <<pending, address>>

Next ==
  \/ \E t \in Pushers, v \in Values : Call(t, v)
  \/ \E t \in Pushers : Commit(t)
  \/ \E i \in 1 .. Len(elements) : SwapRemove(i)

Spec == Init /\ [][Next]_vars
=============================================================================
