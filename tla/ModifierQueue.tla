---------------------------- MODULE ModifierQueue ----------------------------
(***************************************************************************)
(* What the two modifier stagers of jaya-ecs promise: modifiers queued     *)
(* while systems run are all executed by the next execute, none of them    *)
(* before it starts or after it returns, in parallel but never two at once *)
(* on the same component.  One whose components include those of an        *)
(* earlier one runs after it.                                              *)
(***************************************************************************)
EXTENDS Integers, Sequences

CONSTANT
  Targets     \* the sets of components a modifier may modify

VARIABLES
  queued,     \* the components of each modifier, in the order of arrival
  executing,  \* execute is running
  running,    \* the modifiers being executed
  done        \* those that have been

vars == <<queued, executing, running, done>>

Modifiers == 1 .. Len(queued)

Init ==
  /\ queued = << >>
  /\ executing = FALSE
  /\ running = {}
  /\ done = {}

Queue(P) ==
  /\ ~executing
  /\ queued' = Append(queued, P)
  /\ UNCHANGED <<executing, running, done>>

Execute ==
  /\ ~executing
  /\ executing' = TRUE
  /\ UNCHANGED <<queued, running, done>>

Start(n) ==
  /\ executing
  /\ n \notin running \cup done
  /\ \A m \in running : queued[m] \cap queued[n] = {}
  /\ \A m \in 1 .. n - 1 : queued[m] \subseteq queued[n] => m \in done
  /\ running' = running \cup {n}
  /\ UNCHANGED <<queued, executing, done>>

Finish(n) ==
  /\ n \in running
  /\ running' = running \ {n}
  /\ done' = done \cup {n}
  /\ UNCHANGED <<queued, executing>>

Return ==
  /\ executing
  /\ done = Modifiers
  /\ executing' = FALSE
  /\ UNCHANGED <<queued, running, done>>

Next ==
  \/ \E P \in Targets : Queue(P)
  \/ Execute \/ Return
  \/ \E n \in Modifiers : Start(n) \/ Finish(n)

Spec == Init /\ [][Next]_vars
=============================================================================
