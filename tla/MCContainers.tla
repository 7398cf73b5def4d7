---------------------------- MODULE MCContainers ----------------------------
(***************************************************************************)
(* Instances of AVec and ALinkedList for TLC, in one run.  The two share   *)
(* nothing, so the order of a step of the one and a step of the other      *)
(* matters to neither: one moves while the other is as new, and the run    *)
(* has the behaviours of both and none in which they interleave.           *)
(***************************************************************************)
EXTENDS AVec, ALinkedList

MCInit == VecInit /\ Init

MCNext ==
  \/ VecNext /\ Init /\ UNCHANGED vars
  \/ Next /\ VecInit /\ UNCHANGED vecVars

MCSpec == MCInit /\ [][MCNext]_<<vecVars, vars>> /\ Fairness
=============================================================================
