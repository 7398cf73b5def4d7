------------------------------ MODULE MCAnyVec ------------------------------
(* Instances of AnyVec for TLC.                                            *)
EXTENDS AnyVec, TLC

\* For safety alone: the order of the elements matters, who they are does not
Symmetry == Permutations(Pushers) \cup Permutations(Values)
=============================================================================
