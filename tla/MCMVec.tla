------------------------------- MODULE MCMVec -------------------------------
(* Instances of MVec for TLC.                                              *)
EXTENDS MVec
=============================================================================
