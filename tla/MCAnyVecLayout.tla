--------------------------- MODULE MCAnyVecLayout ---------------------------
(* Instances of AnyVecLayout for TLC.                                      *)
EXTENDS AnyVecLayout
=============================================================================
