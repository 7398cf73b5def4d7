----------------------------- MODULE MCUniverse -----------------------------
(* Instances of Universe for TLC.                                          *)
EXTENDS Universe, TLC

CONSTANTS t1, t2, c1, c2

\* Each type has one thread that adds its first entity
OneCreatorEach == (c1 :> {t1}) @@ (c2 :> {t2})

\* Any thread may add the first entity of c1
AnyCreator == (c1 :> {t1, t2})
=============================================================================
