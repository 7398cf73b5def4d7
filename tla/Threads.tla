------------------------------- MODULE Threads -------------------------------
(* The threads that share one of mvec's containers.                        *)
EXTENDS FiniteSets

CONSTANTS
  Pushers,   \* threads that push
  Readers    \* threads that look things up and iterate

ASSUME PushersAssumption == IsFiniteSet(Pushers)
=============================================================================
