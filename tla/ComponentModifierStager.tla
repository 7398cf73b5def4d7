----------------------- MODULE ComponentModifierStager -----------------------
(***************************************************************************)
(* ComponentModifierStager of jaya-ecs/src/extract/subextract.rs: a chain  *)
(* of modifiers for each hash of the pointer to the component they modify. *)
(* Threads queue modifiers while systems run; execute, which needs the     *)
(* stager for itself, goes through the chains in parallel, each of them in *)
(* order.                                                                  *)
(*                                                                         *)
(* The n-th modifier to enter a chain is modifier n.                       *)
(***************************************************************************)
EXTENDS Integers, Sequences

CONSTANTS
  Components, \* the components that are modified
  Chains,     \* as many as available_parallelism()
  Hash,       \* the chain of each component
  MaxMods     \* bound: modifiers queued

\* What is assumed of the constants
Typed == Hash \in [Components -> Chains] /\ MaxMods \in Nat

VARIABLES
  target,     \* the component of each modifier
  chains,     \* the modifiers in each chain
  executing,  \* execute is running
  current,    \* the modifier being executed of each chain, 0 when none is
  done        \* the modifiers that have been executed

vars == <<target, chains, executing, current, done>>

Modifiers == 1 .. Len(target)

Init ==
  /\ target = << >>
  /\ chains = [h \in Chains |-> << >>]
  /\ executing = FALSE
  /\ current = [h \in Chains |-> 0]
  /\ done = {}

\* Broken variant: the chain with the fewest modifiers
QueueOnShortest(x) ==
  LET h == CHOOSE g \in Chains : \A f \in Chains : Len(chains[g]) <= Len(chains[f]) IN
  /\ ~executing /\ Len(target) < MaxMods
  /\ target' = Append(target, x)
  /\ chains' = [chains EXCEPT ![h] = Append(@, Len(target) + 1)]
  /\ UNCHANGED <<executing, current, done>>

\* queue_modifier: push on the chain that the pointer hashes to
QueueModifier(x) ==
  /\ ~executing /\ Len(target) < MaxMods
  /\ target' = Append(target, x)
  /\ chains' = [chains EXCEPT ![Hash[x]] = Append(@, Len(target) + 1)]
  /\ UNCHANGED <<executing, current, done>>

\* execute(&mut self)
Execute ==
  /\ ~executing
  /\ executing' = TRUE
  /\ UNCHANGED <<target, chains, current, done>>

\* queue.pop() and the call of the modifier
Pop(h) ==
  /\ executing
  /\ current[h] = 0 /\ chains[h] # << >>
  /\ current' = [current EXCEPT ![h] = Head(chains[h])]
  /\ chains' = [chains EXCEPT ![h] = Tail(@)]
  /\ UNCHANGED <<target, executing, done>>

\* The modifier has returned
Finish(h) ==
  /\ current[h] # 0
  /\ done' = done \cup {current[h]}
  /\ current' = [current EXCEPT ![h] = 0]
  /\ UNCHANGED <<target, chains, executing>>

\* for_each has gone through every chain
Return ==
  /\ executing
  /\ \A h \in Chains : chains[h] = << >> /\ current[h] = 0
  /\ executing' = FALSE
  /\ UNCHANGED <<target, chains, current, done>>

Next ==
  \/ \E x \in Components : QueueModifier(x)
  \/ Execute
  \/ \E h \in Chains : Pop(h) \/ Finish(h)
  \/ Return

Spec == Init /\ [][Next]_vars

-----------------------------------------------------------------------------
(* Properties                                                              *)

\* The shape of the state; only execute runs modifiers, and not after it has
\* returned, when systems hold references again
TypeOK ==
  /\ target \in Seq(Components) /\ Len(target) <= MaxMods
  /\ chains \in [Chains -> Seq(Modifiers)]
  /\ executing \in BOOLEAN
  /\ current \in [Chains -> Modifiers \cup {0}]
  /\ done \subseteq Modifiers
  /\ executing \/ \A h \in Chains : current[h] = 0

\* The modifiers being executed
Running == {current[h] : h \in Chains} \ {0}

\* execute keeps the promise of ModifierQueue: everything is executed, once,
\* before it returns, and the modifiers of a component in order
Promise == INSTANCE ModifierQueue WITH
  Targets <- {{x} : x \in Components},
  queued <- [n \in Modifiers |-> {target[n]}],
  running <- Running

RefinesModifierQueue == Promise!Spec
=============================================================================
