------------------------------- MODULE Frame -------------------------------
(***************************************************************************)
(* One frame of a Universe after the other: System::run_once calls the     *)
(* systems on the choices of their extractors, in parallel, and what the   *)
(* calls do to components is queued with one of the two stagers; then      *)
(* Universe::process_queues executes the multi modifiers, and after them   *)
(* the single ones.  Removals and new components, which process_queues     *)
(* goes on with, are Universe's.                                           *)
(*                                                                         *)
(* The module extends MultiComponentModifierStager, whose producers are    *)
(* the threads that run the calls, and instantiates                        *)
(* ComponentModifierStager; MaxMods bounds the modifiers of both together. *)
(* A component's value is the number of modifications made to it.          *)
(***************************************************************************)
EXTENDS MultiComponentModifierStager

CONSTANTS
  Components,  \* the components of the Universe
  Chains,      \* the chains of the single stager
  Hash         \* the chain of each component

\* What a system is called on: one component for a Query; two for an array of
\* two, and two, or the same one twice, for two parameters
ASSUME TargetsAssumption == Targets = {{c, d} : c, d \in Components}
ASSUME HashAssumption == Hash \in [Components -> Chains]

VARIABLES
  target, chains, executing, current, applied,  \* the single stager
  phase,   \* what the thread that owns the Universe does
  refs,    \* the components a thread's call has references to, {} outside one
  value    \* the value of each component

Single == INSTANCE ComponentModifierStager WITH
  done <- applied

singleVars == <<target, chains, executing, current, applied>>
frameVars == <<vars, singleVars, phase, refs, value>>

FrameInit ==
  /\ Init
  /\ Single!Init
  /\ phase = "systems"
  /\ refs = [p \in Producers |-> {}]
  /\ value = [c \in Components |-> 0]

\* The components in P are modified
Modified(P) == value' = [c \in Components |-> IF c \in P THEN value[c] + 1 ELSE value[c]]

-----------------------------------------------------------------------------
(* System::run_once                                                        *)

\* iter_choices calls the system on a choice of its extractors
StartCall(p, choice) ==
  /\ phase = "systems" /\ refs[p] = {}
  /\ refs' = [refs EXCEPT ![p] = choice]
  /\ UNCHANGED <<vars, singleVars, phase, value>>

\* Fewer modifiers have been queued, or are about to be, than the bound allows
BelowBound == Total + Len(target) < MaxMods

\* Query::queue_mut
QueueMut(p, c) ==
  /\ BelowBound
  /\ c \in refs[p] /\ ppc[p] = "idle"
  /\ Single!QueueModifier(c)
  /\ UNCHANGED <<vars, phase, refs, value>>

\* MultiQuery::queue_mut ...
QueueMultiMut(p) ==
  /\ BelowBound /\ refs[p] # {}
  /\ TrySend(p, refs[p])
  /\ UNCHANGED <<singleVars, phase, refs, value>>

\* ... when the channel is full
QueueMultiMutBlocked(p) ==
  /\ MarkFilled(p) \/ BlockingSend(p)
  /\ UNCHANGED <<singleVars, phase, refs, value>>

EndCall(p) ==
  /\ refs[p] # {} /\ ppc[p] = "idle"
  /\ refs' = [refs EXCEPT ![p] = {}]
  /\ UNCHANGED <<vars, singleVars, phase, value>>

-----------------------------------------------------------------------------
(* Universe::process_queues                                                *)

\* run_once has joined all calls; process_queues calls the first execute
ProcessQueues ==
  /\ phase = "systems" /\ \A p \in Producers : refs[p] = {}
  /\ phase' = "multi"
  /\ CallExecute
  /\ UNCHANGED <<singleVars, refs, value>>

MultiExecute ==
  /\ Main \/ ParkSpuriously
  /\ UNCHANGED <<singleVars, phase, refs, value>>

ActorRuns ==
  /\ Receive \/ OpenStage \/ (\E n \in Modifiers : StartModifier(n)) \/ NextStage \/ Unpark
  /\ UNCHANGED <<singleVars, phase, refs, value>>

\* Broken variant: the modifier is called on one component alone
MultiModifyOne(n) ==
  /\ FinishModifier(n)
  /\ Modified({CHOOSE c \in queued[n] : TRUE})
  /\ UNCHANGED <<singleVars, phase, refs>>

MultiModify(n) ==
  /\ FinishModifier(n)
  /\ Modified(queued[n])
  /\ UNCHANGED <<singleVars, phase, refs>>

\* Broken variant: the second execute does not wait for the first
SingleExecuteEarly ==
  /\ phase = "multi"
  /\ Single!Execute
  /\ phase' = "single"
  /\ UNCHANGED <<vars, refs, value>>

\* The first execute has returned
SingleExecute ==
  /\ phase = "multi" /\ epc = "systems"
  /\ Single!Execute
  /\ phase' = "single"
  /\ UNCHANGED <<vars, refs, value>>

SinglePop(h) ==
  /\ Single!Pop(h)
  /\ UNCHANGED <<vars, phase, refs, value>>

SingleModify(h) ==
  /\ Single!Finish(h)
  /\ Modified({target[current[h]]})
  /\ UNCHANGED <<vars, phase, refs>>

\* So has the second: the next frame
NextFrame ==
  /\ Single!Return
  /\ phase' = "systems"
  /\ UNCHANGED <<vars, refs, value>>

-----------------------------------------------------------------------------

\* A call that has begun goes on and ends
CallStep(p) == QueueMultiMutBlocked(p) \/ EndCall(p)

Owner == (Main /\ UNCHANGED <<singleVars, phase, refs, value>>) \/ SingleExecute \/ NextFrame

ActorStep == ActorRuns \/ \E n \in Modifiers : MultiModify(n)

ChainStep(h) == SinglePop(h) \/ SingleModify(h)

\* The bounds are reached and nothing is left to do
FrameStop ==
  /\ phase = "systems" /\ \A p \in Producers : refs[p] = {}
  /\ rounds = MaxRounds /\ ~BelowBound
  /\ apc = "recv" /\ chan[recvFrom] = << >>
  /\ UNCHANGED frameVars

FrameNext ==
  \/ \E p \in Producers :
       \/ \E P \in Targets : StartCall(p, P)
       \/ \E c \in Components : QueueMut(p, c)
       \/ QueueMultiMut(p)
       \/ CallStep(p)
  \/ ProcessQueues \/ MultiExecute \/ SingleExecute \/ NextFrame
  \/ ActorStep
  \/ \E h \in Chains : ChainStep(h)
  \/ FrameStop

FrameSpec == FrameInit /\ [][FrameNext]_frameVars

\* The calls, the thread that owns the Universe, the actor and the chains of
\* the single stager all run on; spurious wake-ups are not counted on
FrameFairness ==
  /\ \A p \in Producers : WF_frameVars(CallStep(p))
  /\ WF_frameVars(Owner)
  /\ WF_frameVars(ActorStep)
  /\ WF_frameVars(\E h \in Chains : ChainStep(h))

FairFrameSpec == FrameSpec /\ FrameFairness

-----------------------------------------------------------------------------
(* Properties                                                              *)

FrameTypeOK ==
  /\ TypeOK
  /\ Single!TypeOK
  /\ phase \in {"systems", "multi", "single"}
  /\ refs \in [Producers -> Targets \cup {{}}]
  /\ value \in [Components -> 0 .. MaxMods]

\* The modifiers at work, of either stager, as the components they modify
MultiRunning == {<<"multi", n>> : n \in running}
SingleRunning == {<<"single", n>> : n \in Single!Running}
ModifiedBy(m) == IF m[1] = "multi" THEN queued[m[2]] ELSE {target[m[2]]}

\* A component that one modifier holds mutably is held by no other modifier,
\* of its own stager or of the other, and by no call of a system
ExclusiveAccess ==
  \A m \in MultiRunning \cup SingleRunning :
    /\ \A o \in (MultiRunning \cup SingleRunning) \ {m} : ModifiedBy(m) \cap ModifiedBy(o) = {}
    /\ \A p \in Producers : refs[p] \cap ModifiedBy(m) = {}

\* How many modifiers of the component have been queued
QueuedFor(c) ==
  Cardinality({n \in Modifiers : c \in queued[n]})
    + Cardinality({n \in 1 .. Len(target) : target[n] = c})

\* When process_queues returns each queued modifier has modified each of its
\* components once, and no other component has changed
AppliedOnce ==
  [][phase' = "systems" /\ phase # "systems" => \A c \in Components : value[c] = QueuedFor(c)]_frameVars

\* "Modifications will never be ran immediately": all calls of a frame find the
\* values that the frame began with
SystemsReadOneFrame == [][phase = "systems" => value' = value]_frameVars

\* The single stager, as one part of this, still keeps ModifierQueue's promise
SingleKeepsPromise == Single!RefinesModifierQueue

\* Frames end: again and again systems run and a thread is between two calls.
\* No wake-up of the owner is lost, no message waits for ever for room, and a
\* call returns although the channel was full
FrameEnds == \A p \in Producers : []<>(phase = "systems" /\ refs[p] = {})
=============================================================================
