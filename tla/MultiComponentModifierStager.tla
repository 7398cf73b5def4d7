-------------------- MODULE MultiComponentModifierStager --------------------
(***************************************************************************)
(* MultiComponentModifierStager of jaya-ecs/src/extract/subextract.rs.     *)
(*                                                                         *)
(* Threads send modifiers to an actor through a bounded channel while      *)
(* systems run; the actor puts each in the first stage none of whose       *)
(* modifiers has a component in common with it.  execute sends Close and   *)
(* parks until the actor has run the stages, one after the other, the      *)
(* modifiers of a stage in parallel.  If the channel was ever full,        *)
(* execute then replaces it by one twice as large, which the actor learns  *)
(* from a Resize message at the end of the old one.                        *)
(*                                                                         *)
(* The n-th modifier to enter a channel is modifier n.  The pool of rayon  *)
(* is not modelled: it has a thread for the actor and for what the actor   *)
(* runs in parallel.                                                       *)
(***************************************************************************)
EXTENDS Integers, Sequences, FiniteSets

CONSTANTS
  Producers,  \* threads that queue modifiers
  Targets,    \* the sets of components a modifier may modify
  BufferSize, \* capacity of the first channel (DEFAULT_MODIFIER_BUFFER_SIZE)
  MaxMods,    \* bound: modifiers queued
  MaxRounds   \* bound: calls of execute

ASSUME BufferSizeAssumption == BufferSize \in Nat \ {0}
ASSUME BoundsAssumption == MaxMods \in Nat /\ MaxRounds \in Nat

VARIABLES
  queued,     \* the components of each modifier
  chan,       \* the contents of each channel
  sendTo,     \* the channel of mod_sender: how often it was replaced
  recvFrom,   \* the channel of mod_recv
  filled,     \* buffer_filled
  complete,   \* modification_complete
  token,      \* unpark has been called on the thread that executes
  ppc,        \* where each producer is in queue_modifier
  holds,      \* the modifier it is trying to send
  epc,        \* where the main thread is in execute; "systems" outside it
  rounds,     \* how often execute has been called
  apc,        \* what the actor does
  stages,     \* the actor's stages
  stage,      \* the stage it is running
  running,    \* modifiers that are being executed
  done        \* modifiers that have been

channels == <<chan, sendTo, recvFrom>>
flags == <<filled, complete, token>>
producers == <<ppc, holds>>
main == <<epc, rounds>>
actor == <<apc, stages, stage, running, done>>
vars == <<queued, channels, flags, producers, main, actor>>

Modifiers == 1 .. Len(queued)
\* The other two messages
Close == -1
Resize == -2

\* self.buffer_size after g replacements
Capacity(g) == BufferSize * 2 ^ g

\* Broken variant: one message too many
HasRoomForOneMore == Len(chan[sendTo]) <= Capacity(sendTo)

\* The bound of a sync_channel
HasRoom == Len(chan[sendTo]) < Capacity(sendTo)

Send(msg) == chan' = [chan EXCEPT ![sendTo] = Append(@, msg)]

Init ==
  /\ queued = << >>
  /\ chan = [g \in 0 .. MaxRounds |-> << >>]
  /\ sendTo = 0
  /\ recvFrom = 0
  /\ filled = FALSE
  /\ complete = FALSE
  /\ token = FALSE
  /\ ppc = [p \in Producers |-> "idle"]
  /\ holds = [p \in Producers |-> {}]
  /\ epc = "systems"
  /\ rounds = 0
  /\ apc = "recv"
  /\ stages = << >>
  /\ stage = 0
  /\ running = {}
  /\ done = {}

-----------------------------------------------------------------------------
(* queue_modifier                                                          *)

\* How many modifiers have been sent or are about to be
Total == Len(queued) + Cardinality({p \in Producers : ppc[p] # "idle"})

\* try_send: the modifier is sent at once if there is room
TrySend(p, P) ==
  /\ epc = "systems" /\ Total < MaxMods
  /\ ppc[p] = "idle"
  /\ IF HasRoom
     THEN /\ Send(Len(queued) + 1)
          /\ queued' = Append(queued, P)
          /\ UNCHANGED producers
     ELSE /\ ppc' = [ppc EXCEPT ![p] = "full"]
          /\ holds' = [holds EXCEPT ![p] = P]
          /\ UNCHANGED <<queued, chan>>
  /\ UNCHANGED <<sendTo, recvFrom, flags, main, actor>>

\* buffer_filled.store(true)
MarkFilled(p) ==
  /\ ppc[p] = "full"
  /\ ppc' = [ppc EXCEPT ![p] = "send"]
  /\ filled' = TRUE
  /\ UNCHANGED <<queued, channels, complete, token, holds, main, actor>>

\* send waits for room
BlockingSend(p) ==
  /\ ppc[p] = "send" /\ HasRoom
  /\ Send(Len(queued) + 1)
  /\ queued' = Append(queued, holds[p])
  /\ ppc' = [ppc EXCEPT ![p] = "idle"]
  /\ holds' = [holds EXCEPT ![p] = {}]
  /\ UNCHANGED <<sendTo, recvFrom, flags, main, actor>>

-----------------------------------------------------------------------------
(* execute                                                                 *)

MainGoto(from, to) == epc = from /\ epc' = to

\* The &mut: nobody is inside queue_modifier
CallExecute ==
  /\ rounds < MaxRounds
  /\ \A p \in Producers : ppc[p] = "idle"
  /\ MainGoto("systems", "close")
  /\ rounds' = rounds + 1
  /\ UNCHANGED <<queued, channels, flags, producers, actor>>

\* send(Close(current())) waits for room
SendClose ==
  /\ MainGoto("close", "check")
  /\ HasRoom
  /\ Send(Close)
  /\ UNCHANGED <<queued, sendTo, recvFrom, flags, producers, rounds, actor>>

\* while !modification_complete.load() ...
CheckComplete ==
  /\ MainGoto("check", IF complete THEN "reset" ELSE "park")
  /\ UNCHANGED <<queued, channels, flags, producers, rounds, actor>>

\* ... park(), which returns when the token is there and takes it
Park ==
  /\ MainGoto("park", "check")
  /\ token
  /\ token' = FALSE
  /\ UNCHANGED <<queued, channels, filled, complete, producers, rounds, actor>>

\* ... or for no reason
ParkSpuriously ==
  /\ MainGoto("park", "check")
  /\ UNCHANGED <<queued, channels, flags, producers, rounds, actor>>

\* Broken variant: the flag is left set
ForgetReset ==
  /\ MainGoto("reset", IF filled THEN "resize" ELSE "systems")
  /\ UNCHANGED <<queued, channels, flags, producers, rounds, actor>>

\* modification_complete.store(false), and has the buffer been full?
ResetComplete ==
  /\ MainGoto("reset", IF filled THEN "resize" ELSE "systems")
  /\ complete' = FALSE
  /\ UNCHANGED <<queued, channels, filled, token, producers, rounds, actor>>

\* Send Resize with the new channel's receiver and keep its sender
SendResize ==
  /\ MainGoto("resize", "systems")
  /\ HasRoom
  /\ Send(Resize)
  /\ sendTo' = sendTo + 1
  /\ filled' = FALSE
  /\ UNCHANGED <<queued, recvFrom, complete, token, producers, rounds, actor>>

Main ==
  \/ SendClose \/ CheckComplete \/ Park \/ ResetComplete \/ SendResize

-----------------------------------------------------------------------------
(* The actor                                                               *)

\* The first stage that has none of the components, or a new one
FirstFit(P) ==
  LET fits == {i \in 1 .. Len(stages) : P \cap stages[i].ptrs = {}} IN
  IF fits = {} THEN Len(stages) + 1
  ELSE CHOOSE i \in fits : \A j \in fits : i <= j

\* The modifier n joins the stage
Staged(n, i) ==
  IF i > Len(stages)
  THEN Append(stages, [ptrs |-> queued[n], mods |-> {n}])
  ELSE [stages EXCEPT ![i] = [ptrs |-> @.ptrs \cup queued[n], mods |-> @.mods \cup {n}]]

\* mod_recv.recv() and what becomes of the message
Receive ==
  LET msg == Head(chan[recvFrom]) IN
  /\ apc = "recv" /\ chan[recvFrom] # << >>
  /\ chan' = [chan EXCEPT ![recvFrom] = Tail(@)]
  /\ CASE msg = Resize ->
            recvFrom' = recvFrom + 1 /\ UNCHANGED <<apc, stages, stage>>
       [] msg = Close ->
            apc' = "open" /\ stage' = 1 /\ UNCHANGED <<recvFrom, stages>>
       [] OTHER ->
            stages' = Staged(msg, FirstFit(queued[msg])) /\ UNCHANGED <<recvFrom, apc, stage>>
  /\ UNCHANGED <<queued, sendTo, flags, producers, main, running, done>>

\* stages.iter_mut().for_each: clear the stage's pointers, or, after the last
\* stage, modification_complete.store(true)
OpenStage ==
  /\ apc = "open"
  /\ IF stage <= Len(stages)
     THEN /\ stages' = [stages EXCEPT ![stage].ptrs = {}]
          /\ apc' = "drain"
          /\ UNCHANGED complete
     ELSE /\ complete' = TRUE
          /\ apc' = "unpark"
          /\ UNCHANGED stages
  /\ UNCHANGED <<queued, channels, filled, token, producers, main, stage, running, done>>

\* par_drain: any modifier of the stage starts ...
StartModifier(n) ==
  /\ apc = "drain" /\ n \in stages[stage].mods
  /\ stages' = [stages EXCEPT ![stage].mods = @ \ {n}]
  /\ running' = running \cup {n}
  /\ UNCHANGED <<queued, channels, flags, producers, main, apc, stage, done>>

\* ... and returns
FinishModifier(n) ==
  /\ n \in running
  /\ running' = running \ {n}
  /\ done' = done \cup {n}
  /\ UNCHANGED <<queued, channels, flags, producers, main, apc, stages, stage>>

\* Broken variant: the next stage starts before this one is over
NextStageEarly ==
  /\ apc = "drain" /\ stages[stage].mods = {}
  /\ apc' = "open"
  /\ stage' = stage + 1
  /\ UNCHANGED <<queued, channels, flags, producers, main, stages, running, done>>

\* par_drain's for_each returns when they all have
NextStage ==
  /\ apc = "drain" /\ stages[stage].mods = {} /\ running = {}
  /\ apc' = "open"
  /\ stage' = stage + 1
  /\ UNCHANGED <<queued, channels, flags, producers, main, stages, running, done>>

\* Broken variant: the thread that waits is not woken
ForgetUnpark ==
  /\ apc = "unpark" /\ apc' = "recv"
  /\ UNCHANGED <<queued, channels, flags, producers, main, stages, stage, running, done>>

\* thr.unpark()
Unpark ==
  /\ apc = "unpark" /\ apc' = "recv"
  /\ token' = TRUE
  /\ UNCHANGED <<queued, channels, filled, complete, producers, main, stages, stage,
                 running, done>>

Actor ==
  \/ Receive \/ OpenStage
  \/ \E n \in Modifiers : StartModifier(n) \/ FinishModifier(n)
  \/ NextStage \/ Unpark

-----------------------------------------------------------------------------
Next ==
  \/ \E p \in Producers :
       \/ \E P \in Targets : TrySend(p, P)
       \/ MarkFilled(p) \/ BlockingSend(p)
  \/ CallExecute
  \/ Main \/ ParkSpuriously
  \/ Actor

Spec == Init /\ [][Next]_vars

-----------------------------------------------------------------------------
(* Properties                                                              *)

Messages == Modifiers \cup {Close, Resize}

\* The shape of the state
TypeOK ==
  /\ queued \in Seq(Targets) /\ Len(queued) <= MaxMods
  /\ \A g \in 0 .. MaxRounds :
       /\ Len(chan[g]) <= Capacity(g)
       /\ \A i \in 1 .. Len(chan[g]) : chan[g][i] \in Messages
  /\ sendTo \in 0 .. MaxRounds
  /\ recvFrom \in 0 .. sendTo
  /\ filled \in BOOLEAN /\ complete \in BOOLEAN /\ token \in BOOLEAN
  /\ ppc \in [Producers -> {"idle", "full", "send"}]
  /\ holds \in [Producers -> Targets \cup {{}}]
  /\ epc \in {"systems", "close", "check", "park", "reset", "resize"}
  /\ rounds \in 0 .. MaxRounds
  /\ apc \in {"recv", "open", "drain", "unpark"}
  /\ \A i \in 1 .. Len(stages) : stages[i].mods \subseteq Modifiers
  /\ stage \in 0 .. Len(stages) + 1
  /\ running \subseteq Modifiers /\ done \subseteq Modifiers

\* The stager keeps the promise of ModifierQueue
Promise == INSTANCE ModifierQueue WITH executing <- (epc # "systems")

RefinesModifierQueue == Promise!Spec
=============================================================================
