----------------- MODULE MultiComponentModifierStagerProofs -----------------
(***************************************************************************)
(* What MultiComponentModifierStager does for any producers, targets and   *)
(* sizes: modifiers that run together have no component in common, and     *)
(* they run only while execute does; and it keeps the promise of           *)
(* ModifierQueue if no target is empty.                                    *)
(*                                                                         *)
(* The argument for the first has two halves.  The actor: a stage's        *)
(* pointers cover the components of its modifiers until the stage is       *)
(* opened, so what is put into one stage is disjoint, and only the         *)
(* modifiers of the open stage run.  The handshake: Close is sent last,    *)
(* and nothing is sent behind it, so the actor has no second one to find;  *)
(* a Close on its way, an actor that runs stages and a complete flag that  *)
(* is set exclude each other, and all of them mean that execute has not    *)
(* returned.                                                               *)
(*                                                                         *)
(* The argument for the promise: each modifier is in a channel, in one     *)
(* stage, running or done.  The channels, taken from the one the actor     *)
(* reads to the one that is sent to, hold modifiers in the order of their  *)
(* arrival, and all that left them before; so a modifier is staged after   *)
(* the earlier ones.  It cannot fit where they do not: a stage that turned *)
(* one away has kept what it turned it away for.  Close is behind all      *)
(* modifiers and the actor goes through all stages, so all are done when   *)
(* execute returns.                                                        *)
(***************************************************************************)
EXTENDS MultiComponentModifierStager, SequenceTheorems, WellFoundedInduction, TLAPS

Sets == Targets \cup {{}}
Stage == [ptrs : SUBSET UNION Targets, mods : SUBSET Nat]
Channels == 0 .. MaxRounds

\* The shape of the state, as far as the argument needs it
Shape ==
  /\ queued \in Seq(Sets)
  /\ chan \in [Channels -> Seq(Int)]
  /\ sendTo \in Nat /\ recvFrom \in 0 .. sendTo /\ rounds \in 0 .. MaxRounds
  /\ sendTo <= rounds /\ (epc # "systems" => sendTo < rounds)
  /\ ppc \in [Producers -> {"idle", "full", "send"}]
  /\ holds \in [Producers -> Sets]
  /\ epc \in {"systems", "close", "check", "park", "reset", "resize"}
  /\ apc \in {"recv", "open", "drain", "unpark"}
  /\ stages \in Seq(Stage)
  /\ stage \in Nat
  /\ running \subseteq Modifiers

\* What is in the channels; Close is the last message sent
ChannelInv ==
  \A g \in Channels : \A i \in 1 .. Len(chan[g]) :
    /\ chan[g][i] \in Modifiers \cup {Close, Resize}
    /\ chan[g][i] = Resize => g < sendTo
    /\ chan[g][i] = Close =>
         /\ g = sendTo /\ i = Len(chan[g])
         /\ epc \in {"check", "park"} /\ ~complete /\ apc \in {"recv", "unpark"}

HandshakeInv ==
  /\ complete \in BOOLEAN
  /\ apc \in {"open", "drain"} => epc \in {"check", "park"} /\ ~complete
  /\ complete => epc \in {"check", "park", "reset"}
  /\ epc = "reset" => complete
  /\ epc # "systems" => \A p \in Producers : ppc[p] = "idle"

Disjoint(S) == \A m, n \in S : m # n => queued[m] \cap queued[n] = {}

StagesInv ==
  /\ \A i \in 1 .. Len(stages) :
       /\ stages[i].mods \subseteq Modifiers
       /\ Disjoint(stages[i].mods)
       /\ \/ \A n \in stages[i].mods : queued[n] \subseteq stages[i].ptrs
          \/ apc = "drain" /\ i = stage
  /\ apc = "open" => stage > 0
  /\ apc = "drain" => stage \in 1 .. Len(stages) /\ Disjoint(running \cup stages[stage].mods)
  /\ running # {} => apc = "drain"

IInv == Shape /\ ChannelInv /\ HandshakeInv /\ StagesInv

-----------------------------------------------------------------------------
(* Each step keeps it                                                      *)

LEMMA InitEstablishes == ASSUME Init PROVE IInv
<1>1. << >> \in Seq(Sets) /\ << >> \in Seq(Int) /\ << >> \in Seq(Stage) /\ Len(<< >>) = 0
  BY EmptySeq
<1>2. Shape
  BY <1>1, BoundsAssumption DEF Init, Shape, Channels, Sets
<1>3. ChannelInv
  BY <1>1 DEF Init, ChannelInv, Channels
<1>4. HandshakeInv
  BY DEF Init, HandshakeInv
<1>5. StagesInv
  BY <1>1 DEF Init, StagesInv
<1>6. QED  BY <1>2, <1>3, <1>4, <1>5 DEF IInv

\* What sending msg does to the channels
LEMMA SendIs ==
  ASSUME IInv, NEW msg \in Int, Send(msg)
  PROVE  /\ chan' \in [Channels -> Seq(Int)]
         /\ \A g \in Channels : g # sendTo => chan'[g] = chan[g]
         /\ Len(chan'[sendTo]) = Len(chan[sendTo]) + 1 /\ Len(chan[sendTo]) \in Nat
         /\ chan'[sendTo][Len(chan[sendTo]) + 1] = msg
         /\ \A i \in 1 .. Len(chan[sendTo]) : chan'[sendTo][i] = chan[sendTo][i]
<1>1. sendTo \in Channels
  BY BoundsAssumption DEF IInv, Shape, Channels
<1>2. chan[sendTo] \in Seq(Int)
  BY <1>1 DEF IInv, Shape
<1>3. chan' = [chan EXCEPT ![sendTo] = Append(chan[sendTo], msg)]
  BY DEF Send
<1>4. chan'[sendTo] = Append(chan[sendTo], msg)
  BY <1>1, <1>3 DEF IInv, Shape
<1>5. Append(chan[sendTo], msg) \in Seq(Int)
  BY <1>2, AppendProperties
<1>6. chan' \in [Channels -> Seq(Int)]
  BY <1>1, <1>3, <1>5 DEF IInv, Shape
<1>7. \A g \in Channels : g # sendTo => chan'[g] = chan[g]
  BY <1>1, <1>3 DEF IInv, Shape
<1>8. QED  BY <1>2, <1>4, <1>6, <1>7, AppendProperties

\* A modifier enters a channel
LEMMA ModifierSent ==
  ASSUME IInv, NEW P \in Sets, epc = "systems",
         Send(Len(queued) + 1), queued' = Append(queued, P),
         UNCHANGED <<sendTo, recvFrom, flags, main, actor>>,
         ppc' \in [Producers -> {"idle", "full", "send"}],
         holds' \in [Producers -> Sets]
  PROVE  IInv'
<1> DEFINE k == Len(queued) + 1
<1>1. /\ queued \in Seq(Sets) /\ queued' \in Seq(Sets)
      /\ Len(queued) \in Nat /\ Len(queued') = k
      /\ \A n \in Modifiers : queued'[n] = queued[n]
  BY AppendProperties DEF IInv, Shape, Modifiers
<1>2. Modifiers' = Modifiers \cup {k} /\ k \in Int /\ k > 0
  BY <1>1 DEF Modifiers
<1>3. UNCHANGED <<sendTo, recvFrom, complete, epc, rounds, apc, stages, stage, running>>
  BY DEF flags, main, actor
<1>4. Shape'
  BY <1>1, <1>2, <1>3, SendIs DEF IInv, Shape
<1>5. ChannelInv'
  <2> SUFFICES ASSUME NEW g \in Channels, NEW i \in 1 .. Len(chan'[g])
               PROVE  /\ chan'[g][i] \in Modifiers \cup {k, Close, Resize}
                      /\ chan'[g][i] = Resize => g < sendTo
                      /\ chan'[g][i] # Close
    BY <1>2, <1>3 DEF ChannelInv, Channels
  <2>1. CASE g # sendTo \/ i \in 1 .. Len(chan[sendTo])
    <3>1. i \in 1 .. Len(chan[g]) /\ chan'[g][i] = chan[g][i]
      BY <1>2, <2>1, SendIs
    <3>2. QED  BY <3>1 DEF IInv, ChannelInv
  <2>2. CASE g = sendTo /\ i = Len(chan[sendTo]) + 1
    BY <1>2, <2>2, SendIs DEF Close, Resize
  <2>3. QED  BY <1>2, <2>1, <2>2, SendIs
<1>6. HandshakeInv'
  BY <1>3 DEF IInv, HandshakeInv
<1>7. StagesInv'
  <2>1. \A i \in 1 .. Len(stages) : stages[i].mods \subseteq Modifiers
    BY DEF IInv, StagesInv
  <2>2. running \subseteq Modifiers
    BY DEF IInv, Shape
  <2>3. ASSUME NEW i \in 1 .. Len(stages')
        PROVE  /\ stages'[i].mods \subseteq Modifiers'
               /\ \A m, n \in stages'[i].mods : m # n => queued'[m] \cap queued'[n] = {}
               /\ \/ \A n \in stages'[i].mods : queued'[n] \subseteq stages'[i].ptrs
                  \/ apc' = "drain" /\ i = stage'
    BY <1>1, <1>2, <1>3, <2>1 DEF IInv, StagesInv, Disjoint
  <2>4. /\ apc' = "open" => stage' > 0
        /\ running' # {} => apc' = "drain"
    BY <1>3 DEF IInv, StagesInv
  <2>5. ASSUME apc' = "drain"
        PROVE  /\ stage' \in 1 .. Len(stages')
               /\ \A m, n \in running' \cup stages'[stage'].mods :
                    m # n => queued'[m] \cap queued'[n] = {}
    <3>1. stage \in 1 .. Len(stages) /\ Disjoint(running \cup stages[stage].mods)
      BY <1>3, <2>5 DEF IInv, StagesInv
    <3>2. running \cup stages[stage].mods \subseteq Modifiers
      BY <2>1, <2>2, <3>1
    <3>3. \A m, n \in running \cup stages[stage].mods :
            m # n => queued'[m] \cap queued'[n] = {}
      BY <1>1, <3>1, <3>2 DEF Disjoint
    <3>4. QED  BY <1>3, <3>1, <3>3
  <2>6. QED  BY <2>3, <2>4, <2>5 DEF StagesInv, Disjoint
<1>8. QED  BY <1>4, <1>5, <1>6, <1>7 DEF IInv

LEMMA ProducersKeep ==
  ASSUME IInv, NEW p \in Producers,
         (\E P \in Targets : TrySend(p, P)) \/ MarkFilled(p) \/ BlockingSend(p)
  PROVE  IInv'
<1>1. ASSUME NEW P \in Targets, TrySend(p, P), HasRoom
      PROVE  IInv'
  <2>1. UNCHANGED producers
    BY <1>1 DEF TrySend
  <2>2. QED  BY <1>1, <2>1, ModifierSent DEF TrySend, IInv, Shape, Sets, producers
<1>2. ASSUME BlockingSend(p)
      PROVE  IInv'
  <2>1. epc = "systems"
    BY <1>2 DEF IInv, HandshakeInv, BlockingSend
  <2>2. holds[p] \in Sets /\ {} \in Sets
    BY DEF IInv, Shape, Sets
  <2>3. ppc' \in [Producers -> {"idle", "full", "send"}] /\ holds' \in [Producers -> Sets]
    BY <1>2, <2>2 DEF IInv, Shape, BlockingSend
  <2>4. QED  BY <1>2, <2>1, <2>2, <2>3, ModifierSent DEF BlockingSend
<1>3. ASSUME \/ MarkFilled(p)
             \/ \E P \in Targets : TrySend(p, P) /\ ~HasRoom
      PROVE  IInv'
  <2>1. /\ UNCHANGED <<queued, chan, sendTo, recvFrom, complete, epc, rounds, apc, stages,
                       stage, running>>
        /\ ppc' \in [Producers -> {"idle", "full", "send"}]
        /\ holds' \in [Producers -> Sets]
        /\ epc = "systems"
    BY <1>3 DEF MarkFilled, TrySend, IInv, Shape, HandshakeInv, Sets, channels, flags,
         producers, main, actor
  <2>2. QED
    BY <2>1 DEF IInv, Shape, ChannelInv, HandshakeInv, StagesInv, Disjoint, Modifiers
<1>4. QED  BY <1>1, <1>2, <1>3

LEMMA CallKeeps ==
  ASSUME IInv, CallExecute
  PROVE  IInv'
<1>1. /\ UNCHANGED <<queued, chan, sendTo, recvFrom, complete, ppc, holds, apc, stages,
                     stage, running>>
      /\ epc = "systems" /\ epc' = "close" /\ rounds' = rounds + 1 /\ rounds < MaxRounds
      /\ \A p \in Producers : ppc[p] = "idle"
  BY DEF CallExecute, MainGoto, channels, flags, producers, actor
<1>2. QED
  BY <1>1, BoundsAssumption
  DEF IInv, Shape, ChannelInv, HandshakeInv, StagesInv, Disjoint, Modifiers

\* Close is sent behind everything else, and its like is nowhere
LEMMA SendCloseKeeps ==
  ASSUME IInv, SendClose
  PROVE  IInv'
<1>1. /\ UNCHANGED <<queued, sendTo, recvFrom, complete, ppc, holds, rounds, apc, stages,
                     stage, running>>
      /\ epc = "close" /\ epc' = "check" /\ Send(Close) /\ Close \in Int
  BY DEF SendClose, MainGoto, flags, producers, actor, Close
<1>2. ~complete /\ apc \in {"recv", "unpark"}
  BY <1>1 DEF IInv, Shape, HandshakeInv
<1>3. \A g \in Channels : \A i \in 1 .. Len(chan[g]) : chan[g][i] # Close
  BY <1>1 DEF IInv, ChannelInv
<1>4. Shape'
  BY <1>1, SendIs DEF IInv, Shape, Modifiers
<1>5. ChannelInv'
  <2> SUFFICES ASSUME NEW g \in Channels, NEW i \in 1 .. Len(chan'[g])
               PROVE  /\ chan'[g][i] \in Modifiers \cup {Close, Resize}
                      /\ chan'[g][i] = Resize => g < sendTo
                      /\ chan'[g][i] = Close => g = sendTo /\ i = Len(chan'[g])
    BY <1>1, <1>2 DEF ChannelInv, Channels, Modifiers
  <2>1. CASE g # sendTo \/ i \in 1 .. Len(chan[sendTo])
    <3>1. i \in 1 .. Len(chan[g]) /\ chan'[g][i] = chan[g][i]
      BY <1>1, <2>1, SendIs
    <3>2. QED  BY <1>3, <3>1 DEF IInv, ChannelInv
  <2>2. CASE g = sendTo /\ i = Len(chan[sendTo]) + 1
    BY <1>1, <2>2, SendIs DEF Close, Resize
  <2>3. QED  BY <1>1, <2>1, <2>2, SendIs
<1>6. HandshakeInv'
  BY <1>1 DEF IInv, HandshakeInv
<1>7. StagesInv'
  BY <1>1 DEF IInv, StagesInv, Disjoint, Modifiers
<1>8. QED  BY <1>4, <1>5, <1>6, <1>7 DEF IInv

\* The owner looks at the flag, parks, or takes the flag back
LEMMA WaitKeeps ==
  ASSUME IInv, CheckComplete \/ Park \/ ParkSpuriously \/ ResetComplete
  PROVE  IInv'
<1>1. /\ UNCHANGED <<queued, chan, sendTo, recvFrom, ppc, holds, rounds, apc, stages,
                     stage, running>>
      /\ \/ epc = "check" /\ epc' = "reset" /\ complete /\ complete' = complete
         \/ epc = "check" /\ epc' = "park" /\ complete' = complete
         \/ epc = "park" /\ epc' = "check" /\ complete' = complete
         \/ epc = "reset" /\ epc' \in {"resize", "systems"} /\ complete' = FALSE
  BY DEF CheckComplete, Park, ParkSpuriously, ResetComplete, MainGoto, channels, flags,
     producers, actor
<1>2. Shape'
  BY <1>1 DEF IInv, Shape, Modifiers
<1>3. HandshakeInv'
  <2>1. CASE epc = "check" /\ epc' = "reset" /\ complete /\ complete' = complete
    BY <1>1, <2>1 DEF IInv, HandshakeInv
  <2>2. CASE epc \in {"check", "park"} /\ epc' \in {"check", "park"} /\ complete' = complete
    BY <1>1, <2>2 DEF IInv, HandshakeInv
  <2>3. CASE epc = "reset" /\ epc' \in {"resize", "systems"} /\ complete' = FALSE
    BY <1>1, <2>3 DEF IInv, HandshakeInv
  <2>4. QED  BY <1>1, <2>1, <2>2, <2>3
<1>4. ChannelInv'
  BY <1>1 DEF IInv, ChannelInv, HandshakeInv, Modifiers
<1>5. StagesInv'
  BY <1>1 DEF IInv, StagesInv, Disjoint, Modifiers
<1>6. QED  BY <1>2, <1>3, <1>4, <1>5 DEF IInv

LEMMA SendResizeKeeps ==
  ASSUME IInv, SendResize
  PROVE  IInv'
<1>1. /\ UNCHANGED <<queued, recvFrom, complete, ppc, holds, rounds, apc, stages,
                     stage, running>>
      /\ epc = "resize" /\ epc' = "systems" /\ Send(Resize) /\ Resize \in Int
      /\ sendTo' = sendTo + 1
  BY DEF SendResize, MainGoto, producers, actor, Resize
<1>2. ~complete /\ apc \in {"recv", "unpark"}
  BY <1>1 DEF IInv, Shape, HandshakeInv
<1>3. \A g \in Channels : \A i \in 1 .. Len(chan[g]) : chan[g][i] # Close
  BY <1>1 DEF IInv, ChannelInv
<1>4. Shape'
  BY <1>1, SendIs DEF IInv, Shape, Modifiers
<1>5. ChannelInv'
  <2> SUFFICES ASSUME NEW g \in Channels, NEW i \in 1 .. Len(chan'[g])
               PROVE  /\ chan'[g][i] \in Modifiers \cup {Close, Resize}
                      /\ chan'[g][i] = Resize => g < sendTo + 1
                      /\ chan'[g][i] # Close
    BY <1>1, <1>2 DEF ChannelInv, Channels, Modifiers
  <2>1. CASE g # sendTo \/ i \in 1 .. Len(chan[sendTo])
    <3>1. i \in 1 .. Len(chan[g]) /\ chan'[g][i] = chan[g][i]
      BY <1>1, <2>1, SendIs
    <3>2. g \in Int /\ sendTo \in Int
      BY BoundsAssumption DEF IInv, Shape, Channels
    <3>3. QED  BY <1>3, <3>1, <3>2 DEF IInv, ChannelInv
  <2>2. CASE g = sendTo /\ i = Len(chan[sendTo]) + 1
    BY <1>1, <2>2, SendIs DEF Close, Resize, IInv, Shape
  <2>3. QED  BY <1>1, <2>1, <2>2, SendIs
<1>6. HandshakeInv'
  BY <1>1 DEF IInv, HandshakeInv
<1>7. StagesInv'
  BY <1>1 DEF IInv, StagesInv, Disjoint, Modifiers
<1>8. QED  BY <1>4, <1>5, <1>6, <1>7 DEF IInv

-----------------------------------------------------------------------------
(* The actor                                                               *)

\* Messages of other channels, and those behind the first
LEMMA ReceiveIs ==
  ASSUME IInv, Receive
  PROVE  LET msg == Head(chan[recvFrom]) IN
         /\ recvFrom \in Channels /\ msg \in Modifiers \cup {Close, Resize}
         /\ msg = Resize => recvFrom < sendTo
         /\ msg = Close =>
              /\ epc \in {"check", "park"} /\ ~complete
              /\ \A g \in Channels : \A i \in 1 .. Len(chan'[g]) : chan'[g][i] # Close
         /\ chan' \in [Channels -> Seq(Int)]
         /\ \A g \in Channels : \A i \in 1 .. Len(chan'[g]) :
              LET j == IF g = recvFrom THEN i + 1 ELSE i IN
              /\ j \in 1 .. Len(chan[g]) /\ chan'[g][i] = chan[g][j]
              /\ j = Len(chan[g]) => i = Len(chan'[g])
<1> DEFINE s == chan[recvFrom]
           j(g, i) == IF g = recvFrom THEN i + 1 ELSE i
<1>1. recvFrom \in Channels
  BY BoundsAssumption DEF IInv, Shape, Channels
<1>2. /\ s \in Seq(Int) /\ s # << >> /\ Len(s) \in Nat \ {0} /\ Head(s) = s[1]
      /\ Tail(s) \in Seq(Int) /\ Len(Tail(s)) = Len(s) - 1
      /\ \A i \in 1 .. Len(s) - 1 : Tail(s)[i] = s[i + 1]
  BY <1>1, HeadTailProperties, EmptySeq DEF IInv, Shape, Receive
<1>3. chan' = [chan EXCEPT ![recvFrom] = Tail(s)]
  BY DEF Receive
<1>4. chan' \in [Channels -> Seq(Int)] /\ chan'[recvFrom] = Tail(s)
      /\ \A g \in Channels : g # recvFrom => chan'[g] = chan[g]
  BY <1>1, <1>2, <1>3 DEF IInv, Shape
<1>5. 1 \in 1 .. Len(s)
  BY <1>2
<1>6. Head(s) \in Modifiers \cup {Close, Resize} /\ (Head(s) = Resize => recvFrom < sendTo)
  BY <1>1, <1>2, <1>5 DEF IInv, ChannelInv
<1>7. ASSUME NEW g \in Channels, NEW i \in 1 .. Len(chan'[g])
      PROVE  /\ j(g, i) \in 1 .. Len(chan[g]) /\ chan'[g][i] = chan[g][j(g, i)]
             /\ j(g, i) = Len(chan[g]) => i = Len(chan'[g])
  <2>1. CASE g = recvFrom
    <3>1. chan'[g] = Tail(s) /\ i \in 1 .. Len(Tail(s))
      BY <1>4, <2>1
    <3>2. i \in 1 .. Len(s) - 1 /\ i + 1 \in 1 .. Len(s)
      BY <1>2, <3>1
    <3>3. QED  BY <1>2, <2>1, <3>1, <3>2
  <2>2. CASE g # recvFrom
    BY <1>4, <1>7, <2>2
  <2>3. QED  BY <2>1, <2>2
<1>8. ASSUME Head(s) = Close
      PROVE  /\ epc \in {"check", "park"} /\ ~complete
             /\ \A g \in Channels : \A i \in 1 .. Len(chan'[g]) : chan'[g][i] # Close
  <2>1. recvFrom = sendTo /\ Len(s) = 1 /\ epc \in {"check", "park"} /\ ~complete
    BY <1>1, <1>2, <1>5, <1>8 DEF IInv, ChannelInv
  <2>2. ASSUME NEW g \in Channels, NEW i \in 1 .. Len(chan'[g]), chan'[g][i] = Close
        PROVE  FALSE
    <3>1. chan[g][j(g, i)] = Close /\ j(g, i) \in 1 .. Len(chan[g])
      BY <1>7, <2>2
    <3>2. g = recvFrom
      BY <2>1, <3>1 DEF IInv, ChannelInv
    <3>3. i \in 1 .. Len(Tail(s)) /\ Len(Tail(s)) = 0
      BY <1>2, <1>4, <2>1, <3>2
    <3>4. 1 .. 0 = {}
      OBVIOUS
    <3>5. QED  BY <3>3, <3>4
  <2>3. QED  BY <2>1, <2>2
<1>9. QED  BY <1>1, <1>4, <1>6, <1>7, <1>8

\* Resize and Close change where the actor reads and what it does
LEMMA ControlKeeps ==
  ASSUME IInv, Receive, Head(chan[recvFrom]) \in {Close, Resize}
  PROVE  IInv'
<1>1. /\ UNCHANGED <<queued, sendTo, complete, ppc, holds, epc, rounds, stages, running>>
      /\ apc = "recv"
      /\ \/ /\ Head(chan[recvFrom]) = Resize
            /\ recvFrom' = recvFrom + 1 /\ UNCHANGED <<apc, stage>>
         \/ /\ Head(chan[recvFrom]) = Close
            /\ apc' = "open" /\ stage' = 1 /\ recvFrom' = recvFrom
  BY DEF Receive, Close, Resize, flags, producers, main
<1>2. Shape'
  BY <1>1, ReceiveIs DEF IInv, Shape, Modifiers
<1>3. HandshakeInv'
  BY <1>1, ReceiveIs DEF IInv, HandshakeInv
<1>4. ChannelInv'
  <2> SUFFICES ASSUME NEW g \in Channels, NEW i \in 1 .. Len(chan'[g])
               PROVE  /\ chan'[g][i] \in Modifiers \cup {Close, Resize}
                      /\ chan'[g][i] = Resize => g < sendTo
                      /\ chan'[g][i] = Close =>
                           /\ g = sendTo /\ i = Len(chan'[g])
                           /\ epc \in {"check", "park"} /\ ~complete
                           /\ apc' \in {"recv", "unpark"}
    BY <1>1 DEF ChannelInv, Channels, Modifiers
  <2>1. PICK j \in 1 .. Len(chan[g]) :
          chan'[g][i] = chan[g][j] /\ (j = Len(chan[g]) => i = Len(chan'[g]))
    BY ReceiveIs
  <2>2. QED  BY <1>1, <2>1, ReceiveIs DEF IInv, ChannelInv
<1>5. StagesInv'
  BY <1>1 DEF IInv, StagesInv, Disjoint, Modifiers
<1>6. QED  BY <1>2, <1>3, <1>4, <1>5 DEF IInv

\* A set of natural numbers has a smallest element, unless it is empty
LEMMA SmallestOf ==
  ASSUME NEW T, T \subseteq Nat, T # {}
  PROVE  \E i \in T : \A j \in T : i <= j
<1> DEFINE R == {p \in Nat \X Nat : p[1] < p[2]}
<1>1. IsWellFoundedOn(R, Nat)
  BY NatLessThanWellFounded DEF OpToRel
<1>2. ASSUME NEW i \in T, NEW j \in T, <<j, i>> \notin R
      PROVE  i <= j
  <2>1. <<j, i>> \in Nat \X Nat
    OBVIOUS
  <2>2. ~ (j < i)
    BY <1>2, <2>1
  <2>3. i \in Nat /\ j \in Nat
    OBVIOUS
  <2>4. QED  BY <2>2, <2>3
<1> HIDE DEF R
<1>3. \E i \in T : \A j \in T : ~ (<<j, i>> \in R)
  BY <1>1, WFMin, Zenon
<1>4. QED  BY <1>2, <1>3

\* The stage that FirstFit finds has none of the components, and those before
\* it have
LEMMA FirstFits ==
  ASSUME NEW P, Len(stages) \in Nat
  PROVE  /\ \/ FirstFit(P) = Len(stages) + 1
            \/ FirstFit(P) \in 1 .. Len(stages) /\ P \cap stages[FirstFit(P)].ptrs = {}
         /\ \A j \in 1 .. Len(stages) : j < FirstFit(P) => P \cap stages[j].ptrs # {}
<1> DEFINE fits == {i \in 1 .. Len(stages) : P \cap stages[i].ptrs = {}}
<1>1. CASE fits = {}
  BY <1>1 DEF FirstFit
<1>2. CASE fits # {}
  <2> DEFINE i == FirstFit(P)
  <2>1. fits \subseteq Nat
    OBVIOUS
  <2>2. \E j \in fits : \A m \in fits : j <= m
    BY <1>2, <2>1, SmallestOf
  <2>3. i = CHOOSE j \in fits : \A m \in fits : j <= m
    BY <1>2 DEF FirstFit
  <2>4. i \in fits /\ \A m \in fits : i <= m
    BY <2>2, <2>3
  <2> HIDE DEF i
  <2>5. ASSUME NEW j \in 1 .. Len(stages), j < i
        PROVE  P \cap stages[j].ptrs # {}
    BY <2>1, <2>4, <2>5
  <2>6. QED  BY <2>4, <2>5 DEF i
<1>3. QED  BY <1>1, <1>2

\* Modifier n is put into stage k
LEMMA StagedIs ==
  ASSUME stages \in Seq(Stage), NEW n \in Nat, queued[n] \subseteq UNION Targets,
         NEW k \in 1 .. Len(stages) + 1
  PROVE  /\ Staged(n, k) \in Seq(Stage)
         /\ k \in 1 .. Len(Staged(n, k))
         /\ \A i \in 1 .. Len(stages) : i \in 1 .. Len(Staged(n, k))
         /\ \A i \in 1 .. Len(Staged(n, k)) :
              \/ i \in 1 .. Len(stages) /\ i # k /\ Staged(n, k)[i] = stages[i]
              \/ /\ i \in 1 .. Len(stages) /\ i = k
                 /\ Staged(n, k)[i].ptrs = stages[i].ptrs \cup queued[n]
                 /\ Staged(n, k)[i].mods = stages[i].mods \cup {n}
              \/ /\ i = Len(stages) + 1 /\ i = k
                 /\ Staged(n, k)[i].ptrs = queued[n] /\ Staged(n, k)[i].mods = {n}
<1>1. Len(stages) \in Nat /\ \A i \in 1 .. Len(stages) : stages[i] \in Stage
  OBVIOUS
<1>2. CASE k = Len(stages) + 1
  <2> DEFINE new == [ptrs |-> queued[n], mods |-> {n}]
  <2>1. new \in Stage
    BY DEF Stage
  <2>2. Staged(n, k) = Append(stages, new)
    BY <1>1, <1>2 DEF Staged
  <2> HIDE DEF new
  <2>3. /\ Staged(n, k) \in Seq(Stage) /\ Len(Staged(n, k)) = Len(stages) + 1
        /\ Staged(n, k)[Len(stages) + 1] = new
        /\ \A i \in 1 .. Len(stages) : Staged(n, k)[i] = stages[i]
    BY <2>1, <2>2, AppendProperties
  <2>4. new.ptrs = queued[n] /\ new.mods = {n}
    BY DEF new
  <2>5. QED  BY <1>1, <1>2, <2>3, <2>4
<1>3. CASE k \in 1 .. Len(stages)
  <2> DEFINE new == [ptrs |-> stages[k].ptrs \cup queued[n], mods |-> stages[k].mods \cup {n}]
  <2>1. new \in Stage
    BY <1>1, <1>3 DEF Stage
  <2>2. Staged(n, k) = [stages EXCEPT ![k] = new]
    BY <1>1, <1>3 DEF Staged
  <2>3. new.ptrs = stages[k].ptrs \cup queued[n] /\ new.mods = stages[k].mods \cup {n}
    OBVIOUS
  <2> HIDE DEF new
  <2>4. /\ Staged(n, k) \in Seq(Stage) /\ Len(Staged(n, k)) = Len(stages)
        /\ Staged(n, k)[k] = new
        /\ \A i \in 1 .. Len(stages) : i # k => Staged(n, k)[i] = stages[i]
    BY <1>3, <2>1, <2>2
  <2>5. QED  BY <1>3, <2>3, <2>4
<1>4. QED  BY <1>1, <1>2, <1>3

\* What joins a stage has no component in common with what the stage's pointers
\* cover
LEMMA ModifierKeeps ==
  ASSUME IInv, Receive, Head(chan[recvFrom]) \in Modifiers
  PROVE  IInv'
<1> DEFINE n == Head(chan[recvFrom])
           k == FirstFit(queued[n])
<1>1. Len(queued) \in Nat /\ n \in Nat /\ n # Close /\ n # Resize /\ queued[n] \in Sets
  BY DEF IInv, Shape, Modifiers, Close, Resize
<1>2. /\ UNCHANGED <<queued, sendTo, recvFrom, complete, ppc, holds, epc, rounds, apc,
                     stage, running>>
      /\ apc = "recv" /\ stages' = Staged(n, k)
  BY <1>1 DEF Receive, flags, producers, main
<1>3. queued[n] \subseteq UNION Targets
  BY <1>1 DEF Sets
<1>4. Len(stages) \in Nat /\ stages \in Seq(Stage)
  BY DEF IInv, Shape
<1>5. \/ k = Len(stages) + 1
      \/ k \in 1 .. Len(stages) /\ queued[n] \cap stages[k].ptrs = {}
  BY <1>4, FirstFits
<1>6. k \in 1 .. Len(stages) + 1
  BY <1>4, <1>5
<1> HIDE DEF n, k
<1>7. /\ stages' \in Seq(Stage)
      /\ \A i \in 1 .. Len(stages') :
           \/ i \in 1 .. Len(stages) /\ i # k /\ stages'[i] = stages[i]
           \/ /\ i \in 1 .. Len(stages) /\ i = k
              /\ stages'[i].ptrs = stages[i].ptrs \cup queued[n]
              /\ stages'[i].mods = stages[i].mods \cup {n}
           \/ i = k /\ stages'[i].ptrs = queued[n] /\ stages'[i].mods = {n}
  <2>1. n \in Nat /\ queued[n] \subseteq UNION Targets /\ k \in 1 .. Len(stages) + 1
    BY <1>1, <1>3, <1>6 DEF n, k
  <2>2. /\ Staged(n, k) \in Seq(Stage)
        /\ \A i \in 1 .. Len(Staged(n, k)) :
             \/ i \in 1 .. Len(stages) /\ i # k /\ Staged(n, k)[i] = stages[i]
             \/ /\ i \in 1 .. Len(stages) /\ i = k
                /\ Staged(n, k)[i].ptrs = stages[i].ptrs \cup queued[n]
                /\ Staged(n, k)[i].mods = stages[i].mods \cup {n}
             \/ i = k /\ Staged(n, k)[i].ptrs = queued[n] /\ Staged(n, k)[i].mods = {n}
    BY <1>4, <2>1, StagedIs
  <2>3. stages' = Staged(n, k)
    BY <1>2 DEF n, k
  <2>4. QED  BY <2>2, <2>3
<1>8. \A i \in 1 .. Len(stages) :
        /\ stages[i].mods \subseteq Modifiers
        /\ \A m, o \in stages[i].mods : m # o => queued[m] \cap queued[o] = {}
        /\ \A m \in stages[i].mods : queued[m] \subseteq stages[i].ptrs
  BY <1>2 DEF IInv, StagesInv, Disjoint
<1>9. StagesInv'
  <2>1. n \in Modifiers
    BY DEF n
  <2>2. ASSUME NEW i \in 1 .. Len(stages')
        PROVE  /\ stages'[i].mods \subseteq Modifiers
               /\ \A m, o \in stages'[i].mods : m # o => queued[m] \cap queued[o] = {}
               /\ \A m \in stages'[i].mods : queued[m] \subseteq stages'[i].ptrs
    <3>1. CASE i \in 1 .. Len(stages) /\ i # k /\ stages'[i] = stages[i]
      BY <1>8, <3>1
    <3>2. CASE /\ i \in 1 .. Len(stages) /\ i = k
               /\ stages'[i].ptrs = stages[i].ptrs \cup queued[n]
               /\ stages'[i].mods = stages[i].mods \cup {n}
      <4>1. queued[n] \cap stages[i].ptrs = {}
        BY <1>4, <1>5, <3>2
      <4>2. \A m \in stages[i].mods : queued[m] \cap queued[n] = {}
        BY <1>8, <3>2, <4>1
      <4>3. QED  BY <1>8, <2>1, <3>2, <4>2
    <3>3. CASE i = k /\ stages'[i].ptrs = queued[n] /\ stages'[i].mods = {n}
      BY <2>1, <3>3
    <3>4. QED  BY <1>7, <3>1, <3>2, <3>3
  <2>3. running = {}
    BY <1>2 DEF IInv, StagesInv
  <2>4. QED  BY <1>2, <2>2, <2>3 DEF StagesInv, Disjoint, Modifiers
<1>10. Shape'
  BY <1>2, <1>7, ReceiveIs DEF IInv, Shape, Modifiers
<1>11. HandshakeInv'
  BY <1>2 DEF IInv, HandshakeInv
<1>12. ChannelInv'
  <2> SUFFICES ASSUME NEW g \in Channels, NEW i \in 1 .. Len(chan'[g])
               PROVE  /\ chan'[g][i] \in Modifiers \cup {Close, Resize}
                      /\ chan'[g][i] = Resize => g < sendTo
                      /\ chan'[g][i] = Close =>
                           /\ g = sendTo /\ i = Len(chan'[g])
                           /\ epc \in {"check", "park"} /\ ~complete
    BY <1>2 DEF ChannelInv, Channels, Modifiers
  <2>1. PICK j \in 1 .. Len(chan[g]) :
          chan'[g][i] = chan[g][j] /\ (j = Len(chan[g]) => i = Len(chan'[g]))
    BY ReceiveIs
  <2>2. QED  BY <2>1 DEF IInv, ChannelInv
<1>13. QED  BY <1>9, <1>10, <1>11, <1>12 DEF IInv

\* A stage is opened, or the last one is over
LEMMA OpenKeeps ==
  ASSUME IInv, OpenStage
  PROVE  IInv'
<1>1. /\ UNCHANGED <<queued, chan, sendTo, recvFrom, ppc, holds, epc, rounds, stage, running>>
      /\ apc = "open" /\ running = {} /\ stage \in Nat \ {0} /\ epc \in {"check", "park"}
      /\ ~complete
      /\ Len(stages) \in Nat /\ \A i \in 1 .. Len(stages) : stages[i] \in Stage
  BY DEF OpenStage, channels, producers, main, IInv, Shape, HandshakeInv, StagesInv
<1>2. \A g \in Channels : \A i \in 1 .. Len(chan[g]) : chan[g][i] # Close
  BY <1>1 DEF IInv, ChannelInv
<1>3. CASE stage <= Len(stages)
  <2> DEFINE new == [ptrs |-> {}, mods |-> stages[stage].mods]
  <2>1. /\ stage \in 1 .. Len(stages) /\ apc' = "drain" /\ complete' = complete
        /\ stages' = [stages EXCEPT ![stage] = new]
    BY <1>1, <1>3 DEF OpenStage, Stage
  <2>2. new \in Stage /\ new.mods = stages[stage].mods
    BY <1>1, <2>1 DEF Stage
  <2> HIDE DEF new
  <2>3. /\ stages' \in Seq(Stage) /\ Len(stages') = Len(stages)
        /\ stages'[stage] = new
        /\ \A i \in 1 .. Len(stages) : i # stage => stages'[i] = stages[i]
    BY <2>1, <2>2 DEF IInv, Shape
  <2>4. Shape'
    BY <1>1, <2>1, <2>3 DEF IInv, Shape, Modifiers
  <2>5. HandshakeInv' /\ ChannelInv'
    BY <1>1, <1>2, <2>1 DEF IInv, HandshakeInv, ChannelInv, Modifiers
  <2>6. \A i \in 1 .. Len(stages) : stages'[i].mods = stages[i].mods
    BY <2>2, <2>3
  <2>7. StagesInv'
    BY <1>1, <2>1, <2>3, <2>6 DEF IInv, StagesInv, Disjoint, Modifiers
  <2>8. QED  BY <2>4, <2>5, <2>7 DEF IInv
<1>4. CASE stage > Len(stages)
  <2>1. apc' = "unpark" /\ complete' = TRUE /\ stages' = stages
    BY <1>1, <1>4 DEF OpenStage
  <2>2. Shape' /\ HandshakeInv' /\ ChannelInv'
    BY <1>1, <1>2, <2>1 DEF IInv, Shape, HandshakeInv, ChannelInv, Modifiers
  <2>3. StagesInv'
    BY <1>1, <2>1 DEF IInv, StagesInv, Disjoint, Modifiers
  <2>4. QED  BY <2>2, <2>3 DEF IInv
<1>5. QED  BY <1>1, <1>3, <1>4

\* The modifiers that run are of the open stage
LEMMA StartKeeps ==
  ASSUME IInv, NEW n \in Modifiers, StartModifier(n)
  PROVE  IInv'
<1>1. /\ UNCHANGED <<queued, chan, sendTo, recvFrom, complete, ppc, holds, epc, rounds, apc,
                     stage>>
      /\ apc = "drain" /\ stage \in 1 .. Len(stages) /\ n \in stages[stage].mods
      /\ running' = running \cup {n}
      /\ Len(stages) \in Nat /\ \A i \in 1 .. Len(stages) : stages[i] \in Stage
  BY DEF StartModifier, channels, flags, producers, main, IInv, Shape, StagesInv
<1> DEFINE new == [ptrs |-> stages[stage].ptrs, mods |-> stages[stage].mods \ {n}]
<1>2. stages' = [stages EXCEPT ![stage] = new]
  <2>1. stages[stage] \in Stage
    BY <1>1
  <2>2. [stages[stage] EXCEPT !.mods = stages[stage].mods \ {n}] = new
    BY <2>1 DEF Stage
  <2>3. stages' = [stages EXCEPT ![stage] = [stages[stage] EXCEPT !.mods = stages[stage].mods \ {n}]]
    BY DEF StartModifier
  <2>4. QED  BY <2>2, <2>3
<1>3. new \in Stage /\ new.mods = stages[stage].mods \ {n}
  BY <1>1 DEF Stage
<1> HIDE DEF new
<1>4. /\ stages' \in Seq(Stage) /\ Len(stages') = Len(stages)
      /\ stages'[stage] = new
      /\ \A i \in 1 .. Len(stages) : i # stage => stages'[i] = stages[i]
  BY <1>1, <1>2, <1>3 DEF IInv, Shape
<1>5. Shape'
  BY <1>1, <1>4 DEF IInv, Shape, Modifiers
<1>6. HandshakeInv' /\ ChannelInv'
  BY <1>1 DEF IInv, HandshakeInv, ChannelInv, Modifiers
<1>7. \A i \in 1 .. Len(stages) :
        stages'[i].mods = IF i = stage THEN stages[i].mods \ {n} ELSE stages[i].mods
  BY <1>3, <1>4
<1>8. running' \cup stages'[stage].mods = running \cup stages[stage].mods
  BY <1>1, <1>7
<1>9. StagesInv'
  BY <1>1, <1>4, <1>7, <1>8 DEF IInv, StagesInv, Disjoint, Modifiers
<1>10. QED  BY <1>5, <1>6, <1>9 DEF IInv

LEMMA RestKeeps ==
  ASSUME IInv,
         (\E n \in Modifiers : FinishModifier(n)) \/ NextStage \/ Unpark \/ UNCHANGED vars
  PROVE  IInv'
<1>1. ASSUME NEW n \in Modifiers, FinishModifier(n)
      PROVE  IInv'
  <2>1. /\ UNCHANGED <<queued, chan, sendTo, recvFrom, complete, ppc, holds, epc, rounds, apc,
                       stages, stage>>
        /\ running' = running \ {n}
    BY <1>1 DEF FinishModifier, channels, flags, producers, main
  <2>2. Shape' /\ HandshakeInv' /\ ChannelInv'
    BY <2>1 DEF IInv, Shape, HandshakeInv, ChannelInv, Modifiers
  <2>3. apc = "drain"
    BY <1>1 DEF IInv, StagesInv, FinishModifier
  <2>4. /\ stage \in 1 .. Len(stages)
        /\ \A m, o \in running' \cup stages[stage].mods : m # o => queued[m] \cap queued[o] = {}
    BY <2>1, <2>3 DEF IInv, StagesInv, Disjoint
  <2>5. StagesInv'
    BY <2>1, <2>3, <2>4 DEF IInv, StagesInv, Disjoint, Modifiers
  <2>6. QED  BY <2>2, <2>5 DEF IInv
<1>2. CASE NextStage
  <2>1. /\ UNCHANGED <<queued, chan, sendTo, recvFrom, complete, ppc, holds, epc, rounds,
                       stages, running>>
        /\ apc = "drain" /\ apc' = "open" /\ stage' = stage + 1
        /\ running = {} /\ stages[stage].mods = {}
    BY <1>2 DEF NextStage, channels, flags, producers, main
  <2>2. Shape' /\ HandshakeInv' /\ ChannelInv'
    BY <2>1 DEF IInv, Shape, HandshakeInv, ChannelInv, Modifiers
  <2>3. \A i \in 1 .. Len(stages) :
          /\ stages[i].mods \subseteq Modifiers
          /\ Disjoint(stages[i].mods)
          /\ \A n \in stages[i].mods : queued[n] \subseteq stages[i].ptrs
    BY <2>1 DEF IInv, StagesInv
  <2>4. stage' > 0
    BY <2>1 DEF IInv, Shape
  <2>5. StagesInv'
    BY <2>1, <2>3, <2>4 DEF StagesInv, Disjoint, Modifiers
  <2>6. QED  BY <2>2, <2>5 DEF IInv
<1>3. CASE Unpark
  <2>1. /\ UNCHANGED <<queued, chan, sendTo, recvFrom, complete, ppc, holds, epc, rounds,
                       stages, stage, running>>
        /\ apc = "unpark" /\ apc' = "recv"
    BY <1>3 DEF Unpark, channels, producers, main
  <2>2. Shape' /\ HandshakeInv' /\ ChannelInv'
    BY <2>1 DEF IInv, Shape, HandshakeInv, ChannelInv, Modifiers
  <2>3. StagesInv'
    BY <2>1 DEF IInv, StagesInv, Disjoint, Modifiers
  <2>4. QED  BY <2>2, <2>3 DEF IInv
<1>4. CASE UNCHANGED vars
  BY <1>4 DEF IInv, Shape, ChannelInv, HandshakeInv, StagesInv, Disjoint, Modifiers, vars,
     channels, flags, producers, main, actor
<1>5. QED  BY <1>1, <1>2, <1>3, <1>4

LEMMA NextKeeps == IInv /\ [Next]_vars => IInv'
<1> SUFFICES ASSUME IInv, [Next]_vars PROVE IInv'
  OBVIOUS
<1>1. CASE Main \/ ParkSpuriously
  BY <1>1, SendCloseKeeps, WaitKeeps, SendResizeKeeps DEF Main
<1>2. CASE Receive
  BY <1>2, ReceiveIs, ControlKeeps, ModifierKeeps
<1>3. CASE Actor
  BY <1>2, <1>3, OpenKeeps, StartKeeps, RestKeeps DEF Actor
<1>4. CASE \E p \in Producers :
             (\E P \in Targets : TrySend(p, P)) \/ MarkFilled(p) \/ BlockingSend(p)
  BY <1>4, ProducersKeep
<1>5. QED
  BY <1>1, <1>3, <1>4, CallKeeps, RestKeeps DEF Next

\* Modifiers that run together have no component in common
LEMMA RunningDisjoint == IInv => Disjoint(running)
BY DEF IInv, StagesInv, Disjoint

\* Modifiers run only while execute does
LEMMA RunningInExecute == IInv => (running # {} => epc # "systems")
BY DEF IInv, StagesInv, HandshakeInv

\* The promise that neither a modifier of the same components runs beside another
\* nor one beside the systems, whatever is queued when
THEOREM NoAliasing ==
  Spec => [](Disjoint(running) /\ (running # {} => epc # "systems"))
<1>1. Init => IInv
  BY InitEstablishes
<1>2. IInv => Disjoint(running) /\ (running # {} => epc # "systems")
  BY RunningDisjoint, RunningInExecute
<1>3. QED  BY <1>1, <1>2, NextKeeps, PTL DEF Spec

-----------------------------------------------------------------------------
(* The promise of ModifierQueue                                            *)

\* Modifiers are in the channels in the order of their arrival, and there are
\* none before the channel that is read and none behind the one sent to
OrderInv ==
  /\ \A g, h \in Channels : \A i \in 1 .. Len(chan[g]), j \in 1 .. Len(chan[h]) :
       /\ chan[g][i] \in Modifiers /\ chan[h][j] \in Modifiers
       /\ g < h \/ (g = h /\ i < j)
       => chan[g][i] < chan[h][j]
  /\ \A g \in Channels : \A i \in 1 .. Len(chan[g]) :
       /\ chan[g][i] \in Modifiers => recvFrom <= g /\ g <= sendTo
       /\ chan[g][i] = Resize => i = Len(chan[g])

\* The modifiers in the channels, and those in the stages
Sent == {n \in Modifiers : \E g \in Channels : \E i \in 1 .. Len(chan[g]) : chan[g][i] = n}
InStages == {n \in Modifiers : \E i \in 1 .. Len(stages) : n \in stages[i].mods}

PlaceInv ==
  /\ done \subseteq Modifiers /\ running \cap done = {}
  /\ Modifiers \subseteq Sent \cup InStages \cup running \cup done
  /\ \A n \in Sent : \A m \in InStages \cup running \cup done : m < n
  /\ \A i, j \in 1 .. Len(stages) : \A n \in stages[i].mods :
       n \notin running \cup done /\ (n \in stages[j].mods => i = j)

\* A modifier is in a later stage than the earlier ones it has to wait for
StageOrderInv ==
  /\ \A i, j \in 1 .. Len(stages) : \A m \in stages[i].mods, n \in stages[j].mods :
       m < n /\ queued[m] \subseteq queued[n] => i < j
  /\ apc = "recv" =>
       \A i, j \in 1 .. Len(stages) : \A n \in stages[i].mods :
         j < i => queued[n] \cap stages[j].ptrs # {}
  /\ apc \in {"open", "drain"} =>
       \A i \in 1 .. Len(stages) : i < stage => stages[i].mods = {}
  /\ apc = "unpark" => InStages = {}

RoundInv ==
  /\ apc \in {"open", "drain"} => Sent = {}
  /\ complete \/ epc = "resize" => Modifiers \subseteq done

TargetsInv ==
  /\ queued \in Seq(Targets)
  /\ \A p \in Producers : ppc[p] # "idle" => holds[p] \in Targets

RInv == IInv /\ OrderInv /\ PlaceInv /\ StageOrderInv /\ RoundInv /\ TargetsInv

-----------------------------------------------------------------------------
(* The channels                                                            *)

NewModifier == Len(queued) + 1

LEMMA Numbers ==
  ASSUME IInv
  PROVE  /\ Modifiers \subseteq Nat \ {0} /\ NewModifier \in Nat /\ NewModifier \notin Modifiers
         /\ \A n \in Modifiers : n < NewModifier
         /\ Close \notin Modifiers /\ Resize \notin Modifiers /\ Close # Resize
         /\ Close \in Int /\ Resize \in Int
         /\ Close # NewModifier /\ Resize # NewModifier
         /\ Channels \subseteq Nat
         /\ sendTo \in Channels /\ recvFrom \in Channels /\ recvFrom <= sendTo
         /\ \A g \in Channels : chan[g] \in Seq(Int) /\ Len(chan[g]) \in Nat
<1>1. Len(queued) \in Nat
  BY DEF IInv, Shape
<1>2. sendTo \in Channels /\ recvFrom \in Channels /\ recvFrom <= sendTo
  BY BoundsAssumption DEF IInv, Shape, Channels
<1>3. \A g \in Channels : chan[g] \in Seq(Int)
  BY DEF IInv, Shape
<1>4. QED
  BY <1>1, <1>2, <1>3, BoundsAssumption DEF Modifiers, NewModifier, Close, Resize, Channels

\* A message is one of before, or the new one at the end
LEMMA SendPlaces ==
  ASSUME IInv, NEW msg \in Int, Send(msg)
  PROVE  /\ \A g \in Channels : \A i \in 1 .. Len(chan'[g]) :
              \/ i \in 1 .. Len(chan[g]) /\ chan'[g][i] = chan[g][i]
              \/ g = sendTo /\ i = Len(chan[g]) + 1 /\ i = Len(chan'[g]) /\ chan'[g][i] = msg
         /\ \A g \in Channels : \A i \in 1 .. Len(chan[g]) :
              i \in 1 .. Len(chan'[g]) /\ chan'[g][i] = chan[g][i]
         /\ \A g \in Channels : g # sendTo => Len(chan'[g]) = Len(chan[g])
         /\ \E i \in 1 .. Len(chan'[sendTo]) : chan'[sendTo][i] = msg
<1>1. /\ \A g \in Channels : g # sendTo => chan'[g] = chan[g]
      /\ Len(chan'[sendTo]) = Len(chan[sendTo]) + 1 /\ Len(chan[sendTo]) \in Nat
      /\ chan'[sendTo][Len(chan[sendTo]) + 1] = msg
      /\ \A i \in 1 .. Len(chan[sendTo]) : chan'[sendTo][i] = chan[sendTo][i]
  BY SendIs
<1>2. ASSUME NEW k \in Nat, NEW i \in 1 .. k + 1
      PROVE  i \in 1 .. k \/ i = k + 1
  OBVIOUS
<1>3. ASSUME NEW g \in Channels, NEW i \in 1 .. Len(chan'[g])
      PROVE  \/ i \in 1 .. Len(chan[g]) /\ chan'[g][i] = chan[g][i]
             \/ g = sendTo /\ i = Len(chan[g]) + 1 /\ i = Len(chan'[g]) /\ chan'[g][i] = msg
  <2>1. CASE g # sendTo
    BY <1>1, <2>1
  <2>2. CASE g = sendTo
    <3>1. i \in 1 .. Len(chan[sendTo]) + 1
      BY <1>1, <2>2
    <3>2. i \in 1 .. Len(chan[sendTo]) \/ i = Len(chan[sendTo]) + 1
      BY <1>1, <1>2, <3>1
    <3>3. QED  BY <1>1, <2>2, <3>2
  <2>3. QED  BY <2>1, <2>2
<1>4. ASSUME NEW g \in Channels, NEW i \in 1 .. Len(chan[g])
      PROVE  i \in 1 .. Len(chan'[g]) /\ chan'[g][i] = chan[g][i]
  <2>1. CASE g # sendTo
    BY <1>1, <2>1
  <2>2. CASE g = sendTo
    BY <1>1, <2>2
  <2>3. QED  BY <2>1, <2>2
<1>5. Len(chan[sendTo]) + 1 \in 1 .. Len(chan'[sendTo])
  BY <1>1
<1>6. QED  BY <1>1, <1>3, <1>4, <1>5

\* What is sent goes behind all that has been
LEMMA SendOrder ==
  ASSUME IInv, OrderInv, NEW msg \in Int, Send(msg),
         \/ msg = NewModifier /\ Modifiers' = Modifiers \cup {msg}
         \/ msg \in {Close, Resize} /\ Modifiers' = Modifiers,
         recvFrom' = recvFrom, sendTo' = sendTo \/ sendTo' = sendTo + 1
  PROVE  OrderInv'
<1> DEFINE Old(g, i) == i \in 1 .. Len(chan[g]) /\ chan'[g][i] = chan[g][i]
           New(g, i) == g = sendTo /\ i = Len(chan[g]) + 1 /\ i = Len(chan'[g]) /\ chan'[g][i] = msg
<1>1. ASSUME NEW g \in Channels, NEW i \in 1 .. Len(chan'[g])
      PROVE  Old(g, i) \/ New(g, i)
  BY SendPlaces
<1>2. ASSUME NEW g \in Channels, NEW i \in 1 .. Len(chan'[g]), Old(g, i),
             chan'[g][i] \in Modifiers'
      PROVE  /\ chan[g][i] \in Modifiers
             /\ recvFrom <= g /\ g <= sendTo /\ chan[g][i] < NewModifier
  <2>1. chan[g][i] \in Modifiers \cup {Close, Resize}
    BY <1>2 DEF IInv, ChannelInv
  <2>2. chan[g][i] \in Modifiers
    BY <1>2, <2>1, Numbers
  <2>3. QED  BY <1>2, <2>2, Numbers DEF OrderInv
<1>3. ASSUME NEW g \in Channels, NEW h \in Channels,
             NEW i \in 1 .. Len(chan'[g]), NEW j \in 1 .. Len(chan'[h]),
             chan'[g][i] \in Modifiers', chan'[h][j] \in Modifiers',
             g < h \/ (g = h /\ i < j)
      PROVE  chan'[g][i] < chan'[h][j]
  <2>1. CASE Old(g, i) /\ Old(h, j)
    BY <1>2, <1>3, <2>1 DEF OrderInv
  <2>2. CASE Old(g, i) /\ New(h, j)
    <3>1. msg = NewModifier
      BY <1>3, <2>2, Numbers
    <3>2. QED  BY <1>2, <1>3, <2>2, <3>1
  <2>3. CASE New(g, i) /\ Old(h, j)
    <3>1. h <= sendTo
      BY <1>2, <1>3, <2>3
    <3>2. h = g
      BY <1>3, <2>3, <3>1, Numbers
    <3>3. QED  BY <1>3, <2>3, <3>2, Numbers
  <2>4. CASE New(g, i) /\ New(h, j)
    BY <1>3, <2>4, Numbers
  <2>5. QED  BY <1>1, <2>1, <2>2, <2>3, <2>4
<1>4. ASSUME NEW g \in Channels, NEW i \in 1 .. Len(chan'[g])
      PROVE  /\ chan'[g][i] \in Modifiers' => recvFrom <= g /\ g <= sendTo
             /\ chan'[g][i] = Resize => i = Len(chan'[g])
  <2>1. CASE Old(g, i)
    <3>1. chan'[g][i] = Resize => g < sendTo /\ i = Len(chan[g])
      BY <2>1 DEF IInv, ChannelInv, OrderInv
    <3>2. ASSUME g < sendTo
          PROVE  Len(chan'[g]) = Len(chan[g])
      <4>1. g # sendTo
        BY <3>2, Numbers
      <4>2. QED  BY <4>1, SendPlaces
    <3>3. QED  BY <1>2, <2>1, <3>1, <3>2
  <2>2. CASE New(g, i)
    BY <2>2, Numbers
  <2>3. QED  BY <1>1, <2>1, <2>2
<1>5. sendTo <= sendTo'
  BY Numbers
<1>6. \A g \in Channels : g <= sendTo => g <= sendTo'
  BY <1>5, Numbers
<1>7. QED  BY <1>3, <1>4, <1>6 DEF OrderInv, Channels

\* The modifiers in the channels after something is sent
LEMMA SendSent ==
  ASSUME IInv, NEW msg \in Int, Send(msg)
  PROVE  /\ Modifiers' = Modifiers \cup {NewModifier} /\ msg = NewModifier
              => Sent' = Sent \cup {NewModifier}
         /\ Modifiers' = Modifiers /\ msg \in {Close, Resize} => Sent' = Sent
<1>1. ASSUME NEW n
      PROVE  (\E g \in Channels : \E i \in 1 .. Len(chan'[g]) : chan'[g][i] = n)
               <=> \/ n = msg
                   \/ \E g \in Channels : \E i \in 1 .. Len(chan[g]) : chan[g][i] = n
  <2>1. ASSUME NEW g \in Channels, NEW i \in 1 .. Len(chan'[g]), chan'[g][i] = n, n # msg
        PROVE  \E j \in 1 .. Len(chan[g]) : chan[g][j] = n
    <3>1. i \in 1 .. Len(chan[g]) /\ chan'[g][i] = chan[g][i]
      BY <2>1, SendPlaces
    <3>2. QED  BY <2>1, <3>1
  <2>2. ASSUME NEW g \in Channels, NEW i \in 1 .. Len(chan[g]), chan[g][i] = n
        PROVE  \E j \in 1 .. Len(chan'[g]) : chan'[g][j] = n
    <3>1. i \in 1 .. Len(chan'[g]) /\ chan'[g][i] = chan[g][i]
      BY SendPlaces
    <3>2. QED  BY <2>2, <3>1
  <2>3. n = msg => \E j \in 1 .. Len(chan'[sendTo]) : chan'[sendTo][j] = n
    BY SendPlaces
  <2>4. sendTo \in Channels
    BY Numbers
  <2>5. QED  BY <2>1, <2>2, <2>3, <2>4
<1>2. ASSUME NEW g \in Channels, NEW i \in 1 .. Len(chan[g])
      PROVE  chan[g][i] \in Modifiers \cup {Close, Resize}
  BY DEF IInv, ChannelInv
<1>3. Sent' = {n \in Modifiers' : \E g \in Channels : \E i \in 1 .. Len(chan'[g]) : chan'[g][i] = n}
  BY DEF Sent, Channels
<1>4. ASSUME Modifiers' = Modifiers \cup {NewModifier}, msg = NewModifier
      PROVE  Sent' = Sent \cup {NewModifier}
  BY <1>1, <1>2, <1>3, <1>4, Numbers DEF Sent
<1>5. ASSUME Modifiers' = Modifiers, msg \in {Close, Resize}
      PROVE  Sent' = Sent
  <2>1. \A n \in Modifiers : n # msg
    BY <1>5, Numbers
  <2>2. QED  BY <1>1, <1>3, <1>5, <2>1 DEF Sent
<1>6. QED  BY <1>4, <1>5

\* The first message is taken
LEMMA ReceiveTail ==
  ASSUME IInv, Receive
  PROVE  /\ Len(chan[recvFrom]) \in Nat \ {0} /\ Head(chan[recvFrom]) = chan[recvFrom][1]
         /\ \A g \in Channels : g # recvFrom => chan'[g] = chan[g]
         /\ Len(chan'[recvFrom]) = Len(chan[recvFrom]) - 1
         /\ \A i \in 1 .. Len(chan[recvFrom]) - 1 : chan'[recvFrom][i] = chan[recvFrom][i + 1]
<1> DEFINE s == chan[recvFrom]
<1>1. recvFrom \in Channels /\ s \in Seq(Int)
  BY Numbers
<1>2. chan' = [chan EXCEPT ![recvFrom] = Tail(s)] /\ s # << >>
  BY DEF Receive
<1>3. /\ Len(s) \in Nat \ {0} /\ Head(s) = s[1]
      /\ Tail(s) \in Seq(Int) /\ Len(Tail(s)) = Len(s) - 1
      /\ \A i \in 1 .. Len(s) - 1 : Tail(s)[i] = s[i + 1]
  BY <1>1, <1>2, HeadTailProperties, EmptySeq
<1>4. chan'[recvFrom] = Tail(s) /\ \A g \in Channels : g # recvFrom => chan'[g] = chan[g]
  BY <1>1, <1>2 DEF IInv, Shape
<1>5. QED  BY <1>3, <1>4

\* Where a message was that is left in a channel
Before(g, i) == IF g = recvFrom THEN i + 1 ELSE i

LEMMA ReceivePlaces ==
  ASSUME IInv, Receive, NEW g \in Channels, NEW i \in 1 .. Len(chan'[g])
  PROVE  /\ Before(g, i) \in 1 .. Len(chan[g]) /\ chan'[g][i] = chan[g][Before(g, i)]
         /\ Before(g, i) = Len(chan[g]) => i = Len(chan'[g])
<1>1. CASE g = recvFrom
  <2>1. i \in 1 .. Len(chan[g]) - 1 /\ Len(chan[g]) \in Nat
    BY <1>1, ReceiveTail
  <2>2. i + 1 \in 1 .. Len(chan[g]) /\ i \in Int
    BY <2>1
  <2>3. QED  BY <1>1, <2>1, <2>2, ReceiveTail DEF Before
<1>2. CASE g # recvFrom
  BY <1>2, ReceiveTail DEF Before
<1>3. QED  BY <1>1, <1>2

\* The first message is the oldest, and the others stay in order
LEMMA ReceiveOrder ==
  ASSUME IInv, OrderInv, Receive, Modifiers' = Modifiers, sendTo' = sendTo,
         \/ recvFrom' = recvFrom
         \/ recvFrom' = recvFrom + 1 /\ Head(chan[recvFrom]) = Resize
  PROVE  OrderInv'
<1>1. ASSUME NEW g \in Channels, NEW i \in 1 .. Len(chan'[g])
      PROVE  /\ Before(g, i) \in 1 .. Len(chan[g]) /\ chan'[g][i] = chan[g][Before(g, i)]
             /\ Before(g, i) = Len(chan[g]) => i = Len(chan'[g])
             /\ i \in Int
  BY ReceivePlaces
<1>2. ASSUME NEW g \in Channels, NEW h \in Channels,
             NEW i \in 1 .. Len(chan'[g]), NEW j \in 1 .. Len(chan'[h]),
             chan'[g][i] \in Modifiers, chan'[h][j] \in Modifiers,
             g < h \/ (g = h /\ i < j)
      PROVE  chan'[g][i] < chan'[h][j]
  <2>1. g < h \/ (g = h /\ Before(g, i) < Before(h, j))
    BY <1>1, <1>2 DEF Before
  <2>2. QED  BY <1>1, <1>2, <2>1 DEF OrderInv
<1>3. ASSUME NEW g \in Channels, NEW i \in 1 .. Len(chan'[g])
      PROVE  /\ chan'[g][i] \in Modifiers => recvFrom' <= g /\ g <= sendTo
             /\ chan'[g][i] = Resize => i = Len(chan'[g])
  <2>1. /\ chan'[g][i] \in Modifiers => recvFrom <= g /\ g <= sendTo
        /\ chan'[g][i] = Resize => i = Len(chan'[g])
    BY <1>1 DEF OrderInv
  <2>2. CASE recvFrom' = recvFrom
    BY <2>1, <2>2
  <2>3. CASE recvFrom' = recvFrom + 1 /\ Head(chan[recvFrom]) = Resize
    <3>1. 1 = Len(chan[recvFrom])
      <4>1. 1 \in 1 .. Len(chan[recvFrom]) /\ chan[recvFrom][1] = Resize
        BY <2>3, ReceiveTail
      <4>2. QED  BY <4>1, Numbers DEF OrderInv
    <3>2. g # recvFrom
      <4>1. Len(chan'[recvFrom]) = 0
        BY <3>1, ReceiveTail
      <4>2. 1 .. 0 = {}
        OBVIOUS
      <4>3. QED  BY <4>1, <4>2
    <3>3. recvFrom <= g => recvFrom + 1 <= g
      BY <3>2, Numbers
    <3>4. QED  BY <2>1, <2>3, <3>3
  <2>4. QED  BY <2>2, <2>3
<1>4. QED  BY <1>2, <1>3 DEF OrderInv, Channels, Modifiers

\* The modifiers in the channels after a message is taken
LEMMA ReceiveSent ==
  ASSUME IInv, OrderInv, Receive, Modifiers' = Modifiers
  PROVE  LET msg == Head(chan[recvFrom]) IN
         /\ Sent' = Sent \ {msg}
         /\ msg \in Modifiers => msg \in Sent /\ \A n \in Sent' : msg < n
         /\ msg = Close => Sent' = {}
<1> DEFINE msg == Head(chan[recvFrom])
<1>1. /\ recvFrom \in Channels /\ 1 \in 1 .. Len(chan[recvFrom]) /\ chan[recvFrom][1] = msg
  BY ReceiveTail, Numbers
<1>2. Sent' = {n \in Modifiers : \E g \in Channels : \E i \in 1 .. Len(chan'[g]) : chan'[g][i] = n}
  BY DEF Sent, Channels
<1>3. msg \in Modifiers => msg \in Sent
  BY <1>1 DEF Sent
<1>4. ASSUME NEW g \in Channels, NEW i \in 1 .. Len(chan'[g]), chan'[g][i] \in Modifiers
      PROVE  /\ chan'[g][i] \in Sent /\ recvFrom <= g /\ g <= sendTo
             /\ recvFrom < g \/ (recvFrom = g /\ 1 < Before(g, i))
             /\ Before(g, i) \in 1 .. Len(chan[g]) /\ chan'[g][i] = chan[g][Before(g, i)]
  <2>1. Before(g, i) \in 1 .. Len(chan[g]) /\ chan'[g][i] = chan[g][Before(g, i)]
    BY ReceivePlaces
  <2>2. chan'[g][i] \in Sent /\ recvFrom <= g /\ g <= sendTo
    BY <1>4, <2>1 DEF Sent, OrderInv
  <2>3. recvFrom < g \/ (recvFrom = g /\ 1 < Before(g, i))
    BY <2>1, <2>2, Numbers DEF Before
  <2>4. QED  BY <2>1, <2>2, <2>3
<1>5. ASSUME msg \in Modifiers, NEW n \in Sent'
      PROVE  msg < n
  <2>0. PICK g \in Channels : \E i \in 1 .. Len(chan'[g]) : chan'[g][i] = n
    BY <1>2
  <2>1. PICK i \in 1 .. Len(chan'[g]) : chan'[g][i] = n
    BY <2>0
  <2>2. n \in Modifiers
    BY <1>2
  <2>3. QED  BY <1>1, <1>4, <1>5, <2>1, <2>2 DEF OrderInv
<1>6. ASSUME NEW n \in Sent, n # msg
      PROVE  n \in Sent'
  <2>0. PICK g \in Channels : \E i \in 1 .. Len(chan[g]) : chan[g][i] = n
    BY DEF Sent
  <2>1. PICK i \in 1 .. Len(chan[g]) : chan[g][i] = n
    BY <2>0
  <2>2. n \in Modifiers
    BY DEF Sent
  <2>3. CASE g # recvFrom
    BY <1>2, <2>1, <2>2, <2>3, ReceiveTail
  <2>4. CASE g = recvFrom
    <3>1. i # 1
      BY <1>1, <1>6, <2>1, <2>4
    <3>2. i - 1 \in 1 .. Len(chan[recvFrom]) - 1 /\ (i - 1) + 1 = i
      BY <2>1, <2>4, <3>1, ReceiveTail
    <3>3. i - 1 \in 1 .. Len(chan'[recvFrom]) /\ chan'[recvFrom][i - 1] = n
      BY <2>1, <2>4, <3>2, ReceiveTail
    <3>4. QED  BY <1>1, <1>2, <2>2, <3>3
  <2>5. QED  BY <2>3, <2>4
<1>7. ASSUME NEW n \in Sent'
      PROVE  n \in Sent /\ n # msg
  <2>0. PICK g \in Channels : \E i \in 1 .. Len(chan'[g]) : chan'[g][i] = n
    BY <1>2
  <2>1. PICK i \in 1 .. Len(chan'[g]) : chan'[g][i] = n
    BY <2>0
  <2>2. n \in Modifiers /\ n \in Int
    BY <1>2, Numbers
  <2>3. n = msg => msg < n
    BY <1>5, <2>2
  <2>4. QED  BY <1>4, <2>1, <2>2, <2>3
<1>8. ASSUME msg = Close
      PROVE  Sent' = {}
  <2>1. recvFrom = sendTo /\ Len(chan[recvFrom]) = 1
    BY <1>1, <1>8 DEF IInv, ChannelInv
  <2>2. Len(chan'[recvFrom]) = 0 /\ 1 .. 0 = {}
    BY <2>1, ReceiveTail
  <2>3. ASSUME NEW n \in Sent'
        PROVE  FALSE
    <3>0. PICK g \in Channels : \E i \in 1 .. Len(chan'[g]) : chan'[g][i] = n
      BY <1>2
    <3>1. PICK i \in 1 .. Len(chan'[g]) : chan'[g][i] = n
      BY <3>0
    <3>2. n \in Modifiers
      BY <1>2
    <3>3. g = recvFrom
      BY <1>4, <2>1, <3>1, <3>2, Numbers
    <3>4. QED  BY <2>2, <3>1, <3>3
  <2>4. QED  BY <2>3
<1>9. Sent' = Sent \ {msg}
  BY <1>6, <1>7
<1>10. QED  BY <1>3, <1>5, <1>8, <1>9

-----------------------------------------------------------------------------
(* Steps that leave the stages alone                                       *)

LEMMA Staging ==
  ASSUME IInv
  PROVE  /\ \A i \in 1 .. Len(stages) : stages[i].mods \subseteq Modifiers
         /\ running \subseteq Modifiers
         /\ Len(stages) \in Nat
BY DEF IInv, Shape, StagesInv

\* A modifier enters a channel
LEMMA Arrives ==
  ASSUME RInv, NEW P \in Targets, epc = "systems",
         Send(NewModifier), queued' = Append(queued, P),
         UNCHANGED <<sendTo, recvFrom, flags, main, actor>>,
         \A p \in Producers : ppc'[p] # "idle" => holds'[p] \in Targets
  PROVE  OrderInv' /\ PlaceInv' /\ StageOrderInv' /\ RoundInv' /\ TargetsInv'
<1>1. /\ queued' \in Seq(Targets) /\ Len(queued') = NewModifier
      /\ \A n \in Modifiers : queued'[n] = queued[n]
  BY AppendProperties DEF RInv, TargetsInv, Modifiers, NewModifier
<1>2. Modifiers' = Modifiers \cup {NewModifier}
  BY <1>1, Numbers DEF RInv, Modifiers, NewModifier
<1>3. UNCHANGED <<sendTo, recvFrom, complete, epc, apc, stages, stage, running, done>>
  BY DEF flags, main, actor
<1>4. NewModifier \in Int /\ IInv /\ OrderInv
  BY Numbers DEF RInv
<1>5. OrderInv' /\ Sent' = Sent \cup {NewModifier}
  BY <1>2, <1>3, <1>4, SendOrder, SendSent
<1>6. InStages' = InStages
  BY <1>2, <1>3, <1>4, Staging, Numbers DEF InStages
<1>7. PlaceInv'
  <2>1. InStages \subseteq Modifiers /\ running \subseteq Modifiers /\ done \subseteq Modifiers
    BY <1>4, Staging DEF InStages, RInv, PlaceInv
  <2>2. \A m \in InStages \cup running \cup done : m < NewModifier
    BY <1>4, <2>1, Numbers
  <2>3. QED  BY <1>2, <1>3, <1>5, <1>6, <2>2 DEF RInv, PlaceInv
<1>8. StageOrderInv'
  <2>1. \A i \in 1 .. Len(stages) : \A n \in stages[i].mods : queued'[n] = queued[n]
    BY <1>1, <1>4, Staging
  <2>2. ASSUME NEW i \in 1 .. Len(stages'), NEW j \in 1 .. Len(stages'),
               NEW m \in stages'[i].mods, NEW n \in stages'[j].mods,
               m < n, queued'[m] \subseteq queued'[n]
        PROVE  i < j
    BY <1>3, <2>1, <2>2 DEF RInv, StageOrderInv
  <2>3. ASSUME apc' = "recv", NEW i \in 1 .. Len(stages'), NEW j \in 1 .. Len(stages'),
               NEW n \in stages'[i].mods, j < i
        PROVE  queued'[n] \cap stages'[j].ptrs # {}
    BY <1>3, <2>1, <2>3 DEF RInv, StageOrderInv
  <2>4. ASSUME apc' \in {"open", "drain"}, NEW i \in 1 .. Len(stages'), i < stage'
        PROVE  stages'[i].mods = {}
    BY <1>3, <2>4 DEF RInv, StageOrderInv
  <2>5. apc' = "unpark" => InStages' = {}
    BY <1>3, <1>6 DEF RInv, StageOrderInv
  <2>6. QED  BY <2>2, <2>3, <2>4, <2>5 DEF StageOrderInv
<1>9. RoundInv'
  BY <1>3, <1>4 DEF IInv, HandshakeInv, RoundInv
<1>10. TargetsInv'
  BY <1>1 DEF TargetsInv
<1>11. QED  BY <1>5, <1>7, <1>8, <1>9, <1>10

LEMMA ProducersOrder ==
  ASSUME RInv, NEW p \in Producers,
         (\E P \in Targets : TrySend(p, P)) \/ MarkFilled(p) \/ BlockingSend(p)
  PROVE  OrderInv' /\ PlaceInv' /\ StageOrderInv' /\ RoundInv' /\ TargetsInv'
<1>1. ASSUME NEW P \in Targets, TrySend(p, P), HasRoom
      PROVE  OrderInv' /\ PlaceInv' /\ StageOrderInv' /\ RoundInv' /\ TargetsInv'
  <2>1. \A q \in Producers : ppc'[q] # "idle" => holds'[q] \in Targets
    BY <1>1 DEF TrySend, producers, RInv, TargetsInv
  <2>2. QED  BY <1>1, <2>1, Arrives DEF TrySend, NewModifier
<1>2. ASSUME BlockingSend(p)
      PROVE  OrderInv' /\ PlaceInv' /\ StageOrderInv' /\ RoundInv' /\ TargetsInv'
  <2>1. holds[p] \in Targets /\ epc = "systems"
    BY <1>2 DEF BlockingSend, RInv, TargetsInv, IInv, HandshakeInv
  <2>2. \A q \in Producers : ppc'[q] # "idle" => holds'[q] \in Targets
    BY <1>2 DEF BlockingSend, RInv, TargetsInv, IInv, Shape
  <2>3. QED  BY <1>2, <2>1, <2>2, Arrives DEF BlockingSend, NewModifier
<1>3. ASSUME \/ MarkFilled(p)
             \/ \E P \in Targets : TrySend(p, P) /\ ~HasRoom
      PROVE  OrderInv' /\ PlaceInv' /\ StageOrderInv' /\ RoundInv' /\ TargetsInv'
  <2>1. /\ UNCHANGED <<queued, chan, sendTo, recvFrom, complete, epc, apc, stages, stage,
                       running, done>>
        /\ \A q \in Producers : ppc'[q] # "idle" => holds'[q] \in Targets
    BY <1>3 DEF MarkFilled, TrySend, RInv, IInv, Shape, TargetsInv, channels, flags, main, actor
  <2>2. QED
    BY <2>1 DEF RInv, OrderInv, PlaceInv, StageOrderInv, RoundInv, TargetsInv, Sent, InStages,
       Modifiers
<1>4. QED  BY <1>1, <1>2, <1>3

\* The owner's steps
LEMMA OwnerOrder ==
  ASSUME RInv, CallExecute \/ Main \/ ParkSpuriously
  PROVE  OrderInv' /\ PlaceInv' /\ StageOrderInv' /\ RoundInv' /\ TargetsInv'
<1>1. /\ UNCHANGED <<queued, recvFrom, ppc, holds, apc, stages, stage, running, done>>
      /\ Modifiers' = Modifiers /\ IInv /\ OrderInv
  BY DEF RInv, CallExecute, Main, ParkSpuriously, SendClose, CheckComplete, Park, ResetComplete,
     SendResize, channels, flags, producers, actor, Modifiers
<1>2. OrderInv' /\ Sent' = Sent
  <2>1. CASE SendClose \/ SendResize
    <3>1. PICK msg \in {Close, Resize} :
            Send(msg) /\ (sendTo' = sendTo \/ sendTo' = sendTo + 1)
      BY <2>1 DEF SendClose, SendResize
    <3>2. msg \in Int
      BY <1>1, Numbers
    <3>3. QED  BY <1>1, <3>1, <3>2, SendOrder, SendSent
  <2>2. CASE CallExecute \/ CheckComplete \/ Park \/ ResetComplete \/ ParkSpuriously
    <3>1. UNCHANGED <<chan, sendTo>>
      BY <2>2 DEF CallExecute, CheckComplete, Park, ResetComplete, ParkSpuriously, channels
    <3>2. QED  BY <1>1, <3>1 DEF OrderInv, Sent
  <2>3. QED  BY <2>1, <2>2 DEF Main
<1>3. PlaceInv' /\ StageOrderInv' /\ TargetsInv'
  BY <1>1, <1>2 DEF RInv, PlaceInv, StageOrderInv, TargetsInv, InStages
<1>4. RoundInv'
  <2>1. \/ complete' = complete /\ epc' # "resize"
        \/ complete' = FALSE /\ epc = "reset"
    BY DEF CallExecute, Main, ParkSpuriously, SendClose, CheckComplete, Park, ResetComplete,
       SendResize, MainGoto, flags
  <2>2. CASE complete' = complete /\ epc' # "resize"
    BY <1>1, <1>2, <2>2 DEF RInv, RoundInv
  <2>3. CASE complete' = FALSE /\ epc = "reset"
    BY <1>1, <1>2, <2>3 DEF RInv, RoundInv, IInv, HandshakeInv
  <2>4. QED  BY <2>1, <2>2, <2>3
<1>5. QED  BY <1>2, <1>3, <1>4

-----------------------------------------------------------------------------
(* The actor's steps                                                       *)

\* Resize and Close; behind Close there is nothing
LEMMA ControlOrder ==
  ASSUME RInv, Receive, Head(chan[recvFrom]) \in {Close, Resize}
  PROVE  OrderInv' /\ PlaceInv' /\ StageOrderInv' /\ RoundInv' /\ TargetsInv'
<1> DEFINE msg == Head(chan[recvFrom])
<1>1. /\ UNCHANGED <<queued, sendTo, complete, ppc, holds, epc, stages, running, done>>
      /\ apc = "recv" /\ Modifiers' = Modifiers /\ IInv /\ OrderInv
      /\ \/ msg = Resize /\ recvFrom' = recvFrom + 1 /\ UNCHANGED <<apc, stage>>
         \/ msg = Close /\ apc' = "open" /\ stage' = 1 /\ recvFrom' = recvFrom
  BY DEF Receive, Close, Resize, flags, producers, main, RInv, Modifiers
<1>2. OrderInv'
  BY <1>1, ReceiveOrder
<1>3. Sent' = Sent \ {msg} /\ (msg = Close => Sent' = {})
  BY <1>1, ReceiveSent
<1>4. Sent' = Sent
  <2>1. Sent \subseteq Modifiers /\ msg \notin Modifiers
    BY <1>1, Numbers DEF Sent
  <2>2. msg \notin Sent
    BY <2>1
  <2>3. QED  BY <1>3, <2>2
<1>5. PlaceInv' /\ TargetsInv'
  BY <1>1, <1>4 DEF RInv, PlaceInv, TargetsInv, InStages
<1>6. StageOrderInv'
  <2>1. \A i \in 1 .. Len(stages) : ~ (i < 1)
    OBVIOUS
  <2>2. QED  BY <1>1, <2>1 DEF RInv, StageOrderInv, InStages
<1>7. RoundInv'
  BY <1>1, <1>3 DEF RInv, RoundInv
<1>8. QED  BY <1>2, <1>5, <1>6, <1>7

\* A modifier is staged after those before it that it has to wait for
LEMMA ModifierOrder ==
  ASSUME RInv, {} \notin Targets, Receive, Head(chan[recvFrom]) \in Modifiers
  PROVE  OrderInv' /\ PlaceInv' /\ StageOrderInv' /\ RoundInv' /\ TargetsInv'
<1> DEFINE n == Head(chan[recvFrom])
           k == FirstFit(queued[n])
<1>1. IInv /\ OrderInv
  BY DEF RInv
<1>2. n \in Nat /\ n # Close /\ n # Resize /\ queued[n] \in Targets
  BY <1>1, Numbers DEF RInv, TargetsInv, Modifiers
<1>3. /\ UNCHANGED <<queued, sendTo, recvFrom, complete, ppc, holds, epc, apc, stage, running,
                     done>>
      /\ apc = "recv" /\ stages' = Staged(n, k) /\ Modifiers' = Modifiers
  BY <1>2 DEF Receive, flags, producers, main, Modifiers
<1>4. Len(stages) \in Nat /\ stages \in Seq(Stage)
  BY <1>1 DEF IInv, Shape
<1>5. /\ \/ k = Len(stages) + 1
         \/ k \in 1 .. Len(stages) /\ queued[n] \cap stages[k].ptrs = {}
      /\ \A j \in 1 .. Len(stages) : j < k => queued[n] \cap stages[j].ptrs # {}
  BY <1>4, FirstFits
<1>6. k \in 1 .. Len(stages) + 1
  BY <1>4, <1>5
<1>7. OrderInv'
  BY <1>1, <1>3, ReceiveOrder
<1>8. Sent' = Sent \ {n} /\ n \in Sent /\ \A m \in Sent' : n < m
  BY <1>1, <1>3, ReceiveSent
<1>9. \A m \in InStages \cup running \cup done : m < n
  BY <1>8 DEF RInv, PlaceInv
<1> HIDE DEF n, k
<1>10. /\ k \in 1 .. Len(stages')
       /\ \A i \in 1 .. Len(stages) : i \in 1 .. Len(stages')
       /\ \A i \in 1 .. Len(stages') :
            \/ i \in 1 .. Len(stages) /\ i # k /\ stages'[i] = stages[i]
            \/ /\ i \in 1 .. Len(stages) /\ i = k
               /\ stages'[i].ptrs = stages[i].ptrs \cup queued[n]
               /\ stages'[i].mods = stages[i].mods \cup {n}
            \/ /\ i = Len(stages) + 1 /\ i = k
               /\ stages'[i].ptrs = queued[n] /\ stages'[i].mods = {n}
  <2>1. n \in Nat /\ queued[n] \subseteq UNION Targets /\ k \in 1 .. Len(stages) + 1
    BY <1>2, <1>6
  <2>2. stages' = Staged(n, k)
    BY <1>3
  <2>3. QED  BY <1>4, <2>1, <2>2, StagedIs
<1>11. ASSUME NEW i \in 1 .. Len(stages'), NEW m \in stages'[i].mods
       PROVE  (m = n /\ i = k) \/ (i \in 1 .. Len(stages) /\ m \in stages[i].mods)
  BY <1>10
<1>12. ASSUME NEW i \in 1 .. Len(stages)
       PROVE  /\ i \in 1 .. Len(stages') /\ stages[i].ptrs \subseteq stages'[i].ptrs
              /\ stages[i].mods \subseteq stages'[i].mods
  <2>1. i # Len(stages) + 1
    BY <1>4
  <2>2. QED  BY <1>10, <2>1
<1>13. n \in stages'[k].mods
  BY <1>10
<1>14. \A i \in 1 .. Len(stages) : \A m \in stages[i].mods : m \in InStages /\ m < n /\ m \in Int
  BY <1>1, <1>9, Staging, Numbers DEF InStages
<1>15. InStages' = InStages \cup {n} /\ n \in Modifiers
  <2>1. n \in Modifiers
    BY DEF n
  <2>2. InStages' = {m \in Modifiers : \E i \in 1 .. Len(stages') : m \in stages'[i].mods}
    BY <1>3 DEF InStages
  <2>3. ASSUME NEW m \in InStages'
        PROVE  m \in InStages \cup {n}
    BY <1>11, <2>2, <2>3 DEF InStages
  <2>4. ASSUME NEW m \in InStages
        PROVE  m \in InStages'
    BY <1>12, <2>2, <2>4 DEF InStages
  <2>5. n \in InStages'
    BY <1>10, <1>13, <2>1, <2>2
  <2>6. QED  BY <2>1, <2>3, <2>4, <2>5
<1>16. PlaceInv'
  <2>1. /\ done \subseteq Modifiers /\ running \cap done = {}
        /\ Modifiers \subseteq Sent' \cup InStages' \cup running \cup done
    BY <1>8, <1>15 DEF RInv, PlaceInv
  <2>2. \A o \in Sent' : \A m \in InStages' \cup running \cup done : m < o
    BY <1>8, <1>15 DEF RInv, PlaceInv
  <2>3. n \notin running \cup done /\ n \in Int
    BY <1>2, <1>9
  <2>4. ASSUME NEW i \in 1 .. Len(stages'), NEW j \in 1 .. Len(stages'),
               NEW m \in stages'[i].mods
        PROVE  m \notin running \cup done /\ (m \in stages'[j].mods => i = j)
    <3>1. CASE m = n /\ i = k
      BY <1>11, <1>14, <2>3, <3>1
    <3>2. CASE i \in 1 .. Len(stages) /\ m \in stages[i].mods
      <4>1. m # n
        BY <1>14, <2>3, <3>2
      <4>2. m \in stages'[j].mods => j \in 1 .. Len(stages) /\ m \in stages[j].mods
        BY <1>11, <4>1
      <4>3. QED  BY <3>2, <4>2 DEF RInv, PlaceInv
    <3>3. QED  BY <1>11, <3>1, <3>2
  <2>5. QED  BY <1>3, <2>1, <2>2, <2>4 DEF PlaceInv
<1>17. StageOrderInv'
  <2>1. \A i \in 1 .. Len(stages) : \A m \in stages[i].mods :
          queued[m] \subseteq stages[i].ptrs /\ queued[m] # {}
    <3>1. \A m \in Modifiers : queued[m] \in Targets
      BY DEF RInv, TargetsInv, Modifiers
    <3>2. QED  BY <1>1, <1>3, <3>1, Staging DEF IInv, StagesInv
  <2>2. ASSUME NEW i \in 1 .. Len(stages), NEW m \in stages[i].mods,
               queued[m] \subseteq queued[n]
        PROVE  i < k
    <3>1. queued[n] \cap stages[i].ptrs # {}
      BY <2>1, <2>2
    <3>2. ASSUME NEW j \in 1 .. Len(stages), j < i
          PROVE  queued[n] \cap stages[j].ptrs # {}
      <4>1. queued[m] \cap stages[j].ptrs # {}
        BY <1>3, <3>2 DEF RInv, StageOrderInv
      <4>2. QED  BY <2>2, <4>1
    <3>3. ~ (k \in 1 .. Len(stages) /\ k <= i)
      BY <1>5, <3>1, <3>2
    <3>4. QED  BY <1>4, <1>6, <3>3
  <2>3. ASSUME NEW i \in 1 .. Len(stages'), NEW j \in 1 .. Len(stages'),
               NEW m \in stages'[i].mods, NEW o \in stages'[j].mods,
               m < o, queued[m] \subseteq queued[o]
        PROVE  i < j
    <3>1. CASE i \in 1 .. Len(stages) /\ m \in stages[i].mods
      <4>1. CASE o = n /\ j = k
        BY <2>2, <2>3, <3>1, <4>1
      <4>2. CASE j \in 1 .. Len(stages) /\ o \in stages[j].mods
        BY <2>3, <3>1, <4>2 DEF RInv, StageOrderInv
      <4>3. QED  BY <1>11, <4>1, <4>2
    <3>2. CASE m = n /\ i = k
      <4>1. ~ (n < n)
        BY <1>2
      <4>2. j \in 1 .. Len(stages) /\ o \in stages[j].mods
        BY <1>11, <2>3, <3>2, <4>1
      <4>3. o < n /\ o \in Int
        BY <1>14, <4>2
      <4>4. QED  BY <1>2, <2>3, <3>2, <4>3
    <3>3. QED  BY <1>11, <3>1, <3>2
  <2>4. ASSUME NEW i \in 1 .. Len(stages'), NEW j \in 1 .. Len(stages'),
               NEW m \in stages'[i].mods, j < i
        PROVE  queued[m] \cap stages'[j].ptrs # {}
    <3>1. i <= Len(stages) + 1
      BY <1>4, <1>10
    <3>2. j \in 1 .. Len(stages)
      BY <1>4, <2>4, <3>1
    <3>3. queued[m] \cap stages[j].ptrs # {}
      BY <1>3, <1>5, <1>11, <2>4, <3>2 DEF RInv, StageOrderInv
    <3>4. QED  BY <1>12, <3>2, <3>3
  <2>5. QED  BY <1>3, <2>3, <2>4 DEF StageOrderInv
<1>18. RoundInv'
  BY <1>3 DEF RInv, RoundInv
<1>19. TargetsInv'
  BY <1>3 DEF RInv, TargetsInv
<1>20. QED  BY <1>7, <1>16, <1>17, <1>18, <1>19

\* A stage is opened: those before it are over.  After the last, all are
LEMMA OpenOrder ==
  ASSUME RInv, OpenStage
  PROVE  OrderInv' /\ PlaceInv' /\ StageOrderInv' /\ RoundInv' /\ TargetsInv'
<1>1. /\ UNCHANGED <<queued, chan, sendTo, recvFrom, ppc, holds, epc, stage, running, done>>
      /\ apc = "open" /\ running = {} /\ Sent = {} /\ stage \in Nat \ {0}
      /\ \A i \in 1 .. Len(stages) : i < stage => stages[i].mods = {}
      /\ Len(stages) \in Nat /\ \A i \in 1 .. Len(stages) : stages[i] \in Stage
      /\ epc # "resize"
  BY DEF OpenStage, channels, producers, main, RInv, IInv, Shape, HandshakeInv, StagesInv,
     StageOrderInv, RoundInv
<1>2. OrderInv' /\ TargetsInv' /\ Sent' = Sent /\ Modifiers' = Modifiers
  BY <1>1 DEF RInv, OrderInv, TargetsInv, Sent, Modifiers
<1>3. CASE stage <= Len(stages)
  <2>1. /\ stage \in 1 .. Len(stages) /\ apc' = "drain" /\ complete' = complete
        /\ stages' = [stages EXCEPT ![stage] = [ptrs |-> {}, mods |-> stages[stage].mods]]
    BY <1>1, <1>3 DEF OpenStage, Stage
  <2>2. Len(stages') = Len(stages) /\ \A i \in 1 .. Len(stages) : stages'[i].mods = stages[i].mods
    BY <2>1 DEF RInv, IInv, Shape
  <2>3. InStages' = InStages
    BY <1>2, <2>2 DEF InStages
  <2>4. PlaceInv'
    BY <1>1, <1>2, <2>2, <2>3 DEF RInv, PlaceInv
  <2>5. StageOrderInv'
    BY <1>1, <2>1, <2>2 DEF RInv, StageOrderInv
  <2>6. RoundInv'
    BY <1>1, <1>2, <2>1 DEF RInv, RoundInv
  <2>7. QED  BY <1>2, <2>4, <2>5, <2>6
<1>4. CASE stage > Len(stages)
  <2>1. apc' = "unpark" /\ complete' = TRUE /\ stages' = stages
    BY <1>1, <1>4 DEF OpenStage
  <2>2. InStages = {} /\ InStages' = InStages
    BY <1>1, <1>2, <1>4, <2>1 DEF InStages
  <2>3. Modifiers \subseteq done
    BY <1>1, <2>2 DEF RInv, PlaceInv
  <2>4. PlaceInv' /\ RoundInv'
    BY <1>1, <1>2, <2>1, <2>2, <2>3 DEF RInv, PlaceInv, RoundInv
  <2>5. StageOrderInv'
    BY <1>1, <2>1, <2>2 DEF RInv, StageOrderInv
  <2>6. QED  BY <1>2, <2>4, <2>5
<1>5. QED  BY <1>1, <1>3, <1>4

LEMMA StartOrder ==
  ASSUME RInv, NEW n \in Modifiers, StartModifier(n)
  PROVE  OrderInv' /\ PlaceInv' /\ StageOrderInv' /\ RoundInv' /\ TargetsInv'
<1>1. /\ UNCHANGED <<queued, chan, sendTo, recvFrom, complete, ppc, holds, epc, apc, stage, done>>
      /\ apc = "drain" /\ stage \in 1 .. Len(stages) /\ n \in stages[stage].mods
      /\ running' = running \cup {n} /\ Sent = {}
      /\ Len(stages) \in Nat /\ \A i \in 1 .. Len(stages) : stages[i] \in Stage
  BY DEF StartModifier, channels, flags, producers, main, RInv, RoundInv, IInv, Shape, StagesInv
<1>2. OrderInv' /\ TargetsInv' /\ RoundInv' /\ Sent' = Sent /\ Modifiers' = Modifiers
  BY <1>1 DEF RInv, OrderInv, TargetsInv, RoundInv, Sent, Modifiers
<1>3. /\ Len(stages') = Len(stages)
      /\ \A i \in 1 .. Len(stages) :
           stages'[i].mods = IF i = stage THEN stages[i].mods \ {n} ELSE stages[i].mods
  <2> DEFINE new == [stages[stage] EXCEPT !.mods = stages[stage].mods \ {n}]
  <2>1. stages' = [stages EXCEPT ![stage] = new]
    BY DEF StartModifier
  <2>2. new.mods = stages[stage].mods \ {n}
    BY <1>1 DEF Stage
  <2> HIDE DEF new
  <2>3. /\ Len(stages') = Len(stages) /\ stages'[stage] = new
        /\ \A i \in 1 .. Len(stages) : i # stage => stages'[i] = stages[i]
    BY <1>1, <2>1 DEF RInv, IInv, Shape
  <2>4. QED  BY <1>1, <2>2, <2>3
<1>4. \A i \in 1 .. Len(stages) : n \in stages[i].mods => i = stage
  BY <1>1 DEF RInv, PlaceInv
<1>5. InStages' = InStages \ {n} /\ n \in InStages
  <2>1. InStages' = {m \in Modifiers : \E i \in 1 .. Len(stages) : m \in stages'[i].mods}
    BY <1>2, <1>3 DEF InStages
  <2>2. QED  BY <1>1, <1>3, <1>4, <2>1 DEF InStages
<1>6. PlaceInv'
  <2>1. /\ done \subseteq Modifiers /\ running' \cap done = {}
        /\ Modifiers \subseteq Sent \cup InStages' \cup running' \cup done
    BY <1>1, <1>5 DEF RInv, PlaceInv
  <2>2. ASSUME NEW i \in 1 .. Len(stages), NEW j \in 1 .. Len(stages), NEW m \in stages'[i].mods
        PROVE  m \notin running' \cup done /\ (m \in stages'[j].mods => i = j)
    <3>1. m \in stages[i].mods /\ m # n
      BY <1>3, <1>4
    <3>2. m \notin running \cup done
      BY <3>1 DEF RInv, PlaceInv
    <3>3. m \in stages'[j].mods => m \in stages[j].mods
      BY <1>3
    <3>4. QED  BY <1>1, <3>1, <3>2, <3>3 DEF RInv, PlaceInv
  <2>3. QED  BY <1>1, <1>2, <1>3, <2>1, <2>2 DEF PlaceInv
<1>7. StageOrderInv'
  <2>1. ASSUME NEW i \in 1 .. Len(stages), NEW j \in 1 .. Len(stages),
               NEW m \in stages'[i].mods, NEW o \in stages'[j].mods,
               m < o, queued[m] \subseteq queued[o]
        PROVE  i < j
    BY <1>3, <2>1 DEF RInv, StageOrderInv
  <2>2. ASSUME NEW i \in 1 .. Len(stages), i < stage
        PROVE  stages'[i].mods = {}
    BY <1>1, <1>3, <2>2 DEF RInv, StageOrderInv
  <2>3. QED  BY <1>1, <1>3, <2>1, <2>2 DEF StageOrderInv
<1>8. QED  BY <1>2, <1>6, <1>7

LEMMA RestOrder ==
  ASSUME RInv,
         (\E n \in Modifiers : FinishModifier(n)) \/ NextStage \/ Unpark \/ UNCHANGED vars
  PROVE  OrderInv' /\ PlaceInv' /\ StageOrderInv' /\ RoundInv' /\ TargetsInv'
<1>1. /\ UNCHANGED <<queued, chan, sendTo, recvFrom, complete, ppc, holds, epc, stages>>
      /\ Modifiers' = Modifiers
  BY DEF FinishModifier, NextStage, Unpark, vars, channels, flags, producers, main, actor,
     Modifiers
<1>2. OrderInv' /\ TargetsInv' /\ Sent' = Sent /\ InStages' = InStages
  BY <1>1 DEF RInv, OrderInv, TargetsInv, Sent, InStages
<1>3. ASSUME NEW n \in Modifiers, FinishModifier(n)
      PROVE  PlaceInv' /\ StageOrderInv' /\ RoundInv'
  <2>1. /\ UNCHANGED <<apc, stage>> /\ n \in running
        /\ running' = running \ {n} /\ done' = done \cup {n}
    BY <1>3 DEF FinishModifier
  <2>2. running' \cup done' = running \cup done
    BY <2>1
  <2>3. done' \subseteq Modifiers /\ done \subseteq done' /\ running' \cap done' = {}
    BY <2>1 DEF RInv, PlaceInv
  <2>4. PlaceInv'
    BY <1>1, <1>2, <2>2, <2>3 DEF RInv, PlaceInv
  <2>5. StageOrderInv' /\ RoundInv'
    BY <1>1, <1>2, <2>1, <2>3 DEF RInv, StageOrderInv, RoundInv
  <2>6. QED  BY <2>4, <2>5
<1>4. CASE NextStage
  <2>1. /\ UNCHANGED <<running, done>> /\ apc = "drain" /\ apc' = "open" /\ stage' = stage + 1
        /\ stages[stage].mods = {} /\ stage \in Nat
        /\ \A i \in 1 .. Len(stages) : i < stage => stages[i].mods = {}
    BY <1>4 DEF NextStage, RInv, StageOrderInv, IInv, Shape
  <2>2. PlaceInv' /\ RoundInv'
    BY <1>1, <1>2, <2>1 DEF RInv, PlaceInv, RoundInv
  <2>3. \A i \in 1 .. Len(stages) : i < stage + 1 => stages[i].mods = {}
    BY <2>1
  <2>4. StageOrderInv'
    BY <1>1, <1>2, <2>1, <2>3 DEF RInv, StageOrderInv
  <2>5. QED  BY <1>2, <2>2, <2>4
<1>5. CASE Unpark
  <2>1. UNCHANGED <<running, done, stage>> /\ apc = "unpark" /\ apc' = "recv"
    BY <1>5 DEF Unpark
  <2>2. PlaceInv' /\ RoundInv'
    BY <1>1, <1>2, <2>1 DEF RInv, PlaceInv, RoundInv
  <2>3. \A i \in 1 .. Len(stages) : stages[i].mods = {}
    <3>1. InStages = {}
      BY <2>1 DEF RInv, StageOrderInv
    <3>2. QED  BY <3>1, Staging DEF InStages, RInv
  <2>4. StageOrderInv'
    BY <1>1, <2>1, <2>3 DEF StageOrderInv
  <2>5. QED  BY <1>2, <2>2, <2>4
<1>6. CASE UNCHANGED vars
  <2>1. UNCHANGED <<running, done, stage, apc>>
    BY <1>6 DEF vars, actor
  <2>2. QED  BY <1>1, <1>2, <2>1 DEF RInv, PlaceInv, StageOrderInv, RoundInv
<1>7. QED  BY <1>2, <1>3, <1>4, <1>5, <1>6

-----------------------------------------------------------------------------
(* The invariant                                                           *)

LEMMA InitOrders == ASSUME Init PROVE RInv
<1>1. IInv
  BY InitEstablishes
<1>2. Modifiers = {} /\ 1 .. 0 = {}
  BY DEF Init, Modifiers
<1>3. OrderInv /\ PlaceInv /\ StageOrderInv /\ RoundInv /\ TargetsInv
  BY <1>2 DEF Init, OrderInv, PlaceInv, StageOrderInv, RoundInv, TargetsInv, Sent, InStages,
     Channels
<1>4. QED  BY <1>1, <1>3 DEF RInv

LEMMA NextOrders ==
  ASSUME {} \notin Targets, RInv, [Next]_vars
  PROVE  RInv'
<1>1. IInv'
  BY NextKeeps DEF RInv
<1>2. CASE Receive
  <2>1. Head(chan[recvFrom]) \in Modifiers \cup {Close, Resize}
    BY <1>2, ReceiveIs DEF RInv
  <2>2. QED  BY <1>1, <1>2, <2>1, ControlOrder, ModifierOrder DEF RInv
<1>3. CASE Actor
  BY <1>1, <1>2, <1>3, OpenOrder, StartOrder, RestOrder DEF Actor, RInv
<1>4. CASE \E p \in Producers :
             (\E P \in Targets : TrySend(p, P)) \/ MarkFilled(p) \/ BlockingSend(p)
  BY <1>1, <1>4, ProducersOrder DEF RInv
<1>5. CASE CallExecute \/ Main \/ ParkSpuriously
  BY <1>1, <1>5, OwnerOrder DEF RInv
<1>6. CASE UNCHANGED vars
  BY <1>1, <1>6, RestOrder DEF RInv
<1>7. QED  BY <1>3, <1>4, <1>5, <1>6 DEF Next

-----------------------------------------------------------------------------
(* The refinement                                                          *)

LEMMA PromiseModifiers == Promise!Modifiers = Modifiers
BY DEF Promise!Modifiers, Modifiers

\* A modifier may start when its stage is open: the ones that it has to wait for
\* were in stages before it
LEMMA StartStarts ==
  ASSUME {} \notin Targets, RInv, NEW n \in Modifiers, StartModifier(n)
  PROVE  Promise!Start(n)
<1>1. /\ apc = "drain" /\ stage \in 1 .. Len(stages) /\ n \in stages[stage].mods
      /\ Disjoint(running \cup stages[stage].mods) /\ Sent = {}
      /\ epc # "systems"
  BY DEF StartModifier, RInv, RoundInv, IInv, StagesInv, HandshakeInv
<1>2. n \notin running \cup done
  BY <1>1 DEF RInv, PlaceInv
<1>3. \A m \in running : queued[m] \cap queued[n] = {}
  BY <1>1, <1>2 DEF Disjoint
<1>4. ASSUME NEW m \in 1 .. n - 1, queued[m] \subseteq queued[n]
      PROVE  m \in done
  <2>1. m \in Modifiers /\ m < n
    BY DEF Modifiers, RInv, IInv, Shape
  <2>2. queued[m] # {}
    <3>1. queued[m] \in Targets
      BY <2>1 DEF RInv, TargetsInv, Modifiers
    <3>2. QED  BY <3>1
  <2>3. m \notin running
    BY <1>3, <1>4, <2>2
  <2>4. m \notin InStages
    <3>1. ASSUME NEW i \in 1 .. Len(stages), m \in stages[i].mods
          PROVE  FALSE
      <4>1. i < stage
        BY <1>1, <1>4, <2>1, <3>1 DEF RInv, StageOrderInv
      <4>2. QED  BY <1>1, <3>1, <4>1 DEF RInv, StageOrderInv
    <3>2. QED  BY <3>1 DEF InStages
  <2>5. QED  BY <1>1, <2>1, <2>3, <2>4 DEF RInv, PlaceInv
<1>5. /\ running' = running \cup {n}
      /\ UNCHANGED <<queued, done, epc>>
  BY DEF StartModifier, main
<1>6. QED  BY <1>1, <1>2, <1>3, <1>4, <1>5 DEF Promise!Start

\* What the other steps are to ModifierQueue
LEMMA StepsKeepPromise ==
  ASSUME {} \notin Targets, RInv, [Next]_vars
  PROVE  [Promise!Next]_(Promise!vars)
<1>1. ASSUME NEW p \in Producers, NEW P \in Targets, TrySend(p, P)
      PROVE  Promise!Next \/ UNCHANGED Promise!vars
  <2>1. CASE HasRoom
    <3>1. Promise!Queue(P)
      BY <1>1, <2>1 DEF TrySend, Promise!Queue, main, actor
    <3>2. QED  BY <3>1 DEF Promise!Next
  <2>2. CASE ~HasRoom
    BY <1>1, <2>2 DEF TrySend, Promise!vars, main, actor
  <2>3. QED  BY <2>1, <2>2
<1>2. ASSUME NEW p \in Producers, BlockingSend(p)
      PROVE  Promise!Next
  <2>1. epc = "systems" /\ holds[p] \in Targets
    BY <1>2 DEF BlockingSend, RInv, IInv, HandshakeInv, TargetsInv
  <2>2. Promise!Queue(holds[p])
    BY <1>2, <2>1 DEF BlockingSend, Promise!Queue, main, actor
  <2>3. QED  BY <2>1, <2>2 DEF Promise!Next
<1>3. ASSUME CallExecute
      PROVE  Promise!Next
  <2>1. Promise!Execute
    BY <1>3 DEF CallExecute, MainGoto, Promise!Execute, actor
  <2>2. QED  BY <2>1 DEF Promise!Next
<1>4. ASSUME ResetComplete \/ SendResize
      PROVE  Promise!Next \/ UNCHANGED Promise!vars
  <2>1. done = Modifiers
    BY <1>4 DEF ResetComplete, SendResize, MainGoto, RInv, IInv, HandshakeInv, RoundInv, PlaceInv
  <2>2. UNCHANGED <<queued, running, done>> /\ epc \in {"reset", "resize"}
        /\ epc' \in {"resize", "systems"}
    BY <1>4 DEF ResetComplete, SendResize, MainGoto, actor
  <2>3. CASE epc' = "systems"
    BY <2>1, <2>2, <2>3, PromiseModifiers DEF Promise!Return, Promise!Next
  <2>4. CASE epc' = "resize"
    BY <2>2, <2>4 DEF Promise!vars
  <2>5. QED  BY <2>2, <2>3, <2>4
<1>5. ASSUME NEW n \in Modifiers, StartModifier(n)
      PROVE  Promise!Next
  BY <1>5, StartStarts, PromiseModifiers DEF Promise!Next
<1>6. ASSUME NEW n \in Modifiers, FinishModifier(n)
      PROVE  Promise!Next
  <2>1. Promise!Finish(n)
    BY <1>6 DEF FinishModifier, Promise!Finish, main
  <2>2. QED  BY <2>1, PromiseModifiers DEF Promise!Next
<1>7. ASSUME \/ \E p \in Producers : MarkFilled(p)
             \/ SendClose \/ CheckComplete \/ Park \/ ParkSpuriously
             \/ Receive \/ OpenStage \/ NextStage \/ Unpark \/ UNCHANGED vars
      PROVE  UNCHANGED Promise!vars
  BY <1>7 DEF MarkFilled, SendClose, CheckComplete, Park, ParkSpuriously, MainGoto, Receive,
     OpenStage, NextStage, Unpark, vars, main, actor, Promise!vars
<1>8. QED
  BY <1>1, <1>2, <1>3, <1>4, <1>5, <1>6, <1>7 DEF Next, Main, Actor

\* Each modifier is executed once, before the execute that follows it returns,
\* and after the earlier ones whose components are among its own
THEOREM MultiKeepsPromise == ASSUME {} \notin Targets PROVE Spec => RefinesModifierQueue
<1>1. Init => RInv
  BY InitOrders
<1>2. RInv /\ [Next]_vars => RInv'
  BY NextOrders
<1>3. Init => Promise!Init
  BY DEF Init, Promise!Init
<1>4. RInv /\ [Next]_vars => [Promise!Next]_(Promise!vars)
  BY StepsKeepPromise
<1>5. QED
  BY <1>1, <1>2, <1>3, <1>4, PTL DEF Spec, Promise!Spec, RefinesModifierQueue
=============================================================================
