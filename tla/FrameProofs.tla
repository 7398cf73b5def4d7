----------------------------- MODULE FrameProofs -----------------------------
(***************************************************************************)
(* What a Frame does for any threads, components, chains and sizes.        *)
(*                                                                         *)
(* The stagers are proved about alone: the multi stager in a module of its *)
(* own, the single one, Single, in the first part of this.  Every step of  *)
(* the Frame is one of each of them or leaves it as it is.  What the Frame *)
(* adds is the phase: it tells the calls of systems, the first execute and *)
(* the second one apart.                                                   *)
(***************************************************************************)
EXTENDS Frame, MultiComponentModifierStagerProofs, FiniteSetTheorems

-----------------------------------------------------------------------------
(* The single stager alone                                                 *)

\* What the single stager assumes of its constants holds in a Frame
LEMMA SingleTyped == Single!Typed
BY HashAssumption, BoundsAssumption DEF Single!Typed

\* s holds the elements of S once each, the smallest first
Sorts(s, S) ==
  /\ s \in Seq(Nat)
  /\ \A i, j \in 1 .. Len(s) : i < j => s[i] < s[j]
  /\ \A i \in 1 .. Len(s) : s[i] \in S
  /\ \A n \in S : \E i \in 1 .. Len(s) : s[i] = n

\* The modifiers that hash to chain h and have not been started: h holds them
\* in the order of their arrival.  So what is popped is the oldest of its
\* chain; modifiers of one component are all of one chain, which runs one at a
\* time; and when every chain is empty and none runs, all are executed.
WaitingIn(h) ==
  {n \in Single!Modifiers : Hash[target[n]] = h /\ n \notin applied /\ n # current[h]}

ChainsInv == \A h \in Chains : Sorts(chains[h], WaitingIn(h))

CurrentInv ==
  \A h \in Chains : current[h] # 0 => Hash[target[current[h]]] = h /\ current[h] \notin applied

SingleInv == Single!TypeOK /\ ChainsInv /\ CurrentInv

-----------------------------------------------------------------------------
(* Sorted sequences                                                        *)

\* A new largest element goes to the end
LEMMA SortsAppend ==
  ASSUME NEW s, NEW S, Sorts(s, S), NEW k \in Nat, \A n \in S : n < k
  PROVE  Sorts(Append(s, k), S \cup {k})
<1>1. /\ Append(s, k) \in Seq(Nat) /\ Len(Append(s, k)) = Len(s) + 1
      /\ Append(s, k)[Len(s) + 1] = k
      /\ \A i \in 1 .. Len(s) : Append(s, k)[i] = s[i]
      /\ Len(s) \in Nat
  BY AppendProperties DEF Sorts
<1>2. ASSUME NEW i \in 1 .. Len(s) + 1
      PROVE  i = Len(s) + 1 \/ i \in 1 .. Len(s)
  BY <1>1
<1>3. \A i \in 1 .. Len(s) : s[i] < k
  BY DEF Sorts
<1>4. ASSUME NEW i \in 1 .. Len(s) + 1, NEW j \in 1 .. Len(s) + 1, i < j
      PROVE  Append(s, k)[i] < Append(s, k)[j]
  <2>1. i \in 1 .. Len(s)
    BY <1>1, <1>4
  <2>2. CASE j = Len(s) + 1
    BY <1>1, <1>3, <2>1, <2>2
  <2>3. CASE j \in 1 .. Len(s)
    BY <1>1, <1>4, <2>1, <2>3 DEF Sorts
  <2>4. QED  BY <1>2, <2>2, <2>3
<1>5. \A i \in 1 .. Len(s) + 1 : Append(s, k)[i] \in S \cup {k}
  BY <1>1, <1>2 DEF Sorts
<1>6. \A n \in S \cup {k} : \E i \in 1 .. Len(s) + 1 : Append(s, k)[i] = n
  <2>1. Len(s) + 1 \in 1 .. Len(s) + 1
    BY <1>1
  <2>2. \A i \in 1 .. Len(s) : i \in 1 .. Len(s) + 1
    BY <1>1
  <2>3. QED  BY <1>1, <2>1, <2>2 DEF Sorts
<1>7. QED  BY <1>1, <1>4, <1>5, <1>6 DEF Sorts

\* The first element is the smallest, and the rest sorts the others
LEMMA SortsTail ==
  ASSUME NEW s, NEW S, Sorts(s, S), s # << >>
  PROVE  /\ Head(s) \in S /\ \A n \in S : Head(s) <= n
         /\ Sorts(Tail(s), S \ {Head(s)})
<1>1. /\ s \in Seq(Nat) /\ Len(s) \in Nat \ {0}
      /\ Head(s) = s[1]
      /\ Tail(s) \in Seq(Nat) /\ Len(Tail(s)) = Len(s) - 1
      /\ \A i \in 1 .. Len(s) - 1 : Tail(s)[i] = s[i + 1]
  BY HeadTailProperties, EmptySeq DEF Sorts
<1>2. Head(s) \in S /\ \A n \in S : Head(s) <= n
  BY <1>1 DEF Sorts
<1>3. \A i, j \in 1 .. Len(s) - 1 : i < j => Tail(s)[i] < Tail(s)[j]
  BY <1>1 DEF Sorts
<1>4. \A i \in 1 .. Len(s) - 1 : Tail(s)[i] \in S \ {Head(s)}
  BY <1>1 DEF Sorts
<1>5. ASSUME NEW n \in S \ {Head(s)}
      PROVE  \E i \in 1 .. Len(s) - 1 : Tail(s)[i] = n
  <2>1. PICK j \in 1 .. Len(s) : s[j] = n
    BY DEF Sorts
  <2>2. j - 1 \in 1 .. Len(s) - 1 /\ s[(j - 1) + 1] = n
    BY <1>1, <2>1
  <2>3. Tail(s)[j - 1] = n
    BY <1>1, <2>2
  <2>4. QED  BY <2>2, <2>3
<1>6. QED  BY <1>1, <1>2, <1>3, <1>4, <1>5 DEF Sorts

\* The empty sequence sorts the empty set, and no other
LEMMA SortsNothing ==
  ASSUME NEW S
  PROVE  Sorts(<< >>, S) <=> S = {}
BY DEF Sorts

-----------------------------------------------------------------------------
(* The invariant of the single stager                                      *)

LEMMA SingleInitEstablishes ==
  ASSUME Single!Init
  PROVE  SingleInv
<1>1. Single!TypeOK
  <2>1. << >> \in Seq(Components) /\ << >> \in Seq(Single!Modifiers) /\ Len(<< >>) = 0
    BY EmptySeq
  <2>2. chains \in [Chains -> Seq(Single!Modifiers)]
    BY <2>1 DEF Single!Init
  <2>3. target \in Seq(Components) /\ Len(target) <= MaxMods
    BY <2>1, SingleTyped DEF Single!Typed, Single!Init
  <2>4. QED  BY <2>2, <2>3 DEF Single!Init, Single!TypeOK
<1>2. ASSUME NEW h \in Chains
      PROVE  Sorts(chains[h], WaitingIn(h))
  <2>1. WaitingIn(h) = {}
    BY DEF Single!Init, WaitingIn, Single!Modifiers
  <2>2. QED  BY <2>1, SortsNothing DEF Single!Init
<1>3. QED  BY <1>1, <1>2 DEF SingleInv, ChainsInv, CurrentInv, Single!Init

\* Where a component's modifiers are
LEMMA SingleApart ==
  ASSUME SingleInv, NEW n \in Single!Modifiers
  PROVE  /\ target[n] \in Components /\ Hash[target[n]] \in Chains
         /\ n \in Nat \ {0}
BY SingleTyped DEF Single!Typed, SingleInv, Single!TypeOK, Single!Modifiers

\* A modifier that is queued goes behind all the others
LEMMA QueueKeeps ==
  ASSUME SingleInv, NEW x \in Components, Single!QueueModifier(x)
  PROVE  SingleInv'
<1> DEFINE k == Len(target) + 1
<1>1. /\ target \in Seq(Components) /\ Len(target) \in Nat
      /\ target' \in Seq(Components) /\ Len(target') = k
      /\ target'[k] = x /\ \A n \in Single!Modifiers : target'[n] = target[n]
  BY DEF SingleInv, Single!TypeOK, Single!QueueModifier, Single!Modifiers
<1>2. Single!Modifiers' = Single!Modifiers \cup {k} /\ k \in Nat \ {0} /\ k \notin Single!Modifiers
  BY <1>1 DEF Single!Modifiers
<1>3. Hash[x] \in Chains
  BY SingleTyped DEF Single!Typed
<1>4. chains' = [chains EXCEPT ![Hash[x]] = Append(chains[Hash[x]], k)]
  BY DEF Single!QueueModifier
<1>5. k \notin applied /\ \A h \in Chains : current[h] # k
  BY <1>2 DEF SingleInv, Single!TypeOK
<1>6. Single!TypeOK'
  <2>1. \A h \in Chains : chains[h] \in Seq(Single!Modifiers \cup {k})
    BY DEF SingleInv, Single!TypeOK
  <2>2. \A h \in Chains : Append(chains[h], k) \in Seq(Single!Modifiers \cup {k})
    BY <2>1, AppendProperties
  <2>3. chains' \in [Chains -> Seq(Single!Modifiers')]
    BY <1>2, <1>3, <1>4, <2>1, <2>2 DEF SingleInv, Single!TypeOK
  <2>4. Len(target') <= MaxMods
    BY <1>1, SingleTyped DEF Single!Typed, Single!QueueModifier
  <2>5. QED  BY <1>1, <1>2, <2>3, <2>4 DEF SingleInv, Single!TypeOK, Single!QueueModifier
<1>7. ASSUME NEW h \in Chains
      PROVE  Sorts(chains'[h], WaitingIn(h)')
  <2>1. CASE h = Hash[x]
    <3>1. WaitingIn(h)' = WaitingIn(h) \cup {k}
      BY <1>1, <1>2, <1>5, <2>1 DEF WaitingIn, Single!QueueModifier
    <3>2. chains'[h] = Append(chains[h], k)
      BY <1>4, <2>1 DEF SingleInv, Single!TypeOK
    <3>3. \A n \in WaitingIn(h) : n < k
      BY <1>1 DEF WaitingIn, Single!Modifiers
    <3>4. Sorts(chains[h], WaitingIn(h))
      BY DEF SingleInv, ChainsInv
    <3>5. QED  BY <1>2, <3>1, <3>2, <3>3, <3>4, SortsAppend
  <2>2. CASE h # Hash[x]
    <3>1. WaitingIn(h)' = WaitingIn(h)
      BY <1>1, <1>2, <2>2 DEF WaitingIn, Single!QueueModifier
    <3>2. chains'[h] = chains[h]
      BY <1>4, <2>2 DEF SingleInv, Single!TypeOK
    <3>3. QED  BY <3>1, <3>2 DEF SingleInv, ChainsInv
  <2>3. QED  BY <2>1, <2>2
<1>8. CurrentInv'
  BY <1>1 DEF SingleInv, Single!TypeOK, CurrentInv, Single!QueueModifier
<1>9. QED  BY <1>6, <1>7, <1>8 DEF SingleInv, ChainsInv, Sorts

\* The modifier that is popped is no longer waiting, but being executed
LEMMA PopKeeps ==
  ASSUME SingleInv, NEW h \in Chains, Single!Pop(h)
  PROVE  SingleInv'
<1> DEFINE n == Head(chains[h])
<1>1. Sorts(chains[h], WaitingIn(h)) /\ chains[h] # << >>
  BY DEF SingleInv, ChainsInv, Single!Pop
<1>2. n \in WaitingIn(h) /\ Sorts(Tail(chains[h]), WaitingIn(h) \ {n})
  BY <1>1, SortsTail
<1>3. n \in Single!Modifiers /\ Hash[target[n]] = h /\ n \notin applied /\ n # 0
  BY <1>2, SingleApart DEF WaitingIn
<1>4. /\ chains' = [chains EXCEPT ![h] = Tail(chains[h])]
      /\ current' = [current EXCEPT ![h] = n]
      /\ UNCHANGED <<target, executing, applied>>
      /\ current[h] = 0 /\ executing
  BY DEF Single!Pop
<1>5. Single!Modifiers' = Single!Modifiers
  BY <1>4 DEF Single!Modifiers
<1>6. Single!TypeOK'
  <2>1. Tail(chains[h]) \in Seq(Single!Modifiers)
    BY <1>1, HeadTailProperties DEF SingleInv, Single!TypeOK
  <2>2. /\ chains' \in [Chains -> Seq(Single!Modifiers)]
        /\ current' \in [Chains -> Single!Modifiers \cup {0}]
    BY <1>3, <1>4, <2>1 DEF SingleInv, Single!TypeOK
  <2>3. QED  BY <1>4, <1>5, <2>2 DEF SingleInv, Single!TypeOK
<1>7. ASSUME NEW g \in Chains
      PROVE  Sorts(chains'[g], WaitingIn(g)')
  <2>1. CASE g = h
    <3>1. WaitingIn(g)' = WaitingIn(g) \ {n}
      BY <1>3, <1>4, <1>5, <2>1, SingleApart DEF SingleInv, Single!TypeOK, WaitingIn
    <3>2. chains'[g] = Tail(chains[g])
      BY <1>4, <2>1 DEF SingleInv, Single!TypeOK
    <3>3. QED  BY <1>2, <2>1, <3>1, <3>2
  <2>2. CASE g # h
    <3>1. WaitingIn(g)' = WaitingIn(g)
      BY <1>4, <1>5, <2>2 DEF SingleInv, Single!TypeOK, WaitingIn
    <3>2. chains'[g] = chains[g]
      BY <1>4, <2>2 DEF SingleInv, Single!TypeOK
    <3>3. QED  BY <3>1, <3>2 DEF SingleInv, ChainsInv
  <2>3. QED  BY <2>1, <2>2
<1>8. CurrentInv'
  BY <1>3, <1>4 DEF SingleInv, Single!TypeOK, CurrentInv
<1>9. QED  BY <1>6, <1>7, <1>8 DEF SingleInv, ChainsInv, Sorts

\* A modifier that has returned was the one of its chain
LEMMA FinishKeeps ==
  ASSUME SingleInv, NEW h \in Chains, Single!Finish(h)
  PROVE  SingleInv'
<1> DEFINE n == current[h]
<1>1. n \in Single!Modifiers /\ Hash[target[n]] = h /\ n # 0
  BY DEF SingleInv, Single!TypeOK, CurrentInv, Single!Finish
<1>2. /\ current' = [current EXCEPT ![h] = 0] /\ applied' = applied \cup {n}
      /\ UNCHANGED <<target, chains, executing>>
  BY DEF Single!Finish
<1>3. Single!Modifiers' = Single!Modifiers
  BY <1>2 DEF Single!Modifiers
<1>4. Single!TypeOK'
  BY <1>1, <1>2, <1>3 DEF SingleInv, Single!TypeOK
<1>5. ASSUME NEW g \in Chains
      PROVE  Sorts(chains'[g], WaitingIn(g)')
  <2>1. \A m \in Single!Modifiers : m # 0
    BY SingleApart
  <2>2. current'[g] = IF g = h THEN 0 ELSE current[g]
    BY <1>2 DEF SingleInv, Single!TypeOK
  <2>3. \A m : m \in WaitingIn(g)' <=> m \in WaitingIn(g)
    BY <1>1, <1>2, <1>3, <2>1, <2>2 DEF WaitingIn
  <2>4. WaitingIn(g)' = WaitingIn(g)
    BY <2>3
  <2>5. QED  BY <1>2, <2>4 DEF SingleInv, ChainsInv
<1>6. CurrentInv'
  BY <1>1, <1>2 DEF SingleInv, Single!TypeOK, CurrentInv
<1>7. QED  BY <1>4, <1>5, <1>6 DEF SingleInv, ChainsInv, Sorts

LEMMA OthersKeep ==
  ASSUME SingleInv, Single!Execute \/ Single!Return \/ UNCHANGED Single!vars
  PROVE  SingleInv'
<1>1. UNCHANGED <<target, chains, current, applied>>
  BY DEF Single!Execute, Single!Return, Single!vars
<1>2. Single!TypeOK'
  BY <1>1
  DEF SingleInv, Single!TypeOK, Single!Modifiers, Single!Execute, Single!Return, Single!vars
<1>3. QED
  BY <1>1, <1>2 DEF SingleInv, ChainsInv, CurrentInv, Sorts, WaitingIn, Single!Modifiers

LEMMA SingleNextKeeps ==
  ASSUME SingleInv, [Single!Next]_(Single!vars)
  PROVE  SingleInv'
BY QueueKeeps, PopKeeps, FinishKeeps, OthersKeep DEF Single!Next

LEMMA SingleInvariance == Single!Spec => []SingleInv
<1>1. Single!Init => SingleInv
  BY SingleInitEstablishes
<1>2. SingleInv /\ [Single!Next]_(Single!vars) => SingleInv'
  BY SingleNextKeeps
<1>3. QED  BY <1>1, <1>2, PTL DEF Single!Spec

-----------------------------------------------------------------------------
(* The single stager keeps ModifierQueue's promise                         *)

\* What ModifierQueue calls queued
SingleQueued == [n \in Single!Modifiers |-> {target[n]}]

LEMMA QueuedIs ==
  ASSUME SingleInv
  PROVE  /\ SingleQueued \in Seq(SUBSET Components) /\ Len(SingleQueued) = Len(target)
         /\ \A n \in Single!Modifiers : SingleQueued[n] = {target[n]}
         /\ Single!Promise!Modifiers = Single!Modifiers
<1>1. Len(target) \in Nat /\ \A n \in 1 .. Len(target) : target[n] \in Components
  BY DEF SingleInv, Single!TypeOK
<1>2. SingleQueued \in Seq(SUBSET Components) /\ Len(SingleQueued) = Len(target)
  BY <1>1 DEF SingleQueued, Single!Modifiers
<1>3. QED  BY <1>2 DEF SingleQueued, Single!Promise!Modifiers, Single!Modifiers

LEMMA QueueQueues ==
  ASSUME SingleInv, NEW x \in Components, Single!QueueModifier(x)
  PROVE  Single!Promise!Queue({x})
<1>1. /\ target' = Append(target, x) /\ target \in Seq(Components)
      /\ target' \in Seq(Components)
      /\ Len(target) \in Nat /\ Len(target') = Len(target) + 1
      /\ target'[Len(target) + 1] = x
      /\ \A n \in 1 .. Len(target) : target'[n] = target[n]
  BY DEF SingleInv, Single!TypeOK, Single!QueueModifier
<1>2. SingleInv'
  BY QueueKeeps
<1>3. SingleQueued' = Append(SingleQueued, {x})
  <2>1. /\ SingleQueued' = [n \in 1 .. Len(target) + 1 |-> {target'[n]}]
        /\ SingleQueued' \in Seq(SUBSET Components) /\ Len(SingleQueued') = Len(target) + 1
    BY <1>1 DEF SingleQueued, Single!Modifiers
  <2>2. /\ SingleQueued \in Seq(SUBSET Components) /\ Len(SingleQueued) = Len(target)
        /\ \A n \in 1 .. Len(target) : SingleQueued[n] = {target[n]}
    BY QueuedIs DEF Single!Modifiers
  <2>3. /\ Append(SingleQueued, {x}) \in Seq(SUBSET Components)
        /\ Len(Append(SingleQueued, {x})) = Len(target) + 1
        /\ Append(SingleQueued, {x})[Len(target) + 1] = {x}
        /\ \A n \in 1 .. Len(target) : Append(SingleQueued, {x})[n] = {target[n]}
    BY <2>2, AppendProperties
  <2>4. ASSUME NEW k \in Nat, NEW n \in 1 .. k + 1
        PROVE  n = k + 1 \/ n \in 1 .. k
    OBVIOUS
  <2>5. ASSUME NEW n \in 1 .. Len(target) + 1
        PROVE  SingleQueued'[n] = Append(SingleQueued, {x})[n]
    <3>1. CASE n = Len(target) + 1
      BY <1>1, <2>1, <2>3, <3>1
    <3>2. CASE n \in 1 .. Len(target)
      BY <1>1, <2>1, <2>3, <3>2
    <3>3. QED  BY <1>1, <2>4, <3>1, <3>2
  <2>6. QED  BY <2>1, <2>3, <2>5, SeqEqual
<1>4. Single!Running' = Single!Running
  BY DEF Single!QueueModifier, Single!Running
<1>5. QED  BY <1>3, <1>4 DEF Single!Promise!Queue, Single!QueueModifier, SingleQueued

\* What is popped may start: the modifiers being executed are of other chains,
\* so of other components, and the older ones of its component are executed
LEMMA PopStarts ==
  ASSUME SingleInv, NEW h \in Chains, Single!Pop(h)
  PROVE  \E n \in Single!Promise!Modifiers : Single!Promise!Start(n)
<1> DEFINE n == Head(chains[h])
<1>1. n \in WaitingIn(h) /\ \A m \in WaitingIn(h) : n <= m
  BY SortsTail DEF SingleInv, ChainsInv, Single!Pop
<1>2. n \in Single!Modifiers /\ Hash[target[n]] = h /\ n \notin applied /\ n \in Nat \ {0}
  BY <1>1, SingleApart DEF WaitingIn
<1>3. executing /\ current[h] = 0 /\ current' = [current EXCEPT ![h] = n]
  BY DEF Single!Pop
<1>4. ASSUME NEW m \in Single!Running
      PROVE  m \in Single!Modifiers /\ Hash[target[m]] # h
  BY <1>3 DEF SingleInv, Single!TypeOK, CurrentInv, Single!Running
<1>5. n \notin Single!Running
  BY <1>2, <1>4
<1>6. \A m \in Single!Running : SingleQueued[m] \cap SingleQueued[n] = {}
  BY <1>2, <1>4 DEF SingleQueued
<1>7. ASSUME NEW m \in 1 .. n - 1, SingleQueued[m] \subseteq SingleQueued[n]
      PROVE  m \in applied
  <2>1. m \in Single!Modifiers /\ m # 0 /\ m < n
    BY <1>2 DEF SingleInv, Single!TypeOK, Single!Modifiers
  <2>2. Hash[target[m]] = h
    BY <1>2, <1>7, <2>1 DEF SingleQueued
  <2>3. m \notin WaitingIn(h)
    BY <1>1, <1>2, <2>1
  <2>4. QED  BY <1>3, <2>1, <2>2, <2>3 DEF WaitingIn
<1>8. Single!Running' = Single!Running \cup {n}
  <2>1. \A g \in Chains : current'[g] = IF g = h THEN n ELSE current[g]
    BY <1>3 DEF SingleInv, Single!TypeOK
  <2>2. Single!Running' = {current'[g] : g \in Chains} \ {0}
    BY DEF Single!Running
  <2>3. QED  BY <1>2, <1>3, <2>1, <2>2 DEF Single!Running
<1>9. UNCHANGED <<target, executing, applied>> /\ SingleQueued' = SingleQueued
  BY DEF Single!Pop, SingleQueued, Single!Modifiers
<1>10. Single!Promise!Start(n)
  BY <1>2, <1>3, <1>5, <1>6, <1>7, <1>8, <1>9 DEF Single!Promise!Start, SingleQueued
<1>11. QED  BY <1>2, <1>10, QueuedIs

LEMMA FinishFinishes ==
  ASSUME SingleInv, NEW h \in Chains, Single!Finish(h)
  PROVE  \E n \in Single!Promise!Modifiers : Single!Promise!Finish(n)
<1> DEFINE n == current[h]
<1>1. n \in Single!Modifiers /\ n # 0 /\ Hash[target[n]] = h
  BY DEF SingleInv, Single!TypeOK, CurrentInv, Single!Finish
<1>2. \A g \in Chains : g # h => current[g] # n
  BY <1>1 DEF SingleInv, CurrentInv
<1>3. Single!Running' = Single!Running \ {n}
  <2>1. \A g \in Chains : current'[g] = IF g = h THEN 0 ELSE current[g]
    BY DEF SingleInv, Single!TypeOK, Single!Finish
  <2>2. Single!Running' = {current'[g] : g \in Chains} \ {0}
    BY DEF Single!Running
  <2>3. QED  BY <1>2, <2>1, <2>2 DEF Single!Running
<1>4. n \in Single!Running
  BY <1>1 DEF Single!Running
<1>5. UNCHANGED <<target, executing>> /\ SingleQueued' = SingleQueued /\ applied' = applied \cup {n}
  BY DEF Single!Finish, SingleQueued, Single!Modifiers
<1>6. Single!Promise!Finish(n)
  BY <1>3, <1>4, <1>5 DEF Single!Promise!Finish, SingleQueued
<1>7. QED  BY <1>1, <1>6, QueuedIs

\* execute returns when the chains are empty: each modifier was in one of them
LEMMA ReturnComplete ==
  ASSUME SingleInv, Single!Return
  PROVE  applied = Single!Modifiers
<1>1. ASSUME NEW n \in Single!Modifiers
      PROVE  n \in applied
  <2> DEFINE h == Hash[target[n]]
  <2>1. h \in Chains /\ n # 0
    BY SingleApart
  <2>2. chains[h] = << >> /\ current[h] = 0
    BY <2>1 DEF Single!Return
  <2>3. WaitingIn(h) = {}
    BY <2>1, <2>2, SortsNothing DEF SingleInv, ChainsInv
  <2>4. QED  BY <2>1, <2>2, <2>3 DEF WaitingIn
<1>2. QED  BY <1>1 DEF SingleInv, Single!TypeOK

LEMMA ReturnReturns ==
  ASSUME SingleInv, Single!Return
  PROVE  Single!Promise!Return
<1>1. applied = Single!Promise!Modifiers
  BY ReturnComplete, QueuedIs
<1>2. UNCHANGED <<SingleQueued, Single!Running, applied>>
  BY DEF Single!Return, SingleQueued, Single!Modifiers, Single!Running
<1>3. QED  BY <1>1, <1>2 DEF Single!Promise!Return, Single!Return, SingleQueued

\* execute executes everything queued, once, before it returns, never two
\* modifiers of one component at once, and those of a component in order
THEOREM StagerKeepsPromise == Single!Spec => Single!RefinesModifierQueue
<1>1. Single!Init => Single!Promise!Init
  <2> SUFFICES ASSUME Single!Init PROVE Single!Promise!Init
    OBVIOUS
  <2>1. Single!Running = {}
    BY DEF Single!Init, Single!Running
  <2>2. SingleQueued = << >>
    BY DEF Single!Init, SingleQueued, Single!Modifiers
  <2>3. QED  BY <2>1, <2>2 DEF Single!Init, Single!Promise!Init, SingleQueued
<1>2. ASSUME SingleInv, [Single!Next]_(Single!vars)
      PROVE  [Single!Promise!Next]_(Single!Promise!vars)
  <2>1. ASSUME NEW x \in Components, Single!QueueModifier(x)
        PROVE  Single!Promise!Next
    BY <1>2, <2>1, QueueQueues DEF Single!Promise!Next
  <2>2. ASSUME Single!Execute
        PROVE  Single!Promise!Next
    BY <2>2
    DEF Single!Execute, Single!Promise!Next, Single!Promise!Execute, Single!Modifiers,
        Single!Running
  <2>3. ASSUME NEW h \in Chains, Single!Pop(h) \/ Single!Finish(h)
        PROVE  Single!Promise!Next
    BY <1>2, <2>3, PopStarts, FinishFinishes DEF Single!Promise!Next
  <2>4. ASSUME Single!Return
        PROVE  Single!Promise!Next
    BY <1>2, <2>4, ReturnReturns DEF Single!Promise!Next
  <2>5. CASE UNCHANGED Single!vars
    BY <2>5 DEF Single!vars, Single!Promise!vars, Single!Modifiers, Single!Running
  <2>6. QED  BY <1>2, <2>1, <2>2, <2>3, <2>4, <2>5 DEF Single!Next
<1>3. QED
  BY <1>1, <1>2, SingleInvariance, PTL
  DEF Single!Spec, Single!Promise!Spec, Single!RefinesModifierQueue

-----------------------------------------------------------------------------
(* The phases                                                              *)

PhaseInv ==
  /\ phase \in {"systems", "multi", "single"}
  /\ refs \in [Producers -> Targets \cup {{}}]
  /\ \A p \in Producers : refs[p] # {} => phase = "systems"
  /\ epc # "systems" => phase = "multi"
  /\ executing => phase = "single"

FrameInv == RInv /\ SingleInv /\ PhaseInv

-----------------------------------------------------------------------------
(* The steps of the parts                                                  *)

\* The single stager starts as it does alone
LEMMA SingleStarts == FrameInit => Single!Init
BY DEF FrameInit, Single!Init

\* A step of the Frame is a step of the single stager or leaves it alone
LEMMA SingleSteps == [FrameNext]_frameVars => [Single!Next]_(Single!vars)
<1> SUFFICES ASSUME [FrameNext]_frameVars
             PROVE  [Single!Next]_(Single!vars)
  OBVIOUS
<1>1. ASSUME NEW p \in Producers, NEW c \in Components, QueueMut(p, c)
      PROVE  Single!QueueModifier(c)
  BY <1>1 DEF QueueMut, Single!QueueModifier
<1>2. SingleExecute => Single!Execute
  BY DEF SingleExecute, Single!Execute
<1>3. ASSUME NEW h \in Chains, SinglePop(h)
      PROVE  Single!Pop(h)
  BY <1>3 DEF SinglePop, Single!Pop
<1>4. ASSUME NEW h \in Chains, SingleModify(h)
      PROVE  Single!Finish(h)
  BY <1>4 DEF SingleModify, Single!Finish
<1>5. NextFrame => Single!Return
  BY DEF NextFrame, Single!Return
<1>6. ASSUME \/ \E p \in Producers :
                  (\E P \in Targets : StartCall(p, P)) \/ QueueMultiMut(p) \/ CallStep(p)
             \/ ProcessQueues \/ MultiExecute \/ ActorStep \/ FrameStop
             \/ UNCHANGED frameVars
      PROVE  UNCHANGED Single!vars
  BY <1>6 DEF Single!vars, singleVars, frameVars, StartCall, QueueMultiMut, CallStep,
     QueueMultiMutBlocked, EndCall, ProcessQueues, MultiExecute, ActorStep, ActorRuns,
     MultiModify, FrameStop
<1>7. QED
  BY <1>1, <1>2, <1>3, <1>4, <1>5, <1>6 DEF FrameNext, ChainStep, Single!Next

\* A step of the Frame is a step of the multi stager or leaves it alone
LEMMA MultiSteps == PhaseInv /\ [FrameNext]_frameVars => [Next]_vars
<1> SUFFICES ASSUME PhaseInv, [FrameNext]_frameVars
             PROVE  [Next]_vars
  OBVIOUS
<1>1. ASSUME NEW p \in Producers, QueueMultiMut(p)
      PROVE  Next
  BY <1>1 DEF PhaseInv, QueueMultiMut, Next
<1>2. ASSUME NEW p \in Producers, QueueMultiMutBlocked(p)
      PROVE  Next
  BY <1>2 DEF QueueMultiMutBlocked, Next
<1>3. ProcessQueues \/ MultiExecute => Next
  BY DEF ProcessQueues, MultiExecute, Next
<1>4. ActorStep => Next
  BY DEF ActorStep, ActorRuns, MultiModify, Next, Actor
<1>5. ASSUME \/ \E p \in Producers :
                  \/ \E P \in Targets : StartCall(p, P)
                  \/ \E c \in Components : QueueMut(p, c)
                  \/ EndCall(p)
             \/ SingleExecute \/ NextFrame \/ FrameStop
             \/ \E h \in Chains : ChainStep(h)
             \/ UNCHANGED frameVars
      PROVE  UNCHANGED vars
  BY <1>5 DEF frameVars, StartCall, QueueMut, EndCall, SingleExecute, NextFrame, FrameStop,
     ChainStep, SinglePop, SingleModify
<1>6. QED
  BY <1>1, <1>2, <1>3, <1>4, <1>5 DEF FrameNext, CallStep

-----------------------------------------------------------------------------
(* The invariant                                                           *)

LEMMA NoEmptyTarget == {} \notin Targets
BY TargetsAssumption

\* The phases follow each other, and leave the owner where the next one begins
LEMMA PhaseKeeps ==
  ASSUME FrameInv, [FrameNext]_frameVars
  PROVE  PhaseInv'
<1>1. ASSUME NEW p \in Producers, NEW P \in Targets, StartCall(p, P)
      PROVE  PhaseInv'
  <2>1. /\ UNCHANGED <<phase, epc, executing>> /\ phase = "systems"
        /\ refs' = [refs EXCEPT ![p] = P]
    BY <1>1 DEF StartCall, singleVars, vars, main
  <2>2. QED  BY <2>1 DEF FrameInv, PhaseInv
<1>2. ASSUME NEW p \in Producers, EndCall(p)
      PROVE  PhaseInv'
  <2>1. UNCHANGED <<phase, epc, executing>> /\ refs' = [refs EXCEPT ![p] = {}]
    BY <1>2 DEF EndCall, singleVars, vars, main
  <2>2. QED  BY <2>1 DEF FrameInv, PhaseInv
<1>3. CASE ProcessQueues
  <2>1. /\ UNCHANGED <<refs, executing>> /\ phase = "systems" /\ phase' = "multi"
        /\ \A p \in Producers : refs[p] = {}
    BY <1>3 DEF ProcessQueues, singleVars
  <2>2. QED  BY <2>1 DEF FrameInv, PhaseInv
<1>4. CASE SingleExecute
  <2>1. /\ UNCHANGED <<refs, epc>> /\ phase = "multi" /\ phase' = "single"
        /\ epc = "systems"
    BY <1>4 DEF SingleExecute, vars, main
  <2>2. QED  BY <2>1 DEF FrameInv, PhaseInv
<1>5. CASE NextFrame
  <2>1. /\ UNCHANGED <<refs, epc>> /\ executing /\ executing' = FALSE /\ phase' = "systems"
    BY <1>5 DEF NextFrame, Single!Return, vars, main
  <2>2. QED  BY <2>1 DEF FrameInv, PhaseInv
<1>6. CASE MultiExecute
  <2>1. UNCHANGED <<phase, refs, executing>> /\ epc # "systems"
    BY <1>6 DEF MultiExecute, singleVars, Main, ParkSpuriously, SendClose, CheckComplete,
       Park, ResetComplete, SendResize, MainGoto
  <2>2. QED  BY <2>1 DEF FrameInv, PhaseInv
<1>7. CASE \/ \E p \in Producers :
                \/ \E c \in Components : QueueMut(p, c)
                \/ QueueMultiMut(p) \/ QueueMultiMutBlocked(p)
           \/ ActorStep
           \/ \E h \in Chains : ChainStep(h)
           \/ FrameStop \/ UNCHANGED frameVars
  <2>1. UNCHANGED <<phase, refs, epc, executing>>
    BY <1>7 DEF frameVars, QueueMut, Single!QueueModifier, QueueMultiMut, TrySend,
       QueueMultiMutBlocked, MarkFilled, BlockingSend, ActorStep, ActorRuns, MultiModify,
       Receive, OpenStage, StartModifier, FinishModifier, NextStage, Unpark, ChainStep,
       SinglePop, SingleModify, Single!Pop, Single!Finish, FrameStop, vars, singleVars, main
  <2>2. QED  BY <2>1 DEF FrameInv, PhaseInv
<1>8. QED
  BY <1>1, <1>2, <1>3, <1>4, <1>5, <1>6, <1>7 DEF FrameNext, CallStep

LEMMA FrameInvariance == FrameSpec => []FrameInv
<1>1. FrameInit => FrameInv
  <2>1. FrameInit => RInv
    BY InitOrders DEF FrameInit
  <2>2. FrameInit => SingleInv
    BY SingleStarts, SingleInitEstablishes
  <2>3. FrameInit => PhaseInv
    BY DEF FrameInit, Init, Single!Init, PhaseInv
  <2>4. QED  BY <2>1, <2>2, <2>3 DEF FrameInv
<1>2. FrameInv /\ [FrameNext]_frameVars => FrameInv'
  <2> SUFFICES ASSUME FrameInv, [FrameNext]_frameVars PROVE FrameInv'
    OBVIOUS
  <2>1. RInv'
    BY NoEmptyTarget, MultiSteps, NextOrders DEF FrameInv
  <2>2. SingleInv'
    BY SingleSteps, SingleNextKeeps DEF FrameInv
  <2>3. PhaseInv'
    BY PhaseKeeps
  <2>4. QED  BY <2>1, <2>2, <2>3 DEF FrameInv
<1>3. QED  BY <1>1, <1>2, PTL DEF FrameSpec

-----------------------------------------------------------------------------
(* The theorems                                                            *)

\* The modifiers of the single stager that run have a component each
LEMMA SinglesApart ==
  ASSUME FrameInv, NEW m \in Single!Running, NEW n \in Single!Running, m # n
  PROVE  target[m] # target[n]
BY DEF FrameInv, SingleInv, CurrentInv, Single!Running

\* The modifiers of the single stager run in the second execute only
LEMMA SinglesInSecond ==
  ASSUME FrameInv, Single!Running # {}
  PROVE  executing
BY DEF FrameInv, SingleInv, Single!TypeOK, Single!Running

\* A component that a modifier holds mutably is held by no other modifier, of
\* either stager, and by no call of a system
THEOREM AccessIsExclusive == FrameSpec => []ExclusiveAccess
<1>1. FrameInv => ExclusiveAccess
  <2> SUFFICES ASSUME FrameInv PROVE ExclusiveAccess
    OBVIOUS
  <2>1. running # {} => phase = "multi"
    BY RunningInExecute DEF FrameInv, RInv, PhaseInv
  <2>2. Single!Running # {} => phase = "single"
    BY SinglesInSecond DEF FrameInv, PhaseInv
  <2>3. ASSUME NEW m \in MultiRunning
        PROVE  /\ \A o \in (MultiRunning \cup SingleRunning) \ {m} :
                    ModifiedBy(m) \cap ModifiedBy(o) = {}
               /\ \A p \in Producers : refs[p] \cap ModifiedBy(m) = {}
    <3>1. PICK n \in running : m = <<"multi", n>>
      BY DEF MultiRunning
    <3>2. phase = "multi" /\ SingleRunning = {} /\ \A p \in Producers : refs[p] = {}
      BY <2>1, <2>2, <3>1 DEF SingleRunning, FrameInv, PhaseInv
    <3>3. ASSUME NEW o \in MultiRunning, o # m
          PROVE  ModifiedBy(m) \cap ModifiedBy(o) = {}
      <4>1. PICK k \in running : o = <<"multi", k>>
        BY DEF MultiRunning
      <4>2. queued[n] \cap queued[k] = {}
        BY <3>1, <3>3, <4>1, RunningDisjoint DEF FrameInv, RInv, Disjoint
      <4>3. QED  BY <3>1, <4>1, <4>2 DEF ModifiedBy
    <3>4. QED  BY <3>2, <3>3
  <2>4. ASSUME NEW m \in SingleRunning
        PROVE  /\ \A o \in (MultiRunning \cup SingleRunning) \ {m} :
                    ModifiedBy(m) \cap ModifiedBy(o) = {}
               /\ \A p \in Producers : refs[p] \cap ModifiedBy(m) = {}
    <3>1. PICK n \in Single!Running : m = <<"single", n>>
      BY DEF SingleRunning
    <3>2. phase = "single" /\ MultiRunning = {} /\ \A p \in Producers : refs[p] = {}
      BY <2>1, <2>2, <3>1 DEF MultiRunning, FrameInv, PhaseInv
    <3>3. ASSUME NEW o \in SingleRunning, o # m
          PROVE  ModifiedBy(m) \cap ModifiedBy(o) = {}
      <4>1. PICK k \in Single!Running : o = <<"single", k>>
        BY DEF SingleRunning
      <4>2. target[n] # target[k]
        BY <3>1, <3>3, <4>1, SinglesApart
      <4>3. ModifiedBy(m) = {target[n]} /\ ModifiedBy(o) = {target[k]}
        BY <3>1, <4>1 DEF ModifiedBy
      <4>4. QED  BY <4>2, <4>3
    <3>4. QED  BY <3>2, <3>3
  <2>5. QED  BY <2>3, <2>4 DEF ExclusiveAccess
<1>2. QED  BY <1>1, FrameInvariance, PTL

\* No component changes while systems run
THEOREM OneFrameRead == FrameSpec => SystemsReadOneFrame
<1>1. FrameInv /\ [FrameNext]_frameVars => [phase = "systems" => value' = value]_frameVars
  <2> SUFFICES ASSUME FrameInv, FrameNext, phase = "systems"
               PROVE  value' = value
    OBVIOUS
  <2>1. ASSUME NEW n \in Modifiers, MultiModify(n)
        PROVE  FALSE
    BY <2>1, RunningInExecute DEF MultiModify, FinishModifier, FrameInv, RInv, PhaseInv
  <2>2. ASSUME NEW h \in Chains, SingleModify(h)
        PROVE  FALSE
    <3>1. current[h] # 0
      BY <2>2 DEF SingleModify, Single!Finish
    <3>2. current[h] \in Single!Running
      BY <3>1 DEF Single!Running
    <3>3. QED  BY <3>2, SinglesInSecond DEF FrameInv, PhaseInv
  <2>3. QED
    BY <2>1, <2>2 DEF FrameNext, StartCall, QueueMut, QueueMultiMut, CallStep,
       QueueMultiMutBlocked, EndCall, ProcessQueues, MultiExecute, SingleExecute, NextFrame,
       ActorStep, ActorRuns, ChainStep, SinglePop, FrameStop, frameVars
<1>2. QED  BY <1>1, FrameInvariance, PTL DEF FrameSpec, SystemsReadOneFrame

\* The modifiers of the single stager are executed as ModifierQueue promises,
\* in every Frame
THEOREM SinglePromiseKept == FrameSpec => SingleKeepsPromise
<1>1. Single!Spec => Single!RefinesModifierQueue
  BY StagerKeepsPromise
<1>2. QED
  BY SingleStarts, SingleSteps, <1>1, PTL DEF FrameSpec, SingleKeepsPromise, Single!Spec

\* The modifiers of the multi stager are too
THEOREM MultiPromiseKept == FrameSpec => RefinesModifierQueue
<1>1. Spec => RefinesModifierQueue
  BY NoEmptyTarget, MultiKeepsPromise
<1>2. FrameInit => Init
  BY DEF FrameInit
<1>3. FrameInv => PhaseInv
  BY DEF FrameInv
<1>4. QED
  BY <1>1, <1>2, <1>3, MultiSteps, FrameInvariance, PTL DEF FrameSpec, Spec

-----------------------------------------------------------------------------
(* Each modification is made once                                          *)

\* After the first execute of a frame all multi modifiers are done, and no new
\* one comes before the next frame
DoneInv ==
  /\ phase = "multi" /\ epc = "systems" => Modifiers \subseteq done
  /\ phase = "single" => Modifiers \subseteq done
  /\ \A p \in Producers : ppc[p] # "idle" => refs[p] # {}

\* The modifiers of a component that have been executed
MultiDone(c) == {n \in done : c \in queued[n]}
SingleDone(c) == {n \in applied : target[n] = c}

ValueInv ==
  /\ value \in [Components -> Nat]
  /\ \A c \in Components : value[c] = Cardinality(MultiDone(c)) + Cardinality(SingleDone(c))

LEMMA DoneKeeps ==
  ASSUME FrameInv, DoneInv, FrameInv', [FrameNext]_frameVars
  PROVE  DoneInv'
<1>1. CASE ProcessQueues
  BY <1>1 DEF ProcessQueues, CallExecute, MainGoto, producers, DoneInv
<1>2. CASE MultiExecute
  <2>1. UNCHANGED <<queued, ppc, refs, phase, done>> /\ epc # "systems" /\ phase = "multi"
    BY <1>2 DEF MultiExecute, Main, ParkSpuriously, SendClose, CheckComplete, Park,
       ResetComplete, SendResize, MainGoto, producers, actor, FrameInv, PhaseInv
  <2>2. epc' = "systems" => Modifiers \subseteq done
    <3>1. epc' = "systems" => epc \in {"reset", "resize"}
      BY <1>2 DEF MultiExecute, Main, ParkSpuriously, SendClose, CheckComplete, Park,
         ResetComplete, SendResize, MainGoto
    <3>2. epc \in {"reset", "resize"} => Modifiers \subseteq done
      BY DEF FrameInv, RInv, RoundInv, IInv, HandshakeInv
    <3>3. QED  BY <3>1, <3>2
  <2>3. QED  BY <2>1, <2>2 DEF DoneInv, Modifiers
<1>3. CASE SingleExecute
  <2>1. UNCHANGED <<queued, ppc, refs, done, epc>> /\ phase' = "single"
        /\ phase = "multi" /\ epc = "systems"
    BY <1>3 DEF SingleExecute, vars, main, actor, producers
  <2>2. QED  BY <2>1 DEF DoneInv, Modifiers
<1>4. CASE NextFrame
  BY <1>4 DEF NextFrame, DoneInv, vars, producers
<1>5. CASE ActorStep
  <2>1. UNCHANGED <<queued, ppc, refs, phase, epc>> /\ done \subseteq done'
    BY <1>5 DEF ActorStep, ActorRuns, MultiModify, Receive, OpenStage, StartModifier,
       FinishModifier, NextStage, Unpark, main, producers
  <2>2. QED  BY <2>1 DEF DoneInv, Modifiers
<1>6. ASSUME NEW p \in Producers, NEW P \in Targets, StartCall(p, P)
      PROVE  DoneInv'
  <2>1. /\ UNCHANGED <<queued, ppc, done, phase, epc>> /\ refs' = [refs EXCEPT ![p] = P]
        /\ P # {}
    BY <1>6, NoEmptyTarget DEF StartCall, vars, producers, actor, main
  <2>2. QED  BY <2>1 DEF DoneInv, FrameInv, PhaseInv, Modifiers
<1>7. ASSUME NEW p \in Producers, EndCall(p)
      PROVE  DoneInv'
  <2>1. /\ UNCHANGED <<queued, ppc, done, phase, epc>> /\ refs' = [refs EXCEPT ![p] = {}]
        /\ ppc[p] = "idle"
    BY <1>7 DEF EndCall, vars, producers, actor, main
  <2>2. QED  BY <2>1 DEF DoneInv, FrameInv, PhaseInv, Modifiers
<1>8. ASSUME NEW p \in Producers, QueueMultiMut(p) \/ QueueMultiMutBlocked(p)
      PROVE  DoneInv'
  <2>1. refs[p] # {} /\ UNCHANGED <<refs, phase>>
    BY <1>8 DEF QueueMultiMut, QueueMultiMutBlocked, MarkFilled, BlockingSend, DoneInv
  <2>2. phase = "systems"
    BY <2>1 DEF FrameInv, PhaseInv
  <2>3. \A q \in Producers : q # p => ppc'[q] = ppc[q]
    BY <1>8 DEF QueueMultiMut, QueueMultiMutBlocked, TrySend, MarkFilled, BlockingSend,
       producers, FrameInv, RInv, IInv, Shape
  <2>4. QED  BY <2>1, <2>2, <2>3 DEF DoneInv
<1>9. CASE \/ \E p \in Producers, c \in Components : QueueMut(p, c)
           \/ \E h \in Chains : ChainStep(h)
           \/ FrameStop \/ UNCHANGED frameVars
  <2>1. UNCHANGED <<queued, ppc, refs, phase, done, epc>>
    BY <1>9 DEF QueueMut, ChainStep, SinglePop, SingleModify, FrameStop, frameVars, vars,
       producers, actor, main
  <2>2. QED  BY <2>1 DEF DoneInv, Modifiers
<1>10. QED
  BY <1>1, <1>2, <1>3, <1>4, <1>5, <1>6, <1>7, <1>8, <1>9 DEF FrameNext, CallStep

\* A set that gains n, or does not
LEMMA CountAdds ==
  ASSUME NEW S, IsFiniteSet(S), NEW n, n \notin S
  PROVE  Cardinality(S \cup {n}) = Cardinality(S) + 1 /\ Cardinality(S) \in Nat
BY FS_AddElement, FS_CardinalityType

LEMMA DoneFinite ==
  ASSUME FrameInv, NEW c
  PROVE  /\ IsFiniteSet(MultiDone(c)) /\ IsFiniteSet(SingleDone(c))
         /\ Cardinality(MultiDone(c)) \in Nat /\ Cardinality(SingleDone(c)) \in Nat
<1>1. IsFiniteSet(1 .. Len(queued)) /\ IsFiniteSet(1 .. Len(target))
  BY FS_Interval DEF FrameInv, RInv, IInv, Shape, SingleInv, Single!TypeOK
<1>2. MultiDone(c) \subseteq 1 .. Len(queued)
  BY DEF MultiDone, FrameInv, RInv, PlaceInv, Modifiers
<1>3. SingleDone(c) \subseteq 1 .. Len(target)
  BY DEF SingleDone, FrameInv, SingleInv, Single!TypeOK, Single!Modifiers
<1>4. QED  BY <1>1, <1>2, <1>3, FS_Subset, FS_CardinalityType

LEMMA ValueKeeps ==
  ASSUME FrameInv, ValueInv, [FrameNext]_frameVars
  PROVE  ValueInv'
<1>1. ASSUME NEW n \in Modifiers, MultiModify(n)
      PROVE  ValueInv'
  <2>1. /\ UNCHANGED <<queued, target, applied>> /\ done' = done \cup {n}
        /\ value' = [c \in Components |-> IF c \in queued[n] THEN value[c] + 1 ELSE value[c]]
    BY <1>1 DEF MultiModify, FinishModifier, Modified, singleVars
  <2>2. n \notin done
    BY <1>1 DEF MultiModify, FinishModifier, FrameInv, RInv, PlaceInv
  <2>3. ASSUME NEW c \in Components
        PROVE  value'[c] = Cardinality(MultiDone(c)') + Cardinality(SingleDone(c)')
    <3>1. SingleDone(c)' = SingleDone(c)
      BY <2>1 DEF SingleDone
    <3>2. MultiDone(c)' = {m \in done \cup {n} : c \in queued[m]}
      BY <2>1 DEF MultiDone
    <3>3. CASE c \in queued[n]
      <4>1. MultiDone(c)' = MultiDone(c) \cup {n} /\ n \notin MultiDone(c)
        BY <2>2, <3>2, <3>3 DEF MultiDone
      <4>2. Cardinality(MultiDone(c)') = Cardinality(MultiDone(c)) + 1
        BY <4>1, CountAdds, DoneFinite
      <4>3. QED  BY <2>1, <3>1, <3>3, <4>2, DoneFinite DEF ValueInv
    <3>4. CASE c \notin queued[n]
      <4>1. MultiDone(c)' = MultiDone(c)
        BY <3>2, <3>4 DEF MultiDone
      <4>2. QED  BY <2>1, <3>1, <3>4, <4>1 DEF ValueInv
    <3>5. QED  BY <3>3, <3>4
  <2>4. value' \in [Components -> Nat]
    BY <2>1 DEF ValueInv
  <2>5. QED  BY <2>3, <2>4 DEF ValueInv
<1>2. ASSUME NEW h \in Chains, SingleModify(h)
      PROVE  ValueInv'
  <2> DEFINE n == current[h]
  <2>1. /\ UNCHANGED <<queued, done, target>> /\ applied' = applied \cup {n}
        /\ value' = [c \in Components |-> IF c \in {target[n]} THEN value[c] + 1 ELSE value[c]]
    BY <1>2 DEF SingleModify, Single!Finish, Modified, vars, actor
  <2>2. n \notin applied
    BY <1>2 DEF SingleModify, Single!Finish, FrameInv, SingleInv, CurrentInv
  <2> HIDE DEF n
  <2>3. ASSUME NEW c \in Components
        PROVE  value'[c] = Cardinality(MultiDone(c)') + Cardinality(SingleDone(c)')
    <3>1. MultiDone(c)' = MultiDone(c)
      BY <2>1 DEF MultiDone
    <3>2. SingleDone(c)' = {m \in applied \cup {n} : target[m] = c}
      BY <2>1 DEF SingleDone
    <3>3. CASE c = target[n]
      <4>1. SingleDone(c)' = SingleDone(c) \cup {n} /\ n \notin SingleDone(c)
        BY <2>2, <3>2, <3>3 DEF SingleDone
      <4>2. Cardinality(SingleDone(c)') = Cardinality(SingleDone(c)) + 1
        BY <4>1, CountAdds, DoneFinite
      <4>3. QED  BY <2>1, <3>1, <3>3, <4>2, DoneFinite DEF ValueInv
    <3>4. CASE c # target[n]
      <4>1. SingleDone(c)' = SingleDone(c)
        BY <3>2, <3>4 DEF SingleDone
      <4>2. QED  BY <2>1, <3>1, <3>4, <4>1 DEF ValueInv
    <3>5. QED  BY <3>3, <3>4
  <2>4. value' \in [Components -> Nat]
    BY <2>1 DEF ValueInv
  <2>5. QED  BY <2>3, <2>4 DEF ValueInv
<1>3. ASSUME UNCHANGED <<value, done, applied>>,
             \A n \in Modifiers : queued'[n] = queued[n],
             \A n \in 1 .. Len(target) : target'[n] = target[n]
      PROVE  ValueInv'
  <2>1. \A n \in done : queued'[n] = queued[n]
    BY <1>3 DEF FrameInv, RInv, PlaceInv
  <2>2. \A n \in applied : target'[n] = target[n]
    BY <1>3 DEF FrameInv, SingleInv, Single!TypeOK, Single!Modifiers
  <2>3. ASSUME NEW c \in Components
        PROVE  MultiDone(c)' = MultiDone(c) /\ SingleDone(c)' = SingleDone(c)
    <3>1. MultiDone(c)' = {n \in done : c \in queued'[n]}
      BY <1>3 DEF MultiDone
    <3>2. SingleDone(c)' = {n \in applied : target'[n] = c}
      BY <1>3 DEF SingleDone
    <3>3. QED  BY <2>1, <2>2, <3>1, <3>2 DEF MultiDone, SingleDone
  <2>4. QED  BY <1>3, <2>3 DEF ValueInv
<1>4. queued \in Seq(Sets) /\ target \in Seq(Components)
  BY DEF FrameInv, RInv, IInv, Shape, SingleInv, Single!TypeOK
<1>5. ASSUME NEW p \in Producers, NEW c \in Components, QueueMut(p, c)
      PROVE  ValueInv'
  <2>1. UNCHANGED <<value, done, applied, queued>> /\ target' = Append(target, c)
    BY <1>5 DEF QueueMut, Single!QueueModifier, vars, actor
  <2>2. \A n \in 1 .. Len(target) : target'[n] = target[n]
    BY <1>4, <2>1, AppendProperties
  <2>3. QED  BY <1>3, <2>1, <2>2
<1>6. ASSUME NEW p \in Producers, QueueMultiMut(p) \/ QueueMultiMutBlocked(p)
      PROVE  ValueInv'
  <2>1. /\ UNCHANGED <<value, done, applied, target>>
        /\ queued' = queued \/ queued' = Append(queued, refs[p]) \/ queued' = Append(queued, holds[p])
    BY <1>6 DEF QueueMultiMut, QueueMultiMutBlocked, TrySend, MarkFilled, BlockingSend, actor,
       singleVars
  <2>2. refs[p] \in Sets /\ holds[p] \in Sets
    BY DEF FrameInv, PhaseInv, RInv, IInv, Shape, Sets
  <2>3. \A n \in Modifiers : queued'[n] = queued[n]
    BY <1>4, <2>1, <2>2, AppendProperties DEF Modifiers
  <2>4. QED  BY <1>3, <2>1, <2>3
<1>7. ASSUME \/ \E p \in Producers : (\E P \in Targets : StartCall(p, P)) \/ EndCall(p)
             \/ ProcessQueues \/ MultiExecute \/ ActorRuns \/ SingleExecute \/ NextFrame
             \/ \E h \in Chains : SinglePop(h)
             \/ FrameStop \/ UNCHANGED frameVars
      PROVE  ValueInv'
  <2>1. UNCHANGED <<value, done, applied, queued, target>>
    BY <1>7 DEF StartCall, EndCall, ProcessQueues, CallExecute, MultiExecute, Main, ParkSpuriously,
       SendClose, CheckComplete, Park, ResetComplete, SendResize, ActorRuns, Receive, OpenStage,
       StartModifier, NextStage, Unpark, SingleExecute, Single!Execute, NextFrame, Single!Return,
       SinglePop, Single!Pop, FrameStop, frameVars, singleVars, vars, actor
  <2>2. QED  BY <1>3, <2>1
<1>8. QED
  BY <1>1, <1>2, <1>5, <1>6, <1>7 DEF FrameNext, CallStep, ActorStep, ChainStep

LEMMA InitValues == FrameInit => ValueInv
<1> SUFFICES ASSUME FrameInit PROVE ValueInv
  OBVIOUS
<1>1. \A c \in Components : MultiDone(c) = {} /\ SingleDone(c) = {}
  BY DEF FrameInit, Init, Single!Init, MultiDone, SingleDone
<1>2. QED  BY <1>1, FS_EmptySet DEF FrameInit, ValueInv

\* When process_queues returns, each modifier that was queued has modified each of
\* its components once, and nothing else has changed them
THEOREM ModificationsApplied == FrameSpec => AppliedOnce
<1> DEFINE Once == phase' = "systems" /\ phase # "systems"
                     => \A c \in Components : value[c] = QueuedFor(c)
<1>1. FrameInit => DoneInv /\ ValueInv
  <2>1. FrameInit => DoneInv
    BY DEF FrameInit, Init, DoneInv
  <2>2. QED  BY <2>1, InitValues
<1>2. FrameInv /\ FrameInv' /\ DoneInv /\ ValueInv /\ [FrameNext]_frameVars
        => DoneInv' /\ ValueInv'
  BY DoneKeeps, ValueKeeps
<1>3. FrameInv /\ DoneInv /\ ValueInv /\ [FrameNext]_frameVars => [Once]_frameVars
  <2> SUFFICES ASSUME FrameInv, DoneInv, ValueInv, FrameNext,
                      phase' = "systems", phase # "systems",
                      NEW c \in Components
               PROVE  value[c] = QueuedFor(c)
    OBVIOUS
  <2>1. NextFrame
    BY DEF FrameNext, StartCall, QueueMut, QueueMultiMut, CallStep, QueueMultiMutBlocked, EndCall,
       ProcessQueues, MultiExecute, SingleExecute, ActorStep, ActorRuns, MultiModify, ChainStep,
       SinglePop, SingleModify, FrameStop, frameVars
  <2>2. Single!Return
    BY <2>1 DEF NextFrame, Single!Return
  <2>3. applied = Single!Modifiers
    BY <2>2, ReturnComplete DEF FrameInv
  <2>4. applied = 1 .. Len(target)
    BY <2>3 DEF Single!Modifiers
  <2>5. phase = "single"
    BY <2>2 DEF Single!Return, FrameInv, PhaseInv
  <2>6. done = Modifiers
    BY <2>5 DEF DoneInv, FrameInv, RInv, PlaceInv
  <2>7. QED  BY <2>4, <2>6 DEF ValueInv, QueuedFor, MultiDone, SingleDone
<1>4. QED  BY <1>1, <1>2, <1>3, FrameInvariance, PTL DEF FrameSpec, AppliedOnce

-----------------------------------------------------------------------------
(* The bounds                                                              *)

\* No channel has more than its capacity, the actor is at a stage or behind the
\* last one
RoomInv ==
  /\ \A g \in Channels : Len(chan[g]) <= Capacity(g)
  /\ stage <= Len(stages) + 1
  /\ filled \in BOOLEAN /\ token \in BOOLEAN

\* The calls that are about to queue a modifier; they count as if they had
AboutToSend == {p \in Producers : ppc[p] # "idle"}

BoundInv ==
  /\ IsFiniteSet(AboutToSend)
  /\ Len(queued) + Cardinality(AboutToSend) + Len(target) <= MaxMods

\* 2 ^ g is a number: it counts the subsets of g elements
LEMMA CapacityNumber ==
  ASSUME NEW g \in Nat
  PROVE  Capacity(g) \in Nat
<1>1. IsFiniteSet(1 .. g) /\ Cardinality(1 .. g) = g
  BY FS_Interval
<1>2. PICK c \in Nat : c = 2 ^ g
  BY <1>1, FS_SUBSET, FS_CardinalityType
<1>3. BufferSize * c \in Nat
  BY BufferSizeAssumption
<1>4. QED  BY <1>2, <1>3 DEF Capacity

\* Only messages that there is room for are sent
LEMMA RoomKeeps ==
  ASSUME RInv, RoomInv, [Next]_vars
  PROVE  RoomInv'
<1>1. IInv /\ Shape /\ sendTo \in Channels /\ Channels \subseteq Nat
  BY BoundsAssumption DEF RInv, IInv, Shape, Channels
<1>2. \A g \in Channels : Len(chan[g]) \in Nat /\ Capacity(g) \in Nat
  BY <1>1, CapacityNumber DEF Shape
<1>3. ASSUME NEW msg \in Int, Send(msg), HasRoom
      PROVE  \A g \in Channels : Len(chan'[g]) <= Capacity(g)
  <2>1. ASSUME NEW g \in Channels
        PROVE  Len(chan'[g]) <= Capacity(g)
    <3>1. CASE g = sendTo
      <4>1. Len(chan'[g]) = Len(chan[g]) + 1 /\ Len(chan[g]) < Capacity(g)
        BY <1>1, <1>3, <3>1, SendIs DEF HasRoom
      <4>2. QED  BY <1>2, <4>1
    <3>2. CASE g # sendTo
      BY <1>1, <1>3, <3>2, SendIs DEF RoomInv
    <3>3. QED  BY <3>1, <3>2
  <2>2. QED  BY <2>1
<1>4. ASSUME NEW p \in Producers, (\E P \in Targets : TrySend(p, P)) \/ MarkFilled(p) \/ BlockingSend(p)
      PROVE  RoomInv'
  <2>1. UNCHANGED <<stages, stage, token>> /\ filled' \in BOOLEAN
    BY <1>4 DEF TrySend, MarkFilled, BlockingSend, flags, actor, RoomInv
  <2>2. chan' = chan \/ (Send(Len(queued) + 1) /\ HasRoom)
    BY <1>4 DEF TrySend, MarkFilled, BlockingSend, channels
  <2>3. Len(queued) + 1 \in Int
    BY <1>1 DEF Shape
  <2>4. QED  BY <1>3, <2>1, <2>2, <2>3 DEF RoomInv
<1>5. CASE CallExecute \/ Main \/ ParkSpuriously
  <2>1. UNCHANGED <<stages, stage>> /\ filled' \in BOOLEAN /\ token' \in BOOLEAN
    BY <1>5 DEF CallExecute, Main, ParkSpuriously, SendClose, CheckComplete, Park, ResetComplete,
       SendResize, flags, actor, RoomInv
  <2>2. chan' = chan \/ (\E msg \in {Close, Resize} : Send(msg) /\ HasRoom)
    BY <1>5 DEF CallExecute, Main, ParkSpuriously, SendClose, CheckComplete, Park, ResetComplete,
       SendResize, channels
  <2>3. Close \in Int /\ Resize \in Int
    BY DEF Close, Resize
  <2>4. QED  BY <1>3, <2>1, <2>2, <2>3 DEF RoomInv
<1>6. CASE Receive
  <2> DEFINE msg == Head(chan[recvFrom])
             k == FirstFit(queued[msg])
  <2>1. /\ UNCHANGED <<filled, token>>
        /\ msg \in Modifiers \cup {Close, Resize}
        /\ stages' = stages \/ (msg \in Modifiers /\ stages' = Staged(msg, k))
        /\ stage' = stage \/ (stage' = 1 /\ stages' = stages)
    BY <1>1, <1>6, ReceiveIs DEF Receive, flags, Close, Resize, Modifiers
  <2>2. ASSUME NEW g \in Channels
        PROVE  Len(chan'[g]) <= Capacity(g)
    <3>1. CASE g = recvFrom
      <4>1. Len(chan'[g]) = Len(chan[g]) - 1 /\ Len(chan[g]) <= Capacity(g)
        BY <1>1, <1>6, <3>1, ReceiveTail DEF RoomInv
      <4>2. QED  BY <1>2, <4>1
    <3>2. CASE g # recvFrom
      BY <1>1, <1>6, <3>2, ReceiveTail DEF RoomInv
    <3>3. QED  BY <3>1, <3>2
  <2>3. ASSUME msg \in Modifiers, stages' = Staged(msg, k)
        PROVE  Len(stages) <= Len(stages') /\ Len(stages') \in Nat
    <3>1. stages \in Seq(Stage) /\ msg \in Nat /\ queued[msg] \in Sets /\ Len(stages) \in Nat
      BY <1>1, <2>3 DEF Shape, Modifiers
    <3>2. k \in 1 .. Len(stages) + 1
      BY <3>1, FirstFits
    <3>3. queued[msg] \subseteq UNION Targets
      BY <3>1 DEF Sets
    <3> HIDE DEF msg, k
    <3>4. /\ Staged(msg, k) \in Seq(Stage)
          /\ \A i \in 1 .. Len(stages) : i \in 1 .. Len(Staged(msg, k))
      BY <3>1, <3>2, <3>3, StagedIs
    <3>5. Len(stages) \in 1 .. Len(stages) \/ Len(stages) = 0
      BY <3>1
    <3>6. QED  BY <2>3, <3>1, <3>4, <3>5
  <2> HIDE DEF msg, k
  <2>4. stage \in Nat /\ Len(stages) \in Nat
    BY <1>1 DEF Shape
  <2>5. stage' <= Len(stages') + 1
    BY <2>1, <2>3, <2>4 DEF RoomInv
  <2>6. QED  BY <2>1, <2>2, <2>5 DEF RoomInv
<1>7. CASE OpenStage \/ (\E n \in Modifiers : StartModifier(n) \/ FinishModifier(n)) \/ NextStage
           \/ Unpark \/ UNCHANGED vars
  <2>1. UNCHANGED <<chan, filled>> /\ token' \in BOOLEAN
    BY <1>7 DEF OpenStage, StartModifier, FinishModifier, NextStage, Unpark, vars, channels, flags,
       RoomInv
  <2>2. Len(stages') = Len(stages)
    BY <1>1, <1>7 DEF OpenStage, StartModifier, FinishModifier, NextStage, Unpark, vars, actor, Shape
  <2>3. stage' = stage \/ (stage \in 1 .. Len(stages) /\ stage' = stage + 1)
    BY <1>1, <1>7 DEF OpenStage, StartModifier, FinishModifier, NextStage, Unpark, vars, actor, IInv,
       StagesInv
  <2>4. stage \in Nat /\ Len(stages) \in Nat
    BY <1>1 DEF Shape
  <2>5. QED  BY <2>1, <2>2, <2>3, <2>4 DEF RoomInv
<1>8. QED  BY <1>4, <1>5, <1>6, <1>7 DEF Next, Actor

\* A call counts as soon as it wants to queue a modifier
LEMMA BoundKeeps ==
  ASSUME FrameInv, BoundInv, [FrameNext]_frameVars
  PROVE  BoundInv'
<1> DEFINE q == Len(queued)
           a == Cardinality(AboutToSend)
           l == Len(target)
<1>1. q \in Nat /\ a \in Nat /\ l \in Nat /\ MaxMods \in Nat /\ q + a + l <= MaxMods
  BY FS_CardinalityType, BoundsAssumption
  DEF BoundInv, FrameInv, RInv, IInv, Shape, SingleInv, Single!TypeOK
<1>2. Total = q + a
  BY DEF Total, AboutToSend
<1>3. queued \in Seq(Sets) /\ target \in Seq(Components)
      /\ ppc \in [Producers -> {"idle", "full", "send"}]
  BY DEF FrameInv, RInv, IInv, Shape, SingleInv, Single!TypeOK
<1>4. ASSUME NEW p \in Producers, NEW c \in Components, QueueMut(p, c)
      PROVE  BoundInv'
  <2>1. UNCHANGED <<queued, ppc>> /\ target' = Append(target, c) /\ Total + l < MaxMods
    BY <1>4 DEF QueueMut, BelowBound, Single!QueueModifier, vars, producers
  <2>2. AboutToSend' = AboutToSend /\ Len(target') = l + 1
    BY <1>3, <2>1, AppendProperties DEF AboutToSend
  <2>3. q + a + (l + 1) <= MaxMods
    BY <1>1, <1>2, <2>1
  <2>4. QED  BY <2>1, <2>2, <2>3 DEF BoundInv
<1>5. ASSUME NEW p \in Producers, QueueMultiMut(p)
      PROVE  BoundInv'
  <2>1. UNCHANGED target /\ q + a + l < MaxMods /\ ppc[p] = "idle" /\ refs[p] \in Sets
    BY <1>2, <1>5 DEF QueueMultiMut, BelowBound, TrySend, singleVars, FrameInv, PhaseInv, Sets
  <2>2. CASE HasRoom
    <3>1. UNCHANGED ppc /\ queued' = Append(queued, refs[p])
      BY <1>5, <2>2 DEF QueueMultiMut, TrySend, producers
    <3>2. AboutToSend' = AboutToSend /\ Len(queued') = q + 1
      BY <1>3, <2>1, <3>1, AppendProperties DEF AboutToSend
    <3>3. (q + 1) + a + l <= MaxMods
      BY <1>1, <2>1
    <3>4. QED  BY <2>1, <3>2, <3>3 DEF BoundInv
  <2>3. CASE ~HasRoom
    <3>1. UNCHANGED queued /\ ppc' = [ppc EXCEPT ![p] = "full"]
      BY <1>5, <2>3 DEF QueueMultiMut, TrySend
    <3>2. AboutToSend' = AboutToSend \cup {p} /\ p \notin AboutToSend
      BY <1>3, <2>1, <3>1 DEF AboutToSend
    <3>3. IsFiniteSet(AboutToSend') /\ Cardinality(AboutToSend') = a + 1
      BY <3>2, FS_AddElement DEF BoundInv
    <3>4. q + (a + 1) + l <= MaxMods
      BY <1>1, <2>1
    <3>5. QED  BY <2>1, <3>1, <3>3, <3>4 DEF BoundInv
  <2>4. QED  BY <2>2, <2>3
<1>6. ASSUME NEW p \in Producers, MarkFilled(p), UNCHANGED singleVars
      PROVE  BoundInv'
  <2>1. UNCHANGED <<queued, target>> /\ ppc' = [ppc EXCEPT ![p] = "send"] /\ ppc[p] = "full"
    BY <1>6 DEF MarkFilled, singleVars
  <2>2. AboutToSend' = AboutToSend
    BY <1>3, <2>1 DEF AboutToSend
  <2>3. QED  BY <2>1, <2>2 DEF BoundInv
<1>7. ASSUME NEW p \in Producers, BlockingSend(p), UNCHANGED singleVars
      PROVE  BoundInv'
  <2>1. UNCHANGED target /\ ppc' = [ppc EXCEPT ![p] = "idle"] /\ ppc[p] = "send"
        /\ queued' = Append(queued, holds[p]) /\ holds[p] \in Sets
    BY <1>7 DEF BlockingSend, singleVars, FrameInv, RInv, IInv, Shape
  <2>2. AboutToSend' = AboutToSend \ {p} /\ p \in AboutToSend
    BY <1>3, <2>1 DEF AboutToSend
  <2>3. IsFiniteSet(AboutToSend') /\ Cardinality(AboutToSend') = a - 1
    BY <2>2, FS_RemoveElement DEF BoundInv
  <2>4. Len(queued') = q + 1
    BY <1>3, <2>1, AppendProperties
  <2>5. (q + 1) + (a - 1) + l <= MaxMods
    BY <1>1
  <2>6. QED  BY <2>1, <2>3, <2>4, <2>5 DEF BoundInv
<1>8. ASSUME \/ \E p \in Producers : (\E P \in Targets : StartCall(p, P)) \/ EndCall(p)
             \/ ProcessQueues \/ MultiExecute \/ ActorStep \/ SingleExecute \/ NextFrame
             \/ \E h \in Chains : ChainStep(h)
             \/ FrameStop \/ UNCHANGED frameVars
      PROVE  BoundInv'
  <2>1. UNCHANGED <<queued, target, ppc>>
    BY <1>8 DEF StartCall, EndCall, ProcessQueues, CallExecute, MultiExecute, Main, ParkSpuriously,
       SendClose, CheckComplete, Park, ResetComplete, SendResize, ActorStep, ActorRuns, MultiModify,
       Receive, OpenStage, StartModifier, FinishModifier, NextStage, Unpark, SingleExecute,
       Single!Execute, NextFrame, Single!Return, ChainStep, SinglePop, SingleModify, Single!Pop,
       Single!Finish, FrameStop, frameVars, singleVars, vars, producers
  <2>2. AboutToSend' = AboutToSend
    BY <2>1 DEF AboutToSend
  <2>3. QED  BY <2>1, <2>2 DEF BoundInv
<1>9. QED
  BY <1>4, <1>5, <1>6, <1>7, <1>8 DEF FrameNext, CallStep, QueueMultiMutBlocked

\* Every variable of a frame keeps its type: no channel holds more messages than
\* it has room for, and no component is modified more often than was queued
THEOREM FrameTypeCorrect == FrameSpec => []FrameTypeOK
<1> DEFINE SizeInv == RoomInv /\ BoundInv /\ ValueInv
<1>1. FrameInit => SizeInv
  <2> SUFFICES ASSUME FrameInit PROVE SizeInv
    OBVIOUS
  <2>1. RoomInv
    <3>1. \A g \in Channels : chan[g] = << >> /\ Capacity(g) \in Nat
      BY CapacityNumber, BoundsAssumption DEF FrameInit, Init, Channels
    <3>2. Len(<< >>) = 0
      OBVIOUS
    <3>3. \A g \in Channels : Len(chan[g]) <= Capacity(g)
      BY <3>1, <3>2
    <3>4. stages = << >> /\ stage = 0 /\ filled = FALSE /\ token = FALSE
      BY DEF FrameInit, Init
    <3>5. stage <= Len(stages) + 1
      BY <3>2, <3>4
    <3>6. QED  BY <3>3, <3>4, <3>5 DEF RoomInv
  <2>2. BoundInv
    <3>1. AboutToSend = {} /\ Len(queued) = 0 /\ Len(target) = 0
      BY DEF FrameInit, Init, Single!Init, AboutToSend
    <3>2. QED  BY <3>1, FS_EmptySet, BoundsAssumption DEF BoundInv
  <2>3. ValueInv
    BY InitValues
  <2>4. QED  BY <2>1, <2>2, <2>3
<1>2. FrameInv /\ SizeInv /\ [FrameNext]_frameVars => SizeInv'
  <2> SUFFICES ASSUME FrameInv, SizeInv, [FrameNext]_frameVars PROVE SizeInv'
    OBVIOUS
  <2>1. RoomInv'
    BY RoomKeeps, MultiSteps DEF FrameInv
  <2>2. QED  BY <2>1, BoundKeeps, ValueKeeps
<1>3. FrameInv /\ SizeInv => FrameTypeOK
  <2> SUFFICES ASSUME FrameInv, SizeInv PROVE FrameTypeOK
    OBVIOUS
  <2>1. PICK q \in Nat, l \in Nat, a \in Nat :
          /\ q = Len(queued) /\ l = Len(target) /\ a = Cardinality(AboutToSend)
          /\ q + a + l <= MaxMods /\ MaxMods \in Nat
    BY FS_CardinalityType, BoundsAssumption
    DEF BoundInv, FrameInv, RInv, IInv, Shape, SingleInv, Single!TypeOK
  <2>2. TypeOK
    <3>1. queued \in Seq(Targets) /\ Len(queued) <= MaxMods
      BY <2>1 DEF FrameInv, RInv, TargetsInv
    <3>2. \A g \in 0 .. MaxRounds :
            /\ Len(chan[g]) <= Capacity(g)
            /\ \A i \in 1 .. Len(chan[g]) : chan[g][i] \in Messages
      BY DEF RoomInv, Channels, FrameInv, RInv, IInv, ChannelInv, Messages
    <3>3. sendTo \in 0 .. MaxRounds /\ recvFrom \in 0 .. sendTo /\ rounds \in 0 .. MaxRounds
      BY BoundsAssumption DEF FrameInv, RInv, IInv, Shape
    <3>4. /\ filled \in BOOLEAN /\ complete \in BOOLEAN /\ token \in BOOLEAN
          /\ ppc \in [Producers -> {"idle", "full", "send"}]
          /\ holds \in [Producers -> Targets \cup {{}}]
          /\ epc \in {"systems", "close", "check", "park", "reset", "resize"}
          /\ apc \in {"recv", "open", "drain", "unpark"}
          /\ running \subseteq Modifiers /\ done \subseteq Modifiers
      BY DEF RoomInv, FrameInv, RInv, IInv, HandshakeInv, Shape, Sets, PlaceInv
    <3>5. \A i \in 1 .. Len(stages) : stages[i].mods \subseteq Modifiers
      BY DEF FrameInv, RInv, IInv, StagesInv
    <3>6. stage \in 0 .. Len(stages) + 1
      BY DEF RoomInv, FrameInv, RInv, IInv, Shape
    <3>7. QED  BY <3>1, <3>2, <3>3, <3>4, <3>5, <3>6 DEF TypeOK
  <2>3. Single!TypeOK
    BY DEF FrameInv, SingleInv
  <2>4. ASSUME NEW c \in Components
        PROVE  value[c] \in 0 .. MaxMods
    <3>1. MultiDone(c) \subseteq 1 .. q /\ SingleDone(c) \subseteq 1 .. l
      BY <2>1 DEF MultiDone, SingleDone, FrameInv, RInv, PlaceInv, Modifiers, SingleInv,
         Single!TypeOK, Single!Modifiers
    <3>2. Cardinality(MultiDone(c)) <= q /\ Cardinality(SingleDone(c)) <= l
      <4>1. IsFiniteSet(1 .. q) /\ Cardinality(1 .. q) = q
            /\ IsFiniteSet(1 .. l) /\ Cardinality(1 .. l) = l
        BY FS_Interval
      <4>2. QED  BY <3>1, <4>1, FS_Subset
    <3>3. PICK m \in Nat, s \in Nat : m = Cardinality(MultiDone(c)) /\ s = Cardinality(SingleDone(c))
      BY DoneFinite
    <3>4. value[c] = m + s /\ m <= q /\ s <= l
      BY <3>2, <3>3 DEF ValueInv
    <3>5. QED  BY <2>1, <3>4
  <2>5. value \in [Components -> 0 .. MaxMods]
    BY <2>4 DEF ValueInv
  <2>6. QED  BY <2>2, <2>3, <2>5 DEF FrameTypeOK, FrameInv, PhaseInv
<1>4. QED  BY <1>1, <1>2, <1>3, FrameInvariance, PTL DEF FrameSpec
=============================================================================
