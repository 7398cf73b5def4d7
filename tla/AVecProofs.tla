------------------------------ MODULE AVecProofs ------------------------------
(***************************************************************************)
(* Proofs about AVec, for any number of threads, any capacity and any      *)
(* bound.                                                                  *)
(*                                                                         *)
(* CountInv carries the argument: the indices that pushes have written or  *)
(* hold are those below len, so the index that the next fetch_add gives is *)
(* nobody's; and len is at least the capacity plus the number of failing   *)
(* pushes, so taking an increment back never uncovers a slot.              *)
(***************************************************************************)
EXTENDS AVec, FiniteSetTheorems, TLAPS

-----------------------------------------------------------------------------
(* The inductive invariant                                                 *)

\* The indices that are written or held
Given == written \cup Held

\* A push that writes has an index below the capacity
TicketInv == \A t \in At("write") : ticket[t] \in Slots

\* LenExact with the overruns counted too: len keeps their increments
CountInv ==
  /\ \A t, u \in At("write") : ticket[t] = ticket[u] => t = u
  /\ written \cap Held = {}
  /\ written \cup Held = Covered \cap Slots
  /\ vecLen = Cardinality(written \cup Held) + Cardinality(At("undo"))
           + Cardinality(At("overrun")) + overruns
  /\ At("undo") \cup At("overrun") # {} \/ overruns > 0 => Full

IInv == VecTypeOK /\ CountInv /\ ReadSound /\ TicketInv

-----------------------------------------------------------------------------
(* Lemmas                                                                  *)

\* A thread that goes from one step to another leaves the threads at the one,
\* joins those at the other, and changes nothing else
LEMMA Moved ==
  ASSUME NEW t \in Pushers, NEW from, NEW to, from # to,
         vecPc \in [Pushers -> {"idle", "write", "undo", "overrun"}],
         vecPc[t] = from, vecPc' = [vecPc EXCEPT ![t] = to]
  PROVE  /\ t \in At(from) /\ t \notin At(to)
         /\ At(from)' = At(from) \ {t}
         /\ At(to)' = At(to) \cup {t}
         /\ \A s : s # from /\ s # to => At(s)' = At(s)
BY DEF At

\* What lies below a length is less than it, and one more is below the next
LEMMA Below ==
  ASSUME NEW n \in Int
  PROVE  /\ \A S \in SUBSET (0 .. n - 1) : \A i \in S : i < n
         /\ n \notin 0 .. n - 1
         /\ n \in Nat => 0 .. (n + 1) - 1 = (0 .. n - 1) \cup {n}
OBVIOUS

\* The threads at a step are finitely many
LEMMA FiniteAt ==
  ASSUME NEW s
  PROVE  IsFiniteSet(At(s)) /\ Cardinality(At(s)) \in Nat
<1>1. At(s) \in SUBSET Pushers
  BY DEF At
<1>2. QED  BY <1>1, PushersAssumption, FS_Subset, FS_CardinalityType

\* There are as many slots as the capacity says
LEMMA SlotsCount ==
  /\ IsFiniteSet(Slots)
  /\ Cardinality(Slots) = Capacity
  /\ \A P \in SUBSET Slots : IsFiniteSet(P) /\ Cardinality(P) \in Nat
<1>1. IsFiniteSet(Slots) /\ Cardinality(Slots) = Capacity
  BY CapacityAssumption, FS_Interval DEF Slots
<1>2. QED  BY <1>1, FS_Subset, FS_CardinalityType

\* What is written or held is a set of slots
LEMMA GivenSlots ==
  ASSUME IInv
  PROVE  Given \in SUBSET Slots
BY DEF IInv, VecTypeOK, TicketInv, Given, Held

\* All slots are given out as soon as len reaches the capacity
LEMMA FullAtCapacity ==
  ASSUME IInv, vecLen >= Capacity
  PROVE  Full
<1>1. Slots \subseteq Covered
  BY CapacityAssumption DEF IInv, VecTypeOK, Covered, Slots
<1>2. QED  BY <1>1 DEF IInv, CountInv, Full

\* While a push is about to fail, or to overrun, len is beyond the capacity by
\* as many as there are of them
LEMMA BeyondCapacity ==
  ASSUME IInv, At("undo") \cup At("overrun") # {}
  PROVE  vecLen > Capacity
<1>1. Full /\ vecLen = Capacity + Cardinality(At("undo")) + Cardinality(At("overrun")) + overruns
  BY SlotsCount DEF IInv, CountInv, Full
<1>2. Cardinality(At("undo")) > 0 \/ Cardinality(At("overrun")) > 0
  BY FiniteAt, FS_EmptySet
<1>3. QED  BY <1>1, <1>2, FiniteAt, CapacityAssumption DEF IInv, VecTypeOK

\* ReadSound outlasts a step that takes nothing back from what is given out
LEMMA ReadersKept ==
  ASSUME IInv, UNCHANGED readVars, Given \subseteq Given',
         Given' = Covered' \cap Slots, vecLen' \in Int
  PROVE  ReadSound'
<1>1. Given' \subseteq Slots
  OBVIOUS
<1>2. \A i \in written' : i < vecLen'
  <2>1. written' \subseteq 0 .. vecLen' - 1
    BY DEF Given, Covered
  <2>2. QED  BY <2>1, Below
<1>3. Full => Full'
  BY <1>1 DEF Full, Given
<1>4. QED
  BY <1>2, <1>3 DEF IInv, ReadSound, readVars, Given

-----------------------------------------------------------------------------
(* The steps of push                                                       *)

LEMMA TakeKeeps ==
  ASSUME IInv, NEW t \in Pushers, Take(t)
  PROVE  IInv'
<1> DEFINE to == Outcome(vecLen)
<1> USE DEF IInv
<1>0. /\ vecPc[t] = "idle" /\ vecPc' = [vecPc EXCEPT ![t] = to]
      /\ ticket' = [ticket EXCEPT ![t] = vecLen]
      /\ vecLen' = vecLen + 1 /\ vecLen < MaxLen
      /\ written' = written /\ overruns' = overruns /\ UNCHANGED readVars
  BY DEF Take
<1>1. to \in {"write", "undo", "overrun"} /\ vecLen \in Nat /\ Capacity \in Nat
  BY CapacityAssumption DEF Outcome, VecTypeOK
<1>2. VecTypeOK'
  BY <1>0, <1>1, MaxLenAssumption DEF VecTypeOK, readVars
<1>3. \A k \in {"write", "undo", "overrun"} : to = k =>
        /\ t \notin At(k)
        /\ At(k)' = At(k) \cup {t}
        /\ \A s \in {"write", "undo", "overrun"} \ {k} : At(s)' = At(s)
  <2> SUFFICES ASSUME NEW k \in {"write", "undo", "overrun"}, to = k
               PROVE  /\ t \notin At(k)
                      /\ At(k)' = At(k) \cup {t}
                      /\ \A s \in {"write", "undo", "overrun"} \ {k} : At(s)' = At(s)
    OBVIOUS
  <2>1. vecPc' = [vecPc EXCEPT ![t] = k] /\ "idle" # k
    BY <1>0
  <2>2. vecPc[t] = "idle" /\ vecPc \in [Pushers -> {"idle", "write", "undo", "overrun"}]
    BY <1>0 DEF VecTypeOK
  <2>3. /\ t \notin At(k) /\ At(k)' = At(k) \cup {t}
        /\ \A s : s # "idle" /\ s # k => At(s)' = At(s)
    BY <2>1, <2>2, Moved, ZenonT(60)
  <2>4. QED  BY <2>3
<1>4. \A u \in At("write") : ticket'[u] = ticket[u]
  BY <1>0 DEF At, VecTypeOK
<1>5. CASE vecLen < Capacity
  <2>1. to = "write" /\ vecLen \in Slots
    BY <1>5, <1>1 DEF Outcome, Slots
  <2>2. /\ At("write")' = At("write") \cup {t}
        /\ At("undo")' = At("undo") /\ At("overrun")' = At("overrun")
    BY <2>1, <1>3, "write" # "undo", "write" # "overrun"
  <2>3. ticket'[t] = vecLen
    BY <1>0 DEF VecTypeOK
  <2>4. Held' = Held \cup {vecLen}
    BY <2>2, <2>3, <1>4 DEF Held
  <2>5. vecLen \notin Given
    <3>1. Given = Covered \cap Slots
      BY DEF CountInv, Given
    <3>2. vecLen \notin Covered
      BY <1>1, Below DEF Covered
    <3>3. QED  BY <3>1, <3>2
  <2>6. Given' = Given \cup {vecLen}
    BY <2>4, <1>0 DEF Given
  <2>7. Given' = Covered' \cap Slots
    <3>1. Covered' = Covered \cup {vecLen}
      BY <1>0, <1>1, Below DEF Covered
    <3>2. QED  BY <3>1, <2>6, <2>1 DEF CountInv, Given, Slots
  <2>8. Cardinality(Given') = Cardinality(Given) + 1
    BY <2>5, <2>6, GivenSlots, SlotsCount, FS_AddElement
  <2>9. At("undo") = {} /\ At("overrun") = {} /\ overruns = 0
    <3>1. At("undo") = {} /\ At("overrun") = {}
      BY <1>5, <1>1, BeyondCapacity
    <3>2. ~Full
      BY <2>1, <2>5 DEF Full, Given
    <3>3. QED  BY <3>1, <3>2 DEF CountInv, VecTypeOK
  <2>10. CountInv'
    <3>1. \A u, v \in At("write")' : ticket'[u] = ticket'[v] => u = v
      BY <2>2, <2>3, <2>5, <1>4 DEF CountInv, Given, Held
    <3>2. written' \cap Held' = {}
      BY <2>4, <2>5, <1>0 DEF CountInv, Given
    <3>3. vecLen' = Cardinality(Given') + Cardinality(At("undo")') + Cardinality(At("overrun")')
                   + overruns'
      BY <2>2, <2>8, <1>0, <1>1, FiniteAt, GivenSlots, SlotsCount DEF CountInv, Given, VecTypeOK
    <3>4. At("undo")' \cup At("overrun")' = {} /\ overruns' = 0
      BY <2>2, <2>9, <1>0
    <3>5. QED  BY <3>1, <3>2, <3>3, <3>4, <2>7 DEF CountInv, Given
  <2>11. ReadSound'
    BY <2>6, <2>7, <1>0, ReadersKept
  <2>12. TicketInv'
    BY <2>1, <2>2, <2>3, <1>4 DEF TicketInv
  <2>13. QED  BY <1>2, <2>10, <2>11, <2>12
<1>6. CASE vecLen >= Capacity
  <2>1. to # "write" /\ to \in {"undo", "overrun"}
    BY <1>6, <1>1 DEF Outcome
  <2>2. At("write")' = At("write")
    BY <2>1, <1>3
  <2>3. Held' = Held
    BY <2>2, <1>4 DEF Held
  <2>4. Given' = Given /\ Full /\ Full'
    BY <2>3, <1>0, <1>6, FullAtCapacity DEF Given, Full
  <2>5. Given' = Covered' \cap Slots
    BY <2>4, <1>0, <1>1, <1>6 DEF Given, Full, Covered, Slots
  <2>6. /\ Cardinality(At("undo")') \in Nat /\ Cardinality(At("overrun")') \in Nat
        /\ Cardinality(At("undo")') + Cardinality(At("overrun")')
             = Cardinality(At("undo")) + Cardinality(At("overrun")) + 1
    <3>1. CASE to = "undo"
      <4>1. At("undo")' = At("undo") \cup {t} /\ t \notin At("undo")
        BY <3>1, <1>3
      <4>2. At("overrun")' = At("overrun")
        BY <3>1, <1>3, "undo" # "overrun"
      <4>3. QED  BY <4>1, <4>2, FiniteAt, FS_AddElement
    <3>2. CASE to = "overrun"
      <4>1. At("overrun")' = At("overrun") \cup {t} /\ t \notin At("overrun")
        BY <3>2, <1>3
      <4>2. At("undo")' = At("undo")
        BY <3>2, <1>3, "undo" # "overrun"
      <4>3. QED  BY <4>1, <4>2, FiniteAt, FS_AddElement
    <3>3. QED  BY <2>1, <3>1, <3>2
  <2>7. CountInv'
    <3>1. \A u, v \in At("write")' : ticket'[u] = ticket'[v] => u = v
      BY <2>2, <1>4 DEF CountInv
    <3>2. written' \cap Held' = {}
      BY <2>3, <1>0 DEF CountInv
    <3>3. vecLen' = Cardinality(Given') + Cardinality(At("undo")') + Cardinality(At("overrun")')
                   + overruns'
      <4>1. vecLen = Cardinality(Given) + (Cardinality(At("undo")) + Cardinality(At("overrun")))
                    + overruns
        BY FiniteAt, GivenSlots, SlotsCount DEF CountInv, Given, VecTypeOK
      <4>2. Cardinality(Given) \in Nat
        BY GivenSlots, SlotsCount
      <4>3. QED  BY <4>1, <4>2, <2>4, <2>6, <1>0, <1>1, FiniteAt DEF VecTypeOK
    <3>4. QED  BY <3>1, <3>2, <3>3, <2>4, <2>5 DEF CountInv, Given
  <2>8. ReadSound'
    BY <2>4, <2>5, <1>0, ReadersKept
  <2>9. TicketInv'
    BY <2>2, <1>4 DEF TicketInv
  <2>10. QED  BY <1>2, <2>7, <2>8, <2>9
<1>7. QED  BY <1>1, <1>5, <1>6

LEMMA WriteKeeps ==
  ASSUME IInv, NEW t \in Pushers, Write(t)
  PROVE  IInv'
<1> USE DEF IInv
<1>0. /\ vecPc[t] = "write" /\ vecPc' = [vecPc EXCEPT ![t] = "idle"]
      /\ written' = written \cup {ticket[t]}
      /\ vecLen' = vecLen /\ ticket' = ticket /\ overruns' = overruns /\ UNCHANGED readVars
  BY DEF Write
<1>1. /\ t \in At("write") /\ At("write")' = At("write") \ {t}
      /\ \A s : s # "write" /\ s # "idle" => At(s)' = At(s)
  <2>1. vecPc \in [Pushers -> {"idle", "write", "undo", "overrun"}] /\ "write" # "idle"
    BY DEF VecTypeOK
  <2>2. QED  BY <1>0, <2>1, Moved
<1>2. At("undo")' = At("undo") /\ At("overrun")' = At("overrun")
  BY <1>1, "undo" # "write", "undo" # "idle", "overrun" # "write", "overrun" # "idle"
<1>3. ticket[t] \in Slots
  BY <1>1 DEF TicketInv
<1>4. VecTypeOK'
  BY <1>0, <1>3 DEF VecTypeOK, readVars
<1>5. Held' = Held \ {ticket[t]} /\ ticket[t] \in Held
  BY <1>0, <1>1 DEF Held, CountInv
<1>6. Given' = Given
  BY <1>0, <1>5 DEF Given
<1>7. Covered' = Covered
  BY <1>0 DEF Covered
<1>8. CountInv'
  <2>1. \A u, v \in At("write")' : ticket'[u] = ticket'[v] => u = v
    BY <1>0, <1>1 DEF CountInv
  <2>2. written' \cap Held' = {}
    BY <1>0, <1>5 DEF CountInv
  <2>3. Given' = Covered' \cap Slots
    BY <1>6, <1>7 DEF CountInv, Given
  <2>4. vecLen' = Cardinality(Given') + Cardinality(At("undo")') + Cardinality(At("overrun")')
                 + overruns'
    BY <1>0, <1>2, <1>6 DEF CountInv, Given
  <2>5. At("undo")' \cup At("overrun")' # {} \/ overruns' > 0 => Full'
    BY <1>0, <1>2, <1>6 DEF CountInv, Full, Given
  <2>6. QED  BY <2>1, <2>2, <2>3, <2>4, <2>5 DEF CountInv, Given
<1>9. ReadSound'
  <2>1. Given' = Covered' \cap Slots /\ vecLen' \in Int
    BY <1>8, <1>4 DEF CountInv, Given, VecTypeOK
  <2>2. QED  BY <2>1, <1>0, <1>6, ReadersKept
<1>10. TicketInv'
  BY <1>0, <1>1 DEF TicketInv
<1>11. QED  BY <1>4, <1>8, <1>9, <1>10

LEMMA UndoKeeps ==
  ASSUME IInv, NEW t \in Pushers, Undo(t)
  PROVE  IInv'
<1> USE DEF IInv
<1>0. /\ vecPc[t] = "undo" /\ vecPc' = [vecPc EXCEPT ![t] = "idle"]
      /\ vecLen' = vecLen - 1
      /\ written' = written /\ ticket' = ticket /\ overruns' = overruns
      /\ UNCHANGED readVars
  BY DEF Undo
<1>1. /\ t \in At("undo") /\ At("undo")' = At("undo") \ {t}
      /\ \A s : s # "undo" /\ s # "idle" => At(s)' = At(s)
  <2>1. vecPc \in [Pushers -> {"idle", "write", "undo", "overrun"}] /\ "undo" # "idle"
    BY DEF VecTypeOK
  <2>2. QED  BY <1>0, <2>1, Moved
<1>2. At("write")' = At("write") /\ At("overrun")' = At("overrun")
  BY <1>1, "undo" # "write", "write" # "idle", "overrun" # "undo", "overrun" # "idle"
<1>3. vecLen > Capacity /\ vecLen \in Nat /\ Capacity \in Nat /\ vecLen <= MaxLen
  BY <1>1, BeyondCapacity, CapacityAssumption DEF VecTypeOK
<1>4. VecTypeOK'
  BY <1>0, <1>3, MaxLenAssumption DEF VecTypeOK, readVars
<1>5. Held' = Held
  BY <1>0, <1>2 DEF Held
<1>6. Given' = Given /\ Full /\ Full'
  BY <1>0, <1>1, <1>5 DEF Given, Full, CountInv
<1>7. Given' = Covered' \cap Slots
  <2>1. Slots \subseteq Covered'
    BY <1>0, <1>3 DEF Covered, Slots
  <2>2. QED  BY <2>1, <1>6 DEF Given, Full
<1>8. CountInv'
  <2>1. \A u, v \in At("write")' : ticket'[u] = ticket'[v] => u = v
    BY <1>0, <1>2 DEF CountInv
  <2>2. written' \cap Held' = {}
    BY <1>0, <1>5 DEF CountInv
  <2>3. vecLen' = Cardinality(Given') + Cardinality(At("undo")') + Cardinality(At("overrun")')
                 + overruns'
    <3>1. Cardinality(At("undo")') = Cardinality(At("undo")) - 1
      BY <1>1, FiniteAt, FS_RemoveElement
    <3>2. vecLen = Cardinality(Given) + Cardinality(At("undo")) + Cardinality(At("overrun"))
                  + overruns
      BY DEF CountInv, Given
    <3>3. Cardinality(Given) \in Nat /\ overruns \in Nat
      BY GivenSlots, SlotsCount DEF VecTypeOK
    <3>4. QED  BY <3>1, <3>2, <3>3, <1>0, <1>2, <1>6, FiniteAt
  <2>4. QED  BY <2>1, <2>2, <2>3, <1>6, <1>7 DEF CountInv, Given
<1>9. ReadSound'
  <2>1. vecLen' \in Int
    BY <1>4 DEF VecTypeOK
  <2>2. QED  BY <2>1, <1>0, <1>6, <1>7, ReadersKept
<1>10. TicketInv'
  BY <1>0, <1>2 DEF TicketInv
<1>11. QED  BY <1>4, <1>8, <1>9, <1>10

LEMMA OverrunKeeps ==
  ASSUME IInv, NEW t \in Pushers, Overrun(t)
  PROVE  IInv'
<1> USE DEF IInv
<1>0. /\ vecPc[t] = "overrun" /\ vecPc' = [vecPc EXCEPT ![t] = "idle"]
      /\ overruns' = overruns + 1
      /\ written' = written /\ ticket' = ticket /\ vecLen' = vecLen
      /\ UNCHANGED readVars
  BY DEF Overrun
<1>1. /\ t \in At("overrun") /\ At("overrun")' = At("overrun") \ {t}
      /\ \A s : s # "overrun" /\ s # "idle" => At(s)' = At(s)
  <2>1. vecPc \in [Pushers -> {"idle", "write", "undo", "overrun"}] /\ "overrun" # "idle"
    BY DEF VecTypeOK
  <2>2. QED  BY <1>0, <2>1, Moved
<1>2. At("write")' = At("write") /\ At("undo")' = At("undo")
  BY <1>1, "overrun" # "write", "write" # "idle", "overrun" # "undo", "undo" # "idle"
<1>3. VecTypeOK'
  BY <1>0 DEF VecTypeOK, readVars
<1>4. Held' = Held
  BY <1>0, <1>2 DEF Held
<1>5. Given' = Given /\ Full /\ Full' /\ Covered' = Covered
  BY <1>0, <1>1, <1>4 DEF Given, Full, CountInv, Covered
<1>6. CountInv'
  <2>1. \A u, v \in At("write")' : ticket'[u] = ticket'[v] => u = v
    BY <1>0, <1>2 DEF CountInv
  <2>2. written' \cap Held' = {}
    BY <1>0, <1>4 DEF CountInv
  <2>3. vecLen' = Cardinality(Given') + Cardinality(At("undo")') + Cardinality(At("overrun")')
                 + overruns'
    <3>1. Cardinality(At("overrun")') = Cardinality(At("overrun")) - 1
      BY <1>1, FiniteAt, FS_RemoveElement
    <3>2. vecLen = Cardinality(Given) + Cardinality(At("undo")) + Cardinality(At("overrun"))
                  + overruns
      BY DEF CountInv, Given
    <3>3. Cardinality(Given) \in Nat /\ overruns \in Nat
      BY GivenSlots, SlotsCount DEF VecTypeOK
    <3>4. QED  BY <3>1, <3>2, <3>3, <1>0, <1>2, <1>5, FiniteAt
  <2>4. Given' = Covered' \cap Slots
    BY <1>5 DEF CountInv, Given
  <2>5. QED  BY <2>1, <2>2, <2>3, <2>4, <1>5 DEF CountInv, Given
<1>7. ReadSound'
  <2>1. Given' = Covered' \cap Slots /\ vecLen' \in Int
    BY <1>3, <1>6 DEF CountInv, Given, VecTypeOK
  <2>2. QED  BY <2>1, <1>0, <1>5, ReadersKept
<1>8. TicketInv'
  BY <1>0, <1>2 DEF TicketInv
<1>9. QED  BY <1>3, <1>6, <1>7, <1>8

-----------------------------------------------------------------------------
(* The readers                                                             *)

\* A step of a reader leaves everything but the readers' own state as it is
LEMMA ReaderSteps ==
  ASSUME IInv, UNCHANGED vecPushVars, VecTypeOK',
         \A r \in Readers : op'[r] \in {"get", "next"} =>
           IF index'[r] < Capacity THEN index'[r] \in Given ELSE Full
  PROVE  IInv'
<1>0. /\ vecLen' = vecLen /\ written' = written /\ vecPc' = vecPc /\ ticket' = ticket
      /\ overruns' = overruns
  BY DEF vecPushVars
<1>1. /\ \A s : At(s)' = At(s)
      /\ Held' = Held /\ Covered' = Covered
  BY <1>0 DEF At, Held, Covered
<1>2. CountInv'
  BY <1>0, <1>1 DEF IInv, CountInv, Full
<1>3. ReadSound'
  BY <1>0, <1>1 DEF IInv, ReadSound, Full, Given
<1>4. TicketInv'
  BY <1>0, <1>1 DEF IInv, TicketInv
<1>5. QED  BY <1>2, <1>3, <1>4 DEF IInv

\* An index below len is that of an element, or of a push that is running, or
\* the vector is full
LEMMA BelowLen ==
  ASSUME IInv, NEW i \in Nat, i < vecLen
  PROVE  IF i < Capacity THEN i \in Given ELSE Full
<1>1. CASE i < Capacity
  <2>1. i \in Covered \cap Slots
    BY <1>1, CapacityAssumption DEF IInv, VecTypeOK, Covered, Slots
  <2>2. QED  BY <1>1, <2>1 DEF IInv, CountInv, Given
<1>2. CASE ~(i < Capacity)
  <2>1. vecLen >= Capacity
    BY <1>2, CapacityAssumption DEF IInv, VecTypeOK
  <2>2. QED  BY <1>2, <2>1, FullAtCapacity
<1>3. QED  BY <1>1, <1>2

LEMMA ReadersKeep ==
  ASSUME IInv, NEW r \in Readers,
         \/ \E i \in 0 .. MaxLen - 1 : Get(r, i)
         \/ StartVecIter(r) \/ NextVecItem(r) \/ Read(r)
  PROVE  IInv'
<1>0. /\ \A s \in Readers : op[s] \in {"get", "next"} =>
           IF index[s] < Capacity THEN index[s] \in Given ELSE Full
      /\ VecTypeOK
  BY DEF IInv, ReadSound, Given
<1>1. CASE \E i \in 0 .. MaxLen - 1 : Get(r, i)
  <2>1. PICK i \in 0 .. MaxLen - 1 : Get(r, i)
    BY <1>1
  <2>2. i \in Nat /\ i < vecLen
    BY <2>1, MaxLenAssumption DEF Get, VecTypeOK
  <2>3. IF i < Capacity THEN i \in Given ELSE Full
    BY <2>2, BelowLen
  <2>4. UNCHANGED vecPushVars /\ VecTypeOK'
    BY <1>0, <2>1 DEF Get, VecTypeOK, vecPushVars
  <2>5. \A s \in Readers : op'[s] \in {"get", "next"} =>
          IF index'[s] < Capacity THEN index'[s] \in Given ELSE Full
    BY <1>0, <2>1, <2>3 DEF Get, VecTypeOK
  <2>6. QED  BY <2>4, <2>5, ReaderSteps
<1>2. CASE StartVecIter(r)
  <2>1. UNCHANGED vecPushVars /\ VecTypeOK'
    BY <1>0, <1>2, MaxLenAssumption, CapacityAssumption DEF StartVecIter, VecTypeOK, vecPushVars
  <2>2. \A s \in Readers : op'[s] \in {"get", "next"} =>
          IF index'[s] < Capacity THEN index'[s] \in Given ELSE Full
    BY <1>0, <1>2 DEF StartVecIter, VecTypeOK
  <2>3. QED  BY <2>1, <2>2, ReaderSteps
<1>3. CASE NextVecItem(r)
  <2>1. UNCHANGED vecPushVars /\ VecTypeOK'
    BY <1>0, <1>3 DEF NextVecItem, VecTypeOK, vecPushVars
  <2>2. index[r] < vecLen => IF index[r] < Capacity THEN index[r] \in Given ELSE Full
    <3>1. index[r] \in Nat
      BY <1>0 DEF VecTypeOK
    <3>2. QED  BY <3>1, BelowLen
  <2>3. \A s \in Readers : op'[s] \in {"get", "next"} =>
          IF index'[s] < Capacity THEN index'[s] \in Given ELSE Full
    BY <1>0, <1>3, <2>2 DEF NextVecItem, VecTypeOK
  <2>4. QED  BY <2>1, <2>3, ReaderSteps
<1>4. CASE Read(r)
  <2>1. UNCHANGED vecPushVars /\ VecTypeOK'
    BY <1>0, <1>4, MaxLenAssumption, CapacityAssumption DEF Read, VecTypeOK, vecPushVars
  <2>2. \A s \in Readers : op'[s] \in {"get", "next"} =>
          IF index'[s] < Capacity THEN index'[s] \in Given ELSE Full
    BY <1>0, <1>4 DEF Read, VecTypeOK
  <2>3. QED  BY <2>1, <2>2, ReaderSteps
<1>5. QED  BY <1>1, <1>2, <1>3, <1>4

-----------------------------------------------------------------------------
(* The theorems                                                            *)

LEMMA InitEstablishes == VecInit => IInv
<1> SUFFICES ASSUME VecInit PROVE IInv
  OBVIOUS
<1>1. VecTypeOK
  BY CapacityAssumption, MaxLenAssumption DEF VecInit, VecTypeOK
<1>2. At("write") = {} /\ At("undo") = {} /\ At("overrun") = {}
  BY DEF VecInit, At
<1>3. Held = {} /\ Covered = {} /\ written = {}
  BY <1>2 DEF Held, Covered, VecInit
<1>4. CountInv
  BY <1>2, <1>3, FS_EmptySet DEF VecInit, CountInv
<1>5. ReadSound /\ TicketInv
  BY <1>2 DEF VecInit, ReadSound, TicketInv
<1>6. QED  BY <1>1, <1>4, <1>5 DEF IInv

LEMMA NextKeeps == IInv /\ [VecNext]_vecVars => IInv'
<1> SUFFICES ASSUME IInv, [VecNext]_vecVars PROVE IInv'
  OBVIOUS
<1>1. CASE \E t \in Pushers : Take(t) \/ Write(t) \/ Undo(t) \/ Overrun(t)
  BY <1>1, TakeKeeps, WriteKeeps, UndoKeeps, OverrunKeeps
<1>2. CASE \E r \in Readers :
             \/ \E i \in 0 .. MaxLen - 1 : Get(r, i)
             \/ StartVecIter(r) \/ NextVecItem(r) \/ Read(r)
  BY <1>2, ReadersKeep
<1>3. CASE UNCHANGED vecVars
  <2>1. UNCHANGED vecPushVars /\ op' = op /\ index' = index
    BY <1>3 DEF vecVars, readVars
  <2>2. VecTypeOK'
    BY <2>1 DEF IInv, VecTypeOK, vecPushVars
  <2>3. QED  BY <2>1, <2>2, ReaderSteps DEF IInv, ReadSound, Given
<1>4. QED  BY <1>1, <1>2, <1>3 DEF VecNext

LEMMA Invariance == VecSpec => []IInv
<1>1. QED  BY InitEstablishes, NextKeeps, PTL DEF VecSpec

\* The shape of the state is kept, for any number of threads and any capacity
THEOREM AVecTypeCorrect == VecSpec => []VecTypeOK
<1>1. IInv => VecTypeOK
  BY DEF IInv
<1>2. QED  BY <1>1, Invariance, PTL

\* Every index is given to one push, len counts what it should however pushes
\* fail, as long as none has overrun, and pushes fail only when the vector is full
THEOREM LengthsExact == VecSpec => []LenExact
<1>1. IInv => LenExact
  <2> SUFFICES ASSUME IInv PROVE LenExact
    OBVIOUS
  <2>1. NoOverrun => vecLen = Cardinality(written \cup Held) + Cardinality(At("undo"))
    <3>1. Cardinality({}) = 0
      BY FS_EmptySet
    <3>2. Cardinality(Given) \in Nat /\ Cardinality(At("undo")) \in Nat
      BY FiniteAt, GivenSlots, SlotsCount
    <3>3. QED  BY <3>1, <3>2 DEF NoOverrun, IInv, CountInv, Given
  <2>2. QED  BY <2>1 DEF IInv, CountInv, LenExact
<1>2. QED  BY <1>1, Invariance, PTL

\* A thread that pushes alone finds the capacity at most: it takes two to overrun
THEOREM LonePusher ==
  ASSUME \A t, u \in Pushers : t = u
  PROVE  VecSpec => []NoOverrun
<1>1. VecInit => NoOverrun
  BY DEF VecInit, NoOverrun, At
<1>2. IInv /\ NoOverrun /\ [VecNext]_vecVars => NoOverrun'
  <2> SUFFICES ASSUME IInv, NoOverrun, [VecNext]_vecVars PROVE NoOverrun'
    OBVIOUS
  <2>1. ASSUME NEW t \in Pushers, Take(t)
        PROVE  NoOverrun'
    <3>1. At("undo") = {} /\ At("overrun") = {}
      BY <2>1 DEF At, Take
    <3>2. vecLen = Cardinality(Given)
      <4>1. Cardinality({}) = 0 /\ Cardinality(Given) \in Nat
        BY FS_EmptySet, GivenSlots, SlotsCount
      <4>2. vecLen = Cardinality(Given) + Cardinality(At("undo"))
                     + Cardinality(At("overrun")) + overruns
        BY DEF IInv, CountInv, Given
      <4>3. overruns = 0
        BY DEF NoOverrun
      <4>4. QED  BY ONLY <3>1, <4>1, <4>2, <4>3
    <3>3. vecLen <= Capacity /\ vecLen \in Nat
      <4>1. Given \subseteq Slots
        BY GivenSlots
      <4>2. QED  BY <3>2, <4>1, SlotsCount, FS_Subset
    <3>4. Outcome(vecLen) # "overrun"
      BY <3>3, CapacityAssumption DEF Outcome
    <3>5. QED  BY <2>1, <3>4 DEF Take, At, NoOverrun, IInv, VecTypeOK
  <2>2. ASSUME NEW t \in Pushers, Write(t) \/ Undo(t)
        PROVE  NoOverrun'
    BY <2>2 DEF Write, Undo, At, NoOverrun, IInv, VecTypeOK
  <2>3. ASSUME NEW t \in Pushers, Overrun(t)
        PROVE  NoOverrun'
    BY <2>3 DEF Overrun, At, NoOverrun
  <2>4. CASE UNCHANGED vecPushVars
    BY <2>4 DEF vecPushVars, At, NoOverrun
  <2>5. QED
    BY <2>1, <2>2, <2>3, <2>4 DEF VecNext, vecVars, Get, StartVecIter, NextVecItem, Read, vecPushVars
<1>3. QED  BY <1>1, <1>2, Invariance, PTL DEF VecSpec

\* What get and iter let through is an element or the slot of a running push,
\* until the vector is full
THEOREM ReadersSound == VecSpec => []ReadSound
<1>1. IInv => ReadSound
  BY DEF IInv
<1>2. QED  BY <1>1, Invariance, PTL
=============================================================================
