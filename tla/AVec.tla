-------------------------------- MODULE AVec --------------------------------
(***************************************************************************)
(* The bounded, concurrently appendable vector of mvec/src/avec.rs.        *)
(*                                                                         *)
(* push takes an index by fetch_add on len.  Below the capacity it writes  *)
(* the element there and is done: nothing publishes the element, len has   *)
(* counted it from the start.  At the capacity it takes its increment back *)
(* and returns Err.  Beyond the capacity, which len reaches while such a   *)
(* push has not taken its increment back, a debug build panics and a       *)
(* release build writes outside the vector; both leave len as it is, and   *)
(* what else the write destroys is not modelled.                           *)
(*                                                                         *)
(* Readers call get and iterate meanwhile.  get_mut, get_all_mut, iter_mut *)
(* and drop have the vector for themselves.                                *)
(***************************************************************************)
EXTENDS Threads, Integers

CONSTANTS
  Capacity,   \* rawvec.len()
  MaxLen      \* bound: a push starts only below this length

ASSUME CapacityAssumption == Capacity \in Nat
ASSUME MaxLenAssumption == MaxLen \in Nat /\ MaxLen > Capacity

VARIABLES
  vecLen,     \* len
  written,    \* the indices whose element has been written
  vecPc,      \* where each pusher is in push
  ticket,     \* the index it took
  overruns,   \* history: pushes that went beyond the capacity
  op,         \* what each reader is doing
  index       \* the index it reads, or its iteration's counter

vecPushVars == <<vecLen, written, vecPc, ticket, overruns>>
readVars == <<op, index>>
vecVars == <<vecPushVars, readVars>>

Slots == 0 .. Capacity - 1

VecInit ==
  /\ vecLen = 0
  /\ written = {}
  /\ vecPc = [t \in Pushers |-> "idle"]
  /\ ticket = [t \in Pushers |-> 0]
  /\ overruns = 0
  /\ op = [r \in Readers |-> "idle"]
  /\ index = [r \in Readers |-> 0]

-----------------------------------------------------------------------------
(* push                                                                    *)

\* Where a push goes with the index it took
Outcome(i) ==
  CASE i < Capacity -> "write"
    [] i = Capacity -> "undo"
    [] OTHER -> "overrun"

\* Broken variant: a load and a store
TakeStale(t) ==
  /\ vecPc[t] = "idle"
  /\ vecLen < MaxLen
  /\ \E i \in {vecLen} \cup {ticket[u] : u \in {v \in Pushers : vecPc[v] = "write"}} :
       /\ ticket' = [ticket EXCEPT ![t] = i]
       /\ vecPc' = [vecPc EXCEPT ![t] = Outcome(i)]
       /\ vecLen' = i + 1
  /\ UNCHANGED <<written, overruns, readVars>>

\* len.fetch_add(1)
Take(t) ==
  /\ vecPc[t] = "idle"
  /\ vecLen < MaxLen
  /\ ticket' = [ticket EXCEPT ![t] = vecLen]
  /\ vecPc' = [vecPc EXCEPT ![t] = Outcome(vecLen)]
  /\ vecLen' = vecLen + 1
  /\ UNCHANGED <<written, overruns, readVars>>

\* Broken variant: the element goes to the end as it is by now
WriteAtEnd(t) ==
  /\ vecPc[t] = "write"
  /\ written' = written \cup {vecLen - 1}
  /\ vecPc' = [vecPc EXCEPT ![t] = "idle"]
  /\ UNCHANGED <<vecLen, ticket, overruns, readVars>>

\* The element is written and its address returned
Write(t) ==
  /\ vecPc[t] = "write"
  /\ written' = written \cup {ticket[t]}
  /\ vecPc' = [vecPc EXCEPT ![t] = "idle"]
  /\ UNCHANGED <<vecLen, ticket, overruns, readVars>>

\* len.fetch_sub(1), and Err
Undo(t) ==
  /\ vecPc[t] = "undo"
  /\ vecLen' = vecLen - 1
  /\ vecPc' = [vecPc EXCEPT ![t] = "idle"]
  /\ UNCHANGED <<written, ticket, overruns, readVars>>

\* The assertion fails, or the write goes outside the vector
Overrun(t) ==
  /\ vecPc[t] = "overrun"
  /\ overruns' = overruns + 1
  /\ vecPc' = [vecPc EXCEPT ![t] = "idle"]
  /\ UNCHANGED <<vecLen, written, ticket, readVars>>

-----------------------------------------------------------------------------
(* get and iter                                                            *)

\* Broken variant: the index may be the length
GetUpToLen(r, i) ==
  /\ op[r] = "idle"
  /\ vecLen >= i
  /\ op' = [op EXCEPT ![r] = "get"]
  /\ index' = [index EXCEPT ![r] = i]
  /\ UNCHANGED vecPushVars

\* get finds the index below len (or returns None, and changes nothing)
Get(r, i) ==
  /\ op[r] = "idle"
  /\ vecLen > i
  /\ op' = [op EXCEPT ![r] = "get"]
  /\ index' = [index EXCEPT ![r] = i]
  /\ UNCHANGED vecPushVars

StartVecIter(r) ==
  /\ op[r] = "idle"
  /\ op' = [op EXCEPT ![r] = "iter"]
  /\ index' = [index EXCEPT ![r] = 0]
  /\ UNCHANGED vecPushVars

\* AVecIter::next looks at len again for each item
NextVecItem(r) ==
  /\ op[r] = "iter"
  /\ op' = [op EXCEPT ![r] = IF index[r] >= vecLen THEN "idle" ELSE "next"]
  /\ UNCHANGED <<vecPushVars, index>>

\* The slot is read.  At the capacity the iteration's bounds check panics, and
\* get reads outside the vector
Read(r) ==
  /\ op[r] \in {"get", "next"}
  /\ IF op[r] = "next" /\ index[r] < Capacity
     THEN /\ op' = [op EXCEPT ![r] = "iter"]
          /\ index' = [index EXCEPT ![r] = @ + 1]
     ELSE /\ op' = [op EXCEPT ![r] = "idle"]
          /\ UNCHANGED index
  /\ UNCHANGED vecPushVars

\* What get_all_mut, iter_mut and drop go through, without a bounds check
Covered == 0 .. vecLen - 1

-----------------------------------------------------------------------------

VecNext ==
  \/ \E t \in Pushers : Take(t) \/ Write(t) \/ Undo(t) \/ Overrun(t)
  \/ \E r \in Readers :
       \/ \E i \in 0 .. MaxLen - 1 : Get(r, i)
       \/ StartVecIter(r) \/ NextVecItem(r) \/ Read(r)

VecSpec == VecInit /\ [][VecNext]_vecVars

-----------------------------------------------------------------------------
(* Properties                                                              *)

\* The shape of the state
VecTypeOK ==
  /\ vecLen \in 0 .. MaxLen
  /\ written \subseteq Slots
  /\ vecPc \in [Pushers -> {"idle", "write", "undo", "overrun"}]
  /\ ticket \in [Pushers -> 0 .. MaxLen - 1]
  /\ overruns \in Nat
  /\ op \in [Readers -> {"idle", "get", "iter", "next"}]
  /\ index \in [Readers -> 0 .. MaxLen - 1]

At(step) == {t \in Pushers : vecPc[t] = step}

\* The indices that pushes hold and have not written yet
Held == {ticket[t] : t \in At("write")}

Full == written \cup Held = Slots

\* "Returns `Err` if there is no more space": a push that gets no slot finds len
\* at the capacity and fails, as its debug_assert(len <= rawvec.len()) says;
\* none finds it beyond
NoOverrun == At("overrun") = {} /\ overruns = 0

\* An index below the capacity that has been given out is written or held by one
\* push, so the address a push returns is its own "unless the vector is
\* dropped", and these are the indices below len.  Unless a push has overrun,
\* len is their number and the increments not yet taken back: when no push is
\* running, get_all_mut, iter_mut and drop go through the elements, all of them
\* and nothing else, however many pushes have failed.  A push fails only when
\* every slot is taken
LenExact ==
  /\ \A t, u \in At("write") : ticket[t] = ticket[u] => t = u
  /\ written \cap Held = {}
  /\ written \cup Held = Covered \cap Slots
  /\ NoOverrun => vecLen = Cardinality(written \cup Held) + Cardinality(At("undo"))
  /\ At("undo") # {} => Full

\* A reader let through the check of len reads an element, or a slot whose push
\* is still running; it goes outside the vector only once the vector is full.
\* What a reader can see of len is never less than what has been written
ReadSound ==
  /\ \A i \in written : i < vecLen
  /\ \A r \in Readers : op[r] \in {"get", "next"} =>
       IF index[r] < Capacity THEN index[r] \in written \cup Held ELSE Full
=============================================================================
