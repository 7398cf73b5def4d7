--------------------------- MODULE UniverseProofs ---------------------------
(***************************************************************************)
(* Proofs about Universe, for any threads, types, entities, ids and sizes. *)
(*                                                                         *)
(* The argument has two layers.  VecsInv and PlacesInv hold whatever       *)
(* threads add the first entities of types: a vector is published once it  *)
(* holds its maker's entity, is never freed while a thread pushes to it,   *)
(* and each component is at one place, which its box knows.  When each     *)
(* type has one thread that may add its first entity, no vector is ever    *)
(* freed (RaceInv), and what the map keeps under an id is the place of an  *)
(* entity that is there (MapInv): so removals find what they look for.     *)
(***************************************************************************)
EXTENDS Universe, SequenceTheorems, TLAPS

-----------------------------------------------------------------------------
(* The inductive invariant                                                 *)

Started == 1 .. Len(typeOf)

\* Entities whose adder, if they have one still, has got to one of the steps
Past(steps) == {e \in Started : \A t \in Threads : adding[t] = e => pc[t] \in steps}

Registered == Past({"push", "store", "publish"})
Pushed == Past({"store", "publish"})
Boxed == Past({"publish"})

\* Component e is at index k of v
Spot(e, v, k) == v \in Entities \ freedVecs /\ k \in 1 .. Len(vecs[v]) /\ vecs[v][k] = e

\* Each adder has an entity of its own, and none is there in process_queues
AddersInv ==
  \A t \in Threads :
    /\ pc[t] = "idle" => adding[t] = NoEntity
    /\ pc[t] # "idle" =>
         /\ phase = "run" /\ adding[t] \in Started
         /\ \A u \in Threads : adding[u] = adding[t] => u = t

\* The type an adder adds to
TypeFor(t) == typeOf[adding[t]]

\* An adder pushes to a vector of its own, to one that systems see, or to a new
\* one that its read lock keeps; a thread that makes a vector does so because
\* systems see none
PushToInv ==
  \A t \in Threads :
    /\ pc[t] = "read" => components[TypeFor(t)] = NoVec /\ pushTo[t] = NoVec
    /\ pc[t] \in {"id", "insert", "push", "store", "publish"} =>
         \/ pushTo[t] = adding[t] /\ components[TypeFor(t)] = NoVec /\ t \notin readers
         \/ /\ pc[t] # "publish" /\ pushTo[t] # NoVec
            /\ IF t \in readers THEN pushTo[t] = newVecs[TypeFor(t)]
               ELSE pushTo[t] = components[TypeFor(t)]

Published(v) == v \in Started /\ v \in {components[typeOf[v]], newVecs[typeOf[v]]}

\* The thread has pushed its entity to a vector of its own
HasOwn(t) == pc[t] \in {"store", "publish"} /\ pushTo[t] = adding[t]

VecsInv ==
  /\ \A c \in Types : \A v \in {components[c], newVecs[c]} \ {NoVec} :
       v \in Returned \ freedVecs /\ typeOf[v] = c
  /\ \A c \in Types :
       /\ components[c] = NoVec \/ newVecs[c] = NoVec
       /\ newVecs[c] # NoVec => vecs[newVecs[c]] # << >>
       /\ phase \in {"remove", "drain"} => newVecs[c] = NoVec
  /\ freedVecs \subseteq Returned
  /\ \A v \in Entities \ freedVecs : vecs[v] # << >> =>
       Published(v) \/ \E t \in Threads : HasOwn(t) /\ adding[t] = v
  /\ \A t \in Threads : HasOwn(t) => vecs[adding[t]] = <<adding[t]>>

PlacesInv ==
  /\ dropped \subseteq Returned
  /\ \A v \in freedVecs : Contents(v) \subseteq dropped
  /\ \A e, v, k : Spot(e, v, k) => e \in Pushed \ dropped /\ typeOf[e] = typeOf[v]
  /\ \A e, v, k, w, j : Spot(e, v, k) /\ Spot(e, w, j) => v = w /\ k = j
  /\ \A e \in Boxed \ dropped : Spot(e, box[e].vec, box[e].at)
  /\ \A t \in Threads : pc[t] = "store" => \E k : Spot(adding[t], pushTo[t], k)

ModsInv ==
  /\ \A m \in mods : \E q \in Visible : m = <<q>>
  /\ \A m \in multiMods : \E q, r \in Visible : m = <<q, r>>
  /\ mods # {} => phase \in {"run", "multi", "mods"}
  /\ multiMods # {} => phase \in {"run", "multi"}

\* The counter has given the entity an id
IdsInv == \A e \in Past({"insert", "push", "store", "publish"}) : idOf[e] \in Ids

PInv == TypeOK /\ AddersInv /\ PushToInv /\ IdsInv /\ VecsInv /\ PlacesInv /\ ModsInv

\* No two threads may add the first entity of a type
OneCreator == \A c \in Types : \A t, u \in Creators[c] : t = u

\* The thread makes a vector or is about to
Makes(t) ==
  /\ pc[t] # "idle"
  /\ pushTo[t] = adding[t] \/ (pc[t] = "read" /\ newVecs[TypeFor(t)] = NoVec)

RaceInv ==
  /\ freedVecs = {}
  /\ \A t \in Threads : Makes(t) => t \in Creators[TypeFor(t)] /\ newVecs[TypeFor(t)] = NoVec

AskedIds == {idOf[f] : f \in asked}

AskedInv ==
  /\ asked \subseteq Registered
  /\ \A i \in 1 .. Len(removeQueue) : removeQueue[i] \in AskedIds
  /\ \A e \in dropped : idOf[e] \in AskedIds

\* The removal data of an entity that is pushed, or is going to be, to v
DataOf(e, v) == <<[box |-> e, vec |-> v]>>
GoesTo(e, v) ==
  /\ \A t \in Threads : adding[t] = e => pushTo[t] = v
  /\ e \in Boxed => box[e].vec = v

MapInv ==
  /\ \A i \in 1 .. Len(emptyVecs) : emptyVecs[i] = << >>
  /\ \A t \in Threads : pc[t] = "insert" => list[t] = DataOf(adding[t], pushTo[t])
  /\ \A id \in Ids : entityMap[id].present =>
       \E e \in Registered \ dropped, v \in Entities :
         idOf[e] = id /\ entityMap[id].data = DataOf(e, v) /\ GoesTo(e, v)
  /\ \A id \in Ids : ~entityMap[id].present => entityMap[id] = NoEntry
  /\ draining # << >> =>
       /\ phase = "drain"
       /\ \E e \in Returned \ dropped :
            /\ draining = DataOf(e, box[e].vec)
            /\ ~entityMap[idOf[e]].present /\ idOf[e] \in AskedIds

UInv == PInv /\ RaceInv /\ AskedInv /\ MapInv /\ ~faulted

-----------------------------------------------------------------------------
(* What steps of add_entity do to the sets of entities                     *)

\* An adder goes from one step to another
LEMMA PastGoes ==
  ASSUME AddersInv, NEW t \in Threads, NEW to, NEW steps,
         pc \in [Threads -> {"idle", "read", "id", "insert", "push", "store", "publish"}],
         pc[t] # "idle", pc' = [pc EXCEPT ![t] = to], UNCHANGED <<adding, typeOf>>
  PROVE  /\ Past(steps)' = IF to \in steps THEN Past(steps) \cup {adding[t]}
                           ELSE Past(steps) \ {adding[t]}
         /\ Returned' = Returned
BY DEF AddersInv, Past, Started, Returned

\* An adder returns
LEMMA PastReturns ==
  ASSUME TypeOK, AddersInv, NEW t \in Threads, NEW steps,
         pc[t] # "idle", pc' = [pc EXCEPT ![t] = "idle"],
         adding' = [adding EXCEPT ![t] = NoEntity], UNCHANGED typeOf
  PROVE  /\ Past(steps)' = Past(steps) \cup {adding[t]}
         /\ Returned' = Returned \cup {adding[t]}
<1>1. 0 \notin Started
  BY DEF TypeOK, Started
<1>2. \A u \in Threads : u # t => pc'[u] = pc[u] /\ adding'[u] = adding[u] /\ adding[u] # adding[t]
  BY DEF TypeOK, AddersInv
<1>3. adding'[t] = 0 /\ adding[t] \in Started /\ Started' = Started
  BY DEF TypeOK, AddersInv, NoEntity, Started
<1>4. Past(steps)' = Past(steps) \cup {adding[t]}
  BY <1>1, <1>2, <1>3 DEF Past
<1>5. Returned' = Returned \cup {adding[t]}
  BY <1>1, <1>2, <1>3 DEF Returned, Started
<1>6. QED
  BY <1>4, <1>5

\* A new entity is nobody else's
LEMMA PastBegins ==
  ASSUME TypeOK, AddersInv, NEW t \in Threads, NEW c \in Types, Begin(t, c), NEW steps
  PROVE  /\ Past(steps)' = IF pc'[t] \in steps THEN Past(steps) \cup {Len(typeOf) + 1}
                           ELSE Past(steps)
         /\ Returned' = Returned
         /\ Started' = Started \cup {Len(typeOf) + 1} /\ Len(typeOf) + 1 \notin Started
         /\ \A e \in Started : typeOf'[e] = typeOf[e]
         /\ typeOf'[Len(typeOf) + 1] = c
<1> DEFINE n == Len(typeOf) + 1
<1>1. /\ typeOf' = Append(typeOf, c) /\ typeOf \in Seq(Types)
      /\ adding' = [adding EXCEPT ![t] = n] /\ pc[t] = "idle"
      /\ \A u \in Threads : u # t => pc'[u] = pc[u]
  BY DEF Begin, Goto, TypeOK
<1>2. /\ Started' = Started \cup {n} /\ n \notin Started
      /\ \A e \in Started : typeOf'[e] = typeOf[e]
      /\ typeOf'[n] = c
  BY <1>1 DEF Started
<1>3. /\ adding'[t] = n /\ adding[t] = 0
      /\ \A u \in Threads : u # t => adding'[u] = adding[u]
      /\ \A u \in Threads : adding[u] = 0 \/ adding[u] \in Started
  BY <1>1 DEF TypeOK, AddersInv, NoEntity
<1>4. 0 \notin Started
  BY <1>1 DEF Started
<1>5. Past(steps)' = IF pc'[t] \in steps THEN Past(steps) \cup {n} ELSE Past(steps)
  BY <1>1, <1>2, <1>3, <1>4 DEF Past
<1>6. Returned' = Returned
  BY <1>2, <1>3, <1>4 DEF Returned, Started
<1>7. QED
  BY <1>2, <1>5, <1>6

-----------------------------------------------------------------------------
(* Types                                                                   *)

\* The steps of add_entity
LEMMA TypeAdd ==
  ASSUME PInv, NEW t \in Threads,
         (\E c \in Types : Begin(t, c)) \/ AddStep(t)
  PROVE  TypeOK'
<1> USE DEF PInv
<1>1. ASSUME NEW c \in Types, Begin(t, c)
      PROVE  TypeOK'
  <2>1. Len(typeOf) + 1 \in Entities
    BY <1>1, MaxEntitiesAssumption DEF Begin, TypeOK, Entities
  <2>2. typeOf' \in Seq(Types) /\ Len(typeOf') <= MaxEntities
    BY <1>1, MaxEntitiesAssumption DEF Begin, TypeOK
  <2>3. readers' \subseteq {u \in Threads : pc'[u] \in {"id", "insert", "push", "store"}}
    BY <1>1 DEF Begin, Goto, TypeOK
  <2>4. QED
    BY <1>1, <2>1, <2>2, <2>3 DEF Begin, Goto, TypeOK, structure, queues, processing
<1>2. ASSUME pc[t] # "idle"
      PROVE  adding[t] \in Entities
  <2>1. Started \subseteq Entities
    BY MaxEntitiesAssumption DEF TypeOK, Started, Entities
  <2>2. QED
    BY <1>2, <2>1 DEF AddersInv
<1>3. CASE LookUpNew(t)
  <2>1. typeOf[adding[t]] \in Types /\ adding[t] \in Entities
    BY <1>2, <1>3 DEF LookUpNew, Goto, TypeOK, AddersInv, Started
  <2>2. newVecs[typeOf[adding[t]]] \in Entities \cup {NoVec}
    BY <2>1 DEF TypeOK
  <2>3. pushTo' \in [Threads -> Entities \cup {NoVec}]
    BY <1>3, <2>1, <2>2 DEF LookUpNew, TypeOK
  <2>4. readers' \subseteq {u \in Threads : pc'[u] \in {"id", "insert", "push", "store"}}
    BY <1>3 DEF LookUpNew, Goto, TypeOK
  <2>5. pc' \in [Threads -> {"idle", "read", "id", "insert", "push", "store", "publish"}]
    BY <1>3 DEF LookUpNew, Goto, TypeOK
  <2>6. QED
    BY <1>3, <2>3, <2>4, <2>5 DEF LookUpNew, TypeOK, structure, entities, queues, processing
<1>4. CASE TakeId(t)
  <2>1. pc[t] = "id" /\ adding[t] \in Entities /\ pushTo[t] \in Entities
    BY <1>2, <1>4 DEF TakeId, Goto, TypeOK, PushToInv, NoVec
  <2> DEFINE recycled == IF emptyVecs = << >> THEN NoList ELSE Head(emptyVecs)
             datum == [box |-> adding[t], vec |-> pushTo[t]]
  <2>2. recycled \in Seq(Datum) /\ (emptyVecs # << >> => Tail(emptyVecs) \in Seq(Seq(Datum)))
    BY DEF TypeOK, NoList
  <2>3. datum \in Datum
    BY <2>1 DEF Datum
  <2>4. Append(recycled, datum) \in Seq(Datum)
    BY <2>2, <2>3
  <2>5. (idCounter + 1) % IdSpace \in Ids
    BY IdSpaceAssumption DEF TypeOK, Ids
  <2>6. list' = [list EXCEPT ![t] = Append(recycled, datum)]
    BY <1>4 DEF TakeId
  <2>7. list' \in [Threads -> Seq(Datum)]
    BY <2>4, <2>6 DEF TypeOK
  <2>8. emptyVecs' \in Seq(Seq(Datum))
    BY <1>4, <2>2 DEF TakeId, TypeOK
  <2>9. idOf' \in [Entities -> Ids \cup {-1}] /\ idCounter' \in Ids
    BY <1>4, <2>1, <2>5 DEF TakeId, TypeOK
  <2>10. pc' \in [Threads -> {"idle", "read", "id", "insert", "push", "store", "publish"}]
    BY <1>4 DEF TakeId, Goto, TypeOK
  <2>11. readers' \subseteq {u \in Threads : pc'[u] \in {"id", "insert", "push", "store"}}
    BY <1>4 DEF TakeId, Goto, TypeOK
  <2>12. QED
    BY <1>4, <2>7, <2>8, <2>9, <2>10, <2>11 DEF TakeId, TypeOK, structure, queues, processing
<1>5. CASE InsertEntity(t)
  <2>1. list[t] \in Seq(Datum) /\ NoList \in Seq(Datum)
    BY DEF TypeOK, NoList
  <2>2. entityMap' \in [Ids -> [present : BOOLEAN, data : Seq(Datum)]]
    BY <1>5, <2>1 DEF InsertEntity, TypeOK
  <2>3. QED
    BY <1>5, <2>1, <2>2 DEF InsertEntity, Goto, TypeOK, structure, queues, processing
<1>6. CASE Push(t)
  <2>1. adding[t] \in Entities /\ pushTo[t] \in Entities
    BY <1>2, <1>6 DEF Push, Goto, TypeOK, PushToInv, NoVec
  <2>2. vecs' \in [Entities -> Seq(Entities)]
    BY <1>6, <2>1 DEF Push, TypeOK
  <2>3. QED
    BY <1>6, <2>2 DEF Push, Goto, TypeOK, entities, queues, processing
<1>7. CASE StoreAddress(t)
  <2>1. \E k \in 1 .. Len(vecs[pushTo[t]]) : vecs[pushTo[t]][k] = adding[t]
    BY <1>7 DEF StoreAddress, Goto, PlacesInv, Spot
  <2> DEFINE at == CHOOSE k \in 1 .. Len(vecs[pushTo[t]]) : vecs[pushTo[t]][k] = adding[t]
  <2>2. at \in 1 .. Len(vecs[pushTo[t]])
    BY <2>1
  <2>3. at \in Nat
    BY <2>2
  <2>4. adding[t] \in Entities /\ pushTo[t] \in Entities
    BY <1>2, <1>7 DEF StoreAddress, Goto, TypeOK, PushToInv, NoVec
  <2>5. [vec |-> pushTo[t], at |-> at] \in Addr
    BY <2>3, <2>4 DEF Addr
  <2>6. box' = [box EXCEPT ![adding[t]] = [vec |-> pushTo[t], at |-> at]]
    BY <1>7 DEF StoreAddress
  <2>7. box' \in [Entities -> Addr]
    BY <2>5, <2>6 DEF TypeOK
  <2>8. /\ pc' \in [Threads -> {"idle", "read", "id", "insert", "push", "store", "publish"}]
        /\ readers' \subseteq {u \in Threads : pc'[u] \in {"id", "insert", "push", "store"}}
    BY <1>7 DEF StoreAddress, Goto, TypeOK
  <2>9. /\ adding' \in [Threads -> Entities \cup {NoEntity}]
        /\ pushTo' \in [Threads -> Entities \cup {NoVec}]
    BY <1>7 DEF StoreAddress, Return, TypeOK
  <2>10. QED
    BY <1>7, <2>7, <2>8, <2>9 DEF StoreAddress, TypeOK, entities, queues, processing
<1>8. CASE PublishVec(t)
  <2>1. pushTo[t] \in Entities
    BY <1>2, <1>8 DEF PublishVec, Goto, TypeOK, PushToInv, NoVec
  <2>2. \A v \in Entities : Contents(v) \subseteq Entities
    BY DEF Contents, TypeOK
  <2>3. TypeFor(t) \in Types
    BY <1>8 DEF PublishVec, Goto, TypeOK, AddersInv, Started, TypeFor
  <2>4. freedVecs' \subseteq Entities /\ dropped' \subseteq Entities
    BY <1>8, <2>2, <2>3 DEF PublishVec, TypeOK, TypeFor
  <2>5. newVecs' \in [Types -> Entities \cup {NoVec}]
    BY <1>8, <2>1 DEF PublishVec, TypeOK
  <2>6. /\ pc' \in [Threads -> {"idle", "read", "id", "insert", "push", "store", "publish"}]
        /\ readers' \subseteq {u \in Threads : pc'[u] \in {"id", "insert", "push", "store"}}
    BY <1>8 DEF PublishVec, Goto, TypeOK
  <2>7. QED
    BY <1>8, <2>4, <2>5, <2>6 DEF PublishVec, Return, TypeOK, entities, queues, processing
<1>9. QED
  BY <1>1, <1>3, <1>4, <1>5, <1>6, <1>7, <1>8 DEF AddStep

\* What an iteration shows
LEMMA VisibleIs ==
  ASSUME NEW q
  PROVE  q \in Visible <=>
           \E c \in Types : components[c] # NoVec /\ \E k \in 1 .. Len(vecs[components[c]]) :
             q = [at |-> [vec |-> components[c], at |-> k], of |-> vecs[components[c]][k]]
BY DEF Visible

LEMMA VisibleSpots ==
  ASSUME TypeOK, VecsInv, NEW q \in Visible
  PROVE  /\ Spot(q.of, q.at.vec, q.at.at)
         /\ \E c \in Types : components[c] # NoVec /\ q.at.vec = components[c]
<1>1. PICK c \in Types : components[c] # NoVec /\ \E k \in 1 .. Len(vecs[components[c]]) :
        q = [at |-> [vec |-> components[c], at |-> k], of |-> vecs[components[c]][k]]
  BY VisibleIs
<1>2. components[c] \in Entities \ freedVecs
  BY <1>1 DEF TypeOK, VecsInv, NoVec
<1>3. QED
  BY <1>1, <1>2 DEF Spot

LEMMA VisibleTyped == TypeOK => Visible \subseteq Component
<1> SUFFICES ASSUME TypeOK, NEW c \in Types, components[c] # NoVec,
                    NEW k \in 1 .. Len(vecs[components[c]])
             PROVE  [at |-> [vec |-> components[c], at |-> k], of |-> vecs[components[c]][k]]
                      \in Component
  BY VisibleIs
<1>1. components[c] \in Entities
  BY DEF TypeOK, NoVec
<1>2. vecs[components[c]][k] \in Entities
  BY <1>1 DEF TypeOK
<1>3. k \in Nat
  BY <1>1 DEF TypeOK
<1>4. QED
  BY <1>1, <1>2, <1>3 DEF Component, Addr

LEMMA SwapRemovedTyped ==
  ASSUME TypeOK, NEW v \in Entities, NEW k \in 1 .. Len(vecs[v])
  PROVE  /\ SwapRemoved(v, k) \in Seq(Entities)
         /\ Len(SwapRemoved(v, k)) = Len(vecs[v]) - 1
         /\ \A j \in 1 .. Len(vecs[v]) - 1 :
              SwapRemoved(v, k)[j] = IF j = k THEN vecs[v][Len(vecs[v])] ELSE vecs[v][j]
<1>1. vecs[v] \in Seq(Entities) /\ Len(vecs[v]) - 1 \in Nat
  BY DEF TypeOK
<1>2. \A j \in 1 .. Len(vecs[v]) - 1 :
        (IF j = k THEN vecs[v][Len(vecs[v])] ELSE vecs[v][j]) \in Entities
  BY <1>1
<1>3. QED
  BY <1>1, <1>2 DEF SwapRemoved

\* The other steps
LEMMA TypeUse ==
  ASSUME PInv, UseComponents
  PROVE  TypeOK'
<1> USE DEF PInv
<1>1. ASSUME NEW q \in Visible, QueueModifier(q)
      PROVE  TypeOK'
  <2>1. \A m \in mods' : m \in mods \/ m = <<q>>
    BY <1>1 DEF QueueModifier
  <2>2. q \in Component
    BY VisibleTyped
  <2>3. \A m \in mods' : Len(m) = 1 /\ m[1] \in Component
    BY <2>1, <2>2 DEF TypeOK
  <2>4. QED
    BY <1>1, <2>3 DEF QueueModifier, TypeOK, structure, entities, adders, processing
<1>2. ASSUME NEW q \in Visible, NEW r \in Visible, QueueMultiModifier(q, r)
      PROVE  TypeOK'
  <2>1. \A m \in multiMods' : m \in multiMods \/ m = <<q, r>>
    BY <1>2 DEF QueueMultiModifier
  <2>2. q \in Component /\ r \in Component
    BY VisibleTyped
  <2>3. \A m \in multiMods' : m \in Component \X Component
    BY <2>1, <2>2 DEF TypeOK
  <2>4. QED
    BY <1>2, <2>3 DEF QueueMultiModifier, TypeOK, structure, entities, adders, processing
<1>3. ASSUME NEW e \in Returned \cup {q.of : q \in Visible}, QueueRemove(e)
      PROVE  TypeOK'
  <2>1. e \in Past({"insert", "push", "store", "publish"})
    <3>1. CASE e \in Returned
      BY <3>1 DEF Returned, Past, Started
    <3>2. CASE \E q \in Visible : e = q.of
      BY <3>2, VisibleSpots DEF PlacesInv, Pushed, Past
    <3>3. QED
      BY <3>1, <3>2
  <2>2. e \in Entities /\ idOf[e] \in Ids
    <3>1. e \in Started
      BY <2>1 DEF Past
    <3>2. QED
      BY <2>1, <3>1, MaxEntitiesAssumption DEF IdsInv, TypeOK, Started, Entities
  <2>3. removeQueue' \in Seq(Ids) /\ asked' \subseteq Entities
    BY <1>3, <2>2 DEF QueueRemove, TypeOK
  <2>4. QED
    BY <1>3, <2>3 DEF QueueRemove, TypeOK, structure, entities, adders, processing
<1>4. QED
  BY <1>1, <1>2, <1>3 DEF UseComponents

LEMMA TypeProcess ==
  ASSUME PInv, StartProcessing \/ ProcessQueues
  PROVE  TypeOK'
<1> USE DEF PInv
<1>1. CASE StartProcessing \/ RunMultiModifiers \/ RunModifiers \/ EndProcessing
  BY <1>1 DEF StartProcessing, RunMultiModifiers, RunModifiers, EndProcessing, TypeOK,
     structure, entities, queues, adders
<1>2. CASE MergeNewVecs
  <2>1. components' \in [Types -> Entities \cup {NoVec}] /\ newVecs' \in [Types -> Entities \cup {NoVec}]
    BY <1>2 DEF MergeNewVecs, TypeOK
  <2>2. QED
    BY <1>2, <2>1 DEF MergeNewVecs, TypeOK, entities, queues, adders
<1>3. CASE PopRemoval
  <2>1. Head(removeQueue) \in Ids /\ Tail(removeQueue) \in Seq(Ids)
    BY <1>3 DEF PopRemoval, TypeOK
  <2>2. NoEntry \in [present : BOOLEAN, data : Seq(Datum)]
    BY DEF NoEntry, NoList
  <2>3. /\ draining' \in Seq(Datum)
        /\ entityMap' \in [Ids -> [present : BOOLEAN, data : Seq(Datum)]]
        /\ phase' \in {"remove", "drain"}
    BY <1>3, <2>1, <2>2 DEF PopRemoval, TypeOK
  <2>4. QED
    BY <1>3, <2>1, <2>3 DEF PopRemoval, TypeOK, structure, adders
<1>4. CASE RemoveComponent
  <2> DEFINE d == Head(draining)
             a == box[d.box]
  <2>1. /\ draining' \in Seq(Datum) /\ faulted' \in BOOLEAN
        /\ d.box \in Entities /\ d.vec \in Entities
    <3>1. draining \in Seq(Datum) /\ draining # << >> /\ draining' = Tail(draining)
      BY <1>4 DEF RemoveComponent, TypeOK
    <3>2. faulted' = TRUE \/ faulted' = faulted
      BY <1>4 DEF RemoveComponent
    <3>3. faulted \in BOOLEAN
      BY DEF TypeOK
    <3>4. d \in Datum /\ draining' \in Seq(Datum)
      BY <3>1
    <3>5. QED
      BY <3>2, <3>3, <3>4 DEF Datum
  <2>2. CASE UNCHANGED structure
    BY <1>4, <2>1, <2>2 DEF RemoveComponent, TypeOK, structure, entities, queues, adders
  <2>3. CASE ~UNCHANGED structure
    <3>1. /\ a.vec = d.vec /\ a.at \in 1 .. Len(vecs[d.vec])
          /\ dropped' = dropped \cup {vecs[d.vec][a.at]}
          /\ vecs' = [vecs EXCEPT ![d.vec] = SwapRemoved(d.vec, a.at)]
          /\ \/ box' = box
             \/ box' = [box EXCEPT ![vecs[d.vec][Len(vecs[d.vec])]] = a]
          /\ UNCHANGED <<components, newVecs, freedVecs>>
      BY <1>4, <2>3 DEF RemoveComponent, InUse
    <3>2. vecs' \in [Entities -> Seq(Entities)]
      BY <2>1, <3>1, SwapRemovedTyped DEF TypeOK
    <3>3. dropped' \subseteq Entities
      <4>1. vecs[d.vec] \in Seq(Entities) /\ dropped \subseteq Entities
        BY <2>1 DEF TypeOK
      <4>2. vecs[d.vec][a.at] \in Entities
        BY <3>1, <4>1, ElementOfSeq
      <4>3. QED
        BY <3>1, <4>1, <4>2
    <3>4. a \in Addr
      BY <2>1 DEF TypeOK
    <3>5. box' \in [Entities -> Addr]
      BY <3>1, <3>4 DEF TypeOK
    <3>6. QED
      BY <1>4, <2>1, <3>1, <3>2, <3>3, <3>5 DEF RemoveComponent, TypeOK, entities, queues, adders
  <2>4. QED
    BY <2>2, <2>3
<1>5. CASE RecycleList
  <2>1. emptyVecs' \in Seq(Seq(Datum))
    BY <1>5 DEF RecycleList, TypeOK
  <2>2. QED
    BY <1>5, <2>1 DEF RecycleList, TypeOK, structure, queues, adders
<1>6. QED
  BY <1>1, <1>2, <1>3, <1>4, <1>5 DEF ProcessQueues

-----------------------------------------------------------------------------
(* The threads in add_entity                                               *)

\* The steps in which the thread stays in add_entity
Middle(t) ==
  \/ LookUpNew(t) \/ TakeId(t) \/ InsertEntity(t) \/ Push(t)
  \/ StoreAddress(t) /\ pushTo[t] = adding[t]

\* ... and those with which it returns
Last(t) == (StoreAddress(t) /\ pushTo[t] # adding[t]) \/ PublishVec(t)

LEMMA MiddleIs ==
  ASSUME TypeOK, NEW t \in Threads, Middle(t)
  PROVE  /\ UNCHANGED <<adding, typeOf, phase>>
         /\ pc[t] # "idle" /\ pc' = [pc EXCEPT ![t] = pc'[t]]
         /\ pc'[t] \in {"id", "insert", "push", "store", "publish"}
         /\ <<pc[t], pc'[t]>> \in {<<"read", "id">>, <<"id", "insert">>, <<"insert", "push">>,
                                   <<"push", "store">>, <<"store", "publish">>}
BY DEF TypeOK, Middle, LookUpNew, TakeId, InsertEntity, Push, StoreAddress, Goto,
   entities, processing

LEMMA MiddlePast ==
  ASSUME TypeOK, AddersInv, NEW t \in Threads, Middle(t), NEW steps
  PROVE  /\ Past(steps)' = IF pc'[t] \in steps THEN Past(steps) \cup {adding[t]}
                           ELSE Past(steps) \ {adding[t]}
         /\ Returned' = Returned
<1>1. PICK to : to = pc'[t]
  OBVIOUS
<1>2. pc' = [pc EXCEPT ![t] = to] /\ pc[t] # "idle" /\ UNCHANGED <<adding, typeOf>>
  BY <1>1, MiddleIs
<1>3. pc \in [Threads -> {"idle", "read", "id", "insert", "push", "store", "publish"}]
  BY DEF TypeOK
<1>4. QED
  BY <1>1, <1>2, <1>3, PastGoes

LEMMA LastIs ==
  ASSUME TypeOK, NEW t \in Threads, Last(t)
  PROVE  /\ UNCHANGED <<typeOf, phase>>
         /\ pc[t] \in {"store", "publish"} /\ pc' = [pc EXCEPT ![t] = "idle"]
         /\ adding' = [adding EXCEPT ![t] = NoEntity]
BY DEF TypeOK, Last, StoreAddress, PublishVec, Return, Goto, entities, processing

LEMMA AddSteps ==
  ASSUME NEW t \in Threads, AddStep(t)
  PROVE  Middle(t) \/ Last(t)
BY DEF AddStep, Middle, Last

\* Steps that are not of add_entity leave the adders alone
LEMMA RestIs ==
  ASSUME UseComponents \/ StartProcessing \/ ProcessQueues
  PROVE  UNCHANGED <<adders, idCounter, idOf, typeOf>>
BY DEF UseComponents, QueueModifier, QueueMultiModifier, QueueRemove, StartProcessing,
   ProcessQueues, RunMultiModifiers, RunModifiers, MergeNewVecs, PopRemoval,
   RemoveComponent, RecycleList, EndProcessing, entities

LEMMA AddersKeep ==
  ASSUME PInv, Step
  PROVE  AddersInv'
<1> USE DEF PInv
<1>1. ASSUME NEW t \in Threads, NEW c \in Types, Begin(t, c)
      PROVE  AddersInv'
  <2>1. /\ Started' = Started \cup {Len(typeOf) + 1} /\ Len(typeOf) + 1 \notin Started
      BY <1>1, PastBegins
  <2>2. /\ pc[t] = "idle" /\ pc'[t] # "idle" /\ adding'[t] = Len(typeOf) + 1
        /\ phase = "run" /\ phase' = "run"
        /\ \A u \in Threads : u # t => pc'[u] = pc[u] /\ adding'[u] = adding[u]
    BY <1>1 DEF Begin, Goto, TypeOK, processing
  <2>3. Len(typeOf) + 1 # 0
    BY DEF TypeOK
  <2>4. \A u \in Threads : u # t => adding[u] # Len(typeOf) + 1
    BY <2>1, <2>3 DEF AddersInv, NoEntity
  <2>5. QED
    BY <2>1, <2>2, <2>4 DEF AddersInv
<1>2. ASSUME NEW t \in Threads, Middle(t)
      PROVE  AddersInv'
  <2>1. /\ UNCHANGED <<adding, typeOf, phase>>
        /\ pc[t] # "idle" /\ pc'[t] # "idle"
        /\ \A u \in Threads : u # t => pc'[u] = pc[u]
    BY <1>2, MiddleIs DEF TypeOK
  <2>2. Started' = Started
    BY <2>1 DEF Started
  <2>3. QED
    BY <2>1, <2>2 DEF AddersInv
<1>3. ASSUME NEW t \in Threads, Last(t)
      PROVE  AddersInv'
  <2>1. /\ UNCHANGED <<typeOf, phase>>
        /\ pc'[t] = "idle" /\ adding'[t] = 0 /\ pc[t] # "idle"
        /\ \A u \in Threads : u # t => pc'[u] = pc[u] /\ adding'[u] = adding[u]
    BY ZenonT(60), <1>3, LastIs DEF TypeOK, NoEntity
  <2>2. Started' = Started /\ 0 \notin Started
    BY <2>1 DEF Started
  <2>3. QED
    BY <2>1, <2>2 DEF AddersInv, NoEntity
<1>4. CASE UseComponents \/ StartProcessing \/ ProcessQueues
  <2>1. UNCHANGED <<pc, adding, typeOf>>
    BY <1>4, RestIs DEF adders
  <2>2. phase' = phase \/ \A t \in Threads : pc[t] = "idle"
    <3>1. CASE UseComponents
      BY <3>1 DEF UseComponents, QueueModifier, QueueMultiModifier, QueueRemove, processing
    <3>2. CASE StartProcessing
      BY <3>2 DEF StartProcessing
    <3>3. CASE ProcessQueues
      <4>1. phase # "run"
        BY <3>3 DEF ProcessQueues, RunMultiModifiers, RunModifiers, MergeNewVecs, PopRemoval,
           RemoveComponent, RecycleList, EndProcessing
      <4>2. QED
        BY <4>1 DEF AddersInv
    <3>4. QED
      BY <1>4, <3>1, <3>2, <3>3
  <2>3. Started' = Started
    BY <2>1 DEF Started
  <2>4. QED
    BY <2>1, <2>2, <2>3 DEF AddersInv
<1>5. QED
  BY <1>1, <1>2, <1>3, <1>4, AddSteps DEF Step

LEMMA IdsKeep ==
  ASSUME PInv, Step
  PROVE  IdsInv'
<1> USE DEF PInv
<1> DEFINE S == {"insert", "push", "store", "publish"}
<1>1. ASSUME NEW t \in Threads, NEW c \in Types, Begin(t, c)
      PROVE  IdsInv'
  <2>1. pc'[t] \in {"id", "read"} /\ UNCHANGED idOf
    BY <1>1 DEF Begin, Goto, TypeOK
  <2>2. pc'[t] \notin S
    BY <2>1
  <2>3. Past(S)' = Past(S)
    BY <1>1, <2>2, PastBegins
  <2>4. QED
    BY <2>1, <2>3 DEF IdsInv
<1>2. ASSUME NEW t \in Threads, Middle(t)
      PROVE  IdsInv'
  <2>1. Past(S)' = IF pc'[t] \in S THEN Past(S) \cup {adding[t]} ELSE Past(S) \ {adding[t]}
    BY <1>2, MiddlePast
  <2>2. CASE TakeId(t)
    <3>1. /\ \A e \in Past(S)' \ {adding[t]} : idOf'[e] = idOf[e] /\ e \in Past(S)
          /\ adding[t] \in Entities
      <4>1. adding[t] \in Started /\ Started \subseteq Entities
        BY <2>2, MaxEntitiesAssumption DEF TakeId, Goto, AddersInv, TypeOK, Started, Entities
      <4>2. Past(S) \subseteq Entities
        BY <4>1 DEF Past
      <4>3. QED
        BY <2>1, <2>2, <4>1, <4>2 DEF TakeId, TypeOK
    <3>2. idOf'[adding[t]] \in Ids
      BY <2>2, <3>1 DEF TakeId, TypeOK
    <3>3. QED
      BY <3>1, <3>2 DEF IdsInv
  <2>3. CASE ~TakeId(t)
    <3>1. UNCHANGED idOf
      BY <1>2, <2>3 DEF Middle, LookUpNew, InsertEntity, Push, StoreAddress, entities
    <3>2. pc[t] \in S \/ pc'[t] \notin S
      BY <1>2, <2>3, MiddleIs DEF Middle, LookUpNew, InsertEntity, Push, StoreAddress, Goto
    <3>3. pc[t] \in S => adding[t] \in Past(S)
      BY <1>2, MiddleIs DEF Past, AddersInv
    <3>4. QED
      BY <2>1, <3>1, <3>2, <3>3 DEF IdsInv
  <2>4. QED
    BY <2>2, <2>3
<1>3. ASSUME NEW t \in Threads, Last(t)
      PROVE  IdsInv'
  <2>1. Past(S)' = Past(S) \cup {adding[t]}
    BY <1>3, LastIs, PastReturns
  <2>2. adding[t] \in Past(S)
    BY <1>3, LastIs DEF Past, AddersInv
  <2>3. UNCHANGED idOf
    BY <1>3 DEF Last, StoreAddress, PublishVec, entities
  <2>4. QED
    BY <2>1, <2>2, <2>3 DEF IdsInv
<1>4. CASE UseComponents \/ StartProcessing \/ ProcessQueues
  <2>1. UNCHANGED <<pc, adding, typeOf, idOf>>
    BY <1>4, RestIs DEF adders
  <2>2. QED
    BY <2>1 DEF IdsInv, Past, Started
<1>5. QED
  BY <1>1, <1>2, <1>3, <1>4, AddSteps DEF Step

\* A vector that is published is not an adder's own
LEMMA OwnUnpublished ==
  ASSUME PInv, NEW t \in Threads, NEW c \in Types, pc[t] # "idle"
  PROVE  adding[t] \notin {components[c], newVecs[c]}
<1>1. adding[t] # 0 /\ adding[t] \notin Returned
  BY DEF PInv, AddersInv, Started, Returned
<1>2. QED
  BY <1>1 DEF PInv, VecsInv, NoVec

LEMMA PushToKeeps ==
  ASSUME PInv, Step
  PROVE  PushToInv'
<1> USE DEF PInv
<1> DEFINE P(t) ==
      /\ pc[t] = "read" => components[TypeFor(t)] = NoVec /\ pushTo[t] = NoVec
      /\ pc[t] \in {"id", "insert", "push", "store", "publish"} =>
           \/ pushTo[t] = adding[t] /\ components[TypeFor(t)] = NoVec /\ t \notin readers
           \/ /\ pc[t] # "publish" /\ pushTo[t] # NoVec
              /\ IF t \in readers THEN pushTo[t] = newVecs[TypeFor(t)]
                 ELSE pushTo[t] = components[TypeFor(t)]
<1>1. ASSUME NEW t \in Threads, NEW c \in Types, Begin(t, c)
      PROVE  PushToInv'
  <2>1. UNCHANGED <<components, newVecs, readers>>
    BY <1>1 DEF Begin, structure
  <2>2. TypeFor(t)' = c /\ \A u \in Threads : u # t /\ pc[u] # "idle" => TypeFor(u)' = TypeFor(u)
    <3>1. adding'[t] = Len(typeOf) + 1 /\ \A u \in Threads : u # t => adding'[u] = adding[u]
      BY <1>1 DEF Begin, TypeOK
    <3>2. QED
      BY <1>1, <3>1, PastBegins DEF TypeFor, AddersInv
  <2>3. \A u \in Threads : u # t => /\ pc'[u] = pc[u] /\ adding'[u] = adding[u]
                                    /\ pushTo'[u] = pushTo[u]
    BY <1>1 DEF Begin, Goto, TypeOK
  <2>4. ASSUME NEW u \in Threads, u # t
        PROVE  P(u)'
    BY <2>1, <2>2, <2>3, <2>4 DEF PushToInv
  <2>5. P(t)'
    <3>1. /\ pushTo'[t] = components[c] /\ t \notin readers
          /\ pc'[t] = IF components[c] # NoVec THEN "id" ELSE "read"
      BY <1>1 DEF Begin, Goto, TypeOK
    <3>2. QED
      BY <2>1, <2>2, <3>1
  <2>6. QED
    BY <2>4, <2>5 DEF PushToInv
<1>2. ASSUME NEW t \in Threads, Middle(t)
      PROVE  PushToInv'
  <2>1. UNCHANGED <<components, newVecs, adding, typeOf>>
    BY <1>2, MiddleIs DEF Middle, LookUpNew, TakeId, InsertEntity, Push, StoreAddress, structure
  <2>2. \A u \in Threads : TypeFor(u)' = TypeFor(u)
    BY <2>1 DEF TypeFor
  <2>3. \A u \in Threads : u # t => /\ pc'[u] = pc[u] /\ pushTo'[u] = pushTo[u]
                                    /\ (u \in readers' <=> u \in readers)
    BY <1>2 DEF Middle, LookUpNew, TakeId, InsertEntity, Push, StoreAddress, Goto, TypeOK
  <2>4. ASSUME NEW u \in Threads, u # t
        PROVE  P(u)'
    BY <2>1, <2>2, <2>3, <2>4 DEF PushToInv
  <2>5. P(t)'
    <3>1. CASE LookUpNew(t)
      <4>1. /\ pc[t] = "read" /\ pc'[t] = "id" /\ t \notin readers
            /\ readers' = IF newVecs[TypeFor(t)] # NoVec THEN readers \cup {t} ELSE readers
            /\ pushTo'[t] = IF newVecs[TypeFor(t)] # NoVec THEN newVecs[TypeFor(t)] ELSE adding[t]
        BY <3>1 DEF LookUpNew, Goto, TypeOK, TypeFor
      <4>2. QED
        BY <2>1, <2>2, <4>1 DEF PushToInv
    <3>2. CASE TakeId(t) \/ InsertEntity(t) \/ Push(t)
      <4>1. /\ pc[t] \in {"id", "insert", "push"} /\ pc'[t] \in {"insert", "push", "store"}
            /\ UNCHANGED <<readers, pushTo>>
        BY <3>2 DEF TakeId, InsertEntity, Push, Goto, TypeOK
      <4>2. QED
        BY <2>1, <2>2, <4>1 DEF PushToInv
    <3>3. CASE StoreAddress(t) /\ pushTo[t] = adding[t]
      <4>1. /\ pc[t] = "store" /\ pc'[t] = "publish"
            /\ UNCHANGED pushTo /\ readers' = readers \ {t}
        BY <3>3 DEF StoreAddress, Goto, TypeOK
      <4>2. TypeFor(t) \in Types
        BY <4>1 DEF TypeFor, AddersInv, Started, TypeOK
      <4>3. components[TypeFor(t)] = NoVec
        BY <3>3, <4>1, <4>2, OwnUnpublished DEF PushToInv
      <4>4. QED
        BY <2>1, <2>2, <3>3, <4>1, <4>3
    <3>4. QED
      BY <1>2, <3>1, <3>2, <3>3 DEF Middle
  <2>6. QED
    BY <2>4, <2>5 DEF PushToInv
<1>3. ASSUME NEW t \in Threads, Last(t)
      PROVE  PushToInv'
  <2>1. /\ UNCHANGED <<components, typeOf>> /\ pc'[t] = "idle"
        /\ \A u \in Threads : u # t => /\ pc'[u] = pc[u] /\ pushTo'[u] = pushTo[u]
                                       /\ adding'[u] = adding[u]
                                       /\ (u \in readers' <=> u \in readers)
                                       /\ (u \in readers => newVecs' = newVecs)
    <3>1. /\ pc' = [pc EXCEPT ![t] = "idle"] /\ adding' = [adding EXCEPT ![t] = NoEntity]
          /\ UNCHANGED <<components, typeOf>>
      BY <1>3, LastIs DEF Last, StoreAddress, PublishVec, structure
    <3>2. pushTo' = [pushTo EXCEPT ![t] = NoVec]
      BY <1>3 DEF Last, StoreAddress, PublishVec, Return
    <3>3. \/ readers' = readers \ {t} /\ newVecs' = newVecs
          \/ readers' = {} /\ readers = {}
      BY <1>3 DEF Last, StoreAddress, PublishVec
    <3>4. QED
      BY <3>1, <3>2, <3>3 DEF TypeOK
  <2>2. \A u \in Threads : u # t => TypeFor(u)' = TypeFor(u)
    BY <2>1 DEF TypeFor
  <2>3. ASSUME NEW u \in Threads, u # t
        PROVE  P(u)'
    BY <2>1, <2>2, <2>3 DEF PushToInv
  <2>4. P(t)'
    BY <2>1
  <2>5. QED
    BY <2>3, <2>4 DEF PushToInv
<1>4. CASE UseComponents
  BY <1>4, RestIs DEF UseComponents, QueueModifier, QueueMultiModifier, QueueRemove, structure,
     adders, PushToInv, TypeFor
<1>5. CASE StartProcessing \/ ProcessQueues
  <2>1. \A t \in Threads : pc'[t] = "idle"
    BY <1>5, RestIs DEF AddersInv, StartProcessing, ProcessQueues, RunMultiModifiers,
       RunModifiers, MergeNewVecs, PopRemoval, RemoveComponent, RecycleList, EndProcessing, adders
  <2>2. QED
    BY <2>1 DEF PushToInv
<1>6. QED
  BY <1>1, <1>2, <1>3, <1>4, <1>5, AddSteps DEF Step

-----------------------------------------------------------------------------
(* Vectors and places                                                      *)

\* A step that touches no vector and gets no thread to store or on from there
Quiet ==
  /\ UNCHANGED structure
  /\ Returned' = Returned /\ Pushed' = Pushed /\ Boxed' = Boxed
  /\ Started \subseteq Started' /\ \A e \in Started : typeOf'[e] = typeOf[e]
  /\ phase' \in {"remove", "drain"} => phase \in {"remove", "drain"}
  /\ \A t \in Threads :
       /\ pc'[t] \in {"store", "publish"} => pc'[t] = pc[t]
       /\ pc[t] \in {"store", "publish"} =>
            pc'[t] = pc[t] /\ adding'[t] = adding[t] /\ pushTo'[t] = pushTo[t]

LEMMA QuietKeeps ==
  ASSUME PInv, Quiet
  PROVE  VecsInv' /\ PlacesInv'
<1> USE DEF PInv
<1>1. /\ UNCHANGED <<components, newVecs, vecs, freedVecs, box, dropped>>
      /\ Returned' = Returned /\ Pushed' = Pushed /\ Boxed' = Boxed
  BY DEF Quiet, structure
<1>2. \A t \in Threads : HasOwn(t)' <=> HasOwn(t)
  BY DEF Quiet, HasOwn
<1>3. \A t \in Threads : HasOwn(t) => adding'[t] = adding[t]
  BY DEF Quiet, HasOwn
<1>4. Returned \subseteq Started
  BY DEF Returned, Started
<1>5. VecsInv'
  <2>1. \A v : Published(v) => Published(v)'
    BY <1>1 DEF Quiet, Published
  <2>2. \A c \in Types : \A v \in {components[c], newVecs[c]} \ {NoVec} :
          v \in Returned \ freedVecs /\ typeOf'[v] = c
    BY <1>4 DEF VecsInv, Quiet
  <2>3. phase' \in {"remove", "drain"} => phase \in {"remove", "drain"}
    BY DEF Quiet
  <2>4. \A v \in Entities \ freedVecs : vecs[v] # << >> =>
          Published(v)' \/ \E t \in Threads : HasOwn(t)' /\ adding'[t] = v
    BY <1>2, <1>3, <2>1 DEF VecsInv
  <2>5. \A t \in Threads : HasOwn(t)' => vecs[adding'[t]] = <<adding'[t]>>
    BY <1>2, <1>3 DEF VecsInv
  <2>6. QED
    BY <1>1, <2>2, <2>3, <2>4, <2>5 DEF VecsInv
<1>6. PlacesInv'
  <2>1. \A e, v, k : Spot(e, v, k)' <=> Spot(e, v, k)
    BY <1>1 DEF Spot
  <2>2. \A v \in freedVecs : Contents(v)' = Contents(v)
    BY <1>1 DEF Contents
  <2>3. \A e, v, k : Spot(e, v, k) => typeOf'[e] = typeOf'[v]
    <3>1. ASSUME NEW e, NEW v, NEW k, Spot(e, v, k)
          PROVE  e \in Started /\ v \in Started
      <4>1. vecs[v] # << >> /\ v \in Entities \ freedVecs
        BY <3>1 DEF Spot
      <4>2. v \in Started
        BY <4>1 DEF VecsInv, Published, HasOwn, AddersInv
      <4>3. e \in Started
        BY <3>1 DEF PlacesInv, Pushed, Past
      <4>4. QED
        BY <4>2, <4>3
    <3>2. QED
      BY <3>1 DEF PlacesInv, Quiet
  <2>4. \A t \in Threads : pc'[t] = "store" => pc[t] = "store" /\ adding'[t] = adding[t] /\ pushTo'[t] = pushTo[t]
    BY DEF Quiet
  <2>5. QED
    BY <1>1, <2>1, <2>2, <2>3, <2>4 DEF PlacesInv
<1>7. QED
  BY <1>5, <1>6

\* The steps that change neither the vectors nor the boxes
LEMMA QuietSteps ==
  ASSUME PInv,
         \/ \E t \in Threads : (\E c \in Types : Begin(t, c)) \/ LookUpNew(t) \/ TakeId(t) \/ InsertEntity(t)
         \/ UseComponents \/ StartProcessing
         \/ RunMultiModifiers \/ RunModifiers \/ PopRemoval \/ RecycleList \/ EndProcessing
         \/ RemoveComponent /\ UNCHANGED structure
  PROVE  Quiet
<1> USE DEF PInv
<1>1. ASSUME NEW t \in Threads, NEW c \in Types, Begin(t, c)
      PROVE  Quiet
  <2>1. /\ UNCHANGED <<structure, phase>> /\ pc[t] = "idle" /\ pc'[t] \in {"id", "read"}
        /\ \A u \in Threads : u # t => /\ pc'[u] = pc[u] /\ adding'[u] = adding[u]
                                       /\ pushTo'[u] = pushTo[u]
    BY <1>1 DEF Begin, Goto, TypeOK, processing
  <2>2. Pushed' = Pushed /\ Boxed' = Boxed
    BY <1>1, <2>1, PastBegins DEF Pushed, Boxed
  <2>3. /\ Returned' = Returned /\ Started \subseteq Started'
        /\ \A e \in Started : typeOf'[e] = typeOf[e]
    BY <1>1, PastBegins
  <2>4. QED
    BY <2>1, <2>2, <2>3 DEF Quiet
<1>2. ASSUME NEW t \in Threads, LookUpNew(t) \/ TakeId(t) \/ InsertEntity(t)
      PROVE  Quiet
  <2>1. /\ UNCHANGED <<structure, phase, adding, typeOf>>
        /\ pc[t] \in {"read", "id", "insert"} /\ pc'[t] \in {"id", "insert", "push"}
        /\ \A u \in Threads : u # t => pc'[u] = pc[u] /\ pushTo'[u] = pushTo[u]
    BY <1>2 DEF LookUpNew, TakeId, InsertEntity, Goto, TypeOK, entities, processing
  <2>2. adding[t] \notin Pushed /\ adding[t] \notin Boxed
    BY <2>1 DEF Pushed, Boxed, Past
  <2>3. /\ Returned' = Returned
        /\ \A steps : Past(steps)' = IF pc'[t] \in steps THEN Past(steps) \cup {adding[t]}
                                     ELSE Past(steps) \ {adding[t]}
    BY <1>2, MiddlePast DEF Middle
  <2>4. Pushed' = Pushed /\ Boxed' = Boxed
    BY <2>1, <2>2, <2>3 DEF Pushed, Boxed
  <2>5. QED
    BY <2>1, <2>3, <2>4 DEF Quiet, Started
<1>3. ASSUME \/ UseComponents \/ StartProcessing
             \/ RunMultiModifiers \/ RunModifiers \/ PopRemoval \/ RecycleList \/ EndProcessing
             \/ RemoveComponent /\ UNCHANGED structure
      PROVE  Quiet
  <2>1. UNCHANGED <<pc, adding, pushTo, typeOf>>
    BY <1>3, RestIs DEF ProcessQueues, adders
  <2>2. Returned' = Returned /\ Pushed' = Pushed /\ Boxed' = Boxed /\ Started' = Started
    BY <2>1 DEF Returned, Pushed, Boxed, Past, Started
  <2>3. UNCHANGED structure
    BY <1>3 DEF UseComponents, QueueModifier, QueueMultiModifier, QueueRemove, StartProcessing,
       RunMultiModifiers, RunModifiers, PopRemoval, RecycleList, EndProcessing
  <2>4. phase' \in {"remove", "drain"} => phase \in {"remove", "drain"}
    BY <1>3 DEF UseComponents, QueueModifier, QueueMultiModifier, QueueRemove, StartProcessing,
       RunMultiModifiers, RunModifiers, PopRemoval, RecycleList, EndProcessing, RemoveComponent,
       processing
  <2>5. QED
    BY <2>1, <2>2, <2>3, <2>4 DEF Quiet
<1>4. QED
  BY <1>1, <1>2, <1>3

\* The vector a thread pushes to is there, is of the right type, and is empty
\* if it is the thread's own
LEMMA TargetIs ==
  ASSUME PInv, NEW t \in Threads, pc[t] \in {"id", "insert", "push", "store", "publish"}
  PROVE  /\ pushTo[t] \in Entities \ freedVecs /\ pushTo[t] \in Started
         /\ typeOf[pushTo[t]] = TypeFor(t)
         /\ pushTo[t] # adding[t] => Published(pushTo[t]) /\ pushTo[t] \in Returned
         /\ adding[t] \in Entities \ freedVecs /\ adding[t] \in Started /\ adding[t] \notin Returned
<1> USE DEF PInv
<1>1. /\ adding[t] \in Started /\ adding[t] \notin Returned /\ Started \subseteq Entities
      /\ TypeFor(t) \in Types
  BY MaxEntitiesAssumption DEF AddersInv, Returned, Started, Entities, TypeOK, TypeFor
<1>2. adding[t] \notin freedVecs
  BY <1>1 DEF VecsInv
<1>3. CASE pushTo[t] = adding[t]
  BY <1>1, <1>2, <1>3 DEF TypeFor
<1>4. CASE pushTo[t] # adding[t]
  <2>1. pushTo[t] \in {components[TypeFor(t)], newVecs[TypeFor(t)]} \ {NoVec}
    BY <1>4 DEF PushToInv
  <2>2. pushTo[t] \in Returned \ freedVecs /\ typeOf[pushTo[t]] = TypeFor(t)
    BY <1>1, <2>1 DEF VecsInv
  <2>3. pushTo[t] \in Started
    BY <2>2 DEF Returned, Started
  <2>4. QED
    BY <1>1, <1>2, <2>1, <2>2, <2>3 DEF Published
<1>5. QED
  BY <1>3, <1>4

\* The vector an adder makes is empty until it pushes
LEMMA OwnEmpty ==
  ASSUME PInv, NEW t \in Threads, pc[t] \in {"id", "insert", "push"}
  PROVE  vecs[adding[t]] = << >>
<1> USE DEF PInv
<1>1. adding[t] \in Entities \ freedVecs /\ adding[t] \notin Returned
  BY TargetIs
<1>2. TypeFor(t) \in Types
  BY DEF AddersInv, Started, TypeOK, TypeFor
<1>3. ~Published(adding[t])
  BY <1>2, OwnUnpublished DEF Published, TypeFor
<1>4. ~ \E u \in Threads : HasOwn(u) /\ adding[u] = adding[t]
  BY DEF HasOwn, AddersInv
<1>5. QED
  BY <1>1, <1>3, <1>4 DEF VecsInv

LEMMA PushSpots ==
  ASSUME PInv, NEW t \in Threads, Push(t)
  PROVE  /\ \A e, v, k : Spot(e, v, k)' <=>
              \/ Spot(e, v, k)
              \/ e = adding[t] /\ v = pushTo[t] /\ k = Len(vecs[pushTo[t]]) + 1
         /\ \A v, k : ~Spot(adding[t], v, k)
         /\ pc[t] = "push" /\ pc'[t] = "store"
         /\ \A u \in Threads : u # t => pc'[u] = pc[u]
         /\ vecs'[pushTo[t]] = Append(vecs[pushTo[t]], adding[t])
         /\ \A v \in Entities : v # pushTo[t] => vecs'[v] = vecs[v]
         /\ pushTo[t] \in Entities \ freedVecs /\ vecs[pushTo[t]] \in Seq(Entities)
         /\ UNCHANGED <<components, newVecs, freedVecs, box, dropped, typeOf, adding, pushTo, phase>>
<1> USE DEF PInv
<1>1. /\ pc[t] = "push" /\ pc'[t] = "store" /\ \A u \in Threads : u # t => pc'[u] = pc[u]
      /\ vecs' = [vecs EXCEPT ![pushTo[t]] = Append(@, adding[t])]
      /\ UNCHANGED <<components, newVecs, freedVecs, box, dropped, typeOf, adding, pushTo, phase>>
  BY DEF Push, Goto, TypeOK, entities, processing
<1>2. pushTo[t] \in Entities \ freedVecs /\ vecs[pushTo[t]] \in Seq(Entities) /\ adding[t] \in Entities
  BY <1>1, TargetIs DEF TypeOK
<1>3. /\ vecs'[pushTo[t]] = Append(vecs[pushTo[t]], adding[t])
      /\ \A v \in Entities : v # pushTo[t] => vecs'[v] = vecs[v]
  BY <1>1, <1>2 DEF TypeOK
<1>4. adding[t] \notin Pushed
  BY <1>1 DEF Pushed, Past
<1>5. \A v, k : ~Spot(adding[t], v, k)
  BY <1>4 DEF PlacesInv
<1>6. ASSUME NEW e, NEW v, NEW k
      PROVE  Spot(e, v, k)' <=>
               \/ Spot(e, v, k)
               \/ e = adding[t] /\ v = pushTo[t] /\ k = Len(vecs[pushTo[t]]) + 1
  <2>1. CASE v = pushTo[t]
    BY <1>1, <1>2, <1>3, <2>1 DEF Spot
  <2>2. CASE v # pushTo[t]
    BY <1>1, <1>2, <1>3, <2>2 DEF Spot
  <2>3. QED
    BY <2>1, <2>2
<1>7. QED
  BY <1>1, <1>2, <1>3, <1>5, <1>6

LEMMA PushKeeps ==
  ASSUME PInv, NEW t \in Threads, Push(t)
  PROVE  VecsInv' /\ PlacesInv'
<1> USE DEF PInv
<1> DEFINE e == adding[t]
           p == pushTo[t]
<1>1. /\ UNCHANGED <<components, newVecs, freedVecs, box, dropped, typeOf, adding, pushTo, phase>>
      /\ pc[t] = "push" /\ pc'[t] = "store"
      /\ \A u \in Threads : u # t => pc'[u] = pc[u]
      /\ \A v \in Entities : v # p => vecs'[v] = vecs[v]
      /\ vecs'[p] = Append(vecs[p], e) /\ vecs[p] \in Seq(Entities)
  BY PushSpots
<1>2. /\ Returned' = Returned /\ Started' = Started
      /\ Pushed' = Pushed \cup {e} /\ Boxed' = Boxed /\ e \notin Pushed
  <2>1. Middle(t)
    BY DEF Middle
  <2>2. e \notin Boxed /\ e \notin Pushed
    BY <1>1 DEF Boxed, Pushed, Past
  <2>3. /\ Pushed' = IF pc'[t] \in {"store", "publish"} THEN Pushed \cup {e} ELSE Pushed \ {e}
        /\ Boxed' = IF pc'[t] \in {"publish"} THEN Boxed \cup {e} ELSE Boxed \ {e}
        /\ Returned' = Returned
    BY <2>1, MiddlePast DEF Pushed, Boxed
  <2>4. QED
    BY <1>1, <2>2, <2>3 DEF Started
<1>3. /\ p \in Entities \ freedVecs /\ p \in Started /\ typeOf[p] = typeOf[e]
      /\ e \in Started /\ e \notin Returned
      /\ p # e => Published(p) /\ p \in Returned
  BY <1>1, TargetIs DEF TypeFor
<1>4. \A u \in Threads : HasOwn(u)' <=> HasOwn(u) \/ (u = t /\ p = e)
  BY <1>1 DEF HasOwn
<1>5. VecsInv'
  <2>1. \A c \in Types : newVecs[c] # NoVec => vecs'[newVecs[c]] # << >>
    <3> SUFFICES ASSUME NEW c \in Types, newVecs[c] # NoVec
                 PROVE  vecs'[newVecs[c]] # << >>
      OBVIOUS
    <3>1. newVecs[c] \in Entities /\ vecs[newVecs[c]] # << >>
      BY DEF VecsInv, TypeOK, NoVec
    <3>2. QED
      BY <1>1, <3>1
  <2>2. ASSUME NEW v \in Entities \ freedVecs, vecs'[v] # << >>
        PROVE  Published(v) \/ \E u \in Threads : HasOwn(u)' /\ adding[u] = v
    <3>1. CASE v = p /\ p = e
      BY <1>4, <3>1
    <3>2. CASE v = p /\ p # e
      BY <1>3, <3>2
    <3>3. CASE v # p
      BY <1>1, <1>4, <2>2, <3>3 DEF VecsInv
    <3>4. QED
      BY <3>1, <3>2, <3>3
  <2>3. ASSUME NEW u \in Threads, HasOwn(u)'
        PROVE  vecs'[adding[u]] = <<adding[u]>>
    <3>1. CASE u = t
      <4>1. p = e /\ vecs[e] = << >>
        BY <1>1, <1>4, <2>3, <3>1, OwnEmpty DEF HasOwn
      <4>2. QED
        BY <1>1, <3>1, <4>1
    <3>2. CASE u # t
      <4>1. HasOwn(u) /\ adding[u] \in Entities /\ adding[u] \notin Returned /\ adding[u] # e
        BY <1>4, <2>3, <3>2, TargetIs DEF HasOwn, AddersInv
      <4>2. adding[u] # p
        BY <1>3, <4>1
      <4>3. QED
        BY <1>1, <4>1, <4>2 DEF VecsInv
    <3>3. QED
      BY <3>1, <3>2
  <2>4. \A v : Published(v)' <=> Published(v)
    BY <1>1, <1>2 DEF Published
  <2>5. QED
    BY <1>1, <1>2, <2>1, <2>2, <2>3, <2>4 DEF VecsInv
<1>6. PlacesInv'
  <2> DEFINE n == Len(vecs[p]) + 1
  <2>1. /\ \A x, v, k : Spot(x, v, k)' <=> Spot(x, v, k) \/ (x = e /\ v = p /\ k = n)
        /\ \A v, k : ~Spot(e, v, k)
    BY PushSpots
  <2> HIDE DEF n
  <2>2. dropped' \subseteq Returned'
    BY <1>1, <1>2 DEF PlacesInv
  <2>3. \A v \in freedVecs' : Contents(v)' \subseteq dropped'
    <3>1. \A v \in freedVecs : vecs'[v] = vecs[v]
      BY <1>1, <1>3 DEF TypeOK
    <3>2. \A v \in freedVecs : Contents(v)' = Contents(v)
      BY <3>1 DEF Contents
    <3>3. QED
      BY <1>1, <3>2 DEF PlacesInv
  <2>4. \A x, v, k : Spot(x, v, k)' => x \in (Pushed \ dropped)' /\ typeOf'[x] = typeOf'[v]
    BY <1>1, <1>2, <1>3, <2>1 DEF PlacesInv
  <2>5. \A x, v, k, w, j : Spot(x, v, k)' /\ Spot(x, w, j)' => v = w /\ k = j
    BY <2>1 DEF PlacesInv
  <2>6. \A x \in (Boxed \ dropped)' : Spot(x, box[x].vec, box[x].at)'
    BY <1>1, <1>2, <2>1 DEF PlacesInv
  <2>7. \A u \in Threads : pc'[u] = "store" => \E k : Spot(adding[u], pushTo[u], k)'
    BY <1>1, <2>1 DEF PlacesInv
  <2>8. QED
    BY <1>1, <2>2, <2>3, <2>4, <2>5, <2>6, <2>7 DEF PlacesInv
<1>7. QED
  BY <1>5, <1>6

\* The address that is stored is that of the place of the component
LEMMA StoreIs ==
  ASSUME PInv, NEW t \in Threads, StoreAddress(t)
  PROVE  /\ UNCHANGED <<components, newVecs, vecs, freedVecs, dropped, typeOf, phase>>
         /\ Spot(adding[t], box'[adding[t]].vec, box'[adding[t]].at)
         /\ box'[adding[t]].vec = pushTo[t]
         /\ \A e \in Entities : e # adding[t] => box'[e] = box[e]
         /\ pc[t] = "store"
         /\ Returned \subseteq Returned' /\ Returned' \subseteq Returned \cup {adding[t]}
         /\ Pushed' = Pushed /\ Boxed' = Boxed \cup {adding[t]}
         /\ \A u \in Threads : u # t =>
              pc'[u] = pc[u] /\ adding'[u] = adding[u] /\ pushTo'[u] = pushTo[u]
         /\ IF pushTo[t] = adding[t] THEN pc'[t] = "publish" /\ UNCHANGED <<adding, pushTo>>
            ELSE pc'[t] = "idle"
<1> USE DEF PInv
<1> DEFINE e == adding[t]
           v == pushTo[t]
           at == CHOOSE k \in 1 .. Len(vecs[v]) : vecs[v][k] = e
<1>1. /\ UNCHANGED <<components, newVecs, vecs, freedVecs, dropped, typeOf, phase>>
      /\ pc[t] = "store"
      /\ box' = [box EXCEPT ![e] = [vec |-> v, at |-> at]]
      /\ pc' = [pc EXCEPT ![t] = IF v = e THEN "publish" ELSE "idle"]
  BY DEF StoreAddress, Goto, entities, processing
<1>2. \A u \in Threads : u # t => pc'[u] = pc[u] /\ adding'[u] = adding[u] /\ pushTo'[u] = pushTo[u]
  BY <1>1 DEF StoreAddress, Return, TypeOK
<1>3. e \in Entities /\ v \in Entities \ freedVecs
  BY <1>1, TargetIs
<1>4. \E k \in 1 .. Len(vecs[v]) : vecs[v][k] = e
  BY <1>1 DEF PlacesInv, Spot
<1>5. at \in 1 .. Len(vecs[v]) /\ vecs[v][at] = e
  BY <1>4
<1> HIDE DEF at
<1>6. box'[e].vec = v /\ box'[e].at = at /\ \A x \in Entities : x # e => box'[x] = box[x]
  BY <1>1, <1>3 DEF TypeOK
<1>7. Spot(e, v, at)
  BY <1>3, <1>5 DEF Spot
<1>8. /\ Returned \subseteq Returned' /\ Returned' \subseteq Returned \cup {e}
      /\ Pushed' = Pushed \cup {e} /\ Boxed' = Boxed \cup {e}
  <2>1. CASE v = e
    <3>1. Middle(t) /\ pc'[t] = "publish"
      BY <1>1, <2>1 DEF Middle, TypeOK
    <3>2. QED
      BY <3>1, MiddlePast DEF Pushed, Boxed
  <2>2. CASE v # e
    <3>1. Last(t)
      BY <2>2 DEF Last
    <3>2. QED
      BY <1>1, <3>1, LastIs, PastReturns DEF Pushed, Boxed
  <2>3. QED
    BY <2>1, <2>2
<1>9. e \in Pushed
  BY <1>7 DEF PlacesInv
<1>10. IF v = e THEN pc'[t] = "publish" /\ UNCHANGED <<adding, pushTo>> ELSE pc'[t] = "idle"
  BY <1>1 DEF StoreAddress, TypeOK
<1>11. QED
  BY <1>1, <1>2, <1>6, <1>7, <1>8, <1>9, <1>10

LEMMA StoreKeeps ==
  ASSUME PInv, NEW t \in Threads, StoreAddress(t)
  PROVE  VecsInv' /\ PlacesInv'
<1> USE DEF PInv
<1> DEFINE e == adding[t]
<1>1. /\ UNCHANGED <<components, newVecs, vecs, freedVecs, dropped, typeOf, phase>>
      /\ Spot(e, box'[e].vec, box'[e].at)
      /\ \A x \in Entities : x # e => box'[x] = box[x]
      /\ Returned \subseteq Returned'
      /\ Pushed' = Pushed /\ Boxed' = Boxed \cup {e}
      /\ pc[t] = "store" /\ pc'[t] # "store"
  BY StoreIs
<1>2. \A u \in Threads : u # t =>
        pc'[u] = pc[u] /\ adding'[u] = adding[u] /\ pushTo'[u] = pushTo[u]
  BY StoreIs
<1>3. /\ pushTo[t] = adding[t] => pc'[t] = "publish" /\ adding'[t] = adding[t] /\ pushTo'[t] = pushTo[t]
      /\ pushTo[t] # adding[t] => pc'[t] = "idle"
  BY StoreIs
<1>4. \A u \in Threads : (HasOwn(u)' <=> HasOwn(u)) /\ (HasOwn(u) => adding'[u] = adding[u])
  BY <1>1, <1>2, <1>3 DEF HasOwn
<1>5. VecsInv'
  <2>1. \A v : Published(v)' <=> Published(v)
    BY <1>1 DEF Published, Started
  <2>2. \A v \in Entities \ freedVecs : vecs[v] # << >> =>
          Published(v)' \/ \E u \in Threads : HasOwn(u)' /\ adding'[u] = v
    BY <1>4, <2>1 DEF VecsInv
  <2>3. \A u \in Threads : HasOwn(u)' => vecs[adding'[u]] = <<adding'[u]>>
    BY <1>4 DEF VecsInv
  <2>4. QED
    BY <1>1, <2>2, <2>3 DEF VecsInv
<1>6. PlacesInv'
  <2>1. \A x, v, k : Spot(x, v, k)' <=> Spot(x, v, k)
    BY <1>1 DEF Spot
  <2>2. \A v : Contents(v)' = Contents(v)
    BY <1>1 DEF Contents
  <2>3. Boxed \subseteq Entities
    BY MaxEntitiesAssumption DEF Boxed, Past, Started, Entities, TypeOK
  <2>4. \A x \in (Boxed \ dropped)' : Spot(x, box'[x].vec, box'[x].at)
    BY <1>1, <2>3 DEF PlacesInv
  <2>5. \A u \in Threads : pc'[u] = "store" => \E k : Spot(adding'[u], pushTo'[u], k)
    BY <1>1, <1>2 DEF PlacesInv
  <2>6. dropped' \subseteq Returned' /\ \A v \in freedVecs' : Contents(v)' \subseteq dropped'
    BY <1>1, <2>2 DEF PlacesInv
  <2>7. \A x, v, k : Spot(x, v, k)' => x \in (Pushed \ dropped)' /\ typeOf'[x] = typeOf'[v]
    BY <1>1, <2>1 DEF PlacesInv
  <2>8. \A x, v, k, w, j : Spot(x, v, k)' /\ Spot(x, w, j)' => v = w /\ k = j
    BY <2>1 DEF PlacesInv
  <2>9. \A x \in (Boxed \ dropped)' : Spot(x, box[x].vec, box[x].at)'
    BY <2>1, <2>4
  <2>10. \A u \in Threads : pc'[u] = "store" => \E k : Spot(adding[u], pushTo[u], k)'
    BY <2>1, <2>5
  <2>11. QED
    BY <2>6, <2>7, <2>8, <2>9, <2>10 DEF PlacesInv
<1>7. QED
  BY <1>5, <1>6

\* The insert of a vector frees the one it replaces, and nothing that is still
\* on its way
LEMMA PublishIs ==
  ASSUME PInv, NEW t \in Threads, PublishVec(t)
  PROVE  LET c == TypeFor(t)
             e == adding[t]
             old == newVecs[c]
         IN
         /\ UNCHANGED <<components, vecs, box, typeOf, phase>>
         /\ readers = {} /\ HasOwn(t) /\ pc[t] = "publish" /\ pc'[t] = "idle"
         /\ c \in Types /\ e \in Started /\ typeOf[e] = c /\ components[c] = NoVec
         /\ newVecs'[c] = e /\ \A d \in Types : d # c => newVecs'[d] = newVecs[d]
         /\ freedVecs' = freedVecs \cup ({old} \ {NoVec})
         /\ dropped' = IF old # NoVec THEN dropped \cup Contents(old) ELSE dropped
         /\ Returned' = Returned \cup {e} /\ Pushed' = Pushed /\ Boxed' = Boxed
         /\ \A u \in Threads : u # t =>
              pc'[u] = pc[u] /\ adding'[u] = adding[u] /\ pushTo'[u] = pushTo[u]
<1> USE DEF PInv
<1> DEFINE c == TypeFor(t)
           e == adding[t]
           old == newVecs[c]
<1>1. /\ UNCHANGED <<components, vecs, box, typeOf, phase>>
      /\ readers = {} /\ pc[t] = "publish" /\ pc' = [pc EXCEPT ![t] = "idle"]
      /\ newVecs' = [newVecs EXCEPT ![c] = pushTo[t]]
      /\ freedVecs' = freedVecs \cup ({old} \ {NoVec})
      /\ dropped' = IF old # NoVec THEN dropped \cup Contents(old) ELSE dropped
  BY DEF PublishVec, Goto, entities, processing, TypeFor
<1>2. \A u \in Threads : u # t => pc'[u] = pc[u] /\ adding'[u] = adding[u] /\ pushTo'[u] = pushTo[u]
  BY <1>1 DEF PublishVec, Return, TypeOK
<1>3. pushTo[t] = e /\ components[c] = NoVec
  BY <1>1 DEF PushToInv
<1>4. c \in Types /\ e \in Started /\ typeOf[e] = c
  BY <1>1 DEF TypeFor, AddersInv, Started, TypeOK
<1>5. newVecs'[c] = e /\ \A d \in Types : d # c => newVecs'[d] = newVecs[d]
  BY <1>1, <1>3, <1>4 DEF TypeOK
<1>6. Returned' = Returned \cup {e} /\ Pushed' = Pushed \cup {e} /\ Boxed' = Boxed \cup {e}
  BY <1>1, LastIs, PastReturns DEF Last, Pushed, Boxed
<1>7. e \in Boxed /\ e \in Pushed
  BY <1>1, <1>4 DEF Boxed, Pushed, Past, AddersInv
<1>8. HasOwn(t) /\ pc'[t] = "idle"
  BY <1>1, <1>3 DEF HasOwn, TypeOK
<1>9. QED
  BY <1>1, <1>2, <1>3, <1>4, <1>5, <1>6, <1>7, <1>8

LEMMA ReplacedReturned ==
  ASSUME PInv, NEW t \in Threads, PublishVec(t), newVecs[TypeFor(t)] # NoVec
  PROVE  Contents(newVecs[TypeFor(t)]) \subseteq Returned
<1> USE DEF PInv
<1> DEFINE old == newVecs[TypeFor(t)]
<1>1. readers = {} /\ TypeFor(t) \in Types /\ components[TypeFor(t)] = NoVec
  BY PublishIs
<1>2. old \in Entities \ freedVecs /\ old \in Returned /\ typeOf[old] = TypeFor(t)
  BY <1>1 DEF VecsInv, TypeOK, NoVec
<1>3. SUFFICES ASSUME NEW x, NEW k, Spot(x, old, k), x \notin Returned
               PROVE  FALSE
  BY <1>2 DEF Contents, Spot
<1>4. x \in Pushed
  BY <1>3 DEF PlacesInv
<1>5. PICK u \in Threads : adding[u] = x /\ pc[u] \in {"store", "publish"}
  BY <1>3, <1>4 DEF Pushed, Past, Returned, Started
<1>6. CASE pushTo[u] = x
  <2>1. vecs[x] = <<x>> /\ x \in Entities \ freedVecs
    BY <1>5, <1>6, TargetIs DEF VecsInv, HasOwn
  <2>2. Spot(x, x, 1)
    BY <2>1 DEF Spot
  <2>3. x = old
    BY <1>3, <2>2 DEF PlacesInv
  <2>4. QED
    BY <1>2, <1>3, <2>3
<1>7. CASE pushTo[u] # x
  <2>1. pc[u] = "store" /\ pushTo[u] = components[TypeFor(u)] /\ TypeFor(u) \in Types
    BY <1>1, <1>5, <1>7 DEF PushToInv, TypeFor, AddersInv, Started, TypeOK
  <2>2. pushTo[u] = old
    BY <1>3, <1>5, <2>1 DEF PlacesInv
  <2>3. typeOf[old] = TypeFor(u)
    BY <1>5, <2>2, TargetIs
  <2>4. QED
    BY <1>1, <1>2, <2>1, <2>2, <2>3 DEF TypeOK, NoVec
<1>8. QED
  BY <1>6, <1>7

LEMMA PublishKeeps ==
  ASSUME PInv, NEW t \in Threads, PublishVec(t)
  PROVE  VecsInv' /\ PlacesInv'
<1> USE DEF PInv
<1> DEFINE c == TypeFor(t)
           e == adding[t]
           old == newVecs[c]
<1>1. /\ UNCHANGED <<components, vecs, box, typeOf, phase>>
      /\ readers = {} /\ HasOwn(t) /\ pc'[t] = "idle" /\ pc[t] = "publish"
      /\ c \in Types /\ e \in Started /\ typeOf[e] = c /\ components[c] = NoVec
      /\ newVecs'[c] = e /\ \A d \in Types : d # c => newVecs'[d] = newVecs[d]
      /\ freedVecs' = freedVecs \cup ({old} \ {NoVec})
      /\ dropped' = IF old # NoVec THEN dropped \cup Contents(old) ELSE dropped
      /\ Returned' = Returned \cup {e} /\ Pushed' = Pushed /\ Boxed' = Boxed
  BY PublishIs
<1>2. \A u \in Threads : u # t =>
        pc'[u] = pc[u] /\ adding'[u] = adding[u] /\ pushTo'[u] = pushTo[u]
  BY PublishIs
<1>3. vecs[e] = <<e>> /\ e \in Entities \ freedVecs /\ e \notin Returned
  BY <1>1, TargetIs DEF VecsInv
<1>4. old # NoVec => old \in Returned \ freedVecs /\ old \in Entities /\ typeOf[old] = c
  BY <1>1 DEF VecsInv, TypeOK
<1>5. \A u \in Threads : u # t => (HasOwn(u)' <=> HasOwn(u))
  BY <1>2 DEF HasOwn
<1>6. e # NoVec /\ e # old
  BY <1>1, <1>3, <1>4 DEF Started, NoVec
<1>7. VecsInv'
  <2>1. ASSUME NEW d \in Types, NEW v \in {components'[d], newVecs'[d]} \ {NoVec}
        PROVE  v \in Returned' \ freedVecs' /\ typeOf'[v] = d
    <3>1. CASE d = c
      BY <1>1, <1>3, <1>4, <1>6, <2>1, <3>1
    <3>2. CASE d # c
      <4>1. v \in Returned \ freedVecs /\ typeOf[v] = d
        BY <1>1, <2>1, <3>2 DEF VecsInv
      <4>2. QED
        BY <1>1, <1>4, <3>2, <4>1
    <3>3. QED
      BY <3>1, <3>2
  <2>2. \A d \in Types :
          /\ components'[d] = NoVec \/ newVecs'[d] = NoVec
          /\ newVecs'[d] # NoVec => vecs'[newVecs'[d]] # << >>
          /\ phase' \in {"remove", "drain"} => newVecs'[d] = NoVec
    <3>1. phase = "run"
      BY <1>1 DEF AddersInv
    <3>2. QED
      BY <1>1, <1>3, <3>1 DEF VecsInv
  <2>3. freedVecs' \subseteq Returned'
    BY <1>1, <1>4 DEF VecsInv
  <2>4. ASSUME NEW v \in Entities \ freedVecs', vecs[v] # << >>
        PROVE  Published(v)' \/ \E u \in Threads : HasOwn(u)' /\ adding'[u] = v
    <3>1. CASE Published(v)
      <4>1. v # old \/ old = NoVec
        BY <1>1, <2>4
      <4>2. v \in Started /\ v # NoVec /\ typeOf[v] \in Types
        BY <2>4, <3>1 DEF Published, Started, TypeOK, NoVec
      <4>3. v \in {components'[typeOf[v]], newVecs'[typeOf[v]]}
        BY <1>1, <3>1, <4>1, <4>2 DEF Published
      <4>4. QED
        BY <1>1, <4>2, <4>3 DEF Published, Started
    <3>2. CASE \E u \in Threads : HasOwn(u) /\ adding[u] = v
      <4>1. PICK u \in Threads : HasOwn(u) /\ adding[u] = v
        BY <3>2
      <4>2. CASE u = t
        BY <1>1, <4>1, <4>2 DEF Published, Started
      <4>3. CASE u # t
        BY <1>2, <1>5, <4>1, <4>3
      <4>4. QED
        BY <4>2, <4>3
    <3>3. QED
      BY <1>1, <2>4, <3>1, <3>2 DEF VecsInv
  <2>5. \A u \in Threads : HasOwn(u)' => vecs'[adding'[u]] = <<adding'[u]>>
    <3>1. ~HasOwn(t)'
      BY <1>1 DEF HasOwn
    <3>2. QED
      BY <1>1, <1>2, <1>5, <3>1 DEF VecsInv
  <2>6. \A v \in Entities \ freedVecs' : vecs'[v] # << >> =>
          Published(v)' \/ \E u \in Threads : HasOwn(u)' /\ adding'[u] = v
    BY <1>1, <2>4
  <2>7. QED
    BY <2>1, <2>2, <2>3, <2>5, <2>6 DEF VecsInv
<1>8. PlacesInv'
  <2>1. \A x, v, k : Spot(x, v, k)' <=> Spot(x, v, k) /\ (old = NoVec \/ v # old)
    BY <1>1, <1>4 DEF Spot, NoVec, Entities
  <2>2. old # NoVec => Contents(old) \subseteq Returned
    BY ReplacedReturned
  <2>3. old # NoVec => \A x : x \in Contents(old) <=> \E k : Spot(x, old, k)
    BY <1>4 DEF Contents, Spot
  <2>4. \A v : Contents(v)' = Contents(v)
    BY <1>1 DEF Contents
  <2>5. dropped' \subseteq Returned'
    BY <1>1, <2>2 DEF PlacesInv
  <2>6. \A v \in freedVecs' : Contents(v)' \subseteq dropped'
    BY <1>1, <2>4 DEF PlacesInv
  <2>7. \A x, v, k : Spot(x, v, k)' => x \in (Pushed \ dropped)' /\ typeOf'[x] = typeOf'[v]
    BY <1>1, <2>1, <2>3 DEF PlacesInv
  <2>8. \A x, v, k, w, j : Spot(x, v, k)' /\ Spot(x, w, j)' => v = w /\ k = j
    BY <2>1 DEF PlacesInv
  <2>9. \A x \in (Boxed \ dropped)' : Spot(x, box[x].vec, box[x].at)'
    BY <1>1, <2>1, <2>3 DEF PlacesInv
  <2>10. ASSUME NEW u \in Threads, pc'[u] = "store"
         PROVE  \E k : Spot(adding[u], pushTo[u], k)'
    <3>1. u # t /\ pc[u] = "store" /\ adding'[u] = adding[u] /\ pushTo'[u] = pushTo[u]
      BY <1>1, <1>2, <2>10
    <3>2. PICK k : Spot(adding[u], pushTo[u], k)
      BY <3>1 DEF PlacesInv
    <3>3. adding[u] \notin Returned
      BY <3>1, TargetIs
    <3>4. old = NoVec \/ pushTo[u] # old
      BY <2>2, <2>3, <3>2, <3>3
    <3>5. QED
      BY <2>1, <3>1, <3>2, <3>4
  <2>11. QED
    BY <2>5, <2>6, <2>7, <2>8, <2>9, <2>10 DEF PlacesInv
<1>9. QED
  BY <1>7, <1>8

\* Nobody adds while process_queues runs
LEMMA AllReturned ==
  ASSUME PInv, phase # "run"
  PROVE  /\ \A t \in Threads : pc[t] = "idle" /\ adding[t] = 0
         /\ Returned = Started /\ \A steps : Past(steps) = Started
<1>1. \A t \in Threads : pc[t] = "idle" /\ adding[t] = 0
  BY DEF PInv, AddersInv, NoEntity
<1>2. QED
  BY <1>1 DEF Returned, Past, Started

LEMMA MergeIs ==
  ASSUME PInv, MergeNewVecs
  PROVE  /\ UNCHANGED <<vecs, freedVecs, box, dropped, typeOf, adding, pc, pushTo>>
         /\ phase = "merge"
         /\ \A c \in Types : newVecs'[c] = NoVec /\ {components'[c], NoVec} = {components[c], newVecs[c], NoVec}
<1>1. \A c \in Types : /\ newVecs'[c] = NoVec
                       /\ components'[c] = IF newVecs[c] # NoVec THEN newVecs[c] ELSE components[c]
  BY DEF MergeNewVecs
<1>2. \A c \in Types : components[c] = NoVec \/ newVecs[c] = NoVec
  BY DEF PInv, VecsInv
<1>3. QED
  BY <1>1, <1>2 DEF MergeNewVecs, entities, adders

LEMMA MergeKeeps ==
  ASSUME PInv, MergeNewVecs
  PROVE  VecsInv' /\ PlacesInv'
<1> USE DEF PInv
<1>1. /\ UNCHANGED <<vecs, freedVecs, box, dropped, typeOf, adding, pc, pushTo>>
      /\ phase = "merge"
      /\ \A c \in Types : newVecs'[c] = NoVec /\ {components'[c], NoVec} = {components[c], newVecs[c], NoVec}
  BY MergeIs
<1>2. Returned' = Returned /\ Pushed' = Pushed /\ Boxed' = Boxed
  BY <1>1 DEF Returned, Pushed, Boxed, Past, Started
<1>3. \A t \in Threads : pc[t] = "idle"
  BY <1>1, AllReturned
<1>4. \A t \in Threads : ~HasOwn(t) /\ ~HasOwn(t)'
  BY <1>1, <1>3 DEF HasOwn
<1>5. VecsInv'
  <2>1. ASSUME NEW c \in Types, NEW v \in {components'[c], newVecs'[c]} \ {NoVec}
        PROVE  v \in Returned' \ freedVecs' /\ typeOf'[v] = c
    <3>1. v \in {components[c], newVecs[c]} \ {NoVec}
      BY <1>1, <2>1
    <3>2. QED
      BY <1>1, <1>2, <3>1 DEF VecsInv
  <2>2. ASSUME NEW v \in Entities \ freedVecs, vecs[v] # << >>
        PROVE  Published(v)'
    <3>1. Published(v)
      BY <1>4, <2>2 DEF VecsInv
    <3>2. v # NoVec /\ typeOf[v] \in Types
      BY <3>1 DEF Published, Started, TypeOK, NoVec
    <3>3. QED
      BY <1>1, <3>1, <3>2 DEF Published, Started
  <2>3. \A c \in Types : newVecs'[c] = NoVec
    BY <1>1
  <2>4. freedVecs' \subseteq Returned'
    BY <1>1, <1>2 DEF VecsInv
  <2>5. QED
    BY <1>1, <1>4, <2>1, <2>2, <2>3, <2>4 DEF VecsInv
<1>6. PlacesInv'
  <2>1. \A x, v, k : Spot(x, v, k)' <=> Spot(x, v, k)
    BY <1>1 DEF Spot
  <2>2. \A v : Contents(v)' = Contents(v)
    BY <1>1 DEF Contents
  <2>3. QED
    BY <1>1, <1>2, <2>1, <2>2 DEF PlacesInv
<1>7. QED
  BY <1>5, <1>6

\* What a removal that finds its component, at index k of v, does
Removes(v, k) ==
  LET n == Len(vecs[v]) IN
  /\ UNCHANGED <<components, newVecs, freedVecs, typeOf, adding, pc, pushTo, faulted>>
  /\ phase = "drain" /\ phase' = "drain"
  /\ v \in Entities \ freedVecs /\ vecs[v] \in Seq(Entities) /\ k \in 1 .. n
  /\ Head(draining).vec = v /\ Head(draining).box \in Entities \ dropped
  /\ box[Head(draining).box].vec = v /\ box[Head(draining).box].at = k
  /\ dropped' = dropped \cup {vecs[v][k]}
  /\ vecs'[v] \in Seq(Entities) /\ Len(vecs'[v]) = n - 1
  /\ \A j \in 1 .. n - 1 : vecs'[v][j] = vecs[v][IF j = k THEN n ELSE j]
  /\ \A w \in Entities : w # v => vecs'[w] = vecs[w]
  /\ \A x \in Entities :
       IF k # n /\ x = vecs[v][n] THEN box'[x].vec = v /\ box'[x].at = k
       ELSE box'[x] = box[x]

LEMMA RemoveIs ==
  ASSUME PInv, RemoveComponent, ~UNCHANGED structure
  PROVE  \E v, k : Removes(v, k)
<1> USE DEF PInv
<1> DEFINE d == Head(draining)
           a == box[d.box]
<1>1. PICK v, k : v = d.vec /\ k = a.at
  OBVIOUS
<1>2. /\ UNCHANGED <<components, newVecs, freedVecs, typeOf, adding, pc, pushTo, faulted>>
      /\ phase = "drain" /\ phase' = "drain" /\ draining # << >>
      /\ a.vec = v /\ v \notin freedVecs /\ k \in 1 .. Len(vecs[v])
      /\ d.box \notin dropped
      /\ dropped' = dropped \cup {vecs[v][k]}
      /\ vecs' = [vecs EXCEPT ![v] = SwapRemoved(v, k)]
      /\ box' = IF k = Len(vecs[v]) THEN box ELSE [box EXCEPT ![vecs[v][Len(vecs[v])]] = a]
  BY <1>1 DEF RemoveComponent, InUse, entities, adders
<1>3. d \in Datum
  BY <1>2 DEF TypeOK
<1>4. v \in Entities /\ d.box \in Entities
  BY <1>1, <1>3 DEF Datum
<1>5. vecs[v] \in Seq(Entities)
  BY <1>4 DEF TypeOK
<1>6. /\ SwapRemoved(v, k) \in Seq(Entities)
      /\ Len(SwapRemoved(v, k)) = Len(vecs[v]) - 1
      /\ \A j \in 1 .. Len(vecs[v]) - 1 : SwapRemoved(v, k)[j] = vecs[v][IF j = k THEN Len(vecs[v]) ELSE j]
  BY <1>2, <1>4, SwapRemovedTyped
<1>7. vecs'[v] = SwapRemoved(v, k) /\ \A w \in Entities : w # v => vecs'[w] = vecs[w]
  BY <1>2, <1>4 DEF TypeOK
<1>8. \A x \in Entities : box'[x] = IF k # Len(vecs[v]) /\ x = vecs[v][Len(vecs[v])] THEN a ELSE box[x]
  BY <1>2 DEF TypeOK
<1>9. \A x \in Entities :
        IF k # Len(vecs[v]) /\ x = vecs[v][Len(vecs[v])] THEN box'[x].vec = v /\ box'[x].at = k
        ELSE box'[x] = box[x]
  BY <1>1, <1>2, <1>8
<1>10. Removes(v, k)
  BY <1>1, <1>2, <1>4, <1>5, <1>6, <1>7, <1>9 DEF Removes
<1>11. QED
  BY <1>10

LEMMA RemoveSpots ==
  ASSUME NEW v, NEW k, Removes(v, k)
  PROVE  LET n == Len(vecs[v]) IN
         /\ \A x, w, j : Spot(x, w, j)' <=>
              IF w = v THEN j \in 1 .. n - 1 /\ Spot(x, v, IF j = k THEN n ELSE j)
              ELSE Spot(x, w, j)
         /\ Spot(vecs[v][k], v, k) /\ Spot(vecs[v][n], v, n)
<1>1. PICK n \in Nat : n = Len(vecs[v])
  BY DEF Removes
<1>2. \A x, j : Spot(x, v, j)' <=> j \in 1 .. n - 1 /\ Spot(x, v, IF j = k THEN n ELSE j)
  BY <1>1 DEF Spot, Removes
<1>3. \A x, w, j : w # v => (Spot(x, w, j)' <=> Spot(x, w, j))
  BY DEF Spot, Removes
<1>4. Spot(vecs[v][k], v, k) /\ Spot(vecs[v][n], v, n)
  BY <1>1 DEF Spot, Removes
<1>5. QED
  BY <1>1, <1>2, <1>3, <1>4

LEMMA RemoveKeeps ==
  ASSUME PInv, RemoveComponent, ~UNCHANGED structure
  PROVE  VecsInv' /\ PlacesInv'
<1> USE DEF PInv
<1>0. PICK v, k : Removes(v, k)
  BY RemoveIs
<1>1. PICK n \in Nat, gone \in {vecs[v][k]} : n = Len(vecs[v])
  <2>1. Len(vecs[v]) \in Nat
    BY <1>0 DEF Removes
  <2>2. QED
    BY <2>1
<1>2. /\ \A x, w, j : Spot(x, w, j)' <=>
           IF w = v THEN j \in 1 .. n - 1 /\ Spot(x, v, IF j = k THEN n ELSE j)
           ELSE Spot(x, w, j)
      /\ Spot(gone, v, k) /\ Spot(vecs[v][n], v, n)
  BY <1>0, <1>1, RemoveSpots
<1>3. /\ UNCHANGED <<components, newVecs, freedVecs, typeOf, adding, pc, pushTo>>
      /\ phase = "drain" /\ phase' = "drain"
      /\ v \in Entities \ freedVecs /\ k \in 1 .. n
      /\ dropped' = dropped \cup {gone}
      /\ \A w \in Entities : w # v => vecs'[w] = vecs[w]
      /\ n > 0 /\ vecs[v] \in Seq(Entities)
  BY <1>0, <1>1 DEF Removes
<1>4. /\ Returned' = Returned /\ Pushed' = Pushed /\ Boxed' = Boxed
      /\ Returned = Started /\ Pushed = Started /\ Boxed = Started
      /\ \A t \in Threads : pc[t] = "idle"
  <2>1. Returned' = Returned /\ Pushed' = Pushed /\ Boxed' = Boxed
    BY <1>3 DEF Returned, Pushed, Boxed, Past, Started
  <2>2. QED
    BY <1>3, <2>1, AllReturned DEF Pushed, Boxed
<1>5. \A t \in Threads : ~HasOwn(t) /\ ~HasOwn(t)'
  BY <1>3, <1>4 DEF HasOwn
<1>6. VecsInv'
  <2>1. ASSUME NEW w \in Entities \ freedVecs, vecs'[w] # << >>
        PROVE  Published(w)'
    <3>1. vecs[w] # << >>
      BY <1>1, <1>3, <2>1
    <3>2. Published(w)
      BY <1>5, <2>1, <3>1 DEF VecsInv
    <3>3. QED
      BY <1>3, <3>2 DEF Published, Started
  <2>2. QED
    BY <1>3, <1>4, <1>5, <2>1 DEF VecsInv
<1>7. PlacesInv'
  <2>1. dropped' \subseteq Returned'
    BY <1>3, <1>2, <1>4 DEF PlacesInv
  <2>2. \A w \in freedVecs' : Contents(w)' \subseteq dropped'
    <3>1. \A w \in freedVecs : vecs'[w] = vecs[w]
      BY <1>3 DEF TypeOK
    <3>2. \A w \in freedVecs : Contents(w)' = Contents(w)
      BY <3>1 DEF Contents
    <3>3. QED
      BY <1>3, <3>2 DEF PlacesInv
  <2>3. ASSUME NEW x, NEW w, NEW j, Spot(x, w, j)'
        PROVE  x \in (Pushed \ dropped)' /\ typeOf'[x] = typeOf'[w]
    <3>1. PICK i : Spot(x, w, i) /\ (w = v => i # k)
      BY <1>3, <1>2, <2>3
    <3>2. x # gone
      BY <1>2, <3>1 DEF PlacesInv
    <3>3. QED
      BY <1>3, <1>4, <3>1, <3>2 DEF PlacesInv
  <2>4. ASSUME NEW x, NEW w, NEW i, NEW u, NEW j, Spot(x, w, i)', Spot(x, u, j)'
        PROVE  w = u /\ i = j
    <3> DEFINE o(m) == IF m = k THEN n ELSE m
    <3>1. /\ Spot(x, w, IF w = v THEN o(i) ELSE i) /\ Spot(x, u, IF u = v THEN o(j) ELSE j)
          /\ w = v => i \in 1 .. n - 1
          /\ u = v => j \in 1 .. n - 1
      BY <1>2, <2>4
    <3>2. w = u /\ (w # v => i = j) /\ (w = v => o(i) = o(j))
      BY <3>1 DEF PlacesInv
    <3>3. n \in Nat
      BY <1>1
    <3>4. QED
      BY <1>3, <3>1, <3>2, <3>3
  <2>5. ASSUME NEW x \in Boxed \ dropped'
        PROVE  Spot(x, box[x].vec, box[x].at)'
    <3>1. x \in Entities /\ x # gone /\ Spot(x, box[x].vec, box[x].at)
      <4>1. Boxed \subseteq Entities
        BY MaxEntitiesAssumption DEF Boxed, Past, Started, Entities, TypeOK
      <4>2. QED
        BY <1>3, <2>5, <4>1 DEF PlacesInv
    <3>2. CASE k # n /\ x = vecs[v][n]
      <4>1. box'[x].vec = v /\ box'[x].at = k
        BY <1>0, <1>1, <3>1, <3>2 DEF Removes
      <4>2. k \in 1 .. n - 1
        BY <1>3, <3>2
      <4>3. QED
        BY <1>2, <3>2, <4>1, <4>2
    <3>3. CASE ~(k # n /\ x = vecs[v][n])
      <4>1. box'[x] = box[x]
        BY <1>0, <1>1, <3>1, <3>3 DEF Removes
      <4>2. box[x].vec = v => box[x].at # k /\ box[x].at # n
        BY <1>1, <1>3, <3>1, <3>3 DEF Spot
      <4>3. box[x].vec = v => box[x].at \in 1 .. n - 1
        BY <1>1, <1>3, <3>1, <4>2 DEF Spot
      <4>4. QED
        BY <1>2, <3>1, <4>1, <4>2, <4>3
    <3>4. QED
      BY <3>2, <3>3
  <2>6. QED
    BY <1>3, <1>4, <2>1, <2>2, <2>3, <2>4, <2>5 DEF PlacesInv
<1>8. QED
  BY <1>6, <1>7

-----------------------------------------------------------------------------
(* The first layer                                                         *)

\* Every step keeps vectors and places
LEMMA PlacesKeep ==
  ASSUME PInv, Step
  PROVE  VecsInv' /\ PlacesInv'
<1>1. CASE \E t \in Threads : Push(t)
  BY <1>1, PushKeeps
<1>2. CASE \E t \in Threads : StoreAddress(t)
  BY <1>2, StoreKeeps
<1>3. CASE \E t \in Threads : PublishVec(t)
  BY <1>3, PublishKeeps
<1>4. CASE MergeNewVecs
  BY <1>4, MergeKeeps
<1>5. CASE RemoveComponent /\ ~UNCHANGED structure
  BY <1>5, RemoveKeeps
<1>6. CASE \/ \E t \in Threads : (\E c \in Types : Begin(t, c)) \/ LookUpNew(t) \/ TakeId(t) \/ InsertEntity(t)
           \/ UseComponents \/ StartProcessing
           \/ RunMultiModifiers \/ RunModifiers \/ PopRemoval \/ RecycleList \/ EndProcessing
           \/ RemoveComponent /\ UNCHANGED structure
  BY <1>6, QuietSteps, QuietKeeps
<1>7. QED
  BY <1>1, <1>2, <1>3, <1>4, <1>5, <1>6 DEF Step, AddStep, ProcessQueues

\* Until the new vectors are merged, what an iteration shows only grows
LEMMA VisibleGrows ==
  ASSUME PInv, Step, phase \in {"run", "multi", "mods"}
  PROVE  Visible \subseteq Visible'
<1> USE DEF PInv
<1>1. components' = components
  BY DEF Step, AddStep, Begin, LookUpNew, TakeId, InsertEntity, Push, StoreAddress, PublishVec,
     UseComponents, QueueModifier, QueueMultiModifier, QueueRemove, StartProcessing,
     ProcessQueues, RunMultiModifiers, RunModifiers, MergeNewVecs, PopRemoval, RemoveComponent,
     RecycleList, EndProcessing, structure
<1>2. ASSUME NEW v \in Entities
      PROVE  vecs[v] \in Seq(Entities) /\ \E x \in Entities : vecs'[v] \in {vecs[v], Append(vecs[v], x)}
  <2>1. vecs[v] \in Seq(Entities)
    BY DEF TypeOK
  <2>2. CASE \E t \in Threads : Push(t)
    <3>1. PICK t \in Threads : Push(t)
      BY <2>2
    <3>2. pc[t] = "push" /\ vecs'[v] \in {vecs[v], Append(vecs[v], adding[t])}
      BY <3>1, PushSpots
    <3>3. QED
      BY <2>1, <3>2, TargetIs
  <2>3. CASE ~ \E t \in Threads : Push(t)
    BY <2>1, <2>3 DEF Step, AddStep, Begin, LookUpNew, TakeId, InsertEntity, StoreAddress, PublishVec,
       UseComponents, QueueModifier, QueueMultiModifier, QueueRemove, StartProcessing,
       ProcessQueues, RunMultiModifiers, RunModifiers, MergeNewVecs, PopRemoval, RemoveComponent,
       RecycleList, EndProcessing, structure
  <2>4. QED
    BY <2>2, <2>3
<1>3. ASSUME NEW v \in Entities, NEW k \in 1 .. Len(vecs[v])
      PROVE  k \in 1 .. Len(vecs'[v]) /\ vecs'[v][k] = vecs[v][k]
  <2>1. PICK x \in Entities : vecs'[v] \in {vecs[v], Append(vecs[v], x)}
    BY <1>2
  <2>2. vecs[v] \in Seq(Entities)
    BY <1>2
  <2>3. CASE vecs'[v] = vecs[v]
    BY <1>3, <2>3
  <2>4. CASE vecs'[v] = Append(vecs[v], x)
    BY <1>3, <2>2, <2>4
  <2>5. QED
    BY <2>1, <2>3, <2>4
<1>4. ASSUME NEW c \in Types, components[c] # NoVec, NEW k \in 1 .. Len(vecs[components[c]])
      PROVE  [at |-> [vec |-> components[c], at |-> k], of |-> vecs[components[c]][k]] \in Visible'
  <2>1. components[c] \in Entities
    BY <1>4 DEF TypeOK, NoVec
  <2>2. k \in 1 .. Len(vecs'[components[c]]) /\ vecs'[components[c]][k] = vecs[components[c]][k]
    BY <1>3, <1>4, <2>1
  <2>3. QED
    BY <1>1, <1>4, <2>2 DEF Visible
<1>5. QED
  BY <1>4, VisibleIs

LEMMA ModsKeep ==
  ASSUME PInv, Step
  PROVE  ModsInv'
<1> USE DEF PInv
<1>1. CASE UseComponents
  <2>1. UNCHANGED <<components, vecs, phase>> /\ Visible' = Visible /\ phase = "run"
    BY <1>1 DEF UseComponents, QueueModifier, QueueMultiModifier, QueueRemove, structure,
       processing, Visible
  <2>2. /\ mods' = mods \/ \E q \in Visible : mods' = mods \cup {<<q>>}
        /\ multiMods' = multiMods \/ \E q, r \in Visible : multiMods' = multiMods \cup {<<q, r>>}
    BY <1>1 DEF UseComponents, QueueModifier, QueueMultiModifier, QueueRemove
  <2>3. \A m \in mods' : \E q \in Visible : m = <<q>>
    BY <2>2 DEF ModsInv
  <2>4. \A m \in multiMods' : \E q, r \in Visible : m = <<q, r>>
    BY <2>2 DEF ModsInv
  <2>5. QED
    BY <2>1, <2>3, <2>4 DEF ModsInv
<1>2. CASE ~UseComponents
  <2>1. /\ (mods' = mods /\ (phase' = phase \/ phase' # "merge")) \/ mods' = {}
        /\ multiMods' = multiMods \/ multiMods' = {}
        /\ mods' # {} => mods' = mods /\ phase' \in {"run", "multi", "mods"}
        /\ multiMods' # {} => multiMods' = multiMods /\ phase' \in {"run", "multi"}
    <3>1. ASSUME \E t \in Threads : (\E c \in Types : Begin(t, c)) \/ AddStep(t)
          PROVE  UNCHANGED <<mods, multiMods, phase>>
      BY <3>1 DEF AddStep, Begin, LookUpNew, TakeId, InsertEntity, Push, StoreAddress, PublishVec,
         queues, processing
    <3>2. ASSUME StartProcessing \/ ProcessQueues
          PROVE  /\ mods' # {} => mods' = mods /\ phase' \in {"run", "multi", "mods"}
                 /\ multiMods' # {} => multiMods' = multiMods /\ phase' \in {"run", "multi"}
      BY <3>2 DEF StartProcessing, ProcessQueues, RunMultiModifiers, RunModifiers, MergeNewVecs,
         PopRemoval, RemoveComponent, RecycleList, EndProcessing, queues, processing, ModsInv
    <3>3. QED
      BY <1>2, <3>1, <3>2 DEF Step, ModsInv
  <2>2. mods' # {} \/ multiMods' # {} => Visible \subseteq Visible'
    BY <2>1, VisibleGrows DEF ModsInv
  <2>3. QED
    BY <2>1, <2>2 DEF ModsInv
<1>3. QED
  BY <1>1, <1>2

LEMMA InitPlaces == Init => PInv
<1> SUFFICES ASSUME Init
             PROVE  PInv
  OBVIOUS
<1>1. Started = {} /\ Returned = {} /\ \A steps : Past(steps) = {}
  BY DEF Init, Started, Returned, Past
<1>2. \A v \in Entities : vecs[v] = << >> /\ Contents(v) = {}
  BY DEF Init, Contents
<1>3. \A e, v, k : ~Spot(e, v, k)
  BY <1>2 DEF Spot
<1>4. TypeOK
  <2>1. 0 \in Ids
    BY IdSpaceAssumption DEF Ids
  <2>2. NoAddr \in Addr
    BY DEF NoAddr, Addr
  <2>3. NoEntry \in [present : BOOLEAN, data : Seq(Datum)]
    BY DEF NoEntry, NoList
  <2>4. typeOf \in Seq(Types) /\ Len(typeOf) <= MaxEntities
    BY MaxEntitiesAssumption DEF Init
  <2>5. /\ vecs \in [Entities -> Seq(Entities)] /\ box \in [Entities -> Addr]
        /\ entityMap \in [Ids -> [present : BOOLEAN, data : Seq(Datum)]]
        /\ emptyVecs \in Seq(Seq(Datum)) /\ removeQueue \in Seq(Ids)
        /\ list \in [Threads -> Seq(Datum)] /\ draining \in Seq(Datum)
    BY <2>2, <2>3 DEF Init, NoList
  <2>6. /\ pc \in [Threads -> {"idle", "read", "id", "insert", "push", "store", "publish"}]
        /\ adding \in [Threads -> Entities \cup {NoEntity}]
        /\ pushTo \in [Threads -> Entities \cup {NoVec}]
        /\ components \in [Types -> Entities \cup {NoVec}]
        /\ newVecs \in [Types -> Entities \cup {NoVec}]
        /\ idOf \in [Entities -> Ids \cup {-1}]
    BY DEF Init
  <2>7. QED
    BY <2>1, <2>4, <2>5, <2>6 DEF Init, TypeOK
<1>5. AddersInv /\ PushToInv
  BY DEF Init, AddersInv, PushToInv
<1>6. IdsInv
  BY <1>1 DEF IdsInv
<1>7. VecsInv
  BY <1>1, <1>2 DEF Init, VecsInv, HasOwn
<1>8. PlacesInv
  BY <1>1, <1>2, <1>3 DEF Init, PlacesInv, Pushed, Boxed
<1>9. ModsInv
  BY DEF Init, ModsInv
<1>10. QED
  BY <1>4, <1>5, <1>6, <1>7, <1>8, <1>9 DEF PInv

LEMMA NextPlaces == PInv /\ [Next]_vars => PInv'
<1> SUFFICES ASSUME PInv, [Next]_vars
             PROVE  PInv'
  OBVIOUS
<1>1. CASE Step
  <2>1. TypeOK'
    BY <1>1, TypeAdd, TypeUse, TypeProcess DEF Step
  <2>2. QED
    BY <1>1, <2>1, AddersKeep, PushToKeeps, IdsKeep, PlacesKeep, ModsKeep DEF PInv
<1>2. CASE UNCHANGED vars
  <2>1. UNCHANGED <<structure, entities, queues, adders, processing, faulted>>
    BY <1>2 DEF vars
  <2>2. TypeOK' /\ AddersInv' /\ IdsInv' /\ ModsInv'
    BY SMTT(30), <2>1 DEF PInv, TypeOK, AddersInv, IdsInv, ModsInv, structure, entities, queues, adders,
       processing, Past, Started, Visible
  <2>3. PushToInv' /\ VecsInv' /\ PlacesInv'
    BY <2>1 DEF PInv, PushToInv, TypeFor, VecsInv, PlacesInv, structure, entities, adders,
       processing, Published, HasOwn, Pushed, Boxed, Past, Started, Returned, Spot, Contents
  <2>4. QED
    BY <2>2, <2>3 DEF PInv
<1>3. QED
  BY <1>1, <1>2 DEF Next

LEMMA Places == Spec => []PInv
BY InitPlaces, NextPlaces, PTL DEF Spec

\* The shape of the state; the read lock is held only while the entity is
\* registered, pushed and its address stored
THEOREM TypeCorrect == Spec => []TypeOK
<1>1. PInv => TypeOK
  BY DEF PInv
<1>2. QED
  BY <1>1, Places, PTL

\* Whatever threads add the first entities of types, however vectors replace
\* each other, and whatever removals move: the box of an entity holds the
\* address of its component, and the component is nowhere else
THEOREM BackPointers == Spec => []BackPointersExact
<1>1. ASSUME PInv, NEW e \in Alive, NEW v \in Entities, NEW k \in Entities
      PROVE  (v \notin freedVecs /\ k <= Len(vecs[v]) /\ vecs[v][k] = e)
               <=> box[e] = [vec |-> v, at |-> k]
  <2>1. e \in Boxed \ dropped /\ e \in Entities
    BY <1>1, MaxEntitiesAssumption
    DEF Alive, Boxed, Past, Returned, Started, PInv, TypeOK, Entities
  <2>2. Spot(e, box[e].vec, box[e].at) /\ box[e] \in Addr
    BY <1>1, <2>1 DEF PInv, PlacesInv, TypeOK
  <2>3. (v \notin freedVecs /\ k <= Len(vecs[v]) /\ vecs[v][k] = e) <=> Spot(e, v, k)
    <3>1. k \in Nat /\ k >= 1 /\ Len(vecs[v]) \in Nat
      BY <1>1 DEF Entities, PInv, TypeOK
    <3>2. QED
      BY <1>1, <3>1 DEF Spot
  <2>4. Spot(e, v, k) <=> v = box[e].vec /\ k = box[e].at
    BY <1>1, <2>2 DEF PInv, PlacesInv
  <2>5. box[e] = [vec |-> v, at |-> k] <=> v = box[e].vec /\ k = box[e].at
    BY <2>2 DEF Addr
  <2>6. QED
    BY <2>3, <2>4, <2>5
<1>2. PInv => BackPointersExact
  BY <1>1 DEF BackPointersExact
<1>3. QED
  BY <1>2, Places, PTL

\* A modifier that is in a queue keeps the address of a component that is still
\* where it was, and still the same one, when the modifier runs
THEOREM ModifiersStable == Spec => []ModifierTargetsStable
<1>1. ASSUME PInv, NEW q \in Visible
      PROVE  InUse(q.at) /\ vecs[q.at.vec][q.at.at] = q.of
  BY <1>1, VisibleSpots DEF PInv, Spot, InUse
<1>2. ASSUME PInv, NEW m \in mods \cup multiMods, NEW i \in DOMAIN m
      PROVE  m[i] \in Visible
  BY <1>2 DEF PInv, ModsInv
<1>3. PInv => ModifierTargetsStable
  BY <1>1, <1>2 DEF ModifierTargetsStable
<1>4. QED
  BY <1>3, Places, PTL

-----------------------------------------------------------------------------
(* When each type has one thread that may add its first entity             *)

LEMMA RaceKeeps ==
  ASSUME PInv, RaceInv, OneCreator, Step
  PROVE  RaceInv'
<1> USE DEF PInv
<1> DEFINE R(t) == Makes(t) => t \in Creators[TypeFor(t)] /\ newVecs[TypeFor(t)] = NoVec
<1>1. ASSUME NEW t \in Threads, NEW c \in Types, Begin(t, c)
      PROVE  RaceInv'
  <2>1. UNCHANGED <<components, newVecs, freedVecs>>
    BY <1>1 DEF Begin, structure
  <2>2. /\ TypeFor(t)' = c /\ adding'[t] = Len(typeOf) + 1 /\ pushTo'[t] = components[c]
        /\ pc'[t] = IF components[c] # NoVec THEN "id" ELSE "read"
        /\ \A u \in Threads : u # t =>
             /\ pc'[u] = pc[u] /\ adding'[u] = adding[u] /\ pushTo'[u] = pushTo[u]
             /\ pc[u] # "idle" => TypeFor(u)' = TypeFor(u)
    <3>1. /\ adding'[t] = Len(typeOf) + 1 /\ pushTo'[t] = components[c]
          /\ pc'[t] = IF components[c] # NoVec THEN "id" ELSE "read"
          /\ \A u \in Threads : u # t =>
               /\ pc'[u] = pc[u] /\ adding'[u] = adding[u] /\ pushTo'[u] = pushTo[u]
      BY <1>1 DEF Begin, Goto, TypeOK
    <3>2. QED
      BY <1>1, <3>1, PastBegins DEF TypeFor, AddersInv
  <2>3. components[c] # Len(typeOf) + 1
    <3>1. components[c] = 0 \/ components[c] \in 1 .. Len(typeOf)
      BY DEF VecsInv, Returned, NoVec
    <3>2. QED
      BY <3>1 DEF TypeOK
  <2>4. R(t)'
    <3>1. Makes(t)' => components[c] = NoVec /\ newVecs[c] = NoVec
      BY <2>1, <2>2, <2>3 DEF Makes
    <3>2. QED
      BY <1>1, <2>1, <2>2, <3>1 DEF Begin, Known
  <2>5. ASSUME NEW u \in Threads, u # t
        PROVE  R(u)'
    BY <2>1, <2>2, <2>5 DEF RaceInv, Makes
  <2>6. QED
    BY <2>1, <2>4, <2>5 DEF RaceInv
<1>2. ASSUME NEW t \in Threads, Middle(t)
      PROVE  RaceInv'
  <2>1. UNCHANGED <<newVecs, freedVecs, adding, typeOf>>
    BY <1>2, MiddleIs DEF Middle, LookUpNew, TakeId, InsertEntity, Push, StoreAddress, structure
  <2>2. \A u \in Threads : TypeFor(u)' = TypeFor(u)
    BY <2>1 DEF TypeFor
  <2>3. ASSUME NEW u \in Threads, u # t
        PROVE  R(u)'
    <3>1. pc'[u] = pc[u] /\ pushTo'[u] = pushTo[u]
      BY <1>2, <2>3 DEF Middle, LookUpNew, TakeId, InsertEntity, Push, StoreAddress, Goto, TypeOK
    <3>2. QED
      BY <2>1, <2>2, <3>1 DEF RaceInv, Makes
  <2>4. R(t)'
    <3>1. Makes(t)' => Makes(t)
      <4>1. pc[t] # "idle" /\ pc'[t] # "read"
        BY <1>2, MiddleIs
      <4>2. CASE LookUpNew(t)
        <5>1. TypeFor(t) \in Types
          BY <4>1 DEF TypeFor, AddersInv, Started, TypeOK
        <5>2. adding[t] # newVecs[TypeFor(t)]
          BY <4>1, <5>1, OwnUnpublished
        <5>3. /\ pc[t] = "read"
              /\ pushTo'[t] = IF newVecs[TypeFor(t)] # NoVec THEN newVecs[TypeFor(t)] ELSE adding[t]
          BY <4>2 DEF LookUpNew, Goto, TypeOK, TypeFor
        <5>4. QED
          BY <2>1, <4>1, <5>2, <5>3 DEF Makes
      <4>3. CASE ~LookUpNew(t)
        <5>1. pushTo' = pushTo
          BY <1>2, <4>3 DEF Middle, TakeId, InsertEntity, Push, StoreAddress
        <5>2. QED
          BY <2>1, <4>1, <5>1 DEF Makes
      <4>4. QED
        BY <4>2, <4>3
    <3>2. QED
      BY <2>1, <2>2, <3>1 DEF RaceInv
  <2>5. QED
    BY <2>1, <2>3, <2>4 DEF RaceInv
<1>3. ASSUME NEW t \in Threads, Last(t)
      PROVE  RaceInv'
  <2>1. /\ pc'[t] = "idle" /\ typeOf' = typeOf
        /\ \A u \in Threads : u # t =>
             pc'[u] = pc[u] /\ adding'[u] = adding[u] /\ pushTo'[u] = pushTo[u]
    <3>1. CASE StoreAddress(t)
      BY <1>3, <3>1, StoreIs, LastIs DEF TypeOK
    <3>2. CASE PublishVec(t)
      BY <3>2, PublishIs
    <3>3. QED
      BY <1>3, <3>1, <3>2 DEF Last
  <2>2. \A u \in Threads : u # t => TypeFor(u)' = TypeFor(u)
    BY <2>1 DEF TypeFor
  <2>3. CASE StoreAddress(t)
    <3>1. UNCHANGED <<newVecs, freedVecs>>
      BY <2>3, StoreIs
    <3>2. ASSUME NEW u \in Threads
          PROVE  R(u)'
      BY <2>1, <2>2, <3>1 DEF RaceInv, Makes
    <3>3. QED
      BY <3>1, <3>2 DEF RaceInv
  <2>4. CASE PublishVec(t)
    <3> DEFINE c == TypeFor(t)
    <3>1. /\ c \in Types /\ newVecs'[c] = adding[t] /\ \A d \in Types : d # c => newVecs'[d] = newVecs[d]
          /\ freedVecs' = freedVecs \cup ({newVecs[c]} \ {NoVec})
          /\ HasOwn(t) /\ adding[t] \in Started
      BY <2>4, PublishIs
    <3>2. Makes(t)
      BY <3>1 DEF HasOwn, Makes
    <3>3. freedVecs' = {}
      BY <3>1, <3>2 DEF RaceInv
    <3>4. adding[t] # NoVec
      BY <3>1 DEF Started, NoVec
    <3>5. ASSUME NEW u \in Threads, u # t
          PROVE  R(u)'
      <4>1. CASE pc[u] = "idle"
        BY <2>1, <3>5, <4>1 DEF Makes
      <4>2. CASE pc[u] # "idle"
        <5>1. TypeFor(u) \in Types
          BY <4>2 DEF TypeFor, AddersInv, Started, TypeOK
        <5>2. Makes(u)' => Makes(u)
          BY <2>1, <2>2, <3>1, <3>4, <3>5, <5>1 DEF Makes
        <5>3. Makes(u) => TypeFor(u) # c
          BY <3>1, <3>2, <3>5 DEF RaceInv, OneCreator
        <5>4. QED
          BY <2>2, <3>1, <3>5, <5>1, <5>2, <5>3 DEF RaceInv
      <4>3. QED
        BY <4>1, <4>2
    <3>6. R(t)'
      BY <2>1 DEF Makes
    <3>7. QED
      BY <3>3, <3>5, <3>6 DEF RaceInv
  <2>5. QED
    BY <1>3, <2>3, <2>4 DEF Last
<1>4. CASE UseComponents
  BY <1>4, RestIs DEF UseComponents, QueueModifier, QueueMultiModifier, QueueRemove, structure,
     adders, RaceInv, Makes, TypeFor
<1>5. CASE StartProcessing \/ ProcessQueues
  <2>1. \A t \in Threads : pc'[t] = "idle"
    BY <1>5, RestIs DEF AddersInv, StartProcessing, ProcessQueues, RunMultiModifiers,
       RunModifiers, MergeNewVecs, PopRemoval, RemoveComponent, RecycleList, EndProcessing, adders
  <2>2. freedVecs' = freedVecs
    BY <1>5 DEF StartProcessing, ProcessQueues, RunMultiModifiers, RunModifiers, MergeNewVecs,
       PopRemoval, RemoveComponent, RecycleList, EndProcessing, structure
  <2>3. QED
    BY <2>1, <2>2 DEF RaceInv, Makes
<1>6. QED
  BY <1>1, <1>2, <1>3, <1>4, <1>5, AddSteps DEF Step

\* Once the map has had an entity it keeps its id
LEMMA RegisteredKeep ==
  ASSUME PInv, Step
  PROVE  /\ Registered \subseteq Registered'
         /\ \A e \in Registered : idOf'[e] = idOf[e]
         /\ Registered' \subseteq Registered
              \/ \E t \in Threads : InsertEntity(t) /\ Registered' = Registered \cup {adding[t]}
<1> USE DEF PInv
<1> DEFINE S == {"push", "store", "publish"}
<1>1. ASSUME NEW t \in Threads, NEW c \in Types, Begin(t, c)
      PROVE  Registered' = Registered /\ idOf' = idOf
  <2>1. pc'[t] \notin S /\ idOf' = idOf
    BY <1>1 DEF Begin, Goto, TypeOK
  <2>2. QED
    BY <1>1, <2>1, PastBegins DEF Registered
<1>2. ASSUME NEW t \in Threads, LookUpNew(t)
      PROVE  Registered' = Registered /\ idOf' = idOf
  <2>1. pc'[t] = "id" /\ pc[t] = "read" /\ idOf' = idOf
    BY <1>2 DEF LookUpNew, Goto, TypeOK, entities
  <2>2. adding[t] \notin Registered
    BY <2>1 DEF Registered, Past
  <2>3. QED
    BY SMTT(30), <1>2, <2>1, <2>2, MiddlePast DEF Registered, Middle
<1>3. ASSUME NEW t \in Threads, TakeId(t)
      PROVE  Registered' = Registered /\ \A e \in Registered : idOf'[e] = idOf[e]
  <2>1. pc'[t] = "insert" /\ pc[t] = "id" /\ idOf' = [idOf EXCEPT ![adding[t]] = idCounter]
    BY <1>3 DEF TakeId, Goto, TypeOK
  <2>2. adding[t] \notin Registered
    BY <2>1 DEF Registered, Past
  <2>3. Registered \subseteq Entities
    BY MaxEntitiesAssumption DEF Registered, Past, Started, Entities, TypeOK
  <2>4. Registered' = Registered
    BY <1>3, <2>1, <2>2, MiddlePast DEF Registered, Middle
  <2>5. QED
    BY <2>1, <2>2, <2>3, <2>4 DEF TypeOK
<1>4. ASSUME NEW t \in Threads, InsertEntity(t)
      PROVE  Registered' = Registered \cup {adding[t]} /\ idOf' = idOf
  <2>1. pc'[t] = "push" /\ idOf' = idOf
    BY <1>4 DEF InsertEntity, Goto, TypeOK
  <2>2. QED
    BY <1>4, <2>1, MiddlePast DEF Registered, Middle
<1>5. ASSUME NEW t \in Threads, Push(t) \/ (StoreAddress(t) /\ pushTo[t] = adding[t])
      PROVE  Registered' = Registered /\ idOf' = idOf
  <2>1. Middle(t) /\ pc'[t] \in S /\ pc[t] \in S /\ idOf' = idOf
    BY <1>5 DEF Middle, Push, StoreAddress, Goto, TypeOK, entities
  <2>2. adding[t] \in Registered
    BY <2>1 DEF Registered, Past, AddersInv
  <2>3. Past(S)' = IF pc'[t] \in S THEN Past(S) \cup {adding[t]} ELSE Past(S) \ {adding[t]}
    BY <2>1, MiddlePast
  <2>4. QED
    BY <2>1, <2>2, <2>3 DEF Registered
<1>6. ASSUME NEW t \in Threads, Last(t)
      PROVE  Registered' = Registered /\ idOf' = idOf
  <2>1. Registered' = Registered \cup {adding[t]} /\ pc[t] \in S
    BY <1>6, LastIs, PastReturns DEF Registered
  <2>2. adding[t] \in Registered
    BY <2>1 DEF Registered, Past, AddersInv
  <2>3. idOf' = idOf
    BY <1>6 DEF Last, StoreAddress, PublishVec, entities
  <2>4. QED
    BY <2>1, <2>2, <2>3
<1>7. CASE UseComponents \/ StartProcessing \/ ProcessQueues
  BY <1>7, RestIs DEF adders, Registered, Past, Started
<1>8. QED
  BY <1>1, <1>2, <1>3, <1>4, <1>5, <1>6, <1>7, AddSteps DEF Step, Middle

\* The component that a removal takes out is that of the data's entity, which
\* is where its box says: the removal uses no freed memory
LEMMA RemovesAsked ==
  ASSUME PInv, MapInv, RemoveComponent
  PROVE  /\ faulted' = faulted /\ draining' = << >>
         /\ \E e \in Returned \ dropped : \E v, k :
              /\ Removes(v, k) /\ vecs[v][k] = e /\ dropped' = dropped \cup {e}
              /\ draining = DataOf(e, v)
              /\ ~entityMap[idOf[e]].present /\ idOf[e] \in AskedIds
<1> USE DEF PInv
<1>1. PICK e \in Returned \ dropped :
        /\ draining = DataOf(e, box[e].vec)
        /\ ~entityMap[idOf[e]].present /\ idOf[e] \in AskedIds
  BY DEF RemoveComponent, MapInv
<1>2. draining' = << >> /\ Head(draining) = [box |-> e, vec |-> box[e].vec]
  BY <1>1 DEF RemoveComponent, DataOf
<1>3. e \in Boxed
  BY <1>1 DEF Returned, Boxed, Past, Started
<1>4. Spot(e, box[e].vec, box[e].at)
  BY <1>1, <1>3 DEF PlacesInv
<1>5. InUse(box[e])
  BY <1>4 DEF Spot, InUse
<1>6. faulted' = faulted /\ dropped' = dropped \cup {vecs[box[e].vec][box[e].at]}
  <2>1. Head(draining).box = e /\ Head(draining).vec = box[e].vec
    BY <1>2
  <2>2. e \notin dropped
    BY <1>1
  <2>3. QED
    BY <1>5, <2>1, <2>2 DEF RemoveComponent
<1>7. dropped' = dropped \cup {e} /\ dropped' # dropped
  BY <1>1, <1>4, <1>6 DEF Spot
<1>8. PICK v, k : Removes(v, k)
  <2>1. ~UNCHANGED structure
    BY <1>7 DEF structure
  <2>2. QED
    BY <2>1, RemoveIs
<1>9. v = box[e].vec /\ k = box[e].at
  BY <1>2, <1>8 DEF Removes
<1>10. vecs[v][k] = e
  BY <1>4, <1>9 DEF Spot
<1>11. QED
  BY <1>1, <1>2, <1>6, <1>7, <1>8, <1>9, <1>10

\* Only removals drop components
LEMMA DroppedKeep ==
  ASSUME PInv, RaceInv, Step
  PROVE  RemoveComponent \/ dropped' = dropped
<1>1. ASSUME NEW t \in Threads, PublishVec(t)
      PROVE  dropped' = dropped
  <2>1. HasOwn(t) /\ dropped' = IF newVecs[TypeFor(t)] # NoVec
                               THEN dropped \cup Contents(newVecs[TypeFor(t)]) ELSE dropped
    BY <1>1, PublishIs
  <2>2. Makes(t)
    BY <2>1 DEF HasOwn, Makes
  <2>3. QED
    BY <2>1, <2>2 DEF RaceInv
<1>2. QED
  BY <1>1 DEF Step, AddStep, Begin, LookUpNew, TakeId, InsertEntity, Push, StoreAddress,
     UseComponents, QueueModifier, QueueMultiModifier, QueueRemove, StartProcessing,
     ProcessQueues, RunMultiModifiers, RunModifiers, MergeNewVecs, PopRemoval, RecycleList,
     EndProcessing, structure

LEMMA AskedKeeps ==
  ASSUME UInv, Step
  PROVE  AskedInv' /\ AskedIds \subseteq AskedIds'
<1> USE DEF UInv
<1>1. /\ Registered \subseteq Registered'
      /\ \A e \in Registered : idOf'[e] = idOf[e]
  BY RegisteredKeep
<1>2. \/ UNCHANGED <<asked, removeQueue>>
      \/ \E e \in Returned \cup {q.of : q \in Visible} : QueueRemove(e)
      \/ asked' = asked /\ PopRemoval
  BY DEF Step, AddStep, Begin, LookUpNew, TakeId, InsertEntity, Push, StoreAddress, PublishVec,
     UseComponents, QueueModifier, QueueMultiModifier, StartProcessing, ProcessQueues,
     RunMultiModifiers, RunModifiers, MergeNewVecs, PopRemoval, RemoveComponent, RecycleList,
     EndProcessing, queues
<1>3. ASSUME NEW e \in Returned \cup {q.of : q \in Visible}, QueueRemove(e)
      PROVE  e \in Registered /\ idOf' = idOf
  <2>1. CASE e \in Returned
    BY <1>3, <2>1 DEF Returned, Registered, Past, Started, QueueRemove, entities
  <2>2. CASE \E q \in Visible : e = q.of
    BY <1>3, <2>2, VisibleSpots DEF PInv, PlacesInv, Pushed, Registered, Past, QueueRemove, entities
  <2>3. QED
    BY <2>1, <2>2
<1>4. asked' \subseteq Registered' /\ asked \subseteq asked'
  BY <1>1, <1>2, <1>3 DEF AskedInv, QueueRemove
<1>5. AskedIds \subseteq AskedIds'
  BY <1>1, <1>4 DEF AskedIds, AskedInv
<1>6. \A i \in 1 .. Len(removeQueue') : removeQueue'[i] \in AskedIds'
  <2>1. CASE UNCHANGED <<asked, removeQueue>>
    BY <1>5, <2>1 DEF AskedInv
  <2>2. CASE \E e \in Returned \cup {q.of : q \in Visible} : QueueRemove(e)
    <3>1. PICK e \in Returned \cup {q.of : q \in Visible} : QueueRemove(e)
      BY <2>2
    <3>2. /\ removeQueue' = Append(removeQueue, idOf[e]) /\ asked' = asked \cup {e}
          /\ idOf' = idOf /\ removeQueue \in Seq(Ids)
      BY <1>3, <3>1 DEF QueueRemove, PInv, TypeOK
    <3>3. idOf[e] \in AskedIds'
      BY <3>2 DEF AskedIds
    <3>4. QED
      BY <1>5, <3>2, <3>3 DEF AskedInv
  <2>3. CASE PopRemoval
    <3>1. removeQueue # << >> /\ removeQueue' = Tail(removeQueue) /\ removeQueue \in Seq(Ids)
      BY <2>3 DEF PopRemoval, PInv, TypeOK
    <3>2. \A i \in 1 .. Len(removeQueue') : i + 1 \in 1 .. Len(removeQueue) /\ removeQueue'[i] = removeQueue[i + 1]
      BY <3>1
    <3>3. QED
      BY <1>5, <3>2 DEF AskedInv
  <2>4. QED
    BY <1>2, <2>1, <2>2, <2>3
<1>7. \A e \in dropped' : idOf'[e] \in AskedIds'
  <2>1. Returned \subseteq Registered
    BY DEF Returned, Registered, Past, Started
  <2>2. dropped \subseteq Registered
    BY <2>1 DEF PInv, PlacesInv
  <2>3. CASE dropped' = dropped
    BY <1>1, <1>5, <2>2, <2>3 DEF AskedInv
  <2>4. CASE RemoveComponent
    <3>1. \E e \in Returned : dropped' = dropped \cup {e} /\ idOf[e] \in AskedIds
      BY <2>4, RemovesAsked
    <3>2. QED
      BY <1>1, <1>5, <2>1, <2>2, <3>1 DEF AskedInv
  <2>5. QED
    BY <2>3, <2>4, DroppedKeep
<1>8. QED
  BY <1>4, <1>5, <1>6, <1>7 DEF AskedInv

\* An entity in the map goes where it was going to, and then stays in its vector
LEMMA StaysPut ==
  ASSUME UInv, Step, NEW e \in Registered
  PROVE  /\ \A t \in Threads : adding'[t] = e => adding[t] = e /\ pushTo'[t] = pushTo[t]
         /\ e \in Boxed' \ dropped =>
              \/ e \in Boxed /\ box'[e].vec = box[e].vec
              \/ \E t \in Threads : adding[t] = e /\ box'[e].vec = pushTo[t]
<1> USE DEF UInv, PInv
<1>1. e \in Started /\ e # 0 /\ e \in Entities
  BY MaxEntitiesAssumption DEF Registered, Past, Started, Entities, TypeOK
<1>2. ASSUME NEW t \in Threads, NEW c \in Types, Begin(t, c)
      PROVE  \A u \in Threads : adding'[u] = e => adding[u] = e /\ pushTo'[u] = pushTo[u]
  <2>1. /\ adding'[t] = Len(typeOf) + 1
        /\ \A u \in Threads : u # t => adding'[u] = adding[u] /\ pushTo'[u] = pushTo[u]
    BY <1>2 DEF Begin, TypeOK
  <2>2. Len(typeOf) + 1 # e
    BY <1>1 DEF Started, TypeOK
  <2>3. QED
    BY <2>1, <2>2
<1>3. ASSUME NEW t \in Threads, LookUpNew(t)
      PROVE  \A u \in Threads : adding'[u] = e => adding[u] = e /\ pushTo'[u] = pushTo[u]
  BY <1>3 DEF LookUpNew, Goto, Registered, Past, TypeOK
<1>4. CASE \/ \E t \in Threads : TakeId(t) \/ InsertEntity(t)
           \/ UseComponents \/ StartProcessing
           \/ RunMultiModifiers \/ RunModifiers \/ PopRemoval \/ RecycleList \/ EndProcessing
           \/ RemoveComponent /\ UNCHANGED structure
  <2>1. UNCHANGED <<adding, pushTo>>
    BY <1>4, RestIs DEF TakeId, InsertEntity, ProcessQueues, adders
  <2>2. Boxed' = Boxed /\ box' = box
    BY <1>4, QuietSteps DEF Quiet, structure
  <2>3. QED
    BY <2>1, <2>2
<1>5. CASE \E t \in Threads : (\E c \in Types : Begin(t, c)) \/ LookUpNew(t)
  <2>1. Boxed' = Boxed /\ box' = box
    BY <1>5, QuietSteps DEF Quiet, structure
  <2>2. QED
    BY <1>2, <1>3, <1>5, <2>1
<1>6. ASSUME NEW t \in Threads, Push(t)
      PROVE  UNCHANGED <<adding, pushTo, box>> /\ Boxed' = Boxed
  <2>1. UNCHANGED <<adding, pushTo, box>> /\ pc[t] = "push" /\ pc'[t] = "store"
    BY <1>6, PushSpots
  <2>2. adding[t] \notin Boxed
    BY <2>1 DEF Boxed, Past
  <2>3. QED
    BY <1>6, <2>1, <2>2, MiddlePast DEF Middle, Boxed
<1>7. CASE \E t \in Threads : StoreAddress(t)
  <2>1. PICK t \in Threads : StoreAddress(t)
    BY <1>7
  <2>2. /\ box'[adding[t]].vec = pushTo[t]
        /\ \A x \in Entities : x # adding[t] => box'[x] = box[x]
        /\ Boxed' = Boxed \cup {adding[t]}
        /\ \A u \in Threads : u # t => adding'[u] = adding[u] /\ pushTo'[u] = pushTo[u]
    BY <2>1, StoreIs
  <2>3. UNCHANGED <<adding, pushTo>> \/ adding'[t] = 0
    BY <2>1 DEF StoreAddress, Return, TypeOK, NoEntity
  <2>4. QED
    BY <1>1, <2>2, <2>3
<1>8. CASE \E t \in Threads : PublishVec(t)
  <2>1. PICK t \in Threads : PublishVec(t)
    BY <1>8
  <2>2. /\ box' = box /\ Boxed' = Boxed
        /\ \A u \in Threads : u # t => adding'[u] = adding[u] /\ pushTo'[u] = pushTo[u]
    BY <2>1, PublishIs
  <2>3. adding'[t] = 0
    BY <2>1 DEF PublishVec, Return, TypeOK, NoEntity
  <2>4. QED
    BY <1>1, <2>2, <2>3
<1>9. CASE MergeNewVecs
  BY <1>9, MergeIs DEF Boxed, Past, Started
<1>10. CASE RemoveComponent /\ ~UNCHANGED structure
  <2>1. PICK v, k : Removes(v, k)
    BY <1>10, RemoveIs
  <2>2. UNCHANGED <<adding, pushTo, pc, typeOf>>
    BY <2>1 DEF Removes
  <2>3. Boxed' = Boxed
    BY <2>2 DEF Boxed, Past, Started
  <2>4. ASSUME e \in Boxed \ dropped
        PROVE  box'[e].vec = box[e].vec
    <3>1. CASE k # Len(vecs[v]) /\ e = vecs[v][Len(vecs[v])]
      <4>1. box'[e].vec = v
        BY <1>1, <2>1, <3>1 DEF Removes
      <4>2. Spot(e, v, Len(vecs[v]))
        BY <2>1, <3>1, RemoveSpots
      <4>3. Spot(e, box[e].vec, box[e].at)
        BY <2>4 DEF PlacesInv
      <4>4. QED
        BY <4>1, <4>2, <4>3 DEF PlacesInv
    <3>2. CASE ~(k # Len(vecs[v]) /\ e = vecs[v][Len(vecs[v])])
      BY <1>1, <2>1, <3>2 DEF Removes
    <3>3. QED
      BY <3>1, <3>2
  <2>5. QED
    BY <2>2, <2>3, <2>4
<1>11. QED
  BY <1>4, <1>5, <1>6, <1>7, <1>8, <1>9, <1>10 DEF Step, AddStep, ProcessQueues

\* An entry of the map that a step leaves alone stays right
LEMMA EntryKeeps ==
  ASSUME UInv, Step, NEW e \in Registered \ dropped, NEW v \in Entities, GoesTo(e, v),
         entityMap[idOf[e]].present
  PROVE  e \in (Registered \ dropped)' /\ idOf'[e] = idOf[e] /\ GoesTo(e, v)'
<1> USE DEF UInv
<1>1. e \in Registered' /\ idOf'[e] = idOf[e]
  BY RegisteredKeep
<1>2. e \notin dropped'
  BY RemovesAsked, DroppedKeep
<1>3. GoesTo(e, v)'
  BY StaysPut DEF GoesTo
<1>4. QED
  BY <1>1, <1>2, <1>3

LEMMA EntriesKeep ==
  ASSUME UInv, Step
  PROVE  /\ \A id \in Ids : entityMap'[id].present =>
              \E e \in (Registered \ dropped)', v \in Entities :
                idOf'[e] = id /\ entityMap'[id].data = DataOf(e, v) /\ GoesTo(e, v)'
         /\ \A id \in Ids : ~entityMap'[id].present => entityMap'[id] = NoEntry
<1> USE DEF UInv
<1>1. ASSUME NEW id \in Ids, entityMap[id].present
      PROVE  \E e \in (Registered \ dropped)', v \in Entities :
               idOf'[e] = id /\ entityMap[id].data = DataOf(e, v) /\ GoesTo(e, v)'
  BY <1>1, EntryKeeps DEF MapInv
<1>2. ASSUME NEW t \in Threads, InsertEntity(t), NEW id \in Ids
      PROVE  IF id = idOf[adding[t]]
             THEN /\ entityMap'[id].present
                  /\ \E e \in (Registered \ dropped)', v \in Entities :
                       idOf'[e] = id /\ entityMap'[id].data = DataOf(e, v) /\ GoesTo(e, v)'
             ELSE entityMap'[id] = entityMap[id]
  <2>1. /\ pc[t] = "insert" /\ pc'[t] = "push"
        /\ UNCHANGED <<idOf, adding, pushTo, dropped>>
        /\ entityMap' = [entityMap EXCEPT ![idOf[adding[t]]] = [present |-> TRUE, data |-> list[t]]]
    BY <1>2 DEF InsertEntity, Goto, PInv, TypeOK, structure
  <2>2. /\ adding[t] \notin Returned /\ pushTo[t] \in Entities
        /\ \A u \in Threads : adding[u] = adding[t] => u = t
    BY <2>1, TargetIs DEF PInv, AddersInv
  <2>3. adding[t] \in (Registered \ dropped)' /\ adding[t] \notin Boxed'
    <3>1. adding[t] \in Registered' /\ adding[t] \notin Boxed'
      BY <1>2, <2>1, MiddlePast DEF Middle, PInv, Registered, Boxed
    <3>2. QED
      BY <2>1, <2>2, <3>1 DEF PInv, PlacesInv
  <2>4. GoesTo(adding[t], pushTo[t])'
    BY <2>1, <2>2, <2>3 DEF GoesTo
  <2>5. list[t] = DataOf(adding[t], pushTo[t])
    BY <2>1 DEF MapInv
  <2>6. CASE id = idOf[adding[t]]
    <3>1. entityMap'[id] = [present |-> TRUE, data |-> DataOf(adding[t], pushTo[t])]
      BY <2>1, <2>5, <2>6 DEF PInv, TypeOK
    <3>2. QED
      BY <2>1, <2>2, <2>3, <2>4, <2>6, <3>1
  <2>7. CASE id # idOf[adding[t]]
    BY <2>1, <2>7 DEF PInv, TypeOK
  <2>8. QED
    BY <2>6, <2>7
<1>3. CASE \E t \in Threads : InsertEntity(t)
  BY <1>1, <1>2, <1>3 DEF MapInv
<1>4. CASE PopRemoval
  <2>1. \A id \in Ids : entityMap'[id] \in {entityMap[id], NoEntry}
    BY <1>4 DEF PopRemoval, PInv, TypeOK
  <2>2. NoEntry.present = FALSE
    BY DEF NoEntry
  <2>3. QED
    BY <1>1, <2>1, <2>2 DEF MapInv
<1>5. CASE ~PopRemoval /\ ~ \E t \in Threads : InsertEntity(t)
  <2>1. entityMap' = entityMap
    BY <1>5 DEF Step, AddStep, Begin, LookUpNew, TakeId, Push, StoreAddress, PublishVec,
       UseComponents, QueueModifier, QueueMultiModifier, QueueRemove, StartProcessing,
       ProcessQueues, RunMultiModifiers, RunModifiers, MergeNewVecs, RemoveComponent, RecycleList,
       EndProcessing, entities
  <2>2. QED
    BY <1>1, <2>1 DEF MapInv
<1>6. QED
  BY <1>3, <1>4, <1>5

\* The lists in the pool are empty, so that one entity's data is all there is
LEMMA ListsKeep ==
  ASSUME UInv, Step
  PROVE  /\ \A i \in 1 .. Len(emptyVecs') : emptyVecs'[i] = << >>
         /\ \A t \in Threads : pc'[t] = "insert" => list'[t] = DataOf(adding'[t], pushTo'[t])
<1> USE DEF UInv, PInv
<1>1. ASSUME NEW t \in Threads, TakeId(t)
      PROVE  /\ \A i \in 1 .. Len(emptyVecs') : emptyVecs'[i] = << >>
             /\ \A u \in Threads : pc'[u] = "insert" => list'[u] = DataOf(adding'[u], pushTo'[u])
  <2>1. emptyVecs \in Seq(Seq(Datum)) /\ emptyVecs' = IF emptyVecs = << >> THEN emptyVecs ELSE Tail(emptyVecs)
    BY <1>1 DEF TakeId, TypeOK
  <2>2. \A i \in 1 .. Len(emptyVecs') : emptyVecs'[i] = << >>
    BY <2>1 DEF MapInv
  <2>3. (IF emptyVecs = << >> THEN NoList ELSE Head(emptyVecs)) = << >>
    BY <2>1 DEF MapInv, NoList
  <2>4. /\ list'[t] = Append(<< >>, [box |-> adding[t], vec |-> pushTo[t]])
        /\ UNCHANGED <<adding, pushTo>>
        /\ \A u \in Threads : u # t => pc'[u] = pc[u] /\ list'[u] = list[u]
    BY <1>1, <2>3 DEF TakeId, Goto, TypeOK
  <2>5. Append(<< >>, [box |-> adding[t], vec |-> pushTo[t]]) = DataOf(adding[t], pushTo[t])
    BY DEF DataOf
  <2>6. QED
    BY <2>2, <2>4, <2>5 DEF MapInv
<1>2. CASE RecycleList
  <2>1. /\ emptyVecs \in Seq(Seq(Datum))
        /\ emptyVecs' = IF Len(emptyVecs) < PoolSize THEN Append(emptyVecs, << >>) ELSE emptyVecs
        /\ UNCHANGED <<pc, list, adding, pushTo>>
    BY <1>2 DEF RecycleList, TypeOK, adders
  <2>2. QED
    BY <2>1 DEF MapInv
<1>3. CASE ~RecycleList /\ ~ \E t \in Threads : TakeId(t)
  <2>1. emptyVecs' = emptyVecs
    BY <1>3 DEF Step, AddStep, Begin, LookUpNew, InsertEntity, Push, StoreAddress, PublishVec,
       UseComponents, QueueModifier, QueueMultiModifier, QueueRemove, StartProcessing,
       ProcessQueues, RunMultiModifiers, RunModifiers, MergeNewVecs, PopRemoval, RemoveComponent,
       EndProcessing, entities
  <2>2. ASSUME NEW u \in Threads, pc'[u] = "insert"
        PROVE  list'[u] = DataOf(adding'[u], pushTo'[u])
    <3>1. pc[u] = "insert" /\ list'[u] = list[u] /\ adding'[u] = adding[u] /\ pushTo'[u] = pushTo[u]
      <4>1. ASSUME NEW t \in Threads, (\E c \in Types : Begin(t, c)) \/ AddStep(t)
            PROVE  u # t /\ pc[u] = "insert" /\ list'[u] = list[u] /\ adding'[u] = adding[u]
                   /\ pushTo'[u] = pushTo[u]
        BY <1>3, <2>2, <4>1 DEF AddStep, Begin, LookUpNew, InsertEntity, Push, StoreAddress,
           PublishVec, Return, Goto, TypeOK
      <4>2. CASE UseComponents \/ StartProcessing \/ ProcessQueues
        BY <2>2, <4>2, RestIs DEF adders
      <4>3. QED
        BY <4>1, <4>2 DEF Step
    <3>2. QED
      BY <3>1 DEF MapInv
  <2>3. QED
    BY <2>1, <2>2 DEF MapInv
<1>4. QED
  BY <1>1, <1>2, <1>3

LEMMA DrainKeeps ==
  ASSUME UInv, Step, draining' # << >>
  PROVE  /\ phase' = "drain"
         /\ \E e \in (Returned \ dropped)' :
              /\ draining' = DataOf(e, box'[e].vec)
              /\ ~entityMap'[idOf'[e]].present /\ idOf'[e] \in AskedIds'
<1> USE DEF UInv, PInv
<1>1. CASE PopRemoval
  <2> DEFINE id == Head(removeQueue)
  <2>1. /\ phase = "remove" /\ removeQueue # << >> /\ removeQueue \in Seq(Ids)
        /\ draining' = entityMap[id].data
        /\ phase' = IF entityMap[id].present THEN "drain" ELSE "remove"
        /\ entityMap' = [entityMap EXCEPT ![id] = NoEntry]
        /\ UNCHANGED <<idOf, box, dropped, adding, typeOf, asked>>
    BY <1>1 DEF PopRemoval, TypeOK, structure, adders
  <2>2. id \in Ids /\ id \in AskedIds
    BY <2>1 DEF AskedInv
  <2>3. entityMap[id].present
    BY <2>1, <2>2 DEF MapInv, NoEntry, NoList
  <2>4. PICK e \in Registered \ dropped, v \in Entities :
          idOf[e] = id /\ entityMap[id].data = DataOf(e, v) /\ GoesTo(e, v)
    BY <2>2, <2>3 DEF MapInv
  <2>5. Returned' = Returned /\ Returned = Started /\ Registered = Started /\ Boxed = Started
    BY <2>1, AllReturned DEF Returned, Registered, Boxed
  <2>6. v = box[e].vec
    BY <2>4, <2>5 DEF GoesTo
  <2>7. ~entityMap'[id].present
    BY <2>1, <2>2 DEF NoEntry, TypeOK
  <2>8. AskedIds' = AskedIds
    BY <2>1 DEF AskedIds
  <2>9. e \in (Returned \ dropped)'
    BY <2>1, <2>4, <2>5
  <2>10. draining' = DataOf(e, box'[e].vec) /\ idOf'[e] = id
    BY <2>1, <2>4, <2>6
  <2>11. QED
    BY <2>1, <2>2, <2>3, <2>7, <2>8, <2>9, <2>10
<1>2. CASE ~PopRemoval
  <2>1. draining # << >> /\ ~RemoveComponent /\ draining' = draining
    BY <1>2, RemovesAsked DEF Step, AddStep, Begin, LookUpNew, TakeId, InsertEntity, Push, StoreAddress,
       PublishVec, UseComponents, QueueModifier, QueueMultiModifier, QueueRemove, StartProcessing,
       ProcessQueues, RunMultiModifiers, RunModifiers, MergeNewVecs, RecycleList,
       EndProcessing, processing
  <2>2. phase = "drain"
    BY <2>1 DEF MapInv
  <2>3. \A t \in Threads : pc[t] = "idle"
    BY <2>2, AllReturned
  <2>4. FALSE
    BY <1>2, <2>1, <2>2, <2>3 DEF Step, AddStep, Begin, LookUpNew, TakeId, InsertEntity, Push,
       StoreAddress, PublishVec, Goto, UseComponents, QueueModifier, QueueMultiModifier,
       QueueRemove, StartProcessing, ProcessQueues, RunMultiModifiers, RunModifiers, MergeNewVecs,
       RecycleList, EndProcessing
  <2>5. QED
    BY <2>4
<1>3. QED
  BY <1>1, <1>2

\* Pushes, modifiers and removals use what has not been freed
LEMMA FaultKeeps ==
  ASSUME UInv, Step
  PROVE  ~faulted'
<1> USE DEF UInv
<1>1. CASE \E t \in Threads : Push(t)
  BY <1>1 DEF Push, RaceInv
<1>2. ASSUME NEW q \in Visible
      PROVE  InUse(q.at)
  BY VisibleSpots DEF PInv, Spot, InUse
<1>3. CASE RunMultiModifiers
  <2>1. \A m \in multiMods : InUse(m[1].at) /\ InUse(m[2].at)
    <3> SUFFICES ASSUME NEW m \in multiMods
                 PROVE  InUse(m[1].at) /\ InUse(m[2].at)
      OBVIOUS
    <3>1. PICK q, r \in Visible : m = <<q, r>>
      BY DEF PInv, ModsInv
    <3>2. m[1] = q /\ m[2] = r
      BY <3>1
    <3>3. QED
      BY <1>2, <3>2
  <2>2. QED
    BY <1>3, <2>1 DEF RunMultiModifiers
<1>4. CASE RunModifiers
  <2>1. \A m \in mods : InUse(m[1].at)
    <3> SUFFICES ASSUME NEW m \in mods
                 PROVE  InUse(m[1].at)
      OBVIOUS
    <3>1. PICK q \in Visible : m = <<q>>
      BY DEF PInv, ModsInv
    <3>2. QED
      BY <1>2, <3>1
  <2>2. QED
    BY <1>4, <2>1 DEF RunModifiers
<1>5. CASE RemoveComponent
  BY <1>5, RemovesAsked
<1>6. CASE ~RunMultiModifiers /\ ~RunModifiers /\ ~RemoveComponent /\ ~ \E t \in Threads : Push(t)
  BY <1>6 DEF Step, AddStep, Begin, LookUpNew, TakeId, InsertEntity, StoreAddress,
     PublishVec, UseComponents, QueueModifier, QueueMultiModifier, QueueRemove, StartProcessing,
     ProcessQueues, MergeNewVecs, PopRemoval, RecycleList, EndProcessing
<1>7. QED
  BY <1>1, <1>3, <1>4, <1>5, <1>6

-----------------------------------------------------------------------------
(* The second layer                                                        *)

LEMMA InitUniverse == Init => UInv
<1> SUFFICES ASSUME Init
             PROVE  UInv
  OBVIOUS
<1>1. PInv
  BY InitPlaces
<1>2. RaceInv
  BY DEF Init, RaceInv, Makes
<1>3. AskedInv
  BY DEF Init, AskedInv
<1>4. MapInv
  BY DEF Init, MapInv, NoEntry, NoList
<1>5. QED
  BY <1>1, <1>2, <1>3, <1>4 DEF UInv, Init

LEMMA NextUniverse ==
  ASSUME OneCreator
  PROVE  UInv /\ [Next]_vars => UInv'
<1> SUFFICES ASSUME UInv, [Next]_vars
             PROVE  UInv'
  OBVIOUS
<1>1. PInv'
  BY NextPlaces DEF UInv
<1>2. CASE Step
  <2>1. RaceInv' /\ AskedInv' /\ ~faulted'
    BY <1>2, RaceKeeps, AskedKeeps, FaultKeeps DEF UInv
  <2>2. MapInv'
    BY <1>2, EntriesKeep, ListsKeep, DrainKeeps DEF MapInv
  <2>3. QED
    BY <1>1, <2>1, <2>2 DEF UInv
<1>3. CASE UNCHANGED vars
  <2>1. UNCHANGED <<structure, entities, queues, adders, processing, faulted>>
    BY <1>3 DEF vars
  <2>2. RaceInv' /\ AskedInv' /\ ~faulted'
    BY <2>1 DEF UInv, RaceInv, Makes, TypeFor, AskedInv, AskedIds, Registered, Past, Started,
       structure, entities, queues, adders
  <2>3. MapInv'
    BY <2>1 DEF UInv, MapInv, GoesTo, AskedIds, Registered, Boxed, Returned, Past, Started,
       structure, entities, queues, adders, processing
  <2>4. QED
    BY <1>1, <2>2, <2>3 DEF UInv
<1>4. QED
  BY <1>2, <1>3 DEF Next

LEMMA Universal ==
  ASSUME OneCreator
  PROVE  Spec => []UInv
BY InitUniverse, NextUniverse, PTL DEF Spec

\* No push, modifier or removal uses memory that has been freed
THEOREM FaultFree ==
  ASSUME OneCreator
  PROVE  Spec => []NoFault
<1>1. UInv => NoFault
  BY DEF UInv, NoFault
<1>2. QED
  BY <1>1, Universal, PTL

\* What the map keeps under an id is the data of one entity, that has the id,
\* and nothing of it has been freed, however ids wrap around and lists are
\* used again
THEOREM MapExact ==
  ASSUME OneCreator
  PROVE  Spec => []EntityMapExact
<1>1. ASSUME UInv, NEW id \in Ids, entityMap[id].present
      PROVE  \E e \in 1 .. Len(typeOf), v \in Entities \ freedVecs :
               /\ e \notin dropped /\ idOf[e] = id
               /\ entityMap[id].data = <<[box |-> e, vec |-> v]>>
               /\ e \in Alive => box[e].vec = v
  <2>1. PICK e \in Registered \ dropped, v \in Entities :
          idOf[e] = id /\ entityMap[id].data = DataOf(e, v) /\ GoesTo(e, v)
    BY <1>1 DEF UInv, MapInv
  <2>2. e \in 1 .. Len(typeOf) /\ v \notin freedVecs
    BY <1>1, <2>1 DEF Registered, Past, Started, UInv, RaceInv
  <2>3. e \in Alive => e \in Boxed
    BY DEF Alive, Returned, Boxed, Past, Started
  <2>4. QED
    BY <2>1, <2>2, <2>3 DEF DataOf, GoesTo
<1>2. UInv => EntityMapExact
  BY <1>1 DEF EntityMapExact
<1>3. QED
  BY <1>2, Universal, PTL

\* Until a removal of its id is asked for, an entity that has been added is in
\* the vector of its type, where systems find it now or after process_queues
THEOREM NothingLost ==
  ASSUME OneCreator
  PROVE  Spec => []NoEntityLost
<1>1. ASSUME UInv, NEW e \in Returned, idOf[e] \notin AskedIds
      PROVE  /\ e \notin dropped
             /\ \E v \in {components[typeOf[e]], newVecs[typeOf[e]]} \ {NoVec} : e \in Contents(v)
  <2>1. e \notin dropped
    BY <1>1 DEF UInv, AskedInv
  <2>2. PICK v, k : Spot(e, v, k)
    BY <1>1, <2>1 DEF UInv, PInv, PlacesInv, Returned, Boxed, Past, Started
  <2>3. typeOf[v] = typeOf[e] /\ vecs[v] # << >> /\ v \in Entities \ freedVecs /\ e \in Contents(v)
    BY <1>1, <2>2 DEF UInv, PInv, PlacesInv, Spot, Contents
  <2>4. ~ \E t \in Threads : HasOwn(t) /\ adding[t] = v
    BY <1>1, <2>2 DEF UInv, PInv, VecsInv, Spot, Returned
  <2>5. Published(v)
    BY <1>1, <2>3, <2>4 DEF UInv, PInv, VecsInv
  <2>6. v # NoVec
    BY <2>3 DEF Entities, NoVec
  <2>7. QED
    BY <2>1, <2>3, <2>5, <2>6 DEF Published
<1>2. UInv => NoEntityLost
  BY <1>1 DEF NoEntityLost, AskedIds
<1>3. QED
  BY <1>2, Universal, PTL

-----------------------------------------------------------------------------
(* The Universe keeps the promise of EntityStore                           *)

Coming == Adding({"push", "store", "publish"}) \ Stored
Named == {<<e, idOf[e]>> : e \in (1 .. Len(typeOf)) \ Unregistered}
Owner == [id \in Ids |-> IF entityMap[id].present THEN entityMap[id].data[1].box ELSE NoEntity]
KnownTypes == {c \in Types : components[c] # NoVec}
Leaving == IF draining = << >> THEN NoEntity ELSE Head(draining).box

\* The entities that are on their way, in terms of those that have got there
LEMMA OnTheWay ==
  ASSUME PInv
  PROVE  /\ Unregistered = Started \ Registered
         /\ Adding({"push", "store", "publish"}) = Registered \ Returned
<1> USE DEF PInv
<1> DEFINE S == {"push", "store", "publish"}
<1>1. \A t \in Threads : /\ pc[t] \in {"idle", "read", "id", "insert", "push", "store", "publish"}
                         /\ pc[t] # "idle" <=> adding[t] \in Started
                         /\ pc[t] # "idle" => adding[t] \notin Returned
  BY DEF TypeOK, AddersInv, Started, Returned, NoEntity
<1>2. \A t, u \in Threads : adding[t] = adding[u] /\ pc[t] # "idle" => t = u
  BY DEF AddersInv
<1>3. Unregistered = Started \ Registered
  BY <1>1, <1>2 DEF Unregistered, Adding, Registered, Past
<1>4. Adding(S) = Registered \ Returned
  <2>1. Adding(S) \subseteq Registered \ Returned
    BY <1>1, <1>2 DEF Adding, Registered, Past
  <2>2. Registered \ Returned \subseteq Adding(S)
    BY DEF Adding, Registered, Past, Returned, Started
  <2>3. QED
    BY <2>1, <2>2
<1>5. QED
  BY <1>3, <1>4

\* The same in the next state
LEMMA OnTheWayNext ==
  ASSUME PInv'
  PROVE  /\ Unregistered' = Started' \ Registered'
         /\ Adding({"push", "store", "publish"})' = Registered' \ Returned'
<1> USE DEF PInv
<1> DEFINE S == {"push", "store", "publish"}
<1>1. \A t \in Threads : /\ pc'[t] \in {"idle", "read", "id", "insert", "push", "store", "publish"}
                         /\ pc'[t] # "idle" <=> adding'[t] \in Started'
                         /\ pc'[t] # "idle" => adding'[t] \notin Returned'
  BY DEF TypeOK, AddersInv, Started, Returned, NoEntity
<1>2. \A t, u \in Threads : adding'[t] = adding'[u] /\ pc'[t] # "idle" => t = u
  BY DEF AddersInv
<1>3. Unregistered' = Started' \ Registered'
  BY <1>1, <1>2 DEF Unregistered, Adding, Registered, Past
<1>4. Adding(S)' = Registered' \ Returned'
  <2>1. Adding(S)' \subseteq Registered' \ Returned'
    BY <1>1, <1>2 DEF Adding, Registered, Past
  <2>2. Registered' \ Returned' \subseteq Adding(S)'
    BY DEF Adding, Registered, Past, Returned, Started
  <2>3. QED
    BY <2>1, <2>2
<1>5. QED
  BY <1>3, <1>4

\* The store is what is in the vectors that have been published
LEMMA StoredIs ==
  ASSUME PInv, NEW e
  PROVE  e \in Stored <=> \E v, k : Spot(e, v, k) /\ Published(v)
<1> USE DEF PInv
<1>1. ASSUME NEW c \in Types, NEW v \in {components[c], newVecs[c]} \ {NoVec}
      PROVE  v \in Entities \ freedVecs /\ Published(v)
  <2>1. v \in Returned \ freedVecs /\ typeOf[v] = c
    BY <1>1 DEF VecsInv
  <2>2. v \in Started /\ v \in Entities
    BY <1>1, <2>1 DEF Returned, Started, TypeOK
  <2>3. QED
    BY <1>1, <2>1, <2>2 DEF Published
<1>2. ASSUME NEW v, Published(v)
      PROVE  \E c \in Types : v \in {components[c], newVecs[c]} \ {NoVec}
  BY <1>2 DEF Published, Started, TypeOK, NoVec
<1>3. e \in Stored <=> \E c \in Types : \E v \in {components[c], newVecs[c]} \ {NoVec} : e \in Contents(v)
  BY DEF Stored
<1>4. ASSUME NEW v \in Entities \ freedVecs
      PROVE  e \in Contents(v) <=> \E k : Spot(e, v, k)
  BY DEF Contents, Spot
<1>5. ASSUME e \in Stored
      PROVE  \E v, k : Spot(e, v, k) /\ Published(v)
  BY <1>1, <1>3, <1>4, <1>5
<1>6. ASSUME NEW v, NEW k, Spot(e, v, k), Published(v)
      PROVE  e \in Stored
  <2>1. v \in Entities \ freedVecs
    BY <1>6 DEF Spot
  <2>2. QED
    BY <1>2, <1>3, <1>4, <1>6, <2>1
<1>7. QED
  BY <1>5, <1>6

LEMMA StoredNext ==
  ASSUME PInv', NEW e
  PROVE  e \in Stored' <=> \E v, k : Spot(e, v, k)' /\ Published(v)'
<1> USE DEF PInv
<1>1. ASSUME NEW c \in Types, NEW v \in {components'[c], newVecs'[c]} \ {NoVec}
      PROVE  v \in Entities \ freedVecs' /\ Published(v)'
  <2>1. v \in Returned' \ freedVecs' /\ typeOf'[v] = c
    BY <1>1 DEF VecsInv
  <2>2. v \in Started' /\ v \in Entities
    BY <1>1, <2>1 DEF Returned, Started, TypeOK
  <2>3. QED
    BY <1>1, <2>1, <2>2 DEF Published
<1>2. ASSUME NEW v, Published(v)'
      PROVE  \E c \in Types : v \in {components'[c], newVecs'[c]} \ {NoVec}
  BY <1>2 DEF Published, Started, TypeOK, NoVec
<1>3. e \in Stored' <=> \E c \in Types : \E v \in {components'[c], newVecs'[c]} \ {NoVec} : e \in Contents(v)'
  BY DEF Stored
<1>4. ASSUME NEW v \in Entities \ freedVecs'
      PROVE  e \in Contents(v)' <=> \E k : Spot(e, v, k)'
  BY DEF Contents, Spot
<1>5. ASSUME e \in Stored'
      PROVE  \E v, k : Spot(e, v, k)' /\ Published(v)'
  BY <1>1, <1>3, <1>4, <1>5
<1>6. ASSUME NEW v, NEW k, Spot(e, v, k)', Published(v)'
      PROVE  e \in Stored'
  <2>1. v \in Entities \ freedVecs'
    BY <1>6 DEF Spot
  <2>2. QED
    BY <1>2, <1>3, <1>4, <1>6, <2>1
<1>7. QED
  BY <1>5, <1>6

\* What the abstract members are made of
LEMMA Members ==
  ASSUME UInv, PInv', Step
  PROVE  /\ Unregistered = Started \ Registered /\ Unregistered' = Started' \ Registered'
         /\ Coming = (Registered \ Returned) \ Stored
         /\ Coming' = (Registered' \ Returned') \ Stored'
         /\ Named = {<<e, idOf[e]>> : e \in Registered}
         /\ Named' = {<<e, idOf'[e]>> : e \in Registered'}
         /\ Registered' = Registered => Named' = Named
         /\ Registered \subseteq Started /\ Registered' \subseteq Started'
         /\ Returned \subseteq Registered
<1>1. /\ Unregistered = Started \ Registered
      /\ Adding({"push", "store", "publish"}) = Registered \ Returned
  BY OnTheWay DEF UInv
<1>2. /\ Unregistered' = Started' \ Registered'
      /\ Adding({"push", "store", "publish"})' = Registered' \ Returned'
  BY OnTheWayNext
<1>3. /\ Registered \subseteq Started /\ Registered' \subseteq Started' /\ Returned \subseteq Registered
  BY DEF Registered, Past, Returned, Started
<1>4. Named = {<<e, idOf[e]>> : e \in Registered} /\ Named' = {<<e, idOf'[e]>> : e \in Registered'}
  BY <1>1, <1>2, <1>3 DEF Named, Started
<1>5. \A e \in Registered : idOf'[e] = idOf[e]
  BY RegisteredKeep DEF UInv
<1>6. QED
  BY <1>1, <1>2, <1>3, <1>4, <1>5 DEF Coming

\* A step that the store does not tell from no step
Hidden ==
  /\ UNCHANGED <<typeOf, removeQueue>> /\ Unregistered' = Unregistered /\ Coming' = Coming
  /\ Stored' = Stored /\ Named' = Named /\ Owner' = Owner /\ KnownTypes' = KnownTypes
  /\ (phase # "run")' = (phase # "run") /\ Leaving' = Leaving

LEMMA HiddenStutters ==
  ASSUME Hidden
  PROVE  UNCHANGED Store!vars
BY DEF Hidden, Store!vars, Store!members, Coming, Named, Owner, KnownTypes, Leaving

\* What does not change unless an entity is registered or its removal begins,
\* a removal is queued, or process_queues moves on
LEMMA Frames ==
  ASSUME Step
  PROVE  /\ ~PopRemoval /\ ~(\E t \in Threads : InsertEntity(t)) => Owner' = Owner
         /\ ~PopRemoval /\ ~UseComponents => removeQueue' = removeQueue
         /\ ~PopRemoval /\ ~RemoveComponent => Leaving' = Leaving
         /\ ~MergeNewVecs => KnownTypes' = KnownTypes
         /\ ~StartProcessing /\ ~EndProcessing => (phase # "run")' = (phase # "run")
         /\ ~(\E t \in Threads, c \in Types : Begin(t, c)) => typeOf' = typeOf
BY DEF Step, AddStep, Begin, LookUpNew, TakeId, InsertEntity, Push, StoreAddress,
   PublishVec, UseComponents, QueueModifier, QueueMultiModifier, QueueRemove, StartProcessing,
   ProcessQueues, RunMultiModifiers, RunModifiers, MergeNewVecs, PopRemoval, RemoveComponent,
   RecycleList, EndProcessing, structure, entities, queues, processing, Owner, Leaving, KnownTypes

\* Steps that leave vectors and boxes alone leave the store alone
LEMMA QuietStored ==
  ASSUME UNCHANGED structure
  PROVE  Stored' = Stored
BY DEF structure, Stored, Contents

LEMMA BeginMaps ==
  ASSUME UInv, PInv', NEW t \in Threads, NEW c \in Types, Begin(t, c)
  PROVE  Store!Add(c)
<1> USE DEF UInv, PInv
<1>1. Step
  BY DEF Step
<1>2. /\ phase = "run" /\ phase' = "run" /\ typeOf' = Append(typeOf, c)
      /\ removeQueue' = removeQueue /\ Owner' = Owner /\ Leaving' = Leaving
      /\ KnownTypes' = KnownTypes /\ Stored' = Stored /\ pc'[t] \in {"id", "read"}
  BY QuietStored DEF Begin, Goto, TypeOK, queues, processing, structure, Owner, Leaving, KnownTypes
<1>3. /\ Registered' = Registered /\ Returned' = Returned
      /\ Started' = Started \cup {Len(typeOf) + 1} /\ Len(typeOf) + 1 \notin Started
  BY <1>2, PastBegins DEF Registered
<1>4. /\ Unregistered' = Unregistered \cup {Len(typeOf) + 1}
      /\ Coming' = Coming /\ Named' = Named
  BY <1>1, <1>2, <1>3, Members
<1>5. QED
  BY <1>2, <1>4 DEF Store!Add, Coming, Named, Owner, KnownTypes, Leaving

LEMMA HiddenAdd ==
  ASSUME UInv, PInv', NEW t \in Threads, LookUpNew(t) \/ TakeId(t)
  PROVE  Hidden
<1> USE DEF UInv, PInv
<1>1. Step
  BY DEF Step, AddStep
<1>2. /\ UNCHANGED <<structure, typeOf, removeQueue, phase>>
      /\ Owner' = Owner /\ Leaving' = Leaving /\ KnownTypes' = KnownTypes
  BY DEF LookUpNew, TakeId, entities, queues, processing, structure, Owner, Leaving, KnownTypes
<1>3. Returned' = Returned
  BY MiddlePast DEF Middle
<1>4. Registered' = Registered
  <2>1. pc[t] \in {"read", "id"} /\ pc'[t] \in {"id", "insert"}
    BY DEF LookUpNew, TakeId, Goto, TypeOK
  <2>2. adding[t] \notin Registered
    BY <2>1 DEF Registered, Past
  <2>3. QED
    BY <2>1, <2>2, MiddlePast DEF Middle, Registered
<1>5. Started' = Started /\ Stored' = Stored
  BY <1>2, QuietStored DEF Started
<1>6. QED
  BY <1>1, <1>2, <1>3, <1>4, <1>5, Members DEF Hidden

LEMMA InsertMaps ==
  ASSUME UInv, PInv', NEW t \in Threads, InsertEntity(t)
  PROVE  \E e \in Unregistered, id \in Ids : Store!Register(e, id)
<1> USE DEF UInv, PInv
<1>0. PICK e, id : e = adding[t] /\ id = idOf[e]
  OBVIOUS
<1>1. Step
  BY DEF Step, AddStep
<1>2. /\ UNCHANGED <<structure, typeOf, removeQueue, phase, idOf>>
      /\ Leaving' = Leaving /\ KnownTypes' = KnownTypes
      /\ pc[t] = "insert" /\ pc'[t] = "push"
      /\ entityMap' = [entityMap EXCEPT ![id] = [present |-> TRUE, data |-> list[t]]]
  BY <1>0 DEF InsertEntity, Goto, TypeOK, queues, processing, structure, Leaving, KnownTypes
<1>3. e \in Started /\ e \notin Registered /\ e \notin Returned
  BY <1>0, <1>2 DEF AddersInv, Registered, Returned, Past
<1>4. id \in Ids
  <2>1. e \in Past({"insert", "push", "store", "publish"})
    BY <1>0, <1>2, <1>3 DEF Past, AddersInv
  <2>2. QED
    BY <1>0, <2>1 DEF IdsInv
<1>5. Registered' = Registered \cup {e} /\ Returned' = Returned
  BY <1>0, <1>2, MiddlePast DEF Middle, Registered
<1>6. Started' = Started /\ Stored' = Stored
  BY <1>2, QuietStored DEF Started
<1>7. e \notin Stored
  <2>1. e \notin Pushed
    BY <1>0, <1>2 DEF Pushed, Past
  <2>2. QED
    BY <2>1, StoredIs DEF PlacesInv
<1>8. /\ Unregistered' = Unregistered \ {e} /\ e \in Unregistered
      /\ Coming' = Coming \cup {e} /\ Named' = Named \cup {<<e, id>>}
  BY <1>0, <1>1, <1>2, <1>3, <1>5, <1>6, <1>7, Members
<1>9. Owner' = [Owner EXCEPT ![id] = e]
  <2>1. list[t] = DataOf(e, pushTo[t])
    BY <1>0, <1>2 DEF MapInv
  <2>2. entityMap'[id].present /\ entityMap'[id].data[1].box = e
    BY <1>2, <1>4, <2>1 DEF DataOf, TypeOK
  <2>3. \A i \in Ids : i # id => entityMap'[i] = entityMap[i]
    BY <1>2 DEF TypeOK
  <2>4. QED
    BY <1>4, <2>2, <2>3 DEF Owner
<1>10. Store!Register(e, id)
  BY <1>2, <1>6, <1>8, <1>9 DEF Store!Register, Coming, Named, Owner, KnownTypes, Leaving
<1>11. QED
  BY <1>4, <1>8, <1>10

\* A push to a vector that has been published: the entity joins the store.  A
\* push to a vector of the thread's own is not seen
LEMMA PushMaps ==
  ASSUME UInv, PInv', NEW t \in Threads, Push(t)
  PROVE  Hidden \/ \E e \in Coming : Store!Join(e)
<1> USE DEF UInv, PInv
<1>0. PICK e, p : e = adding[t] /\ p = pushTo[t]
  OBVIOUS
<1>1. Step
  BY DEF Step, AddStep
<1>2. /\ UNCHANGED <<typeOf, removeQueue, phase>> /\ Owner' = Owner
      /\ Leaving' = Leaving /\ KnownTypes' = KnownTypes
  BY DEF Push, entities, queues, processing, Owner, Leaving, KnownTypes
<1>3. /\ \A x, v, k : Spot(x, v, k)' <=>
           Spot(x, v, k) \/ (x = e /\ v = p /\ k = Len(vecs[p]) + 1)
      /\ \A v, k : ~Spot(e, v, k)
      /\ pc[t] = "push" /\ pc'[t] = "store" /\ UNCHANGED <<components, newVecs>>
  BY ZenonT(60), <1>0, PushSpots
<1>4. \A v : Published(v)' <=> Published(v)
  BY <1>2, <1>3 DEF Published, Started
<1>5. e \in Started /\ e \in Registered /\ e \notin Returned
  BY <1>0, <1>3 DEF AddersInv, Registered, Returned, Past
<1>6. Registered' = Registered /\ Returned' = Returned /\ Started' = Started
  <2>1. Registered' = Registered \cup {e} /\ Returned' = Returned
    BY <1>0, <1>3, MiddlePast DEF Middle, Registered
  <2>2. QED
    BY <1>2, <1>5, <2>1 DEF Started
<1>7. e \notin Stored
  BY <1>3, StoredIs
<1>8. Stored' = IF Published(p) THEN Stored \cup {e} ELSE Stored
  <2>1. ASSUME NEW x
        PROVE  x \in Stored' <=> x \in Stored \/ (x = e /\ Published(p))
    <3>1. x \in Stored' <=> \E v, k : Spot(x, v, k)' /\ Published(v)
      BY <1>4, StoredNext
    <3>2. x \in Stored <=> \E v, k : Spot(x, v, k) /\ Published(v)
      BY StoredIs
    <3>3. QED
      BY <1>3, <3>1, <3>2
  <2>2. QED
    BY <2>1
<1>9. CASE Published(p)
  <2>1. /\ Unregistered' = Unregistered /\ Named' = Named
        /\ e \in Coming /\ Coming' = Coming \ {e} /\ Stored' = Stored \cup {e}
    BY <1>1, <1>5, <1>6, <1>7, <1>8, <1>9, Members
  <2>2. Store!Join(e)
    BY <1>2, <2>1 DEF Store!Join, Coming, Named, Owner, KnownTypes, Leaving
  <2>3. QED
    BY <2>1, <2>2
<1>10. CASE ~Published(p)
  BY <1>1, <1>2, <1>6, <1>8, <1>10, Members DEF Hidden
<1>11. QED
  BY <1>9, <1>10

LEMMA StoreAddressHidden ==
  ASSUME UInv, PInv', NEW t \in Threads, StoreAddress(t)
  PROVE  Hidden
<1> USE DEF UInv, PInv
<1> DEFINE e == adding[t]
<1>1. Step
  BY DEF Step, AddStep
<1>2. /\ UNCHANGED <<typeOf, removeQueue, phase>> /\ Owner' = Owner
      /\ Leaving' = Leaving /\ KnownTypes' = KnownTypes /\ Stored' = Stored
  BY DEF StoreAddress, entities, queues, processing, Owner, Leaving, KnownTypes, Stored, Contents
<1>3. pc[t] = "store" /\ e \in Started /\ e \in Registered
  BY StoreIs DEF AddersInv, Registered, Past
<1>4. Registered' = Registered /\ Started' = Started
  <2>1. CASE pushTo[t] = e
    <3>1. Middle(t) /\ pc'[t] = "publish"
      BY <2>1, StoreIs DEF Middle
    <3>2. Registered' = Registered \cup {e}
      BY <3>1, MiddlePast DEF Registered
    <3>3. QED
      BY <1>2, <1>3, <3>2 DEF Started
  <2>2. CASE pushTo[t] # e
    <3>1. Last(t)
      BY <2>2 DEF Last
    <3>2. Registered' = Registered \cup {e}
      BY <3>1, LastIs, PastReturns DEF Registered
    <3>3. QED
      BY <1>2, <1>3, <3>2 DEF Started
  <2>3. QED
    BY <2>1, <2>2
<1>5. Returned' \ Stored = Returned \ Stored
  <2>1. CASE pushTo[t] = e
    <3>1. Middle(t)
      BY <2>1 DEF Middle
    <3>2. QED
      BY <3>1, MiddlePast
  <2>2. CASE pushTo[t] # e
    <3>1. PICK k : Spot(e, pushTo[t], k)
      BY <1>3 DEF PlacesInv
    <3>2. e \in Stored
      BY <1>3, <2>2, <3>1, TargetIs, StoredIs
    <3>3. Returned \subseteq Returned' /\ Returned' \subseteq Returned \cup {e}
      BY StoreIs
    <3>4. QED
      BY <3>2, <3>3
  <2>3. QED
    BY <2>1, <2>2
<1>6. Unregistered' = Unregistered /\ Named' = Named /\ Coming' = Coming
  BY <1>1, <1>2, <1>4, <1>5, Members
<1>7. QED
  BY <1>2, <1>6 DEF Hidden

\* The vector of a new type joins the others, with the entity it was made for
LEMMA PublishMaps ==
  ASSUME UInv, PInv', NEW t \in Threads, PublishVec(t)
  PROVE  \E e \in Coming : Store!Join(e)
<1> USE DEF UInv, PInv
<1>0. PICK e, c : e = adding[t] /\ c = TypeFor(t)
  OBVIOUS
<1>1. Step
  BY DEF Step, AddStep
<1>2. /\ UNCHANGED <<typeOf, removeQueue, phase>> /\ Owner' = Owner
      /\ Leaving' = Leaving /\ KnownTypes' = KnownTypes
  BY DEF PublishVec, entities, queues, processing, Owner, Leaving, KnownTypes
<1>3. /\ UNCHANGED <<components, vecs>> /\ HasOwn(t) /\ pc[t] = "publish" /\ c \in Types
      /\ e \in Started /\ typeOf[e] = c
      /\ newVecs'[c] = e /\ \A d \in Types : d # c => newVecs'[d] = newVecs[d]
      /\ freedVecs' = freedVecs \cup ({newVecs[c]} \ {NoVec})
      /\ Returned' = Returned \cup {e}
  BY <1>0, PublishIs
<1>4. newVecs[c] = NoVec /\ freedVecs' = {} /\ freedVecs = {}
  <2>1. Makes(t)
    BY <1>3 DEF HasOwn, Makes
  <2>2. QED
    BY <1>0, <1>3, <2>1 DEF RaceInv
<1>5. e \in Registered /\ e \notin Returned
  BY <1>0, <1>3, TargetIs DEF AddersInv, Registered, Past
<1>6. Registered' = Registered /\ Started' = Started
  <2>1. Registered' = Registered \cup {e}
    BY <1>0, <1>3, LastIs, PastReturns DEF Last, Registered
  <2>2. QED
    BY <1>2, <1>5, <2>1 DEF Started
<1>7. vecs[e] = <<e>> /\ e \in Entities /\ e # NoVec
  <2>1. vecs[e] = <<e>> /\ e \in Entities
    BY <1>0, <1>3, TargetIs DEF VecsInv
  <2>2. QED
    BY <2>1 DEF Entities, NoVec
<1>8. Spot(e, e, 1) /\ \A x, k : Spot(x, e, k) => x = e
  BY <1>4, <1>7 DEF Spot
<1>9. \A x, v, k : Spot(x, v, k)' <=> Spot(x, v, k)
  BY <1>3, <1>4 DEF Spot
<1>10. ~Published(e) /\ \A v : v # NoVec => (Published(v)' <=> Published(v) \/ v = e)
  <2>1. ~Published(e)
    BY <1>0, <1>3, OwnUnpublished DEF Published
  <2>2. Published(e)'
    BY <1>2, <1>3 DEF Published, Started
  <2>3. ASSUME NEW v, v # e, v # NoVec
        PROVE  Published(v)' <=> Published(v)
    BY SMTT(30), <1>2, <1>3, <1>4, <2>3 DEF Published, Started, TypeOK
  <2>4. QED
    BY <1>7, <2>1, <2>2, <2>3
<1>11. \A x, v, k : Spot(x, v, k) => v # NoVec
  BY DEF Spot, Entities, NoVec
<1>12. Stored' = Stored \cup {e} /\ e \notin Stored
  <2>1. ASSUME NEW x
        PROVE  x \in Stored' <=> x \in Stored \/ x = e
    BY <1>8, <1>9, <1>10, <1>11, StoredIs, StoredNext
  <2>2. e \notin Stored
    BY <1>8, <1>10, StoredIs DEF PlacesInv
  <2>3. QED
    BY <2>1, <2>2
<1>13. /\ Unregistered' = Unregistered /\ Named' = Named
       /\ e \in Coming /\ Coming' = Coming \ {e}
  BY <1>1, <1>3, <1>5, <1>6, <1>12, Members
<1>14. Store!Join(e)
  BY <1>2, <1>12, <1>13 DEF Store!Join, Coming, Named, Owner, KnownTypes, Leaving
<1>15. QED
  BY <1>13, <1>14

LEMMA UseMaps ==
  ASSUME UInv, PInv', UseComponents
  PROVE  Hidden \/ \E id \in Ids : Store!QueueRemove(id)
<1> USE DEF UInv, PInv
<1>1. Step
  BY DEF Step
<1>2. /\ UNCHANGED <<structure, entities, adders, processing>> /\ phase = "run"
      /\ removeQueue' = removeQueue \/ \E e \in Returned \cup {q.of : q \in Visible} : QueueRemove(e)
  BY DEF UseComponents, QueueModifier, QueueMultiModifier, QueueRemove
<1>3. /\ UNCHANGED <<typeOf, phase>> /\ Owner' = Owner
      /\ Leaving' = Leaving /\ KnownTypes' = KnownTypes /\ Stored' = Stored
      /\ Unregistered' = Unregistered /\ Coming' = Coming /\ Named' = Named
  BY <1>2, QuietStored DEF structure, entities, adders, processing, Owner, Leaving, KnownTypes,
     Unregistered, Coming, Adding, Named
<1>4. CASE removeQueue' = removeQueue
  BY <1>3, <1>4 DEF Hidden
<1>5. ASSUME NEW e \in Returned \cup {q.of : q \in Visible}, QueueRemove(e)
      PROVE  \E id \in Ids : Store!QueueRemove(id)
  <2>1. e \in Past({"insert", "push", "store", "publish"})
    <3>1. CASE e \in Returned
      BY <3>1 DEF Returned, Past, Started
    <3>2. CASE \E q \in Visible : e = q.of
      BY <3>2, VisibleSpots DEF PlacesInv, Pushed, Past
    <3>3. QED
      BY <3>1, <3>2
  <2>2. PICK id \in Ids : id = idOf[e]
    BY <2>1 DEF IdsInv
  <2>3. removeQueue' = Append(removeQueue, id)
    BY <1>5, <2>2 DEF QueueRemove
  <2>4. Store!QueueRemove(id)
    BY <1>2, <1>3, <2>3 DEF Store!QueueRemove, Store!members, Coming, Named, Owner, KnownTypes, Leaving
  <2>5. QED
    BY <2>4
<1>6. QED
  BY <1>2, <1>4, <1>5

\* While process_queues runs nothing is on its way
LEMMA ProcessMembers ==
  ASSUME UInv, PInv', \A t \in Threads : pc[t] = "idle",
         StartProcessing \/ ProcessQueues
  PROVE  /\ Unregistered = {} /\ Unregistered' = {} /\ Coming = {} /\ Coming' = {}
         /\ Named' = Named /\ UNCHANGED <<typeOf, idOf>>
         /\ Returned = Started /\ Boxed = Started
<1>1. UNCHANGED <<adders, idOf, typeOf>>
  BY RestIs
<1>2. Unregistered = {} /\ Unregistered' = {} /\ Coming = {} /\ Coming' = {}
  BY <1>1 DEF adders, Unregistered, Coming, Adding
<1>3. Named' = Named
  BY <1>1, <1>2 DEF Named
<1>4. \A t \in Threads : adding[t] = 0
  BY DEF UInv, PInv, AddersInv, NoEntity
<1>5. Returned = Started /\ Boxed = Started
  BY <1>4 DEF Returned, Boxed, Past, Started
<1>6. QED
  BY <1>1, <1>2, <1>3, <1>5

LEMMA StartMaps ==
  ASSUME UInv, PInv', StartProcessing
  PROVE  Store!Process
<1>1. \A t \in Threads : pc[t] = "idle"
  BY DEF StartProcessing
<1>2. /\ Unregistered = {} /\ Unregistered' = {} /\ Coming = {} /\ Coming' = {}
      /\ Named' = Named
  BY <1>1, ProcessMembers
<1>3. /\ phase = "run" /\ phase' = "multi" /\ UNCHANGED <<typeOf, removeQueue>>
      /\ Owner' = Owner /\ Leaving' = Leaving /\ KnownTypes' = KnownTypes /\ Stored' = Stored
  BY QuietStored DEF StartProcessing, structure, entities, queues, Owner, Leaving, KnownTypes
<1>4. QED
  BY <1>2, <1>3 DEF Store!Process, Store!members, Coming, Named, Owner, KnownTypes, Leaving

LEMMA HiddenProcess ==
  ASSUME UInv, PInv', RunMultiModifiers \/ RunModifiers \/ RecycleList
  PROVE  Hidden
<1>1. \A t \in Threads : pc[t] = "idle"
  BY DEF RunMultiModifiers, RunModifiers, RecycleList, UInv, PInv, AddersInv
<1>2. /\ Unregistered = {} /\ Unregistered' = {} /\ Coming = {} /\ Coming' = {}
      /\ Named' = Named
  BY <1>1, ProcessMembers DEF ProcessQueues
<1>3. /\ phase # "run" /\ phase' # "run" /\ UNCHANGED <<typeOf, removeQueue>>
      /\ Owner' = Owner /\ Leaving' = Leaving /\ KnownTypes' = KnownTypes /\ Stored' = Stored
  BY QuietStored DEF RunMultiModifiers, RunModifiers, RecycleList, structure, entities, queues,
     Owner, Leaving, KnownTypes
<1>4. QED
  BY <1>2, <1>3 DEF Hidden

\* The vector of the type of a stored entity has been published
LEMMA StoredTyped ==
  ASSUME PInv, NEW e \in Stored
  PROVE  /\ typeOf[e] \in Types
         /\ \E v \in {components[typeOf[e]], newVecs[typeOf[e]]} : v # NoVec
<1>1. PICK v, k : Spot(e, v, k) /\ Published(v)
  BY StoredIs
<1>2. typeOf[e] = typeOf[v]
  BY <1>1 DEF PInv, PlacesInv
<1>3. v # NoVec
  BY <1>1 DEF Spot, Entities, NoVec
<1>4. typeOf[v] \in Types /\ v \in {components[typeOf[v]], newVecs[typeOf[v]]}
  BY <1>1 DEF Published, Started, PInv, TypeOK
<1>5. QED
  BY <1>2, <1>3, <1>4

\* The merge makes known the types whose vectors it moves, and those hold
\* entities
LEMMA MergeMaps ==
  ASSUME UInv, PInv', MergeNewVecs
  PROVE  Store!Reveal
<1> USE DEF UInv, PInv
<1>1. /\ UNCHANGED <<vecs, freedVecs, typeOf>> /\ phase = "merge"
      /\ \A c \in Types : newVecs'[c] = NoVec /\ {components'[c], NoVec} = {components[c], newVecs[c], NoVec}
  BY MergeIs
<1>2. \A t \in Threads : pc[t] = "idle"
  BY <1>1 DEF AddersInv
<1>3. /\ Unregistered = {} /\ Unregistered' = {} /\ Coming = {} /\ Coming' = {}
      /\ Named' = Named
  BY <1>2, ProcessMembers DEF ProcessQueues
<1>4. /\ phase' = "remove" /\ UNCHANGED removeQueue /\ Owner' = Owner /\ Leaving' = Leaving
  BY DEF MergeNewVecs, entities, queues, Owner, Leaving
<1>5. Stored' = Stored
  <2>1. \A x, v, k : Spot(x, v, k)' <=> Spot(x, v, k)
    BY <1>1 DEF Spot
  <2>2. ASSUME NEW v, v # NoVec
        PROVE  Published(v)' <=> Published(v)
    <3>1. Started' = Started /\ (v \in Started => typeOf[v] \in Types)
      BY <1>1 DEF Started, TypeOK
    <3>2. \A c \in Types : v \in {components'[c], newVecs'[c]} <=> v \in {components[c], newVecs[c]}
      BY <1>1, <2>2
    <3>3. QED
      BY <1>1, <3>1, <3>2 DEF Published
  <2>3. \A x, v, k : Spot(x, v, k) => v # NoVec
    BY DEF Spot, Entities, NoVec
  <2>4. ASSUME NEW x
        PROVE  x \in Stored' <=> x \in Stored
    BY <2>1, <2>2, <2>3, StoredIs, StoredNext
  <2>5. QED
    BY <2>4
<1>6. KnownTypes' = KnownTypes \cup {typeOf[e] : e \in Stored}
  <2>1. ASSUME NEW e \in Stored
        PROVE  typeOf[e] \in KnownTypes'
    BY <1>1, StoredTyped DEF KnownTypes
  <2>2. ASSUME NEW c \in KnownTypes', c \notin KnownTypes
        PROVE  \E e \in Stored : c = typeOf[e]
    <3>1. c \in Types /\ newVecs[c] # NoVec
      BY <1>1, <2>2 DEF KnownTypes
    <3>2. newVecs[c] \in Returned \ freedVecs /\ typeOf[newVecs[c]] = c /\ vecs[newVecs[c]] # << >>
      BY <3>1 DEF VecsInv
    <3>3. newVecs[c] \in Entities \ freedVecs /\ Published(newVecs[c])
      BY <3>1, <3>2 DEF TypeOK, Published, Returned, Started
    <3>4. vecs[newVecs[c]] \in Seq(Entities) /\ 1 \in 1 .. Len(vecs[newVecs[c]])
      <4>1. vecs[newVecs[c]] \in Seq(Entities)
        BY <3>3 DEF TypeOK
      <4>2. QED
        BY <3>2, <4>1
    <3>5. Spot(vecs[newVecs[c]][1], newVecs[c], 1)
      BY <3>3, <3>4 DEF Spot
    <3>6. vecs[newVecs[c]][1] \in Stored /\ typeOf[vecs[newVecs[c]][1]] = c
      BY <3>2, <3>3, <3>5, StoredIs DEF PlacesInv
    <3>7. QED
      BY <3>6
  <2>3. KnownTypes \subseteq KnownTypes'
    BY <1>1 DEF KnownTypes
  <2>4. QED
    BY <2>1, <2>2, <2>3
<1>7. QED
  BY <1>1, <1>3, <1>4, <1>5, <1>6
  DEF Store!Reveal, Store!members, Coming, Named, Owner, KnownTypes, Leaving

\* What the removal is going to take out is the entity the id stands for
LEMMA PopMaps ==
  ASSUME UInv, PInv', PopRemoval
  PROVE  Store!TakeRemoval
<1> USE DEF UInv, PInv
<1>0. PICK id : id = Head(removeQueue)
  OBVIOUS
<1>1. /\ phase = "remove" /\ phase' # "run" /\ removeQueue # << >> /\ removeQueue' = Tail(removeQueue)
      /\ draining' = entityMap[id].data
      /\ entityMap' = [entityMap EXCEPT ![id] = NoEntry]
      /\ UNCHANGED <<structure, typeOf>>
  BY <1>0 DEF PopRemoval
<1>2. id \in Ids
  BY <1>0, <1>1 DEF TypeOK
<1>3. \A t \in Threads : pc[t] = "idle"
  BY <1>1 DEF AddersInv
<1>4. /\ Unregistered = {} /\ Unregistered' = {} /\ Coming = {} /\ Coming' = {}
      /\ Named' = Named
  BY <1>3, ProcessMembers DEF ProcessQueues
<1>5. Leaving = NoEntity
  BY <1>1 DEF Leaving, MapInv
<1>6. Leaving' = Owner[id]
  <2>1. CASE entityMap[id].present
    <3>1. \E e, v : entityMap[id].data = DataOf(e, v)
      BY <1>2, <2>1 DEF MapInv
    <3>2. entityMap[id].data # << >> /\ Head(entityMap[id].data) = entityMap[id].data[1]
      BY <3>1 DEF DataOf
    <3>3. QED
      BY <1>1, <1>2, <2>1, <3>2 DEF Leaving, Owner
  <2>2. CASE ~entityMap[id].present
    <3>1. entityMap[id].data = << >>
      BY <1>2, <2>2 DEF MapInv, NoEntry, NoList
    <3>2. QED
      BY <1>1, <1>2, <2>2, <3>1 DEF Leaving, Owner
  <2>3. QED
    BY <2>1, <2>2
<1>7. Owner' = [Owner EXCEPT ![id] = NoEntity]
  <2>1. ~entityMap'[id].present /\ \A i \in Ids : i # id => entityMap'[i] = entityMap[i]
    BY <1>1, <1>2 DEF NoEntry, TypeOK
  <2>2. QED
    BY <1>2, <2>1 DEF Owner
<1>8. KnownTypes' = KnownTypes /\ Stored' = Stored
  BY <1>1, QuietStored DEF structure, KnownTypes
<1>9. QED
  BY <1>0, <1>1, <1>4, <1>5, <1>6, <1>7, <1>8
  DEF Store!TakeRemoval, Coming, Named, Owner, KnownTypes, Leaving

\* That entity, and no other, leaves the store
LEMMA RemoveMaps ==
  ASSUME UInv, PInv', RemoveComponent
  PROVE  Store!Leave
<1> USE DEF UInv, PInv
<1>1. PICK e, v, k :
        /\ e \in Returned \ dropped
        /\ Removes(v, k) /\ vecs[v][k] = e /\ draining = DataOf(e, v)
  BY RemovesAsked
<1>2. /\ UNCHANGED <<components, newVecs, typeOf>> /\ phase = "drain" /\ phase' = "drain"
      /\ UNCHANGED <<removeQueue, entityMap>>
  BY <1>1 DEF Removes, RemoveComponent, entities, queues
<1>3. \A t \in Threads : pc[t] = "idle"
  BY <1>2 DEF AddersInv
<1>4. /\ Unregistered = {} /\ Unregistered' = {} /\ Coming = {} /\ Coming' = {}
      /\ Named' = Named
  BY <1>3, ProcessMembers DEF ProcessQueues
<1>5. Leaving = e /\ Leaving' = NoEntity
  BY <1>1, RemovesAsked DEF Leaving, DataOf
<1>6. Owner' = Owner /\ KnownTypes' = KnownTypes
  BY <1>2 DEF Owner, KnownTypes
<1>7. \A w : Published(w)' <=> Published(w)
  BY <1>2 DEF Published, Started
<1>8. PICK n \in Nat : n = Len(vecs[v])
  BY <1>1 DEF Removes
<1>9. /\ \A x, w, j : Spot(x, w, j)' <=>
           IF w = v THEN j \in 1 .. n - 1 /\ Spot(x, v, IF j = k THEN n ELSE j)
           ELSE Spot(x, w, j)
      /\ Spot(e, v, k) /\ k \in 1 .. n
  BY <1>1, <1>8, RemoveSpots DEF Removes
<1>10. e \in Stored
  <2>1. vecs[v] # << >> /\ v \in Entities \ freedVecs
    BY <1>9 DEF Spot, Removes
  <2>2. Published(v)
    BY <1>3, <2>1 DEF VecsInv, HasOwn
  <2>3. QED
    BY <1>9, <2>2, StoredIs
<1>11. ASSUME NEW x
       PROVE  x \in Stored' <=> x \in Stored /\ x # e
  <2>1. ASSUME NEW w, NEW j, Spot(x, w, j)'
        PROVE  x # e /\ \E i : Spot(x, w, i)
    <3>1. PICK i : Spot(x, w, i) /\ (w = v => i # k)
      BY <1>9, <2>1
    <3>2. QED
      BY <1>9, <3>1 DEF PlacesInv
  <2>2. ASSUME NEW w, NEW j, Spot(x, w, j), x # e
        PROVE  \E i : Spot(x, w, i)'
    <3>1. CASE w # v
      BY <1>9, <2>2, <3>1
    <3>2. CASE w = v
      <4>1. j \in 1 .. n /\ j # k
        BY <1>1, <1>8, <2>2, <3>2 DEF Spot
      <4>2. CASE j = n
        <5>1. k \in 1 .. n - 1 /\ Spot(x, v, n)
          BY <1>9, <2>2, <3>2, <4>1, <4>2
        <5>2. Spot(x, v, k)'
          BY <1>9, <5>1
        <5>3. QED
          BY <3>2, <5>2
      <4>3. CASE j # n
        <5>1. j \in 1 .. n - 1 /\ Spot(x, v, j)
          BY <2>2, <3>2, <4>1, <4>3
        <5>2. Spot(x, v, j)'
          BY <1>9, <4>1, <5>1
        <5>3. QED
          BY <3>2, <5>2
      <4>4. QED
        BY <4>2, <4>3
    <3>3. QED
      BY <3>1, <3>2
  <2>3. QED
    BY <1>7, <2>1, <2>2, StoredIs, StoredNext
<1>12. Stored' = Stored \ {e}
  BY <1>11
<1>13. QED
  BY <1>2, <1>4, <1>5, <1>6, <1>10, <1>12
  DEF Store!Leave, Coming, Named, Owner, KnownTypes, Leaving

LEMMA EndMaps ==
  ASSUME UInv, PInv', EndProcessing
  PROVE  Store!Return
<1> USE DEF UInv, PInv
<1>1. /\ phase = "remove" /\ phase' = "run" /\ removeQueue = << >>
      /\ UNCHANGED <<typeOf, removeQueue>>
      /\ Owner' = Owner /\ Leaving' = Leaving /\ KnownTypes' = KnownTypes /\ Stored' = Stored
  BY QuietStored DEF EndProcessing, structure, entities, queues, Owner, Leaving, KnownTypes
<1>2. \A t \in Threads : pc[t] = "idle"
  BY <1>1 DEF AddersInv
<1>3. /\ Unregistered = {} /\ Unregistered' = {} /\ Coming = {} /\ Coming' = {}
      /\ Named' = Named
  BY <1>2, ProcessMembers DEF ProcessQueues
<1>4. Leaving = NoEntity
  BY <1>1 DEF Leaving, MapInv
<1>5. ASSUME NEW e \in Stored
      PROVE  typeOf[e] \in KnownTypes
  <2>1. newVecs[typeOf[e]] = NoVec
    BY <1>1, StoredTyped DEF VecsInv
  <2>2. QED
    BY <2>1, StoredTyped DEF KnownTypes
<1>6. QED
  BY <1>1, <1>3, <1>4, <1>5
  DEF Store!Return, Store!members, Coming, Named, Owner, KnownTypes, Leaving

LEMMA StepMaps ==
  ASSUME UInv, PInv', Step
  PROVE  [Store!Next]_(Store!vars)
<1>1. ASSUME NEW t \in Threads, NEW c \in Types, Begin(t, c)
      PROVE  Store!Next
  BY <1>1, BeginMaps DEF Store!Next
<1>2. ASSUME NEW t \in Threads, AddStep(t)
      PROVE  [Store!Next]_(Store!vars)
  <2>1. CASE LookUpNew(t) \/ TakeId(t)
    BY <2>1, HiddenAdd, HiddenStutters
  <2>2. CASE InsertEntity(t)
    BY <2>2, InsertMaps DEF Store!Next
  <2>3. CASE Push(t)
    BY <2>3, PushMaps, HiddenStutters DEF Store!Next, Coming
  <2>4. CASE StoreAddress(t)
    BY <2>4, StoreAddressHidden, HiddenStutters
  <2>5. CASE PublishVec(t)
    BY <2>5, PublishMaps DEF Store!Next, Coming
  <2>6. QED
    BY <1>2, <2>1, <2>2, <2>3, <2>4, <2>5 DEF AddStep
<1>3. CASE UseComponents
  BY <1>3, UseMaps, HiddenStutters DEF Store!Next
<1>4. CASE StartProcessing
  BY <1>4, StartMaps DEF Store!Next
<1>5. CASE RunMultiModifiers \/ RunModifiers \/ RecycleList
  BY <1>5, HiddenProcess, HiddenStutters
<1>6. CASE MergeNewVecs
  BY <1>6, MergeMaps DEF Store!Next
<1>7. CASE PopRemoval
  BY <1>7, PopMaps DEF Store!Next
<1>8. CASE RemoveComponent
  BY <1>8, RemoveMaps DEF Store!Next
<1>9. CASE EndProcessing
  BY <1>9, EndMaps DEF Store!Next
<1>10. QED
  BY <1>1, <1>2, <1>3, <1>4, <1>5, <1>6, <1>7, <1>8, <1>9 DEF Step, ProcessQueues

LEMMA InitMaps == Init => Store!Init
<1> SUFFICES ASSUME Init
             PROVE  Store!Init
  OBVIOUS
<1>1. Unregistered = {} /\ Coming = {}
  BY DEF Init, Unregistered, Coming, Adding
<1>2. Named = {}
  BY DEF Init, Named
<1>3. Stored = {}
  BY DEF Init, Stored, Contents, NoVec
<1>4. Owner = [id \in Ids |-> NoEntity] /\ KnownTypes = {} /\ Leaving = NoEntity
  BY DEF Init, Owner, KnownTypes, Leaving, NoEntry, NoList
<1>5. QED
  BY <1>1, <1>2, <1>3, <1>4 DEF Init, Store!Init, Coming, Named, Owner, KnownTypes, Leaving

\* To its callers the Universe is a set of entities and the entity each id
\* stands for, whatever moves in the vectors
THEOREM UniverseIsStore ==
  ASSUME OneCreator
  PROVE  Spec => RefinesEntityStore
<1>1. UInv /\ PInv' /\ [Next]_vars => [Store!Next]_(Store!vars)
  <2>1. ASSUME UNCHANGED vars
        PROVE  UNCHANGED Store!vars
    <3>1. UNCHANGED <<components, newVecs, vecs, entityMap, idOf, typeOf, removeQueue, pc, adding,
                      phase, draining>>
      BY <2>1 DEF vars, structure, entities, queues, adders, processing
    <3>2. Hidden
      BY <3>1 DEF Hidden, Unregistered, Coming, Adding, Stored, Contents, Named, Owner, KnownTypes, Leaving
    <3>3. QED
      BY <3>2, HiddenStutters
  <2>2. QED
    BY <2>1, StepMaps DEF Next
<1>2. UInv => PInv
  BY DEF UInv
<1>3. QED
  BY <1>1, <1>2, InitMaps, Universal, PTL DEF Spec, RefinesEntityStore, Store!Spec
=============================================================================
