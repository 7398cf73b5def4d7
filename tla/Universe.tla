------------------------------ MODULE Universe ------------------------------
(***************************************************************************)
(* The Universe of jaya-ecs/src/universe.rs: the vectors of components, by *)
(* type, the map of entities with the data to remove them, and the queues  *)
(* of removals and modifiers.                                              *)
(*                                                                         *)
(* While systems run, threads add entities, queue modifiers of the         *)
(* components they iterate over and queue removals.  process_queues, which *)
(* needs the Universe for itself, applies the modifiers, then makes the    *)
(* vectors of new types visible, then removes.                             *)
(*                                                                         *)
(* The n-th call of add_entity makes entity n.  The number also names the  *)
(* box that holds the address of its component, and the AnyVec the call    *)
(* creates when it does not find one for its type.  An AnyVec is a         *)
(* sequence whose push and swap-removal take one step (AnyVec implements   *)
(* ConcurrentVec).                                                         *)
(***************************************************************************)
EXTENDS Integers, Sequences, FiniteSets

CONSTANTS
  Threads,      \* threads that call add_entity
  Types,        \* types of components
  Creators,     \* for each type, the threads that may add its first entity
  MaxEntities,  \* bound: calls of add_entity
  IdSpace,      \* how many values id_counter has (2^64)
  PoolSize,     \* how many lists empty_vecs holds (256)
  MaxRemovals,  \* bound: removals queued at once
  MaxModifiers  \* bound: modifiers of each kind queued at once

ASSUME CreatorsAssumption == Creators \in [Types -> SUBSET Threads]
ASSUME MaxEntitiesAssumption == MaxEntities \in Nat
ASSUME IdSpaceAssumption == IdSpace \in Nat \ {0}
ASSUME PoolSizeAssumption == PoolSize \in Nat \ {0}
ASSUME BoundsAssumption == MaxRemovals \in Nat /\ MaxModifiers \in Nat

VARIABLES
  components,   \* the vector of each type, as systems see it
  newVecs,      \* new_components_map: vectors of types seen since
  vecs,         \* the contents of each AnyVec
  freedVecs,    \* those that have been freed
  box,          \* the address kept in each entity's box (PackedComponent::ptr)
  dropped,      \* entities whose component, and box with it, has been dropped
  entityMap,    \* EntityMap::map
  emptyVecs,    \* EntityMap::empty_vecs
  idCounter,    \* EntityMap::id_counter
  idOf,         \* the id in each entity's PackedComponent
  typeOf,       \* the type of the component of each entity, in the order of the calls
  removeQueue,  \* remove_queue
  mods,         \* mod_queue
  multiMods,    \* multi_mod_queue
  pc,           \* where each thread is in add_entity
  adding,       \* the entity it adds
  pushTo,       \* the vector it adds to
  list,         \* the removal data it has put together
  readers,      \* threads that hold new_components_map's read lock
  phase,        \* where process_queues is; "run" when it is not running
  draining,     \* the removal data remove_entity goes through
  asked,        \* entities for whose id queue_remove_entity has been called
  faulted       \* freed memory has been used

structure == <<components, newVecs, vecs, freedVecs, box, dropped>>
entities == <<entityMap, emptyVecs, idCounter, idOf, typeOf>>
queues == <<removeQueue, mods, multiMods, asked>>
adders == <<pc, adding, pushTo, list, readers>>
processing == <<phase, draining>>
vars == <<structure, entities, queues, adders, processing, faulted>>

Entities == 1 .. MaxEntities
Ids == 0 .. IdSpace - 1
NoEntity == 0
NoVec == 0
NoAddr == [vec |-> NoVec, at |-> 0]
NoList == << >>
NoEntry == [present |-> FALSE, data |-> NoList]

Contents(v) == {vecs[v][k] : k \in 1 .. Len(vecs[v])}

\* Entities whose add_entity has returned
Returned == {e \in 1 .. Len(typeOf) : \A t \in Threads : adding[t] # e}

Init ==
  /\ components = [c \in Types |-> NoVec]
  /\ newVecs = [c \in Types |-> NoVec]
  /\ vecs = [v \in Entities |-> << >>]
  /\ freedVecs = {}
  /\ box = [e \in Entities |-> NoAddr]
  /\ dropped = {}
  /\ entityMap = [id \in Ids |-> NoEntry]
  /\ emptyVecs = << >>
  /\ idCounter = 0
  /\ idOf = [e \in Entities |-> -1]
  /\ typeOf = << >>
  /\ removeQueue = << >>
  /\ mods = {}
  /\ multiMods = {}
  /\ pc = [t \in Threads |-> "idle"]
  /\ adding = [t \in Threads |-> NoEntity]
  /\ pushTo = [t \in Threads |-> NoVec]
  /\ list = [t \in Threads |-> NoList]
  /\ readers = {}
  /\ phase = "run"
  /\ draining = NoList
  /\ asked = {}
  /\ faulted = FALSE

-----------------------------------------------------------------------------
(* add_entity((component,))                                                *)

Goto(t, from, to) ==
  /\ pc[t] = from
  /\ pc' = [pc EXCEPT ![t] = to]

\* A vector for the type has been published
Known(c) == components[c] # NoVec \/ newVecs[c] # NoVec

\* Box the pointer and look the type up in components
Begin(t, c) ==
  /\ phase = "run"
  /\ Len(typeOf) < MaxEntities
  /\ Known(c) \/ t \in Creators[c]
  /\ Goto(t, "idle", IF components[c] # NoVec THEN "id" ELSE "read")
  /\ typeOf' = Append(typeOf, c)
  /\ adding' = [adding EXCEPT ![t] = Len(typeOf) + 1]
  /\ pushTo' = [pushTo EXCEPT ![t] = components[c]]
  /\ UNCHANGED <<structure, entityMap, emptyVecs, idCounter, idOf, queues, list,
                 readers, processing, faulted>>

\* Look the type up in new_components_map, under its read lock: keep the lock
\* if it is there, else make an AnyVec
LookUpNew(t) ==
  LET v == newVecs[typeOf[adding[t]]] IN
  /\ Goto(t, "read", "id")
  /\ pushTo' = [pushTo EXCEPT ![t] = IF v # NoVec THEN v ELSE adding[t]]
  /\ readers' = IF v # NoVec THEN readers \cup {t} ELSE readers
  /\ UNCHANGED <<structure, entities, queues, adding, list, processing, faulted>>

\* EntityMap::add_entity: a recycled or a new Vec receives the removal data,
\* and the counter gives an id
TakeId(t) ==
  LET e == adding[t]
      recycled == IF emptyVecs = << >> THEN NoList ELSE Head(emptyVecs)
  IN
  /\ Goto(t, "id", "insert")
  /\ list' = [list EXCEPT ![t] = Append(recycled, [box |-> e, vec |-> pushTo[t]])]
  /\ emptyVecs' = IF emptyVecs = << >> THEN emptyVecs ELSE Tail(emptyVecs)
  /\ idOf' = [idOf EXCEPT ![e] = idCounter]
  /\ idCounter' = (idCounter + 1) % IdSpace
  /\ UNCHANGED <<structure, entityMap, typeOf, queues, adding, pushTo, readers,
                 processing, faulted>>

\* Broken variant: the id is read from the counter a second time
InsertUnderCounter(t) ==
  /\ Goto(t, "insert", "push")
  /\ entityMap' = [entityMap EXCEPT ![(idCounter - 1) % IdSpace] =
                     [present |-> TRUE, data |-> list[t]]]
  /\ list' = [list EXCEPT ![t] = NoList]
  /\ UNCHANGED <<structure, emptyVecs, idCounter, idOf, typeOf, queues, adding,
                 pushTo, readers, processing, faulted>>

\* ... and map.insert, which replaces what an earlier entity with this id had
InsertEntity(t) ==
  /\ Goto(t, "insert", "push")
  /\ entityMap' = [entityMap EXCEPT ![idOf[adding[t]]] =
                     [present |-> TRUE, data |-> list[t]]]
  /\ list' = [list EXCEPT ![t] = NoList]
  /\ UNCHANGED <<structure, emptyVecs, idCounter, idOf, typeOf, queues, adding,
                 pushTo, readers, processing, faulted>>

\* AnyVec::push
Push(t) ==
  /\ Goto(t, "push", "store")
  /\ vecs' = [vecs EXCEPT ![pushTo[t]] = Append(@, adding[t])]
  /\ faulted' = (pushTo[t] \in freedVecs)
  /\ UNCHANGED <<components, newVecs, freedVecs, box, dropped, entities, queues,
                 adding, pushTo, list, readers, processing>>

Return(t) ==
  /\ adding' = [adding EXCEPT ![t] = NoEntity]
  /\ pushTo' = [pushTo EXCEPT ![t] = NoVec]

\* Broken variant: the read lock is not released
StoreKeepsLock(t) ==
  LET e == adding[t]
      v == pushTo[t]
  IN
  /\ Goto(t, "store", IF v = e THEN "publish" ELSE "idle")
  /\ box' = [box EXCEPT ![e] = [vec |-> v,
                                at |-> CHOOSE k \in 1 .. Len(vecs[v]) : vecs[v][k] = e]]
  /\ IF v = e THEN UNCHANGED <<adding, pushTo>> ELSE Return(t)
  /\ UNCHANGED <<components, newVecs, vecs, freedVecs, dropped, entities, queues,
                 list, readers, processing, faulted>>

\* Store the address in the box.  If the vector was found this releases the
\* lock and returns
StoreAddress(t) ==
  LET e == adding[t]
      v == pushTo[t]
  IN
  /\ Goto(t, "store", IF v = e THEN "publish" ELSE "idle")
  /\ box' = [box EXCEPT ![e] = [vec |-> v,
                                at |-> CHOOSE k \in 1 .. Len(vecs[v]) : vecs[v][k] = e]]
  /\ readers' = readers \ {t}
  /\ IF v = e THEN UNCHANGED <<adding, pushTo>> ELSE Return(t)
  /\ UNCHANGED <<components, newVecs, vecs, freedVecs, dropped, entities, queues,
                 list, processing, faulted>>

\* new_components_map.write().insert: a vector that was there is dropped, with
\* the components in it
PublishVec(t) ==
  LET c == typeOf[adding[t]]
      old == newVecs[c]
  IN
  /\ readers = {}
  /\ Goto(t, "publish", "idle")
  /\ newVecs' = [newVecs EXCEPT ![c] = pushTo[t]]
  /\ freedVecs' = IF old # NoVec THEN freedVecs \cup {old} ELSE freedVecs
  /\ dropped' = IF old # NoVec THEN dropped \cup Contents(old) ELSE dropped
  /\ Return(t)
  /\ UNCHANGED <<components, vecs, box, entities, queues, list, readers,
                 processing, faulted>>

AddStep(t) ==
  \/ LookUpNew(t)
  \/ TakeId(t) \/ InsertEntity(t)
  \/ Push(t) \/ StoreAddress(t)
  \/ PublishVec(t)

-----------------------------------------------------------------------------
(* What systems do with the components they are given                      *)

\* A component as iter_components gives it: where it is, and whose it is
Visible ==
  UNION {{[at |-> [vec |-> components[c], at |-> k], of |-> vecs[components[c]][k]] :
            k \in 1 .. Len(vecs[components[c]])} :
         c \in {d \in Types : components[d] # NoVec}}

\* Query::queue_mut: the modifier keeps the address of the component
QueueModifier(q) ==
  /\ phase = "run"
  /\ Cardinality(mods) < MaxModifiers
  /\ mods' = mods \cup {<<q>>}
  /\ UNCHANGED <<structure, entities, removeQueue, multiMods, asked, adders,
                 processing, faulted>>

\* (Query, Query)::queue_mut: two addresses
QueueMultiModifier(q, r) ==
  /\ phase = "run"
  /\ Cardinality(multiMods) < MaxModifiers
  /\ multiMods' = multiMods \cup {<<q, r>>}
  /\ UNCHANGED <<structure, entities, removeQueue, mods, asked, adders,
                 processing, faulted>>

\* queue_remove_entity with the id of an entity that add_entity has returned,
\* or that an iteration shows
QueueRemove(e) ==
  /\ phase = "run"
  /\ Len(removeQueue) < MaxRemovals
  /\ removeQueue' = Append(removeQueue, idOf[e])
  /\ asked' = asked \cup {e}
  /\ UNCHANGED <<structure, entities, mods, multiMods, adders, processing, faulted>>

UseComponents ==
  \/ \E q \in Visible : QueueModifier(q)
  \/ \E q, r \in Visible : QueueMultiModifier(q, r)
  \/ \E e \in Returned \cup {q.of : q \in Visible} : QueueRemove(e)

-----------------------------------------------------------------------------
(* process_queues                                                          *)

\* Broken variant: the removals come before the modifiers
StartWithRemovals ==
  /\ phase = "run"
  /\ \A t \in Threads : pc[t] = "idle"
  /\ phase' = "merge"
  /\ UNCHANGED <<structure, entities, queues, adders, draining, faulted>>

\* The &mut: nobody is inside add_entity
StartProcessing ==
  /\ phase = "run"
  /\ \A t \in Threads : pc[t] = "idle"
  /\ phase' = "multi"
  /\ UNCHANGED <<structure, entities, queues, adders, draining, faulted>>

\* A component of the vector is at the address
InUse(a) ==
  a.vec \notin freedVecs /\ a.at \in 1 .. Len(vecs[a.vec])

\* multi_mod_queue.execute()
RunMultiModifiers ==
  /\ phase = "multi"
  /\ phase' = "mods"
  /\ multiMods' = {}
  /\ faulted' = \E m \in multiMods : ~InUse(m[1].at) \/ ~InUse(m[2].at)
  /\ UNCHANGED <<structure, entities, removeQueue, mods, asked, adders, draining>>

\* mod_queue.execute()
RunModifiers ==
  /\ phase = "mods"
  /\ phase' = "merge"
  /\ mods' = {}
  /\ faulted' = \E m \in mods : ~InUse(m[1].at)
  /\ UNCHANGED <<structure, entities, removeQueue, multiMods, asked, adders, draining>>

\* Broken variant: the new vectors replace the map of components
MergeReplaces ==
  /\ phase = "merge"
  /\ phase' = "remove"
  /\ components' = newVecs
  /\ newVecs' = [c \in Types |-> NoVec]
  /\ UNCHANGED <<vecs, freedVecs, box, dropped, entities, queues, adders,
                 draining, faulted>>

\* components.extend(new_components_map.drain())
MergeNewVecs ==
  /\ phase = "merge"
  /\ phase' = "remove"
  /\ components' = [c \in Types |-> IF newVecs[c] # NoVec THEN newVecs[c]
                                    ELSE components[c]]
  /\ newVecs' = [c \in Types |-> NoVec]
  /\ UNCHANGED <<vecs, freedVecs, box, dropped, entities, queues, adders,
                 draining, faulted>>

\* Broken variant: the entry stays in the map
PopKeepsEntry ==
  LET id == Head(removeQueue) IN
  /\ phase = "remove" /\ removeQueue # << >>
  /\ removeQueue' = Tail(removeQueue)
  /\ phase' = IF entityMap[id].present THEN "drain" ELSE "remove"
  /\ draining' = entityMap[id].data
  /\ UNCHANGED <<structure, entities, mods, multiMods, asked, adders, faulted>>

\* remove_queue.pop(), and remove_entity takes the id out of the map; an id
\* that is not there is skipped
PopRemoval ==
  LET id == Head(removeQueue) IN
  /\ phase = "remove" /\ removeQueue # << >>
  /\ removeQueue' = Tail(removeQueue)
  /\ phase' = IF entityMap[id].present THEN "drain" ELSE "remove"
  /\ draining' = entityMap[id].data
  /\ entityMap' = [entityMap EXCEPT ![id] = NoEntry]
  /\ UNCHANGED <<structure, emptyVecs, idCounter, idOf, typeOf, mods, multiMods,
                 asked, adders, faulted>>

\* The vector v without its element at k, the last one in its place
SwapRemoved(v, k) ==
  [j \in 1 .. Len(vecs[v]) - 1 |->
     IF j = k THEN vecs[v][Len(vecs[v])] ELSE vecs[v][j]]

\* Broken variant: the box of the component that was moved is not updated
RemoveForgetsBox ==
  LET d == Head(draining)
      a == box[d.box]
  IN
  /\ phase = "drain" /\ draining # << >>
  /\ draining' = Tail(draining)
  /\ IF d.box \in dropped \/ a.vec # d.vec \/ ~InUse(a)
     THEN faulted' = TRUE /\ UNCHANGED structure
     ELSE /\ dropped' = dropped \cup {vecs[d.vec][a.at]}
          /\ vecs' = [vecs EXCEPT ![d.vec] = SwapRemoved(d.vec, a.at)]
          /\ UNCHANGED <<components, newVecs, freedVecs, box, faulted>>
  /\ UNCHANGED <<entities, queues, adders, phase>>

\* Read the address in the box and remove the component; if another one was
\* moved to that address, store it in that one's box
RemoveComponent ==
  LET d == Head(draining)
      a == box[d.box]
      last == Len(vecs[d.vec])
  IN
  /\ phase = "drain" /\ draining # << >>
  /\ draining' = Tail(draining)
  /\ IF d.box \in dropped \/ a.vec # d.vec \/ ~InUse(a)
     THEN faulted' = TRUE /\ UNCHANGED structure
     ELSE /\ dropped' = dropped \cup {vecs[d.vec][a.at]}
          /\ vecs' = [vecs EXCEPT ![d.vec] = SwapRemoved(d.vec, a.at)]
          /\ box' = IF a.at = last THEN box
                    ELSE [box EXCEPT ![vecs[d.vec][last]] = a]
          /\ UNCHANGED <<components, newVecs, freedVecs, faulted>>
  /\ UNCHANGED <<entities, queues, adders, phase>>

\* empty_vecs.push(vec), which gives the list up when the pool is full
RecycleList ==
  /\ phase = "drain" /\ draining = << >>
  /\ phase' = "remove"
  /\ emptyVecs' = IF Len(emptyVecs) < PoolSize THEN Append(emptyVecs, draining)
                  ELSE emptyVecs
  /\ UNCHANGED <<structure, entityMap, idCounter, idOf, typeOf, queues, adders,
                 draining, faulted>>

\* Broken variant: only some of the queued removals are done
EndEarly ==
  /\ phase = "remove"
  /\ phase' = "run"
  /\ UNCHANGED <<structure, entities, queues, adders, draining, faulted>>

\* remove_queue is empty: process_queues returns
EndProcessing ==
  /\ phase = "remove" /\ removeQueue = << >>
  /\ phase' = "run"
  /\ UNCHANGED <<structure, entities, queues, adders, draining, faulted>>

ProcessQueues ==
  \/ RunMultiModifiers \/ RunModifiers \/ MergeNewVecs
  \/ PopRemoval \/ RemoveComponent \/ RecycleList
  \/ EndProcessing

-----------------------------------------------------------------------------
Step ==
  \/ \E t \in Threads, c \in Types : Begin(t, c)
  \/ \E t \in Threads : AddStep(t)
  \/ UseComponents
  \/ StartProcessing
  \/ ProcessQueues

\* A fault is the end of the process
Next == ~faulted /\ Step

Spec == Init /\ [][Next]_vars

\* The threads that add entities run, and process_queues does not stop
Fairness ==
  /\ \A t \in Threads : WF_vars(~faulted /\ AddStep(t))
  /\ WF_vars(~faulted /\ ProcessQueues)

FairSpec == Spec /\ Fairness

-----------------------------------------------------------------------------
(* Properties                                                              *)

Datum == [box : Entities, vec : Entities]
Addr == [vec : Entities \cup {NoVec}, at : Nat]
Component == [at : Addr, of : Entities]

\* The shape of the state; the read lock is held only while the entity is
\* registered, pushed and its address stored
TypeOK ==
  /\ components \in [Types -> Entities \cup {NoVec}]
  /\ newVecs \in [Types -> Entities \cup {NoVec}]
  /\ vecs \in [Entities -> Seq(Entities)]
  /\ freedVecs \subseteq Entities /\ dropped \subseteq Entities
  /\ box \in [Entities -> Addr]
  /\ entityMap \in [Ids -> [present : BOOLEAN, data : Seq(Datum)]]
  /\ emptyVecs \in Seq(Seq(Datum))
  /\ idCounter \in Ids
  /\ idOf \in [Entities -> Ids \cup {-1}]
  /\ typeOf \in Seq(Types) /\ Len(typeOf) <= MaxEntities
  /\ removeQueue \in Seq(Ids) /\ asked \subseteq Entities
  /\ \A m \in mods : Len(m) = 1 /\ m[1] \in Component
  /\ \A m \in multiMods : m \in Component \X Component
  /\ pc \in [Threads -> {"idle", "read", "id", "insert", "push", "store", "publish"}]
  /\ adding \in [Threads -> Entities \cup {NoEntity}]
  /\ pushTo \in [Threads -> Entities \cup {NoVec}]
  /\ list \in [Threads -> Seq(Datum)]
  /\ readers \subseteq {t \in Threads : pc[t] \in {"id", "insert", "push", "store"}}
  /\ phase \in {"run", "multi", "mods", "merge", "remove", "drain"}
  /\ draining \in Seq(Datum)
  /\ faulted \in BOOLEAN

\* Entities whose add_entity has returned and that nothing has dropped
Alive == Returned \ dropped

\* Freed memory is never used: not by a push, a modifier or a removal
NoFault == ~faulted

\* The box of an entity holds the address of its component, whatever removals
\* have moved it, and the component is nowhere else
BackPointersExact ==
  \A e \in Alive, v \in Entities, k \in Entities :
    (v \notin freedVecs /\ k <= Len(vecs[v]) /\ vecs[v][k] = e)
      <=> box[e] = [vec |-> v, at |-> k]

\* What the map keeps under an id is the data of one entity, that has the id,
\* and nothing of it has been freed
EntityMapExact ==
  \A id \in Ids : entityMap[id].present =>
    \E e \in 1 .. Len(typeOf), v \in Entities \ freedVecs :
      /\ e \notin dropped /\ idOf[e] = id
      /\ entityMap[id].data = <<[box |-> e, vec |-> v]>>
      /\ e \in Alive => box[e].vec = v

\* A queued modifier keeps the address of a component that stays where it was,
\* although new ones are pushed and new vectors replace old ones
ModifierTargetsStable ==
  \A m \in mods \cup multiMods : \A i \in DOMAIN m :
    /\ InUse(m[i].at)
    /\ vecs[m[i].at.vec][m[i].at.at] = m[i].of

\* "Adds an entity with the given components": until a removal of its id is
\* asked for, the entity is in the vector of its type, where systems find it
\* now or after process_queues.  That holds for overwritten entities too:
\* their "components will still be processed"
NoEntityLost ==
  \A e \in Returned : idOf[e] \notin {idOf[f] : f \in asked} =>
    /\ e \notin dropped
    /\ \E v \in {components[typeOf[e]], newVecs[typeOf[e]]} \ {NoVec} :
         e \in Contents(v)

\* The entities in the vectors that have been published
Stored ==
  UNION {Contents(v) : v \in (UNION {{components[c], newVecs[c]} : c \in Types}) \ {NoVec}}

Adding(steps) == {adding[t] : t \in {u \in Threads : pc[u] \in steps}}

\* To its callers all this is a set of entities and the entity each id stands
\* for: one removal takes out one entity, the one that has the id, whatever
\* moves in the vectors; each queued removal is done when process_queues
\* returns, however often and in whatever order it was asked for; and all
\* entities are then where systems find them
Unregistered == Adding({"read", "id", "insert"})

Store == INSTANCE EntityStore WITH
  waiting <- Unregistered,
  named <- {<<e, idOf[e]>> : e \in (1 .. Len(typeOf)) \ Unregistered},
  coming <- Adding({"push", "store", "publish"}) \ Stored,
  store <- Stored,
  owner <- [id \in Ids |-> IF entityMap[id].present THEN entityMap[id].data[1].box
                           ELSE NoEntity],
  known <- {c \in Types : components[c] # NoVec},
  queue <- removeQueue,
  processing <- (phase # "run"),
  leaving <- (IF draining = << >> THEN NoEntity ELSE Head(draining).box)

RefinesEntityStore == Store!Spec

\* add_entity returns: the read lock held during a push never stops the thread
\* that waits to insert a vector
AddReturns == \A t \in Threads : pc[t] # "idle" ~> (pc[t] = "idle" \/ faulted)
=============================================================================
