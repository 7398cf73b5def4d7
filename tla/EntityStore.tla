----------------------------- MODULE EntityStore -----------------------------
(***************************************************************************)
(* What a Universe of jaya-ecs/src/universe.rs promises of its entities,   *)
(* without vectors, addresses or lists of removal data: a set of entities  *)
(* of one component each, and for each id the entity it stands for.        *)
(*                                                                         *)
(* An entity is registered under its id, then joins the store.  Systems    *)
(* see the entities of the known types.  process_queues makes all types    *)
(* known and takes out the entities whose ids have been queued, in order.  *)
(*                                                                         *)
(* Entities are numbered as their additions begin.                         *)
(***************************************************************************)
EXTENDS Integers, Sequences

CONSTANTS
  Types,    \* types of components
  Ids,      \* ids of entities
  NoEntity  \* what an id stands for when it stands for none

VARIABLES
  typeOf,     \* the type of each entity
  waiting,    \* entities that are to be registered
  coming,     \* entities that are registered and are to join the store
  store,      \* the entities in the store
  named,      \* each registered entity with the id its adder was given
  owner,      \* the entity each id stands for
  known,      \* the types whose entities systems see
  queue,      \* the ids queued for removal
  processing, \* process_queues is running
  leaving     \* the entity it is taking out

members == <<typeOf, waiting, coming, store, named, owner>>
vars == <<members, known, queue, processing, leaving>>

Init ==
  /\ typeOf = << >>
  /\ waiting = {}
  /\ coming = {}
  /\ store = {}
  /\ named = {}
  /\ owner = [id \in Ids |-> NoEntity]
  /\ known = {}
  /\ queue = << >>
  /\ processing = FALSE
  /\ leaving = NoEntity

\* add_entity is called
Add(c) ==
  /\ ~processing
  /\ typeOf' = Append(typeOf, c)
  /\ waiting' = waiting \cup {Len(typeOf) + 1}
  /\ UNCHANGED <<coming, store, named, owner, known, queue, processing, leaving>>

\* An id is given to the entity; an entity that had it can no longer be removed
Register(e, id) ==
  /\ e \in waiting
  /\ waiting' = waiting \ {e}
  /\ coming' = coming \cup {e}
  /\ named' = named \cup {<<e, id>>}
  /\ owner' = [owner EXCEPT ![id] = e]
  /\ UNCHANGED <<typeOf, store, known, queue, processing, leaving>>

Join(e) ==
  /\ e \in coming
  /\ coming' = coming \ {e}
  /\ store' = store \cup {e}
  /\ UNCHANGED <<typeOf, waiting, named, owner, known, queue, processing, leaving>>

QueueRemove(id) ==
  /\ ~processing
  /\ queue' = Append(queue, id)
  /\ UNCHANGED <<members, known, processing, leaving>>

\* process_queues begins: nothing is being added
Process ==
  /\ ~processing
  /\ waiting = {} /\ coming = {}
  /\ processing' = TRUE
  /\ UNCHANGED <<members, known, queue, leaving>>

Reveal ==
  /\ processing
  /\ known' = known \cup {typeOf[e] : e \in store}
  /\ UNCHANGED <<members, queue, processing, leaving>>

\* The next id loses its entity; an id that stands for none is passed over
TakeRemoval ==
  /\ processing /\ queue # << >> /\ leaving = NoEntity
  /\ queue' = Tail(queue)
  /\ leaving' = owner[Head(queue)]
  /\ owner' = [owner EXCEPT ![Head(queue)] = NoEntity]
  /\ UNCHANGED <<typeOf, waiting, coming, store, named, known, processing>>

\* That entity, and no other, leaves the store
Leave ==
  /\ leaving \in store
  /\ store' = store \ {leaving}
  /\ leaving' = NoEntity
  /\ UNCHANGED <<typeOf, waiting, coming, named, owner, known, queue, processing>>

\* It returns: everything that was queued has been done
Return ==
  /\ processing
  /\ queue = << >> /\ leaving = NoEntity
  /\ \A e \in store : typeOf[e] \in known
  /\ processing' = FALSE
  /\ UNCHANGED <<members, known, queue, leaving>>

Next ==
  \/ \E c \in Types : Add(c)
  \/ \E e \in waiting, id \in Ids : Register(e, id)
  \/ \E e \in coming : Join(e)
  \/ \E id \in Ids : QueueRemove(id)
  \/ Process \/ Reveal \/ TakeRemoval \/ Leave \/ Return

Spec == Init /\ [][Next]_vars
=============================================================================
