# A verification project for jaya

jaya is an entity component system in Rust (`jaya-ecs`), a particle simulation
that uses it (`jaya-test`), and an unused crate of vectors (`mvec`). Its core is
concurrent and mostly `unsafe`: components live in a lock-free vector that
threads extend while others iterate over it; modifications and removals are
queued by systems that run in parallel, and applied between frames. This
directory holds TLA+ modules of that code, TLC configurations that check them,
and proofs that TLAPS checks.

`PROJECT.json` says which lines each definition translates (`map`), what each
run checks (`runs`), which hazard is covered by which property (`hazards`), a
plausible bug that violates each property (`mutants`; the broken variants stand
in the modules, before the definitions they vary), and where the code does not do
what its comments say (`findings`).

To check: `tlc -config MCAnyVec.cfg MCAnyVec.tla`, and so on; to prove:
`tlapm AnyVecProofs.tla`, and so on for the eight modules with theorems (a minute or two
each, five for `UniverseProofs` and for `SimulationProofs`).

## The system

| Part | State | Operations | Used by |
|---|---|---|---|
| `AnyVec` (collections.rs) | list of blocks, two lengths, a resize flag | `push`, `swap_remove_by_ptr`, `par_iter`, `par_iter_combinations`, `drop` | Universe |
| `Universe`, `EntityMap` (universe.rs) | a vector for each type, vectors of new types under a lock, entities with what is needed to remove them, an id counter, three queues | `add_entity`, `iter_components*`, `queue_remove_entity`, `process_queues` | programs |
| `ComponentModifierStager` (subextract.rs) | chains of modifiers by hash | `queue_modifier`, `execute` | Universe |
| `MultiComponentModifierStager` (subextract.rs) | a channel, an actor with stages, a flag | `queue_modifier`, `execute` | Universe |
| Extractors (extract/) | none | `iter_choices`, `queue_mut` | systems |
| `System` (system.rs) | none | `run_once` | programs |
| `jaya-test` (main.rs) | a Universe of particles, a bounded channel, the frame being gathered | simulate a frame, render a frame | |
| rayon's pool (external) | deques of jobs, stacks of jobs | `join`, `spawn`, parallel iterators | everything |
| `AVec` (mvec) | an array of fixed size, a length | `push`, `get`, `iter`, `iter_mut`, `get_all_mut`, `drop` | nothing |
| `ALinkedList` (mvec) | nodes, the last of them, a length | `push_back`, `iter`, `iter_mut` | nothing |
| `MVec` (mvec) | blocks, a queue of items to add, a queue of addresses to drop | `queue_push`, `process_queue`, `iter`, dropping an `MItemRef` | nothing |

**How they interact.** A system gets shared references to components and may, from
any thread of the pool, add entities (`push` on the vector of the type, an
insert in the entity map), queue a modifier of a component (an address and a
closure), and queue the removal of an entity. Between two runs of the systems,
`process_queues`, which has the Universe for itself, tells the actor to execute
the modifiers of several components, executes those of one, merges the vectors
of new types and removes entities by `swap_remove_by_ptr`. `jaya-test` does this
frame after frame and sends a copy of every particle to its renderer, which
runs on the same pool.

**What is hard.** In `AnyVec`: slots are taken with one counter and published
with another; a racing resize; the block list that moves while others read it;
an iteration beside pushes. In `Universe`: first entities of a type; an
entity that is registered before it exists; addresses that removals change; ids
that wrap; lists that are used again. In the stagers: two modifiers of one
component at once; a lost wake-up; a channel that is full and replaced. In
`jaya-test`: jobs that block on a pool of few threads, and a pool that runs one
job on top of another. In a frame: two stagers that know nothing of each other,
and threads that still hold references. In `mvec`: a length that counts elements
before they are written and passes the capacity; a list that is cut while it is
extended; references that removals leave behind.

**What makes each part correct.**

- `AnyVec`: no two threads write one slot; a write lands inside a block; a
  reader sees only written slots; a push returns; the whole behaves as a vector
  whose elements arrive at once, in the order of the tickets. A removal takes
  away one element and keeps all others. Byte offsets, indices and the walk of
  `drop` agree.
- `Universe`: an entity stays until its removal is asked for, and then goes;
  the address kept for it is the address of its component; the map holds
  nothing freed; a queued modifier still points to its component when it runs.
- The stagers: each modifier runs once, while `execute` is waited for, never
  beside another of the same component; `execute` returns, after all of them.
- A frame: no modifier runs while a system, or another modifier of either
  stager, has a reference to a component of its own; each is applied once
  before the next frame; systems read one frame; frames end.
- `AVec`: an index is given to one push; a push on a full vector fails and leaves the
  length right; readers stay among the indices given out. `ALinkedList`: the list is
  whole when no push runs, and an iteration beside pushes reads it in order.
  `MVec`: an item is dropped once, and only if its own reference was.
- `jaya-test`: each frame of the video is a frame of the simulation, whole; the
  video is finished.

## The modules

### `ConcurrentVec`, `AnyVec`, `AnyVecProofs`

`ConcurrentVec` is what `AnyVec` promises: `Call` begins a push, `Commit` puts
its element at the end and gives it its address, `SwapRemove`
removes one while no push is running.

`AnyVec` is `push` with each atomic access, and each use of the block list, an
action: `Reserve` (the `fetch_add` on `maybe_init_len`), `TakeSlice` and
`SumCapacity` (the capacity check: taking the slice of the list, walking it),
`TryResize` (`resizing.swap`), `AppendBlock`, `Unlock`, `TakeSliceForSlot` and
`CopyValue`, `AwaitTurn`, `Publish`. `StartIter` and `EndIter` are `par_iter` and
`par_iter_combinations`, which load the length, then take the slice.
`SwapRemove` is one action here, enabled while nothing else runs, as
`process_queues`, with its `&mut`, has it. `alloc` is the allocation behind the
`Vec` of blocks: a push on a full one changes its generation, and a slice of an
older one is `Stale`. Reading it is undefined behaviour: it gives the old
contents, or (`Fault`) the process dies.

### `AnyVecLayout`, `AnyVecLayoutProofs`

The arithmetic of `AnyVec` in bytes: `Capacity`, `Pointer`, the start index of a
block as `par_iter` computes it, `Combinations`, `Dropped`. A pointer is a pair
of block and offset; `mem` holds the elements by pointer. Elements have 3 bytes,
so an offset that is not scaled, or a block's length taken for a count, shows. The
search of `Pointer` ends behind the last block, where the code has
`unreachable_unchecked`; `Grown` takes the fewest blocks to append, which is where
`push`'s loop stops.
The state grows by `Push`, one thread at a time, and shrinks by
`swap_remove_by_ptr`, for any set of removers in three steps: `DropInPlace` (the
destructor), `Shrink` (both counters; nobody reads `maybe_init_len` meanwhile) and
`Fill` (the last element's address, and the copy). What `par_iter`, the pairs and
`drop` visit is compared with the elements in every state.

### `EntityStore`, `Universe`, `UniverseProofs`

`EntityStore` is what a Universe promises of entities: an entity is registered
under an id (`Add`, `Register`), joins the store (`Join`), is seen by systems once its
type is known (`Reveal`), and leaves when a removal of its id is processed
(`TakeRemoval`, `Leave`), one entity for each id that stands for one; `Return` when
all has been done. In the mapping, the store is what the published vectors hold and
the owner of an id is the entity whose removal data the map keeps under it.


`add_entity` as the program runs it, for one component: `Begin` (the look-up in
`components`), `LookUpNew` (under the read lock), `TakeId`, `InsertEntity`,
`Push`, `StoreAddress`, `PublishVec` (the write lock, the insert, and the drop of
what was there). `process_queues` is `StartProcessing`, `RunMultiModifiers`,
`RunModifiers`, `MergeNewVecs`, then `PopRemoval`, `RemoveComponent`,
`RecycleList` for each id and `EndProcessing`. The n-th call of `add_entity` makes
entity n; n also names its box and the vector the call makes if it finds none. An
`AnyVec` is a sequence here, with pushes and removals of one step: that is what
`ConcurrentVec` promises and `AnyVecProofs` proves. The stagers run their
modifiers in one step: that is `ModifierQueue`, and how they do it `Frame`. Dropping a vector frees its
components and their boxes; a use of either afterwards sets `faulted`.

### `ModifierQueue`, `ComponentModifierStager`, `MultiComponentModifierStager`, `MultiComponentModifierStagerProofs`

`ModifierQueue` is what both stagers promise: a modifier is queued while systems
run; during `execute` those of disjoint components run at once, each once; `execute`
returns when all have run.

`ComponentModifierStager`: `QueueModifier` puts it in the chain of its
component's hash; `Execute` gives each chain to a worker that goes through it
with `Pop` and `Finish`; `Return` when all are empty.

`MultiComponentModifierStager`: producers `TrySend`, and if the channel is full
`MarkFilled` and `BlockingSend`; the caller of `execute` does `SendClose`,
`CheckComplete`, `Park` (with spurious wake-ups), `ResetComplete` and, if the
channel had been full, `SendResize`; the actor does `Receive`, with first-fit into
the stages, and on Close goes through them (`OpenStage`, `StartModifier`,
`FinishModifier`, `NextStage`), sets the flag and `Unpark`s. `chan[g]` is the g-th
channel; `token` is the caller's park token.

`MultiComponentModifierStagerProofs` is about that stager alone; what is proved of the
other one alone is the first part of `FrameProofs`.

### `Frame`, `FrameProofs`

A frame of a Universe: the two stagers (by `EXTENDS` and `INSTANCE`), the threads that
call systems and the owner. `StartCall` calls a system on one component or on a pair,
and gives the thread references (`refs`) until `EndCall`; in between it may `QueueMut`
or `QueueMultiMut`, and wait for room (`QueueMultiMutBlocked`). `ProcessQueues` needs
all calls to have ended, which is what `run_once` with its joins waits for; then the
owner goes through `execute` of the one stager (`MultiExecute`), `SingleExecute`,
`NextFrame`, beside the actor and the workers of the chains. `value` counts how often
each component has been modified. A system of two parameters may be called on a
component and itself; for a stager such a pair is the one component.

`Universe` has removals, new components and addresses, and `Frame` concurrency of
modifiers; neither needs the other's detail, and together they are `process_queues`.

### `Simulation`, `SimulationProofs`

`jaya-test` on rayon's pool. Each worker has a deque of jobs it has forked and a
stack of jobs it has begun; `TakeOwn`, `Steal`, `TakeInjected` are the pool, as far
as the program's use of it shows. A worker takes a job only when it has none begun, or
when what it has begun waits for jobs that have not returned (`Free`); one from elsewhere
only when its own deque is empty too, which means that what it waits for was stolen
(`Looks`). Looking whether a job has returned and taking another is one step.
`ActorRuns` is the actor of the multi modifiers, which keeps the worker that began it. `InjectSetup`, `Setup`, `InjectJoin`, `Join`
are `main` up to the `join`; `RunSystems`, `Ageing`, `SendAll`, `SendParticle`,
`Sent`, `SystemsDone`, `SendEndFrame`, `ProcessQueues` a frame of the simulation;
`Receive`, `ForkSort`, `Sort`, `Sorted` a frame of the renderer. The two sorts of a
frame are one fork, and a parallel iteration forks a job for each particle, in any
order, as finely as rayon may split it. `Setup` adds all the particles: the loss of
some that `universe_first_of_type` shows is left to that run.

### `AVec`, `AVecProofs`, `ALinkedList`, `ALinkedListProofs`, `MVec`

The containers of the crate `mvec`, which no program uses.

`AVec`: `Take` (the `fetch_add`), then `Write`, or, at the capacity, `Undo` (the
`fetch_sub` and `Err`). A push that comes between the two of another finds the length
beyond the capacity: `Overrun`, a panic in a debug build, a write outside the vector
in a release build; what that write destroys is not modelled. The comment of `push` and
its `debug_assert` say that this does not happen (`NoOverrun`); it does, and the length
then stays too great. `Get`, `StartVecIter`, `NextVecItem` and `Read` are readers, which
look at the length and then at the slot. `LenExact` is what holds of the length as long
as no push has overrun, and of the slots in any case. `ReadSound` says how far readers
go: one may meet a slot whose push has not written yet, and, once the vector is full,
one beyond its end. `vecLen` and `vecPc` are named apart from the list's `len` and `pc`
for `MCContainers`, which extends both modules; `Threads` declares the threads of both.

`ALinkedList`: `Allocate`, `Swap`, `Count`, `Link`, and iterations. `order` is the
order of the swaps.

`MVec`: users `QueuePush`, `DropRef` and `Forget`; `process_queue` is `Begin`, `Reuse`,
`NoSpot` and `PushBack`, or `NoMorePushes` and `Shrink`, and `Return`. References may be
dropped while it runs. Only a push that opens a new block hands out a reference, as in
the code.

## The runs

| Run | What it shows | Bounds |
|---|---|---|
| `anyvec` | slots are written by one thread each, in bounds, and read only when written; the block numbering holds; `AnyVec` implements `ConcurrentVec`; every push returns | 2 pushers of 2 values, 1 reader, first block of 1, length 4 |
| `anyvec_freed_list` | **finding**: a slice of a freed list | 2 pushers, 1 reader |
| `layout` | offsets, iteration, pairs and drop agree; a removal by one thread takes out one element and is one step to its caller | blocks of 2, 4 and 8 elements of 3 bytes, 7 elements, removals of all sets in all orders |
| `removal_two` | **finding**: two removers lose an element | 3 elements |
| `universe` | pointers, map and vectors agree; `Universe` implements `EntityStore`; `add_entity` returns | 2 threads, 2 types, 3 entities, 2 removals, ids that wrap at the third, pool of 1 list (so that it fills up and is drawn from) |
| `universe_first_of_type` | **finding**: a vector replaced with its entity | 2 threads, 1 type |
| `frame` | no modifier shares a component with a system or another modifier; each is applied once before the next frame; both stagers implement `ModifierQueue`; frames end, with no wake-up lost and no sender stuck | 2 threads, 2 components and their pair, 3 modifiers of either kind, channel of 1 that doubles, 2 chains, 3 frames |
| `simulation` | frames are whole and in order; the video is finished | 4 workers, 2 frames of 1 or 2 particles, channel of 3: what follows the first frame fits |
| `simulation_stealing` | **finding**: if it does not fit, the video may not be finished | 4 workers, 4 frames of 1 particle, channel of 4 |
| `containers` | `AVec`: indices are given out once; the length recovers from failed pushes; readers stay among the indices given out. `ALinkedList`: the list is cut only where a push is on the way, and whole in the end; iterations read it in order | 3 pushers and 1 reader; 2 slots, 5 nodes |
| `avec_overrun` | **finding**: a push on a full `AVec` that neither fails nor has a slot | 2 pushers on 1 slot |
| `mvec` | **finding**: two drops in one call drop one item twice | first block of 1, 4 items |

In `universe` each type has one thread that may add its first entity: with two the
finding `universe_first_of_type` would hide everything else. When the id counter has
wrapped, two entities share an id and one has overwritten the other in the map:
`NoEntityLost` and `EntityStore` say what is left to promise then: the overwritten one
stays in the store, the removal of the id takes out the other.

`containers` is one run of two modules that share nothing, so a step of the one and a
step of the other may as well be taken in either order: `MCContainers` lets one move
only while the other is as new, and the run has the sum of their states, not the product.

Why the bounds are enough: each hazard needs two actors, or three with a reader. Two
pushers race for a ticket, for the flag and for their turn, and both can be inside
one resize; a first block of 1 makes the first push and the third resize; one list in
the pool is both full and empty in turn; a channel of one message is full after
one. In `frame` three frames let a channel be replaced, used and executed again; three
modifiers put two of one stage beside one of the next. In `containers` three pushers are
the fewest of which one can fill the last slot, one fail and one overrun; and on the list
three let a push return behind two that have not linked. In `simulation` the actor, the
simulation and the renderer may have a worker each; the fourth is there to steal what
they fork, without which none of them would wait and take a job meanwhile. The safety of any number of
threads of an `AnyVec`, a `Universe`, the stagers, a frame, an `AVec` and an
`ALinkedList`, that of `jaya-test` on any pool, and the arithmetic of `AnyVecLayout` for
any sizes, is proved. The constants that are large in the program (32 elements,
256 lists, 1000 messages, 2^64 ids) are small so that their limits are met. The counters `MaxLen`,
`MaxEntities`, `MaxRemovals`, `MaxModifiers`, `MaxMods`, `MaxRounds`, `MaxParticles`
bound how long the runs are, and stand in the guards of the actions that count.

Deadlock is checked except where the model may stop: in `containers`,
`avec_overrun` and `mvec`, where the bound ends the pushes, and in `simulation_stealing` (which is about a
program that stops).

### Fairness

All of it is weak fairness of threads that the code never blocks for good by
itself: a thread inside `push` is scheduled again and again (it spins, with
back-off); a thread inside `add_entity` likewise, and `process_queues` goes on;
in `Frame` calls that have begun go on and end, and the owner inside
`process_queues`, the actor and the chains' workers go on; in `ALinkedList` a thread
inside `push_back` does. No fairness is assumed of calls (nobody has to push, to call
a system or `process_queues`), nor of spurious wake-ups. A blocked send needs no
more than weak fairness here, because the bounds let it meet a channel with room
that stays so. In `Simulation` every worker that can do something does something;
which job it takes is its own choice.

A fault ends the process, so the liveness properties ask for a return or a fault.

## What is proved

Nothing below depends on the sizes of the runs: the constants are any sets and
numbers that meet the named assumptions of the module that declares them.

### `AnyVecProofs`

For every set of pushers and readers, every set of values, every size of the first
block and every length:

- `TypeCorrect`, `ReadersSeeInitialised`, `TicketsAreExact`, `WritesInBounds`,
  `IterationsSound`, `StartIndicesExact`: all invariants of the run `anyvec`;
- `Refinement`: `Spec => Abstract!Spec`, that is `RefinesConcurrentVec`.

The assumptions are those of `AnyVec`: `Empty` is no value, the first block has an
element, the bound is a number.

None of the properties is inductive by itself. The invariant `IInv` that is has
these parts, beside `TypeOK`:

- `TicketInv`: the tickets of threads inside `push` are exactly the indices from
  `initLen` to `maybeInitLen - 1`, one each. This makes a write exclusive, keeps
  `initLen` from overtaking a thread, and says that nobody waits for a slot that
  no thread holds.
- `ContentInv`: published slots hold values, and a thread that has copied finds
  its value in its slot until it publishes it, in turn.
- `LockInv`: at most one thread is between the swap of the flag and its reset.
- `BlockInv`: the blocks reach every published index and every index that a
  thread has found to be inside. A capacity computed early stays true, because
  blocks are only added: this is why the race between the check and the resize
  does no harm but to memory.
- `IterInv`: the length an iteration has loaded is published, and reached by the
  slice it takes afterwards; in the other order it would not be (`StartIterSliceFirst`).

`StartIndicesExact` needs `GrowthInv` beside it: the k-th block has 2^(k-1) times the
elements of the first and begins at its own length less that of the first. A resize
keeps this although the length is read and the block appended in two steps, as the flag
is a lock: what the holder has doubled is still the last block. The provers have no
laws of powers; `PowerDoubles` gets the one that is needed from the number of subsets.

There is one lemma for each action, and for the refinement one for each action that
`ConcurrentVec` sees (`ReserveCalls`, `PublishCommits`, `SwapRemoveRemoves`) and one
for all that it does not (`OtherStepsStutter`). The theorems hold although slices
of freed lists are read, because such a read is either the death of the process or
the old contents; that it can happen at all is `anyvec_freed_list`.

### `AnyVecLayoutProofs`

For every size of an element, every size of the first block, every number of elements
and any set of values. With any number of removers:

- `IterIsExact`: `par_iter` visits the elements, all of them and nothing else;
- `PairsAreExact`: `par_iter_combinations` passes every two elements once;
- `DropIsExact`: `drop` drops all elements and nothing else.

With at most one remover (`OneRemover`), which is how `process_queues` calls
`swap_remove_by_ptr`:

- `LayoutTypes`: elements lie inside blocks, and the only dead bytes are in the hole of
  the removal under way;
- `OneRemoverSurvivors`: the vector holds what was pushed and not removed, each element
  as often as it should;
- `OneRemoverSteps`: a push appends, a removal puts the last element in the place of the
  one it removes, and the steps in between leave the contents alone.

These three carry `OneRemover` as a hypothesis because with two removers they are false:
`removal_two` is the counterexample to the second.

`BlocksInv`, that each block is twice as long as the one before and `init_len` is below
the capacity, is inductive with any removers. It gives the arithmetic closed forms: the
block at i has `Width(i) = FirstBlock * 2^i` elements, the first of which has the index
`First(i) = Width(i) - FirstBlock`. `par_iter` computes that index from the length of the
block (`StartIndex`), `get_bytes_ptr` by subtracting lengths (`PointerIs`), `drop` by
adding capacities (`CapacityIs`), and `push` appends the next length (`GrownIs`). So each
index below the capacity is in one slot (`SlotOf`), all of them find it there, and no two
are in the same place. The sum and the search are recursive functions in the model. That
the sum is its closed form is shown for the least argument where it would not be; that
the search ends where it should, for the least block at which it would be off its way. No
induction theorem is needed.

`RemoverInv` adds `MemInv`: until the hole is filled `Extent`, the length before the
removal, still counts, so the last element keeps its place; every other slot below it
holds an element. `LiveInv` says that each value is held as often as its history has it.
`ContentsIdle` and `ContentsBusy` say what the caller sees in either case, and each step
takes one to the other.

### `UniverseProofs`

For every set of threads, of types and of ids (the counter may wrap), and every bound,
in two layers. The first holds whichever threads may add the first entities of types,
the race of `universe_first_of_type` included. `PInv` gives

- `TypeCorrect`;
- `BackPointers`: the place that an entity's box stores is where its component is;
- `ModifiersStable`: while a modifier waits, the component it points to stays where
  it is.

It says that each adder has an entity of its own (`AddersInv`); that it pushes to a
vector of its own, which nobody sees, or to one that is published, which its read lock
keeps if it is new (`PushToInv`); that a vector which is not empty is published or its
maker's, so that dropping one takes nothing from a thread inside `push` (`VecsInv`);
that each component is at one place, which its box knows as soon as it is written
(`PlacesInv`); and that modifiers name visible components and wait only until
`process_queues` has run them (`ModsInv`).

The second assumes `OneCreator`, that no two threads may add the first entity of a
type. Without it the finding refutes all four theorems, so the assumption is theirs
and not the module's:

- `FaultFree`: no freed box or vector is used;
- `MapExact`: what the map keeps under an id is the place of an entity that is there;
- `NothingLost`: an added entity is seen or pending until its id is removed;
- `UniverseIsStore`: `Universe` implements `EntityStore`.

`UInv` adds that no vector is freed, since a thread that makes one finds none when it
publishes it (`RaceInv`); which ids have been asked to leave (`AskedInv`); and that the
data under an id, or in the hands of `process_queues`, leads to the box of an entity
that lives and to the vector that holds it (`MapInv`). For the refinement, a step that
`EntityStore` sees is one action of it, and all others leave its variables alone: the
lookups, ids and locks; the modifiers; and publishing, as the vectors that count are
those of both lists and of adders.

### `AVecProofs`

For every capacity, every finite set of pushers and every bound on `len`:
`AVecTypeCorrect`, `LengthsExact` and `ReadersSound`, the invariants of the run
`containers` that are about `AVec`. `TicketInv` says that a push that writes has an
index below the capacity. `CountInv` carries the argument: the indices below `vecLen` and
the capacity are those written or held, and `vecLen` is the number of these, the
increments not yet taken back and those of the pushes that have overrun. So while a
failing push has its increment in it, `vecLen` is beyond the capacity, and `Undo` never
uncovers a slot that somebody has. Counting needs the cardinality of sets of pushers,
which is why they are finite. `LonePusher`: if there is one pusher only, it never
overruns, whatever the capacity (`NoOverrun`); with two, that is a finding.

### `ALinkedListProofs`

For every finite set of pushers, every set of readers and every number of nodes:
`TypeCorrect`, `ChainIsExact`, `LenIsCover` and `IterIsSound`, the invariants of the run
`containers` that are about `ALinkedList`. `OrderInv` says that `order` repeats no node and ends in `last`, and
that a node not yet swapped in is in it nowhere; `GapInv` that the list has a gap
just where a push has swapped and not linked, one push for each gap. `CountInv` says that
`len` lags behind `order` by the pushes that have swapped and not counted. Each of
these is at a gap of its own, so at least as many nodes lie behind the first gap as
`len` lags, and the nodes before it, all that an iteration can return, are no more than
`len`: this is `LenCovers`.

### The stagers

`StagerKeepsPromise` (in `FrameProofs`): `ComponentModifierStager` implements
`ModifierQueue`, for every `Hash` into the chains. `SingleInv` says that each chain holds exactly the modifiers that
hash to it and still wait, the smallest first (`ChainsInv`), and that what runs is of
its chain (`CurrentInv`). Two modifiers of one component are of one chain, and a chain
runs one.

`NoAliasing`: in `MultiComponentModifierStager` the modifiers that run have no
component in common, and run only in `execute`. That a stage's modifiers are disjoint
holds by its pointers, as long as the stages are not open (`StagesInv`): while the
actor drains one, nothing must be put into it. That follows from the handshake: Close
is the last message of all (`ChannelInv`), and a Close on its way, an actor in the
stages and a set flag exclude each other and mean that `execute` has not returned
(`HandshakeInv`).

`MultiKeepsPromise`: it implements `ModifierQueue`, if no target is empty. `RInv` adds
the order of the modifiers over all channels (`OrderInv`); that each is in a channel,
in one stage, running or done (`PlaceInv`); that first fit puts a modifier behind the
earlier ones that it has to wait for, since a stage that turned those away would turn
it away too (`StageOrderInv`); and that Close finds everything staged (`RoundInv`). A
modifier without components would fit anywhere, and overtake: hence the assumption.

### `FrameProofs`

`AccessIsExclusive`, `OneFrameRead`, `SinglePromiseKept`, `MultiPromiseKept`,
`ModificationsApplied` and `FrameTypeCorrect`: all the safety properties of the run
`frame`. A step of a frame is a step of each stager or leaves it alone
(`SingleSteps`, `MultiSteps`), so what is proved of the stagers alone holds in it;
that targets are not empty follows from `TargetsAssumption`. `PhaseInv` keeps the
three users of a component apart: references of systems, the first `execute`, the
second. `DoneInv` says what is complete in each phase, and `ValueInv` that a
component's value counts the executed modifiers that name it. For the type invariant,
`RoomInv` says that no channel exceeds its capacity, and `BoundInv` counts a call that
waits for room among those that have queued.

### `SimulationProofs`

For every set of workers, every number of frames, every bound on the particles and
every size of the channel: `TypeCorrect`, `FramesAreExact` and `NotUnderRenderer`, the
invariants of the run `simulation`. It has two arguments.

The jobs (`JobsInv`). Injector, deques and stacks are lines of jobs, and each step of
the pool moves a job from the end of one line to another, adds some or drops one. The
jobs that there is one of at most are in one line once (`OnceInv`). The renderer's job, as
long as it is in a deque, is the oldest in it, below all that the simulation forks; and
then no other worker has any job of the simulation (`PlaceInv`), since a thief takes the
oldest job first. So a simulation that has to wait finds its own jobs above the
renderer's and takes those, or the renderer's is gone. A run of the systems has its jobs somewhere only while it is
waited for (`WaitInv`), and before `join` begins nothing is simulated (`StartInv`).

The frames (`FramesInv`). There is a numbering of the messages on the channel with frames:
the first is of the frame that the renderer gathers, the last of the one that is being
sent, and it grows by one behind each `EndFrame`. A particle of a frame is on the channel,
gathered or in the video, in one of these and once (`SentOnce`); while its frame runs
it may still be to be sent, by one job (`RunningInv`); when the frame has ended it is not
(`EndedInv`). The numbering is not a variable: the invariant says that one exists, and
each step gives the next one.

### Only model-checked

All liveness, which is out of the prover's reach: `PushReturns`, `AddReturns`,
`FrameEnds`, `VideoDone`, `PushedIsFound`. `MVec` has no proofs: its one property is
refuted. Every safety property of a passing run is stated by a theorem, some of them
under a hypothesis: `OneCreator` in `UniverseProofs`, `OneRemover` in
`AnyVecLayoutProofs`. In each case the run without it is a finding, as it is for
`LonePusher`.

## Findings

1. `collections.rs:156`: a resize moves the list of blocks that other threads are
   walking (`anyvec_freed_list`). The same race can tear the pointer and the length
   of the `Vec`; the model's outcomes do not separate the two.
2. `collections.rs:80`: `swap_remove_by_ptr` is not safe for two threads with
   different pointers, against its comment (`removal_two`). The program calls it from
   one thread.
3. `universe.rs:292`: two first entities of a type, and one is lost
   (`universe_first_of_type`). `main.rs:208-210` does just this; the removal of the
   lost entity later uses a freed vector.
4. `main.rs:286`: the renderer, waiting for a part of its sort that another worker has
   stolen, may run a send that waits for the renderer (`simulation_stealing`). It takes a
   fourth worker to steal that part: one that waits for nobody takes back its own.
5. `mvec.rs:105`: `process_queue` drops an item by swapping it with the last one, and
   the addresses in the references and in its own queue go stale (`mvec`): of two drops
   the second may drop the first item again and lose a third.
6. `avec.rs:42`: a push that finds the vector full raises `len` before it takes the
   increment back, and another push in between finds `len` above the capacity
   (`avec_overrun`). It passes the test for equality and writes outside the slots; in a
   debug build the assertion at `avec.rs:41` fails instead. The comment at `avec.rs:34`
   says that it returns `Err`.

Remarks that are not findings. Combinations of one component (`collections.rs:237`)
panic as soon as there are two; nothing asks for them (`Combinations`). Two
parameters of the same type can be the same component, and a modifier queued
for that pair holds two mutable references to it (`subextract.rs:297`).
On a pool
of two workers the actor and the simulation hold both (`subextract.rs:156`), the
renderer is never begun and the simulation blocks as soon as the channel is full;
with one worker the program does not get past its setup. And when the id counter has
wrapped, the removal of an overwritten entity removes the one that has its id now,
which is more than the comment at `universe.rs:81` says will happen.

## What is not modelled

- Weak memory. Several operations are `Relaxed` where something is published
  (`collections.rs:148`, `subextract.rs:241`); TLC's states are sequentially
  consistent.
- The alignment of a block (a `Box<[u8]>` has that of a byte), components of size
  zero, allocation failures, and panics inside a system or a modifier.
- `add_entity` of a type is modelled for the one-component tuple, which is all that
  implements `ComponentsContainer`.
- The physics, drawing and camera of `jaya-test`, and ffmpeg: no state that matters
  to another part depends on them but the number of particles, which is left open.
- `Component`, `EntityId`, the extension of a Universe: nothing happens in them.
- What a push outside an `AVec`, or an `MVec` search below its first block, destroys:
  the first is counted, the second ends the model.
- A panic of a modifier in the actor: `rayon::spawn` aborts the process.

## The plan

In order of what matters most. Done: the modules of all parts; the proofs of all
safety properties that hold.

What is left is to say more, not to prove more of what is said: components of size zero
and the alignment of blocks, a memory model weaker than TLC's for the `Relaxed`
operations, and the pool's own queues, which `Simulation` takes from how the
program uses them.
