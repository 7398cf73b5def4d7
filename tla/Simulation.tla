----------------------------- MODULE Simulation -----------------------------
(***************************************************************************)
(* The program jaya-test/src/main.rs on rayon's pool of threads: the       *)
(* simulation runs its systems frame after frame and sends the particles   *)
(* of each frame, through a bounded channel, to the renderer, which makes  *)
(* a video of them.  Simulation, renderer, the actor of the Universe's     *)
(* MultiComponentModifierStager and the systems share the pool.            *)
(*                                                                         *)
(* A job waits in the injector or in the deque of the worker that forked   *)
(* it.  A worker takes the newest job of its own deque, then the oldest of *)
(* another's, then one from the injector, when it has nothing to do or     *)
(* waits for a job that another worker has; that job then runs on top of   *)
(* the one that waits.  A job that blocks keeps its worker.                *)
(*                                                                         *)
(* Modifiers are left out, and with them the system attraction, which does *)
(* nothing but queue them: they move particles and neither add nor remove  *)
(* any.                                                                    *)
(***************************************************************************)
EXTENDS Integers, SequencesExt

CONSTANTS
  Workers,        \* the threads of the pool
  FrameCount,     \* FRAME_COUNT
  ParticleCount,  \* PARTICLE_COUNT: particles at the beginning
  Capacity,       \* messages the channel holds
  MaxParticles    \* bound: particles ever added

ASSUME CountsAssumption ==
  FrameCount \in Nat \ {0} /\ MaxParticles \in Nat /\ ParticleCount \in 0 .. MaxParticles
ASSUME CapacityAssumption == Capacity \in Nat \ {0}

VARIABLES
  injector,   \* jobs that came from outside the pool, oldest first
  deque,      \* jobs each worker has forked, oldest first
  stack,      \* jobs each worker has begun, the one that runs last
  mainAt,     \* where main is, on a thread outside the pool
  simAt,      \* where the simulation is in its loop
  alive,      \* the particles in the Universe
  doomed,     \* those in its remove_queue
  born,       \* how many there have been
  chan,       \* frame_sender and frame_receiver
  renderAt,   \* where the renderer is in its loop
  gathered,   \* frame_data: how often it has each particle
  video,      \* the frames written to ffmpeg
  begun,      \* history: the particles when the systems of each frame started
  ended       \* history: and when they had returned

pool == <<injector, deque, stack>>
universe == <<alive, doomed, born>>
renderer == <<renderAt, gathered, video>>
histories == <<begun, ended>>
vars == <<pool, mainAt, simAt, universe, chan, renderer, histories>>

Particles == 1 .. MaxParticles
EndFrame == 0   \* the message that ends a frame

Job(k) == [kind |-> k, of |-> 0]
SendOf(e) == [kind |-> "send", of |-> e]

Init ==
  /\ injector = <<Job("actor")>>
  /\ deque = [w \in Workers |-> << >>]
  /\ stack = [w \in Workers |-> << >>]
  /\ mainAt = "setup"
  /\ simAt = "systems"
  /\ alive = {} /\ doomed = {} /\ born = 0
  /\ chan = << >>
  /\ renderAt = "recv"
  /\ gathered = [e \in Particles |-> 0]
  /\ video = << >>
  /\ begun = << >> /\ ended = << >>

-----------------------------------------------------------------------------
(* The pool                                                                *)

\* What the worker runs
Runs(w, k) == stack[w] # << >> /\ Last(stack[w]).kind = k

\* Some job of these kinds waits or has been begun
Unfinished(kinds) ==
  \E w \in Workers : \E j \in ToSet(deque[w]) \cup ToSet(stack[w]) : j.kind \in kinds

\* The jobs that a run of the systems forks
Systems == {"ageing", "sendAll", "sending", "send"}

Forks == {Systems, {"send"}, {"sort"}}

\* What the worker runs has forked these jobs and waits for them
WaitsFor(w, kinds) ==
  \/ Runs(w, "sim") /\ simAt = "wait" /\ kinds = Systems
  \/ Runs(w, "sending") /\ kinds = {"send"}
  \/ Runs(w, "render") /\ renderAt = "wait" /\ kinds = {"sort"}

\* It has nothing to run, or a job it waits for has not returned
Free(w) ==
  \/ stack[w] = << >>
  \/ \E kinds \in Forks : WaitsFor(w, kinds) /\ Unfinished(kinds)

Begin(w, j) == stack' = [stack EXCEPT ![w] = Append(@, j)]

\* The job that the worker runs returns
Return(w) == stack' = [stack EXCEPT ![w] = Front(@)]

\* The job that the worker runs forks others
Fork(w, jobs) == deque' = [deque EXCEPT ![w] = @ \o jobs]

\* It takes the newest job of its own
TakeOwn(w) ==
  /\ Free(w) /\ deque[w] # << >>
  /\ Begin(w, Last(deque[w]))
  /\ deque' = [deque EXCEPT ![w] = Front(@)]
  /\ UNCHANGED <<injector, mainAt, simAt, universe, chan, renderer, histories>>

\* It looks for a job elsewhere: what it waits for, if anything, has been stolen
Looks(w) == Free(w) /\ deque[w] = << >>

\* Broken variant: the newest job is stolen
StealNewest(w, v) ==
  /\ Looks(w) /\ deque[v] # << >>
  /\ Begin(w, Last(deque[v]))
  /\ deque' = [deque EXCEPT ![v] = Front(@)]
  /\ UNCHANGED <<injector, mainAt, simAt, universe, chan, renderer, histories>>

Steal(w, v) ==
  /\ Looks(w) /\ deque[v] # << >>
  /\ Begin(w, Head(deque[v]))
  /\ deque' = [deque EXCEPT ![v] = Tail(@)]
  /\ UNCHANGED <<injector, mainAt, simAt, universe, chan, renderer, histories>>

TakeInjected(w) ==
  /\ Looks(w) /\ injector # << >>
  /\ Begin(w, Head(injector))
  /\ injector' = Tail(injector)
  /\ UNCHANGED <<deque, mainAt, simAt, universe, chan, renderer, histories>>

TakeJob(w) ==
  \/ TakeOwn(w) \/ TakeInjected(w)
  \/ \E v \in Workers : Steal(w, v)

\* The actor has a thread; it keeps it, waiting for messages, for ever
ActorRuns == \E w \in Workers : Runs(w, "actor")

-----------------------------------------------------------------------------
(* main                                                                    *)

\* into_par_iter().for_each(add_entity): main waits for the pool to run it
InjectSetup ==
  /\ mainAt = "setup" /\ mainAt' = "adding"
  /\ injector' = Append(injector, Job("setup"))
  /\ UNCHANGED <<deque, stack, simAt, universe, chan, renderer, histories>>

Setup(w) ==
  /\ Runs(w, "setup") /\ Return(w)
  /\ alive' = 1 .. ParticleCount
  /\ born' = ParticleCount
  /\ mainAt' = "process"
  /\ UNCHANGED <<injector, deque, simAt, doomed, chan, renderer, histories>>

\* process_queues waits for the actor; then join, from outside the pool
InjectJoin ==
  /\ mainAt = "process" /\ mainAt' = "join"
  /\ ActorRuns
  /\ injector' = Append(injector, Job("join"))
  /\ UNCHANGED <<deque, stack, simAt, universe, chan, renderer, histories>>

Main == InjectSetup \/ InjectJoin

\* join runs the simulation at once and leaves the renderer to whoever comes
Join(w) ==
  /\ Runs(w, "join")
  /\ stack' = [stack EXCEPT ![w] = <<Job("sim")>>]
  /\ Fork(w, <<Job("render")>>)
  /\ UNCHANGED <<injector, mainAt, simAt, universe, chan, renderer, histories>>

-----------------------------------------------------------------------------
(* The simulation                                                          *)

SimGoto(w, from, to) == Runs(w, "sim") /\ simAt = from /\ simAt' = to

\* (attraction, ageing, |p1| send).run_once: ageing is done here or beside
\* the sending
RunSystems(w) ==
  /\ SimGoto(w, "systems", "wait")
  /\ Fork(w, <<Job("sendAll"), Job("ageing")>>)
  /\ begun' = Append(begun, alive)
  /\ UNCHANGED <<injector, stack, mainAt, universe, chan, renderer, ended>>

\* ageing: a particle whose time is up splits or is queued for removal
Ageing(w) ==
  /\ Runs(w, "ageing") /\ Return(w)
  /\ \E over \in SUBSET alive : \E split \in SUBSET over :
       LET n == Cardinality(split) IN
       /\ born + n <= MaxParticles
       /\ born' = born + n
       /\ alive' = alive \cup born + 1 .. born + n
       /\ doomed' = over \ split
  /\ UNCHANGED <<injector, deque, mainAt, simAt, chan, renderer, histories>>

\* The closure that sends a particle, on each that the iteration finds
SendAll(w) ==
  /\ Runs(w, "sendAll")
  /\ stack' = [stack EXCEPT ![w] = Append(Front(@), Job("sending"))]
  /\ Fork(w, SetToSeq({SendOf(e) : e \in alive}))
  /\ UNCHANGED <<injector, mainAt, simAt, universe, chan, renderer, histories>>

\* Broken variant: the bound of the channel is not respected
SendParticleAnyway(w) ==
  /\ Runs(w, "send")
  /\ chan' = Append(chan, Last(stack[w]).of)
  /\ Return(w)
  /\ UNCHANGED <<injector, deque, mainAt, simAt, universe, renderer, histories>>

\* frame_sender.send(Particle) waits while the channel is full
SendParticle(w) ==
  /\ Runs(w, "send") /\ Len(chan) < Capacity
  /\ chan' = Append(chan, Last(stack[w]).of)
  /\ Return(w)
  /\ UNCHANGED <<injector, deque, mainAt, simAt, universe, renderer, histories>>

Sent(w) ==
  /\ Runs(w, "sending") /\ ~Unfinished({"send"})
  /\ Return(w)
  /\ UNCHANGED <<injector, deque, mainAt, simAt, universe, chan, renderer, histories>>

\* Broken variant: the iteration that sends is not waited for
SystemsDoneEarly(w) ==
  /\ SimGoto(w, "wait", "end")
  /\ ~Unfinished({"ageing", "sendAll"})
  /\ ended' = Append(ended, alive)
  /\ UNCHANGED <<pool, mainAt, universe, chan, renderer, begun>>

\* run_once returns when every system has
SystemsDone(w) ==
  /\ SimGoto(w, "wait", "end")
  /\ ~Unfinished(Systems)
  /\ ended' = Append(ended, alive)
  /\ UNCHANGED <<pool, mainAt, universe, chan, renderer, begun>>

\* frame_sender.send(EndFrame)
SendEndFrame(w) ==
  /\ SimGoto(w, "end", "process")
  /\ Len(chan) < Capacity
  /\ chan' = Append(chan, EndFrame)
  /\ UNCHANGED <<pool, mainAt, universe, renderer, histories>>

\* process_queues waits for the actor and removes; the loop goes on or ends
ProcessQueues(w) ==
  /\ Runs(w, "sim") /\ simAt = "process" /\ ActorRuns
  /\ alive' = alive \ doomed
  /\ doomed' = {}
  /\ IF Len(begun) < FrameCount
     THEN simAt' = "systems" /\ UNCHANGED stack
     ELSE simAt' = "done" /\ Return(w)
  /\ UNCHANGED <<injector, deque, mainAt, born, chan, renderer, histories>>

Simulate(w) ==
  \/ RunSystems(w) \/ Ageing(w)
  \/ SendAll(w) \/ SendParticle(w) \/ Sent(w)
  \/ SystemsDone(w) \/ SendEndFrame(w) \/ ProcessQueues(w)

-----------------------------------------------------------------------------
(* The renderer                                                            *)

\* Broken variant: the renderer expects one frame more
WriteFrameAndOne ==
  /\ video' = Append(video, gathered)
  /\ gathered' = [e \in Particles |-> 0]
  /\ renderAt' = IF Len(video) = FrameCount THEN "exited" ELSE "recv"

\* A frame goes to ffmpeg; after the last one the process exits
WriteFrame ==
  /\ video' = Append(video, gathered)
  /\ gathered' = [e \in Particles |-> 0]
  /\ renderAt' = IF Len(video) + 1 = FrameCount THEN "exited" ELSE "recv"

\* frame_receiver.recv(); a frame of no particles is written as it is
Receive(w) ==
  LET msg == Head(chan) IN
  /\ Runs(w, "render") /\ renderAt = "recv"
  /\ chan # << >> /\ chan' = Tail(chan)
  /\ CASE msg # EndFrame ->
            /\ gathered' = [gathered EXCEPT ![msg] = @ + 1]
            /\ UNCHANGED <<renderAt, video>>
       [] msg = EndFrame /\ \A e \in Particles : gathered[e] = 0 -> WriteFrame
       [] OTHER -> renderAt' = "sort" /\ UNCHANGED <<gathered, video>>
  /\ UNCHANGED <<pool, mainAt, simAt, universe, histories>>

\* par_sort_unstable_by_key, by x or by y
ForkSort(w) ==
  /\ Runs(w, "render") /\ renderAt = "sort"
  /\ Fork(w, <<Job("sort")>>)
  /\ renderAt' = "wait"
  /\ UNCHANGED <<injector, stack, mainAt, simAt, universe, chan, gathered, video,
                 histories>>

Sort(w) ==
  /\ Runs(w, "sort") /\ Return(w)
  /\ UNCHANGED <<injector, deque, mainAt, simAt, universe, chan, renderer, histories>>

Sorted(w) ==
  /\ Runs(w, "render") /\ renderAt = "wait" /\ ~Unfinished({"sort"})
  /\ WriteFrame
  /\ UNCHANGED <<pool, mainAt, simAt, universe, chan, histories>>

Render(w) == Receive(w) \/ ForkSort(w) \/ Sort(w) \/ Sorted(w)

-----------------------------------------------------------------------------
WorkerStep(w) == TakeJob(w) \/ Setup(w) \/ Join(w) \/ Simulate(w) \/ Render(w)

Step == Main \/ \E w \in Workers : WorkerStep(w)

Next ==
  \/ renderAt # "exited" /\ Step
  \/ renderAt = "exited" /\ UNCHANGED vars

Spec == Init /\ [][Next]_vars

\* main and the workers run
Fairness ==
  /\ WF_vars(Main)
  /\ \A w \in Workers : WF_vars(renderAt # "exited" /\ WorkerStep(w))

FairSpec == Spec /\ Fairness

-----------------------------------------------------------------------------
(* Properties                                                              *)

Jobs ==
  {Job(k) : k \in {"actor", "setup", "join", "sim", "render", "sendAll", "sending",
                   "ageing", "sort"}} \cup {SendOf(e) : e \in Particles}

\* The shape of the state; one channel, never over its bound
TypeOK ==
  /\ injector \in Seq(Jobs)
  /\ deque \in [Workers -> Seq(Jobs)] /\ stack \in [Workers -> Seq(Jobs)]
  /\ mainAt \in {"setup", "adding", "process", "join"}
  /\ simAt \in {"systems", "wait", "end", "process", "done"}
  /\ alive \subseteq 1 .. born /\ doomed \subseteq alive /\ born \in 0 .. MaxParticles
  /\ chan \in Seq(Particles \cup {EndFrame}) /\ Len(chan) <= Capacity
  /\ renderAt \in {"recv", "sort", "wait", "exited"}
  /\ gathered \in [Particles -> Nat]
  /\ video \in Seq([Particles -> Nat]) /\ Len(video) <= FrameCount
  /\ Len(ended) <= Len(begun) /\ Len(begun) <= FrameCount

\* Frame i of the video has each particle there was when the systems of frame
\* i started, once, the ones about to be removed among them; besides these
\* only particles that came while the systems ran, none of them twice
FramesExact ==
  \A i \in 1 .. Len(video), e \in Particles :
    /\ video[i][e] <= 1
    /\ e \in begun[i] => video[i][e] = 1
    /\ video[i][e] = 1 => e \in ended[i]

\* The renderer, which waits for the simulation, never runs on top of it: what
\* a waiting simulation takes is never the renderer
SimulationNotUnderRenderer ==
  \A w \in Workers :
    ~ \E i, j \in DOMAIN stack[w] :
        i < j /\ stack[w][i].kind = "sim" /\ stack[w][j].kind = "render"

\* The video gets all its frames and the program exits
VideoDone == <>(renderAt = "exited")
=============================================================================
