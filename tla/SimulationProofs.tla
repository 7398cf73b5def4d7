-------------------------- MODULE SimulationProofs --------------------------
(***************************************************************************)
(* Proofs about Simulation, for any workers, numbers of frames and         *)
(* particles and any size of the channel.                                  *)
(*                                                                         *)
(* Two arguments.  The jobs of the pool: each that matters is there once,  *)
(* whichever worker has it; the renderer's is at the end of its deque that *)
(* is stolen from, below all that the simulation forks, so that as long as *)
(* it is there nobody has taken anything for the simulation to wait for.   *)
(* The frames: each message on the channel is of a frame, which is the one *)
(* before it or, behind an EndFrame, the next; a frame's particle is still *)
(* to be sent, on the channel, gathered or in the video, in one of these.  *)
(***************************************************************************)
EXTENDS Simulation, FiniteSetTheorems, SequenceTheorems, TLAPS

-----------------------------------------------------------------------------
(* The jobs                                                                *)

\* Where jobs are: the deque and the stack of each worker, and the injector
Owners == ({"deque", "stack"} \X Workers) \cup {<<"injector", "main">>}
DequeOf(w) == <<"deque", w>>
StackOf(w) == <<"stack", w>>
Injector == <<"injector", "main">>

\* The lines of jobs of an injector, deques and stacks
LinesOf(inj, deq, stk) ==
  [o \in Owners |-> IF o[1] = "deque" THEN deq[o[2]]
                    ELSE IF o[1] = "stack" THEN stk[o[2]] ELSE inj]

lines == LinesOf(injector, deque, stack)

\* In these lines the job is at index i of o
At(L, o, i, j) == o \in DOMAIN L /\ i \in 1 .. Len(L[o]) /\ L[o][i] = j

Ex(L, j) == \E o, i : At(L, o, i, j)
Once(L, j) == \A o, p, i, k : At(L, o, i, j) /\ At(L, p, k, j) => o = p /\ i = k

\* Some job of the kinds is anywhere
Some(kinds) == \E j \in Jobs : j.kind \in kinds /\ Ex(lines, j)

PoolShape ==
  /\ injector \in Seq(Jobs)
  /\ deque \in [Workers -> Seq(Jobs)] /\ stack \in [Workers -> Seq(Jobs)]

\* Before join has begun nothing has been simulated or rendered
Early ==
  /\ simAt = "systems" /\ renderAt = "recv"
  /\ begun = << >> /\ ended = << >> /\ chan = << >> /\ video = << >>
  /\ gathered = [e \in Particles |-> 0] /\ doomed = {}
  /\ \A j \in Jobs : Ex(lines, j) => j.kind \in {"actor", "setup", "join"}
  /\ \A w \in Workers : deque[w] = << >> /\ Len(stack[w]) <= 1

\* join has begun and setup has returned, for ever
Running == mainAt = "join" /\ ~Ex(lines, Job("join")) /\ ~Ex(lines, Job("setup"))

StartInv ==
  /\ Running \/ Early
  /\ Ex(lines, Job("setup")) => mainAt = "adding"
  /\ Ex(lines, Job("join")) => mainAt = "join"

Single == {"setup", "join", "sim", "render", "sendAll", "send"}

OnceInv ==
  /\ \A j \in Jobs : j.kind \in Single => Once(lines, j)
  /\ Ex(lines, Job("sendAll")) => \A e \in Particles : ~Ex(lines, SendOf(e))

InjectorPlaces == \A i \in 1 .. Len(injector) : injector[i].kind \in {"actor", "setup", "join"}
DequePlaces == \A w \in Workers : \A i \in 1 .. Len(deque[w]) : deque[w][i].kind # "sim"

\* The simulation is the first job that its worker has begun, and one that
\* sends a particle is the last
StackPlaces ==
  \A w \in Workers : \A i \in 1 .. Len(stack[w]) :
    /\ stack[w][i].kind = "sim" => i = 1
    /\ stack[w][i].kind = "send" => i = Len(stack[w])

\* The worker has nothing of the simulation
HasNoSim(w) ==
  /\ \A k \in 1 .. Len(deque[w]) : deque[w][k].kind \notin Systems
  /\ \A k \in 1 .. Len(stack[w]) : stack[w][k].kind \notin Systems \cup {"sim"}

\* As long as the renderer is in a deque it is the oldest there, and a
\* simulation is on the same worker with all its jobs
RenderPlaces ==
  \A w \in Workers : \A i \in 1 .. Len(deque[w]) : deque[w][i].kind = "render" =>
    i = 1 /\ \A v \in Workers \ {w} : HasNoSim(v)

\* What a run of the systems forks is there only while it is waited for
WaitInv == Some(Systems) => simAt = "wait"

PlaceInv ==
  InjectorPlaces /\ DequePlaces /\ StackPlaces /\ RenderPlaces /\ SimulationNotUnderRenderer

JobsInv == PoolShape /\ StartInv /\ OnceInv /\ PlaceInv /\ WaitInv

-----------------------------------------------------------------------------
(* The frames                                                              *)

\* The frame that the next message belongs to, on either side of the channel
Receiving == IF renderAt \in {"sort", "wait"} THEN Len(video) + 2 ELSE Len(video) + 1
Sending == IF simAt \in {"wait", "end"} THEN Len(begun) ELSE Len(begun) + 1

\* f says to which frame each message on the channel belongs
Numbering(f) ==
  /\ f \in Seq(Nat) /\ Len(f) = Len(chan) + 1
  /\ f[1] = Receiving /\ f[Len(chan) + 1] = Sending
  /\ \A p \in 1 .. Len(chan) : f[p + 1] = IF chan[p] = EndFrame THEN f[p] + 1 ELSE f[p]
  /\ \A p, q \in 1 .. Len(chan) + 1 : p <= q => f[p] <= f[q]

\* Particle e is on the channel c for frame i
OnChannel(c, f, i, e) == \E p \in 1 .. Len(c) : f[p] = i /\ c[p] = e

\* It has been sent in frame i
Has(f, i, e) ==
  \/ OnChannel(chan, f, i, e)
  \/ i = Len(video) + 1 /\ gathered[e] = 1
  \/ i \in 1 .. Len(video) /\ video[i][e] = 1

\* ... at most once, and in a frame that has begun
SentOnce(f) ==
  /\ \A p, q \in 1 .. Len(chan) : chan[p] = chan[q] /\ chan[p] # EndFrame /\ f[p] = f[q] => p = q
  /\ \A p \in 1 .. Len(chan) : chan[p] # EndFrame /\ f[p] = Len(video) + 1 => gathered[chan[p]] = 0
  /\ \A e \in Particles : gathered[e] \in {0, 1}
  /\ \A i \in 1 .. Len(video), e \in Particles : video[i][e] \in {0, 1}
  /\ \A i \in Nat, e \in Particles : Has(f, i, e) => i \in 1 .. Len(begun)

\* The frames that have ended are complete
EndedInv(f) ==
  \A i \in 1 .. Len(ended), e \in Particles :
    (e \in begun[i] => Has(f, i, e)) /\ (Has(f, i, e) => e \in ended[i])

\* In the frame that runs each particle that was there is still to be sent or
\* has been
ToSend(e) == Ex(lines, Job("sendAll")) \/ Ex(lines, SendOf(e))

RunningInv(f) ==
  simAt = "wait" =>
    /\ begun[Len(begun)] \subseteq alive
    /\ \A e \in Particles :
         /\ Has(f, Len(begun), e) => e \in alive /\ ~ToSend(e)
         /\ Ex(lines, SendOf(e)) => e \in alive
         /\ e \in begun[Len(begun)] => ToSend(e) \/ Has(f, Len(begun), e)

Shape ==
  /\ mainAt \in {"setup", "adding", "process", "join"}
  /\ simAt \in {"systems", "wait", "end", "process", "done"}
  /\ alive \subseteq 1 .. born /\ doomed \subseteq alive /\ born \in 0 .. MaxParticles
  /\ chan \in Seq(Particles \cup {EndFrame}) /\ Len(chan) <= Capacity
  /\ renderAt \in {"recv", "sort", "wait", "exited"}
  /\ gathered \in [Particles -> Nat]
  /\ video \in Seq([Particles -> Nat])
  /\ IF renderAt = "exited" THEN Len(video) = FrameCount ELSE Len(video) < FrameCount
  /\ begun \in Seq(SUBSET Particles) /\ ended \in Seq(SUBSET Particles)
  /\ Len(begun) = IF simAt = "wait" THEN Len(ended) + 1 ELSE Len(ended)
  /\ IF simAt = "systems" THEN Len(begun) < FrameCount ELSE Len(begun) <= FrameCount

FramesInv(f) == Numbering(f) /\ SentOnce(f) /\ EndedInv(f) /\ RunningInv(f)

SInv == Shape /\ JobsInv /\ \E f : FramesInv(f)

-----------------------------------------------------------------------------
(* Lines of jobs that grow, shrink and pass a job on                       *)

Lines == [Owners -> Seq(Jobs)]

\* The first job, or the last one, of line o becomes the last of line p
FirstMoved(L, M, o, p) ==
  /\ o \in Owners /\ p \in Owners /\ o # p /\ L[o] # << >>
  /\ M[o] = Tail(L[o]) /\ M[p] = Append(L[p], Head(L[o]))
  /\ \A q \in Owners \ {o, p} : M[q] = L[q]

LastMoved(L, M, o, p) ==
  /\ o \in Owners /\ p \in Owners /\ o # p /\ L[o] # << >>
  /\ M[o] = Front(L[o]) /\ M[p] = Append(L[p], Last(L[o]))
  /\ \A q \in Owners \ {o, p} : M[q] = L[q]

\* The last job of line o leaves it
LastLeft(L, M, o) ==
  /\ o \in Owners /\ L[o] # << >>
  /\ M[o] = Front(L[o]) /\ \A q \in Owners \ {o} : M[q] = L[q]

\* The jobs s come to the end of line o
JobsCame(L, M, o, s) ==
  /\ o \in Owners /\ s \in Seq(Jobs)
  /\ M[o] = L[o] \o s /\ \A q \in Owners \ {o} : M[q] = L[q]

LEMMA TailIs ==
  ASSUME NEW S, NEW a \in Seq(S), a # << >>
  PROVE  /\ Tail(a) \in Seq(S) /\ Len(Tail(a)) = Len(a) - 1 /\ Len(a) > 0
         /\ \A k \in 1 .. Len(a) - 1 : Tail(a)[k] = a[k + 1]
         /\ Head(a) = a[1] /\ Head(a) \in S
BY HeadTailProperties, EmptySeq, LenProperties

LEMMA FrontIs ==
  ASSUME NEW S, NEW a \in Seq(S), a # << >>
  PROVE  /\ Front(a) \in Seq(S) /\ Len(Front(a)) = Len(a) - 1 /\ Len(a) > 0
         /\ \A k \in 1 .. Len(a) - 1 : Front(a)[k] = a[k]
         /\ Last(a) = a[Len(a)] /\ Last(a) \in S
<1>1. Len(a) \in Nat /\ Len(a) > 0
  BY EmptySeq
<1>2. Front(a) \in Seq(S) /\ Len(Front(a)) = Len(a) - 1 /\ \A k \in 1 .. Len(a) - 1 : Front(a)[k] = a[k]
  <2>1. PICK n \in Nat : n = Len(a) - 1
    BY <1>1
  <2>2. \A i \in 1 .. n : a[i] \in S
    BY <2>1
  <2>3. /\ SubSeq(a, 1, n) \in Seq(S) /\ Len(SubSeq(a, 1, n)) = IF 1 <= n THEN n - 1 + 1 ELSE 0
        /\ \A i \in 1 .. n - 1 + 1 : SubSeq(a, 1, n)[i] = a[1 + i - 1]
    BY <2>2, SubSeqProperties
  <2>4. SubSeq(a, 1, n) = Front(a)
    BY <2>1 DEF Front
  <2>5. n - 1 + 1 = n /\ \A i \in 1 .. n : 1 + i - 1 = i
    OBVIOUS
  <2>6. Len(Front(a)) = n
    BY <2>3, <2>4, <2>5
  <2>7. QED  BY <2>1, <2>3, <2>4, <2>5, <2>6
<1>3. Last(a) = a[Len(a)] /\ Last(a) \in S
  BY <1>1 DEF Last
<1>4. QED  BY <1>1, <1>2, <1>3

LEMMA AtIs ==
  ASSUME NEW L \in Lines
  PROVE  \A o, i, j : At(L, o, i, j) =>
           o \in Owners /\ i \in Nat /\ i >= 1 /\ i <= Len(L[o]) /\ L[o][i] = j /\ j \in Jobs
<1> SUFFICES ASSUME NEW o, NEW i, NEW j, At(L, o, i, j)
             PROVE  o \in Owners /\ i \in Nat /\ i >= 1 /\ i <= Len(L[o]) /\ L[o][i] = j /\ j \in Jobs
  OBVIOUS
<1>1. o \in Owners /\ i \in 1 .. Len(L[o]) /\ L[o][i] = j
  BY DEF At, Lines
<1>2. L[o] \in Seq(Jobs)
  BY <1>1 DEF Lines
<1>3. L[o][i] \in Jobs
  BY <1>1, <1>2, ElementOfSeq
<1>4. QED  BY <1>1, <1>2, <1>3

LEMMA FirstMovesAt ==
  ASSUME NEW L \in Lines, NEW M \in Lines, NEW o, NEW p, FirstMoved(L, M, o, p)
  PROVE  \A j, q, i : At(M, q, i, j) <=>
           \/ q = o /\ i \in Nat \ {0} /\ At(L, o, i + 1, j)
           \/ q = p /\ i = Len(L[p]) + 1 /\ At(L, o, 1, j)
           \/ q # o /\ At(L, q, i, j)
<1> TAKE j, q, i
<1>1. PICK a \in Seq(Jobs), b \in Seq(Jobs) : a = L[o] /\ b = L[p]
  BY DEF Lines, FirstMoved
<1>2. PICK m \in Nat, n \in Nat : m = Len(a) /\ n = Len(b) /\ m > 0
  BY <1>1, EmptySeq DEF FirstMoved
<1>3. CASE q = o
  <2>1. PICK c \in Seq(Jobs) : c = M[o] /\ Len(c) = m - 1 /\ \A k \in 1 .. m - 1 : c[k] = a[k + 1]
    <3>1. M[o] = Tail(a) /\ a # << >>
      BY <1>1 DEF FirstMoved
    <3>2. M[o] \in Seq(Jobs) /\ Len(M[o]) = m - 1 /\ \A k \in 1 .. m - 1 : M[o][k] = a[k + 1]
      BY <1>1, <1>2, <3>1, TailIs
    <3>3. QED  BY <3>2
  <2>2. i \in 1 .. m - 1 <=> i \in Nat \ {0} /\ i + 1 \in 1 .. m
    BY <1>2
  <2>3. At(M, q, i, j) <=> i \in 1 .. m - 1 /\ c[i] = j
    BY <1>3, <2>1 DEF At, FirstMoved, Lines
  <2>4. At(L, o, i + 1, j) <=> i + 1 \in 1 .. m /\ a[i + 1] = j
    BY <1>1, <1>2 DEF At, FirstMoved, Lines
  <2>5. q # p
    BY <1>3 DEF FirstMoved
  <2>6. QED  BY <1>3, <2>1, <2>2, <2>3, <2>4, <2>5
<1>4. CASE q = p
  <2>1. PICK c \in Seq(Jobs) : /\ c = M[p] /\ Len(c) = n + 1 /\ c[n + 1] = a[1]
                               /\ \A k \in 1 .. n : c[k] = b[k]
    <3>1. M[p] = Append(b, Head(a)) /\ a # << >>
      BY <1>1 DEF FirstMoved
    <3>2. Head(a) = a[1] /\ a[1] \in Jobs
      BY <1>1, <3>1, TailIs
    <3>3. M[p] = Append(b, a[1])
      BY <3>1, <3>2
    <3>4. /\ M[p] \in Seq(Jobs) /\ Len(M[p]) = n + 1 /\ M[p][n + 1] = a[1]
          /\ \A k \in 1 .. n : M[p][k] = b[k]
      BY <1>2, <3>2, <3>3, AppendProperties
    <3>5. QED  BY <3>4
  <2>2. (i \in 1 .. n + 1 <=> i \in 1 .. n \/ i = n + 1) /\ n + 1 \notin 1 .. n
    BY <1>2
  <2>3. At(M, q, i, j) <=> i \in 1 .. n + 1 /\ c[i] = j
    BY <1>4, <2>1 DEF At, FirstMoved, Lines
  <2>4. At(L, q, i, j) <=> i \in 1 .. n /\ b[i] = j
    BY <1>1, <1>2, <1>4 DEF At, FirstMoved, Lines
  <2>5. At(L, o, 1, j) <=> a[1] = j
    BY <1>1, <1>2 DEF At, FirstMoved, Lines
  <2>6. q # o /\ Len(L[p]) = n
    BY <1>1, <1>2, <1>4 DEF FirstMoved
  <2>7. QED  BY <1>4, <2>1, <2>2, <2>3, <2>4, <2>5, <2>6
<1>5. CASE q \in Owners \ {o, p}
  BY <1>5 DEF At, Lines, FirstMoved
<1>6. CASE q \notin Owners
  BY <1>6 DEF At, Lines, FirstMoved
<1>7. QED  BY <1>3, <1>4, <1>5, <1>6

LEMMA FirstMoves ==
  ASSUME NEW L \in Lines, NEW M \in Lines, NEW o, NEW p, FirstMoved(L, M, o, p)
  PROVE  \A j : (Ex(M, j) <=> Ex(L, j)) /\ (Once(L, j) => Once(M, j))
<1> TAKE j
<1>1. PICK n \in Nat : n = Len(L[p])
  BY DEF FirstMoved, Lines
<1>2. \A q, i : At(M, q, i, j) <=>
           \/ q = o /\ i \in Nat \ {0} /\ At(L, o, i + 1, j)
           \/ q = p /\ i = n + 1 /\ At(L, o, 1, j)
           \/ q # o /\ At(L, q, i, j)
  BY <1>1, FirstMovesAt
<1>3. \A q, i : At(L, q, i, j) => i \in Nat \ {0} /\ (q = p => i <= n)
  BY <1>1, AtIs
<1>4. ASSUME NEW q, NEW i, At(L, q, i, j)
      PROVE  \E r, k : At(M, r, k, j)
  <2>1. CASE q = o /\ i = 1
    BY <1>2, <1>4, <2>1
  <2>2. CASE q = o /\ i # 1
    <3>1. i - 1 \in Nat \ {0} /\ (i - 1) + 1 = i
      BY <1>3, <1>4, <2>2
    <3>2. At(M, o, i - 1, j)
      BY <1>2, <1>4, <2>2, <3>1
    <3>3. QED  BY <3>2
  <2>3. CASE q # o
    BY <1>2, <1>4, <2>3
  <2>4. QED  BY <2>1, <2>2, <2>3
<1>5. Ex(M, j) <=> Ex(L, j)
  BY <1>2, <1>4 DEF Ex
<1>6. ASSUME Once(L, j), NEW q, NEW r, NEW i, NEW k, At(M, q, i, j), At(M, r, k, j)
      PROVE  q = r /\ i = k
  <2>1. \A s, t, a, b : At(L, s, a, j) /\ At(L, t, b, j) => s = t /\ a = b
    BY <1>6 DEF Once
  <2>2. CASE q = o /\ i \in Nat \ {0} /\ At(L, o, i + 1, j)
    <3>1. i + 1 # 1
      BY <2>2
    <3>2. q = r /\ k \in Nat /\ k + 1 = i + 1
      BY <1>2, <1>6, <2>1, <2>2, <3>1
    <3>3. QED  BY <2>2, <3>2
  <2>3. CASE q = p /\ i = n + 1 /\ At(L, o, 1, j)
    <3>1. \A l \in Nat \ {0} : l + 1 # 1
      OBVIOUS
    <3>2. QED  BY <1>2, <1>6, <2>1, <2>3, <3>1
  <2>4. CASE q # o /\ At(L, q, i, j)
    BY <1>2, <1>6, <2>1, <2>4
  <2>5. QED  BY <1>2, <1>6, <2>2, <2>3, <2>4
<1>7. QED  BY <1>5, <1>6 DEF Once

LEMMA LastLeavesAt ==
  ASSUME NEW L \in Lines, NEW M \in Lines, NEW o, LastLeft(L, M, o)
  PROVE  /\ \A j, q, i : At(M, q, i, j) <=> At(L, q, i, j) /\ ~ (q = o /\ i = Len(L[o]))
         /\ At(L, o, Len(L[o]), Last(L[o]))
<1>1. PICK a \in Seq(Jobs), m \in Nat : a = L[o] /\ m = Len(a) /\ m > 0
  BY EmptySeq DEF LastLeft, Lines
<1>2. At(L, o, Len(L[o]), Last(L[o]))
  BY <1>1 DEF At, Last, LastLeft, Lines
<1>3. ASSUME NEW j, NEW q, NEW i
      PROVE  At(M, q, i, j) <=> At(L, q, i, j) /\ ~ (q = o /\ i = m)
  <2>1. CASE q = o
    <3>1. PICK c \in Seq(Jobs) : c = M[o] /\ Len(c) = m - 1 /\ \A k \in 1 .. m - 1 : c[k] = a[k]
      <4>1. M[o] = Front(a) /\ a # << >>
        BY <1>1 DEF LastLeft
      <4>2. /\ Front(a) \in Seq(Jobs) /\ Len(Front(a)) = Len(a) - 1
            /\ \A k \in 1 .. Len(a) - 1 : Front(a)[k] = a[k]
        BY <4>1, FrontIs
      <4>3. QED  BY <1>1, <4>1, <4>2
    <3>2. i \in 1 .. m - 1 <=> i \in 1 .. m /\ i # m
      BY <1>1
    <3>3. At(M, q, i, j) <=> i \in 1 .. m - 1 /\ c[i] = j
      BY <2>1, <3>1 DEF At, LastLeft, Lines
    <3>4. At(L, q, i, j) <=> i \in 1 .. m /\ a[i] = j
      BY <1>1, <2>1 DEF At, LastLeft, Lines
    <3>5. QED  BY <2>1, <3>1, <3>2, <3>3, <3>4
  <2>2. CASE q \in Owners \ {o}
    BY <2>2 DEF At, LastLeft, Lines
  <2>3. CASE q \notin Owners
    BY <2>3 DEF At, LastLeft, Lines
  <2>4. QED  BY <2>1, <2>2, <2>3
<1>4. QED  BY <1>1, <1>2, <1>3

LEMMA LastLeaves ==
  ASSUME NEW L \in Lines, NEW M \in Lines, NEW o, LastLeft(L, M, o)
  PROVE  \A j :
           /\ Ex(M, j) => Ex(L, j)
           /\ Ex(L, j) /\ j # Last(L[o]) => Ex(M, j)
           /\ Once(L, j) => Once(M, j)
           /\ Once(L, j) /\ j = Last(L[o]) => ~Ex(M, j)
<1>1. PICK m : m = Len(L[o])
  OBVIOUS
<1>2. \A j, q, i : At(M, q, i, j) <=> At(L, q, i, j) /\ ~ (q = o /\ i = m)
  BY <1>1, LastLeavesAt
<1>3. At(L, o, m, Last(L[o]))
  BY <1>1, LastLeavesAt
<1>4. \A j : At(L, o, m, j) => j = Last(L[o])
  BY <1>1 DEF At, Last
<1>5. TAKE j
<1>6. Ex(M, j) => Ex(L, j)
  BY <1>2, Zenon DEF Ex
<1>7. ASSUME Ex(L, j), j # Last(L[o])  PROVE Ex(M, j)
  <2>1. PICK q, i : At(L, q, i, j)
    BY <1>7 DEF Ex
  <2>2. At(M, q, i, j)
    BY <1>2, <1>4, <1>7, <2>1
  <2>3. QED  BY <2>2 DEF Ex
<1>8. ASSUME Once(L, j)  PROVE Once(M, j)
  <2>1. \A p, q, i, k : At(L, p, i, j) /\ At(L, q, k, j) => p = q /\ i = k
    BY <1>8 DEF Once
  <2>2. \A p, q, i, k : At(M, p, i, j) /\ At(M, q, k, j) => p = q /\ i = k
    BY <1>2, <2>1
  <2>3. QED  BY <2>2 DEF Once
<1>9. ASSUME Once(L, j), j = Last(L[o]), Ex(M, j)  PROVE FALSE
  <2>1. PICK q, i : At(M, q, i, j)
    BY <1>9 DEF Ex
  <2>2. \A r, k : At(L, r, k, j) => r = o /\ k = m
    BY <1>3, <1>9 DEF Once
  <2>3. QED  BY <1>2, <2>1, <2>2
<1>10. QED  BY <1>6, <1>7, <1>8, <1>9

LEMMA JobsComeAt ==
  ASSUME NEW L \in Lines, NEW M \in Lines, NEW o, NEW s, JobsCame(L, M, o, s)
  PROVE  \A j, q, i : At(M, q, i, j) <=>
           \/ At(L, q, i, j)
           \/ /\ q = o /\ i \in Nat /\ i - Len(L[o]) \in 1 .. Len(s)
              /\ s[i - Len(L[o])] = j
<1> TAKE j, q, i
<1>1. PICK a \in Seq(Jobs), m \in Nat, n \in Nat : a = L[o] /\ m = Len(a) /\ n = Len(s)
  BY DEF JobsCame, Lines
<1>2. CASE q = o
  <2>1. PICK c \in Seq(Jobs) : c = M[o] /\ c = a \o s
    BY <1>1 DEF JobsCame, Lines
  <2>2. Len(c) = m + n /\ \A k \in 1 .. m + n : c[k] = IF k <= m THEN a[k] ELSE s[k - m]
    BY <1>1, <2>1 DEF JobsCame
  <2>3. i \in 1 .. m + n <=> i \in 1 .. m \/ (i \in Nat /\ i - m \in 1 .. n)
    BY <1>1
  <2>4. At(M, q, i, j) <=> i \in 1 .. m + n /\ c[i] = j
    BY <1>2, <2>1, <2>2 DEF At, JobsCame, Lines
  <2>5. At(L, q, i, j) <=> i \in 1 .. m /\ a[i] = j
    BY <1>1, <1>2 DEF At, JobsCame, Lines
  <2>6. CASE i \in 1 .. m
    <3>1. i <= m /\ ~ (i - m \in 1 .. n)
      BY <1>1, <2>6
    <3>2. QED  BY <1>1, <1>2, <2>2, <2>3, <2>4, <2>5, <2>6, <3>1
  <2>7. CASE i \in Nat /\ i - m \in 1 .. n
    <3>1. ~ (i <= m) /\ i \notin 1 .. m
      BY <1>1, <2>7
    <3>2. QED  BY <1>1, <1>2, <2>2, <2>3, <2>4, <2>5, <2>7, <3>1
  <2>8. QED  BY <1>1, <1>2, <2>3, <2>4, <2>5, <2>6, <2>7
<1>3. CASE q \in Owners \ {o}
  BY <1>3 DEF At, JobsCame, Lines
<1>4. CASE q \notin Owners
  BY <1>4 DEF At, JobsCame, Lines
<1>5. QED  BY <1>2, <1>3, <1>4

LEMMA JobsCome ==
  ASSUME NEW L \in Lines, NEW M \in Lines, NEW o, NEW s, JobsCame(L, M, o, s)
  PROVE  \A j :
           /\ Ex(M, j) <=> Ex(L, j) \/ \E i \in 1 .. Len(s) : s[i] = j
           /\ Once(L, j) /\ (\A i \in 1 .. Len(s) : s[i] # j) => Once(M, j)
           /\ ~Ex(L, j) /\ (\A i, k \in 1 .. Len(s) : s[i] = j /\ s[k] = j => i = k) => Once(M, j)
<1> TAKE j
<1>1. PICK m \in Nat, n \in Nat : m = Len(L[o]) /\ n = Len(s)
  BY DEF JobsCame, Lines
<1>2. \A q, i : At(M, q, i, j) <=>
        At(L, q, i, j) \/ (q = o /\ i \in Nat /\ i - m \in 1 .. n /\ s[i - m] = j)
  BY <1>1, JobsComeAt
<1>3. ASSUME NEW i \in 1 .. n, s[i] = j
      PROVE  At(M, o, i + m, j)
  <2>1. i + m \in Nat /\ (i + m) - m = i
    OBVIOUS
  <2>2. QED  BY <1>2, <1>3, <2>1
<1>4. Ex(M, j) <=> Ex(L, j) \/ \E i \in 1 .. n : s[i] = j
  <2>1. Ex(M, j) => Ex(L, j) \/ \E i \in 1 .. n : s[i] = j
    BY <1>2, Zenon DEF Ex
  <2>2. Ex(L, j) => Ex(M, j)
    BY <1>2, Zenon DEF Ex
  <2>3. QED  BY <1>3, <2>1, <2>2, Zenon DEF Ex
<1>5. Once(L, j) /\ (\A i \in 1 .. n : s[i] # j) => Once(M, j)
  BY <1>2, Zenon DEF Once
<1>6. ASSUME ~Ex(L, j), \A i, k \in 1 .. n : s[i] = j /\ s[k] = j => i = k
      PROVE  Once(M, j)
  <2> SUFFICES ASSUME NEW q, NEW r, NEW i, NEW k, At(M, q, i, j), At(M, r, k, j)
               PROVE  q = r /\ i = k
    BY DEF Once
  <2>1. /\ q = o /\ i \in Nat /\ i - m \in 1 .. n /\ s[i - m] = j
        /\ r = o /\ k \in Nat /\ k - m \in 1 .. n /\ s[k - m] = j
    BY <1>2, <1>6, Zenon DEF Ex
  <2>2. i - m = k - m
    BY <1>6, <2>1
  <2>3. QED  BY <2>1, <2>2
<1>7. QED  BY <1>1, <1>4, <1>5, <1>6

LEMMA LastMoves ==
  ASSUME NEW L \in Lines, NEW M \in Lines, NEW o, NEW p, LastMoved(L, M, o, p)
  PROVE  \A j : (Ex(M, j) <=> Ex(L, j)) /\ (Once(L, j) => Once(M, j))
<1> TAKE j
<1>1. Last(L[o]) \in Jobs /\ Front(L[o]) \in Seq(Jobs)
  <2>1. PICK a \in Seq(Jobs) : a = L[o] /\ Len(a) > 0
    BY EmptySeq DEF LastMoved, Lines
  <2>2. QED  BY <2>1 DEF Front, Last
<1>2. PICK K \in Lines, s \in Seq(Jobs) :
        LastLeft(L, K, o) /\ s = <<Last(L[o])>> /\ Len(s) = 1 /\ s[1] = Last(L[o])
  <2> DEFINE K == [q \in Owners |-> IF q = o THEN Front(L[o]) ELSE L[q]]
             s == <<Last(L[o])>>
  <2>1. K \in Lines /\ LastLeft(L, K, o)
    BY <1>1 DEF Lines, LastMoved, LastLeft
  <2>2. s \in Seq(Jobs) /\ Len(s) = 1 /\ s[1] = Last(L[o])
    BY <1>1
  <2> HIDE DEF K
  <2>3. QED  BY <2>1, <2>2
<1>3. JobsCame(K, M, p, s)
  <2>1. PICK a \in Seq(Jobs) : a = L[p]
    BY DEF LastMoved, Lines
  <2>2. Append(a, Last(L[o])) = a \o <<Last(L[o])>>
    BY <1>1, AppendIsConcat
  <2>3. QED  BY <1>2, <2>1, <2>2 DEF JobsCame, LastMoved, LastLeft
<1>4. /\ Ex(K, j) => Ex(L, j)
      /\ Ex(L, j) /\ j # Last(L[o]) => Ex(K, j)
      /\ Once(L, j) => Once(K, j)
      /\ Once(L, j) /\ j = Last(L[o]) => ~Ex(K, j)
  BY <1>2, LastLeaves
<1>5. /\ Ex(M, j) <=> Ex(K, j) \/ \E i \in 1 .. Len(s) : s[i] = j
      /\ Once(K, j) /\ (\A i \in 1 .. Len(s) : s[i] # j) => Once(M, j)
      /\ ~Ex(K, j) /\ (\A i, k \in 1 .. Len(s) : s[i] = j /\ s[k] = j => i = k) => Once(M, j)
  BY <1>2, <1>3, JobsCome
<1>6. Ex(L, Last(L[o]))
  <2>1. At(L, o, Len(L[o]), Last(L[o]))
    BY <1>2, LastLeavesAt
  <2>2. QED  BY <2>1 DEF Ex
<1>7. \A i \in 1 .. Len(s) : i = 1
  BY <1>2
<1>8. QED  BY <1>2, <1>4, <1>5, <1>6, <1>7

\* The last job of line o makes way for j, and the jobs s come to the end of
\* line p
Replaced(L, M, o, j, p, s) ==
  /\ o \in Owners /\ p \in Owners /\ o # p /\ L[o] # << >>
  /\ j \in Jobs /\ s \in Seq(Jobs)
  /\ M[o] = Append(Front(L[o]), j) /\ M[p] = L[p] \o s
  /\ \A q \in Owners \ {o, p} : M[q] = L[q]

\* Which jobs there are then
Turned(L, M, old, j, s) ==
  \A k :
    /\ Ex(M, k) => Ex(L, k) \/ k = j \/ \E i \in 1 .. Len(s) : s[i] = k
    /\ Ex(L, k) /\ k # old => Ex(M, k)
    /\ k = j \/ (\E i \in 1 .. Len(s) : s[i] = k) => Ex(M, k)
    /\ Once(L, k) /\ k # j /\ (\A i \in 1 .. Len(s) : s[i] # k) =>
         Once(M, k) /\ (k = old => ~Ex(M, k))
    /\ ~Ex(L, k) /\ k # j /\ (\A a, b \in 1 .. Len(s) : s[a] = k /\ s[b] = k => a = b) =>
         Once(M, k)
    /\ ~Ex(L, k) /\ k = j /\ (\A i \in 1 .. Len(s) : s[i] # k) => Once(M, k)

LEMMA Replaces ==
  ASSUME NEW L \in Lines, NEW M \in Lines, NEW o, NEW j, NEW p, NEW s,
         Replaced(L, M, o, j, p, s)
  PROVE  Turned(L, M, Last(L[o]), j, s)
<1> SUFFICES ASSUME NEW k
             PROVE
           /\ Ex(M, k) => Ex(L, k) \/ k = j \/ \E i \in 1 .. Len(s) : s[i] = k
           /\ Ex(L, k) /\ k # Last(L[o]) => Ex(M, k)
           /\ k = j \/ (\E i \in 1 .. Len(s) : s[i] = k) => Ex(M, k)
           /\ Once(L, k) /\ k # j /\ (\A i \in 1 .. Len(s) : s[i] # k) =>
                Once(M, k) /\ (k = Last(L[o]) => ~Ex(M, k))
           /\ ~Ex(L, k) /\ k # j /\ (\A a, b \in 1 .. Len(s) : s[a] = k /\ s[b] = k => a = b) =>
                Once(M, k)
           /\ ~Ex(L, k) /\ k = j /\ (\A i \in 1 .. Len(s) : s[i] # k) => Once(M, k)
  BY Zenon DEF Turned
<1>1. Front(L[o]) \in Seq(Jobs) /\ L[o] \in Seq(Jobs)
  <2>1. L[o] \in Seq(Jobs) /\ L[o] # << >>
    BY DEF Replaced, Lines
  <2>2. QED  BY <2>1, FrontIs
<1>2. PICK K \in Lines : LastLeft(L, K, o)
  <2> DEFINE K == [q \in Owners |-> IF q = o THEN Front(L[o]) ELSE L[q]]
  <2>1. K \in Lines /\ LastLeft(L, K, o)
    BY <1>1 DEF Lines, Replaced, LastLeft
  <2> HIDE DEF K
  <2>2. QED  BY <2>1
<1>3. PICK t \in Seq(Jobs) : t = <<j>> /\ Len(t) = 1 /\ t[1] = j
  <2>1. j \in Jobs
    BY DEF Replaced
  <2>2. <<j>> \in Seq(Jobs) /\ Len(<<j>>) = 1 /\ <<j>>[1] = j
    BY <2>1
  <2>3. QED  BY <2>2
<1>4. PICK N \in Lines : JobsCame(K, N, o, t) /\ N[o] = Append(Front(L[o]), j)
  <2> DEFINE N == [q \in Owners |-> IF q = o THEN Append(Front(L[o]), j) ELSE L[q]]
  <2>1. Append(Front(L[o]), j) = Front(L[o]) \o t
    BY <1>1, <1>3, AppendIsConcat DEF Replaced
  <2>2. Append(Front(L[o]), j) \in Seq(Jobs)
    BY <1>1, AppendProperties DEF Replaced
  <2>3. N \in Lines /\ N[o] = Append(Front(L[o]), j) /\ \A q \in Owners \ {o} : N[q] = L[q]
    BY <2>2 DEF Lines, Replaced
  <2>4. K[o] = Front(L[o]) /\ \A q \in Owners \ {o} : K[q] = L[q]
    BY <1>2 DEF LastLeft
  <2> HIDE DEF N
  <2>5. JobsCame(K, N, o, t)
    BY <1>3, <2>1, <2>3, <2>4 DEF JobsCame, Replaced
  <2>6. QED  BY <2>3, <2>5
<1>5. JobsCame(N, M, p, s)
  <2>1. \A q \in Owners \ {o} : N[q] = L[q]
    BY <1>2, <1>4 DEF JobsCame, LastLeft
  <2>2. QED  BY <1>4, <2>1 DEF JobsCame, Replaced
<1>6. /\ Ex(K, k) => Ex(L, k)
      /\ Ex(L, k) /\ k # Last(L[o]) => Ex(K, k)
      /\ Once(L, k) => Once(K, k)
      /\ Once(L, k) /\ k = Last(L[o]) => ~Ex(K, k)
  BY <1>2, LastLeaves
<1>7. /\ Ex(N, k) <=> Ex(K, k) \/ k = j
      /\ Once(K, k) /\ k # j => Once(N, k)
      /\ ~Ex(K, k) => Once(N, k)
  <2>1. /\ Ex(N, k) <=> Ex(K, k) \/ \E i \in 1 .. Len(t) : t[i] = k
        /\ Once(K, k) /\ (\A i \in 1 .. Len(t) : t[i] # k) => Once(N, k)
        /\ ~Ex(K, k) /\ (\A a, b \in 1 .. Len(t) : t[a] = k /\ t[b] = k => a = b) => Once(N, k)
    BY <1>4, JobsCome
  <2>2. \A i : i \in 1 .. Len(t) <=> i = 1
    BY <1>3
  <2>3. QED  BY <1>3, <2>1, <2>2
<1>8. /\ Ex(M, k) <=> Ex(N, k) \/ \E i \in 1 .. Len(s) : s[i] = k
      /\ Once(N, k) /\ (\A i \in 1 .. Len(s) : s[i] # k) => Once(M, k)
      /\ ~Ex(N, k) /\ (\A a, b \in 1 .. Len(s) : s[a] = k /\ s[b] = k => a = b) => Once(M, k)
  BY <1>5, JobsCome
<1>9. QED  BY <1>6, <1>7, <1>8, Zenon

-----------------------------------------------------------------------------
(* The lines of the pool                                                   *)

LEMMA JobKinds ==
  /\ \A j \in Jobs : j.kind = "send" => j.of \in Particles /\ j = SendOf(j.of)
  /\ \A j \in Jobs : j.kind # "send" => j = Job(j.kind)
  /\ \A k \in {"actor", "setup", "join", "sim", "render", "sendAll", "sending", "ageing", "sort"} :
       Job(k) \in Jobs /\ Job(k).kind = k /\ \A e : Job(k) # SendOf(e)
  /\ \A e : SendOf(e).kind = "send" /\ SendOf(e).of = e
  /\ \A e \in Particles : SendOf(e) \in Jobs
  /\ \A j \in Jobs : j.kind \in {"actor", "setup", "join", "sim", "render", "sendAll", "sending",
                                 "ageing", "sort", "send"}
<1> DEFINE Kinds == {"actor", "setup", "join", "sim", "render", "sendAll", "sending", "ageing",
                    "sort"}
<1>1. \A k, e : Job(k).kind = k /\ SendOf(e).kind = "send" /\ SendOf(e).of = e
  BY DEF Job, SendOf
<1>2. /\ \A j \in Jobs : (\E k \in Kinds : j = Job(k)) \/ \E e \in Particles : j = SendOf(e)
      /\ \A k \in Kinds : Job(k) \in Jobs
      /\ \A e \in Particles : SendOf(e) \in Jobs
  BY DEF Jobs
<1>3. "send" \notin Kinds
  OBVIOUS
<1>4. /\ \A j \in Jobs : j.kind = "send" => j.of \in Particles /\ j = SendOf(j.of)
      /\ \A j \in Jobs : j.kind # "send" => j = Job(j.kind)
      /\ \A j \in Jobs : j.kind \in Kinds \cup {"send"}
  BY <1>1, <1>2, <1>3
<1>5. \A k \in Kinds : Job(k) \in Jobs /\ Job(k).kind = k /\ \A e : Job(k) # SendOf(e)
  BY <1>1, <1>2, <1>3
<1>6. QED  BY <1>1, <1>2, <1>4, <1>5

LEMMA OwnersAre ==
  /\ Injector \in Owners
  /\ \A w \in Workers : DequeOf(w) \in Owners /\ StackOf(w) \in Owners
  /\ \A o \in Owners : o = Injector \/ \E w \in Workers : o = DequeOf(w) \/ o = StackOf(w)
  /\ \A v, w : DequeOf(v) # StackOf(w) /\ DequeOf(v) # Injector /\ StackOf(v) # Injector
  /\ \A v, w : DequeOf(v) = DequeOf(w) => v = w
  /\ \A v, w : StackOf(v) = StackOf(w) => v = w
BY DEF Owners, Injector, DequeOf, StackOf

LEMMA LinesAre ==
  ASSUME NEW inj \in Seq(Jobs), NEW deq \in [Workers -> Seq(Jobs)],
         NEW stk \in [Workers -> Seq(Jobs)]
  PROVE  /\ LinesOf(inj, deq, stk) \in Lines
         /\ LinesOf(inj, deq, stk)[Injector] = inj
         /\ \A w \in Workers : LinesOf(inj, deq, stk)[DequeOf(w)] = deq[w]
         /\ \A w \in Workers : LinesOf(inj, deq, stk)[StackOf(w)] = stk[w]
<1>1. \A o \in Owners : (o[1] = "deque" \/ o[1] = "stack" => o[2] \in Workers)
  BY DEF Owners
<1>2. QED  BY <1>1 DEF LinesOf, Lines, Injector, DequeOf, StackOf, Owners

\* A job is in a line where one of the variables has it
LEMMA JobAt ==
  ASSUME PoolShape
  PROVE  /\ \A w \in Workers : \A i \in 1 .. Len(stack[w]) :
              /\ stack[w][i] \in Jobs /\ At(lines, StackOf(w), i, stack[w][i])
              /\ Ex(lines, stack[w][i])
         /\ \A w \in Workers : \A i \in 1 .. Len(deque[w]) :
              /\ deque[w][i] \in Jobs /\ At(lines, DequeOf(w), i, deque[w][i])
              /\ Ex(lines, deque[w][i])
         /\ \A i \in 1 .. Len(injector) :
              /\ injector[i] \in Jobs /\ At(lines, Injector, i, injector[i])
              /\ Ex(lines, injector[i])
<1>1. /\ lines \in Lines /\ DOMAIN lines = Owners
      /\ lines[Injector] = injector
      /\ \A w \in Workers : lines[DequeOf(w)] = deque[w] /\ lines[StackOf(w)] = stack[w]
  BY LinesAre DEF PoolShape, lines, Lines
<1>2. ASSUME NEW w \in Workers, NEW i \in 1 .. Len(stack[w])
      PROVE  stack[w][i] \in Jobs /\ At(lines, StackOf(w), i, stack[w][i])
  BY <1>1, OwnersAre DEF At, PoolShape
<1>3. ASSUME NEW w \in Workers, NEW i \in 1 .. Len(deque[w])
      PROVE  deque[w][i] \in Jobs /\ At(lines, DequeOf(w), i, deque[w][i])
  BY <1>1, OwnersAre DEF At, PoolShape
<1>4. ASSUME NEW i \in 1 .. Len(injector)
      PROVE  injector[i] \in Jobs /\ At(lines, Injector, i, injector[i])
  BY <1>1, OwnersAre DEF At, PoolShape
<1>5. QED  BY <1>2, <1>3, <1>4 DEF Ex

\* ... and nowhere else
LEMMA WhereJobs ==
  ASSUME PoolShape, NEW j, Ex(lines, j)
  PROVE  /\ j \in Jobs
         /\ \/ \E i \in 1 .. Len(injector) : injector[i] = j
            \/ \E w \in Workers : \E i \in 1 .. Len(deque[w]) : deque[w][i] = j
            \/ \E w \in Workers : \E i \in 1 .. Len(stack[w]) : stack[w][i] = j
<1>1. /\ lines \in Lines /\ DOMAIN lines = Owners
      /\ lines[Injector] = injector
      /\ \A w \in Workers : lines[DequeOf(w)] = deque[w] /\ lines[StackOf(w)] = stack[w]
  BY LinesAre DEF PoolShape, lines, Lines
<1>2. PICK o, i : o \in Owners /\ i \in 1 .. Len(lines[o]) /\ lines[o][i] = j
  BY <1>1 DEF Ex, At
<1>3. j \in Jobs
  BY <1>1, <1>2, ElementOfSeq DEF Lines
<1>4. CASE o = Injector
  BY <1>1, <1>2, <1>3, <1>4
<1>5. ASSUME NEW w \in Workers, o = DequeOf(w)
      PROVE  \E k \in 1 .. Len(deque[w]) : deque[w][k] = j
  BY <1>1, <1>2, <1>5
<1>6. ASSUME NEW w \in Workers, o = StackOf(w)
      PROVE  \E k \in 1 .. Len(stack[w]) : stack[w][k] = j
  BY <1>1, <1>2, <1>6
<1>7. QED  BY <1>2, <1>3, <1>4, <1>5, <1>6, OwnersAre

LEMMA LinesNow ==
  ASSUME PoolShape
  PROVE  /\ lines \in Lines /\ lines[Injector] = injector
         /\ \A w \in Workers : lines[DequeOf(w)] = deque[w]
         /\ \A w \in Workers : lines[StackOf(w)] = stack[w]
BY LinesAre DEF PoolShape, lines

LEMMA LinesNext ==
  ASSUME PoolShape'
  PROVE  /\ lines' \in Lines /\ lines'[Injector] = injector'
         /\ \A w \in Workers : lines'[DequeOf(w)] = deque'[w]
         /\ \A w \in Workers : lines'[StackOf(w)] = stack'[w]
BY LinesAre DEF PoolShape, lines

LEMMA PoolLines ==
  ASSUME PoolShape, PoolShape'
  PROVE  /\ lines \in Lines /\ lines[Injector] = injector
         /\ \A w \in Workers : lines[DequeOf(w)] = deque[w] /\ lines[StackOf(w)] = stack[w]
         /\ lines' \in Lines /\ lines'[Injector] = injector'
         /\ \A w \in Workers : lines'[DequeOf(w)] = deque'[w] /\ lines'[StackOf(w)] = stack'[w]
BY LinesNow, LinesNext

\* A line that a step leaves alone
LEMMA OthersStay ==
  ASSUME PoolShape, PoolShape', NEW o \in Owners,
         o = Injector => injector' = injector,
         \A x \in Workers : (o = DequeOf(x) => deque'[x] = deque[x])
                            /\ (o = StackOf(x) => stack'[x] = stack[x])
  PROVE  lines'[o] = lines[o]
<1>1. CASE o = Injector
  BY <1>1, PoolLines
<1>2. ASSUME NEW v \in Workers, o = DequeOf(v) \/ o = StackOf(v)
      PROVE  lines'[o] = lines[o]
  <2>1. /\ lines[DequeOf(v)] = deque[v] /\ lines[StackOf(v)] = stack[v]
        /\ lines'[DequeOf(v)] = deque'[v] /\ lines'[StackOf(v)] = stack'[v]
    BY PoolLines
  <2>2. QED  BY <1>2, <2>1
<1>3. QED  BY <1>1, <1>2, OwnersAre

LEMMA PoolStays ==
  ASSUME UNCHANGED pool
  PROVE  lines' = lines /\ (PoolShape => PoolShape')
BY DEF pool, lines, LinesOf, PoolShape

\* A worker takes a job
LEMMA Takes ==
  ASSUME PoolShape, NEW w \in Workers, TakeJob(w)
  PROVE  /\ PoolShape'
         /\ \A j : (Ex(lines', j) <=> Ex(lines, j)) /\ (Once(lines, j) => Once(lines', j))
<1>1. CASE TakeOwn(w)
  <2>1. deque[w] \in Seq(Jobs) /\ deque[w] # << >> /\ stack[w] \in Seq(Jobs)
    BY <1>1 DEF TakeOwn, PoolShape
  <2>2. Last(deque[w]) \in Jobs /\ Front(deque[w]) \in Seq(Jobs)
    BY <2>1, FrontIs
  <2>3. Append(stack[w], Last(deque[w])) \in Seq(Jobs)
    BY <2>1, <2>2, AppendProperties
  <2>4. /\ deque' = [deque EXCEPT ![w] = Front(deque[w])]
        /\ stack' = [stack EXCEPT ![w] = Append(stack[w], Last(deque[w]))]
        /\ injector' = injector
    BY <1>1 DEF TakeOwn, Begin
  <2>5. PoolShape'
    BY <2>2, <2>3, <2>4 DEF PoolShape
  <2>6. \A o \in Owners \ {DequeOf(w), StackOf(w)} : lines'[o] = lines[o]
    <3> TAKE o \in Owners \ {DequeOf(w), StackOf(w)}
    <3>1. o = Injector => injector' = injector
      BY <2>4, <2>5
    <3>2. \A x \in Workers : (o = DequeOf(x) => deque'[x] = deque[x])
                              /\ (o = StackOf(x) => stack'[x] = stack[x])
      BY <2>4, <2>5 DEF PoolShape
    <3>3. QED  BY <3>1, <3>2, <2>4, <2>5, OthersStay
  <2>7. LastMoved(lines, lines', DequeOf(w), StackOf(w))
    BY <2>1, <2>4, <2>5, <2>6, PoolLines, OwnersAre DEF LastMoved, PoolShape
  <2>8. QED  BY <2>5, <2>7, PoolLines, LastMoves
<1>2. ASSUME NEW v \in Workers, Steal(w, v)
      PROVE  /\ PoolShape'
             /\ \A j : (Ex(lines', j) <=> Ex(lines, j)) /\ (Once(lines, j) => Once(lines', j))
  <2>1. deque[v] \in Seq(Jobs) /\ deque[v] # << >> /\ stack[w] \in Seq(Jobs)
    BY <1>2 DEF Steal, PoolShape
  <2>2. Head(deque[v]) \in Jobs /\ Tail(deque[v]) \in Seq(Jobs)
    BY <2>1, TailIs
  <2>3. Append(stack[w], Head(deque[v])) \in Seq(Jobs)
    BY <2>1, <2>2, AppendProperties
  <2>4. /\ deque' = [deque EXCEPT ![v] = Tail(deque[v])]
        /\ stack' = [stack EXCEPT ![w] = Append(stack[w], Head(deque[v]))]
        /\ injector' = injector
    BY <1>2 DEF Steal, Begin
  <2>5. PoolShape'
    BY <2>2, <2>3, <2>4 DEF PoolShape
  <2>6. \A o \in Owners \ {DequeOf(v), StackOf(w)} : lines'[o] = lines[o]
    <3> TAKE o \in Owners \ {DequeOf(v), StackOf(w)}
    <3>1. o = Injector => injector' = injector
      BY <2>4, <2>5
    <3>2. \A x \in Workers : (o = DequeOf(x) => deque'[x] = deque[x])
                              /\ (o = StackOf(x) => stack'[x] = stack[x])
      BY <2>4, <2>5 DEF PoolShape
    <3>3. QED  BY <3>1, <3>2, <2>4, <2>5, OthersStay
  <2>7. FirstMoved(lines, lines', DequeOf(v), StackOf(w))
    <3>1. /\ lines[DequeOf(v)] = deque[v] /\ lines[StackOf(w)] = stack[w]
          /\ lines'[DequeOf(v)] = deque'[v] /\ lines'[StackOf(w)] = stack'[w]
      BY <2>5, PoolLines
    <3>2. deque'[v] = Tail(deque[v]) /\ stack'[w] = Append(stack[w], Head(deque[v]))
      BY <2>4 DEF PoolShape
    <3>3. DequeOf(v) \in Owners /\ StackOf(w) \in Owners /\ DequeOf(v) # StackOf(w)
      BY OwnersAre
    <3>4. QED  BY <2>1, <2>6, <3>1, <3>2, <3>3 DEF FirstMoved
  <2>8. QED  BY <2>5, <2>7, PoolLines, FirstMoves
<1>3. CASE TakeInjected(w)
  <2>1. injector \in Seq(Jobs) /\ injector # << >> /\ stack[w] \in Seq(Jobs)
    BY <1>3 DEF TakeInjected, PoolShape
  <2>2. Head(injector) \in Jobs /\ Tail(injector) \in Seq(Jobs)
    BY <2>1, TailIs
  <2>3. Append(stack[w], Head(injector)) \in Seq(Jobs)
    BY <2>1, <2>2, AppendProperties
  <2>4. /\ deque' = deque
        /\ stack' = [stack EXCEPT ![w] = Append(stack[w], Head(injector))]
        /\ injector' = Tail(injector)
    BY <1>3 DEF TakeInjected, Begin
  <2>5. PoolShape'
    BY <2>2, <2>3, <2>4 DEF PoolShape
  <2>6. \A o \in Owners \ {Injector, StackOf(w)} : lines'[o] = lines[o]
    <3> TAKE o \in Owners \ {Injector, StackOf(w)}
    <3>1. o = Injector => injector' = injector
      BY <2>4, <2>5
    <3>2. \A x \in Workers : (o = DequeOf(x) => deque'[x] = deque[x])
                              /\ (o = StackOf(x) => stack'[x] = stack[x])
      BY <2>4, <2>5 DEF PoolShape
    <3>3. QED  BY <3>1, <3>2, <2>4, <2>5, OthersStay
  <2>7. FirstMoved(lines, lines', Injector, StackOf(w))
    BY <2>1, <2>4, <2>5, <2>6, PoolLines, OwnersAre DEF FirstMoved, PoolShape
  <2>8. QED  BY <2>5, <2>7, PoolLines, FirstMoves
<1>4. QED  BY <1>1, <1>2, <1>3 DEF TakeJob

\* The job that a worker runs returns
LEMMA Returns ==
  ASSUME PoolShape, NEW w \in Workers, stack[w] # << >>, Return(w), UNCHANGED <<injector, deque>>
  PROVE  /\ PoolShape'
         /\ \A j :
              /\ Ex(lines', j) => Ex(lines, j)
              /\ Ex(lines, j) /\ j # Last(stack[w]) => Ex(lines', j)
              /\ Once(lines, j) => Once(lines', j)
              /\ Once(lines, j) /\ j = Last(stack[w]) => ~Ex(lines', j)
<1>1. Front(stack[w]) \in Seq(Jobs)
  BY FrontIs DEF PoolShape
<1>2. stack' = [stack EXCEPT ![w] = Front(stack[w])]
  BY DEF Return
<1>3. PoolShape'
  BY <1>1, <1>2 DEF PoolShape
<1>4. \A o \in Owners \ {StackOf(w)} : lines'[o] = lines[o]
  <2> TAKE o \in Owners \ {StackOf(w)}
  <2>1. o = Injector => injector' = injector
    BY <1>2, <1>3
  <2>2. \A x \in Workers : (o = DequeOf(x) => deque'[x] = deque[x])
                            /\ (o = StackOf(x) => stack'[x] = stack[x])
    BY <1>2, <1>3 DEF PoolShape
  <2>3. QED  BY <2>1, <2>2, <1>2, <1>3, OthersStay
<1>5. LastLeft(lines, lines', StackOf(w)) /\ lines[StackOf(w)] = stack[w]
  BY <1>2, <1>3, <1>4, PoolLines, OwnersAre DEF LastLeft, PoolShape
<1>6. QED  BY <1>3, <1>5, PoolLines, LastLeaves

\* Jobs are forked
LEMMA ForksJobs ==
  ASSUME PoolShape, NEW w \in Workers, NEW s \in Seq(Jobs), Fork(w, s),
         UNCHANGED <<injector, stack>>
  PROVE  /\ PoolShape'
         /\ \A j :
              /\ Ex(lines', j) <=> Ex(lines, j) \/ \E i \in 1 .. Len(s) : s[i] = j
              /\ Once(lines, j) /\ (\A i \in 1 .. Len(s) : s[i] # j) => Once(lines', j)
              /\ ~Ex(lines, j) /\ (\A i, k \in 1 .. Len(s) : s[i] = j /\ s[k] = j => i = k) =>
                   Once(lines', j)
<1>1. deque' = [deque EXCEPT ![w] = deque[w] \o s] /\ deque[w] \o s \in Seq(Jobs)
  BY ConcatProperties DEF Fork, PoolShape
<1>2. PoolShape'
  BY <1>1 DEF PoolShape
<1>3. \A o \in Owners \ {DequeOf(w)} : lines'[o] = lines[o]
  <2> TAKE o \in Owners \ {DequeOf(w)}
  <2>1. o = Injector => injector' = injector
    BY <1>1, <1>2
  <2>2. \A x \in Workers : (o = DequeOf(x) => deque'[x] = deque[x])
                            /\ (o = StackOf(x) => stack'[x] = stack[x])
    BY <1>1, <1>2 DEF PoolShape
  <2>3. QED  BY <2>1, <2>2, <1>1, <1>2, OthersStay
<1>4. JobsCame(lines, lines', DequeOf(w), s)
  BY <1>1, <1>2, <1>3, PoolLines, OwnersAre DEF JobsCame, PoolShape
<1>5. QED  BY <1>2, <1>4, PoolLines, JobsCome

\* A job comes from outside the pool
LEMMA Injects ==
  ASSUME PoolShape, NEW j \in Jobs, injector' = Append(injector, j), UNCHANGED <<deque, stack>>
  PROVE  /\ PoolShape'
         /\ \A k : Ex(lines', k) <=> Ex(lines, k) \/ k = j
         /\ \A k : Once(lines, k) /\ k # j => Once(lines', k)
         /\ ~Ex(lines, j) => Once(lines', j)
<1>1. injector' = injector \o <<j>> /\ injector' \in Seq(Jobs)
  BY AppendProperties, AppendIsConcat DEF PoolShape
<1>2. PoolShape'
  BY <1>1 DEF PoolShape
<1>3. \A o \in Owners \ {Injector} : lines'[o] = lines[o]
  <2> TAKE o \in Owners \ {Injector}
  <2>1. o = Injector => injector' = injector
    BY <1>2
  <2>2. \A x \in Workers : (o = DequeOf(x) => deque'[x] = deque[x])
                            /\ (o = StackOf(x) => stack'[x] = stack[x])
    BY <1>2 DEF PoolShape
  <2>3. QED  BY <2>1, <2>2, <1>2, OthersStay
<1>4. PICK s \in Seq(Jobs) : s = <<j>> /\ \A i : i \in 1 .. Len(s) <=> i = 1
  <2>1. <<j>> \in Seq(Jobs) /\ Len(<<j>>) = 1 /\ \A i : i \in 1 .. 1 <=> i = 1
    OBVIOUS
  <2>2. QED  BY <2>1
<1>5. JobsCame(lines, lines', Injector, s)
  BY <1>1, <1>2, <1>3, <1>4, PoolLines, OwnersAre DEF JobsCame, PoolShape
<1>6. \A k :
        /\ Ex(lines', k) <=> Ex(lines, k) \/ \E i \in 1 .. Len(s) : s[i] = k
        /\ Once(lines, k) /\ (\A i \in 1 .. Len(s) : s[i] # k) => Once(lines', k)
        /\ ~Ex(lines, k) /\ (\A a, b \in 1 .. Len(s) : s[a] = k /\ s[b] = k => a = b) =>
             Once(lines', k)
  BY <1>2, <1>5, PoolLines, JobsCome
<1>7. s[1] = j
  BY <1>4
<1>8. QED  BY <1>2, <1>4, <1>6, <1>7

\* The job that a worker runs makes way for j and forks others
LEMMA GoesOn ==
  ASSUME PoolShape, NEW w \in Workers, stack[w] # << >>, NEW j \in Jobs, NEW s \in Seq(Jobs),
         stack' = [stack EXCEPT ![w] = Append(Front(stack[w]), j)], Fork(w, s),
         UNCHANGED injector
  PROVE  PoolShape' /\ Turned(lines, lines', Last(stack[w]), j, s)
<1>1. Append(Front(stack[w]), j) \in Seq(Jobs)
  BY FrontIs, AppendProperties DEF PoolShape
<1>2. deque' = [deque EXCEPT ![w] = deque[w] \o s] /\ deque[w] \o s \in Seq(Jobs)
  BY ConcatProperties DEF Fork, PoolShape
<1>3. PoolShape'
  BY <1>1, <1>2 DEF PoolShape
<1>4. \A o \in Owners \ {StackOf(w), DequeOf(w)} : lines'[o] = lines[o]
  <2> TAKE o \in Owners \ {StackOf(w), DequeOf(w)}
  <2>1. o = Injector => injector' = injector
    BY <1>2, <1>3
  <2>2. \A x \in Workers : (o = DequeOf(x) => deque'[x] = deque[x])
                            /\ (o = StackOf(x) => stack'[x] = stack[x])
    BY <1>2, <1>3 DEF PoolShape
  <2>3. QED  BY <2>1, <2>2, <1>2, <1>3, OthersStay
<1>5. Replaced(lines, lines', StackOf(w), j, DequeOf(w), s) /\ lines[StackOf(w)] = stack[w]
  BY <1>2, <1>3, <1>4, PoolLines, OwnersAre DEF Replaced, PoolShape
<1>6. QED  BY <1>3, <1>5, PoolLines, Replaces

-----------------------------------------------------------------------------
(* Where jobs may be                                                       *)

LEMMA LastIs ==
  \A a \in Seq(Jobs) : a # << >> =>
    Len(a) \in Nat /\ Len(a) >= 1 /\ Last(a) = a[Len(a)] /\ Last(a) \in Jobs
<1> TAKE a \in Seq(Jobs)
<1> HAVE a # << >>
<1>1. Len(a) \in Nat /\ Len(a) > 0
  BY EmptySeq
<1>2. Last(a) = a[Len(a)] /\ Last(a) \in Jobs
  BY FrontIs
<1>3. QED  BY <1>1, <1>2

LEMMA UnfinishedIs ==
  ASSUME PoolShape, NEW kinds
  PROVE  Unfinished(kinds) <=>
           \E v \in Workers :
             \/ \E i \in 1 .. Len(deque[v]) : deque[v][i].kind \in kinds
             \/ \E i \in 1 .. Len(stack[v]) : stack[v][i].kind \in kinds
BY DEF Unfinished, ToSet, PoolShape

\* Nothing of a run of the systems is left, in the injector either
LEMMA NothingLeft ==
  ASSUME PoolShape, InjectorPlaces, ~Unfinished(Systems)
  PROVE  ~Some(Systems)
<1> SUFFICES ASSUME NEW j \in Jobs, j.kind \in Systems, Ex(lines, j)
             PROVE  FALSE
  BY DEF Some
<1>1. CASE \E i \in 1 .. Len(injector) : injector[i] = j
  BY <1>1 DEF InjectorPlaces, Systems
<1>2. CASE ~ \E i \in 1 .. Len(injector) : injector[i] = j
  BY <1>2, WhereJobs, UnfinishedIs
<1>3. QED  BY <1>1, <1>2

\* What a worker runs is there
LEMMA RunsIs ==
  ASSUME PoolShape, NEW w \in Workers, NEW k, Runs(w, k)
  PROVE  /\ stack[w] # << >> /\ stack[w] \in Seq(Jobs)
         /\ Len(stack[w]) \in Nat /\ Len(stack[w]) >= 1
         /\ Last(stack[w]) = stack[w][Len(stack[w])]
         /\ Last(stack[w]) \in Jobs /\ Last(stack[w]).kind = k
         /\ Ex(lines, Last(stack[w])) /\ At(lines, StackOf(w), Len(stack[w]), Last(stack[w]))
         /\ k # "send" => Last(stack[w]) = Job(k) /\ Ex(lines, Job(k))
         /\ k = "send" => \E e \in Particles : Last(stack[w]) = SendOf(e)
<1>1. stack[w] # << >> /\ stack[w] \in Seq(Jobs) /\ Last(stack[w]).kind = k
  BY DEF Runs, PoolShape
<1>2. /\ Len(stack[w]) \in Nat /\ Len(stack[w]) >= 1
      /\ Last(stack[w]) = stack[w][Len(stack[w])] /\ Last(stack[w]) \in Jobs
  BY <1>1, LastIs
<1>3. /\ Ex(lines, Last(stack[w])) /\ At(lines, StackOf(w), Len(stack[w]), Last(stack[w]))
  BY <1>2, JobAt
<1>4. /\ k # "send" => Last(stack[w]) = Job(k)
      /\ k = "send" => \E e \in Particles : Last(stack[w]) = SendOf(e)
  BY <1>1, <1>2, JobKinds
<1>5. QED  BY <1>1, <1>2, <1>3, <1>4

\* A worker that waits or is idle does not run a job that sends a particle
LEMMA WaitsFree ==
  ASSUME NEW w \in Workers,
         stack[w] = << >> \/ \E kinds \in Forks : WaitsFor(w, kinds)
  PROVE  ~Runs(w, "send") /\ ~Runs(w, "actor")
BY DEF WaitsFor, Runs

\* The stack of one worker changes at its end
LEMMA StackChanges ==
  ASSUME PoolShape, PoolShape', StackPlaces, NEW w \in Workers, NEW j,
         \A v \in Workers \ {w} : stack'[v] = stack[v],
         \A i \in 1 .. Len(stack'[w]) :
           \/ i = Len(stack'[w]) /\ stack'[w][i] = j
           \/ i \in 1 .. Len(stack[w]) /\ stack'[w][i] = stack[w][i],
         j.kind = "sim" => Len(stack'[w]) = 1,
         ~Runs(w, "send") \/ Len(stack'[w]) < Len(stack[w])
  PROVE  StackPlaces'
<1> SUFFICES ASSUME NEW v \in Workers, NEW i \in 1 .. Len(stack'[v])
             PROVE  /\ stack'[v][i].kind = "sim" => i = 1
                    /\ stack'[v][i].kind = "send" => i = Len(stack'[v])
  BY DEF StackPlaces
<1>1. CASE v # w
  BY <1>1 DEF StackPlaces
<1>2. CASE v = w /\ i = Len(stack'[w]) /\ stack'[w][i] = j
  BY <1>2
<1>3. CASE v = w /\ i \in 1 .. Len(stack[w]) /\ stack'[w][i] = stack[w][i]
  <2>1. /\ stack[w][i].kind = "sim" => i = 1
        /\ stack[w][i].kind = "send" => i = Len(stack[w])
    BY <1>3 DEF StackPlaces
  <2>2. Len(stack[w]) \in Nat /\ Len(stack'[w]) \in Nat /\ i \in Nat /\ i <= Len(stack'[w])
    BY <1>3 DEF PoolShape
  <2>3. stack[w][i].kind = "send" => Runs(w, "send")
    <3>1. stack[w] # << >>
      BY <1>3 DEF PoolShape
    <3>2. QED  BY <2>1, <3>1 DEF Runs, Last
  <2>4. QED  BY <1>3, <2>1, <2>2, <2>3
<1>4. QED  BY <1>1, <1>2, <1>3

\* The worker gets no job of the simulation
LEMMA NoSimStays ==
  ASSUME NEW v \in Workers, HasNoSim(v),
         \A k \in 1 .. Len(deque'[v]) : \E i \in 1 .. Len(deque[v]) : deque'[v][k] = deque[v][i],
         \A k \in 1 .. Len(stack'[v]) :
           \/ stack'[v][k].kind \notin Systems \cup {"sim"}
           \/ \E i \in 1 .. Len(stack[v]) : stack'[v][k] = stack[v][i]
  PROVE  HasNoSim(v)'
<1>1. ASSUME NEW k \in 1 .. Len(deque'[v])
      PROVE  deque'[v][k].kind \notin Systems
  BY DEF HasNoSim
<1>2. ASSUME NEW k \in 1 .. Len(stack'[v])
      PROVE  stack'[v][k].kind \notin Systems \cup {"sim"}
  BY DEF HasNoSim
<1>3. QED  BY <1>1, <1>2 DEF HasNoSim, Systems

\* The renderer is at one place
LEMMA OneRenderer ==
  ASSUME PoolShape, OnceInv
  PROVE  \A o, p, i, k, a, b :
           At(lines, o, i, a) /\ At(lines, p, k, b) /\ a \in Jobs /\ b \in Jobs
             /\ a.kind = "render" /\ b.kind = "render" => o = p /\ i = k
<1>1. Job("render") \in Jobs /\ Job("render").kind = "render"
      /\ \A a \in Jobs : a.kind = "render" => a = Job("render")
  BY JobKinds
<1>2. Once(lines, Job("render"))
  BY <1>1 DEF OnceInv, Single
<1>3. QED  BY <1>1, <1>2 DEF Once

\* When the renderer is the newest job of a worker the worker is idle
LEMMA RenderTakenIdle ==
  ASSUME JobsInv, NEW w \in Workers, TakeOwn(w), Last(deque[w]).kind = "render"
  PROVE  stack[w] = << >> /\ Len(deque[w]) = 1
<1> USE DEF JobsInv, PlaceInv
<1>1. /\ deque[w] # << >> /\ deque[w] \in Seq(Jobs) /\ Len(deque[w]) \in Nat /\ Len(deque[w]) >= 1
      /\ Last(deque[w]) = deque[w][Len(deque[w])]
  <2>1. deque[w] # << >> /\ deque[w] \in Seq(Jobs)
    BY DEF TakeOwn, PoolShape
  <2>2. QED  BY <2>1, LastIs
<1>2. Len(deque[w]) = 1 /\ \A v \in Workers \ {w} : HasNoSim(v)
  <2>1. Len(deque[w]) \in 1 .. Len(deque[w]) /\ deque[w][Len(deque[w])].kind = "render"
    BY <1>1
  <2>2. QED  BY <2>1 DEF RenderPlaces
<1>3. deque[w][1].kind = "render"
  BY <1>1, <1>2
<1>4. ASSUME NEW kinds \in Forks, WaitsFor(w, kinds), Unfinished(kinds)
      PROVE  FALSE
  <2>1. PICK v \in Workers : \/ \E i \in 1 .. Len(deque[v]) : deque[v][i].kind \in kinds
                             \/ \E i \in 1 .. Len(stack[v]) : stack[v][i].kind \in kinds
    BY <1>4, UnfinishedIs
  <2>2. CASE Runs(w, "sim") /\ kinds = Systems
    <3>1. Len(stack[w]) = 1 /\ stack[w][1].kind = "sim"
      <4>1. PICK n \in Nat : n = Len(stack[w]) /\ n >= 1 /\ stack[w][n].kind = "sim"
        BY <2>2, RunsIs
      <4>2. n \in 1 .. n /\ \A i \in 1 .. n : stack[w][i].kind = "sim" => i = 1
        BY <4>1 DEF StackPlaces
      <4>3. n = 1
        BY <4>1, <4>2
      <4>4. QED  BY <4>1, <4>3
    <3>2. v = w
      BY <1>2, <2>1, <2>2 DEF HasNoSim
    <3>3. "render" \notin Systems /\ "sim" \notin Systems
      BY DEF Systems
    <3>4. QED  BY <1>2, <1>3, <2>1, <2>2, <3>1, <3>2, <3>3
  <2>3. CASE Runs(w, "sending") /\ kinds = {"send"}
    <3>1. Len(stack[w]) >= 1 /\ stack[w][Len(stack[w])].kind = "sending"
      BY <2>3, RunsIs
    <3>2. v = w
      BY <1>2, <2>1, <2>3 DEF HasNoSim, Systems
    <3>3. \A i \in 1 .. Len(stack[w]) : stack[w][i].kind = "send" => i = Len(stack[w])
      BY DEF StackPlaces
    <3>4. QED  BY <1>2, <1>3, <2>1, <2>3, <3>1, <3>2, <3>3
  <2>4. CASE Runs(w, "render")
    <3>1. At(lines, StackOf(w), Len(stack[w]), Last(stack[w])) /\ Last(stack[w]).kind = "render"
          /\ Last(stack[w]) \in Jobs
      BY <2>4, RunsIs
    <3>2. At(lines, DequeOf(w), 1, deque[w][1]) /\ deque[w][1] \in Jobs
      BY <1>2, JobAt
    <3>3. DequeOf(w) = StackOf(w)
      BY <1>3, <3>1, <3>2, OneRenderer
    <3>4. QED  BY <3>3, OwnersAre
  <2>5. QED  BY <1>4, <2>2, <2>3, <2>4 DEF WaitsFor
<1>5. QED  BY <1>2, <1>4 DEF TakeOwn, Free

\* A worker that does not send takes job j
LEMMA TakePlaces ==
  ASSUME JobsInv, PoolShape', NEW w \in Workers, NEW j \in Jobs,
         ~Runs(w, "send"), j.kind # "sim",
         stack' = [stack EXCEPT ![w] = Append(stack[w], j)],
         InjectorPlaces',
         \A v \in Workers : \A k \in 1 .. Len(deque'[v]) :
           /\ \E i \in 1 .. Len(deque[v]) : deque'[v][k] = deque[v][i]
           /\ deque'[v][k].kind = "render" => k = 1 /\ (v # w => j.kind \notin Systems),
         j.kind = "render" => \A i \in 1 .. Len(stack[w]) : stack[w][i].kind # "sim"
  PROVE  PlaceInv'
<1>1. PICK a \in Seq(Jobs), m \in Nat : a = stack[w] /\ m = Len(a)
  BY DEF JobsInv, PoolShape
<1>2. PICK b \in Seq(Jobs) :
        b = stack'[w] /\ Len(b) = m + 1 /\ b[m + 1] = j /\ \A i \in 1 .. m : b[i] = a[i]
  <2>1. stack'[w] = Append(a, j)
    BY <1>1 DEF JobsInv, PoolShape
  <2>2. /\ Append(a, j) \in Seq(Jobs) /\ Len(Append(a, j)) = m + 1 /\ Append(a, j)[m + 1] = j
        /\ \A i \in 1 .. m : Append(a, j)[i] = a[i]
    BY <1>1, AppendProperties
  <2>3. QED  BY <2>1, <2>2
<1>3. \A v \in Workers \ {w} : stack'[v] = stack[v]
  BY DEF JobsInv, PoolShape
<1>4. \A i \in 1 .. m + 1 : i = m + 1 \/ i \in 1 .. m
  BY <1>1
<1>5. DequePlaces'
  <2>1. ASSUME NEW v \in Workers, NEW k \in 1 .. Len(deque'[v])
        PROVE  deque'[v][k].kind # "sim"
    <3>1. \A i \in 1 .. Len(deque[v]) : deque[v][i].kind # "sim"
      BY DEF JobsInv, PlaceInv, DequePlaces
    <3>2. PICK i \in 1 .. Len(deque[v]) : deque'[v][k] = deque[v][i]
      OBVIOUS
    <3>3. QED  BY <3>1, <3>2
  <2>2. QED  BY <2>1 DEF DequePlaces
<1>6. StackPlaces'
  <2>1. \A i \in 1 .. Len(stack'[w]) :
          \/ i = Len(stack'[w]) /\ stack'[w][i] = j
          \/ i \in 1 .. Len(stack[w]) /\ stack'[w][i] = stack[w][i]
    BY <1>1, <1>2, <1>4
  <2>2. PoolShape /\ StackPlaces
    BY DEF JobsInv, PlaceInv
  <2>3. QED  BY <1>3, <2>1, <2>2, StackChanges
<1>7. RenderPlaces'
  <2>1. ASSUME NEW v \in Workers, NEW k \in 1 .. Len(deque'[v]), deque'[v][k].kind = "render",
               NEW u \in Workers \ {v}
        PROVE  HasNoSim(u)'
    <3>1. \A i \in 1 .. Len(deque[v]) : deque[v][i].kind = "render" => HasNoSim(u)
      BY DEF JobsInv, PlaceInv, RenderPlaces
    <3>2. HasNoSim(u)
      BY <2>1, <3>1
    <3>3. \A l \in 1 .. Len(deque'[u]) : \E i \in 1 .. Len(deque[u]) : deque'[u][l] = deque[u][i]
      OBVIOUS
    <3>4. \A l \in 1 .. Len(stack'[u]) :
            \/ stack'[u][l].kind \notin Systems \cup {"sim"}
            \/ \E i \in 1 .. Len(stack[u]) : stack'[u][l] = stack[u][i]
      <4>1. CASE u = w
        <5>1. j.kind \notin Systems
          BY <2>1, <4>1
        <5>2. QED  BY <1>1, <1>2, <1>4, <4>1, <5>1
      <4>2. CASE u # w
        BY <1>3, <4>2
      <4>3. QED  BY <4>1, <4>2
    <3>5. QED  BY <3>2, <3>3, <3>4, NoSimStays
  <2>2. ASSUME NEW v \in Workers, NEW k \in 1 .. Len(deque'[v]), deque'[v][k].kind = "render"
        PROVE  k = 1
    BY <2>2
  <2>3. QED  BY <2>1, <2>2 DEF RenderPlaces
<1>8. SimulationNotUnderRenderer'
  <2> SUFFICES ASSUME NEW v \in Workers, NEW i \in DOMAIN stack'[v], NEW k \in DOMAIN stack'[v],
                      i < k, stack'[v][i].kind = "sim", stack'[v][k].kind = "render"
               PROVE  FALSE
    BY DEF SimulationNotUnderRenderer
  <2>1. SimulationNotUnderRenderer
    BY DEF JobsInv, PlaceInv
  <2>2. v = w
    BY <1>3, <2>1 DEF SimulationNotUnderRenderer
  <2>3. i \in 1 .. m + 1 /\ k \in 1 .. m + 1 /\ i \in 1 .. m
    BY <1>1, <1>2, <2>2
  <2>4. a[i].kind = "sim"
    BY <1>2, <2>2, <2>3
  <2>5. CASE k = m + 1
    BY <1>1, <1>2, <2>2, <2>3, <2>4, <2>5
  <2>6. CASE k \in 1 .. m
    <3>1. a[k].kind = "render" /\ i \in DOMAIN a /\ k \in DOMAIN a
      BY <1>1, <1>2, <2>2, <2>3, <2>6
    <3>2. QED  BY <1>1, <2>1, <2>4, <3>1 DEF SimulationNotUnderRenderer
  <2>7. QED  BY <1>4, <2>3, <2>5, <2>6
<1>9. QED  BY <1>5, <1>6, <1>7, <1>8 DEF PlaceInv

LEMMA TakeJobPlaces ==
  ASSUME JobsInv, NEW w \in Workers, TakeJob(w)
  PROVE  PlaceInv'
<1>1. PoolShape /\ PoolShape'
  BY Takes DEF JobsInv
<1>2. ~Runs(w, "send")
  <2>1. stack[w] = << >> \/ \E kinds \in Forks : WaitsFor(w, kinds)
    BY DEF TakeJob, TakeOwn, Steal, TakeInjected, Looks, Free
  <2>2. QED  BY <2>1, WaitsFree
<1>3. CASE TakeOwn(w)
  <2>1. PICK a \in Seq(Jobs), n \in Nat, j \in Jobs :
          /\ a = deque[w] /\ a # << >> /\ n = Len(a) /\ n >= 1
          /\ j = Last(deque[w]) /\ j = a[n]
    <3>1. deque[w] \in Seq(Jobs) /\ deque[w] # << >>
      BY <1>1, <1>3 DEF TakeOwn, PoolShape
    <3>2. QED  BY <3>1, LastIs
  <2>2. stack' = [stack EXCEPT ![w] = Append(stack[w], j)] /\ injector' = injector
    BY <1>3, <2>1 DEF TakeOwn, Begin
  <2>3. /\ \A v \in Workers \ {w} : deque'[v] = deque[v]
        /\ deque'[w] = Front(a)
    BY <1>1, <1>3, <2>1 DEF TakeOwn, PoolShape
  <2>4. Len(deque'[w]) = n - 1 /\ \A i \in 1 .. n - 1 : deque'[w][i] = deque[w][i]
    BY <2>1, <2>3, FrontIs
  <2>5. InjectorPlaces' /\ j.kind # "sim"
    BY <2>1, <2>2 DEF JobsInv, PlaceInv, InjectorPlaces, DequePlaces
  <2>6. ASSUME NEW v \in Workers, NEW k \in 1 .. Len(deque'[v])
        PROVE  k \in 1 .. Len(deque[v]) /\ deque'[v][k] = deque[v][k]
    BY <2>1, <2>3, <2>4
  <2>7. ASSUME NEW v \in Workers, NEW k \in 1 .. Len(deque[v]), deque[v][k].kind = "render"
        PROVE  k = 1 /\ (v # w => j.kind \notin Systems)
    <3>1. k = 1 /\ (v # w => HasNoSim(w))
      BY <2>7 DEF JobsInv, PlaceInv, RenderPlaces
    <3>2. HasNoSim(w) => j.kind \notin Systems
      BY <2>1 DEF HasNoSim
    <3>3. QED  BY <3>1, <3>2
  <2>8. j.kind = "render" => \A i \in 1 .. Len(stack[w]) : stack[w][i].kind # "sim"
    <3>1. j.kind = "render" => stack[w] = << >>
      BY <1>3, <2>1, RenderTakenIdle
    <3>2. QED  BY <3>1
  <2>9. \A v \in Workers : \A k \in 1 .. Len(deque'[v]) :
          /\ \E i \in 1 .. Len(deque[v]) : deque'[v][k] = deque[v][i]
          /\ deque'[v][k].kind = "render" => k = 1 /\ (v # w => j.kind \notin Systems)
    BY <2>6, <2>7
  <2>10. QED  BY <1>1, <1>2, <2>1, <2>2, <2>5, <2>8, <2>9, TakePlaces
<1>4. ASSUME NEW v \in Workers, Steal(w, v)
      PROVE  PlaceInv'
  <2>1. PICK a \in Seq(Jobs), n \in Nat, j \in Jobs :
          /\ a = deque[v] /\ a # << >> /\ n = Len(a) /\ n >= 1
          /\ j = Head(deque[v]) /\ j = a[1]
    <3>1. deque[v] \in Seq(Jobs) /\ deque[v] # << >>
      BY <1>1, <1>4 DEF Steal, PoolShape
    <3>2. QED  BY <3>1, TailIs
  <2>2. stack' = [stack EXCEPT ![w] = Append(stack[w], j)] /\ injector' = injector /\ v # w
    BY <1>4, <2>1 DEF Steal, Begin, Looks
  <2>3. /\ \A u \in Workers \ {v} : deque'[u] = deque[u]
        /\ deque'[v] = Tail(a)
    BY <1>1, <1>4, <2>1 DEF Steal, PoolShape
  <2>4. Len(deque'[v]) = n - 1 /\ \A i \in 1 .. n - 1 : deque'[v][i] = a[i + 1]
    BY <2>1, <2>3, TailIs
  <2>5. InjectorPlaces' /\ j.kind # "sim"
    BY <2>1, <2>2 DEF JobsInv, PlaceInv, InjectorPlaces, DequePlaces
  <2>6. \A u \in Workers : \A k \in 1 .. Len(deque[u]) : deque[u][k].kind = "render" =>
          k = 1 /\ (u # v => HasNoSim(v)) /\ (u # w => HasNoSim(w))
    BY DEF JobsInv, PlaceInv, RenderPlaces
  <2>7. ASSUME NEW u \in Workers, NEW k \in 1 .. Len(deque'[u])
        PROVE  /\ \E i \in 1 .. Len(deque[u]) : deque'[u][k] = deque[u][i]
               /\ deque'[u][k].kind = "render" => k = 1 /\ (u # w => j.kind \notin Systems)
    <3>1. CASE u = v
      <4>1. k \in 1 .. n - 1 /\ k + 1 \in 1 .. n /\ k + 1 # 1 /\ deque'[v][k] = deque[v][k + 1]
        BY <2>1, <2>4, <3>1
      <4>2. QED  BY <2>1, <2>6, <3>1, <4>1
    <3>2. CASE u # v
      <4>1. deque'[u] = deque[u]
        BY <2>3, <3>2
      <4>2. HasNoSim(v) => j.kind \notin Systems
        BY <2>1 DEF HasNoSim
      <4>3. QED  BY <2>6, <3>2, <4>1, <4>2
    <3>3. QED  BY <3>1, <3>2
  <2>8. j.kind = "render" => \A i \in 1 .. Len(stack[w]) : stack[w][i].kind # "sim"
    <3>1. j.kind = "render" => HasNoSim(w)
      BY <2>1, <2>2, <2>6
    <3>2. QED  BY <3>1 DEF HasNoSim
  <2>9. QED  BY <1>1, <1>2, <2>1, <2>2, <2>5, <2>7, <2>8, TakePlaces
<1>5. CASE TakeInjected(w)
  <2>1. PICK a \in Seq(Jobs), n \in Nat, j \in Jobs :
          /\ a = injector /\ a # << >> /\ n = Len(a) /\ n >= 1
          /\ j = Head(injector) /\ j = a[1]
    <3>1. injector \in Seq(Jobs) /\ injector # << >>
      BY <1>1, <1>5 DEF TakeInjected, PoolShape
    <3>2. QED  BY <3>1, TailIs
  <2>2. /\ stack' = [stack EXCEPT ![w] = Append(stack[w], j)] /\ deque' = deque
        /\ injector' = Tail(a)
    BY <1>5, <2>1 DEF TakeInjected, Begin
  <2>3. Len(injector') = n - 1 /\ \A i \in 1 .. n - 1 : injector'[i] = a[i + 1]
    BY <2>1, <2>2, TailIs
  <2>4. \A i \in 1 .. n : a[i].kind \in {"actor", "setup", "join"}
    BY <2>1 DEF JobsInv, PlaceInv, InjectorPlaces
  <2>5. InjectorPlaces'
    <3>1. \A i \in 1 .. n - 1 : i + 1 \in 1 .. n
      BY <2>1
    <3>2. QED  BY <2>3, <2>4, <3>1 DEF InjectorPlaces
  <2>6. j.kind # "sim" /\ j.kind \notin Systems /\ j.kind # "render"
    BY <2>1, <2>4 DEF Systems
  <2>7. ASSUME NEW u \in Workers, NEW k \in 1 .. Len(deque'[u])
        PROVE  /\ k \in 1 .. Len(deque[u]) /\ deque'[u][k] = deque[u][k]
               /\ deque'[u][k].kind = "render" => k = 1
    BY <2>2 DEF JobsInv, PlaceInv, RenderPlaces
  <2>8. QED  BY <1>1, <1>2, <2>1, <2>2, <2>5, <2>6, <2>7, TakePlaces
<1>6. QED  BY <1>3, <1>4, <1>5 DEF TakeJob

LEMMA ReturnPlaces ==
  ASSUME JobsInv, PoolShape', NEW w \in Workers, stack[w] # << >>, Return(w),
         UNCHANGED <<injector, deque>>
  PROVE  PlaceInv'
<1>1. PICK a \in Seq(Jobs), m \in Nat : a = stack[w] /\ m = Len(a) /\ a # << >> /\ m >= 1
  <2>1. stack[w] \in Seq(Jobs) /\ stack[w] # << >>
    BY DEF JobsInv, PoolShape
  <2>2. QED  BY <2>1, LastIs
<1>2. stack'[w] = Front(a) /\ \A v \in Workers \ {w} : stack'[v] = stack[v]
  BY <1>1 DEF JobsInv, PoolShape, Return
<1>3. Len(stack'[w]) = m - 1 /\ \A i \in 1 .. m - 1 : stack'[w][i] = stack[w][i]
  BY <1>1, <1>2, FrontIs
<1>4. ASSUME NEW v \in Workers, NEW k \in 1 .. Len(stack'[v])
      PROVE  k \in 1 .. Len(stack[v]) /\ stack'[v][k] = stack[v][k]
  BY <1>1, <1>2, <1>3
<1>5. InjectorPlaces' /\ DequePlaces'
  BY DEF JobsInv, PlaceInv, InjectorPlaces, DequePlaces
<1>6. StackPlaces'
  <2>1. Len(stack'[w]) < Len(stack[w])
    BY <1>1, <1>3
  <2>2. PoolShape /\ StackPlaces
    BY DEF JobsInv, PlaceInv
  <2>3. Job("actor").kind # "sim"
    BY JobKinds
  <2>4. QED  BY <1>2, <1>4, <2>1, <2>2, <2>3, StackChanges
<1>7. RenderPlaces'
  <2>1. ASSUME NEW v \in Workers, NEW k \in 1 .. Len(deque'[v]), deque'[v][k].kind = "render"
        PROVE  k = 1 /\ \A u \in Workers \ {v} : HasNoSim(u)
    BY <2>1 DEF JobsInv, PlaceInv, RenderPlaces
  <2>2. ASSUME NEW u \in Workers, HasNoSim(u)
        PROVE  HasNoSim(u)'
    BY <1>4, <2>2, NoSimStays
  <2>3. QED  BY <2>1, <2>2 DEF RenderPlaces
<1>8. SimulationNotUnderRenderer'
  <2>1. \A v \in Workers : DOMAIN stack'[v] = 1 .. Len(stack'[v]) /\ DOMAIN stack[v] = 1 .. Len(stack[v])
    BY DEF JobsInv, PoolShape
  <2>2. SimulationNotUnderRenderer
    BY DEF JobsInv, PlaceInv
  <2>3. ASSUME NEW v \in Workers, NEW i \in DOMAIN stack'[v], NEW k \in DOMAIN stack'[v],
               i < k, stack'[v][i].kind = "sim", stack'[v][k].kind = "render"
        PROVE  FALSE
    <3>1. /\ i \in DOMAIN stack[v] /\ stack'[v][i] = stack[v][i]
          /\ k \in DOMAIN stack[v] /\ stack'[v][k] = stack[v][k]
      BY <1>4, <2>1
    <3>2. QED  BY <2>2, <2>3, <3>1 DEF SimulationNotUnderRenderer
  <2>4. QED  BY <2>3 DEF SimulationNotUnderRenderer
<1>9. QED  BY <1>5, <1>6, <1>7, <1>8 DEF PlaceInv

LEMMA InjectPlaces ==
  ASSUME JobsInv, NEW k \in {"setup", "join"}, injector' = Append(injector, Job(k)),
         UNCHANGED <<deque, stack>>
  PROVE  PlaceInv'
<1>1. PICK a \in Seq(Jobs), n \in Nat : a = injector /\ n = Len(a)
  BY DEF JobsInv, PoolShape
<1>2. Job(k) \in Jobs /\ Job(k).kind = k
  BY JobKinds
<1>3. Len(injector') = n + 1 /\ injector'[n + 1] = Job(k) /\ \A i \in 1 .. n : injector'[i] = a[i]
  BY <1>1, <1>2, AppendProperties
<1>4. \A i \in 1 .. n + 1 : i = n + 1 \/ i \in 1 .. n
  BY <1>1
<1>5. InjectorPlaces'
  <2>1. \A i \in 1 .. n : a[i].kind \in {"actor", "setup", "join"}
    BY <1>1 DEF JobsInv, PlaceInv, InjectorPlaces
  <2>2. QED  BY <1>2, <1>3, <1>4, <2>1 DEF InjectorPlaces
<1>6. DequePlaces' /\ StackPlaces' /\ RenderPlaces' /\ SimulationNotUnderRenderer'
  BY DEF JobsInv, PlaceInv, DequePlaces, StackPlaces, RenderPlaces, HasNoSim,
         SimulationNotUnderRenderer
<1>7. QED  BY <1>5, <1>6 DEF PlaceInv

\* A worker with jobs of the simulation forks some more
LEMMA ForkPlaces ==
  ASSUME JobsInv, PoolShape', NEW w \in Workers, NEW s \in Seq(Jobs), Fork(w, s),
         \A i \in 1 .. Len(s) : s[i].kind \notin {"sim", "render"},
         UNCHANGED injector,
         ~HasNoSim(w) \/ ~Ex(lines, Job("render"))
           \/ \A v \in Workers : \A i \in 1 .. Len(deque[v]) : deque[v][i].kind # "render",
         \A v \in Workers \ {w} : stack'[v] = stack[v],
         Len(stack'[w]) = Len(stack[w]),
         \A i \in 1 .. Len(stack[w]) :
           \/ stack'[w][i] = stack[w][i]
           \/ i = Len(stack[w]) /\ stack'[w][i] = Job("sending") /\ ~Runs(w, "send")
  PROVE  PlaceInv'
<1>1. PICK a \in Seq(Jobs), n \in Nat, l \in Nat : a = deque[w] /\ n = Len(a) /\ l = Len(s)
  BY DEF JobsInv, PoolShape
<1>2. /\ \A v \in Workers \ {w} : deque'[v] = deque[v]
      /\ deque'[w] = a \o s
  BY <1>1 DEF JobsInv, PoolShape, Fork
<1>3. /\ Len(deque'[w]) = n + l
      /\ \A i \in 1 .. n + l : deque'[w][i] = IF i <= n THEN a[i] ELSE s[i - n]
  BY <1>1, <1>2, ConcatProperties
<1>4. ASSUME NEW k \in 1 .. Len(deque'[w])
      PROVE  \/ k \in 1 .. Len(deque[w]) /\ deque'[w][k] = deque[w][k]
             \/ deque'[w][k].kind \notin {"sim", "render"}
  <2>1. k \in 1 .. n + l
    BY <1>3
  <2>2. CASE k <= n
    BY <1>1, <1>3, <2>1, <2>2
  <2>3. CASE ~ (k <= n)
    <3>1. k - n \in 1 .. l /\ deque'[w][k] = s[k - n]
      BY <1>1, <1>3, <2>1, <2>3
    <3>2. QED  BY <1>1, <3>1
  <2>4. QED  BY <2>2, <2>3
<1>5. InjectorPlaces' /\ DequePlaces'
  <2>1. ASSUME NEW v \in Workers, NEW k \in 1 .. Len(deque'[v])
        PROVE  deque'[v][k].kind # "sim"
    <3>1. \A i \in 1 .. Len(deque[v]) : deque[v][i].kind # "sim"
      BY DEF JobsInv, PlaceInv, DequePlaces
    <3>2. QED  BY <1>2, <1>4, <3>1
  <2>2. QED  BY <2>1 DEF DequePlaces, JobsInv, PlaceInv, InjectorPlaces
<1>6. Job("sending").kind = "sending"
  BY JobKinds
<1>7. StackPlaces'
  <2>1. ASSUME NEW i \in 1 .. Len(stack[w])
        PROVE  /\ stack'[w][i].kind = "sim" => i = 1
               /\ stack'[w][i].kind = "send" => i = Len(stack[w])
    BY <1>6 DEF JobsInv, PlaceInv, StackPlaces
  <2>2. QED  BY <2>1 DEF StackPlaces, JobsInv, PlaceInv
<1>8. RenderPlaces'
  <2>1. ASSUME NEW v \in Workers, NEW k \in 1 .. Len(deque'[v]), deque'[v][k].kind = "render"
        PROVE  k = 1 /\ \A u \in Workers \ {v} : HasNoSim(u)'
    <3>1. k \in 1 .. Len(deque[v]) /\ deque[v][k].kind = "render"
      BY <1>2, <1>4, <2>1
    <3>2. k = 1 /\ \A u \in Workers \ {v} : HasNoSim(u)
      BY <3>1 DEF JobsInv, PlaceInv, RenderPlaces
    <3>3. Ex(lines, Job("render"))
      <4>1. Ex(lines, deque[v][k]) /\ deque[v][k] \in Jobs
        BY <3>1, JobAt DEF JobsInv
      <4>2. deque[v][k] = Job("render")
        BY <3>1, <4>1, JobKinds
      <4>3. QED  BY <4>1, <4>2
    <3>4. v = w
      BY <3>1, <3>2, <3>3
    <3>5. ASSUME NEW u \in Workers \ {v}
          PROVE  HasNoSim(u)'
      BY <1>2, <3>2, <3>4, <3>5 DEF HasNoSim
    <3>6. QED  BY <3>2, <3>5
  <2>2. QED  BY <2>1 DEF RenderPlaces
<1>9. SimulationNotUnderRenderer'
  <2>1. \A v \in Workers : DOMAIN stack'[v] = 1 .. Len(stack'[v]) /\ DOMAIN stack[v] = 1 .. Len(stack[v])
    BY DEF JobsInv, PoolShape
  <2>2. SimulationNotUnderRenderer
    BY DEF JobsInv, PlaceInv
  <2>3. ASSUME NEW v \in Workers, NEW i \in 1 .. Len(stack'[v])
        PROVE  /\ i \in 1 .. Len(stack[v])
               /\ stack'[v][i].kind \in {"sim", "render"} => stack'[v][i] = stack[v][i]
    BY <1>6
  <2>4. ASSUME NEW v \in Workers, NEW i \in DOMAIN stack'[v], NEW k \in DOMAIN stack'[v],
               i < k, stack'[v][i].kind = "sim", stack'[v][k].kind = "render"
        PROVE  FALSE
    <3>1. /\ i \in DOMAIN stack[v] /\ stack'[v][i] = stack[v][i]
          /\ k \in DOMAIN stack[v] /\ stack'[v][k] = stack[v][k]
      BY <2>1, <2>3, <2>4
    <3>2. QED  BY <2>2, <2>4, <3>1 DEF SimulationNotUnderRenderer
  <2>5. QED  BY <2>4 DEF SimulationNotUnderRenderer
<1>10. QED  BY <1>5, <1>7, <1>8, <1>9 DEF PlaceInv

\* join begins when the workers have nothing to do but it and the actor
LEMMA JoinPlaces ==
  ASSUME JobsInv, PoolShape', NEW w \in Workers, Join(w)
  PROVE  /\ PlaceInv' /\ Early /\ stack[w] = <<Job("join")>>
         /\ stack' = [stack EXCEPT ![w] = Append(Front(stack[w]), Job("sim"))]
<1>1. Last(stack[w]) = Job("join") /\ Ex(lines, Job("join")) /\ Len(stack[w]) \in Nat
      /\ Len(stack[w]) >= 1 /\ stack[w] \in Seq(Jobs) /\ stack[w][Len(stack[w])] = Job("join")
  BY RunsIs DEF Join, JobsInv
<1>2. Early
  BY <1>1 DEF JobsInv, StartInv, Running
<1>3. Len(stack[w]) = 1
  <2>1. Len(stack[w]) <= 1
    BY <1>2 DEF Early
  <2>2. \A n \in Nat : n >= 1 /\ n <= 1 => n = 1
    OBVIOUS
  <2>3. QED  BY <1>1, <2>1, <2>2
<1>4. stack[w] = <<Job("join")>>
  BY <1>1, <1>3
<1>5. Job("sim") \in Jobs /\ Job("sim").kind = "sim" /\ Job("render") \in Jobs
      /\ Job("render").kind = "render"
  BY JobKinds
<1>6. Front(stack[w]) = << >>
  BY <1>4 DEF Front
<1>7. stack' = [stack EXCEPT ![w] = Append(Front(stack[w]), Job("sim"))]
  BY <1>6 DEF Join
<1>8. /\ \A v \in Workers \ {w} : stack'[v] = stack[v] /\ deque'[v] = << >>
      /\ stack'[w] = <<Job("sim")>> /\ deque'[w] = <<Job("render")>>
  <2>1. \A v \in Workers : deque[v] = << >>
    BY <1>2 DEF Early
  <2>2. deque \in [Workers -> Seq(Jobs)] /\ stack \in [Workers -> Seq(Jobs)]
    BY DEF JobsInv, PoolShape
  <2>3. deque' = [deque EXCEPT ![w] = deque[w] \o <<Job("render")>>]
        /\ stack' = [stack EXCEPT ![w] = <<Job("sim")>>]
    BY DEF Join, Fork
  <2>4. << >> \o <<Job("render")>> = <<Job("render")>>
    BY <1>5, ConcatEmptySeq
  <2>5. QED  BY <2>1, <2>2, <2>3, <2>4
<1>9. \A v \in Workers : Len(stack[v]) \in Nat /\ Len(stack[v]) <= 1
  BY <1>2 DEF Early, JobsInv, PoolShape
<1>10. \A v \in Workers : \A i \in 1 .. Len(stack[v]) : stack[v][i].kind \in {"actor", "setup", "join"}
  BY <1>2, JobAt DEF Early, JobsInv
<1>11. InjectorPlaces'
  BY DEF Join, JobsInv, PlaceInv, InjectorPlaces
<1>12. ASSUME NEW v \in Workers, NEW i \in 1 .. Len(deque'[v])
       PROVE  v = w /\ i = 1 /\ deque'[v][i] = Job("render")
  <2>1. \A j : Len(<<j>>) = 1 /\ <<j>>[1] = j
    OBVIOUS
  <2>2. Len(<< >>) = 0
    OBVIOUS
  <2>3. v = w
    BY <1>8, <2>2
  <2>4. Len(deque'[v]) = 1 /\ deque'[v][1] = Job("render")
    BY <1>8, <2>1, <2>3
  <2>5. i = 1
    BY <2>4
  <2>6. QED  BY <2>3, <2>4, <2>5
<1>13. ASSUME NEW v \in Workers, NEW i \in 1 .. Len(stack'[v])
       PROVE  /\ i = 1 /\ Len(stack'[v]) = 1
              /\ IF v = w THEN stack'[v][i] = Job("sim")
                 ELSE stack'[v][i].kind \in {"actor", "setup", "join"}
  <2>1. CASE v = w
    <3>1. \A j : Len(<<j>>) = 1 /\ <<j>>[1] = j
      OBVIOUS
    <3>2. Len(stack'[v]) = 1 /\ stack'[v][1] = Job("sim")
      BY <1>8, <2>1, <3>1
    <3>3. QED  BY <2>1, <3>2
  <2>2. CASE v # w
    <3>1. stack'[v] = stack[v] /\ i \in 1 .. Len(stack[v])
      BY <1>8, <2>2
    <3>2. i = 1 /\ Len(stack[v]) = 1
      <4>1. Len(stack[v]) \in Nat /\ Len(stack[v]) <= 1
        BY <1>9
      <4>2. \A n \in Nat : n <= 1 => \A k \in 1 .. n : k = 1 /\ n = 1
        OBVIOUS
      <4>3. QED  BY <3>1, <4>1, <4>2
    <3>3. QED  BY <1>10, <2>2, <3>1, <3>2
  <2>3. QED  BY <2>1, <2>2
<1>14. DequePlaces' /\ StackPlaces'
  BY <1>5, <1>12, <1>13 DEF DequePlaces, StackPlaces
<1>15. RenderPlaces'
  BY <1>12, <1>13 DEF RenderPlaces, HasNoSim, Systems
<1>16. SimulationNotUnderRenderer'
  <2>1. \A v \in Workers : DOMAIN stack'[v] = 1 .. Len(stack'[v])
    BY DEF PoolShape
  <2>2. QED  BY <1>13, <2>1 DEF SimulationNotUnderRenderer
<1>17. QED  BY <1>2, <1>4, <1>7, <1>11, <1>14, <1>15, <1>16 DEF PlaceInv

-----------------------------------------------------------------------------
(* JobsInv is inductive                                                    *)

LEMMA JobStarted ==
  ASSUME JobsInv, NEW j, Ex(lines, j), j.kind \notin {"actor", "setup", "join"}
  PROVE  Running
BY WhereJobs DEF JobsInv, StartInv, Early

\* The jobs after a step of a worker once join has begun
LEMMA RunningOn ==
  ASSUME Running, mainAt' = mainAt,
         ~Ex(lines', Job("setup")), ~Ex(lines', Job("join"))
  PROVE  StartInv' /\ Running'
BY DEF Running, StartInv

LEMMA TakeJobJobs ==
  ASSUME JobsInv, NEW w \in Workers, TakeJob(w)
  PROVE  JobsInv' /\ \A j : Ex(lines', j) <=> Ex(lines, j)
<1>1. /\ PoolShape /\ PoolShape'
      /\ \A j : (Ex(lines', j) <=> Ex(lines, j)) /\ (Once(lines, j) => Once(lines', j))
  BY Takes DEF JobsInv
<1>2. UNCHANGED <<mainAt, simAt, universe, chan, renderer, histories>>
  BY DEF TakeJob, TakeOwn, TakeInjected, Steal
<1>3. OnceInv'
  BY <1>1 DEF JobsInv, OnceInv
<1>4. WaitInv'
  BY <1>1, <1>2 DEF JobsInv, WaitInv, Some
<1>5. StartInv'
  <2>1. CASE Running
    BY <1>1, <1>2, <2>1, RunningOn DEF Running
  <2>2. CASE Early
    <3>1. ~ \E kinds \in Forks : WaitsFor(w, kinds)
      <4>1. \A k \in {"sim", "sending", "render"} : ~Runs(w, k)
        <5>1. \A k \in {"sim", "sending", "render"} : Runs(w, k) => Ex(lines, Job(k))
          BY <1>1, RunsIs
        <5>2. \A k \in {"sim", "sending", "render"} : Job(k) \in Jobs /\ Job(k).kind = k
          BY JobKinds
        <5>3. QED  BY <2>2, <5>1, <5>2 DEF Early
      <4>2. QED  BY <4>1 DEF WaitsFor
    <3>2. \A v \in Workers : deque[v] = << >>
      BY <2>2 DEF Early
    <3>3. TakeInjected(w) /\ stack[w] = << >>
      BY <3>1, <3>2 DEF TakeJob, TakeOwn, Steal, TakeInjected, Looks, Free
    <3>4. /\ deque' = deque /\ stack' = [stack EXCEPT ![w] = Append(<< >>, Head(injector))]
          /\ injector # << >> /\ injector \in Seq(Jobs)
      BY <1>1, <3>3 DEF TakeInjected, Begin, PoolShape
    <3>5. Len(Append(<< >>, Head(injector))) = 1
      OBVIOUS
    <3>6. \A v \in Workers : deque'[v] = << >> /\ Len(stack'[v]) <= 1
      BY <1>1, <2>2, <3>2, <3>4, <3>5 DEF Early, PoolShape
    <3>7. Early'
      BY <1>1, <1>2, <2>2, <3>6 DEF Early, universe, renderer, histories
    <3>8. QED  BY <1>1, <1>2, <3>7 DEF JobsInv, StartInv
  <2>3. QED  BY <2>1, <2>2 DEF JobsInv, StartInv
<1>6. QED  BY <1>1, <1>3, <1>4, <1>5, TakeJobPlaces DEF JobsInv

LEMMA InjectJobs ==
  ASSUME JobsInv, Main
  PROVE  JobsInv' /\ Early' /\ \A e : ~Ex(lines', SendOf(e))
<1>1. PICK k \in {"setup", "join"} :
        /\ k = "setup" => mainAt = "setup" /\ mainAt' = "adding"
        /\ k = "join" => mainAt = "process" /\ mainAt' = "join"
        /\ injector' = Append(injector, Job(k))
        /\ UNCHANGED <<deque, stack, simAt, universe, chan, renderer, histories>>
  BY DEF Main, InjectSetup, InjectJoin
<1>2. Job(k) \in Jobs /\ Job(k).kind = k /\ Job("setup").kind = "setup" /\ Job("join").kind = "join"
  BY JobKinds
<1>3. /\ PoolShape'
      /\ \A j : Ex(lines', j) <=> Ex(lines, j) \/ j = Job(k)
      /\ \A j : Once(lines, j) /\ j # Job(k) => Once(lines', j)
      /\ ~Ex(lines, Job(k)) => Once(lines', Job(k))
  BY <1>1, <1>2, Injects DEF JobsInv
<1>4. Early /\ ~Ex(lines, Job("join")) /\ (k = "join" => ~Ex(lines, Job("setup")))
      /\ (k = "setup" => ~Ex(lines, Job("setup")))
  BY <1>1 DEF JobsInv, StartInv, Running
<1>5. Early'
  BY <1>1, <1>2, <1>3, <1>4 DEF Early, universe, renderer, histories
<1>6. StartInv'
  <2>1. Ex(lines', Job("setup")) => mainAt' = "adding"
    BY <1>1, <1>2, <1>3, <1>4
  <2>2. Ex(lines', Job("join")) => mainAt' = "join"
    BY <1>1, <1>2, <1>3, <1>4
  <2>3. QED  BY <1>5, <2>1, <2>2 DEF StartInv
<1>7. ASSUME NEW j, Ex(lines', j)
      PROVE  j.kind \in {"actor", "setup", "join"} /\ j \in Jobs
  <2>1. j \in Jobs
    BY <1>2, <1>3, <1>7, WhereJobs DEF JobsInv
  <2>2. QED  BY <1>5, <1>7, <2>1 DEF Early
<1>8. Job("sendAll").kind = "sendAll" /\ \A e : SendOf(e).kind = "send"
  BY JobKinds
<1>9. OnceInv'
  <2>1. ~Ex(lines', Job("sendAll"))
    BY <1>7, <1>8
  <2>2. ASSUME NEW j \in Jobs, j.kind \in Single
        PROVE  Once(lines', j)
    <3>1. Once(lines, j)
      BY <2>2 DEF JobsInv, OnceInv
    <3>2. CASE j = Job(k)
      BY <1>1, <1>3, <1>4, <3>2
    <3>3. CASE j # Job(k)
      BY <1>3, <3>1, <3>3
    <3>4. QED  BY <3>2, <3>3
  <2>3. QED  BY <2>1, <2>2 DEF OnceInv
<1>10. WaitInv'
  BY <1>7 DEF WaitInv, Some, Systems
<1>11. PlaceInv'
  BY <1>1, InjectPlaces
<1>12. QED  BY <1>3, <1>5, <1>6, <1>7, <1>8, <1>9, <1>10, <1>11 DEF JobsInv

LEMMA SetupJobs ==
  ASSUME JobsInv, NEW w \in Workers, Setup(w)
  PROVE  JobsInv' /\ Early /\ mainAt # "join" /\ mainAt' = "process"
         /\ \A e : ~Ex(lines', SendOf(e))
<1>1. /\ Runs(w, "setup") /\ Return(w) /\ UNCHANGED <<injector, deque, simAt, chan, renderer, histories>>
      /\ doomed' = doomed /\ mainAt' = "process"
  BY DEF Setup
<1>2. stack[w] # << >> /\ Last(stack[w]) = Job("setup") /\ Ex(lines, Job("setup"))
  BY <1>1, RunsIs DEF JobsInv
<1>3. /\ PoolShape'
      /\ \A j : (Ex(lines', j) => Ex(lines, j)) /\ (Once(lines, j) => Once(lines', j))
      /\ Once(lines, Job("setup")) => ~Ex(lines', Job("setup"))
  BY <1>1, <1>2, Returns DEF JobsInv
<1>4. Job("setup") \in Jobs /\ Job("setup").kind = "setup" /\ \A e : SendOf(e).kind = "send"
  BY JobKinds
<1>5. mainAt = "adding" /\ Early /\ ~Ex(lines, Job("join"))
  BY <1>2 DEF JobsInv, StartInv, Running
<1>6. ~Ex(lines', Job("setup"))
  BY <1>3, <1>4 DEF JobsInv, OnceInv, Single
<1>7. Early'
  <2>1. \A v \in Workers : deque'[v] = << >>
    BY <1>1, <1>5 DEF Early
  <2>2. ASSUME NEW v \in Workers
        PROVE  Len(stack'[v]) <= 1
    <3>1. Len(stack[v]) <= 1 /\ stack[v] \in Seq(Jobs)
      BY <1>5 DEF Early, JobsInv, PoolShape
    <3>2. CASE v # w
      BY <1>1, <3>1, <3>2 DEF Return, JobsInv, PoolShape
    <3>3. CASE v = w
      <4>1. stack'[v] = Front(stack[v])
        BY <1>1, <3>3 DEF Return, JobsInv, PoolShape
      <4>2. Len(Front(stack[v])) = Len(stack[v]) - 1
        BY <1>2, <3>1, <3>3, FrontIs
      <4>3. QED  BY <3>1, <4>1, <4>2
    <3>4. QED  BY <3>2, <3>3
  <2>3. QED  BY <1>1, <1>3, <1>5, <2>1, <2>2 DEF Early, renderer, histories
<1>8. StartInv'
  BY <1>3, <1>5, <1>6, <1>7 DEF StartInv
<1>9. OnceInv'
  BY <1>3 DEF OnceInv, JobsInv
<1>10. WaitInv'
  BY <1>1, <1>3 DEF WaitInv, Some, JobsInv
<1>11. PlaceInv'
  BY <1>1, <1>2, <1>3, ReturnPlaces
<1>12. \A e : ~Ex(lines', SendOf(e))
  <2>1. ASSUME NEW e, Ex(lines', SendOf(e))
        PROVE  FALSE
    <3>1. Ex(lines, SendOf(e)) /\ SendOf(e) \in Jobs
      BY <1>3, <2>1, WhereJobs DEF JobsInv
    <3>2. QED  BY <1>4, <1>5, <3>1 DEF Early
  <2>2. QED  BY <2>1
<1>13. QED  BY <1>1, <1>3, <1>5, <1>8, <1>9, <1>10, <1>11, <1>12 DEF JobsInv

\* A job of the simulation or of the renderer returns
LEMMA ReturnJobs ==
  ASSUME JobsInv, NEW w \in Workers, NEW k, k \notin {"actor", "setup", "join"}, Runs(w, k),
         Return(w), UNCHANGED <<injector, deque, mainAt>>, Some(Systems) => simAt' = "wait"
  PROVE  JobsInv'
<1>1. stack[w] # << >> /\ Last(stack[w]).kind = k /\ Ex(lines, Last(stack[w]))
  BY RunsIs DEF JobsInv
<1>2. /\ PoolShape'
      /\ \A j : (Ex(lines', j) => Ex(lines, j)) /\ (Once(lines, j) => Once(lines', j))
  BY <1>1, Returns DEF JobsInv
<1>3. Running
  BY <1>1, JobStarted
<1>4. StartInv'
  BY <1>2, <1>3, RunningOn DEF Running
<1>5. OnceInv'
  BY <1>2 DEF OnceInv, JobsInv
<1>6. WaitInv'
  BY <1>2 DEF WaitInv, Some
<1>7. PlaceInv'
  BY <1>1, <1>2, ReturnPlaces
<1>8. QED  BY <1>2, <1>4, <1>5, <1>6, <1>7 DEF JobsInv

\* The worker goes on with the simulation or the renderer
LEMMA StayJobs ==
  ASSUME JobsInv, NEW w \in Workers, NEW k \in {"sim", "render"}, Runs(w, k),
         UNCHANGED <<pool, mainAt>>, Some(Systems) => simAt' = "wait"
  PROVE  JobsInv'
<1>1. Last(stack[w]).kind = k /\ Ex(lines, Last(stack[w]))
  BY RunsIs DEF JobsInv
<1>2. Running
  BY <1>1, JobStarted
<1>3. lines' = lines /\ PoolShape'
  BY PoolStays DEF JobsInv
<1>4. StartInv'
  BY <1>2, <1>3, RunningOn DEF Running
<1>5. OnceInv'
  BY <1>3 DEF OnceInv, JobsInv
<1>6. WaitInv'
  BY <1>3 DEF WaitInv, Some
<1>7. PlaceInv'
  BY DEF pool, JobsInv, PlaceInv, InjectorPlaces, DequePlaces, StackPlaces, RenderPlaces, HasNoSim,
         SimulationNotUnderRenderer
<1>8. QED  BY <1>3, <1>4, <1>5, <1>6, <1>7 DEF JobsInv

LEMMA RunSystemsJobs ==
  ASSUME JobsInv, NEW w \in Workers, RunSystems(w)
  PROVE  /\ JobsInv' /\ Ex(lines', Job("sendAll"))
         /\ \A e \in Particles : ~Ex(lines, SendOf(e)) /\ ~Ex(lines', SendOf(e))
<1>1. /\ Runs(w, "sim") /\ simAt = "systems" /\ simAt' = "wait"
      /\ Fork(w, <<Job("sendAll"), Job("ageing")>>) /\ UNCHANGED <<injector, stack, mainAt>>
  BY DEF RunSystems, SimGoto
<1>2. /\ Job("sendAll") \in Jobs /\ Job("sendAll").kind = "sendAll"
      /\ Job("ageing") \in Jobs /\ Job("ageing").kind = "ageing"
      /\ \A e \in Particles : SendOf(e) \in Jobs /\ SendOf(e).kind = "send"
  BY JobKinds
<1>3. PICK s \in Seq(Jobs) : s = <<Job("sendAll"), Job("ageing")>> /\ Len(s) = 2
                             /\ s[1] = Job("sendAll") /\ s[2] = Job("ageing")
  <2>1. <<Job("sendAll"), Job("ageing")>> \in Seq(Jobs)
    BY <1>2
  <2>2. QED  BY <2>1
<1>4. \A i : i \in 1 .. Len(s) <=> i = 1 \/ i = 2
  BY <1>3
<1>5. /\ PoolShape'
      /\ \A j :
           /\ Ex(lines', j) <=> Ex(lines, j) \/ \E i \in 1 .. Len(s) : s[i] = j
           /\ Once(lines, j) /\ (\A i \in 1 .. Len(s) : s[i] # j) => Once(lines', j)
           /\ ~Ex(lines, j) /\ (\A i, k \in 1 .. Len(s) : s[i] = j /\ s[k] = j => i = k) =>
                Once(lines', j)
  BY <1>1, <1>3, ForksJobs DEF JobsInv
<1>6. ~Some(Systems)
  BY <1>1 DEF JobsInv, WaitInv
<1>7. Job("sim") = Last(stack[w]) /\ Ex(lines, Job("sim")) /\ Job("sim").kind = "sim"
      /\ At(lines, StackOf(w), Len(stack[w]), Last(stack[w]))
      /\ Len(stack[w]) \in Nat /\ Len(stack[w]) >= 1 /\ stack[w][Len(stack[w])] = Last(stack[w])
  BY <1>1, RunsIs, JobKinds DEF JobsInv
<1>8. Running
  BY <1>7, JobStarted
<1>9. StartInv'
  <2>1. ~Ex(lines', Job("setup")) /\ ~Ex(lines', Job("join"))
    <3>1. Job("setup").kind = "setup" /\ Job("join").kind = "join"
      BY JobKinds
    <3>2. QED  BY <1>2, <1>3, <1>4, <1>5, <1>8, <3>1 DEF Running
  <2>2. QED  BY <1>1, <1>8, <2>1, RunningOn
<1>10. ~Ex(lines, Job("sendAll")) /\ \A e \in Particles : ~Ex(lines, SendOf(e))
  BY <1>2, <1>6 DEF Some, Systems
<1>11. Ex(lines', Job("sendAll")) /\ \A e \in Particles : ~Ex(lines', SendOf(e))
  <2>1. \A e \in Particles : SendOf(e) # Job("sendAll") /\ SendOf(e) # Job("ageing")
    BY <1>2
  <2>2. QED  BY <1>3, <1>4, <1>5, <1>10, <2>1
<1>12. OnceInv'
  <2>1. ASSUME NEW j \in Jobs, j.kind \in Single
        PROVE  Once(lines', j)
    <3>1. Once(lines, j)
      BY <2>1 DEF JobsInv, OnceInv
    <3>2. CASE j = Job("sendAll")
      <4>1. Job("sendAll") # Job("ageing")
        BY <1>2
      <4>2. \A i, k \in 1 .. Len(s) : s[i] = j /\ s[k] = j => i = k
        BY <1>3, <1>4, <3>2, <4>1
      <4>3. QED  BY <1>5, <1>10, <3>2, <4>2
    <3>3. CASE j # Job("sendAll")
      <4>1. j # Job("ageing")
        BY <1>2, <2>1 DEF Single
      <4>2. \A i \in 1 .. Len(s) : s[i] # j
        BY <1>3, <1>4, <3>3, <4>1
      <4>3. QED  BY <1>5, <3>1, <4>2
    <3>4. QED  BY <3>2, <3>3
  <2>2. QED  BY <1>11, <2>1 DEF OnceInv
<1>13. WaitInv'
  BY <1>1 DEF WaitInv
<1>14. PlaceInv'
  <2>1. ~HasNoSim(w)
    <3>1. Len(stack[w]) \in 1 .. Len(stack[w])
      BY <1>7
    <3>2. QED  BY <1>7, <3>1 DEF HasNoSim
  <2>2. \A i \in 1 .. Len(s) : s[i].kind \notin {"sim", "render"}
    BY <1>2, <1>3, <1>4
  <2>3. QED  BY <1>1, <1>3, <1>5, <2>1, <2>2, ForkPlaces
<1>15. QED  BY <1>5, <1>9, <1>10, <1>11, <1>12, <1>13, <1>14 DEF JobsInv

LEMMA ForkSortJobs ==
  ASSUME JobsInv, NEW w \in Workers, ForkSort(w)
  PROVE  /\ JobsInv'
         /\ \A j \in Jobs : j.kind # "sort" => (Ex(lines', j) <=> Ex(lines, j))
<1>1. /\ Runs(w, "render") /\ simAt' = simAt
      /\ Fork(w, <<Job("sort")>>) /\ UNCHANGED <<injector, stack, mainAt>>
  BY DEF ForkSort
<1>2. /\ Job("sort") \in Jobs /\ Job("sort").kind = "sort"
      /\ Job("setup").kind = "setup" /\ Job("join").kind = "join"
      /\ Job("sendAll").kind = "sendAll" /\ Job("sendAll") \in Jobs
      /\ \A e \in Particles : SendOf(e) \in Jobs /\ SendOf(e).kind = "send"
  BY JobKinds
<1>3. PICK s \in Seq(Jobs) : s = <<Job("sort")>> /\ Len(s) = 1 /\ s[1] = Job("sort")
  <2>1. <<Job("sort")>> \in Seq(Jobs)
    BY <1>2
  <2>2. QED  BY <2>1
<1>4. \A i : i \in 1 .. Len(s) <=> i = 1
  BY <1>3
<1>5. /\ PoolShape'
      /\ \A j :
           /\ Ex(lines', j) <=> Ex(lines, j) \/ \E i \in 1 .. Len(s) : s[i] = j
           /\ Once(lines, j) /\ (\A i \in 1 .. Len(s) : s[i] # j) => Once(lines', j)
  BY <1>1, <1>3, ForksJobs DEF JobsInv
<1>6. \A j : j.kind # "sort" => (Ex(lines', j) <=> Ex(lines, j)) /\ (Once(lines, j) => Once(lines', j))
  BY <1>2, <1>3, <1>4, <1>5
<1>7. Last(stack[w]) \in Jobs /\ Last(stack[w]).kind = "render" /\ Ex(lines, Last(stack[w]))
      /\ At(lines, StackOf(w), Len(stack[w]), Last(stack[w]))
  BY <1>1, RunsIs DEF JobsInv
<1>8. Running
  BY <1>7, JobStarted
<1>9. StartInv'
  BY <1>1, <1>2, <1>6, <1>8, RunningOn DEF Running
<1>10. OnceInv'
  BY <1>2, <1>6 DEF JobsInv, OnceInv, Single
<1>11. WaitInv'
  <2>1. Some(Systems)' => Some(Systems)
    BY <1>6 DEF Some, Systems
  <2>2. QED  BY <1>1, <2>1 DEF WaitInv, JobsInv
<1>12. PlaceInv'
  <2>1. ASSUME NEW v \in Workers, NEW i \in 1 .. Len(deque[v]), deque[v][i].kind = "render"
        PROVE  FALSE
    <3>1. At(lines, DequeOf(v), i, deque[v][i]) /\ deque[v][i] \in Jobs
      BY JobAt DEF JobsInv
    <3>2. DequeOf(v) = StackOf(w)
      BY <1>7, <2>1, <3>1, OneRenderer DEF JobsInv
    <3>3. QED  BY <3>2, OwnersAre
  <2>2. \A i \in 1 .. Len(s) : s[i].kind \notin {"sim", "render"}
    BY <1>2, <1>3, <1>4
  <2>3. QED  BY <1>1, <1>3, <1>5, <2>1, <2>2, ForkPlaces
<1>13. QED  BY <1>5, <1>6, <1>9, <1>10, <1>11, <1>12 DEF JobsInv

LEMMA JoinJobs ==
  ASSUME JobsInv, NEW w \in Workers, Join(w)
  PROVE  /\ JobsInv' /\ Early
         /\ ~Ex(lines', Job("sendAll")) /\ \A e \in Particles : ~Ex(lines', SendOf(e))
<1>1. /\ Runs(w, "join") /\ stack' = [stack EXCEPT ![w] = <<Job("sim")>>]
      /\ Fork(w, <<Job("render")>>) /\ UNCHANGED <<injector, mainAt, simAt>>
  BY DEF Join
<1>2. /\ Job("sim") \in Jobs /\ Job("sim").kind = "sim"
      /\ Job("render") \in Jobs /\ Job("render").kind = "render"
      /\ Job("setup").kind = "setup" /\ Job("join").kind = "join" /\ Job("join") \in Jobs
      /\ Job("sendAll").kind = "sendAll" /\ Job("sendAll") \in Jobs
      /\ \A e \in Particles : SendOf(e) \in Jobs /\ SendOf(e).kind = "send"
  BY JobKinds
<1>3. PICK s \in Seq(Jobs) : s = <<Job("render")>> /\ Len(s) = 1 /\ s[1] = Job("render")
  <2>1. <<Job("render")>> \in Seq(Jobs)
    BY <1>2
  <2>2. QED  BY <2>1
<1>4. \A i : i \in 1 .. Len(s) <=> i = 1
  BY <1>3
<1>5. /\ stack[w] # << >> /\ Last(stack[w]) = Job("join") /\ Ex(lines, Job("join"))
      /\ stack[w] \in Seq(Jobs)
  BY <1>1, RunsIs DEF JobsInv
<1>6. PoolShape'
  <2>1. <<Job("sim")>> \in Seq(Jobs) /\ deque[w] \o <<Job("render")>> \in Seq(Jobs)
    BY <1>2, <1>3, ConcatProperties DEF JobsInv, PoolShape
  <2>2. QED  BY <1>1, <2>1 DEF JobsInv, PoolShape, Fork
<1>7. /\ PlaceInv' /\ Early
      /\ stack' = [stack EXCEPT ![w] = Append(Front(stack[w]), Job("sim"))]
  BY <1>6, JoinPlaces
<1>8. Turned(lines, lines', Job("join"), Job("sim"), s)
  BY <1>1, <1>2, <1>3, <1>5, <1>7, GoesOn DEF JobsInv
<1>9. /\ Job("join") # Job("sim") /\ Job("join") # Job("render") /\ Job("sim") # Job("render")
      /\ \A j : j.kind \notin {"sim", "render"} => j # Job("sim") /\ j # Job("render")
  BY <1>2
<1>10. \A j \in Jobs : Ex(lines, j) => j.kind \in {"actor", "setup", "join"}
  BY <1>7 DEF Early
<1>11. StartInv'
  <2>1. ~Ex(lines', Job("join"))
    <3>1. Once(lines, Job("join"))
      BY <1>2 DEF JobsInv, OnceInv, Single
    <3>2. QED  BY <1>3, <1>4, <1>8, <1>9, <3>1 DEF Turned
  <2>2. mainAt = "join"
    BY <1>5 DEF JobsInv, StartInv
  <2>3. ~Ex(lines', Job("setup"))
    <3>1. ~Ex(lines, Job("setup"))
      BY <2>2 DEF JobsInv, StartInv
    <3>2. Job("setup") # Job("sim") /\ Job("setup") # Job("render")
      BY <1>2
    <3>3. QED  BY <1>3, <1>4, <1>8, <3>1, <3>2 DEF Turned
  <2>4. QED  BY <1>1, <2>1, <2>2, <2>3 DEF StartInv, Running
<1>12. ASSUME NEW j \in Jobs, Ex(lines', j)
       PROVE  j.kind \in {"actor", "setup", "join", "sim", "render"}
  BY <1>2, <1>3, <1>4, <1>8, <1>10, <1>12 DEF Turned
<1>13. OnceInv'
  <2>1. ASSUME NEW j \in Jobs, j.kind \in Single
        PROVE  Once(lines', j)
    <3>1. Once(lines, j)
      BY <2>1 DEF JobsInv, OnceInv
    <3>2. CASE j = Job("sim")
      BY <1>2, <1>3, <1>4, <1>8, <1>9, <1>10, <3>2 DEF Turned
    <3>3. CASE j = Job("render")
      BY <1>2, <1>4, <1>8, <1>9, <1>10, <3>3 DEF Turned
    <3>4. CASE j # Job("sim") /\ j # Job("render")
      BY <1>3, <1>4, <1>8, <3>1, <3>4 DEF Turned
    <3>5. QED  BY <3>2, <3>3, <3>4
  <2>2. QED  BY <1>2, <1>12, <2>1 DEF OnceInv
<1>14. WaitInv'
  BY <1>12 DEF WaitInv, Some, Systems
<1>15. QED  BY <1>2, <1>6, <1>7, <1>11, <1>12, <1>13, <1>14 DEF JobsInv

\* The community modules' sequence of the elements of a set has each once
LEMMA SetToSeqIs ==
  ASSUME NEW S, IsFiniteSet(S)
  PROVE  /\ SetToSeq(S) \in Seq(S)
         /\ \A x \in S : \E i \in 1 .. Len(SetToSeq(S)) : SetToSeq(S)[i] = x
         /\ \A i, k \in 1 .. Len(SetToSeq(S)) : SetToSeq(S)[i] = SetToSeq(S)[k] => i = k
<1>1. PICK n \in Nat : n = Cardinality(S) /\ ExistsBijection(1 .. n, S)
  BY FS_CardinalityType
<1>2. \E f \in [1 .. n -> S] : IsInjective(f)
  BY <1>1 DEF ExistsBijection, Bijection, Injection
<1>3. PICK f : f = SetToSeq(S) /\ f \in [1 .. n -> S] /\ IsInjective(f)
  BY <1>1, <1>2 DEF SetToSeq
<1>4. f \in Injection(1 .. n, S)
  BY <1>3 DEF Injection
<1>5. IsFiniteSet(1 .. n) /\ Cardinality(1 .. n) = n
  BY FS_Interval
<1>6. f \in Surjection(1 .. n, S)
  BY <1>1, <1>4, <1>5, FS_Injection
<1>7. \A x \in S : \E i \in 1 .. n : f[i] = x
  BY <1>6 DEF Surjection
<1>8. \A i, k \in 1 .. n : f[i] = f[k] => i = k
  BY <1>3 DEF IsInjective
<1>9. f \in Seq(S) /\ Len(f) = n
  BY <1>3
<1>10. QED  BY <1>3, <1>7, <1>8, <1>9

\* The jobs that send the particles
Sends(P) == {SendOf(e) : e \in P}

SendsIn(s, P) ==
  /\ s \in Seq(Jobs)
  /\ \A i \in 1 .. Len(s) : \E e \in P : s[i] = SendOf(e)
  /\ \A e \in P : \E i \in 1 .. Len(s) : s[i] = SendOf(e)
  /\ \A i, k \in 1 .. Len(s) : s[i] = s[k] => i = k

LEMMA SendsAre ==
  ASSUME NEW P \in SUBSET Particles
  PROVE  SendsIn(SetToSeq(Sends(P)), P)
<1>0. PICK T : T = Sends(P)
  OBVIOUS
<1>1. IsFiniteSet(P)
  <2>1. IsFiniteSet(1 .. MaxParticles)
    BY FS_Interval, CountsAssumption
  <2>2. QED  BY <2>1, FS_Subset DEF Particles
<1>2. IsFiniteSet(T)
  <2> DEFINE f == [e \in P |-> SendOf(e)]
  <2>1. f \in Surjection(P, T)
    BY <1>0 DEF Sends, Surjection
  <2> HIDE DEF f
  <2>2. QED  BY <1>1, <2>1, FS_Surjection
<1>3. PICK s : s = SetToSeq(T)
  OBVIOUS
<1>4. /\ s \in Seq(T)
      /\ \A x \in T : \E i \in 1 .. Len(s) : s[i] = x
      /\ \A i, k \in 1 .. Len(s) : s[i] = s[k] => i = k
  BY <1>2, <1>3, SetToSeqIs
<1>5. T \subseteq Jobs
  BY <1>0, JobKinds DEF Sends
<1>6. \A i \in 1 .. Len(s) : s[i] \in T
  BY <1>4
<1>7. s \in Seq(Jobs)
  BY <1>4, <1>5, SeqMonotonic
<1>8. \A i \in 1 .. Len(s) : \E e \in P : s[i] = SendOf(e)
  BY <1>0, <1>6 DEF Sends
<1>9. \A e \in P : \E i \in 1 .. Len(s) : s[i] = SendOf(e)
  BY <1>0, <1>4 DEF Sends
<1>10. QED  BY <1>0, <1>3, <1>4, <1>7, <1>8, <1>9 DEF SendsIn

LEMMA SendAllJobs ==
  ASSUME JobsInv, alive \subseteq Particles, NEW w \in Workers, SendAll(w)
  PROVE  /\ JobsInv' /\ simAt = "wait"
         /\ Ex(lines, Job("sendAll")) /\ ~Ex(lines', Job("sendAll"))
         /\ \A e \in Particles : Ex(lines', SendOf(e)) <=> e \in alive
<1>1. PICK s : s = SetToSeq(Sends(alive)) /\ s = SetToSeq({SendOf(e) : e \in alive})
  BY DEF Sends
<1>2. /\ Runs(w, "sendAll") /\ Fork(w, s) /\ UNCHANGED <<injector, mainAt, simAt>>
      /\ stack' = [stack EXCEPT ![w] = Append(Front(stack[w]), Job("sending"))]
  BY <1>1 DEF SendAll
<1>3. /\ s \in Seq(Jobs)
      /\ \A i \in 1 .. Len(s) : \E e \in alive : s[i] = SendOf(e)
      /\ \A e \in alive : \E i \in 1 .. Len(s) : s[i] = SendOf(e)
      /\ \A i, k \in 1 .. Len(s) : s[i] = s[k] => i = k
  <2>1. SendsIn(s, alive)
    BY <1>1, SendsAre
  <2>2. QED  BY <2>1 DEF SendsIn
<1>4. /\ Job("sending") \in Jobs /\ Job("sending").kind = "sending"
      /\ Job("sendAll") \in Jobs /\ Job("sendAll").kind = "sendAll"
      /\ Job("setup").kind = "setup" /\ Job("join").kind = "join"
      /\ \A e : SendOf(e).kind = "send" /\ SendOf(e).of = e
      /\ \A e \in Particles : SendOf(e) \in Jobs
  BY JobKinds
<1>5. /\ stack[w] # << >> /\ Last(stack[w]) = Job("sendAll") /\ Ex(lines, Job("sendAll"))
      /\ stack[w] \in Seq(Jobs) /\ Len(stack[w]) \in Nat /\ Len(stack[w]) >= 1
      /\ stack[w][Len(stack[w])] = Job("sendAll")
  BY <1>2, RunsIs DEF JobsInv
<1>6. PoolShape' /\ Turned(lines, lines', Job("sendAll"), Job("sending"), s)
  BY <1>2, <1>3, <1>4, <1>5, GoesOn DEF JobsInv
<1>7. simAt = "wait"
  BY <1>4, <1>5 DEF JobsInv, WaitInv, Some, Systems
<1>8. Running
  BY <1>4, <1>5, JobStarted
<1>9. \A i \in 1 .. Len(s) : s[i].kind = "send"
  BY <1>3, <1>4
<1>10. /\ Once(lines, Job("sendAll"))
       /\ \A e \in Particles : ~Ex(lines, SendOf(e))
  BY <1>4, <1>5 DEF JobsInv, OnceInv, Single
<1>11. ~Ex(lines', Job("sendAll"))
  BY <1>4, <1>6, <1>9, <1>10 DEF Turned
<1>12. \A e \in Particles : Ex(lines', SendOf(e)) <=> e \in alive
  <2>1. ASSUME NEW e \in Particles, Ex(lines', SendOf(e))
        PROVE  e \in alive
    <3>1. PICK i \in 1 .. Len(s) : s[i] = SendOf(e)
      BY <1>4, <1>6, <1>10, <2>1 DEF Turned
    <3>2. QED  BY <1>3, <1>4, <3>1
  <2>2. ASSUME NEW e \in alive
        PROVE  Ex(lines', SendOf(e))
    BY <1>3, <1>6 DEF Turned
  <2>3. QED  BY <2>1, <2>2
<1>13. StartInv'
  <2>1. ~Ex(lines', Job("setup")) /\ ~Ex(lines', Job("join"))
    BY <1>4, <1>6, <1>8, <1>9 DEF Turned, Running
  <2>2. QED  BY <1>2, <1>8, <2>1, RunningOn
<1>14. OnceInv'
  <2>1. ASSUME NEW j \in Jobs, j.kind \in Single
        PROVE  Once(lines', j)
    <3>1. Once(lines, j) /\ j # Job("sending")
      BY <1>4, <2>1 DEF JobsInv, OnceInv, Single
    <3>2. CASE j.kind = "send"
      <4>1. ~Ex(lines, j)
        BY <1>10, <3>2, JobKinds
      <4>2. \A a, b \in 1 .. Len(s) : s[a] = j /\ s[b] = j => a = b
        BY <1>3
      <4>3. QED  BY <1>6, <3>1, <4>1, <4>2 DEF Turned
    <3>3. CASE j.kind # "send"
      BY <1>6, <1>9, <3>1, <3>3 DEF Turned
    <3>4. QED  BY <3>2, <3>3
  <2>2. QED  BY <1>11, <2>1 DEF OnceInv
<1>15. WaitInv'
  BY <1>2, <1>7 DEF WaitInv
<1>16. PlaceInv'
  <2>1. ~HasNoSim(w)
    <3>1. Len(stack[w]) \in 1 .. Len(stack[w])
      BY <1>5
    <3>2. QED  BY <1>4, <1>5, <3>1 DEF HasNoSim, Systems
  <2>2. ~Runs(w, "send")
    BY <1>2 DEF Runs
  <2>3. /\ \A v \in Workers \ {w} : stack'[v] = stack[v]
        /\ Len(stack'[w]) = Len(stack[w])
        /\ \A i \in 1 .. Len(stack[w]) :
             \/ stack'[w][i] = stack[w][i]
             \/ i = Len(stack[w]) /\ stack'[w][i] = Job("sending") /\ ~Runs(w, "send")
    <3>1. PICK a \in Seq(Jobs), m \in Nat : a = stack[w] /\ m = Len(a) /\ a # << >> /\ m >= 1
      BY <1>5
    <3>2. Front(a) \in Seq(Jobs) /\ Len(Front(a)) = m - 1 /\ \A k \in 1 .. m - 1 : Front(a)[k] = a[k]
      BY <3>1, FrontIs
    <3>3. PICK b \in Seq(Jobs) : b = Front(a) /\ Len(b) = m - 1 /\ \A k \in 1 .. m - 1 : b[k] = a[k]
      BY <3>2
    <3>4. /\ Len(Append(b, Job("sending"))) = (m - 1) + 1
          /\ \A i \in 1 .. m - 1 : Append(b, Job("sending"))[i] = b[i]
          /\ Append(b, Job("sending"))[(m - 1) + 1] = Job("sending")
      BY <1>4, <3>3, AppendProperties
    <3>5. (m - 1) + 1 = m /\ \A i \in 1 .. m : i = m \/ i \in 1 .. m - 1
      BY <3>1
    <3>6. \A v \in Workers \ {w} : stack'[v] = stack[v]
      BY <1>2 DEF JobsInv, PoolShape
    <3>7. stack'[w] = Append(b, Job("sending"))
      BY <1>2, <3>1, <3>3 DEF JobsInv, PoolShape
    <3>8. QED  BY <2>2, <3>1, <3>3, <3>4, <3>5, <3>6, <3>7
  <2>4. \A i \in 1 .. Len(s) : s[i].kind \notin {"sim", "render"}
    BY <1>9
  <2>5. QED  BY <1>2, <1>3, <1>6, <2>1, <2>3, <2>4, ForkPlaces
<1>17. QED  BY <1>5, <1>6, <1>7, <1>11, <1>12, <1>13, <1>14, <1>15, <1>16 DEF JobsInv

\* The jobs that send are the same after the step
SendsStay ==
  /\ Ex(lines', Job("sendAll")) <=> Ex(lines, Job("sendAll"))
  /\ \A e \in Particles : Ex(lines', SendOf(e)) <=> Ex(lines, SendOf(e))

LEMMA ReturnSends ==
  ASSUME JobsInv, NEW w \in Workers, NEW k, k \notin {"sendAll", "send"}, Runs(w, k),
         Return(w), UNCHANGED <<injector, deque>>
  PROVE  SendsStay
<1>1. stack[w] # << >> /\ Last(stack[w]).kind = k
  BY RunsIs DEF JobsInv
<1>2. \A j : (Ex(lines', j) => Ex(lines, j)) /\ (Ex(lines, j) /\ j # Last(stack[w]) => Ex(lines', j))
  BY <1>1, Returns DEF JobsInv
<1>3. Job("sendAll").kind = "sendAll" /\ \A e : SendOf(e).kind = "send"
  BY JobKinds
<1>4. QED  BY <1>1, <1>2, <1>3 DEF SendsStay

LEMMA PoolSends ==
  ASSUME UNCHANGED pool
  PROVE  SendsStay
BY PoolStays DEF SendsStay

LEMMA AgeingJobs ==
  ASSUME JobsInv, NEW w \in Workers, Ageing(w)
  PROVE  JobsInv' /\ SendsStay
<1>1. /\ Runs(w, "ageing") /\ Return(w) /\ UNCHANGED <<injector, deque, mainAt>> /\ simAt' = simAt
  BY DEF Ageing
<1>2. JobsInv'
  BY <1>1, ReturnJobs DEF JobsInv, WaitInv
<1>3. QED  BY <1>1, <1>2, ReturnSends

LEMMA SentJobs ==
  ASSUME JobsInv, NEW w \in Workers, Sent(w)
  PROVE  JobsInv' /\ SendsStay
<1>1. /\ Runs(w, "sending") /\ Return(w) /\ UNCHANGED <<injector, deque, mainAt>> /\ simAt' = simAt
  BY DEF Sent
<1>2. JobsInv'
  BY <1>1, ReturnJobs DEF JobsInv, WaitInv
<1>3. QED  BY <1>1, <1>2, ReturnSends

LEMMA SortJobs ==
  ASSUME JobsInv, NEW w \in Workers, Sort(w)
  PROVE  JobsInv' /\ SendsStay
<1>1. /\ Runs(w, "sort") /\ Return(w) /\ UNCHANGED <<injector, deque, mainAt>> /\ simAt' = simAt
  BY DEF Sort
<1>2. JobsInv'
  BY <1>1, ReturnJobs DEF JobsInv, WaitInv
<1>3. QED  BY <1>1, <1>2, ReturnSends

LEMMA SendParticleJobs ==
  ASSUME JobsInv, NEW w \in Workers, SendParticle(w)
  PROVE  /\ JobsInv' /\ simAt = "wait"
         /\ ~Ex(lines, Job("sendAll")) /\ ~Ex(lines', Job("sendAll"))
         /\ Last(stack[w]).of \in Particles /\ Ex(lines, SendOf(Last(stack[w]).of))
         /\ \A e \in Particles :
              Ex(lines', SendOf(e)) <=> Ex(lines, SendOf(e)) /\ e # Last(stack[w]).of
<1>1. /\ Runs(w, "send") /\ Return(w) /\ UNCHANGED <<injector, deque, mainAt>> /\ simAt' = simAt
  BY DEF SendParticle
<1>2. PICK d \in Particles : Last(stack[w]) = SendOf(d)
  BY <1>1, RunsIs DEF JobsInv
<1>3. /\ Job("sendAll").kind = "sendAll" /\ \A e : SendOf(e).kind = "send" /\ SendOf(e).of = e
      /\ \A e \in Particles : SendOf(e) \in Jobs
  BY JobKinds
<1>4. stack[w] # << >> /\ Ex(lines, SendOf(d)) /\ Last(stack[w]).of = d
  BY <1>1, <1>2, <1>3, RunsIs DEF JobsInv
<1>5. \A j : /\ Ex(lines', j) => Ex(lines, j)
             /\ Ex(lines, j) /\ j # SendOf(d) => Ex(lines', j)
             /\ Once(lines, j) /\ j = SendOf(d) => ~Ex(lines', j)
  BY <1>1, <1>2, <1>4, Returns DEF JobsInv
<1>6. Once(lines, SendOf(d)) /\ ~Ex(lines, Job("sendAll"))
  BY <1>3, <1>4 DEF JobsInv, OnceInv, Single
<1>7. \A e \in Particles : Ex(lines', SendOf(e)) <=> Ex(lines, SendOf(e)) /\ e # d
  BY <1>3, <1>5, <1>6
<1>8. simAt = "wait"
  BY <1>3, <1>4 DEF JobsInv, WaitInv, Some, Systems
<1>9. JobsInv'
  BY <1>1, <1>8, ReturnJobs
<1>10. QED  BY <1>4, <1>5, <1>6, <1>7, <1>8, <1>9

LEMMA SystemsDoneJobs ==
  ASSUME JobsInv, NEW w \in Workers, SystemsDone(w)
  PROVE  JobsInv' /\ \A e \in Particles : ~ToSend(e)
<1>1. Runs(w, "sim") /\ ~Unfinished(Systems) /\ UNCHANGED <<pool, mainAt>>
  BY DEF SystemsDone, SimGoto
<1>2. ~Some(Systems)
  BY <1>1, NothingLeft DEF JobsInv, PlaceInv
<1>3. JobsInv'
  BY <1>1, <1>2, StayJobs
<1>4. Job("sendAll") \in Jobs /\ Job("sendAll").kind = "sendAll"
      /\ \A e \in Particles : SendOf(e) \in Jobs /\ SendOf(e).kind = "send"
  BY JobKinds
<1>5. QED  BY <1>2, <1>3, <1>4 DEF ToSend, Some, Systems

LEMMA SendEndFrameJobs ==
  ASSUME JobsInv, NEW w \in Workers, SendEndFrame(w)
  PROVE  JobsInv'
<1>1. Runs(w, "sim") /\ simAt = "end" /\ UNCHANGED <<pool, mainAt>>
  BY DEF SendEndFrame, SimGoto
<1>2. ~Some(Systems)
  BY <1>1 DEF JobsInv, WaitInv
<1>3. QED  BY <1>1, <1>2, StayJobs

LEMMA ProcessQueuesJobs ==
  ASSUME JobsInv, NEW w \in Workers, ProcessQueues(w)
  PROVE  JobsInv'
<1>1. Runs(w, "sim") /\ simAt = "process" /\ UNCHANGED <<injector, deque, mainAt>>
  BY DEF ProcessQueues
<1>2. ~Some(Systems)
  BY <1>1 DEF JobsInv, WaitInv
<1>3. CASE stack' = stack
  BY <1>1, <1>2, <1>3, StayJobs DEF pool
<1>4. CASE Return(w)
  BY <1>1, <1>2, <1>4, ReturnJobs
<1>5. QED  BY <1>3, <1>4 DEF ProcessQueues

LEMMA ReceiveJobs ==
  ASSUME JobsInv, NEW w \in Workers, Receive(w) \/ Sorted(w)
  PROVE  JobsInv' /\ SendsStay
<1>1. Runs(w, "render") /\ UNCHANGED <<pool, mainAt>> /\ simAt' = simAt
  BY DEF Receive, Sorted
<1>2. JobsInv'
  BY <1>1, StayJobs DEF JobsInv, WaitInv
<1>3. QED  BY <1>1, <1>2, PoolSends

-----------------------------------------------------------------------------
(* The frames                                                              *)

LEMMA AliveAre ==
  ASSUME Shape
  PROVE  alive \subseteq Particles /\ alive \in SUBSET Particles /\ 0 \notin Particles
         /\ EndFrame \notin Particles
<1>1. born \in Nat /\ born <= MaxParticles /\ MaxParticles \in Nat
  BY CountsAssumption DEF Shape
<1>2. 1 .. born \subseteq 1 .. MaxParticles
  BY <1>1
<1>3. QED  BY <1>2 DEF Shape, Particles, EndFrame

Kept == UNCHANGED <<chan, gathered, video, begun, ended>>

\* A step that touches neither the channel nor a frame
LEMMA FramesStay ==
  ASSUME Kept, Receiving' = Receiving, Sending' = Sending, NEW f, FramesInv(f), RunningInv(f)'
  PROVE  FramesInv(f)'
<1>1. Numbering(f)'
  BY DEF FramesInv, Numbering, Kept
<1>2. \A i, e : Has(f, i, e)' <=> Has(f, i, e)
  BY DEF Has, Kept
<1>3. SentOnce(f)'
  BY <1>2 DEF FramesInv, SentOnce, Kept
<1>4. EndedInv(f)'
  BY <1>2 DEF FramesInv, EndedInv, Kept
<1>5. QED  BY <1>1, <1>3, <1>4 DEF FramesInv

\* ... nor a job that sends
LEMMA RunningStays ==
  ASSUME Kept, simAt' = simAt, SendsStay, alive \subseteq alive', NEW f, RunningInv(f)
  PROVE  RunningInv(f)'
<1>1. \A i, e : Has(f, i, e)' <=> Has(f, i, e)
  BY DEF Has, Kept
<1>2. \A e \in Particles : ToSend(e)' <=> ToSend(e)
  BY DEF ToSend, SendsStay
<1>3. QED  BY <1>1, <1>2 DEF RunningInv, Kept, SendsStay

\* A step of the pool alone
LEMMA PoolFrames ==
  ASSUME SInv, SendsStay, UNCHANGED <<simAt, universe, chan, renderer, histories>>
  PROVE  \E f : FramesInv(f)'
<1>1. PICK f : FramesInv(f)
  BY DEF SInv
<1>2. Kept /\ Receiving' = Receiving /\ Sending' = Sending /\ simAt' = simAt /\ alive' = alive
  BY DEF Kept, Receiving, Sending, universe, renderer, histories
<1>3. RunningInv(f)'
  BY <1>1, <1>2, RunningStays DEF FramesInv
<1>4. QED  BY <1>1, <1>2, <1>3, FramesStay

LEMMA AgeingFrames ==
  ASSUME SInv, NEW w \in Workers, Ageing(w)
  PROVE  \E f : FramesInv(f)'
<1>1. PICK f : FramesInv(f)
  BY DEF SInv
<1>2. Kept /\ Receiving' = Receiving /\ Sending' = Sending /\ simAt' = simAt /\ alive \subseteq alive'
  BY DEF Ageing, Kept, Receiving, Sending, renderer, histories
<1>3. SendsStay
  BY AgeingJobs DEF SInv
<1>4. RunningInv(f)'
  BY <1>1, <1>2, <1>3, RunningStays DEF FramesInv
<1>5. QED  BY <1>1, <1>2, <1>4, FramesStay

\* Outside a run of the systems
LEMMA IdleFrames ==
  ASSUME SInv, Kept, Receiving' = Receiving, Sending' = Sending, simAt' # "wait"
  PROVE  \E f : FramesInv(f)'
<1>1. PICK f : FramesInv(f)
  BY DEF SInv
<1>2. RunningInv(f)'
  BY DEF RunningInv
<1>3. QED  BY <1>1, <1>2, FramesStay

LEMMA SendAllFrames ==
  ASSUME SInv, NEW w \in Workers, SendAll(w)
  PROVE  \E f : FramesInv(f)'
<1>1. PICK f : FramesInv(f)
  BY DEF SInv
<1>2. Kept /\ Receiving' = Receiving /\ Sending' = Sending /\ simAt' = simAt /\ alive' = alive
  BY DEF SendAll, Kept, Receiving, Sending, renderer, histories, universe
<1>3. alive \subseteq Particles
  BY AliveAre DEF SInv
<1>4. /\ simAt = "wait"
      /\ Ex(lines, Job("sendAll")) /\ ~Ex(lines', Job("sendAll"))
      /\ \A e \in Particles : Ex(lines', SendOf(e)) <=> e \in alive
  BY <1>3, SendAllJobs DEF SInv
<1>5. \A i, e : Has(f, i, e)' <=> Has(f, i, e)
  BY <1>2 DEF Has, Kept
<1>6. /\ begun[Len(begun)] \subseteq alive
      /\ \A e \in Particles : ~Has(f, Len(begun), e)
  BY <1>1, <1>4 DEF FramesInv, RunningInv, ToSend
<1>7. RunningInv(f)'
  BY <1>2, <1>3, <1>4, <1>5, <1>6 DEF RunningInv, ToSend, Kept
<1>8. QED  BY <1>1, <1>2, <1>7, FramesStay

LEMMA RunSystemsFrames ==
  ASSUME SInv, NEW w \in Workers, RunSystems(w)
  PROVE  \E f : FramesInv(f)'
<1>1. PICK f : FramesInv(f)
  BY DEF SInv
<1>2. /\ simAt = "systems" /\ simAt' = "wait" /\ begun' = Append(begun, alive)
      /\ ended' = ended /\ chan' = chan /\ video' = video /\ gathered' = gathered
      /\ renderAt' = renderAt /\ alive' = alive
  BY DEF RunSystems, SimGoto, universe, renderer
<1>3. PICK n \in Nat : n = Len(begun) /\ Len(ended) = n
  BY <1>2 DEF SInv, Shape
<1>4. /\ Len(begun') = n + 1 /\ begun'[n + 1] = alive
      /\ \A i \in 1 .. n : begun'[i] = begun[i]
  <2>1. begun \in Seq(SUBSET Particles) /\ alive \in SUBSET Particles
    BY AliveAre DEF SInv, Shape
  <2>2. QED  BY <1>2, <1>3, <2>1, AppendProperties
<1>5. Ex(lines', Job("sendAll")) /\ \A e \in Particles : ~Ex(lines', SendOf(e))
  BY RunSystemsJobs DEF SInv
<1>6. \A i, e : Has(f, i, e)' <=> Has(f, i, e)
  BY <1>2 DEF Has
<1>7. Sending' = Sending /\ Receiving' = Receiving
  BY <1>2, <1>3, <1>4 DEF Sending, Receiving
<1>8. Numbering(f)'
  BY <1>1, <1>2, <1>7 DEF FramesInv, Numbering
<1>9. SentOnce(f)'
  <2>1. \A i \in 1 .. n : i \in 1 .. n + 1
    BY <1>3
  <2>2. \A i \in Nat, e \in Particles : Has(f, i, e)' => i \in 1 .. Len(begun')
    BY <1>1, <1>3, <1>4, <1>6, <2>1 DEF FramesInv, SentOnce
  <2>3. QED  BY <1>1, <1>2, <2>2 DEF FramesInv, SentOnce
<1>10. EndedInv(f)'
  BY <1>1, <1>2, <1>3, <1>4, <1>6 DEF FramesInv, EndedInv
<1>11. RunningInv(f)'
  <2>1. \A e \in Particles : ~Has(f, n + 1, e)
    <3>1. n + 1 \in Nat /\ n + 1 \notin 1 .. n
      BY <1>3
    <3>2. QED  BY <1>1, <1>3, <3>1 DEF FramesInv, SentOnce
  <2>2. QED  BY <1>2, <1>4, <1>5, <1>6, <2>1 DEF RunningInv, ToSend
<1>12. QED  BY <1>8, <1>9, <1>10, <1>11 DEF FramesInv

LEMMA SystemsDoneFrames ==
  ASSUME SInv, NEW w \in Workers, SystemsDone(w)
  PROVE  \E f : FramesInv(f)'
<1>1. PICK f : FramesInv(f)
  BY DEF SInv
<1>2. /\ simAt = "wait" /\ simAt' = "end" /\ ended' = Append(ended, alive)
      /\ begun' = begun /\ chan' = chan /\ video' = video /\ gathered' = gathered
      /\ renderAt' = renderAt /\ alive' = alive
  BY DEF SystemsDone, SimGoto, universe, renderer
<1>3. PICK n \in Nat : n = Len(ended) /\ Len(begun) = n + 1
  BY <1>2 DEF SInv, Shape
<1>4. /\ Len(ended') = n + 1 /\ ended'[n + 1] = alive
      /\ \A i \in 1 .. n : ended'[i] = ended[i]
  <2>1. ended \in Seq(SUBSET Particles) /\ alive \in SUBSET Particles
    BY AliveAre DEF SInv, Shape
  <2>2. QED  BY <1>2, <1>3, <2>1, AppendProperties
<1>5. \A e \in Particles : ~ToSend(e)
  BY SystemsDoneJobs DEF SInv
<1>6. \A i, e : Has(f, i, e)' <=> Has(f, i, e)
  BY <1>2 DEF Has
<1>7. Sending' = Sending /\ Receiving' = Receiving
  BY <1>2 DEF Sending, Receiving
<1>8. Numbering(f)'
  BY <1>1, <1>2, <1>7 DEF FramesInv, Numbering
<1>9. SentOnce(f)'
  BY <1>1, <1>2, <1>6 DEF FramesInv, SentOnce
<1>10. EndedInv(f)'
  <2>1. \A e \in Particles : /\ Has(f, n + 1, e) => e \in alive
                             /\ e \in begun[n + 1] => Has(f, n + 1, e)
    BY <1>1, <1>2, <1>3, <1>5 DEF FramesInv, RunningInv
  <2>2. \A i \in 1 .. n, e \in Particles : /\ e \in begun[i] => Has(f, i, e)
                                           /\ Has(f, i, e) => e \in ended[i]
    BY <1>1, <1>3 DEF FramesInv, EndedInv
  <2>3. \A i \in 1 .. n + 1 : i = n + 1 \/ i \in 1 .. n
    BY <1>3
  <2>4. QED  BY <1>2, <1>4, <1>6, <2>1, <2>2, <2>3 DEF EndedInv
<1>11. RunningInv(f)'
  BY <1>2 DEF RunningInv
<1>12. QED  BY <1>8, <1>9, <1>10, <1>11 DEF FramesInv

\* Something is sent: the numbering is longer by one
LEMMA SentNumbering ==
  ASSUME Shape, NEW f, Numbering(f), NEW m \in Particles \cup {EndFrame}, chan' = Append(chan, m),
         Receiving' = Receiving, Sending \in Nat,
         Sending' = IF m = EndFrame THEN Sending + 1 ELSE Sending
  PROVE  \E n \in Nat : \E g :
           /\ Numbering(g)' /\ n = Len(chan)
           /\ Len(chan') = n + 1 /\ chan'[n + 1] = m /\ g[n + 1] = Sending
           /\ \A p \in 1 .. n : chan'[p] = chan[p] /\ g[p] = f[p]
<1>1. PICK n \in Nat : n = Len(chan)
  BY DEF Shape
<1>2. Len(chan') = n + 1 /\ chan'[n + 1] = m /\ \A p \in 1 .. n : chan'[p] = chan[p]
  BY <1>1, AppendProperties DEF Shape
<1>3. PICK g : g = Append(f, Sending')
  OBVIOUS
<1>4. f \in Seq(Nat) /\ Len(f) = n + 1 /\ f[1] = Receiving /\ f[n + 1] = Sending
  BY <1>1 DEF Numbering
<1>5. Sending' \in Nat /\ Sending' >= Sending
  OBVIOUS
<1>6. /\ g \in Seq(Nat) /\ Len(g) = n + 2 /\ g[n + 2] = Sending'
      /\ \A p \in 1 .. n + 1 : g[p] = f[p]
  <2>1. /\ Append(f, Sending') \in Seq(Nat) /\ Len(Append(f, Sending')) = Len(f) + 1
        /\ \A i \in 1 .. Len(f) : Append(f, Sending')[i] = f[i]
        /\ Append(f, Sending')[Len(f) + 1] = Sending'
    BY <1>4, <1>5, AppendProperties
  <2>2. (n + 1) + 1 = n + 2
    OBVIOUS
  <2>3. QED  BY <1>3, <1>4, <2>1, <2>2
<1>7. \A p \in 1 .. n + 1 : p = n + 1 \/ p \in 1 .. n
  OBVIOUS
<1>8. \A p \in 1 .. n + 1 :
        g[p + 1] = IF chan'[p] = EndFrame THEN g[p] + 1 ELSE g[p]
  <2>1. ASSUME NEW p \in 1 .. n
        PROVE  g[p + 1] = IF chan'[p] = EndFrame THEN g[p] + 1 ELSE g[p]
    <3>1. p + 1 \in 1 .. n + 1 /\ p \in 1 .. n + 1
      OBVIOUS
    <3>2. f[p + 1] = IF chan[p] = EndFrame THEN f[p] + 1 ELSE f[p]
      BY <1>1 DEF Numbering
    <3>3. QED  BY <1>2, <1>6, <3>1, <3>2
  <2>2. g[(n + 1) + 1] = IF chan'[n + 1] = EndFrame THEN g[n + 1] + 1 ELSE g[n + 1]
    BY <1>2, <1>4, <1>6
  <2>3. QED  BY <1>7, <2>1, <2>2
<1>9. \A p, q \in 1 .. n + 2 : p <= q => g[p] <= g[q]
  <2>1. \A p, q \in 1 .. n + 1 : p <= q => f[p] <= f[q]
    BY <1>1 DEF Numbering
  <2>2. \A p \in 1 .. n + 2 : p = n + 2 \/ p \in 1 .. n + 1
    OBVIOUS
  <2>3. \A p \in 1 .. n + 1 : f[p] \in Nat /\ f[p] <= Sending'
    <3>1. ASSUME NEW p \in 1 .. n + 1
          PROVE  f[p] \in Nat /\ f[p] <= Sending'
      <4>1. f[p] \in Nat /\ f[p] <= f[n + 1]
        BY <1>4, <2>1
      <4>2. QED  BY <1>4, <1>5, <4>1
    <3>2. QED  BY <3>1
  <2>4. \A q \in 1 .. n + 2, p \in 1 .. n + 1 : p = n + 2 => FALSE
    OBVIOUS
  <2>5. ASSUME NEW p \in 1 .. n + 2, NEW q \in 1 .. n + 2, p <= q
        PROVE  g[p] <= g[q]
    <3>1. CASE p = n + 2
      BY <1>5, <1>6, <2>5, <3>1
    <3>2. CASE p \in 1 .. n + 1 /\ q = n + 2
      BY <1>5, <1>6, <2>3, <3>2
    <3>3. CASE p \in 1 .. n + 1 /\ q \in 1 .. n + 1
      BY <1>6, <2>1, <2>5, <3>3
    <3>4. QED  BY <2>2, <3>1, <3>2, <3>3
  <2>6. QED  BY <2>5
<1>10. g[1] = Receiving'
  BY <1>4, <1>6
<1>11. g[n + 1] = Sending
  BY <1>4, <1>6
<1>12. Numbering(g)'
  <2>1. Len(chan') + 1 = n + 2
    BY <1>2
  <2>2. \A p \in 1 .. Len(chan') : g[p + 1] = IF chan'[p] = EndFrame THEN g[p] + 1 ELSE g[p]
    BY <1>2, <1>8
  <2>3. \A p, q \in 1 .. Len(chan') + 1 : p <= q => g[p] <= g[q]
    BY <1>9, <2>1
  <2>4. QED  BY <1>6, <1>10, <2>1, <2>2, <2>3 DEF Numbering
<1>13. \A p \in 1 .. n : g[p] = f[p]
  BY <1>6
<1>14. QED  BY <1>1, <1>2, <1>11, <1>12, <1>13

LEMMA SendParticleFrames ==
  ASSUME SInv, NEW w \in Workers, SendParticle(w)
  PROVE  \E f : FramesInv(f)'
<1>1. PICK f : FramesInv(f)
  BY DEF SInv
<1>2. PICK d : d = Last(stack[w]).of
  OBVIOUS
<1>3. /\ simAt = "wait" /\ d \in Particles /\ Ex(lines, SendOf(d))
      /\ ~Ex(lines, Job("sendAll")) /\ ~Ex(lines', Job("sendAll"))
      /\ \A e \in Particles : Ex(lines', SendOf(e)) <=> Ex(lines, SendOf(e)) /\ e # d
  BY <1>2, SendParticleJobs DEF SInv
<1>4. /\ chan' = Append(chan, d) /\ simAt' = simAt /\ begun' = begun /\ ended' = ended
      /\ alive' = alive /\ renderAt' = renderAt /\ gathered' = gathered /\ video' = video
  BY <1>2 DEF SendParticle, universe, renderer, histories
<1>5. PICK b \in Nat : b = Len(begun) /\ b = Sending /\ b = Len(ended) + 1
  BY <1>3 DEF SInv, Shape, Sending
<1>6. Receiving' = Receiving /\ Sending' = Sending /\ d # EndFrame
  <2>1. d # EndFrame
    BY <1>3, AliveAre DEF SInv
  <2>2. QED  BY <1>4, <2>1 DEF Receiving, Sending
<1>7. PICK n \in Nat : \E g :
           /\ Numbering(g)' /\ n = Len(chan)
           /\ Len(chan') = n + 1 /\ chan'[n + 1] = d /\ g[n + 1] = Sending
           /\ \A p \in 1 .. n : chan'[p] = chan[p] /\ g[p] = f[p]
  <2>1. /\ Shape /\ Numbering(f) /\ d \in Particles \cup {EndFrame} /\ chan' = Append(chan, d)
        /\ Sending \in Nat /\ Sending' = IF d = EndFrame THEN Sending + 1 ELSE Sending
    BY <1>1, <1>3, <1>4, <1>5, <1>6 DEF SInv, FramesInv
  <2>2. QED  BY <1>6, <2>1, SentNumbering
<1>8. PICK g :
           /\ Numbering(g)' /\ n = Len(chan)
           /\ Len(chan') = n + 1 /\ chan'[n + 1] = d /\ g[n + 1] = b
           /\ \A p \in 1 .. n : chan'[p] = chan[p] /\ g[p] = f[p]
  BY <1>5, <1>7
<1>9. \A p \in 1 .. n + 1 : p = n + 1 \/ p \in 1 .. n
  OBVIOUS
<1>10. \A i, e : Has(g, i, e)' <=> Has(f, i, e) \/ (i = b /\ e = d)
  <2> TAKE i, e
  <2>1. \A p \in 1 .. n : p \in 1 .. n + 1
    OBVIOUS
  <2>2. n + 1 \in 1 .. n + 1
    OBVIOUS
  <2>3. OnChannel(chan', g, i, e) <=> OnChannel(chan, f, i, e) \/ (i = b /\ e = d)
    BY <1>8, <1>9, <2>1, <2>2 DEF OnChannel
  <2>4. QED  BY <1>4, <2>3 DEF Has
<1>11. /\ begun[b] \subseteq alive
       /\ \A e \in Particles :
            /\ Has(f, b, e) => e \in alive /\ ~ToSend(e)
            /\ Ex(lines, SendOf(e)) => e \in alive
            /\ e \in begun[b] => ToSend(e) \/ Has(f, b, e)
  BY <1>1, <1>3, <1>5 DEF FramesInv, RunningInv
<1>12. ~Has(f, b, d) /\ d \in alive
  BY <1>3, <1>11 DEF ToSend
<1>13. SentOnce(g)'
  <2>1. \A p \in 1 .. n : ~ (f[p] = b /\ chan[p] = d)
    BY <1>8, <1>12 DEF Has, OnChannel
  <2>2. ASSUME NEW p \in 1 .. n + 1, NEW q \in 1 .. n + 1,
               chan'[p] = chan'[q], chan'[p] # EndFrame, g[p] = g[q]
        PROVE  p = q
    <3>1. CASE p \in 1 .. n /\ q \in 1 .. n
      BY <1>1, <1>8, <2>2, <3>1 DEF FramesInv, SentOnce
    <3>2. QED  BY <1>8, <1>9, <2>1, <2>2, <3>1
  <2>3. ASSUME NEW p \in 1 .. n + 1, chan'[p] # EndFrame, g[p] = Len(video) + 1
        PROVE  gathered[chan'[p]] = 0
    <3>1. CASE p \in 1 .. n
      BY <1>1, <1>8, <2>3, <3>1 DEF FramesInv, SentOnce
    <3>2. CASE p = n + 1
      <4>1. b = Len(video) + 1
        BY <1>8, <2>3, <3>2
      <4>2. gathered[d] # 1
        BY <1>12, <4>1 DEF Has
      <4>3. gathered[d] \in {0, 1}
        BY <1>1, <1>3 DEF FramesInv, SentOnce
      <4>4. QED  BY <1>8, <3>2, <4>2, <4>3
    <3>3. QED  BY <1>9, <3>1, <3>2
  <2>4. \A i \in Nat, e \in Particles : Has(g, i, e)' => i \in 1 .. Len(begun)
    <3>1. b \in 1 .. Len(begun)
      <4>1. Len(ended) \in Nat
        BY DEF SInv, Shape
      <4>2. QED  BY <1>5, <4>1
    <3>2. QED  BY <1>1, <1>10, <3>1 DEF FramesInv, SentOnce
  <2>5. QED  BY <1>1, <1>4, <1>8, <2>2, <2>3, <2>4 DEF FramesInv, SentOnce
<1>14. EndedInv(g)'
  <2>1. \A i \in 1 .. Len(ended) : i # b
    <3>1. Len(ended) \in Nat
      BY DEF SInv, Shape
    <3>2. QED  BY <1>5, <3>1
  <2>2. QED  BY <1>1, <1>4, <1>10, <2>1 DEF FramesInv, EndedInv
<1>15. RunningInv(g)'
  <2>1. \A e \in Particles : ToSend(e)' <=> ToSend(e) /\ e # d
    BY <1>3 DEF ToSend
  <2>2. \A e \in Particles : Has(g, b, e)' <=> Has(f, b, e) \/ e = d
    BY <1>10
  <2>3. QED  BY <1>3, <1>4, <1>5, <1>11, <1>12, <2>1, <2>2 DEF RunningInv
<1>16. QED  BY <1>8, <1>13, <1>14, <1>15 DEF FramesInv

LEMMA SendEndFrameFrames ==
  ASSUME SInv, NEW w \in Workers, SendEndFrame(w)
  PROVE  \E f : FramesInv(f)'
<1>1. PICK f : FramesInv(f)
  BY DEF SInv
<1>2. /\ chan' = Append(chan, EndFrame) /\ simAt = "end" /\ simAt' = "process"
      /\ begun' = begun /\ ended' = ended
      /\ alive' = alive /\ renderAt' = renderAt /\ gathered' = gathered /\ video' = video
  BY DEF SendEndFrame, SimGoto, universe, renderer, histories
<1>3. Receiving' = Receiving /\ Sending' = Sending + 1 /\ Sending \in Nat
  BY <1>2 DEF Receiving, Sending, SInv, Shape
<1>4. PICK n \in Nat : \E g :
           /\ Numbering(g)' /\ n = Len(chan)
           /\ Len(chan') = n + 1 /\ chan'[n + 1] = EndFrame /\ g[n + 1] = Sending
           /\ \A p \in 1 .. n : chan'[p] = chan[p] /\ g[p] = f[p]
  BY <1>1, <1>2, <1>3, SentNumbering DEF SInv, FramesInv
<1>5. PICK g :
           /\ Numbering(g)' /\ n = Len(chan)
           /\ Len(chan') = n + 1 /\ chan'[n + 1] = EndFrame
           /\ \A p \in 1 .. n : chan'[p] = chan[p] /\ g[p] = f[p]
  BY <1>4
<1>6. \A p \in 1 .. n + 1 : p = n + 1 \/ p \in 1 .. n
  OBVIOUS
<1>7. \A e \in Particles : e # EndFrame
  BY AliveAre DEF SInv
<1>8. ASSUME NEW i, NEW e \in Particles
      PROVE  Has(g, i, e)' <=> Has(f, i, e)
  <2>1. \A p \in 1 .. n : p \in 1 .. n + 1
    OBVIOUS
  <2>2. OnChannel(chan', g, i, e) <=> OnChannel(chan, f, i, e)
    BY <1>5, <1>6, <1>7, <2>1 DEF OnChannel
  <2>3. QED  BY <1>2, <2>2 DEF Has
<1>9. SentOnce(g)'
  <2>1. ASSUME NEW p \in 1 .. n + 1, NEW q \in 1 .. n + 1,
               chan'[p] = chan'[q], chan'[p] # EndFrame, g[p] = g[q]
        PROVE  p = q
    <3>1. p \in 1 .. n /\ q \in 1 .. n
      BY <1>5, <1>6, <2>1
    <3>2. QED  BY <1>1, <1>5, <2>1, <3>1 DEF FramesInv, SentOnce
  <2>2. ASSUME NEW p \in 1 .. n + 1, chan'[p] # EndFrame, g[p] = Len(video) + 1
        PROVE  gathered[chan'[p]] = 0
    <3>1. p \in 1 .. n
      BY <1>5, <1>6, <2>2
    <3>2. QED  BY <1>1, <1>5, <2>2, <3>1 DEF FramesInv, SentOnce
  <2>3. QED  BY <1>1, <1>2, <1>5, <1>8, <2>1, <2>2 DEF FramesInv, SentOnce
<1>10. EndedInv(g)'
  BY <1>1, <1>2, <1>8 DEF FramesInv, EndedInv
<1>11. RunningInv(g)'
  BY <1>2 DEF RunningInv
<1>12. QED  BY <1>5, <1>9, <1>10, <1>11 DEF FramesInv

\* The receiver is at the frame of the oldest message, or past what it has
LEMMA Receives ==
  ASSUME Shape, NEW f, Numbering(f)
  PROVE  /\ Receiving \in Nat /\ Receiving >= Len(video) + 1
         /\ \A p \in 1 .. Len(chan) + 1 : f[p] \in Nat /\ f[p] >= Receiving
<1>1. Receiving \in Nat /\ Receiving >= Len(video) + 1
  BY DEF Shape, Receiving
<1>2. PICK n \in Nat : n = Len(chan)
  BY DEF Shape
<1>3. ASSUME NEW p \in 1 .. n + 1
      PROVE  f[p] \in Nat /\ f[p] >= Receiving
  <2>1. 1 \in 1 .. n + 1 /\ 1 <= p
    OBVIOUS
  <2>2. f[1] <= f[p] /\ f[1] = Receiving /\ f \in Seq(Nat) /\ Len(f) = n + 1
    BY <1>2, <2>1 DEF Numbering
  <2>3. f[p] \in Nat
    BY <2>2
  <2>4. QED  BY <1>1, <2>2, <2>3
<1>4. QED  BY <1>1, <1>2, <1>3

\* The frame gathered becomes the next of the video
LEMMA Writes ==
  ASSUME Shape, WriteFrame, NEW f, SentOnce(f), NEW g,
         \A p \in 1 .. Len(chan) : chan[p] # EndFrame => f[p] # Len(video) + 1,
         \A i \in Nat, e \in Particles : OnChannel(chan', g, i, e) <=> OnChannel(chan, f, i, e)
  PROVE  /\ \A i \in Nat, e \in Particles : Has(g, i, e)' <=> Has(f, i, e)
         /\ \A i \in 1 .. Len(video'), e \in Particles : video'[i][e] \in {0, 1}
         /\ Len(video') = Len(video) + 1 /\ \A e \in Particles : gathered'[e] = 0
<1>1. PICK m \in Nat : m = Len(video)
  BY DEF Shape
<1>2. /\ Len(video') = m + 1 /\ video'[m + 1] = gathered
      /\ \A i \in 1 .. m : video'[i] = video[i]
  <2>1. video \in Seq([Particles -> Nat]) /\ gathered \in [Particles -> Nat]
    BY DEF Shape
  <2>2. video' = Append(video, gathered)
    BY DEF WriteFrame
  <2>3. QED  BY <1>1, <2>1, <2>2, AppendProperties
<1>3. \A i \in 1 .. m + 1 : i = m + 1 \/ i \in 1 .. m
  OBVIOUS
<1>4. \A e \in Particles : gathered'[e] = 0
  BY DEF WriteFrame
<1>5. \A i \in 1 .. m + 1, e \in Particles : video'[i][e] \in {0, 1}
  BY <1>1, <1>2, <1>3 DEF SentOnce
<1>6. ASSUME NEW i \in Nat, NEW e \in Particles
      PROVE  Has(g, i, e)' <=> Has(f, i, e)
  <2>1. (i \in 1 .. m + 1 /\ video'[i][e] = 1)
          <=> (i = m + 1 /\ gathered[e] = 1) \/ (i \in 1 .. m /\ video[i][e] = 1)
    <3>1. m + 1 \in 1 .. m + 1 /\ m + 1 \notin 1 .. m /\ \A k \in 1 .. m : k \in 1 .. m + 1
      OBVIOUS
    <3>2. QED  BY <1>2, <1>3, <3>1
  <2>2. ~ (i = (m + 1) + 1 /\ gathered'[e] = 1)
    BY <1>4
  <2>3. Has(f, i, e) <=> \/ OnChannel(chan, f, i, e)
                         \/ i = m + 1 /\ gathered[e] = 1
                         \/ i \in 1 .. m /\ video[i][e] = 1
    BY <1>1 DEF Has
  <2>4. Has(g, i, e)' <=> \/ OnChannel(chan', g, i, e)
                          \/ i = (m + 1) + 1 /\ gathered'[e] = 1
                          \/ i \in 1 .. m + 1 /\ video'[i][e] = 1
    BY <1>2 DEF Has
  <2>5. QED  BY <2>1, <2>2, <2>3, <2>4
<1>7. QED  BY <1>1, <1>2, <1>4, <1>5, <1>6

\* What is sent and gathered is the same, wherever it is
LEMMA HasSame ==
  ASSUME NEW f, FramesInv(f), NEW g,
         Numbering(g)', UNCHANGED <<begun, ended, alive, simAt>>, SendsStay,
         \A i \in Nat, e \in Particles : Has(g, i, e)' <=> Has(f, i, e),
         \A p, q \in 1 .. Len(chan') :
           chan'[p] = chan'[q] /\ chan'[p] # EndFrame /\ g[p] = g[q] => p = q,
         \A p \in 1 .. Len(chan') :
           chan'[p] # EndFrame /\ g[p] = Len(video') + 1 => gathered'[chan'[p]] = 0,
         \A e \in Particles : gathered'[e] \in {0, 1},
         \A i \in 1 .. Len(video'), e \in Particles : video'[i][e] \in {0, 1},
         Shape
  PROVE  FramesInv(g)'
<1>1. SentOnce(g)'
  BY DEF SentOnce, FramesInv
<1>2. EndedInv(g)'
  <2>1. \A i \in 1 .. Len(ended) : i \in Nat
    OBVIOUS
  <2>2. QED  BY <2>1 DEF FramesInv, EndedInv
<1>3. RunningInv(g)'
  <2>1. Len(begun) \in Nat
    BY DEF Shape
  <2>2. \A e \in Particles : ToSend(e)' <=> ToSend(e)
    BY DEF ToSend, SendsStay
  <2>3. QED  BY <2>1, <2>2 DEF FramesInv, RunningInv, SendsStay
<1>4. QED  BY <1>1, <1>2, <1>3 DEF FramesInv

LEMMA SortedFrames ==
  ASSUME SInv, NEW w \in Workers, Sorted(w)
  PROVE  \E f : FramesInv(f)'
<1>1. PICK f : FramesInv(f)
  BY DEF SInv
<1>2. /\ WriteFrame /\ renderAt = "wait"
      /\ chan' = chan /\ UNCHANGED <<begun, ended, alive, simAt>>
  BY DEF Sorted, universe, histories
<1>3. SendsStay
  BY ReceiveJobs DEF SInv
<1>4. Shape /\ Numbering(f) /\ SentOnce(f)
  BY <1>1 DEF SInv, FramesInv
<1>5. PICK m \in Nat, n \in Nat : m = Len(video) /\ n = Len(chan)
  BY <1>4 DEF Shape
<1>6. Receiving = m + 2
  BY <1>2, <1>5 DEF Receiving
<1>7. \A p \in 1 .. n : f[p] \in Nat /\ f[p] >= m + 2
  <2>1. \A p \in 1 .. n + 1 : f[p] \in Nat /\ f[p] >= m + 2
    BY <1>4, <1>5, <1>6, Receives
  <2>2. QED  BY <2>1
<1>8. \A p \in 1 .. n : f[p] # m + 1
  BY <1>7
<1>9. /\ \A i \in Nat, e \in Particles : Has(f, i, e)' <=> Has(f, i, e)
      /\ \A i \in 1 .. Len(video'), e \in Particles : video'[i][e] \in {0, 1}
      /\ Len(video') = m + 1 /\ \A e \in Particles : gathered'[e] = 0
  <2>1. \A p \in 1 .. Len(chan) : chan[p] # EndFrame => f[p] # Len(video) + 1
    BY <1>5, <1>8
  <2>2. \A i \in Nat, e \in Particles : OnChannel(chan', f, i, e) <=> OnChannel(chan, f, i, e)
    BY <1>2
  <2>3. /\ \A i \in Nat, e \in Particles : Has(f, i, e)' <=> Has(f, i, e)
        /\ \A i \in 1 .. Len(video'), e \in Particles : video'[i][e] \in {0, 1}
        /\ Len(video') = Len(video) + 1 /\ \A e \in Particles : gathered'[e] = 0
    BY <1>2, <1>4, <2>1, <2>2, Writes
  <2>4. QED  BY <1>5, <2>3
<1>10. Receiving' = Receiving /\ Sending' = Sending
  <2>1. Receiving' = m + 2
    BY <1>2, <1>9 DEF WriteFrame, Receiving
  <2>2. QED  BY <1>2, <1>6, <2>1 DEF Sending
<1>11. Numbering(f)'
  BY <1>2, <1>4, <1>10 DEF Numbering
<1>12. \A p \in 1 .. Len(chan') :
         chan'[p] # EndFrame => gathered'[chan'[p]] = 0
  BY <1>2, <1>4, <1>9, ElementOfSeq DEF Shape
<1>13. \A p, q \in 1 .. Len(chan') :
           chan'[p] = chan'[q] /\ chan'[p] # EndFrame /\ f[p] = f[q] => p = q
  BY <1>2, <1>4 DEF SentOnce
<1>14. QED  BY <1>1, <1>2, <1>3, <1>4, <1>9, <1>11, <1>12, <1>13, HasSame

\* Something is received: the numbering is shorter by one
LEMMA ReceivedNumbering ==
  ASSUME Shape, NEW f, Numbering(f), chan # << >>, chan' = Tail(chan),
         Receiving' = f[2], Sending' = Sending
  PROVE  \E n \in Nat : \E g :
           /\ Numbering(g)' /\ n + 1 = Len(chan) /\ Len(chan') = n
           /\ \A p \in 1 .. n : chan'[p] = chan[p + 1] /\ g[p] = f[p + 1]
<1>1. PICK n \in Nat : n + 1 = Len(chan)
  <2>1. Len(chan) \in Nat /\ Len(chan) > 0
    BY EmptySeq DEF Shape
  <2>2. Len(chan) - 1 \in Nat /\ (Len(chan) - 1) + 1 = Len(chan)
    BY <2>1
  <2>3. QED  BY <2>2
<1>2. Len(chan') = n /\ \A p \in 1 .. n : chan'[p] = chan[p + 1]
  <2>1. /\ Len(Tail(chan)) = Len(chan) - 1
        /\ \A k \in 1 .. Len(chan) - 1 : Tail(chan)[k] = chan[k + 1]
    BY TailIs DEF Shape
  <2>2. (n + 1) - 1 = n
    OBVIOUS
  <2>3. QED  BY <1>1, <2>1, <2>2
<1>3. f \in Seq(Nat) /\ Len(f) = n + 2 /\ f[n + 2] = Sending
  <2>1. (n + 1) + 1 = n + 2
    OBVIOUS
  <2>2. QED  BY <1>1, <2>1 DEF Numbering
<1>4. PICK g \in Seq(Nat) : Len(g) = n + 1 /\ \A p \in 1 .. n + 1 : g[p] = f[p + 1]
  <2>1. f # << >>
    BY <1>3
  <2>2. /\ Tail(f) \in Seq(Nat) /\ Len(Tail(f)) = Len(f) - 1
        /\ \A k \in 1 .. Len(f) - 1 : Tail(f)[k] = f[k + 1]
    BY <1>3, <2>1, TailIs
  <2>3. (n + 2) - 1 = n + 1
    OBVIOUS
  <2>4. QED  BY <1>3, <2>2, <2>3
<1>5. g[1] = Receiving' /\ g[n + 1] = Sending'
  <2>1. 1 \in 1 .. n + 1 /\ n + 1 \in 1 .. n + 1 /\ 1 + 1 = 2 /\ (n + 1) + 1 = n + 2
    OBVIOUS
  <2>2. QED  BY <1>3, <1>4, <2>1
<1>6. ASSUME NEW p \in 1 .. n
      PROVE  g[p + 1] = IF chan'[p] = EndFrame THEN g[p] + 1 ELSE g[p]
  <2>1. p + 1 \in 1 .. n + 1 /\ p \in 1 .. n + 1
    OBVIOUS
  <2>2. f[(p + 1) + 1] = IF chan[p + 1] = EndFrame THEN f[p + 1] + 1 ELSE f[p + 1]
    BY <1>1, <2>1 DEF Numbering
  <2>3. QED  BY <1>2, <1>4, <2>1, <2>2
<1>7. ASSUME NEW p \in 1 .. n + 1, NEW q \in 1 .. n + 1, p <= q
      PROVE  g[p] <= g[q]
  <2>1. p + 1 \in 1 .. n + 2 /\ q + 1 \in 1 .. n + 2 /\ p + 1 <= q + 1
    BY <1>7
  <2>2. \A a, b \in 1 .. n + 2 : a <= b => f[a] <= f[b]
    <3>1. (n + 1) + 1 = n + 2
      OBVIOUS
    <3>2. QED  BY <1>1, <3>1 DEF Numbering
  <2>3. QED  BY <1>4, <2>1, <2>2
<1>8. Numbering(g)'
  <2>1. \A p \in 1 .. Len(chan') : g[p + 1] = IF chan'[p] = EndFrame THEN g[p] + 1 ELSE g[p]
    BY <1>2, <1>6
  <2>2. \A p, q \in 1 .. Len(chan') + 1 : p <= q => g[p] <= g[q]
    BY <1>2, <1>7
  <2>3. QED  BY <1>2, <1>4, <1>5, <2>1, <2>2 DEF Numbering
<1>9. \A p \in 1 .. n : g[p] = f[p + 1]
  BY <1>4
<1>10. \A p \in 1 .. n : chan'[p] = chan[p + 1] /\ g[p] = f[p + 1]
  BY <1>2, <1>9
<1>11. n + 1 = Len(chan) /\ Len(chan') = n
  BY <1>1, <1>2
<1>12. QED  BY <1>8, <1>10, <1>11

LEMMA ReceiveFrames ==
  ASSUME SInv, NEW w \in Workers, Receive(w)
  PROVE  \E f : FramesInv(f)'
<1>1. PICK f : FramesInv(f)
  BY DEF SInv
<1>2. PICK msg : msg = Head(chan)
  OBVIOUS
<1>3. /\ renderAt = "recv" /\ chan # << >> /\ chan' = Tail(chan)
      /\ UNCHANGED <<begun, ended, alive, simAt>>
  BY DEF Receive, universe, histories
<1>4. \/ /\ msg # EndFrame /\ gathered' = [gathered EXCEPT ![msg] = @ + 1]
         /\ UNCHANGED <<renderAt, video>>
      \/ /\ msg = EndFrame /\ WriteFrame /\ \A e \in Particles : gathered[e] = 0
      \/ msg = EndFrame /\ renderAt' = "sort" /\ UNCHANGED <<gathered, video>>
  BY <1>2 DEF Receive
<1>5. SendsStay
  BY ReceiveJobs DEF SInv
<1>6. Shape /\ Numbering(f) /\ SentOnce(f)
  BY <1>1 DEF SInv, FramesInv
<1>7. PICK m \in Nat : m = Len(video) /\ Receiving = m + 1
  BY <1>3, <1>6 DEF Shape, Receiving
<1>8. /\ msg = chan[1] /\ msg \in Particles \cup {EndFrame} /\ 1 \in 1 .. Len(chan)
      /\ f[1] = m + 1 /\ f[2] = IF msg = EndFrame THEN m + 2 ELSE m + 1
  <2>1. Head(chan) = chan[1] /\ Head(chan) \in Particles \cup {EndFrame} /\ Len(chan) > 0
        /\ Len(chan) \in Nat
    BY <1>3, <1>6, TailIs DEF Shape
  <2>2. 1 \in 1 .. Len(chan)
    BY <2>1
  <2>3. 1 + 1 = 2 /\ (m + 1) + 1 = m + 2
    OBVIOUS
  <2>4. QED  BY <1>2, <1>6, <1>7, <2>1, <2>2, <2>3 DEF Numbering
<1>9. Receiving' = f[2] /\ Sending' = Sending
  <2>1. CASE msg # EndFrame
    BY <1>3, <1>4, <1>7, <1>8, <2>1 DEF Receiving, Sending
  <2>2. CASE msg = EndFrame /\ WriteFrame
    <3>1. Len(video') = m + 1 /\ renderAt' \in {"exited", "recv"}
      BY <1>6, <1>7, <2>2, AppendProperties DEF Shape, WriteFrame
    <3>2. (m + 1) + 1 = m + 2
      OBVIOUS
    <3>3. QED  BY <1>3, <1>8, <2>2, <3>1, <3>2 DEF Receiving, Sending
  <2>3. CASE msg = EndFrame /\ renderAt' = "sort" /\ UNCHANGED <<gathered, video>>
    BY <1>3, <1>7, <1>8, <2>3 DEF Receiving, Sending
  <2>4. QED  BY <1>4, <2>1, <2>2, <2>3
<1>10. PICK n \in Nat : \E g :
         /\ Numbering(g)' /\ n + 1 = Len(chan) /\ Len(chan') = n
         /\ \A p \in 1 .. n : chan'[p] = chan[p + 1] /\ g[p] = f[p + 1]
  BY <1>3, <1>6, <1>9, ReceivedNumbering
<1>11. PICK g :
         /\ Numbering(g)' /\ n + 1 = Len(chan) /\ Len(chan') = n
         /\ \A p \in 1 .. n : chan'[p] = chan[p + 1] /\ g[p] = f[p + 1]
  BY <1>10
<1>12. \A p \in 1 .. n : p + 1 \in 1 .. n + 1 /\ p + 1 # 1
  OBVIOUS
<1>13. \A q \in 1 .. n + 1 : q = 1 \/ \E p \in 1 .. n : q = p + 1
  <2>1. ASSUME NEW q \in 1 .. n + 1, q # 1
        PROVE  \E p \in 1 .. n : q = p + 1
    <3>1. q - 1 \in 1 .. n /\ q = (q - 1) + 1
      BY <2>1
    <3>2. QED  BY <3>1
  <2>2. QED  BY <2>1
\* On the channel there is what there was, without the message
<1>14. ASSUME NEW i, NEW e
       PROVE  OnChannel(chan, f, i, e) <=> OnChannel(chan', g, i, e) \/ (i = m + 1 /\ e = msg)
  <2>1. ASSUME NEW q \in 1 .. n + 1, f[q] = i, chan[q] = e
        PROVE  OnChannel(chan', g, i, e) \/ (i = m + 1 /\ e = msg)
    <3>1. CASE q = 1
      BY <1>8, <2>1, <3>1
    <3>2. ASSUME NEW p \in 1 .. n, q = p + 1
          PROVE  OnChannel(chan', g, i, e)
      BY <1>11, <2>1, <3>2 DEF OnChannel
    <3>3. QED  BY <1>13, <3>1, <3>2
  <2>2. ASSUME NEW p \in 1 .. n, g[p] = i, chan'[p] = e
        PROVE  OnChannel(chan, f, i, e)
    BY <1>11, <1>12, <2>2 DEF OnChannel
  <2>3. i = m + 1 /\ e = msg => OnChannel(chan, f, i, e)
    BY <1>8 DEF OnChannel
  <2>4. QED  BY <1>11, <2>1, <2>2, <2>3 DEF OnChannel
<1>15. \A p, q \in 1 .. Len(chan') :
         chan'[p] = chan'[q] /\ chan'[p] # EndFrame /\ g[p] = g[q] => p = q
  <2>1. ASSUME NEW p \in 1 .. n, NEW q \in 1 .. n,
               chan'[p] = chan'[q], chan'[p] # EndFrame, g[p] = g[q]
        PROVE  p = q
    <3>1. p + 1 = q + 1
      BY <1>6, <1>11, <1>12, <2>1 DEF SentOnce
    <3>2. QED  BY <3>1
  <2>2. QED  BY <1>11, <2>1
<1>16. \A q \in 1 .. n + 1 : chan[q] \in Particles \cup {EndFrame}
  BY <1>6, <1>11, ElementOfSeq DEF Shape
<1>17. EndFrame \notin Particles
  BY <1>6, AliveAre
<1>18. msg = EndFrame => \A q \in 1 .. n + 1 : chan[q] # EndFrame => f[q] # m + 1
  <2>1. ASSUME msg = EndFrame, NEW p \in 1 .. n
        PROVE  f[p + 1] # m + 1
    <3>1. 2 <= p + 1 /\ 2 \in 1 .. (n + 1) + 1 /\ p + 1 \in 1 .. (n + 1) + 1
      OBVIOUS
    <3>2. f[2] <= f[p + 1]
      BY <1>6, <1>11, <3>1 DEF Numbering
    <3>3. QED  BY <1>8, <2>1, <3>2
  <2>2. QED  BY <1>8, <1>13, <2>1
<1>19. CASE msg # EndFrame /\ gathered' = [gathered EXCEPT ![msg] = @ + 1]
            /\ UNCHANGED <<renderAt, video>>
  <2>1. msg \in Particles /\ gathered[msg] = 0
    BY <1>6, <1>7, <1>8, <1>19 DEF SentOnce
  <2>2. gathered'[msg] = 1 /\ \A e \in Particles \ {msg} : gathered'[e] = gathered[e]
    BY <1>6, <1>19, <2>1 DEF Shape
  <2>3. ASSUME NEW i \in Nat, NEW e \in Particles
        PROVE  Has(g, i, e)' <=> Has(f, i, e)
    <3>1. (i = m + 1 /\ gathered'[e] = 1) <=> (i = m + 1 /\ gathered[e] = 1) \/ (i = m + 1 /\ e = msg)
      BY <2>1, <2>2
    <3>2. QED  BY <1>7, <1>14, <1>19, <3>1 DEF Has
  <2>4. \A p \in 1 .. Len(chan') :
          chan'[p] # EndFrame /\ g[p] = Len(video') + 1 => gathered'[chan'[p]] = 0
    <3>1. ASSUME NEW p \in 1 .. n, chan'[p] # EndFrame, g[p] = m + 1
          PROVE  gathered'[chan'[p]] = 0
      <4>1. gathered[chan'[p]] = 0 /\ chan'[p] \in Particles
        BY <1>6, <1>7, <1>11, <1>12, <1>16, <3>1 DEF SentOnce
      <4>2. chan'[p] # msg
        BY <1>6, <1>7, <1>8, <1>11, <1>12, <3>1 DEF SentOnce
      <4>3. QED  BY <2>2, <4>1, <4>2
    <3>2. QED  BY <1>7, <1>11, <1>19, <3>1
  <2>5. /\ \A e \in Particles : gathered'[e] \in {0, 1}
        /\ \A i \in 1 .. Len(video'), e \in Particles : video'[i][e] \in {0, 1}
    BY <1>6, <1>19, <2>2 DEF SentOnce
  <2>6. QED  BY <1>1, <1>3, <1>5, <1>6, <1>11, <1>15, <2>3, <2>4, <2>5, HasSame
<1>20. CASE msg = EndFrame /\ WriteFrame
  <2>1. \A i \in Nat, e \in Particles :
          OnChannel(chan', g, i, e) <=> OnChannel(chan, f, i, e)
    BY <1>14, <1>17, <1>20
  <2>2. \A p \in 1 .. Len(chan) : chan[p] # EndFrame => f[p] # Len(video) + 1
    BY <1>7, <1>11, <1>18, <1>20
  <2>3. /\ \A i \in Nat, e \in Particles : Has(g, i, e)' <=> Has(f, i, e)
        /\ \A i \in 1 .. Len(video'), e \in Particles : video'[i][e] \in {0, 1}
        /\ Len(video') = Len(video) + 1 /\ \A e \in Particles : gathered'[e] = 0
    BY <1>6, <1>20, <2>1, <2>2, Writes
  <2>4. \A p \in 1 .. Len(chan') : chan'[p] # EndFrame => gathered'[chan'[p]] = 0
    <3>1. \A p \in 1 .. n : chan'[p] # EndFrame => chan'[p] \in Particles
      BY <1>11, <1>12, <1>16
    <3>2. QED  BY <1>11, <2>3, <3>1
  <2>5. QED  BY <1>1, <1>3, <1>5, <1>6, <1>11, <1>15, <2>3, <2>4, HasSame
<1>21. CASE msg = EndFrame /\ renderAt' = "sort" /\ UNCHANGED <<gathered, video>>
  <2>1. ASSUME NEW i \in Nat, NEW e \in Particles
        PROVE  Has(g, i, e)' <=> Has(f, i, e)
    BY <1>14, <1>17, <1>21 DEF Has
  <2>2. \A p \in 1 .. Len(chan') :
          chan'[p] # EndFrame /\ g[p] = Len(video') + 1 => gathered'[chan'[p]] = 0
    BY <1>7, <1>11, <1>12, <1>18, <1>21
  <2>3. /\ \A e \in Particles : gathered'[e] \in {0, 1}
        /\ \A i \in 1 .. Len(video'), e \in Particles : video'[i][e] \in {0, 1}
    BY <1>6, <1>21 DEF SentOnce
  <2>4. QED  BY <1>1, <1>3, <1>5, <1>6, <1>11, <1>15, <2>1, <2>2, <2>3, HasSame
<1>22. QED  BY <1>4, <1>19, <1>20, <1>21

-----------------------------------------------------------------------------
(* Shape is inductive                                                      *)

LEMMA ShapeStays ==
  ASSUME Shape, mainAt' \in {"setup", "adding", "process", "join"},
         UNCHANGED <<simAt, universe, chan, renderer, histories>>
  PROVE  Shape'
BY DEF Shape, universe, renderer, histories

LEMMA SetupShape ==
  ASSUME Shape, NEW w \in Workers, Setup(w), doomed = {}
  PROVE  Shape'
<1>1. ParticleCount \in 0 .. MaxParticles
  BY CountsAssumption
<1>2. /\ alive' = 1 .. ParticleCount /\ born' = ParticleCount /\ mainAt' = "process"
      /\ UNCHANGED <<simAt, doomed, chan, renderer, histories>>
  BY DEF Setup
<1>3. alive' \subseteq 1 .. born' /\ doomed' \subseteq alive' /\ born' \in 0 .. MaxParticles
  BY <1>1, <1>2
<1>4. QED  BY <1>2, <1>3 DEF Shape, renderer, histories

LEMMA AgeingShape ==
  ASSUME Shape, NEW w \in Workers, Ageing(w)
  PROVE  Shape'
<1>1. PICK over \in SUBSET alive, split \in SUBSET alive :
        /\ split \subseteq over
        /\ born + Cardinality(split) <= MaxParticles
        /\ born' = born + Cardinality(split)
        /\ alive' = alive \cup born + 1 .. born + Cardinality(split)
        /\ doomed' = over \ split
  <2>1. PICK over \in SUBSET alive : \E split \in SUBSET over :
          /\ born + Cardinality(split) <= MaxParticles
          /\ born' = born + Cardinality(split)
          /\ alive' = alive \cup born + 1 .. born + Cardinality(split)
          /\ doomed' = over \ split
    BY DEF Ageing
  <2>2. PICK split \in SUBSET over :
          /\ born + Cardinality(split) <= MaxParticles
          /\ born' = born + Cardinality(split)
          /\ alive' = alive \cup born + 1 .. born + Cardinality(split)
          /\ doomed' = over \ split
    BY <2>1
  <2>3. split \in SUBSET alive
    OBVIOUS
  <2>4. QED  BY <2>2, <2>3
<1>2. PICK n \in Nat : n = Cardinality(split)
  <2>1. IsFiniteSet(1 .. born) /\ split \subseteq 1 .. born
    BY FS_Interval DEF Shape
  <2>2. IsFiniteSet(split)
    BY <2>1, FS_Subset
  <2>3. QED  BY <2>2, FS_CardinalityType
<1>3. /\ born' = born + n /\ born + n <= MaxParticles /\ alive' = alive \cup born + 1 .. born + n
      /\ doomed' \subseteq alive /\ born \in Nat /\ MaxParticles \in Nat
  BY <1>1, <1>2, CountsAssumption DEF Shape
<1>4. born' \in 0 .. MaxParticles
  BY <1>3
<1>5. 1 .. born \subseteq 1 .. born + n /\ born + 1 .. born + n \subseteq 1 .. born + n
  BY <1>3
<1>6. alive' \subseteq 1 .. born' /\ doomed' \subseteq alive'
  BY <1>3, <1>5 DEF Shape
<1>7. UNCHANGED <<mainAt, simAt, chan, renderer, histories>>
  BY DEF Ageing
<1>8. QED  BY <1>4, <1>6, <1>7 DEF Shape, renderer, histories

LEMMA SimShape ==
  ASSUME Shape, NEW w \in Workers,
         RunSystems(w) \/ SystemsDone(w) \/ ProcessQueues(w)
  PROVE  Shape'
<1> USE CountsAssumption
<1>1. alive \in SUBSET Particles
  BY AliveAre
<1>2. CASE RunSystems(w)
  <2>1. /\ begun' = Append(begun, alive) /\ ended' = ended /\ simAt = "systems" /\ simAt' = "wait"
        /\ UNCHANGED <<mainAt, universe, chan, renderer>>
    BY <1>2 DEF RunSystems, SimGoto
  <2>2. /\ begun' \in Seq(SUBSET Particles) /\ Len(begun') = Len(begun) + 1
        /\ Len(begun) \in Nat /\ Len(begun) = Len(ended) /\ Len(begun) < FrameCount
    BY <1>1, <2>1, AppendProperties DEF Shape
  <2>3. Len(begun') = Len(ended) + 1 /\ Len(begun') <= FrameCount
    BY <2>2
  <2>4. QED  BY <2>1, <2>2, <2>3 DEF Shape, universe, renderer
<1>3. CASE SystemsDone(w)
  <2>1. /\ ended' = Append(ended, alive) /\ begun' = begun /\ simAt = "wait" /\ simAt' = "end"
        /\ UNCHANGED <<mainAt, universe, chan, renderer>>
    BY <1>3 DEF SystemsDone, SimGoto
  <2>2. ended' \in Seq(SUBSET Particles) /\ Len(ended') = Len(ended) + 1
    BY <1>1, <2>1, AppendProperties DEF Shape
  <2>3. QED  BY <2>1, <2>2 DEF Shape, universe, renderer
<1>4. CASE ProcessQueues(w)
  <2>1. /\ simAt = "process" /\ alive' = alive \ doomed /\ doomed' = {}
        /\ (simAt' = "systems" /\ Len(begun) < FrameCount) \/ simAt' = "done"
        /\ UNCHANGED <<mainAt, born, chan, renderer, histories>>
    BY <1>4 DEF ProcessQueues
  <2>2. QED  BY <2>1 DEF Shape, renderer, histories
<1>5. QED  BY <1>2, <1>3, <1>4

LEMMA SendShape ==
  ASSUME Shape, NEW m \in Particles \cup {EndFrame}, chan' = Append(chan, m),
         Len(chan) < Capacity, UNCHANGED <<mainAt, universe, renderer, histories>>,
         simAt' = simAt \/ (simAt = "end" /\ simAt' = "process")
  PROVE  Shape'
<1>1. chan' \in Seq(Particles \cup {EndFrame}) /\ Len(chan') = Len(chan) + 1 /\ Len(chan) \in Nat
  BY AppendProperties DEF Shape
<1>2. Len(chan') <= Capacity
  BY <1>1, CapacityAssumption
<1>3. QED  BY <1>1, <1>2 DEF Shape, universe, renderer, histories

LEMMA WriteShape ==
  ASSUME Shape, WriteFrame, renderAt # "exited",
         chan' = chan \/ (chan # << >> /\ chan' = Tail(chan)),
         UNCHANGED <<mainAt, simAt, universe, histories>>
  PROVE  Shape'
<1>1. chan' \in Seq(Particles \cup {EndFrame}) /\ Len(chan') <= Capacity
  <2>1. CASE chan' = chan
    BY <2>1 DEF Shape
  <2>2. CASE chan # << >> /\ chan' = Tail(chan)
    <3>1. chan' \in Seq(Particles \cup {EndFrame}) /\ Len(chan') = Len(chan) - 1 /\ Len(chan) \in Nat
      BY <2>2, TailIs DEF Shape
    <3>2. Len(chan) <= Capacity
      BY DEF Shape
    <3>3. \A k, c \in Nat : k <= c => k - 1 <= c
      OBVIOUS
    <3>4. Len(chan') <= Capacity
      BY <3>1, <3>2, <3>3, CapacityAssumption
    <3>5. QED  BY <3>1, <3>4
  <2>3. QED  BY <2>1, <2>2
<1>2. video' \in Seq([Particles -> Nat]) /\ Len(video') = Len(video) + 1
      /\ gathered' \in [Particles -> Nat]
  <2>1. video \in Seq([Particles -> Nat]) /\ gathered \in [Particles -> Nat]
    BY DEF Shape
  <2>2. QED  BY <2>1, AppendProperties DEF WriteFrame
<1>3. Len(video) \in Nat /\ Len(video) < FrameCount
  BY DEF Shape
<1>4. /\ renderAt' \in {"recv", "exited"}
      /\ IF renderAt' = "exited" THEN Len(video') = FrameCount ELSE Len(video') < FrameCount
  BY <1>2, <1>3, CountsAssumption DEF WriteFrame
<1>5. QED  BY <1>1, <1>2, <1>4 DEF Shape, universe, histories

LEMMA ReceiveShape ==
  ASSUME Shape, NEW w \in Workers, Receive(w)
  PROVE  Shape'
<1>1. PICK msg : msg = Head(chan)
  OBVIOUS
<1>2. /\ renderAt = "recv" /\ chan # << >> /\ chan' = Tail(chan)
      /\ UNCHANGED <<mainAt, simAt, universe, histories>>
  BY DEF Receive
<1>3. \/ /\ msg # EndFrame /\ gathered' = [gathered EXCEPT ![msg] = @ + 1]
         /\ UNCHANGED <<renderAt, video>>
      \/ WriteFrame
      \/ renderAt' = "sort" /\ UNCHANGED <<gathered, video>>
  BY <1>1 DEF Receive
<1>4. /\ msg \in Particles \cup {EndFrame} /\ chan' \in Seq(Particles \cup {EndFrame})
      /\ Len(chan') = Len(chan) - 1 /\ Len(chan) \in Nat
  BY <1>1, <1>2, TailIs DEF Shape
<1>5. Len(chan') <= Capacity
  <2>1. Len(chan) <= Capacity
    BY DEF Shape
  <2>2. QED  BY <1>4, <2>1, CapacityAssumption
<1>6. CASE WriteFrame
  BY <1>2, <1>6, WriteShape
<1>7. CASE msg # EndFrame /\ gathered' = [gathered EXCEPT ![msg] = @ + 1] /\ UNCHANGED <<renderAt, video>>
  <2>1. msg \in Particles /\ gathered \in [Particles -> Nat]
    BY <1>4, <1>7 DEF Shape
  <2>2. gathered' \in [Particles -> Nat]
    BY <1>7, <2>1
  <2>3. QED  BY <1>2, <1>4, <1>5, <1>7, <2>2 DEF Shape, universe, histories
<1>8. CASE renderAt' = "sort" /\ UNCHANGED <<gathered, video>>
  BY <1>2, <1>4, <1>5, <1>8 DEF Shape, universe, histories
<1>9. QED  BY <1>3, <1>6, <1>7, <1>8

-----------------------------------------------------------------------------
(* The theorems                                                            *)

LEMMA InitSInv == Init => SInv
<1> SUFFICES ASSUME Init PROVE SInv
  OBVIOUS
<1> USE CountsAssumption, CapacityAssumption
<1>1. Shape
  BY DEF Init, Shape, Particles
<1>2. Job("actor") \in Jobs /\ Job("actor").kind = "actor"
  BY JobKinds
<1>3. PoolShape
  BY <1>2 DEF Init, PoolShape
<1>4. /\ Len(injector) = 1 /\ injector[1] = Job("actor")
      /\ \A w \in Workers : Len(deque[w]) = 0 /\ Len(stack[w]) = 0
  BY DEF Init
<1>5. ASSUME NEW j, Ex(lines, j)
      PROVE  j = Job("actor") /\ j.kind = "actor"
  BY <1>2, <1>3, <1>4, <1>5, WhereJobs
<1>6. Early
  BY <1>5 DEF Init, Early
<1>7. StartInv
  <2>1. Job("setup").kind = "setup" /\ Job("join").kind = "join"
    BY JobKinds
  <2>2. QED  BY <1>5, <1>6, <2>1 DEF StartInv
<1>8. OnceInv
  <2>1. ASSUME NEW j \in Jobs, j.kind \in Single
        PROVE  ~Ex(lines, j)
    BY <1>5, <2>1 DEF Single
  <2>2. Job("sendAll").kind = "sendAll"
    BY JobKinds
  <2>3. ~Ex(lines, Job("sendAll"))
    BY <1>5, <2>2
  <2>4. QED  BY <2>1, <2>3 DEF OnceInv, Once, Ex
<1>9. PlaceInv
  <2>1. InjectorPlaces
    BY <1>2, <1>4 DEF InjectorPlaces
  <2>2. DequePlaces /\ StackPlaces /\ RenderPlaces
    BY <1>4 DEF DequePlaces, StackPlaces, RenderPlaces
  <2>3. SimulationNotUnderRenderer
    BY DEF Init, SimulationNotUnderRenderer
  <2>4. QED  BY <2>1, <2>2, <2>3 DEF PlaceInv
<1>10. WaitInv
  BY <1>5 DEF WaitInv, Some, Systems
<1>11. \E f : FramesInv(f)
  <2>1. PICK f \in Seq(Nat) : Len(f) = 1 /\ f[1] = 1
    <3>1. <<1>> \in Seq(Nat) /\ Len(<<1>>) = 1 /\ <<1>>[1] = 1
      OBVIOUS
    <3>2. QED  BY <3>1
  <2>2. Len(chan) = 0 /\ Len(video) = 0 /\ Len(begun) = 0 /\ Len(ended) = 0
    BY DEF Init
  <2>3. Numbering(f)
    BY <2>1, <2>2 DEF Numbering, Receiving, Sending, Init
  <2>4. SentOnce(f)
    BY <2>1, <2>2 DEF SentOnce, Has, OnChannel, Init
  <2>5. EndedInv(f) /\ RunningInv(f)
    BY <2>2 DEF EndedInv, RunningInv, Init
  <2>6. QED  BY <2>3, <2>4, <2>5 DEF FramesInv
<1>12. QED  BY <1>1, <1>3, <1>7, <1>8, <1>9, <1>10, <1>11 DEF SInv, JobsInv

LEMMA NextSInv == SInv /\ [Next]_vars => SInv'
<1> SUFFICES ASSUME SInv, [Next]_vars PROVE SInv'
  OBVIOUS
<1>0. Shape /\ JobsInv
  BY DEF SInv
<1>1. CASE UNCHANGED vars
  <2>1. UNCHANGED <<pool, mainAt, simAt, universe, chan, renderer, histories>>
    BY <1>1 DEF vars
  <2>2. Shape'
    BY <1>0, <2>1, ShapeStays DEF Shape
  <2>3. JobsInv'
    <3>1. lines' = lines /\ PoolShape'
      BY <1>0, <2>1, PoolStays DEF JobsInv
    <3>2. StartInv' /\ OnceInv' /\ WaitInv'
      BY <1>0, <2>1, <3>1
         DEF JobsInv, StartInv, Early, Running, OnceInv, WaitInv, Some, universe, renderer, histories,
             pool
    <3>3. PlaceInv'
      BY <1>0, <2>1 DEF pool, JobsInv, PlaceInv, InjectorPlaces, DequePlaces, StackPlaces,
                        RenderPlaces, HasNoSim, SimulationNotUnderRenderer
    <3>4. QED  BY <3>1, <3>2, <3>3 DEF JobsInv
  <2>4. SendsStay
    BY <2>1, PoolSends
  <2>5. \E f : FramesInv(f)'
    BY <2>1, <2>4, PoolFrames
  <2>6. QED  BY <2>2, <2>3, <2>5 DEF SInv
<1>2. CASE Main
  <2>1. /\ mainAt' \in {"adding", "join"}
        /\ UNCHANGED <<simAt, universe, chan, renderer, histories>>
    BY <1>2 DEF Main, InjectSetup, InjectJoin
  <2>2. JobsInv' /\ Early'
    BY <1>0, <1>2, InjectJobs
  <2>3. Shape'
    BY <1>0, <2>1, ShapeStays
  <2>4. Kept /\ Receiving' = Receiving /\ Sending' = Sending /\ simAt' # "wait"
    BY <2>1, <2>2 DEF Kept, Receiving, Sending, renderer, histories, Early
  <2>5. \E f : FramesInv(f)'
    BY <2>4, IdleFrames
  <2>6. QED  BY <2>2, <2>3, <2>5 DEF SInv
<1>3. ASSUME NEW w \in Workers, TakeJob(w)
      PROVE  SInv'
  <2>1. UNCHANGED <<mainAt, simAt, universe, chan, renderer, histories>>
    BY <1>3 DEF TakeJob, TakeOwn, TakeInjected, Steal
  <2>2. JobsInv' /\ SendsStay
    BY <1>0, <1>3, TakeJobJobs DEF SendsStay
  <2>3. Shape'
    BY <1>0, <2>1, ShapeStays DEF Shape
  <2>4. \E f : FramesInv(f)'
    BY <2>1, <2>2, PoolFrames
  <2>5. QED  BY <2>2, <2>3, <2>4 DEF SInv
<1>4. ASSUME NEW w \in Workers, Setup(w)
      PROVE  SInv'
  <2>1. JobsInv' /\ Early
    BY <1>0, <1>4, SetupJobs
  <2>2. Shape'
    BY <1>0, <1>4, <2>1, SetupShape DEF Early
  <2>3. Kept /\ Receiving' = Receiving /\ Sending' = Sending /\ simAt' # "wait"
    BY <1>4, <2>1 DEF Setup, Kept, Receiving, Sending, renderer, histories, Early
  <2>4. \E f : FramesInv(f)'
    BY <2>3, IdleFrames
  <2>5. QED  BY <2>1, <2>2, <2>4 DEF SInv
<1>5. ASSUME NEW w \in Workers, Join(w)
      PROVE  SInv'
  <2>1. JobsInv' /\ Early
    BY <1>0, <1>5, JoinJobs
  <2>2. UNCHANGED <<mainAt, simAt, universe, chan, renderer, histories>>
    BY <1>5 DEF Join
  <2>3. Shape'
    BY <1>0, <2>2, ShapeStays DEF Shape
  <2>4. Kept /\ Receiving' = Receiving /\ Sending' = Sending /\ simAt' # "wait"
    BY <2>1, <2>2 DEF Kept, Receiving, Sending, renderer, histories, Early
  <2>5. \E f : FramesInv(f)'
    BY <2>4, IdleFrames
  <2>6. QED  BY <2>1, <2>3, <2>5 DEF SInv
<1>6. ASSUME NEW w \in Workers, Simulate(w)
      PROVE  SInv'
  <2>1. CASE RunSystems(w)
    BY <1>0, <2>1, SimShape, RunSystemsJobs, RunSystemsFrames DEF SInv
  <2>2. CASE Ageing(w)
    BY <1>0, <2>2, AgeingShape, AgeingJobs, AgeingFrames DEF SInv
  <2>3. CASE SendAll(w)
    <3>1. UNCHANGED <<mainAt, simAt, universe, chan, renderer, histories>>
      BY <2>3 DEF SendAll
    <3>2. Shape'
      BY <1>0, <3>1, ShapeStays DEF Shape
    <3>3. JobsInv'
      BY <1>0, <2>3, AliveAre, SendAllJobs
    <3>4. QED  BY <2>3, <3>2, <3>3, SendAllFrames DEF SInv
  <2>4. CASE SendParticle(w)
    <3>1. JobsInv' /\ Last(stack[w]).of \in Particles
      BY <1>0, <2>4, SendParticleJobs
    <3>2. Shape'
      <4>1. PICK d : d = Last(stack[w]).of
        OBVIOUS
      <4>2. /\ d \in Particles \cup {EndFrame} /\ chan' = Append(chan, d) /\ Len(chan) < Capacity
            /\ UNCHANGED <<mainAt, universe, renderer, histories>> /\ simAt' = simAt
        BY <2>4, <3>1, <4>1 DEF SendParticle
      <4>3. QED  BY <1>0, <4>2, SendShape
    <3>3. QED  BY <2>4, <3>1, <3>2, SendParticleFrames DEF SInv
  <2>5. CASE Sent(w)
    <3>1. UNCHANGED <<mainAt, simAt, universe, chan, renderer, histories>>
      BY <2>5 DEF Sent
    <3>2. Shape'
      BY <1>0, <3>1, ShapeStays DEF Shape
    <3>3. JobsInv' /\ SendsStay
      BY <1>0, <2>5, SentJobs
    <3>4. \E f : FramesInv(f)'
      BY <3>1, <3>3, PoolFrames
    <3>5. QED  BY <3>2, <3>3, <3>4 DEF SInv
  <2>6. CASE SystemsDone(w)
    BY <1>0, <2>6, SimShape, SystemsDoneJobs, SystemsDoneFrames DEF SInv
  <2>7. CASE SendEndFrame(w)
    <3>1. Shape'
      BY <1>0, <2>7, SendShape DEF SendEndFrame, SimGoto
    <3>2. QED  BY <1>0, <2>7, <3>1, SendEndFrameJobs, SendEndFrameFrames DEF SInv
  <2>8. CASE ProcessQueues(w)
    <3>1. Shape' /\ JobsInv'
      BY <1>0, <2>8, SimShape, ProcessQueuesJobs
    <3>2. Kept /\ Receiving' = Receiving /\ Sending' = Sending /\ simAt' # "wait"
      BY <2>8 DEF ProcessQueues, Kept, Receiving, Sending, renderer, histories
    <3>3. \E f : FramesInv(f)'
      BY <3>2, IdleFrames
    <3>4. QED  BY <3>1, <3>3 DEF SInv
  <2>9. QED  BY <1>6, <2>1, <2>2, <2>3, <2>4, <2>5, <2>6, <2>7, <2>8 DEF Simulate
<1>7. ASSUME NEW w \in Workers, Render(w)
      PROVE  SInv'
  <2>1. CASE Receive(w)
    BY <1>0, <2>1, ReceiveShape, ReceiveJobs, ReceiveFrames DEF SInv
  <2>2. CASE ForkSort(w)
    <3>1. /\ renderAt = "sort" /\ renderAt' = "wait"
          /\ UNCHANGED <<mainAt, simAt, universe, chan, gathered, video, histories>>
      BY <2>2 DEF ForkSort
    <3>2. Shape'
      BY <1>0, <3>1 DEF Shape, universe, histories
    <3>3. JobsInv' /\ SendsStay
      <4>1. /\ JobsInv'
            /\ \A j \in Jobs : j.kind # "sort" => (Ex(lines', j) <=> Ex(lines, j))
        BY <1>0, <2>2, ForkSortJobs
      <4>2. /\ Job("sendAll") \in Jobs /\ Job("sendAll").kind = "sendAll"
            /\ \A e \in Particles : SendOf(e) \in Jobs /\ SendOf(e).kind = "send"
        BY JobKinds
      <4>3. QED  BY <4>1, <4>2 DEF SendsStay
    <3>4. PICK f : FramesInv(f)
      BY DEF SInv
    <3>5. Kept /\ Receiving' = Receiving /\ Sending' = Sending /\ simAt' = simAt /\ alive' = alive
      BY <3>1 DEF Kept, Receiving, Sending, universe, histories
    <3>6. FramesInv(f)'
      BY <3>3, <3>4, <3>5, RunningStays, FramesStay DEF FramesInv
    <3>7. QED  BY <3>2, <3>3, <3>6 DEF SInv
  <2>3. CASE Sort(w)
    <3>1. UNCHANGED <<mainAt, simAt, universe, chan, renderer, histories>>
      BY <2>3 DEF Sort
    <3>2. Shape'
      BY <1>0, <3>1, ShapeStays DEF Shape
    <3>3. JobsInv' /\ SendsStay
      BY <1>0, <2>3, SortJobs
    <3>4. \E f : FramesInv(f)'
      BY <3>1, <3>3, PoolFrames
    <3>5. QED  BY <3>2, <3>3, <3>4 DEF SInv
  <2>4. CASE Sorted(w)
    <3>1. Shape'
      <4>1. /\ WriteFrame /\ renderAt # "exited" /\ chan' = chan
            /\ UNCHANGED <<mainAt, simAt, universe, histories>>
        BY <2>4 DEF Sorted
      <4>2. QED  BY <1>0, <4>1, WriteShape
    <3>2. QED  BY <1>0, <2>4, <3>1, ReceiveJobs, SortedFrames DEF SInv
  <2>5. QED  BY <1>7, <2>1, <2>2, <2>3, <2>4 DEF Render
<1>8. QED  BY <1>1, <1>2, <1>3, <1>4, <1>5, <1>6, <1>7 DEF Next, Step, WorkerStep

\* The invariant of the two arguments
LEMMA SpecSInv == Spec => []SInv
<1>1. QED  BY InitSInv, NextSInv, PTL DEF Spec

\* The shape of the state: the channel is never over its bound, no frame more
\* than FRAME_COUNT is begun or written (main.rs)
THEOREM TypeCorrect == Spec => []TypeOK
<1>1. SInv => TypeOK
  <2> SUFFICES ASSUME SInv PROVE TypeOK
    OBVIOUS
  <2>1. PoolShape /\ Shape
    BY DEF SInv, JobsInv
  <2>2. Len(video) <= FrameCount
    BY <2>1, CountsAssumption DEF Shape
  <2>3. Len(ended) <= Len(begun) /\ Len(begun) <= FrameCount
    BY <2>1, CountsAssumption DEF Shape
  <2>4. QED  BY <2>1, <2>2, <2>3 DEF TypeOK, Shape, PoolShape
<1>2. QED  BY <1>1, SpecSInv, PTL

\* Each frame written has the particles of its frame, each once, whatever the
\* workers steal and however full the channel is
THEOREM FramesAreExact == Spec => []FramesExact
<1>1. SInv => FramesExact
  <2> SUFFICES ASSUME SInv PROVE FramesExact
    OBVIOUS
  <2>1. PICK f : FramesInv(f)
    BY DEF SInv
  <2>2. Shape /\ Numbering(f) /\ SentOnce(f) /\ EndedInv(f)
    BY <2>1 DEF SInv, FramesInv
  <2>3. PICK m \in Nat, n \in Nat, k \in Nat : m = Len(video) /\ n = Len(chan) /\ k = Len(ended)
    BY <2>2 DEF Shape
  <2>4. \A p \in 1 .. n + 1 : f[p] \in Nat /\ f[p] >= m + 1
    <3>1. Receiving \in Nat /\ Receiving >= m + 1
          /\ \A p \in 1 .. n + 1 : f[p] \in Nat /\ f[p] >= Receiving
      BY <2>2, <2>3, Receives
    <3>2. QED  BY <3>1
  <2>5. m <= k
    <3>1. n + 1 \in 1 .. n + 1
      OBVIOUS
    <3>2. Sending >= m + 1
      BY <2>2, <2>3, <2>4, <3>1 DEF Numbering
    <3>3. Sending = k + 1 \/ (simAt = "end" /\ Sending = k)
      BY <2>2, <2>3 DEF Shape, Sending
    <3>4. QED  BY <3>2, <3>3
  <2>6. ASSUME NEW i \in 1 .. m, NEW e \in Particles
        PROVE  Has(f, i, e) <=> video[i][e] = 1
    <3>1. \A p \in 1 .. n : p \in 1 .. n + 1
      OBVIOUS
    <3>2. i # m + 1 /\ i < m + 1
      OBVIOUS
    <3>3. ~OnChannel(chan, f, i, e)
      BY <2>3, <2>4, <3>1, <3>2 DEF OnChannel
    <3>4. QED  BY <2>3, <3>2, <3>3 DEF Has
  <2>7. \A i \in 1 .. m : i \in 1 .. k
    BY <2>5
  <2>8. ASSUME NEW i \in 1 .. m, NEW e \in Particles
        PROVE  /\ video[i][e] <= 1
               /\ e \in begun[i] => video[i][e] = 1
               /\ video[i][e] = 1 => e \in ended[i]
    <3>1. video[i][e] \in {0, 1}
      BY <2>2, <2>3 DEF SentOnce
    <3>2. video[i][e] <= 1
      BY <3>1
    <3>3. (e \in begun[i] => Has(f, i, e)) /\ (Has(f, i, e) => e \in ended[i])
      BY <2>2, <2>3, <2>7 DEF EndedInv
    <3>4. QED  BY <2>6, <3>2, <3>3
  <2>9. QED  BY <2>3, <2>8 DEF FramesExact
<1>2. QED  BY <1>1, SpecSInv, PTL

\* A simulation that waits never takes the renderer, which would wait for it
THEOREM NotUnderRenderer == Spec => []SimulationNotUnderRenderer
<1>1. SInv => SimulationNotUnderRenderer
  BY DEF SInv, JobsInv, PlaceInv
<1>2. QED  BY <1>1, SpecSInv, PTL
=============================================================================
