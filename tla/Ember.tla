------------------------------- MODULE Ember -------------------------------
(***************************************************************************)
(* The Ember communication motifs (apps/ember/ember.cpp): a Pex x Pey grid *)
(* of workers that exchange messages with their neighbours, by wavefront   *)
(* sweeps or by halo exchange, or all through one queue, by incast or      *)
(* outcast.  A worker's program is the sequence of sends and receives it   *)
(* repeats; the queues are dedicated to one direction of one edge.         *)
(***************************************************************************)
EXTENDS Integers, Sequences

CONSTANTS Pex, Pey,    \* the grid: -pex, -pey
          Repeats,     \* -iterations
          Builds       \* the executables considered

(* A build has a pattern; a message goes as blocks pieces, one after the    *)
(* other in place or, if outside, by repeating the whole script for each    *)
(* piece (VL); a queue takes up to capacity pieces before a push waits.  A   *)
(* grid of one worker has nothing to exchange.                              *)
ASSUME EmberAssumption ==
  /\ Pex \in Nat \ {0} /\ Pey \in Nat \ {0} /\ Repeats \in Nat \ {0}
  /\ Pex * Pey > 1
  /\ Builds \subseteq [pattern : {"sweep", "halo", "incast", "outcast"},
                       blocks : Nat \ {0}, outside : BOOLEAN, capacity : Nat \ {0}]

NThreads == Pex * Pey
Workers  == 0 .. NThreads - 1
Master   == 0
NoWorker == -1
Ports    == {"xUp", "xDn", "yUp", "yDn"}

VARIABLES
  build,     \* which executable runs
  ready,     \* workers that passed their half of the start barrier
  pc,        \* "open", "wait", "run" or "done"
  step,      \* local: the place in its run a worker has reached
  queues     \* what is under way in each queue

vars == <<build, ready, pc, step, queues>>

-----------------------------------------------------------------------------
(* The grid.                                                               *)

X(w) == w % Pex
Y(w) == w \div Pex

\* get_neighbor
Neighbour(w, port) ==
  CASE port = "xUp" -> IF X(w) # Pex - 1 THEN w + 1 ELSE NoWorker
    [] port = "xDn" -> IF X(w) # 0 THEN w - 1 ELSE NoWorker
    [] port = "yUp" -> IF Y(w) # Pey - 1 THEN w + Pex ELSE NoWorker
    [] port = "yDn" -> IF Y(w) # 0 THEN w - Pex ELSE NoWorker

XUps    == Pey * (Pex - 1)            \* number of horizontally up queues
YUps    == Pex * (Pey - 1)            \* number of vertically up queues
NQueues == 2 * XUps + 2 * YUps

\* Mutant: the horizontal down queues are not skipped (tmp *= 2 left out).
YDnRx_Overlaps(w) == Y(w) + X(w) * (Pey - 1) + XUps

\* get_queue_id: the up queue of an edge has the same number at both ends, and
\* so has its down queue; 0 is the queue that all workers share.
XDnRx(w) == X(w) + Y(w) * (Pex - 1)
YDnRx(w) == Y(w) + X(w) * (Pey - 1) + 2 * XUps

SendQueue(w, port) ==
  CASE port = "xUp" -> XDnRx(w) + 1
    [] port = "xDn" -> XDnRx(w) + XUps
    [] port = "yUp" -> YDnRx(w) + 1
    [] port = "yDn" -> YDnRx(w) + YUps
    [] port = "shared" -> 0

RecvQueue(w, port) ==
  CASE port = "xDn" -> XDnRx(w)
    [] port = "xUp" -> XDnRx(w) + 1 + XUps
    [] port = "yDn" -> YDnRx(w)
    [] port = "yUp" -> YDnRx(w) + 1 + YUps
    [] port = "shared" -> 0

-----------------------------------------------------------------------------
(* The programs: what a worker with all four neighbours does in one round. *)

Send(port, wave) == [act |-> "send", port |-> port, wave |-> wave]
Recv(port, wave) == [act |-> "recv", port |-> port, wave |-> wave]

\* Mutant: the wave is passed on before it has come from below.
SweepForth_SendFirst ==
  <<Recv("xDn", 1), Send("xUp", 1), Send("yUp", 1), Recv("yDn", 1)>>

\* Sweep from (0,0) to (Px,Py), back, from (Px,0) to (0,Py), and back.
SweepForth ==
  <<Recv("xDn", 1), Recv("yDn", 1), Send("xUp", 1), Send("yUp", 1)>>
SweepBack ==
  <<Recv("xUp", 2), Recv("yUp", 2), Send("xDn", 2), Send("yDn", 2)>>
SweepAcross ==
  <<Recv("xUp", 3), Recv("yDn", 3), Send("xDn", 3), Send("yUp", 3)>>
SweepReturn ==
  <<Recv("xDn", 4), Recv("yUp", 4), Send("xUp", 4), Send("yDn", 4)>>

HaloSends ==
  <<Send("xUp", 1), Send("xDn", 1), Send("yUp", 1), Send("yDn", 1)>>
HaloReceives ==
  <<Recv("xUp", 1), Recv("xDn", 1), Recv("yUp", 1), Recv("yDn", 1)>>

\* Mutant: each worker receives before it sends.
Halo_ReceivesFirst == HaloReceives \o HaloSends
Halo == HaloSends \o HaloReceives

\* Mutant: the master stops one message early.
IncastMaster_OneLess == [i \in 1 .. NThreads - 2 |-> Recv("shared", 1)]

\* The master takes, or puts, one message for each of the others.
IncastMaster  == [i \in 1 .. NThreads - 1 |-> Recv("shared", 1)]
OutcastMaster == [i \in 1 .. NThreads - 1 |-> Send("shared", 1)]

Programs ==
  [sweep   |-> [w \in Workers |->
                  SweepForth \o SweepBack \o SweepAcross \o SweepReturn],
   halo    |-> [w \in Workers |-> Halo],
   incast  |-> [w \in Workers |->
                  IF w = Master THEN IncastMaster ELSE <<Send("shared", 1)>>],
   outcast |-> [w \in Workers |->
                  IF w = Master THEN OutcastMaster ELSE <<Recv("shared", 1)>>]]

Program(w) == Programs[build.pattern][w]

\* The pieces an operation passes, one after the other.
Pieces == IF build.outside THEN 1 ELSE build.blocks

\* The operation that place s of a worker's run belongs to, and its round: an
\* iteration, or a block of one.  The program as a whole is repeated blocks
\* times, or each operation is.
OpAt(w, s)    == Program(w)[((s \div Pieces) % Len(Program(w))) + 1]
RoundAt(w, s) == (s \div Pieces) \div Len(Program(w))
Op(w)    == OpAt(w, step[w])
Round(w) == RoundAt(w, step[w])

Total(w) == Repeats * build.blocks * Len(Program(w))

\* An operation is run for a neighbour the worker has; the others are skipped.
Runs(w, s) ==
  OpAt(w, s).port = "shared" \/ Neighbour(w, OpAt(w, s).port) # NoWorker
Skip(w, s) ==
  CHOOSE t \in s .. Total(w) :
    /\ t = Total(w) \/ Runs(w, t)
    /\ \A u \in s .. t - 1 : ~Runs(w, u)

-----------------------------------------------------------------------------
Init ==
  /\ build \in Builds
  /\ ready = 0
  /\ pc = [w \in Workers |-> "open"]
  /\ step = [w \in Workers |-> Skip(w, 0)]
  /\ queues = [q \in 0 .. NQueues |-> <<>>]

\* The start barrier: the others count themselves in ready and wait for the
\* master, which waits for all of them.
StartMaster ==
  /\ pc[Master] = "open"
  /\ ready = NThreads - 1
  /\ ready' = ready + 1
  /\ pc' = [pc EXCEPT ![Master] = "run"]
  /\ UNCHANGED <<build, step, queues>>

Announce(w) ==
  /\ pc[w] = "open" /\ w # Master
  /\ ready' = ready + 1
  /\ pc' = [pc EXCEPT ![w] = "wait"]
  /\ UNCHANGED <<build, step, queues>>

AwaitStart(w) ==
  /\ pc[w] = "wait"
  /\ ready = NThreads
  /\ pc' = [pc EXCEPT ![w] = "run"]
  /\ UNCHANGED <<build, ready, step, queues>>

AtOp(w, act) == pc[w] = "run" /\ step[w] < Total(w) /\ Op(w).act = act

\* A push, which waits for room in the queue.
Push(w) ==
  /\ AtOp(w, "send")
  /\ LET q == SendQueue(w, Op(w).port) IN
       /\ Len(queues[q]) < build.capacity
       /\ queues' = [queues EXCEPT ![q] = Append(@, [from |-> w, at |-> step[w]])]
  /\ step' = [step EXCEPT ![w] = Skip(w, @ + 1)]
  /\ UNCHANGED <<build, ready, pc>>

\* A pop, which waits for a message.
Pop(w) ==
  /\ AtOp(w, "recv")
  /\ LET q == RecvQueue(w, Op(w).port) IN
       /\ queues[q] # <<>>
       /\ queues' = [queues EXCEPT ![q] = Tail(@)]
  /\ step' = [step EXCEPT ![w] = Skip(w, @ + 1)]
  /\ UNCHANGED <<build, ready, pc>>

\* The worker returns, to be joined by main.
Return(w) ==
  /\ pc[w] = "run" /\ step[w] = Total(w)
  /\ pc' = [pc EXCEPT ![w] = "done"]
  /\ UNCHANGED <<build, ready, step, queues>>

Step(w) ==
  \/ w = Master /\ StartMaster
  \/ Announce(w) \/ AwaitStart(w) \/ Push(w) \/ Pop(w) \/ Return(w)

Next == \E w \in Workers : Step(w)

Spec == Init /\ [][Next]_vars

\* Every worker is a thread of its own.
FairSpec == Spec /\ \A w \in Workers : WF_vars(Step(w))

-----------------------------------------------------------------------------
(* Properties.                                                             *)

Grid == build.pattern \in {"sweep", "halo"}

\* Both ends of an edge number its queue alike and keep step: what a worker
\* finds at the port it receives from was sent by the neighbour on that side,
\* in the same round and the same wave, and is the same piece of the message.
RightMessage ==
  \A w \in Workers :
    Grid /\ AtOp(w, "recv") /\ queues[RecvQueue(w, Op(w).port)] # <<>> =>
      LET message == Head(queues[RecvQueue(w, Op(w).port)])
      IN  /\ message.from = Neighbour(w, Op(w).port)
          /\ RoundAt(message.from, message.at) = Round(w)
          /\ OpAt(message.from, message.at).wave = Op(w).wave
          /\ message.at % Pieces = step[w] % Pieces

\* The worker is past the receives of a wave.
Received(w, round, wave) ==
  \/ Round(w) > round
  \/ Round(w) = round /\ Op(w).wave > wave
  \/ Round(w) = round /\ Op(w).wave = wave /\ Op(w).act = "send"

\* u lies on w's side of the corner where the wave starts.
Upstream(u, w, wave) ==
  /\ IF wave \in {1, 4} THEN X(u) <= X(w) ELSE X(u) >= X(w)
  /\ IF wave \in {1, 3} THEN Y(u) <= Y(w) ELSE Y(u) >= Y(w)

\* Each wave sweeps the grid: it reaches a worker only when it has reached all
\* those between the worker and the corner it comes from.
WaveFront ==
  build.pattern = "sweep" =>
    \A u, w \in Workers, round \in 0 .. Repeats * build.blocks - 1, wave \in 1 .. 4 :
      Upstream(u, w, wave) /\ Received(w, round, wave) => Received(u, round, wave)

\* Sends and receives match: nothing is left behind when all have returned.
AllDelivered ==
  (\A w \in Workers : pc[w] = "done") => \A q \in 0 .. NQueues : queues[q] = <<>>

\* The exchange never locks up: every worker finds the start and returns, even
\* if a push has to wait for room.
AllReturn == <>(\A w \in Workers : pc[w] = "done")
=============================================================================
