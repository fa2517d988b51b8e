------------------------------ MODULE Network ------------------------------
(***************************************************************************)
(* The packet pipelines of apps/network: firewall.cpp and pipeline.cpp.    *)
(* A pool of packets circulates through queues from stage to stage and     *)
(* back to main, which sends each again until enough have gone round, and  *)
(* then tells the other threads that it is done.  The firewall's stage 1   *)
(* sorts out the packets with a wrong checksum and gathers them.           *)
(* In the RaftLib versions, and the RaftLib incast and outcast of Ember,   *)
(* nothing comes back: producers fill the packets of the pool again when   *)
(* their turn comes, wherever these are, and kernels stop from the front.  *)
(* rl_fir passes samples through a chain of filters, here of two; they are *)
(* numbered like the packets of a pool.                                    *)
(***************************************************************************)
EXTENDS Integers, Sequences, FiniteSets

CONSTANTS PoolSize,   \* POOL_SIZE
          Bulk,       \* BULK_SIZE: the most packets a thread pops at once
          BadEvery,   \* main spoils the checksum of one in so many: 8
          Retry,      \* MISTAKE_GATHER_RETRY
          Word,       \* values of a size_t
          Checksums,  \* values of checksumIP, a uint16_t
          Addresses,  \* values of srcIP, a uint32_t
          Setups      \* the executables and arguments considered

(* A setup has an app, the number of packets asked for, the capacity of a   *)
(* queue, caf: whether the queues are CAF's, and the number of threads of   *)
(* the middle stages (NUM_STAGE1 and NUM_STAGE2, fanout), or of the two ends *)
(* of rl_ember.  All targets of the firewall in CMakeLists.txt have bulks of *)
(* 7 or 8, a pool of 56 and one stage 1.                                    *)
ASSUME NetworkAssumption ==
  /\ {PoolSize, Bulk, BadEvery, Retry, Word} \subseteq Nat \ {0}
  /\ (\E s \in Setups : s.app = "firewall") =>
       Bulk <= BadEvery /\ PoolSize % BadEvery = 0
  /\ Setups \subseteq [app : {"firewall", "pipeline", "rl_firewall", "rl_pipeline", "rl_ember", "rl_fir"},
                       numPackets : 1 .. Word - 1, capacity : Nat \ {0}, caf : BOOLEAN,
                       stage1 : 1 .. 4, stage2 : 1 .. 4]
  /\ \A s \in Setups : s.app = "rl_fir" => s.stage1 = 1 /\ s.stage2 = 1

ASSUME WidthAssumption == {Checksums, Addresses} \subseteq Nat \ {0}

Packets == 1 .. PoolSize
Main    == <<"main", 1>>
Stage0  == <<"stage0", 1>>
Sorter  == <<"stage1", 1>>            \* the only stage 1 of the firewall
Correct == <<"correct", 1>>
Mistake == <<"mistake", 1>>
Workers == {Main, Correct, Mistake}
           \cup ({"stage0", "stage1", "stage2", "last"} \X (1 .. 4))

VARIABLES
  setup,
  queues,     \* the packets in each queue
  bad,        \* packets whose IP checksum is wrong
  pc,
  held,       \* local: packets popped and still to be pushed
  gathered,   \* local of the firewall's stage 1: pktsm
  polls,      \* local of the firewall's stage 1: mistake_cnt
  found,      \* local of the firewall's stage 1: the pop returned packets
  toSend,     \* local of main: npkts2send
  received,   \* local of main: npktsrecvd; of RaftLib's producers: cnt
  handled,    \* cnt_sum or cnt of a last stage, i of a stage 0
  done        \* lock.done

vars == <<setup, queues, bad, pc, held, gathered, polls, found, toSend,
          received, handled, done>>

Copies(stage, n) == {stage} \X (1 .. n)
RaftThreads ==
  CASE setup.app = "rl_firewall" -> {Stage0, Correct, Mistake} \cup Copies("stage1", setup.stage1)
    [] setup.app \in {"rl_pipeline", "rl_fir"} -> {Stage0, <<"last", 1>>} \cup Copies("stage1", setup.stage1)
                                    \cup Copies("stage2", setup.stage2)
    [] setup.app = "rl_ember"    -> Copies("stage0", setup.stage1) \cup Copies("last", setup.stage2)
Raft == setup.app \in {"rl_firewall", "rl_pipeline", "rl_ember", "rl_fir"}
Threads ==
  CASE Raft -> {Main} \cup RaftThreads
    [] setup.app = "firewall" -> {Main, Sorter, Correct, Mistake}
    [] setup.app = "pipeline" -> {Main, Stage0} \cup Copies("stage1", setup.stage1)
                                 \cup Copies("stage2", setup.stage2)

Least(m, n) == IF m < n THEN m ELSE n
Goto(w, label) == pc' = [pc EXCEPT ![w] = label]

\* Which queue a stage takes its packets from, and which it passes them to.
FirewallRoute == [main |-> <<"qp0", "q01">>, stage1 |-> <<"q01", "q1c">>,
                  correct |-> <<"q1c", "qp0">>, mistake |-> <<"q1m", "qp0">>]
PipelineRoute == [main |-> <<"q23", "q30">>, stage0 |-> <<"q30", "q01">>,
                  stage1 |-> <<"q01", "q12">>, stage2 |-> <<"q12", "q23">>]
RaftFirewall == [stage0 |-> <<"none", "q01">>, stage1 |-> <<"q01", "q1c">>,
                 correct |-> <<"q1c", "none">>, mistake |-> <<"q1m", "none">>]
RaftPipeline == [stage0 |-> <<"none", "q01">>, stage1 |-> <<"q01", "q12">>,
                 stage2 |-> <<"q12", "q23">>, last |-> <<"q23", "none">>]
FilterChain  == [stage0 |-> <<"none", "q01">>, stage1 |-> <<"q01", "q12">>,
                 stage2 |-> <<"q12", "q23">>, last |-> <<"q23", "none">>]
RaftEmber    == [stage0 |-> <<"none", "q01">>, last |-> <<"q01", "none">>]
QueueNames == {"q01", "q1c", "q1m", "qp0", "q12", "q23", "q30"}

Routes == [firewall |-> FirewallRoute, pipeline |-> PipelineRoute, rl_firewall |-> RaftFirewall,
           rl_pipeline |-> RaftPipeline, rl_ember |-> RaftEmber, rl_fir |-> FilterChain]
Route(w) == Routes[setup.app][w[1]]
In(w)  == Route(w)[1]
Out(w) == Route(w)[2]

Init ==
  /\ setup \in Setups
  /\ queues = [q \in QueueNames |-> <<>>]
  /\ bad = IF setup.app = "firewall"
             THEN {p \in Packets : (p - 1) % BadEvery = 0} ELSE {}
  /\ pc = [w \in Workers |->
             CASE w \notin Threads -> "returned"
               [] w \in Threads /\ Raft /\ w = Main -> "join"
               [] w \in Threads /\ (IF Raft THEN w[1] = "stage0" ELSE w = Main) -> "fill"
               [] OTHER -> "pop"]
  /\ held = [w \in Workers |-> IF w = Main /\ ~Raft THEN [p \in Packets |-> p] ELSE <<>>]
  /\ gathered = <<>> /\ polls = 0 /\ found = FALSE
  /\ toSend = (setup.numPackets - PoolSize) % Word
  /\ received = 0
  /\ handled = [w \in Workers |-> 0]
  /\ done = FALSE

-----------------------------------------------------------------------------
(* What all threads do.  The threads of the firewall start when main has    *)
(* filled the first queue, those of the pipeline while it fills the pool.   *)

Started == setup.app = "pipeline" \/ pc[Main] # "fill"

\* Mutant: the place in the array is not advanced.
Popped_Stuck(w, n) == [i \in 1 .. n |-> Head(queues[In(w)])]

\* A pop returns some of the packets in the queue, up to a bulk of them.
Popped(w, n) == SubSeq(queues[In(w)], 1, n)
Pop(w, n) ==
  /\ pc[w] = "pop" /\ Started
  /\ n \in 1 .. Least(Bulk, Len(queues[In(w)]))
  /\ queues' = [queues EXCEPT ![In(w)] = SubSeq(@, n + 1, Len(@))]
  /\ UNCHANGED <<setup, done>>

\* One packet is pushed, when there is room for it.
Push(w, from, to) ==
  /\ from # <<>>
  /\ Len(queues[to]) < setup.capacity
  /\ queues' = [queues EXCEPT ![to] = Append(@, Head(from))]
  /\ UNCHANGED <<setup, bad, done>>

PushHeld(w, next) ==
  /\ pc[w] = "push"
  /\ Push(w, held[w], Out(w))
  /\ held' = [held EXCEPT ![w] = Tail(@)]
  /\ Goto(w, IF Len(held[w]) = 1 THEN next ELSE "push")
  /\ UNCHANGED <<gathered, polls, found, toSend, received, handled>>

\* The pop finds nothing; only afterwards is lock.done read.
PopNothing(w) ==
  /\ pc[w] = "pop" /\ Started
  /\ queues[In(w)] = <<>>
  /\ Goto(w, "check")
  /\ UNCHANGED <<setup, queues, bad, held, gathered, polls, found, toSend, received,
                 handled, done>>

CheckDone(w) ==
  /\ pc[w] = "check"
  /\ Goto(w, IF done THEN "returned" ELSE "pop")
  /\ UNCHANGED <<setup, queues, bad, held, gathered, polls, found, toSend, received,
                 handled, done>>

PassOn(w) ==
  \E n \in 1 .. Bulk :
    /\ Pop(w, n)
    /\ held' = [held EXCEPT ![w] = Popped(w, n)]
    /\ handled' = [handled EXCEPT ![w] = @ + n]
    /\ Goto(w, "push")
    /\ UNCHANGED <<bad, gathered, polls, found, toSend, received>>

\* A stage that passes on what it pops until it finds nothing and is told so.
Stage(w) == PassOn(w) \/ PushHeld(w, "pop") \/ PopNothing(w) \/ CheckDone(w)

CorrectStage  == setup.app = "firewall" /\ Stage(Correct)
MistakeStage  == setup.app = "firewall" /\ Stage(Mistake)
PipelineStage1(i) == setup.app = "pipeline" /\ Stage(<<"stage1", i>>)
PipelineStage2(i) == setup.app = "pipeline" /\ Stage(<<"stage2", i>>)

\* The pipeline's stage 0 stops by itself when it has passed on enough.
Stage0Returns ==
  /\ pc[Stage0] = "pop" /\ handled[Stage0] >= setup.numPackets
  /\ Goto(Stage0, "returned")
  /\ UNCHANGED <<setup, queues, bad, held, gathered, polls, found, toSend, received,
                 handled, done>>

GeneratorStage ==
  /\ setup.app = "pipeline"
  /\ \/ handled[Stage0] < setup.numPackets /\ PassOn(Stage0)
     \/ PushHeld(Stage0, "pop")
     \/ Stage0Returns

-----------------------------------------------------------------------------
(* Stage 1 of the firewall.                                                *)

IsBad(p) == p \in bad

\* The packets at some places of a sequence, in their order.
Those(packets, places) ==
  [k \in 1 .. Cardinality(places) |->
     packets[CHOOSE i \in places : Cardinality({j \in places : j <= i}) = k]]

\* A pop, of nothing too, and the packets sorted by their checksum.
Sort ==
  /\ \/ \E n \in 1 .. Bulk :
          /\ Pop(Sorter, n)
          /\ LET packets  == Popped(Sorter, n)
                 mistakes == {i \in 1 .. n : IsBad(packets[i])}
             IN  /\ held' = [held EXCEPT ![Sorter] = Those(packets, (1 .. n) \ mistakes)]
                 /\ gathered' = gathered \o Those(packets, mistakes)
                 /\ Goto(Sorter, IF mistakes = 1 .. n THEN "gather" ELSE "push")
          /\ found' = TRUE
     \/ /\ pc[Sorter] = "pop" /\ Started
        /\ queues["q01"] = <<>>
        /\ Goto(Sorter, "gather")
        /\ found' = FALSE
        /\ UNCHANGED <<setup, queues, held, gathered, done>>
  /\ UNCHANGED <<bad, polls, toSend, received, handled>>

AfterGather == IF found THEN "pop" ELSE "check"

\* Mutant: the mistakes are passed on only when there is a bulk of them.
Gather_FullOnly ==
  /\ pc[Sorter] = "gather"
  /\ IF Len(gathered) = Bulk
       THEN Goto(Sorter, "flush") /\ polls' = 0
       ELSE Goto(Sorter, AfterGather) /\ UNCHANGED polls
  /\ UNCHANGED <<setup, queues, bad, held, gathered, found, toSend, received, handled, done>>

\* Mutant: the mistakes are passed on only when they have waited long enough.
Gather_RetryOnly ==
  /\ pc[Sorter] = "gather"
  /\ IF Retry <= polls
       THEN Goto(Sorter, "flush") /\ polls' = 0
       ELSE /\ Goto(Sorter, AfterGather)
            /\ polls' = polls + (IF gathered = <<>> THEN 0 ELSE 1)
  /\ UNCHANGED <<setup, queues, bad, held, gathered, found, toSend, received, handled, done>>

\* The mistakes are passed on when there are a bulk of them, or when they have
\* waited for Retry polls.
Gather ==
  /\ pc[Sorter] = "gather"
  /\ IF Len(gathered) = Bulk \/ Retry <= polls
       THEN Goto(Sorter, "flush") /\ polls' = 0
       ELSE /\ Goto(Sorter, AfterGather)
            /\ polls' = polls + (IF gathered = <<>> THEN 0 ELSE 1)
  /\ UNCHANGED <<setup, queues, bad, held, gathered, found, toSend, received, handled, done>>

Flush ==
  /\ pc[Sorter] = "flush"
  /\ Push(Sorter, gathered, "q1m")
  /\ gathered' = Tail(gathered)
  /\ Goto(Sorter, IF Len(gathered) = 1 THEN AfterGather ELSE "flush")
  /\ UNCHANGED <<held, polls, found, toSend, received, handled>>

SorterStage ==
  /\ setup.app = "firewall"
  /\ Sort \/ PushHeld(Sorter, "gather") \/ Gather \/ Flush \/ CheckDone(Sorter)

-----------------------------------------------------------------------------
(* The main thread.                                                        *)

\* The pool is put into the first queue.
Fill ==
  /\ pc[Main] = "fill"
  /\ Push(Main, held[Main], Out(Main))
  /\ held' = [held EXCEPT ![Main] = Tail(@)]
  /\ Goto(Main, IF Len(held[Main]) = 1 THEN "pop" ELSE "fill")
  /\ UNCHANGED <<gathered, polls, found, toSend, received, handled>>

\* Packet n has a wrong checksum when n is a multiple of BadEvery.  rl_firewall's
\* srcIP grows with the number of the packet, and what checksumIP cannot hold of
\* it is lost: iscorrupted compares the whole of it (rl_firewall.cpp:152).
SrcIP(n) == (n - (n % Bulk)) % Addresses
Spoilt(n) ==
  \/ setup.app \in {"firewall", "rl_firewall"} /\ n % BadEvery = 0
  \/ setup.app = "rl_firewall" /\ SrcIP(n) >= Checksums

\* The packets get the numbers from received on.
Remark(packets) ==
  (bad \ {packets[j] : j \in DOMAIN packets})
    \cup {packets[j] : j \in {i \in DOMAIN packets : Spoilt(received + i - 1)}}

\* How many of n packets that came back are needed again.
Again(n) == Least(toSend, n)

\* Packets come back and as many as are needed are sent again.  CAF's push
\* in firewall.cpp may take all of them, the rest with their old headers.
Recycle ==
  /\ received < setup.numPackets
  /\ \E n \in 1 .. Bulk :
       /\ Pop(Main, n)
       /\ \E m \in IF setup.caf /\ setup.app = "firewall" /\ Again(n) > 0
                     THEN Again(n) .. n ELSE {Again(n)} :
            /\ held' = [held EXCEPT ![Main] = SubSeq(Popped(Main, n), 1, m)]
            /\ Goto(Main, IF m = 0 THEN "pop" ELSE "push")
       /\ bad' = Remark(SubSeq(Popped(Main, n), 1, Again(n)))
       /\ toSend' = toSend - Again(n)
       /\ received' = received + n
  /\ UNCHANGED <<gathered, polls, found, handled>>

\* Mutant: main stops when nothing is left to be sent.
AnnounceDone_Early ==
  /\ pc[Main] = "pop" /\ toSend = 0
  /\ done' = TRUE
  /\ Goto(Main, "join")
  /\ UNCHANGED <<setup, queues, bad, held, gathered, polls, found, toSend, received, handled>>

AnnounceDone ==
  /\ pc[Main] = "pop" /\ received >= setup.numPackets
  /\ done' = TRUE
  /\ Goto(Main, "join")
  /\ UNCHANGED <<setup, queues, bad, held, gathered, polls, found, toSend, received, handled>>

Join ==
  /\ pc[Main] = "join"
  /\ \A w \in Workers \ {Main} : pc[w] = "returned"
  /\ Goto(Main, "returned")
  /\ UNCHANGED <<setup, queues, bad, held, gathered, polls, found, toSend, received,
                 handled, done>>

MainThread == Fill \/ Recycle \/ PushHeld(Main, "pop") \/ AnnounceDone \/ Join

-----------------------------------------------------------------------------
(* The kernels of the RaftLib versions.                                    *)

\* A producer fills the next packet of the pool, whether it has come through or
\* not.  cnt is atomic where several producers share it.
Produce(w) ==
  /\ pc[w] = "fill"
  /\ LET slot == (received % PoolSize) + 1
     IN  held' = [held EXCEPT ![w] = <<slot>>] /\ bad' = Remark(<<slot>>)
  /\ handled' = [handled EXCEPT ![w] = received]
  /\ received' = received + 1
  /\ Goto(w, "send")
  /\ UNCHANGED <<setup, queues, gathered, polls, found, toSend, done>>

\* The number of the packet after which a producer stops.
LastNumber == IF setup.app = "rl_ember" THEN setup.numPackets + 1 ELSE setup.numPackets
Send(w) ==
  /\ pc[w] = "send"
  /\ Push(w, held[w], Out(w))
  /\ held' = [held EXCEPT ![w] = <<>>]
  /\ Goto(w, IF handled[w] >= LastNumber THEN "returned" ELSE "fill")
  /\ UNCHANGED <<gathered, polls, found, toSend, received, handled>>

\* A middle kernel takes one packet; that of the firewall reads its header then.
Take(w) ==
  /\ Out(w) # "none" /\ Pop(w, 1)
  /\ held' = [held EXCEPT ![w] = Popped(w, 1)]
  /\ Goto(w, IF setup.app = "rl_firewall" THEN "inspect" ELSE "push")
  /\ UNCHANGED <<bad, gathered, polls, found, toSend, received, handled>>

Inspect(w) ==
  /\ pc[w] = "inspect"
  /\ Goto(w, IF IsBad(Head(held[w])) THEN "mistake" ELSE "push")
  /\ UNCHANGED <<setup, queues, bad, held, gathered, polls, found, toSend, received, handled, done>>

PushMistake(w) ==
  /\ pc[w] = "mistake"
  /\ Push(w, held[w], "q1m")
  /\ held' = [held EXCEPT ![w] = <<>>]
  /\ Goto(w, "pop")
  /\ UNCHANGED <<gathered, polls, found, toSend, received, handled>>

Absorb(w) ==
  /\ Out(w) = "none" /\ Pop(w, 1)
  /\ handled' = [handled EXCEPT ![w] = @ + 1]
  /\ UNCHANGED <<bad, pc, held, gathered, polls, found, toSend, received>>

\* RaftLib ends a kernel when those before it have ended and its stream is dry.
Before(w) == CASE w[1] = "stage1" -> {"stage0"}
               [] w[1] \in {"correct", "mistake", "stage2"} -> {"stage0", "stage1"}
               [] w[1] = "last" -> {"stage0", "stage1", "stage2"}
RunsDry(w) ==
  /\ pc[w] = "pop" /\ queues[In(w)] = <<>>
  /\ \A u \in Threads : u[1] \in Before(w) => pc[u] = "returned"
  /\ Goto(w, "returned")
  /\ UNCHANGED <<setup, queues, bad, held, gathered, polls, found, toSend, received, handled, done>>

Kernel(w) ==
  /\ Raft /\ w \in RaftThreads
  /\ \/ w[1] = "stage0" /\ (Produce(w) \/ Send(w))
     \/ w[1] # "stage0" /\ (Take(w) \/ Inspect(w) \/ PushMistake(w) \/ PushHeld(w, "pop")
                            \/ Absorb(w) \/ RunsDry(w))

-----------------------------------------------------------------------------
Next ==
  \/ MainThread \/ SorterStage \/ CorrectStage \/ MistakeStage \/ GeneratorStage
  \/ \E i \in 1 .. 4 : PipelineStage1(i) \/ PipelineStage2(i)
  \/ \E w \in Workers \ {Main} : Kernel(w)

Spec == Init /\ [][Next]_vars

\* Every thread is pinned to a core of its own and polls.
FairSpec ==
  /\ Spec
  /\ WF_vars(MainThread) /\ WF_vars(SorterStage) /\ WF_vars(CorrectStage)
  /\ WF_vars(MistakeStage) /\ WF_vars(GeneratorStage)
  /\ \A i \in 1 .. 4 : WF_vars(PipelineStage1(i)) /\ WF_vars(PipelineStage2(i))
  /\ \A w \in Workers \ {Main} : WF_vars(Kernel(w))

-----------------------------------------------------------------------------
(* Properties.                                                             *)

Places == ({"queue"} \X QueueNames) \cup ({"held"} \X Workers) \cup {<<"gathered", Sorter>>}
At(place) ==
  CASE place[1] = "queue" -> queues[place[2]]
    [] place[1] = "held"  -> held[place[2]]
    [] OTHER              -> gathered
Occupied == {place \in Places : At(place) # <<>>}

\* A filter's output depends on the order of its input: from the end of the
\* chain to its head the samples follow on one another, none missing.
Last == <<"last", 1>>
Chain == queues["q23"] \o held[<<"stage2", 1>>] \o queues["q12"] \o held[Sorter]
           \o queues["q01"] \o held[Stage0]
SamplesInTurn ==
  Chain = [i \in 1 .. received - handled[Last] |-> ((handled[Last] + i - 1) % PoolSize) + 1]

\* No packet is in two places: main does not send a packet again that is
\* still with another thread, nor the same one twice.  (RaftLib's producers do.)
\* The samples of the filters, sent once each, stay in order.
EachPacketOnce ==
  IF setup.app = "rl_fir" THEN SamplesInTurn
  ELSE ~Raft => \A a, b \in Occupied : \A i \in DOMAIN At(a), j \in DOMAIN At(b) :
                  At(a)[i] = At(b)[j] => a = b /\ i = j

\* The mistakes gathered fit into pktsm, which is flushed when its index is
\* equal to BULK_SIZE and not when it is beyond (firewall.cpp:183, 350).
MistakesFit == Len(gathered) <= Bulk

Multiples(n) == (n + BadEvery - 1) \div BadEvery

\* When all threads have returned, every packet asked for, and no other, has
\* gone round, none is left in a queue or in a thread, and the firewall has
\* found all the mistakes.  (Asked for fewer packets than the pool has, main's
\* npkts2send wraps around, and this is not so.)
PoolTotals ==
  setup.numPackets >= PoolSize =>
    /\ received = setup.numPackets
    /\ setup.app = "pipeline" => handled[Stage0] = setup.numPackets
    /\ setup.app = "firewall" =>
         /\ handled[Mistake] = Multiples(PoolSize) + Multiples(setup.numPackets - PoolSize)
         /\ handled[Correct] + handled[Mistake] = setup.numPackets

\* The first packet of rl_firewall whose srcIP is too wide for checksumIP.  From
\* it on, until srcIP wraps around, every packet is found to be a mistake.
TooWide     == ((Checksums + Bulk - 1) \div Bulk) * Bulk
Mistakes(n) == IF n <= TooWide THEN Multiples(n) ELSE Multiples(TooWide) + (n - TooWide)

\* RaftLib's producers send one packet more than they are asked for, two in
\* rl_ember, and one for every further producer; all of them arrive.  The
\* mistakes are told from the others if no packet can be filled again before it
\* has been inspected: with one stage 1, and a stream shorter than the pool.
Arrived == handled[Correct] + handled[Mistake] + handled[<<"last", 1>>] + handled[<<"last", 2>>]
             + handled[<<"last", 3>>] + handled[<<"last", 4>>]
RaftTotals ==
  /\ received = LastNumber + Cardinality({w \in RaftThreads : w[1] = "stage0"})
  /\ Arrived = received
  /\ setup.app = "rl_firewall" /\ setup.stage1 = 1 /\ setup.capacity + 2 <= PoolSize =>
       (received <= Addresses => handled[Mistake] = Mistakes(received))

TotalsAddUp ==
  pc[Main] = "returned" =>
    /\ setup.numPackets >= PoolSize \/ Raft => Occupied = {}
    /\ IF Raft THEN RaftTotals ELSE PoolTotals

\* The program comes to its end: no packet is kept back for ever, and main
\* and the stages never wait for each other.
AllReturn == <>(pc[Main] = "returned")
=============================================================================
