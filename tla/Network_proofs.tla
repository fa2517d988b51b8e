--------------------------- MODULE Network_proofs ---------------------------
(* The packets of the firewall, the pipelines and the filters, for a pool of  *)
(* any size, any bulk, any queues and any number of packets asked for.        *)
EXTENDS Network, SequenceTheorems, FiniteSetTheorems, TLAPS

USE NetworkAssumption

-----------------------------------------------------------------------------
(* Sequences.                                                              *)

\* A sequence cut in two.
LEMMA Cut ==
  ASSUME NEW S, NEW s \in Seq(S), NEW n \in 0 .. Len(s)
  PROVE  /\ SubSeq(s, 1, n) \in Seq(S) /\ Len(SubSeq(s, 1, n)) = n
         /\ \A i \in 1 .. n : SubSeq(s, 1, n)[i] = s[i]
         /\ SubSeq(s, n + 1, Len(s)) \in Seq(S)
         /\ Len(SubSeq(s, n + 1, Len(s))) = Len(s) - n
         /\ \A i \in 1 .. Len(s) - n : SubSeq(s, n + 1, Len(s))[i] = s[i + n]
<1>1. \A i \in 1 .. Len(s) : s[i] \in S
  BY ElementOfSeq
<1>2. Len(s) \in Nat /\ n \in Nat /\ 1 \in Int /\ n + 1 \in Int
  OBVIOUS
<1>3. /\ SubSeq(s, 1, n) \in Seq(S)
      /\ Len(SubSeq(s, 1, n)) = IF 1 <= n THEN n - 1 + 1 ELSE 0
      /\ \A i \in 1 .. n - 1 + 1 : SubSeq(s, 1, n)[i] = s[1 + i - 1]
  BY <1>1, <1>2, SubSeqProperties
<1>4. /\ SubSeq(s, n + 1, Len(s)) \in Seq(S)
      /\ Len(SubSeq(s, n + 1, Len(s))) = IF n + 1 <= Len(s) THEN Len(s) - (n + 1) + 1 ELSE 0
      /\ \A i \in 1 .. Len(s) - (n + 1) + 1 : SubSeq(s, n + 1, Len(s))[i] = s[(n + 1) + i - 1]
  BY <1>1, <1>2, SubSeqProperties
<1> DEFINE a == SubSeq(s, 1, n)
<1> DEFINE b == SubSeq(s, n + 1, Len(s))
<1> HIDE DEF a, b
<1>5. Len(a) = n /\ \A i \in 1 .. n : a[i] = s[i]
  BY <1>2, <1>3 DEF a
<1>6. Len(b) = Len(s) - n
  BY <1>2, <1>4 DEF b
<1>7. \A i \in 1 .. Len(s) - n : b[i] = s[i + n]
  <2>1. TAKE i \in 1 .. Len(s) - n
  <2>2. i \in 1 .. Len(s) - (n + 1) + 1 /\ (n + 1) + i - 1 = i + n
    BY <1>2
  <2>3. b[i] = s[(n + 1) + i - 1]
    BY <1>4, <2>2 DEF b
  <2>4. QED
    BY <2>2, <2>3
<1>8. QED
  BY <1>3, <1>4, <1>5, <1>6, <1>7 DEF a, b

LEMMA Nothing ==
  ASSUME NEW S, NEW s \in Seq(S), Len(s) = 0
  PROVE  s = <<>>
OBVIOUS

\* The first element passed from one sequence to another.
LEMMA Passed ==
  ASSUME NEW S, NEW s \in Seq(S), s # <<>>, NEW t \in Seq(S)
  PROVE  /\ Head(s) = s[1] /\ Head(s) \in S /\ Tail(s) \in Seq(S) /\ Len(Tail(s)) = Len(s) - 1
         /\ \A i \in 1 .. Len(s) - 1 : Tail(s)[i] = s[i + 1]
         /\ Append(t, Head(s)) \in Seq(S) /\ Len(Append(t, Head(s))) = Len(t) + 1
         /\ \A i \in 1 .. Len(t) : Append(t, Head(s))[i] = t[i]
         /\ Append(t, Head(s))[Len(t) + 1] = Head(s)
<1>1. /\ Head(s) \in S /\ Tail(s) \in Seq(S) /\ Len(Tail(s)) = Len(s) - 1
      /\ \A i \in 1 .. Len(Tail(s)) : Tail(s)[i] = s[i + 1]
  BY HeadTailProperties
<1>2. Head(s) = s[1]
  OBVIOUS
<1>3. QED
  BY <1>1, <1>2, AppendProperties

\* The elements of a sequence at some places.
Drawn(S, s, places, t) ==
  /\ t \in Seq(S) /\ Len(t) = Cardinality(places) /\ Cardinality(places) \in Nat
  /\ \E e \in [1 .. Len(t) -> places] :
       /\ \A i, j \in 1 .. Len(t) : e[i] = e[j] => i = j
       /\ \A i \in 1 .. Len(t) : t[i] = s[e[i]]

LEMMA Chosen ==
  ASSUME NEW S, NEW s \in Seq(S), NEW places \in SUBSET (1 .. Len(s))
  PROVE  Drawn(S, s, places, Those(s, places))
<1> DEFINE m == Cardinality(places)
<1> DEFINE Rank(i) == Cardinality({j \in places : j <= i})
<1> DEFINE rank == [i \in places |-> Rank(i)]
<1> DEFINE e == [k \in 1 .. m |-> CHOOSE i \in places : Rank(i) = k]
<1>1. IsFiniteSet(places) /\ m \in Nat /\ places \subseteq Nat
  <2>1. IsFiniteSet(1 .. Len(s)) /\ 1 .. Len(s) \subseteq Nat
    BY FS_Interval
  <2>2. QED
    BY <2>1, FS_Subset, FS_CardinalityType
<1>2. \A i \in places : Rank(i) \in 1 .. m
  <2>1. TAKE i \in places
  <2> DEFINE below == {j \in places : j <= i}
  <2>2. below \in SUBSET places /\ i \in below
    BY <1>1
  <2>3. IsFiniteSet(below) /\ Cardinality(below) <= m /\ Cardinality(below) \in Nat
    <3> HIDE DEF below
    <3>1. IsFiniteSet(below) /\ Cardinality(below) <= m
      BY <1>1, <2>2, FS_Subset
    <3>2. QED
      BY <3>1, FS_CardinalityType
  <2>4. Cardinality(below) # 0
    <3> HIDE DEF below
    <3>1. QED
      BY <2>2, <2>3, FS_EmptySet
  <2> HIDE DEF m
  <2>5. QED
    BY <1>1, <2>3, <2>4
<1>3. \A i, j \in places : i < j => Rank(i) < Rank(j)
  <2>1. SUFFICES ASSUME NEW i \in places, NEW j \in places, i < j PROVE Rank(i) < Rank(j)
    OBVIOUS
  <2> DEFINE a == {k \in places : k <= i}
  <2> DEFINE b == {k \in places : k <= j}
  <2>2. b \in SUBSET places /\ a \in SUBSET b /\ j \in b /\ j \notin a
    <3>1. \A k \in places : k \in Nat /\ i \in Nat /\ j \in Nat
      BY <1>1
    <3>2. \A k \in places : k <= i => k <= j
      BY <2>1, <3>1
    <3>3. j <= j /\ ~(j <= i)
      BY <2>1, <3>1
    <3>4. QED
      BY <3>2, <3>3
  <2>3. IsFiniteSet(b)
    <3> HIDE DEF b
    <3>1. QED
      BY <1>1, <2>2, FS_Subset
  <2>4. Cardinality(a) <= Cardinality(b) /\ Cardinality(a) # Cardinality(b)
        /\ Cardinality(a) \in Nat /\ Cardinality(b) \in Nat
    <3> HIDE DEF a, b
    <3>1. IsFiniteSet(a) /\ Cardinality(a) <= Cardinality(b) /\ (Cardinality(b) = Cardinality(a) => b = a)
      BY <2>2, <2>3, FS_Subset
    <3>2. Cardinality(a) \in Nat /\ Cardinality(b) \in Nat
      BY <2>3, <3>1, FS_CardinalityType
    <3>3. QED
      BY <2>2, <3>1, <3>2
  <2>5. QED
    BY <2>4
<1>4. rank \in Injection(places, 1 .. m)
  <2>1. rank \in [places -> 1 .. m]
    BY <1>2
  <2>2. \A i, j \in places : rank[i] = rank[j] => i = j
    <3>1. SUFFICES ASSUME NEW i \in places, NEW j \in places, i < j PROVE Rank(i) # Rank(j)
      BY <1>1
    <3>2. Rank(i) < Rank(j) /\ Rank(i) \in 1 .. m /\ Rank(j) \in 1 .. m
      BY <1>2, <1>3, <3>1
    <3> HIDE DEF Rank
    <3>3. QED
      BY <1>1, <3>2
  <2> HIDE DEF rank
  <2>3. QED
    BY <2>1, <2>2 DEF Injection, IsInjective
<1>5. rank \in Surjection(places, 1 .. m)
  <2> HIDE DEF rank, m
  <2>1. IsFiniteSet(1 .. m) /\ Cardinality(1 .. m) = m
    <3>1. /\ IsFiniteSet(1 .. m)
          /\ Cardinality(1 .. m) = IF 1 > m THEN 0 ELSE m - 1 + 1
      <4>1. 1 \in Int /\ m \in Int
        BY <1>1
      <4>2. QED
        BY ONLY <4>1, FS_Interval
    <3>2. QED
      BY <1>1, <3>1
  <2>2. Cardinality(places) = Cardinality(1 .. m)
    BY <2>1 DEF m
  <2>3. QED
    BY <1>4, <2>1, <2>2, FS_Injection
<1>6. \A k \in 1 .. m : \E i \in places : Rank(i) = k
  BY <1>5 DEF Surjection
<1>7. e \in [1 .. m -> places] /\ \A k \in 1 .. m : Rank(e[k]) = k
  BY <1>6
<1>8. \A i, j \in 1 .. m : e[i] = e[j] => i = j
  <2> HIDE DEF e, Rank, m
  <2>1. QED
    BY <1>7
<1> DEFINE t == [k \in 1 .. m |-> s[e[k]]]
<1>9. Those(s, places) = t
  BY DEF Those
<1> HIDE DEF e, m
<1>10. t \in Seq(S) /\ Len(t) = m
  <2>1. \A k \in 1 .. m : s[e[k]] \in S
    BY <1>7, ElementOfSeq
  <2>2. t \in [1 .. m -> S]
    BY <2>1
  <2>3. QED
    BY <1>1, <2>2, SeqDef
<1>11. Drawn(S, s, places, t)
  BY <1>1, <1>7, <1>8, <1>10 DEF m, Drawn
<1>12. QED
  BY <1>9, <1>11

-----------------------------------------------------------------------------
(* Types.                                                                  *)

Labels == {"fill", "pop", "check", "push", "gather", "flush", "join", "returned",
           "send", "inspect", "mistake"}

TypeOK ==
  /\ setup \in Setups
  /\ queues \in [QueueNames -> Seq(Packets)]
  /\ bad \subseteq Packets
  /\ pc \in [Workers -> Labels]
  /\ held \in [Workers -> Seq(Packets)]
  /\ gathered \in Seq(Packets)
  /\ polls \in Nat /\ found \in BOOLEAN
  /\ toSend \in Nat /\ received \in Nat
  /\ handled \in [Workers -> Nat]
  /\ done \in BOOLEAN

\* The threads of the queues' two ends.
LEMMA FirewallQueues ==
  ASSUME setup.app = "firewall"
  PROVE  /\ In(Main) = "qp0" /\ Out(Main) = "q01" /\ In(Sorter) = "q01" /\ Out(Sorter) = "q1c"
         /\ In(Correct) = "q1c" /\ Out(Correct) = "qp0" /\ In(Mistake) = "q1m" /\ Out(Mistake) = "qp0"
BY DEF In, Out, Route, Routes, FirewallRoute, Main, Sorter, Correct, Mistake

LEMMA PipelineQueues ==
  ASSUME setup.app = "pipeline"
  PROVE  /\ In(Main) = "q23" /\ Out(Main) = "q30" /\ In(Stage0) = "q30" /\ Out(Stage0) = "q01"
         /\ \A i \in 1 .. 4 :
              /\ In(<<"stage1", i>>) = "q01" /\ Out(<<"stage1", i>>) = "q12"
              /\ In(<<"stage2", i>>) = "q12" /\ Out(<<"stage2", i>>) = "q23"
BY DEF In, Out, Route, Routes, PipelineRoute, Main, Stage0

Kernels ==
  CASE setup.app = "rl_firewall" -> {"stage0", "stage1", "correct", "mistake"}
    [] setup.app \in {"rl_pipeline", "rl_fir"} -> {"stage0", "stage1", "stage2", "last"}
    [] setup.app = "rl_ember"    -> {"stage0", "last"}

LEMMA RaftQueues ==
  ASSUME TypeOK, Raft, NEW w \in RaftThreads
  PROVE  /\ w \in Workers \ {Main} /\ w[1] \in Kernels
         /\ In(w) = CASE w[1] = "stage0" -> "none"
                      [] w[1] = "stage1" -> "q01"
                      [] w[1] = "stage2" -> "q12"
                      [] w[1] = "correct" -> "q1c"
                      [] w[1] = "mistake" -> "q1m"
                      [] w[1] = "last" -> IF setup.app = "rl_ember" THEN "q01" ELSE "q23"
         /\ Out(w) = CASE w[1] = "stage0" -> "q01"
                       [] w[1] = "stage1" -> IF setup.app = "rl_firewall" THEN "q1c" ELSE "q12"
                       [] w[1] = "stage2" -> "q23"
                       [] OTHER -> "none"
<1>1. /\ setup.app \in {"rl_firewall", "rl_pipeline", "rl_ember", "rl_fir"}
      /\ setup.stage1 \in 1 .. 4 /\ setup.stage2 \in 1 .. 4
  BY DEF TypeOK, Raft, NetworkAssumption
<1>2. \A s, n : n \in 1 .. 4 => Copies(s, n) = {<<s, i>> : i \in 1 .. n} /\ 1 .. n \subseteq 1 .. 4
  BY DEF Copies
<1>3. /\ w \in Workers \ {Main} /\ w[1] \in Kernels
  <2>1. CASE setup.app = "rl_firewall"
    <3>1. w \in {Stage0, Correct, Mistake} \cup Copies("stage1", setup.stage1)
      BY <2>1 DEF RaftThreads
    <3>2. QED
      BY <1>1, <1>2, <2>1, <3>1 DEF Kernels, Workers, Main, Stage0, Correct, Mistake
  <2>2. CASE setup.app \in {"rl_pipeline", "rl_fir"}
    <3>1. w \in {Stage0, <<"last", 1>>} \cup Copies("stage1", setup.stage1) \cup Copies("stage2", setup.stage2)
      BY <2>2 DEF RaftThreads
    <3>2. QED
      BY <1>1, <1>2, <2>2, <3>1 DEF Kernels, Workers, Main, Stage0
  <2>3. CASE setup.app = "rl_ember"
    <3>1. w \in Copies("stage0", setup.stage1) \cup Copies("last", setup.stage2)
      BY <2>3 DEF RaftThreads
    <3>2. QED
      BY <1>1, <1>2, <2>3, <3>1 DEF Kernels, Workers, Main
  <2>4. QED
    BY <1>1, <2>1, <2>2, <2>3
<1>4. /\ setup.app = "rl_firewall" => Routes[setup.app] = RaftFirewall
      /\ setup.app = "rl_pipeline" => Routes[setup.app] = RaftPipeline
      /\ setup.app = "rl_fir" => Routes[setup.app] = FilterChain
      /\ setup.app = "rl_ember" => Routes[setup.app] = RaftEmber
  BY DEF Routes
<1>5. QED
  BY <1>1, <1>3, <1>4 DEF Kernels, In, Out, Route, RaftFirewall, RaftPipeline, FilterChain, RaftEmber

LEMMA InitTyped == Init => TypeOK
<1> SUFFICES ASSUME Init PROVE TypeOK
  OBVIOUS
<1>1. [p \in Packets |-> p] \in Seq(Packets) /\ <<>> \in Seq(Packets)
  <2>1. PoolSize \in Nat
    BY DEF NetworkAssumption
  <2>2. [p \in 1 .. PoolSize |-> p] \in [1 .. PoolSize -> Packets]
    BY DEF Packets
  <2>3. QED
    BY <2>1, <2>2, SeqDef DEF Packets
<1>2. /\ held \in [Workers -> Seq(Packets)] /\ queues \in [QueueNames -> Seq(Packets)]
      /\ gathered \in Seq(Packets)
  BY <1>1 DEF Init
<1>3. toSend \in Nat
  <2>1. setup.numPackets \in Nat /\ PoolSize \in Nat /\ Word \in Nat \ {0}
    BY DEF Init, NetworkAssumption
  <2>2. setup.numPackets - PoolSize \in Int
    BY <2>1
  <2>3. QED
    BY <2>1, <2>2 DEF Init
<1>4. pc \in [Workers -> Labels]
  BY DEF Init, Labels
<1>5. QED
  BY <1>2, <1>3, <1>4 DEF Init, TypeOK

\* Threads that only pass packets on.
Stages == CASE setup.app = "firewall" -> {Correct, Mistake}
            [] setup.app = "pipeline" -> {Stage0} \cup ({"stage1", "stage2"} \X (1 .. 4))
            [] OTHER -> {}

\* Where the threads of each program may be, and what they hold there.
LabelFor(w, l) ==
  /\ Raft /\ w = Main => l \in {"join", "returned"}
  /\ Raft /\ w # Main =>
       /\ l \in IF w[1] = "stage0" THEN {"fill", "send", "returned"}
               ELSE {"pop", "inspect", "push", "mistake", "returned"}
       /\ l # "returned" => w \in RaftThreads
       /\ l = "push" => w[1] \in {"stage1", "stage2"}
       /\ l \in {"inspect", "mistake"} => setup.app = "rl_firewall" /\ w[1] = "stage1"
  /\ ~Raft /\ w = Main => l \in {"fill", "pop", "push", "join", "returned"}
  /\ ~Raft /\ w # Main =>
       /\ l \in {"pop", "push", "gather", "flush", "check", "returned"}
       /\ l # "returned" => w \in Threads
       /\ l \in {"gather", "flush"} => setup.app = "firewall" /\ w = Sorter

HeldFor(l, packets) ==
  /\ l \in {"pop", "check", "gather", "flush", "join", "returned"} => packets = <<>>
  /\ l = "fill" /\ Raft => packets = <<>>
  /\ l \in {"send", "inspect", "mistake"} => Len(packets) = 1

LabelsFit == \A w \in Workers : LabelFor(w, pc[w]) /\ HeldFor(pc[w], held[w])

LEMMA Apps ==
  ASSUME TypeOK
  PROVE  /\ setup.app \in {"firewall", "pipeline", "rl_firewall", "rl_pipeline", "rl_ember", "rl_fir"}
         /\ ~Raft <=> setup.app \in {"firewall", "pipeline"}
BY DEF TypeOK, Raft, NetworkAssumption

LEMMA Workforce ==
  /\ Main \in Workers /\ Stage0 \in Workers /\ Sorter \in Workers
  /\ Correct \in Workers /\ Mistake \in Workers
  /\ Stages \subseteq Workers \ {Main, Sorter} \/ setup.app = "pipeline"
  /\ Stages \subseteq Workers \ {Main}
  /\ Sorter # Main /\ Correct # Main /\ Mistake # Main /\ Stage0 # Main
  /\ Sorter # Correct /\ Sorter # Mistake /\ Correct # Mistake /\ Stage0 # Sorter
BY DEF Main, Stage0, Sorter, Correct, Mistake, Workers, Stages

\* All that can happen.
LEMMA Cases ==
  ASSUME TypeOK, LabelsFit, Next
  PROVE  \/ ~Raft /\ \E w \in Stages : PassOn(w)
         \/ ~Raft /\ \E w \in Stages \cup {Main} : PushHeld(w, "pop")
         \/ setup.app = "firewall" /\ (PushHeld(Sorter, "gather") \/ Sort \/ Gather \/ Flush)
         \/ ~Raft /\ (Fill \/ Recycle \/ AnnounceDone)
         \/ Join
         \/ ~Raft /\ \E w \in Workers \ {Main} : PopNothing(w) \/ CheckDone(w)
         \/ setup.app = "pipeline" /\ Stage0Returns
         \/ Raft /\ \E w \in RaftThreads : w[1] = "stage0" /\ (Produce(w) \/ Send(w))
         \/ Raft /\ \E w \in RaftThreads : w[1] # "stage0" /\ (\/ Take(w) \/ Inspect(w) \/ PushMistake(w)
                                                       \/ PushHeld(w, "pop") \/ Absorb(w) \/ RunsDry(w))
<1>1. CASE MainThread
  <2>1. Raft => ~Fill /\ ~Recycle /\ ~PushHeld(Main, "pop") /\ ~AnnounceDone
    BY Workforce DEF LabelsFit, LabelFor, Fill, Recycle, PushHeld, AnnounceDone, Pop
  <2>2. QED
    BY <1>1, <2>1 DEF MainThread
<1>2. CASE SorterStage
  BY <1>2, Apps, Workforce DEF SorterStage
<1>3. CASE CorrectStage \/ MistakeStage
  BY <1>3, Apps, Workforce DEF CorrectStage, MistakeStage, Stage, Stages
<1>4. CASE GeneratorStage
  <2>1. setup.app = "pipeline" => Stage0 \in Stages
    BY DEF Stages
  <2>2. QED
    BY <1>4, <2>1, Apps DEF GeneratorStage
<1>5. CASE \E i \in 1 .. 4 : PipelineStage1(i) \/ PipelineStage2(i)
  <2>1. PICK i \in 1 .. 4 : PipelineStage1(i) \/ PipelineStage2(i)
    BY <1>5
  <2>2. PICK w \in {<<"stage1", i>>, <<"stage2", i>>} : setup.app = "pipeline" /\ Stage(w)
    BY <2>1 DEF PipelineStage1, PipelineStage2
  <2>3. w \in Stages /\ w \in Workers \ {Main}
    <3>1. w \in Stages
      BY <2>2 DEF Stages
    <3>2. QED
      BY <3>1, Workforce
  <2>4. QED
    BY <2>2, <2>3, Apps DEF Stage
<1>6. CASE \E w \in Workers \ {Main} : Kernel(w)
  BY <1>6 DEF Kernel
<1>7. QED
  BY <1>1, <1>2, <1>3, <1>4, <1>5, <1>6 DEF Next

\* The queues of the threads that pop and push.
LEMMA RealQueues ==
  ASSUME TypeOK
  PROVE  /\ \A w \in Stages : In(w) \in QueueNames /\ Out(w) \in QueueNames
         /\ ~Raft => In(Main) \in QueueNames /\ Out(Main) \in QueueNames
         /\ setup.app = "firewall" => In(Sorter) \in QueueNames /\ Out(Sorter) \in QueueNames
         /\ Raft => \A w \in RaftThreads :
              /\ w[1] # "stage0" => In(w) \in QueueNames
              /\ Out(w) = "none" \/ Out(w) \in QueueNames
              /\ w[1] = "stage0" => Out(w) \in QueueNames
<1>1. CASE setup.app = "firewall"
  BY <1>1, FirewallQueues, Apps DEF Stages, QueueNames
<1>2. CASE setup.app = "pipeline"
  BY <1>2, PipelineQueues, Apps DEF Stages, QueueNames
<1>3. CASE Raft
  <2>1. Stages = {}
    BY <1>3, Apps DEF Stages
  <2>2. ASSUME NEW w \in RaftThreads
        PROVE  /\ w[1] # "stage0" => In(w) \in QueueNames
               /\ Out(w) = "none" \/ Out(w) \in QueueNames
               /\ w[1] = "stage0" => Out(w) \in QueueNames
    BY <1>3, RaftQueues, Apps DEF QueueNames, Kernels
  <2>3. QED
    BY <1>3, <2>1, <2>2, Apps
<1>4. QED
  BY <1>1, <1>2, <1>3, Apps

\* What a pop and a push do.
LEMMA PopEffect ==
  ASSUME TypeOK, NEW w \in Workers, In(w) \in QueueNames, NEW n \in Nat, Pop(w, n)
  PROVE  LET q == queues[In(w)]
             rest == SubSeq(q, n + 1, Len(q))
         IN  /\ n \in 1 .. Bulk /\ n \in 1 .. Len(q) /\ pc[w] = "pop"
             /\ q \in Seq(Packets) /\ rest \in Seq(Packets) /\ Len(rest) = Len(q) - n
             /\ \A i \in 1 .. Len(q) - n : rest[i] = q[i + n]
             /\ Popped(w, n) \in Seq(Packets) /\ Len(Popped(w, n)) = n
             /\ \A i \in 1 .. n : Popped(w, n)[i] = q[i]
             /\ queues' = [queues EXCEPT ![In(w)] = rest]
             /\ queues' \in [QueueNames -> Seq(Packets)]
<1> DEFINE q == queues[In(w)]
<1>1. q \in Seq(Packets) /\ Len(q) \in Nat
  BY DEF TypeOK
<1>2. Bulk \in Nat
  BY DEF NetworkAssumption
<1>3. n \in 1 .. Least(Bulk, Len(q)) /\ pc[w] = "pop"
  BY DEF Pop
<1>4. n \in 1 .. Bulk /\ n \in 1 .. Len(q) /\ n \in 0 .. Len(q)
  BY <1>1, <1>2, <1>3 DEF Least
<1>5. queues' = [queues EXCEPT ![In(w)] = SubSeq(q, n + 1, Len(q))]
  BY DEF Pop, TypeOK
<1> HIDE DEF q
<1>6. /\ SubSeq(q, 1, n) \in Seq(Packets) /\ Len(SubSeq(q, 1, n)) = n
      /\ \A i \in 1 .. n : SubSeq(q, 1, n)[i] = q[i]
      /\ SubSeq(q, n + 1, Len(q)) \in Seq(Packets)
      /\ Len(SubSeq(q, n + 1, Len(q))) = Len(q) - n
      /\ \A i \in 1 .. Len(q) - n : SubSeq(q, n + 1, Len(q))[i] = q[i + n]
  BY <1>1, <1>4, Cut
<1>7. queues' \in [QueueNames -> Seq(Packets)]
  BY <1>5, <1>6 DEF TypeOK
<1>8. QED
  BY <1>1, <1>3, <1>4, <1>5, <1>6, <1>7 DEF q, Popped

LEMMA PushEffect ==
  ASSUME TypeOK, NEW w, NEW from \in Seq(Packets), NEW to \in QueueNames, Push(w, from, to)
  PROVE  LET q == queues[to]
         IN  /\ from # <<>> /\ Head(from) = from[1] /\ Head(from) \in Packets
             /\ Tail(from) \in Seq(Packets) /\ Len(Tail(from)) = Len(from) - 1 /\ Len(from) >= 1
             /\ \A i \in 1 .. Len(from) - 1 : Tail(from)[i] = from[i + 1]
             /\ q \in Seq(Packets) /\ Len(q) < setup.capacity
             /\ Append(q, Head(from)) \in Seq(Packets) /\ Len(Append(q, Head(from))) = Len(q) + 1
             /\ \A i \in 1 .. Len(q) : Append(q, Head(from))[i] = q[i]
             /\ Append(q, Head(from))[Len(q) + 1] = Head(from)
             /\ queues' = [queues EXCEPT ![to] = Append(q, Head(from))]
             /\ queues' \in [QueueNames -> Seq(Packets)]
             /\ UNCHANGED <<setup, bad, done>>
<1> DEFINE q == queues[to]
<1>1. q \in Seq(Packets)
  BY DEF TypeOK
<1>2. from # <<>> /\ Len(q) < setup.capacity /\ queues' = [queues EXCEPT ![to] = Append(q, Head(from))]
      /\ UNCHANGED <<setup, bad, done>>
  BY DEF Push, TypeOK
<1> HIDE DEF q
<1>3. /\ Head(from) = from[1] /\ Head(from) \in Packets /\ Tail(from) \in Seq(Packets)
      /\ Len(Tail(from)) = Len(from) - 1
      /\ \A i \in 1 .. Len(from) - 1 : Tail(from)[i] = from[i + 1]
      /\ Append(q, Head(from)) \in Seq(Packets) /\ Len(Append(q, Head(from))) = Len(q) + 1
      /\ \A i \in 1 .. Len(q) : Append(q, Head(from))[i] = q[i]
      /\ Append(q, Head(from))[Len(q) + 1] = Head(from)
  BY <1>1, <1>2, Passed
<1>4. Len(from) >= 1
  BY <1>2
<1>5. queues' \in [QueueNames -> Seq(Packets)]
  BY <1>2, <1>3 DEF TypeOK
<1>6. QED
  BY <1>1, <1>2, <1>3, <1>4, <1>5 DEF q

\* The firewall's stage 1 pops n packets, of which some are mistakes.
SortedInto(n, mistakes, good, all) ==
  /\ Pop(Sorter, n)
  /\ mistakes = {i \in 1 .. n : IsBad(Popped(Sorter, n)[i])}
  /\ Cardinality(mistakes) \in 0 .. n
  /\ good \in Seq(Packets) /\ Len(good) = n - Cardinality(mistakes)
  /\ all \in Seq(Packets) /\ Len(all) = Cardinality(mistakes)
  /\ \E e \in [1 .. Len(good) -> (1 .. n) \ mistakes] :
       /\ \A i, j \in 1 .. Len(good) : e[i] = e[j] => i = j
       /\ \A i \in 1 .. Len(good) : good[i] = queues["q01"][e[i]]
  /\ \E e \in [1 .. Len(all) -> mistakes] :
       /\ \A i, j \in 1 .. Len(all) : e[i] = e[j] => i = j
       /\ \A i \in 1 .. Len(all) : all[i] = queues["q01"][e[i]]
  /\ held' = [held EXCEPT ![Sorter] = good]
  /\ gathered' \in Seq(Packets) /\ Len(gathered') = Len(gathered) + Len(all)
  /\ \A i \in 1 .. Len(gathered) : gathered'[i] = gathered[i]
  /\ \A i \in 1 .. Len(all) : gathered'[Len(gathered) + i] = all[i]
  /\ Goto(Sorter, IF good = <<>> THEN "gather" ELSE "push")
  /\ found' = TRUE
  /\ UNCHANGED <<bad, polls, toSend, received, handled>>

FoundNothing ==
  /\ pc[Sorter] = "pop" /\ Started
  /\ queues["q01"] = <<>>
  /\ Goto(Sorter, "gather")
  /\ found' = FALSE
  /\ UNCHANGED <<setup, queues, held, gathered, done, bad, polls, toSend, received, handled>>

LEMMA SortEffect ==
  ASSUME TypeOK, setup.app = "firewall", Sort
  PROVE  FoundNothing \/ \E n \in 1 .. Bulk : \E mistakes, good, all : SortedInto(n, mistakes, good, all)
<1>1. SUFFICES ASSUME ~FoundNothing
               PROVE  \E n \in 1 .. Bulk : \E mistakes, good, all : SortedInto(n, mistakes, good, all)
  OBVIOUS
<1>2. PICK n \in 1 .. Bulk :
        /\ Pop(Sorter, n)
        /\ LET packets  == Popped(Sorter, n)
               mistakes == {i \in 1 .. n : IsBad(packets[i])}
           IN  /\ held' = [held EXCEPT ![Sorter] = Those(packets, (1 .. n) \ mistakes)]
               /\ gathered' = gathered \o Those(packets, mistakes)
               /\ Goto(Sorter, IF mistakes = 1 .. n THEN "gather" ELSE "push")
        /\ found' = TRUE
        /\ UNCHANGED <<bad, polls, toSend, received, handled>>
  BY <1>1 DEF Sort, FoundNothing
<1> DEFINE packets == Popped(Sorter, n)
<1> DEFINE mistakes == {i \in 1 .. n : IsBad(packets[i])}
<1> DEFINE good == Those(packets, (1 .. n) \ mistakes)
<1> DEFINE all == Those(packets, mistakes)
<1>3. n \in Nat
  BY DEF NetworkAssumption
<1>4. /\ packets \in Seq(Packets) /\ Len(packets) = n
      /\ \A i \in 1 .. n : packets[i] = queues["q01"][i]
  <2>1. Pop(Sorter, n) /\ In(Sorter) = "q01" /\ "q01" \in QueueNames /\ Sorter \in Workers
    BY <1>2, FirewallQueues, Workforce DEF QueueNames
  <2>2. QED
    BY <1>3, <2>1, PopEffect
<1>5. /\ mistakes = {i \in 1 .. n : IsBad(Popped(Sorter, n)[i])}
      /\ mistakes \in SUBSET (1 .. n) /\ (1 .. n) \ mistakes \in SUBSET (1 .. n)
  OBVIOUS
<1>6. /\ held' = [held EXCEPT ![Sorter] = good] /\ gathered' = gathered \o all
      /\ Goto(Sorter, IF mistakes = 1 .. n THEN "gather" ELSE "push")
      /\ found' = TRUE /\ UNCHANGED <<bad, polls, toSend, received, handled>> /\ Pop(Sorter, n)
  BY <1>2
<1> HIDE DEF packets, mistakes
<1>7. /\ good \in Seq(Packets) /\ Len(good) = Cardinality((1 .. n) \ mistakes)
      /\ Cardinality((1 .. n) \ mistakes) \in Nat
      /\ \E e \in [1 .. Len(good) -> (1 .. n) \ mistakes] :
           /\ \A i, j \in 1 .. Len(good) : e[i] = e[j] => i = j
           /\ \A i \in 1 .. Len(good) : good[i] = packets[e[i]]
  <2> DEFINE others == (1 .. n) \ mistakes
  <2>1. others \in SUBSET (1 .. Len(packets))
    BY <1>4, <1>5
  <2> HIDE DEF others
  <2>2. packets \in Seq(Packets)
    BY <1>4
  <2>3. Drawn(Packets, packets, others, Those(packets, others))
    BY ONLY <2>1, <2>2, Chosen
  <2>4. Drawn(Packets, packets, others, good)
    BY <2>3 DEF others
  <2> HIDE DEF good
  <2>5. QED
    BY <2>4 DEF Drawn, others
<1>8. /\ all \in Seq(Packets) /\ Len(all) = Cardinality(mistakes) /\ Cardinality(mistakes) \in Nat
      /\ \E e \in [1 .. Len(all) -> mistakes] :
           /\ \A i, j \in 1 .. Len(all) : e[i] = e[j] => i = j
           /\ \A i \in 1 .. Len(all) : all[i] = packets[e[i]]
  <2>1. mistakes \in SUBSET (1 .. Len(packets))
    BY <1>4, <1>5
  <2>2. packets \in Seq(Packets)
    BY <1>4
  <2>3. Drawn(Packets, packets, mistakes, Those(packets, mistakes))
    BY ONLY <2>1, <2>2, Chosen
  <2>4. Drawn(Packets, packets, mistakes, all)
    BY <2>3
  <2> HIDE DEF all
  <2>5. QED
    BY <2>4 DEF Drawn
<1> HIDE DEF good, all
<1>9. IsFiniteSet(1 .. n) /\ Cardinality(1 .. n) = n
  BY <1>3, FS_Interval
<1>10. Cardinality((1 .. n) \ mistakes) = n - Cardinality(mistakes)
  <2>1. (1 .. n) \cap mistakes = mistakes
    BY <1>5
  <2>2. Cardinality((1 .. n) \ mistakes) = Cardinality(1 .. n) - Cardinality((1 .. n) \cap mistakes)
    BY <1>9, FS_Difference
  <2>3. QED
    BY <1>9, <2>1, <2>2
<1>11. Cardinality(mistakes) \in 0 .. n
  BY <1>3, <1>7, <1>8, <1>10
<1>12. good = <<>> <=> mistakes = 1 .. n
  <2>1. good = <<>> <=> Cardinality((1 .. n) \ mistakes) = 0
    BY <1>7
  <2>2. IsFiniteSet((1 .. n) \ mistakes)
    BY <1>5, <1>9, FS_Subset
  <2>3. Cardinality((1 .. n) \ mistakes) = 0 <=> (1 .. n) \ mistakes = {}
    BY <2>2, FS_EmptySet
  <2>4. QED
    BY <1>5, <2>1, <2>3
<1>13. /\ \E e \in [1 .. Len(good) -> (1 .. n) \ mistakes] :
            /\ \A i, j \in 1 .. Len(good) : e[i] = e[j] => i = j
            /\ \A i \in 1 .. Len(good) : good[i] = queues["q01"][e[i]]
       /\ \E e \in [1 .. Len(all) -> mistakes] :
            /\ \A i, j \in 1 .. Len(all) : e[i] = e[j] => i = j
            /\ \A i \in 1 .. Len(all) : all[i] = queues["q01"][e[i]]
  <2>1. PICK e \in [1 .. Len(good) -> (1 .. n) \ mistakes] :
           /\ \A i, j \in 1 .. Len(good) : e[i] = e[j] => i = j
           /\ \A i \in 1 .. Len(good) : good[i] = packets[e[i]]
    BY <1>7
  <2>2. PICK f \in [1 .. Len(all) -> mistakes] :
           /\ \A i, j \in 1 .. Len(all) : f[i] = f[j] => i = j
           /\ \A i \in 1 .. Len(all) : all[i] = packets[f[i]]
    BY <1>8
  <2>3. \A i \in 1 .. Len(good) : good[i] = queues["q01"][e[i]]
    BY <1>4, <2>1
  <2>4. \A i \in 1 .. Len(all) : all[i] = queues["q01"][f[i]]
    BY <1>4, <1>5, <2>2
  <2>5. QED
    BY <2>1, <2>2, <2>3, <2>4
<1>14. /\ gathered' \in Seq(Packets) /\ Len(gathered') = Len(gathered) + Len(all)
       /\ \A i \in 1 .. Len(gathered) : gathered'[i] = gathered[i]
       /\ \A i \in 1 .. Len(all) : gathered'[Len(gathered) + i] = all[i]
  <2>1. gathered \in Seq(Packets)
    BY DEF TypeOK
  <2>2. /\ gathered \o all \in Seq(Packets)
        /\ Len(gathered \o all) = Len(gathered) + Len(all)
        /\ \A i \in 1 .. Len(gathered) + Len(all) :
             (gathered \o all)[i] = IF i <= Len(gathered) THEN gathered[i] ELSE all[i - Len(gathered)]
    BY <1>8, <2>1, ConcatProperties
  <2>3. Len(gathered) \in Nat /\ Len(all) \in Nat
    BY <1>8, <2>1
  <2>4. \A i \in 1 .. Len(gathered) : i \in 1 .. Len(gathered) + Len(all)
    BY <2>3
  <2>5. \A i \in 1 .. Len(all) :
          /\ Len(gathered) + i \in 1 .. Len(gathered) + Len(all) /\ ~(Len(gathered) + i <= Len(gathered))
          /\ (Len(gathered) + i) - Len(gathered) = i
    BY <2>3
  <2>6. QED
    BY <1>6, <2>2, <2>4, <2>5
<1>15. Goto(Sorter, IF good = <<>> THEN "gather" ELSE "push")
  BY <1>6, <1>12
<1>16. SortedInto(n, mistakes, good, all)
  BY <1>5, <1>6, <1>7, <1>8, <1>10, <1>11, <1>13, <1>14, <1>15 DEF SortedInto
<1>17. QED
  BY <1>16

LEMMA StepTyped ==
  ASSUME TypeOK, LabelsFit, [Next]_vars
  PROVE  TypeOK'
<1> USE DEF TypeOK
<1>0. Bulk \in Nat /\ BadEvery \in Nat \ {0} /\ PoolSize \in Nat \ {0} /\ Retry \in Nat
  BY DEF NetworkAssumption
<1>1. ASSUME ~Raft, NEW w \in Stages, PassOn(w) PROVE TypeOK'
  <2>1. PICK n \in 1 .. Bulk :
          /\ Pop(w, n) /\ held' = [held EXCEPT ![w] = Popped(w, n)]
          /\ handled' = [handled EXCEPT ![w] = @ + n] /\ Goto(w, "push")
          /\ UNCHANGED <<bad, gathered, polls, found, toSend, received>>
    BY <1>1 DEF PassOn
  <2>2. /\ n \in Nat /\ w \in Workers /\ In(w) \in QueueNames
        /\ pc \in [Workers -> Labels] /\ held \in [Workers -> Seq(Packets)]
        /\ handled \in [Workers -> Nat]
    <3>1. w \in Workers
      BY <1>1, Workforce
    <3>2. In(w) \in QueueNames
      BY <1>1, RealQueues
    <3>3. n \in Nat
      BY <1>0, <2>1
    <3>4. QED
      BY <3>1, <3>2, <3>3
  <2>3. Popped(w, n) \in Seq(Packets) /\ queues' \in [QueueNames -> Seq(Packets)]
    <3>1. TypeOK
      OBVIOUS
    <3> HIDE DEF TypeOK
    <3>2. QED
      BY ONLY <2>1, <2>2, <3>1, PopEffect
  <2>4. handled' \in [Workers -> Nat] /\ held' \in [Workers -> Seq(Packets)]
    BY ONLY <2>1, <2>2, <2>3
  <2>5. pc' \in [Workers -> Labels]
    BY ONLY <2>1, <2>2 DEF Goto, Labels
  <2>6. UNCHANGED <<setup, done>>
    BY <2>1 DEF Pop
  <2>7. QED
    BY <2>1, <2>3, <2>4, <2>5, <2>6
<1>2. ASSUME NEW w \in Workers, NEW l \in {"pop", "gather"}, Out(w) \in QueueNames, PushHeld(w, l)
      PROVE  TypeOK'
  <2>1. /\ Push(w, held[w], Out(w)) /\ held' = [held EXCEPT ![w] = Tail(@)]
        /\ Goto(w, IF Len(held[w]) = 1 THEN l ELSE "push")
        /\ UNCHANGED <<gathered, polls, found, toSend, received, handled>>
    BY <1>2 DEF PushHeld
  <2>2. /\ Tail(held[w]) \in Seq(Packets) /\ queues' \in [QueueNames -> Seq(Packets)]
        /\ UNCHANGED <<setup, bad, done>>
    BY <1>2, <2>1, PushEffect
  <2>3. QED
    BY <2>1, <2>2 DEF Goto, Labels
<1>3. ASSUME setup.app = "firewall", Sort PROVE TypeOK'
  <2>1. CASE FoundNothing
    BY <2>1 DEF FoundNothing, Goto, Labels
  <2>2. ASSUME NEW n \in 1 .. Bulk, NEW mistakes, NEW good, NEW all, SortedInto(n, mistakes, good, all)
        PROVE  TypeOK'
    <3>1. n \in Nat /\ Sorter \in Workers /\ In(Sorter) \in QueueNames
      BY <1>0, <1>3, Workforce, RealQueues
    <3>2. queues' \in [QueueNames -> Seq(Packets)]
      BY <2>2, <3>1, PopEffect DEF SortedInto
    <3>3. QED
      BY <2>2, <3>1, <3>2 DEF SortedInto, Goto, Labels, Pop
  <2>3. QED
    BY <1>3, <2>1, <2>2, SortEffect
<1>4. ASSUME setup.app = "firewall", Gather PROVE TypeOK'
  <2>1. polls' \in Nat
    BY <1>4 DEF Gather
  <2>2. pc' \in [Workers -> Labels]
    BY <1>4 DEF Gather, Goto, AfterGather, Labels
  <2>3. QED
    BY <1>4, <2>1, <2>2 DEF Gather
<1>5. ASSUME setup.app = "firewall", Flush PROVE TypeOK'
  <2>1. /\ Push(Sorter, gathered, "q1m") /\ gathered' = Tail(gathered)
        /\ Goto(Sorter, IF Len(gathered) = 1 THEN AfterGather ELSE "flush")
        /\ UNCHANGED <<held, polls, found, toSend, received, handled>>
    BY <1>5 DEF Flush
  <2>2. /\ Tail(gathered) \in Seq(Packets) /\ queues' \in [QueueNames -> Seq(Packets)]
        /\ UNCHANGED <<setup, bad, done>>
    <3>1. "q1m" \in QueueNames
      BY DEF QueueNames
    <3>2. QED
      BY <2>1, <3>1, PushEffect
  <2>3. QED
    BY <2>1, <2>2 DEF Goto, AfterGather, Labels
<1>6. ASSUME ~Raft, Fill PROVE TypeOK'
  <2>1. /\ Push(Main, held[Main], Out(Main)) /\ held' = [held EXCEPT ![Main] = Tail(@)]
        /\ Goto(Main, IF Len(held[Main]) = 1 THEN "pop" ELSE "fill")
        /\ UNCHANGED <<gathered, polls, found, toSend, received, handled>>
    BY <1>6 DEF Fill
  <2>2. /\ Tail(held[Main]) \in Seq(Packets) /\ queues' \in [QueueNames -> Seq(Packets)]
        /\ UNCHANGED <<setup, bad, done>> /\ Main \in Workers
    BY <1>6, <2>1, PushEffect, RealQueues, Workforce
  <2>3. QED
    BY <2>1, <2>2 DEF Goto, Labels
<1>7. ASSUME ~Raft, Recycle PROVE TypeOK'
  <2>1. PICK n \in 1 .. Bulk, m \in Nat :
          /\ m \in Again(n) .. n /\ Pop(Main, n) /\ held' = [held EXCEPT ![Main] = SubSeq(Popped(Main, n), 1, m)]
          /\ Goto(Main, IF m = 0 THEN "pop" ELSE "push")
          /\ bad' = Remark(SubSeq(Popped(Main, n), 1, Again(n)))
          /\ toSend' = toSend - Again(n) /\ received' = received + n
          /\ UNCHANGED <<gathered, polls, found, handled>>
    <3>1. \A n \in 1 .. Bulk : Again(n) \in 0 .. n
      BY <1>0 DEF Again, Least
    <3>2. \A n \in 1 .. Bulk : Again(n) \in Again(n) .. n
      BY <1>0, <3>1
    <3>3. PICK n \in 1 .. Bulk :
            /\ Pop(Main, n)
            /\ \E m \in IF setup.caf /\ setup.app = "firewall" /\ Again(n) > 0
                          THEN Again(n) .. n ELSE {Again(n)} :
                 /\ held' = [held EXCEPT ![Main] = SubSeq(Popped(Main, n), 1, m)]
                 /\ Goto(Main, IF m = 0 THEN "pop" ELSE "push")
            /\ bad' = Remark(SubSeq(Popped(Main, n), 1, Again(n)))
            /\ toSend' = toSend - Again(n) /\ received' = received + n
            /\ UNCHANGED <<gathered, polls, found, handled>>
      BY <1>7 DEF Recycle
    <3>4. PICK m \in Again(n) .. n :
                 /\ held' = [held EXCEPT ![Main] = SubSeq(Popped(Main, n), 1, m)]
                 /\ Goto(Main, IF m = 0 THEN "pop" ELSE "push")
      BY <3>2, <3>3
    <3>5. m \in Nat
      BY <1>0, <3>1, <3>4
    <3>6. QED
      BY <3>3, <3>4, <3>5
  <2>2. n \in Nat /\ Again(n) \in 0 .. n /\ Again(n) <= toSend /\ Again(n) \in Nat
    BY <1>0 DEF Again, Least
  <2>3. /\ Popped(Main, n) \in Seq(Packets) /\ Len(Popped(Main, n)) = n
        /\ queues' \in [QueueNames -> Seq(Packets)] /\ Main \in Workers
    BY <1>7, <2>1, <2>2, PopEffect, RealQueues, Workforce
  <2>4. \A k \in 0 .. n : SubSeq(Popped(Main, n), 1, k) \in Seq(Packets)
    BY <2>2, <2>3, Cut
  <2>5. m \in 0 .. n
    BY <2>1, <2>2
  <2>6. \A s \in Seq(Packets) : Remark(s) \subseteq Packets
    BY DEF Remark
  <2>7. toSend' \in Nat /\ received' \in Nat
    BY <2>1, <2>2
  <2>8. QED
    BY <2>1, <2>2, <2>3, <2>4, <2>5, <2>6, <2>7 DEF Goto, Labels, Pop
<1>8. ASSUME AnnounceDone \/ Join \/ Stage0Returns PROVE TypeOK'
  BY <1>8 DEF AnnounceDone, Join, Stage0Returns, Goto, Labels
<1>9. ASSUME NEW w \in Workers, PopNothing(w) \/ CheckDone(w) \/ Inspect(w) \/ RunsDry(w) PROVE TypeOK'
  BY <1>9 DEF PopNothing, CheckDone, Inspect, RunsDry, Goto, Labels
<1>10. ASSUME NEW w \in Workers, Produce(w) PROVE TypeOK'
  <2>1. (received % PoolSize) + 1 \in Packets
    BY <1>0 DEF Packets
  <2>2. <<(received % PoolSize) + 1>> \in Seq(Packets)
    BY <2>1
  <2>3. \A s \in Seq(Packets) : Remark(s) \subseteq Packets
    BY DEF Remark
  <2>4. held' \in [Workers -> Seq(Packets)] /\ bad' \subseteq Packets
    BY <1>10, <2>2, <2>3 DEF Produce
  <2>5. pc' \in [Workers -> Labels]
    BY <1>10 DEF Produce, Goto, Labels
  <2>6. handled' \in [Workers -> Nat] /\ received' \in Nat
    BY <1>10 DEF Produce
  <2>7. QED
    BY <1>10, <2>4, <2>5, <2>6 DEF Produce
<1>11. ASSUME NEW w \in Workers, Out(w) \in QueueNames, Send(w) PROVE TypeOK'
  <2>1. /\ Push(w, held[w], Out(w)) /\ held' = [held EXCEPT ![w] = <<>>]
        /\ Goto(w, IF handled[w] >= LastNumber THEN "returned" ELSE "fill")
        /\ UNCHANGED <<gathered, polls, found, toSend, received, handled>>
    BY <1>11 DEF Send
  <2>2. queues' \in [QueueNames -> Seq(Packets)] /\ UNCHANGED <<setup, bad, done>>
    BY <1>11, <2>1, PushEffect
  <2>3. QED
    BY <2>1, <2>2 DEF Goto, Labels
<1>12. ASSUME NEW w \in Workers, In(w) \in QueueNames, Take(w) PROVE TypeOK'
  <2>1. /\ Pop(w, 1) /\ held' = [held EXCEPT ![w] = Popped(w, 1)]
        /\ Goto(w, IF setup.app = "rl_firewall" THEN "inspect" ELSE "push")
        /\ UNCHANGED <<bad, gathered, polls, found, toSend, received, handled>>
    BY <1>12 DEF Take
  <2>2. Popped(w, 1) \in Seq(Packets) /\ queues' \in [QueueNames -> Seq(Packets)]
    BY <1>12, <2>1, PopEffect
  <2>3. QED
    BY <2>1, <2>2 DEF Goto, Labels, Pop
<1>13. ASSUME NEW w \in Workers, PushMistake(w) PROVE TypeOK'
  <2>1. /\ Push(w, held[w], "q1m") /\ held' = [held EXCEPT ![w] = <<>>] /\ Goto(w, "pop")
        /\ UNCHANGED <<gathered, polls, found, toSend, received, handled>>
    BY <1>13 DEF PushMistake
  <2>2. queues' \in [QueueNames -> Seq(Packets)] /\ UNCHANGED <<setup, bad, done>>
    <3>1. "q1m" \in QueueNames
      BY DEF QueueNames
    <3>2. QED
      BY <2>1, <3>1, PushEffect
  <2>3. QED
    BY <2>1, <2>2 DEF Goto, Labels
<1>14. ASSUME NEW w \in Workers, In(w) \in QueueNames, Absorb(w) PROVE TypeOK'
  <2>1. /\ Pop(w, 1) /\ handled' = [handled EXCEPT ![w] = @ + 1]
        /\ UNCHANGED <<bad, pc, held, gathered, polls, found, toSend, received>>
    BY <1>14 DEF Absorb
  <2>2. queues' \in [QueueNames -> Seq(Packets)]
    BY <1>14, <2>1, PopEffect
  <2>3. setup' \in Setups /\ done' = done /\ handled' \in [Workers -> Nat]
    BY <2>1 DEF Pop
  <2> HIDE DEF TypeOK
  <2>4. TypeOK
    OBVIOUS
  <2>5. QED
    BY ONLY <2>1, <2>2, <2>3, <2>4 DEF TypeOK
<1>15. ASSUME UNCHANGED vars PROVE TypeOK'
  BY <1>15 DEF vars
<1>16. ASSUME ~Raft, NEW w \in Stages \cup {Main}, PushHeld(w, "pop") PROVE TypeOK'
  BY <1>2, <1>16, RealQueues, Workforce
<1>17. ASSUME setup.app = "firewall", PushHeld(Sorter, "gather") PROVE TypeOK'
  BY <1>2, <1>17, RealQueues, Workforce
<1>18. ASSUME Raft, NEW w \in RaftThreads, w[1] = "stage0", Produce(w) \/ Send(w) PROVE TypeOK'
  <2>1. w \in Workers /\ Out(w) \in QueueNames
    BY <1>18, RaftQueues, RealQueues
  <2>2. QED
    BY <1>10, <1>11, <1>18, <2>1
<1>19. ASSUME Raft, NEW w \in RaftThreads, w[1] # "stage0",
              \/ Take(w) \/ Inspect(w) \/ PushMistake(w) \/ PushHeld(w, "pop") \/ Absorb(w) \/ RunsDry(w)
       PROVE  TypeOK'
  <2>1. w \in Workers /\ In(w) \in QueueNames
    BY <1>19, RaftQueues, RealQueues
  <2>2. CASE PushHeld(w, "pop")
    <3>1. w \in Workers \ {Main} /\ pc[w] = "push"
      BY <1>19, <2>2, RaftQueues DEF PushHeld
    <3>2. w[1] \in {"stage1", "stage2"}
      BY <1>19, <3>1 DEF LabelsFit, LabelFor
    <3>3. Out(w) \in QueueNames
      BY <1>19, <3>2, RaftQueues DEF QueueNames
    <3>4. QED
      BY <1>2, <2>1, <2>2, <3>3
  <2>3. QED
    BY <1>9, <1>12, <1>13, <1>14, <1>19, <2>1, <2>2
<1>20. QED
  BY <1>1, <1>3, <1>4, <1>5, <1>6, <1>7, <1>8, <1>9, <1>15, <1>16, <1>17, <1>18, <1>19, Cases, Workforce

\* A thread that moves on.
LEMMA SameSetup ==
  ASSUME setup' = setup
  PROVE  /\ Raft' <=> Raft
         /\ RaftThreads' = RaftThreads /\ Threads' = Threads /\ Stages' = Stages
         /\ LastNumber' = LastNumber
         /\ \A w : In(w)' = In(w) /\ Out(w)' = Out(w)
<1>1. (Raft' <=> Raft) /\ RaftThreads' = RaftThreads
  BY DEF Raft, RaftThreads
<1>2. \A w : Route(w)' = Route(w)
  BY DEF Route, Routes, FirewallRoute, PipelineRoute, RaftFirewall, RaftPipeline, FilterChain, RaftEmber
<1>3. QED
  BY <1>1, <1>2 DEF Threads, Stages, LastNumber, In, Out

LEMMA Fitted ==
  ASSUME TypeOK, LabelsFit, NEW w \in Workers, NEW l, NEW packets,
         pc' = [pc EXCEPT ![w] = l], held' = [held EXCEPT ![w] = packets],
         LabelFor(w, l), HeldFor(l, packets), setup' = setup
  PROVE  LabelsFit'
<1>1. SUFFICES ASSUME NEW v \in Workers PROVE LabelFor(v, pc[v])' /\ HeldFor(pc[v], held[v])'
  BY DEF LabelsFit
<1>2. /\ pc'[v] = IF v = w THEN l ELSE pc[v]
      /\ held'[v] = IF v = w THEN packets ELSE held[v]
  BY DEF TypeOK
<1>3. LabelFor(v, pc[v]) /\ HeldFor(pc[v], held[v])
  BY DEF LabelsFit
<1>4. LabelFor(v, pc[v])'
  <2>1. CASE v = w
    BY <1>2, <2>1, SameSetup DEF LabelFor
  <2>2. CASE v # w
    BY <1>2, <1>3, <2>2, SameSetup DEF LabelFor
  <2>3. QED
    BY <2>1, <2>2
<1>5. HeldFor(pc[v], held[v])'
  BY <1>2, <1>3, SameSetup DEF HeldFor
<1>6. QED
  BY <1>4, <1>5

\* A thread that moves on and keeps what it holds.
LEMMA Moved ==
  ASSUME TypeOK, LabelsFit, NEW w \in Workers, NEW l, Goto(w, l), UNCHANGED <<setup, held>>,
         LabelFor(w, l), HeldFor(l, held[w])
  PROVE  LabelsFit'
<1>1. held' = [held EXCEPT ![w] = held[w]]
  BY DEF TypeOK
<1>2. QED
  BY <1>1, Fitted DEF Goto

LEMMA InitFits == Init => LabelsFit
<1>1. SUFFICES ASSUME Init, NEW w \in Workers PROVE LabelFor(w, pc[w]) /\ HeldFor(pc[w], held[w])
  BY DEF LabelsFit
<1>2. TypeOK
  BY <1>1, InitTyped
<1>3. CASE w \notin Threads
  <2>1. pc[w] = "returned"
    BY <1>1, <1>3 DEF Init
  <2>2. w # Main
    BY <1>2, <1>3, Apps DEF Threads
  <2>3. QED
    BY <1>1, <2>1, <2>2 DEF Init, LabelFor, HeldFor
<1>4. CASE w \in Threads /\ Raft
  <2>1. w # Main => w \in RaftThreads
    <3>1. Threads = {Main} \cup RaftThreads
      BY <1>2, <1>4, Apps DEF Threads
    <3>2. QED
      BY <1>4, <3>1
  <2>2. w # Main => w[1] \in Kernels
    BY <1>2, <1>4, <2>1, RaftQueues
  <2>3. pc[w] = IF w = Main THEN "join" ELSE IF w[1] = "stage0" THEN "fill" ELSE "pop"
    <3>1. CASE w = Main
      BY <1>1, <1>4, <3>1 DEF Init, Main
    <3>2. CASE w # Main
      BY <1>1, <1>4, <3>2 DEF Init
    <3>3. QED
      BY <3>1, <3>2
  <2>4. held[w] = <<>>
    BY <1>1, <1>4 DEF Init
  <2>5. QED
    BY <1>4, <2>1, <2>3, <2>4 DEF LabelFor, HeldFor
<1>5. CASE w \in Threads /\ ~Raft
  <2>1. pc[w] = IF w = Main THEN "fill" ELSE "pop"
    BY <1>1, <1>5 DEF Init
  <2>2. w # Main => held[w] = <<>>
    BY <1>1, <1>5 DEF Init
  <2>3. QED
    BY <1>5, <2>1, <2>2 DEF LabelFor, HeldFor
<1>6. QED
  BY <1>3, <1>4, <1>5

LEMMA StepFits ==
  ASSUME TypeOK, LabelsFit, [Next]_vars
  PROVE  LabelsFit'
<1>0. Bulk \in Nat /\ \A w \in Workers : LabelFor(w, pc[w]) /\ HeldFor(pc[w], held[w])
  BY DEF NetworkAssumption, LabelsFit
<1>1. ASSUME ~Raft, NEW w \in Stages, PassOn(w) PROVE LabelsFit'
  <2>1. PICK n \in 1 .. Bulk :
          /\ Pop(w, n) /\ held' = [held EXCEPT ![w] = Popped(w, n)] /\ Goto(w, "push")
    BY <1>1 DEF PassOn
  <2>2. w \in Workers \ {Main} /\ pc[w] = "pop" /\ setup' = setup
    BY <1>1, <2>1, Workforce DEF Pop
  <2>3. LabelFor(w, "push")
    BY <1>0, <1>1, <2>2 DEF LabelFor
  <2>4. HeldFor("push", Popped(w, n))
    BY DEF HeldFor
  <2>5. QED
    BY <2>1, <2>2, <2>3, <2>4, Fitted DEF Goto
<1>2. ASSUME NEW w \in Workers, NEW l \in {"pop", "gather"}, Out(w) \in QueueNames, PushHeld(w, l),
             LabelFor(w, l)
      PROVE  LabelsFit'
  <2>1. /\ Push(w, held[w], Out(w)) /\ held' = [held EXCEPT ![w] = Tail(@)]
        /\ Goto(w, IF Len(held[w]) = 1 THEN l ELSE "push") /\ pc[w] = "push"
    BY <1>2 DEF PushHeld
  <2>2. held[w] \in Seq(Packets)
    BY DEF TypeOK
  <2>3. Tail(held[w]) \in Seq(Packets) /\ Len(Tail(held[w])) = Len(held[w]) - 1 /\ setup' = setup
    BY <1>2, <2>1, <2>2, PushEffect
  <2>4. held' = [held EXCEPT ![w] = Tail(held[w])]
    BY <2>1
  <2>5. Len(held[w]) = 1 => Tail(held[w]) = <<>>
    <3>1. Len(held[w]) = 1 => Len(Tail(held[w])) = 0
      BY <2>3
    <3>2. QED
      BY <2>3, <3>1, Nothing
  <2>6. /\ LabelFor(w, IF Len(held[w]) = 1 THEN l ELSE "push")
        /\ HeldFor(IF Len(held[w]) = 1 THEN l ELSE "push", Tail(held[w]))
    <3>1. LabelFor(w, "push")
      BY <1>0, <2>1
    <3>2. HeldFor("push", Tail(held[w]))
      BY DEF HeldFor
    <3>3. Tail(held[w]) = <<>> => HeldFor(l, Tail(held[w]))
      BY DEF HeldFor
    <3>4. QED
      BY <1>2, <2>5, <3>1, <3>2, <3>3
  <2>7. QED
    BY <2>1, <2>3, <2>4, <2>6, Fitted DEF Goto
<1>3. ASSUME setup.app = "firewall", Sort PROVE LabelsFit'
  <2>1. ~Raft /\ Sorter \in Workers \ {Main} /\ Sorter \in Threads
    BY <1>3, Apps, Workforce DEF Threads
  <2>2. LabelFor(Sorter, "gather") /\ LabelFor(Sorter, "push")
    BY <1>3, <2>1 DEF LabelFor
  <2>3. CASE FoundNothing
    <3>1. held[Sorter] = <<>>
      BY <1>0, <2>1, <2>3 DEF FoundNothing, HeldFor
    <3>2. HeldFor("gather", held[Sorter])
      BY <3>1 DEF HeldFor
    <3>3. QED
      BY <2>1, <2>2, <2>3, <3>2, Moved DEF FoundNothing
  <2>4. ASSUME NEW n \in 1 .. Bulk, NEW mistakes, NEW good, NEW all, SortedInto(n, mistakes, good, all)
        PROVE  LabelsFit'
    <3> DEFINE l == IF good = <<>> THEN "gather" ELSE "push"
    <3>1. LabelFor(Sorter, l) /\ HeldFor(l, good)
      BY <2>2 DEF HeldFor
    <3>2. setup' = setup /\ held' = [held EXCEPT ![Sorter] = good] /\ pc' = [pc EXCEPT ![Sorter] = l]
      BY <2>4 DEF SortedInto, Goto, Pop
    <3> HIDE DEF l
    <3>3. QED
      BY <2>1, <3>1, <3>2, Fitted
  <2>5. QED
    BY <1>3, <2>3, <2>4, SortEffect
<1>4. ASSUME setup.app = "firewall", Gather \/ Flush PROVE LabelsFit'
  <2>1. ~Raft /\ Sorter \in Workers \ {Main} /\ Sorter \in Threads
    BY <1>4, Apps, Workforce DEF Threads
  <2>2. \A l \in {"gather", "flush", "pop", "check"} : LabelFor(Sorter, l)
    BY <1>4, <2>1 DEF LabelFor
  <2>3. \A l \in {"gather", "flush", "pop", "check"} : held[Sorter] = <<>> => HeldFor(l, held[Sorter])
    BY DEF HeldFor
  <2>4. UNCHANGED <<setup, held>> /\ pc[Sorter] \in {"gather", "flush"}
        /\ \E l \in {"gather", "flush", "pop", "check"} : Goto(Sorter, l)
    <3>1. CASE Gather
      BY <3>1 DEF Gather, AfterGather
    <3>2. CASE Flush
      BY <3>2 DEF Flush, AfterGather, Push
    <3>3. QED
      BY <1>4, <3>1, <3>2
  <2>5. held[Sorter] = <<>>
    BY <1>0, <2>1, <2>4 DEF HeldFor
  <2>6. QED
    BY <2>1, <2>2, <2>3, <2>4, <2>5, Moved
<1>5. ASSUME ~Raft, Fill PROVE LabelsFit'
  <2>1. /\ Push(Main, held[Main], Out(Main)) /\ held' = [held EXCEPT ![Main] = Tail(@)]
        /\ Goto(Main, IF Len(held[Main]) = 1 THEN "pop" ELSE "fill")
    BY <1>5 DEF Fill
  <2>2. held[Main] \in Seq(Packets) /\ Out(Main) \in QueueNames /\ Main \in Workers
    BY <1>5, Workforce, RealQueues DEF TypeOK
  <2>3. Tail(held[Main]) \in Seq(Packets) /\ Len(Tail(held[Main])) = Len(held[Main]) - 1 /\ setup' = setup
    BY <2>1, <2>2, PushEffect
  <2>4. held' = [held EXCEPT ![Main] = Tail(held[Main])]
    BY <2>1
  <2> DEFINE l == IF Len(held[Main]) = 1 THEN "pop" ELSE "fill"
  <2>5. LabelFor(Main, l)
    BY <1>5 DEF LabelFor
  <2>6. HeldFor(l, Tail(held[Main]))
    <3>1. Len(held[Main]) = 1 => Tail(held[Main]) = <<>>
      <4>1. Len(held[Main]) = 1 => Len(Tail(held[Main])) = 0
        BY <2>3
      <4>2. QED
        BY <2>3, <4>1, Nothing
    <3>2. QED
      BY <1>5, <3>1 DEF HeldFor
  <2>7. QED
    BY <2>1, <2>2, <2>3, <2>4, <2>5, <2>6, Fitted DEF Goto
<1>6. ASSUME ~Raft, Recycle PROVE LabelsFit'
  <2>1. PICK n \in 1 .. Bulk :
          /\ Pop(Main, n)
          /\ \E m \in IF setup.caf /\ setup.app = "firewall" /\ Again(n) > 0
                        THEN Again(n) .. n ELSE {Again(n)} :
               /\ held' = [held EXCEPT ![Main] = SubSeq(Popped(Main, n), 1, m)]
               /\ Goto(Main, IF m = 0 THEN "pop" ELSE "push")
    BY <1>6 DEF Recycle
  <2>2. PICK m : /\ held' = [held EXCEPT ![Main] = SubSeq(Popped(Main, n), 1, m)]
                 /\ Goto(Main, IF m = 0 THEN "pop" ELSE "push")
    BY <2>1
  <2>3. Popped(Main, n) \in Seq(Packets) /\ Main \in Workers /\ setup' = setup
    <3>1. n \in Nat /\ Main \in Workers /\ In(Main) \in QueueNames
      BY <1>0, <1>6, Workforce, RealQueues
    <3>2. QED
      BY <2>1, <3>1, PopEffect DEF Pop
  <2> DEFINE l == IF m = 0 THEN "pop" ELSE "push"
  <2>4. LabelFor(Main, l)
    BY <1>6 DEF LabelFor
  <2>5. HeldFor(l, SubSeq(Popped(Main, n), 1, m))
    <3>1. SubSeq(Popped(Main, n), 1, 0) = <<>>
      BY <2>3, Cut
    <3>2. QED
      BY <3>1 DEF HeldFor
  <2>6. QED
    BY <2>2, <2>3, <2>4, <2>5, Fitted DEF Goto
<1>7. ASSUME AnnounceDone, ~Raft PROVE LabelsFit'
  <2>1. Goto(Main, "join") /\ UNCHANGED <<setup, held>> /\ pc[Main] = "pop" /\ Main \in Workers
    BY <1>7, Workforce DEF AnnounceDone
  <2>2. LabelFor(Main, "join") /\ HeldFor("join", held[Main])
    BY <1>0, <1>7, <2>1 DEF LabelFor, HeldFor
  <2>3. QED
    BY <2>1, <2>2, Moved
<1>8. ASSUME Join PROVE LabelsFit'
  <2>1. Goto(Main, "returned") /\ UNCHANGED <<setup, held>> /\ pc[Main] = "join" /\ Main \in Workers
    BY <1>8, Workforce DEF Join
  <2>2. LabelFor(Main, "returned") /\ HeldFor("returned", held[Main])
    BY <1>0, <2>1 DEF LabelFor, HeldFor
  <2>3. QED
    BY <2>1, <2>2, Moved
<1>9. ASSUME ~Raft, NEW w \in Workers \ {Main}, PopNothing(w) \/ CheckDone(w) PROVE LabelsFit'
  <2>1. PICK l \in {"check", "returned", "pop"} : Goto(w, l)
    BY <1>9 DEF PopNothing, CheckDone
  <2>2. UNCHANGED <<setup, held>> /\ pc[w] \in {"pop", "check"}
    BY <1>9 DEF PopNothing, CheckDone
  <2>3. LabelFor(w, l) /\ HeldFor(l, held[w])
    BY <1>0, <1>9, <2>1, <2>2 DEF LabelFor, HeldFor
  <2>4. QED
    BY <2>1, <2>2, <2>3, Moved
<1>10. ASSUME setup.app = "pipeline", Stage0Returns PROVE LabelsFit'
  <2>1. Goto(Stage0, "returned") /\ UNCHANGED <<setup, held>> /\ pc[Stage0] = "pop"
        /\ Stage0 \in Workers \ {Main} /\ ~Raft
    BY <1>10, Workforce, Apps DEF Stage0Returns
  <2>2. LabelFor(Stage0, "returned") /\ HeldFor("returned", held[Stage0])
    BY <1>0, <2>1 DEF LabelFor, HeldFor
  <2>3. QED
    BY <2>1, <2>2, Moved
<1>11. ASSUME Raft, NEW w \in RaftThreads, w[1] = "stage0", Produce(w) PROVE LabelsFit'
  <2>1. w \in Workers \ {Main}
    BY <1>11, RaftQueues
  <2>2. PICK slot : held' = [held EXCEPT ![w] = <<slot>>]
    BY <1>11 DEF Produce
  <2>3. Goto(w, "send") /\ setup' = setup
    BY <1>11 DEF Produce
  <2>4. LabelFor(w, "send") /\ HeldFor("send", <<slot>>)
    BY <1>11, <2>1 DEF LabelFor, HeldFor
  <2>5. QED
    BY <2>1, <2>2, <2>3, <2>4, Fitted DEF Goto
<1>12. ASSUME Raft, NEW w \in RaftThreads, w[1] = "stage0", Send(w) PROVE LabelsFit'
  <2>1. w \in Workers \ {Main}
    BY <1>12, RaftQueues
  <2>2. held' = [held EXCEPT ![w] = <<>>] /\ setup' = setup
    BY <1>12 DEF Send, Push
  <2>3. PICK l \in {"fill", "returned"} : Goto(w, l)
    BY <1>12 DEF Send
  <2>4. LabelFor(w, l) /\ HeldFor(l, <<>>)
    BY <1>12, <2>1 DEF LabelFor, HeldFor
  <2>5. QED
    BY <2>1, <2>2, <2>3, <2>4, Fitted DEF Goto
<1>13. ASSUME Raft, NEW w \in RaftThreads, w[1] # "stage0", Take(w) PROVE LabelsFit'
  <2>1. w \in Workers \ {Main} /\ In(w) \in QueueNames /\ w[1] \in Kernels /\ 1 \in Nat
    BY <1>13, RaftQueues, RealQueues
  <2>2. Pop(w, 1) /\ held' = [held EXCEPT ![w] = Popped(w, 1)] /\ Out(w) # "none"
        /\ Goto(w, IF setup.app = "rl_firewall" THEN "inspect" ELSE "push")
    BY <1>13 DEF Take
  <2>3. Popped(w, 1) \in Seq(Packets) /\ Len(Popped(w, 1)) = 1 /\ setup' = setup
    BY <2>1, <2>2, PopEffect DEF Pop
  <2> DEFINE l == IF setup.app = "rl_firewall" THEN "inspect" ELSE "push"
  <2>4. LabelFor(w, l)
    <3>1. w[1] \in {"stage1", "stage2"} /\ (setup.app = "rl_firewall" => w[1] = "stage1")
      BY <1>13, <2>1, <2>2, RaftQueues, Apps DEF Kernels
    <3>2. QED
      BY <1>13, <2>1, <3>1 DEF LabelFor
  <2>5. HeldFor(l, Popped(w, 1))
    BY <2>3 DEF HeldFor
  <2>6. QED
    BY <2>1, <2>2, <2>3, <2>4, <2>5, Fitted DEF Goto
<1>14. ASSUME Raft, NEW w \in RaftThreads, w[1] # "stage0", Inspect(w) PROVE LabelsFit'
  <2>1. w \in Workers \ {Main}
    BY <1>14, RaftQueues
  <2>2. UNCHANGED <<setup, held>> /\ pc[w] = "inspect"
    BY <1>14 DEF Inspect
  <2>3. PICK l \in {"mistake", "push"} : Goto(w, l)
    BY <1>14 DEF Inspect
  <2>4. LabelFor(w, l) /\ HeldFor(l, held[w])
    BY <1>0, <1>14, <2>1, <2>2 DEF LabelFor, HeldFor
  <2>5. QED
    BY <2>1, <2>2, <2>3, <2>4, Moved
<1>15. ASSUME Raft, NEW w \in RaftThreads, w[1] # "stage0", PushMistake(w) PROVE LabelsFit'
  <2>1. w \in Workers \ {Main}
    BY <1>15, RaftQueues
  <2>2. held' = [held EXCEPT ![w] = <<>>] /\ setup' = setup /\ Goto(w, "pop")
    BY <1>15 DEF PushMistake, Push
  <2>3. LabelFor(w, "pop") /\ HeldFor("pop", <<>>)
    BY <1>15, <2>1 DEF LabelFor, HeldFor
  <2>4. QED
    BY <2>1, <2>2, <2>3, Fitted DEF Goto
<1>16. ASSUME Raft, NEW w \in RaftThreads, w[1] # "stage0", Absorb(w) PROVE LabelsFit'
  <2>1. UNCHANGED <<setup, pc, held>>
    BY <1>16 DEF Absorb, Pop
  <2>2. QED
    BY <2>1, SameSetup DEF LabelsFit, LabelFor, HeldFor
<1>17. ASSUME Raft, NEW w \in RaftThreads, w[1] # "stage0", RunsDry(w) PROVE LabelsFit'
  <2>1. w \in Workers \ {Main}
    BY <1>17, RaftQueues
  <2>2. Goto(w, "returned") /\ UNCHANGED <<setup, held>> /\ pc[w] = "pop"
    BY <1>17 DEF RunsDry
  <2>3. LabelFor(w, "returned") /\ HeldFor("returned", held[w])
    BY <1>0, <1>17, <2>1, <2>2 DEF LabelFor, HeldFor
  <2>4. QED
    BY <2>1, <2>2, <2>3, Moved
<1>18. ASSUME UNCHANGED vars PROVE LabelsFit'
  BY <1>18, SameSetup DEF vars, LabelsFit, LabelFor, HeldFor
<1>19. ASSUME ~Raft, NEW w \in Stages \cup {Main}, PushHeld(w, "pop") PROVE LabelsFit'
  <2>1. w \in Workers /\ Out(w) \in QueueNames /\ pc[w] = "push"
    BY <1>19, RealQueues, Workforce DEF PushHeld
  <2>2. LabelFor(w, "pop")
    BY <1>0, <1>19, <2>1 DEF LabelFor
  <2>3. QED
    BY <1>2, <1>19, <2>1, <2>2
<1>20. ASSUME setup.app = "firewall", PushHeld(Sorter, "gather") PROVE LabelsFit'
  <2>1. Sorter \in Workers \ {Main} /\ Out(Sorter) \in QueueNames /\ ~Raft /\ Sorter \in Threads
    BY <1>20, RealQueues, Workforce, Apps DEF Threads
  <2>2. LabelFor(Sorter, "gather")
    BY <1>20, <2>1 DEF LabelFor
  <2>3. QED
    BY <1>2, <1>20, <2>1, <2>2
<1>21. ASSUME Raft, NEW w \in RaftThreads, w[1] # "stage0", PushHeld(w, "pop") PROVE LabelsFit'
  <2>1. w \in Workers \ {Main} /\ pc[w] = "push"
    BY <1>21, RaftQueues DEF PushHeld
  <2>2. w[1] \in {"stage1", "stage2"}
    BY <1>0, <1>21, <2>1 DEF LabelFor
  <2>3. Out(w) \in QueueNames
    BY <1>21, <2>2, RaftQueues DEF QueueNames
  <2>4. LabelFor(w, "pop")
    BY <1>21, <2>1 DEF LabelFor
  <2>5. QED
    BY <1>2, <1>21, <2>1, <2>3, <2>4
<1>22. QED
  BY <1>1, <1>3, <1>4, <1>5, <1>6, <1>7, <1>8, <1>9, <1>10, <1>11, <1>12, <1>13, <1>14, <1>15, <1>16,
     <1>17, <1>18, <1>19, <1>20, <1>21, Cases

-----------------------------------------------------------------------------
(* No packet is in two places.                                             *)

Once == \A a, b \in Places : \A i \in DOMAIN At(a), j \in DOMAIN At(b) :
          At(a)[i] = At(b)[j] => a = b /\ i = j

\* A step that changes a queue, what a thread holds, and the mistakes gathered
\* at most.
Touches(q, w, x, y, a, b, c) ==
  /\ q \in QueueNames /\ w \in Workers
  /\ queues' = [queues EXCEPT ![q] = x] /\ held' = [held EXCEPT ![w] = y]
  /\ a = <<"queue", q>> /\ b = <<"held", w>> /\ c = <<"gathered", Sorter>>

LEMMA Elsewhere ==
  ASSUME TypeOK, NEW q, NEW w, NEW x, NEW y, NEW a, NEW b, NEW c, Touches(q, w, x, y, a, b, c)
  PROVE  /\ a \in Places /\ b \in Places /\ c \in Places /\ a # b /\ a # c /\ b # c
         /\ At(a) = queues[q] /\ At(a)' = x
         /\ At(b) = held[w] /\ At(b)' = y
         /\ At(c) = gathered /\ At(c)' = gathered'
         /\ \A p \in Places \ {a, b, c} : At(p)' = At(p)
<1> USE DEF Touches
<1>1. a \in Places /\ b \in Places /\ c \in Places /\ a # b /\ a # c /\ b # c
  BY DEF Places
<1>2. /\ At(a) = queues[q] /\ At(a)' = x /\ At(b) = held[w] /\ At(b)' = y
      /\ At(c) = gathered /\ At(c)' = gathered'
  BY DEF At, TypeOK
<1>3. ASSUME NEW p \in Places \ {a, b, c} PROVE At(p)' = At(p)
  <2>1. CASE \E v \in QueueNames : p = <<"queue", v>>
    <3>1. PICK v \in QueueNames : p = <<"queue", v>>
      BY <2>1
    <3>2. v # q
      BY <1>3, <3>1
    <3>3. QED
      BY <3>1, <3>2 DEF At, TypeOK
  <2>2. CASE \E v \in Workers : p = <<"held", v>>
    <3>1. PICK v \in Workers : p = <<"held", v>>
      BY <2>2
    <3>2. v # w
      BY <1>3, <3>1
    <3>3. QED
      BY <3>1, <3>2 DEF At, TypeOK
  <2>3. QED
    BY <1>3, <2>1, <2>2 DEF Places
<1>4. QED
  BY <1>1, <1>2, <1>3

\* A step that moves packets from a place to two others.
Moves(a, b, c, f, g, h) ==
  /\ a \in Places /\ b \in Places /\ c \in Places /\ a # b /\ a # c /\ b # c
  /\ \A p \in Places \ {a, b, c} : At(p)' = At(p)
  /\ \A i \in DOMAIN At(a)' : f[i] \in DOMAIN At(a) /\ At(a)'[i] = At(a)[f[i]]
  /\ \A i \in DOMAIN At(b)' \cap DOMAIN At(b) : At(b)'[i] = At(b)[i]
  /\ \A i \in DOMAIN At(b)' \ DOMAIN At(b) : g[i] \in DOMAIN At(a) /\ At(b)'[i] = At(a)[g[i]]
  /\ \A i \in DOMAIN At(c)' \cap DOMAIN At(c) : At(c)'[i] = At(c)[i]
  /\ \A i \in DOMAIN At(c)' \ DOMAIN At(c) : h[i] \in DOMAIN At(a) /\ At(c)'[i] = At(a)[h[i]]
  /\ \A i, j \in DOMAIN At(a)' : f[i] = f[j] => i = j
  /\ \A i, j \in DOMAIN At(b)' \ DOMAIN At(b) : g[i] = g[j] => i = j
  /\ \A i, j \in DOMAIN At(c)' \ DOMAIN At(c) : h[i] = h[j] => i = j
  /\ \A i \in DOMAIN At(a)', j \in DOMAIN At(b)' \ DOMAIN At(b) : f[i] # g[j]
  /\ \A i \in DOMAIN At(a)', j \in DOMAIN At(c)' \ DOMAIN At(c) : f[i] # h[j]
  /\ \A i \in DOMAIN At(b)' \ DOMAIN At(b), j \in DOMAIN At(c)' \ DOMAIN At(c) : g[i] # h[j]

LEMMA Transfer ==
  ASSUME Once, NEW a, NEW b, NEW c, NEW f, NEW g, NEW h, Moves(a, b, c, f, g, h)
  PROVE  Once'
<1> USE DEF Moves
<1> DEFINE New(p, i) == (p = b \/ p = c) /\ i \notin DOMAIN At(p)
<1> DEFINE P(p, i) == IF New(p, i) THEN a ELSE p
<1> DEFINE I(p, i) == IF p = a THEN f[i]
                      ELSE IF New(p, i) THEN (IF p = b THEN g[i] ELSE h[i]) ELSE i
<1>1. ASSUME NEW p \in Places, NEW i \in DOMAIN At(p)'
      PROVE  P(p, i) \in Places /\ I(p, i) \in DOMAIN At(P(p, i)) /\ At(p)'[i] = At(P(p, i))[I(p, i)]
  <2>1. CASE p = a
    BY <1>1, <2>1
  <2>2. CASE p = b
    BY <1>1, <2>2
  <2>3. CASE p = c
    BY <1>1, <2>3
  <2>4. CASE p \notin {a, b, c}
    BY <1>1, <2>4
  <2>5. QED
    BY <2>1, <2>2, <2>3, <2>4
<1>2. ASSUME NEW p \in Places, NEW q \in Places, NEW i \in DOMAIN At(p)', NEW j \in DOMAIN At(q)',
             P(p, i) = P(q, j), I(p, i) = I(q, j)
      PROVE  p = q /\ i = j
  <2>1. CASE p = a
    BY <1>2, <2>1
  <2>2. CASE p = b
    BY <1>2, <2>2
  <2>3. CASE p = c
    BY <1>2, <2>3
  <2>4. CASE p \notin {a, b, c}
    BY <1>2, <2>4
  <2>5. QED
    BY <2>1, <2>2, <2>3, <2>4
<1> HIDE DEF P, I
<1>3. ASSUME NEW p \in Places, NEW q \in Places, NEW i \in DOMAIN At(p)', NEW j \in DOMAIN At(q)',
             At(p)'[i] = At(q)'[j]
      PROVE  p = q /\ i = j
  <2>1. At(P(p, i))[I(p, i)] = At(P(q, j))[I(q, j)]
    BY <1>1, <1>3
  <2>2. P(p, i) = P(q, j) /\ I(p, i) = I(q, j)
    BY <1>1, <1>3, <2>1 DEF Once
  <2>3. QED
    BY <1>2, <1>3, <2>2
<1>4. QED
  BY <1>3 DEF Once

\* What a push leaves.
Pushed(from, to) ==
  LET q == queues[to]
  IN  /\ Head(from) = from[1] /\ Head(from) \in Packets /\ from # <<>>
      /\ Tail(from) \in Seq(Packets) /\ Len(Tail(from)) = Len(from) - 1 /\ Len(from) >= 1
      /\ \A i \in 1 .. Len(from) - 1 : Tail(from)[i] = from[i + 1]
      /\ q \in Seq(Packets) /\ Append(q, Head(from)) \in Seq(Packets)
      /\ Len(Append(q, Head(from))) = Len(q) + 1
      /\ \A i \in 1 .. Len(q) : Append(q, Head(from))[i] = q[i]
      /\ Append(q, Head(from))[Len(q) + 1] = Head(from)
      /\ queues' = [queues EXCEPT ![to] = Append(q, Head(from))]
      /\ UNCHANGED <<setup, bad, done>>

LEMMA PushLeaves ==
  ASSUME TypeOK, NEW w, NEW from \in Seq(Packets), NEW to \in QueueNames, Push(w, from, to)
  PROVE  Pushed(from, to)
<1> DEFINE q == queues[to]
<1>1. /\ from # <<>> /\ Head(from) = from[1] /\ Head(from) \in Packets
      /\ Tail(from) \in Seq(Packets) /\ Len(Tail(from)) = Len(from) - 1 /\ Len(from) >= 1
      /\ \A i \in 1 .. Len(from) - 1 : Tail(from)[i] = from[i + 1]
      /\ q \in Seq(Packets) /\ Len(q) < setup.capacity
      /\ Append(q, Head(from)) \in Seq(Packets) /\ Len(Append(q, Head(from))) = Len(q) + 1
      /\ \A i \in 1 .. Len(q) : Append(q, Head(from))[i] = q[i]
      /\ Append(q, Head(from))[Len(q) + 1] = Head(from)
      /\ queues' = [queues EXCEPT ![to] = Append(q, Head(from))]
      /\ queues' \in [QueueNames -> Seq(Packets)]
      /\ UNCHANGED <<setup, bad, done>>
  BY PushEffect
<1> HIDE DEF q
<1>2. QED
  BY <1>1 DEF Pushed, q

\* What a pop leaves.
PoppedOff(w, k, n) ==
  LET q == queues[k]
      rest == SubSeq(q, n + 1, Len(q))
  IN  /\ n \in 1 .. Bulk /\ n <= Len(q) /\ Len(q) >= 1 /\ pc[w] = "pop"
      /\ q \in Seq(Packets) /\ rest \in Seq(Packets) /\ Len(rest) = Len(q) - n
      /\ \A i \in 1 .. Len(q) - n : rest[i] = q[i + n]
      /\ Popped(w, n) \in Seq(Packets) /\ Len(Popped(w, n)) = n
      /\ \A i \in 1 .. n : Popped(w, n)[i] = q[i]
      /\ queues' = [queues EXCEPT ![k] = rest]

LEMMA PopLeaves ==
  ASSUME TypeOK, NEW w \in Workers, NEW k \in QueueNames, In(w) = k, NEW n \in Nat, Pop(w, n)
  PROVE  PoppedOff(w, k, n)
<1> DEFINE q == queues[k]
<1> DEFINE rest == SubSeq(q, n + 1, Len(q))
<1>1. /\ n \in 1 .. Bulk /\ n \in 1 .. Len(q) /\ pc[w] = "pop"
      /\ q \in Seq(Packets) /\ rest \in Seq(Packets) /\ Len(rest) = Len(q) - n
      /\ \A i \in 1 .. Len(q) - n : rest[i] = q[i + n]
      /\ Popped(w, n) \in Seq(Packets) /\ Len(Popped(w, n)) = n
      /\ \A i \in 1 .. n : Popped(w, n)[i] = q[i]
      /\ queues' = [queues EXCEPT ![k] = rest]
  BY PopEffect
<1> HIDE DEF rest
<1>2. n <= Len(q) /\ Len(q) >= 1
  <2> HIDE DEF q
  <2>1. QED
    BY <1>1
<1> HIDE DEF q
<1>3. QED
  BY <1>1, <1>2 DEF PoppedOff, q, rest

LEMMA PopOnce ==
  ASSUME TypeOK, Once, NEW w \in Workers, NEW k \in QueueNames, In(w) = k, NEW n \in Nat, Pop(w, n),
         held[w] = <<>>, NEW y \in Seq(Packets), Len(y) <= n,
         \A i \in 1 .. Len(y) : y[i] = queues[k][i],
         held' = [held EXCEPT ![w] = y], gathered' = gathered
  PROVE  Once'
<1> DEFINE q == queues[k]
<1> DEFINE rest == SubSeq(q, n + 1, Len(q))
<1>1. /\ n \in 1 .. Len(q) /\ q \in Seq(Packets) /\ rest \in Seq(Packets) /\ Len(rest) = Len(q) - n
      /\ \A i \in 1 .. Len(q) - n : rest[i] = q[i + n]
      /\ queues' = [queues EXCEPT ![k] = rest]
  BY PopEffect
<1> HIDE DEF q, rest
<1>20. PICK a, b, c : a = <<"queue", k>> /\ b = <<"held", w>> /\ c = <<"gathered", Sorter>>
  OBVIOUS
<1>2. /\ a \in Places /\ b \in Places /\ c \in Places /\ a # b /\ a # c /\ b # c
      /\ At(a) = q /\ At(a)' = rest /\ At(b) = held[w] /\ At(b)' = y
      /\ At(c) = gathered /\ At(c)' = gathered'
      /\ \A p \in Places \ {a, b, c} : At(p)' = At(p)
  <2>1. Touches(k, w, rest, y, a, b, c)
    BY <1>1, <1>20 DEF Touches
  <2>2. /\ a \in Places /\ b \in Places /\ c \in Places /\ a # b /\ a # c /\ b # c
        /\ At(a) = queues[k] /\ At(a)' = rest
        /\ At(b) = held[w] /\ At(b)' = y
        /\ At(c) = gathered /\ At(c)' = gathered'
        /\ \A p \in Places \ {a, b, c} : At(p)' = At(p)
    BY <2>1, Elsewhere
  <2>3. QED
    BY <2>2 DEF q
<1> DEFINE f == [i \in 1 .. Len(rest) |-> i + n]
<1> DEFINE g == [i \in 1 .. Len(y) |-> i]
<1>3. /\ DOMAIN At(a) = 1 .. Len(q) /\ DOMAIN At(a)' = 1 .. Len(rest)
      /\ DOMAIN At(b) = {} /\ DOMAIN At(b)' = 1 .. Len(y) /\ DOMAIN At(c)' = DOMAIN At(c)
  <2>1. DOMAIN q = 1 .. Len(q) /\ DOMAIN rest = 1 .. Len(rest) /\ DOMAIN y = 1 .. Len(y)
    BY <1>1, LenProperties
  <2>2. DOMAIN held[w] = {}
    OBVIOUS
  <2>3. QED
    BY <1>2, <2>1, <2>2
<1>4. /\ \A i \in 1 .. Len(rest) : f[i] \in 1 .. Len(q) /\ f[i] = i + n /\ f[i] > n /\ rest[i] = q[f[i]]
      /\ \A i \in 1 .. Len(y) : g[i] \in 1 .. Len(q) /\ g[i] = i /\ g[i] <= n /\ y[i] = q[g[i]]
  <2>1. \A i \in 1 .. Len(rest) : i \in 1 .. Len(q) - n /\ i + n \in 1 .. Len(q) /\ i + n > n
    BY <1>1
  <2>2. \A i \in 1 .. Len(y) : i \in 1 .. Len(q) /\ i <= n
    BY <1>1
  <2>3. \A i \in 1 .. Len(y) : y[i] = q[i]
    BY DEF q
  <2>4. QED
    BY <1>1, <2>1, <2>2, <2>3
<1>5. \A i, j \in 1 .. Len(rest) : f[i] = f[j] => i = j
  BY <1>1, <1>4
<1>6. /\ \A i, j \in 1 .. Len(y) : g[i] = g[j] => i = j
      /\ \A i \in 1 .. Len(rest), j \in 1 .. Len(y) : f[i] # g[j]
  <2>1. \A i, j \in 1 .. Len(y) : g[i] = g[j] => i = j
    BY ONLY <1>4
  <2>2. \A j \in 1 .. Len(y) : g[j] \in Int /\ g[j] <= n
    BY ONLY <1>4
  <2>3. \A i \in 1 .. Len(rest) : f[i] \in Int /\ f[i] > n
    BY ONLY <1>4
  <2>4. n \in Int
    OBVIOUS
  <2> HIDE DEF f, g
  <2>5. \A i \in 1 .. Len(rest), j \in 1 .. Len(y) : f[i] # g[j]
    BY ONLY <2>2, <2>3, <2>4
  <2>6. QED
    BY ONLY <2>1, <2>5
<1> HIDE DEF f, g
<1>7. QED
  <2>1. Moves(a, b, c, f, g, g)
    BY <1>2, <1>3, <1>4, <1>5, <1>6 DEF Moves
  <2>2. QED
    BY <2>1, Transfer

LEMMA PushOnce ==
  ASSUME TypeOK, Once, NEW w \in Workers, NEW to \in QueueNames, Push(w, held[w], to),
         held' = [held EXCEPT ![w] = Tail(@)], gathered' = gathered
  PROVE  Once'
<1> DEFINE from == held[w]
<1> DEFINE q == queues[to]
<1> DEFINE all == Append(q, Head(from))
<1> DEFINE rest == Tail(from)
<1>0. from \in Seq(Packets) /\ held' = [held EXCEPT ![w] = rest] /\ Push(w, from, to)
  BY DEF TypeOK
<1> HIDE DEF from
<1>1. /\ Head(from) = from[1] /\ rest \in Seq(Packets) /\ Len(rest) = Len(from) - 1 /\ Len(from) >= 1
      /\ \A i \in 1 .. Len(from) - 1 : rest[i] = from[i + 1]
      /\ q \in Seq(Packets) /\ all \in Seq(Packets) /\ Len(all) = Len(q) + 1
      /\ \A i \in 1 .. Len(q) : all[i] = q[i]
      /\ all[Len(q) + 1] = Head(from)
      /\ queues' = [queues EXCEPT ![to] = all]
  <2>1. Pushed(from, to)
    BY <1>0, PushLeaves
  <2>2. QED
    BY <2>1 DEF Pushed
<1> HIDE DEF q, all, rest
<1>20. PICK a, b, c : a = <<"held", w>> /\ b = <<"queue", to>> /\ c = <<"gathered", Sorter>>
  OBVIOUS
<1>2. /\ a \in Places /\ b \in Places /\ c \in Places /\ a # b /\ a # c /\ b # c
      /\ At(a) = from /\ At(a)' = rest /\ At(b) = q /\ At(b)' = all
      /\ At(c) = gathered /\ At(c)' = gathered'
      /\ \A p \in Places \ {a, b, c} : At(p)' = At(p)
  <2>1. Touches(to, w, all, rest, b, a, c)
    BY <1>0, <1>1, <1>20 DEF Touches
  <2>2. QED
    BY <2>1, Elsewhere DEF q, from
<1> DEFINE f == [i \in 1 .. Len(rest) |-> i + 1]
<1> DEFINE g == [i \in {Len(q) + 1} |-> 1]
<1>3. /\ DOMAIN At(a) = 1 .. Len(from) /\ DOMAIN At(a)' = 1 .. Len(rest)
      /\ DOMAIN At(b) = 1 .. Len(q) /\ DOMAIN At(b)' = 1 .. Len(q) + 1 /\ DOMAIN At(c)' = DOMAIN At(c)
  <2>1. /\ DOMAIN q = 1 .. Len(q) /\ DOMAIN rest = 1 .. Len(rest) /\ DOMAIN from = 1 .. Len(from)
        /\ DOMAIN all = 1 .. Len(all)
    BY <1>0, <1>1, LenProperties
  <2>2. QED
    BY <1>1, <1>2, <2>1
<1>4. (1 .. Len(q) + 1) \ (1 .. Len(q)) = {Len(q) + 1}
  BY <1>1
<1>5. /\ \A i \in 1 .. Len(rest) : f[i] \in 1 .. Len(from) /\ f[i] = i + 1 /\ f[i] # 1 /\ rest[i] = from[f[i]]
      /\ \A i \in {Len(q) + 1} : g[i] \in 1 .. Len(from) /\ g[i] = 1 /\ all[i] = from[g[i]]
  BY <1>0, <1>1
<1>6. \A i, j \in 1 .. Len(rest) : f[i] = f[j] => i = j
  BY <1>1, <1>5
<1> HIDE DEF f, g
<1>7. \A i, j \in {Len(q) + 1} : i = j
  OBVIOUS
<1>8. \A i \in (1 .. Len(q) + 1) \cap (1 .. Len(q)) : all[i] = q[i]
  BY <1>1
<1>9. QED
  <2>1. DOMAIN At(b)' \ DOMAIN At(b) = {Len(q) + 1} /\ DOMAIN At(c)' \ DOMAIN At(c) = {}
    BY ONLY <1>3, <1>4
  <2>2. /\ \A i \in DOMAIN At(a)' : f[i] \in DOMAIN At(a) /\ At(a)'[i] = At(a)[f[i]]
        /\ \A i, j \in DOMAIN At(a)' : f[i] = f[j] => i = j
    BY ONLY <1>2, <1>3, <1>5, <1>6
  <2>3. /\ \A i \in DOMAIN At(b)' \cap DOMAIN At(b) : At(b)'[i] = At(b)[i]
        /\ \A i \in DOMAIN At(b)' \ DOMAIN At(b) : g[i] \in DOMAIN At(a) /\ At(b)'[i] = At(a)[g[i]]
        /\ \A i, j \in DOMAIN At(b)' \ DOMAIN At(b) : g[i] = g[j] => i = j
    BY ONLY <1>2, <1>3, <1>5, <1>7, <1>8, <2>1
  <2>4. \A i \in DOMAIN At(a)', j \in DOMAIN At(b)' \ DOMAIN At(b) : f[i] # g[j]
    BY ONLY <1>3, <1>5, <2>1
  <2>5. \A i \in DOMAIN At(c)' \cap DOMAIN At(c) : At(c)'[i] = At(c)[i]
    BY <1>2
  <2>6. Moves(a, b, c, f, g, g)
    BY ONLY <1>2, <2>1, <2>2, <2>3, <2>4, <2>5 DEF Moves
  <2>7. QED
    BY <2>6, Transfer

LEMMA FlushOnce ==
  ASSUME TypeOK, Once, Flush
  PROVE  Once'
<1> DEFINE from == gathered
<1> DEFINE q == queues["q1m"]
<1> DEFINE all == Append(q, Head(from))
<1> DEFINE rest == Tail(from)
<1>0. from \in Seq(Packets) /\ gathered' = rest /\ Push(Sorter, from, "q1m") /\ held' = held
      /\ "q1m" \in QueueNames /\ held' = [held EXCEPT ![Main] = held[Main]] /\ Main \in Workers
  BY Workforce DEF TypeOK, Flush, QueueNames
<1>1. /\ Head(from) = from[1] /\ rest \in Seq(Packets) /\ Len(rest) = Len(from) - 1 /\ Len(from) >= 1
      /\ \A i \in 1 .. Len(from) - 1 : rest[i] = from[i + 1]
      /\ q \in Seq(Packets) /\ all \in Seq(Packets) /\ Len(all) = Len(q) + 1
      /\ \A i \in 1 .. Len(q) : all[i] = q[i]
      /\ all[Len(q) + 1] = Head(from)
      /\ queues' = [queues EXCEPT !["q1m"] = all]
  <2> HIDE DEF from
  <2>1. Pushed(from, "q1m")
    BY <1>0, PushLeaves
  <2>2. QED
    BY <2>1 DEF Pushed
<1>20. PICK a, b, c : a = <<"gathered", Sorter>> /\ b = <<"queue", "q1m">> /\ c = <<"held", Main>>
  OBVIOUS
<1> HIDE DEF q, all, rest
<1>2. /\ a \in Places /\ b \in Places /\ c \in Places /\ a # b /\ a # c /\ b # c
      /\ At(a) = from /\ At(a)' = rest /\ At(b) = q /\ At(b)' = all
      /\ At(c)' = At(c)
      /\ \A p \in Places \ {a, b, c} : At(p)' = At(p)
  <2> DEFINE y == held[Main]
  <2>1. held' = [held EXCEPT ![Main] = y]
    BY <1>0
  <2> HIDE DEF y
  <2>2. /\ a \in Places /\ b \in Places /\ c \in Places /\ b # c /\ b # a /\ c # a
        /\ At(b) = queues["q1m"] /\ At(b)' = all
        /\ At(c) = held[Main] /\ At(c)' = y
        /\ At(a) = gathered /\ At(a)' = gathered'
        /\ \A p \in Places \ {b, c, a} : At(p)' = At(p)
    <3>1. Touches("q1m", Main, all, y, b, c, a)
      BY <1>0, <1>1, <1>20, <2>1 DEF Touches
    <3>2. QED
      BY <3>1, Elsewhere
  <2>3. QED
    BY <1>0, <2>2 DEF q, y
<1> HIDE DEF from
<1> DEFINE f == [i \in 1 .. Len(rest) |-> i + 1]
<1> DEFINE g == [i \in {Len(q) + 1} |-> 1]
<1>3. /\ DOMAIN At(a) = 1 .. Len(from) /\ DOMAIN At(a)' = 1 .. Len(rest)
      /\ DOMAIN At(b) = 1 .. Len(q) /\ DOMAIN At(b)' = 1 .. Len(q) + 1 /\ DOMAIN At(c)' = DOMAIN At(c)
  <2>1. /\ DOMAIN q = 1 .. Len(q) /\ DOMAIN rest = 1 .. Len(rest) /\ DOMAIN from = 1 .. Len(from)
        /\ DOMAIN all = 1 .. Len(all)
    BY <1>0, <1>1, LenProperties
  <2>2. QED
    BY <1>1, <1>2, <2>1
<1>4. (1 .. Len(q) + 1) \ (1 .. Len(q)) = {Len(q) + 1}
  BY <1>1
<1>5. /\ \A i \in 1 .. Len(rest) : f[i] \in 1 .. Len(from) /\ f[i] = i + 1 /\ f[i] # 1 /\ rest[i] = from[f[i]]
      /\ \A i \in {Len(q) + 1} : g[i] \in 1 .. Len(from) /\ g[i] = 1 /\ all[i] = from[g[i]]
  BY <1>0, <1>1
<1>6. \A i, j \in 1 .. Len(rest) : f[i] = f[j] => i = j
  BY <1>1, <1>5
<1> HIDE DEF f, g
<1>7. \A i, j \in {Len(q) + 1} : i = j
  OBVIOUS
<1>8. \A i \in (1 .. Len(q) + 1) \cap (1 .. Len(q)) : all[i] = q[i]
  BY <1>1
<1>9. QED
  <2>1. DOMAIN At(b)' \ DOMAIN At(b) = {Len(q) + 1} /\ DOMAIN At(c)' \ DOMAIN At(c) = {}
    BY ONLY <1>3, <1>4
  <2>2. /\ \A i \in DOMAIN At(a)' : f[i] \in DOMAIN At(a) /\ At(a)'[i] = At(a)[f[i]]
        /\ \A i, j \in DOMAIN At(a)' : f[i] = f[j] => i = j
    BY ONLY <1>2, <1>3, <1>5, <1>6
  <2>3. /\ \A i \in DOMAIN At(b)' \cap DOMAIN At(b) : At(b)'[i] = At(b)[i]
        /\ \A i \in DOMAIN At(b)' \ DOMAIN At(b) : g[i] \in DOMAIN At(a) /\ At(b)'[i] = At(a)[g[i]]
        /\ \A i, j \in DOMAIN At(b)' \ DOMAIN At(b) : g[i] = g[j] => i = j
    BY ONLY <1>2, <1>3, <1>5, <1>7, <1>8, <2>1
  <2>4. \A i \in DOMAIN At(a)', j \in DOMAIN At(b)' \ DOMAIN At(b) : f[i] # g[j]
    BY ONLY <1>3, <1>5, <2>1
  <2>5. \A i \in DOMAIN At(c)' \cap DOMAIN At(c) : At(c)'[i] = At(c)[i]
    BY ONLY <1>2, <1>3
  <2>6. Moves(a, b, c, f, g, g)
    BY ONLY <1>2, <2>1, <2>2, <2>3, <2>4, <2>5 DEF Moves
  <2>7. QED
    BY <2>6, Transfer

LEMMA SortOnce ==
  ASSUME TypeOK, Once, setup.app = "firewall", held[Sorter] = <<>>, NEW n \in 1 .. Bulk,
         NEW mistakes, NEW good, NEW all, SortedInto(n, mistakes, good, all)
  PROVE  Once'
<1> DEFINE q == queues["q01"]
<1> DEFINE rest == SubSeq(q, n + 1, Len(q))
<1>0. n \in Nat /\ Sorter \in Workers /\ In(Sorter) = "q01" /\ "q01" \in QueueNames /\ Pop(Sorter, n)
      /\ mistakes \subseteq 1 .. n
  BY Workforce, FirewallQueues DEF SortedInto, NetworkAssumption, QueueNames
<1>1. /\ n \in 1 .. Len(q) /\ q \in Seq(Packets) /\ rest \in Seq(Packets) /\ Len(rest) = Len(q) - n
      /\ \A i \in 1 .. Len(q) - n : rest[i] = q[i + n]
      /\ queues' = [queues EXCEPT !["q01"] = rest]
  <2>1. TypeOK
    OBVIOUS
  <2> HIDE DEF TypeOK
  <2> DEFINE p == queues[In(Sorter)]
  <2> DEFINE left == SubSeq(p, n + 1, Len(p))
  <2>2. /\ n \in 1 .. Len(p) /\ p \in Seq(Packets) /\ left \in Seq(Packets)
        /\ Len(left) = Len(p) - n /\ \A i \in 1 .. Len(p) - n : left[i] = p[i + n]
        /\ queues' = [queues EXCEPT ![In(Sorter)] = left]
    BY ONLY <1>0, <2>1, PopEffect
  <2>3. p = q /\ left = rest
    BY <1>0
  <2> HIDE DEF p, left, q, rest
  <2>4. QED
    BY ONLY <1>0, <2>2, <2>3
<1> HIDE DEF q, rest
<1>2. /\ good \in Seq(Packets) /\ all \in Seq(Packets) /\ held' = [held EXCEPT ![Sorter] = good]
      /\ gathered' \in Seq(Packets) /\ Len(gathered') = Len(gathered) + Len(all)
      /\ \A i \in 1 .. Len(gathered) : gathered'[i] = gathered[i]
      /\ \A i \in 1 .. Len(all) : gathered'[Len(gathered) + i] = all[i]
  BY DEF SortedInto
<1>3. PICK g \in [1 .. Len(good) -> (1 .. n) \ mistakes] :
         /\ \A i, j \in 1 .. Len(good) : g[i] = g[j] => i = j
         /\ \A i \in 1 .. Len(good) : good[i] = q[g[i]]
  BY DEF SortedInto, q
<1>4. PICK e \in [1 .. Len(all) -> mistakes] :
         /\ \A i, j \in 1 .. Len(all) : e[i] = e[j] => i = j
         /\ \A i \in 1 .. Len(all) : all[i] = q[e[i]]
  BY DEF SortedInto, q
<1> DEFINE m == Len(gathered)
<1>5. m \in Nat /\ gathered \in Seq(Packets)
  BY DEF TypeOK
<1>20. PICK a, b, c : a = <<"queue", "q01">> /\ b = <<"held", Sorter>> /\ c = <<"gathered", Sorter>>
  OBVIOUS
<1>6. /\ a \in Places /\ b \in Places /\ c \in Places /\ a # b /\ a # c /\ b # c
      /\ At(a) = q /\ At(a)' = rest /\ At(b) = held[Sorter] /\ At(b)' = good
      /\ At(c) = gathered /\ At(c)' = gathered'
      /\ \A p \in Places \ {a, b, c} : At(p)' = At(p)
  <2>1. Touches("q01", Sorter, rest, good, a, b, c)
    BY <1>0, <1>1, <1>2, <1>20 DEF Touches
  <2>2. QED
    BY <2>1, Elsewhere DEF q
<1> DEFINE f == [i \in 1 .. Len(rest) |-> i + n]
<1> DEFINE h == [i \in (m + 1) .. (m + Len(all)) |-> e[i - m]]
<1>7. /\ DOMAIN At(a) = 1 .. Len(q) /\ DOMAIN At(a)' = 1 .. Len(rest)
      /\ DOMAIN At(b) = {} /\ DOMAIN At(b)' = 1 .. Len(good)
      /\ DOMAIN At(c) = 1 .. m /\ DOMAIN At(c)' = 1 .. (m + Len(all))
  <2>1. /\ DOMAIN q = 1 .. Len(q) /\ DOMAIN rest = 1 .. Len(rest) /\ DOMAIN good = 1 .. Len(good)
        /\ DOMAIN gathered = 1 .. m /\ DOMAIN gathered' = 1 .. Len(gathered')
    BY <1>1, <1>2, <1>5, LenProperties
  <2>2. DOMAIN held[Sorter] = {}
    OBVIOUS
  <2>3. QED
    BY <1>2, <1>6, <2>1, <2>2
<1>8. \A i \in 1 .. Len(rest) : f[i] \in 1 .. Len(q) /\ f[i] = i + n /\ f[i] \in Int /\ f[i] > n /\ rest[i] = q[f[i]]
  <2>1. \A i \in 1 .. Len(rest) : i \in 1 .. Len(q) - n /\ i + n \in 1 .. Len(q) /\ i + n > n /\ i + n \in Int
    BY <1>0, <1>1
  <2>2. QED
    BY <1>1, <2>1
<1> HIDE DEF f
<1>9. \A i, j \in 1 .. Len(rest) : f[i] = f[j] => i = j
  <2>1. TAKE i, j \in 1 .. Len(rest)
  <2>2. f[i] = i + n /\ f[j] = j + n /\ i \in Int /\ j \in Int /\ n \in Int
    BY <1>0, <1>8
  <2>3. QED
    BY <2>2
<1>10. \A i \in 1 .. Len(good) : g[i] \in 1 .. n /\ g[i] \notin mistakes /\ g[i] \in 1 .. Len(q)
  <2>1. \A i \in 1 .. Len(good) : g[i] \in (1 .. n) \ mistakes
    BY <1>3
  <2>2. 1 .. n \subseteq 1 .. Len(q)
    BY <1>1
  <2>3. QED
    BY <2>1, <2>2
<1>11. (1 .. (m + Len(all))) \ (1 .. m) = (m + 1) .. (m + Len(all))
  BY <1>2, <1>5
<1>12. \A i \in (m + 1) .. (m + Len(all)) :
         /\ i - m \in 1 .. Len(all) /\ h[i] = e[i - m] /\ h[i] \in mistakes /\ h[i] \in 1 .. n
         /\ h[i] \in 1 .. Len(q) /\ gathered'[i] = q[h[i]]
  <2>1. SUFFICES ASSUME NEW i \in (m + 1) .. (m + Len(all))
                 PROVE  /\ i - m \in 1 .. Len(all) /\ h[i] = e[i - m] /\ h[i] \in mistakes /\ h[i] \in 1 .. n
                        /\ h[i] \in 1 .. Len(q) /\ gathered'[i] = q[h[i]]
    OBVIOUS
  <2>2. i - m \in 1 .. Len(all) /\ m + (i - m) = i
    BY <1>2, <1>5
  <2>3. h[i] = e[i - m] /\ h[i] \in mistakes
    BY <1>4, <2>2
  <2>4. gathered'[i] = all[i - m]
    <3> DEFINE k == i - m
    <3>1. gathered'[m + k] = all[k]
      BY <1>2, <2>2
    <3>2. QED
      BY <2>2, <3>1
  <2>5. h[i] \in 1 .. n /\ h[i] \in 1 .. Len(q)
    <3> HIDE DEF h
    <3>1. h[i] \in 1 .. n /\ n <= Len(q) /\ Len(q) \in Nat
      BY <1>0, <1>1, <2>3
    <3>2. QED
      BY <3>1
  <2>6. QED
    BY <1>4, <2>2, <2>3, <2>4, <2>5
<1>13. \A i, j \in (m + 1) .. (m + Len(all)) : h[i] = h[j] => i = j
  <2>1. SUFFICES ASSUME NEW i \in (m + 1) .. (m + Len(all)), NEW j \in (m + 1) .. (m + Len(all)), h[i] = h[j]
                 PROVE  i = j
    OBVIOUS
  <2>2. i - m = j - m
    BY <1>4, <1>12, <2>1
  <2>3. QED
    BY <1>5, <2>2
<1> HIDE DEF h
<1>14. /\ \A i \in 1 .. Len(rest), j \in 1 .. Len(good) : f[i] # g[j]
       /\ \A i \in 1 .. Len(rest), j \in (m + 1) .. (m + Len(all)) : f[i] # h[j]
       /\ \A i \in 1 .. Len(good), j \in (m + 1) .. (m + Len(all)) : g[i] # h[j]
  <2>1. \A i \in 1 .. Len(rest) : f[i] \in Int /\ f[i] > n
    BY <1>8
  <2>2. \A j \in 1 .. Len(good) : g[j] \in Int /\ g[j] <= n
    BY <1>0, <1>10
  <2>3. \A j \in (m + 1) .. (m + Len(all)) : h[j] \in Int /\ h[j] <= n
    BY <1>0, <1>12
  <2>4. \A x, y \in Int : x > n /\ y <= n => x # y
    BY <1>0
  <2>5. QED
    BY <1>10, <1>12, <2>1, <2>2, <2>3, <2>4
<1>15. \A i \in (1 .. (m + Len(all))) \cap (1 .. m) : gathered'[i] = gathered[i]
  BY <1>2
<1> HIDE DEF m
<1>16. QED
  <2>1. /\ DOMAIN At(b)' \cap DOMAIN At(b) = {} /\ DOMAIN At(b)' \ DOMAIN At(b) = 1 .. Len(good)
        /\ DOMAIN At(c)' \ DOMAIN At(c) = (m + 1) .. (m + Len(all))
        /\ DOMAIN At(c)' \cap DOMAIN At(c) = (1 .. (m + Len(all))) \cap (1 .. m)
    BY <1>7, <1>11
  <2>2. \A i \in DOMAIN At(a)' : f[i] \in DOMAIN At(a) /\ At(a)'[i] = At(a)[f[i]]
    BY <1>6, <1>7, <1>8
  <2>3. \A i \in DOMAIN At(b)' \ DOMAIN At(b) : g[i] \in DOMAIN At(a) /\ At(b)'[i] = At(a)[g[i]]
    BY <1>3, <1>6, <1>7, <1>10, <2>1
  <2>4. \A i \in DOMAIN At(c)' \ DOMAIN At(c) : h[i] \in DOMAIN At(a) /\ At(c)'[i] = At(a)[h[i]]
    BY <1>6, <1>7, <1>12, <2>1
  <2>5. /\ \A i \in DOMAIN At(b)' \cap DOMAIN At(b) : At(b)'[i] = At(b)[i]
        /\ \A i \in DOMAIN At(c)' \cap DOMAIN At(c) : At(c)'[i] = At(c)[i]
    BY <1>6, <1>15, <2>1
  <2>6. /\ \A i, j \in DOMAIN At(a)' : f[i] = f[j] => i = j
        /\ \A i, j \in DOMAIN At(b)' \ DOMAIN At(b) : g[i] = g[j] => i = j
        /\ \A i, j \in DOMAIN At(c)' \ DOMAIN At(c) : h[i] = h[j] => i = j
    BY <1>3, <1>7, <1>9, <1>13, <2>1
  <2>7. /\ \A i \in DOMAIN At(a)', j \in DOMAIN At(b)' \ DOMAIN At(b) : f[i] # g[j]
        /\ \A i \in DOMAIN At(a)', j \in DOMAIN At(c)' \ DOMAIN At(c) : f[i] # h[j]
        /\ \A i \in DOMAIN At(b)' \ DOMAIN At(b), j \in DOMAIN At(c)' \ DOMAIN At(c) : g[i] # h[j]
    BY <1>7, <1>14, <2>1
  <2>8. Moves(a, b, c, f, g, h)
    BY <1>6, <2>2, <2>3, <2>4, <2>5, <2>6, <2>7 DEF Moves
  <2>9. QED
    BY <2>8, Transfer

LEMMA StillOnce ==
  ASSUME Once, UNCHANGED <<queues, held, gathered>>
  PROVE  Once'
<1>1. \A p : At(p)' = At(p)
  BY DEF At
<1>2. QED
  BY <1>1 DEF Once

LEMMA InitOnce ==
  ASSUME Init
  PROVE  Once
<1>1. \A p \in Places : \A i \in DOMAIN At(p) : p = <<"held", Main>> /\ At(p)[i] = i
  <2>1. SUFFICES ASSUME NEW p \in Places, NEW i \in DOMAIN At(p)
                 PROVE  p = <<"held", Main>> /\ At(p)[i] = i
    OBVIOUS
  <2>2. DOMAIN <<>> = {}
    OBVIOUS
  <2>3. CASE \E v \in QueueNames : p = <<"queue", v>>
    BY <2>1, <2>2, <2>3 DEF Init, At
  <2>4. CASE \E v \in Workers : p = <<"held", v>>
    <3>1. PICK v \in Workers : p = <<"held", v>>
      BY <2>4
    <3>2. At(p) = held[v]
      BY <3>1 DEF At
    <3>3. held[v] = IF v = Main /\ ~Raft THEN [k \in Packets |-> k] ELSE <<>>
      BY DEF Init
    <3>4. QED
      BY <2>1, <2>2, <3>1, <3>2, <3>3
  <2>5. CASE p = <<"gathered", Sorter>>
    BY <2>1, <2>2, <2>5 DEF Init, At
  <2>6. QED
    BY <2>1, <2>3, <2>4, <2>5 DEF Places
<1>2. QED
  BY <1>1 DEF Once

LEMMA SetupStays ==
  ASSUME TypeOK, LabelsFit, [Next]_vars
  PROVE  setup' = setup
<1>1. ASSUME NEW w, NEW n, Pop(w, n) PROVE setup' = setup
  BY <1>1 DEF Pop
<1>2. ASSUME NEW w, NEW from, NEW to, Push(w, from, to) PROVE setup' = setup
  BY <1>2 DEF Push
<1>3. ASSUME NEW w, PassOn(w) \/ Take(w) \/ Absorb(w) PROVE setup' = setup
  BY <1>1, <1>3 DEF PassOn, Take, Absorb
<1>4. ASSUME NEW w, NEW l, PushHeld(w, l) PROVE setup' = setup
  BY <1>2, <1>4 DEF PushHeld
<1>5. ASSUME NEW w, Send(w) \/ PushMistake(w) PROVE setup' = setup
  BY <1>2, <1>5 DEF Send, PushMistake
<1>6. ASSUME Sort \/ Recycle PROVE setup' = setup
  BY <1>1, <1>6 DEF Sort, Recycle
<1>7. ASSUME Flush \/ Fill PROVE setup' = setup
  BY <1>2, <1>7 DEF Flush, Fill
<1>8. ASSUME Gather \/ AnnounceDone \/ Join \/ Stage0Returns PROVE setup' = setup
  BY <1>8 DEF Gather, AnnounceDone, Join, Stage0Returns
<1>9. ASSUME NEW w, PopNothing(w) \/ CheckDone(w) \/ Produce(w) \/ Inspect(w) \/ RunsDry(w)
      PROVE  setup' = setup
  BY <1>9 DEF PopNothing, CheckDone, Produce, Inspect, RunsDry
<1>10. CASE UNCHANGED vars
  BY <1>10 DEF vars
<1>11. QED
  BY <1>3, <1>4, <1>5, <1>6, <1>7, <1>8, <1>9, <1>10, Cases

\* The packets sent again, m of the n that came back.
Recycles(n, m) ==
  /\ received < setup.numPackets
  /\ Again(n) \in 0 .. n /\ Again(n) <= toSend /\ m \in 0 .. n
  /\ (setup.app = "firewall" => ~setup.caf) => m = Again(n)
  /\ Pop(Main, n) /\ held' = [held EXCEPT ![Main] = SubSeq(Popped(Main, n), 1, m)]
  /\ Goto(Main, IF m = 0 THEN "pop" ELSE "push")
  /\ bad' = Remark(SubSeq(Popped(Main, n), 1, Again(n)))
  /\ toSend' = toSend - Again(n) /\ received' = received + n
  /\ UNCHANGED <<gathered, polls, found, handled>>

LEMMA RecycleEffect ==
  ASSUME TypeOK, Recycle
  PROVE  \E n \in 1 .. Bulk, m \in Nat : Recycles(n, m)
<1>0. Bulk \in Nat /\ toSend \in Nat
  BY DEF NetworkAssumption, TypeOK
<1>1. PICK n \in 1 .. Bulk :
        /\ Pop(Main, n)
        /\ \E m \in IF setup.caf /\ setup.app = "firewall" /\ Again(n) > 0
                      THEN Again(n) .. n ELSE {Again(n)} :
             /\ held' = [held EXCEPT ![Main] = SubSeq(Popped(Main, n), 1, m)]
             /\ Goto(Main, IF m = 0 THEN "pop" ELSE "push")
        /\ bad' = Remark(SubSeq(Popped(Main, n), 1, Again(n)))
        /\ toSend' = toSend - Again(n) /\ received' = received + n
  BY DEF Recycle
<1>2. n \in Nat /\ Again(n) \in 0 .. n /\ Again(n) <= toSend
  BY <1>0 DEF Again, Least
<1>3. PICK m \in Again(n) .. n :
        /\ held' = [held EXCEPT ![Main] = SubSeq(Popped(Main, n), 1, m)]
        /\ Goto(Main, IF m = 0 THEN "pop" ELSE "push")
        /\ (setup.app = "firewall" => ~setup.caf) => m = Again(n)
  <2> DEFINE few == Again(n)
  <2> DEFINE Sends(m) == /\ held' = [held EXCEPT ![Main] = SubSeq(Popped(Main, n), 1, m)]
                         /\ Goto(Main, IF m = 0 THEN "pop" ELSE "push")
  <2>1. \E m \in IF setup.caf /\ setup.app = "firewall" /\ few > 0 THEN few .. n ELSE {few} : Sends(m)
    BY <1>1
  <2>2. few \in few .. n
    BY <1>2
  <2> HIDE DEF few, Sends
  <2>3. \E m \in few .. n : Sends(m) /\ ((setup.app = "firewall" => ~setup.caf) => m = few)
    BY <2>1, <2>2
  <2>4. QED
    BY <2>3 DEF few, Sends
<1>4. m \in 0 .. n /\ m \in Nat
  BY <1>2
<1>5. Recycles(n, m)
  BY <1>1, <1>2, <1>3, <1>4 DEF Recycles, Recycle
<1>6. QED
  BY <1>4, <1>5

LEMMA StepOnce ==
  ASSUME TypeOK, LabelsFit, ~Raft, Once, [Next]_vars
  PROVE  Once'
<1>0. Bulk \in Nat /\ Bulk \in Int /\ \A w \in Workers : HeldFor(pc[w], held[w])
  BY DEF NetworkAssumption, LabelsFit
<1>1. ASSUME NEW w \in Stages, PassOn(w) PROVE Once'
  <2>1. PICK n \in 1 .. Bulk :
          /\ Pop(w, n) /\ held' = [held EXCEPT ![w] = Popped(w, n)] /\ gathered' = gathered
    BY <1>1 DEF PassOn
  <2>2. PICK k \in QueueNames : In(w) = k
    BY <1>1, RealQueues
  <2>3. w \in Workers /\ n \in Nat /\ pc[w] = "pop"
    BY <1>0, <1>1, <2>1, Workforce DEF Pop
  <2>4. held[w] = <<>>
    BY <1>0, <2>3 DEF HeldFor
  <2>5. PICK y : y = Popped(w, n)
    OBVIOUS
  <2>6. y \in Seq(Packets) /\ Len(y) = n /\ \A i \in 1 .. n : y[i] = queues[k][i]
    BY <2>1, <2>2, <2>3, <2>5, PopEffect
  <2>7. Len(y) <= n /\ \A i \in 1 .. Len(y) : y[i] = queues[k][i]
    BY <2>3, <2>6
  <2>8. held' = [held EXCEPT ![w] = y]
    BY <2>1, <2>5
  <2>9. QED
    BY <2>1, <2>2, <2>3, <2>4, <2>6, <2>7, <2>8, PopOnce
<1>2. ASSUME NEW w \in Workers, NEW k \in QueueNames, Out(w) = k, NEW l, PushHeld(w, l) PROVE Once'
  BY <1>2, PushOnce DEF PushHeld
<1>3. ASSUME setup.app = "firewall", Sort PROVE Once'
  <2>1. CASE FoundNothing
    BY <2>1, StillOnce DEF FoundNothing
  <2>2. ASSUME NEW n \in 1 .. Bulk, NEW mistakes, NEW good, NEW all, SortedInto(n, mistakes, good, all)
        PROVE  Once'
    <3>1. pc[Sorter] = "pop"
      BY <2>2 DEF SortedInto, Pop
    <3>2. held[Sorter] = <<>>
      BY <1>0, <3>1, Workforce DEF HeldFor
    <3>3. QED
      BY <1>3, <2>2, <3>2, SortOnce
  <2>3. QED
    BY <1>3, <2>1, <2>2, SortEffect
<1>4. ASSUME Fill PROVE Once'
  <2>1. PICK k \in QueueNames : Out(Main) = k
    BY RealQueues
  <2>2. Push(Main, held[Main], k) /\ held' = [held EXCEPT ![Main] = Tail(@)] /\ gathered' = gathered
    BY <1>4, <2>1 DEF Fill
  <2>3. QED
    BY <2>2, PushOnce, Workforce
<1>5. ASSUME Recycle PROVE Once'
  <2>1. PICK n \in 1 .. Bulk, m \in Nat : Recycles(n, m)
    BY <1>5, RecycleEffect
  <2>2. /\ n \in Nat /\ m \in 0 .. n /\ Pop(Main, n) /\ gathered' = gathered
        /\ held' = [held EXCEPT ![Main] = SubSeq(Popped(Main, n), 1, m)]
    BY <1>0, <2>1 DEF Recycles
  <2>4. PICK k \in QueueNames : In(Main) = k
    BY RealQueues
  <2>5. Main \in Workers /\ pc[Main] = "pop"
    BY <2>2, Workforce DEF Pop
  <2>6. held[Main] = <<>>
    BY <1>0, <2>5 DEF HeldFor
  <2>7. PICK y : y = SubSeq(Popped(Main, n), 1, m)
    OBVIOUS
  <2>8. /\ Popped(Main, n) \in Seq(Packets) /\ Len(Popped(Main, n)) = n
        /\ \A i \in 1 .. n : Popped(Main, n)[i] = queues[k][i]
    BY <2>2, <2>4, <2>5, PopEffect
  <2>9. y \in Seq(Packets) /\ Len(y) = m /\ \A i \in 1 .. m : y[i] = Popped(Main, n)[i]
    <3> DEFINE all == Popped(Main, n)
    <3> HIDE DEF all
    <3>1. all \in Seq(Packets) /\ m \in 0 .. Len(all)
      BY <2>2, <2>8 DEF all
    <3>2. /\ SubSeq(all, 1, m) \in Seq(Packets) /\ Len(SubSeq(all, 1, m)) = m
          /\ \A i \in 1 .. m : SubSeq(all, 1, m)[i] = all[i]
      BY ONLY <3>1, Cut
    <3>3. QED
      BY <2>7, <3>2 DEF all
  <2>10. Len(y) <= n /\ \A i \in 1 .. Len(y) : y[i] = queues[k][i]
    <3>1. Len(y) = m /\ m <= n
      BY <2>2, <2>9
    <3>2. \A i \in 1 .. m : i \in 1 .. n
      BY <2>2
    <3>3. QED
      BY <2>8, <2>9, <3>1, <3>2
  <2>11. held' = [held EXCEPT ![Main] = y]
    BY <2>2, <2>7
  <2>12. QED
    BY <2>2, <2>4, <2>5, <2>6, <2>9, <2>10, <2>11, PopOnce
<1>6. ASSUME AnnounceDone \/ Join \/ Stage0Returns \/ Gather PROVE Once'
  BY <1>6, StillOnce DEF AnnounceDone, Join, Stage0Returns, Gather
<1>7. ASSUME NEW w, PopNothing(w) \/ CheckDone(w) PROVE Once'
  BY <1>7, StillOnce DEF PopNothing, CheckDone
<1>8. ASSUME UNCHANGED vars PROVE Once'
  BY <1>8, StillOnce DEF vars
<1>9. ASSUME NEW w \in Stages \cup {Main}, PushHeld(w, "pop") PROVE Once'
  <2>1. w \in Workers /\ Out(w) \in QueueNames
    BY <1>9, RealQueues, Workforce
  <2>2. QED
    BY <1>2, <1>9, <2>1
<1>10. ASSUME setup.app = "firewall", PushHeld(Sorter, "gather") PROVE Once'
  <2>1. Sorter \in Workers /\ Out(Sorter) \in QueueNames
    BY <1>10, RealQueues, Workforce
  <2>2. QED
    BY <1>2, <1>10, <2>1
<1>11. QED
  BY <1>1, <1>3, <1>4, <1>5, <1>6, <1>7, <1>8, <1>9, <1>10, FlushOnce, Cases

-----------------------------------------------------------------------------
(* The samples of the filters follow on one another.                       *)

InTurn(packets, first) ==
  \A i \in DOMAIN packets : packets[i] = ((first + i - 1) % PoolSize) + 1

Second == <<"stage2", 1>>
Turn2 == handled[Last] + Len(queues["q23"])
Turn3 == Turn2 + Len(held[Second])
Turn4 == Turn3 + Len(queues["q12"])
Turn5 == Turn4 + Len(held[Sorter])
Turn6 == Turn5 + Len(queues["q01"])
Sampling ==
  /\ InTurn(queues["q23"], handled[Last]) /\ InTurn(held[Second], Turn2)
  /\ InTurn(queues["q12"], Turn3) /\ InTurn(held[Sorter], Turn4)
  /\ InTurn(queues["q01"], Turn5) /\ InTurn(held[Stage0], Turn6)
  /\ received = Turn6 + Len(held[Stage0])

LEMMA NoneInTurn == \A a : InTurn(<<>>, a)
BY DEF InTurn

LEMMA TakeTurn ==
  ASSUME TypeOK, NEW w \in Workers, NEW k \in QueueNames, In(w) = k, Pop(w, 1),
         NEW a \in Nat, InTurn(queues[k], a)
  PROVE  /\ InTurn(Popped(w, 1), a) /\ Len(Popped(w, 1)) = 1 /\ Popped(w, 1) \in Seq(Packets)
         /\ InTurn(queues'[k], a + 1) /\ Len(queues'[k]) = Len(queues[k]) - 1
         /\ \A r \in QueueNames \ {k} : queues'[r] = queues[r]
<1> DEFINE q == queues[k]
<1> DEFINE rest == SubSeq(q, 1 + 1, Len(q))
<1> DEFINE y == Popped(w, 1)
<1>1. /\ Len(q) >= 1 /\ q \in Seq(Packets) /\ rest \in Seq(Packets) /\ Len(rest) = Len(q) - 1
      /\ \A i \in 1 .. Len(q) - 1 : rest[i] = q[i + 1]
      /\ y \in Seq(Packets) /\ Len(y) = 1 /\ \A i \in 1 .. 1 : y[i] = q[i]
      /\ queues' = [queues EXCEPT ![k] = rest]
  <2>1. 1 \in Nat
    OBVIOUS
  <2>2. PoppedOff(w, k, 1)
    BY <2>1, PopLeaves
  <2>3. QED
    BY <2>2 DEF PoppedOff
<1> HIDE DEF rest, y
<1>2. queues'[k] = rest /\ \A r \in QueueNames \ {k} : queues'[r] = queues[r]
  BY <1>1 DEF TypeOK
<1> HIDE DEF q
<1>3. InTurn(q, a)
  BY DEF q
<1>4. InTurn(y, a)
  <2>1. DOMAIN y = 1 .. 1 /\ 1 \in DOMAIN q
    BY <1>1
  <2>2. y[1] = q[1] /\ q[1] = ((a + 1 - 1) % PoolSize) + 1
    <3>1. 1 \in 1 .. 1
      OBVIOUS
    <3>2. QED
      BY <1>1, <1>3, <2>1, <3>1 DEF InTurn
  <2>3. \A i \in 1 .. 1 : i = 1
    OBVIOUS
  <2>4. QED
    BY <2>1, <2>2, <2>3 DEF InTurn
<1>5. InTurn(rest, a + 1)
  <2>1. SUFFICES ASSUME NEW i \in 1 .. Len(q) - 1 PROVE rest[i] = (((a + 1) + i - 1) % PoolSize) + 1
    <3>1. DOMAIN rest = 1 .. Len(q) - 1
      BY <1>1
    <3>2. QED
      BY <3>1 DEF InTurn
  <2>2. i + 1 \in DOMAIN q
    BY <1>1
  <2>3. q[i + 1] = ((a + (i + 1) - 1) % PoolSize) + 1
    BY <1>3, <2>2 DEF InTurn
  <2>4. a + (i + 1) - 1 = (a + 1) + i - 1
    OBVIOUS
  <2>5. QED
    BY <1>1, <2>3, <2>4
<1>6. QED
  BY <1>1, <1>2, <1>4, <1>5 DEF q, y

LEMMA PushTurn ==
  ASSUME TypeOK, NEW w, NEW from \in Seq(Packets), NEW k \in QueueNames, Push(w, from, k),
         NEW a \in Nat, InTurn(queues[k], a), InTurn(from, a + Len(queues[k]))
  PROVE  /\ InTurn(queues'[k], a) /\ Len(queues'[k]) = Len(queues[k]) + 1
         /\ InTurn(Tail(from), a + Len(queues'[k])) /\ Len(Tail(from)) = Len(from) - 1
         /\ Tail(from) \in Seq(Packets)
         /\ \A r \in QueueNames \ {k} : queues'[r] = queues[r]
<1> DEFINE q == queues[k]
<1> DEFINE all == Append(q, Head(from))
<1> DEFINE rest == Tail(from)
<1>1. /\ Head(from) = from[1] /\ rest \in Seq(Packets) /\ Len(rest) = Len(from) - 1 /\ Len(from) >= 1
      /\ \A i \in 1 .. Len(from) - 1 : rest[i] = from[i + 1]
      /\ q \in Seq(Packets) /\ all \in Seq(Packets) /\ Len(all) = Len(q) + 1
      /\ \A i \in 1 .. Len(q) : all[i] = q[i]
      /\ all[Len(q) + 1] = Head(from)
      /\ queues' = [queues EXCEPT ![k] = all]
  <2>1. Pushed(from, k)
    BY PushLeaves
  <2>2. QED
    BY <2>1 DEF Pushed
<1> HIDE DEF all, rest
<1>2. queues'[k] = all /\ \A r \in QueueNames \ {k} : queues'[r] = queues[r]
  BY <1>1 DEF TypeOK
<1>3. InTurn(q, a) /\ InTurn(from, a + Len(q)) /\ DOMAIN from = 1 .. Len(from)
  OBVIOUS
<1> HIDE DEF q
<1>4. Len(q) \in Nat /\ Len(from) \in Nat /\ DOMAIN q = 1 .. Len(q)
  BY <1>1
<1>5. InTurn(all, a)
  <2>1. SUFFICES ASSUME NEW i \in 1 .. Len(q) + 1 PROVE all[i] = ((a + i - 1) % PoolSize) + 1
    BY <1>1 DEF InTurn
  <2>2. CASE i \in 1 .. Len(q)
    BY <1>1, <1>3, <1>4, <2>2 DEF InTurn
  <2>3. CASE i = Len(q) + 1
    <3>1. 1 \in DOMAIN from
      BY <1>1, <1>3, <1>4
    <3>2. from[1] = (((a + Len(q)) + 1 - 1) % PoolSize) + 1
      BY <1>3, <3>1 DEF InTurn
    <3>3. (a + Len(q)) + 1 - 1 = a + i - 1
      BY <1>4, <2>3
    <3>4. QED
      BY <1>1, <2>3, <3>2, <3>3
  <2>4. QED
    <3>1. i \in 1 .. Len(q) \/ i = Len(q) + 1
      BY ONLY <1>4, i \in 1 .. Len(q) + 1
    <3>2. QED
      BY <2>2, <2>3, <3>1
<1>6. InTurn(rest, a + Len(all))
  <2>1. SUFFICES ASSUME NEW i \in 1 .. Len(from) - 1 PROVE rest[i] = (((a + Len(all)) + i - 1) % PoolSize) + 1
    <3>1. DOMAIN rest = 1 .. Len(from) - 1
      BY <1>1
    <3>2. QED
      BY <3>1 DEF InTurn
  <2>2. i + 1 \in DOMAIN from
    BY <1>3, <1>4
  <2>3. from[i + 1] = (((a + Len(q)) + (i + 1) - 1) % PoolSize) + 1
    BY <1>3, <2>2 DEF InTurn
  <2>4. (a + Len(q)) + (i + 1) - 1 = (a + Len(all)) + i - 1
    BY <1>1, <1>4
  <2>5. QED
    BY <1>1, <2>3, <2>4
<1>7. QED
  BY <1>1, <1>2, <1>5, <1>6 DEF q, rest

\* A part of the chain that follows on another.
LEMMA Follows ==
  ASSUME NEW x \in Seq(Packets), NEW y \in Seq(Packets), NEW a \in Nat,
         InTurn(x, a), InTurn(y, a + Len(x))
  PROVE  x \o y \in Seq(Packets) /\ Len(x \o y) = Len(x) + Len(y) /\ InTurn(x \o y, a)
<1>1. /\ x \o y \in Seq(Packets) /\ Len(x \o y) = Len(x) + Len(y)
      /\ \A i \in 1 .. Len(x) + Len(y) : (x \o y)[i] = IF i <= Len(x) THEN x[i] ELSE y[i - Len(x)]
  BY ConcatProperties
<1>2. Len(x) \in Nat /\ Len(y) \in Nat /\ DOMAIN x = 1 .. Len(x) /\ DOMAIN y = 1 .. Len(y)
      /\ DOMAIN (x \o y) = 1 .. Len(x) + Len(y)
  BY <1>1, LenProperties
<1> DEFINE z == x \o y
<1> HIDE DEF z
<1>3. SUFFICES ASSUME NEW i \in 1 .. Len(x) + Len(y) PROVE z[i] = ((a + i - 1) % PoolSize) + 1
  BY <1>1, <1>2 DEF InTurn, z
<1>4. z[i] = IF i <= Len(x) THEN x[i] ELSE y[i - Len(x)]
  BY <1>1 DEF z
<1>5. CASE i <= Len(x)
  <2>1. i \in DOMAIN x
    BY <1>2, <1>5
  <2>2. QED
    BY <1>4, <1>5, <2>1 DEF InTurn
<1>6. CASE ~(i <= Len(x))
  <2>1. i - Len(x) \in DOMAIN y /\ (a + Len(x)) + (i - Len(x)) - 1 = a + i - 1
    BY <1>2, <1>6
  <2>2. y[i - Len(x)] = (((a + Len(x)) + (i - Len(x)) - 1) % PoolSize) + 1
    BY <2>1 DEF InTurn
  <2>3. QED
    BY <1>4, <1>6, <2>1, <2>2
<1>7. QED
  BY <1>5, <1>6

LEMMA ChainInTurn ==
  ASSUME TypeOK, Sampling
  PROVE  SamplesInTurn
<1>1. /\ Last \in Workers /\ Second \in Workers /\ Sorter \in Workers /\ Stage0 \in Workers
      /\ {"q23", "q12", "q01"} \subseteq QueueNames
  BY DEF Last, Second, Sorter, Stage0, Workers, QueueNames
<1> DEFINE a == queues["q23"]
<1> DEFINE b == held[Second]
<1> DEFINE c == queues["q12"]
<1> DEFINE d == held[Sorter]
<1> DEFINE e == queues["q01"]
<1> DEFINE f == held[Stage0]
<1> DEFINE n == handled[Last]
<1>2. /\ a \in Seq(Packets) /\ b \in Seq(Packets) /\ c \in Seq(Packets) /\ d \in Seq(Packets)
      /\ e \in Seq(Packets) /\ f \in Seq(Packets) /\ n \in Nat /\ received \in Nat
  BY <1>1 DEF TypeOK
<1>3. /\ InTurn(a, n) /\ InTurn(b, n + Len(a)) /\ InTurn(c, n + Len(a) + Len(b))
      /\ InTurn(d, n + Len(a) + Len(b) + Len(c)) /\ InTurn(e, n + Len(a) + Len(b) + Len(c) + Len(d))
      /\ InTurn(f, n + Len(a) + Len(b) + Len(c) + Len(d) + Len(e))
      /\ received = n + Len(a) + Len(b) + Len(c) + Len(d) + Len(e) + Len(f)
  BY DEF Sampling, Turn2, Turn3, Turn4, Turn5, Turn6
<1>4. Chain = a \o b \o c \o d \o e \o f
  BY DEF Chain, Second
<1> HIDE DEF a, b, c, d, e, f, n
<1>5. /\ Len(a) \in Nat /\ Len(b) \in Nat /\ Len(c) \in Nat /\ Len(d) \in Nat /\ Len(e) \in Nat
      /\ Len(f) \in Nat
  BY <1>2
<1> DEFINE ab == a \o b
<1>6. ab \in Seq(Packets) /\ Len(ab) = Len(a) + Len(b) /\ InTurn(ab, n)
  BY <1>2, <1>3, Follows
<1> DEFINE abc == ab \o c
<1> HIDE DEF ab
<1>7. abc \in Seq(Packets) /\ Len(abc) = Len(a) + Len(b) + Len(c) /\ InTurn(abc, n)
  <2>1. n + Len(ab) = n + Len(a) + Len(b)
    BY <1>2, <1>5, <1>6
  <2>2. InTurn(c, n + Len(ab))
    BY <1>3, <2>1
  <2>3. Len(ab \o c) = Len(ab) + Len(c) /\ ab \o c \in Seq(Packets) /\ InTurn(ab \o c, n)
    BY <1>2, <1>6, <2>2, Follows
  <2>4. QED
    BY <1>6, <2>3
<1> DEFINE abcd == abc \o d
<1> HIDE DEF abc
<1>8. abcd \in Seq(Packets) /\ Len(abcd) = Len(a) + Len(b) + Len(c) + Len(d) /\ InTurn(abcd, n)
  <2>1. n + Len(abc) = n + Len(a) + Len(b) + Len(c)
    BY <1>2, <1>5, <1>7
  <2>2. InTurn(d, n + Len(abc))
    BY <1>3, <2>1
  <2>3. Len(abc \o d) = Len(abc) + Len(d) /\ abc \o d \in Seq(Packets) /\ InTurn(abc \o d, n)
    BY <1>2, <1>7, <2>2, Follows
  <2>4. QED
    BY <1>7, <2>3
<1> DEFINE abcde == abcd \o e
<1> HIDE DEF abcd
<1>9. abcde \in Seq(Packets) /\ Len(abcde) = Len(a) + Len(b) + Len(c) + Len(d) + Len(e) /\ InTurn(abcde, n)
  <2>1. n + Len(abcd) = n + Len(a) + Len(b) + Len(c) + Len(d)
    BY <1>2, <1>5, <1>8
  <2>2. InTurn(e, n + Len(abcd))
    BY <1>3, <2>1
  <2>3. Len(abcd \o e) = Len(abcd) + Len(e) /\ abcd \o e \in Seq(Packets) /\ InTurn(abcd \o e, n)
    BY <1>2, <1>8, <2>2, Follows
  <2>4. QED
    BY <1>8, <2>3
<1> DEFINE z == abcde \o f
<1> HIDE DEF abcde
<1>10. /\ z \in Seq(Packets) /\ Len(z) = Len(a) + Len(b) + Len(c) + Len(d) + Len(e) + Len(f)
       /\ InTurn(z, n)
  <2>1. n + Len(abcde) = n + Len(a) + Len(b) + Len(c) + Len(d) + Len(e)
    BY <1>2, <1>5, <1>9
  <2>2. InTurn(f, n + Len(abcde))
    BY <1>3, <2>1
  <2>3. Len(abcde \o f) = Len(abcde) + Len(f) /\ abcde \o f \in Seq(Packets) /\ InTurn(abcde \o f, n)
    BY <1>2, <1>9, <2>2, Follows
  <2>4. QED
    BY <1>9, <2>3
<1> HIDE DEF z
<1>11. Chain = z
  BY <1>4 DEF z, abcde, abcd, abc, ab
<1>12. received - n = Len(z)
  BY <1>2, <1>3, <1>5, <1>10
<1>13. z = [i \in 1 .. Len(z) |-> z[i]]
  BY <1>10
<1>14. z = [i \in 1 .. Len(z) |-> ((n + i - 1) % PoolSize) + 1]
  BY <1>10, <1>13 DEF InTurn
<1>15. QED
  BY <1>11, <1>12, <1>14 DEF SamplesInTurn, n

LEMMA FilterThreads ==
  ASSUME TypeOK, setup.app = "rl_fir"
  PROVE  /\ RaftThreads = {Stage0, Last, Sorter, Second} /\ Raft /\ RaftThreads \subseteq Workers
         /\ Out(Stage0) = "q01" /\ In(Sorter) = "q01" /\ Out(Sorter) = "q12"
         /\ In(Second) = "q12" /\ Out(Second) = "q23" /\ In(Last) = "q23" /\ Out(Last) = "none"
         /\ Stage0[1] = "stage0" /\ Last[1] = "last" /\ Sorter[1] = "stage1" /\ Second[1] = "stage2"
<1>1. setup.stage1 = 1 /\ setup.stage2 = 1 /\ Raft
  BY DEF TypeOK, NetworkAssumption, Raft
<1>2. \A s : Copies(s, 1) = {<<s, 1>>}
  BY DEF Copies
<1>3. RaftThreads = {Stage0, Last, Sorter, Second}
  BY <1>1, <1>2 DEF RaftThreads, Last, Sorter, Second
<1>4. Stage0[1] = "stage0" /\ Last[1] = "last" /\ Sorter[1] = "stage1" /\ Second[1] = "stage2"
  BY DEF Stage0, Last, Sorter, Second
<1>5. {Stage0, Last, Sorter, Second} \subseteq Workers
  BY DEF Stage0, Last, Sorter, Second, Workers
<1>6. QED
  BY <1>1, <1>3, <1>4, <1>5, RaftQueues

LEMMA InitSampling ==
  ASSUME Init, setup.app = "rl_fir"
  PROVE  Sampling
<1>1. Raft /\ {Last, Second, Sorter, Stage0} \subseteq Workers /\ {"q01", "q12", "q23"} \subseteq QueueNames
  BY DEF Raft, Last, Second, Sorter, Stage0, Workers, QueueNames
<1>2. /\ queues["q01"] = <<>> /\ queues["q12"] = <<>> /\ queues["q23"] = <<>>
      /\ held[Second] = <<>> /\ held[Sorter] = <<>> /\ held[Stage0] = <<>>
      /\ handled[Last] = 0 /\ received = 0
  BY <1>1 DEF Init
<1>3. Len(<<>>) = 0
  OBVIOUS
<1>4. QED
  BY <1>2, <1>3, NoneInTurn DEF Sampling, Turn2, Turn3, Turn4, Turn5, Turn6

LEMMA StepSampling ==
  ASSUME TypeOK, LabelsFit, setup.app = "rl_fir", Sampling, [Next]_vars
  PROVE  Sampling'
<1> DEFINE a == queues["q23"]
<1> DEFINE b == held[Second]
<1> DEFINE c == queues["q12"]
<1> DEFINE d == held[Sorter]
<1> DEFINE e == queues["q01"]
<1> DEFINE f == held[Stage0]
<1> DEFINE n == handled[Last]
<1>0. /\ Raft /\ RaftThreads = {Stage0, Last, Sorter, Second} /\ RaftThreads \subseteq Workers
      /\ Stage0 # Last /\ Stage0 # Sorter /\ Stage0 # Second /\ Last # Sorter /\ Last # Second
      /\ Sorter # Second
      /\ {"q23", "q12", "q01"} \subseteq QueueNames
      /\ \A w \in Workers : HeldFor(pc[w], held[w])
  BY FilterThreads DEF Stage0, Last, Sorter, Second, QueueNames, LabelsFit
<1>1. /\ a \in Seq(Packets) /\ b \in Seq(Packets) /\ c \in Seq(Packets) /\ d \in Seq(Packets)
      /\ e \in Seq(Packets) /\ f \in Seq(Packets) /\ n \in Nat /\ received \in Nat
  BY <1>0 DEF TypeOK
<1>2. /\ Turn2 = n + Len(a) /\ Turn3 = Turn2 + Len(b) /\ Turn4 = Turn3 + Len(c)
      /\ Turn5 = Turn4 + Len(d) /\ Turn6 = Turn5 + Len(e) /\ received = Turn6 + Len(f)
  BY DEF Turn2, Turn3, Turn4, Turn5, Turn6, Sampling
<1>3. /\ Turn2 \in Nat /\ Turn3 \in Nat /\ Turn4 \in Nat /\ Turn5 \in Nat /\ Turn6 \in Nat
      /\ Len(a) \in Nat /\ Len(b) \in Nat /\ Len(c) \in Nat /\ Len(d) \in Nat /\ Len(e) \in Nat
      /\ Len(f) \in Nat
  <2> HIDE DEF a, b, c, d, e, f, n
  <2>1. /\ Len(a) \in Nat /\ Len(b) \in Nat /\ Len(c) \in Nat /\ Len(d) \in Nat /\ Len(e) \in Nat
        /\ Len(f) \in Nat
    BY <1>1
  <2>2. Turn2 \in Nat
    BY <1>1, <1>2, <2>1
  <2>3. Turn3 \in Nat
    BY <1>1, <1>2, <2>1, <2>2
  <2>4. Turn4 \in Nat
    BY <1>1, <1>2, <2>1, <2>3
  <2>5. Turn5 \in Nat
    BY <1>1, <1>2, <2>1, <2>4
  <2>6. QED
    BY <1>1, <1>2, <2>1, <2>2, <2>3, <2>4, <2>5
<1>4. /\ InTurn(a, n) /\ InTurn(b, Turn2) /\ InTurn(c, Turn3) /\ InTurn(d, Turn4)
      /\ InTurn(e, Turn5) /\ InTurn(f, Turn6)
  BY DEF Sampling
\* What is left to show: where the parts of the chain are now, and that they follow.
<1> DEFINE Next2 == handled'[Last] + Len(queues'["q23"])
<1> DEFINE Next3 == Next2 + Len(held'[Second])
<1> DEFINE Next4 == Next3 + Len(queues'["q12"])
<1> DEFINE Next5 == Next4 + Len(held'[Sorter])
<1> DEFINE Next6 == Next5 + Len(queues'["q01"])
<1> DEFINE Goal == /\ InTurn(queues'["q23"], handled'[Last]) /\ InTurn(held'[Second], Next2)
                   /\ InTurn(queues'["q12"], Next3) /\ InTurn(held'[Sorter], Next4)
                   /\ InTurn(queues'["q01"], Next5) /\ InTurn(held'[Stage0], Next6)
                   /\ received' = Next6 + Len(held'[Stage0])
<1>5. SUFFICES Goal
  BY DEF Sampling, Turn2, Turn3, Turn4, Turn5, Turn6
<1>6. Len(<<>>) = 0 /\ \A x : Len(<<x>>) = 1
  OBVIOUS
<1> HIDE DEF a, b, c, d, e, f, n
<1>7. CASE UNCHANGED <<queues, held, handled, received>>
  BY <1>2, <1>4, <1>7 DEF a, b, c, d, e, f, n
<1>8. CASE Produce(Stage0)
  <2>1. f = <<>>
    BY <1>0, <1>8 DEF Produce, HeldFor, f
  <2>2. /\ queues' = queues /\ held' = [held EXCEPT ![Stage0] = <<(received % PoolSize) + 1>>]
        /\ handled' = [handled EXCEPT ![Stage0] = received] /\ received' = received + 1
    BY <1>8 DEF Produce
  <2>3. /\ held'[Second] = b /\ held'[Sorter] = d /\ held'[Stage0] = <<(received % PoolSize) + 1>>
        /\ handled'[Last] = n
    BY <1>0, <2>2 DEF TypeOK, b, d, n
  <2>4. received = Turn6
    BY <1>2, <1>3, <1>6, <2>1
  <2>5. InTurn(<<(received % PoolSize) + 1>>, Turn6)
    <3> DEFINE x == (received % PoolSize) + 1
    <3>1. (received + 1 - 1) % PoolSize = received % PoolSize
      BY <1>1
    <3>2. x = ((Turn6 + 1 - 1) % PoolSize) + 1
      BY <2>4, <3>1
    <3> HIDE DEF x
    <3>3. DOMAIN <<x>> = {1} /\ <<x>>[1] = x
      OBVIOUS
    <3>4. InTurn(<<x>>, Turn6)
      BY <3>2, <3>3 DEF InTurn
    <3>5. QED
      BY <3>4 DEF x
  <2>6. QED
    BY <1>2, <1>4, <1>6, <2>2, <2>3, <2>4, <2>5 DEF a, c, e
<1>9. CASE Send(Stage0)
  <2>1. /\ Push(Stage0, f, "q01") /\ held' = [held EXCEPT ![Stage0] = <<>>]
        /\ received' = received /\ handled' = handled /\ Len(f) = 1
    BY <1>0, <1>9, FilterThreads DEF Send, HeldFor, f
  <2>2. InTurn(f, Turn5 + Len(queues["q01"])) /\ InTurn(queues["q01"], Turn5)
    BY <1>2, <1>4 DEF e
  <2>3. /\ InTurn(queues'["q01"], Turn5) /\ Len(queues'["q01"]) = Len(queues["q01"]) + 1
        /\ \A r \in QueueNames \ {"q01"} : queues'[r] = queues[r]
    BY <1>0, <1>1, <1>3, <2>1, <2>2, PushTurn
  <2>4. held'[Second] = b /\ held'[Sorter] = d /\ held'[Stage0] = <<>>
    BY <1>0, <2>1 DEF TypeOK, b, d
  <2>5. queues'["q23"] = a /\ queues'["q12"] = c /\ handled'[Last] = n
    BY <1>0, <2>1, <2>3 DEF a, c, n
  <2>6. Len(queues'["q01"]) = Len(e) + 1
    BY <2>3 DEF e
  <2>7. received' = Next6 + Len(held'[Stage0])
    <3>1. Next6 = n + Len(a) + Len(b) + Len(c) + Len(d) + (Len(e) + 1) /\ Len(held'[Stage0]) = 0
      BY <1>6, <2>4, <2>5, <2>6
    <3> HIDE DEF Next6
    <3>2. received' = received
      BY <2>1
    <3>3. received = n + Len(a) + Len(b) + Len(c) + Len(d) + Len(e) + 1
      BY <1>1, <1>2, <1>3, <2>1
    <3>4. QED
      BY <1>1, <1>3, <3>1, <3>2, <3>3
  <2>8. QED
    BY <1>2, <1>4, <2>3, <2>4, <2>5, <2>7, NoneInTurn
<1>10. CASE Take(Sorter)
  <2>1. /\ Pop(Sorter, 1) /\ held' = [held EXCEPT ![Sorter] = Popped(Sorter, 1)]
        /\ received' = received /\ handled' = handled /\ pc[Sorter] = "pop"
    BY <1>10 DEF Take, Pop
  <2>2. d = <<>>
    BY <1>0, <2>1 DEF HeldFor, d
  <2>3. Turn5 = Turn4
    BY <1>2, <1>3, <1>6, <2>2
  <2>4. InTurn(queues["q01"], Turn4)
    BY <1>4, <2>3 DEF e
  <2>5. /\ InTurn(Popped(Sorter, 1), Turn4) /\ Len(Popped(Sorter, 1)) = 1
        /\ InTurn(queues'["q01"], Turn4 + 1) /\ Len(queues'["q01"]) = Len(queues["q01"]) - 1
        /\ \A r \in QueueNames \ {"q01"} : queues'[r] = queues[r]
    BY <1>0, <1>3, <2>1, <2>4, FilterThreads, TakeTurn
  <2>6. held'[Second] = b /\ held'[Sorter] = Popped(Sorter, 1) /\ held'[Stage0] = f
    BY <1>0, <2>1 DEF TypeOK, b, f
  <2>7. queues'["q23"] = a /\ queues'["q12"] = c /\ handled'[Last] = n
    BY <1>0, <2>1, <2>5 DEF a, c, n
  <2>8. Len(queues'["q01"]) = Len(e) - 1 /\ Len(held'[Sorter]) = 1
    BY <2>5, <2>6 DEF e
  <2>9. Next4 = Turn4 /\ Next5 = Turn4 + 1
    BY <1>2, <2>6, <2>7, <2>8
  <2>10. Next6 = Turn6
    <3>1. Next6 = Turn4 + 1 + (Len(e) - 1)
      BY <2>8, <2>9
    <3> HIDE DEF Next6
    <3>2. Turn6 = Turn4 + Len(e)
      BY <1>2, <2>3
    <3>3. Turn4 + 1 + (Len(e) - 1) = Turn4 + Len(e)
      BY <1>3
    <3>4. QED
      BY <3>1, <3>2, <3>3
  <2>11. QED
    BY <1>2, <1>4, <2>1, <2>5, <2>6, <2>7, <2>9, <2>10
<1>11. CASE Take(Second)
  <2>1. /\ Pop(Second, 1) /\ held' = [held EXCEPT ![Second] = Popped(Second, 1)]
        /\ received' = received /\ handled' = handled /\ pc[Second] = "pop"
    BY <1>11 DEF Take, Pop
  <2>2. b = <<>>
    BY <1>0, <2>1 DEF HeldFor, b
  <2>3. Turn3 = Turn2
    BY <1>2, <1>3, <1>6, <2>2
  <2>4. InTurn(queues["q12"], Turn2)
    BY <1>4, <2>3 DEF c
  <2>5. /\ InTurn(Popped(Second, 1), Turn2) /\ Len(Popped(Second, 1)) = 1
        /\ InTurn(queues'["q12"], Turn2 + 1) /\ Len(queues'["q12"]) = Len(queues["q12"]) - 1
        /\ \A r \in QueueNames \ {"q12"} : queues'[r] = queues[r]
    BY <1>0, <1>3, <2>1, <2>4, FilterThreads, TakeTurn
  <2>6. held'[Sorter] = d /\ held'[Second] = Popped(Second, 1) /\ held'[Stage0] = f
    BY <1>0, <2>1 DEF TypeOK, d, f
  <2>7. queues'["q23"] = a /\ queues'["q01"] = e /\ handled'[Last] = n
    BY <1>0, <2>1, <2>5 DEF a, e, n
  <2>8. Len(queues'["q12"]) = Len(c) - 1 /\ Len(held'[Second]) = 1
    BY <2>5, <2>6 DEF c
  <2>9. Next2 = Turn2 /\ Next3 = Turn2 + 1
    BY <1>2, <2>6, <2>7, <2>8
  <2>10. Next4 = Turn4
    <3>1. Next4 = Turn2 + 1 + (Len(c) - 1)
      BY <2>8, <2>9
    <3> HIDE DEF Next4
    <3>2. Turn4 = Turn2 + Len(c)
      BY <1>2, <2>3
    <3>3. Turn2 + 1 + (Len(c) - 1) = Turn2 + Len(c)
      BY <1>3
    <3>4. QED
      BY <3>1, <3>2, <3>3
  <2>11. Next5 = Turn5 /\ Next6 = Turn6
    BY <1>2, <2>6, <2>7, <2>10
  <2>12. QED
    BY <1>2, <1>4, <2>1, <2>5, <2>6, <2>7, <2>9, <2>10, <2>11
<1>12. CASE PushHeld(Sorter, "pop")
  <2>1. /\ Push(Sorter, d, "q12") /\ held' = [held EXCEPT ![Sorter] = Tail(d)]
        /\ received' = received /\ handled' = handled
    BY <1>12, FilterThreads DEF PushHeld, TypeOK, d
  <2>2. InTurn(d, Turn3 + Len(queues["q12"])) /\ InTurn(queues["q12"], Turn3)
    BY <1>2, <1>4 DEF c
  <2>3. /\ InTurn(queues'["q12"], Turn3) /\ Len(queues'["q12"]) = Len(queues["q12"]) + 1
        /\ InTurn(Tail(d), Turn3 + Len(queues'["q12"])) /\ Len(Tail(d)) = Len(d) - 1
        /\ \A r \in QueueNames \ {"q12"} : queues'[r] = queues[r]
    BY <1>0, <1>1, <1>3, <2>1, <2>2, PushTurn
  <2>4. held'[Second] = b /\ held'[Sorter] = Tail(d) /\ held'[Stage0] = f
    BY <1>0, <2>1 DEF TypeOK, b, f
  <2>5. queues'["q23"] = a /\ queues'["q01"] = e /\ handled'[Last] = n
    BY <1>0, <2>1, <2>3 DEF a, e, n
  <2>6. Len(queues'["q12"]) = Len(c) + 1
    BY <2>3 DEF c
  <2>7. Next3 = Turn3 /\ Next4 = Turn3 + Len(queues'["q12"])
    BY <1>2, <2>4, <2>5
  <2>8. Next5 = Turn5
    <3>1. Next5 = Turn3 + (Len(c) + 1) + (Len(d) - 1)
      BY <2>3, <2>4, <2>6, <2>7
    <3> HIDE DEF Next5
    <3>2. QED
      BY <1>1, <1>2, <1>3, <3>1
  <2>9. Next6 = Turn6
    BY <1>2, <2>5, <2>8
  <2>10. QED
    BY <1>2, <1>4, <2>1, <2>3, <2>4, <2>5, <2>7, <2>8, <2>9
<1>13. CASE PushHeld(Second, "pop")
  <2>1. /\ Push(Second, b, "q23") /\ held' = [held EXCEPT ![Second] = Tail(b)]
        /\ received' = received /\ handled' = handled
    BY <1>13, FilterThreads DEF PushHeld, TypeOK, b
  <2>2. InTurn(b, n + Len(queues["q23"])) /\ InTurn(queues["q23"], n)
    BY <1>2, <1>4 DEF a
  <2>3. /\ InTurn(queues'["q23"], n) /\ Len(queues'["q23"]) = Len(queues["q23"]) + 1
        /\ InTurn(Tail(b), n + Len(queues'["q23"])) /\ Len(Tail(b)) = Len(b) - 1
        /\ \A r \in QueueNames \ {"q23"} : queues'[r] = queues[r]
    BY <1>0, <1>1, <1>3, <2>1, <2>2, PushTurn
  <2>4. held'[Sorter] = d /\ held'[Second] = Tail(b) /\ held'[Stage0] = f
    BY <1>0, <2>1 DEF TypeOK, d, f
  <2>5. queues'["q12"] = c /\ queues'["q01"] = e /\ handled'[Last] = n
    BY <1>0, <2>1, <2>3 DEF c, e, n
  <2>6. Len(queues'["q23"]) = Len(a) + 1
    BY <2>3 DEF a
  <2>7. Next2 = n + Len(queues'["q23"])
    BY <2>5
  <2>8. Next3 = Turn3
    <3>1. Next3 = n + (Len(a) + 1) + (Len(b) - 1)
      BY <2>3, <2>4, <2>6, <2>7
    <3> HIDE DEF Next3
    <3>2. QED
      BY <1>1, <1>2, <1>3, <3>1
  <2>9. Next4 = Turn4 /\ Next5 = Turn5 /\ Next6 = Turn6
    BY <1>2, <2>4, <2>5, <2>8
  <2>10. QED
    BY <1>2, <1>4, <2>1, <2>3, <2>4, <2>5, <2>7, <2>8, <2>9
<1>14. CASE Absorb(Last)
  <2>1. /\ Pop(Last, 1) /\ handled' = [handled EXCEPT ![Last] = @ + 1]
        /\ received' = received /\ held' = held
    BY <1>14 DEF Absorb
  <2>2. InTurn(queues["q23"], n)
    BY <1>4 DEF a
  <2>3. /\ InTurn(queues'["q23"], n + 1) /\ Len(queues'["q23"]) = Len(queues["q23"]) - 1
        /\ \A r \in QueueNames \ {"q23"} : queues'[r] = queues[r]
    BY <1>0, <1>1, <2>1, <2>2, FilterThreads, TakeTurn
  <2>4. held'[Second] = b /\ held'[Sorter] = d /\ held'[Stage0] = f
    BY <2>1 DEF b, d, f
  <2>5. queues'["q12"] = c /\ queues'["q01"] = e /\ handled'[Last] = n + 1
    BY <1>0, <2>1, <2>3 DEF TypeOK, c, e, n
  <2>6. Len(queues'["q23"]) = Len(a) - 1
    BY <2>3 DEF a
  <2>7. Next2 = Turn2
    BY <1>1, <1>2, <1>3, <2>5, <2>6
  <2>8. Next3 = Turn3 /\ Next4 = Turn4 /\ Next5 = Turn5 /\ Next6 = Turn6
    BY <1>2, <2>4, <2>5, <2>7
  <2>9. QED
    BY <1>2, <1>4, <2>1, <2>3, <2>4, <2>5, <2>7, <2>8
<1>15. CASE Join
  BY <1>7, <1>15 DEF Join
<1>16. ASSUME NEW w \in RaftThreads, w[1] = "stage0", Produce(w) \/ Send(w) PROVE w = Stage0
  BY <1>16, FilterThreads
<1>17. ASSUME NEW w \in RaftThreads, w[1] # "stage0", Take(w) PROVE w = Sorter \/ w = Second
  BY <1>17, FilterThreads DEF Take
<1>18. ASSUME NEW w \in RaftThreads, w[1] # "stage0", PushHeld(w, "pop") PROVE w = Sorter \/ w = Second
  <2>1. pc[w] = "push" /\ w \in Workers \ {Main}
    BY <1>0, <1>18, RaftQueues DEF PushHeld
  <2>2. w[1] \in {"stage1", "stage2"}
    BY <1>0, <2>1 DEF LabelsFit, LabelFor
  <2>3. QED
    BY <1>18, <2>2, FilterThreads
<1>19. ASSUME NEW w \in RaftThreads, w[1] # "stage0", Absorb(w) PROVE w = Last
  BY <1>19, FilterThreads DEF Absorb
<1>20. ASSUME NEW w \in RaftThreads, PushMistake(w) PROVE FALSE
  <2>1. pc[w] = "mistake" /\ w \in Workers \ {Main}
    BY <1>0, <1>20, RaftQueues DEF PushMistake
  <2>2. QED
    BY <1>0, <2>1 DEF LabelsFit, LabelFor
<1>21. ASSUME NEW w, Inspect(w) \/ RunsDry(w) PROVE UNCHANGED <<queues, held, handled, received>>
  BY <1>21 DEF Inspect, RunsDry
<1>22. CASE UNCHANGED vars
  BY <1>7, <1>22 DEF vars
<1> HIDE DEF Goal
<1>23. ASSUME NEW w \in RaftThreads, w[1] = "stage0", Produce(w) \/ Send(w) PROVE Goal
  BY <1>8, <1>9, <1>16, <1>23
<1>24. ASSUME NEW w \in RaftThreads, w[1] # "stage0",
              \/ Take(w) \/ Inspect(w) \/ PushMistake(w) \/ PushHeld(w, "pop") \/ Absorb(w) \/ RunsDry(w)
       PROVE  Goal
  BY <1>7, <1>10, <1>11, <1>12, <1>13, <1>14, <1>17, <1>18, <1>19, <1>20, <1>21, <1>24
<1>25. QED
  BY <1>0, <1>15, <1>22, <1>23, <1>24, Cases

\* Where the packets are: the invariant behind the first theorem.
Placed ==
  /\ TypeOK /\ LabelsFit
  /\ ~Raft => Once
  /\ setup.app = "rl_fir" => Sampling

LEMMA InitPlaced == Init => Placed
BY InitTyped, InitFits, InitOnce, InitSampling DEF Placed

LEMMA StepPlaced ==
  ASSUME Placed, [Next]_vars
  PROVE  Placed'
<1>1. TypeOK' /\ LabelsFit'
  BY StepTyped, StepFits DEF Placed
<1>2. setup' = setup
  BY SetupStays DEF Placed
<1>3. (~Raft => Once)'
  BY <1>2, StepOnce, SameSetup DEF Placed
<1>4. (setup.app = "rl_fir" => Sampling)'
  BY <1>2, StepSampling DEF Placed
<1>5. QED
  BY <1>1, <1>3, <1>4 DEF Placed

LEMMA PlacedOnce ==
  ASSUME Placed
  PROVE  EachPacketOnce
<1>1. CASE setup.app = "rl_fir"
  BY <1>1, ChainInTurn DEF Placed, EachPacketOnce
<1>2. CASE setup.app # "rl_fir" /\ ~Raft
  <2>1. Once
    BY <1>2 DEF Placed
  <2>2. Occupied \subseteq Places
    BY DEF Occupied
  <2>3. QED
    BY <1>2, <2>1, <2>2 DEF Once, EachPacketOnce
<1>3. CASE setup.app # "rl_fir" /\ Raft
  BY <1>3 DEF EachPacketOnce
<1>4. QED
  BY <1>1, <1>2, <1>3

LEMMA AlwaysPlaced == Spec => []Placed
<1>1. QED
  BY InitPlaced, StepPlaced, PTL DEF Spec

\* No packet is ever in two places: main sends again only what came back, and
\* every thread passes on what it popped (firewall.cpp, pipeline.cpp); and the
\* samples of rl_fir stay in order (EachPacketOnce), however long the pool, the
\* bulk and the queues are.
THEOREM PacketsOnce == Spec => []EachPacketOnce
<1>1. QED
  BY AlwaysPlaced, PlacedOnce, PTL

-----------------------------------------------------------------------------
(* Every so many packets is spoilt.                                        *)

LEMMA Digits ==
  ASSUME NEW k \in Nat \ {0}, NEW s \in Nat
  PROVE  s \div k \in Nat /\ s % k \in 0 .. k - 1 /\ s = (s % k) + (s \div k) * k
OBVIOUS

LEMMA NotAhead ==
  ASSUME NEW k \in Nat \ {0}, NEW a \in 0 .. k - 1, NEW c \in 0 .. k - 1,
         NEW b \in Nat, NEW d \in Nat, a + b * k = c + d * k
  PROVE  b <= d
<1>1. SUFFICES ASSUME b >= d + 1 PROVE FALSE
  OBVIOUS
<1>2. (b - (d + 1)) * k \in Nat
  BY <1>1
<1>3. b * k = (b - (d + 1)) * k + d * k + k
  OBVIOUS
<1>4. d * k \in Nat /\ b * k \in Nat
  OBVIOUS
<1>5. QED
  BY <1>2, <1>3, <1>4

LEMMA OfDigits ==
  ASSUME NEW k \in Nat \ {0}, NEW a \in 0 .. k - 1, NEW b \in Nat
  PROVE  /\ a + b * k \in Nat
         /\ (a + b * k) \div k = b /\ (a + b * k) % k = a
<1> DEFINE s == a + b * k
<1> DEFINE c == s % k
<1> DEFINE d == s \div k
<1>1. b * k \in Nat /\ s \in Nat
  <2>1. b * k \in Nat
    OBVIOUS
  <2>2. QED
    BY <2>1
<1>2. d \in Nat /\ c \in 0 .. k - 1 /\ s = c + d * k
  BY <1>1, Digits
<1>3. a + b * k = c + d * k /\ c + d * k = a + b * k
  BY <1>2
<1> HIDE DEF c, d
<1>4. b <= d /\ d <= b
  BY <1>2, <1>3, NotAhead
<1>5. b = d
  BY <1>2, <1>4
<1>6. a = c
  <2>1. a + b * k = c + b * k
    BY <1>3, <1>5
  <2> DEFINE y == b * k
  <2>2. y \in Nat /\ a + y = c + y
    BY <1>1, <2>1
  <2> HIDE DEF y
  <2>3. QED
    BY <1>2, <2>2
<1>7. QED
  BY <1>1, <1>5, <1>6 DEF c, d

\* A multiple added leaves the rest as it is.
LEMMA Shift ==
  ASSUME NEW d \in Nat \ {0}, NEW x \in Nat, NEW m \in Nat, m % d = 0
  PROVE  (x + m) % d = x % d /\ (x + m) \div d = (x \div d) + (m \div d)
<1> DEFINE M(a) == a % d
<1> DEFINE D(a) == a \div d
<1>1. PICK r \in 0 .. d - 1, q \in Nat : r = M(x) /\ q = D(x) /\ x = r + q * d
  <2>1. D(x) \in Nat /\ M(x) \in 0 .. d - 1 /\ x = M(x) + D(x) * d
    BY Digits
  <2> HIDE DEF M, D
  <2>2. QED
    BY <2>1
<1>2. PICK p \in Nat : p = D(m) /\ m = p * d
  <2>1. m \div d \in Nat /\ m = (m % d) + (m \div d) * d
    BY Digits
  <2> DEFINE p == m \div d
  <2>2. p \in Nat /\ m = 0 + p * d
    BY <2>1
  <2>3. p * d \in Int
    BY <2>2
  <2>4. m = p * d
    BY <2>2, <2>3
  <2>5. QED
    BY <2>2, <2>4
<1>3. x + m = r + (q + p) * d
  <2>1. (q + p) * d = q * d + p * d
    OBVIOUS
  <2>2. q * d \in Nat /\ p * d \in Nat
    OBVIOUS
  <2> DEFINE y == q * d
  <2> DEFINE z == p * d
  <2>3. (q + p) * d = y + z /\ x = r + y /\ m = z /\ y \in Nat /\ z \in Nat
    BY <1>1, <1>2, <2>1, <2>2
  <2> HIDE DEF y, z
  <2>4. QED
    BY <2>3
<1>4. M(r + (q + p) * d) = r /\ D(r + (q + p) * d) = q + p
  <2>1. d \in Nat \ {0} /\ r \in 0 .. d - 1 /\ q + p \in Nat
    OBVIOUS
  <2>2. QED
    BY ONLY <2>1, OfDigits
<1>5. M(x + m) = M(x) /\ D(x + m) = D(x) + D(m)
  <2> HIDE DEF M, D
  <2>1. QED
    BY <1>1, <1>2, <1>3, <1>4
<1>6. QED
  BY <1>5

LEMMA SomeMultiple == BadEvery - 1 \in Nat /\ \A n \in Nat : Multiples(n) \in Nat
<1>1. BadEvery \in Nat \ {0}
  BY DEF NetworkAssumption
<1>2. SUFFICES ASSUME NEW n \in Nat PROVE Multiples(n) \in Nat
  BY <1>1
<1>3. n + BadEvery - 1 \in Nat
  BY <1>1
<1>4. QED
  BY <1>1, <1>3, Digits DEF Multiples

\* Among a bulk of packets at most one is a mistake.
LEMMA MultiplesGrow ==
  ASSUME NEW s \in Nat, NEW n \in 1 .. BadEvery
  PROVE  LET hits == {i \in 1 .. n : (s + i - 1) % BadEvery = 0}
         IN  Cardinality(hits) \in {0, 1} /\ Multiples(s + n) = Multiples(s) + Cardinality(hits)
<1> DEFINE d == BadEvery
<1> DEFINE M(a) == a % d
<1> DEFINE D(a) == a \div d
<1> DEFINE hits == {i \in 1 .. n : M(s + i - 1) = 0}
<1>1. d \in Nat \ {0} /\ n \in Nat /\ n >= 1 /\ n <= d
  BY DEF NetworkAssumption
<1>2. PICK r \in 0 .. d - 1, q \in Nat : s = r + q * d
  BY <1>1, Digits
<1>3. Multiples(s) = D(s + d - 1) /\ Multiples(s + n) = D(s + n + d - 1)
  BY DEF Multiples
<1> HIDE DEF d
<1>4. PICK y \in Nat : y = q * d /\ (q + 1) * d = y + d /\ (q + 2) * d = y + d + d /\ s = r + y
  <2>1. q * d \in Nat
    BY <1>1, <1>2
  <2>2. (q + 1) * d = q * d + d
    BY <1>1, <1>2
  <2>3. (q + 2) * d = q * d + d + d
    BY <1>1, <1>2
  <2>4. QED
    BY <1>2, <2>1, <2>2, <2>3
<1>5. \A a \in 0 .. d - 1 :
        /\ M(a + y) = a /\ D(a + y) = q
        /\ M(a + (y + d)) = a /\ D(a + (y + d)) = q + 1
        /\ M(a + (y + d + d)) = a /\ D(a + (y + d + d)) = q + 2
  <2>1. ASSUME NEW a \in 0 .. d - 1, NEW b \in Nat PROVE M(a + b * d) = a /\ D(a + b * d) = b
    <3>1. d \in Nat \ {0}
      BY <1>1
    <3>2. QED
      BY ONLY <3>1, OfDigits
  <2>2. q \in Nat /\ q + 1 \in Nat /\ q + 2 \in Nat
    BY <1>2
  <2>3. ASSUME NEW a \in 0 .. d - 1
        PROVE  /\ M(a + q * d) = a /\ D(a + q * d) = q
               /\ M(a + (q + 1) * d) = a /\ D(a + (q + 1) * d) = q + 1
               /\ M(a + (q + 2) * d) = a /\ D(a + (q + 2) * d) = q + 2
    <3> HIDE DEF M, D
    <3>1. QED
      BY <2>1, <2>2
  <2> HIDE DEF M, D
  <2>4. QED
    BY <1>4, <2>3
<1> HIDE DEF M, D
<1>6. \A u \in Int : Cardinality({u}) = 1
  BY FS_Singleton
<1>7. Cardinality({}) = 0
  BY FS_EmptySet
<1> DEFINE c == Cardinality(hits)
<1> DEFINE Goal == c \in {0, 1} /\ Multiples(s + n) = Multiples(s) + c
<1>8. ASSUME r = 0 PROVE Goal
  <2>0. q \in Int
    BY <1>2
  <2>1. s + d - 1 = (d - 1) + y /\ d - 1 \in 0 .. d - 1
    BY <1>1, <1>4, <1>8
  <2>2. Multiples(s) = q
    BY <1>2, <1>3, <1>5, <2>1
  <2>3. s + n + d - 1 = (n - 1) + (y + d) /\ n - 1 \in 0 .. d - 1
    BY <1>1, <1>4, <1>8
  <2>4. Multiples(s + n) = q + 1
    BY <1>3, <1>5, <2>3
  <2>5. \A i \in 1 .. n : M(s + i - 1) = i - 1
    <3>1. TAKE i \in 1 .. n
    <3>2. s + i - 1 = (i - 1) + y /\ i - 1 \in 0 .. d - 1
      BY <1>1, <1>4, <1>8
    <3>3. QED
      BY <1>2, <1>5, <3>2
  <2>6. \A i \in 1 .. n : M(s + i - 1) = 0 <=> i = 1
    <3>1. TAKE i \in 1 .. n
    <3>2. M(s + i - 1) = i - 1 /\ i \in Nat
      BY <1>1, <2>5
    <3>3. QED
      BY ONLY <3>2
  <2>7. hits = {1}
    <3>1. 1 \in 1 .. n
      BY <1>1
    <3>2. QED
      BY ONLY <2>6, <3>1
  <2>8. c = 1
    <3>1. Cardinality({1}) = 1
      BY <1>6
    <3>2. QED
      BY ONLY <2>7, <3>1
  <2> HIDE DEF c
  <2>9. QED
    BY ONLY <2>0, <2>2, <2>4, <2>8
<1>9. ASSUME r # 0 PROVE Goal
  <2>0. r \in 1 .. d - 1 /\ q + 1 \in Nat
    BY <1>1, <1>2, <1>9
  <2>1. s + d - 1 = (r - 1) + (y + d) /\ r - 1 \in 0 .. d - 1
    BY <1>1, <1>4, <2>0
  <2>2. Multiples(s) = q + 1
    BY <1>3, <1>5, <2>1
  <2>3. \A i \in 1 .. n : M(s + i - 1) = IF i <= d - r THEN r + i - 1 ELSE r + i - 1 - d
    <3>1. TAKE i \in 1 .. n
    <3>2. CASE i <= d - r
      <4>1. s + i - 1 = (r + i - 1) + y /\ r + i - 1 \in 0 .. d - 1
        BY <1>1, <1>4, <2>0, <3>2
      <4>2. QED
        BY <1>2, <1>5, <3>2, <4>1
    <3>3. CASE ~(i <= d - r)
      <4>1. s + i - 1 = (r + i - 1 - d) + (y + d) /\ r + i - 1 - d \in 0 .. d - 1
        BY <1>1, <1>4, <2>0, <3>3
      <4>2. QED
        BY <1>5, <2>1, <3>3, <4>1
    <3>4. QED
      BY <3>2, <3>3
  <2>4. \A i \in 1 .. n : M(s + i - 1) = 0 <=> i = d - r + 1
    <3>1. TAKE i \in 1 .. n
    <3>2. M(s + i - 1) = (IF i <= d - r THEN r + i - 1 ELSE r + i - 1 - d) /\ i \in Nat /\ i >= 1
      BY <1>1, <2>3
    <3>3. QED
      BY ONLY <1>1, <2>0, <3>2
  <2>5. CASE n <= d - r
    <3>1. hits = {}
      <4>1. \A i \in 1 .. n : i # d - r + 1
        BY ONLY <1>1, <2>0, <2>5
      <4>2. QED
        BY ONLY <2>4, <4>1
    <3>2. s + n + d - 1 = (r + n - 1) + (y + d) /\ r + n - 1 \in 0 .. d - 1
      BY <1>1, <1>4, <2>0, <2>5
    <3>3. Multiples(s + n) = q + 1
      BY <1>3, <1>5, <2>1, <3>2
    <3>4. c = 0
      BY <1>7, <3>1
    <3> HIDE DEF c
    <3>5. QED
      BY ONLY <2>0, <2>2, <3>3, <3>4
  <2>6. CASE ~(n <= d - r)
    <3>0. d - r + 1 \in 1 .. n
      BY <1>1, <2>0, <2>6
    <3>1. hits = {d - r + 1}
      BY <2>4, <3>0
    <3>2. s + n + d - 1 = (r + n - 1 - d) + (y + d + d) /\ r + n - 1 - d \in 0 .. d - 1
      BY <1>1, <1>4, <2>0, <2>6
    <3>3. Multiples(s + n) = q + 2
      BY <1>3, <1>5, <2>1, <3>2
    <3>4. c = 1
      BY <1>6, <3>0, <3>1
    <3>5. q + 2 = q + 1 + 1
      BY <1>2
    <3> HIDE DEF c
    <3>6. QED
      BY ONLY <2>2, <3>3, <3>4, <3>5
  <2>7. QED
    BY <2>5, <2>6
<1>10. Goal
  BY <1>8, <1>9
<1>11. QED
  BY <1>10 DEF d, M

-----------------------------------------------------------------------------
(* The firewall's mistakes.  Main numbers the packets it sends, the pool     *)
(* first; Sent counts them, Sorted those that stage 1 has taken.  A packet   *)
(* on its way to stage 1 is spoilt if its number is a multiple of BadEvery.  *)
(* CAF's push breaks the numbering: it sends packets with old headers.       *)
HIDE NetworkAssumption

Numbered == setup.app = "firewall" /\ ~setup.caf
Extra    == (setup.numPackets - PoolSize) % Word
Sent     == PoolSize + Extra - toSend
Sorted   == Sent - Len(queues["q01"]) - Len(held[Main])

Marked(packets, first) ==
  \A i \in DOMAIN packets : packets[i] \in bad <=> (first + i - 1) % BadEvery = 0

MarksRight ==
  /\ toSend <= Extra /\ Sorted \in Nat
  /\ toSend > 0 => received + PoolSize = Sent
  /\ Marked(queues["q01"], Sorted)
  /\ Marked(held[Main], Sorted + Len(queues["q01"]))

Found == handled[Mistake] + Len(queues["q1m"]) + Len(gathered)

\* All mistakes among the packets taken have been gathered, a bulk at most.
Gathered ==
  /\ Found = Multiples(Sorted)
  /\ Len(gathered) <= Bulk
  /\ pc[Sorter] \in {"pop", "check"} => Len(gathered) < Bulk

Numbers == Extra \in Nat /\ Sent \in Int /\ Sorted \in Int

LEMMA Counts ==
  ASSUME TypeOK
  PROVE  /\ PoolSize \in Nat \ {0} /\ Bulk \in Nat \ {0} /\ BadEvery \in Nat \ {0} /\ Word \in Nat \ {0}
         /\ setup.app = "firewall" => Bulk <= BadEvery /\ PoolSize % BadEvery = 0
         /\ setup.numPackets \in 1 .. Word - 1 /\ setup.capacity \in Nat
         /\ toSend \in Nat /\ received \in Nat /\ \A w \in Workers : handled[w] \in Nat
         /\ \A q \in QueueNames : queues[q] \in Seq(Packets) /\ Len(queues[q]) \in Nat
         /\ \A w \in Workers : held[w] \in Seq(Packets) /\ Len(held[w]) \in Nat
         /\ gathered \in Seq(Packets) /\ Len(gathered) \in Nat
<1>1. setup \in Setups
  BY DEF TypeOK
<1>2. /\ PoolSize \in Nat \ {0} /\ Bulk \in Nat \ {0} /\ BadEvery \in Nat \ {0} /\ Word \in Nat \ {0}
      /\ setup.app = "firewall" => Bulk <= BadEvery /\ PoolSize % BadEvery = 0
      /\ setup.numPackets \in 1 .. Word - 1 /\ setup.capacity \in Nat
  BY <1>1, NetworkAssumption
<1>3. QED
  BY <1>2 DEF TypeOK

LEMMA InPlace ==
  /\ {"q01", "q1c", "q1m", "qp0", "q12", "q23", "q30"} \subseteq QueueNames
  /\ Main \in Workers /\ Sorter \in Workers /\ Correct \in Workers /\ Mistake \in Workers
  /\ Stage0 \in Workers
BY Workforce DEF QueueNames

LEMMA SentNumbers ==
  ASSUME TypeOK
  PROVE  Numbers
<1>1. setup.numPackets - PoolSize \in Int /\ Word \in Nat \ {0}
  BY Counts
<1>2. Extra \in Nat
  BY <1>1 DEF Extra
<1>3. /\ PoolSize \in Nat /\ toSend \in Nat
      /\ Len(queues["q01"]) \in Nat /\ Len(held[Main]) \in Nat
  BY Counts, InPlace
<1>4. QED
  BY <1>2, <1>3 DEF Numbers, Sent, Sorted

\* Nothing that the numbering depends on has changed.
Apart ==
  /\ queues'["q01"] = queues["q01"] /\ held'[Main] = held[Main]
  /\ UNCHANGED <<setup, bad, toSend, received>>

LEMMA MarksStay ==
  ASSUME MarksRight, Apart
  PROVE  MarksRight' /\ Sorted' = Sorted
<1>1. Extra' = Extra /\ Sent' = Sent /\ Sorted' = Sorted
  BY DEF Apart, Extra, Sent, Sorted
<1>2. QED
  BY <1>1 DEF MarksRight, Marked, Apart

LEMMA InitMarks ==
  ASSUME Init, Numbered
  PROVE  MarksRight /\ Gathered
<1>1. TypeOK /\ ~Raft /\ setup.app = "firewall"
  BY InitTyped, Apps DEF Numbered
<1>2. /\ queues["q01"] = <<>> /\ queues["q1m"] = <<>> /\ gathered = <<>> /\ handled[Mistake] = 0
      /\ held[Main] = [p \in Packets |-> p] /\ toSend = Extra /\ received = 0
      /\ bad = {p \in Packets : (p - 1) % BadEvery = 0}
  BY <1>1, InPlace DEF Init, Extra
<1>3. Extra \in Nat /\ PoolSize \in Nat \ {0} /\ BadEvery \in Nat \ {0} /\ Bulk \in Nat \ {0}
  BY <1>1, SentNumbers, Counts DEF Numbers
<1>4. Len(held[Main]) = PoolSize /\ DOMAIN held[Main] = Packets /\ Len(<<>>) = 0
  <2>1. DOMAIN held[Main] = 1 .. PoolSize
    BY <1>2 DEF Packets
  <2>2. Len(held[Main]) \in Nat /\ DOMAIN held[Main] = 1 .. Len(held[Main])
    BY <1>1, Counts, InPlace
  <2>3. QED
    BY <1>3, <2>1, <2>2 DEF Packets
<1>5. Sent = PoolSize /\ Sorted = 0
  BY <1>2, <1>3, <1>4 DEF Sent, Sorted
<1>6. Marked(queues["q01"], Sorted)
  BY <1>2 DEF Marked
<1>7. Marked(held[Main], Sorted + Len(queues["q01"]))
  <2>1. \A p \in Packets : held[Main][p] = p /\ 0 + 0 + p - 1 = p - 1
    BY <1>2, <1>3 DEF Packets
  <2>2. Sorted + Len(queues["q01"]) = 0 + 0
    BY <1>2, <1>4, <1>5
  <2>3. \A p \in Packets : held[Main][p] \in bad <=> (p - 1) % BadEvery = 0
    BY <1>2, <2>1
  <2>4. \A p \in Packets : held[Main][p] \in bad <=> (0 + 0 + p - 1) % BadEvery = 0
    BY <2>1, <2>3
  <2>5. QED
    BY <1>4, <2>2, <2>4 DEF Marked
<1>8. MarksRight
  BY <1>2, <1>3, <1>5, <1>6, <1>7 DEF MarksRight
<1>9. Multiples(0) = 0
  <2>1. BadEvery - 1 \in 0 .. BadEvery - 1 /\ 0 \in Nat
    BY <1>3
  <2>2. ((BadEvery - 1) + 0 * BadEvery) \div BadEvery = 0
    BY ONLY <1>3, <2>1, OfDigits
  <2>3. 0 + BadEvery - 1 = (BadEvery - 1) + 0 * BadEvery
    BY <1>3
  <2>4. QED
    BY <2>2, <2>3 DEF Multiples
<1>10. Gathered
  BY <1>2, <1>3, <1>4, <1>5, <1>9 DEF Gathered, Found
<1>11. QED
  BY <1>8, <1>10

\* Main passes the first of the packets it holds to stage 1.
MainPushes ==
  /\ Push(Main, held[Main], "q01")
  /\ held' = [held EXCEPT ![Main] = Tail(@)]
  /\ UNCHANGED <<toSend, received>>

LEMMA MarksMove ==
  ASSUME TypeOK, MarksRight, MainPushes
  PROVE  /\ MarksRight' /\ Sorted' = Sorted
         /\ \A q \in QueueNames \ {"q01"} : queues'[q] = queues[q]
         /\ \A w \in Workers \ {Main} : held'[w] = held[w]
         /\ setup' = setup
         /\ Len(queues'["q01"]) = Len(queues["q01"]) + 1 /\ Len(held'[Main]) = Len(held[Main]) - 1
<1> DEFINE from == held[Main]
<1> DEFINE q == queues["q01"]
<1>1. from \in Seq(Packets) /\ q \in Seq(Packets) /\ Len(from) \in Nat /\ Len(q) \in Nat
  BY Counts, InPlace
<1>2. /\ Len(Tail(from)) = Len(from) - 1 /\ Len(from) >= 1 /\ Tail(from) \in Seq(Packets)
      /\ \A i \in 1 .. Len(from) - 1 : Tail(from)[i] = from[i + 1]
      /\ Append(q, Head(from)) \in Seq(Packets) /\ Len(Append(q, Head(from))) = Len(q) + 1
      /\ \A i \in 1 .. Len(q) : Append(q, Head(from))[i] = q[i]
      /\ Append(q, Head(from))[Len(q) + 1] = from[1]
      /\ queues' = [queues EXCEPT !["q01"] = Append(q, Head(from))]
      /\ UNCHANGED <<setup, bad, done>>
  BY <1>1, InPlace, PushEffect DEF MainPushes
<1>3. /\ queues'["q01"] = Append(q, Head(from)) /\ held'[Main] = Tail(from)
      /\ \A r \in QueueNames \ {"q01"} : queues'[r] = queues[r]
      /\ \A w \in Workers \ {Main} : held'[w] = held[w]
  BY <1>2, InPlace DEF MainPushes, TypeOK
<1>4. /\ Extra' = Extra /\ Sent' = Sent /\ UNCHANGED <<toSend, received>>
  BY <1>2 DEF Extra, Sent, MainPushes
<1>5. Extra \in Nat /\ Sent \in Int /\ Sorted \in Nat /\ Sorted = Sent - Len(q) - Len(from)
  BY SentNumbers DEF MarksRight, Numbers, Sorted
<1>6. Sorted' = Sent' - Len(queues'["q01"]) - Len(held'[Main])
  BY DEF Sorted
<1> DEFINE a == Append(q, Head(from))
<1> DEFINE b == Tail(from)
<1>7. /\ \A i \in 1 .. Len(q) : q[i] \in bad <=> (Sorted + i - 1) % BadEvery = 0
      /\ \A i \in 1 .. Len(from) : from[i] \in bad <=> (Sorted + Len(q) + i - 1) % BadEvery = 0
  <2>1. DOMAIN q = 1 .. Len(q) /\ DOMAIN from = 1 .. Len(from)
    BY <1>1
  <2>2. /\ \A i \in DOMAIN q : q[i] \in bad <=> (Sorted + i - 1) % BadEvery = 0
        /\ \A i \in DOMAIN from : from[i] \in bad <=> (Sorted + Len(q) + i - 1) % BadEvery = 0
    BY DEF MarksRight, Marked
  <2> HIDE DEF q, from
  <2>3. QED
    BY ONLY <2>1, <2>2
<1>8. DOMAIN a = 1 .. Len(a) /\ DOMAIN b = 1 .. Len(b)
  BY <1>2
<1> HIDE DEF from, q, a, b
<1>9. Sorted' = Sorted
  <2>1. Len(queues'["q01"]) = Len(q) + 1 /\ Len(held'[Main]) = Len(from) - 1
    BY <1>2, <1>3 DEF a, b
  <2>2. QED
    BY <1>1, <1>4, <1>5, <1>6, <2>1
<1>10. \A i \in 1 .. Len(a) : a[i] \in bad <=> (Sorted + i - 1) % BadEvery = 0
  <2>1. TAKE i \in 1 .. Len(a)
  <2>2. CASE i \in 1 .. Len(q)
    BY <1>2, <1>7, <2>2 DEF a
  <2>3. CASE i = Len(q) + 1
    <3>1. 1 \in 1 .. Len(from) /\ Sorted + Len(q) + 1 - 1 = Sorted + i - 1
      BY <1>1, <1>2, <1>5, <2>3
    <3>2. a[i] = from[1]
      BY <1>2, <2>3 DEF a
    <3>3. QED
      BY <1>7, <3>1, <3>2
  <2>4. i \in 1 .. Len(q) \/ i = Len(q) + 1
    BY <1>1, <1>2, <2>1 DEF a
  <2>5. QED
    BY <2>2, <2>3, <2>4
<1>11. \A i \in 1 .. Len(b) : b[i] \in bad <=> (Sorted + Len(a) + i - 1) % BadEvery = 0
  <2>1. TAKE i \in 1 .. Len(b)
  <2>2. i \in 1 .. Len(from) - 1 /\ i + 1 \in 1 .. Len(from)
        /\ Sorted + Len(q) + (i + 1) - 1 = Sorted + Len(a) + i - 1
    BY <1>1, <1>2, <1>5, <2>1 DEF a, b
  <2>3. b[i] = from[i + 1]
    BY <1>2, <2>2 DEF b
  <2>4. QED
    BY <1>7, <2>2, <2>3
<1>12. queues'["q01"] = a /\ held'[Main] = b /\ bad' = bad
  BY <1>2, <1>3 DEF a, b
<1>13. Marked(queues["q01"], Sorted)' /\ Marked(held[Main], Sorted + Len(queues["q01"]))'
  BY <1>8, <1>9, <1>10, <1>11, <1>12 DEF Marked
<1>14. toSend' <= Extra' /\ (toSend' > 0 => received' + PoolSize = Sent')
  BY <1>4 DEF MarksRight
<1>15. MarksRight' /\ Sorted' = Sorted
  BY <1>5, <1>9, <1>13, <1>14 DEF MarksRight
<1>16. QED
  BY <1>2, <1>3, <1>15 DEF from, q, a, b

\* Packets come back to main: those that are sent again get new numbers.
Recycled(n) ==
  /\ Pop(Main, n)
  /\ held' = [held EXCEPT ![Main] = SubSeq(Popped(Main, n), 1, Again(n))]
  /\ bad' = Remark(SubSeq(Popped(Main, n), 1, Again(n)))
  /\ toSend' = toSend - Again(n)
  /\ received' = received + n

LEMMA RecycleNumbered ==
  ASSUME Numbered, Recycle
  PROVE  \E n \in 1 .. Bulk :
           Recycled(n) /\ \E l : Goto(Main, l) /\ UNCHANGED <<gathered, polls, found, handled>>
BY DEF Numbered, Recycle, Recycled

LEMMA MarksRecycled ==
  ASSUME TypeOK, LabelsFit, Once, Numbered, MarksRight, NEW n \in 1 .. Bulk, Recycled(n)
  PROVE  /\ MarksRight' /\ Sorted' = Sorted
         /\ \A q \in QueueNames \ {"qp0"} : queues'[q] = queues[q]
         /\ \A w \in Workers \ {Main} : held'[w] = held[w]
         /\ setup' = setup
<1> DEFINE m == Again(n)
<1> DEFINE back == Popped(Main, n)
<1> DEFINE again == SubSeq(back, 1, m)
<1> DEFINE q == queues["q01"]
<1>0. /\ setup.app = "firewall" /\ ~Raft /\ In(Main) = "qp0" /\ n \in Nat /\ Bulk \in Nat
      /\ n \in 1 .. Bulk
  BY FirewallQueues, Apps, Counts DEF Numbered
<1>1. /\ back \in Seq(Packets) /\ Len(back) = n
      /\ \A i \in 1 .. n : back[i] = queues["qp0"][i]
      /\ n \in 1 .. Len(queues["qp0"]) /\ pc[Main] = "pop"
      /\ queues' = [queues EXCEPT !["qp0"] = SubSeq(queues["qp0"], n + 1, Len(queues["qp0"]))]
  <2>1. Pop(Main, n) /\ In(Main) \in QueueNames /\ Main \in Workers
    BY <1>0, InPlace DEF Recycled
  <2>2. /\ back \in Seq(Packets) /\ Len(back) = n
        /\ \A i \in 1 .. n : back[i] = queues[In(Main)][i]
        /\ n \in 1 .. Len(queues[In(Main)]) /\ pc[Main] = "pop"
        /\ queues' = [queues EXCEPT ![In(Main)] =
                        SubSeq(queues[In(Main)], n + 1, Len(queues[In(Main)]))]
    BY <1>0, <2>1, PopEffect
  <2> HIDE DEF back
  <2>3. QED
    BY <1>0, <2>2
<1>2. m \in 0 .. n /\ m <= toSend /\ (toSend > m => m = n)
  <2>1. toSend \in Nat
    BY Counts
  <2>2. QED
    BY <1>0, <2>1 DEF Again, Least
<1>3. held[Main] = <<>>
  BY <1>1, InPlace DEF LabelsFit, HeldFor
<1>4. again \in Seq(Packets) /\ Len(again) = m /\ \A i \in 1 .. m : again[i] = queues["qp0"][i]
  <2>1. m \in 0 .. Len(back)
    BY <1>1, <1>2
  <2> HIDE DEF back, m
  <2>2. again \in Seq(Packets) /\ Len(again) = m /\ \A i \in 1 .. m : again[i] = back[i]
    BY <1>1, <2>1, Cut
  <2>3. QED
    BY <1>0, <1>1, <1>2, <2>2
<1>5. /\ held'[Main] = again /\ toSend' = toSend - m /\ received' = received + n
      /\ bad' = Remark(again) /\ queues'["q01"] = q /\ setup' = setup
      /\ \A r \in QueueNames \ {"qp0"} : queues'[r] = queues[r]
      /\ \A w \in Workers \ {Main} : held'[w] = held[w]
  BY <1>1, InPlace DEF Recycled, TypeOK, Pop
<1>6. /\ toSend \in Nat /\ received \in Nat /\ PoolSize \in Nat \ {0} /\ BadEvery \in Nat \ {0}
      /\ PoolSize % BadEvery = 0 /\ q \in Seq(Packets) /\ Len(q) \in Nat /\ Len(<<>>) = 0
  BY <1>0, Counts, InPlace
<1>7. /\ Extra \in Nat /\ Sent \in Int /\ Sorted \in Nat /\ Sorted = Sent - Len(q) - Len(held[Main])
      /\ toSend <= Extra /\ (toSend > 0 => received + PoolSize = Sent)
  BY SentNumbers DEF MarksRight, Numbers, Sorted
<1>8. Extra' = Extra /\ Sent' = Sent + m /\ Sorted' = Sorted
  <2>1. Extra' = Extra
    BY <1>5 DEF Extra
  <2>2. Sent = PoolSize + Extra - toSend /\ Sent' = PoolSize + Extra' - toSend'
    BY DEF Sent
  <2>3. Sorted' = Sent' - Len(queues'["q01"]) - Len(held'[Main])
    BY DEF Sorted
  <2>4. Len(held[Main]) = 0 /\ Len(held'[Main]) = m
    BY <1>3, <1>4, <1>5
  <2> HIDE DEF m, q, again
  <2>5. Sent' = Sent + m
    BY <1>2, <1>5, <1>6, <1>7, <2>1, <2>2
  <2>6. Sorted = Sent - Len(q) /\ Sorted' = Sent' - Len(q) - m
    BY <1>5, <1>6, <1>7, <2>3, <2>4
  <2>7. m \in Int /\ Sent \in Int /\ Len(q) \in Int
    BY <1>0, <1>2, <1>6, <1>7
  <2>8. Sorted' = Sorted
    BY ONLY <2>5, <2>6, <2>7
  <2>9. QED
    BY <2>1, <2>5, <2>8
<1>9. \A i \in 1 .. Len(q) : q[i] \notin {again[j] : j \in DOMAIN again}
  <2>1. SUFFICES ASSUME NEW i \in 1 .. Len(q), NEW j \in DOMAIN again, q[i] = again[j] PROVE FALSE
    OBVIOUS
  <2> DEFINE a == <<"queue", "q01">>
  <2> DEFINE b == <<"queue", "qp0">>
  <2>2. a \in Places /\ b \in Places /\ At(a) = q /\ At(b) = queues["qp0"] /\ a # b
    BY InPlace DEF Places, At
  <2>3. j \in 1 .. m /\ again[j] = queues["qp0"][j] /\ j \in DOMAIN queues["qp0"] /\ i \in DOMAIN q
    <3>1. j \in 1 .. m /\ again[j] = queues["qp0"][j]
      BY <1>4
    <3>2. queues["qp0"] \in Seq(Packets)
      BY Counts, InPlace
    <3>3. j \in 1 .. Len(queues["qp0"])
      BY <1>0, <1>1, <1>2, <3>1, <3>2
    <3>4. DOMAIN queues["qp0"] = 1 .. Len(queues["qp0"]) /\ DOMAIN q = 1 .. Len(q)
      BY <1>6, <3>2
    <3> HIDE DEF q, again, m
    <3>5. QED
      BY ONLY <2>1, <3>1, <3>3, <3>4
  <2>4. At(a)[i] = At(b)[j] /\ i \in DOMAIN At(a) /\ j \in DOMAIN At(b)
    BY <2>1, <2>2, <2>3
  <2>5. QED
    BY <2>2, <2>4 DEF Once
<1>10. \A i \in 1 .. Len(q) : q[i] \in bad' <=> q[i] \in bad
  BY <1>5, <1>9 DEF Remark
<1>11. Marked(queues["q01"], Sorted)'
  <2>1. DOMAIN q = 1 .. Len(q)
    BY <1>6
  <2>2. \A i \in DOMAIN q : q[i] \in bad <=> (Sorted + i - 1) % BadEvery = 0
    BY DEF MarksRight, Marked
  <2> HIDE DEF q
  <2>3. \A i \in DOMAIN q : q[i] \in bad' <=> (Sorted' + i - 1) % BadEvery = 0
    BY <1>8, <1>10, <2>1, <2>2
  <2>4. QED
    BY <1>5, <2>3 DEF Marked
<1>12. \A i \in 1 .. m : again[i] \in bad' <=> (received + i - 1) % BadEvery = 0
  <2>1. TAKE i \in 1 .. m
  <2>2. DOMAIN again = 1 .. m
    BY <1>4
  <2>3. \A j \in 1 .. m : again[i] = again[j] => i = j
    <3> DEFINE b == <<"queue", "qp0">>
    <3>1. b \in Places /\ At(b) = queues["qp0"]
      BY InPlace DEF Places, At
    <3>2. queues["qp0"] \in Seq(Packets)
      BY Counts, InPlace
    <3>3. \A j \in 1 .. m : j \in DOMAIN queues["qp0"]
      BY <1>0, <1>1, <1>2, <3>2
    <3>4. \A j \in 1 .. m : again[j] = queues["qp0"][j]
      BY <1>4
    <3> HIDE DEF again, m, b
    <3>5. QED
      BY <3>1, <3>3, <3>4 DEF Once
  <2>4. bad' = (bad \ {again[j] : j \in DOMAIN again})
                 \cup {again[j] : j \in {k \in DOMAIN again : (received + k - 1) % BadEvery = 0}}
    <3>1. setup.app = "firewall"
      BY DEF Numbered
    <3>2. \A k : Spoilt(k) <=> k % BadEvery = 0
      BY <3>1 DEF Spoilt
    <3> HIDE DEF again, m
    <3>3. QED
      BY <1>5, <3>2 DEF Remark
  <2> HIDE DEF again, m
  <2>5. QED
    BY <2>2, <2>3, <2>4
<1>13. Marked(held[Main], Sorted + Len(queues["q01"]))'
  <2>1. SUFFICES ASSUME NEW i \in 1 .. m
                 PROVE  again[i] \in bad' <=> (Sorted' + Len(q) + i - 1) % BadEvery = 0
    <3>1. DOMAIN again = 1 .. m
      BY <1>4
    <3> HIDE DEF m, q, again
    <3>2. QED
      BY <1>5, <3>1 DEF Marked
  <2>2. toSend > 0 /\ i \in 1 .. n
    BY <1>0, <1>2, <1>6
  <2> HIDE DEF m, q, again
  <2>3. Sorted' + Len(q) + i - 1 = (received + i - 1) + PoolSize /\ received + i - 1 \in Nat
    <3>1. Len(held[Main]) = 0
      BY <1>3, <1>6
    <3>2. QED
      BY <1>0, <1>6, <1>7, <1>8, <2>2, <3>1
  <2>4. ((received + i - 1) + PoolSize) % BadEvery = (received + i - 1) % BadEvery
    <3> DEFINE x == received + i - 1
    <3>1. x \in Nat /\ PoolSize \in Nat /\ BadEvery \in Nat \ {0} /\ PoolSize % BadEvery = 0
      BY <1>6, <2>3
    <3> HIDE DEF x
    <3>2. (x + PoolSize) % BadEvery = x % BadEvery
      BY ONLY <3>1, Shift
    <3>3. QED
      BY <3>2 DEF x
  <2>5. QED
    BY <1>12, <2>3, <2>4
<1>14. toSend' <= Extra' /\ (toSend' > 0 => received' + PoolSize = Sent')
  <2> HIDE DEF m
  <2>1. QED
    BY <1>0, <1>2, <1>5, <1>6, <1>7, <1>8
<1>15. QED
  BY <1>5, <1>7, <1>8, <1>11, <1>13, <1>14 DEF MarksRight

\* Stage 1 finds the mistakes by their numbers, one in a bulk.
LEMMA MarksSorted ==
  ASSUME TypeOK, Numbered, MarksRight, NEW n \in 1 .. Bulk, NEW mistakes, NEW good, NEW all,
         SortedInto(n, mistakes, good, all)
  PROVE  /\ MarksRight' /\ Sorted' = Sorted + n
         /\ Len(all) \in {0, 1} /\ Len(good) = n - Len(all)
         /\ Multiples(Sorted + n) = Multiples(Sorted) + Len(all)
         /\ \A q \in QueueNames \ {"q01"} : queues'[q] = queues[q]
         /\ Len(queues'["q01"]) = Len(queues["q01"]) - n
         /\ \A w \in Workers \ {Sorter} : held'[w] = held[w]
         /\ held'[Sorter] = good /\ setup' = setup /\ Len(gathered') = Len(gathered) + Len(all)
<1> DEFINE q == queues["q01"]
<1> DEFINE from == held[Main]
<1> DEFINE rest == SubSeq(q, n + 1, Len(q))
<1>0. /\ setup.app = "firewall" /\ In(Sorter) = "q01" /\ n \in Nat /\ n >= 1 /\ n <= BadEvery
      /\ BadEvery \in Nat \ {0} /\ n \in 1 .. BadEvery
  <2>1. /\ setup.app = "firewall" /\ In(Sorter) = "q01" /\ Bulk \in Nat /\ BadEvery \in Nat \ {0}
        /\ Bulk <= BadEvery
    BY FirewallQueues, Counts DEF Numbered
  <2>2. QED
    BY <2>1
<1>1. /\ q \in Seq(Packets) /\ n \in 1 .. Len(q) /\ rest \in Seq(Packets) /\ Len(rest) = Len(q) - n
      /\ \A i \in 1 .. Len(q) - n : rest[i] = q[i + n]
      /\ \A i \in 1 .. n : Popped(Sorter, n)[i] = q[i]
      /\ queues' = [queues EXCEPT !["q01"] = rest]
  <2>1. Pop(Sorter, n) /\ In(Sorter) \in QueueNames /\ Sorter \in Workers
    BY <1>0, InPlace DEF SortedInto
  <2> DEFINE s == queues[In(Sorter)]
  <2>2. /\ s \in Seq(Packets) /\ n \in 1 .. Len(s)
        /\ SubSeq(s, n + 1, Len(s)) \in Seq(Packets) /\ Len(SubSeq(s, n + 1, Len(s))) = Len(s) - n
        /\ \A i \in 1 .. Len(s) - n : SubSeq(s, n + 1, Len(s))[i] = s[i + n]
        /\ \A i \in 1 .. n : Popped(Sorter, n)[i] = s[i]
        /\ queues' = [queues EXCEPT ![In(Sorter)] = SubSeq(s, n + 1, Len(s))]
    BY <1>0, <2>1, PopEffect
  <2>3. s = q
    BY <1>0
  <2> HIDE DEF s
  <2>4. QED
    BY <1>0, <2>2, <2>3
<1>2. /\ queues'["q01"] = rest /\ \A r \in QueueNames \ {"q01"} : queues'[r] = queues[r]
      /\ held'[Sorter] = good /\ \A w \in Workers \ {Sorter} : held'[w] = held[w]
      /\ held'[Main] = from
      /\ UNCHANGED <<setup, bad, toSend, received>>
      /\ mistakes = {i \in 1 .. n : IsBad(Popped(Sorter, n)[i])}
      /\ Len(all) = Cardinality(mistakes) /\ Len(good) = n - Cardinality(mistakes)
      /\ Len(gathered') = Len(gathered) + Len(all)
  <2>1. Sorter # Main
    BY Workforce
  <2>2. queues'["q01"] = rest /\ \A r \in QueueNames \ {"q01"} : queues'[r] = queues[r]
    BY <1>1, InPlace DEF TypeOK
  <2>3. held' = [held EXCEPT ![Sorter] = good] /\ UNCHANGED <<setup, bad, toSend, received>>
    BY DEF SortedInto, Pop
  <2>4. held'[Sorter] = good /\ \A w \in Workers \ {Sorter} : held'[w] = held[w]
    BY <2>3, InPlace DEF TypeOK
  <2>5. held'[Main] = from
    BY <2>1, <2>4, InPlace
  <2>6. /\ mistakes = {i \in 1 .. n : IsBad(Popped(Sorter, n)[i])}
        /\ Len(all) = Cardinality(mistakes) /\ Len(good) = n - Cardinality(mistakes)
        /\ Len(gathered') = Len(gathered) + Len(all)
    BY DEF SortedInto
  <2>7. QED
    BY <2>2, <2>3, <2>4, <2>5, <2>6
<1>3. /\ Len(q) \in Nat /\ from \in Seq(Packets) /\ Len(from) \in Nat
      /\ DOMAIN q = 1 .. Len(q) /\ DOMAIN from = 1 .. Len(from) /\ DOMAIN rest = 1 .. Len(rest)
  <2>1. Len(q) \in Nat /\ from \in Seq(Packets) /\ Len(from) \in Nat
    BY Counts, InPlace
  <2> HIDE DEF q, from, rest
  <2>2. QED
    BY <1>1, <2>1
<1>4. /\ Sent \in Int /\ Sorted \in Nat /\ Sorted = Sent - Len(q) - Len(from)
      /\ toSend <= Extra /\ (toSend > 0 => received + PoolSize = Sent)
  BY SentNumbers DEF MarksRight, Numbers, Sorted
<1>5. /\ \A i \in DOMAIN q : q[i] \in bad <=> (Sorted + i - 1) % BadEvery = 0
      /\ \A i \in DOMAIN from : from[i] \in bad <=> (Sorted + Len(q) + i - 1) % BadEvery = 0
  BY DEF MarksRight, Marked
<1>6. Extra' = Extra /\ Sent' = Sent
  BY <1>2 DEF Extra, Sent
<1>7. Sorted' = Sent' - Len(queues'["q01"]) - Len(held'[Main])
  BY DEF Sorted
<1> HIDE DEF q, from, rest
<1>8. Sorted' = Sorted + n
  BY <1>0, <1>1, <1>2, <1>3, <1>4, <1>6, <1>7
<1>9. Marked(queues["q01"], Sorted)'
  <2>1. ASSUME NEW i \in 1 .. Len(rest) PROVE rest[i] \in bad <=> (Sorted' + i - 1) % BadEvery = 0
    <3>1. /\ i \in 1 .. Len(q) - n /\ i + n \in 1 .. Len(q)
          /\ Sorted + (i + n) - 1 = Sorted' + i - 1
      BY <1>0, <1>1, <1>3, <1>4, <1>8
    <3>2. rest[i] = q[i + n]
      BY <1>1, <3>1
    <3>3. QED
      BY <1>3, <1>5, <3>1, <3>2
  <2>2. QED
    BY <1>2, <1>3, <2>1 DEF Marked
<1>10. Marked(held[Main], Sorted + Len(queues["q01"]))'
  <2>1. Sorted' + Len(queues'["q01"]) = Sorted + Len(q)
    <3>1. Len(queues'["q01"]) = Len(q) - n
      BY <1>1, <1>2
    <3>2. n \in Int /\ Len(q) \in Int /\ Sorted \in Int
      BY <1>0, <1>3, <1>4
    <3>3. QED
      BY ONLY <1>8, <3>1, <3>2
  <2>2. QED
    BY <1>2, <1>5, <2>1 DEF Marked
<1>11. mistakes = {i \in 1 .. n : (Sorted + i - 1) % BadEvery = 0}
  <2>1. \A i \in 1 .. n : i \in DOMAIN q
    BY <1>0, <1>1, <1>3
  <2>2. \A i \in 1 .. n : IsBad(Popped(Sorter, n)[i]) <=> q[i] \in bad
    BY <1>1 DEF IsBad
  <2>3. \A i \in 1 .. n : IsBad(Popped(Sorter, n)[i]) <=> (Sorted + i - 1) % BadEvery = 0
    BY <1>5, <2>1, <2>2
  <2>4. QED
    BY <1>2, <2>3
<1>12. /\ Cardinality(mistakes) \in {0, 1}
       /\ Multiples(Sorted + n) = Multiples(Sorted) + Cardinality(mistakes)
  <2>1. Sorted \in Nat
    BY <1>4
  <2> DEFINE hits == {i \in 1 .. n : (Sorted + i - 1) % BadEvery = 0}
  <2>2. PICK s \in Nat : s = Sorted
    BY <2>1
  <2>3. /\ Cardinality({i \in 1 .. n : (s + i - 1) % BadEvery = 0}) \in {0, 1}
        /\ Multiples(s + n) = Multiples(s) + Cardinality({i \in 1 .. n : (s + i - 1) % BadEvery = 0})
    BY ONLY <1>0, MultiplesGrow
  <2>4. /\ Cardinality(hits) \in {0, 1} /\ Multiples(Sorted + n) = Multiples(Sorted) + Cardinality(hits)
    BY ONLY <2>2, <2>3
  <2>5. hits = mistakes
    BY <1>11
  <2> HIDE DEF hits
  <2>6. QED
    BY ONLY <2>4, <2>5
<1>13. MarksRight'
  <2>1. Sorted' \in Nat
    BY <1>0, <1>4, <1>8
  <2>2. QED
    BY <1>2, <1>4, <1>6, <1>9, <1>10, <2>1 DEF MarksRight
<1>14. Len(queues'["q01"]) = Len(queues["q01"]) - n
  BY <1>1, <1>2 DEF q
<1>15. QED
  BY <1>2, <1>8, <1>12, <1>13, <1>14

\* A thread's other variables.
LEMMA Onward ==
  ASSUME TypeOK, NEW w \in Workers, NEW l, Goto(w, l)
  PROVE  pc' \in [Workers -> {l} \cup Labels] /\ pc'[w] = l /\ \A v \in Workers \ {w} : pc'[v] = pc[v]
BY DEF Goto, TypeOK

LEMMA GatheredStays ==
  ASSUME Gathered, Sorted' = Sorted, Found' = Found, Len(gathered') = Len(gathered),
         pc'[Sorter] \in {"pop", "check"} => pc[Sorter] \in {"pop", "check"} \/ Len(gathered) < Bulk
  PROVE  Gathered'
<1>1. Multiples(Sorted)' = Multiples(Sorted)
  BY DEF Multiples
<1>2. QED
  BY <1>1 DEF Gathered

LEMMA StepGathered ==
  ASSUME Placed, Numbered, MarksRight, Gathered, [Next]_vars
  PROVE  MarksRight' /\ Gathered'
<1>0. /\ TypeOK /\ LabelsFit /\ Once /\ setup.app = "firewall" /\ ~Raft
      /\ In(Correct) = "q1c" /\ In(Mistake) = "q1m" /\ Out(Correct) = "qp0" /\ Out(Mistake) = "qp0"
      /\ Out(Main) = "q01" /\ Out(Sorter) = "q1c"
      /\ Stages = {Correct, Mistake}
  <2>1. TypeOK /\ setup.app = "firewall"
    BY DEF Placed, Numbered
  <2>2. QED
    BY <2>1, Apps, FirewallQueues DEF Placed, Stages
<1>1. /\ Bulk \in Nat \ {0} /\ Len(gathered) \in Nat /\ handled[Mistake] \in Nat
      /\ Len(queues["q1m"]) \in Nat /\ Sorted \in Nat /\ Len(<<>>) = 0
  BY <1>0, Counts, InPlace DEF MarksRight
<1>2. /\ Main # Sorter /\ Main # Correct /\ Main # Mistake /\ Sorter # Correct /\ Sorter # Mistake
      /\ Correct # Mistake /\ {Main, Sorter, Correct, Mistake} \subseteq Workers
  BY Workforce
<1> DEFINE Goal == MarksRight' /\ Gathered'
<1> SUFFICES Goal
  OBVIOUS
<1>3. ASSUME Apart, Found' = Found, Len(gathered') = Len(gathered),
             pc'[Sorter] \in {"pop", "check"} => pc[Sorter] \in {"pop", "check"} \/ Len(gathered) < Bulk
      PROVE  Goal
  BY <1>3, MarksStay, GatheredStays
<1>4. ASSUME UNCHANGED <<setup, queues, bad, held, gathered, toSend, received, handled>>
      PROVE  Apart /\ Found' = Found /\ Len(gathered') = Len(gathered)
  BY <1>4 DEF Apart, Found
<1>5. ASSUME NEW w \in {Correct, Mistake}, PassOn(w) PROVE Goal
  <2>1. PICK n \in 1 .. Bulk :
          /\ Pop(w, n) /\ held' = [held EXCEPT ![w] = Popped(w, n)]
          /\ handled' = [handled EXCEPT ![w] = @ + n] /\ Goto(w, "push")
          /\ UNCHANGED <<bad, gathered, polls, found, toSend, received>>
    BY <1>5 DEF PassOn
  <2>2. PICK q \in {"q1c", "q1m"} : q = In(w)
    BY <1>0
  <2>3. n \in Nat /\ w \in Workers /\ In(w) \in QueueNames /\ w # Main /\ w # Sorter
    BY <1>1, <1>2, <2>2, InPlace
  <2> DEFINE s == queues[In(w)]
  <2>4. /\ s \in Seq(Packets) /\ Len(SubSeq(s, n + 1, Len(s))) = Len(s) - n
        /\ queues' = [queues EXCEPT ![In(w)] = SubSeq(s, n + 1, Len(s))]
    BY <1>0, <2>1, <2>3, PopEffect
  <2>5. queues'[q] = SubSeq(s, n + 1, Len(s)) /\ \A r \in QueueNames \ {q} : queues'[r] = queues[r]
    BY <1>0, <2>2, <2>3, <2>4 DEF TypeOK
  <2>6. /\ held'[Main] = held[Main] /\ pc'[Sorter] = pc[Sorter] /\ UNCHANGED <<setup, bad, toSend, received>>
        /\ handled'[Mistake] = IF w = Mistake THEN handled[Mistake] + n ELSE handled[Mistake]
    BY <1>0, <1>2, <2>1, <2>3 DEF Goto, TypeOK, Pop
  <2>7. Apart
    BY <2>2, <2>5, <2>6, InPlace DEF Apart
  <2>8. Found' = Found
    <3>1. CASE w = Correct
      <4>1. queues'["q1m"] = queues["q1m"]
        BY <1>0, <2>2, <2>5, <3>1, InPlace
      <4>2. QED
        BY <1>2, <2>1, <2>6, <3>1, <4>1 DEF Found
    <3>2. CASE w = Mistake
      <4>1. Len(queues'["q1m"]) = Len(queues["q1m"]) - n
        BY <1>0, <2>2, <2>4, <2>5, <3>2
      <4>2. handled'[Mistake] = handled[Mistake] + n /\ gathered' = gathered
        BY <2>1, <2>6, <3>2
      <4>3. QED
        BY <1>1, <2>3, <4>1, <4>2 DEF Found
    <3>3. QED
      BY <3>1, <3>2
  <2>9. QED
    BY <1>3, <2>1, <2>6, <2>7, <2>8
<1>6. ASSUME NEW w \in {Correct, Mistake, Sorter}, NEW l, PushHeld(w, l), w = Sorter => l = "gather" PROVE Goal
  <2>1. /\ Push(w, held[w], Out(w)) /\ held' = [held EXCEPT ![w] = Tail(@)]
        /\ Goto(w, IF Len(held[w]) = 1 THEN l ELSE "push")
        /\ UNCHANGED <<gathered, polls, found, toSend, received, handled>>
    BY <1>6 DEF PushHeld
  <2>2. PICK q \in {"q1c", "qp0"} : q = Out(w)
    BY <1>0
  <2>3. /\ \A r \in QueueNames \ {q} : queues'[r] = queues[r]
        /\ UNCHANGED <<setup, bad, done>>
    <3>1. queues' = [queues EXCEPT ![q] = Append(@, Head(held[w]))] /\ UNCHANGED <<setup, bad, done>>
      BY <2>1, <2>2 DEF Push
    <3>2. QED
      BY <1>0, <3>1 DEF TypeOK
  <2>4. held'[Main] = held[Main]
    BY <1>0, <1>2, <2>1 DEF TypeOK
  <2>5. Apart /\ Found' = Found
    BY <2>1, <2>2, <2>3, <2>4, InPlace DEF Apart, Found
  <2>6. pc'[Sorter] \in {"pop", "check"} => pc[Sorter] \in {"pop", "check"}
    <3>1. CASE w = Sorter
      <4>1. pc'[Sorter] \in {"gather", "push"}
        BY <1>0, <1>2, <1>6, <2>1, <3>1 DEF Goto, TypeOK
      <4>2. QED
        BY <4>1
    <3>2. CASE w # Sorter
      BY <1>0, <1>2, <2>1, <3>2 DEF Goto, TypeOK
    <3>3. QED
      BY <3>1, <3>2
  <2>7. QED
    BY <1>3, <2>1, <2>5, <2>6
<1>7. ASSUME NEW l, MainPushes, UNCHANGED <<gathered, handled>>, Goto(Main, l) PROVE Goal
  <2>1. MarksRight' /\ Sorted' = Sorted /\ queues'["q1m"] = queues["q1m"]
    BY <1>0, <1>7, MarksMove, InPlace
  <2>2. Found' = Found
    BY <1>7, <2>1 DEF Found
  <2>3. pc'[Sorter] = pc[Sorter]
    BY <1>0, <1>2, <1>7, Onward
  <2>4. QED
    BY <1>7, <2>1, <2>2, <2>3, GatheredStays
<1>8. CASE Fill \/ PushHeld(Main, "pop")
  <2>1. MainPushes /\ UNCHANGED <<gathered, handled>> /\ \E l : Goto(Main, l)
    BY <1>0, <1>8 DEF Fill, PushHeld, MainPushes
  <2> HIDE DEF Goal
  <2>2. QED
    BY <1>7, <2>1
<1>9. CASE Sort
  <2>1. CASE FoundNothing
    <3>1. pc'[Sorter] = "gather"
      BY <1>0, <1>2, <2>1, Onward DEF FoundNothing
    <3>2. UNCHANGED <<setup, queues, bad, held, gathered, toSend, received, handled>>
      BY <2>1 DEF FoundNothing
    <3>3. QED
      BY <1>3, <1>4, <3>1, <3>2
  <2>2. ASSUME NEW n \in 1 .. Bulk, NEW mistakes, NEW good, NEW all, SortedInto(n, mistakes, good, all)
        PROVE  Goal
    <3>1. /\ MarksRight' /\ Sorted' = Sorted + n
          /\ Len(all) \in {0, 1}
          /\ Multiples(Sorted + n) = Multiples(Sorted) + Len(all)
          /\ queues'["q1m"] = queues["q1m"] /\ Len(gathered') = Len(gathered) + Len(all)
      BY <1>0, <2>2, MarksSorted, InPlace
    <3>2. handled' = handled /\ pc[Sorter] = "pop" /\ pc'[Sorter] \in {"gather", "push"}
      BY <1>0, <1>2, <2>2, Onward DEF SortedInto, Pop
    <3>3. Len(gathered) < Bulk
      BY <3>2 DEF Gathered
    <3>4. Len(gathered') <= Bulk
      <4>1. Len(gathered') = Len(gathered) + Len(all) /\ Len(all) \in {0, 1}
        BY <3>1
      <4> DEFINE a == Len(gathered)
      <4> DEFINE b == Len(all)
      <4>2. a \in Nat /\ Bulk \in Nat /\ a < Bulk /\ b \in {0, 1} /\ Len(gathered') = a + b
        BY <1>1, <3>3, <4>1
      <4> HIDE DEF a, b
      <4>3. a + b <= Bulk
        BY ONLY <4>2
      <4>4. QED
        BY ONLY <4>2, <4>3
    <3>5. Found' = Found + Len(all)
      BY <1>1, <3>1, <3>2 DEF Found
    <3>6. Multiples(Sorted)' = Multiples(Sorted + n)
      BY <3>1 DEF Multiples
    <3>7. QED
      BY <3>1, <3>2, <3>4, <3>5, <3>6 DEF Gathered
  <2>3. QED
    BY <1>0, <1>9, <2>1, <2>2, SortEffect
<1>10. CASE Gather
  <2>1. UNCHANGED <<setup, queues, bad, held, gathered, toSend, received, handled>>
    BY <1>10 DEF Gather
  <2>2. Len(gathered) <= Bulk
    BY DEF Gathered
  <2>3. CASE Len(gathered) = Bulk
    <3>1. Goto(Sorter, "flush")
      BY <1>10, <2>3 DEF Gather
    <3>2. pc'[Sorter] = "flush"
      BY <1>0, <1>2, <3>1, Onward
    <3>3. QED
      BY <1>3, <1>4, <2>1, <3>2
  <2>4. CASE Len(gathered) # Bulk
    <3>1. Len(gathered) < Bulk
      BY <1>1, <2>2, <2>4
    <3>2. QED
      BY <1>3, <1>4, <2>1, <3>1
  <2>5. QED
    BY <2>3, <2>4
<1>11. CASE Flush
  <2>1. /\ Push(Sorter, gathered, "q1m") /\ gathered' = Tail(gathered)
        /\ Goto(Sorter, IF Len(gathered) = 1 THEN AfterGather ELSE "flush")
        /\ UNCHANGED <<held, polls, found, toSend, received, handled>>
    BY <1>11 DEF Flush
  <2>2. gathered \in Seq(Packets) /\ "q1m" \in QueueNames
    BY <1>0, InPlace DEF TypeOK
  <2>3. /\ Len(Tail(gathered)) = Len(gathered) - 1 /\ Len(gathered) >= 1
        /\ Len(Append(queues["q1m"], Head(gathered))) = Len(queues["q1m"]) + 1
        /\ queues' = [queues EXCEPT !["q1m"] = Append(queues["q1m"], Head(gathered))]
        /\ UNCHANGED <<setup, bad, done>>
    <3>1. TypeOK
      BY <1>0
    <3>2. Pushed(gathered, "q1m")
      BY <2>1, <2>2, <3>1, PushLeaves
    <3>3. QED
      BY <3>2 DEF Pushed
  <2>4. /\ Len(queues'["q1m"]) = Len(queues["q1m"]) + 1
        /\ queues'["q01"] = queues["q01"]
    BY <1>0, <2>3, InPlace DEF TypeOK
  <2>5. Apart
    BY <2>1, <2>3, <2>4 DEF Apart
  <2>6. MarksRight' /\ Sorted' = Sorted
    BY <2>5, MarksStay
  <2>7. Found' = Found /\ Len(gathered') = Len(gathered) - 1
    <3>1. Len(gathered') = Len(gathered) - 1 /\ handled' = handled
      BY <2>1, <2>3
    <3> DEFINE a == Len(queues["q1m"])
    <3> DEFINE b == Len(gathered)
    <3> DEFINE m == handled[Mistake]
    <3>2. Found = m + a + b /\ Found' = m + (a + 1) + (b - 1)
      BY <2>4, <3>1 DEF Found
    <3>3. a \in Nat /\ b \in Nat /\ m \in Nat
      BY <1>1
    <3> HIDE DEF a, b, m
    <3>4. Found' = Found
      BY ONLY <3>2, <3>3
    <3>5. QED
      BY <3>1, <3>4
  <2>8. Len(gathered') <= Bulk /\ Len(gathered') < Bulk
    BY <1>1, <2>7 DEF Gathered
  <2>9. Multiples(Sorted)' = Multiples(Sorted)
    BY <2>6 DEF Multiples
  <2>10. QED
    BY <2>6, <2>7, <2>8, <2>9 DEF Gathered
<1>12. CASE Recycle
  <2>1. PICK n \in 1 .. Bulk : Recycled(n) /\ \E l : Goto(Main, l) /\ UNCHANGED <<gathered, polls, found, handled>>
    BY <1>12, RecycleNumbered
  <2>2. MarksRight' /\ Sorted' = Sorted /\ queues'["q1m"] = queues["q1m"]
    BY <1>0, <2>1, MarksRecycled, InPlace
  <2>3. pc'[Sorter] = pc[Sorter]
    BY <1>0, <1>2, <2>1, Onward
  <2>4. Found' = Found
    BY <2>1, <2>2 DEF Found
  <2>5. QED
    BY <2>1, <2>2, <2>3, <2>4, GatheredStays
<1>13. CASE AnnounceDone \/ Join
  <2>1. UNCHANGED <<setup, queues, bad, held, gathered, toSend, received, handled>>
    BY <1>13 DEF AnnounceDone, Join
  <2>2. \E l : Goto(Main, l)
    BY <1>13 DEF AnnounceDone, Join
  <2>3. pc'[Sorter] = pc[Sorter]
    BY <1>0, <1>2, <2>2, Onward
  <2>4. QED
    BY <1>3, <1>4, <2>1, <2>3
<1>14. ASSUME NEW w \in Workers \ {Main}, PopNothing(w) \/ CheckDone(w) PROVE Goal
  <2>1. UNCHANGED <<setup, queues, bad, held, gathered, toSend, received, handled>>
    BY <1>14 DEF PopNothing, CheckDone
  <2>2. pc[w] \in {"pop", "check"} /\ \E l : Goto(w, l)
    BY <1>14 DEF PopNothing, CheckDone
  <2>3. pc'[Sorter] \in {"pop", "check"} => pc[Sorter] \in {"pop", "check"}
    BY <1>0, <1>2, <2>2, Onward
  <2>4. QED
    BY <1>3, <1>4, <2>1, <2>3
<1>15. CASE UNCHANGED vars
  <2>1. UNCHANGED <<setup, queues, bad, held, gathered, toSend, received, handled>> /\ pc' = pc
    BY <1>15 DEF vars
  <2>2. QED
    BY <1>3, <1>4, <2>1
<1> HIDE DEF Goal
<1>16. ASSUME Next PROVE Goal
  BY <1>0, <1>5, <1>6, <1>8, <1>9, <1>10, <1>11, <1>12, <1>13, <1>14, <1>16, Cases
<1>17. QED
  BY <1>15, <1>16

\* The marks of the firewall: the invariant behind the second theorem.
Sifted == Placed /\ (Numbered => MarksRight /\ Gathered)

LEMMA AlwaysSifted == Spec => []Sifted
<1>1. Init => Sifted
  BY InitPlaced, InitMarks DEF Sifted
<1>2. Sifted /\ [Next]_vars => Sifted'
  <2>1. SUFFICES ASSUME Sifted, [Next]_vars PROVE Sifted'
    OBVIOUS
  <2>2. Placed' /\ setup' = setup
    BY <2>1, StepPlaced, SetupStays DEF Sifted, Placed
  <2>3. Numbered' => Numbered
    BY <2>2 DEF Numbered
  <2>4. QED
    BY <2>1, <2>2, <2>3, StepGathered DEF Sifted
<1>3. QED
  BY <1>1, <1>2, PTL DEF Spec

LEMMA NoneGathered ==
  ASSUME TypeOK, LabelsFit, setup.app # "firewall", gathered = <<>>, [Next]_vars
  PROVE  gathered' = <<>>
<1>1. ASSUME NEW w, \/ PassOn(w) \/ PushHeld(w, "pop") \/ PopNothing(w) \/ CheckDone(w)
                    \/ Produce(w) \/ Send(w) \/ Take(w) \/ Inspect(w) \/ PushMistake(w)
                    \/ Absorb(w) \/ RunsDry(w)
      PROVE  gathered' = gathered
  BY <1>1 DEF PassOn, PushHeld, PopNothing, CheckDone, Produce, Send, Take, Inspect, PushMistake,
              Absorb, RunsDry
<1>2. ASSUME Fill \/ Recycle \/ AnnounceDone \/ Join \/ Stage0Returns
      PROVE  gathered' = gathered
  BY <1>2 DEF Fill, Recycle, AnnounceDone, Join, Stage0Returns
<1>3. CASE UNCHANGED vars
  BY <1>3 DEF vars
<1>4. QED
  BY <1>1, <1>2, <1>3, Cases

\* pktsm never holds more than BULK_SIZE packets, so that its flush is never
\* missed (MistakesFit; firewall.cpp:183, 350): a bulk has at most one mistake,
\* and stage 1 flushes a full one before it pops again.  This is so for every
\* program but the firewall over CAF, whose push may send packets again with
\* the headers they had.
THEOREM PktsmFits == Spec => [](~(setup.app = "firewall" /\ setup.caf) => MistakesFit)
<1> DEFINE None == setup.app # "firewall" => gathered = <<>>
<1>1. Init => None
  BY DEF Init
<1>2. Sifted /\ None /\ [Next]_vars => None'
  <2>1. SUFFICES ASSUME Sifted, None, [Next]_vars PROVE None'
    OBVIOUS
  <2>2. setup' = setup
    BY <2>1, SetupStays DEF Sifted, Placed
  <2>3. QED
    BY <2>1, <2>2, NoneGathered DEF Sifted, Placed
<1>3. Sifted /\ None => (~(setup.app = "firewall" /\ setup.caf) => MistakesFit)
  <2>1. SUFFICES ASSUME Sifted, None, ~(setup.app = "firewall" /\ setup.caf) PROVE Len(gathered) <= Bulk
    BY DEF MistakesFit
  <2>2. CASE setup.app = "firewall"
    BY <2>1, <2>2 DEF Sifted, Numbered, Gathered
  <2>3. CASE setup.app # "firewall"
    <3>1. gathered = <<>> /\ Bulk \in Nat /\ Len(<<>>) = 0
      BY <2>1, <2>3, Counts DEF Sifted, Placed
    <3>2. QED
      BY <3>1
  <2>4. QED
    BY <2>2, <2>3
<1>4. QED
  BY <1>1, <1>2, <1>3, AlwaysSifted, PTL DEF Spec

-----------------------------------------------------------------------------
(* How many packets are under way.                                         *)

Four(a, b, c, d) == a + b + c + d
QueuedIn(f) == Four(Len(f["q01"]), Len(f["q1c"]), Len(f["q1m"]), Len(f["qp0"]))
                 + Four(Len(f["q12"]), Len(f["q23"]), Len(f["q30"]), 0)
HeldByStage(f, s) == Four(Len(f[<<s, 1>>]), Len(f[<<s, 2>>]), Len(f[<<s, 3>>]), Len(f[<<s, 4>>]))
HeldByOthers(f) == Four(Len(f[Main]), Len(f[Correct]), Len(f[Mistake]), 0)
HeldBy(f) == HeldByOthers(f) + Four(HeldByStage(f, "stage0"), HeldByStage(f, "stage1"),
                                    HeldByStage(f, "stage2"), HeldByStage(f, "last"))
InFlight == QueuedIn(queues) + HeldBy(held) + Len(gathered)

\* A sum of lengths.
LEMMA FourParts ==
  ASSUME NEW a \in Nat, NEW b \in Nat, NEW c \in Nat, NEW d \in Nat
  PROVE  Four(a, b, c, d) \in Nat /\ (Four(a, b, c, d) = 0 => a = 0 /\ b = 0 /\ c = 0 /\ d = 0)
BY DEF Four

\* What one place gains when n packets more are at place w.
Gain(v, w, n) == IF v = w THEN n ELSE 0

LEMMA QueueSums ==
  ASSUME TypeOK
  PROVE  QueuedIn(queues) \in Nat /\ (QueuedIn(queues) = 0 => \A q \in QueueNames : queues[q] = <<>>)
<1> DEFINE L(q) == Len(queues[q])
<1>1. \A q \in QueueNames : L(q) \in Nat /\ (L(q) = 0 => queues[q] = <<>>)
  BY Counts, Nothing
<1>2. /\ L("q01") \in Nat /\ L("q1c") \in Nat /\ L("q1m") \in Nat /\ L("qp0") \in Nat
      /\ L("q12") \in Nat /\ L("q23") \in Nat /\ L("q30") \in Nat /\ 0 \in Nat
  BY <1>1, InPlace
<1> DEFINE x == Four(L("q01"), L("q1c"), L("q1m"), L("qp0"))
<1> DEFINE y == Four(L("q12"), L("q23"), L("q30"), 0)
<1>3. QueuedIn(queues) = x + y
  BY DEF QueuedIn
<1> HIDE DEF L
<1>4. /\ x \in Nat /\ (x = 0 => L("q01") = 0 /\ L("q1c") = 0 /\ L("q1m") = 0 /\ L("qp0") = 0)
  BY ONLY <1>2, FourParts
<1>5. /\ y \in Nat /\ (y = 0 => L("q12") = 0 /\ L("q23") = 0 /\ L("q30") = 0)
  BY ONLY <1>2, FourParts
<1> HIDE DEF x, y
<1>6. QueuedIn(queues) \in Nat /\ (QueuedIn(queues) = 0 => x = 0 /\ y = 0)
  BY ONLY <1>3, <1>4, <1>5
<1>7. QueuedIn(queues) = 0 => \A q \in QueueNames : L(q) = 0
  BY ONLY <1>4, <1>5, <1>6 DEF QueueNames
<1>8. QED
  BY <1>1, <1>6, <1>7

LEMMA QueueChange ==
  ASSUME TypeOK, NEW q \in QueueNames, NEW s \in Seq(Packets), queues' = [queues EXCEPT ![q] = s]
  PROVE  QueuedIn(queues') = QueuedIn(queues) - Len(queues[q]) + Len(s)
<1> DEFINE d == Len(s) - Len(queues[q])
<1> DEFINE L(r) == Len(queues[r])
<1> DEFINE M(r) == Len(queues'[r])
<1> DEFINE G(r) == Gain(r, q, d)
<1>1. Len(s) \in Nat /\ Len(queues[q]) \in Nat /\ d \in Int
  <2>1. Len(s) \in Nat
    OBVIOUS
  <2>2. Len(queues[q]) \in Nat
    BY Counts
  <2>3. QED
    BY <2>1, <2>2
<1>2. \A r \in QueueNames : L(r) \in Nat /\ G(r) \in Int /\ M(r) = L(r) + G(r)
  <2>1. TAKE r \in QueueNames
  <2>2. L(r) \in Nat /\ queues'[r] = IF r = q THEN s ELSE queues[r]
    BY Counts DEF TypeOK
  <2>3. CASE r = q
    <3>1. G(r) = d /\ M(r) = Len(s) /\ L(r) = Len(queues[q])
      BY <2>2, <2>3 DEF Gain
    <3>2. QED
      BY <1>1, <3>1
  <2>4. CASE r # q
    <3>1. G(r) = 0 /\ M(r) = L(r)
      BY <2>2, <2>4 DEF Gain
    <3>2. QED
      BY <2>2, <3>1
  <2>5. QED
    BY <2>3, <2>4
<1>3. /\ QueuedIn(queues) = Four(L("q01"), L("q1c"), L("q1m"), L("qp0"))
                             + Four(L("q12"), L("q23"), L("q30"), 0)
      /\ QueuedIn(queues') = Four(M("q01"), M("q1c"), M("q1m"), M("qp0"))
                              + Four(M("q12"), M("q23"), M("q30"), 0)
  BY DEF QueuedIn
<1>4. \A r \in QueueNames : G(r) = IF r = q THEN d ELSE 0
  BY DEF Gain
<1> HIDE DEF L, M, G, d
<1>5. PICK a1 \in Nat, a2 \in Nat, a3 \in Nat, a4 \in Nat, a5 \in Nat, a6 \in Nat, a7 \in Nat :
        /\ a1 = L("q01") /\ a2 = L("q1c") /\ a3 = L("q1m") /\ a4 = L("qp0")
        /\ a5 = L("q12") /\ a6 = L("q23") /\ a7 = L("q30")
  BY <1>2, InPlace
<1>6. PICK b1 \in Int, b2 \in Int, b3 \in Int, b4 \in Int, b5 \in Int, b6 \in Int, b7 \in Int :
        /\ b1 = G("q01") /\ b2 = G("q1c") /\ b3 = G("q1m") /\ b4 = G("qp0")
        /\ b5 = G("q12") /\ b6 = G("q23") /\ b7 = G("q30")
  BY <1>2, InPlace
<1>7. PICK e \in Int : e = d
  BY <1>1 DEF d
<1>8. b1 + b2 + b3 + b4 + b5 + b6 + b7 = e
  <2>1. /\ b1 = (IF "q01" = q THEN e ELSE 0) /\ b2 = (IF "q1c" = q THEN e ELSE 0)
        /\ b3 = (IF "q1m" = q THEN e ELSE 0) /\ b4 = (IF "qp0" = q THEN e ELSE 0)
        /\ b5 = (IF "q12" = q THEN e ELSE 0) /\ b6 = (IF "q23" = q THEN e ELSE 0)
        /\ b7 = (IF "q30" = q THEN e ELSE 0)
    BY <1>4, <1>6, <1>7, InPlace
  <2>2. q \in {"q01", "q1c", "q1m", "qp0", "q12", "q23", "q30"}
    BY DEF QueueNames
  <2>3. QED
    BY <2>1, <2>2
<1>9. QueuedIn(queues') = Four(a1 + b1, a2 + b2, a3 + b3, a4 + b4) + Four(a5 + b5, a6 + b6, a7 + b7, 0)
  BY <1>2, <1>3, <1>5, <1>6, InPlace
<1>10. QueuedIn(queues) = Four(a1, a2, a3, a4) + Four(a5, a6, a7, 0)
  BY <1>3, <1>5
<1>11. Four(a1 + b1, a2 + b2, a3 + b3, a4 + b4) + Four(a5 + b5, a6 + b6, a7 + b7, 0)
         = Four(a1, a2, a3, a4) + Four(a5, a6, a7, 0) + (b1 + b2 + b3 + b4 + b5 + b6 + b7)
  BY DEF Four
<1>12. Four(a1, a2, a3, a4) + Four(a5, a6, a7, 0) \in Nat
  BY DEF Four
<1>13. PICK x \in Nat : x = QueuedIn(queues)
  BY <1>10, <1>12
<1>14. QueuedIn(queues') = x + e
  BY <1>8, <1>9, <1>10, <1>11, <1>13
<1>15. x + e = x - Len(queues[q]) + Len(s)
  BY <1>1, <1>7 DEF d
<1>16. QED
  BY <1>13, <1>14, <1>15

LEMMA StageChange ==
  ASSUME TypeOK, NEW w \in Workers, NEW s \in Seq(Packets), held' = [held EXCEPT ![w] = s],
         NEW stage \in {"stage0", "stage1", "stage2", "last"}
  PROVE  /\ HeldByStage(held, stage) \in Nat
         /\ HeldByStage(held', stage) = HeldByStage(held, stage)
              + (IF w \in {stage} \X (1 .. 4) THEN Len(s) - Len(held[w]) ELSE 0)
<1> DEFINE d == Len(s) - Len(held[w])
<1> DEFINE L(i) == Len(held[<<stage, i>>])
<1> DEFINE M(i) == Len(held'[<<stage, i>>])
<1> DEFINE G(i) == Gain(<<stage, i>>, w, d)
<1>1. Len(s) \in Nat /\ Len(held[w]) \in Nat /\ d \in Int
  <2>1. Len(s) \in Nat
    OBVIOUS
  <2>2. Len(held[w]) \in Nat
    BY Counts
  <2>3. QED
    BY <2>1, <2>2
<1>2. \A i \in 1 .. 4 : L(i) \in Nat /\ G(i) \in Int /\ M(i) = L(i) + G(i)
  <2>1. TAKE i \in 1 .. 4
  <2>2. <<stage, i>> \in Workers
    BY DEF Workers
  <2>3. L(i) \in Nat /\ held'[<<stage, i>>] = IF <<stage, i>> = w THEN s ELSE held[<<stage, i>>]
    BY <2>2, Counts DEF TypeOK
  <2>4. CASE <<stage, i>> = w
    <3>1. G(i) = d /\ M(i) = Len(s) /\ L(i) = Len(held[w])
      BY <2>3, <2>4 DEF Gain
    <3>2. Len(s) = Len(held[w]) + d
      BY <1>1
    <3> HIDE DEF G, M, L, d
    <3>3. QED
      BY <1>1, <3>1, <3>2
  <2>5. CASE <<stage, i>> # w
    <3>1. G(i) = 0 /\ M(i) = L(i)
      BY <2>3, <2>5 DEF Gain
    <3>2. QED
      BY <2>3, <3>1
  <2>6. QED
    BY <2>4, <2>5
<1> DEFINE e == IF w \in {stage} \X (1 .. 4) THEN d ELSE 0
<1>3. /\ HeldByStage(held, stage) = Four(L(1), L(2), L(3), L(4))
      /\ HeldByStage(held', stage) = Four(M(1), M(2), M(3), M(4))
  BY DEF HeldByStage
<1>4. G(1) + G(2) + G(3) + G(4) = e
  <2>1. CASE w \in {stage} \X (1 .. 4)
    <3>1. PICK i \in 1 .. 4 : w = <<stage, i>>
      BY <2>1
    <3>2. \A j \in 1 .. 4 : G(j) = IF i = j THEN d ELSE 0
      BY <3>1 DEF Gain
    <3> HIDE DEF G, d
    <3>3. i \in {1, 2, 3, 4} /\ G(1) = (IF i = 1 THEN d ELSE 0) /\ G(2) = (IF i = 2 THEN d ELSE 0)
          /\ G(3) = (IF i = 3 THEN d ELSE 0) /\ G(4) = (IF i = 4 THEN d ELSE 0)
      BY <3>2
    <3>4. QED
      BY <1>1, <2>1, <3>3
  <2>2. CASE w \notin {stage} \X (1 .. 4)
    <3>1. \A j \in 1 .. 4 : G(j) = 0
      BY <2>2 DEF Gain
    <3> HIDE DEF G, d
    <3>2. G(1) = 0 /\ G(2) = 0 /\ G(3) = 0 /\ G(4) = 0
      BY <3>1
    <3>3. QED
      BY <2>2, <3>2
  <2>3. QED
    BY <2>1, <2>2
<1> HIDE DEF L, M, G
<1>5. PICK a1 \in Nat, a2 \in Nat, a3 \in Nat, a4 \in Nat :
        a1 = L(1) /\ a2 = L(2) /\ a3 = L(3) /\ a4 = L(4)
  <2>1. L(1) \in Nat /\ L(2) \in Nat /\ L(3) \in Nat /\ L(4) \in Nat
    BY <1>2
  <2>2. QED
    BY ONLY <2>1
<1>6. PICK b1 \in Int, b2 \in Int, b3 \in Int, b4 \in Int :
        b1 = G(1) /\ b2 = G(2) /\ b3 = G(3) /\ b4 = G(4)
  BY <1>2
<1>7. HeldByStage(held', stage) = Four(a1 + b1, a2 + b2, a3 + b3, a4 + b4)
  BY <1>2, <1>3, <1>5, <1>6
<1>8. HeldByStage(held, stage) = Four(a1, a2, a3, a4)
  BY <1>3, <1>5
<1>9. /\ Four(a1 + b1, a2 + b2, a3 + b3, a4 + b4) = Four(a1, a2, a3, a4) + (b1 + b2 + b3 + b4)
      /\ Four(a1, a2, a3, a4) \in Nat
  BY DEF Four
<1>10. b1 + b2 + b3 + b4 = e
  BY <1>4, <1>6
<1> HIDE DEF e
<1>11. HeldByStage(held', stage) = HeldByStage(held, stage) + e /\ HeldByStage(held, stage) \in Nat
  BY <1>7, <1>8, <1>9, <1>10
<1>12. QED
  BY <1>11 DEF e

LEMMA HeldChange ==
  ASSUME TypeOK, NEW w \in Workers, NEW s \in Seq(Packets), held' = [held EXCEPT ![w] = s]
  PROVE  HeldBy(held) \in Nat /\ HeldBy(held') = HeldBy(held) - Len(held[w]) + Len(s)
<1> DEFINE d == Len(s) - Len(held[w])
<1> DEFINE Part(S) == IF w \in S THEN d ELSE 0
<1>1. Len(s) \in Nat /\ Len(held[w]) \in Nat /\ d \in Int
  <2>1. Len(s) \in Nat
    OBVIOUS
  <2>2. Len(held[w]) \in Nat
    BY Counts
  <2>3. QED
    BY <2>1, <2>2
<1>2. \A stage \in {"stage0", "stage1", "stage2", "last"} :
        /\ HeldByStage(held, stage) \in Nat
        /\ HeldByStage(held', stage) = HeldByStage(held, stage) + Part({stage} \X (1 .. 4))
  BY StageChange
<1>3. PICK e \in Int : e = d
  BY <1>1
<1>4. PICK a1 \in Nat, a2 \in Nat, a3 \in Nat :
        a1 = Len(held[Main]) /\ a2 = Len(held[Correct]) /\ a3 = Len(held[Mistake])
  <2>1. Len(held[Main]) \in Nat /\ Len(held[Correct]) \in Nat /\ Len(held[Mistake]) \in Nat
    BY Counts, InPlace
  <2>2. QED
    BY ONLY <2>1
<1>5. ASSUME NEW v \in Workers
      PROVE  Len(held'[v]) = Len(held[v]) + Gain(v, w, e)
  <2>1. held'[v] = IF v = w THEN s ELSE held[v]
    BY DEF TypeOK
  <2>2. CASE v = w
    <3>1. Len(s) = Len(held[w]) + e
      BY <1>1, <1>3
    <3>2. QED
      BY <2>1, <2>2, <3>1 DEF Gain
  <2>3. CASE v # w
    <3>1. Len(held[v]) \in Nat /\ Gain(v, w, e) = 0 /\ held'[v] = held[v]
      BY <2>1, <2>3, Counts DEF Gain
    <3>2. QED
      BY <3>1
  <2>4. QED
    BY <2>2, <2>3
<1>6. PICK b1 \in Int, b2 \in Int, b3 \in Int :
        b1 = Gain(Main, w, e) /\ b2 = Gain(Correct, w, e) /\ b3 = Gain(Mistake, w, e)
  <2>1. Gain(Main, w, e) \in Int /\ Gain(Correct, w, e) \in Int /\ Gain(Mistake, w, e) \in Int
    BY DEF Gain
  <2>2. QED
    BY ONLY <2>1
<1>7. HeldByOthers(held) = Four(a1, a2, a3, 0) /\ HeldByOthers(held') = Four(a1 + b1, a2 + b2, a3 + b3, 0)
  BY <1>4, <1>5, <1>6, InPlace DEF HeldByOthers
<1>8. PICK c1 \in Nat, c2 \in Nat, c3 \in Nat, c4 \in Nat :
        /\ c1 = HeldByStage(held, "stage0") /\ c2 = HeldByStage(held, "stage1")
        /\ c3 = HeldByStage(held, "stage2") /\ c4 = HeldByStage(held, "last")
  <2>1. /\ HeldByStage(held, "stage0") \in Nat /\ HeldByStage(held, "stage1") \in Nat
        /\ HeldByStage(held, "stage2") \in Nat /\ HeldByStage(held, "last") \in Nat
    BY <1>2
  <2>2. QED
    BY ONLY <2>1
<1>9. PICK d1 \in Int, d2 \in Int, d3 \in Int, d4 \in Int :
        /\ d1 = Part({"stage0"} \X (1 .. 4)) /\ d2 = Part({"stage1"} \X (1 .. 4))
        /\ d3 = Part({"stage2"} \X (1 .. 4)) /\ d4 = Part({"last"} \X (1 .. 4))
  <2>1. \A S : Part(S) \in Int
    BY <1>1
  <2> HIDE DEF Part
  <2>2. QED
    BY ONLY <2>1
<1>10. /\ HeldBy(held) = Four(a1, a2, a3, 0) + Four(c1, c2, c3, c4)
       /\ HeldBy(held') = Four(a1 + b1, a2 + b2, a3 + b3, 0) + Four(c1 + d1, c2 + d2, c3 + d3, c4 + d4)
  <2> HIDE DEF Part
  <2>1. /\ HeldByStage(held', "stage0") = c1 + d1 /\ HeldByStage(held', "stage1") = c2 + d2
        /\ HeldByStage(held', "stage2") = c3 + d3 /\ HeldByStage(held', "last") = c4 + d4
    BY <1>2, <1>8, <1>9
  <2>2. QED
    BY ONLY <1>7, <1>8, <2>1 DEF HeldBy
<1>11. b1 + b2 + b3 + d1 + d2 + d3 + d4 = e
  <2>1. /\ d1 = (IF w \in {"stage0"} \X (1 .. 4) THEN e ELSE 0)
        /\ d2 = (IF w \in {"stage1"} \X (1 .. 4) THEN e ELSE 0)
        /\ d3 = (IF w \in {"stage2"} \X (1 .. 4) THEN e ELSE 0)
        /\ d4 = (IF w \in {"last"} \X (1 .. 4) THEN e ELSE 0)
    BY <1>3, <1>9
  <2>2. \/ w \in {Main, Correct, Mistake}
        \/ w[1] \in {"stage0", "stage1", "stage2", "last"}
    BY DEF Workers
  <2>3. \A stage \in {"stage0", "stage1", "stage2", "last"} : w \in {stage} \X (1 .. 4) <=> w[1] = stage
    BY DEF Workers, Main, Correct, Mistake
  <2>4. Main[1] = "main" /\ Correct[1] = "correct" /\ Mistake[1] = "mistake"
    BY DEF Main, Correct, Mistake
  <2>5. /\ b1 = (IF w = Main THEN e ELSE 0) /\ b2 = (IF w = Correct THEN e ELSE 0)
        /\ b3 = (IF w = Mistake THEN e ELSE 0)
    BY <1>6 DEF Gain
  <2>6. /\ d1 = (IF w[1] = "stage0" THEN e ELSE 0) /\ d2 = (IF w[1] = "stage1" THEN e ELSE 0)
        /\ d3 = (IF w[1] = "stage2" THEN e ELSE 0) /\ d4 = (IF w[1] = "last" THEN e ELSE 0)
    BY <2>1, <2>3
  <2>7. QED
    BY <2>2, <2>4, <2>5, <2>6
<1>12. /\ Four(a1 + b1, a2 + b2, a3 + b3, 0) + Four(c1 + d1, c2 + d2, c3 + d3, c4 + d4)
            = Four(a1, a2, a3, 0) + Four(c1, c2, c3, c4) + (b1 + b2 + b3 + d1 + d2 + d3 + d4)
       /\ Four(a1, a2, a3, 0) + Four(c1, c2, c3, c4) \in Nat
  BY DEF Four
<1>13. PICK x \in Nat : x = HeldBy(held)
  BY <1>10, <1>12
<1>14. HeldBy(held') = x + e
  BY <1>10, <1>11, <1>12, <1>13
<1>15. x + e = x - Len(held[w]) + Len(s)
  BY <1>1, <1>3
<1>16. QED
  BY <1>13, <1>14, <1>15

LEMMA HeldSums ==
  ASSUME TypeOK
  PROVE  HeldBy(held) \in Nat /\ (HeldBy(held) = 0 => \A w \in Workers : held[w] = <<>>)
<1>1. \A w \in Workers : Len(held[w]) \in Nat /\ (Len(held[w]) = 0 => held[w] = <<>>)
  BY Counts, Nothing
<1>2. PICK x \in Nat : x = HeldByOthers(held) /\ (x = 0 => \A w \in {Main, Correct, Mistake} : Len(held[w]) = 0)
  <2> DEFINE a == Len(held[Main])
  <2> DEFINE b == Len(held[Correct])
  <2> DEFINE c == Len(held[Mistake])
  <2>1. HeldByOthers(held) = Four(a, b, c, 0)
    BY DEF HeldByOthers
  <2>2. a \in Nat /\ b \in Nat /\ c \in Nat /\ 0 \in Nat
    BY <1>1, InPlace
  <2> HIDE DEF a, b, c
  <2>3. Four(a, b, c, 0) \in Nat /\ (Four(a, b, c, 0) = 0 => a = 0 /\ b = 0 /\ c = 0)
    BY ONLY <2>2, FourParts
  <2>4. QED
    BY <2>1, <2>3 DEF a, b, c
<1>3. ASSUME NEW s \in {"stage0", "stage1", "stage2", "last"}
      PROVE  HeldByStage(held, s) \in Nat
             /\ (HeldByStage(held, s) = 0 => \A i \in 1 .. 4 : Len(held[<<s, i>>]) = 0)
  <2> DEFINE L(i) == Len(held[<<s, i>>])
  <2>1. HeldByStage(held, s) = Four(L(1), L(2), L(3), L(4))
    BY DEF HeldByStage
  <2>2. \A i \in 1 .. 4 : L(i) \in Nat
    BY <1>1 DEF Workers
  <2> HIDE DEF L
  <2>3. L(1) \in Nat /\ L(2) \in Nat /\ L(3) \in Nat /\ L(4) \in Nat
    BY <2>2
  <2> DEFINE sum == Four(L(1), L(2), L(3), L(4))
  <2>4. PICK a1 \in Nat, a2 \in Nat, a3 \in Nat, a4 \in Nat :
           a1 = L(1) /\ a2 = L(2) /\ a3 = L(3) /\ a4 = L(4)
    BY ONLY <2>3
  <2>5. /\ Four(a1, a2, a3, a4) \in Nat
        /\ Four(a1, a2, a3, a4) = 0 => a1 = 0 /\ a2 = 0 /\ a3 = 0 /\ a4 = 0
    BY DEF Four
  <2>6. sum \in Nat /\ (sum = 0 => L(1) = 0 /\ L(2) = 0 /\ L(3) = 0 /\ L(4) = 0)
    BY ONLY <2>4, <2>5
  <2>7. sum = 0 => \A i \in 1 .. 4 : L(i) = 0
    BY <2>6
  <2> HIDE DEF sum
  <2>8. sum = 0 => \A i \in 1 .. 4 : Len(held[<<s, i>>]) = 0
    BY <2>7 DEF L
  <2>9. QED
    BY <2>1, <2>6, <2>8 DEF sum
<1>4. PICK c1 \in Nat, c2 \in Nat, c3 \in Nat, c4 \in Nat :
        /\ c1 = HeldByStage(held, "stage0") /\ c2 = HeldByStage(held, "stage1")
        /\ c3 = HeldByStage(held, "stage2") /\ c4 = HeldByStage(held, "last")
  <2>1. /\ HeldByStage(held, "stage0") \in Nat /\ HeldByStage(held, "stage1") \in Nat
        /\ HeldByStage(held, "stage2") \in Nat /\ HeldByStage(held, "last") \in Nat
    BY <1>3
  <2>2. QED
    BY ONLY <2>1
<1>5. HeldBy(held) = x + Four(c1, c2, c3, c4)
  BY <1>2, <1>4 DEF HeldBy
<1>6. /\ x + Four(c1, c2, c3, c4) \in Nat
      /\ x + Four(c1, c2, c3, c4) = 0 => x = 0 /\ c1 = 0 /\ c2 = 0 /\ c3 = 0 /\ c4 = 0
  BY DEF Four
<1>7. ASSUME HeldBy(held) = 0, NEW w \in Workers PROVE Len(held[w]) = 0
  <2>1. x = 0 /\ \A s \in {"stage0", "stage1", "stage2", "last"} : HeldByStage(held, s) = 0
    BY <1>4, <1>5, <1>6, <1>7
  <2>2. CASE w \in {Main, Correct, Mistake}
    BY <1>2, <2>1, <2>2
  <2>3. CASE w \notin {Main, Correct, Mistake}
    <3>1. PICK s \in {"stage0", "stage1", "stage2", "last"}, i \in 1 .. 4 : w = <<s, i>>
      BY <1>7, <2>3 DEF Workers
    <3>2. QED
      BY <1>3, <2>1, <3>1
  <2>4. QED
    BY <2>2, <2>3
<1>8. QED
  BY <1>1, <1>5, <1>6, <1>7

\* What pops, pushes and hands full of packets do to the numbers.
Taken(k, n) ==
  /\ n \in Nat \ {0} /\ Len(queues'[k]) = Len(queues[k]) - n
  /\ \A q \in QueueNames \ {k} : queues'[q] = queues[q]
  /\ QueuedIn(queues') = QueuedIn(queues) - n

Given(k) ==
  /\ Len(queues'[k]) = Len(queues[k]) + 1
  /\ \A q \in QueueNames \ {k} : queues'[q] = queues[q]
  /\ QueuedIn(queues') = QueuedIn(queues) + 1

Keeps(w, n) ==
  /\ n \in Nat /\ Len(held'[w]) = n
  /\ \A v \in Workers \ {w} : held'[v] = held[v]
  /\ HeldBy(held') = HeldBy(held) - Len(held[w]) + n

LEMMA TakenByPop ==
  ASSUME TypeOK, NEW w \in Workers, NEW k \in QueueNames, In(w) = k, NEW n \in Nat, Pop(w, n)
  PROVE  /\ Taken(k, n) /\ pc[w] = "pop" /\ UNCHANGED <<setup, done>>
         /\ Popped(w, n) \in Seq(Packets) /\ Len(Popped(w, n)) = n
<1>1. PoppedOff(w, k, n)
  BY PopLeaves
<1> DEFINE q == queues[k]
<1> DEFINE rest == SubSeq(q, n + 1, Len(q))
<1>2. /\ n \in 1 .. Bulk /\ q \in Seq(Packets) /\ rest \in Seq(Packets) /\ Len(rest) = Len(q) - n
      /\ queues' = [queues EXCEPT ![k] = rest] /\ pc[w] = "pop"
      /\ Popped(w, n) \in Seq(Packets) /\ Len(Popped(w, n)) = n
  BY <1>1 DEF PoppedOff
<1> HIDE DEF rest
<1>3. QueuedIn(queues') = QueuedIn(queues) - Len(queues[k]) + Len(rest)
  BY <1>2, QueueChange
<1>4. PICK x \in Nat, y \in Nat : x = QueuedIn(queues) /\ y = Len(queues[k])
  BY QueueSums, Counts
<1>5. QueuedIn(queues') = x - n
  <2>1. QueuedIn(queues') = x - y + (y - n)
    BY <1>2, <1>3, <1>4
  <2>2. QED
    BY <2>1
<1>6. n \in Nat \ {0}
  BY <1>2
<1>7. queues'[k] = rest /\ \A r \in QueueNames \ {k} : queues'[r] = queues[r]
  BY <1>2 DEF TypeOK
<1>8. QED
  BY <1>2, <1>4, <1>5, <1>6, <1>7 DEF Taken, Pop

LEMMA GivenByPush ==
  ASSUME TypeOK, NEW w, NEW from \in Seq(Packets), NEW k \in QueueNames, Push(w, from, k)
  PROVE  /\ Given(k) /\ UNCHANGED <<setup, bad, done>>
         /\ Tail(from) \in Seq(Packets) /\ Len(from) \in Nat \ {0} /\ Len(Tail(from)) = Len(from) - 1
<1>1. Pushed(from, k)
  BY PushLeaves
<1> DEFINE q == queues[k]
<1> DEFINE all == Append(q, Head(from))
<1>2. /\ q \in Seq(Packets) /\ all \in Seq(Packets) /\ Len(all) = Len(q) + 1
      /\ queues' = [queues EXCEPT ![k] = all] /\ UNCHANGED <<setup, bad, done>>
      /\ Tail(from) \in Seq(Packets) /\ Len(from) >= 1 /\ Len(Tail(from)) = Len(from) - 1
  BY <1>1 DEF Pushed
<1> HIDE DEF all
<1>3. QueuedIn(queues') = QueuedIn(queues) - Len(queues[k]) + Len(all)
  BY <1>2, QueueChange
<1>4. PICK x \in Nat, y \in Nat : x = QueuedIn(queues) /\ y = Len(queues[k])
  BY QueueSums, Counts
<1>5. QueuedIn(queues') = x + 1
  <2>1. QueuedIn(queues') = x - y + (y + 1)
    BY <1>2, <1>3, <1>4
  <2>2. QED
    BY <2>1
<1>6. queues'[k] = all /\ \A r \in QueueNames \ {k} : queues'[r] = queues[r]
  BY <1>2 DEF TypeOK
<1>7. Len(from) \in Nat \ {0}
  <2>1. Len(from) \in Nat
    OBVIOUS
  <2>2. QED
    BY ONLY <1>2, <2>1
<1>8. QED
  BY <1>2, <1>4, <1>5, <1>6, <1>7 DEF Given

LEMMA KeepsHeld ==
  ASSUME TypeOK, NEW w \in Workers, NEW s \in Seq(Packets), held' = [held EXCEPT ![w] = s]
  PROVE  Keeps(w, Len(s))
<1>1. HeldBy(held') = HeldBy(held) - Len(held[w]) + Len(s)
  BY HeldChange
<1>2. held'[w] = s /\ \A v \in Workers \ {w} : held'[v] = held[v]
  BY DEF TypeOK
<1>3. Len(s) \in Nat
  OBVIOUS
<1>4. QED
  BY <1>1, <1>2, <1>3 DEF Keeps

\* The steps of the threads, as far as the numbers are concerned.
Carries(w, k, n) ==
  /\ Taken(k, n) /\ Keeps(w, n) /\ Len(held[w]) = 0 /\ pc[w] = "pop"
  /\ UNCHANGED <<setup, bad, gathered, toSend, received, done>>

Delivers(w, k) ==
  /\ Given(k) /\ Len(held[w]) \in Nat \ {0} /\ Keeps(w, Len(held[w]) - 1)
  /\ UNCHANGED <<setup, gathered, toSend, received, handled, done>>

LEMMA PassOnCarries ==
  ASSUME TypeOK, LabelsFit, NEW w \in Workers, NEW k \in QueueNames, In(w) = k, PassOn(w)
  PROVE  \E n \in Nat \ {0} : /\ Carries(w, k, n) /\ handled' = [handled EXCEPT ![w] = @ + n]
                              /\ Goto(w, "push")
<1>1. PICK n \in 1 .. Bulk :
        /\ Pop(w, n) /\ held' = [held EXCEPT ![w] = Popped(w, n)]
        /\ handled' = [handled EXCEPT ![w] = @ + n] /\ Goto(w, "push")
        /\ UNCHANGED <<bad, gathered, polls, found, toSend, received>>
  BY DEF PassOn
<1>2. n \in Nat /\ n >= 1
  BY Counts
<1>3. /\ Taken(k, n) /\ pc[w] = "pop" /\ UNCHANGED <<setup, done>>
      /\ Popped(w, n) \in Seq(Packets) /\ Len(Popped(w, n)) = n
  BY <1>1, <1>2, TakenByPop
<1>4. Keeps(w, n)
  <2> DEFINE s == Popped(w, n)
  <2>1. s \in Seq(Packets) /\ held' = [held EXCEPT ![w] = s] /\ Len(s) = n
    BY <1>1, <1>3
  <2> HIDE DEF s
  <2>2. Keeps(w, Len(s))
    BY <2>1, KeepsHeld
  <2>3. QED
    BY <2>1, <2>2
<1>5. Len(held[w]) = 0
  <2>1. held[w] = <<>>
    BY <1>3 DEF LabelsFit, HeldFor
  <2>2. QED
    BY <2>1
<1>6. Carries(w, k, n)
  BY <1>1, <1>3, <1>4, <1>5 DEF Carries
<1>7. n \in Nat \ {0} /\ Carries(w, k, n) /\ handled' = [handled EXCEPT ![w] = @ + n] /\ Goto(w, "push")
  BY <1>1, <1>2, <1>6
<1>8. QED
  BY ONLY <1>7

LEMMA PushHeldDelivers ==
  ASSUME TypeOK, NEW w \in Workers, NEW k \in QueueNames, Push(w, held[w], k),
         held' = [held EXCEPT ![w] = Tail(@)],
         UNCHANGED <<gathered, polls, found, toSend, received, handled>>
  PROVE  Delivers(w, k)
<1> DEFINE from == held[w]
<1>1. from \in Seq(Packets) /\ held' = [held EXCEPT ![w] = Tail(from)] /\ Push(w, from, k)
  BY DEF TypeOK
<1> HIDE DEF from
<1>2. /\ Given(k) /\ UNCHANGED <<setup, bad, done>>
      /\ Tail(from) \in Seq(Packets) /\ Len(from) \in Nat \ {0} /\ Len(Tail(from)) = Len(from) - 1
  BY <1>1, GivenByPush
<1> DEFINE rest == Tail(from)
<1>3. rest \in Seq(Packets) /\ held' = [held EXCEPT ![w] = rest] /\ Len(rest) = Len(from) - 1
  BY <1>1, <1>2
<1> HIDE DEF rest
<1>4. Keeps(w, Len(rest))
  BY <1>3, KeepsHeld
<1>5. Keeps(w, Len(held[w]) - 1)
  BY <1>3, <1>4 DEF from
<1>6. QED
  BY <1>2, <1>5 DEF Delivers, from

-----------------------------------------------------------------------------
(* No packet is lost: what is under way changes as main or the producers say. *)

Shifts(a, b, c) ==
  /\ QueuedIn(queues') = QueuedIn(queues) + a
  /\ HeldBy(held') = HeldBy(held) + b
  /\ Len(gathered') = Len(gathered) + c

LEMMA UnderWay ==
  ASSUME TypeOK
  PROVE  /\ InFlight \in Nat
         /\ InFlight = 0 => Occupied = {}
<1> DEFINE a == QueuedIn(queues)
<1> DEFINE b == HeldBy(held)
<1> DEFINE c == Len(gathered)
<1>1. InFlight = a + b + c
  BY DEF InFlight
<1>2. /\ a \in Nat /\ (a = 0 => \A q \in QueueNames : queues[q] = <<>>)
      /\ b \in Nat /\ (b = 0 => \A w \in Workers : held[w] = <<>>)
      /\ c \in Nat /\ (c = 0 => gathered = <<>>)
  BY QueueSums, HeldSums, Counts, Nothing
<1> HIDE DEF a, b, c
<1>3. InFlight \in Nat /\ (InFlight = 0 => a = 0 /\ b = 0 /\ c = 0)
  BY ONLY <1>1, <1>2
<1>4. ASSUME InFlight = 0 PROVE Occupied = {}
  <2>1. \A p \in Places : At(p) = <<>>
    BY <1>2, <1>3, <1>4 DEF Places, At
  <2>2. QED
    BY <2>1 DEF Occupied
<1>5. QED
  BY <1>3, <1>4

LEMMA Flow ==
  ASSUME TypeOK, NEW a \in Int, NEW b \in Int, NEW c \in Int, Shifts(a, b, c)
  PROVE  InFlight' = InFlight + (a + b + c)
<1>1. PICK x \in Nat, y \in Nat, z \in Nat : x = QueuedIn(queues) /\ y = HeldBy(held) /\ z = Len(gathered)
  BY QueueSums, HeldSums, Counts
<1>2. InFlight = x + y + z
  BY <1>1 DEF InFlight
<1>3. InFlight' = (x + a) + (y + b) + (z + c)
  BY <1>1 DEF InFlight, Shifts
<1>4. QED
  BY <1>2, <1>3

LEMMA TakenShifts ==
  ASSUME TypeOK, NEW w \in Workers, NEW k, NEW n \in Nat, NEW m \in Nat,
         Taken(k, n), Keeps(w, m), Len(held[w]) = 0, gathered' = gathered
  PROVE  InFlight' = InFlight + (m - n)
<1>1. PICK x \in Nat, y \in Nat, z \in Nat : x = QueuedIn(queues) /\ y = HeldBy(held) /\ z = Len(gathered)
  BY QueueSums, HeldSums, Counts
<1>2. QueuedIn(queues') = x - n /\ HeldBy(held') = y - 0 + m /\ Len(gathered') = z
  BY <1>1 DEF Taken, Keeps
<1>3. -n \in Int /\ x - n = x + (-n) /\ y - 0 + m = y + m /\ z = z + 0
  OBVIOUS
<1>4. Shifts(-n, m, 0)
  BY <1>1, <1>2, <1>3 DEF Shifts
<1>5. InFlight' = InFlight + (-n + m + 0)
  BY <1>3, <1>4, Flow
<1>6. QED
  BY <1>5

LEMMA DeliversShifts ==
  ASSUME TypeOK, NEW w \in Workers, NEW k, Delivers(w, k)
  PROVE  InFlight' = InFlight
<1>1. PICK x \in Nat, y \in Nat, z \in Nat, m \in Nat \ {0} :
        x = QueuedIn(queues) /\ y = HeldBy(held) /\ z = Len(gathered) /\ m = Len(held[w])
  <2>1. Len(held[w]) \in Nat \ {0}
    BY DEF Delivers
  <2>2. QED
    BY <2>1, QueueSums, HeldSums, Counts
<1>2. QueuedIn(queues') = x + 1 /\ HeldBy(held') = y - m + (m - 1) /\ Len(gathered') = z
  BY <1>1 DEF Delivers, Given, Keeps
<1>3. y - m + (m - 1) = y + (-1) /\ z = z + 0 /\ -1 \in Int
  OBVIOUS
<1>4. Shifts(1, -1, 0)
  BY <1>1, <1>2, <1>3 DEF Shifts
<1>5. InFlight' = InFlight + (1 + (-1) + 0)
  BY <1>3, <1>4, Flow
<1>6. QED
  BY <1>5, UnderWay

\* Stage 1 of the firewall deals out what it pops.
Dealt(n, m) ==
  /\ n \in Nat /\ m \in 0 .. n
  /\ Taken("q01", n) /\ Keeps(Sorter, n - m) /\ Len(held[Sorter]) = 0
  /\ Len(gathered') = Len(gathered) + m
  /\ UNCHANGED <<setup, bad, toSend, received, handled, done>>

LEMMA SortDeals ==
  ASSUME TypeOK, LabelsFit, setup.app = "firewall", NEW n \in 1 .. Bulk, NEW mistakes, NEW good, NEW all,
         SortedInto(n, mistakes, good, all)
  PROVE  \E m \in 0 .. n : Dealt(n, m)
<1>0. n \in Nat /\ Sorter \in Workers /\ In(Sorter) = "q01" /\ "q01" \in QueueNames
  BY Counts, InPlace, FirewallQueues
<1> DEFINE m == Cardinality(mistakes)
<1>1. /\ Pop(Sorter, n) /\ m \in 0 .. n /\ good \in Seq(Packets) /\ Len(good) = n - m /\ Len(all) = m
      /\ held' = [held EXCEPT ![Sorter] = good] /\ Len(gathered') = Len(gathered) + Len(all)
      /\ UNCHANGED <<bad, polls, toSend, received, handled>>
  BY DEF SortedInto
<1> HIDE DEF m
<1>2. Taken("q01", n) /\ pc[Sorter] = "pop" /\ UNCHANGED <<setup, done>>
  BY <1>0, <1>1, TakenByPop
<1>3. Keeps(Sorter, Len(good))
  BY <1>0, <1>1, KeepsHeld
<1>4. held[Sorter] = <<>>
  BY <1>0, <1>2 DEF LabelsFit, HeldFor
<1>5. Len(held[Sorter]) = 0
  BY <1>4
<1>6. Dealt(n, m)
  BY <1>0, <1>1, <1>2, <1>3, <1>5 DEF Dealt
<1>7. QED
  BY <1>1, <1>6

LEMMA DealtShifts ==
  ASSUME TypeOK, NEW n, NEW m, Dealt(n, m)
  PROVE  InFlight' = InFlight
<1>0. n \in Nat /\ m \in 0 .. n /\ m \in Nat
  BY DEF Dealt
<1>1. PICK x \in Nat, y \in Nat, z \in Nat : x = QueuedIn(queues) /\ y = HeldBy(held) /\ z = Len(gathered)
  BY QueueSums, HeldSums, Counts
<1>2. QueuedIn(queues') = x - n /\ HeldBy(held') = y - 0 + (n - m) /\ Len(gathered') = z + m
  BY <1>1 DEF Dealt, Taken, Keeps
<1>3. -n \in Int /\ n - m \in Int /\ m \in Int /\ x - n = x + (-n) /\ y - 0 + (n - m) = y + (n - m)
  BY <1>0
<1>4. Shifts(-n, n - m, m)
  BY <1>1, <1>2, <1>3 DEF Shifts
<1>5. InFlight' = InFlight + (-n + (n - m) + m)
  BY <1>3, <1>4, Flow
<1>6. QED
  BY <1>0, <1>5, UnderWay

\* It passes a mistake on.
Flushed ==
  /\ Given("q1m") /\ held' = held /\ Len(gathered) \in Nat \ {0} /\ Len(gathered') = Len(gathered) - 1
  /\ UNCHANGED <<setup, bad, toSend, received, handled, done>>

LEMMA FlushFlushes ==
  ASSUME TypeOK, Flush
  PROVE  Flushed
<1>1. /\ Push(Sorter, gathered, "q1m") /\ gathered' = Tail(gathered)
      /\ UNCHANGED <<held, polls, found, toSend, received, handled>>
  BY DEF Flush
<1>2. gathered \in Seq(Packets) /\ "q1m" \in QueueNames
  BY Counts, InPlace
<1>3. /\ Given("q1m") /\ UNCHANGED <<setup, bad, done>>
      /\ Len(gathered) \in Nat \ {0} /\ Len(Tail(gathered)) = Len(gathered) - 1
  BY <1>1, <1>2, GivenByPush
<1>4. QED
  BY <1>1, <1>3 DEF Flushed

LEMMA FlushedShifts ==
  ASSUME TypeOK, Flushed
  PROVE  InFlight' = InFlight
<1>1. PICK x \in Nat, y \in Nat, z \in Nat : x = QueuedIn(queues) /\ y = HeldBy(held) /\ z = Len(gathered)
  BY QueueSums, HeldSums, Counts
<1>2. QueuedIn(queues') = x + 1 /\ HeldBy(held') = y /\ Len(gathered') = z - 1
  BY <1>1 DEF Flushed, Given
<1>3. y = y + 0 /\ z - 1 = z + (-1) /\ -1 \in Int
  OBVIOUS
<1>4. Shifts(1, 0, -1)
  BY <1>1, <1>2, <1>3 DEF Shifts
<1>5. InFlight' = InFlight + (1 + 0 + (-1))
  BY <1>3, <1>4, Flow
<1>6. QED
  BY <1>5, UnderWay

\* Main gets packets back, and keeps some to send them again.
CameBack(k, n, m) ==
  /\ n \in Nat /\ m \in Nat /\ Taken(k, n) /\ Keeps(Main, m) /\ Len(held[Main]) = 0 /\ m <= toSend
  /\ toSend' = toSend - m /\ received' = received + n
  /\ UNCHANGED <<setup, gathered, handled, done>>

LEMMA RecycleReturns ==
  ASSUME TypeOK, LabelsFit, Recycle, ~(setup.app = "firewall" /\ setup.caf),
         NEW k \in QueueNames, In(Main) = k
  PROVE  \E n, m \in Nat : CameBack(k, n, m)
<1>1. PICK n \in 1 .. Bulk, m \in Nat : Recycles(n, m)
  BY RecycleEffect
<1>2. n \in Nat /\ Main \in Workers
  BY Counts, InPlace
<1>3. /\ m = Again(n) /\ m <= toSend /\ m \in 0 .. n
      /\ Pop(Main, n) /\ held' = [held EXCEPT ![Main] = SubSeq(Popped(Main, n), 1, m)]
      /\ toSend' = toSend - m /\ received' = received + n
      /\ UNCHANGED <<gathered, polls, found, handled>>
  BY <1>1 DEF Recycles
<1>4. /\ Taken(k, n) /\ pc[Main] = "pop" /\ UNCHANGED <<setup, done>>
      /\ Popped(Main, n) \in Seq(Packets) /\ Len(Popped(Main, n)) = n
  BY <1>2, <1>3, TakenByPop
<1> DEFINE all == Popped(Main, n)
<1> DEFINE s == SubSeq(all, 1, m)
<1>5. s \in Seq(Packets) /\ Len(s) = m /\ held' = [held EXCEPT ![Main] = s]
  <2>1. all \in Seq(Packets) /\ m \in 0 .. Len(all) /\ held' = [held EXCEPT ![Main] = s]
    BY <1>3, <1>4
  <2> HIDE DEF all
  <2>2. QED
    BY <2>1, Cut
<1> HIDE DEF s
<1>6. Keeps(Main, Len(s))
  BY <1>2, <1>5, KeepsHeld
<1>7. held[Main] = <<>>
  BY <1>2, <1>4 DEF LabelsFit, HeldFor
<1>8. Len(held[Main]) = 0
  BY <1>7
<1>9. CameBack(k, n, m)
  BY <1>2, <1>3, <1>4, <1>5, <1>6, <1>8 DEF CameBack
<1>10. QED
  BY <1>2, <1>9

\* The other steps of the pool programs move no packet.
Rests == UNCHANGED <<setup, queues, held, gathered, toSend, received, handled>>

PoolMoves ==
  \/ \E w \in Stages : \E n \in Nat \ {0} : Carries(w, In(w), n) /\ handled' = [handled EXCEPT ![w] = @ + n]
  \/ \E w \in Stages \cup {Main} : Delivers(w, Out(w))
  \/ setup.app = "firewall" /\ Delivers(Sorter, Out(Sorter))
  \/ setup.app = "firewall" /\ \E n \in Nat : \E m \in 0 .. n : Dealt(n, m)
  \/ setup.app = "firewall" /\ Flushed
  \/ \E n, m \in Nat : CameBack(In(Main), n, m)
  \/ Rests

LEMMA PoolSteps ==
  ASSUME TypeOK, LabelsFit, ~Raft, ~(setup.app = "firewall" /\ setup.caf), [Next]_vars
  PROVE  PoolMoves
<1>0. /\ In(Main) \in QueueNames /\ Out(Main) \in QueueNames
      /\ \A w \in Stages : w \in Workers /\ In(w) \in QueueNames /\ Out(w) \in QueueNames
      /\ setup.app = "firewall" => Out(Sorter) \in QueueNames
      /\ Main \in Workers /\ Sorter \in Workers
  BY RealQueues, Workforce, InPlace
<1>1. ASSUME NEW w \in Stages, PassOn(w) PROVE PoolMoves
  <2>1. \E n \in Nat \ {0} : /\ Carries(w, In(w), n) /\ handled' = [handled EXCEPT ![w] = @ + n]
                             /\ Goto(w, "push")
    BY <1>0, <1>1, PassOnCarries
  <2>2. QED
    BY <2>1 DEF PoolMoves
<1>2. ASSUME NEW w \in Workers, Out(w) \in QueueNames, NEW l, PushHeld(w, l) PROVE Delivers(w, Out(w))
  <2>1. /\ Push(w, held[w], Out(w)) /\ held' = [held EXCEPT ![w] = Tail(@)]
        /\ UNCHANGED <<gathered, polls, found, toSend, received, handled>>
    BY <1>2 DEF PushHeld
  <2>2. QED
    BY <1>2, <2>1, PushHeldDelivers
<1>3. ASSUME NEW w \in Stages \cup {Main}, PushHeld(w, "pop") PROVE PoolMoves
  <2>1. w \in Workers /\ Out(w) \in QueueNames
    BY <1>0, <1>3
  <2>2. Delivers(w, Out(w))
    BY <1>2, <1>3, <2>1
  <2>3. QED
    BY <1>3, <2>2 DEF PoolMoves
<1>4. ASSUME setup.app = "firewall", PushHeld(Sorter, "gather") PROVE PoolMoves
  BY <1>0, <1>2, <1>4 DEF PoolMoves
<1>5. ASSUME Fill PROVE PoolMoves
  <2>1. /\ Push(Main, held[Main], Out(Main)) /\ held' = [held EXCEPT ![Main] = Tail(@)]
        /\ UNCHANGED <<gathered, polls, found, toSend, received, handled>>
    BY <1>5 DEF Fill
  <2>2. Delivers(Main, Out(Main))
    BY <1>0, <2>1, PushHeldDelivers
  <2>3. QED
    BY <2>2 DEF PoolMoves
<1>6. ASSUME setup.app = "firewall", Sort PROVE PoolMoves
  <2>1. CASE FoundNothing
    BY <2>1 DEF FoundNothing, PoolMoves, Rests
  <2>2. ASSUME NEW n \in 1 .. Bulk, NEW mistakes, NEW good, NEW all, SortedInto(n, mistakes, good, all)
        PROVE  PoolMoves
    <3>1. n \in Nat
      BY Counts
    <3>2. \E m \in 0 .. n : Dealt(n, m)
      BY <1>6, <2>2, SortDeals
    <3>3. QED
      BY <1>6, <3>1, <3>2 DEF PoolMoves
  <2>3. QED
    BY <1>6, <2>1, <2>2, SortEffect
<1>7. ASSUME setup.app = "firewall", Flush PROVE PoolMoves
  BY <1>7, FlushFlushes DEF PoolMoves
<1>8. ASSUME Recycle PROVE PoolMoves
  <2>1. PICK k \in QueueNames : In(Main) = k
    BY <1>0
  <2>2. \E n, m \in Nat : CameBack(In(Main), n, m)
    BY <1>8, <2>1, RecycleReturns
  <2>3. QED
    BY <2>2 DEF PoolMoves
<1>9. ASSUME Gather \/ AnnounceDone \/ Join \/ Stage0Returns PROVE PoolMoves
  BY <1>9 DEF Gather, AnnounceDone, Join, Stage0Returns, PoolMoves, Rests
<1>10. ASSUME NEW w, PopNothing(w) \/ CheckDone(w) PROVE PoolMoves
  BY <1>10 DEF PopNothing, CheckDone, PoolMoves, Rests
<1>11. ASSUME UNCHANGED vars PROVE PoolMoves
  BY <1>11 DEF vars, PoolMoves, Rests
<1>12. QED
  BY <1>1, <1>3, <1>4, <1>5, <1>6, <1>7, <1>8, <1>9, <1>10, <1>11, Cases

\* Main's accounts: what came back, what is left to send, and what is under way.
Accounts == received + toSend + InFlight

LEMMA AccountsStay ==
  ASSUME TypeOK, PoolMoves
  PROVE  Accounts' = Accounts
<1>0. received \in Nat /\ toSend \in Nat /\ InFlight \in Nat /\ Main \in Workers /\ Sorter \in Workers
      /\ Stages \subseteq Workers
  BY Counts, UnderWay, InPlace, Workforce
<1>1. ASSUME InFlight' = InFlight, UNCHANGED <<received, toSend>> PROVE Accounts' = Accounts
  BY <1>1 DEF Accounts
<1>2. ASSUME NEW w \in Stages, NEW n \in Nat \ {0}, Carries(w, In(w), n) PROVE Accounts' = Accounts
  <2>1. Taken(In(w), n) /\ Keeps(w, n) /\ Len(held[w]) = 0 /\ gathered' = gathered /\ n \in Nat
        /\ UNCHANGED <<received, toSend>>
    BY <1>2 DEF Carries
  <2>2. InFlight' = InFlight + (n - n)
    BY <1>0, <1>2, <2>1, TakenShifts
  <2>3. n - n = 0 /\ InFlight + 0 = InFlight
    BY <1>0, <2>1
  <2>4. QED
    BY <1>1, <2>1, <2>2, <2>3
<1>3. ASSUME NEW w \in Workers, NEW k, Delivers(w, k) PROVE Accounts' = Accounts
  <2>1. InFlight' = InFlight
    BY <1>3, DeliversShifts
  <2>2. QED
    BY <1>1, <1>3, <2>1 DEF Delivers
<1>4. ASSUME NEW n, NEW m, Dealt(n, m) PROVE Accounts' = Accounts
  <2>1. InFlight' = InFlight
    BY <1>4, DealtShifts
  <2>2. QED
    BY <1>1, <1>4, <2>1 DEF Dealt
<1>5. ASSUME Flushed PROVE Accounts' = Accounts
  <2>1. InFlight' = InFlight
    BY <1>5, FlushedShifts
  <2>2. QED
    BY <1>1, <1>5, <2>1 DEF Flushed
<1>6. ASSUME NEW n \in Nat, NEW m \in Nat, CameBack(In(Main), n, m) PROVE Accounts' = Accounts
  <2>1. /\ Taken(In(Main), n) /\ Keeps(Main, m) /\ Len(held[Main]) = 0 /\ gathered' = gathered
        /\ m <= toSend /\ toSend' = toSend - m /\ received' = received + n
    BY <1>6 DEF CameBack
  <2>2. InFlight' = InFlight + (m - n)
    BY <1>0, <2>1, TakenShifts
  <2>3. QED
    BY <1>0, <2>1, <2>2 DEF Accounts
<1>7. ASSUME Rests PROVE Accounts' = Accounts
  BY <1>7 DEF Rests, Accounts, InFlight
<1>8. QED
  BY <1>0, <1>2, <1>3, <1>4, <1>5, <1>6, <1>7 DEF PoolMoves

\* What the pipeline's stage 0 has passed on, and what is still to get there.
ToStage0 == Four(handled[Stage0], Len(queues["q30"]), Len(held[Main]), toSend)

LEMMA Stage0Counts ==
  ASSUME TypeOK, LabelsFit, setup.app = "pipeline", PoolMoves
  PROVE  ToStage0' = ToStage0
<1>0. /\ Stages \subseteq Workers \ {Main} /\ Stage0 \in Stages /\ Stage0 # Main
      /\ Main \in Workers /\ "q30" \in QueueNames /\ Len(<<>>) = 0
      /\ In(Main) = "q23" /\ Out(Main) = "q30" /\ In(Stage0) = "q30" /\ Out(Stage0) = "q01"
      /\ \A w \in Stages \ {Stage0} : In(w) # "q30" /\ Out(w) # "q30"
      /\ \A w \in Stages : Out(w) # "q30"
  <2>1. Stages = {Stage0} \cup ({"stage1", "stage2"} \X (1 .. 4))
    BY DEF Stages
  <2>2. \A w \in Stages \ {Stage0} : In(w) # "q30" /\ Out(w) # "q30"
    BY <2>1, PipelineQueues
  <2>3. QED
    BY <2>1, <2>2, PipelineQueues, Workforce, InPlace
<1>1. PICK a \in Nat, b \in Nat, c \in Nat, d \in Nat :
        a = handled[Stage0] /\ b = Len(queues["q30"]) /\ c = Len(held[Main]) /\ d = toSend
  BY Counts, InPlace
<1>2. ToStage0 = a + b + c + d
  BY <1>1 DEF ToStage0, Four
<1> DEFINE New(a1, b1, c1, d1) ==
             /\ a1 = handled'[Stage0] /\ b1 = Len(queues'["q30"]) /\ c1 = Len(held'[Main]) /\ d1 = toSend'
<1>3. ASSUME NEW a1, NEW b1, NEW c1, NEW d1, New(a1, b1, c1, d1)
      PROVE  ToStage0' = a1 + b1 + c1 + d1
  BY <1>3 DEF ToStage0, Four
<1> HIDE DEF New
<1>4. ASSUME NEW w \in Stages, NEW n \in Nat \ {0}, Carries(w, In(w), n),
             handled' = [handled EXCEPT ![w] = @ + n]
      PROVE  ToStage0' = ToStage0
  <2>1. /\ Taken(In(w), n) /\ Keeps(w, n) /\ toSend' = d /\ w # Main /\ w \in Workers
    BY <1>0, <1>1, <1>4 DEF Carries
  <2>2. Len(held'[Main]) = c
    BY <1>0, <1>1, <2>1 DEF Keeps
  <2>3. CASE w = Stage0
    <3>1. handled'[Stage0] = a + n
      BY <1>0, <1>1, <1>4, <2>3 DEF TypeOK
    <3>2. Len(queues'["q30"]) = b - n
      BY <1>0, <1>1, <2>1, <2>3 DEF Taken
    <3>3. New(a + n, b - n, c, d)
      BY <2>1, <2>2, <3>1, <3>2 DEF New
    <3>4. ToStage0' = a + n + (b - n) + c + d
      BY <1>3, <3>3
    <3>5. QED
      BY <1>2, <3>4
  <2>4. CASE w # Stage0
    <3>1. handled'[Stage0] = a
      BY <1>0, <1>1, <1>4, <2>4 DEF TypeOK
    <3>2. Len(queues'["q30"]) = b
      BY <1>0, <1>1, <2>1, <2>4 DEF Taken
    <3>3. New(a, b, c, d)
      BY <2>1, <2>2, <3>1, <3>2 DEF New
    <3>4. QED
      BY <1>2, <1>3, <3>3
  <2>5. QED
    BY <2>3, <2>4
<1>5. ASSUME NEW w \in Stages, Delivers(w, Out(w)) PROVE ToStage0' = ToStage0
  <2>1. Given(Out(w)) /\ Keeps(w, Len(held[w]) - 1) /\ toSend' = d /\ handled' = handled /\ w # Main
    BY <1>0, <1>1, <1>5 DEF Delivers
  <2>2. Len(held'[Main]) = c
    BY <1>0, <1>1, <2>1 DEF Keeps
  <2>3. Len(queues'["q30"]) = b
    BY <1>0, <1>1, <1>5, <2>1 DEF Given
  <2>4. New(a, b, c, d)
    BY <1>1, <2>1, <2>2, <2>3 DEF New
  <2>5. QED
    BY <1>2, <1>3, <2>4
<1>6. ASSUME Delivers(Main, Out(Main)) PROVE ToStage0' = ToStage0
  <2>1. Given("q30") /\ Keeps(Main, Len(held[Main]) - 1) /\ toSend' = d /\ handled' = handled
    BY <1>0, <1>1, <1>6 DEF Delivers
  <2>2. Len(held'[Main]) = c - 1 /\ Len(queues'["q30"]) = b + 1
    BY <1>1, <2>1 DEF Keeps, Given
  <2>3. New(a, b + 1, c - 1, d)
    BY <1>1, <2>1, <2>2 DEF New
  <2>4. ToStage0' = a + (b + 1) + (c - 1) + d
    BY <1>3, <2>3
  <2>5. QED
    BY <1>2, <2>4
<1>7. ASSUME NEW n \in Nat, NEW m \in Nat, CameBack(In(Main), n, m) PROVE ToStage0' = ToStage0
  <2>1. Taken("q23", n) /\ Keeps(Main, m) /\ toSend' = d - m /\ handled' = handled /\ c = 0
    BY <1>0, <1>1, <1>7 DEF CameBack
  <2>2. Len(held'[Main]) = m /\ Len(queues'["q30"]) = b
    BY <1>0, <1>1, <2>1 DEF Keeps, Taken
  <2>3. New(a, b, m, d - m)
    BY <1>1, <2>1, <2>2 DEF New
  <2>4. ToStage0' = a + b + m + (d - m)
    BY <1>3, <2>3
  <2>5. QED
    BY <1>2, <2>1, <2>4
<1>8. ASSUME Rests PROVE ToStage0' = ToStage0
  BY <1>8 DEF Rests, ToStage0
<1>9. QED
  BY <1>4, <1>5, <1>6, <1>7, <1>8 DEF PoolMoves

\* What has gone to either side of the firewall, and what is on its way there.
ToSides == Four(handled[Correct], Len(queues["q1c"]), Len(held[Sorter]), handled[Mistake])
             + Four(Len(queues["q1m"]), Len(gathered), Len(queues["q01"]), Len(held[Main])) + toSend

LEMMA SidesCount ==
  ASSUME TypeOK, LabelsFit, setup.app = "firewall", PoolMoves
  PROVE  ToSides' = ToSides
<1>0. /\ Main # Sorter /\ Main # Correct /\ Main # Mistake /\ Sorter # Correct /\ Sorter # Mistake
      /\ Correct # Mistake /\ {Main, Sorter, Correct, Mistake} \subseteq Workers
      /\ Stages = {Correct, Mistake} /\ {"q01", "q1c", "q1m", "qp0"} \subseteq QueueNames
      /\ In(Correct) = "q1c" /\ In(Mistake) = "q1m" /\ Out(Correct) = "qp0" /\ Out(Mistake) = "qp0"
      /\ In(Main) = "qp0" /\ Out(Main) = "q01" /\ Out(Sorter) = "q1c"
  BY Workforce, InPlace, FirewallQueues DEF Stages
<1>20. PICK a \in Nat, b \in Nat, c \in Nat, d \in Nat :
         /\ a = handled[Correct] /\ b = Len(queues["q1c"]) /\ c = Len(held[Sorter])
         /\ d = handled[Mistake]
  BY Counts, InPlace
<1>21. PICK e \in Nat, f \in Nat, g \in Nat, h \in Nat, t \in Nat :
         /\ e = Len(queues["q1m"]) /\ f = Len(gathered) /\ g = Len(queues["q01"])
         /\ h = Len(held[Main]) /\ t = toSend
  BY Counts, InPlace
<1>1. /\ a = handled[Correct] /\ b = Len(queues["q1c"]) /\ c = Len(held[Sorter])
      /\ d = handled[Mistake] /\ e = Len(queues["q1m"]) /\ f = Len(gathered)
      /\ g = Len(queues["q01"]) /\ h = Len(held[Main]) /\ t = toSend
  BY <1>20, <1>21
<1>2. ToSides = a + b + c + d + (e + f + g + h) + t
  BY <1>1 DEF ToSides, Four
<1> DEFINE New(a1, b1, c1, d1, e1, f1, g1, h1, t1) ==
             /\ a1 = handled'[Correct] /\ b1 = Len(queues'["q1c"]) /\ c1 = Len(held'[Sorter])
             /\ d1 = handled'[Mistake] /\ e1 = Len(queues'["q1m"]) /\ f1 = Len(gathered')
             /\ g1 = Len(queues'["q01"]) /\ h1 = Len(held'[Main]) /\ t1 = toSend'
<1>3. ASSUME NEW a1, NEW b1, NEW c1, NEW d1, NEW e1, NEW f1, NEW g1, NEW h1, NEW t1,
             New(a1, b1, c1, d1, e1, f1, g1, h1, t1)
      PROVE  ToSides' = a1 + b1 + c1 + d1 + (e1 + f1 + g1 + h1) + t1
  BY <1>3 DEF ToSides, Four
<1> HIDE DEF New
<1>4. ASSUME NEW w \in Stages, NEW n \in Nat \ {0}, Carries(w, In(w), n),
             handled' = [handled EXCEPT ![w] = @ + n]
      PROVE  ToSides' = ToSides
  <2>1. Taken(In(w), n) /\ Keeps(w, n) /\ toSend' = t /\ gathered' = gathered
    BY <1>1, <1>4 DEF Carries
  <2>2. CASE w = Correct
    <3>1. New(a + n, b - n, c, d, e, f, g, h, t)
      BY <1>0, <1>1, <1>4, <2>1, <2>2 DEF New, Taken, Keeps, TypeOK
    <3>2. ToSides' = a + n + (b - n) + c + d + (e + f + g + h) + t
      BY <1>3, <3>1
    <3>3. QED
      BY <1>2, <3>2
  <2>3. CASE w = Mistake
    <3>1. New(a, b, c, d + n, e - n, f, g, h, t)
      BY <1>0, <1>1, <1>4, <2>1, <2>3 DEF New, Taken, Keeps, TypeOK
    <3>2. ToSides' = a + b + c + (d + n) + (e - n + f + g + h) + t
      BY <1>3, <3>1
    <3>3. QED
      BY <1>2, <3>2
  <2>4. QED
    BY <1>0, <2>2, <2>3
<1>5. ASSUME NEW w \in Stages, Delivers(w, Out(w)) PROVE ToSides' = ToSides
  <2>1. Given("qp0") /\ Keeps(w, Len(held[w]) - 1) /\ toSend' = t /\ gathered' = gathered /\ handled' = handled
    BY <1>0, <1>1, <1>5 DEF Delivers
  <2>2. New(a, b, c, d, e, f, g, h, t)
    BY <1>0, <1>1, <2>1 DEF New, Given, Keeps
  <2>3. ToSides' = a + b + c + d + (e + f + g + h) + t
    BY <1>3, <2>2
  <2>4. QED
    BY <1>2, <2>3
<1>6. ASSUME Delivers(Main, Out(Main)) PROVE ToSides' = ToSides
  <2>1. Given("q01") /\ Keeps(Main, h - 1) /\ toSend' = t /\ gathered' = gathered /\ handled' = handled
    BY <1>0, <1>1, <1>6 DEF Delivers
  <2>2. New(a, b, c, d, e, f, g + 1, h - 1, t)
    BY <1>0, <1>1, <2>1 DEF New, Given, Keeps
  <2> DEFINE g1 == g + 1
  <2> DEFINE h1 == h - 1
  <2>3. g1 \in Int /\ h1 \in Int /\ g1 + h1 = g + h /\ New(a, b, c, d, e, f, g1, h1, t)
    BY <2>2
  <2> HIDE DEF g1, h1
  <2>4. ToSides' = a + b + c + d + (e + f + g1 + h1) + t
    BY <1>3, <2>3
  <2>5. QED
    BY <1>2, <2>3, <2>4
<1>7. ASSUME Delivers(Sorter, Out(Sorter)) PROVE ToSides' = ToSides
  <2>1. Given("q1c") /\ Keeps(Sorter, c - 1) /\ toSend' = t /\ gathered' = gathered /\ handled' = handled
    BY <1>0, <1>1, <1>7 DEF Delivers
  <2>2. New(a, b + 1, c - 1, d, e, f, g, h, t)
    BY <1>0, <1>1, <2>1 DEF New, Given, Keeps
  <2>3. ToSides' = a + (b + 1) + (c - 1) + d + (e + f + g + h) + t
    BY <1>3, <2>2
  <2>4. QED
    BY <1>2, <2>3
<1>8. ASSUME NEW n \in Nat, NEW m \in 0 .. n, Dealt(n, m) PROVE ToSides' = ToSides
  <2>1. Taken("q01", n) /\ Keeps(Sorter, n - m) /\ toSend' = t /\ Len(gathered') = f + m
        /\ handled' = handled /\ c = 0
    BY <1>0, <1>1, <1>8 DEF Dealt
  <2>2. New(a, b, n - m, d, e, f + m, g - n, h, t)
    BY <1>0, <1>1, <2>1 DEF New, Taken, Keeps
  <2>3. ToSides' = a + b + (n - m) + d + (e + (f + m) + (g - n) + h) + t
    BY <1>3, <2>2
  <2>4. QED
    BY <1>2, <2>1, <2>3
<1>9. ASSUME Flushed PROVE ToSides' = ToSides
  <2>1. Given("q1m") /\ held' = held /\ toSend' = t /\ Len(gathered') = f - 1 /\ handled' = handled
    BY <1>0, <1>1, <1>9 DEF Flushed
  <2>2. New(a, b, c, d, e + 1, f - 1, g, h, t)
    BY <1>0, <1>1, <2>1 DEF New, Given
  <2>3. ToSides' = a + b + c + d + (e + 1 + (f - 1) + g + h) + t
    BY <1>3, <2>2
  <2>4. QED
    BY <1>2, <2>3
<1>10. ASSUME NEW n \in Nat, NEW m \in Nat, CameBack(In(Main), n, m) PROVE ToSides' = ToSides
  <2>1. Taken("qp0", n) /\ Keeps(Main, m) /\ toSend' = t - m /\ handled' = handled /\ h = 0
        /\ gathered' = gathered
    BY <1>0, <1>1, <1>10 DEF CameBack
  <2>2. New(a, b, c, d, e, f, g, m, t - m)
    BY <1>0, <1>1, <2>1 DEF New, Taken, Keeps
  <2>3. ToSides' = a + b + c + d + (e + f + g + m) + (t - m)
    BY <1>3, <2>2
  <2>4. QED
    BY <1>2, <2>1, <2>3
<1>11. ASSUME Rests PROVE ToSides' = ToSides
  BY <1>11 DEF Rests, ToSides
<1>12. QED
  BY <1>4, <1>5, <1>6, <1>7, <1>8, <1>9, <1>10, <1>11 DEF PoolMoves

\* A thread that has returned does nothing more, and main returns last.
Advances(w, l) ==
  /\ pc[w] # "returned"
  /\ Goto(w, l) \/ pc' = pc
  /\ w = Main /\ l = "returned" => \A v \in Workers \ {Main} : pc[v] = "returned"

LEMMA StepAdvances ==
  ASSUME TypeOK, LabelsFit, Next
  PROVE  \E w \in Workers : \E l \in Labels : Advances(w, l)
<1>0. /\ Main \in Workers /\ Sorter \in Workers /\ Stage0 \in Workers \ {Main}
      /\ Stages \subseteq Workers \ {Main} /\ Sorter # Main
      /\ {"pop", "push", "gather", "flush", "check", "returned", "fill", "join", "send", "inspect",
          "mistake"} = Labels
  BY Workforce DEF Labels
<1>1. ASSUME NEW w \in Workers, PassOn(w) PROVE \E l \in Labels : Advances(w, l)
  <2>1. pc[w] = "pop" /\ Goto(w, "push")
    BY <1>1 DEF PassOn, Pop
  <2>2. Advances(w, "push")
    BY <2>1 DEF Advances
  <2>3. QED
    BY <1>0, <2>2
<1>2. ASSUME NEW w \in Workers, NEW l \in {"pop", "gather"}, PushHeld(w, l) PROVE \E x \in Labels : Advances(w, x)
  <2>1. pc[w] = "push" /\ (Goto(w, l) \/ Goto(w, "push"))
    BY <1>2 DEF PushHeld
  <2>2. Advances(w, l) \/ Advances(w, "push")
    BY <1>2, <2>1 DEF Advances
  <2>3. QED
    BY <1>0, <1>2, <2>2
<1>3. ASSUME Sort \/ Gather \/ Flush PROVE \E l \in Labels : Advances(Sorter, l)
  <2>1. pc[Sorter] \in {"pop", "gather", "flush"}
        /\ \E l \in {"gather", "push", "flush", "pop", "check"} : Goto(Sorter, l)
    <3>1. CASE Sort
      BY <3>1 DEF Sort, Pop
    <3>2. CASE Gather
      BY <3>2 DEF Gather, AfterGather
    <3>3. CASE Flush
      BY <3>3 DEF Flush, AfterGather
    <3>4. QED
      BY <1>3, <3>1, <3>2, <3>3
  <2>2. PICK l \in {"gather", "push", "flush", "pop", "check"} : Goto(Sorter, l)
    BY <2>1
  <2>3. Advances(Sorter, l)
    BY <1>0, <2>1, <2>2 DEF Advances
  <2>4. QED
    BY <1>0, <2>3
<1>4. ASSUME Fill \/ Recycle \/ AnnounceDone PROVE \E l \in Labels : Advances(Main, l)
  <2>1. pc[Main] \in {"pop", "fill"} /\ \E l \in {"fill", "push", "pop", "join"} : Goto(Main, l)
    <3>1. CASE Fill
      BY <3>1 DEF Fill
    <3>2. CASE Recycle
      BY <3>2 DEF Recycle, Pop
    <3>3. CASE AnnounceDone
      BY <3>3 DEF AnnounceDone
    <3>4. QED
      BY <1>4, <3>1, <3>2, <3>3
  <2>2. PICK l \in {"fill", "push", "pop", "join"} : Goto(Main, l)
    BY <2>1
  <2>3. Advances(Main, l)
    BY <2>1, <2>2 DEF Advances
  <2>4. QED
    BY <1>0, <2>3
<1>5. ASSUME Join PROVE \E l \in Labels : Advances(Main, l)
  <2>1. Advances(Main, "returned")
    BY <1>5 DEF Join, Advances
  <2>2. QED
    BY <1>0, <2>1
<1>6. ASSUME NEW w \in Workers \ {Main}, PopNothing(w) \/ CheckDone(w) PROVE \E l \in Labels : Advances(w, l)
  <2>1. pc[w] \in {"pop", "check"} /\ \E l \in {"check", "returned", "pop"} : Goto(w, l)
    BY <1>6 DEF PopNothing, CheckDone
  <2>2. PICK l \in {"check", "returned", "pop"} : Goto(w, l)
    BY <2>1
  <2>3. Advances(w, l)
    BY <2>1, <2>2 DEF Advances
  <2>4. QED
    BY <1>0, <2>3
<1>7. ASSUME Stage0Returns PROVE \E l \in Labels : Advances(Stage0, l)
  <2>1. Advances(Stage0, "returned")
    BY <1>0, <1>7 DEF Stage0Returns, Advances
  <2>2. QED
    BY <1>0, <2>1
<1>8. ASSUME NEW w \in Workers \ {Main},
             Produce(w) \/ Send(w) \/ Take(w) \/ Inspect(w) \/ PushMistake(w) \/ Absorb(w) \/ RunsDry(w)
      PROVE  \E l \in Labels : Advances(w, l)
  <2>1. /\ pc[w] \in {"fill", "send", "pop", "inspect", "mistake"}
        /\ \/ pc' = pc
           \/ \E l \in {"send", "returned", "fill", "inspect", "push", "mistake", "pop"} : Goto(w, l)
    <3>1. CASE Produce(w)
      BY <3>1 DEF Produce
    <3>2. CASE Send(w)
      BY <3>2 DEF Send
    <3>3. CASE Take(w)
      BY <3>3 DEF Take, Pop
    <3>4. CASE Inspect(w)
      BY <3>4 DEF Inspect
    <3>5. CASE PushMistake(w)
      BY <3>5 DEF PushMistake
    <3>6. CASE Absorb(w)
      BY <3>6 DEF Absorb, Pop
    <3>7. CASE RunsDry(w)
      BY <3>7 DEF RunsDry
    <3>8. QED
      BY <1>8, <3>1, <3>2, <3>3, <3>4, <3>5, <3>6, <3>7
  <2>2. PICK l \in {"send", "returned", "fill", "inspect", "push", "mistake", "pop"} :
          pc' = pc \/ Goto(w, l)
    BY <2>1
  <2>3. Advances(w, l)
    BY <2>1, <2>2 DEF Advances
  <2>4. QED
    BY <1>0, <2>3
<1>9. ASSUME Raft, NEW w \in RaftThreads PROVE w \in Workers \ {Main}
  BY <1>9, RaftQueues
<1>10. QED
  BY <1>0, <1>1, <1>2, <1>3, <1>4, <1>5, <1>6, <1>7, <1>8, <1>9, Cases

AllBack == pc[Main] = "returned" => \A w \in Workers : pc[w] = "returned"

\* Once returned, for good.
LEMMA StayReturned ==
  ASSUME TypeOK, LabelsFit, AllBack, [Next]_vars
  PROVE  /\ AllBack'
         /\ \A v \in Workers : pc[v] = "returned" => pc'[v] = "returned"
<1>1. CASE UNCHANGED vars
  BY <1>1 DEF vars, AllBack
<1>2. ASSUME NEW w \in Workers, NEW l \in Labels, Advances(w, l)
      PROVE  /\ AllBack'
             /\ \A v \in Workers : pc[v] = "returned" => pc'[v] = "returned"
  <2>1. \A v \in Workers : pc'[v] = pc[v] \/ (v = w /\ pc'[v] = l /\ Goto(w, l))
    BY <1>2, Onward DEF Advances
  <2>2. \A v \in Workers : pc[v] = "returned" => pc'[v] = "returned"
    BY <1>2, <2>1 DEF Advances
  <2>3. pc[Main] # "returned"
    BY <1>2 DEF Advances, AllBack
  <2>4. ASSUME pc'[Main] = "returned" PROVE \A v \in Workers : pc'[v] = "returned"
    <3>1. w = Main /\ l = "returned"
      BY <2>1, <2>3, <2>4, InPlace
    <3>2. QED
      BY <1>2, <2>2, <2>4, <3>1 DEF Advances
  <2>5. QED
    BY <2>2, <2>4 DEF AllBack
<1>3. QED
  BY <1>1, <1>2, StepAdvances

\* Main has announced the end only when enough packets are back.
Announced == pc[Main] \in {"join", "returned"} => received >= setup.numPackets

LEMMA StayAnnounced ==
  ASSUME TypeOK, LabelsFit, ~Raft, ~(setup.app = "firewall" /\ setup.caf), Announced, [Next]_vars
  PROVE  Announced'
<1>0. received \in Nat /\ setup.numPackets \in Nat /\ Main \in Workers /\ Sorter \in Workers \ {Main}
      /\ Stages \subseteq Workers \ {Main} /\ Stage0 \in Workers \ {Main}
  BY Counts, Workforce
<1>1. received' \in Nat /\ received' >= received
  <2>1. ASSUME NEW n \in Nat, received' = received + n PROVE received' \in Nat /\ received' >= received
    BY <1>0, <2>1
  <2>2. ASSUME received' = received PROVE received' \in Nat /\ received' >= received
    BY <1>0, <2>2
  <2>3. PoolMoves
    BY PoolSteps
  <2>4. QED
    BY <2>1, <2>2, <2>3 DEF PoolMoves, Carries, Delivers, Dealt, Flushed, CameBack, Rests
<1>2. setup' = setup
  BY SetupStays
<1>3. ASSUME pc'[Main] = pc[Main] PROVE Announced'
  BY <1>0, <1>1, <1>2, <1>3 DEF Announced
<1>4. ASSUME NEW w \in Workers \ {Main}, NEW l, Goto(w, l) PROVE Announced'
  BY <1>0, <1>3, <1>4, Onward
<1>5. ASSUME NEW l \in {"pop", "push", "fill"}, Goto(Main, l) PROVE Announced'
  <2>1. pc'[Main] = l
    BY <1>0, <1>5, Onward
  <2>2. QED
    BY <1>5, <2>1 DEF Announced
<1>6. ASSUME NEW w \in Stages, PassOn(w) \/ PushHeld(w, "pop") PROVE Announced'
  <2>1. \E l : Goto(w, l)
    BY <1>6 DEF PassOn, PushHeld
  <2>2. QED
    BY <1>0, <1>4, <1>6, <2>1
<1>7. ASSUME PushHeld(Main, "pop") \/ Fill \/ Recycle PROVE Announced'
  <2>1. CASE PushHeld(Main, "pop")
    BY <1>5, <2>1 DEF PushHeld
  <2>2. CASE Fill
    BY <1>5, <2>2 DEF Fill
  <2>3. CASE Recycle
    BY <1>5, <2>3 DEF Recycle
  <2>4. QED
    BY <1>7, <2>1, <2>2, <2>3
<1>8. ASSUME PushHeld(Sorter, "gather") \/ Sort \/ Gather \/ Flush PROVE Announced'
  <2>1. \E l : Goto(Sorter, l)
    BY <1>8 DEF PushHeld, Sort, Gather, Flush
  <2>2. QED
    BY <1>0, <1>4, <2>1
<1>9. ASSUME AnnounceDone PROVE Announced'
  BY <1>0, <1>1, <1>2, <1>9 DEF AnnounceDone, Announced
<1>10. ASSUME Join PROVE Announced'
  BY <1>0, <1>1, <1>2, <1>10 DEF Join, Announced
<1>11. ASSUME NEW w \in Workers \ {Main}, PopNothing(w) \/ CheckDone(w) PROVE Announced'
  <2>1. \E l : Goto(w, l)
    BY <1>11 DEF PopNothing, CheckDone
  <2>2. QED
    BY <1>4, <2>1
<1>12. ASSUME Stage0Returns PROVE Announced'
  <2>1. \E l : Goto(Stage0, l)
    BY <1>12 DEF Stage0Returns
  <2>2. QED
    BY <1>0, <1>4, <2>1
<1>13. CASE UNCHANGED vars
  BY <1>3, <1>13 DEF vars
<1>14. QED
  BY <1>6, <1>7, <1>8, <1>9, <1>10, <1>11, <1>12, <1>13, Cases

\* What the pool programs keep equal to the number of packets asked for.
Balanced ==
  /\ Announced
  /\ setup.numPackets >= PoolSize =>
       /\ Accounts = setup.numPackets
       /\ setup.app = "pipeline" => ToStage0 = setup.numPackets
       /\ setup.app = "firewall" => ToSides = setup.numPackets

LEMMA StepBalanced ==
  ASSUME TypeOK, LabelsFit, ~Raft, ~(setup.app = "firewall" /\ setup.caf), Balanced, [Next]_vars
  PROVE  Balanced'
<1>1. Announced' /\ setup' = setup /\ PoolMoves
  BY StayAnnounced, SetupStays, PoolSteps DEF Balanced
<1>2. /\ Accounts' = Accounts
      /\ setup.app = "pipeline" => ToStage0' = ToStage0
      /\ setup.app = "firewall" => ToSides' = ToSides
  BY <1>1, AccountsStay, Stage0Counts, SidesCount
<1>3. QED
  BY <1>1, <1>2 DEF Balanced

LEMMA InitBalanced ==
  ASSUME Init, ~Raft
  PROVE  Balanced
<1>1. TypeOK
  BY InitTyped
<1>2. /\ \A q \in QueueNames : Len(queues[q]) = 0
      /\ \A w \in Workers \ {Main} : Len(held[w]) = 0
      /\ gathered = <<>> /\ received = 0 /\ \A w \in Workers : handled[w] = 0
      /\ held[Main] = [p \in Packets |-> p] /\ toSend = (setup.numPackets - PoolSize) % Word
  <2>1. Len(<<>>) = 0
    OBVIOUS
  <2>2. QED
    BY <2>1, InPlace DEF Init
<1>3. /\ PoolSize \in Nat \ {0} /\ Word \in Nat \ {0} /\ setup.numPackets \in 1 .. Word - 1
      /\ Len(gathered) = 0 /\ setup.numPackets \in Nat
  BY <1>1, <1>2, Counts
<1>4. Len(held[Main]) = PoolSize
  <2>1. DOMAIN held[Main] = 1 .. PoolSize
    BY <1>2 DEF Packets
  <2>2. Len(held[Main]) \in Nat /\ DOMAIN held[Main] = 1 .. Len(held[Main])
    BY <1>1, Counts, InPlace
  <2>3. QED
    BY <1>3, <2>1, <2>2
<1>5. Announced
  <2>1. setup.app \in {"firewall", "pipeline"}
    BY <1>1, Apps
  <2>2. Main \in Threads
    BY <2>1 DEF Threads
  <2>3. pc[Main] = "fill"
    BY <2>2, InPlace DEF Init
  <2>4. QED
    BY <2>3 DEF Announced
<1>6. InFlight = PoolSize
  <2>1. QueuedIn(queues) = Four(0, 0, 0, 0) + Four(0, 0, 0, 0)
    BY <1>2, InPlace DEF QueuedIn
  <2>2. HeldByOthers(held) = Four(PoolSize, 0, 0, 0)
    BY <1>2, <1>4, InPlace, Workforce DEF HeldByOthers
  <2>3. \A s \in {"stage0", "stage1", "stage2", "last"} : HeldByStage(held, s) = Four(0, 0, 0, 0)
    <3>1. TAKE s \in {"stage0", "stage1", "stage2", "last"}
    <3>2. \A i \in 1 .. 4 : <<s, i>> \in Workers \ {Main}
      BY DEF Workers, Main
    <3>3. Len(held[<<s, 1>>]) = 0 /\ Len(held[<<s, 2>>]) = 0 /\ Len(held[<<s, 3>>]) = 0 /\ Len(held[<<s, 4>>]) = 0
      BY <1>2, <3>2
    <3>4. QED
      BY <3>3 DEF HeldByStage
  <2>4. HeldBy(held) = Four(PoolSize, 0, 0, 0) + Four(0, 0, 0, 0)
    <3>1. Four(0, 0, 0, 0) = 0
      BY DEF Four
    <3>2. QED
      BY <2>2, <2>3, <3>1 DEF HeldBy
  <2>5. InFlight = Four(0, 0, 0, 0) + Four(0, 0, 0, 0) + (Four(PoolSize, 0, 0, 0) + Four(0, 0, 0, 0)) + 0
    BY <1>3, <2>1, <2>4 DEF InFlight
  <2>6. QED
    BY <1>3, <2>5 DEF Four
<1>7. ASSUME setup.numPackets >= PoolSize
      PROVE  toSend = setup.numPackets - PoolSize
  <2>1. setup.numPackets - PoolSize \in 0 .. Word - 1
    BY <1>3, <1>7
  <2>2. QED
    BY <1>2, <1>3, <2>1
<1>8. ASSUME setup.numPackets >= PoolSize
      PROVE  Accounts = setup.numPackets /\ ToStage0 = setup.numPackets /\ ToSides = setup.numPackets
  <2>1. PICK n \in Nat, p \in Nat : n = setup.numPackets /\ p = PoolSize
    BY <1>3
  <2>2. toSend = n - p
    BY <1>7, <1>8, <2>1
  <2>3. Accounts = 0 + (n - p) + p
    BY <1>2, <1>6, <2>1, <2>2 DEF Accounts
  <2>4. ToStage0 = Four(0, 0, p, n - p)
    BY <1>2, <1>4, <2>1, <2>2, InPlace DEF ToStage0
  <2>5. ToSides = Four(0, 0, 0, 0) + Four(0, 0, 0, p) + (n - p)
    BY <1>2, <1>3, <1>4, <2>1, <2>2, InPlace, Workforce DEF ToSides
  <2>6. QED
    BY <2>1, <2>3, <2>4, <2>5 DEF Four
<1>9. QED
  BY <1>5, <1>8 DEF Balanced

\* The multiples up to a multiple and from there on.
LEMMA MultiplesAdd ==
  ASSUME NEW n \in Nat, PoolSize \in Nat, PoolSize % BadEvery = 0
  PROVE  Multiples(PoolSize + n) = Multiples(PoolSize) + Multiples(n)
<1>0. BadEvery \in Nat \ {0}
  BY NetworkAssumption
<1> DEFINE d == BadEvery
<1> DEFINE p == PoolSize
<1> DEFINE D(a) == a \div d
<1>1. d \in Nat \ {0} /\ p \in Nat /\ p % d = 0 /\ n \in Nat
  BY <1>0
<1>2. n + d - 1 \in Nat /\ d - 1 \in Nat /\ d - 1 \in 0 .. d - 1 /\ 0 \in Nat
  BY <1>1
<1> DEFINE x == n + d - 1
<1> DEFINE y == d - 1
<1>3. D(x + p) = D(x) + D(p) /\ D(y + p) = D(y) + D(p)
  <2>1. \A z \in Nat : (z + p) \div d = (z \div d) + (p \div d)
    <3>1. TAKE z \in Nat
    <3> HIDE DEF d, p
    <3>2. QED
      BY ONLY <1>1, Shift
  <2>2. x \in Nat /\ y \in Nat
    BY <1>2
  <2> HIDE DEF x, y, d, p
  <2>3. QED
    BY <2>1, <2>2
<1>4. D(y) = 0
  <2>1. (y + 0 * d) \div d = 0
    <3> HIDE DEF d, p
    <3>1. QED
      BY ONLY <1>1, <1>2, OfDigits DEF y
  <2>2. y + 0 * d = y
    BY <1>1
  <2>3. QED
    BY <2>1, <2>2
<1>5. D(x) \in Nat /\ D(p) \in Nat
  <2>1. x \in Nat /\ p \in Nat
    BY <1>1, <1>2
  <2>2. QED
    BY <1>1, <2>1, Digits
<1>6. Multiples(p + n) = D(x + p) /\ Multiples(p) = D(y + p) /\ Multiples(n) = D(x)
  <2>1. p + n + d - 1 = x + p /\ p + d - 1 = y + p
    BY <1>1
  <2>2. QED
    BY <2>1 DEF Multiples
<1> HIDE DEF D, x, y, d
<1>7. Multiples(p + n) = Multiples(p) + Multiples(n)
  BY <1>3, <1>4, <1>5, <1>6
<1>8. QED
  BY <1>7

\* The totals of the pool programs.
LEMMA PoolAddsUp ==
  ASSUME TypeOK, LabelsFit, ~Raft, Balanced, setup.app = "firewall" => Gathered, pc[Main] = "returned"
  PROVE  /\ setup.numPackets >= PoolSize => Occupied = {}
         /\ PoolTotals
<1>1. SUFFICES ASSUME setup.numPackets >= PoolSize PROVE Occupied = {} /\ PoolTotals
  BY DEF PoolTotals
<1>0. /\ PoolSize \in Nat /\ Word \in Nat \ {0} /\ setup.numPackets \in 1 .. Word - 1
      /\ setup.numPackets \in Nat
  BY Counts
<1>2. /\ received \in Nat /\ toSend \in Nat /\ InFlight \in Nat
      /\ received >= setup.numPackets /\ received + toSend + InFlight = setup.numPackets
  <2>1. received >= setup.numPackets /\ Accounts = setup.numPackets
    BY <1>1 DEF Balanced, Announced
  <2>2. received \in Nat /\ toSend \in Nat /\ InFlight \in Nat
    BY Counts, UnderWay
  <2>3. QED
    BY <2>1, <2>2 DEF Accounts
<1>3. received = setup.numPackets /\ toSend = 0 /\ InFlight = 0 /\ Len(<<>>) = 0
  <2>1. received = setup.numPackets /\ toSend = 0 /\ InFlight = 0
    BY <1>0, <1>2
  <2>2. QED
    BY <2>1
<1>4. Occupied = {}
  BY <1>3, UnderWay
<1>5. \A q \in QueueNames : Len(queues[q]) = 0
  <2>1. \A q \in QueueNames : At(<<"queue", q>>) = <<>> /\ At(<<"queue", q>>) = queues[q]
    BY <1>4 DEF Occupied, Places, At
  <2>2. QED
    BY <1>3, <2>1
<1>6. \A w \in Workers : Len(held[w]) = 0
  <2>1. \A w \in Workers : At(<<"held", w>>) = <<>> /\ At(<<"held", w>>) = held[w]
    BY <1>4 DEF Occupied, Places, At
  <2>2. QED
    BY <1>3, <2>1
<1>7. Len(gathered) = 0
  <2>1. At(<<"gathered", Sorter>>) = <<>> /\ At(<<"gathered", Sorter>>) = gathered
    BY <1>4 DEF Occupied, Places, At
  <2>2. QED
    BY <2>1
<1>8. ASSUME setup.app = "pipeline" PROVE handled[Stage0] = setup.numPackets
  <2>1. handled[Stage0] \in Nat /\ Four(handled[Stage0], 0, 0, 0) = setup.numPackets
    BY <1>1, <1>3, <1>5, <1>6, <1>8, Counts, InPlace DEF Balanced, ToStage0
  <2>2. QED
    BY <2>1 DEF Four
<1>9. ASSUME setup.app = "firewall"
      PROVE  /\ handled[Mistake] = Multiples(PoolSize) + Multiples(setup.numPackets - PoolSize)
             /\ handled[Correct] + handled[Mistake] = setup.numPackets
  <2>1. PICK c \in Nat, m \in Nat, n \in Nat, p \in Nat :
          c = handled[Correct] /\ m = handled[Mistake] /\ n = setup.numPackets /\ p = PoolSize
    <3>1. handled[Correct] \in Nat /\ handled[Mistake] \in Nat
      BY Counts, InPlace
    <3>2. QED
      BY ONLY <1>0, <3>1
  <2>2. Four(c, 0, 0, m) + Four(0, 0, 0, 0) + 0 = n
    BY <1>1, <1>3, <1>5, <1>6, <1>7, <1>9, <2>1, InPlace DEF Balanced, ToSides
  <2>3. c + m = n
    BY <2>2 DEF Four
  <2>4. Extra = n - p
    <3>1. n - p \in 0 .. Word - 1 /\ Word \in Nat \ {0}
      BY <1>0, <1>1, <2>1
    <3>2. (n - p) % Word = n - p
      BY ONLY <3>1
    <3>3. QED
      BY <2>1, <3>2 DEF Extra
  <2>5. Sorted = p + (n - p) - 0 - 0 - 0
    <3>1. Len(queues["q01"]) = 0 /\ Len(held[Main]) = 0
      BY <1>5, <1>6, InPlace
    <3>2. QED
      BY <1>3, <2>1, <2>4, <3>1 DEF Sorted, Sent
  <2>6. m = Multiples(p + (n - p))
    <3>1. Sorted = p + (n - p)
      <4>1. p + (n - p) - 0 - 0 - 0 = p + (n - p)
        OBVIOUS
      <4>2. QED
        BY ONLY <2>5, <4>1
    <3>2. Found = m + 0 + 0 /\ Found = Multiples(Sorted)
      BY <1>5, <1>7, <1>9, <2>1, InPlace DEF Found, Gathered
    <3>3. QED
      BY <3>1, <3>2
  <2>7. Multiples(p + (n - p)) = Multiples(p) + Multiples(n - p)
    <3>1. PoolSize % BadEvery = 0
      BY <1>9, Counts
    <3>4. n - p \in Nat /\ PoolSize \in Nat
      BY <1>1, <2>1
    <3>2. Multiples(PoolSize + (n - p)) = Multiples(PoolSize) + Multiples(n - p)
      BY ONLY <3>1, <3>4, MultiplesAdd
    <3>3. QED
      BY <2>1, <3>2
  <2>8. QED
    BY <2>1, <2>3, <2>6, <2>7
<1>10. QED
  BY <1>3, <1>4, <1>8, <1>9 DEF PoolTotals
-----------------------------------------------------------------------------
(* The RaftLib programs: what the producers fill arrives or is under way.   *)

Sinks == {Correct, Mistake} \cup ({"last"} \X (1 .. 4))

LEMMA ArrivedChange ==
  ASSUME TypeOK, NEW w \in Workers, NEW n \in Nat, handled' = [handled EXCEPT ![w] = n]
  PROVE  /\ Arrived \in Nat
         /\ w \notin Sinks => Arrived' = Arrived
         /\ w \in Sinks => Arrived' = Arrived + (n - handled[w])
<1> DEFINE H(v) == handled[v]
<1> DEFINE I(v) == handled'[v]
<1>1. \A v \in Workers : H(v) \in Nat /\ I(v) = IF v = w THEN n ELSE H(v)
  BY DEF TypeOK
<1>2. Correct \in Workers /\ Mistake \in Workers /\ \A i \in 1 .. 4 : <<"last", i>> \in Workers
  BY DEF Workers, Correct, Mistake
<1>3. /\ Arrived = H(Correct) + H(Mistake) + H(<<"last", 1>>) + H(<<"last", 2>>) + H(<<"last", 3>>) + H(<<"last", 4>>)
      /\ Arrived' = I(Correct) + I(Mistake) + I(<<"last", 1>>) + I(<<"last", 2>>) + I(<<"last", 3>>) + I(<<"last", 4>>)
  BY DEF Arrived
<1> HIDE DEF H, I
<1>4. PICK a \in Nat, b \in Nat : a = H(Correct) /\ b = H(Mistake)
  BY <1>1, <1>2
<1>5. PICK c1 \in Nat, c2 \in Nat, c3 \in Nat, c4 \in Nat :
        c1 = H(<<"last", 1>>) /\ c2 = H(<<"last", 2>>) /\ c3 = H(<<"last", 3>>) /\ c4 = H(<<"last", 4>>)
  <2>1. H(<<"last", 1>>) \in Nat /\ H(<<"last", 2>>) \in Nat /\ H(<<"last", 3>>) \in Nat /\ H(<<"last", 4>>) \in Nat
    BY <1>1, <1>2
  <2>2. QED
    BY ONLY <2>1
<1>6. Arrived = a + b + c1 + c2 + c3 + c4
  BY ONLY <1>3, <1>4, <1>5
<1>7. ASSUME NEW v, NEW h \in Nat, v \in Workers, h = H(v)
      PROVE  I(v) = IF v = w THEN n ELSE h
  BY ONLY <1>1, <1>7
<1>8. /\ I(Correct) = (IF Correct = w THEN n ELSE a) /\ I(Mistake) = (IF Mistake = w THEN n ELSE b)
      /\ I(<<"last", 1>>) = (IF <<"last", 1>> = w THEN n ELSE c1)
      /\ I(<<"last", 2>>) = (IF <<"last", 2>> = w THEN n ELSE c2)
      /\ I(<<"last", 3>>) = (IF <<"last", 3>> = w THEN n ELSE c3)
      /\ I(<<"last", 4>>) = (IF <<"last", 4>> = w THEN n ELSE c4)
  <2>1. \A i \in 1 .. 4 : I(<<"last", i>>) = IF <<"last", i>> = w THEN n ELSE H(<<"last", i>>)
    BY <1>1, <1>2
  <2>2. QED
    BY <1>1, <1>2, <1>4, <1>5, <2>1
<1>9. CASE w \notin Sinks
  <2>1. Correct # w /\ Mistake # w /\ \A i \in 1 .. 4 : <<"last", i>> # w
    BY <1>9 DEF Sinks
  <2>2. Arrived' = a + b + c1 + c2 + c3 + c4
    BY <1>3, <1>8, <2>1
  <2>3. QED
    BY <1>6, <1>9, <2>2
<1>10. Correct # Mistake /\ \A i \in 1 .. 4 : <<"last", i>> # Correct /\ <<"last", i>> # Mistake
  BY DEF Correct, Mistake
<1>11. n \in Int
  OBVIOUS
<1>12. CASE w = Correct
  <2>1. Arrived' = n + b + c1 + c2 + c3 + c4
    BY <1>3, <1>8, <1>10, <1>12
  <2>2. n + b + c1 + c2 + c3 + c4 = (a + b + c1 + c2 + c3 + c4) + (n - a) /\ a = handled[w]
    BY <1>4, <1>12 DEF H
  <2>3. QED
    BY <1>6, <1>12, <2>1, <2>2 DEF Sinks
<1>13. CASE w = Mistake
  <2>1. Arrived' = a + n + c1 + c2 + c3 + c4
    BY <1>3, <1>8, <1>10, <1>13
  <2>2. a + n + c1 + c2 + c3 + c4 = (a + b + c1 + c2 + c3 + c4) + (n - b) /\ b = handled[w]
    BY <1>4, <1>13 DEF H
  <2>3. QED
    BY <1>6, <1>13, <2>1, <2>2 DEF Sinks
<1>14. CASE w \in {"last"} \X (1 .. 4)
  <2>1. PICK i \in 1 .. 4 : w = <<"last", i>>
    BY <1>14
  <2>2. Correct # w /\ Mistake # w
    BY <1>10, <2>1
  <2>3. \A j \in 1 .. 4 : <<"last", j>> = w <=> j = i
    BY <2>1
  <2>4. Arrived' = a + b + (IF i = 1 THEN n ELSE c1) + (IF i = 2 THEN n ELSE c2)
                     + (IF i = 3 THEN n ELSE c3) + (IF i = 4 THEN n ELSE c4)
    BY <1>3, <1>8, <2>2, <2>3
  <2>5. H(w) = (IF i = 1 THEN c1 ELSE IF i = 2 THEN c2 ELSE IF i = 3 THEN c3 ELSE c4)
    BY <1>5, <2>1
  <2>6. Arrived' = (a + b + c1 + c2 + c3 + c4) + (n - H(w))
    <3>1. i = 1 \/ i = 2 \/ i = 3 \/ i = 4
      OBVIOUS
    <3>2. QED
      BY ONLY <2>4, <2>5, <3>1, n \in Nat, a \in Nat, b \in Nat, c1 \in Nat, c2 \in Nat, c3 \in Nat, c4 \in Nat
  <2>7. QED
    BY <1>6, <1>14, <2>6 DEF Sinks, H
<1>15. Arrived \in Nat
  BY <1>6
<1>16. QED
  BY <1>9, <1>12, <1>13, <1>14, <1>15 DEF Sinks

\* The steps of the kernels, as far as the numbers are concerned.
Produces(w) ==
  /\ w[1] = "stage0" /\ pc[w] = "fill" /\ Goto(w, "send")
  /\ Keeps(w, 1) /\ Len(held[w]) = 0
  /\ handled' = [handled EXCEPT ![w] = received] /\ received' = received + 1
  /\ UNCHANGED <<setup, queues, gathered>>

Sends(w) ==
  /\ w[1] = "stage0" /\ pc[w] = "send" /\ Delivers(w, Out(w))
  /\ Goto(w, IF handled[w] >= LastNumber THEN "returned" ELSE "fill")

Forwards(w) ==
  /\ w[1] # "stage0"
  /\ \/ Taken(In(w), 1) /\ Keeps(w, 1) /\ Len(held[w]) = 0 /\ pc[w] = "pop" /\ UNCHANGED <<setup, gathered, received, handled>>
     \/ pc[w] = "push" /\ Delivers(w, Out(w))
     \/ pc[w] = "mistake" /\ Delivers(w, "q1m")
     \/ pc[w] = "inspect" /\ Rests
  /\ \E l \in {"pop", "inspect", "push", "mistake"} : Goto(w, l)

Absorbs(w) ==
  /\ w[1] # "stage0" /\ w \in Sinks
  /\ Taken(In(w), 1) /\ handled' = [handled EXCEPT ![w] = @ + 1]
  /\ UNCHANGED <<setup, pc, held, gathered, received>>

RaftMoves ==
  \/ \E w \in RaftThreads : Produces(w) \/ Sends(w) \/ Forwards(w) \/ Absorbs(w)
  \/ \E w \in RaftThreads : w[1] # "stage0" /\ RunsDry(w)
  \/ Join
  \/ Rests /\ UNCHANGED pc

LEMMA RaftSteps ==
  ASSUME TypeOK, LabelsFit, Raft, [Next]_vars
  PROVE  RaftMoves
<1>0. \A w \in RaftThreads :
        /\ w \in Workers /\ w # Main
        /\ w[1] # "stage0" => In(w) \in QueueNames
        /\ w[1] = "stage0" => Out(w) \in QueueNames
        /\ Out(w) = "none" \/ Out(w) \in QueueNames
  BY RaftQueues, RealQueues
<1>1. ASSUME NEW w \in RaftThreads, Absorb(w), w[1] # "stage0" PROVE RaftMoves
  <2>1. w \in Sinks
    <3>1. w[1] \in {"correct", "mistake", "last"} /\ w \in Workers
      BY <1>0, <1>1, RaftQueues, Apps DEF Absorb, Kernels
    <3>2. QED
      BY <3>1 DEF Workers, Sinks, Main
  <2>2. Pop(w, 1) /\ In(w) \in QueueNames /\ w \in Workers /\ 1 \in Nat
    BY <1>0, <1>1 DEF Absorb
  <2>3. Taken(In(w), 1) /\ UNCHANGED setup
    BY <2>2, TakenByPop
  <2>4. Absorbs(w)
    BY <1>1, <2>1, <2>3 DEF Absorb, Absorbs
  <2>5. QED
    BY <2>4 DEF RaftMoves
<1>2. ASSUME NEW w \in RaftThreads, Take(w), w[1] # "stage0" PROVE RaftMoves
  <2>1. Pop(w, 1) /\ In(w) \in QueueNames /\ w \in Workers /\ 1 \in Nat
    BY <1>0, <1>2 DEF Take
  <2>2. Taken(In(w), 1) /\ pc[w] = "pop" /\ UNCHANGED setup
        /\ Popped(w, 1) \in Seq(Packets) /\ Len(Popped(w, 1)) = 1
    BY <2>1, TakenByPop
  <2>3. Keeps(w, 1)
    <3> DEFINE s == Popped(w, 1)
    <3>1. s \in Seq(Packets) /\ held' = [held EXCEPT ![w] = s] /\ Len(s) = 1
      BY <1>2, <2>2 DEF Take
    <3> HIDE DEF s
    <3>2. Keeps(w, Len(s))
      BY <2>1, <3>1, KeepsHeld
    <3>3. QED
      BY <3>1, <3>2
  <2>4. Len(held[w]) = 0
    <3>1. held[w] = <<>>
      BY <2>1, <2>2 DEF LabelsFit, HeldFor
    <3>2. QED
      BY <3>1
  <2>5. Forwards(w)
    BY <1>2, <2>2, <2>3, <2>4 DEF Forwards, Take
  <2>6. QED
    BY <2>5 DEF RaftMoves
<1>3. ASSUME NEW w \in Workers, NEW k \in QueueNames, Push(w, held[w], k),
             held' = [held EXCEPT ![w] = <<>>], Len(held[w]) = 1,
             UNCHANGED <<gathered, polls, found, toSend, received, handled>>
      PROVE  Delivers(w, k)
  <2>1. held[w] \in Seq(Packets)
    BY DEF TypeOK
  <2>2. Tail(held[w]) \in Seq(Packets) /\ Len(Tail(held[w])) = 0
    <3>1. Tail(held[w]) \in Seq(Packets) /\ Len(Tail(held[w])) = Len(held[w]) - 1
      BY <1>3, <2>1, GivenByPush
    <3>2. QED
      BY <1>3, <3>1
  <2>3. Tail(held[w]) = <<>>
    BY <2>2, Nothing
  <2>4. held' = [held EXCEPT ![w] = Tail(@)]
    BY <1>3, <2>3 DEF TypeOK
  <2>5. QED
    BY <1>3, <2>4, PushHeldDelivers
<1>4. ASSUME NEW w \in RaftThreads, Send(w), w[1] = "stage0" PROVE RaftMoves
  <2>1. Len(held[w]) = 1 /\ w \in Workers /\ Out(w) \in QueueNames
    BY <1>0, <1>4 DEF LabelsFit, HeldFor, Send
  <2>2. Delivers(w, Out(w))
    BY <1>3, <1>4, <2>1 DEF Send
  <2>3. QED
    BY <1>4, <2>2 DEF Send, Sends, RaftMoves
<1>5. ASSUME NEW w \in RaftThreads, PushMistake(w), w[1] # "stage0" PROVE RaftMoves
  <2>1. Len(held[w]) = 1 /\ w \in Workers /\ "q1m" \in QueueNames
    BY <1>0, <1>5, InPlace DEF LabelsFit, HeldFor, PushMistake
  <2>2. Delivers(w, "q1m")
    BY <1>3, <1>5, <2>1 DEF PushMistake
  <2>3. QED
    BY <1>5, <2>2 DEF PushMistake, Forwards, RaftMoves
<1>6. ASSUME NEW w \in RaftThreads, PushHeld(w, "pop"), w[1] # "stage0" PROVE RaftMoves
  <2>1. w \in Workers /\ w[1] \in {"stage1", "stage2"} /\ Out(w) \in QueueNames
    <3>1. w \in Workers /\ w[1] \in {"stage1", "stage2"}
      BY <1>0, <1>6 DEF LabelsFit, LabelFor, PushHeld
    <3>2. QED
      BY <3>1, RaftQueues DEF QueueNames
  <2>2. Delivers(w, Out(w))
    BY <1>6, <2>1, PushHeldDelivers DEF PushHeld
  <2>3. \E l \in {"pop", "inspect", "push", "mistake"} : Goto(w, l)
    BY <1>6 DEF PushHeld
  <2>4. QED
    BY <1>6, <2>2, <2>3 DEF PushHeld, Forwards, RaftMoves
<1>7. ASSUME NEW w \in RaftThreads, Inspect(w), w[1] # "stage0" PROVE RaftMoves
  BY <1>7 DEF Inspect, Forwards, Rests, RaftMoves
<1>8. ASSUME NEW w \in RaftThreads, Produce(w), w[1] = "stage0" PROVE RaftMoves
  <2> DEFINE s == <<(received % PoolSize) + 1>>
  <2>1. s \in Seq(Packets) /\ Len(s) = 1
    <3>1. PoolSize \in Nat \ {0} /\ received \in Nat
      BY NetworkAssumption DEF TypeOK
    <3>2. (received % PoolSize) + 1 \in 1 .. PoolSize
      BY ONLY <3>1
    <3>3. QED
      BY <3>2 DEF Packets
  <2>2. held' = [held EXCEPT ![w] = s] /\ w \in Workers
    BY <1>0, <1>8 DEF Produce
  <2> HIDE DEF s
  <2>3. Keeps(w, 1)
    BY <2>1, <2>2, KeepsHeld
  <2>4. Len(held[w]) = 0
    <3>1. held[w] = <<>>
      BY <1>8, <2>2 DEF LabelsFit, HeldFor, Produce
    <3>2. QED
      BY <3>1
  <2>5. Produces(w)
    BY <1>8, <2>3, <2>4 DEF Produce, Produces
  <2>6. QED
    BY <2>5 DEF RaftMoves
<1>9. ASSUME NEW w \in RaftThreads, RunsDry(w), w[1] # "stage0" PROVE RaftMoves
  BY <1>9 DEF RaftMoves
<1>10. CASE UNCHANGED vars
  BY <1>10 DEF vars, Rests, RaftMoves
<1>11. CASE Join
  BY <1>11 DEF RaftMoves
<1>12. QED
  BY <1>1, <1>2, <1>4, <1>5, <1>6, <1>7, <1>8, <1>9, <1>10, <1>11, Cases, Apps

\* What the producers filled is under way or has arrived.
RaftBalance == Raft => received = Arrived + InFlight

LEMMA StepRaftBalance ==
  ASSUME TypeOK, RaftMoves, RaftBalance, Raft, \A w \in RaftThreads : w \in Workers
  PROVE  RaftBalance'
<1>1. InFlight \in Nat /\ received \in Nat /\ Arrived \in Nat
  <2>1. Main \in Workers /\ handled[Main] \in Nat
    BY InPlace DEF TypeOK
  <2>2. \A i \in 1 .. 4 : <<"last", i>> \in Workers
    BY DEF Workers
  <2>3. handled[Correct] \in Nat /\ handled[Mistake] \in Nat /\ \A i \in 1 .. 4 : handled[<<"last", i>>] \in Nat
    BY <2>2, InPlace DEF TypeOK
  <2>4. PICK c1 \in Nat, c2 \in Nat, c3 \in Nat, c4 \in Nat :
          c1 = handled[<<"last", 1>>] /\ c2 = handled[<<"last", 2>>] /\ c3 = handled[<<"last", 3>>]
          /\ c4 = handled[<<"last", 4>>]
    BY <2>3
  <2>5. PICK a \in Nat, b \in Nat : a = handled[Correct] /\ b = handled[Mistake]
    BY <2>3
  <2>6. Arrived \in Nat
    BY <2>4, <2>5 DEF Arrived
  <2>7. QED
    BY <2>6, Counts, UnderWay
<1>2. received = Arrived + InFlight
  BY DEF RaftBalance
<1> DEFINE Goal == received' = Arrived' + InFlight'
<1>3. ASSUME UNCHANGED <<received, handled>>, InFlight' = InFlight PROVE Goal
  BY <1>2, <1>3 DEF Arrived
<1>4. ASSUME NEW w \in Workers, Produces(w) PROVE Goal
  <2>1. InFlight' = InFlight + 1
    <3>1. PICK x \in Nat, y \in Nat, z \in Nat : x = QueuedIn(queues) /\ y = HeldBy(held) /\ z = Len(gathered)
      BY QueueSums, HeldSums, Counts
    <3>2. QueuedIn(queues') = x /\ HeldBy(held') = y - 0 + 1 /\ Len(gathered') = z
      BY <1>4, <3>1 DEF Produces, Keeps
    <3>3. x = x + 0 /\ y - 0 + 1 = y + 1 /\ z = z + 0 /\ 0 \in Int /\ 1 \in Int /\ 0 + 1 + 0 = 1
      OBVIOUS
    <3>4. Shifts(0, 1, 0)
      BY <3>1, <3>2, <3>3 DEF Shifts
    <3>5. InFlight' = InFlight + (0 + 1 + 0)
      BY <3>3, <3>4, Flow
    <3>6. QED
      BY <3>3, <3>5
  <2>2. Arrived' = Arrived
    <3>1. w \notin Sinks
      BY <1>4 DEF Produces, Sinks, Correct, Mistake
    <3>2. handled' = [handled EXCEPT ![w] = received]
      BY <1>4 DEF Produces
    <3>3. QED
      BY <1>1, <1>4, <3>1, <3>2, ArrivedChange
  <2>3. received' = received + 1
    BY <1>4 DEF Produces
  <2>4. QED
    BY <1>1, <1>2, <2>1, <2>2, <2>3
<1>5. ASSUME NEW w \in Workers, NEW k, Delivers(w, k) PROVE Goal
  <2>1. InFlight' = InFlight
    BY <1>5, DeliversShifts
  <2>2. QED
    BY <1>3, <1>5, <2>1 DEF Delivers
<1>6. ASSUME NEW w \in Workers, NEW k, Taken(k, 1), Keeps(w, 1), Len(held[w]) = 0,
             UNCHANGED <<gathered, received, handled>>
      PROVE  Goal
  <2>1. 1 \in Nat /\ 1 - 1 = 0 /\ InFlight + 0 = InFlight
    BY <1>1
  <2>2. InFlight' = InFlight + (1 - 1)
    BY <1>6, <2>1, TakenShifts
  <2>3. QED
    BY <1>3, <1>6, <2>1, <2>2
<1>7. ASSUME Rests PROVE Goal
  <2>1. InFlight' = InFlight /\ UNCHANGED <<received, handled>>
    BY <1>7 DEF Rests, InFlight
  <2>2. QED
    BY <1>3, <2>1
<1>8. ASSUME NEW w \in Workers, Sends(w) \/ Forwards(w) PROVE Goal
  <2>1. CASE Sends(w)
    BY <1>5, <1>8, <2>1 DEF Sends
  <2>2. CASE Forwards(w)
    <3>1. CASE Rests
      BY <1>7, <3>1
    <3>2. CASE \E k : Delivers(w, k)
      BY <1>5, <1>8, <3>2
    <3>3. CASE Taken(In(w), 1) /\ Keeps(w, 1) /\ Len(held[w]) = 0 /\ UNCHANGED <<gathered, received, handled>>
      BY <1>6, <1>8, <3>3
    <3>4. QED
      BY <2>2, <3>1, <3>2, <3>3 DEF Forwards
  <2>3. QED
    BY <1>8, <2>1, <2>2
<1>9. ASSUME NEW w \in Workers, Absorbs(w) PROVE Goal
  <2>1. PICK x \in Nat, y \in Nat, z \in Nat : x = QueuedIn(queues) /\ y = HeldBy(held) /\ z = Len(gathered)
    BY QueueSums, HeldSums, Counts
  <2>2. QueuedIn(queues') = x - 1 /\ HeldBy(held') = y /\ Len(gathered') = z
    BY <1>9, <2>1 DEF Absorbs, Taken
  <2>3. x - 1 = x + (-1) /\ y = y + 0 /\ z = z + 0 /\ 0 \in Int /\ -1 \in Int /\ -1 + 0 + 0 = -1
    OBVIOUS
  <2>4. Shifts(-1, 0, 0)
    BY <2>1, <2>2, <2>3 DEF Shifts
  <2>5. InFlight' = InFlight + (-1 + 0 + 0)
    BY <2>3, <2>4, Flow
  <2>6. PICK h \in Nat : h = handled[w]
    BY DEF TypeOK
  <2>7. PICK m \in Nat : m = h + 1
    OBVIOUS
  <2>71. handled' = [handled EXCEPT ![w] = m] /\ m - h = 1 /\ w \in Sinks /\ received' = received
    BY <1>9, <2>6, <2>7 DEF Absorbs
  <2>8. Arrived' = Arrived + (m - handled[w])
    BY ONLY <1>9, <2>71, TypeOK, ArrivedChange
  <2>9. Arrived' = Arrived + 1 /\ InFlight' = InFlight - 1
    BY <1>1, <2>3, <2>5, <2>6, <2>71, <2>8
  <2>10. QED
    BY <1>1, <1>2, <2>71, <2>9
<1>10. ASSUME NEW w, RunsDry(w) PROVE Goal
  BY <1>7, <1>10 DEF RunsDry, Rests
<1>11. ASSUME Join PROVE Goal
  BY <1>7, <1>11 DEF Join, Rests
<1>12. Goal
  BY <1>4, <1>7, <1>8, <1>9, <1>10, <1>11 DEF RaftMoves
<1>13. QED
  BY <1>12 DEF RaftBalance

LEMMA NothingUnderWay ==
  ASSUME \A q \in QueueNames : queues[q] = <<>>, \A w \in Workers : held[w] = <<>>, gathered = <<>>
  PROVE  InFlight = 0
<1>1. Len(<<>>) = 0
  OBVIOUS
<1>2. /\ \A q \in QueueNames : Len(queues[q]) = 0
      /\ \A w \in Workers : Len(held[w]) = 0
      /\ Len(gathered) = 0
  BY <1>1
<1>3. QueuedIn(queues) = Four(0, 0, 0, 0) + Four(0, 0, 0, 0)
  BY <1>2, InPlace DEF QueuedIn
<1>4. HeldByOthers(held) = Four(0, 0, 0, 0)
  BY <1>2, InPlace DEF HeldByOthers
<1>5. Four(0, 0, 0, 0) = 0
  BY DEF Four
<1>6. \A s \in {"stage0", "stage1", "stage2", "last"} : HeldByStage(held, s) = 0
  <2>1. TAKE s \in {"stage0", "stage1", "stage2", "last"}
  <2>2. \A i \in 1 .. 4 : <<s, i>> \in Workers
    BY DEF Workers
  <2>3. Len(held[<<s, 1>>]) = 0 /\ Len(held[<<s, 2>>]) = 0 /\ Len(held[<<s, 3>>]) = 0 /\ Len(held[<<s, 4>>]) = 0
    BY <1>2, <2>2
  <2>4. QED
    BY <1>5, <2>3 DEF HeldByStage
<1>7. HeldBy(held) = 0 + 0
  BY <1>4, <1>5, <1>6 DEF HeldBy
<1>8. QED
  BY <1>2, <1>3, <1>5, <1>7 DEF InFlight

\* At first nothing is under way and nobody is at the end.
LEMMA InitRaft ==
  ASSUME Init
  PROVE  AllBack /\ RaftBalance
<1>1. TypeOK
  BY InitTyped
<1>2. AllBack
  <2>1. CASE Raft
    <3>1. Main \in Threads
      BY <2>1 DEF Threads
    <3>2. pc[Main] = "join"
      BY <2>1, <3>1, InPlace DEF Init, Main
    <3>3. QED
      BY <3>2 DEF AllBack
  <2>2. CASE ~Raft
    <3>1. setup.app \in {"firewall", "pipeline"}
      BY <1>1, <2>2, Apps
    <3>2. Main \in Threads
      BY <3>1 DEF Threads
    <3>3. pc[Main] = "fill"
      BY <2>2, <3>2, InPlace DEF Init
    <3>4. QED
      BY <3>3 DEF AllBack
  <2>3. QED
    BY <2>1, <2>2
<1>3. ASSUME Raft PROVE received = Arrived + InFlight
  <2>2. /\ \A q \in QueueNames : queues[q] = <<>>
        /\ \A w \in Workers : held[w] = <<>>
        /\ gathered = <<>> /\ received = 0 /\ \A w \in Workers : handled[w] = 0
    BY <1>3 DEF Init
  <2>6. \A i \in 1 .. 4 : <<"last", i>> \in Workers
    BY DEF Workers
  <2>9. InFlight = 0
    BY <2>2, NothingUnderWay
  <2>10. handled[<<"last", 1>>] = 0 /\ handled[<<"last", 2>>] = 0 /\ handled[<<"last", 3>>] = 0
         /\ handled[<<"last", 4>>] = 0 /\ handled[Correct] = 0 /\ handled[Mistake] = 0
    BY <2>2, <2>6, InPlace
  <2>11. Arrived = 0 + 0 + 0 + 0 + 0 + 0
    BY <2>10 DEF Arrived
  <2>12. QED
    BY <2>2, <2>9, <2>11
<1>4. QED
  BY <1>2, <1>3 DEF RaftBalance

\* Where a kernel's packets go.
Onto(u) == {Out(u)} \cup (IF setup.app = "rl_firewall" /\ u[1] = "stage1" THEN {"q1m"} ELSE {})

\* Kernels take what is passed on, and those that do come after those that pass it.
LEMMA Downstream ==
  ASSUME TypeOK, Raft, NEW u \in RaftThreads, NEW k \in Onto(u) \cap QueueNames
  PROVE  /\ \E w \in RaftThreads : w[1] # "stage0" /\ In(w) = k
         /\ \A w \in RaftThreads : w[1] # "stage0" /\ In(w) = k => u[1] \in Before(w)
<1>1. /\ setup.app \in {"rl_firewall", "rl_pipeline", "rl_ember", "rl_fir"}
      /\ setup.stage1 \in 1 .. 4 /\ setup.stage2 \in 1 .. 4
  BY NetworkAssumption DEF TypeOK, Raft
<1>2. \A s, n : n \in 1 .. 4 => <<s, 1>> \in Copies(s, n)
  BY DEF Copies
<1>3. k \in {"q01", "q1c", "q1m", "q12", "q23"}
  BY RaftQueues DEF Onto, QueueNames
<1>4. \E w \in RaftThreads : w[1] # "stage0" /\ In(w) = k
  <2>1. CASE setup.app = "rl_firewall"
    <3>1. Correct \in RaftThreads /\ Mistake \in RaftThreads /\ <<"stage1", 1>> \in RaftThreads
      BY <1>1, <1>2, <2>1 DEF RaftThreads
    <3>2. In(Correct) = "q1c" /\ In(Mistake) = "q1m" /\ In(<<"stage1", 1>>) = "q01"
      BY <3>1, RaftQueues DEF Correct, Mistake
    <3>3. k \in {"q01", "q1c", "q1m"}
      BY <2>1, RaftQueues DEF Onto, Kernels, QueueNames
    <3>4. QED
      BY <3>1, <3>2, <3>3 DEF Correct, Mistake
  <2>2. CASE setup.app \in {"rl_pipeline", "rl_fir"}
    <3>1. <<"last", 1>> \in RaftThreads /\ <<"stage1", 1>> \in RaftThreads /\ <<"stage2", 1>> \in RaftThreads
      BY <1>1, <1>2, <2>2 DEF RaftThreads
    <3>2. In(<<"last", 1>>) = "q23" /\ In(<<"stage1", 1>>) = "q01" /\ In(<<"stage2", 1>>) = "q12"
      BY <2>2, <3>1, RaftQueues
    <3>3. k \in {"q01", "q12", "q23"}
      BY <2>2, RaftQueues DEF Onto, Kernels, QueueNames
    <3>4. QED
      BY <3>1, <3>2, <3>3
  <2>3. CASE setup.app = "rl_ember"
    <3>1. <<"last", 1>> \in RaftThreads
      BY <1>1, <1>2, <2>3 DEF RaftThreads
    <3>2. In(<<"last", 1>>) = "q01"
      BY <2>3, <3>1, RaftQueues
    <3>3. k \in {"q01"}
      BY <2>3, RaftQueues DEF Onto, Kernels, QueueNames
    <3>4. QED
      BY <3>1, <3>2, <3>3
  <2>4. QED
    BY <1>1, <2>1, <2>2, <2>3
<1>5. ASSUME NEW w \in RaftThreads, w[1] # "stage0", In(w) = k PROVE u[1] \in Before(w)
  <2>1. w[1] \in Kernels /\ u[1] \in Kernels
    BY RaftQueues
  <2>2. CASE setup.app = "rl_firewall"
    BY <1>5, <2>1, <2>2, RaftQueues DEF Onto, Kernels, QueueNames, Before
  <2>3. CASE setup.app \in {"rl_pipeline", "rl_fir"}
    BY <1>5, <2>1, <2>3, RaftQueues DEF Onto, Kernels, QueueNames, Before
  <2>4. CASE setup.app = "rl_ember"
    BY <1>5, <2>1, <2>4, RaftQueues DEF Onto, Kernels, QueueNames, Before
  <2>5. QED
    BY <1>1, <2>2, <2>3, <2>4
<1>6. QED
  BY <1>4, <1>5

\* A kernel that has come to its end has left nothing in its queue, and those
\* before it have come to theirs.
Finished(w) ==
  /\ queues[In(w)] = <<>>
  /\ \A u \in RaftThreads : u[1] \in Before(w) => pc[u] = "returned"

Ending ==
  /\ \A q \in QueueNames : queues[q] # <<>> => \E w \in RaftThreads : w[1] # "stage0" /\ In(w) = q
  /\ \A w \in RaftThreads : w[1] # "stage0" /\ pc[w] = "returned" => Finished(w)

\* Which queue gets a packet, and whose.
LEMMA QueueGrows ==
  ASSUME TypeOK, TypeOK', LabelsFit, Raft, RaftMoves, NEW k \in QueueNames
  PROVE  \/ queues'[k] = queues[k]
         \/ queues[k] # <<>>
         \/ \E u \in RaftThreads : k \in Onto(u) /\ pc[u] # "returned"
<1>0. \A w \in RaftThreads : w \in Workers /\ w # Main
  BY RaftQueues
<1> DEFINE Goal == \/ queues'[k] = queues[k] \/ queues[k] # <<>>
                   \/ \E u \in RaftThreads : k \in Onto(u) /\ pc[u] # "returned"
<1>1. ASSUME NEW u \in RaftThreads, NEW j, Delivers(u, j), j \in Onto(u), pc[u] # "returned" PROVE Goal
  <2>1. k = j \/ queues'[k] = queues[k]
    BY <1>1 DEF Delivers, Given
  <2>2. QED
    BY <1>1, <2>1
<1>2. ASSUME NEW j, NEW n, Taken(j, n) PROVE Goal
  <2>1. n \in Nat \ {0} /\ Len(queues'[j]) = Len(queues[j]) - n /\ (k = j \/ queues'[k] = queues[k])
    BY <1>2 DEF Taken
  <2>2. k = j => queues[k] # <<>>
    <3>1. SUFFICES ASSUME k = j, queues[k] = <<>> PROVE FALSE
      OBVIOUS
    <3>2. Len(queues'[k]) \in Nat /\ Len(<<>>) = 0
      BY DEF TypeOK
    <3>3. Len(queues'[k]) = 0 - n
      BY <2>1, <3>1, <3>2
    <3>4. QED
      BY <2>1, <3>2, <3>3
  <2>3. QED
    BY <2>1, <2>2
<1>3. ASSUME queues' = queues PROVE Goal
  BY <1>3
<1>4. ASSUME NEW w \in RaftThreads, Produces(w) PROVE Goal
  BY <1>3, <1>4 DEF Produces
<1>5. ASSUME NEW w \in RaftThreads, Sends(w) PROVE Goal
  <2>1. Delivers(w, Out(w)) /\ Out(w) \in Onto(w) /\ pc[w] # "returned"
    BY <1>5 DEF Sends, Onto
  <2>2. QED
    BY <1>1, <2>1
<1>6. ASSUME NEW w \in RaftThreads, Forwards(w) PROVE Goal
  <2>1. CASE \E n : Taken(In(w), n)
    BY <1>2, <2>1
  <2>2. CASE pc[w] = "push" /\ Delivers(w, Out(w))
    <3>1. Out(w) \in Onto(w) /\ pc[w] # "returned"
      BY <2>2 DEF Onto
    <3>2. QED
      BY <1>1, <2>2, <3>1
  <2>3. CASE pc[w] = "mistake" /\ Delivers(w, "q1m")
    <3>1. LabelFor(w, pc[w]) /\ w # Main
      BY <1>0 DEF LabelsFit
    <3>2. setup.app = "rl_firewall" /\ w[1] = "stage1"
      BY <2>3, <3>1 DEF LabelFor
    <3>3. "q1m" \in Onto(w) /\ pc[w] # "returned"
      BY <2>3, <3>2 DEF Onto
    <3>4. QED
      BY <1>1, <2>3, <3>3
  <2>4. CASE Rests
    BY <1>3, <2>4 DEF Rests
  <2>5. QED
    BY <1>6, <2>1, <2>2, <2>3, <2>4 DEF Forwards
<1>7. ASSUME NEW w \in RaftThreads, Absorbs(w) PROVE Goal
  BY <1>2, <1>7 DEF Absorbs
<1>8. ASSUME NEW w, RunsDry(w) PROVE Goal
  BY <1>3, <1>8 DEF RunsDry
<1>9. ASSUME Join PROVE Goal
  BY <1>3, <1>9 DEF Join
<1>10. ASSUME Rests PROVE Goal
  BY <1>3, <1>10 DEF Rests
<1> HIDE DEF Goal
<1>11. Goal
  BY <1>4, <1>5, <1>6, <1>7, <1>8, <1>9, <1>10 DEF RaftMoves
<1>12. QED
  BY <1>11 DEF Goal

\* A kernel comes to its end only by running dry.
LEMMA EndsDry ==
  ASSUME TypeOK, TypeOK', LabelsFit, Raft, RaftMoves, NEW w \in RaftThreads, w[1] # "stage0",
         pc[w] # "returned", pc'[w] = "returned"
  PROVE  RunsDry(w)
<1>0. \A v \in RaftThreads : v \in Workers /\ v # Main
  BY RaftQueues
<1>1. ASSUME NEW v \in Workers, NEW l, Goto(v, l) PROVE v = w /\ l = "returned"
  BY <1>0, <1>1, Onward
<1>2. ASSUME UNCHANGED pc PROVE FALSE
  BY <1>2
<1>3. ASSUME NEW v \in RaftThreads, Produces(v) PROVE FALSE
  BY <1>0, <1>1, <1>3 DEF Produces
<1>4. ASSUME NEW v \in RaftThreads, Sends(v) PROVE FALSE
  <2>1. v = w
    BY <1>0, <1>1, <1>4 DEF Sends
  <2>2. QED
    BY <1>4, <2>1 DEF Sends
<1>5. ASSUME NEW v \in RaftThreads, Forwards(v) PROVE FALSE
  <2>1. PICK l \in {"pop", "inspect", "push", "mistake"} : Goto(v, l)
    BY <1>5 DEF Forwards
  <2>2. QED
    BY <1>0, <1>1, <2>1
<1>6. ASSUME NEW v \in RaftThreads, Absorbs(v) PROVE FALSE
  BY <1>2, <1>6 DEF Absorbs
<1>7. ASSUME NEW v \in RaftThreads, RunsDry(v) PROVE v = w
  BY <1>0, <1>1, <1>7 DEF RunsDry
<1>8. ASSUME Join PROVE FALSE
  BY <1>0, <1>1, <1>8, InPlace DEF Join
<1>9. QED
  BY <1>2, <1>3, <1>4, <1>5, <1>6, <1>7, <1>8 DEF RaftMoves

LEMMA StepEnding ==
  ASSUME TypeOK, TypeOK', LabelsFit, AllBack, Raft, Ending, [Next]_vars
  PROVE  Ending'
<1>1. RaftMoves /\ setup' = setup
  BY RaftSteps, SetupStays
<1>2. \A v \in Workers : pc[v] = "returned" => pc'[v] = "returned"
  BY StayReturned
<1>3. \A w \in RaftThreads : w \in Workers /\ w # Main /\ (w[1] # "stage0" => In(w) \in QueueNames)
  BY RaftQueues, RealQueues
<1>4. RaftThreads' = RaftThreads /\ Raft' /\ \A w : In(w)' = In(w)
  BY <1>1 DEF RaftThreads, Raft, In, Route
<1>5. ASSUME NEW q \in QueueNames, queues'[q] # <<>>
      PROVE  \E w \in RaftThreads : w[1] # "stage0" /\ In(w) = q
  <2>1. CASE queues[q] # <<>>
    BY <2>1 DEF Ending
  <2>2. CASE \E u \in RaftThreads : q \in Onto(u)
    BY <2>2, Downstream
  <2>3. QED
    BY <1>1, <1>5, <2>1, <2>2, QueueGrows
<1>6. ASSUME NEW w \in RaftThreads, w[1] # "stage0", pc'[w] = "returned"
      PROVE  queues'[In(w)] = <<>> /\ \A u \in RaftThreads : u[1] \in Before(w) => pc'[u] = "returned"
  <2>1. CASE pc[w] = "returned"
    <3>1. Finished(w)
      BY <1>6, <2>1 DEF Ending
    <3>2. \A u \in RaftThreads : u[1] \in Before(w) => pc'[u] = "returned"
      BY <1>2, <1>3, <3>1 DEF Finished
    <3>3. In(w) \in QueueNames /\ queues[In(w)] = <<>>
      BY <1>3, <1>6, <3>1 DEF Finished
    <3>4. ASSUME NEW u \in RaftThreads, In(w) \in Onto(u), pc[u] # "returned" PROVE FALSE
      <4>1. u[1] \in Before(w)
        BY <1>6, <3>3, <3>4, Downstream
      <4>2. QED
        BY <3>1, <3>4, <4>1 DEF Finished
    <3>5. queues'[In(w)] = queues[In(w)]
      BY <1>1, <3>3, <3>4, QueueGrows
    <3>6. QED
      BY <3>2, <3>3, <3>5
  <2>2. CASE pc[w] # "returned"
    <3>1. RunsDry(w)
      BY <1>1, <1>6, <2>2, EndsDry
    <3>2. queues[In(w)] = <<>> /\ queues' = queues /\ \A u \in Threads : u[1] \in Before(w) => pc[u] = "returned"
      BY <3>1 DEF RunsDry
    <3>3. RaftThreads \subseteq Threads
      BY Apps DEF Threads
    <3>4. QED
      BY <1>2, <1>3, <3>2, <3>3
  <2>3. QED
    BY <2>1, <2>2
<1>7. \A w : Before(w)' = Before(w)
  BY DEF Before
<1>8. \A w \in RaftThreads : w[1] # "stage0" /\ pc'[w] = "returned" => Finished(w)'
  BY <1>4, <1>6, <1>7 DEF Finished
<1>9. QED
  BY <1>4, <1>5, <1>8 DEF Ending

\* The producers that have filled the last packet they will.
Producers == {w \in RaftThreads : w[1] = "stage0"}
Over == {w \in Producers : pc[w] \in {"send", "returned"} /\ handled[w] >= LastNumber}

Stopping ==
  /\ IsFiniteSet(Over)
  /\ received < LastNumber => Over = {}
  /\ received >= LastNumber => Cardinality(Over) = received - LastNumber
  /\ \A w \in Producers : pc[w] = "returned" => w \in Over

LEMMA StepStopping ==
  ASSUME TypeOK, LabelsFit, Raft, Stopping, [Next]_vars
  PROVE  Stopping'
<1>0. /\ \A w \in RaftThreads : w \in Workers /\ w # Main
      /\ \A w \in Workers : handled[w] \in Nat
      /\ received \in Nat /\ LastNumber \in Nat
  <2>1. setup.numPackets \in 1 .. Word - 1 /\ Word \in Nat /\ received \in Nat
    BY Counts
  <2>2. LastNumber \in Nat
    BY <2>1 DEF LastNumber
  <2>3. QED
    BY <2>1, <2>2, Counts, RaftQueues
<1>1. /\ RaftMoves /\ Producers' = Producers /\ LastNumber' = LastNumber
  BY RaftSteps, SetupStays, SameSetup DEF Producers
<1> DEFINE IsOver(w) == pc[w] \in {"send", "returned"} /\ handled[w] >= LastNumber
<1> DEFINE WillBe(w) == pc'[w] \in {"send", "returned"} /\ handled'[w] >= LastNumber
<1>2. Over = {w \in Producers : IsOver(w)} /\ Over' = {w \in Producers : WillBe(w)}
  BY <1>1 DEF Over
<1>3. ASSUME received' = received, \A v \in Producers : WillBe(v) = IsOver(v),
             \A v \in Producers : pc'[v] = "returned" => v \in Over'
      PROVE  Stopping'
  <2>1. Over' = Over
    BY <1>2, <1>3
  <2>2. QED
    BY <1>1, <1>3, <2>1 DEF Stopping
<1>4. ASSUME received' = received, \A v \in Producers : pc'[v] = pc[v] /\ handled'[v] = handled[v]
      PROVE  Stopping'
  <2>1. \A v \in Producers : WillBe(v) = IsOver(v)
    BY <1>4
  <2>2. \A v \in Producers : pc'[v] = "returned" => v \in Over'
    BY <1>2, <1>4, <2>1 DEF Stopping
  <2>3. QED
    BY <1>3, <1>4, <2>1, <2>2
<1>5. ASSUME NEW w \in Workers, w \notin Producers, NEW l, Goto(w, l), UNCHANGED <<received, handled>> PROVE Stopping'
  <2>1. \A v \in Producers : v \in Workers \ {w}
    BY <1>0, <1>5 DEF Producers
  <2>2. \A v \in Producers : pc'[v] = pc[v]
    BY <1>5, <2>1, Onward
  <2>3. QED
    BY <1>4, <1>5, <2>2
<1>6. ASSUME NEW w \in RaftThreads, w[1] # "stage0" PROVE w \in Workers /\ w \notin Producers
  BY <1>0, <1>6 DEF Producers
<1>7. ASSUME NEW w \in RaftThreads, Forwards(w) PROVE Stopping'
  <2>1. PICK l : Goto(w, l)
    BY <1>7 DEF Forwards
  <2>2. UNCHANGED <<received, handled>> /\ w[1] # "stage0"
    BY <1>7 DEF Forwards, Delivers, Rests
  <2>3. QED
    BY <1>5, <1>6, <2>1, <2>2
<1>8. ASSUME NEW w \in RaftThreads, w[1] # "stage0", RunsDry(w) PROVE Stopping'
  BY <1>5, <1>6, <1>8 DEF RunsDry
<1>9. ASSUME Join PROVE Stopping'
  BY <1>0, <1>5, <1>9, InPlace DEF Join, Producers
<1>10. ASSUME NEW w \in RaftThreads, Absorbs(w) PROVE Stopping'
  <2>1. \A v \in Producers : handled'[v] = handled[v]
    BY <1>0, <1>6, <1>10 DEF Absorbs, TypeOK, Producers
  <2>2. QED
    BY <1>4, <1>10, <2>1 DEF Absorbs
<1>11. CASE Rests /\ UNCHANGED pc
  BY <1>4, <1>11 DEF Rests
<1>12. ASSUME NEW w \in RaftThreads, Sends(w) PROVE Stopping'
  <2>1. /\ pc[w] = "send" /\ pc'[w] = (IF handled[w] >= LastNumber THEN "returned" ELSE "fill")
        /\ UNCHANGED <<received, handled>> /\ \A v \in Workers \ {w} : pc'[v] = pc[v]
    BY <1>0, <1>12, Onward DEF Sends, Delivers
  <2>2. \A v \in Producers : v \in Workers
    BY <1>0 DEF Producers
  <2>3. \A v \in Producers : WillBe(v) = IsOver(v)
    BY <2>1, <2>2
  <2>4. \A v \in Producers : pc'[v] = "returned" => v \in Over'
    <3>1. TAKE v \in Producers
    <3>2. CASE v = w
      BY <1>2, <2>1, <3>2
    <3>3. CASE v # w
      BY <1>2, <2>1, <2>2, <2>3, <3>3 DEF Stopping
    <3>4. QED
      BY <3>2, <3>3
  <2>5. QED
    BY <1>3, <2>1, <2>3, <2>4
<1>13. ASSUME NEW w \in RaftThreads, Produces(w) PROVE Stopping'
  <2>1. /\ pc[w] = "fill" /\ pc'[w] = "send" /\ handled'[w] = received /\ received' = received + 1
        /\ \A v \in Workers \ {w} : pc'[v] = pc[v] /\ handled'[v] = handled[v]
    BY <1>0, <1>13, Onward DEF Produces, TypeOK
  <2>2. w \in Producers /\ \A v \in Producers : v \in Workers
    BY <1>0, <1>13 DEF Produces, Producers
  <2>3. \A v \in Producers \ {w} : WillBe(v) = IsOver(v)
    BY <2>1, <2>2
  <2>4. w \notin Over /\ (WillBe(w) <=> received >= LastNumber)
    BY <1>2, <2>1
  <2>5. \A v \in Producers : pc'[v] = "returned" => v \in Over'
    <3>1. TAKE v \in Producers
    <3>2. CASE v = w
      BY <2>1, <3>2
    <3>3. CASE v # w
      BY <1>2, <2>1, <2>2, <2>3, <3>3 DEF Stopping
    <3>4. QED
      BY <3>2, <3>3
  <2>6. CASE received < LastNumber
    <3>1. ~WillBe(w)
      BY <1>0, <2>4, <2>6
    <3>2. Over' = Over
      BY <1>2, <2>3, <2>4, <3>1
    <3>3. Over = {} /\ IsFiniteSet(Over)
      BY <2>6 DEF Stopping
    <3>4. Cardinality(Over') = 0
      BY <3>2, <3>3, FS_EmptySet
    <3>5. received' >= LastNumber => received' - LastNumber = 0
      BY <1>0, <2>1, <2>6
    <3>6. IsFiniteSet(Over') /\ (received' < LastNumber' => Over' = {})
          /\ (received' >= LastNumber' => Cardinality(Over') = received' - LastNumber')
      BY <1>1, <3>2, <3>3, <3>4, <3>5
    <3>7. QED
      BY <1>1, <2>5, <3>6 DEF Stopping
  <2>7. CASE received >= LastNumber
    <3>1. Over' = Over \cup {w}
      BY <1>2, <2>2, <2>3, <2>4, <2>7
    <3>2. IsFiniteSet(Over) /\ Cardinality(Over) = received - LastNumber
      BY <2>7 DEF Stopping
    <3>3. IsFiniteSet(Over') /\ Cardinality(Over') = Cardinality(Over) + 1
      BY <2>4, <3>1, <3>2, FS_AddElement
    <3>4. received' - LastNumber = received - LastNumber + 1 /\ ~(received' < LastNumber)
      BY <1>0, <2>1, <2>7
    <3>5. QED
      BY <1>1, <2>5, <3>2, <3>3, <3>4 DEF Stopping
  <2>8. QED
    BY <1>0, <2>6, <2>7
<1>14. QED
  BY <1>1, <1>7, <1>8, <1>9, <1>10, <1>11, <1>12, <1>13 DEF RaftMoves

LEMMA InitEnds ==
  ASSUME Init, Raft
  PROVE  Ending /\ Stopping
<1>1. TypeOK
  BY InitTyped
<1>2. ASSUME NEW w \in RaftThreads PROVE pc[w] \in {"fill", "pop"}
  <2>1. w \in Workers /\ w # Main
    BY <1>1, RaftQueues
  <2>2. w \in Threads
    BY Apps, <1>1 DEF Threads
  <2>3. QED
    BY <2>1, <2>2 DEF Init
<1>3. \A q \in QueueNames : queues[q] = <<>>
  BY DEF Init
<1>4. Ending
  BY <1>2, <1>3 DEF Ending
<1>5. Over = {}
  BY <1>2 DEF Over, Producers
<1>6. LastNumber \in Nat \ {0} /\ received = 0
  <2>1. setup.numPackets \in 1 .. Word - 1 /\ Word \in Nat
    BY <1>1, Counts
  <2>2. QED
    BY <2>1 DEF LastNumber, Init
<1>7. \A w \in Producers : pc[w] # "returned"
  BY <1>2 DEF Producers
<1>8. IsFiniteSet({})
  BY FS_EmptySet
<1>9. ~(received >= LastNumber)
  BY <1>6
<1>10. QED
  BY <1>4, <1>5, <1>7, <1>8, <1>9 DEF Stopping

-----------------------------------------------------------------------------
(* The mistakes the kernel of RaftLib's firewall sends the other way.       *)

\* One stage 1, and a stream that cannot hold the pool.
OneInspector == setup.app = "rl_firewall" /\ setup.stage1 = 1 /\ setup.capacity + 2 <= PoolSize

LEMMA FirewallKernels ==
  ASSUME TypeOK, OneInspector
  PROVE  /\ RaftThreads = {Stage0, Correct, Mistake, Sorter} /\ Raft /\ RaftThreads \subseteq Workers
         /\ Out(Stage0) = "q01" /\ In(Sorter) = "q01" /\ Out(Sorter) = "q1c"
         /\ In(Correct) = "q1c" /\ Out(Correct) = "none" /\ In(Mistake) = "q1m" /\ Out(Mistake) = "none"
         /\ Stage0[1] = "stage0" /\ Correct[1] = "correct" /\ Mistake[1] = "mistake" /\ Sorter[1] = "stage1"
         /\ LastNumber = setup.numPackets
<1>1. setup.app = "rl_firewall" /\ setup.stage1 = 1 /\ Raft
  BY DEF OneInspector, Raft
<1>2. Copies("stage1", 1) = {Sorter}
  BY DEF Copies, Sorter
<1>3. RaftThreads = {Stage0, Correct, Mistake, Sorter}
  BY <1>1, <1>2 DEF RaftThreads
<1>4. Stage0[1] = "stage0" /\ Correct[1] = "correct" /\ Mistake[1] = "mistake" /\ Sorter[1] = "stage1"
  BY DEF Stage0, Correct, Mistake, Sorter
<1>5. RaftThreads \subseteq Workers
  BY <1>3, InPlace
<1>6. QED
  BY <1>1, <1>3, <1>4, <1>5, RaftQueues DEF LastNumber

\* The packets before number i have been inspected; those from there to the last
\* one filled are in the kernel that inspects, in its queue or with stage 0, in
\* turn, and their checksums are as they were filled.
Uninspected == IF pc[Sorter] = "inspect" THEN 1 ELSE 0
Unpassed    == IF pc[Sorter] = "mistake" THEN 1 ELSE 0
Wrong(k)     == k % BadEvery = 0 \/ SrcIP(k) >= Checksums
RightFrom(i) == \A k \in i .. received - 1 : (k % PoolSize) + 1 \in bad <=> Wrong(k)
InspectedTo(i) ==
  /\ i \in Nat
  /\ received = i + Uninspected + Len(queues["q01"]) + Len(held[Stage0])
  /\ Len(queues["q01"]) <= setup.capacity
  /\ pc[Sorter] = "inspect" => InTurn(held[Sorter], i)
  /\ InTurn(queues["q01"], i + Uninspected)
  /\ InTurn(held[Stage0], i + Uninspected + Len(queues["q01"]))
  /\ RightFrom(i)
  /\ i <= Addresses => handled[Mistake] + Len(queues["q1m"]) + Unpassed = Mistakes(i)
Inspecting == OneInspector => \E i \in Nat : InspectedTo(i)

\* Packets less than a pool apart are different ones.
LEMMA OtherSlot ==
  ASSUME NEW d \in Nat \ {0}, NEW k \in Nat, NEW r \in Nat, k < r, r - k < d
  PROVE  k % d # r % d
<1> DEFINE M(x) == x % d
<1> DEFINE D(x) == x \div d
<1>1. PICK a \in 0 .. d - 1, b \in Nat : a = M(k) /\ b = D(k) /\ k = a + b * d
  BY Digits
<1>2. PICK c \in 0 .. d - 1, e \in Nat : c = M(r) /\ e = D(r) /\ r = c + e * d
  BY Digits
<1> HIDE DEF M, D
<1>3. SUFFICES ASSUME a = c PROVE FALSE
  BY <1>1, <1>2 DEF M
<1>4. b * d \in Nat /\ e * d \in Nat /\ r - k = e * d - b * d
  <2>1. b * d \in Nat /\ e * d \in Nat
    OBVIOUS
  <2>2. QED
    BY <1>1, <1>2, <1>3, <2>1
<1>5. e * d - b * d = (e - b) * d
  OBVIOUS
<1>6. e - b >= 1
  <2>1. SUFFICES ASSUME e - b <= 0 PROVE FALSE
    OBVIOUS
  <2>2. (b - e) \in Nat /\ (b - e) * d \in Nat
    BY <2>1
  <2>3. (e - b) * d = -((b - e) * d)
    OBVIOUS
  <2>4. QED
    BY <1>4, <1>5, <2>2, <2>3
<1>7. (e - b) * d = d + (e - b - 1) * d /\ (e - b - 1) * d \in Nat
  <2>1. e - b - 1 \in Nat
    BY <1>6
  <2>2. QED
    BY <2>1
<1>8. QED
  BY <1>4, <1>5, <1>7

\* The first packet whose address is too wide.
LEMMA WideEnough ==
  /\ TooWide \in Nat
  /\ \A i \in Nat : i < Addresses => (SrcIP(i) >= Checksums <=> i >= TooWide)
<1>1. PICK b \in Nat \ {0}, c \in Nat \ {0}, a \in Nat \ {0} : b = Bulk /\ c = Checksums /\ a = Addresses
  BY NetworkAssumption, WidthAssumption
<1>2. c + b - 1 \in Nat
  BY <1>1
<1>3. PICK s \in 0 .. b - 1, t \in Nat : t = (c + b - 1) \div b /\ c + b - 1 = s + t * b
  BY <1>2, Digits
<1>4. TooWide = t * b /\ t * b \in Nat /\ t * b >= c /\ t * b <= c + b - 1
  <2>1. TooWide = t * b
    BY <1>1, <1>3 DEF TooWide
  <2>2. QED
    BY <1>3, <2>1
<1>5. ASSUME NEW i \in Nat, i < a PROVE SrcIP(i) >= c <=> i >= t * b
  <2>1. PICK r \in 0 .. b - 1, q \in Nat : r = i % b /\ i = r + q * b
    BY Digits
  <2>2. PICK y \in Nat, z \in Nat : y = q * b /\ z = t * b
    BY <1>4
  <2>3. y \in 0 .. a - 1 /\ i - r = y
    BY <1>5, <2>1, <2>2
  <2>4. y % a = y
    <3>1. y + 0 * a = y
      BY <2>3
    <3>2. (y + 0 * a) % a = y
      BY ONLY <2>3, <1>1, OfDigits
    <3>3. QED
      BY <3>1, <3>2
  <2>5. SrcIP(i) = y
    BY <1>1, <2>1, <2>3, <2>4 DEF SrcIP
  <2>6. CASE q >= t
    <3>1. (q - t) * b \in Nat /\ y - z = (q - t) * b
      <4>1. q - t \in Nat
        BY <2>6
      <4>2. QED
        BY <2>2, <4>1
    <3>2. y >= z
      BY <3>1
    <3>3. QED
      BY <1>4, <2>1, <2>2, <2>3, <2>5, <3>2
  <2>7. CASE ~(q >= t)
    <3>1. (t - q - 1) * b \in Nat /\ z - y = (t - q - 1) * b + b
      <4>1. t - q - 1 \in Nat
        BY <2>7
      <4>2. QED
        BY <2>2, <4>1
    <3>2. z >= y + b
      BY <3>1
    <3>3. QED
      BY <1>4, <2>1, <2>2, <2>3, <2>5, <3>2
  <2>8. QED
    BY <2>6, <2>7
<1>6. QED
  BY <1>1, <1>4, <1>5

\* One packet more is one mistake more if its checksum is wrong.
LEMMA MistakesGrow ==
  ASSUME NEW i \in Nat, i < Addresses
  PROVE  Mistakes(i) \in Int /\ Mistakes(i + 1) = Mistakes(i) + (IF Wrong(i) THEN 1 ELSE 0)
<1>1. PICK w \in Nat : w = TooWide /\ (SrcIP(i) >= Checksums <=> i >= w)
  BY WideEnough
<1>2. \A k \in Nat : Multiples(k) \in Nat
  BY SomeMultiple
<1>3. Multiples(i + 1) = Multiples(i) + (IF i % BadEvery = 0 THEN 1 ELSE 0)
  <2> DEFINE hits == {k \in 1 .. 1 : (i + k - 1) % BadEvery = 0}
  <2>1. 1 \in 1 .. BadEvery
    BY NetworkAssumption
  <2>2. Multiples(i + 1) = Multiples(i) + Cardinality(hits)
    BY <2>1, MultiplesGrow
  <2>3. \A k \in 1 .. 1 : k = 1 /\ i + k - 1 = i
    OBVIOUS
  <2>4. hits = IF i % BadEvery = 0 THEN {1} ELSE {}
    BY <2>3
  <2>5. Cardinality(hits) = IF i % BadEvery = 0 THEN 1 ELSE 0
    BY <2>4, FS_EmptySet, FS_Singleton
  <2>6. QED
    BY <2>2, <2>5
<1>4. CASE i < w
  <2>1. Mistakes(i) = Multiples(i) /\ Mistakes(i + 1) = Multiples(i + 1)
    BY <1>1, <1>4 DEF Mistakes
  <2>2. QED
    BY <1>1, <1>2, <1>3, <1>4, <2>1 DEF Wrong
<1>5. CASE ~(i < w)
  <2>1. Mistakes(i) = Multiples(w) + (i - w) /\ Mistakes(i + 1) = Multiples(w) + (i + 1 - w)
    <3>1. Multiples(w) \in Nat
      BY <1>2
    <3>2. QED
      BY <1>1, <1>5, <3>1 DEF Mistakes
  <2>2. Wrong(i)
    BY <1>1, <1>5 DEF Wrong
  <2>3. Multiples(w) \in Nat
    BY <1>2
  <2>4. QED
    BY <2>1, <2>2, <2>3
<1>6. QED
  BY <1>4, <1>5

LEMMA StepInspecting ==
  ASSUME TypeOK, LabelsFit, OneInspector, NEW i \in Nat, InspectedTo(i), [Next]_vars
  PROVE  \E j \in Nat : InspectedTo(j)'
<1>0. /\ RaftThreads = {Stage0, Correct, Mistake, Sorter} /\ Raft /\ RaftThreads \subseteq Workers
      /\ Stage0 # Correct /\ Stage0 # Sorter /\ Stage0 # Mistake /\ Correct # Sorter /\ Correct # Mistake
      /\ Sorter # Mistake /\ Main \notin RaftThreads
      /\ {"q01", "q1c", "q1m"} \subseteq QueueNames
      /\ \A w \in Workers : HeldFor(pc[w], held[w]) /\ LabelFor(w, pc[w])
  BY FirewallKernels, InPlace, RaftQueues DEF Stage0, Correct, Mistake, Sorter, LabelsFit
<1>1. setup' = setup /\ PoolSize \in Nat \ {0} /\ BadEvery \in Nat \ {0} /\ setup.capacity \in Nat
      /\ received \in Nat
  BY SetupStays, Counts
<1> DEFINE e == queues["q01"]
<1> DEFINE f == held[Stage0]
<1> DEFINE m == queues["q1m"]
<1>2. PICK le \in Nat, lf \in Nat, lm \in Nat, n \in Nat :
        le = Len(e) /\ lf = Len(f) /\ lm = Len(m) /\ n = handled[Mistake]
  <2>1. Len(e) \in Nat /\ Len(f) \in Nat /\ Len(m) \in Nat /\ handled[Mistake] \in Nat
    BY <1>0, Counts
  <2>2. QED
    BY ONLY <2>1
<1>3. PICK u \in {0, 1}, x \in {0, 1} : u = Uninspected /\ x = Unpassed
  BY DEF Uninspected, Unpassed
<1>4. /\ received = i + u + le + lf /\ le <= setup.capacity
      /\ (pc[Sorter] = "inspect" => InTurn(held[Sorter], i))
      /\ InTurn(e, i + u) /\ InTurn(f, i + u + le) /\ RightFrom(i)
      /\ (i <= Addresses => n + lm + x = Mistakes(i))
  BY <1>2, <1>3 DEF InspectedTo
\* What is left to show.
<1> DEFINE New(j, v, y) ==
      /\ v = Uninspected' /\ y = Unpassed'
      /\ received' = j + v + Len(queues'["q01"]) + Len(held'[Stage0])
      /\ Len(queues'["q01"]) <= setup.capacity
      /\ (pc'[Sorter] = "inspect" => InTurn(held'[Sorter], j))
      /\ InTurn(queues'["q01"], j + v)
      /\ InTurn(held'[Stage0], j + v + Len(queues'["q01"]))
      /\ RightFrom(j)'
      /\ (j <= Addresses => handled'[Mistake] + Len(queues'["q1m"]) + y = Mistakes(j))
<1> DEFINE Goal == \E j \in Nat : InspectedTo(j)'
<1> SUFFICES Goal
  OBVIOUS
<1>5. ASSUME NEW j \in Nat, NEW v, NEW y, New(j, v, y) PROVE Goal
  <2>1. InspectedTo(j)'
    BY <1>1, <1>5 DEF InspectedTo
  <2>2. QED
    BY <2>1
<1> HIDE DEF Goal
\* Steps that touch none of it.
<1>6. ASSUME UNCHANGED <<received, bad>>, queues'["q01"] = e, queues'["q1m"] = m, held'[Stage0] = f,
             handled'[Mistake] = n, pc[Sorter] # "inspect", pc[Sorter] # "mistake",
             pc'[Sorter] # "inspect", pc'[Sorter] # "mistake"
      PROVE  Goal
  <2>1. u = 0 /\ x = 0 /\ Uninspected' = 0 /\ Unpassed' = 0
    BY <1>3, <1>6 DEF Uninspected, Unpassed
  <2>2. RightFrom(i)'
    BY <1>4, <1>6 DEF RightFrom
  <2>3. New(i, 0, 0)
    BY <1>2, <1>4, <1>6, <2>1, <2>2
  <2>4. QED
    BY <1>5, <2>3
<1>7. ASSUME UNCHANGED <<received, bad>>, queues'["q01"] = e, queues'["q1m"] = m, held'[Stage0] = f,
             handled'[Mistake] = n, pc'[Sorter] = pc[Sorter], held'[Sorter] = held[Sorter]
      PROVE  Goal
  <2>1. Uninspected' = u /\ Unpassed' = x
    BY <1>3, <1>7 DEF Uninspected, Unpassed
  <2>2. RightFrom(i)'
    BY <1>4, <1>7 DEF RightFrom
  <2>3. New(i, u, x)
    BY <1>2, <1>4, <1>7, <2>1, <2>2
  <2>4. QED
    BY <1>5, <2>3
<1> HIDE DEF New
<1>8. Len(<<>>) = 0 /\ \A z : Len(<<z>>) = 1
  OBVIOUS
<1>9. CASE Produce(Stage0)
  <2> DEFINE slot == (received % PoolSize) + 1
  <2>1. /\ queues' = queues /\ held' = [held EXCEPT ![Stage0] = <<slot>>] /\ bad' = Remark(<<slot>>)
        /\ handled' = [handled EXCEPT ![Stage0] = received] /\ received' = received + 1
        /\ pc[Stage0] = "fill" /\ Goto(Stage0, "send")
    BY <1>9 DEF Produce
  <2>2. /\ held'[Sorter] = held[Sorter] /\ held'[Stage0] = <<slot>> /\ handled'[Mistake] = n
        /\ pc'[Sorter] = pc[Sorter]
    BY <1>0, <1>2, <2>1, Onward DEF TypeOK
  <2>3. lf = 0 /\ received = i + u + le
    <3>1. f = <<>>
      BY <1>0, <2>1 DEF HeldFor
    <3>2. lf = 0
      BY <1>2, <1>8, <3>1
    <3>3. QED
      BY <1>4, <3>2
  <2>4. InTurn(<<slot>>, i + u + le)
    <3>1. (received + 1 - 1) % PoolSize = received % PoolSize
      BY <1>1
    <3>2. slot = ((received + 1 - 1) % PoolSize) + 1
      BY <3>1
    <3> HIDE DEF slot
    <3>3. DOMAIN <<slot>> = {1} /\ <<slot>>[1] = slot
      OBVIOUS
    <3>4. InTurn(<<slot>>, received)
      BY <3>2, <3>3 DEF InTurn
    <3>5. QED
      BY <2>3, <3>4
  <2>5. bad' = (bad \ {slot}) \cup (IF Wrong(received) THEN {slot} ELSE {})
    <3> HIDE DEF slot
    <3>1. DOMAIN <<slot>> = {1} /\ <<slot>>[1] = slot
      OBVIOUS
    <3>2. received + 1 - 1 = received
      BY <1>1
    <3>3. \A k : Spoilt(k) <=> Wrong(k)
      BY DEF OneInspector, Spoilt, Wrong
    <3>4. QED
      BY <2>1, <3>1, <3>2, <3>3 DEF Remark
  <2>6. RightFrom(i)'
    <3>1. SUFFICES ASSUME NEW k \in i .. received PROVE (k % PoolSize) + 1 \in bad' <=> Wrong(k)
      <4>1. received' - 1 = received
        BY <1>1, <2>1
      <4>2. QED
        BY <4>1 DEF RightFrom
    <3>2. CASE k = received
      BY <2>5, <3>2
    <3>3. CASE k # received
      <4>1. k \in Nat /\ k < received /\ k \in i .. received - 1
        BY <1>1, <3>3
      <4>2. received - k < PoolSize
        <5>1. received - k <= received - i /\ received - i = u + le
          BY <1>1, <2>3
        <5>2. setup.capacity + 2 <= PoolSize
          BY DEF OneInspector
        <5>3. QED
          BY <1>1, <1>4, <5>1, <5>2
      <4>3. k % PoolSize # received % PoolSize
        BY <1>1, <4>1, <4>2, OtherSlot
      <4>4. k % PoolSize \in Int /\ received % PoolSize \in Int
        BY <1>1
      <4>5. (k % PoolSize) + 1 # slot
        BY <4>3, <4>4
      <4>6. (k % PoolSize) + 1 \in bad <=> Wrong(k)
        BY <1>4, <4>1 DEF RightFrom
      <4> HIDE DEF slot
      <4>7. QED
        BY <2>5, <4>5, <4>6
    <3>4. QED
      BY <3>2, <3>3
  <2>7. Uninspected' = u /\ Unpassed' = x
    BY <1>3, <2>2 DEF Uninspected, Unpassed
  <2>8. New(i, u, x)
    <3>1. Len(held'[Stage0]) = 1 /\ queues'["q01"] = e /\ queues'["q1m"] = m
      BY <1>8, <2>1, <2>2
    <3>2. received' = i + u + le + 1
      BY <2>1, <2>3
    <3>3. InTurn(held'[Stage0], i + u + le)
      BY <2>2, <2>4
    <3>4. QED
      BY <1>2, <1>4, <2>2, <2>6, <2>7, <3>1, <3>2, <3>3 DEF New
  <2>9. QED
    BY <1>5, <2>8
<1>10. CASE Send(Stage0)
  <2>1. /\ Push(Stage0, f, "q01") /\ held' = [held EXCEPT ![Stage0] = <<>>] /\ Len(f) = 1
        /\ received' = received /\ handled' = handled /\ pc[Stage0] = "send" /\ \E l : Goto(Stage0, l)
    BY <1>0, <1>10, FirewallKernels DEF Send, HeldFor
  <2>2. i + u \in Nat /\ f \in Seq(Packets) /\ InTurn(queues["q01"], i + u) /\ InTurn(f, (i + u) + Len(queues["q01"]))
    BY <1>0, <1>2, <1>4 DEF TypeOK
  <2> DEFINE a == i + u
  <2> HIDE DEF a
  <2>3. a \in Nat /\ InTurn(queues["q01"], a) /\ InTurn(f, a + Len(queues["q01"]))
    BY <2>2 DEF a
  <2>4. /\ InTurn(queues'["q01"], a) /\ Len(queues'["q01"]) = Len(queues["q01"]) + 1
        /\ \A r \in QueueNames \ {"q01"} : queues'[r] = queues[r]
    BY <1>0, <2>1, <2>2, <2>3, PushTurn
  <2>5. /\ held'[Sorter] = held[Sorter] /\ held'[Stage0] = <<>> /\ handled'[Mistake] = n
        /\ pc'[Sorter] = pc[Sorter] /\ bad' = bad /\ le < setup.capacity
    BY <1>0, <1>2, <2>1, Onward DEF TypeOK, Push
  <2>6. lf = 1
    BY <1>2, <2>1
  <2>7. RightFrom(i)'
    BY <1>4, <2>1, <2>5 DEF RightFrom
  <2>8. Uninspected' = u /\ Unpassed' = x
    BY <1>3, <2>5 DEF Uninspected, Unpassed
  <2>9. New(i, u, x)
    <3>1. Len(held'[Stage0]) = 0 /\ Len(queues'["q01"]) = le + 1 /\ queues'["q1m"] = m
      BY <1>0, <1>2, <1>8, <2>4, <2>5
    <3>2. received' = i + u + (le + 1) + 0
      BY <1>4, <2>1, <2>6
    <3>3. InTurn(held'[Stage0], i + u + Len(queues'["q01"]))
      BY <2>5, NoneInTurn
    <3>4. le + 1 <= setup.capacity
      BY <1>1, <2>5
    <3>5. QED
      BY <1>2, <1>4, <2>4, <2>5, <2>7, <2>8, <3>1, <3>2, <3>3, <3>4 DEF New, a
  <2>10. QED
    BY <1>5, <2>9
<1>11. CASE Take(Sorter)
  <2>1. /\ Pop(Sorter, 1) /\ held' = [held EXCEPT ![Sorter] = Popped(Sorter, 1)]
        /\ UNCHANGED <<received, handled, bad>> /\ pc[Sorter] = "pop" /\ Goto(Sorter, "inspect")
    BY <1>11 DEF Take, Pop, OneInspector
  <2>2. u = 0 /\ x = 0
    BY <1>3, <2>1 DEF Uninspected, Unpassed
  <2>3. InTurn(queues["q01"], i)
    BY <1>4, <2>2
  <2>4. /\ InTurn(Popped(Sorter, 1), i) /\ InTurn(queues'["q01"], i + 1)
        /\ Len(queues'["q01"]) = Len(queues["q01"]) - 1
        /\ \A r \in QueueNames \ {"q01"} : queues'[r] = queues[r]
    BY <1>0, <2>1, <2>3, FirewallKernels, TakeTurn
  <2>5. /\ held'[Sorter] = Popped(Sorter, 1) /\ held'[Stage0] = f /\ handled'[Mistake] = n
        /\ pc'[Sorter] = "inspect"
    BY <1>0, <1>2, <2>1, Onward DEF TypeOK
  <2>6. RightFrom(i)'
    BY <1>4, <2>1 DEF RightFrom
  <2>7. Uninspected' = 1 /\ Unpassed' = 0
    BY <2>5 DEF Uninspected, Unpassed
  <2>8. New(i, 1, 0)
    <3>1. Len(queues'["q01"]) = le - 1 /\ queues'["q1m"] = m
      BY <1>0, <1>2, <2>4
    <3>2. received' = i + 1 + (le - 1) + lf /\ i + 1 + (le - 1) = i + u + le
      BY <1>4, <2>1, <2>2
    <3>3. InTurn(held'[Stage0], i + 1 + (le - 1))
      BY <1>4, <2>5, <3>2
    <3>4. le - 1 <= setup.capacity
      BY <1>1, <1>4
    <3>5. QED
      BY <1>2, <1>4, <2>2, <2>4, <2>5, <2>6, <2>7, <3>1, <3>2, <3>3, <3>4 DEF New
  <2>9. QED
    BY <1>5, <2>8
<1>12. CASE Inspect(Sorter)
  <2>1. /\ UNCHANGED <<setup, queues, bad, held, received, handled>> /\ pc[Sorter] = "inspect"
        /\ Goto(Sorter, IF Head(held[Sorter]) \in bad THEN "mistake" ELSE "push")
    BY <1>12 DEF Inspect, IsBad
  <2>2. u = 1 /\ x = 0
    BY <1>3, <2>1 DEF Uninspected, Unpassed
  <2>3. Len(held[Sorter]) = 1 /\ InTurn(held[Sorter], i) /\ held[Sorter] \in Seq(Packets)
    BY <1>0, <1>4, <2>1 DEF HeldFor, TypeOK
  <2>4. Head(held[Sorter]) = (i % PoolSize) + 1
    <3>1. 1 \in DOMAIN held[Sorter] /\ Head(held[Sorter]) = held[Sorter][1]
      BY <2>3
    <3>2. held[Sorter][1] = ((i + 1 - 1) % PoolSize) + 1
      BY <2>3, <3>1 DEF InTurn
    <3>3. i + 1 - 1 = i
      OBVIOUS
    <3>4. QED
      BY <3>1, <3>2, <3>3
  <2>5. Head(held[Sorter]) \in bad <=> Wrong(i)
    <3>1. i \in i .. received - 1
      BY <1>1, <1>4, <2>2
    <3>2. QED
      BY <1>4, <2>4, <3>1 DEF RightFrom
  <2>6. PICK y \in {0, 1} : y = IF Wrong(i) THEN 1 ELSE 0
    OBVIOUS
  <2>7. pc'[Sorter] = (IF y = 1 THEN "mistake" ELSE "push")
    BY <1>0, <2>1, <2>5, <2>6, Onward
  <2>8. Uninspected' = 0 /\ Unpassed' = y
    BY <2>6, <2>7 DEF Uninspected, Unpassed
  <2>9. i + 1 <= Addresses => Mistakes(i + 1) = Mistakes(i) + y /\ i <= Addresses /\ Mistakes(i) \in Int
    <3>1. SUFFICES ASSUME i + 1 <= Addresses
                   PROVE  Mistakes(i + 1) = Mistakes(i) + y /\ i <= Addresses /\ Mistakes(i) \in Int
      OBVIOUS
    <3>2. Addresses \in Nat
      BY WidthAssumption
    <3>3. i < Addresses
      BY <3>1, <3>2
    <3>4. QED
      BY <2>6, <3>2, <3>3, MistakesGrow
  <2>10. RightFrom(i + 1)'
    <3>1. \A k \in i + 1 .. received - 1 : k \in i .. received - 1
      BY <1>1
    <3>2. QED
      BY <1>4, <2>1, <3>1 DEF RightFrom
  <2>11. New(i + 1, 0, y)
    <3>1. received' = (i + 1) + 0 + le + lf /\ i + u = (i + 1) + 0 /\ i + u + le = (i + 1) + 0 + le
      BY <1>4, <2>1, <2>2
    <3>2. i + 1 <= Addresses => n + lm + y = Mistakes(i + 1)
      <4>1. SUFFICES ASSUME i + 1 <= Addresses PROVE n + lm + y = Mistakes(i + 1)
        OBVIOUS
      <4>2. n + lm + 0 = Mistakes(i) /\ Mistakes(i + 1) = Mistakes(i) + y /\ Mistakes(i) \in Int
        BY <1>4, <2>2, <2>9, <4>1
      <4>3. QED
        BY ONLY <1>2, <2>6, <4>2
    <3>3. queues'["q01"] = e /\ queues'["q1m"] = m /\ held'[Stage0] = f /\ handled'[Mistake] = n
      BY <1>2, <2>1
    <3>4. pc'[Sorter] # "inspect"
      BY <2>7
    <3>5. QED
      BY <1>2, <1>4, <2>8, <2>10, <3>1, <3>2, <3>3, <3>4 DEF New
  <2>12. i + 1 \in Nat
    OBVIOUS
  <2>13. QED
    BY <1>5, <2>11, <2>12
<1>13. CASE PushMistake(Sorter)
  <2>1. /\ Push(Sorter, held[Sorter], "q1m") /\ held' = [held EXCEPT ![Sorter] = <<>>]
        /\ UNCHANGED <<received, handled>> /\ pc[Sorter] = "mistake" /\ Goto(Sorter, "pop")
    BY <1>13 DEF PushMistake
  <2>2. held[Sorter] \in Seq(Packets)
    BY <1>0 DEF TypeOK
  <2>3. Given("q1m") /\ bad' = bad
    BY <1>0, <2>1, <2>2, GivenByPush
  <2>4. u = 0 /\ x = 1
    BY <1>3, <2>1 DEF Uninspected, Unpassed
  <2>5. held'[Stage0] = f /\ handled'[Mistake] = n /\ pc'[Sorter] = "pop"
    BY <1>0, <1>2, <2>1, Onward DEF TypeOK
  <2>6. RightFrom(i)'
    BY <1>4, <2>1, <2>3 DEF RightFrom
  <2>7. Uninspected' = 0 /\ Unpassed' = 0
    BY <2>5 DEF Uninspected, Unpassed
  <2>8. New(i, 0, 0)
    <3>1. queues'["q01"] = e /\ Len(queues'["q1m"]) = lm + 1
      BY <1>0, <1>2, <2>3 DEF Given
    <3>2. i <= Addresses => n + (lm + 1) + 0 = Mistakes(i)
      BY <1>4, <2>4
    <3>3. QED
      BY <1>2, <1>4, <2>1, <2>4, <2>5, <2>6, <2>7, <3>1, <3>2 DEF New
  <2>9. QED
    BY <1>5, <2>8
<1>14. CASE PushHeld(Sorter, "pop")
  <2>1. /\ Push(Sorter, held[Sorter], "q1c") /\ held' = [held EXCEPT ![Sorter] = Tail(@)]
        /\ UNCHANGED <<received, handled>> /\ pc[Sorter] = "push"
        /\ \E l \in {"pop", "push"} : Goto(Sorter, l)
    BY <1>14, FirewallKernels DEF PushHeld
  <2>2. held[Sorter] \in Seq(Packets)
    BY <1>0 DEF TypeOK
  <2>3. Given("q1c") /\ bad' = bad
    BY <1>0, <2>1, <2>2, GivenByPush
  <2>4. held'[Stage0] = f /\ handled'[Mistake] = n /\ pc'[Sorter] \in {"pop", "push"}
    BY <1>0, <1>2, <2>1, Onward DEF TypeOK
  <2>5. queues'["q01"] = e /\ queues'["q1m"] = m
    BY <1>0, <2>3 DEF Given
  <2>6. QED
    BY <1>6, <2>1, <2>3, <2>4, <2>5
<1>15. ASSUME NEW w \in {Correct, Mistake}, Absorb(w) PROVE Goal
  <2>1. /\ Pop(w, 1) /\ handled' = [handled EXCEPT ![w] = @ + 1]
        /\ UNCHANGED <<bad, pc, held, received>>
    BY <1>15 DEF Absorb
  <2>2. w \in Workers /\ In(w) \in QueueNames /\ 1 \in Nat /\ In(w) = (IF w = Mistake THEN "q1m" ELSE "q1c")
    BY <1>0, <1>15, FirewallKernels
  <2>3. Taken(In(w), 1)
    BY <2>1, <2>2, TakenByPop
  <2>4. queues'["q01"] = e /\ held'[Stage0] = f
    BY <1>0, <2>1, <2>2, <2>3 DEF Taken
  <2>5. Uninspected' = u /\ Unpassed' = x
    BY <1>3, <2>1 DEF Uninspected, Unpassed
  <2>6. RightFrom(i)'
    BY <1>4, <2>1 DEF RightFrom
  <2>7. i <= Addresses => handled'[Mistake] + Len(queues'["q1m"]) + x = Mistakes(i)
    <3>1. CASE w = Mistake
      <4>1. handled'[Mistake] = n + 1
        BY <1>2, <2>1, <2>2, <3>1 DEF TypeOK
      <4>2. Len(queues'["q1m"]) = lm - 1
        BY <1>2, <2>2, <2>3, <3>1 DEF Taken
      <4>3. n + 1 + (lm - 1) + x = n + lm + x
        OBVIOUS
      <4>4. QED
        BY <1>4, <4>1, <4>2, <4>3
    <3>2. CASE w # Mistake
      <4>1. handled'[Mistake] = n
        BY <1>0, <1>2, <2>1, <2>2, <3>2 DEF TypeOK
      <4>2. Len(queues'["q1m"]) = lm
        BY <1>0, <1>2, <2>2, <2>3, <3>2 DEF Taken
      <4>3. QED
        BY <1>4, <4>1, <4>2
    <3>3. QED
      BY <3>1, <3>2
  <2>8. New(i, u, x)
    BY <1>2, <1>4, <2>1, <2>4, <2>5, <2>6, <2>7 DEF New
  <2>9. QED
    BY <1>5, <2>8
<1>16. ASSUME NEW w \in RaftThreads, w[1] # "stage0", RunsDry(w) PROVE Goal
  <2>1. UNCHANGED <<received, bad, queues, held, handled>> /\ pc[w] = "pop" /\ Goto(w, "returned")
    BY <1>16 DEF RunsDry
  <2>2. CASE w = Sorter
    <3>1. pc'[Sorter] = "returned"
      BY <1>0, <2>1, <2>2, Onward
    <3>2. QED
      BY <1>2, <1>6, <2>1, <2>2, <3>1
  <2>3. CASE w # Sorter
    <3>1. pc'[Sorter] = pc[Sorter]
      BY <1>0, <2>1, <2>3, Onward
    <3>2. QED
      BY <1>2, <1>7, <2>1, <3>1
  <2>4. QED
    BY <2>2, <2>3
<1>17. CASE Join
  <2>1. UNCHANGED <<received, bad, queues, held, handled>> /\ Goto(Main, "returned")
    BY <1>17 DEF Join
  <2>2. pc'[Sorter] = pc[Sorter]
    BY <1>0, <2>1, Onward, InPlace
  <2>3. QED
    BY <1>2, <1>7, <2>1, <2>2
<1>18. CASE UNCHANGED vars
  BY <1>2, <1>7, <1>18 DEF vars
<1>19. ASSUME NEW w \in RaftThreads, w[1] = "stage0", Produce(w) \/ Send(w) PROVE Goal
  <2>1. w = Stage0
    BY <1>0, <1>19, FirewallKernels
  <2>2. QED
    BY <1>9, <1>10, <1>19, <2>1
<1>20. ASSUME NEW w \in RaftThreads, w[1] # "stage0",
              \/ Take(w) \/ Inspect(w) \/ PushMistake(w) \/ PushHeld(w, "pop") \/ Absorb(w) \/ RunsDry(w)
       PROVE  Goal
  <2>1. w \in {Sorter, Correct, Mistake} /\ w \in Workers /\ w # Main
    BY <1>0, <1>20, FirewallKernels
  <2>2. CASE w = Sorter
    <3>1. ~Absorb(w)
      BY <2>2, FirewallKernels DEF Absorb
    <3>2. QED
      BY <1>11, <1>12, <1>13, <1>14, <1>16, <1>20, <2>2, <3>1
  <2>3. CASE w # Sorter
    <3>1. Out(w) = "none" /\ w[1] \notin {"stage1", "stage2"}
      BY <2>1, <2>3, FirewallKernels
    <3>2. pc[w] \notin {"inspect", "mistake", "push"}
      BY <1>0, <2>1, <3>1 DEF LabelFor
    <3>3. ~Take(w) /\ ~Inspect(w) /\ ~PushMistake(w) /\ ~PushHeld(w, "pop")
      BY <3>1, <3>2 DEF Take, Inspect, PushMistake, PushHeld
    <3>4. w \in {Correct, Mistake}
      BY <2>1, <2>3
    <3>5. QED
      BY <1>15, <1>16, <1>20, <3>3, <3>4
  <2>4. QED
    BY <2>2, <2>3
<1>21. Goal
  <2>1. setup.app = "rl_firewall"
    BY DEF OneInspector
  <2>2. CASE Next
    BY <1>0, <1>17, <1>19, <1>20, <2>1, <2>2, Cases
  <2>3. QED
    BY <1>18, <2>2
<1>22. QED
  BY <1>21

LEMMA InitInspecting == Init => Inspecting
<1>1. SUFFICES ASSUME Init, OneInspector PROVE InspectedTo(0)
  BY DEF Inspecting
<1>2. TypeOK
  BY <1>1, InitTyped
<1>3. /\ RaftThreads = {Stage0, Correct, Mistake, Sorter} /\ Raft /\ RaftThreads \subseteq Workers
      /\ Sorter # Main /\ Sorter[1] = "stage1"
  BY <1>1, <1>2, FirewallKernels, Workforce
<1>4. pc[Sorter] = "pop"
  <2>1. Sorter \in Threads
    BY <1>2, <1>3, Apps DEF Threads
  <2>2. QED
    BY <1>1, <1>3, <2>1 DEF Init
<1>5. /\ queues["q01"] = <<>> /\ queues["q1m"] = <<>> /\ held[Stage0] = <<>> /\ held[Sorter] = <<>>
      /\ received = 0 /\ handled[Mistake] = 0
  BY <1>1, <1>3, InPlace DEF Init
<1>6. Uninspected = 0 /\ Unpassed = 0 /\ Len(<<>>) = 0
  BY <1>4 DEF Uninspected, Unpassed
<1>7. Mistakes(0) = 0
  <2>1. BadEvery \in Nat \ {0}
    BY <1>2, Counts
  <2> DEFINE D(x) == x \div BadEvery
  <2>2. PICK b \in Nat : b = BadEvery - 1
    BY <2>1
  <2>3. b + 0 * BadEvery = b /\ b \in 0 .. BadEvery - 1 /\ 0 \in Nat /\ 0 + BadEvery - 1 = b
    BY <2>1, <2>2
  <2>4. D(b + 0 * BadEvery) = 0
    BY <2>1, <2>3, OfDigits
  <2> HIDE DEF D
  <2>5. D(b) = 0 /\ D(0 + BadEvery - 1) = 0
    BY <2>3, <2>4
  <2>6. QED
    BY <2>5, WideEnough DEF D, Multiples, Mistakes
<1>8. setup.capacity \in Nat
  BY <1>2, Counts
<1>9. RightFrom(0)
  BY <1>5 DEF RightFrom
<1>10. QED
  BY <1>4, <1>5, <1>6, <1>7, <1>8, <1>9, NoneInTurn DEF InspectedTo

\* There is a producer.
LEMMA SomeProducer ==
  ASSUME TypeOK, Raft
  PROVE  Producers # {}
<1>1. /\ setup.app \in {"rl_firewall", "rl_pipeline", "rl_ember", "rl_fir"} /\ setup.stage1 \in 1 .. 4
  BY NetworkAssumption DEF TypeOK, Raft
<1>2. <<"stage0", 1>> \in Copies("stage0", setup.stage1)
  BY <1>1 DEF Copies
<1>3. <<"stage0", 1>> \in RaftThreads
  BY <1>1, <1>2 DEF RaftThreads, Stage0
<1>4. QED
  BY <1>3 DEF Producers

\* The end of the RaftLib programs.
LEMMA RaftAddsUp ==
  ASSUME TypeOK, LabelsFit, Raft, AllBack, RaftBalance, Ending, Stopping, Inspecting,
         gathered = <<>>, pc[Main] = "returned"
  PROVE  Occupied = {} /\ RaftTotals
<1>1. \A w \in Workers : pc[w] = "returned"
  BY DEF AllBack
<1>2. \A w \in Workers : held[w] = <<>>
  BY <1>1 DEF LabelsFit, HeldFor
<1>3. \A w \in RaftThreads : w \in Workers
  BY RaftQueues
<1>4. ASSUME NEW q \in QueueNames, queues[q] # <<>> PROVE FALSE
  <2>1. PICK w \in RaftThreads : w[1] # "stage0" /\ In(w) = q
    BY <1>4 DEF Ending
  <2>2. queues[In(w)] = <<>>
    BY <1>1, <1>3, <2>1 DEF Ending, Finished
  <2>3. QED
    BY <1>4, <2>1, <2>2
<1>5. InFlight = 0
  BY <1>2, <1>4, NothingUnderWay
<1>6. Occupied = {}
  BY <1>5, UnderWay
<1>7. Arrived = received
  <2>1. handled \in [Workers -> Nat] /\ Main \in Workers /\ Main \notin Sinks
    BY InPlace DEF TypeOK, Main, Sinks, Correct, Mistake
  <2>2. received = Arrived + 0 /\ received \in Nat
    BY <1>5 DEF RaftBalance, TypeOK
  <2>3. PICK c1 \in Nat, c2 \in Nat, c3 \in Nat, c4 \in Nat :
          /\ c1 = handled[<<"last", 1>>] /\ c2 = handled[<<"last", 2>>]
          /\ c3 = handled[<<"last", 3>>] /\ c4 = handled[<<"last", 4>>]
    <3>1. \A j \in 1 .. 4 : <<"last", j>> \in Workers
      BY DEF Workers
    <3>2. \A j \in 1 .. 4 : handled[<<"last", j>>] \in Nat
      BY <2>1, <3>1
    <3>3. QED
      BY <3>2
  <2>4. PICK a \in Nat, b \in Nat : a = handled[Correct] /\ b = handled[Mistake]
    BY <2>1, InPlace
  <2>5. Arrived = a + b + c1 + c2 + c3 + c4
    BY <2>3, <2>4 DEF Arrived
  <2>6. QED
    BY <2>2, <2>5
<1>8. received = LastNumber + Cardinality(Producers)
  <2>1. \A w \in Producers : w \in Over
    BY <1>1, <1>3 DEF Stopping, Producers
  <2>2. Over = Producers
    BY <2>1 DEF Over
  <2>3. received \in Nat /\ LastNumber \in Nat
    <3>1. setup.numPackets \in 1 .. Word - 1 /\ Word \in Nat /\ received \in Nat
      BY Counts
    <3>2. QED
      BY <3>1 DEF LastNumber
  <2>4. received >= LastNumber
    BY <2>2, <2>3, SomeProducer DEF Stopping
  <2>5. Cardinality(Producers) = received - LastNumber
    BY <2>2, <2>4 DEF Stopping
  <2>6. QED
    BY <2>3, <2>5
<1>9. ASSUME OneInspector, received <= Addresses PROVE handled[Mistake] = Mistakes(received)
  <2>1. PICK i \in Nat : InspectedTo(i)
    BY <1>9 DEF Inspecting
  <2>2. Uninspected = 0 /\ Unpassed = 0
    BY <1>1, InPlace DEF Uninspected, Unpassed
  <2>3. Len(queues["q01"]) = 0 /\ Len(queues["q1m"]) = 0 /\ Len(held[Stage0]) = 0
    <3>1. queues["q01"] = <<>> /\ queues["q1m"] = <<>> /\ held[Stage0] = <<>>
      BY <1>2, <1>4, InPlace
    <3>2. QED
      BY <3>1
  <2>4. received = i + 0 + 0 + 0 /\ (i <= Addresses => handled[Mistake] + 0 + 0 = Mistakes(i))
    BY <2>1, <2>2, <2>3 DEF InspectedTo
  <2>5. handled[Mistake] \in Nat
    BY Counts, InPlace
  <2>6. received = i
    BY <2>4
  <2>7. QED
    BY <1>9, <2>4, <2>5, <2>6
<1>10. Producers = {w \in RaftThreads : w[1] = "stage0"}
  BY DEF Producers
<1>11. QED
  BY <1>6, <1>7, <1>8, <1>9, <1>10 DEF RaftTotals, OneInspector

\* What holds throughout, besides Sifted, of the numbers of all programs but the
\* firewall over CAF.
Counted ==
  /\ setup.app # "firewall" => gathered = <<>>
  /\ AllBack
  /\ ~Raft /\ ~(setup.app = "firewall" /\ setup.caf) => Balanced
  /\ RaftBalance
  /\ Raft => Ending /\ Stopping
  /\ Inspecting

LEMMA InitCounted == Init => Counted
<1>1. SUFFICES ASSUME Init PROVE Counted
  OBVIOUS
<1>2. gathered = <<>>
  BY <1>1 DEF Init
<1>3. AllBack /\ RaftBalance /\ Inspecting
  BY <1>1, InitRaft, InitInspecting
<1>4. (~Raft => Balanced) /\ (Raft => Ending /\ Stopping)
  BY <1>1, InitBalanced, InitEnds
<1>5. QED
  BY <1>2, <1>3, <1>4 DEF Counted

LEMMA StepCounted ==
  ASSUME TypeOK, LabelsFit, Counted, [Next]_vars
  PROVE  Counted'
<1>1. setup' = setup /\ TypeOK'
  BY SetupStays, StepTyped
<1>2. (Raft' <=> Raft) /\ (OneInspector' <=> OneInspector)
  BY <1>1, SameSetup DEF OneInspector
<1>3. setup.app # "firewall" => gathered' = <<>>
  BY NoneGathered DEF Counted
<1>4. AllBack'
  BY StayReturned DEF Counted
<1>5. ASSUME ~Raft, ~(setup.app = "firewall" /\ setup.caf) PROVE Balanced'
  BY <1>5, StepBalanced DEF Counted
<1>6. RaftBalance'
  <2>1. CASE Raft
    <3>1. RaftMoves /\ \A w \in RaftThreads : w \in Workers
      BY <2>1, RaftSteps, RaftQueues
    <3>2. QED
      BY <2>1, <3>1, StepRaftBalance DEF Counted
  <2>2. CASE ~Raft
    BY <1>2, <2>2 DEF RaftBalance
  <2>3. QED
    BY <2>1, <2>2
<1>7. ASSUME Raft PROVE Ending' /\ Stopping'
  BY <1>1, <1>7, StepEnding, StepStopping DEF Counted
<1>8. Inspecting'
  <2>1. CASE OneInspector
    <3>1. PICK i \in Nat : InspectedTo(i)
      BY <2>1 DEF Counted, Inspecting
    <3>2. \E j \in Nat : InspectedTo(j)'
      BY <2>1, <3>1, StepInspecting
    <3>3. QED
      BY <3>2 DEF Inspecting
  <2>2. CASE ~OneInspector
    BY <1>2, <2>2 DEF Inspecting
  <2>3. QED
    BY <2>1, <2>2
<1>9. QED
  BY <1>1, <1>2, <1>3, <1>4, <1>5, <1>6, <1>7, <1>8 DEF Counted

\* Everything adds up when all threads of the network programs have returned
\* (TotalsAddUp; npktsrecvd, cnt_sum and cnt of firewall.cpp, pipeline.cpp and
\* their RaftLib versions, and of the RaftLib ember and fir): main gets back as many
\* packets as it was asked for, the stages have handled as many, the mistakes
\* are as many as were marked, and nothing is left behind; RaftLib's producers
\* send one more each time and all arrive.  For every program but the firewall
\* over CAF, whose push may send packets again with the headers they had.
THEOREM TotalsRight == Spec => [](~(setup.app = "firewall" /\ setup.caf) => TotalsAddUp)
<1>1. Init => Counted
  BY InitCounted
<1>2. Sifted /\ Counted /\ [Next]_vars => Counted'
  BY StepCounted DEF Sifted, Placed
<1>3. Sifted /\ Counted => (~(setup.app = "firewall" /\ setup.caf) => TotalsAddUp)
  <2>1. SUFFICES ASSUME Sifted, Counted, ~(setup.app = "firewall" /\ setup.caf), pc[Main] = "returned"
                 PROVE  /\ setup.numPackets >= PoolSize \/ Raft => Occupied = {}
                        /\ IF Raft THEN RaftTotals ELSE PoolTotals
    BY DEF TotalsAddUp
  <2>2. TypeOK /\ LabelsFit /\ (setup.app = "firewall" => Gathered)
    BY <2>1 DEF Sifted, Placed, Numbered
  <2>3. CASE Raft
    <3>1. gathered = <<>>
      BY <2>1, <2>2, <2>3, Apps DEF Counted
    <3>2. QED
      BY <2>1, <2>2, <2>3, <3>1, RaftAddsUp DEF Counted
  <2>4. CASE ~Raft
    BY <2>1, <2>2, <2>4, PoolAddsUp DEF Counted
  <2>5. QED
    BY <2>3, <2>4
<1>4. QED
  BY <1>1, <1>2, <1>3, AlwaysSifted, PTL DEF Spec

=============================================================================
