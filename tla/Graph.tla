------------------------------- MODULE Graph -------------------------------
(***************************************************************************)
(* The graph benchmarks of apps/graphBIG: betweenness centrality (bc),      *)
(* triangle count (tc) and degree centrality (dc), each on one thread, with *)
(* OpenMP (bench_*.cpp) or with RaftLib (rl_*.cpp).  A RaftLib run streams   *)
(* the vertices to workers, and what they find to kernels that add it up;    *)
(* OpenMP threads go through ranges of the vertices and add to them.         *)
(* What a thread computes from the graph alone is one step, every access to  *)
(* what is shared is one of its own.  Centralities are multiples of 1/Scale, *)
(* and the counters are wide enough for the graphs.                          *)
(***************************************************************************)
EXTENDS Integers, Sequences, FiniteSets, TLC, FiniteSetsExt, SequencesExt, Functions

CONSTANTS Inputs,       \* records [prog, build, threads, undirected, graph]
          Repetition,   \* --repetition (RaftLib)
          Runs,         \* --runnum
          Capacity,     \* bound: elements a stream holds
          Garbage,      \* what the memory of cnts may hold at first
          Scale

\* A graph gives every vertex the targets of its edges, in their order.
ASSUME GraphAssumption ==
  /\ \A n \in {Repetition, Runs, Capacity, Scale} : n \in Nat \ {0}
  /\ Garbage \subseteq Int /\ Garbage # {}
  /\ \A in \in Inputs :
       /\ in.prog \in {"bc", "tc", "dc"} /\ in.build \in {"raft", "omp"}
       /\ in.threads \in Nat \ {0} /\ in.undirected \in BOOLEAN
       /\ IsFiniteSet(DOMAIN in.graph) /\ DOMAIN in.graph = 0 .. Cardinality(DOMAIN in.graph) - 1
       /\ in.graph # <<>>
       /\ \A v \in DOMAIN in.graph : in.graph[v] \in Seq(DOMAIN in.graph)

VARIABLES
  input,
  phase,          \* of main: "prepare", "compute", "done"
  run,            \* runs finished
  neighbors,      \* neighbor_set, by vertex
  count,          \* BC, count or cnts, indegree, by vertex
  outdegree,
  total,          \* what triangle_count returns
  junk,           \* what cnts held when it was allocated
  vid, rep,       \* workset_kernel
  left,           \* the vertices of a thread's range it has not begun
  work, pairs, sums,  \* the streams to the workers, count_kernel, reduce_kernel
  todo,           \* by thread: what it has still to add
  loaded          \* by thread: the value read with the mutex held

streams == <<work, pairs, sums>>
results == <<count, outdegree, total>>
threads == <<todo, loaded, left>>
vars == <<input, phase, run, neighbors, results, junk, vid, rep, streams, threads>>

Edges == input.graph
Vertices == DOMAIN Edges
Tids == 0 .. input.threads - 1
Parallel == input.threads > 1
Raft(prog) == input.build = "raft" /\ input.prog = prog
Omp == input.build = "omp"

Idle == -1
None == [t \in Tids |-> <<>>]

-----------------------------------------------------------------------------
(* What the threads compute from the graph.                                 *)

\* Breadth first, counting the shortest paths: one edge from v to w.
Visit(v, b, w) ==
  LET depth == b.depth[v] + 1
      found == b.depth[w] = Idle
      onpath == found \/ b.depth[w] = depth
  IN  [b EXCEPT !.queue = IF found THEN Append(@, w) ELSE @,
                !.depth[w] = IF found THEN depth ELSE @,
                !.paths[w] = IF onpath THEN @ + b.paths[v] ELSE @,
                !.parents[w] = IF onpath THEN Append(@, v) ELSE @]

Search(graph, s) ==
  LET start == [queue |-> <<s>>, seen |-> <<>>,
                depth |-> [v \in DOMAIN graph |-> IF v = s THEN 0 ELSE Idle],
                paths |-> [v \in DOMAIN graph |-> IF v = s THEN 1 ELSE 0],
                parents |-> [v \in DOMAIN graph |-> <<>>]]
      Leave(b, v) == [b EXCEPT !.queue = Tail(@), !.seen = Append(@, v)]
      walk[k \in 0 .. Cardinality(DOMAIN graph)] ==
        IF k = 0 THEN start
        ELSE LET b == walk[k - 1]
             IN  IF b.queue = <<>> THEN b
                 ELSE FoldLeft(LAMBDA c, w : Visit(Head(b.queue), c, w),
                               Leave(b, Head(b.queue)), graph[Head(b.queue)])
  IN  walk[Cardinality(DOMAIN graph)]

Add(v, n) == [v |-> v, n |-> n]

\* Dependencies, from the vertices seen last: what source s adds to the others.
Dependencies(in, s) ==
  LET b == Search(in.graph, s)
      normalizer == IF in.undirected THEN 2 ELSE 1
      Pass(w, update, v) == [update EXCEPT ![v] = @ + (b.paths[v] * (Scale + update[w])) \div b.paths[w]]
      Accumulate(c, w) ==
        [update |-> FoldLeft(LAMBDA u, v : Pass(w, u, v), c.update, b.parents[w]),
         adds   |-> IF w = s THEN c.adds ELSE Append(c.adds, Add(w, c.update[w] \div normalizer))]
  IN  FoldLeft(Accumulate, [update |-> [v \in DOMAIN in.graph |-> 0], adds |-> <<>>], Reverse(b.seen)).adds

Found == [in \in Inputs |-> [s \in DOMAIN in.graph |-> Dependencies(in, s)]]

\* Merging two sorted sequences, elements equal in both are counted in pairs.
Common(a, b) ==
  LET Times(q, x) == Len(SelectSeq(q, LAMBDA y : y = x))
  IN  MapThenSumSet(LAMBDA x : Min({Times(a, x), Times(b, x)}), ToSet(a) \cap ToSet(b))

Lookups(v) == [j \in DOMAIN SelectSeq(Edges[v], LAMBDA w : v <= w) |->
                 <<v, SelectSeq(Edges[v], LAMBDA w : v <= w)[j]>>]
Triangles(pair) == Common(neighbors[pair[1]], neighbors[pair[2]])
Both(pair, n) == <<Add(pair[1], n), Add(pair[2], n)>>

\* What a vertex makes a thread add: the whole of a worker's loop.
Adds(v) ==
  CASE input.prog = "bc" -> Found[input][v]
    [] input.prog = "dc" -> [j \in DOMAIN Edges[v] |-> Add(Edges[v][j], 1)]
    [] input.prog = "tc" -> FlattenSeq([j \in DOMAIN Lookups(v) |->
                                          Both(Lookups(v)[j], Triangles(Lookups(v)[j]))])

Sum(adds, v) == FoldLeft(LAMBDA n, a : IF a.v = v THEN n + a.n ELSE n, 0, adds)
WithOutdegree(set) ==
  IF input.prog = "dc" THEN [v \in Vertices |-> IF v \in set THEN Len(Edges[v]) ELSE outdegree[v]]
                       ELSE outdegree

\* gen_workset: ranges of about as many edges, by vertex where they begin.
Degree(v) == Len(Edges[v])
Ceil(n, d) == (n + d - 1) \div d
Size == Cardinality(Vertices)

\* curr: the edges of the vertices before one.
EdgesBefore ==
  LET curr[v \in 0 .. Size] == IF v = 0 THEN 0 ELSE curr[v - 1] + Degree(v - 1)
  IN  curr
NumEdges == EdgesBefore[Size]

\* Mutant: rounded up by adding one.
Chunk_AndOne == NumEdges \div input.threads + 1
Chunk == Ceil(NumEdges, input.threads)

\* A range is cut off at v when it has the edges of a chunk.
Cut(c, v) ==
  IF EdgesBefore[v + 1] - c.last < Chunk THEN c
  ELSE [last |-> EdgesBefore[v + 1], th |-> Min({c.th + 1, input.threads}),
        set |-> [c.set EXCEPT ![c.th] = v]]
NoCuts == [last |-> 0, th |-> 1, set |-> [t \in 0 .. input.threads |-> 0]]
Cuts ==
  LET cuts[v \in 0 .. Size] == IF v = 0 THEN NoCuts ELSE Cut(cuts[v - 1], v - 1)
  IN  cuts
Workset == [Cuts[Size].set EXCEPT ![input.threads] = Size]

EdgeRange(t) == Workset[t] .. Workset[t + 1] - 1
VertexRange(t) ==
  LET chunk == Ceil(Cardinality(Vertices), input.threads)
  IN  (t * chunk) .. Min({(t + 1) * chunk, Cardinality(Vertices)}) - 1
RangeOf(t) == IF input.prog = "tc" THEN EdgeRange(t) ELSE VertexRange(t)

-----------------------------------------------------------------------------
(* main: prepares, runs, and resets the graph between the runs.             *)

Init ==
  /\ input \in Inputs
  /\ phase = "prepare" /\ run = 0
  /\ neighbors = [v \in Vertices |-> <<>>]
  /\ count = [v \in Vertices |-> 0] /\ outdegree = [v \in Vertices |-> 0] /\ total = 0
  /\ junk = 0 /\ vid = 0 /\ rep = 0
  /\ left = [t \in Tids |-> IF input.prog = "tc" THEN EdgeRange(t) ELSE {}]
  /\ work = None /\ pairs = None /\ sums = None /\ todo = None
  /\ loaded = [t \in Tids |-> Idle]

Busy(t) == left[t] # {} \/ todo[t] # <<>>

\* std::sort.
Sorted(s) ==
  LET perm == CHOOSE p \in Permutations(DOMAIN s) :
                \A i, j \in DOMAIN s : i < j => s[p[i]] <= s[p[j]]
  IN  [i \in DOMAIN s |-> s[perm[i]]]

\* parallel_tc_init (tc_init, with one thread): a thread takes the next vertex
\* of its range, appends its neighbors to its vector and sorts that.  (What two
\* threads leave that prepare a vertex at the same time is undefined.)
PrepareVertex(t) ==
  /\ phase = "prepare" /\ left[t] # {}
  /\ LET v == Min(left[t])
     IN  /\ neighbors' = [neighbors EXCEPT ![v] = Sorted(@ \o Edges[v])]
         /\ left' = [left EXCEPT ![t] = @ \ {v}]
  /\ UNCHANGED <<input, phase, run, results, junk, vid, rep, streams, todo, loaded>>

Prepared == phase = "prepare" /\ \A t \in Tids : left[t] = {}

FirstVid == IF input.prog = "bc" THEN Cardinality(Vertices) - 1 ELSE 0

StartRun ==
  /\ Prepared /\ Parallel
  /\ phase' = "compute"
  /\ left' = [t \in Tids |-> IF Omp THEN RangeOf(t) ELSE {}]
  /\ vid' = FirstVid /\ rep' = 0
  /\ \E j \in IF Raft("tc") THEN Garbage ELSE {0} :
       junk' = j /\ count' = [v \in Vertices |-> count[v] + j]
  /\ UNCHANGED <<input, run, neighbors, outdegree, total, streams, todo, loaded>>

\* Triangles were counted twice at every corner.
Halved(c) == [v \in Vertices |-> c[v] \div 2]
Third(c) == MapThenSumSet(LAMBDA v : c[v], Vertices) \div 3

\* The end of a run with these counts; the graph is reset before the next.
EndRun(c) ==
  /\ run' = run + 1
  /\ phase' = IF run + 1 < Runs THEN "prepare" ELSE "done"
  /\ count' = IF run + 1 < Runs THEN [v \in Vertices |-> 0] ELSE c

\* bc, triangle_count and dc.
Sequential ==
  /\ Prepared /\ ~Parallel
  /\ LET adds == FlattenSeq([i \in 1 .. Cardinality(Vertices) |-> Adds(i - 1)])
         c == [v \in Vertices |-> count[v] + Sum(adds, v)]
     IN  IF input.prog = "tc" THEN EndRun(Halved(c)) /\ total' = Third(Halved(c))
                              ELSE EndRun(c) /\ UNCHANGED total
  /\ outdegree' = WithOutdegree(Vertices)
  /\ UNCHANGED <<input, neighbors, junk, vid, rep, streams, threads>>

-----------------------------------------------------------------------------
(* The kernels of a RaftLib run.                                            *)

Put(stream, t, m) == [stream EXCEPT ![t] = Append(@, m)]
Take(stream, t) == [stream EXCEPT ![t] = Tail(@)]
Has(stream, t) == stream[t] # <<>>

\* The vertices in turn, Repetition times: bc from the last to the first.
WorksetKernel(t) ==
  LET n == Cardinality(Vertices)
      final == IF input.prog = "bc" THEN vid = 0 ELSE vid + 1 = n
  IN  /\ phase = "compute" /\ input.build = "raft" /\ rep < Repetition
      /\ Len(work[t]) < Capacity
      /\ work' = Put(work, t, vid)
      /\ vid' = IF final THEN FirstVid ELSE IF input.prog = "bc" THEN vid - 1 ELSE vid + 1
      /\ rep' = IF final THEN rep + 1 ELSE rep
      /\ UNCHANGED <<input, phase, run, neighbors, results, junk, pairs, sums, threads>>

BcKernel(t) ==
  /\ phase = "compute" /\ Raft("bc") /\ Has(work, t)
  /\ work' = Take(work, t)
  /\ sums' = [sums EXCEPT ![t] = @ \o [j \in DOMAIN Found[input][Head(work[t])] |->
                                          <<Found[input][Head(work[t])][j]>>]]
  /\ UNCHANGED <<input, phase, run, neighbors, results, junk, vid, rep, pairs, threads>>

LookupKernel(t) ==
  /\ phase = "compute" /\ Raft("tc") /\ Has(work, t)
  /\ work' = Take(work, t)
  /\ pairs' = [pairs EXCEPT ![t] = @ \o Lookups(Head(work[t]))]
  /\ UNCHANGED <<input, phase, run, neighbors, results, junk, vid, rep, sums, threads>>

CountKernel(t) ==
  /\ phase = "compute" /\ Raft("tc") /\ Has(pairs, t)
  /\ pairs' = Take(pairs, t)
  /\ sums' = Put(sums, t, Both(Head(pairs[t]), Triangles(Head(pairs[t]))))
  /\ UNCHANGED <<input, phase, run, neighbors, results, junk, vid, rep, work, threads>>

\* A reducer takes what a worker has found; RAFTLIB_ORIG has one reducer.
ReduceKernel(t) ==
  /\ phase = "compute" /\ todo[t] = <<>>
  /\ \E u \in Tids :
       /\ Has(sums, u)
       /\ sums' = Take(sums, u)
       /\ todo' = [todo EXCEPT ![t] = Head(sums[u])]
  /\ UNCHANGED <<input, phase, run, neighbors, results, junk, vid, rep, work, pairs, loaded, left>>

DcKernel(t) ==
  /\ phase = "compute" /\ Raft("dc") /\ todo[t] = <<>> /\ Has(work, t)
  /\ work' = Take(work, t)
  /\ outdegree' = WithOutdegree({Head(work[t])})
  /\ todo' = [todo EXCEPT ![t] = Adds(Head(work[t]))]
  /\ UNCHANGED <<input, phase, run, neighbors, count, total, junk, vid, rep, pairs, sums, loaded, left>>

\* An atomic addition: of dc, tc, and OpenMP.
AtomicAdd(t) ==
  /\ todo[t] # <<>> /\ ~Raft("bc")
  /\ count' = [count EXCEPT ![Head(todo[t]).v] = @ + Head(todo[t]).n]
  /\ todo' = [todo EXCEPT ![t] = Tail(@)]
  /\ UNCHANGED <<input, phase, run, neighbors, outdegree, total, junk, vid, rep, streams, loaded, left>>

\* bc adds to a floating-point number with the mutex of the vertex locked.
Holds(t, v) == loaded[t] # Idle /\ Head(todo[t]).v = v

\* Mutant: the addition begins whoever has the mutex.
LockAndLoad_Anyway(t) ==
  /\ todo[t] # <<>> /\ Raft("bc") /\ loaded[t] = Idle
  /\ loaded' = [loaded EXCEPT ![t] = count[Head(todo[t]).v]]
  /\ UNCHANGED <<input, phase, run, neighbors, results, junk, vid, rep, streams, todo, left>>

LockAndLoad(t) ==
  /\ todo[t] # <<>> /\ Raft("bc") /\ loaded[t] = Idle
  /\ \A u \in Tids : ~Holds(u, Head(todo[t]).v)
  /\ loaded' = [loaded EXCEPT ![t] = count[Head(todo[t]).v]]
  /\ UNCHANGED <<input, phase, run, neighbors, results, junk, vid, rep, streams, todo, left>>

StoreAndUnlock(t) ==
  /\ loaded[t] # Idle
  /\ count' = [count EXCEPT ![Head(todo[t]).v] = loaded[t] + Head(todo[t]).n]
  /\ loaded' = [loaded EXCEPT ![t] = Idle]
  /\ todo' = [todo EXCEPT ![t] = Tail(@)]
  /\ UNCHANGED <<input, phase, run, neighbors, outdegree, total, junk, vid, rep, streams, left>>

\* The DAG returns when the workset has stopped and the streams have run dry.
EndRaft ==
  /\ phase = "compute" /\ input.build = "raft" /\ rep = Repetition
  /\ \A t \in Tids : ~Has(work, t) /\ ~Has(pairs, t) /\ ~Has(sums, t) /\ ~Busy(t)
  /\ IF input.prog = "tc" THEN EndRun(Halved(count)) /\ total' = Third(Halved(count))
                          ELSE EndRun(count) /\ UNCHANGED total
  /\ UNCHANGED <<input, neighbors, outdegree, junk, vid, rep, streams, threads>>

-----------------------------------------------------------------------------
(* The threads of an OpenMP run.                                            *)

\* Mutant: the barrier stands at the head of the loop.
BeginVertex_Barrier(t) ==
  /\ phase = "compute" /\ Omp /\ todo[t] = <<>> /\ left[t] # {}
  /\ LET Begun(u) == Cardinality(RangeOf(u) \ left[u])
     IN  \A u \in Tids : Begun(u) > Begun(t) \/ (Begun(u) = Begun(t) /\ ~(left[u] = {} \/ todo[u] # <<>>))
  /\ todo' = [todo EXCEPT ![t] = Adds(Min(left[t]))]
  /\ left' = [left EXCEPT ![t] = @ \ {Min(@)}]
  /\ outdegree' = WithOutdegree({Min(left[t])})
  /\ UNCHANGED <<input, phase, run, neighbors, count, total, junk, vid, rep, streams, loaded>>

BeginVertex(t) ==
  /\ phase = "compute" /\ Omp /\ todo[t] = <<>> /\ left[t] # {}
  /\ LET v == Min(left[t])
     IN  /\ todo' = [todo EXCEPT ![t] = Adds(v)]
         /\ left' = [left EXCEPT ![t] = @ \ {v}]
         /\ outdegree' = WithOutdegree({v})
  /\ UNCHANGED <<input, phase, run, neighbors, count, total, junk, vid, rep, streams, loaded>>

\* The threads meet at the barrier of tc and the end of the parallel region; tc
\* halves the counts in between, each thread those of its range (that two of
\* them may do so at a time is left out).
Arrived == phase = "compute" /\ Omp /\ \A t \in Tids : ~Busy(t)

Visits(v) == Cardinality({t \in Tids : v \in RangeOf(t)})
EndOmp ==
  /\ Arrived
  /\ LET c == [v \in Vertices |-> count[v] \div 2 ^ Visits(v)]
     IN  IF input.prog = "tc" THEN EndRun(c) /\ total' = Third(c)
                              ELSE EndRun(count) /\ UNCHANGED total
  /\ UNCHANGED <<input, neighbors, outdegree, junk, vid, rep, streams, threads>>

Thread(t) ==
  \/ PrepareVertex(t) \/ WorksetKernel(t) \/ BcKernel(t) \/ LookupKernel(t) \/ CountKernel(t)
  \/ ReduceKernel(t) \/ DcKernel(t) \/ AtomicAdd(t) \/ LockAndLoad(t) \/ StoreAndUnlock(t)
  \/ BeginVertex(t)
Finished == phase = "done"
Next == \/ \E t \in Tids : Thread(t)
        \/ StartRun \/ Sequential \/ EndRaft \/ EndOmp
        \/ Finished /\ UNCHANGED vars

\* The scheduler runs a thread that can go on.
Spec == Init /\ [][Next]_vars /\ WF_vars(Next)

-----------------------------------------------------------------------------
(* Properties.                                                              *)

\* Reference definitions: walks of a length from s to t, the distance, and the
\* share of v in the shortest paths between all pairs of others.
Walks ==
  LET walks[d \in 0 .. Cardinality(Vertices)] ==
        [p \in Vertices \X Vertices |->
           IF d = 0 THEN IF p[1] = p[2] THEN 1 ELSE 0
           ELSE FoldLeft(LAMBDA n, w : n + walks[d - 1][<<w, p[2]>>], 0, Edges[p[1]])]
  IN  walks
Centrality(v) ==
  LET walks == Walks
      Linked(s, t) == \E d \in DOMAIN walks : walks[d][<<s, t>>] > 0
      Dist(s, t) == Min({d \in DOMAIN walks : walks[d][<<s, t>>] > 0})
      Paths(s, t) == walks[Dist(s, t)][<<s, t>>]
      Between == {p \in Vertices \X Vertices :
                    /\ p[1] # p[2] /\ p[1] # v /\ p[2] # v
                    /\ Linked(p[1], v) /\ Linked(v, p[2])
                    /\ Dist(p[1], v) + Dist(v, p[2]) = Dist(p[1], p[2])}
  IN  MapThenSumSet(LAMBDA p : (Scale * Paths(p[1], v) * Paths(v, p[2])) \div Paths(p[1], p[2]), Between)
        \div (IF input.undirected THEN 2 ELSE 1)

Adjacent(v, w) == w \in ToSet(Edges[v])
TrianglesAt(v) ==
  Cardinality({c \in SUBSET (Vertices \ {v}) :
                 Cardinality(c) = 2 /\ \A x \in c : Adjacent(v, x) /\ \A y \in c \ {x} : Adjacent(x, y)})
Indegree(v) == MapThenSumSet(LAMBDA w : Len(SelectSeq(Edges[w], LAMBDA x : x = v)), Vertices)

\* gen_workset makes all its cuts when no vertex has too many edges: a range has
\* less than a chunk and the edges of one vertex.
EnoughCuts ==
  LET chunk == Ceil(NumEdges, input.threads)
  IN  /\ NumEdges > 0
      /\ \A v \in Vertices : (input.threads - 2) * (chunk - 1 + Degree(v)) + chunk <= NumEdges

\* Whichever threads, kernels and streams the work went through, the last run
\* leaves the centralities, triangles or degrees of the graph: a RaftLib run
\* adds them Repetition times, and counts triangles right if the memory of its
\* counters happened to be zero and gen_workset has made its cuts.
Times == IF Parallel /\ input.build = "raft" THEN Repetition ELSE 1
ResultRight ==
  Finished /\ junk = 0 /\ (input.prog = "tc" => EnoughCuts) =>
    \A v \in Vertices :
      CASE input.prog = "bc" -> count[v] = Times * Centrality(v)
        [] input.prog = "dc" -> count[v] = Times * Indegree(v) /\ outdegree[v] = Degree(v)
        [] input.prog = "tc" -> /\ count[v] = Times * TrianglesAt(v)
                                /\ 3 * total = Times * MapThenSumSet(TrianglesAt, Vertices)

\* "prepare neighbor set for each vertex" (rl_tc.cpp:406): with one or two threads,
\* and with more if no vertex has too many edges, this is done once, by one thread.
\* (Otherwise gen_workset may leave a range that begins at vertex 0 again.)
PreparedOnce ==
  input.prog = "tc" /\ phase = "compute" /\ EnoughCuts => \A v \in Vertices : Len(neighbors[v]) = Degree(v)

\* Every run returns: the workset comes to an end, and no thread waits for a
\* mutex or a message for ever.
AllReturn == <>Finished
=============================================================================
