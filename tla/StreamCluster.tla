--------------------------- MODULE StreamCluster ---------------------------
(***************************************************************************)
(* The kernels of apps/streamcluster.  A token travels from the master      *)
(* through local search, which opens and closes centers among the points of *)
(* a chunk, and back; on its way kernels hand ranges of the points to       *)
(* worker kernels and wait for their answers.  Ports keep their order and   *)
(* have room; a kernel sends all its tasks in one action, since what a      *)
(* worker does with the first of them does not touch what the sender reads. *)
(* A coordinate is a number.  The facility cost z is abstracted to how often *)
(* it was halved: what depends on it is a choice within the code's tests.   *)
(***************************************************************************)
EXTENDS Integers, Sequences, FiniteSets, TLC, FiniteSetsExt, SequencesExt

CONSTANTS Streams,      \* the inputs: sequences of chunks of coordinates
          ChunkSize,    \* chunksize
          Shards,       \* values of nproc
          KMin, KMax,   \* kmin, kmax
          MaxFeasible,  \* ITER*kmin*log(kmin)
          Iter,         \* ITER*kmax*log(kmax)
          Halvings,     \* bound: halvings after which every point is opened
          MaxPasses,    \* bound on the passes over the candidates per chunk
          Flags         \* what the memory of switch_membership may hold at first

\* With kmin 1 there is no candidate and pFL divides by zero (line 877); a chunk
\* without two different points never has two centers (line 391).
ASSUME StreamClusterAssumption ==
  /\ {ChunkSize, MaxFeasible, Iter, Halvings, MaxPasses} \subseteq Nat \ {0}
  /\ Flags \subseteq SUBSET (0 .. ChunkSize - 1) /\ Shards \subseteq Nat \ {0} /\ KMin \in Nat /\ KMax \in Nat /\ 2 <= KMin /\ KMin <= KMax
  /\ Streams \subseteq Seq(Seq(Int))
  /\ \A s \in Streams : s # <<>> /\ \A c \in ToSet(s) : Len(c) <= ChunkSize /\ Cardinality(ToSet(c)) > 1

Rows == 0 .. ChunkSize - 1

VARIABLES
  nshards,
  stream,             \* the chunks not yet read
  waiting,            \* master: a chunk is under way
  block,              \* coordinates, by row
  points, num,        \* points->p and points->num
  is_center, center_tab,
  switch_membership,  \* points whose flag is set
  lower,              \* places of center_tab with gl_lower > 0
  feasible,
  centers,            \* the IDs of the centers copied
  offset,             \* IDoffset
  ch,                 \* the ports
  pc,                 \* where the kernels that wait inside run() are
  halved,             \* how often PKMedianPSpeedyLoop has halved z
  passes,             \* passes over the candidates
  speedy, fl, gain    \* locals of PSpeedy, PFL, PGain

master_vars == <<stream, waiting, block, num>>
center_vars == <<is_center, center_tab, switch_membership, lower>>
out_vars    == <<centers, offset>>
loop_vars   == <<halved, passes, feasible>>
kernel_vars == <<pc, speedy, fl, gain>>
vars == <<nshards, master_vars, points, center_vars, out_vars, ch, loop_vars, kernel_vars>>

Workers == {"costTo0", "centerTo0", "centerUpdate", "costSumup", "centerCount", "switchCostCalc",
            "lowerSumup", "commitSwitch"}
Ports == {"from_source", "from_master", "from_search", "from_init", "to_pspeedy", "from_pspeedy",
          "from_pkmedian", "from_speedyloop", "from_selectfeasible", "to_pFL", "from_pFL", "to_pgain", "from_pgain",
          "to_contcenters", "to_copycenters", "from_copycenters", "to_sink"}
Kernels == {"source", "sink", "search", "init", "loop", "speedy", "flloop", "fl", "gain"}

Num == 0 .. num - 1
At(i) == block[points[i].row]
Square(x) == x * x
CostTo(i, c) == Square(At(i) - At(c)) * points[i].weight
Assigned(i, c) == [points[i] EXCEPT !.assign = c, !.cost = CostTo(i, c)]

\* The sums of the first k of the n numbers of f.
Sums(f, n) == LET s[k \in 0 .. n] == IF k = 0 THEN 0 ELSE s[k - 1] + f[k] IN s
CostOf(k1, k2) == Sums([k \in 1 .. k2 - k1 |-> points[k1 + k - 1].cost], k2 - k1)[k2 - k1]
TotalCost == CostOf(0, num)
Total(answers) == Sums(answers, Len(answers))[Len(answers)]

NoPass == [tried |-> <<>>, changed |-> FALSE]

Init ==
  /\ nshards \in Shards /\ stream \in Streams /\ waiting = FALSE
  /\ block = [r \in Rows |-> 0] /\ num = ChunkSize
  /\ points = [i \in Rows |-> [row |-> i, weight |-> 1, assign |-> 0, cost |-> 0]]
  /\ is_center = [i \in Rows |-> FALSE] /\ center_tab = [i \in Rows |-> 0]
  /\ switch_membership \in Flags /\ lower = {}
  /\ feasible = <<>> /\ centers = <<>> /\ offset = 0
  /\ ch = [port |-> [p \in Ports |-> <<>>], task |-> [w \in Workers |-> <<>>],
            answer |-> [w \in Workers |-> <<>>]]
  /\ pc = [k \in Kernels |-> "idle"]
  /\ halved = 0 /\ passes = 0
  /\ speedy = [k |-> 0, i |-> 0]
  /\ fl = NoPass
  /\ gain = [k |-> 0, idx |-> 0]

-----------------------------------------------------------------------------
(* Ports, ranges, workers.                                                  *)

Has(p) == ch.port[p] # <<>>
Put(f, p, m) == [f EXCEPT !.port[p] = Append(@, m)]
Take(f, p) == [f EXCEPT !.port[p] = Tail(@)]
Moved(p, q, m) == Put(Take(ch, p), q, m)
Goto(k, label) == pc' = [pc EXCEPT ![k] = label]

\* Shard 0, 1, ... of total elements; the longer ones come first.  PGain starts
\* them at multiples of the remainder, the others of the stride.
Part(arg, shard, total, factor) ==
  LET rest == total % nshards
      k1 == shard * factor + (IF shard < rest THEN shard ELSE rest)
  IN  [arg |-> arg, k1 |-> k1, k2 |-> k1 + total \div nshards + (IF shard < rest THEN 1 ELSE 0)]
In(task) == task.k1 .. task.k2 - 1
Ranges(arg) == [s \in 1 .. nshards |-> Part(arg, s - 1, num, num \div nshards)]
GainRanges(total, arg) == [s \in 1 .. nshards |-> Part(arg, s - 1, total, total % nshards)]

Sent(f, w, tasks) == [f EXCEPT !.task[w] = @ \o tasks]
AllBack(w) == Len(ch.answer[w]) = nshards
Collected(w) == [ch EXCEPT !.answer[w] = <<>>]

\* A worker runs: it takes a task and answers it.
Task(w) == Head(ch.task[w])
Answers(w, answer) ==
  /\ ch.task[w] # <<>>
  /\ ch' = [ch EXCEPT !.task[w] = Tail(@), !.answer[w] = Append(@, answer)]
  /\ UNCHANGED <<nshards, master_vars, out_vars, loop_vars, kernel_vars>>

CostTo0 ==
  /\ Answers("costTo0", 0)
  /\ UNCHANGED <<points, center_vars>>

CenterTo0 ==
  /\ Answers("centerTo0", 0)
  /\ points' = [i \in Rows |-> IF i \in In(Task("centerTo0"))
                  THEN Assigned(i, 0) ELSE points[i]]
  /\ UNCHANGED center_vars

CenterUpdate ==
  LET t == Task("centerUpdate")
  IN  /\ Answers("centerUpdate", 0)
      /\ points' = [i \in Rows |-> IF i \in In(t) /\ CostTo(i, t.arg) < points[i].cost
                      THEN Assigned(i, t.arg) ELSE points[i]]
      /\ UNCHANGED center_vars

CostSumup ==
  /\ Answers("costSumup", CostOf(Task("costSumup").k1, Task("costSumup").k2))
  /\ UNCHANGED <<points, center_vars>>

CentersIn(set) == {i \in set : is_center[i]}

CenterCount ==
  LET set == CentersIn(In(Task("centerCount")))
  IN  /\ Answers("centerCount", Cardinality(set))
      /\ center_tab' = [i \in Rows |-> IF i \in set THEN Cardinality({j \in set : j < i}) ELSE center_tab[i]]
      /\ UNCHANGED <<points, is_center, switch_membership, lower>>

SwitchCostCalc ==
  LET t == Task("switchCostCalc")
  IN  /\ Answers("switchCostCalc", 0)
      /\ switch_membership' = switch_membership \cup {i \in In(t) : CostTo(i, t.arg) < points[i].cost}
      /\ UNCHANGED <<points, is_center, center_tab, lower>>

\* lower_tab is added to without having been cleared, so that every place may
\* come out positive; so may places without a center, which only count.
LowerSumup ==
  LET t == Task("lowerSumup")
      count == Cardinality(CentersIn(Num))
      used == 0 .. count - 1
  IN  /\ ch.task["lowerSumup"] # <<>>
      /\ \E places \in SUBSET used : \E others \in 0 .. Cardinality(In(t) \ used) :
           /\ Answers("lowerSumup", Cardinality(places \cap In(t)) + others)
           /\ lower' = places
      /\ UNCHANGED <<points, is_center, center_tab, switch_membership>>

\* Mutant: points of a center that closes stay with it.
CommitSwitch_Keeps ==
  LET t == Task("commitSwitch")
  IN  /\ Answers("commitSwitch", 0)
      /\ points' = [i \in Rows |-> IF i \in In(t) \cap switch_membership
                      THEN Assigned(i, t.arg) ELSE points[i]]
      /\ is_center' = [i \in Rows |-> is_center[i] /\ ~(i \in In(t) /\ center_tab[i] \in lower)]
      /\ UNCHANGED <<center_tab, switch_membership, lower>>

CommitSwitch ==
  LET t == Task("commitSwitch")
      Leaves(i) == i \in switch_membership \/ center_tab[points[i].assign] \in lower
  IN  /\ Answers("commitSwitch", 0)
      /\ points' = [i \in Rows |-> IF i \in In(t) /\ Leaves(i)
                      THEN Assigned(i, t.arg) ELSE points[i]]
      /\ is_center' = [i \in Rows |-> is_center[i] /\ ~(i \in In(t) /\ center_tab[i] \in lower)]
      /\ UNCHANGED <<center_tab, switch_membership, lower>>

Work == CostTo0 \/ CenterTo0 \/ CenterUpdate \/ CostSumup \/ CenterCount \/ SwitchCostCalc
        \/ LowerSumup \/ CommitSwitch

-----------------------------------------------------------------------------
(* The chain of kernels around the chunk.                                   *)

Source ==
  /\ pc["source"] = "idle" /\ Goto("source", "stopped")
  /\ ch' = Put(ch, "from_source", 0)
  /\ UNCHANGED <<nshards, master_vars, points, center_vars, out_vars, loop_vars, speedy, fl, gain>>

Sink ==
  /\ pc["sink"] = "idle" /\ Has("to_sink") /\ Goto("sink", "stopped")
  /\ ch' = Take(ch, "to_sink")
  /\ UNCHANGED <<nshards, master_vars, points, center_vars, out_vars, loop_vars, speedy, fl, gain>>

\* Reading overwrites the rows of the block, not the points.
MasterReads ==
  LET port == IF waiting THEN "from_copycenters" ELSE "from_source"
      chunk == Head(stream)
  IN  /\ Has(port) /\ stream # <<>>
      /\ block' = [r \in Rows |-> IF r < Len(chunk) THEN chunk[r + 1] ELSE block[r]]
      /\ num' = Len(chunk)
      /\ stream' = Tail(stream) /\ waiting' = TRUE
      /\ ch' = Moved(port, "from_master", 0)
      /\ UNCHANGED <<nshards, points, center_vars, out_vars, loop_vars, kernel_vars>>

MasterStops ==
  /\ waiting /\ Has("from_copycenters") /\ stream = <<>>
  /\ waiting' = FALSE
  /\ ch' = Moved("from_copycenters", "to_sink", 0)
  /\ UNCHANGED <<nshards, stream, block, num, points, center_vars, out_vars, loop_vars, kernel_vars>>

SearchStarts ==
  /\ pc["search"] = "idle" /\ Has("from_master") /\ Goto("search", "wait")
  /\ ch' = Moved("from_master", "from_search", 0)
  /\ UNCHANGED <<nshards, master_vars, points, center_vars, out_vars, loop_vars, speedy, fl, gain>>

SearchEnds ==
  /\ pc["search"] = "wait" /\ Has("from_pkmedian") /\ Goto("search", "idle")
  /\ ch' = Moved("from_pkmedian", "to_contcenters", 0)
  /\ UNCHANGED <<nshards, master_vars, points, center_vars, out_vars, loop_vars, speedy, fl, gain>>

Shuffle ==
  \E f \in Bijection(Num, Num) : points' = [i \in Rows |-> IF i \in Num THEN points[f[i]] ELSE points[i]]

InitSends ==
  /\ pc["init"] = "idle" /\ Has("from_search") /\ Goto("init", "sum")
  /\ ch' = Sent(Take(ch, "from_search"), "costTo0", Ranges(0))
  /\ UNCHANGED <<nshards, master_vars, points, center_vars, out_vars, loop_vars, speedy, fl, gain>>

InitShuffles ==
  /\ pc["init"] = "sum" /\ AllBack("costTo0") /\ Goto("init", "idle")
  /\ Shuffle
  /\ ch' = Put(Collected("costTo0"), "from_init", 0)
  /\ UNCHANGED <<nshards, master_vars, center_vars, out_vars, loop_vars, speedy, fl, gain>>

-----------------------------------------------------------------------------
(* Opening centers at random until there are kmin of them.                  *)

LoopStarts ==
  /\ pc["loop"] = "idle" /\ Has("from_init") /\ Goto("loop", "wait")
  /\ halved' = 0
  /\ ch' = Moved("from_init", "to_pspeedy", 1)
  /\ UNCHANGED <<nshards, master_vars, points, center_vars, out_vars, passes, feasible, speedy, fl, gain>>

\* Mutant: z stays what it was.
LoopRepeats_SameZ ==
  /\ pc["loop"] = "wait" /\ Has("from_pspeedy")
  /\ LET k == Head(ch.port["from_pspeedy"]).k
     IN  /\ k < KMin
         /\ ch' = Moved("from_pspeedy", "to_pspeedy", k)
  /\ Shuffle
  /\ UNCHANGED <<nshards, master_vars, center_vars, out_vars, loop_vars, kernel_vars>>

\* Not enough: z is halved.  The number opened so far is handed on.
LoopRepeats ==
  /\ pc["loop"] = "wait" /\ Has("from_pspeedy")
  /\ LET k == Head(ch.port["from_pspeedy"]).k
     IN  /\ k < KMin
         /\ ch' = Moved("from_pspeedy", "to_pspeedy", k)
  /\ halved' = Min({halved + 1, Halvings})
  /\ Shuffle
  /\ UNCHANGED <<nshards, master_vars, center_vars, out_vars, passes, feasible, kernel_vars>>

LoopEnds ==
  /\ pc["loop"] = "wait" /\ Has("from_pspeedy") /\ Goto("loop", "idle")
  /\ LET k == Head(ch.port["from_pspeedy"]).k
     IN  /\ k >= KMin
         /\ ch' = Moved("from_pspeedy", "from_speedyloop", k)
  /\ UNCHANGED <<nshards, master_vars, points, center_vars, out_vars, loop_vars, speedy, fl, gain>>

SpeedyStarts ==
  /\ pc["speedy"] = "idle" /\ Has("to_pspeedy") /\ Goto("speedy", "to0")
  /\ speedy' = [k |-> Head(ch.port["to_pspeedy"]), i |-> 1]
  /\ ch' = Sent(Take(ch, "to_pspeedy"), "centerTo0", Ranges(0))
  /\ UNCHANGED <<nshards, master_vars, points, center_vars, out_vars, loop_vars, fl, gain>>

SpeedyAt0 ==
  /\ pc["speedy"] = "to0" /\ AllBack("centerTo0") /\ Goto("speedy", "walk")
  /\ ch' = Collected("centerTo0")
  /\ UNCHANGED <<nshards, master_vars, points, center_vars, out_vars, loop_vars, speedy, fl, gain>>

\* The chance to be opened is cost / z: none for a cost of 0, sure in the end.
SpeedyOpens ==
  /\ pc["speedy"] = "walk" /\ speedy.i < num /\ points[speedy.i].cost > 0
  /\ Goto("speedy", "updates")
  /\ speedy' = [speedy EXCEPT !.k = @ + 1]
  /\ ch' = Sent(ch, "centerUpdate", Ranges(speedy.i))
  /\ UNCHANGED <<nshards, master_vars, points, center_vars, out_vars, loop_vars, fl, gain>>

SpeedySkips ==
  /\ pc["speedy"] = "walk" /\ speedy.i < num
  /\ points[speedy.i].cost > 0 => halved < Halvings
  /\ speedy' = [speedy EXCEPT !.i = @ + 1]
  /\ UNCHANGED <<nshards, master_vars, points, center_vars, out_vars, ch, loop_vars, pc, fl, gain>>

\* Mutant: goes on before the shards have answered.
SpeedyUpdated_Early ==
  /\ pc["speedy"] = "updates" /\ Goto("speedy", "walk")
  /\ speedy' = [speedy EXCEPT !.i = @ + 1]
  /\ ch' = Collected("centerUpdate")
  /\ UNCHANGED <<nshards, master_vars, points, center_vars, out_vars, loop_vars, fl, gain>>

SpeedyUpdated ==
  /\ pc["speedy"] = "updates" /\ AllBack("centerUpdate") /\ Goto("speedy", "walk")
  /\ speedy' = [speedy EXCEPT !.i = @ + 1]
  /\ ch' = Collected("centerUpdate")
  /\ UNCHANGED <<nshards, master_vars, points, center_vars, out_vars, loop_vars, fl, gain>>

SpeedySums ==
  /\ pc["speedy"] = "walk" /\ speedy.i >= num /\ Goto("speedy", "sum")
  /\ ch' = Sent(ch, "costSumup", Ranges(0))
  /\ UNCHANGED <<nshards, master_vars, points, center_vars, out_vars, loop_vars, speedy, fl, gain>>

SpeedyEnds ==
  /\ pc["speedy"] = "sum" /\ AllBack("costSumup") /\ Goto("speedy", "idle")
  /\ ch' = Put(Collected("costSumup"), "from_pspeedy",
               [k |-> speedy.k, cost |-> Total(ch.answer["costSumup"])])
  /\ speedy' = [k |-> 0, i |-> 0]
  /\ UNCHANGED <<nshards, master_vars, points, center_vars, out_vars, loop_vars, fl, gain>>

-----------------------------------------------------------------------------
(* Facility location: candidates, and the gain of opening each of them.     *)

\* Candidates are drawn by weight, which every point has.
SelectFeasible ==
  /\ Has("from_speedyloop")
  /\ IF MaxFeasible >= num THEN feasible' = [j \in 1 .. num |-> j - 1]
                           ELSE feasible' \in [1 .. MaxFeasible -> Num]
  /\ ch' = Moved("from_speedyloop", "from_selectfeasible", Head(ch.port["from_speedyloop"]))
  /\ UNCHANGED <<nshards, master_vars, points, center_vars, out_vars, halved, passes, kernel_vars>>

FLLoopStarts ==
  /\ pc["flloop"] = "idle" /\ Has("from_selectfeasible") /\ Goto("flloop", "wait")
  /\ is_center' = [i \in Rows |-> (i >= num /\ is_center[i]) \/ \E j \in Num : points[j].assign = i]
  /\ passes' = 0
  /\ ch' = Moved("from_selectfeasible", "to_pFL", Head(ch.port["from_selectfeasible"]))
  /\ UNCHANGED <<nshards, master_vars, points, center_tab, switch_membership, lower, out_vars, halved,
                 feasible, speedy, fl, gain>>

\* Too many or too few: another z, until it hardly changes any more.
FLLoopRepeats ==
  /\ pc["flloop"] = "wait" /\ Has("from_pFL") /\ passes < MaxPasses
  /\ LET k == Head(ch.port["from_pFL"])
     IN  /\ k \notin KMin .. KMax
         /\ ch' = Moved("from_pFL", "to_pFL", k)
  /\ UNCHANGED <<nshards, master_vars, points, center_vars, out_vars, loop_vars, kernel_vars>>

FLLoopEnds ==
  /\ pc["flloop"] = "wait" /\ Has("from_pFL") /\ Goto("flloop", "idle")
  /\ passes' = 0
  /\ ch' = Moved("from_pFL", "from_pkmedian", 0)
  /\ UNCHANGED <<nshards, master_vars, points, center_vars, out_vars, halved, feasible, speedy, fl, gain>>

\* The candidates are shuffled before every pass and then tried in turn, over
\* and over: the next is any that has not been tried in this pass.
Candidates(tried) ==
  LET n == Len(feasible)
  IN  IF Len(tried) < n THEN (DOMAIN feasible) \ ToSet(tried) ELSE {tried[(Len(tried) % n) + 1]}
Tries(tried, changed, port, k) ==
  \E j \in Candidates(tried) :
    /\ fl' = [tried |-> Append(tried, j), changed |-> changed]
    /\ ch' = Moved(port, "to_pgain", [k |-> k, idx |-> feasible[j]])

\* Without any cost there is nothing to gain.
FLStarts ==
  /\ pc["fl"] = "idle" /\ Has("to_pFL") /\ Goto("fl", "wait")
  /\ TotalCost > 0 \/ passes > 0
  /\ passes' = passes + 1
  /\ Tries(<<>>, FALSE, "to_pFL", Head(ch.port["to_pFL"]))
  /\ UNCHANGED <<nshards, master_vars, points, center_vars, out_vars, halved, feasible, speedy, gain>>

FLSkips ==
  /\ pc["fl"] = "idle" /\ Has("to_pFL") /\ TotalCost = 0 /\ passes = 0
  /\ passes' = 1
  /\ ch' = Moved("to_pFL", "from_pFL", Head(ch.port["to_pFL"]))
  /\ UNCHANGED <<nshards, master_vars, points, center_vars, out_vars, halved, feasible, kernel_vars>>

Answer == Head(ch.port["from_pgain"])
LastTried == Len(fl.tried) = Iter

FLNext ==
  /\ pc["fl"] = "wait" /\ Has("from_pgain") /\ ~LastTried
  /\ Tries(fl.tried, fl.changed \/ Answer.opened, "from_pgain", Answer.k)
  /\ UNCHANGED <<nshards, master_vars, points, center_vars, out_vars, loop_vars, pc, speedy, gain>>

\* Another pass while the gain of the last one was more than a tenth.
FLRepeats ==
  /\ pc["fl"] = "wait" /\ Has("from_pgain") /\ LastTried /\ passes < MaxPasses
  /\ fl.changed \/ Answer.opened
  /\ passes' = passes + 1
  /\ Tries(<<>>, FALSE, "from_pgain", Answer.k)
  /\ UNCHANGED <<nshards, master_vars, points, center_vars, out_vars, halved, feasible, pc, speedy, gain>>

FLEnds ==
  /\ pc["fl"] = "wait" /\ Has("from_pgain") /\ LastTried /\ Goto("fl", "idle")
  /\ fl' = NoPass
  /\ ch' = Moved("from_pgain", "from_pFL", Answer.k)
  /\ UNCHANGED <<nshards, master_vars, points, center_vars, out_vars, loop_vars, speedy, gain>>

GainCounts ==
  /\ pc["gain"] = "idle" /\ Has("to_pgain") /\ Goto("gain", "counts")
  /\ gain' = Head(ch.port["to_pgain"])
  /\ ch' = Sent(Take(ch, "to_pgain"), "centerCount", GainRanges(num, 0))
  /\ UNCHANGED <<nshards, master_vars, points, center_vars, out_vars, loop_vars, speedy, fl>>

\* With several shards the offsets are sent to a port the kernel does not have,
\* "to_centerUpdate": the exception ends the program.
GainFails ==
  /\ pc["gain"] = "counts" /\ AllBack("centerCount") /\ nshards > 1 /\ Goto("gain", "failed")
  /\ ch' = Collected("centerCount")
  /\ UNCHANGED <<nshards, master_vars, points, center_vars, out_vars, loop_vars, speedy, fl, gain>>

GainCosts ==
  /\ pc["gain"] = "counts" /\ AllBack("centerCount") /\ nshards = 1 /\ Goto("gain", "costs")
  /\ ch' = Sent(Collected("centerCount"), "switchCostCalc", GainRanges(num, gain.idx))
  /\ UNCHANGED <<nshards, master_vars, points, center_vars, out_vars, loop_vars, speedy, fl, gain>>

GainLowers ==
  /\ pc["gain"] = "costs" /\ AllBack("switchCostCalc") /\ Goto("gain", "lowers")
  /\ ch' = Sent(Collected("switchCostCalc"), "lowerSumup", GainRanges(gain.k, 0))
  /\ UNCHANGED <<nshards, master_vars, points, center_vars, out_vars, loop_vars, speedy, fl, gain>>

Closing == Total(ch.answer["lowerSumup"])

GainOpens ==
  /\ pc["gain"] = "lowers" /\ AllBack("lowerSumup") /\ Goto("gain", "commits")
  /\ gain' = [gain EXCEPT !.k = @ - Closing + 1]
  /\ ch' = Sent(Collected("lowerSumup"), "commitSwitch", GainRanges(num, gain.idx))
  /\ UNCHANGED <<nshards, master_vars, points, center_vars, out_vars, loop_vars, speedy, fl>>

GainDeclines ==
  /\ pc["gain"] = "lowers" /\ AllBack("lowerSumup") /\ Goto("gain", "idle")
  /\ lower' = {}
  /\ gain' = [k |-> 0, idx |-> 0]
  /\ ch' = Put(Collected("lowerSumup"), "from_pgain", [k |-> gain.k, opened |-> FALSE])
  /\ UNCHANGED <<nshards, master_vars, points, is_center, center_tab, switch_membership, out_vars,
                 loop_vars, speedy, fl>>

GainCommits ==
  /\ pc["gain"] = "commits" /\ AllBack("commitSwitch") /\ Goto("gain", "idle")
  /\ is_center' = [is_center EXCEPT ![gain.idx] = TRUE]
  /\ lower' = {}
  /\ gain' = [k |-> 0, idx |-> 0]
  /\ ch' = Put(Collected("commitSwitch"), "from_pgain", [k |-> gain.k, opened |-> TRUE])
  /\ UNCHANGED <<nshards, master_vars, points, center_tab, switch_membership, out_vars, loop_vars,
                 speedy, fl>>

-----------------------------------------------------------------------------
(* The centers take the weight of their points, and are copied.             *)

Members(c) == {i \in Num : points[i].assign = c}
Gather(weight, i) == [weight EXCEPT ![points[i].assign] = @ + weight[i]]
Weights == LET w[k \in 0 .. num] == IF k = 0 THEN [i \in Rows |-> points[i].weight]
                                             ELSE Gather(w[k - 1], k - 1)
           IN  w[num]

\* A center moves to the weighted mean: somewhere between the points.
Moving == {points[c].row : c \in {d \in Num : ~(Members(d) \subseteq {d})}}
Coords == {At(i) : i \in Num}
ContCenters ==
  /\ Has("to_contcenters")
  /\ points' = [i \in Rows |-> [points[i] EXCEPT !.weight = Weights[i]]]
  /\ \E f \in [Moving -> Min(Coords) .. Max(Coords)] :
       block' = [r \in Rows |-> IF r \in Moving THEN f[r] ELSE block[r]]
  /\ ch' = Moved("to_contcenters", "to_copycenters", 0)
  /\ UNCHANGED <<nshards, stream, waiting, num, center_vars, out_vars, loop_vars, kernel_vars>>

CentersFound == SetToSortSeq(CentersIn(Num), <)
CopyCenters ==
  /\ Has("to_copycenters")
  /\ centers' = centers \o [j \in DOMAIN CentersFound |-> offset + CentersFound[j]]
  /\ offset' = offset + num
  /\ ch' = Moved("to_copycenters", "from_copycenters", 0)
  /\ UNCHANGED <<nshards, master_vars, points, center_vars, loop_vars, kernel_vars>>

Chain == Source \/ Sink \/ MasterReads \/ MasterStops \/ SearchStarts \/ SearchEnds \/ InitSends
         \/ InitShuffles \/ ContCenters \/ CopyCenters
Speedy == LoopStarts \/ LoopRepeats \/ LoopEnds \/ SpeedyStarts \/ SpeedyAt0 \/ SpeedyOpens
          \/ SpeedySkips \/ SpeedyUpdated \/ SpeedySums \/ SpeedyEnds
Location == SelectFeasible \/ FLLoopStarts \/ FLLoopRepeats \/ FLLoopEnds \/ FLStarts \/ FLSkips
            \/ FLNext \/ FLRepeats \/ FLEnds
Gain == GainCounts \/ GainFails \/ GainCosts \/ GainLowers \/ GainOpens \/ GainDeclines \/ GainCommits

Failed == pc["gain"] = "failed"
Stopped == pc["sink"] = "stopped"
Next == \/ ~Failed /\ (Work \/ Chain \/ Speedy \/ Location \/ Gain)
        \/ (Failed \/ Stopped) /\ UNCHANGED vars

\* RaftLib runs a kernel whenever its input is there.
Spec == Init /\ [][Next]_vars /\ WF_vars(Next)

-----------------------------------------------------------------------------
(* Properties.                                                              *)

\* While candidates are opened and centers closed, and until the centers are
\* copied, every point is assigned to a point that is a center: CommitSwitch
\* decides both from the places that CenterCount has left in center_tab.
Locating == pc["fl"] = "wait" \/ Has("from_pFL") \/ Has("to_contcenters") \/ Has("to_copycenters")
AssignedToCenter ==
  Locating /\ pc["gain"] # "commits" => \A i \in Num : is_center[points[i].assign]

\* What PSpeedy reports: every point is assigned to the nearest of the points
\* opened, at its cost, and all costs are in the sum, whatever the shards.
SpeedyRight ==
  Has("from_pspeedy") =>
    /\ \A i, j \in Num : points[i].cost = CostTo(i, points[i].assign)
                         /\ points[i].cost <= CostTo(i, points[j].assign)
    /\ Head(ch.port["from_pspeedy"]).cost = TotalCost

\* All chunks are clustered, or the program has failed: z is halved until there
\* are centers enough, and no kernel waits for an answer that does not come.
AllClustered == <>(Failed \/ Stopped)

=============================================================================
