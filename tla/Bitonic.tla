------------------------------ MODULE Bitonic ------------------------------
(***************************************************************************)
(* The parallel bitonic sort of apps/bitonic/bitonic.cpp.  One master      *)
(* cuts the array into blocks of 2^MiniExp elements and pushes tasks, one  *)
(* per block, into the queue tosort; slaves execute them on the shared     *)
(* array and push them into topair; the master counts the finished tasks   *)
(* in three arrays to find out which tasks have become ready.              *)
(*                                                                         *)
(* A queue is a bag of at most QCap messages: the lock-free, ZeroMQ, CAF   *)
(* and Virtual-Link queues the code is built with keep no common order.    *)
(* A block index stands for a message's beg >> MINI_TASK_EXP.              *)
(***************************************************************************)
EXTENDS Integers, Sequences, Bags, BagsExt, SequencesExt

CONSTANTS MiniExp,      \* MINI_TASK_EXP
          LenExp,       \* the array has 2^LenExp elements (roundup64)
          Slaves,       \* NUM_SLAVES threads
          MaxOnTheFly,  \* MAX_ON_THE_FLY
          QCap,         \* capacity of each queue
          Inputs        \* the arrays to sort

\* With fewer elements than a block cnt_len is 0 and the count arrays are empty.
ASSUME BitonicAssumption ==
  /\ MiniExp \in Nat \ {0} /\ LenExp \in Nat /\ LenExp >= MiniExp
  /\ MaxOnTheFly \in Nat \ {0} /\ QCap \in Nat \ {0}

VARIABLES
  arr,        \* the shared array
  tosort,     \* bag of tasks pushed to the slaves
  topair,     \* bag of finished tasks pushed to the master
  slave,      \* per slave: [at, task]
  master,     \* where the master is: feed, loop, push, join, end
  todo,       \* tasks the master is about to push, in order
  feedIn,     \* blocks fed in so far
  onTheFly,   \* on_the_fly
  scnts,      \* per block: log2 of the sorted run that starts there
  dcnts,      \* per block: completed levels of the swap / rswap tree
  bcnts       \* per block: completed levels of the merge tree

work   == <<arr, tosort, topair, slave>>
counts == <<scnts, dcnts, bcnts>>
vars   == <<work, counts, master, todo, feedIn, onTheFly>>

Blocks  == 0 .. 2 ^ (LenExp - MiniExp) - 1
Indices == 0 .. 2 ^ LenExp - 1
Task    == [blk : Blocks, exp : 0 .. LenExp, rev : BOOLEAN]
NoTask  == [blk |-> 0, exp |-> 0, rev |-> FALSE]

Base(i, k) == (i \div 2 ^ k) * 2 ^ k      \* (i >> k) << k

-----------------------------------------------------------------------------
(* What a task does to the array (utils.hpp, and the slave's task bodies). *)

\* The comparators of swap_seg / rswap_seg on the run of 2^e elements from b,
\* for the elements lo .. hi-1 of its first half.
Comparators(b, e, rev, lo, hi) ==
  {<<i, IF rev THEN b + 2 ^ e - 1 - (i - b) ELSE i + 2 ^ (e - 1)>> : i \in lo .. hi - 1}

CompareAndSwap(a, pairs) ==
  [i \in DOMAIN a |->
     LET p == CHOOSE p \in pairs : p[1] = i \/ p[2] = i
     IN  IF \A q \in pairs : q[1] # i /\ q[2] # i THEN a[i]
         ELSE IF (a[p[1]] > a[p[2]]) THEN a[IF i = p[1] THEN p[2] ELSE p[1]]
         ELSE a[i]]

\* swap or rswap on every run of 2^e elements inside the block.
SwapRuns(a, blk, e, rev) ==
  LET runs == {b \in Indices : b % 2 ^ e = 0 /\ b \div 2 ^ MiniExp = blk}
  IN  CompareAndSwap(a, UNION {Comparators(b, e, rev, b, b + 2 ^ (e - 1)) : b \in runs})

Downto(e) == [i \in 1 .. e |-> e + 1 - i]      \* e, e-1, ..., 1

\* Swap at every level from 2^e down to pairs.
SwapDown(a, blk, e) == FoldLeft(LAMBDA x, h : SwapRuns(x, blk, h, FALSE), a, Downto(e))

\* The bottom task: one swap or rswap of the block, then down to pairs.
SortBottom(a, t) ==
  SwapDown(SwapRuns(a, t.blk, MiniExp, t.rev), t.blk, MiniExp - 1)

\* The initial task: a bitonic sort of the block.
SortBlock(a, t) ==
  FoldLeft(LAMBDA x, e : SwapDown(SwapRuns(x, t.blk, e, TRUE), t.blk, e - 1),
           a, [e \in 1 .. MiniExp |-> e])

\* A segment of a swap or rswap task longer than a block.
Segment(t) ==
  LET first == t.blk * 2 ^ MiniExp
  IN  Comparators(Base(first, t.exp), t.exp, t.rev, first, first + 2 ^ MiniExp)

Execute(a, t) ==
  IF t.exp > MiniExp THEN CompareAndSwap(a, Segment(t))
  ELSE IF t.exp = MiniExp THEN SortBottom(a, t) ELSE SortBlock(a, t)

\* The elements a task reads and writes.
Touches(t) ==
  IF t.exp > MiniExp THEN UNION {{p[1], p[2]} : p \in Segment(t)}
  ELSE {i \in Indices : i \div 2 ^ MiniExp = t.blk}

-----------------------------------------------------------------------------
(* The master's bookkeeping (utils.cpp).                                   *)

\* Are the run at idx and its sibling sorted to the same length?
Level(sc, idx) == sc[idx] - MiniExp
PairBase(sc, idx) == Base(idx, Level(sc, idx) + 1)
IsPaired_Always(sc, idx) == TRUE      \* mutant: the sibling is not looked at
IsPaired(sc, idx) ==
  sc[PairBase(sc, idx)] = sc[PairBase(sc, idx) + 2 ^ Level(sc, idx)]

\* The exponent of the largest sorted run that contains block idx.
MaxSorted(sc, idx) ==
  LET up[i \in Blocks] ==
        LET j == Base(i, Level(sc, i) + 1)
        IN  IF sc[i] < sc[j] THEN up[j] ELSE sc[i]
  IN  up[idx]

\* One more leaf at idx is done: count completed levels up the tree while the
\* sibling is complete too.  Gives the counts and the level reached.
MaxDone(dc, idx, maxLevel) ==
  LET climb(acc, n) ==
        LET done == [acc.dc EXCEPT ![acc.at] = @ + 1]
            lvl  == done[acc.at]
            left == Base(acc.at, lvl)
        IN  IF acc.stop THEN acc
            ELSE [dc |-> done, at |-> left, level |-> lvl,
                  stop |-> lvl >= maxLevel
                           \/ done[left] # done[left + 2 ^ (lvl - 1)]]
  IN  FoldLeft(climb,
               [dc |-> [dc EXCEPT ![idx] = 0], at |-> idx, level |-> 0, stop |-> FALSE],
               [n \in 1 .. maxLevel |-> n])

\* The tasks of one swap / rswap of 2^e elements from block b: one for each
\* block of the first half, or the one bottom task.
SegmentBlocks(b, e) == b .. b + (IF e > MiniExp THEN 2 ^ (e - MiniExp - 1) ELSE 1) - 1
TasksOf(b, e, rev) ==
  [i \in 1 .. (IF e > MiniExp THEN 2 ^ (e - MiniExp - 1) ELSE 1) |->
     [blk |-> b + i - 1, exp |-> e, rev |-> rev]]

Zeroed(f, S) == [b \in DOMAIN f |-> IF b \in S THEN 0 ELSE f[b]]

-----------------------------------------------------------------------------
Init ==
  /\ arr \in Inputs
  /\ tosort = EmptyBag /\ topair = EmptyBag
  /\ slave = [s \in Slaves |-> [at |-> "idle", task |-> NoTask]]
  /\ master = "feed" /\ todo = <<>>
  /\ feedIn = 0 /\ onTheFly = 0
  /\ scnts = [b \in Blocks |-> 0]
  /\ dcnts = [b \in Blocks |-> 0]
  /\ bcnts = [b \in Blocks |-> 0]

HasRoom(q)  == BagCardinality(q) < QCap
Put(q, t)   == q (+) SetToBag({t})
Take(q, t)  == q (-) SetToBag({t})

FeedBlock ==
  /\ HasRoom(tosort)
  /\ tosort' = Put(tosort, [NoTask EXCEPT !.blk = feedIn])
  /\ feedIn' = feedIn + 1
  /\ onTheFly' = onTheFly + 1
  /\ UNCHANGED <<arr, topair, slave, counts, todo>>

\* The first initial tasks, pushed with blocking pushes.
FeedFirst ==
  /\ master = "feed"
  /\ FeedBlock
  /\ master' = IF feedIn' = 2 ^ (LenExp - MiniExp) \/ onTheFly' >= MaxOnTheFly
                 THEN "loop" ELSE "feed"

\* Later ones, when no message was processed and few tasks are out.
FeedMore ==
  /\ master = "loop"
  /\ feedIn < 2 ^ (LenExp - MiniExp) /\ onTheFly < MaxOnTheFly
  /\ FeedBlock
  /\ UNCHANGED master

\* The tasks a processed message makes ready, and what becomes of the counts.
Continue(tasks) ==
  /\ todo' = tasks
  /\ master' = IF tasks = <<>> THEN "loop" ELSE "push"

\* A swap or rswap segment: when its tree is complete, the two halves follow.
SegmentDone(t) ==
  LET d == MaxDone(dcnts, t.blk, t.exp - MiniExp)
      b == Base(t.blk, t.exp - MiniExp)
      h == b + 2 ^ (t.exp - 1 - MiniExp)
      e == t.exp - 1
  IN  /\ t.exp > MiniExp
      /\ IF d.level = t.exp - MiniExp
           THEN /\ dcnts' = Zeroed(d.dc, SegmentBlocks(b, e) \cup SegmentBlocks(h, e))
                /\ Continue(TasksOf(b, e, FALSE) \o TasksOf(h, e, FALSE))
           ELSE dcnts' = d.dc /\ Continue(<<>>)
      /\ UNCHANGED <<scnts, bcnts>>

\* Mutant: the bottom counts of the previous merge are not reset.
StartMerge_KeepsBottom(b, e, bc) ==
  /\ dcnts' = Zeroed(dcnts, SegmentBlocks(b, e + 1))
  /\ bcnts' = bc
  /\ Continue(TasksOf(b, e + 1, TRUE))

\* A pair of sorted runs of 2^e elements, the first at block b, is merged next.
StartMerge(b, e, bc) ==
  /\ dcnts' = Zeroed(dcnts, SegmentBlocks(b, e + 1))
  /\ bcnts' = Zeroed(bc, b .. b + 2 ^ (e + 1 - MiniExp) - 1)
  /\ Continue(TasksOf(b, e + 1, TRUE))

\* A bottom task: when the whole merge tree touched the bottom, a run is sorted.
BottomDone(t) ==
  LET e   == MaxSorted(scnts, t.blk) + 1
      d   == MaxDone(bcnts, t.blk, e - MiniExp + 1)
      run == Base(t.blk, e - MiniExp)
      sc  == [scnts EXCEPT ![run] = @ + 1]
  IN  /\ t.exp = MiniExp
      /\ IF d.level + MiniExp - 1 # e
           THEN bcnts' = d.dc /\ Continue(<<>>) /\ UNCHANGED <<scnts, dcnts>>
           ELSE /\ scnts' = sc
                /\ IF sc[0] = LenExp
                     THEN /\ master' = "join"
                          /\ bcnts' = d.dc
                          /\ UNCHANGED <<dcnts, todo>>
                     ELSE IF IsPaired(sc, run)
                            THEN StartMerge(PairBase(sc, run), e, d.dc)
                            ELSE bcnts' = d.dc /\ Continue(<<>>) /\ UNCHANGED dcnts

\* An initial task: its block is sorted.
BlockDone(t) ==
  LET sc == [scnts EXCEPT ![t.blk] = MiniExp]
  IN  /\ t.exp < MiniExp
      /\ scnts' = sc
      /\ IF sc[0] >= LenExp
           THEN master' = "join" /\ UNCHANGED <<dcnts, bcnts, todo>>
           ELSE IF IsPaired(sc, t.blk)
                  THEN StartMerge(PairBase(sc, t.blk), MiniExp, bcnts)
                  ELSE Continue(<<>>) /\ UNCHANGED <<dcnts, bcnts>>

Pair(t) ==
  /\ master = "loop"
  /\ topair' = Take(topair, t)
  /\ onTheFly' = onTheFly - 1
  /\ SegmentDone(t) \/ BottomDone(t) \/ BlockDone(t)
  /\ UNCHANGED <<arr, tosort, slave, feedIn>>

PushTask ==
  /\ master = "push"
  /\ HasRoom(tosort)
  /\ tosort' = Put(tosort, Head(todo))
  /\ todo' = Tail(todo)
  /\ onTheFly' = onTheFly + 1
  /\ master' = IF Len(todo) = 1 THEN "loop" ELSE "push"
  /\ UNCHANGED <<arr, topair, slave, counts, feedIn>>

\* lock.done is set when the master leaves its loop.
Join ==
  /\ master = "join"
  /\ \A s \in Slaves : slave[s].at = "exit"
  /\ master' = "end"
  /\ UNCHANGED <<work, counts, todo, feedIn, onTheFly>>

SlaveMoves(s, at, t) == slave' = [slave EXCEPT ![s] = [at |-> at, task |-> t]]

PopTask(s, t) ==
  /\ slave[s].at = "idle"
  /\ tosort' = Take(tosort, t)
  /\ SlaveMoves(s, "busy", t)
  /\ UNCHANGED <<arr, topair, counts, master, todo, feedIn, onTheFly>>

\* The whole task at once: DisjointTasks makes its steps independent of others.
DoTask(s) ==
  /\ slave[s].at = "busy"
  /\ arr' = Execute(arr, slave[s].task)
  /\ SlaveMoves(s, "report", slave[s].task)
  /\ UNCHANGED <<tosort, topair, counts, master, todo, feedIn, onTheFly>>

Report(s) ==
  /\ slave[s].at = "report"
  /\ HasRoom(topair)
  /\ topair' = Put(topair, slave[s].task)
  /\ SlaveMoves(s, "idle", NoTask)
  /\ UNCHANGED <<arr, tosort, counts, master, todo, feedIn, onTheFly>>

\* Mutant: done is set after the slaves are joined.
Quit_AfterJoin(s) ==
  /\ slave[s].at = "idle"
  /\ tosort = EmptyBag
  /\ master = "end"
  /\ SlaveMoves(s, "exit", NoTask)
  /\ UNCHANGED <<arr, tosort, topair, counts, master, todo, feedIn, onTheFly>>

\* No task to be had, and done is set.
Quit(s) ==
  /\ slave[s].at = "idle"
  /\ tosort = EmptyBag
  /\ master = "join"
  /\ SlaveMoves(s, "exit", NoTask)
  /\ UNCHANGED <<arr, tosort, topair, counts, master, todo, feedIn, onTheFly>>

MasterStep == FeedFirst \/ FeedMore \/ PushTask \/ Join \/ \E t \in DOMAIN topair : Pair(t)
SlaveStep(s) == (\E t \in DOMAIN tosort : PopTask(s, t)) \/ DoTask(s) \/ Report(s) \/ Quit(s)

\* sort() has returned.
Returned == master = "end" /\ UNCHANGED vars

Next == MasterStep \/ (\E s \in Slaves : SlaveStep(s)) \/ Returned

Spec == Init /\ [][Next]_vars

\* Master and slaves are threads pinned to cores of their own; each loops.
FairSpec == Spec /\ WF_vars(MasterStep) /\ \A s \in Slaves : WF_vars(SlaveStep(s))

-----------------------------------------------------------------------------
(* Properties.                                                             *)

\* Every variable holds a value of its type; in particular on_the_fly, which
\* is unsigned, never drops below zero.
TypeOK ==
  /\ DOMAIN arr = Indices
  /\ DOMAIN tosort \subseteq Task /\ DOMAIN topair \subseteq Task
  /\ slave \in [Slaves -> [at : {"idle", "busy", "report", "exit"}, task : Task]]
  /\ master \in {"feed", "loop", "push", "join", "end"}
  /\ \A i \in DOMAIN todo : todo[i] \in Task
  /\ feedIn \in 0 .. 2 ^ (LenExp - MiniExp)
  /\ onTheFly \in Nat
  /\ scnts \in [Blocks -> 0 .. LenExp]
  /\ dcnts \in [Blocks -> 0 .. LenExp] /\ bcnts \in [Blocks -> 0 .. LenExp]

Busy    == {s \in Slaves : slave[s].at = "busy"}
Waiting == tosort (+) SetToBag({todo[i] : i \in DOMAIN todo})

\* Any two tasks that may run at the same time work on different elements, and
\* no task is out twice: the shared array needs no lock.
DisjointTasks ==
  /\ \A t \in DOMAIN Waiting :
       /\ Waiting[t] = 1
       /\ \A u \in DOMAIN Waiting \ {t} : Touches(t) \cap Touches(u) = {}
       /\ \A s \in Busy : Touches(t) \cap Touches(slave[s].task) = {}
  /\ \A s \in Busy : \A u \in Busy \ {s} :
       Touches(slave[s].task) \cap Touches(slave[u].task) = {}

\* When the master leaves its loop the array is sorted, and no task is left
\* that could still be written by a slave while sort() returns.
SortedWhenDone ==
  master \in {"join", "end"} =>
    /\ \A i \in Indices : i > 0 => arr[i - 1] <= arr[i]
    /\ tosort = EmptyBag /\ topair = EmptyBag /\ todo = <<>>
    /\ Busy = {} /\ feedIn = 2 ^ (LenExp - MiniExp)

\* Sorting comes to an end and every slave is joined.
SortReturns == <>(master = "end")
=============================================================================
