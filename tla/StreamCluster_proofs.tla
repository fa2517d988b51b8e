------------------------ MODULE StreamCluster_proofs ------------------------
(* What the local search reports and keeps, for any stream, chunk size and    *)
(* number of shards, and whatever the tests on z and the gains decide.        *)
EXTENDS StreamCluster, WellFoundedInduction, FiniteSetTheorems, SequenceTheorems, TLAPS

-----------------------------------------------------------------------------
(* The token: in a port or in a kernel that works.  Where it is tells what    *)
(* the other kernels do.                                                     *)

Callees == {"init", "speedy", "gain"}
Callers == {"search", "loop", "flloop", "fl"}
Places == Ports \cup Callees \cup {"source", "sink"}

\* Where the token is while a kernel waits inside run().
InGain   == {"to_pgain", "gain", "from_pgain"}
InFL     == InGain \cup {"to_pFL", "from_pFL"}
InSpeedy == {"to_pspeedy", "speedy", "from_pspeedy"}
InSearch == InFL \cup InSpeedy \cup {"from_search", "init", "from_init", "from_speedyloop",
                                     "from_selectfeasible", "from_pkmedian"}
Inside(k) == IF k = "search" THEN InSearch ELSE IF k = "loop" THEN InSpeedy
             ELSE IF k = "flloop" THEN InFL ELSE InGain

LabelsOf(x) == IF x = "init" THEN {"sum"}
               ELSE IF x = "speedy" THEN {"to0", "walk", "updates", "sum"}
               ELSE IF x = "gain" THEN {"counts", "costs", "lowers", "commits", "failed"}
               ELSE {"idle"}
PcAt(x, l) == [k \in Kernels |->
                 IF k \in Callers THEN IF x \in Inside(k) THEN "wait" ELSE "idle"
                 ELSE IF k = "source" THEN IF x = k THEN "idle" ELSE "stopped"
                 ELSE IF k = "sink" THEN IF x = k THEN "stopped" ELSE "idle"
                 ELSE IF x = k THEN l ELSE "idle"]

Message(p) == IF p = "from_pspeedy" THEN [k : Int, cost : Int]
              ELSE IF p = "to_pgain" THEN [k : Int, idx : Rows]
              ELSE IF p = "from_pgain" THEN [k : Int, opened : BOOLEAN]
              ELSE Int
TokenAt(x, l) ==
  /\ x \in Places /\ l \in LabelsOf(x) /\ pc = PcAt(x, l)
  /\ \A p \in Ports \ {x} : ch.port[p] = <<>>
  /\ x \in Ports => ch.port[x] # <<>> /\ Tail(ch.port[x]) = <<>> /\ Head(ch.port[x]) \in Message(x)

-----------------------------------------------------------------------------
(* Types.                                                                  *)

Ranged == [arg : Int, k1 : Int, k2 : Int]
Point == [row : Rows, weight : Int, assign : Rows, cost : Int]

ChannelsOK ==
  /\ ch = [port |-> ch.port, task |-> ch.task, answer |-> ch.answer]
  /\ ch.port = [p \in Ports |-> ch.port[p]]
  /\ ch.task \in [Workers -> Seq(Ranged)] /\ ch.answer \in [Workers -> Seq(Int)]
DataOK ==
  /\ nshards \in Nat \ {0} /\ num \in 1 .. ChunkSize
  /\ stream \in Seq(Seq(Int)) /\ \A i \in 1 .. Len(stream) : Len(stream[i]) \in 1 .. ChunkSize
  /\ block \in [Rows -> Int] /\ points \in [Rows -> Point]
  /\ is_center \in [Rows -> BOOLEAN]
  /\ feasible \in Seq(Rows) /\ speedy \in [k : Int, i : Int] /\ gain \in [k : Int, idx : Rows]
TypeOK == ChannelsOK /\ DataOK

-----------------------------------------------------------------------------
(* The workers: they have tasks only while the kernel that sent them waits,   *)
(* and the tasks left are the last of those sent.                            *)

Caller(w) == IF w = "costTo0" THEN "init"
             ELSE IF w \in {"centerTo0", "centerUpdate", "costSumup"} THEN "speedy" ELSE "gain"
Label(w) == IF w = "costTo0" THEN "sum" ELSE IF w = "centerTo0" THEN "to0"
            ELSE IF w = "centerUpdate" THEN "updates" ELSE IF w = "costSumup" THEN "sum"
            ELSE IF w = "centerCount" THEN "counts" ELSE IF w = "switchCostCalc" THEN "costs"
            ELSE IF w = "lowerSumup" THEN "lowers" ELSE "commits"
TasksSent(w) == IF w = "centerUpdate" THEN Ranges(speedy.i)
                ELSE IF Caller(w) # "gain" THEN Ranges(0)
                ELSE IF w = "centerCount" THEN GainRanges(num, 0)
                ELSE IF w = "lowerSumup" THEN GainRanges(gain.k, 0)
                ELSE GainRanges(num, gain.idx)

Idle(w) == ch.task[w] = <<>> /\ ch.answer[w] = <<>>
Underway(w) ==
  /\ Len(ch.task[w]) + Len(ch.answer[w]) = nshards
  /\ \A s \in 1 .. Len(ch.task[w]) : ch.task[w][s] = TasksSent(w)[Len(ch.answer[w]) + s]
Outstanding(x, l) ==
  \A w \in Workers : IF x = Caller(w) /\ l = Label(w) THEN Underway(w) ELSE Idle(w)

-----------------------------------------------------------------------------
(* PSpeedy.                                                                *)

Left(w, i) == \E s \in 1 .. Len(ch.task[w]) : i \in In(ch.task[w][s])
AtCost(i) == points[i].cost = CostTo(i, points[i].assign)
Nearer(i, c) == points[i].cost <= CostTo(i, c)
Nearest == \A i, j \in Num : AtCost(i) /\ Nearer(i, points[j].assign)

AllAt0 == \A i \in Num : Left("centerTo0", i) \/ (points[i].assign = 0 /\ AtCost(i))
Updating == \A i, j \in Num : /\ AtCost(i)
                              /\ Left("centerUpdate", i) \/ Nearer(i, speedy.i)
                              /\ Nearer(i, points[j].assign) \/ points[j].assign = speedy.i
SumsSent == \A s \in 1 .. Len(ch.answer["costSumup"]) :
              ch.answer["costSumup"][s] = CostOf(Ranges(0)[s].k1, Ranges(0)[s].k2)
SpeedySoFar(x, l) ==
  /\ x = "speedy" => /\ speedy.i \in 1 .. num
                     /\ l = "to0" => AllAt0
                     /\ l \in {"walk", "sum"} => Nearest
                     /\ l = "updates" => speedy.i < num /\ Updating
                     /\ l = "sum" => SumsSent
  /\ x = "from_pspeedy" => Nearest /\ Head(ch.port["from_pspeedy"]).cost = TotalCost

-----------------------------------------------------------------------------
(* Facility location.                                                      *)

Trying(x) ==
  /\ x \in InFL \cup {"from_selectfeasible"} => Len(feasible) > 0
  /\ x \in InGain => fl.tried \in Seq(1 .. Len(feasible)) /\ Len(fl.tried) > 0

Covered == \A i \in Num : is_center[points[i].assign]
Placed(x, l) ==
  /\ x \in InFL \cup {"from_pkmedian", "to_contcenters", "to_copycenters"} =>
       Covered \/ (x = "gain" /\ l = "commits")
  /\ x = "gain" /\ l \in {"costs", "lowers", "commits"} => nshards = 1
  /\ x = "gain" /\ l = "commits" =>
       IF ch.task["commitSwitch"] # <<>> THEN Covered
       ELSE \A i \in Num : is_center[points[i].assign] \/ points[i].assign = gain.idx

Holds(x, l) == TokenAt(x, l) /\ Outstanding(x, l) /\ SpeedySoFar(x, l) /\ Trying(x) /\ Placed(x, l)
Clustering == TypeOK /\ \E x \in Places : \E l \in LabelsOf(x) : Holds(x, l)

-----------------------------------------------------------------------------
(* Sums.                                                                   *)

LEMMA SmallestOf ==
  ASSUME NEW T, T \subseteq Nat, T # {}
  PROVE  \E x \in T : \A y \in T : x <= y
<1> DEFINE R == {p \in Nat \X Nat : p[1] < p[2]}
<1>1. IsWellFoundedOn(R, Nat)
  BY NatLessThanWellFounded DEF OpToRel
<1>2. \A x, y \in Nat : <<y, x>> \notin R => x <= y
  OBVIOUS
<1>3. \E x \in T : \A y \in T : <<y, x>> \notin R
  <2> HIDE DEF R
  <2>1. QED
    BY <1>1, WFMin
<1>4. QED
  <2> HIDE DEF R
  <2>1. QED
    BY <1>2, <1>3

\* s holds the sums of the first numbers of f.
Summed(s, f, n) == s[0] = 0 /\ \A k \in 1 .. n : s[k] = s[k - 1] + f[k]
SumsOf(s, f, n) == s \in [0 .. n -> Int] /\ Summed(s, f, n)

LEMMA SumsExist ==
  ASSUME NEW n \in Nat, NEW f \in [1 .. n -> Int]
  PROVE  \E s : SumsOf(s, f, n)
<1> DEFINE Bad == {m \in 0 .. n : ~\E s : SumsOf(s, f, m)}
<1>1. SUFFICES Bad = {}
  <2>1. n \in 0 .. n
    OBVIOUS
  <2>2. QED
    BY <2>1
<1>2. SUFFICES ASSUME Bad # {} PROVE FALSE
  OBVIOUS
<1>3. Bad \subseteq Nat /\ Bad \subseteq 0 .. n
  OBVIOUS
<1>4. PICK m \in Bad : \A y \in Bad : m <= y
  <2> HIDE DEF Bad
  <2>1. QED
    BY <1>2, <1>3, SmallestOf
<1>5. m # 0
  <2>1. SumsOf([k \in 0 .. 0 |-> 0], f, 0)
    BY DEF SumsOf, Summed
  <2>2. ~\E s : SumsOf(s, f, m)
    BY <1>4
  <2>3. QED
    BY <2>1, <2>2
<1>6. m \in 1 .. n /\ m - 1 \in 0 .. n
  BY <1>3, <1>4, <1>5
<1>7. m - 1 \notin Bad
  <2> HIDE DEF Bad
  <2>1. QED
    BY <1>4, <1>6
<1>8. PICK s : SumsOf(s, f, m - 1)
  BY <1>6, <1>7
<1> DEFINE t == [k \in 0 .. m |-> IF k = m THEN s[m - 1] + f[m] ELSE s[k]]
<1>9. SumsOf(t, f, m)
  <2>1. f[m] \in Int /\ s[m - 1] \in Int
    BY <1>6, <1>8 DEF SumsOf
  <2>2. t \in [0 .. m -> Int]
    BY <1>6, <1>8, <2>1 DEF SumsOf
  <2>3. t[0] = 0
    BY <1>6, <1>8 DEF SumsOf, Summed
  <2>4. ASSUME NEW k \in 1 .. m PROVE t[k] = t[k - 1] + f[k]
    <3>1. k - 1 \in 0 .. m /\ k \in 0 .. m /\ k - 1 # m /\ (k # m => k \in 1 .. m - 1)
      BY <1>6
    <3>2. QED
      BY <1>6, <1>8, <3>1 DEF SumsOf, Summed
  <2>5. QED
    BY <2>2, <2>3, <2>4 DEF SumsOf, Summed
<1>10. m \in Bad /\ m \notin Bad
  BY <1>4, <1>9
<1>11. QED
  BY <1>10

\* Such sums are determined.
LEMMA SumsAgree ==
  ASSUME NEW n \in Nat, NEW f, NEW s, NEW t, Summed(s, f, n), Summed(t, f, n)
  PROVE  \A k \in 0 .. n : t[k] = s[k]
<1> DEFINE Bad == {k \in 0 .. n : t[k] # s[k]}
<1>1. SUFFICES ASSUME Bad # {} PROVE FALSE
  OBVIOUS
<1>2. Bad \subseteq Nat /\ Bad \subseteq 0 .. n
  OBVIOUS
<1>3. PICK m \in Bad : \A y \in Bad : m <= y
  <2> HIDE DEF Bad
  <2>1. QED
    BY <1>1, <1>2, SmallestOf
<1>4. m # 0
  BY DEF Summed
<1>5. m \in 1 .. n /\ m - 1 \in 0 .. n /\ m - 1 \notin Bad
  BY <1>2, <1>3, <1>4
<1>6. t[m] = s[m]
  BY <1>5 DEF Summed
<1>7. QED
  BY <1>3, <1>6

LEMMA SumsRight ==
  ASSUME NEW n \in Nat, NEW f \in [1 .. n -> Int]
  PROVE  SumsOf(Sums(f, n), f, n)
<1>1. PICK s : SumsOf(s, f, n)
  BY SumsExist
<1> DEFINE F(g) == [k \in 0 .. n |-> IF k = 0 THEN 0 ELSE g[k - 1] + f[k]]
<1>2. s = F(s)
  BY <1>1 DEF SumsOf, Summed
<1> DEFINE t == CHOOSE g : g = F(g)
<1>3. t = F(t)
  <2> HIDE DEF F
  <2>1. QED
    BY <1>2
<1>4. Sums(f, n) = t
  BY DEF Sums
<1> HIDE DEF t
<1>5. Summed(t, f, n) /\ Summed(s, f, n)
  BY <1>1, <1>3 DEF Summed, SumsOf
<1>6. \A k \in 0 .. n : t[k] = s[k]
  BY <1>5, SumsAgree
<1>7. t = [k \in 0 .. n |-> t[k]] /\ s = [k \in 0 .. n |-> s[k]]
  BY <1>1, <1>3 DEF SumsOf
<1>8. t = s
  BY <1>6, <1>7
<1>9. QED
  BY <1>1, <1>4, <1>8

-----------------------------------------------------------------------------
(* Ranges.                                                                 *)

\* Where the m-th range ends and the next begins.
Edge(m) == LET rest == num % nshards
           IN  m * (num \div nshards) + (IF m < rest THEN m ELSE rest)

LEMMA EdgesGrow ==
  ASSUME DataOK
  PROVE  /\ Edge(0) = 0 /\ Edge(nshards) = num
         /\ \A m \in 0 .. nshards : Edge(m) \in 0 .. num
         /\ \A m \in 0 .. nshards - 1 : Edge(m) <= Edge(m + 1)
<1>1. PICK n \in Nat : n = nshards /\ n > 0
  BY DEF DataOK
<1>2. PICK size \in Nat : size = num
  BY DEF DataOK
<1>3. PICK q \in Nat : q = num \div nshards
  BY <1>1, <1>2
<1>4. PICK r \in Nat : r = num % nshards /\ r < n
  BY <1>1, <1>2
<1>5. size = n * q + r
  BY <1>1, <1>2, <1>3, <1>4
<1>6. \A m : Edge(m) = m * q + (IF m < r THEN m ELSE r)
  BY <1>3, <1>4 DEF Edge
<1>7. Edge(0) = 0 /\ Edge(nshards) = num
  BY <1>1, <1>2, <1>4, <1>5, <1>6
<1>8. ASSUME NEW m \in 0 .. nshards PROVE Edge(m) \in 0 .. num
  <2>1. m \in Nat /\ m <= n
    BY <1>1
  <2>2. PICK k \in Nat : n = m + k
    <3>1. n - m \in Nat /\ n = m + (n - m)
      BY <2>1
    <3>2. QED
      BY <3>1
  <2>3. n * q = m * q + k * q /\ k * q >= 0 /\ m * q >= 0
    <3>1. (m + k) * q = m * q + k * q
      BY <2>1
    <3>2. QED
      BY <2>1, <2>2, <3>1
  <2>4. PICK a \in Nat, b \in Nat : a = m * q /\ b = k * q
    BY <2>1
  <2>5. size = a + b + r /\ Edge(m) = a + (IF m < r THEN m ELSE r)
    BY <1>5, <1>6, <2>3, <2>4
  <2>6. QED
    BY <1>2, <2>1, <2>5
<1>9. ASSUME NEW m \in 0 .. nshards - 1 PROVE Edge(m) <= Edge(m + 1)
  <2>1. m \in Nat
    BY <1>1
  <2>2. (m + 1) * q = m * q + q
    BY <2>1
  <2>3. PICK a \in Nat : a = m * q
    BY <2>1
  <2>4. Edge(m) = a + (IF m < r THEN m ELSE r) /\ Edge(m + 1) = a + q + (IF m + 1 < r THEN m + 1 ELSE r)
    BY <1>6, <2>2, <2>3
  <2>5. QED
    BY <2>1, <2>4
<1>10. QED
  BY <1>7, <1>8, <1>9

LEMMA RangesAre ==
  ASSUME DataOK, NEW arg
  PROVE  /\ Ranges(arg) = [s \in 1 .. nshards |-> Ranges(arg)[s]]
         /\ \A s \in 1 .. nshards : Ranges(arg)[s] = [arg |-> arg, k1 |-> Edge(s - 1), k2 |-> Edge(s)]
<1>1. PICK n \in Nat : n = nshards /\ n > 0
  BY DEF DataOK
<1>2. PICK q \in Nat, r \in Nat : q = num \div nshards /\ r = num % nshards
  <2>1. PICK size \in Nat : size = num
    BY DEF DataOK
  <2>2. size \div n \in Nat /\ size % n \in Nat
    BY <1>1
  <2>3. QED
    BY <1>1, <2>1, <2>2
<1>3. \A m : Edge(m) = m * q + (IF m < r THEN m ELSE r)
  BY <1>2 DEF Edge
<1>4. ASSUME NEW s \in 1 .. nshards
      PROVE  Ranges(arg)[s] = [arg |-> arg, k1 |-> Edge(s - 1), k2 |-> Edge(s)]
  <2>1. Ranges(arg)[s] = [arg |-> arg, k1 |-> (s - 1) * q + (IF s - 1 < r THEN s - 1 ELSE r),
           k2 |-> (s - 1) * q + (IF s - 1 < r THEN s - 1 ELSE r) + q + (IF s - 1 < r THEN 1 ELSE 0)]
    BY <1>2 DEF Ranges, Part
  <2>2. s \in Nat /\ s - 1 \in Nat /\ s * q = (s - 1) * q + q
    BY <1>1
  <2>3. PICK a \in Nat : a = (s - 1) * q
    BY <2>2
  <2>4. Edge(s) = a + q + (IF s < r THEN s ELSE r) /\ Edge(s - 1) = a + (IF s - 1 < r THEN s - 1 ELSE r)
    BY <1>3, <2>2, <2>3
  <2>5. Edge(s) = a + (IF s - 1 < r THEN s - 1 ELSE r) + q + (IF s - 1 < r THEN 1 ELSE 0)
    BY <2>2, <2>4
  <2>6. QED
    BY <2>1, <2>3, <2>4, <2>5
<1>5. QED
  BY <1>4 DEF Ranges

\* Every point is in the range of some shard.
LEMMA RangesCover ==
  ASSUME DataOK, NEW arg, NEW i \in Num
  PROVE  \E s \in 1 .. nshards : i \in In(Ranges(arg)[s])
<1> DEFINE T == {m \in 0 .. nshards : i < Edge(m)}
<1>1. nshards \in Nat /\ num \in Nat /\ i \in Int
  BY DEF DataOK, Num
<1>2. T \subseteq Nat /\ nshards \in T
  BY <1>1, EdgesGrow DEF Num
<1>3. PICK m \in T : \A y \in T : m <= y
  <2> HIDE DEF T
  <2>1. QED
    BY <1>2, SmallestOf
<1>4. m \in 1 .. nshards /\ i < Edge(m)
  <2>1. m # 0
    BY EdgesGrow DEF Num
  <2>2. QED
    BY <1>1, <2>1
<1>5. m - 1 \in 0 .. nshards /\ m - 1 \notin T
  <2>1. m \in Int
    BY <1>4, <1>1
  <2>2. m - 1 \notin T
    <3> HIDE DEF T
    <3>1. QED
      BY <1>3, <2>1
  <2>3. QED
    BY <1>1, <1>4, <2>2
<1>6. Edge(m) \in Int /\ Edge(m - 1) \in Int /\ Edge(m - 1) <= i
  <2>1. Edge(m) \in Int /\ Edge(m - 1) \in Int
    BY <1>1, <1>4, <1>5, EdgesGrow
  <2>2. QED
    BY <1>1, <1>5, <2>1
<1>7. Ranges(arg)[m] = [arg |-> arg, k1 |-> Edge(m - 1), k2 |-> Edge(m)]
  BY <1>4, RangesAre
<1>8. i \in In(Ranges(arg)[m])
  BY <1>1, <1>4, <1>6, <1>7 DEF In
<1>9. QED
  BY <1>4, <1>8

-----------------------------------------------------------------------------
(* Costs.                                                                  *)

Costs == [k \in 1 .. num |-> points[k - 1].cost]

\* The cost of a range is the difference of two sums from the first point on.
LEMMA CostOfRange ==
  ASSUME DataOK, NEW a \in 0 .. num, NEW b \in 0 .. num, a <= b
  PROVE  LET upto == Sums(Costs, num)
         IN  upto[0] = 0 /\ upto[a] \in Int /\ upto[b] \in Int /\ CostOf(a, b) = upto[b] - upto[a]
<1> DEFINE upto == Sums(Costs, num)
<1>1. PICK n \in Nat : n = num /\ n <= ChunkSize
  BY StreamClusterAssumption DEF DataOK
<1>2. ASSUME NEW k \in 1 .. n PROVE points[k - 1].cost \in Int
  <2>1. k - 1 \in Rows
    BY <1>1, StreamClusterAssumption DEF Rows
  <2>2. points[k - 1] \in Point
    BY <2>1 DEF DataOK
  <2>3. QED
    BY <2>2 DEF Point
<1>3. Costs \in [1 .. n -> Int] /\ \A k \in 1 .. n : Costs[k] = points[k - 1].cost
  BY <1>1, <1>2 DEF Costs
<1>4. SumsOf(upto, Costs, n)
  BY <1>1, <1>3, SumsRight
<1> HIDE DEF upto
<1>5. PICK d \in Nat : b = a + d
  <2>1. b - a \in Nat /\ b = a + (b - a)
    BY <1>1
  <2>2. QED
    BY <2>1
<1>6. b - a = d /\ a \in Int
  BY <1>1, <1>5
<1> DEFINE f == [k \in 1 .. d |-> points[a + k - 1].cost]
<1>7. \A k \in 1 .. d : a + k \in 1 .. n /\ a + (k - 1) = a + k - 1 /\ a + k - 1 \in 0 .. n
  BY <1>1, <1>5, <1>6
<1>8. f \in [1 .. d -> Int] /\ \A k \in 1 .. d : f[k] = Costs[a + k]
  <2>1. ASSUME NEW k \in 1 .. d PROVE f[k] = Costs[a + k] /\ f[k] \in Int
    <3>1. f[k] = points[a + k - 1].cost
      OBVIOUS
    <3>2. PICK c \in 1 .. n : c = a + k
      BY <1>7
    <3>3. c - 1 = a + k - 1
      BY <3>2
    <3> HIDE DEF f
    <3>4. Costs[c] = f[k]
      BY <1>3, <3>1, <3>3
    <3>5. f[k] \in Int
      BY <1>2, <3>1, <3>3
    <3>6. QED
      BY <3>2, <3>4, <3>5
  <2>2. f = [k \in 1 .. d |-> f[k]]
    OBVIOUS
  <2> HIDE DEF f
  <2>3. QED
    BY <2>1, <2>2
<1>9. CostOf(a, b) = Sums(f, d)[d]
  BY <1>6 DEF CostOf
<1> HIDE DEF f
<1>10. SumsOf(Sums(f, d), f, d)
  BY <1>8, SumsRight
<1> DEFINE t == [k \in 0 .. d |-> upto[a + k] - upto[a]]
<1>11. Summed(t, f, d)
  <2>1. t[0] = 0
    BY <1>1, <1>4, <1>6 DEF SumsOf
  <2>2. ASSUME NEW k \in 1 .. d PROVE t[k] = t[k - 1] + f[k]
    <3>1. t[k] = upto[a + k] - upto[a] /\ t[k - 1] = upto[a + k - 1] - upto[a]
      BY <1>7
    <3>2. upto[a + k] = upto[a + k - 1] + Costs[a + k]
      <4>1. \A c \in 1 .. n : upto[c] = upto[c - 1] + Costs[c]
        BY <1>4 DEF SumsOf, Summed
      <4> HIDE DEF t
      <4>2. QED
        BY <1>7, <4>1
    <3>3. upto[a + k] \in Int /\ upto[a + k - 1] \in Int /\ upto[a] \in Int
      BY <1>1, <1>4, <1>7 DEF SumsOf
    <3>4. f[k] \in Int /\ f[k] = Costs[a + k]
      BY <1>8
    <3> HIDE DEF t
    <3>5. PICK x \in Int, y \in Int, z \in Int : x = upto[a + k] /\ y = upto[a + k - 1] /\ z = upto[a]
      BY <3>3
    <3>6. t[k] = x - z /\ t[k - 1] = y - z /\ x = y + f[k]
      BY <3>1, <3>2, <3>4, <3>5
    <3>7. QED
      BY <3>4, <3>6
  <2> HIDE DEF t
  <2>3. QED
    BY <2>1, <2>2 DEF Summed
<1>12. d \in 0 .. d
  BY <1>5
<1>13. t[d] = upto[b] - upto[a]
  BY <1>5, <1>12
<1> HIDE DEF t
<1>14. \A k \in 0 .. d : t[k] = Sums(f, d)[k]
  <2>1. Summed(Sums(f, d), f, d)
    BY <1>10 DEF SumsOf
  <2>2. QED
    BY <1>11, <2>1, SumsAgree
<1>15. upto[0] = 0 /\ upto[a] \in Int /\ upto[b] \in Int
  BY <1>1, <1>4 DEF SumsOf, Summed
<1>16. CostOf(a, b) = upto[b] - upto[a]
  BY <1>9, <1>12, <1>13, <1>14
<1>17. QED
  BY <1>15, <1>16 DEF upto

\* The shards' sums add up to the sum of all costs.
LEMMA TotalIsCost ==
  ASSUME DataOK, NEW answers \in Seq(Int), Len(answers) = nshards,
         \A s \in 1 .. nshards : answers[s] = CostOf(Ranges(0)[s].k1, Ranges(0)[s].k2)
  PROVE  Total(answers) = TotalCost
<1> DEFINE upto == Sums(Costs, num)
<1>1. PICK n \in Nat : n = nshards /\ n > 0
  BY DEF DataOK
<1>2. \A m \in 0 .. n : Edge(m) \in 0 .. num
  BY <1>1, EdgesGrow
<1>3. ASSUME NEW s \in 1 .. n
      PROVE  answers[s] \in Int /\ upto[Edge(s)] = upto[Edge(s - 1)] + answers[s]
  <2>1. s \in 0 .. n /\ s - 1 \in 0 .. nshards - 1 /\ s - 1 \in 0 .. n /\ s - 1 + 1 = s
    BY <1>1
  <2>2. Edge(s - 1) <= Edge(s) /\ Edge(s) \in 0 .. num /\ Edge(s - 1) \in 0 .. num
    BY <1>2, <2>1, EdgesGrow
  <2>3. Ranges(0)[s] = [arg |-> 0, k1 |-> Edge(s - 1), k2 |-> Edge(s)]
    BY <1>1, RangesAre
  <2>4. answers[s] = CostOf(Edge(s - 1), Edge(s))
    BY <1>1, <2>3
  <2>5. /\ upto[Edge(s - 1)] \in Int /\ upto[Edge(s)] \in Int
        /\ CostOf(Edge(s - 1), Edge(s)) = upto[Edge(s)] - upto[Edge(s - 1)]
    BY <2>2, CostOfRange
  <2> HIDE DEF upto
  <2>6. QED
    BY <2>4, <2>5
<1>4. answers \in [1 .. n -> Int]
  BY <1>1
<1>5. SumsOf(Sums(answers, n), answers, n)
  BY <1>4, SumsRight
<1>6. num \in 0 .. num /\ 0 \in 0 .. num /\ 0 <= num /\ Edge(0) = 0 /\ Edge(n) = num
  BY <1>1, EdgesGrow DEF DataOK
<1>7. upto[0] = 0 /\ upto[num] \in Int /\ TotalCost = upto[num] - upto[0]
  BY <1>6, CostOfRange DEF TotalCost
<1> HIDE DEF upto
<1> DEFINE t == [m \in 0 .. n |-> upto[Edge(m)]]
<1>8. Summed(t, answers, n)
  <2>1. t[0] = 0
    BY <1>6, <1>7
  <2>2. ASSUME NEW m \in 1 .. n PROVE t[m] = t[m - 1] + answers[m]
    BY <1>3
  <2> HIDE DEF t
  <2>3. QED
    BY <2>1, <2>2 DEF Summed
<1>9. t[n] = upto[num]
  BY <1>6
<1> HIDE DEF t
<1>10. t[n] = Sums(answers, n)[n]
  <2>1. Summed(Sums(answers, n), answers, n)
    BY <1>5 DEF SumsOf
  <2>2. \A k \in 0 .. n : t[k] = Sums(answers, n)[k]
    BY <1>8, <2>1, SumsAgree
  <2>3. QED
    BY <2>2
<1>11. QED
  BY <1>1, <1>7, <1>9, <1>10 DEF Total

LEMMA CostToInt ==
  ASSUME DataOK, NEW i \in Rows, NEW c \in Rows
  PROVE  CostTo(i, c) \in Int /\ points[i].cost \in Int /\ points[i].assign \in Rows
<1>1. /\ points[i].row \in Rows /\ points[c].row \in Rows /\ points[i].weight \in Int
      /\ points[i].cost \in Int /\ points[i].assign \in Rows
  BY DEF DataOK, Point
<1>2. At(i) \in Int /\ At(c) \in Int
  BY <1>1 DEF DataOK, At
<1>3. QED
  BY <1>1, <1>2 DEF CostTo, Square

LEMMA NumInRows == DataOK => Num \subseteq Rows /\ 0 \in Num /\ 0 \in Rows /\ Rows \subseteq Int /\ num \in Nat
BY StreamClusterAssumption DEF DataOK, Num, Rows

-----------------------------------------------------------------------------
(* Where the token is.                                                     *)

LEMMA PortLabels ==
  ASSUME NEW p \in Ports
  PROVE  LabelsOf(p) = {"idle"} /\ p \in Places /\ p \notin Callees \cup {"source", "sink"}
BY DEF LabelsOf, Ports, Places, Callees

LEMMA TokenInPort ==
  ASSUME Clustering, NEW p \in Ports, Has(p)
  PROVE  Holds(p, "idle")
<1>1. PICK x, l : Holds(x, l)
  BY DEF Clustering
<1>2. x = p
  BY <1>1 DEF Holds, TokenAt, Has
<1>3. l = "idle"
  BY <1>1, <1>2, PortLabels DEF Holds, TokenAt
<1>4. QED
  BY <1>1, <1>2, <1>3

LEMMA TokenInKernel ==
  ASSUME Clustering, NEW k \in Callees, pc[k] # "idle"
  PROVE  Holds(k, pc[k])
<1>1. PICK x, l : Holds(x, l)
  BY DEF Clustering
<1>2. pc[k] = IF x = k THEN l ELSE "idle"
  BY <1>1 DEF Holds, TokenAt, PcAt, Callees, Callers, Kernels
<1>3. QED
  BY <1>1, <1>2

LEMMA TokenAtSource ==
  ASSUME Clustering, pc["source"] = "idle"
  PROVE  Holds("source", "idle")
<1>1. PICK x, l : Holds(x, l)
  BY DEF Clustering
<1>2. x = "source"
  BY <1>1 DEF Holds, TokenAt, PcAt, Callers, Kernels
<1>3. l = "idle"
  BY <1>1, <1>2 DEF Holds, TokenAt, LabelsOf
<1>4. QED
  BY <1>1, <1>2, <1>3

\* A worker has a task only while its caller waits for it.
LEMMA CallerWaits ==
  ASSUME Clustering, NEW w \in Workers, ch.task[w] # <<>>
  PROVE  Holds(Caller(w), Label(w))
<1>1. PICK x, l : Holds(x, l)
  BY DEF Clustering
<1>2. x = Caller(w) /\ l = Label(w)
  BY <1>1 DEF Holds, Outstanding, Idle
<1>3. QED
  BY <1>1, <1>2

-----------------------------------------------------------------------------
(* The token moves.                                                        *)

\* From port to port.
LEMMA MovedToken ==
  ASSUME ChannelsOK, NEW p \in Ports, NEW q \in Ports, p # q, NEW m \in Message(q),
         TokenAt(p, "idle"), ch' = Moved(p, q, m), pc' = PcAt(q, "idle")
  PROVE  /\ TokenAt(q, "idle")' /\ ChannelsOK' /\ Head(ch'.port[q]) = m
         /\ ch'.task = ch.task /\ ch'.answer = ch.answer
<1>1. /\ ch = [port |-> ch.port, task |-> ch.task, answer |-> ch.answer]
      /\ ch.port = [r \in Ports |-> ch.port[r]]
  BY DEF ChannelsOK
<1>2. ch.port[q] = <<>> /\ Tail(ch.port[p]) = <<>>
  BY DEF TokenAt
<1>3. /\ ch' = [port |-> [ch.port EXCEPT ![p] = Tail(@), ![q] = Append(@, m)],
                task |-> ch.task, answer |-> ch.answer]
  BY <1>1 DEF Moved, Put, Take
<1>4. /\ ch'.port = [r \in Ports |-> ch'.port[r]]
      /\ ch'.port[q] = Append(<<>>, m) /\ ch'.port[p] = <<>>
      /\ \A r \in Ports \ {p, q} : ch'.port[r] = ch.port[r]
  <2>1. PICK f : f = ch.port
    OBVIOUS
  <2> DEFINE g == [f EXCEPT ![p] = Tail(f[p])]
  <2>2. f = [r \in Ports |-> f[r]] /\ f[q] = <<>> /\ Tail(f[p]) = <<>>
    BY <1>1, <1>2, <2>1
  <2>3. g = [r \in Ports |-> IF r = p THEN <<>> ELSE f[r]]
    BY <2>2
  <2>4. ch'.port = [g EXCEPT ![q] = Append(g[q], m)]
    <3>1. ch'.port = [ch.port EXCEPT ![p] = Tail(@), ![q] = Append(@, m)]
      BY <1>3
    <3>2. ch'.port = [f EXCEPT ![p] = Tail(f[p]), ![q] = Append(@, m)]
      BY <2>1, <3>1
    <3>3. QED
      BY <3>2
  <2> HIDE DEF g
  <2>5. ch'.port = [r \in Ports |-> IF r = q THEN Append(g[q], m) ELSE g[r]]
    BY <2>3, <2>4
  <2>6. g[q] = <<>> /\ g[p] = <<>> /\ \A r \in Ports \ {p, q} : g[r] = f[r]
    BY <2>2, <2>3
  <2>7. QED
    BY <2>1, <2>5, <2>6
<1>5. Append(<<>>, m) # <<>> /\ Tail(Append(<<>>, m)) = <<>> /\ Head(Append(<<>>, m)) = m
  OBVIOUS
<1>6. \A r \in Ports \ {q} : ch'.port[r] = <<>>
  BY <1>4 DEF TokenAt
<1>7. q \in Places /\ "idle" \in LabelsOf(q)
  BY PortLabels
<1>8. TokenAt(q, "idle")'
  BY <1>4, <1>5, <1>6, <1>7 DEF TokenAt
<1>9. ChannelsOK'
  BY <1>3, <1>4 DEF ChannelsOK
<1>10. QED
  BY <1>3, <1>4, <1>5, <1>8, <1>9

-----------------------------------------------------------------------------
(* What the operations on the channels give.                               *)

Channels(port, task, answer) == [port |-> port, task |-> task, answer |-> answer]
Only(p, m) == [r \in Ports |-> IF r = p THEN <<m>> ELSE <<>>]
NoMessage == [r \in Ports |-> <<>>]
With(f, w, x) == [v \in Workers |-> IF v = w THEN x ELSE f[v]]

LEMMA ChannelsAre ==
  ASSUME ChannelsOK
  PROVE  /\ ch = Channels(ch.port, ch.task, ch.answer)
         /\ ch.port = [r \in Ports |-> ch.port[r]]
         /\ ch.task \in [Workers -> Seq(Ranged)] /\ ch.answer \in [Workers -> Seq(Int)]
BY DEF ChannelsOK, Channels

LEMMA TakeIs ==
  ASSUME ChannelsOK, NEW p \in Ports, TokenAt(p, "idle")
  PROVE  Take(ch, p) = Channels(NoMessage, ch.task, ch.answer)
<1>1. PICK a, b, c : a = ch.port /\ b = ch.task /\ c = ch.answer
  OBVIOUS
<1>2. a = [r \in Ports |-> a[r]] /\ Tail(a[p]) = <<>> /\ \A r \in Ports \ {p} : a[r] = <<>>
  BY <1>1, ChannelsAre DEF TokenAt
<1>3. [a EXCEPT ![p] = Tail(a[p])] = NoMessage
  BY <1>2 DEF NoMessage
<1>4. ch = Channels(a, b, c)
  BY <1>1, ChannelsAre
<1>5. Channels(a, b, c).port = a
  BY DEF Channels
<1>6. [Channels(a, b, c) EXCEPT !.port = [a EXCEPT ![p] = Tail(a[p])]] = Channels([a EXCEPT ![p] = Tail(a[p])], b, c)
  <2>1. \A x : [Channels(a, b, c) EXCEPT !.port = x] = Channels(x, b, c)
    BY DEF Channels
  <2>2. QED
    BY <2>1
<1>7. Take(ch, p) = [Channels(a, b, c) EXCEPT !.port = [a EXCEPT ![p] = Tail(a[p])]]
  BY <1>4, <1>5 DEF Take
<1>8. QED
  BY <1>1, <1>3, <1>6, <1>7

LEMMA NoPortHeld ==
  ASSUME ChannelsOK, NEW k, NEW l, TokenAt(k, l), k \notin Ports
  PROVE  ch.port = NoMessage
<1>1. \A r \in Ports : ch.port[r] = <<>>
  BY DEF TokenAt
<1>2. QED
  BY <1>1, ChannelsAre DEF NoMessage

LEMMA PutIs ==
  ASSUME NEW task, NEW answer, NEW q \in Ports, NEW m
  PROVE  Put(Channels(NoMessage, task, answer), q, m) = Channels(Only(q, m), task, answer)
<1>1. [NoMessage EXCEPT ![q] = Append(@, m)] = Only(q, m)
  BY DEF NoMessage, Only
<1>2. QED
  BY <1>1 DEF Put, Channels

LEMMA CollectedIs ==
  ASSUME ChannelsOK, NEW w \in Workers
  PROVE  /\ Collected(w) = Channels(ch.port, ch.task, With(ch.answer, w, <<>>))
         /\ With(ch.answer, w, <<>>) \in [Workers -> Seq(Int)]
<1>1. [ch.answer EXCEPT ![w] = <<>>] = With(ch.answer, w, <<>>)
  BY ChannelsAre DEF With
<1>2. Collected(w) = Channels(ch.port, ch.task, [ch.answer EXCEPT ![w] = <<>>])
  <2>1. PICK a, b, c : a = ch.port /\ b = ch.task /\ c = ch.answer
    OBVIOUS
  <2>2. ch = Channels(a, b, c)
    BY <2>1, ChannelsAre
  <2>3. \A x : [Channels(a, b, c) EXCEPT !.answer = x] = Channels(a, b, x)
    BY DEF Channels
  <2>4. [Channels(a, b, c) EXCEPT !.answer = [c EXCEPT ![w] = <<>>]] = Channels(a, b, [c EXCEPT ![w] = <<>>])
    BY <2>3
  <2>5. Channels(a, b, c).answer = c
    BY DEF Channels
  <2>6. Collected(w) = [Channels(a, b, c) EXCEPT !.answer = [c EXCEPT ![w] = <<>>]]
    BY <2>2, <2>5 DEF Collected
  <2>7. QED
    BY <2>1, <2>4, <2>6
<1>3. With(ch.answer, w, <<>>) \in [Workers -> Seq(Int)]
  BY ChannelsAre DEF With
<1>4. QED
  BY <1>1, <1>2, <1>3

LEMMA SentIs ==
  ASSUME NEW port, NEW task \in [Workers -> Seq(Ranged)], NEW answer, NEW w \in Workers,
         task[w] = <<>>, NEW tasks \in Seq(Ranged)
  PROVE  /\ Sent(Channels(port, task, answer), w, tasks) = Channels(port, With(task, w, tasks), answer)
         /\ With(task, w, tasks) \in [Workers -> Seq(Ranged)]
<1>1. <<>> \o tasks = tasks
  OBVIOUS
<1>2. [task EXCEPT ![w] = @ \o tasks] = With(task, w, tasks)
  BY <1>1 DEF With
<1>3. Sent(Channels(port, task, answer), w, tasks) = Channels(port, [task EXCEPT ![w] = @ \o tasks], answer)
  <2>1. \A x : [Channels(port, task, answer) EXCEPT !.task = x] = Channels(port, x, answer)
    BY DEF Channels
  <2>2. [Channels(port, task, answer) EXCEPT !.task = [task EXCEPT ![w] = task[w] \o tasks]] = Channels(port, [task EXCEPT ![w] = task[w] \o tasks], answer)
    BY <2>1
  <2>3. Channels(port, task, answer).task = task
    BY DEF Channels
  <2>4. Sent(Channels(port, task, answer), w, tasks) = [Channels(port, task, answer) EXCEPT !.task = [task EXCEPT ![w] = task[w] \o tasks]]
    BY <2>3 DEF Sent
  <2>5. QED
    BY <2>2, <2>4
<1>4. With(task, w, tasks) \in [Workers -> Seq(Ranged)]
  BY DEF With
<1>5. QED
  BY <1>2, <1>3, <1>4

\* The channels after a step, and where the token is.
LEMMA TokenPut ==
  ASSUME NEW q \in Ports, NEW m \in Message(q), NEW task \in [Workers -> Seq(Ranged)],
         NEW answer \in [Workers -> Seq(Int)],
         ch' = Channels(Only(q, m), task, answer), pc' = PcAt(q, "idle")
  PROVE  /\ TokenAt(q, "idle")' /\ ChannelsOK' /\ Head(ch'.port[q]) = m
         /\ ch'.task = task /\ ch'.answer = answer
<1>1. ch'.port = Only(q, m) /\ ch'.task = task /\ ch'.answer = answer
  BY DEF Channels
<1>2. ch'.port[q] = <<m>> /\ \A r \in Ports \ {q} : ch'.port[r] = <<>>
  BY <1>1 DEF Only
<1>3. <<m>> # <<>> /\ Tail(<<m>>) = <<>> /\ Head(<<m>>) = m
  OBVIOUS
<1>4. TokenAt(q, "idle")'
  BY <1>2, <1>3, PortLabels DEF TokenAt
<1>5. ChannelsOK'
  BY <1>1 DEF ChannelsOK, Channels, Only
<1>6. QED
  BY <1>1, <1>2, <1>3, <1>4, <1>5

LEMMA TokenWorks ==
  ASSUME NEW k \in Places \ Ports, NEW l \in LabelsOf(k), NEW task \in [Workers -> Seq(Ranged)],
         NEW answer \in [Workers -> Seq(Int)],
         ch' = Channels(NoMessage, task, answer), pc' = PcAt(k, l)
  PROVE  /\ TokenAt(k, l)' /\ ChannelsOK' /\ ch'.task = task /\ ch'.answer = answer
<1>1. ch'.port = NoMessage /\ ch'.task = task /\ ch'.answer = answer
  BY DEF Channels
<1>2. TokenAt(k, l)'
  BY <1>1 DEF TokenAt, NoMessage
<1>3. ChannelsOK'
  BY <1>1 DEF ChannelsOK, Channels, NoMessage
<1>4. QED
  BY <1>1, <1>2, <1>3

-----------------------------------------------------------------------------
(* Calls: the tasks are sent, answered and collected.                      *)

LEMMA CallersDiffer ==
  ASSUME NEW v \in Workers, NEW w \in Workers, Caller(v) = Caller(w), Label(v) = Label(w)
  PROVE  v = w
BY DEF Caller, Label, Workers

LEMMA CallerTyped ==
  ASSUME NEW w \in Workers
  PROVE  /\ Caller(w) \in Callees /\ Caller(w) \notin Ports /\ Caller(w) \in Places
         /\ Label(w) \in LabelsOf(Caller(w)) \ {"walk", "failed", "idle"}
BY DEF Caller, Label, Workers, Callees, LabelsOf, Ports, Places

AllIdle == \A w \in Workers : Idle(w)

LEMMA NobodyCalled ==
  ASSUME NEW x \in Places, NEW l, Outstanding(x, l), x \notin Callees \/ l \in {"walk", "failed"}
  PROVE  AllIdle
BY CallerTyped DEF Outstanding, AllIdle

LEMMA IdleOutstanding ==
  ASSUME NEW x \in Places, NEW l, AllIdle', x \notin Callees \/ l \in {"walk", "failed"}
  PROVE  Outstanding(x, l)'
BY CallerTyped DEF Outstanding, AllIdle

LEMMA CallOutstanding ==
  ASSUME NEW w \in Workers, nshards' \in Nat, ch'.task[w] = TasksSent(w)',
         Len(ch'.task[w]) = nshards', ch'.answer[w] = <<>>, \A v \in Workers \ {w} : Idle(v)'
  PROVE  Outstanding(Caller(w), Label(w))'
<1>1. Len(ch'.answer[w]) = 0
  OBVIOUS
<1>2. \A s \in 1 .. Len(ch'.task[w]) : ch'.task[w][s] = TasksSent(w)'[Len(ch'.answer[w]) + s]
  BY <1>1
<1>3. Len(ch'.task[w]) + Len(ch'.answer[w]) = nshards'
  <2>1. PICK n \in Nat : n = nshards'
    OBVIOUS
  <2>2. Len(ch'.task[w]) = n
    BY <2>1
  <2>3. n + 0 = n
    OBVIOUS
  <2>4. QED
    BY ONLY <1>1, <2>1, <2>2, <2>3
<1>4. Underway(w)'
  BY <1>2, <1>3 DEF Underway
<1>5. QED
  BY <1>4, CallersDiffer DEF Outstanding

\* All have answered: there is no task left, and no other worker has anything.
LEMMA AllHaveAnswered ==
  ASSUME ChannelsOK, NEW w \in Workers, Outstanding(Caller(w), Label(w)), AllBack(w), nshards \in Nat
  PROVE  /\ \A v \in Workers : ch.task[v] = <<>>
         /\ \A v \in Workers \ {w} : ch.answer[v] = <<>>
<1>1. \A v \in Workers \ {w} : Idle(v)
  BY CallersDiffer DEF Outstanding
<1>2. Underway(w)
  BY DEF Outstanding
<1>3. ch.task[w] \in Seq(Ranged) /\ Len(ch.task[w]) \in Nat /\ Len(ch.answer[w]) \in Nat
  BY DEF ChannelsOK
<1>4. ch.task[w] = <<>>
  <2>1. Len(ch.task[w]) = 0
    BY <1>2, <1>3 DEF Underway, AllBack
  <2>2. QED
    BY <1>3, <2>1
<1>5. QED
  BY <1>1, <1>4 DEF Idle

LEMMA TasksTyped ==
  ASSUME DataOK, NEW arg \in Int, NEW total \in Int
  PROVE  /\ Ranges(arg) \in Seq(Ranged) /\ Len(Ranges(arg)) = nshards
         /\ GainRanges(total, arg) \in Seq(Ranged) /\ Len(GainRanges(total, arg)) = nshards
<1>1. PICK n \in Nat : n = nshards /\ n > 0
  BY DEF DataOK
<1>2. \A t \in Int : t \div nshards \in Int /\ t % nshards \in Int
  BY <1>1
<1>3. num \in Int
  BY DEF DataOK
<1>4. ASSUME NEW size \in Int, NEW factor \in Int, NEW shard \in 0 .. nshards - 1
      PROVE  Part(arg, shard, size, factor) \in Ranged
  <2>1. shard \in Int /\ shard * factor \in Int
    BY <1>1
  <2>2. PICK a \in Int, r \in Int, q \in Int :
          a = shard * factor /\ r = size % nshards /\ q = size \div nshards
    BY <1>2, <2>1
  <2>3. Part(arg, shard, size, factor) =
           [arg |-> arg, k1 |-> a + (IF shard < r THEN shard ELSE r),
            k2 |-> a + (IF shard < r THEN shard ELSE r) + q + (IF shard < r THEN 1 ELSE 0)]
    BY <2>2 DEF Part
  <2>4. QED
    BY <2>1, <2>3 DEF Ranged
<1>5. \A s \in 1 .. nshards : s - 1 \in 0 .. nshards - 1
  BY <1>1
<1>6. Ranges(arg) \in [1 .. n -> Ranged]
  BY <1>1, <1>2, <1>3, <1>4, <1>5 DEF Ranges
<1>7. GainRanges(total, arg) \in [1 .. n -> Ranged]
  BY <1>1, <1>2, <1>4, <1>5 DEF GainRanges
<1>8. QED
  BY <1>1, <1>6, <1>7

\* A kernel that finds the token in its port calls its workers.
LEMMA CallsFromPort ==
  ASSUME ChannelsOK, DataOK, NEW p \in Ports, NEW w \in Workers, NEW tasks \in Seq(Ranged),
         Len(tasks) = nshards, TokenAt(p, "idle"), Outstanding(p, "idle"), UNCHANGED nshards,
         ch' = Sent(Take(ch, p), w, tasks), pc' = PcAt(Caller(w), Label(w)), TasksSent(w)' = tasks
  PROVE  /\ TokenAt(Caller(w), Label(w))' /\ ChannelsOK' /\ Outstanding(Caller(w), Label(w))'
         /\ ch'.task[w] = tasks /\ ch'.answer[w] = <<>>
<1>1. AllIdle
  BY NobodyCalled, PortLabels
<1> DEFINE task == With(ch.task, w, tasks)
<1>2. ch.task \in [Workers -> Seq(Ranged)] /\ ch.answer \in [Workers -> Seq(Int)] /\ ch.task[w] = <<>>
  BY <1>1, ChannelsAre DEF AllIdle, Idle
<1>3. Take(ch, p) = Channels(NoMessage, ch.task, ch.answer)
  BY TakeIs
<1>4. ch' = Channels(NoMessage, task, ch.answer) /\ task \in [Workers -> Seq(Ranged)]
  BY <1>2, <1>3, SentIs
<1>5. task[w] = tasks /\ \A v \in Workers \ {w} : task[v] = ch.task[v]
  BY DEF With
<1> HIDE DEF task
<1>6. TokenAt(Caller(w), Label(w))' /\ ChannelsOK' /\ ch'.task = task /\ ch'.answer = ch.answer
  BY <1>2, <1>4, TokenWorks, CallerTyped
<1>7. ch'.answer[w] = <<>> /\ \A v \in Workers \ {w} : Idle(v)'
  BY <1>1, <1>5, <1>6 DEF AllIdle, Idle
<1>8. Outstanding(Caller(w), Label(w))'
  BY <1>5, <1>6, <1>7, CallOutstanding DEF DataOK
<1>9. QED
  BY <1>5, <1>6, <1>7, <1>8

\* A kernel that has nobody at work calls its workers.
LEMMA CallsFromKernel ==
  ASSUME ChannelsOK, DataOK, NEW l \in {"walk", "failed"}, NEW w \in Workers, NEW tasks \in Seq(Ranged),
         Len(tasks) = nshards, TokenAt(Caller(w), l), Outstanding(Caller(w), l), UNCHANGED nshards,
         ch' = Sent(ch, w, tasks), pc' = PcAt(Caller(w), Label(w)), TasksSent(w)' = tasks
  PROVE  /\ TokenAt(Caller(w), Label(w))' /\ ChannelsOK' /\ Outstanding(Caller(w), Label(w))'
         /\ ch'.task[w] = tasks /\ ch'.answer[w] = <<>>
<1>1. AllIdle
  BY NobodyCalled, CallerTyped
<1> DEFINE task == With(ch.task, w, tasks)
<1>2. ch.task \in [Workers -> Seq(Ranged)] /\ ch.answer \in [Workers -> Seq(Int)] /\ ch.task[w] = <<>>
  BY <1>1, ChannelsAre DEF AllIdle, Idle
<1>3. ch = Channels(NoMessage, ch.task, ch.answer)
  BY NoPortHeld, ChannelsAre, CallerTyped
<1>4. ch' = Channels(NoMessage, task, ch.answer) /\ task \in [Workers -> Seq(Ranged)]
  <2> DEFINE answer == ch.answer
  <2>1. PICK a \in [Workers -> Seq(Ranged)] : a = ch.task
    BY <1>2
  <2>2. a[w] = <<>>
    BY <1>2, <2>1
  <2>3. ch = Channels(NoMessage, a, answer)
    BY <1>3, <2>1
  <2> HIDE DEF answer
  <2>4. PICK c : c = Channels(NoMessage, a, answer)
    OBVIOUS
  <2>5. /\ Sent(c, w, tasks) = Channels(NoMessage, With(a, w, tasks), answer)
        /\ With(a, w, tasks) \in [Workers -> Seq(Ranged)]
    BY ONLY <2>2, <2>4, SentIs, w \in Workers, tasks \in Seq(Ranged)
  <2>6. ch' = Channels(NoMessage, With(a, w, tasks), answer)
    BY <2>3, <2>4, <2>5
  <2>7. QED
    BY <2>1, <2>5, <2>6 DEF answer
<1>5. task[w] = tasks /\ \A v \in Workers \ {w} : task[v] = ch.task[v]
  BY DEF With
<1> HIDE DEF task
<1>6. TokenAt(Caller(w), Label(w))' /\ ChannelsOK' /\ ch'.task = task /\ ch'.answer = ch.answer
  BY <1>2, <1>4, TokenWorks, CallerTyped
<1>7. ch'.answer[w] = <<>> /\ \A v \in Workers \ {w} : Idle(v)'
  BY <1>1, <1>5, <1>6 DEF AllIdle, Idle
<1>8. Outstanding(Caller(w), Label(w))'
  BY <1>5, <1>6, <1>7, CallOutstanding DEF DataOK
<1>9. QED
  BY <1>5, <1>6, <1>7, <1>8

\* It collects the answers of some workers and calls others.
LEMMA CallsNext ==
  ASSUME ChannelsOK, DataOK, NEW v \in Workers, NEW w \in Workers, v # w, Caller(v) = Caller(w),
         NEW tasks \in Seq(Ranged), Len(tasks) = nshards, UNCHANGED nshards,
         TokenAt(Caller(v), Label(v)), Outstanding(Caller(v), Label(v)), AllBack(v),
         ch' = Sent(Collected(v), w, tasks), pc' = PcAt(Caller(w), Label(w)), TasksSent(w)' = tasks
  PROVE  /\ TokenAt(Caller(w), Label(w))' /\ ChannelsOK' /\ Outstanding(Caller(w), Label(w))'
         /\ ch'.task[w] = tasks /\ ch'.answer[w] = <<>>
<1>1. /\ \A u \in Workers : ch.task[u] = <<>>
      /\ \A u \in Workers \ {v} : ch.answer[u] = <<>>
  BY AllHaveAnswered DEF DataOK
<1> DEFINE task == With(ch.task, w, tasks)
           answer == With(ch.answer, v, <<>>)
<1>2. ch.task \in [Workers -> Seq(Ranged)] /\ ch.task[w] = <<>>
  BY <1>1, ChannelsAre
<1>3. Collected(v) = Channels(NoMessage, ch.task, answer) /\ answer \in [Workers -> Seq(Int)]
  BY NoPortHeld, CollectedIs, CallerTyped
<1>4. answer[v] = <<>> /\ \A u \in Workers \ {v} : answer[u] = ch.answer[u]
  BY DEF With
<1>5. task[w] = tasks /\ \A u \in Workers \ {w} : task[u] = ch.task[u]
  BY DEF With
<1> HIDE DEF answer
<1>6. ch' = Channels(NoMessage, task, answer) /\ task \in [Workers -> Seq(Ranged)]
  <2>1. PICK a \in [Workers -> Seq(Ranged)] : a = ch.task
    BY <1>2
  <2>2. Collected(v) = Channels(NoMessage, a, answer) /\ a[w] = <<>>
    BY <1>2, <1>3, <2>1
  <2>3. /\ Sent(Channels(NoMessage, a, answer), w, tasks) = Channels(NoMessage, With(a, w, tasks), answer)
        /\ With(a, w, tasks) \in [Workers -> Seq(Ranged)]
    BY <2>2, SentIs
  <2>4. ch' = Channels(NoMessage, With(a, w, tasks), answer)
    BY <2>2, <2>3
  <2>5. QED
    BY <2>1, <2>3, <2>4
<1> HIDE DEF task
<1>7. TokenAt(Caller(w), Label(w))' /\ ChannelsOK' /\ ch'.task = task /\ ch'.answer = answer
  BY <1>3, <1>6, TokenWorks, CallerTyped
<1>8. ch'.answer[w] = <<>> /\ \A u \in Workers \ {w} : Idle(u)'
  BY <1>1, <1>4, <1>5, <1>7 DEF Idle
<1>9. Outstanding(Caller(w), Label(w))'
  BY <1>5, <1>7, <1>8, CallOutstanding DEF DataOK
<1>10. QED
  BY <1>5, <1>7, <1>8, <1>9

\* It collects the answers and goes on alone.
LEMMA CollectsAnswers ==
  ASSUME ChannelsOK, DataOK, NEW v \in Workers, NEW l \in {"walk", "failed"}, l \in LabelsOf(Caller(v)),
         TokenAt(Caller(v), Label(v)), Outstanding(Caller(v), Label(v)), AllBack(v),
         ch' = Collected(v), pc' = PcAt(Caller(v), l)
  PROVE  TokenAt(Caller(v), l)' /\ ChannelsOK' /\ Outstanding(Caller(v), l)'
<1>1. /\ \A u \in Workers : ch.task[u] = <<>>
      /\ \A u \in Workers \ {v} : ch.answer[u] = <<>>
  BY AllHaveAnswered DEF DataOK
<1> DEFINE answer == With(ch.answer, v, <<>>)
<1>2. ch.task \in [Workers -> Seq(Ranged)]
  BY ChannelsAre
<1>3. Collected(v) = Channels(NoMessage, ch.task, answer) /\ answer \in [Workers -> Seq(Int)]
  BY NoPortHeld, CollectedIs, CallerTyped
<1>4. answer[v] = <<>> /\ \A u \in Workers \ {v} : answer[u] = ch.answer[u]
  BY DEF With
<1> HIDE DEF answer
<1>5. TokenAt(Caller(v), l)' /\ ChannelsOK' /\ ch'.task = ch.task /\ ch'.answer = answer
  BY <1>2, <1>3, TokenWorks, CallerTyped
<1>6. AllIdle'
  BY <1>1, <1>4, <1>5 DEF AllIdle, Idle
<1>7. QED
  BY <1>5, <1>6, IdleOutstanding, CallerTyped

\* It collects the answers and passes the token on.
LEMMA CollectsAndPuts ==
  ASSUME ChannelsOK, DataOK, NEW v \in Workers, NEW q \in Ports, NEW m \in Message(q),
         TokenAt(Caller(v), Label(v)), Outstanding(Caller(v), Label(v)), AllBack(v),
         ch' = Put(Collected(v), q, m), pc' = PcAt(q, "idle")
  PROVE  TokenAt(q, "idle")' /\ ChannelsOK' /\ Outstanding(q, "idle")' /\ Head(ch'.port[q]) = m
<1>1. /\ \A u \in Workers : ch.task[u] = <<>>
      /\ \A u \in Workers \ {v} : ch.answer[u] = <<>>
  BY AllHaveAnswered DEF DataOK
<1> DEFINE answer == With(ch.answer, v, <<>>)
<1>2. ch.task \in [Workers -> Seq(Ranged)]
  BY ChannelsAre
<1>3. Collected(v) = Channels(NoMessage, ch.task, answer) /\ answer \in [Workers -> Seq(Int)]
  BY NoPortHeld, CollectedIs, CallerTyped
<1>4. answer[v] = <<>> /\ \A u \in Workers \ {v} : answer[u] = ch.answer[u]
  BY DEF With
<1> HIDE DEF answer
<1>5. ch' = Channels(Only(q, m), ch.task, answer)
  BY <1>3, PutIs
<1>6. /\ TokenAt(q, "idle")' /\ ChannelsOK' /\ Head(ch'.port[q]) = m
      /\ ch'.task = ch.task /\ ch'.answer = answer
  BY <1>2, <1>3, <1>5, TokenPut
<1>7. AllIdle'
  BY <1>1, <1>4, <1>6 DEF AllIdle, Idle
<1>8. QED
  BY <1>6, <1>7, IdleOutstanding, PortLabels

LEMMA AnsweredChannels ==
  ASSUME ChannelsOK, NEW w \in Workers, ch.task[w] # <<>>, NEW a \in Int,
         ch' = [ch EXCEPT !.task[w] = Tail(@), !.answer[w] = Append(@, a)]
  PROVE  /\ ChannelsOK' /\ ch'.port = ch.port
         /\ ch'.task[w] = Tail(ch.task[w]) /\ ch'.answer[w] = Append(ch.answer[w], a)
         /\ \A v \in Workers \ {w} : ch'.task[v] = ch.task[v] /\ ch'.answer[v] = ch.answer[v]
<1> DEFINE task == [ch.task EXCEPT ![w] = Tail(@)]
           answer == [ch.answer EXCEPT ![w] = Append(@, a)]
<1>1. ch' = Channels(ch.port, task, answer)
  <2>1. PICK f, g, h : f = ch.port /\ g = ch.task /\ h = ch.answer
    OBVIOUS
  <2>2. ch = Channels(f, g, h)
    BY <2>1, ChannelsAre
  <2>3. Channels(f, g, h).task = g /\ Channels(f, g, h).answer = h
    BY DEF Channels
  <2> DEFINE c == [Channels(f, g, h) EXCEPT !.task[w] = Tail(@)]
             t == [g EXCEPT ![w] = Tail(g[w])]
             b == [h EXCEPT ![w] = Append(h[w], a)]
  <2>4. \A x : [Channels(f, g, h) EXCEPT !.task = x] = Channels(f, x, h)
    BY DEF Channels
  <2>5. c = Channels(f, t, h)
    <3>1. c = [Channels(f, g, h) EXCEPT !.task = t]
      BY <2>3
    <3> HIDE DEF t, c
    <3>2. QED
      BY <2>4, <3>1
  <2>6. [c EXCEPT !.answer[w] = Append(@, a)] = Channels(f, t, b)
    <3> HIDE DEF c, t
    <3>1. Channels(f, t, h).answer = h /\ \A x : [Channels(f, t, h) EXCEPT !.answer = x] = Channels(f, t, x)
      BY DEF Channels
    <3>2. [c EXCEPT !.answer[w] = Append(@, a)] = [Channels(f, t, h) EXCEPT !.answer = b]
      BY <2>5, <3>1
    <3> HIDE DEF b
    <3>3. QED
      BY <3>1, <3>2
  <2>7. [ch EXCEPT !.task[w] = Tail(@), !.answer[w] = Append(@, a)] = [c EXCEPT !.answer[w] = Append(@, a)]
    BY <2>2
  <2>8. t = task /\ b = answer
    BY ONLY <2>1 DEF t, task, b, answer
  <2> HIDE DEF c, t, b, task, answer
  <2>9. [ch EXCEPT !.task[w] = Tail(@), !.answer[w] = Append(@, a)] = Channels(f, task, answer)
    BY ONLY <2>6, <2>7, <2>8
  <2>10. QED
    BY <2>1, <2>9, Zenon
<1>2. ch.task \in [Workers -> Seq(Ranged)] /\ ch.answer \in [Workers -> Seq(Int)]
  BY DEF ChannelsOK
<1>3. Tail(ch.task[w]) \in Seq(Ranged) /\ Append(ch.answer[w], a) \in Seq(Int)
  BY <1>2
<1>4. /\ task \in [Workers -> Seq(Ranged)] /\ answer \in [Workers -> Seq(Int)]
      /\ task[w] = Tail(ch.task[w]) /\ answer[w] = Append(ch.answer[w], a)
      /\ \A v \in Workers \ {w} : task[v] = ch.task[v] /\ answer[v] = ch.answer[v]
  BY <1>2, <1>3
<1> HIDE DEF task, answer
<1>5. ch'.port = ch.port /\ ch'.task = task /\ ch'.answer = answer
  BY ONLY <1>1 DEF Channels
<1>6. ChannelsOK'
  BY <1>1, <1>4, <1>5, ChannelsAre DEF ChannelsOK, Channels
<1>7. QED
  BY <1>4, <1>5, <1>6

\* A worker answers the next of the tasks sent.
LEMMA Answered ==
  ASSUME Clustering, NEW w \in Workers, NEW a \in Int, Answers(w, a)
  PROVE  /\ TypeOK /\ Holds(Caller(w), Label(w)) /\ ChannelsOK'
         /\ TokenAt(Caller(w), Label(w))' /\ Outstanding(Caller(w), Label(w))'
         /\ Len(ch.answer[w]) + 1 \in 1 .. nshards
         /\ Task(w) = TasksSent(w)[Len(ch.answer[w]) + 1]
         /\ ch'.task[w] = Tail(ch.task[w]) /\ ch'.answer[w] = Append(ch.answer[w], a)
         /\ \A i : Left(w, i) => Left(w, i)' \/ i \in In(Task(w))
<1>1. ch.task[w] # <<>> /\ ch' = [ch EXCEPT !.task[w] = Tail(@), !.answer[w] = Append(@, a)]
  BY DEF Answers
<1>2. TypeOK /\ Holds(Caller(w), Label(w))
  BY <1>1, CallerWaits DEF Clustering
<1>3. /\ ChannelsOK' /\ ch'.port = ch.port
      /\ ch'.task[w] = Tail(ch.task[w]) /\ ch'.answer[w] = Append(ch.answer[w], a)
      /\ \A v \in Workers \ {w} : ch'.task[v] = ch.task[v] /\ ch'.answer[v] = ch.answer[v]
  <2>1. ChannelsOK /\ ch.task[w] # <<>>
    BY <1>1, <1>2 DEF TypeOK
  <2>2. QED
    BY <1>1, <2>1, AnsweredChannels, Zenon
<1>4. UNCHANGED <<nshards, num, pc, speedy, gain>>
  BY DEF Answers, master_vars, kernel_vars
<1>5. TokenAt(Caller(w), Label(w))'
  BY <1>2, <1>3, <1>4, CallerTyped DEF Holds, TokenAt
<1>6. TasksSent(w)' = TasksSent(w)
  BY <1>4 DEF TasksSent, Ranges, GainRanges, Part
<1>7. PICK t \in Seq(Ranged), b \in Seq(Int) : t = ch.task[w] /\ b = ch.answer[w] /\ t # <<>>
  BY <1>1, <1>2 DEF TypeOK, ChannelsOK
<1>8. PICK n \in Nat : n = nshards
  BY <1>2 DEF TypeOK, DataOK
<1>9. Len(t) + Len(b) = n /\ \A s \in 1 .. Len(t) : t[s] = TasksSent(w)[Len(b) + s]
  BY <1>2, <1>7, <1>8 DEF Holds, Outstanding, Underway
<1>10. /\ Len(t) \in Nat \ {0} /\ Len(b) \in Nat /\ Len(Tail(t)) = Len(t) - 1 /\ Len(Append(b, a)) = Len(b) + 1
       /\ \A s \in 1 .. Len(t) - 1 : Tail(t)[s] = t[s + 1]
  BY <1>7
<1>11. Len(Tail(t)) + Len(Append(b, a)) = n
  BY <1>9, <1>10
<1>12. \A s \in 1 .. Len(Tail(t)) : Tail(t)[s] = TasksSent(w)[Len(Append(b, a)) + s]
  <2>1. TAKE s \in 1 .. Len(Tail(t))
  <2>2. s + 1 \in 1 .. Len(t) /\ s \in 1 .. Len(t) - 1 /\ Len(b) + (s + 1) = Len(Append(b, a)) + s
    BY <1>10
  <2>3. QED
    BY <1>9, <1>10, <2>2
<1>13. Outstanding(Caller(w), Label(w))'
  <2>1. Underway(w)'
    BY <1>3, <1>4, <1>6, <1>7, <1>8, <1>11, <1>12 DEF Underway
  <2>2. \A v \in Workers \ {w} : Idle(v)
    BY <1>2, CallersDiffer DEF Holds, Outstanding
  <2>3. \A v \in Workers \ {w} : Idle(v)'
    BY <1>3, <2>2 DEF Idle
  <2>4. QED
    BY <2>1, <2>3, CallersDiffer DEF Outstanding
<1>14. Len(b) + 1 \in 1 .. n /\ Head(t) = TasksSent(w)[Len(b) + 1]
  <2>1. Head(t) = t[1] /\ 1 \in 1 .. Len(t)
    BY <1>7, <1>10
  <2>2. Len(b) + 1 \in 1 .. n
    BY ONLY <1>9, <1>10, n \in Nat
  <2>3. QED
    BY <1>9, <2>1, <2>2
<1>15. ASSUME NEW i, Left(w, i) PROVE Left(w, i)' \/ i \in In(Task(w))
  <2>1. PICK s \in 1 .. Len(t) : i \in In(t[s])
    BY <1>7, <1>15 DEF Left
  <2>2. CASE s = 1
    BY <1>7, <2>1, <2>2 DEF Task
  <2>3. CASE s # 1
    <3>1. s - 1 \in 1 .. Len(Tail(t)) /\ s - 1 \in 1 .. Len(t) - 1 /\ s - 1 + 1 = s
      BY <1>10, <2>3
    <3>2. Tail(t)[s - 1] = t[s]
      BY <1>10, <3>1
    <3>3. QED
      BY <1>3, <1>7, <2>1, <3>1, <3>2 DEF Left
  <2>4. QED
    BY <2>2, <2>3
<1>16. QED
  BY <1>2, <1>3, <1>5, <1>7, <1>8, <1>13, <1>14, <1>15 DEF Task

-----------------------------------------------------------------------------
(* The steps of the workers.                                               *)

\* What an answer changes besides the ports decides whether the rest holds.
LEMMA WorkerKeeps ==
  ASSUME Clustering, NEW w \in Workers, NEW a \in Int, Answers(w, a),
         points' \in [Rows -> Point], is_center' \in [Rows -> BOOLEAN],
         SpeedySoFar(Caller(w), Label(w))', Placed(Caller(w), Label(w))'
  PROVE  Clustering'
<1>1. /\ TypeOK /\ Holds(Caller(w), Label(w)) /\ ChannelsOK'
      /\ TokenAt(Caller(w), Label(w))' /\ Outstanding(Caller(w), Label(w))'
  BY Answered
<1>2. UNCHANGED <<nshards, stream, block, num, feasible, speedy, fl, gain>>
  BY DEF Answers, master_vars, kernel_vars, loop_vars
<1>3. DataOK'
  BY <1>1, <1>2 DEF TypeOK, DataOK
<1>4. Trying(Caller(w))'
  BY <1>1, <1>2 DEF Holds, Trying
<1>5. Holds(Caller(w), Label(w))'
  BY <1>1, <1>4 DEF Holds
<1>6. Caller(w) \in Places /\ Label(w) \in LabelsOf(Caller(w))
  BY CallerTyped
<1>7. QED
  BY <1>1, <1>3, <1>5, <1>6 DEF Clustering, TypeOK

LEMMA AssignedIs ==
  ASSUME DataOK, NEW i \in Rows, NEW c \in Rows
  PROVE  /\ Assigned(i, c) \in Point
         /\ Assigned(i, c).row = points[i].row /\ Assigned(i, c).weight = points[i].weight
         /\ Assigned(i, c).assign = c /\ Assigned(i, c).cost = CostTo(i, c)
<1>1. PICK p \in Point : p = points[i]
  BY DEF DataOK
<1>2. PICK x \in Int : x = CostTo(i, c)
  BY CostToInt
<1>3. [p EXCEPT !.assign = c] = [row |-> p.row, weight |-> p.weight, assign |-> c, cost |-> p.cost]
  BY DEF Point
<1>4. [[p EXCEPT !.assign = c] EXCEPT !.cost = x] = [row |-> p.row, weight |-> p.weight, assign |-> c, cost |-> x]
  <2>1. PICK r : r = [row |-> p.row, weight |-> p.weight, assign |-> c, cost |-> p.cost]
    OBVIOUS
  <2>2. [r EXCEPT !.cost = x] = [row |-> p.row, weight |-> p.weight, assign |-> c, cost |-> x]
    BY <2>1
  <2>3. r = [p EXCEPT !.assign = c]
    BY <1>3, <2>1
  <2>4. QED
    BY ONLY <2>2, <2>3, Zenon
<1>5. Assigned(i, c) = [row |-> p.row, weight |-> p.weight, assign |-> c, cost |-> x]
  <2>1. Assigned(i, c) = [[p EXCEPT !.assign = c] EXCEPT !.cost = x]
    BY <1>1, <1>2, Zenon DEF Assigned
  <2>2. QED
    BY <1>4, <2>1
<1>6. QED
  BY <1>1, <1>2, <1>5 DEF Point

LEMMA Reassigned ==
  ASSUME DataOK, UNCHANGED block, NEW c \in Rows, NEW S,
         points' = [i \in Rows |-> IF i \in S THEN Assigned(i, c) ELSE points[i]]
  PROVE  /\ points' \in [Rows -> Point]
         /\ \A i, d \in Rows : CostTo(i, d)' = CostTo(i, d)
         /\ \A i \in Rows : /\ i \in S => points'[i].assign = c /\ points'[i].cost = CostTo(i, c)
                            /\ i \notin S => points'[i] = points[i]
<1>1. ASSUME NEW i \in Rows
      PROVE  /\ points'[i] \in Point /\ points'[i].row = points[i].row /\ points'[i].weight = points[i].weight
             /\ i \in S => points'[i].assign = c /\ points'[i].cost = CostTo(i, c)
             /\ i \notin S => points'[i] = points[i]
  <2>1. points[i] \in Point
    BY DEF DataOK
  <2>2. QED
    BY <2>1, AssignedIs
<1>2. points' \in [Rows -> Point]
  BY <1>1
<1>3. ASSUME NEW i \in Rows, NEW d \in Rows PROVE CostTo(i, d)' = CostTo(i, d)
  BY <1>1 DEF CostTo, At
<1>4. QED
  BY <1>1, <1>2, <1>3

LEMMA CostTo0Step == Clustering /\ CostTo0 => Clustering'
<1> SUFFICES ASSUME Clustering, CostTo0 PROVE Clustering'
  OBVIOUS
<1>1. "costTo0" \in Workers /\ Caller("costTo0") = "init" /\ Answers("costTo0", 0)
  BY DEF CostTo0, Workers, Caller
<1>2. points' \in [Rows -> Point] /\ is_center' \in [Rows -> BOOLEAN]
  BY DEF CostTo0, center_vars, Clustering, TypeOK, DataOK
<1>3. SpeedySoFar("init", Label("costTo0"))' /\ Placed("init", Label("costTo0"))'
  BY DEF SpeedySoFar, Placed, InFL, InGain
<1>4. QED
  BY <1>1, <1>2, <1>3, WorkerKeeps

LEMMA CenterTo0Step == Clustering /\ CenterTo0 => Clustering'
<1> SUFFICES ASSUME Clustering, CenterTo0 PROVE Clustering'
  OBVIOUS
<1> DEFINE w == "centerTo0"
           S == In(Task(w))
<1>1. w \in Workers /\ Caller(w) = "speedy" /\ Label(w) = "to0" /\ Answers(w, 0)
  BY DEF CenterTo0, Workers, Caller, Label
<1>2. TypeOK /\ Holds("speedy", "to0") /\ \A i : Left(w, i) => Left(w, i)' \/ i \in S
  BY <1>1, Answered
<1>3. 0 \in Rows /\ Num \subseteq Rows
  BY <1>2, NumInRows DEF TypeOK
<1>4. UNCHANGED <<block, num, speedy>>
  BY <1>1 DEF Answers, master_vars, kernel_vars
<1>5. /\ points' \in [Rows -> Point] /\ \A i, d \in Rows : CostTo(i, d)' = CostTo(i, d)
      /\ \A i \in Rows : /\ i \in S => points'[i].assign = 0 /\ points'[i].cost = CostTo(i, 0)
                         /\ i \notin S => points'[i] = points[i]
  BY <1>2, <1>3, <1>4, Reassigned DEF TypeOK, CenterTo0
<1> HIDE DEF w, S
<1>6. speedy.i \in 1 .. num /\ AllAt0
  BY <1>2 DEF Holds, SpeedySoFar
<1>7. AllAt0'
  <2>1. SUFFICES ASSUME NEW i \in Num, ~Left("centerTo0", i)'
                 PROVE  points'[i].assign = 0 /\ AtCost(i)'
    BY <1>4 DEF AllAt0, Num
  <2>2. i \in Rows
    BY <1>3
  <2>3. CASE i \in S
    BY <1>3, <1>5, <2>2, <2>3 DEF AtCost
  <2>4. CASE i \notin S
    <3>1. points[i].assign = 0 /\ AtCost(i)
      BY <1>2, <1>6, <2>1, <2>4 DEF AllAt0, w
    <3>2. QED
      BY <1>3, <1>5, <2>2, <2>4, <3>1 DEF AtCost
  <2>5. QED
    BY <2>3, <2>4
<1>8. SpeedySoFar("speedy", "to0")'
  BY <1>4, <1>6, <1>7 DEF SpeedySoFar
<1>9. Placed("speedy", "to0")'
  BY DEF Placed, InFL, InGain
<1>10. is_center' \in [Rows -> BOOLEAN]
  BY <1>2 DEF CenterTo0, center_vars, TypeOK, DataOK
<1>11. QED
  BY <1>1, <1>5, <1>8, <1>9, <1>10, WorkerKeeps

LEMMA CenterUpdateStep == Clustering /\ CenterUpdate => Clustering'
<1> SUFFICES ASSUME Clustering, CenterUpdate PROVE Clustering'
  OBVIOUS
<1>0. PICK c : c = speedy.i
  OBVIOUS
<1> DEFINE w == "centerUpdate"
           S == {i \in Rows : i \in In(Task(w)) /\ CostTo(i, c) < points[i].cost}
<1>1. w \in Workers /\ Caller(w) = "speedy" /\ Label(w) = "updates" /\ Answers(w, 0)
  BY DEF CenterUpdate, Workers, Caller, Label
<1>2. /\ TypeOK /\ Holds("speedy", "updates") /\ Len(ch.answer[w]) + 1 \in 1 .. nshards
      /\ Task(w) = TasksSent(w)[Len(ch.answer[w]) + 1]
      /\ \A i : Left(w, i) => Left(w, i)' \/ i \in In(Task(w))
  BY <1>1, Answered
<1>3. Num \subseteq Rows
  BY <1>2, NumInRows DEF TypeOK
<1>4. speedy.i \in 1 .. num /\ speedy.i < num /\ Updating
  BY <1>2 DEF Holds, SpeedySoFar
<1>5. c \in Rows
  <2>1. num \in Nat
    BY <1>2, NumInRows DEF TypeOK
  <2>2. c \in Num
    BY <1>0, <1>4, <2>1 DEF Num
  <2>3. QED
    BY <1>3, <2>2
<1>6. Task(w).arg = c
  <2>1. Task(w) = Ranges(c)[Len(ch.answer[w]) + 1]
    BY <1>0, <1>2 DEF TasksSent
  <2>2. \A s \in 1 .. nshards : Ranges(c)[s] = [arg |-> c, k1 |-> Edge(s - 1), k2 |-> Edge(s)]
    BY <1>2, RangesAre DEF TypeOK
  <2>3. PICK x, y : Task(w) = [arg |-> c, k1 |-> x, k2 |-> y]
    BY <1>2, <2>1, <2>2
  <2>4. QED
    BY <2>3
<1>7. UNCHANGED <<block, num, speedy>>
  BY <1>1 DEF Answers, master_vars, kernel_vars
<1>8. points' = [i \in Rows |-> IF i \in S THEN Assigned(i, c) ELSE points[i]]
  BY <1>6 DEF CenterUpdate
<1> HIDE DEF S
<1>9. /\ points' \in [Rows -> Point] /\ \A i, d \in Rows : CostTo(i, d)' = CostTo(i, d)
      /\ \A i \in Rows : /\ i \in S => points'[i].assign = c /\ points'[i].cost = CostTo(i, c)
                         /\ i \notin S => points'[i] = points[i]
  BY <1>2, <1>5, <1>7, <1>8, Reassigned DEF TypeOK
<1>10. \A i \in Rows : /\ points[i].cost \in Int /\ points[i].assign \in Rows
                       /\ \A d \in Rows : CostTo(i, d) \in Int
  BY <1>2, CostToInt DEF TypeOK
<1>11. \A i \in S : CostTo(i, c) < points[i].cost
  BY DEF S
<1>12. \A i \in Rows : i \in In(Task(w)) /\ i \notin S => points[i].cost <= CostTo(i, c)
  BY <1>5, <1>10 DEF S
<1> HIDE DEF w
\* Costs only fall.
<1>13. \A i \in Rows : points'[i].cost \in Int /\ points'[i].cost <= points[i].cost
  BY <1>5, <1>9, <1>10, <1>11
<1>14. Updating'
  <2>1. SUFFICES ASSUME NEW i \in Num, NEW j \in Num
                 PROVE  /\ AtCost(i)'
                        /\ Left(w, i)' \/ Nearer(i, c)'
                        /\ Nearer(i, points[j].assign)' \/ points'[j].assign = c
    BY <1>0, <1>7 DEF Updating, Num, w
  <2>2. i \in Rows /\ j \in Rows /\ AtCost(i)
    BY <1>3, <1>4 DEF Updating
  <2>3. AtCost(i)'
    BY <1>5, <1>9, <1>10, <2>2 DEF AtCost
  <2>4. Left(w, i)' \/ Nearer(i, c)'
    <3>2. CASE i \in S
      <4>1. points'[i].cost = CostTo(i, c) /\ CostTo(i, c)' = CostTo(i, c) /\ CostTo(i, c) \in Int
        BY <1>5, <1>9, <1>10, <2>2, <3>2
      <4>2. QED
        BY <4>1 DEF Nearer
    <3>3. CASE i \notin S /\ ~Left(w, i)'
      <4>1. points[i].cost <= CostTo(i, c)
        <5>1. Left(w, i) \/ Nearer(i, c)
          BY <1>0, <1>4 DEF Updating, w
        <5>2. QED
          BY <1>2, <1>12, <2>2, <3>3, <5>1 DEF Nearer
      <4>2. QED
        BY <1>5, <1>9, <2>2, <3>3, <4>1 DEF Nearer
    <3>4. QED
      BY <3>2, <3>3
  <2>5. Nearer(i, points[j].assign)' \/ points'[j].assign = c
    <3>1. CASE j \in S
      BY <1>9, <2>2, <3>1
    <3>2. CASE j \notin S /\ points'[j].assign # c
      <4>1. points'[j].assign = points[j].assign /\ points[j].assign \in Rows
        BY <1>9, <1>10, <2>2, <3>2
      <4>2. points[i].cost <= CostTo(i, points[j].assign)
        BY <1>0, <1>4, <3>2, <4>1 DEF Updating, Nearer
      <4>3. CostTo(i, points[j].assign)' = CostTo(i, points[j].assign)
        <5>1. PICK d \in Rows : d = points[j].assign /\ d = points'[j].assign
          BY <4>1
        <5>2. CostTo(i, d)' = CostTo(i, d)
          BY <1>9, <2>2
        <5>3. QED
          BY <5>1, <5>2
      <4>4. CostTo(i, points[j].assign) \in Int
        BY <1>10, <2>2
      <4>5. QED
        BY <1>10, <1>13, <2>2, <4>2, <4>3, <4>4 DEF Nearer
    <3>3. QED
      BY <3>1, <3>2
  <2>6. QED
    BY <2>3, <2>4, <2>5
<1>15. SpeedySoFar("speedy", "updates")'
  BY <1>4, <1>7, <1>14 DEF SpeedySoFar
<1>16. Placed("speedy", "updates")'
  BY DEF Placed, InFL, InGain
<1>17. is_center' \in [Rows -> BOOLEAN]
  BY <1>2 DEF CenterUpdate, center_vars, TypeOK, DataOK
<1>18. QED
  BY <1>1, <1>9, <1>15, <1>16, <1>17, WorkerKeeps

LEMMA CostSumupStep == Clustering /\ CostSumup => Clustering'
<1> SUFFICES ASSUME Clustering, CostSumup PROVE Clustering'
  OBVIOUS
<1> DEFINE w == "costSumup"
<1>0. PICK a : a = CostOf(Task(w).k1, Task(w).k2)
  OBVIOUS
<1>1. w \in Workers /\ Caller(w) = "speedy" /\ Label(w) = "sum" /\ Answers(w, a)
  BY <1>0 DEF CostSumup, Workers, Caller, Label
<1>2. UNCHANGED <<nshards, block, num, speedy, points, is_center>>
  BY <1>1 DEF Answers, master_vars, kernel_vars, CostSumup, center_vars
<1>3. ch.task[w] # <<>> /\ TypeOK /\ Holds("speedy", "sum")
  BY <1>1, CallerWaits DEF Answers, Clustering
<1>4. PICK m : m = Len(ch.answer[w]) + 1
  OBVIOUS
<1>5. m \in 1 .. nshards /\ Task(w) = Ranges(0)[m]
  <2>1. PICK t \in Seq(Ranged), b \in Seq(Int) : t = ch.task[w] /\ b = ch.answer[w] /\ t # <<>>
    BY <1>3 DEF TypeOK, ChannelsOK, Workers
  <2>2. PICK n \in Nat : n = nshards
    BY <1>3 DEF TypeOK, DataOK
  <2>3. Len(t) + Len(b) = n /\ \A s \in 1 .. Len(t) : t[s] = TasksSent(w)[Len(b) + s]
    BY <1>1, <1>3, <2>1, <2>2 DEF Holds, Outstanding, Underway
  <2>4. Len(t) \in Nat /\ Len(t) > 0 /\ Len(b) \in Nat /\ Head(t) = t[1]
    BY <2>1
  <2>5. 1 \in 1 .. Len(t) /\ Len(b) + 1 \in 1 .. n
    BY ONLY <2>3, <2>4, n \in Nat
  <2>6. TasksSent(w) = Ranges(0)
    BY <1>1 DEF TasksSent
  <2>7. QED
    BY <1>4, <2>1, <2>2, <2>3, <2>4, <2>5, <2>6 DEF Task
<1>6. a \in Int
  <2>1. Ranges(0)[m] = [arg |-> 0, k1 |-> Edge(m - 1), k2 |-> Edge(m)]
    BY <1>3, <1>5, RangesAre DEF TypeOK
  <2>2. PICK n \in Nat : n = nshards
    BY <1>3 DEF TypeOK, DataOK
  <2>3. m \in 0 .. n /\ m - 1 \in 0 .. n /\ m - 1 \in 0 .. n - 1 /\ m - 1 + 1 = m
    BY <1>5, <2>2
  <2>4. Edge(m - 1) \in 0 .. num /\ Edge(m) \in 0 .. num /\ Edge(m - 1) <= Edge(m)
    BY <1>3, <2>2, <2>3, EdgesGrow DEF TypeOK
  <2>5. PICK x \in 0 .. num, y \in 0 .. num : x = Edge(m - 1) /\ y = Edge(m) /\ x <= y
    BY <2>4
  <2>6. a = CostOf(x, y)
    BY <1>0, <1>5, <2>1, <2>5
  <2>7. PICK u \in Int, v \in Int : CostOf(x, y) = u - v
    BY <1>3, <2>5, CostOfRange DEF TypeOK
  <2>8. QED
    BY <2>6, <2>7
<1>7. ch'.answer[w] = Append(ch.answer[w], a)
  BY <1>1, <1>6, Answered
<1>8. CostOf(Ranges(0)[m].k1, Ranges(0)[m].k2) = a
  BY <1>0, <1>5
<1>9. \A s : CostOf(Ranges(0)[s].k1, Ranges(0)[s].k2)' = CostOf(Ranges(0)[s].k1, Ranges(0)[s].k2)
  BY <1>2 DEF CostOf, Ranges, Part
<1>10. SumsSent'
  <2>1. PICK b \in Seq(Int) : b = ch.answer[w]
    BY <1>3 DEF TypeOK, ChannelsOK, Workers
  <2>2. SUFFICES ASSUME NEW s \in 1 .. Len(Append(b, a))
                 PROVE  Append(b, a)[s] = CostOf(Ranges(0)[s].k1, Ranges(0)[s].k2)
    BY <1>7, <1>9, <2>1 DEF SumsSent
  <2>3. \A r \in 1 .. Len(b) : b[r] = CostOf(Ranges(0)[r].k1, Ranges(0)[r].k2)
    BY <1>3, <2>1 DEF Holds, SpeedySoFar, SumsSent
  <2>4. CASE s = m
    <3>1. Append(b, a)[s] = a
      BY <1>4, <1>6, <2>1, <2>4
    <3>2. QED
      BY <1>8, <2>4, <3>1
  <2>5. CASE s # m
    <3>1. s \in 1 .. Len(b) /\ Append(b, a)[s] = b[s]
      BY <1>4, <1>6, <2>1, <2>5
    <3>2. QED
      BY <2>3, <3>1
  <2>6. QED
    BY <2>4, <2>5
<1>11. SpeedySoFar("speedy", "sum")'
  <2>1. speedy.i \in 1 .. num /\ Nearest
    BY <1>3 DEF Holds, SpeedySoFar
  <2>2. Nearest'
    BY <1>2, <2>1 DEF Nearest, AtCost, Nearer, CostTo, At, Num
  <2>3. QED
    BY <1>2, <1>10, <2>1, <2>2 DEF SpeedySoFar
<1>12. Placed("speedy", "sum")'
  BY DEF Placed, InFL, InGain
<1>13. points' \in [Rows -> Point] /\ is_center' \in [Rows -> BOOLEAN]
  BY <1>2, <1>3 DEF TypeOK, DataOK
<1>14. QED
  BY <1>1, <1>6, <1>11, <1>12, <1>13, WorkerKeeps

LEMMA FewCenters ==
  ASSUME NEW x \in Int, NEW y \in Int, NEW S, S \subseteq x .. y
  PROVE  IsFiniteSet(S) /\ Cardinality(S) \in Nat
BY FS_Interval, FS_Subset, FS_CardinalityType

\* The part of PGain's workers that does not touch the points.
LEMMA GainWorkerKeeps ==
  ASSUME Clustering, NEW w \in Workers \ {"commitSwitch"}, Caller(w) = "gain", NEW a \in Int, Answers(w, a),
         UNCHANGED <<points, is_center>>
  PROVE  Clustering'
<1>1. TypeOK /\ Holds("gain", Label(w))
  BY Answered
<1>2. UNCHANGED <<num, nshards>>
  BY DEF Answers, master_vars
<1>3. SpeedySoFar("gain", Label(w))'
  BY DEF SpeedySoFar
<1>4. Label(w) # "commits"
  BY DEF Label, Caller, Workers
<1>5. Covered
  BY <1>1, <1>4 DEF Holds, Placed, InFL, InGain
<1>6. Covered'
  BY <1>2, <1>5 DEF Covered, Num
<1>7. Label(w) \in {"costs", "lowers", "commits"} => nshards' = 1
  BY <1>1, <1>2 DEF Holds, Placed
<1>8. Placed("gain", Label(w))'
  BY <1>4, <1>6, <1>7 DEF Placed
<1>9. points' \in [Rows -> Point] /\ is_center' \in [Rows -> BOOLEAN]
  BY <1>1 DEF TypeOK, DataOK
<1>10. QED
  BY <1>3, <1>8, <1>9, WorkerKeeps

\* Bounds of the range of a task.
LEMMA TaskTyped ==
  ASSUME ChannelsOK, NEW w \in Workers, ch.task[w] # <<>>
  PROVE  Task(w).k1 \in Int /\ Task(w).k2 \in Int /\ Task(w).k2 - 1 \in Int
<1>1. PICK t \in Seq(Ranged) : t = ch.task[w] /\ t # <<>>
  BY DEF ChannelsOK
<1>2. PICK r \in Ranged : r = Head(t)
  BY <1>1
<1>3. r.k1 \in Int /\ r.k2 \in Int /\ r.k2 - 1 \in Int
  BY DEF Ranged
<1>4. Task(w) = r
  BY <1>1, <1>2 DEF Task
<1>5. QED
  BY <1>3, <1>4

LEMMA CenterCountStep == Clustering /\ CenterCount => Clustering'
<1> SUFFICES ASSUME Clustering, CenterCount PROVE Clustering'
  OBVIOUS
<1> DEFINE w == "centerCount"
<1>1. w \in Workers \ {"commitSwitch"} /\ Caller(w) = "gain" /\ ch.task[w] # <<>>
  BY DEF CenterCount, Answers, Workers, Caller
<1>2. Task(w).k1 \in Int /\ Task(w).k2 - 1 \in Int
  BY <1>1, TaskTyped DEF Clustering, TypeOK
<1>3. PICK a : a = Cardinality(CentersIn(In(Task(w))))
  OBVIOUS
<1>4. a \in Int
  <2>1. CentersIn(In(Task(w))) \subseteq Task(w).k1 .. (Task(w).k2 - 1)
    BY DEF CentersIn, In
  <2>2. PICK x \in Int, y \in Int : x = Task(w).k1 /\ y = Task(w).k2 - 1
    BY <1>2
  <2>3. PICK S : S = CentersIn(In(Task(w)))
    OBVIOUS
  <2>4. S \subseteq x .. y
    BY <2>1, <2>2, <2>3
  <2>5. Cardinality(S) \in Nat
    BY ONLY <2>4, FewCenters, x \in Int, y \in Int
  <2>6. QED
    BY <1>3, <2>3, <2>5
<1>5. Answers(w, a) /\ UNCHANGED <<points, is_center>>
  BY <1>3 DEF CenterCount
<1>6. QED
  BY <1>1, <1>4, <1>5, GainWorkerKeeps

LEMMA SwitchCostCalcStep == Clustering /\ SwitchCostCalc => Clustering'
<1> SUFFICES ASSUME Clustering, SwitchCostCalc PROVE Clustering'
  OBVIOUS
<1>1. "switchCostCalc" \in Workers \ {"commitSwitch"} /\ Caller("switchCostCalc") = "gain"
  BY DEF Workers, Caller
<1>2. Answers("switchCostCalc", 0) /\ UNCHANGED <<points, is_center>>
  BY DEF SwitchCostCalc
<1>3. QED
  BY <1>1, <1>2, GainWorkerKeeps

LEMMA LowerSumupStep == Clustering /\ LowerSumup => Clustering'
<1> SUFFICES ASSUME Clustering, LowerSumup PROVE Clustering'
  OBVIOUS
<1> DEFINE w == "lowerSumup"
<1>1. w \in Workers \ {"commitSwitch"} /\ Caller(w) = "gain" /\ ch.task[w] # <<>>
  BY DEF LowerSumup, Workers, Caller
<1>2. Task(w).k1 \in Int /\ Task(w).k2 - 1 \in Int
  BY <1>1, TaskTyped DEF Clustering, TypeOK
<1>3. PICK t : t = In(Task(w))
  OBVIOUS
<1>4. t = Task(w).k1 .. (Task(w).k2 - 1)
  BY <1>3 DEF In
<1>5. PICK places, others, most : /\ others \in 0 .. most
                                  /\ Answers(w, Cardinality(places \cap t) + others)
                                  /\ UNCHANGED <<points, is_center>>
  BY <1>3 DEF LowerSumup
<1>6. Cardinality(places \cap t) \in Nat
  BY <1>2, <1>4, FewCenters
<1>7. Cardinality(places \cap t) + others \in Int
  BY <1>5, <1>6
<1>8. QED
  BY <1>1, <1>5, <1>7, GainWorkerKeeps

LEMMA LastTask ==
  ASSUME NEW s \in Seq(Ranged), Len(s) = 1
  PROVE  Tail(s) = <<>>
<1>1. s # <<>>
  <2>1. Len(<<>>) = 0 /\ 0 # 1
    OBVIOUS
  <2>2. QED
    BY <2>1, Zenon
<1>2. PICK r \in Seq(Ranged) : r = Tail(s)
  BY <1>1, HeadTailProperties
<1>3. Len(r) = 1 - 1
  BY <1>1, <1>2, HeadTailProperties
<1>4. r = <<>>
  BY <1>3, EmptySeq
<1>5. QED
  BY <1>2, <1>4

\* The only shard commits: what had a center that closes goes to the new one.
LEMMA CommitSwitchStep == Clustering /\ CommitSwitch => Clustering'
<1> SUFFICES ASSUME Clustering, CommitSwitch PROVE Clustering'
  OBVIOUS
<1> DEFINE w == "commitSwitch"
<1>1. w \in Workers /\ Caller(w) = "gain" /\ Label(w) = "commits" /\ Answers(w, 0) /\ ch.task[w] # <<>>
  BY DEF CommitSwitch, Answers, Workers, Caller, Label
<1>2. /\ TypeOK /\ Holds("gain", "commits") /\ Len(ch.answer[w]) + 1 \in 1 .. nshards
      /\ Task(w) = TasksSent(w)[Len(ch.answer[w]) + 1] /\ ch'.task[w] = Tail(ch.task[w])
  BY <1>1, Answered
<1>3. nshards = 1 /\ Covered
  BY <1>1, <1>2 DEF Holds, Placed
<1>4. PICK c \in Rows : c = gain.idx
  BY <1>2 DEF TypeOK, DataOK
<1>5. PICK n \in Nat : n = num
  BY <1>2, NumInRows DEF TypeOK
<1>6. PICK t : t = [arg |-> c, k1 |-> 0, k2 |-> n] /\ Task(w) = t
  <2>1. Len(ch.answer[w]) + 1 = 1
    BY <1>2, <1>3
  <2>2. Task(w) = GainRanges(n, c)[1]
    BY <1>1, <1>2, <1>4, <1>5, <2>1 DEF TasksSent
  <2>3. GainRanges(n, c)[1] = Part(c, 0, n, n % 1)
    BY <1>3 DEF GainRanges
  <2>4. n % 1 = 0 /\ n \div 1 = n
    BY <1>5
  <2>5. Part(c, 0, n, n % 1) = [arg |-> c, k1 |-> 0, k2 |-> n]
    BY <1>3, <2>4 DEF Part
  <2>6. QED
    BY <2>2, <2>3, <2>5
<1>7. t.arg = c /\ In(t) = Num
  BY <1>5, <1>6 DEF In, Num
<1> DEFINE leaves(i) == i \in switch_membership \/ center_tab[points[i].assign] \in lower
           S == {i \in Num : leaves(i)}
<1>8. points' = [i \in Rows |-> IF i \in S THEN Assigned(i, c) ELSE points[i]]
  BY <1>6, <1>7 DEF CommitSwitch
<1>9. is_center' = [i \in Rows |-> is_center[i] /\ ~(i \in Num /\ center_tab[i] \in lower)]
  BY <1>6, <1>7 DEF CommitSwitch
<1>10. UNCHANGED <<nshards, block, num, gain>>
  BY <1>1 DEF Answers, master_vars, kernel_vars
<1>11. /\ points' \in [Rows -> Point]
       /\ \A i \in Rows : /\ i \in S => points'[i].assign = c
                          /\ i \notin S => points'[i] = points[i]
  <2> HIDE DEF S
  <2>1. QED
    BY <1>2, <1>8, <1>10, Reassigned DEF TypeOK
<1>12. \A i \in Num : is_center'[points'[i].assign] \/ points'[i].assign = c
  <2>1. SUFFICES ASSUME NEW i \in Num, i \notin S PROVE is_center'[points'[i].assign]
    <3>1. Num \subseteq Rows
      BY <1>2, NumInRows DEF TypeOK
    <3>2. QED
      BY <1>11, <3>1
  <2>2. i \in Rows /\ points'[i] = points[i] /\ points[i].assign \in Rows
    BY <1>2, <1>11, <2>1, NumInRows, CostToInt DEF TypeOK
  <2>3. is_center[points[i].assign] /\ center_tab[points[i].assign] \notin lower
    BY <1>3, <2>1 DEF Covered
  <2>4. QED
    BY <1>9, <2>2, <2>3
<1>13. ch'.task[w] = <<>>
  <2>1. PICK s \in Seq(Ranged), b \in Seq(Int) : s = ch.task[w] /\ b = ch.answer[w] /\ s # <<>>
    BY <1>1, <1>2 DEF TypeOK, ChannelsOK
  <2>2. Len(s) + Len(b) = 1
    BY <1>1, <1>2, <1>3, <2>1 DEF Holds, Outstanding, Underway
  <2>3. Len(s) = 1 /\ Tail(s) = <<>>
    <3>1. PICK x \in Nat, y \in Nat : x = Len(s) /\ y = Len(b) /\ x > 0
      BY <2>1
    <3>2. x = 1
      BY <2>2, <3>1
    <3>3. QED
      BY <3>1, <3>2, LastTask
  <2>4. QED
    BY <1>2, <2>1, <2>3
<1>14. Placed("gain", "commits")'
  BY <1>3, <1>4, <1>10, <1>12, <1>13 DEF Placed, Num
<1>15. SpeedySoFar("gain", "commits")'
  BY DEF SpeedySoFar
<1>16. is_center' \in [Rows -> BOOLEAN]
  BY <1>9
<1>17. QED
  BY <1>1, <1>11, <1>14, <1>15, <1>16, WorkerKeeps

LEMMA WorkStep == Clustering /\ Work => Clustering'
BY CostTo0Step, CenterTo0Step, CenterUpdateStep, CostSumupStep, CenterCountStep, SwitchCostCalcStep,
   LowerSumupStep, CommitSwitchStep DEF Work

-----------------------------------------------------------------------------
(* The steps of the chain.                                                 *)

\* What the kernels' labels are made of.
LEMMA SameData ==
  ASSUME DataOK, UNCHANGED <<nshards, stream, num, block, points, is_center, feasible, speedy, gain>>
  PROVE  DataOK'
BY DEF DataOK

LEMMA SamePlaced ==
  ASSUME Covered, UNCHANGED <<num, points, is_center>>
  PROVE  Covered'
BY DEF Covered, Num

LEMMA Resumed ==
  ASSUME NEW x \in Places, NEW l \in LabelsOf(x), ChannelsOK', DataOK', TokenAt(x, l)', Outstanding(x, l)',
         SpeedySoFar(x, l)', Trying(x)', Placed(x, l)'
  PROVE  Clustering'
BY DEF Clustering, TypeOK, Holds

\* The token goes from port to port.
LEMMA Quiet ==
  ASSUME Clustering, NEW p \in Ports, NEW q \in Ports, p # q, q # "from_pspeedy", NEW m \in Message(q),
         Has(p), ch' = Moved(p, q, m), pc' = PcAt(q, "idle"), DataOK', Trying(q)', Placed(q, "idle")'
  PROVE  Clustering'
<1>1. Holds(p, "idle") /\ ChannelsOK
  BY TokenInPort DEF Clustering, TypeOK
<1>2. TokenAt(q, "idle")' /\ ChannelsOK' /\ ch'.task = ch.task /\ ch'.answer = ch.answer
  BY <1>1, MovedToken DEF Holds
<1>3. AllIdle
  BY <1>1, NobodyCalled, PortLabels DEF Holds
<1>4. AllIdle'
  BY <1>2, <1>3 DEF AllIdle, Idle
<1>5. Outstanding(q, "idle")'
  BY <1>4, IdleOutstanding, PortLabels
<1>6. SpeedySoFar(q, "idle")'
  BY DEF SpeedySoFar, Ports
<1>7. QED
  BY <1>2, <1>5, <1>6, Resumed, PortLabels

\* Where the token is tells where the kernels are.
LEMMA PcInPort ==
  ASSUME Clustering, NEW p \in Ports, Has(p)
  PROVE  pc = PcAt(p, "idle") /\ ch.port[p] # <<>> /\ Head(ch.port[p]) \in Message(p) /\ TypeOK /\ Holds(p, "idle")
BY TokenInPort DEF Holds, TokenAt, Clustering

LEMMA SourceStep == Clustering /\ Source => Clustering'
<1> SUFFICES ASSUME Clustering, Source PROVE Clustering'
  OBVIOUS
<1>1. Holds("source", "idle") /\ TypeOK
  BY TokenAtSource DEF Source, Clustering
<1>2. AllIdle
  BY <1>1, NobodyCalled DEF Holds, Places, Callees
<1>3. ch = Channels(NoMessage, ch.task, ch.answer) /\ ch.task \in [Workers -> Seq(Ranged)] /\ ch.answer \in [Workers -> Seq(Int)]
  BY <1>1, NoPortHeld, ChannelsAre DEF Holds, TypeOK, Ports
<1>4. ch' = Channels(Only("from_source", 0), ch.task, ch.answer)
  BY <1>3, PutIs DEF Source, Ports
<1>5. pc' = PcAt("from_source", "idle")
  BY <1>1 DEF Holds, TokenAt, Source, Goto, PcAt, Kernels, Callers, Inside, InSearch, InSpeedy, InFL, InGain
<1>6. "from_source" \in Ports /\ 0 \in Message("from_source")
  BY DEF Ports, Message
<1>7. TokenAt("from_source", "idle")' /\ ChannelsOK' /\ ch'.task = ch.task /\ ch'.answer = ch.answer
  BY <1>3, <1>4, <1>5, <1>6, TokenPut
<1>8. Outstanding("from_source", "idle")'
  <2>1. AllIdle'
    BY <1>2, <1>7 DEF AllIdle, Idle
  <2>2. QED
    BY <1>6, <2>1, IdleOutstanding, PortLabels
<1>9. DataOK'
  BY <1>1, SameData DEF Source, TypeOK, master_vars, center_vars, loop_vars
<1>10. /\ SpeedySoFar("from_source", "idle")' /\ Trying("from_source")' /\ Placed("from_source", "idle")'
  BY DEF SpeedySoFar, Trying, Placed, InFL, InGain
<1>11. QED
  BY <1>6, <1>7, <1>8, <1>9, <1>10, Resumed, PortLabels

LEMMA SinkStep == Clustering /\ Sink => Clustering'
<1> SUFFICES ASSUME Clustering, Sink PROVE Clustering'
  OBVIOUS
<1>1. "to_sink" \in Ports /\ "sink" \in Places \ Ports /\ "idle" \in LabelsOf("sink") /\ "sink" \notin Callees
  BY DEF Ports, Places, Callees, LabelsOf
<1>2. Holds("to_sink", "idle") /\ TypeOK /\ pc = PcAt("to_sink", "idle")
  BY <1>1, PcInPort DEF Sink
<1>3. AllIdle
  BY <1>1, <1>2, NobodyCalled, PortLabels DEF Holds
<1>4. ch' = Channels(NoMessage, ch.task, ch.answer) /\ ch.task \in [Workers -> Seq(Ranged)] /\ ch.answer \in [Workers -> Seq(Int)]
  BY <1>1, <1>2, TakeIs, ChannelsAre DEF Holds, TypeOK, Sink
<1>5. pc' = PcAt("sink", "idle")
  BY <1>2 DEF Sink, Goto, PcAt, Kernels, Callers, Inside, InSearch, InSpeedy, InFL, InGain
<1>6. TokenAt("sink", "idle")' /\ ChannelsOK' /\ ch'.task = ch.task /\ ch'.answer = ch.answer
  BY <1>1, <1>4, <1>5, TokenWorks
<1>7. Outstanding("sink", "idle")'
  <2>1. AllIdle'
    BY <1>3, <1>6 DEF AllIdle, Idle
  <2>2. QED
    BY <1>1, <2>1, IdleOutstanding
<1>8. DataOK'
  BY <1>2, SameData DEF Sink, TypeOK, master_vars, center_vars, loop_vars
<1>9. /\ SpeedySoFar("sink", "idle")' /\ Trying("sink")' /\ Placed("sink", "idle")'
  BY DEF SpeedySoFar, Trying, Placed, InFL, InGain
<1>10. QED
  BY <1>1, <1>6, <1>7, <1>8, <1>9, Resumed

LEMMA ChunkTyped ==
  ASSUME DataOK, stream # <<>>
  PROVE  /\ Head(stream) \in Seq(Int) /\ Len(Head(stream)) \in 1 .. ChunkSize
         /\ Tail(stream) \in Seq(Seq(Int)) /\ \A i \in 1 .. Len(Tail(stream)) : Len(Tail(stream)[i]) \in 1 .. ChunkSize
<1>1. PICK s \in Seq(Seq(Int)) : s = stream /\ s # <<>> /\ \A i \in 1 .. Len(s) : Len(s[i]) \in 1 .. ChunkSize
  BY DEF DataOK
<1>2. /\ Head(s) \in Seq(Int) /\ Head(s) = s[1] /\ 1 \in 1 .. Len(s)
      /\ Tail(s) \in Seq(Seq(Int)) /\ Len(s) \in Nat /\ Len(Tail(s)) = Len(s) - 1
      /\ \A i \in 1 .. Len(s) - 1 : Tail(s)[i] = s[i + 1]
  BY <1>1
<1>3. \A i \in 1 .. Len(Tail(s)) : Len(Tail(s)[i]) \in 1 .. ChunkSize
  <2>1. TAKE i \in 1 .. Len(Tail(s))
  <2>2. i + 1 \in 1 .. Len(s) /\ i \in 1 .. Len(s) - 1
    BY <1>2
  <2>3. QED
    BY <1>1, <1>2, <2>2
<1>4. QED
  BY <1>1, <1>2, <1>3

LEMMA MasterReadsStep == Clustering /\ MasterReads => Clustering'
<1> SUFFICES ASSUME Clustering, MasterReads PROVE Clustering'
  OBVIOUS
<1> DEFINE p == IF waiting THEN "from_copycenters" ELSE "from_source"
<1>1. p \in Ports /\ "from_master" \in Ports /\ p # "from_master" /\ 0 \in Message("from_master") /\ Has(p)
  BY DEF Ports, Message, MasterReads
<1>2. pc = PcAt(p, "idle") /\ TypeOK
  BY <1>1, PcInPort
<1>3. pc' = PcAt("from_master", "idle")
  BY <1>2 DEF MasterReads, kernel_vars, PcAt, Kernels, Callers, Inside, InSearch, InSpeedy, InFL, InGain
<1>4. ch' = Moved(p, "from_master", 0)
  BY DEF MasterReads
<1>5. DataOK'
  <2>1. PICK c \in Seq(Int) : c = Head(stream) /\ Len(c) \in 1 .. ChunkSize
    BY <1>2, ChunkTyped DEF TypeOK, MasterReads
  <2>2. block' = [r \in Rows |-> IF r < Len(c) THEN c[r + 1] ELSE block[r]]
    BY <2>1 DEF MasterReads
  <2>3. ASSUME NEW r \in Rows PROVE block'[r] \in Int
    <3>1. r \in Nat
      BY StreamClusterAssumption DEF Rows
    <3>2. r < Len(c) => r + 1 \in 1 .. Len(c)
      BY <2>1, <3>1
    <3>3. block[r] \in Int
      BY <1>2 DEF TypeOK, DataOK
    <3>4. QED
      BY <2>1, <2>2, <3>2, <3>3
  <2>4. block' \in [Rows -> Int]
    BY <2>2, <2>3
  <2>5. num' \in 1 .. ChunkSize
    BY <2>1 DEF MasterReads
  <2>6. stream' \in Seq(Seq(Int)) /\ \A i \in 1 .. Len(stream') : Len(stream'[i]) \in 1 .. ChunkSize
    BY <1>2, ChunkTyped DEF TypeOK, MasterReads
  <2>7. UNCHANGED <<nshards, points, is_center, feasible, speedy, gain>>
    BY DEF MasterReads, center_vars, loop_vars, kernel_vars
  <2>8. QED
    BY <1>2, <2>4, <2>5, <2>6, <2>7 DEF TypeOK, DataOK
<1>6. Trying("from_master")' /\ Placed("from_master", "idle")'
  BY DEF Trying, Placed, InFL, InGain
<1> HIDE DEF p
<1>7. QED
  BY <1>1, <1>3, <1>4, <1>5, <1>6, Quiet

LEMMA MasterStopsStep == Clustering /\ MasterStops => Clustering'
<1> SUFFICES ASSUME Clustering, MasterStops PROVE Clustering'
  OBVIOUS
<1>1. /\ "from_copycenters" \in Ports /\ "to_sink" \in Ports /\ 0 \in Message("to_sink") /\ Has("from_copycenters")
      /\ ch' = Moved("from_copycenters", "to_sink", 0)
  BY DEF Ports, Message, MasterStops
<1>2. pc = PcAt("from_copycenters", "idle") /\ TypeOK
  BY <1>1, PcInPort
<1>3. pc' = PcAt("to_sink", "idle")
  BY <1>2 DEF MasterStops, kernel_vars, PcAt, Kernels, Callers, Inside, InSearch, InSpeedy, InFL, InGain
<1>4. DataOK'
  BY <1>2, SameData DEF TypeOK, MasterStops, center_vars, loop_vars, kernel_vars
<1>5. Trying("to_sink")' /\ Placed("to_sink", "idle")'
  BY DEF Trying, Placed, InFL, InGain
<1>6. QED
  BY <1>1, <1>3, <1>4, <1>5, Quiet

LEMMA SearchStartsStep == Clustering /\ SearchStarts => Clustering'
<1> SUFFICES ASSUME Clustering, SearchStarts PROVE Clustering'
  OBVIOUS
<1>1. /\ "from_master" \in Ports /\ "from_search" \in Ports /\ 0 \in Message("from_search") /\ Has("from_master")
      /\ ch' = Moved("from_master", "from_search", 0)
  BY DEF Ports, Message, SearchStarts
<1>2. pc = PcAt("from_master", "idle") /\ TypeOK
  BY <1>1, PcInPort
<1>3. pc' = PcAt("from_search", "idle")
  BY <1>2 DEF SearchStarts, Goto, PcAt, Kernels, Callers, Inside, InSearch, InSpeedy, InFL, InGain
<1>4. DataOK'
  BY <1>2, SameData DEF TypeOK, SearchStarts, master_vars, center_vars, loop_vars
<1>5. Trying("from_search")' /\ Placed("from_search", "idle")'
  BY DEF Trying, Placed, InFL, InGain
<1>6. QED
  BY <1>1, <1>3, <1>4, <1>5, Quiet

LEMMA SearchEndsStep == Clustering /\ SearchEnds => Clustering'
<1> SUFFICES ASSUME Clustering, SearchEnds PROVE Clustering'
  OBVIOUS
<1>1. /\ "from_pkmedian" \in Ports /\ "to_contcenters" \in Ports /\ 0 \in Message("to_contcenters")
      /\ Has("from_pkmedian") /\ ch' = Moved("from_pkmedian", "to_contcenters", 0)
  BY DEF Ports, Message, SearchEnds
<1>2. pc = PcAt("from_pkmedian", "idle") /\ TypeOK /\ Holds("from_pkmedian", "idle")
  BY <1>1, PcInPort
<1>3. pc' = PcAt("to_contcenters", "idle")
  BY <1>2 DEF SearchEnds, Goto, PcAt, Kernels, Callers, Inside, InSearch, InSpeedy, InFL, InGain
<1>4. DataOK'
  BY <1>2, SameData DEF TypeOK, SearchEnds, master_vars, center_vars, loop_vars
<1>5. Trying("to_contcenters")'
  BY DEF Trying, InFL, InGain
<1>6. Placed("to_contcenters", "idle")'
  <2>1. Covered
    BY <1>2 DEF Holds, Placed
  <2>2. Covered'
    BY <2>1, SamePlaced DEF SearchEnds, master_vars, center_vars
  <2>3. QED
    BY <2>2 DEF Placed
<1>7. QED
  BY <1>1, <1>3, <1>4, <1>5, <1>6, Quiet

LEMMA InitSendsStep == Clustering /\ InitSends => Clustering'
<1> SUFFICES ASSUME Clustering, InitSends PROVE Clustering'
  OBVIOUS
<1>1. /\ "from_search" \in Ports /\ Has("from_search") /\ "costTo0" \in Workers
      /\ Caller("costTo0") = "init" /\ Label("costTo0") = "sum"
      /\ ch' = Sent(Take(ch, "from_search"), "costTo0", Ranges(0))
  BY DEF Ports, InitSends, Workers, Caller, Label
<1>2. pc = PcAt("from_search", "idle") /\ TypeOK /\ Holds("from_search", "idle")
  BY <1>1, PcInPort
<1>3. pc' = PcAt("init", "sum")
  BY <1>2 DEF InitSends, Goto, PcAt, Kernels, Callers, Inside, InSearch, InSpeedy, InFL, InGain
<1>4. DataOK'
  BY <1>2, SameData DEF TypeOK, InitSends, master_vars, center_vars, loop_vars
<1>5. UNCHANGED <<nshards, num>>
  BY DEF InitSends, master_vars
<1>6. TasksSent("costTo0")' = Ranges(0)
  BY <1>1, <1>5 DEF TasksSent, Ranges, Part
<1>7. Ranges(0) \in Seq(Ranged) /\ Len(Ranges(0)) = nshards
  BY <1>2, TasksTyped DEF TypeOK
<1>8. TokenAt("init", "sum")' /\ ChannelsOK' /\ Outstanding("init", "sum")'
  BY <1>1, <1>2, <1>3, <1>5, <1>6, <1>7, CallsFromPort DEF TypeOK, Holds
<1>9. SpeedySoFar("init", "sum")' /\ Trying("init")' /\ Placed("init", "sum")'
  BY DEF SpeedySoFar, Trying, Placed, InFL, InGain
<1>10. "init" \in Places /\ "sum" \in LabelsOf("init")
  BY DEF Places, Callees, LabelsOf
<1>11. QED
  BY <1>4, <1>8, <1>9, <1>10, Resumed

LEMMA Shuffled ==
  ASSUME DataOK, Shuffle
  PROVE  points' \in [Rows -> Point]
<1>1. PICK f \in [Num -> Num] : points' = [i \in Rows |-> IF i \in Num THEN points[f[i]] ELSE points[i]]
  BY DEF Shuffle, Bijection, Injection, Surjection
<1>2. ASSUME NEW i \in Rows PROVE points'[i] \in Point
  BY <1>1, NumInRows DEF DataOK
<1>3. QED
  BY <1>1, <1>2

LEMMA InitShufflesStep == Clustering /\ InitShuffles => Clustering'
<1> SUFFICES ASSUME Clustering, InitShuffles PROVE Clustering'
  OBVIOUS
<1>1. /\ "from_init" \in Ports /\ 0 \in Message("from_init") /\ "costTo0" \in Workers
      /\ Caller("costTo0") = "init" /\ Label("costTo0") = "sum" /\ "init" \in Callees
      /\ pc["init"] = "sum" /\ AllBack("costTo0") /\ ch' = Put(Collected("costTo0"), "from_init", 0)
  BY DEF Ports, Message, InitShuffles, Workers, Caller, Label, Callees
<1>2. Holds("init", "sum") /\ TypeOK
  BY <1>1, TokenInKernel DEF Clustering
<1>3. pc' = PcAt("from_init", "idle")
  BY <1>2 DEF Holds, TokenAt, InitShuffles, Goto, PcAt, Kernels, Callers, Inside, InSearch, InSpeedy, InFL, InGain
<1>4. DataOK'
  BY <1>2, Shuffled DEF TypeOK, DataOK, InitShuffles, master_vars, center_vars, loop_vars
<1>5. TokenAt("from_init", "idle")' /\ ChannelsOK' /\ Outstanding("from_init", "idle")'
  BY <1>1, <1>2, <1>3, CollectsAndPuts DEF TypeOK, Holds
<1>6. SpeedySoFar("from_init", "idle")' /\ Trying("from_init")' /\ Placed("from_init", "idle")'
  BY DEF SpeedySoFar, Trying, Placed, InFL, InGain
<1>7. QED
  BY <1>1, <1>4, <1>5, <1>6, Resumed, PortLabels

LEMMA CopyCentersStep == Clustering /\ CopyCenters => Clustering'
<1> SUFFICES ASSUME Clustering, CopyCenters PROVE Clustering'
  OBVIOUS
<1>1. /\ "to_copycenters" \in Ports /\ "from_copycenters" \in Ports /\ 0 \in Message("from_copycenters")
      /\ Has("to_copycenters") /\ ch' = Moved("to_copycenters", "from_copycenters", 0)
  BY DEF Ports, Message, CopyCenters
<1>2. pc = PcAt("to_copycenters", "idle") /\ TypeOK
  BY <1>1, PcInPort
<1>3. pc' = PcAt("from_copycenters", "idle")
  BY <1>2 DEF CopyCenters, kernel_vars, PcAt, Kernels, Callers, Inside, InSearch, InSpeedy, InFL, InGain
<1>4. DataOK'
  BY <1>2, SameData DEF TypeOK, CopyCenters, master_vars, center_vars, loop_vars, kernel_vars
<1>5. Trying("from_copycenters")' /\ Placed("from_copycenters", "idle")'
  BY DEF Trying, Placed, InFL, InGain
<1>6. QED
  BY <1>1, <1>3, <1>4, <1>5, Quiet

-----------------------------------------------------------------------------
(* The weights the centers take.                                           *)

OwnWeight == [i \in Rows |-> points[i].weight]
Gathered(s, m) == s = [k \in 0 .. m |-> IF k = 0 THEN OwnWeight ELSE Gather(s[k - 1], k - 1)]

LEMMA GatheredExists ==
  ASSUME NEW n \in Nat
  PROVE  \E s : Gathered(s, n)
<1> DEFINE Bad == {m \in 0 .. n : ~\E s : Gathered(s, m)}
<1>1. SUFFICES ASSUME Bad # {} PROVE FALSE
  <2>1. n \in 0 .. n
    OBVIOUS
  <2>2. QED
    BY <2>1
<1>2. Bad \subseteq Nat /\ Bad \subseteq 0 .. n
  OBVIOUS
<1>3. PICK m \in Bad : \A y \in Bad : m <= y
  <2> HIDE DEF Bad
  <2>1. QED
    BY <1>1, <1>2, SmallestOf
<1>4. m # 0
  <2>1. Gathered([k \in 0 .. 0 |-> OwnWeight], 0)
    BY DEF Gathered
  <2>2. ~\E s : Gathered(s, m)
    BY <1>3
  <2>3. QED
    BY <2>1, <2>2
<1>5. m \in 1 .. n /\ m - 1 \in 0 .. n /\ m - 1 \notin Bad
  <2>1. m \in 1 .. n /\ m - 1 \in 0 .. n
    BY <1>2, <1>3, <1>4
  <2> HIDE DEF Bad
  <2>2. QED
    BY <1>3, <2>1
<1>6. PICK s : Gathered(s, m - 1)
  BY <1>5
<1> DEFINE t == [k \in 0 .. m |-> IF k = m THEN Gather(s[m - 1], m - 1) ELSE s[k]]
<1>7. Gathered(t, m)
  <2>1. t[0] = OwnWeight
    BY <1>5, <1>6 DEF Gathered
  <2>2. ASSUME NEW k \in 1 .. m PROVE t[k] = Gather(t[k - 1], k - 1)
    <3>1. k \in 0 .. m /\ k - 1 \in 0 .. m /\ k - 1 # m /\ (k # m => k \in 0 .. m - 1)
      BY <1>5
    <3>2. t[k - 1] = s[k - 1]
      BY <3>1
    <3>3. k # m => t[k] = s[k] /\ s[k] = Gather(s[k - 1], k - 1)
      BY <1>6, <3>1 DEF Gathered
    <3>4. k = m => t[k] = Gather(s[k - 1], k - 1)
      BY <3>1
    <3> HIDE DEF t
    <3>5. QED
      BY <3>2, <3>3, <3>4
  <2>3. t = [k \in 0 .. m |-> t[k]]
    OBVIOUS
  <2> HIDE DEF t
  <2>4. t = [k \in 0 .. m |-> IF k = 0 THEN OwnWeight ELSE Gather(t[k - 1], k - 1)]
    <3>1. ASSUME NEW k \in 0 .. m PROVE t[k] = IF k = 0 THEN OwnWeight ELSE Gather(t[k - 1], k - 1)
      <4>1. k # 0 => k \in 1 .. m
        BY <1>5
      <4>2. QED
        BY <2>1, <2>2, <4>1
    <3>2. QED
      BY ONLY <2>3, <3>1
  <2>5. QED
    BY <2>4 DEF Gathered
<1>8. m \in Bad /\ m \notin Bad
  BY <1>3, <1>7
<1>9. QED
  BY <1>8

LEMMA GatherTyped ==
  ASSUME DataOK, NEW weight \in [Rows -> Int], NEW i \in Rows
  PROVE  Gather(weight, i) \in [Rows -> Int]
<1>1. PICK c \in Rows : c = points[i].assign
  BY CostToInt
<1>2. PICK x \in Int : x = weight[c] + weight[i]
  BY <1>1
<1>3. Gather(weight, i) = [weight EXCEPT ![c] = x]
  BY <1>1, <1>2 DEF Gather
<1>4. QED
  BY <1>3

LEMMA WeightsTyped ==
  ASSUME DataOK
  PROVE  Weights \in [Rows -> Int]
<1>1. PICK n \in Nat : n = num
  BY NumInRows
<1>2. PICK s : Gathered(s, n)
  BY GatheredExists
<1> DEFINE w == CHOOSE g : g = [k \in 0 .. num |-> IF k = 0 THEN [i \in Rows |-> points[i].weight]
                                                  ELSE Gather(g[k - 1], k - 1)]
<1>3. w = [k \in 0 .. n |-> IF k = 0 THEN OwnWeight ELSE Gather(w[k - 1], k - 1)]
  BY <1>1, <1>2 DEF Gathered, OwnWeight
<1>4. Weights = w[n]
  BY <1>1 DEF Weights
<1> HIDE DEF w
<1> DEFINE Bad == {k \in 0 .. n : w[k] \notin [Rows -> Int]}
<1>5. SUFFICES ASSUME Bad # {} PROVE FALSE
  BY <1>4
<1>6. Bad \subseteq Nat /\ Bad \subseteq 0 .. n
  OBVIOUS
<1>7. PICK m \in Bad : \A y \in Bad : m <= y
  <2> HIDE DEF Bad
  <2>1. QED
    BY <1>5, <1>6, SmallestOf
<1>8. m # 0
  <2>1. OwnWeight \in [Rows -> Int]
    BY DEF OwnWeight, DataOK, Point
  <2>2. w[0] = OwnWeight
    BY <1>3
  <2>3. QED
    BY <1>7, <2>1, <2>2
<1>9. m \in 1 .. n /\ m - 1 \in 0 .. n /\ m - 1 \notin Bad
  <2>1. m \in 1 .. n /\ m - 1 \in 0 .. n
    BY <1>6, <1>7, <1>8
  <2> HIDE DEF Bad
  <2>2. QED
    BY <1>7, <2>1
<1>10. w[m - 1] \in [Rows -> Int]
  BY <1>9
<1>11. m - 1 \in Rows
  BY <1>1, <1>9, NumInRows DEF Num
<1>12. w[m] = Gather(w[m - 1], m - 1)
  BY <1>3, <1>9
<1>13. w[m] \in [Rows -> Int]
  BY <1>10, <1>11, <1>12, GatherTyped
<1>14. QED
  BY <1>7, <1>13

LEMMA ContCentersStep == Clustering /\ ContCenters => Clustering'
<1> SUFFICES ASSUME Clustering, ContCenters PROVE Clustering'
  OBVIOUS
<1>1. /\ "to_contcenters" \in Ports /\ "to_copycenters" \in Ports /\ 0 \in Message("to_copycenters")
      /\ Has("to_contcenters") /\ ch' = Moved("to_contcenters", "to_copycenters", 0)
  BY DEF Ports, Message, ContCenters
<1>2. pc = PcAt("to_contcenters", "idle") /\ TypeOK /\ Holds("to_contcenters", "idle")
  BY <1>1, PcInPort
<1>3. pc' = PcAt("to_copycenters", "idle")
  BY <1>2 DEF ContCenters, kernel_vars, PcAt, Kernels, Callers, Inside, InSearch, InSpeedy, InFL, InGain
<1>4. \A i \in Rows : points'[i] \in Point /\ points'[i].assign = points[i].assign
  <2>1. PICK weight \in [Rows -> Int] : weight = Weights
    BY <1>2, WeightsTyped DEF TypeOK
  <2>2. points' = [i \in Rows |-> [points[i] EXCEPT !.weight = weight[i]]]
    BY <2>1 DEF ContCenters
  <2>3. TAKE i \in Rows
  <2>4. PICK p \in Point : p = points[i]
    BY <1>2 DEF TypeOK, DataOK
  <2>5. points'[i] = [p EXCEPT !.weight = weight[i]]
    BY <2>2, <2>4
  <2>6. QED
    BY <2>4, <2>5 DEF Point
<1>5. points' \in [Rows -> Point]
  BY <1>4 DEF ContCenters
<1>6. block' \in [Rows -> Int]
  <2>1. PICK f \in [Moving -> Min(Coords) .. Max(Coords)] :
          block' = [r \in Rows |-> IF r \in Moving THEN f[r] ELSE block[r]]
    BY DEF ContCenters
  <2>2. QED
    BY <1>2, <2>1 DEF TypeOK, DataOK
<1>7. UNCHANGED <<nshards, stream, num, is_center, feasible, speedy, gain>>
  BY DEF ContCenters, center_vars, loop_vars, kernel_vars
<1>8. DataOK'
  BY <1>2, <1>5, <1>6, <1>7 DEF TypeOK, DataOK
<1>9. Covered'
  <2>1. Covered
    BY <1>2 DEF Holds, Placed
  <2>2. QED
    BY <1>2, <1>4, <1>7, <2>1, NumInRows DEF Covered, Num, TypeOK
<1>10. Trying("to_copycenters")' /\ Placed("to_copycenters", "idle")'
  BY <1>9 DEF Trying, Placed, InFL, InGain
<1>11. QED
  BY <1>1, <1>3, <1>8, <1>10, Quiet

LEMMA ChainStep == Clustering /\ Chain => Clustering'
BY SourceStep, SinkStep, MasterReadsStep, MasterStopsStep, SearchStartsStep, SearchEndsStep, InitSendsStep,
   InitShufflesStep, ContCentersStep, CopyCentersStep DEF Chain

-----------------------------------------------------------------------------
(* The steps of PSpeedy and its loop.                                      *)

LEMMA LoopStartsStep == Clustering /\ LoopStarts => Clustering'
<1> SUFFICES ASSUME Clustering, LoopStarts PROVE Clustering'
  OBVIOUS
<1>1. /\ "from_init" \in Ports /\ "to_pspeedy" \in Ports /\ 1 \in Message("to_pspeedy")
      /\ Has("from_init") /\ ch' = Moved("from_init", "to_pspeedy", 1)
  BY DEF Ports, Message, LoopStarts
<1>2. pc = PcAt("from_init", "idle") /\ TypeOK
  BY <1>1, PcInPort
<1>3. pc' = PcAt("to_pspeedy", "idle")
  BY <1>2 DEF LoopStarts, Goto, PcAt, Kernels, Callers, Inside, InSearch, InSpeedy, InFL, InGain
<1>4. DataOK'
  BY <1>2, SameData DEF TypeOK, LoopStarts, master_vars, center_vars
<1>5. Trying("to_pspeedy")' /\ Placed("to_pspeedy", "idle")'
  BY DEF Trying, Placed, InFL, InGain
<1>6. QED
  BY <1>1, <1>3, <1>4, <1>5, Quiet

LEMMA LoopRepeatsStep == Clustering /\ LoopRepeats => Clustering'
<1> SUFFICES ASSUME Clustering, LoopRepeats PROVE Clustering'
  OBVIOUS
<1>1. "from_pspeedy" \in Ports /\ "to_pspeedy" \in Ports /\ Has("from_pspeedy")
  BY DEF Ports, LoopRepeats
<1>2. pc = PcAt("from_pspeedy", "idle") /\ TypeOK /\ Head(ch.port["from_pspeedy"]) \in Message("from_pspeedy")
  BY <1>1, PcInPort
<1>3. PICK k \in Int : ch' = Moved("from_pspeedy", "to_pspeedy", k)
  BY <1>2 DEF LoopRepeats, Message
<1>4. k \in Message("to_pspeedy")
  BY DEF Message
<1>5. pc' = PcAt("to_pspeedy", "idle")
  BY <1>2 DEF LoopRepeats, kernel_vars, PcAt, Kernels, Callers, Inside, InSearch, InSpeedy, InFL, InGain
<1>6. DataOK'
  BY <1>2, Shuffled DEF TypeOK, DataOK, LoopRepeats, master_vars, center_vars, kernel_vars
<1>7. Trying("to_pspeedy")' /\ Placed("to_pspeedy", "idle")'
  BY DEF Trying, Placed, InFL, InGain
<1>8. QED
  BY <1>1, <1>3, <1>4, <1>5, <1>6, <1>7, Quiet

LEMMA LoopEndsStep == Clustering /\ LoopEnds => Clustering'
<1> SUFFICES ASSUME Clustering, LoopEnds PROVE Clustering'
  OBVIOUS
<1>1. "from_pspeedy" \in Ports /\ "from_speedyloop" \in Ports /\ Has("from_pspeedy")
  BY DEF Ports, LoopEnds
<1>2. pc = PcAt("from_pspeedy", "idle") /\ TypeOK /\ Head(ch.port["from_pspeedy"]) \in Message("from_pspeedy")
  BY <1>1, PcInPort
<1>3. PICK k \in Int : ch' = Moved("from_pspeedy", "from_speedyloop", k)
  BY <1>2 DEF LoopEnds, Message
<1>4. k \in Message("from_speedyloop")
  BY DEF Message
<1>5. pc' = PcAt("from_speedyloop", "idle")
  BY <1>2 DEF LoopEnds, Goto, PcAt, Kernels, Callers, Inside, InSearch, InSpeedy, InFL, InGain
<1>6. DataOK'
  BY <1>2, SameData DEF TypeOK, LoopEnds, master_vars, center_vars, loop_vars
<1>7. Trying("from_speedyloop")' /\ Placed("from_speedyloop", "idle")'
  BY DEF Trying, Placed, InFL, InGain
<1>8. QED
  BY <1>1, <1>3, <1>4, <1>5, <1>6, <1>7, Quiet

\* Right after the tasks are sent, every point is in one that is left.
LEMMA AllLeft ==
  ASSUME DataOK, UNCHANGED num, NEW w \in Workers, NEW arg, ch'.task[w] = Ranges(arg), Len(Ranges(arg)) = nshards
  PROVE  \A i \in Num : Left(w, i)'
<1>1. TAKE i \in Num
<1>2. PICK s \in 1 .. nshards : i \in In(Ranges(arg)[s])
  BY RangesCover
<1>3. s \in 1 .. Len(ch'.task[w]) /\ i \in In(ch'.task[w][s])
  BY <1>2
<1>4. QED
  BY <1>3 DEF Left

\* No task is left once all have answered.
LEMMA NoneLeft ==
  ASSUME ChannelsOK, DataOK, NEW w \in Workers, Outstanding(Caller(w), Label(w)), AllBack(w)
  PROVE  \A i : ~Left(w, i)
<1>1. ch.task[w] = <<>>
  BY AllHaveAnswered DEF DataOK
<1>2. 1 .. Len(<<>>) = {}
  OBVIOUS
<1>3. QED
  BY <1>1, <1>2 DEF Left

LEMMA SpeedyPlaces ==
  /\ "speedy" \in Places /\ "speedy" \in Callees /\ LabelsOf("speedy") = {"to0", "walk", "updates", "sum"}
  /\ {"centerTo0", "centerUpdate", "costSumup"} \subseteq Workers
  /\ \A w \in {"centerTo0", "centerUpdate", "costSumup"} : Caller(w) = "speedy"
  /\ Label("centerTo0") = "to0" /\ Label("centerUpdate") = "updates" /\ Label("costSumup") = "sum"
BY DEF Places, Callees, LabelsOf, Workers, Caller, Label

LEMMA SpeedyQuiet == Trying("speedy")' /\ \A l : Placed("speedy", l)'
BY DEF Trying, Placed, InFL, InGain

LEMMA SpeedyStartsStep == Clustering /\ SpeedyStarts => Clustering'
<1> SUFFICES ASSUME Clustering, SpeedyStarts PROVE Clustering'
  OBVIOUS
<1> DEFINE w == "centerTo0"
<1>1. /\ "to_pspeedy" \in Ports /\ Has("to_pspeedy") /\ w \in Workers /\ Caller(w) = "speedy" /\ Label(w) = "to0"
      /\ ch' = Sent(Take(ch, "to_pspeedy"), w, Ranges(0))
  BY SpeedyPlaces DEF Ports, SpeedyStarts
<1>2. /\ pc = PcAt("to_pspeedy", "idle") /\ TypeOK /\ Holds("to_pspeedy", "idle")
      /\ Head(ch.port["to_pspeedy"]) \in Message("to_pspeedy")
  BY <1>1, PcInPort
<1>3. PICK k \in Int : speedy' = [k |-> k, i |-> 1]
  BY <1>2 DEF SpeedyStarts, Message
<1>4. pc' = PcAt("speedy", "to0")
  BY <1>2 DEF SpeedyStarts, Goto, PcAt, Kernels, Callers, Inside, InSearch, InSpeedy, InFL, InGain
<1>5. UNCHANGED <<nshards, stream, num, block, points, is_center, feasible, gain>>
  BY DEF SpeedyStarts, master_vars, center_vars, loop_vars
<1>6. DataOK'
  BY <1>2, <1>3, <1>5 DEF TypeOK, DataOK
<1>7. TasksSent(w)' = Ranges(0)
  BY <1>1, <1>5 DEF TasksSent, Ranges, Part
<1>8. Ranges(0) \in Seq(Ranged) /\ Len(Ranges(0)) = nshards
  BY <1>2, TasksTyped DEF TypeOK
<1>9. TokenAt("speedy", "to0")' /\ ChannelsOK' /\ Outstanding("speedy", "to0")' /\ ch'.task[w] = Ranges(0)
  BY <1>1, <1>2, <1>4, <1>5, <1>7, <1>8, CallsFromPort DEF TypeOK, Holds
<1>10. AllAt0'
  <2>1. \A i \in Num : Left(w, i)'
    BY <1>1, <1>2, <1>5, <1>8, <1>9, AllLeft DEF TypeOK
  <2>2. QED
    BY <1>5, <2>1 DEF AllAt0, Num
<1>11. SpeedySoFar("speedy", "to0")'
  <2>1. speedy'.i \in 1 .. num'
    BY <1>2, <1>3, <1>5 DEF TypeOK, DataOK
  <2>2. QED
    BY <1>10, <2>1 DEF SpeedySoFar
<1>12. QED
  BY <1>6, <1>9, <1>11, SpeedyPlaces, SpeedyQuiet, Resumed

LEMMA SpeedyAt0Step == Clustering /\ SpeedyAt0 => Clustering'
<1> SUFFICES ASSUME Clustering, SpeedyAt0 PROVE Clustering'
  OBVIOUS
<1> DEFINE w == "centerTo0"
<1>1. w \in Workers /\ Caller(w) = "speedy" /\ Label(w) = "to0" /\ AllBack(w) /\ ch' = Collected(w) /\ pc["speedy"] = "to0"
  BY SpeedyPlaces DEF SpeedyAt0
<1>2. TypeOK /\ Holds("speedy", "to0")
  BY <1>1, TokenInKernel, SpeedyPlaces DEF Clustering
<1>3. pc' = PcAt("speedy", "walk")
  BY <1>2 DEF Holds, TokenAt, SpeedyAt0, Goto, PcAt, Kernels, Callers
<1>4. UNCHANGED <<nshards, stream, num, block, points, is_center, feasible, speedy, gain>>
  BY DEF SpeedyAt0, master_vars, center_vars, loop_vars
<1>5. DataOK'
  BY <1>2, <1>4, SameData DEF TypeOK
<1>6. TokenAt("speedy", "walk")' /\ ChannelsOK' /\ Outstanding("speedy", "walk")'
  BY <1>1, <1>2, <1>3, CollectsAnswers, SpeedyPlaces DEF TypeOK, Holds
<1>7. Nearest
  <2>1. \A i \in Num : points[i].assign = 0 /\ AtCost(i)
    BY <1>1, <1>2, NoneLeft DEF Holds, TypeOK, SpeedySoFar, AllAt0
  <2>2. \A i \in Num : points[i].cost \in Int
    BY <1>2, CostToInt, NumInRows DEF TypeOK
  <2>3. QED
    BY <2>1, <2>2 DEF Nearest, AtCost, Nearer
<1>8. SpeedySoFar("speedy", "walk")'
  <2>1. Nearest'
    BY <1>4, <1>7 DEF Nearest, AtCost, Nearer, CostTo, At, Num
  <2>2. QED
    BY <1>2, <1>4, <2>1 DEF Holds, SpeedySoFar
<1>9. QED
  BY <1>5, <1>6, <1>8, SpeedyPlaces, SpeedyQuiet, Resumed

LEMMA SpeedyOpensStep == Clustering /\ SpeedyOpens => Clustering'
<1> SUFFICES ASSUME Clustering, SpeedyOpens PROVE Clustering'
  OBVIOUS
<1> DEFINE w == "centerUpdate"
<1>0. PICK c : c = speedy.i
  OBVIOUS
<1>1. /\ w \in Workers /\ Caller(w) = "speedy" /\ Label(w) = "updates" /\ ch' = Sent(ch, w, Ranges(c))
      /\ pc["speedy"] = "walk" /\ c < num
  BY <1>0, SpeedyPlaces DEF SpeedyOpens
<1>2. TypeOK /\ Holds("speedy", "walk")
  BY <1>1, TokenInKernel, SpeedyPlaces DEF Clustering
<1>3. pc' = PcAt("speedy", "updates")
  BY <1>2 DEF Holds, TokenAt, SpeedyOpens, Goto, PcAt, Kernels, Callers
<1>4. UNCHANGED <<nshards, stream, num, block, points, is_center, feasible, gain>>
  BY DEF SpeedyOpens, master_vars, center_vars, loop_vars
<1>5. speedy' \in [k : Int, i : Int] /\ speedy'.i = c
  <2>1. PICK s \in [k : Int, i : Int] : s = speedy
    BY <1>2 DEF TypeOK, DataOK
  <2>2. speedy' = [s EXCEPT !.k = s.k + 1]
    BY <2>1 DEF SpeedyOpens
  <2>3. QED
    BY <1>0, <2>1, <2>2
<1>6. DataOK'
  BY <1>2, <1>4, <1>5 DEF TypeOK, DataOK
<1>7. c \in Int /\ c \in 1 .. num /\ Nearest
  BY <1>0, <1>2 DEF Holds, SpeedySoFar
<1>8. TasksSent(w)' = Ranges(c)
  BY <1>1, <1>4, <1>5 DEF TasksSent, Ranges, Part
<1>9. Ranges(c) \in Seq(Ranged) /\ Len(Ranges(c)) = nshards
  BY <1>2, <1>7, TasksTyped DEF TypeOK
<1>10. TokenAt("speedy", "updates")' /\ ChannelsOK' /\ Outstanding("speedy", "updates")' /\ ch'.task[w] = Ranges(c)
  BY <1>1, <1>2, <1>3, <1>4, <1>8, <1>9, CallsFromKernel DEF TypeOK, Holds
<1>11. Updating'
  <2>1. \A i \in Num : Left(w, i)'
    BY <1>1, <1>2, <1>4, <1>9, <1>10, AllLeft DEF TypeOK
  <2>2. Nearest'
    BY <1>4, <1>7 DEF Nearest, AtCost, Nearer, CostTo, At, Num
  <2>3. Num' = Num
    BY <1>4 DEF Num
  <2>4. QED
    BY <2>1, <2>2, <2>3 DEF Updating, Nearest
<1>12. SpeedySoFar("speedy", "updates")'
  BY <1>1, <1>4, <1>5, <1>7, <1>11 DEF SpeedySoFar
<1>13. QED
  BY <1>6, <1>10, <1>12, SpeedyPlaces, SpeedyQuiet, Resumed

LEMMA SpeedySkipsStep == Clustering /\ SpeedySkips => Clustering'
<1> SUFFICES ASSUME Clustering, SpeedySkips PROVE Clustering'
  OBVIOUS
<1>1. pc["speedy"] = "walk" /\ speedy.i < num
  BY DEF SpeedySkips
<1>2. TypeOK /\ Holds("speedy", "walk")
  BY <1>1, TokenInKernel, SpeedyPlaces DEF Clustering
<1>3. UNCHANGED <<nshards, stream, num, block, points, is_center, feasible, gain, pc, ch>>
  BY DEF SpeedySkips, master_vars, center_vars, loop_vars
<1>4. speedy' \in [k : Int, i : Int] /\ speedy'.i = speedy.i + 1
  <2>1. PICK s \in [k : Int, i : Int] : s = speedy
    BY <1>2 DEF TypeOK, DataOK
  <2>2. speedy' = [s EXCEPT !.i = s.i + 1]
    BY <2>1 DEF SpeedySkips
  <2>3. QED
    BY <2>1, <2>2
<1>5. DataOK'
  BY <1>2, <1>3, <1>4 DEF TypeOK, DataOK
<1>6. ChannelsOK' /\ TokenAt("speedy", "walk")'
  BY <1>2, <1>3 DEF Holds, TypeOK, ChannelsOK, TokenAt
<1>7. Outstanding("speedy", "walk")'
  <2>1. AllIdle'
    BY <1>2, <1>3, NobodyCalled, SpeedyPlaces DEF Holds, AllIdle, Idle
  <2>2. QED
    BY <2>1, IdleOutstanding, SpeedyPlaces
<1>8. SpeedySoFar("speedy", "walk")'
  <2>1. speedy.i \in 1 .. num /\ Nearest
    BY <1>2 DEF Holds, SpeedySoFar
  <2>2. Nearest'
    BY <1>3, <2>1 DEF Nearest, AtCost, Nearer, CostTo, At, Num
  <2>3. num \in Int
    BY <1>2, NumInRows DEF TypeOK
  <2>4. QED
    BY <1>1, <1>3, <1>4, <2>1, <2>2, <2>3 DEF SpeedySoFar
<1>9. QED
  BY <1>5, <1>6, <1>7, <1>8, SpeedyPlaces, SpeedyQuiet, Resumed

LEMMA SpeedyUpdatedStep == Clustering /\ SpeedyUpdated => Clustering'
<1> SUFFICES ASSUME Clustering, SpeedyUpdated PROVE Clustering'
  OBVIOUS
<1> DEFINE w == "centerUpdate"
<1>1. /\ w \in Workers /\ Caller(w) = "speedy" /\ Label(w) = "updates" /\ AllBack(w) /\ ch' = Collected(w)
      /\ pc["speedy"] = "updates"
  BY SpeedyPlaces DEF SpeedyUpdated
<1>2. TypeOK /\ Holds("speedy", "updates")
  BY <1>1, TokenInKernel, SpeedyPlaces DEF Clustering
<1>3. pc' = PcAt("speedy", "walk")
  BY <1>2 DEF Holds, TokenAt, SpeedyUpdated, Goto, PcAt, Kernels, Callers
<1>4. UNCHANGED <<nshards, stream, num, block, points, is_center, feasible, gain>>
  BY DEF SpeedyUpdated, master_vars, center_vars, loop_vars
<1>5. speedy' \in [k : Int, i : Int] /\ speedy'.i = speedy.i + 1
  <2>1. PICK s \in [k : Int, i : Int] : s = speedy
    BY <1>2 DEF TypeOK, DataOK
  <2>2. speedy' = [s EXCEPT !.i = s.i + 1]
    BY <2>1 DEF SpeedyUpdated
  <2>3. QED
    BY <2>1, <2>2
<1>6. DataOK'
  BY <1>2, <1>4, <1>5 DEF TypeOK, DataOK
<1>7. TokenAt("speedy", "walk")' /\ ChannelsOK' /\ Outstanding("speedy", "walk")'
  BY <1>1, <1>2, <1>3, CollectsAnswers, SpeedyPlaces DEF TypeOK, Holds
<1>8. speedy.i \in 1 .. num /\ speedy.i < num /\ Updating
  BY <1>2 DEF Holds, SpeedySoFar
<1>9. Nearest
  <2>1. \A i : ~Left(w, i)
    BY <1>1, <1>2, NoneLeft DEF Holds, TypeOK
  <2>2. QED
    BY <1>8, <2>1 DEF Nearest, Updating
<1>10. SpeedySoFar("speedy", "walk")'
  <2>1. Nearest'
    BY <1>4, <1>9 DEF Nearest, AtCost, Nearer, CostTo, At, Num
  <2>2. num \in Int
    BY <1>2, NumInRows DEF TypeOK
  <2>3. QED
    BY <1>4, <1>5, <1>8, <2>1, <2>2 DEF SpeedySoFar
<1>11. QED
  BY <1>6, <1>7, <1>10, SpeedyPlaces, SpeedyQuiet, Resumed

LEMMA SpeedySumsStep == Clustering /\ SpeedySums => Clustering'
<1> SUFFICES ASSUME Clustering, SpeedySums PROVE Clustering'
  OBVIOUS
<1> DEFINE w == "costSumup"
<1>1. /\ w \in Workers /\ Caller(w) = "speedy" /\ Label(w) = "sum" /\ ch' = Sent(ch, w, Ranges(0))
      /\ pc["speedy"] = "walk"
  BY SpeedyPlaces DEF SpeedySums
<1>2. TypeOK /\ Holds("speedy", "walk")
  BY <1>1, TokenInKernel, SpeedyPlaces DEF Clustering
<1>3. pc' = PcAt("speedy", "sum")
  BY <1>2 DEF Holds, TokenAt, SpeedySums, Goto, PcAt, Kernels, Callers
<1>4. UNCHANGED <<nshards, stream, num, block, points, is_center, feasible, speedy, gain>>
  BY DEF SpeedySums, master_vars, center_vars, loop_vars
<1>5. DataOK'
  BY <1>2, <1>4, SameData DEF TypeOK
<1>6. TasksSent(w)' = Ranges(0)
  BY <1>1, <1>4 DEF TasksSent, Ranges, Part
<1>7. Ranges(0) \in Seq(Ranged) /\ Len(Ranges(0)) = nshards
  BY <1>2, TasksTyped DEF TypeOK
<1>8. TokenAt("speedy", "sum")' /\ ChannelsOK' /\ Outstanding("speedy", "sum")' /\ ch'.answer[w] = <<>>
  BY <1>1, <1>2, <1>3, <1>4, <1>6, <1>7, CallsFromKernel DEF TypeOK, Holds
<1>9. SpeedySoFar("speedy", "sum")'
  <2>1. speedy.i \in 1 .. num /\ Nearest
    BY <1>2 DEF Holds, SpeedySoFar
  <2>2. Nearest'
    BY <1>4, <2>1 DEF Nearest, AtCost, Nearer, CostTo, At, Num
  <2>3. SumsSent'
    <3>1. 1 .. Len(<<>>) = {}
      OBVIOUS
    <3>2. QED
      BY <1>8, <3>1 DEF SumsSent
  <2>4. QED
    BY <1>4, <2>1, <2>2, <2>3 DEF SpeedySoFar
<1>10. QED
  BY <1>5, <1>8, <1>9, SpeedyPlaces, SpeedyQuiet, Resumed

\* What is reported is the sum of all costs.
LEMMA SpeedyEndsStep == Clustering /\ SpeedyEnds => Clustering'
<1> SUFFICES ASSUME Clustering, SpeedyEnds PROVE Clustering'
  OBVIOUS
<1> DEFINE w == "costSumup"
<1>1. w \in Workers /\ Caller(w) = "speedy" /\ Label(w) = "sum" /\ AllBack(w) /\ pc["speedy"] = "sum"
  BY SpeedyPlaces DEF SpeedyEnds
<1>2. TypeOK /\ Holds("speedy", "sum")
  BY <1>1, TokenInKernel, SpeedyPlaces DEF Clustering
<1>3. pc' = PcAt("from_pspeedy", "idle")
  BY <1>2 DEF Holds, TokenAt, SpeedyEnds, Goto, PcAt, Kernels, Callers, Inside, InSearch, InSpeedy, InFL, InGain
<1>4. UNCHANGED <<nshards, stream, num, block, points, is_center, feasible, gain>>
  BY DEF SpeedyEnds, master_vars, center_vars, loop_vars
<1>5. DataOK'
  BY <1>2, <1>4 DEF TypeOK, DataOK, SpeedyEnds
<1>6. Total(ch.answer[w]) = TotalCost
  <2>1. PICK b \in Seq(Int) : b = ch.answer[w]
    BY <1>1, <1>2 DEF TypeOK, ChannelsOK
  <2>2. Len(b) = nshards
    BY <1>1, <2>1 DEF AllBack
  <2>3. \A s \in 1 .. nshards : b[s] = CostOf(Ranges(0)[s].k1, Ranges(0)[s].k2)
    BY <1>2, <2>1, <2>2 DEF Holds, SpeedySoFar, SumsSent
  <2>4. QED
    BY <1>2, <2>1, <2>2, <2>3, TotalIsCost DEF TypeOK
<1>7. PICK total \in Int : total = TotalCost
  <2>1. 0 \in 0 .. num /\ num \in 0 .. num /\ 0 <= num
    BY <1>2, NumInRows DEF TypeOK
  <2>2. PICK x \in Int, y \in Int : CostOf(0, num) = y - x
    BY <1>2, <2>1, CostOfRange DEF TypeOK
  <2>3. QED
    BY <2>2 DEF TotalCost
<1>8. PICK k \in Int : k = speedy.k
  BY <1>2 DEF TypeOK, DataOK
<1>9. PICK m : m = [k |-> k, cost |-> total]
  OBVIOUS
<1>10. m \in Message("from_pspeedy") /\ "from_pspeedy" \in Ports /\ m.cost = total
  BY <1>9 DEF Message, Ports
<1>11. ch' = Put(Collected(w), "from_pspeedy", m)
  BY <1>6, <1>7, <1>8, <1>9 DEF SpeedyEnds
<1>12. /\ TokenAt("from_pspeedy", "idle")' /\ ChannelsOK' /\ Outstanding("from_pspeedy", "idle")'
       /\ Head(ch'.port["from_pspeedy"]) = m
  BY <1>1, <1>2, <1>3, <1>10, <1>11, CollectsAndPuts DEF TypeOK, Holds
<1>13. SpeedySoFar("from_pspeedy", "idle")'
  <2>1. Nearest
    BY <1>2 DEF Holds, SpeedySoFar
  <2>2. Nearest'
    BY <1>4, <2>1 DEF Nearest, AtCost, Nearer, CostTo, At, Num
  <2>3. TotalCost' = TotalCost
    BY <1>4 DEF TotalCost, CostOf
  <2>4. QED
    BY <1>7, <1>10, <1>12, <2>2, <2>3 DEF SpeedySoFar
<1>14. Trying("from_pspeedy")' /\ Placed("from_pspeedy", "idle")'
  BY DEF Trying, Placed, InFL, InGain
<1>15. QED
  BY <1>5, <1>10, <1>12, <1>13, <1>14, Resumed, PortLabels

LEMMA SpeedyStep == Clustering /\ Speedy => Clustering'
BY LoopStartsStep, LoopRepeatsStep, LoopEndsStep, SpeedyStartsStep, SpeedyAt0Step, SpeedyOpensStep,
   SpeedySkipsStep, SpeedyUpdatedStep, SpeedySumsStep, SpeedyEndsStep DEF Speedy

-----------------------------------------------------------------------------
(* The steps of facility location.                                         *)

LEMMA CandidateRight ==
  ASSUME DataOK, Len(feasible) > 0, NEW tried \in Seq(1 .. Len(feasible)), NEW j \in Candidates(tried)
  PROVE  j \in 1 .. Len(feasible) /\ feasible[j] \in Rows
<1>1. PICK s \in Seq(Rows) : s = feasible
  BY DEF DataOK
<1>2. PICK n \in Nat : n = Len(s) /\ n > 0
  BY <1>1
<1>3. j \in 1 .. n
  <2>1. CASE Len(tried) < n
    <3>1. j \in DOMAIN s
      BY <1>1, <1>2, <2>1 DEF Candidates
    <3>2. QED
      BY <1>1, <1>2, <3>1
  <2>2. CASE ~(Len(tried) < n)
    <3>1. PICK t \in Seq(1 .. n) : t = tried
      BY <1>1, <1>2
    <3>2. PICK m \in Nat : m = Len(t) /\ m >= n
      BY <2>2, <3>1
    <3>3. PICK q \in 0 .. n - 1 : q = m % n
      <4>1. n > 0
        BY <1>2
      <4>2. QED
        BY ONLY <4>1, m \in Nat, n \in Nat
    <3>4. PICK r \in 1 .. n : r = (m % n) + 1
      <4>1. q + 1 \in 1 .. n
        BY <1>2
      <4>2. QED
        BY <3>3, <4>1
    <3>5. j = t[r]
      BY <1>1, <1>2, <2>2, <3>1, <3>2, <3>4 DEF Candidates
    <3>6. r \in 1 .. m
      BY <1>2, <3>2
    <3>7. QED
      BY <3>1, <3>2, <3>5, <3>6
  <2>3. QED
    BY <2>1, <2>2
<1>4. QED
  BY <1>1, <1>2, <1>3

LEMMA TriesRight ==
  ASSUME DataOK, Len(feasible) > 0, NEW tried \in Seq(1 .. Len(feasible)), NEW changed, NEW port, NEW k \in Int,
         Tries(tried, changed, port, k)
  PROVE  /\ fl'.tried \in Seq(1 .. Len(feasible)) /\ Len(fl'.tried) > 0
         /\ \E m \in Message("to_pgain") : ch' = Moved(port, "to_pgain", m)
<1>1. PICK j \in Candidates(tried) : /\ fl' = [tried |-> Append(tried, j), changed |-> changed]
                                     /\ ch' = Moved(port, "to_pgain", [k |-> k, idx |-> feasible[j]])
  BY DEF Tries
<1>2. j \in 1 .. Len(feasible) /\ feasible[j] \in Rows
  BY CandidateRight
<1>3. fl'.tried = Append(tried, j)
  BY <1>1
<1>4. Append(tried, j) \in Seq(1 .. Len(feasible)) /\ Len(Append(tried, j)) > 0
  BY <1>2
<1>5. [k |-> k, idx |-> feasible[j]] \in Message("to_pgain")
  BY <1>2 DEF Message
<1>6. QED
  BY <1>1, <1>3, <1>4, <1>5

LEMMA SelectFeasibleStep == Clustering /\ SelectFeasible => Clustering'
<1> SUFFICES ASSUME Clustering, SelectFeasible PROVE Clustering'
  OBVIOUS
<1>1. "from_speedyloop" \in Ports /\ "from_selectfeasible" \in Ports /\ Has("from_speedyloop")
  BY DEF Ports, SelectFeasible
<1>2. /\ pc = PcAt("from_speedyloop", "idle") /\ TypeOK
      /\ Head(ch.port["from_speedyloop"]) \in Message("from_speedyloop")
  BY <1>1, PcInPort
<1>3. PICK k \in Message("from_selectfeasible") : ch' = Moved("from_speedyloop", "from_selectfeasible", k)
  BY <1>2 DEF SelectFeasible, Message
<1>4. pc' = PcAt("from_selectfeasible", "idle")
  BY <1>2 DEF SelectFeasible, kernel_vars, PcAt, Kernels, Callers, Inside, InSearch, InSpeedy, InFL, InGain
<1>5. feasible' \in Seq(Rows) /\ Len(feasible') > 0
  <2>1. PICK n \in Nat : n = num /\ n > 0
    BY <1>2 DEF TypeOK, DataOK
  <2>2. Num \subseteq Rows /\ Num = 0 .. n - 1
    BY <1>2, <2>1, NumInRows DEF TypeOK, Num
  <2>3. CASE MaxFeasible >= num
    <3>1. feasible' = [j \in 1 .. n |-> j - 1]
      BY <2>1, <2>3 DEF SelectFeasible
    <3>2. \A j \in 1 .. n : j - 1 \in Rows
      BY <2>1, <2>2
    <3>3. QED
      BY <2>1, <3>1, <3>2
  <2>4. CASE ~(MaxFeasible >= num)
    <3>1. PICK f \in [1 .. MaxFeasible -> Num] : feasible' = f
      BY <2>4 DEF SelectFeasible
    <3>2. PICK m \in Nat : m = MaxFeasible /\ m > 0
      BY StreamClusterAssumption
    <3>3. QED
      BY <2>2, <3>1, <3>2
  <2>5. QED
    BY <2>3, <2>4
<1>6. UNCHANGED <<nshards, stream, num, block, points, is_center, speedy, gain>>
  BY DEF SelectFeasible, master_vars, center_vars, kernel_vars
<1>7. DataOK'
  BY <1>2, <1>5, <1>6 DEF TypeOK, DataOK
<1>8. Trying("from_selectfeasible")' /\ Placed("from_selectfeasible", "idle")'
  BY <1>5 DEF Trying, Placed, InFL, InGain
<1>9. QED
  BY <1>1, <1>3, <1>4, <1>7, <1>8, Quiet

LEMMA FLLoopStartsStep == Clustering /\ FLLoopStarts => Clustering'
<1> SUFFICES ASSUME Clustering, FLLoopStarts PROVE Clustering'
  OBVIOUS
<1>1. "from_selectfeasible" \in Ports /\ "to_pFL" \in Ports /\ Has("from_selectfeasible")
  BY DEF Ports, FLLoopStarts
<1>2. /\ pc = PcAt("from_selectfeasible", "idle") /\ TypeOK /\ Holds("from_selectfeasible", "idle")
      /\ Head(ch.port["from_selectfeasible"]) \in Message("from_selectfeasible")
  BY <1>1, PcInPort
<1>3. PICK k \in Message("to_pFL") : ch' = Moved("from_selectfeasible", "to_pFL", k)
  BY <1>2 DEF FLLoopStarts, Message
<1>4. pc' = PcAt("to_pFL", "idle")
  BY <1>2 DEF FLLoopStarts, Goto, PcAt, Kernels, Callers, Inside, InSearch, InSpeedy, InFL, InGain
<1>5. UNCHANGED <<nshards, stream, num, block, points, feasible, speedy, gain>>
  BY DEF FLLoopStarts, master_vars
<1>6. is_center' = [i \in Rows |-> (i >= num /\ is_center[i]) \/ \E j \in Num : points[j].assign = i]
  BY DEF FLLoopStarts
<1>7. is_center' \in [Rows -> BOOLEAN]
  BY <1>2, <1>6 DEF TypeOK, DataOK
<1>8. DataOK'
  BY <1>2, <1>5, <1>7 DEF TypeOK, DataOK
<1>9. Covered'
  <2>1. ASSUME NEW i \in Num PROVE is_center'[points[i].assign]
    <3>1. points[i].assign \in Rows
      BY <1>2, NumInRows, CostToInt DEF TypeOK
    <3>2. QED
      BY <1>6, <3>1
  <2>2. QED
    BY <1>5, <2>1 DEF Covered, Num
<1>10. Trying("to_pFL")'
  BY <1>2, <1>5 DEF Holds, Trying, InGain, InFL
<1>11. Placed("to_pFL", "idle")'
  BY <1>9 DEF Placed
<1>12. QED
  BY <1>1, <1>3, <1>4, <1>8, <1>10, <1>11, Quiet

LEMMA FLLoopRepeatsStep == Clustering /\ FLLoopRepeats => Clustering'
<1> SUFFICES ASSUME Clustering, FLLoopRepeats PROVE Clustering'
  OBVIOUS
<1>1. "from_pFL" \in Ports /\ "to_pFL" \in Ports /\ Has("from_pFL")
  BY DEF Ports, FLLoopRepeats
<1>2. /\ pc = PcAt("from_pFL", "idle") /\ TypeOK /\ Holds("from_pFL", "idle")
      /\ Head(ch.port["from_pFL"]) \in Message("from_pFL")
  BY <1>1, PcInPort
<1>3. PICK k \in Message("to_pFL") : ch' = Moved("from_pFL", "to_pFL", k)
  BY <1>2 DEF FLLoopRepeats, Message
<1>4. pc' = PcAt("to_pFL", "idle")
  BY <1>2 DEF FLLoopRepeats, kernel_vars, PcAt, Kernels, Callers, Inside, InSearch, InSpeedy, InFL, InGain
<1>5. UNCHANGED <<nshards, stream, num, block, points, is_center, feasible, speedy, gain>>
  BY DEF FLLoopRepeats, master_vars, center_vars, loop_vars, kernel_vars
<1>6. DataOK'
  BY <1>2, <1>5, SameData DEF TypeOK
<1>7. Trying("to_pFL")'
  BY <1>2, <1>5 DEF Holds, Trying, InGain, InFL
<1>8. Covered
  BY <1>2 DEF Holds, Placed, InFL
<1>9. Placed("to_pFL", "idle")'
  BY <1>5, <1>8, SamePlaced DEF Placed
<1>10. QED
  BY <1>1, <1>3, <1>4, <1>6, <1>7, <1>9, Quiet

LEMMA FLLoopEndsStep == Clustering /\ FLLoopEnds => Clustering'
<1> SUFFICES ASSUME Clustering, FLLoopEnds PROVE Clustering'
  OBVIOUS
<1>1. /\ "from_pFL" \in Ports /\ "from_pkmedian" \in Ports /\ 0 \in Message("from_pkmedian") /\ Has("from_pFL")
      /\ ch' = Moved("from_pFL", "from_pkmedian", 0)
  BY DEF Ports, Message, FLLoopEnds
<1>2. pc = PcAt("from_pFL", "idle") /\ TypeOK /\ Holds("from_pFL", "idle")
  BY <1>1, PcInPort
<1>3. pc' = PcAt("from_pkmedian", "idle")
  BY <1>2 DEF FLLoopEnds, Goto, PcAt, Kernels, Callers, Inside, InSearch, InSpeedy, InFL, InGain
<1>4. UNCHANGED <<nshards, stream, num, block, points, is_center, feasible, speedy, gain>>
  BY DEF FLLoopEnds, master_vars, center_vars
<1>5. DataOK'
  BY <1>2, <1>4, SameData DEF TypeOK
<1>6. Trying("from_pkmedian")'
  BY DEF Trying, InGain, InFL
<1>7. Covered
  BY <1>2 DEF Holds, Placed, InFL
<1>8. Placed("from_pkmedian", "idle")'
  BY <1>4, <1>7, SamePlaced DEF Placed
<1>9. QED
  BY <1>1, <1>3, <1>5, <1>6, <1>8, Quiet

LEMMA FLStartsStep == Clustering /\ FLStarts => Clustering'
<1> SUFFICES ASSUME Clustering, FLStarts PROVE Clustering'
  OBVIOUS
<1>1. "to_pFL" \in Ports /\ "to_pgain" \in Ports /\ Has("to_pFL")
  BY DEF Ports, FLStarts
<1>2. /\ pc = PcAt("to_pFL", "idle") /\ TypeOK /\ Holds("to_pFL", "idle")
      /\ Head(ch.port["to_pFL"]) \in Message("to_pFL")
  BY <1>1, PcInPort
<1>3. PICK k \in Int : Tries(<<>>, FALSE, "to_pFL", k)
  BY <1>2 DEF FLStarts, Message
<1>4. Len(feasible) > 0
  BY <1>2 DEF Holds, Trying, InFL
<1>5. /\ fl'.tried \in Seq(1 .. Len(feasible)) /\ Len(fl'.tried) > 0
      /\ \E m \in Message("to_pgain") : ch' = Moved("to_pFL", "to_pgain", m)
  <2>1. <<>> \in Seq(1 .. Len(feasible))
    OBVIOUS
  <2>2. QED
    BY <1>2, <1>3, <1>4, <2>1, TriesRight DEF TypeOK
<1>6. pc' = PcAt("to_pgain", "idle")
  BY <1>2 DEF FLStarts, Goto, PcAt, Kernels, Callers, Inside, InSearch, InSpeedy, InFL, InGain
<1>7. UNCHANGED <<nshards, stream, num, block, points, is_center, feasible, speedy, gain>>
  BY DEF FLStarts, master_vars, center_vars
<1>8. DataOK'
  BY <1>2, <1>7, SameData DEF TypeOK
<1>9. Trying("to_pgain")'
  BY <1>4, <1>5, <1>7 DEF Trying
<1>10. Covered
  BY <1>2 DEF Holds, Placed, InFL
<1>11. Placed("to_pgain", "idle")'
  BY <1>7, <1>10, SamePlaced DEF Placed
<1>12. QED
  BY <1>1, <1>5, <1>6, <1>8, <1>9, <1>11, Quiet

LEMMA FLSkipsStep == Clustering /\ FLSkips => Clustering'
<1> SUFFICES ASSUME Clustering, FLSkips PROVE Clustering'
  OBVIOUS
<1>1. "to_pFL" \in Ports /\ "from_pFL" \in Ports /\ Has("to_pFL")
  BY DEF Ports, FLSkips
<1>2. /\ pc = PcAt("to_pFL", "idle") /\ TypeOK /\ Holds("to_pFL", "idle")
      /\ Head(ch.port["to_pFL"]) \in Message("to_pFL")
  BY <1>1, PcInPort
<1>3. PICK k \in Message("from_pFL") : ch' = Moved("to_pFL", "from_pFL", k)
  BY <1>2 DEF FLSkips, Message
<1>4. pc' = PcAt("from_pFL", "idle")
  BY <1>2 DEF FLSkips, kernel_vars, PcAt, Kernels, Callers, Inside, InSearch, InSpeedy, InFL, InGain
<1>5. UNCHANGED <<nshards, stream, num, block, points, is_center, feasible, speedy, gain>>
  BY DEF FLSkips, master_vars, center_vars, kernel_vars
<1>6. DataOK'
  BY <1>2, <1>5, SameData DEF TypeOK
<1>7. Trying("from_pFL")'
  BY <1>2, <1>5 DEF Holds, Trying, InGain, InFL
<1>8. Covered
  BY <1>2 DEF Holds, Placed, InFL
<1>9. Placed("from_pFL", "idle")'
  BY <1>5, <1>8, SamePlaced DEF Placed
<1>10. QED
  BY <1>1, <1>3, <1>4, <1>6, <1>7, <1>9, Quiet

LEMMA FLNextStep == Clustering /\ (FLNext \/ FLRepeats) => Clustering'
<1> SUFFICES ASSUME Clustering, FLNext \/ FLRepeats PROVE Clustering'
  OBVIOUS
<1>1. "from_pgain" \in Ports /\ "to_pgain" \in Ports /\ Has("from_pgain")
  BY DEF Ports, FLNext, FLRepeats
<1>2. /\ pc = PcAt("from_pgain", "idle") /\ TypeOK /\ Holds("from_pgain", "idle")
      /\ Head(ch.port["from_pgain"]) \in Message("from_pgain")
  BY <1>1, PcInPort
<1>3. Answer.k \in Int
  BY <1>2 DEF Answer, Message
<1>4. Len(feasible) > 0 /\ fl.tried \in Seq(1 .. Len(feasible))
  BY <1>2 DEF Holds, Trying, InFL, InGain
<1>5. PICK tried \in Seq(1 .. Len(feasible)), k \in Int,
             changed \in {FALSE, fl.changed \/ Answer.opened} : Tries(tried, changed, "from_pgain", k)
  <2>1. <<>> \in Seq(1 .. Len(feasible))
    OBVIOUS
  <2>2. QED
    BY <1>3, <1>4, <2>1 DEF FLNext, FLRepeats
<1>6. /\ fl'.tried \in Seq(1 .. Len(feasible)) /\ Len(fl'.tried) > 0
      /\ \E m \in Message("to_pgain") : ch' = Moved("from_pgain", "to_pgain", m)
  BY <1>2, <1>4, <1>5, TriesRight DEF TypeOK
<1>7. pc' = PcAt("to_pgain", "idle")
  BY <1>2 DEF FLNext, FLRepeats, PcAt, Kernels, Callers, Inside, InSearch, InSpeedy, InFL, InGain
<1>8. UNCHANGED <<nshards, stream, num, block, points, is_center, feasible, speedy, gain>>
  BY DEF FLNext, FLRepeats, master_vars, center_vars, loop_vars
<1>9. DataOK'
  BY <1>2, <1>8, SameData DEF TypeOK
<1>10. Trying("to_pgain")'
  BY <1>4, <1>6, <1>8 DEF Trying
<1>11. Covered
  BY <1>2 DEF Holds, Placed, InFL, InGain
<1>12. Placed("to_pgain", "idle")'
  BY <1>8, <1>11, SamePlaced DEF Placed
<1>13. QED
  BY <1>1, <1>6, <1>7, <1>9, <1>10, <1>12, Quiet

LEMMA FLEndsStep == Clustering /\ FLEnds => Clustering'
<1> SUFFICES ASSUME Clustering, FLEnds PROVE Clustering'
  OBVIOUS
<1>1. "from_pgain" \in Ports /\ "from_pFL" \in Ports /\ Has("from_pgain")
  BY DEF Ports, FLEnds
<1>2. /\ pc = PcAt("from_pgain", "idle") /\ TypeOK /\ Holds("from_pgain", "idle")
      /\ Head(ch.port["from_pgain"]) \in Message("from_pgain")
  BY <1>1, PcInPort
<1>3. PICK k \in Message("from_pFL") : ch' = Moved("from_pgain", "from_pFL", k)
  BY <1>2 DEF FLEnds, Message, Answer
<1>4. pc' = PcAt("from_pFL", "idle")
  BY <1>2 DEF FLEnds, Goto, PcAt, Kernels, Callers, Inside, InSearch, InSpeedy, InFL, InGain
<1>5. UNCHANGED <<nshards, stream, num, block, points, is_center, feasible, speedy, gain>>
  BY DEF FLEnds, master_vars, center_vars, loop_vars
<1>6. DataOK'
  BY <1>2, <1>5, SameData DEF TypeOK
<1>7. Trying("from_pFL")'
  BY <1>2, <1>5 DEF Holds, Trying, InGain, InFL
<1>8. Covered
  BY <1>2 DEF Holds, Placed, InFL, InGain
<1>9. Placed("from_pFL", "idle")'
  BY <1>5, <1>8, SamePlaced DEF Placed
<1>10. QED
  BY <1>1, <1>3, <1>4, <1>6, <1>7, <1>9, Quiet

LEMMA LocationStep == Clustering /\ Location => Clustering'
BY SelectFeasibleStep, FLLoopStartsStep, FLLoopRepeatsStep, FLLoopEndsStep, FLStartsStep, FLSkipsStep,
   FLNextStep, FLEndsStep DEF Location

-----------------------------------------------------------------------------
(* The steps of PGain.                                                     *)

LEMMA GainPlaces ==
  /\ "gain" \in Places /\ "gain" \in Callees
  /\ LabelsOf("gain") = {"counts", "costs", "lowers", "commits", "failed"}
  /\ {"centerCount", "switchCostCalc", "lowerSumup", "commitSwitch"} \subseteq Workers
  /\ \A w \in {"centerCount", "switchCostCalc", "lowerSumup", "commitSwitch"} : Caller(w) = "gain"
  /\ Label("centerCount") = "counts" /\ Label("switchCostCalc") = "costs"
  /\ Label("lowerSumup") = "lowers" /\ Label("commitSwitch") = "commits"
BY DEF Places, Callees, LabelsOf, Workers, Caller, Label

LEMMA GainKeepsTrying ==
  ASSUME NEW x \in InGain, NEW y \in InGain, Trying(x), UNCHANGED <<feasible, fl>>
  PROVE  Trying(y)'
BY DEF Trying, InFL

LEMMA GainCountsStep == Clustering /\ GainCounts => Clustering'
<1> SUFFICES ASSUME Clustering, GainCounts PROVE Clustering'
  OBVIOUS
<1> DEFINE w == "centerCount"
<1>1. /\ "to_pgain" \in Ports /\ Has("to_pgain") /\ w \in Workers /\ Caller(w) = "gain" /\ Label(w) = "counts"
      /\ ch' = Sent(Take(ch, "to_pgain"), w, GainRanges(num, 0))
  BY GainPlaces DEF Ports, GainCounts
<1>2. /\ pc = PcAt("to_pgain", "idle") /\ TypeOK /\ Holds("to_pgain", "idle")
      /\ Head(ch.port["to_pgain"]) \in Message("to_pgain")
  BY <1>1, PcInPort
<1>3. pc' = PcAt("gain", "counts")
  BY <1>2 DEF GainCounts, Goto, PcAt, Kernels, Callers, Inside, InSearch, InSpeedy, InFL, InGain
<1>4. UNCHANGED <<nshards, stream, num, block, points, is_center, feasible, speedy, fl>>
  BY DEF GainCounts, master_vars, center_vars, loop_vars
<1>5. gain' \in [k : Int, idx : Rows]
  BY <1>2 DEF GainCounts, Message
<1>6. DataOK'
  BY <1>2, <1>4, <1>5 DEF TypeOK, DataOK
<1>7. TasksSent(w)' = GainRanges(num, 0)
  BY <1>1, <1>4 DEF TasksSent, GainRanges, Part
<1>8. GainRanges(num, 0) \in Seq(Ranged) /\ Len(GainRanges(num, 0)) = nshards
  <2>1. num \in Int
    BY <1>2, NumInRows DEF TypeOK
  <2>2. QED
    BY <1>2, <2>1, TasksTyped DEF TypeOK
<1>9. TokenAt("gain", "counts")' /\ ChannelsOK' /\ Outstanding("gain", "counts")'
  BY <1>1, <1>2, <1>3, <1>4, <1>7, <1>8, CallsFromPort DEF TypeOK, Holds
<1>10. Trying("gain")'
  BY <1>2, <1>4, GainKeepsTrying DEF Holds, InGain
<1>11. Covered
  BY <1>2 DEF Holds, Placed, InFL, InGain
<1>12. Placed("gain", "counts")'
  BY <1>4, <1>11, SamePlaced DEF Placed
<1>13. SpeedySoFar("gain", "counts")'
  BY DEF SpeedySoFar
<1>14. QED
  BY <1>6, <1>9, <1>10, <1>12, <1>13, GainPlaces, Resumed

LEMMA GainFailsStep == Clustering /\ GainFails => Clustering'
<1> SUFFICES ASSUME Clustering, GainFails PROVE Clustering'
  OBVIOUS
<1> DEFINE w == "centerCount"
<1>1. /\ w \in Workers /\ Caller(w) = "gain" /\ Label(w) = "counts" /\ AllBack(w) /\ ch' = Collected(w)
      /\ pc["gain"] = "counts"
  BY GainPlaces DEF GainFails
<1>2. TypeOK /\ Holds("gain", "counts")
  BY <1>1, TokenInKernel, GainPlaces DEF Clustering
<1>3. pc' = PcAt("gain", "failed")
  BY <1>2 DEF Holds, TokenAt, GainFails, Goto, PcAt, Kernels, Callers
<1>4. UNCHANGED <<nshards, stream, num, block, points, is_center, feasible, speedy, fl, gain>>
  BY DEF GainFails, master_vars, center_vars, loop_vars
<1>5. DataOK'
  BY <1>2, <1>4, SameData DEF TypeOK
<1>6. TokenAt("gain", "failed")' /\ ChannelsOK' /\ Outstanding("gain", "failed")'
  BY <1>1, <1>2, <1>3, CollectsAnswers, GainPlaces DEF TypeOK, Holds
<1>7. Trying("gain")'
  BY <1>2, <1>4, GainKeepsTrying DEF Holds, InGain
<1>8. Covered
  BY <1>2 DEF Holds, Placed, InFL, InGain
<1>9. Placed("gain", "failed")' /\ SpeedySoFar("gain", "failed")'
  BY <1>4, <1>8, SamePlaced DEF Placed, SpeedySoFar
<1>10. QED
  BY <1>5, <1>6, <1>7, <1>9, GainPlaces, Resumed

LEMMA GainCostsStep == Clustering /\ GainCosts => Clustering'
<1> SUFFICES ASSUME Clustering, GainCosts PROVE Clustering'
  OBVIOUS
<1> DEFINE v == "centerCount"
           w == "switchCostCalc"
<1>1. /\ v \in Workers /\ Caller(v) = "gain" /\ Label(v) = "counts" /\ AllBack(v) /\ pc["gain"] = "counts"
      /\ w \in Workers /\ Caller(w) = "gain" /\ Label(w) = "costs" /\ v # w
      /\ ch' = Sent(Collected(v), w, GainRanges(num, gain.idx))
  BY GainPlaces DEF GainCosts
<1>2. TypeOK /\ Holds("gain", "counts")
  BY <1>1, TokenInKernel, GainPlaces DEF Clustering
<1>3. pc' = PcAt("gain", "costs")
  BY <1>2 DEF Holds, TokenAt, GainCosts, Goto, PcAt, Kernels, Callers
<1>4. UNCHANGED <<nshards, stream, num, block, points, is_center, feasible, speedy, fl, gain>>
  BY DEF GainCosts, master_vars, center_vars, loop_vars
<1>5. DataOK'
  BY <1>2, <1>4, SameData DEF TypeOK
<1>6. PICK c \in Int : c = gain.idx
  BY <1>2, NumInRows DEF TypeOK, DataOK
<1>7. TasksSent(w)' = GainRanges(num, c)
  BY <1>1, <1>4, <1>6 DEF TasksSent, GainRanges, Part
<1>8. GainRanges(num, c) \in Seq(Ranged) /\ Len(GainRanges(num, c)) = nshards
  <2>1. num \in Int
    BY <1>2, NumInRows DEF TypeOK
  <2>2. QED
    BY <1>2, <2>1, TasksTyped DEF TypeOK
<1>9. TokenAt("gain", "costs")' /\ ChannelsOK' /\ Outstanding("gain", "costs")'
  BY <1>1, <1>2, <1>3, <1>4, <1>6, <1>7, <1>8, CallsNext DEF TypeOK, Holds
<1>10. Trying("gain")'
  BY <1>2, <1>4, GainKeepsTrying DEF Holds, InGain
<1>11. Covered
  BY <1>2 DEF Holds, Placed, InFL, InGain
<1>12. Placed("gain", "costs")' /\ SpeedySoFar("gain", "costs")'
  BY <1>4, <1>11, SamePlaced DEF Placed, SpeedySoFar, GainCosts
<1>13. QED
  BY <1>5, <1>9, <1>10, <1>12, GainPlaces, Resumed

LEMMA GainLowersStep == Clustering /\ GainLowers => Clustering'
<1> SUFFICES ASSUME Clustering, GainLowers PROVE Clustering'
  OBVIOUS
<1> DEFINE v == "switchCostCalc"
           w == "lowerSumup"
<1>1. /\ v \in Workers /\ Caller(v) = "gain" /\ Label(v) = "costs" /\ AllBack(v) /\ pc["gain"] = "costs"
      /\ w \in Workers /\ Caller(w) = "gain" /\ Label(w) = "lowers" /\ v # w
      /\ ch' = Sent(Collected(v), w, GainRanges(gain.k, 0))
  BY GainPlaces DEF GainLowers
<1>2. TypeOK /\ Holds("gain", "costs")
  BY <1>1, TokenInKernel, GainPlaces DEF Clustering
<1>3. pc' = PcAt("gain", "lowers")
  BY <1>2 DEF Holds, TokenAt, GainLowers, Goto, PcAt, Kernels, Callers
<1>4. UNCHANGED <<nshards, stream, num, block, points, is_center, feasible, speedy, fl, gain>>
  BY DEF GainLowers, master_vars, center_vars, loop_vars
<1>5. DataOK'
  BY <1>2, <1>4, SameData DEF TypeOK
<1>6. PICK k \in Int : k = gain.k
  BY <1>2 DEF TypeOK, DataOK
<1>7. TasksSent(w)' = GainRanges(k, 0)
  BY <1>1, <1>4, <1>6 DEF TasksSent, GainRanges, Part
<1>8. GainRanges(k, 0) \in Seq(Ranged) /\ Len(GainRanges(k, 0)) = nshards
  BY <1>2, TasksTyped DEF TypeOK
<1>9. TokenAt("gain", "lowers")' /\ ChannelsOK' /\ Outstanding("gain", "lowers")'
  BY <1>1, <1>2, <1>3, <1>4, <1>6, <1>7, <1>8, CallsNext DEF TypeOK, Holds
<1>10. Trying("gain")'
  BY <1>2, <1>4, GainKeepsTrying DEF Holds, InGain
<1>11. Covered /\ nshards = 1
  BY <1>2 DEF Holds, Placed, InFL, InGain
<1>12. Placed("gain", "lowers")' /\ SpeedySoFar("gain", "lowers")'
  BY <1>4, <1>11, SamePlaced DEF Placed, SpeedySoFar
<1>13. QED
  BY <1>5, <1>9, <1>10, <1>12, GainPlaces, Resumed

LEMMA ClosingTyped ==
  ASSUME ChannelsOK
  PROVE  Closing \in Int
<1>1. PICK b \in Seq(Int) : b = ch.answer["lowerSumup"]
  BY GainPlaces DEF ChannelsOK
<1>2. PICK n \in Nat : n = Len(b)
  BY <1>1
<1>3. b \in [1 .. n -> Int] /\ n \in 0 .. n
  BY <1>1, <1>2
<1>4. Sums(b, n) \in [0 .. n -> Int]
  BY <1>3, SumsRight DEF SumsOf
<1>5. QED
  BY <1>1, <1>2, <1>3, <1>4 DEF Closing, Total

LEMMA GainOpensStep == Clustering /\ GainOpens => Clustering'
<1> SUFFICES ASSUME Clustering, GainOpens PROVE Clustering'
  OBVIOUS
<1> DEFINE v == "lowerSumup"
           w == "commitSwitch"
<1>1. /\ v \in Workers /\ Caller(v) = "gain" /\ Label(v) = "lowers" /\ AllBack(v) /\ pc["gain"] = "lowers"
      /\ w \in Workers /\ Caller(w) = "gain" /\ Label(w) = "commits" /\ v # w
      /\ ch' = Sent(Collected(v), w, GainRanges(num, gain.idx))
  BY GainPlaces DEF GainOpens
<1>2. TypeOK /\ Holds("gain", "lowers")
  BY <1>1, TokenInKernel, GainPlaces DEF Clustering
<1>3. pc' = PcAt("gain", "commits")
  BY <1>2 DEF Holds, TokenAt, GainOpens, Goto, PcAt, Kernels, Callers
<1>4. UNCHANGED <<nshards, stream, num, block, points, is_center, feasible, speedy, fl>>
  BY DEF GainOpens, master_vars, center_vars, loop_vars
<1>5. PICK c \in Rows : c = gain.idx
  BY <1>2 DEF TypeOK, DataOK
<1>6. gain' \in [k : Int, idx : Rows] /\ gain'.idx = c
  <2>1. PICK g \in [k : Int, idx : Rows] : g = gain
    BY <1>2 DEF TypeOK, DataOK
  <2>2. PICK x \in Int : x = Closing
    BY <1>2, ClosingTyped DEF TypeOK
  <2>3. gain' = [g EXCEPT !.k = g.k - x + 1]
    BY <2>1, <2>2 DEF GainOpens
  <2>4. QED
    BY <1>5, <2>1, <2>3
<1>7. DataOK'
  BY <1>2, <1>4, <1>6 DEF TypeOK, DataOK
<1>8. TasksSent(w)' = GainRanges(num, c)
  BY <1>1, <1>4, <1>6 DEF TasksSent, GainRanges, Part
<1>9. GainRanges(num, c) \in Seq(Ranged) /\ Len(GainRanges(num, c)) = nshards
  <2>1. num \in Int /\ c \in Int
    BY <1>2, NumInRows DEF TypeOK
  <2>2. QED
    BY <1>2, <2>1, TasksTyped DEF TypeOK
<1>10. /\ TokenAt("gain", "commits")' /\ ChannelsOK' /\ Outstanding("gain", "commits")'
       /\ ch'.task[w] = GainRanges(num, c)
  BY <1>1, <1>2, <1>3, <1>4, <1>5, <1>8, <1>9, CallsNext DEF TypeOK, Holds
<1>11. Trying("gain")'
  BY <1>2, <1>4, GainKeepsTrying DEF Holds, InGain
<1>12. Covered /\ nshards = 1
  BY <1>2 DEF Holds, Placed, InFL, InGain
<1>13. Covered'
  BY <1>4, <1>12, SamePlaced
<1>14. GainRanges(num, c) # <<>>
  <2>1. Len(GainRanges(num, c)) = 1
    BY <1>9, <1>12
  <2>2. Len(<<>>) = 0 /\ 0 # 1
    OBVIOUS
  <2>3. QED
    BY ONLY <2>1, <2>2, Zenon
<1>15. Placed("gain", "commits")' /\ SpeedySoFar("gain", "commits")'
  BY <1>4, <1>10, <1>12, <1>13, <1>14 DEF Placed, SpeedySoFar
<1>16. QED
  BY <1>7, <1>10, <1>11, <1>15, GainPlaces, Resumed

LEMMA GainDeclinesStep == Clustering /\ GainDeclines => Clustering'
<1> SUFFICES ASSUME Clustering, GainDeclines PROVE Clustering'
  OBVIOUS
<1> DEFINE v == "lowerSumup"
<1>1. v \in Workers /\ Caller(v) = "gain" /\ Label(v) = "lowers" /\ AllBack(v) /\ pc["gain"] = "lowers"
  BY GainPlaces DEF GainDeclines
<1>2. TypeOK /\ Holds("gain", "lowers")
  BY <1>1, TokenInKernel, GainPlaces DEF Clustering
<1>3. pc' = PcAt("from_pgain", "idle")
  BY <1>2 DEF Holds, TokenAt, GainDeclines, Goto, PcAt, Kernels, Callers, Inside, InSearch, InSpeedy, InFL, InGain
<1>4. UNCHANGED <<nshards, stream, num, block, points, is_center, feasible, speedy, fl>>
  BY DEF GainDeclines, master_vars, loop_vars
<1>5. DataOK'
  <2>1. gain' \in [k : Int, idx : Rows]
    BY <1>2, NumInRows DEF GainDeclines, TypeOK
  <2>2. QED
    BY <1>2, <1>4, <2>1 DEF TypeOK, DataOK
<1>6. PICK m \in Message("from_pgain") : ch' = Put(Collected(v), "from_pgain", m)
  <2>1. gain.k \in Int
    BY <1>2 DEF TypeOK, DataOK
  <2>2. QED
    BY <2>1 DEF Message, GainDeclines
<1>7. "from_pgain" \in Ports
  BY DEF Ports
<1>8. TokenAt("from_pgain", "idle")' /\ ChannelsOK' /\ Outstanding("from_pgain", "idle")'
  BY <1>1, <1>2, <1>3, <1>6, <1>7, CollectsAndPuts DEF TypeOK, Holds
<1>9. Trying("from_pgain")'
  BY <1>2, <1>4, GainKeepsTrying DEF Holds, InGain
<1>10. Covered
  BY <1>2 DEF Holds, Placed, InFL, InGain
<1>11. Placed("from_pgain", "idle")' /\ SpeedySoFar("from_pgain", "idle")'
  BY <1>4, <1>10, SamePlaced DEF Placed, SpeedySoFar
<1>12. QED
  BY <1>5, <1>7, <1>8, <1>9, <1>11, Resumed, PortLabels

LEMMA GainCommitsStep == Clustering /\ GainCommits => Clustering'
<1> SUFFICES ASSUME Clustering, GainCommits PROVE Clustering'
  OBVIOUS
<1> DEFINE v == "commitSwitch"
<1>1. v \in Workers /\ Caller(v) = "gain" /\ Label(v) = "commits" /\ AllBack(v) /\ pc["gain"] = "commits"
  BY GainPlaces DEF GainCommits
<1>2. TypeOK /\ Holds("gain", "commits")
  BY <1>1, TokenInKernel, GainPlaces DEF Clustering
<1>3. pc' = PcAt("from_pgain", "idle")
  BY <1>2 DEF Holds, TokenAt, GainCommits, Goto, PcAt, Kernels, Callers, Inside, InSearch, InSpeedy, InFL, InGain
<1>4. UNCHANGED <<nshards, stream, num, block, points, feasible, speedy, fl>>
  BY DEF GainCommits, master_vars, loop_vars
<1>5. PICK c \in Rows : c = gain.idx
  BY <1>2 DEF TypeOK, DataOK
<1>6. is_center' = [is_center EXCEPT ![c] = TRUE] /\ is_center \in [Rows -> BOOLEAN]
  BY <1>2, <1>5 DEF GainCommits, TypeOK, DataOK
<1>7. is_center' \in [Rows -> BOOLEAN] /\ is_center'[c] /\ \A i \in Rows : is_center[i] => is_center'[i]
  BY <1>6
<1>8. DataOK'
  <2>1. gain' \in [k : Int, idx : Rows]
    BY <1>2, NumInRows DEF GainCommits, TypeOK
  <2>2. QED
    BY <1>2, <1>4, <1>7, <2>1 DEF TypeOK, DataOK
<1>9. PICK m \in Message("from_pgain") : ch' = Put(Collected(v), "from_pgain", m)
  <2>1. gain.k \in Int
    BY <1>2 DEF TypeOK, DataOK
  <2>2. QED
    BY <2>1 DEF Message, GainCommits
<1>10. "from_pgain" \in Ports
  BY DEF Ports
<1>11. TokenAt("from_pgain", "idle")' /\ ChannelsOK' /\ Outstanding("from_pgain", "idle")'
  BY <1>1, <1>2, <1>3, <1>9, <1>10, CollectsAndPuts DEF TypeOK, Holds
<1>12. Trying("from_pgain")'
  BY <1>2, <1>4, GainKeepsTrying DEF Holds, InGain
<1>13. Covered'
  <2>1. ch.task[v] = <<>>
    BY <1>1, <1>2, AllHaveAnswered DEF Holds, TypeOK, DataOK
  <2>2. \A i \in Num : is_center[points[i].assign] \/ points[i].assign = c
    BY <1>2, <1>5, <2>1 DEF Holds, Placed
  <2>3. \A i \in Num : points[i].assign \in Rows
    BY <1>2, NumInRows, CostToInt DEF TypeOK
  <2>4. QED
    BY <1>4, <1>7, <2>2, <2>3 DEF Covered, Num
<1>14. Placed("from_pgain", "idle")' /\ SpeedySoFar("from_pgain", "idle")'
  BY <1>13 DEF Placed, SpeedySoFar
<1>15. QED
  BY <1>8, <1>10, <1>11, <1>12, <1>14, Resumed, PortLabels

LEMMA GainStep == Clustering /\ Gain => Clustering'
BY GainCountsStep, GainFailsStep, GainCostsStep, GainLowersStep, GainOpensStep, GainDeclinesStep,
   GainCommitsStep DEF Gain

-----------------------------------------------------------------------------
(* The theorems.                                                           *)

LEMMA StartsClustering == Init => Clustering
<1> SUFFICES ASSUME Init PROVE Clustering
  OBVIOUS
<1>1. ChunkSize \in Nat /\ ChunkSize > 0 /\ 0 \in Rows
  BY StreamClusterAssumption DEF Rows
<1>2. stream \in Seq(Seq(Int)) /\ \A i \in 1 .. Len(stream) : Len(stream[i]) \in 1 .. ChunkSize
  <2>1. stream \in Streams
    BY DEF Init
  <2>2. PICK s \in Seq(Seq(Int)) : s = stream
    BY <2>1, StreamClusterAssumption
  <2>3. ASSUME NEW i \in 1 .. Len(s) PROVE Len(s[i]) \in 1 .. ChunkSize
    <3>1. PICK c \in Seq(Int) : c = s[i]
      BY <2>2, <2>3
    <3>2. c \in ToSet(s)
      BY <2>2, <2>3, <3>1 DEF ToSet
    <3>3. Len(c) <= ChunkSize /\ Cardinality(ToSet(c)) > 1
      BY <2>1, <2>2, <3>2, StreamClusterAssumption
    <3>4. c # <<>>
      <4>1. SUFFICES ASSUME c = <<>> PROVE FALSE
        OBVIOUS
      <4>2. ToSet(c) = {}
        BY <4>1 DEF ToSet
      <4>3. Cardinality({}) = 0
        BY FS_EmptySet
      <4>4. QED
        BY <3>3, <4>2, <4>3
    <3>5. Len(c) \in Nat \ {0}
      BY <3>4
    <3>6. QED
      BY <1>1, <3>1, <3>3, <3>5
  <2>4. QED
    BY <2>2, <2>3
<1>3. DataOK
  <2>1. nshards \in Nat \ {0} /\ num \in 1 .. ChunkSize
    BY <1>1, StreamClusterAssumption DEF Init
  <2>2. block \in [Rows -> Int] /\ is_center \in [Rows -> BOOLEAN]
    BY DEF Init
  <2>3. points \in [Rows -> Point]
    BY <1>1 DEF Init, Point
  <2>4. feasible \in Seq(Rows) /\ speedy \in [k : Int, i : Int] /\ gain \in [k : Int, idx : Rows]
    BY <1>1 DEF Init
  <2>5. QED
    BY <1>2, <2>1, <2>2, <2>3, <2>4 DEF DataOK
<1>4. /\ ch.port = [p \in Ports |-> <<>>] /\ ch.task = [w \in Workers |-> <<>>]
      /\ ch.answer = [w \in Workers |-> <<>>] /\ ch = [port |-> ch.port, task |-> ch.task, answer |-> ch.answer]
  BY DEF Init
<1>5. ChannelsOK
  <2>1. ch.task \in [Workers -> Seq(Ranged)] /\ ch.answer \in [Workers -> Seq(Int)]
    BY <1>4
  <2>2. ch.port = [p \in Ports |-> ch.port[p]]
    BY <1>4
  <2>3. QED
    BY <1>4, <2>1, <2>2 DEF ChannelsOK
<1>6. TokenAt("source", "idle")
  <2>1. "source" \in Places /\ "idle" \in LabelsOf("source") /\ "source" \notin Ports
    BY DEF Places, LabelsOf, Ports
  <2>2. pc = PcAt("source", "idle")
    BY DEF Init, PcAt, Kernels, Callers, Inside, InSearch, InSpeedy, InFL, InGain
  <2>3. QED
    BY <1>4, <2>1, <2>2 DEF TokenAt
<1>7. Outstanding("source", "idle")
  BY <1>4, CallerTyped DEF Outstanding, Idle, Callees
<1>8. SpeedySoFar("source", "idle") /\ Trying("source") /\ Placed("source", "idle")
  BY DEF SpeedySoFar, Trying, Placed, InFL, InGain
<1>9. QED
  BY <1>3, <1>5, <1>6, <1>7, <1>8 DEF Clustering, TypeOK, Holds, TokenAt

LEMMA StaysClustering == Clustering /\ [Next]_vars => Clustering'
<1> SUFFICES ASSUME Clustering, [Next]_vars PROVE Clustering'
  OBVIOUS
<1>1. CASE UNCHANGED vars
  <2>1. UNCHANGED <<nshards, stream, num, block, points, is_center, feasible, speedy, gain, fl, pc, ch>>
    BY <1>1 DEF vars, master_vars, center_vars, loop_vars, kernel_vars
  <2>2. PICK x, l : x \in Places /\ l \in LabelsOf(x) /\ Holds(x, l)
    BY DEF Clustering
  <2>3. TypeOK'
    BY <2>1, SameData DEF Clustering, TypeOK, ChannelsOK
  <2>4. TokenAt(x, l)'
    BY <2>1, <2>2 DEF Holds, TokenAt
  <2>5. Outstanding(x, l)'
    <3>1. \A w : TasksSent(w)' = TasksSent(w)
      BY <2>1 DEF TasksSent, Ranges, GainRanges, Part
    <3>2. QED
      BY <2>1, <2>2, <3>1 DEF Holds, Outstanding, Idle, Underway
  <2>6. SpeedySoFar(x, l)'
    <3>1. AllAt0 => AllAt0'
      BY <2>1 DEF AllAt0, AtCost, CostTo, At, Num, Left
    <3>2. Updating => Updating'
      BY <2>1 DEF Updating, AtCost, Nearer, CostTo, At, Num, Left
    <3>3. Nearest => Nearest'
      BY <2>1 DEF Nearest, AtCost, Nearer, CostTo, At, Num
    <3>4. \A s : CostOf(Ranges(0)[s].k1, Ranges(0)[s].k2)' = CostOf(Ranges(0)[s].k1, Ranges(0)[s].k2)
      BY <2>1 DEF CostOf, Ranges, Part
    <3>5. SumsSent => SumsSent'
      BY <2>1, <3>4 DEF SumsSent
    <3>6. TotalCost' = TotalCost
      BY <2>1 DEF TotalCost, CostOf
    <3>7. QED
      BY <2>1, <2>2, <3>1, <3>2, <3>3, <3>5, <3>6 DEF Holds, SpeedySoFar
  <2>7. Trying(x)' /\ Placed(x, l)'
    BY <2>1, <2>2 DEF Holds, Trying, Placed, Covered, Num
  <2>8. QED
    BY <2>2, <2>3, <2>4, <2>5, <2>6, <2>7 DEF Clustering, Holds
<1>2. CASE Next
  <2>1. CASE Work \/ Chain \/ Speedy \/ Location \/ Gain
    BY <2>1, WorkStep, ChainStep, SpeedyStep, LocationStep, GainStep
  <2>2. CASE UNCHANGED vars
    BY <1>1, <2>2
  <2>3. QED
    BY <1>2, <2>1, <2>2 DEF Next
<1>3. QED
  BY <1>1, <1>2

THEOREM AlwaysClustering == Spec => []Clustering
BY StartsClustering, StaysClustering, PTL DEF Spec

\* PSpeedy reports the sum of all costs, with every point at the nearest of the
\* points opened, for any number of shards: SpeedyUpdated waits for all of them.
THEOREM SpeedyReportsRight == Spec => []SpeedyRight
<1>1. Clustering => SpeedyRight
  <2>1. SUFFICES ASSUME Clustering, Has("from_pspeedy") PROVE SpeedyRight
    BY DEF SpeedyRight
  <2>2. "from_pspeedy" \in Ports
    BY DEF Ports
  <2>3. Holds("from_pspeedy", "idle")
    BY <2>1, <2>2, TokenInPort
  <2>4. QED
    BY <2>3 DEF Holds, SpeedySoFar, Nearest, AtCost, Nearer, SpeedyRight
<1>2. QED
  BY <1>1, AlwaysClustering, PTL

\* Whatever centers are opened and closed, no point is left assigned to a center
\* that is gone: CommitSwitch moves all of them before PGain answers.
THEOREM AssignedToCenters == Spec => []AssignedToCenter
<1>1. Clustering => AssignedToCenter
  <2>1. SUFFICES ASSUME Clustering, Locating, pc["gain"] # "commits" PROVE Covered
    BY DEF AssignedToCenter, Covered
  <2>2. PICK x, l : Holds(x, l)
    BY <2>1 DEF Clustering
  <2>3. CASE pc["fl"] = "wait"
    <3>1. x \in InGain
      BY <2>2, <2>3 DEF Holds, TokenAt, PcAt, Kernels, Callers, Inside
    <3>2. pc["gain"] = IF x = "gain" THEN l ELSE "idle"
      BY <2>2 DEF Holds, TokenAt, PcAt, Kernels, Callers
    <3>3. QED
      BY <2>1, <2>2, <3>1, <3>2 DEF Holds, Placed, InFL
  <2>4. ASSUME NEW p \in {"from_pFL", "to_contcenters", "to_copycenters"}, Has(p) PROVE Covered
    <3>1. p \in Ports
      BY DEF Ports
    <3>2. Holds(p, "idle")
      BY <2>1, <2>4, <3>1, TokenInPort
    <3>3. QED
      BY <3>2 DEF Holds, Placed, InFL
  <2>5. QED
    BY <2>1, <2>3, <2>4 DEF Locating
<1>2. QED
  BY <1>1, AlwaysClustering, PTL
=============================================================================
