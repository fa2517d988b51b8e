---------------------------- MODULE Graph_proofs ----------------------------
(* The preparation of the triangle count, for any graph and any number of    *)
(* threads: if no vertex has too many edges, gen_workset cuts up the vertices *)
(* among the threads, and the neighbors of every vertex are complete, and     *)
(* nowhere twice, when the counting begins.                                   *)
EXTENDS Graph, TLAPS, NaturalsInduction, WellFoundedInduction, FiniteSetTheorems

Typed ==
  /\ input \in Inputs
  /\ neighbors = [v \in Vertices |-> neighbors[v]]
  /\ left \in [Tids -> SUBSET Int]

\* While vertices are prepared, those left are each left to one thread and have
\* no neighbors yet; all others have theirs.
Left == UNION {left[t] : t \in Tids}
HalfPrepared ==
  input.prog = "tc" /\ phase = "prepare" =>
    /\ \A t \in Tids : left[t] \subseteq Vertices
    /\ \A t, u \in Tids : t # u => left[t] \cap left[u] = {}
    /\ \A v \in Vertices : IF v \in Left THEN neighbors[v] = <<>> ELSE Len(neighbors[v]) = Degree(v)
AllPrepared ==
  input.prog = "tc" /\ phase # "prepare" => \A v \in Vertices : Len(neighbors[v]) = Degree(v)

\* Outside of "tc" the preparation has nothing to do.
NothingElse == input.prog # "tc" /\ phase = "prepare" => \A t \in Tids : left[t] = {}

PInv == Typed /\ HalfPrepared /\ AllPrepared /\ NothingElse

\* Nothing is said of a graph and a number of threads for which a cut may be missing.
Ready == EnoughCuts => PInv

-----------------------------------------------------------------------------
\* A set of numbers has a smallest.
LEMMA SmallestOf ==
  ASSUME NEW S \in SUBSET Nat, S # {}
  PROVE  \E x \in S : \A y \in S : x <= y
<1> DEFINE R == {ss \in Nat \X Nat : ss[1] < ss[2]}
<1>1. IsWellFoundedOn(R, Nat)
  BY NatLessThanWellFounded DEF OpToRel
<1>2. PICK x \in S : \A y \in S : ~(<<y, x>> \in R)
  <2> HIDE DEF R
  <2> QED
    BY <1>1, WFMin
<1>3. \A y \in S : x <= y
  <2>1. TAKE y \in S
  <2>2. ~(<<y, x>> \in R) /\ x \in Nat /\ y \in Nat
    BY <1>2
  <2>3. ~(y < x)
    BY <2>2
  <2>4. QED
    BY <2>2, <2>3
<1>4. QED
  BY <1>2, <1>3

LEMMA MinExists ==
  ASSUME NEW S \in SUBSET Nat, S # {}
  PROVE  Min(S) \in S
BY SmallestOf DEF Min

\* Sorting keeps the length.
LEMMA SortedLength ==
  ASSUME NEW S, NEW s \in Seq(S)
  PROVE  Len(Sorted(s)) = Len(s)
<1> DEFINE perm == CHOOSE p \in Permutations(DOMAIN s) :
                     \A i, j \in DOMAIN s : i < j => s[p[i]] <= s[p[j]]
           values == {s[perm[i]] : i \in DOMAIN s}
<1>1. Sorted(s) = [i \in 1 .. Len(s) |-> s[perm[i]]]
  BY DEF Sorted
<1>2. Sorted(s) \in [1 .. Len(s) -> values]
  <2> HIDE DEF perm
  <2> QED
    BY <1>1
<1> HIDE DEF perm, values
<1>3. QED
  BY <1>1, <1>2

\* The graphs considered.
LEMMA GraphTyped ==
  ASSUME input \in Inputs
  PROVE  /\ Size \in Nat /\ Vertices = 0 .. Size - 1 /\ Vertices \subseteq Nat
         /\ \A v \in Vertices : Edges[v] \in Seq(Vertices) /\ Degree(v) \in Nat
         /\ input.threads \in Nat \ {0} /\ Tids = 0 .. input.threads - 1
<1>1. /\ IsFiniteSet(DOMAIN input.graph)
      /\ DOMAIN input.graph = 0 .. Cardinality(DOMAIN input.graph) - 1
      /\ \A v \in DOMAIN input.graph : input.graph[v] \in Seq(DOMAIN input.graph)
      /\ input.threads \in Nat \ {0}
  BY ONLY input \in Inputs, GraphAssumption
<1>2. IsFiniteSet(Vertices) /\ Vertices = 0 .. Size - 1
  BY ONLY <1>1 DEF Vertices, Edges, Size
<1>3. Size \in Nat
  BY ONLY <1>2, FS_CardinalityType DEF Size
<1>4. Vertices \subseteq Nat
  BY ONLY <1>2, <1>3
<1>5. \A v \in Vertices : Edges[v] \in Seq(Vertices) /\ Degree(v) \in Nat
  <2>1. TAKE v \in Vertices
  <2>2. Edges[v] \in Seq(Vertices)
    BY ONLY <1>1, v \in Vertices DEF Vertices, Edges
  <2>3. QED
    BY ONLY <2>2 DEF Degree
<1>6. QED
  BY ONLY <1>1, <1>2, <1>3, <1>4, <1>5 DEF Tids

\* The graph does not change.
LEMMA GraphStays ==
  ASSUME UNCHANGED input
  PROVE  /\ Vertices' = Vertices /\ Tids' = Tids /\ Edges' = Edges
         /\ \A v : Degree(v)' = Degree(v)
  BY DEF Vertices, Tids, Edges, Degree

\* A step that leaves input, phase, neighbors and what is left alone.
LEMMA Undisturbed ==
  ASSUME PInv, UNCHANGED <<input, phase, neighbors, left>>
  PROVE  PInv'
<1>1. Typed'
  BY GraphStays DEF PInv, Typed
<1>2. Left' = Left
  BY GraphStays DEF Left
<1>3. HalfPrepared'
  BY <1>2, GraphStays DEF PInv, HalfPrepared, Degree
<1>4. AllPrepared'
  BY GraphStays DEF PInv, AllPrepared, Degree
<1>5. NothingElse'
  BY GraphStays DEF PInv, NothingElse
<1>6. QED
  BY <1>1, <1>3, <1>4, <1>5 DEF PInv

-----------------------------------------------------------------------------
(* gen_workset.                                                             *)

\* Every vertex is in the range of one thread.
RangesCut ==
  /\ \A t \in Tids : EdgeRange(t) \subseteq Vertices
  /\ \A v \in Vertices : \E t \in Tids : v \in EdgeRange(t)
  /\ \A t, u \in Tids : t # u => EdgeRange(t) \cap EdgeRange(u) = {}

\* What the loop computes up to a vertex.
Counted(s, n) == s = [v \in 0 .. n |-> IF v = 0 THEN 0 ELSE s[v - 1] + Degree(v - 1)]
CutUp(s, n) == s = [v \in 0 .. n |-> IF v = 0 THEN NoCuts ELSE Cut(s[v - 1], v - 1)]

LEMMA CountedExists ==
  ASSUME NEW n \in Nat
  PROVE  \E s : Counted(s, n)
<1> DEFINE Bad == {m \in 0 .. n : ~\E s : Counted(s, m)}
<1>1. SUFFICES ASSUME Bad # {} PROVE FALSE
  <2>1. n \in 0 .. n
    OBVIOUS
  <2>2. QED
    BY <2>1
<1>2. Bad \subseteq Nat /\ Bad \subseteq 0 .. n
  OBVIOUS
<1>3. PICK m \in Bad : \A y \in Bad : m <= y
  <2> HIDE DEF Bad
  <2>1. QED
    BY <1>1, <1>2, SmallestOf
<1>4. m # 0
  <2>1. Counted([v \in 0 .. 0 |-> 0], 0)
    BY DEF Counted
  <2>2. ~\E s : Counted(s, m)
    BY <1>3
  <2>3. QED
    BY <2>1, <2>2
<1>5. m \in 1 .. n /\ m - 1 \in 0 .. n /\ m - 1 \notin Bad
  <2>1. m \in 1 .. n /\ m - 1 \in 0 .. n
    BY <1>2, <1>3, <1>4
  <2> HIDE DEF Bad
  <2>2. QED
    BY <1>3, <2>1
<1>6. PICK s : Counted(s, m - 1)
  BY <1>5
<1> DEFINE g == [v \in 0 .. m |-> IF v = m THEN s[m - 1] + Degree(m - 1) ELSE s[v]]
<1>7. Counted(g, m)
  <2>1. ASSUME NEW v \in 0 .. m PROVE g[v] = IF v = 0 THEN 0 ELSE g[v - 1] + Degree(v - 1)
    <3>1. g[0] = 0
      BY <1>5, <1>6 DEF Counted
    <3>2. v # 0 => v - 1 \in 0 .. m /\ v - 1 # m /\ g[v - 1] = s[v - 1]
      BY <1>5
    <3>3. v # 0 /\ v # m => g[v] = s[v] /\ s[v] = s[v - 1] + Degree(v - 1)
      BY <1>5, <1>6 DEF Counted
    <3>4. v = m => g[v] = s[v - 1] + Degree(v - 1)
      BY <1>5
    <3> HIDE DEF g
    <3>5. QED
      BY <3>1, <3>2, <3>3, <3>4
  <2>2. g = [v \in 0 .. m |-> g[v]]
    OBVIOUS
  <2> HIDE DEF g
  <2>3. g = [v \in 0 .. m |-> IF v = 0 THEN 0 ELSE g[v - 1] + Degree(v - 1)]
    BY ONLY <2>1, <2>2
  <2>4. QED
    BY <2>3 DEF Counted
<1>8. QED
  BY <1>3, <1>7

LEMMA CutUpExists ==
  ASSUME NEW n \in Nat
  PROVE  \E s : CutUp(s, n)
<1> DEFINE Bad == {m \in 0 .. n : ~\E s : CutUp(s, m)}
<1>1. SUFFICES ASSUME Bad # {} PROVE FALSE
  <2>1. n \in 0 .. n
    OBVIOUS
  <2>2. QED
    BY <2>1
<1>2. Bad \subseteq Nat /\ Bad \subseteq 0 .. n
  OBVIOUS
<1>3. PICK m \in Bad : \A y \in Bad : m <= y
  <2> HIDE DEF Bad
  <2>1. QED
    BY <1>1, <1>2, SmallestOf
<1>4. m # 0
  <2>1. CutUp([v \in 0 .. 0 |-> NoCuts], 0)
    BY DEF CutUp
  <2>2. ~\E s : CutUp(s, m)
    BY <1>3
  <2>3. QED
    BY <2>1, <2>2
<1>5. m \in 1 .. n /\ m - 1 \in 0 .. n /\ m - 1 \notin Bad
  <2>1. m \in 1 .. n /\ m - 1 \in 0 .. n
    BY <1>2, <1>3, <1>4
  <2> HIDE DEF Bad
  <2>2. QED
    BY <1>3, <2>1
<1>6. PICK s : CutUp(s, m - 1)
  BY <1>5
<1> DEFINE g == [v \in 0 .. m |-> IF v = m THEN Cut(s[m - 1], m - 1) ELSE s[v]]
<1>7. CutUp(g, m)
  <2>1. ASSUME NEW v \in 0 .. m PROVE g[v] = IF v = 0 THEN NoCuts ELSE Cut(g[v - 1], v - 1)
    <3>1. g[0] = NoCuts
      BY <1>5, <1>6 DEF CutUp
    <3>2. v # 0 => v - 1 \in 0 .. m /\ v - 1 # m /\ g[v - 1] = s[v - 1]
      BY <1>5
    <3>3. v # 0 /\ v # m => g[v] = s[v] /\ s[v] = Cut(s[v - 1], v - 1)
      BY <1>5, <1>6 DEF CutUp
    <3>4. v = m => g[v] = Cut(s[v - 1], v - 1)
      BY <1>5
    <3> HIDE DEF g
    <3>5. QED
      BY <3>1, <3>2, <3>3, <3>4
  <2>2. g = [v \in 0 .. m |-> g[v]]
    OBVIOUS
  <2> HIDE DEF g
  <2>3. g = [v \in 0 .. m |-> IF v = 0 THEN NoCuts ELSE Cut(g[v - 1], v - 1)]
    BY ONLY <2>1, <2>2
  <2>4. QED
    BY <2>3 DEF CutUp
<1>8. QED
  BY <1>3, <1>7

LEMMA EdgesCounted ==
  ASSUME input \in Inputs
  PROVE  /\ EdgesBefore[0] = 0
         /\ \A v \in Vertices : EdgesBefore[v + 1] = EdgesBefore[v] + Degree(v)
         /\ \A v \in 0 .. Size : EdgesBefore[v] \in Nat
<1>0. PICK n \in Nat : n = Size
  BY GraphTyped
<1>1. PICK s : Counted(s, n)
  BY CountedExists
<1> DEFINE F(g) == [v \in 0 .. n |-> IF v = 0 THEN 0 ELSE g[v - 1] + Degree(v - 1)]
<1> DEFINE t == CHOOSE g : g = F(g)
<1>2. t = F(t)
  <2>1. s = F(s)
    BY <1>1 DEF Counted
  <2> HIDE DEF F
  <2>2. QED
    BY <2>1
<1>3. EdgesBefore = t
  BY <1>0 DEF EdgesBefore
<1> HIDE DEF t
<1>4. t[0] = 0
  BY <1>2
<1>5. ASSUME NEW v \in Vertices PROVE t[v + 1] = t[v] + Degree(v)
  <2>1. v \in Nat /\ v + 1 \in 0 .. n /\ v + 1 # 0 /\ (v + 1) - 1 = v
    BY <1>0, GraphTyped
  <2>2. QED
    BY <1>2, <2>1
<1>6. \A v \in 0 .. n : t[v] \in Nat
  <2> DEFINE Bad == {v \in 0 .. n : t[v] \notin Nat}
  <2>1. SUFFICES ASSUME Bad # {} PROVE FALSE
    OBVIOUS
  <2>2. Bad \subseteq Nat
    OBVIOUS
  <2>3. PICK m \in Bad : \A y \in Bad : m <= y
    <3> HIDE DEF Bad
    <3>1. QED
      BY <2>1, <2>2, SmallestOf
  <2>4. m # 0 /\ m \in 0 .. n
    BY <1>4, <2>3
  <2>5. m - 1 \in 0 .. n - 1 /\ m - 1 \notin Bad
    <3>1. m - 1 \in 0 .. n - 1 /\ ~(m <= m - 1)
      BY <2>4
    <3> HIDE DEF Bad
    <3>2. QED
      BY <2>3, <3>1
  <2>6. t[m - 1] \in Nat /\ Degree(m - 1) \in Nat
    BY <1>0, <2>5, GraphTyped
  <2>7. t[m] = t[m - 1] + Degree(m - 1)
    BY <1>2, <2>4
  <2>8. QED
    BY <2>3, <2>6, <2>7
<1>7. QED
  BY <1>0, <1>3, <1>4, <1>5, <1>6

LEMMA CutsAre ==
  ASSUME input \in Inputs
  PROVE  Cuts[0] = NoCuts /\ \A v \in Vertices : Cuts[v + 1] = Cut(Cuts[v], v)
<1>0. PICK n \in Nat : n = Size
  BY GraphTyped
<1>1. PICK s : CutUp(s, n)
  BY CutUpExists
<1> DEFINE F(g) == [v \in 0 .. n |-> IF v = 0 THEN NoCuts ELSE Cut(g[v - 1], v - 1)]
<1> DEFINE t == CHOOSE g : g = F(g)
<1>2. t = F(t)
  <2>1. s = F(s)
    BY <1>1 DEF CutUp
  <2> HIDE DEF F
  <2>2. QED
    BY <2>1
<1>3. Cuts = t
  BY <1>0 DEF Cuts
<1> HIDE DEF t
<1>4. t[0] = NoCuts
  BY <1>2
<1>5. ASSUME NEW v \in Vertices PROVE t[v + 1] = Cut(t[v], v)
  <2>1. v \in Nat /\ v + 1 \in 0 .. n /\ v + 1 # 0 /\ (v + 1) - 1 = v
    BY <1>0, GraphTyped
  <2>2. QED
    BY <1>2, <2>1
<1>6. QED
  BY <1>3, <1>4, <1>5

\* The most edges a vertex has.
LEMMA MostEdges ==
  ASSUME input \in Inputs, Vertices # {}
  PROVE  \E most \in Vertices : \A v \in Vertices : Degree(v) <= Degree(most)
<1>0. PICK n \in Nat : n = Size /\ Vertices = 0 .. n - 1
  BY GraphTyped
<1> DEFINE Best(m) == \E b \in Vertices : \A v \in 0 .. m : Degree(v) <= Degree(b)
           Bad == {m \in 0 .. n - 1 : ~Best(m)}
<1>1. n - 1 \in 0 .. n - 1
  BY <1>0
<1>2. SUFFICES ASSUME Bad # {} PROVE FALSE
  <2>1. Best(n - 1)
    BY <1>1
  <2>2. QED
    BY <1>0, <2>1
<1>3. PICK m \in Bad : \A y \in Bad : m <= y
  <2>1. Bad \subseteq Nat
    BY <1>0
  <2> HIDE DEF Bad
  <2>2. QED
    BY <1>2, <2>1, SmallestOf
<1>4. m \in Vertices /\ m \in Nat /\ Degree(m) \in Nat /\ ~Best(m)
  BY <1>0, <1>3, GraphTyped
<1>5. m # 0
  <2>1. ASSUME m = 0 PROVE FALSE
    <3>1. \A v \in 0 .. m : Degree(v) <= Degree(m)
      BY <1>4, <2>1
    <3>2. QED
      BY <1>4, <3>1
  <2>2. QED
    BY <2>1
<1>6. Best(m - 1)
  <2>1. m - 1 \in 0 .. n - 1 /\ ~(m <= m - 1)
    BY <1>0, <1>4, <1>5
  <2>2. m - 1 \notin Bad
    <3> HIDE DEF Bad
    <3>1. QED
      BY <1>3, <2>1
  <2>3. QED
    BY <2>1, <2>2
<1>7. PICK b \in Vertices : \A v \in 0 .. m - 1 : Degree(v) <= Degree(b)
  BY <1>6
<1>8. PICK c \in Vertices : Degree(b) <= Degree(c) /\ Degree(m) <= Degree(c)
  BY <1>4, <1>7, GraphTyped
<1>9. ASSUME NEW v \in 0 .. m PROVE Degree(v) <= Degree(c)
  <2>1. v \in Vertices /\ (v = m \/ v \in 0 .. m - 1)
    BY <1>0, <1>4
  <2>2. Degree(v) \in Nat /\ Degree(b) \in Nat /\ Degree(c) \in Nat
    BY <2>1, GraphTyped
  <2>3. QED
    BY <1>7, <1>8, <2>1, <2>2
<1>10. QED
  BY <1>4, <1>9

LEMMA MinOfTwo ==
  ASSUME NEW a \in Nat, NEW b \in Nat
  PROVE  Min({a, b}) = IF a <= b THEN a ELSE b
<1>1. PICK x \in {a, b} : \A y \in {a, b} : x <= y
  BY SmallestOf
<1>2. Min({a, b}) \in {a, b} /\ \A y \in {a, b} : Min({a, b}) <= y
  BY <1>1 DEF Min
<1>3. QED
  BY <1>2

LEMMA Division ==
  ASSUME NEW d \in Nat \ {0}, NEW a \in Nat
  PROVE  a \div d \in Nat /\ a % d \in 0 .. d - 1 /\ a = (a % d) + (a \div d) * d
OBVIOUS

\* A chunk is the edges shared out, rounded up.
LEMMA ChunkIs ==
  ASSUME input \in Inputs, NumEdges > 0
  PROVE  Chunk \in Nat \ {0}
<1>1. PICK n \in Nat : n = NumEdges /\ n > 0
  BY EdgesCounted, GraphTyped DEF NumEdges
<1>2. PICK d \in Nat : d = input.threads /\ d > 0
  BY GraphTyped
<1>3. PICK a \in Nat : a = n + d - 1 /\ a >= d
  BY <1>1, <1>2
<1>4. a \div d \in Nat /\ a % d \in 0 .. d - 1 /\ a = (a % d) + (a \div d) * d
  <2>1. d \in Nat \ {0} /\ a \in Nat
    BY <1>2
  <2>2. QED
    BY ONLY <2>1, Division
<1>5. a \div d # 0
  <2>1. SUFFICES ASSUME a \div d = 0 PROVE FALSE
    OBVIOUS
  <2>2. PICK r \in 0 .. d - 1 : a = r + 0 * d
    BY <1>4, <2>1
  <2>3. QED
    BY <1>2, <1>3, <2>2
<1>6. QED
  BY <1>1, <1>2, <1>3, <1>4, <1>5 DEF Chunk, Ceil

\* The cuts made before vertex k.  A range has less than a chunk and the edges of
\* one vertex; the places of the cuts made so far are in order.
SoFar(k, c, most) ==
  /\ c.th \in 1 .. input.threads
  /\ c.last \in Nat /\ c.last <= EdgesBefore[k] /\ EdgesBefore[k] - c.last < Chunk
  /\ c.th < input.threads => c.last <= (c.th - 1) * (Chunk - 1 + Degree(most))
  /\ c.set \in [0 .. input.threads -> 0 .. Size] /\ c.set[0] = 0
  /\ \A i \in 0 .. input.threads : c.set[i] <= k
  /\ \A i, j \in 0 .. c.th - 1 : i <= j => c.set[i] <= c.set[j]

LEMMA CutKeeps ==
  ASSUME input \in Inputs, NumEdges > 0, NEW most \in Vertices, NEW k \in Vertices,
         Degree(k) <= Degree(most), NEW c, SoFar(k, c, most)
  PROVE  SoFar(k + 1, Cut(c, k), most)
<1>0. PICK n \in Nat, T \in Nat \ {0}, chunk \in Nat \ {0}, d \in Nat, m \in Nat :
        /\ n = Size /\ T = input.threads /\ chunk = Chunk /\ d = Degree(k) /\ m = Degree(most)
        /\ d <= m /\ k \in 0 .. n - 1 /\ k \in Nat
  BY GraphTyped, ChunkIs
<1>1. PICK e \in Nat : e = EdgesBefore[k] /\ EdgesBefore[k + 1] = e + d
  BY <1>0, EdgesCounted
<1>2. /\ c.th \in 1 .. T /\ c.last \in Nat /\ c.last <= e /\ e - c.last < chunk
      /\ c.th < T => c.last <= (c.th - 1) * (chunk - 1 + m)
      /\ c.set \in [0 .. T -> 0 .. n] /\ c.set[0] = 0
      /\ \A i \in 0 .. T : c.set[i] <= k
      /\ \A i, j \in 0 .. c.th - 1 : i <= j => c.set[i] <= c.set[j]
  BY <1>0, <1>1 DEF SoFar
<1>3. CASE (e + d) - c.last < chunk
  <2>1. Cut(c, k) = c
    BY <1>0, <1>1, <1>3 DEF Cut
  <2>2. \A i \in 0 .. T : c.set[i] <= k + 1
    <3>1. TAKE i \in 0 .. T
    <3>2. c.set[i] \in 0 .. n /\ c.set[i] <= k
      BY <1>2
    <3>3. QED
      BY <1>0, <3>2
  <2>3. c.last <= e + d
    BY <1>2
  <2>4. QED
    BY <1>0, <1>1, <1>2, <1>3, <2>1, <2>2, <2>3 DEF SoFar
<1>4. CASE ~((e + d) - c.last < chunk)
  <2>1. PICK th \in Nat : th = c.th /\ th \in 1 .. T
    BY <1>2
  <2>2. PICK th2 \in Nat : th2 = Min({th + 1, T}) /\ (th < T => th2 = th + 1) /\ (th = T => th2 = T)
    <3>1. T \in Nat /\ th + 1 \in Nat /\ th <= T
      BY <1>0, <2>1
    <3>2. Min({th + 1, T}) = IF th + 1 <= T THEN th + 1 ELSE T
      BY <3>1, MinOfTwo
    <3>3. QED
      BY <3>1, <3>2
  <2> DEFINE set2 == [c.set EXCEPT ![th] = k]
  <2>3. Cut(c, k) = [last |-> e + d, th |-> th2, set |-> set2]
    BY <1>0, <1>1, <1>4, <2>1, <2>2 DEF Cut
  <2>4. T \in Nat /\ th2 \in 1 .. T /\ (th = T \/ th < T)
    <3>1. T \in Nat /\ th <= T /\ th >= 1
      BY <1>0, <2>1
    <3>2. QED
      BY <2>2, <3>1
  <2>5. th2 < T => e + d <= (th2 - 1) * (chunk - 1 + m)
    <3>1. SUFFICES ASSUME th2 < T PROVE e + d <= th * (chunk - 1 + m)
      <4>1. th2 < T => th2 = th + 1 /\ th2 - 1 = th
        BY <2>1, <2>2, <2>4
      <4>2. QED
        BY <4>1
    <3>2. PICK b \in Nat : b = chunk - 1 + m
      BY <1>0
    <3>3. th < T
      BY <2>2, <2>4, <3>1
    <3>4. PICK a \in Int : a = (th - 1) * b
      BY <2>1
    <3>5. th * b = a + b
      <4>1. ((th - 1) + 1) * b = (th - 1) * b + b
        BY <2>1, <3>2
      <4>2. QED
        BY <2>1, <3>2, <3>4, <4>1
    <3>6. c.last <= a
      BY <1>2, <2>1, <3>2, <3>3, <3>4
    <3>7. e + d <= c.last + b
      <4>1. PICK l \in Nat : l = c.last /\ e - l < chunk
        BY <1>2
      <4>2. d <= m
        BY <1>0
      <4>3. e + d <= l + b
        BY ONLY <3>2, <4>1, <4>2, e \in Nat, d \in Nat, m \in Nat, chunk \in Nat
      <4>4. QED
        BY <4>1, <4>3
    <3>8. QED
      BY <1>2, <3>2, <3>4, <3>5, <3>6, <3>7
  <2>6. set2 \in [0 .. T -> 0 .. n] /\ set2[0] = 0
    BY <1>0, <1>2, <2>1
  <2>7. ASSUME NEW i \in 0 .. T PROVE set2[i] <= k + 1 /\ set2[i] <= k /\ set2[i] \in Nat
    <3>1. c.set[i] \in 0 .. n /\ c.set[i] <= k
      BY <1>2
    <3>2. set2[i] = IF i = th THEN k ELSE c.set[i]
      BY <1>2
    <3>3. QED
      BY <1>0, <3>1, <3>2
  <2>8. ASSUME NEW i \in 0 .. th2 - 1, NEW j \in 0 .. th2 - 1, i <= j PROVE set2[i] <= set2[j]
    <3>1. i \in 0 .. T /\ j \in 0 .. T
      BY <2>4
    <3>2. set2[i] <= k /\ set2[j] = (IF j = th THEN k ELSE c.set[j]) /\ set2[i] = (IF i = th THEN k ELSE c.set[i])
      BY <1>2, <2>7, <3>1
    <3>3. CASE j = th
      BY <3>2, <3>3
    <3>4. CASE j # th
      <4>1. i \in 0 .. th - 1 /\ j \in 0 .. th - 1
        <5>1. th2 - 1 <= th /\ (th2 - 1 = th \/ th2 - 1 = th - 1)
          BY <2>1, <2>2, <2>4
        <5>2. i \in Int /\ j \in Int /\ i >= 0 /\ i <= j /\ j <= th2 - 1
          BY <2>8
        <5>3. QED
          BY <3>4, <5>1, <5>2
      <4>2. QED
        BY <1>2, <2>1, <2>8, <3>2, <3>4, <4>1
    <3>5. QED
      BY <3>3, <3>4
  <2> HIDE DEF set2
  <2>9. /\ Cut(c, k).last = e + d /\ Cut(c, k).th = th2 /\ Cut(c, k).set = set2
    BY <2>3
  <2>10. (e + d) - (e + d) < chunk /\ e + d <= e + d /\ e + d \in Nat
    BY <1>0, <1>1
  <2>11. QED
    BY <1>0, <1>1, <2>4, <2>5, <2>6, <2>7, <2>8, <2>9, <2>10 DEF SoFar
<1>5. QED
  BY <1>3, <1>4

LEMMA AllSoFar ==
  ASSUME input \in Inputs, NumEdges > 0, NEW most \in Vertices,
         \A v \in Vertices : Degree(v) <= Degree(most)
  PROVE  SoFar(Size, Cuts[Size], most)
<1>0. PICK n \in Nat : n = Size /\ Vertices = 0 .. n - 1
  BY GraphTyped
<1> DEFINE Bad == {k \in 0 .. n : ~SoFar(k, Cuts[k], most)}
<1>1. SUFFICES ASSUME Bad # {} PROVE FALSE
  <2>1. n \in 0 .. n
    OBVIOUS
  <2>2. QED
    BY <1>0, <2>1
<1>2. PICK m \in Bad : \A y \in Bad : m <= y
  <2>1. Bad \subseteq Nat
    OBVIOUS
  <2> HIDE DEF Bad
  <2>2. QED
    BY <1>1, <2>1, SmallestOf
<1>3. m # 0
  <2>1. Cuts[0] = NoCuts /\ EdgesBefore[0] = 0 /\ Chunk \in Nat \ {0} /\ Degree(most) \in Nat
        /\ input.threads \in Nat \ {0} /\ Size \in Nat
    BY CutsAre, EdgesCounted, ChunkIs, GraphTyped
  <2>2. (1 - 1) * (Chunk - 1 + Degree(most)) = 0
    BY <2>1
  <2>3. SoFar(0, NoCuts, most)
    BY <2>1, <2>2 DEF SoFar, NoCuts
  <2>4. QED
    BY <1>2, <2>1, <2>3
<1>4. m - 1 \in Vertices /\ m - 1 \in 0 .. n /\ m - 1 \notin Bad /\ (m - 1) + 1 = m
  <2>1. m - 1 \in 0 .. n - 1 /\ ~(m <= m - 1) /\ (m - 1) + 1 = m
    BY <1>2, <1>3
  <2>2. m - 1 \notin Bad
    <3> HIDE DEF Bad
    <3>1. QED
      BY <1>2, <2>1
  <2>3. QED
    BY <1>0, <2>1, <2>2
<1>5. SoFar(m - 1, Cuts[m - 1], most)
  BY <1>4
<1>6. Cuts[m] = Cut(Cuts[m - 1], m - 1)
  <2>1. Cuts[(m - 1) + 1] = Cut(Cuts[m - 1], m - 1)
    BY <1>4, CutsAre
  <2>2. QED
    BY <1>4, <2>1
<1>7. SoFar((m - 1) + 1, Cut(Cuts[m - 1], m - 1), most)
  BY <1>4, <1>5, CutKeeps
<1>8. SoFar(m, Cuts[m], most)
  BY <1>4, <1>6, <1>7
<1>9. QED
  BY <1>2, <1>8

\* With no more edges at any vertex than EnoughCuts allows, the last cut is made.
LEMMA AllCutsMade ==
  ASSUME input \in Inputs, EnoughCuts
  PROVE  /\ Workset \in [0 .. input.threads -> 0 .. Size]
         /\ Workset[0] = 0 /\ Workset[input.threads] = Size
         /\ \A i, j \in 0 .. input.threads : i <= j => Workset[i] <= Workset[j]
<1>1. NumEdges > 0 /\ \A v \in Vertices : (input.threads - 2) * (Chunk - 1 + Degree(v)) + Chunk <= NumEdges
  BY DEF EnoughCuts, Chunk
<1>2. Vertices # {}
  <2>1. SUFFICES ASSUME Vertices = {} PROVE FALSE
    OBVIOUS
  <2>2. Size = 0
    <3>1. Size \in Nat /\ Vertices = 0 .. Size - 1
      BY GraphTyped
    <3>2. Size # 0 => 0 \in Vertices
      BY <3>1
    <3>3. QED
      BY <2>1, <3>2
  <2>3. QED
    BY <1>1, <2>2, EdgesCounted DEF NumEdges
<1>3. PICK most \in Vertices : \A v \in Vertices : Degree(v) <= Degree(most)
  BY <1>2, MostEdges
<1> DEFINE c == Cuts[Size]
<1>4. SoFar(Size, c, most)
  BY <1>1, <1>3, AllSoFar
<1> HIDE DEF c
<1>5. PICK n \in Nat, T \in Nat \ {0}, chunk \in Nat \ {0}, m \in Nat, e \in Nat :
        n = Size /\ T = input.threads /\ chunk = Chunk /\ m = Degree(most) /\ e = NumEdges /\ e = EdgesBefore[Size]
  <2>1. Size \in 0 .. Size /\ Size \in Nat
    BY GraphTyped
  <2>2. EdgesBefore[Size] \in Nat /\ NumEdges = EdgesBefore[Size]
    BY <2>1, EdgesCounted DEF NumEdges
  <2>3. Chunk \in Nat \ {0} /\ Degree(most) \in Nat /\ input.threads \in Nat \ {0}
    BY <1>1, GraphTyped, ChunkIs
  <2>4. QED
    BY ONLY <2>1, <2>2, <2>3
<1>6. /\ c.th \in 1 .. T /\ c.last \in Nat /\ e - c.last < chunk
      /\ c.th < T => c.last <= (c.th - 1) * (chunk - 1 + m)
      /\ c.set \in [0 .. T -> 0 .. n] /\ c.set[0] = 0
      /\ \A i, j \in 0 .. c.th - 1 : i <= j => c.set[i] <= c.set[j]
  BY <1>4, <1>5 DEF SoFar
<1>7. c.th = T
  <2>1. SUFFICES ASSUME c.th < T PROVE FALSE
    BY <1>6
  <2>2. PICK b \in Nat : b = chunk - 1 + m
    BY <1>5
  <2>3. PICK x \in Nat, y \in Nat : x = c.th - 1 /\ y = (T - 2) - x
    BY <1>5, <1>6, <2>1
  <2>4. (x + y) * b = x * b + y * b /\ x * b \in Nat /\ y * b \in Nat /\ x + y = T - 2
    BY <1>5, <2>2, <2>3
  <2>5. PICK f \in Nat, g \in Nat : f = x * b /\ g = y * b
    BY <2>4
  <2>6. (T - 2) * b = f + g
    BY <2>4, <2>5
  <2>7. (T - 2) * b + chunk <= e
    BY <1>1, <1>5, <2>2
  <2>8. c.last <= f
    BY <1>6, <2>1, <2>2, <2>3, <2>5
  <2>9. f + g + chunk <= e
    BY <2>6, <2>7
  <2>10. chunk \in Nat /\ c.last \in Nat /\ e - c.last < chunk
    BY <1>5, <1>6
  <2>11. QED
    BY <2>8, <2>9, <2>10
<1>8. Workset = [c.set EXCEPT ![T] = n]
  BY <1>5 DEF Workset, c
<1>9. Workset \in [0 .. T -> 0 .. n] /\ Workset[0] = 0 /\ Workset[T] = n
  BY <1>5, <1>6, <1>8
<1>10. ASSUME NEW i \in 0 .. T, NEW j \in 0 .. T, i <= j PROVE Workset[i] <= Workset[j]
  <2>1. CASE j = T
    <3>1. Workset[i] \in 0 .. n
      BY <1>9
    <3>2. QED
      BY <1>9, <2>1, <3>1
  <2>2. CASE j # T
    <3>1. i \in 0 .. c.th - 1 /\ j \in 0 .. c.th - 1 /\ i # T
      BY <1>5, <1>7, <1>10, <2>2
    <3>2. Workset[i] = c.set[i] /\ Workset[j] = c.set[j]
      BY <1>6, <1>8, <2>2, <3>1
    <3>3. QED
      BY <1>6, <1>10, <3>1, <3>2
  <2>3. QED
    BY <2>1, <2>2
<1>11. QED
  BY <1>5, <1>9, <1>10

LEMMA RangesAreCut ==
  ASSUME input \in Inputs, EnoughCuts
  PROVE  RangesCut
<1>0. PICK n \in Nat, T \in Nat \ {0} :
        n = Size /\ Vertices = 0 .. n - 1 /\ T = input.threads /\ Tids = 0 .. T - 1
  BY GraphTyped
<1>1. /\ Workset \in [0 .. T -> 0 .. n] /\ Workset[0] = 0 /\ Workset[T] = n
      /\ \A i, j \in 0 .. T : i <= j => Workset[i] <= Workset[j]
  BY <1>0, AllCutsMade
<1>2. ASSUME NEW t \in Tids
      PROVE  /\ t \in 0 .. T /\ t + 1 \in 0 .. T /\ Workset[t] \in 0 .. n /\ Workset[t + 1] \in 0 .. n
             /\ EdgeRange(t) = Workset[t] .. Workset[t + 1] - 1
  BY <1>0, <1>1 DEF EdgeRange
<1>3. ASSUME NEW t \in Tids PROVE EdgeRange(t) \subseteq Vertices
  <2>1. ASSUME NEW v \in EdgeRange(t) PROVE v \in 0 .. n - 1
    BY <1>2, <2>1
  <2>2. QED
    BY <1>0, <2>1
<1>4. ASSUME NEW v \in Vertices PROVE \E t \in Tids : v \in EdgeRange(t)
  <2> DEFINE Above == {i \in 0 .. T : v < Workset[i]}
  <2>1. T \in Above /\ Above \subseteq Nat
    BY <1>0, <1>1
  <2>2. PICK i \in Above : \A y \in Above : i <= y
    <3> HIDE DEF Above
    <3>1. QED
      BY <2>1, SmallestOf
  <2>3. i # 0 /\ i \in 0 .. T
    BY <1>0, <1>1, <2>2
  <2>4. i - 1 \in Tids /\ i - 1 \in 0 .. T /\ i - 1 \notin Above /\ (i - 1) + 1 = i
    <3>1. i - 1 \in 0 .. T /\ ~(i <= i - 1) /\ i - 1 \in 0 .. T - 1 /\ (i - 1) + 1 = i
      BY <1>0, <2>3
    <3> HIDE DEF Above
    <3>2. QED
      BY <1>0, <2>2, <3>1
  <2>5. Workset[i - 1] \in 0 .. n /\ ~(v < Workset[i - 1]) /\ v < Workset[i] /\ Workset[i] \in 0 .. n
    BY <1>1, <2>2, <2>3, <2>4
  <2>6. EdgeRange(i - 1) = Workset[i - 1] .. Workset[i] - 1
    BY <1>2, <2>4
  <2>7. v \in EdgeRange(i - 1)
    BY <1>0, <2>5, <2>6
  <2>8. QED
    BY <2>4, <2>7
<1>5. ASSUME NEW t \in Tids, NEW u \in Tids, t < u PROVE EdgeRange(t) \cap EdgeRange(u) = {}
  <2>1. t + 1 <= u /\ t + 1 \in 0 .. T /\ u \in 0 .. T
    BY <1>0, <1>2, <1>5
  <2>2. Workset[t + 1] <= Workset[u]
    BY <1>1, <2>1
  <2>3. ASSUME NEW v \in EdgeRange(t), v \in EdgeRange(u) PROVE FALSE
    <3>1. v \in Int /\ v <= Workset[t + 1] - 1 /\ v >= Workset[u]
      BY <1>2, <2>3
    <3>2. Workset[t + 1] \in Int /\ Workset[u] \in Int
      BY <1>2
    <3>3. QED
      BY <2>2, <3>1, <3>2
  <2>4. QED
    BY <2>3
<1>6. ASSUME NEW t \in Tids, NEW u \in Tids, t # u PROVE EdgeRange(t) \cap EdgeRange(u) = {}
  <2>1. t < u \/ u < t
    BY <1>0, <1>6
  <2>2. QED
    BY <1>5, <2>1
<1>7. QED
  BY <1>3, <1>4, <1>6 DEF RangesCut

-----------------------------------------------------------------------------
\* At first every thread has its range before it.
LEMMA InitPrepared == RangesCut /\ Init => PInv
<1>1. SUFFICES ASSUME RangesCut, Init PROVE PInv
  OBVIOUS
<1>2. /\ input \in Inputs /\ phase = "prepare"
      /\ neighbors = [v \in Vertices |-> <<>>]
      /\ left = [t \in Tids |-> IF input.prog = "tc" THEN EdgeRange(t) ELSE {}]
  BY ONLY <1>1 DEF Init
<1>3. Typed
  <2>1. \A t \in Tids : EdgeRange(t) \in SUBSET Int
    BY ONLY TRUE DEF EdgeRange
  <2>2. left \in [Tids -> SUBSET Int]
    BY ONLY <1>2, <2>1
  <2>3. neighbors = [v \in Vertices |-> neighbors[v]]
    BY ONLY <1>2
  <2>4. QED
    BY ONLY <1>2, <2>2, <2>3 DEF Typed
<1>4. HalfPrepared
  <2>1. SUFFICES ASSUME input.prog = "tc"
                 PROVE  /\ \A t \in Tids : left[t] \subseteq Vertices
                        /\ \A t, u \in Tids : t # u => left[t] \cap left[u] = {}
                        /\ \A v \in Vertices : v \in Left /\ neighbors[v] = <<>>
    BY ONLY <2>1 DEF HalfPrepared
  <2>2. \A t \in Tids : left[t] = EdgeRange(t)
    BY ONLY <1>2, <2>1
  <2>3. /\ \A t \in Tids : EdgeRange(t) \subseteq Vertices
        /\ \A v \in Vertices : \E t \in Tids : v \in EdgeRange(t)
        /\ \A t, u \in Tids : t # u => EdgeRange(t) \cap EdgeRange(u) = {}
    BY ONLY <1>1, <2>1 DEF RangesCut
  <2>4. \A v \in Vertices : v \in Left
    BY ONLY <2>2, <2>3 DEF Left
  <2>5. \A v \in Vertices : neighbors[v] = <<>>
    BY ONLY <1>2
  <2>6. QED
    BY ONLY <2>2, <2>3, <2>4, <2>5
<1>5. AllPrepared /\ NothingElse
  BY ONLY <1>2 DEF AllPrepared, NothingElse
<1>6. QED
  BY ONLY <1>3, <1>4, <1>5 DEF PInv

\* A vertex gets its neighbors: nobody else has it left, and it had none.
LEMMA PrepareKeeps ==
  ASSUME PInv, NEW t \in Tids, PrepareVertex(t)
  PROVE  PInv'
<1> DEFINE v == Min(left[t])
<1>1. /\ phase = "prepare" /\ left[t] # {}
      /\ neighbors' = [neighbors EXCEPT ![v] = Sorted(neighbors[v] \o Edges[v])]
      /\ left' = [left EXCEPT ![t] = left[t] \ {v}]
      /\ UNCHANGED <<input, phase>>
  BY ONLY PrepareVertex(t) DEF PrepareVertex
<1>2. /\ Typed /\ input.prog = "tc"
      /\ \A u \in Tids : left[u] \subseteq Vertices
      /\ \A u, w \in Tids : u # w => left[u] \cap left[w] = {}
      /\ \A x \in Vertices : IF x \in Left THEN neighbors[x] = <<>> ELSE Len(neighbors[x]) = Degree(x)
  BY ONLY <1>1, PInv, t \in Tids DEF PInv, NothingElse, HalfPrepared
<1>3. v \in left[t] /\ v \in Vertices /\ v \in Left
  <2>1. left[t] \in SUBSET Nat
    BY ONLY <1>2, GraphTyped, t \in Tids DEF Typed
  <2>2. v \in left[t]
    BY ONLY <1>1, <2>1, MinExists
  <2>3. QED
    BY ONLY <1>2, <2>2, t \in Tids DEF Left
<1> HIDE DEF v
<1>4. /\ \A u \in Tids : left'[u] = IF u = t THEN left[u] \ {v} ELSE left[u]
      /\ left' \in [Tids -> SUBSET Int]
  BY ONLY <1>1, <1>2, t \in Tids DEF Typed
<1>5. \A x : x \in Left' <=> x \in Left /\ x # v
  BY ONLY <1>1, <1>2, <1>3, <1>4, GraphStays, t \in Tids DEF Left
<1>6. Len(neighbors'[v]) = Degree(v)
  <2>1. neighbors[v] = <<>> /\ Edges[v] \in Seq(Vertices)
    BY ONLY <1>2, <1>3, GraphTyped DEF Typed
  <2>2. neighbors[v] \o Edges[v] = Edges[v]
    BY ONLY <2>1
  <2>3. neighbors'[v] = Sorted(Edges[v])
    BY ONLY <1>1, <1>2, <1>3, <2>2 DEF Typed
  <2>4. QED
    BY ONLY <2>1, <2>3, SortedLength DEF Degree
<1>7. \A x \in Vertices \ {v} : neighbors'[x] = neighbors[x]
  BY ONLY <1>1, <1>2 DEF Typed
<1>8. Typed'
  <2>1. neighbors' = [x \in Vertices |-> neighbors'[x]]
    BY ONLY <1>1, <1>2 DEF Typed
  <2>2. QED
    BY ONLY <1>1, <1>2, <1>4, <2>1, GraphStays DEF Typed
<1>9. HalfPrepared'
  <2>1. \A u \in Tids : left'[u] \subseteq Vertices
    BY ONLY <1>2, <1>4
  <2>2. \A u, w \in Tids : u # w => left'[u] \cap left'[w] = {}
    BY ONLY <1>2, <1>4
  <2>3. ASSUME NEW x \in Vertices
        PROVE  IF x \in Left' THEN neighbors'[x] = <<>> ELSE Len(neighbors'[x]) = Degree(x)
    BY ONLY <1>2, <1>3, <1>5, <1>6, <1>7, <2>3
  <2>4. Vertices' = Vertices /\ Tids' = Tids /\ \A x : Degree(x)' = Degree(x)
    BY ONLY <1>1, GraphStays
  <2>5. QED
    BY ONLY <2>1, <2>2, <2>3, <2>4 DEF HalfPrepared, Degree
<1>10. AllPrepared' /\ NothingElse'
  BY ONLY <1>1, <1>2 DEF AllPrepared, NothingElse
<1>11. QED
  BY ONLY <1>8, <1>9, <1>10 DEF PInv

\* When nothing is left to prepare everything is prepared, and the next phase may
\* begin whatever the threads have before them in it.
LEMMA PhaseBegins ==
  ASSUME PInv, Prepared, phase' # "prepare", UNCHANGED <<input, neighbors>>,
         left' \in [Tids -> SUBSET Int]
  PROVE  PInv'
<1>1. Left = {}
  BY ONLY Prepared DEF Prepared, Left
<1>2. input.prog = "tc" => \A v \in Vertices : Len(neighbors[v]) = Degree(v)
  BY ONLY <1>1, PInv, Prepared DEF PInv, HalfPrepared, Prepared
<1>3. AllPrepared'
  BY ONLY <1>2, GraphStays, UNCHANGED <<input, neighbors>> DEF AllPrepared, Degree
<1>4. Typed'
  BY ONLY PInv, GraphStays, UNCHANGED <<input, neighbors>>, left' \in [Tids -> SUBSET Int]
     DEF PInv, Typed
<1>5. HalfPrepared' /\ NothingElse'
  BY ONLY phase' # "prepare" DEF HalfPrepared, NothingElse
<1>6. QED
  BY ONLY <1>3, <1>4, <1>5 DEF PInv

\* A run that ends with nothing left keeps what is prepared.
LEMMA RunEnds ==
  ASSUME PInv, phase # "prepare" \/ Prepared, \A t \in Tids : left[t] = {},
         UNCHANGED <<input, neighbors, left>>
  PROVE  PInv'
<1>1. Left = {}
  BY DEF Left
<1>2. input.prog = "tc" => \A v \in Vertices : Len(neighbors[v]) = Degree(v)
  BY ONLY <1>1, PInv DEF PInv, HalfPrepared, AllPrepared
<1>3. Left' = {} /\ \A t \in Tids' : left'[t] = {}
  BY <1>1, GraphStays DEF Left
<1>4. AllPrepared' /\ HalfPrepared' /\ NothingElse'
  <2>1. \A v \in Vertices' : input'.prog = "tc" => Len(neighbors'[v]) = Degree(v)'
    BY ONLY <1>2, GraphStays, UNCHANGED <<input, neighbors>>
  <2>2. AllPrepared'
    BY ONLY <2>1 DEF AllPrepared
  <2>3. HalfPrepared'
    BY ONLY <1>3, <2>1 DEF HalfPrepared
  <2>4. QED
    BY ONLY <1>3, <2>2, <2>3 DEF NothingElse
<1>5. Typed'
  BY GraphStays DEF PInv, Typed
<1>6. QED
  BY ONLY <1>4, <1>5 DEF PInv

\* A thread of an OpenMP run begins a vertex.
LEMMA BeginKeeps ==
  ASSUME PInv, NEW t \in Tids, BeginVertex(t)
  PROVE  PInv'
<1>1. /\ phase = "compute" /\ UNCHANGED <<input, phase, neighbors>>
      /\ left' = [left EXCEPT ![t] = left[t] \ {Min(left[t])}]
  BY ONLY BeginVertex(t) DEF BeginVertex
<1>2. left' \in [Tids -> SUBSET Int]
  BY ONLY PInv, <1>1 DEF PInv, Typed
<1>3. Typed'
  BY ONLY PInv, <1>1, <1>2, GraphStays DEF PInv, Typed
<1>4. AllPrepared' /\ HalfPrepared' /\ NothingElse'
  BY ONLY PInv, <1>1, GraphStays DEF PInv, AllPrepared, HalfPrepared, NothingElse, Degree
<1>5. QED
  BY ONLY <1>3, <1>4 DEF PInv

\* All other steps of the threads read the graph and add to the counts.
LEMMA ThreadKeeps ==
  ASSUME PInv, NEW t \in Tids, Thread(t)
  PROVE  PInv'
<1>1. CASE PrepareVertex(t)
  BY <1>1, PrepareKeeps
<1>2. CASE BeginVertex(t)
  BY <1>2, BeginKeeps
<1>3. CASE WorksetKernel(t) \/ BcKernel(t) \/ LookupKernel(t) \/ CountKernel(t)
  <2>1. UNCHANGED <<input, phase, neighbors, threads>>
    BY ONLY <1>3 DEF WorksetKernel, BcKernel, LookupKernel, CountKernel
  <2>2. QED
    BY <2>1, Undisturbed DEF threads
<1>4. CASE ReduceKernel(t) \/ DcKernel(t) \/ AtomicAdd(t) \/ LockAndLoad(t) \/ StoreAndUnlock(t)
  <2>1. UNCHANGED <<input, phase, neighbors, left>>
    BY ONLY <1>4 DEF ReduceKernel, DcKernel, AtomicAdd, LockAndLoad, StoreAndUnlock
  <2>2. QED
    BY <2>1, Undisturbed
<1>5. QED
  BY ONLY <1>1, <1>2, <1>3, <1>4, Thread(t) DEF Thread

LEMMA StepPrepared == PInv /\ [Next]_vars => PInv'
<1>1. SUFFICES ASSUME PInv, [Next]_vars PROVE PInv'
  OBVIOUS
<1>2. CASE UNCHANGED vars
  BY <1>1, <1>2, Undisturbed DEF vars, threads
<1>3. ASSUME NEW t \in Tids, Thread(t) PROVE PInv'
  BY <1>1, <1>3, ThreadKeeps
<1>4. CASE StartRun
  <2>1. /\ Prepared /\ phase' = "compute" /\ UNCHANGED <<input, neighbors>>
        /\ left' = [t \in Tids |-> IF Omp THEN RangeOf(t) ELSE {}]
    BY ONLY <1>4 DEF StartRun
  <2>2. \A t \in Tids : RangeOf(t) \in SUBSET Int
    BY ONLY TRUE DEF RangeOf, EdgeRange, VertexRange
  <2>3. left' \in [Tids -> SUBSET Int]
    BY ONLY <2>1, <2>2
  <2>4. QED
    BY ONLY <1>1, <2>1, <2>3, PhaseBegins
<1>5. CASE Sequential
  <2>1. Prepared /\ UNCHANGED <<input, neighbors, left>>
    BY ONLY <1>5 DEF Sequential, threads
  <2>2. QED
    BY ONLY <1>1, <2>1, RunEnds DEF Prepared
<1>6. CASE EndRaft \/ EndOmp
  <2>1. /\ phase = "compute" /\ (\A t \in Tids : ~Busy(t))
        /\ UNCHANGED <<input, neighbors, left>>
    BY ONLY <1>6 DEF EndRaft, EndOmp, Arrived, threads
  <2>2. \A t \in Tids : left[t] = {}
    BY ONLY <2>1 DEF Busy
  <2>3. QED
    BY ONLY <1>1, <2>1, <2>2, RunEnds
<1>7. QED
  BY ONLY <1>1, <1>2, <1>3, <1>4, <1>5, <1>6 DEF Next

LEMMA InputStays == [Next]_vars => UNCHANGED input
BY DEF Next, vars, Thread, PrepareVertex, WorksetKernel, BcKernel, LookupKernel, CountKernel,
       ReduceKernel, DcKernel, AtomicAdd, LockAndLoad, StoreAndUnlock, BeginVertex, StartRun,
       Sequential, EndRaft, EndOmp

LEMMA CutsStay == UNCHANGED input => (EnoughCuts' <=> EnoughCuts)
BY Zenon DEF EnoughCuts, NumEdges, EdgesBefore, Size, Degree, Ceil, Vertices, Edges

\* "prepare neighbor set for each vertex" (rl_tc.cpp:406): for every graph, number
\* of threads, runs and repetitions, gen_workset gives every vertex to one thread
\* unless a vertex has too many edges, and counting begins with the neighbors of
\* every vertex complete and nowhere twice.
THEOREM NeighborsPreparedOnce == Spec => []PreparedOnce
<1>1. Init => Ready
  BY InitPrepared, RangesAreCut DEF Init, Ready
<1>2. Ready /\ [Next]_vars => Ready'
  BY StepPrepared, InputStays, CutsStay DEF Ready
<1>3. Ready => PreparedOnce
  BY DEF Ready, PInv, AllPrepared, PreparedOnce
<1>4. QED
  BY <1>1, <1>2, <1>3, PTL DEF Spec
=============================================================================
