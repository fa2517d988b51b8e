------------------------------- MODULE Fluid -------------------------------
(***************************************************************************)
(* The frames of apps/fluidanimate/raftlib_src.cpp.  Particles live in the  *)
(* cells of a grid.  A cell is a list of structures of PPC particles each:  *)
(* its head lies in an array, the others come from the pool of a thread.    *)
(* Every frame bins the particles of the old array into the new one, and    *)
(* then passes the kernels of every thread through stages; an accumulator   *)
(* between two stages waits for all threads.  Numbers are abstracted: of a  *)
(* position the cell is kept, of a density how often it has been added to.  *)
(***************************************************************************)
EXTENDS Integers, Sequences, FiniteSets, TLC, FiniteSetsExt, SequencesExt

CONSTANTS NX, NY, NZ,  \* nx, ny, nz
          NThreads,    \* threadnum, also NUM_GRIDS
          PPC,         \* PARTICLES_PER_CELL
          Starts,      \* the files: sequences of positions, one per particle
          Moves,       \* how far a particle goes in a frame
          Frames,      \* framenum
          Block,       \* ALLOC_MIN_CELLS, what a pool starts with
          MaxCells,    \* bound on the structures of a pool
          Builds       \* "mutex" (USE_MUTEX), "kernels"

Threads == 0 .. NThreads - 1
Cells   == 0 .. NX * NY * NZ - 1
NoThread == -1

XDIVS == LET k == CHOOSE k \in 0 .. NThreads : 2 ^ k = NThreads
             root == 2 ^ (k \div 2)
         IN  IF root * root = NThreads THEN root ELSE 2 * root
ZDIVS == NThreads \div XDIVS

\* hmgweight(threadnum) = 1, the assertions of InitSim and of cellpool_init; the
\* positions of a file lie inside the domain, and "particles cannot travel more
\* than one grid cell per time step" (line 725).
Domain == (0 .. NX - 1) \X (0 .. NY - 1) \X (0 .. NZ - 1)
ASSUME FluidAssumption ==
  /\ {NX, NY, NZ, NThreads, PPC, Block, MaxCells} \subseteq Nat \ {0} /\ Frames \in Nat
  /\ \E k \in 0 .. NThreads : 2 ^ k = NThreads
  /\ {XDIVS, ZDIVS} \subseteq Nat \ {0} /\ XDIVS * ZDIVS = NThreads
  /\ Block <= MaxCells
  /\ \A start \in Starts : start \in Seq(Domain)
  /\ Moves \subseteq (-1 .. 1) \X (-1 .. 1) \X (-1 .. 1)
  /\ Builds \subseteq {"mutex", "kernels"}

VARIABLES
  build,
  low,       \* whether the pools' memory lies below the arrays
  main,      \* what fluidanimate_raftlib is doing
  frame,     \* frames begun
  cells,     \* which of the two arrays is called cells
  num,       \* cnumPars of each array
  heap,      \* the structures' next pointers, and the pools
  slots,     \* the particles in a structure
  last,      \* last_cells
  where,     \* p: the cell a particle's position lies in, or one outside
  at,        \* the stage of each thread
  src, dst,  \* the locals of RebuildGridMTWorker
  mutex,     \* who holds mutex[index][CELL_MUTEX_ID]
  density,
  queue,     \* the ports of the two modification kernels
  done, mod, \* their m_Done and output ports
  file       \* what SaveFile wrote

sim_vars  == <<num, heap, slots, last>>
lane_vars == <<src, dst, mutex>>
mod_vars  == <<density, queue, done, mod>>
vars == <<build, low, main, frame, cells, sim_vars, where, at, lane_vars, mod_vars, file>>

-----------------------------------------------------------------------------
(* The grid and its partition.                                              *)

X(c) == c % NX
Y(c) == (c \div NX) % NY
Z(c) == c \div (NX * NY)
Index(p) == (p[3] * NY + p[2]) * NX + p[1]

\* The first cell of the i-th of n parts of a side, rounded to the nearest.
Bound(side, n, i) == (2 * side * i + n) \div (2 * n)
Owns(t, c) ==
  LET i == t \div ZDIVS  j == t % ZDIVS
  IN  /\ X(c) \in Bound(NX, XDIVS, i) .. Bound(NX, XDIVS, i + 1) - 1
      /\ Z(c) \in Bound(NZ, ZDIVS, j) .. Bound(NZ, ZDIVS, j + 1) - 1
Grid(t) == {c \in Cells : Owns(t, c)}
OwnerOf(c) == CHOOSE t \in Threads : Owns(t, c)

Clamp(v, n) == IF v < 0 THEN 0 ELSE IF v > n - 1 THEN n - 1 ELSE v
CellAt(p) == Index(<<Clamp(p[1], NX), Clamp(p[2], NY), Clamp(p[3], NZ)>>)

Around(c) == {<<X(c) + i, Y(c) + j, Z(c) + k>> : i \in -1 .. 1, j \in -1 .. 1, k \in -1 .. 1}
Neighbours(c) ==
  {Index(p) : p \in {q \in Around(c) : q[1] \in 0 .. NX - 1 /\ q[2] \in 0 .. NY - 1
                                                          /\ q[3] \in 0 .. NZ - 1}}

\* Cells that particles of another grid can enter.
border == [c \in Cells |-> \E p \in Around(c) : CellAt(p) \notin Grid(OwnerOf(c))]

-----------------------------------------------------------------------------
(* Structures: heads <<1, c>> and <<2, c>> of the two arrays, and <<3 + t,   *)
(* n>> of pool t.  The pools: cellpool.cpp.                                  *)

Null == <<0, 0>>
Heads == {1, 2} \X Cells
Structs == {Null} \cup Heads \cup ({3 + t : t \in Threads} \X (1 .. MaxCells))
Blank == [j \in 0 .. PPC - 1 |-> 0]

Below(s, r) == LET Rank(q) == IF low /\ q[1] > 2 THEN q[1] - 9999 ELSE q[1]
               IN  Rank(s) < Rank(r) \/ (Rank(s) = Rank(r) /\ s[2] < r[2])

\* Another block, twice as large as the one before.
AllocBlock(h, t) ==
  LET from == h.used[t]
      to   == from + h.alloc[t]
  IN  [next  |-> [s \in Structs |-> IF s[1] = 3 + t /\ s[2] \in from + 1 .. to
                    THEN (IF s[2] < to THEN <<3 + t, s[2] + 1>> ELSE Null)
                    ELSE h.next[s]],
       pool  |-> [h.pool EXCEPT ![t] = <<3 + t, from + 1>>],
       alloc |-> [h.alloc EXCEPT ![t] = 2 * @],
       used  |-> [h.used EXCEPT ![t] = to]]
HasRoom(h, t) == h.pool[t] = Null => h.used[t] + h.alloc[t] <= MaxCells

\* A heap with another next pointer of s, and another first structure in pool t.
Linked(h, s, r) == [h EXCEPT !.next = [@ EXCEPT ![s] = r]]
Pooled(h, t, s) == [h EXCEPT !.pool = [@ EXCEPT ![t] = s]]

\* cellpool_getcell and cellpool_returncell
Got(h, t) ==
  LET g == IF h.pool[t] = Null THEN AllocBlock(h, t) ELSE h
      s == g.pool[t]
  IN  [cell |-> s, heap |-> Linked(Pooled(g, t, g.next[s]), s, Null)]
Returned(h, t, s) == Pooled(Linked(h, s, h.pool[t]), t, s)

\* The structure k steps down a list, and the particles of a cell.
Along(h, s, k) == LET f[i \in 0 .. k] == IF i = 0 THEN s ELSE h.next[f[i - 1]] IN f[k]
StructOf(a, c, j) == Along(heap, <<a, c>>, j \div PPC)
Content(a, c) == [j \in 1 .. num[a][c] |-> slots[StructOf(a, c, j - 1)][(j - 1) % PPC]]

-----------------------------------------------------------------------------
(* InitSim: the particles of the file are put into their cells one by one.   *)

\* Steps from the head to the structure that takes the next of np particles.
Hops(np) == IF np = 0 THEN 0 ELSE (np - 1) \div PPC

Load(start, state, p) ==
  LET c    == CellAt(start[p])
      np   == state.num[c]
      cell == Along(state.heap, <<1, c>>, Hops(np))
      got  == Got(state.heap, state.pool_id)
      full == np % PPC = 0 /\ np # 0
      to   == IF full THEN got.cell ELSE cell
  IN  [num     |-> [state.num EXCEPT ![c] = np + 1],
       heap    |-> IF full THEN Linked(got.heap, cell, got.cell) ELSE state.heap,
       pool_id |-> IF full THEN (state.pool_id + 1) % NThreads ELSE state.pool_id,
       slots   |-> [state.slots EXCEPT ![to] = [@ EXCEPT ![np % PPC] = p]]]

\* cellpool_init, for every pool.
FreshHeap ==
  [next  |-> [s \in Structs |-> IF s[1] > 2 /\ s[2] < Block THEN <<s[1], s[2] + 1>> ELSE Null],
   pool  |-> [t \in Threads |-> <<3 + t, 1>>],
   alloc |-> [t \in Threads |-> Block],
   used  |-> [t \in Threads |-> Block]]

\* After the first n particles of the file.
Loading(start) ==
  LET step[n \in 0 .. Len(start)] ==
        IF n = 0 THEN [num |-> [c \in Cells |-> 0], heap |-> FreshHeap, pool_id |-> 0,
                       slots |-> [s \in Structs |-> Blank]]
        ELSE Load(start, step[n - 1], n)
  IN  step
Loaded(start) == Loading(start)[Len(start)]

\* The bound leaves room for the file.
ASSUME RoomToLoad ==
  \A start \in Starts : \A n \in 0 .. Len(start) : \A t \in Threads :
    Loading(start)[n].heap.used[t] <= MaxCells

NoSource == [cell |-> -1, struct |-> Null, j |-> 0]
NoTarget == [cell |-> -1, struct |-> Null, np |-> 0]
Modified == {4, 6}       \* the stages with a modification kernel

Init ==
  /\ build \in Builds /\ low \in BOOLEAN
  /\ \E start \in Starts :
       LET state == Loaded(start)
       IN  /\ where = start
           /\ num = [a \in {1, 2} |-> IF a = 1 THEN state.num ELSE [c \in Cells |-> 0]]
           /\ heap = state.heap /\ slots = state.slots
  /\ main = "frames" /\ frame = 0 /\ cells = 1
  /\ last = [c \in Cells |-> Null]
  /\ at = [t \in Threads |-> <<9, "out">>]
  /\ src = [t \in Threads |-> NoSource]
  /\ dst = [t \in Threads |-> NoTarget]
  /\ mutex = [c \in Cells |-> NoThread]
  /\ density = [s \in Structs |-> Blank]
  /\ queue = [s \in Modified |-> [t \in Threads |-> <<>>]]
  /\ done = [s \in Modified |-> [t \in Threads |-> FALSE]]
  /\ mod = [s \in Modified |-> 0]
  /\ file = <<>>

Particles == DOMAIN where
cells2 == 3 - cells
ParticlesOf(t) == {p \in Particles : \E c \in Grid(t) : \E j \in 1 .. num[cells][c] : Content(cells, c)[j] = p}

-----------------------------------------------------------------------------
(* A frame: the arrays are swapped and new kernels are made; the producer    *)
(* sends every thread's number, the accumulators pass all of them on when    *)
(* all have come, those behind a modification kernel when it has finished.   *)

AllAt(s) == \A t \in Threads : at[t] = <<s, "out">>

AdvanceFrameMT ==
  /\ main = "frames" /\ AllAt(9) /\ frame < Frames
  /\ frame' = frame + 1 /\ cells' = cells2
  /\ at' = [t \in Threads |-> <<1, "in">>]
  /\ done' = [s \in Modified |-> [t \in Threads |-> FALSE]]
  /\ UNCHANGED <<build, low, main, sim_vars, where, lane_vars, density, queue, mod, file>>

SimpleAccumulator ==
  \E s \in {1, 2, 3, 5, 7, 8} :
    /\ AllAt(s)
    /\ at' = [t \in Threads |-> <<s + 1, "in">>]
    /\ UNCHANGED <<build, low, main, frame, cells, sim_vars, where, lane_vars, mod_vars, file>>

\* Mutant: does not wait for the modification kernel.
AdvancedAccumulator_NoWait ==
  \E s \in Modified :
    /\ AllAt(s)
    /\ mod' = mod
    /\ at' = [t \in Threads |-> <<s + 1, "in">>]
    /\ UNCHANGED <<build, low, main, frame, cells, sim_vars, where, lane_vars, density, queue, done, file>>

AdvancedAccumulator ==
  \E s \in Modified :
    /\ AllAt(s) /\ mod[s] > 0
    /\ mod' = [mod EXCEPT ![s] = @ - 1]
    /\ at' = [t \in Threads |-> <<s + 1, "in">>]
    /\ UNCHANGED <<build, low, main, frame, cells, sim_vars, where, lane_vars, density, queue, done, file>>

Pass(t, s) == at[t] = <<s, "in">> /\ at' = [at EXCEPT ![t] = <<s, "out">>]

ClearParticles(t) ==
  /\ Pass(t, 1)
  /\ num' = [num EXCEPT ![cells] = [c \in Cells |-> IF Owns(t, c) THEN 0 ELSE num[cells][c]]]
  /\ heap' = [heap EXCEPT !.next = [s \in Structs |->
                IF s[1] = cells /\ Owns(t, s[2]) THEN Null ELSE heap.next[s]]]
  /\ last' = [c \in Cells |-> IF Owns(t, c) THEN <<cells, c>> ELSE last[c]]
  /\ UNCHANGED <<build, low, main, frame, cells, slots, where, lane_vars, mod_vars, file>>

-----------------------------------------------------------------------------
(* RebuildGridMTWorker: the particles of the thread's cells of the old array *)
(* go to the cells of the new one, which may belong to other threads.        *)

\* The first cell of the thread from c on, with the head of its old list.
SourceFrom(t, c) ==
  LET ahead == {d \in Grid(t) : d >= c}
  IN  IF ahead = {} THEN NoSource ELSE [cell |-> Min(ahead), struct |-> <<cells2, Min(ahead)>>, j |-> 0]

MoveOn(t, source) ==
  /\ src' = [src EXCEPT ![t] = source]
  /\ at' = [at EXCEPT ![t] = IF source = NoSource THEN <<2, "out">> ELSE <<2, "next">>]

StartRebuild(t) ==
  /\ at[t] = <<2, "in">>
  /\ MoveOn(t, SourceFrom(t, 0))
  /\ UNCHANGED <<build, low, main, frame, cells, sim_vars, where, dst, mutex, mod_vars, file>>

Left(t) == src[t].j < num[cells2][src[t].cell]
Particle(t) == slots[src[t].struct][src[t].j % PPC]
IsHead(s) == s[1] \in {1, 2}

\* Mutant: takes no mutex.
LockCell_NoMutex(t) ==
  /\ build = "mutex" /\ at[t] = <<2, "next">> /\ Left(t)
  /\ LET c == CellAt(where[Particle(t)])
     IN  dst' = [dst EXCEPT ![t] = [cell |-> c, struct |-> last[c], np |-> num[cells][c]]]
  /\ at' = [at EXCEPT ![t] = <<2, "add">>]
  /\ UNCHANGED <<build, low, main, frame, cells, sim_vars, where, src, mutex, mod_vars, file>>

\* The mutex of a border cell, and the reads under it.
LockCell(t) ==
  /\ build = "mutex" /\ at[t] = <<2, "next">> /\ Left(t)
  /\ LET c == CellAt(where[Particle(t)])
     IN  /\ IF border[c] THEN mutex[c] = NoThread /\ mutex' = [mutex EXCEPT ![c] = t]
                         ELSE mutex' = mutex
         /\ dst' = [dst EXCEPT ![t] = [cell |-> c, struct |-> last[c], np |-> num[cells][c]]]
  /\ at' = [at EXCEPT ![t] = <<2, "add">>]
  /\ UNCHANGED <<build, low, main, frame, cells, sim_vars, where, src, mod_vars, file>>

\* Another structure if all are full, the count, and the unlock.
AddToCell(t) ==
  LET c == dst[t].cell
      got == Got(heap, t)
      full == dst[t].np % PPC = 0 /\ num[cells][c] # 0
  IN  /\ at[t] = <<2, "add">>
      /\ IF full THEN /\ HasRoom(heap, t)
                      /\ heap' = Linked(got.heap, dst[t].struct, got.cell)
                      /\ last' = [last EXCEPT ![c] = got.cell]
                      /\ dst' = [dst EXCEPT ![t] = [@ EXCEPT !.struct = got.cell]]
                 ELSE UNCHANGED <<heap, last, dst>>
      /\ num' = [num EXCEPT ![cells] = [@ EXCEPT ![c] = num[cells][c] + 1]]
      /\ mutex' = [mutex EXCEPT ![c] = IF @ = t THEN NoThread ELSE @]
      /\ at' = [at EXCEPT ![t] = <<2, "copy">>]
      /\ UNCHANGED <<build, low, main, frame, cells, slots, where, src, mod_vars, file>>

\* Mutant: gives heads back to the pool.
Advanced_Heads(t, h) ==
  IF src[t].j % PPC = PPC - 1
    THEN [struct |-> h.next[src[t].struct], heap |-> Returned(h, t, src[t].struct)]
    ELSE [struct |-> src[t].struct, heap |-> h]

\* After particle j of a structure: at its end on to the next one, and the old
\* one back to the pool unless it is a head.
Advanced(t, h) ==
  IF src[t].j % PPC = PPC - 1
    THEN [struct |-> h.next[src[t].struct],
          heap |-> IF IsHead(src[t].struct) THEN h ELSE Returned(h, t, src[t].struct)]
    ELSE [struct |-> src[t].struct, heap |-> h]

CopyParticle(t) ==
  /\ at[t] = <<2, "copy">>
  /\ slots' = [slots EXCEPT ![dst[t].struct] = [@ EXCEPT ![dst[t].np % PPC] = Particle(t)]]
  /\ LET next == Advanced(t, heap)
     IN  /\ src' = [src EXCEPT ![t] = [cell |-> @.cell, struct |-> next.struct, j |-> @.j + 1]]
         /\ heap' = next.heap
  /\ dst' = [dst EXCEPT ![t] = NoTarget]
  /\ at' = [at EXCEPT ![t] = <<2, "next">>]
  /\ UNCHANGED <<build, low, main, frame, cells, num, last, where, mutex, mod_vars, file>>

FinishCell(t) ==
  /\ build = "mutex" /\ at[t] = <<2, "next">> /\ ~Left(t)
  /\ heap' = IF src[t].struct # Null /\ ~IsHead(src[t].struct)
               THEN Returned(heap, t, src[t].struct) ELSE heap
  /\ MoveOn(t, SourceFrom(t, src[t].cell + 1))
  /\ UNCHANGED <<build, low, main, frame, cells, num, slots, last, where, dst, mutex, mod_vars, file>>

-----------------------------------------------------------------------------
(* Without mutexes the same work is a loop of kernels: worker 0 walks the    *)
(* cells, worker 1 the particles of a cell, one CellModificationKernel does  *)
(* all insertions, worker 2 moves the source pointer.                        *)

RebuildWorker0(t) ==
  /\ build = "kernels" /\ at[t] = <<2, "w0">>
  /\ MoveOn(t, SourceFrom(t, src[t].cell + 1))
  /\ UNCHANGED <<build, low, main, frame, cells, sim_vars, where, dst, mutex, mod_vars, file>>

RebuildWorker1(t) ==
  /\ build = "kernels" /\ at[t] = <<2, "next">>
  /\ IF Left(t)
       THEN /\ dst' = [dst EXCEPT ![t] = [NoTarget EXCEPT !.cell = CellAt(where[Particle(t)])]]
            /\ at' = [at EXCEPT ![t] = <<2, "modify">>]
       ELSE /\ dst' = dst
            /\ at' = [at EXCEPT ![t] = <<2, "w0">>]
  /\ UNCHANGED <<build, low, main, frame, cells, sim_vars, where, src, mutex, mod_vars, file>>

CellModification(t) ==
  LET c == dst[t].cell
      np == num[cells][c]
      got == Got(heap, t)
      full == np % PPC = 0 /\ np # 0
      to == IF full THEN got.cell ELSE last[c]
  IN  /\ at[t] = <<2, "modify">>
      /\ IF full THEN /\ HasRoom(heap, t)
                      /\ heap' = Linked(got.heap, last[c], got.cell)
                      /\ last' = [last EXCEPT ![c] = got.cell]
                 ELSE UNCHANGED <<heap, last>>
      /\ num' = [num EXCEPT ![cells] = [@ EXCEPT ![c] = np + 1]]
      /\ slots' = [slots EXCEPT ![to] = [@ EXCEPT ![np % PPC] = Particle(t)]]
      /\ dst' = [dst EXCEPT ![t] = NoTarget]
      /\ at' = [at EXCEPT ![t] = <<2, "w2">>]
      /\ UNCHANGED <<build, low, main, frame, cells, where, src, mutex, mod_vars, file>>

RebuildWorker2(t) ==
  /\ at[t] = <<2, "w2">>
  /\ LET next == Advanced(t, heap)
     IN  /\ src' = [src EXCEPT ![t] = [cell |-> @.cell, struct |-> next.struct, j |-> @.j + 1]]
         /\ heap' = next.heap
  /\ at' = [at EXCEPT ![t] = <<2, "next">>]
  /\ UNCHANGED <<build, low, main, frame, cells, num, slots, last, where, dst, mutex, mod_vars, file>>

-----------------------------------------------------------------------------
(* Densities: every pair of particles adds to both, through the queue of one *)
(* modification kernel.  All pairs of neighbouring cells are within reach.   *)

Spots(c) == {<<c, j>> : j \in 0 .. num[cells][c] - 1}
Struct(q) == StructOf(cells, q[1], q[2])
Lower(q, p) == \/ Below(Struct(q), Struct(p))
               \/ Struct(q) = Struct(p) /\ q[2] % PPC < p[2] % PPC

\* InitNeighCellList: the cell itself and the neighbours before it.
NeighCells(c) == {c} \cup {d \in Neighbours(c) : d < c}
Pairs(t) == {pair \in UNION {Spots(c) \X UNION {Spots(d) : d \in NeighCells(c)} : c \in Grid(t)} :
               Lower(pair[2], pair[1])}

Clear(f, set) == [s \in Structs |-> [j \in 0 .. PPC - 1 |-> IF <<s, j>> \in set THEN 0 ELSE f[s][j]]]
Slot(q) == <<Struct(q), q[2] % PPC>>
SlotsOf(t) == {Slot(q) : q \in UNION {Spots(c) : c \in Grid(t)}}

\* Both ends of every pair, in some order.
BothEnds(t) ==
  LET pairs == SetToSeq(Pairs(t))
  IN  [i \in 1 .. 2 * Len(pairs) |-> Slot(pairs[(i + 1) \div 2][IF i % 2 = 1 THEN 1 ELSE 2])]

InitDensitiesAndForces(t) ==
  /\ Pass(t, 3)
  /\ density' = Clear(density, SlotsOf(t))
  /\ UNCHANGED <<build, low, main, frame, cells, sim_vars, where, lane_vars, queue, done, mod, file>>

DoneMark == <<Null, -1>>
Sends(t, s, slotseq) == queue' = [queue EXCEPT ![s][t] = @ \o Append(slotseq, DoneMark)]

ComputeDensities(t) ==
  /\ Pass(t, 4)
  /\ Sends(t, 4, BothEnds(t))
  /\ UNCHANGED <<build, low, main, frame, cells, sim_vars, where, lane_vars, density, done, mod, file>>

ComputeDensities2(t) ==
  /\ Pass(t, 5)
  /\ density' = [s \in Structs |-> [j \in 0 .. PPC - 1 |->
                   density[s][j] + (IF <<s, j>> \in SlotsOf(t) THEN 1 ELSE 0)]]
  /\ UNCHANGED <<build, low, main, frame, cells, sim_vars, where, lane_vars, queue, done, mod, file>>

\* The list of neighbours is left empty: only the mark is sent.
ComputeForces(t) ==
  /\ Pass(t, 6)
  /\ Sends(t, 6, <<>>)
  /\ UNCHANGED <<build, low, main, frame, cells, sim_vars, where, lane_vars, density, done, mod, file>>

\* A run of a modification kernel.  The loop over a port compares its index
\* with the shrinking size, so that it takes half of what is there.
Taken(port) == SubSeq(port, 1, (Len(port) + 1) \div 2)
Times(q, s) == Cardinality({p \in Threads \X (1 .. Max({Len(queue[s][u]) : u \in Threads})) :
                              p[2] <= Len(Taken(queue[s][p[1]])) /\ queue[s][p[1]][p[2]] = q})

ModificationKernel(s) ==
  /\ \E t \in Threads : queue[s][t] # <<>>
  /\ queue' = [queue EXCEPT ![s] = [t \in Threads |->
                 SubSeq(@[t], Len(Taken(@[t])) + 1, Len(@[t]))]]
  /\ done' = [done EXCEPT ![s] = [t \in Threads |-> @[t] \/ DoneMark \in ToSet(Taken(queue[s][t]))]]
  /\ mod' = [mod EXCEPT ![s] = @ + (IF \A t \in Threads : done'[s][t] THEN 1 ELSE 0)]
  /\ density' = IF s # 4 THEN density
                ELSE [r \in Structs |-> [j \in 0 .. PPC - 1 |-> density[r][j] + Times(<<r, j>>, s)]]
  /\ UNCHANGED <<build, low, main, frame, cells, sim_vars, where, at, lane_vars, file>>

-----------------------------------------------------------------------------
(* Moving the particles.  The forces decide how far they go: any of Moves.   *)

\* ProcessCollisionsMT bends forces at the walls: what it changes is data.
ProcessCollisions(t) ==
  /\ Pass(t, 7)
  /\ UNCHANGED <<build, low, main, frame, cells, sim_vars, where, lane_vars, mod_vars, file>>

Plus(p, q) == <<p[1] + q[1], p[2] + q[2], p[3] + q[3]>>
AdvanceParticles(t) ==
  /\ Pass(t, 8)
  /\ \E move \in [ParticlesOf(t) -> Moves] :
       where' = [p \in Particles |-> IF p \in ParticlesOf(t)
                   THEN Plus(where[p], move[p]) ELSE where[p]]
  /\ UNCHANGED <<build, low, main, frame, cells, sim_vars, lane_vars, mod_vars, file>>

\* Mutant: only at the lower wall.
Mirror_Low(v, i, n) == IF i = 0 /\ v < 0 THEN -1 - v ELSE v

\* A particle beyond the wall its cell touches is mirrored at the wall.
Mirror(v, i, n) == IF i = 0 /\ v < 0 THEN -1 - v
                   ELSE IF i = n - 1 /\ v > n - 1 THEN 2 * n - 1 - v ELSE v
CellOf(p) == CHOOSE c \in Cells : \E j \in 1 .. num[cells][c] : Content(cells, c)[j] = p

ProcessCollisions2(t) ==
  /\ Pass(t, 9)
  /\ where' = [p \in Particles |-> IF p \in ParticlesOf(t)
                 THEN LET c == CellOf(p)
                      IN  <<Mirror(where[p][1], X(c), NX), Mirror(where[p][2], Y(c), NY),
                            Mirror(where[p][3], Z(c), NZ)>>
                 ELSE where[p]]
  /\ UNCHANGED <<build, low, main, frame, cells, sim_vars, lane_vars, mod_vars, file>>

-----------------------------------------------------------------------------
(* fluidanimate_raftlib after the frames.                                    *)

SaveFile ==
  /\ main = "frames" /\ AllAt(9) /\ frame = Frames
  /\ file' = FlattenSeq([i \in 1 .. NX * NY * NZ |-> Content(cells, i - 1)])
  /\ main' = "clean"
  /\ UNCHANGED <<build, low, frame, cells, sim_vars, where, at, lane_vars, mod_vars>>

\* Every structure behind a head goes to the front of the first pool.
Reach(s) == {Along(heap, s, k) : k \in 0 .. NThreads * MaxCells} \ {Null}
Behind(c) == [k \in 1 .. Cardinality(Reach(heap.next[<<cells, c>>])) |-> Along(heap, <<cells, c>>, k)]

CleanUpSim ==
  LET temps == FlattenSeq([i \in 1 .. NX * NY * NZ |-> Behind(i - 1)])
      Place(s) == CHOOSE i \in DOMAIN temps : temps[i] = s
  IN  /\ main = "clean" /\ main' = "end"
      /\ heap' = [next |-> [s \in Structs |->
                    IF s[1] = cells THEN Null
                    ELSE IF s \notin ToSet(temps) THEN heap.next[s]
                    ELSE IF Place(s) = 1 THEN heap.pool[0] ELSE temps[Place(s) - 1]],
                  pool |-> [heap.pool EXCEPT ![0] = IF temps = <<>> THEN @ ELSE Last(temps)],
                  alloc |-> heap.alloc, used |-> heap.used]
      /\ UNCHANGED <<build, low, frame, cells, num, slots, last, where, at, lane_vars, mod_vars, file>>

Lane(t) == \/ ClearParticles(t) \/ StartRebuild(t) \/ LockCell(t) \/ AddToCell(t)
           \/ CopyParticle(t) \/ FinishCell(t) \/ RebuildWorker0(t) \/ RebuildWorker1(t)
           \/ RebuildWorker2(t) \/ InitDensitiesAndForces(t) \/ ComputeDensities(t)
           \/ ComputeDensities2(t) \/ ComputeForces(t) \/ ProcessCollisions(t)
           \/ AdvanceParticles(t) \/ ProcessCollisions2(t)
Accumulator == SimpleAccumulator \/ AdvancedAccumulator
Main == AdvanceFrameMT \/ SaveFile \/ CleanUpSim

Next == \/ \E t \in Threads : Lane(t) \/ CellModification(t)
        \/ \E s \in Modified : ModificationKernel(s)
        \/ Accumulator
        \/ Main
        \/ main = "end" /\ UNCHANGED vars

\* Every step is progress and only the end stutters, so that a wait without end
\* would be a deadlock.
Spec == Init /\ [][Next]_vars

-----------------------------------------------------------------------------
(* Properties.                                                              *)

\* Once the grid is rebuilt, and until the particles move, every particle is in
\* the cell of its position, exactly once; nothing is lost or copied twice when
\* two threads add to a cell of the border at the same time (lines 730-763).
Rebuilt == \A t \in Threads : at[t][1] > 2
EachParticleOnce ==
  main # "end" /\ Rebuilt =>
    LET binned == UNION {{<<Content(cells, c)[j], c, j>> : j \in 1 .. num[cells][c]} : c \in Cells}
    IN  /\ frame > 0 => {b[1] : b \in binned} = Particles
        /\ frame > 0 => Cardinality(binned) = Cardinality(Particles)
        /\ (\A t \in Threads : at[t][1] < 8) => \A b \in binned : CellAt(where[b[1]]) = b[2]

\* The lists in use: the pools, the lists of the cleared cells, what is left of
\* the old ones.
Unread(t) == IF at[t] \in {<<1, "in">>, <<1, "out">>, <<2, "in">>} THEN Grid(t)
             ELSE IF src[t] = NoSource THEN {} ELSE {d \in Grid(t) : d > src[t].cell}
Tags == {<<"pool", t>> : t \in Threads}
   \cup {<<"cells", c>> : c \in {d \in Cells : at[OwnerOf(d)] # <<1, "in">>}}
   \cup {<<"source", t>> : t \in {u \in Threads : src[u] # NoSource}}
   \cup UNION {{<<"cells2", c>> : c \in Unread(t)} : t \in Threads}
FirstOf(tag) ==
  CASE tag[1] = "pool" -> heap.pool[tag[2]]
    [] tag[1] = "cells" -> heap.next[<<cells, tag[2]>>]
    [] tag[1] = "cells2" -> heap.next[<<cells2, tag[2]>>]
    [] tag[1] = "source" -> LET s == src[tag[2]].struct
                            IN  IF IsHead(s) THEN heap.next[s] ELSE s
Lists == [tag \in Tags |-> FirstOf(tag)]
Used == UNION {{3 + t} \X (1 .. heap.used[t]) : t \in Threads}

\* A structure of a pool is never in two lists, though the threads take them for
\* cells of each other and give them back to other pools than they came from
\* (the note at line 760); with mutexes none is lost, and after the clean-up all
\* are back in the pools (lines 457-467).
StructuresApart ==
  LET reach == [tag \in DOMAIN Lists |-> Reach(Lists[tag])]
  IN  /\ \A a, b \in DOMAIN reach : a # b => reach[a] \cap reach[b] = {}
      /\ build = "mutex" =>
           Used = UNION {reach[a] : a \in {b \in DOMAIN reach : main = "end" => b[1] = "pool"}}

\* What a density is used for is the sum over all pairs of the particle that the
\* address test keeps, each once, and the particle itself: no thread goes on
\* before the modification kernel has added everything (lines 1231-1276).
AllSpots == UNION {Spots(c) : c \in Cells}
Counted == {pair \in AllSpots \X AllSpots :
              pair[2][1] \in NeighCells(pair[1][1]) /\ Lower(pair[2], pair[1])}
Added(t) == at[t] = <<5, "out">> \/ at[t][1] > 5
DensitySettled ==
  (\A t \in Threads : at[t][1] \in 5 .. 7) =>
    /\ queue[4] = [t \in Threads |-> <<>>]
    /\ \A c \in Cells : \A q \in Spots(c) :
         density[Struct(q)][q[2] % PPC] =
           Cardinality({pair \in Counted : q \in {pair[1], pair[2]}}) + (IF Added(OwnerOf(c)) THEN 1 ELSE 0)

\* The file holds every particle (the assertion count == numParticles, 450), and
\* every particle is inside the domain again (line 1629).
SavedAll ==
  main \in {"clean", "end"} =>
    /\ Len(file) = Cardinality(Particles) /\ ToSet(file) = Particles
    /\ \A p \in Particles : where[p] \in Domain

=============================================================================
