-------------------------- MODULE FluidInvariant ---------------------------
(***************************************************************************)
(* The inductive invariant of the frames of fluidanimate, and what each     *)
(* operation on the lists of structures does to it.                         *)
(***************************************************************************)
EXTENDS Fluid

-----------------------------------------------------------------------------
(* The inductive invariant.  Every structure carries a label, own: the list *)
(* it is in, named by the head of a cell's list or by the number of a pool, *)
(* or Null; and idx, its place in that list.  A particle has a location,    *)
(* loc: a structure and a slot.                                             *)

Base(i) == i * PPC
PoolLabel(t) == <<3 + t, 0>>
Labels == {Null} \cup Heads \cup {PoolLabel(t) : t \in Threads}

HeapOK(h) ==
  /\ h \in [next : [Structs -> Structs], pool : [Threads -> Structs],
            alloc : [Threads -> Nat \ {0}], used : [Threads -> Nat]]
  /\ \A t \in Threads : h.used[t] <= MaxCells

\* The pointers follow the labels; the pools begin with their first structures.
Strung(next, used, own, idx) ==
  /\ own \in [Structs -> Labels] /\ idx \in [Structs -> Int]
  /\ own[Null] = Null /\ next[Null] = Null
  /\ \A s \in Structs : own[s] # Null /\ next[s] # Null =>
       own[next[s]] = own[s] /\ idx[next[s]] = idx[s] + 1
  /\ \A s, r \in Structs : own[s] # Null /\ own[r] = own[s] /\ next[s] = Null => idx[r] <= idx[s]
  /\ \A s, r \in Structs : own[s] # Null /\ own[r] = own[s] /\ idx[r] = idx[s] => r = s
  /\ \A s \in Heads : own[s] # Null => own[s] = s /\ idx[s] = 0
  /\ \A s \in Structs \ Heads : own[s] \in Heads => idx[s] > 0
  /\ \A t \in Threads : \A n \in 1 .. MaxCells : n > used[t] => own[<<3 + t, n>>] = Null
Pooling(pool, own, idx) ==
  \A t \in Threads :
    IF pool[t] = Null THEN \A s \in Structs : own[s] # PoolLabel(t)
    ELSE /\ own[pool[t]] = PoolLabel(t)
         /\ \A s \in Structs : own[s] = PoolLabel(t) => idx[pool[t]] <= idx[s]
Chained(h, own, idx) == Strung(h.next, h.used, own, idx) /\ Pooling(h.pool, own, idx)

\* The lists in use: where they start, with which of their particles, and how
\* many particles they have got.
Listed(h, own, idx, live, entry, first, size) ==
  /\ \A s \in Structs : own[s] \in Heads =>
       /\ own[s] \in live
       /\ idx[s] = 0 \/ Base(idx[s]) < size[own[s]]
       /\ h.next[s] = Null => size[own[s]] <= Base(idx[s] + 1)
       /\ first[own[s]] < Base(idx[s] + 1)
  /\ \A l \in live :
       IF entry[l] = Null THEN size[l] <= first[l] /\ \A s \in Structs : own[s] # l
                          ELSE own[entry[l]] = l /\ Base(idx[entry[l]]) <= first[l]

\* The slots in use, of particles from rest on, and the particles in them.
Places(own, idx, rest, size) ==
  {v \in Structs \X (0 .. PPC - 1) :
     /\ own[v[1]] \in Heads
     /\ Base(idx[v[1]]) + v[2] \in rest[own[v[1]]] .. size[own[v[1]]] - 1}
Placed(sl, places, loc, P) ==
  /\ loc \in [P -> places]
  /\ \A p \in P : sl[loc[p][1]][loc[p][2]] = p
  /\ \A v \in places : sl[v[1]][v[2]] \in P /\ loc[sl[v[1]][v[2]]] = v

\* The lists of the state.
IsSource(l) == l[1] # cells /\ src[OwnerOf(l[2])].cell = l[2]
LiveHeads == {l \in Heads : IF l[1] = cells THEN at[OwnerOf(l[2])] # <<1, "in">>
                            ELSE l[2] \in Unread(OwnerOf(l[2])) \/ IsSource(l)}
Entry == [l \in Heads |-> IF IsSource(l) THEN src[OwnerOf(l[2])].struct ELSE l]
First == [l \in Heads |-> IF IsSource(l) THEN src[OwnerOf(l[2])].j ELSE 0]
Rest  == [l \in Heads |-> IF IsSource(l) /\ at[OwnerOf(l[2])] = <<2, "w2">>
                            THEN src[OwnerOf(l[2])].j + 1 ELSE First[l]]
Size  == [l \in Heads |-> num[l[1]][l[2]]]
Reserved == {<<dst[t].struct, dst[t].np % PPC>> : t \in {u \in Threads : at[u] = <<2, "copy">>}}

Labelled(own, idx) ==
  /\ Chained(heap, own, idx)
  /\ Listed(heap, own, idx, LiveHeads, Entry, First, Size)
  /\ build = "mutex" => \A s \in Used : own[s] # Null
Stored(own, idx, loc) == Placed(slots, Places(own, idx, Rest, Size) \ Reserved, loc, Particles)

\* Where the particles are.
Near(p, c) == p[1] - X(c) \in -1 .. 1 /\ p[2] - Y(c) \in -1 .. 1 /\ p[3] - Z(c) \in -1 .. 1
Position(p, l) ==
  LET owner == OwnerOf(l[2])
  IN  /\ Near(where[p], l[2])
      /\ at[owner] \notin {<<8, "out">>, <<9, "in">>} => where[p] \in Domain
      /\ l[1] = cells /\ (at[owner][1] \in 2 .. 7 \/ at[owner] \in {<<1, "out">>, <<8, "in">>}) =>
           CellAt(where[p]) = l[2]
Located(own, loc) == \A p \in Particles : Position(p, own[loc[p][1]])

\* The threads.
Inner == {<<2, "next">>, <<2, "add">>, <<2, "copy">>, <<2, "w0">>, <<2, "modify">>, <<2, "w2">>}
Labelings == (1 .. 9) \X {"in", "out"} \cup Inner
TypeOK ==
  /\ build \in {"mutex", "kernels"} /\ main \in {"frames", "clean", "end"}
  /\ frame \in Nat /\ cells \in {1, 2}
  /\ num \in [{1, 2} -> [Cells -> Nat]] /\ HeapOK(heap)
  /\ slots \in [Structs -> [0 .. PPC - 1 -> Int]] /\ last \in [Cells -> Structs]
  /\ Particles \subseteq Int /\ IsFiniteSet(Particles) /\ where \in [Particles -> Int \X Int \X Int]
  /\ at \in [Threads -> Labelings]
  /\ src \in [Threads -> [cell : Cells \cup {-1}, struct : Structs, j : Nat]]
  /\ dst \in [Threads -> [cell : Cells \cup {-1}, struct : Structs, np : Nat]]
  /\ mutex \in [Cells -> Threads \cup {NoThread}]
InStep ==
  /\ \A t, u \in Threads : at[t][1] = at[u][1]
  /\ main # "frames" => AllAt(9)
Reading ==
  \A t \in Threads :
    /\ at[t] \in {<<2, "add">>, <<2, "copy">>} => build = "mutex"
    /\ at[t] \in {<<2, "w0">>, <<2, "modify">>, <<2, "w2">>} => build = "kernels"
    /\ at[t] \in Inner <=> src[t] # NoSource
    /\ src[t] # NoSource => src[t].cell \in Grid(t)
    /\ at[t] = <<2, "w0">> => ~Left(t)
    /\ at[t] \in {<<2, "add">>, <<2, "copy">>, <<2, "modify">>, <<2, "w2">>} => Left(t)
    /\ at[t] \in {<<2, "add">>, <<2, "copy">>, <<2, "modify">>} => dst[t].cell = CellAt(where[Particle(t)])
Adding(own, idx) ==
  /\ \A c \in Cells : at[OwnerOf(c)] = <<1, "out">> \/ at[OwnerOf(c)][1] = 2 =>
       own[last[c]] = <<cells, c>> /\ heap.next[last[c]] = Null
  /\ \A t \in Threads : at[t] = <<2, "add">> =>
       /\ dst[t].np = num[cells][dst[t].cell] /\ dst[t].struct = last[dst[t].cell]
       /\ IF border[dst[t].cell] THEN mutex[dst[t].cell] = t ELSE OwnerOf(dst[t].cell) = t
  /\ \A t \in Threads : at[t] = <<2, "copy">> =>
       /\ own[dst[t].struct] = <<cells, dst[t].cell>>
       /\ dst[t].np < num[cells][dst[t].cell]
       /\ Base(idx[dst[t].struct]) + (dst[t].np % PPC) = dst[t].np
  /\ \A t, u \in Threads : at[t] = <<2, "copy">> /\ at[u] = <<2, "copy">> /\ t # u =>
       dst[t].struct # dst[u].struct \/ dst[t].np # dst[u].np

Working == \E own, idx, loc :
             Labelled(own, idx) /\ Stored(own, idx, loc) /\ Located(own, loc) /\ Adding(own, idx)
\* After the clean-up every list is that of a pool.
Ended == \E own, idx :
           /\ Chained(heap, own, idx)
           /\ \A s \in Structs : own[s] \notin Heads
           /\ \A c \in Cells : heap.next[<<cells, c>>] = Null
           /\ build = "mutex" => \A s \in Used : own[s] # Null
IInv == /\ TypeOK /\ InStep /\ Reading
        /\ main # "end" => Working
        /\ main = "end" => Ended
        /\ SavedAll

-----------------------------------------------------------------------------
(* The pools and the lists.                                                 *)

\* The structures the pools have allocated so far.
UsedOf(h) == UNION {{3 + t} \X (1 .. h.used[t]) : t \in Threads}
AllLabelled(h, own) == \A s \in UsedOf(h) : own[s] # Null

\* The lists of the cells are as before.
SameCells(next, own, idx, next2, own2, idx2) ==
  /\ \A s \in Structs : own[s] \in Heads => own2[s] = own[s] /\ idx2[s] = idx[s] /\ next2[s] = next[s]
  /\ \A s \in Structs : own2[s] \in Heads => own[s] = own2[s]

\* The function f has another value at l.
With(f, l, v) == [f EXCEPT ![l] = v]
Increased(f, l) == With(f, l, f[l] + 1)

\* One more particle goes into list l, into structure to.
Extends(h, own, idx, live, entry, first, size, l, e, full, to, h2) ==
  /\ HeapOK(h2) /\ to \in Structs /\ h2.next[to] = Null
  /\ full => own[to] \notin Heads
  /\ \E own2, idx2 :
       /\ Chained(h2, own2, idx2)
       /\ Listed(h2, own2, idx2, live, entry, first, Increased(size, l))
       /\ own2[to] = l /\ Base(idx2[to]) + (size[l] % PPC) = size[l]
       /\ \A s \in Structs : own[s] \in Heads =>
            own2[s] = own[s] /\ idx2[s] = idx[s] /\ (s # e => h2.next[s] = h.next[s])
       /\ \A s \in Structs : own2[s] \in Heads /\ s # to => own[s] = own2[s]
       /\ AllLabelled(h, own) => AllLabelled(h2, own2)

\* The first particle of list l has been read, next is where the rest begins.
Reads(h, own, idx, live, entry, first, size, l, next, h2) ==
  /\ HeapOK(h2) /\ next \in Structs
  /\ entry[l] \in Structs /\ own[entry[l]] = l /\ Base(idx[entry[l]]) + (first[l] % PPC) = first[l]
  /\ \E own2, idx2 :
       /\ Chained(h2, own2, idx2)
       /\ Listed(h2, own2, idx2, live, With(entry, l, next), With(first, l, first[l] + 1), size)
       /\ \A r \in Structs : own2[r] \in Heads => own2[r] = own[r] /\ idx2[r] = idx[r] /\ h2.next[r] = h.next[r]
       /\ \A r \in Structs : own[r] \in Heads =>
            own2[r] = own[r] \/ (own[r] = l /\ Base(idx[r] + 1) <= first[l] + 1)
       /\ AllLabelled(h, own) => AllLabelled(h2, own2)

\* List l is no longer in use.
Finishes(h, own, idx, live, entry, first, size, l, give, h2) ==
  /\ HeapOK(h2)
  /\ \E own2, idx2 :
       /\ Chained(h2, own2, idx2)
       /\ Listed(h2, own2, idx2, live \ {l}, entry, first, size)
       /\ \A r \in Structs : own2[r] \in Heads => own2[r] = own[r] /\ idx2[r] = idx[r] /\ h2.next[r] = h.next[r]
       /\ \A r \in Structs : own[r] \in Heads /\ own[r] # l => own2[r] = own[r]
       /\ AllLabelled(h, own) /\ give => AllLabelled(h2, own2)

\* Heads that are in no list become empty lists.
Emptied(h, set) == [h EXCEPT !.next = [s \in Structs |-> IF s \in set THEN Null ELSE h.next[s]]]
Clears(h, own, idx, live, set, entry2, first2, size2) ==
  /\ HeapOK(Emptied(h, set)) /\ \A s \in set : own[s] = Null
  /\ \E own2, idx2 :
       /\ Chained(Emptied(h, set), own2, idx2)
       /\ Listed(Emptied(h, set), own2, idx2, live \cup set, entry2, first2, size2)
       /\ \A s \in Structs : IF s \in set THEN own2[s] = s /\ idx2[s] = 0
                                           ELSE own2[s] = own[s] /\ idx2[s] = idx[s]
       /\ AllLabelled(h, own) => AllLabelled(Emptied(h, set), own2)

\* The elements of a sequence.
Elems(s) == {s[i] : i \in 1 .. Len(s)}
Distinct(s) == \A i, j \in 1 .. Len(s) : s[i] = s[j] => i = j

\* Whatever is in the list of a cell goes to the front of pool 0.
Drained(h, a, temps, h2) ==
  /\ h2 = [next |-> h2.next, pool |-> h2.pool, alloc |-> h.alloc, used |-> h.used]
  /\ h2.next \in [Structs -> Structs] /\ h2.pool \in [Threads -> Structs]
  /\ \A s \in Structs : s[1] = a => h2.next[s] = Null
  /\ \A s \in Structs \ Elems(temps) : s[1] # a => h2.next[s] = h.next[s]
  /\ \A i \in 1 .. Len(temps) : h2.next[temps[i]] = IF i = 1 THEN h.pool[0] ELSE temps[i - 1]
  /\ \A t \in Threads : h2.pool[t] = IF t = 0 /\ Len(temps) > 0 THEN temps[Len(temps)] ELSE h.pool[t]

\* f[i] is the structure i steps behind s.
Walk(f, next, s, n) ==
  f \in [0 .. n -> Structs] /\ f[0] = s /\ \A i \in 1 .. n : f[i] = next[f[i - 1]]

\* The sequences of ss one after the other, up to the i-th in g[i].
Glue(g, ss, n) ==
  /\ g = [i \in 1 .. n |-> g[i]]
  /\ \A i \in 1 .. n : g[i] = IF i = 1 THEN ss[i] ELSE g[i - 1] \o ss[i]

-----------------------------------------------------------------------------
(* The places of the particles.                                             *)

Slots == Structs \X (0 .. PPC - 1)

\* The place of one more particle, and of the one that is read next.
NewPlace(own, idx, own2, idx2, rest, size, l, to) ==
  LET new == <<to, size[l] % PPC>>
      A   == Places(own, idx, rest, size)
  IN  /\ new \in Slots /\ new \notin A
      /\ Places(own2, idx2, rest, Increased(size, l)) = A \cup {new}
OldPlace(own, idx, rest, size, l, s) ==
  LET old == <<s, rest[l] % PPC>>
      A   == Places(own, idx, rest, size)
  IN  /\ old \in Slots /\ old \in A
      /\ Places(own, idx, Increased(rest, l), size) = A \ {old}

\* A particle written into a slot.
Written(sl, v, p) == [sl EXCEPT ![v[1]] = [@ EXCEPT ![v[2]] = p]]
AddedTo(loc, P, p, v) == [q \in P \cup {p} |-> IF q = p THEN v ELSE loc[q]]

\* The lists the particles are in are the same, or right for them.
Relocates(own, loc, own2, loc2) ==
  \A p \in Particles : own2[loc2[p][1]] \in Heads /\
    (own2[loc2[p][1]] = own[loc[p][1]] \/ Position(p, own2[loc2[p][1]]))

-----------------------------------------------------------------------------
(* Loading the file: the first n particles are in the lists of their cells.  *)

FirstHeads == {1} \X Cells
FirstEntry == [l \in Heads |-> l]
Zeros == [l \in Heads |-> 0]
SizeOf(number) == [l \in Heads |-> IF l[1] = 1 THEN number[l[2]] ELSE 0]
Filling(h, number, sl, start, n, own, idx, loc) ==
  /\ Chained(h, own, idx) /\ AllLabelled(h, own)
  /\ Listed(h, own, idx, FirstHeads, FirstEntry, Zeros, SizeOf(number))
  /\ Placed(sl, Places(own, idx, Zeros, SizeOf(number)), loc, 1 .. n)
  /\ \A p \in 1 .. n : own[loc[p][1]] = <<1, CellAt(start[p])>>
Filled(h, number, sl, start, n) ==
  /\ number \in [Cells -> Nat] /\ HeapOK(h) /\ sl \in [Structs -> [0 .. PPC - 1 -> Int]]
  /\ \E own, idx, loc : Filling(h, number, sl, start, n, own, idx, loc)
LoadedOK(state, start, n) ==
  state.pool_id \in Threads /\ Filled(state.heap, state.num, state.slots, start, n)

\* A heap from the pools' first blocks alone, and empty cells of the first array.
FirstState == [num |-> [c \in Cells |-> 0], heap |-> FreshHeap, pool_id |-> 0, slots |-> [s \in Structs |-> Blank]]
FreshOwn == [s \in Structs |-> IF s[1] = 1 THEN s ELSE IF s[1] > 2 /\ s[2] <= Block THEN <<s[1], 0>> ELSE Null]
FreshIdx == [s \in Structs |-> IF s[1] > 2 THEN s[2] ELSE 0]

\* f[k] is what InitSim has after k particles.
Loads(f, start, n) ==
  /\ f = [k \in 0 .. n |-> f[k]] /\ f[0] = FirstState
  /\ \A i \in 1 .. n : f[i] = Load(start, f[i - 1], i)

-----------------------------------------------------------------------------
(* The steps of a thread.                                                   *)

\* A move that is nothing to the lists.
Calm(a, b) ==
  /\ a \notin Inner /\ b \notin Inner /\ (a = <<1, "in">> <=> b = <<1, "in">>)
  /\ a \in {<<1, "out">>, <<2, "in">>} <=> b \in {<<1, "out">>, <<2, "in">>}
  /\ b = <<1, "out">> \/ b[1] = 2 => a = <<1, "out">> \/ a[1] = 2

\* The list that a thread reads, and the one it adds to.
SourceHead(t) == <<cells2, src[t].cell>>
TargetHead(t) == <<cells, dst[t].cell>>

\* A thread stays in a cell of the old array, at particle j in structure e.
StaysIn(t, x, e, j) ==
  /\ at' = [at EXCEPT ![t] = x] /\ cells' = cells
  /\ src' = [src EXCEPT ![t] = [cell |-> @.cell, struct |-> e, j |-> j]]
ListsAfter(t, x, e, j) ==
  LET l == SourceHead(t)
  IN  /\ at'[t] = x /\ \A u \in Threads : u # t => at'[u] = at[u] /\ src'[u] = src[u]
      /\ src'[t] = [cell |-> src[t].cell, struct |-> e, j |-> j]
      /\ src' \in [Threads -> [cell : Cells \cup {-1}, struct : Structs, j : Nat]]
      /\ LiveHeads' = LiveHeads /\ Entry' = With(Entry, l, e) /\ First' = With(First, l, j)
      /\ Rest' = With(Rest, l, IF x = <<2, "w2">> THEN j + 1 ELSE j)

\* Room for one particle more in the list of a cell, with another structure if
\* all are full.
IsFull(t) == num[cells][dst[t].cell] % PPC = 0 /\ num[cells][dst[t].cell] # 0
NewStruct(t) == IF IsFull(t) THEN Got(heap, t).cell ELSE last[dst[t].cell]
Inserts(t) ==
  /\ IsFull(t) => HasRoom(heap, t)
  /\ heap' = IF IsFull(t) THEN Linked(Got(heap, t).heap, last[dst[t].cell], Got(heap, t).cell) ELSE heap
  /\ last' = [last EXCEPT ![dst[t].cell] = NewStruct(t)]
  /\ num' = [num EXCEPT ![cells] = [@ EXCEPT ![dst[t].cell] = num[cells][dst[t].cell] + 1]]
  /\ build' = build /\ cells' = cells /\ LiveHeads' = LiveHeads /\ Entry' = Entry /\ First' = First
Inserted(own, idx, t, own2, idx2) ==
  /\ Labelled(own2, idx2)' /\ own2[NewStruct(t)] = TargetHead(t)
  /\ Base(idx2[NewStruct(t)]) + (num[cells][dst[t].cell] % PPC) = num[cells][dst[t].cell]
  /\ \A s \in Structs : own[s] \in Heads =>
       own2[s] = own[s] /\ idx2[s] = idx[s] /\ (s # last[dst[t].cell] => heap'.next[s] = heap.next[s])
  /\ \A s \in Structs : own2[s] \in Heads /\ s # NewStruct(t) => own[s] = own2[s]
  /\ NewPlace(own, idx, own2, idx2, Rest, Size, TargetHead(t), NewStruct(t))

\* The source moves on by one particle; its structure may go back to the pool.
Advances(t) ==
  /\ at' = [at EXCEPT ![t] = <<2, "next">>] /\ cells' = cells /\ build' = build /\ num' = num
  /\ src' = [src EXCEPT ![t] = [cell |-> @.cell, struct |-> Advanced(t, heap).struct, j |-> @.j + 1]]
  /\ heap' = Advanced(t, heap).heap
AdvancedTo(own, idx, t, own2, idx2) ==
  /\ Labelled(own2, idx2)'
  /\ \A r \in Structs : own2[r] \in Heads => own2[r] = own[r] /\ idx2[r] = idx[r] /\ heap'.next[r] = heap.next[r]
  /\ \A r \in Structs : own[r] \in Heads => own2[r] = own[r] \/ own[r] = SourceHead(t)
  /\ Places(own2, idx2, Rest', Size') = Places(own, idx, With(Rest, SourceHead(t), src[t].j + 1), Size)

=============================================================================
