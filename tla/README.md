# A TLA+ verification of VL_uBMK

VL_uBMK is a collection of microbenchmarks for inter-core queues (Virtual Link,
ZeroMQ, Boost lock-free queues, CAF), for locks (LockHammer) and for stream
programs (PHISH, RaftLib kernels).  Their own logic is small but almost entirely
concurrent: locks written with single atomic instructions and assembly, a start
protocol of threads, a master/worker sort that leaves a shared array unlocked
because of how it schedules tasks.  This directory models that logic in TLA+,
checks it with TLC on small instances, and proves with TLAPS, for any number of
threads, that the locks exclude, that two of them serve in order, that their driver
starts all threads together, that the messages, packets and samples of the stream
programs arrive, each once, that the fluid's particles are each in one cell, that
streamcluster's points belong to open centers, and, for any script, that PHISH's ports
close after their last datum.  Paths below are relative to the repository's
`apps/` unless they start with `src/` or `include/`.

## 1. Inventory

| component | state | operations | interacts through | what makes it correct |
|---|---|---|---|---|
| queued spinlock, `lockhammer/include/linux/queued_spinlock.h` | lock word (tail, pending, locked), MCS node pool | acquire with fast path, pending path and MCS path; release | called by `hmr()` | one owner; FIFO once a place is taken; nodes neither overflow nor dangle |
| ticket spinlock, `linux/ticket_spinlock.h` | two 16-bit fields | draw, wait, serve | `hmr()` | one owner and FIFO across wrap-around |
| event mutex, `mysql/event_mutex.h`, `cas_event_mutex.h` | lock word, event generation | enter, spin, last try, wait, exit, signal | `hmr()` | one owner; no lost wake-up |
| driver, `lockhammer.c`, `atomics.h` | `sync_lock`, `ready_lock`, `calibrate_lock` | register, ready, start, calibrate, barrier, loop | creates threads, calls a lock | everybody starts together, nobody is left waiting |
| token locks, `vlink_lock.h`, `zmq_lock.h`, `boost_lock.h`, `src/boost_qlock.cc` | a queue holding one token, `ready` | open endpoint, pop, push | `hmr()`, a queue library | the token is unique; endpoints are open before use |
| other locks, `swap_mutex.h`, `cas_lockref.h`, `cas_rw_lock.h` | one word | acquire, release | `hmr()` | exclusion, reference and reader counts |
| bitonic sort, `bitonic/bitonic.cpp`, `utils.*` | shared array, two queues, three arrays of counts | feed, pop, swap segments, sort blocks, report, pair, merge | bounded queues, shared memory, `done` flag | concurrent tasks disjoint; sorted at the end; terminates |
| network, `network/firewall.cpp`, `pipeline.cpp` | packet pool, four queues each, counters, `lock.done` | generate, sort, gather, count, recycle | bulk push and pop with idle retries | no packet lost or duplicated; counts add up; terminates |
| PHISH, `src/phish/*.cpp`, `include/phish/*` | ports, connections, callbacks, close counts | init, hook, send, receive, probe, close, exit | ZeroMQ messages, callbacks | data before close, ports close once, loops end |
| ember, `ember/ember.cpp` | grid of workers, two queues per edge, `ready` | halo exchange, sweep, incast, outcast | blocking queues, start barrier | neighbours agree on queue, round and wave; no cyclic wait |
| pingpong, echo, latency, max_* | one or two queues | bursts back and forth | blocking queues | every message answered, termination |
| shuffler, shopping | tables, per-thread ranges | shuffle, add | shared counters | every cell visited the same number of times |
| RaftLib network and filters, `network/rl_*.cpp`, `ember/rl_ember.cpp`, `fir/rl_fir.cpp` | packet pool, streams, counters | produce, inspect, route, consume | streams, RaftLib's scheduler | everything sent arrives, mistakes are told apart, samples stay in order |
| fluid simulation, `fluidanimate/*` | two arrays of cells, lists of structures, a pool per thread, densities | rebuild the grid, densities, forces, move, wait for all | mutexes of border cells, modification kernels, accumulators | each particle in one cell; structures in one list; densities complete when used |
| streamcluster, `streamcluster/*` | points, centers and index tables shared by all kernels | read a chunk, open centers, estimate gain, switch, move centers | tasks and answers between a kernel and its shards | points belong to open centers; sums are complete; every chunk ends |
| graph benchmarks, `graphBIG/rl_*.cpp`, `bench_*.cpp` | counts of the vertices, work sets | prepare, search, look up, add, halve | streams, mutexes, atomics, barrier | the same result as the definition, whatever the schedule |
| other RaftLib ports (fdtd, search, resizing, armq_demo) | kernels and streams | run of a kernel | RaftLib's scheduler | stream protocol of each kernel |
| helpers, `src/threading.c`, profiling, DynamoRIO | core list, counters | placement, measuring | system calls | none that concurrency endangers |

The hard behaviours are interleavings of single accesses (locks, barrier,
`ready--`), values read before and used after another thread's step (the MCS
head, the event generation), unordered completion of tasks (bitonic), counters
that wrap (tickets), data that is written again while a reader is under way
(RaftLib's packets, tables of streamcluster), closing messages behind the last
datum (PHISH), and waits without a timeout, so that one lost update hangs the
program.  `PROJECT.json` lists each
with its line.

## 2. Modules

`FifoLock` is the abstract promise of a queueing lock: an `owner` and a `line`
of the threads that have taken a place.  A free lock nobody waits for may be
entered at once; otherwise the head of the line is served.

`QueuedSpinlock` models `lock_acquire`, `queued_spin_lock_slowpath` and
`lock_release`, one action for each access to shared memory.  `word` is the lock
word; `next`, `granted` and `count` are the fields of the MCS pool; `val`,
`idx`, `prev`, `nxt` are the locals of the slow path, reset when they are no
longer read so that they add no states.  `queue` is a history variable, the
threads that exchanged themselves into the tail.  The pool is not initialised by
`mcs_init_locks`, so `count` starts at any value below 4, the range the code
states as its assumption.  Where the code re-reads the word in a loop, the action
is enabled once the loop's exit condition holds: the reads before it change
nothing.

`TicketSpinlock` models both architectures through `Stride`: x86-64 adds
0x20000 and serves in steps of 2, aarch64 steps by 1.  The release is a load and
a store.  `depth` is the contention estimate that `lock_acquire` returns; on
x86-64 the code shifts the difference right by two, so that it reports half the
number of threads ahead.  Its definitions carry the prefix `Ticket`, so that one module
can extend it together with those below.

`Hammer` holds what `TicketSpinlock` and the next two share: the threads `main`
creates and where each of them is; `HammerRounds` adds the rounds of the next two.

`EventMutex` models `lock_enter`, `spin_and_try_lock`, `lock_exit` and
`lock_signal`.  The end of the spin phase, which depends on random delays and
`max_spins`, is a choice.  `Exclusive` selects `cas_event_mutex.h` on aarch64,
where a store-exclusive may fail.  `Rounds` bounds the generation.  Its definitions
carry the prefix `Event`, so that one module can extend it together with `Hmr`.

`Hmr` models the life of a thread of LockHammer: registration, the marshal, both
calls of `synchronize_threads`, `thread_local_init` and the loop, with a lock
that passes a token through a queue.  `useReady` tells whether the lock counts
its endpoints in `ready` (Virtual Link, ZeroMQ) or not (Boost).  Calibration
itself only takes time.

`Bitonic` models `sort()` and `slave()` of `bitonic.cpp` with `utils.hpp` and
`utils.cpp`.  The master is a small state machine: feed, loop, push (the tasks a
message made ready, one push at a time, because each may block), join, end.
A queue is a bag with a capacity: the queue libraries promise no common order
and the algorithm must not need one.  A task is executed in one action;
`DisjointTasks` is what makes that sound, since tasks that run at the same time
touch different elements.  The builds with `EXCL_RELOAD` and `INIT_RELOAD` are
not modelled.

`Ember` models `ember.cpp`.  `Neighbour` and the queue numbers are the
arithmetic of `get_neighbor` and `get_queue_id`.  Since the four motifs are
straight-line programs of sends and receives, a worker's program is a sequence
(`SweepForth` ... `HaloReceives`), whose operations it skips where it has no
neighbour (`Runs`, `Skip`); `step` is the place it has reached in its whole run, and
`OpAt` and `RoundAt` say what the block loop makes of a place.  `Builds` stands for the executables: the motif, in how many pieces a
message goes, whether the loop over the pieces is around the whole round (Virtual
Link's sweep and halo) or in each operation, and how many pieces a queue takes.
A message carries its sender and the place it was sent at, which the code's does
not: they serve to state `RightMessage`.

`Network` models `firewall.cpp` and `pipeline.cpp`, both built from the same kind
of stage: pop up to a bulk, pass everything on, and look at `lock.done` only after
an empty pop.  `Stage` is that loop, `Route` the queues a stage connects; the
firewall's stage 1 (`Sort`, `Gather`, `Flush`) and main (`Fill`, `Recycle`,
`AnnounceDone`, `Join`) are their own actions.  A packet is its number in the pool;
of its headers only the right or wrong checksum is kept (`bad`).  Pushes go packet
by packet, since any number of them may fit; a pop takes any number up to a bulk.
The packets at some places of a bulk (`Those`) are what the sorting loop of stage 1
copies to one side.  For the properties, `Places` are the queues and arrays a packet
can be in.
`toSend` is computed modulo `Word`, as the code's unsigned subtraction.  `Spoilt`
tells which checksums come out wrong when a header is filled: those main spoils, and in
`rl_firewall` those of packets whose 32-bit `srcIP` does not fit into the 16 bits of
`checksumIP` (`firewall.cpp` computes both from 16-bit halves, which do fit).

The RaftLib programs are in the same module, because they have the same queues
and stages, without main's loop: `Kernel` is their part of the next-state relation.
A producer (`Produce`, `Send`) fills the slot of the pool whose turn it is, where
ever that packet is at the time; `Take`, `Inspect`, `PushMistake` and `Absorb` are
the kernels behind it; `RunsDry` is RaftLib's end of a kernel.  `Inspect` is an
action of its own because a header may change between the pop and the look at it.
`rl_fir` is a chain of two filters, which have the producer's and consumer's actions
around them; its samples are numbered modulo the pool so that order can be seen.

`Phish` models the PHISH library over ZeroMQ with five minnows and both example
scripts.  A net is a script: schools and the hooks between them.  The bait turns it
into connections (`Connections` per hook style), creates the minnows, starts them,
answers and reaps.  A minnow is its library state (`open`, `count`, `rr`, `pack`), the
library calls its main or a callback has still to make (`calls`), and what the call
under way has still to write (`todo`, socket by socket, since each may block at the
high-water mark).  Sockets lose nothing and keep their order.  Relays stand for
minnows of a user of the library, so that the other engines (`phish_recv`,
`phish_probe`) and hook styles occur.

`Fluid` models a frame of `raftlib_src.cpp`: clearing, rebuilding the grid, the
density and force stages with their modification kernels, walls and movement, with
accumulators between the stages.  The list structures of `cellpool.cpp` are kept
exactly (`heap`: next pointers and pools), because which list a structure is in is
what could go wrong.  `MaxCells` bounds the structures of a pool: a thread takes one
only if the pool has one or room for another block (`HasRoom`), and the file must
fit (`RoomToLoad`); the code allocates without a bound.  `Loading` is the loop of
`InitSim` over the file, as a recursive function.  Where threads share border cells,
the access under one mutex is one action and what follows the unlock another.  Of a
density only the number of contributions is kept, of a position the cell.

`StreamCluster` has one action per step of a kernel between two waits: sending the
tasks to the shards, or going on when all answers are there; and one per task of a
worker.  `ch` holds all ports.  The code never clears `center_tab` and
`switch_membership`, and neither does the model; at first `switch_membership` holds
anything (`Flags`).

`Graph` models the three graph benchmarks in their OpenMP and RaftLib builds.  What
a thread derives from the graph alone (a breadth-first search, an intersection) is
one step; every addition to a shared count is one, or two under a mutex where the
code adds to a floating-point number.  The results are compared with reference
definitions that do not follow the code: centrality from numbers of walks,
triangles as sets of three vertices.

The theorems are in modules of their own: `QueuedSpinlock_proofs`, `Hmr_proofs` (of
`Hmr`, of `EventMutex` and of `TicketSpinlock`), `Ember_proofs`, `Network_proofs`,
`Fluid_proofs`, `Graph_proofs`, `Phish_proofs` and `StreamCluster_proofs`.
`FluidInvariant` holds the invariant of `Fluid_proofs` and its vocabulary.

The modules named `MC...` extend a specification for TLC and define initial
conditions and sets used in the configurations.  Operators named after
another with a suffix and marked "Mutant" are wrong variants of the definition
that follows them; no specification uses them.

## 3. What is checked

| run | instance | what it shows |
|---|---|---|
| `queued_spinlock` | 3 threads, counts 0, 1, 2 (124 thousand states) | `MutualExclusion`, `NoStalePredecessor`, the inductive invariant `IInv`; implements `FifoLock`; `PlaceTakenIsServed` |
| `ticket_spinlock` | 4 threads, stride 2, fields of 8 values | exclusion and order while all tickets are in use and wrap around; `TicketIsServed` |
| `event_mutex` | 2 threads, 4 rounds | `WordTellsOwner`, `ParkedHasWaker`, `AllFinish` |
| `event_mutex_lost_wakeup` | 3 threads, 2 rounds | `ParkedHasWaker` **fails** |
| `hmr` | 3 threads, 2 rounds, both kinds of lock | `StartTogether`, `EndpointsReady`, `OneToken`; the Boost runs complete |
| `bitonic_data` | 4 blocks of 2 elements, 2 slaves, queues of 2 | every 0-1 array is sorted when the master leaves its loop; tasks disjoint; terminates |
| `ember` | 3 x 2 workers; three sweeps, two halo exchanges, incast, outcast; queues of 1, 4 and 100 (199 thousand states) | `RightMessage`, `WaveFront`, `AllDelivered`, `AllReturn` |
| `network` | pool of 4, bulks of 2; firewall asked for 1, 4 and 6 packets; pipeline with queues of 1, two threads in either middle stage, and asked for fewer packets than the pool has; five RaftLib setups, one of them with more packets than a checksum has values, and a filter chain (118 thousand states) | `EachPacketOnce`, `MistakesFit`, `TotalsAddUp`, `AllReturn` |
| `phish` | fourteen scripts, schools of one or two minnows, sockets of one datum (85 thousand states) | `CountsMatch`, `EndOfStream`, `ReportRight`, `AllReaped` |
| `fluid` | four cells, two threads, four particles, two frames, both builds (198 thousand states) | `EachParticleOnce`, `StructuresApart`, `DensitySettled`, `SavedAll`, no deadlock |
| `streamcluster` | two chunks of three points, one or two shards (933 thousand states) | `AssignedToCenter`, `SpeedyRight`, `AllClustered` |
| `graph` | fourteen inputs, up to three threads, two runs, RaftLib's with two repetitions (606 thousand states) | `ResultRight`, `PreparedOnce`, `AllReturn` |

Why the bounds are enough.  Three threads put the queued spinlock through every
label of the slow path at once: an owner, a pending thread and a queue, and two
threads on the queue while a third owns; a fourth only lengthens the queue, and
the proof below covers it.  Four ticket holders of stride 2 in a field of 8
values use every ticket, the tightest case the assumption allows.  In
`EventMutex` two threads and four rounds exceed what any interleaving of two
releases needs; three threads give the first counterexample.  By the 0-1
principle a fixed schedule of comparators that sorts all arrays of zeros and ones
sorts all arrays; which tasks run does not depend on the data.  Four blocks
give two levels of merging, with a swap tree of more than one task at the upper
one.  A bitonic queue holds 2 messages (65536 in the code): small enough that
pushes block.  Three by two workers include corners, and edge workers with three
neighbours; waves cross in both directions.  A message in two or three blocks
gives as many rounds.  In `network` the number of spoilt packets is odd when six
packets are asked for, so that one remains to be passed on by the retry count;
bulks are as large as the distance of spoilt packets, the tightest case for
`MistakesFit`; with queues of one place every push may have to wait.  All targets
of the firewall have one thread of stage 1, and a pool whose size is a multiple of
8, which the assumption of `Network` states.  RaftLib's streams are once shorter
and once as long as the pool, so that slots are filled again while their packet is
under way and, with two stages 1, still uninspected.

In `phish` sockets hold one datum, so that every send may block; two minnows in a
school are enough for a port with several upstream connections, for round robin,
hashing and pairing, and for closes that arrive in either order.  In `fluid` three
of four particles are in one cell of a capacity of two, so that structures are
linked in and given back, and both threads have a border; moves of one cell to
either side take particles across it, and past the domain.  The pools begin with one
structure and may grow to four, so that blocks are allocated.  In `streamcluster` the
second chunk meets the tables the first has left; `Halvings` and `MaxPasses` bound
how often z is halved and candidates are tried, after which the choice the code
would make for a z small enough is forced.  In `graph` two threads share
vertices of every graph; one has a double edge and one two shortest paths.  Three
threads, the fewest for which a cut between their ranges can be missing, prepare
two of them.  In `network` a checksum has four values, so that of the seven packets of
`rl_firewall` the last three have addresses too wide for it.

Fairness.  Every thread is pinned to a core of its own and the loops spin, so
each thread's next step is weakly fair; `Acquire` of the queued spinlock and
`DrawTicket` are not, because no thread need ask for the lock.  A thread in the
compare-and-swap loop of the queued spinlock may lose for ever, which is why
`PlaceTakenIsServed` starts at the pending byte or the tail.  In `EventMutex` and
`Hmr` the rounds are finite, so that weak fairness is enough to finish them: in
the end nobody competes.  The threads of `Ember` and `Network` are pinned and
poll, one weak fairness condition each; RaftLib's kernels run when their input is
there.  Minnows are processes, one condition for each and one for the bait.  In
`StreamCluster` and `Graph` weak fairness of `Next` is enough: no action can be taken
for ever while another waits, except where the code itself would not end.

Deadlock is checked where the system never stops (`QueuedSpinlock`,
`TicketSpinlock`) and in `Bitonic`, `Fluid`, `StreamCluster` and `Graph`, whose end is
a stuttering action;
the others stop when all rounds are done, and `AllReturn`, `AllFinish` or
`BoostFinishes` states that they do not stop before.

### Disagreements between code and comments

1. `event_mutex_lost_wakeup`: `lock_signal` bumps the generation with a plain
   load and a plain store after the lock is free.  Two releases overlap, the
   second store puts the generation back to the value a third thread waits to
   see changed, and it waits for ever although the lock is free.  The comment in
   `event_mutex.h` that promises a periodic wake-up has no code behind it.  With
   two threads it cannot happen (`event_mutex`): a waiter leaves only one
   releaser.

These were met while modelling and are not the subject of a run:

2. On aarch64 the "last try" of `cas_event_mutex.h` is one store-exclusive, which may
   fail although the lock is free (`Exclusive = TRUE` in `EventMutex`).
3. The waiting branch of `synchronize_threads` is compiled out; it holds nobody back.
4. `ready--` on a plain volatile loses decrements, and all threads wait for zero.
   Completion is therefore not stated for locks that count in `ready`.
5. When fewer packets are needed than came back, `firewall.cpp` offers all of them to
   `caf_push_bulk`; `pipeline.cpp` offers only those needed.  Packets too many go
   round, with the headers they had: the totals printed do not add up, and two spoilt
   packets may be in one bulk, so that `pktsmidx` can go past `BULK_SIZE`.  Setups with
   `caf` show both; the run `network` has none.
6. RaftLib's producers test `npackets < ++cnt` after the push and send one packet more
   than they are asked for, `rl_ember` two, and one more for every further producer;
   `TotalsAddUp` states the numbers as they are.
7. The wall test of `ProcessCollisionsMT` joins its last two comparisons with `==`
   (`fluidanimate/raftlib_src.cpp:1546`): cells inside pass for walls, cells at a wall
   of one direction do not.
8. `gen_workset` of the triangle count leaves entries 0 when a chunk's edges are reached
   fewer times than there are threads: the last range then begins at vertex 0 again,
   and two threads prepare the same vertex (`graphBIG/rl_tc.cpp:378-391`), at the same
   time, so that what it leaves in `neighbor_set` is undefined.  It takes three threads
   and a vertex with many edges (degrees 1 and 3), or a graph without edges.  What the
   comment promises, "prepare neighbor set for each vertex" (line 406), is therefore
   stated for the graphs in which no vertex has too many edges (`EnoughCuts`), and proved
   for all of these; `graph` has two of them with three threads.
9. `int16_t* cnts` of `rl_tc.cpp` is allocated without being set to zero; `ResultRight`
   is stated for the runs in which the memory was zero (`junk`).
10. With `nproc` above 1, `PGainKernel` sends to a port `to_centerUpdate` it has not
    declared (`streamcluster/kernels.hpp:978`): the program ends there (`GainFails`), which
    `AllClustered` admits.  The ranges it gives the shards begin at `i * remain + i`, not
    `i * (stride + 1)` (line 948), and the assertion that would notice is commented out
    (line 974).
11. `rl_firewall` stores `srcIP ^ dstIP` in the 16-bit `checksumIP`, and `srcIP` grows
   with the number of the packet (`network/rl_firewall.cpp:91-95`): from packet 65536 on
   `iscorrupted`, which compares all 32 bits, finds every packet corrupted, not one in
   eight.  `Mistakes` in `TotalsAddUp` counts them as they are.
12. The master of streamcluster tests `numRead < ((unsigned int) chunk_size &&
   !stream->feof())` (`streamcluster/kernels.hpp:239`), a comparison with 0 or 1: it
   notices a read of nothing, not a short one.

## 4. What is proved

`QueuedSpinlock_proofs` proves, for every `NThreads` from 1 to 16383 (the range
of the 14-bit cpu number in the tail; `NThreadsAssumption`):

- `Invariance`: `Spec => [](TypeOK /\ IInv)`
- `TypeCorrect`: `TypeOK`, which includes that four nodes per thread suffice
- `MutualExclusionHolds`: `MutualExclusion`
- `PredecessorNeverStale`: `NoStalePredecessor`

Mutual exclusion alone is not inductive: the head of the queue may set the locked
byte because it saw owner and pending byte gone, and nobody else can set either
meanwhile, which holds because everybody else must see tail 0 for that; and the
tail tells that the queue is empty only if the queue is in order.  `IInv` makes
this precise in six parts: `NodesSuffice` (the nesting count), `WordTellsOwners`
(each byte is set exactly while one thread stands for it), `MutualExclusion`,
`QueueInOrder` (the queue holds each waiter once, the tail names its last, only
the first is past its wait), `ChainIntact` (the `next` pointers and granted flags
are those the queue's order asks for) and `HeadReadsSafely` (what the head has
read may be stale only to the side of waiting longer).  TLC checks `IInv` in
`queued_spinlock`.  The proof has one lemma per part (`StepTyped`,
`StepKeepsOwners`, `StepKeepsQueue`, `StepKeepsChain`, `StepKeepsHead`), each
with one step per action.  Lemmas about the tail's encoding and the queue come
first; `MoveEffect` says what a step of one thread leaves alone, and
`NodesUndisturbed`, `OwnersUndisturbed`, `FirstStaysFirst` and `HeadUndisturbed` what
follows for each part of the invariant, so that actions which only move a thread's
label need no argument of their own.

The module also proves, from that invariant, that the lock implements
`FifoLock` (`QueuedIsFifo`). `WaitingLine` is made of the thread that has the
pending byte, if any, and then of the queue without an owner at its head; the
thread that leaves the wait for the locked byte is the head of this line.  A step
either puts a thread at its end (setting the pending byte needs a word without a
tail, exchanging the tail puts it behind everybody), serves its head, takes a
free lock with an empty line, or changes nothing (`GoodMove`).  That a pending
thread stands before the whole queue is `OneInFront`.

Of the ticket lock `Hmr_proofs` proves `TicketsExclude` (`MutualExclusion`) and
`TicketIsFifo` (the refinement of `FifoLock`) for every number of threads,
stride and width with `TicketAssumption`: the stride divides the width and every
thread has a ticket of its own. The code states the second nowhere; it holds for
its 16-bit fields with up to 32768 threads, and with more the lock would not
exclude. The invariant says where each ticket is: the thread at place `i` of the
line has the ticket `now_serving + (i - 1) * Stride`, modulo the width
(`TicketsInLine`), the line holds each thread once that has drawn and not yet
served (`LineExact`), and only the first can be an owner (`FirstHolds`).
Distinct places give distinct tickets only because all of them fit before the
field wraps around (`TicketsDistinct`).

Of the driver with a token lock it proves, for every number of threads and rounds and
every build:

- `TokenConserved` (`OneToken`): the token is in the queue or with one thread;
- `NobodyStartsEarly` (`EndpointsReady`): this rests on `ReadyCovers`: `ready`, and
  every copy of it that a thread is about to decrement and store, is at least the
  number of endpoints still to be opened.  A lost decrement leaves `ready` too
  large, never too small, which is why that race can hang the
  program but cannot let a thread start early;
- `StartsTogether` (`StartTogether`): the sync word counts the registered threads,
  twice, and its lowest bit is set only by the marshal, the first to register,
  after it has seen all others ready (`WordCounts`, `CoresDistinct`, `AllIn`).

Of the event mutex it proves `EventMutexExcludes` (`WordTellsOwner`) for every
number of threads and rounds and both variants of the last try.  The event plays
no part: whatever the generation does, a thread becomes the owner only by finding
the word free, and the failed swaps of waiters write the value that is there.

It also proves `TwoLoseNoWakeup` (`ParkedHasWaker`) for at most two threads, the
swap and any number of rounds.  A generation once seen is never ahead of the
event (`SeenBefore`), and while one of two threads waits, the other is the only
one that writes the event, so that the generation it has read and is about to bump
is the one that is there (`VersionFresh`).  This second part is what three threads
break in `event_mutex_lost_wakeup`.

`Ember_proofs` proves for a grid of any size, any number of iterations, pieces and
places in a queue, and all four motifs:

- `MessagesMatch` (`RightMessage`), `AllIsDelivered` (`AllDelivered`) and
  `WavesSweep` (`WaveFront`), from the invariant of `Invariance`;
- `OneProducerPerQueue`, `QueueExists` and `EndsAgree`, about the arithmetic of
  `get_neighbor` and `get_queue_id`, on which the others rest.

 A queue number is a band for its direction plus a number with
two digits, the coordinates along and across the edge; since the lower digit stays
below its base, a number determines both (`DigitsUnique`).  Hence every number has
one producer (`OneProducerPerQueue`), is that of a queue that exists
(`QueueExists`), and the neighbour across the edge receives from it (`EndsAgree`).

All workers of a grid have the same program, and the receive of a message stands at a
fixed distance from its send (`Gap`: a sweep's two operations before, in the same wave,
a halo's three or five after; `Matches`).  Hence `EachQueueHolds`, the core of the
invariant: a queue holds, in their order, exactly the sends the producer has passed
whose receives the consumer has not (`Holds`), and no receive is passed before its
send.  The head of a queue can only be the message of the receive its consumer is at.
At the end no send is left over, since a send and its receive are in one round
(`PlacesLeft`).  In incast and outcast the queue is shared; there the invariant counts
(`SharedCounts`).  `WavesSweep` follows a step at a time: what a worker has received,
the neighbour at that inlet has (`NeighbourBefore`), and one of the inlets leads
towards any worker upstream (`Closer`).  Such arguments go by the smallest
counterexample (`SmallestOf`, from the well-foundedness of `<`), as does the one that a
skip ends at the next operation that runs (`SkipsToNext`).  TLC has checked the
invariant on the instance of run `ember`, with the naturals of `Holds` cut off at 60.

`Network_proofs` proves for any pool, bulk, capacity, number of packets and number of
threads of a stage:

- `PacketsOnce` (`EachPacketOnce`), from the invariant `Placed`.  In the two pool
  programs it is that no packet is in two places of all (`Once`); every thread moves the
  packets it popped, and `Sort` deals out the places of what it popped.  For that, the
  labels must tell what a thread holds (`LabelsFit`: nothing at a pop, something at a
  push).  In `rl_fir` it is that, from the end of the chain to its head, each piece
  continues the numbers of the piece before (`Sampling`).
- `PktsmFits` (`MistakesFit`), for every program but the firewall over CAF.  That a
  bulk brings stage 1 at most one mistake is no matter of the queue but of main, which
  spoils a packet when its number is a multiple of `BadEvery`: the packets on their way
  to stage 1 are numbered through, and those that are spoilt are the multiples
  (`MarksRight`), across the end of the pool, because `POOL_SIZE` is a multiple of the
  distance (`Shift`).  A bulk as long as the distance has one multiple (`NotAhead`).
  What stage 1 has found are all multiples so far (`Gathered`), and it leaves its
  flush with room in `pktsm`.  Together with `Placed` this is `Sifted`.

- `TotalsRight` (`TotalsAddUp`), again without the firewall over CAF, from `Sifted` and
  `Counted`.  Every step keeps what main has received, what it still has to send and
  the packets under way at the same sum (`Accounts`), which is `numPackets`; so are
  the packets a stage has handled and those on their way to it (`ToStage0`, `ToSides`,
  part of `Balanced`).  When main has returned all stages have (`AllBack`), and their
  labels say that they hold nothing.  That nothing is left in a queue follows from the sums:
  what main received was all that was asked for (`Announced`), so that nothing is under
  way.  With RaftLib nothing comes back.  What was produced is what
  has arrived and what is under way (`RaftBalance`); a kernel returns only when the queue
  it pops is empty and all kernels that push to it have returned, which the queue's
  being filled again would contradict (`Ending`); and the producers that
  are past their last packet are as many as the numbers drawn past it (`Stopping`), which
  gives the packet too many of each.  That the mistakes are as many as the multiples
  needs that no packet is filled again, and its mark overwritten, before stage 1
  has looked at it: the numbers not yet inspected lie in a window shorter than the pool
  (`Inspecting`), in the order of the one stream and the one stage 1.  In `rl_firewall`
  the packets from `TooWide` on are mistakes too (`WideEnough`, `MistakesGrow`), as long
  as the packets are no more than `srcIP` has values (`Addresses`, 2^32), after which it
  begins at 0 again.

TLC checked the three invariants on the setups of run `network` first.

`Fluid_proofs` proves, for every grid, number of threads, file, size of the pools and
number of frames, and both builds:

- `AlwaysEachParticleOnce` (`EachParticleOnce`): the rebuild puts every particle into one
  place of one cell, that of its position;
- `AlwaysStructuresApart` (`StructuresApart`): no structure is in two lists, and with
  mutexes none is lost;
- `AlwaysSavedAll` (`SavedAll`): the file holds every particle once, and all are inside
  the domain.

They follow from the invariant of `AlwaysInPlace` (`IInv` of `FluidInvariant`).  None of the three is inductive:
that two threads do not write into the same slot depends on whose list the slot's
structure is in, and this on every pointer of every list.  A list is a recursive
notion; the invariant instead gives every structure a label, `own`, the list it
is in, and `idx`, its place there, and says only what neighbours in a list
must have in common:

- `Chained`: the next structure has the same label and the next place, no two
  structures have the same label and place, and a list ends only where no place is
  left.  A pool's list begins at its first structure.  Each operation on a list then
  changes the labels at one end of it (`AppendChained`, `PopChained`, `ReturnChained`,
  `BlockChained`); a head is the structure at place 0 of its own list, so
  that it must never be given back to a pool;
- `Listed`: the lists in use are those of cleared cells, those of old cells not yet
  read, and the one each thread is reading, from where it is on; their lengths fit
  the number of particles.  `AddLists` and `AdvanceLists` say this of an insertion and of
  the step to the next particle;
- `Stored`: every particle has one location, `loc`, among the slots of those lists that
  are still to be read or already written, but for the slots that threads have made
  room for and not yet filled (`Reserved`); no such slot holds anything else;
- `Located`: a particle lies at most one cell away from the one it is in, in that very
  cell from the rebuild to the moves, and within the domain except between the moves
  and the mirroring.  Hence the mutexes are enough: the cell a particle goes to is a
  neighbour, and one that two threads can enter is a border cell for its owner too;
- `Adding`: between the reads under the mutex and the unlock, a thread still has the
  count and the last structure it has read, because a border cell is locked, and one
  that is not is entered by its owner only; of two threads that copy, no two have
  the same slot;
- `InStep`, `Reading`: the stages of the threads differ by what the accumulators allow,
  and what a thread is reading belongs to its own part of the grid;
- `Ended`: after the clean-up every list is that of a pool.

There is one lemma per action, and one for each part an action disturbs.  Where the
code walks a list (`Along`) or concatenates (`FlattenSeq`, in the file and the
clean-up), the recursive function that stands for the loop is shown to exist, step by
step up to the smallest number for which it could not (`GluesExist`); what the clean-up
does to the pointers then follows from the order of its list (`DrainChained`,
`DrainsInto`).  TLC cannot enumerate the labels, so that it has checked what the
theorems state, in run `fluid`, but not the invariant.
The theorems rest on `FluidAssumption` and `RoomToLoad`.  `FluidAssumption` is
what `InitSim` asserts of the threads (a power of two, `XDIVS * ZDIVS == threadnum`,
line 142; the second follows from the first, but the provers know no exponentiation),
that the file's positions are inside the domain, and that a particle goes one cell in a
frame at most (the comment at line 725; the one at lines 1639-1642 doubts it).  `RoomToLoad`
is about the bound `MaxCells` only.  `DensitySettled` is not among the theorems: it counts pairs across all cells
with `Cardinality` and the entries of the queues modification kernels have still
to take.

`Graph_proofs` proves `NeighborsPreparedOnce` (`PreparedOnce`) for every graph and
number of threads.  That `gen_workset` gives each vertex to one thread is proved from
its loop (`RangesAreCut`): a range ends with the vertex that fills its chunk, so that it
has less than a chunk and the edges of one vertex; if even the largest vertex leaves
enough edges for the cuts still to be made (`EnoughCuts`), all are made, at vertices in
order (`SoFar`, `AllCutsMade`).  Without that the conclusion is false (disagreement 8).
`EnoughCuts` is sufficient, not necessary, and always true of a graph with edges and one
or two threads.  While vertices are prepared, each one left is left to one thread and has
no neighbors yet, and all others have theirs (`HalfPrepared`).

`Phish_proofs` proves `CountsStayRight` (`CountsMatch`) and `NothingAfterClose`
(`EndOfStream`) for every script, number of minnows and high-water mark, whichever
minnows abort.  `PhishAssumption` types the scripts, puts ports into the seven bits a
frame has for them, and says that the minnows are numbered through, school by school:
`FirstId` is a sum over the schools, of which the prover could show nothing without
induction; TLC evaluates the assumption for the fourteen scripts.  The invariant `PInv`
has these parts:

- `NothingClosed`: until it exits, a minnow has all its connections and no call in
  progress closes any.  An abort therefore cuts off data, never a close message, which
  the receivers would have counted on;
- `SocketOk`: while a connection exists its sockets carry data only, then one close
  message is owed, and once that is sent it is the last thing in the socket;
- `MatchAt`: the count of a port is the number of sockets to it that still owe, or
  hold, a close message.  Exactly one socket leaves this set when a close message is
  taken, and none for any other reason;
- `Awaiting`: the bait starts only minnows that wait in `phish_init`, so that no minnow
  is set back once it works.

`StreamCluster_proofs` proves `SpeedyReportsRight` (`SpeedyRight`) and
`AssignedToCenters` (`AssignedToCenter`) for all streams of chunks, chunk sizes,
numbers of shards and limits, whatever the tests on z and on the gains decide, from
the invariant of `AlwaysClustering`:

- `TokenAt`: one token goes round.  The place it is in, a port or a kernel between two
  waits, fixes where all the kernels are (`PcAt`) and that the other ports are empty;
- `Outstanding`: a worker has tasks and answers only while the kernel that called it
  waits with that label; they are as many as there are shards, and the tasks left are
  the last of those sent (`Underway`);
- `SpeedySoFar`: how far PSpeedy is.  While the points go back to point 0, each is
  there or in a task left (`AllAt0`); while a point is being opened, each either
  has been compared with it or is in a task left (`Updating`); otherwise each is at
  its nearest (`Nearest`).  The shards cover all rows, those of a longer and those of a
  shorter range (`RangesCover`), and what they sum is the sum over all
  (`TotalIsCost`);
- `Trying` and `Placed`: while candidates are tried every point is assigned to a center.
  It does not hold while CommitSwitch closes centers and moves points, which is why
  the invariant speaks of its task: before it, all are covered, and after it all are at
  a center or at the candidate, which PGain opens as it returns.  For this the points
  whose center closes and the centers that close must be told by the same entries of
  `center_tab`, which one run of CommitSwitch reads for both.  With more than one shard
  PGain has failed by then, so that there is one.

`Clustering` was first checked by TLC, and sums are reasoned about as in
`Ember_proofs`, by the smallest number for which something fails.

Only model-checked: all liveness (fairness and ENABLED are out of the prover's
reach), the state properties of `Bitonic`, `DensitySettled` of `Fluid`, `ResultRight` of
`Graph` and `ReportRight` of `Phish`.  The last two compare with a fold over the
input, and sortedness is a statement about all arrays a network of comparisons can
meet: the operators they are built from (folds, `SortSeq`) are recursive definitions the
prover cannot unfold for every input.  `DisjointTasks` needs the same recursion over the
levels of the merge tree.

## 5. Abstractions and limits

Memory is sequentially consistent; the acquire and release annotations and
barriers of the code are taken to suffice for that.  Undefined or unordered data
(an uninitialised pool or table, `ready--` by several threads, unordered queues) is a
choice of the model.  Timing, random back-off and affinity are left out: they
change when a step happens, not which; so are floating-point results.  The queue
libraries, ZeroMQ and RaftLib are outside the repository and enter as bags, sequences
or tokens.

Not modelled within modelled programs: Virtual Link's bytes left over from a pop;
the `EXCL_RELOAD` and `INIT_RELOAD` builds of the sort; message buffers and computing
times of `ember`; the `RAFTLIB_ORIG` builds of the network programs, whose clones of a
kernel count on their own; PHISH's parsing, buffer sizes, statistics, abort and
all-closed callbacks, and the five seconds `phish_exit` sleeps, which are taken to be
enough; forces and collisions of the fluid; in streamcluster the kernels main does
not put into the graph, and inputs for which the code itself does not end (a file
that is a multiple of `chunksize`, fewer than `kmin` different points, `kmin` of 1,
which divides by zero), the exit of its master when a read fails
(`kernels.hpp:238-242`), and the size of its array of centers, `centersize` entries that
lines 1377-1386 write without a test, where the model has a sequence of any length; the
contention estimate of the ticket lock in any
property; overflow of the 16-bit counts of the graph benchmarks.

`max_vl`, `max_sce`, `latency` and `shopping` measure a device and have no protocol;
profiling, DynamoRIO and placement are system calls; the numerical kernels have no
concurrency.  `PROJECT.json` gives the reason for each under "components".

## 6. Plan

Done so far are the locks and their driver with their proofs, the sort, ember, the
network programs and their RaftLib versions, PHISH, and the three RaftLib ports with
shared state.  Worth doing next:

1. `Pingpong` (two players, bursts, Virtual Link's lines of seven entries that stay
   unflushed when a burst does not fill one) and the shuffler's ranges.
2. The RELOAD builds of `Bitonic`; the reader-writer lock of LockHammer; message
   buffers in `Ember`.
3. Theorems: `DisjointTasks` of `Bitonic` and `DensitySettled` of `Fluid`.
