--------------------------- MODULE QueuedSpinlock ---------------------------
(***************************************************************************)
(* The Linux queued spinlock as LockHammer builds it                       *)
(* (apps/lockhammer/include/linux/queued_spinlock.h).  The 32-bit lock     *)
(* word holds a locked byte, a pending byte and a tail that names the MCS  *)
(* node of the last waiter.  Every action is one access to shared memory;  *)
(* memory is sequentially consistent (the code's acquire and release       *)
(* annotations are taken to be enough for that).                           *)
(***************************************************************************)
EXTENDS Integers, Sequences

CONSTANT NThreads        \* threads 0 .. NThreads-1, the threadnum of hmr()

\* The tail holds cpu + 1 in 14 bits.
ASSUME NThreadsAssumption == NThreads \in 1 .. 16383

Threads  == 0 .. NThreads - 1
Pool     == 0 .. 4 * NThreads - 1        \* mcs_pool: four nodes per thread
Null     == -1
NoThread == -1

VARIABLES
  word,     \* the lock word: [tail, pending, locked]
  next,     \* mcs_pool[n].next
  granted,  \* mcs_pool[n].locked
  count,    \* mcs_pool[4*t].count, the nesting count of thread t
  pc,       \* where each thread is in lock_acquire / lock_release
  (* locals of queued_spin_lock_slowpath, reset where they are read no more *)
  val,      \* local: the last lock word read
  idx,      \* local: which of its four nodes the thread uses
  prev,     \* local: the node of the predecessor
  nxt,      \* local: the node of the successor, once seen
  queue     \* history: the threads on the MCS queue, head first

locals == <<val, idx, prev, nxt>>
vars   == <<word, next, granted, count, pc, val, idx, prev, nxt, queue>>

-----------------------------------------------------------------------------
(* The lock word.  The tail is 4*(cpu+1)+idx, 0 when nobody is queued.     *)

EncodeTail(cpu, i) == 4 * (cpu + 1) + i
DecodeTail(tail)   == 4 * ((tail \div 4) - 1) + (tail % 4)

Tails == {0} \cup EncodeTail(0, 0) .. EncodeTail(NThreads - 1, 3)
Byte  == 0 .. 1
Word  == [tail : Tails, pending : Byte, locked : Byte]

Free        == [tail |-> 0, pending |-> 0, locked |-> 0]
LockedOnly  == [tail |-> 0, pending |-> 0, locked |-> 1]
PendingOnly == [tail |-> 0, pending |-> 1, locked |-> 0]
Contended_PendingOnly(w) == w.pending = 1      \* mutant: the tail is not tested
Contended(w) == w.pending = 1 \/ w.tail # 0

Node(t)   == 4 * t + idx[t]
MyTail(t) == EncodeTail(t, idx[t])

Goto(t, label) == pc' = [pc EXCEPT ![t] = label]

-----------------------------------------------------------------------------
\* mcs_init_locks does not clear the pool: count starts at whatever malloc
\* returned.  The lock is meant for counts below 4 (queued_spinlock.h:83);
\* any of them may be found.
Init ==
  /\ word = Free
  /\ next = [n \in Pool |-> Null]
  /\ granted = [n \in Pool |-> 0]
  /\ count \in [Threads -> 0 .. 3]
  /\ pc = [t \in Threads |-> "idle"]
  /\ val = [t \in Threads |-> Free]
  /\ idx = [t \in Threads |-> 0]
  /\ prev = [t \in Threads |-> Null]
  /\ nxt = [t \in Threads |-> Null]
  /\ queue = <<>>

\* lock_acquire: cmpxchg(0 -> locked), else the slow path with the old word.
Acquire(t) ==
  /\ pc[t] = "idle"
  /\ IF word = Free
       THEN /\ word' = LockedOnly
            /\ Goto(t, "cs")
            /\ UNCHANGED val
       ELSE /\ val' = [val EXCEPT ![t] = word]
            /\ Goto(t, IF word = PendingOnly THEN "handover" ELSE "trypend")
            /\ UNCHANGED word
  /\ UNCHANGED <<next, granted, count, idx, prev, nxt, queue>>

\* Wait for a pending -> locked hand-over in progress.
AwaitHandover(t) ==
  /\ pc[t] = "handover"
  /\ word # PendingOnly
  /\ val' = [val EXCEPT ![t] = word]
  /\ Goto(t, "trypend")
  /\ UNCHANGED <<word, next, granted, count, idx, prev, nxt, queue>>

\* trylock || pending, by one cmpxchg from the word last read.
TryOrPend(t) ==
  /\ pc[t] = "trypend"
  /\ ~Contended(val[t])
  /\ IF word = val[t]
       THEN /\ word' = [tail |-> 0, pending |-> word.locked, locked |-> 1]
            /\ Goto(t, IF word.locked = 1 THEN "pendwait" ELSE "cs")
            /\ val' = [val EXCEPT ![t] = Free]
       ELSE /\ val' = [val EXCEPT ![t] = word]
            /\ UNCHANGED <<word, pc>>
  /\ UNCHANGED <<next, granted, count, idx, prev, nxt, queue>>

\* The pending thread waits for the owner, then takes *,1,0 -> *,0,1.
AwaitOwner(t) ==
  /\ pc[t] = "pendwait"
  /\ word.locked = 0
  /\ Goto(t, "takepending")
  /\ UNCHANGED <<word, next, granted, count, locals, queue>>

TakePending(t) ==
  /\ pc[t] = "takepending"
  /\ word' = [tail |-> word.tail, pending |-> 0, locked |-> 1]
  /\ Goto(t, "cs")
  /\ UNCHANGED <<next, granted, count, locals, queue>>

\* Mutant: node->next is not reset.
PrepareNode_KeepsNext(t) ==
  /\ pc[t] = "trypend"
  /\ Contended(val[t])
  /\ idx' = [idx EXCEPT ![t] = count[t]]
  /\ count' = [count EXCEPT ![t] = @ + 1]
  /\ granted' = [granted EXCEPT ![4 * t + count[t]] = 0]
  /\ val' = [val EXCEPT ![t] = Free]
  /\ Goto(t, "tryagain")
  /\ UNCHANGED <<word, next, prev, nxt, queue>>

\* Contention seen: prepare a node of one's own (no other thread reads it yet).
PrepareNode(t) ==
  /\ pc[t] = "trypend"
  /\ Contended(val[t])
  /\ idx' = [idx EXCEPT ![t] = count[t]]
  /\ count' = [count EXCEPT ![t] = @ + 1]
  /\ granted' = [granted EXCEPT ![4 * t + count[t]] = 0]
  /\ next' = [next EXCEPT ![4 * t + count[t]] = Null]
  /\ val' = [val EXCEPT ![t] = Free]
  /\ Goto(t, "tryagain")
  /\ UNCHANGED <<word, prev, nxt, queue>>

\* queued_spin_trylock: a read that finds 0, then the cmpxchg.
TryAgain(t) ==
  /\ pc[t] = "tryagain"
  /\ IF word = Free
       THEN word' = LockedOnly /\ Goto(t, "release")
       ELSE Goto(t, "xchg") /\ UNCHANGED word
  /\ UNCHANGED <<next, granted, count, locals, queue>>

XchgTail(t) ==
  /\ pc[t] = "xchg"
  /\ word' = [word EXCEPT !.tail = MyTail(t)]
  /\ nxt' = [nxt EXCEPT ![t] = Null]
  /\ queue' = Append(queue, t)
  /\ IF word.tail # 0
       THEN prev' = [prev EXCEPT ![t] = DecodeTail(word.tail)] /\ Goto(t, "link")
       ELSE Goto(t, "headwait") /\ UNCHANGED prev
  /\ UNCHANGED <<next, granted, count, val, idx>>

\* WRITE_ONCE(prev->next, node)
LinkBehind(t) ==
  /\ pc[t] = "link"
  /\ next' = [next EXCEPT ![prev[t]] = Node(t)]
  /\ prev' = [prev EXCEPT ![t] = Null]
  /\ Goto(t, "mcswait")
  /\ UNCHANGED <<word, granted, count, val, idx, nxt, queue>>

\* arch_mcs_spin_lock_contended(&node->locked)
AwaitGrant(t) ==
  /\ pc[t] = "mcswait"
  /\ granted[Node(t)] = 1
  /\ Goto(t, "peeknext")
  /\ UNCHANGED <<word, next, granted, count, locals, queue>>

\* The early READ_ONCE(node->next), which may miss a successor.
PeekNext(t) ==
  /\ pc[t] = "peeknext"
  /\ nxt' = [nxt EXCEPT ![t] = next[Node(t)]]
  /\ Goto(t, "headwait")
  /\ UNCHANGED <<word, next, granted, count, val, idx, prev, queue>>

\* Mutant: the head waits for the owner only.
AwaitFree_IgnoresPending(t) ==
  /\ pc[t] = "headwait"
  /\ word.locked = 0
  /\ val' = [val EXCEPT ![t] = word]
  /\ Goto(t, "claim")
  /\ UNCHANGED <<word, next, granted, count, idx, prev, nxt, queue>>

\* The head of the queue waits for owner and pending to go away.
AwaitFree(t) ==
  /\ pc[t] = "headwait"
  /\ word.locked = 0 /\ word.pending = 0
  /\ val' = [val EXCEPT ![t] = word]
  /\ Goto(t, "claim")
  /\ UNCHANGED <<word, next, granted, count, idx, prev, nxt, queue>>

\* Mutant: the node is released without waiting for the successor's link.
ClaimContended_NoHandOff(t) ==
  /\ pc[t] = "claim"
  /\ val[t].tail # MyTail(t)
  /\ word' = [word EXCEPT !.locked = 1]
  /\ val' = [val EXCEPT ![t] = Free]
  /\ Goto(t, "release")
  /\ UNCHANGED <<next, granted, count, idx, prev, nxt, queue>>

\* Somebody is queued behind: set the locked byte and keep the tail.
ClaimContended(t) ==
  /\ pc[t] = "claim"
  /\ val[t].tail # MyTail(t)
  /\ word' = [word EXCEPT !.locked = 1]
  /\ val' = [val EXCEPT ![t] = Free]
  /\ Goto(t, "waitnext")
  /\ UNCHANGED <<next, granted, count, idx, prev, nxt, queue>>

\* Mutant: a failed cmpxchg does not refresh the expected word.
ClaimAlone_KeepsVal(t) ==
  /\ pc[t] = "claim"
  /\ val[t].tail = MyTail(t)
  /\ word = val[t]
  /\ word' = LockedOnly
  /\ queue' = Tail(queue)
  /\ val' = [val EXCEPT ![t] = Free]
  /\ Goto(t, "release")
  /\ UNCHANGED <<next, granted, count, idx, prev, nxt>>

\* Alone, as far as val says: clear the tail with the cmpxchg that locks.
ClaimAlone(t) ==
  /\ pc[t] = "claim"
  /\ val[t].tail = MyTail(t)
  /\ IF word = val[t]
       THEN /\ word' = LockedOnly
            /\ queue' = Tail(queue)
            /\ val' = [val EXCEPT ![t] = Free]
            /\ Goto(t, "release")
       ELSE /\ val' = [val EXCEPT ![t] = word]
            /\ UNCHANGED <<word, queue, pc>>
  /\ UNCHANGED <<next, granted, count, idx, prev, nxt>>

AwaitNext(t) ==
  /\ pc[t] = "waitnext"
  /\ nxt[t] # Null \/ next[Node(t)] # Null
  /\ nxt' = [nxt EXCEPT ![t] = IF @ # Null THEN @ ELSE next[Node(t)]]
  /\ Goto(t, "handoff")
  /\ UNCHANGED <<word, next, granted, count, val, idx, prev, queue>>

\* arch_mcs_spin_unlock_contended(&next->locked)
HandOff(t) ==
  /\ pc[t] = "handoff"
  /\ granted' = [granted EXCEPT ![nxt[t]] = 1]
  /\ queue' = Tail(queue)
  /\ Goto(t, "release")
  /\ UNCHANGED <<word, next, count, locals>>

ReleaseNode(t) ==
  /\ pc[t] = "release"
  /\ count' = [count EXCEPT ![t] = @ - 1]
  /\ idx' = [idx EXCEPT ![t] = 0]
  /\ nxt' = [nxt EXCEPT ![t] = Null]
  /\ Goto(t, "cs")
  /\ UNCHANGED <<word, next, granted, val, prev, queue>>

\* lock_release: store 0 in the locked byte.
Unlock(t) ==
  /\ pc[t] = "cs"
  /\ word' = [word EXCEPT !.locked = 0]
  /\ Goto(t, "idle")
  /\ UNCHANGED <<next, granted, count, locals, queue>>

\* What a thread inside lock_acquire, or holding the lock, does next.
Step(t) ==
  \/ AwaitHandover(t) \/ TryOrPend(t) \/ AwaitOwner(t) \/ TakePending(t)
  \/ PrepareNode(t) \/ TryAgain(t) \/ XchgTail(t) \/ LinkBehind(t)
  \/ AwaitGrant(t) \/ PeekNext(t) \/ AwaitFree(t) \/ ClaimContended(t)
  \/ ClaimAlone(t) \/ AwaitNext(t) \/ HandOff(t) \/ ReleaseNode(t) \/ Unlock(t)

Next == \E t \in Threads : Acquire(t) \/ Step(t)

Spec == Init /\ [][Next]_vars

\* Every thread is pinned to a core of its own and keeps running; hmr() holds
\* the lock for a bounded number of iterations.  No thread need ask again.
FairSpec == Spec /\ \A t \in Threads : WF_vars(Step(t))

-----------------------------------------------------------------------------
(* Properties.                                                             *)

Labels == {"idle", "handover", "trypend", "pendwait", "takepending",
           "tryagain", "xchg", "link", "mcswait", "peeknext", "headwait",
           "claim", "waitnext", "handoff", "release", "cs"}

\* Every variable holds a value of its type.
TypeOK ==
  /\ word \in Word
  /\ next \in [Pool -> Pool \cup {Null}]
  /\ granted \in [Pool -> Byte]
  /\ count \in [Threads -> 0 .. 4]
  /\ pc \in [Threads -> Labels]
  /\ val \in [Threads -> Word]
  /\ idx \in [Threads -> 0 .. 3]
  /\ prev \in [Threads -> Pool \cup {Null}]
  /\ nxt \in [Threads -> Pool \cup {Null}]
  /\ queue \in Seq(Threads)

Holds(t)   == pc[t] \in {"waitnext", "handoff", "release", "cs"}
Pends(t)   == pc[t] \in {"pendwait", "takepending"}
OnQueue(t) == pc[t] \in {"link", "mcswait", "peeknext", "headwait", "claim",
                         "waitnext", "handoff"}

\* No two threads own the lock: neither the fast path, nor the pending thread,
\* nor the head of the queue may enter while another is in.
MutualExclusion == \A t, u \in Threads : Holds(t) /\ Holds(u) => t = u

\* The predecessor a thread is about to link itself behind is still on the
\* queue, with nobody linked behind it: its node is neither freed nor reused
\* while a successor holds its address (queued_spinlock.h:362, 436).
NoStalePredecessor ==
  \A t \in Threads : pc[t] = "link" =>
    \E u \in Threads \ {t} :
      OnQueue(u) /\ Node(u) = prev[t] /\ next[prev[t]] = Null

(* The inductive invariant, in parts.                                      *)

\* A thread has taken its node off the count of free ones between PrepareNode
\* and ReleaseNode, so the four nodes suffice.
InNode(t) == OnQueue(t) \/ pc[t] \in {"tryagain", "xchg", "release"}
NodesSuffice ==
  \A t \in Threads : IF InNode(t) THEN count[t] > 0 ELSE count[t] < 4

\* Each byte of the lock word is set exactly while one thread owns it, and
\* whoever is about to set a byte finds it clear.
WordTellsOwners ==
  /\ word.locked = 1 <=> \E t \in Threads : Holds(t)
  /\ word.pending = 1 <=> \E t \in Threads : Pends(t)
  /\ \A t, u \in Threads : Pends(t) /\ Pends(u) => t = u
  /\ \A t \in Threads : pc[t] = "takepending" => word.locked = 0
  /\ \A t \in Threads : pc[t] = "claim" => word.locked = 0 /\ word.pending = 0

Places == 1 .. Len(queue)
AtHead == {"peeknext", "headwait", "claim", "waitnext", "handoff"}

\* The queue holds each thread that swapped itself into the tail, once; the
\* tail names the last, and only the first is past its MCS wait.
QueueInOrder ==
  /\ \A t \in Threads : OnQueue(t) => \E i \in Places : queue[i] = t
  /\ \A i \in Places : OnQueue(queue[i])
  /\ \A i, j \in Places : queue[i] = queue[j] => i = j
  /\ word.tail = IF queue = <<>> THEN 0 ELSE MyTail(queue[Len(queue)])
  /\ \A i \in Places : pc[queue[i]] \in AtHead => i = 1

\* The MCS chain: a node points to its successor's once that linked itself, a
\* thread still to link holds its predecessor's address, a node is granted when
\* its thread is first, and a node not yet on the queue is clean.
ChainAt(i) ==
  /\ next[Node(queue[i])] = IF i < Len(queue) /\ pc[queue[i + 1]] # "link"
                              THEN Node(queue[i + 1]) ELSE Null
  /\ pc[queue[i]] = "mcswait" => (granted[Node(queue[i])] = 1 <=> i = 1)
  /\ pc[queue[i]] = "link" => /\ i > 1 /\ prev[queue[i]] = Node(queue[i - 1])
                              /\ granted[Node(queue[i])] = 0

NodeClean(t) ==
  pc[t] \in {"tryagain", "xchg"} => next[Node(t)] = Null /\ granted[Node(t)] = 0

ChainIntact == /\ \A i \in Places : ChainAt(i)
               /\ \A t \in Threads : NodeClean(t)

\* What the head has read of the word and of its successor may be stale, but
\* only to the side of waiting longer.
HeadReadsSafely ==
  \A t \in Threads :
    /\ pc[t] \in {"headwait", "claim", "waitnext"} => nxt[t] \in {Null, next[Node(t)]}
    /\ pc[t] = "claim" /\ val[t].tail # MyTail(t) => Len(queue) > 1
    /\ pc[t] = "waitnext" => Len(queue) > 1
    /\ pc[t] = "handoff" => nxt[t] = next[Node(t)] /\ nxt[t] # Null

IInv == /\ NodesSuffice
        /\ WordTellsOwners
        /\ MutualExclusion
        /\ QueueInOrder
        /\ ChainIntact
        /\ HeadReadsSafely

-----------------------------------------------------------------------------
\* The owner and the line of waiters as hmr() sees them: the pending thread
\* comes before the queue, and the queue's head is the owner once it claimed.
PendingThreads == {t \in Threads : Pends(t)}
Owner == IF \E t \in Threads : Holds(t)
           THEN CHOOSE t \in Threads : Holds(t) ELSE NoThread
WaitingLine ==
  (IF PendingThreads = {} THEN <<>> ELSE <<CHOOSE t \in Threads : Pends(t)>>)
    \o (IF queue # <<>> /\ Holds(Head(queue)) THEN Tail(queue) ELSE queue)

\* The lock is a FIFO lock: no thread overtakes one that holds the pending
\* byte or is on the queue.
Fifo == INSTANCE FifoLock WITH owner <- Owner, line <- WaitingLine
FifoSpec == Fifo!Spec

\* A thread that has set the pending byte or swapped itself into the tail gets
\* the lock in the end.  (A thread still in the cmpxchg loop may lose for ever.)
PlaceTakenIsServed ==
  \A t \in Threads : (Pends(t) \/ OnQueue(t)) ~> (pc[t] = "cs")
=============================================================================
