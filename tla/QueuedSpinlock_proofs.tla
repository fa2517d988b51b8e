----------------------- MODULE QueuedSpinlock_proofs -----------------------
(* The queued spinlock for any number of threads: its safety, and that it    *)
(* implements FifoLock.                                                     *)
EXTENDS QueuedSpinlock, SequenceTheorems, TLAPS

USE NThreadsAssumption

\* The tail a thread stores is never 0, and names the thread's node.
LEMMA TailStored ==
  ASSUME NEW t \in Threads, NEW i \in 0 .. 3
  PROVE  EncodeTail(t, i) \in Tails /\ EncodeTail(t, i) # 0
BY DEF Threads, EncodeTail, Tails

\* decode_tail inverts encode_tail.
LEMMA TailRoundTrip ==
  ASSUME NEW t \in Threads, NEW i \in 0 .. 3
  PROVE  DecodeTail(EncodeTail(t, i)) = 4 * t + i
BY DEF Threads, EncodeTail, DecodeTail

\* Any tail but 0 decodes to a node of the pool.
LEMMA TailDecodes ==
  ASSUME NEW tail \in Tails, tail # 0
  PROVE  DecodeTail(tail) \in Pool
BY DEF EncodeTail, DecodeTail, Tails, Pool

\* Nodes and tails of different threads differ.
LEMMA NodesDistinct ==
  ASSUME TypeOK, NEW t \in Threads, NEW u \in Threads
  PROVE  /\ Node(t) = Node(u) => t = u
         /\ MyTail(t) = MyTail(u) => t = u
         /\ Node(t) \in Pool /\ Node(t) # Null
         /\ MyTail(t) \in Tails /\ MyTail(t) # 0
         /\ DecodeTail(MyTail(t)) = Node(t)
<1>1. idx[t] \in 0 .. 3 /\ idx[u] \in 0 .. 3
  BY DEF TypeOK
<1>2. Node(t) = Node(u) => t = u
  BY <1>1 DEF Node, Threads
<1>3. MyTail(t) = MyTail(u) => t = u
  BY <1>1 DEF MyTail, EncodeTail, Threads
<1>4. Node(t) \in Pool /\ Node(t) # Null
  BY <1>1 DEF Node, Threads, Pool, Null
<1>5. MyTail(t) \in Tails /\ MyTail(t) # 0
  BY <1>1, TailStored DEF MyTail
<1>6. DecodeTail(EncodeTail(t, idx[t])) = 4 * t + idx[t]
  BY ONLY <1>1, t \in Threads, TailRoundTrip
<1>7. DecodeTail(MyTail(t)) = Node(t)
  BY <1>6 DEF MyTail, Node
<1>8. QED
  BY <1>2, <1>3, <1>4, <1>5, <1>7

\* The fields of a lock word.
LEMMA WordFields ==
  ASSUME NEW w \in Word
  PROVE  w.tail \in Tails /\ w.pending \in Byte /\ w.locked \in Byte
BY DEF Word, Byte

\* The constant words are lock words.
LEMMA WordConstants == Free \in Word /\ LockedOnly \in Word /\ 0 \in Tails
BY DEF Free, LockedOnly, Word, Tails, Byte

\* The words the lock is set to are lock words.
LEMMA LockedSet == ASSUME NEW w \in Word PROVE [w EXCEPT !.locked = 1] \in Word
BY DEF Word, Byte

\* Storing 0 in the locked byte gives a lock word.
LEMMA LockedCleared == ASSUME NEW w \in Word PROVE [w EXCEPT !.locked = 0] \in Word
BY DEF Word, Byte

\* So does the pending thread's store of both bytes,
LEMMA PendingTaken ==
  ASSUME NEW w \in Word PROVE [tail |-> w.tail, pending |-> 0, locked |-> 1] \in Word
BY DEF Word, Byte

\* the cmpxchg of trylock || pending,
LEMMA UncontendedTaken ==
  ASSUME NEW w \in Word PROVE [tail |-> 0, pending |-> w.locked, locked |-> 1] \in Word
BY DEF Word, Byte, Tails

\* and the exchange of the tail.
LEMMA TailSet ==
  ASSUME NEW w \in Word, NEW tail \in Tails PROVE [w EXCEPT !.tail = tail] \in Word
BY DEF Word, Byte

\* A thread with no node in use has one left.
LEMMA NodeLeft ==
  ASSUME TypeOK, NodesSuffice, NEW t \in Threads, pc[t] = "trypend"
  PROVE  count[t] \in 0 .. 3 /\ 4 * t + count[t] \in Pool
<1>1. ~InNode(t)
  BY DEF InNode, OnQueue
<1>2. count[t] \in 0 .. 3
  BY <1>1 DEF TypeOK, NodesSuffice
<1>3. QED
  BY <1>2 DEF Threads, Pool

\* The initial state is typed, with nodes to spare.
LEMMA InitTyped == Init => TypeOK /\ NodesSuffice
<1> SUFFICES ASSUME Init
             PROVE  TypeOK /\ NodesSuffice
  OBVIOUS
<1>1. TypeOK
  BY WordConstants DEF Init, TypeOK, Labels, Byte
<1>2. NodesSuffice
  BY DEF Init, NodesSuffice, InNode, OnQueue
<1>3. QED
  BY <1>1, <1>2

\* A thread on the queue has a place; the head of the queue is the first.
LEMMA HasPlace ==
  ASSUME TypeOK, QueueInOrder, NEW t \in Threads, OnQueue(t)
  PROVE  /\ Len(queue) \in Nat /\ Len(queue) > 0 /\ queue # <<>>
         /\ \E i \in Places : queue[i] = t
         /\ pc[t] \in AtHead => queue[1] = t
<1>1. PICK i \in Places : queue[i] = t
  BY DEF QueueInOrder
<1>2. Len(queue) \in Nat /\ Len(queue) > 0 /\ queue # <<>>
  BY <1>1, EmptySeq DEF TypeOK, Places
<1>3. pc[t] \in AtHead => queue[1] = t
  BY <1>1 DEF QueueInOrder
<1>4. QED
  BY <1>1, <1>2, <1>3

\* A thread that moves on moves alone.
LEMMA MoveEffect ==
  ASSUME TypeOK, NEW t \in Threads, NEW label, Goto(t, label)
  PROVE  pc'[t] = label /\ \A u \in Threads \ {t} : pc'[u] = pc[u]
BY DEF TypeOK, Goto

InNodeLabels == {"link", "mcswait", "peeknext", "headwait", "claim", "waitnext",
                 "handoff", "tryagain", "xchg", "release"}

\* A thread that moves within its node, or without one, leaves a node to each.
LEMMA NodesUndisturbed ==
  ASSUME TypeOK, NodesSuffice, NEW t \in Threads, NEW label, Goto(t, label), count' = count,
         InNode(t) <=> label \in InNodeLabels
  PROVE  NodesSuffice'
<1>1. \A u \in Threads : InNode(u)' <=> InNode(u)
  BY MoveEffect DEF InNode, OnQueue, InNodeLabels
<1>2. QED
  BY ONLY <1>1, NodesSuffice, count' = count DEF NodesSuffice

\* Every access of lock_acquire and lock_release keeps the types and the count
\* of nodes.
LEMMA StepTyped ==
  ASSUME TypeOK, IInv, NEW t \in Threads, Acquire(t) \/ Step(t)
  PROVE  TypeOK' /\ NodesSuffice'
<1> USE DEF Goto, locals
<1>0. /\ Node(t) \in Pool /\ MyTail(t) \in Tails
      /\ word \in Word /\ word.tail \in Tails
  BY NodesDistinct, WordFields DEF TypeOK
<1>00. NodesSuffice /\ QueueInOrder /\ ChainIntact /\ HeadReadsSafely
  BY DEF IInv
<1>a. CASE Acquire(t)
  <2> USE <1>a DEF Acquire
  <2>1. word' \in Word
    BY <1>0, WordConstants
  <2>2. pc' \in [Threads -> Labels]
    BY DEF TypeOK, Labels
  <2>3. val' \in [Threads -> Word]
    BY <1>0, WordConstants DEF TypeOK
  <2>4. TypeOK'
    BY <2>1, <2>2, <2>3 DEF TypeOK
  <2>5. NodesSuffice'
    <3>1. \A u \in Threads : InNode(u)' <=> InNode(u)
      BY ONLY TypeOK, t \in Threads, <1>a DEF TypeOK, InNode, OnQueue
    <3>2. count' = count
      BY ONLY <1>a
    <3>3. QED
      BY ONLY <1>00, <3>1, <3>2 DEF NodesSuffice
  <2>6. QED
    BY <2>4, <2>5
<1>b. CASE AwaitHandover(t)
  <2> USE <1>b DEF AwaitHandover
  <2>1. pc' \in [Threads -> Labels]
    BY DEF TypeOK, Labels
  <2>2. val' \in [Threads -> Word]
    BY <1>0, WordConstants DEF TypeOK
  <2>3. TypeOK'
    BY <2>1, <2>2 DEF TypeOK
  <2>4. NodesSuffice'
    BY ONLY <1>b, <1>00, TypeOK, t \in Threads, NodesUndisturbed DEF InNode, OnQueue, InNodeLabels
  <2>5. QED
    BY <2>3, <2>4
<1>c. CASE TryOrPend(t)
  <2> USE <1>c DEF TryOrPend
  <2>1. word' \in Word
    BY <1>0, UncontendedTaken
  <2>2. pc' \in [Threads -> Labels]
    BY DEF TypeOK, Labels
  <2>3. val' \in [Threads -> Word]
    BY <1>0, WordConstants DEF TypeOK
  <2>4. TypeOK'
    BY <2>1, <2>2, <2>3 DEF TypeOK
  <2>5. NodesSuffice'
    <3>1. \A u \in Threads : InNode(u)' <=> InNode(u)
      BY ONLY TypeOK, t \in Threads, <1>c DEF TypeOK, InNode, OnQueue
    <3>2. count' = count
      BY ONLY <1>c
    <3>3. QED
      BY ONLY <1>00, <3>1, <3>2 DEF NodesSuffice
  <2>6. QED
    BY <2>4, <2>5
<1>d. CASE AwaitOwner(t)
  <2> USE <1>d DEF AwaitOwner
  <2>1. pc' \in [Threads -> Labels]
    BY DEF TypeOK, Labels
  <2>2. TypeOK'
    BY <2>1 DEF TypeOK
  <2>3. NodesSuffice'
    BY ONLY <1>d, <1>00, TypeOK, t \in Threads, NodesUndisturbed DEF InNode, OnQueue, InNodeLabels
  <2>4. QED
    BY <2>2, <2>3
<1>e. CASE TakePending(t)
  <2> USE <1>e DEF TakePending
  <2>1. word' \in Word
    BY <1>0, PendingTaken
  <2>2. pc' \in [Threads -> Labels]
    BY DEF TypeOK, Labels
  <2>3. TypeOK'
    BY <2>1, <2>2 DEF TypeOK
  <2>4. NodesSuffice'
    BY ONLY <1>e, <1>00, TypeOK, t \in Threads, NodesUndisturbed DEF InNode, OnQueue, InNodeLabels
  <2>5. QED
    BY <2>3, <2>4
<1>f. CASE PrepareNode(t)
  <2> USE <1>f DEF PrepareNode
  <2>1. count[t] \in 0 .. 3 /\ 4 * t + count[t] \in Pool
    BY <1>00, NodeLeft
  <2>2. next' \in [Pool -> Pool \cup {Null}]
    BY ONLY TypeOK, <1>f, <2>1 DEF TypeOK
  <2>3. granted' \in [Pool -> Byte]
    BY ONLY TypeOK, <1>f, <2>1 DEF TypeOK, Byte
  <2>4. count' \in [Threads -> 0 .. 4]
    BY ONLY TypeOK, <1>f, <2>1 DEF TypeOK
  <2>5. pc' \in [Threads -> Labels]
    BY ONLY TypeOK, t \in Threads, <1>f DEF TypeOK, Labels
  <2>6. val' \in [Threads -> Word]
    BY ONLY TypeOK, <1>f, WordConstants DEF TypeOK
  <2>7. idx' \in [Threads -> 0 .. 3]
    BY ONLY TypeOK, <1>f, <2>1 DEF TypeOK
  <2>8. TypeOK'
    BY ONLY TypeOK, <1>f, <2>2, <2>3, <2>4, <2>5, <2>6, <2>7 DEF TypeOK
  <2>9. NodesSuffice'
    <3>1. \A u \in Threads \ {t} : count'[u] = count[u] /\ pc'[u] = pc[u]
      BY ONLY TypeOK, t \in Threads, <1>f DEF TypeOK
    <3>2. IF InNode(t)' THEN count'[t] > 0 ELSE count'[t] < 4
      BY ONLY TypeOK, t \in Threads, <1>f, <2>1 DEF TypeOK, InNode, OnQueue
    <3>3. QED
      BY ONLY <1>00, <3>1, <3>2 DEF NodesSuffice, InNode, OnQueue
  <2>10. QED
    BY <2>8, <2>9
<1>g. CASE TryAgain(t)
  <2> USE <1>g DEF TryAgain
  <2>1. word' \in Word
    BY <1>0, WordConstants
  <2>2. pc' \in [Threads -> Labels]
    BY DEF TypeOK, Labels
  <2>3. TypeOK'
    BY <2>1, <2>2 DEF TypeOK
  <2>4. NodesSuffice'
    BY <1>00 DEF TypeOK, NodesSuffice, InNode, OnQueue
  <2>5. QED
    BY <2>3, <2>4
<1>h. CASE XchgTail(t)
  <2> USE <1>h DEF XchgTail
  <2>1. word.tail # 0 => DecodeTail(word.tail) \in Pool
    BY <1>0, TailDecodes
  <2>2. word' \in Word
    BY <1>0, TailSet
  <2>3. pc' \in [Threads -> Labels]
    BY DEF TypeOK, Labels
  <2>4. prev' \in [Threads -> Pool \cup {Null}]
    BY ONLY TypeOK, t \in Threads, <1>h, <2>1 DEF TypeOK
  <2>5. nxt' \in [Threads -> Pool \cup {Null}]
    BY <1>0 DEF TypeOK
  <2>6. queue' \in Seq(Threads)
    BY DEF TypeOK
  <2>7. TypeOK'
    BY <2>2, <2>3, <2>4, <2>5, <2>6 DEF TypeOK
  <2>8. NodesSuffice'
    BY <1>00 DEF TypeOK, NodesSuffice, InNode, OnQueue
  <2>9. QED
    BY <2>7, <2>8
<1>i. CASE LinkBehind(t)
  <2> USE <1>i DEF LinkBehind
  <2>1. \E i \in Places : queue[i] = t
    BY <1>00, HasPlace DEF OnQueue
  <2>2. prev[t] # Null
    <3>1. PICK i \in Places : queue[i] = t
      BY <2>1
    <3>2. ChainAt(i)
      BY ONLY <1>00, i \in Places DEF ChainIntact
    <3>3. i > 1 /\ prev[t] = Node(queue[i - 1])
      BY ONLY <3>1, <3>2, LinkBehind(t) DEF LinkBehind, ChainAt
    <3>4. queue[i - 1] \in Threads
      BY ONLY <3>3, TypeOK, i \in Places, ElementOfSeq DEF TypeOK, Places
    <3>5. QED
      BY ONLY <3>3, <3>4, TypeOK, NodesDistinct
  <2>3. prev[t] \in Pool
    BY <2>2 DEF TypeOK
  <2>4. next' \in [Pool -> Pool \cup {Null}]
    BY <1>0, <2>3 DEF TypeOK
  <2>5. pc' \in [Threads -> Labels]
    BY DEF TypeOK, Labels
  <2>6. prev' \in [Threads -> Pool \cup {Null}]
    BY DEF TypeOK
  <2>7. TypeOK'
    BY <2>4, <2>5, <2>6 DEF TypeOK
  <2>8. NodesSuffice'
    BY ONLY <1>i, <1>00, TypeOK, t \in Threads, NodesUndisturbed DEF InNode, OnQueue, InNodeLabels
  <2>9. QED
    BY <2>7, <2>8
<1>j. CASE AwaitGrant(t)
  <2> USE <1>j DEF AwaitGrant
  <2>1. pc' \in [Threads -> Labels]
    BY DEF TypeOK, Labels
  <2>2. TypeOK'
    BY <2>1 DEF TypeOK
  <2>3. NodesSuffice'
    BY ONLY <1>j, <1>00, TypeOK, t \in Threads, NodesUndisturbed DEF InNode, OnQueue, InNodeLabels
  <2>4. QED
    BY <2>2, <2>3
<1>k. CASE PeekNext(t)
  <2> USE <1>k DEF PeekNext
  <2>1. pc' \in [Threads -> Labels]
    BY DEF TypeOK, Labels
  <2>2. nxt' \in [Threads -> Pool \cup {Null}]
    BY <1>0 DEF TypeOK
  <2>3. TypeOK'
    BY <2>1, <2>2 DEF TypeOK
  <2>4. NodesSuffice'
    BY ONLY <1>k, <1>00, TypeOK, t \in Threads, NodesUndisturbed DEF InNode, OnQueue, InNodeLabels
  <2>5. QED
    BY <2>3, <2>4
<1>l. CASE AwaitFree(t)
  <2> USE <1>l DEF AwaitFree
  <2>1. pc' \in [Threads -> Labels]
    BY DEF TypeOK, Labels
  <2>2. val' \in [Threads -> Word]
    BY <1>0, WordConstants DEF TypeOK
  <2>3. TypeOK'
    BY <2>1, <2>2 DEF TypeOK
  <2>4. NodesSuffice'
    BY ONLY <1>l, <1>00, TypeOK, t \in Threads, NodesUndisturbed DEF InNode, OnQueue, InNodeLabels
  <2>5. QED
    BY <2>3, <2>4
<1>m. CASE ClaimContended(t)
  <2> USE <1>m DEF ClaimContended
  <2>1. word' \in Word
    BY <1>0, LockedSet
  <2>2. pc' \in [Threads -> Labels]
    BY DEF TypeOK, Labels
  <2>3. val' \in [Threads -> Word]
    BY <1>0, WordConstants DEF TypeOK
  <2>4. TypeOK'
    BY <2>1, <2>2, <2>3 DEF TypeOK
  <2>5. NodesSuffice'
    BY ONLY <1>m, <1>00, TypeOK, t \in Threads, NodesUndisturbed DEF InNode, OnQueue, InNodeLabels
  <2>6. QED
    BY <2>4, <2>5
<1>n. CASE ClaimAlone(t)
  <2> USE <1>n DEF ClaimAlone
  <2>1. queue # <<>>
    BY <1>00, HasPlace DEF OnQueue
  <2>2. word' \in Word
    BY <1>0, WordConstants
  <2>3. pc' \in [Threads -> Labels]
    BY DEF TypeOK, Labels
  <2>4. val' \in [Threads -> Word]
    BY ONLY TypeOK, t \in Threads, <1>n, <1>0, WordConstants DEF TypeOK
  <2>5. queue' \in Seq(Threads)
    <3>1. queue \in Seq(Threads) /\ Tail(queue) \in Seq(Threads)
      BY <2>1, HeadTailProperties DEF TypeOK
    <3>2. queue' = Tail(queue) \/ queue' = queue
      OBVIOUS
    <3>3. QED
      BY ONLY <3>1, <3>2
  <2>6. TypeOK'
    BY <2>2, <2>3, <2>4, <2>5 DEF TypeOK
  <2>7. NodesSuffice'
    BY <1>00 DEF TypeOK, NodesSuffice, InNode, OnQueue
  <2>8. QED
    BY <2>6, <2>7
<1>o. CASE AwaitNext(t)
  <2> USE <1>o DEF AwaitNext
  <2>1. pc' \in [Threads -> Labels]
    BY DEF TypeOK, Labels
  <2>2. nxt' \in [Threads -> Pool \cup {Null}]
    BY <1>0 DEF TypeOK
  <2>3. TypeOK'
    BY <2>1, <2>2 DEF TypeOK
  <2>4. NodesSuffice'
    BY ONLY <1>o, <1>00, TypeOK, t \in Threads, NodesUndisturbed DEF InNode, OnQueue, InNodeLabels
  <2>5. QED
    BY <2>3, <2>4
<1>p. CASE HandOff(t)
  <2> USE <1>p DEF HandOff
  <2>1. queue # <<>>
    BY <1>00, HasPlace DEF OnQueue
  <2>2. nxt[t] \in Pool
    BY ONLY t \in Threads, TypeOK, <1>p, <1>00 DEF TypeOK, HeadReadsSafely
  <2>3. granted' \in [Pool -> Byte]
    BY <1>0, <2>2 DEF TypeOK, Byte
  <2>4. pc' \in [Threads -> Labels]
    BY DEF TypeOK, Labels
  <2>5. queue' \in Seq(Threads)
    BY <2>1, HeadTailProperties DEF TypeOK
  <2>6. TypeOK'
    BY <2>3, <2>4, <2>5 DEF TypeOK
  <2>7. NodesSuffice'
    BY ONLY <1>p, <1>00, TypeOK, t \in Threads, NodesUndisturbed DEF InNode, OnQueue, InNodeLabels
  <2>8. QED
    BY <2>6, <2>7
<1>q. CASE ReleaseNode(t)
  <2> USE <1>q DEF ReleaseNode
  <2>1. count[t] \in 1 .. 4
    BY ONLY TypeOK, t \in Threads, <1>00, <1>q DEF TypeOK, NodesSuffice, InNode
  <2>2. count' \in [Threads -> 0 .. 4]
    BY ONLY TypeOK, t \in Threads, <1>q, <2>1 DEF TypeOK
  <2>3. pc' \in [Threads -> Labels]
    BY ONLY TypeOK, t \in Threads, <1>q DEF TypeOK, Labels
  <2>4. idx' \in [Threads -> 0 .. 3]
    BY ONLY TypeOK, <1>q DEF TypeOK
  <2>5. nxt' \in [Threads -> Pool \cup {Null}]
    BY ONLY TypeOK, <1>q DEF TypeOK
  <2>6. TypeOK'
    BY <2>2, <2>3, <2>4, <2>5 DEF TypeOK
  <2>7. NodesSuffice'
    <3>1. \A u \in Threads \ {t} : count'[u] = count[u] /\ pc'[u] = pc[u]
      BY ONLY TypeOK, t \in Threads, <1>q DEF TypeOK
    <3>2. IF InNode(t)' THEN count'[t] > 0 ELSE count'[t] < 4
      BY ONLY TypeOK, t \in Threads, <1>q, <2>1 DEF TypeOK, InNode, OnQueue
    <3>3. QED
      BY ONLY <1>00, <3>1, <3>2 DEF NodesSuffice, InNode, OnQueue
  <2>8. QED
    BY <2>6, <2>7
<1>r. CASE Unlock(t)
  <2> USE <1>r DEF Unlock
  <2>1. word' \in Word
    BY <1>0, LockedCleared
  <2>2. pc' \in [Threads -> Labels]
    BY DEF TypeOK, Labels
  <2>3. TypeOK'
    BY <2>1, <2>2 DEF TypeOK
  <2>4. NodesSuffice'
    BY ONLY <1>r, <1>00, TypeOK, t \in Threads, NodesUndisturbed DEF InNode, OnQueue, InNodeLabels
  <2>5. QED
    BY <2>3, <2>4
<1>z. QED
  BY <1>a, <1>b, <1>c, <1>d, <1>e, <1>f, <1>g, <1>h, <1>i, <1>j, <1>k, <1>l, <1>m,
     <1>n, <1>o, <1>p, <1>q, <1>r DEF Step

\* When the tail is 0 nobody is on the queue, so nobody is about to claim.
LEMMA NobodyQueued ==
  ASSUME TypeOK, QueueInOrder, word.tail = 0, NEW u \in Threads
  PROVE  ~OnQueue(u)
<1> SUFFICES ASSUME OnQueue(u)
             PROVE  FALSE
  OBVIOUS
<1>1. queue # <<>> /\ Len(queue) \in Nat /\ Len(queue) > 0
  BY HasPlace
<1>2. queue[Len(queue)] \in Threads
  BY <1>1, ElementOfSeq DEF TypeOK
<1>3. MyTail(queue[Len(queue)]) # 0
  BY <1>2, NodesDistinct
<1>4. QED
  BY <1>1, <1>3 DEF QueueInOrder

Holding == {"waitnext", "handoff", "release", "cs"}
Pending == {"pendwait", "takepending"}

\* A thread that touches neither byte, and passes from no side of the lock to
\* another, leaves the owners as they are.
LEMMA OwnersUndisturbed ==
  ASSUME TypeOK, WordTellsOwners, MutualExclusion,
         NEW t \in Threads, NEW label, Goto(t, label),
         word'.locked = word.locked, word'.pending = word.pending,
         Holds(t) <=> label \in Holding, Pends(t) <=> label \in Pending,
         label = "takepending" => word.locked = 0,
         label = "claim" => word.locked = 0 /\ word.pending = 0
  PROVE  WordTellsOwners' /\ MutualExclusion'
<1>1. pc'[t] = label /\ \A u \in Threads \ {t} : pc'[u] = pc[u]
  BY MoveEffect
<1>2. \A u \in Threads : Holds(u)' <=> Holds(u)
  BY <1>1 DEF Holds, Holding
<1>3. \A u \in Threads : Pends(u)' <=> Pends(u)
  BY <1>1 DEF Pends, Pending
<1>4. \A u \in Threads : pc'[u] = "takepending" => word.locked = 0
  BY <1>1 DEF WordTellsOwners
<1>5. \A u \in Threads : pc'[u] = "claim" => word.locked = 0 /\ word.pending = 0
  BY <1>1 DEF WordTellsOwners
<1>6. WordTellsOwners'
  BY <1>2, <1>3, <1>4, <1>5 DEF WordTellsOwners
<1>7. MutualExclusion'
  BY <1>2 DEF MutualExclusion
<1>8. QED
  BY <1>6, <1>7

\* The bytes of the word still tell who owns it and who is next, and the owner is
\* alone, after every step.
LEMMA StepKeepsOwners ==
  ASSUME TypeOK, IInv, NEW t \in Threads, Acquire(t) \/ Step(t)
  PROVE  WordTellsOwners' /\ MutualExclusion'
<1>0. WordTellsOwners /\ MutualExclusion /\ QueueInOrder
  BY DEF IInv
<1>00. word \in Word /\ pc \in [Threads -> Labels]
  BY DEF TypeOK
<1>000. word.tail = 0 => \A u \in Threads : pc[u] # "claim"
  BY <1>0, NobodyQueued DEF OnQueue
<1>claim. \A u \in Threads : pc[t] = "claim" /\ pc[u] = "claim" => t = u
  BY <1>0, HasPlace DEF OnQueue, AtHead
<1>a. CASE Acquire(t)
  BY ONLY <1>a, <1>0, <1>00, <1>000, t \in Threads DEF Acquire, Goto, WordTellsOwners, MutualExclusion,
       Holds, Pends, Free, LockedOnly, Word, Byte, Labels
<1>b. CASE AwaitHandover(t)
  BY ONLY <1>b, <1>0, TypeOK, t \in Threads, OwnersUndisturbed
  DEF AwaitHandover, Holds, Pends, Holding, Pending, locals
<1>c. CASE TryOrPend(t)
  BY ONLY <1>c, <1>0, <1>00, <1>000, t \in Threads DEF TryOrPend, Contended, Goto, WordTellsOwners, MutualExclusion,
       Holds, Pends, Free, LockedOnly, Word, Byte, Labels
<1>d. CASE AwaitOwner(t)
  BY ONLY <1>d, <1>0, TypeOK, t \in Threads, OwnersUndisturbed
  DEF AwaitOwner, Holds, Pends, Holding, Pending, locals
<1>e. CASE TakePending(t)
  BY ONLY <1>e, <1>0, <1>00, <1>000, t \in Threads DEF TakePending, Goto, WordTellsOwners, MutualExclusion,
       Holds, Pends, Free, LockedOnly, Word, Byte, Labels
<1>f. CASE PrepareNode(t)
  BY ONLY <1>f, <1>0, TypeOK, t \in Threads, OwnersUndisturbed
  DEF PrepareNode, Holds, Pends, Holding, Pending, locals
<1>g. CASE TryAgain(t)
  BY ONLY <1>g, <1>0, <1>00, <1>000, t \in Threads DEF TryAgain, Goto, WordTellsOwners, MutualExclusion,
       Holds, Pends, Free, LockedOnly, Word, Byte, Labels
<1>h. CASE XchgTail(t)
  <2>1. word'.locked = word.locked /\ word'.pending = word.pending
    BY ONLY <1>h, <1>00 DEF XchgTail, Word
  <2>2. pc[t] = "xchg" /\ (Goto(t, "link") \/ Goto(t, "headwait"))
    BY ONLY <1>h DEF XchgTail
  <2>3. QED
    BY ONLY <1>0, <2>1, <2>2, TypeOK, t \in Threads, OwnersUndisturbed
    DEF Holds, Pends, Holding, Pending
<1>i. CASE LinkBehind(t)
  BY ONLY <1>i, <1>0, TypeOK, t \in Threads, OwnersUndisturbed
  DEF LinkBehind, Holds, Pends, Holding, Pending, locals
<1>j. CASE AwaitGrant(t)
  BY ONLY <1>j, <1>0, TypeOK, t \in Threads, OwnersUndisturbed
  DEF AwaitGrant, Holds, Pends, Holding, Pending, locals
<1>k. CASE PeekNext(t)
  BY ONLY <1>k, <1>0, TypeOK, t \in Threads, OwnersUndisturbed
  DEF PeekNext, Holds, Pends, Holding, Pending, locals
<1>l. CASE AwaitFree(t)
  BY ONLY <1>l, <1>0, TypeOK, t \in Threads, OwnersUndisturbed
  DEF AwaitFree, Holds, Pends, Holding, Pending, locals
<1>m. CASE ClaimContended(t)
  BY ONLY <1>m, <1>0, <1>00, <1>claim, t \in Threads DEF ClaimContended, Goto, WordTellsOwners, MutualExclusion,
       Holds, Pends, Free, LockedOnly, Word, Byte, Labels
<1>n. CASE ClaimAlone(t)
  BY ONLY <1>n, <1>0, <1>00, <1>claim, t \in Threads DEF ClaimAlone, Goto, WordTellsOwners, MutualExclusion,
       Holds, Pends, Free, LockedOnly, Word, Byte, Labels
<1>o. CASE AwaitNext(t)
  BY ONLY <1>o, <1>0, TypeOK, t \in Threads, OwnersUndisturbed
  DEF AwaitNext, Holds, Pends, Holding, Pending, locals
<1>p. CASE HandOff(t)
  BY ONLY <1>p, <1>0, TypeOK, t \in Threads, OwnersUndisturbed
  DEF HandOff, Holds, Pends, Holding, Pending, locals
<1>q. CASE ReleaseNode(t)
  BY ONLY <1>q, <1>0, TypeOK, t \in Threads, OwnersUndisturbed
  DEF ReleaseNode, Holds, Pends, Holding, Pending, locals
<1>r. CASE Unlock(t)
  BY ONLY <1>r, <1>0, <1>00, <1>000, t \in Threads DEF Unlock, Goto, WordTellsOwners, MutualExclusion,
       Holds, Pends, Free, LockedOnly, Word, Byte, Labels
<1>z. QED
  BY <1>a, <1>b, <1>c, <1>d, <1>e, <1>f, <1>g, <1>h, <1>i, <1>j, <1>k, <1>l, <1>m,
     <1>n, <1>o, <1>p, <1>q, <1>r DEF Step

\* What the queue becomes when a thread joins it.
LEMMA QueueJoined ==
  ASSUME NEW q \in Seq(Threads), NEW t \in Threads, NEW r, r = Append(q, t)
  PROVE  /\ Len(r) = Len(q) + 1 /\ r # <<>>
         /\ \A i \in 1 .. Len(q) : r[i] = q[i]
         /\ r[Len(q) + 1] = t
OBVIOUS

\* What the queue becomes when its head leaves.
LEMMA QueueLeft ==
  ASSUME NEW q \in Seq(Threads), q # <<>>, NEW r, r = Tail(q)
  PROVE  /\ Len(r) = Len(q) - 1
         /\ \A i \in 1 .. Len(q) - 1 : r[i] = q[i + 1]
         /\ r = <<>> <=> Len(q) = 1
<1>1. /\ Len(r) = Len(q) - 1
      /\ \A i \in 1 .. Len(q) - 1 : r[i] = q[i + 1]
      /\ r \in Seq(Threads)
  BY HeadTailProperties
<1>2. r = <<>> <=> Len(r) = 0
  BY <1>1, EmptySeq
<1>3. QED
  BY <1>1, <1>2, LenProperties

\* The head that sees itself in the tail is alone on the queue.
LEMMA AloneOnQueue ==
  ASSUME TypeOK, QueueInOrder, NEW t \in Threads, pc[t] = "claim",
         word.tail = MyTail(t)
  PROVE  queue # <<>> /\ Len(queue) = 1 /\ queue[1] = t
<1>1. Len(queue) \in Nat /\ Len(queue) > 0 /\ queue # <<>> /\ queue[1] = t
  BY HasPlace DEF OnQueue, AtHead
<1>2. queue[Len(queue)] \in Threads
  BY <1>1, ElementOfSeq DEF TypeOK
<1>3. MyTail(queue[Len(queue)]) = MyTail(t)
  BY <1>1 DEF QueueInOrder
<1>4. queue[Len(queue)] = t
  BY <1>2, <1>3, NodesDistinct
<1>5. Len(queue) = 1
  BY <1>1, <1>4 DEF QueueInOrder, Places
<1>6. QED
  BY <1>1, <1>5

\* The head that saw a successor has one.
LEMMA HeadHandsOn ==
  ASSUME TypeOK, QueueInOrder, ChainIntact, HeadReadsSafely,
         NEW t \in Threads, pc[t] = "handoff"
  PROVE  /\ Len(queue) > 1 /\ queue[1] = t /\ queue[2] \in Threads
         /\ nxt[t] = Node(queue[2]) /\ pc[queue[2]] # "link"
<1>1. Len(queue) \in Nat /\ Len(queue) > 0 /\ queue[1] = t /\ 1 \in Places
  BY HasPlace DEF OnQueue, AtHead, Places
<1>2. next[Node(t)] # Null /\ nxt[t] = next[Node(t)]
  BY DEF HeadReadsSafely
<1>3. Len(queue) > 1 /\ pc[queue[2]] # "link" /\ next[Node(t)] = Node(queue[2])
  BY ONLY ChainIntact, <1>1, <1>2 DEF ChainIntact, ChainAt
<1>4. queue[2] \in Threads
  BY <1>1, <1>3, ElementOfSeq DEF TypeOK
<1>5. QED
  BY <1>1, <1>2, <1>3, <1>4

\* A step that leaves the queue and the tail alone, and moves nobody on, off or
\* to the head of the queue, keeps the queue's order.
LEMMA QueueUndisturbed ==
  ASSUME TypeOK, QueueInOrder, queue' = queue, word'.tail = word.tail,
         \A u \in Threads : /\ OnQueue(u)' <=> OnQueue(u)
                            /\ pc'[u] \in AtHead => pc[u] \in AtHead
                            /\ OnQueue(u) => idx'[u] = idx[u]
  PROVE  QueueInOrder'
<1>1. /\ Len(queue) \in Nat /\ Places' = Places
      /\ \A i \in Places : queue'[i] = queue[i] /\ queue[i] \in Threads
  BY ElementOfSeq DEF TypeOK, Places
<1>2. \A u \in Threads : OnQueue(u)' => \E i \in Places' : queue'[i] = u
  BY <1>1 DEF QueueInOrder
<1>3. \A i \in Places' : OnQueue(queue[i])'
  BY <1>1 DEF QueueInOrder
<1>4. \A i, j \in Places' : queue'[i] = queue'[j] => i = j
  BY <1>1 DEF QueueInOrder
<1>5. word'.tail = IF queue' = <<>> THEN 0 ELSE MyTail(queue[Len(queue)])'
  <2>1. CASE queue = <<>>
    BY <2>1 DEF QueueInOrder
  <2>2. CASE queue # <<>>
    <3>1. Len(queue) \in Places
      BY <1>1, <2>2, EmptySeq DEF TypeOK, Places
    <3>2. OnQueue(queue[Len(queue)]) /\ queue[Len(queue)] \in Threads
      BY <1>1, <3>1 DEF QueueInOrder
    <3>3. QED
      BY <2>2, <3>2 DEF QueueInOrder, MyTail
  <2>3. QED
    BY <2>1, <2>2
<1>6. \A i \in Places' : pc'[queue'[i]] \in AtHead => i = 1
  BY <1>1 DEF QueueInOrder
<1>7. QED
  BY ONLY <1>2, <1>3, <1>4, <1>5, <1>6 DEF QueueInOrder

\* The first of the queue may pass its MCS wait.
LEMMA FirstStaysFirst ==
  ASSUME TypeOK, QueueInOrder, NEW t \in Threads, OnQueue(t),
         \A i \in Places : queue[i] = t => i = 1,
         UNCHANGED <<word, idx, queue>>, pc' = [pc EXCEPT ![t] = "peeknext"]
  PROVE  QueueInOrder'
<1>1. /\ pc'[t] = "peeknext" /\ \A u \in Threads \ {t} : pc'[u] = pc[u]
      /\ \A i \in Places : queue[i] \in Threads
  BY ElementOfSeq DEF TypeOK, Places
<1>2. \A u \in Threads : OnQueue(u)' <=> OnQueue(u)
  BY <1>1 DEF OnQueue
<1>3. Places' = Places /\ queue' = queue
  BY DEF Places
<1>4. \A u \in Threads : OnQueue(u)' => \E i \in Places' : queue'[i] = u
  BY ONLY QueueInOrder, <1>2, <1>3 DEF QueueInOrder
<1>5. \A i \in Places' : OnQueue(queue[i])'
  BY ONLY QueueInOrder, <1>1, <1>2, <1>3 DEF QueueInOrder
<1>6. \A i, j \in Places' : queue'[i] = queue'[j] => i = j
  BY ONLY QueueInOrder, <1>3 DEF QueueInOrder
<1>7. word'.tail = IF queue' = <<>> THEN 0 ELSE MyTail(queue[Len(queue)])'
  BY ONLY QueueInOrder, UNCHANGED <<word, idx, queue>> DEF QueueInOrder, MyTail
<1>8. \A i \in Places' : pc'[queue'[i]] \in AtHead => i = 1
  <2>1. \A i \in Places : queue[i] # t => pc'[queue[i]] = pc[queue[i]]
    BY ONLY <1>1
  <2>2. QED
    BY ONLY QueueInOrder, <1>3, <2>1, \A i \in Places : queue[i] = t => i = 1 DEF QueueInOrder
<1>9. QED
  BY ONLY <1>4, <1>5, <1>6, <1>7, <1>8 DEF QueueInOrder

\* The queue keeps its order, and the tail names its last thread, after every
\* step.
LEMMA StepKeepsQueue ==
  ASSUME TypeOK, IInv, NEW t \in Threads, Acquire(t) \/ Step(t)
  PROVE  QueueInOrder'
<1>0. QueueInOrder /\ ChainIntact /\ HeadReadsSafely
  BY DEF IInv
<1>00. /\ word \in Word /\ pc \in [Threads -> Labels] /\ idx \in [Threads -> 0 .. 3]
       /\ Len(queue) \in Nat /\ \A i \in Places : queue[i] \in Threads
  BY ElementOfSeq DEF TypeOK, Places
<1>000. word.tail = 0 <=> queue = <<>>
  BY <1>0, <1>00, EmptySeq, NodesDistinct DEF QueueInOrder, Places, TypeOK
<1>a. CASE Acquire(t)
  <2>1. queue' = queue /\ word'.tail = word.tail
    BY <1>a, <1>00 DEF Acquire, Free, LockedOnly, Word
  <2>2. \A u \in Threads : /\ OnQueue(u)' <=> OnQueue(u)
                           /\ pc'[u] \in AtHead => pc[u] \in AtHead
                           /\ OnQueue(u) => idx'[u] = idx[u]
    BY <1>a, <1>00 DEF Acquire, Goto, OnQueue, AtHead, locals
  <2>3. QED
    BY <1>0, <2>1, <2>2, QueueUndisturbed DEF OnQueue
<1>b. CASE AwaitHandover(t)
  <2>1. queue' = queue /\ word'.tail = word.tail
    BY <1>b, <1>00 DEF AwaitHandover, Free, LockedOnly, Word
  <2>2. \A u \in Threads : /\ OnQueue(u)' <=> OnQueue(u)
                           /\ pc'[u] \in AtHead => pc[u] \in AtHead
                           /\ OnQueue(u) => idx'[u] = idx[u]
    BY <1>b, <1>00 DEF AwaitHandover, Goto, OnQueue, AtHead, locals
  <2>3. QED
    BY <1>0, <2>1, <2>2, QueueUndisturbed DEF OnQueue
<1>c. CASE TryOrPend(t)
  <2>1. queue' = queue /\ word'.tail = word.tail
    BY <1>c, <1>00 DEF TryOrPend, Contended, Free, LockedOnly, Word
  <2>2. \A u \in Threads : /\ OnQueue(u)' <=> OnQueue(u)
                           /\ pc'[u] \in AtHead => pc[u] \in AtHead
                           /\ OnQueue(u) => idx'[u] = idx[u]
    BY <1>c, <1>00 DEF TryOrPend, Goto, OnQueue, AtHead, locals
  <2>3. QED
    BY <1>0, <2>1, <2>2, QueueUndisturbed DEF OnQueue
<1>d. CASE AwaitOwner(t)
  <2>1. queue' = queue /\ word'.tail = word.tail
    BY <1>d, <1>00 DEF AwaitOwner, Free, LockedOnly, Word
  <2>2. \A u \in Threads : /\ OnQueue(u)' <=> OnQueue(u)
                           /\ pc'[u] \in AtHead => pc[u] \in AtHead
                           /\ OnQueue(u) => idx'[u] = idx[u]
    BY <1>d, <1>00 DEF AwaitOwner, Goto, OnQueue, AtHead, locals
  <2>3. QED
    BY <1>0, <2>1, <2>2, QueueUndisturbed DEF OnQueue
<1>e. CASE TakePending(t)
  <2>1. queue' = queue /\ word'.tail = word.tail
    BY <1>e, <1>00 DEF TakePending, Free, LockedOnly, Word
  <2>2. \A u \in Threads : /\ OnQueue(u)' <=> OnQueue(u)
                           /\ pc'[u] \in AtHead => pc[u] \in AtHead
                           /\ OnQueue(u) => idx'[u] = idx[u]
    BY <1>e, <1>00 DEF TakePending, Goto, OnQueue, AtHead, locals
  <2>3. QED
    BY <1>0, <2>1, <2>2, QueueUndisturbed DEF OnQueue
<1>f. CASE PrepareNode(t)
  <2>1. queue' = queue /\ word'.tail = word.tail
    BY <1>f, <1>00 DEF PrepareNode, Free, LockedOnly, Word
  <2>2. \A u \in Threads : /\ OnQueue(u)' <=> OnQueue(u)
                           /\ pc'[u] \in AtHead => pc[u] \in AtHead
                           /\ OnQueue(u) => idx'[u] = idx[u]
    BY <1>f, <1>00 DEF PrepareNode, Goto, OnQueue, AtHead, locals
  <2>3. QED
    BY <1>0, <2>1, <2>2, QueueUndisturbed DEF OnQueue
<1>g. CASE TryAgain(t)
  <2>1. queue' = queue /\ word'.tail = word.tail
    BY <1>g, <1>00 DEF TryAgain, Free, LockedOnly, Word
  <2>2. \A u \in Threads : /\ OnQueue(u)' <=> OnQueue(u)
                           /\ pc'[u] \in AtHead => pc[u] \in AtHead
                           /\ OnQueue(u) => idx'[u] = idx[u]
    BY <1>g, <1>00 DEF TryAgain, Goto, OnQueue, AtHead, locals
  <2>3. QED
    BY <1>0, <2>1, <2>2, QueueUndisturbed DEF OnQueue
<1>h. CASE XchgTail(t)
  <2>1. /\ Len(queue') = Len(queue) + 1 /\ \A i \in Places : queue'[i] = queue[i]
        /\ queue'[Len(queue) + 1] = t /\ queue' # <<>>
    <3>1. queue \in Seq(Threads) /\ queue' = Append(queue, t)
      BY <1>h DEF XchgTail, TypeOK
    <3>2. QED
      BY ONLY <3>1, t \in Threads, QueueJoined DEF Places
  <2>2. \A i \in Places : queue[i] # t
    BY ONLY <1>h, <1>0 DEF XchgTail, QueueInOrder, OnQueue
  <2>3. word'.tail = MyTail(t) /\ MyTail(t)' = MyTail(t)
    BY <1>h, <1>00 DEF XchgTail, Word, MyTail
  <2>4. word.tail = 0 => Len(queue) = 0
    BY <1>000, EmptySeq
  <2>5. \A u \in Threads : OnQueue(u)' <=> OnQueue(u) \/ u = t
    BY <1>h, <1>00 DEF XchgTail, Goto, OnQueue, Labels
  <2>6. \A u \in Threads : OnQueue(u)' => \E i \in Places' : queue'[i] = u
    BY <1>0, <1>00, <2>1, <2>5 DEF QueueInOrder, Places
  <2>7. \A i \in Places' : OnQueue(queue[i])'
    BY <1>0, <1>00, <2>1, <2>5 DEF QueueInOrder, Places
  <2>8. \A i, j \in Places' : queue'[i] = queue'[j] => i = j
    BY <1>0, <1>00, <2>1, <2>2 DEF QueueInOrder, Places
  <2>9. \A i \in Places' : pc'[queue'[i]] \in AtHead => i = 1
    <3>1. Places' = 1 .. Len(queue) + 1
      BY ONLY <2>1 DEF Places
    <3>2. pc'[t] \in AtHead => word.tail = 0
      BY ONLY <1>h, <1>00, t \in Threads DEF XchgTail, Goto, AtHead
    <3>3. \A i \in Places : pc'[queue'[i]] \in AtHead => i = 1
      <4>1. \A i \in Places : pc'[queue[i]] = pc[queue[i]]
        BY ONLY <1>h, <1>00, <2>2, t \in Threads DEF XchgTail, Goto
      <4>2. QED
        BY ONLY <1>0, <2>1, <4>1 DEF QueueInOrder
    <3>4. QED
      BY ONLY <1>00, <2>1, <2>4, <3>1, <3>2, <3>3 DEF Places
  <2>10. QED
    BY ONLY <2>1, <2>3, <2>6, <2>7, <2>8, <2>9 DEF QueueInOrder
<1>i. CASE LinkBehind(t)
  <2>1. queue' = queue /\ word'.tail = word.tail
    BY <1>i, <1>00 DEF LinkBehind, Free, LockedOnly, Word
  <2>2. \A u \in Threads : /\ OnQueue(u)' <=> OnQueue(u)
                           /\ pc'[u] \in AtHead => pc[u] \in AtHead
                           /\ OnQueue(u) => idx'[u] = idx[u]
    BY <1>i, <1>00 DEF LinkBehind, Goto, OnQueue, AtHead, locals
  <2>3. QED
    BY <1>0, <2>1, <2>2, QueueUndisturbed DEF OnQueue
<1>j. CASE AwaitGrant(t)
  <2>1. \A i \in Places : queue[i] = t => i = 1
    BY ONLY <1>j, <1>0 DEF AwaitGrant, ChainIntact, ChainAt
  <2>2. /\ OnQueue(t) /\ UNCHANGED <<word, idx, queue>>
        /\ pc' = [pc EXCEPT ![t] = "peeknext"]
    BY ONLY <1>j DEF AwaitGrant, Goto, OnQueue, locals
  <2>3. QED
    BY ONLY TypeOK, t \in Threads, <1>0, <2>1, <2>2, FirstStaysFirst
<1>k. CASE PeekNext(t)
  <2>1. queue' = queue /\ word'.tail = word.tail
    BY <1>k, <1>00 DEF PeekNext, Free, LockedOnly, Word
  <2>2. \A u \in Threads : /\ OnQueue(u)' <=> OnQueue(u)
                           /\ pc'[u] \in AtHead => pc[u] \in AtHead
                           /\ OnQueue(u) => idx'[u] = idx[u]
    BY <1>k, <1>00 DEF PeekNext, Goto, OnQueue, AtHead, locals
  <2>3. QED
    BY <1>0, <2>1, <2>2, QueueUndisturbed DEF OnQueue
<1>l. CASE AwaitFree(t)
  <2>1. queue' = queue /\ word'.tail = word.tail
    BY <1>l, <1>00 DEF AwaitFree, Free, LockedOnly, Word
  <2>2. \A u \in Threads : /\ OnQueue(u)' <=> OnQueue(u)
                           /\ pc'[u] \in AtHead => pc[u] \in AtHead
                           /\ OnQueue(u) => idx'[u] = idx[u]
    BY <1>l, <1>00 DEF AwaitFree, Goto, OnQueue, AtHead, locals
  <2>3. QED
    BY <1>0, <2>1, <2>2, QueueUndisturbed DEF OnQueue
<1>m. CASE ClaimContended(t)
  <2>1. queue' = queue /\ word'.tail = word.tail
    BY <1>m, <1>00 DEF ClaimContended, Free, LockedOnly, Word
  <2>2. \A u \in Threads : /\ OnQueue(u)' <=> OnQueue(u)
                           /\ pc'[u] \in AtHead => pc[u] \in AtHead
                           /\ OnQueue(u) => idx'[u] = idx[u]
    BY <1>m, <1>00 DEF ClaimContended, Goto, OnQueue, AtHead, locals
  <2>3. QED
    BY <1>0, <2>1, <2>2, QueueUndisturbed DEF OnQueue
<1>n. CASE ClaimAlone(t)
  <2>1. CASE word = val[t]
    <3>1. queue # <<>> /\ Len(queue) = 1 /\ queue[1] = t
      BY <1>n, <1>0, <2>1, AloneOnQueue DEF ClaimAlone
    <3>2. queue' = <<>> /\ Len(queue') = 0
      <4>1. queue \in Seq(Threads) /\ queue # <<>>
        BY <3>1 DEF TypeOK
      <4>2. queue' = Tail(queue)
        BY <1>n, <2>1 DEF ClaimAlone
      <4>3. QED
        BY ONLY <3>1, <4>1, <4>2, QueueLeft, EmptySeq
    <3>3. \A u \in Threads : ~OnQueue(u)'
      BY <1>n, <1>0, <1>00, <2>1, <3>1 DEF ClaimAlone, Goto, QueueInOrder, Places, OnQueue
    <3>4. word'.tail = 0
      BY <1>n, <2>1 DEF ClaimAlone, LockedOnly
    <3>5. QED
      BY <3>2, <3>3, <3>4 DEF QueueInOrder, Places
  <2>2. CASE word # val[t]
    <3>1. UNCHANGED <<word, queue, pc, idx>>
      BY ONLY <1>n, <2>2 DEF ClaimAlone
    <3>2. Places' = Places /\ \A u \in Threads : OnQueue(u)' <=> OnQueue(u)
      BY ONLY <3>1 DEF Places, OnQueue
    <3>3. QED
      BY ONLY TypeOK, <1>0, <3>1, <3>2, QueueUndisturbed
  <2>3. QED
    BY <2>1, <2>2
<1>o. CASE AwaitNext(t)
  <2>1. queue' = queue /\ word'.tail = word.tail
    BY <1>o, <1>00 DEF AwaitNext, Free, LockedOnly, Word
  <2>2. \A u \in Threads : /\ OnQueue(u)' <=> OnQueue(u)
                           /\ pc'[u] \in AtHead => pc[u] \in AtHead
                           /\ OnQueue(u) => idx'[u] = idx[u]
    BY <1>o, <1>00 DEF AwaitNext, Goto, OnQueue, AtHead, locals
  <2>3. QED
    BY <1>0, <2>1, <2>2, QueueUndisturbed DEF OnQueue
<1>p. CASE HandOff(t)
  <2>1. Len(queue) > 1 /\ queue[1] = t
    BY <1>p, <1>0, HeadHandsOn DEF HandOff
  <2>2. /\ Len(queue') = Len(queue) - 1 /\ queue' # <<>>
        /\ \A i \in 1 .. Len(queue) - 1 : queue'[i] = queue[i + 1]
    <3>1. queue \in Seq(Threads) /\ queue # <<>> /\ queue' = Tail(queue)
      BY <1>p, <2>1, EmptySeq DEF HandOff, TypeOK
    <3>2. QED
      BY ONLY <2>1, <3>1, QueueLeft
  <2>3. \A u \in Threads : OnQueue(u)' <=> OnQueue(u) /\ u # t
    BY <1>p, <1>00 DEF HandOff, Goto, OnQueue, Labels
  <2>4. \A u \in Threads : OnQueue(u)' => \E i \in Places' : queue'[i] = u
    <3> SUFFICES ASSUME NEW u \in Threads, OnQueue(u)'
                 PROVE  \E i \in Places' : queue'[i] = u
      OBVIOUS
    <3>1. PICK i \in Places : queue[i] = u
      BY <1>0, <2>3 DEF QueueInOrder
    <3>2. i # 1 /\ i - 1 \in 1 .. Len(queue) - 1
      BY <1>00, <2>1, <2>3, <3>1 DEF Places
    <3>3. queue'[i - 1] = u
      BY <1>00, <2>2, <3>1, <3>2 DEF Places
    <3>4. QED
      BY <2>2, <3>2, <3>3 DEF Places
  <2>5. \A i \in Places' : queue'[i] = queue[i + 1] /\ i + 1 \in Places /\ i + 1 # 1
    BY <1>00, <2>2 DEF Places
  <2>6. \A i \in Places' : OnQueue(queue[i])'
    BY <1>0, <1>00, <2>1, <2>3, <2>5 DEF QueueInOrder, Places
  <2>7. \A i, j \in Places' : queue'[i] = queue'[j] => i = j
    <3>1. \A i, j \in Places : queue[i] = queue[j] => i = j
      BY ONLY <1>0 DEF QueueInOrder
    <3>2. ASSUME NEW i \in Places', NEW j \in Places', queue'[i] = queue'[j] PROVE i = j
      <4>1. i + 1 = j + 1
        BY ONLY <2>5, <3>1, <3>2, i \in Places', j \in Places'
      <4>2. i \in Int /\ j \in Int
        BY ONLY i \in Places', j \in Places' DEF Places
      <4>3. QED
        BY ONLY <4>1, <4>2
    <3>3. QED
      BY ONLY <3>2
  <2>8. word'.tail = MyTail(queue[Len(queue)])'
    BY ONLY t \in Threads, <1>p, <1>0, <1>00, <2>1, <2>2 DEF HandOff, QueueInOrder, MyTail, locals
  <2>9. \A i \in Places' : pc'[queue'[i]] \in AtHead => i = 1
    <3>1. \A u \in Threads : pc'[u] \in AtHead => pc[u] \in AtHead
      BY <1>p, <1>00 DEF HandOff, Goto, AtHead
    <3>2. QED
      BY <1>0, <1>00, <2>5, <3>1 DEF QueueInOrder
  <2>10. QED
    BY ONLY <2>2, <2>4, <2>6, <2>7, <2>8, <2>9 DEF QueueInOrder
<1>q. CASE ReleaseNode(t)
  <2>1. queue' = queue /\ word'.tail = word.tail
    BY <1>q, <1>00 DEF ReleaseNode, Free, LockedOnly, Word
  <2>2. \A u \in Threads : /\ OnQueue(u)' <=> OnQueue(u)
                           /\ pc'[u] \in AtHead => pc[u] \in AtHead
                           /\ OnQueue(u) => idx'[u] = idx[u]
    BY <1>q, <1>00 DEF ReleaseNode, Goto, OnQueue, AtHead, locals
  <2>3. QED
    BY <1>0, <2>1, <2>2, QueueUndisturbed DEF OnQueue
<1>r. CASE Unlock(t)
  <2>1. queue' = queue /\ word'.tail = word.tail
    BY <1>r, <1>00 DEF Unlock, Free, LockedOnly, Word
  <2>2. \A u \in Threads : /\ OnQueue(u)' <=> OnQueue(u)
                           /\ pc'[u] \in AtHead => pc[u] \in AtHead
                           /\ OnQueue(u) => idx'[u] = idx[u]
    BY <1>r, <1>00 DEF Unlock, Goto, OnQueue, AtHead, locals
  <2>3. QED
    BY <1>0, <2>1, <2>2, QueueUndisturbed DEF OnQueue
<1>z. QED
  BY <1>a, <1>b, <1>c, <1>d, <1>e, <1>f, <1>g, <1>h, <1>i, <1>j, <1>k, <1>l, <1>m,
     <1>n, <1>o, <1>p, <1>q, <1>r DEF Step

\* A thread about to link itself finds its predecessor's node on the queue and
\* not linked to.
LEMMA LinksBehindPredecessor ==
  ASSUME TypeOK, QueueInOrder, ChainIntact, NEW t \in Threads, pc[t] = "link"
  PROVE  \E i \in Places : /\ i > 1 /\ i - 1 \in Places /\ queue[i] = t
                           /\ queue[i - 1] \in Threads \ {t}
                           /\ prev[t] = Node(queue[i - 1]) /\ prev[t] \in Pool
                           /\ next[prev[t]] = Null
<1>1. PICK i \in Places : queue[i] = t
  BY HasPlace DEF OnQueue
<1>2. i > 1 /\ prev[t] = Node(queue[i - 1])
  BY ONLY <1>1, ChainIntact, pc[t] = "link" DEF ChainIntact, ChainAt
<1>3. Len(queue) \in Nat /\ i - 1 \in Places
  BY <1>1, <1>2, HasPlace DEF OnQueue, Places
<1>4. queue[i - 1] \in Threads
  BY <1>3, ElementOfSeq DEF TypeOK, Places
<1>5. queue[i - 1] # t
  BY <1>1, <1>3 DEF QueueInOrder, Places
<1>6. prev[t] \in Pool
  BY <1>2, <1>4, NodesDistinct
<1>7. next[Node(queue[i - 1])] =
        IF i - 1 < Len(queue) /\ pc[queue[(i - 1) + 1]] # "link"
          THEN Node(queue[(i - 1) + 1]) ELSE Null
  BY ONLY <1>3, ChainIntact DEF ChainIntact, ChainAt
<1>8. (i - 1) + 1 = i
  BY DEF Places
<1>9. next[prev[t]] = Null
  BY <1>1, <1>2, <1>7, <1>8
<1>10. QED
  BY <1>1, <1>2, <1>3, <1>4, <1>5, <1>6, <1>9

\* The head that sees another's tail is not alone on the queue.
LEMMA NotAloneOnQueue ==
  ASSUME TypeOK, QueueInOrder, NEW t \in Threads, pc[t] \in AtHead,
         word.tail # MyTail(t)
  PROVE  Len(queue) > 1
<1>1. Len(queue) \in Nat /\ Len(queue) > 0 /\ queue # <<>> /\ queue[1] = t
  BY HasPlace DEF OnQueue, AtHead
<1>2. queue[Len(queue)] # t
  BY <1>1 DEF QueueInOrder
<1>3. QED
  BY <1>1, <1>2

\* A thread that is not at the head afterwards, and touches no other's locals
\* and no link, leaves what the head has read as it is.
LEMMA HeadUndisturbed ==
  ASSUME TypeOK, HeadReadsSafely, NEW t \in Threads, queue' = queue, next' = next,
         pc'[t] \notin {"headwait", "claim", "waitnext", "handoff"},
         \A u \in Threads \ {t} : /\ pc'[u] = pc[u] /\ nxt'[u] = nxt[u]
                                 /\ val'[u] = val[u] /\ idx'[u] = idx[u]
  PROVE  HeadReadsSafely'
<1>1. \A u \in Threads \ {t} : Node(u)' = Node(u) /\ MyTail(u)' = MyTail(u)
  BY DEF Node, MyTail
<1>2. ASSUME NEW u \in Threads \ {t}
      PROVE  /\ pc'[u] \in {"headwait", "claim", "waitnext"} => nxt'[u] \in {Null, next'[Node(u)']}
             /\ pc'[u] = "claim" /\ val'[u].tail # MyTail(u)' => Len(queue') > 1
             /\ pc'[u] = "waitnext" => Len(queue') > 1
             /\ pc'[u] = "handoff" => nxt'[u] = next'[Node(u)'] /\ nxt'[u] # Null
  BY <1>1, <1>2 DEF HeadReadsSafely
<1>3. QED
  BY ONLY <1>2, t \in Threads, pc'[t] \notin {"headwait", "claim", "waitnext", "handoff"}
  DEF HeadReadsSafely

\* What the head has read stays on the safe side, whatever step is taken.
LEMMA StepKeepsHead ==
  ASSUME TypeOK, IInv, NEW t \in Threads, Acquire(t) \/ Step(t)
  PROVE  HeadReadsSafely'
<1>0. QueueInOrder /\ ChainIntact /\ HeadReadsSafely
  BY DEF IInv
<1>00. /\ pc \in [Threads -> Labels] /\ idx \in [Threads -> 0 .. 3]
       /\ nxt \in [Threads -> Pool \cup {Null}] /\ val \in [Threads -> Word]
       /\ next \in [Pool -> Pool \cup {Null}] /\ Node(t) \in Pool
       /\ Len(queue) \in Nat
  BY NodesDistinct DEF TypeOK
<1>000. \A u \in Threads : pc[t] \in AtHead /\ pc[u] \in AtHead => u = t
  BY <1>0, HasPlace DEF OnQueue, AtHead
<1>a. CASE Acquire(t)
  <2>1. /\ pc'[t] \notin {"headwait", "claim", "waitnext", "handoff"}
        /\ queue' = queue /\ next' = next
        /\ \A u \in Threads \ {t} : /\ pc'[u] = pc[u] /\ nxt'[u] = nxt[u]
                                    /\ val'[u] = val[u] /\ idx'[u] = idx[u]
    BY ONLY <1>a, <1>00, t \in Threads DEF Acquire, Goto, locals
  <2>2. QED
    BY ONLY <1>0, <2>1, TypeOK, t \in Threads, HeadUndisturbed
<1>b. CASE AwaitHandover(t)
  <2>1. /\ pc'[t] \notin {"headwait", "claim", "waitnext", "handoff"}
        /\ queue' = queue /\ next' = next
        /\ \A u \in Threads \ {t} : /\ pc'[u] = pc[u] /\ nxt'[u] = nxt[u]
                                    /\ val'[u] = val[u] /\ idx'[u] = idx[u]
    BY ONLY <1>b, <1>00, t \in Threads DEF AwaitHandover, Goto, locals
  <2>2. QED
    BY ONLY <1>0, <2>1, TypeOK, t \in Threads, HeadUndisturbed
<1>c. CASE TryOrPend(t)
  <2>1. /\ pc'[t] \notin {"headwait", "claim", "waitnext", "handoff"}
        /\ queue' = queue /\ next' = next
        /\ \A u \in Threads \ {t} : /\ pc'[u] = pc[u] /\ nxt'[u] = nxt[u]
                                    /\ val'[u] = val[u] /\ idx'[u] = idx[u]
    BY ONLY <1>c, <1>00, t \in Threads DEF TryOrPend, Goto, locals
  <2>2. QED
    BY ONLY <1>0, <2>1, TypeOK, t \in Threads, HeadUndisturbed
<1>d. CASE AwaitOwner(t)
  <2>1. /\ pc'[t] \notin {"headwait", "claim", "waitnext", "handoff"}
        /\ queue' = queue /\ next' = next
        /\ \A u \in Threads \ {t} : /\ pc'[u] = pc[u] /\ nxt'[u] = nxt[u]
                                    /\ val'[u] = val[u] /\ idx'[u] = idx[u]
    BY ONLY <1>d, <1>00, t \in Threads DEF AwaitOwner, Goto, locals
  <2>2. QED
    BY ONLY <1>0, <2>1, TypeOK, t \in Threads, HeadUndisturbed
<1>e. CASE TakePending(t)
  <2>1. /\ pc'[t] \notin {"headwait", "claim", "waitnext", "handoff"}
        /\ queue' = queue /\ next' = next
        /\ \A u \in Threads \ {t} : /\ pc'[u] = pc[u] /\ nxt'[u] = nxt[u]
                                    /\ val'[u] = val[u] /\ idx'[u] = idx[u]
    BY ONLY <1>e, <1>00, t \in Threads DEF TakePending, Goto, locals
  <2>2. QED
    BY ONLY <1>0, <2>1, TypeOK, t \in Threads, HeadUndisturbed
<1>f. CASE PrepareNode(t)
  <2>1. \A u \in Threads \ {t} : Node(u) # 4 * t + count[t] /\ Node(u) \in Pool
    <3>1. count[t] \in 0 .. 3
      BY <1>f, NodeLeft DEF PrepareNode, IInv
    <3>2. \A u \in Threads : idx[u] \in 0 .. 3
      BY <1>00
    <3>3. QED
      BY <3>1, <3>2 DEF Node, Threads, Pool
  <2>2. \A u \in Threads \ {t} : /\ pc'[u] = pc[u] /\ nxt'[u] = nxt[u] /\ val'[u] = val[u]
                                 /\ Node(u)' = Node(u) /\ MyTail(u)' = MyTail(u)
                                 /\ next'[Node(u)] = next[Node(u)]
    BY <1>f, <1>00, <2>1 DEF PrepareNode, Goto, Node, MyTail
  <2>3. pc'[t] = "tryagain" /\ queue' = queue
    BY <1>f, <1>00 DEF PrepareNode, Goto
  <2>4. QED
    BY ONLY t \in Threads, <1>0, <2>2, <2>3 DEF HeadReadsSafely
<1>g. CASE TryAgain(t)
  <2>1. /\ pc'[t] \notin {"headwait", "claim", "waitnext", "handoff"}
        /\ queue' = queue /\ next' = next
        /\ \A u \in Threads \ {t} : /\ pc'[u] = pc[u] /\ nxt'[u] = nxt[u]
                                    /\ val'[u] = val[u] /\ idx'[u] = idx[u]
    BY ONLY <1>g, <1>00, t \in Threads DEF TryAgain, Goto, locals
  <2>2. QED
    BY ONLY <1>0, <2>1, TypeOK, t \in Threads, HeadUndisturbed
<1>h. CASE XchgTail(t)
  BY ONLY <1>h, <1>0, <1>00, t \in Threads DEF XchgTail, Goto, HeadReadsSafely, Node, MyTail, Labels, locals
<1>i. CASE LinkBehind(t)
  <2>1. next[prev[t]] = Null
    BY <1>i, <1>0, LinksBehindPredecessor DEF LinkBehind
  <2>2. \A u \in Threads : Node(u) \in Pool
    BY NodesDistinct
  <2>3. \A u \in Threads : next[Node(u)] # Null => next'[Node(u)] = next[Node(u)]
    BY <1>i, <1>00, <2>1, <2>2 DEF LinkBehind
  <2>4. \A u \in Threads : Node(u)' = Node(u) /\ MyTail(u)' = MyTail(u)
    BY <1>i DEF LinkBehind, Node, MyTail
  <2>5. pc'[t] = "mcswait" /\ \A u \in Threads \ {t} : pc'[u] = pc[u]
    BY <1>i, <1>00 DEF LinkBehind, Goto
  <2>6. QED
    BY ONLY <1>i, <1>0, <2>3, <2>4, <2>5, t \in Threads DEF LinkBehind, HeadReadsSafely
<1>j. CASE AwaitGrant(t)
  <2>1. /\ pc'[t] \notin {"headwait", "claim", "waitnext", "handoff"}
        /\ queue' = queue /\ next' = next
        /\ \A u \in Threads \ {t} : /\ pc'[u] = pc[u] /\ nxt'[u] = nxt[u]
                                    /\ val'[u] = val[u] /\ idx'[u] = idx[u]
    BY ONLY <1>j, <1>00, t \in Threads DEF AwaitGrant, Goto, locals
  <2>2. QED
    BY ONLY <1>0, <2>1, TypeOK, t \in Threads, HeadUndisturbed
<1>k. CASE PeekNext(t)
  BY ONLY <1>k, <1>0, <1>00, t \in Threads DEF PeekNext, Goto, HeadReadsSafely, Node, MyTail, Labels, locals
<1>l. CASE AwaitFree(t)
  <2>1. word.tail # MyTail(t) => Len(queue) > 1
    BY <1>l, <1>0, NotAloneOnQueue DEF AwaitFree, AtHead
  <2>2. QED
    BY ONLY <1>l, <1>0, <1>00, <2>1, t \in Threads DEF AwaitFree, Goto, HeadReadsSafely, Node, MyTail, Labels, locals
<1>m. CASE ClaimContended(t)
  BY ONLY <1>m, <1>0, <1>00, t \in Threads DEF ClaimContended, Goto, HeadReadsSafely, Node, MyTail, Labels, locals
<1>n. CASE ClaimAlone(t)
  <2>1. word.tail # MyTail(t) => Len(queue) > 1
    BY <1>n, <1>0, NotAloneOnQueue DEF ClaimAlone, AtHead
  <2>2. CASE word = val[t]
    <3>1. \A u \in Threads : pc'[u] \notin {"headwait", "claim", "waitnext", "handoff"}
      BY <1>n, <1>00, <1>000, <2>2 DEF ClaimAlone, Goto, AtHead
    <3>2. QED
      BY <3>1 DEF HeadReadsSafely
  <2>3. CASE word # val[t]
    BY ONLY <1>n, <1>0, <1>00, <2>1, <2>3, t \in Threads DEF ClaimAlone, Goto, HeadReadsSafely, Node, MyTail, Labels, locals
  <2>4. QED
    BY <2>2, <2>3
<1>o. CASE AwaitNext(t)
  BY ONLY <1>o, <1>0, <1>00, t \in Threads DEF AwaitNext, Goto, HeadReadsSafely, Node, MyTail, Labels, locals
<1>p. CASE HandOff(t)
  <2>1. \A u \in Threads : pc'[u] \notin {"headwait", "claim", "waitnext", "handoff"}
    BY <1>p, <1>00, <1>000 DEF HandOff, Goto, AtHead
  <2>2. QED
    BY <2>1 DEF HeadReadsSafely
<1>q. CASE ReleaseNode(t)
  <2>1. /\ pc'[t] \notin {"headwait", "claim", "waitnext", "handoff"}
        /\ queue' = queue /\ next' = next
        /\ \A u \in Threads \ {t} : /\ pc'[u] = pc[u] /\ nxt'[u] = nxt[u]
                                    /\ val'[u] = val[u] /\ idx'[u] = idx[u]
    BY ONLY <1>q, <1>00, t \in Threads DEF ReleaseNode, Goto, locals
  <2>2. QED
    BY ONLY <1>0, <2>1, TypeOK, t \in Threads, HeadUndisturbed
<1>r. CASE Unlock(t)
  <2>1. /\ pc'[t] \notin {"headwait", "claim", "waitnext", "handoff"}
        /\ queue' = queue /\ next' = next
        /\ \A u \in Threads \ {t} : /\ pc'[u] = pc[u] /\ nxt'[u] = nxt[u]
                                    /\ val'[u] = val[u] /\ idx'[u] = idx[u]
    BY ONLY <1>r, <1>00, t \in Threads DEF Unlock, Goto, locals
  <2>2. QED
    BY ONLY <1>0, <2>1, TypeOK, t \in Threads, HeadUndisturbed
<1>z. QED
  BY <1>a, <1>b, <1>c, <1>d, <1>e, <1>f, <1>g, <1>h, <1>i, <1>j, <1>k, <1>l, <1>m,
     <1>n, <1>o, <1>p, <1>q, <1>r DEF Step

\* A step that leaves the nodes of the queued threads alone, and moves no thread
\* to or from a wait on the queue, leaves the chain alone.
LEMMA PlacesUndisturbed ==
  ASSUME TypeOK, QueueInOrder, ChainIntact, queue' = queue,
         \A u \in Threads : OnQueue(u) =>
           /\ pc'[u] = "link" <=> pc[u] = "link"
           /\ pc'[u] = "mcswait" => pc[u] = "mcswait"
           /\ Node(u)' = Node(u) /\ prev'[u] = prev[u]
           /\ next'[Node(u)] = next[Node(u)] /\ granted'[Node(u)] = granted[Node(u)]
  PROVE  \A i \in Places' : ChainAt(i)'
<1>1. /\ Len(queue) \in Nat /\ Places' = Places
      /\ \A i \in Places : queue[i] \in Threads /\ OnQueue(queue[i])
      /\ \A i \in Places : i < Len(queue) => i + 1 \in Places
      /\ \A i \in Places : i > 1 => i - 1 \in Places
  BY ONLY TypeOK, QueueInOrder, queue' = queue, ElementOfSeq, LenProperties DEF TypeOK, Places, QueueInOrder
<1>2. ASSUME NEW i \in Places PROVE ChainAt(i)'
  <2>1. ChainAt(i)
    BY DEF ChainIntact
  <2>2. (next[Node(queue[i])] = IF i < Len(queue) /\ pc[queue[i + 1]] # "link"
                                 THEN Node(queue[i + 1]) ELSE Null)'
    BY <2>1, <1>1 DEF ChainAt
  <2>3. (pc[queue[i]] = "mcswait" => (granted[Node(queue[i])] = 1 <=> i = 1))'
    BY <2>1, <1>1 DEF ChainAt
  <2>4. (pc[queue[i]] = "link" => /\ i > 1 /\ prev[queue[i]] = Node(queue[i - 1])
                                  /\ granted[Node(queue[i])] = 0)'
    BY <2>1, <1>1 DEF ChainAt
  <2>5. QED
    BY <2>2, <2>3, <2>4 DEF ChainAt
<1>3. QED
  BY <1>1, <1>2

\* A step that writes no node and neither starts nor ends a link leaves the whole
\* chain alone.
LEMMA ChainUndisturbed ==
  ASSUME TypeOK, QueueInOrder, ChainIntact,
         UNCHANGED <<next, granted, idx, prev, queue>>,
         \A u \in Threads : /\ pc'[u] = "link" <=> pc[u] = "link"
                            /\ pc'[u] = "mcswait" => pc[u] = "mcswait"
                            /\ pc'[u] \in {"tryagain", "xchg"} =>
                                 pc[u] \in {"tryagain", "xchg"}
  PROVE  ChainIntact'
<1>1. \A u \in Threads : Node(u)' = Node(u)
  BY DEF Node
<1>2. \A i \in Places' : ChainAt(i)'
  BY <1>1, PlacesUndisturbed
<1>3. \A u \in Threads : NodeClean(u)'
  BY <1>1 DEF ChainIntact, NodeClean
<1>4. QED
  BY <1>2, <1>3 DEF ChainIntact

\* The MCS chain stays intact: joining, linking, granting and leaving each repair
\* the places next to the one they disturb.
LEMMA StepKeepsChain ==
  ASSUME TypeOK, IInv, NEW t \in Threads, Acquire(t) \/ Step(t)
  PROVE  ChainIntact'
<1>0. QueueInOrder /\ ChainIntact /\ HeadReadsSafely /\ NodesSuffice
  BY DEF IInv
<1>00. /\ pc \in [Threads -> Labels] /\ idx \in [Threads -> 0 .. 3]
       /\ prev \in [Threads -> Pool \cup {Null}]
       /\ granted \in [Pool -> Byte] /\ next \in [Pool -> Pool \cup {Null}]
       /\ Len(queue) \in Nat /\ \A u \in Threads : Node(u) \in Pool /\ Node(u) # Null
       /\ \A i \in Places : queue[i] \in Threads
  BY NodesDistinct, ElementOfSeq DEF TypeOK, Places
<1>a. CASE Acquire(t)
  BY <1>a, <1>0, <1>00, ChainUndisturbed DEF Acquire, Goto, Labels, locals
<1>b. CASE AwaitHandover(t)
  BY <1>b, <1>0, <1>00, ChainUndisturbed DEF AwaitHandover, Goto, Labels, locals
<1>c. CASE TryOrPend(t)
  BY <1>c, <1>0, <1>00, ChainUndisturbed DEF TryOrPend, Goto, Labels, locals
<1>d. CASE AwaitOwner(t)
  BY <1>d, <1>0, <1>00, ChainUndisturbed DEF AwaitOwner, Goto, Labels, locals
<1>e. CASE TakePending(t)
  BY <1>e, <1>0, <1>00, ChainUndisturbed DEF TakePending, Goto, Labels, locals
<1>f. CASE PrepareNode(t)
  <2>1. count[t] \in 0 .. 3 /\ 4 * t + count[t] \in Pool
    BY <1>f, <1>0, NodeLeft DEF PrepareNode
  <2>2. \A u \in Threads \ {t} : Node(u) # 4 * t + count[t]
    <3>1. \A u \in Threads : idx[u] \in 0 .. 3
      BY <1>00
    <3>2. QED
      BY ONLY <2>1, <3>1, t \in Threads DEF Node, Threads
  <2>3. \A u \in Threads \ {t} :
          /\ pc'[u] = pc[u] /\ Node(u)' = Node(u) /\ prev'[u] = prev[u]
          /\ next'[Node(u)] = next[Node(u)] /\ granted'[Node(u)] = granted[Node(u)]
    BY <1>f, <1>00, <2>1, <2>2 DEF PrepareNode, Goto, Node
  <2>4. ~OnQueue(t) /\ queue' = queue
    BY <1>f DEF PrepareNode, OnQueue
  <2>5. \A i \in Places' : ChainAt(i)'
    BY <1>0, <2>3, <2>4, PlacesUndisturbed
  <2>6. NodeClean(t)'
    <3>1. Node(t)' = 4 * t + count[t]
      BY <1>f, <1>00 DEF PrepareNode, Node
    <3>2. next'[4 * t + count[t]] = Null /\ granted'[4 * t + count[t]] = 0
      BY <1>f, <1>00, <2>1 DEF PrepareNode
    <3>3. QED
      BY <3>1, <3>2 DEF NodeClean
  <2>7. \A u \in Threads \ {t} : NodeClean(u)'
    BY <1>0, <2>3 DEF ChainIntact, NodeClean
  <2>8. QED
    BY <2>5, <2>6, <2>7 DEF ChainIntact
<1>g. CASE TryAgain(t)
  BY <1>g, <1>0, <1>00, ChainUndisturbed DEF TryAgain, Goto, Labels, locals
<1>h. CASE XchgTail(t)
  <2>1. /\ Len(queue') = Len(queue) + 1 /\ \A i \in Places : queue'[i] = queue[i]
        /\ queue'[Len(queue) + 1] = t
    <3>1. queue \in Seq(Threads) /\ queue' = Append(queue, t)
      BY <1>h DEF XchgTail, TypeOK
    <3>2. QED
      BY ONLY <3>1, t \in Threads, QueueJoined DEF Places
  <2>2. \A i \in Places : queue[i] \in Threads \ {t}
    BY ONLY <1>h, <1>0, <1>00 DEF XchgTail, QueueInOrder, OnQueue
  <2>3. \A u \in Threads : Node(u)' = Node(u)
    BY <1>h DEF XchgTail, Node
  <2>4. next' = next /\ granted' = granted
    BY <1>h DEF XchgTail
  <2>5. \A u \in Threads \ {t} : pc'[u] = pc[u] /\ prev'[u] = prev[u]
    BY <1>h, <1>00 DEF XchgTail, Goto
  <2>6. next[Node(t)] = Null /\ granted[Node(t)] = 0
    BY <1>h, <1>0 DEF XchgTail, ChainIntact, NodeClean
  <2>7. ASSUME queue = <<>> PROVE \A i \in Places' : ChainAt(i)'
    <3>1. Len(queue) = 0 /\ word.tail = 0
      BY <1>0, <2>7 DEF QueueInOrder
    <3>2. pc'[t] = "headwait"
      BY ONLY t \in Threads, <1>h, <1>00, <3>1 DEF XchgTail, Goto
    <3>3. Len(queue') = 1 /\ queue'[1] = t /\ Places' = {1}
      BY <2>1, <3>1 DEF Places
    <3>4. ChainAt(1)'
      BY <2>3, <2>4, <2>6, <3>2, <3>3 DEF ChainAt
    <3>5. QED
      BY <3>3, <3>4
  <2>8. ASSUME queue # <<>> PROVE \A i \in Places' : ChainAt(i)'
    <3>1. /\ Len(queue) > 0 /\ Len(queue) \in Places
          /\ word.tail = MyTail(queue[Len(queue)])
      BY <1>0, <1>00, <2>8, EmptySeq DEF QueueInOrder, Places, TypeOK
    <3>2. word.tail # 0 /\ DecodeTail(word.tail) = Node(queue[Len(queue)])
      BY <2>2, <3>1, NodesDistinct
    <3>3. pc'[t] = "link" /\ prev'[t] = Node(queue[Len(queue)])
      BY ONLY t \in Threads, <1>h, <1>00, <3>2 DEF XchgTail, Goto
    <3>4. ASSUME NEW i \in Places', i = Len(queue) + 1 PROVE ChainAt(i)'
      <4>1. queue'[i] = t /\ i > 1 /\ i - 1 = Len(queue) /\ ~(i < Len(queue'))
        BY <1>00, <2>1, <3>1, <3>4
      <4>2. queue'[i - 1] = queue[Len(queue)]
        BY <2>1, <3>1, <4>1
      <4>3. QED
        BY <2>2, <2>3, <2>4, <2>6, <3>1, <3>3, <4>1, <4>2 DEF ChainAt
    <3>5. ASSUME NEW i \in Places PROVE ChainAt(i)'
      <4>1. ChainAt(i) /\ queue'[i] = queue[i] /\ queue[i] \in Threads \ {t}
        BY <1>0, <2>1, <2>2 DEF ChainIntact
      <4>2. i > 1 => queue'[i - 1] = queue[i - 1] /\ queue[i - 1] \in Threads
        BY <1>00, <2>1, <2>2 DEF Places
      <4>3. (next[Node(queue[i])] = IF i < Len(queue) /\ pc[queue[i + 1]] # "link"
                                     THEN Node(queue[i + 1]) ELSE Null)'
        <5>1. CASE i < Len(queue)
          <6>1. /\ queue'[i + 1] = queue[i + 1] /\ queue[i + 1] \in Threads \ {t}
                /\ i < Len(queue')
            BY <1>00, <2>1, <2>2, <5>1 DEF Places
          <6>2. QED
            BY <2>3, <2>4, <2>5, <4>1, <5>1, <6>1 DEF ChainAt
        <5>2. CASE ~(i < Len(queue))
          <6>1. i = Len(queue) /\ queue'[i + 1] = t
            BY <1>00, <2>1, <5>2 DEF Places
          <6>2. QED
            BY <2>3, <2>4, <3>3, <4>1, <5>2, <6>1 DEF ChainAt
        <5>3. QED
          BY <5>1, <5>2
      <4>4. QED
        BY <2>3, <2>4, <2>5, <4>1, <4>2, <4>3 DEF ChainAt
    <3>6. \A i \in Places' : i = Len(queue) + 1 \/ i \in Places
      BY <1>00, <2>1 DEF Places
    <3>7. QED
      BY <3>4, <3>5, <3>6
  <2>9. \A u \in Threads : NodeClean(u)'
    BY <1>h, <1>0, <1>00, <2>3, <2>4 DEF XchgTail, Goto, ChainIntact, NodeClean
  <2>10. QED
    BY <2>7, <2>8, <2>9 DEF ChainIntact
<1>i. CASE LinkBehind(t)
  <2>1. PICK k \in Places : /\ k > 1 /\ k - 1 \in Places /\ queue[k] = t
                            /\ queue[k - 1] \in Threads \ {t}
                            /\ prev[t] = Node(queue[k - 1]) /\ prev[t] \in Pool
    BY ONLY TypeOK, t \in Threads, <1>i, <1>0, LinksBehindPredecessor DEF LinkBehind
  <2>2. /\ \A u \in Threads : Node(u)' = Node(u)
        /\ granted' = granted /\ queue' = queue /\ Places' = Places
    BY <1>i DEF LinkBehind, Node, Places
  <2>3. /\ pc'[t] = "mcswait"
        /\ \A u \in Threads \ {t} : pc'[u] = pc[u] /\ prev'[u] = prev[u]
    BY <1>i, <1>00 DEF LinkBehind, Goto
  <2>4. /\ next'[Node(queue[k - 1])] = Node(t)
        /\ \A u \in Threads : u # queue[k - 1] => next'[Node(u)] = next[Node(u)]
    BY ONLY TypeOK, t \in Threads, <1>i, <1>00, <2>1, NodesDistinct DEF LinkBehind
  <2>5. \A i \in Places : queue[i] = t <=> i = k
    BY <1>0, <2>1 DEF QueueInOrder
  <2>6. \A i \in Places : queue[i] = queue[k - 1] <=> i = k - 1
    BY <1>0, <2>1 DEF QueueInOrder
  <2>7. ASSUME NEW i \in Places PROVE ChainAt(i)'
    <3>1. ChainAt(i) /\ ChainAt(k) /\ (i < Len(queue) => i + 1 \in Places)
          /\ (i > 1 => i - 1 \in Places)
      BY <1>0, <1>00 DEF ChainIntact, Places
    <3>2. granted[Node(t)] = 0
      BY <1>i, <2>1, <3>1 DEF ChainAt, LinkBehind
    <3>3. CASE i = k - 1
      <4>1. (k - 1) + 1 = k /\ k - 1 < Len(queue)
        BY <1>00, <2>1 DEF Places
      <4>2. (next[Node(queue[i])] = IF i < Len(queue) /\ pc[queue[i + 1]] # "link"
                                     THEN Node(queue[i + 1]) ELSE Null)'
        BY <2>1, <2>2, <2>3, <2>4, <3>3, <4>1
      <4>3. queue[i] \in Threads \ {t} /\ (i > 1 => queue[i - 1] \in Threads \ {t})
        BY <1>00, <2>1, <2>5, <3>1, <3>3 DEF Places
      <4>4. QED
        BY <2>2, <2>3, <3>1, <4>2, <4>3 DEF ChainAt
    <3>4. CASE i = k
      <4>1. queue[i] = t /\ i > 1 /\ (i < Len(queue) => queue[i + 1] \in Threads \ {t})
        BY <1>00, <2>1, <2>5, <3>1, <3>4 DEF Places
      <4>2. (next[Node(queue[i])] = IF i < Len(queue) /\ pc[queue[i + 1]] # "link"
                                     THEN Node(queue[i + 1]) ELSE Null)'
        BY <2>1, <2>2, <2>3, <2>4, <3>1, <4>1 DEF ChainAt
      <4>3. QED
        BY <2>2, <2>3, <3>2, <4>1, <4>2 DEF ChainAt
    <3>5. CASE i # k - 1 /\ i # k
      <4>1. queue[i] # t /\ queue[i] # queue[k - 1] /\ (i < Len(queue) => queue[i + 1] # t)
        BY <1>00, <2>1, <2>5, <2>6, <3>1, <3>5 DEF Places
      <4>2. QED
        BY <1>00, <2>2, <2>3, <2>4, <3>1, <4>1 DEF ChainAt
    <3>6. QED
      BY <3>3, <3>4, <3>5
  <2>8. ASSUME NEW u \in Threads PROVE NodeClean(u)'
    <3>1. OnQueue(queue[k - 1])
      BY <1>0, <2>1 DEF QueueInOrder
    <3>2. QED
      BY <1>0, <2>2, <2>3, <2>4, <3>1 DEF ChainIntact, NodeClean, OnQueue
  <2>9. QED
    BY <2>2, <2>7, <2>8 DEF ChainIntact
<1>j. CASE AwaitGrant(t)
  BY <1>j, <1>0, <1>00, ChainUndisturbed DEF AwaitGrant, Goto, Labels, locals
<1>k. CASE PeekNext(t)
  BY <1>k, <1>0, <1>00, ChainUndisturbed DEF PeekNext, Goto, Labels, locals
<1>l. CASE AwaitFree(t)
  BY <1>l, <1>0, <1>00, ChainUndisturbed DEF AwaitFree, Goto, Labels, locals
<1>m. CASE ClaimContended(t)
  BY <1>m, <1>0, <1>00, ChainUndisturbed DEF ClaimContended, Goto, Labels, locals
<1>n. CASE ClaimAlone(t)
  <2>1. CASE word = val[t]
    <3>1. queue # <<>> /\ Len(queue) = 1 /\ queue[1] = t
      BY <1>n, <1>0, <2>1, AloneOnQueue DEF ClaimAlone
    <3>2. Places' = {}
      <4>1. queue \in Seq(Threads) /\ queue # <<>>
        BY <3>1 DEF TypeOK
      <4>2. queue' = Tail(queue)
        BY <1>n, <2>1 DEF ClaimAlone
      <4>3. Len(queue') = 0
        BY ONLY <3>1, <4>1, <4>2, QueueLeft
      <4>4. QED
        BY <4>3 DEF Places
    <3>3. \A u \in Threads : NodeClean(u)'
      BY ONLY t \in Threads, <1>n, <1>0, <1>00, <2>1 DEF ClaimAlone, Goto, ChainIntact, NodeClean, Node
    <3>4. QED
      BY <3>2, <3>3 DEF ChainIntact
  <2>2. CASE word # val[t]
    BY <1>n, <1>0, <1>00, <2>2, ChainUndisturbed DEF ClaimAlone, Labels
  <2>3. QED
    BY <2>1, <2>2
<1>o. CASE AwaitNext(t)
  BY <1>o, <1>0, <1>00, ChainUndisturbed DEF AwaitNext, Goto, Labels, locals
<1>p. CASE HandOff(t)
  <2>1. /\ Len(queue) > 1 /\ queue[1] = t /\ queue[2] \in Threads
        /\ nxt[t] = Node(queue[2]) /\ pc[queue[2]] # "link"
    BY <1>p, <1>0, HeadHandsOn DEF HandOff
  <2>2. /\ Len(queue') = Len(queue) - 1
        /\ \A i \in 1 .. Len(queue) - 1 : queue'[i] = queue[i + 1]
    <3>1. queue \in Seq(Threads) /\ queue # <<>> /\ queue' = Tail(queue)
      BY <1>p, <2>1, EmptySeq DEF HandOff, TypeOK
    <3>2. QED
      BY ONLY <2>1, <3>1, QueueLeft
  <2>3. /\ \A u \in Threads : Node(u)' = Node(u)
        /\ next' = next /\ prev' = prev
    BY <1>p DEF HandOff, Node, locals
  <2>4. /\ \A u \in Threads \ {t} : pc'[u] = pc[u]
        /\ pc'[t] = "release"
    BY <1>p, <1>00 DEF HandOff, Goto
  <2>5. /\ granted'[Node(queue[2])] = 1
        /\ \A u \in Threads \ {queue[2]} : granted'[Node(u)] = granted[Node(u)]
    BY <1>p, <1>00, <2>1, NodesDistinct DEF HandOff
  <2>6. \A i \in Places : queue[i] = queue[2] <=> i = 2
    BY <1>0, <1>00, <2>1 DEF QueueInOrder, Places
  <2>7. ASSUME NEW i \in Places' PROVE ChainAt(i)'
    <3>1. /\ i \in Nat /\ i > 0 /\ i + 1 \in Places /\ queue'[i] = queue[i + 1]
          /\ (i + 1) - 1 = i /\ i \in Places
      BY <1>00, <2>2 DEF Places
    <3>2. ChainAt(i + 1)
      BY <1>0, <3>1 DEF ChainIntact
    <3>3. queue[i + 1] \in Threads \ {t}
      BY <1>0, <1>00, <2>1, <3>1 DEF QueueInOrder, Places
    <3>4. (next[Node(queue[i])] = IF i < Len(queue) /\ pc[queue[i + 1]] # "link"
                                   THEN Node(queue[i + 1]) ELSE Null)'
      <4>1. CASE i < Len(queue')
        <5>1. /\ i + 1 < Len(queue) /\ queue'[i + 1] = queue[(i + 1) + 1]
              /\ (i + 1) + 1 \in Places
          BY <1>00, <2>2, <3>1, <4>1 DEF Places
        <5>2. queue[(i + 1) + 1] \in Threads \ {t}
          BY <1>0, <1>00, <2>1, <3>1, <5>1 DEF QueueInOrder, Places
        <5>3. QED
          BY <2>3, <2>4, <3>1, <3>2, <3>3, <4>1, <5>1, <5>2 DEF ChainAt
      <4>2. CASE ~(i < Len(queue'))
        <5>1. ~(i + 1 < Len(queue))
          BY <1>00, <2>2, <3>1, <4>2
        <5>2. QED
          BY <2>3, <3>1, <3>2, <3>3, <4>2, <5>1 DEF ChainAt
      <4>3. QED
        BY <4>1, <4>2
    <3>5. (pc[queue[i]] = "mcswait" => (granted[Node(queue[i])] = 1 <=> i = 1))'
      BY <2>3, <2>4, <2>5, <2>6, <3>1, <3>2, <3>3 DEF ChainAt
    <3>6. (pc[queue[i]] = "link" => /\ i > 1 /\ prev[queue[i]] = Node(queue[i - 1])
                                    /\ granted[Node(queue[i])] = 0)'
      <4> SUFFICES ASSUME pc'[queue'[i]] = "link"
                   PROVE  /\ i > 1 /\ prev'[queue'[i]] = Node(queue[i - 1])'
                          /\ granted'[Node(queue[i])'] = 0
        OBVIOUS
      <4>1. pc[queue[i + 1]] = "link"
        BY <2>4, <3>1, <3>3
      <4>2. i # 1 /\ queue[i + 1] # queue[2]
        BY <2>1, <2>6, <3>1, <4>1
      <4>3. prev[queue[i + 1]] = Node(queue[i]) /\ granted[Node(queue[i + 1])] = 0
        BY <3>1, <3>2, <4>1 DEF ChainAt
      <4>4. i > 1 /\ queue'[i - 1] = queue[i] /\ queue[i] \in Threads
        <5>1. queue[i] \in Threads
          BY <1>00, <3>1
        <5>2. i > 1 /\ i - 1 \in 1 .. Len(queue) - 1 /\ (i - 1) + 1 = i
          <6>1. Len(queue) \in Nat /\ i \in 1 .. Len(queue)
            BY <1>00, <3>1 DEF Places
          <6>2. i # 1
            BY <4>2
          <6>3. QED
            BY ONLY <6>1, <6>2
        <5>3. queue'[i - 1] = queue[(i - 1) + 1]
          BY <2>2, <5>2
        <5>4. QED
          BY <5>1, <5>2, <5>3
      <4>5. prev'[queue'[i]] = Node(queue[i - 1])'
        <5>1. Node(queue[i - 1])' = Node(queue[i])
          BY <2>3, <4>4 DEF Node
        <5>2. prev'[queue'[i]] = prev[queue[i + 1]]
          BY <2>3, <3>1
        <5>3. QED
          BY <4>3, <5>1, <5>2
      <4>6. granted'[Node(queue[i])'] = 0
        BY <2>3, <2>5, <3>1, <3>3, <4>2, <4>3
      <4>7. QED
        BY <4>4, <4>5, <4>6
    <3>7. QED
      BY <3>4, <3>5, <3>6 DEF ChainAt
  <2>8. ASSUME NEW u \in Threads PROVE NodeClean(u)'
    <3>1. OnQueue(queue[2])
      BY <1>0, <1>00, <2>1 DEF QueueInOrder, Places
    <3>2. QED
      BY <1>0, <2>3, <2>4, <2>5, <3>1 DEF ChainIntact, NodeClean, OnQueue
  <2>9. QED
    BY <2>7, <2>8 DEF ChainIntact
<1>q. CASE ReleaseNode(t)
  <2>1. \A u \in Threads \ {t} : pc'[u] = pc[u] /\ Node(u)' = Node(u)
    BY <1>q, <1>00 DEF ReleaseNode, Goto, Node
  <2>2. pc'[t] = "cs" /\ ~OnQueue(t) /\ UNCHANGED <<queue, next, granted, prev>>
    BY <1>q, <1>00 DEF ReleaseNode, Goto, OnQueue
  <2>3. \A i \in Places' : ChainAt(i)'
    BY <1>0, <2>1, <2>2, PlacesUndisturbed
  <2>4. \A u \in Threads : NodeClean(u)'
    BY <1>0, <2>1, <2>2 DEF ChainIntact, NodeClean
  <2>5. QED
    BY <2>3, <2>4 DEF ChainIntact
<1>r. CASE Unlock(t)
  BY <1>r, <1>0, <1>00, ChainUndisturbed DEF Unlock, Goto, Labels, locals
<1>z. QED
  BY <1>a, <1>b, <1>c, <1>d, <1>e, <1>f, <1>g, <1>h, <1>i, <1>j, <1>k, <1>l, <1>m,
     <1>n, <1>o, <1>p, <1>q, <1>r DEF Step

-----------------------------------------------------------------------------

\* The invariant is inductive.
LEMMA StepKeepsAll == TypeOK /\ IInv /\ [Next]_vars => TypeOK' /\ IInv'
<1> SUFFICES ASSUME TypeOK, IInv, [Next]_vars
             PROVE  TypeOK' /\ IInv'
  OBVIOUS
<1>1. CASE UNCHANGED vars
  <2>1. TypeOK' /\ NodesSuffice'
    <3>1. UNCHANGED <<word, next, granted, count, pc, val, idx, prev, nxt, queue>> /\ NodesSuffice
      BY <1>1 DEF vars, IInv
    <3>2. TypeOK'
      BY ONLY TypeOK, <3>1 DEF TypeOK
    <3>3. NodesSuffice'
      BY ONLY <3>1 DEF NodesSuffice, InNode, OnQueue
    <3>4. QED
      BY ONLY <3>2, <3>3
  <2>2. WordTellsOwners' /\ MutualExclusion'
    BY <1>1 DEF vars, IInv, WordTellsOwners, MutualExclusion, Holds, Pends
  <2>3. QueueInOrder'
    <3>1. UNCHANGED <<word, pc, idx, queue>> /\ QueueInOrder
      BY <1>1 DEF vars, IInv
    <3>2. QED
      BY ONLY <3>1 DEF QueueInOrder, Places, OnQueue, MyTail
  <2>4. ChainIntact'
    BY <1>1, ChainUndisturbed DEF vars, IInv
  <2>5. HeadReadsSafely'
    <3>1. UNCHANGED <<pc, val, nxt, idx, next, queue>> /\ HeadReadsSafely
      BY <1>1 DEF vars, IInv
    <3>2. QED
      BY ONLY <3>1 DEF HeadReadsSafely, Node, MyTail
  <2>6. QED
    BY <2>1, <2>2, <2>3, <2>4, <2>5 DEF IInv
<1>2. CASE Next
  <2>1. PICK t \in Threads : Acquire(t) \/ Step(t)
    BY <1>2 DEF Next
  <2>2. QED
    BY <2>1, StepTyped, StepKeepsOwners, StepKeepsQueue, StepKeepsChain, StepKeepsHead
       DEF IInv
<1>3. QED
  BY <1>1, <1>2

\* The invariant holds initially.
LEMMA InitHolds == Init => TypeOK /\ IInv
<1> SUFFICES ASSUME Init
             PROVE  TypeOK /\ IInv
  OBVIOUS
<1>1. Places = {} /\ queue = <<>>
  BY DEF Init, Places
<1>2. TypeOK /\ NodesSuffice
  BY InitTyped
<1>3. \A t \in Threads : pc[t] = "idle"
  BY DEF Init
<1>4. WordTellsOwners /\ MutualExclusion
  BY <1>3 DEF Init, WordTellsOwners, MutualExclusion, Holds, Pends, Free
<1>5. QueueInOrder
  BY <1>1, <1>3 DEF Init, QueueInOrder, OnQueue, Free
<1>6. ChainIntact /\ HeadReadsSafely
  BY <1>1, <1>3 DEF ChainIntact, NodeClean, HeadReadsSafely
<1>7. QED
  BY <1>2, <1>4, <1>5, <1>6 DEF IInv

\* The inductive invariant: the lock word, the queue and the MCS chain agree with
\* where the threads are in lock_acquire and lock_release, for any number of
\* threads and whatever the uncleared pool holds.
THEOREM Invariance == Spec => [](TypeOK /\ IInv)
<1>1. Init => TypeOK /\ IInv
  BY InitHolds
<1>2. TypeOK /\ IInv /\ [Next]_vars => (TypeOK /\ IInv)'
  BY StepKeepsAll
<1>3. QED
  BY <1>1, <1>2, PTL DEF Spec

\* Every variable keeps its type: a thread never runs out of its four nodes and
\* never dereferences a null predecessor or successor.
THEOREM TypeCorrect == Spec => []TypeOK
BY Invariance, PTL

\* lock_acquire returns to one thread at a time.
THEOREM MutualExclusionHolds == Spec => []MutualExclusion
<1>1. IInv => MutualExclusion
  BY DEF IInv
<1>2. QED
  BY <1>1, Invariance, PTL

\* The address decoded from the old tail is that of a node still in use, to which
\* nobody else has linked.
THEOREM PredecessorNeverStale == Spec => []NoStalePredecessor
<1>1. TypeOK /\ IInv => NoStalePredecessor
  <2> SUFFICES ASSUME TypeOK, IInv, NEW t \in Threads, pc[t] = "link"
               PROVE  \E u \in Threads \ {t} :
                        OnQueue(u) /\ Node(u) = prev[t] /\ next[prev[t]] = Null
    BY DEF NoStalePredecessor
  <2>1. PICK i \in Places : /\ i - 1 \in Places /\ queue[i - 1] \in Threads \ {t}
                            /\ prev[t] = Node(queue[i - 1]) /\ next[prev[t]] = Null
    BY LinksBehindPredecessor DEF IInv
  <2>2. OnQueue(queue[i - 1])
    BY <2>1 DEF IInv, QueueInOrder
  <2>3. QED
    BY <2>1, <2>2
<1>2. QED
  BY <1>1, Invariance, PTL

-----------------------------------------------------------------------------
(* The lock implements FifoLock: the pending thread comes before the queue,  *)
(* and the queue keeps its order.                                          *)

Good == TypeOK /\ IInv

Pender    == CHOOSE t \in Threads : Pends(t)
PendLine  == IF PendingThreads = {} THEN <<>> ELSE <<Pender>>
QueueLine == IF queue # <<>> /\ Holds(Head(queue)) THEN Tail(queue) ELSE queue

NoHolder == \A t \in Threads : ~Holds(t)
NoPender == \A t \in Threads : ~Pends(t)

\* The refinement mapping, by who holds the lock and who the pending byte.
Mapped ==
  /\ \A t \in Threads : Holds(t) => Owner = t
  /\ NoHolder => Owner = NoThread
  /\ \A t \in Threads : Pends(t) => PendLine = <<t>>
  /\ NoPender => PendLine = <<>>
  /\ PendLine \in Seq(Threads) /\ QueueLine \in Seq(Threads)

LEMMA GoodMaps == Good => Mapped
<1>1. SUFFICES ASSUME Good PROVE Mapped
  OBVIOUS
<1>2. ASSUME NEW t \in Threads, Holds(t) PROVE Owner = t
  <2>1. \A u \in Threads : Holds(u) => u = t
    BY <1>1, <1>2 DEF Good, IInv, MutualExclusion
  <2>2. QED
    BY <1>2, <2>1 DEF Owner
<1>3. ASSUME NoHolder PROVE Owner = NoThread
  BY <1>3 DEF NoHolder, Owner
<1>4. ASSUME NEW t \in Threads, Pends(t) PROVE PendLine = <<t>>
  <2>1. \A u \in Threads : Pends(u) => u = t
    BY <1>1, <1>4 DEF Good, IInv, WordTellsOwners
  <2>2. Pender = t
    BY <1>4, <2>1 DEF Pender
  <2>3. PendingThreads # {}
    BY <1>4 DEF PendingThreads
  <2>4. QED
    BY <2>2, <2>3 DEF PendLine
<1>5. ASSUME NoPender PROVE PendLine = <<>>
  BY <1>5 DEF NoPender, PendLine, PendingThreads
<1>6. PendLine \in Seq(Threads)
  <2>1. CASE NoPender
    BY <1>5, <2>1
  <2>2. CASE ~NoPender
    <3>1. PICK t \in Threads : Pends(t)
      BY <2>2 DEF NoPender
    <3>2. PendLine = <<t>>
      BY <1>4, <3>1
    <3>3. QED
      BY <3>2
  <2>3. QED
    BY <2>1, <2>2
<1>7. QueueLine \in Seq(Threads)
  BY <1>1, HeadTailProperties DEF Good, TypeOK, QueueLine
<1>8. QED
  BY <1>2, <1>3, <1>4, <1>5, <1>6, <1>7 DEF Mapped

LEMMA GoodMapsAfter == Good' => Mapped'
BY GoodMaps, PTL

LEMMA LineInParts == WaitingLine = PendLine \o QueueLine
BY DEF WaitingLine, PendLine, Pender, QueueLine

LEMMA LineInPartsAfter == WaitingLine' = PendLine' \o QueueLine'
BY DEF WaitingLine, PendLine, Pender, QueueLine

LEMMA QueueHead ==
  ASSUME Good, queue # <<>>
  PROVE  /\ Head(queue) = queue[1] /\ Head(queue) \in Threads
         /\ OnQueue(Head(queue)) /\ Len(queue) \in Nat \ {0}
<1>1. queue \in Seq(Threads) /\ Len(queue) \in Nat \ {0}
  BY EmptySeq DEF Good, TypeOK
<1>2. Head(queue) = queue[1] /\ Head(queue) \in Threads
  BY <1>1, HeadTailProperties
<1>3. OnQueue(queue[1])
  BY <1>1 DEF Good, IInv, QueueInOrder, Places
<1>4. QED
  BY <1>1, <1>2, <1>3

\* Whoever is at the head of the queue is the one its head names.
LEMMA AtHeadIsHead ==
  ASSUME Good, NEW t \in Threads, pc[t] \in AtHead
  PROVE  queue # <<>> /\ Head(queue) = t
<1>1. queue # <<>> /\ queue[1] = t
  BY HasPlace DEF Good, IInv, OnQueue, AtHead
<1>2. QED
  BY <1>1, QueueHead

\* Every thread in the line pends or is on the queue, so the others have no
\* place in it.
LEMMA NoPlace ==
  ASSUME Good, NEW t \in Threads, ~Holds(t), ~Pends(t), ~OnQueue(t)
  PROVE  Owner # t /\ ~Fifo!InLine(t)
<1>1. Mapped /\ WaitingLine = PendLine \o QueueLine
  BY GoodMaps, LineInParts
<1>2. Owner # t
  <2>1. CASE NoHolder
    BY <1>1, <2>1 DEF Mapped, NoThread, Threads
  <2>2. CASE ~NoHolder
    BY <1>1, <2>2 DEF Mapped, NoHolder
  <2>3. QED
    BY <2>1, <2>2
<1>3. PendLine \in Seq(Threads) /\ QueueLine \in Seq(Threads)
  BY <1>1 DEF Mapped
<1>4. \A i \in 1 .. Len(PendLine) : PendLine[i] # t
  <2>1. CASE NoPender
    BY <1>1, <2>1, EmptySeq DEF Mapped
  <2>2. CASE ~NoPender
    <3>1. PICK u \in Threads : Pends(u)
      BY <2>2 DEF NoPender
    <3>2. PendLine = <<u>> /\ u # t
      BY <1>1, <3>1 DEF Mapped
    <3>3. QED
      BY <3>2
  <2>3. QED
    BY <2>1, <2>2
<1>5. \A i \in 1 .. Len(QueueLine) : QueueLine[i] # t
  <2>1. \A i \in 1 .. Len(queue) : queue[i] # t
    BY DEF Good, IInv, QueueInOrder, Places
  <2>2. CASE QueueLine = Tail(queue) /\ queue # <<>>
    <3>1. /\ Len(Tail(queue)) = Len(queue) - 1 /\ Len(queue) \in Nat
          /\ \A i \in 1 .. Len(Tail(queue)) : Tail(queue)[i] = queue[i + 1]
      BY <2>2, HeadTailProperties, LenProperties DEF Good, TypeOK
    <3>2. \A i \in 1 .. Len(Tail(queue)) : i + 1 \in 1 .. Len(queue)
      BY <3>1
    <3>3. QED
      BY <2>1, <2>2, <3>1, <3>2
  <2>3. CASE QueueLine = queue
    BY <2>1, <2>3
  <2>4. (QueueLine = Tail(queue) /\ queue # <<>>) \/ QueueLine = queue
    BY DEF QueueLine
  <2>5. QED
    BY ONLY <2>2, <2>3, <2>4
<1>6. \A i \in 1 .. Len(WaitingLine) : WaitingLine[i] # t
  <2>1. /\ Len(WaitingLine) = Len(PendLine) + Len(QueueLine)
        /\ \A i \in 1 .. Len(WaitingLine) : WaitingLine[i] =
             IF i <= Len(PendLine) THEN PendLine[i] ELSE QueueLine[i - Len(PendLine)]
    BY ONLY <1>1, <1>3, ConcatProperties
  <2>2. Len(PendLine) \in Nat /\ Len(QueueLine) \in Nat
    BY <1>3, LenProperties
  <2>3. \A i \in 1 .. Len(WaitingLine) :
          IF i <= Len(PendLine) THEN i \in 1 .. Len(PendLine)
                                ELSE i - Len(PendLine) \in 1 .. Len(QueueLine)
    BY <2>1, <2>2
  <2>4. QED
    BY <1>4, <1>5, <2>1, <2>3
<1>7. QED
  BY <1>2, <1>6 DEF Fifo!InLine

-----------------------------------------------------------------------------
(* What a step does to the owner and the line, by its effect on who holds   *)
(* the lock, who pends, and the queue.                                      *)

SameHolders == \A u \in Threads : Holds(u)' <=> Holds(u)
SamePenders == \A u \in Threads : Pends(u)' <=> Pends(u)

LEMMA SameOwner ==
  ASSUME Good, Good', SameHolders
  PROVE  Owner' = Owner
<1>1. Mapped /\ Mapped'
  BY GoodMaps, GoodMapsAfter
<1>2. CASE NoHolder
  BY <1>1, <1>2 DEF Mapped, NoHolder, SameHolders
<1>3. CASE ~NoHolder
  BY <1>1, <1>3 DEF Mapped, NoHolder, SameHolders
<1>4. QED
  BY <1>2, <1>3

LEMMA SamePendLine ==
  ASSUME Good, Good', SamePenders
  PROVE  PendLine' = PendLine
<1>1. Mapped /\ Mapped'
  BY GoodMaps, GoodMapsAfter
<1>2. CASE NoPender
  BY <1>1, <1>2 DEF Mapped, NoPender, SamePenders
<1>3. CASE ~NoPender
  BY <1>1, <1>3 DEF Mapped, NoPender, SamePenders
<1>4. QED
  BY <1>2, <1>3

LEMMA Stutters ==
  ASSUME Good, Good', SameHolders, SamePenders, queue' = queue
  PROVE  UNCHANGED Fifo!vars
<1>1. Owner' = Owner /\ PendLine' = PendLine
  BY SameOwner, SamePendLine
<1>2. QueueLine' = QueueLine
  <2>1. queue # <<>> => (Holds(Head(queue))' <=> Holds(Head(queue)))
    <3>1. queue # <<>> => Head(queue) \in Threads
      BY QueueHead
    <3>2. \A u \in Threads : (Head(queue) = u) => (Holds(Head(queue))' <=> Holds(u)')
      BY DEF Holds
    <3>3. QED
      BY <3>1, <3>2 DEF SameHolders
  <2>2. QED
    BY <2>1 DEF QueueLine
<1>3. QED
  BY <1>1, <1>2, LineInParts, LineInPartsAfter DEF Fifo!vars

\* A thread takes the lock word when it is 0.
LEMMA TakesFreeWord ==
  ASSUME Good, Good', NEW t \in Threads, NoHolder, NoPender, queue = <<>>,
         Holds(t)', \A u \in Threads : ~Pends(u)', queue' = queue
  PROVE  Fifo!Enter(t)
<1>1. Mapped /\ Mapped'
  BY GoodMaps, GoodMapsAfter
<1>2. Owner = NoThread /\ PendLine = <<>> /\ Owner' = t /\ PendLine' = <<>>
  BY <1>1 DEF Mapped, NoPender
<1>3. QueueLine = <<>> /\ QueueLine' = <<>>
  BY DEF QueueLine
<1>4. WaitingLine = <<>> /\ WaitingLine' = <<>>
  BY <1>2, <1>3, LineInParts, LineInPartsAfter, ConcatEmptySeq, EmptySeq
<1>5. QED
  BY <1>2, <1>4 DEF Fifo!Enter

\* The cmpxchg that sets the pending byte finds the word locked, nobody pending
\* and nobody queued.
LEMMA TakesPendingByte ==
  ASSUME Good, Good', NEW t \in Threads, ~NoHolder, NoPender, queue = <<>>,
         ~Holds(t), ~OnQueue(t), SameHolders, Pends(t)', queue' = queue
  PROVE  Fifo!TakePlace(t)
<1>1. Mapped /\ Mapped'
  BY GoodMaps, GoodMapsAfter
<1>2. Owner' = Owner /\ PendLine = <<>> /\ PendLine' = <<t>>
  BY <1>1, SameOwner DEF Mapped
<1>3. QueueLine = <<>> /\ QueueLine' = <<>>
  BY DEF QueueLine
<1>4. <<t>> \in Seq(Threads)
  OBVIOUS
<1>5. WaitingLine = <<>> /\ WaitingLine' = <<t>>
  BY <1>2, <1>3, <1>4, LineInParts, LineInPartsAfter, ConcatEmptySeq, EmptySeq
<1>6. Owner # t /\ ~Fifo!InLine(t)
  BY NoPlace DEF NoPender
<1>7. QED
  BY <1>2, <1>5, <1>6 DEF Fifo!TakePlace

\* A line with one thread put in front of it.
LEMMA OneInFront ==
  ASSUME NEW q \in Seq(Threads), NEW t \in Threads, NEW r, r = <<t>> \o q
  PROVE  r # <<>> /\ Head(r) = t /\ Tail(r) = q
<1>1. Len(q) \in Nat /\ Len(r) = 1 + Len(q) /\ r \in Seq(Threads)
  OBVIOUS
<1>2. r # <<>> /\ Head(r) = t
  OBVIOUS
<1>3. Tail(r) = q
  <2>1. /\ Tail(r) \in Seq(Threads) /\ Len(Tail(r)) = Len(q)
        /\ \A i \in 1 .. Len(q) : Tail(r)[i] = r[i + 1]
    BY ONLY <1>1, <1>2, HeadTailProperties
  <2>2. \A i \in 1 .. Len(q) : r[i + 1] = q[i]
    OBVIOUS
  <2>3. \A i \in 1 .. Len(q) : Tail(r)[i] = q[i]
    BY ONLY <2>1, <2>2
  <2>4. QED
    BY ONLY <2>1, <2>3, q \in Seq(Threads), SeqEqual
<1>4. QED
  BY ONLY <1>2, <1>3

\* The pending thread is served before the queue.
LEMMA PenderServed ==
  ASSUME Good, Good', NEW t \in Threads, NoHolder, Pends(t), Holds(t)',
         \A u \in Threads : ~Pends(u)', ~OnQueue(t), queue' = queue
  PROVE  Fifo!Serve
<1>1. Mapped /\ Mapped'
  BY GoodMaps, GoodMapsAfter
<1>2. Owner = NoThread /\ PendLine = <<t>> /\ Owner' = t /\ PendLine' = <<>>
  BY <1>1 DEF Mapped, NoPender
<1>3. QueueLine = queue /\ QueueLine' = queue
  <2>1. queue # <<>> => Head(queue) \in Threads /\ Head(queue) # t
    BY QueueHead
  <2>2. queue # <<>> => ~Holds(Head(queue))
    BY <2>1 DEF NoHolder
  <2>3. \A u \in Threads \ {t} : ~Holds(u)'
    <3>1. MutualExclusion'
      BY DEF Good, IInv
    <3>2. QED
      BY <3>1 DEF MutualExclusion
  <2>4. queue # <<>> => ~Holds(Head(queue))'
    BY <2>1, <2>3
  <2>5. QED
    BY <2>2, <2>4 DEF QueueLine
<1>4. queue \in Seq(Threads)
  BY DEF Good, TypeOK
<1>5. WaitingLine = <<t>> \o queue
  BY ONLY <1>2, <1>3, LineInParts
<1>6. WaitingLine' = queue
  <2>1. WaitingLine' = <<>> \o queue
    BY ONLY <1>2, <1>3, LineInPartsAfter
  <2>2. <<>> \o queue = queue
    BY ONLY <1>4, ConcatEmptySeq
  <2>3. QED
    BY ONLY <2>1, <2>2
<1>7. WaitingLine # <<>> /\ Head(WaitingLine) = t /\ Tail(WaitingLine) = queue
  BY ONLY <1>4, <1>5, t \in Threads, OneInFront
<1>8. QED
  BY ONLY <1>2, <1>6, <1>7 DEF Fifo!Serve

\* The exchange of the tail is a place at the end of the line.
LEMMA JoinsQueue ==
  ASSUME Good, Good', NEW t \in Threads, SameHolders, SamePenders,
         ~Holds(t), ~Pends(t), ~OnQueue(t), queue' = Append(queue, t)
  PROVE  Fifo!TakePlace(t)
<1>1. Mapped /\ Mapped'
  BY GoodMaps, GoodMapsAfter
<1>2. Owner' = Owner /\ PendLine' = PendLine
  BY SameOwner, SamePendLine
<1>3. queue \in Seq(Threads) /\ PendLine \in Seq(Threads) /\ QueueLine \in Seq(Threads)
  BY <1>1 DEF Good, TypeOK, Mapped
<1>4. /\ Append(queue, t) # <<>>
      /\ queue = <<>> => Head(Append(queue, t)) = t /\ Tail(Append(queue, t)) = <<>>
      /\ queue # <<>> => /\ Head(Append(queue, t)) = Head(queue)
                         /\ Tail(Append(queue, t)) = Append(Tail(queue), t)
  BY ONLY <1>3, t \in Threads, HeadTailAppend, AppendProperties
<1>5. QueueLine' = Append(QueueLine, t)
  <2>1. /\ queue' # <<>>
        /\ queue = <<>> => Head(queue') = t
        /\ queue # <<>> => /\ Head(queue') = Head(queue)
                           /\ Tail(queue') = Append(Tail(queue), t)
    BY ONLY <1>4, queue' = Append(queue, t)
  <2>2. PICK h \in Threads : h = IF queue = <<>> THEN t ELSE Head(queue)
    BY QueueHead
  <2>3. Head(queue') = h /\ (Holds(h)' <=> Holds(h))
    BY ONLY <2>1, <2>2, SameHolders DEF SameHolders
  <2>4. Holds(Head(queue))' <=> Holds(h)
    BY <2>3 DEF Holds
  <2>5. CASE queue = <<>>
    <3>1. ~Holds(Head(queue))'
      BY <2>2, <2>4, <2>5
    <3>2. QueueLine' = queue' /\ QueueLine = queue
      BY <2>5, <3>1 DEF QueueLine
    <3>3. QED
      BY <3>2
  <2>6. CASE queue # <<>> /\ Holds(h)
    <3>1. QueueLine' = Tail(queue') /\ QueueLine = Tail(queue)
      BY ONLY <2>1, <2>2, <2>4, <2>6 DEF QueueLine
    <3>2. QED
      BY ONLY <2>1, <2>6, <3>1
  <2>7. CASE queue # <<>> /\ ~Holds(h)
    <3>1. QueueLine' = queue' /\ QueueLine = queue
      BY <2>2, <2>4, <2>7 DEF QueueLine
    <3>2. QED
      BY <3>1
  <2>8. QED
    BY <2>5, <2>6, <2>7
<1>6. PendLine \o Append(QueueLine, t) = Append(PendLine \o QueueLine, t)
  BY <1>3
<1>7. WaitingLine' = Append(WaitingLine, t)
  BY ONLY <1>2, <1>5, <1>6, LineInParts, LineInPartsAfter
<1>8. Owner # t /\ ~Fifo!InLine(t)
  BY NoPlace
<1>9. QED
  BY <1>2, <1>7, <1>8 DEF Fifo!TakePlace

\* The head of the queue is served: it stays on the queue if another waits
\* behind it, and leaves with its last place if not.
LEMMA HeadServed ==
  ASSUME Good, Good', NEW t \in Threads, NoHolder, NoPender, Holds(t)',
         \A u \in Threads : ~Pends(u)', queue # <<>>, Head(queue) = t,
         \/ queue' = queue
         \/ Len(queue) = 1 /\ queue' = Tail(queue)
  PROVE  Fifo!Serve
<1>1. Mapped /\ Mapped'
  BY GoodMaps, GoodMapsAfter
<1>2. Owner = NoThread /\ PendLine = <<>> /\ Owner' = t /\ PendLine' = <<>>
  BY <1>1 DEF Mapped, NoPender
<1>3. queue \in Seq(Threads) /\ Tail(queue) \in Seq(Threads)
  BY HeadTailProperties DEF Good, TypeOK
<1>4. QueueLine = queue
  BY DEF QueueLine, NoHolder
<1>5. QueueLine' = Tail(queue)
  <2>1. CASE queue' = queue
    <3>1. Holds(Head(queue))'
      BY <2>1 DEF Holds
    <3>2. QED
      BY <2>1, <3>1 DEF QueueLine
  <2>2. CASE Len(queue) = 1 /\ queue' = Tail(queue)
    <3>1. queue' = <<>>
      BY <1>3, <2>2, QueueLeft
    <3>2. QED
      BY <2>2, <3>1 DEF QueueLine
  <2>3. QED
    BY <2>1, <2>2
<1>6. WaitingLine = queue /\ WaitingLine' = Tail(queue)
  BY <1>2, <1>3, <1>4, <1>5, LineInParts, LineInPartsAfter, ConcatEmptySeq
<1>7. QED
  BY <1>2, <1>6 DEF Fifo!Serve

\* The owner that hands the head of the queue on leaves the queue, not the line:
\* it had left the line when it took the lock.
LEMMA HandOffStutters ==
  ASSUME Good, Good', NEW t \in Threads, Holds(t), SameHolders, SamePenders,
         queue # <<>>, Head(queue) = t, queue' = Tail(queue)
  PROVE  UNCHANGED Fifo!vars
<1>1. Owner' = Owner /\ PendLine' = PendLine
  BY SameOwner, SamePendLine
<1>2. QueueLine = Tail(queue)
  BY DEF QueueLine
<1>3. queue \in Seq(Threads) /\ Len(queue) \in Nat \ {0}
  BY QueueHead DEF Good, TypeOK
<1>4. queue' # <<>> => Head(queue') \in Threads /\ Head(queue') # t
  <2>1. SUFFICES ASSUME queue' # <<>>
                 PROVE  Head(queue') \in Threads /\ Head(queue') # t
    OBVIOUS
  <2>2. /\ Tail(queue) \in Seq(Threads) /\ Len(Tail(queue)) = Len(queue) - 1
        /\ \A i \in 1 .. Len(Tail(queue)) : Tail(queue)[i] = queue[i + 1]
    BY <1>3, HeadTailProperties
  <2>3. Tail(queue) # <<>> /\ Len(Tail(queue)) \in Nat \ {0}
    BY <2>1, <2>2, EmptySeq
  <2>4. Head(queue') = Tail(queue)[1] /\ Head(queue') \in Threads
    BY <2>2, <2>3, HeadTailProperties
  <2>5. 1 \in 1 .. Len(Tail(queue)) /\ 1 \in Places /\ 2 \in Places
    BY <1>3, <2>2, <2>3 DEF Places
  <2>6. Tail(queue)[1] = queue[2]
    <3>1. Tail(queue)[1] = queue[1 + 1]
      BY <2>2, <2>5
    <3>2. 1 + 1 = 2
      OBVIOUS
    <3>3. QED
      BY ONLY <3>1, <3>2
  <2>7. queue[1] = t
    BY QueueHead
  <2>8. queue[2] # queue[1]
    <3>1. QueueInOrder
      BY DEF Good, IInv
    <3>2. \A i, j \in Places : queue[i] = queue[j] => i = j
      BY ONLY <3>1 DEF QueueInOrder
    <3>3. QED
      BY ONLY <2>5, <3>2
  <2>9. QED
    BY ONLY <2>4, <2>6, <2>7, <2>8
<1>5. QueueLine' = queue'
  <2>1. \A u \in Threads \ {t} : ~Holds(u)'
    BY DEF Good, IInv, MutualExclusion, SameHolders
  <2>2. queue' # <<>> => ~Holds(Head(queue))'
    BY <1>4, <2>1 DEF Holds
  <2>3. QED
    BY <2>2 DEF QueueLine
<1>6. QED
  <2>1. QueueLine' = QueueLine
    BY ONLY <1>2, <1>5, queue' = Tail(queue)
  <2>2. WaitingLine' = WaitingLine
    BY ONLY <1>1, <2>1, LineInParts, LineInPartsAfter
  <2>3. QED
    BY ONLY <1>1, <2>2 DEF Fifo!vars

\* An owner outside the queue releases the lock.
LEMMA OwnerReleases ==
  ASSUME Good, Good', NEW t \in Threads, Holds(t), ~OnQueue(t), SamePenders,
         \A u \in Threads : ~Holds(u)', queue' = queue
  PROVE  Fifo!Release(t)
<1>1. Mapped /\ Mapped'
  BY GoodMaps, GoodMapsAfter
<1>2. Owner = t /\ Owner' = NoThread /\ PendLine' = PendLine
  BY <1>1, SamePendLine DEF Mapped, NoHolder
<1>3. queue # <<>> => Head(queue) \in Threads /\ Head(queue) # t
  BY QueueHead
<1>4. queue # <<>> => ~Holds(Head(queue)) /\ ~Holds(Head(queue))'
  <2>1. \A u \in Threads : Holds(u) => u = t
    BY DEF Good, IInv, MutualExclusion
  <2>2. queue # <<>> => ~Holds(Head(queue))
    BY <1>3, <2>1
  <2>3. queue # <<>> => ~Holds(Head(queue))'
    BY <1>3 DEF Holds
  <2>4. QED
    BY <2>2, <2>3
<1>5. QueueLine' = QueueLine
  BY <1>4 DEF QueueLine
<1>6. WaitingLine' = WaitingLine
  BY ONLY <1>2, <1>5, LineInParts, LineInPartsAfter
<1>7. QED
  BY ONLY <1>2, <1>6 DEF Fifo!Release

-----------------------------------------------------------------------------
(* The steps.                                                              *)

LEMMA GoodMove ==
  ASSUME Good, NEW t \in Threads, NEW label, Goto(t, label)
  PROVE  pc'[t] = label /\ \A u \in Threads \ {t} : pc'[u] = pc[u]
BY MoveEffect DEF Good

\* A thread that changes neither the owner nor the line.
LEMMA SilentMove ==
  ASSUME Good, Good', NEW t \in Threads, NEW label, Goto(t, label), queue' = queue,
         Holds(t) <=> label \in Holding, Pends(t) <=> label \in Pending
  PROVE  UNCHANGED Fifo!vars
<1>1. SameHolders /\ SamePenders
  BY GoodMove DEF SameHolders, SamePenders, Holds, Pends, Holding, Pending
<1>2. QED
  BY <1>1, Stutters

LEMMA NoMove ==
  ASSUME Good, Good', pc' = pc, queue' = queue
  PROVE  UNCHANGED Fifo!vars
<1>1. SameHolders /\ SamePenders
  BY DEF SameHolders, SamePenders, Holds, Pends
<1>2. QED
  BY <1>1, Stutters

\* What the fields of the word tell.
LEMMA WordTells ==
  ASSUME Good
  PROVE  /\ word.locked = 0 => NoHolder
         /\ word.locked = 1 => ~NoHolder
         /\ word.pending = 0 => NoPender
         /\ word.tail = 0 => queue = <<>>
<1>1. word.locked = 0 => NoHolder
  BY DEF Good, IInv, WordTellsOwners, NoHolder
<1>2. word.locked = 1 => ~NoHolder
  BY DEF Good, IInv, WordTellsOwners, NoHolder
<1>3. word.pending = 0 => NoPender
  BY DEF Good, IInv, WordTellsOwners, NoPender
<1>4. word.tail = 0 => queue = <<>>
  BY NobodyQueued, QueueHead DEF Good, IInv
<1>5. QED
  BY <1>1, <1>2, <1>3, <1>4

\* A thread that neither holds the lock nor stands in line takes a word that
\* is 0 and owns the lock.
LEMMA EntersFree ==
  ASSUME Good, Good', NEW t \in Threads, NEW label \in Holding, Goto(t, label),
         word.locked = 0, word.pending = 0, word.tail = 0, queue' = queue
  PROVE  Fifo!Enter(t)
<1>1. NoHolder /\ NoPender /\ queue = <<>>
  BY WordTells
<1>2. Holds(t)'
  BY GoodMove DEF Holds, Holding
<1>3. \A u \in Threads : ~Pends(u)'
  BY <1>1, GoodMove DEF NoPender, Pends, Holding
<1>4. QED
  BY <1>1, <1>2, <1>3, TakesFreeWord

LEMMA AcquireRefines ==
  ASSUME Good, Good', NEW t \in Threads, Acquire(t)
  PROVE  Fifo!Enter(t) \/ UNCHANGED Fifo!vars
<1>1. CASE word = Free
  BY <1>1, EntersFree DEF Acquire, Free, Holding
<1>2. CASE word # Free
  BY <1>2, SilentMove DEF Acquire, Holding, Pending, Holds, Pends
<1>3. QED
  BY <1>1, <1>2

LEMMA TryOrPendRefines ==
  ASSUME Good, Good', NEW t \in Threads, TryOrPend(t)
  PROVE  Fifo!Enter(t) \/ Fifo!TakePlace(t) \/ UNCHANGED Fifo!vars
<1>1. CASE word # val[t]
  BY <1>1, NoMove DEF TryOrPend
<1>2. CASE word = val[t]
  <2>1. /\ pc[t] = "trypend" /\ queue' = queue
        /\ Goto(t, IF word.locked = 1 THEN "pendwait" ELSE "cs")
    BY <1>2 DEF TryOrPend
  <2>2. word.tail = 0 /\ word.pending = 0 /\ word.locked \in 0 .. 1
    <3>1. word \in Word
      BY DEF Good, TypeOK
    <3>2. word.tail = 0 /\ word.pending # 1
      BY <1>2 DEF TryOrPend, Contended
    <3>3. QED
      BY ONLY <3>1, <3>2, WordFields DEF Byte
  <2>3. CASE word.locked = 0
    BY <2>1, <2>2, <2>3, EntersFree DEF Holding
  <2>4. CASE word.locked = 1
    <3>1. ~NoHolder /\ NoPender /\ queue = <<>>
      BY <2>2, <2>4, WordTells
    <3>2. Goto(t, "pendwait")
      BY <2>1, <2>4
    <3>3. SameHolders /\ Pends(t)'
      BY <2>1, <3>2, GoodMove DEF SameHolders, Holds, Pends
    <3>4. ~Holds(t) /\ ~OnQueue(t)
      BY <2>1 DEF Holds, OnQueue
    <3>5. QED
      BY <2>1, <3>1, <3>3, <3>4, TakesPendingByte
  <2>5. QED
    BY <2>2, <2>3, <2>4
<1>3. QED
  BY <1>1, <1>2

LEMMA TakePendingRefines ==
  ASSUME Good, Good', NEW t \in Threads, TakePending(t)
  PROVE  Fifo!Serve
<1>1. pc[t] = "takepending" /\ Goto(t, "cs") /\ queue' = queue
  BY DEF TakePending
<1>2. NoHolder
  BY <1>1, WordTells DEF Good, IInv, WordTellsOwners
<1>3. Pends(t) /\ ~OnQueue(t) /\ Holds(t)'
  BY <1>1, GoodMove DEF Pends, OnQueue, Holds
<1>4. \A u \in Threads : Pends(u) => u = t
  BY <1>3 DEF Good, IInv, WordTellsOwners
<1>5. \A u \in Threads : ~Pends(u)'
  BY <1>1, <1>4, GoodMove DEF Pends
<1>6. QED
  BY <1>1, <1>2, <1>3, <1>5, PenderServed

LEMMA TryAgainRefines ==
  ASSUME Good, Good', NEW t \in Threads, TryAgain(t)
  PROVE  Fifo!Enter(t) \/ UNCHANGED Fifo!vars
<1>1. CASE word = Free
  BY <1>1, EntersFree DEF TryAgain, Free, Holding
<1>2. CASE word # Free
  BY <1>2, SilentMove DEF TryAgain, Holding, Pending, Holds, Pends
<1>3. QED
  BY <1>1, <1>2

LEMMA XchgTailRefines ==
  ASSUME Good, Good', NEW t \in Threads, XchgTail(t)
  PROVE  Fifo!TakePlace(t)
<1>1. pc[t] = "xchg" /\ queue' = Append(queue, t)
  BY DEF XchgTail
<1>2. Goto(t, "link") \/ Goto(t, "headwait")
  BY DEF XchgTail
<1>3. SameHolders /\ SamePenders
  BY <1>1, <1>2, GoodMove DEF SameHolders, SamePenders, Holds, Pends
<1>4. ~Holds(t) /\ ~Pends(t) /\ ~OnQueue(t)
  BY <1>1 DEF Holds, Pends, OnQueue
<1>5. QED
  BY <1>1, <1>3, <1>4, JoinsQueue

\* The head claims the lock only when owner and pending thread are gone.
LEMMA HeadClaims ==
  ASSUME Good, Good', NEW t \in Threads, pc[t] = "claim",
         NEW label \in Holding, Goto(t, label),
         \/ queue' = queue
         \/ Len(queue) = 1 /\ queue' = Tail(queue)
  PROVE  Fifo!Serve
<1>1. NoHolder /\ NoPender
  <2>1. WordTellsOwners
    BY DEF Good, IInv
  <2>2. word.locked = 0 /\ word.pending = 0
    BY ONLY <2>1, t \in Threads, pc[t] = "claim" DEF WordTellsOwners
  <2>3. QED
    BY <2>2, WordTells
<1>2. queue # <<>> /\ Head(queue) = t
  BY AtHeadIsHead DEF AtHead
<1>3. Holds(t)'
  BY GoodMove DEF Holds, Holding
<1>4. \A u \in Threads : ~Pends(u)'
  BY <1>1, GoodMove DEF NoPender, Pends, Holding
<1>5. QED
  BY <1>1, <1>2, <1>3, <1>4, HeadServed

LEMMA ClaimAloneRefines ==
  ASSUME Good, Good', NEW t \in Threads, ClaimAlone(t)
  PROVE  Fifo!Serve \/ UNCHANGED Fifo!vars
<1>1. CASE word # val[t]
  BY <1>1, NoMove DEF ClaimAlone
<1>2. CASE word = val[t]
  <2>1. /\ pc[t] = "claim" /\ word.tail = MyTail(t)
        /\ queue' = Tail(queue) /\ Goto(t, "release")
    BY <1>2 DEF ClaimAlone
  <2>2. Len(queue) = 1
    BY <2>1, AloneOnQueue DEF Good, IInv
  <2>3. QED
    BY <2>1, <2>2, HeadClaims DEF Holding
<1>3. QED
  BY <1>1, <1>2

LEMMA HandOffSilent ==
  ASSUME Good, Good', NEW t \in Threads, HandOff(t)
  PROVE  UNCHANGED Fifo!vars
<1>1. pc[t] = "handoff" /\ Goto(t, "release") /\ queue' = Tail(queue)
  BY DEF HandOff
<1>2. Holds(t) /\ queue # <<>> /\ Head(queue) = t
  BY <1>1, AtHeadIsHead DEF Holds, AtHead
<1>3. SameHolders /\ SamePenders
  BY <1>1, GoodMove DEF SameHolders, SamePenders, Holds, Pends
<1>4. QED
  BY <1>1, <1>2, <1>3, HandOffStutters

LEMMA UnlockRefines ==
  ASSUME Good, Good', NEW t \in Threads, Unlock(t)
  PROVE  Fifo!Release(t)
<1>1. pc[t] = "cs" /\ Goto(t, "idle") /\ queue' = queue
  BY DEF Unlock
<1>2. Holds(t) /\ ~OnQueue(t)
  BY <1>1 DEF Holds, OnQueue
<1>3. \A u \in Threads : Holds(u) => u = t
  BY <1>2 DEF Good, IInv, MutualExclusion
<1>4. (\A u \in Threads : ~Holds(u)') /\ SamePenders
  BY <1>1, <1>3, GoodMove DEF Holds, Pends, SamePenders
<1>5. QED
  BY <1>1, <1>2, <1>4, OwnerReleases

LEMMA StepRefines == Good /\ Good' /\ [Next]_vars => [Fifo!Next]_(Fifo!vars)
<1>1. SUFFICES ASSUME Good, Good', [Next]_vars PROVE [Fifo!Next]_(Fifo!vars)
  OBVIOUS
<1>2. CASE UNCHANGED vars
  BY <1>1, <1>2, NoMove DEF vars
<1>3. ASSUME NEW t \in Threads, Acquire(t) \/ Step(t)
      PROVE  Fifo!Enter(t) \/ Fifo!TakePlace(t) \/ Fifo!Serve \/ Fifo!Release(t)
             \/ UNCHANGED Fifo!vars
  <2>1. CASE Acquire(t)
    BY <1>1, <2>1, AcquireRefines
  <2>2. CASE AwaitHandover(t)
    BY <1>1, <2>2, SilentMove DEF AwaitHandover, Holds, Pends, Holding, Pending
  <2>3. CASE TryOrPend(t)
    BY <1>1, <2>3, TryOrPendRefines
  <2>4. CASE AwaitOwner(t)
    BY <1>1, <2>4, SilentMove DEF AwaitOwner, Holds, Pends, Holding, Pending
  <2>5. CASE TakePending(t)
    BY <1>1, <2>5, TakePendingRefines
  <2>6. CASE PrepareNode(t)
    BY <1>1, <2>6, SilentMove DEF PrepareNode, Holds, Pends, Holding, Pending
  <2>7. CASE TryAgain(t)
    BY <1>1, <2>7, TryAgainRefines
  <2>8. CASE XchgTail(t)
    BY <1>1, <2>8, XchgTailRefines
  <2>9. CASE LinkBehind(t)
    BY <1>1, <2>9, SilentMove DEF LinkBehind, Holds, Pends, Holding, Pending
  <2>10. CASE AwaitGrant(t)
    BY <1>1, <2>10, SilentMove DEF AwaitGrant, Holds, Pends, Holding, Pending
  <2>11. CASE PeekNext(t)
    BY <1>1, <2>11, SilentMove DEF PeekNext, Holds, Pends, Holding, Pending
  <2>12. CASE AwaitFree(t)
    BY <1>1, <2>12, SilentMove DEF AwaitFree, Holds, Pends, Holding, Pending
  <2>13. CASE ClaimContended(t)
    BY <1>1, <2>13, HeadClaims DEF ClaimContended, Holding
  <2>14. CASE ClaimAlone(t)
    BY <1>1, <2>14, ClaimAloneRefines
  <2>15. CASE AwaitNext(t)
    BY <1>1, <2>15, SilentMove DEF AwaitNext, Holds, Pends, Holding, Pending
  <2>16. CASE HandOff(t)
    BY <1>1, <2>16, HandOffSilent
  <2>17. CASE ReleaseNode(t)
    BY <1>1, <2>17, SilentMove DEF ReleaseNode, Holds, Pends, Holding, Pending
  <2>18. CASE Unlock(t)
    BY <1>1, <2>18, UnlockRefines
  <2>19. QED
    BY <1>3, <2>1, <2>2, <2>3, <2>4, <2>5, <2>6, <2>7, <2>8, <2>9, <2>10, <2>11,
       <2>12, <2>13, <2>14, <2>15, <2>16, <2>17, <2>18 DEF Step
<1>4. ASSUME NEW t \in Threads, Acquire(t) \/ Step(t)
      PROVE  Fifo!Next \/ UNCHANGED Fifo!vars
  BY <1>3, <1>4 DEF Fifo!Next
<1>5. QED
  BY <1>1, <1>2, <1>4 DEF Next

LEMMA InitRefines == Init => Fifo!Init
<1>1. SUFFICES ASSUME Init PROVE Fifo!Init
  OBVIOUS
<1>2. Good
  BY <1>1, InitHolds DEF Good
<1>3. queue = <<>> /\ NoHolder /\ NoPender
  BY <1>1 DEF Init, NoHolder, NoPender, Holds, Pends
<1>4. Owner = NoThread /\ PendLine = <<>>
  BY <1>2, <1>3, GoodMaps DEF Mapped
<1>5. QueueLine = <<>>
  BY <1>3 DEF QueueLine
<1>6. WaitingLine = <<>>
  BY <1>4, <1>5, LineInParts, ConcatEmptySeq, EmptySeq
<1>7. QED
  BY <1>4, <1>6 DEF Fifo!Init

\* The queued spinlock keeps the promise of a fair lock: no thread overtakes
\* one that holds the pending byte or is on the queue (queued_spinlock.h:244-466).
THEOREM QueuedIsFifo == Spec => FifoSpec
<1>1. Spec => []Good
  <2>1. TypeOK /\ IInv => Good
    BY DEF Good
  <2>2. QED
    BY <2>1, Invariance, PTL
<1>2. QED
  BY <1>1, InitRefines, StepRefines, PTL DEF Spec, FifoSpec, Fifo!Spec
=============================================================================
