----------------------------- MODULE Hmr_proofs -----------------------------
(* Safety of the token locks for any number of threads and rounds: the token *)
(* is neither lost nor duplicated, nobody enters the measured loop before every *)
(* endpoint is open, and nobody calibrates before every thread is ready.     *)
(* Then the event mutex and the ticket spinlock, which the same threads take. *)
EXTENDS Hmr, EventMutex, TicketSpinlock, SequenceTheorems, FiniteSetTheorems, TLAPS

USE HammerAssumption, RoundsAssumption, HmrAssumption

Labels == {"register", "marshal", "begin", "announce", "await", "sense",
           "arrive", "check", "reset", "open", "count", "opened", "loop", "cs"}

Inside == {"loop", "cs"}
Open   == {"opened", "loop", "cs"}

Owners   == {t \in Threads : pc[t] = "cs"}
Unopened == {t \in Threads : pc[t] \notin Open}

\* What the two arguments need of the types.
Typed ==
  /\ useReady \in BOOLEAN
  /\ pc \in [Threads -> Labels]
  /\ ready \in Int /\ tokens \in Nat
  /\ readyRead \in [Threads -> Int]

\* ready never understates the endpoints still to be opened, nor does a value
\* of it that a thread is about to decrement: the unsynchronised decrements of
\* thread_local_init lose updates in the safe direction only.
ReadyCovers ==
  /\ ready >= Cardinality(Unopened)
  /\ \A t \in Threads : pc[t] = "count" => readyRead[t] >= Cardinality(Unopened)

AllOpen == useReady /\ (\E t \in Threads : pc[t] \in Inside) => Unopened = {}

IInv == Typed /\ OneToken /\ ReadyCovers /\ AllOpen

-----------------------------------------------------------------------------
(* The sets that are counted.                                              *)

LEMMA ThreadsFinite ==
  /\ IsFiniteSet(Threads) /\ Cardinality(Threads) = NThreads
  /\ \A S \in SUBSET Threads : IsFiniteSet(S) /\ Cardinality(S) \in Nat
<1>1. IsFiniteSet(Threads) /\ Cardinality(Threads) = NThreads
  BY FS_Interval DEF Threads
<1>2. QED
  BY <1>1, FS_Subset, FS_CardinalityType

\* A thread that moves between two labels of which neither or both are "cs"
\* changes no owner; the same of the endpoints.
LEMMA MoveKeepsOwners ==
  ASSUME Typed, NEW t \in Threads, NEW label \in Labels, Goto(t, label),
         pc[t] = "cs" <=> label = "cs"
  PROVE  Owners' = Owners
BY DEF Typed, Goto, Owners

LEMMA MoveKeepsUnopened ==
  ASSUME Typed, NEW t \in Threads, NEW label \in Labels, Goto(t, label),
         pc[t] \in Open <=> label \in Open
  PROVE  Unopened' = Unopened
BY DEF Typed, Goto, Unopened

LEMMA MoveKeepsAllOpen ==
  ASSUME Typed, AllOpen, NEW t \in Threads, NEW label \in Labels,
         Goto(t, label), UNCHANGED useReady, Unopened' = Unopened,
         useReady /\ label \in Inside => pc[t] \in Inside
  PROVE  AllOpen'
BY DEF Typed, Goto, AllOpen, Labels

\* A move that changes neither set and none of the counters.
LEMMA MoveKeepsIInv ==
  ASSUME IInv, NEW t \in Threads, NEW label \in Labels \ {"count", "cs"},
         Goto(t, label), pc[t] # "cs",
         UNCHANGED <<useReady, tokens, ready, readyRead>>,
         pc[t] \in Open <=> label \in Open,
         useReady /\ label \in Inside => pc[t] \in Inside
  PROVE  IInv'
<1>1. Typed'
  BY DEF IInv, Typed, Goto
<1>2. Owners' = Owners /\ Unopened' = Unopened
  BY MoveKeepsOwners, MoveKeepsUnopened DEF IInv
<1>3. OneToken'
  BY <1>2 DEF IInv, OneToken, Owners
<1>4. ReadyCovers'
  <2>1. \A u \in Threads : pc'[u] = "count" => pc[u] = "count"
    BY DEF IInv, Typed, Goto
  <2>2. QED
    BY <1>2, <2>1 DEF IInv, ReadyCovers
<1>5. AllOpen'
  BY <1>2, MoveKeepsAllOpen DEF IInv
<1>6. QED
  BY <1>1, <1>3, <1>4, <1>5 DEF IInv

\* A thread that leaves the barrier goes on to the second call, or to open its
\* endpoint, or, when the build does not count endpoints, into the loop.
LEMMA LeavingKeepsIInv ==
  ASSUME IInv, NEW t \in Threads, pc[t] \in {"check", "reset"}, LeaveBarrier(t),
         UNCHANGED <<useReady, tokens, ready, readyRead>>
  PROVE  IInv'
<1>1. CASE Goto(t, "sense")
  BY <1>1, MoveKeepsIInv DEF Labels, Open, Inside
<1>2. CASE useReady /\ Goto(t, "open")
  BY <1>2, MoveKeepsIInv DEF Labels, Open, Inside
<1>3. CASE ~useReady /\ Goto(t, "loop")
  <2>1. Typed'
    BY <1>3 DEF IInv, Typed, Goto, Labels
  <2>2. Owners' = Owners
    BY <1>3, MoveKeepsOwners DEF IInv, Labels
  <2>3. OneToken'
    BY <2>2 DEF IInv, OneToken, Owners
  <2>4. Unopened' \in SUBSET Unopened /\ Unopened \in SUBSET Threads
    BY <1>3 DEF IInv, Typed, Goto, Unopened, Open
  <2>5. IsFiniteSet(Unopened) /\ Cardinality(Unopened) \in Nat
    BY <2>4, ThreadsFinite
  <2>6. Cardinality(Unopened') \in Nat
    BY <2>4, ThreadsFinite
  <2>7. Cardinality(Unopened') <= Cardinality(Unopened)
    BY <2>4, <2>5, FS_Subset
  <2>8. \A u \in Threads : pc'[u] = "count" => pc[u] = "count"
    BY <1>3 DEF IInv, Typed, Goto
  <2>9. ReadyCovers'
    BY <2>5, <2>6, <2>7, <2>8 DEF IInv, Typed, ReadyCovers
  <2>10. AllOpen'
    BY <1>3 DEF AllOpen
  <2>11. QED
    BY <2>1, <2>3, <2>9, <2>10 DEF IInv
<1>4. QED
  BY <1>1, <1>2, <1>3 DEF LeaveBarrier

-----------------------------------------------------------------------------
(* The steps that count.                                                   *)

LEMMA ReadReadyKeepsIInv ==
  ASSUME IInv, NEW t \in Threads, ReadReady(t), UNCHANGED useReady
  PROVE  IInv'
<1>1. Typed'
  BY DEF IInv, Typed, ReadReady, shared, Goto, Labels
<1>2. Goto(t, "count") /\ "count" \in Labels /\ pc[t] = "open"
  BY DEF ReadReady, Labels
<1>3. Owners' = Owners
  BY <1>2, MoveKeepsOwners DEF IInv
<1>4. Unopened' = Unopened
  BY <1>2, MoveKeepsUnopened DEF IInv, Open
<1>5. OneToken'
  BY <1>3 DEF IInv, OneToken, Owners, ReadReady, shared
<1>6. ReadyCovers'
  <2>1. ready' = ready /\ readyRead' = [readyRead EXCEPT ![t] = ready]
    BY DEF ReadReady, shared
  <2>2. \A u \in Threads \ {t} : pc'[u] = pc[u] /\ readyRead'[u] = readyRead[u]
    BY <1>2, <2>1 DEF IInv, Typed, Goto
  <2>3. readyRead'[t] = ready
    BY <2>1 DEF IInv, Typed
  <2>4. QED
    BY <1>4, <2>1, <2>2, <2>3 DEF IInv, ReadyCovers
<1>7. AllOpen'
  BY <1>2, <1>4, MoveKeepsAllOpen DEF IInv, Inside
<1>8. QED
  BY <1>1, <1>5, <1>6, <1>7 DEF IInv

\* The write of a stale decrement still covers the endpoints that are not open:
\* the writer's own endpoint has left them.
LEMMA WriteReadyKeepsIInv ==
  ASSUME IInv, NEW t \in Threads, WriteReady(t), UNCHANGED useReady
  PROVE  IInv'
<1>1. Typed'
  BY DEF IInv, Typed, WriteReady, locals, Goto, Labels
<1>2. Goto(t, "opened") /\ "opened" \in Labels /\ pc[t] = "count"
  BY DEF WriteReady, Labels
<1>3. Owners' = Owners
  BY <1>2, MoveKeepsOwners DEF IInv
<1>4. OneToken'
  BY <1>3 DEF IInv, OneToken, Owners, WriteReady
<1>5. t \in Unopened /\ Unopened' = Unopened \ {t}
  BY <1>2 DEF IInv, Typed, Goto, Unopened, Open
<1>6. IsFiniteSet(Unopened) /\ Cardinality(Unopened) \in Nat
  BY ThreadsFinite DEF Unopened
<1>7. Cardinality(Unopened') = Cardinality(Unopened) - 1
  BY <1>5, <1>6, FS_RemoveElement
<1>8. ReadyCovers'
  <2>1. ready' = readyRead[t] - 1 /\ readyRead' = readyRead
    BY DEF WriteReady, locals
  <2>2. readyRead[t] >= Cardinality(Unopened) /\ readyRead \in [Threads -> Int]
    BY <1>2 DEF IInv, ReadyCovers, Typed
  <2>3. \A u \in Threads : pc'[u] = "count" => pc[u] = "count"
    BY <1>2 DEF IInv, Typed, Goto
  <2>4. \A u \in Threads :
          pc'[u] = "count" => readyRead[u] >= Cardinality(Unopened) - 1
    BY <1>6, <2>2, <2>3 DEF IInv, ReadyCovers
  <2>5. QED
    BY <1>6, <1>7, <2>1, <2>2, <2>4 DEF ReadyCovers
<1>9. AllOpen'
  BY <1>2, <1>5 DEF IInv, Typed, AllOpen, Goto, Inside
<1>10. QED
  BY <1>1, <1>4, <1>8, <1>9 DEF IInv

LEMMA AwaitEndpointsKeepsIInv ==
  ASSUME IInv, NEW t \in Threads, AwaitEndpoints(t), UNCHANGED useReady
  PROVE  IInv'
<1>1. /\ Goto(t, "loop") /\ "loop" \in Labels /\ pc[t] = "opened" /\ ready = 0
      /\ UNCHANGED <<tokens, ready, readyRead>>
  BY DEF AwaitEndpoints, Labels, shared, locals
<1>2. Typed'
  BY <1>1 DEF IInv, Typed, Goto
<1>3. Owners' = Owners
  BY <1>1, MoveKeepsOwners DEF IInv
<1>4. OneToken'
  BY <1>1, <1>3 DEF IInv, OneToken, Owners
<1>5. Unopened' = Unopened
  BY <1>1, MoveKeepsUnopened DEF IInv, Open
<1>6. ReadyCovers'
  <2>1. \A u \in Threads : pc'[u] = "count" => pc[u] = "count"
    BY <1>1 DEF IInv, Typed, Goto
  <2>2. QED
    BY <1>1, <1>5, <2>1 DEF IInv, ReadyCovers
<1>7. Unopened = {}
  <2>1. IsFiniteSet(Unopened) /\ Cardinality(Unopened) \in Nat
    BY ThreadsFinite DEF Unopened
  <2>2. Cardinality(Unopened) = 0
    BY <1>1, <2>1 DEF IInv, ReadyCovers
  <2>3. QED
    BY <2>1, <2>2, FS_EmptySet
<1>8. AllOpen'
  BY <1>5, <1>7 DEF AllOpen
<1>9. QED
  BY <1>2, <1>4, <1>6, <1>8 DEF IInv

\* Taking and putting back the token change no endpoint.
LEMMA TokenStepKeepsRest ==
  ASSUME IInv, NEW t \in Threads, NEW label \in Inside, Goto(t, label),
         pc[t] \in Inside, UNCHANGED <<useReady, ready, readyRead>>
  PROVE  ReadyCovers' /\ AllOpen'
<1>1. label \in Labels /\ pc[t] \in Open /\ label \in Open
  BY DEF Inside, Open, Labels
<1>2. Unopened' = Unopened
  BY <1>1, MoveKeepsUnopened DEF IInv
<1>3. \A u \in Threads : pc'[u] = "count" => pc[u] = "count"
  BY DEF IInv, Typed, Goto, Inside
<1>4. ReadyCovers'
  BY <1>2, <1>3 DEF IInv, ReadyCovers
<1>5. AllOpen'
  BY <1>1, <1>2, MoveKeepsAllOpen DEF IInv
<1>6. QED
  BY <1>4, <1>5

LEMMA OwnersFinite == IsFiniteSet(Owners) /\ Cardinality(Owners) \in Nat
BY ThreadsFinite DEF Owners

LEMMA TakeTokenKeepsIInv ==
  ASSUME IInv, NEW t \in Threads, TakeToken(t), UNCHANGED useReady
  PROVE  IInv'
<1>1. /\ Goto(t, "cs") /\ "cs" \in Labels /\ pc[t] = "loop" /\ tokens > 0
      /\ tokens' = tokens - 1 /\ UNCHANGED <<ready, readyRead>>
  BY DEF TakeToken, Labels, locals
<1>2. Typed'
  BY <1>1 DEF IInv, Typed, Goto
<1>3. Owners' = Owners \cup {t} /\ t \notin Owners
  BY <1>1 DEF IInv, Typed, Goto, Owners
<1>4. Cardinality(Owners') = Cardinality(Owners) + 1
  BY <1>3, OwnersFinite, FS_AddElement
<1>5. OneToken'
  BY <1>1, <1>4, OwnersFinite DEF IInv, Typed, OneToken, Owners
<1>6. ReadyCovers' /\ AllOpen'
  BY <1>1, TokenStepKeepsRest DEF Inside
<1>7. QED
  BY <1>2, <1>5, <1>6 DEF IInv

LEMMA PutTokenKeepsIInv ==
  ASSUME IInv, NEW t \in Threads, PutToken(t), UNCHANGED useReady
  PROVE  IInv'
<1>1. /\ Goto(t, "loop") /\ "loop" \in Labels /\ pc[t] = "cs"
      /\ tokens' = tokens + 1 /\ UNCHANGED <<ready, readyRead>>
  BY DEF PutToken, Labels
<1>2. Typed'
  BY <1>1 DEF IInv, Typed, Goto
<1>3. Owners' = Owners \ {t} /\ t \in Owners
  BY <1>1 DEF IInv, Typed, Goto, Owners
<1>4. Cardinality(Owners') = Cardinality(Owners) - 1
  BY <1>3, OwnersFinite, FS_RemoveElement
<1>5. OneToken'
  BY <1>1, <1>4, OwnersFinite DEF IInv, Typed, OneToken, Owners
<1>6. ReadyCovers' /\ AllOpen'
  BY <1>1, TokenStepKeepsRest DEF Inside
<1>7. QED
  BY <1>2, <1>5, <1>6 DEF IInv

-----------------------------------------------------------------------------
(* The induction.                                                          *)

LEMMA InitIInv == Init => IInv
<1>1. SUFFICES ASSUME Init PROVE IInv
  OBVIOUS
<1>2. pc = [t \in Threads |-> "register"] /\ tokens = 1 /\ ready = NThreads
  BY <1>1 DEF Init
<1>3. Typed
  BY <1>1 DEF Init, Typed, Labels
<1>4. Owners = {} /\ Unopened = Threads
  BY <1>2 DEF Owners, Unopened, Open
<1>5. OneToken
  BY <1>2, <1>4, FS_EmptySet DEF OneToken, Owners
<1>6. ReadyCovers
  BY <1>2, <1>4, ThreadsFinite DEF ReadyCovers
<1>7. AllOpen
  BY <1>2 DEF AllOpen, Inside
<1>8. QED
  BY <1>3, <1>5, <1>6, <1>7 DEF IInv

LEMMA StepKeepsIInv == IInv /\ [Next]_vars => IInv'
<1>1. SUFFICES ASSUME IInv, [Next]_vars PROVE IInv'
  OBVIOUS
<1>2. CASE UNCHANGED vars
  BY <1>1, <1>2 DEF vars, shared, locals, IInv, Typed, OneToken, ReadyCovers,
                    AllOpen, Unopened
<1>3. ASSUME NEW t \in Threads, Step(t) PROVE IInv'
  <2>1. UNCHANGED useReady
    BY <1>3 DEF Step
  <2>2. CASE Register(t)
    BY <1>1, <2>1, <2>2, MoveKeepsIInv DEF Register, Labels, Open, Inside
  <2>3. CASE AwaitReady(t)
    BY <1>1, <2>1, <2>3, MoveKeepsIInv
    DEF AwaitReady, shared, locals, Labels, Open, Inside
  <2>4. CASE Begin(t)
    BY <1>1, <2>1, <2>4, MoveKeepsIInv DEF Begin, locals, Labels, Open, Inside
  <2>5. CASE Announce(t)
    BY <1>1, <2>1, <2>5, MoveKeepsIInv DEF Announce, locals, Labels, Open, Inside
  <2>6. CASE AwaitStart(t)
    BY <1>1, <2>1, <2>6, MoveKeepsIInv
    DEF AwaitStart, shared, locals, Labels, Open, Inside
  <2>7. CASE ReadSense(t)
    BY <1>1, <2>1, <2>7, MoveKeepsIInv DEF ReadSense, shared, Labels, Open, Inside
  <2>8. CASE Arrive(t)
    BY <1>1, <2>1, <2>8, MoveKeepsIInv DEF Arrive, locals, Labels, Open, Inside
  <2>9. CASE CheckCount(t)
    <3>1. CASE Goto(t, "reset")
      BY <1>1, <2>1, <2>9, <3>1, MoveKeepsIInv
      DEF CheckCount, shared, Labels, Open, Inside
    <3>2. CASE LeaveBarrier(t)
      BY <1>1, <2>1, <2>9, <3>2, LeavingKeepsIInv DEF CheckCount, shared
    <3>3. QED
      BY <2>9, <3>1, <3>2 DEF CheckCount
  <2>10. CASE ResetBarrier(t)
    BY <1>1, <2>1, <2>10, LeavingKeepsIInv DEF ResetBarrier
  <2>11. CASE ReadReady(t)
    BY <1>1, <2>1, <2>11, ReadReadyKeepsIInv
  <2>12. CASE WriteReady(t)
    BY <1>1, <2>1, <2>12, WriteReadyKeepsIInv
  <2>13. CASE AwaitEndpoints(t)
    BY <1>1, <2>1, <2>13, AwaitEndpointsKeepsIInv
  <2>14. CASE TakeToken(t)
    BY <1>1, <2>1, <2>14, TakeTokenKeepsIInv
  <2>15. CASE PutToken(t)
    BY <1>1, <2>1, <2>15, PutTokenKeepsIInv
  <2>16. QED
    BY <1>3, <2>2, <2>3, <2>4, <2>5, <2>6, <2>7, <2>8, <2>9, <2>10, <2>11,
       <2>12, <2>13, <2>14, <2>15 DEF Step
<1>4. QED
  BY <1>1, <1>2, <1>3 DEF Next

\* The token of vlink_lock, zmq_lock and boost_lock is in the queue or with one
\* thread in its critical section, for any number of threads (vlink_lock.h:73-82).
THEOREM TokenConserved == Spec => []OneToken
<1>1. IInv => OneToken
  BY DEF IInv
<1>2. QED
  BY <1>1, InitIInv, StepKeepsIInv, PTL DEF Spec

\* Lost updates of ready can keep threads waiting, never let one of them into
\* the measured loop before all endpoints are open (vlink_lock.h:61-65).
THEOREM NobodyStartsEarly == Spec => []EndpointsReady
<1>1. IInv => EndpointsReady
  BY DEF IInv, AllOpen, Unopened, Open, Inside, EndpointsReady
<1>2. QED
  BY <1>1, InitIInv, StepKeepsIInv, PTL DEF Spec

-----------------------------------------------------------------------------
(* The marshalled start.  Its invariant needs nothing of the one above.    *)

Registered == {t \in Threads : pc[t] # "register"}
Announced  == {t \in Threads : pc[t] \notin {"register", "announce"} /\ core[t] # 0}

StartTyped ==
  /\ pc \in [Threads -> Labels]
  /\ core \in [Threads -> Nat]

\* sync_lock counts the registered threads twice; the start bit is set once,
\* after the marshal's wait.
WordCounts ==
  /\ syncLock \in {2 * Cardinality(Registered), 2 * Cardinality(Registered) + 1}
  /\ \A t \in Threads : pc[t] \in {"marshal", "begin"} =>
       syncLock = 2 * Cardinality(Registered)
  /\ readyLock = Cardinality(Announced)

\* Core numbers are handed out once, in order; number 0 makes the marshal.
CoresDistinct ==
  /\ \A t \in Registered : core[t] < Cardinality(Registered)
  /\ \A t, u \in Registered : core[t] = core[u] => t = u
  /\ \A t \in Threads : pc[t] \in {"marshal", "begin"} => core[t] = 0
  /\ \A t \in Threads : pc[t] \in {"announce", "await"} => core[t] # 0

Started ==
  \/ syncLock = 2 * Cardinality(Registered) + 1
  \/ \E t \in Threads : pc[t] = "begin" \/ ~Starting(t)

AllIn == Started => \A u \in Threads : pc[u] \notin {"register", "announce"}

StartInv == StartTyped /\ WordCounts /\ CoresDistinct /\ AllIn

LEMMA RegisteredFinite ==
  /\ IsFiniteSet(Registered) /\ Cardinality(Registered) \in Nat
  /\ IsFiniteSet(Announced) /\ Cardinality(Announced) \in Nat
BY ThreadsFinite DEF Registered, Announced

\* Past the start, a thread moves among the labels of the barrier and the loop.
LEMMA LaterMoveKeepsStartInv ==
  ASSUME StartInv, NEW t \in Threads, NEW label \in Labels, Goto(t, label),
         ~Starting(t),
         label \notin {"register", "announce", "marshal", "begin", "await"},
         UNCHANGED <<syncLock, readyLock, core>>
  PROVE  StartInv'
<1>1. \A u \in Threads \ {t} : pc'[u] = pc[u]
  BY DEF StartInv, StartTyped, Goto
<1>2. pc'[t] = label
  BY DEF StartInv, StartTyped, Goto
<1>3. StartTyped'
  BY DEF StartInv, StartTyped, Goto
<1>4. Registered' = Registered /\ Announced' = Announced
  BY <1>1, <1>2 DEF Registered, Announced, Starting
<1>5. \A u \in Threads : pc'[u] \in {"announce", "marshal", "begin", "await"} =>
        pc'[u] = pc[u]
  BY <1>1, <1>2
<1>6. WordCounts'
  BY <1>4, <1>5 DEF StartInv, WordCounts
<1>7. CoresDistinct'
  BY <1>4, <1>5 DEF StartInv, CoresDistinct
<1>8. AllIn'
  <2>1. \A u \in Threads : pc[u] \notin {"register", "announce"}
    BY DEF StartInv, AllIn, Started
  <2>2. QED
    BY <1>1, <1>2, <2>1 DEF AllIn
<1>9. QED
  BY <1>3, <1>6, <1>7, <1>8 DEF StartInv

\* Nobody registers once the start bit is set, so the word read is even and the
\* number read is one that nobody has.
LEMMA RegisterKeepsStartInv ==
  ASSUME StartInv, NEW t \in Threads, Register(t)
  PROVE  StartInv'
<1> DEFINE C == Cardinality(Registered)
<1>1. pc[t] = "register" /\ syncLock' = syncLock + 2 /\ readyLock' = readyLock
  BY DEF Register
<1>2. ~Started
  BY <1>1 DEF StartInv, AllIn
<1>3. C \in Nat /\ syncLock = 2 * C
  BY <1>2, RegisteredFinite DEF StartInv, WordCounts, Started
<1>4. core' = [core EXCEPT ![t] = C] /\ Goto(t, IF C = 0 THEN "marshal" ELSE "announce")
  <2>1. syncLock \div 2 = C
    BY <1>3
  <2>2. /\ core' = [core EXCEPT ![t] = syncLock \div 2]
        /\ Goto(t, IF syncLock \div 2 = 0 THEN "marshal" ELSE "announce")
    BY DEF Register
  <2>3. QED
    BY ONLY <2>1, <2>2
<1>5. \A u \in Threads \ {t} : pc'[u] = pc[u] /\ core'[u] = core[u]
  BY <1>4 DEF StartInv, StartTyped, Goto
<1>6. pc'[t] = (IF C = 0 THEN "marshal" ELSE "announce") /\ core'[t] = C
  BY <1>4 DEF StartInv, StartTyped, Goto
<1>7. StartTyped'
  <2>1. (IF C = 0 THEN "marshal" ELSE "announce") \in Labels
    BY DEF Labels
  <2>2. QED
    BY <1>3, <1>4, <2>1 DEF StartInv, StartTyped, Goto
<1>8. Registered' = Registered \cup {t} /\ t \notin Registered
  BY <1>1, <1>5, <1>6 DEF Registered
<1>9. Cardinality(Registered') = C + 1
  BY <1>8, RegisteredFinite, FS_AddElement
<1>10. Announced' = Announced
  BY <1>1, <1>5, <1>6 DEF Announced
<1>11. ASSUME NEW u \in Threads, pc[u] \in {"begin"} \/ ~Starting(u) PROVE FALSE
  BY <1>2, <1>11 DEF Started
<1>12. WordCounts'
  BY <1>1, <1>3, <1>9, <1>10 DEF StartInv, WordCounts
<1>13. CoresDistinct'
  <2>1. \A u \in Registered : core'[u] = core[u] /\ core[u] < C /\ core[u] \in Nat
    BY <1>5, <1>8 DEF StartInv, StartTyped, CoresDistinct, Registered
  <2>2. \A u \in Registered' : core'[u] < C + 1
    BY <1>3, <1>6, <1>8, <2>1
  <2>3. \A u, v \in Registered' : core'[u] = core'[v] => u = v
    BY <1>3, <1>6, <1>8, <2>1 DEF StartInv, CoresDistinct
  <2>4. \A u \in Threads : pc'[u] \in {"marshal", "begin"} => core'[u] = 0
    BY <1>5, <1>6 DEF StartInv, CoresDistinct
  <2>5. \A u \in Threads : pc'[u] \in {"announce", "await"} => core'[u] # 0
    BY <1>5, <1>6 DEF StartInv, CoresDistinct
  <2>6. QED
    BY <1>9, <2>2, <2>3, <2>4, <2>5 DEF CoresDistinct
<1>14. ~Started'
  <2>1. syncLock' # 2 * Cardinality(Registered') + 1
    BY <1>1, <1>3, <1>9
  <2>2. \A u \in Threads : pc'[u] # "begin" /\ Starting(u)'
    BY <1>5, <1>6, <1>11 DEF Starting
  <2>3. QED
    BY <2>1, <2>2 DEF Started
<1>15. QED
  BY <1>7, <1>12, <1>13, <1>14 DEF StartInv, AllIn

\* The marshal alone is not counted in ready_lock: when its wait ends, all the
\* others have announced themselves.
LEMMA AwaitReadyKeepsStartInv ==
  ASSUME StartInv, NEW t \in Threads, AwaitReady(t)
  PROVE  StartInv'
<1>1. pc[t] = "marshal" /\ Goto(t, "begin") /\ readyLock = NThreads - 1
  BY DEF AwaitReady
<1>2. UNCHANGED <<syncLock, readyLock, core>>
  BY DEF AwaitReady, shared, locals
<1>3. \A u \in Threads \ {t} : pc'[u] = pc[u]
  BY <1>1 DEF StartInv, StartTyped, Goto
<1>4. pc'[t] = "begin" /\ core[t] = 0
  BY <1>1 DEF StartInv, StartTyped, Goto, CoresDistinct
<1>5. StartTyped'
  BY <1>1, <1>2 DEF StartInv, StartTyped, Goto, Labels
<1>6. Registered' = Registered /\ Announced' = Announced
  BY <1>1, <1>2, <1>3, <1>4 DEF Registered, Announced
<1>7. WordCounts'
  BY <1>1, <1>2, <1>3, <1>6 DEF StartInv, WordCounts
<1>8. CoresDistinct'
  BY <1>1, <1>2, <1>3, <1>4, <1>6 DEF StartInv, CoresDistinct
<1>9. Announced = Threads \ {t}
  <2>1. IsFiniteSet(Threads \ {t}) /\ Cardinality(Threads \ {t}) = NThreads - 1
    BY ThreadsFinite, FS_RemoveElement
  <2>2. Announced \in SUBSET (Threads \ {t})
    BY <1>4 DEF Announced
  <2>3. Cardinality(Announced) = NThreads - 1
    BY <1>1 DEF StartInv, WordCounts
  <2>4. QED
    BY <2>1, <2>2, <2>3, FS_Subset
<1>10. \A u \in Threads \ {t} : pc[u] \notin {"register", "announce"}
  BY <1>9 DEF Announced
<1>11. AllIn'
  BY <1>3, <1>4, <1>10 DEF AllIn
<1>12. QED
  BY <1>5, <1>7, <1>8, <1>11 DEF StartInv

LEMMA BeginKeepsStartInv ==
  ASSUME StartInv, NEW t \in Threads, Begin(t)
  PROVE  StartInv'
<1>1. /\ pc[t] = "begin" /\ Goto(t, "sense") /\ syncLock' = syncLock + 1
      /\ UNCHANGED <<readyLock, core>>
  BY DEF Begin, locals
<1>2. \A u \in Threads \ {t} : pc'[u] = pc[u]
  BY <1>1 DEF StartInv, StartTyped, Goto
<1>3. pc'[t] = "sense" /\ core[t] = 0
  BY <1>1 DEF StartInv, StartTyped, Goto, CoresDistinct
<1>4. StartTyped'
  BY <1>1 DEF StartInv, StartTyped, Goto, Labels
<1>5. Registered' = Registered /\ Announced' = Announced
  BY <1>1, <1>2, <1>3 DEF Registered, Announced
<1>6. \A u \in Threads \ {t} : pc[u] \notin {"marshal", "begin"}
  BY <1>1, <1>3 DEF StartInv, CoresDistinct, Registered
<1>7. WordCounts'
  <2>1. syncLock = 2 * Cardinality(Registered)
    BY <1>1 DEF StartInv, WordCounts
  <2>2. syncLock' = 2 * Cardinality(Registered') + 1
    BY <1>1, <1>5, <2>1
  <2>3. \A u \in Threads : pc'[u] \notin {"marshal", "begin"}
    BY <1>2, <1>3, <1>6
  <2>4. readyLock' = Cardinality(Announced')
    BY <1>1, <1>5 DEF StartInv, WordCounts
  <2>5. QED
    BY <2>2, <2>3, <2>4 DEF WordCounts
<1>8. CoresDistinct'
  BY <1>1, <1>2, <1>3, <1>5 DEF StartInv, CoresDistinct
<1>9. \A u \in Threads : pc[u] \notin {"register", "announce"}
  BY <1>1 DEF StartInv, AllIn, Started
<1>10. AllIn'
  BY <1>2, <1>3, <1>9 DEF AllIn
<1>11. QED
  BY <1>4, <1>7, <1>8, <1>10 DEF StartInv

LEMMA AnnounceKeepsStartInv ==
  ASSUME StartInv, NEW t \in Threads, Announce(t)
  PROVE  StartInv'
<1>1. /\ pc[t] = "announce" /\ Goto(t, "await") /\ readyLock' = readyLock + 1
      /\ UNCHANGED <<syncLock, core>>
  BY DEF Announce, locals
<1>2. \A u \in Threads \ {t} : pc'[u] = pc[u]
  BY <1>1 DEF StartInv, StartTyped, Goto
<1>3. pc'[t] = "await" /\ core[t] # 0
  BY <1>1 DEF StartInv, StartTyped, Goto, CoresDistinct
<1>4. StartTyped'
  BY <1>1 DEF StartInv, StartTyped, Goto, Labels
<1>5. Registered' = Registered
  BY <1>1, <1>2, <1>3 DEF Registered
<1>6. Announced' = Announced \cup {t} /\ t \notin Announced
  BY <1>1, <1>2, <1>3 DEF Announced
<1>7. Cardinality(Announced') = Cardinality(Announced) + 1
  BY <1>6, RegisteredFinite, FS_AddElement
<1>8. WordCounts'
  BY <1>1, <1>2, <1>3, <1>5, <1>7 DEF StartInv, WordCounts
<1>9. CoresDistinct'
  BY <1>1, <1>2, <1>3, <1>5 DEF StartInv, CoresDistinct
<1>10. ~Started
  BY <1>1 DEF StartInv, AllIn
<1>11. ~Started'
  <2>1. \A u \in Threads : pc'[u] # "begin" /\ Starting(u)'
    BY <1>2, <1>3, <1>10 DEF Started, Starting
  <2>2. QED
    BY <1>1, <1>5, <1>10, <2>1 DEF Started
<1>12. QED
  BY <1>4, <1>8, <1>9, <1>11 DEF StartInv, AllIn

\* The word awaited is odd: only the marshal's write makes it so.
LEMMA AwaitStartKeepsStartInv ==
  ASSUME StartInv, NEW t \in Threads, AwaitStart(t)
  PROVE  StartInv'
<1>1. /\ pc[t] = "await" /\ Goto(t, "sense") /\ syncLock = 2 * NThreads + 1
      /\ UNCHANGED <<syncLock, readyLock, core>>
  BY DEF AwaitStart, shared, locals
<1>2. \A u \in Threads \ {t} : pc'[u] = pc[u]
  BY <1>1 DEF StartInv, StartTyped, Goto
<1>3. pc'[t] = "sense"
  BY <1>1 DEF StartInv, StartTyped, Goto
<1>4. StartTyped'
  BY <1>1 DEF StartInv, StartTyped, Goto, Labels
<1>5. Registered' = Registered /\ Announced' = Announced
  BY <1>1, <1>2, <1>3 DEF Registered, Announced
<1>6. WordCounts'
  BY <1>1, <1>2, <1>3, <1>5 DEF StartInv, WordCounts
<1>7. CoresDistinct'
  BY <1>1, <1>2, <1>3, <1>5 DEF StartInv, CoresDistinct
<1>8. Started
  BY <1>1, RegisteredFinite DEF StartInv, WordCounts, Started
<1>9. AllIn'
  BY <1>2, <1>3, <1>8 DEF StartInv, AllIn
<1>10. QED
  BY <1>4, <1>6, <1>7, <1>9 DEF StartInv

LEMMA InitStartInv == Init => StartInv
<1>1. SUFFICES ASSUME Init PROVE StartInv
  OBVIOUS
<1>2. pc = [t \in Threads |-> "register"] /\ core = [t \in Threads |-> 0]
  BY <1>1 DEF Init
<1>3. Registered = {} /\ Announced = {}
  BY <1>2 DEF Registered, Announced
<1>4. Cardinality({}) = 0
  BY FS_EmptySet
<1>5. WordCounts
  BY <1>1, <1>2, <1>3, <1>4 DEF Init, WordCounts
<1>6. StartTyped /\ CoresDistinct
  BY <1>2, <1>3 DEF StartTyped, CoresDistinct, Labels
<1>7. ~Started
  BY <1>1, <1>2, <1>3, <1>4 DEF Init, Started, Starting
<1>8. QED
  BY <1>5, <1>6, <1>7 DEF StartInv, AllIn

LEMMA StepKeepsStartInv == StartInv /\ [Next]_vars => StartInv'
<1>1. SUFFICES ASSUME StartInv, [Next]_vars PROVE StartInv'
  OBVIOUS
<1>2. CASE UNCHANGED vars
  BY <1>1, <1>2 DEF vars, shared, locals, StartInv, StartTyped, WordCounts,
                    CoresDistinct, AllIn, Started, Starting, Registered, Announced
<1>3. ASSUME NEW t \in Threads, Step(t) PROVE StartInv'
  <2> USE DEF Labels, Starting
  <2>1. CASE Register(t)
    BY <1>1, <2>1, RegisterKeepsStartInv
  <2>2. CASE AwaitReady(t)
    BY <1>1, <2>2, AwaitReadyKeepsStartInv
  <2>3. CASE Begin(t)
    BY <1>1, <2>3, BeginKeepsStartInv
  <2>4. CASE Announce(t)
    BY <1>1, <2>4, AnnounceKeepsStartInv
  <2>5. CASE AwaitStart(t)
    BY <1>1, <2>5, AwaitStartKeepsStartInv
  <2>6. CASE ReadSense(t)
    BY <1>1, <2>6, LaterMoveKeepsStartInv DEF ReadSense, shared
  <2>7. CASE Arrive(t)
    BY <1>1, <2>7, LaterMoveKeepsStartInv DEF Arrive, locals
  <2>8. CASE CheckCount(t)
    BY <1>1, <2>8, LaterMoveKeepsStartInv DEF CheckCount, LeaveBarrier, shared
  <2>9. CASE ResetBarrier(t)
    BY <1>1, <2>9, LaterMoveKeepsStartInv DEF ResetBarrier, LeaveBarrier
  <2>10. CASE ReadReady(t)
    BY <1>1, <2>10, LaterMoveKeepsStartInv DEF ReadReady, shared
  <2>11. CASE WriteReady(t)
    BY <1>1, <2>11, LaterMoveKeepsStartInv DEF WriteReady, locals
  <2>12. CASE AwaitEndpoints(t)
    BY <1>1, <2>12, LaterMoveKeepsStartInv DEF AwaitEndpoints, shared, locals
  <2>13. CASE TakeToken(t)
    BY <1>1, <2>13, LaterMoveKeepsStartInv DEF TakeToken, locals
  <2>14. CASE PutToken(t)
    BY <1>1, <2>14, LaterMoveKeepsStartInv DEF PutToken
  <2>15. QED
    BY <1>3, <2>1, <2>2, <2>3, <2>4, <2>5, <2>6, <2>7, <2>8, <2>9, <2>10,
       <2>11, <2>12, <2>13, <2>14 DEF Step
<1>4. QED
  BY <1>1, <1>2, <1>3 DEF Next

\* No thread starts to calibrate before every thread has registered under a
\* number of its own and reported ready (lockhammer.c:382-398, 454-457).
THEOREM StartsTogether == Spec => []StartTogether
<1>1. StartInv => StartTogether
  BY DEF StartInv, AllIn, Started, CoresDistinct, Registered, StartTogether
<1>2. QED
  BY <1>1, InitStartInv, StepKeepsStartInv, PTL DEF Spec

-----------------------------------------------------------------------------
(* The event mutex: mutual exclusion for any number of threads and rounds,   *)
(* with the swap and with the exclusives whose store may fail; and that two  *)
(* threads lose no wake-up, however many rounds they run, with the swap.     *)

USE EventAssumption

EventLabels == {"idle", "spin", "try", "readgen", "last", "parked", "cs", "signal",
           "bump"}

\* What WordTellsOwner needs of the types.
EventTyped == lock \in BOOLEAN /\ pc \in [Threads -> EventLabels]

\* The inductive invariant: the lock word is set exactly while one thread is in
\* its critical section.
Owned == EventTyped /\ WordTellsOwner

\* A thread that goes from one label to another, neither of them "cs", and
\* leaves the word alone, disturbs nothing.
LEMMA MoveKeepsOwned ==
  ASSUME Owned, NEW t \in Threads, NEW label \in EventLabels \ {"cs"},
         pc[t] # "cs", Goto(t, label), UNCHANGED lock
  PROVE  Owned'
<1>1. EventTyped'
  BY DEF Owned, EventTyped, Goto
<1>2. \A u \in Threads : pc'[u] = "cs" <=> pc[u] = "cs"
  BY DEF Owned, EventTyped, Goto, EventLabels
<1>3. WordTellsOwner'
  BY <1>2 DEF Owned, WordTellsOwner
<1>4. QED
  BY <1>1, <1>3 DEF Owned

\* try_lock, from any label but "cs": it wins only a free word, and a failed
\* swap leaves a locked word locked.
LEMMA TryLockKeepsOwned ==
  ASSUME Owned, NEW t \in Threads, NEW label \in EventLabels \ {"cs"},
         pc[t] # "cs", TryLock(t, label)
  PROVE  Owned'
<1>1. CASE ~lock /\ lock' = TRUE /\ Goto(t, "cs")
  <2>1. EventTyped'
    BY <1>1 DEF Owned, EventTyped, Goto, EventLabels
  <2>2. \A u \in Threads : pc[u] # "cs"
    BY <1>1 DEF Owned, WordTellsOwner
  <2>3. \A u \in Threads : pc'[u] = "cs" <=> u = t
    BY <1>1, <2>2 DEF Owned, EventTyped, Goto
  <2>4. WordTellsOwner'
    BY <1>1, <2>3 DEF WordTellsOwner
  <2>5. QED
    BY <2>1, <2>4 DEF Owned
<1>2. CASE UNCHANGED lock /\ Goto(t, label)
  BY <1>2, MoveKeepsOwned
<1>3. QED
  BY <1>1, <1>2 DEF TryLock

LEMMA InitOwned == EventInit => Owned
<1>1. SUFFICES ASSUME EventInit PROVE Owned
  OBVIOUS
<1>2. EventTyped
  BY <1>1 DEF EventInit, EventTyped, EventLabels
<1>3. \A t \in Threads : pc[t] = "idle"
  BY <1>1 DEF EventInit
<1>4. WordTellsOwner
  BY <1>1, <1>3 DEF EventInit, WordTellsOwner
<1>5. QED
  BY <1>2, <1>4 DEF Owned

LEMMA StepKeepsOwned == Owned /\ [EventNext]_eventVars => Owned'
<1>1. SUFFICES ASSUME Owned, [EventNext]_eventVars PROVE Owned'
  OBVIOUS
<1>2. CASE UNCHANGED eventVars
  BY <1>1, <1>2 DEF eventVars, Owned, EventTyped, WordTellsOwner
<1>3. ASSUME NEW t \in Threads, EventStep(t) PROVE Owned'
  <2>1. CASE Enter(t)
    BY <1>1, <2>1, TryLockKeepsOwned DEF Enter, EventLabels
  <2>2. CASE Spin(t)
    <3>1. (IF lock THEN "readgen" ELSE "try") \in EventLabels \ {"cs"}
      BY DEF EventLabels
    <3>2. QED
      BY <1>1, <2>2, <3>1, MoveKeepsOwned DEF Spin
  <2>3. CASE TryFree(t)
    BY <1>1, <2>3, TryLockKeepsOwned DEF TryFree, EventLabels
  <2>4. CASE ReadGeneration(t)
    BY <1>1, <2>4, MoveKeepsOwned DEF ReadGeneration, EventLabels
  <2>5. CASE LastTry(t)
    BY <1>1, <2>5, TryLockKeepsOwned DEF LastTry, EventLabels
  <2>6. CASE Wake(t)
    BY <1>1, <2>6, MoveKeepsOwned DEF Wake, EventLabels
  <2>7. CASE Unlock(t)
    <3>1. EventTyped'
      BY <1>1, <2>7 DEF Unlock, Owned, EventTyped, Goto, EventLabels
    <3>2. \A u \in Threads : pc[u] = "cs" => u = t
      BY <1>1, <2>7 DEF Unlock, Owned, WordTellsOwner
    <3>3. \A u \in Threads : pc'[u] # "cs"
      BY <1>1, <2>7, <3>2 DEF Unlock, Owned, EventTyped, Goto
    <3>4. WordTellsOwner'
      BY <2>7, <3>3 DEF Unlock, WordTellsOwner
    <3>5. QED
      BY <3>1, <3>4 DEF Owned
  <2>8. CASE ReadVersion(t)
    BY <1>1, <2>8, MoveKeepsOwned DEF ReadVersion, EventLabels
  <2>9. CASE WriteVersion(t)
    BY <1>1, <2>9, MoveKeepsOwned DEF WriteVersion, EventLabels
  <2>10. QED
    BY <1>3, <2>1, <2>2, <2>3, <2>4, <2>5, <2>6, <2>7, <2>8, <2>9 DEF EventStep
<1>4. QED
  BY <1>1, <1>2, <1>3 DEF EventNext

\* The lock word is set exactly while one thread owns the event mutex, whatever
\* the failed swaps of the waiters write (event_mutex.h:211-298).
THEOREM EventMutexExcludes == EventSpec => []WordTellsOwner
<1>1. Owned => WordTellsOwner
  BY DEF Owned
<1>2. QED
  BY <1>1, InitOwned, StepKeepsOwned, PTL DEF EventSpec

-----------------------------------------------------------------------------
(* Two threads on the event mutex.  What a third can do, and two cannot, is to release between  *)
(* the load and the store of another's lock_signal while somebody waits.     *)

Two == NThreads <= 2 /\ ~Exclusive

Waiting == {"spin", "try", "readgen", "last", "parked"}
Signalling == {"cs", "signal", "bump"}

Counts == /\ generation \in Int
          /\ waitState \in [Threads -> Int]
          /\ version \in [Threads -> Int]

\* A thread began to wait when the other owned the lock, and has not written the
\* generation since: what the other has read of it is not stale.
VersionFresh ==
  \A t, u \in Threads :
    t # u /\ pc[t] \in Waiting /\ pc[u] = "bump" => version[u] = generation

\* The generation a thread has seen does not lie ahead.
SeenBefore == \A t \in Threads : pc[t] \in {"last", "parked"} => waitState[t] <= generation

Woken == Owned /\ Counts /\ VersionFresh /\ SeenBefore /\ ParkedHasWaker

LEMMA OnlyTheOther ==
  ASSUME Two, NEW t \in Threads, NEW u \in Threads, NEW w \in Threads, t # u
  PROVE  w = t \/ w = u
  BY DEF Two, Threads

\* A swap fails only because the other thread owns the lock.
LEMMA FailedTry ==
  ASSUME Two, Owned, NEW t \in Threads, NEW label \in Waiting, pc[t] # "cs",
         TryLock(t, label), pc'[t] # "cs"
  PROVE  /\ UNCHANGED lock /\ Goto(t, label)
         /\ \E u \in Threads \ {t} : pc[u] = "cs"
<1>1. UNCHANGED lock /\ Goto(t, label) /\ lock
  BY DEF TryLock, Two, Owned, EventTyped, Goto
<1>2. QED
  BY <1>1 DEF Owned, WordTellsOwner

\* A step of a thread that touches neither the generation nor its own version,
\* and that waits afterwards only if it did before or the other is the owner.
LEMMA QuietStepKeepsWoken ==
  ASSUME Two, Woken, Owned', NEW t \in Threads, NEW label \in EventLabels \ {"bump"},
         Goto(t, label), UNCHANGED <<generation, version>>,
         waitState' \in [Threads -> Int],
         \A u \in Threads \ {t} : waitState'[u] = waitState[u],
         label \in Waiting => pc[t] \in Waiting \/ \E u \in Threads \ {t} : pc[u] = "cs",
         label \in {"last", "parked"} => waitState'[t] <= generation,
         label = "parked" => \E u \in Threads \ {t} : pc[u] = "cs",
         pc[t] \in Signalling => label \in Signalling
  PROVE  Woken'
<1>1. Counts'
  BY DEF Woken, Counts
<1>2. pc'[t] = label /\ \A u \in Threads \ {t} : pc'[u] = pc[u]
  BY DEF Goto, Woken, Owned, EventTyped
<1>3. VersionFresh'
  <2>1. SUFFICES ASSUME NEW a \in Threads, NEW b \in Threads, a # b,
                        pc'[a] \in Waiting, pc'[b] = "bump"
                 PROVE  version[b] = generation
    BY DEF VersionFresh
  <2>2. b # t /\ pc[b] = "bump"
    BY <1>2, <2>1 DEF EventLabels
  <2>3. pc[a] \in Waiting
    BY <1>2, <2>1, <2>2, OnlyTheOther
  <2>4. QED
    BY <2>1, <2>2, <2>3 DEF Woken, VersionFresh
<1>4. SeenBefore'
  BY <1>2 DEF Woken, SeenBefore
<1>5. ParkedHasWaker'
  <2>1. SUFFICES ASSUME NEW a \in Threads, pc'[a] = "parked"
                 PROVE  \/ generation # waitState'[a]
                        \/ \E u \in Threads \ {a} : pc'[u] \in Signalling
    BY DEF ParkedHasWaker, Signalling
  <2>2. CASE a = t
    BY <1>2, <2>1, <2>2 DEF Signalling
  <2>3. CASE a # t
    <3>1. \/ generation # waitState[a]
          \/ \E u \in Threads \ {a} : pc[u] \in Signalling
      BY <1>2, <2>1, <2>3 DEF Woken, ParkedHasWaker, Signalling
    <3>2. QED
      BY <1>2, <2>3, <3>1
  <2>4. QED
    BY <2>2, <2>3
<1>6. QED
  BY <1>1, <1>3, <1>4, <1>5 DEF Woken

LEMMA TryLockKeepsWoken ==
  ASSUME Two, Woken, Owned', NEW t \in Threads, NEW label \in Waiting,
         pc[t] \in {"idle", "try", "last"}, TryLock(t, label),
         UNCHANGED <<generation, waitState, version>>,
         label \in {"last", "parked"} => pc[t] = "last"
  PROVE  Woken'
<1>1. CASE lock' = TRUE /\ Goto(t, "cs")
  BY <1>1, QuietStepKeepsWoken DEF EventLabels, Waiting, Signalling, Woken, Counts
<1>2. CASE pc'[t] # "cs"
  <2>1. /\ UNCHANGED lock /\ Goto(t, label)
        /\ \E u \in Threads \ {t} : pc[u] = "cs"
    BY <1>2, FailedTry DEF Woken
  <2>2. label \in {"last", "parked"} => waitState'[t] <= generation
    BY DEF Woken, SeenBefore
  <2>3. QED
    BY <2>1, <2>2, QuietStepKeepsWoken DEF EventLabels, Waiting, Signalling, Woken, Counts
<1>3. QED
  BY <1>1, <1>2 DEF TryLock, Goto, Waiting, Woken, Owned, EventTyped

LEMMA InitWoken == EventInit => Woken
<1>1. SUFFICES ASSUME EventInit PROVE Woken
  OBVIOUS
<1>2. Counts
  BY <1>1 DEF EventInit, Counts
<1>3. \A t \in Threads : pc[t] = "idle"
  BY <1>1 DEF EventInit
<1>4. VersionFresh /\ SeenBefore /\ ParkedHasWaker
  BY <1>3 DEF VersionFresh, SeenBefore, ParkedHasWaker, Waiting
<1>5. QED
  BY <1>1, <1>2, <1>4, InitOwned DEF Woken

\* The generation moves on by one, past what the other thread has seen.
LEMMA WriteKeepsWoken ==
  ASSUME Two, Woken, Owned', NEW t \in Threads, WriteVersion(t)
  PROVE  Woken'
<1>1. Counts'
  BY DEF Woken, Counts, WriteVersion
<1>2. pc[t] = "bump" /\ pc'[t] = "idle" /\ \A u \in Threads \ {t} : pc'[u] = pc[u]
  BY DEF WriteVersion, Goto, Woken, Owned, EventTyped
<1>3. ASSUME NEW u \in Threads \ {t}, pc[u] \in Waiting
      PROVE  generation' = generation + 1
  BY <1>2, <1>3 DEF Woken, VersionFresh, WriteVersion
<1>4. VersionFresh'
  BY <1>2, OnlyTheOther DEF VersionFresh, Waiting
<1>5. \A u \in Threads : pc'[u] \in {"last", "parked"} =>
        waitState'[u] <= generation /\ generation' = generation + 1
  BY <1>2, <1>3 DEF Woken, SeenBefore, WriteVersion, Waiting
<1>6. SeenBefore' /\ ParkedHasWaker'
  BY <1>1, <1>5 DEF SeenBefore, ParkedHasWaker, Counts, Woken
<1>7. QED
  BY <1>1, <1>4, <1>6 DEF Woken

LEMMA ReadKeepsWoken ==
  ASSUME Two, Woken, Owned', NEW t \in Threads, ReadVersion(t)
  PROVE  Woken'
<1>1. Counts'
  BY DEF Woken, Counts, ReadVersion
<1>2. /\ pc[t] = "signal" /\ pc'[t] = "bump" /\ version'[t] = generation
      /\ \A u \in Threads \ {t} : pc'[u] = pc[u] /\ version'[u] = version[u]
  BY DEF ReadVersion, Goto, Woken, Owned, EventTyped, Counts
<1>3. VersionFresh'
  BY <1>2 DEF Woken, VersionFresh, ReadVersion, Waiting
<1>4. SeenBefore'
  BY <1>2 DEF Woken, SeenBefore, ReadVersion
<1>5. ParkedHasWaker'
  BY <1>2 DEF Woken, ParkedHasWaker, ReadVersion
<1>6. QED
  BY <1>1, <1>3, <1>4, <1>5 DEF Woken

LEMMA StepKeepsWoken == Two /\ Woken /\ [EventNext]_eventVars => Woken'
<1>1. SUFFICES ASSUME Two, Woken, [EventNext]_eventVars PROVE Woken'
  OBVIOUS
<1>2. Owned'
  BY <1>1, StepKeepsOwned DEF Woken
<1>3. CASE UNCHANGED eventVars
  BY <1>1, <1>2, <1>3 DEF eventVars, Woken, Counts, VersionFresh, SeenBefore, ParkedHasWaker
<1>4. ASSUME NEW t \in Threads, EventStep(t) PROVE Woken'
  <2>0. pc[t] \in EventLabels /\ Counts
    BY <1>1 DEF Woken, Owned, EventTyped
  <2>1. CASE Enter(t)
    BY <1>1, <1>2, <2>1, TryLockKeepsWoken DEF Enter, Waiting
  <2>2. CASE Spin(t)
    <3>1. (IF lock THEN "readgen" ELSE "try") \in EventLabels \ {"bump", "last", "parked"}
      BY DEF EventLabels
    <3>2. QED
      BY <1>1, <1>2, <2>0, <2>2, <3>1, QuietStepKeepsWoken DEF Spin, Waiting, Signalling, Counts
  <2>3. CASE TryFree(t)
    BY <1>1, <1>2, <2>3, TryLockKeepsWoken DEF TryFree, Waiting
  <2>4. CASE ReadGeneration(t)
    BY <1>1, <1>2, <2>0, <2>4, QuietStepKeepsWoken
       DEF ReadGeneration, EventLabels, Waiting, Signalling, Counts
  <2>5. CASE LastTry(t)
    BY <1>1, <1>2, <2>5, TryLockKeepsWoken DEF LastTry, Waiting
  <2>6. CASE Wake(t)
    BY <1>1, <1>2, <2>0, <2>6, QuietStepKeepsWoken
       DEF Wake, EventLabels, Waiting, Signalling, Counts
  <2>7. CASE Unlock(t)
    BY <1>1, <1>2, <2>0, <2>7, QuietStepKeepsWoken
       DEF Unlock, EventLabels, Waiting, Signalling, Counts
  <2>8. CASE ReadVersion(t)
    BY <1>1, <1>2, <2>8, ReadKeepsWoken
  <2>9. CASE WriteVersion(t)
    BY <1>1, <1>2, <2>9, WriteKeepsWoken
  <2>10. QED
    BY <1>4, <2>1, <2>2, <2>3, <2>4, <2>5, <2>6, <2>7, <2>8, <2>9 DEF EventStep
<1>5. QED
  BY <1>1, <1>3, <1>4 DEF EventNext

\* Two threads with the swap never leave one waiting for a generation that
\* nobody will change, in any number of rounds: the last try of
\* spin_and_try_lock (event_mutex.h:275-284) is enough for them.
THEOREM TwoLoseNoWakeup == Two /\ EventSpec => []ParkedHasWaker
<1>1. Woken => ParkedHasWaker
  BY DEF Woken
<1>2. Two /\ Woken /\ [EventNext]_eventVars => Woken'
  BY StepKeepsWoken
<1>3. ASSUME Two PROVE EventSpec => []ParkedHasWaker
  <2>1. Woken /\ [EventNext]_eventVars => Woken'
    BY <1>3, <1>2
  <2>2. QED
    BY <1>1, <2>1, InitWoken, PTL DEF EventSpec
<1>4. QED
  BY <1>3

-----------------------------------------------------------------------------
(* The ticket spinlock excludes and is fair for any number of threads, any  *)
(* stride and any width of the ticket fields that has room for the threads. *)

USE TicketAssumption

Field == 0 .. Width - 1

-----------------------------------------------------------------------------
(* Tickets modulo the width of their field.                                *)

\* What a field holds after a sum is stored into it.
Wrap(x) == x % Width

\* The ticket i places behind s.
Behind(s, i) == Wrap(s + i * Stride)

LEMMA WrapOnce ==
  ASSUME NEW x \in 0 .. 2 * Width - 1
  PROVE  Wrap(x) = IF x < Width THEN x ELSE x - Width
<1>1. x % Width \in Field /\ x = Width * (x \div Width) + (x % Width)
  BY DEF Field
<1>2. x \div Width \in {0, 1}
  BY <1>1 DEF Field
<1>3. QED
  BY <1>1, <1>2 DEF Field, Wrap

\* The tickets of all threads fit into the field.
LEMMA TicketsFit ==
  ASSUME NEW i \in 0 .. NThreads - 1
  PROVE  i * Stride \in 0 .. Width - Stride /\ (i + 1) * Stride = i * Stride + Stride
<1>1. i * Stride \in Nat /\ (i + 1) * Stride = i * Stride + Stride
  OBVIOUS
<1>2. NThreads - (i + 1) \in Nat
  OBVIOUS
<1>3. (NThreads - (i + 1)) * Stride \in Nat
  BY <1>2
<1>4. NThreads * Stride = (i + 1) * Stride + (NThreads - (i + 1)) * Stride
  OBVIOUS
<1>5. NThreads * Stride <= Width
  OBVIOUS
<1>6. QED
  BY <1>1, <1>3, <1>4, <1>5

\* Places that differ have tickets that differ.
LEMMA TicketsDistinct ==
  ASSUME NEW s \in Field, NEW i \in 0 .. NThreads - 1, NEW j \in 0 .. NThreads - 1,
         Behind(s, i) = Behind(s, j)
  PROVE  i = j
<1>1. i * Stride \in 0 .. Width - Stride /\ j * Stride \in 0 .. Width - Stride
  BY TicketsFit
<1>2. s + i * Stride \in 0 .. 2 * Width - 1 /\ s + j * Stride \in 0 .. 2 * Width - 1
  BY <1>1 DEF Field
<1>3. i * Stride = j * Stride
  BY <1>1, <1>2, WrapOnce DEF Behind, Field
<1>4. (i - j) * Stride = 0
  BY <1>3
<1>5. QED
  BY <1>4

\* The next ticket drawn, and the tickets seen from the next one served.
LEMMA NextTicket ==
  ASSUME NEW s \in Field, NEW i \in 0 .. NThreads - 1
  PROVE  /\ Plus(Behind(s, i)) = Behind(s, i + 1)
         /\ Behind(Plus(s), i) = Behind(s, i + 1)
         /\ Behind(s, i) \in Field /\ Plus(s) \in Field
<1> DEFINE p == i * Stride
<1>1. p \in 0 .. Width - Stride /\ (i + 1) * Stride = p + Stride
  BY TicketsFit
<1>2. /\ Behind(s, i) = Wrap(s + p)
      /\ Behind(Plus(s), i) = Wrap(Wrap(s + Stride) + p)
      /\ Plus(Behind(s, i)) = Wrap(Wrap(s + p) + Stride)
      /\ Plus(s) = Wrap(s + Stride)
  BY DEF Behind, Plus, Wrap
<1> HIDE DEF p
<1>3. Behind(s, i + 1) = Wrap(s + p + Stride)
  <2>1. s + (p + Stride) = s + p + Stride
    BY <1>1 DEF Field
  <2>2. QED
    BY <1>1, <2>1 DEF Behind
<1>4. /\ s + p \in 0 .. 2 * Width - 1 /\ s + Stride \in 0 .. 2 * Width - 1
      /\ s + p + Stride \in 0 .. 2 * Width - 1
  BY <1>1 DEF Field
<1>5. /\ Wrap(s + p) = IF s + p < Width THEN s + p ELSE s + p - Width
      /\ Wrap(s + Stride) = IF s + Stride < Width THEN s + Stride ELSE s + Stride - Width
      /\ Wrap(s + p + Stride) =
           IF s + p + Stride < Width THEN s + p + Stride ELSE s + p + Stride - Width
  <2>1. Wrap(s + p) = IF s + p < Width THEN s + p ELSE s + p - Width
    BY <1>1, <1>4, WrapOnce DEF Field
  <2>2. Wrap(s + Stride) = IF s + Stride < Width THEN s + Stride ELSE s + Stride - Width
    BY <1>1, <1>4, WrapOnce DEF Field
  <2>3. Wrap(s + p + Stride) =
          IF s + p + Stride < Width THEN s + p + Stride ELSE s + p + Stride - Width
    BY <1>1, <1>4, WrapOnce DEF Field
  <2>4. QED
    BY <2>1, <2>2, <2>3
<1>6. Wrap(Wrap(s + p) + Stride) = Wrap(s + p + Stride)
  <2>1. CASE s + p < Width
    BY <1>5, <2>1
  <2>2. CASE ~(s + p < Width)
    <3>1. s + p - Width + Stride \in 0 .. 2 * Width - 1 /\ s + p - Width + Stride < Width
      BY <1>1, <1>4, <2>2 DEF Field
    <3>2. Wrap(s + p - Width + Stride) = s + p - Width + Stride
      BY <3>1, WrapOnce
    <3>3. QED
      BY <1>1, <1>4, <1>5, <2>2, <3>2 DEF Field
  <2>3. QED
    BY <2>1, <2>2
<1>7. Wrap(Wrap(s + Stride) + p) = Wrap(s + p + Stride)
  <2>1. CASE s + Stride < Width
    <3>1. s + Stride + p = s + p + Stride
      BY <1>1 DEF Field
    <3>2. QED
      BY <1>5, <2>1, <3>1
  <2>2. CASE ~(s + Stride < Width)
    <3>1. s + Stride - Width + p \in 0 .. 2 * Width - 1 /\ s + Stride - Width + p < Width
      BY <1>1, <1>4, <2>2 DEF Field
    <3>2. Wrap(s + Stride - Width + p) = s + Stride - Width + p
      BY <3>1, WrapOnce
    <3>3. QED
      BY <1>1, <1>4, <1>5, <2>2, <3>2 DEF Field
  <2>3. QED
    BY <2>1, <2>2
<1>8. Behind(s, i) \in Field /\ Plus(s) \in Field
  BY <1>1, <1>2, <1>4, <1>5 DEF Field
<1>9. QED
  BY <1>2, <1>3, <1>6, <1>7, <1>8

\* The ticket no place behind s is s.
LEMMA NoPlaceBehind == \A s \in Field : Behind(s, 0) = s
BY WrapOnce DEF Behind, Field

-----------------------------------------------------------------------------
(* The inductive invariant.                                                *)

TicketLabels == {"idle", "wait", "cs", "unlock"}

TicketTyped ==
  /\ ticket \in Field /\ serving \in Field
  /\ pc \in [Threads -> TicketLabels]
  /\ mine \in [Threads -> Field] /\ read \in [Threads -> Field]
  /\ depth \in [Threads -> Nat]
  /\ queue \in Seq(Threads)

\* The line holds each thread that is not idle, once.
LineExact ==
  /\ \A i, j \in 1 .. Len(queue) : queue[i] = queue[j] => i = j
  /\ \A t \in Threads : pc[t] # "idle" <=> \E i \in 1 .. Len(queue) : queue[i] = t

\* Tickets follow one another from the one being served.
TicketsInLine ==
  /\ ticket = Behind(serving, Len(queue))
  /\ \A i \in 1 .. Len(queue) : mine[queue[i]] = Behind(serving, i - 1)

\* Only the first of the line may hold the lock, and what it has read for its
\* release is current: nobody else writes the field.
FirstHolds ==
  /\ \A t \in Threads : Holds(t) => queue # <<>> /\ queue[1] = t
  /\ \A t \in Threads : pc[t] = "unlock" => read[t] = serving

TicketInv == TicketTyped /\ LineExact /\ TicketsInLine /\ FirstHolds

\* An injective line is no longer than its set is large.
LEMMA LineBounded ==
  ASSUME NEW T, IsFiniteSet(T), NEW n \in Nat, NEW q \in [1 .. n -> T],
         \A i, j \in 1 .. n : q[i] = q[j] => i = j
  PROVE  n <= Cardinality(T)
<1>1. q \in Injection(1 .. n, T)
  BY DEF Injection, IsInjective
<1>2. Cardinality(1 .. n) = n
  BY FS_Interval
<1>3. QED
  BY <1>1, <1>2, FS_Injection

LEMMA LineFits ==
  ASSUME TicketInv
  PROVE  /\ Len(queue) \in 0 .. NThreads
         /\ \A t \in Threads : pc[t] = "idle" => Len(queue) \in 0 .. NThreads - 1
<1>1. Len(queue) \in Nat /\ queue \in [1 .. Len(queue) -> Threads]
  BY LenProperties DEF TicketInv, TicketTyped
<1>2. \A i, j \in 1 .. Len(queue) : queue[i] = queue[j] => i = j
  BY DEF TicketInv, LineExact
<1>3. IsFiniteSet(Threads) /\ Cardinality(Threads) = NThreads
  BY FS_Interval DEF Threads
<1>4. Len(queue) <= NThreads
  BY <1>1, <1>2, <1>3, LineBounded
<1>5. ASSUME NEW t \in Threads, pc[t] = "idle" PROVE Len(queue) <= NThreads - 1
  <2>1. queue \in [1 .. Len(queue) -> Threads \ {t}]
    <3>1. \A i \in 1 .. Len(queue) : queue[i] # t
      BY <1>5 DEF TicketInv, LineExact
    <3>2. QED
      BY <1>1, <3>1
  <2>2. IsFiniteSet(Threads \ {t}) /\ Cardinality(Threads \ {t}) = NThreads - 1
    BY <1>3, FS_RemoveElement
  <2>3. QED
    BY <1>1, <1>2, <2>1, <2>2, LineBounded
<1>6. QED
  BY <1>1, <1>4, <1>5

\* The first in the line is served at once exactly when the line is empty.
LEMMA ServedAtOnce ==
  ASSUME TicketInv, NEW t \in Threads, pc[t] = "idle"
  PROVE  ticket = serving <=> queue = <<>>
<1>1. Len(queue) \in 0 .. NThreads - 1
  BY LineFits
<1>2. serving \in Field /\ ticket = Behind(serving, Len(queue)) /\ serving = Behind(serving, 0)
  BY NoPlaceBehind DEF TicketInv, TicketTyped, TicketsInLine
<1>3. ticket = serving <=> Len(queue) = 0
  BY <1>1, <1>2, TicketsDistinct
<1>4. Len(queue) = 0 <=> queue = <<>>
  BY EmptySeq DEF TicketInv, TicketTyped
<1>5. QED
  BY <1>3, <1>4

\* Whoever sees its own ticket served stands first.
LEMMA ServedIsFirst ==
  ASSUME TicketInv, NEW t \in Threads, pc[t] = "wait", serving = mine[t]
  PROVE  queue # <<>> /\ queue[1] = t
<1>1. PICK i \in 1 .. Len(queue) : queue[i] = t
  BY DEF TicketInv, LineExact
<1>2. Len(queue) \in 0 .. NThreads
  BY LineFits
<1>3. Behind(serving, i - 1) = Behind(serving, 0) /\ serving \in Field
  BY <1>1, NoPlaceBehind DEF TicketInv, TicketTyped, TicketsInLine
<1>4. i - 1 \in 0 .. NThreads - 1
  BY <1>2
<1>5. i = 1
  BY <1>3, <1>4, TicketsDistinct
<1>6. queue # <<>>
  BY <1>1
<1>7. QED
  BY <1>1, <1>5, <1>6

-----------------------------------------------------------------------------
(* Every step keeps the invariant.                                         *)

\* A contention estimate is a number.
LEMMA DepthTyped == \A drawn, served \in Field : DepthOf(drawn, served) \in Nat
<1>1. ASSUME NEW drawn \in Field, NEW served \in Field
      PROVE  (drawn - served) % Width \in Nat
  BY DEF Field
<1>2. \A n \in Nat : n \div 4 \in Nat
  OBVIOUS
<1>3. QED
  BY <1>1, <1>2 DEF DepthOf

LEMMA InitTicketInv == TicketInit => TicketInv
<1>1. SUFFICES ASSUME TicketInit PROVE TicketInv
  OBVIOUS
<1>2. 0 \in Field /\ Behind(0, 0) = 0
  BY NoPlaceBehind DEF Field
<1>3. queue = <<>> /\ Len(queue) = 0 /\ queue \in Seq(Threads)
  BY <1>1, EmptySeq DEF TicketInit
<1>4. TicketTyped
  BY <1>1, <1>2, <1>3 DEF TicketInit, TicketTyped, TicketLabels
<1>5. LineExact /\ TicketsInLine /\ FirstHolds
  BY <1>1, <1>2, <1>3 DEF TicketInit, LineExact, TicketsInLine, FirstHolds, Holds
<1>6. QED
  BY <1>4, <1>5 DEF TicketInv

LEMMA DrawTicketKeepsIInv ==
  ASSUME TicketInv, NEW t \in Threads, DrawTicket(t)
  PROVE  TicketInv'
<1> DEFINE n == Len(queue)
<1>1. /\ pc[t] = "idle"
      /\ mine' = [mine EXCEPT ![t] = ticket] /\ ticket' = Plus(ticket)
      /\ queue' = Append(queue, t)
      /\ Goto(t, IF ticket = serving THEN "cs" ELSE "wait")
      /\ UNCHANGED <<serving, read>>
  BY DEF DrawTicket
<1>2. n \in 0 .. NThreads - 1 /\ serving \in Field /\ ticket \in Field
  BY <1>1, LineFits DEF TicketInv, TicketTyped
<1>3. /\ queue' \in Seq(Threads) /\ Len(queue') = n + 1
      /\ \A i \in 1 .. n : queue'[i] = queue[i]
      /\ queue'[n + 1] = t
      /\ queue' # <<>>
  <2>1. queue \in Seq(Threads)
    BY DEF TicketInv, TicketTyped
  <2>2. /\ Append(queue, t) \in Seq(Threads) /\ Len(Append(queue, t)) = n + 1
        /\ \A i \in 1 .. n : Append(queue, t)[i] = queue[i]
        /\ Append(queue, t)[n + 1] = t
        /\ Append(queue, t) # <<>>
    BY <2>1, AppendProperties
  <2>3. queue' = Append(queue, t)
    BY <1>1
  <2>4. QED
    BY ONLY <2>2, <2>3
<1>4. Plus(Behind(serving, n)) = Behind(serving, n + 1) /\ Plus(ticket) \in Field
  BY <1>2, NextTicket
<1>5. \A i \in 1 .. n : queue[i] \in Threads /\ queue[i] # t
  <2>1. \A i \in 1 .. n : queue[i] # t
    BY <1>1 DEF TicketInv, LineExact
  <2>2. queue \in [1 .. n -> Threads]
    BY LenProperties DEF TicketInv, TicketTyped
  <2>3. QED
    BY <2>1, <2>2
<1>6. \A u \in Threads \ {t} : pc'[u] = pc[u] /\ mine'[u] = mine[u]
  BY <1>1 DEF TicketInv, TicketTyped, Goto
<1>7. pc'[t] \in {"cs", "wait"} /\ mine'[t] = ticket /\ (pc'[t] = "cs" => queue = <<>>)
  BY <1>1, ServedAtOnce DEF TicketInv, TicketTyped, Goto
<1>8. TicketTyped'
  <2>1. depth' \in [Threads -> Nat]
    <3>1. DepthOf(ticket, serving) \in Nat
      BY <1>2, DepthTyped
    <3>2. depth' = [depth EXCEPT ![t] = DepthOf(ticket, serving)]
      BY DEF DrawTicket
    <3>3. QED
      BY <3>1, <3>2 DEF TicketInv, TicketTyped
  <2>2. pc' \in [Threads -> TicketLabels]
    BY <1>1 DEF TicketInv, TicketTyped, Goto, TicketLabels
  <2>3. mine' \in [Threads -> Field] /\ read' \in [Threads -> Field]
    BY <1>1, <1>2 DEF TicketInv, TicketTyped
  <2>4. QED
    BY <1>1, <1>2, <1>3, <1>4, <2>1, <2>2, <2>3 DEF TicketTyped
<1>9. LineExact'
  <2>1. \A i, j \in 1 .. n + 1 : queue'[i] = queue'[j] => i = j
    <3>1. \A i, j \in 1 .. n : queue[i] = queue[j] => i = j
      BY DEF TicketInv, LineExact
    <3>2. \A i \in 1 .. n + 1 : i \in 1 .. n \/ i = n + 1
      BY <1>2
    <3>3. QED
      BY <1>3, <1>5, <3>1, <3>2
  <2>2. ASSUME NEW u \in Threads
        PROVE  pc'[u] # "idle" <=> \E i \in 1 .. n + 1 : queue'[i] = u
    <3>1. CASE u = t
      <4>1. n + 1 \in 1 .. n + 1
        BY <1>2
      <4>2. QED
        BY <1>3, <1>7, <3>1, <4>1
    <3>2. CASE u # t
      <4>1. (\E i \in 1 .. n : queue[i] = u) <=> \E i \in 1 .. n + 1 : queue'[i] = u
        BY <1>2, <1>3, <3>2
      <4>2. pc[u] # "idle" <=> \E i \in 1 .. n : queue[i] = u
        BY DEF TicketInv, LineExact
      <4>3. QED
        BY <1>6, <3>2, <4>1, <4>2
    <3>3. QED
      BY <3>1, <3>2
  <2>3. QED
    BY <1>3, <2>1, <2>2 DEF LineExact
<1>10. TicketsInLine'
  <2>1. ticket = Behind(serving, n)
    BY DEF TicketInv, TicketsInLine
  <2>2. ASSUME NEW i \in 1 .. n + 1 PROVE mine'[queue'[i]] = Behind(serving, i - 1)
    <3>1. CASE i \in 1 .. n
      <4>1. mine[queue[i]] = Behind(serving, i - 1)
        BY <3>1 DEF TicketInv, TicketsInLine
      <4>2. QED
        BY <1>3, <1>5, <1>6, <3>1, <4>1
    <3>2. CASE i = n + 1
      <4>1. i - 1 = n
        BY <1>2, <3>2
      <4>2. QED
        BY <1>3, <1>7, <2>1, <3>2, <4>1
    <3>3. QED
      BY <1>2, <3>1, <3>2
  <2>3. ticket' = Behind(serving, n + 1)
    BY <1>1, <1>4, <2>1
  <2>4. serving' = serving
    BY <1>1
  <2>5. QED
    BY <1>3, <2>2, <2>3, <2>4 DEF TicketsInLine
<1>11. FirstHolds'
  <2>1. \A u \in Threads \ {t} : Holds(u) => queue # <<>> /\ queue[1] = u
    BY DEF TicketInv, FirstHolds
  <2>2. queue # <<>> => n \in Nat \ {0}
    BY EmptySeq DEF TicketInv, TicketTyped
  <2>3. queue # <<>> => queue'[1] = queue[1]
    BY <1>3, <2>2
  <2>4. queue = <<>> => n = 0
    BY EmptySeq
  <2>5. queue = <<>> => queue'[1] = t
    BY <1>3, <2>4
  <2>6. \A u \in Threads : Holds(u)' => queue' # <<>> /\ queue'[1] = u
    BY <1>3, <1>6, <1>7, <2>1, <2>3, <2>5 DEF Holds
  <2>7. \A u \in Threads : pc'[u] = "unlock" => read'[u] = serving'
    BY <1>1, <1>6, <1>7 DEF TicketInv, FirstHolds
  <2>8. QED
    BY <2>6, <2>7 DEF FirstHolds
<1>12. QED
  BY <1>8, <1>9, <1>10, <1>11 DEF TicketInv

\* A thread that stands first moves on without leaving the line.
LEMMA FirstMovesOn ==
  ASSUME TicketInv, NEW t \in Threads, NEW label \in {"cs", "unlock"}, Goto(t, label),
         queue # <<>>, queue[1] = t, pc[t] # "idle",
         UNCHANGED <<ticket, serving, mine, depth, queue>>,
         read' \in [Threads -> Field], \A u \in Threads \ {t} : read'[u] = read[u],
         label = "unlock" => read'[t] = serving
  PROVE  TicketInv'
<1>1. \A u \in Threads \ {t} : pc'[u] = pc[u]
  BY DEF TicketInv, TicketTyped, Goto
<1>2. pc'[t] = label
  BY DEF TicketInv, TicketTyped, Goto
<1>3. TicketTyped'
  BY DEF TicketInv, TicketTyped, Goto, TicketLabels
<1>4. LineExact'
  BY <1>1, <1>2 DEF TicketInv, LineExact
<1>5. TicketsInLine'
  BY DEF TicketInv, TicketsInLine, Behind, Wrap
<1>6. FirstHolds'
  BY <1>1, <1>2 DEF TicketInv, FirstHolds, Holds
<1>7. QED
  BY <1>3, <1>4, <1>5, <1>6 DEF TicketInv

LEMMA AwaitTurnKeepsIInv ==
  ASSUME TicketInv, NEW t \in Threads, AwaitTurn(t)
  PROVE  TicketInv'
<1>1. /\ pc[t] = "wait" /\ serving = mine[t] /\ Goto(t, "cs")
      /\ UNCHANGED <<ticket, serving, mine, depth, queue, read>>
  BY DEF AwaitTurn
<1>2. queue # <<>> /\ queue[1] = t
  BY <1>1, ServedIsFirst
<1>3. read' \in [Threads -> Field] /\ \A u \in Threads \ {t} : read'[u] = read[u]
  BY <1>1 DEF TicketInv, TicketTyped
<1>4. QED
  BY <1>1, <1>2, <1>3, FirstMovesOn

LEMMA LoadServingKeepsIInv ==
  ASSUME TicketInv, NEW t \in Threads, LoadServing(t)
  PROVE  TicketInv'
<1>1. /\ pc[t] = "cs" /\ Goto(t, "unlock") /\ read' = [read EXCEPT ![t] = serving]
      /\ UNCHANGED <<ticket, serving, mine, depth, queue>>
  BY DEF LoadServing
<1>2. queue # <<>> /\ queue[1] = t
  BY <1>1 DEF TicketInv, FirstHolds, Holds
<1>3. /\ read' \in [Threads -> Field] /\ \A u \in Threads \ {t} : read'[u] = read[u]
      /\ read'[t] = serving
  BY <1>1 DEF TicketInv, TicketTyped
<1>4. QED
  BY <1>1, <1>2, <1>3, FirstMovesOn

\* The line without its first: each ticket is one place nearer.
LEMMA StoreServingKeepsIInv ==
  ASSUME TicketInv, NEW t \in Threads, StoreServing(t)
  PROVE  TicketInv'
<1> DEFINE n == Len(queue)
<1>1. /\ pc[t] = "unlock" /\ serving' = Plus(read[t]) /\ queue' = Tail(queue)
      /\ mine' = [mine EXCEPT ![t] = 0] /\ depth' = [depth EXCEPT ![t] = 0]
      /\ read' = [read EXCEPT ![t] = 0] /\ Goto(t, "idle") /\ ticket' = ticket
  BY DEF StoreServing
<1>2. queue # <<>> /\ queue[1] = t /\ serving' = Plus(serving)
  BY <1>1 DEF TicketInv, FirstHolds, Holds
<1>3. n \in 1 .. NThreads /\ serving \in Field /\ queue \in Seq(Threads)
  BY <1>2, LineFits, EmptySeq DEF TicketInv, TicketTyped
<1>4. /\ queue' \in Seq(Threads) /\ Len(queue') = n - 1
      /\ \A i \in 1 .. n - 1 : queue'[i] = queue[i + 1]
  BY <1>1, <1>2, <1>3, HeadTailProperties
<1>5. /\ serving' \in Field
      /\ \A i \in 0 .. NThreads - 1 : Behind(serving', i) = Behind(serving, i + 1)
  BY <1>2, <1>3, NextTicket
<1>6. \A i, j \in 1 .. n : queue[i] = queue[j] => i = j
  BY DEF TicketInv, LineExact
<1>7. \A i \in 1 .. n - 1 : queue'[i] \in Threads \ {t}
  <2>1. \A i \in 1 .. n - 1 : i + 1 \in 1 .. n /\ i + 1 # 1 /\ 1 \in 1 .. n
    BY <1>3
  <2>2. queue \in [1 .. n -> Threads]
    BY <1>3, LenProperties
  <2>3. QED
    BY <1>2, <1>4, <1>6, <2>1, <2>2
<1>8. \A u \in Threads \ {t} : pc'[u] = pc[u] /\ mine'[u] = mine[u] /\ read'[u] = read[u]
  BY <1>1 DEF TicketInv, TicketTyped, Goto
<1>9. pc'[t] = "idle"
  BY <1>1 DEF TicketInv, TicketTyped, Goto
<1>10. TicketTyped'
  <2>1. 0 \in Field /\ ticket \in Field
    BY DEF TicketInv, TicketTyped, Field
  <2>2. pc' \in [Threads -> TicketLabels]
    BY <1>1 DEF TicketInv, TicketTyped, Goto, TicketLabels
  <2>3. /\ mine' \in [Threads -> Field] /\ read' \in [Threads -> Field]
        /\ depth' \in [Threads -> Nat]
    BY <1>1, <2>1 DEF TicketInv, TicketTyped
  <2>4. QED
    BY <1>1, <1>4, <1>5, <2>1, <2>2, <2>3 DEF TicketTyped
<1>11. LineExact'
  <2>1. ASSUME NEW i \in 1 .. n - 1, NEW j \in 1 .. n - 1, queue'[i] = queue'[j]
        PROVE  i = j
    <3>1. i + 1 \in 1 .. n /\ j + 1 \in 1 .. n
      BY <1>3
    <3>2. i + 1 = j + 1
      BY <1>4, <1>6, <2>1, <3>1
    <3>3. QED
      BY <3>2
  <2>2. ASSUME NEW u \in Threads
        PROVE  pc'[u] # "idle" <=> \E i \in 1 .. n - 1 : queue'[i] = u
    <3>1. CASE u = t
      BY <1>7, <1>9, <3>1
    <3>2. CASE u # t
      <4>1. ASSUME NEW i \in 1 .. n, queue[i] = u PROVE \E j \in 1 .. n - 1 : queue'[j] = u
        <5>1. i # 1
          BY <1>2, <3>2, <4>1
        <5>2. i - 1 \in 1 .. n - 1 /\ (i - 1) + 1 = i
          BY <1>3, <5>1
        <5>3. QED
          BY <1>4, <4>1, <5>2
      <4>2. ASSUME NEW j \in 1 .. n - 1, queue'[j] = u PROVE \E i \in 1 .. n : queue[i] = u
        <5>1. j + 1 \in 1 .. n
          BY <1>3
        <5>2. QED
          BY <1>4, <4>2, <5>1
      <4>3. pc[u] # "idle" <=> \E i \in 1 .. n : queue[i] = u
        BY DEF TicketInv, LineExact
      <4>4. QED
        BY <1>8, <3>2, <4>1, <4>2, <4>3
    <3>3. QED
      BY <3>1, <3>2
  <2>3. QED
    BY <1>4, <2>1, <2>2 DEF LineExact
<1>12. TicketsInLine'
  <2>1. ticket' = Behind(serving', n - 1)
    <3>1. n - 1 \in 0 .. NThreads - 1 /\ (n - 1) + 1 = n
      BY <1>3
    <3>2. ticket = Behind(serving, n)
      BY DEF TicketInv, TicketsInLine
    <3>3. QED
      BY <1>1, <1>5, <3>1, <3>2
  <2>2. ASSUME NEW i \in 1 .. n - 1 PROVE mine'[queue'[i]] = Behind(serving', i - 1)
    <3>1. i + 1 \in 1 .. n /\ i - 1 \in 0 .. NThreads - 1 /\ (i - 1) + 1 = i
          /\ (i + 1) - 1 = i
      BY <1>3
    <3>2. mine[queue[i + 1]] = Behind(serving, (i + 1) - 1)
      BY <3>1 DEF TicketInv, TicketsInLine
    <3>3. mine[queue[i + 1]] = Behind(serving', i - 1)
      BY <1>5, <3>1, <3>2
    <3>4. QED
      BY <1>4, <1>7, <1>8, <3>3
  <2>3. QED
    BY <1>4, <2>1, <2>2 DEF TicketsInLine
<1>13. FirstHolds'
  <2>1. \A u \in Threads : pc'[u] \notin {"cs", "unlock"}
    BY <1>2, <1>8, <1>9 DEF TicketInv, FirstHolds, Holds
  <2>2. QED
    BY <2>1 DEF FirstHolds, Holds
<1>14. QED
  BY <1>10, <1>11, <1>12, <1>13 DEF TicketInv

LEMMA StepKeepsTicketInv == TicketInv /\ [TicketNext]_ticketVars => TicketInv'
<1>1. SUFFICES ASSUME TicketInv, [TicketNext]_ticketVars PROVE TicketInv'
  OBVIOUS
<1>2. CASE UNCHANGED ticketVars
  BY <1>1, <1>2 DEF ticketVars, TicketInv, TicketTyped, LineExact, TicketsInLine, FirstHolds, Holds,
                    Behind, Wrap
<1>3. ASSUME NEW t \in Threads, DrawTicket(t) PROVE TicketInv'
  BY <1>1, <1>3, DrawTicketKeepsIInv
<1>4. ASSUME NEW t \in Threads, TicketStep(t) PROVE TicketInv'
  BY <1>1, <1>4, AwaitTurnKeepsIInv, LoadServingKeepsIInv, StoreServingKeepsIInv DEF TicketStep
<1>5. QED
  BY <1>1, <1>2, <1>3, <1>4 DEF TicketNext

LEMMA TicketInvariance == TicketSpec => []TicketInv
BY InitTicketInv, StepKeepsTicketInv, PTL DEF TicketSpec

\* At most one thread owns the ticket lock, also after the fields have wrapped
\* around, as long as they have room for a ticket of every thread.
THEOREM TicketsExclude == TicketSpec => []MutualExclusion
<1>1. TicketInv => MutualExclusion
  BY DEF TicketInv, FirstHolds, MutualExclusion
<1>2. QED
  BY <1>1, TicketInvariance, PTL

-----------------------------------------------------------------------------
(* The ticket lock implements FifoLock.                                    *)

Taken == \E t \in Threads : Holds(t)

\* What the refinement mapping is when one thread holds the lock, and when none
\* does.
LEMMA OwnerOfTaken ==
  ASSUME TicketInv, NEW t \in Threads, Holds(t)
  PROVE  /\ Owner = t /\ WaitingLine = Tail(queue)
         /\ queue # <<>> /\ Head(queue) = t
<1>1. \A u \in Threads : Holds(u) => queue # <<>> /\ queue[1] = u
  BY DEF TicketInv, FirstHolds
<1>2. queue # <<>> /\ queue \in Seq(Threads) /\ Head(queue) = queue[1]
  BY <1>1, HeadTailProperties DEF TicketInv, TicketTyped
<1>3. \A u \in Threads : Holds(u) => u = t
  BY <1>1
<1>4. Owner = t
  BY <1>3 DEF Owner
<1>5. WaitingLine = Tail(queue)
  BY <1>1, <1>2 DEF WaitingLine
<1>6. QED
  BY <1>1, <1>2, <1>4, <1>5

LEMMA OwnerOfFree ==
  ASSUME TicketInv, ~Taken
  PROVE  Owner = NoThread /\ WaitingLine = queue
<1>1. Owner = NoThread
  BY DEF Owner, Taken
<1>2. queue # <<>> => Head(queue) \in Threads
  BY HeadTailProperties DEF TicketInv, TicketTyped
<1>3. QED
  BY <1>1, <1>2 DEF WaitingLine, Taken

\* The same of the state after a step.
Mapped ==
  /\ \A t \in Threads : Holds(t) =>
       Owner = t /\ WaitingLine = Tail(queue) /\ queue # <<>> /\ Head(queue) = t
  /\ ~Taken => Owner = NoThread /\ WaitingLine = queue

LEMMA MappedAfter == TicketInv' => Mapped'
<1>1. TicketInv => Mapped
  BY OwnerOfTaken, OwnerOfFree DEF Mapped
<1>2. QED
  BY <1>1, PTL

\* A thread outside the lock has no place in the line.
LEMMA NoPlace ==
  ASSUME TicketInv, NEW t \in Threads, pc[t] = "idle"
  PROVE  Owner # t /\ ~Fifo!InLine(t)
<1>1. \A i \in 1 .. Len(queue) : queue[i] # t
  BY DEF TicketInv, LineExact
<1>2. queue \in Seq(Threads)
  BY DEF TicketInv, TicketTyped
<1>3. CASE Taken
  <2>1. PICK u \in Threads : Holds(u)
    BY <1>3 DEF Taken
  <2>2. Owner = u /\ WaitingLine = Tail(queue) /\ queue # <<>>
    BY <2>1, OwnerOfTaken
  <2>3. u # t
    BY <2>1 DEF Holds
  <2>4. \A i \in 1 .. Len(Tail(queue)) : Tail(queue)[i] # t
    <3>1. /\ Len(Tail(queue)) = Len(queue) - 1 /\ Len(queue) \in Nat
          /\ \A i \in 1 .. Len(Tail(queue)) : Tail(queue)[i] = queue[i + 1]
      BY <1>2, <2>2, HeadTailProperties, LenProperties
    <3>2. \A i \in 1 .. Len(Tail(queue)) : i + 1 \in 1 .. Len(queue)
      BY <3>1
    <3>3. QED
      BY <1>1, <3>1, <3>2
  <2>5. QED
    BY <2>2, <2>3, <2>4 DEF Fifo!InLine
<1>4. CASE ~Taken
  BY <1>1, <1>4, OwnerOfFree DEF Fifo!InLine, NoThread, Threads
<1>5. QED
  BY <1>3, <1>4

LEMMA DrawTicketRefines ==
  ASSUME TicketInv, TicketInv', NEW t \in Threads, DrawTicket(t)
  PROVE  Fifo!Enter(t) \/ Fifo!TakePlace(t)
<1>1. /\ pc[t] = "idle" /\ queue' = Append(queue, t)
      /\ Goto(t, IF ticket = serving THEN "cs" ELSE "wait")
  BY DEF DrawTicket
<1>2. pc'[t] = (IF queue = <<>> THEN "cs" ELSE "wait")
  BY <1>1, ServedAtOnce DEF TicketInv, TicketTyped, Goto
<1>3. \A u \in Threads \ {t} : pc'[u] = pc[u]
  BY <1>1 DEF TicketInv, TicketTyped, Goto
<1>4. queue \in Seq(Threads) /\ Owner # t /\ ~Fifo!InLine(t)
  BY <1>1, NoPlace DEF TicketInv, TicketTyped
<1>5. CASE queue = <<>>
  <2>1. ~Taken
    BY <1>5 DEF TicketInv, FirstHolds, Taken
  <2>2. Owner = NoThread /\ WaitingLine = <<>>
    BY <1>5, <2>1, OwnerOfFree
  <2>3. Holds(t)'
    BY <1>2, <1>5 DEF Holds
  <2>4. Owner' = t /\ WaitingLine' = Tail(queue')
    BY <2>3, MappedAfter DEF Mapped
  <2>5. Tail(Append(queue, t)) = <<>>
    BY <1>4, <1>5, HeadTailAppend
  <2>6. WaitingLine' = <<>>
    BY <1>1, <2>4, <2>5
  <2>7. QED
    BY <2>2, <2>4, <2>6 DEF Fifo!Enter
<1>6. CASE queue # <<>> /\ Taken
  <2>1. PICK u \in Threads : Holds(u)
    BY <1>6 DEF Taken
  <2>2. Owner = u /\ WaitingLine = Tail(queue)
    BY <2>1, OwnerOfTaken
  <2>3. Holds(u)'
    BY <1>1, <1>3, <2>1 DEF Holds
  <2>4. Owner' = u /\ WaitingLine' = Tail(queue')
    BY <2>3, MappedAfter DEF Mapped
  <2>5. Tail(Append(queue, t)) = Append(Tail(queue), t)
    BY <1>4, <1>6, HeadTailAppend
  <2>6. WaitingLine' = Append(WaitingLine, t)
    BY <1>1, <2>2, <2>4, <2>5
  <2>7. QED
    BY <1>4, <2>2, <2>4, <2>6 DEF Fifo!TakePlace
<1>7. CASE queue # <<>> /\ ~Taken
  <2>1. Owner = NoThread /\ WaitingLine = queue
    BY <1>7, OwnerOfFree
  <2>2. ~Taken'
    BY <1>2, <1>3, <1>7 DEF Taken, Holds
  <2>3. Owner' = NoThread /\ WaitingLine' = queue'
    BY <2>2, MappedAfter DEF Mapped
  <2>4. QED
    BY <1>1, <1>4, <2>1, <2>3 DEF Fifo!TakePlace
<1>8. QED
  BY <1>5, <1>6, <1>7

LEMMA AwaitTurnRefines ==
  ASSUME TicketInv, TicketInv', NEW t \in Threads, AwaitTurn(t)
  PROVE  Fifo!Serve
<1>1. pc[t] = "wait" /\ serving = mine[t] /\ Goto(t, "cs") /\ queue' = queue
  BY DEF AwaitTurn
<1>2. queue # <<>> /\ queue[1] = t
  BY <1>1, ServedIsFirst
<1>3. ~Taken
  BY <1>1, <1>2 DEF TicketInv, FirstHolds, Taken, Holds
<1>4. Owner = NoThread /\ WaitingLine = queue
  BY <1>3, OwnerOfFree
<1>5. Holds(t)'
  BY <1>1 DEF TicketInv, TicketTyped, Goto, Holds
<1>6. Owner' = t /\ WaitingLine' = Tail(queue') /\ Head(queue') = t
  BY <1>5, MappedAfter DEF Mapped
<1>7. QED
  BY <1>1, <1>2, <1>4, <1>6 DEF Fifo!Serve

LEMMA LoadServingStutters ==
  ASSUME TicketInv, TicketInv', NEW t \in Threads, LoadServing(t)
  PROVE  Owner' = Owner /\ WaitingLine' = WaitingLine
<1>1. pc[t] = "cs" /\ Goto(t, "unlock") /\ queue' = queue
  BY DEF LoadServing
<1>2. Holds(t) /\ Holds(t)'
  BY <1>1 DEF TicketInv, TicketTyped, Goto, Holds
<1>3. Owner = t /\ WaitingLine = Tail(queue)
  BY <1>2, OwnerOfTaken
<1>4. Owner' = t /\ WaitingLine' = Tail(queue')
  BY <1>2, MappedAfter DEF Mapped
<1>5. QED
  BY <1>1, <1>3, <1>4

LEMMA StoreServingRefines ==
  ASSUME TicketInv, TicketInv', NEW t \in Threads, StoreServing(t)
  PROVE  Fifo!Release(t)
<1>1. pc[t] = "unlock" /\ Goto(t, "idle") /\ queue' = Tail(queue)
  BY DEF StoreServing
<1>2. Holds(t)
  BY <1>1 DEF Holds
<1>3. Owner = t /\ WaitingLine = Tail(queue)
  BY <1>2, OwnerOfTaken
<1>4. \A u \in Threads : Holds(u) => u = t
  BY <1>2 DEF TicketInv, FirstHolds
<1>5. ~Taken'
  BY <1>1, <1>4 DEF TicketInv, TicketTyped, Goto, Taken, Holds
<1>6. Owner' = NoThread /\ WaitingLine' = queue'
  BY <1>5, MappedAfter DEF Mapped
<1>7. QED
  BY <1>1, <1>3, <1>6 DEF Fifo!Release

LEMMA InitRefines == TicketInv /\ TicketInit => Fifo!Init
<1>1. SUFFICES ASSUME TicketInv, TicketInit PROVE Fifo!Init
  OBVIOUS
<1>2. ~Taken /\ queue = <<>>
  BY <1>1 DEF TicketInit, Taken, Holds
<1>3. Owner = NoThread /\ WaitingLine = queue
  BY <1>1, <1>2, OwnerOfFree
<1>4. QED
  BY <1>2, <1>3 DEF Fifo!Init

LEMMA StepRefines == TicketInv /\ TicketInv' /\ [TicketNext]_ticketVars => [Fifo!Next]_(Fifo!vars)
<1>1. SUFFICES ASSUME TicketInv, TicketInv', [TicketNext]_ticketVars PROVE [Fifo!Next]_(Fifo!vars)
  OBVIOUS
<1>2. CASE UNCHANGED ticketVars
  BY <1>2 DEF ticketVars, Fifo!vars, Owner, WaitingLine, Holds
<1>3. ASSUME NEW t \in Threads, DrawTicket(t) PROVE Fifo!Next
  BY <1>1, <1>3, DrawTicketRefines DEF Fifo!Next
<1>4. ASSUME NEW t \in Threads, AwaitTurn(t) PROVE Fifo!Next
  BY <1>1, <1>4, AwaitTurnRefines DEF Fifo!Next
<1>5. ASSUME NEW t \in Threads, LoadServing(t) PROVE UNCHANGED Fifo!vars
  BY <1>1, <1>5, LoadServingStutters DEF Fifo!vars
<1>6. ASSUME NEW t \in Threads, StoreServing(t) PROVE Fifo!Next
  BY <1>1, <1>6, StoreServingRefines DEF Fifo!Next
<1>7. QED
  BY <1>1, <1>2, <1>3, <1>4, <1>5, <1>6 DEF TicketNext, TicketStep

\* The ticket lock keeps the promise of a fair lock: threads own it one at a
\* time, in the order in which they drew their tickets.
THEOREM TicketIsFifo == TicketSpec => FifoSpec
<1>1. TicketInit => Fifo!Init
  BY InitTicketInv, InitRefines
<1>2. TicketSpec => []TicketInv
  BY TicketInvariance
<1>3. QED
  BY <1>1, <1>2, StepRefines, PTL DEF TicketSpec, FifoSpec, Fifo!Spec

=============================================================================
