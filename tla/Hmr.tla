-------------------------------- MODULE Hmr --------------------------------
(***************************************************************************)
(* The thread function hmr() of LockHammer (apps/lockhammer/lockhammer.c): *)
(* the marshalled start, the two calls of synchronize_threads around the   *)
(* calibration (include/atomics.h), the thread_local_init of the locks     *)
(* that pass a token through a queue (vlink_lock.h, zmq_lock.h,            *)
(* boost_lock.h), and the loop that takes and releases such a lock.        *)
(***************************************************************************)
EXTENDS HammerRounds, FiniteSets

CONSTANT Builds   \* which locks are built: TRUE for vlink and zmq, which
                  \* count the open endpoints, FALSE for boost

ASSUME HmrAssumption == Builds \subseteq BOOLEAN

VARIABLES
  useReady,    \* which of the locks this build has
  syncLock,    \* sync_lock: twice the registered threads, plus the start bit
  readyLock,   \* ready_lock: threads that are pinned and wait for the start
  barrier,     \* calibrate_lock: [count, sense]
  ready,       \* ready of the token locks: endpoints still to be opened
  tokens,      \* tokens in the queue the lock is made of
  core,        \* local: mycore
  calls,       \* local: completed calls of synchronize_threads
  sense,       \* local: global_sense
  readyRead,   \* local: the value of ready the decrement started from
  nlocks       \* local: nlocks

shared == <<syncLock, readyLock, barrier, ready, tokens>>
locals == <<core, calls, sense, readyRead, nlocks>>
vars   == <<useReady, shared, pc, locals>>

Init ==
  /\ useReady \in Builds
  /\ syncLock = 0 /\ readyLock = 0
  /\ barrier = [count |-> 0, sense |-> FALSE]
  /\ ready = NThreads                    \* vlink_lock_init, zmq_qlock_init
  /\ tokens = 1                          \* the first push of initialize_lock
  /\ pc = [t \in Threads |-> "register"]
  /\ core = [t \in Threads |-> 0]
  /\ calls = [t \in Threads |-> 0]
  /\ sense = [t \in Threads |-> FALSE]
  /\ readyRead = [t \in Threads |-> 0]
  /\ nlocks = [t \in Threads |-> 0]

-----------------------------------------------------------------------------
(* The marshalled start.                                                   *)

\* mycore = fetchadd(sync_lock, 2) >> 1: the first to register is the marshal.
Register(t) ==
  /\ pc[t] = "register"
  /\ syncLock' = syncLock + 2
  /\ core' = [core EXCEPT ![t] = syncLock \div 2]
  /\ Goto(t, IF syncLock \div 2 = 0 THEN "marshal" ELSE "announce")
  /\ UNCHANGED <<readyLock, barrier, ready, tokens, calls, sense, readyRead, nlocks>>

\* Mutants: the marshal forgets one thread, or counts itself in.
AwaitReady_OneLess(t) ==
  /\ pc[t] = "marshal"
  /\ readyLock = NThreads - 2
  /\ Goto(t, "begin")
  /\ UNCHANGED <<shared, locals>>

AwaitReady_All(t) ==
  /\ pc[t] = "marshal"
  /\ readyLock = NThreads
  /\ Goto(t, "begin")
  /\ UNCHANGED <<shared, locals>>

AwaitReady(t) ==
  /\ pc[t] = "marshal"
  /\ readyLock = NThreads - 1
  /\ Goto(t, "begin")
  /\ UNCHANGED <<shared, locals>>

Begin(t) ==
  /\ pc[t] = "begin"
  /\ syncLock' = syncLock + 1
  /\ Goto(t, "sense")
  /\ UNCHANGED <<readyLock, barrier, ready, tokens, locals>>

Announce(t) ==
  /\ pc[t] = "announce"
  /\ readyLock' = readyLock + 1
  /\ Goto(t, "await")
  /\ UNCHANGED <<syncLock, barrier, ready, tokens, locals>>

AwaitStart(t) ==
  /\ pc[t] = "await"
  /\ syncLock = 2 * NThreads + 1
  /\ Goto(t, "sense")
  /\ UNCHANGED <<shared, locals>>

-----------------------------------------------------------------------------
(* synchronize_threads: called in the middle of calibrate_timer, and again *)
(* when the calibration is done.  Its waiting branch is compiled out.      *)

ReadSense(t) ==
  /\ pc[t] = "sense"
  /\ sense' = [sense EXCEPT ![t] = barrier.sense]
  /\ Goto(t, "arrive")
  /\ UNCHANGED <<shared, core, calls, readyRead, nlocks>>

Arrive(t) ==
  /\ pc[t] = "arrive"
  /\ barrier' = [barrier EXCEPT !.count = @ + 2]
  /\ Goto(t, "check")
  /\ UNCHANGED <<syncLock, readyLock, ready, tokens, locals>>

LeaveBarrier(t) ==
  /\ calls' = [calls EXCEPT ![t] = @ + 1]
  /\ Goto(t, IF calls[t] = 0 THEN "sense" ELSE IF useReady THEN "open" ELSE "loop")

IsLast(t) == barrier = [count |-> 2 * NThreads, sense |-> sense[t]]

CheckCount(t) ==
  /\ pc[t] = "check"
  /\ IF IsLast(t) THEN Goto(t, "reset") /\ UNCHANGED calls ELSE LeaveBarrier(t)
  /\ UNCHANGED <<shared, core, sense, readyRead, nlocks>>

ResetBarrier(t) ==
  /\ pc[t] = "reset"
  /\ barrier' = [count |-> 0, sense |-> ~sense[t]]
  /\ LeaveBarrier(t)
  /\ UNCHANGED <<syncLock, readyLock, ready, tokens, core, sense, readyRead, nlocks>>

-----------------------------------------------------------------------------
(* thread_local_init of the token locks: ready-- on a plain volatile, then *)
(* wait for it to become zero.                                             *)

ReadReady(t) ==
  /\ pc[t] = "open"
  /\ readyRead' = [readyRead EXCEPT ![t] = ready]
  /\ Goto(t, "count")
  /\ UNCHANGED <<shared, core, calls, sense, nlocks>>

WriteReady(t) ==
  /\ pc[t] = "count"
  /\ ready' = readyRead[t] - 1
  /\ Goto(t, "opened")
  /\ UNCHANGED <<syncLock, readyLock, barrier, tokens, locals>>

\* Mutant: the wait ends one endpoint early.
AwaitEndpoints_Early(t) ==
  /\ pc[t] = "opened"
  /\ ready <= 1
  /\ Goto(t, "loop")
  /\ UNCHANGED <<shared, locals>>

AwaitEndpoints(t) ==
  /\ pc[t] = "opened"
  /\ ready = 0
  /\ Goto(t, "loop")
  /\ UNCHANGED <<shared, locals>>

-----------------------------------------------------------------------------
(* The measured loop.                                                      *)

\* Mutant: the result of a pop that found nothing is ignored.
TakeToken_Unchecked(t) ==
  /\ pc[t] = "loop" /\ nlocks[t] < Rounds
  /\ tokens' = IF tokens > 0 THEN tokens - 1 ELSE 0
  /\ Goto(t, "cs")
  /\ UNCHANGED <<syncLock, readyLock, barrier, ready, locals>>

TakeToken(t) ==
  /\ pc[t] = "loop" /\ nlocks[t] < Rounds
  /\ tokens > 0
  /\ tokens' = tokens - 1
  /\ Goto(t, "cs")
  /\ UNCHANGED <<syncLock, readyLock, barrier, ready, locals>>

PutToken(t) ==
  /\ pc[t] = "cs"
  /\ tokens' = tokens + 1
  /\ nlocks' = [nlocks EXCEPT ![t] = @ + 1]
  /\ Goto(t, "loop")
  /\ UNCHANGED <<syncLock, readyLock, barrier, ready, core, calls, sense, readyRead>>

Step(t) ==
  /\ UNCHANGED useReady
  /\ \/ Register(t) \/ AwaitReady(t) \/ Begin(t) \/ Announce(t) \/ AwaitStart(t)
     \/ ReadSense(t) \/ Arrive(t) \/ CheckCount(t) \/ ResetBarrier(t)
     \/ ReadReady(t) \/ WriteReady(t) \/ AwaitEndpoints(t)
     \/ TakeToken(t) \/ PutToken(t)

Next == \E t \in Threads : Step(t)

Spec == Init /\ [][Next]_vars

\* Threads run on cores of their own.  Strong fairness is not needed for the
\* token: the others stop asking for it when their rounds are done.
FairSpec == Spec /\ \A t \in Threads : WF_vars(Step(t))

-----------------------------------------------------------------------------
(* Properties.                                                             *)

\* Every variable holds a value of its type.
TypeOK ==
  /\ useReady \in BOOLEAN
  /\ syncLock \in 0 .. 2 * NThreads + 1 /\ readyLock \in 0 .. NThreads
  /\ barrier \in [count : 0 .. 4 * NThreads, sense : BOOLEAN]
  /\ ready \in 0 .. NThreads /\ tokens \in 0 .. 1
  /\ pc \in [Threads -> {"register", "marshal", "begin", "announce", "await",
                         "sense", "arrive", "check", "reset", "open", "count",
                         "opened", "loop", "cs"}]
  /\ core \in [Threads -> 0 .. NThreads - 1]
  /\ calls \in [Threads -> 0 .. 2]
  /\ sense \in [Threads -> BOOLEAN]
  /\ readyRead \in [Threads -> 0 .. NThreads]
  /\ nlocks \in [Threads -> 0 .. Rounds]

Starting(t) == pc[t] \in {"register", "announce", "marshal", "begin", "await"}

\* No thread starts to calibrate before every thread has registered under a
\* core number of its own and reported ready; nobody misses the start word
\* (lockhammer.c:382-398, 454-457).
StartTogether ==
  \A t, u \in Threads : ~Starting(t) =>
    pc[u] \notin {"register", "announce"} /\ (u # t => core[u] # core[t])

\* A thread enters the measured loop only when every thread has its endpoint
\* of the queue (vlink_lock.h:65, zmq_lock.h:83).
EndpointsReady ==
  \A t, u \in Threads : useReady /\ pc[t] \in {"loop", "cs"} =>
    pc[u] \in {"opened", "loop", "cs"}

\* The token is neither lost nor duplicated, so it excludes: it is in the queue
\* or with the one thread in its critical section.
OneToken == tokens + Cardinality({t \in Threads : pc[t] = "cs"}) = 1

\* With a lock whose thread_local_init does not count in ready, every thread
\* finds the start, gets through its initialisation and completes its
\* acquisitions.
BoostFinishes == ~useReady => <>(\A t \in Threads : nlocks[t] = Rounds)
=============================================================================
