----------------------------- MODULE EventMutex -----------------------------
(***************************************************************************)
(* The MySQL-style event mutex of LockHammer                               *)
(* (apps/lockhammer/include/mysql/event_mutex.h) and its variant with      *)
(* load/store-exclusive (cas_event_mutex.h).  A thread spins on the lock   *)
(* word, then waits for the event generation to change; the releaser       *)
(* frees the word and only afterwards bumps the generation, with a plain   *)
(* load and a plain store.                                                 *)
(***************************************************************************)
EXTENDS HammerRounds

CONSTANT Exclusive   \* TRUE: aarch64 cas_event_mutex, whose one stxr may fail

ASSUME EventAssumption == Exclusive \in BOOLEAN

VARIABLES
  lock,         \* the lock word: TRUE is MUTEX_STATE_LOCKED
  generation,   \* ev_generation
  waitState,    \* local of spin_and_try_lock: the generation seen
  version,      \* local of lock_signal: the generation read
  done          \* nlocks of hmr()

eventVars == <<lock, generation, pc, waitState, version, done>>

EventInit ==
  /\ lock = FALSE /\ generation = 0
  /\ pc = [t \in Threads |-> "idle"]
  /\ waitState = [t \in Threads |-> 0]
  /\ version = [t \in Threads |-> 0]
  /\ done = [t \in Threads |-> 0]

\* try_lock: swap64(lock, LOCKED); with exclusives a store that may fail.
TryLock(t, otherwise) ==
  \/ ~lock /\ lock' = TRUE /\ Goto(t, "cs")
  \/ (lock \/ Exclusive) /\ UNCHANGED lock /\ Goto(t, otherwise)

\* lock_enter
Enter(t) ==
  /\ pc[t] = "idle" /\ done[t] < Rounds
  /\ TryLock(t, "spin")
  /\ UNCHANGED <<generation, waitState, version, done>>

\* is_free: a free word is seen, or max_spins is used up.
Spin(t) ==
  /\ pc[t] = "spin"
  /\ Goto(t, IF lock THEN "readgen" ELSE "try")
  /\ UNCHANGED <<lock, generation, waitState, version, done>>

TryFree(t) ==
  /\ pc[t] = "try"
  /\ TryLock(t, "spin")
  /\ UNCHANGED <<generation, waitState, version, done>>

ReadGeneration(t) ==
  /\ pc[t] = "readgen"
  /\ waitState' = [waitState EXCEPT ![t] = generation]
  /\ Goto(t, "last")
  /\ UNCHANGED <<lock, generation, version, done>>

\* Mutant: the last try is left out.
LastTry_Skipped(t) ==
  /\ pc[t] = "last"
  /\ Goto(t, "parked")
  /\ UNCHANGED <<lock, generation, waitState, version, done>>

\* "Try lock one last time to avoid race with releaser"
LastTry(t) ==
  /\ pc[t] = "last"
  /\ TryLock(t, "parked")
  /\ UNCHANGED <<generation, waitState, version, done>>

\* Mutant: a woken thread takes itself for the owner.
Wake_Owns(t) ==
  /\ pc[t] = "parked"
  /\ generation # waitState[t]
  /\ waitState' = [waitState EXCEPT ![t] = 0]
  /\ Goto(t, "cs")
  /\ UNCHANGED <<lock, generation, version, done>>

\* "Spin until generation changes"
Wake(t) ==
  /\ pc[t] = "parked"
  /\ generation # waitState[t]
  /\ waitState' = [waitState EXCEPT ![t] = 0]
  /\ Goto(t, "spin")
  /\ UNCHANGED <<lock, generation, version, done>>

\* lock_exit: tas_unlock, then lock_signal.
Unlock(t) ==
  /\ pc[t] = "cs"
  /\ lock' = FALSE
  /\ Goto(t, "signal")
  /\ waitState' = [waitState EXCEPT ![t] = 0]
  /\ UNCHANGED <<generation, version, done>>

ReadVersion(t) ==
  /\ pc[t] = "signal"
  /\ version' = [version EXCEPT ![t] = generation]
  /\ Goto(t, "bump")
  /\ UNCHANGED <<lock, generation, waitState, done>>

\* Mutant: the version is stored as it was read.
WriteVersion_NoBump(t) ==
  /\ pc[t] = "bump"
  /\ generation' = version[t]
  /\ version' = [version EXCEPT ![t] = 0]
  /\ done' = [done EXCEPT ![t] = @ + 1]
  /\ Goto(t, "idle")
  /\ UNCHANGED <<lock, waitState>>

WriteVersion(t) ==
  /\ pc[t] = "bump"
  /\ generation' = version[t] + 1
  /\ version' = [version EXCEPT ![t] = 0]
  /\ done' = [done EXCEPT ![t] = @ + 1]
  /\ Goto(t, "idle")
  /\ UNCHANGED <<lock, waitState>>

EventStep(t) ==
  \/ Enter(t) \/ Spin(t) \/ TryFree(t) \/ ReadGeneration(t) \/ LastTry(t)
  \/ Wake(t) \/ Unlock(t) \/ ReadVersion(t) \/ WriteVersion(t)

EventNext == \E t \in Threads : EventStep(t)

EventSpec == EventInit /\ [][EventNext]_eventVars

\* Each thread of hmr() runs on a core of its own until its rounds are done.
FairEventSpec == EventSpec /\ \A t \in Threads : WF_eventVars(EventStep(t))

-----------------------------------------------------------------------------
(* Properties.                                                             *)

\* Every variable holds a value of its type; the generation never runs ahead
\* of the number of releases.
EventTypeOK ==
  /\ lock \in BOOLEAN
  /\ generation \in 0 .. NThreads * Rounds
  /\ pc \in [Threads -> {"idle", "spin", "try", "readgen", "last", "parked",
                         "cs", "signal", "bump"}]
  /\ waitState \in [Threads -> 0 .. NThreads * Rounds]
  /\ version \in [Threads -> 0 .. NThreads * Rounds]
  /\ done \in [Threads -> 0 .. Rounds]

\* The word is locked exactly while one thread is in its critical section: a
\* failed swap by a waiter, which writes LOCKED over LOCKED, frees or holds
\* nothing.
WordTellsOwner ==
  /\ \A t, u \in Threads : pc[t] = "cs" /\ pc[u] = "cs" => t = u
  /\ lock <=> \E t \in Threads : pc[t] = "cs"

\* A thread that waits for the generation to change is never left behind:
\* the lock is held, or a release has yet to write the generation, or the
\* generation has moved on (event_mutex.h:275, "avoid race with releaser").
ParkedHasWaker ==
  \A t \in Threads : pc[t] = "parked" =>
    \/ generation # waitState[t]
    \/ \E u \in Threads \ {t} : pc[u] \in {"cs", "signal", "bump"}

\* Every thread completes its rounds.
AllFinish == <>(\A t \in Threads : done[t] = Rounds)
=============================================================================
