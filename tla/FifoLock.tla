------------------------------ MODULE FifoLock ------------------------------
(***************************************************************************)
(* What lock_acquire / lock_release promise to hmr() when the lock is one  *)
(* of the queueing locks of LockHammer (ticket_spinlock, queued_spinlock): *)
(* one owner at a time, and the threads that have taken a place in the     *)
(* line are served in the order in which they took it.  A thread may enter *)
(* without waiting only when nobody stands in the line.                    *)
(***************************************************************************)
EXTENDS Naturals, Sequences

CONSTANTS Threads,   \* the threads that call lock_acquire
          NoThread   \* the owner of a free lock, none of them

VARIABLES owner,   \* the thread inside the critical section, or NoThread
          line     \* the threads that have taken a place, first served first

vars == <<owner, line>>

InLine(t) == \E i \in 1 .. Len(line) : line[i] = t

Init == owner = NoThread /\ line = <<>>

\* A free lock nobody waits for is taken at once.
Enter(t) ==
  /\ owner = NoThread /\ line = <<>>
  /\ owner' = t
  /\ UNCHANGED line

TakePlace(t) ==
  /\ owner # t /\ ~InLine(t)
  /\ line' = Append(line, t)
  /\ UNCHANGED owner

Serve ==
  /\ owner = NoThread /\ line # <<>>
  /\ owner' = Head(line)
  /\ line' = Tail(line)

Release(t) ==
  /\ owner = t
  /\ owner' = NoThread
  /\ UNCHANGED line

Next == Serve \/ \E t \in Threads : Enter(t) \/ TakePlace(t) \/ Release(t)

Spec == Init /\ [][Next]_vars
=============================================================================
