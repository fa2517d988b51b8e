--------------------------- MODULE TicketSpinlock ---------------------------
(***************************************************************************)
(* The ticket spinlock of LockHammer                                       *)
(* (apps/lockhammer/include/linux/ticket_spinlock.h).  The lock word is    *)
(* two fields of Width values each (16 bits in the code): the next ticket  *)
(* and the ticket being served.  x86-64 draws tickets in steps of 2,       *)
(* aarch64 in steps of 1.  The release is not one atomic operation: only   *)
(* the owner writes the field it adds to.                                  *)
(***************************************************************************)
EXTENDS Hammer, Sequences

CONSTANTS Stride,     \* what a ticket adds: 2 on x86-64, 1 on aarch64
          Width       \* values a field holds: 65536

\* With more threads than tickets two of them would hold the same ticket.
ASSUME TicketAssumption ==
  /\ Stride \in Nat \ {0} /\ Width \in Nat \ {0}
  /\ Width % Stride = 0
  /\ Stride * NThreads <= Width

NoThread == -1

VARIABLES
  ticket,    \* the next ticket (high half of the lock word)
  serving,   \* the ticket being served (low half)
  mine,      \* local: the ticket the thread drew
  depth,     \* local: the queue depth lock_acquire returns
  read,      \* local of lock_release: the field as loaded
  queue      \* history: the threads holding a ticket, oldest first

ticketVars == <<ticket, serving, pc, mine, depth, read, queue>>

Plus(x) == (x + Stride) % Width

\* The contention estimate: tickets between the one drawn and the one served,
\* modulo the field; x86-64 shifts the difference right by two bits.
DepthOf(drawn, served) ==
  LET ahead == (drawn - served) % Width
  IN  IF Stride = 1 THEN ahead ELSE ahead \div 4

TicketInit ==
  /\ ticket = 0 /\ serving = 0
  /\ pc = [t \in Threads |-> "idle"]
  /\ mine = [t \in Threads |-> 0]
  /\ depth = [t \in Threads |-> 0]
  /\ read = [t \in Threads |-> 0]
  /\ queue = <<>>

\* The atomic add returns the whole old word: the ticket and who is served.
DrawTicket(t) ==
  /\ pc[t] = "idle"
  /\ mine' = [mine EXCEPT ![t] = ticket]
  /\ depth' = [depth EXCEPT ![t] = DepthOf(ticket, serving)]
  /\ ticket' = Plus(ticket)
  /\ queue' = Append(queue, t)
  /\ Goto(t, IF ticket = serving THEN "cs" ELSE "wait")
  /\ UNCHANGED <<serving, read>>

\* Mutant: "my turn has come or has passed", wrong once the field wraps.
AwaitTurn_AtLeast(t) ==
  /\ pc[t] = "wait"
  /\ serving >= mine[t]
  /\ Goto(t, "cs")
  /\ UNCHANGED <<ticket, serving, mine, depth, read, queue>>

AwaitTurn(t) ==
  /\ pc[t] = "wait"
  /\ serving = mine[t]
  /\ Goto(t, "cs")
  /\ UNCHANGED <<ticket, serving, mine, depth, read, queue>>

\* Mutant: the owner adds to its own ticket's predecessor, not to the field.
LoadServing_Stale(t) ==
  /\ pc[t] = "cs"
  /\ read' = [read EXCEPT ![t] = (serving - Stride) % Width]
  /\ Goto(t, "unlock")
  /\ UNCHANGED <<ticket, serving, mine, depth, queue>>

LoadServing(t) ==
  /\ pc[t] = "cs"
  /\ read' = [read EXCEPT ![t] = serving]
  /\ Goto(t, "unlock")
  /\ UNCHANGED <<ticket, serving, mine, depth, queue>>

StoreServing(t) ==
  /\ pc[t] = "unlock"
  /\ serving' = Plus(read[t])
  /\ mine' = [mine EXCEPT ![t] = 0]
  /\ depth' = [depth EXCEPT ![t] = 0]
  /\ read' = [read EXCEPT ![t] = 0]
  /\ queue' = Tail(queue)
  /\ Goto(t, "idle")
  /\ UNCHANGED ticket

TicketStep(t) == AwaitTurn(t) \/ LoadServing(t) \/ StoreServing(t)

TicketNext == \E t \in Threads : DrawTicket(t) \/ TicketStep(t)

TicketSpec == TicketInit /\ [][TicketNext]_ticketVars

\* Threads run on cores of their own; the critical section is bounded.
FairTicketSpec == TicketSpec /\ \A t \in Threads : WF_ticketVars(TicketStep(t))

-----------------------------------------------------------------------------
(* Properties.                                                             *)

\* Every variable holds a value of its type.
TicketTypeOK ==
  /\ ticket \in 0 .. Width - 1 /\ serving \in 0 .. Width - 1
  /\ pc \in [Threads -> {"idle", "wait", "cs", "unlock"}]
  /\ mine \in [Threads -> 0 .. Width - 1]
  /\ depth \in [Threads -> Nat]
  /\ read \in [Threads -> 0 .. Width - 1]
  /\ queue \in Seq(Threads)

Holds(t) == pc[t] \in {"cs", "unlock"}

\* No two threads own the lock, in particular not after the fields have
\* wrapped around and tickets are drawn for the second time.
MutualExclusion == \A t, u \in Threads : Holds(t) /\ Holds(u) => t = u

Owner == IF \E t \in Threads : Holds(t)
           THEN CHOOSE t \in Threads : Holds(t) ELSE NoThread
WaitingLine ==
  IF queue # <<>> /\ Holds(Head(queue)) THEN Tail(queue) ELSE queue

\* Tickets are served in the order in which they were drawn.
Fifo == INSTANCE FifoLock WITH owner <- Owner, line <- WaitingLine
FifoSpec == Fifo!Spec

\* Every thread that drew a ticket is served.
TicketIsServed == \A t \in Threads : (pc[t] = "wait") ~> (pc[t] = "cs")
=============================================================================
