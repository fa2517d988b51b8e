---------------------------- MODULE Ember_proofs ----------------------------
(* The queue numbers of get_queue_id and the messages in the queues, for a   *)
(* grid of any size and any build.                                          *)
EXTENDS Ember, SequenceTheorems, FiniteSetTheorems, WellFoundedInduction, TLAPS

USE EmberAssumption

(* Numbers written with one digit below k.                                 *)

LEMMA TwoDigits ==
  ASSUME NEW k \in Nat \ {0}, NEW m \in Nat \ {0},
         NEW a \in 0 .. k - 1, NEW b \in 0 .. m - 1
  PROVE  a + b * k \in 0 .. m * k - 1
<1>1. b * k \in Nat /\ (m - 1 - b) * k \in Nat
  OBVIOUS
<1>2. m * k = b * k + (m - 1 - b) * k + k
  OBVIOUS
<1>3. m * k \in Nat
  OBVIOUS
<1>4. QED
  BY <1>1, <1>2, <1>3

LEMMA DigitsUnique ==
  ASSUME NEW k \in Nat \ {0}, NEW a \in 0 .. k - 1, NEW c \in 0 .. k - 1,
         NEW b \in Nat, NEW d \in Nat, a + b * k = c + d * k
  PROVE  a = c /\ b = d
<1>1. ASSUME NEW x \in 0 .. k - 1, NEW y \in 0 .. k - 1, NEW p \in Nat, NEW q \in Nat,
             x + p * k = y + q * k
      PROVE  p <= q
  <2>1. SUFFICES ASSUME p >= q + 1 PROVE FALSE
    BY <1>1
  <2>2. (p - (q + 1)) * k \in Nat
    BY <2>1
  <2>3. p * k = (p - (q + 1)) * k + q * k + k
    OBVIOUS
  <2>4. q * k \in Nat /\ p * k \in Nat
    OBVIOUS
  <2>5. QED
    BY <1>1, <2>2, <2>3, <2>4
<1>2. b = d
  <2>1. b <= d
    BY <1>1
  <2>2. d <= b
    BY <1>1
  <2>3. QED
    BY <2>1, <2>2
<1>3. b * k \in Nat
  OBVIOUS
<1>4. QED
  BY <1>2, <1>3

\* A worker's number is made of its coordinates,
LEMMA Coordinates ==
  ASSUME NEW w \in Workers
  PROVE  X(w) \in 0 .. Pex - 1 /\ Y(w) \in 0 .. Pey - 1 /\ w = X(w) + Y(w) * Pex
<1>1. w \in Nat /\ w <= Pex * Pey - 1
  BY DEF Workers, NThreads
<1>2. X(w) \in 0 .. Pex - 1 /\ Y(w) \in Nat /\ w = X(w) + Y(w) * Pex
  BY <1>1 DEF X, Y
<1>3. Y(w) <= Pey - 1
  <2>1. SUFFICES ASSUME Y(w) >= Pey PROVE FALSE
    BY <1>2
  <2>2. (Y(w) - Pey) * Pex \in Nat /\ Y(w) * Pex = (Y(w) - Pey) * Pex + Pex * Pey
    BY <1>2, <2>1
  <2>3. Pex * Pey \in Nat
    OBVIOUS
  <2>4. QED
    BY <1>1, <1>2, <2>2, <2>3
<1>4. QED
  BY <1>2, <1>3

\* and the coordinates are what a number is made of.
LEMMA WorkerAt ==
  ASSUME NEW x \in 0 .. Pex - 1, NEW y \in 0 .. Pey - 1
  PROVE  x + y * Pex \in Workers /\ X(x + y * Pex) = x /\ Y(x + y * Pex) = y
<1>1. x + y * Pex \in 0 .. Pey * Pex - 1
  BY TwoDigits
<1>2. x + y * Pex \in Workers
  BY <1>1 DEF Workers, NThreads
<1>3. /\ X(x + y * Pex) \in 0 .. Pex - 1 /\ Y(x + y * Pex) \in 0 .. Pey - 1
      /\ x + y * Pex = X(x + y * Pex) + Y(x + y * Pex) * Pex
  BY <1>2, Coordinates
<1> DEFINE cx == X(x + y * Pex)
<1> DEFINE cy == Y(x + y * Pex)
<1>4. /\ cx \in 0 .. Pex - 1 /\ cy \in Nat /\ x + y * Pex = cx + cy * Pex
      /\ y \in Nat /\ Pex \in Nat \ {0}
  BY <1>3
<1> HIDE DEF cx, cy
<1>5. x = cx /\ y = cy
  BY <1>4, DigitsUnique
<1>6. QED
  BY <1>2, <1>5 DEF cx, cy

-----------------------------------------------------------------------------
(* A queue number is the start of the band of its direction, plus the two   *)
(* digits of the lower end of the edge.                                     *)

XDir == {"xUp", "xDn"}

Radix(port) == IF port \in XDir THEN Pex - 1 ELSE Pey - 1
Rows(port)  == IF port \in XDir THEN Pey ELSE Pex
Lower(port) == IF port \in {"xUp", "yUp"} THEN 0 ELSE 1
Minor(w, port) == (IF port \in XDir THEN X(w) ELSE Y(w)) - Lower(port)
Major(w, port) == IF port \in XDir THEN Y(w) ELSE X(w)
Base(port) == CASE port = "xUp" -> 1
                [] port = "xDn" -> 1 + XUps
                [] port = "yUp" -> 1 + 2 * XUps
                [] port = "yDn" -> 1 + 2 * XUps + YUps

HasEdge(w, port) == Neighbour(w, port) # NoWorker

\* How many queues each direction has.
LEMMA BandSizes ==
  /\ XUps \in Nat /\ YUps \in Nat /\ NQueues = 2 * XUps + 2 * YUps
  /\ \A port \in Ports : Rows(port) * Radix(port) = IF port \in XDir THEN XUps ELSE YUps
<1>1. XUps \in Nat /\ YUps \in Nat
  BY DEF XUps, YUps
<1>2. ASSUME NEW port \in Ports
      PROVE  Rows(port) * Radix(port) = IF port \in XDir THEN XUps ELSE YUps
  BY DEF Rows, Radix, XUps, YUps
<1>3. QED
  BY <1>1, <1>2 DEF NQueues

\* A worker has an edge at a port if it is not at that border of the grid.
LEMMA EdgeDigits ==
  ASSUME NEW w \in Workers, NEW port \in Ports, HasEdge(w, port)
  PROVE  /\ Radix(port) \in Nat \ {0} /\ Rows(port) \in Nat \ {0}
         /\ Minor(w, port) \in 0 .. Radix(port) - 1
         /\ Major(w, port) \in 0 .. Rows(port) - 1
<1>1. X(w) \in 0 .. Pex - 1 /\ Y(w) \in 0 .. Pey - 1
  BY Coordinates
<1>2. CASE port = "xUp"
  <2>1. X(w) # Pex - 1
    BY <1>2 DEF HasEdge, Neighbour
  <2>2. QED
    BY <1>1, <1>2, <2>1 DEF Radix, Rows, Minor, Major, XDir, Lower
<1>3. CASE port = "xDn"
  <2>1. X(w) # 0
    BY <1>3 DEF HasEdge, Neighbour
  <2>2. QED
    BY <1>1, <1>3, <2>1 DEF Radix, Rows, Minor, Major, XDir, Lower
<1>4. CASE port = "yUp"
  <2>1. Y(w) # Pey - 1
    BY <1>4 DEF HasEdge, Neighbour
  <2>2. QED
    BY <1>1, <1>4, <2>1 DEF Radix, Rows, Minor, Major, XDir, Lower
<1>5. CASE port = "yDn"
  <2>1. Y(w) # 0
    BY <1>5 DEF HasEdge, Neighbour
  <2>2. QED
    BY <1>1, <1>5, <2>1 DEF Radix, Rows, Minor, Major, XDir, Lower
<1>6. QED
  BY <1>2, <1>3, <1>4, <1>5 DEF Ports

LEMMA SendDigits ==
  ASSUME NEW w \in Workers, NEW port \in Ports, HasEdge(w, port)
  PROVE  SendQueue(w, port) = Base(port) + (Minor(w, port) + Major(w, port) * Radix(port))
<1>1. X(w) \in Int /\ Y(w) \in Int /\ XUps \in Int /\ YUps \in Int
  BY Coordinates, BandSizes
<1>2. Y(w) * (Pex - 1) \in Int /\ X(w) * (Pey - 1) \in Int
  BY <1>1
<1>3. CASE port = "xUp"
  BY <1>1, <1>2, <1>3 DEF SendQueue, XDnRx, Base, Minor, Major, Radix, Lower, XDir
<1>4. CASE port = "xDn"
  BY <1>1, <1>2, <1>4 DEF SendQueue, XDnRx, Base, Minor, Major, Radix, Lower, XDir
<1>5. CASE port = "yUp"
  BY <1>1, <1>2, <1>5 DEF SendQueue, YDnRx, Base, Minor, Major, Radix, Lower, XDir
<1>6. CASE port = "yDn"
  BY <1>1, <1>2, <1>6 DEF SendQueue, YDnRx, Base, Minor, Major, Radix, Lower, XDir
<1>7. QED
  BY <1>3, <1>4, <1>5, <1>6 DEF Ports

\* Each direction has a band of queue numbers of its own.
LEMMA SendInBand ==
  ASSUME NEW w \in Workers, NEW port \in Ports, HasEdge(w, port)
  PROVE  LET offset == SendQueue(w, port) - Base(port)
         IN  offset \in 0 .. (IF port \in XDir THEN XUps ELSE YUps) - 1
             /\ SendQueue(w, port) = Base(port) + offset
<1> DEFINE digits == Minor(w, port) + Major(w, port) * Radix(port)
<1>1. digits \in 0 .. Rows(port) * Radix(port) - 1
  BY EdgeDigits, TwoDigits
<1>2. digits \in 0 .. (IF port \in XDir THEN XUps ELSE YUps) - 1
  BY <1>1, BandSizes
<1>3. SendQueue(w, port) = Base(port) + digits
  BY SendDigits
<1>4. Base(port) \in Int /\ digits \in Int
  BY <1>2, BandSizes DEF Base, Ports
<1> HIDE DEF digits
<1>5. QED
  BY <1>2, <1>3, <1>4

\* Two workers never send into one queue, nor one worker from two ports: every
\* queue number of a grid has one producer (get_queue_id, ember.cpp:59-76).
THEOREM OneProducerPerQueue ==
  ASSUME NEW w \in Workers, NEW v \in Workers, NEW p \in Ports, NEW q \in Ports,
         HasEdge(w, p), HasEdge(v, q), SendQueue(w, p) = SendQueue(v, q)
  PROVE  w = v /\ p = q
<1> DEFINE s == SendQueue(w, p)
<1>1. /\ s - Base(p) \in 0 .. (IF p \in XDir THEN XUps ELSE YUps) - 1
      /\ s - Base(q) \in 0 .. (IF q \in XDir THEN XUps ELSE YUps) - 1
      /\ s = Base(p) + (s - Base(p))
  BY SendInBand
<1>2. s \in Int
  BY <1>1, BandSizes DEF Base, Ports
<1>3. p = q
  BY <1>1, <1>2, BandSizes DEF Base, Ports, XDir
<1>4. /\ s = Base(p) + (Minor(w, p) + Major(w, p) * Radix(p))
      /\ s = Base(p) + (Minor(v, p) + Major(v, p) * Radix(p))
  BY <1>3, SendDigits
<1>5. /\ Radix(p) \in Nat \ {0}
      /\ Minor(w, p) \in 0 .. Radix(p) - 1 /\ Major(w, p) \in Nat
      /\ Minor(v, p) \in 0 .. Radix(p) - 1 /\ Major(v, p) \in Nat
  BY <1>3, EdgeDigits
<1>6. Minor(w, p) + Major(w, p) * Radix(p) = Minor(v, p) + Major(v, p) * Radix(p)
  <2>1. Base(p) \in Int
    BY BandSizes DEF Base, Ports
  <2>2. Major(w, p) * Radix(p) \in Int /\ Major(v, p) * Radix(p) \in Int
    BY <1>5
  <2>3. QED
    BY <1>4, <1>5, <2>1, <2>2
<1>7. Minor(w, p) = Minor(v, p) /\ Major(w, p) = Major(v, p)
  BY <1>5, <1>6, DigitsUnique
<1>8. X(w) = X(v) /\ Y(w) = Y(v)
  BY <1>7, Coordinates DEF Minor, Major, Lower, XDir
<1>9. w = v
  BY <1>8, Coordinates
<1>10. QED
  BY <1>3, <1>9

\* Every number is that of a queue that initialize() makes; 0 stays the queue
\* that all workers share (ember.cpp:59-76).
THEOREM QueueExists ==
  ASSUME NEW w \in Workers, NEW p \in Ports, HasEdge(w, p)
  PROVE  SendQueue(w, p) \in 1 .. NQueues
BY SendInBand, BandSizes DEF Base, Ports, XDir

\* The neighbour of a worker that is not at the border in question.
LEMMA NeighbourInside ==
  \A v \in Workers :
    /\ X(v) # Pex - 1 => Neighbour(v, "xUp") = v + 1
    /\ X(v) # 0       => Neighbour(v, "xDn") = v - 1
    /\ Y(v) # Pey - 1 => Neighbour(v, "yUp") = v + Pex
    /\ Y(v) # 0       => Neighbour(v, "yDn") = v - Pex
BY DEF Neighbour

Opposite == [xUp |-> "xDn", xDn |-> "xUp", yUp |-> "yDn", yDn |-> "yUp"]

\* The neighbour a worker sends to lies across the edge, and receives from the
\* opposite port under the same queue number (ember.cpp:47-76).
THEOREM EndsAgree ==
  ASSUME NEW w \in Workers, NEW p \in Ports, HasEdge(w, p)
  PROVE  LET v == Neighbour(w, p)
         IN  /\ v \in Workers /\ Neighbour(v, Opposite[p]) = w
             /\ RecvQueue(v, Opposite[p]) = SendQueue(w, p)
<1> DEFINE x == X(w)
<1> DEFINE y == Y(w)
<1>1. x \in 0 .. Pex - 1 /\ y \in 0 .. Pey - 1 /\ w = x + y * Pex
  BY Coordinates
<1>2. XUps \in Nat /\ YUps \in Nat
  BY BandSizes
<1> HIDE DEF x, y
<1>3. CASE p = "xUp"
  <2>1. x + 1 \in 0 .. Pex - 1 /\ Neighbour(w, p) = (x + 1) + y * Pex
    BY <1>1, <1>3 DEF HasEdge, Neighbour, x
  <2>2. Neighbour(w, p) \in Workers /\ X(Neighbour(w, p)) = x + 1 /\ Y(Neighbour(w, p)) = y
    BY <1>1, <2>1, WorkerAt
  <2>3. Neighbour(Neighbour(w, p), "xDn") = w
    <3> DEFINE v == Neighbour(w, p)
    <3>1. X(v) \in Int /\ Y(v) \in Int /\ v = (x + 1) + y * Pex
      BY <1>1, <2>1, <2>2
    <3>2. v \in Workers /\ X(v) # 0
      BY <1>1, <2>1, <2>2
    <3> HIDE DEF v
    <3>3. y * Pex \in Int /\ (y + 1) * Pex = y * Pex + Pex /\ (y - 1) * Pex = y * Pex - Pex
      BY <1>1
    <3>4. Neighbour(v, "xDn") = v - 1
      BY <3>2, NeighbourInside
    <3>5. QED
      BY <1>1, <3>1, <3>3, <3>4 DEF v
  <2>4. y * (Pex - 1) \in Int
    BY <1>1
  <2>5. RecvQueue(Neighbour(w, p), "xDn") = SendQueue(w, "xUp")
    BY <1>1, <2>2, <2>4 DEF RecvQueue, SendQueue, XDnRx, x, y
  <2>6. QED
    BY <1>3, <2>2, <2>3, <2>5 DEF Opposite
<1>4. CASE p = "xDn"
  <2>1. x - 1 \in 0 .. Pex - 1 /\ Neighbour(w, p) = (x - 1) + y * Pex
    BY <1>1, <1>4 DEF HasEdge, Neighbour, x
  <2>2. Neighbour(w, p) \in Workers /\ X(Neighbour(w, p)) = x - 1 /\ Y(Neighbour(w, p)) = y
    BY <1>1, <2>1, WorkerAt
  <2>3. Neighbour(Neighbour(w, p), "xUp") = w
    <3> DEFINE v == Neighbour(w, p)
    <3>1. X(v) \in Int /\ Y(v) \in Int /\ v = (x - 1) + y * Pex
      BY <1>1, <2>1, <2>2
    <3>2. v \in Workers /\ X(v) # Pex - 1
      BY <1>1, <2>1, <2>2
    <3> HIDE DEF v
    <3>3. y * Pex \in Int /\ (y + 1) * Pex = y * Pex + Pex /\ (y - 1) * Pex = y * Pex - Pex
      BY <1>1
    <3>4. Neighbour(v, "xUp") = v + 1
      BY <3>2, NeighbourInside
    <3>5. QED
      BY <1>1, <3>1, <3>3, <3>4 DEF v
  <2>4. y * (Pex - 1) \in Int
    BY <1>1
  <2>5. RecvQueue(Neighbour(w, p), "xUp") = SendQueue(w, "xDn")
    BY <1>1, <1>2, <2>2, <2>4 DEF RecvQueue, SendQueue, XDnRx, x, y
  <2>6. QED
    BY <1>4, <2>2, <2>3, <2>5 DEF Opposite
<1>5. CASE p = "yUp"
  <2>1. y + 1 \in 0 .. Pey - 1 /\ Neighbour(w, p) = x + (y + 1) * Pex
    BY <1>1, <1>5 DEF HasEdge, Neighbour, y
  <2>2. Neighbour(w, p) \in Workers /\ X(Neighbour(w, p)) = x /\ Y(Neighbour(w, p)) = y + 1
    BY <1>1, <2>1, WorkerAt
  <2>3. Neighbour(Neighbour(w, p), "yDn") = w
    <3> DEFINE v == Neighbour(w, p)
    <3>1. X(v) \in Int /\ Y(v) \in Int /\ v = x + (y + 1) * Pex
      BY <1>1, <2>1, <2>2
    <3>2. v \in Workers /\ Y(v) # 0
      BY <1>1, <2>1, <2>2
    <3> HIDE DEF v
    <3>3. y * Pex \in Int /\ (y + 1) * Pex = y * Pex + Pex /\ (y - 1) * Pex = y * Pex - Pex
      BY <1>1
    <3>4. Neighbour(v, "yDn") = v - Pex
      BY <3>2, NeighbourInside
    <3>5. QED
      BY <1>1, <3>1, <3>3, <3>4 DEF v
  <2>4. x * (Pey - 1) \in Int
    BY <1>1
  <2>5. RecvQueue(Neighbour(w, p), "yDn") = SendQueue(w, "yUp")
    BY <1>1, <1>2, <2>2, <2>4 DEF RecvQueue, SendQueue, YDnRx, x, y
  <2>6. QED
    BY <1>5, <2>2, <2>3, <2>5 DEF Opposite
<1>6. CASE p = "yDn"
  <2>1. y - 1 \in 0 .. Pey - 1 /\ Neighbour(w, p) = x + (y - 1) * Pex
    BY <1>1, <1>6 DEF HasEdge, Neighbour, y
  <2>2. Neighbour(w, p) \in Workers /\ X(Neighbour(w, p)) = x /\ Y(Neighbour(w, p)) = y - 1
    BY <1>1, <2>1, WorkerAt
  <2>3. Neighbour(Neighbour(w, p), "yUp") = w
    <3> DEFINE v == Neighbour(w, p)
    <3>1. X(v) \in Int /\ Y(v) \in Int /\ v = x + (y - 1) * Pex
      BY <1>1, <2>1, <2>2
    <3>2. v \in Workers /\ Y(v) # Pey - 1
      BY <1>1, <2>1, <2>2
    <3> HIDE DEF v
    <3>3. y * Pex \in Int /\ (y + 1) * Pex = y * Pex + Pex /\ (y - 1) * Pex = y * Pex - Pex
      BY <1>1
    <3>4. Neighbour(v, "yUp") = v + Pex
      BY <3>2, NeighbourInside
    <3>5. QED
      BY <1>1, <3>1, <3>3, <3>4 DEF v
  <2>4. x * (Pey - 1) \in Int
    BY <1>1
  <2>5. RecvQueue(Neighbour(w, p), "yUp") = SendQueue(w, "yDn")
    BY <1>1, <1>2, <2>2, <2>4 DEF RecvQueue, SendQueue, YDnRx, x, y
  <2>6. QED
    BY <1>6, <2>2, <2>3, <2>5 DEF Opposite
<1>7. QED
  BY <1>3, <1>4, <1>5, <1>6 DEF Ports
-----------------------------------------------------------------------------
(* The programs.  A message sent at a place is received, by the neighbour,  *)
(* a fixed number of operations away, in the same round.                    *)

GridProgram ==
  IF build.pattern = "sweep" THEN SweepForth \o SweepBack \o SweepAcross \o SweepReturn
                             ELSE Halo
Length == IF build.pattern = "sweep" THEN 16 ELSE 8

Apart(port) ==
  IF build.pattern = "sweep" THEN -2 ELSE IF port \in {"xUp", "yUp"} THEN 5 ELSE 3

Ops == [act : {"send", "recv"}, port : Ports, wave : 1 .. 4]

LEMMA SweepParts ==
  /\ SweepForth \in Seq(Ops) /\ SweepBack \in Seq(Ops) /\ SweepAcross \in Seq(Ops)
  /\ SweepReturn \in Seq(Ops) /\ HaloSends \in Seq(Ops) /\ HaloReceives \in Seq(Ops)
  /\ Len(SweepForth) = 4 /\ Len(SweepBack) = 4 /\ Len(SweepAcross) = 4
  /\ Len(SweepReturn) = 4 /\ Len(HaloSends) = 4 /\ Len(HaloReceives) = 4
<1>1. \A p \in Ports, k \in 1 .. 4 : Send(p, k) \in Ops /\ Recv(p, k) \in Ops
  BY DEF Send, Recv, Ops
<1>2. \A a, b, c, d \in Ops : <<a, b, c, d>> \in Seq(Ops) /\ Len(<<a, b, c, d>>) = 4
  OBVIOUS
<1> HIDE DEF Ops
<1>3. {"xUp", "xDn", "yUp", "yDn"} \subseteq Ports
  BY DEF Ports
<1>4. SweepForth \in Seq(Ops) /\ Len(SweepForth) = 4
  BY <1>1, <1>2, <1>3 DEF SweepForth
<1>5. SweepBack \in Seq(Ops) /\ Len(SweepBack) = 4
  BY <1>1, <1>2, <1>3 DEF SweepBack
<1>6. SweepAcross \in Seq(Ops) /\ Len(SweepAcross) = 4
  BY <1>1, <1>2, <1>3 DEF SweepAcross
<1>7. SweepReturn \in Seq(Ops) /\ Len(SweepReturn) = 4
  BY <1>1, <1>2, <1>3 DEF SweepReturn
<1>8. HaloSends \in Seq(Ops) /\ Len(HaloSends) = 4
  BY <1>1, <1>2, <1>3 DEF HaloSends
<1>9. HaloReceives \in Seq(Ops) /\ Len(HaloReceives) = 4
  BY <1>1, <1>2, <1>3 DEF HaloReceives
<1>10. QED
  BY <1>4, <1>5, <1>6, <1>7, <1>8, <1>9

LEMMA Joined ==
  ASSUME NEW s \in Seq(Ops), NEW r \in Seq(Ops)
  PROVE  /\ s \o r \in Seq(Ops) /\ Len(s \o r) = Len(s) + Len(r)
         /\ \A i \in 1 .. Len(s) : (s \o r)[i] = s[i]
         /\ \A i \in 1 .. Len(r) : (s \o r)[i + Len(s)] = r[i]
<1>1. /\ s \o r \in Seq(Ops) /\ Len(s \o r) = Len(s) + Len(r)
      /\ \A i \in 1 .. Len(s) + Len(r) :
           (s \o r)[i] = IF i <= Len(s) THEN s[i] ELSE r[i - Len(s)]
  BY ConcatProperties
<1>2. QED
  BY <1>1

\* The same for a piece of four.
LEMMA FourMore ==
  ASSUME NEW s \in Seq(Ops), NEW r \in Seq(Ops), Len(r) = 4
  PROVE  /\ s \o r \in Seq(Ops) /\ Len(s \o r) = Len(s) + 4
         /\ \A i \in 1 .. Len(s) : (s \o r)[i] = s[i]
         /\ \A i \in 1 .. 4 : (s \o r)[i + Len(s)] = r[i]
<1>1. /\ s \o r \in Seq(Ops) /\ Len(s \o r) = Len(s) + Len(r)
      /\ \A i \in 1 .. Len(s) : (s \o r)[i] = s[i]
      /\ \A i \in 1 .. Len(r) : (s \o r)[i + Len(s)] = r[i]
  BY Joined
<1>2. QED
  BY <1>1

LEMMA SweepProgram ==
  LET P == SweepForth \o SweepBack \o SweepAcross \o SweepReturn
  IN  /\ Len(P) = 16
      /\ P[1] = Recv("xDn", 1) /\ P[2] = Recv("yDn", 1)
      /\ P[3] = Send("xUp", 1) /\ P[4] = Send("yUp", 1)
      /\ P[5] = Recv("xUp", 2) /\ P[6] = Recv("yUp", 2)
      /\ P[7] = Send("xDn", 2) /\ P[8] = Send("yDn", 2)
      /\ P[9] = Recv("xUp", 3) /\ P[10] = Recv("yDn", 3)
      /\ P[11] = Send("xDn", 3) /\ P[12] = Send("yUp", 3)
      /\ P[13] = Recv("xDn", 4) /\ P[14] = Recv("yUp", 4)
      /\ P[15] = Send("xUp", 4) /\ P[16] = Send("yDn", 4)
<1> DEFINE A == SweepForth \o SweepBack
<1> DEFINE B == A \o SweepAcross
<1> DEFINE C == B \o SweepReturn
<1>1. /\ A \in Seq(Ops) /\ Len(A) = Len(SweepForth) + 4
      /\ \A i \in 1 .. Len(SweepForth) : A[i] = SweepForth[i]
      /\ \A i \in 1 .. 4 : A[i + Len(SweepForth)] = SweepBack[i]
  BY SweepParts, FourMore
<1>2. Len(SweepForth) = 4 /\ Len(A) = 8
  BY <1>1, SweepParts
<1> HIDE DEF A
<1>3. /\ B \in Seq(Ops) /\ Len(B) = Len(A) + 4
      /\ \A i \in 1 .. Len(A) : B[i] = A[i]
      /\ \A i \in 1 .. 4 : B[i + Len(A)] = SweepAcross[i]
  BY <1>1, SweepParts, FourMore
<1>4. Len(B) = 12
  BY <1>2, <1>3
<1> HIDE DEF B
<1>5. /\ C \in Seq(Ops) /\ Len(C) = Len(B) + 4
      /\ \A i \in 1 .. Len(B) : C[i] = B[i]
      /\ \A i \in 1 .. 4 : C[i + Len(B)] = SweepReturn[i]
  BY <1>3, SweepParts, FourMore
<1> HIDE DEF C
<1>6. /\ C[1] = SweepForth[1] /\ C[2] = SweepForth[2] /\ C[3] = SweepForth[3] /\ C[4] = SweepForth[4]
      /\ C[5] = SweepBack[1] /\ C[6] = SweepBack[2] /\ C[7] = SweepBack[3] /\ C[8] = SweepBack[4]
      /\ C[9] = SweepAcross[1] /\ C[10] = SweepAcross[2] /\ C[11] = SweepAcross[3] /\ C[12] = SweepAcross[4]
      /\ C[13] = SweepReturn[1] /\ C[14] = SweepReturn[2] /\ C[15] = SweepReturn[3] /\ C[16] = SweepReturn[4]
  BY <1>1, <1>2, <1>3, <1>4, <1>5
<1>7. QED
  BY <1>4, <1>5, <1>6 DEF C, B, A, SweepForth, SweepBack, SweepAcross, SweepReturn

LEMMA HaloProgram ==
  /\ Len(Halo) = 8
  /\ Halo[1] = Send("xUp", 1) /\ Halo[2] = Send("xDn", 1)
  /\ Halo[3] = Send("yUp", 1) /\ Halo[4] = Send("yDn", 1)
  /\ Halo[5] = Recv("xUp", 1) /\ Halo[6] = Recv("xDn", 1)
  /\ Halo[7] = Recv("yUp", 1) /\ Halo[8] = Recv("yDn", 1)
<1>1. /\ Len(Halo) = Len(HaloSends) + 4 /\ Len(HaloSends) = 4
      /\ \A i \in 1 .. Len(HaloSends) : Halo[i] = HaloSends[i]
      /\ \A i \in 1 .. 4 : Halo[i + Len(HaloSends)] = HaloReceives[i]
  BY SweepParts, FourMore DEF Halo
<1>2. /\ Halo[1] = HaloSends[1] /\ Halo[2] = HaloSends[2] /\ Halo[3] = HaloSends[3] /\ Halo[4] = HaloSends[4]
      /\ Halo[5] = HaloReceives[1] /\ Halo[6] = HaloReceives[2] /\ Halo[7] = HaloReceives[3] /\ Halo[8] = HaloReceives[4]
  BY <1>1
<1>3. QED
  BY <1>1, <1>2 DEF HaloSends, HaloReceives

LEMMA GridOps ==
  ASSUME Grid, NEW i \in 0 .. Length - 1
  PROVE  LET op == GridProgram[i + 1]
         IN  /\ Len(GridProgram) = Length
             /\ op.act \in {"send", "recv"} /\ op.port \in Ports
             /\ op.act = "send" =>
                  /\ i + Apart(op.port) \in 0 .. Length - 1
                  /\ GridProgram[i + Apart(op.port) + 1] = Recv(Opposite[op.port], op.wave)
             /\ op.act = "recv" =>
                  /\ i - Apart(Opposite[op.port]) \in 0 .. Length - 1
                  /\ GridProgram[i - Apart(Opposite[op.port]) + 1]
                       = Send(Opposite[op.port], op.wave)
<1>1. CASE build.pattern = "sweep"
  <2> DEFINE P == GridProgram
  <2>1. i \in {0, 1, 2, 3, 4, 5, 6, 7, 8, 9, 10, 11, 12, 13, 14, 15} /\ Length = 16
    BY <1>1 DEF Length
  <2>2. /\ Len(P) = 16
        /\ P[1] = Recv("xDn", 1) /\ P[2] = Recv("yDn", 1)
        /\ P[3] = Send("xUp", 1) /\ P[4] = Send("yUp", 1)
        /\ P[5] = Recv("xUp", 2) /\ P[6] = Recv("yUp", 2)
        /\ P[7] = Send("xDn", 2) /\ P[8] = Send("yDn", 2)
        /\ P[9] = Recv("xUp", 3) /\ P[10] = Recv("yDn", 3)
        /\ P[11] = Send("xDn", 3) /\ P[12] = Send("yUp", 3)
        /\ P[13] = Recv("xDn", 4) /\ P[14] = Recv("yUp", 4)
        /\ P[15] = Send("xUp", 4) /\ P[16] = Send("yDn", 4)
    BY <1>1, SweepProgram DEF GridProgram
  <2>3. \A port \in Ports : Apart(port) = -2
    BY <1>1 DEF Apart
  <2> HIDE DEF P
  <2>4. LET op == P[i + 1]
        IN  /\ op.act \in {"send", "recv"} /\ op.port \in Ports
            /\ op.act = "send" => i - 2 \in 0 .. 15 /\ P[i - 2 + 1] = Recv(Opposite[op.port], op.wave)
            /\ op.act = "recv" => i + 2 \in 0 .. 15 /\ P[i + 2 + 1] = Send(Opposite[op.port], op.wave)
    BY <2>1, <2>2 DEF Send, Recv, Opposite, Ports
  <2>5. \A port \in Ports : Opposite[port] \in Ports
    BY DEF Opposite, Ports
  <2>6. QED
    BY <2>1, <2>2, <2>3, <2>4, <2>5 DEF P
<1>2. CASE build.pattern = "halo"
  <2> DEFINE P == GridProgram
  <2>1. i \in {0, 1, 2, 3, 4, 5, 6, 7} /\ Length = 8
    BY <1>2 DEF Length
  <2>2. /\ Len(P) = 8
        /\ P[1] = Send("xUp", 1) /\ P[2] = Send("xDn", 1)
        /\ P[3] = Send("yUp", 1) /\ P[4] = Send("yDn", 1)
        /\ P[5] = Recv("xUp", 1) /\ P[6] = Recv("xDn", 1)
        /\ P[7] = Recv("yUp", 1) /\ P[8] = Recv("yDn", 1)
    BY <1>2, HaloProgram DEF GridProgram
  <2>3. Apart("xUp") = 5 /\ Apart("xDn") = 3 /\ Apart("yUp") = 5 /\ Apart("yDn") = 3
    BY <1>2 DEF Apart
  <2> HIDE DEF P
  <2>4. QED
    BY <2>1, <2>2, <2>3 DEF Send, Recv, Opposite, Ports, P
<1>3. QED
  BY <1>1, <1>2 DEF Grid

-----------------------------------------------------------------------------
(* The places of a run: the round, the operation and the piece are the      *)
(* digits of a place.                                                       *)

LEMMA Digits ==
  ASSUME NEW k \in Nat \ {0}, NEW s \in Nat
  PROVE  s \div k \in Nat /\ s % k \in 0 .. k - 1 /\ s = (s % k) + (s \div k) * k
OBVIOUS

LEMMA OfDigits ==
  ASSUME NEW k \in Nat \ {0}, NEW a \in 0 .. k - 1, NEW b \in Nat
  PROVE  /\ a + b * k \in Nat
         /\ (a + b * k) \div k = b /\ (a + b * k) % k = a
<1> DEFINE s == a + b * k
<1>1. b * k \in Nat
  OBVIOUS
<1>2. s \in Nat
  BY <1>1
<1>3. s \div k \in Nat /\ s % k \in 0 .. k - 1 /\ s = (s % k) + (s \div k) * k
  BY <1>2, Digits
<1> DEFINE c == s % k
<1> DEFINE d == s \div k
<1>4. a + b * k = c + d * k /\ c \in 0 .. k - 1 /\ d \in Nat
  BY <1>3
<1> HIDE DEF c, d
<1>5. a = c /\ b = d
  BY <1>4, DigitsUnique
<1>6. QED
  BY <1>2, <1>5 DEF c, d

Index(s)   == (s \div Pieces) % Length
Here(s)    == GridProgram[Index(s) + 1]
InRound(s) == (s \div Pieces) \div Length
Rounds     == IF build.outside THEN Repeats * build.blocks ELSE Repeats
AllPlaces  == Rounds * Length * Pieces

\* All workers of a grid run the same program.
LEMMA GridPlaces ==
  ASSUME Grid, build \in Builds, NEW w \in Workers
  PROVE  /\ Pieces \in Nat \ {0} /\ Length \in Nat \ {0} /\ Rounds \in Nat \ {0}
         /\ \A s : OpAt(w, s) = Here(s) /\ RoundAt(w, s) = InRound(s)
         /\ Total(w) = AllPlaces
<1>1. build.blocks \in Nat \ {0} /\ build.outside \in BOOLEAN /\ Repeats \in Nat \ {0}
  BY DEF EmberAssumption
<1>2. Repeats * build.blocks \in Nat \ {0}
  BY <1>1
<1>3. Pieces \in Nat \ {0} /\ Length \in Nat \ {0} /\ Rounds \in Nat \ {0}
  BY <1>1, <1>2 DEF Pieces, Length, Rounds
<1>4. Program(w) = GridProgram
  <2>1. CASE build.pattern = "sweep"
    <3>1. Program(w) = Programs.sweep[w]
      BY <2>1 DEF Program
    <3>2. Programs.sweep = [u \in Workers |-> SweepForth \o SweepBack \o SweepAcross \o SweepReturn]
      BY DEF Programs
    <3>3. QED
      BY <2>1, <3>1, <3>2 DEF GridProgram
  <2>2. CASE build.pattern = "halo"
    <3>1. Program(w) = Programs.halo[w]
      BY <2>2 DEF Program
    <3>2. Programs.halo = [u \in Workers |-> Halo]
      BY DEF Programs
    <3>3. QED
      BY <2>2, <3>1, <3>2 DEF GridProgram
  <2>3. QED
    BY <2>1, <2>2 DEF Grid
<1>5. Len(GridProgram) = Length
  <2>1. 0 \in 0 .. Length - 1
    BY <1>3
  <2>2. QED
    BY <2>1, GridOps
<1>6. \A s : OpAt(w, s) = Here(s) /\ RoundAt(w, s) = InRound(s)
  BY <1>4, <1>5 DEF OpAt, RoundAt, Here, InRound, Index
<1>7. Total(w) = AllPlaces
  <2>1. Total(w) = Repeats * build.blocks * Length
    BY <1>4, <1>5 DEF Total
  <2>2. CASE build.outside
    BY <1>1, <1>2, <1>3, <2>1, <2>2 DEF AllPlaces, Rounds, Pieces
  <2>3. CASE ~build.outside
    <3>1. AllPlaces = Repeats * Length * build.blocks
      BY <2>3 DEF AllPlaces, Rounds, Pieces
    <3>2. QED
      BY <1>1, <1>3, <2>1, <3>1
  <2>4. QED
    BY <2>2, <2>3
<1>8. QED
  BY <1>3, <1>6, <1>7

\* A place e operations away in the same round.
LEMMA Moved ==
  ASSUME Grid, build \in Builds, NEW s \in Nat, NEW e \in Int,
         Index(s) + e \in 0 .. Length - 1
  PROVE  /\ s + e * Pieces \in Nat
         /\ Index(s + e * Pieces) = Index(s) + e /\ InRound(s + e * Pieces) = InRound(s)
         /\ (s + e * Pieces) % Pieces = s % Pieces
<1> DEFINE d == s \div Pieces
<1> DEFINE r == s % Pieces
<1> DEFINE n == d \div Length
<1> DEFINE i == d % Length
<1>1. Pieces \in Nat \ {0} /\ Length \in Nat \ {0}
  <2>1. Master \in Workers
    BY DEF Master, Workers, NThreads, EmberAssumption
  <2>2. QED
    BY <2>1, GridPlaces
<1>2. d \in Nat /\ r \in 0 .. Pieces - 1 /\ s = r + d * Pieces
  BY <1>1, Digits
<1>3. n \in Nat /\ i \in 0 .. Length - 1 /\ d = i + n * Length
  BY <1>1, <1>2, Digits
<1>4. i + e \in 0 .. Length - 1
  BY DEF Index
<1> DEFINE d2 == (i + e) + n * Length
<1>5. d2 \in Nat /\ d2 \div Length = n /\ d2 % Length = i + e
  BY <1>1, <1>3, <1>4, OfDigits
<1>6. d2 = d + e
  <2>1. n * Length \in Nat
    BY <1>1, <1>3
  <2>2. QED
    BY <1>3, <2>1
<1>7. /\ r + d2 * Pieces \in Nat
      /\ (r + d2 * Pieces) \div Pieces = d2 /\ (r + d2 * Pieces) % Pieces = r
  <2> HIDE DEF d2, r
  <2>1. QED
    BY <1>1, <1>2, <1>5, OfDigits
<1>8. s + e * Pieces = r + d2 * Pieces
  <2>1. d2 * Pieces = d * Pieces + e * Pieces
    <3> HIDE DEF d2, d
    <3>1. QED
      BY <1>1, <1>2, <1>6
  <2>2. d * Pieces \in Int /\ e * Pieces \in Int /\ d2 * Pieces \in Int
    <3> HIDE DEF d2, d
    <3>1. QED
      BY <1>1, <1>2, <1>5
  <2>3. QED
    <3> HIDE DEF d2, d, r
    <3>1. QED
      BY <1>2, <2>1, <2>2
<1>9. QED
  BY <1>5, <1>7, <1>8 DEF Index, InRound

\* What a place far enough ahead is, in terms of rounds.
LEMMA PlacesLeft ==
  ASSUME Grid, build \in Builds, NEW s \in Nat
  PROVE  /\ AllPlaces \in Nat
         /\ s < AllPlaces <=> InRound(s) < Rounds
<1> DEFINE d == s \div Pieces
<1> DEFINE r == s % Pieces
<1> DEFINE n == d \div Length
<1> DEFINE i == d % Length
<1>1. Pieces \in Nat \ {0} /\ Length \in Nat \ {0} /\ Rounds \in Nat \ {0}
  <2>1. Master \in Workers
    BY DEF Master, Workers, NThreads, EmberAssumption
  <2>2. QED
    BY <2>1, GridPlaces
<1>2. d \in Nat /\ r \in 0 .. Pieces - 1 /\ s = r + d * Pieces
  BY <1>1, Digits
<1>3. n \in Nat /\ i \in 0 .. Length - 1 /\ d = i + n * Length
  BY <1>1, <1>2, Digits
<1>4. InRound(s) = n
  BY DEF InRound
<1> HIDE DEF d, r, n, i
<1>5. Rounds * Length \in Nat /\ AllPlaces \in Nat
  BY <1>1 DEF AllPlaces
<1>6. ASSUME n < Rounds PROVE s < AllPlaces
  <2>1. d \in 0 .. Rounds * Length - 1
    <3>1. n \in 0 .. Rounds - 1
      BY <1>1, <1>3, <1>6
    <3>2. QED
      BY <1>1, <1>3, <3>1, TwoDigits
  <2>2. Rounds * Length \in Nat \ {0}
    BY <1>1
  <2>3. r + d * Pieces \in 0 .. (Rounds * Length) * Pieces - 1
    BY <1>1, <1>2, <2>1, <2>2, TwoDigits
  <2>4. QED
    BY <1>2, <1>5, <2>3 DEF AllPlaces
<1>7. ASSUME n >= Rounds PROVE s >= AllPlaces
  <2>1. (n - Rounds) * Length \in Nat /\ n * Length = (n - Rounds) * Length + Rounds * Length
    BY <1>1, <1>3, <1>7
  <2>2. d >= Rounds * Length
    BY <1>3, <1>5, <2>1
  <2>3. /\ (d - Rounds * Length) * Pieces \in Nat
        /\ d * Pieces = (d - Rounds * Length) * Pieces + Rounds * Length * Pieces
    <3> DEFINE m == Rounds * Length
    <3>1. m \in Nat /\ d >= m
      BY <1>5, <2>2
    <3> HIDE DEF m
    <3>2. (d - m) * Pieces \in Nat /\ d * Pieces = (d - m) * Pieces + m * Pieces
      BY <1>1, <1>2, <3>1
    <3>3. QED
      BY <3>2 DEF m
  <2>4. QED
    BY <1>2, <1>5, <2>3 DEF AllPlaces
<1>8. QED
  BY <1>1, <1>3, <1>4, <1>5, <1>6, <1>7

\* The place a worker sends at port, and how many places on it is received.
Sends(port, s) == Here(s).act = "send" /\ Here(s).port = port
Gap(port) == Apart(port) * Pieces

\* A send and the receive of its message have round, wave and piece in common.
SameMessage(s, t) ==
  Here(s).wave = Here(t).wave /\ InRound(s) = InRound(t) /\ s % Pieces = t % Pieces

LEMMA Matches ==
  ASSUME Grid, build \in Builds, NEW s \in Nat
  PROVE  /\ Here(s).act \in {"send", "recv"} /\ Here(s).port \in Ports
         /\ \A p \in Ports :
              /\ Gap(p) \in Int
              /\ Sends(p, s) =>
                   /\ s + Gap(p) \in Nat /\ SameMessage(s, s + Gap(p))
                   /\ Here(s + Gap(p)).act = "recv" /\ Here(s + Gap(p)).port = Opposite[p]
              /\ Here(s).act = "recv" /\ Here(s).port = Opposite[p] =>
                   /\ s - Gap(p) \in Nat /\ SameMessage(s, s - Gap(p))
                   /\ Sends(p, s - Gap(p))
<1>1. Pieces \in Nat \ {0} /\ Length \in Nat \ {0}
  <2>1. Master \in Workers
    BY DEF Master, Workers, NThreads, EmberAssumption
  <2>2. QED
    BY <2>1, GridPlaces
<1>2. Index(s) \in 0 .. Length - 1
  BY <1>1, Digits DEF Index
<1>3. \A p \in Ports : /\ Apart(p) \in Int /\ Gap(p) \in Int
                       /\ Opposite[p] \in Ports /\ Opposite[Opposite[p]] = p
  BY <1>1 DEF Apart, Gap, Opposite, Ports
<1>4. Here(s).act \in {"send", "recv"} /\ Here(s).port \in Ports
  BY <1>2, GridOps DEF Here
<1>5. ASSUME NEW p \in Ports, Sends(p, s)
      PROVE  /\ s + Gap(p) \in Nat /\ SameMessage(s, s + Gap(p))
             /\ Here(s + Gap(p)).act = "recv" /\ Here(s + Gap(p)).port = Opposite[p]
  <2>1. /\ Index(s) + Apart(p) \in 0 .. Length - 1
        /\ GridProgram[Index(s) + Apart(p) + 1] = Recv(Opposite[p], Here(s).wave)
    BY <1>2, <1>5, GridOps DEF Here, Sends
  <2>2. /\ s + Gap(p) \in Nat
        /\ Index(s + Gap(p)) = Index(s) + Apart(p) /\ InRound(s + Gap(p)) = InRound(s)
        /\ (s + Gap(p)) % Pieces = s % Pieces
    BY <1>3, <2>1, Moved DEF Gap
  <2>3. Here(s + Gap(p)) = Recv(Opposite[p], Here(s).wave)
    BY <2>1, <2>2 DEF Here
  <2>4. QED
    BY <2>2, <2>3 DEF SameMessage, Recv
<1>6. ASSUME NEW p \in Ports, Here(s).act = "recv", Here(s).port = Opposite[p]
      PROVE  s - Gap(p) \in Nat /\ SameMessage(s, s - Gap(p)) /\ Sends(p, s - Gap(p))
  <2>1. /\ Index(s) - Apart(p) \in 0 .. Length - 1
        /\ GridProgram[Index(s) - Apart(p) + 1] = Send(p, Here(s).wave)
    BY <1>2, <1>3, <1>6, GridOps DEF Here
  <2> DEFINE e == -Apart(p)
  <2>2. /\ e \in Int /\ Index(s) + e = Index(s) - Apart(p)
        /\ Index(s) + e \in 0 .. Length - 1 /\ s + e * Pieces = s - Gap(p)
    BY <1>1, <1>2, <1>3, <2>1 DEF Gap
  <2> HIDE DEF e
  <2>3. /\ s + e * Pieces \in Nat
        /\ Index(s + e * Pieces) = Index(s) + e /\ InRound(s + e * Pieces) = InRound(s)
        /\ (s + e * Pieces) % Pieces = s % Pieces
    BY <2>2, Moved
  <2>4. Here(s - Gap(p)) = Send(p, Here(s).wave)
    BY <2>1, <2>2, <2>3 DEF Here
  <2>5. QED
    BY <2>2, <2>3, <2>4 DEF SameMessage, Send, Sends
<1>7. QED
  BY <1>3, <1>4, <1>5, <1>6

-----------------------------------------------------------------------------
(* Where a worker goes from a place.                                       *)

LEMMA SmallestOf ==
  ASSUME NEW T, T \subseteq Nat, T # {}
  PROVE  \E x \in T : \A y \in T : x <= y
<1> DEFINE R == {p \in Nat \X Nat : p[1] < p[2]}
<1>1. IsWellFoundedOn(R, Nat)
  <2>1. R = OpToRel(<, Nat)
    BY DEF OpToRel
  <2>2. QED
    BY <2>1, NatLessThanWellFounded
<1>2. \A x, y \in Nat : <<y, x>> \notin R => x <= y
  OBVIOUS
<1>3. \E x \in T : \A y \in T : <<y, x>> \notin R
  <2> HIDE DEF R
  <2>1. QED
    BY <1>1, WFMin
<1>4. QED
  <2> HIDE DEF R
  <2>1. QED
    BY <1>2, <1>3

LEMMA SkipsToNext ==
  ASSUME NEW w \in Workers, Total(w) \in Nat, NEW s \in 0 .. Total(w)
  PROVE  LET t == Skip(w, s)
         IN  /\ t \in s .. Total(w)
             /\ t = Total(w) \/ Runs(w, t)
             /\ \A u \in s .. t - 1 : ~Runs(w, u)
<1> DEFINE Ends(t) == t = Total(w) \/ Runs(w, t)
<1> DEFINE T == {t \in s .. Total(w) : Ends(t)}
<1>1. Total(w) \in T /\ T \subseteq Nat
  OBVIOUS
<1>2. PICK x \in T : \A y \in T : x <= y
  <2> HIDE DEF T
  <2>1. QED
    BY <1>1, SmallestOf
<1>3. /\ x \in s .. Total(w)
      /\ x = Total(w) \/ Runs(w, x)
      /\ \A u \in s .. x - 1 : ~Runs(w, u)
  BY <1>2
<1>4. QED
  BY <1>3 DEF Skip

-----------------------------------------------------------------------------
(* What a queue holds when its producer w, which sends at port, has come to *)
(* place a and its consumer to place b: the messages of all places passed   *)
(* whose receives have not been, in their order; and nothing is received    *)
(* before it is sent.                                                       *)

Messages == [from : Workers, at : Nat]

InOrder(content) ==
  \A i, j \in 1 .. Len(content) : i < j => content[i].at < content[j].at

Holds(content, w, port, a, b) ==
  /\ content \in Seq(Messages) /\ InOrder(content)
  /\ \A i \in 1 .. Len(content) : content[i].from = w /\ Sends(port, content[i].at)
  /\ \A s \in Nat : Sends(port, s) =>
       (s < a /\ b <= s + Gap(port)) <=> (\E i \in 1 .. Len(content) : content[i].at = s)
  /\ \A s \in Nat : Sends(port, s) /\ s + Gap(port) < b => s < a

\* A step of the producer that sends nothing there,
LEMMA ProducerPasses ==
  ASSUME NEW content, NEW w, NEW port, NEW a \in Nat, NEW b \in Nat,
         NEW a2 \in Nat, Holds(content, w, port, a, b),
         a <= a2, \A s \in a .. a2 - 1 : ~Sends(port, s)
  PROVE  Holds(content, w, port, a2, b)
<1>1. \A s \in Nat : Sends(port, s) => (s < a <=> s < a2)
  OBVIOUS
<1>2. QED
  BY <1>1 DEF Holds

\* one of the consumer that receives nothing from it,
LEMMA ConsumerPasses ==
  ASSUME NEW content, NEW w, NEW port, NEW a \in Nat, NEW b \in Nat,
         NEW b2 \in Nat, Holds(content, w, port, a, b), Gap(port) \in Int,
         b <= b2, \A s \in Nat : Sends(port, s) => s + Gap(port) \notin b .. b2 - 1
  PROVE  Holds(content, w, port, a, b2)
<1>1. \A s \in Nat : Sends(port, s) =>
        /\ b <= s + Gap(port) <=> b2 <= s + Gap(port)
        /\ s + Gap(port) < b <=> s + Gap(port) < b2
  OBVIOUS
<1>2. QED
  BY <1>1 DEF Holds

\* one that sends,
LEMMA ProducerSends ==
  ASSUME NEW content, NEW w \in Workers, NEW port, NEW a \in Nat, NEW b \in Nat,
         NEW a2 \in Nat, Holds(content, w, port, a, b), Gap(port) \in Int,
         Sends(port, a), a < a2, \A s \in a + 1 .. a2 - 1 : ~Sends(port, s)
  PROVE  Holds(Append(content, [from |-> w, at |-> a]), w, port, a2, b)
<1> DEFINE m == [from |-> w, at |-> a]
<1> DEFINE c == Append(content, m)
<1> DEFINE n == Len(content)
<1>1. content \in Seq(Messages) /\ m \in Messages /\ n \in Nat
  BY DEF Holds, Messages
<1>2. /\ c \in Seq(Messages) /\ Len(c) = n + 1
      /\ \A i \in 1 .. n : c[i] = content[i]
      /\ c[n + 1] = m
  BY <1>1, AppendProperties
<1>3. \A i \in 1 .. n : content[i].at \in Nat /\ content[i].at < a
  <2>1. SUFFICES ASSUME NEW i \in 1 .. n PROVE content[i].at \in Nat /\ content[i].at < a
    OBVIOUS
  <2>2. content[i] \in Messages
    BY <1>1
  <2>3. content[i].at \in Nat /\ Sends(port, content[i].at)
    BY <2>2 DEF Holds, Messages
  <2>4. QED
    BY <2>3 DEF Holds
<1>4. m.from = w /\ m.at = a
  OBVIOUS
<1>5. b <= a + Gap(port)
  BY DEF Holds
<1>6. \A s \in Nat : Sends(port, s) => (s < a2 <=> (s < a \/ s = a))
  OBVIOUS
<1> HIDE DEF c, m, n
<1>7. InOrder(c)
  <2>1. SUFFICES ASSUME NEW i \in 1 .. n + 1, NEW j \in 1 .. n + 1, i < j
                 PROVE  c[i].at < c[j].at
    BY <1>2 DEF InOrder
  <2>2. i \in 1 .. n
    BY <1>1, <2>1
  <2>3. CASE j = n + 1
    BY <1>2, <1>3, <1>4, <2>2, <2>3
  <2>4. CASE j # n + 1
    <3>1. j \in 1 .. n
      BY <1>1, <2>4
    <3>2. QED
      BY <1>2, <2>1, <2>2, <3>1 DEF Holds, InOrder, n
  <2>5. QED
    BY <2>3, <2>4
<1>8. \A i \in 1 .. n + 1 : i \in 1 .. n \/ i = n + 1
  BY <1>1
<1>9. \A i \in 1 .. n + 1 : c[i].from = w /\ Sends(port, c[i].at)
  BY <1>2, <1>4, <1>8 DEF Holds, n
<1>10. ASSUME NEW s \in Nat, Sends(port, s)
       PROVE  (s < a2 /\ b <= s + Gap(port)) <=> (\E i \in 1 .. n + 1 : c[i].at = s)
  <2>1. (\E i \in 1 .. n + 1 : c[i].at = s) <=> ((\E i \in 1 .. n : content[i].at = s) \/ s = a)
    <3>1. 1 .. n \subseteq 1 .. n + 1 /\ n + 1 \in 1 .. n + 1
      BY <1>1
    <3>2. QED
      BY <1>2, <1>4, <1>8, <3>1
  <2>2. (s < a /\ b <= s + Gap(port)) <=> (\E i \in 1 .. n : content[i].at = s)
    BY <1>10 DEF Holds, n
  <2>3. QED
    BY <1>5, <1>6, <1>10, <2>1, <2>2
<1>11. \A s \in Nat : Sends(port, s) /\ s + Gap(port) < b => s < a2
  BY DEF Holds
<1>12. QED
  BY <1>2, <1>7, <1>9, <1>10, <1>11 DEF Holds, c, m

\* and one that receives, which gets the message sent for it.
LEMMA ConsumerReceives ==
  ASSUME NEW content, NEW w, NEW port, NEW a \in Nat, NEW b \in Nat,
         NEW b2 \in Nat, Holds(content, w, port, a, b), Gap(port) \in Int,
         content # <<>>, b - Gap(port) \in Nat, Sends(port, b - Gap(port)),
         b < b2, \A s \in Nat : Sends(port, s) => s + Gap(port) \notin b + 1 .. b2 - 1
  PROVE  /\ Head(content).from = w /\ Head(content).at = b - Gap(port)
         /\ Holds(Tail(content), w, port, a, b2)
<1> DEFINE c == Tail(content)
<1> DEFINE n == Len(content)
<1> DEFINE s0 == b - Gap(port)
<1>1. content \in Seq(Messages) /\ n \in Nat /\ n > 0
  BY DEF Holds
<1>2. /\ Head(content) = content[1]
      /\ c \in Seq(Messages) /\ Len(c) = n - 1
      /\ \A i \in 1 .. n - 1 : c[i] = content[i + 1]
  BY <1>1, HeadTailProperties
<1>3. \A i \in 1 .. n : /\ content[i].at \in Nat /\ Sends(port, content[i].at)
                        /\ content[i].at < a /\ b <= content[i].at + Gap(port)
                        /\ content[i].from = w
  <2>1. SUFFICES ASSUME NEW i \in 1 .. n
                 PROVE  /\ content[i].at \in Nat /\ Sends(port, content[i].at)
                        /\ content[i].at < a /\ b <= content[i].at + Gap(port)
                        /\ content[i].from = w
    OBVIOUS
  <2>2. content[i] \in Messages
    BY <1>1
  <2>3. content[i].at \in Nat /\ Sends(port, content[i].at) /\ content[i].from = w
    BY <2>2 DEF Holds, Messages
  <2>4. QED
    BY <2>3 DEF Holds
<1>4. \E i \in 1 .. n : content[i].at = s0
  <2>1. s0 < a
    <3>1. 1 \in 1 .. n
      BY <1>1
    <3>2. QED
      BY <1>3, <3>1
  <2>2. b <= s0 + Gap(port)
    OBVIOUS
  <2>3. QED
    BY <2>1, <2>2 DEF Holds
<1>5. content[1].at = s0
  <2>1. PICK i \in 1 .. n : content[i].at = s0
    BY <1>4
  <2>2. CASE i = 1
    BY <2>1, <2>2
  <2>3. CASE i # 1
    <3>1. 1 \in 1 .. n /\ 1 < i
      BY <1>1, <2>3
    <3>2. content[1].at < s0
      BY <2>1, <3>1 DEF Holds, InOrder
    <3>3. QED
      BY <1>3, <3>1, <3>2
  <2>4. QED
    BY <2>2, <2>3
<1>6. \A s \in Nat : Sends(port, s) => (b2 <= s + Gap(port) <=> (b <= s + Gap(port) /\ s # s0))
  OBVIOUS
<1>7. \A s \in Nat : Sends(port, s) /\ s + Gap(port) < b2 => s + Gap(port) < b \/ s = s0
  OBVIOUS
<1>8. s0 < a
  <2>1. 1 \in 1 .. n
    BY <1>1
  <2>2. QED
    BY <1>3, <1>5, <2>1
<1> HIDE DEF c, n, s0
<1>9. \A i \in 1 .. n - 1 : i + 1 \in 1 .. n
  BY <1>1
<1>10. InOrder(c)
  <2>1. SUFFICES ASSUME NEW i \in 1 .. n - 1, NEW j \in 1 .. n - 1, i < j
                 PROVE  c[i].at < c[j].at
    BY <1>2 DEF InOrder
  <2>2. i + 1 \in 1 .. n /\ j + 1 \in 1 .. n /\ i + 1 < j + 1
    BY <1>1, <2>1
  <2>3. content[i + 1].at < content[j + 1].at
    BY <2>2 DEF Holds, InOrder, n
  <2>4. QED
    BY <1>2, <2>3
<1>11. \A i \in 1 .. n - 1 : c[i].from = w /\ Sends(port, c[i].at)
  BY <1>2, <1>3, <1>9
<1>12. ASSUME NEW s \in Nat, Sends(port, s)
       PROVE  (s < a /\ b2 <= s + Gap(port)) <=> (\E i \in 1 .. n - 1 : c[i].at = s)
  <2>1. (\E i \in 1 .. n - 1 : c[i].at = s) <=> (\E i \in 1 .. n : content[i].at = s) /\ s # s0
    <3>1. ASSUME NEW i \in 1 .. n - 1, c[i].at = s
          PROVE  (\E j \in 1 .. n : content[j].at = s) /\ s # s0
      <4>1. i + 1 \in 1 .. n /\ 1 \in 1 .. n /\ 1 < i + 1
        BY <1>1
      <4>2. content[i + 1].at = s
        BY <1>2, <3>1
      <4>3. s0 < s
        BY <1>5, <4>1, <4>2 DEF Holds, InOrder, n
      <4>4. s0 \in Nat
        BY <1>3, <1>5, <4>1
      <4>5. QED
        BY <4>1, <4>2, <4>3, <4>4
    <3>2. ASSUME NEW j \in 1 .. n, content[j].at = s, s # s0
          PROVE  \E i \in 1 .. n - 1 : c[i].at = s
      <4>1. j # 1
        BY <1>5, <3>2
      <4>2. j - 1 \in 1 .. n - 1 /\ (j - 1) + 1 = j
        BY <1>1, <4>1
      <4>3. c[j - 1].at = s
        BY <1>2, <3>2, <4>2
      <4>4. QED
        BY <4>2, <4>3
    <3>3. QED
      BY <3>1, <3>2
  <2>2. (s < a /\ b <= s + Gap(port)) <=> (\E i \in 1 .. n : content[i].at = s)
    BY <1>12 DEF Holds, n
  <2>3. QED
    BY <1>6, <1>12, <2>1, <2>2
<1>13. \A s \in Nat : Sends(port, s) /\ s + Gap(port) < b2 => s < a
  BY <1>7, <1>8 DEF Holds
<1>14. Head(content).from = w /\ Head(content).at = s0
  <2>1. 1 \in 1 .. n
    BY <1>1
  <2>2. QED
    BY <1>2, <1>3, <1>5, <2>1
<1>15. Holds(c, w, port, a, b2)
  BY <1>2, <1>10, <1>11, <1>12, <1>13 DEF Holds
<1>16. QED
  BY <1>14, <1>15 DEF c, s0

-----------------------------------------------------------------------------
(* The invariant of the grid's patterns.                                   *)

TypeOK ==
  /\ build \in Builds /\ ready \in Nat
  /\ pc \in [Workers -> {"open", "wait", "run", "done"}]
  /\ step \in [Workers -> Nat]
  /\ queues \in [0 .. NQueues -> Seq(Messages)]

\* Each worker is at an operation it has a neighbour for, or at its end.
OnOperation ==
  \A w \in Workers :
    /\ Total(w) \in Nat /\ step[w] <= Total(w)
    /\ step[w] = Total(w) \/ Runs(w, step[w])
    /\ pc[w] = "done" => step[w] = Total(w)

EachQueueHolds ==
  Grid => \A w \in Workers, port \in Ports :
    HasEdge(w, port) =>
      Holds(queues[SendQueue(w, port)], w, port, step[w], step[Neighbour(w, port)])

\* The queues of the other patterns stay empty.
OthersEmpty ==
  Grid => \A q \in 0 .. NQueues :
    (\A w \in Workers, port \in Ports : HasEdge(w, port) => SendQueue(w, port) # q)
      => queues[q] = <<>>

LEMMA Across ==
  ASSUME NEW w \in Workers, NEW port \in Ports, HasEdge(w, port)
  PROVE  LET u == Neighbour(w, port)
         IN  /\ u \in Workers /\ u # w
             /\ Opposite[port] \in Ports /\ Opposite[Opposite[port]] = port
             /\ HasEdge(u, Opposite[port]) /\ Neighbour(u, Opposite[port]) = w
             /\ RecvQueue(u, Opposite[port]) = SendQueue(w, port)
             /\ SendQueue(w, port) \in 1 .. NQueues /\ SendQueue(w, port) \in 0 .. NQueues
<1> DEFINE u == Neighbour(w, port)
<1>1. /\ u \in Workers /\ Neighbour(u, Opposite[port]) = w
      /\ RecvQueue(u, Opposite[port]) = SendQueue(w, port)
  BY EndsAgree
<1>2. u # w
  <2>1. w \in Int /\ Pex \in Nat \ {0}
    BY DEF Workers, NThreads, EmberAssumption
  <2>2. u \in {w + 1, w - 1, w + Pex, w - Pex}
    BY DEF Neighbour, HasEdge, Ports
  <2> HIDE DEF u
  <2>3. QED
    BY <2>1, <2>2
<1>3. Opposite[port] \in Ports /\ Opposite[Opposite[port]] = port
  BY DEF Opposite, Ports
<1>4. w # NoWorker
  BY DEF Workers, NThreads, NoWorker, EmberAssumption
<1>5. SendQueue(w, port) \in 1 .. NQueues
  BY QueueExists
<1>6. SendQueue(w, port) \in 0 .. NQueues
  BY <1>5, BandSizes
<1>7. QED
  BY <1>1, <1>2, <1>3, <1>4, <1>5, <1>6 DEF HasEdge

\* From one place to the next there is nothing for a neighbour the worker has.
LEMMA Between ==
  ASSUME Grid, build \in Builds, NEW w \in Workers, NEW a \in Nat, a < Total(w)
  PROVE  LET t == Skip(w, a + 1)
         IN  /\ t \in Nat /\ a < t /\ t <= Total(w)
             /\ t = Total(w) \/ Runs(w, t)
             /\ \A port \in Ports : HasEdge(w, port) =>
                  \A s \in a + 1 .. t - 1 : Here(s).port # port
<1> DEFINE t == Skip(w, a + 1)
<1>1. Total(w) \in Nat /\ a + 1 \in 0 .. Total(w)
  <2>1. Total(w) \in Nat
    BY GridPlaces, PlacesLeft
  <2>2. QED
    BY <2>1
<1>2. /\ t \in a + 1 .. Total(w)
      /\ t = Total(w) \/ Runs(w, t)
      /\ \A u \in a + 1 .. t - 1 : ~Runs(w, u)
  BY <1>1, SkipsToNext
<1>3. \A s : OpAt(w, s) = Here(s)
  BY GridPlaces
<1>4. \A port \in Ports : HasEdge(w, port) => \A s \in a + 1 .. t - 1 : Here(s).port # port
  BY <1>2, <1>3 DEF Runs, HasEdge
<1>5. QED
  BY <1>1, <1>2, <1>4

\* What a worker is at.
LEMMA AtEdge ==
  ASSUME TypeOK, OnOperation, Grid, NEW w \in Workers, NEW act, AtOp(w, act)
  PROVE  /\ step[w] \in Nat /\ step[w] < Total(w)
         /\ Op(w) = Here(step[w]) /\ Op(w).act = act /\ Round(w) = InRound(step[w])
         /\ Op(w).port \in Ports /\ HasEdge(w, Op(w).port)
<1>1. step[w] \in Nat /\ step[w] < Total(w) /\ build \in Builds /\ Op(w).act = act
  BY DEF AtOp, TypeOK
<1>2. Op(w) = Here(step[w]) /\ Round(w) = InRound(step[w])
  BY <1>1, GridPlaces DEF Op, Round
<1>3. Op(w).port \in Ports
  BY <1>1, <1>2, Matches
<1>4. Runs(w, step[w])
  BY <1>1 DEF OnOperation
<1>5. HasEdge(w, Op(w).port)
  BY <1>3, <1>4 DEF Runs, HasEdge, Op, Ports
<1>6. QED
  BY <1>1, <1>2, <1>3, <1>5

\* The places on the way are those of the step before or of skipped operations.
LEMMA NoneOnTheWay ==
  ASSUME Grid, build \in Builds, NEW w \in Workers, NEW a \in Nat, a < Total(w),
         NEW t, t = Skip(w, a + 1), NEW port \in Ports, HasEdge(w, port)
  PROVE  /\ t \in Nat /\ a < t
         /\ \A s \in a + 1 .. t - 1 : ~Sends(port, s)
         /\ \A r \in Ports : Opposite[r] = port =>
              \A s \in Nat : Sends(r, s) => s + Gap(r) \notin a + 1 .. t - 1
<1>1. t \in Nat /\ a < t /\ \A s \in a + 1 .. t - 1 : Here(s).port # port
  BY Between
<1>2. ASSUME NEW r \in Ports, Opposite[r] = port, NEW s \in Nat, Sends(r, s)
      PROVE  s + Gap(r) \notin a + 1 .. t - 1
  <2>1. Here(s + Gap(r)).port = port
    BY <1>2, Matches
  <2>2. QED
    BY <1>1, <2>1
<1>3. QED
  BY <1>1, <1>2 DEF Sends

\* A push adds the message of the place to its own queue, and concerns no other.
LEMMA PushKeeps ==
  ASSUME TypeOK, OnOperation, EachQueueHolds, Grid, NEW w \in Workers, Push(w),
         NEW v \in Workers, NEW r \in Ports, HasEdge(v, r)
  PROVE  Holds(queues'[SendQueue(v, r)], v, r, step'[v], step'[Neighbour(v, r)])
<1> DEFINE a == step[w]
<1> DEFINE p == Op(w).port
<1> DEFINE q == SendQueue(w, p)
<1> DEFINE u == Neighbour(v, r)
<1> DEFINE t == Skip(w, a + 1)
<1>1. /\ AtOp(w, "send") /\ step' = [step EXCEPT ![w] = Skip(w, a + 1)]
      /\ queues' = [queues EXCEPT ![q] = Append(queues[q], [from |-> w, at |-> a])]
  BY DEF Push
<1>2. /\ a \in Nat /\ a < Total(w) /\ p \in Ports /\ HasEdge(w, p)
      /\ Here(a).act = "send" /\ Here(a).port = p /\ build \in Builds
  BY <1>1, AtEdge DEF TypeOK
<1>3. t \in Nat /\ a < t
  BY <1>2, NoneOnTheWay
<1>4. step \in [Workers -> Nat] /\ queues \in [0 .. NQueues -> Seq(Messages)]
  BY DEF TypeOK
<1>5. /\ u \in Workers /\ u # v /\ Opposite[r] \in Ports /\ HasEdge(u, Opposite[r])
      /\ SendQueue(v, r) \in 0 .. NQueues
  BY Across
<1>6. q \in 0 .. NQueues
  BY <1>2, Across
<1>7. step'[w] = t /\ \A x \in Workers : x # w => step'[x] = step[x]
  BY <1>1, <1>4
<1>8. Holds(queues[SendQueue(v, r)], v, r, step[v], step[u]) /\ Gap(r) \in Int
  BY <1>2, Matches DEF EachQueueHolds
<1> HIDE DEF a, p, q, u, t
<1>9. CASE v = w /\ r = p
  <2>1. queues'[SendQueue(v, r)] = Append(queues[SendQueue(v, r)], [from |-> w, at |-> a])
    BY <1>1, <1>4, <1>6, <1>9 DEF q
  <2>2. step'[v] = t /\ step'[u] = step[u] /\ step[v] = a
    BY <1>5, <1>7, <1>9 DEF a
  <2>3. \A s \in a + 1 .. t - 1 : ~Sends(r, s)
    BY <1>2, <1>9, NoneOnTheWay DEF t
  <2>4. Sends(r, a)
    BY <1>2, <1>9 DEF Sends
  <2>5. Holds(Append(queues[SendQueue(v, r)], [from |-> v, at |-> a]), v, r, t, step[u])
    <3>1. step[u] \in Nat /\ Holds(queues[SendQueue(v, r)], v, r, a, step[u])
      BY <1>4, <1>5, <1>8, <2>2
    <3>2. QED
      BY <1>2, <1>3, <1>8, <2>3, <2>4, <3>1, ProducerSends
  <2>6. QED
    BY <1>9, <2>1, <2>2, <2>5 DEF u
<1>10. CASE ~(v = w /\ r = p)
  <2>1. SendQueue(v, r) # q
    BY <1>2, <1>10, OneProducerPerQueue DEF q
  <2>2. queues'[SendQueue(v, r)] = queues[SendQueue(v, r)]
    BY <1>1, <1>4, <1>5, <1>6, <2>1
  <2>3. CASE v = w
    <3>1. step'[v] = t /\ step'[u] = step[u] /\ step[v] = a /\ step[u] \in Nat
      BY <1>4, <1>5, <1>7, <2>3 DEF a
    <3>2. \A s \in a + 1 .. t - 1 : ~Sends(r, s)
      BY <1>2, <2>3, NoneOnTheWay DEF t
    <3>3. ~Sends(r, a)
      BY <1>2, <1>10, <2>3 DEF Sends
    <3>4. \A s \in a .. t - 1 : ~Sends(r, s)
      <4>1. \A s \in a .. t - 1 : s = a \/ s \in a + 1 .. t - 1
        BY <1>2, <1>3
      <4>2. QED
        BY <3>2, <3>3, <4>1
    <3>5. Holds(queues[SendQueue(v, r)], v, r, t, step[u])
      BY <1>2, <1>3, <1>8, <3>1, <3>4, ProducerPasses
    <3>6. QED
      BY <2>2, <3>1, <3>5 DEF u
  <2>4. CASE v # w /\ u = w
    <3>1. step'[u] = t /\ step'[v] = step[v] /\ step[u] = a /\ step[v] \in Nat
      BY <1>4, <1>7, <2>4 DEF a
    <3>2. \A s \in Nat : Sends(r, s) => s + Gap(r) \notin a + 1 .. t - 1
      BY <1>2, <1>5, <2>4, NoneOnTheWay DEF t
    <3>3. \A s \in Nat : Sends(r, s) => s + Gap(r) # a
      <4>1. \A s \in Nat : Sends(r, s) => Here(s + Gap(r)).act = "recv"
        BY <1>2, Matches
      <4>2. QED
        BY <1>2, <4>1
    <3>4. \A s \in Nat : Sends(r, s) => s + Gap(r) \notin a .. t - 1
      <4>1. \A i \in a .. t - 1 : i = a \/ i \in a + 1 .. t - 1
        BY <1>2, <1>3
      <4>2. QED
        BY <3>2, <3>3, <4>1
    <3>5. a <= t
      BY <1>2, <1>3
    <3>6. Holds(queues[SendQueue(v, r)], v, r, step[v], t)
      BY <1>2, <1>3, <1>8, <3>1, <3>4, <3>5, ConsumerPasses
    <3>7. QED
      BY <2>2, <3>1, <3>6 DEF u
  <2>5. CASE v # w /\ u # w
    BY <1>5, <1>7, <1>8, <2>2, <2>5 DEF u
  <2>6. QED
    BY <2>3, <2>4, <2>5
<1>11. QED
  BY <1>9, <1>10

\* A pop takes the message that was sent for the place.
LEMMA PopTakes ==
  ASSUME TypeOK, OnOperation, EachQueueHolds, Grid, NEW w \in Workers, AtOp(w, "recv"),
         queues[RecvQueue(w, Op(w).port)] # <<>>
  PROVE  LET p == Op(w).port
             v == Neighbour(w, p)
             r == Opposite[p]
             c == queues[SendQueue(v, r)]
         IN  /\ v \in Workers /\ v # w /\ r \in Ports /\ HasEdge(v, r) /\ Neighbour(v, r) = w
             /\ RecvQueue(w, p) = SendQueue(v, r) /\ Opposite[r] = p /\ c # <<>>
             /\ Gap(r) \in Int /\ step[w] - Gap(r) \in Nat /\ Sends(r, step[w] - Gap(r))
             /\ SameMessage(step[w], step[w] - Gap(r))
             /\ Head(c).from = v /\ Head(c).at = step[w] - Gap(r)
             /\ Holds(Tail(c), v, r, step[v], Skip(w, step[w] + 1))
<1> DEFINE a == step[w]
<1> DEFINE p == Op(w).port
<1> DEFINE v == Neighbour(w, p)
<1> DEFINE r == Opposite[p]
<1> DEFINE t == Skip(w, a + 1)
<1> DEFINE c == queues[SendQueue(v, r)]
<1>1. /\ a \in Nat /\ a < Total(w) /\ p \in Ports /\ HasEdge(w, p)
      /\ Here(a).act = "recv" /\ Here(a).port = p /\ build \in Builds
      /\ step \in [Workers -> Nat]
  BY AtEdge DEF TypeOK
<1>2. /\ v \in Workers /\ v # w /\ r \in Ports /\ Opposite[r] = p
      /\ HasEdge(v, r) /\ Neighbour(v, r) = w
  BY <1>1, Across
<1>3. RecvQueue(w, p) = SendQueue(v, r)
  BY <1>2, Across
<1> HIDE DEF v, r, p, a
<1>4. /\ Gap(r) \in Int /\ a - Gap(r) \in Nat /\ Sends(r, a - Gap(r))
      /\ SameMessage(a, a - Gap(r))
  BY <1>1, <1>2, Matches
<1>5. Holds(c, v, r, step[v], a) /\ step[v] \in Nat
  BY <1>1, <1>2 DEF EachQueueHolds, a
<1>6. c # <<>>
  BY <1>3 DEF p
<1>7. t \in Nat /\ a < t
  BY <1>1, NoneOnTheWay
<1>8. \A s \in Nat : Sends(r, s) => s + Gap(r) \notin a + 1 .. t - 1
  BY <1>1, <1>2, NoneOnTheWay
<1> HIDE DEF c, t
<1>9. Head(c).from = v /\ Head(c).at = a - Gap(r) /\ Holds(Tail(c), v, r, step[v], t)
  BY <1>1, <1>4, <1>5, <1>6, <1>7, <1>8, ConsumerReceives
<1>10. QED
  BY <1>2, <1>3, <1>4, <1>6, <1>9 DEF c, t, v, r, p, a

LEMMA PopKeeps ==
  ASSUME TypeOK, OnOperation, EachQueueHolds, Grid, NEW w \in Workers, Pop(w),
         NEW v \in Workers, NEW r \in Ports, HasEdge(v, r)
  PROVE  Holds(queues'[SendQueue(v, r)], v, r, step'[v], step'[Neighbour(v, r)])
<1> DEFINE a == step[w]
<1> DEFINE p == Op(w).port
<1> DEFINE q == RecvQueue(w, p)
<1> DEFINE u == Neighbour(v, r)
<1> DEFINE t == Skip(w, a + 1)
<1> DEFINE v0 == Neighbour(w, p)
<1> DEFINE r0 == Opposite[p]
<1>1. /\ AtOp(w, "recv") /\ step' = [step EXCEPT ![w] = Skip(w, a + 1)]
      /\ queues[q] # <<>> /\ queues' = [queues EXCEPT ![q] = Tail(queues[q])]
  BY DEF Pop
<1>2. /\ a \in Nat /\ a < Total(w) /\ p \in Ports /\ HasEdge(w, p)
      /\ Here(a).act = "recv" /\ Here(a).port = p /\ build \in Builds
  BY <1>1, AtEdge DEF TypeOK
<1>3. t \in Nat /\ a < t
  BY <1>2, NoneOnTheWay
<1>4. step \in [Workers -> Nat] /\ queues \in [0 .. NQueues -> Seq(Messages)]
  BY DEF TypeOK
<1>5. /\ u \in Workers /\ u # v /\ Opposite[r] \in Ports /\ HasEdge(u, Opposite[r])
      /\ SendQueue(v, r) \in 0 .. NQueues /\ Neighbour(u, Opposite[r]) = v
      /\ Opposite[Opposite[r]] = r
  BY Across
<1>6. /\ v0 \in Workers /\ v0 # w /\ r0 \in Ports /\ HasEdge(v0, r0) /\ Neighbour(v0, r0) = w
      /\ q = SendQueue(v0, r0)
      /\ Holds(Tail(queues[SendQueue(v0, r0)]), v0, r0, step[v0], t)
  BY <1>1, PopTakes
<1>7. q \in 0 .. NQueues
  BY <1>6, Across
<1>8. step'[w] = t /\ \A x \in Workers : x # w => step'[x] = step[x]
  BY <1>1, <1>4
<1>9. Holds(queues[SendQueue(v, r)], v, r, step[v], step[u]) /\ Gap(r) \in Int
  BY <1>2, Matches DEF EachQueueHolds
<1> HIDE DEF a, p, q, u, t, v0, r0
<1>10. CASE v = v0 /\ r = r0
  <2>1. queues'[SendQueue(v, r)] = Tail(queues[SendQueue(v0, r0)])
    BY <1>1, <1>4, <1>6, <1>7, <1>10
  <2>2. u = w /\ step'[u] = t /\ step'[v] = step[v]
    BY <1>6, <1>8, <1>10 DEF u
  <2>3. QED
    BY <1>6, <1>10, <2>1, <2>2 DEF u
<1>11. CASE ~(v = v0 /\ r = r0)
  <2>1. SendQueue(v, r) # q
    BY <1>6, <1>11, OneProducerPerQueue
  <2>2. queues'[SendQueue(v, r)] = queues[SendQueue(v, r)]
    BY <1>1, <1>4, <1>5, <1>7, <2>1
  <2>3. CASE v = w
    <3>1. step'[v] = t /\ step'[u] = step[u] /\ step[v] = a /\ step[u] \in Nat
      BY <1>4, <1>5, <1>8, <2>3 DEF a
    <3>2. \A s \in a + 1 .. t - 1 : ~Sends(r, s)
      BY <1>2, <2>3, NoneOnTheWay DEF t
    <3>3. ~Sends(r, a)
      BY <1>2 DEF Sends
    <3>4. \A s \in a .. t - 1 : ~Sends(r, s)
      <4>1. \A s \in a .. t - 1 : s = a \/ s \in a + 1 .. t - 1
        BY <1>2, <1>3
      <4>2. QED
        BY <3>2, <3>3, <4>1
    <3>5. Holds(queues[SendQueue(v, r)], v, r, t, step[u])
      BY <1>2, <1>3, <1>9, <3>1, <3>4, ProducerPasses
    <3>6. QED
      BY <2>2, <3>1, <3>5 DEF u
  <2>4. CASE v # w /\ u = w
    <3>1. step'[u] = t /\ step'[v] = step[v] /\ step[u] = a /\ step[v] \in Nat
      BY <1>4, <1>8, <2>4 DEF a
    <3>2. \A s \in Nat : Sends(r, s) => s + Gap(r) \notin a + 1 .. t - 1
      BY <1>2, <1>5, <2>4, NoneOnTheWay DEF t
    <3>3. Opposite[r] # p
      BY <1>5, <1>11, <2>4 DEF r0, v0
    <3>4. \A s \in Nat : Sends(r, s) => s + Gap(r) # a
      <4>1. \A s \in Nat : Sends(r, s) => Here(s + Gap(r)).port = Opposite[r]
        BY <1>2, Matches
      <4>2. QED
        BY <1>2, <3>3, <4>1
    <3>5. \A s \in Nat : Sends(r, s) => s + Gap(r) \notin a .. t - 1
      <4>1. \A i \in a .. t - 1 : i = a \/ i \in a + 1 .. t - 1
        BY <1>2, <1>3
      <4>2. QED
        BY <3>2, <3>4, <4>1
    <3>6. a <= t
      BY <1>2, <1>3
    <3>7. Holds(queues[SendQueue(v, r)], v, r, step[v], t)
      BY <1>2, <1>3, <1>9, <3>1, <3>5, <3>6, ConsumerPasses
    <3>8. QED
      BY <2>2, <3>1, <3>7 DEF u
  <2>5. CASE v # w /\ u # w
    BY <1>5, <1>8, <1>9, <2>2, <2>5 DEF u
  <2>6. QED
    BY <2>3, <2>4, <2>5
<1>12. QED
  BY <1>10, <1>11

-----------------------------------------------------------------------------
(* Incast and outcast: all messages pass through queue 0, and it holds what *)
(* the one side has sent and the other not yet received.                    *)

Others == Workers \ {Master}

\* The places that workers other than the master have passed.
Passed == {x \in Others \X Nat : x[2] < step[x[1]]}

SharedCounts ==
  ~Grid =>
    /\ \A q \in 1 .. NQueues : queues[q] = <<>>
    /\ IsFiniteSet(Passed)
    /\ build.pattern = "incast" => Len(queues[0]) + step[Master] = Cardinality(Passed)
    /\ build.pattern = "outcast" => Len(queues[0]) + Cardinality(Passed) = step[Master]

LEMMA WorkerNumbers ==
  /\ NThreads \in Nat /\ NThreads > 1 /\ Workers \subseteq Nat
  /\ Master \in Workers /\ Others = 1 .. NThreads - 1
<1>1. NThreads \in Nat /\ NThreads > 1
  BY DEF NThreads, EmberAssumption
<1>2. QED
  BY <1>1 DEF Workers, Others, Master

LEMMA SharedPlaces ==
  ASSUME ~Grid, build \in Builds, NEW w \in Workers
  PROVE  /\ build.pattern \in {"incast", "outcast"}
         /\ Total(w) \in Nat
         /\ Total(w) = Repeats * build.blocks * (IF w = Master THEN NThreads - 1 ELSE 1)
         /\ \A s \in Nat :
              /\ OpAt(w, s).port = "shared" /\ Runs(w, s)
              /\ OpAt(w, s).act
                   = IF w = Master <=> build.pattern = "incast" THEN "recv" ELSE "send"
<1>1. build.blocks \in Nat \ {0} /\ build.outside \in BOOLEAN /\ Repeats \in Nat \ {0}
      /\ build.pattern \in {"incast", "outcast"}
  BY DEF EmberAssumption, Grid
<1>2. Pieces \in Nat \ {0} /\ Repeats * build.blocks \in Nat
  BY <1>1 DEF Pieces
<1>3. Programs.incast = [u \in Workers |-> IF u = Master THEN IncastMaster ELSE <<Send("shared", 1)>>]
      /\ Programs.outcast = [u \in Workers |-> IF u = Master THEN OutcastMaster ELSE <<Recv("shared", 1)>>]
  BY DEF Programs
<1> DEFINE act == IF w = Master <=> build.pattern = "incast" THEN "recv" ELSE "send"
<1> DEFINE n == IF w = Master THEN NThreads - 1 ELSE 1
<1>4. n \in Nat \ {0}
  BY WorkerNumbers
<1>5. Len(Program(w)) = n /\ \A i \in 1 .. n : Program(w)[i] = [act |-> act, port |-> "shared", wave |-> 1]
  <2>1. CASE build.pattern = "incast"
    <3>1. Program(w) = IF w = Master THEN IncastMaster ELSE <<Send("shared", 1)>>
      BY <1>3, <2>1 DEF Program
    <3>2. QED
      BY <1>4, <2>1, <3>1, WorkerNumbers DEF IncastMaster, Recv, Send
  <2>2. CASE build.pattern = "outcast"
    <3>1. Program(w) = IF w = Master THEN OutcastMaster ELSE <<Recv("shared", 1)>>
      BY <1>3, <2>2 DEF Program
    <3>2. QED
      BY <1>4, <2>2, <3>1, WorkerNumbers DEF OutcastMaster, Recv, Send
  <2>3. QED
    BY <1>1, <2>1, <2>2
<1> HIDE DEF act, n
<1>6. Total(w) = Repeats * build.blocks * n /\ Total(w) \in Nat
  BY <1>2, <1>4, <1>5 DEF Total
<1>7. ASSUME NEW s \in Nat PROVE OpAt(w, s) = [act |-> act, port |-> "shared", wave |-> 1]
  <2>1. s \div Pieces \in Nat
    BY <1>2, Digits
  <2>2. (s \div Pieces) % n \in 0 .. n - 1
    BY <1>4, <2>1, Digits
  <2>3. ((s \div Pieces) % n) + 1 \in 1 .. n
    BY <1>4, <2>2
  <2>4. QED
    BY <1>5, <2>3 DEF OpAt
<1>8. QED
  BY <1>1, <1>6, <1>7 DEF act, n, Runs

\* Every place is at an operation: none is skipped.
LEMMA SharedNext ==
  ASSUME ~Grid, build \in Builds, NEW w \in Workers, NEW s \in 0 .. Total(w)
  PROVE  Skip(w, s) = s
<1> DEFINE t == Skip(w, s)
<1>1. t \in s .. Total(w) /\ \A u \in s .. t - 1 : ~Runs(w, u)
  BY SharedPlaces, SkipsToNext
<1>2. Total(w) \in Nat /\ s \in Nat /\ Runs(w, s)
  BY SharedPlaces
<1> HIDE DEF t
<1>3. t = s
  BY <1>1, <1>2
<1>4. QED
  BY <1>3 DEF t

\* One place more is passed when a worker other than the master moves.
LEMMA PassedGrows ==
  ASSUME step \in [Workers -> Nat], IsFiniteSet(Passed), NEW w \in Others,
         step' = [step EXCEPT ![w] = step[w] + 1]
  PROVE  IsFiniteSet(Passed') /\ Cardinality(Passed') = Cardinality(Passed) + 1
         /\ step'[Master] = step[Master]
<1> DEFINE x == <<w, step[w]>>
<1>1. w \in Workers /\ w # Master /\ step[w] \in Nat /\ Others \subseteq Workers
  BY DEF Others
<1>2. \A v \in Others : step'[v] = IF v = w THEN step[w] + 1 ELSE step[v]
  BY <1>1
<1>3. x \notin Passed
  BY <1>1 DEF Passed
<1>4. Passed' = Passed \cup {x}
  <2>1. ASSUME NEW v \in Others, NEW k \in Nat
        PROVE  k < step'[v] <=> k < step[v] \/ <<v, k>> = x
    BY <1>1, <1>2
  <2>2. Passed' = {y \in Others \X Nat : y[2] < step'[y[1]]}
    BY DEF Passed
  <2>3. x \in Others \X Nat
    BY <1>1
  <2> HIDE DEF x
  <2>4. \A y \in Others \X Nat : y \in Passed' <=> y \in Passed \/ y = x
    BY <2>1, <2>2 DEF Passed
  <2>5. Passed' \subseteq Others \X Nat /\ Passed \subseteq Others \X Nat
    BY <2>2 DEF Passed
  <2>6. QED
    BY <2>3, <2>4, <2>5
<1>5. step'[Master] = step[Master]
  BY <1>1, WorkerNumbers
<1> HIDE DEF x
<1>6. QED
  BY <1>3, <1>4, <1>5, FS_AddElement

-----------------------------------------------------------------------------
Inv == TypeOK /\ OnOperation /\ EachQueueHolds /\ OthersEmpty /\ SharedCounts

LEMMA TotalTyped ==
  ASSUME build \in Builds, NEW w \in Workers
  PROVE  Total(w) \in Nat
<1>1. CASE Grid
  BY <1>1, GridPlaces, PlacesLeft
<1>2. CASE ~Grid
  BY <1>2, SharedPlaces
<1>3. QED
  BY <1>1, <1>2

\* A worker that goes on from an operation comes to its next one.
LEMMA GoesOn ==
  ASSUME TypeOK, OnOperation, NEW w \in Workers, NEW act, AtOp(w, act)
  PROVE  LET t == Skip(w, step[w] + 1)
         IN  /\ t \in Nat /\ t <= Total(w) /\ step[w] \in Nat /\ step[w] < t
             /\ t = Total(w) \/ Runs(w, t)
<1>1. step[w] \in Nat /\ step[w] < Total(w) /\ Total(w) \in Nat
  BY TotalTyped DEF AtOp, TypeOK
<1>2. step[w] + 1 \in 0 .. Total(w)
  BY <1>1
<1>3. LET t == Skip(w, step[w] + 1)
      IN  t \in step[w] + 1 .. Total(w) /\ (t = Total(w) \/ Runs(w, t))
  BY <1>1, <1>2, SkipsToNext
<1>4. QED
  BY <1>1, <1>3

\* A sender puts its message, and a receiver takes one, where there is a queue.
LEMMA QueueThere ==
  ASSUME Inv, NEW w \in Workers
  PROVE  /\ AtOp(w, "send") => SendQueue(w, Op(w).port) \in 0 .. NQueues
         /\ AtOp(w, "recv") => RecvQueue(w, Op(w).port) \in 0 .. NQueues
<1>1. 0 \in 0 .. NQueues
  BY BandSizes
<1>2. CASE Grid
  <2>1. ASSUME AtOp(w, "send") PROVE SendQueue(w, Op(w).port) \in 0 .. NQueues
    BY <1>2, <2>1, AtEdge, Across DEF Inv
  <2>2. ASSUME AtOp(w, "recv") PROVE RecvQueue(w, Op(w).port) \in 0 .. NQueues
    <3> DEFINE p == Op(w).port
    <3> DEFINE v == Neighbour(w, p)
    <3> DEFINE r == Opposite[p]
    <3>1. p \in Ports /\ HasEdge(w, p)
      BY <1>2, <2>2, AtEdge DEF Inv
    <3>2. v \in Workers /\ r \in Ports /\ HasEdge(v, r) /\ Neighbour(v, r) = w /\ Opposite[r] = p
      BY <3>1, Across
    <3> HIDE DEF v, r, p
    <3>3. RecvQueue(w, p) = SendQueue(v, r) /\ SendQueue(v, r) \in 0 .. NQueues
      BY <3>2, Across
    <3>4. QED
      BY <3>3 DEF p
  <2>3. QED
    BY <2>1, <2>2
<1>3. CASE ~Grid
  <2>1. Op(w).port = "shared"
    BY <1>3, SharedPlaces DEF Op, Inv, TypeOK
  <2>2. SendQueue(w, "shared") = 0 /\ RecvQueue(w, "shared") = 0
    BY DEF SendQueue, RecvQueue
  <2>3. QED
    BY <1>1, <2>1, <2>2
<1>4. QED
  BY <1>2, <1>3

LEMMA StepTyped ==
  ASSUME Inv, NEW w \in Workers, Step(w)
  PROVE  build' = build /\ TypeOK' /\ OnOperation'
<1>1. /\ build \in Builds /\ ready \in Nat
      /\ pc \in [Workers -> {"open", "wait", "run", "done"}]
      /\ step \in [Workers -> Nat]
      /\ queues \in [0 .. NQueues -> Seq(Messages)]
  BY DEF Inv, TypeOK
<1>2. \A v \in Workers : /\ Total(v) \in Nat /\ step[v] <= Total(v)
                         /\ step[v] = Total(v) \/ Runs(v, step[v])
                         /\ pc[v] = "done" => step[v] = Total(v)
  BY DEF Inv, OnOperation
<1>3. /\ build' \in Builds /\ ready' \in Nat
      /\ pc' \in [Workers -> {"open", "wait", "run", "done"}]
      /\ step' \in [Workers -> Nat]
      /\ queues' \in [0 .. NQueues -> Seq(Messages)]
      /\ build' = build
      /\ \A v \in Workers : /\ step'[v] <= Total(v)
                            /\ step'[v] = Total(v) \/ Runs(v, step'[v])
                            /\ pc'[v] = "done" => step'[v] = Total(v)
  <2>1. CASE w = Master /\ StartMaster
    BY <1>1, <1>2, <2>1 DEF StartMaster
  <2>2. CASE Announce(w)
    BY <1>1, <1>2, <2>2 DEF Announce
  <2>3. CASE AwaitStart(w)
    BY <1>1, <1>2, <2>3 DEF AwaitStart
  <2>4. CASE Push(w)
    <3> DEFINE t == Skip(w, step[w] + 1)
    <3> DEFINE m == [from |-> w, at |-> step[w]]
    <3> DEFINE q == SendQueue(w, Op(w).port)
    <3>1. /\ AtOp(w, "send") /\ step' = [step EXCEPT ![w] = Skip(w, step[w] + 1)]
          /\ queues' = [queues EXCEPT ![q] = Append(queues[q], m)]
          /\ UNCHANGED <<build, ready, pc>> /\ pc[w] = "run"
      BY <2>4 DEF Push, AtOp
    <3>2. t \in Nat /\ t <= Total(w) /\ (t = Total(w) \/ Runs(w, t))
      BY <3>1, GoesOn DEF Inv
    <3>3. q \in 0 .. NQueues
      BY <3>1, QueueThere
    <3>4. m \in Messages
      BY <1>1 DEF Messages
    <3> HIDE DEF t, m, q
    <3>5. Append(queues[q], m) \in Seq(Messages)
      BY <1>1, <3>3, <3>4
    <3>6. step' = [step EXCEPT ![w] = t]
      BY <3>1 DEF t
    <3>7. QED
      BY <1>1, <1>2, <3>1, <3>2, <3>5, <3>6
  <2>5. CASE Pop(w)
    <3> DEFINE t == Skip(w, step[w] + 1)
    <3> DEFINE q == RecvQueue(w, Op(w).port)
    <3>1. /\ AtOp(w, "recv") /\ step' = [step EXCEPT ![w] = Skip(w, step[w] + 1)]
          /\ queues[q] # <<>> /\ queues' = [queues EXCEPT ![q] = Tail(queues[q])]
          /\ UNCHANGED <<build, ready, pc>> /\ pc[w] = "run"
      BY <2>5 DEF Pop, AtOp
    <3>2. t \in Nat /\ t <= Total(w) /\ (t = Total(w) \/ Runs(w, t))
      BY <3>1, GoesOn DEF Inv
    <3>3. q \in 0 .. NQueues
      BY <3>1, QueueThere
    <3> HIDE DEF t, q
    <3>4. Tail(queues[q]) \in Seq(Messages)
      <4>1. queues[q] \in Seq(Messages) /\ queues[q] # <<>>
        BY <1>1, <3>1, <3>3
      <4>2. QED
        BY <4>1, HeadTailProperties
    <3>5. step' = [step EXCEPT ![w] = t]
      BY <3>1 DEF t
    <3>6. QED
      BY <1>1, <1>2, <3>1, <3>2, <3>4, <3>5
  <2>6. CASE Return(w)
    BY <1>1, <1>2, <2>6 DEF Return
  <2>7. QED
    BY <2>1, <2>2, <2>3, <2>4, <2>5, <2>6 DEF Step
<1>4. TypeOK'
  BY <1>3 DEF TypeOK
<1>5. OnOperation'
  <2>1. \A v \in Workers : Total(v)' = Total(v)
    BY <1>3 DEF Total, Program
  <2>2. \A v \in Workers : \A s : Runs(v, s)' <=> Runs(v, s)
    BY <1>3 DEF Runs, OpAt, Pieces, Program
  <2>3. QED
    BY <1>2, <1>3, <2>1, <2>2 DEF OnOperation, Runs, OpAt, Pieces, Total, Program
<1>6. QED
  BY <1>3, <1>4, <1>5

\* What a queue holds is a matter of its content and of two places.
LEMMA SameHolds ==
  ASSUME build' = build
  PROVE  /\ Grid' = Grid
         /\ \A c, v, p, a, b : Holds(c, v, p, a, b)' <=> Holds(c, v, p, a, b)
<1>1. Pieces' = Pieces /\ GridProgram' = GridProgram /\ Length' = Length /\ Grid' = Grid
  BY DEF Pieces, GridProgram, Length, Grid
<1>2. \A p : Gap(p)' = Gap(p)
  BY <1>1 DEF Gap, Apart
<1>3. \A s : Here(s)' = Here(s)
  BY <1>1 DEF Here, Index
<1>4. \A p, s : Sends(p, s)' <=> Sends(p, s)
  BY <1>3 DEF Sends
<1>5. \A c, v, p, a, b : Holds(c, v, p, a, b)' <=> Holds(c, v, p, a, b)
  BY <1>2, <1>4 DEF Holds, InOrder
<1>6. QED
  BY <1>1, <1>5

LEMMA StepKeepsGrid ==
  ASSUME Inv, NEW w \in Workers, Step(w)
  PROVE  EachQueueHolds'
<1>1. build' = build
  BY StepTyped
<1>2. SUFFICES ASSUME Grid, NEW v \in Workers, NEW r \in Ports, HasEdge(v, r)
               PROVE  Holds(queues'[SendQueue(v, r)], v, r, step'[v], step'[Neighbour(v, r)])
  <2>1. QED
    BY <1>1, SameHolds DEF EachQueueHolds
<1>3. CASE UNCHANGED <<step, queues>>
  BY <1>2, <1>3 DEF Inv, EachQueueHolds
<1>4. CASE Push(w)
  BY <1>2, <1>4, PushKeeps DEF Inv
<1>5. CASE Pop(w)
  BY <1>2, <1>5, PopKeeps DEF Inv
<1>6. QED
  BY <1>3, <1>4, <1>5 DEF Step, StartMaster, Announce, AwaitStart, Return

LEMMA StepKeepsOthers ==
  ASSUME Inv, NEW w \in Workers, Step(w)
  PROVE  OthersEmpty'
<1>1. build' = build /\ queues \in [0 .. NQueues -> Seq(Messages)]
  BY StepTyped DEF Inv, TypeOK
<1>2. SUFFICES ASSUME Grid, NEW q \in 0 .. NQueues,
                      \A v \in Workers, r \in Ports : HasEdge(v, r) => SendQueue(v, r) # q
               PROVE  queues'[q] = <<>>
  BY <1>1 DEF OthersEmpty, Grid
<1>3. queues[q] = <<>>
  BY <1>2 DEF Inv, OthersEmpty
<1>4. CASE UNCHANGED queues
  BY <1>3, <1>4
<1>5. CASE Push(w)
  <2>1. Op(w).port \in Ports /\ HasEdge(w, Op(w).port)
    BY <1>2, <1>5, AtEdge DEF Inv, Push
  <2>2. SendQueue(w, Op(w).port) # q
    BY <1>2, <2>1
  <2>3. QED
    BY <1>1, <1>3, <1>5, <2>2 DEF Push
<1>6. CASE Pop(w)
  BY <1>1, <1>3, <1>6 DEF Pop
<1>7. QED
  BY <1>4, <1>5, <1>6 DEF Step, StartMaster, Announce, AwaitStart, Return

LEMMA StepKeepsCounts ==
  ASSUME Inv, NEW w \in Workers, Step(w)
  PROVE  SharedCounts'
<1>1. /\ build' = build /\ queues \in [0 .. NQueues -> Seq(Messages)]
      /\ step \in [Workers -> Nat] /\ build \in Builds
  BY StepTyped DEF Inv, TypeOK
<1>2. SUFFICES ASSUME ~Grid
               PROVE  /\ \A q \in 1 .. NQueues : queues'[q] = <<>>
                      /\ IsFiniteSet(Passed')
                      /\ build.pattern = "incast" => Len(queues'[0]) + step'[Master] = Cardinality(Passed')
                      /\ build.pattern = "outcast" => Len(queues'[0]) + Cardinality(Passed') = step'[Master]
  BY <1>1 DEF SharedCounts, Grid
<1>3. /\ \A q \in 1 .. NQueues : queues[q] = <<>>
      /\ IsFiniteSet(Passed) /\ Cardinality(Passed) \in Nat
      /\ build.pattern = "incast" => Len(queues[0]) + step[Master] = Cardinality(Passed)
      /\ build.pattern = "outcast" => Len(queues[0]) + Cardinality(Passed) = step[Master]
  BY <1>2, FS_CardinalityType DEF Inv, SharedCounts
<1>4. CASE UNCHANGED <<step, queues>>
  BY <1>3, <1>4 DEF Passed
<1>5. 0 \in 0 .. NQueues /\ \A q \in 1 .. NQueues : q \in 0 .. NQueues /\ q # 0
  BY BandSizes
<1>6. queues[0] \in Seq(Messages) /\ Len(queues[0]) \in Nat /\ step[w] \in Nat /\ step[Master] \in Nat
  BY <1>1, <1>5, WorkerNumbers
<1>7. ASSUME NEW act, AtOp(w, act)
      PROVE  /\ Skip(w, step[w] + 1) = step[w] + 1 /\ Op(w).port = "shared"
             /\ act = IF w = Master <=> build.pattern = "incast" THEN "recv" ELSE "send"
  <2>1. step[w] < Total(w) /\ Total(w) \in Nat /\ Op(w).act = act
    BY <1>1, <1>7, TotalTyped DEF AtOp
  <2>2. step[w] + 1 \in 0 .. Total(w)
    BY <1>6, <2>1
  <2>3. QED
    BY <1>1, <1>2, <1>6, <2>1, <2>2, SharedNext, SharedPlaces DEF Op
<1>8. SendQueue(w, "shared") = 0 /\ RecvQueue(w, "shared") = 0
  BY DEF SendQueue, RecvQueue
<1>9. build.pattern \in {"incast", "outcast"}
  BY <1>1, <1>2, SharedPlaces
<1>10. ASSUME step' = [step EXCEPT ![w] = step[w] + 1]
       PROVE  /\ w = Master => Passed' = Passed /\ step'[Master] = step[Master] + 1
              /\ w # Master => /\ IsFiniteSet(Passed') /\ step'[Master] = step[Master]
                               /\ Cardinality(Passed') = Cardinality(Passed) + 1
  <2>1. CASE w = Master
    <3>1. \A v \in Others : step'[v] = step[v]
      BY <1>1, <1>10, <2>1 DEF Others
    <3>2. Passed' = Passed
      BY <3>1 DEF Passed
    <3>3. QED
      BY <1>1, <1>10, <2>1, <3>2
  <2>2. CASE w # Master
    <3>1. w \in Others
      BY <2>2 DEF Others
    <3>2. QED
      BY <1>1, <1>3, <1>10, <2>2, <3>1, PassedGrows
  <2>3. QED
    BY <2>1, <2>2
<1>11. CASE Push(w)
  <2>1. AtOp(w, "send")
    BY <1>11 DEF Push
  <2>2. /\ Skip(w, step[w] + 1) = step[w] + 1 /\ SendQueue(w, Op(w).port) = 0
        /\ (w = Master) # (build.pattern = "incast")
    BY <1>7, <1>8, <2>1
  <2>3. step' = [step EXCEPT ![w] = step[w] + 1]
    BY <1>11, <2>2 DEF Push
  <2>4. \E m : queues' = [queues EXCEPT ![0] = Append(queues[0], m)] /\ m \in Messages
    <3>1. [from |-> w, at |-> step[w]] \in Messages
      BY <1>6 DEF Messages
    <3>2. QED
      BY <1>11, <2>2, <3>1 DEF Push
  <2>5. /\ \A q \in 1 .. NQueues : queues'[q] = <<>>
        /\ Len(queues'[0]) = Len(queues[0]) + 1
    <3>1. PICK m \in Messages : queues' = [queues EXCEPT ![0] = Append(queues[0], m)]
      BY <2>4
    <3>2. Len(Append(queues[0], m)) = Len(queues[0]) + 1
      BY <1>6, <3>1, AppendProperties
    <3>3. QED
      BY <1>1, <1>3, <1>5, <3>1, <3>2
  <2>6. CASE build.pattern = "incast"
    <3>1. w # Master
      BY <2>2, <2>6
    <3>2. /\ IsFiniteSet(Passed') /\ step'[Master] = step[Master]
          /\ Cardinality(Passed') = Cardinality(Passed) + 1
      BY <1>10, <2>3, <3>1
    <3>3. Len(queues'[0]) + step'[Master] = Cardinality(Passed')
      BY <1>3, <1>6, <2>5, <2>6, <3>2
    <3>4. QED
      BY <2>5, <2>6, <3>2, <3>3
  <2>7. CASE build.pattern = "outcast"
    <3>1. w = Master
      BY <2>2, <2>7
    <3>2. QED
      BY <1>3, <1>6, <1>10, <2>3, <2>5, <2>7, <3>1
  <2>8. QED
    BY <1>9, <2>6, <2>7
<1>12. CASE Pop(w)
  <2>1. AtOp(w, "recv")
    BY <1>12 DEF Pop
  <2>2. /\ Skip(w, step[w] + 1) = step[w] + 1 /\ RecvQueue(w, Op(w).port) = 0
        /\ (w = Master) = (build.pattern = "incast")
    BY <1>7, <1>8, <2>1
  <2>3. step' = [step EXCEPT ![w] = step[w] + 1]
    BY <1>12, <2>2 DEF Pop
  <2>4. queues' = [queues EXCEPT ![0] = Tail(queues[0])] /\ queues[0] # <<>>
    BY <1>12, <2>2 DEF Pop
  <2>5. /\ \A q \in 1 .. NQueues : queues'[q] = <<>>
        /\ Len(queues'[0]) = Len(queues[0]) - 1
    <3>1. Len(Tail(queues[0])) = Len(queues[0]) - 1
      BY <1>6, <2>4, HeadTailProperties
    <3>2. QED
      BY <1>1, <1>3, <1>5, <2>4, <3>1
  <2>6. CASE build.pattern = "incast"
    <3>1. w = Master
      BY <2>2, <2>6
    <3>2. QED
      BY <1>3, <1>6, <1>10, <2>3, <2>5, <2>6, <3>1
  <2>7. CASE build.pattern = "outcast"
    <3>1. w # Master
      BY <2>2, <2>7
    <3>2. QED
      BY <1>3, <1>6, <1>10, <2>3, <2>5, <2>7, <3>1
  <2>8. QED
    BY <1>9, <2>6, <2>7
<1>13. QED
  BY <1>4, <1>11, <1>12 DEF Step, StartMaster, Announce, AwaitStart, Return

LEMMA InitInv == Init => Inv
<1> SUFFICES ASSUME Init PROVE Inv
  OBVIOUS
<1>1. build \in Builds /\ ready = 0 /\ queues = [q \in 0 .. NQueues |-> <<>>]
  BY DEF Init
<1>2. \A w \in Workers :
        /\ Total(w) \in Nat /\ step[w] \in Nat /\ step[w] <= Total(w)
        /\ step[w] = Total(w) \/ Runs(w, step[w])
        /\ \A u \in 0 .. step[w] - 1 : ~Runs(w, u)
        /\ pc[w] = "open" /\ step[w] = Skip(w, 0)
  <2>1. SUFFICES ASSUME NEW w \in Workers
                 PROVE  /\ Total(w) \in Nat /\ step[w] \in Nat /\ step[w] <= Total(w)
                        /\ step[w] = Total(w) \/ Runs(w, step[w])
                        /\ \A u \in 0 .. step[w] - 1 : ~Runs(w, u)
                        /\ pc[w] = "open" /\ step[w] = Skip(w, 0)
    OBVIOUS
  <2>2. Total(w) \in Nat /\ 0 \in 0 .. Total(w)
    BY <1>1, TotalTyped
  <2>3. step[w] = Skip(w, 0) /\ pc[w] = "open"
    BY DEF Init
  <2>4. /\ Skip(w, 0) \in 0 .. Total(w)
        /\ Skip(w, 0) = Total(w) \/ Runs(w, Skip(w, 0))
        /\ \A u \in 0 .. Skip(w, 0) - 1 : ~Runs(w, u)
    BY <2>2, SkipsToNext
  <2>5. QED
    BY <2>2, <2>3, <2>4
<1>3. TypeOK
  <2>1. step = [w \in Workers |-> Skip(w, 0)] /\ pc = [w \in Workers |-> "open"]
    BY DEF Init
  <2>2. step \in [Workers -> Nat]
    BY <1>2, <2>1
  <2>3. QED
    BY <1>1, <2>1, <2>2 DEF TypeOK
<1>4. OnOperation
  BY <1>2 DEF OnOperation
<1>5. EachQueueHolds
  <2> SUFFICES ASSUME Grid, NEW v \in Workers, NEW r \in Ports, HasEdge(v, r)
               PROVE  Holds(queues[SendQueue(v, r)], v, r, step[v], step[Neighbour(v, r)])
    BY DEF EachQueueHolds
  <2> DEFINE u == Neighbour(v, r)
  <2>1. u \in Workers /\ HasEdge(u, Opposite[r]) /\ SendQueue(v, r) \in 0 .. NQueues /\ Opposite[r] \in Ports
    BY Across
  <2>2. \A w \in Workers, p \in Ports : HasEdge(w, p) =>
          \A s \in 0 .. step[w] - 1 : Here(s).port # p
    <3>1. \A w \in Workers : \A s : OpAt(w, s) = Here(s)
      BY <1>1, GridPlaces
    <3>2. QED
      BY <1>2, <3>1 DEF Runs, HasEdge
  <2>3. \A s \in Nat : Sends(r, s) => ~(s < step[v]) /\ ~(s + Gap(r) < step[u])
    <3>1. SUFFICES ASSUME NEW s \in Nat, Sends(r, s)
                   PROVE  ~(s < step[v]) /\ ~(s + Gap(r) < step[u])
      OBVIOUS
    <3>2. Here(s).port = r /\ s + Gap(r) \in Nat /\ Here(s + Gap(r)).port = Opposite[r]
      BY <1>1, <3>1, Matches DEF Sends
    <3>3. s \notin 0 .. step[v] - 1 /\ s + Gap(r) \notin 0 .. step[u] - 1
      BY <2>1, <2>2, <3>2
    <3>4. step[v] \in Nat /\ step[u] \in Nat
      BY <1>2, <2>1
    <3>5. QED
      BY <3>2, <3>3, <3>4
  <2>4. queues[SendQueue(v, r)] = <<>>
    BY <1>1, <2>1
  <2>5. <<>> \in Seq(Messages) /\ Len(<<>>) = 0 /\ 1 .. 0 = {}
    OBVIOUS
  <2> HIDE DEF u
  <2>6. Holds(<<>>, v, r, step[v], step[u])
    BY <2>3, <2>5 DEF Holds, InOrder
  <2>7. QED
    BY <2>4, <2>6 DEF u
<1>6. OthersEmpty
  BY <1>1 DEF OthersEmpty
<1>7. SharedCounts
  <2>1. SUFFICES ASSUME ~Grid
                 PROVE  /\ IsFiniteSet(Passed) /\ Cardinality(Passed) = 0
                        /\ step[Master] = 0 /\ Len(queues[0]) = 0
                        /\ \A q \in 1 .. NQueues : queues[q] = <<>>
    BY DEF SharedCounts
  <2>2. \A w \in Workers : step[w] = 0
    <3>1. \A w \in Workers : 0 \in 0 .. Total(w)
      BY <1>2
    <3>2. QED
      BY <1>1, <1>2, <2>1, <3>1, SharedNext
  <2>3. Passed = {}
    BY <2>2 DEF Passed, Others
  <2>4. 0 \in 0 .. NQueues /\ \A q \in 1 .. NQueues : q \in 0 .. NQueues
    BY BandSizes
  <2>5. QED
    BY <1>1, <2>2, <2>3, <2>4, FS_EmptySet, WorkerNumbers
<1>8. QED
  BY <1>3, <1>4, <1>5, <1>6, <1>7 DEF Inv

\* The queues of a grid hold what their producers have sent and their consumers
\* not yet received, in order; the shared queue holds as many messages.
THEOREM Invariance == Spec => []Inv
<1>1. Init => Inv
  BY InitInv
<1>2. Inv /\ [Next]_vars => Inv'
  <2>1. SUFFICES ASSUME Inv, [Next]_vars PROVE Inv'
    OBVIOUS
  <2>2. CASE UNCHANGED vars
    <3>1. UNCHANGED <<build, ready, pc, step, queues>>
      BY <2>2 DEF vars
    <3>2. TypeOK' /\ OnOperation'
      BY <2>1, <3>1 DEF Inv, TypeOK, OnOperation, Total, Program, Runs, OpAt, Pieces
    <3>3. EachQueueHolds' /\ OthersEmpty' /\ SharedCounts'
      BY <2>1, <3>1, SameHolds DEF Inv, EachQueueHolds, OthersEmpty, SharedCounts, Passed, Grid
    <3>4. QED
      BY <3>2, <3>3 DEF Inv
  <2>3. ASSUME NEW w \in Workers, Step(w) PROVE Inv'
    BY <2>1, <2>3, StepTyped, StepKeepsGrid, StepKeepsOthers, StepKeepsCounts DEF Inv
  <2>4. QED
    BY <2>1, <2>2, <2>3 DEF Next
<1>3. QED
  BY <1>1, <1>2, PTL DEF Spec

-----------------------------------------------------------------------------
\* A worker of a sweep or halo exchange takes from a queue what the neighbour on
\* that side sent, in its own round and wave, piece by piece, although messages
\* carry no tag (ember.cpp:162-460, 509-658).
THEOREM MessagesMatch == Spec => []RightMessage
<1>1. Inv => RightMessage
  <2> SUFFICES ASSUME Inv, NEW w \in Workers, Grid, AtOp(w, "recv"),
                      queues[RecvQueue(w, Op(w).port)] # <<>>
               PROVE  LET message == Head(queues[RecvQueue(w, Op(w).port)])
                      IN  /\ message.from = Neighbour(w, Op(w).port)
                          /\ RoundAt(message.from, message.at) = Round(w)
                          /\ OpAt(message.from, message.at).wave = Op(w).wave
                          /\ message.at % Pieces = step[w] % Pieces
    BY DEF RightMessage
  <2> DEFINE a == step[w]
  <2> DEFINE p == Op(w).port
  <2> DEFINE v == Neighbour(w, p)
  <2> DEFINE r == Opposite[p]
  <2> DEFINE m == Head(queues[RecvQueue(w, p)])
  <2>1. /\ build \in Builds /\ Op(w) = Here(a) /\ Round(w) = InRound(a)
    BY AtEdge DEF Inv, TypeOK
  <2>2. /\ v \in Workers /\ m.from = v /\ m.at = a - Gap(r) /\ SameMessage(a, a - Gap(r))
    BY PopTakes DEF Inv
  <2> HIDE DEF m, v, r, p
  <2>3. OpAt(v, m.at) = Here(m.at) /\ RoundAt(v, m.at) = InRound(m.at)
    BY <2>1, <2>2, GridPlaces
  <2>4. /\ m.from = v
        /\ RoundAt(m.from, m.at) = Round(w)
        /\ OpAt(m.from, m.at).wave = Op(w).wave
        /\ m.at % Pieces = step[w] % Pieces
    BY <2>1, <2>2, <2>3 DEF SameMessage
  <2>5. QED
    BY <2>4 DEF m, v, p
<1>2. QED
  BY <1>1, Invariance, PTL

\* When all workers have returned no message is left behind, of any pattern:
\* the sends and receives of a run match (ember.cpp:162-819).
THEOREM AllIsDelivered == Spec => []AllDelivered
<1>1. Inv => AllDelivered
  <2> SUFFICES ASSUME Inv, \A w \in Workers : pc[w] = "done", NEW q \in 0 .. NQueues
               PROVE  queues[q] = <<>>
    BY DEF AllDelivered
  <2>1. /\ build \in Builds /\ queues[q] \in Seq(Messages)
        /\ \A w \in Workers : step[w] = Total(w) /\ step[w] \in Nat
    BY DEF Inv, TypeOK, OnOperation
  <2>2. CASE Grid
    <3>1. ASSUME NEW v \in Workers, NEW r \in Ports, HasEdge(v, r), q = SendQueue(v, r)
          PROVE  queues[q] = <<>>
      <4> DEFINE u == Neighbour(v, r)
      <4>1. Holds(queues[q], v, r, step[v], step[u]) /\ u \in Workers
        BY <2>2, <3>1, Across DEF Inv, EachQueueHolds
      <4>2. step[v] = AllPlaces /\ step[u] = AllPlaces
        BY <2>1, <2>2, <4>1, GridPlaces
      <4> HIDE DEF u
      <4>3. ASSUME NEW i \in 1 .. Len(queues[q]) PROVE FALSE
        <5> DEFINE s == queues[q][i].at
        <5>1. queues[q][i] \in Messages
          BY <2>1
        <5>2. s \in Nat /\ Sends(r, s)
          BY <4>1, <5>1 DEF Holds, Messages
        <5>3. s < AllPlaces /\ AllPlaces <= s + Gap(r)
          BY <4>1, <4>2, <5>2 DEF Holds
        <5> HIDE DEF s
        <5>4. s + Gap(r) \in Nat /\ InRound(s) = InRound(s + Gap(r))
          BY <2>1, <2>2, <5>2, Matches DEF SameMessage
        <5>5. AllPlaces \in Nat /\ InRound(s) < Rounds
          BY <2>1, <2>2, <5>2, <5>3, PlacesLeft
        <5>6. s + Gap(r) < AllPlaces
          BY <2>1, <2>2, <5>4, <5>5, PlacesLeft
        <5>7. QED
          BY <5>3, <5>4, <5>5, <5>6
      <4>4. Len(queues[q]) = 0
        BY <2>1, <4>3
      <4>5. QED
        BY <2>1, <4>4
    <3>2. QED
      BY <2>2, <3>1 DEF Inv, OthersEmpty
  <2>3. CASE ~Grid
    <3> DEFINE n == Repeats * build.blocks
    <3>1. n \in Nat
      BY <2>1 DEF EmberAssumption
    <3>2. /\ build.pattern \in {"incast", "outcast"}
          /\ step[Master] = n * (NThreads - 1)
          /\ \A w \in Others : step[w] = n
      BY <2>1, <2>3, <3>1, SharedPlaces, WorkerNumbers DEF Others
    <3>3. Passed = Others \X (0 .. n - 1)
      <4>1. Passed = {x \in Others \X Nat : x[2] < n}
        BY <3>2 DEF Passed
      <4> HIDE DEF n
      <4>2. \A k \in Nat : k < n <=> k \in 0 .. n - 1
        BY <3>1
      <4>3. 0 .. n - 1 \subseteq Nat
        BY <3>1
      <4>4. QED
        BY <4>1, <4>2, <4>3
    <3> HIDE DEF n
    <3>4. /\ IsFiniteSet(Others) /\ Cardinality(Others) = NThreads - 1
          /\ IsFiniteSet(0 .. n - 1) /\ Cardinality(0 .. n - 1) = n
      BY <3>1, WorkerNumbers, FS_Interval
    <3>5. Cardinality(Passed) = (NThreads - 1) * n
      <4>1. Cardinality(Others \X (0 .. n - 1)) = Cardinality(Others) * Cardinality(0 .. n - 1)
        BY <3>4, FS_Product
      <4>2. QED
        BY <3>3, <3>4, <4>1
    <3>6. Cardinality(Passed) = step[Master] /\ step[Master] \in Nat
      BY <2>1, <3>1, <3>2, <3>5, WorkerNumbers
    <3>7. Len(queues[0]) = 0 /\ \A k \in 1 .. NQueues : queues[k] = <<>>
      <4>1. 0 \in 0 .. NQueues
        BY BandSizes
      <4>2. Len(queues[0]) \in Nat
        BY <4>1 DEF Inv, TypeOK
      <4>3. /\ \A k \in 1 .. NQueues : queues[k] = <<>>
            /\ build.pattern = "incast" => Len(queues[0]) + step[Master] = Cardinality(Passed)
            /\ build.pattern = "outcast" => Len(queues[0]) + Cardinality(Passed) = step[Master]
        BY <2>3 DEF Inv, SharedCounts
      <4>4. Len(queues[0]) = 0
        <5>1. CASE build.pattern = "incast"
          BY <3>6, <4>2, <4>3, <5>1
        <5>2. CASE build.pattern = "outcast"
          BY <3>6, <4>2, <4>3, <5>2
        <5>3. QED
          BY <3>2, <5>1, <5>2
      <4>5. QED
        BY <4>3, <4>4
    <3>8. q = 0 \/ q \in 1 .. NQueues
      BY BandSizes
    <3>9. QED
      BY <2>1, <3>7, <3>8
  <2>4. QED
    BY <2>2, <2>3
<1>2. QED
  BY <1>1, Invariance, PTL

-----------------------------------------------------------------------------
(* The waves.                                                              *)

\* The operation of a sweep's program at an index.
LEMMA SweepOps ==
  ASSUME build.pattern = "sweep", NEW i \in 0 .. 15
  PROVE  LET op == GridProgram[i + 1]
         IN  op.wave = i \div 4 + 1 /\ op.act = IF i % 4 < 2 THEN "recv" ELSE "send"
<1> DEFINE P == GridProgram
<1>1. i \in {0, 1, 2, 3, 4, 5, 6, 7, 8, 9, 10, 11, 12, 13, 14, 15}
  OBVIOUS
<1>2. /\ P[1] = Recv("xDn", 1) /\ P[2] = Recv("yDn", 1)
      /\ P[3] = Send("xUp", 1) /\ P[4] = Send("yUp", 1)
      /\ P[5] = Recv("xUp", 2) /\ P[6] = Recv("yUp", 2)
      /\ P[7] = Send("xDn", 2) /\ P[8] = Send("yDn", 2)
      /\ P[9] = Recv("xUp", 3) /\ P[10] = Recv("yDn", 3)
      /\ P[11] = Send("xDn", 3) /\ P[12] = Send("yUp", 3)
      /\ P[13] = Recv("xDn", 4) /\ P[14] = Recv("yUp", 4)
      /\ P[15] = Send("xUp", 4) /\ P[16] = Send("yDn", 4)
  BY SweepProgram DEF GridProgram
<1> HIDE DEF P
<1>3. P[i + 1].wave = i \div 4 + 1 /\ P[i + 1].act = IF i % 4 < 2 THEN "recv" ELSE "send"
  BY <1>1, <1>2 DEF Send, Recv
<1>4. QED
  BY <1>3 DEF P

\* The ports a wave comes in by.
Inlets(wave) == {IF wave \in {1, 4} THEN "xDn" ELSE "xUp", IF wave \in {1, 3} THEN "yDn" ELSE "yUp"}

LEMMA SweepInlets ==
  ASSUME build.pattern = "sweep", NEW wave \in 1 .. 4, NEW port \in Inlets(wave)
  PROVE  /\ port \in Ports
         /\ \E k \in {0, 1} : GridProgram[4 * (wave - 1) + k + 1] = Recv(port, wave)
<1> DEFINE P == GridProgram
<1>1. wave \in {1, 2, 3, 4}
  OBVIOUS
<1>2. /\ P[1] = Recv("xDn", 1) /\ P[2] = Recv("yDn", 1)
      /\ P[5] = Recv("xUp", 2) /\ P[6] = Recv("yUp", 2)
      /\ P[9] = Recv("xUp", 3) /\ P[10] = Recv("yDn", 3)
      /\ P[13] = Recv("xDn", 4) /\ P[14] = Recv("yUp", 4)
  BY SweepProgram DEF GridProgram
<1> HIDE DEF P
<1>3. port \in Ports /\ \E k \in {0, 1} : P[4 * (wave - 1) + k + 1] = Recv(port, wave)
  BY <1>1, <1>2 DEF Inlets, Ports
<1>4. QED
  BY <1>3 DEF P

\* A worker is past the receives of a wave when it has come so far.
LEMMA ReceivedAt ==
  ASSUME Inv, build.pattern = "sweep", NEW w \in Workers,
         NEW round \in Nat, NEW wave \in 1 .. 4
  PROVE  Received(w, round, wave) <=> step[w] \div Pieces >= 16 * round + 4 * wave - 2
<1> DEFINE d == step[w] \div Pieces
<1> DEFINE n == d \div 16
<1> DEFINE i == d % 16
<1>1. Grid /\ build \in Builds /\ step[w] \in Nat /\ Length = 16
  BY DEF Grid, Inv, TypeOK, Length
<1>2. Pieces \in Nat \ {0}
  BY <1>1, GridPlaces
<1>3. d \in Nat
  BY <1>1, <1>2, Digits
<1>4. n \in Nat /\ i \in 0 .. 15 /\ d = i + n * 16
  <2> HIDE DEF d
  <2>1. n \in Nat /\ i \in 0 .. 16 - 1 /\ d = i + n * 16
    BY <1>3, Digits
  <2>2. QED
    BY <2>1
<1>5. Round(w) = n /\ Op(w) = GridProgram[i + 1]
  BY <1>1, GridPlaces DEF Round, Op, InRound, Here, Index
<1> HIDE DEF d, n, i
<1>6. Op(w).wave = i \div 4 + 1 /\ Op(w).act = IF i % 4 < 2 THEN "recv" ELSE "send"
  BY <1>4, <1>5, SweepOps
<1>7. Received(w, round, wave) <=>
        \/ n > round
        \/ n = round /\ i \div 4 + 1 > wave
        \/ n = round /\ i \div 4 + 1 = wave /\ i % 4 >= 2
  BY <1>4, <1>5, <1>6 DEF Received
<1>8. Received(w, round, wave) <=> d >= 16 * round + 4 * wave - 2
  BY <1>4, <1>7
<1>9. QED
  BY <1>8 DEF d

\* What a worker has received, the neighbour at that inlet has received before.
LEMMA NeighbourBefore ==
  ASSUME Inv, build.pattern = "sweep", NEW w \in Workers, NEW round \in Nat, NEW wave \in 1 .. 4,
         NEW port \in Inlets(wave), HasEdge(w, port), Received(w, round, wave)
  PROVE  Received(Neighbour(w, port), round, wave)
<1> DEFINE u == Neighbour(w, port)
<1> DEFINE r == Opposite[port]
<1>1. /\ Grid /\ build \in Builds /\ Length = 16 /\ Master \in Workers
      /\ \A v \in Workers : step[v] \in Nat
  BY WorkerNumbers DEF Grid, Inv, TypeOK, Length
<1>2. Pieces \in Nat \ {0}
  BY <1>1, GridPlaces
<1>3. PICK k \in {0, 1} : GridProgram[4 * (wave - 1) + k + 1] = Recv(port, wave)
  BY SweepInlets
<1>4. port \in Ports
  BY SweepInlets
<1>5. /\ u \in Workers /\ r \in Ports /\ HasEdge(u, r) /\ Neighbour(u, r) = w
      /\ Opposite[r] = port
  BY <1>4, Across
<1> HIDE DEF u, r
<1> DEFINE i == 4 * (wave - 1) + k
<1> DEFINE d == i + round * 16
<1> DEFINE b == (Pieces - 1) + d * Pieces
<1>6. i \in 0 .. 15 /\ d \in Nat /\ d \div 16 = round /\ d % 16 = i
  <2>1. i \in 0 .. 15
    OBVIOUS
  <2> HIDE DEF i
  <2>2. QED
    BY <2>1, OfDigits
<1>7. b \in Nat /\ b \div Pieces = d
  <2> HIDE DEF d
  <2>1. Pieces - 1 \in 0 .. Pieces - 1
    BY <1>2
  <2>2. QED
    BY <1>2, <1>6, <2>1, OfDigits
<1>8. Here(b) = Recv(port, wave)
  BY <1>1, <1>3, <1>6, <1>7 DEF Here, Index
<1>9. step[w] \div Pieces >= d + 1 /\ step[w] \in Nat
  <2>1. step[w] \div Pieces >= 16 * round + 4 * wave - 2
    BY ReceivedAt
  <2>2. step[w] \in Nat
    BY <1>1
  <2>3. step[w] \div Pieces \in Nat
    BY ONLY <1>2, <2>2, Digits
  <2>4. QED
    BY <2>1, <2>2, <2>3
<1>10. step[w] > b
  <2> DEFINE e == step[w] \div Pieces
  <2>1. e \in Nat /\ step[w] \in Nat /\ step[w] >= e * Pieces
    <3>1. e \in Nat /\ step[w] % Pieces \in 0 .. Pieces - 1 /\ step[w] = (step[w] % Pieces) + e * Pieces
      BY <1>2, <1>9, Digits
    <3> HIDE DEF e
    <3>2. e * Pieces \in Nat
      BY <1>2, <3>1
    <3>3. QED
      BY <1>2, <1>9, <3>1, <3>2
  <2>2. e >= d + 1
    BY <1>9
  <2> HIDE DEF e, d
  <2>3. (e - (d + 1)) * Pieces \in Nat /\ e * Pieces = (e - (d + 1)) * Pieces + d * Pieces + Pieces
    BY <1>2, <1>6, <2>1, <2>2
  <2>4. d * Pieces \in Nat
    BY <1>2, <1>6
  <2>5. QED
    BY <1>2, <2>1, <2>3, <2>4
<1> HIDE DEF b
<1>11. /\ Gap(r) \in Int /\ b - Gap(r) \in Nat /\ Sends(r, b - Gap(r))
  BY <1>1, <1>5, <1>7, <1>8, Matches DEF Recv
<1>12. Gap(r) = -(2 * Pieces)
  <2>1. Gap(r) = (-2) * Pieces
    BY DEF Gap, Apart
  <2>2. QED
    BY <1>2, <2>1
<1>13. b - Gap(r) < step[u]
  <2>1. Holds(queues[SendQueue(u, r)], u, r, step[u], step[w])
    BY <1>1, <1>5 DEF Inv, EachQueueHolds
  <2>2. (b - Gap(r)) + Gap(r) < step[w]
    BY <1>7, <1>9, <1>10, <1>11
  <2>3. QED
    BY <1>11, <2>1, <2>2 DEF Holds
<1>14. step[u] \in Nat /\ step[u] >= (d + 3) * Pieces
  <2>1. step[u] \in Nat
    BY <1>1, <1>5
  <2> HIDE DEF d
  <2>2. b - Gap(r) = (Pieces - 1) + d * Pieces + 2 * Pieces /\ d * Pieces \in Nat
    BY <1>2, <1>6, <1>12 DEF b
  <2>3. (d + 3) * Pieces = d * Pieces + 3 * Pieces
    BY <1>2, <1>6
  <2>4. QED
    BY <1>2, <1>13, <2>1, <2>2, <2>3
<1>15. step[u] \div Pieces >= d + 3
  <2> DEFINE e == step[u] \div Pieces
  <2>1. e \in Nat /\ step[u] < (e + 1) * Pieces
    <3>1. e \in Nat /\ step[u] % Pieces \in 0 .. Pieces - 1 /\ step[u] = (step[u] % Pieces) + e * Pieces
      BY <1>2, <1>14, Digits
    <3> HIDE DEF e
    <3>2. (e + 1) * Pieces = e * Pieces + Pieces /\ e * Pieces \in Nat
      BY <1>2, <3>1
    <3>3. QED
      BY <1>2, <1>14, <3>1, <3>2
  <2> HIDE DEF e, d
  <2>2. SUFFICES ASSUME e + 1 <= d + 3 PROVE FALSE
    BY <1>6, <2>1 DEF e
  <2>3. /\ ((d + 3) - (e + 1)) * Pieces \in Nat
        /\ (d + 3) * Pieces = ((d + 3) - (e + 1)) * Pieces + (e + 1) * Pieces
        /\ (e + 1) * Pieces \in Nat
    BY <1>2, <1>6, <2>1, <2>2
  <2>4. QED
    BY <1>14, <2>1, <2>3
<1>16. step[u] \div Pieces >= 16 * round + 4 * wave - 2
  <2>1. step[u] \div Pieces \in Nat
    BY <1>2, <1>14, Digits
  <2>2. QED
    BY <1>15, <2>1
<1>17. QED
  BY <1>5, <1>16, ReceivedAt DEF u

\* The coordinates of a neighbour.
LEMMA Nearby ==
  ASSUME NEW w \in Workers, NEW port \in Ports,
         port = "xDn" => X(w) # 0, port = "xUp" => X(w) # Pex - 1,
         port = "yDn" => Y(w) # 0, port = "yUp" => Y(w) # Pey - 1
  PROVE  LET v == Neighbour(w, port)
         IN  /\ HasEdge(w, port) /\ v \in Workers
             /\ X(v) = CASE port = "xDn" -> X(w) - 1 [] port = "xUp" -> X(w) + 1 [] OTHER -> X(w)
             /\ Y(v) = CASE port = "yDn" -> Y(w) - 1 [] port = "yUp" -> Y(w) + 1 [] OTHER -> Y(w)
<1> DEFINE v == Neighbour(w, port)
<1>1. X(w) \in 0 .. Pex - 1 /\ Y(w) \in 0 .. Pey - 1 /\ w = X(w) + Y(w) * Pex
  BY Coordinates
<1>2. Y(w) * Pex \in Nat /\ (Y(w) - 1) * Pex = Y(w) * Pex - Pex /\ (Y(w) + 1) * Pex = Y(w) * Pex + Pex
  BY <1>1
<1>3. CASE port = "xDn"
  <2>1. v = (X(w) - 1) + Y(w) * Pex /\ X(w) - 1 \in 0 .. Pex - 1
    BY <1>1, <1>2, <1>3, NeighbourInside
  <2>2. v \in Workers /\ X(v) = X(w) - 1 /\ Y(v) = Y(w)
    BY <1>1, <2>1, WorkerAt
  <2>3. QED
    BY <1>3, <2>2 DEF HasEdge, Workers, NoWorker
<1>4. CASE port = "xUp"
  <2>1. v = (X(w) + 1) + Y(w) * Pex /\ X(w) + 1 \in 0 .. Pex - 1
    BY <1>1, <1>2, <1>4, NeighbourInside
  <2>2. v \in Workers /\ X(v) = X(w) + 1 /\ Y(v) = Y(w)
    BY <1>1, <2>1, WorkerAt
  <2>3. QED
    BY <1>4, <2>2 DEF HasEdge, Workers, NoWorker
<1>5. CASE port = "yDn"
  <2>1. v = X(w) + (Y(w) - 1) * Pex /\ Y(w) - 1 \in 0 .. Pey - 1
    BY <1>1, <1>2, <1>5, NeighbourInside
  <2>2. v \in Workers /\ X(v) = X(w) /\ Y(v) = Y(w) - 1
    BY <1>1, <2>1, WorkerAt
  <2>3. QED
    BY <1>5, <2>2 DEF HasEdge, Workers, NoWorker
<1>6. CASE port = "yUp"
  <2>1. v = X(w) + (Y(w) + 1) * Pex /\ Y(w) + 1 \in 0 .. Pey - 1
    <3>1. v = w + Pex /\ Y(w) + 1 \in 0 .. Pey - 1
      BY <1>1, <1>6, NeighbourInside
    <3> HIDE DEF v
    <3>2. QED
      BY <1>1, <1>2, <3>1
  <2>2. v \in Workers /\ X(v) = X(w) /\ Y(v) = Y(w) + 1
    BY <1>1, <2>1, WorkerAt
  <2>3. QED
    BY <1>6, <2>2 DEF HasEdge, Workers, NoWorker
<1>7. QED
  BY <1>3, <1>4, <1>5, <1>6 DEF Ports

Away(a, b)  == IF a < b THEN b - a ELSE a - b
Far(u, w) == Away(X(u), X(w)) + Away(Y(u), Y(w))

\* One step towards the corner a wave comes from, on the way to a worker there.
LEMMA Closer ==
  ASSUME NEW u \in Workers, NEW w \in Workers, NEW wave \in 1 .. 4,
         Upstream(u, w, wave), u # w
  PROVE  \E port \in Inlets(wave) :
           LET v == Neighbour(w, port)
           IN  /\ HasEdge(w, port) /\ v \in Workers
               /\ Upstream(u, v, wave) /\ Far(u, v) < Far(u, w)
<1>1. /\ X(w) \in 0 .. Pex - 1 /\ Y(w) \in 0 .. Pey - 1 /\ w = X(w) + Y(w) * Pex
      /\ X(u) \in 0 .. Pex - 1 /\ Y(u) \in 0 .. Pey - 1 /\ u = X(u) + Y(u) * Pex
  BY Coordinates
<1>2. X(u) # X(w) \/ Y(u) # Y(w)
  BY <1>1
<1>3. CASE X(u) # X(w)
  <2> DEFINE port == IF wave \in {1, 4} THEN "xDn" ELSE "xUp"
  <2> DEFINE v == Neighbour(w, port)
  <2>1. /\ port \in Inlets(wave) /\ port \in Ports /\ port \in {"xDn", "xUp"}
        /\ port = "xDn" => X(w) # 0
        /\ port = "xUp" => X(w) # Pex - 1
    BY <1>1, <1>3 DEF Inlets, Ports, Upstream
  <2>2. port = "xDn" <=> wave \in {1, 4}
    OBVIOUS
  <2> HIDE DEF port
  <2>3. /\ HasEdge(w, port) /\ v \in Workers /\ Y(v) = Y(w)
        /\ X(v) = IF port = "xDn" THEN X(w) - 1 ELSE X(w) + 1
    BY <2>1, Nearby
  <2> HIDE DEF v
  <2>4. Upstream(u, v, wave)
    BY <1>1, <1>3, <2>1, <2>2, <2>3 DEF Upstream
  <2>5. Far(u, v) < Far(u, w)
    <3>1. IF port = "xDn" THEN X(u) < X(w) ELSE X(u) > X(w)
      BY <1>1, <1>3, <2>2 DEF Upstream
    <3>2. QED
      BY <1>1, <2>3, <3>1 DEF Far, Away
  <2>6. QED
    BY <2>1, <2>3, <2>4, <2>5 DEF v
<1>4. CASE Y(u) # Y(w)
  <2> DEFINE port == IF wave \in {1, 3} THEN "yDn" ELSE "yUp"
  <2> DEFINE v == Neighbour(w, port)
  <2>1. /\ port \in Inlets(wave) /\ port \in Ports /\ port \in {"yDn", "yUp"}
        /\ port = "yDn" => Y(w) # 0
        /\ port = "yUp" => Y(w) # Pey - 1
    BY <1>1, <1>4 DEF Inlets, Ports, Upstream
  <2>2. port = "yDn" <=> wave \in {1, 3}
    OBVIOUS
  <2> HIDE DEF port
  <2>3. /\ HasEdge(w, port) /\ v \in Workers /\ X(v) = X(w)
        /\ Y(v) = IF port = "yDn" THEN Y(w) - 1 ELSE Y(w) + 1
    BY <2>1, Nearby
  <2> HIDE DEF v
  <2>4. Upstream(u, v, wave)
    BY <1>1, <1>4, <2>1, <2>2, <2>3 DEF Upstream
  <2>5. Far(u, v) < Far(u, w)
    <3>1. IF port = "yDn" THEN Y(u) < Y(w) ELSE Y(u) > Y(w)
      BY <1>1, <1>4, <2>2 DEF Upstream
    <3>2. QED
      BY <1>1, <2>3, <3>1 DEF Far, Away
  <2>6. QED
    BY <2>1, <2>3, <2>4, <2>5 DEF v
<1>5. QED
  BY <1>2, <1>3, <1>4

\* Each wave of a sweep (ember.cpp:164-192) reaches a worker only when it has
\* reached all those between the worker and the corner it comes from.  By
\* NeighbourBefore, a step at a time.
THEOREM WavesSweep == Spec => []WaveFront
<1>1. Inv => WaveFront
  <2>1. SUFFICES ASSUME Inv, build.pattern = "sweep", NEW round \in Nat, NEW wave \in 1 .. 4
                 PROVE  \A u, w \in Workers :
                          Upstream(u, w, wave) /\ Received(w, round, wave)
                          => Received(u, round, wave)
    <3>1. Inv => Repeats * build.blocks - 1 \in Int
      BY DEF Inv, TypeOK, EmberAssumption
    <3>2. Inv => 0 .. Repeats * build.blocks - 1 \subseteq Nat
      BY <3>1
    <3>3. QED
      BY <3>2 DEF WaveFront
  <2> DEFINE Skipped(u, w) ==
        Upstream(u, w, wave) /\ Received(w, round, wave) /\ ~Received(u, round, wave)
  <2> DEFINE Bad == {n \in Nat : \E u, w \in Workers : Skipped(u, w) /\ Far(u, w) = n}
  <2>2. \A u, w \in Workers : Far(u, w) \in Nat
    BY Coordinates DEF Far, Away
  <2>3. SUFFICES ASSUME Bad # {} PROVE FALSE
    BY <2>2
  <2>4. PICK n \in Bad : \A m \in Bad : n <= m
    <3>1. Bad \subseteq Nat
      OBVIOUS
    <3> HIDE DEF Bad
    <3>2. QED
      BY <2>3, <3>1, SmallestOf
  <2>5. PICK u \in Workers, w \in Workers : Skipped(u, w) /\ Far(u, w) = n
    BY <2>4
  <2>6. u # w
    BY <2>5
  <2>7. PICK port \in Inlets(wave) :
          /\ HasEdge(w, port) /\ Neighbour(w, port) \in Workers
          /\ Upstream(u, Neighbour(w, port), wave)
          /\ Far(u, Neighbour(w, port)) < Far(u, w)
    BY <2>5, <2>6, Closer
  <2>8. Received(Neighbour(w, port), round, wave)
    BY <2>1, <2>5, <2>7, NeighbourBefore
  <2>9. Far(u, Neighbour(w, port)) \in Bad
    BY <2>2, <2>5, <2>7, <2>8
  <2>10. QED
    BY <2>2, <2>4, <2>5, <2>7, <2>9
<1>2. QED
  BY <1>1, Invariance, PTL
=============================================================================
