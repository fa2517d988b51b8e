---------------------------- MODULE Phish_proofs ----------------------------
(* The bookkeeping of PHISH's ports for every script: a minnow counts exactly *)
(* the upstream sockets it has still to hear the end of, and no datum is      *)
(* under way to a port once that is closed.  Minnows that abort are included. *)
EXTENDS Phish, TLAPS, FiniteSetTheorems

IsSeq(s) == \E S : s \in Seq(S)

\* A sequence of calls with no phish_close among them.
OnlySends(s) == \E S : s \in Seq(S) /\ \A call \in S : call.op # "close"

Script == net \in Nets /\ crew = SchoolOf(net) /\ outgoing = Outgoing(net)

PerMinnow ==
  /\ open = [m \in Minnows |-> open[m]] /\ count = [m \in Minnows |-> count[m]]
  /\ calls = [m \in Minnows |-> calls[m]] /\ todo = [m \in Minnows |-> todo[m]]
  /\ message = [m \in Minnows |-> message[m]] /\ pc = [m \in Minnows |-> pc[m]]
  /\ tally = [m \in Minnows |-> tally[m]]

MinnowTyped(m) ==
  /\ open[m] \subseteq DOMAIN outgoing[m]
  /\ \A k \in todo[m] : k \in Sockets /\ k[1] = m
  /\ IsFiniteSet(DOMAIN tally[m])

Typed ==
  /\ Script /\ PerMinnow
  /\ chan = [k \in SocketsOf(outgoing) |-> chan[k]]
  /\ \A m \in Minnows : MinnowTyped(m)
  /\ \A k \in Sockets : IsSeq(chan[k])

\* The bait has not yet answered the minnows it has still to start.
Awaiting ==
  /\ bait.at = "create" =>
       \A m \in Minnows : pc[m] = IF m < bait.i THEN "init" ELSE "none"
  /\ bait.at \in {"start", "started"} => \A m \in Minnows : bait.i <= m => pc[m] = "init"

\* Until it exits, a minnow has closed nothing and is about to close nothing.
NothingClosed(m) ==
  pc[m] \notin {"sleep", "gone"} => open[m] = DOMAIN outgoing[m] /\ OnlySends(calls[m])

\* A socket carries data until its connection is deleted; then, once, a close
\* message, and nothing after it.
SocketOk(k) ==
  /\ \A i \in DOMAIN chan[k] : chan[k][i].type = "close" =>
       i = Len(chan[k]) /\ k[2] \notin open[k[1]] /\ k \notin todo[k[1]]
  /\ k \in todo[k[1]] => (message[k[1]].type = "close" <=> k[2] \notin open[k[1]])
  /\ k[2] \notin open[k[1]] /\ k \notin todo[k[1]] /\ chan[k] # <<>> =>
       chan[k][Len(chan[k])].type = "close"

\* CountsMatch for one minnow.
UnclosedOn(m, port) == {k \in Sockets : Dest(k) = m /\ Frame(k) = port /\ Unclosed(k)}
MatchAt(m) ==
  Alive(m) =>
    \A port \in {Frame(k) : k \in Sockets} \cup DOMAIN count[m] :
      IF port \in DOMAIN count[m]
        THEN count[m][port] = Cardinality(UnclosedOn(m, port)) /\ UnclosedOn(m, port) # {}
        ELSE UnclosedOn(m, port) = {}

PInv ==
  /\ Typed /\ Awaiting
  /\ \A m \in Minnows : NothingClosed(m) /\ MatchAt(m)
  /\ \A k \in Sockets : SocketOk(k)

-----------------------------------------------------------------------------
(* Finite sets and sequences.                                               *)

LEMMA FiniteImage ==
  ASSUME NEW S, IsFiniteSet(S), NEW f
  PROVE  IsFiniteSet({f[x] : x \in S})
<1> DEFINE T == {f[x] : x \in S}
           g == [x \in S |-> f[x]]
<1>1. g \in Surjection(S, T)
  BY DEF Surjection
<1>2. IsFiniteSet(T)
  <2> HIDE DEF g, T
  <2> QED
    BY <1>1, FS_Surjection
<1>3. QED
  BY <1>2

LEMMA TailIsSeq ==
  ASSUME NEW s, IsSeq(s), s # <<>>
  PROVE  /\ IsSeq(Tail(s)) /\ Len(s) \in Nat \ {0} /\ Len(Tail(s)) = Len(s) - 1
         /\ DOMAIN s = 1 .. Len(s) /\ DOMAIN Tail(s) = 1 .. Len(s) - 1
         /\ \A i \in 1 .. Len(s) - 1 : Tail(s)[i] = s[i + 1]
BY DEF IsSeq

LEMMA AppendIsSeq ==
  ASSUME NEW s, IsSeq(s), NEW x
  PROVE  /\ IsSeq(Append(s, x)) /\ Len(s) \in Nat /\ Len(Append(s, x)) = Len(s) + 1
         /\ DOMAIN s = 1 .. Len(s) /\ DOMAIN Append(s, x) = 1 .. Len(s) + 1
         /\ \A i \in 1 .. Len(s) : Append(s, x)[i] = s[i]
         /\ Append(s, x)[Len(s) + 1] = x
<1>1. PICK S : s \in Seq(S)
  BY DEF IsSeq
<1>2. Append(s, x) \in Seq(S \cup {x})
  BY <1>1
<1>3. IsSeq(Append(s, x))
  BY <1>2 DEF IsSeq
<1>4. QED
  BY <1>1, <1>3

LEMMA PrefixIsSeq ==
  ASSUME NEW s, IsSeq(s), NEW n \in Nat, n < Len(s)
  PROVE  /\ IsSeq(SubSeq(s, 1, n)) /\ DOMAIN s = 1 .. Len(s) /\ Len(s) \in Nat
         /\ DOMAIN SubSeq(s, 1, n) = 1 .. n /\ Len(SubSeq(s, 1, n)) = n
         /\ \A i \in 1 .. n : SubSeq(s, 1, n)[i] = s[i]
BY DEF IsSeq

LEMMA TailSends ==
  ASSUME NEW s, OnlySends(s), s # <<>>
  PROVE  OnlySends(Tail(s)) /\ Head(s).op # "close"
BY DEF OnlySends

\* Calls that a callback or main lists one by one.
LEMMA ListedSends ==
  ASSUME NEW n \in Nat, NEW s, s = [i \in 1 .. n |-> s[i]],
         \A i \in 1 .. n : s[i].op # "close"
  PROVE  OnlySends(s)
<1> DEFINE S == {s[i] : i \in 1 .. n}
<1>1. s \in [1 .. n -> S]
  OBVIOUS
<1>2. s \in Seq(S)
  <2> HIDE DEF S
  <2> QED
    BY <1>1
<1>3. \A call \in S : call.op # "close"
  OBVIOUS
<1> HIDE DEF S
<1>4. QED
  BY <1>2, <1>3 DEF OnlySends

LEMMA EmptySends == OnlySends(<<>>)
<1>1. <<>> = [i \in 1 .. 0 |-> <<>>[i]]
  OBVIOUS
<1>2. \A i \in 1 .. 0 : <<>>[i].op # "close"
  OBVIOUS
<1>3. QED
  BY ONLY <1>1, <1>2, ListedSends

-----------------------------------------------------------------------------
(* What the bait makes of a script.                                         *)

LEMMA SocketShape ==
  ASSUME NEW k, NEW out
  PROVE  k \in SocketsOf(out) <=>
           \E m \in DOMAIN out : \E c \in DOMAIN out[m] : \E r \in DOMAIN out[m][c].to :
              k = <<m, c, r>>
BY DEF SocketsOf

LEMMA ReceiversFinite ==
  ASSUME NEW n \in Nets, NEW j \in DOMAIN n.hooks, NEW i
  PROVE  IsFiniteSet(DOMAIN Receivers(n, n.hooks[j], i))
<1> DEFINE h == n.hooks[j]
           to == MinnowsOf(n, h.input)
<1>1. /\ DOMAIN to = 1 .. n.schools[h.input].count
      /\ n.schools[h.input].count \in Nat
  BY PhishAssumption DEF MinnowsOf
<1>2. IsFiniteSet(DOMAIN to)
  <2> HIDE DEF to, h
  <2> QED
    BY <1>1, FS_Interval
<1>3. IsFiniteSet(1 .. 1)
  BY ONLY 1 \in Int, FS_Interval
<1>a. IsFiniteSet({})
  BY ONLY FS_EmptySet
<1> HIDE DEF h
<1>4. \/ Receivers(n, h, i) = to
      \/ Receivers(n, h, i) = <<>>
      \/ \E x : Receivers(n, h, i) = <<x>>
  BY DEF Receivers
<1>5. \A x : DOMAIN <<x>> = 1 .. 1
  OBVIOUS
<1>6. DOMAIN <<>> = {}
  OBVIOUS
<1> HIDE DEF to, h
<1>7. QED
  BY <1>2, <1>3, <1>a, <1>4, <1>5, <1>6 DEF h

\* Receivers are minnows.
LEMMA ReceiversExist ==
  ASSUME NEW n \in Nets, NEW j \in DOMAIN n.hooks, Legal(n, n.hooks[j]),
         NEW i \in 1 .. n.schools[n.hooks[j].output].count,
         NEW r \in DOMAIN Receivers(n, n.hooks[j], i)
  PROVE  Receivers(n, n.hooks[j], i)[r] \in AllMinnows(n)
<1> DEFINE h == n.hooks[j]
           to == MinnowsOf(n, h.input)
           size == n.schools[h.input].count
<1>1. /\ size \in Nat /\ h.input \in DOMAIN n.schools /\ h.output \in DOMAIN n.schools
      /\ n.schools[h.output].count \in Nat
      /\ FirstId(n, h.input) \in 0 .. FirstId(n, Len(n.schools) + 1) - size
      /\ FirstId(n, Len(n.schools) + 1) \in Nat
  BY PhishAssumption
<1>2. to = [x \in 1 .. size |-> FirstId(n, h.input) + x]
  BY DEF MinnowsOf
<1>3. Len(to) = size /\ DOMAIN to = 1 .. size
  <2> HIDE DEF to, size, h
  <2> QED
    BY ONLY <1>1, <1>2
<1>4. Len(MinnowsOf(n, h.output)) = n.schools[h.output].count
  <2> DEFINE from == MinnowsOf(n, h.output)
             m == n.schools[h.output].count
  <2>1. from = [x \in 1 .. m |-> FirstId(n, h.output) + x]
    BY DEF MinnowsOf
  <2>2. m \in Nat
    BY ONLY <1>1
  <2> HIDE DEF from, m
  <2>3. QED
    BY ONLY <2>1, <2>2 DEF from, m
<1>5. \A x \in 1 .. size : to[x] \in AllMinnows(n)
  <2> HIDE DEF to, size, h
  <2> QED
    BY ONLY <1>1, <1>2 DEF AllMinnows
<1>6. CASE h.style = "paired"
  <2>1. Receivers(n, h, i) = <<to[i]>> /\ i \in 1 .. size
    BY <1>3, <1>4, <1>6 DEF Receivers, Legal
  <2>2. QED
    BY <1>5, <2>1
<1>7. CASE h.style = "chain"
  <2>1. /\ Receivers(n, h, i) = IF i < Len(to) THEN <<to[i + 1]>> ELSE <<>>
        /\ i \in Nat
    BY <1>1, <1>7 DEF Receivers
  <2>2. i < Len(to) /\ r = 1 /\ Receivers(n, h, i) = <<to[i + 1]>>
    <3> HIDE DEF to, h
    <3> QED
      BY <2>1 DEF h
  <2>3. i + 1 \in 1 .. size
    BY ONLY <1>1, <1>3, <2>1, <2>2
  <2>4. QED
    BY <1>5, <2>2, <2>3
<1>8. CASE h.style = "ring"
  <2>1. Receivers(n, h, i) = <<to[(i % Len(to)) + 1]>> /\ i \in 1 .. size
    BY <1>3, <1>8 DEF Receivers, Legal
  <2>2. (i % Len(to)) + 1 \in 1 .. size
    <3> HIDE DEF to, size
    <3> QED
      BY ONLY <1>1, <1>3, <2>1
  <2>3. QED
    BY <1>5, <2>1, <2>2
<1>9. CASE h.style \notin {"paired", "chain", "ring"}
  <2>1. Receivers(n, h, i) = to
    BY <1>9 DEF Receivers
  <2>2. QED
    BY <1>3, <1>5, <2>1
<1>10. QED
  BY <1>6, <1>7, <1>8, <1>9

LEMMA ScriptFacts ==
  ASSUME Script
  PROVE  /\ \E n \in Nat : Minnows = 1 .. n
         /\ \A m \in Minnows :
              /\ IsFiniteSet(DOMAIN outgoing[m])
              /\ \A c \in DOMAIN outgoing[m] :
                   /\ IsFiniteSet(DOMAIN outgoing[m][c].to)
                   /\ \A r \in DOMAIN outgoing[m][c].to : outgoing[m][c].to[r] \in Minnows
                   /\ outgoing[m][c].iport \in 0 .. 127
                   /\ outgoing[m][c].pattern \in {"broadcast", "roundrobin", "hashed", "direct"}
<1>1. Minnows = AllMinnows(net) /\ net \in Nets
  BY DEF Script, Minnows, Outgoing
<1>2. ASSUME NEW m \in Minnows PROVE IsFiniteSet(DOMAIN outgoing[m])
  <2>1. outgoing[m] = Connections(net, m)
    BY <1>1, <1>2 DEF Script, Outgoing
  <2>2. DOMAIN net.hooks = 1 .. Len(net.hooks) /\ Len(net.hooks) \in Nat
    BY <1>1, PhishAssumption
  <2>3. DOMAIN outgoing[m] \in SUBSET (1 .. Len(net.hooks))
    BY <2>1, <2>2 DEF Connections
  <2>4. IsFiniteSet(1 .. Len(net.hooks))
    BY <2>2, FS_Interval
  <2>5. QED
    BY <2>3, <2>4, FS_Subset
<1>3. ASSUME NEW m \in Minnows, NEW c \in DOMAIN outgoing[m]
      PROVE  /\ IsFiniteSet(DOMAIN outgoing[m][c].to)
             /\ \A r \in DOMAIN outgoing[m][c].to : outgoing[m][c].to[r] \in Minnows
             /\ outgoing[m][c].iport \in 0 .. 127
             /\ outgoing[m][c].pattern \in {"broadcast", "roundrobin", "hashed", "direct"}
  <2> DEFINE h == net.hooks[c]
  <2>1. outgoing[m] = Connections(net, m)
    BY <1>1, <1>3 DEF Script, Outgoing
  <2>2. c \in DOMAIN net.hooks /\ Sends(net, net.hooks[c], m)
    BY <2>1, <1>3 DEF Connections
  <2>3. outgoing[m][c] = [oport |-> h.oport, pattern |-> Pattern(h.style), iport |-> h.iport,
                          to |-> Receivers(net, h, m - FirstId(net, h.output))]
    BY <2>1, <1>3 DEF Connections
  <2>4. IsFiniteSet(DOMAIN Receivers(net, h, m - FirstId(net, h.output)))
    BY <1>1, <2>2, ReceiversFinite
  <2>5. h.iport \in 0 .. 127
    BY <1>1, <2>2, PhishAssumption
  <2>6. \A r \in DOMAIN Receivers(net, h, m - FirstId(net, h.output)) :
          Receivers(net, h, m - FirstId(net, h.output))[r] \in Minnows
    <3>1. Legal(net, h) /\ m - FirstId(net, h.output) \in 1 .. net.schools[h.output].count
      BY <2>2 DEF Sends
    <3>2. QED
      BY <1>1, <2>2, <3>1, ReceiversExist
  <2> HIDE DEF h
  <2>7. QED
    BY <2>3, <2>4, <2>5, <2>6 DEF Pattern
<1>4. \E n \in Nat : Minnows = 1 .. n
  BY <1>1, PhishAssumption DEF AllMinnows
<1>5. QED
  BY <1>2, <1>3, <1>4

LEMMA SocketsFinite ==
  ASSUME Script
  PROVE  IsFiniteSet(SocketsOf(outgoing))
<1> DEFINE Of(m, c) == {<<m, c, r>> : r \in DOMAIN outgoing[m][c].to}
           From(m) == UNION {Of(m, c) : c \in DOMAIN outgoing[m]}
<1>1. ASSUME NEW m \in Minnows, NEW c \in DOMAIN outgoing[m]
      PROVE  IsFiniteSet(Of(m, c))
  <2> DEFINE S == DOMAIN outgoing[m][c].to
             f == [r \in S |-> <<m, c, r>>]
  <2>1. IsFiniteSet(S)
    BY <1>1, ScriptFacts
  <2>2. {f[r] : r \in S} = Of(m, c)
    OBVIOUS
  <2> HIDE DEF S, f, Of
  <2>3. QED
    BY <2>1, <2>2, FiniteImage
<1>2. ASSUME NEW m \in Minnows PROVE IsFiniteSet(From(m))
  <2> DEFINE S == DOMAIN outgoing[m]
             f == [c \in S |-> Of(m, c)]
  <2>1. IsFiniteSet(S)
    BY <1>2, ScriptFacts
  <2>2. {f[c] : c \in S} = {Of(m, c) : c \in S}
    OBVIOUS
  <2>3. IsFiniteSet({Of(m, c) : c \in S})
    <3> HIDE DEF S, f, Of
    <3> QED
      BY <2>1, <2>2, FiniteImage
  <2>4. \A T \in {Of(m, c) : c \in S} : IsFiniteSet(T)
    BY <1>1, <1>2
  <2> HIDE DEF Of
  <2>5. QED
    BY <2>3, <2>4, FS_UNION
<1>3. IsFiniteSet(Minnows)
  BY ScriptFacts, FS_Interval
<1>4. IsFiniteSet({From(m) : m \in Minnows})
  <2> DEFINE f == [m \in Minnows |-> From(m)]
  <2>1. {f[m] : m \in Minnows} = {From(m) : m \in Minnows}
    OBVIOUS
  <2> HIDE DEF f, From
  <2>2. QED
    BY <1>3, <2>1, FiniteImage
<1>5. \A T \in {From(m) : m \in Minnows} : IsFiniteSet(T)
  BY <1>2
<1>6. SocketsOf(outgoing) = UNION {From(m) : m \in Minnows}
  BY DEF SocketsOf, Minnows
<1> HIDE DEF From
<1>7. QED
  BY <1>4, <1>5, <1>6, FS_UNION

-----------------------------------------------------------------------------
(* What does not change.                                                    *)

LEMMA SocketTyped ==
  ASSUME Typed, NEW k \in Sockets
  PROVE  /\ k \in SocketsOf(outgoing) /\ k[1] \in Minnows /\ k[2] \in DOMAIN outgoing[k[1]]
         /\ k[3] \in DOMAIN outgoing[k[1]][k[2]].to /\ k = <<k[1], k[2], k[3]>>
         /\ IsSeq(chan[k])
<1>1. k \in SocketsOf(outgoing) /\ IsSeq(chan[k])
  BY DEF Typed, Sockets
<1>2. PICK m \in DOMAIN outgoing :
        \E c \in DOMAIN outgoing[m] : \E r \in DOMAIN outgoing[m][c].to : k = <<m, c, r>>
  BY ONLY <1>1, SocketShape
<1>3. PICK c \in DOMAIN outgoing[m] : \E r \in DOMAIN outgoing[m][c].to : k = <<m, c, r>>
  BY ONLY <1>2
<1>4. PICK r \in DOMAIN outgoing[m][c].to : k = <<m, c, r>>
  BY ONLY <1>3
<1>5. QED
  BY ONLY <1>1, <1>4 DEF Minnows

\* Nothing happens to a socket, or to what its minnow is about to write to it.
Unmoved(k) ==
  /\ chan'[k] = chan[k]
  /\ k \in todo'[k[1]] <=> k \in todo[k[1]]
  /\ k[2] \in open'[k[1]] <=> k[2] \in open[k[1]]
  /\ k \in todo[k[1]] => message'[k[1]].type = message[k[1]].type

LEMMA UnmovedOk ==
  ASSUME NEW k, SocketOk(k), Unmoved(k)
  PROVE  SocketOk(k)' /\ (Unclosed(k)' <=> Unclosed(k))
BY DEF Unmoved, SocketOk, Unclosed, Closing

\* A datum or a close message is taken.
LEMMA TakenOk ==
  ASSUME NEW k, SocketOk(k), IsSeq(chan[k]), chan[k] # <<>>, chan'[k] = Tail(chan[k]),
         UNCHANGED <<open, todo, message>>
  PROVE  /\ IsSeq(chan'[k]) /\ SocketOk(k)'
         /\ Head(chan[k]).type # "close" => (Unclosed(k)' <=> Unclosed(k))
         /\ Head(chan[k]).type = "close" => Unclosed(k) /\ ~Unclosed(k)'
<1>1. /\ IsSeq(Tail(chan[k])) /\ Len(chan[k]) \in Nat \ {0} /\ Len(Tail(chan[k])) = Len(chan[k]) - 1
      /\ DOMAIN chan[k] = 1 .. Len(chan[k]) /\ DOMAIN Tail(chan[k]) = 1 .. Len(chan[k]) - 1
      /\ \A i \in 1 .. Len(chan[k]) - 1 : Tail(chan[k])[i] = chan[k][i + 1]
  BY TailIsSeq
<1>2. Head(chan[k]) = chan[k][1]
  BY DEF IsSeq
<1>3. SocketOk(k)'
  <2>1. \A i \in DOMAIN chan'[k] : chan'[k][i].type = "close" =>
          i = Len(chan'[k]) /\ k[2] \notin open[k[1]] /\ k \notin todo[k[1]]
    <3>1. TAKE i \in DOMAIN chan'[k]
    <3>2. i \in 1 .. Len(chan[k]) - 1 /\ i + 1 \in DOMAIN chan[k] /\ chan'[k][i] = chan[k][i + 1]
      BY ONLY <1>1, <3>1, chan'[k] = Tail(chan[k])
    <3>3. QED
      BY <1>1, <3>2 DEF SocketOk
  <2>2. k[2] \notin open[k[1]] /\ k \notin todo[k[1]] /\ chan'[k] # <<>> =>
          chan'[k][Len(chan'[k])].type = "close"
    <3>1. SUFFICES ASSUME k[2] \notin open[k[1]], k \notin todo[k[1]], chan'[k] # <<>>
                   PROVE  chan'[k][Len(chan'[k])].type = "close"
      OBVIOUS
    <3>2. Len(chan[k]) - 1 >= 1
      BY ONLY <1>1, <3>1, chan'[k] = Tail(chan[k]) DEF IsSeq
    <3>3. chan'[k][Len(chan'[k])] = chan[k][Len(chan[k])]
      BY ONLY <1>1, <3>2, chan'[k] = Tail(chan[k])
    <3>4. QED
      BY <3>1, <3>3 DEF SocketOk
  <2>3. QED
    BY <2>1, <2>2 DEF SocketOk
<1>4. ASSUME Head(chan[k]).type # "close" PROVE Unclosed(k)' <=> Unclosed(k)
  <2>1. (\E i \in DOMAIN chan'[k] : chan'[k][i].type = "close")
          <=> (\E i \in DOMAIN chan[k] : chan[k][i].type = "close")
    <3>1. ASSUME NEW i \in DOMAIN chan'[k], chan'[k][i].type = "close"
          PROVE  \E j \in DOMAIN chan[k] : chan[k][j].type = "close"
      <4>1. i + 1 \in DOMAIN chan[k] /\ chan[k][i + 1] = chan'[k][i]
        BY <1>1, <3>1
      <4>2. QED
        BY <3>1, <4>1
    <3>2. ASSUME NEW i \in DOMAIN chan[k], chan[k][i].type = "close"
          PROVE  \E j \in DOMAIN chan'[k] : chan'[k][j].type = "close"
      <4>1. i # 1
        BY <1>2, <1>4, <3>2
      <4>2. i - 1 \in DOMAIN chan'[k] /\ chan'[k][i - 1] = chan[k][i]
        BY <1>1, <3>2, <4>1
      <4>3. QED
        BY <3>2, <4>2
    <3>3. QED
      BY <3>1, <3>2
  <2>2. QED
    BY <2>1 DEF Unclosed, Closing
<1>5. ASSUME Head(chan[k]).type = "close" PROVE Unclosed(k) /\ ~Unclosed(k)'
  <2>1. 1 \in DOMAIN chan[k] /\ chan[k][1].type = "close"
    BY <1>1, <1>2, <1>5
  <2>2. Len(chan[k]) = 1 /\ k[2] \notin open[k[1]] /\ k \notin todo[k[1]]
    BY <2>1 DEF SocketOk
  <2>3. DOMAIN chan'[k] = {}
    BY <1>1, <2>2
  <2>4. QED
    BY <2>1, <2>2, <2>3 DEF Unclosed, Closing
<1>6. QED
  BY <1>1, <1>3, <1>4, <1>5

LEMMA MatchKept ==
  ASSUME NEW m, MatchAt(m), UNCHANGED outgoing, Sockets' = Sockets, count'[m] = count[m],
         Alive(m)' => Alive(m),
         \A k \in Sockets : Dest(k) = m => (Unclosed(k)' <=> Unclosed(k))
  PROVE  MatchAt(m)'
<1>1. SUFFICES ASSUME Alive(m)', NEW port \in ({Frame(k) : k \in Sockets} \cup DOMAIN count[m])'
               PROVE  (IF port \in DOMAIN count[m]
                         THEN /\ count[m][port] = Cardinality(UnclosedOn(m, port))
                              /\ UnclosedOn(m, port) # {}
                         ELSE UnclosedOn(m, port) = {})'
  BY DEF MatchAt
<1>2. \A k : Frame(k)' = Frame(k) /\ Dest(k)' = Dest(k)
  BY DEF Frame, Dest
<1>3. port \in {Frame(k) : k \in Sockets} \cup DOMAIN count[m]
  BY <1>1, <1>2
<1>4. UnclosedOn(m, port)' = UnclosedOn(m, port)
  BY <1>2 DEF UnclosedOn
<1>5. QED
  BY <1>1, <1>3, <1>4 DEF MatchAt

\* Minnow m changes nothing of the others' but what is in the sockets.
Own(m) ==
  /\ UNCHANGED <<net, crew, outgoing, bait>>
  /\ open' = [open EXCEPT ![m] = open'[m]] /\ count' = [count EXCEPT ![m] = count'[m]]
  /\ calls' = [calls EXCEPT ![m] = calls'[m]] /\ todo' = [todo EXCEPT ![m] = todo'[m]]
  /\ message' = [message EXCEPT ![m] = message'[m]] /\ pc' = [pc EXCEPT ![m] = pc'[m]]
  /\ tally' = [tally EXCEPT ![m] = tally'[m]]
  /\ chan' = [k \in Sockets |-> chan'[k]]
  /\ pc'[m] = pc[m] \/ pc[m] \notin {"none", "init"}

LEMMA OwnStep ==
  ASSUME PInv, NEW m \in Minnows, Own(m),
         MinnowTyped(m)', NothingClosed(m)', MatchAt(m)',
         \A k \in Sockets : IsSeq(chan'[k]) /\ SocketOk(k)',
         \A k \in Sockets : Dest(k) # m => (Unclosed(k)' <=> Unclosed(k))
  PROVE  PInv'
<1>1. Minnows' = Minnows /\ Sockets' = Sockets /\ Script' /\ (Script => Sockets = SocketsOf(outgoing))
  BY DEF Own, Minnows, Sockets, PInv, Typed, Script
<1>2. PerMinnow'
  BY <1>1 DEF Own, PInv, Typed, PerMinnow
<1>3. \A u \in Minnows \ {m} :
        /\ open'[u] = open[u] /\ count'[u] = count[u] /\ calls'[u] = calls[u] /\ todo'[u] = todo[u]
        /\ pc'[u] = pc[u] /\ tally'[u] = tally[u]
  BY DEF Own, PInv, Typed, PerMinnow
<1>4. \A u \in Minnows : MinnowTyped(u)'
  <2>1. \A u \in Minnows \ {m} : MinnowTyped(u)'
    BY <1>1, <1>3 DEF MinnowTyped, PInv, Typed, Own
  <2>2. QED
    BY <2>1
<1>5. Typed'
  <2>1. chan' = [k \in SocketsOf(outgoing') |-> chan'[k]]
    BY <1>1 DEF Own, PInv, Typed
  <2>2. \A k \in Sockets' : IsSeq(chan'[k])
    BY <1>1
  <2>3. QED
    BY ONLY <1>1, <1>2, <1>4, <2>1, <2>2 DEF Typed, Minnows
<1>6. Awaiting'
  BY <1>1, <1>3 DEF Awaiting, PInv, Own
<1>7. \A u \in Minnows \ {m} : NothingClosed(u)'
  BY <1>1, <1>3 DEF NothingClosed, PInv, Own
<1>8. ASSUME NEW u \in Minnows \ {m} PROVE MatchAt(u)'
  <2>1. MatchAt(u) /\ count'[u] = count[u] /\ (Alive(u)' => Alive(u)) /\ UNCHANGED outgoing
    BY <1>3 DEF PInv, Own, Alive
  <2>2. \A k \in Sockets : Dest(k) = u => (Unclosed(k)' <=> Unclosed(k))
    OBVIOUS
  <2>3. QED
    BY ONLY <1>1, <2>1, <2>2, MatchKept
<1>9. QED
  BY <1>1, <1>5, <1>6, <1>7, <1>8 DEF PInv

-----------------------------------------------------------------------------
(* The steps of a minnow.                                                   *)

\* An abort cuts off only data: the minnow has not closed anything.
LEMMA AbortKeeps ==
  ASSUME PInv, NEW m \in Minnows, NEW sockets, Abort(m, sockets), pc[m] \in {"check", "loop"},
         count' = [count EXCEPT ![m] = count'[m]],
         \A k \in Sockets :
           \/ sockets[k] = chan[k]
           \/ Dest(k) = m /\ chan[k] # <<>> /\ sockets[k] = Tail(chan[k])
  PROVE  PInv'
<1>1. PICK keep \in [{k \in Sockets : k[1] = m} -> 0 .. HWM] :
        chan' = [k \in Sockets |-> IF k[1] = m /\ keep[k] < Len(sockets[k])
                                     THEN SubSeq(sockets[k], 1, keep[k]) ELSE sockets[k]]
  BY DEF Abort
<1>2. /\ UNCHANGED <<net, crew, outgoing, bait, open, todo, message, tally>>
      /\ pc' = [pc EXCEPT ![m] = "aborted"] /\ calls' = [calls EXCEPT ![m] = <<>>]
  BY DEF Abort, net_vars, lib_vars, user_vars
<1>3. Typed /\ open[m] = DOMAIN outgoing[m] /\ MinnowTyped(m)
  BY DEF PInv, Typed, NothingClosed
<1>4. ASSUME NEW k \in Sockets PROVE IsSeq(sockets[k])
  <2>1. IsSeq(chan[k])
    BY <1>3, SocketTyped
  <2>2. QED
    BY <2>1, TailIsSeq
<1>5. ASSUME NEW k \in Sockets, k[1] = m
      PROVE  IsSeq(chan'[k]) /\ SocketOk(k)' /\ Unclosed(k) /\ Unclosed(k)'
  <2>1. k[2] \in open[m] /\ IsSeq(chan[k]) /\ SocketOk(k)
    BY <1>3, <1>5, SocketTyped DEF PInv
  <2>2. \A i \in DOMAIN chan[k] : chan[k][i].type # "close"
    BY <1>5, <2>1 DEF SocketOk
  <2>3. \A i \in DOMAIN sockets[k] : sockets[k][i].type # "close"
    <3>1. CASE sockets[k] = chan[k]
      BY <2>2, <3>1
    <3>2. CASE chan[k] # <<>> /\ sockets[k] = Tail(chan[k])
      <4>1. \A i \in DOMAIN sockets[k] : i + 1 \in DOMAIN chan[k] /\ sockets[k][i] = chan[k][i + 1]
        BY <2>1, <3>2, TailIsSeq
      <4>2. QED
        BY <2>2, <4>1
    <3>3. QED
      BY <3>1, <3>2
  <2>4. IsSeq(chan'[k]) /\ \A i \in DOMAIN chan'[k] : chan'[k][i].type # "close"
    <3>1. CASE keep[k] < Len(sockets[k])
      <4>1. keep[k] \in Nat /\ chan'[k] = SubSeq(sockets[k], 1, keep[k])
        BY <1>1, <1>5, <3>1, PhishAssumption
      <4>2. \A i \in DOMAIN chan'[k] : i \in DOMAIN sockets[k] /\ chan'[k][i] = sockets[k][i]
        BY <1>4, <3>1, <4>1, PrefixIsSeq
      <4>3. IsSeq(chan'[k])
        BY <1>4, <3>1, <4>1, PrefixIsSeq
      <4>4. QED
        BY <2>3, <4>2, <4>3
    <3>2. CASE ~(keep[k] < Len(sockets[k]))
      <4>1. chan'[k] = sockets[k]
        BY <1>1, <3>2
      <4>2. QED
        BY <1>4, <2>3, <4>1
    <3>3. QED
      BY <3>1, <3>2
  <2>5. k \in todo[m] => message[m].type # "close"
    BY <1>5, <2>1 DEF SocketOk
  <2>6. SocketOk(k)'
    BY ONLY <1>2, <1>5, <2>1, <2>4, <2>5 DEF SocketOk
  <2>7. QED
    BY ONLY <1>2, <1>5, <2>1, <2>4, <2>6 DEF Unclosed
<1>6. ASSUME NEW k \in Sockets, k[1] # m
      PROVE  /\ IsSeq(chan'[k]) /\ SocketOk(k)'
             /\ Dest(k) # m => (Unclosed(k)' <=> Unclosed(k))
  <2>1. chan'[k] = sockets[k] /\ SocketOk(k)
    BY <1>1, <1>6 DEF PInv
  <2>2. CASE sockets[k] = chan[k]
    <3>1. Unmoved(k)
      BY ONLY <1>2, <2>1, <2>2 DEF Unmoved
    <3>2. QED
      BY ONLY <1>4, <2>1, <3>1, UnmovedOk
  <2>3. CASE Dest(k) = m /\ chan[k] # <<>> /\ sockets[k] = Tail(chan[k])
    <3>1. IsSeq(chan[k])
      BY <1>3, SocketTyped
    <3>2. UNCHANGED <<open, todo, message>>
      BY <1>2
    <3>3. QED
      BY ONLY <2>1, <2>3, <3>1, <3>2, TakenOk
  <2>4. QED
    BY <2>2, <2>3
<1>7. Own(m)
  <2>1. chan' = [k \in Sockets |-> chan'[k]]
    BY ONLY <1>1
  <2>2. PerMinnow
    BY DEF PInv, Typed
  <2>3. QED
    BY ONLY <1>2, <2>1, <2>2, pc[m] \in {"check", "loop"}, count' = [count EXCEPT ![m] = count'[m]]
       DEF Own, PerMinnow
<1>8. pc'[m] = "aborted" /\ calls'[m] = <<>>
  BY <1>2, <1>3 DEF Typed, PerMinnow
<1>9. MinnowTyped(m)' /\ NothingClosed(m)' /\ MatchAt(m)'
  <2>1. Sockets' = Sockets
    BY ONLY <1>1 DEF Sockets
  <2>2. MinnowTyped(m)'
    BY ONLY <1>2, <1>3, <2>1 DEF MinnowTyped
  <2>3. NothingClosed(m)'
    BY ONLY <1>2, <1>3, <1>8, EmptySends DEF NothingClosed
  <2>4. MatchAt(m)'
    BY ONLY <1>8 DEF MatchAt, Alive
  <2>5. QED
    BY ONLY <2>2, <2>3, <2>4
<1>10. QED
  BY ONLY PInv, m \in Minnows, <1>5, <1>6, <1>7, <1>9, OwnStep

\* Between messages: the sockets are untouched and so is what is counted.
LEMMA QuietKeeps ==
  ASSUME PInv, NEW m \in Minnows, Own(m), UNCHANGED <<open, todo, message, chan, count>>,
         IsFiniteSet(DOMAIN tally'[m]), Alive(m)' => Alive(m),
         pc'[m] \notin {"sleep", "gone"} => pc[m] \notin {"sleep", "gone"} /\ OnlySends(calls'[m])
  PROVE  PInv'
<1>1. \A k \in Sockets : Unmoved(k)
  BY DEF Unmoved
<1>2. \A k \in Sockets : SocketOk(k)' /\ (Unclosed(k)' <=> Unclosed(k)) /\ IsSeq(chan'[k])
  BY <1>1, UnmovedOk DEF PInv, Typed
<1>3. Sockets' = Sockets /\ UNCHANGED outgoing /\ count'[m] = count[m]
  BY DEF Sockets, Own
<1>4. MatchAt(m)'
  BY <1>2, <1>3, MatchKept DEF PInv
<1>5. MinnowTyped(m)'
  BY <1>3 DEF MinnowTyped, PInv, Typed
<1>6. NothingClosed(m)'
  BY <1>3 DEF NothingClosed, PInv
<1>7. QED
  BY <1>2, <1>4, <1>5, <1>6, OwnStep

\* A datum is taken and its callback lists some calls.
Reacts(m, k) ==
  /\ k \in Sockets /\ Take(m, k) /\ Head(chan[k]).type = "data"
  /\ chan' = Taken(k)
  /\ UNCHANGED <<net, crew, outgoing, open, todo, message, count, pc, bait>>
  /\ calls' = [calls EXCEPT ![m] = calls'[m]] /\ OnlySends(calls'[m])
  /\ tally' = [tally EXCEPT ![m] = tally'[m]] /\ IsFiniteSet(DOMAIN tally'[m])

LEMMA ReactionKeeps ==
  ASSUME PInv, NEW m \in Minnows, NEW k, Reacts(m, k)
  PROVE  PInv'
<1>1. Typed /\ PerMinnow /\ SocketOk(k) /\ k \in Sockets /\ chan[k] # <<>> /\ IsSeq(chan[k])
  BY SocketTyped DEF PInv, Typed, Reacts, Take
<1>2. chan' = [l \in Sockets |-> IF l = k THEN Tail(chan[k]) ELSE chan[l]]
  BY <1>1 DEF Reacts, Taken, Sockets
<1>3. UNCHANGED <<net, crew, outgoing, open, todo, message, count, pc, bait>>
  BY DEF Reacts
<1>4. ASSUME NEW l \in Sockets
      PROVE  IsSeq(chan'[l]) /\ SocketOk(l)' /\ (Unclosed(l)' <=> Unclosed(l))
  <2>1. CASE l = k
    <3>1. chan'[k] = Tail(chan[k]) /\ Head(chan[k]).type # "close"
      BY <1>1, <1>2 DEF Reacts
    <3>2. QED
      BY ONLY <1>1, <1>3, <2>1, <3>1, TakenOk
  <2>2. CASE l # k
    <3>1. Unmoved(l)
      BY ONLY <1>2, <1>3, <1>4, <2>2 DEF Unmoved
    <3>2. SocketOk(l) /\ IsSeq(chan[l]) /\ chan'[l] = chan[l]
      BY <1>2, <2>2 DEF PInv, Typed
    <3>3. QED
      BY ONLY <3>1, <3>2, UnmovedOk
  <2>3. QED
    BY <2>1, <2>2
<1>5. Own(m)
  <2>1. chan' = [l \in Sockets |-> chan'[l]]
    BY ONLY <1>2
  <2>2. QED
    BY <1>1, <1>3, <2>1 DEF Own, PerMinnow, Reacts
<1>6. Sockets' = Sockets /\ (Alive(m)' => Alive(m)) /\ count'[m] = count[m]
  BY ONLY <1>2, <1>3 DEF Sockets, Alive
<1>7. MatchAt(m)'
  BY <1>3, <1>4, <1>6, MatchKept DEF PInv
<1>8. MinnowTyped(m)' /\ NothingClosed(m)'
  BY <1>3, <1>6 DEF MinnowTyped, NothingClosed, PInv, Typed, Reacts
<1>9. QED
  BY ONLY PInv, m \in Minnows, <1>4, <1>5, <1>7, <1>8, OwnStep

LEMMA SendKeeps ==
  ASSUME PInv, NEW m \in Minnows, NEW op, op # "close", SendAs(m, op)
  PROVE  PInv'
<1> DEFINE call == Head(calls[m])
           conns == OpenOn(m, call.port)
           values == pack[m] \o call.vals
           picked == UNION {{<<m, c, r>> : r \in Picked(m, c, call)} : c \in conns}
<1>1. /\ todo[m] = {} /\ calls[m] # <<>>
      /\ message' = [message EXCEPT ![m] = Datum(values)]
      /\ todo' = [todo EXCEPT ![m] = picked]
      /\ calls' = [calls EXCEPT ![m] = Tail(@)]
      /\ UNCHANGED <<net, crew, outgoing, open, count, chan, pc, bait, tally>>
  BY DEF SendAs, net_vars, user_vars
<1>2. Typed /\ PerMinnow /\ MinnowTyped(m) /\ Script /\ NothingClosed(m) /\ Sockets = SocketsOf(outgoing)
  BY DEF PInv, Typed, Sockets
<1>3. ASSUME NEW c \in conns
      PROVE  /\ c \in open[m] /\ c \in DOMAIN outgoing[m]
             /\ Picked(m, c, call) \subseteq DOMAIN outgoing[m][c].to
  <2>1. c \in open[m] /\ c \in DOMAIN outgoing[m]
    BY <1>2 DEF OpenOn, MinnowTyped
  <2>2. outgoing[m][c].pattern \in {"broadcast", "roundrobin", "hashed", "direct"}
    BY <1>2, <2>1, ScriptFacts
  <2> HIDE DEF call
  <2>3. Picked(m, c, call) \subseteq DOMAIN outgoing[m][c].to
    BY ONLY <2>2 DEF Picked, Broadcast, RoundRobin, Hashed, Direct, Recipient
  <2>4. QED
    BY <2>1, <2>3
<1>4. \A k \in picked : k \in Sockets /\ k[1] = m /\ k[2] \in open[m]
  <2>1. TAKE k \in picked
  <2>2. PICK c \in conns : k \in {<<m, c, r>> : r \in Picked(m, c, call)}
    BY ONLY <2>1
  <2> HIDE DEF conns, call, picked
  <2>3. PICK r \in Picked(m, c, call) : k = <<m, c, r>>
    BY ONLY <2>2
  <2>4. r \in DOMAIN outgoing[m][c].to /\ c \in DOMAIN outgoing[m] /\ c \in open[m]
    BY ONLY <1>3, <2>3, <2>2
  <2>5. k \in SocketsOf(outgoing)
    BY ONLY <2>3, <2>4, SocketShape, m \in Minnows DEF Minnows
  <2>6. QED
    BY ONLY <1>2, <2>3, <2>4, <2>5
<1> HIDE DEF conns, values, picked
<1>5. todo'[m] = picked /\ message'[m].type = "data" /\ calls'[m] = Tail(calls[m])
  BY <1>1, <1>2 DEF PerMinnow, Datum
<1>6. Sockets' = Sockets /\ count'[m] = count[m] /\ (Alive(m)' => Alive(m)) /\ UNCHANGED outgoing
  BY ONLY <1>1 DEF Sockets, Alive
<1>7. ASSUME NEW k \in Sockets
      PROVE  IsSeq(chan'[k]) /\ SocketOk(k)' /\ (Unclosed(k)' <=> Unclosed(k))
  <2>1. IsSeq(chan[k]) /\ SocketOk(k) /\ chan' = chan /\ open' = open
    BY <1>1 DEF PInv, Typed
  <2>2. CASE k \in picked
    <3>1. k[2] \in open[k[1]] /\ k \in todo'[k[1]] /\ message'[k[1]].type # "close"
      BY ONLY <1>4, <1>5, <2>2
    <3>2. SocketOk(k)' /\ Unclosed(k) /\ Unclosed(k)'
      BY ONLY <2>1, <3>1 DEF SocketOk, Unclosed
    <3>3. QED
      BY ONLY <2>1, <3>2
  <2>3. CASE k \notin picked
    <3>1. Unmoved(k)
      BY ONLY <1>1, <1>5, <2>1, <2>3 DEF Unmoved
    <3>2. QED
      BY ONLY <2>1, <3>1, UnmovedOk
  <2>4. QED
    BY ONLY <2>2, <2>3
<1>8. Own(m)
  <2>1. chan' = [k \in Sockets |-> chan'[k]]
    BY ONLY <1>1, <1>2 DEF Typed
  <2>2. QED
    BY ONLY <1>1, <1>2, <2>1 DEF Own, PerMinnow
<1>9. MatchAt(m)'
  <2>1. MatchAt(m)
    BY DEF PInv
  <2>2. QED
    BY ONLY <1>6, <1>7, <2>1, MatchKept
<1>10. MinnowTyped(m)'
  BY ONLY <1>1, <1>2, <1>4, <1>5, <1>6 DEF MinnowTyped
<1>11. NothingClosed(m)'
  BY ONLY <1>1, <1>2, <1>5, TailSends DEF NothingClosed
<1>12. QED
  BY ONLY PInv, m \in Minnows, <1>7, <1>8, <1>9, <1>10, <1>11, OwnStep

\* The connections of a port are deleted: their sockets are no longer open but
\* have a close message coming.
LEMMA CloseKeeps ==
  ASSUME PInv, NEW m \in Minnows, Close(m)
  PROVE  PInv'
<1> DEFINE conns == OpenOn(m, Head(calls[m]).port)
           ends == UNION {{<<m, c, r>> : r \in DOMAIN outgoing[m][c].to} : c \in conns}
<1>1. /\ todo[m] = {} /\ calls[m] # <<>> /\ Head(calls[m]).op = "close"
      /\ todo' = [todo EXCEPT ![m] = ends]
      /\ open' = [open EXCEPT ![m] = @ \ conns]
      /\ message' = [message EXCEPT ![m] = CloseMessage]
      /\ calls' = [calls EXCEPT ![m] = Tail(@)]
      /\ UNCHANGED <<net, crew, outgoing, count, chan, pc, bait, tally>>
  BY DEF Close, net_vars, user_vars
<1>2. Typed /\ PerMinnow /\ MinnowTyped(m) /\ NothingClosed(m) /\ Sockets = SocketsOf(outgoing)
  BY DEF PInv, Typed, Sockets
<1>3. pc[m] \in {"sleep", "gone"}
  BY ONLY <1>1, <1>2, TailSends DEF NothingClosed
<1>4. conns \subseteq open[m] /\ open[m] \subseteq DOMAIN outgoing[m]
  BY <1>2 DEF OpenOn, MinnowTyped
<1>5. \A k \in Sockets : k \in ends <=> k[1] = m /\ k[2] \in conns
  <2>1. TAKE k \in Sockets
  <2>2. k[3] \in DOMAIN outgoing[k[1]][k[2]].to /\ k = <<k[1], k[2], k[3]>>
    BY ONLY <1>2, <2>1, SocketTyped
  <2> HIDE DEF conns
  <2>3. QED
    BY ONLY <2>2
<1>6. \A k \in ends : k \in Sockets /\ k[1] = m
  <2>1. TAKE k \in ends
  <2>2. PICK c \in conns : k \in {<<m, c, r>> : r \in DOMAIN outgoing[m][c].to}
    BY ONLY <2>1
  <2> HIDE DEF conns, ends
  <2>3. PICK r \in DOMAIN outgoing[m][c].to : k = <<m, c, r>>
    BY ONLY <2>2
  <2>4. k \in SocketsOf(outgoing)
    BY ONLY <1>4, <2>2, <2>3, SocketShape, m \in Minnows DEF Minnows
  <2>5. QED
    BY ONLY <1>2, <2>3, <2>4
<1> HIDE DEF conns, ends
<1>7. /\ todo'[m] = ends /\ message'[m].type = "close" /\ open'[m] = open[m] \ conns
      /\ \A u \in Minnows \ {m} : todo'[u] = todo[u] /\ message'[u] = message[u] /\ open'[u] = open[u]
  BY <1>1, <1>2 DEF PerMinnow, CloseMessage
<1>8. Sockets' = Sockets /\ count'[m] = count[m] /\ (Alive(m)' => Alive(m)) /\ UNCHANGED outgoing
  BY ONLY <1>1 DEF Sockets, Alive
<1>9. ASSUME NEW k \in Sockets
      PROVE  IsSeq(chan'[k]) /\ SocketOk(k)' /\ (Unclosed(k)' <=> Unclosed(k))
  <2>1. IsSeq(chan[k]) /\ SocketOk(k) /\ chan' = chan /\ k[1] \in Minnows
    BY <1>1, <1>2, SocketTyped DEF PInv
  <2>2. CASE k \in ends
    <3>1. k[1] = m /\ k[2] \in conns /\ k[2] \in open[m]
      BY ONLY <1>4, <1>5, <2>2, k \in Sockets
    <3>2. k[2] \notin open'[k[1]] /\ k \in todo'[k[1]] /\ message'[k[1]].type = "close"
      BY ONLY <1>7, <2>2, <3>1
    <3>3. \A i \in DOMAIN chan[k] : chan[k][i].type # "close"
      BY ONLY <2>1, <3>1 DEF SocketOk
    <3>4. SocketOk(k)'
      BY ONLY <2>1, <3>2, <3>3 DEF SocketOk
    <3>5. Unclosed(k) /\ Unclosed(k)'
      BY ONLY <3>1, <3>2 DEF Unclosed, Closing
    <3>6. QED
      BY ONLY <2>1, <3>4, <3>5
  <2>3. CASE k \notin ends
    <3>1. Unmoved(k)
      <4>1. CASE k[1] = m
        BY ONLY <1>1, <1>5, <1>7, <2>1, <2>3, <4>1, k \in Sockets DEF Unmoved
      <4>2. CASE k[1] # m
        BY ONLY <1>7, <2>1, <4>2 DEF Unmoved
      <4>3. QED
        BY ONLY <4>1, <4>2
    <3>2. QED
      BY ONLY <2>1, <3>1, UnmovedOk
  <2>4. QED
    BY ONLY <2>2, <2>3
<1>10. Own(m)
  <2>1. chan' = [k \in Sockets |-> chan'[k]]
    BY ONLY <1>1, <1>2 DEF Typed
  <2>2. QED
    BY ONLY <1>1, <1>2, <2>1 DEF Own, PerMinnow
<1>11. MatchAt(m)'
  <2>1. MatchAt(m)
    BY DEF PInv
  <2>2. QED
    BY ONLY <1>8, <1>9, <2>1, MatchKept
<1>12. MinnowTyped(m)'
  BY ONLY <1>1, <1>2, <1>4, <1>6, <1>7, <1>8 DEF MinnowTyped
<1>13. NothingClosed(m)'
  BY ONLY <1>1, <1>3 DEF NothingClosed
<1>14. QED
  BY ONLY PInv, m \in Minnows, <1>9, <1>10, <1>11, <1>12, <1>13, OwnStep

\* What is written is a datum of an open connection, or the close message of a
\* deleted one, on which nothing else is to be written.
LEMMA WriteKeeps ==
  ASSUME PInv, NEW m \in Minnows, Write(m)
  PROVE  PInv'
<1>1. PICK k \in todo[m] :
        /\ chan' = [chan EXCEPT ![k] = Append(@, message[m])]
        /\ todo' = [todo EXCEPT ![m] = @ \ {k}]
        /\ UNCHANGED <<net, crew, outgoing, open, count, calls, message, pc, bait, tally>>
  BY DEF Write, net_vars, user_vars
<1>2. Typed /\ PerMinnow /\ MinnowTyped(m) /\ NothingClosed(m)
  BY DEF PInv, Typed
<1>3. k \in Sockets /\ k[1] = m /\ IsSeq(chan[k]) /\ SocketOk(k)
  BY <1>2 DEF MinnowTyped, PInv, Typed
<1>4. chan' = [l \in Sockets |-> IF l = k THEN Append(chan[k], message[m]) ELSE chan[l]]
  BY ONLY <1>1, <1>2, <1>3 DEF Typed, Sockets
<1>5. todo'[m] = todo[m] \ {k} /\ \A u \in Minnows \ {m} : todo'[u] = todo[u]
  BY ONLY <1>1, <1>2 DEF PerMinnow
<1>6. IsSeq(chan'[k]) /\ SocketOk(k)' /\ Unclosed(k) /\ Unclosed(k)'
  <2>1. chan'[k] = Append(chan[k], message[m])
    BY ONLY <1>3, <1>4
  <2>2. /\ IsSeq(chan'[k]) /\ Len(chan[k]) \in Nat /\ Len(chan'[k]) = Len(chan[k]) + 1
        /\ DOMAIN chan[k] = 1 .. Len(chan[k]) /\ DOMAIN chan'[k] = 1 .. Len(chan[k]) + 1
        /\ \A i \in 1 .. Len(chan[k]) : chan'[k][i] = chan[k][i]
        /\ chan'[k][Len(chan[k]) + 1] = message[m]
    BY ONLY <1>3, <2>1, AppendIsSeq
  <2>3. \A i \in DOMAIN chan[k] : chan[k][i].type # "close"
    BY ONLY <1>1, <1>3 DEF SocketOk
  <2>4. k \notin todo'[k[1]] /\ open' = open /\ (message[m].type = "close" <=> k[2] \notin open[k[1]])
    BY ONLY <1>1, <1>3, <1>5 DEF SocketOk
  <2>5. \A i \in DOMAIN chan'[k] : chan'[k][i].type = "close" =>
          i = Len(chan'[k]) /\ k[2] \notin open'[k[1]] /\ k \notin todo'[k[1]]
    <3>1. TAKE i \in DOMAIN chan'[k]
    <3>2. i # Len(chan[k]) + 1 => i \in 1 .. Len(chan[k])
      BY ONLY <2>2, <3>1
    <3>3. QED
      BY ONLY <2>2, <2>3, <2>4, <3>2
  <2>6. SocketOk(k)'
    BY ONLY <2>2, <2>4, <2>5 DEF SocketOk
  <2>7. Unclosed(k)'
    <3>1. CASE message[m].type = "close"
      <4>1. Len(chan[k]) + 1 \in DOMAIN chan'[k] /\ chan'[k][Len(chan[k]) + 1].type = "close"
        BY ONLY <2>2, <3>1
      <4>2. QED
        BY ONLY <4>1 DEF Unclosed
    <3>2. CASE message[m].type # "close"
      BY ONLY <2>4, <3>2 DEF Unclosed
    <3>3. QED
      BY ONLY <3>1, <3>2
  <2>8. Unclosed(k)
    BY ONLY <1>1, <1>3, <2>4 DEF Unclosed, Closing
  <2>9. QED
    BY ONLY <2>2, <2>6, <2>7, <2>8
<1>7. ASSUME NEW l \in Sockets
      PROVE  IsSeq(chan'[l]) /\ SocketOk(l)' /\ (Unclosed(l)' <=> Unclosed(l))
  <2>1. CASE l = k
    BY ONLY <1>6, <2>1
  <2>2. CASE l # k
    <3>1. IsSeq(chan[l]) /\ SocketOk(l) /\ l[1] \in Minnows
      BY <1>2, SocketTyped DEF PInv
    <3>2. Unmoved(l) /\ chan'[l] = chan[l]
      BY ONLY <1>1, <1>4, <1>5, <2>2, <3>1, l \in Sockets DEF Unmoved
    <3>3. QED
      BY ONLY <3>1, <3>2, UnmovedOk
  <2>3. QED
    BY ONLY <2>1, <2>2
<1>8. Own(m)
  <2>1. chan' = [l \in Sockets |-> chan'[l]]
    BY ONLY <1>4
  <2>2. QED
    BY ONLY <1>1, <1>2, <2>1 DEF Own, PerMinnow
<1>9. Sockets' = Sockets /\ count'[m] = count[m] /\ (Alive(m)' => Alive(m)) /\ UNCHANGED outgoing
  BY ONLY <1>1, <1>4 DEF Sockets, Alive
<1>10. MatchAt(m)'
  <2>1. MatchAt(m)
    BY DEF PInv
  <2>2. QED
    BY ONLY <1>7, <1>9, <2>1, MatchKept
<1>11. MinnowTyped(m)' /\ NothingClosed(m)'
  BY ONLY <1>1, <1>2, <1>5, <1>9 DEF MinnowTyped, NothingClosed
<1>12. QED
  BY ONLY PInv, m \in Minnows, <1>7, <1>8, <1>10, <1>11, OwnStep

-----------------------------------------------------------------------------
(* The calls that minnows make.                                             *)

LEMMA SchoolTyped ==
  ASSUME Typed, NEW m \in Minnows
  PROVE  /\ Kind(m) = "filegen" => School(m).args \in Seq(Int)
         /\ Kind(m) = "sort" => School(m).args \in Nat
         /\ Kind(m) = "relay" => School(m).args.send \in {"send", "key", "direct"}
<1>1. m \in AllMinnows(net) /\ net \in Nets /\ crew = SchoolOf(net)
  BY DEF Typed, Script, Minnows, Outgoing
<1>2. crew[m] \in Range(net.schools)
  BY <1>1, PhishAssumption
<1>3. PICK s \in DOMAIN net.schools : crew[m] = net.schools[s]
  BY <1>2 DEF Range
<1>4. QED
  BY <1>1, <1>3, PhishAssumption DEF Kind, School

LEMMA FileCallsSend ==
  ASSUME Typed, NEW m \in Minnows, Kind(m) = "filegen"
  PROVE  OnlySends(FileCalls(m))
<1>1. DOMAIN School(m).args = 1 .. Len(School(m).args) /\ Len(School(m).args) \in Nat
  BY SchoolTyped
<1>2. /\ FileCalls(m) = [i \in 1 .. Len(School(m).args) |-> FileCalls(m)[i]]
      /\ \A i \in 1 .. Len(School(m).args) : FileCalls(m)[i].op # "close"
  BY <1>1 DEF FileCalls, SendCall
<1>3. QED
  BY ONLY <1>1, <1>2, ListedSends

LEMMA ClosedCallsSend ==
  ASSUME Typed, NEW m \in Minnows
  PROVE  OnlySends(ClosedCalls(m))
<1>1. OnlySends(Dump(m))
  <2> DEFINE n == Cardinality(DOMAIN tally[m])
  <2>1. n \in Nat
    BY FS_CardinalityType DEF Typed, MinnowTyped
  <2>2. Dump(m) = [i \in 1 .. n |-> Dump(m)[i]] /\ \A i \in 1 .. n : Dump(m)[i].op # "close"
    BY DEF Dump, InOrder, SendCall
  <2> HIDE DEF n
  <2>3. QED
    BY ONLY <2>1, <2>2, ListedSends
<1>2. Kind(m) = "sort" => OnlySends(Top(m))
  <2> DEFINE n == School(m).args
  <2>1. Kind(m) = "sort" => n \in Nat
    BY SchoolTyped
  <2>2. Top(m) = [i \in 1 .. n |-> Top(m)[i]] /\ \A i \in 1 .. n : Top(m)[i].op # "close"
    BY DEF Top, SendCall
  <2> HIDE DEF n
  <2>3. QED
    BY ONLY <2>1, <2>2, ListedSends
<1>3. QED
  BY <1>1, <1>2, EmptySends DEF ClosedCalls

\* A callback lists its calls, or aborts.
LEMMA CallbackKeeps ==
  ASSUME PInv, NEW m \in Minnows, NEW k \in Sockets, Callback(m, k)
  PROVE  PInv'
<1>1. Typed /\ PerMinnow /\ MinnowTyped(m)
  BY DEF PInv, Typed
<1>2. Take(m, k) /\ Head(chan[k]).type = "data" /\ count' = count
  BY DEF Callback, ReadFile, CountWord, Store, PrintDatum, Relay, TakeDatum
<1>3. calls[m] = <<>> /\ pc[m] = "loop" /\ Dest(k) = m /\ chan[k] # <<>>
  BY <1>2 DEF Take, Idle
<1>4. CASE Abort(m, Taken(k))
  <2>1. \A l \in Sockets : \/ Taken(k)[l] = chan[l]
                           \/ Dest(l) = m /\ chan[l] # <<>> /\ Taken(k)[l] = Tail(chan[l])
    BY <1>3 DEF Taken, Sockets
  <2>2. count' = [count EXCEPT ![m] = count'[m]]
    BY <1>1, <1>2 DEF PerMinnow
  <2>3. QED
    BY ONLY PInv, m \in Minnows, <1>3, <1>4, <2>1, <2>2, AbortKeeps
<1>5. ASSUME chan' = Taken(k), UNCHANGED <<net, crew, outgoing, open, todo, message, pc, bait>>,
             calls' = [calls EXCEPT ![m] = calls'[m]], OnlySends(calls'[m]),
             tally' = [tally EXCEPT ![m] = tally'[m]], IsFiniteSet(DOMAIN tally'[m])
      PROVE  PInv'
  <2>1. Reacts(m, k)
    BY ONLY <1>2, <1>5, k \in Sockets DEF Reacts
  <2>2. QED
    BY ONLY PInv, m \in Minnows, <2>1, ReactionKeeps
<1>6. /\ calls = [calls EXCEPT ![m] = calls[m]] /\ OnlySends(calls[m])
      /\ tally = [tally EXCEPT ![m] = tally[m]] /\ IsFiniteSet(DOMAIN tally[m])
  BY <1>1, <1>3, EmptySends DEF PerMinnow, MinnowTyped
<1>7. CASE ReadFile(m, k)
  <2> DEFINE file == Received(k)[1].v
             list1 == [i \in DOMAIN Contents[file] |->
                        SendCall("key", 0, PackString(Contents[file][i]), Contents[file][i])]
  <2>1. ASSUME file \in DOMAIN Contents, calls' = [calls EXCEPT ![m] = list1],
               UNCHANGED <<net_vars, lib_vars, user_vars, pc, bait>>, chan' = Taken(k)
        PROVE  PInv'
    <3>1. DOMAIN Contents[file] = 1 .. Len(Contents[file]) /\ Len(Contents[file]) \in Nat
      BY <2>1, PhishAssumption
    <3>2. /\ list1 = [i \in 1 .. Len(Contents[file]) |-> list1[i]]
          /\ \A i \in 1 .. Len(Contents[file]) : list1[i].op # "close"
      BY <3>1 DEF SendCall
    <3> HIDE DEF list1, file
    <3>3. OnlySends(list1)
      BY ONLY <3>1, <3>2, ListedSends
    <3>4. calls'[m] = list1
      BY ONLY <1>1, <2>1, m \in Minnows DEF PerMinnow
    <3>5. QED
      BY ONLY <1>5, <1>6, <2>1, <3>3, <3>4 DEF net_vars, lib_vars, user_vars
  <2>2. QED
    BY ONLY <1>4, <1>7, <2>1 DEF ReadFile
<1>8. CASE CountWord(m, k)
  <2> DEFINE word == Received(k)[1].v
             n == IF word \in DOMAIN tally[m] THEN tally[m][word] + 1 ELSE 1
  <2>1. ASSUME tally' = [tally EXCEPT ![m] = Put(tally[m], word, n)],
               UNCHANGED <<net_vars, lib_vars, list, printed, calls, pc, bait>>, chan' = Taken(k)
        PROVE  PInv'
    <3> HIDE DEF word, n
    <3>1. tally'[m] = Put(tally[m], word, n)
      BY ONLY <1>1, <2>1, m \in Minnows DEF PerMinnow
    <3>2. DOMAIN tally'[m] = DOMAIN tally[m] \cup {word}
      BY ONLY <3>1 DEF Put
    <3>3. IsFiniteSet(DOMAIN tally'[m])
      BY ONLY <1>6, <3>2, FS_AddElement
    <3>4. QED
      BY ONLY <1>5, <1>6, <2>1, <3>1, <3>3 DEF net_vars, lib_vars
  <2>2. QED
    BY ONLY <1>4, <1>8, <2>1 DEF CountWord
<1>9. CASE Store(m, k) \/ PrintDatum(m, k)
  <2>1. CASE /\ UNCHANGED <<net_vars, lib_vars, tally, calls, pc, bait>>
             /\ chan' = Taken(k)
    BY ONLY <1>5, <1>6, <2>1 DEF net_vars, lib_vars
  <2>2. QED
    BY ONLY <1>4, <1>9, <2>1 DEF Store, PrintDatum
<1>10. CASE Relay(m, k)
  <2> DEFINE to == IF Received(k) = <<>> THEN 0 ELSE Received(k)[1].v
             one == <<SendCall(School(m).args.send, 0, <<>>, to)>>
  <2>1. /\ calls' = [calls EXCEPT ![m] = one] /\ chan' = Taken(k) /\ Kind(m) = "relay"
        /\ UNCHANGED <<net, crew, outgoing, open, todo, message, pc, bait, tally>>
    BY ONLY <1>10 DEF Relay, net_vars, user_vars
  <2>2. one = [i \in 1 .. 1 |-> one[i]] /\ \A i \in 1 .. 1 : one[i].op # "close"
    BY <1>1, <2>1, SchoolTyped DEF SendCall
  <2> HIDE DEF to, one
  <2>3. OnlySends(one)
    BY ONLY <2>2, 1 \in Nat, ListedSends
  <2>4. calls'[m] = one
    BY ONLY <1>1, <2>1, m \in Minnows DEF PerMinnow
  <2>5. QED
    BY ONLY <1>5, <1>6, <2>1, <2>3, <2>4
<1>11. QED
  BY ONLY Callback(m, k), <1>7, <1>8, <1>9, <1>10 DEF Callback

-----------------------------------------------------------------------------
(* A close message is taken: the one place where a count changes.           *)

\* The count of the port goes down with the sockets it counts.
LEMMA CountGoesDown ==
  ASSUME PInv, NEW m \in Minnows, NEW k \in Sockets, Alive(m), Dest(k) = m,
         UNCHANGED outgoing, Sockets' = Sockets, Unclosed(k), ~Unclosed(k)',
         \A l \in Sockets \ {k} : Unclosed(l)' <=> Unclosed(l),
         \/ /\ Less(m, Frame(k)) # 0
            /\ count'[m] = Put(count[m], Frame(k), Less(m, Frame(k)))
         \/ /\ Less(m, Frame(k)) = 0
            /\ count'[m] = Restrict(count[m], DOMAIN count[m] \ {Frame(k)})
  PROVE  MatchAt(m)'
<1> DEFINE port == Frame(k)
           U == UnclosedOn(m, port)
<1>1. /\ k \in U
      /\ port \in DOMAIN count[m] /\ count[m][port] = Cardinality(U)
  <2>1. k \in U
    BY DEF UnclosedOn
  <2>2. MatchAt(m)
    BY DEF PInv
  <2>3. QED
    BY <2>1, <2>2 DEF MatchAt
<1>2. IsFiniteSet(U)
  <2>1. IsFiniteSet(Sockets)
    BY SocketsFinite DEF PInv, Typed, Sockets
  <2>2. U \in SUBSET Sockets
    BY DEF UnclosedOn
  <2> HIDE DEF U
  <2>3. QED
    BY ONLY <2>1, <2>2, FS_Subset
<1>3. /\ IsFiniteSet(U \ {k})
      /\ Cardinality(U \ {k}) = Cardinality(U) - 1
      /\ Cardinality(U \ {k}) = 0 <=> U \ {k} = {}
  <2> HIDE DEF U
  <2>1. IsFiniteSet(U \ {k}) /\ Cardinality(U \ {k}) = Cardinality(U) - 1
    BY ONLY <1>1, <1>2, FS_RemoveElement
  <2>2. QED
    BY ONLY <2>1, FS_EmptySet
<1>4. Less(m, port) = Cardinality(U \ {k})
  BY <1>1, <1>3 DEF Less
<1>5. \A l : Frame(l)' = Frame(l) /\ Dest(l)' = Dest(l)
  BY DEF Frame, Dest
<1>6. ASSUME NEW q, q = port PROVE UnclosedOn(m, q)' = U \ {k}
  BY <1>5, <1>6 DEF UnclosedOn
<1>7. ASSUME NEW q, q # port PROVE UnclosedOn(m, q)' = UnclosedOn(m, q)
  BY <1>5, <1>7 DEF UnclosedOn
<1> HIDE DEF U
<1>8. ASSUME NEW q \in ({Frame(l) : l \in Sockets} \cup DOMAIN count[m])'
      PROVE  IF q \in DOMAIN count'[m]
               THEN count'[m][q] = Cardinality(UnclosedOn(m, q)') /\ UnclosedOn(m, q)' # {}
               ELSE UnclosedOn(m, q)' = {}
  <2>1. CASE q = port
    <3>1. CASE Less(m, port) # 0 /\ count'[m] = Put(count[m], port, Less(m, port))
      <4>1. q \in DOMAIN count'[m] /\ count'[m][q] = Less(m, port)
        BY ONLY <2>1, <3>1 DEF Put
      <4>2. QED
        BY ONLY <1>3, <1>4, <1>6, <2>1, <3>1, <4>1
    <3>2. CASE Less(m, port) = 0 /\ count'[m] = Restrict(count[m], DOMAIN count[m] \ {port})
      <4>1. q \notin DOMAIN count'[m]
        BY ONLY <2>1, <3>2 DEF Restrict
      <4>2. QED
        BY ONLY <1>3, <1>4, <1>6, <2>1, <3>2, <4>1
    <3>3. QED
      BY <3>1, <3>2
  <2>2. CASE q # port
    <3>1. /\ q \in DOMAIN count'[m] <=> q \in DOMAIN count[m]
          /\ q \in DOMAIN count[m] => count'[m][q] = count[m][q]
      BY <2>2 DEF Put, Restrict
    <3>2. q \in {Frame(l) : l \in Sockets} \cup DOMAIN count[m]
      BY <1>5, <1>8, <3>1
    <3>3. MatchAt(m)
      BY DEF PInv
    <3>4. IF q \in DOMAIN count[m]
            THEN count[m][q] = Cardinality(UnclosedOn(m, q)) /\ UnclosedOn(m, q) # {}
            ELSE UnclosedOn(m, q) = {}
      BY ONLY <3>2, <3>3, Alive(m) DEF MatchAt
    <3>5. UnclosedOn(m, q)' = UnclosedOn(m, q)
      BY ONLY <1>7, <2>2
    <3>6. QED
      BY ONLY <3>1, <3>4, <3>5
  <2>3. QED
    BY ONLY <2>1, <2>2
<1>9. QED
  BY ONLY <1>8 DEF MatchAt

LEMMA TakeCloseKeeps ==
  ASSUME PInv, NEW m \in Minnows, NEW k \in Sockets, NEW dies, TakeClose(m, k, dies)
  PROVE  PInv'
<1> DEFINE port == Frame(k)
<1>1. /\ Dest(k) = m /\ pc[m] = "loop" /\ chan[k] # <<>> /\ calls[m] = <<>>
      /\ Head(chan[k]).type = "close"
  BY DEF TakeClose, Take, Idle
<1>2. Typed /\ PerMinnow /\ MinnowTyped(m) /\ NothingClosed(m) /\ Alive(m)
  BY <1>1 DEF PInv, Typed, Alive
<1>3. CASE Abort(m, Taken(k))
  <2>1. \A l \in Sockets : \/ Taken(k)[l] = chan[l]
                           \/ Dest(l) = m /\ chan[l] # <<>> /\ Taken(k)[l] = Tail(chan[l])
    BY <1>1 DEF Taken, Sockets
  <2>2. count' = [count EXCEPT ![m] = count'[m]]
    <3>1. \E x : count' = [count EXCEPT ![m] = x]
      BY DEF TakeClose
    <3>2. QED
      BY ONLY <1>2, <3>1, m \in Minnows DEF PerMinnow
  <2>3. QED
    BY ONLY PInv, m \in Minnows, <1>1, <1>3, <2>1, <2>2, AbortKeeps
<1>4. ASSUME chan' = Taken(k), UNCHANGED <<net, crew, outgoing, open, todo, message, tally, bait>>,
             calls' = [calls EXCEPT ![m] = calls'[m]], OnlySends(calls'[m]),
             pc' = [pc EXCEPT ![m] = pc'[m]], pc'[m] \in {"loop", "exit"},
             count' = [count EXCEPT ![m] = count'[m]],
             \/ /\ Less(m, port) # 0
                /\ count'[m] = Put(count[m], port, Less(m, port))
             \/ /\ Less(m, port) = 0
                /\ count'[m] = Restrict(count[m], DOMAIN count[m] \ {port})
      PROVE  PInv'
  <2>1. chan' = [l \in Sockets |-> IF l = k THEN Tail(chan[k]) ELSE chan[l]]
    BY ONLY <1>2, <1>4, k \in Sockets DEF Typed, Sockets, Taken
  <2>2. IsSeq(chan'[k]) /\ SocketOk(k)' /\ Unclosed(k) /\ ~Unclosed(k)'
    <3>1. SocketOk(k) /\ IsSeq(chan[k]) /\ chan'[k] = Tail(chan[k])
      BY <1>2, <2>1 DEF PInv, Typed
    <3>2. QED
      BY ONLY <1>1, <1>4, <3>1, TakenOk
  <2>3. ASSUME NEW l \in Sockets \ {k}
        PROVE  IsSeq(chan'[l]) /\ SocketOk(l)' /\ (Unclosed(l)' <=> Unclosed(l))
    <3>1. SocketOk(l) /\ IsSeq(chan[l]) /\ chan'[l] = chan[l]
      BY <1>2, <2>1 DEF PInv, Typed
    <3>2. Unmoved(l)
      BY ONLY <1>4, <3>1 DEF Unmoved
    <3>3. QED
      BY ONLY <3>1, <3>2, UnmovedOk
  <2>4. Sockets' = Sockets
    BY ONLY <2>1 DEF Sockets
  <2>5. MatchAt(m)'
    BY ONLY PInv, m \in Minnows, k \in Sockets, <1>1, <1>2, <1>4, <2>2, <2>3, <2>4, CountGoesDown
  <2>6. Own(m)
    <3>1. chan' = [l \in Sockets |-> chan'[l]]
      BY ONLY <2>1
    <3>2. QED
      BY ONLY <1>1, <1>2, <1>4, <3>1 DEF Own, PerMinnow
  <2>7. MinnowTyped(m)' /\ NothingClosed(m)'
    BY ONLY <1>1, <1>2, <1>4, <2>4 DEF MinnowTyped, NothingClosed
  <2>8. QED
    BY ONLY PInv, m \in Minnows, <1>1, <2>2, <2>3, <2>5, <2>6, <2>7, OwnStep
<1>5. CASE /\ Less(m, port) # 0
           /\ count' = [count EXCEPT ![m] = Put(count[m], port, Less(m, port))]
           /\ chan' = Taken(k)
           /\ UNCHANGED <<net_vars, lib_vars, user_vars, calls, pc, bait>>
  BY ONLY <1>1, <1>2, <1>4, <1>5, EmptySends, m \in Minnows DEF PerMinnow, net_vars, lib_vars, user_vars
<1>6. CASE /\ Less(m, port) = 0
           /\ count' = [count EXCEPT ![m] = Restrict(count[m], DOMAIN count[m] \ {port})]
           /\ chan' = Taken(k)
           /\ calls' = [calls EXCEPT ![m] = ClosedCalls(m)]
           /\ pc' = [pc EXCEPT ![m] = IF DOMAIN count[m] = {port} THEN "exit" ELSE pc[m]]
           /\ UNCHANGED <<net_vars, lib_vars, user_vars, bait>>
  <2>1. OnlySends(ClosedCalls(m))
    BY <1>2, ClosedCallsSend
  <2>2. QED
    BY ONLY <1>1, <1>2, <1>4, <1>6, <2>1, m \in Minnows DEF PerMinnow, net_vars, lib_vars, user_vars
<1>7. QED
  BY ONLY TakeClose(m, k, dies), <1>3, <1>5, <1>6 DEF TakeClose

-----------------------------------------------------------------------------
(* All steps.                                                               *)

LEMMA CheckKeeps ==
  ASSUME PInv, NEW m \in Minnows, Check(m)
  PROVE  PInv'
<1>1. Typed /\ PerMinnow /\ MinnowTyped(m) /\ pc[m] = "check" /\ count' = count
  BY DEF PInv, Typed, Check
<1>2. CASE Abort(m, chan)
  <2>1. count' = [count EXCEPT ![m] = count'[m]]
    BY ONLY <1>1, m \in Minnows DEF PerMinnow
  <2>2. QED
    BY ONLY PInv, m \in Minnows, <1>1, <1>2, <2>1, AbortKeeps
<1>3. CASE /\ pc' = [pc EXCEPT ![m] = IF Kind(m) = "filegen" THEN "exit" ELSE "loop"]
           /\ calls' = [calls EXCEPT ![m] = IF Kind(m) = "filegen" THEN FileCalls(m) ELSE <<>>]
           /\ UNCHANGED <<net_vars, lib_vars, user_vars, chan, bait>>
  <2>1. OnlySends(calls'[m]) /\ pc'[m] \in {"exit", "loop"}
    BY <1>1, <1>3, FileCallsSend, EmptySends DEF PerMinnow
  <2>2. Own(m)
    <3>1. chan' = [k \in Sockets |-> chan'[k]]
      BY ONLY <1>1, <1>3 DEF Typed, Sockets
    <3>2. QED
      BY ONLY <1>1, <1>3, <2>1, <3>1 DEF Own, PerMinnow, net_vars, lib_vars, user_vars
  <2>3. /\ UNCHANGED <<open, todo, message, chan, count>>
        /\ IsFiniteSet(DOMAIN tally'[m]) /\ Alive(m)
    BY ONLY <1>1, <1>3 DEF MinnowTyped, Alive, lib_vars, user_vars
  <2>4. QED
    BY ONLY PInv, m \in Minnows, <1>1, <2>1, <2>2, <2>3, QuietKeeps
<1>4. QED
  BY ONLY Check(m), <1>2, <1>3 DEF Check

LEMMA EndingKeeps ==
  ASSUME PInv, NEW m \in Minnows, Exit(m) \/ Leave(m)
  PROVE  PInv'
<1>1. Typed /\ PerMinnow /\ MinnowTyped(m)
  BY DEF PInv, Typed
<1>2. /\ pc[m] \in {"exit", "sleep"} /\ pc'[m] \in {"sleep", "gone"}
      /\ pc' = [pc EXCEPT ![m] = pc'[m]] /\ calls' = [calls EXCEPT ![m] = calls'[m]]
      /\ UNCHANGED <<net_vars, lib_vars, user_vars, count, chan, bait>>
  BY <1>1 DEF Exit, Leave, PerMinnow
<1>3. Own(m)
  <2>1. chan' = [k \in Sockets |-> chan'[k]]
    BY ONLY <1>1, <1>2 DEF Typed, Sockets
  <2>2. QED
    BY ONLY <1>1, <1>2, <2>1 DEF Own, PerMinnow, net_vars, lib_vars, user_vars
<1>4. /\ UNCHANGED <<open, todo, message, chan, count>>
      /\ IsFiniteSet(DOMAIN tally'[m]) /\ Alive(m)
  BY ONLY <1>1, <1>2 DEF MinnowTyped, Alive, lib_vars, user_vars
<1>5. QED
  BY ONLY PInv, m \in Minnows, <1>2, <1>3, <1>4, QuietKeeps

LEMMA RunKeeps ==
  ASSUME PInv, NEW m \in Minnows, Run(m)
  PROVE  PInv'
<1>1. CASE Check(m)
  BY <1>1, CheckKeeps
<1>2. CASE Send(m) \/ SendKey(m) \/ SendDirect(m)
  BY <1>2, SendKeeps DEF Send, SendKey, SendDirect
<1>3. CASE Close(m)
  BY <1>3, CloseKeeps
<1>4. CASE Write(m)
  BY <1>4, WriteKeeps
<1>5. CASE Loop(m) \/ Probe(m) \/ Recv(m)
  <2>1. PICK k \in Sockets : Callback(m, k) \/ \E dies : TakeClose(m, k, dies)
    BY <1>5 DEF Loop, Probe, Recv
  <2>2. QED
    BY <2>1, CallbackKeeps, TakeCloseKeeps
<1>6. CASE Exit(m) \/ Leave(m)
  BY <1>6, EndingKeeps
<1>7. QED
  BY ONLY Run(m), <1>1, <1>2, <1>3, <1>4, <1>5, <1>6 DEF Run

\* The bait only wakes minnows that have done nothing yet.
LEMMA BaitKeeps ==
  ASSUME PInv, Awaiting',
         UNCHANGED <<net, crew, outgoing, open, count, calls, todo, message, tally, chan>>,
         pc' = [m \in Minnows |-> pc'[m]],
         \A m \in Minnows : pc'[m] = pc[m] \/ (pc[m] \in {"none", "init"} /\ pc'[m] \in {"init", "check"})
  PROVE  PInv'
<1>1. UNCHANGED <<net, crew, outgoing, open, count, calls, todo, message, tally, chan>>
  OBVIOUS
<1>2. Minnows' = Minnows /\ Sockets' = Sockets /\ Script'
  BY <1>1 DEF Minnows, Sockets, Script, PInv, Typed
<1>3. Typed'
  <2>1. PerMinnow'
    BY <1>1, <1>2 DEF PerMinnow, PInv, Typed
  <2>2. \A m \in Minnows : MinnowTyped(m)'
    BY <1>1, <1>2 DEF MinnowTyped, PInv, Typed
  <2>3. chan' = [k \in SocketsOf(outgoing') |-> chan'[k]]
    BY <1>1 DEF PInv, Typed
  <2>4. \A k \in Sockets' : IsSeq(chan'[k])
    BY <1>1, <1>2 DEF PInv, Typed
  <2>5. QED
    BY ONLY <1>1, <1>2, <2>1, <2>2, <2>3, <2>4 DEF Typed
<1>4. ASSUME NEW k \in Sockets PROVE SocketOk(k)' /\ (Unclosed(k)' <=> Unclosed(k))
  <2>1. Unmoved(k) /\ SocketOk(k)
    BY <1>1 DEF Unmoved, PInv
  <2>2. QED
    BY ONLY <2>1, UnmovedOk
<1>5. ASSUME NEW m \in Minnows PROVE NothingClosed(m)' /\ MatchAt(m)'
  <2>1. NothingClosed(m)'
    BY <1>1 DEF NothingClosed, PInv
  <2>2. (Alive(m)' => Alive(m)) /\ count'[m] = count[m] /\ MatchAt(m)
    BY <1>1 DEF Alive, PInv
  <2>3. MatchAt(m)'
    BY ONLY <1>1, <1>2, <1>4, <2>2, MatchKept
  <2>4. QED
    BY <2>1, <2>3
<1>6. QED
  BY ONLY <1>2, <1>3, <1>4, <1>5, Awaiting' DEF PInv

LEMMA BaitStepKeeps ==
  ASSUME PInv, NEW m \in Minnows, Create(m) \/ Start(m) \/ Answer(m) \/ Reap(m)
  PROVE  PInv'
<1>1. PICK n \in Nat : Minnows = 1 .. n
  BY ScriptFacts DEF PInv, Typed
<1>2. Awaiting /\ PerMinnow /\ pc = [u \in Minnows |-> pc[u]]
  BY DEF PInv, Typed, PerMinnow
<1>3. Minnows' = Minnows
  BY DEF Minnows, Create, Start, Answer, Reap, net_vars
<1>4. CASE Create(m)
  <2>1. bait = [at |-> "create", i |-> m] /\ pc' = [pc EXCEPT ![m] = "init"]
    BY ONLY <1>4 DEF Create
  <2>2. bait' = IF m + 1 \in Minnows THEN [at |-> "create", i |-> m + 1] ELSE [at |-> "start", i |-> 1]
    BY ONLY <1>4 DEF Create, Onward
  <2>3. \A u \in Minnows : pc[u] = IF u < m THEN "init" ELSE "none"
    BY ONLY <1>2, <2>1 DEF Awaiting
  <2>4. \A u \in Minnows : pc'[u] = IF u < m + 1 THEN "init" ELSE "none"
    BY ONLY <1>1, <1>2, <2>1, <2>3, m \in Minnows
  <2>5. Awaiting'
    BY ONLY <1>1, <1>3, <2>2, <2>4, m \in Minnows DEF Awaiting
  <2>6. pc' = [u \in Minnows |-> pc'[u]]
    BY ONLY <1>2, <2>1
  <2>7. \A u \in Minnows : pc'[u] = pc[u] \/ (pc[u] \in {"none", "init"} /\ pc'[u] \in {"init", "check"})
    BY ONLY <1>1, <2>3, <2>4, m \in Minnows
  <2>8. UNCHANGED <<net, crew, outgoing, open, count, calls, todo, message, tally, chan>>
    BY ONLY <1>4 DEF Create, net_vars, lib_vars, user_vars
  <2>9. QED
    BY ONLY PInv, <2>5, <2>6, <2>7, <2>8, BaitKeeps
<1>5. CASE Start(m) \/ Reap(m)
  <2>1. UNCHANGED <<net, crew, outgoing, open, count, calls, todo, message, tally, chan>> /\ pc' = pc
    BY ONLY <1>5 DEF Start, Reap, net_vars, lib_vars, user_vars
  <2>2. \/ bait = [at |-> "start", i |-> m] /\ bait' = [at |-> "started", i |-> m]
        \/ bait'.at \in {"wait", "done"}
    BY ONLY <1>5 DEF Start, Reap, Onward
  <2>3. Awaiting'
    BY ONLY <1>2, <1>3, <2>1, <2>2 DEF Awaiting
  <2>4. /\ pc' = [u \in Minnows |-> pc'[u]]
        /\ \A u \in Minnows : pc'[u] = pc[u] \/ (pc[u] \in {"none", "init"} /\ pc'[u] \in {"init", "check"})
    BY ONLY <1>2, <2>1
  <2>5. QED
    BY ONLY PInv, <2>1, <2>3, <2>4, BaitKeeps
<1>6. CASE Answer(m)
  <2>1. bait = [at |-> "started", i |-> m] /\ pc' = [pc EXCEPT ![m] = "check"]
    BY ONLY <1>6 DEF Answer
  <2>2. bait' = IF m + 1 \in Minnows THEN [at |-> "start", i |-> m + 1] ELSE [at |-> "wait", i |-> 1]
    BY ONLY <1>6 DEF Answer, Onward
  <2>3. \A u \in Minnows : m <= u => pc[u] = "init"
    BY ONLY <1>2, <2>1 DEF Awaiting
  <2>4. \A u \in Minnows : pc'[u] = IF u = m THEN "check" ELSE pc[u]
    BY ONLY <1>2, <2>1
  <2>5. Awaiting'
    BY ONLY <1>1, <1>3, <2>2, <2>3, <2>4, m \in Minnows DEF Awaiting
  <2>6. pc' = [u \in Minnows |-> pc'[u]]
    BY ONLY <1>2, <2>1
  <2>7. \A u \in Minnows : pc'[u] = pc[u] \/ (pc[u] \in {"none", "init"} /\ pc'[u] \in {"init", "check"})
    BY ONLY <1>1, <2>3, <2>4, m \in Minnows
  <2>8. UNCHANGED <<net, crew, outgoing, open, count, calls, todo, message, tally, chan>>
    BY ONLY <1>6 DEF Answer, net_vars, lib_vars, user_vars
  <2>9. QED
    BY ONLY PInv, <2>5, <2>6, <2>7, <2>8, BaitKeeps
<1>7. QED
  BY <1>4, <1>5, <1>6

LEMMA StepKeepsPInv == PInv /\ [Next]_vars => PInv'
<1>1. SUFFICES ASSUME PInv, [Next]_vars PROVE PInv'
  OBVIOUS
<1>2. CASE UNCHANGED vars
  <2>1. UNCHANGED <<net, crew, outgoing, open, count, calls, todo, message, tally, chan>>
    BY ONLY <1>2 DEF vars, net_vars, lib_vars, user_vars
  <2>2. pc' = pc /\ bait' = bait /\ Minnows' = Minnows
    BY ONLY <1>2 DEF vars, net_vars, Minnows
  <2>3. Awaiting /\ pc = [m \in Minnows |-> pc[m]]
    BY ONLY PInv DEF PInv, Typed, PerMinnow
  <2>4. Awaiting'
    BY ONLY <2>2, <2>3 DEF Awaiting
  <2>5. /\ pc' = [m \in Minnows |-> pc'[m]]
        /\ \A m \in Minnows : pc'[m] = pc[m] \/ (pc[m] \in {"none", "init"} /\ pc'[m] \in {"init", "check"})
    BY ONLY <2>2, <2>3
  <2>6. QED
    BY ONLY PInv, <2>1, <2>4, <2>5, BaitKeeps
<1>3. ASSUME NEW m \in Minnows, Create(m) \/ Start(m) \/ Answer(m) \/ Reap(m) PROVE PInv'
  BY <1>1, <1>3, BaitStepKeeps
<1>4. ASSUME NEW m \in Minnows, Run(m) PROVE PInv'
  BY <1>1, <1>4, RunKeeps
<1>5. QED
  BY ONLY <1>1, <1>2, <1>3, <1>4 DEF Next, Bait

LEMMA InitPInv == Init => PInv
<1>1. SUFFICES ASSUME Init PROVE PInv
  OBVIOUS
<1>2. Script /\ PerMinnow
  <2>1. Script
    BY ONLY Init DEF Init, Script
  <2>2. count = [m \in Minnows |-> count[m]]
    BY ONLY Init DEF Init, Incoming, Minnows
  <2>3. /\ open = [m \in Minnows |-> DOMAIN outgoing[m]]
        /\ calls = [m \in Minnows |-> <<>>] /\ todo = [m \in Minnows |-> {}]
        /\ message = [m \in Minnows |-> CloseMessage] /\ pc = [m \in Minnows |-> "none"]
        /\ tally = [m \in Minnows |-> <<>>]
    BY ONLY Init DEF Init
  <2>4. PerMinnow
    BY ONLY <2>2, <2>3 DEF PerMinnow
  <2>5. QED
    BY ONLY <2>1, <2>4
<1>3. Sockets = SocketsOf(outgoing) /\ chan = [k \in SocketsOf(outgoing) |-> <<>>]
  BY <1>1 DEF Init, Sockets
<1>4. PICK n \in Nat : Minnows = 1 .. n
  BY <1>2, ScriptFacts
<1>5. Typed
  <2>1. \A m \in Minnows : MinnowTyped(m)
    <3>1. DOMAIN <<>> = {} /\ IsFiniteSet({})
      BY ONLY FS_EmptySet
    <3>2. QED
      BY ONLY <1>1, <3>1 DEF Init, MinnowTyped
  <2>2. IsSeq(<<>>)
    BY ONLY <<>> \in Seq({}) DEF IsSeq
  <2>3. QED
    BY ONLY <1>2, <1>3, <2>1, <2>2 DEF Typed
<1>6. Awaiting
  BY ONLY <1>1, <1>4 DEF Init, Awaiting
<1>7. \A m \in Minnows : NothingClosed(m)
  BY ONLY <1>1, EmptySends DEF Init, NothingClosed
<1>8. \A k \in Sockets : SocketOk(k) /\ Unclosed(k)
  <2>1. TAKE k \in Sockets
  <2>2. k[1] \in Minnows /\ k[2] \in DOMAIN outgoing[k[1]] /\ chan[k] = <<>>
    BY ONLY <1>3, <1>5, <2>1, SocketTyped
  <2>3. k[2] \in open[k[1]] /\ k \notin todo[k[1]]
    BY ONLY <1>1, <2>2 DEF Init
  <2>4. QED
    BY ONLY <2>2, <2>3 DEF SocketOk, Unclosed
<1>9. ASSUME NEW m \in Minnows PROVE MatchAt(m)
  <2> DEFINE EndsAt == {k \in Sockets : Dest(k) = m}
             Port(k) == outgoing[k[1]][k[2]].iport
  <2>1. count[m] = [p \in {Port(k) : k \in EndsAt} |-> Cardinality({k \in EndsAt : Port(k) = p})]
    BY ONLY <1>1, <1>3, <1>9 DEF Init, Incoming, Minnows, Dest
  <2>2. \A k \in Sockets : Frame(k) = Port(k)
    <3>1. TAKE k \in Sockets
    <3>2. k[1] \in Minnows /\ k[2] \in DOMAIN outgoing[k[1]]
      BY ONLY <1>5, <3>1, SocketTyped
    <3>3. Port(k) \in 0 .. 127
      BY ONLY <1>2, <3>2, ScriptFacts
    <3>4. QED
      BY ONLY <3>3 DEF Frame
  <2>3. \A p : UnclosedOn(m, p) = {k \in EndsAt : Port(k) = p}
    BY ONLY <1>8, <2>2 DEF UnclosedOn
  <2> HIDE DEF EndsAt, Port
  <2>4. \A p : p \in DOMAIN count[m] <=> {k \in EndsAt : Port(k) = p} # {}
    BY ONLY <2>1
  <2>5. QED
    BY ONLY <2>1, <2>3, <2>4 DEF MatchAt
<1>10. QED
  BY ONLY <1>5, <1>6, <1>7, <1>8, <1>9 DEF PInv

-----------------------------------------------------------------------------
LEMMA PInvHolds == Spec => []PInv
<1>1. QED
  BY InitPInv, StepKeepsPInv, PTL DEF Spec

(* Whatever the script, a minnow that has not aborted counts on each port    *)
(* exactly the sockets it has still to take a close message from             *)
(* (phish_loop, phish_probe, phish_recv): the count is never off, and the    *)
(* port is closed with the last of them.                                     *)
THEOREM CountsStayRight == Spec => []CountsMatch
<1>1. PInv => CountsMatch
  BY DEF PInv, MatchAt, UnclosedOn, CountsMatch
<1>2. QED
  BY <1>1, PInvHolds, PTL

(* Whatever the script, a close message is the last thing in a socket, and   *)
(* when a port is closed nothing is under way to it.                         *)
THEOREM NothingAfterClose == Spec => []EndOfStream
<1>1. ASSUME PInv PROVE EndOfStream
  <2>1. ASSUME NEW k \in Sockets, Alive(Dest(k)), Frame(k) \notin DOMAIN count[Dest(k)]
        PROVE  chan[k] = <<>> /\ k \notin todo[k[1]]
    <3>1. SocketOk(k) /\ IsSeq(chan[k])
      BY <1>1 DEF PInv, Typed
    <3>2. Dest(k) \in Minnows
      BY <1>1, SocketTyped, ScriptFacts DEF PInv, Typed, Dest
    <3>3. ~Unclosed(k)
      BY <1>1, <2>1, <3>2 DEF PInv, MatchAt, UnclosedOn
    <3>4. QED
      BY <3>1, <3>3 DEF SocketOk, Unclosed, Closing, IsSeq
  <2>2. QED
    BY <1>1, <2>1 DEF PInv, SocketOk, EndOfStream
<1>2. QED
  BY <1>1, PInvHolds, PTL
=============================================================================
