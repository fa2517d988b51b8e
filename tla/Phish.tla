------------------------------- MODULE Phish -------------------------------
(***************************************************************************)
(* PHISH over ZeroMQ: src/phish and the minnows of apps/phish.  A script    *)
(* describes schools of processes (minnows) and hooks their ports together; *)
(* the bait process derives the connections, starts the minnows and waits   *)
(* for them.  A minnow reacts to the datums of its input ports.  When it is *)
(* done it closes its output ports, which tells every receiver so, and an   *)
(* input port is closed once all its upstream connections are.              *)
(***************************************************************************)
EXTENDS Integers, Sequences, FiniteSets, Functions, SequencesExt

CONSTANTS Nets,      \* the scripts considered
          Contents,  \* file |-> the words in it, numbers in the order of strings
          Hash,      \* word |-> hashlittle(word)
          HWM,       \* --phish-high-water-mark: datums a socket holds
          MaxMinnows \* bound on the minnows of a net

(* A net has schools, [kind, count, args], and hooks between them,          *)
(* [output, oport, style, iport, input], where output and input are indices *)
(* of schools.  A relay stands for a minnow of a user of the library: args  *)
(* is then [engine, send, closed], the function it waits in, the function   *)
(* it sends with, and whether it gave phish_input a port-closed callback.   *)
VARIABLES
  net,
  crew,      \* the school of each minnow (minnow::school_index)
  outgoing,  \* minnow::outgoing: the connections a minnow is started with
  open,      \* g_output_connections: the indices of those not yet deleted
  count,     \* g_input_port_connection_count
  chan,      \* what is in the sockets between two minnows
  rr,        \* m_index of the round robin connections
  pack,      \* the values in the buffer at g_pack_begin
  calls,     \* the library calls main or a callback has still to make
  todo,      \* the sockets the current call has still to write to
  message,   \* what it writes to them
  pc,
  tally,     \* hash of minnow count
  list,      \* list of minnow sort
  printed,   \* what minnow print wrote
  bait       \* the next step of phish_bait_start

net_vars  == <<net, crew, outgoing>>
lib_vars  == <<open, rr, pack, todo, message>>
user_vars == <<tally, list, printed>>
vars == <<net, crew, outgoing, open, count, chan, rr, pack, calls, todo, message, pc,
          tally, list, printed, bait>>

-----------------------------------------------------------------------------
(* The script: phish_bait_school and phish_bait_hook.                       *)

FirstId(n, s) == FoldLeft(LAMBDA a, school : a + school.count, 0, SubSeq(n.schools, 1, s - 1))
MinnowsOf(n, s) == [i \in 1 .. n.schools[s].count |-> FirstId(n, s) + i]
AllMinnows(n) == 1 .. FirstId(n, Len(n.schools) + 1)
SchoolOf(n) ==
  [m \in AllMinnows(n) |->
     n.schools[CHOOSE s \in DOMAIN n.schools : m - FirstId(n, s) \in 1 .. n.schools[s].count]]

Legal(n, h) ==
  LET from == MinnowsOf(n, h.output)  to == MinnowsOf(n, h.input)
  IN  CASE h.style = "single"            -> Len(to) = 1
        [] h.style = "paired"            -> Len(from) = Len(to)
        [] h.style \in {"chain", "ring"} -> h.output = h.input
        [] h.style \in {"hashed", "roundrobin", "direct", "broadcast"} -> TRUE
        [] OTHER                         -> FALSE

\* The pattern of a style, and the minnows that the i-th output minnow sends to.
Pattern(style) == IF style \in {"hashed", "roundrobin", "direct"} THEN style ELSE "broadcast"
Receivers(n, h, i) ==
  LET to == MinnowsOf(n, h.input)
  IN  CASE h.style = "paired" -> <<to[i]>>
        [] h.style = "chain"  -> IF i < Len(to) THEN <<to[i + 1]>> ELSE <<>>
        [] h.style = "ring"   -> <<to[(i % Len(to)) + 1]>>
        [] OTHER              -> to

\* A hook that does not suit the numbers of minnows makes no connections.
Sends(n, h, m) ==
  LET i == m - FirstId(n, h.output)
  IN  Legal(n, h) /\ i \in 1 .. n.schools[h.output].count /\ Receivers(n, h, i) # <<>>

\* The connections of minnow m, each numbered as the hook that makes it.
Connections(n, m) ==
  [j \in {l \in DOMAIN n.hooks : Sends(n, n.hooks[l], m)} |->
     LET h == n.hooks[j]
     IN  [oport |-> h.oport, pattern |-> Pattern(h.style), iport |-> h.iport,
          to |-> Receivers(n, h, m - FirstId(n, h.output))]]
Outgoing(n) == [m \in AllMinnows(n) |-> Connections(n, m)]

(* The ports of a script fit into a frame.  Its minnows are numbered through, *)
(* school by school, from 1.                                                 *)
ASSUME PhishAssumption ==
  /\ {HWM, MaxMinnows} \subseteq Nat \ {0}
  /\ \A f \in DOMAIN Contents : Contents[f] \in Seq(Int)
  /\ \A n \in Nets :
       /\ Len(n.schools) \in Nat /\ DOMAIN n.schools = 1 .. Len(n.schools)
       /\ \A s \in DOMAIN n.schools :
            /\ n.schools[s].count \in Nat
            /\ n.schools[s].kind = "filegen" => n.schools[s].args \in Seq(Int)
            /\ n.schools[s].kind = "sort" => n.schools[s].args \in Nat
            /\ n.schools[s].kind = "relay" => n.schools[s].args.send \in {"send", "key", "direct"}
       /\ Len(n.hooks) \in Nat /\ DOMAIN n.hooks = 1 .. Len(n.hooks)
       /\ \A j \in DOMAIN n.hooks : /\ n.hooks[j].iport \in 0 .. 127
                                   /\ {n.hooks[j].output, n.hooks[j].input} \subseteq DOMAIN n.schools
       /\ FirstId(n, Len(n.schools) + 1) \in Nat
       /\ \A s \in DOMAIN n.schools : FirstId(n, s) \in 0 .. FirstId(n, Len(n.schools) + 1) - n.schools[s].count
       /\ SchoolOf(n) \in [AllMinnows(n) -> Range(n.schools)]

\* A socket is <<m, c, r>>: minnow m's for receiver r of its connection c.
SocketsOf(out) ==
  UNION {UNION {{<<m, c, r>> : r \in DOMAIN out[m][c].to} : c \in DOMAIN out[m]} : m \in DOMAIN out}

Incoming_OnePerPort(out) ==
  [m \in DOMAIN out |->
     [p \in {out[k[1]][k[2]].iport : k \in {l \in SocketsOf(out) : out[l[1]][l[2]].to[l[3]] = m}}
        |-> 1]]

\* minnow::incoming, counted by the constructor of connection.
Incoming(out) ==
  LET EndsAt(m) == {k \in SocketsOf(out) : out[k[1]][k[2]].to[k[3]] = m}
      Port(k)   == out[k[1]][k[2]].iport
  IN  [m \in DOMAIN out |->
         [p \in {Port(k) : k \in EndsAt(m)} |-> Cardinality({k \in EndsAt(m) : Port(k) = p})]]

-----------------------------------------------------------------------------
(* The minnows of the net at work, and the sockets between them.             *)

Minnows == DOMAIN outgoing
School(m) == crew[m]
Kind(m)  == School(m).kind
Sockets  == DOMAIN chan
Dest(k)  == outgoing[k[1]][k[2]].to[k[3]]
Frame(k) == outgoing[k[1]][k[2]].iport % 128     \* PORT_MASK

Before(k, l) == k[2] < l[2] \/ (k[2] = l[2] /\ k[3] < l[3])

CloseMessage == [type |-> "close", vals |-> <<>>]
Datum(vals)  == [type |-> "data", vals |-> vals]

\* What the pack functions append to a datum, and the type phish_unpack finds.
PackString(v) == <<[type |-> "string", v |-> v]>>
PackInt32(v)  == <<[type |-> "int32", v |-> v]>>
UnpackType(vals, i) == IF i \in DOMAIN vals THEN vals[i].type ELSE "none"

SendCall(op, port, vals, to) == [op |-> op, port |-> port, vals |-> vals, to |-> to]
CloseCall(port) == SendCall("close", port, <<>>, 0)

Init ==
  /\ net \in Nets
  /\ crew = SchoolOf(net)
  /\ outgoing = Outgoing(net)
  /\ open = [m \in Minnows |-> DOMAIN outgoing[m]]
  /\ count = Incoming(outgoing)
  /\ chan = [k \in SocketsOf(outgoing) |-> <<>>]
  /\ rr = [m \in Minnows |-> [c \in DOMAIN outgoing[m] |-> 0]]
  /\ pack = [m \in Minnows |-> <<>>]
  /\ calls = [m \in Minnows |-> <<>>]
  /\ todo = [m \in Minnows |-> {}]
  /\ message = [m \in Minnows |-> CloseMessage]
  /\ pc = [m \in Minnows |-> "none"]
  /\ tally = [m \in Minnows |-> <<>>]
  /\ list = [m \in Minnows |-> <<>>]
  /\ printed = [m \in Minnows |-> <<>>]
  /\ bait = IF \A j \in DOMAIN net.hooks : Legal(net, net.hooks[j])
              THEN [at |-> "create", i |-> 1] ELSE [at |-> "refused", i |-> 0]

-----------------------------------------------------------------------------
(* phish_bait_start: create every minnow, start every one, wait for every   *)
(* one.                                                                     *)

Onward(m, at, next) == IF m + 1 \in Minnows THEN [at |-> at, i |-> m + 1]
                                           ELSE [at |-> next, i |-> 1]

\* The process of a minnow, told its ports and connections, waits in phish_init.
Create(m) ==
  /\ bait = [at |-> "create", i |-> m]
  /\ pc' = [pc EXCEPT ![m] = "init"]
  /\ bait' = Onward(m, "create", "start")
  /\ UNCHANGED <<net_vars, lib_vars, user_vars, count, chan, calls>>

Start(m) ==
  /\ bait = [at |-> "start", i |-> m]
  /\ bait' = [bait EXCEPT !.at = "started"]
  /\ UNCHANGED <<net_vars, lib_vars, user_vars, count, chan, calls, pc>>

\* phish_init answers "ok" and returns; the bait goes on to the next minnow.
Answer(m) ==
  /\ bait = [at |-> "started", i |-> m]
  /\ pc' = [pc EXCEPT ![m] = "check"]
  /\ bait' = Onward(m, "start", "wait")
  /\ UNCHANGED <<net_vars, lib_vars, user_vars, count, chan, calls>>

Reap(m) ==
  /\ bait = [at |-> "wait", i |-> m]
  /\ pc[m] \in {"gone", "aborted"}
  /\ bait' = Onward(m, "wait", "done")
  /\ UNCHANGED <<net_vars, lib_vars, user_vars, count, chan, calls, pc>>

-----------------------------------------------------------------------------
(* The library.  A minnow is one thread: it makes the next call when the     *)
(* last one has written to all its sockets, and takes the next message when  *)
(* its callback has made all its calls.                                      *)

Idle(m) == todo[m] = {} /\ calls[m] = <<>>

\* std::map: an entry is set, made if there is none; the keys in order.
Put(f, key, v) == [k \in DOMAIN f \cup {key} |-> IF k = key THEN v ELSE f[k]]
InOrder(keys) ==
  [i \in 1 .. Cardinality(keys) |->
     CHOOSE k \in keys : Cardinality({l \in keys : l < k}) = i - 1]

\* phish_error and phish_abort: exit(-1) without closing anything.  What is
\* still in the minnow's sockets may be lost from any point on.
Abort(m, sockets) ==
  /\ \E keep \in [{k \in Sockets : k[1] = m} -> 0 .. HWM] :
       chan' = [k \in Sockets |-> IF k[1] = m /\ keep[k] < Len(sockets[k])
                                  THEN SubSeq(sockets[k], 1, keep[k]) ELSE sockets[k]]
  /\ pc' = [pc EXCEPT ![m] = "aborted"]
  /\ calls' = [calls EXCEPT ![m] = <<>>]
  /\ UNCHANGED <<net_vars, lib_vars, user_vars, bait>>

OpenOn(m, port) == {c \in open[m] : outgoing[m][c].oport = port}

\* The receivers a connection picks; none when it cannot send this way.
Recipient(m, c, index) == {r \in DOMAIN outgoing[m][c].to : r = index + 1}
Broadcast(m, c, call)  == IF call.op = "send" THEN DOMAIN outgoing[m][c].to ELSE {}
RoundRobin(m, c, call) == IF call.op = "send" THEN Recipient(m, c, rr[m][c]) ELSE {}
Hashed_ByTurn(m, c, call) ==
  IF call.op = "key" THEN Recipient(m, c, Len(calls[m]) % Len(outgoing[m][c].to)) ELSE {}
Hashed(m, c, call) ==
  IF call.op = "key" THEN Recipient(m, c, Hash[call.to] % Len(outgoing[m][c].to)) ELSE {}
Direct(m, c, call) ==
  IF call.op = "direct" THEN Recipient(m, c, call.to % Len(outgoing[m][c].to)) ELSE {}

Picked(m, c, call) == CASE outgoing[m][c].pattern = "broadcast"  -> Broadcast(m, c, call)
                        [] outgoing[m][c].pattern = "roundrobin" -> RoundRobin(m, c, call)
                        [] outgoing[m][c].pattern = "hashed"     -> Hashed(m, c, call)
                        [] outgoing[m][c].pattern = "direct"     -> Direct(m, c, call)

\* The next call, with the packing before it.  A closed port leaves the values
\* in the buffer.
SendAs(m, op) ==
  /\ todo[m] = {} /\ calls[m] # <<>>
  /\ LET call == Head(calls[m])
         conns == OpenOn(m, call.port)
         values == pack[m] \o call.vals
     IN  /\ call.op = op
         /\ message' = [message EXCEPT ![m] = Datum(values)]
         /\ todo' = [todo EXCEPT ![m] = UNION {{<<m, c, r>> : r \in Picked(m, c, call)} : c \in conns}]
         /\ pack' = [pack EXCEPT ![m] = IF conns = {} THEN values ELSE <<>>]
         /\ rr' = [rr EXCEPT ![m] = [c \in DOMAIN @ |->
                     IF c \in conns /\ outgoing[m][c].pattern = "roundrobin" /\ op = "send"
                       THEN (@[c] + 1) % Len(outgoing[m][c].to) ELSE @[c]]]
  /\ calls' = [calls EXCEPT ![m] = Tail(@)]
  /\ UNCHANGED <<net_vars, user_vars, open, count, chan, pc, bait>>

Send(m)       == SendAs(m, "send")
SendKey(m)    == SendAs(m, "key")
SendDirect(m) == SendAs(m, "direct")

Close_FirstReceiver(m) ==
  /\ todo[m] = {} /\ calls[m] # <<>>
  /\ Head(calls[m]).op = "close"
  /\ LET conns == OpenOn(m, Head(calls[m]).port)
     IN  /\ todo' = [todo EXCEPT ![m] = {<<m, c, 1>> : c \in conns}]
         /\ open' = [open EXCEPT ![m] = @ \ conns]
  /\ message' = [message EXCEPT ![m] = CloseMessage]
  /\ calls' = [calls EXCEPT ![m] = Tail(@)]
  /\ UNCHANGED <<net_vars, user_vars, count, chan, rr, pack, pc, bait>>

\* phish_close: the connections of the port are deleted, their destructors
\* send a close message to every receiver.
Close(m) ==
  /\ todo[m] = {} /\ calls[m] # <<>>
  /\ Head(calls[m]).op = "close"
  /\ LET conns == OpenOn(m, Head(calls[m]).port)
     IN  /\ todo' = [todo EXCEPT ![m] =
                       UNION {{<<m, c, r>> : r \in DOMAIN outgoing[m][c].to} : c \in conns}]
         /\ open' = [open EXCEPT ![m] = @ \ conns]
  /\ message' = [message EXCEPT ![m] = CloseMessage]
  /\ calls' = [calls EXCEPT ![m] = Tail(@)]
  /\ UNCHANGED <<net_vars, user_vars, count, chan, rr, pack, pc, bait>>

\* zmq_send blocks while the socket is at its high water mark.
Write(m) ==
  \E k \in todo[m] :
    /\ \A l \in todo[m] \ {k} : Before(k, l)
    /\ Len(chan[k]) < HWM
    /\ chan' = [chan EXCEPT ![k] = Append(@, message[m])]
    /\ todo' = [todo EXCEPT ![m] = @ \ {k}]
    /\ UNCHANGED <<net_vars, user_vars, open, count, rr, pack, calls, message, pc, bait>>

\* The next message of any socket that ends at m.
Take(m, k) ==
  /\ pc[m] = "loop" /\ Idle(m)
  /\ Dest(k) = m /\ chan[k] # <<>>
Taken(k) == [chan EXCEPT ![k] = Tail(@)]

\* phish_exit: close every output port, sleep, return from main.
Exit(m) ==
  /\ pc[m] = "exit" /\ Idle(m)
  /\ LET ports == InOrder({outgoing[m][c].oport : c \in open[m]})
     IN  calls' = [calls EXCEPT ![m] = [i \in DOMAIN ports |-> CloseCall(ports[i])]]
  /\ pc' = [pc EXCEPT ![m] = "sleep"]
  /\ UNCHANGED <<net_vars, lib_vars, user_vars, count, chan, bait>>

\* The sleep is taken to be long enough for what was sent to arrive.
Leave(m) ==
  /\ pc[m] = "sleep" /\ Idle(m)
  /\ pc' = [pc EXCEPT ![m] = "gone"]
  /\ UNCHANGED <<net_vars, lib_vars, user_vars, count, chan, calls, bait>>

-----------------------------------------------------------------------------
(* The minnows: which ports they declare, and what main does.               *)

\* phish_input and phish_output; all input ports are required.
InputPorts(m)  == IF Kind(m) = "filegen" THEN {} ELSE {0}
OutputPorts(m) == IF Kind(m) = "print" THEN {} ELSE {0}
HasClosedCallback(m) ==
  CASE Kind(m) = "file2words" -> FALSE
    [] Kind(m) = "relay"      -> School(m).args.closed
    [] OTHER                  -> TRUE
Engine(m) == IF Kind(m) = "relay" THEN School(m).args.engine ELSE "loop"

\* phish_check: the connections must be to declared ports, and to all of them.
Fits(m) ==
  /\ DOMAIN count[m] = InputPorts(m)
  /\ \A c \in DOMAIN outgoing[m] : outgoing[m][c].oport \in OutputPorts(m)

\* filegen sends the names of the files it found, then exits.
FileCalls(m) ==
  [i \in DOMAIN School(m).args |-> SendCall("send", 0, PackString(School(m).args[i]), 0)]

Check(m) ==
  /\ pc[m] = "check"
  /\ count' = count
  /\ \/ ~Fits(m) /\ Abort(m, chan)
     \/ /\ Fits(m)
        /\ pc' = [pc EXCEPT ![m] = IF Kind(m) = "filegen" THEN "exit" ELSE "loop"]
        /\ calls' = [calls EXCEPT ![m] = IF Kind(m) = "filegen" THEN FileCalls(m) ELSE <<>>]
        /\ UNCHANGED <<net_vars, lib_vars, user_vars, chan, bait>>

-----------------------------------------------------------------------------
(* A datum arrives: the message callbacks.                                  *)

TakeDatum(m, k) ==
  /\ Take(m, k) /\ Head(chan[k]).type = "data"
  /\ count' = count

Received(k) == Head(chan[k]).vals

\* file2words: every word goes to the receiver its hash picks.  A file that
\* cannot be opened is read all the same, which ends the process.
ReadFile(m, k) ==
  /\ Kind(m) = "file2words" /\ TakeDatum(m, k)
  /\ LET vals == Received(k)
         readable == /\ Len(vals) = 1 /\ UnpackType(vals, 1) = "string"
                     /\ vals[1].v \in DOMAIN Contents
     IN  \/ ~readable /\ Abort(m, Taken(k))
         \/ /\ readable
            /\ calls' = [calls EXCEPT ![m] =
                 [i \in DOMAIN Contents[vals[1].v] |->
                    SendCall("key", 0, PackString(Contents[vals[1].v][i]), Contents[vals[1].v][i])]]
            /\ UNCHANGED <<net_vars, lib_vars, user_vars, pc, bait>>
            /\ chan' = Taken(k)

CountWord(m, k) ==
  /\ Kind(m) = "count" /\ TakeDatum(m, k)
  /\ LET vals == Received(k)
         word == vals[1].v
     IN  \/ /\ ~(Len(vals) = 1 /\ UnpackType(vals, 1) = "string")
            /\ Abort(m, Taken(k))
         \/ /\ Len(vals) = 1 /\ UnpackType(vals, 1) = "string"
            /\ tally' = [tally EXCEPT ![m] =
                 Put(@, word, IF word \in DOMAIN @ THEN @[word] + 1 ELSE 1)]
            /\ UNCHANGED <<net_vars, lib_vars, list, printed, calls, pc, bait>>
            /\ chan' = Taken(k)

\* sort: the pair is kept for later.
Store(m, k) ==
  /\ Kind(m) = "sort" /\ TakeDatum(m, k)
  /\ LET vals == Received(k)
         right == Len(vals) = 2 /\ UnpackType(vals, 1) = "int32"
                                /\ UnpackType(vals, 2) = "string"
     IN  \/ ~right /\ Abort(m, Taken(k))
         \/ /\ right
            /\ list' = [list EXCEPT ![m] = Append(@, <<vals[1].v, vals[2].v>>)]
            /\ UNCHANGED <<net_vars, lib_vars, tally, printed, calls, pc, bait>>
            /\ chan' = Taken(k)

PrintDatum(m, k) ==
  /\ Kind(m) = "print" /\ TakeDatum(m, k)
  /\ chan' = Taken(k)
  /\ printed' = [printed EXCEPT ![m] = Append(@, [i \in DOMAIN Received(k) |-> Received(k)[i].v])]
  /\ UNCHANGED <<net_vars, lib_vars, tally, list, calls, pc, bait>>

\* A relay sends the datum on: phish_repack makes the received one the one to
\* be sent, whatever was packed before.
Relay(m, k) ==
  /\ Kind(m) = "relay" /\ TakeDatum(m, k)
  /\ chan' = Taken(k)
  /\ pack' = [pack EXCEPT ![m] = Received(k)]
  /\ calls' = [calls EXCEPT ![m] =
       <<SendCall(School(m).args.send, 0, <<>>,
                  IF Received(k) = <<>> THEN 0 ELSE Received(k)[1].v)>>]
  /\ UNCHANGED <<net_vars, user_vars, open, rr, todo, message, pc, bait>>

-----------------------------------------------------------------------------
(* A close message arrives: phish_loop, phish_probe and phish_recv.         *)

\* The port-closed callbacks.  Indexing past the end of the sorter's list is
\* undefined: it finds garbage, or the process dies of it.
Greater(p, q) == p[1] > q[1] \/ (p[1] = q[1] /\ p[2] > q[2])
Garbage == <<0, 0>>

Dump(m) ==
  LET words == InOrder(DOMAIN tally[m])
  IN  [i \in DOMAIN words |->
         SendCall("send", 0, PackInt32(tally[m][words[i]]) \o PackString(words[i]), 0)]
Top(m) ==
  LET sorted == SortSeq(list[m], Greater)
      At(i)  == IF i \in DOMAIN sorted THEN sorted[i] ELSE Garbage
  IN  [i \in 1 .. School(m).args |->
         SendCall("send", 0, PackInt32(At(i)[1]) \o PackString(At(i)[2]), 0)]

ClosedCalls(m) == CASE Kind(m) = "count" -> Dump(m)
                    [] Kind(m) = "sort"  -> Top(m)
                    [] OTHER             -> <<>>

MayDie(m) == Kind(m) = "sort" /\ School(m).args > Len(list[m])

Less_AnyClose(m, port) == IF port \in DOMAIN count[m] THEN 0 ELSE -1

\* One of the port's upstream connections fewer; the last one closes the
\* port, and the last port ends the loop.
Less(m, port) == IF port \in DOMAIN count[m] THEN count[m][port] - 1 ELSE -1

TakeClose(m, k, dies) ==
  /\ Take(m, k) /\ Head(chan[k]).type = "close"
  /\ LET port == Frame(k)
         left == Less(m, port)
     IN  \/ /\ left # 0
            /\ count' = [count EXCEPT ![m] = Put(@, port, left)]
            /\ chan' = Taken(k)
            /\ UNCHANGED <<net_vars, lib_vars, user_vars, calls, pc, bait>>
         \/ /\ left = 0
            /\ count' = [count EXCEPT ![m] = Restrict(@, DOMAIN @ \ {port})]
            /\ \/ /\ ~dies
                  /\ chan' = Taken(k)
                  /\ calls' = [calls EXCEPT ![m] = ClosedCalls(m)]
                  /\ pc' = [pc EXCEPT ![m] = IF DOMAIN count[m] = {port} THEN "exit" ELSE @]
                  /\ UNCHANGED <<net_vars, lib_vars, user_vars, bait>>
               \/ (dies \/ MayDie(m)) /\ Abort(m, Taken(k))

-----------------------------------------------------------------------------
(* The three functions a minnow receives in.  phish_probe polls, and calls   *)
(* the port-closed callback without looking whether there is one.            *)

Callback(m, k) == \/ ReadFile(m, k) \/ CountWord(m, k) \/ Store(m, k)
                  \/ PrintDatum(m, k) \/ Relay(m, k)

Loop(m)  == /\ Engine(m) = "loop"
            /\ \E k \in Sockets : Callback(m, k) \/ TakeClose(m, k, FALSE)
Probe(m) == /\ Engine(m) = "probe"
            /\ \E k \in Sockets : Callback(m, k) \/ TakeClose(m, k, ~HasClosedCallback(m))
Recv(m)  == /\ Engine(m) = "recv"
            /\ \E k \in Sockets : Callback(m, k) \/ TakeClose(m, k, FALSE)

Run(m) == \/ Check(m) \/ Send(m) \/ SendKey(m) \/ SendDirect(m) \/ Close(m) \/ Write(m)
          \/ Loop(m) \/ Probe(m) \/ Recv(m) \/ Exit(m) \/ Leave(m)

Bait == \E m \in Minnows : Create(m) \/ Start(m) \/ Answer(m) \/ Reap(m)

Next == Bait \/ \E m \in Minnows : Run(m)

\* Processes run, and ZeroMQ serves the sockets of a minnow in turn.
Fairness == WF_vars(Bait) /\ \A m \in 1 .. MaxMinnows : WF_vars(m \in Minnows /\ Run(m))

Spec == Init /\ [][Next]_vars /\ Fairness

-----------------------------------------------------------------------------
\* A socket on which the receiver has still to find a close message.
Closing(k)  == k \in todo[k[1]] /\ message[k[1]].type = "close"
Unclosed(k) == \/ k[2] \in open[k[1]] \/ Closing(k)
               \/ \E i \in DOMAIN chan[k] : chan[k][i].type = "close"
Alive(m)    == pc[m] # "aborted"

(* The bookkeeping of phish_loop: an input port counts exactly the upstream  *)
(* sockets whose close message it has not taken yet, so the count reaches    *)
(* zero when the last of them has been taken and never goes below.           *)
CountsMatch ==
  \A m \in Minnows : Alive(m) =>
    \A port \in {Frame(k) : k \in Sockets} \cup DOMAIN count[m] :
      LET unclosed == {k \in Sockets : Dest(k) = m /\ Frame(k) = port /\ Unclosed(k)}
      IN  IF port \in DOMAIN count[m]
            THEN count[m][port] = Cardinality(unclosed) /\ unclosed # {}
            ELSE unclosed = {}

(* The close message is the last thing a receiver finds in a socket, and     *)
(* nothing is still under way to a port once it is closed: a port-closed     *)
(* callback that reports totals has seen every datum.                        *)
EndOfStream ==
  \A k \in Sockets :
    /\ \A i \in DOMAIN chan[k] : chan[k][i].type = "close" =>
         i = Len(chan[k]) /\ k[2] \notin open[k[1]] /\ k \notin todo[k[1]]
    /\ Alive(Dest(k)) /\ Frame(k) \notin DOMAIN count[Dest(k)] =>
         chan[k] = <<>> /\ k \notin todo[k[1]]

\* What a script prints: the names of the files, or the most frequent words.
FilesOf(n)  == FlattenSeq([s \in DOMAIN n.schools |->
                 IF n.schools[s].kind = "filegen" THEN n.schools[s].args ELSE <<>>])
WordsOf(n)  == FlattenSeq([i \in DOMAIN FilesOf(n) |-> Contents[FilesOf(n)[i]]])
Occurs(n, w) == Cardinality({i \in DOMAIN WordsOf(n) : WordsOf(n)[i] = w})
Ranked(n)   == SetToSortSeq({<<Occurs(n, w), w>> : w \in Range(WordsOf(n))}, Greater)
Expected(n) == IF n.app = "filelist" THEN [i \in DOMAIN FilesOf(n) |-> <<FilesOf(n)[i]>>]
                                     ELSE SubSeq(Ranked(n), 1, n.top)

(* However many minnows share the work, the printer prints the names in      *)
(* order, or the most frequent words of all files with their counts (as long *)
(* as there are that many words).                                            *)
ReportRight ==
  bait.at = "done" /\ net.fits /\ net.app \in {"filelist", "wordcount"} =>
    \A m \in Minnows : Kind(m) = "print" => printed[m] = Expected(net)

(* Every minnow of a script that fits together ends, and the bait with them. *)
AllReaped == net.fits ~> bait.at = "done"
=============================================================================
