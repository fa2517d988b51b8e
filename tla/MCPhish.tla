------------------------------ MODULE MCPhish ------------------------------
(* The two scripts of examples.cpp, the second with two minnows in two of    *)
(* its schools as well, scripts with relays for the other hook styles, and   *)
(* scripts that do not fit together.                                         *)
EXTENDS Phish

FileContents == <<<<1, 2>>, <<2>>, <<2, 2, 3>>>>
WordHash     == <<4, 7, 6>>

School1(kind, n, args) == [kind |-> kind, count |-> n, args |-> args]
Hook(from, style, to)  == [output |-> from, oport |-> 0, style |-> style, iport |-> 0, input |-> to]
Via(engine, send, closed) == [engine |-> engine, send |-> send, closed |-> closed]
Net(app, top, fits, schools, hooks) ==
  [app |-> app, top |-> top, fits |-> fits, schools |-> schools, hooks |-> hooks]

FileList == Net("filelist", 0, TRUE,
  <<School1("filegen", 1, <<1, 2, 1>>), School1("print", 1, 0)>>, <<Hook(1, "single", 2)>>)

WordCount(files, readers, counters, top, fits) == Net("wordcount", top, fits,
  <<School1("filegen", 1, files), School1("file2words", readers, 0),
    School1("count", counters, 0), School1("sort", 1, top), School1("print", 1, 0)>>,
  <<Hook(1, "roundrobin", 2), Hook(2, "hashed", 3), Hook(3, "single", 4), Hook(4, "single", 5)>>)

\* Two sources, each read by a relay; the first relay also feeds the second.
Chain == Net("relays", 0, TRUE,
  <<School1("filegen", 2, <<1, 2>>), School1("relay", 2, Via("recv", "send", TRUE)),
    School1("print", 1, 0)>>,
  <<Hook(1, "paired", 2), Hook(2, "chain", 2), Hook(2, "single", 3)>>)

\* A relay picks the printer for every datum.
DirectNet(closed) == Net("relays", 0, closed,
  <<School1("filegen", 1, <<1, 2>>), School1("relay", 1, Via("probe", "direct", closed)),
    School1("print", 2, 0)>>,
  <<Hook(1, "broadcast", 2), Hook(2, "direct", 3)>>)

\* Nothing ever comes to a ring, and nothing closes it.
Ring == Net("relays", 0, FALSE,
  <<School1("relay", 2, Via("loop", "send", TRUE))>>, <<Hook(1, "ring", 1)>>)

\* A file that is not there.
NoSuchFile == WordCount(<<4>>, 1, 1, 1, FALSE)

\* A sorter gets words without counts, a counter and a reader of files get words
\* with counts; a printer has an unknown port; a style
\* does not suit the numbers of minnows.
Untyped == Net("bad", 0, FALSE,
  <<School1("filegen", 1, <<1>>), School1("sort", 1, 1), School1("print", 1, 0)>>,
  <<Hook(1, "single", 2), Hook(2, "single", 3)>>)
Pairs == Net("bad", 0, FALSE,
  <<School1("filegen", 1, <<1>>), School1("count", 2, 0), School1("file2words", 1, 0)>>,
  <<Hook(1, "roundrobin", 2), Hook(2, "chain", 2), Hook(2, "single", 3)>>)
UnknownPort == Net("bad", 0, FALSE,
  <<School1("filegen", 1, <<1>>), School1("print", 1, 0)>>,
  <<[output |-> 1, oport |-> 0, style |-> "single", iport |-> 1, input |-> 2]>>)
Refused == Net("bad", 0, FALSE,
  <<School1("filegen", 1, <<1>>), School1("print", 2, 0)>>, <<Hook(1, "single", 2)>>)

SmallNets == {FileList, WordCount(<<1, 3>>, 1, 1, 2, TRUE), WordCount(<<1, 2>>, 2, 1, 2, TRUE),
              WordCount(<<3>>, 1, 2, 2, TRUE), WordCount(<<2>>, 1, 1, 2, FALSE),
              Chain, DirectNet(TRUE), DirectNet(FALSE), Ring, NoSuchFile, Untyped, Pairs, UnknownPort, Refused}
=============================================================================
