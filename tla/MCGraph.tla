------------------------------ MODULE MCGraph ------------------------------
(* Small graphs: triangles, two shortest paths, a line.  With two threads the *)
(* one cut between their ranges is always made; with three one may be missing *)
(* where a vertex has too many edges, which no vertex of these graphs has.    *)
EXTENDS Graph

In(prog, build, n, undirected, graph) ==
  [prog |-> prog, build |-> build, threads |-> n, undirected |-> undirected, graph |-> graph]

\* From 0 to 3 by 1 or 2, and by a double edge from 3 to 4.
Diamond == 0 :> <<1, 2>> @@ 1 :> <<3>> @@ 2 :> <<3>> @@ 3 :> <<4, 4>> @@ 4 :> <<>>
\* Two triangles with an edge in common.
Kite == 0 :> <<1, 2, 3>> @@ 1 :> <<2, 0>> @@ 2 :> <<3, 0, 1>> @@ 3 :> <<0, 2>>
Fork == 0 :> <<1, 1, 2>> @@ 1 :> <<3>> @@ 2 :> <<3>> @@ 3 :> <<>>
Triangle == 0 :> <<1, 2>> @@ 1 :> <<2, 0>> @@ 2 :> <<0, 1>>
Line == 0 :> <<1>> @@ 1 :> <<0, 2>> @@ 2 :> <<1>>

All == {In(p, b, n, FALSE, Kite) : p \in {"bc", "tc", "dc"}, b \in {"omp"}, n \in {1, 2}}
       \cup {In("tc", "raft", 2, FALSE, Triangle), In("bc", "raft", 2, TRUE, Line), In("bc", "raft", 2, FALSE, Fork),
             In("bc", "omp", 2, FALSE, Diamond), In("dc", "raft", 2, FALSE, Line), In("bc", "omp", 2, TRUE, Kite),
             In("tc", "omp", 3, FALSE, Triangle), In("tc", "omp", 3, FALSE, Kite)}
=============================================================================
