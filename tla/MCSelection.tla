------------------------------ MODULE MCSelection ------------------------------
(* Instances of Selection for TLC: every file of up to four records of two  *)
(* senders, stale ones included; every directed graph of four nodes; chains *)
(* of eleven with one edge more, where distances reach INT_MAX; and what    *)
(* the script writes for every network of four nodes and a sink.            *)
EXTENDS Selection, SequencesExt

CONSTANTS a, b, c, d, sink, near, far,
          r1, r2, r3, h1, h2, h3, h4, h5, h6, h7

Four == {a, b, c, d}
Link(i) == <<r1, r2, r3, h1, h2, h3, h4, h5, h6, h7, d, sink>>[i]
MCName == Four \cup {Link(i) : i \in 1 .. 12}

(* a is a host, whose address atoi makes a number of.                       *)
MCLeading == [n \in MCName |-> IF n = a THEN 1 ELSE 0]

MCRecord == [from : {a, b}, seq : 0 .. 1, nbrs : {<<a>>, <<a, b>>}]
StaleFiles == UNION {[1 .. n -> MCRecord] : n \in 0 .. 4}

(* One announcement of n: any of the others, or only itself.                *)
Lsa(n, t) == [from |-> n, seq |-> 0, nbrs |-> IF t = {} THEN <<n>> ELSE SetToSeq(t)]
Lsas(n) == {Lsa(n, t) : t \in SUBSET (Four \ {n})}
GraphFiles == {<<w, x, y, z>> : w \in Lsas(a), x \in Lsas(b), y \in Lsas(c), z \in Lsas(d)}

(* Link(1) comes last in the file, so the search starts from it; the j-th   *)
(* has an edge to the k-th besides the one to its next.                     *)
Chain(j, k) ==
  [i \in 1 .. 11 |->
     LET n == 12 - i
     IN  [from |-> Link(n), seq |-> 0,
          nbrs |-> IF n = j THEN <<Link(n + 1), Link(k)>> ELSE <<Link(n + 1)>>]]
ChainFiles == {Chain(j, k) : j, k \in 1 .. 11}

MCFiles == StaleFiles \cup GraphFiles \cup ChainFiles

(* Every network of four nodes with the sink on a: with and without losses. *)
Pairs == {<<a, b>>, <<a, c>>, <<a, d>>, <<b, c>>, <<b, d>>, <<c, d>>}
OnA(s) == SetToSeq(s) \o <<<<sink, a>>>>
Net(ls, n, l) == [links |-> ls, sink |-> sink, rounds |-> n, lossy |-> l]

(* Several rounds, the walk's order and the sink on several links.          *)
Path == <<<<a, b>>, <<b, c>>, <<c, d>>, <<sink, a>>>>
Ring == <<<<a, b>>, <<b, c>>, <<c, d>>, <<d, sink>>, <<sink, a>>>>

MCNetworks ==
  {Net(OnA(s), 1, l) : s \in SUBSET Pairs, l \in BOOLEAN}
    \cup {Net(ls, 2, l) : ls \in {Path, Ring, OnA(Pairs)}, l \in BOOLEAN}

MCServers == <<far, near>>
MCBegins == (far :> {<<c>>, <<d>>}) @@ (near :> {<<d>>})

(* topos/topo2: its announcements, of which the first of router3 is lost in *)
(* the first round, and its servers.                                        *)
TopoName == {r1, r2, r3, h1, h2, h3, h4, h5, h6, h7}
TopoLeading ==
  [n \in TopoName |->
     CASE n = h1 -> 1 [] n = h2 -> 2 [] n = h3 -> 3 [] n = h4 -> 4
       [] n = h5 -> 5 [] n = h6 -> 6 [] n = h7 -> 7 [] OTHER -> 0]
Lsr(n, q, ns) == [from |-> n, seq |-> q, nbrs |-> ns]
TopoFiles ==
  {<<Lsr(r1, 0, <<h1, h4, h7, r2>>), Lsr(h1, 0, <<r1>>), Lsr(h4, 0, <<r1>>),
     Lsr(r2, 0, <<h2, h5, r1, r3>>), Lsr(h2, 0, <<r2>>), Lsr(h5, 0, <<r2>>),
     Lsr(h3, 0, <<r3>>), Lsr(h6, 0, <<r3>>),
     Lsr(r1, 1, <<h1, h4, h7, r2>>), Lsr(r3, 1, <<h3, h6, r2>>)>>}
TopoServers == <<h4, h5, h6>>
TopoBegins == [q \in {h4, h5, h6} |-> {<<q>>}]
TopoNetworks ==
  {[links |-> <<<<h1, r1>>, <<h2, r2>>, <<h3, r3>>, <<h4, r1>>, <<h5, r2>>, <<h6, r3>>,
                <<h7, r1>>, <<r1, r2>>, <<r2, r3>>>>,
    sink |-> h7, rounds |-> 1, lossy |-> FALSE]}
===============================================================================
