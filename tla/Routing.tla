-------------------------------- MODULE Routing --------------------------------
(***************************************************************************)
(* query_dns of src/src/dijkstra.c: which server the name server gives a   *)
(* client when it does not rotate. It numbers the nodes of graph_list from *)
(* its head, runs Dijkstra's algorithm from number 0, one turn of its loop *)
(* per action, and takes the server of the nearest node.                   *)
(***************************************************************************)
EXTENDS LinkState, FiniteSets

CONSTANTS
  Servers,   (* the list of servers                                        *)
  Begins,    (* of each server, the words its own name begins with         *)
  Sources    (* addresses queries come from                                *)

INTMAX == 9  (* INT_MAX as the file defines it                             *)

ASSUME RoutingAssumption ==
  /\ Servers \in Seq(DOMAIN Begins)
  /\ \A q \in DOMAIN Servers : Begins[Servers[q]] \subseteq Seq(Atom)

VARIABLES
  src,      (* the address the query came from                             *)
  dist,     (* dist[i]                                                     *)
  settled,  (* the i with sptSet[i] = 1                                    *)
  turn,     (* count                                                       *)
  answer    (* ret: a place in Servers, 0 for NULL; or one of the next two *)

NoQuery == -2
Pending == -1

routingVars == <<src, dist, settled, turn, answer>>

Nodes == 0 .. Len(graph) - 1
NameOf(i) == graph[i + 1].name

(* exist_route: one hop if the announcement of i lists j, else INT_MAX.    *)
ExistRoute(i, j) ==
  IF i # j /\ \E k \in DOMAIN graph[i + 1].nbrs : NameOf(j) = <<graph[i + 1].nbrs[k]>>
  THEN 1 ELSE INTMAX

(* Mutant: min is not updated, so the last node not settled is returned.   *)
MinDistanceLast == CHOOSE v \in Nodes \ settled : \A w \in Nodes \ settled : w <= v

(* minDistance: among those not settled the last of the nearest.           *)
MinDistance ==
  CHOOSE v \in Nodes \ settled :
    \A w \in Nodes \ settled : dist[v] < dist[w] \/ (dist[v] = dist[w] /\ w <= v)

(* Mutant: the new distance is not compared with the old one.              *)
RelaxedAlways(u, v) == IF v \in settled THEN dist[v] ELSE dist[u] + ExistRoute(u, v)

Relaxed(u, v) ==
  IF /\ v \notin settled
     /\ dist[u] # INTMAX
     /\ dist[u] + ExistRoute(u, v) < dist[v]
  THEN dist[u] + ExistRoute(u, v)
  ELSE dist[v]

(* Mutant: one turn too few.                                               *)
TurnsOneLess == Len(graph) - 2

Turns == Len(graph) - 1

(* A query comes, to a process that has survived the last one: with NULL   *)
(* for an answer it does not, as handle_dns_request copies its name.       *)
Query(s) ==
  /\ answer \notin {Pending, 0}
  /\ src' = s
  /\ dist' = [i \in Nodes |-> IF i = 0 THEN 0 ELSE INTMAX]
  /\ settled' = {}
  /\ turn' = 0
  /\ answer' = Pending

Turn ==
  /\ answer = Pending
  /\ turn < Turns
  /\ turn' = turn + 1
  /\ LET u == MinDistance
     IN  /\ settled' = settled \cup {u}
         /\ dist' = [v \in Nodes |-> IF v = u THEN dist[v] ELSE Relaxed(u, v)]
  /\ UNCHANGED <<src, answer>>

(* A server is at a node whose name its own begins with.                   *)
At(q, i) == NameOf(i) \in Begins[Servers[q]]

(* Those that can be answered: nearer than INT_MAX.                        *)
Offers == {o \in Nodes \X DOMAIN Servers : At(o[2], o[1]) /\ dist[o[1]] < INTMAX}

(* The two loops keep the first strict minimum: nodes by number, servers   *)
(* by their place.                                                         *)
Before(o, p) ==
  \/ dist[o[1]] < dist[p[1]]
  \/ dist[o[1]] = dist[p[1]] /\ o[1] < p[1]
  \/ o[1] = p[1] /\ o[2] <= p[2]

Best == CHOOSE o \in Offers : \A p \in Offers : Before(o, p)

Choose ==
  /\ answer = Pending
  /\ turn >= Turns
  /\ answer' = IF Offers = {} THEN 0 ELSE Best[2]
  /\ UNCHANGED <<src, dist, settled, turn>>

RoutingInit ==
  /\ src = "none"
  /\ dist = <<>>
  /\ settled = {}
  /\ turn = 0
  /\ answer = NoQuery

RoutingNext == Turn \/ Choose \/ \E s \in Sources : Query(s)

-----------------------------------------------------------------------------
(* Properties *)

RoutingTypeOK ==
  /\ answer \in NoQuery .. Len(Servers)
  /\ answer # NoQuery =>
       /\ src \in Sources
       /\ dist \in [Nodes -> 0 .. INTMAX]
       /\ settled \subseteq Nodes
       /\ turn \in 0 .. Len(graph)

(* The nodes within 0 hops of node i, 1 hop, .. and INT_MAX - 1 hops; and  *)
(* the number of hops to each: as many of these sets as it is not in.      *)
Rings(i) ==
  LET within[k \in 0 .. INTMAX - 1] ==
        IF k = 0 THEN <<{i}>>
        ELSE LET w == within[k - 1]
             IN  Append(w, w[k] \cup {v \in Nodes : \E u \in w[k] : ExistRoute(u, v) = 1})
  IN  within[INTMAX - 1]

Hops(i) ==
  LET rings == Rings(i)
  IN  [v \in Nodes |-> Cardinality({k \in DOMAIN rings : v \notin rings[k]})]

(* The invariant of Dijkstra's algorithm: a settled node's distance is its *)
(* number of hops and no node's is less. Ties, unreachable nodes and the   *)
(* turn the loop leaves out (it settles all but one) do not spoil it.      *)
SettledAreExact ==
  answer # NoQuery =>
    LET hops == Hops(0) IN
    /\ \A v \in settled : dist[v] = hops[v]
    /\ \A v \in Nodes : dist[v] >= hops[v]

(* The answer depends on the graph alone, whoever asks and whatever was    *)
(* asked before: it is the first server at the first node, counted from    *)
(* the head, of those at the fewest hops from the head; NULL only if none  *)
(* is within eight.                                                        *)
NearestServer ==
  LET hops == Hops(0)
      seats == {o \in Nodes \X DOMAIN Servers : At(o[2], o[1]) /\ hops[o[1]] < INTMAX}
      Nearer(o, p) ==
        \/ hops[o[1]] < hops[p[1]]
        \/ hops[o[1]] = hops[p[1]] /\ o[1] < p[1]
        \/ o[1] = p[1] /\ o[2] <= p[2]
  IN  IF seats = {} THEN 0 ELSE (CHOOSE o \in seats : \A p \in seats : Nearer(o, p))[2]

AnswerIsNearest == answer >= 0 => answer = NearestServer

(* README:39-40: "base on the geo location(LSA), we choose the nearest     *)
(* server". The answer is nearest to the client that asks.                 *)
HopsTo(i, q) ==
  LET ways == {Hops(i)[v] : v \in {v \in Nodes : At(q, v)}} \cup {INTMAX}
  IN  CHOOSE k \in ways : \A m \in ways : k <= m

NearestToAsker ==
  \A i \in Nodes :
    NameOf(i) = <<src>> /\ answer > 0 =>
      \A q \in DOMAIN Servers : HopsTo(i, answer) <= HopsTo(i, q)
===============================================================================
