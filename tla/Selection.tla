------------------------------- MODULE Selection -------------------------------
(***************************************************************************)
(* How the name server comes by the server it gives when it does not       *)
(* rotate: a file of announcements, written by hand or by lsa/genlsa.py,   *)
(* is read by graph_init when the server starts, and query_dns searches    *)
(* what came of it for every query.                                        *)
(***************************************************************************)
EXTENDS Announcer, Routing

(* A network has a node at least.                                          *)
ASSUME SelectionAssumption == Name # {}

selectionVars == <<announcerVars, routingVars>>

(* A file that was not written by the script.                              *)
ByHand == [links |-> <<>>, sink |-> CHOOSE n \in Name : TRUE, rounds |-> 0, lossy |-> FALSE]

(* graph_init has read the whole file.                                     *)
Started == Written /\ at >= Words(file)

SelectionInit ==
  /\ \/ net \in Networks /\ file = <<>>
     \/ net = ByHand /\ file \in Files
  /\ at = 0
  /\ graph = <<>>
  /\ AnnouncerInit
  /\ RoutingInit

Announce == AnnouncerNext /\ UNCHANGED routingVars
Read == Written /\ LinkStateNext /\ UNCHANGED <<walkVars, routingVars>>
Serve == Started /\ RoutingNext /\ UNCHANGED announcerVars

SelectionNext == Announce \/ Read \/ Serve

SelectionSpec == SelectionInit /\ [][SelectionNext]_selectionVars

-----------------------------------------------------------------------------
(* Properties *)

SelectionTypeOK == LinkStateTypeOK /\ AnnouncerTypeOK /\ RoutingTypeOK

(* The script's file leaves the reader in step, whatever is lost: every    *)
(* node of the list has the neighbors the network gives it, and when       *)
(* nothing is lost every node but the sink is there.                       *)
Announced == {graph[i].name : i \in DOMAIN graph}

GraphMatchesNetwork ==
  Generated =>
    /\ \A i \in DOMAIN graph :
         \E n \in Connected : graph[i].name = <<n>> /\ graph[i].nbrs = Neighbors(n)
    /\ Started /\ ~net.lossy => Announced = {<<n>> : n \in Connected}

(* The sink announces nothing itself, so the paths through it are not in   *)
(* the graph. Where it is on one link only, the answer is a server nearest *)
(* in the network itself to the node heard of last; NULL if there is none  *)
(* or it is nine links away.                                               *)
NearestInNetwork ==
  /\ Generated
  /\ Len(Neighbors(net.sink)) = 1
  /\ Announced = {<<n>> : n \in Connected}
  /\ answer >= 0
  => LET away == LinksFrom(graph[1].name[1])
         Seats(q) == {n \in Connected : <<n>> \in Begins[Servers[q]]}
         all == UNION {Seats(q) : q \in DOMAIN Servers}
     IN  IF answer = 0 THEN \A n \in all : away[n] >= INTMAX
         ELSE \E n \in Seats(answer) : \A m \in all : away[n] <= away[m]
===============================================================================
