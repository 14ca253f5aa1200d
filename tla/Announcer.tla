------------------------------ MODULE Announcer ------------------------------
(***************************************************************************)
(* src/lsa/genlsa.py: the script that writes the file of link state        *)
(* announcements graph_init reads, as one node, the sink, may hear them.   *)
(* In every round it walks the network breadth first from the sink and     *)
(* writes one announcement per node it comes by, unless it is lost. The    *)
(* number of the round is the announcements' sequence number.              *)
(***************************************************************************)
EXTENDS LinkState, FiniteSets

CONSTANT Networks  (* what it may be called with                           *)

(* The lines of the link file, the node that listens, the number of        *)
(* rounds, and whether the loss rate is above 0.                           *)
Network == [links : Seq(Name \X Name), sink : Name, rounds : Nat, lossy : BOOLEAN]

(* A link file names a link once, no node is linked to itself, and the     *)
(* sink is on a link.                                                      *)
ASSUME AnnouncerAssumption ==
  /\ Networks \subseteq Network
  /\ \A n \in Networks :
       /\ \E l \in DOMAIN n.links : n.sink \in {n.links[l][1], n.links[l][2]}
       /\ \A k, l \in DOMAIN n.links :
            {n.links[k][1], n.links[k][2]} = {n.links[l][1], n.links[l][2]} => k = l
       /\ \A l \in DOMAIN n.links : n.links[l][1] # n.links[l][2]

VARIABLES
  net,      (* the network it is called with                               *)
  round,    (* rounds begun                                                *)
  visited,  (* nodes the walk has come by                                  *)
  toVisit   (* nodes it has still to come by, in order                     *)

walkVars == <<net, round, visited, toVisit>>
announcerVars == <<walkVars, lsVars>>

(* The elements of s at the places of P, in order: SelectSeq with a set of *)
(* places for its test, as a function that can be reasoned about.          *)
Picked(s, P) ==
  LET upto[i \in 0 .. Len(s)] ==
        IF i = 0 THEN <<>>
        ELSE IF i \in P THEN Append(upto[i - 1], s[i]) ELSE upto[i - 1]
  IN  upto[Len(s)]

Ends(l) == {net.links[l][1], net.links[l][2]}

(* read_links: a node's neighbors, in the order of the link file.          *)
Neighbors(n) ==
  LET mine == Picked(net.links, {l \in DOMAIN net.links : n \in Ends(l)})
  IN  [i \in DOMAIN mine |-> IF mine[i][1] = n THEN mine[i][2] ELSE mine[i][1]]

StartRound ==
  /\ round < net.rounds
  /\ toVisit = <<>>
  /\ round' = round + 1
  /\ visited' = {net.sink}
  /\ toVisit' = Neighbors(net.sink)
  /\ UNCHANGED <<net, lsVars>>

(* Mutant: neighbors that already wait are added again.                    *)
FoundWaiting(n) ==
  LET all == Neighbors(n)
  IN  Picked(all, {i \in DOMAIN all : all[i] \notin visited \cup {n}})

(* The neighbors the walk finds at n: neither visited nor waiting.         *)
Waiting == {toVisit[i] : i \in 2 .. Len(toVisit)}

Found(n) ==
  LET all == Neighbors(n)
  IN  Picked(all, {i \in DOMAIN all : all[i] \notin visited \cup {n} \cup Waiting})

(* Mutant: rounds are numbered backwards.                                  *)
SeqBackwards == net.rounds - round

SeqNumber == round - 1

(* The next node is come by and announced, or its announcement is lost (at *)
(* a loss rate of 0 too, once in 2^53: left out).                          *)
Visit ==
  /\ toVisit # <<>>
  /\ LET n == Head(toVisit) IN
       /\ visited' = visited \cup {n}
       /\ toVisit' = Tail(toVisit) \o Found(n)
       /\ \/ file' = Append(file, [from |-> n, seq |-> SeqNumber, nbrs |-> Neighbors(n)])
          \/ net.lossy /\ UNCHANGED file
  /\ UNCHANGED <<net, round, at, graph>>

(* The file is complete; only then the name server is started on it.       *)
Written == round = net.rounds /\ toVisit = <<>>

AnnouncerInit ==
  /\ round = 0
  /\ visited = {}
  /\ toVisit = <<>>

AnnouncerNext == StartRound \/ Visit

-----------------------------------------------------------------------------
(* Properties *)

AnnouncerTypeOK ==
  /\ net \in Network
  /\ round \in 0 .. net.rounds
  /\ visited \subseteq Name
  /\ toVisit \in Seq(Name)

Generated == net.rounds > 0

(* The nodes within 0 links of n, 1 link, .. and all links; and the number *)
(* of links to each: as many of these sets as it is not in.                *)
Touching(c) == {l \in DOMAIN net.links : Ends(l) \cap c # {}}

Circles(n) ==
  LET within[k \in 0 .. Len(net.links)] ==
        IF k = 0 THEN <<{n}>>
        ELSE LET w == within[k - 1]
             IN  Append(w, w[k] \cup UNION {Ends(l) : l \in Touching(w[k])})
  IN  within[Len(net.links)]

LinksFrom(n) ==
  LET circles == Circles(n)
  IN  [m \in Name |-> Cardinality({k \in DOMAIN circles : m \notin circles[k]})]

(* The nodes a walk from the sink comes by.                                 *)
Connected == Circles(net.sink)[Len(net.links) + 1] \ {net.sink}

(* Every node but the sink is announced at most once in a round, nearer    *)
(* ones first, and every one it can reach when nothing is lost: so every   *)
(* sender's numbers rise, and the file is one the reader never leaves the  *)
(* step of.                                                                *)
AnnouncesEachOnce ==
  Generated =>
    LET away == LinksFrom(net.sink) IN
    /\ \A i, j \in DOMAIN file :
         file[i].seq = file[j].seq /\ i < j =>
           file[i].from # file[j].from /\ away[file[i].from] <= away[file[j].from]
    /\ Written /\ ~net.lossy =>
         {<<file[i].from, file[i].seq>> : i \in DOMAIN file} =
           Connected \X (0 .. net.rounds - 1)
=============================================================================
