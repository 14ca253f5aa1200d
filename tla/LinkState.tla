------------------------------- MODULE LinkState -------------------------------
(***************************************************************************)
(* graph_init of src/src/dijkstra.c: the name server reads the file of     *)
(* link state announcements, word by word, into the list graph_list.       *)
(*                                                                         *)
(* A file is a sequence of records, <sender> <seqnum> <neighbors (CSV)>.   *)
(* A word is a sequence of atoms, its parts between commas.                *)
(***************************************************************************)
EXTENDS Integers, Sequences

CONSTANTS
  Name,     (* names of nodes                                              *)
  Leading,  (* what atoi makes of a name: 3 for 3.0.0.1, 0 for router1     *)
  Files     (* the files it may be given                                   *)

Record == [from : Name, seq : Nat, nbrs : Seq(Name) \ {<<>>}]

ASSUME LinkStateAssumption ==
  /\ Leading \in [Name -> Nat]
  /\ Name \cap Nat = {}
  /\ Files \subseteq Seq(Record)

VARIABLES
  file,   (* the file being read                                           *)
  at,     (* how many of its words have been read                          *)
  graph   (* graph_list, from its head: the name last heard first is first *)

lsVars == <<file, at, graph>>

Atom == Name \cup Nat
Node == [name : Seq(Atom), seq : Nat, nbrs : Seq(Atom)]

Words(f) == 3 * Len(f)

(* The i-th word; past the end fscanf stores nothing and line stays empty. *)
Word(i) ==
  IF i > Words(file) THEN <<>>
  ELSE LET r == file[(i + 2) \div 3]
       IN  CASE i % 3 = 1 -> <<r.from>>
             [] i % 3 = 2 -> <<r.seq>>
             [] OTHER     -> r.nbrs

(* atoi *)
Number(word) ==
  IF word = <<>> THEN 0
  ELSE IF word[1] \in Name THEN Leading[word[1]] ELSE word[1]

(* One turn of the loop reads a name and a number, and then either goes on *)
(* to the next turn or reads the neighbors.                                *)
HeardName == Word(at + 1)

HeardSeq == Number(Word(at + 2))
HeardNbrs == Word(at + 3)
Heard == [name |-> HeardName, seq |-> HeardSeq, nbrs |-> HeardNbrs]

(* Mutant: only the head of the list is compared with the name.            *)
KnownAtHead == {i \in DOMAIN graph : i = 1 /\ graph[i].name = HeardName}

Known == {i \in DOMAIN graph : graph[i].name = HeardName}

(* Mutants: an announcement heard again counts as stale, or none does.     *)
StaleOrEqual(i) == HeardSeq <= graph[i].seq
StaleNever(i) == FALSE

Stale(i) == HeardSeq < graph[i].seq

AddNode ==
  /\ at < Words(file)
  /\ Known = {}
  /\ graph' = <<Heard>> \o graph
  /\ at' = at + 3
  /\ UNCHANGED file

(* The node found takes the number and the neighbors heard.                *)
UpdateNode ==
  /\ at < Words(file)
  /\ \E i \in Known :
       /\ ~Stale(i)
       /\ graph' = [graph EXCEPT ![i] = Heard]
  /\ at' = at + 3
  /\ UNCHANGED file

(* A lower number than the one known: continue, without reading the        *)
(* neighbors, which the next turn takes for a name.                        *)
SkipStale ==
  /\ at < Words(file)
  /\ \E i \in Known : Stale(i)
  /\ at' = at + 2
  /\ UNCHANGED <<file, graph>>

LinkStateInit ==
  /\ file \in Files
  /\ at = 0
  /\ graph = <<>>

LinkStateNext == AddNode \/ UpdateNode \/ SkipStale

LinkStateSpec == LinkStateInit /\ [][LinkStateNext]_lsVars

-----------------------------------------------------------------------------
(* Properties *)

LinkStateTypeOK ==
  /\ file \in Seq(Record)
  /\ at \in Nat
  /\ graph \in Seq(Node)

(* However the words are misread, no two nodes have one name, so           *)
(* exist_route and query_dns find the node they look for.                  *)
NodesUnique ==
  \A i, j \in DOMAIN graph : graph[i].name = graph[j].name => i = j

(* A node's number never falls and its place from the end of the list does *)
(* not change: what is last in the list is what was heard of first.        *)
SeqsNeverFall ==
  [][\A k \in 1 .. Len(graph) :
       LET old == graph[Len(graph) + 1 - k]
           new == graph'[Len(graph') + 1 - k]
       IN  new.name = old.name /\ new.seq >= old.seq]_lsVars

(* Every sender's numbers never fall: what genlsa.py writes for one sink.  *)
InOrder(f) ==
  \A i, j \in DOMAIN f : i < j /\ f[i].from = f[j].from => f[i].seq <= f[j].seq

(* The records read so far that no later one of the same sender follows.   *)
ReadRecords == {i \in DOMAIN file : 3 * i <= at}
Latest == {i \in ReadRecords : \A j \in ReadRecords : file[j].from = file[i].from => j <= i}

(* Read in order, the graph is what each sender announced last.            *)
GraphIsLatest ==
  InOrder(file) =>
    {graph[i] : i \in DOMAIN graph} =
      {[name |-> <<file[i].from>>, seq |-> file[i].seq, nbrs |-> file[i].nbrs] : i \in Latest}
===============================================================================
