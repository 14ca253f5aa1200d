---------------------------- MODULE LinkStateProofs ----------------------------
(***************************************************************************)
(* Proofs about LinkState: for any files, in order or not, graph_list      *)
(* never holds a name twice, keeps its nodes' places and never lowers a    *)
(* number; for a file in order it is what each sender announced last.      *)
(***************************************************************************)
EXTENDS LinkState, TLAPS

(* Whatever part of a record it is, a word is a sequence of atoms, and     *)
(* atoi makes a number of it.                                              *)
LEMMA WordType ==
  ASSUME LinkStateTypeOK, NEW i \in Nat \ {0}
  PROVE  Word(i) \in Seq(Atom) /\ Number(Word(i)) \in Nat
<1>1. file \in Seq(Record) /\ Len(file) \in Nat
  BY LinkStateAssumption DEF LinkStateTypeOK
<1>2. Word(i) \in Seq(Atom)
  <2>1. CASE i > Words(file)
    BY <2>1 DEF Word
  <2>2. CASE ~(i > Words(file))
    <3> DEFINE r == file[(i + 2) \div 3]
    <3>1. (i + 2) \div 3 \in 1 .. Len(file)
      BY <1>1, <2>2 DEF Words
    <3>2. r \in Record
      BY <1>1, <3>1
    <3>3. r.from \in Atom /\ r.seq \in Atom /\ r.nbrs \in Seq(Atom)
      BY <3>2 DEF Record, Atom
    <3>4. Word(i) \in {<<r.from>>, <<r.seq>>, r.nbrs}
      BY <2>2 DEF Word
    <3> HIDE DEF r
    <3>5. <<r.from>> \in Seq(Atom) /\ <<r.seq>> \in Seq(Atom)
      BY <3>3
    <3> QED
      BY <3>3, <3>4, <3>5
  <2> QED
    BY <2>1, <2>2
<1>3. \A w \in Seq(Atom) : Number(w) \in Nat
  <2> SUFFICES ASSUME NEW w \in Seq(Atom) PROVE Number(w) \in Nat
    OBVIOUS
  <2>1. CASE w = <<>>
    BY <2>1 DEF Number
  <2>2. CASE w # <<>>
    <3>1. w[1] \in Name \cup Nat
      BY <2>2 DEF Atom
    <3> QED
      BY <2>2, <3>1, LinkStateAssumption DEF Number
  <2> QED
    BY <2>1, <2>2
<1> QED
  BY <1>2, <1>3

(* A turn of the loop hears a node of the list's type.                     *)
LEMMA HeardType ==
  ASSUME LinkStateTypeOK
  PROVE  Heard \in Node /\ Heard.seq = HeardSeq /\ Heard.name = HeardName
<1>1. at + 1 \in Nat \ {0} /\ at + 2 \in Nat \ {0} /\ at + 3 \in Nat \ {0}
  BY DEF LinkStateTypeOK
<1>2. HeardName \in Seq(Atom) /\ HeardSeq \in Nat /\ HeardNbrs \in Seq(Atom)
  BY <1>1, WordType DEF HeardName, HeardSeq, HeardNbrs
<1> QED
  BY <1>2 DEF Heard, Node

(* A step keeps the old nodes' places, counted from the end of the list,   *)
(* and names, and lowers no number; a new name goes to the head.           *)
LEMMA GraphStep ==
  ASSUME LinkStateTypeOK, NodesUnique, LinkStateNext
  PROVE  /\ LinkStateTypeOK' /\ NodesUnique'
         /\ \A k \in 1 .. Len(graph) :
              LET old == graph[Len(graph) + 1 - k]
                  new == graph'[Len(graph') + 1 - k]
              IN  new.name = old.name /\ new.seq >= old.seq
<1>1. /\ file \in Seq(Record) /\ at \in Nat /\ graph \in Seq(Node)
      /\ Len(graph) \in Nat /\ DOMAIN graph = 1 .. Len(graph)
  BY DEF LinkStateTypeOK
<1>2. Heard \in Node /\ Heard.seq = HeardSeq /\ Heard.name = HeardName
  BY HeardType
<1>3. \A i \in DOMAIN graph : graph[i].seq \in Nat
  <2>1. \A i \in DOMAIN graph : graph[i] \in Node
    BY <1>1
  <2> QED
    BY <2>1 DEF Node
<1>4. CASE AddNode
  <2> DEFINE h == Heard
  <2>1. h \in Node /\ h.name = HeardName
    BY <1>2
  <2>2. graph' = <<h>> \o graph /\ at' = at + 3 /\ file' = file /\ Known = {}
    BY <1>4 DEF AddNode
  <2> HIDE DEF h
  <2>3. /\ graph' \in Seq(Node) /\ Len(graph') = Len(graph) + 1
        /\ DOMAIN graph' = 1 .. Len(graph) + 1
        /\ graph'[1] = h
        /\ \A i \in 1 .. Len(graph) : graph'[i + 1] = graph[i]
    BY <1>1, <2>1, <2>2
  <2>4. \A i \in DOMAIN graph : graph[i].name # h.name
    BY <2>1, <2>2 DEF Known
  <2>5. NodesUnique'
    <3> SUFFICES ASSUME NEW i \in 1 .. Len(graph) + 1, NEW j \in 1 .. Len(graph) + 1,
                        graph'[i].name = graph'[j].name
                 PROVE  i = j
      BY <2>3 DEF NodesUnique
    <3>1. \A m \in 1 .. Len(graph) + 1 :
            m = 1 \/ (m - 1 \in DOMAIN graph /\ graph'[m] = graph[m - 1])
      <4> SUFFICES ASSUME NEW m \in 1 .. Len(graph) + 1, m # 1
                   PROVE  m - 1 \in DOMAIN graph /\ graph'[m] = graph[m - 1]
        OBVIOUS
      <4>1. m - 1 \in 1 .. Len(graph) /\ (m - 1) + 1 = m
        BY <1>1
      <4> QED
        BY <1>1, <2>3, <4>1
    <3>2. i = 1 \/ (i - 1 \in DOMAIN graph /\ graph'[i] = graph[i - 1])
      BY <3>1
    <3>3. j = 1 \/ (j - 1 \in DOMAIN graph /\ graph'[j] = graph[j - 1])
      BY <3>1
    <3>4. i # 1 /\ j # 1 => i - 1 = j - 1
      BY <3>2, <3>3 DEF NodesUnique
    <3>5. i = 1 /\ j # 1 => FALSE
      BY <2>3, <2>4, <3>3
    <3>6. j = 1 /\ i # 1 => FALSE
      BY <2>3, <2>4, <3>2
    <3>7. i \in Int /\ j \in Int
      BY <1>1
    <3> QED
      BY <3>4, <3>5, <3>6, <3>7
  <2>6. ASSUME NEW k \in 1 .. Len(graph)
        PROVE  graph'[Len(graph') + 1 - k] = graph[Len(graph) + 1 - k]
    <3>1. /\ Len(graph) + 1 - k \in 1 .. Len(graph)
          /\ Len(graph') + 1 - k = (Len(graph) + 1 - k) + 1
      BY <1>1, <2>3
    <3> QED
      BY <2>3, <3>1
  <2>7. \A k \in 1 .. Len(graph) : graph[Len(graph) + 1 - k].seq \in Nat
    BY <1>1, <1>3
  <2>8. LinkStateTypeOK'
    BY <1>1, <2>2, <2>3 DEF LinkStateTypeOK
  <2> QED
    BY <1>1, <2>5, <2>6, <2>7, <2>8
<1>5. CASE UpdateNode
  <2> DEFINE h == Heard
  <2>1. PICK i \in Known : ~Stale(i) /\ graph' = [graph EXCEPT ![i] = h]
    BY <1>5 DEF UpdateNode
  <2>2. at' = at + 3 /\ file' = file
    BY <1>5 DEF UpdateNode
  <2>3. i \in DOMAIN graph /\ h \in Node /\ h.name = graph[i].name /\ h.seq >= graph[i].seq
    <3>1. i \in DOMAIN graph /\ h.name = graph[i].name /\ h.seq = HeardSeq
      BY <1>2 DEF Known
    <3>2. h.seq \in Nat /\ graph[i].seq \in Nat
      BY <1>2, <1>3, <3>1 DEF Node
    <3> QED
      BY <1>2, <2>1, <3>1, <3>2 DEF Stale
  <2> HIDE DEF h
  <2>4. /\ graph' \in Seq(Node) /\ Len(graph') = Len(graph) /\ DOMAIN graph' = DOMAIN graph
        /\ \A j \in DOMAIN graph : graph'[j] = IF j = i THEN h ELSE graph[j]
    BY <1>1, <2>1, <2>3
  <2>5. \A j \in DOMAIN graph : graph'[j].name = graph[j].name /\ graph'[j].seq >= graph[j].seq
    BY <1>3, <2>3, <2>4
  <2>6. \A k \in 1 .. Len(graph) : Len(graph) + 1 - k \in DOMAIN graph
    BY <1>1
  <2>7. NodesUnique'
    BY <2>4, <2>5 DEF NodesUnique
  <2>8. LinkStateTypeOK'
    BY <1>1, <2>2, <2>4 DEF LinkStateTypeOK
  <2> QED
    BY <1>1, <2>4, <2>5, <2>6, <2>7, <2>8
<1>6. CASE SkipStale
  <2>1. at' = at + 2 /\ UNCHANGED <<file, graph>>
    BY <1>6 DEF SkipStale
  <2>2. \A k \in 1 .. Len(graph) : graph[Len(graph) + 1 - k].seq \in Nat
    BY <1>1, <1>3
  <2> QED
    BY <1>1, <2>1, <2>2 DEF LinkStateTypeOK, NodesUnique
<1> QED
  BY <1>4, <1>5, <1>6 DEF LinkStateNext

-----------------------------------------------------------------------------
LinkStateInv == LinkStateTypeOK /\ NodesUnique

(* The type and the uniqueness of names are inductive together.            *)
LEMMA LinkStateInvariant == LinkStateSpec => []LinkStateInv
<1>1. LinkStateInit => LinkStateInv
  BY LinkStateAssumption DEF LinkStateInit, LinkStateInv, LinkStateTypeOK, NodesUnique
<1>2. LinkStateInv /\ [LinkStateNext]_lsVars => LinkStateInv'
  <2>1. ASSUME LinkStateInv, UNCHANGED lsVars PROVE LinkStateInv'
    BY <2>1 DEF LinkStateInv, lsVars, LinkStateTypeOK, NodesUnique
  <2> QED
    BY <2>1, GraphStep DEF LinkStateInv
<1> QED
  BY <1>1, <1>2, PTL DEF LinkStateSpec

(* For any file, stale announcements and the words they set adrift         *)
(* included, graph_init leaves no name twice in the list.                  *)
THEOREM NoNameTwice == LinkStateSpec => []NodesUnique
<1>1. LinkStateInv => NodesUnique
  BY DEF LinkStateInv
<1> QED
  BY <1>1, LinkStateInvariant, PTL

(* For any file, no step lowers a node's number, renames it or moves it.   *)
THEOREM NumbersNeverFall == LinkStateSpec => SeqsNeverFall
<1> DEFINE Kept == \A k \in 1 .. Len(graph) :
                     LET old == graph[Len(graph) + 1 - k]
                         new == graph'[Len(graph') + 1 - k]
                     IN  new.name = old.name /\ new.seq >= old.seq
<1>1. LinkStateInv /\ [LinkStateNext]_lsVars => [Kept]_lsVars
  BY GraphStep DEF LinkStateInv
<1> QED
  BY <1>1, LinkStateInvariant, PTL DEF LinkStateSpec, SeqsNeverFall

-----------------------------------------------------------------------------
(* What a record makes of a node.                                          *)
Told(i) == [name |-> <<file[i].from>>, seq |-> file[i].seq, nbrs |-> file[i].nbrs]

(* Of a file in order: the reader is at the beginning of a record, every   *)
(* sender heard has a record heard last, and the graph is made of those.   *)
InStep ==
  InOrder(file) =>
    /\ \E k \in 0 .. Len(file) : at = 3 * k
    /\ \A i \in ReadRecords : \E j \in Latest : file[j].from = file[i].from
    /\ {graph[i] : i \in DOMAIN graph} = {Told(i) : i \in Latest}

(* At the beginning of a record, a turn of the loop hears that record.     *)
LEMMA HearsRecord ==
  ASSUME LinkStateTypeOK, NEW k \in Nat, k < Len(file), at = 3 * k
  PROVE  Heard = Told(k + 1) /\ HeardName = <<file[k + 1].from>> /\ HeardSeq = file[k + 1].seq
<1> DEFINE r == file[k + 1]
<1>1. file \in Seq(Record) /\ Len(file) \in Nat
  BY DEF LinkStateTypeOK
<1>2. r \in Record
  BY <1>1
<1>3. r.from \in Name /\ r.seq \in Nat
  BY <1>2 DEF Record
<1>4. /\ (at + 1 + 2) \div 3 = k + 1 /\ (at + 1) % 3 = 1
      /\ (at + 2 + 2) \div 3 = k + 1 /\ (at + 2) % 3 = 2
      /\ (at + 3 + 2) \div 3 = k + 1 /\ (at + 3) % 3 = 0
  BY SMTT(30)
<1>5. ~(at + 1 > Words(file)) /\ ~(at + 2 > Words(file)) /\ ~(at + 3 > Words(file))
  BY <1>1 DEF Words
<1>6. Word(at + 1) = <<r.from>> /\ Word(at + 2) = <<r.seq>> /\ Word(at + 3) = r.nbrs
  BY <1>4, <1>5 DEF Word
<1>7. Number(<<r.seq>>) = r.seq
  BY <1>3, LinkStateAssumption DEF Number
<1> QED
  BY <1>6, <1>7 DEF Heard, HeardName, HeardSeq, HeardNbrs, Told

(* Which records are the latest once one more has been read.               *)
LEMMA LatestStep ==
  ASSUME LinkStateTypeOK, NEW k \in Nat, k < Len(file), at = 3 * k,
         at' = at + 3, file' = file
  PROVE  /\ ReadRecords = 1 .. k /\ ReadRecords' = 1 .. k + 1
         /\ Latest' = {j \in Latest : file[j].from # file[k + 1].from} \cup {k + 1}
<1>1. file \in Seq(Record) /\ Len(file) \in Nat /\ DOMAIN file = 1 .. Len(file)
  BY DEF LinkStateTypeOK
<1>2. ReadRecords = 1 .. k
  <2>1. \A i \in 1 .. Len(file) : 3 * i <= 3 * k <=> i <= k
    OBVIOUS
  <2> QED
    BY <1>1, <2>1 DEF ReadRecords
<1>3. ReadRecords' = 1 .. k + 1
  <2>1. \A i \in 1 .. Len(file) : 3 * i <= 3 * k + 3 <=> i <= k + 1
    OBVIOUS
  <2>2. ReadRecords' = {i \in 1 .. Len(file) : 3 * i <= 3 * k + 3}
    BY <1>1 DEF ReadRecords
  <2> QED
    BY <1>1, <2>1, <2>2
<1>4. Latest = {i \in 1 .. k : \A j \in 1 .. k : file[j].from = file[i].from => j <= i}
  BY <1>2 DEF Latest
<1>5. Latest' = {i \in 1 .. k + 1 : \A j \in 1 .. k + 1 : file[j].from = file[i].from => j <= i}
  BY <1>3 DEF Latest
<1>6. 1 .. k + 1 = 1 .. k \cup {k + 1} /\ k + 1 \notin 1 .. k
  OBVIOUS
<1>7. \A i \in 1 .. k : ~(k + 1 <= i)
  OBVIOUS
<1>8. \A j \in 1 .. k + 1 : j <= k + 1
  OBVIOUS
<1> QED
  BY <1>2, <1>3, <1>4, <1>5, <1>6, <1>7, <1>8

(* A turn of the loop keeps the reader in step with a file in order.       *)
LEMMA ReadStep ==
  ASSUME LinkStateTypeOK, NodesUnique, InStep, LinkStateNext
  PROVE  InStep'
<1>1. file' = file
  BY DEF LinkStateNext, AddNode, UpdateNode, SkipStale
<1> SUFFICES ASSUME InOrder(file)
             PROVE  /\ \E k \in 0 .. Len(file) : at' = 3 * k
                    /\ \A i \in ReadRecords' : \E j \in Latest' : file[j].from = file[i].from
                    /\ {graph'[i] : i \in DOMAIN graph'} = {Told(i) : i \in Latest'}
  BY <1>1 DEF InStep, InOrder, Told
<1>2. /\ file \in Seq(Record) /\ Len(file) \in Nat /\ DOMAIN file = 1 .. Len(file)
      /\ graph \in Seq(Node) /\ Len(graph) \in Nat /\ DOMAIN graph = 1 .. Len(graph)
  BY DEF LinkStateTypeOK
<1>3. PICK k \in 0 .. Len(file) : at = 3 * k
  BY DEF InStep
<1>4. k \in Nat /\ k < Len(file)
  BY <1>2, <1>3 DEF LinkStateNext, AddNode, UpdateNode, SkipStale, Words
<1> DEFINE r == file[k + 1]
           Old == {j \in Latest : file[j].from # r.from}
<1>5. Heard = Told(k + 1) /\ HeardName = <<r.from>> /\ HeardSeq = r.seq
  BY <1>3, <1>4, HearsRecord
<1>6. {graph[i] : i \in DOMAIN graph} = {Told(i) : i \in Latest}
  BY DEF InStep
<1>7. \A i \in ReadRecords : \E j \in Latest : file[j].from = file[i].from
  BY DEF InStep
<1>8. ReadRecords = 1 .. k /\ Latest \subseteq 1 .. k
  <2>1. \A i \in 1 .. Len(file) : 3 * i <= 3 * k <=> i <= k
    BY <1>4
  <2>2. ReadRecords = 1 .. k
    BY <1>2, <1>3, <1>4, <2>1 DEF ReadRecords
  <2> QED
    BY <2>2 DEF Latest
<1>9. \A i \in Known : \E j \in Latest :
        graph[i] = Told(j) /\ file[j].from = r.from /\ graph[i].seq = file[j].seq
  <2> SUFFICES ASSUME NEW i \in Known
               PROVE  \E j \in Latest :
                        graph[i] = Told(j) /\ file[j].from = r.from /\ graph[i].seq = file[j].seq
    OBVIOUS
  <2>1. i \in DOMAIN graph /\ graph[i].name = <<r.from>>
    BY <1>5 DEF Known
  <2>2. PICK j \in Latest : graph[i] = Told(j)
    BY <1>6, <2>1
  <2>3. graph[i].name = <<file[j].from>> /\ graph[i].seq = file[j].seq
    BY <2>2 DEF Told
  <2>4. <<file[j].from>> = <<r.from>>
    BY <2>1, <2>3
  <2>5. file[j].from = r.from
    BY <2>4
  <2> QED
    BY <2>2, <2>3, <2>5
<1>10. ~SkipStale
  <2> SUFFICES ASSUME NEW i \in Known, Stale(i) PROVE FALSE
    BY DEF SkipStale
  <2>1. PICK j \in Latest : file[j].from = r.from /\ graph[i].seq = file[j].seq
    BY <1>9
  <2>2. j \in DOMAIN file /\ k + 1 \in DOMAIN file /\ j < k + 1
    BY <1>2, <1>4, <1>8, <2>1
  <2>3. file[j] \in Record /\ file[k + 1] \in Record
    BY <1>2, <2>2
  <2>4. file[j].seq \in Nat /\ r.seq \in Nat
    BY <2>3 DEF Record
  <2>5. file[j].seq <= r.seq
    BY <2>1, <2>2 DEF InOrder
  <2> QED
    BY <1>5, <2>1, <2>4, <2>5 DEF Stale
<1>11. at' = at + 3
  BY <1>10 DEF LinkStateNext, AddNode, UpdateNode
<1>12. ReadRecords' = 1 .. k + 1 /\ Latest' = Old \cup {k + 1}
  BY <1>1, <1>3, <1>4, <1>11, LatestStep
<1>13. \E m \in 0 .. Len(file) : at' = 3 * m
  <2>1. k + 1 \in 0 .. Len(file) /\ at' = 3 * (k + 1)
    BY <1>2, <1>3, <1>4, <1>11
  <2> QED
    BY <2>1
<1>14. \A i \in ReadRecords' : \E j \in Latest' : file[j].from = file[i].from
  <2> SUFFICES ASSUME NEW i \in 1 .. k + 1
               PROVE  \E j \in Latest' : file[j].from = file[i].from
    BY <1>12
  <2>1. CASE file[i].from = r.from
    BY <1>12, <2>1
  <2>2. CASE file[i].from # r.from
    <3>1. i \in 1 .. k
      BY <1>4, <2>2
    <3>2. PICK j \in Latest : file[j].from = file[i].from
      BY <1>7, <1>8, <3>1
    <3> QED
      BY <1>12, <2>2, <3>2
  <2> QED
    BY <2>1, <2>2
<1>15. {graph'[i] : i \in DOMAIN graph'} =
         {graph[i] : i \in DOMAIN graph \ Known} \cup {Heard}
  <2>1. CASE AddNode
    <3> DEFINE h == Heard
    <3>1. graph' = <<h>> \o graph /\ Known = {} /\ h \in Node
      BY <2>1, HeardType DEF AddNode
    <3> HIDE DEF h
    <3>2. /\ DOMAIN graph' = 1 .. Len(graph) + 1 /\ graph'[1] = h
          /\ \A i \in 1 .. Len(graph) : graph'[i + 1] = graph[i]
      BY <1>2, <3>1
    <3>3. \A m \in 1 .. Len(graph) + 1 :
            m = 1 \/ (m - 1 \in 1 .. Len(graph) /\ m = (m - 1) + 1)
      BY <1>2
    <3>4. \A m \in 1 .. Len(graph) : m + 1 \in 1 .. Len(graph) + 1
      BY <1>2
    <3>5. 1 \in 1 .. Len(graph) + 1
      BY <1>2
    <3>6. {graph'[i] : i \in DOMAIN graph'} = {graph[i] : i \in DOMAIN graph} \cup {h}
      <4>1. ASSUME NEW m \in DOMAIN graph'
            PROVE  graph'[m] \in {graph[i] : i \in DOMAIN graph} \cup {h}
        <5>1. m = 1 \/ (m - 1 \in DOMAIN graph /\ graph'[m] = graph[m - 1])
          BY <1>2, <3>2, <3>3
        <5> QED
          BY <3>2, <5>1
      <4>2. ASSUME NEW i \in DOMAIN graph
            PROVE  graph[i] \in {graph'[m] : m \in DOMAIN graph'}
        <5>1. i + 1 \in DOMAIN graph' /\ graph'[i + 1] = graph[i]
          BY <1>2, <3>2, <3>4
        <5> QED
          BY <5>1
      <4>3. h \in {graph'[m] : m \in DOMAIN graph'}
        BY <3>2, <3>5
      <4> QED
        BY <4>1, <4>2, <4>3
    <3> QED
      BY <3>1, <3>6 DEF h
  <2>2. CASE UpdateNode
    <3> DEFINE h == Heard
    <3>1. PICK i \in Known : graph' = [graph EXCEPT ![i] = h]
      BY <2>2 DEF UpdateNode
    <3>2. i \in DOMAIN graph /\ Known = {i}
      BY <3>1 DEF Known, NodesUnique
    <3> HIDE DEF h
    <3>3. /\ DOMAIN graph' = DOMAIN graph
          /\ \A j \in DOMAIN graph : graph'[j] = IF j = i THEN h ELSE graph[j]
      BY <1>2, <3>1
    <3>4. {graph'[j] : j \in DOMAIN graph'} = {graph[j] : j \in DOMAIN graph \ {i}} \cup {h}
      BY <3>2, <3>3
    <3> QED
      BY <3>2, <3>4 DEF h
  <2> QED
    BY <1>10, <2>1, <2>2 DEF LinkStateNext
<1>16. {graph[i] : i \in DOMAIN graph \ Known} = {Told(j) : j \in Old}
  <2>1. ASSUME NEW i \in DOMAIN graph \ Known
        PROVE  graph[i] \in {Told(j) : j \in Old}
    <3>1. PICK j \in Latest : graph[i] = Told(j)
      BY <1>6, <2>1
    <3>2. graph[i].name # <<r.from>>
      BY <1>5, <2>1 DEF Known
    <3>3. graph[i].name = <<file[j].from>>
      BY <3>1 DEF Told
    <3>4. file[j].from # r.from
      BY <3>2, <3>3
    <3> QED
      BY <3>1, <3>4
  <2>2. ASSUME NEW j \in Old
        PROVE  Told(j) \in {graph[i] : i \in DOMAIN graph \ Known}
    <3>1. PICK i \in DOMAIN graph : graph[i] = Told(j)
      BY <1>6, <2>2
    <3>2. i \notin Known
      <4>1. graph[i].name = <<file[j].from>>
        BY <3>1 DEF Told
      <4>2. <<file[j].from>> # <<r.from>>
        BY <2>2
      <4> QED
        BY <1>5, <4>1, <4>2 DEF Known
    <3> QED
      BY <3>1, <3>2
  <2> QED
    BY <2>1, <2>2
<1>17. {graph'[i] : i \in DOMAIN graph'} = {Told(i) : i \in Latest'}
  BY <1>5, <1>12, <1>15, <1>16
<1> QED
  BY <1>13, <1>14, <1>17

(* For any file in which no sender's numbers fall, the list is at every    *)
(* turn what each sender heard so far has announced last, no more and no   *)
(* less.                                                                   *)
THEOREM LatestHeard == LinkStateSpec => []GraphIsLatest
<1>1. LinkStateInit /\ LinkStateInv => InStep
  <2> SUFFICES ASSUME LinkStateInit, LinkStateInv PROVE InStep
    OBVIOUS
  <2>1. file \in Seq(Record) /\ Len(file) \in Nat /\ at = 0 /\ graph = <<>>
    BY DEF LinkStateInit, LinkStateInv, LinkStateTypeOK
  <2>2. ReadRecords = {} /\ Latest = {}
    BY <2>1 DEF ReadRecords, Latest
  <2>3. 0 \in 0 .. Len(file) /\ at = 3 * 0
    BY <2>1
  <2>4. DOMAIN graph = {}
    BY <2>1
  <2> QED
    BY <2>2, <2>3, <2>4 DEF InStep
<1>2. LinkStateInv /\ InStep /\ [LinkStateNext]_lsVars => InStep'
  <2>1. ASSUME InStep, UNCHANGED lsVars PROVE InStep'
    BY <2>1 DEF InStep, InOrder, lsVars, ReadRecords, Latest, Told
  <2> QED
    BY <2>1, ReadStep DEF LinkStateInv
<1>3. InStep => GraphIsLatest
  BY DEF InStep, GraphIsLatest, Told
<1> QED
  BY <1>1, <1>2, <1>3, LinkStateInvariant, PTL DEF LinkStateSpec
===============================================================================
