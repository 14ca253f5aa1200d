----------------------------- MODULE SelectionProofs -----------------------------
(***************************************************************************)
(* Proofs about Selection: for any network, any file of announcements, in  *)
(* order or not, any servers and any sources, query after query. What      *)
(* module LinkStateProofs shows of the reader holds where the file is      *)
(* still being written; the search query_dns makes of the graph gives      *)
(* exact distances and the nearest server; the walk genlsa.py makes of the *)
(* network is breadth first and complete; and so the server answered is    *)
(* the nearest in the network the announcements tell of.                   *)
(***************************************************************************)
EXTENDS Selection, LinkStateProofs, FiniteSetTheorems, WellFoundedInduction

(* Lemmas about numbers and functions *)

LEMMA LeastExists ==
  ASSUME NEW F \in SUBSET Nat, F # {}
  PROVE  \E f \in F : \A g \in F : f <= g
<1>1. \E f \in F : \A g \in F : <<g, f>> \notin OpToRel(<, Nat)
  BY NatLessThanWellFounded, WFMin
<1>2. \A f, g \in Nat : g < f => <<g, f>> \in OpToRel(<, Nat)
  BY Zenon DEF OpToRel
<1>3. \E f \in F : \A g \in F : ~(g < f)
  BY <1>1, <1>2, Zenon
<1> QED
  BY <1>3

LEMMA GreatestExists ==
  ASSUME NEW n \in Nat, NEW F \in SUBSET (0 .. n), F # {}
  PROVE  \E f \in F : \A g \in F : g <= f
<1> DEFINE G == {n - f : f \in F}
<1>1. G \in SUBSET Nat /\ G # {}
  <2>1. \A f \in F : n - f \in Nat
    OBVIOUS
  <2> QED
    BY <2>1
<1> HIDE DEF G
<1>2. PICK m \in G : \A g \in G : m <= g
  BY <1>1, LeastExists
<1>3. PICK f \in F : m = n - f
  BY <1>2 DEF G
<1>4. \A g \in F : n - g \in G
  BY DEF G
<1>5. \A g \in F : n - f <= n - g
  BY <1>2, <1>3, <1>4
<1>6. \A g \in F : g \in Nat /\ f \in Nat
  OBVIOUS
<1> QED
  BY <1>5, <1>6

(* What holds at 0 and, when it holds at a number, at the next, holds at   *)
(* all of a stretch; here the numbers where it holds are a set.            *)
LEMMA StretchInduction ==
  ASSUME NEW N \in Nat, NEW G, 0 \in G,
         \A k \in 1 .. N : k - 1 \in G => k \in G
  PROVE  \A k \in 0 .. N : k \in G
<1> DEFINE F == (0 .. N) \ G
<1> SUFFICES ASSUME F # {} PROVE FALSE
  OBVIOUS
<1>1. F \in SUBSET Nat
  OBVIOUS
<1>2. PICK f \in F : \A g \in F : f <= g
  BY <1>1, LeastExists
<1>3. f \in 1 .. N /\ f - 1 \in 0 .. N /\ ~(f <= f - 1)
  BY <1>2
<1>4. f - 1 \in G
  BY <1>2, <1>3
<1> QED
  BY <1>2, <1>3, <1>4

(* A function on 0 .. N is defined by its value at 0 and how each of the   *)
(* others follows from the one before: step[k] leads from the values it    *)
(* may have at k - 1, kind[k - 1], to those at k.                          *)
StepsFit(N, kind, first, step) ==
  /\ N \in Nat
  /\ first \in kind[0]
  /\ \A k \in 1 .. N : step[k] \in [kind[k - 1] -> kind[k]]

HasSteps(f, N, kind, first, step) ==
  /\ f = [k \in 0 .. N |-> f[k]]
  /\ f[0] = first
  /\ \A k \in 1 .. N : f[k] = step[k][f[k - 1]]
  /\ \A k \in 0 .. N : f[k] \in kind[k]

LEMMA StepwiseExists ==
  ASSUME NEW N, NEW kind, NEW first, NEW step, StepsFit(N, kind, first, step)
  PROVE  \E f : HasSteps(f, N, kind, first, step)
<1> USE DEF StepsFit, HasSteps
<1> DEFINE Upto(f, n) ==
             /\ f = [k \in 0 .. n |-> f[k]]
             /\ f[0] = first
             /\ \A k \in 1 .. n : f[k] = step[k][f[k - 1]]
             /\ \A k \in 0 .. n : f[k] \in kind[k]
           G == {n \in 0 .. N : \E f : Upto(f, n)}
<1>1. 0 \in G
  <2> DEFINE f == [k \in 0 .. 0 |-> first]
  <2>1. Upto(f, 0)
    OBVIOUS
  <2> HIDE DEF f
  <2>2. 0 \in 0 .. N
    OBVIOUS
  <2> QED
    BY <2>1, <2>2
<1>2. ASSUME NEW n \in 1 .. N, n - 1 \in G
      PROVE  n \in G
  <2>1. PICK f : Upto(f, n - 1)
    BY <1>2
  <2> DEFINE g == [k \in 0 .. n |-> IF k = n THEN step[n][f[n - 1]] ELSE f[k]]
  <2>2. \A k \in 0 .. n - 1 : g[k] = f[k]
    OBVIOUS
  <2>3. g[n] = step[n][g[n - 1]] /\ g[n] \in kind[n]
    <3>1. f[n - 1] \in kind[n - 1] /\ step[n] \in [kind[n - 1] -> kind[n]]
      BY <2>1
    <3>2. n - 1 \in 0 .. n - 1 /\ n \in 0 .. n
      OBVIOUS
    <3> QED
      BY <2>2, <3>1, <3>2
  <2>4. f[0] = first /\ \A k \in 1 .. n - 1 : f[k] = step[k][f[k - 1]]
    BY <2>1
  <2>5. g[0] = first /\ \A k \in 1 .. n : g[k] = step[k][g[k - 1]]
    <3>1. \A k \in 1 .. n : k = n \/ (k \in 1 .. n - 1 /\ k \in 0 .. n - 1 /\ k - 1 \in 0 .. n - 1)
      OBVIOUS
    <3>2. 0 \in 0 .. n - 1
      OBVIOUS
    <3> QED
      BY <2>2, <2>3, <2>4, <3>1, <3>2
  <2>6. \A k \in 0 .. n : g[k] \in kind[k]
    <3>1. \A k \in 0 .. n : k = n \/ k \in 0 .. n - 1
      OBVIOUS
    <3> QED
      BY <2>1, <2>2, <2>3, <3>1
  <2>7. g = [k \in 0 .. n |-> g[k]]
    OBVIOUS
  <2> HIDE DEF g
  <2>8. Upto(g, n)
    BY <2>5, <2>6, <2>7
  <2>9. n \in 0 .. N
    OBVIOUS
  <2> HIDE DEF g, Upto
  <2> QED
    BY <2>8, <2>9
<1> HIDE DEF G
<1>3. N \in G
  BY <1>1, <1>2, StretchInduction
<1> QED
  BY <1>3 DEF G

(* In a rising row of sets the number of those something is not in says    *)
(* which is the first it is in.                                            *)
LEMMA RisingCount ==
  ASSUME NEW N \in Nat, NEW r, NEW v,
         \A k \in 1 .. N - 1 : v \in r[k] => v \in r[k + 1]
  PROVE  \E h \in 0 .. N :
           /\ h = Cardinality({k \in 1 .. N : v \notin r[k]})
           /\ \A k \in 1 .. N : v \in r[k] <=> h < k
<1> DEFINE S == {k \in 1 .. N : v \notin r[k]}
           F == {k \in 1 .. N : v \in r[k]} \cup {N + 1}
<1>1. F \in SUBSET Nat /\ F # {}
  OBVIOUS
<1>2. PICK f \in F : \A g \in F : f <= g
  BY <1>1, LeastExists
<1>3. f \in 1 .. N + 1 /\ f - 1 \in 0 .. N
  BY <1>2
<1>4. \A k \in 1 .. N : v \in r[k] => f <= k
  BY <1>2
<1> DEFINE G == {n \in 0 .. N : n >= f => v \in r[n]}
<1>5. 0 \in G
  BY <1>3
<1>6. \A n \in 1 .. N : n - 1 \in G => n \in G
  <2> SUFFICES ASSUME NEW n \in 1 .. N, n - 1 \in G, n >= f
               PROVE  v \in r[n]
    OBVIOUS
  <2>1. CASE n = f
    BY <1>2, <1>3, <2>1
  <2>2. CASE n # f
    <3>1. n - 1 \in 1 .. N - 1 /\ n - 1 >= f /\ (n - 1) + 1 = n
      BY <1>3, <2>2
    <3> QED
      BY <3>1
  <2> QED
    BY <2>1, <2>2
<1> HIDE DEF G
<1>7. \A n \in 0 .. N : n \in G
  BY <1>5, <1>6, StretchInduction
<1>8. \A k \in 1 .. N : v \in r[k] <=> f - 1 < k
  BY <1>3, <1>4, <1>7 DEF G
<1> DEFINE h == f - 1
<1>9. S = 1 .. h
  BY <1>3, <1>8
<1> HIDE DEF S
<1>10. Cardinality(S) = h
  <2>1. h \in Int /\ 1 \in Int /\ h >= 0
    BY <1>3
  <2> HIDE DEF h
  <2>2. Cardinality(1 .. h) = IF 1 > h THEN 0 ELSE h - 1 + 1
    BY <2>1, FS_Interval
  <2> QED
    BY <1>9, <2>1, <2>2
<1> QED
  BY <1>3, <1>8, <1>10 DEF S

-----------------------------------------------------------------------------
(* The graph and the search *)

(* One hop more than R.                                                    *)
Spread(R) == R \cup {v \in Nodes : \E u \in R : ExistRoute(u, v) = 1}

(* The recursion of Rings has a solution, so its sets follow one another.  *)
LEMMA RingsShape ==
  ASSUME NEW i
  PROVE  /\ DOMAIN Rings(i) = 1 .. INTMAX
         /\ Rings(i)[1] = {i}
         /\ \A k \in 1 .. INTMAX - 1 : Rings(i)[k + 1] = Spread(Rings(i)[k])
<1> DEFINE N == INTMAX - 1
           X == Nodes \cup {i}
           first == <<{i}>>
           kind == [k \in 0 .. N |->
                      {w \in Seq(SUBSET X) :
                         /\ Len(w) = k + 1
                         /\ w[1] = {i}
                         /\ \A j \in 1 .. k : w[j + 1] = Spread(w[j])}]
           step == [k \in 1 .. N |-> [w \in kind[k - 1] |-> Append(w, Spread(w[k]))]]
           Next(w, k) == Append(w, w[k] \cup {v \in Nodes : \E u \in w[k] : ExistRoute(u, v) = 1})
           IsWithin(f) == f = [k \in 0 .. N |->
                                 IF k = 0 THEN <<{i}>> ELSE LET w == f[k - 1] IN Next(w, k)]
<1>1. N \in Nat /\ N + 1 = INTMAX
  BY DEF INTMAX
<1>2. \A R \in SUBSET X : Spread(R) \in SUBSET X
  BY DEF Spread
<1>3. \A k \in 0 .. N : \A w :
        w \in kind[k] <=>
          w \in Seq(SUBSET X) /\ Len(w) = k + 1 /\ w[1] = {i}
            /\ \A j \in 1 .. k : w[j + 1] = Spread(w[j])
  OBVIOUS
<1>4. \A w, k : Next(w, k) = Append(w, Spread(w[k]))
  BY DEF Spread
<1>5. {i} \in SUBSET X
  OBVIOUS
<1> HIDE DEF kind, X, N
<1>6. first \in kind[0]
  <2>1. first \in Seq(SUBSET X) /\ Len(first) = 1 /\ first[1] = {i}
    BY <1>5
  <2>2. 0 \in 0 .. N /\ 0 + 1 = 1 /\ 1 .. 0 = {}
    BY <1>1
  <2> QED
    BY <1>3, <2>1, <2>2
<1>7. ASSUME NEW k \in 1 .. N, NEW w \in kind[k - 1]
      PROVE  Append(w, Spread(w[k])) \in kind[k]
  <2>0. k - 1 \in 0 .. N /\ k \in 0 .. N /\ (k - 1) + 1 = k
    BY <1>1
  <2>1. /\ w \in Seq(SUBSET X) /\ Len(w) = k /\ w[1] = {i}
        /\ \A j \in 1 .. k - 1 : w[j + 1] = Spread(w[j])
    BY <1>3, <2>0
  <2> DEFINE R == Spread(w[k])
  <2>2. R \in SUBSET X
    BY <1>2, <2>1
  <2>3. R = Spread(w[k])
    OBVIOUS
  <2> HIDE DEF R
  <2>4. /\ Append(w, R) \in Seq(SUBSET X) /\ Len(Append(w, R)) = k + 1
        /\ Append(w, R)[k + 1] = R
        /\ \A j \in 1 .. k : Append(w, R)[j] = w[j]
    BY <2>1, <2>2
  <2>5. \A j \in 1 .. k : Append(w, R)[j + 1] = Spread(Append(w, R)[j])
    <3> SUFFICES ASSUME NEW j \in 1 .. k
                 PROVE  Append(w, R)[j + 1] = Spread(Append(w, R)[j])
      OBVIOUS
    <3>1. CASE j = k
      BY <2>3, <2>4, <3>1
    <3>2. CASE j # k
      <4>1. j \in 1 .. k - 1 /\ j + 1 \in 1 .. k
        BY <3>2
      <4> QED
        BY <2>1, <2>4, <4>1
    <3> QED
      BY <3>1, <3>2
  <2>6. Append(w, R)[1] = {i}
    <3>1. 1 \in 1 .. k
      OBVIOUS
    <3> QED
      BY <2>1, <2>4, <3>1
  <2>7. Append(w, R) \in kind[k]
    BY <1>3, <2>0, <2>4, <2>5, <2>6
  <2> QED
    BY <2>7 DEF R
<1>8. \E f : IsWithin(f)
  <2>1. \A k \in 1 .. N : step[k] \in [kind[k - 1] -> kind[k]]
    BY <1>7
  <2>2. \A k \in 1 .. N : \A w \in kind[k - 1] : step[k][w] = Next(w, k)
    BY <1>4
  <2> HIDE DEF step, first
  <2>3. PICK f : HasSteps(f, N, kind, first, step)
    <3>1. StepsFit(N, kind, first, step)
      BY <1>1, <1>6, <2>1 DEF StepsFit
    <3> QED
      BY <3>1, StepwiseExists
  <2> HIDE DEF Next
  <2>4. \A k \in 0 .. N : f[k] = IF k = 0 THEN first ELSE Next(f[k - 1], k)
    <3>1. \A k \in 0 .. N : k # 0 => k \in 1 .. N /\ k - 1 \in 0 .. N
      BY <1>1
    <3> QED
      BY <2>2, <2>3, <3>1 DEF HasSteps
  <2>5. f = [k \in 0 .. N |-> IF k = 0 THEN first ELSE Next(f[k - 1], k)]
    BY <2>3, <2>4 DEF HasSteps
  <2>6. IsWithin(f)
    BY <2>5 DEF first
  <2> QED
    BY <2>6
<1> DEFINE g == CHOOSE f : IsWithin(f)
<1>9. IsWithin(g)
  BY <1>8
<1>10. Rings(i) = g[N]
  BY DEF Rings, N
<1> HIDE DEF g
<1>11. \A k \in 0 .. N : g[k] = IF k = 0 THEN first ELSE Append(g[k - 1], Spread(g[k - 1][k]))
  BY <1>4, <1>9
<1> DEFINE G == {k \in 0 .. N : g[k] \in kind[k]}
<1>12. 0 \in G
  <2>1. 0 \in 0 .. N
    BY <1>1
  <2> HIDE DEF first
  <2> QED
    BY <1>6, <1>11, <2>1
<1>13. ASSUME NEW k \in 1 .. N, k - 1 \in G
       PROVE  k \in G
  <2>1. k \in 0 .. N /\ k # 0 /\ g[k - 1] \in kind[k - 1]
    BY <1>1, <1>13
  <2> QED
    BY <1>7, <1>11, <2>1
<1> HIDE DEF G
<1>14. N \in 0 .. N /\ N \in G
  BY <1>1, <1>12, <1>13, StretchInduction
<1>15. g[N] \in kind[N]
  BY <1>14 DEF G
<1>16. /\ Len(g[N]) = INTMAX /\ g[N] \in Seq(SUBSET X) /\ g[N][1] = {i}
       /\ \A j \in 1 .. N : g[N][j + 1] = Spread(g[N][j])
  BY <1>1, <1>3, <1>14, <1>15
<1> QED
  BY <1>10, <1>16 DEF N

(* What the number of hops to v says: the first set v is in.               *)
LEMMA HopsShape ==
  ASSUME NEW i, NEW v \in Nodes
  PROVE  /\ Hops(i)[v] \in 0 .. INTMAX
         /\ \A k \in 1 .. INTMAX : v \in Rings(i)[k] <=> Hops(i)[v] < k
<1> DEFINE r == Rings(i)
           N == INTMAX
<1>1. /\ DOMAIN r = 1 .. N
      /\ \A k \in 1 .. N - 1 : v \in r[k] => v \in r[k + 1]
  BY RingsShape DEF Spread
<1>2. Hops(i)[v] = Cardinality({k \in 1 .. N : v \notin r[k]})
  BY <1>1 DEF Hops
<1>3. N \in Nat
  BY DEF INTMAX
<1> HIDE DEF r, N
<1>4. \E h \in 0 .. N : /\ h = Cardinality({k \in 1 .. N : v \notin r[k]})
                        /\ \A k \in 1 .. N : v \in r[k] <=> h < k
  BY <1>1, <1>3, RisingCount
<1> QED
  BY <1>2, <1>4 DEF r, N

LEMMA SameGraph ==
  ASSUME graph' = graph
  PROVE  /\ Nodes' = Nodes
         /\ \A i, j : ExistRoute(i, j)' = ExistRoute(i, j)
         /\ \A i : Rings(i)' = Rings(i)
         /\ \A i : Hops(i)' = Hops(i)
<1>1. Nodes' = Nodes
  BY DEF Nodes
<1>2. \A i, j : ExistRoute(i, j)' = ExistRoute(i, j)
  BY DEF ExistRoute, NameOf
<1>3. \A i : Rings(i)' = Rings(i)
  BY DEF Rings, Nodes, ExistRoute, NameOf
<1>4. \A i : Hops(i)' = Hops(i)
  BY <1>1, <1>3 DEF Hops
<1> QED
  BY <1>1, <1>2, <1>3, <1>4

(* A hop counts 1, no hop INT_MAX.                                         *)
LEMMA RouteValue ==
  ASSUME NEW u, NEW v
  PROVE  /\ ExistRoute(u, v) = 1 \/ ExistRoute(u, v) = INTMAX
         /\ ExistRoute(u, v) = 1 => u # v
BY DEF ExistRoute, INTMAX

(* minDistance finds a node not settled, and none of those is nearer.      *)
LEMMA MinDistanceShape ==
  ASSUME Len(graph) \in Nat, dist \in [Nodes -> 0 .. INTMAX], Nodes \ settled # {}
  PROVE  /\ MinDistance \in Nodes \ settled
         /\ \A w \in Nodes \ settled : dist[MinDistance] <= dist[w]
<1> DEFINE U == Nodes \ settled
           D == {dist[v] : v \in U}
<1>1. D \in SUBSET Nat /\ D # {}
  BY DEF INTMAX
<1> HIDE DEF D
<1>2. PICK d \in D : \A g \in D : d <= g
  BY <1>1, LeastExists
<1> DEFINE F == {v \in U : dist[v] = d}
<1>3. F \in SUBSET (0 .. Len(graph)) /\ F # {}
  BY <1>2 DEF D, Nodes
<1> HIDE DEF F
<1>4. PICK f \in F : \A g \in F : g <= f
  BY <1>3, GreatestExists
<1>5. f \in U /\ dist[f] = d /\ \A w \in U : d <= dist[w]
  BY <1>2, <1>4 DEF D, F
<1>6. \A w \in U : dist[f] < dist[w] \/ (dist[f] = dist[w] /\ w <= f)
  <2> SUFFICES ASSUME NEW w \in U PROVE dist[f] < dist[w] \/ (dist[f] = dist[w] /\ w <= f)
    OBVIOUS
  <2>1. d <= dist[w] /\ dist[w] \in Nat /\ d \in Nat /\ dist[f] = d
    BY <1>5 DEF INTMAX
  <2>2. dist[w] = d => w <= f
    BY <1>4 DEF F
  <2> QED
    BY <2>1, <2>2
<1>7. /\ MinDistance \in U
      /\ \A w \in U : dist[MinDistance] < dist[w] \/ dist[MinDistance] = dist[w]
  BY <1>5, <1>6 DEF MinDistance
<1>8. \A w \in U : dist[w] \in Nat
  BY DEF INTMAX
<1> QED
  BY <1>7, <1>8

-----------------------------------------------------------------------------
(* The inductive invariant of the search. A distance below INT_MAX is that *)
(* of a path; every edge out of a settled node has been relaxed; and none  *)
(* that is not settled is nearer than one that is.                         *)
Reached == \A v \in Nodes : dist[v] < INTMAX => v \in Rings(0)[dist[v] + 1]

EdgesRelaxed ==
  \A u \in settled, v \in Nodes :
    dist[u] < INTMAX /\ ExistRoute(u, v) = 1 => dist[v] <= dist[u] + 1

SettledFirst == \A u \in settled, v \in Nodes \ settled : dist[u] <= dist[v]

SearchTyped ==
  /\ src \in Sources
  /\ dist \in [Nodes -> 0 .. INTMAX]
  /\ settled \subseteq Nodes
  /\ turn \in Nat

(* As many nodes are settled as turns have been taken.                     *)
TurnsCounted == IsFiniteSet(settled) /\ Cardinality(settled) = turn

SearchInv ==
  /\ answer \in NoQuery .. Len(Servers)
  /\ answer # NoQuery =>
       /\ Started
       /\ SearchTyped
       /\ TurnsCounted
       /\ 0 \in Nodes => dist[0] = 0
       /\ Reached
       /\ EdgesRelaxed
       /\ SettledFirst
       /\ answer >= 0 => turn >= Turns

LEMMA NodesCounted ==
  ASSUME Len(graph) \in Nat
  PROVE  /\ IsFiniteSet(Nodes) /\ Cardinality(Nodes) = Len(graph)
         /\ \A v \in Nodes : 0 \in Nodes
<1>1. 0 \in Int /\ Len(graph) - 1 \in Int
  OBVIOUS
<1>2. IsFiniteSet(0 .. Len(graph) - 1)
      /\ Cardinality(0 .. Len(graph) - 1)
           = IF 0 > Len(graph) - 1 THEN 0 ELSE (Len(graph) - 1) - 0 + 1
  BY <1>1, FS_Interval
<1> QED
  BY <1>2 DEF Nodes

(* While turns are left a node is not settled.                             *)
LEMMA SomeUnsettled ==
  ASSUME Len(graph) \in Nat, SearchTyped, TurnsCounted, turn < Turns
  PROVE  Nodes \ settled # {}
<1> SUFFICES ASSUME Nodes \ settled = {} PROVE FALSE
  OBVIOUS
<1>1. settled = Nodes
  BY DEF SearchTyped
<1>2. turn = Len(graph)
  BY <1>1, NodesCounted DEF TurnsCounted
<1> QED
  BY <1>2 DEF Turns

(* When none is left one at most is not.                                   *)
LEMMA OneUnsettled ==
  ASSUME Len(graph) \in Nat, SearchTyped, TurnsCounted, turn >= Turns,
         NEW u \in Nodes \ settled, NEW v \in Nodes \ settled
  PROVE  u = v
<1> SUFFICES ASSUME u # v PROVE FALSE
  OBVIOUS
<1> DEFINE S == settled \cup {u}
           T == S \cup {v}
<1>1. IsFiniteSet(S) /\ Cardinality(S) = turn + 1
  BY FS_AddElement DEF TurnsCounted
<1>2. v \notin S
  OBVIOUS
<1> HIDE DEF S
<1>3. IsFiniteSet(T) /\ Cardinality(T) = turn + 1 + 1
  BY <1>1, <1>2, FS_AddElement
<1>4. T \subseteq Nodes
  BY DEF S, SearchTyped
<1> HIDE DEF T
<1>5. Cardinality(T) <= Cardinality(Nodes)
  BY <1>4, NodesCounted, FS_Subset
<1>6. turn + 2 <= Len(graph)
  BY <1>3, <1>5, NodesCounted DEF SearchTyped
<1> QED
  BY <1>6 DEF Turns, SearchTyped

LEMMA QueryKeeps ==
  ASSUME Len(graph) \in Nat, Started, graph' = graph, Started', SearchInv,
         NEW s \in Sources, Query(s)
  PROVE  SearchInv'
<1>1. Nodes' = Nodes /\ Rings(0)' = Rings(0) /\ Rings(0)[1] = {0}
  BY SameGraph, RingsShape
<1>2. /\ src' = s /\ settled' = {} /\ turn' = 0 /\ answer' = Pending
      /\ dist' = [i \in Nodes |-> IF i = 0 THEN 0 ELSE INTMAX]
  BY DEF Query
<1>3. \A i \in Nodes : dist'[i] = IF i = 0 THEN 0 ELSE INTMAX
  BY <1>2
<1>4. SearchTyped'
  BY <1>1, <1>2 DEF SearchTyped, INTMAX
<1>5. TurnsCounted'
  BY <1>2, FS_EmptySet DEF TurnsCounted
<1>6. Reached'
  <2>1. \A v \in Nodes : dist'[v] < INTMAX => v = 0 /\ dist'[v] + 1 = 1
    BY <1>3 DEF INTMAX
  <2> QED
    BY <1>1, <2>1 DEF Reached
<1>7. EdgesRelaxed' /\ SettledFirst' /\ (0 \in Nodes' => dist'[0] = 0)
  BY <1>1, <1>2, <1>3 DEF EdgesRelaxed, SettledFirst
<1>8. answer' \in NoQuery .. Len(Servers) /\ ~(answer' >= 0)
  BY <1>2, RoutingAssumption DEF Pending, NoQuery
<1> QED
  BY <1>4, <1>5, <1>6, <1>7, <1>8 DEF SearchInv

(* A turn settles the nearest node and brings its neighbors nearer.        *)
LEMMA TurnKeeps ==
  ASSUME Len(graph) \in Nat, graph' = graph, Started', SearchInv, Turn
  PROVE  SearchInv'
<1> DEFINE u == MinDistance
<1>1. /\ Nodes' = Nodes /\ Rings(0)' = Rings(0)
      /\ \A i, j : ExistRoute(i, j)' = ExistRoute(i, j)
  BY SameGraph
<1>2. /\ answer = Pending /\ answer' = Pending /\ src' = src
      /\ turn < Turns /\ turn' = turn + 1
      /\ settled' = settled \cup {u}
      /\ dist' = [v \in Nodes |-> IF v = u THEN dist[v] ELSE Relaxed(u, v)]
  BY DEF Turn
<1>3. /\ SearchTyped /\ TurnsCounted /\ (0 \in Nodes => dist[0] = 0)
      /\ Reached /\ EdgesRelaxed /\ SettledFirst
  BY <1>2 DEF SearchInv, Pending, NoQuery
<1>4. dist \in [Nodes -> 0 .. INTMAX] /\ settled \subseteq Nodes /\ turn \in Nat
  BY <1>3 DEF SearchTyped
<1>5. u \in Nodes \ settled /\ \A w \in Nodes \ settled : dist[u] <= dist[w]
  BY <1>2, <1>3, <1>4, SomeUnsettled, MinDistanceShape
<1> HIDE DEF u
<1>6. dist[u] \in 0 .. INTMAX
  BY <1>4, <1>5
<1>7. \A v \in Nodes : dist'[v] = IF v = u THEN dist[v] ELSE Relaxed(u, v)
  BY <1>2
<1>8. ASSUME NEW v \in Nodes
      PROVE  /\ dist'[v] \in 0 .. INTMAX
             /\ dist'[v] <= dist[v]
             /\ v \in settled \cup {u} => dist'[v] = dist[v]
             /\ \/ dist'[v] = dist[v]
                \/ /\ ExistRoute(u, v) = 1 /\ dist[u] + 1 < INTMAX
                   /\ dist'[v] = dist[u] + 1
             /\ v \notin settled => dist[u] <= dist'[v]
             /\ /\ v \notin settled /\ v # u
                /\ dist[u] < INTMAX /\ ExistRoute(u, v) = 1
                => dist'[v] <= dist[u] + 1
  <2>1. dist[v] \in 0 .. INTMAX
    BY <1>4
  <2>2. v \notin settled => dist[u] <= dist[v]
    BY <1>5
  <2>3. CASE v = u
    BY <1>7, <2>1, <2>3 DEF INTMAX
  <2>4. CASE v # u
    <3> DEFINE e == ExistRoute(u, v)
    <3>1. e = 1 \/ e = INTMAX
      BY RouteValue
    <3>2. dist'[v] = IF /\ v \notin settled
                        /\ dist[u] # INTMAX
                        /\ dist[u] + e < dist[v]
                     THEN dist[u] + e ELSE dist[v]
      BY <1>7, <2>4 DEF Relaxed
    <3> HIDE DEF e
    <3>3. /\ dist'[v] \in 0 .. INTMAX
          /\ dist'[v] <= dist[v]
          /\ v \in settled => dist'[v] = dist[v]
          /\ dist'[v] = dist[v]
               \/ (e = 1 /\ dist[u] + 1 < INTMAX /\ dist'[v] = dist[u] + 1)
          /\ v \notin settled => dist[u] <= dist'[v]
          /\ v \notin settled /\ dist[u] < INTMAX /\ e = 1 => dist'[v] <= dist[u] + 1
      BY <1>6, <2>1, <2>2, <3>1, <3>2, SMTT(30) DEF INTMAX
    <3> QED
      BY <2>4, <3>3 DEF e
  <2> QED
    BY <2>3, <2>4
<1>9. SearchTyped'
  BY <1>1, <1>2, <1>3, <1>4, <1>5, <1>8 DEF SearchTyped
<1>10. TurnsCounted'
  BY <1>2, <1>3, <1>5, FS_AddElement DEF TurnsCounted
<1>11. 0 \in Nodes' => dist'[0] = 0
  BY <1>1, <1>3, <1>8 DEF INTMAX
<1>12. Reached'
  <2> SUFFICES ASSUME NEW v \in Nodes, dist'[v] < INTMAX
               PROVE  v \in Rings(0)[dist'[v] + 1]
    BY <1>1 DEF Reached
  <2>1. CASE dist'[v] = dist[v]
    BY <1>3, <2>1 DEF Reached
  <2>2. CASE ExistRoute(u, v) = 1 /\ dist[u] + 1 < INTMAX /\ dist'[v] = dist[u] + 1
    <3>1. u \in Rings(0)[dist[u] + 1]
      BY <1>3, <1>5, <1>6, <2>2 DEF Reached, INTMAX
    <3>2. dist[u] + 1 \in 1 .. INTMAX - 1
      BY <1>6, <2>2 DEF INTMAX
    <3>3. Rings(0)[(dist[u] + 1) + 1] = Spread(Rings(0)[dist[u] + 1])
      BY <3>2, RingsShape
    <3>4. v \in Spread(Rings(0)[dist[u] + 1])
      BY <2>2, <3>1 DEF Spread
    <3> QED
      BY <2>2, <3>3, <3>4
  <2> QED
    BY <1>8, <2>1, <2>2
<1>13. EdgesRelaxed'
  <2> SUFFICES ASSUME NEW x \in settled \cup {u}, NEW v \in Nodes,
                      dist'[x] < INTMAX, ExistRoute(x, v) = 1
               PROVE  dist'[v] <= dist'[x] + 1
    BY <1>1, <1>2 DEF EdgesRelaxed
  <2>1. x \in Nodes /\ dist'[x] = dist[x] /\ dist[x] \in 0 .. INTMAX /\ dist[v] \in 0 .. INTMAX
    BY <1>4, <1>5, <1>8
  <2>2. dist'[v] \in 0 .. INTMAX /\ dist'[v] <= dist[v]
    BY <1>8
  <2>3. CASE x \in settled
    <3>1. dist[v] <= dist[x] + 1
      BY <1>3, <2>1, <2>3 DEF EdgesRelaxed
    <3> QED
      BY <2>1, <2>2, <3>1 DEF INTMAX
  <2>4. CASE x = u
    <3>1. v # u
      BY <2>4, RouteValue
    <3>2. CASE v \in settled
      <4>1. dist[v] <= dist[u]
        BY <1>3, <1>5, <3>2 DEF SettledFirst
      <4> QED
        BY <2>1, <2>2, <2>4, <4>1 DEF INTMAX
    <3>3. CASE v \notin settled
      BY <1>8, <2>1, <2>4, <3>1, <3>3
    <3> QED
      BY <3>2, <3>3
  <2> QED
    BY <2>3, <2>4
<1>14. SettledFirst'
  <2> SUFFICES ASSUME NEW x \in settled \cup {u}, NEW v \in Nodes, v \notin settled, v # u
               PROVE  dist'[x] <= dist'[v]
    BY <1>1, <1>2 DEF SettledFirst
  <2>1. dist'[x] = dist[x] /\ dist[x] \in 0 .. INTMAX /\ dist'[v] \in 0 .. INTMAX
    BY <1>4, <1>5, <1>8
  <2>2. dist[u] <= dist'[v]
    BY <1>8
  <2>3. dist[x] <= dist[u]
    BY <1>3, <1>5, <1>6 DEF SettledFirst, INTMAX
  <2> QED
    BY <1>6, <2>1, <2>2, <2>3 DEF INTMAX
<1>15. answer' \in NoQuery .. Len(Servers) /\ ~(answer' >= 0)
  BY <1>2, RoutingAssumption DEF Pending, NoQuery
<1> QED
  BY <1>9, <1>10, <1>11, <1>12, <1>13, <1>14, <1>15 DEF SearchInv

-----------------------------------------------------------------------------
(* The script that writes the file *)

(* w is s at the places m[1] < m[2] < .., which are those of P up to k.    *)
Places(w, m, s, P, k) ==
  /\ m \in [1 .. Len(w) -> P \cap (1 .. k)]
  /\ \A i \in 1 .. Len(w) : w[i] = s[m[i]]
  /\ \A i, j \in 1 .. Len(w) : i < j => m[i] < m[j]
  /\ \A p \in P \cap (1 .. k) : \E i \in 1 .. Len(w) : m[i] = p

(* One place more, picked or not.                                          *)
LEMMA PlacesStep ==
  ASSUME NEW S, NEW s \in Seq(S), NEW P, NEW k \in 1 .. Len(s),
         NEW w \in Seq(S), NEW m, Places(w, m, s, P, k - 1)
  PROVE  /\ k \notin P => Places(w, m, s, P, k)
         /\ k \in P => /\ Append(w, s[k]) \in Seq(S)
                       /\ \E q : Places(Append(w, s[k]), q, s, P, k)
<1> DEFINE n == Len(w)
<1>1. k \in Nat /\ k - 1 \in Nat /\ n \in Nat /\ s[k] \in S
  OBVIOUS
<1>2. 1 .. k = 1 .. k - 1 \cup {k} /\ k \notin 1 .. k - 1
  BY <1>1
<1>3. /\ m \in [1 .. n -> P \cap (1 .. k - 1)]
      /\ \A i \in 1 .. n : w[i] = s[m[i]]
      /\ \A i, j \in 1 .. n : i < j => m[i] < m[j]
      /\ \A p \in P \cap (1 .. k - 1) : \E i \in 1 .. n : m[i] = p
  BY DEF Places
<1>4. ASSUME k \notin P PROVE Places(w, m, s, P, k)
  <2>1. P \cap (1 .. k) = P \cap (1 .. k - 1)
    BY <1>2, <1>4
  <2> QED
    BY <1>3, <2>1 DEF Places
<1>5. ASSUME k \in P
      PROVE  Append(w, s[k]) \in Seq(S) /\ \E q : Places(Append(w, s[k]), q, s, P, k)
  <2> DEFINE e == s[k]
             z == Append(w, e)
             q == [i \in 1 .. n + 1 |-> IF i = n + 1 THEN k ELSE m[i]]
  <2>1. e \in S /\ e = s[k]
    OBVIOUS
  <2> HIDE DEF e, n
  <2>2. /\ z \in Seq(S) /\ Len(z) = n + 1 /\ z[n + 1] = e
        /\ \A i \in 1 .. n : z[i] = w[i]
    BY <2>1 DEF n
  <2>3. P \cap (1 .. k) = (P \cap (1 .. k - 1)) \cup {k}
    BY <1>2, <1>5
  <2>4. \A i \in 1 .. n + 1 : i = n + 1 \/ (i \in 1 .. n /\ i # n + 1)
    BY <1>1
  <2>5. n + 1 \in 1 .. n + 1 /\ \A i \in 1 .. n : i \in 1 .. n + 1 /\ i # n + 1
    BY <1>1
  <2>6. q[n + 1] = k /\ \A i \in 1 .. n : q[i] = m[i]
    BY <2>5
  <2>7. q \in [1 .. n + 1 -> P \cap (1 .. k)]
    BY <1>3, <2>3, <2>4
  <2> HIDE DEF z, q
  <2>8. \A i \in 1 .. n + 1 : z[i] = s[q[i]]
    BY <1>3, <2>1, <2>2, <2>4, <2>6
  <2>9. \A i, j \in 1 .. n + 1 : i < j => q[i] < q[j]
    <3> SUFFICES ASSUME NEW i \in 1 .. n + 1, NEW j \in 1 .. n + 1, i < j
                 PROVE  q[i] < q[j]
      OBVIOUS
    <3>1. i \in 1 .. n
      BY <1>1
    <3>2. q[i] = m[i] /\ m[i] \in 1 .. k - 1
      BY <1>3, <2>6, <3>1
    <3>3. CASE j = n + 1
      BY <1>1, <2>6, <3>2, <3>3
    <3>4. CASE j \in 1 .. n
      BY <1>3, <2>6, <3>1, <3>2, <3>4
    <3> QED
      BY <2>4, <3>3, <3>4
  <2>10. \A p \in P \cap (1 .. k) : \E i \in 1 .. n + 1 : q[i] = p
    BY <1>3, <2>3, <2>5, <2>6
  <2>11. Places(z, q, s, P, k)
    BY <2>2, <2>7, <2>8, <2>9, <2>10 DEF Places
  <2> QED
    BY <2>2, <2>11 DEF z, e
<1> QED
  BY <1>4, <1>5

(* Picked gives the elements at the places picked, in order.               *)
LEMMA PickedShape ==
  ASSUME NEW S, NEW s \in Seq(S), NEW P
  PROVE  /\ Picked(s, P) \in Seq(S)
         /\ \E m : Places(Picked(s, P), m, s, P, Len(s))
<1> DEFINE N == Len(s)
           first == <<>>
           Good(w, k) == w \in Seq(S) /\ \E m : Places(w, m, s, P, k)
           kind == [k \in 0 .. N |-> {w \in Seq(S) : \E m : Places(w, m, s, P, k)}]
           Next(w, k) == IF k \in P THEN Append(w, s[k]) ELSE w
           step == [k \in 1 .. N |-> [w \in kind[k - 1] |-> Next(w, k)]]
           IsUpto(f) == f = [i \in 0 .. N |-> IF i = 0 THEN <<>> ELSE Next(f[i - 1], i)]
<1>1. N \in Nat
  OBVIOUS
<1>2. \A k \in 0 .. N : \A w : w \in kind[k] <=> Good(w, k)
  OBVIOUS
<1> HIDE DEF kind
<1>3. Good(first, 0)
  <2>1. Places(<<>>, <<>>, s, P, 0)
    <3>1. Len(<<>>) = 0 /\ 1 .. 0 = {} /\ P \cap {} = {}
      OBVIOUS
    <3>2. <<>> \in [{} -> {}]
      OBVIOUS
    <3> QED
      BY <3>1, <3>2 DEF Places
  <2> QED
    BY <2>1
<1>4. ASSUME NEW k \in 1 .. N, NEW w, Good(w, k - 1)
      PROVE  Good(Next(w, k), k)
  <2>1. PICK m : Places(w, m, s, P, k - 1)
    BY <1>4
  <2>2. w \in Seq(S)
    BY <1>4
  <2>3. CASE k \in P
    <3>1. Append(w, s[k]) \in Seq(S) /\ \E q : Places(Append(w, s[k]), q, s, P, k)
      BY <2>1, <2>2, <2>3, PlacesStep
    <3>2. Next(w, k) = Append(w, s[k])
      BY <2>3
    <3> HIDE DEF Next
    <3> QED
      BY <3>1, <3>2
  <2>4. CASE k \notin P
    <3>1. Places(w, m, s, P, k)
      BY <2>1, <2>2, <2>4, PlacesStep
    <3>2. Next(w, k) = w
      BY <2>4
    <3> HIDE DEF Next
    <3> QED
      BY <2>2, <3>1, <3>2
  <2> QED
    BY <2>3, <2>4
<1> HIDE DEF Good
<1>5. \E f : IsUpto(f)
  <2>0. \A k \in 1 .. N : k \in 0 .. N /\ k - 1 \in 0 .. N
    BY <1>1
  <2>1. \A k \in 1 .. N : step[k] \in [kind[k - 1] -> kind[k]]
    <3> HIDE DEF Next
    <3> QED
      BY <1>2, <1>4, <2>0
  <2>2. \A k \in 1 .. N : \A w \in kind[k - 1] : step[k][w] = Next(w, k)
    <3> HIDE DEF Next
    <3> QED
      OBVIOUS
  <2>3. first \in kind[0]
    BY <1>1, <1>2, <1>3
  <2> HIDE DEF step, first, N
  <2>4. PICK f : HasSteps(f, N, kind, first, step)
    <3>1. StepsFit(N, kind, first, step)
      BY <1>1, <2>1, <2>3 DEF StepsFit
    <3> QED
      BY <3>1, StepwiseExists
  <2> HIDE DEF Next
  <2>5. \A k \in 0 .. N : f[k] = IF k = 0 THEN first ELSE Next(f[k - 1], k)
    <3>1. \A k \in 0 .. N : k # 0 => k \in 1 .. N /\ k - 1 \in 0 .. N
      BY <1>1
    <3> QED
      BY <2>2, <2>4, <3>1 DEF HasSteps
  <2>6. f = [k \in 0 .. N |-> IF k = 0 THEN first ELSE Next(f[k - 1], k)]
    BY <2>4, <2>5 DEF HasSteps
  <2>7. IsUpto(f)
    BY <2>6 DEF first
  <2> QED
    BY <2>7
<1> DEFINE g == CHOOSE f : IsUpto(f)
<1>6. IsUpto(g)
  BY <1>5
<1>7. Picked(s, P) = g[N]
  BY DEF Picked
<1> HIDE DEF g
<1>8. \A k \in 0 .. N : g[k] = IF k = 0 THEN first ELSE Next(g[k - 1], k)
  BY <1>6
<1> HIDE DEF Next, N, first
<1> DEFINE G == {k \in 0 .. N : Good(g[k], k)}
<1>9. 0 \in G
  <2>1. 0 \in 0 .. N /\ g[0] = first
    BY <1>1, <1>8
  <2> QED
    BY <1>3, <2>1
<1>10. ASSUME NEW k \in 1 .. N, k - 1 \in G
       PROVE  k \in G
  <2>1. k \in 0 .. N /\ k # 0 /\ Good(g[k - 1], k - 1)
    BY <1>1, <1>10
  <2>2. g[k] = Next(g[k - 1], k)
    BY <1>8, <2>1
  <2> QED
    BY <1>4, <2>1, <2>2
<1> HIDE DEF G
<1>11. N \in 0 .. N /\ N \in G
  <2>1. \A k \in 1 .. N : k - 1 \in G => k \in G
    BY <1>10
  <2>2. \A k \in 0 .. N : k \in G
    BY <1>1, <1>9, <2>1, StretchInduction
  <2>3. N \in 0 .. N
    BY <1>1
  <2> QED
    BY <2>2, <2>3
<1>12. Good(Picked(s, P), N)
  BY <1>7, <1>11 DEF G
<1> QED
  BY <1>12 DEF Good, N

(* A node's neighbors are the other ends of the links it is on, each link  *)
(* giving one.                                                             *)
LEMMA NeighborsShape ==
  ASSUME net \in Network, NEW n
  PROVE  /\ Neighbors(n) \in Seq(Name)
         /\ \A i \in DOMAIN Neighbors(n) :
              \E l \in DOMAIN net.links : n \in Ends(l) /\ Ends(l) = {n, Neighbors(n)[i]}
         /\ \A l \in DOMAIN net.links : n \in Ends(l) =>
              \E i \in DOMAIN Neighbors(n) : Ends(l) = {n, Neighbors(n)[i]}
         /\ (\A k, l \in DOMAIN net.links : Ends(k) = Ends(l) => k = l) =>
              \A i, j \in DOMAIN Neighbors(n) : Neighbors(n)[i] = Neighbors(n)[j] => i = j
<1> DEFINE links == net.links
           P == {l \in DOMAIN links : n \in Ends(l)}
           mine == Picked(links, P)
           nbrs == Neighbors(n)
<1>1. links \in Seq(Name \X Name) /\ DOMAIN links = 1 .. Len(links) /\ Len(links) \in Nat
  BY DEF Network
<1>2. nbrs = [i \in DOMAIN mine |-> IF mine[i][1] = n THEN mine[i][2] ELSE mine[i][1]]
  BY DEF Neighbors
<1>3. \A l \in DOMAIN links : /\ links[l] \in Name \X Name
                              /\ Ends(l) = {links[l][1], links[l][2]}
  BY <1>1 DEF Ends
<1>4. \A l : l \in P <=> l \in DOMAIN links /\ n \in Ends(l)
  OBVIOUS
<1> HIDE DEF links, P
<1>5. mine \in Seq(Name \X Name) /\ \E m : Places(mine, m, links, P, Len(links))
  BY <1>1, PickedShape
<1> HIDE DEF mine, nbrs
<1>6. PICK m : Places(mine, m, links, P, Len(links))
  BY <1>5
<1>7. DOMAIN mine = 1 .. Len(mine) /\ Len(mine) \in Nat
  BY <1>5
<1>8. /\ \A i \in DOMAIN mine : m[i] \in P /\ mine[i] = links[m[i]]
      /\ \A i, j \in DOMAIN mine : i < j => m[i] < m[j]
      /\ \A p \in P : \E i \in DOMAIN mine : m[i] = p
  BY <1>1, <1>4, <1>6, <1>7 DEF Places
<1>9. ASSUME NEW i \in DOMAIN mine
      PROVE  /\ nbrs[i] \in Name /\ m[i] \in DOMAIN links /\ n \in Ends(m[i])
             /\ Ends(m[i]) = {n, nbrs[i]}
  <2>1. m[i] \in DOMAIN links /\ n \in Ends(m[i]) /\ mine[i] = links[m[i]]
    BY <1>4, <1>8
  <2>2. mine[i] \in Name \X Name /\ Ends(m[i]) = {mine[i][1], mine[i][2]}
    BY <1>3, <2>1
  <2>3. nbrs[i] = IF mine[i][1] = n THEN mine[i][2] ELSE mine[i][1]
    BY <1>2
  <2>4. mine[i][1] \in Name /\ mine[i][2] \in Name
    BY <2>2
  <2> QED
    BY <2>1, <2>2, <2>3, <2>4
<1>10. DOMAIN nbrs = DOMAIN mine /\ nbrs = [i \in 1 .. Len(mine) |-> nbrs[i]]
  BY <1>2, <1>7
<1>11. nbrs \in Seq(Name)
  BY <1>7, <1>9, <1>10
<1>12. \A l \in DOMAIN links : n \in Ends(l) =>
         \E i \in DOMAIN nbrs : Ends(l) = {n, nbrs[i]}
  <2> SUFFICES ASSUME NEW l \in DOMAIN links, n \in Ends(l)
               PROVE  \E i \in DOMAIN nbrs : Ends(l) = {n, nbrs[i]}
    OBVIOUS
  <2>1. PICK i \in DOMAIN mine : m[i] = l
    BY <1>4, <1>8
  <2>2. Ends(m[i]) = {n, nbrs[i]}
    BY <1>9
  <2> QED
    BY <1>10, <2>1, <2>2
<1>13. ASSUME \A k, l \in DOMAIN links : Ends(k) = Ends(l) => k = l,
              NEW i \in DOMAIN nbrs, NEW j \in DOMAIN nbrs, nbrs[i] = nbrs[j]
       PROVE  i = j
  <2>1. m[i] = m[j]
    BY <1>9, <1>10, <1>13
  <2>2. i \in Nat /\ j \in Nat /\ m[i] \in Nat /\ m[j] \in Nat
    BY <1>1, <1>7, <1>9, <1>10
  <2>3. ~(m[i] < m[j]) /\ ~(m[j] < m[i])
    BY <2>1, <2>2
  <2> QED
    BY <1>8, <1>10, <2>2, <2>3
<1> QED
  BY <1>9, <1>10, <1>11, <1>12, <1>13 DEF nbrs, links

(* What the walk finds at n: the neighbors that are new, each once.        *)
LEMMA FoundShape ==
  ASSUME net \in Network, NEW n
  PROVE  /\ Found(n) \in Seq(Name)
         /\ \A i \in DOMAIN Found(n) :
              /\ \E j \in DOMAIN Neighbors(n) : Found(n)[i] = Neighbors(n)[j]
              /\ Found(n)[i] \notin visited \cup {n} \cup Waiting
         /\ \A j \in DOMAIN Neighbors(n) :
              Neighbors(n)[j] \notin visited \cup {n} \cup Waiting =>
                \E i \in DOMAIN Found(n) : Found(n)[i] = Neighbors(n)[j]
         /\ (\A i, j \in DOMAIN Neighbors(n) : Neighbors(n)[i] = Neighbors(n)[j] => i = j) =>
              \A i, j \in DOMAIN Found(n) : Found(n)[i] = Found(n)[j] => i = j
<1> DEFINE all == Neighbors(n)
           P == {i \in DOMAIN all : all[i] \notin visited \cup {n} \cup Waiting}
           new == Found(n)
<1>1. all \in Seq(Name) /\ DOMAIN all = 1 .. Len(all) /\ Len(all) \in Nat
  BY NeighborsShape
<1>2. new = Picked(all, P)
  BY DEF Found
<1>3. \A i : i \in P <=> i \in DOMAIN all /\ all[i] \notin visited \cup {n} \cup Waiting
  OBVIOUS
<1> HIDE DEF all, P, new
<1>4. new \in Seq(Name) /\ \E m : Places(new, m, all, P, Len(all))
  BY <1>1, <1>2, PickedShape
<1>5. PICK m : Places(new, m, all, P, Len(all))
  BY <1>4
<1>6. DOMAIN new = 1 .. Len(new) /\ Len(new) \in Nat
  BY <1>4
<1>7. /\ \A i \in DOMAIN new : m[i] \in P /\ m[i] \in DOMAIN all /\ new[i] = all[m[i]]
      /\ \A i, j \in DOMAIN new : i < j => m[i] < m[j]
      /\ \A p \in P : \E i \in DOMAIN new : m[i] = p
  BY <1>1, <1>3, <1>5, <1>6 DEF Places
<1>8. \A i \in DOMAIN new : \E j \in DOMAIN all : new[i] = all[j]
  BY <1>7
<1>9. \A i \in DOMAIN new : new[i] \notin visited \cup {n} \cup Waiting
  BY <1>3, <1>7
<1>10. \A j \in DOMAIN all : all[j] \notin visited \cup {n} \cup Waiting =>
         \E i \in DOMAIN new : new[i] = all[j]
  BY <1>3, <1>7
<1>11. ASSUME \A i, j \in DOMAIN all : all[i] = all[j] => i = j,
              NEW i \in DOMAIN new, NEW j \in DOMAIN new, new[i] = new[j]
       PROVE  i = j
  <2>1. m[i] = m[j]
    BY <1>7, <1>11
  <2>2. i \in Nat /\ j \in Nat /\ m[i] \in Nat /\ m[j] \in Nat
    BY <1>1, <1>6, <1>7
  <2>3. ~(m[i] < m[j]) /\ ~(m[j] < m[i])
    BY <2>1, <2>2
  <2> QED
    BY <1>7, <2>2, <2>3
<1> QED
  BY <1>4, <1>8, <1>9, <1>10, <1>11 DEF all, new

LEMMA NetShape ==
  ASSUME net \in Networks \cup {ByHand}
  PROVE  /\ net \in Network
         /\ \A k, l \in DOMAIN net.links : Ends(k) = Ends(l) => k = l
         /\ \A l \in DOMAIN net.links : net.links[l][1] # net.links[l][2]
         /\ net.links = <<>> \/ \E l \in DOMAIN net.links : net.sink \in Ends(l)
<1>1. CASE net \in Networks
  BY <1>1, AnnouncerAssumption DEF Ends
<1>2. CASE net = ByHand
  <2> DEFINE s == CHOOSE n \in Name : TRUE
  <2>1. s \in Name
    BY SelectionAssumption
  <2> HIDE DEF s
  <2>2. ByHand = [links |-> <<>>, sink |-> s, rounds |-> 0, lossy |-> FALSE]
    BY DEF ByHand, s
  <2>3. net.links = <<>> /\ net \in Network
    BY <1>2, <2>1, <2>2 DEF Network
  <2>4. DOMAIN net.links = {}
    BY <2>3
  <2> QED
    BY <2>3, <2>4
<1> QED
  BY <1>1, <1>2

(* The invariant of the script and the reader: nothing is read before the  *)
(* file is complete, the walk stays on the links, the records' numbers     *)
(* rise with the rounds.                                                   *)
ReadsWhenWritten == ~Written => at = 0 /\ graph = <<>>

WalksLinks ==
  /\ toVisit # <<>> => round >= 1
  /\ \A i \in DOMAIN toVisit : \E l \in DOMAIN net.links : toVisit[i] \in Ends(l)

NumbersRise ==
  Generated =>
    /\ \A i \in DOMAIN file : file[i].seq < round
    /\ \A i, j \in DOMAIN file : i < j => file[i].seq <= file[j].seq

AnnounceInv ==
  /\ net \in Networks \cup {ByHand}
  /\ AnnouncerTypeOK
  /\ WalksLinks
  /\ ReadsWhenWritten
  /\ NumbersRise

ReaderInv == LinkStateTypeOK /\ NodesUnique

LEMMA WalkTyped ==
  ASSUME AnnouncerTypeOK
  PROVE  /\ net \in Network /\ net.rounds \in Nat /\ net.sink \in Name
         /\ round \in Nat /\ toVisit \in Seq(Name) /\ visited \subseteq Name
         /\ DOMAIN toVisit = 1 .. Len(toVisit) /\ Len(toVisit) \in Nat
         /\ toVisit # <<>> => /\ Head(toVisit) \in Name /\ Head(toVisit) = toVisit[1]
                              /\ 1 \in DOMAIN toVisit
                              /\ Tail(toVisit) \in Seq(Name)
                              /\ Len(Tail(toVisit)) = Len(toVisit) - 1
                              /\ \A i \in 1 .. Len(toVisit) - 1 : Tail(toVisit)[i] = toVisit[i + 1]
BY DEF AnnouncerTypeOK, Network

LEMMA StartRoundKeeps ==
  ASSUME ReaderInv, AnnounceInv, StartRound
  PROVE  ReaderInv' /\ AnnounceInv'
<1>1. /\ net' = net /\ round' = round + 1 /\ round < net.rounds
      /\ visited' = {net.sink} /\ toVisit' = Neighbors(net.sink)
      /\ file' = file /\ at' = at /\ graph' = graph
  BY DEF StartRound, lsVars
<1>2. net \in Network /\ net.rounds \in Nat /\ net.sink \in Name /\ round \in 0 .. net.rounds
  BY WalkTyped DEF AnnounceInv, AnnouncerTypeOK
<1>3. /\ Neighbors(net.sink) \in Seq(Name)
      /\ \A i \in DOMAIN Neighbors(net.sink) :
           \E l \in DOMAIN net.links : Neighbors(net.sink)[i] \in Ends(l)
  BY <1>2, NeighborsShape
<1>4. AnnouncerTypeOK'
  BY <1>1, <1>2, <1>3 DEF AnnouncerTypeOK
<1>5. WalksLinks'
  BY <1>1, <1>2, <1>3 DEF WalksLinks, Ends
<1>6. ReadsWhenWritten'
  BY <1>1, <1>2 DEF AnnounceInv, ReadsWhenWritten, Written
<1>7. NumbersRise'
  <2>1. \A i \in DOMAIN file : file[i].seq \in Nat
    <3>1. \A i \in DOMAIN file : file[i] \in Record
      BY DEF ReaderInv, LinkStateTypeOK
    <3> QED
      BY <3>1 DEF Record
  <2> QED
    BY <1>1, <1>2, <2>1 DEF AnnounceInv, NumbersRise, Generated
<1> QED
  BY <1>1, <1>4, <1>5, <1>6, <1>7
     DEF AnnounceInv, ReaderInv, LinkStateTypeOK, NodesUnique

(* The record the walk writes for the node it is at.                       *)
NextRecord == [from |-> Head(toVisit), seq |-> SeqNumber, nbrs |-> Neighbors(Head(toVisit))]

LEMMA RecordTyped ==
  ASSUME AnnounceInv, toVisit # <<>>
  PROVE  NextRecord \in Record /\ round \in Nat /\ round >= 1 /\ NextRecord.seq = round - 1
         /\ NextRecord.from = Head(toVisit) /\ NextRecord.nbrs = Neighbors(Head(toVisit))
<1> DEFINE n == Head(toVisit)
           ns == Neighbors(n)
           k == SeqNumber
<1>1. n \in Name /\ net \in Network /\ 1 \in DOMAIN toVisit /\ n = toVisit[1] /\ round \in Nat
  BY WalkTyped DEF AnnounceInv
<1>2. PICK l \in DOMAIN net.links : n \in Ends(l)
  BY <1>1 DEF AnnounceInv, WalksLinks
<1>3. ns \in Seq(Name) /\ \E i \in DOMAIN ns : Ends(l) = {n, ns[i]}
  BY <1>1, <1>2, NeighborsShape
<1> HIDE DEF n, ns, k
<1>4. ns # <<>>
  BY <1>3
<1>5. round >= 1 /\ k \in Nat /\ k = round - 1
  BY <1>1 DEF AnnounceInv, WalksLinks, SeqNumber, k
<1>6. NextRecord = [from |-> n, seq |-> k, nbrs |-> ns]
  BY DEF NextRecord, n, k, ns
<1> QED
  BY <1>1, <1>3, <1>4, <1>5, <1>6 DEF Record, n, ns

LEMMA VisitKeeps ==
  ASSUME ReaderInv, AnnounceInv, Visit
  PROVE  ReaderInv' /\ AnnounceInv'
<1> DEFINE n == Head(toVisit)
           new == Found(n)
           r == NextRecord
<1>1. /\ toVisit # <<>> /\ net' = net /\ round' = round /\ at' = at /\ graph' = graph
      /\ visited' = visited \cup {n}
      /\ toVisit' = Tail(toVisit) \o new
      /\ file' = Append(file, r) \/ file' = file
  BY DEF Visit, NextRecord
<1>2. /\ net \in Network /\ n \in Name /\ round \in Nat /\ visited \subseteq Name
      /\ DOMAIN toVisit = 1 .. Len(toVisit) /\ Len(toVisit) \in Nat
      /\ Tail(toVisit) \in Seq(Name) /\ Len(Tail(toVisit)) = Len(toVisit) - 1
      /\ \A i \in 1 .. Len(toVisit) - 1 : Tail(toVisit)[i] = toVisit[i + 1]
  BY <1>1, WalkTyped DEF AnnounceInv
<1>3. new \in Seq(Name)
      /\ \A i \in DOMAIN new : \E l \in DOMAIN net.links : new[i] \in Ends(l)
  <2>1. /\ \A i \in DOMAIN Neighbors(n) :
             \E l \in DOMAIN net.links : Neighbors(n)[i] \in Ends(l)
    BY <1>2, NeighborsShape
  <2> QED
    BY <1>2, <2>1, FoundShape
<1>4. r \in Record /\ r.seq = round - 1
  BY <1>1, RecordTyped
<1>5. ~Written /\ at = 0 /\ graph = <<>>
  BY <1>1 DEF Written, AnnounceInv, ReadsWhenWritten
<1>6. file \in Seq(Record) /\ DOMAIN file = 1 .. Len(file) /\ Len(file) \in Nat
  BY DEF ReaderInv, LinkStateTypeOK
<1> HIDE DEF n, new, r
<1>7. file' \in Seq(Record)
  BY <1>1, <1>4, <1>6
<1>8. ReaderInv'
  BY <1>1, <1>5, <1>7 DEF ReaderInv, LinkStateTypeOK, NodesUnique
<1>9. AnnouncerTypeOK'
  BY <1>1, <1>2, <1>3 DEF AnnounceInv, AnnouncerTypeOK
<1>10. WalksLinks'
  <2> DEFINE t == Tail(toVisit)
  <2>1. \A i \in DOMAIN t : \E l \in DOMAIN net.links : t[i] \in Ends(l)
    <3>1. \A i \in 1 .. Len(toVisit) - 1 : i + 1 \in 1 .. Len(toVisit)
      BY <1>2
    <3>2. \A i \in DOMAIN t : i \in 1 .. Len(toVisit) - 1
      BY <1>2
    <3> QED
      BY <1>2, <3>1, <3>2 DEF AnnounceInv, WalksLinks
  <2> HIDE DEF t
  <2>2. t \in Seq(Name) /\ toVisit' = t \o new
    BY <1>1, <1>2 DEF t
  <2>3. \A i \in DOMAIN toVisit' :
          \/ i \in DOMAIN t /\ toVisit'[i] = t[i]
          \/ i - Len(t) \in DOMAIN new /\ toVisit'[i] = new[i - Len(t)]
    BY <1>3, <2>2
  <2>4. round' >= 1
    BY <1>1, <1>2 DEF AnnounceInv, WalksLinks
  <2>5. \A i \in DOMAIN toVisit' : \E l \in DOMAIN net.links : toVisit'[i] \in Ends(l)
    <3> SUFFICES ASSUME NEW i \in DOMAIN toVisit'
                 PROVE  \E l \in DOMAIN net.links : toVisit'[i] \in Ends(l)
      OBVIOUS
    <3>1. CASE i \in DOMAIN t /\ toVisit'[i] = t[i]
      BY <2>1, <3>1
    <3>2. CASE i - Len(t) \in DOMAIN new /\ toVisit'[i] = new[i - Len(t)]
      BY <1>3, <3>2
    <3> QED
      BY <2>3, <3>1, <3>2
  <2> QED
    BY <1>1, <2>4, <2>5 DEF WalksLinks, Ends
<1>11. ReadsWhenWritten'
  BY <1>1, <1>5 DEF ReadsWhenWritten
<1>12. NumbersRise'
  <2> SUFFICES ASSUME Generated
               PROVE  /\ \A i \in DOMAIN file' : file'[i].seq < round
                      /\ \A i, j \in DOMAIN file' : i < j => file'[i].seq <= file'[j].seq
    BY <1>1 DEF NumbersRise, Generated
  <2>1. /\ \A i \in DOMAIN file : file[i].seq < round
        /\ \A i, j \in DOMAIN file : i < j => file[i].seq <= file[j].seq
    BY DEF AnnounceInv, NumbersRise
  <2>2. CASE file' = file
    BY <2>1, <2>2
  <2>3. CASE file' = Append(file, r)
    <3>1. /\ DOMAIN file' = 1 .. Len(file) + 1 /\ file'[Len(file) + 1] = r
          /\ \A i \in 1 .. Len(file) : file'[i] = file[i]
      BY <1>4, <1>6, <2>3
    <3>2. \A i \in 1 .. Len(file) : file[i].seq \in Nat
      <4>1. \A i \in DOMAIN file : file[i] \in Record
        BY <1>6
      <4> QED
        BY <1>6, <4>1 DEF Record
    <3>3. \A i \in 1 .. Len(file) : file'[i].seq = file[i].seq /\ file[i].seq <= r.seq
      BY <1>2, <1>4, <1>6, <2>1, <3>1, <3>2, SMTT(30)
    <3>4. \A i \in 1 .. Len(file) + 1 : i \in 1 .. Len(file) \/ i = Len(file) + 1
      BY <1>6
    <3>5. \A i \in DOMAIN file' : file'[i].seq < round
      BY <1>2, <1>4, <1>6, <2>1, <3>1, <3>3, <3>4
    <3>6. ASSUME NEW i \in DOMAIN file', NEW j \in DOMAIN file', i < j
          PROVE  file'[i].seq <= file'[j].seq
      <4>1. i \in 1 .. Len(file)
        BY <1>6, <3>1, <3>6
      <4>2. CASE j \in 1 .. Len(file)
        BY <1>6, <2>1, <3>3, <3>6, <4>1, <4>2
      <4>3. CASE j = Len(file) + 1
        BY <3>1, <3>3, <4>1, <4>3
      <4> QED
        BY <3>1, <3>4, <4>2, <4>3
    <3> QED
      BY <3>5, <3>6
  <2> QED
    BY <1>1, <2>2, <2>3
<1> QED
  BY <1>1, <1>8, <1>9, <1>10, <1>11, <1>12 DEF AnnounceInv

-----------------------------------------------------------------------------
(* What follows from the invariant of the search                           *)

(* Within k hops either a node is as near as that or one not yet settled   *)
(* is, so none that is settled is farther.                                 *)
LEMMA Frontier ==
  ASSUME SearchTyped, EdgesRelaxed, 0 \in Nodes, dist[0] = 0
  PROVE  \A k \in 1 .. INTMAX : \A w \in Rings(0)[k] :
           w \in Nodes /\ (dist[w] <= k - 1 \/ \E x \in Nodes \ settled : dist[x] <= k - 1)
<1> DEFINE r == Rings(0)
           Near(w, k) == w \in Nodes /\ (dist[w] <= k \/ \E x \in Nodes \ settled : dist[x] <= k)
           G == {k \in 0 .. INTMAX - 1 : \A w \in r[k + 1] : Near(w, k)}
           M == INTMAX - 1
<1>1. \A v \in Nodes : dist[v] \in 0 .. INTMAX
  BY DEF SearchTyped
<1>2. M \in Nat /\ M + 1 = INTMAX
  BY DEF INTMAX
<1>3. 0 \in G
  <2>1. r[0 + 1] = {0} /\ 0 \in 0 .. INTMAX - 1
    BY RingsShape DEF INTMAX
  <2> QED
    BY <2>1
<1>4. ASSUME NEW k \in 1 .. M, k - 1 \in G
      PROVE  k \in G
  <2>1. k \in 1 .. INTMAX - 1 /\ k \in 0 .. INTMAX - 1 /\ (k - 1) + 1 = k
    BY <1>2
  <2>2. \A w \in r[k] : Near(w, k - 1)
    BY <1>4, <2>1
  <2>3. r[k + 1] = Spread(r[k])
    BY <2>1, RingsShape
  <2> SUFFICES ASSUME NEW w \in r[k + 1] PROVE Near(w, k)
    BY <2>1
  <2>4. ASSUME NEW v \in r[k] PROVE Near(v, k)
    <3>1. Near(v, k - 1)
      BY <2>2
    <3>2. \A d \in 0 .. INTMAX : d <= k - 1 => d <= k
      BY <2>1 DEF INTMAX
    <3> QED
      BY <1>1, <3>1, <3>2
  <2>5. CASE w \in r[k]
    BY <2>4, <2>5
  <2>6. CASE w \notin r[k]
    <3>1. PICK u \in r[k] : w \in Nodes /\ ExistRoute(u, w) = 1
      BY <2>3, <2>6 DEF Spread
    <3>2. CASE \E x \in Nodes \ settled : dist[x] <= k - 1
      <4>1. PICK x \in Nodes \ settled : dist[x] <= k - 1
        BY <3>2
      <4>2. dist[x] <= k
        BY <1>1, <2>1, <4>1 DEF INTMAX
      <4> QED
        BY <3>1, <4>2
    <3>3. CASE dist[u] <= k - 1 /\ u \in Nodes
      <4>1. dist[u] \in 0 .. INTMAX /\ dist[w] \in 0 .. INTMAX
        BY <1>1, <3>1, <3>3
      <4>2. dist[u] < INTMAX /\ dist[u] + 1 <= k /\ dist[u] <= k
        BY <2>1, <3>3, <4>1 DEF INTMAX
      <4>3. CASE u \in settled
        <5>1. dist[w] <= dist[u] + 1
          BY <3>1, <4>2, <4>3 DEF EdgesRelaxed
        <5> QED
          BY <2>1, <3>1, <4>1, <4>2, <5>1 DEF INTMAX
      <4>4. CASE u \notin settled
        BY <3>1, <3>3, <4>2, <4>4
      <4> QED
        BY <4>3, <4>4
    <3>4. Near(u, k - 1)
      BY <2>2, <3>1
    <3> QED
      BY <3>2, <3>3, <3>4
  <2> QED
    BY <2>5, <2>6
<1> HIDE DEF G, M
<1>5. \A k \in 0 .. M : k \in G
  BY <1>2, <1>3, <1>4, StretchInduction
<1>6. ASSUME NEW k \in 1 .. INTMAX PROVE \A w \in r[k] : Near(w, k - 1)
  <2>1. k - 1 \in 0 .. M /\ (k - 1) + 1 = k
    BY <1>2
  <2> QED
    BY <1>5, <2>1 DEF G
<1> QED
  BY <1>6

(* A settled node's distance is its number of hops, and no node's is less. *)
LEMMA Exact ==
  ASSUME Len(graph) \in Nat, SearchTyped, 0 \in Nodes => dist[0] = 0,
         Reached, EdgesRelaxed, SettledFirst
  PROVE  /\ \A v \in Nodes : dist[v] >= Hops(0)[v]
         /\ \A v \in settled : dist[v] = Hops(0)[v]
<1>1. ASSUME NEW v \in Nodes
      PROVE  /\ dist[v] \in 0 .. INTMAX /\ Hops(0)[v] \in 0 .. INTMAX
             /\ dist[v] >= Hops(0)[v]
  <2>1. dist[v] \in 0 .. INTMAX
    BY DEF SearchTyped
  <2>2. /\ Hops(0)[v] \in 0 .. INTMAX
        /\ \A k \in 1 .. INTMAX : v \in Rings(0)[k] <=> Hops(0)[v] < k
    BY HopsShape
  <2>3. CASE dist[v] < INTMAX
    <3>1. dist[v] + 1 \in 1 .. INTMAX
      BY <2>1, <2>3 DEF INTMAX
    <3>2. Hops(0)[v] < dist[v] + 1
      BY <2>2, <2>3, <3>1 DEF Reached
    <3> QED
      BY <2>1, <2>2, <3>2 DEF INTMAX
  <2> QED
    BY <2>1, <2>2, <2>3 DEF INTMAX
<1>2. ASSUME NEW v \in settled
      PROVE  dist[v] = Hops(0)[v]
  <2> DEFINE h == Hops(0)[v]
  <2>1. v \in Nodes /\ 0 \in Nodes /\ dist[0] = 0
    BY NodesCounted DEF SearchTyped
  <2>2. dist[v] \in 0 .. INTMAX /\ h \in 0 .. INTMAX /\ dist[v] >= h
    BY <1>1, <2>1
  <2>3. CASE h < INTMAX
    <3>1. h + 1 \in 1 .. INTMAX /\ h < h + 1 /\ (h + 1) - 1 = h
      BY <2>2, <2>3 DEF INTMAX
    <3>2. v \in Rings(0)[h + 1]
      BY <2>1, <3>1, HopsShape
    <3>3. dist[v] <= h \/ \E x \in Nodes \ settled : dist[x] <= h
      BY <2>1, <3>1, <3>2, Frontier
    <3>4. \A x \in Nodes \ settled : dist[x] <= h => dist[v] <= h
      <4> SUFFICES ASSUME NEW x \in Nodes \ settled, dist[x] <= h PROVE dist[v] <= h
        OBVIOUS
      <4>1. dist[v] <= dist[x] /\ dist[x] \in 0 .. INTMAX
        BY <1>1 DEF SettledFirst
      <4> QED
        BY <2>2, <4>1 DEF INTMAX
    <3> QED
      BY <2>2, <3>3, <3>4 DEF INTMAX
  <2> QED
    BY <2>2, <2>3 DEF INTMAX
<1> QED
  BY <1>1, <1>2

(* When no turn is left, that is true of the node left out as well.        *)
LEMMA AllExact ==
  ASSUME Len(graph) \in Nat, SearchTyped, TurnsCounted, turn >= Turns,
         0 \in Nodes => dist[0] = 0, Reached, EdgesRelaxed, SettledFirst
  PROVE  dist = Hops(0)
<1>1. ASSUME NEW v \in Nodes, v \notin settled
      PROVE  dist[v] = Hops(0)[v]
  <2> DEFINE h == Hops(0)[v]
  <2>1. 0 \in Nodes /\ dist[0] = 0
    BY NodesCounted
  <2>2. dist[v] \in 0 .. INTMAX /\ h \in 0 .. INTMAX /\ dist[v] >= h
    BY Exact, HopsShape DEF SearchTyped
  <2>3. CASE h = 0
    <3>1. 1 \in 1 .. INTMAX /\ h < 1
      BY <2>3 DEF INTMAX
    <3>2. v \in Rings(0)[1]
      BY <3>1, HopsShape
    <3>3. v = 0
      BY <3>2, RingsShape
    <3> QED
      BY <2>1, <2>3, <3>3
  <2>4. CASE h # 0 /\ h < INTMAX
    <3>1. h \in 1 .. INTMAX - 1 /\ h \in 1 .. INTMAX /\ h + 1 \in 1 .. INTMAX
          /\ h < h + 1 /\ ~(h < h)
      BY <2>2, <2>4 DEF INTMAX
    <3>2. v \in Rings(0)[h + 1] /\ v \notin Rings(0)[h]
      BY <3>1, HopsShape
    <3>3. Rings(0)[h + 1] = Spread(Rings(0)[h])
      BY <3>1, RingsShape
    <3>4. PICK u \in Rings(0)[h] : ExistRoute(u, v) = 1
      BY <3>2, <3>3 DEF Spread
    <3>5. u \in Nodes /\ u # v
      BY <2>1, <3>1, <3>4, Frontier, RouteValue
    <3>6. u \in settled
      BY <1>1, <3>5, OneUnsettled
    <3>7. dist[u] = Hops(0)[u] /\ Hops(0)[u] < h /\ Hops(0)[u] \in 0 .. INTMAX
      BY <3>1, <3>4, <3>5, <3>6, Exact, HopsShape
    <3>8. dist[u] < INTMAX
      BY <2>2, <3>7 DEF INTMAX
    <3>9. dist[v] <= dist[u] + 1
      BY <3>4, <3>6, <3>8 DEF EdgesRelaxed
    <3> QED
      BY <2>2, <3>7, <3>9 DEF INTMAX
  <2> QED
    BY <2>2, <2>3, <2>4 DEF INTMAX
<1>2. \A v \in Nodes : dist[v] = Hops(0)[v]
  BY <1>1, Exact
<1>3. dist = [v \in Nodes |-> dist[v]] /\ Hops(0) = [v \in Nodes |-> Hops(0)[v]]
  BY DEF SearchTyped, Hops
<1> QED
  BY <1>2, <1>3

-----------------------------------------------------------------------------
(* The answer *)

(* The first of the offers, by distance, node and place, exists.           *)
LEMMA BestShape ==
  ASSUME Len(graph) \in Nat, SearchTyped, Offers # {}
  PROVE  Best \in Offers /\ \A p \in Offers : Before(Best, p)
<1>1. /\ Offers \subseteq Nodes \X DOMAIN Servers
      /\ Nodes \subseteq Nat /\ DOMAIN Servers \subseteq Nat
      /\ \A v \in Nodes : dist[v] \in Nat
  <2>1. Offers \subseteq Nodes \X DOMAIN Servers
    BY DEF Offers
  <2>2. Nodes \subseteq Nat /\ \A v \in Nodes : dist[v] \in Nat
    BY DEF Nodes, SearchTyped, INTMAX
  <2>3. DOMAIN Servers = 1 .. Len(Servers) /\ Len(Servers) \in Nat
    BY RoutingAssumption
  <2> QED
    BY <2>1, <2>2, <2>3
<1> DEFINE D == {dist[o[1]] : o \in Offers}
<1>2. D \in SUBSET Nat /\ D # {}
  BY <1>1
<1> HIDE DEF D
<1>3. PICK d \in D : \A e \in D : d <= e
  BY <1>2, LeastExists
<1> DEFINE I == {o[1] : o \in {o \in Offers : dist[o[1]] = d}}
<1>4. I \in SUBSET Nat /\ I # {}
  BY <1>1, <1>3 DEF D
<1> HIDE DEF I
<1>5. PICK i \in I : \A j \in I : i <= j
  BY <1>4, LeastExists
<1> DEFINE Q == {o[2] : o \in {o \in Offers : o[1] = i}}
<1>6. Q \in SUBSET Nat /\ Q # {}
  BY <1>1, <1>5 DEF I
<1> HIDE DEF Q
<1>7. PICK q \in Q : \A s \in Q : q <= s
  BY <1>6, LeastExists
<1>8. PICK o \in Offers : o[1] = i /\ o[2] = q
  BY <1>7 DEF Q
<1>9. dist[i] = d
  BY <1>5 DEF I
<1>10. ASSUME NEW p \in Offers PROVE Before(o, p)
  <2>1. d <= dist[p[1]] /\ d \in Nat /\ dist[p[1]] \in Nat
    BY <1>1, <1>2, <1>3 DEF D
  <2>2. CASE dist[p[1]] = d
    <3>1. i <= p[1] /\ i \in Nat /\ p[1] \in Nat
      BY <1>1, <1>4, <1>5, <2>2 DEF I
    <3>2. p[1] = i => q <= p[2]
      BY <1>7 DEF Q
    <3> QED
      BY <1>8, <1>9, <2>2, <3>1, <3>2 DEF Before
  <2>3. CASE dist[p[1]] # d
    BY <1>8, <1>9, <2>1, <2>3 DEF Before
  <2> QED
    BY <2>2, <2>3
<1> QED
  BY <1>8, <1>10 DEF Best

(* The search over exact distances finds the nearest server.               *)
LEMMA ChosenIsNearest ==
  ASSUME dist = Hops(0)
  PROVE  (IF Offers = {} THEN 0 ELSE Best[2]) = NearestServer
<1> DEFINE Seats(f) == {o \in Nodes \X DOMAIN Servers : At(o[2], o[1]) /\ f[o[1]] < INTMAX}
           Nearer(f, o, p) ==
             \/ f[o[1]] < f[p[1]]
             \/ f[o[1]] = f[p[1]] /\ o[1] < p[1]
             \/ o[1] = p[1] /\ o[2] <= p[2]
           First(f) ==
             IF Seats(f) = {} THEN 0
             ELSE (CHOOSE o \in Seats(f) : \A p \in Seats(f) : Nearer(f, o, p))[2]
<1>1. (IF Offers = {} THEN 0 ELSE Best[2]) = First(dist)
  BY DEF Offers, Best, Before
<1>2. NearestServer = First(Hops(0))
  BY DEF NearestServer
<1> HIDE DEF First
<1> QED
  BY <1>1, <1>2

LEMMA ChooseKeeps ==
  ASSUME Len(graph) \in Nat, graph' = graph, Started', SearchInv, Choose
  PROVE  SearchInv' /\ AnswerIsNearest'
<1>1. /\ Nodes' = Nodes /\ Rings(0)' = Rings(0) /\ Hops(0)' = Hops(0)
      /\ \A i, j : ExistRoute(i, j)' = ExistRoute(i, j)
  BY SameGraph
<1>2. /\ answer = Pending /\ turn >= Turns
      /\ answer' = IF Offers = {} THEN 0 ELSE Best[2]
      /\ src' = src /\ dist' = dist /\ settled' = settled /\ turn' = turn
  BY DEF Choose
<1>3. /\ SearchTyped /\ TurnsCounted /\ (0 \in Nodes => dist[0] = 0)
      /\ Reached /\ EdgesRelaxed /\ SettledFirst
  BY <1>2 DEF SearchInv, Pending, NoQuery
<1>4. answer' = NearestServer
  BY <1>2, <1>3, AllExact, ChosenIsNearest
<1>5. NearestServer' = NearestServer
  BY DEF NearestServer, At, NameOf, Nodes, Hops, Rings, ExistRoute
<1>6. answer' \in 0 .. Len(Servers)
  <2>1. CASE Offers = {}
    BY <1>2, <2>1, RoutingAssumption
  <2>2. CASE Offers # {}
    <3>1. Best \in Nodes \X DOMAIN Servers
      BY <1>3, <2>2, BestShape DEF Offers
    <3>2. Best[2] \in 1 .. Len(Servers) /\ Len(Servers) \in Nat
      BY <3>1, RoutingAssumption
    <3> QED
      BY <1>2, <2>2, <3>2
  <2> QED
    BY <2>1, <2>2
<1>7. /\ SearchTyped' /\ TurnsCounted' /\ (0 \in Nodes' => dist'[0] = 0)
      /\ Reached' /\ EdgesRelaxed' /\ SettledFirst' /\ turn' >= Turns'
  BY <1>1, <1>2, <1>3
     DEF SearchTyped, TurnsCounted, Reached, EdgesRelaxed, SettledFirst, Turns
<1>8. answer' \in NoQuery .. Len(Servers)
  BY <1>6, RoutingAssumption DEF NoQuery
<1> QED
  BY <1>4, <1>5, <1>7, <1>8 DEF SearchInv, AnswerIsNearest

-----------------------------------------------------------------------------
(* The whole: script, reader and search                                    *)
SelectionInv ==
  /\ ReaderInv
  /\ InStep
  /\ AnnounceInv
  /\ SearchInv
  /\ AnswerIsNearest

LEMMA GraphLength ==
  ASSUME ReaderInv
  PROVE  Len(graph) \in Nat
BY DEF ReaderInv, LinkStateTypeOK

(* Before anything is read the reader is in step.                          *)
LEMMA FreshInStep ==
  ASSUME file \in Seq(Record), at = 0, graph = <<>>
  PROVE  InStep
<1>1. Len(file) \in Nat /\ DOMAIN graph = {}
  OBVIOUS
<1>2. ReadRecords = {} /\ Latest = {}
  BY <1>1 DEF ReadRecords, Latest
<1>3. 0 \in 0 .. Len(file) /\ at = 3 * 0
  BY <1>1
<1> QED
  BY <1>1, <1>2, <1>3 DEF InStep

LEMMA FreshInStepNext ==
  ASSUME file' \in Seq(Record), at' = 0, graph' = <<>>
  PROVE  InStep'
<1>1. Len(file') \in Nat /\ DOMAIN graph' = {}
  OBVIOUS
<1>2. ReadRecords' = {} /\ Latest' = {}
  BY <1>1 DEF ReadRecords, Latest
<1>3. 0 \in 0 .. Len(file') /\ at' = 3 * 0
  BY <1>1
<1> QED
  BY <1>1, <1>2, <1>3 DEF InStep

LEMMA SelectionStart ==
  ASSUME SelectionInit
  PROVE  SelectionInv
<1>1. /\ net \in Networks \cup {ByHand} /\ file \in Seq(Record)
      /\ at = 0 /\ graph = <<>> /\ round = 0 /\ visited = {} /\ toVisit = <<>>
      /\ answer = NoQuery
  BY LinkStateAssumption DEF SelectionInit, AnnouncerInit, RoutingInit
<1>2. net \in Network /\ net.rounds \in Nat
  BY <1>1, NetShape DEF Network
<1>3. ReaderInv /\ InStep
  BY <1>1, FreshInStep DEF ReaderInv, LinkStateTypeOK, NodesUnique
<1>4. AnnouncerTypeOK /\ WalksLinks /\ ReadsWhenWritten
  BY <1>1, <1>2 DEF AnnouncerTypeOK, WalksLinks, ReadsWhenWritten
<1>5. NumbersRise
  <2>1. CASE net \in Networks /\ file = <<>>
    BY <2>1 DEF NumbersRise
  <2>2. CASE net = ByHand
    BY <2>2 DEF NumbersRise, Generated, ByHand
  <2> QED
    BY <2>1, <2>2 DEF SelectionInit
<1>6. SearchInv /\ AnswerIsNearest
  BY <1>1, RoutingAssumption DEF SearchInv, AnswerIsNearest, NoQuery
<1> QED
  BY <1>1, <1>3, <1>4, <1>5, <1>6 DEF SelectionInv, AnnounceInv

LEMMA AnnounceStep ==
  ASSUME SelectionInv, Announce
  PROVE  SelectionInv' /\ UNCHANGED graph
<1>1. ReaderInv' /\ AnnounceInv'
  BY StartRoundKeeps, VisitKeeps DEF SelectionInv, Announce, AnnouncerNext
<1>2. ~Written /\ at' = at /\ graph' = graph
  <2>1. CASE StartRound
    <3>1. round \in Nat /\ net.rounds \in Nat
      BY WalkTyped DEF SelectionInv, AnnounceInv
    <3> QED
      BY <2>1, <3>1 DEF StartRound, Written, lsVars
  <2>2. CASE Visit
    BY <2>2 DEF Visit, Written
  <2> QED
    BY <2>1, <2>2 DEF Announce, AnnouncerNext
<1>3. at = 0 /\ graph = <<>>
  BY <1>2 DEF SelectionInv, AnnounceInv, ReadsWhenWritten
<1>4. InStep'
  BY <1>1, <1>2, <1>3, FreshInStepNext DEF ReaderInv, LinkStateTypeOK
<1>5. answer = NoQuery /\ answer' = answer
  BY <1>2 DEF SelectionInv, SearchInv, Started, Announce, routingVars
<1>6. SearchInv' /\ AnswerIsNearest'
  BY <1>5, RoutingAssumption DEF SearchInv, AnswerIsNearest, NoQuery
<1> QED
  BY <1>1, <1>2, <1>4, <1>6 DEF SelectionInv

LEMMA ReaderStep ==
  ASSUME SelectionInv, Read
  PROVE  SelectionInv'
<1>1. /\ Written /\ LinkStateNext
      /\ UNCHANGED <<net, round, visited, toVisit, answer>>
  BY DEF Read, walkVars, routingVars
<1>2. file' = file /\ at < Words(file)
  BY <1>1 DEF LinkStateNext, AddNode, UpdateNode, SkipStale
<1>3. ReaderInv' /\ InStep'
  BY <1>1, GraphStep, ReadStep DEF SelectionInv, ReaderInv
<1>4. Written'
  BY <1>1 DEF Written
<1>5. AnnounceInv'
  BY <1>1, <1>2, <1>4
     DEF SelectionInv, AnnounceInv, AnnouncerTypeOK, WalksLinks, Ends, ReadsWhenWritten,
         NumbersRise, Generated
<1>6. answer = NoQuery
  <2>1. at \in Nat /\ Words(file) \in Nat
    BY DEF SelectionInv, ReaderInv, LinkStateTypeOK, Words
  <2> QED
    BY <1>2, <2>1 DEF SelectionInv, SearchInv, Started
<1>7. SearchInv' /\ AnswerIsNearest'
  BY <1>1, <1>6, RoutingAssumption DEF SearchInv, AnswerIsNearest, NoQuery
<1> QED
  BY <1>3, <1>5, <1>7 DEF SelectionInv

(* A step that leaves script and reader alone leaves their invariants.     *)
LEMMA AnnouncerFrame ==
  ASSUME UNCHANGED announcerVars, ReaderInv, InStep, AnnounceInv
  PROVE  ReaderInv' /\ InStep' /\ AnnounceInv' /\ graph' = graph /\ (Started => Started')
<1>1. UNCHANGED <<net, round, visited, toVisit, file, at, graph>>
  BY DEF announcerVars, walkVars, lsVars
<1>2. ReaderInv' /\ InStep'
  BY <1>1 DEF ReaderInv, LinkStateTypeOK, NodesUnique, InStep, InOrder, ReadRecords, Latest, Told
<1>3. AnnounceInv'
  BY <1>1
     DEF AnnounceInv, AnnouncerTypeOK, WalksLinks, Ends, ReadsWhenWritten, Written,
         NumbersRise, Generated
<1> QED
  BY <1>1, <1>2, <1>3 DEF Started, Written, Words

LEMMA ServeStep ==
  ASSUME SelectionInv, Serve
  PROVE  SelectionInv'
<1>1. ReaderInv' /\ InStep' /\ AnnounceInv' /\ graph' = graph /\ Started /\ Started'
  BY AnnouncerFrame DEF SelectionInv, Serve
<1>2. Len(graph) \in Nat
  BY GraphLength DEF SelectionInv
<1>3. CASE Turn
  <2>1. SearchInv'
    BY <1>1, <1>2, <1>3, TurnKeeps DEF SelectionInv
  <2>2. AnswerIsNearest'
    BY <1>3 DEF Turn, AnswerIsNearest, Pending
  <2> QED
    BY <1>1, <2>1, <2>2 DEF SelectionInv
<1>4. CASE Choose
  BY <1>1, <1>2, <1>4, ChooseKeeps DEF SelectionInv
<1>5. CASE \E s \in Sources : Query(s)
  <2>1. PICK s \in Sources : Query(s)
    BY <1>5
  <2>2. SearchInv'
    BY <1>1, <1>2, <2>1, QueryKeeps DEF SelectionInv
  <2>3. AnswerIsNearest'
    BY <2>1 DEF Query, AnswerIsNearest, Pending
  <2> QED
    BY <1>1, <2>2, <2>3 DEF SelectionInv
<1> QED
  BY <1>3, <1>4, <1>5 DEF Serve, RoutingNext

LEMMA SelectionStutters ==
  ASSUME SelectionInv, UNCHANGED selectionVars
  PROVE  SelectionInv'
<1>1. UNCHANGED announcerVars /\ UNCHANGED <<src, dist, settled, turn, answer>>
  BY DEF selectionVars, routingVars
<1>2. ReaderInv' /\ InStep' /\ AnnounceInv' /\ graph' = graph /\ (Started => Started')
  BY <1>1, AnnouncerFrame DEF SelectionInv
<1>3. /\ Nodes' = Nodes /\ Rings(0)' = Rings(0)
      /\ \A i, j : ExistRoute(i, j)' = ExistRoute(i, j)
  BY <1>2, SameGraph
<1>4. NearestServer' = NearestServer
  BY <1>2 DEF NearestServer, At, NameOf, Nodes, Hops, Rings, ExistRoute
<1>5. SearchInv'
  BY <1>1, <1>2, <1>3
     DEF SelectionInv, SearchInv, SearchTyped, TurnsCounted, Reached, EdgesRelaxed,
         SettledFirst, Turns
<1> QED
  BY <1>1, <1>2, <1>4, <1>5 DEF SelectionInv, AnswerIsNearest

(* The invariant holds for any networks, files, servers and sources.       *)
THEOREM SelectionSafe == SelectionSpec => []SelectionInv
<1>1. SelectionInit => SelectionInv
  BY SelectionStart
<1>2. SelectionInv /\ [SelectionNext]_selectionVars => SelectionInv'
  BY AnnounceStep, ReaderStep, ServeStep, SelectionStutters DEF SelectionNext
<1> QED
  BY <1>1, <1>2, PTL DEF SelectionSpec

(* The types of the script, the reader and the search.                     *)
THEOREM SelectionTyped == SelectionSpec => []SelectionTypeOK
<1>1. SelectionInv => SelectionTypeOK
  <2> SUFFICES ASSUME SelectionInv PROVE SelectionTypeOK
    OBVIOUS
  <2>1. LinkStateTypeOK /\ AnnouncerTypeOK /\ Len(graph) \in Nat
    BY GraphLength DEF SelectionInv, ReaderInv, AnnounceInv
  <2>2. ASSUME answer # NoQuery
        PROVE  turn \in 0 .. Len(graph)
    <3>1. SearchTyped /\ TurnsCounted
      BY <2>2 DEF SelectionInv, SearchInv
    <3>2. Cardinality(settled) <= Cardinality(Nodes)
      BY <2>1, <3>1, NodesCounted, FS_Subset DEF SearchTyped
    <3> QED
      BY <2>1, <3>1, <3>2, NodesCounted DEF SearchTyped, TurnsCounted
  <2>3. RoutingTypeOK
    BY <2>2 DEF SelectionInv, SearchInv, SearchTyped, RoutingTypeOK
  <2> QED
    BY <2>1, <2>3 DEF SelectionTypeOK
<1> QED
  BY <1>1, SelectionSafe, PTL

(* graph_init leaves no name twice in the list, whoever wrote the file.    *)
THEOREM NodesUniqueInSelection == SelectionSpec => []NodesUnique
<1>1. SelectionInv => NodesUnique
  BY DEF SelectionInv, ReaderInv
<1> QED
  BY <1>1, SelectionSafe, PTL

(* No step of the whole lowers a node's number, renames it or moves it.    *)
THEOREM NumbersNeverFallInSelection == SelectionSpec => SeqsNeverFall
<1> DEFINE Kept == \A k \in 1 .. Len(graph) :
                     LET old == graph[Len(graph) + 1 - k]
                         new == graph'[Len(graph') + 1 - k]
                     IN  new.name = old.name /\ new.seq >= old.seq
<1>1. SelectionInv /\ graph' = graph => Kept
  <2> SUFFICES ASSUME SelectionInv, graph' = graph,
                      NEW k \in 1 .. Len(graph)
               PROVE  graph[Len(graph) + 1 - k].seq \in Nat
    OBVIOUS
  <2>1. graph \in Seq(Node) /\ Len(graph) + 1 - k \in DOMAIN graph
    BY DEF SelectionInv, ReaderInv, LinkStateTypeOK
  <2>2. graph[Len(graph) + 1 - k] \in Node
    BY <2>1
  <2> QED
    BY <2>2 DEF Node
<1>2. SelectionInv /\ [SelectionNext]_selectionVars => [Kept]_lsVars
  <2>1. ASSUME SelectionInv, Announce PROVE Kept
    BY <1>1, <2>1, AnnounceStep
  <2>2. ASSUME SelectionInv, Read PROVE Kept
    BY <2>2, GraphStep DEF SelectionInv, ReaderInv, Read
  <2>3. Serve => UNCHANGED lsVars
    BY DEF Serve, announcerVars
  <2>4. UNCHANGED selectionVars => UNCHANGED lsVars
    BY DEF selectionVars, announcerVars
  <2> HIDE DEF Kept
  <2> QED
    BY <2>1, <2>2, <2>3, <2>4 DEF SelectionNext
<1> QED
  BY <1>2, SelectionSafe, PTL DEF SelectionSpec, SeqsNeverFall

(* A file the script wrote has its numbers in order, whatever was lost.    *)
THEOREM ScriptsFileInOrder == SelectionSpec => [](Generated => InOrder(file))
<1>1. SelectionInv => (Generated => InOrder(file))
  BY DEF SelectionInv, AnnounceInv, NumbersRise, InOrder
<1> QED
  BY <1>1, SelectionSafe, PTL

(* For a file in order, the script's among them, the graph is what each    *)
(* sender announced last.                                                  *)
THEOREM LatestHeardInSelection == SelectionSpec => []GraphIsLatest
<1>1. SelectionInv => GraphIsLatest
  BY DEF SelectionInv, InStep, GraphIsLatest, Told
<1> QED
  BY <1>1, SelectionSafe, PTL

(* At every turn of every query the distances of the settled nodes are     *)
(* their numbers of hops and no other is less, on any graph.               *)
THEOREM SearchIsExact == SelectionSpec => []SettledAreExact
<1>1. SelectionInv => SettledAreExact
  BY Exact, GraphLength DEF SelectionInv, SearchInv, SettledAreExact, SearchTyped
<1> QED
  BY <1>1, SelectionSafe, PTL

(* Whatever the graph, the queries and the servers, the answer is the      *)
(* nearest server, counted from the head of the list, or NULL when none is *)
(* within eight hops.                                                      *)
THEOREM AnswersNearest == SelectionSpec => []AnswerIsNearest
<1>1. SelectionInv => AnswerIsNearest
  BY DEF SelectionInv
<1> QED
  BY <1>1, SelectionSafe, PTL
-----------------------------------------------------------------------------
(* Distances in the network                                                *)

Linked(x, y) == \E l \in DOMAIN net.links : Ends(l) = {x, y}
Wider(c) == c \cup UNION {Ends(l) : l \in Touching(c)}

(* The recursion of Circles has a solution, so each is the one before it   *)
(* and what is a link away.                                                *)
LEMMA CirclesShape ==
  ASSUME net \in Network, NEW n \in Name
  PROVE  /\ Len(net.links) \in Nat /\ DOMAIN net.links = 1 .. Len(net.links)
         /\ DOMAIN Circles(n) = 1 .. Len(net.links) + 1
         /\ Circles(n)[1] = {n}
         /\ \A k \in 1 .. Len(net.links) : Circles(n)[k + 1] = Wider(Circles(n)[k])
         /\ \A k \in 1 .. Len(net.links) + 1 : Circles(n)[k] \subseteq Name
<1> DEFINE N == Len(net.links)
           first == <<{n}>>
           kind == [k \in 0 .. N |->
                      {w \in Seq(SUBSET Name) :
                         /\ Len(w) = k + 1
                         /\ w[1] = {n}
                         /\ \A j \in 1 .. k : w[j + 1] = Wider(w[j])}]
           step == [k \in 1 .. N |-> [w \in kind[k - 1] |-> Append(w, Wider(w[k]))]]
           Next(w, k) == Append(w, w[k] \cup UNION {Ends(l) : l \in Touching(w[k])})
           IsWithin(f) == f = [k \in 0 .. N |->
                                 IF k = 0 THEN <<{n}>> ELSE LET w == f[k - 1] IN Next(w, k)]
<1>0. net.links \in Seq(Name \X Name)
  BY DEF Network
<1>1. N \in Nat /\ DOMAIN net.links = 1 .. N
  BY <1>0
<1>2. \A R \in SUBSET Name : Wider(R) \in SUBSET Name
  <2>1. \A l \in DOMAIN net.links : Ends(l) \subseteq Name
    BY <1>0 DEF Ends
  <2> QED
    BY <2>1 DEF Wider, Touching
<1>3. \A k \in 0 .. N : \A w :
        w \in kind[k] <=>
          w \in Seq(SUBSET Name) /\ Len(w) = k + 1 /\ w[1] = {n}
            /\ \A j \in 1 .. k : w[j + 1] = Wider(w[j])
  OBVIOUS
<1>4. \A w, k : Next(w, k) = Append(w, Wider(w[k]))
  BY DEF Wider
<1>5. {n} \in SUBSET Name
  OBVIOUS
<1> HIDE DEF kind, N
<1>6. first \in kind[0]
  <2>1. first \in Seq(SUBSET Name) /\ Len(first) = 1 /\ first[1] = {n}
    BY <1>5
  <2>2. 0 \in 0 .. N /\ 0 + 1 = 1 /\ 1 .. 0 = {}
    BY <1>1
  <2> QED
    BY <1>3, <2>1, <2>2
<1>7. ASSUME NEW k \in 1 .. N, NEW w \in kind[k - 1]
      PROVE  Append(w, Wider(w[k])) \in kind[k]
  <2>0. k - 1 \in 0 .. N /\ k \in 0 .. N /\ (k - 1) + 1 = k
    BY <1>1
  <2>1. /\ w \in Seq(SUBSET Name) /\ Len(w) = k /\ w[1] = {n}
        /\ \A j \in 1 .. k - 1 : w[j + 1] = Wider(w[j])
    BY <1>3, <2>0
  <2> DEFINE R == Wider(w[k])
  <2>2. R \in SUBSET Name
    BY <1>2, <2>1
  <2>3. R = Wider(w[k])
    OBVIOUS
  <2> HIDE DEF R
  <2>4. /\ Append(w, R) \in Seq(SUBSET Name) /\ Len(Append(w, R)) = k + 1
        /\ Append(w, R)[k + 1] = R
        /\ \A j \in 1 .. k : Append(w, R)[j] = w[j]
    BY <2>1, <2>2
  <2>5. \A j \in 1 .. k : Append(w, R)[j + 1] = Wider(Append(w, R)[j])
    <3> SUFFICES ASSUME NEW j \in 1 .. k
                 PROVE  Append(w, R)[j + 1] = Wider(Append(w, R)[j])
      OBVIOUS
    <3>1. CASE j = k
      BY <2>3, <2>4, <3>1
    <3>2. CASE j # k
      <4>1. j \in 1 .. k - 1 /\ j + 1 \in 1 .. k
        BY <3>2
      <4> QED
        BY <2>1, <2>4, <4>1
    <3> QED
      BY <3>1, <3>2
  <2>6. Append(w, R)[1] = {n}
    <3>1. 1 \in 1 .. k
      OBVIOUS
    <3> QED
      BY <2>1, <2>4, <3>1
  <2>7. Append(w, R) \in kind[k]
    BY <1>3, <2>0, <2>4, <2>5, <2>6
  <2> QED
    BY <2>7 DEF R
<1>8. \E f : IsWithin(f)
  <2>1. \A k \in 1 .. N : step[k] \in [kind[k - 1] -> kind[k]]
    BY <1>7
  <2>2. \A k \in 1 .. N : \A w \in kind[k - 1] : step[k][w] = Next(w, k)
    BY <1>4
  <2> HIDE DEF step, first
  <2>3. PICK f : HasSteps(f, N, kind, first, step)
    <3>1. StepsFit(N, kind, first, step)
      BY <1>1, <1>6, <2>1 DEF StepsFit
    <3> QED
      BY <3>1, StepwiseExists
  <2> HIDE DEF Next
  <2>4. \A k \in 0 .. N : f[k] = IF k = 0 THEN first ELSE Next(f[k - 1], k)
    <3>1. \A k \in 0 .. N : k # 0 => k \in 1 .. N /\ k - 1 \in 0 .. N
      BY <1>1
    <3> QED
      BY <2>2, <2>3, <3>1 DEF HasSteps
  <2>5. f = [k \in 0 .. N |-> IF k = 0 THEN first ELSE Next(f[k - 1], k)]
    BY <2>3, <2>4 DEF HasSteps
  <2>6. IsWithin(f)
    BY <2>5 DEF first
  <2> QED
    BY <2>6
<1> DEFINE g == CHOOSE f : IsWithin(f)
<1>9. IsWithin(g)
  BY <1>8
<1>10. Circles(n) = g[N]
  BY DEF Circles, N
<1> HIDE DEF g
<1>11. \A k \in 0 .. N : g[k] = IF k = 0 THEN first ELSE Append(g[k - 1], Wider(g[k - 1][k]))
  BY <1>4, <1>9
<1> DEFINE G == {k \in 0 .. N : g[k] \in kind[k]}
<1>12. 0 \in G
  <2>1. 0 \in 0 .. N
    BY <1>1
  <2> HIDE DEF first
  <2> QED
    BY <1>6, <1>11, <2>1
<1>13. ASSUME NEW k \in 1 .. N, k - 1 \in G
       PROVE  k \in G
  <2>1. k \in 0 .. N /\ k # 0 /\ g[k - 1] \in kind[k - 1]
    BY <1>1, <1>13
  <2> QED
    BY <1>7, <1>11, <2>1
<1> HIDE DEF G
<1>14. N \in 0 .. N /\ N \in G
  BY <1>1, <1>12, <1>13, StretchInduction
<1>15. g[N] \in kind[N]
  BY <1>14 DEF G
<1>16. /\ Len(g[N]) = N + 1 /\ g[N] \in Seq(SUBSET Name) /\ g[N][1] = {n}
       /\ \A j \in 1 .. N : g[N][j + 1] = Wider(g[N][j])
  BY <1>1, <1>3, <1>14, <1>15
<1>17. DOMAIN g[N] = 1 .. N + 1 /\ \A k \in 1 .. N + 1 : g[N][k] \subseteq Name
  BY <1>1, <1>16
<1> QED
  BY <1>1, <1>10, <1>16, <1>17 DEF N

(* There are no more circles to come than there are links: each that is    *)
(* not the last is touched by a link the ones before it are not.           *)
LEMMA CirclesClosed ==
  ASSUME net \in Network, NEW n \in Name
  PROVE  Wider(Circles(n)[Len(net.links) + 1]) = Circles(n)[Len(net.links) + 1]
<1> DEFINE N == Len(net.links)
           c == Circles(n)
           T(k) == Touching(c[k])
           Closed(k) == Wider(c[k]) = c[k]
           G == {k \in 0 .. N : Closed(k + 1) \/ Cardinality(T(k + 1)) >= k + 1}
<1>1. /\ N \in Nat /\ DOMAIN net.links = 1 .. N
      /\ \A k \in 1 .. N : c[k + 1] = Wider(c[k])
  BY CirclesShape
<1>2. IsFiniteSet(1 .. N) /\ Cardinality(1 .. N) = N
  <2>1. 1 \in Int /\ N \in Int
    BY <1>1
  <2>2. IsFiniteSet(1 .. N) /\ Cardinality(1 .. N) = IF 1 > N THEN 0 ELSE N - 1 + 1
    BY <2>1, FS_Interval
  <2> QED
    BY <1>1, <2>2
<1>3. \A k : T(k) \subseteq 1 .. N
  BY <1>1 DEF Touching
<1>4. \A k : IsFiniteSet(T(k)) /\ Cardinality(T(k)) \in Nat /\ Cardinality(T(k)) <= N
  <2> HIDE DEF T, N
  <2> QED
    BY <1>2, <1>3, FS_Subset, FS_CardinalityType
<1>5. \A k : ~Closed(k) => \E l \in T(k) : ~(Ends(l) \subseteq c[k])
  BY DEF Wider
<1>6. 0 \in G
  <2>1. 0 \in 0 .. N /\ 0 + 1 = 1
    BY <1>1
  <2>2. ASSUME ~Closed(1) PROVE Cardinality(T(1)) >= 1
    <3>1. T(1) # {}
      BY <1>5, <2>2
    <3> HIDE DEF T
    <3>2. Cardinality(T(1)) # 0
      BY <1>4, <3>1, FS_EmptySet
    <3> QED
      BY <1>4, <3>2
  <2> HIDE DEF T, Closed
  <2> QED
    BY <2>1, <2>2
<1>7. ASSUME NEW k \in 1 .. N, k - 1 \in G PROVE k \in G
  <2>1. k \in 0 .. N /\ (k - 1) + 1 = k /\ k \in Nat /\ k + 1 \in Nat
    BY <1>1
  <2>2. c[k + 1] = Wider(c[k])
    BY <1>1
  <2>3. CASE Closed(k)
    <3>1. c[k + 1] = c[k]
      BY <2>2, <2>3
    <3>2. Closed(k + 1)
      BY <2>3, <3>1
    <3> QED
      BY <2>1, <3>2
  <2>4. CASE Cardinality(T(k)) >= k /\ ~Closed(k + 1)
    <3>1. PICK l \in T(k + 1) : ~(Ends(l) \subseteq c[k + 1])
      BY <1>5, <2>4
    <3>2. l \notin T(k)
      BY <2>2, <3>1 DEF Wider
    <3>3. T(k) \cup {l} \subseteq T(k + 1)
      BY <2>2, <3>1 DEF Wider, Touching
    <3> HIDE DEF T
    <3>4. Cardinality(T(k) \cup {l}) = Cardinality(T(k)) + 1
      BY <1>4, <3>2, FS_AddElement
    <3>5. Cardinality(T(k) \cup {l}) <= Cardinality(T(k + 1))
      BY <1>4, <3>3, FS_Subset
    <3>6. Cardinality(T(k + 1)) >= k + 1
      <4>1. Cardinality(T(k)) \in Nat /\ Cardinality(T(k + 1)) \in Nat
        BY <1>4
      <4> QED
        BY <2>1, <2>4, <3>4, <3>5, <4>1
    <3> QED
      BY <2>1, <3>6
  <2>5. Closed(k) \/ Cardinality(T(k)) >= k
    BY <1>7, <2>1
  <2>6. CASE Closed(k + 1)
    BY <2>1, <2>6
  <2> HIDE DEF G
  <2> QED
    BY <2>3, <2>4, <2>5, <2>6
<1> HIDE DEF G
<1>8. N \in G
  <2>1. \A k \in 1 .. N : k - 1 \in G => k \in G
    BY <1>7
  <2>2. N \in 0 .. N
    BY <1>1
  <2> QED
    BY <1>1, <1>6, <2>1, <2>2, StretchInduction
<1>9. ~(Cardinality(T(N + 1)) >= N + 1)
  <2> HIDE DEF T
  <2>1. Cardinality(T(N + 1)) \in Nat /\ Cardinality(T(N + 1)) <= N
    BY <1>4
  <2> QED
    BY <1>1, <2>1
<1> QED
  BY <1>8, <1>9 DEF G

(* What the distances from s are: 0 of s alone, one more at most on the    *)
(* other end of a link, and of everything else that can be reached one     *)
(* more than of something it is linked to.                                 *)
Metric(s, d) ==
  /\ Len(net.links) \in Nat
  /\ \A m \in Name : d[m] \in 0 .. Len(net.links) + 1
  /\ \A m \in Name : d[m] = 0 <=> m = s
  /\ \A x, y \in Name : Linked(x, y) => d[y] <= d[x] + 1
  /\ \A x, y \in Name : Linked(x, y) /\ d[x] <= Len(net.links) => d[y] <= Len(net.links)
  /\ \A m \in Name : d[m] \in 1 .. Len(net.links) =>
       \E x \in Name : Linked(x, m) /\ d[x] = d[m] - 1

LEMMA InCircle ==
  ASSUME net \in Network, NEW s \in Name, NEW m \in Name
  PROVE  /\ LinksFrom(s)[m] \in 0 .. Len(net.links) + 1
         /\ \A k \in 1 .. Len(net.links) + 1 : m \in Circles(s)[k] <=> LinksFrom(s)[m] < k
<1> DEFINE c == Circles(s)
           N == Len(net.links) + 1
<1>1. /\ N \in Nat /\ DOMAIN c = 1 .. N
      /\ \A k \in 1 .. N - 1 : m \in c[k] => m \in c[k + 1]
  <2>1. /\ N \in Nat /\ N - 1 = Len(net.links) /\ DOMAIN c = 1 .. N
        /\ \A k \in 1 .. Len(net.links) : c[k + 1] = Wider(c[k])
    BY CirclesShape
  <2> QED
    BY <2>1 DEF Wider
<1>2. LinksFrom(s)[m] = Cardinality({k \in DOMAIN c : m \notin c[k]})
  BY DEF LinksFrom
<1> HIDE DEF c, N
<1>3. \E h \in 0 .. N : /\ h = Cardinality({k \in 1 .. N : m \notin c[k]})
                        /\ \A k \in 1 .. N : m \in c[k] <=> h < k
  BY <1>1, RisingCount
<1> QED
  BY <1>1, <1>2, <1>3 DEF c, N

LEMMA Distances ==
  ASSUME net \in Network, NEW s \in Name
  PROVE  Metric(s, LinksFrom(s))
<1> DEFINE N == Len(net.links)
           c == Circles(s)
           d == LinksFrom(s)
<1>1. /\ N \in Nat /\ c[1] = {s}
      /\ \A k \in 1 .. N : c[k + 1] = Wider(c[k])
      /\ Wider(c[N + 1]) = c[N + 1]
  BY CirclesShape, CirclesClosed
<1>2. /\ \A m \in Name : d[m] \in 0 .. N + 1
      /\ \A m \in Name : \A k \in 1 .. N + 1 : m \in c[k] <=> d[m] < k
  BY InCircle
<1>3. \A k : \A x, y : Linked(x, y) /\ x \in c[k] => y \in Wider(c[k])
  BY DEF Linked, Wider, Touching
<1>4. \A l \in DOMAIN net.links : \A x, y \in Ends(l) : x # y => Ends(l) = {x, y}
  BY DEF Ends
<1>5. \A l \in DOMAIN net.links : Ends(l) \subseteq Name
  BY DEF Ends, Network
<1> HIDE DEF N, c, d
<1>6. \A m \in Name : d[m] = 0 <=> m = s
  <2>1. 1 \in 1 .. N + 1
    BY <1>1
  <2>2. \A m \in Name : m = s <=> d[m] < 1
    BY <1>1, <1>2, <2>1
  <2>3. \A m \in Name : d[m] < 1 <=> d[m] = 0
    <3> SUFFICES ASSUME NEW m \in Name PROVE d[m] < 1 <=> d[m] = 0
      OBVIOUS
    <3>1. d[m] \in 0 .. N + 1
      BY <1>2
    <3> QED
      BY <1>1, <3>1
  <2> QED
    BY <2>2, <2>3
<1>7. ASSUME NEW x \in Name, NEW y \in Name, Linked(x, y)
      PROVE  d[y] <= d[x] + 1 /\ (d[x] <= N => d[y] <= N)
  <2>1. d[x] \in 0 .. N + 1 /\ d[y] \in 0 .. N + 1
    BY <1>2
  <2>2. CASE d[x] >= N
    <3>1. ASSUME d[x] = N PROVE d[y] <= N
      <4>1. N + 1 \in 1 .. N + 1 /\ d[x] < N + 1
        BY <1>1, <3>1
      <4>2. x \in c[N + 1]
        BY <1>2, <4>1
      <4>3. y \in c[N + 1]
        <5>1. y \in Wider(c[N + 1])
          BY <1>3, <1>7, <4>2
        <5> QED
          BY <1>1, <5>1
      <4>4. d[y] < N + 1
        BY <1>2, <4>1, <4>3
      <4> QED
        BY <1>1, <2>1, <4>4
    <3> QED
      BY <1>1, <2>1, <2>2, <3>1
  <2>3. CASE d[x] < N
    <3> DEFINE k == d[x] + 1
    <3>1. k \in 1 .. N /\ k \in 1 .. N + 1 /\ k + 1 \in 1 .. N + 1 /\ d[x] < k
      BY <1>1, <2>1, <2>3
    <3>2. d[y] < k + 1 => d[y] <= d[x] + 1 /\ d[y] <= N
      BY <1>1, <2>1, <2>3
    <3> HIDE DEF k
    <3>3. x \in c[k]
      BY <1>2, <3>1
    <3>4. y \in c[k + 1]
      <4>1. y \in Wider(c[k])
        BY <1>3, <1>7, <3>3
      <4>2. c[k + 1] = Wider(c[k])
        BY <1>1, <3>1
      <4> QED
        BY <4>1, <4>2
    <3>5. d[y] < k + 1
      BY <1>2, <3>1, <3>4
    <3> QED
      BY <3>2, <3>5
  <2> QED
    BY <1>1, <2>1, <2>2, <2>3
<1>8. ASSUME NEW m \in Name, d[m] \in 1 .. N
      PROVE  \E x \in Name : Linked(x, m) /\ d[x] = d[m] - 1
  <2> DEFINE k == d[m]
  <2>1. k \in 1 .. N /\ k \in 1 .. N + 1 /\ k + 1 \in 1 .. N + 1 /\ ~(k < k) /\ k < k + 1
    BY <1>1, <1>8
  <2>2. m \in c[k + 1] /\ m \notin c[k]
    BY <1>2, <2>1
  <2>3. m \in Wider(c[k])
    BY <1>1, <2>1, <2>2
  <2>4. PICK l \in Touching(c[k]) : m \in Ends(l)
    BY <2>2, <2>3 DEF Wider
  <2>5. PICK x \in Ends(l) : x \in c[k]
    BY <2>4 DEF Touching
  <2>6. l \in DOMAIN net.links /\ x # m /\ Ends(l) = {x, m} /\ x \in Name
    BY <1>4, <1>5, <2>2, <2>4, <2>5 DEF Touching
  <2>7. Linked(x, m)
    BY <2>6 DEF Linked
  <2>8. d[x] < k
    BY <1>2, <2>1, <2>5, <2>6
  <2>9. k <= d[x] + 1
    BY <1>7, <2>6, <2>7
  <2>10. d[x] \in 0 .. N + 1
    BY <1>2, <2>6
  <2>11. d[x] = k - 1
    BY <1>1, <2>1, <2>8, <2>9, <2>10
  <2> QED
    BY <2>6, <2>7, <2>11
<1> QED
  BY <1>1, <1>2, <1>6, <1>7, <1>8 DEF Metric, N, d

(* What can be reached is what has a distance of no more than all links.   *)
LEMMA ReachedIsNear ==
  ASSUME net \in Network
  PROVE  Connected = {m \in Name : LinksFrom(net.sink)[m] <= Len(net.links)} \ {net.sink}
<1> DEFINE N == Len(net.links)
           d == LinksFrom(net.sink)
           c == Circles(net.sink)
<1>1. net.sink \in Name
  BY DEF Network
<1>2. N \in Nat /\ c[N + 1] \subseteq Name
  <2>1. N \in Nat /\ \A k \in 1 .. N + 1 : c[k] \subseteq Name
    BY <1>1, CirclesShape
  <2>2. N + 1 \in 1 .. N + 1
    BY <2>1
  <2> QED
    BY <2>1, <2>2
<1>3. \A m \in Name : d[m] \in 0 .. N + 1 /\ (m \in c[N + 1] <=> d[m] < N + 1)
  <2>1. \A m \in Name : d[m] \in 0 .. N + 1 /\ \A k \in 1 .. N + 1 : m \in c[k] <=> d[m] < k
    BY <1>1, InCircle
  <2>2. N + 1 \in 1 .. N + 1
    BY <1>2
  <2> QED
    BY <2>1, <2>2
<1> HIDE DEF N, d, c
<1>4. \A m \in Name : m \in c[N + 1] <=> d[m] <= N
  <2> SUFFICES ASSUME NEW m \in Name PROVE m \in c[N + 1] <=> d[m] <= N
    OBVIOUS
  <2>1. d[m] \in 0 .. N + 1 /\ (m \in c[N + 1] <=> d[m] < N + 1)
    BY <1>3
  <2> QED
    BY <1>2, <2>1
<1>5. Connected = c[N + 1] \ {net.sink}
  BY DEF Connected, c, N
<1> QED
  BY <1>2, <1>4, <1>5 DEF N, d

-----------------------------------------------------------------------------
(* The walk *)

LEMMA LinkedEnds ==
  ASSUME net \in Network
  PROVE  \A x, y : Linked(x, y) => Linked(y, x) /\ x \in Name /\ y \in Name
<1>1. \A l \in DOMAIN net.links : Ends(l) \subseteq Name
  BY DEF Ends, Network
<1> QED
  BY <1>1 DEF Linked

LEMMA LinkedNeighbors ==
  ASSUME net \in Network, NEW n
  PROVE  \A y : Linked(n, y) <=> \E i \in DOMAIN Neighbors(n) : Neighbors(n)[i] = y
<1> DEFINE nbrs == Neighbors(n)
<1>1. /\ \A i \in DOMAIN nbrs : \E l \in DOMAIN net.links : Ends(l) = {n, nbrs[i]}
      /\ \A l \in DOMAIN net.links : n \in Ends(l) =>
           \E i \in DOMAIN nbrs : Ends(l) = {n, nbrs[i]}
  BY NeighborsShape
<1> HIDE DEF nbrs
<1>2. ASSUME NEW y, Linked(n, y) PROVE \E i \in DOMAIN nbrs : nbrs[i] = y
  <2>1. PICK l \in DOMAIN net.links : Ends(l) = {n, y}
    BY <1>2 DEF Linked
  <2>2. PICK i \in DOMAIN nbrs : Ends(l) = {n, nbrs[i]}
    BY <1>1, <2>1
  <2>3. nbrs[i] = y
    BY <2>1, <2>2
  <2> QED
    BY <2>3
<1> QED
  BY <1>1, <1>2 DEF Linked, nbrs

(* If what lies beyond V is as far as K then all that is nearer is in V.   *)
LEMMA NearerInside ==
  ASSUME NEW s, NEW d, Metric(s, d), NEW V, s \in V,
         NEW K \in Nat, K <= Len(net.links) + 1,
         \A x \in V : \A y \in Name : Linked(x, y) => y \in V \/ d[y] >= K
  PROVE  \A y \in Name : d[y] < K => y \in V
<1> DEFINE L == Len(net.links)
           S == {y \in Name : d[y] < K /\ y \notin V}
           F == {d[y] : y \in S}
<1> SUFFICES ASSUME NEW z \in Name, d[z] < K, z \notin V PROVE FALSE
  OBVIOUS
<1>1. L \in Nat /\ \A m \in Name : d[m] \in 0 .. L + 1
  BY DEF Metric
<1>2. F \in SUBSET Nat /\ F # {}
  <2>1. S \subseteq Name /\ z \in S
    OBVIOUS
  <2> HIDE DEF S
  <2> QED
    BY <1>1, <2>1
<1> HIDE DEF F
<1>3. PICK f \in F : \A g \in F : f <= g
  BY <1>2, LeastExists
<1>4. PICK y \in Name : d[y] = f /\ d[y] < K /\ y \notin V
  BY <1>3 DEF F
<1>5. d[y] # 0
  BY <1>4 DEF Metric
<1>6. d[y] \in 1 .. L
  BY <1>1, <1>4, <1>5
<1>7. PICK x \in Name : Linked(x, y) /\ d[x] = d[y] - 1
  BY <1>6 DEF Metric
<1>8. d[x] < K /\ ~(f <= d[x]) /\ ~(d[y] >= K)
  BY <1>1, <1>4, <1>6, <1>7
<1>9. x \in V
  BY <1>3, <1>7, <1>8 DEF F
<1> QED
  BY <1>4, <1>7, <1>8, <1>9

(* The walk has come by V and q waits: d being the distances, the queue is *)
(* sorted by them, none in V is farther than what waits, and whatever is   *)
(* linked to V is in V or waits.                                           *)
Walk(V, q, d) ==
  /\ net.sink \in V
  /\ \A i \in DOMAIN q : q[i] \notin V
  /\ \A i, j \in DOMAIN q : q[i] = q[j] => i = j
  /\ \A x \in V : \A y \in Name : Linked(x, y) => y \in V \/ \E i \in DOMAIN q : q[i] = y
  /\ \A x \in V : d[x] <= Len(net.links)
  /\ \A i \in DOMAIN q : d[q[i]] <= Len(net.links)
  /\ \A i, j \in DOMAIN q : i < j => d[q[i]] <= d[q[j]] /\ d[q[j]] <= d[q[i]] + 1
  /\ \A x \in V : \A i \in DOMAIN q : d[x] <= d[q[i]]

LEMMA WalkStarts ==
  ASSUME net \in Networks \cup {ByHand}, NEW d, Metric(net.sink, d)
  PROVE  Walk({net.sink}, Neighbors(net.sink), d)
<1> DEFINE s == net.sink
           q == Neighbors(s)
           L == Len(net.links)
<1>1. net \in Network /\ L \in Nat /\ s \in Name
  BY NetShape DEF Metric, Network
<1>2. q \in Seq(Name) /\ \A i, j \in DOMAIN q : q[i] = q[j] => i = j
  BY <1>1, NetShape, NeighborsShape
<1>3. \A y : Linked(s, y) <=> \E i \in DOMAIN q : q[i] = y
  BY <1>1, LinkedNeighbors
<1>4. \A x, y : Linked(x, y) => x # y
  <2>1. \A l \in DOMAIN net.links : net.links[l][1] # net.links[l][2]
    BY NetShape
  <2>2. \A l \in DOMAIN net.links : \A x : Ends(l) # {x}
    BY <2>1 DEF Ends
  <2> QED
    BY <2>2 DEF Linked
<1> HIDE DEF q
<1>5. d[s] = 0
  BY <1>1 DEF Metric
<1>6. ASSUME NEW i \in DOMAIN q
      PROVE  q[i] # s /\ d[q[i]] = 1 /\ d[q[i]] <= L
  <2>1. q[i] \in Name /\ Linked(s, q[i]) /\ q[i] # s
    BY <1>2, <1>3, <1>4
  <2>2. d[q[i]] \in 0 .. L + 1 /\ d[q[i]] # 0 /\ d[q[i]] <= d[s] + 1
    BY <1>1, <2>1 DEF Metric
  <2>3. d[s] <= L
    BY <1>1, <1>5
  <2>4. d[q[i]] <= L
    BY <1>1, <2>1, <2>3 DEF Metric
  <2> QED
    BY <1>1, <1>5, <2>1, <2>2, <2>4
<1>7. Walk({s}, q, d)
  BY <1>1, <1>2, <1>3, <1>5, <1>6 DEF Walk
<1> QED
  BY <1>7 DEF q

(* What the walk finds at the next node is one link farther, so it belongs *)
(* at the end of the queue.                                                *)
LEMMA WalkGoesOn ==
  ASSUME net \in Networks \cup {ByHand}, NEW d, Metric(net.sink, d),
         NEW V \in SUBSET Name, NEW q \in Seq(Name), q # <<>>, Walk(V, q, d),
         NEW new \in Seq(Name),
         \A i \in DOMAIN new : /\ Linked(q[1], new[i])
                               /\ new[i] \notin V \cup {q[1]}
                               /\ \A j \in 2 .. Len(q) : new[i] # q[j],
         \A y \in Name : Linked(q[1], y) =>
           \/ y \in V \cup {q[1]}
           \/ \E j \in 2 .. Len(q) : q[j] = y
           \/ \E i \in DOMAIN new : new[i] = y,
         \A i, j \in DOMAIN new : new[i] = new[j] => i = j
  PROVE  Walk(V \cup {q[1]}, Tail(q) \o new, d)
<1> DEFINE n == q[1]
           t == Tail(q)
           z == t \o new
           L == Len(net.links)
           N == Len(q)
           M == Len(new)
<1>1. /\ N \in Nat /\ N >= 1 /\ DOMAIN q = 1 .. N /\ n \in Name /\ 1 \in DOMAIN q
      /\ M \in Nat /\ DOMAIN new = 1 .. M
  OBVIOUS
<1>2. t \in Seq(Name) /\ Len(t) = N - 1 /\ \A i \in 1 .. N - 1 : t[i] = q[i + 1]
  BY <1>1
<1>3. L \in Nat /\ \A m \in Name : d[m] \in 0 .. L + 1
  BY DEF Metric
<1>4. /\ net.sink \in V
      /\ \A i \in 1 .. N : q[i] \notin V /\ d[q[i]] <= L /\ q[i] \in Name
      /\ \A i, j \in 1 .. N : q[i] = q[j] => i = j
      /\ \A x \in V : \A y \in Name : Linked(x, y) => y \in V \/ \E i \in 1 .. N : q[i] = y
      /\ \A x \in V : d[x] <= L
      /\ \A i, j \in 1 .. N : i < j => d[q[i]] <= d[q[j]] /\ d[q[j]] <= d[q[i]] + 1
      /\ \A x \in V : \A i \in 1 .. N : d[x] <= d[q[i]]
  <2>1. DOMAIN q = 1 .. N /\ \A i \in 1 .. N : q[i] \in Name
    BY <1>1
  <2>2. /\ net.sink \in V
        /\ \A i \in DOMAIN q : q[i] \notin V /\ d[q[i]] <= L
        /\ \A i, j \in DOMAIN q : q[i] = q[j] => i = j
        /\ \A x \in V : \A y \in Name : Linked(x, y) => y \in V \/ \E i \in DOMAIN q : q[i] = y
        /\ \A x \in V : d[x] <= L
        /\ \A i, j \in DOMAIN q : i < j => d[q[i]] <= d[q[j]] /\ d[q[j]] <= d[q[i]] + 1
        /\ \A x \in V : \A i \in DOMAIN q : d[x] <= d[q[i]]
    BY Zenon DEF Walk
  <2> HIDE DEF N, L, n
  <2> QED
    BY <2>1, <2>2
<1>5. /\ \A i \in 1 .. M : /\ Linked(n, new[i]) /\ new[i] \notin V \cup {n}
                           /\ \A j \in 2 .. N : new[i] # q[j]
      /\ \A i, j \in 1 .. M : new[i] = new[j] => i = j
      /\ \A i \in 1 .. M : new[i] \in Name
  BY <1>1
<1>6. \A y \in Name : Linked(n, y) =>
         y \in V \cup {n} \/ (\E j \in 2 .. N : q[j] = y) \/ \E i \in 1 .. M : new[i] = y
  BY <1>1
<1> HIDE DEF t, N, M, L
<1>7. /\ z \in Seq(Name) /\ DOMAIN z = 1 .. N - 1 + M
      /\ \A k \in 1 .. N - 1 : z[k] = q[k + 1]
      /\ \A i \in 1 .. M : z[N - 1 + i] = new[i]
  <2>1. z \in Seq(Name) /\ Len(z) = N - 1 + M
    <3>1. t \in Seq(Name) /\ new \in Seq(Name)
      BY <1>2
    <3>2. z \in Seq(Name) /\ Len(z) = Len(t) + Len(new)
      BY <3>1
    <3> QED
      BY <1>2, <3>2 DEF M
  <2>2. \A k \in 1 .. N - 1 + M : z[k] = IF k <= N - 1 THEN t[k] ELSE new[k - (N - 1)]
    BY <1>1, <1>2 DEF M
  <2> HIDE DEF z
  <2>3. \A k \in 1 .. N - 1 : z[k] = q[k + 1]
    BY <1>1, <1>2, <2>2
  <2>4. \A i \in 1 .. M : N - 1 + i \in 1 .. N - 1 + M /\ ~(N - 1 + i <= N - 1) /\ (N - 1 + i) - (N - 1) = i
    BY <1>1
  <2> QED
    BY <2>1, <2>2, <2>3, <2>4
<1> HIDE DEF z, n
<1>8. \A k \in DOMAIN z :
        \/ /\ k \in 1 .. N - 1 /\ k + 1 \in 2 .. N /\ k + 1 \in 1 .. N /\ z[k] = q[k + 1]
        \/ \E i \in 1 .. M : k = N - 1 + i /\ z[k] = new[i]
  <2> SUFFICES ASSUME NEW k \in 1 .. N - 1 + M, ~(k \in 1 .. N - 1)
               PROVE  \E i \in 1 .. M : k = N - 1 + i /\ z[k] = new[i]
    BY <1>1, <1>7
  <2>1. k - (N - 1) \in 1 .. M /\ k = N - 1 + (k - (N - 1))
    BY <1>1
  <2> QED
    BY <1>7, <2>1
<1>9. /\ \A j \in 2 .. N : j - 1 \in DOMAIN z /\ z[j - 1] = q[j]
      /\ \A i \in 1 .. M : N - 1 + i \in DOMAIN z /\ z[N - 1 + i] = new[i]
  <2>1. \A j \in 2 .. N : j - 1 \in 1 .. N - 1 /\ (j - 1) + 1 = j /\ j - 1 \in 1 .. N - 1 + M
    BY <1>1
  <2>2. \A i \in 1 .. M : N - 1 + i \in 1 .. N - 1 + M
    BY <1>1
  <2> QED
    BY <1>7, <2>1, <2>2
<1>10. d[n] \in 0 .. L /\ n = q[1] /\ n \in Name /\ n \notin V
       /\ \A j \in 2 .. N : n # q[j] /\ d[n] <= d[q[j]] /\ d[q[j]] <= d[n] + 1
  <2>1. n = q[1] /\ 1 \in 1 .. N
    BY <1>1 DEF n
  <2>2. n \in Name /\ n \notin V /\ d[n] <= L
    BY <1>4, <2>1
  <2>3. \A j \in 2 .. N : j \in 1 .. N /\ 1 < j /\ 1 # j
    BY <1>1
  <2>4. d[n] \in 0 .. L
    BY <1>3, <2>2
  <2> QED
    BY <1>4, <2>1, <2>2, <2>3, <2>4
<1>11. \A y \in Name : d[y] < d[n] => y \in V
  <2>1. \A j \in 1 .. N : d[q[j]] >= d[n]
    <3>1. \A j \in 1 .. N : j \in 2 .. N \/ j = 1
      BY <1>1
    <3>2. \A j \in 1 .. N : d[q[j]] \in 0 .. L + 1
      BY <1>3, <1>4
    <3> QED
      BY <1>10, <3>1, <3>2
  <2>2. \A x \in V : \A y \in Name : Linked(x, y) => y \in V \/ d[y] >= d[n]
    BY <1>4, <2>1
  <2>3. d[n] \in Nat /\ d[n] <= Len(net.links) + 1
    BY <1>3, <1>10 DEF L
  <2> DEFINE K == d[n]
  <2> HIDE DEF K
  <2>4. K \in Nat /\ K <= Len(net.links) + 1
        /\ \A x \in V : \A y \in Name : Linked(x, y) => y \in V \/ d[y] >= K
    BY <2>2, <2>3 DEF K
  <2>5. net.sink \in V
    BY <1>4
  <2>6. \A y \in Name : d[y] < K => y \in V
    BY <2>4, <2>5, NearerInside
  <2> QED
    BY <2>6 DEF K
<1>12. ASSUME NEW i \in 1 .. M
       PROVE  d[new[i]] = d[n] + 1 /\ d[new[i]] <= L
  <2> DEFINE y == new[i]
  <2>1. y \in Name /\ Linked(n, y) /\ y \notin V \cup {n} /\ \A j \in 2 .. N : y # q[j]
    BY <1>5
  <2> HIDE DEF y
  <2>2. d[y] \in 0 .. L + 1 /\ d[y] <= d[n] + 1 /\ d[y] <= L
    BY <1>3, <1>10, <2>1 DEF Metric, L
  <2>3. ~(d[y] <= d[n])
    <3> SUFFICES ASSUME d[y] <= d[n] PROVE FALSE
      OBVIOUS
    <3>1. d[y] # 0
      BY <1>4, <2>1 DEF Metric
    <3>2. d[y] \in 1 .. L
      BY <1>3, <2>2, <3>1
    <3>3. PICK x \in Name : Linked(x, y) /\ d[x] = d[y] - 1
      BY <2>1, <3>2 DEF Metric, L
    <3>4. d[x] < d[n]
      BY <1>10, <3>2, <3>3
    <3>5. x \in V
      BY <1>11, <3>3, <3>4
    <3>6. PICK j \in 1 .. N : q[j] = y
      BY <1>4, <2>1, <3>3, <3>5
    <3>7. j = 1 \/ j \in 2 .. N
      BY <1>1
    <3> QED
      BY <1>10, <2>1, <3>6, <3>7
  <2> QED
    BY <1>3, <1>10, <2>2, <2>3 DEF y
<1>13. \A k \in DOMAIN z : z[k] \notin V \cup {n} /\ d[z[k]] <= L /\ z[k] \in Name
  BY <1>4, <1>5, <1>8, <1>10, <1>12
<1>14. ASSUME NEW k \in DOMAIN z, NEW m \in DOMAIN z, z[k] = z[m]
       PROVE  k = m
  <2>1. CASE k \in 1 .. N - 1
    <3>1. k + 1 \in 2 .. N /\ k + 1 \in 1 .. N /\ z[k] = q[k + 1]
      BY <1>1, <1>7, <2>1
    <3>2. CASE m \in 1 .. N - 1
      <4>1. m + 1 \in 1 .. N /\ z[m] = q[m + 1]
        BY <1>1, <1>7, <3>2
      <4>2. q[k + 1] = q[m + 1]
        BY <1>14, <3>1, <4>1
      <4>3. k + 1 = m + 1
        BY <1>4, <3>1, <4>1, <4>2
      <4> QED
        BY <1>1, <2>1, <3>2, <4>3
    <3>3. CASE \E i \in 1 .. M : m = N - 1 + i /\ z[m] = new[i]
      <4>1. PICK i \in 1 .. M : z[m] = new[i]
        BY <3>3
      <4>2. new[i] # q[k + 1]
        BY <1>5, <3>1
      <4> QED
        BY <1>14, <3>1, <4>1, <4>2
    <3> QED
      BY <1>8, <3>2, <3>3
  <2>2. CASE \E i \in 1 .. M : k = N - 1 + i /\ z[k] = new[i]
    <3>1. CASE m \in 1 .. N - 1
      <4>1. m + 1 \in 2 .. N /\ z[m] = q[m + 1]
        BY <1>1, <1>7, <3>1
      <4> QED
        BY <1>5, <1>14, <2>2, <4>1
    <3>2. CASE \E i \in 1 .. M : m = N - 1 + i /\ z[m] = new[i]
      BY <1>5, <1>14, <2>2, <3>2
    <3> QED
      BY <1>8, <3>1, <3>2
  <2> QED
    BY <1>8, <2>1, <2>2
<1>15. ASSUME NEW x \in V \cup {n}, NEW y \in Name, Linked(x, y)
       PROVE  y \in V \cup {n} \/ \E k \in DOMAIN z : z[k] = y
  <2>1. CASE \E j \in 2 .. N : q[j] = y
    BY <1>9, <2>1
  <2>2. CASE \E i \in 1 .. M : new[i] = y
    BY <1>9, <2>2
  <2>3. CASE x \in V
    <3>1. y \in V \/ \E j \in 1 .. N : q[j] = y
      BY <1>4, <1>15, <2>3
    <3>2. \A j \in 1 .. N : j = 1 \/ j \in 2 .. N
      BY <1>1
    <3> QED
      BY <1>10, <2>1, <3>1, <3>2
  <2>4. CASE x = n
    BY <1>6, <1>15, <2>1, <2>2, <2>4
  <2> QED
    BY <2>3, <2>4
<1>16. \A k \in DOMAIN z : d[z[k]] \in 0 .. L + 1 /\ d[n] <= d[z[k]] /\ d[z[k]] <= d[n] + 1
  <2> SUFFICES ASSUME NEW k \in DOMAIN z
               PROVE  d[z[k]] \in 0 .. L + 1 /\ d[n] <= d[z[k]] /\ d[z[k]] <= d[n] + 1
    OBVIOUS
  <2>1. d[z[k]] \in 0 .. L + 1
    BY <1>3, <1>13
  <2>2. CASE k + 1 \in 2 .. N /\ z[k] = q[k + 1]
    BY <1>10, <2>1, <2>2
  <2>3. CASE \E i \in 1 .. M : z[k] = new[i]
    <3>1. d[z[k]] = d[n] + 1
      BY <1>12, <2>3
    <3> QED
      BY <1>10, <2>1, <3>1
  <2> QED
    BY <1>8, <2>2, <2>3
<1>17. ASSUME NEW k \in DOMAIN z, NEW m \in DOMAIN z, k < m
       PROVE  d[z[k]] <= d[z[m]] /\ d[z[m]] <= d[z[k]] + 1
  <2>1. d[z[m]] <= d[z[k]] + 1
    <3>1. d[n] <= d[z[k]] /\ d[z[m]] <= d[n] + 1 /\ d[z[k]] \in 0 .. L + 1
          /\ d[z[m]] \in 0 .. L + 1 /\ d[n] \in 0 .. L /\ L \in Nat
      BY <1>3, <1>10, <1>16
    <3> QED
      BY <3>1
  <2>2. CASE \E i \in 1 .. M : z[m] = new[i]
    <3>1. d[z[m]] = d[n] + 1 /\ d[z[k]] <= d[n] + 1
      BY <1>12, <1>16, <2>2
    <3> QED
      BY <2>1, <3>1
  <2>3. CASE m \in 1 .. N - 1
    <3>1. k \in 1 .. N - 1
      BY <1>1, <1>7, <1>17, <2>3
    <3>2. k + 1 \in 1 .. N /\ m + 1 \in 1 .. N /\ k + 1 < m + 1
      BY <1>1, <1>17, <2>3, <3>1
    <3>3. z[k] = q[k + 1] /\ z[m] = q[m + 1]
      BY <1>7, <2>3, <3>1
    <3> QED
      BY <1>4, <3>2, <3>3
  <2> QED
    BY <1>8, <2>2, <2>3
<1>18. ASSUME NEW x \in V \cup {n}, NEW k \in DOMAIN z
       PROVE  d[x] <= d[z[k]] /\ d[x] <= L
  <2>1. d[x] <= d[n] /\ d[x] \in 0 .. L + 1
    <3>1. \A w \in V : d[w] <= d[n] /\ w \in Name
      BY <1>1, <1>4, <1>10
    <3>2. CASE x = n
      BY <1>3, <1>10, <3>2
    <3> QED
      BY <1>3, <3>1, <3>2
  <2>2. d[n] <= d[z[k]] /\ d[z[k]] \in 0 .. L + 1 /\ d[n] \in 0 .. L /\ L \in Nat
    BY <1>3, <1>10, <1>16
  <2> QED
    BY <2>1, <2>2
<1>19. \A x \in V \cup {n} : d[x] <= L
  BY <1>3, <1>4, <1>10
<1>20. Walk(V \cup {n}, z, d)
  BY <1>4, <1>13, <1>14, <1>15, <1>17, <1>18, <1>19 DEF Walk, L
<1> QED
  BY <1>20 DEF n, z, t

(* When nothing waits the walk has come by everything it can reach.        *)
LEMMA WalkEnds ==
  ASSUME NEW d, Metric(net.sink, d), NEW V \in SUBSET Name, Walk(V, <<>>, d)
  PROVE  V = {m \in Name : d[m] <= Len(net.links)}
<1> DEFINE L == Len(net.links)
           K == L + 1
<1>1. L \in Nat /\ \A m \in Name : d[m] \in 0 .. L + 1
  BY DEF Metric
<1>2. /\ net.sink \in V
      /\ \A x \in V : \A y \in Name : Linked(x, y) => y \in V
      /\ \A x \in V : d[x] <= L
  BY DEF Walk
<1>3. K \in Nat /\ K <= L + 1 /\ \A m \in Name : d[m] < K <=> d[m] <= L
  BY <1>1
<1> HIDE DEF K
<1>4. \A y \in Name : d[y] < K => y \in V
  BY <1>2, <1>3, NearerInside
<1> QED
  BY <1>2, <1>3, <1>4

-----------------------------------------------------------------------------
(* The invariant of the script: how far the walk is, and what the file     *)
(* says. Of a round it holds one record at most per node the walk has come *)
(* by, the nearer ones first and, when none is lost, one for each.         *)
Away == LinksFrom(net.sink)

Walking == round >= 1 => Walk(visited, toVisit, Away)

OfThoseVisited ==
  \A i \in DOMAIN file : file[i].seq = round - 1 => file[i].from \in visited

OncePerRound ==
  \A i, j \in DOMAIN file :
    file[i].seq = file[j].seq /\ i < j =>
      file[i].from # file[j].from /\ Away[file[i].from] <= Away[file[j].from]

TellsNetwork ==
  \A i \in DOMAIN file :
    \E n \in Connected : file[i].from = n /\ file[i].nbrs = Neighbors(n)

NoneMissing ==
  ~net.lossy =>
    \A m \in Connected, k \in 0 .. round - 1 :
      k < round - 1 \/ m \in visited =>
        \E i \in DOMAIN file : file[i].from = m /\ file[i].seq = k

FileInv == Generated => OfThoseVisited /\ OncePerRound /\ TellsNetwork /\ NoneMissing

ScriptInv == Walking /\ FileInv

LEMMA SameNet ==
  ASSUME net' = net
  PROVE  /\ Generated' = Generated /\ Away' = Away /\ Connected' = Connected
         /\ \A n : Neighbors(n)' = Neighbors(n)
<1>1. Generated' = Generated
  BY DEF Generated
<1>2. \A n : Circles(n)' = Circles(n)
  BY DEF Circles, Touching, Ends
<1>3. Away' = Away
  BY <1>2 DEF Away, LinksFrom, Circles, Touching, Ends
<1>4. Connected' = Connected
  BY DEF Connected, Circles, Touching, Ends
<1>5. \A n : Neighbors(n)' = Neighbors(n)
  BY DEF Neighbors, Ends
<1> QED
  BY <1>1, <1>3, <1>4, <1>5

LEMMA WalkingNext ==
  ASSUME net' = net, round' >= 1 => Walk(visited', toVisit', Away)
  PROVE  Walking'
<1>1. Away' = Away
  BY SameNet
<1> QED
  BY <1>1 DEF Walking, Walk, Linked, Ends

LEMMA AwayIsMetric ==
  ASSUME AnnounceInv
  PROVE  /\ Metric(net.sink, Away)
         /\ Connected = {m \in Name : Away[m] <= Len(net.links)} \ {net.sink}
BY WalkTyped, Distances, ReachedIsNear DEF AnnounceInv, Away

(* When a round is over everything that can be reached has been visited.   *)
LEMMA RoundOver ==
  ASSUME AnnounceInv, Walking, round >= 1, toVisit = <<>>
  PROVE  Connected = visited \ {net.sink}
<1>1. Walk(visited, <<>>, Away) /\ visited \in SUBSET Name
  BY DEF Walking, AnnounceInv, AnnouncerTypeOK
<1>2. visited = {m \in Name : Away[m] <= Len(net.links)}
  BY <1>1, AwayIsMetric, WalkEnds
<1> QED
  BY <1>2, AwayIsMetric

LEMMA StartRoundScript ==
  ASSUME ReaderInv, AnnounceInv, ScriptInv, StartRound
  PROVE  ScriptInv'
<1>1. /\ net' = net /\ round' = round + 1 /\ toVisit = <<>>
      /\ visited' = {net.sink} /\ toVisit' = Neighbors(net.sink) /\ file' = file
  BY DEF StartRound, lsVars
<1>2. /\ Generated' = Generated /\ Away' = Away /\ Connected' = Connected
      /\ \A n : Neighbors(n)' = Neighbors(n)
  BY <1>1, SameNet
<1>3. round \in Nat
  BY WalkTyped DEF AnnounceInv
<1>4. Walking'
  <2>1. Walk({net.sink}, Neighbors(net.sink), Away)
    BY AwayIsMetric, WalkStarts DEF AnnounceInv
  <2> QED
    BY <1>1, <2>1, WalkingNext
<1>5. ASSUME Generated
      PROVE  OfThoseVisited' /\ OncePerRound' /\ TellsNetwork' /\ NoneMissing'
  <2>1. OfThoseVisited /\ OncePerRound /\ TellsNetwork /\ NoneMissing
    BY <1>5 DEF ScriptInv, FileInv
  <2>2. OfThoseVisited'
    <3>1. \A i \in DOMAIN file : file[i].seq < round /\ file[i].seq \in Nat
      <4>1. \A i \in DOMAIN file : file[i] \in Record
        BY DEF ReaderInv, LinkStateTypeOK
      <4> QED
        BY <1>5, <4>1 DEF AnnounceInv, NumbersRise, Record
    <3>2. \A i \in DOMAIN file : file[i].seq # round' - 1
      BY <1>1, <1>3, <3>1
    <3> QED
      BY <1>1, <3>2 DEF OfThoseVisited
  <2>3. OncePerRound' /\ TellsNetwork'
    BY <1>1, <1>2, <2>1 DEF OncePerRound, TellsNetwork
  <2>4. NoneMissing'
    <3> SUFFICES ASSUME ~net.lossy, NEW m \in Connected, NEW k \in 0 .. round,
                        k < round \/ m \in {net.sink}
                 PROVE  \E i \in DOMAIN file : file[i].from = m /\ file[i].seq = k
      BY <1>1, <1>2, <1>3 DEF NoneMissing
    <3>1. m # net.sink
      BY DEF Connected
    <3>2. k \in 0 .. round - 1 /\ round >= 1
      BY <1>3, <3>1
    <3>3. m \in visited
      BY <1>1, <3>2, RoundOver DEF ScriptInv
    <3> QED
      BY <2>1, <3>2, <3>3 DEF NoneMissing
  <2> QED
    BY <2>2, <2>3, <2>4
<1> QED
  BY <1>2, <1>4, <1>5 DEF ScriptInv, FileInv

LEMMA VisitWalks ==
  ASSUME AnnounceInv, Walking, Visit
  PROVE  Walking'
<1> DEFINE q == toVisit
           new == Found(q[1])
           nbrs == Neighbors(q[1])
<1>1. /\ q # <<>> /\ net' = net
      /\ visited' = visited \cup {q[1]} /\ toVisit' = Tail(q) \o new
  BY WalkTyped DEF Visit, AnnounceInv
<1>2. /\ net \in Network /\ visited \in SUBSET Name /\ q \in Seq(Name)
  BY WalkTyped DEF AnnounceInv
<1>3. Walk(visited, q, Away)
  BY <1>1 DEF Walking, AnnounceInv, WalksLinks
<1>4. \A y : Linked(q[1], y) <=> \E i \in DOMAIN nbrs : nbrs[i] = y
  BY <1>2, LinkedNeighbors
<1>5. \A i, j \in DOMAIN nbrs : nbrs[i] = nbrs[j] => i = j
  BY <1>2, NetShape, NeighborsShape DEF AnnounceInv
<1>6. /\ new \in Seq(Name)
      /\ \A i \in DOMAIN new :
           /\ \E j \in DOMAIN nbrs : new[i] = nbrs[j]
           /\ new[i] \notin visited \cup {q[1]} \cup Waiting
      /\ \A j \in DOMAIN nbrs :
           nbrs[j] \notin visited \cup {q[1]} \cup Waiting =>
             \E i \in DOMAIN new : new[i] = nbrs[j]
      /\ \A i, j \in DOMAIN new : new[i] = new[j] => i = j
  BY <1>2, <1>5, FoundShape
<1>7. \A y : y \in Waiting <=> \E j \in 2 .. Len(q) : q[j] = y
  BY DEF Waiting
<1> HIDE DEF new, nbrs
<1>8. \A i \in DOMAIN new : /\ Linked(q[1], new[i])
                            /\ new[i] \notin visited \cup {q[1]}
                            /\ \A j \in 2 .. Len(q) : new[i] # q[j]
  BY <1>4, <1>6, <1>7
<1>9. \A y \in Name : Linked(q[1], y) =>
        \/ y \in visited \cup {q[1]}
        \/ \E j \in 2 .. Len(q) : q[j] = y
        \/ \E i \in DOMAIN new : new[i] = y
  BY <1>4, <1>6, <1>7
<1>10. Metric(net.sink, Away) /\ net \in Networks \cup {ByHand}
  BY AwayIsMetric DEF AnnounceInv
<1>11. \A i, j \in DOMAIN new : new[i] = new[j] => i = j
  BY <1>6
<1>12. new \in Seq(Name)
  BY <1>6
<1> DEFINE d == Away
<1> HIDE DEF d, q
<1>13. Walk(visited \cup {q[1]}, Tail(q) \o new, d)
  BY <1>1, <1>2, <1>3, <1>8, <1>9, <1>10, <1>11, <1>12, WalkGoesOn DEF d
<1> QED
  BY <1>1, <1>13, WalkingNext DEF d

LEMMA VisitScript ==
  ASSUME ReaderInv, AnnounceInv, ScriptInv, Visit
  PROVE  ScriptInv'
<1> DEFINE n == Head(toVisit)
           r == NextRecord
           N == Len(file)
<1>1. /\ toVisit # <<>> /\ net' = net /\ round' = round
      /\ visited' = visited \cup {n}
      /\ file' = Append(file, r) \/ (net.lossy /\ file' = file)
  BY DEF Visit, NextRecord
<1>2. /\ Generated' = Generated /\ Away' = Away /\ Connected' = Connected
      /\ \A m : Neighbors(m)' = Neighbors(m)
  BY <1>1, SameNet
<1>3. /\ r \in Record /\ round \in Nat /\ round >= 1 /\ r.seq = round - 1
      /\ r.from = n /\ r.nbrs = Neighbors(n)
  BY <1>1, RecordTyped
<1>4. Walking'
  BY VisitWalks DEF ScriptInv
<1>5. n \notin visited /\ n \in Connected /\ \A x \in visited : Away[x] <= Away[n]
  <2>1. n = toVisit[1] /\ 1 \in DOMAIN toVisit /\ n \in Name
    BY <1>1, WalkTyped DEF AnnounceInv
  <2>2. Walk(visited, toVisit, Away)
    BY <1>3 DEF ScriptInv, Walking
  <2> HIDE DEF n
  <2>3. /\ n \notin visited /\ net.sink \in visited /\ Away[n] <= Len(net.links)
        /\ \A x \in visited : Away[x] <= Away[n]
    BY <2>1, <2>2 DEF Walk
  <2> QED
    BY <2>1, <2>3, AwayIsMetric
<1>6. file \in Seq(Record) /\ DOMAIN file = 1 .. N /\ N \in Nat
  BY DEF ReaderInv, LinkStateTypeOK
<1> HIDE DEF n, r, N
<1>7. ASSUME Generated
      PROVE  OfThoseVisited' /\ OncePerRound' /\ TellsNetwork' /\ NoneMissing'
  <2>1. OfThoseVisited /\ OncePerRound /\ TellsNetwork /\ NoneMissing
    BY <1>7 DEF ScriptInv, FileInv
  <2>2. CASE net.lossy /\ file' = file
    <3>1. OfThoseVisited' /\ OncePerRound' /\ TellsNetwork'
      BY <1>1, <1>2, <2>1, <2>2 DEF OfThoseVisited, OncePerRound, TellsNetwork
    <3> QED
      BY <1>1, <2>2, <3>1 DEF NoneMissing
  <2>3. CASE file' = Append(file, r)
    <3>1. /\ DOMAIN file' = 1 .. N + 1 /\ file'[N + 1] = r
          /\ \A i \in 1 .. N : file'[i] = file[i]
          /\ \A i \in 1 .. N + 1 : i \in 1 .. N \/ i = N + 1
      BY <1>3, <1>6, <2>3 DEF N
    <3>2. OfThoseVisited'
      BY <1>1, <1>3, <1>6, <2>1, <3>1 DEF OfThoseVisited
    <3>3. ASSUME NEW i \in 1 .. N + 1, NEW j \in 1 .. N + 1, i < j,
                 file'[i].seq = file'[j].seq
          PROVE  file'[i].from # file'[j].from /\ Away[file'[i].from] <= Away[file'[j].from]
      <4>1. i \in 1 .. N
        BY <1>6, <3>3
      <4>2. CASE j \in 1 .. N
        BY <1>6, <2>1, <3>1, <3>3, <4>1, <4>2 DEF OncePerRound
      <4>3. CASE j = N + 1
        <5>1. file[i].seq = round - 1
          BY <1>3, <3>1, <3>3, <4>1, <4>3
        <5>2. file[i].from \in visited
          BY <1>6, <2>1, <4>1, <5>1 DEF OfThoseVisited
        <5> QED
          BY <1>3, <1>5, <3>1, <4>1, <4>3, <5>2
      <4> QED
        BY <3>1, <4>2, <4>3
    <3>4. OncePerRound'
      BY <1>2, <3>1, <3>3 DEF OncePerRound
    <3>5. TellsNetwork'
      <4>1. \A i \in 1 .. N + 1 :
              \E m \in Connected : file'[i].from = m /\ file'[i].nbrs = Neighbors(m)
        BY <1>3, <1>5, <1>6, <2>1, <3>1 DEF TellsNetwork
      <4> QED
        BY <1>2, <3>1, <4>1 DEF TellsNetwork
    <3>6. NoneMissing'
      <4> SUFFICES ASSUME ~net.lossy, NEW m \in Connected, NEW k \in 0 .. round - 1,
                          k < round - 1 \/ m \in visited \cup {n}
                   PROVE  \E i \in 1 .. N + 1 : file'[i].from = m /\ file'[i].seq = k
        BY <1>1, <1>2, <3>1 DEF NoneMissing
      <4>1. CASE k < round - 1 \/ m \in visited
        <5>1. PICK i \in 1 .. N : file[i].from = m /\ file[i].seq = k
          BY <1>6, <2>1, <4>1 DEF NoneMissing
        <5>2. i \in 1 .. N + 1
          BY <1>6
        <5> QED
          BY <3>1, <5>1, <5>2
      <4>2. CASE ~(k < round - 1) /\ m = n
        <5>1. k = round - 1 /\ N + 1 \in 1 .. N + 1
          BY <1>3, <1>6, <4>2
        <5> QED
          BY <1>3, <3>1, <4>2, <5>1
      <4> QED
        BY <4>1, <4>2
    <3> QED
      BY <3>2, <3>4, <3>5, <3>6
  <2> QED
    BY <1>1, <2>2, <2>3
<1> QED
  BY <1>2, <1>4, <1>7 DEF ScriptInv, FileInv

LEMMA ScriptFrame ==
  ASSUME ScriptInv, UNCHANGED <<net, round, visited, toVisit, file>>
  PROVE  ScriptInv'
<1>1. /\ Generated' = Generated /\ Away' = Away /\ Connected' = Connected
      /\ \A m : Neighbors(m)' = Neighbors(m)
  BY SameNet
<1>2. Walking'
  BY WalkingNext DEF ScriptInv, Walking
<1> QED
  BY <1>1, <1>2
     DEF ScriptInv, FileInv, OfThoseVisited, OncePerRound, TellsNetwork, NoneMissing

(* The walk is breadth first and the file tells of it, round after round.  *)
THEOREM ScriptSafe == SelectionSpec => []ScriptInv
<1>1. SelectionInit => ScriptInv
  <2> SUFFICES ASSUME SelectionInit PROVE ScriptInv
    OBVIOUS
  <2>1. round = 0
    BY DEF SelectionInit, AnnouncerInit
  <2>2. Generated => file = <<>>
    BY DEF SelectionInit, ByHand, Generated
  <2>3. FileInv
    BY <2>1, <2>2 DEF FileInv, OfThoseVisited, OncePerRound, TellsNetwork, NoneMissing
  <2> QED
    BY <2>1, <2>3 DEF ScriptInv, Walking
<1>2. SelectionInv /\ ScriptInv /\ [SelectionNext]_selectionVars => ScriptInv'
  <2> SUFFICES ASSUME SelectionInv, ScriptInv, [SelectionNext]_selectionVars
               PROVE  ScriptInv'
    OBVIOUS
  <2>1. CASE Announce
    BY <2>1, StartRoundScript, VisitScript DEF Announce, AnnouncerNext, SelectionInv
  <2>2. CASE Read
    BY <2>2, ScriptFrame
       DEF Read, walkVars, LinkStateNext, AddNode, UpdateNode, SkipStale
  <2>3. CASE Serve
    BY <2>3, ScriptFrame DEF Serve, announcerVars, walkVars, lsVars
  <2>4. CASE UNCHANGED selectionVars
    BY <2>4, ScriptFrame DEF selectionVars, announcerVars, walkVars, lsVars
  <2> QED
    BY <2>1, <2>2, <2>3, <2>4 DEF SelectionNext
<1> QED
  BY <1>1, <1>2, SelectionSafe, PTL DEF SelectionSpec

(* For any network, any number of rounds, whatever is lost: at most one    *)
(* announcement per node and round, nearer nodes first; and, when nothing  *)
(* is lost, one of every node the sink can reach in every round.           *)
THEOREM AnnouncesOnce == SelectionSpec => []AnnouncesEachOnce
<1>1. SelectionInv /\ ScriptInv => AnnouncesEachOnce
  <2> SUFFICES ASSUME SelectionInv, ScriptInv, Generated PROVE AnnouncesEachOnce
    BY DEF AnnouncesEachOnce
  <2>1. OncePerRound /\ TellsNetwork /\ NoneMissing /\ Walking
    BY DEF ScriptInv, FileInv
  <2>2. \A i, j \in DOMAIN file :
          file[i].seq = file[j].seq /\ i < j =>
            /\ file[i].from # file[j].from
            /\ LinksFrom(net.sink)[file[i].from] <= LinksFrom(net.sink)[file[j].from]
    BY <2>1 DEF OncePerRound, Away
  <2>3. ASSUME Written, ~net.lossy
        PROVE  {<<file[i].from, file[i].seq>> : i \in DOMAIN file}
                 = Connected \X (0 .. net.rounds - 1)
    <3>1. /\ round = net.rounds /\ round \in Nat /\ round >= 1 /\ toVisit = <<>>
      BY <2>3, WalkTyped DEF Written, SelectionInv, AnnounceInv, Generated
    <3>2. Connected = visited \ {net.sink}
      BY <2>1, <3>1, RoundOver DEF SelectionInv
    <3>3. \A i \in DOMAIN file : file[i].from \in Connected /\ file[i].seq \in 0 .. round - 1
      <4>1. \A i \in DOMAIN file : file[i] \in Record
        BY DEF SelectionInv, ReaderInv, LinkStateTypeOK
      <4>2. \A i \in DOMAIN file : file[i].seq \in Nat /\ file[i].seq < round
        BY <4>1 DEF Record, SelectionInv, AnnounceInv, NumbersRise
      <4> QED
        BY <2>1, <3>1, <4>2 DEF TellsNetwork
    <3>4. \A m \in Connected, k \in 0 .. round - 1 :
            \E i \in DOMAIN file : file[i].from = m /\ file[i].seq = k
      BY <2>1, <2>3, <3>2 DEF NoneMissing
    <3> QED
      BY <3>1, <3>3, <3>4
  <2> QED
    BY <2>2, <2>3 DEF AnnouncesEachOnce
<1> QED
  BY <1>1, SelectionSafe, ScriptSafe, PTL

(* Whatever the network, what the script wrote and graph_init read gives   *)
(* every node of the list the neighbors it has in the network, and when    *)
(* nothing is lost the list is complete.                                   *)
LEMMA GraphIsNetwork ==
  ASSUME SelectionInv, ScriptInv, Generated
  PROVE  /\ \A i \in DOMAIN graph :
              \E n \in Connected : graph[i].name = <<n>> /\ graph[i].nbrs = Neighbors(n)
         /\ Started /\ ~net.lossy => Announced = {<<n>> : n \in Connected}
<1>1. InOrder(file)
  BY DEF SelectionInv, AnnounceInv, NumbersRise, InOrder
<1>2. /\ \A i \in ReadRecords : \E j \in Latest : file[j].from = file[i].from
      /\ {graph[i] : i \in DOMAIN graph} = {Told(i) : i \in Latest}
  BY <1>1 DEF SelectionInv, InStep
<1>3. \A i \in Latest : i \in DOMAIN file
  BY DEF Latest, ReadRecords
<1>4. TellsNetwork /\ NoneMissing /\ Walking
  BY DEF ScriptInv, FileInv
<1>5. \A i \in DOMAIN graph :
        \E n \in Connected : graph[i].name = <<n>> /\ graph[i].nbrs = Neighbors(n)
  <2> SUFFICES ASSUME NEW i \in DOMAIN graph
               PROVE  \E n \in Connected : graph[i].name = <<n>> /\ graph[i].nbrs = Neighbors(n)
    OBVIOUS
  <2>1. PICK j \in Latest : graph[i] = Told(j)
    BY <1>2
  <2>2. PICK n \in Connected : file[j].from = n /\ file[j].nbrs = Neighbors(n)
    BY <1>3, <1>4 DEF TellsNetwork
  <2> QED
    BY <2>1, <2>2 DEF Told
<1>6. ASSUME Started, ~net.lossy
      PROVE  Announced = {<<n>> : n \in Connected}
  <2>1. \A i \in DOMAIN graph : \E n \in Connected : graph[i].name = <<n>>
    BY <1>5
  <2>2. ASSUME NEW n \in Connected
        PROVE  \E i \in DOMAIN graph : graph[i].name = <<n>>
    <3>1. /\ round = net.rounds /\ round \in Nat /\ round >= 1 /\ toVisit = <<>>
      BY <1>6, WalkTyped DEF Started, Written, SelectionInv, AnnounceInv, Generated
    <3>2. n \in visited
      BY <1>4, <3>1, RoundOver DEF SelectionInv
    <3>3. PICK i \in DOMAIN file : file[i].from = n
      <4>1. round - 1 \in 0 .. round - 1
        BY <3>1
      <4> QED
        BY <1>4, <1>6, <3>2, <4>1 DEF NoneMissing
    <3>4. i \in ReadRecords
      <4>1. file \in Seq(Record) /\ at \in Nat /\ at >= 3 * Len(file)
        BY <1>6 DEF SelectionInv, ReaderInv, LinkStateTypeOK, Started, Words
      <4>2. 3 * i <= at
        BY <4>1
      <4> QED
        BY <4>2 DEF ReadRecords
    <3>5. PICK j \in Latest : file[j].from = n
      BY <1>2, <3>3, <3>4
    <3>6. PICK k \in DOMAIN graph : graph[k] = Told(j)
      BY <1>2
    <3> QED
      BY <3>5, <3>6 DEF Told
  <2> QED
    BY <2>1, <2>2 DEF Announced
<1> QED
  BY <1>5, <1>6

(* For any network, any number of rounds and any losses the list tells of  *)
(* the network, and of all of it when nothing is lost.                     *)
THEOREM GraphMatches == SelectionSpec => []GraphMatchesNetwork
<1>1. SelectionInv /\ ScriptInv => GraphMatchesNetwork
  BY GraphIsNetwork DEF GraphMatchesNetwork
<1> QED
  BY <1>1, SelectionSafe, ScriptSafe, PTL

-----------------------------------------------------------------------------
(* The graph and the network *)

Who(v) == NameOf(v)[1]

GraphComplete ==
  /\ Generated
  /\ Len(Neighbors(net.sink)) = 1
  /\ Announced = {<<n>> : n \in Connected}

(* What is reached from one of the nodes that are reached from s is        *)
(* reached from each of them.                                              *)
LEMMA ReachedFromEach ==
  ASSUME net \in Network, NEW s \in Name, NEW d, Metric(s, d),
         NEW h \in Name, d[h] <= Len(net.links), NEW a, Metric(h, a)
  PROVE  \A m \in Name : d[m] <= Len(net.links) => a[m] <= Len(net.links)
<1> DEFINE L == Len(net.links)
           K == L + 1
           R == {m \in Name : a[m] <= L}
           V == Name \ R
<1>1. L \in Nat /\ \A m \in Name : d[m] \in 0 .. L + 1 /\ a[m] \in 0 .. L + 1
  BY DEF Metric
<1>2. K \in Nat /\ K <= L + 1 /\ \A m \in Name : d[m] < K <=> d[m] <= L
  BY <1>1
<1>3. h \in R
  <2>1. a[h] = 0
    BY DEF Metric
  <2> QED
    BY <1>1, <2>1
<1>4. \A x, y \in Name : Linked(x, y) => (x \in R <=> y \in R)
  BY LinkedEnds DEF Metric
<1> HIDE DEF K, R
<1>5. s \in R
  <2> SUFFICES ASSUME s \in V PROVE FALSE
    OBVIOUS
  <2>1. \A x \in V : \A y \in Name : Linked(x, y) => y \in V
    BY <1>4
  <2> HIDE DEF V
  <2>2. \A y \in Name : d[y] < K => y \in V
    BY <1>2, <2>1, NearerInside
  <2> QED
    BY <1>2, <1>3, <2>2 DEF V
<1>6. \A x \in R : \A y \in Name : Linked(x, y) => y \in R
  BY <1>4 DEF R
<1>7. \A y \in Name : d[y] < K => y \in R
  BY <1>2, <1>5, <1>6, NearerInside
<1> QED
  BY <1>2, <1>7 DEF R

(* The nodes of the list are those of the network that can be reached, but *)
(* the sink, each with the neighbors it has there.                         *)
LEMMA GraphNames ==
  ASSUME SelectionInv, ScriptInv, GraphComplete
  PROVE  /\ \A v \in Nodes : /\ Who(v) \in Connected /\ NameOf(v) = <<Who(v)>>
                             /\ graph[v + 1].nbrs = Neighbors(Who(v))
         /\ \A n \in Connected : \E v \in Nodes : Who(v) = n
         /\ \A u, v \in Nodes : Who(u) = Who(v) => u = v
<1>1. graph \in Seq(Node) /\ Len(graph) \in Nat /\ DOMAIN graph = 1 .. Len(graph)
  BY DEF SelectionInv, ReaderInv, LinkStateTypeOK
<1>2. \A i \in DOMAIN graph :
        \E n \in Connected : graph[i].name = <<n>> /\ graph[i].nbrs = Neighbors(n)
  BY GraphIsNetwork DEF GraphComplete
<1>3. \A v \in Nodes : v + 1 \in DOMAIN graph
  BY <1>1 DEF Nodes
<1>4. \A i \in DOMAIN graph : i - 1 \in Nodes /\ (i - 1) + 1 = i
  BY <1>1 DEF Nodes
<1>5. ASSUME NEW v \in Nodes
      PROVE  /\ Who(v) \in Connected /\ NameOf(v) = <<Who(v)>>
             /\ graph[v + 1].nbrs = Neighbors(Who(v))
  <2>1. PICK n \in Connected : graph[v + 1].name = <<n>> /\ graph[v + 1].nbrs = Neighbors(n)
    BY <1>2, <1>3
  <2>2. Who(v) = n
    BY <2>1 DEF Who, NameOf
  <2> QED
    BY <2>1, <2>2 DEF NameOf
<1>6. ASSUME NEW n \in Connected
      PROVE  \E v \in Nodes : Who(v) = n
  <2>1. <<n>> \in Announced
    BY DEF GraphComplete
  <2>2. PICK i \in DOMAIN graph : graph[i].name = <<n>>
    BY <2>1 DEF Announced
  <2>3. Who(i - 1) = n
    BY <1>4, <2>2 DEF Who, NameOf
  <2> QED
    BY <1>4, <2>3
<1>7. ASSUME NEW u \in Nodes, NEW v \in Nodes, Who(u) = Who(v)
      PROVE  u = v
  <2>1. graph[u + 1].name = graph[v + 1].name
    BY <1>5, <1>7 DEF NameOf
  <2>2. u + 1 = v + 1
    BY <1>3, <2>1 DEF SelectionInv, ReaderInv, NodesUnique
  <2> QED
    BY <2>2 DEF Nodes
<1> QED
  BY <1>5, <1>6, <1>7

(* There is a hop in the graph where there is a link in the network.       *)
LEMMA RouteIsLink ==
  ASSUME SelectionInv, ScriptInv, GraphComplete
  PROVE  \A u, v \in Nodes :
           ExistRoute(u, v) = 1 <=> u # v /\ Linked(Who(u), Who(v))
<1> SUFFICES ASSUME NEW u \in Nodes, NEW v \in Nodes
             PROVE  ExistRoute(u, v) = 1 <=> u # v /\ Linked(Who(u), Who(v))
  OBVIOUS
<1> DEFINE nbrs == graph[u + 1].nbrs
<1>1. NameOf(v) = <<Who(v)>> /\ nbrs = Neighbors(Who(u))
  BY GraphNames
<1>2. net \in Network
  BY WalkTyped DEF SelectionInv, AnnounceInv
<1>3. \A y : Linked(Who(u), y) <=> \E i \in DOMAIN nbrs : nbrs[i] = y
  BY <1>1, <1>2, LinkedNeighbors
<1>4. ExistRoute(u, v) = 1 <=> u # v /\ \E k \in DOMAIN nbrs : NameOf(v) = <<nbrs[k]>>
  BY DEF ExistRoute, INTMAX
<1> HIDE DEF nbrs
<1>5. \A k : NameOf(v) = <<nbrs[k]>> <=> nbrs[k] = Who(v)
  BY <1>1
<1> QED
  BY <1>3, <1>4, <1>5

(* Hops in the graph count links in the network: no path through a sink of *)
(* one link is shorter, and up to INT_MAX the sets of nodes agree.         *)
LEMMA HopsAreLinks ==
  ASSUME SelectionInv, ScriptInv, GraphComplete, 0 \in Nodes,
         NEW a, a = LinksFrom(Who(0))
  PROVE  \A v \in Nodes :
           /\ a[Who(v)] \in Nat
           /\ Hops(0)[v] = IF a[Who(v)] < INTMAX THEN a[Who(v)] ELSE INTMAX
<1> DEFINE h == Who(0)
           L == Len(net.links)
           s == net.sink
           r == Rings(0)
<1>1. net \in Network /\ s \in Name /\ AnnounceInv
  BY WalkTyped DEF SelectionInv, AnnounceInv
<1>2. Metric(s, Away) /\ Connected = {m \in Name : Away[m] <= L} \ {s}
  BY <1>1, AwayIsMetric
<1>3. /\ \A v \in Nodes : Who(v) \in Connected
      /\ \A n \in Connected : \E v \in Nodes : Who(v) = n
      /\ \A u, v \in Nodes : Who(u) = Who(v) => u = v
      /\ \A u, v \in Nodes : ExistRoute(u, v) = 1 <=> u # v /\ Linked(Who(u), Who(v))
  BY GraphNames, RouteIsLink
<1>4. h \in Connected /\ h \in Name /\ h # s /\ Away[h] <= L
  BY <1>2, <1>3
<1>5. Metric(h, a)
  BY <1>1, <1>4, Distances
<1>6. \A x, y : Linked(x, y) => Linked(y, x) /\ x \in Name /\ y \in Name
  BY <1>1, LinkedEnds
<1>7. \A x, y : Linked(s, x) /\ Linked(s, y) => x = y
  <2> DEFINE nbrs == Neighbors(s)
  <2>1. nbrs \in Seq(Name) /\ Len(nbrs) = 1
    BY <1>1, NeighborsShape DEF GraphComplete
  <2>2. \A y : Linked(s, y) <=> \E i \in DOMAIN nbrs : nbrs[i] = y
    BY <1>1, LinkedNeighbors
  <2> HIDE DEF nbrs
  <2>3. \A i \in DOMAIN nbrs : i = 1
    BY <2>1
  <2> QED
    BY <2>2, <2>3
<1> HIDE DEF h, L, s
<1>8. L \in Nat /\ \A m \in Name : a[m] \in 0 .. L + 1
  BY <1>5 DEF Metric, L
<1>9. \A m \in Name : Away[m] <= L => a[m] <= L
  BY <1>1, <1>2, <1>4, <1>5, ReachedFromEach DEF L
<1>10. a[s] \in 1 .. L
  <2>1. Away[s] = 0
    BY <1>1, <1>2 DEF Metric
  <2>2. a[s] <= L /\ a[s] # 0
    BY <1>1, <1>4, <1>5, <1>8, <1>9, <2>1 DEF Metric
  <2> QED
    BY <1>1, <1>8, <2>2
<1>11. ASSUME NEW v \in Nodes
       PROVE  /\ Who(v) \in Name /\ a[Who(v)] \in 0 .. L /\ a[Who(v)] \in Nat
              /\ a[Who(v)] = 0 <=> v = 0
  <2>1. Who(v) \in Name /\ Away[Who(v)] <= L
    BY <1>2, <1>3
  <2>2. a[Who(v)] <= L /\ a[Who(v)] \in 0 .. L + 1
    BY <1>8, <1>9, <2>1
  <2>3. a[Who(v)] = 0 <=> Who(v) = h
    BY <1>5, <2>1 DEF Metric
  <2>4. Who(v) = h <=> v = 0
    BY <1>3 DEF h
  <2> QED
    BY <1>8, <2>1, <2>2, <2>3, <2>4
<1>12. ASSUME NEW u \in Nodes, NEW v \in Nodes, ExistRoute(u, v) = 1
       PROVE  a[Who(v)] <= a[Who(u)] + 1
  BY <1>3, <1>5, <1>11, <1>12 DEF Metric
<1>13. ASSUME NEW v \in Nodes, v # 0
       PROVE  \E u \in Nodes : ExistRoute(u, v) = 1 /\ a[Who(u)] = a[Who(v)] - 1
  <2> DEFINE y == Who(v)
  <2>1. y \in Name /\ a[y] \in 1 .. L /\ Away[y] <= L /\ y \in Connected
    BY <1>2, <1>3, <1>8, <1>11, <1>13
  <2> HIDE DEF y
  <2>2. PICK x \in Name : Linked(x, y) /\ a[x] = a[y] - 1
    BY <1>5, <2>1 DEF Metric, L
  <2>3. x # s
    <3> SUFFICES ASSUME x = s PROVE FALSE
      OBVIOUS
    <3>1. PICK w \in Name : Linked(w, s) /\ a[w] = a[s] - 1
      BY <1>1, <1>5, <1>10 DEF Metric, L
    <3>2. w = y
      BY <1>6, <1>7, <2>2, <3>1
    <3> QED
      BY <1>8, <1>10, <2>1, <2>2, <3>1, <3>2
  <2>4. Away[x] <= L
    BY <1>2, <1>6, <2>1, <2>2 DEF Metric, L
  <2>5. x \in Connected
    BY <1>2, <2>3, <2>4
  <2>6. PICK u \in Nodes : Who(u) = x
    BY <1>3, <2>5
  <2>7. u # v
    BY <1>8, <2>1, <2>2, <2>6 DEF y
  <2> QED
    BY <1>3, <2>2, <2>6, <2>7 DEF y
<1> DEFINE M == INTMAX - 1
           G == {k \in 0 .. M : /\ r[k + 1] \subseteq Nodes
                                /\ \A v \in Nodes : v \in r[k + 1] <=> a[Who(v)] < k + 1}
<1>14. M \in Nat /\ M + 1 = INTMAX
  BY DEF INTMAX
<1>15. 0 \in G
  <2>1. r[0 + 1] = {0} /\ 0 \in 0 .. M
    BY <1>14, RingsShape
  <2>2. \A v \in Nodes : a[Who(v)] < 0 + 1 <=> v = 0
    BY <1>11
  <2> HIDE DEF r, M
  <2> QED
    BY <2>1, <2>2
<1>16. ASSUME NEW k \in 1 .. M, k - 1 \in G
       PROVE  k \in G
  <2>1. k \in 1 .. INTMAX - 1 /\ k \in 0 .. M /\ (k - 1) + 1 = k /\ k \in Nat
    BY <1>14
  <2>2. r[k + 1] = Spread(r[k])
    BY <2>1, RingsShape
  <2>3. r[k] \subseteq Nodes /\ \A v \in Nodes : v \in r[k] <=> a[Who(v)] < k
    BY <1>16, <2>1
  <2> HIDE DEF r, M
  <2>4. r[k + 1] \subseteq Nodes
    BY <2>2, <2>3 DEF Spread
  <2>5. ASSUME NEW v \in Nodes PROVE v \in r[k + 1] <=> a[Who(v)] < k + 1
    <3>1. a[Who(v)] \in Nat
      BY <1>11
    <3>2. ASSUME v \in r[k + 1] PROVE a[Who(v)] < k + 1
      <4>1. CASE v \in r[k]
        BY <2>1, <2>3, <3>1, <4>1
      <4>2. CASE \E u \in r[k] : ExistRoute(u, v) = 1
        <5>1. PICK u \in r[k] : ExistRoute(u, v) = 1
          BY <4>2
        <5>2. u \in Nodes /\ a[Who(u)] < k
          BY <2>3
        <5>3. a[Who(v)] <= a[Who(u)] + 1 /\ a[Who(u)] \in Nat
          BY <1>11, <1>12, <5>1, <5>2
        <5> QED
          BY <2>1, <3>1, <5>2, <5>3
      <4> QED
        BY <2>2, <3>2, <4>1, <4>2 DEF Spread
    <3>3. ASSUME a[Who(v)] < k + 1 PROVE v \in r[k + 1]
      <4>1. CASE a[Who(v)] < k
        BY <2>2, <2>3, <4>1 DEF Spread
      <4>2. CASE a[Who(v)] = k
        <5>1. v # 0
          BY <1>11, <4>2
        <5>2. PICK u \in Nodes : ExistRoute(u, v) = 1 /\ a[Who(u)] = a[Who(v)] - 1
          BY <1>13, <5>1
        <5>3. a[Who(u)] < k
          BY <2>1, <4>2, <5>2
        <5>4. u \in r[k]
          BY <2>3, <5>3
        <5> QED
          BY <2>2, <5>2, <5>4 DEF Spread
      <4> QED
        BY <2>1, <3>1, <3>3, <4>1, <4>2
    <3> QED
      BY <3>2, <3>3
  <2> QED
    BY <2>1, <2>4, <2>5
<1> HIDE DEF G
<1>17. \A k \in 0 .. M : k \in G
  <2> HIDE DEF M
  <2> QED
    BY <1>14, <1>15, <1>16, StretchInduction
<1>18. ASSUME NEW v \in Nodes, NEW k \in 1 .. INTMAX
       PROVE  Hops(0)[v] < k <=> a[Who(v)] < k
  <2>1. k - 1 \in 0 .. M /\ (k - 1) + 1 = k
    BY <1>14
  <2>2. v \in r[k] <=> a[Who(v)] < k
    BY <1>17, <2>1 DEF G
  <2> QED
    BY <2>2, HopsShape
<1>19. ASSUME NEW v \in Nodes
       PROVE  Hops(0)[v] = IF a[Who(v)] < INTMAX THEN a[Who(v)] ELSE INTMAX
  <2> DEFINE b == a[Who(v)]
             c == Hops(0)[v]
  <2>1. b \in Nat /\ c \in 0 .. INTMAX /\ \A k \in 1 .. INTMAX : c < k <=> b < k
    BY <1>11, <1>18, HopsShape
  <2> HIDE DEF b, c
  <2>2. c = IF b < INTMAX THEN b ELSE INTMAX
    BY <2>1 DEF INTMAX
  <2> QED
    BY <2>2 DEF b, c
<1> QED
  BY <1>11, <1>19

(* Where the list is not empty it has a head.                              *)
LEMMA HeadThere ==
  ASSUME SelectionInv, ScriptInv, GraphComplete
  PROVE  0 \in Nodes /\ Who(0) = graph[1].name[1]
<1> DEFINE s == net.sink
           y == Neighbors(s)[1]
<1>1. net \in Network /\ s \in Name /\ net \in Networks \cup {ByHand} /\ AnnounceInv
  BY WalkTyped DEF SelectionInv, AnnounceInv
<1>2. Linked(s, y) /\ y \in Name
  <2>1. Neighbors(s) \in Seq(Name) /\ Len(Neighbors(s)) = 1
    BY <1>1, NeighborsShape DEF GraphComplete
  <2>2. 1 \in DOMAIN Neighbors(s) /\ y \in Name
    BY <2>1
  <2>3. Linked(s, y)
    BY <1>1, <2>2, LinkedNeighbors
  <2> QED
    BY <2>2, <2>3
<1>3. y # s
  <2>1. \A l \in DOMAIN net.links : net.links[l][1] # net.links[l][2]
    BY <1>1, NetShape
  <2>2. \A l \in DOMAIN net.links : \A x : Ends(l) # {x}
    BY <2>1 DEF Ends
  <2> HIDE DEF y, s
  <2> QED
    BY <1>2, <2>2 DEF Linked
<1> HIDE DEF y
<1>4. y \in Connected
  <2>1. Metric(s, Away) /\ Connected = {m \in Name : Away[m] <= Len(net.links)} \ {s}
    BY <1>1, AwayIsMetric
  <2>2. Away[s] = 0 /\ Len(net.links) \in Nat
    BY <1>1, <2>1 DEF Metric
  <2>3. Away[s] <= Len(net.links)
    BY <2>2
  <2>4. Away[y] <= Len(net.links)
    BY <1>1, <1>2, <2>1, <2>3 DEF Metric
  <2> QED
    BY <1>2, <1>3, <2>1, <2>4
<1>5. \E v \in Nodes : Who(v) = y
  BY <1>4, GraphNames
<1>6. 0 \in Nodes
  BY <1>5, NodesCounted, GraphLength DEF SelectionInv
<1>7. 0 + 1 = 1
  OBVIOUS
<1> QED
  BY <1>6, <1>7 DEF Who, NameOf

(* Once the choice is made, distances are numbers of links and the answer  *)
(* is the first offer's.                                                   *)
LEMMA ChosenOverLinks ==
  ASSUME SelectionInv, ScriptInv, GraphComplete, answer >= 0,
         NEW a, a = LinksFrom(graph[1].name[1])
  PROVE  /\ \A v \in Nodes : /\ a[Who(v)] \in Nat
                             /\ dist[v] = IF a[Who(v)] < INTMAX THEN a[Who(v)] ELSE INTMAX
         /\ Offers = {} => answer = 0
         /\ Offers # {} => answer = Best[2] /\ Best \in Offers /\ \A p \in Offers : Before(Best, p)
<1>1. Len(graph) \in Nat
  BY GraphLength DEF SelectionInv
<1>2. /\ SearchTyped /\ TurnsCounted /\ (0 \in Nodes => dist[0] = 0)
      /\ Reached /\ EdgesRelaxed /\ SettledFirst /\ turn >= Turns
  <2>1. answer # NoQuery
    BY DEF NoQuery
  <2> QED
    BY <2>1 DEF SelectionInv, SearchInv
<1>3. dist = Hops(0)
  BY <1>1, <1>2, AllExact
<1>4. answer = IF Offers = {} THEN 0 ELSE Best[2]
  BY <1>3, ChosenIsNearest DEF SelectionInv, AnswerIsNearest
<1>5. Offers # {} => Best \in Offers /\ \A p \in Offers : Before(Best, p)
  BY <1>1, <1>2, BestShape
<1>6. 0 \in Nodes /\ a = LinksFrom(Who(0))
  BY HeadThere
<1>7. \A v \in Nodes :
        /\ a[Who(v)] \in Nat
        /\ Hops(0)[v] = IF a[Who(v)] < INTMAX THEN a[Who(v)] ELSE INTMAX
  BY <1>6, HopsAreLinks
<1> QED
  BY <1>3, <1>4, <1>5, <1>7

(* For any network with a sink on one link, any servers and any queries:   *)
(* when every node has been heard of, the answer is a server nearest in    *)
(* the network, whatever the order and the number of announcements.        *)
THEOREM NearestNet == SelectionSpec => []NearestInNetwork
<1>1. SelectionInv /\ ScriptInv => NearestInNetwork
  <2> DEFINE a == LinksFrom(graph[1].name[1])
             Seats(q) == {n \in Connected : <<n>> \in Begins[Servers[q]]}
             all == UNION {Seats(q) : q \in DOMAIN Servers}
  <2> SUFFICES ASSUME SelectionInv, ScriptInv, GraphComplete, answer >= 0
               PROVE  IF answer = 0 THEN \A n \in all : a[n] >= INTMAX
                      ELSE \E n \in Seats(answer) : \A m \in all : a[n] <= a[m]
    BY DEF NearestInNetwork, GraphComplete
  <2>1. /\ \A v \in Nodes : /\ a[Who(v)] \in Nat
                            /\ dist[v] = IF a[Who(v)] < INTMAX THEN a[Who(v)] ELSE INTMAX
        /\ Offers = {} => answer = 0
        /\ Offers # {} => answer = Best[2] /\ Best \in Offers /\ \A p \in Offers : Before(Best, p)
    BY ChosenOverLinks
  <2>2. /\ \A v \in Nodes : Who(v) \in Connected /\ NameOf(v) = <<Who(v)>>
        /\ \A n \in Connected : \E v \in Nodes : Who(v) = n
    BY GraphNames
  <2> HIDE DEF a
  <2>3. ASSUME NEW m \in all
        PROVE  \E v \in Nodes, q \in DOMAIN Servers :
                 /\ Who(v) = m
                 /\ dist[v] < INTMAX => <<v, q>> \in Offers
    <3>1. PICK q \in DOMAIN Servers : m \in Seats(q)
      OBVIOUS
    <3>2. PICK v \in Nodes : Who(v) = m
      BY <2>2, <3>1
    <3>3. NameOf(v) \in Begins[Servers[q]]
      BY <2>2, <3>1, <3>2
    <3>4. dist[v] < INTMAX => <<v, q>> \in Offers
      BY <3>3 DEF Offers, At
    <3> QED
      BY <3>2, <3>4
  <2>4. \A o \in Offers : /\ o[1] \in Nodes /\ o[2] \in DOMAIN Servers /\ dist[o[1]] < INTMAX
                          /\ NameOf(o[1]) \in Begins[Servers[o[2]]]
    BY DEF Offers, At
  <2>5. CASE Offers = {}
    <3>1. answer = 0
      BY <2>1, <2>5
    <3>2. \A m \in all : a[m] >= INTMAX
      <4> SUFFICES ASSUME NEW m \in all PROVE a[m] >= INTMAX
        OBVIOUS
      <4>1. PICK v \in Nodes : Who(v) = m /\ ~(dist[v] < INTMAX)
        BY <2>3, <2>5
      <4> QED
        BY <2>1, <4>1 DEF INTMAX
    <3> HIDE DEF all
    <3> QED
      BY <3>1, <3>2
  <2>6. CASE Offers # {}
    <3> DEFINE o == Best
               n == Who(o[1])
    <3>1. answer = o[2] /\ o \in Offers /\ \A p \in Offers : Before(o, p)
      BY <2>1, <2>6
    <3> HIDE DEF o
    <3>2. o[1] \in Nodes /\ o[2] \in DOMAIN Servers /\ dist[o[1]] < INTMAX
      BY <2>4, <3>1
    <3>3. answer # 0
      <4>1. Servers \in Seq(DOMAIN Begins)
        BY RoutingAssumption
      <4> QED
        BY <3>1, <3>2, <4>1
    <3>4. n \in Seats(answer)
      BY <2>2, <2>4, <3>1, <3>2
    <3>5. a[n] = dist[o[1]] /\ a[n] \in Nat /\ a[n] < INTMAX
      BY <2>1, <3>2 DEF INTMAX
    <3> HIDE DEF n
    <3>6. ASSUME NEW m \in all PROVE a[n] <= a[m]
      <4>1. PICK v \in Nodes, q \in DOMAIN Servers :
              Who(v) = m /\ (dist[v] < INTMAX => <<v, q>> \in Offers)
        BY <2>3
      <4>2. a[m] \in Nat /\ dist[v] = IF a[m] < INTMAX THEN a[m] ELSE INTMAX
        BY <2>1, <4>1
      <4>3. CASE dist[v] < INTMAX
        <5>1. Before(o, <<v, q>>)
          BY <3>1, <4>1, <4>3
        <5>2. dist[o[1]] < dist[v] \/ dist[o[1]] = dist[v] \/ o[1] = v
          BY <5>1 DEF Before
        <5> QED
          BY <3>5, <4>2, <4>3, <5>2 DEF INTMAX
      <4>4. CASE ~(dist[v] < INTMAX)
        BY <3>5, <4>2, <4>4 DEF INTMAX
      <4> QED
        BY <4>3, <4>4
    <3> HIDE DEF all, Seats
    <3> QED
      BY <3>3, <3>4, <3>6
  <2> QED
    BY <2>5, <2>6
<1> QED
  BY <1>1, SelectionSafe, ScriptSafe, PTL
=============================================================================
