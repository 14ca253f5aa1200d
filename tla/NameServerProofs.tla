--------------------------- MODULE NameServerProofs ---------------------------
(***************************************************************************)
(* Proofs about NameServer: for any number of servers and of clients and   *)
(* any traffic, rotation gives each server once per turn, and the server's *)
(* log is a Rotation.                                                      *)
(***************************************************************************)
EXTENDS NameServer, TLAPS

(* One step of a counter modulo n.                                         *)
LEMMA NextRemainder ==
  ASSUME NEW n \in Nat \ {0}, NEW k \in Nat
  PROVE  /\ k % n \in 0 .. n - 1
         /\ (k + 1) % n = IF (k % n) + 1 = n THEN 0 ELSE (k % n) + 1
<1> DEFINE q == k \div n
           p == (k + 1) \div n
<1>1. k % n \in 0 .. n - 1 /\ (k + 1) % n \in 0 .. n - 1
  OBVIOUS
<1>2. q \in Int /\ p \in Int
  OBVIOUS
<1>3. k = n * q + (k % n)
  OBVIOUS
<1>4. k + 1 = n * p + ((k + 1) % n)
  OBVIOUS
<1> HIDE DEF q, p
<1>5. n * (p - q) = 1 + (k % n) - ((k + 1) % n)
  BY <1>1, <1>2, <1>3, <1>4
<1> QED
  BY <1>1, <1>2, <1>5

(* Numbers with the same remainder are n apart.                            *)
LEMMA SameRemainder ==
  ASSUME NEW n \in Nat \ {0}, NEW a \in Nat, NEW b \in Nat, a < b, a % n = b % n
  PROVE  b - a >= n
<1> DEFINE q == a \div n
           p == b \div n
<1>1. q \in Int /\ p \in Int
  OBVIOUS
<1>2. a = n * q + (a % n)
  OBVIOUS
<1>3. b = n * p + (b % n)
  OBVIOUS
<1>4. a % n \in Int
  OBVIOUS
<1> HIDE DEF q, p
<1>5. n * (p - q) = b - a
  BY <1>1, <1>2, <1>3, <1>4
<1>6. p - q >= 1
  BY <1>1, <1>5
<1> QED
  BY <1>1, <1>5, <1>6

(* Datagrams put in flight or taken out leave counts of datagrams.         *)
LEMMA NetworkType ==
  ASSUME NsTypeOK
  PROVE  /\ \A q \in Query : Put(requests, q) \in [Query -> Nat]
         /\ \A q \in Query : requests[q] > 0 => Take(requests, q) \in [Query -> Nat]
         /\ \A a \in Answer : Put(answers, a) \in [Answer -> Nat]
         /\ \A a \in Answer : answers[a] > 0 => Take(answers, a) \in [Answer -> Nat]
<1>1. requests \in [Query -> Nat] /\ answers \in [Answer -> Nat]
  BY DEF NsTypeOK
<1> QED
  BY <1>1 DEF Put, Take

(* What an answer to a query does, in either mode.                         *)
LEMMA RespondType ==
  ASSUME NsTypeOK, NEW client \in Client, NEW s \in 1 .. N, Respond(client, s)
  PROVE  /\ answers' \in [Answer -> Nat]
         /\ dnsLog' \in Seq(LogEntry)
         /\ Len(dnsLog) \in Nat /\ Len(dnsLog') = Len(dnsLog) + 1
         /\ DOMAIN dnsLog' = 1 .. Len(dnsLog) + 1 /\ DOMAIN dnsLog = 1 .. Len(dnsLog)
         /\ dnsLog'[Len(dnsLog) + 1].server = s
         /\ \A k \in DOMAIN dnsLog : dnsLog'[k] = dnsLog[k]
<1> DEFINE reply == [to |-> client, server |-> s]
           entry == [from |-> client, server |-> s]
<1>1. reply \in Answer /\ entry \in LogEntry /\ entry.server = s
  BY NameServerAssumption DEF Answer, LogEntry
<1>2. answers' = Put(answers, reply) /\ dnsLog' = Append(dnsLog, entry)
  BY DEF Respond
<1>3. dnsLog \in Seq(LogEntry)
  BY DEF NsTypeOK
<1> HIDE DEF reply, entry
<1>4. answers' \in [Answer -> Nat]
  BY <1>1, <1>2, NetworkType
<1> QED
  BY <1>1, <1>2, <1>3, <1>4

-----------------------------------------------------------------------------
(* At the start nothing is logged and the pointer is NULL.                 *)
LEMMA RotationStart == ASSUME NameServerInit PROVE RotationInv
BY NameServerAssumption DEF NameServerInit, RotationInv, NsTypeOK

(* The pointer is where the log says, so the next is one further.          *)
LEMMA NextServerRotates ==
  ASSUME RotationInv, mode.rr, N > 0
  PROVE  NextServer = (Len(dnsLog) % N) + 1 /\ NextServer \in 1 .. N
<1>1. dnsLog \in Seq(LogEntry) /\ Len(dnsLog) \in Nat /\ N \in Nat \ {0}
  BY NameServerAssumption DEF RotationInv, NsTypeOK
<1>2. CASE dnsLog = <<>>
  <2>1. rrPtr = 0 /\ Len(dnsLog) = 0
    BY <1>2 DEF RotationInv
  <2>2. 0 % N = 0
    BY <1>1
  <2> QED
    BY <1>1, <2>1, <2>2 DEF NextServer
<1>3. CASE dnsLog # <<>>
  <2> DEFINE k == Len(dnsLog) - 1
  <2>1. k \in Nat /\ Len(dnsLog) \in DOMAIN dnsLog /\ k + 1 = Len(dnsLog)
    BY <1>1, <1>3
  <2>2. rrPtr = (k % N) + 1
    BY <1>3, <2>1 DEF RotationInv
  <2> HIDE DEF k
  <2>3. /\ k % N \in 0 .. N - 1
        /\ (k + 1) % N = IF (k % N) + 1 = N THEN 0 ELSE (k % N) + 1
    BY <1>1, <2>1, NextRemainder
  <2> QED
    BY <1>1, <2>1, <2>2, <2>3 DEF NextServer
<1> QED
  BY <1>2, <1>3

(* The one step that gives a server in rotation.                           *)
LEMMA RotatedAnswerStep ==
  ASSUME RotationInv, RotatedAnswer
  PROVE  /\ RotationInv'
         /\ \E client \in Client :
              dnsLog' = Append(dnsLog, [from   |-> client,
                                        server |-> (Len(dnsLog) % N) + 1])
<1>1. NsTypeOK /\ mode.rr /\ N > 0 /\ UNCHANGED <<mode, nsPc>>
  BY DEF RotatedAnswer, RotationInv
<1>2. PICK q \in Query :
        /\ Receive(q) /\ rrPtr' = NextServer /\ Respond(q.from, NextServer)
  BY DEF RotatedAnswer
<1>3. q.from \in Client
  BY DEF Query
<1>4. NextServer = (Len(dnsLog) % N) + 1 /\ NextServer \in 1 .. N
  BY <1>1, NextServerRotates
<1>5. /\ answers' \in [Answer -> Nat] /\ dnsLog' \in Seq(LogEntry)
      /\ Len(dnsLog) \in Nat /\ Len(dnsLog') = Len(dnsLog) + 1
      /\ DOMAIN dnsLog' = 1 .. Len(dnsLog) + 1 /\ DOMAIN dnsLog = 1 .. Len(dnsLog)
      /\ dnsLog'[Len(dnsLog) + 1].server = NextServer
      /\ \A k \in DOMAIN dnsLog : dnsLog'[k] = dnsLog[k]
  BY <1>1, <1>2, <1>3, <1>4, RespondType
<1>6. requests' \in [Query -> Nat]
  BY <1>1, <1>2, NetworkType DEF Receive
<1>7. NsTypeOK'
  BY <1>1, <1>2, <1>4, <1>5, <1>6 DEF NsTypeOK
<1>8. \A k \in DOMAIN dnsLog' : dnsLog'[k].server = ((k - 1) % N) + 1
  <2> SUFFICES ASSUME NEW k \in 1 .. Len(dnsLog) + 1
               PROVE  dnsLog'[k].server = ((k - 1) % N) + 1
    BY <1>5
  <2>1. CASE k \in DOMAIN dnsLog
    BY <1>1, <1>5, <2>1 DEF RotationInv
  <2>2. CASE k = Len(dnsLog) + 1
    BY <1>4, <1>5, <2>2
  <2> QED
    BY <1>5, <2>1, <2>2
<1>9. RotationInv'
  BY <1>2, <1>5, <1>7, <1>8 DEF RotationInv
<1>10. dnsLog' = Append(dnsLog, [from |-> q.from, server |-> (Len(dnsLog) % N) + 1])
  BY <1>2, <1>4 DEF Respond
<1> QED
  BY <1>3, <1>9, <1>10

(* No other step gives one or moves the pointer.                           *)
LEMMA OtherStepInv ==
  ASSUME RotationInv,
         \/ TinyQuery \/ OtherQuery \/ NoServerCrashes
         \/ \E q \in Query : Ask(q)
         \/ \E a \in Answer : Arrive(a)
  PROVE  RotationInv' /\ UNCHANGED dnsLog
<1>1. NsTypeOK
  BY DEF RotationInv
<1>2. /\ nsPc' \in {"loop", "exited", "crashed"} /\ UNCHANGED <<mode, rrPtr, dnsLog>>
      /\ requests' \in [Query -> Nat] /\ answers' \in [Answer -> Nat]
  <2>1. CASE TinyQuery
    BY <1>1, <2>1, NetworkType DEF TinyQuery, Receive, NsTypeOK
  <2>2. CASE OtherQuery
    <3>1. PICK q \in Query :
            /\ Receive(q)
            /\ answers' = Put(answers, [to |-> q.from, server |-> 0])
            /\ UNCHANGED serverVars
      BY <2>2 DEF OtherQuery
    <3>2. [to |-> q.from, server |-> 0] \in Answer
      BY NameServerAssumption DEF Query, Answer
    <3> QED
      BY <1>1, <3>1, <3>2, NetworkType DEF Receive, NsTypeOK, serverVars
  <2>3. CASE NoServerCrashes
    BY <1>1, <2>3, NetworkType DEF NoServerCrashes, Receive, NsTypeOK
  <2>4. CASE \E q \in Query : Ask(q)
    BY <1>1, <2>4, NetworkType DEF Ask, NsTypeOK, serverVars
  <2>5. CASE \E a \in Answer : Arrive(a)
    BY <1>1, <2>5, NetworkType DEF Arrive, NsTypeOK, serverVars
  <2> QED
    BY <2>1, <2>2, <2>3, <2>4, <2>5
<1> QED
  BY <1>1, <1>2 DEF RotationInv, NsTypeOK

(* Without -r the pointer stays NULL and the rotation promises nothing.    *)
LEMMA NearestAnswerInv == ASSUME RotationInv, NearestAnswer PROVE RotationInv'
<1>1. /\ NsTypeOK /\ ~mode.rr /\ mode.nearest \in 1 .. N
      /\ UNCHANGED <<mode, nsPc, rrPtr>>
  BY NameServerAssumption DEF RotationInv, NsTypeOK, NearestAnswer
<1>2. PICK q \in Query : Receive(q) /\ Respond(q.from, mode.nearest)
  BY DEF NearestAnswer
<1>3. q.from \in Client
  BY DEF Query
<1>4. answers' \in [Answer -> Nat] /\ dnsLog' \in Seq(LogEntry)
  BY <1>1, <1>2, <1>3, RespondType
<1>5. requests' \in [Query -> Nat]
  BY <1>1, <1>2, NetworkType DEF Receive
<1> QED
  BY <1>1, <1>4, <1>5 DEF RotationInv, NsTypeOK

-----------------------------------------------------------------------------
(* rr_ptr and the log agree at every moment, whatever datagrams arrive.    *)
THEOREM PointerFollowsLog == NameServerSpec => []RotationInv
<1>1. RotationInv /\ [NameServerNext]_nsVars => RotationInv'
  <2> SUFFICES ASSUME RotationInv, [NameServerNext]_nsVars PROVE RotationInv'
    OBVIOUS
  <2>1. CASE NameServerNext
    BY <2>1, RotatedAnswerStep, NearestAnswerInv, OtherStepInv
       DEF NameServerNext, NameServerStep
  <2>2. CASE UNCHANGED nsVars
    BY <2>2 DEF nsVars, serverVars, RotationInv, NsTypeOK
  <2> QED
    BY <2>1, <2>2
<1> QED
  BY <1>1, RotationStart, PTL DEF NameServerSpec

(* From the counter: servers logged at places with one remainder are the    *)
(* same, and those places are N apart.                                     *)
LEMMA OncePerTurn == RotationInv => GivesEachOncePerTurn
<1> SUFFICES ASSUME RotationInv, mode.rr,
                    NEW i \in DOMAIN dnsLog, NEW j \in DOMAIN dnsLog,
                    dnsLog[i].server = dnsLog[j].server, i < j
             PROVE  j - i >= N
  BY DEF GivesEachOncePerTurn
<1>1. dnsLog \in Seq(LogEntry) /\ DOMAIN dnsLog = 1 .. Len(dnsLog)
  BY DEF RotationInv, NsTypeOK
<1>2. N \in Nat \ {0}
  <2>1. dnsLog[i] \in LogEntry
    BY <1>1
  <2> QED
    BY <2>1, NameServerAssumption DEF LogEntry
<1>3. /\ dnsLog[i].server = ((i - 1) % N) + 1
      /\ dnsLog[j].server = ((j - 1) % N) + 1
  BY DEF RotationInv
<1>4. i - 1 \in Nat /\ j - 1 \in Nat /\ i - 1 < j - 1
  BY <1>1
<1>5. (i - 1) % N = (j - 1) % N
  <2> DEFINE a == (i - 1) % N
             b == (j - 1) % N
  <2>1. a \in Int /\ b \in Int
    BY <1>2, <1>4
  <2>2. a + 1 = b + 1
    BY <1>3
  <2> HIDE DEF a, b
  <2>3. a = b
    BY <2>1, <2>2
  <2> QED
    BY <2>3 DEF a, b
<1>6. (j - 1) - (i - 1) >= N
  BY <1>2, <1>4, <1>5, SameRemainder
<1> QED
  BY <1>1, <1>6

(* With -r, no server is given out again before every other has been given *)
(* out once, for any list of servers and any traffic in between.           *)
THEOREM EachOncePerTurn == NameServerSpec => []GivesEachOncePerTurn
BY OncePerTurn, PointerFollowsLog, PTL

(* With -r, the server implements Rotation: each step appends the server   *)
(* after the last, or gives none.                                          *)
THEOREM ServerRotates ==
  ASSUME \A m \in Modes : m.rr
  PROVE  NameServerSpec => RotationSpec
<1> DEFINE given == [k \in DOMAIN dnsLog |-> dnsLog[k].server]
<1>1. NameServerInit => Abs!RotationInit
  BY DEF NameServerInit, Abs!RotationInit
<1>2. RotationInv /\ [NameServerNext]_nsVars => [Abs!Give]_given
  <2> SUFFICES ASSUME RotationInv, [NameServerNext]_nsVars,
                      given' # given
               PROVE  Abs!Give
    BY DEF Abs!Give
  <2>1. CASE RotatedAnswer
    <3>1. PICK client \in Client :
            dnsLog' = Append(dnsLog, [from   |-> client,
                                      server |-> (Len(dnsLog) % N) + 1])
      BY <2>1, RotatedAnswerStep
    <3>2. dnsLog \in Seq(LogEntry)
      BY DEF RotationInv, NsTypeOK
    <3>3. Len(given) = Len(dnsLog)
      BY <3>2
    <3>4. given' = Append(given, (Len(dnsLog) % N) + 1)
      BY <3>1, <3>2
    <3> QED
      BY <3>3, <3>4 DEF Abs!Give
  <2>2. CASE ~RotatedAnswer
    <3>1. mode.rr
      BY DEF RotationInv, NsTypeOK
    <3>2. UNCHANGED dnsLog
      BY <2>2, <3>1, OtherStepInv
         DEF NameServerNext, NameServerStep, NearestAnswer, nsVars, serverVars
    <3> QED
      BY <3>2
  <2> QED
    BY <2>1, <2>2
<1> QED
  BY <1>1, <1>2, PointerFollowsLog, PTL
     DEF NameServerSpec, RotationSpec, Abs!RotationSpec
===============================================================================
