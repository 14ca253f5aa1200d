---------------------------- MODULE ResolverProofs ----------------------------
(***************************************************************************)
(* Proofs about Resolver: for any number of proxies, servers and foreign   *)
(* clients, whatever the network loses, duplicates and reorders, rotation  *)
(* still gives each server once per turn, and the address a proxy has of   *)
(* the name server's own datagrams is one the server logged for it.        *)
(***************************************************************************)
EXTENDS Resolver, NameServerProofs, FiniteSetTheorems

(* The log has a record of server s given to c.                            *)
InLog(log, c, s) == \E k \in DOMAIN log : log[k] = [from |-> c, server |-> s]

(* What log says of a datagram: its address is there, and a proxy is sent  *)
(* no datagram without one.                                                *)
Backed(log, a) ==
  IF a.server = 0 THEN a.to \notin Proxy ELSE InLog(log, a.to, a.server)

(* The log backs every datagram in flight, and proxies ask for the one     *)
(* valid name: what makes AddressWasLogged inductive.                      *)
AnswersWereLogged == \A a \in Answer : answers[a] > 0 => Backed(dnsLog, a)

ProxiesAskVideos ==
  \A q \in Query : requests[q] > 0 /\ q.from \in Proxy => q.kind = "video"

ProxyTypes ==
  /\ phase \in [Proxy -> {"start", "waiting", "serving"}]
  /\ www \in [Proxy -> -1 .. N]
  /\ sender \in [Proxy -> {"nobody", "server", "stranger"}]

(* A proxy that has not asked has taken no datagram.                       *)
NobodyYet == \A p \in Proxy : phase[p] = "start" => sender[p] = "nobody"

ResolverInv ==
  /\ RotationInv
  /\ ProxyTypes
  /\ NobodyYet
  /\ ProxiesAskVideos
  /\ AnswersWereLogged
  /\ AddressWasLogged

-----------------------------------------------------------------------------
(* Datagrams                                                               *)

(* Only the datagram put in flight is new, and a copy of one is not.       *)
LEMMA PutLogged ==
  ASSUME NsTypeOK, AnswersWereLogged, NEW a \in Answer, NEW log,
         \A c, s : InLog(dnsLog, c, s) => InLog(log, c, s),
         answers' = Put(answers, a), dnsLog' = log,
         answers[a] > 0 \/ Backed(log, a)
  PROVE  AnswersWereLogged'
<1> SUFFICES ASSUME NEW b \in Answer, answers'[b] > 0 PROVE Backed(log, b)
  BY DEF AnswersWereLogged
<1>0. Backed(dnsLog, b) => Backed(log, b)
  BY DEF Backed
<1>1. answers \in [Answer -> Nat]
  BY DEF NsTypeOK
<1>2. CASE b = a
  BY <1>0, <1>2 DEF AnswersWereLogged
<1>3. CASE b # a
  <2>1. answers'[b] = answers[b]
    BY <1>1, <1>3 DEF Put
  <2> QED
    BY <1>0, <2>1 DEF AnswersWereLogged
<1> QED
  BY <1>2, <1>3

(* Taking a datagram out leaves what was said of the others.               *)
LEMMA TakeLogged ==
  ASSUME NsTypeOK, AnswersWereLogged, NEW a \in Answer,
         answers' = Take(answers, a), dnsLog' = dnsLog
  PROVE  AnswersWereLogged'
<1> SUFFICES ASSUME NEW b \in Answer, answers'[b] > 0 PROVE Backed(dnsLog, b)
  BY DEF AnswersWereLogged
<1>1. answers \in [Answer -> Nat]
  BY DEF NsTypeOK
<1>2. answers'[b] = IF b = a THEN answers[b] - 1 ELSE answers[b]
  BY <1>1 DEF Take
<1>3. answers[b] > 0
  BY <1>1, <1>2
<1> QED
  BY <1>3 DEF AnswersWereLogged

(* The rotation does not look at what is in flight.                        *)
LEMMA TrafficInv ==
  ASSUME RotationInv, UNCHANGED serverVars,
         requests' \in [Query -> Nat], answers' \in [Answer -> Nat]
  PROVE  RotationInv'
BY DEF RotationInv, NsTypeOK, serverVars

-----------------------------------------------------------------------------
(* The name server                                                         *)

(* An answer is logged as it is sent.                                      *)
LEMMA RespondLogged ==
  ASSUME NsTypeOK, AnswersWereLogged, NEW client \in Client, NEW s \in 1 .. N,
         Respond(client, s)
  PROVE  /\ AnswersWereLogged'
         /\ \A c, t : InLog(dnsLog, c, t) => InLog(dnsLog', c, t)
<1> DEFINE reply == [to |-> client, server |-> s]
           entry == [from |-> client, server |-> s]
<1>1. reply \in Answer /\ reply.to = client /\ reply.server = s
  BY NameServerAssumption DEF Answer
<1>2. answers' = Put(answers, reply) /\ dnsLog' = Append(dnsLog, entry)
  BY DEF Respond
<1>3. /\ Len(dnsLog) \in Nat
      /\ DOMAIN dnsLog' = 1 .. Len(dnsLog) + 1 /\ DOMAIN dnsLog = 1 .. Len(dnsLog)
      /\ \A k \in DOMAIN dnsLog : dnsLog'[k] = dnsLog[k]
  BY RespondType
<1>4. dnsLog'[Len(dnsLog) + 1] = entry
  <2>1. dnsLog \in Seq(LogEntry)
    BY DEF NsTypeOK
  <2> HIDE DEF entry
  <2> QED
    BY <1>2, <2>1
<1>5. InLog(dnsLog', client, s)
  BY <1>3, <1>4 DEF InLog
<1>6. \A c, t : InLog(dnsLog, c, t) => InLog(dnsLog', c, t)
  <2>1. \A k \in DOMAIN dnsLog : k \in DOMAIN dnsLog' /\ dnsLog'[k] = dnsLog[k]
    BY <1>3
  <2> QED
    BY <2>1 DEF InLog
<1> HIDE DEF reply
<1>7. Backed(dnsLog', reply)
  BY <1>1, <1>5, NameServerAssumption DEF Backed
<1>8. AnswersWereLogged'
  BY <1>1, <1>2, <1>6, <1>7, PutLogged
<1> QED
  BY <1>6, <1>8

(* Nothing but a proxy's query for the valid name is asked in its name.    *)
LEMMA TakeAsks ==
  ASSUME NsTypeOK, ProxiesAskVideos, NEW q \in Query, requests' = Take(requests, q)
  PROVE  ProxiesAskVideos'
<1> SUFFICES ASSUME NEW o \in Query, requests'[o] > 0 PROVE requests[o] > 0
  BY DEF ProxiesAskVideos
<1>1. requests \in [Query -> Nat]
  BY DEF NsTypeOK
<1>2. requests'[o] = IF o = q THEN requests[o] - 1 ELSE requests[o]
  BY <1>1 DEF Take
<1> QED
  BY <1>1, <1>2

LEMMA PutAsks ==
  ASSUME NsTypeOK, ProxiesAskVideos, NEW q \in Query, requests' = Put(requests, q),
         q.from \in Proxy => requests[q] > 0 \/ q.kind = "video"
  PROVE  ProxiesAskVideos'
<1> SUFFICES ASSUME NEW o \in Query, requests'[o] > 0, o.from \in Proxy
             PROVE  o.kind = "video"
  BY DEF ProxiesAskVideos
<1>1. requests \in [Query -> Nat]
  BY DEF NsTypeOK
<1>2. CASE o = q
  BY <1>2 DEF ProxiesAskVideos
<1>3. CASE o # q
  <2>1. requests'[o] = requests[o]
    BY <1>1, <1>3 DEF Put
  <2> QED
    BY <2>1 DEF ProxiesAskVideos
<1> QED
  BY <1>2, <1>3

(* No step of the server forgets a record or sends what it did not log.    *)
LEMMA ServerLogged ==
  ASSUME RotationInv, ProxiesAskVideos, AnswersWereLogged, NameServerStep
  PROVE  /\ AnswersWereLogged'
         /\ ProxiesAskVideos'
         /\ \A c, t : InLog(dnsLog, c, t) => InLog(dnsLog', c, t)
<1>1. NsTypeOK
  BY DEF RotationInv
<1>0. ProxiesAskVideos'
  <2>1. PICK q \in Query : requests' = Take(requests, q)
    BY DEF NameServerStep, TinyQuery, OtherQuery, RotatedAnswer, NearestAnswer,
           NoServerCrashes, Receive
  <2> QED
    BY <1>1, <2>1, TakeAsks
<1>2. CASE TinyQuery \/ NoServerCrashes
  BY <1>0, <1>2 DEF TinyQuery, NoServerCrashes, AnswersWereLogged
<1>3. CASE OtherQuery
  <2>1. PICK q \in Query :
          /\ q.kind = "other" /\ requests[q] > 0
          /\ answers' = Put(answers, [to |-> q.from, server |-> 0])
          /\ UNCHANGED serverVars
    BY <1>3 DEF OtherQuery, Receive
  <2> DEFINE reply == [to |-> q.from, server |-> 0]
  <2>2. reply \in Answer /\ reply.server = 0 /\ reply.to = q.from
    BY NameServerAssumption DEF Query, Answer
  <2>3. dnsLog' = dnsLog /\ answers' = Put(answers, reply)
    BY <2>1 DEF serverVars
  <2> HIDE DEF reply
  <2>4. Backed(dnsLog, reply)
    BY <2>1, <2>2 DEF ProxiesAskVideos, Backed
  <2> QED
    BY <1>0, <1>1, <2>2, <2>3, <2>4, PutLogged
<1>4. CASE RotatedAnswer
  <2>1. mode.rr /\ N > 0
    BY <1>4 DEF RotatedAnswer
  <2>2. NextServer \in 1 .. N
    BY <2>1, NextServerRotates
  <2>3. PICK q \in Query : Respond(q.from, NextServer)
    BY <1>4 DEF RotatedAnswer
  <2>4. q.from \in Client
    BY DEF Query
  <2> QED
    BY <1>0, <1>1, <2>2, <2>3, <2>4, RespondLogged
<1>5. CASE NearestAnswer
  <2>1. mode.nearest \in 1 .. N
    BY <1>1, <1>5, NameServerAssumption DEF NsTypeOK, NearestAnswer
  <2>2. PICK q \in Query : Respond(q.from, mode.nearest)
    BY <1>5 DEF NearestAnswer
  <2>3. q.from \in Client
    BY DEF Query
  <2> QED
    BY <1>0, <1>1, <2>1, <2>2, <2>3, RespondLogged
<1> QED
  BY <1>2, <1>3, <1>4, <1>5 DEF NameServerStep

-----------------------------------------------------------------------------
(* An address taken from an answer, and one it still is when the log has   *)
(* grown.                                                                  *)
Holds(log, p, w) ==
  \E k \in DOMAIN log :
    /\ log[k].from = p
    /\ w = IF log[k].server \in Fits THEN log[k].server ELSE Nowhere

LEMMA HoldsPrinted ==
  ASSUME NEW log, NEW p, NEW s, InLog(log, p, s)
  PROVE  Holds(log, p, Printed(s))
<1>1. PICK k \in DOMAIN log : log[k] = [from |-> p, server |-> s]
  BY DEF InLog
<1>2. log[k].from = p /\ log[k].server = s
  BY <1>1
<1> QED
  BY <1>2 DEF Holds, Printed

LEMMA HoldsStays ==
  ASSUME NsTypeOK, NEW p, NEW w, Holds(dnsLog, p, w),
         \A c, t : InLog(dnsLog, c, t) => InLog(dnsLog', c, t)
  PROVE  Holds(dnsLog', p, w)
<1>1. PICK k \in DOMAIN dnsLog :
        /\ dnsLog[k].from = p
        /\ w = IF dnsLog[k].server \in Fits THEN dnsLog[k].server ELSE Nowhere
  BY DEF Holds
<1> DEFINE t == dnsLog[k].server
<1>2. dnsLog[k] \in LogEntry
  BY DEF NsTypeOK
<1>3. dnsLog[k] = [from |-> p, server |-> t]
  BY <1>1, <1>2 DEF LogEntry
<1>4. w = Printed(t)
  BY <1>1 DEF Printed
<1> HIDE DEF t
<1>5. InLog(dnsLog', p, t)
  BY <1>3 DEF InLog
<1> QED
  BY <1>4, <1>5, HoldsPrinted

(* Proxies keep their addresses while the log grows.                       *)
LEMMA LoggedStays ==
  ASSUME NsTypeOK, AddressWasLogged, UNCHANGED proxyVars,
         \A c, t : InLog(dnsLog, c, t) => InLog(dnsLog', c, t)
  PROVE  AddressWasLogged'
<1> SUFFICES ASSUME NEW p \in Proxy, sender[p] = "server"
             PROVE  Holds(dnsLog', p, www[p])
  BY DEF AddressWasLogged, Holds, proxyVars
<1>1. Holds(dnsLog, p, www[p])
  BY DEF AddressWasLogged, Holds
<1> QED
  BY <1>1, HoldsStays

(* A proxy's own datagram.                                                 *)
LEMMA VideoType == ASSUME NEW p \in Proxy PROVE Video(p) \in Query /\ p \in Client
BY ResolverAssumption DEF Video, Query

LEMMA SendQueryInv ==
  ASSUME ResolverInv, NEW p \in Proxy, SendQuery(p)
  PROVE  ResolverInv'
<1>1. NsTypeOK /\ requests \in [Query -> Nat] /\ answers \in [Answer -> Nat]
  BY DEF ResolverInv, RotationInv, NsTypeOK
<1>2. /\ requests' = Put(requests, Video(p))
      /\ phase' = [phase EXCEPT ![p] = "waiting"]
      /\ UNCHANGED serverVars /\ answers' = answers /\ www' = www /\ dnsLog' = dnsLog
      /\ sender' = sender
  BY DEF SendQuery, serverVars
<1>3. RotationInv'
  BY <1>1, <1>2, VideoType, NetworkType, TrafficInv DEF ResolverInv
<1>4. ProxyTypes'
  BY <1>2 DEF ResolverInv, ProxyTypes
<1>5. AnswersWereLogged'
  BY <1>2 DEF ResolverInv, AnswersWereLogged
<1>6. ProxiesAskVideos'
  BY <1>1, <1>2, VideoType, PutAsks DEF ResolverInv, Video
<1>7. AddressWasLogged'
  BY <1>2 DEF ResolverInv, AddressWasLogged
<1>8. NobodyYet'
  BY <1>2 DEF ResolverInv, NobodyYet, ProxyTypes
<1> QED
  BY <1>3, <1>4, <1>5, <1>6, <1>7, <1>8 DEF ResolverInv

(* No datagram is taken, whatever malloc left.                             *)
LEMMA SendFailsInv ==
  ASSUME ResolverInv, NEW p \in Proxy, SendFails(p)
  PROVE  ResolverInv'
<1>1. PICK a \in {Nowhere, Anywhere} : www' = [www EXCEPT ![p] = a]
  BY DEF SendFails
<1>2. /\ phase[p] = "start" /\ phase' = [phase EXCEPT ![p] = "serving"]
      /\ UNCHANGED nsVars /\ sender' = sender
  BY DEF SendFails
<1>3. a \in -1 .. N
  BY NameServerAssumption DEF Nowhere, Anywhere
<1>4. RotationInv' /\ AnswersWereLogged' /\ ProxiesAskVideos'
  BY <1>2 DEF ResolverInv, RotationInv, NsTypeOK, AnswersWereLogged, ProxiesAskVideos,
              nsVars, serverVars
<1>5. ProxyTypes'
  BY <1>1, <1>2, <1>3 DEF ResolverInv, ProxyTypes
<1>6. \A o \in Proxy : o # p => www'[o] = www[o]
  BY <1>1 DEF ResolverInv, ProxyTypes
<1>7. sender[p] # "server"
  BY <1>2 DEF ResolverInv, NobodyYet
<1>8. AddressWasLogged'
  BY <1>2, <1>6, <1>7 DEF ResolverInv, AddressWasLogged, nsVars, serverVars
<1>9. NobodyYet'
  BY <1>2 DEF ResolverInv, NobodyYet, ProxyTypes
<1> QED
  BY <1>4, <1>5, <1>8, <1>9 DEF ResolverInv

(* A datagram of the name server's is one for this proxy, and has an       *)
(* address.                                                                *)
LEMMA FromServerInv ==
  ASSUME ResolverInv, NEW p \in Proxy, ReceiveAnswer(p), FromServer(p)
  PROVE  ResolverInv'
<1>1. PICK s \in 0 .. N :
        /\ answers[[to |-> p, server |-> s]] > 0
        /\ answers' = Take(answers, [to |-> p, server |-> s])
        /\ www' = [www EXCEPT ![p] = IF s = 0 THEN Anywhere ELSE Printed(s)]
  BY DEF FromServer
<1> DEFINE a == [to |-> p, server |-> s]
<1>2. /\ phase' = [phase EXCEPT ![p] = "serving"]
      /\ sender' = [sender EXCEPT ![p] = "server"]
      /\ UNCHANGED serverVars /\ requests' = requests /\ dnsLog' = dnsLog
  BY DEF ReceiveAnswer, FromServer, serverVars
<1>3. a \in Answer /\ a.to = p /\ a.server = s
  BY VideoType DEF Answer
<1>4. s # 0 /\ InLog(dnsLog, p, s)
  BY <1>1, <1>3 DEF ResolverInv, AnswersWereLogged, Backed
<1>5. answers[a] > 0 /\ answers' = Take(answers, a) /\ www' = [www EXCEPT ![p] = Printed(s)]
  BY <1>1, <1>4
<1>6. Printed(s) \in -1 .. N
  BY NameServerAssumption DEF Printed, Nowhere
<1> HIDE DEF a
<1>7. NsTypeOK /\ requests \in [Query -> Nat]
  BY DEF ResolverInv, RotationInv, NsTypeOK
<1>8. RotationInv'
  BY <1>2, <1>3, <1>5, <1>7, NetworkType, TrafficInv DEF ResolverInv
<1>9. AnswersWereLogged' /\ ProxiesAskVideos'
  BY <1>2, <1>3, <1>5, <1>7, TakeLogged DEF ResolverInv, ProxiesAskVideos
<1>10. ProxyTypes'
  BY <1>2, <1>5, <1>6 DEF ResolverInv, ProxyTypes
<1>11. /\ www'[p] = Printed(s)
       /\ \A o \in Proxy : o # p => www'[o] = www[o] /\ sender'[o] = sender[o]
  BY <1>2, <1>5 DEF ResolverInv, ProxyTypes
<1>12. AddressWasLogged'
  <2> SUFFICES ASSUME NEW o \in Proxy, sender'[o] = "server"
               PROVE  Holds(dnsLog, o, www'[o])
    BY <1>2 DEF AddressWasLogged, Holds
  <2>1. CASE o = p
    BY <1>4, <1>11, <2>1, HoldsPrinted
  <2>2. CASE o # p
    BY <1>11, <2>2 DEF ResolverInv, AddressWasLogged, Holds
  <2> QED
    BY <2>1, <2>2
<1>13. NobodyYet'
  BY <1>2 DEF ResolverInv, NobodyYet, ProxyTypes
<1> QED
  BY <1>8, <1>9, <1>10, <1>12, <1>13 DEF ResolverInv

(* A stranger's may have any address: nothing is said of the proxy then.   *)
LEMMA FromStrangerInv ==
  ASSUME ResolverInv, NEW p \in Proxy, ReceiveAnswer(p), FromStranger(p)
  PROVE  ResolverInv'
<1>1. PICK a \in Fits \cup {Nowhere, Anywhere} : www' = [www EXCEPT ![p] = a]
  BY DEF FromStranger
<1>2. /\ phase' = [phase EXCEPT ![p] = "serving"]
      /\ sender' = [sender EXCEPT ![p] = "stranger"]
      /\ UNCHANGED serverVars /\ requests' = requests /\ answers' = answers
      /\ dnsLog' = dnsLog
  BY DEF ReceiveAnswer, FromStranger, serverVars
<1>3. a \in -1 .. N
  BY NameServerAssumption, ResolverAssumption DEF Nowhere, Anywhere
<1>4. RotationInv' /\ AnswersWereLogged' /\ ProxiesAskVideos'
  BY <1>2 DEF ResolverInv, RotationInv, NsTypeOK, AnswersWereLogged, ProxiesAskVideos,
              serverVars
<1>5. ProxyTypes'
  BY <1>1, <1>2, <1>3 DEF ResolverInv, ProxyTypes
<1>6. /\ sender'[p] = "stranger"
      /\ \A o \in Proxy : o # p => www'[o] = www[o] /\ sender'[o] = sender[o]
  BY <1>1, <1>2 DEF ResolverInv, ProxyTypes
<1>7. AddressWasLogged'
  BY <1>2, <1>6 DEF ResolverInv, AddressWasLogged
<1>8. NobodyYet'
  BY <1>2 DEF ResolverInv, NobodyYet, ProxyTypes
<1> QED
  BY <1>4, <1>5, <1>7, <1>8 DEF ResolverInv

LEMMA ReceiveAnswerInv ==
  ASSUME ResolverInv, NEW p \in Proxy, ReceiveAnswer(p)
  PROVE  ResolverInv'
BY FromServerInv, FromStrangerInv DEF ReceiveAnswer

(* The name server goes on with its rotation.                              *)
LEMMA ServerTurnInv == ASSUME ResolverInv, ServerTurn PROVE ResolverInv'
<1>1. NameServerStep /\ UNCHANGED proxyVars
  BY DEF ServerTurn
<1>2. RotationInv'
  BY <1>1, RotatedAnswerStep, NearestAnswerInv, OtherStepInv
     DEF ResolverInv, NameServerStep
<1>3. /\ AnswersWereLogged' /\ ProxiesAskVideos'
      /\ \A c, t : InLog(dnsLog, c, t) => InLog(dnsLog', c, t)
  BY <1>1, ServerLogged DEF ResolverInv
<1>4. AddressWasLogged'
  BY <1>1, <1>3, LoggedStays DEF ResolverInv, RotationInv
<1> QED
  BY <1>1, <1>2, <1>3, <1>4 DEF ResolverInv, ProxyTypes, NobodyYet, proxyVars

(* The network and strangers move datagrams, and make no addresses up.     *)
LEMMA NetworkInv == ASSUME ResolverInv, Lose \/ Duplicate \/ Foreign PROVE ResolverInv'
<1>1. UNCHANGED serverVars /\ UNCHANGED proxyVars /\ dnsLog' = dnsLog
  BY DEF Lose, Duplicate, Foreign, Ask, Arrive, serverVars
<1>2. NsTypeOK /\ requests \in [Query -> Nat] /\ answers \in [Answer -> Nat]
  BY DEF ResolverInv, RotationInv, NsTypeOK
<1>3. \/ /\ answers' = answers
         /\ \E q \in Query :
              \/ /\ requests' = Put(requests, q)
                 /\ q.from \in Proxy => requests[q] > 0
              \/ requests[q] > 0 /\ requests' = Take(requests, q)
      \/ /\ requests' = requests
         /\ \E a \in Answer : /\ answers[a] > 0
                              /\ \/ answers' = Put(answers, a)
                                 \/ answers' = Take(answers, a)
  BY DEF Lose, Duplicate, Foreign, Ask, Arrive
<1>4. requests' \in [Query -> Nat] /\ answers' \in [Answer -> Nat]
  BY <1>2, <1>3, NetworkType
<1>5. RotationInv'
  BY <1>1, <1>4, TrafficInv DEF ResolverInv
<1>6. AnswersWereLogged'
  <2>1. CASE answers' = answers
    BY <1>1, <2>1 DEF ResolverInv, AnswersWereLogged
  <2>2. CASE \E a \in Answer : /\ answers[a] > 0
                              /\ \/ answers' = Put(answers, a)
                                 \/ answers' = Take(answers, a)
    BY <1>1, <1>2, <2>2, PutLogged, TakeLogged DEF ResolverInv
  <2> QED
    BY <1>3, <2>1, <2>2
<1>7. AddressWasLogged'
  BY <1>1, <1>2, LoggedStays DEF ResolverInv
<1>8. ProxiesAskVideos'
  <2>1. CASE requests' = requests
    BY <2>1 DEF ResolverInv, ProxiesAskVideos
  <2>2. CASE \E q \in Query :
               \/ /\ requests' = Put(requests, q)
                  /\ q.from \in Proxy => requests[q] > 0
               \/ requests[q] > 0 /\ requests' = Take(requests, q)
    BY <1>2, <2>2, PutAsks, TakeAsks DEF ResolverInv
  <2> QED
    BY <1>3, <2>1, <2>2
<1> QED
  BY <1>1, <1>5, <1>6, <1>7, <1>8 DEF ResolverInv, ProxyTypes, NobodyYet, proxyVars

-----------------------------------------------------------------------------
LEMMA ResolverInvariant == ResolverSpec => []ResolverInv
<1>1. ResolverInit => ResolverInv
  <2> SUFFICES ASSUME ResolverInit PROVE ResolverInv
    OBVIOUS
  <2>1. RotationInv
    BY RotationStart DEF ResolverInit
  <2>2. ProxyTypes
    BY NameServerAssumption DEF ResolverInit, ProxyTypes, Nowhere
  <2>3. AnswersWereLogged
    BY DEF ResolverInit, NameServerInit, AnswersWereLogged
  <2>4. AddressWasLogged /\ NobodyYet
    BY DEF ResolverInit, AddressWasLogged, NobodyYet
  <2>5. ProxiesAskVideos
    BY DEF ResolverInit, NameServerInit, ProxiesAskVideos
  <2> QED
    BY <2>1, <2>2, <2>3, <2>4, <2>5 DEF ResolverInv
<1>2. ResolverInv /\ [ResolverNext]_resolverVars => ResolverInv'
  <2> SUFFICES ASSUME ResolverInv, [ResolverNext]_resolverVars PROVE ResolverInv'
    OBVIOUS
  <2>1. CASE ResolverNext
    BY <2>1, SendQueryInv, SendFailsInv, ReceiveAnswerInv, ServerTurnInv, NetworkInv
       DEF ResolverNext
  <2>2. CASE UNCHANGED resolverVars
    BY <2>2 DEF resolverVars, nsVars, serverVars, proxyVars, ResolverInv, RotationInv,
                NsTypeOK, ProxyTypes, NobodyYet, ProxiesAskVideos, AnswersWereLogged,
                AddressWasLogged
  <2> QED
    BY <2>1, <2>2
<1> QED
  BY <1>1, <1>2, PTL DEF ResolverSpec

(* Types, through every fault of the network.                              *)
THEOREM ResolverTyped == ResolverSpec => []ResolverTypeOK
<1>1. ResolverInv => ResolverTypeOK
  BY DEF ResolverInv, RotationInv, ProxyTypes, ResolverTypeOK
<1> QED
  BY <1>1, ResolverInvariant, PTL

(* Although resolve takes the first datagram that comes for the answer to  *)
(* its query, and queries have no number, a proxy that has it of the name  *)
(* server has the address of a server logged for itself, or none where     *)
(* that does not fit. Of one that has it of a stranger nothing is said.    *)
THEOREM AddressLogged == ResolverSpec => []AddressWasLogged
<1>1. ResolverInv => AddressWasLogged
  BY DEF ResolverInv
<1> QED
  BY <1>1, ResolverInvariant, PTL

(* Each server once per turn, also when queries come twice and answers are *)
(* lost.                                                                   *)
THEOREM EachOncePerTurnInNetwork == ResolverSpec => []GivesEachOncePerTurn
<1>1. ResolverInv => GivesEachOncePerTurn
  BY OncePerTurn DEF ResolverInv
<1> QED
  BY <1>1, ResolverInvariant, PTL

-----------------------------------------------------------------------------
(* The network without faults: a proxy asks once, and is answered once.    *)
NotLogged(c) == \A k \in DOMAIN dnsLog : dnsLog[k].from # c

LoggedOnce ==
  /\ \A k \in DOMAIN dnsLog : dnsLog[k].from \in Proxy
  /\ \A k, l \in DOMAIN dnsLog : dnsLog[k].from = dnsLog[l].from => k = l

QueriesAreFirst ==
  \A q \in Query : requests[q] > 0 =>
    /\ q.kind = "video" /\ requests[q] = 1
    /\ q.from \in Proxy /\ phase[q.from] = "waiting" /\ NotLogged(q.from)

OneQuery ==
  /\ QueriesAreFirst
  /\ LoggedOnce
  /\ \A a \in Answer : answers[a] > 0 => a.server # 0
  /\ \A p \in Proxy : phase[p] = "start" => NotLogged(p)
  /\ \A p \in Proxy : phase[p] = "serving" => www[p] \in 1 .. N /\ sender[p] = "server"

(* The one query of a proxy that has not asked is the first of its kind.   *)
LEMMA SendQueryOnce ==
  ASSUME ResolverInv, OneQuery, NEW p \in Proxy, SendQuery(p)
  PROVE  OneQuery'
<1>1. /\ phase[p] = "start" /\ requests' = Put(requests, Video(p))
      /\ phase' = [phase EXCEPT ![p] = "waiting"]
      /\ dnsLog' = dnsLog /\ answers' = answers /\ www' = www /\ sender' = sender
  BY DEF SendQuery, serverVars
<1>2. requests \in [Query -> Nat] /\ phase \in [Proxy -> {"start", "waiting", "serving"}]
  BY DEF ResolverInv, RotationInv, NsTypeOK, ProxyTypes
<1>3. Video(p) \in Query /\ Video(p).from = p /\ Video(p).kind = "video"
  BY VideoType DEF Video
<1>4. requests[Video(p)] = 0 /\ NotLogged(p)
  BY <1>1, <1>2, <1>3 DEF OneQuery, QueriesAreFirst
<1>5. QueriesAreFirst'
  <2> SUFFICES ASSUME NEW q \in Query, requests'[q] > 0
               PROVE  /\ q.kind = "video" /\ requests'[q] = 1
                      /\ q.from \in Proxy /\ phase'[q.from] = "waiting" /\ NotLogged(q.from)'
    BY DEF QueriesAreFirst
  <2>1. CASE q = Video(p)
    <3>1. requests'[q] = 1
      BY <1>1, <1>2, <1>3, <1>4, <2>1 DEF Put
    <3> QED
      BY <1>1, <1>2, <1>3, <1>4, <2>1, <3>1 DEF NotLogged
  <2>2. CASE q # Video(p)
    <3>1. requests'[q] = requests[q]
      BY <1>1, <1>2, <2>2 DEF Put
    <3>2. q.kind = "video" /\ requests[q] = 1 /\ q.from \in Proxy
          /\ phase[q.from] = "waiting" /\ NotLogged(q.from)
      BY <3>1 DEF OneQuery, QueriesAreFirst
    <3> QED
      BY <1>1, <1>2, <3>1, <3>2 DEF NotLogged
  <2> QED
    BY <2>1, <2>2
<1> QED
  BY <1>1, <1>2, <1>5 DEF OneQuery, LoggedOnce, NotLogged

(* The answer to it is a server's address, and fits.                       *)
LEMMA ReceiveAnswerOnce ==
  ASSUME NetFaults = {}, Fits = 1 .. N, ResolverInv, OneQuery,
         NEW p \in Proxy, ReceiveAnswer(p)
  PROVE  OneQuery'
<1>0. FromServer(p)
  BY DEF ReceiveAnswer, FromStranger
<1>1. PICK s \in 0 .. N :
        /\ answers[[to |-> p, server |-> s]] > 0
        /\ answers' = Take(answers, [to |-> p, server |-> s])
        /\ www' = [www EXCEPT ![p] = IF s = 0 THEN Anywhere ELSE Printed(s)]
  BY <1>0 DEF FromServer
<1> DEFINE a == [to |-> p, server |-> s]
<1>2. /\ phase' = [phase EXCEPT ![p] = "serving"]
      /\ dnsLog' = dnsLog /\ requests' = requests
      /\ sender' = [sender EXCEPT ![p] = "server"]
  BY <1>0 DEF ReceiveAnswer, FromServer, serverVars
<1>3. a \in Answer /\ a.to = p /\ a.server = s
  BY VideoType DEF Answer
<1>4. /\ answers \in [Answer -> Nat]
      /\ phase \in [Proxy -> {"start", "waiting", "serving"}] /\ www \in [Proxy -> -1 .. N]
      /\ sender \in [Proxy -> {"nobody", "server", "stranger"}]
  BY DEF ResolverInv, RotationInv, NsTypeOK, ProxyTypes
<1>5. s \in 1 .. N /\ ~NotLogged(p)
  <2>1. answers[a] > 0
    BY <1>1
  <2>2. s # 0 /\ InLog(dnsLog, p, s)
    BY <1>3, <2>1 DEF OneQuery, ResolverInv, AnswersWereLogged, Backed
  <2> QED
    BY <2>2, NameServerAssumption DEF InLog, NotLogged
<1>6. www' = [www EXCEPT ![p] = s]
  <2>1. s # 0 /\ (IF s = 0 THEN Anywhere ELSE Printed(s)) = s
    BY <1>5, NameServerAssumption DEF Printed
  <2> QED
    BY <1>1, <2>1
<1>7. answers' = Take(answers, a)
  BY <1>1
<1> HIDE DEF a
<1>8. \A b \in Answer : answers'[b] > 0 => b.server # 0
  <2> SUFFICES ASSUME NEW b \in Answer, answers'[b] > 0 PROVE answers[b] > 0
    BY DEF OneQuery
  <2>1. answers'[b] = IF b = a THEN answers[b] - 1 ELSE answers[b]
    BY <1>4, <1>7 DEF Take
  <2> QED
    BY <1>4, <2>1
<1>9. QueriesAreFirst'
  <2> SUFFICES ASSUME NEW q \in Query, requests[q] > 0
               PROVE  /\ q.kind = "video" /\ requests[q] = 1
                      /\ q.from \in Proxy /\ phase'[q.from] = "waiting" /\ NotLogged(q.from)'
    BY <1>2 DEF QueriesAreFirst
  <2>1. /\ q.kind = "video" /\ requests[q] = 1
        /\ q.from \in Proxy /\ phase[q.from] = "waiting" /\ NotLogged(q.from)
    BY DEF OneQuery, QueriesAreFirst
  <2>2. q.from # p
    BY <1>5, <2>1
  <2> QED
    BY <1>2, <1>4, <2>1, <2>2 DEF NotLogged
<1> QED
  BY <1>2, <1>4, <1>5, <1>6, <1>8, <1>9 DEF OneQuery, LoggedOnce, NotLogged

(* A query that is answered was not answered before.                       *)
LEMMA RespondOnce ==
  ASSUME ResolverInv, OneQuery, NEW q \in Query, Receive(q), q.kind = "video",
         NEW s \in 1 .. N, Respond(q.from, s), UNCHANGED proxyVars
  PROVE  OneQuery'
<1> DEFINE reply == [to |-> q.from, server |-> s]
           entry == [from |-> q.from, server |-> s]
<1>1. /\ NsTypeOK /\ requests \in [Query -> Nat] /\ answers \in [Answer -> Nat]
      /\ phase \in [Proxy -> {"start", "waiting", "serving"}]
  BY DEF ResolverInv, RotationInv, NsTypeOK, ProxyTypes
<1>2. q.from \in Client /\ reply \in Answer /\ reply.server = s /\ s # 0
  BY NameServerAssumption DEF Query, Answer
<1>3. /\ DOMAIN dnsLog' = 1 .. Len(dnsLog) + 1 /\ DOMAIN dnsLog = 1 .. Len(dnsLog)
      /\ Len(dnsLog) \in Nat
      /\ \A k \in DOMAIN dnsLog : dnsLog'[k] = dnsLog[k]
  BY <1>1, <1>2, RespondType
<1>4. dnsLog'[Len(dnsLog) + 1].from = q.from
  <2>1. dnsLog \in Seq(LogEntry) /\ dnsLog' = Append(dnsLog, entry)
    BY <1>1 DEF NsTypeOK, Respond
  <2>2. entry.from = q.from
    OBVIOUS
  <2> HIDE DEF entry
  <2> QED
    BY <2>1, <2>2
<1>5. /\ q.from \in Proxy /\ phase[q.from] = "waiting" /\ NotLogged(q.from)
      /\ requests[q] = 1
  BY DEF Receive, OneQuery, QueriesAreFirst
<1>6. \A c : NotLogged(c) /\ c # q.from => NotLogged(c)'
  BY <1>3, <1>4 DEF NotLogged
<1>7. LoggedOnce'
  BY <1>3, <1>4, <1>5 DEF OneQuery, LoggedOnce, NotLogged
<1>8. QueriesAreFirst'
  <2> SUFFICES ASSUME NEW o \in Query, requests'[o] > 0
               PROVE  /\ o.kind = "video" /\ requests'[o] = 1
                      /\ o.from \in Proxy /\ phase[o.from] = "waiting" /\ NotLogged(o.from)'
    BY DEF QueriesAreFirst, proxyVars
  <2>1. requests'[o] = IF o = q THEN requests[o] - 1 ELSE requests[o]
    BY <1>1 DEF Receive, Take
  <2>2. o # q /\ requests'[o] = requests[o]
    BY <1>5, <2>1
  <2>3. /\ o.kind = "video" /\ requests[o] = 1
        /\ o.from \in Proxy /\ phase[o.from] = "waiting" /\ NotLogged(o.from)
    BY <2>2 DEF OneQuery, QueriesAreFirst
  <2>4. o.from # q.from
    BY <2>2, <2>3 DEF Query
  <2> QED
    BY <1>6, <2>2, <2>3, <2>4
<1>9. \A b \in Answer : answers'[b] > 0 => b.server # 0
  <2> SUFFICES ASSUME NEW b \in Answer, answers'[b] > 0, b # reply PROVE answers[b] > 0
    BY <1>2 DEF OneQuery
  <2>1. answers' = Put(answers, reply)
    BY DEF Respond
  <2> HIDE DEF reply
  <2> QED
    BY <1>1, <2>1 DEF Put
<1>10. \A p \in Proxy : phase[p] = "start" => NotLogged(p)'
  BY <1>5, <1>6 DEF OneQuery
<1> QED
  BY <1>7, <1>8, <1>9, <1>10 DEF OneQuery, proxyVars

LEMMA ServerTurnOnce ==
  ASSUME ResolverInv, OneQuery, ServerTurn
  PROVE  OneQuery'
<1>1. UNCHANGED proxyVars
  BY DEF ServerTurn
<1>2. NsTypeOK /\ RotationInv /\ requests \in [Query -> Nat]
  BY DEF ResolverInv, RotationInv, NsTypeOK
<1>3. CASE TinyQuery \/ OtherQuery
  BY <1>3 DEF TinyQuery, OtherQuery, Receive, OneQuery, QueriesAreFirst
<1>4. CASE RotatedAnswer
  <2>1. NextServer \in 1 .. N
    BY <1>2, <1>4, NextServerRotates DEF RotatedAnswer
  <2>2. PICK q \in Query : q.kind = "video" /\ Receive(q) /\ Respond(q.from, NextServer)
    BY <1>4 DEF RotatedAnswer
  <2> QED
    BY <1>1, <2>1, <2>2, RespondOnce
<1>5. CASE NearestAnswer
  <2>1. mode.nearest \in 1 .. N
    BY <1>2, <1>5, NameServerAssumption DEF NsTypeOK, NearestAnswer
  <2>2. PICK q \in Query : q.kind = "video" /\ Receive(q) /\ Respond(q.from, mode.nearest)
    BY <1>5 DEF NearestAnswer
  <2> QED
    BY <1>1, <2>1, <2>2, RespondOnce
<1>6. CASE NoServerCrashes
  <2>1. PICK q \in Query : Receive(q)
    BY <1>6 DEF NoServerCrashes
  <2>2. UNCHANGED <<dnsLog, answers, phase, www, sender>>
    BY <1>1, <1>6 DEF NoServerCrashes, proxyVars
  <2>3. \A o \in Query : requests'[o] > 0 => requests[o] > 0 /\ requests'[o] = requests[o]
    <3> SUFFICES ASSUME NEW o \in Query, requests'[o] > 0
                 PROVE  requests[o] > 0 /\ requests'[o] = requests[o]
      OBVIOUS
    <3>1. requests'[o] = IF o = q THEN requests[o] - 1 ELSE requests[o]
      BY <1>2, <2>1 DEF Receive, Take
    <3>2. requests[q] = 1
      BY <2>1 DEF Receive, OneQuery, QueriesAreFirst
    <3> QED
      BY <3>1, <3>2
  <2> QED
    BY <2>2, <2>3 DEF OneQuery, QueriesAreFirst, LoggedOnce, NotLogged
<1> QED
  BY <1>3, <1>4, <1>5, <1>6 DEF ServerTurn, NameServerStep

LEMMA AsksOnce ==
  ASSUME NetFaults = {}, Fits = 1 .. N
  PROVE  ResolverSpec => []OneQuery
<1>1. ResolverInit => OneQuery
  BY DEF ResolverInit, NameServerInit, OneQuery, QueriesAreFirst, LoggedOnce, NotLogged
<1>2. ResolverInv /\ OneQuery /\ [ResolverNext]_resolverVars => OneQuery'
  <2> SUFFICES ASSUME ResolverInv, OneQuery, [ResolverNext]_resolverVars PROVE OneQuery'
    OBVIOUS
  <2>1. CASE ResolverNext
    BY <2>1, SendQueryOnce, ReceiveAnswerOnce, ServerTurnOnce
       DEF ResolverNext, SendFails, Lose, Duplicate, Foreign
  <2>2. CASE UNCHANGED resolverVars
    BY <2>2 DEF resolverVars, nsVars, serverVars, proxyVars, OneQuery, QueriesAreFirst,
                LoggedOnce, NotLogged
  <2> QED
    BY <2>1, <2>2
<1> QED
  BY <1>1, <1>2, ResolverInvariant, PTL DEF ResolverSpec

-----------------------------------------------------------------------------
(* Counting the users of two servers                                       *)

(* A number is its quotient and remainder.                                 *)
LEMMA Remainder ==
  ASSUME NEW n \in Nat \ {0}, NEW q \in Int, NEW r \in 0 .. n - 1, n * q + r \in Nat
  PROVE  (n * q + r) % n = r
<1> DEFINE a == n * q + r
           d == a \div n
<1>1. d \in Int /\ a % n \in 0 .. n - 1 /\ a \in Nat
  OBVIOUS
<1>2. a = n * d + (a % n)
  OBVIOUS
<1>3. a = n * q + r
  OBVIOUS
<1> HIDE DEF d
<1>4. n * (d - q) = r - (a % n)
  BY <1>1, <1>2, <1>3
<1>5. d - q = 0
  <2> DEFINE e == d - q
             m == a % n
  <2>1. e \in Int /\ m \in 0 .. n - 1 /\ n * e = r - m
    BY <1>1, <1>4
  <2> HIDE DEF e, m
  <2>2. e = 0
    BY <2>1
  <2> QED
    BY <2>2 DEF e
<1> QED
  BY <1>1, <1>4, <1>5

LEMMA Divided ==
  ASSUME NEW a \in Int, NEW n \in Nat \ {0}
  PROVE  a \div n \in Int /\ a = n * (a \div n) + (a % n)
OBVIOUS

LEMMA OneLess ==
  ASSUME NEW n \in Int, NEW q \in Int
  PROVE  n * q \in Int /\ n * (q - 1) = n * q - n
OBVIOUS

(* After the first turn, server t was given less than a turn before s was. *)
LEMMA GivenBefore ==
  ASSUME RotationInv, mode.rr, NEW s \in 1 .. N, NEW t \in 1 .. N, s # t,
         NEW k \in DOMAIN dnsLog, k > N, dnsLog[k].server = s
  PROVE  \E j \in DOMAIN dnsLog : k - N < j /\ j < k /\ dnsLog[j].server = t
<1>1. N \in Nat \ {0} /\ dnsLog \in Seq(LogEntry) /\ k \in Nat /\ s \in Nat /\ t \in Nat
  <2>1. N \in Nat \ {0}
    BY NameServerAssumption
  <2>2. dnsLog \in Seq(LogEntry)
    BY DEF RotationInv, NsTypeOK
  <2>3. k \in 1 .. Len(dnsLog)
    BY <2>2
  <2> QED
    BY <2>1, <2>2, <2>3
<1>2. DOMAIN dnsLog = 1 .. Len(dnsLog) /\ Len(dnsLog) \in Nat
  BY <1>1
<1> DEFINE q == (k - 1) \div N
           j == IF t < s THEN k - (s - t) ELSE k - N + (t - s)
           p == IF t < s THEN q ELSE q - 1
<1>3. q \in Int /\ k - 1 = N * q + ((k - 1) % N)
  <2> DEFINE a == k - 1
  <2>1. a \in Int /\ N \in Nat \ {0}
    BY <1>1
  <2> HIDE DEF a
  <2>2. a \div N \in Int /\ a = N * (a \div N) + (a % N)
    BY <2>1, Divided
  <2> QED
    BY <2>2 DEF a
<1>4. (k - 1) % N = s - 1
  <2>1. dnsLog[k].server = ((k - 1) % N) + 1
    BY DEF RotationInv
  <2>2. (k - 1) % N \in Int
    BY <1>1
  <2> QED
    BY <1>1, <2>1, <2>2
<1>5. k - N < j /\ j < k /\ j \in 1 .. Len(dnsLog)
  BY <1>1, <1>2
<1>6. j - 1 = N * p + (t - 1) /\ p \in Int
  <2> DEFINE m == N * q
  <2>1. k - 1 = m + (s - 1)
    BY <1>3, <1>4
  <2>2. m \in Int /\ N * (q - 1) = m - N
    <3>1. N \in Int /\ q \in Int
      BY <1>1, <1>3
    <3> HIDE DEF q
    <3> QED
      BY <3>1, OneLess
  <2>3. q \in Int /\ q - 1 \in Int
    BY <1>3
  <2>4. N \in Int /\ k \in Int /\ s \in Int /\ t \in Int
    BY <1>1
  <2>5. N * q = m
    OBVIOUS
  <2> HIDE DEF q, m
  <2>6. CASE t < s
    <3>1. p = q /\ j = k - (s - t)
      BY <2>6
    <3>2. N * p = m
      BY <2>5, <3>1
    <3> HIDE DEF j, p
    <3>3. j - 1 = m + (t - 1)
      BY <2>1, <2>2, <2>4, <3>1
    <3> QED
      BY <2>3, <3>1, <3>2, <3>3
  <2>7. CASE ~(t < s)
    <3>1. p = q - 1 /\ j = k - N + (t - s)
      BY <2>7
    <3>2. N * p = m - N
      BY <2>2, <3>1
    <3> HIDE DEF j, p
    <3>3. j - 1 = (m - N) + (t - 1)
      BY <2>1, <2>2, <2>4, <3>1
    <3> QED
      BY <2>3, <3>1, <3>2, <3>3
  <2> QED
    BY <2>6, <2>7
<1> HIDE DEF j, p
<1>7. t - 1 \in 0 .. N - 1 /\ j - 1 \in Nat
  BY <1>1, <1>2, <1>5
<1>8. (j - 1) % N = t - 1
  <2>1. (N * p + (t - 1)) % N = t - 1
    BY <1>1, <1>6, <1>7, Remainder
  <2> QED
    BY <1>6, <2>1
<1>9. dnsLog[j].server = t
  <2>1. dnsLog[j].server = ((j - 1) % N) + 1
    BY <1>2, <1>5 DEF RotationInv
  <2> QED
    BY <1>1, <1>8, <2>1
<1> QED
  BY <1>2, <1>5, <1>9

(* A proxy's place in the log.                                             *)
Turn(p) == CHOOSE k \in DOMAIN dnsLog : dnsLog[k].from = p

LEMMA TurnShape ==
  ASSUME ResolverInv, OneQuery, \A p \in Proxy : phase[p] = "serving"
  PROVE  /\ \A p \in Proxy : /\ Turn(p) \in DOMAIN dnsLog
                             /\ dnsLog[Turn(p)].from = p /\ dnsLog[Turn(p)].server = www[p]
         /\ \A k \in DOMAIN dnsLog : dnsLog[k].from \in Proxy /\ Turn(dnsLog[k].from) = k
<1>1. \A k, l \in DOMAIN dnsLog : dnsLog[k].from = dnsLog[l].from => k = l
  BY DEF OneQuery, LoggedOnce
<1>2. \A p \in Proxy : \E k \in DOMAIN dnsLog :
        dnsLog[k].from = p /\ dnsLog[k].server = www[p]
  <2> SUFFICES ASSUME NEW p \in Proxy
               PROVE  \E k \in DOMAIN dnsLog : dnsLog[k].from = p /\ dnsLog[k].server = www[p]
    OBVIOUS
  <2>1. www[p] # Nowhere /\ sender[p] = "server"
    BY NameServerAssumption DEF OneQuery, Nowhere
  <2> QED
    BY <2>1 DEF ResolverInv, AddressWasLogged
<1>3. \A k \in DOMAIN dnsLog : Turn(dnsLog[k].from) = k
  BY <1>1 DEF Turn
<1>4. \A k \in DOMAIN dnsLog : dnsLog[k].from \in Proxy
  BY DEF OneQuery, LoggedOnce
<1>5. ASSUME NEW p \in Proxy
      PROVE  /\ Turn(p) \in DOMAIN dnsLog
             /\ dnsLog[Turn(p)].from = p /\ dnsLog[Turn(p)].server = www[p]
  <2>1. PICK k \in DOMAIN dnsLog : dnsLog[k].from = p /\ dnsLog[k].server = www[p]
    BY <1>2
  <2> QED
    BY <1>3, <2>1
<1> QED
  BY <1>3, <1>4, <1>5

(* Users of s who are not first of a turn's: each comes after a user of t, *)
(* and no two after the same.                                              *)
LEMMA LaterUsers ==
  ASSUME ResolverInv, OneQuery, mode.rr, IsFiniteSet(Proxy),
         \A p \in Proxy : phase[p] = "serving",
         NEW s \in 1 .. N, NEW t \in 1 .. N, s # t
  PROVE  Cardinality({p \in Users(s) : Turn(p) > N}) <= Cardinality(Users(t))
<1> DEFINE S == {p \in Users(s) : Turn(p) > N}
           T == Users(t)
           Given(p, j) == /\ j \in DOMAIN dnsLog /\ Turn(p) - N < j /\ j < Turn(p)
                          /\ dnsLog[j].server = t
           f == [p \in S |-> dnsLog[CHOOSE j \in DOMAIN dnsLog : Given(p, j)].from]
<1>1. RotationInv /\ N \in Nat
  BY NameServerAssumption DEF ResolverInv
<1>2. DOMAIN dnsLog = 1 .. Len(dnsLog) /\ Len(dnsLog) \in Nat
  BY DEF ResolverInv, RotationInv, NsTypeOK
<1>3. IsFiniteSet(S) /\ IsFiniteSet(T)
  BY FS_Subset DEF Users
<1>4. \A p \in S : /\ p \in Proxy /\ Turn(p) \in DOMAIN dnsLog /\ Turn(p) > N
                   /\ dnsLog[Turn(p)].server = s /\ dnsLog[Turn(p)].from = p
  BY TurnShape DEF Users
<1>5. \A p \in S : \E j \in DOMAIN dnsLog : Given(p, j)
  BY <1>1, <1>4, GivenBefore
<1>6. \A p \in S : \E j \in DOMAIN dnsLog : Given(p, j) /\ f[p] = dnsLog[j].from
  <2> HIDE DEF Given, S
  <2> QED
    BY <1>5
<1>7. \A j \in DOMAIN dnsLog : dnsLog[j].server = t => dnsLog[j].from \in T
  <2> SUFFICES ASSUME NEW j \in DOMAIN dnsLog, dnsLog[j].server = t
               PROVE  dnsLog[j].from \in Proxy /\ www[dnsLog[j].from] = t
    BY DEF Users
  <2>1. dnsLog[j].from \in Proxy /\ Turn(dnsLog[j].from) = j
    BY TurnShape
  <2> QED
    BY <2>1, TurnShape
<1>8. f \in [S -> T]
  <2>1. \A p \in S : f[p] \in T
    BY <1>6, <1>7
  <2> QED
    BY <2>1
<1>9. ASSUME NEW p \in S, NEW o \in S, f[p] = f[o] PROVE p = o
  <2>1. PICK j \in DOMAIN dnsLog : Given(p, j) /\ f[p] = dnsLog[j].from
    BY <1>6
  <2>2. PICK i \in DOMAIN dnsLog : Given(o, i) /\ f[o] = dnsLog[i].from
    BY <1>6
  <2>3. i = j
    BY <1>9, <2>1, <2>2 DEF OneQuery, LoggedOnce
  <2> DEFINE k == Turn(p)
             l == Turn(o)
  <2>4. /\ k \in DOMAIN dnsLog /\ l \in DOMAIN dnsLog
        /\ dnsLog[k].server = dnsLog[l].server
        /\ dnsLog[k].from = p /\ dnsLog[l].from = o
    BY <1>4
  <2>5. k - N < j /\ j < k /\ l - N < j /\ j < l
    BY <2>1, <2>2, <2>3
  <2>6. GivesEachOncePerTurn
    BY <1>1, OncePerTurn
  <2> HIDE DEF k, l
  <2>7. ~(k < l) /\ ~(l < k)
    BY <1>1, <1>2, <2>4, <2>5, <2>6 DEF GivesEachOncePerTurn
  <2>8. k = l
    BY <1>2, <2>4, <2>7
  <2> QED
    BY <2>4, <2>8
<1> HIDE DEF f, S, T
<1>10. f \in Injection(S, T)
  BY <1>8, <1>9 DEF Injection, IsInjective
<1>11. Cardinality(S) <= Cardinality(T)
  BY <1>3, <1>10, FS_Injection
<1> QED
  BY <1>11 DEF S, T

(* Only one user of a server has it of the first turn.                     *)
LEMMA FirstUsers ==
  ASSUME ResolverInv, OneQuery, mode.rr, IsFiniteSet(Proxy),
         \A p \in Proxy : phase[p] = "serving", NEW s \in 1 .. N
  PROVE  Cardinality(Users(s)) <= Cardinality({p \in Users(s) : Turn(p) > N}) + 1
<1> DEFINE S == {p \in Users(s) : Turn(p) > N}
<1>1. IsFiniteSet(Users(s)) /\ IsFiniteSet(S)
  BY FS_Subset DEF Users
<1>2. DOMAIN dnsLog = 1 .. Len(dnsLog) /\ Len(dnsLog) \in Nat /\ N \in Nat
  BY NameServerAssumption DEF ResolverInv, RotationInv, NsTypeOK
<1>3. GivesEachOncePerTurn
  BY OncePerTurn DEF ResolverInv
<1>4. ASSUME NEW p \in Users(s), NEW o \in Users(s), ~(Turn(p) > N), ~(Turn(o) > N)
      PROVE  p = o
  <2> DEFINE k == Turn(p)
             l == Turn(o)
  <2>1. /\ k \in DOMAIN dnsLog /\ l \in DOMAIN dnsLog
        /\ dnsLog[k].server = dnsLog[l].server
        /\ dnsLog[k].from = p /\ dnsLog[l].from = o
    BY TurnShape DEF Users
  <2>2. ~(k > N) /\ ~(l > N)
    BY <1>4
  <2> HIDE DEF k, l
  <2>3. ~(k < l) /\ ~(l < k)
    BY <1>2, <1>3, <2>1, <2>2 DEF GivesEachOncePerTurn
  <2> QED
    BY <1>2, <2>1, <2>3
<1>5. CASE Users(s) = S
  <2>1. Cardinality(Users(s)) \in Nat
    BY <1>1, FS_CardinalityType
  <2> HIDE DEF S
  <2>2. Cardinality(Users(s)) <= Cardinality(S) + 1
    BY <1>5, <2>1
  <2> QED
    BY <2>2 DEF S
<1>6. CASE Users(s) # S
  <2>1. PICK p \in Users(s) : ~(Turn(p) > N)
    BY <1>6
  <2>2. S = Users(s) \ {p}
    BY <1>4, <2>1
  <2> HIDE DEF S
  <2>3. Cardinality(S) = Cardinality(Users(s)) - 1
    BY <1>1, <2>1, <2>2, FS_RemoveElement
  <2>4. Cardinality(Users(s)) \in Nat
    BY <1>1, FS_CardinalityType
  <2> HIDE DEF S
  <2>5. Cardinality(Users(s)) <= Cardinality(S) + 1
    BY <2>3, <2>4
  <2> QED
    BY <2>5 DEF S
<1> QED
  BY <1>5, <1>6

(* On a network that loses nothing and has no strangers, any number of     *)
(* proxies is spread evenly over any number of servers: a proxy asks once, *)
(* so its place in the log is its own, and the rotation does the rest.     *)
(* With addresses that fit: others leave proxies with none.                *)
THEOREM SpreadEvenly ==
  ASSUME NetFaults = {}, Fits = 1 .. N, IsFiniteSet(Proxy)
  PROVE  ResolverSpec => []ProxiesSpreadEvenly
<1>1. ResolverInv /\ OneQuery => ProxiesSpreadEvenly
  <2> SUFFICES ASSUME ResolverInv, OneQuery, mode.rr, \A p \in Proxy : phase[p] = "serving",
                      NEW s \in 1 .. N, NEW t \in 1 .. N
               PROVE  Cardinality(Users(s)) <= Cardinality(Users(t)) + 1
    BY DEF ProxiesSpreadEvenly
  <2>1. IsFiniteSet(Users(s)) /\ IsFiniteSet(Users(t))
    BY FS_Subset DEF Users
  <2>2. /\ Cardinality(Users(s)) \in Nat /\ Cardinality(Users(t)) \in Nat
        /\ Cardinality({p \in Users(s) : Turn(p) > N}) \in Nat
    BY <2>1, FS_CardinalityType, FS_Subset
  <2>3. CASE s = t
    BY <2>2, <2>3
  <2>4. CASE s # t
    BY <2>2, <2>4, FirstUsers, LaterUsers
  <2> QED
    BY <2>3, <2>4
<1>2. ResolverSpec => []OneQuery
  BY AsksOnce
<1> QED
  BY <1>1, <1>2, ResolverInvariant, PTL
===============================================================================
