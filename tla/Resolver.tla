------------------------------- MODULE Resolver -------------------------------
(***************************************************************************)
(* How proxies find their origin: main of src/src/proxy.c calls resolve of *)
(* src/src/mydns.c once, before it listens, and every connection to the    *)
(* origin goes to the address that came of it.                             *)
(*                                                                         *)
(* Several proxies ask one name server over a network that may lose and    *)
(* duplicate datagrams; other clients of the server send what they like,   *)
(* and strangers may send to a proxy's socket, which is open to anyone.    *)
(***************************************************************************)
EXTENDS NameServer

CONSTANTS
  Proxy,     (* the clients that are proxies                               *)
  Fits,      (* servers whose address, with its end, fits in 8 characters  *)
  NetFaults  (* see NetFaultKinds                                          *)

NetFaultKinds ==
  { "lose",       (* a datagram is lost                                    *)
    "duplicate",  (* a datagram is delivered again                         *)
    "nosend",     (* sendto fails in the proxy                             *)
    "foreign",    (* clients that are not proxies send queries             *)
    "stranger"    (* a datagram comes that the name server did not send    *) }

ASSUME ResolverAssumption ==
  /\ Proxy \subseteq Client
  /\ Fits \subseteq 1 .. N
  /\ NetFaults \subseteq NetFaultKinds

VARIABLES
  phase,   (* of each proxy: "start", "waiting" in recvfrom, "serving"     *)
  www,     (* www_ip: a server, Nowhere or Anywhere                        *)
  sender   (* getr_addr: "nobody", the name "server" or a "stranger"       *)

proxyVars == <<phase, www, sender>>
resolverVars == <<nsVars, proxyVars>>

Nowhere == 0     (* the empty string: connect goes to 0.0.0.0              *)
Anywhere == -1   (* bytes no one put there                                 *)

Video(p) == [from |-> p, kind |-> "video"]

(* Mutant: another address than the one answered.                          *)
PrintedWrong(s) == IF s = N THEN 1 ELSE s + 1

(* inet_ntop(AF_INET, ., www_ip, sizeof(www_ip)): the size is a pointer's, *)
(* and an address that does not fit leaves the string empty.               *)
Printed(s) == IF s \in Fits THEN s ELSE Nowhere

(* init_mydns and resolve up to recvfrom: one datagram, id 0.              *)
SendQuery(p) ==
  /\ phase[p] = "start"
  /\ Room(requests, Video(p))
  /\ requests' = Put(requests, Video(p))
  /\ phase' = [phase EXCEPT ![p] = "waiting"]
  /\ UNCHANGED <<serverVars, answers, www, sender>>

(* resolve returns -1, which main does not look at: the address printed is *)
(* what malloc left in it.                                                 *)
SendFails(p) ==
  /\ "nosend" \in NetFaults
  /\ phase[p] = "start"
  /\ phase' = [phase EXCEPT ![p] = "serving"]
  /\ \E a \in {Nowhere, Anywhere} : www' = [www EXCEPT ![p] = a]
  /\ UNCHANGED <<nsVars, sender>>

(* One of the name server's datagrams is taken for the answer.             *)
FromServer(p) ==
  /\ \E s \in 0 .. N :
       LET a == [to |-> p, server |-> s]
       IN  /\ answers[a] > 0
           /\ answers' = Take(answers, a)
           /\ www' = [www EXCEPT ![p] = IF s = 0 THEN Anywhere ELSE Printed(s)]
  /\ sender' = [sender EXCEPT ![p] = "server"]

(* The datagram of a stranger, external, may end in any four bytes, those  *)
(* of an address among them, or be shorter.                                *)
FromStranger(p) ==
  /\ "stranger" \in NetFaults
  /\ \E a \in Fits \cup {Nowhere, Anywhere} : www' = [www EXCEPT ![p] = a]
  /\ sender' = [sender EXCEPT ![p] = "stranger"]
  /\ UNCHANGED answers

(* resolve takes the first datagram that comes, whoever sent it, and the   *)
(* last four bytes of it, whatever they are: getr_addr is filled in and    *)
(* never looked at.                                                        *)
ReceiveAnswer(p) ==
  /\ phase[p] = "waiting"
  /\ FromServer(p) \/ FromStranger(p)
  /\ phase' = [phase EXCEPT ![p] = "serving"]
  /\ UNCHANGED <<serverVars, requests>>

(* The network, external: it loses and duplicates the proxies' datagrams.  *)
Lose ==
  /\ "lose" \in NetFaults
  /\ \E p \in Proxy :
       \/ \E q \in Query : /\ q.from = p /\ requests[q] > 0
                          /\ requests' = Take(requests, q)
                          /\ UNCHANGED answers
       \/ \E a \in Answer : /\ a.to = p /\ answers[a] > 0
                           /\ answers' = Take(answers, a)
                           /\ UNCHANGED requests
  /\ UNCHANGED <<serverVars, proxyVars>>

Duplicate ==
  /\ "duplicate" \in NetFaults
  /\ \E p \in Proxy :
       \/ \E q \in Query : /\ q.from = p /\ requests[q] > 0 /\ Room(requests, q)
                          /\ requests' = Put(requests, q)
                          /\ UNCHANGED answers
       \/ \E a \in Answer : /\ a.to = p /\ answers[a] > 0 /\ Room(answers, a)
                           /\ answers' = Put(answers, a)
                           /\ UNCHANGED requests
  /\ UNCHANGED <<serverVars, proxyVars>>

(* Bound: one datagram of a foreign client at a time.                      *)
Quiet(c) ==
  /\ \A q \in Query : q.from = c => requests[q] = 0
  /\ \A a \in Answer : a.to = c => answers[a] = 0

Foreign ==
  /\ "foreign" \in NetFaults
  /\ \E c \in Client \ Proxy :
       \/ Quiet(c) /\ \E q \in Query : q.from = c /\ Ask(q)
       \/ \E a \in Answer : a.to = c /\ Arrive(a)
  /\ UNCHANGED proxyVars

ServerTurn == NameServerStep /\ UNCHANGED proxyVars

ResolverInit ==
  /\ NameServerInit
  /\ phase = [p \in Proxy |-> "start"]
  /\ www = [p \in Proxy |-> Nowhere]
  /\ sender = [p \in Proxy |-> "nobody"]

ResolverNext ==
  \/ \E p \in Proxy : SendQuery(p) \/ SendFails(p) \/ ReceiveAnswer(p)
  \/ ServerTurn
  \/ Lose \/ Duplicate \/ Foreign

ResolverSpec == ResolverInit /\ [][ResolverNext]_resolverVars

(* Both programs are scheduled, and a proxy's datagram that is not lost    *)
(* arrives: the server reads it out of its socket's queue in the end.      *)
FairResolverSpec ==
  /\ ResolverSpec
  /\ \A p \in Proxy :
       /\ WF_resolverVars(SendQuery(p))
       /\ WF_resolverVars(ServerTurn /\ Receive(Video(p)))
       /\ WF_resolverVars(ReceiveAnswer(p))

-----------------------------------------------------------------------------
(* Properties *)

ResolverTypeOK ==
  /\ NsTypeOK
  /\ phase \in [Proxy -> {"start", "waiting", "serving"}]
  /\ www \in [Proxy -> -1 .. N]
  /\ sender \in [Proxy -> {"nobody", "server", "stranger"}]

(* The sender is all that resolve would have to look at. Whatever is lost, *)
(* duplicated or asked by others, and although queries carry no number, a  *)
(* datagram of the name server's is an answer to this proxy's own query:   *)
(* it has an address, and www_ip is a server logged for this proxy, or     *)
(* empty where that server's address is too long to print.                 *)
AddressWasLogged ==
  \A p \in Proxy : sender[p] = "server" =>
    \E k \in DOMAIN dnsLog :
      /\ dnsLog[k].from = p
      /\ www[p] = IF dnsLog[k].server \in Fits THEN dnsLog[k].server ELSE Nowhere

(* Once all proxies have resolved by rotation, no server has two more than *)
(* another.                                                                *)
Users(s) == {p \in Proxy : www[p] = s}

ProxiesSpreadEvenly ==
  mode.rr /\ (\A p \in Proxy : phase[p] = "serving") =>
    \A s, t \in 1 .. N : Cardinality(Users(s)) <= Cardinality(Users(t)) + 1

(* Where no datagram is lost and none but the proxies' comes, and the name  *)
(* server has a server to give, it answers every proxy and outlives them:  *)
(* each starts. One query without a server to give ends it for all.        *)
HasServer == IF mode.rr THEN N > 0 ELSE mode.nearest # 0

EveryProxyStarts == HasServer => \A p \in Proxy : <>(phase[p] = "serving")
===============================================================================
