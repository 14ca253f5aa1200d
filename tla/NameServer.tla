------------------------------ MODULE NameServer ------------------------------
(***************************************************************************)
(* The name server process, src/src/nameserver.c: one UDP socket, and one  *)
(* datagram handled per turn of its loop. It has two modes: with -r it     *)
(* gives out the servers in rotation, without it the one query_dns finds   *)
(* (module Routing).                                                       *)
(*                                                                         *)
(* The network may lose, duplicate and reorder datagrams. requests and     *)
(* answers are what is in flight.                                          *)
(***************************************************************************)
EXTENDS Integers, Sequences, FiniteSets

CONSTANTS
  Client,      (* the addresses queries come from                          *)
  N,           (* length of the servers file: servers are 1 .. N           *)
  Modes,       (* the ways it may be started: see mode                     *)
  MaxLog,      (* bound: queries answered                                  *)
  MaxFlight    (* bound: copies of one datagram in flight                  *)

ASSUME NameServerAssumption ==
  /\ N \in Nat
  /\ Modes \subseteq [rr : BOOLEAN, nearest : 0 .. N]
  /\ MaxLog \in Nat
  /\ MaxFlight \in Nat

VARIABLES
  mode,      (* rr_flag, and what query_dns returns, 0 for NULL: its graph *)
             (* never changes and it ignores the client that asks          *)
  nsPc,      (* "loop", or how the process ended                           *)
  rrPtr,     (* rr_ptr: the server given last, 0 for NULL                  *)
  dnsLog,    (* the records N_LOG appended                                 *)
  requests,  (* datagrams to the server: their number, by their contents   *)
  answers    (* datagrams from the server: the same                        *)

serverVars == <<mode, nsPc, rrPtr, dnsLog>>
nsVars == <<serverVars, requests, answers>>

(* A datagram for the server: a query for video.cs.cmu.edu, one of at      *)
(* least a header that is not, or one shorter than a header.               *)
Query == [from : Client, kind : {"video", "other", "tiny"}]

(* Its answer: the address of a server, or 0, 28 bytes of the stack for an *)
(* error packet: gen_error_pkt fills a buffer of its own.                  *)
Answer == [to : Client, server : 0 .. N]

LogEntry == [from : Client, server : 1 .. N]

(* Bound: MaxFlight copies of a datagram.                                  *)
Room(net, d) == net[d] < MaxFlight
Put(net, d) == [net EXCEPT ![d] = @ + 1]
Take(net, d) == [net EXCEPT ![d] = @ - 1]

(* recvfrom returns datagram q.                                            *)
Receive(q) ==
  /\ nsPc = "loop"
  /\ requests[q] > 0
  /\ requests' = Take(requests, q)

(* Shorter than a DNS header: the server exits.                            *)
TinyQuery ==
  /\ \E q \in Query : q.kind = "tiny" /\ Receive(q)
  /\ nsPc' = "exited"
  /\ UNCHANGED <<mode, rrPtr, dnsLog, answers>>

(* Not the one valid name: send_error.                                     *)
OtherQuery ==
  \E q \in Query :
    LET reply == [to |-> q.from, server |-> 0]
    IN  /\ q.kind = "other"
        /\ Receive(q)
        /\ Room(answers, reply)
        /\ answers' = Put(answers, reply)
        /\ UNCHANGED serverVars

(* Mutant: the answer is logged and not sent.                              *)
RespondLogsOnly(client, s) ==
  /\ dnsLog' = Append(dnsLog, [from |-> client, server |-> s])
  /\ UNCHANGED answers

(* gen_resp_pkt, the record in the log, sendto.                            *)
Respond(client, s) ==
  LET reply == [to |-> client, server |-> s]
  IN  /\ Room(answers, reply)
      /\ answers' = Put(answers, reply)
      /\ dnsLog' = Append(dnsLog, [from |-> client, server |-> s])

(* Mutants: the pointer runs off the list, stays at the last server, or    *)
(* never reaches it.                                                       *)
NextServerNull == IF rrPtr = N THEN 0 ELSE rrPtr + 1

NextServerStuck == IF rrPtr = N THEN N ELSE rrPtr + 1

NextServerSkips == IF rrPtr >= N - 1 THEN 1 ELSE rrPtr + 1

(* *rr_ptr is NULL or the last: start at serv_list; else its next.         *)
NextServer == IF rrPtr = 0 \/ rrPtr = N THEN 1 ELSE rrPtr + 1

(* Bound: MaxLog queries answered.                                         *)
RotatedAnswer ==
  /\ mode.rr
  /\ N > 0
  /\ Len(dnsLog) < MaxLog
  /\ \E q \in Query :
       /\ q.kind = "video"
       /\ Receive(q)
       /\ rrPtr' = NextServer
       /\ Respond(q.from, NextServer)
  /\ UNCHANGED <<mode, nsPc>>

NearestAnswer ==
  /\ ~mode.rr
  /\ mode.nearest # 0
  /\ Len(dnsLog) < MaxLog
  /\ \E q \in Query :
       /\ q.kind = "video"
       /\ Receive(q)
       /\ Respond(q.from, mode.nearest)
  /\ UNCHANGED <<mode, nsPc, rrPtr>>

(* No server to give: the name is copied from a null pointer.              *)
NoServerCrashes ==
  /\ IF mode.rr THEN N = 0 ELSE mode.nearest = 0
  /\ \E q \in Query : q.kind = "video" /\ Receive(q)
  /\ nsPc' = "crashed"
  /\ UNCHANGED <<mode, rrPtr, dnsLog, answers>>

NameServerStep ==
  TinyQuery \/ OtherQuery \/ RotatedAnswer \/ NearestAnswer \/ NoServerCrashes

-----------------------------------------------------------------------------
(* The server among clients that may send it anything, external.           *)

Ask(q) ==
  /\ Room(requests, q)
  /\ requests' = Put(requests, q)
  /\ UNCHANGED <<serverVars, answers>>

Arrive(a) ==
  /\ answers[a] > 0
  /\ answers' = Take(answers, a)
  /\ UNCHANGED <<serverVars, requests>>

NameServerInit ==
  /\ mode \in Modes
  /\ nsPc = "loop"
  /\ rrPtr = 0
  /\ dnsLog = <<>>
  /\ requests = [q \in Query |-> 0]
  /\ answers = [a \in Answer |-> 0]

NameServerNext ==
  \/ NameServerStep
  \/ \E q \in Query : Ask(q)
  \/ \E a \in Answer : Arrive(a)

NameServerSpec == NameServerInit /\ [][NameServerNext]_nsVars

-----------------------------------------------------------------------------
(* Properties *)

NsTypeOK ==
  /\ mode \in Modes
  /\ nsPc \in {"loop", "exited", "crashed"}
  /\ rrPtr \in 0 .. N
  /\ dnsLog \in Seq(LogEntry)
  /\ requests \in [Query -> Nat]
  /\ answers \in [Answer -> Nat]

(* However queries arrive, whoever sends them and whatever is wrong with   *)
(* those in between, no server is given out twice before every other has   *)
(* been given out once.                                                    *)
GivesEachOncePerTurn ==
  mode.rr =>
    \A i, j \in DOMAIN dnsLog :
      dnsLog[i].server = dnsLog[j].server /\ i < j => j - i >= N

(* The pointer and the log agree: what makes the rotation inductive. The   *)
(* k-th query answered gets server k modulo N, and rr_ptr is at the last.  *)
RotationInv ==
  /\ NsTypeOK
  /\ mode.rr =>
       /\ \A k \in DOMAIN dnsLog : dnsLog[k].server = ((k - 1) % N) + 1
       /\ rrPtr = IF dnsLog = <<>> THEN 0 ELSE dnsLog[Len(dnsLog)].server

(* The server's log is a Rotation.                                         *)
Abs == INSTANCE Rotation WITH
  given <- [k \in DOMAIN dnsLog |-> dnsLog[k].server]

RotationSpec == Abs!RotationSpec
=============================================================================
