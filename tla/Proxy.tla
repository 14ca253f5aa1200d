-------------------------------- MODULE Proxy --------------------------------
(***************************************************************************)
(* The proxy process: the select loop of src/src/proxy.c and the handlers  *)
(* of src/src/handle.c it calls, with the adaptation state of Bitrate, in  *)
(* an environment of clients and of the origin web server.                 *)
(*                                                                         *)
(* The process has one thread. It runs until it blocks, so an action is    *)
(* one run of a handler, from the read it may block in to its return; a    *)
(* handler that would block is an action that is not enabled. pc says      *)
(* where in the loop the process is and cur which session it looks at.     *)
(*                                                                         *)
(* Faults names what the environment may do beyond a client that sends     *)
(* one good request and an origin that answers it.                         *)
(***************************************************************************)
EXTENDS Bitrate

CONSTANTS
  Conn,       (* client connections; each is made at most once             *)
  ListenFd,   (* the descriptor of the listening socket                    *)
  NegBit,     (* the fd_set bit FD_ISSET(-1, .) looks at: 63 on x86-64     *)
  ReqRates,   (* rates that clients ask for in chunk names                 *)
  MaxSent,    (* bound: requests a client sends on one connection          *)
  Faults      (* see FaultKinds                                            *)

FaultKinds ==
  { "malformed",  (* a client sends a request that is not a GET HTTP/1.1    *)
    "split",      (* a request arrives in parts, the request line first     *)
    "fin",        (* a client closes its side                               *)
    "rst",        (* a client's connection is reset                         *)
    "refused",    (* socket, bind or connect to the origin fails            *)
    "hangup",     (* the origin closes or resets a connection, or answers   *)
                  (* without a Content-Length                               *)
    "notfound",   (* the origin answers a chunk request with another type   *)
    "mistyped",   (* the origin answers a page request with video/f4f       *)
    "short",      (* the origin closes before the announced length          *)
    "acceptfail"  (* accept returns an error                                *) }

ASSUME ProxyAssumption ==
  /\ IsFiniteSet(Fd)
  /\ ListenFd \in Fd
  /\ Fd # {ListenFd}
  /\ -1 \notin Fd
  /\ NegBit \in Nat
  /\ ReqRates \subseteq Rates
  /\ MaxSent \in Nat
  /\ Faults \subseteq FaultKinds

VARIABLES
  pc,        (* where main's loop is: see Pcs                              *)
  cur,       (* index in nodes of the loop variable p                      *)
  ready,     (* the set ready_to_read, which select overwrites             *)
  sock,      (* what each descriptor of the process refers to              *)
  nodes,     (* the session list at head, oldest first; never shrinks      *)
  backlog,   (* connections that accept has not returned yet               *)
  inbox,     (* requests a client has sent and the proxy has not read      *)
  sent,      (* how many requests each client has sent                     *)
  peer,      (* "new", "open", "fin" or "rst": the client's side           *)
  replies    (* what each client has received                              *)

procVars == <<pc, cur, ready, sock, nodes>>
envVars == <<backlog, inbox, sent, peer, replies>>
proxyVars == <<procVars, envVars, bitrateVars>>

Pcs == {"select", "accept", "client", "server", "crashed", "exited"}

(* What a read of a client's socket can return: a request (a chunk, some   *)
(* other page, or one the parser rejects) or the part of it that is there, *)
(* end of file, or an error.                                               *)
Request ==
  [from : Conn, kind : {"chunk", "page", "bad"}, rate : Rates, whole : BOOLEAN]
Eof == [kind |-> "eof"]
Err == [kind |-> "err"]
NoReq == [kind |-> "none"]

Free == [type |-> "free"]
Listener == [type |-> "listen"]
ClientSock(c) == [type |-> "client", conn |-> c]
(* A connection to the origin, with the request written to it and whether  *)
(* all of it was.                                                          *)
OriginSock(req, whole) == [type |-> "origin", req |-> req, whole |-> whole]

Sock == {Free, Listener} \cup {ClientSock(c) : c \in Conn}
          \cup {OriginSock(r, w) : r \in Request \cup {NoReq}, w \in BOOLEAN}

Reply == [to : Request, whole : BOOLEAN]

Node == [cfd : Fd, sfd : Fd \cup {-1}]

node == nodes[cur]

(* The descriptor socket() or accept() would return.                       *)
FreeFds(s) == {f \in Fd : s[f] = Free}
Lowest(F) == CHOOSE f \in F : \A g \in F : f <= g

(* Every LOG opens /tmp/log and passes the result to vfprintf unchecked:   *)
(* with the descriptor table full it writes through a null FILE.           *)
TableFull(s) == FreeFds(s) = {}

(* close(fd): an fd that is not open is an ignored error.                  *)
Close(s, fd) == IF fd \in Fd THEN [s EXCEPT ![fd] = Free] ELSE s

(* The bit FD_ISSET and FD_CLR use for fd.                                 *)
Bit(fd) == IF fd = -1 THEN NegBit ELSE fd

-----------------------------------------------------------------------------
(* The sockets, external to the program.                                   *)

(* x is what a read of descriptor fd returns now; no x: the read blocks.   *)
(* An origin has nothing to read but end of file, except for the response  *)
(* that only handle_server_recv can meet (see Answered).                   *)
Yields(fd, x) ==
  \/ fd = -1 /\ x = Err
  \/ fd # -1 /\ sock[fd].type \in {"free", "listen"} /\ x = Err
  \/ /\ fd # -1
     /\ sock[fd].type = "client"
     /\ LET c == sock[fd].conn IN
          \/ peer[c] = "rst" /\ x = Err
          \/ peer[c] # "rst" /\ inbox[c] # <<>> /\ x = Head(inbox[c])
          \/ peer[c] = "fin" /\ inbox[c] = <<>> /\ x = Eof
  \/ /\ fd # -1
     /\ sock[fd].type = "origin"
     /\ "hangup" \in Faults
     /\ x = Eof

Items == Request \cup {Eof, Err}

(* The read takes a request out of the client's stream.                    *)
Consume(fd, x) ==
  inbox' = IF x \in Request THEN [inbox EXCEPT ![sock[fd].conn] = Tail(@)]
                            ELSE inbox

(* The origin answers a connection once it has the whole request.          *)
Answered(fd) ==
  fd \in Fd /\ sock[fd].type = "origin" /\ sock[fd].req # NoReq /\ sock[fd].whole

(* Descriptors select reports readable.                                    *)
Readable(fd) ==
  \/ sock[fd] = Listener /\ backlog # <<>>
  \/ sock[fd] # Listener /\ \E x \in Items : Yields(fd, x)
  \/ Answered(fd)

(* A write to descriptor fd of a reply: it reaches the peer of a client's  *)
(* socket that has not reset; any other outcome is an error that the code  *)
(* logs and ignores.                                                       *)
Deliver(fd, reply) ==
  replies' =
    IF /\ sock[fd].type = "client"
       /\ peer[sock[fd].conn] # "rst"
    THEN [replies EXCEPT ![sock[fd].conn] = Append(@, reply)]
    ELSE replies

-----------------------------------------------------------------------------
(* main, src/src/proxy.c *)

(* Mutant: the end of the list is not noticed.                             *)
NextSessionForever == cur' = cur - 1 /\ pc' = "client"

(* The end of the loop body for one session: p = p->next.                  *)
NextSession ==
  /\ cur' = cur - 1
  /\ pc' = IF cur = 1 THEN "select" ELSE "client"

Crash == pc' = "crashed" /\ UNCHANGED cur

(* select replaces ready_to_read by the descriptors in it that are ready.  *)
(* With a closed descriptor in the set it returns an error for ever, and   *)
(* the loop spins.                                                         *)
Select ==
  /\ pc = "select"
  /\ \A f \in ready : sock[f] # Free
  /\ LET R == {f \in ready : Readable(f)}
     IN  /\ R # {}
         /\ ready' = R
         /\ pc' = IF ListenFd \in R THEN "accept" ELSE "client"
         /\ cur' = Len(nodes)
  /\ UNCHANGED <<sock, nodes, envVars, bitrateVars>>

(* Mutant: server_fd keeps what calloc would leave, the first descriptor.  *)
NewSessionUnset(f) == [cfd |-> f, sfd |-> Lowest(Fd)]

(* The session main appends: no origin connection yet.                     *)
NewSession(f) == [cfd |-> f, sfd |-> -1]

Accept ==
  /\ pc = "accept"
  /\ LET f == Lowest(FreeFds(sock))
         s == [sock EXCEPT ![f] = ClientSock(Head(backlog))]
     IN  /\ sock' = s
         /\ IF TableFull(s)
            THEN Crash /\ UNCHANGED <<ready, nodes>>
            ELSE /\ ready' = ready \cup {f}
                 /\ nodes' = Append(nodes, NewSession(f))
                 /\ cur' = Len(nodes) + 1
                 /\ pc' = "client"
  /\ backlog' = Tail(backlog)
  /\ UNCHANGED <<inbox, sent, peer, replies, bitrateVars>>

AcceptFails ==
  /\ pc = "accept"
  /\ "acceptfail" \in Faults
  /\ pc' = "exited"
  /\ UNCHANGED <<cur, ready, sock, nodes, envVars, bitrateVars>>

SkipClient ==
  /\ pc = "client"
  /\ node.cfd \notin ready
  /\ pc' = "server"
  /\ UNCHANGED <<cur, ready, sock, nodes, envVars, bitrateVars>>

SkipServer ==
  /\ pc = "server"
  /\ Bit(node.sfd) \notin ready
  /\ NextSession
  /\ UNCHANGED <<ready, sock, nodes, envVars, bitrateVars>>

-----------------------------------------------------------------------------
(* handle_client_recv, src/src/handle.c: one action per way through it.    *)

ClientRead(x) ==
  /\ pc = "client"
  /\ node.cfd \in ready
  /\ Yields(node.cfd, x)
  /\ Consume(node.cfd, x)
  /\ UNCHANGED <<cur, backlog, sent, peer, replies>>

(* The read fails: the socket is closed but stays in ready_to_read.        *)
ClientReadFails ==
  /\ ClientRead(Err)
  /\ sock' = Close(sock, node.cfd)
  /\ pc' = "server"
  /\ UNCHANGED <<ready, nodes, bitrateVars>>

(* The session's old origin connection is closed by number, and a new one  *)
(* takes the lowest free number.                                           *)
OldClosed == Close(sock, node.sfd)
NewFd == Lowest(FreeFds(OldClosed))

Connected(req, whole) == [OldClosed EXCEPT ![NewFd] = OriginSock(req, whole)]

(* connect_to_server returns -1: server_fd keeps the closed number.        *)
ConnectFails ==
  /\ "refused" \in Faults
  /\ \E x \in Request \cup {Eof} : ClientRead(x)
  /\ sock' = OldClosed
  /\ pc' = "server"
  /\ UNCHANGED <<ready, nodes, bitrateVars>>

(* connect_to_server succeeds, and so does its LOG of the new descriptor.  *)
Connects(req, whole) ==
  /\ sock' = Connected(req, whole)
  /\ ~TableFull(sock')
  /\ nodes' = [nodes EXCEPT ![cur].sfd = NewFd]
  /\ pc' = "server"

(* socket() takes the last free descriptor, and the LOG that follows it    *)
(* finds none.                                                             *)
ConnectExhaustsTable ==
  /\ \E x \in Request \cup {Eof} : ClientRead(x)
  /\ sock' = Connected(NoReq, FALSE)
  /\ TableFull(sock')
  /\ pc' = "crashed"
  /\ UNCHANGED <<ready, nodes, bitrateVars>>

(* Not GET or not HTTP/1.1: return with the origin connected, the client   *)
(* still in ready_to_read and nothing sent.                                *)
RejectRequest ==
  /\ \E x \in Request : x.kind = "bad" /\ ClientRead(x)
  /\ Connects(NoReq, FALSE)
  /\ UNCHANGED <<ready, bitrateVars>>

(* read returned 0: sscanf stores nothing, so the method, file and version *)
(* tested are what the stack holds. They are rejected, or they pass and    *)
(* write sends 0 bytes; either way nothing is sent and the origin is not   *)
(* added to ready_to_read.                                                 *)
EofRequest ==
  /\ ClientRead(Eof)
  /\ Connects(NoReq, FALSE)
  /\ UNCHANGED <<ready, bitrateVars>>

(* ... or they name a chunk: a tracker entry is made and update_bitrate    *)
(* passes the null result of strstr to strcpy.                             *)
EofRequestCrashes ==
  /\ ClientRead(Eof)
  /\ sock' = Connected(NoReq, FALSE)
  /\ nodes' = [nodes EXCEPT ![cur].sfd = NewFd]
  /\ pc' = "crashed"
  /\ UNCHANGED <<ready, bitrateVars>>

(* write(connect, buffer, ret_read) > 0 adds the origin to ready_to_read;  *)
(* an error returns before that.                                           *)
WriteRequest(req, whole) ==
  \/ Connects(req, whole) /\ ready' = ready \cup {NewFd}
  \/ "hangup" \in Faults /\ Connects(NoReq, FALSE) /\ UNCHANGED ready

ForwardPage ==
  \E x \in Request :
    /\ x.kind = "page"
    /\ ClientRead(x)
    /\ WriteRequest(x, x.whole)
    /\ UNCHANGED bitrateVars

Digits(r) == IF r < 100 THEN 2 ELSE IF r < 1000 THEN 3 ELSE 4

(* update_bitrate replaces the rate in the request line, but the number of *)
(* bytes written is still the number read: a name with more digits pushes  *)
(* the end of the request out of the write.                                *)
ForwardChunk ==
  \E x \in Request :
    /\ x.kind = "chunk"
    /\ ClientRead(x)
    /\ AskChunk(node.cfd)
    /\ LET rate == trackers'[CHOOSE i \in DOMAIN trackers' :
                               trackers'[i].fd = node.cfd].rate
       IN  WriteRequest(x, x.whole /\ Digits(rate) <= Digits(x.rate))

-----------------------------------------------------------------------------
(* handle_server_recv, src/src/handle.c *)

ServerRead ==
  /\ pc = "server"
  /\ Bit(node.sfd) \in ready

(* What the origin's descriptor is once its answer has been read.          *)
Drained == [sock EXCEPT ![node.sfd] = OriginSock(NoReq, FALSE)]

FinishFrame == NextSession /\ UNCHANGED <<nodes, backlog, inbox, sent, peer>>

(* Mutants: a bit is not cleared, the client is kept for more requests, or *)
(* the origin's socket is closed in the place of the client's.             *)
FinishKeepsClientBit ==
  /\ ready' = ready \ {node.sfd}
  /\ sock' = Close(Drained, node.cfd)
  /\ FinishFrame

FinishKeepsOriginBit ==
  /\ ready' = ready \ {node.cfd}
  /\ sock' = Close(sock, node.cfd)
  /\ FinishFrame

FinishLeavesClientOpen ==
  /\ ready' = ready \ {node.sfd}
  /\ sock' = Drained
  /\ FinishFrame

FinishClosesOrigin ==
  /\ ready' = ready \ {node.cfd, node.sfd}
  /\ sock' = Close(sock, node.sfd)
  /\ FinishFrame

(* The end of the handler: both bits are cleared and the client's socket   *)
(* is closed. The origin's is not.                                         *)
Finish ==
  /\ ready' = ready \ {node.cfd, node.sfd}
  /\ sock' = Close(Drained, node.cfd)
  /\ FinishFrame

(* The number of body bytes recv returned is not looked at: the announced  *)
(* length is forwarded and counted whether they came or not.               *)
BodyArrives(whole) == whole \/ "short" \in Faults

(* Content-Type is not video/f4f.                                          *)
RelayPage ==
  /\ ServerRead
  /\ Answered(node.sfd)
  /\ LET req == sock[node.sfd].req IN
     /\ req.kind = "page" \/ "notfound" \in Faults
     /\ \E whole \in BOOLEAN :
          BodyArrives(whole) /\ Deliver(node.cfd, [to |-> req, whole |-> whole])
  /\ Finish
  /\ UNCHANGED bitrateVars

(* Content-Type is video/f4f: the throughput is updated first.             *)
RelayChunk ==
  /\ ServerRead
  /\ Answered(node.sfd)
  /\ LET req == sock[node.sfd].req IN
     /\ req.kind = "chunk" \/ "mistyped" \in Faults
     /\ \E whole \in BOOLEAN :
          BodyArrives(whole) /\ Deliver(node.cfd, [to |-> req, whole |-> whole])
  /\ ChunkReceived(node.cfd)
  /\ Finish

(* ... through the null result of search_seg when there is no tracker.     *)
RelayChunkCrashes ==
  /\ ServerRead
  /\ Answered(node.sfd)
  /\ "mistyped" \in Faults
  /\ Tracked(node.cfd) = {}
  /\ Crash
  /\ UNCHANGED <<ready, sock, nodes, envVars, bitrateVars>>

(* No response header can be read: end of file, an error, or a client's    *)
(* request without a length. get_response_content_length then walks off    *)
(* the stack buffer looking for one.                                       *)
NoResponse ==
  /\ ServerRead
  /\ \E x \in Items :
       /\ Yields(node.sfd, x)
       /\ IF node.sfd = -1 THEN UNCHANGED inbox ELSE Consume(node.sfd, x)
  /\ Crash
  /\ UNCHANGED <<ready, sock, nodes, backlog, sent, peer, replies, bitrateVars>>

(* server_fd is a number that now belongs to a client, and what the client *)
(* sent has a Content-Length, as a POST does: it is taken for a response.  *)
RelayForeign ==
  /\ ServerRead
  /\ node.sfd # -1
  /\ \E x \in Request :
       /\ x.kind = "bad"
       /\ Yields(node.sfd, x)
       /\ inbox' = [inbox EXCEPT ![sock[node.sfd].conn] = Tail(@)]
       /\ Deliver(node.cfd, [to |-> x, whole |-> TRUE])
  /\ ready' = ready \ {node.cfd, node.sfd}
  /\ sock' = Close(sock, node.cfd)
  /\ NextSession
  /\ UNCHANGED <<nodes, backlog, sent, peer, bitrateVars>>

-----------------------------------------------------------------------------
(* Clients, external to the program.                                       *)

Connect(c) ==
  /\ peer[c] = "new"
  /\ peer' = [peer EXCEPT ![c] = "open"]
  /\ backlog' = Append(backlog, c)
  /\ UNCHANGED <<procVars, inbox, sent, replies, bitrateVars>>

(* The connection has not been closed by the proxy.                        *)
Attached(c) ==
  \/ \E i \in DOMAIN backlog : backlog[i] = c
  \/ \E f \in Fd : sock[f] = ClientSock(c)

Kinds == {"chunk", "page"} \cup (IF "malformed" \in Faults THEN {"bad"} ELSE {})

(* How much of a request is there when it can first be read.               *)
Arrives == IF "split" \in Faults THEN BOOLEAN ELSE {TRUE}

(* A client does not pipeline: a read never returns two requests.          *)
(* Bound: MaxSent requests on a connection.                                *)
Send(c) ==
  /\ peer[c] = "open"
  /\ Attached(c)
  /\ inbox[c] = <<>>
  /\ sent[c] < MaxSent
  /\ sent' = [sent EXCEPT ![c] = @ + 1]
  /\ \E k \in Kinds, w \in Arrives : \E r \in (IF k = "chunk" THEN ReqRates ELSE {100}) :
       inbox' = [inbox EXCEPT ![c] =
                   Append(@, [from |-> c, kind |-> k, rate |-> r, whole |-> w])]
  /\ UNCHANGED <<procVars, backlog, peer, replies, bitrateVars>>

(* The rest of a request arrives before any of it is read. When it comes   *)
(* later it is read, if at all, as one more request, a malformed one.      *)
SendRest(c) ==
  /\ peer[c] = "open"
  /\ inbox[c] # <<>>
  /\ ~Head(inbox[c]).whole
  /\ inbox' = [inbox EXCEPT ![c] = <<[Head(@) EXCEPT !.whole = TRUE]>> \o Tail(@)]
  /\ UNCHANGED <<procVars, backlog, sent, peer, replies, bitrateVars>>

Leave(c) ==
  /\ peer[c] = "open"
  /\ Attached(c)
  /\ \E how \in {"fin", "rst"} \cap Faults : peer' = [peer EXCEPT ![c] = how]
  /\ UNCHANGED <<procVars, backlog, inbox, sent, replies, bitrateVars>>

-----------------------------------------------------------------------------
ProxyInit ==
  /\ pc = "select"
  /\ cur = 0
  /\ ready = {ListenFd}
  /\ sock = [f \in Fd |-> IF f = ListenFd THEN Listener ELSE Free]
  /\ nodes = <<>>
  /\ backlog = <<>>
  /\ inbox = [c \in Conn |-> <<>>]
  /\ sent = [c \in Conn |-> 0]
  /\ peer = [c \in Conn |-> "new"]
  /\ replies = [c \in Conn |-> <<>>]
  /\ BitrateInit

HandleClientRecv ==
  \/ ClientReadFails \/ ConnectFails \/ ConnectExhaustsTable
  \/ RejectRequest \/ EofRequest \/ EofRequestCrashes
  \/ ForwardPage \/ ForwardChunk

HandleServerRecv ==
  \/ RelayPage \/ RelayChunk \/ RelayChunkCrashes
  \/ NoResponse \/ RelayForeign

Loop ==
  \/ Select \/ Accept \/ AcceptFails
  \/ SkipClient \/ HandleClientRecv
  \/ SkipServer \/ HandleServerRecv

Clients == \E c \in Conn : Connect(c) \/ Send(c) \/ SendRest(c) \/ Leave(c)

ProxyNext == Loop \/ Clients

ProxySpec == ProxyInit /\ [][ProxyNext]_proxyVars

(* The process is scheduled and the origin answers a whole request: the    *)
(* loop takes a step whenever it is not blocked. A client that has         *)
(* connected sends its request.                                            *)
Fairness ==
  /\ WF_proxyVars(Loop)
  /\ \A c \in Conn : WF_proxyVars(sent[c] = 0 /\ Send(c))

FairProxySpec == ProxySpec /\ Fairness

-----------------------------------------------------------------------------
(* Properties *)

ProxyTypeOK ==
  /\ BitrateTypeOK
  /\ pc \in Pcs
  /\ nodes \in Seq(Node)
  /\ cur \in 0 .. Len(nodes)
  /\ pc \in {"client", "server"} => cur # 0
  /\ ready \subseteq Fd
  /\ sock \in [Fd -> Sock]
  /\ backlog \in Seq(Conn)
  /\ inbox \in [Conn -> Seq(Request)]
  /\ sent \in [Conn -> 0 .. MaxSent]
  /\ peer \in [Conn -> {"new", "open", "fin", "rst"}]
  /\ replies \in [Conn -> Seq(Reply)]

(* Handlers close descriptors by remembered number. Whatever numbers the   *)
(* sessions remember, none of them is ever the listening socket's: it is   *)
(* never closed, read as a client or handed to another connection.         *)
ListenerNeverClosed == sock[ListenFd] = Listener

(* select never waits for an origin's answer: an origin is in the set only *)
(* between the two handlers of one session in one pass of the loop.        *)
OriginsNeverSelected ==
  pc \in {"select", "accept"} =>
    /\ ready \subseteq {ListenFd} \cup {nodes[i].cfd : i \in DOMAIN nodes}
    /\ \A f \in ready : ~Answered(f)

(* The parts of the inductive invariant behind those two: no session       *)
(* remembers the listener's number; a running process has a descriptor     *)
(* left; accept is called when a connection is there; what is watched is   *)
(* the listener, clients' numbers and, after the client's handler, the     *)
(* origin it has just written to; and only that one has an answer to read. *)
SessionsSpareListener ==
  \A i \in DOMAIN nodes : nodes[i].cfd # ListenFd /\ nodes[i].sfd # ListenFd

RunningHasDescriptor == pc \notin {"crashed", "exited"} => ~TableFull(sock)

AcceptHasConnection == pc = "accept" => backlog # <<>>

WatchedAreClients ==
  pc \notin {"crashed", "exited"} =>
    \A f \in ready :
      \/ f = ListenFd
      \/ \E i \in DOMAIN nodes : f = nodes[i].cfd
      \/ pc = "server" /\ f = nodes[cur].sfd

AnswerIsReadNext ==
  pc \notin {"crashed", "exited"} =>
    \A f \in Fd : Answered(f) =>
      pc = "server" /\ f = nodes[cur].sfd /\ f \in ready

(* What the two handlers may rely on whatever clients and origin do.       *)
ProxyInv ==
  /\ BitrateInv
  /\ ProxyTypeOK
  /\ ListenerNeverClosed
  /\ SessionsSpareListener
  /\ RunningHasDescriptor
  /\ AcceptHasConnection
  /\ WatchedAreClients
  /\ AnswerIsReadNext

(* A session owns the origin connection it remembers: it is open, it is an *)
(* origin's, and no other session remembers it.                            *)
SessionsOwnOrigins ==
  pc \notin {"crashed", "exited"} =>
    \A i \in DOMAIN nodes : nodes[i].sfd # -1 =>
      /\ sock[nodes[i].sfd].type = "origin"
      /\ \A j \in DOMAIN nodes : nodes[j].sfd = nodes[i].sfd => i = j

(* The only read that waits for something other than a client's next       *)
(* request is that of an answer: the session's own origin connection, with *)
(* the request of the session's own client on it. A client that is slow to *)
(* send, or whose request was cut, is the only one to answer for the wait. *)
(* After the reset of a client's connection, whose bit is not cleared, the *)
(* loop may also read an origin nothing was asked of, or, for a session    *)
(* that never had an origin, descriptor -1, by a bit that is another's.    *)
WaitsForOwnAnswer ==
  pc = "server" /\ Bit(node.sfd) \in ready =>
    \/ node.sfd = -1 /\ \E c \in Conn : peer[c] = "rst"
    \/ /\ node.sfd # -1
       /\ sock[node.sfd].type = "origin"
       /\ IF sock[node.sfd].req = NoReq
          THEN \E c \in Conn : peer[c] = "rst"
          ELSE sock[node.cfd] = ClientSock(sock[node.sfd].req.from)

(* A client receives answers to its own requests only, whatever numbers    *)
(* its descriptors had before: a handler writes to a remembered number.    *)
RepliesGoHome ==
  \A c \in Conn : \A i \in DOMAIN replies[c] : replies[c][i].to.from = c

(* However many requests a client sends on its connection, it gets one     *)
(* answer: the proxy closes the connection after it.                       *)
AtMostOneReply == \A c \in Conn : Len(replies[c]) <= 1

(* Every answered connection leaves one origin connection open behind it.  *)
OriginsLeaked ==
  pc = "select" =>
    Cardinality({f \in Fd : sock[f].type = "origin"}) = Len(nodes)

(* One session at a time: whenever the loop is back at select, every       *)
(* session has been served and its socket closed, and only the listening   *)
(* socket is watched.                                                      *)
OnlyListenerWatched == pc = "select" => ready = {ListenFd}

(* The k-th record of the log names chunk k - 1: the first chunk stays on  *)
(* its list when it is logged, and the log is one behind from then on.     *)
LogLagsByOne ==
  \A k \in DOMAIN tlog : tlog[k].file.seg = (IF k = 1 THEN 1 ELSE k - 1)

(* A client that comes after another begins where that one left off: every *)
(* chunk was asked for at the best rate that the record before its own     *)
(* affords, the first at what 100 affords, although each record is of      *)
(* another connection. They had one number, and so one tracker.            *)
ClientsInheritEstimate ==
  \A k \in DOMAIN tlog :
    BestFor(tlog[k].rate, IF k = 1 THEN 100 ELSE tlog[k - 1].tput)

(* README:30: the timer stops "as soon as all the bytes of file are        *)
(* received". An answer is counted and forwarded once all of it is there.  *)
AnswersWhole ==
  \A c \in Conn : \A i \in DOMAIN replies[c] : replies[c][i].whole

(* A client that has sent a good request is answered.                      *)
GoodRequestSent(c) ==
  /\ peer[c] = "open"
  /\ inbox[c] # <<>>
  /\ Head(inbox[c]).kind # "bad"
  /\ Attached(c)

Served == \A c \in Conn : GoodRequestSent(c) ~> replies[c] # <<>>

(* A connection that has been made is accepted, unless the process dies.   *)
Heard ==
  \A c \in Conn :
    (\E i \in DOMAIN backlog : backlog[i] = c)
      ~> (\/ \A i \in DOMAIN backlog : backlog[i] # c
          \/ pc \in {"crashed", "exited"})

(* The descriptors leaked by answered connections are all that can end a   *)
(* proxy that meets no fault: not before the connection after |Fd| - 3     *)
(* others, which finds the table full.                                     *)
DiesOfLeaksOnly ==
  /\ Len(nodes) <= Cardinality(Fd) - 2
  /\ pc = "crashed" => Len(nodes) = Cardinality(Fd) - 2

(* The proxy without faults is a Relay: backlog is what waits, the client  *)
(* whose socket is open is being served.                                   *)
Abs == INSTANCE Relay WITH
  waiting  <- backlog,
  serving  <- {c \in Conn : \E f \in Fd : sock[f] = ClientSock(c)},
  answered <- {c \in Conn : replies[c] # <<>>}

(* It takes connections up one at a time, first come first served, and     *)
(* answers each before it looks at the next.                               *)
RelaySpec == Abs!RelaySpec
=============================================================================
