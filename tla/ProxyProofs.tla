----------------------------- MODULE ProxyProofs -----------------------------
(***************************************************************************)
(* Proofs about Proxy. ProxyInv is inductive for any descriptor table, any *)
(* number of clients and every fault, so the listening socket is never     *)
(* closed and select never waits for an origin.                            *)
(***************************************************************************)
EXTENDS Proxy, BitrateProofs, WellFoundedInduction

(* The lowest free number exists, is free and is no higher than another.   *)
LEMMA LowestIsMember ==
  ASSUME NEW F \in SUBSET Nat, F # {}
  PROVE  Lowest(F) \in F /\ \A g \in F : Lowest(F) <= g
<1>1. \E f \in F : \A g \in F : <<g, f>> \notin OpToRel(<, Nat)
  BY NatLessThanWellFounded, WFMin
<1>2. \A f, g \in Nat : g < f => <<g, f>> \in OpToRel(<, Nat)
  BY Zenon DEF OpToRel
<1>3. \E f \in F : \A g \in F : ~(g < f)
  BY <1>1, <1>2, Zenon
<1>4. \E f \in F : \A g \in F : f <= g
  BY <1>3
<1> QED
  BY <1>4 DEF Lowest

(* What a descriptor can refer to.                                         *)
LEMMA SockKinds ==
  /\ Free \in Sock /\ Listener \in Sock
  /\ \A c \in Conn : ClientSock(c) \in Sock
  /\ \A req \in Request \cup {NoReq}, w \in BOOLEAN : OriginSock(req, w) \in Sock
  /\ Free # Listener
  /\ \A req, w : OriginSock(req, w) # Free /\ OriginSock(req, w) # Listener
  /\ \A c : ClientSock(c) # Free /\ ClientSock(c) # Listener
<1>1. /\ Free.type = "free" /\ Listener.type = "listen"
      /\ \A req, w : OriginSock(req, w).type = "origin"
      /\ \A c : ClientSock(c).type = "client"
  BY DEF Free, Listener, OriginSock, ClientSock
<1>2. Free # Listener
  BY <1>1
<1>3. \A req, w : OriginSock(req, w) # Free /\ OriginSock(req, w) # Listener
  BY <1>1
<1>4. \A c : ClientSock(c) # Free /\ ClientSock(c) # Listener
  BY <1>1
<1> QED
  BY <1>2, <1>3, <1>4 DEF Sock

(* close(fd) frees at most fd.                                             *)
LEMMA CloseShape ==
  ASSUME NEW s \in [Fd -> Sock], NEW fd \in Fd \cup {-1}
  PROVE  /\ Close(s, fd) \in [Fd -> Sock]
         /\ \A f \in Fd : Close(s, fd)[f] = IF f = fd THEN Free ELSE s[f]
         /\ FreeFds(s) \subseteq FreeFds(Close(s, fd))
         /\ fd # ListenFd /\ s[ListenFd] = Listener => Close(s, fd)[ListenFd] = Listener
         /\ \A f \in Fd : Close(s, fd)[f] # Free => Close(s, fd)[f] = s[f]
<1>1. /\ Close(s, fd) \in [Fd -> Sock]
      /\ \A f \in Fd : Close(s, fd)[f] = IF f = fd THEN Free ELSE s[f]
  BY SockKinds, ProxyAssumption DEF Close
<1>2. FreeFds(s) \subseteq FreeFds(Close(s, fd))
  BY <1>1 DEF FreeFds
<1> QED
  BY <1>1, <1>2, ProxyAssumption

(* The descriptors after a session's old origin has been closed and a new  *)
(* connection has taken the lowest free number.                            *)
LEMMA ConnectedShape ==
  ASSUME ProxyInv, pc = "client",
         NEW req \in Request \cup {NoReq}, NEW whole \in BOOLEAN
  PROVE  /\ NewFd \in Fd /\ NewFd # ListenFd /\ OldClosed[NewFd] = Free
         /\ OldClosed \in [Fd -> Sock] /\ OldClosed[ListenFd] = Listener
         /\ Connected(req, whole) \in [Fd -> Sock]
         /\ Connected(req, whole)[ListenFd] = Listener
         /\ Connected(req, whole)[NewFd] = OriginSock(req, whole)
         /\ \A f \in Fd : f # NewFd => Connected(req, whole)[f] = OldClosed[f]
         /\ \A f \in Fd : OldClosed[f] # Free => OldClosed[f] = sock[f]
         /\ FreeFds(OldClosed) # {}
<1>1. /\ sock \in [Fd -> Sock] /\ sock[ListenFd] = Listener
      /\ cur \in DOMAIN nodes /\ node \in Node
      /\ node.sfd \in Fd \cup {-1} /\ node.sfd # ListenFd
  <2>1. nodes \in Seq(Node) /\ cur \in 1 .. Len(nodes)
    BY DEF ProxyInv, ProxyTypeOK
  <2>2. node \in Node
    BY <2>1 DEF node
  <2> QED
    BY <2>1, <2>2
       DEF ProxyInv, ProxyTypeOK, ListenerNeverClosed, SessionsSpareListener, node, Node
<1>2. /\ OldClosed \in [Fd -> Sock] /\ OldClosed[ListenFd] = Listener
      /\ FreeFds(sock) \subseteq FreeFds(OldClosed)
      /\ \A f \in Fd : OldClosed[f] # Free => OldClosed[f] = sock[f]
  BY <1>1, CloseShape, ProxyAssumption DEF OldClosed
<1>3. FreeFds(OldClosed) # {}
  BY <1>2 DEF ProxyInv, RunningHasDescriptor, TableFull
<1>4. FreeFds(OldClosed) \in SUBSET Nat
  BY BitrateAssumption DEF FreeFds
<1>5. NewFd \in FreeFds(OldClosed)
  BY <1>3, <1>4, LowestIsMember DEF NewFd
<1>6. NewFd \in Fd /\ OldClosed[NewFd] = Free
  BY <1>5 DEF FreeFds
<1>7. NewFd # ListenFd
  BY <1>2, <1>6, SockKinds
<1>8. OriginSock(req, whole) \in Sock
  BY SockKinds
<1>9. /\ Connected(req, whole) \in [Fd -> Sock]
      /\ Connected(req, whole)[NewFd] = OriginSock(req, whole)
      /\ \A f \in Fd : f # NewFd => Connected(req, whole)[f] = OldClosed[f]
  BY <1>2, <1>6, <1>8 DEF Connected
<1>10. Connected(req, whole)[ListenFd] = Listener
  BY <1>2, <1>7, <1>9, ProxyAssumption
<1> QED
  BY <1>2, <1>3, <1>6, <1>7, <1>9, <1>10

(* The session the loop is at, and no descriptor of it is the listener's.  *)
LEMMA CurrentSession ==
  ASSUME ProxyInv, pc \in {"client", "server"}
  PROVE  /\ nodes \in Seq(Node) /\ cur \in DOMAIN nodes /\ cur \in 1 .. Len(nodes)
         /\ node.cfd \in Fd /\ node.cfd # ListenFd
         /\ node.sfd \in Fd \cup {-1} /\ node.sfd # ListenFd
<1>1. nodes \in Seq(Node) /\ cur \in 1 .. Len(nodes)
  BY DEF ProxyInv, ProxyTypeOK
<1>2. node \in Node
  BY <1>1 DEF node
<1> QED
  BY <1>1, <1>2 DEF ProxyInv, SessionsSpareListener, node, Node

(* The session list after a session's origin has been set.                 *)
LEMMA SessionConnected ==
  ASSUME ProxyInv, pc = "client", NEW f \in Fd, f # ListenFd
  PROVE  LET n == [nodes EXCEPT ![cur].sfd = f]
         IN  /\ n \in Seq(Node) /\ Len(n) = Len(nodes) /\ DOMAIN n = DOMAIN nodes
             /\ n[cur].sfd = f
             /\ \A i \in DOMAIN nodes : n[i].cfd = nodes[i].cfd /\ n[i].sfd # ListenFd
<1> DEFINE n == [nodes EXCEPT ![cur].sfd = f]
           m == [cfd |-> node.cfd, sfd |-> f]
<1>1. nodes \in Seq(Node) /\ cur \in 1 .. Len(nodes) /\ node.cfd \in Fd
  BY CurrentSession
<1>2. node \in Node
  BY <1>1 DEF node
<1>3. m \in Node
  BY <1>1 DEF Node
<1>4. [node EXCEPT !.sfd = f] = m
  BY <1>2 DEF Node
<1>5. n = [nodes EXCEPT ![cur] = m]
  BY <1>4 DEF node
<1>6. m.cfd = node.cfd /\ m.sfd = f
  OBVIOUS
<1> HIDE DEF n, m
<1>7. /\ n \in Seq(Node) /\ Len(n) = Len(nodes) /\ DOMAIN n = DOMAIN nodes
      /\ n[cur] = m /\ \A i \in DOMAIN nodes : i # cur => n[i] = nodes[i]
  BY <1>1, <1>3, <1>5
<1>8. \A i \in DOMAIN nodes : nodes[i].sfd # ListenFd
  BY DEF ProxyInv, SessionsSpareListener
<1> QED
  BY <1>6, <1>7, <1>8 DEF n, node

(* Reading a client takes at most a request out of its stream.             *)
LEMMA ConsumeType ==
  ASSUME ProxyInv, NEW fd \in Fd, NEW x \in Items, Yields(fd, x), Consume(fd, x)
  PROVE  inbox' \in [Conn -> Seq(Request)]
<1>1. inbox \in [Conn -> Seq(Request)] /\ sock \in [Fd -> Sock]
  BY DEF ProxyInv, ProxyTypeOK
<1>2. CASE x \notin Request
  BY <1>1, <1>2 DEF Consume
<1>3. CASE x \in Request
  <2>1. x.kind \in {"chunk", "page", "bad"}
    BY <1>3 DEF Request
  <2>2. x # Err /\ x # Eof
    BY <2>1 DEF Err, Eof
  <2>3. sock[fd].type = "client" /\ inbox[sock[fd].conn] # <<>>
    BY <2>2 DEF Yields
  <2>4. PICK c \in Conn : sock[fd] = ClientSock(c)
    BY <1>1, <2>3 DEF Sock, Free, Listener, OriginSock
  <2>5. sock[fd].conn = c
    BY <2>4 DEF ClientSock
  <2>6. Tail(inbox[c]) \in Seq(Request)
    BY <1>1, <2>3, <2>5
  <2> QED
    BY <1>1, <1>3, <2>5, <2>6 DEF Consume
<1> QED
  BY <1>2, <1>3

-----------------------------------------------------------------------------
(***************************************************************************)
(* The two handlers, summarised by what ProxyInv needs to know of them.    *)
(***************************************************************************)

(* What a run of handle_client_recv does, whichever way through it.        *)
ClientHandled ==
  /\ pc = "client" /\ pc' \in {"server", "crashed"}
  /\ BitrateInv'
  /\ inbox' \in [Conn -> Seq(Request)]
  /\ UNCHANGED <<cur, backlog, sent, peer, replies>>
  /\ sock' \in [Fd -> Sock] /\ sock'[ListenFd] = Listener
  /\ pc' = "server" => ~TableFull(sock')
  /\ nodes' \in Seq(Node) /\ Len(nodes') = Len(nodes) /\ DOMAIN nodes' = DOMAIN nodes
  /\ \A i \in DOMAIN nodes : nodes'[i].cfd = nodes[i].cfd /\ nodes'[i].sfd # ListenFd
  /\ ready' \subseteq Fd
  /\ pc' = "server" => ready' \subseteq ready \cup {nodes'[cur].sfd}
  /\ pc' = "server" =>
       \A f \in Fd : Answered(f)' => f = nodes'[cur].sfd /\ f \in ready'

(* Closing descriptors of the session, nothing else, is such a step.       *)
LEMMA ClosingIsHandled ==
  ASSUME ProxyInv, NEW x \in Items, ClientRead(x), NEW fd \in {node.cfd, node.sfd},
         sock' = Close(sock, fd), pc' = "server",
         UNCHANGED <<ready, nodes, bitrateVars>>
  PROVE  ClientHandled
<1>1. /\ pc = "client" /\ Yields(node.cfd, x) /\ Consume(node.cfd, x)
      /\ UNCHANGED <<cur, backlog, sent, peer, replies>>
  BY DEF ClientRead
<1>2. /\ nodes \in Seq(Node) /\ cur \in DOMAIN nodes
      /\ node.cfd \in Fd /\ node.cfd # ListenFd
      /\ node.sfd \in Fd \cup {-1} /\ node.sfd # ListenFd
  BY <1>1, CurrentSession
<1>3. inbox' \in [Conn -> Seq(Request)]
  BY <1>1, <1>2, ConsumeType
<1>4. BitrateInv'
  BY BitrateStutterInv DEF ProxyInv
<1>5. sock \in [Fd -> Sock] /\ sock[ListenFd] = Listener /\ ready \subseteq Fd
  BY DEF ProxyInv, ProxyTypeOK, ListenerNeverClosed
<1>6. /\ sock' \in [Fd -> Sock] /\ sock'[ListenFd] = Listener
      /\ FreeFds(sock) \subseteq FreeFds(sock')
      /\ \A f \in Fd : sock'[f] # Free => sock'[f] = sock[f]
  BY <1>2, <1>5, CloseShape
<1>7. ~TableFull(sock')
  BY <1>1, <1>6 DEF ProxyInv, RunningHasDescriptor, TableFull
<1>8. \A f \in Fd : ~Answered(f)'
  <2>1. \A f \in Fd : ~Answered(f)
    BY <1>1 DEF ProxyInv, AnswerIsReadNext
  <2>2. Free.type # "origin"
    BY DEF Free
  <2> QED
    BY <1>6, <2>1, <2>2 DEF Answered
<1> QED
  BY <1>1, <1>2, <1>3, <1>4, <1>5, <1>6, <1>7, <1>8
     DEF ClientHandled, ProxyInv, SessionsSpareListener

(* So is connecting to the origin with nothing or a request written.       *)
LEMMA ConnectingIsHandled ==
  ASSUME ProxyInv, NEW x \in Items, ClientRead(x), BitrateInv',
         NEW req \in Request \cup {NoReq}, NEW whole \in BOOLEAN,
         Connects(req, whole),
         \/ req = NoReq /\ ready' = ready
         \/ ready' = ready \cup {NewFd}
  PROVE  ClientHandled
<1>1. /\ pc = "client" /\ Yields(node.cfd, x) /\ Consume(node.cfd, x)
      /\ UNCHANGED <<cur, backlog, sent, peer, replies>>
  BY DEF ClientRead
<1>2. cur \in DOMAIN nodes /\ node.cfd \in Fd
  BY <1>1, CurrentSession
<1>3. inbox' \in [Conn -> Seq(Request)]
  BY <1>1, <1>2, ConsumeType
<1>4. /\ NewFd \in Fd /\ NewFd # ListenFd
      /\ sock' \in [Fd -> Sock] /\ sock'[ListenFd] = Listener
      /\ sock'[NewFd] = OriginSock(req, whole)
      /\ \A f \in Fd : f # NewFd => sock'[f] = OldClosed[f]
      /\ \A f \in Fd : OldClosed[f] # Free => OldClosed[f] = sock[f]
  BY <1>1, ConnectedShape DEF Connects
<1>5. nodes' = [nodes EXCEPT ![cur].sfd = NewFd] /\ pc' = "server" /\ ~TableFull(sock')
  BY DEF Connects
<1>6. /\ nodes' \in Seq(Node) /\ Len(nodes') = Len(nodes) /\ DOMAIN nodes' = DOMAIN nodes
      /\ nodes'[cur].sfd = NewFd
      /\ \A i \in DOMAIN nodes : nodes'[i].cfd = nodes[i].cfd /\ nodes'[i].sfd # ListenFd
  BY <1>1, <1>4, <1>5, SessionConnected
<1>7. ready' \subseteq Fd /\ ready' \subseteq ready \cup {NewFd}
  BY <1>4 DEF ProxyInv, ProxyTypeOK
<1>8. \A f \in Fd : Answered(f)' => f = NewFd /\ f \in ready'
  <2> SUFFICES ASSUME NEW f \in Fd, Answered(f)'
               PROVE  f = NewFd /\ f \in ready'
    OBVIOUS
  <2>1. ~Answered(f)
    BY <1>1 DEF ProxyInv, AnswerIsReadNext
  <2>2. Free.type # "origin"
    BY DEF Free
  <2>3. f = NewFd
    BY <1>4, <2>1, <2>2 DEF Answered
  <2>4. sock'[f].req = req
    BY <1>4, <2>3 DEF OriginSock
  <2>5. req # NoReq
    BY <2>4 DEF Answered
  <2> QED
    BY <2>3, <2>5
<1> QED
  BY <1>1, <1>3, <1>4, <1>5, <1>6, <1>7, <1>8 DEF ClientHandled

(* A connection after which the process dies, of no good to anyone.        *)
LEMMA CrashingConnect ==
  ASSUME ProxyInv, NEW x \in Items, ClientRead(x),
         sock' = Connected(NoReq, FALSE), pc' = "crashed",
         \/ nodes' = nodes
         \/ nodes' = [nodes EXCEPT ![cur].sfd = NewFd],
         UNCHANGED <<ready, bitrateVars>>
  PROVE  ClientHandled
<1>1. /\ pc = "client" /\ Yields(node.cfd, x) /\ Consume(node.cfd, x)
      /\ UNCHANGED <<cur, backlog, sent, peer, replies>>
  BY DEF ClientRead
<1>2. /\ nodes \in Seq(Node) /\ node.cfd \in Fd
      /\ \A i \in DOMAIN nodes : nodes[i].sfd # ListenFd
  BY <1>1, CurrentSession DEF ProxyInv, SessionsSpareListener
<1>3. inbox' \in [Conn -> Seq(Request)]
  BY <1>1, <1>2, ConsumeType
<1>4. /\ NewFd \in Fd /\ NewFd # ListenFd
      /\ sock' \in [Fd -> Sock] /\ sock'[ListenFd] = Listener
  BY <1>1, ConnectedShape
<1>5. /\ nodes' \in Seq(Node) /\ Len(nodes') = Len(nodes) /\ DOMAIN nodes' = DOMAIN nodes
      /\ \A i \in DOMAIN nodes : nodes'[i].cfd = nodes[i].cfd /\ nodes'[i].sfd # ListenFd
  <2>1. CASE nodes' = nodes
    BY <1>2, <2>1
  <2>2. CASE nodes' = [nodes EXCEPT ![cur].sfd = NewFd]
    BY <1>1, <1>4, <2>2, SessionConnected
  <2> QED
    BY <2>1, <2>2
<1>6. BitrateInv'
  BY BitrateStutterInv DEF ProxyInv
<1>7. ready' \subseteq Fd
  BY DEF ProxyInv, ProxyTypeOK
<1> QED
  BY <1>1, <1>3, <1>4, <1>5, <1>6, <1>7 DEF ClientHandled

(* What the ways through handle_client_recv read is something to read.     *)
LEMMA ReadItems ==
  /\ Err \in Items /\ Eof \in Items /\ Request \subseteq Items
  /\ Request \cup {Eof} \subseteq Items
BY DEF Items

(* Every way through handle_client_recv does what ClientHandled says.      *)
LEMMA HandleClientRecvIsHandled ==
  ASSUME ProxyInv, HandleClientRecv
  PROVE  ClientHandled
<1>1. CASE ClientReadFails
  BY <1>1, ClosingIsHandled, ReadItems DEF ClientReadFails
<1>2. CASE ConnectFails
  <2>1. PICK x \in Items : ClientRead(x)
    BY <1>2, ReadItems DEF ConnectFails
  <2> QED
    BY <1>2, <2>1, ClosingIsHandled DEF ConnectFails, OldClosed
<1>3. CASE ConnectExhaustsTable
  <2>1. PICK x \in Items : ClientRead(x)
    BY <1>3, ReadItems DEF ConnectExhaustsTable
  <2> QED
    BY <1>3, <2>1, CrashingConnect DEF ConnectExhaustsTable
<1>4. CASE RejectRequest
  <2>1. PICK x \in Items : ClientRead(x)
    BY <1>4, ReadItems DEF RejectRequest
  <2>2. BitrateInv'
    BY <1>4, BitrateStutterInv DEF RejectRequest, ProxyInv
  <2> QED
    BY <1>4, <2>1, <2>2, ConnectingIsHandled DEF RejectRequest
<1>5. CASE EofRequest
  <2>1. BitrateInv'
    BY <1>5, BitrateStutterInv DEF EofRequest, ProxyInv
  <2> QED
    BY <1>5, <2>1, ReadItems, ConnectingIsHandled DEF EofRequest
<1>6. CASE EofRequestCrashes
  BY <1>6, ReadItems, CrashingConnect DEF EofRequestCrashes
<1>7. CASE ForwardPage
  <2>1. PICK x \in Request : ClientRead(x) /\ WriteRequest(x, x.whole)
    BY <1>7 DEF ForwardPage
  <2>2. BitrateInv'
    BY <1>7, BitrateStutterInv DEF ForwardPage, ProxyInv
  <2>3. x \in Items /\ x.whole \in BOOLEAN
    BY ReadItems DEF Request
  <2> QED
    BY <2>1, <2>2, <2>3, ConnectingIsHandled DEF WriteRequest
<1>8. CASE ForwardChunk
  <2> DEFINE Rate == trackers'[CHOOSE i \in DOMAIN trackers' :
                                 trackers'[i].fd = node.cfd].rate
  <2>1. PICK x \in Request :
          /\ ClientRead(x) /\ AskChunk(node.cfd)
          /\ WriteRequest(x, x.whole /\ Digits(Rate) <= Digits(x.rate))
    BY <1>8 DEF ForwardChunk
  <2> HIDE DEF Rate
  <2>2. (x.whole /\ Digits(Rate) <= Digits(x.rate)) \in BOOLEAN
    OBVIOUS
  <2>3. node.cfd \in Fd
    BY <2>1, CurrentSession DEF ClientRead
  <2>4. BitrateInv'
    BY <2>1, <2>3, AskChunkInv DEF ProxyInv
  <2>5. x \in Items
    BY ReadItems
  <2> DEFINE w == x.whole /\ Digits(Rate) <= Digits(x.rate)
  <2>6. w \in BOOLEAN /\ WriteRequest(x, w)
    BY <2>1, <2>2
  <2> HIDE DEF w
  <2> QED
    BY <2>1, <2>4, <2>5, <2>6, ConnectingIsHandled DEF WriteRequest
<1> QED
  BY <1>1, <1>2, <1>3, <1>4, <1>5, <1>6, <1>7, <1>8 DEF HandleClientRecv

(* What a run of handle_server_recv does, whichever way through it.        *)
ServerHandled ==
  /\ pc = "server" /\ (NextSession \/ (pc' = "crashed" /\ UNCHANGED cur))
  /\ BitrateInv'
  /\ inbox' \in [Conn -> Seq(Request)] /\ replies' \in [Conn -> Seq(Reply)]
  /\ UNCHANGED <<nodes, backlog, sent, peer>>
  /\ sock' \in [Fd -> Sock] /\ sock'[ListenFd] = Listener
  /\ FreeFds(sock) \subseteq FreeFds(sock')
  /\ ready' \subseteq ready
  /\ NextSession => node.sfd \notin ready' /\ \A f \in Fd : ~Answered(f)'

(* A write adds at most a reply to what one client has received.           *)
LEMMA DeliverType ==
  ASSUME ProxyInv, NEW fd \in Fd, NEW reply \in Reply, Deliver(fd, reply)
  PROVE  replies' \in [Conn -> Seq(Reply)]
<1>1. replies \in [Conn -> Seq(Reply)] /\ sock \in [Fd -> Sock]
  BY DEF ProxyInv, ProxyTypeOK
<1>2. CASE sock[fd].type = "client" /\ peer[sock[fd].conn] # "rst"
  <2>1. PICK c \in Conn : sock[fd] = ClientSock(c)
    BY <1>1, <1>2 DEF Sock, Free, Listener, OriginSock
  <2>2. sock[fd].conn = c
    BY <2>1 DEF ClientSock
  <2>3. Append(replies[c], reply) \in Seq(Reply)
    BY <1>1
  <2> QED
    BY <1>1, <1>2, <2>2, <2>3 DEF Deliver
<1>3. CASE ~(sock[fd].type = "client" /\ peer[sock[fd].conn] # "rst")
  BY <1>1, <1>3 DEF Deliver
<1> QED
  BY <1>2, <1>3

(* The answer read was the only one there was, and its descriptor is left  *)
(* open with nothing to read.                                              *)
LEMMA RelayingIsHandled ==
  ASSUME ProxyInv, ServerRead, Answered(node.sfd), Finish, BitrateInv',
         NEW whole \in BOOLEAN,
         Deliver(node.cfd, [to |-> sock[node.sfd].req, whole |-> whole])
  PROVE  ServerHandled
<1>1. /\ pc = "server" /\ NextSession
      /\ UNCHANGED <<nodes, backlog, inbox, sent, peer>>
      /\ ready' = ready \ {node.cfd, node.sfd}
      /\ sock' = Close(Drained, node.cfd)
  BY DEF ServerRead, Finish, FinishFrame
<1>2. /\ node.cfd \in Fd /\ node.cfd # ListenFd
      /\ node.sfd \in Fd /\ node.sfd # ListenFd
  BY <1>1, CurrentSession DEF Answered
<1>3. /\ sock \in [Fd -> Sock] /\ sock[ListenFd] = Listener
      /\ inbox \in [Conn -> Seq(Request)]
  BY DEF ProxyInv, ProxyTypeOK, ListenerNeverClosed
<1>4. sock[node.sfd].req \in Request
  <2>1. PICK req \in Request \cup {NoReq}, w \in BOOLEAN :
          sock[node.sfd] = OriginSock(req, w)
    <3>1. sock[node.sfd] \in Sock /\ sock[node.sfd].type = "origin"
      BY <1>2, <1>3 DEF Answered
    <3>2. /\ sock[node.sfd] # Free /\ sock[node.sfd] # Listener
          /\ \A c \in Conn : sock[node.sfd] # ClientSock(c)
      BY <3>1 DEF Free, Listener, ClientSock
    <3> QED
      BY <3>1, <3>2 DEF Sock
  <2>2. sock[node.sfd].req = req
    BY <2>1 DEF OriginSock
  <2> QED
    BY <2>2 DEF Answered
<1>5. [to |-> sock[node.sfd].req, whole |-> whole] \in Reply
  BY <1>4 DEF Reply
<1>6. replies' \in [Conn -> Seq(Reply)]
  BY <1>2, <1>5, DeliverType
<1>7. /\ Drained \in [Fd -> Sock] /\ Drained[ListenFd] = Listener
      /\ FreeFds(sock) \subseteq FreeFds(Drained)
      /\ Drained[node.sfd] = OriginSock(NoReq, FALSE)
      /\ \A f \in Fd : f # node.sfd => Drained[f] = sock[f]
  <2>1. OriginSock(NoReq, FALSE) \in Sock
    BY SockKinds
  <2>2. /\ Drained \in [Fd -> Sock]
        /\ Drained[node.sfd] = OriginSock(NoReq, FALSE)
        /\ \A f \in Fd : f # node.sfd => Drained[f] = sock[f]
    BY <1>2, <1>3, <2>1 DEF Drained
  <2>3. sock[node.sfd] # Free
    BY DEF Answered, Free
  <2> QED
    BY <1>2, <1>3, <2>2, <2>3, ProxyAssumption DEF FreeFds
<1>8. /\ sock' \in [Fd -> Sock] /\ sock'[ListenFd] = Listener
      /\ FreeFds(sock) \subseteq FreeFds(sock')
      /\ \A f \in Fd : sock'[f] # Free => sock'[f] = Drained[f]
  BY <1>1, <1>2, <1>7, CloseShape
<1>9. \A f \in Fd : ~Answered(f)'
  <2> SUFFICES ASSUME NEW f \in Fd, Answered(f)' PROVE FALSE
    OBVIOUS
  <2>1. sock'[f] # Free
    BY DEF Answered, Free
  <2>2. f # node.sfd
    BY <1>7, <1>8, <2>1 DEF Answered, OriginSock
  <2>3. Answered(f)
    BY <1>7, <1>8, <2>1, <2>2 DEF Answered
  <2> QED
    BY <1>1, <2>2, <2>3 DEF ProxyInv, AnswerIsReadNext, node
<1> QED
  BY <1>1, <1>2, <1>3, <1>6, <1>8, <1>9 DEF ServerHandled

(* Every way through handle_server_recv does what ServerHandled says.      *)
LEMMA HandleServerRecvIsHandled ==
  ASSUME ProxyInv, HandleServerRecv
  PROVE  ServerHandled
<1>0. /\ pc = "server"
      /\ sock \in [Fd -> Sock] /\ sock[ListenFd] = Listener
      /\ inbox \in [Conn -> Seq(Request)] /\ replies \in [Conn -> Seq(Reply)]
  BY DEF HandleServerRecv, RelayPage, RelayChunk, RelayChunkCrashes, NoResponse,
         RelayForeign, ServerRead, ProxyInv, ProxyTypeOK, ListenerNeverClosed
<1>1. /\ node.cfd \in Fd /\ node.cfd # ListenFd
      /\ node.sfd \in Fd \cup {-1} /\ node.sfd # ListenFd
  BY <1>0, CurrentSession
<1>2. CASE RelayPage
  <2>1. PICK whole \in BOOLEAN :
          Deliver(node.cfd, [to |-> sock[node.sfd].req, whole |-> whole])
    BY <1>2 DEF RelayPage
  <2>2. BitrateInv'
    BY <1>2, BitrateStutterInv DEF RelayPage, ProxyInv
  <2> QED
    BY <1>2, <2>1, <2>2, RelayingIsHandled DEF RelayPage
<1>3. CASE RelayChunk
  <2>1. PICK whole \in BOOLEAN :
          Deliver(node.cfd, [to |-> sock[node.sfd].req, whole |-> whole])
    BY <1>3 DEF RelayChunk
  <2>2. BitrateInv'
    BY <1>1, <1>3, ChunkReceivedInv DEF RelayChunk, ProxyInv
  <2> QED
    BY <1>3, <2>1, <2>2, RelayingIsHandled DEF RelayChunk
<1>4. CASE RelayChunkCrashes
  <2>1. BitrateInv'
    BY <1>4, BitrateStutterInv DEF RelayChunkCrashes, ProxyInv
  <2>2. ~NextSession
    BY <1>4 DEF RelayChunkCrashes, Crash, NextSession
  <2> QED
    BY <1>0, <1>4, <2>1, <2>2 DEF RelayChunkCrashes, Crash, envVars, ServerHandled
<1>5. CASE NoResponse
  <2>1. BitrateInv'
    BY <1>5, BitrateStutterInv DEF NoResponse, ProxyInv
  <2>2. ~NextSession
    BY <1>5 DEF NoResponse, Crash, NextSession
  <2>3. inbox' \in [Conn -> Seq(Request)]
    BY <1>0, <1>1, <1>5, ConsumeType DEF NoResponse
  <2> QED
    BY <1>0, <1>5, <2>1, <2>2, <2>3 DEF NoResponse, Crash, ServerHandled
<1>6. CASE RelayForeign
  <2>1. PICK x \in Request :
          /\ Yields(node.sfd, x)
          /\ inbox' = [inbox EXCEPT ![sock[node.sfd].conn] = Tail(@)]
          /\ Deliver(node.cfd, [to |-> x, whole |-> TRUE])
    BY <1>6 DEF RelayForeign
  <2>2. /\ node.sfd \in Fd
        /\ ready' = ready \ {node.cfd, node.sfd}
        /\ sock' = Close(sock, node.cfd)
        /\ NextSession /\ UNCHANGED <<nodes, backlog, sent, peer, bitrateVars>>
    BY <1>1, <1>6 DEF RelayForeign
  <2>3. Consume(node.sfd, x) /\ x \in Items
    BY <2>1 DEF Consume, Items
  <2>4. inbox' \in [Conn -> Seq(Request)]
    BY <2>1, <2>2, <2>3, ConsumeType
  <2>5. [to |-> x, whole |-> TRUE] \in Reply
    BY DEF Reply
  <2>6. replies' \in [Conn -> Seq(Reply)]
    BY <1>1, <2>1, <2>5, DeliverType
  <2>7. /\ sock' \in [Fd -> Sock] /\ sock'[ListenFd] = Listener
        /\ FreeFds(sock) \subseteq FreeFds(sock')
        /\ \A f \in Fd : sock'[f] # Free => sock'[f] = sock[f]
    BY <1>0, <1>1, <2>2, CloseShape
  <2>8. sock[node.sfd].type = "client"
    <3>1. x # Err /\ x # Eof
      BY DEF Request, Err, Eof
    <3> QED
      BY <2>1, <3>1 DEF Yields
  <2>9. \A f \in Fd : ~Answered(f)'
    <3> SUFFICES ASSUME NEW f \in Fd, Answered(f)' PROVE FALSE
      OBVIOUS
    <3>1. sock'[f] # Free
      BY DEF Answered, Free
    <3>2. Answered(f)
      BY <2>7, <3>1 DEF Answered
    <3>3. f = node.sfd
      BY <1>0, <3>2 DEF ProxyInv, AnswerIsReadNext, node
    <3> QED
      BY <2>8, <3>2, <3>3 DEF Answered
  <2>10. BitrateInv'
    BY <2>2, BitrateStutterInv DEF ProxyInv
  <2> QED
    BY <1>0, <2>2, <2>4, <2>6, <2>7, <2>9, <2>10 DEF ServerHandled
<1> QED
  BY <1>2, <1>3, <1>4, <1>5, <1>6 DEF HandleServerRecv

-----------------------------------------------------------------------------
(***************************************************************************)
(* ProxyInv is inductive: one lemma per group of actions.                  *)
(***************************************************************************)

(* handle_client_recv: what it connects is watched or has no answer.       *)
LEMMA ClientHandledInv == ASSUME ProxyInv, ClientHandled PROVE ProxyInv'
<1>1. cur' \in DOMAIN nodes' /\ cur' # 0
  BY CurrentSession DEF ClientHandled
<1>2. ProxyTypeOK'
  <2>1. BitrateTypeOK'
    BY DEF ClientHandled, BitrateInv
  <2>2. cur' \in 0 .. Len(nodes')
    BY DEF ClientHandled, ProxyInv, ProxyTypeOK
  <2> QED
    BY <1>1, <2>1, <2>2 DEF ClientHandled, ProxyInv, ProxyTypeOK, Pcs
<1>3. SessionsSpareListener'
  BY DEF ClientHandled, ProxyInv, SessionsSpareListener
<1>4. WatchedAreClients'
  BY <1>1 DEF ClientHandled, ProxyInv, WatchedAreClients
<1>5. AnswerIsReadNext' /\ AcceptHasConnection' /\ RunningHasDescriptor'
  BY DEF ClientHandled, AnswerIsReadNext, AcceptHasConnection, RunningHasDescriptor
<1> QED
  BY <1>2, <1>3, <1>4, <1>5 DEF ClientHandled, ProxyInv, ListenerNeverClosed

(* p = p->next stays within the list of sessions.                          *)
LEMMA NextSessionPlace ==
  ASSUME ProxyInv, pc = "server", NextSession
  PROVE  /\ cur' \in 0 .. Len(nodes) /\ pc' \in {"client", "select"}
         /\ pc' = "client" => cur' # 0
<1>1. cur \in 1 .. Len(nodes) /\ Len(nodes) \in Nat
  BY CurrentSession
<1> QED
  BY <1>1 DEF NextSession

(* handle_server_recv: nothing it has read from is left to be read.        *)
LEMMA ServerHandledInv == ASSUME ProxyInv, ServerHandled PROVE ProxyInv'
<1>1. ProxyTypeOK'
  <2>1. BitrateTypeOK'
    BY DEF ServerHandled, BitrateInv
  <2>2. /\ cur' \in 0 .. Len(nodes') /\ pc' \in Pcs
        /\ pc' \in {"client", "server"} => cur' # 0
    <3>1. CASE NextSession
      BY <3>1, NextSessionPlace DEF ServerHandled, Pcs
    <3>2. CASE ~NextSession
      BY <3>2 DEF ServerHandled, ProxyInv, ProxyTypeOK, Pcs
    <3> QED
      BY <3>1, <3>2
  <2> QED
    BY <2>1, <2>2 DEF ServerHandled, ProxyInv, ProxyTypeOK
<1>2. SessionsSpareListener'
  BY DEF ServerHandled, ProxyInv, SessionsSpareListener
<1>3. CASE pc' = "crashed"
  BY <1>1, <1>2, <1>3
     DEF ServerHandled, ProxyInv, ListenerNeverClosed, WatchedAreClients,
         AnswerIsReadNext, AcceptHasConnection, RunningHasDescriptor
<1>4. CASE pc' # "crashed"
  <2>1. NextSession /\ pc' \in {"client", "select"}
    BY <1>4, NextSessionPlace DEF ServerHandled
  <2>2. WatchedAreClients'
    BY <2>1 DEF ServerHandled, ProxyInv, WatchedAreClients, node
  <2>3. AnswerIsReadNext' /\ AcceptHasConnection'
    BY <2>1 DEF ServerHandled, AnswerIsReadNext, AcceptHasConnection
  <2>4. RunningHasDescriptor'
    BY DEF ServerHandled, ProxyInv, RunningHasDescriptor, TableFull
  <2> QED
    BY <1>1, <1>2, <2>2, <2>3, <2>4 DEF ServerHandled, ProxyInv, ListenerNeverClosed
<1> QED
  BY <1>3, <1>4

(* select leaves a subset of what was watched.                             *)
LEMMA SelectInv == ASSUME ProxyInv, Select PROVE ProxyInv'
<1>1. PICK R \in SUBSET ready :
        /\ \A f \in R : Readable(f)
        /\ R # {} /\ ready' = R
        /\ pc' = IF ListenFd \in R THEN "accept" ELSE "client"
        /\ cur' = Len(nodes)
  BY DEF Select
<1>2. /\ pc = "select"
      /\ UNCHANGED <<sock, nodes, backlog, inbox, sent, peer, replies>>
      /\ UNCHANGED bitrateVars
  BY DEF Select, envVars
<1>3. BitrateInv' /\ BitrateTypeOK'
  BY <1>2, BitrateStutterInv DEF ProxyInv, BitrateInv
<1>4. Len(nodes) \in Nat /\ DOMAIN nodes = 1 .. Len(nodes)
  BY DEF ProxyInv, ProxyTypeOK
<1>5. pc' = "accept" => backlog # <<>>
  <2> SUFFICES ASSUME ListenFd \in R PROVE backlog # <<>>
    BY <1>1
  <2>1. Readable(ListenFd) /\ sock[ListenFd] = Listener
    BY <1>1 DEF ProxyInv, ListenerNeverClosed
  <2>2. ~Answered(ListenFd)
    BY <2>1 DEF Answered, Listener
  <2> QED
    BY <2>1, <2>2 DEF Readable
<1>6. pc' = "client" => Len(nodes) # 0
  <2> SUFFICES ASSUME ListenFd \notin R PROVE Len(nodes) # 0
    BY <1>1
  <2>1. PICK f \in R : f # ListenFd
    BY <1>1
  <2>2. \E i \in DOMAIN nodes : f = nodes[i].cfd
    BY <1>2, <2>1 DEF ProxyInv, WatchedAreClients
  <2> QED
    BY <1>4, <2>2
<1>7. ProxyTypeOK'
  BY <1>1, <1>2, <1>3, <1>4, <1>6 DEF ProxyInv, ProxyTypeOK, Pcs
<1>8. WatchedAreClients'
  BY <1>1, <1>2 DEF ProxyInv, WatchedAreClients
<1>9. AnswerIsReadNext'
  BY <1>2 DEF ProxyInv, AnswerIsReadNext, Answered
<1> QED
  BY <1>1, <1>2, <1>3, <1>5, <1>7, <1>8, <1>9
     DEF ProxyInv, ListenerNeverClosed, SessionsSpareListener, AcceptHasConnection,
         RunningHasDescriptor, TableFull

(* accept's descriptor was free, so it is not the listener's.              *)
LEMMA AcceptInv == ASSUME ProxyInv, Accept PROVE ProxyInv'
<1> DEFINE f == Lowest(FreeFds(sock))
           s == [sock EXCEPT ![f] = ClientSock(Head(backlog))]
<1>1. /\ pc = "accept" /\ backlog \in Seq(Conn) /\ backlog # <<>>
      /\ sock \in [Fd -> Sock] /\ sock[ListenFd] = Listener
      /\ nodes \in Seq(Node) /\ ready \subseteq Fd
      /\ FreeFds(sock) # {}
  BY DEF Accept, ProxyInv, ProxyTypeOK, AcceptHasConnection, ListenerNeverClosed,
         RunningHasDescriptor, TableFull
<1>2. f \in Fd /\ sock[f] = Free
  <2>1. FreeFds(sock) \in SUBSET Nat
    BY BitrateAssumption DEF FreeFds
  <2>2. f \in FreeFds(sock)
    BY <1>1, <2>1, LowestIsMember
  <2> QED
    BY <2>2 DEF FreeFds
<1>3. f # ListenFd
  BY <1>1, <1>2, SockKinds
<1>4. /\ sock' = s /\ backlog' = Tail(backlog)
      /\ UNCHANGED <<inbox, sent, peer, replies>> /\ UNCHANGED bitrateVars
      /\ IF TableFull(s)
         THEN pc' = "crashed" /\ UNCHANGED <<cur, ready, nodes>>
         ELSE /\ ready' = ready \cup {f}
              /\ nodes' = Append(nodes, NewSession(f))
              /\ cur' = Len(nodes) + 1
              /\ pc' = "client"
  BY DEF Accept, Crash
<1> HIDE DEF f
<1>5. Head(backlog) \in Conn /\ backlog' \in Seq(Conn)
  BY <1>1, <1>4
<1>6. /\ sock' \in [Fd -> Sock] /\ sock'[ListenFd] = Listener
      /\ sock'[f] = ClientSock(Head(backlog))
      /\ \A g \in Fd : g # f => sock'[g] = sock[g]
  BY <1>1, <1>2, <1>3, <1>4, <1>5, SockKinds, ProxyAssumption
<1>7. BitrateInv' /\ BitrateTypeOK'
  BY <1>4, BitrateStutterInv DEF ProxyInv, BitrateInv
<1>8. \A g \in Fd : ~Answered(g)'
  <2>1. sock'[f].type # "origin"
    BY <1>6 DEF ClientSock
  <2> QED
    BY <1>1, <1>6, <2>1 DEF ProxyInv, AnswerIsReadNext, Answered
<1>9. CASE TableFull(s)
  BY <1>4, <1>5, <1>6, <1>7, <1>9
     DEF ProxyInv, ProxyTypeOK, Pcs, ListenerNeverClosed, SessionsSpareListener,
         RunningHasDescriptor, AcceptHasConnection, WatchedAreClients, AnswerIsReadNext
<1>10. CASE ~TableFull(s)
  <2> DEFINE n == NewSession(f)
  <2>1. n \in Node /\ n.cfd = f /\ n.sfd = -1
    BY <1>2 DEF NewSession, Node
  <2>2. -1 # ListenFd
    BY ProxyAssumption
  <2> HIDE DEF n
  <2>3. /\ nodes' = Append(nodes, n) /\ ready' = ready \cup {f}
        /\ cur' = Len(nodes) + 1 /\ pc' = "client" /\ ~TableFull(sock')
    BY <1>4, <1>10 DEF n
  <2>4. /\ nodes' \in Seq(Node) /\ Len(nodes') = Len(nodes) + 1
        /\ Len(nodes) \in Nat
        /\ DOMAIN nodes' = DOMAIN nodes \cup {Len(nodes) + 1}
        /\ nodes'[Len(nodes) + 1] = n
        /\ \A i \in DOMAIN nodes : nodes'[i] = nodes[i]
    BY <1>1, <2>1, <2>3
  <2>5. ProxyTypeOK'
    <3>1. ProxyTypeOK
      BY DEF ProxyInv
    <3>2. pc' \in Pcs /\ nodes' \in Seq(Node) /\ cur' \in 0 .. Len(nodes') /\ cur' # 0
      BY <2>3, <2>4 DEF Pcs
    <3>3. ready' \subseteq Fd
      BY <1>2, <2>3, <3>1 DEF ProxyTypeOK
    <3> HIDE DEF n
    <3> QED
      BY <1>1, <1>4, <1>5, <1>6, <1>7, <2>3, <3>1, <3>2, <3>3 DEF ProxyTypeOK
  <2>6. SessionsSpareListener'
    BY <1>3, <2>1, <2>2, <2>4 DEF ProxyInv, SessionsSpareListener
  <2>7. WatchedAreClients'
    BY <1>1, <2>1, <2>3, <2>4 DEF ProxyInv, WatchedAreClients
  <2> QED
    BY <1>6, <1>7, <1>8, <2>3, <2>5, <2>6, <2>7
       DEF ProxyInv, ListenerNeverClosed, RunningHasDescriptor, AcceptHasConnection,
           AnswerIsReadNext
<1> QED
  BY <1>9, <1>10

(* Steps that leave the descriptors, the list and the adaptation alone.    *)
LEMMA SkipInv ==
  ASSUME ProxyInv, SkipClient \/ SkipServer \/ AcceptFails
  PROVE  ProxyInv'
<1>1. UNCHANGED <<ready, sock, nodes, envVars, bitrateVars>>
  BY DEF SkipClient, SkipServer, AcceptFails
<1>2. UNCHANGED <<ready, sock, nodes, backlog, inbox, sent, peer, replies>>
  BY <1>1 DEF envVars
<1>3. BitrateInv' /\ BitrateTypeOK'
  BY <1>1, BitrateStutterInv DEF ProxyInv, BitrateInv
<1>4. /\ pc' \in Pcs \ {"accept"} /\ cur' \in 0 .. Len(nodes)
      /\ pc' \in {"client", "server"} => cur' # 0
      /\ pc \notin {"crashed", "exited"}
      /\ pc = "server" => SkipServer
      /\ pc' = "server" => SkipClient
  <2>1. cur \in 0 .. Len(nodes) /\ (pc \in {"client", "server"} => cur # 0)
    BY DEF ProxyInv, ProxyTypeOK
  <2>2. CASE SkipClient
    BY <2>1, <2>2 DEF SkipClient, Pcs
  <2>3. CASE SkipServer
    BY <2>3, NextSessionPlace DEF SkipServer, Pcs, NextSession
  <2>4. CASE AcceptFails
    BY <2>1, <2>4 DEF AcceptFails, Pcs
  <2> QED
    BY <2>2, <2>3, <2>4
<1>5. ProxyTypeOK'
  BY <1>2, <1>3, <1>4 DEF ProxyInv, ProxyTypeOK
(* A session skipped has no answer waiting: its bit is not set.            *)
<1>6. CASE SkipServer
  <2>1. pc = "server" /\ Bit(node.sfd) \notin ready
    BY <1>6 DEF SkipServer
  <2>2. \A f \in Fd : ~Answered(f)
    <3> SUFFICES ASSUME NEW f \in Fd, Answered(f) PROVE FALSE
      OBVIOUS
    <3>1. f = node.sfd /\ f \in ready
      BY <2>1 DEF ProxyInv, AnswerIsReadNext, node
    <3>2. Bit(f) = f
      BY ProxyAssumption DEF Bit
    <3> QED
      BY <2>1, <3>1, <3>2
  <2>3. \A f \in ready : f # node.sfd
    <3> SUFFICES ASSUME node.sfd \in ready PROVE FALSE
      OBVIOUS
    <3>1. node.sfd \in Fd
      BY DEF ProxyInv, ProxyTypeOK
    <3>2. Bit(node.sfd) = node.sfd
      BY <3>1, ProxyAssumption DEF Bit
    <3> QED
      BY <2>1, <3>2
  <2>4. WatchedAreClients'
    BY <1>2, <2>1, <2>3 DEF ProxyInv, WatchedAreClients, node
  <2>5. AnswerIsReadNext'
    BY <1>2, <2>2 DEF AnswerIsReadNext, Answered
  <2> QED
    BY <1>2, <1>3, <1>4, <1>5, <2>1, <2>4, <2>5
       DEF ProxyInv, ListenerNeverClosed, SessionsSpareListener, AcceptHasConnection,
           RunningHasDescriptor, TableFull
<1>7. CASE SkipClient \/ AcceptFails
  <2>1. pc \in {"client", "accept"}
    BY <1>7 DEF SkipClient, AcceptFails
  <2>2. WatchedAreClients'
    BY <1>2, <2>1 DEF ProxyInv, WatchedAreClients
  <2>3. AnswerIsReadNext'
    BY <1>2, <2>1 DEF ProxyInv, AnswerIsReadNext, Answered
  <2> QED
    BY <1>2, <1>3, <1>4, <1>5, <2>1, <2>2, <2>3
       DEF ProxyInv, ListenerNeverClosed, SessionsSpareListener, AcceptHasConnection,
           RunningHasDescriptor, TableFull
<1> QED
  BY <1>6, <1>7

(* So do the clients' own steps, which only add to what they have sent.    *)
LEMMA ClientsInv == ASSUME ProxyInv, Clients PROVE ProxyInv'
<1>1. PICK c \in Conn : Connect(c) \/ Send(c) \/ SendRest(c) \/ Leave(c)
  BY DEF Clients
<1>2. UNCHANGED procVars /\ UNCHANGED <<replies, bitrateVars>>
  BY <1>1 DEF Connect, Send, SendRest, Leave
<1>3. UNCHANGED <<pc, cur, ready, sock, nodes, replies>>
  BY <1>2 DEF procVars
<1>4. BitrateInv' /\ BitrateTypeOK'
  BY <1>2, BitrateStutterInv DEF ProxyInv, BitrateInv
<1>5. /\ backlog' \in Seq(Conn) /\ inbox' \in [Conn -> Seq(Request)]
      /\ sent' \in [Conn -> 0 .. MaxSent]
      /\ peer' \in [Conn -> {"new", "open", "fin", "rst"}]
      /\ backlog # <<>> => backlog' # <<>>
  <2>0. /\ backlog \in Seq(Conn) /\ inbox \in [Conn -> Seq(Request)]
        /\ sent \in [Conn -> 0 .. MaxSent] /\ MaxSent \in Nat
        /\ peer \in [Conn -> {"new", "open", "fin", "rst"}]
    BY ProxyAssumption DEF ProxyInv, ProxyTypeOK
  <2>1. CASE Connect(c)
    BY <2>0, <2>1 DEF Connect
  <2>2. CASE Send(c)
    <3>1. PICK k \in Kinds, w \in Arrives : \E r \in (IF k = "chunk" THEN ReqRates ELSE {100}) :
            inbox' = [inbox EXCEPT ![c] =
                        Append(@, [from |-> c, kind |-> k, rate |-> r, whole |-> w])]
      BY <2>2 DEF Send
    <3>2. PICK r \in (IF k = "chunk" THEN ReqRates ELSE {100}) :
            inbox' = [inbox EXCEPT ![c] =
                        Append(@, [from |-> c, kind |-> k, rate |-> r, whole |-> w])]
      BY <3>1
    <3>0. w \in BOOLEAN
      BY DEF Arrives
    <3>3. k \in {"chunk", "page", "bad"} /\ r \in Rates
      BY ProxyAssumption DEF Kinds, Rates
    <3>4. [from |-> c, kind |-> k, rate |-> r, whole |-> w] \in Request
      BY <3>0, <3>3 DEF Request
    <3>5. inbox' \in [Conn -> Seq(Request)]
      BY <2>0, <3>2, <3>4
    <3>6. /\ sent[c] < MaxSent /\ sent' = [sent EXCEPT ![c] = @ + 1]
          /\ UNCHANGED <<backlog, peer>>
      BY <2>2 DEF Send
    <3>7. sent[c] + 1 \in 0 .. MaxSent
      BY <2>0, <3>6
    <3> QED
      BY <2>0, <3>5, <3>6, <3>7
  <2>3. CASE SendRest(c)
    <3>1. inbox[c] \in Seq(Request) /\ inbox[c] # <<>>
      BY <2>0, <2>3 DEF SendRest
    <3>2. Head(inbox[c]) \in Request /\ Tail(inbox[c]) \in Seq(Request)
      BY <3>1
    <3>3. [Head(inbox[c]) EXCEPT !.whole = TRUE] \in Request
      BY <3>2 DEF Request
    <3>4. <<[Head(inbox[c]) EXCEPT !.whole = TRUE]>> \o Tail(inbox[c]) \in Seq(Request)
      BY <3>2, <3>3
    <3>5. inbox' \in [Conn -> Seq(Request)]
      BY <2>0, <2>3, <3>4 DEF SendRest
    <3> QED
      BY <2>0, <2>3, <3>5 DEF SendRest
  <2>4. CASE Leave(c)
    BY <2>0, <2>4 DEF Leave
  <2> QED
    BY <1>1, <2>1, <2>2, <2>3, <2>4
<1>6. ProxyTypeOK'
  BY <1>3, <1>4, <1>5 DEF ProxyInv, ProxyTypeOK
<1> QED
  BY <1>3, <1>4, <1>5, <1>6
     DEF ProxyInv, ListenerNeverClosed, SessionsSpareListener, AcceptHasConnection,
         RunningHasDescriptor, TableFull, WatchedAreClients, AnswerIsReadNext, Answered

(* A step of something else.                                               *)
LEMMA ProxyStutterInv == ASSUME ProxyInv, UNCHANGED proxyVars PROVE ProxyInv'
<1>1. UNCHANGED <<pc, cur, ready, sock, nodes>>
  BY DEF proxyVars, procVars
<1>2. UNCHANGED <<backlog, inbox, sent, peer, replies>>
  BY DEF proxyVars, envVars
<1>3. BitrateInv' /\ BitrateTypeOK'
  BY BitrateStutterInv DEF ProxyInv, BitrateInv, proxyVars
<1> QED
  BY <1>1, <1>2, <1>3
     DEF ProxyInv, ProxyTypeOK, ListenerNeverClosed, SessionsSpareListener,
         AcceptHasConnection, RunningHasDescriptor, TableFull, WatchedAreClients,
         AnswerIsReadNext, Answered

(* main before its loop: the listener alone is open and watched.           *)
LEMMA ProxyInitInv == ASSUME ProxyInit PROVE ProxyInv
<1>1. /\ sock \in [Fd -> Sock] /\ sock[ListenFd] = Listener
      /\ \A f \in Fd : f # ListenFd => sock[f] = Free
      /\ \A f \in Fd : sock[f] \in {Free, Listener}
  BY SockKinds, ProxyAssumption DEF ProxyInit
<1>2. ~TableFull(sock)
  BY <1>1, ProxyAssumption DEF TableFull, FreeFds
<1>3. \A f \in Fd : ~Answered(f)
  BY <1>1 DEF Answered, Free, Listener
<1>4. BitrateInv /\ BitrateTypeOK
  BY BitrateInitInv DEF ProxyInit, BitrateInv
<1>5. ProxyTypeOK
  BY <1>1, <1>4, ProxyAssumption DEF ProxyInit, ProxyTypeOK, Pcs
<1> QED
  BY <1>1, <1>2, <1>3, <1>4, <1>5
     DEF ProxyInit, ProxyInv, ListenerNeverClosed, SessionsSpareListener,
         AcceptHasConnection, RunningHasDescriptor, WatchedAreClients, AnswerIsReadNext

-----------------------------------------------------------------------------
(* For every descriptor table, number of clients, rates asked for and set  *)
(* of faults, ProxyInv holds throughout: what main, handle_client_recv and *)
(* handle_server_recv rely on when they index, close and read by number.   *)
THEOREM ProxySafe == ProxySpec => []ProxyInv
<1>1. ProxyInit => ProxyInv
  BY ProxyInitInv
<1>2. ProxyInv /\ [ProxyNext]_proxyVars => ProxyInv'
  <2> SUFFICES ASSUME ProxyInv, [ProxyNext]_proxyVars PROVE ProxyInv'
    OBVIOUS
  <2>1. CASE Select
    BY <2>1, SelectInv
  <2>2. CASE Accept
    BY <2>2, AcceptInv
  <2>3. CASE SkipClient \/ SkipServer \/ AcceptFails
    BY <2>3, SkipInv
  <2>4. CASE HandleClientRecv
    BY <2>4, HandleClientRecvIsHandled, ClientHandledInv
  <2>5. CASE HandleServerRecv
    BY <2>5, HandleServerRecvIsHandled, ServerHandledInv
  <2>6. CASE Clients
    BY <2>6, ClientsInv
  <2>7. CASE UNCHANGED proxyVars
    BY <2>7, ProxyStutterInv
  <2> QED
    BY <2>1, <2>2, <2>3, <2>4, <2>5, <2>6, <2>7 DEF ProxyNext, Loop
<1> QED
  BY <1>1, <1>2, PTL DEF ProxySpec

(* No sequence of requests, faults and reused numbers makes the proxy      *)
(* close its listening socket, although both handlers close by number.     *)
THEOREM ListenerSafe == ProxySpec => []ListenerNeverClosed
<1>1. ProxyInv => ListenerNeverClosed
  BY DEF ProxyInv
<1> QED
  BY <1>1, ProxySafe, PTL

(* select is never given an origin connection with an answer to wait for,  *)
(* so a slow origin holds up the whole loop inside handle_server_recv.     *)
THEOREM OriginsUnwatched == ProxySpec => []OriginsNeverSelected
<1>1. ProxyInv => OriginsNeverSelected
  <2> SUFFICES ASSUME ProxyInv, pc \in {"select", "accept"}
               PROVE  /\ ready \subseteq {ListenFd} \cup {nodes[i].cfd : i \in DOMAIN nodes}
                      /\ \A f \in ready : ~Answered(f)
    BY DEF OriginsNeverSelected
  <2>1. ready \subseteq Fd
    BY DEF ProxyInv, ProxyTypeOK
  <2> QED
    BY <2>1 DEF ProxyInv, WatchedAreClients, AnswerIsReadNext
<1> QED
  BY <1>1, ProxySafe, PTL

(* The adaptation state stays consistent inside the running proxy: the     *)
(* handlers use create_tracker, update_bitrate and update_throughput in    *)
(* orders their own module knows nothing of.                               *)
THEOREM TrackersConsistent == ProxySpec => []BitrateInv
<1>1. ProxyInv => BitrateInv
  BY DEF ProxyInv
<1> QED
  BY <1>1, ProxySafe, PTL

(* Descriptor table, set of watched numbers, sessions and clients stay of  *)
(* their types, however numbers are closed, reused and indexed with.       *)
THEOREM ProxyTyped == ProxySpec => []ProxyTypeOK
<1>1. ProxyInv => ProxyTypeOK
  BY DEF ProxyInv
<1> QED
  BY <1>1, ProxySafe, PTL
=============================================================================
