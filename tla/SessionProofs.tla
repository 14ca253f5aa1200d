---------------------------- MODULE SessionProofs ----------------------------
(***************************************************************************)
(* Proofs about Proxy: what sessions may rely on. Descriptors are reused,  *)
(* and a session remembers the numbers of its two for ever; these are the  *)
(* arguments why it does no harm to the sessions after it.                 *)
(***************************************************************************)
EXTENDS ProxyProofs, FiniteSetTheorems

Running == pc \notin {"crashed", "exited"}

(* What the fields of a descriptor say.                                    *)
LEMMA SocketFields ==
  /\ Free.type = "free" /\ Listener.type = "listen"
  /\ \A c : ClientSock(c).type = "client" /\ ClientSock(c).conn = c
  /\ \A req, w : /\ OriginSock(req, w).type = "origin"
                 /\ OriginSock(req, w).req = req /\ OriginSock(req, w).whole = w
BY DEF Free, Listener, ClientSock, OriginSock

LEMMA ClientSocket ==
  ASSUME NEW s \in Sock, s.type = "client"
  PROVE  \E c \in Conn : s = ClientSock(c)
<1>1. s # Free /\ s # Listener /\ \A req, w : s # OriginSock(req, w)
  BY SocketFields
<1> QED
  BY <1>1 DEF Sock

LEMMA OriginSocket ==
  ASSUME NEW s \in Sock, s.type = "origin"
  PROVE  \E req \in Request \cup {NoReq}, w \in BOOLEAN : s = OriginSock(req, w)
<1>1. s # Free /\ s # Listener /\ \A c : s # ClientSock(c)
  BY SocketFields
<1> QED
  BY <1>1 DEF Sock

(* A request is read from a client's socket only, and it is the client's.  *)
LEMMA RequestRead ==
  ASSUME ProxyInv, NEW fd \in Fd, NEW x \in Request, Yields(fd, x)
  PROVE  \E c \in Conn : /\ sock[fd] = ClientSock(c)
                         /\ inbox[c] # <<>> /\ x = Head(inbox[c])
<1>1. x # Err /\ x # Eof
  BY DEF Request, Err, Eof
<1>2. sock[fd] \in Sock
  BY DEF ProxyInv, ProxyTypeOK
<1>3. sock[fd].type = "client"
  BY <1>1 DEF Yields
<1>4. PICK c \in Conn : sock[fd] = ClientSock(c)
  BY <1>2, <1>3, ClientSocket
<1>5. fd # -1
  BY ProxyAssumption
<1> QED
  BY <1>1, <1>3, <1>4, <1>5, SocketFields DEF Yields

LEMMA RequestIsNoItem == \A x \in Request : x # NoReq /\ x # Err /\ x # Eof
BY DEF Request, NoReq, Err, Eof

-----------------------------------------------------------------------------
(***************************************************************************)
(* The ways through the handlers, as to descriptors, sessions and set.     *)
(***************************************************************************)

(* The read fails.                                                         *)
ClientGone ==
  /\ Yields(node.cfd, Err)
  /\ sock' = Close(sock, node.cfd)
  /\ pc' = "server" /\ UNCHANGED <<ready, nodes, inbox>>

(* The origin refuses; or it is connected, to no purpose or with what was  *)
(* read written to it; or that is the end of the process.                  *)
Refused(x) ==
  /\ "refused" \in Faults
  /\ sock' = OldClosed
  /\ pc' = "server" /\ UNCHANGED <<ready, nodes>>

ConnectedTo(x) ==
  \E req \in Request \cup {NoReq}, w \in BOOLEAN :
    /\ sock' = Connected(req, w)
    /\ nodes' = [nodes EXCEPT ![cur].sfd = NewFd]
    /\ pc' = "server"
    /\ ~TableFull(sock')
    /\ \/ req = NoReq /\ ready' = ready
       \/ req = x /\ x \in Request /\ ready' = ready \cup {NewFd}

DiesConnected ==
  /\ pc' = "crashed"
  /\ sock' = Connected(NoReq, FALSE)
  /\ UNCHANGED ready

LEMMA ClientWays ==
  ASSUME ProxyInv, HandleClientRecv
  PROVE  \E x \in Items :
           /\ ClientRead(x)
           /\ ClientGone \/ Refused(x) \/ ConnectedTo(x) \/ DiesConnected
<1>1. CASE ClientReadFails
  <2>1. Err \notin Request
    BY RequestIsNoItem
  <2> QED
    BY <1>1, <2>1, ReadItems DEF ClientReadFails, ClientGone, ClientRead, Consume
<1>2. CASE ConnectFails
  BY <1>2, ReadItems DEF ConnectFails, Refused
<1>3. CASE ConnectExhaustsTable
  BY <1>3, ReadItems DEF ConnectExhaustsTable, DiesConnected
<1>4. CASE RejectRequest
  BY <1>4, ReadItems DEF RejectRequest, ConnectedTo, Connects
<1>5. CASE EofRequest
  BY <1>5, ReadItems DEF EofRequest, ConnectedTo, Connects
<1>6. CASE EofRequestCrashes
  BY <1>6, ReadItems DEF EofRequestCrashes, DiesConnected
<1>7. CASE ForwardPage
  <2>1. PICK x \in Request : ClientRead(x) /\ WriteRequest(x, x.whole)
    BY <1>7 DEF ForwardPage
  <2>2. x.whole \in BOOLEAN
    BY DEF Request
  <2> QED
    BY <2>1, <2>2, ReadItems DEF WriteRequest, ConnectedTo, Connects
<1>8. CASE ForwardChunk
  <2>1. PICK x \in Request : ClientRead(x) /\ \E w \in BOOLEAN : WriteRequest(x, w)
    BY <1>8 DEF ForwardChunk
  <2> QED
    BY <2>1, ReadItems DEF WriteRequest, ConnectedTo, Connects
<1> QED
  BY <1>1, <1>2, <1>3, <1>4, <1>5, <1>6, <1>7, <1>8 DEF HandleClientRecv

(* An answer is relayed, or something else that is taken for one, or the   *)
(* process ends.                                                           *)
Relayed ==
  /\ Answered(node.sfd) /\ Finish
  /\ \E whole \in BOOLEAN :
       Deliver(node.cfd, [to |-> sock[node.sfd].req, whole |-> whole])

Mistaken ==
  /\ node.sfd \in Fd
  /\ ready' = ready \ {node.cfd, node.sfd}
  /\ sock' = Close(sock, node.cfd)
  /\ NextSession /\ UNCHANGED <<nodes, backlog, sent, peer>>
  /\ \E x \in Request :
       /\ Yields(node.sfd, x) /\ Consume(node.sfd, x)
       /\ Deliver(node.cfd, [to |-> x, whole |-> TRUE])

DiesReading ==
  /\ pc' = "crashed"
  /\ UNCHANGED <<ready, sock, nodes, backlog, sent, peer, replies>>
  /\ \/ inbox' = inbox
     \/ \E x \in Items : /\ node.sfd \in Fd
                         /\ Yields(node.sfd, x) /\ Consume(node.sfd, x)

LEMMA ServerWays ==
  ASSUME ProxyInv, HandleServerRecv
  PROVE  ServerRead /\ (Relayed \/ Mistaken \/ DiesReading)
<1>1. CASE RelayPage
  BY <1>1 DEF RelayPage, Relayed
<1>2. CASE RelayChunk
  BY <1>2 DEF RelayChunk, Relayed
<1>3. CASE RelayChunkCrashes
  BY <1>3 DEF RelayChunkCrashes, DiesReading, Crash, envVars
<1>4. ASSUME pc = "server" PROVE node.sfd \in Fd \cup {-1}
  BY <1>4, CurrentSession
<1>5. CASE NoResponse
  BY <1>4, <1>5 DEF NoResponse, DiesReading, Crash, ServerRead
<1>6. CASE RelayForeign
  BY <1>4, <1>6 DEF RelayForeign, Mistaken, Consume, ServerRead
<1> QED
  BY <1>1, <1>2, <1>3, <1>5, <1>6 DEF HandleServerRecv

-----------------------------------------------------------------------------
(***************************************************************************)
(* One answer: a connection is in one place at a time.                     *)
(***************************************************************************)

Waits(c) == \E i \in DOMAIN backlog : backlog[i] = c
OnSocket(c) == \E f \in Fd : sock[f] = ClientSock(c)

OnePlace ==
  /\ \A i, j \in DOMAIN backlog : backlog[i] = backlog[j] => i = j
  /\ \A c \in Conn : \A f, g \in Fd :
       sock[f] = ClientSock(c) /\ sock[g] = ClientSock(c) => f = g
  /\ \A c \in Conn : ~(Waits(c) /\ OnSocket(c))

(* A connection that has not been made, or has had its answer, is nowhere. *)
NowhereElse ==
  \A c \in Conn : peer[c] = "new" \/ replies[c] # <<>> => ~Waits(c) /\ ~OnSocket(c)

NewUnanswered == \A c \in Conn : peer[c] = "new" => replies[c] = <<>>

PlaceInv == OnePlace /\ NowhereElse /\ NewUnanswered /\ AtMostOneReply

(* Closing and connecting to the origin put no client on a descriptor.     *)
LEMMA NoClientAdded ==
  ASSUME PlaceInv, UNCHANGED <<backlog, peer, replies>>,
         \A f \in Fd : \A c \in Conn : sock'[f] = ClientSock(c) => sock[f] = ClientSock(c)
  PROVE  PlaceInv'
BY DEF PlaceInv, OnePlace, NowhereElse, NewUnanswered, AtMostOneReply, Waits, OnSocket

LEMMA ClosedClients ==
  ASSUME NEW s \in [Fd -> Sock], NEW fd \in Fd \cup {-1}
  PROVE  \A f \in Fd, c \in Conn : Close(s, fd)[f] = ClientSock(c) => s[f] = ClientSock(c)
BY CloseShape, SockKinds

LEMMA PlacesKept ==
  ASSUME ProxyInv, PlaceInv, HandleClientRecv
  PROVE  PlaceInv'
<1>1. PICK x \in Items :
        /\ ClientRead(x)
        /\ ClientGone \/ Refused(x) \/ ConnectedTo(x) \/ DiesConnected
  BY ClientWays
<1>2. pc = "client" /\ UNCHANGED <<backlog, peer, replies>>
  BY <1>1 DEF ClientRead
<1>3. node.cfd \in Fd /\ node.sfd \in Fd \cup {-1} /\ sock \in [Fd -> Sock]
  BY <1>2, CurrentSession DEF ProxyInv, ProxyTypeOK
<1>4. \A f \in Fd, c \in Conn : sock'[f] = ClientSock(c) => sock[f] = ClientSock(c)
  <2>1. CASE ClientGone
    BY <1>3, <2>1, ClosedClients DEF ClientGone
  <2>2. \A f \in Fd, c \in Conn : OldClosed[f] = ClientSock(c) => sock[f] = ClientSock(c)
    BY <1>3, ClosedClients DEF OldClosed
  <2>3. CASE Refused(x)
    BY <2>2, <2>3 DEF Refused
  <2>4. ASSUME NEW req \in Request \cup {NoReq}, NEW w \in BOOLEAN, sock' = Connected(req, w)
        PROVE  \A f \in Fd, c \in Conn : sock'[f] = ClientSock(c) => sock[f] = ClientSock(c)
    <3>1. /\ sock'[NewFd] = OriginSock(req, w)
          /\ \A f \in Fd : f # NewFd => sock'[f] = OldClosed[f]
      BY <1>2, <2>4, ConnectedShape
    <3>2. \A c : OriginSock(req, w) # ClientSock(c)
      BY SocketFields
    <3> QED
      BY <2>2, <3>1, <3>2
  <2>5. CASE ConnectedTo(x) \/ DiesConnected
    <3>1. \E req \in Request \cup {NoReq}, w \in BOOLEAN : sock' = Connected(req, w)
      BY <2>5 DEF ConnectedTo, DiesConnected
    <3> QED
      BY <2>4, <3>1
  <2> QED
    BY <1>1, <2>1, <2>3, <2>5
<1> QED
  BY <1>2, <1>4, NoClientAdded

(* The client that is written to is the one whose socket is closed.        *)
LEMMA AnsweredOnce ==
  ASSUME ProxyInv, PlaceInv, UNCHANGED <<backlog, peer>>,
         NEW fd \in Fd, NEW reply \in Reply, Deliver(fd, reply),
         sock'[fd] = Free,
         \A f \in Fd : \A c \in Conn : sock'[f] = ClientSock(c) => sock[f] = ClientSock(c)
  PROVE  PlaceInv'
<1>1. sock[fd] \in Sock /\ replies \in [Conn -> Seq(Reply)]
  BY DEF ProxyInv, ProxyTypeOK
<1>2. CASE replies' = replies
  BY <1>2, NoClientAdded
<1>3. CASE replies' # replies
  <2>1. sock[fd].type = "client"
    BY <1>3 DEF Deliver
  <2>2. PICK c \in Conn : sock[fd] = ClientSock(c)
    BY <1>1, <2>1, ClientSocket
  <2>3. replies' = [replies EXCEPT ![c] = Append(@, reply)]
    <3>1. sock[fd].conn = c
      BY <2>2, SocketFields
    <3> QED
      BY <1>3, <3>1 DEF Deliver
  <2>4. peer[c] # "new" /\ replies[c] = <<>> /\ ~Waits(c)
    BY <2>2 DEF PlaceInv, OnePlace, NowhereElse, OnSocket
  <2>5. /\ replies'[c] # <<>> /\ Len(replies'[c]) = 1
        /\ \A d \in Conn : d # c => replies'[d] = replies[d]
    <3>1. replies'[c] = Append(<<>>, reply) /\ <<>> \in Seq(Reply)
      BY <1>1, <2>3, <2>4
    <3>2. /\ Append(<<>>, reply) # <<>> /\ Len(Append(<<>>, reply)) = 1
      BY <3>1
    <3> QED
      BY <1>1, <2>3, <3>1, <3>2
  <2>6. ~OnSocket(c)'
    <3> SUFFICES ASSUME NEW f \in Fd, sock'[f] = ClientSock(c) PROVE FALSE
      BY DEF OnSocket
    <3>1. sock[f] = ClientSock(c)
      OBVIOUS
    <3>2. f = fd
      BY <2>2, <3>1 DEF PlaceInv, OnePlace
    <3> QED
      BY <3>2, SockKinds
  <2>7. OnePlace'
    BY DEF PlaceInv, OnePlace, Waits, OnSocket
  <2>8. NowhereElse'
    BY <2>4, <2>5, <2>6 DEF PlaceInv, NowhereElse, Waits, OnSocket
  <2>9. NewUnanswered'
    BY <2>4, <2>5 DEF PlaceInv, NewUnanswered
  <2>10. AtMostOneReply'
    <3> SUFFICES ASSUME NEW d \in Conn PROVE Len(replies'[d]) <= 1
      BY DEF AtMostOneReply
    <3>1. CASE d = c
      <4>1. Len(replies'[c]) = 1
        BY <2>5
      <4> QED
        BY <3>1, <4>1
    <3>2. CASE d # c
      <4>1. replies'[d] = replies[d]
        BY <2>5, <3>2
      <4>2. Len(replies[d]) <= 1
        BY DEF PlaceInv, AtMostOneReply
      <4> QED
        BY <4>1, <4>2
    <3> QED
      BY <3>1, <3>2
  <2> QED
    BY <2>7, <2>8, <2>9, <2>10 DEF PlaceInv
<1> QED
  BY <1>2, <1>3

(* The origin's descriptor once its answer has been read.                  *)
LEMMA DrainedShape ==
  ASSUME ProxyInv, node.sfd \in Fd
  PROVE  /\ Drained \in [Fd -> Sock]
         /\ Drained[node.sfd].type = "origin" /\ Drained[node.sfd].req = NoReq
         /\ \A f \in Fd : f # node.sfd => Drained[f] = sock[f]
<1> DEFINE d == OriginSock(NoReq, FALSE)
<1>1. d \in Sock
  BY SockKinds
<1>2. d.type = "origin" /\ d.req = NoReq
  BY DEF OriginSock
<1>3. sock \in [Fd -> Sock]
  BY DEF ProxyInv, ProxyTypeOK
<1>4. Drained = [sock EXCEPT ![node.sfd] = d]
  BY DEF Drained
<1> HIDE DEF d
<1> QED
  BY <1>1, <1>2, <1>3, <1>4

LEMMA PlacesServed ==
  ASSUME ProxyInv, PlaceInv, HandleServerRecv
  PROVE  PlaceInv'
<1>1. pc = "server"
  BY ServerWays DEF ServerRead
<1>2. /\ node.cfd \in Fd /\ node.sfd \in Fd \cup {-1}
      /\ sock \in [Fd -> Sock]
  BY <1>1, CurrentSession DEF ProxyInv, ProxyTypeOK
<1>3. CASE Relayed
  <2>1. PICK whole \in BOOLEAN :
          Deliver(node.cfd, [to |-> sock[node.sfd].req, whole |-> whole])
    BY <1>3 DEF Relayed
  <2>2. node.sfd \in Fd /\ sock[node.sfd].type = "origin" /\ sock[node.sfd].req # NoReq
    BY <1>3 DEF Relayed, Answered
  <2>3. sock[node.sfd].req \in Request
    BY <1>2, <2>2, OriginSocket, SocketFields
  <2>4. [to |-> sock[node.sfd].req, whole |-> whole] \in Reply
    BY <2>3 DEF Reply
  <2>5. sock' = Close(Drained, node.cfd) /\ UNCHANGED <<backlog, peer>>
    BY <1>3 DEF Relayed, Finish, FinishFrame
  <2>6. /\ Drained \in [Fd -> Sock]
        /\ \A f \in Fd, c \in Conn : Drained[f] = ClientSock(c) => sock[f] = ClientSock(c)
    <3>1. Drained[node.sfd].type = "origin"
      BY <2>2, DrainedShape
    <3>2. \A c \in Conn : Drained[node.sfd] # ClientSock(c)
      BY <3>1, SocketFields
    <3> QED
      BY <2>2, <3>2, DrainedShape
  <2>7. /\ sock'[node.cfd] = Free
        /\ \A f \in Fd, c \in Conn : sock'[f] = ClientSock(c) => sock[f] = ClientSock(c)
    BY <1>2, <2>5, <2>6, CloseShape, ClosedClients
  <2> QED
    BY <1>2, <2>1, <2>4, <2>5, <2>7, AnsweredOnce
<1>4. CASE Mistaken
  <2>1. PICK x \in Request : Deliver(node.cfd, [to |-> x, whole |-> TRUE])
    BY <1>4 DEF Mistaken
  <2>2. [to |-> x, whole |-> TRUE] \in Reply
    BY DEF Reply
  <2>3. sock' = Close(sock, node.cfd) /\ UNCHANGED <<backlog, peer>>
    BY <1>4 DEF Mistaken
  <2>4. /\ sock'[node.cfd] = Free
        /\ \A f \in Fd, c \in Conn : sock'[f] = ClientSock(c) => sock[f] = ClientSock(c)
    BY <1>2, <2>3, CloseShape, ClosedClients
  <2> QED
    BY <1>2, <2>1, <2>2, <2>3, <2>4, AnsweredOnce
<1>5. CASE DiesReading
  BY <1>5, NoClientAdded DEF DiesReading
<1> QED
  BY <1>3, <1>4, <1>5, ServerWays

(* accept hands the oldest waiting connection the lowest free number.      *)
LEMMA AcceptWays ==
  ASSUME ProxyInv, Accept
  PROVE  \E f \in Fd :
           /\ f = Lowest(FreeFds(sock)) /\ sock[f] = Free /\ f # ListenFd
           /\ backlog \in Seq(Conn) /\ backlog # <<>> /\ backlog' = Tail(backlog)
           /\ Head(backlog) \in Conn
           /\ sock'[f] = ClientSock(Head(backlog))
           /\ \A g \in Fd : g # f => sock'[g] = sock[g]
           /\ pc = "accept" /\ UNCHANGED <<inbox, sent, peer, replies>>
           /\ UNCHANGED bitrateVars
           /\ \/ pc' = "crashed" /\ TableFull(sock') /\ UNCHANGED <<ready, nodes>>
              \/ /\ ready' = ready \cup {f}
                 /\ nodes' = Append(nodes, NewSession(f))
                 /\ cur' = Len(nodes) + 1
                 /\ pc' = "client" /\ ~TableFull(sock')
<1> DEFINE f == Lowest(FreeFds(sock))
           s == [sock EXCEPT ![f] = ClientSock(Head(backlog))]
<1>1. /\ pc = "accept" /\ backlog \in Seq(Conn) /\ backlog # <<>>
      /\ sock \in [Fd -> Sock] /\ sock[ListenFd] = Listener
      /\ FreeFds(sock) # {}
  BY DEF Accept, ProxyInv, ProxyTypeOK, AcceptHasConnection, ListenerNeverClosed,
         RunningHasDescriptor, TableFull
<1>2. f \in Fd /\ sock[f] = Free
  <2>1. FreeFds(sock) \in SUBSET Nat
    BY BitrateAssumption DEF FreeFds
  <2>2. f \in FreeFds(sock)
    BY <1>1, <2>1, LowestIsMember
  <2> QED
    BY <2>2 DEF FreeFds
<1>3. f # ListenFd
  BY <1>1, <1>2, SockKinds
<1>4. /\ sock' = s /\ backlog' = Tail(backlog)
      /\ UNCHANGED <<inbox, sent, peer, replies>> /\ UNCHANGED bitrateVars
      /\ IF TableFull(s)
         THEN pc' = "crashed" /\ UNCHANGED <<cur, ready, nodes>>
         ELSE /\ ready' = ready \cup {f}
              /\ nodes' = Append(nodes, NewSession(f))
              /\ cur' = Len(nodes) + 1
              /\ pc' = "client"
  BY DEF Accept, Crash
<1> HIDE DEF f
<1>5. /\ sock'[f] = ClientSock(Head(backlog)) /\ Head(backlog) \in Conn
      /\ \A g \in Fd : g # f => sock'[g] = sock[g]
  BY <1>1, <1>2, <1>4
<1>6. \/ pc' = "crashed" /\ TableFull(sock') /\ UNCHANGED <<ready, nodes>>
      \/ /\ ready' = ready \cup {f}
         /\ nodes' = Append(nodes, NewSession(f))
         /\ cur' = Len(nodes) + 1
         /\ pc' = "client" /\ ~TableFull(sock')
  BY <1>4
<1>7. f = Lowest(FreeFds(sock))
  BY DEF f
<1> QED
  BY <1>1, <1>2, <1>3, <1>4, <1>5, <1>6, <1>7

LEMMA PlacesAccepted ==
  ASSUME ProxyInv, PlaceInv, Accept
  PROVE  PlaceInv'
<1>1. PICK f \in Fd :
        /\ sock[f] = Free
        /\ backlog \in Seq(Conn) /\ backlog # <<>> /\ backlog' = Tail(backlog)
        /\ Head(backlog) \in Conn
        /\ sock'[f] = ClientSock(Head(backlog))
        /\ \A g \in Fd : g # f => sock'[g] = sock[g]
        /\ UNCHANGED <<peer, replies>>
  BY AcceptWays
<1> DEFINE h == Head(backlog)
<1>2. /\ DOMAIN backlog = 1 .. Len(backlog) /\ Len(backlog) \in Nat \ {0}
      /\ h = backlog[1] /\ 1 \in DOMAIN backlog
      /\ DOMAIN backlog' = 1 .. Len(backlog) - 1
      /\ \A i \in DOMAIN backlog' : backlog'[i] = backlog[i + 1] /\ i + 1 \in DOMAIN backlog
  BY <1>1
<1>3. \A c \in Conn : Waits(c)' => Waits(c) /\ c # h
  <2> SUFFICES ASSUME NEW c \in Conn, NEW i \in DOMAIN backlog', backlog'[i] = c
               PROVE  Waits(c) /\ c # h
    BY DEF Waits
  <2>1. backlog[i + 1] = c /\ i + 1 \in DOMAIN backlog /\ i + 1 # 1
    BY <1>2
  <2> QED
    BY <1>2, <2>1 DEF PlaceInv, OnePlace, Waits
<1>4. Waits(h) /\ ~OnSocket(h)
  BY <1>1, <1>2 DEF PlaceInv, OnePlace, Waits
<1>5. \A g \in Fd, c \in Conn : sock'[g] = ClientSock(c) =>
        \/ g = f /\ c = h
        \/ g # f /\ c # h /\ sock[g] = ClientSock(c)
  <2> SUFFICES ASSUME NEW g \in Fd, NEW c \in Conn, sock'[g] = ClientSock(c)
               PROVE  \/ g = f /\ c = h
                      \/ g # f /\ c # h /\ sock[g] = ClientSock(c)
    OBVIOUS
  <2>1. CASE g = f
    BY <1>1, <2>1, SocketFields
  <2>2. CASE g # f
    BY <1>1, <1>4, <2>2 DEF OnSocket
  <2> QED
    BY <2>1, <2>2
<1>6. \A c \in Conn : OnSocket(c)' => c = h \/ OnSocket(c)
  BY <1>5 DEF OnSocket
<1>7. OnePlace'
  <2>1. \A i, j \in DOMAIN backlog' : backlog'[i] = backlog'[j] => i = j
    <3> SUFFICES ASSUME NEW i \in DOMAIN backlog', NEW j \in DOMAIN backlog',
                        backlog'[i] = backlog'[j]
                 PROVE  i = j
      OBVIOUS
    <3>1. i + 1 = j + 1
      BY <1>2 DEF PlaceInv, OnePlace
    <3> QED
      BY <1>2, <3>1
  <2>2. \A c \in Conn : \A g, k \in Fd :
          sock'[g] = ClientSock(c) /\ sock'[k] = ClientSock(c) => g = k
    BY <1>5 DEF PlaceInv, OnePlace
  <2>3. \A c \in Conn : ~(Waits(c)' /\ OnSocket(c)')
    BY <1>3, <1>6 DEF PlaceInv, OnePlace
  <2> QED
    BY <2>1, <2>2, <2>3 DEF OnePlace, OnSocket, Waits
<1>8. NowhereElse'
  <2>1. peer[h] # "new" /\ replies[h] = <<>>
    BY <1>1, <1>4 DEF PlaceInv, NowhereElse
  <2>2. \A c \in Conn : peer'[c] = "new" \/ replies'[c] # <<>> => ~Waits(c)' /\ ~OnSocket(c)'
    BY <1>1, <1>3, <1>6, <2>1 DEF PlaceInv, NowhereElse
  <2> QED
    BY <2>2 DEF NowhereElse
<1> QED
  BY <1>1, <1>7, <1>8 DEF PlaceInv, NewUnanswered, AtMostOneReply

(* A connection is made once.                                              *)
LEMMA PlacesConnected ==
  ASSUME ProxyInv, PlaceInv, Clients
  PROVE  PlaceInv'
<1>1. PICK c \in Conn : Connect(c) \/ Send(c) \/ SendRest(c) \/ Leave(c)
  BY DEF Clients
<1>2. sock' = sock /\ replies' = replies
  BY <1>1 DEF Connect, Send, SendRest, Leave, procVars
<1>3. backlog \in Seq(Conn) /\ peer \in [Conn -> {"new", "open", "fin", "rst"}]
  BY DEF ProxyInv, ProxyTypeOK
<1>4. CASE Connect(c)
  <2>1. /\ peer[c] = "new" /\ backlog' = Append(backlog, c)
        /\ \A d \in Conn : peer'[d] = "new" => peer[d] = "new" /\ d # c
    BY <1>3, <1>4 DEF Connect
  <2>2. ~Waits(c) /\ ~OnSocket(c) /\ replies[c] = <<>>
    BY <2>1 DEF PlaceInv, NowhereElse, NewUnanswered
  <2>3. /\ Len(backlog) \in Nat
        /\ DOMAIN backlog = 1 .. Len(backlog)
        /\ DOMAIN backlog' = 1 .. Len(backlog) + 1
        /\ backlog'[Len(backlog) + 1] = c
        /\ \A i \in DOMAIN backlog : backlog'[i] = backlog[i]
    BY <1>3, <2>1
  <2>4. \A i \in DOMAIN backlog' : \/ i \in DOMAIN backlog
                                   \/ i = Len(backlog) + 1
    BY <2>3
  <2>5. \A d \in Conn : Waits(d)' => d = c \/ Waits(d)
    BY <2>3, <2>4 DEF Waits
  <2>6. OnePlace'
    <3>1. \A i, j \in DOMAIN backlog' : backlog'[i] = backlog'[j] => i = j
      BY <2>2, <2>3, <2>4 DEF PlaceInv, OnePlace, Waits
    <3>2. \A d \in Conn : ~(Waits(d)' /\ OnSocket(d)')
      BY <1>2, <2>2, <2>5 DEF PlaceInv, OnePlace, OnSocket
    <3> QED
      BY <1>2, <3>1, <3>2 DEF PlaceInv, OnePlace, OnSocket, Waits
  <2>7. NowhereElse'
    BY <1>2, <2>1, <2>2, <2>5 DEF PlaceInv, NowhereElse, OnSocket
  <2> QED
    BY <1>2, <2>1, <2>6, <2>7 DEF PlaceInv, NewUnanswered, AtMostOneReply
<1>5. CASE ~Connect(c)
  <2>1. backlog' = backlog /\ \A d \in Conn : peer'[d] = "new" => peer[d] = "new"
    BY <1>1, <1>3, <1>5 DEF Send, SendRest, Leave
  <2> QED
    BY <1>2, <2>1
       DEF PlaceInv, OnePlace, NowhereElse, NewUnanswered, AtMostOneReply, Waits, OnSocket
<1> QED
  BY <1>4, <1>5

LEMMA PlacesInit == ASSUME ProxyInit PROVE PlaceInv
<1>1. \A f \in Fd : sock[f] \in {Free, Listener}
  BY DEF ProxyInit
<1>2. backlog = <<>> /\ \A c \in Conn : replies[c] = <<>>
  BY DEF ProxyInit
<1>3. \A c \in Conn : ~OnSocket(c) /\ ~Waits(c)
  BY <1>1, <1>2, SockKinds DEF OnSocket, Waits
<1> QED
  BY <1>2, <1>3
     DEF PlaceInv, OnePlace, NowhereElse, NewUnanswered, AtMostOneReply, OnSocket

(* Under every fault a connection waits, or is on one descriptor, or has   *)
(* had its answer.                                                         *)
THEOREM ConnectionsInOnePlace == ProxySpec => []PlaceInv
<1>1. ProxyInit => PlaceInv
  BY PlacesInit
<1>2. ProxyInv /\ PlaceInv /\ [ProxyNext]_proxyVars => PlaceInv'
  <2> SUFFICES ASSUME ProxyInv, PlaceInv, [ProxyNext]_proxyVars PROVE PlaceInv'
    OBVIOUS
  <2>1. CASE Select \/ SkipClient \/ SkipServer \/ AcceptFails
    <3>1. UNCHANGED <<sock, backlog, peer, replies>>
      BY <2>1 DEF Select, SkipClient, SkipServer, AcceptFails, envVars
    <3> QED
      BY <3>1, NoClientAdded
  <2>2. CASE Accept
    BY <2>2, PlacesAccepted
  <2>3. CASE HandleClientRecv
    BY <2>3, PlacesKept
  <2>4. CASE HandleServerRecv
    BY <2>4, PlacesServed
  <2>5. CASE Clients
    BY <2>5, PlacesConnected
  <2>6. CASE UNCHANGED proxyVars
    <3>1. UNCHANGED <<sock, backlog, peer, replies>>
      BY <2>6 DEF proxyVars, procVars, envVars
    <3> QED
      BY <3>1, NoClientAdded
  <2> QED
    BY <2>1, <2>2, <2>3, <2>4, <2>5, <2>6 DEF ProxyNext, Loop
<1> QED
  BY <1>1, <1>2, ProxySafe, PTL DEF ProxySpec

(* However many requests a client sends on its connection, and whatever    *)
(* numbers its descriptors had before, it gets one answer: every write to  *)
(* a client is followed, in the same handler, by the close of its socket.  *)
THEOREM OneReply == ProxySpec => []AtMostOneReply
<1>1. PlaceInv => AtMostOneReply
  BY DEF PlaceInv
<1> QED
  BY <1>1, ConnectionsInOnePlace, PTL

-----------------------------------------------------------------------------
(***************************************************************************)
(* Sessions and their origins, when connecting to the origin does not      *)
(* fail. A failed connect leaves a session with the number of a closed     *)
(* socket, which the next connection takes, and none of this holds.        *)
(***************************************************************************)

Resets == \E c \in Conn : peer[c] = "rst"

InboxOwn == \A c \in Conn : \A i \in DOMAIN inbox[c] : inbox[c][i].from = c

OneListener == \A f \in Fd : sock[f] = Listener => f = ListenFd

(* Between the two handlers of a session its origin may be watched, and    *)
(* have a request on it, which is then its client's; no other origin is or *)
(* has.                                                                    *)
OriginsWatched ==
  \A f \in ready : sock[f].type = "origin" => pc = "server" /\ f = node.sfd

AskedForClient ==
  \A f \in Fd : sock[f].type = "origin" /\ sock[f].req # NoReq =>
    /\ pc = "server" /\ f = node.sfd /\ f \in ready
    /\ sock[node.cfd] = ClientSock(sock[f].req.from)

(* A number is watched and closed only after a client's reset.             *)
WatchedAreOpen == ~Resets => \A f \in ready : sock[f] # Free

AskedOrReset ==
  pc = "server" /\ node.sfd \in ready => sock[node.sfd].req # NoReq \/ Resets

SessionInv ==
  /\ InboxOwn /\ RepliesGoHome /\ SessionsOwnOrigins
  /\ Running => /\ OneListener /\ OriginsWatched /\ AskedForClient
                /\ WatchedAreOpen /\ AskedOrReset

(* Before the client's handler no origin is watched or has a request.      *)
LEMMA OriginsIdle ==
  ASSUME SessionInv, Running, pc # "server"
  PROVE  /\ \A f \in ready : sock[f].type # "origin"
         /\ \A f \in Fd : sock[f].type = "origin" => sock[f].req = NoReq
BY DEF SessionInv, OriginsWatched, AskedForClient

(* Reading takes requests out of streams, which remain their clients'.     *)
LEMMA ConsumeOwn ==
  ASSUME ProxyInv, InboxOwn, NEW fd \in Fd, NEW x \in Items,
         Yields(fd, x), Consume(fd, x)
  PROVE  InboxOwn'
<1>1. inbox \in [Conn -> Seq(Request)]
  BY DEF ProxyInv, ProxyTypeOK
<1>2. CASE x \notin Request
  BY <1>2 DEF Consume, InboxOwn
<1>3. CASE x \in Request
  <2>1. PICK c \in Conn : sock[fd] = ClientSock(c) /\ inbox[c] # <<>>
    BY <1>3, RequestRead
  <2>2. inbox' = [inbox EXCEPT ![c] = Tail(@)]
    <3>1. sock[fd].conn = c
      BY <2>1, SocketFields
    <3> QED
      BY <1>3, <3>1 DEF Consume
  <2>3. \A i \in DOMAIN Tail(inbox[c]) :
          Tail(inbox[c])[i] = inbox[c][i + 1] /\ i + 1 \in DOMAIN inbox[c]
    BY <1>1, <2>1
  <2> QED
    BY <1>1, <2>2, <2>3 DEF InboxOwn
<1> QED
  BY <1>2, <1>3

(* Sessions and descriptors after a client's handler: connected.           *)
LEMMA ConnectedSessions ==
  ASSUME ProxyInv, SessionInv, pc = "client", node.cfd \in ready,
         NEW x \in Items, Yields(node.cfd, x), peer' = peer, cur' = cur,
         ConnectedTo(x)
  PROVE  /\ SessionsOwnOrigins'
         /\ OneListener' /\ OriginsWatched' /\ AskedForClient'
         /\ WatchedAreOpen' /\ AskedOrReset'
<1>1. PICK req \in Request \cup {NoReq}, w \in BOOLEAN :
        /\ sock' = Connected(req, w)
        /\ nodes' = [nodes EXCEPT ![cur].sfd = NewFd]
        /\ pc' = "server"
        /\ \/ req = NoReq /\ ready' = ready
           \/ req = x /\ x \in Request /\ ready' = ready \cup {NewFd}
  BY DEF ConnectedTo
<1>2. /\ nodes \in Seq(Node) /\ cur \in DOMAIN nodes
      /\ node.cfd \in Fd /\ node.sfd \in Fd \cup {-1}
      /\ sock \in [Fd -> Sock] /\ ready \subseteq Fd
  BY CurrentSession DEF ProxyInv, ProxyTypeOK
<1>3. /\ NewFd \in Fd /\ NewFd # ListenFd /\ OldClosed[NewFd] = Free
      /\ sock'[NewFd] = OriginSock(req, w)
      /\ \A f \in Fd : f # NewFd => sock'[f] = OldClosed[f]
      /\ \A f \in Fd : OldClosed[f] = IF f = node.sfd THEN Free ELSE sock[f]
  <2>1. /\ NewFd \in Fd /\ NewFd # ListenFd /\ OldClosed[NewFd] = Free
        /\ Connected(req, w)[NewFd] = OriginSock(req, w)
        /\ \A f \in Fd : f # NewFd => Connected(req, w)[f] = OldClosed[f]
    BY ConnectedShape
  <2>2. \A f \in Fd : Close(sock, node.sfd)[f] = IF f = node.sfd THEN Free ELSE sock[f]
    BY <1>2, CloseShape
  <2> QED
    BY <1>1, <2>1, <2>2 DEF OldClosed
<1>4. Running /\ pc # "server"
  BY DEF Running
<1>5. /\ \A f \in ready : sock[f].type # "origin"
      /\ \A f \in Fd : sock[f].type = "origin" => sock[f].req = NoReq
  BY <1>4, OriginsIdle
<1>6. \A i \in DOMAIN nodes : nodes[i].sfd # -1 =>
        /\ nodes[i].sfd \in Fd /\ sock[nodes[i].sfd].type = "origin"
        /\ \A j \in DOMAIN nodes : nodes[j].sfd = nodes[i].sfd => i = j
  <2>1. \A i \in DOMAIN nodes : nodes[i].sfd \in Fd \cup {-1}
    <3>1. \A i \in DOMAIN nodes : nodes[i] \in Node
      BY <1>2
    <3> QED
      BY <3>1 DEF Node
  <2> QED
    BY <1>4, <2>1 DEF SessionInv, SessionsOwnOrigins, Running
(* The session's old origin was an origin, so not its client's number.     *)
<1>7. node.sfd # -1 => sock[node.sfd].type = "origin" /\ node.sfd \notin ready
  BY <1>2, <1>5, <1>6 DEF node
<1>8. /\ DOMAIN nodes' = DOMAIN nodes /\ nodes'[cur].sfd = NewFd
      /\ \A i \in DOMAIN nodes : nodes'[i].cfd = nodes[i].cfd
      /\ \A i \in DOMAIN nodes : i # cur => nodes'[i] = nodes[i]
  BY <1>1, <1>2, <1>3, SessionConnected
<1>9. node'.sfd = NewFd /\ node'.cfd = node.cfd
  BY <1>2, <1>8 DEF node
(* The origins of the other sessions are open, so not the new one.         *)
<1>10. \A i \in DOMAIN nodes : i # cur /\ nodes[i].sfd # -1 =>
         /\ nodes[i].sfd # node.sfd /\ nodes[i].sfd # NewFd
         /\ sock'[nodes[i].sfd] = sock[nodes[i].sfd]
  <2> SUFFICES ASSUME NEW i \in DOMAIN nodes, i # cur, nodes[i].sfd # -1
               PROVE  /\ nodes[i].sfd # node.sfd /\ nodes[i].sfd # NewFd
                      /\ sock'[nodes[i].sfd] = sock[nodes[i].sfd]
    OBVIOUS
  <2>1. nodes[i].sfd \in Fd /\ sock[nodes[i].sfd].type = "origin"
    BY <1>6
  <2>2. nodes[i].sfd # node.sfd
    BY <1>2, <1>6 DEF node
  <2>3. OldClosed[nodes[i].sfd] = sock[nodes[i].sfd]
    BY <1>3, <2>1, <2>2
  <2>4. nodes[i].sfd # NewFd
    BY <1>3, <2>1, <2>3, SocketFields
  <2> QED
    BY <1>3, <2>1, <2>2, <2>3, <2>4
<1>11. SessionsOwnOrigins'
  <2> SUFFICES ASSUME NEW i \in DOMAIN nodes, nodes'[i].sfd # -1
               PROVE  /\ sock'[nodes'[i].sfd].type = "origin"
                      /\ \A j \in DOMAIN nodes : nodes'[j].sfd = nodes'[i].sfd => i = j
    BY <1>8 DEF SessionsOwnOrigins
  <2>1. CASE i = cur
    <3>1. sock'[nodes'[i].sfd].type = "origin"
      BY <1>3, <1>8, <2>1, SocketFields
    <3>2. NewFd # -1
      BY <1>3, ProxyAssumption
    <3> QED
      BY <1>8, <1>10, <2>1, <3>1, <3>2
  <2>2. CASE i # cur
    <3>1. nodes'[i] = nodes[i] /\ nodes[i].sfd # -1
      BY <1>8, <2>2
    <3>2. sock'[nodes'[i].sfd].type = "origin"
      BY <1>6, <1>10, <2>2, <3>1
    <3> QED
      BY <1>6, <1>8, <1>10, <2>2, <3>1, <3>2
  <2> QED
    BY <2>1, <2>2
<1>12. \A f \in Fd : f # NewFd => sock'[f] = Free \/ sock'[f] = sock[f]
  BY <1>3
<1>13. OneListener'
  <2>1. OneListener
    BY <1>4 DEF SessionInv
  <2> QED
    BY <1>3, <1>12, <2>1, SockKinds DEF OneListener
<1>14. OriginsWatched'
  <2> SUFFICES ASSUME NEW f \in ready', sock'[f].type = "origin", f # NewFd PROVE FALSE
    BY <1>1, <1>9 DEF OriginsWatched
  <2>1. f \in ready /\ f \in Fd
    BY <1>1, <1>2
  <2> QED
    BY <1>5, <1>12, <2>1, SocketFields
<1>15. AskedForClient'
  <2> SUFFICES ASSUME NEW f \in Fd, sock'[f].type = "origin", sock'[f].req # NoReq
               PROVE  /\ f = NewFd /\ f \in ready'
                      /\ sock'[node.cfd] = ClientSock(sock'[f].req.from)
    BY <1>1, <1>9 DEF AskedForClient
  <2>1. f = NewFd
    BY <1>5, <1>12, SocketFields
  <2>2. sock'[f].req = req
    BY <1>3, <2>1, SocketFields
  <2>3. req = x /\ x \in Request /\ f \in ready'
    BY <1>1, <2>1, <2>2
  <2>4. PICK c \in Conn : /\ sock[node.cfd] = ClientSock(c)
                          /\ inbox[c] # <<>> /\ x = Head(inbox[c])
    BY <1>2, <2>3, RequestRead
  <2>5. x.from = c
    <3>1. inbox[c] \in Seq(Request)
      BY DEF ProxyInv, ProxyTypeOK
    <3>2. 1 \in DOMAIN inbox[c] /\ x = inbox[c][1]
      BY <2>4, <3>1
    <3> QED
      BY <3>2 DEF SessionInv, InboxOwn
  <2>6. sock[node.cfd].type = "client" /\ sock[node.cfd] # Free
    BY <2>4, SocketFields
  <2>7. node.cfd # node.sfd
    BY <1>2, <1>7, <2>6, ProxyAssumption
  <2>8. OldClosed[node.cfd] = sock[node.cfd]
    BY <1>2, <1>3, <2>7
  <2>9. sock'[node.cfd] = sock[node.cfd]
    BY <1>2, <1>3, <2>6, <2>8
  <2> QED
    BY <2>1, <2>2, <2>3, <2>4, <2>5, <2>9
<1>16. WatchedAreOpen'
  <2> SUFFICES ASSUME ~Resets, NEW f \in ready' PROVE sock'[f] # Free
    BY DEF WatchedAreOpen, Resets
  <2>1. CASE f = NewFd
    BY <1>3, <2>1, SockKinds
  <2>2. CASE f # NewFd
    <3>1. f \in ready /\ f \in Fd /\ f # node.sfd
      BY <1>1, <1>2, <1>5, <1>7, <2>2, ProxyAssumption
    <3>2. sock'[f] = sock[f]
      BY <1>3, <2>2, <3>1
    <3> QED
      BY <1>4, <3>1, <3>2 DEF SessionInv, WatchedAreOpen
  <2> QED
    BY <2>1, <2>2
(* A number taken from the free ones while watched was left by a reset.    *)
<1>17. AskedOrReset'
  <2> SUFFICES ASSUME NewFd \in ready', sock'[NewFd].req = NoReq PROVE Resets
    BY <1>9 DEF AskedOrReset, Resets
  <2>1. req = NoReq
    BY <1>3, SocketFields
  <2>2. NewFd \in ready
    BY <1>1, <2>1, RequestIsNoItem
  <2>3. NewFd # node.sfd
    BY <1>7, <2>2, <1>3, ProxyAssumption
  <2>4. sock[NewFd] = Free
    BY <1>3, <2>3
  <2> QED
    BY <1>4, <2>2, <2>4 DEF SessionInv, WatchedAreOpen
<1> QED
  BY <1>11, <1>13, <1>14, <1>15, <1>16, <1>17

(* A client's read that failed closes no origin.                           *)
LEMMA GoneSessions ==
  ASSUME ProxyInv, SessionInv, pc = "client", node.cfd \in ready,
         peer' = peer, cur' = cur, ClientGone
  PROVE  /\ SessionsOwnOrigins'
         /\ OneListener' /\ OriginsWatched' /\ AskedForClient'
         /\ WatchedAreOpen' /\ AskedOrReset'
<1>1. /\ sock' = Close(sock, node.cfd) /\ Yields(node.cfd, Err)
      /\ pc' = "server" /\ UNCHANGED <<ready, nodes>>
  BY DEF ClientGone
<1>2. /\ cur \in DOMAIN nodes /\ nodes \in Seq(Node)
      /\ node.cfd \in Fd /\ node.cfd # ListenFd /\ node.sfd \in Fd \cup {-1}
      /\ sock \in [Fd -> Sock] /\ ready \subseteq Fd
  BY CurrentSession DEF ProxyInv, ProxyTypeOK
<1>3. \A f \in Fd : sock'[f] = IF f = node.cfd THEN Free ELSE sock[f]
  BY <1>1, <1>2, CloseShape
<1>4. Running /\ pc # "server"
  BY DEF Running
<1>5. /\ \A f \in ready : sock[f].type # "origin"
      /\ \A f \in Fd : sock[f].type = "origin" => sock[f].req = NoReq
  BY <1>4, OriginsIdle
<1>6. sock[node.cfd].type # "origin" /\ OneListener /\ WatchedAreOpen /\ SessionsOwnOrigins
  BY <1>4, <1>5 DEF SessionInv
<1>7. \A f \in Fd : sock'[f].type = "origin" => sock'[f] = sock[f]
  BY <1>3, SocketFields
<1>8. SessionsOwnOrigins'
  <2> SUFFICES ASSUME NEW i \in DOMAIN nodes, nodes[i].sfd # -1
               PROVE  /\ sock'[nodes[i].sfd].type = "origin"
                      /\ \A j \in DOMAIN nodes : nodes[j].sfd = nodes[i].sfd => i = j
    BY <1>1 DEF SessionsOwnOrigins
  <2>1. /\ sock[nodes[i].sfd].type = "origin"
        /\ \A j \in DOMAIN nodes : nodes[j].sfd = nodes[i].sfd => i = j
    BY <1>4, <1>6 DEF SessionsOwnOrigins, Running
  <2>2. nodes[i].sfd \in Fd
    <3>1. nodes[i] \in Node
      BY <1>2
    <3> QED
      BY <3>1 DEF Node
  <2> QED
    BY <1>3, <1>6, <2>1, <2>2
<1>9. OneListener' /\ OriginsWatched' /\ AskedForClient'
  BY <1>1, <1>2, <1>3, <1>5, <1>6, <1>7, SockKinds
     DEF OneListener, OriginsWatched, AskedForClient
(* The read failed because the client reset, or the number was free.       *)
<1>10. Resets
  <2>1. sock[node.cfd] # Listener
    BY <1>2, <1>6 DEF OneListener
  <2>2. sock[node.cfd].type # "listen"
    <3>1. sock[node.cfd] \in Sock
      BY <1>2
    <3>2. sock[node.cfd] = Free \/ (\E c \in Conn : sock[node.cfd] = ClientSock(c))
            \/ \E r \in Request \cup {NoReq}, w \in BOOLEAN : sock[node.cfd] = OriginSock(r, w)
      BY <2>1, <3>1 DEF Sock
    <3> QED
      BY <3>2, SocketFields
  <2>3. node.cfd # -1
    BY <1>2, ProxyAssumption
  <2>4. CASE sock[node.cfd].type = "client"
    <3>1. PICK c \in Conn : sock[node.cfd] = ClientSock(c)
      BY <1>2, <2>4, ClientSocket
    <3>2. Err \notin Request /\ Err # Eof
      BY RequestIsNoItem DEF Err, Eof
    <3>3. peer[c] = "rst" \/ (inbox[c] # <<>> /\ Err = Head(inbox[c]))
      BY <1>1, <2>3, <2>4, <3>1, <3>2, SocketFields DEF Yields
    <3>4. inbox[c] # <<>> => Head(inbox[c]) \in Request
      <4>1. inbox[c] \in Seq(Request)
        BY DEF ProxyInv, ProxyTypeOK
      <4> QED
        BY <4>1
    <3> QED
      BY <3>2, <3>3, <3>4 DEF Resets
  <2>5. CASE sock[node.cfd].type # "client"
    <3>1. sock[node.cfd].type = "free"
      BY <1>1, <1>6, <2>2, <2>3, <2>5 DEF Yields
    <3>2. sock[node.cfd] = Free
      <4>1. sock[node.cfd] \in Sock
        BY <1>2
      <4> QED
        BY <3>1, <4>1, SocketFields DEF Sock
    <3> QED
      BY <1>6, <3>2 DEF WatchedAreOpen
  <2> QED
    BY <2>4, <2>5
<1>11. WatchedAreOpen' /\ AskedOrReset'
  BY <1>10 DEF WatchedAreOpen, AskedOrReset, Resets
<1> QED
  BY <1>8, <1>9, <1>11

LEMMA SessionsKept ==
  ASSUME ProxyInv, SessionInv, HandleClientRecv, "refused" \notin Faults
  PROVE  SessionInv'
<1>1. PICK x \in Items :
        /\ ClientRead(x)
        /\ ClientGone \/ Refused(x) \/ ConnectedTo(x) \/ DiesConnected
  BY ClientWays
<1>2. /\ pc = "client" /\ node.cfd \in ready
      /\ Yields(node.cfd, x) /\ Consume(node.cfd, x)
      /\ UNCHANGED <<cur, backlog, sent, peer, replies>>
  BY <1>1 DEF ClientRead
<1>3. InboxOwn'
  <2>1. node.cfd \in Fd
    BY <1>2, CurrentSession
  <2> QED
    BY <1>2, <2>1, ConsumeOwn DEF SessionInv
<1>4. RepliesGoHome'
  BY <1>2 DEF SessionInv, RepliesGoHome
<1>5. CASE ClientGone
  BY <1>2, <1>3, <1>4, <1>5, GoneSessions DEF SessionInv
<1>6. CASE ConnectedTo(x)
  BY <1>2, <1>3, <1>4, <1>6, ConnectedSessions DEF SessionInv
<1>7. CASE DiesConnected
  <2>1. pc' = "crashed"
    BY <1>7 DEF DiesConnected
  <2> QED
    BY <1>3, <1>4, <2>1 DEF SessionInv, SessionsOwnOrigins, Running
<1> QED
  BY <1>1, <1>5, <1>6, <1>7 DEF Refused

(* A reply goes to the session's own client, and its socket is closed.     *)
LEMMA RelayedSessions ==
  ASSUME ProxyInv, SessionInv, pc = "server", Relayed
  PROVE  SessionInv'
<1>1. /\ node.sfd \in Fd /\ sock[node.sfd].type = "origin" /\ sock[node.sfd].req # NoReq
      /\ ready' = ready \ {node.cfd, node.sfd}
      /\ sock' = Close(Drained, node.cfd)
      /\ NextSession /\ UNCHANGED <<nodes, backlog, inbox, sent, peer>>
  BY DEF Relayed, Answered, Finish, FinishFrame
<1>2. /\ cur \in DOMAIN nodes /\ nodes \in Seq(Node) /\ node.cfd \in Fd
      /\ sock \in [Fd -> Sock] /\ replies \in [Conn -> Seq(Reply)] /\ ready \subseteq Fd
  BY CurrentSession DEF ProxyInv, ProxyTypeOK
<1>3. Running /\ pc' # "server" /\ pc' \notin {"crashed", "exited"}
  BY <1>1 DEF NextSession, Running
<1>4. /\ \A f \in Fd : sock[f].type = "origin" /\ sock[f].req # NoReq => f = node.sfd
      /\ sock[node.cfd] = ClientSock(sock[node.sfd].req.from)
      /\ \A f \in ready : sock[f].type = "origin" => f = node.sfd
  BY <1>1, <1>3 DEF SessionInv, AskedForClient, OriginsWatched
<1>5. /\ node.cfd # node.sfd /\ sock[node.cfd].type = "client"
      /\ sock[node.cfd].conn = sock[node.sfd].req.from
  BY <1>1, <1>4, SocketFields
<1>6. /\ sock'[node.cfd] = Free
      /\ sock'[node.sfd].type = "origin" /\ sock'[node.sfd].req = NoReq
      /\ \A f \in Fd : f # node.cfd /\ f # node.sfd => sock'[f] = sock[f]
  BY <1>1, <1>2, <1>5, DrainedShape, CloseShape
<1>7. SessionsOwnOrigins'
  <2> SUFFICES ASSUME NEW i \in DOMAIN nodes, nodes[i].sfd # -1
               PROVE  /\ sock'[nodes[i].sfd].type = "origin"
                      /\ \A j \in DOMAIN nodes : nodes[j].sfd = nodes[i].sfd => i = j
    BY <1>1 DEF SessionsOwnOrigins
  <2>1. /\ sock[nodes[i].sfd].type = "origin"
        /\ \A j \in DOMAIN nodes : nodes[j].sfd = nodes[i].sfd => i = j
    BY <1>3 DEF SessionInv, SessionsOwnOrigins, Running
  <2>2. nodes[i].sfd \in Fd
    <3>1. nodes[i] \in Node
      BY <1>2
    <3> QED
      BY <3>1 DEF Node
  <2> QED
    BY <1>5, <1>6, <2>1, <2>2
<1>8. RepliesGoHome'
  <2> DEFINE c == sock[node.cfd].conn
  <2>1. PICK whole \in BOOLEAN :
          Deliver(node.cfd, [to |-> sock[node.sfd].req, whole |-> whole])
    BY DEF Relayed
  <2> DEFINE reply == [to |-> sock[node.sfd].req, whole |-> whole]
  <2>2. reply.to.from = c
    BY <1>5
  <2>3. replies' = [replies EXCEPT ![c] = Append(@, reply)] \/ replies' = replies
    BY <2>1 DEF Deliver
  <2>4. c \in Conn
    BY <1>2, <1>5, ClientSocket, SocketFields
  <2>5. reply \in Reply
    <3>1. sock[node.sfd].req \in Request
      BY <1>1, <1>2, OriginSocket, SocketFields
    <3> QED
      BY <3>1 DEF Reply
  <2> HIDE DEF reply, c
  <2>6. CASE replies' = replies
    BY <2>6 DEF SessionInv, RepliesGoHome
  <2>7. CASE replies' = [replies EXCEPT ![c] = Append(@, reply)]
    <3> SUFFICES ASSUME NEW d \in Conn, NEW i \in DOMAIN replies'[d]
                 PROVE  replies'[d][i].to.from = d
      BY DEF RepliesGoHome
    <3>1. \A j \in DOMAIN replies[d] : replies[d][j].to.from = d
      BY DEF SessionInv, RepliesGoHome
    <3>2. CASE d # c
      BY <1>2, <2>7, <3>1, <3>2
    <3>3. CASE d = c
      <4>1. replies'[d] = Append(replies[d], reply) /\ replies[d] \in Seq(Reply)
        BY <1>2, <2>7, <3>3
      <4>2. replies'[d][i] = reply \/ (i \in DOMAIN replies[d] /\ replies'[d][i] = replies[d][i])
        BY <2>5, <4>1
      <4> QED
        BY <2>2, <3>1, <3>3, <4>2
    <3> QED
      BY <3>2, <3>3
  <2> QED
    BY <2>3, <2>6, <2>7
<1>9. InboxOwn'
  BY <1>1 DEF SessionInv, InboxOwn
<1>10. OneListener' /\ WatchedAreOpen'
  <2>1. OneListener /\ WatchedAreOpen
    BY <1>3 DEF SessionInv
  <2>2. OneListener'
    BY <1>6, <2>1, SockKinds, SocketFields DEF OneListener
  <2>3. WatchedAreOpen'
    BY <1>1, <1>2, <1>6, <2>1 DEF WatchedAreOpen, Resets
  <2> QED
    BY <2>2, <2>3
<1>11. OriginsWatched' /\ AskedForClient' /\ AskedOrReset'
  <2>1. OriginsWatched'
    BY <1>1, <1>2, <1>4, <1>6 DEF OriginsWatched
  <2>2. AskedForClient'
    BY <1>4, <1>6, SocketFields DEF AskedForClient
  <2> QED
    BY <1>3, <2>1, <2>2 DEF AskedOrReset
<1> QED
  BY <1>7, <1>8, <1>9, <1>10, <1>11 DEF SessionInv

LEMMA SessionsServed ==
  ASSUME ProxyInv, SessionInv, HandleServerRecv
  PROVE  SessionInv'
<1>1. pc = "server" /\ cur \in DOMAIN nodes
  BY ServerWays, CurrentSession DEF ServerRead
<1>2. CASE Relayed
  BY <1>1, <1>2, RelayedSessions
(* What is read for an answer is not a client's: the number is an origin's. *)
<1>3. ~Mistaken
  <2> SUFFICES ASSUME Mistaken PROVE FALSE
    OBVIOUS
  <2>1. node.sfd \in Fd /\ \E x \in Request : Yields(node.sfd, x)
    BY DEF Mistaken
  <2>2. PICK c \in Conn : sock[node.sfd] = ClientSock(c)
    BY <2>1, RequestRead
  <2>3. sock[node.sfd].type = "origin"
    BY <1>1, <2>1, ProxyAssumption DEF SessionInv, SessionsOwnOrigins, node
  <2> QED
    BY <2>2, <2>3, SocketFields
<1>4. CASE DiesReading
  <2>1. pc' = "crashed" /\ UNCHANGED replies
    BY <1>4 DEF DiesReading
  <2>2. InboxOwn'
    <3>1. CASE inbox' = inbox
      BY <3>1 DEF SessionInv, InboxOwn
    <3>2. CASE \E x \in Items : /\ node.sfd \in Fd
                                /\ Yields(node.sfd, x) /\ Consume(node.sfd, x)
      BY <3>2, ConsumeOwn DEF SessionInv
    <3> QED
      BY <1>4, <3>1, <3>2 DEF DiesReading
  <2> QED
    BY <2>1, <2>2 DEF SessionInv, RepliesGoHome, SessionsOwnOrigins, Running
<1> QED
  BY <1>2, <1>3, <1>4, ServerWays

LEMMA SessionsAccepted ==
  ASSUME ProxyInv, SessionInv, Accept
  PROVE  SessionInv'
<1>1. PICK f \in Fd :
        /\ sock[f] = Free /\ f # ListenFd
        /\ Head(backlog) \in Conn
        /\ sock'[f] = ClientSock(Head(backlog))
        /\ \A g \in Fd : g # f => sock'[g] = sock[g]
        /\ pc = "accept" /\ UNCHANGED <<inbox, sent, peer, replies>>
        /\ \/ pc' = "crashed"
           \/ /\ ready' = ready \cup {f}
              /\ nodes' = Append(nodes, NewSession(f))
              /\ cur' = Len(nodes) + 1
              /\ pc' = "client"
  BY AcceptWays
<1>2. InboxOwn' /\ RepliesGoHome'
  BY <1>1 DEF SessionInv, InboxOwn, RepliesGoHome
<1>3. CASE pc' = "crashed"
  BY <1>2, <1>3 DEF SessionInv, SessionsOwnOrigins, Running
<1>4. CASE pc' # "crashed"
  <2>1. Running /\ nodes \in Seq(Node) /\ sock \in [Fd -> Sock] /\ ready \subseteq Fd
    BY <1>1 DEF Running, ProxyInv, ProxyTypeOK
  <2> DEFINE n == NewSession(f)
  <2>2. n.sfd = -1 /\ n \in Node
    BY DEF NewSession, Node
  <2> HIDE DEF n
  <2>3. nodes' = Append(nodes, n) /\ pc' = "client" /\ ready' = ready \cup {f}
    BY <1>1, <1>4 DEF n
  <2>4. /\ Len(nodes) \in Nat
        /\ DOMAIN nodes' = DOMAIN nodes \cup {Len(nodes) + 1}
        /\ nodes'[Len(nodes) + 1] = n
        /\ \A i \in DOMAIN nodes : nodes'[i] = nodes[i] /\ nodes[i] \in Node
    BY <2>1, <2>2, <2>3
  <2>5. SessionsOwnOrigins'
    <3> SUFFICES ASSUME NEW i \in DOMAIN nodes', nodes'[i].sfd # -1
                 PROVE  /\ sock'[nodes'[i].sfd].type = "origin"
                        /\ \A j \in DOMAIN nodes' : nodes'[j].sfd = nodes'[i].sfd => i = j
      BY DEF SessionsOwnOrigins
    <3>1. i \in DOMAIN nodes /\ nodes'[i] = nodes[i]
      BY <2>2, <2>4
    <3>2. /\ sock[nodes[i].sfd].type = "origin"
          /\ \A j \in DOMAIN nodes : nodes[j].sfd = nodes[i].sfd => i = j
      BY <2>1, <3>1 DEF SessionInv, SessionsOwnOrigins, Running
    <3>3. nodes[i].sfd \in Fd
      BY <2>4, <3>1 DEF Node
    <3>4. sock'[nodes[i].sfd] = sock[nodes[i].sfd]
      BY <1>1, <3>2, <3>3, SocketFields
    <3> QED
      BY <2>2, <2>4, <3>1, <3>2, <3>4
  <2>6. /\ \A g \in ready : sock[g].type # "origin"
        /\ \A g \in Fd : sock[g].type = "origin" => sock[g].req = NoReq
    BY <1>1, <2>1, OriginsIdle
  <2>7. OneListener /\ WatchedAreOpen
    BY <2>1 DEF SessionInv
  <2>8. OneListener'
    BY <1>1, <2>7, SockKinds DEF OneListener
  <2>9. OriginsWatched'
    BY <1>1, <2>1, <2>3, <2>6, SocketFields DEF OriginsWatched
  <2>10. AskedForClient'
    BY <1>1, <2>6, SocketFields DEF AskedForClient
  <2>11. WatchedAreOpen'
    BY <1>1, <2>1, <2>3, <2>7, SockKinds DEF WatchedAreOpen, Resets
  <2> QED
    BY <1>2, <2>3, <2>5, <2>8, <2>9, <2>10, <2>11 DEF SessionInv, AskedOrReset
<1> QED
  BY <1>3, <1>4

(* select only takes numbers out of the set; a session that is passed over *)
(* has no origin watched.                                                  *)
LEMMA SessionsPassed ==
  ASSUME ProxyInv, SessionInv, Select \/ SkipClient \/ SkipServer \/ AcceptFails
  PROVE  SessionInv'
<1>1. /\ UNCHANGED <<sock, nodes>> /\ UNCHANGED <<backlog, inbox, sent, peer, replies>>
      /\ ready' \subseteq ready /\ Running
  BY DEF Select, SkipClient, SkipServer, AcceptFails, envVars, Running
<1>2. /\ InboxOwn' /\ RepliesGoHome' /\ SessionsOwnOrigins'
      /\ OneListener' /\ WatchedAreOpen'
  BY <1>1 DEF SessionInv, InboxOwn, RepliesGoHome, SessionsOwnOrigins, OneListener,
              WatchedAreOpen, Resets, Running
<1>3. /\ \A f \in ready : sock[f].type # "origin"
      /\ \A f \in Fd : sock[f].type = "origin" => sock[f].req = NoReq
  <2>1. CASE pc # "server"
    BY <1>1, <2>1, OriginsIdle
  <2>2. CASE pc = "server"
    <3>1. Bit(node.sfd) \notin ready
      BY <2>2 DEF Select, SkipClient, SkipServer, AcceptFails
    <3>2. node.sfd \notin ready
      <4> SUFFICES ASSUME node.sfd \in ready PROVE FALSE
        OBVIOUS
      <4>1. Bit(node.sfd) = node.sfd
        BY ProxyAssumption DEF Bit, ProxyInv, ProxyTypeOK
      <4> QED
        BY <3>1, <4>1
    <3> QED
      BY <1>1, <3>2 DEF SessionInv, OriginsWatched, AskedForClient
  <2> QED
    BY <2>1, <2>2
<1>4. OriginsWatched' /\ AskedForClient'
  BY <1>1, <1>3 DEF OriginsWatched, AskedForClient
(* The session whose origin is looked at next has none watched.            *)
<1>5. AskedOrReset'
  <2> SUFFICES ASSUME pc' = "server", (node.sfd)' \in ready' PROVE FALSE
    BY DEF AskedOrReset
  <2>1. pc = "client" /\ cur' = cur
    BY DEF Select, SkipClient, SkipServer, AcceptFails, NextSession
  <2>2. node.sfd \in ready /\ cur \in DOMAIN nodes
    BY <1>1, <2>1, CurrentSession DEF node
  <2>3. node.sfd # -1
    BY <2>2, ProxyAssumption DEF ProxyInv, ProxyTypeOK
  <2> QED
    BY <1>1, <1>3, <2>2, <2>3 DEF SessionInv, SessionsOwnOrigins, Running, node
<1> QED
  BY <1>2, <1>4, <1>5 DEF SessionInv

(* What a client sends is its own; a reset is for ever.                    *)
LEMMA SessionsWhileClients ==
  ASSUME ProxyInv, SessionInv, Clients
  PROVE  SessionInv'
<1>1. PICK c \in Conn : Connect(c) \/ Send(c) \/ SendRest(c) \/ Leave(c)
  BY DEF Clients
<1>2. UNCHANGED <<pc, cur, ready, sock, nodes, replies>>
  BY <1>1 DEF Connect, Send, SendRest, Leave, procVars
<1>3. /\ inbox \in [Conn -> Seq(Request)]
      /\ peer \in [Conn -> {"new", "open", "fin", "rst"}]
  BY DEF ProxyInv, ProxyTypeOK
<1>4. Resets => Resets'
  BY <1>1, <1>3 DEF Connect, Send, SendRest, Leave, Resets
<1>5. InboxOwn'
  <2>1. CASE Connect(c) \/ Leave(c)
    BY <2>1 DEF Connect, Leave, SessionInv, InboxOwn
  <2>2. CASE Send(c)
    <3>1. PICK k \in Kinds, w \in Arrives : \E r \in (IF k = "chunk" THEN ReqRates ELSE {100}) :
            inbox' = [inbox EXCEPT ![c] =
                        Append(@, [from |-> c, kind |-> k, rate |-> r, whole |-> w])]
      BY <2>2 DEF Send
    <3>2. PICK r \in (IF k = "chunk" THEN ReqRates ELSE {100}) :
            inbox' = [inbox EXCEPT ![c] =
                        Append(@, [from |-> c, kind |-> k, rate |-> r, whole |-> w])]
      BY <3>1
    <3> DEFINE x == [from |-> c, kind |-> k, rate |-> r, whole |-> w]
    <3>3. x.from = c /\ inbox[c] = <<>>
      BY <2>2 DEF Send
    <3> HIDE DEF x
    <3>4. inbox' = [inbox EXCEPT ![c] = Append(@, x)]
      BY <3>2 DEF x
    <3>5. inbox'[c] = <<x>>
      BY <1>3, <3>3, <3>4
    <3> QED
      BY <1>3, <3>3, <3>4, <3>5 DEF SessionInv, InboxOwn
  <2>3. CASE SendRest(c)
    <3> DEFINE x == [Head(inbox[c]) EXCEPT !.whole = TRUE]
    <3>1. inbox[c] \in Seq(Request) /\ inbox[c] # <<>>
      BY <1>3, <2>3 DEF SendRest
    <3>2. Head(inbox[c]) \in Request /\ Tail(inbox[c]) \in Seq(Request)
          /\ Head(inbox[c]) = inbox[c][1] /\ 1 \in DOMAIN inbox[c]
      BY <3>1
    <3>3. x \in Request /\ x.from = Head(inbox[c]).from
      BY <3>2 DEF Request
    <3> HIDE DEF x
    <3>4. inbox' = [inbox EXCEPT ![c] = <<x>> \o Tail(@)]
      BY <2>3 DEF SendRest, x
    <3>5. /\ DOMAIN (<<x>> \o Tail(inbox[c])) = DOMAIN inbox[c]
          /\ \A i \in DOMAIN inbox[c] :
               (<<x>> \o Tail(inbox[c]))[i] = IF i = 1 THEN x ELSE inbox[c][i]
      BY <3>1, <3>2, <3>3
    <3>6. x.from = c
      BY <3>2, <3>3 DEF SessionInv, InboxOwn
    <3> QED
      BY <1>3, <3>4, <3>5, <3>6 DEF SessionInv, InboxOwn
  <2> QED
    BY <1>1, <2>1, <2>2, <2>3
<1> QED
  BY <1>2, <1>4, <1>5
     DEF SessionInv, RepliesGoHome, SessionsOwnOrigins, Running, OneListener, OriginsWatched,
         AskedForClient, WatchedAreOpen, AskedOrReset, node

LEMMA SessionsInit == ASSUME ProxyInit PROVE SessionInv
<1>1. /\ pc = "select" /\ nodes = <<>> /\ ready = {ListenFd}
      /\ \A c \in Conn : inbox[c] = <<>> /\ replies[c] = <<>>
      /\ sock[ListenFd] = Listener
      /\ \A f \in Fd : f # ListenFd => sock[f] = Free
  BY ProxyAssumption DEF ProxyInit
<1>2. \A f \in Fd : sock[f].type # "origin"
  BY <1>1, SocketFields
<1> QED
  BY <1>1, <1>2, SockKinds, ProxyAssumption
     DEF SessionInv, InboxOwn, RepliesGoHome, SessionsOwnOrigins, Running, OneListener,
         OriginsWatched, AskedForClient, WatchedAreOpen, AskedOrReset

(* As long as connecting to the origin does not fail, and whatever else    *)
(* clients and origin do, sessions keep to their own descriptors.          *)
THEOREM SessionsSafe ==
  ASSUME "refused" \notin Faults
  PROVE  ProxySpec => []SessionInv
<1>1. ProxyInit => SessionInv
  BY SessionsInit
<1>2. ProxyInv /\ SessionInv /\ [ProxyNext]_proxyVars => SessionInv'
  <2> SUFFICES ASSUME ProxyInv, SessionInv, [ProxyNext]_proxyVars PROVE SessionInv'
    OBVIOUS
  <2>1. CASE Select \/ SkipClient \/ SkipServer \/ AcceptFails
    BY <2>1, SessionsPassed
  <2>2. CASE Accept
    BY <2>2, SessionsAccepted
  <2>3. CASE HandleClientRecv
    BY <2>3, SessionsKept
  <2>4. CASE HandleServerRecv
    BY <2>4, SessionsServed
  <2>5. CASE Clients
    BY <2>5, SessionsWhileClients
  <2>6. CASE UNCHANGED proxyVars
    <3>1. UNCHANGED <<pc, cur, ready, sock, nodes, inbox, peer, replies>>
      BY <2>6 DEF proxyVars, procVars, envVars
    <3> QED
      BY <3>1 DEF SessionInv, InboxOwn, RepliesGoHome, SessionsOwnOrigins, Running,
                  OneListener, OriginsWatched, AskedForClient, WatchedAreOpen,
                  AskedOrReset, Resets, node
  <2> QED
    BY <2>1, <2>2, <2>3, <2>4, <2>5, <2>6 DEF ProxyNext, Loop
<1> QED
  BY <1>1, <1>2, ProxySafe, PTL DEF ProxySpec

(* The origin connection a session remembers is open and no other          *)
(* session's, so handle_server_recv reads and handle_client_recv closes    *)
(* what they mean to.                                                      *)
THEOREM OriginsOwned ==
  ASSUME "refused" \notin Faults
  PROVE  ProxySpec => []SessionsOwnOrigins
<1>1. SessionInv => SessionsOwnOrigins
  BY DEF SessionInv
<1> QED
  BY <1>1, SessionsSafe, PTL

(* No client is ever sent the answer to another client's request, although *)
(* the descriptor handle_server_recv writes to is a number the session     *)
(* remembers and the kernel gives out again.                               *)
THEOREM RepliesAtHome ==
  ASSUME "refused" \notin Faults
  PROVE  ProxySpec => []RepliesGoHome
<1>1. SessionInv => RepliesGoHome
  BY DEF SessionInv
<1> QED
  BY <1>1, SessionsSafe, PTL

(* A session without an origin is about to have its client's request read, *)
(* or its client's connection was reset before that.                       *)
UnconnectedInv ==
  Running => \A i \in DOMAIN nodes : nodes[i].sfd = -1 =>
    \/ Resets
    \/ /\ pc = "client" /\ i = cur
       /\ nodes[i].cfd \in ready /\ sock[nodes[i].cfd].type = "client"

LEMMA UnconnectedKept ==
  ASSUME ProxyInv, UnconnectedInv, HandleClientRecv, "refused" \notin Faults
  PROVE  UnconnectedInv'
<1>1. PICK x \in Items :
        /\ ClientRead(x)
        /\ ClientGone \/ Refused(x) \/ ConnectedTo(x) \/ DiesConnected
  BY ClientWays
<1>2. /\ pc = "client" /\ UNCHANGED <<cur, peer>> /\ Running
      /\ cur \in DOMAIN nodes /\ nodes \in Seq(Node) /\ node.cfd \in Fd
  BY <1>1, CurrentSession DEF ClientRead, Running, ProxyInv, ProxyTypeOK
<1>3. \A i \in DOMAIN nodes : nodes[i].sfd = -1 =>
        Resets \/ (i = cur /\ sock[node.cfd].type = "client")
  BY <1>2 DEF UnconnectedInv, node
(* The read of a client's socket fails only after a reset.                 *)
<1>4. CASE ClientGone
  <2>1. sock[node.cfd].type = "client" => Resets
    <3> SUFFICES ASSUME sock[node.cfd].type = "client" PROVE Resets
      OBVIOUS
    <3>1. PICK c \in Conn : sock[node.cfd] = ClientSock(c)
      BY <1>2, ClientSocket DEF ProxyInv, ProxyTypeOK
    <3>2. inbox[c] # <<>> => Head(inbox[c]) \in Request
      BY DEF ProxyInv, ProxyTypeOK
    <3>3. Err \notin Request /\ Err # Eof
      BY RequestIsNoItem DEF Err, Eof
    <3>4. Yields(node.cfd, Err) /\ node.cfd # -1
      BY <1>2, <1>4, ProxyAssumption DEF ClientGone
    <3>5. peer[c] = "rst"
      BY <3>1, <3>2, <3>3, <3>4, SocketFields DEF Yields
    <3> QED
      BY <3>5 DEF Resets
  <2>2. nodes' = nodes /\ (Resets' <=> Resets)
    BY <1>2, <1>4 DEF ClientGone, Resets
  <2> QED
    BY <1>3, <2>1, <2>2 DEF UnconnectedInv
<1>5. CASE ConnectedTo(x)
  <2>1. /\ nodes' = [nodes EXCEPT ![cur].sfd = NewFd]
        /\ NewFd # -1 /\ NewFd \in Fd /\ NewFd # ListenFd
    <3>1. PICK req \in Request \cup {NoReq}, w \in BOOLEAN : sock' = Connected(req, w)
      BY <1>5 DEF ConnectedTo
    <3>2. NewFd \in Fd /\ NewFd # ListenFd
      BY <1>2, ConnectedShape
    <3> QED
      BY <1>5, <3>2, ProxyAssumption DEF ConnectedTo
  <2>2. /\ DOMAIN nodes' = DOMAIN nodes /\ nodes'[cur].sfd # -1
        /\ \A i \in DOMAIN nodes : i # cur => nodes'[i] = nodes[i]
    BY <1>2, <2>1, SessionConnected
  <2>3. Resets' <=> Resets
    BY <1>2 DEF Resets
  <2> QED
    BY <1>3, <2>2, <2>3 DEF UnconnectedInv
<1>6. CASE DiesConnected
  BY <1>6 DEF DiesConnected, UnconnectedInv, Running
<1> QED
  BY <1>1, <1>4, <1>5, <1>6 DEF Refused

LEMMA UnconnectedAccepted ==
  ASSUME ProxyInv, UnconnectedInv, Accept
  PROVE  UnconnectedInv'
<1>1. PICK f \in Fd :
        /\ sock'[f] = ClientSock(Head(backlog))
        /\ pc = "accept" /\ peer' = peer
        /\ \/ pc' = "crashed"
           \/ /\ ready' = ready \cup {f}
              /\ nodes' = Append(nodes, NewSession(f))
              /\ cur' = Len(nodes) + 1
              /\ pc' = "client"
  BY AcceptWays
<1>2. CASE pc' = "crashed"
  BY <1>2 DEF UnconnectedInv, Running
<1>3. CASE pc' # "crashed"
  <2> DEFINE n == NewSession(f)
  <2>1. n.cfd = f
    BY DEF NewSession
  <2> HIDE DEF n
  <2>2. /\ nodes \in Seq(Node) /\ nodes' = Append(nodes, n)
        /\ cur' = Len(nodes) + 1 /\ pc' = "client" /\ ready' = ready \cup {f}
    BY <1>1, <1>3 DEF n, ProxyInv, ProxyTypeOK
  <2>3. /\ DOMAIN nodes' = DOMAIN nodes \cup {cur'} /\ nodes'[cur'] = n
        /\ \A i \in DOMAIN nodes : nodes'[i] = nodes[i]
    BY <2>2
  <2>4. \A i \in DOMAIN nodes : nodes[i].sfd = -1 => Resets'
    BY <1>1 DEF UnconnectedInv, Running, Resets
  <2>5. sock'[f].type = "client"
    BY <1>1, SocketFields
  <2> QED
    BY <2>1, <2>2, <2>3, <2>4, <2>5 DEF UnconnectedInv
<1> QED
  BY <1>2, <1>3

LEMMA UnconnectedElsewhere ==
  ASSUME ProxyInv, UnconnectedInv,
         \/ Select \/ SkipClient \/ SkipServer \/ AcceptFails \/ HandleServerRecv
         \/ Clients \/ UNCHANGED proxyVars
  PROVE  UnconnectedInv'
<1>1. CASE Clients \/ UNCHANGED proxyVars
  <2>1. UNCHANGED <<pc, cur, ready, sock, nodes>>
    BY <1>1 DEF Clients, Connect, Send, SendRest, Leave, procVars, proxyVars
  <2>2. Resets => Resets'
    <3>1. peer \in [Conn -> {"new", "open", "fin", "rst"}]
      BY DEF ProxyInv, ProxyTypeOK
    <3>2. CASE Clients
      <4>1. PICK c \in Conn : Connect(c) \/ Send(c) \/ SendRest(c) \/ Leave(c)
        BY <3>2 DEF Clients
      <4> QED
        BY <3>1, <4>1 DEF Connect, Send, SendRest, Leave, Resets
    <3>3. CASE UNCHANGED proxyVars
      BY <3>3 DEF proxyVars, envVars, Resets
    <3> QED
      BY <1>1, <3>2, <3>3
  <2> QED
    BY <2>1, <2>2 DEF UnconnectedInv, Running
<1>2. CASE SkipClient
  <2>1. pc = "client" /\ UNCHANGED <<nodes, peer>> /\ node.cfd \notin ready
    BY <1>2 DEF SkipClient, envVars
  <2>2. \A i \in DOMAIN nodes : nodes[i].sfd = -1 => Resets
    BY <2>1 DEF UnconnectedInv, Running, node
  <2> QED
    BY <2>1, <2>2 DEF UnconnectedInv, Resets
<1>3. CASE Select \/ SkipServer \/ AcceptFails \/ HandleServerRecv
  <2>1. pc \in {"select", "accept", "server"} /\ UNCHANGED <<nodes, peer>>
    <3>1. CASE HandleServerRecv
      BY <3>1, ServerWays
         DEF ServerRead, Relayed, Mistaken, DiesReading, Finish, FinishFrame
    <3> QED
      BY <1>3, <3>1 DEF Select, SkipServer, AcceptFails, envVars
  <2>2. \A i \in DOMAIN nodes : nodes[i].sfd = -1 => Resets
    BY <2>1 DEF UnconnectedInv, Running
  <2> QED
    BY <2>1, <2>2 DEF UnconnectedInv, Resets
<1> QED
  BY <1>1, <1>2, <1>3

(* handle_server_recv waits for nothing but the answer to its own client's *)
(* request, or, once a client's connection has been reset, for an answer   *)
(* nobody asked for. Nor does it read descriptor -1 before that, wherever  *)
(* the bit FD_ISSET(-1) looks at lies: a session whose client's request    *)
(* has been read has an origin.                                            *)
THEOREM OwnAnswerAwaited ==
  ASSUME "refused" \notin Faults
  PROVE  ProxySpec => []WaitsForOwnAnswer
<1>1. ProxyInv /\ SessionInv /\ UnconnectedInv => WaitsForOwnAnswer
  <2> SUFFICES ASSUME ProxyInv, SessionInv, UnconnectedInv,
                      pc = "server", Bit(node.sfd) \in ready
               PROVE  \/ node.sfd = -1 /\ Resets
                      \/ /\ node.sfd # -1
                         /\ sock[node.sfd].type = "origin"
                         /\ IF sock[node.sfd].req = NoReq THEN Resets
                            ELSE sock[node.cfd] = ClientSock(sock[node.sfd].req.from)
    BY DEF WaitsForOwnAnswer, Resets
  <2>1. Running /\ cur \in DOMAIN nodes /\ ready \subseteq Fd /\ node.sfd \in Fd \cup {-1}
    BY CurrentSession DEF Running, ProxyInv, ProxyTypeOK
  <2>2. CASE node.sfd = -1
    BY <2>1, <2>2 DEF UnconnectedInv, node
  <2>3. CASE node.sfd # -1
    <3>1. node.sfd \in ready /\ node.sfd \in Fd
      BY <2>1, <2>3 DEF Bit
    <3>2. sock[node.sfd].type = "origin"
      BY <2>1, <2>3 DEF SessionInv, SessionsOwnOrigins, Running, node
    <3>3. AskedForClient /\ AskedOrReset
      BY <2>1 DEF SessionInv
    <3> QED
      BY <2>3, <3>1, <3>2, <3>3 DEF AskedForClient, AskedOrReset
  <2> QED
    BY <2>2, <2>3
<1>2. ProxyInit => UnconnectedInv
  BY DEF ProxyInit, UnconnectedInv
<1>3. ProxyInv /\ UnconnectedInv /\ [ProxyNext]_proxyVars => UnconnectedInv'
  BY UnconnectedKept, UnconnectedAccepted, UnconnectedElsewhere DEF ProxyNext, Loop
<1>4. ProxySpec => []SessionInv
  BY SessionsSafe
<1> QED
  BY <1>1, <1>2, <1>3, <1>4, ProxySafe, PTL DEF ProxySpec

-----------------------------------------------------------------------------
(***************************************************************************)
(* Without faults. One connection is served at a time, and what the loop   *)
(* watches, owns and logs can be said exactly.                             *)
(***************************************************************************)

QuietPeers ==
  \A c \in Conn : /\ peer[c] \in {"new", "open"}
                  /\ \A i \in DOMAIN inbox[c] : inbox[c][i].kind # "bad"

LoneClient(f) ==
  sock[f].type = "client" /\ \A g \in Fd : sock[g].type = "client" => g = f

(* No connection is taken up: between two, and while the loop passes over  *)
(* the sessions before the one it has just served.                         *)
Idle ==
  /\ ready = {ListenFd}
  /\ \A f \in Fd : sock[f].type # "client"
  /\ \A i \in DOMAIN nodes : nodes[i].sfd # -1

(* The newest session waits for its client's request ...                   *)
Reading ==
  /\ pc = "client" /\ cur = Len(nodes)
  /\ ready = {ListenFd, node.cfd}
  /\ LoneClient(node.cfd)
  /\ \A i \in DOMAIN nodes : nodes[i].sfd = -1 <=> i = cur

(* ... and for the origin's answer.                                        *)
Awaiting ==
  /\ pc = "server" /\ cur = Len(nodes)
  /\ ready = {ListenFd, node.cfd, node.sfd}
  /\ LoneClient(node.cfd)
  /\ \A i \in DOMAIN nodes : nodes[i].sfd # -1

QuietInv ==
  /\ QuietPeers
  /\ pc # "exited"
  /\ pc # "crashed" => Idle \/ Reading \/ Awaiting

(* The read of a client's socket returns what the client has sent.         *)
LEMMA QuietReads ==
  ASSUME ProxyInv, QuietPeers, Reading, NEW x \in Items, ClientRead(x)
  PROVE  /\ x \in Request /\ x.kind # "bad"
         /\ \E c \in Conn : /\ sock[node.cfd] = ClientSock(c)
                            /\ inbox[c] # <<>> /\ x = Head(inbox[c])
<1>1. /\ pc = "client" /\ Yields(node.cfd, x)
      /\ node.cfd \in Fd /\ sock \in [Fd -> Sock] /\ inbox \in [Conn -> Seq(Request)]
  BY CurrentSession DEF ClientRead, ProxyInv, ProxyTypeOK
<1>2. PICK c \in Conn : sock[node.cfd] = ClientSock(c)
  BY <1>1, ClientSocket DEF Reading, LoneClient
<1>3. inbox[c] # <<>> /\ x = Head(inbox[c])
  <2>1. peer[c] # "rst" /\ peer[c] # "fin"
    BY DEF QuietPeers
  <2>2. node.cfd # -1
    BY <1>1, ProxyAssumption
  <2> QED
    BY <1>1, <1>2, <2>1, <2>2, SocketFields DEF Yields
<1>4. inbox[c] \in Seq(Request)
  BY <1>1
<1>5. x \in Request /\ x = inbox[c][1] /\ 1 \in DOMAIN inbox[c]
  BY <1>3, <1>4
<1> QED
  BY <1>2, <1>3, <1>5 DEF QuietPeers

(* What handle_client_recv does: the request goes out on a connection of   *)
(* its own, or that is the last descriptor.                                *)
QuietlyAsked(x) ==
  \E w \in BOOLEAN :
    /\ sock' = Connected(x, w)
    /\ nodes' = [nodes EXCEPT ![cur].sfd = NewFd]
    /\ ready' = ready \cup {NewFd}
    /\ pc' = "server" /\ ~TableFull(sock')
    /\ IF x.kind = "chunk" THEN AskChunk(node.cfd) ELSE UNCHANGED bitrateVars

QuietlyDead ==
  /\ sock' = Connected(NoReq, FALSE) /\ TableFull(sock')
  /\ pc' = "crashed" /\ UNCHANGED <<ready, nodes>> /\ UNCHANGED bitrateVars

LEMMA QuietClient ==
  ASSUME Faults = {}, ProxyInv, QuietPeers, Reading, HandleClientRecv
  PROVE  \E x \in Request :
           /\ ClientRead(x) /\ x.kind # "bad"
           /\ \E c \in Conn : /\ sock[node.cfd] = ClientSock(c)
                              /\ inbox[c] # <<>> /\ x = Head(inbox[c])
           /\ QuietlyAsked(x) \/ QuietlyDead
<1>0. \A x \in Items : ClientRead(x) =>
        /\ x \in Request /\ x.kind # "bad"
        /\ \E c \in Conn : /\ sock[node.cfd] = ClientSock(c)
                           /\ inbox[c] # <<>> /\ x = Head(inbox[c])
  BY QuietReads
<1>1. ~ClientReadFails /\ ~RejectRequest /\ ~EofRequest /\ ~EofRequestCrashes /\ ~ConnectFails
  <2>1. Err \notin Request /\ Eof \notin Request
    BY RequestIsNoItem
  <2>2. \A x \in Request : x.kind = "bad" => ~ClientRead(x)
    BY <1>0, ReadItems
  <2> QED
    BY <1>0, <2>1, <2>2, ReadItems
       DEF ClientReadFails, RejectRequest, EofRequest, EofRequestCrashes, ConnectFails
<1>2. CASE ConnectExhaustsTable
  <2>1. PICK x \in Items : ClientRead(x)
    BY <1>2, ReadItems DEF ConnectExhaustsTable
  <2>2. QuietlyDead
    BY <1>2 DEF ConnectExhaustsTable, QuietlyDead
  <2> QED
    BY <1>0, <2>1, <2>2
<1>3. CASE ForwardPage
  <2>1. PICK x \in Request : /\ x.kind = "page" /\ ClientRead(x)
                             /\ WriteRequest(x, x.whole) /\ UNCHANGED bitrateVars
    BY <1>3 DEF ForwardPage
  <2>2. x.whole \in BOOLEAN
    BY DEF Request
  <2>3. QuietlyAsked(x)
    BY <2>1, <2>2 DEF WriteRequest, Connects, QuietlyAsked
  <2> QED
    BY <1>0, <2>1, <2>3, ReadItems
<1>4. CASE ForwardChunk
  <2>1. PICK x \in Request : /\ x.kind = "chunk" /\ ClientRead(x) /\ AskChunk(node.cfd)
                             /\ \E w \in BOOLEAN : WriteRequest(x, w)
    BY <1>4 DEF ForwardChunk
  <2>2. QuietlyAsked(x)
    BY <2>1 DEF WriteRequest, Connects, QuietlyAsked
  <2> QED
    BY <1>0, <2>1, <2>2, ReadItems
<1> QED
  BY <1>1, <1>2, <1>3, <1>4 DEF HandleClientRecv

(* The origin's handler is reached with an answer to read, or not at all.  *)
LEMMA ServerIsAwaiting ==
  ASSUME ProxyInv, Idle \/ Reading \/ Awaiting, pc = "server"
  PROVE  /\ Bit(node.sfd) \in ready <=> Awaiting
         /\ Awaiting => node.sfd \in Fd /\ node.sfd \in ready
<1>1. /\ cur \in DOMAIN nodes /\ node.cfd # ListenFd
      /\ node.sfd \in Fd \cup {-1} /\ node.sfd # ListenFd
  BY CurrentSession
<1>2. Idle \/ Awaiting
  BY DEF Reading
<1>3. node.sfd # -1
  BY <1>1, <1>2 DEF Idle, Awaiting, node
<1>4. Bit(node.sfd) = node.sfd
  BY <1>3 DEF Bit
<1>5. CASE Idle
  BY <1>1, <1>4, <1>5 DEF Idle, Awaiting
<1>6. CASE Awaiting
  BY <1>1, <1>3, <1>4, <1>6 DEF Awaiting
<1> QED
  BY <1>2, <1>5, <1>6

LEMMA QuietServer ==
  ASSUME Faults = {}, ProxyInv, SessionInv, Idle \/ Reading \/ Awaiting, HandleServerRecv
  PROVE  /\ Awaiting /\ Relayed
         /\ IF sock[node.sfd].req.kind = "chunk"
            THEN ChunkReceived(node.cfd) ELSE UNCHANGED bitrateVars
<1>1. pc = "server" /\ Bit(node.sfd) \in ready /\ Running
  BY ServerWays DEF ServerRead, Running
<1>2. Awaiting /\ node.sfd \in Fd
  BY <1>1, ServerIsAwaiting
<1>3. cur \in DOMAIN nodes /\ node.sfd # -1
  BY <1>1, <1>2, CurrentSession, ProxyAssumption
<1>4. sock[node.sfd].type = "origin"
  BY <1>1, <1>3 DEF SessionInv, SessionsOwnOrigins, Running, node
<1>5. \A x : ~Yields(node.sfd, x)
  BY <1>3, <1>4 DEF Yields
<1>6. CASE RelayPage
  BY <1>2, <1>6 DEF RelayPage, Relayed
<1>7. CASE RelayChunk
  BY <1>2, <1>7 DEF RelayChunk, Relayed
<1> QED
  BY <1>5, <1>6, <1>7 DEF HandleServerRecv, RelayChunkCrashes, NoResponse, RelayForeign

LEMMA QuietAccepted ==
  ASSUME ProxyInv, QuietInv, Accept
  PROVE  QuietInv'
<1>1. PICK f \in Fd :
        /\ sock[f] = Free /\ f # ListenFd
        /\ sock'[f] = ClientSock(Head(backlog))
        /\ \A g \in Fd : g # f => sock'[g] = sock[g]
        /\ pc = "accept" /\ UNCHANGED <<inbox, sent, peer, replies>>
        /\ \/ pc' = "crashed"
           \/ /\ ready' = ready \cup {f}
              /\ nodes' = Append(nodes, NewSession(f))
              /\ cur' = Len(nodes) + 1
              /\ pc' = "client"
  BY AcceptWays
<1>2. QuietPeers'
  BY <1>1 DEF QuietInv, QuietPeers
<1>3. CASE pc' = "crashed"
  BY <1>2, <1>3 DEF QuietInv
<1>4. CASE pc' # "crashed"
  <2>1. Idle /\ nodes \in Seq(Node)
    BY <1>1 DEF QuietInv, Reading, Awaiting, ProxyInv, ProxyTypeOK
  <2> DEFINE n == NewSession(f)
  <2>2. n.cfd = f /\ n.sfd = -1 /\ n \in Node
    BY DEF NewSession, Node
  <2> HIDE DEF n
  <2>3. nodes' = Append(nodes, n) /\ ready' = {ListenFd, f} /\ pc' = "client"
    BY <1>1, <1>4, <2>1 DEF n, Idle
  <2>4. /\ Len(nodes) \in Nat /\ Len(nodes') = Len(nodes) + 1
        /\ DOMAIN nodes' = DOMAIN nodes \cup {Len(nodes) + 1}
        /\ Len(nodes) + 1 \notin DOMAIN nodes
        /\ nodes'[Len(nodes) + 1] = n
        /\ \A i \in DOMAIN nodes : nodes'[i] = nodes[i]
    BY <2>1, <2>2, <2>3
  <2>5. cur' = Len(nodes') /\ node' = n
    BY <1>1, <1>4, <2>4 DEF node
  <2>6. LoneClient(f)'
    BY <1>1, <2>1, SocketFields DEF LoneClient, Idle
  <2>7. \A i \in DOMAIN nodes' : nodes'[i].sfd = -1 <=> i = cur'
    BY <2>1, <2>2, <2>4, <2>5 DEF Idle
  <2>8. Reading'
    BY <2>2, <2>3, <2>5, <2>6, <2>7 DEF Reading, LoneClient
  <2> QED
    BY <1>2, <2>3, <2>8 DEF QuietInv
<1> QED
  BY <1>3, <1>4

(* Taking requests out of the streams leaves the others.                   *)
LEMMA QuietConsumed ==
  ASSUME ProxyInv, QuietPeers, peer' = peer,
         NEW c \in Conn, inbox[c] # <<>>, inbox' = [inbox EXCEPT ![c] = Tail(@)]
  PROVE  QuietPeers'
<1>1. inbox \in [Conn -> Seq(Request)]
  BY DEF ProxyInv, ProxyTypeOK
<1>2. \A i \in DOMAIN Tail(inbox[c]) :
        Tail(inbox[c])[i] = inbox[c][i + 1] /\ i + 1 \in DOMAIN inbox[c]
  BY <1>1
<1> QED
  BY <1>1, <1>2 DEF QuietPeers

(* A session that reads has no old origin to close.                        *)
LEMMA ReadingConnects ==
  ASSUME ProxyInv, Reading, NEW req \in Request \cup {NoReq}, NEW w \in BOOLEAN,
         sock' = Connected(req, w)
  PROVE  /\ NewFd \in Fd /\ sock[NewFd] = Free /\ NewFd # ListenFd /\ NewFd # node.cfd
         /\ sock'[NewFd] = OriginSock(req, w)
         /\ \A f \in Fd : f # NewFd => sock'[f] = sock[f]
<1>1. pc = "client" /\ cur \in DOMAIN nodes /\ sock \in [Fd -> Sock]
  BY CurrentSession DEF Reading, ProxyInv, ProxyTypeOK
<1>2. node.sfd = -1
  BY <1>1 DEF Reading, node
<1>3. OldClosed = sock
  BY <1>2, ProxyAssumption DEF OldClosed, Close
<1>4. NewFd # node.cfd
  <2>1. sock[node.cfd] # Free
    BY SocketFields DEF Reading, LoneClient
  <2> QED
    BY <1>1, <1>3, <2>1, ConnectedShape
<1> QED
  BY <1>1, <1>3, <1>4, ConnectedShape

LEMMA QuietKept ==
  ASSUME Faults = {}, ProxyInv, QuietInv, HandleClientRecv
  PROVE  QuietInv' /\ Reading /\ (pc' # "crashed" => Awaiting')
<1>0. /\ pc = "client" /\ node.cfd \in ready /\ cur \in DOMAIN nodes
      /\ node.cfd \in Fd /\ node.cfd # ListenFd
  <2>1. \E x \in Items : ClientRead(x)
    BY ClientWays
  <2> QED
    BY <2>1, CurrentSession DEF ClientRead
<1>1. Reading
  BY <1>0 DEF QuietInv, Idle, Awaiting
<1>2. PICK x \in Request :
        /\ ClientRead(x) /\ x.kind # "bad"
        /\ \E c \in Conn : /\ sock[node.cfd] = ClientSock(c)
                           /\ inbox[c] # <<>> /\ x = Head(inbox[c])
        /\ QuietlyAsked(x) \/ QuietlyDead
  BY <1>1, QuietClient DEF QuietInv
<1>3. QuietPeers'
  <2>1. PICK c \in Conn : sock[node.cfd] = ClientSock(c) /\ inbox[c] # <<>>
    BY <1>2
  <2>2. inbox' = [inbox EXCEPT ![c] = Tail(@)] /\ peer' = peer
    <3>1. sock[node.cfd].conn = c
      BY <2>1, SocketFields
    <3>2. Consume(node.cfd, x) /\ peer' = peer
      BY <1>2 DEF ClientRead
    <3> QED
      BY <3>1, <3>2 DEF Consume
  <2> QED
    BY <2>1, <2>2, QuietConsumed DEF QuietInv
<1>4. CASE QuietlyDead
  BY <1>1, <1>3, <1>4 DEF QuietlyDead, QuietInv
<1>5. CASE QuietlyAsked(x)
  <2>1. PICK w \in BOOLEAN : sock' = Connected(x, w)
    BY <1>5 DEF QuietlyAsked
  <2>2. /\ NewFd \in Fd /\ NewFd # ListenFd /\ NewFd # node.cfd
        /\ sock'[NewFd] = OriginSock(x, w)
        /\ \A f \in Fd : f # NewFd => sock'[f] = sock[f]
    BY <1>1, <2>1, ReadingConnects
  <2>3. /\ nodes' = [nodes EXCEPT ![cur].sfd = NewFd] /\ ready' = ready \cup {NewFd}
        /\ pc' = "server" /\ cur' = cur
    BY <1>2, <1>5 DEF QuietlyAsked, ClientRead
  <2>4. nodes' \in Seq(Node) /\ Len(nodes') = Len(nodes) /\ DOMAIN nodes' = DOMAIN nodes
        /\ nodes'[cur].sfd = NewFd /\ nodes'[cur].cfd = nodes[cur].cfd
        /\ \A i \in DOMAIN nodes : i # cur => nodes'[i] = nodes[i]
    BY <1>0, <2>2, <2>3, CurrentSession, SessionConnected
  <2>5. node'.sfd = NewFd /\ node'.cfd = node.cfd
    BY <1>0, <2>3, <2>4 DEF node
  <2>6. LoneClient(node.cfd) /\ ready' = {ListenFd, node.cfd, NewFd} /\ cur' = Len(nodes')
    BY <1>1, <2>3, <2>4 DEF Reading
  <2>7. LoneClient(node.cfd)'
    BY <1>0, <2>2, <2>5, <2>6, SocketFields DEF LoneClient
  <2>8. \A i \in DOMAIN nodes' : nodes'[i].sfd # -1
    <3>1. NewFd # -1
      BY <2>2, ProxyAssumption
    <3> QED
      BY <1>1, <2>4, <3>1 DEF Reading
  <2>9. Awaiting'
    BY <2>3, <2>5, <2>6, <2>7, <2>8 DEF Awaiting
  <2> QED
    BY <1>1, <1>3, <2>3, <2>9 DEF QuietInv
<1> QED
  BY <1>2, <1>4, <1>5

LEMMA QuietServed ==
  ASSUME Faults = {}, ProxyInv, SessionInv, QuietInv, HandleServerRecv
  PROVE  QuietInv' /\ Awaiting /\ Idle' /\ pc' \in {"select", "client"}
<1>0. pc = "server" /\ cur \in DOMAIN nodes
  BY ServerWays, CurrentSession DEF ServerRead
<1>1. Awaiting /\ Relayed
  BY <1>0, QuietServer DEF QuietInv
<1>2. /\ node.sfd \in Fd
      /\ ready' = ready \ {node.cfd, node.sfd}
      /\ sock' = Close(Drained, node.cfd)
      /\ NextSession /\ UNCHANGED <<nodes, backlog, inbox, sent, peer>>
  BY <1>1 DEF Relayed, Answered, Finish, FinishFrame
<1>3. node.cfd \in Fd /\ node.cfd # ListenFd /\ node.sfd # ListenFd
  BY <1>0, CurrentSession
<1>4. ready' = {ListenFd}
  BY <1>1, <1>2, <1>3 DEF Awaiting
<1>5. /\ sock'[node.cfd] = Free
      /\ node.sfd # node.cfd => sock'[node.sfd].type = "origin"
      /\ \A f \in Fd : f # node.cfd /\ f # node.sfd => sock'[f] = sock[f]
  BY <1>2, <1>3, DrainedShape, CloseShape
<1>6. \A f \in Fd : sock'[f].type # "client"
  BY <1>1, <1>5, SocketFields DEF Awaiting, LoneClient
<1>7. Idle'
  BY <1>1, <1>2, <1>4, <1>6 DEF Awaiting, Idle
<1>8. QuietPeers'
  BY <1>2 DEF QuietInv, QuietPeers
<1>9. pc' \in {"select", "client"}
  BY <1>2 DEF NextSession
<1> QED
  BY <1>1, <1>7, <1>8, <1>9 DEF QuietInv

LEMMA QuietPassed ==
  ASSUME Faults = {}, ProxyInv, QuietInv, Select \/ SkipClient \/ SkipServer \/ AcceptFails
  PROVE  QuietInv' /\ Idle /\ Idle' /\ pc' # "crashed"
<1>1. /\ UNCHANGED <<sock, nodes>> /\ UNCHANGED <<backlog, inbox, sent, peer, replies>>
      /\ pc \notin {"crashed", "exited"}
  BY DEF Select, SkipClient, SkipServer, AcceptFails, envVars
<1>2. QuietPeers'
  BY <1>1 DEF QuietInv, QuietPeers
<1>3. Idle
  <2>1. CASE Select
    BY <2>1 DEF Select, QuietInv, Reading, Awaiting
  <2>2. CASE SkipClient
    BY <2>2 DEF SkipClient, QuietInv, Reading, Awaiting
  <2>3. CASE SkipServer
    <3>1. pc = "server" /\ Bit(node.sfd) \notin ready
      BY <2>3 DEF SkipServer
    <3>2. ~Awaiting
      BY <1>1, <3>1, ServerIsAwaiting DEF QuietInv
    <3> QED
      BY <3>1, <3>2 DEF QuietInv, Reading
  <2> QED
    BY <2>1, <2>2, <2>3 DEF AcceptFails
<1>4. ready' = ready
  BY <1>3 DEF Select, SkipClient, SkipServer, AcceptFails, Idle
<1>5. pc' \in {"accept", "client", "server", "select"}
  BY DEF Select, SkipClient, SkipServer, AcceptFails, NextSession
<1> QED
  BY <1>1, <1>2, <1>3, <1>4, <1>5 DEF QuietInv, Idle

LEMMA QuietClients ==
  ASSUME Faults = {}, ProxyInv, QuietPeers, Clients
  PROVE  QuietPeers'
<1>1. PICK c \in Conn : Connect(c) \/ Send(c) \/ SendRest(c) \/ Leave(c)
  BY DEF Clients
<1>2. /\ inbox \in [Conn -> Seq(Request)]
      /\ peer \in [Conn -> {"new", "open", "fin", "rst"}]
  BY DEF ProxyInv, ProxyTypeOK
<1>3. CASE Connect(c)
  BY <1>2, <1>3 DEF Connect, QuietPeers
<1>4. CASE Send(c)
  <2>1. PICK k \in Kinds, w \in Arrives : \E r \in (IF k = "chunk" THEN ReqRates ELSE {100}) :
          inbox' = [inbox EXCEPT ![c] =
                      Append(@, [from |-> c, kind |-> k, rate |-> r, whole |-> w])]
    BY <1>4 DEF Send
  <2>2. PICK r \in (IF k = "chunk" THEN ReqRates ELSE {100}) :
          inbox' = [inbox EXCEPT ![c] =
                      Append(@, [from |-> c, kind |-> k, rate |-> r, whole |-> w])]
    BY <2>1
  <2> DEFINE x == [from |-> c, kind |-> k, rate |-> r, whole |-> w]
  <2>3. x.kind # "bad" /\ inbox[c] = <<>> /\ peer' = peer
    BY <1>4 DEF Kinds, Send
  <2> HIDE DEF x
  <2>4. inbox' = [inbox EXCEPT ![c] = Append(@, x)]
    BY <2>2 DEF x
  <2>5. inbox'[c] = <<x>>
    BY <1>2, <2>3, <2>4
  <2> QED
    BY <1>2, <2>3, <2>4, <2>5 DEF QuietPeers
<1>5. CASE SendRest(c)
  <2> DEFINE x == [Head(inbox[c]) EXCEPT !.whole = TRUE]
  <2>1. inbox[c] \in Seq(Request) /\ inbox[c] # <<>> /\ peer' = peer
    BY <1>2, <1>5 DEF SendRest
  <2>2. Head(inbox[c]) \in Request /\ Tail(inbox[c]) \in Seq(Request)
        /\ Head(inbox[c]) = inbox[c][1] /\ 1 \in DOMAIN inbox[c]
    BY <2>1
  <2>3. x \in Request /\ x.kind = Head(inbox[c]).kind
    BY <2>2 DEF Request
  <2> HIDE DEF x
  <2>4. inbox' = [inbox EXCEPT ![c] = <<x>> \o Tail(@)]
    BY <1>5 DEF SendRest, x
  <2>5. /\ DOMAIN (<<x>> \o Tail(inbox[c])) = DOMAIN inbox[c]
        /\ \A i \in DOMAIN inbox[c] :
             (<<x>> \o Tail(inbox[c]))[i] = IF i = 1 THEN x ELSE inbox[c][i]
    BY <2>1, <2>2, <2>3, SMTT(30)
  <2>6. x.kind # "bad"
    BY <2>2, <2>3 DEF QuietPeers
  <2> QED
    BY <1>2, <2>1, <2>4, <2>5, <2>6 DEF QuietPeers
<1> QED
  BY <1>1, <1>3, <1>4, <1>5 DEF Leave

(* What the clients do leaves the phases alone.                            *)
LEMMA PhasesKept ==
  ASSUME UNCHANGED <<pc, cur, ready, sock, nodes>>
  PROVE  /\ (Idle' <=> Idle) /\ (Reading' <=> Reading) /\ (Awaiting' <=> Awaiting)
         /\ (QuietInv /\ QuietPeers' => QuietInv')
<1>1. Idle' <=> Idle
  BY DEF Idle
<1>2. node' = node
  BY DEF node
<1>3. LoneClient(node.cfd)' <=> LoneClient(node.cfd)
  BY <1>2 DEF LoneClient
<1>4. Reading' <=> Reading
  BY <1>2, <1>3 DEF Reading
<1>5. Awaiting' <=> Awaiting
  BY <1>2, <1>3 DEF Awaiting
<1> QED
  BY <1>1, <1>4, <1>5 DEF QuietInv

LEMMA ClientsFrame ==
  ASSUME Clients
  PROVE  UNCHANGED <<pc, cur, ready, sock, nodes, replies>> /\ UNCHANGED bitrateVars
BY DEF Clients, Connect, Send, SendRest, Leave, procVars

LEMMA StutterFrame ==
  ASSUME UNCHANGED proxyVars
  PROVE  /\ UNCHANGED <<pc, cur, ready, sock, nodes, replies>>
         /\ UNCHANGED <<backlog, inbox, sent, peer>> /\ UNCHANGED bitrateVars
BY DEF proxyVars, procVars, envVars

LEMMA QuietInitInv == ASSUME ProxyInit PROVE QuietInv
<1>1. /\ pc = "select" /\ nodes = <<>> /\ ready = {ListenFd}
      /\ \A c \in Conn : inbox[c] = <<>> /\ peer[c] = "new"
      /\ \A f \in Fd : sock[f] \in {Free, Listener}
  BY ProxyAssumption DEF ProxyInit
<1> QED
  BY <1>1, SocketFields DEF QuietInv, QuietPeers, Idle

(* The loop without faults: at most one connection taken up, its session   *)
(* the newest, and the set exactly the listener and that session's two.    *)
THEOREM QuietLoop ==
  ASSUME Faults = {}
  PROVE  ProxySpec => []QuietInv
<1>1. ProxyInit => QuietInv
  BY QuietInitInv
<1>2. ProxyInv /\ SessionInv /\ QuietInv /\ [ProxyNext]_proxyVars => QuietInv'
  <2> SUFFICES ASSUME ProxyInv, SessionInv, QuietInv, [ProxyNext]_proxyVars PROVE QuietInv'
    OBVIOUS
  <2>1. CASE Select \/ SkipClient \/ SkipServer \/ AcceptFails
    BY <2>1, QuietPassed
  <2>2. CASE Accept
    BY <2>2, QuietAccepted
  <2>3. CASE HandleClientRecv
    BY <2>3, QuietKept
  <2>4. CASE HandleServerRecv
    BY <2>4, QuietServed
  <2>5. CASE Clients
    BY <2>5, QuietClients, ClientsFrame, PhasesKept DEF QuietInv
  <2>6. CASE UNCHANGED proxyVars
    <3>1. QuietPeers'
      BY <2>6, StutterFrame DEF QuietInv, QuietPeers
    <3> QED
      BY <2>6, <3>1, StutterFrame, PhasesKept
  <2> QED
    BY <2>1, <2>2, <2>3, <2>4, <2>5, <2>6 DEF ProxyNext, Loop
<1>3. ProxySpec => []SessionInv
  BY SessionsSafe
<1> QED
  BY <1>1, <1>2, <1>3, ProxySafe, PTL DEF ProxySpec

(* Whenever main is back at select every session has been served, its      *)
(* socket closed and its numbers taken out of the set.                     *)
THEOREM OnlyListener ==
  ASSUME Faults = {}
  PROVE  ProxySpec => []OnlyListenerWatched
<1>1. QuietInv => OnlyListenerWatched
  BY DEF QuietInv, Idle, Reading, Awaiting, OnlyListenerWatched
<1> QED
  BY <1>1, QuietLoop, PTL

(***************************************************************************)
(* The proxy without faults takes the steps of Relay.                      *)
(***************************************************************************)

BeingServed == {c \in Conn : \E f \in Fd : sock[f] = ClientSock(c)}
HaveAnswer == {c \in Conn : replies[c] # <<>>}

(* Between two connections nobody is served; otherwise the lone client is. *)
LEMMA IdleServesNone == ASSUME Idle PROVE BeingServed = {}
BY SocketFields DEF Idle, BeingServed

LEMMA LoneIsServed ==
  ASSUME ProxyInv, NEW f \in Fd, LoneClient(f)
  PROVE  \E c \in Conn : sock[f] = ClientSock(c) /\ BeingServed = {c}
<1>1. sock[f] \in Sock /\ sock[f].type = "client"
  BY DEF ProxyInv, ProxyTypeOK, LoneClient
<1>2. PICK c \in Conn : sock[f] = ClientSock(c)
  BY <1>1, ClientSocket
<1>3. \A d \in Conn, g \in Fd : sock[g] = ClientSock(d) => d = c
  <2> SUFFICES ASSUME NEW d \in Conn, NEW g \in Fd, sock[g] = ClientSock(d)
               PROVE  d = c
    OBVIOUS
  <2>1. g = f
    BY SocketFields DEF LoneClient
  <2> QED
    BY <1>2, <2>1, SocketFields
<1> QED
  BY <1>2, <1>3 DEF BeingServed

LEMMA AcceptTakesUp ==
  ASSUME ProxyInv, QuietInv, Accept
  PROVE  Abs!TakeUp
<1>1. PICK f \in Fd :
        /\ backlog \in Seq(Conn) /\ backlog # <<>> /\ backlog' = Tail(backlog)
        /\ Head(backlog) \in Conn
        /\ sock'[f] = ClientSock(Head(backlog))
        /\ \A g \in Fd : g # f => sock'[g] = sock[g]
        /\ pc = "accept" /\ UNCHANGED <<inbox, sent, peer, replies>>
  BY AcceptWays
<1>2. Idle
  BY <1>1 DEF QuietInv, Reading, Awaiting
<1>3. BeingServed = {}
  BY <1>2, IdleServesNone
<1>4. BeingServed' = {Head(backlog)}
  BY <1>1, <1>2, SocketFields DEF BeingServed, Idle
<1>5. HaveAnswer' = HaveAnswer
  BY <1>1 DEF HaveAnswer
<1> QED
  BY <1>1, <1>3, <1>4, <1>5 DEF Abs!TakeUp, BeingServed, HaveAnswer

LEMMA RelayAnswers ==
  ASSUME Faults = {}, ProxyInv, SessionInv, QuietInv, HandleServerRecv
  PROVE  Abs!Answer
<1>1. Awaiting /\ Relayed /\ Idle'
  BY QuietServed, QuietServer DEF QuietInv, Running
<1>2. node.cfd \in Fd /\ replies \in [Conn -> Seq(Reply)]
  BY <1>1, CurrentSession DEF Awaiting, ProxyInv, ProxyTypeOK
<1>3. PICK c \in Conn : sock[node.cfd] = ClientSock(c) /\ BeingServed = {c}
  BY <1>1, <1>2, LoneIsServed DEF Awaiting
<1>4. BeingServed' = {}
  <2>1. \A f \in Fd : sock'[f].type # "client"
    BY <1>1 DEF Idle
  <2> QED
    BY <2>1, SocketFields DEF BeingServed
<1>5. PICK whole \in BOOLEAN :
        Deliver(node.cfd, [to |-> sock[node.sfd].req, whole |-> whole])
  BY <1>1 DEF Relayed
<1> DEFINE reply == [to |-> sock[node.sfd].req, whole |-> whole]
<1>6. replies' = [replies EXCEPT ![c] = Append(@, reply)]
  <2>1. peer[c] # "rst"
    BY DEF QuietInv, QuietPeers
  <2>2. sock[node.cfd].type = "client" /\ sock[node.cfd].conn = c
    BY <1>3, SocketFields
  <2> QED
    BY <1>5, <2>1, <2>2 DEF Deliver
<1>7. reply \in Reply
  <2>1. sock[node.sfd] \in Sock /\ sock[node.sfd].type = "origin" /\ sock[node.sfd].req # NoReq
    BY <1>1 DEF Relayed, Answered, ProxyInv, ProxyTypeOK
  <2>2. sock[node.sfd].req \in Request
    BY <2>1, OriginSocket, SocketFields
  <2> QED
    BY <2>2 DEF Reply
<1> HIDE DEF reply
<1>8. replies'[c] # <<>> /\ \A d \in Conn : d # c => replies'[d] = replies[d]
  <2>1. replies'[c] = Append(replies[c], reply) /\ replies[c] \in Seq(Reply)
    BY <1>2, <1>6
  <2> QED
    BY <1>2, <1>6, <1>7, <2>1
<1>9. HaveAnswer' = HaveAnswer \cup BeingServed
  BY <1>3, <1>8 DEF HaveAnswer
<1>10. backlog' = backlog
  BY <1>1 DEF Relayed, Finish, FinishFrame
<1> QED
  BY <1>3, <1>4, <1>9, <1>10 DEF Abs!Answer, BeingServed, HaveAnswer

LEMMA RelayArrives ==
  ASSUME PlaceInv, Clients
  PROVE  (\E c \in Conn : Abs!Arrive(c)) \/ UNCHANGED Abs!relayVars
<1>1. PICK c \in Conn : Connect(c) \/ Send(c) \/ SendRest(c) \/ Leave(c)
  BY DEF Clients
<1>2. sock' = sock /\ replies' = replies
  BY ClientsFrame
<1>3. CASE Connect(c)
  <2>1. peer[c] = "new" /\ backlog' = Append(backlog, c)
    BY <1>3 DEF Connect
  <2>2. ~Waits(c) /\ ~OnSocket(c) /\ replies[c] = <<>>
    BY <2>1 DEF PlaceInv, NowhereElse, NewUnanswered
  <2> QED
    BY <1>2, <2>1, <2>2 DEF Abs!Arrive, Waits, OnSocket
<1>4. CASE ~Connect(c)
  <2>1. backlog' = backlog
    BY <1>1, <1>4 DEF Send, SendRest, Leave
  <2> QED
    BY <1>2, <2>1 DEF Abs!relayVars
<1> QED
  BY <1>3, <1>4

(* A client's request leaves its socket where it was.                      *)
LEMMA RelayWaits ==
  ASSUME Faults = {}, ProxyInv, QuietInv, HandleClientRecv
  PROVE  UNCHANGED Abs!relayVars
<1>1. pc = "client" /\ Reading
  BY QuietKept DEF Reading
<1>2. PICK x \in Request :
        ClientRead(x) /\ (QuietlyAsked(x) \/ QuietlyDead)
  BY <1>1, QuietClient DEF QuietInv
<1>3. UNCHANGED <<backlog, replies>>
  BY <1>2 DEF ClientRead
<1>4. \E req \in Request \cup {NoReq}, w \in BOOLEAN : sock' = Connected(req, w)
  BY <1>2 DEF QuietlyAsked, QuietlyDead
<1>5. PICK req \in Request \cup {NoReq}, w \in BOOLEAN : sock' = Connected(req, w)
  BY <1>4
<1>6. /\ NewFd \in Fd /\ sock[NewFd] = Free /\ sock'[NewFd] = OriginSock(req, w)
      /\ \A f \in Fd : f # NewFd => sock'[f] = sock[f]
  BY <1>1, <1>5, ReadingConnects
<1>7. \A f \in Fd, c \in Conn : sock'[f] = ClientSock(c) <=> sock[f] = ClientSock(c)
  <2>1. \A c : ClientSock(c) # Free /\ ClientSock(c) # OriginSock(req, w)
    BY SocketFields
  <2> QED
    BY <1>6, <2>1
<1>8. BeingServed' = BeingServed
  BY <1>7 DEF BeingServed
<1> QED
  BY <1>3, <1>8 DEF Abs!relayVars, BeingServed

(* The proxy that meets no fault takes connections up one at a time, first *)
(* come first served, and answers each before the next: the steps of       *)
(* Relay. That it gets round to them is RelaySpec's fairness, for TLC.     *)
THEOREM RelaysInOrder ==
  ASSUME Faults = {}
  PROVE  ProxySpec => Abs!RelayInit /\ [][Abs!RelayNext]_(Abs!relayVars)
<1>1. ProxyInit => Abs!RelayInit
  <2> SUFFICES ASSUME ProxyInit PROVE Abs!RelayInit
    OBVIOUS
  <2>1. Idle /\ backlog = <<>> /\ \A c \in Conn : replies[c] = <<>>
    BY SocketFields DEF ProxyInit, Idle
  <2> QED
    BY <2>1, IdleServesNone DEF Abs!RelayInit, BeingServed
<1>2. ProxyInv /\ SessionInv /\ QuietInv /\ PlaceInv /\ [ProxyNext]_proxyVars
        => [Abs!RelayNext]_(Abs!relayVars)
  <2> SUFFICES ASSUME ProxyInv, SessionInv, QuietInv, PlaceInv, [ProxyNext]_proxyVars
               PROVE  Abs!RelayNext \/ UNCHANGED Abs!relayVars
    OBVIOUS
  <2>1. CASE Select \/ SkipClient \/ SkipServer \/ AcceptFails
    <3>1. UNCHANGED <<sock, backlog, replies>>
      BY <2>1 DEF Select, SkipClient, SkipServer, AcceptFails, envVars
    <3> QED
      BY <3>1 DEF Abs!relayVars
  <2>2. CASE Accept
    BY <2>2, AcceptTakesUp DEF Abs!RelayNext
  <2>3. CASE HandleClientRecv
    BY <2>3, RelayWaits
  <2>4. CASE HandleServerRecv
    BY <2>4, RelayAnswers DEF Abs!RelayNext
  <2>5. CASE Clients
    BY <2>5, RelayArrives DEF Abs!RelayNext
  <2>6. CASE UNCHANGED proxyVars
    BY <2>6, StutterFrame DEF Abs!relayVars
  <2> QED
    BY <2>1, <2>2, <2>3, <2>4, <2>5, <2>6 DEF ProxyNext, Loop
<1>3. ProxySpec => []SessionInv
  BY SessionsSafe
<1>4. ProxySpec => []QuietInv
  BY QuietLoop
<1> QED
  BY <1>1, <1>2, <1>3, <1>4, ProxySafe, ConnectionsInOnePlace, PTL DEF ProxySpec

(***************************************************************************)
(* Descriptors counted: each session has left one origin connection open.  *)
(***************************************************************************)

UsedFds(s) == {f \in Fd : s[f] # Free}
OriginFds(s) == {f \in Fd : s[f].type = "origin"}

CountInv ==
  /\ pc # "crashed" =>
       /\ Cardinality(OriginFds(sock)) = Len(nodes) - (IF Reading THEN 1 ELSE 0)
       /\ Cardinality(UsedFds(sock)) = Len(nodes) + (IF Awaiting THEN 2 ELSE 1)
  /\ pc = "crashed" => Len(nodes) = Cardinality(Fd) - 2

LEMMA IdleIsNoOther ==
  /\ Idle => ~Reading /\ ~Awaiting
  /\ Idle' => ~Reading' /\ ~Awaiting'
BY ProxyAssumption DEF Idle, Reading, Awaiting, LoneClient

LEMMA TableCounts ==
  ASSUME NEW s
  PROVE  /\ IsFiniteSet(UsedFds(s)) /\ IsFiniteSet(OriginFds(s))
         /\ Cardinality(UsedFds(s)) \in Nat /\ Cardinality(OriginFds(s)) \in Nat
         /\ Cardinality(Fd) \in Nat /\ Cardinality(UsedFds(s)) <= Cardinality(Fd)
         /\ TableFull(s) <=> Cardinality(UsedFds(s)) = Cardinality(Fd)
<1>1. IsFiniteSet(Fd)
  BY ProxyAssumption
<1>2. UsedFds(s) \in SUBSET Fd /\ OriginFds(s) \in SUBSET Fd
  BY DEF UsedFds, OriginFds
<1>3. /\ IsFiniteSet(UsedFds(s)) /\ IsFiniteSet(OriginFds(s))
      /\ Cardinality(UsedFds(s)) <= Cardinality(Fd)
      /\ Cardinality(UsedFds(s)) = Cardinality(Fd) => UsedFds(s) = Fd
  BY <1>1, <1>2, FS_Subset
<1>4. TableFull(s) <=> UsedFds(s) = Fd
  BY DEF TableFull, FreeFds, UsedFds
<1> QED
  BY <1>1, <1>3, <1>4, FS_CardinalityType

LEMMA CountAccepted ==
  ASSUME ProxyInv, QuietInv, CountInv, Accept
  PROVE  CountInv'
<1>1. PICK f \in Fd :
        /\ sock[f] = Free
        /\ sock'[f] = ClientSock(Head(backlog))
        /\ \A g \in Fd : g # f => sock'[g] = sock[g]
        /\ pc = "accept"
        /\ \/ pc' = "crashed" /\ TableFull(sock') /\ UNCHANGED <<ready, nodes>>
           \/ nodes' = Append(nodes, NewSession(f)) /\ pc' = "client" /\ ~TableFull(sock')
  BY AcceptWays
<1>2. Idle /\ ~Reading /\ ~Awaiting
  BY <1>1 DEF QuietInv, Reading, Awaiting
<1>3. UsedFds(sock') = UsedFds(sock) \cup {f} /\ f \notin UsedFds(sock)
  BY <1>1, SockKinds DEF UsedFds
<1>4. OriginFds(sock') = OriginFds(sock)
  BY <1>1, SocketFields DEF OriginFds
<1>5. Cardinality(UsedFds(sock')) = Len(nodes) + 2
  <2>1. Cardinality(UsedFds(sock')) = Cardinality(UsedFds(sock)) + 1
    BY <1>3, TableCounts, FS_AddElement
  <2> QED
    BY <1>1, <1>2, <2>1 DEF CountInv, ProxyInv, ProxyTypeOK
<1>6. Cardinality(OriginFds(sock')) = Len(nodes)
  BY <1>1, <1>2, <1>4 DEF CountInv, ProxyInv, ProxyTypeOK
<1>7. nodes \in Seq(Node) /\ Len(nodes) \in Nat
  BY DEF ProxyInv, ProxyTypeOK
<1>8. CASE pc' = "crashed"
  <2>1. Cardinality(UsedFds(sock')) = Cardinality(Fd) /\ nodes' = nodes
    BY <1>1, <1>8, TableCounts
  <2> QED
    BY <1>5, <1>7, <1>8, <2>1, TableCounts DEF CountInv
<1>9. CASE pc' # "crashed"
  <2>1. Len(nodes') = Len(nodes) + 1 /\ pc' = "client"
    BY <1>1, <1>7, <1>9
  <2>2. Reading' /\ ~Awaiting'
    <3>1. ~Idle'
      BY <1>1, SocketFields DEF Idle
    <3> QED
      BY <1>9, <2>1, <3>1, QuietAccepted DEF QuietInv, Awaiting
  <2> QED
    BY <1>5, <1>6, <1>7, <1>9, <2>1, <2>2 DEF CountInv
<1> QED
  BY <1>8, <1>9

LEMMA CountKept ==
  ASSUME Faults = {}, ProxyInv, QuietInv, CountInv, HandleClientRecv
  PROVE  CountInv'
<1>1. Reading /\ ~Awaiting /\ pc = "client" /\ (pc' # "crashed" => Awaiting')
  BY QuietKept DEF Reading, Awaiting
<1>2. PICK x \in Request : QuietlyAsked(x) \/ QuietlyDead
  BY <1>1, QuietClient DEF QuietInv
<1>3. PICK req \in Request \cup {NoReq}, w \in BOOLEAN : sock' = Connected(req, w)
  BY <1>2 DEF QuietlyAsked, QuietlyDead
<1>4. /\ NewFd \in Fd /\ sock[NewFd] = Free /\ sock'[NewFd] = OriginSock(req, w)
      /\ \A f \in Fd : f # NewFd => sock'[f] = sock[f]
  BY <1>1, <1>3, ReadingConnects
<1>5. UsedFds(sock') = UsedFds(sock) \cup {NewFd} /\ NewFd \notin UsedFds(sock)
  BY <1>4, SockKinds DEF UsedFds
<1>6. OriginFds(sock') = OriginFds(sock) \cup {NewFd} /\ NewFd \notin OriginFds(sock)
  BY <1>4, SocketFields DEF OriginFds
<1>7. /\ Cardinality(UsedFds(sock')) = Cardinality(UsedFds(sock)) + 1
      /\ Cardinality(OriginFds(sock')) = Cardinality(OriginFds(sock)) + 1
  <2> DEFINE U == UsedFds(sock)
             O == OriginFds(sock)
  <2>1. IsFiniteSet(U) /\ IsFiniteSet(O)
    BY TableCounts
  <2>2. UsedFds(sock') = U \cup {NewFd} /\ NewFd \notin U
    BY <1>5
  <2>3. OriginFds(sock') = O \cup {NewFd} /\ NewFd \notin O
    BY <1>6
  <2> HIDE DEF U, O
  <2>4. Cardinality(U \cup {NewFd}) = Cardinality(U) + 1
    BY <2>1, <2>2, FS_AddElement
  <2>5. Cardinality(O \cup {NewFd}) = Cardinality(O) + 1
    BY <2>1, <2>3, FS_AddElement
  <2> QED
    BY <2>2, <2>3, <2>4, <2>5 DEF U, O
<1>8. nodes \in Seq(Node) /\ Len(nodes) \in Nat
  BY DEF ProxyInv, ProxyTypeOK
<1>9. /\ Cardinality(UsedFds(sock')) = Len(nodes) + 2
      /\ Cardinality(OriginFds(sock')) = Len(nodes)
  BY <1>1, <1>7, <1>8 DEF CountInv
<1>10. CASE QuietlyDead
  <2>1. pc' = "crashed" /\ nodes' = nodes /\ TableFull(sock')
    BY <1>10 DEF QuietlyDead
  <2> QED
    BY <1>8, <1>9, <2>1, TableCounts DEF CountInv
<1>11. CASE QuietlyAsked(x)
  <2>1. nodes' = [nodes EXCEPT ![cur].sfd = NewFd] /\ pc' = "server"
    BY <1>11 DEF QuietlyAsked
  <2>2. Len(nodes') = Len(nodes)
    BY <1>1, <1>3, <2>1, ReadingConnects, SessionConnected
  <2>3. Awaiting' /\ ~Reading'
    BY <1>1, <2>1 DEF Reading
  <2> QED
    BY <1>8, <1>9, <2>1, <2>2, <2>3 DEF CountInv
<1> QED
  BY <1>2, <1>10, <1>11

LEMMA CountServed ==
  ASSUME Faults = {}, ProxyInv, SessionInv, QuietInv, CountInv, HandleServerRecv
  PROVE  CountInv'
<1>1. /\ Awaiting /\ ~Reading /\ Idle' /\ ~Reading' /\ ~Awaiting' /\ Relayed
      /\ pc' \in {"select", "client"} /\ pc = "server"
  <2>1. Awaiting /\ Idle' /\ pc' \in {"select", "client"} /\ pc = "server"
    BY QuietServed DEF Awaiting
  <2>2. Relayed
    BY <2>1, QuietServer
  <2> QED
    BY <2>1, <2>2, IdleIsNoOther DEF Reading
<1>2. /\ node.sfd \in Fd /\ sock[node.sfd].type = "origin"
      /\ sock' = Close(Drained, node.cfd) /\ nodes' = nodes
  BY <1>1 DEF Relayed, Answered, Finish, FinishFrame
<1>3. node.cfd \in Fd /\ sock[node.cfd].type = "client" /\ node.cfd # node.sfd
  BY <1>1, <1>2, CurrentSession DEF Awaiting, LoneClient
<1>4. /\ sock'[node.cfd] = Free /\ sock'[node.sfd].type = "origin"
      /\ \A f \in Fd : f # node.cfd /\ f # node.sfd => sock'[f] = sock[f]
  BY <1>2, <1>3, DrainedShape, CloseShape
<1>5. UsedFds(sock') = UsedFds(sock) \ {node.cfd} /\ node.cfd \in UsedFds(sock)
  BY <1>2, <1>3, <1>4, SocketFields DEF UsedFds
<1>6. OriginFds(sock') = OriginFds(sock)
  BY <1>2, <1>3, <1>4, SocketFields DEF OriginFds
<1>7. Cardinality(UsedFds(sock')) = Cardinality(UsedFds(sock)) - 1
  BY <1>5, TableCounts, FS_RemoveElement
<1>8. nodes \in Seq(Node) /\ Len(nodes) \in Nat
  BY DEF ProxyInv, ProxyTypeOK
<1> QED
  BY <1>1, <1>2, <1>6, <1>7, <1>8 DEF CountInv

LEMMA CountInit == ASSUME ProxyInit PROVE CountInv
<1>1. /\ pc = "select" /\ Len(nodes) = 0 /\ sock[ListenFd] = Listener
      /\ \A f \in Fd : f # ListenFd => sock[f] = Free
  BY ProxyAssumption DEF ProxyInit
<1>2. UsedFds(sock) = {ListenFd} /\ OriginFds(sock) = {}
  BY <1>1, SockKinds, SocketFields, ProxyAssumption DEF UsedFds, OriginFds
<1>3. ~Reading /\ ~Awaiting
  BY <1>1 DEF Reading, Awaiting
<1>4. Cardinality(UsedFds(sock)) = 1 /\ Cardinality(OriginFds(sock)) = 0
  BY <1>2, FS_Singleton, FS_EmptySet
<1> DEFINE n == Len(nodes)
           r == IF Reading THEN 1 ELSE 0
           a == IF Awaiting THEN 2 ELSE 1
<1>5. n = 0 /\ r = 0 /\ a = 1
  BY <1>1, <1>3, Zenon
<1> HIDE DEF n, r, a
<1>6. n - r = 0 /\ n + a = 1
  BY <1>5
<1>7. /\ Len(nodes) - (IF Reading THEN 1 ELSE 0) = 0
      /\ Len(nodes) + (IF Awaiting THEN 2 ELSE 1) = 1
  BY <1>6, Zenon DEF n, r, a
<1> QED
  BY <1>1, <1>4, <1>7 DEF CountInv

(* How many descriptors are taken at each point, for any table and any     *)
(* number of connections.                                                  *)
THEOREM DescriptorsCounted ==
  ASSUME Faults = {}
  PROVE  ProxySpec => []CountInv
<1>1. ProxyInit => CountInv
  BY CountInit
<1>2. ProxyInv /\ SessionInv /\ QuietInv /\ CountInv /\ [ProxyNext]_proxyVars => CountInv'
  <2> SUFFICES ASSUME ProxyInv, SessionInv, QuietInv, CountInv, [ProxyNext]_proxyVars
               PROVE  CountInv'
    OBVIOUS
  <2>1. CASE Select \/ SkipClient \/ SkipServer \/ AcceptFails
    <3>1. Idle /\ Idle' /\ pc' # "crashed" /\ pc # "crashed" /\ UNCHANGED <<sock, nodes>>
      BY <2>1, QuietPassed DEF Select, SkipClient, SkipServer, AcceptFails
    <3>2. ~Reading /\ ~Awaiting /\ ~Reading' /\ ~Awaiting'
      BY <3>1, IdleIsNoOther
    <3> QED
      BY <3>1, <3>2 DEF CountInv
  <2>2. CASE Accept
    BY <2>2, CountAccepted
  <2>3. CASE HandleClientRecv
    BY <2>3, CountKept
  <2>4. CASE HandleServerRecv
    BY <2>4, CountServed
  <2>5. CASE Clients \/ UNCHANGED proxyVars
    <3>1. UNCHANGED <<pc, cur, ready, sock, nodes>>
      BY <2>5, ClientsFrame, StutterFrame
    <3> QED
      BY <3>1, PhasesKept DEF CountInv
  <2> QED
    BY <2>1, <2>2, <2>3, <2>4, <2>5 DEF ProxyNext, Loop
<1>3. ProxySpec => []SessionInv
  BY SessionsSafe
<1>4. ProxySpec => []QuietInv
  BY QuietLoop
<1> QED
  BY <1>1, <1>2, <1>3, <1>4, ProxySafe, PTL DEF ProxySpec

(* Each answered connection leaves exactly one origin connection behind.   *)
THEOREM OneOriginPerSession ==
  ASSUME Faults = {}
  PROVE  ProxySpec => []OriginsLeaked
<1>1. ProxyInv /\ CountInv => OriginsLeaked
  BY DEF CountInv, Reading, OriginsLeaked, OriginFds, ProxyInv, ProxyTypeOK
<1>2. ProxySpec => []CountInv
  BY DescriptorsCounted
<1> QED
  BY <1>1, <1>2, ProxySafe, PTL

(* Those are all that can end it: a proxy that meets no fault dies at the  *)
(* connection that finds the table full, and not before. For a table of n  *)
(* descriptors that is connection n - 1.                                   *)
THEOREM DiesWhenTableIsFull ==
  ASSUME Faults = {}
  PROVE  ProxySpec => []DiesOfLeaksOnly
<1>1. ProxyInv /\ QuietInv /\ CountInv => DiesOfLeaksOnly
  <2> SUFFICES ASSUME ProxyInv, QuietInv, CountInv PROVE DiesOfLeaksOnly
    OBVIOUS
  <2>1. Len(nodes) \in Nat
    BY DEF ProxyInv, ProxyTypeOK
  <2>2. CASE pc = "crashed"
    BY <2>1, <2>2, TableCounts DEF CountInv, DiesOfLeaksOnly
  <2>3. CASE pc # "crashed"
    <3>1. ~TableFull(sock)
      BY <2>3 DEF ProxyInv, RunningHasDescriptor, QuietInv
    <3> QED
      BY <2>1, <2>3, <3>1, TableCounts DEF CountInv, DiesOfLeaksOnly
  <2> QED
    BY <2>2, <2>3
<1>2. ProxySpec => []CountInv
  BY DescriptorsCounted
<1>3. ProxySpec => []QuietInv
  BY QuietLoop
<1> QED
  BY <1>1, <1>2, <1>3, ProxySafe, PTL

(***************************************************************************)
(* The log. Every connection is accepted on the one number, so the proxy   *)
(* has one tracker for all of its clients.                                 *)
(***************************************************************************)

LowFd == Lowest(Fd \ {ListenFd})

ClientsLow ==
  pc # "crashed" =>
    sock[LowFd].type # "origin" /\ (Reading \/ Awaiting => node.cfd = LowFd)

ChunkAwaited == Awaiting /\ sock[node.sfd].req.kind = "chunk"

OneTracker == Len(trackers) = 1 /\ trackers[1].fd = LowFd

(* All that was asked for is logged; the last chunk is still listed.       *)
Settled ==
  /\ Len(tlog) = asked
  /\ IF asked = 0 THEN trackers = <<>>
     ELSE /\ OneTracker
          /\ Len(trackers[1].chunks) = 1
          /\ trackers[1].chunks[1].seg = asked
          /\ trackers[1].tput = tlog[asked].tput

(* A chunk is on its way, and the one before it still listed behind it.    *)
Pending ==
  /\ asked # 0 /\ Len(tlog) = asked - 1
  /\ OneTracker
  /\ LET c == trackers[1].chunks IN
       /\ Len(c) = IF asked = 1 THEN 1 ELSE 2
       /\ c[1].seg = asked
       /\ c[Len(c)].seg = IF asked = 1 THEN 1 ELSE asked - 1
  /\ BestFor(trackers[1].rate, IF asked = 1 THEN 100 ELSE tlog[asked - 1].tput)

LogInv ==
  /\ LogLagsByOne
  /\ ClientsInheritEstimate
  /\ pc # "crashed" => IF ChunkAwaited THEN Pending ELSE Settled

LEMMA LowFdIsLeast ==
  LowFd \in Fd /\ LowFd # ListenFd /\ \A f \in Fd \ {ListenFd} : LowFd <= f
<1>1. Fd \ {ListenFd} \in SUBSET Nat /\ Fd \ {ListenFd} # {}
  BY BitrateAssumption, ProxyAssumption
<1> QED
  BY <1>1, LowestIsMember DEF LowFd

(* accept finds the lowest number free: no client has it, nor an origin.   *)
LEMMA LowAccepted ==
  ASSUME ProxyInv, SessionInv, QuietInv, ClientsLow, Accept
  PROVE  ClientsLow'
<1>1. PICK f \in Fd :
        /\ f = Lowest(FreeFds(sock)) /\ sock[f] = Free /\ f # ListenFd
        /\ sock'[f] = ClientSock(Head(backlog))
        /\ \A g \in Fd : g # f => sock'[g] = sock[g]
        /\ pc = "accept"
        /\ \/ pc' = "crashed"
           \/ /\ nodes' = Append(nodes, NewSession(f))
              /\ cur' = Len(nodes) + 1
              /\ pc' = "client"
  BY AcceptWays
<1>2. Idle /\ OneListener /\ sock \in [Fd -> Sock] /\ nodes \in Seq(Node)
  BY <1>1 DEF QuietInv, Reading, Awaiting, SessionInv, Running, ProxyInv, ProxyTypeOK
<1>3. sock[LowFd] = Free
  <2>1. sock[LowFd] \in Sock /\ sock[LowFd].type # "client" /\ sock[LowFd].type # "origin"
    BY <1>1, <1>2, LowFdIsLeast DEF Idle, ClientsLow
  <2>2. sock[LowFd] # Listener
    BY <1>2, LowFdIsLeast DEF OneListener
  <2> QED
    BY <2>1, <2>2, SocketFields DEF Sock
<1>4. f = LowFd
  <2>1. FreeFds(sock) \in SUBSET Nat /\ LowFd \in FreeFds(sock)
    BY <1>3, LowFdIsLeast, BitrateAssumption DEF FreeFds
  <2>2. f <= LowFd
    BY <1>1, <2>1, LowestIsMember
  <2>3. LowFd <= f
    BY <1>1, LowFdIsLeast
  <2> QED
    BY <2>2, <2>3, LowFdIsLeast, BitrateAssumption
<1>5. CASE pc' # "crashed"
  <2> DEFINE n == NewSession(f)
  <2>1. n.cfd = f /\ n \in Node
    BY DEF NewSession, Node
  <2> HIDE DEF n
  <2>2. nodes' = Append(nodes, n) /\ cur' = Len(nodes) + 1
    BY <1>1, <1>5 DEF n
  <2>3. node'.cfd = f
    BY <1>2, <2>1, <2>2 DEF node
  <2>4. sock'[LowFd].type # "origin"
    BY <1>1, <1>4, SocketFields
  <2> QED
    BY <1>4, <2>3, <2>4 DEF ClientsLow
<1> QED
  BY <1>5 DEF ClientsLow

(* The new origin is the session's, with the request on it.                *)
LEMMA NewlyAwaiting ==
  ASSUME ProxyInv, Reading, NEW x \in Request, QuietlyAsked(x), cur' = cur
  PROVE  /\ node'.sfd = NewFd /\ node'.cfd = node.cfd
         /\ sock'[NewFd].req = x
<1>1. PICK w \in BOOLEAN : sock' = Connected(x, w)
  BY DEF QuietlyAsked
<1>2. NewFd \in Fd /\ NewFd # ListenFd /\ sock'[NewFd] = OriginSock(x, w)
  BY <1>1, ReadingConnects
<1>3. /\ pc = "client" /\ cur \in DOMAIN nodes
      /\ nodes' = [nodes EXCEPT ![cur].sfd = NewFd]
  BY CurrentSession DEF Reading, QuietlyAsked
<1>4. nodes'[cur].sfd = NewFd /\ nodes'[cur].cfd = nodes[cur].cfd
  BY <1>2, <1>3, SessionConnected
<1> QED
  BY <1>2, <1>4, SocketFields DEF node

LEMMA LowKept ==
  ASSUME Faults = {}, ProxyInv, QuietInv, ClientsLow, HandleClientRecv
  PROVE  ClientsLow'
<1>1. Reading /\ pc = "client" /\ node.cfd = LowFd /\ sock[LowFd].type # "origin"
  BY QuietKept DEF Reading, ClientsLow
<1>2. PICK x \in Request : ClientRead(x) /\ (QuietlyAsked(x) \/ QuietlyDead)
  BY <1>1, QuietClient DEF QuietInv
<1>3. CASE QuietlyAsked(x)
  <2>1. PICK w \in BOOLEAN : sock' = Connected(x, w)
    BY <1>3 DEF QuietlyAsked
  <2>2. NewFd # node.cfd /\ \A f \in Fd : f # NewFd => sock'[f] = sock[f]
    BY <1>1, <2>1, ReadingConnects
  <2>3. sock'[LowFd].type # "origin"
    BY <1>1, <2>2, LowFdIsLeast
  <2>4. node'.cfd = LowFd
    BY <1>1, <1>2, <1>3, NewlyAwaiting DEF ClientRead
  <2> QED
    BY <2>3, <2>4 DEF ClientsLow
<1> QED
  BY <1>2, <1>3 DEF QuietlyDead, ClientsLow

LEMMA LowServed ==
  ASSUME Faults = {}, ProxyInv, SessionInv, QuietInv, ClientsLow, HandleServerRecv
  PROVE  ClientsLow'
<1>1. Awaiting /\ Idle' /\ pc = "server" /\ node.cfd = LowFd
  BY QuietServed DEF Awaiting, ClientsLow
<1>2. Relayed
  BY <1>1, QuietServer
<1>3. node.sfd \in Fd /\ node.cfd \in Fd /\ sock' = Close(Drained, node.cfd)
  BY <1>1, <1>2, CurrentSession DEF Relayed, Answered, Finish, FinishFrame
<1>4. sock'[LowFd] = Free
  BY <1>1, <1>3, DrainedShape, CloseShape
<1> QED
  BY <1>1, <1>4, IdleIsNoOther, SocketFields DEF ClientsLow

LEMMA BitrateTypes ==
  ASSUME ProxyInv
  PROVE  /\ trackers \in Seq(Tracker) /\ tlog \in Seq(LogRecord) /\ asked \in Nat
         /\ BitrateInv
BY BitrateAssumption DEF ProxyInv, BitrateInv, BitrateTypeOK

(* A chunk is asked for: it is put before the one that is still listed.    *)
LEMMA AskedPending ==
  ASSUME ProxyInv, Settled, AskChunk(LowFd)
  PROVE  Pending' /\ tlog' = tlog
<1>0. LowFd \in Fd
  BY LowFdIsLeast
<1>1. asked' = asked + 1 /\ tlog' = tlog
  BY DEF AskChunk
<1>2. PICK old \in Tracker, k \in Nat :
        /\ k \in DOMAIN trackers' /\ k >= 1
        /\ trackers' \in Seq(Tracker)
        /\ old.fd = LowFd
        /\ trackers'[k] = WithChunk(old, asked + 1)
        /\ DOMAIN trackers' = DOMAIN trackers \cup {k}
        /\ \A i \in DOMAIN trackers : i # k => trackers'[i] = trackers[i]
        /\ IF k \in DOMAIN trackers THEN trackers[k] = old
           ELSE old.chunks = <<>> /\ \A i \in DOMAIN trackers : trackers[i].fd # LowFd
        /\ k \notin DOMAIN trackers => old.tput = 100
  BY <1>0, BitrateTypes, AskChunkEffect
<1>3. /\ trackers \in Seq(Tracker) /\ asked \in Nat /\ asked + 1 \in Nat
      /\ old.chunks \in Seq(Chunk)
  BY BitrateTypes DEF Tracker
<1> DEFINE c == trackers'[k].chunks
<1>4. /\ trackers'[k].fd = LowFd
      /\ Len(c) = Len(old.chunks) + 1
      /\ c[1].seg = asked + 1
      /\ \A i \in 2 .. Len(old.chunks) + 1 : c[i] = old.chunks[i - 1]
      /\ BestFor(trackers'[k].rate, old.tput)
  <2> DEFINE w == WithChunk(old, asked + 1)
             r == ChosenRate(old.tput)
  <2>1. /\ w.fd = old.fd
        /\ Len(w.chunks) = Len(old.chunks) + 1
        /\ w.chunks[1] = [seg |-> asked + 1, rate |-> r]
        /\ \A i \in 2 .. Len(old.chunks) + 1 : w.chunks[i] = old.chunks[i - 1]
        /\ w.rate = r
    BY <1>3, WithChunkShape
  <2>2. trackers'[k] = w /\ old.fd = LowFd
    BY <1>2
  <2>4. BestFor(r, old.tput)
    <3>1. old.tput \in Tputs
      BY DEF Tracker
    <3>2. old.tput \in Int
      BY <3>1, TputsAreIntegers
    <3> QED
      BY <3>2, ChosenRateFits
  <2> HIDE DEF w, r
  <2>3. w.chunks[1].seg = asked + 1
    BY <2>1
  <2> QED
    BY <2>1, <2>2, <2>3, <2>4
<1>5. CASE asked = 0
  <2>1. trackers = <<>> /\ Len(tlog) = 0
    BY <1>5 DEF Settled
  <2>2. k = 1 /\ Len(trackers') = 1 /\ Len(old.chunks) = 0
    <3>1. DOMAIN trackers = {} /\ k \notin DOMAIN trackers
      BY <2>1
    <3>2. DOMAIN trackers' = {k} /\ old.chunks = <<>>
      BY <1>2, <3>1
    <3>3. DOMAIN trackers' = 1 .. Len(trackers') /\ Len(trackers') \in Nat
      <4>1. trackers' \in Seq(Tracker)
        BY <1>2
      <4> QED
        BY <4>1
    <3> DEFINE n == Len(trackers')
               D == DOMAIN trackers'
    <3>4. D = {k} /\ D = 1 .. n /\ n \in Nat
      BY <3>2, <3>3
    <3> HIDE DEF n, D
    <3>5. k \in 1 .. n /\ n \in 1 .. n /\ 1 \in 1 .. n
      BY <3>4
    <3>6. k = 1 /\ n = 1
      BY <3>4, <3>5
    <3>7. Len(old.chunks) = 0
      BY <3>2
    <3> QED
      BY <3>6, <3>7 DEF n
  <2>3. Len(c) = 1 /\ c[1].seg = 1 /\ asked' = 1
    BY <1>1, <1>3, <1>4, <1>5, <2>2
  <2>4. BestFor(trackers'[1].rate, 100)
    <3>1. old.tput = 100
      BY <1>2, <2>1
    <3> QED
      BY <1>4, <2>2, <3>1
  <2> QED
    BY <1>1, <1>4, <2>1, <2>2, <2>3, <2>4 DEF Pending, OneTracker
<1>6. CASE asked # 0
  <2>1. /\ Len(tlog) = asked /\ Len(trackers) = 1 /\ trackers[1].fd = LowFd
        /\ Len(trackers[1].chunks) = 1 /\ trackers[1].chunks[1].seg = asked
        /\ trackers[1].tput = tlog[asked].tput
    BY <1>6 DEF Settled, OneTracker
  <2>2. DOMAIN trackers = {1}
    BY <1>3, <2>1
  <2>3. k = 1 /\ trackers[1] = old /\ Len(trackers') = 1
    <3>1. k \in DOMAIN trackers
      BY <1>2, <2>1, <2>2
    <3> QED
      BY <1>2, <2>2, <3>1
  <2>4. /\ Len(c) = 2 /\ c[1].seg = asked + 1 /\ c[2].seg = asked
        /\ asked' # 1 /\ asked' # 0 /\ asked' - 1 = asked
    BY <1>1, <1>3, <1>4, <1>6, <2>1, <2>3
  <2> HIDE DEF c
  <2>5. Len(c) = 2 /\ c[1].seg = asked' /\ c[Len(c)].seg = asked' - 1
    BY <1>1, <2>4
  <2>6. BestFor(trackers'[1].rate, tlog[asked].tput)
    BY <1>4, <2>1, <2>3
  <2>7. BestFor(trackers'[1].rate, IF asked' = 1 THEN 100 ELSE tlog'[asked' - 1].tput)
    BY <1>1, <2>4, <2>6
  <2> QED
    BY <1>1, <1>4, <2>1, <2>3, <2>4, <2>5, <2>7 DEF Pending, OneTracker, c
<1> QED
  BY <1>5, <1>6

(* Its answer: the older of the two is logged and taken off.               *)
LEMMA ReceivedSettled ==
  ASSUME ProxyInv, LogLagsByOne, ClientsInheritEstimate, Pending, ChunkReceived(LowFd)
  PROVE  Settled' /\ LogLagsByOne' /\ ClientsInheritEstimate'
<1>0. LowFd \in Fd
  BY LowFdIsLeast
<1>1. PICK k \in DOMAIN trackers, t \in Tputs, rec \in LogRecord :
        /\ trackers' \in Seq(Tracker)
        /\ DOMAIN trackers' = DOMAIN trackers
        /\ trackers'[k].fd = LowFd
        /\ trackers'[k].chunks = DropOldest(trackers[k].chunks)
        /\ trackers'[k].tput = rec.tput /\ rec.rate = trackers[k].rate
        /\ rec.file = trackers[k].chunks[Len(trackers[k].chunks)]
        /\ tlog' = Append(tlog, rec)
  BY <1>0, BitrateTypes, ChunkReceivedEffect
<1>2. /\ trackers \in Seq(Tracker) /\ tlog \in Seq(LogRecord) /\ asked \in Nat
      /\ asked' = asked
  BY BitrateTypes DEF ChunkReceived
<1>3. /\ asked # 0 /\ Len(tlog) = asked - 1 /\ Len(trackers) = 1
  BY DEF Pending, OneTracker
<1>4. DOMAIN trackers = {1} /\ k = 1 /\ Len(trackers') = 1
  BY <1>1, <1>2, <1>3
<1> DEFINE c == trackers[1].chunks
<1>5. c \in Seq(Chunk)
  <2>1. trackers \in Seq(Tracker) /\ 1 \in DOMAIN trackers
    BY <1>2, <1>4
  <2>2. trackers[1] \in Tracker
    BY <2>1
  <2> QED
    BY <2>2 DEF Tracker
<1>6. /\ Len(c) = IF asked = 1 THEN 1 ELSE 2
      /\ c[1].seg = asked
      /\ c[Len(c)].seg = IF asked = 1 THEN 1 ELSE asked - 1
  BY DEF Pending
<1>7. trackers'[1].chunks = DropOldest(c) /\ rec.file = c[Len(c)]
  BY <1>1, <1>4
<1> HIDE DEF c
<1>8. Len(DropOldest(c)) = 1 /\ DropOldest(c)[1].seg = asked
  <2>1. CASE asked = 1
    BY <1>6, <2>1 DEF DropOldest
  <2>2. CASE asked # 1
    <3>1. Len(c) = 2 /\ DropOldest(c) = SubSeq(c, 1, 1)
      BY <1>6, <2>2 DEF DropOldest
    <3>2. Len(SubSeq(c, 1, 1)) = 1 /\ SubSeq(c, 1, 1)[1] = c[1]
      BY <1>5, <3>1
    <3> QED
      BY <1>6, <3>1, <3>2
  <2> QED
    BY <2>1, <2>2
<1>9. Len(tlog') = asked /\ tlog'[asked].tput = trackers'[1].tput
  BY <1>1, <1>2, <1>3, <1>4
<1>10. Settled'
  BY <1>1, <1>2, <1>3, <1>4, <1>7, <1>8, <1>9 DEF Settled, OneTracker
<1>11. LogLagsByOne'
  <2>1. /\ DOMAIN tlog' = DOMAIN tlog \cup {asked} /\ asked \notin DOMAIN tlog
        /\ tlog'[asked] = rec /\ \A i \in DOMAIN tlog : tlog'[i] = tlog[i]
    BY <1>1, <1>2, <1>3
  <2>2. rec.file.seg = IF asked = 1 THEN 1 ELSE asked - 1
    BY <1>6, <1>7
  <2> QED
    BY <2>1, <2>2 DEF LogLagsByOne
<1>12. ClientsInheritEstimate'
  <2>1. /\ DOMAIN tlog' = 1 .. asked /\ DOMAIN tlog = 1 .. asked - 1
        /\ tlog'[asked] = rec /\ \A i \in 1 .. asked - 1 : tlog'[i] = tlog[i]
    BY <1>1, <1>2, <1>3
  <2>2. BestFor(rec.rate, IF asked = 1 THEN 100 ELSE tlog[asked - 1].tput)
    BY <1>1, <1>4 DEF Pending
  <2> SUFFICES ASSUME NEW i \in 1 .. asked
               PROVE  BestFor(tlog'[i].rate, IF i = 1 THEN 100 ELSE tlog'[i - 1].tput)
    BY <2>1 DEF ClientsInheritEstimate
  <2>3. i # 1 => tlog'[i - 1] = tlog[i - 1]
    BY <1>2, <2>1
  <2>4. CASE i = asked
    BY <2>1, <2>2, <2>3, <2>4
  <2>5. CASE i # asked
    <3>1. i \in DOMAIN tlog /\ tlog'[i] = tlog[i]
      BY <1>2, <2>1, <2>5
    <3>2. BestFor(tlog[i].rate, IF i = 1 THEN 100 ELSE tlog[i - 1].tput)
      BY <3>1 DEF ClientsInheritEstimate
    <3> QED
      BY <2>3, <3>1, <3>2
  <2> QED
    BY <2>4, <2>5
<1> QED
  BY <1>10, <1>11, <1>12

(* Nothing of the adaptation changes, nor whether a chunk is on its way.   *)
LEMMA LogUntouched ==
  ASSUME LogInv, UNCHANGED bitrateVars,
         pc' # "crashed" => pc # "crashed" /\ ~ChunkAwaited /\ ~ChunkAwaited'
  PROVE  LogInv'
<1>1. UNCHANGED <<trackers, asked, tlog>>
  BY DEF bitrateVars
<1>2. LogLagsByOne' /\ ClientsInheritEstimate'
  BY <1>1 DEF LogInv, LogLagsByOne, ClientsInheritEstimate
<1>3. Settled => Settled'
  BY <1>1 DEF Settled, OneTracker
<1> QED
  BY <1>2, <1>3 DEF LogInv

LEMMA LogKept ==
  ASSUME Faults = {}, ProxyInv, QuietInv, ClientsLow, LogInv, HandleClientRecv
  PROVE  LogInv'
<1>1. /\ Reading /\ ~Awaiting /\ pc = "client" /\ node.cfd = LowFd
      /\ pc' # "crashed" => Awaiting'
  BY QuietKept DEF Reading, Awaiting, ClientsLow
<1>2. PICK x \in Request : ClientRead(x) /\ (QuietlyAsked(x) \/ QuietlyDead)
  BY <1>1, QuietClient DEF QuietInv
<1>3. Settled /\ LogLagsByOne /\ ClientsInheritEstimate
  BY <1>1 DEF LogInv, ChunkAwaited
<1>4. CASE QuietlyDead
  BY <1>4, LogUntouched DEF QuietlyDead
<1>5. CASE QuietlyAsked(x)
  <2>1. sock'[(node.sfd)'].req = x /\ pc' = "server" /\ Awaiting'
    <3>1. cur' = cur /\ pc' = "server"
      BY <1>2, <1>5 DEF ClientRead, QuietlyAsked
    <3> QED
      BY <1>1, <1>5, <3>1, NewlyAwaiting
  <2>2. ChunkAwaited' <=> x.kind = "chunk"
    BY <2>1 DEF ChunkAwaited
  <2>3. CASE x.kind = "chunk"
    <3>1. Pending' /\ tlog' = tlog
      BY <1>1, <1>3, <1>5, <2>3, AskedPending DEF QuietlyAsked
    <3>2. LogLagsByOne' /\ ClientsInheritEstimate'
      BY <1>3, <3>1 DEF LogLagsByOne, ClientsInheritEstimate
    <3> QED
      BY <2>2, <2>3, <3>1, <3>2 DEF LogInv
  <2>4. CASE x.kind # "chunk"
    <3>1. UNCHANGED bitrateVars
      BY <1>5, <2>4 DEF QuietlyAsked
    <3> QED
      BY <1>1, <2>2, <2>4, <3>1, LogUntouched DEF ChunkAwaited
  <2> QED
    BY <2>3, <2>4
<1> QED
  BY <1>2, <1>4, <1>5

LEMMA LogServed ==
  ASSUME Faults = {}, ProxyInv, SessionInv, QuietInv, ClientsLow, LogInv, HandleServerRecv
  PROVE  LogInv'
<1>1. Awaiting /\ Idle' /\ pc = "server" /\ node.cfd = LowFd /\ pc' # "crashed"
  BY QuietServed DEF Awaiting, ClientsLow
<1>2. IF sock[node.sfd].req.kind = "chunk"
      THEN ChunkReceived(node.cfd) ELSE UNCHANGED bitrateVars
  BY <1>1, QuietServer
<1>3. ~ChunkAwaited'
  BY <1>1, IdleIsNoOther DEF ChunkAwaited
<1>4. CASE ChunkAwaited
  <2>1. Pending /\ LogLagsByOne /\ ClientsInheritEstimate
    BY <1>1, <1>4 DEF LogInv
  <2>2. ChunkReceived(LowFd)
    BY <1>1, <1>2, <1>4 DEF ChunkAwaited
  <2> QED
    BY <1>3, <2>1, <2>2, ReceivedSettled DEF LogInv
<1>5. CASE ~ChunkAwaited
  BY <1>1, <1>2, <1>3, <1>5, LogUntouched DEF ChunkAwaited
<1> QED
  BY <1>4, <1>5

LEMMA LogAccepted ==
  ASSUME ProxyInv, QuietInv, LogInv, Accept
  PROVE  LogInv'
<1>1. UNCHANGED bitrateVars /\ pc = "accept" /\ pc' \in {"crashed", "client"}
  BY AcceptWays
<1> QED
  BY <1>1, LogUntouched DEF ChunkAwaited, Awaiting

LEMMA LogPassed ==
  ASSUME Faults = {}, ProxyInv, QuietInv, ClientsLow, LogInv,
         Select \/ SkipClient \/ SkipServer \/ AcceptFails
  PROVE  ClientsLow' /\ LogInv'
<1>1. /\ Idle /\ Idle' /\ pc # "crashed" /\ UNCHANGED <<sock, nodes>>
      /\ UNCHANGED bitrateVars
  BY QuietPassed DEF Select, SkipClient, SkipServer, AcceptFails
<1>2. ~Reading' /\ ~Awaiting /\ ~Awaiting'
  BY <1>1, IdleIsNoOther
<1> QED
  BY <1>1, <1>2, LogUntouched DEF ClientsLow, ChunkAwaited

LEMMA LogFrame ==
  ASSUME UNCHANGED <<pc, cur, ready, sock, nodes>>, UNCHANGED bitrateVars,
         ClientsLow, LogInv
  PROVE  ClientsLow' /\ LogInv'
<1>1. node' = node
  BY DEF node
<1>2. ClientsLow'
  BY <1>1, PhasesKept DEF ClientsLow
<1>3. ChunkAwaited' <=> ChunkAwaited
  BY <1>1, PhasesKept DEF ChunkAwaited
<1>4. UNCHANGED <<trackers, asked, tlog>>
  BY DEF bitrateVars
<1>5. /\ (Settled' <=> Settled) /\ (Pending' <=> Pending)
      /\ (LogLagsByOne' <=> LogLagsByOne)
      /\ (ClientsInheritEstimate' <=> ClientsInheritEstimate)
  BY <1>4 DEF Settled, Pending, OneTracker, LogLagsByOne, ClientsInheritEstimate
<1> QED
  BY <1>2, <1>3, <1>5 DEF LogInv

LEMMA LogInitInv == ASSUME ProxyInit PROVE ClientsLow /\ LogInv
<1>1. pc = "select" /\ trackers = <<>> /\ asked = 0 /\ tlog = <<>>
  BY DEF ProxyInit, BitrateInit
<1>2. sock[LowFd] = Free
  BY LowFdIsLeast DEF ProxyInit
<1>3. ~Reading /\ ~Awaiting
  BY <1>1 DEF Reading, Awaiting
<1>4. Settled /\ LogLagsByOne /\ ClientsInheritEstimate
  BY <1>1 DEF Settled, LogLagsByOne, ClientsInheritEstimate
<1> QED
  BY <1>2, <1>3, <1>4, SocketFields DEF ClientsLow, LogInv, ChunkAwaited

(* All that is known of the log of a proxy that meets no fault.            *)
LEMMA LogStays ==
  ASSUME Faults = {}
  PROVE  ProxySpec => []LogInv
<1>1. ProxyInit => ClientsLow /\ LogInv
  BY LogInitInv
<1>2. ProxyInv /\ SessionInv /\ QuietInv /\ (ClientsLow /\ LogInv) /\ [ProxyNext]_proxyVars
        => ClientsLow' /\ LogInv'
  <2> SUFFICES ASSUME ProxyInv, SessionInv, QuietInv, ClientsLow, LogInv,
                      [ProxyNext]_proxyVars
               PROVE  ClientsLow' /\ LogInv'
    OBVIOUS
  <2>1. CASE Select \/ SkipClient \/ SkipServer \/ AcceptFails
    BY <2>1, LogPassed
  <2>2. CASE Accept
    BY <2>2, LowAccepted, LogAccepted
  <2>3. CASE HandleClientRecv
    BY <2>3, LowKept, LogKept
  <2>4. CASE HandleServerRecv
    BY <2>4, LowServed, LogServed
  <2>5. CASE Clients \/ UNCHANGED proxyVars
    <3>1. UNCHANGED <<pc, cur, ready, sock, nodes>> /\ UNCHANGED bitrateVars
      BY <2>5, ClientsFrame, StutterFrame
    <3> QED
      BY <3>1, LogFrame
  <2> QED
    BY <2>1, <2>2, <2>3, <2>4, <2>5 DEF ProxyNext, Loop
<1>3. ProxySpec => []SessionInv
  BY SessionsSafe
<1>4. ProxySpec => []QuietInv
  BY QuietLoop
<1> QED
  BY <1>1, <1>2, <1>3, <1>4, ProxySafe, PTL DEF ProxySpec

(* However many clients ask for however many chunks and pages, the log is  *)
(* one chunk behind after its first record: update_throughput logs the     *)
(* oldest chunk listed, and the first is never alone when it is logged     *)
(* again.                                                                  *)
THEOREM LogIsOneBehind ==
  ASSUME Faults = {}
  PROVE  ProxySpec => []LogLagsByOne
<1>1. LogInv => LogLagsByOne
  BY DEF LogInv
<1>2. ProxySpec => []LogInv
  BY LogStays
<1> QED
  BY <1>1, <1>2, PTL

(* However many clients there are and whatever their throughputs, each     *)
(* begins with the estimate of the client before it: search_seg finds one  *)
(* tracker for all of them, since each is accepted on the same number.     *)
THEOREM EstimateInherited ==
  ASSUME Faults = {}
  PROVE  ProxySpec => []ClientsInheritEstimate
<1>1. LogInv => ClientsInheritEstimate
  BY DEF LogInv
<1>2. ProxySpec => []LogInv
  BY LogStays
<1> QED
  BY <1>1, <1>2, PTL
=============================================================================
