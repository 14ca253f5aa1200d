# Video CDN: a verification development in TLA+

This directory models the programs of the repository: a bitrate-adapting HTTP
proxy (`src/proxy.c`, `src/handle.c`, `src/bitrate.c`), the name server that
tells proxies which web server to use (`src/nameserver.c`, `src/dijkstra.c`),
the resolver that asks it (`src/mydns.c`), and the script that writes the
announcements the name server reads (`lsa/genlsa.py`). TLC checks the modules on small
instances; TLAPS proves the theorems of the `*Proofs` modules for every value
of the constants. `PROJECT.json` maps each definition to the lines it models.
Paths below are relative to the repository.

    tlc -config MCProxyFair.cfg MCProxy       # one run
    tlapm ProxyProofs.tla                     # one module's proofs

## 1. The system

    client --HTTP--> proxy --HTTP--> origin web server
                       | ^
        query, at start| | answer (one server's address)
                       v |
                    name server <-- servers file
                         ^
                         +-- link state announcements <-- genlsa.py <-- network

| Component | State it keeps | Operations |
|---|---|---|
| proxy loop, `src/proxy.c` | `ready_to_read`, the session list at `head`, its descriptors | `select`, `accept`, the pass over the sessions |
| proxy handlers, `src/handle.c` | `client_fd` and `server_fd` of a session | `handle_client_recv`, `handle_server_recv`, `connect_to_server` |
| bitrate adaptation, `src/bitrate.c` | the tracker list at `tracker_head`: estimate, rate, chunks | `create_tracker`, `update_bitrate`, `update_throughput` |
| name server, `src/nameserver.c` | `rr_ptr`, the log | one datagram per turn, in rotation (`-r`) or by nearest server |
| link state reader, `src/dijkstra.c` | `graph_list` | `graph_init` |
| server selection, `src/dijkstra.c` | `dist`, `sptSet` while it runs | `query_dns`, `dijkstra`, `minDistance`, `exist_route` |
| resolver, `src/mydns.c` | the DNS socket; `www_ip` in the proxy | `init_mydns`, `resolve` |
| headers and manifests, `src/handle.c` | buffers, offsets, the state of the header reader | the header loop of `handle_server_recv`, `get_response_content_length`, `parse_f4m_response`, `write_f4m_nolist` |
| announcement generator, `lsa/genlsa.py` | the walk: visited nodes, nodes to visit, the round | `read_links`, `generate_LSAs`, `main` |
| logs, `src/log.c` | files | `LOG`, `TEST_LOG`, `N_LOG` |
| `netsim/`, `plot/`, `common/`, `topos/` | external tools and files | scripts |

How they interact. The proxy is one thread with blocking sockets. The loop
calls the handlers; they share the set `ready_to_read` with it, and call the
adaptation functions, which look their tracker up by `client_fd`. The kernel
couples everything else: it hands out the lowest free descriptor number, so a
number that a session or a tracker remembers may later mean something else. The
name server is one thread too and shares its rotation pointer among all its
clients. Proxy and name server exchange two UDP datagrams, once, before the
proxy listens.

What is hard. `select` overwrites the set it is given; a session is never
removed from the list; the connection to the origin is never closed by the
session that used it; a failed step in the middle of a handler leaves numbers
behind; a log record is made from two pieces of state that are updated at
different times; datagrams are lost, duplicated and answered out of order; the
announcement reader can fall out of step with its file; distances reach the
value that stands for infinity; a request may arrive in two reads; loops over
an answer are ended by what the answer contains, and lengths are counted across
buffers that begin one byte apart.

What makes each component correct:

* proxy: an answer goes to the client that asked; one answer per connection;
  the listening socket is never lost; answers are read in the pass that asked
  for them; a good request is answered; connections are served in order;
* headers and manifests: the header is read to its end and no further, a
  rewritten manifest has the length it says and nothing but its list of
  bitrates and further media missing, and a complete answer whose lines all have
  their line feed ends every loop;
* adaptation: one tracker per descriptor, chunk lists never empty and in order,
  the rate is the best that the last record of the same number affords, a client
  inherits the estimate left on its number, the log does not go backwards;
* name server: each server once per turn, whatever arrives;
* resolver: the address in a datagram of the name server's is one logged for this
  proxy; `resolve` returns;
* reader: one node per name, numbers never fall, the graph is what was
  announced last;
* generator: each node once a round, nearer ones first, so that the reader
  stays in step with what it writes;
* selection: settled distances are exact, the server is the nearest one,
  whoever asks and whatever was asked before, also in the network itself.

## 2. The modules

| Module | Models | EXTENDS / uses |
|---|---|---|
| `Bitrate` | `src/bitrate.c` | |
| `Relay` | what the proxy promises, abstract | |
| `Proxy` | `src/proxy.c`, `src/handle.c`, sockets, clients, origin | `Bitrate`; instantiates `Relay` |
| `Rotation` | what the name server promises, abstract | |
| `NameServer` | `src/nameserver.c` | instantiates `Rotation` |
| `Resolver` | `resolve` and its use by `main`, several proxies, the network | `NameServer` |
| `Response` | how `handle_server_recv` reads an answer and what it makes of it | |
| `LinkState` | `graph_init` | |
| `Announcer` | `lsa/genlsa.py` | `LinkState`, whose file it writes |
| `Routing` | `query_dns` | `LinkState`, whose graph it searches |
| `Selection` | network, generator, reader and queries, composed | `Announcer`, `Routing` |
| `MC*` | constants of the runs | the module they are named after |
| `*Proofs` | theorems | the module they are named after, `TLAPS` |
| `SessionProofs` | theorems about `Proxy`'s sessions | `ProxyProofs` |

### Proxy and Bitrate

The process runs until it blocks, so an action is one run of a handler, from
the read it may block in to its return. `pc` is the place in `main`'s loop
(`select`, `accept`, and for the session `cur` before `handle_client_recv` and
before `handle_server_recv`). A handler has one action per way through it:

| Way through the code | Action |
|---|---|
| `read` fails: close, return | `ClientReadFails` |
| `connect_to_server` returns -1 | `ConnectFails` |
| `socket` takes the last descriptor, `LOG` dies | `ConnectExhaustsTable` |
| not `GET`/`HTTP/1.1` | `RejectRequest` |
| end of file: an unset request line is parsed | `EofRequest`, `EofRequestCrashes` |
| a page, a manifest | `ForwardPage` |
| a chunk (`-Frag`): `create_tracker`, `update_bitrate`, write | `ForwardChunk`, with `Bitrate!AskChunk` |
| an answer that is not `video/f4f` | `RelayPage` |
| a chunk: `update_throughput`, write | `RelayChunk`, with `Bitrate!ChunkReceived` |
| ... without a tracker | `RelayChunkCrashes` |
| no response header | `NoResponse` |
| `server_fd` is now another client's socket | `RelayForeign` |

`sock` is the descriptor table, with what each number refers to; `Close`,
`Lowest` and `Yields` are the kernel. `ready` is `ready_to_read`. A session is
`[cfd, sfd]`; `nodes` holds them oldest first and the loop walks it backwards,
as the code walks from `head`. Sessions, like the code's, are never removed.
`inbox`, `peer`, `replies` are the clients' ends. The origin answers a
connection when the whole request was written to it. A client may send a request
in two parts (fault `split`); the handler takes each for a request.

An uninitialised request line (after an end of file) is a nondeterministic
choice among the outcomes: rejected, zero bytes written, or a null pointer
dereferenced. `LOG` passes the result of `fopen` on unchecked, so every call of
it with a full table is a crash; no step that fills the table is without one.

A tracker is `[fd, tput, rate, chunks]`: `ps` is abstracted to the one field
read through it, and since no session's `client_fd` ever changes the two are
the same. `est_tp` returns a point between the old estimate and the sample, and
for a suitable `alpha` any such point; the model takes any of `Tputs` in between.

The abstract specification `Relay` has three variables: who waits, who is being
served, who has been answered. Under the mapping in `Proxy` (`backlog`, the
clients whose socket is open, the clients with a reply) a proxy without faults
implements it, liveness included.

### NameServer and Resolver

`requests` and `answers` count the datagrams in flight by contents, so the
network reorders; `Resolver` adds loss and duplication. One datagram is one
action. An error packet carries no address (`gen_error_pkt` fills a buffer of
its own and 28 bytes of the stack are sent); it is server 0.
`mode.nearest` is what `query_dns` returns: its graph never changes and it does
not use the client's address, so it never changes and is part of `mode`.
`Printed` is `inet_ntop` with the size of a pointer. `resolve` takes the first
datagram that comes: `ReceiveAnswer` is one of the name server's (`FromServer`) or
anybody's with any address (`FromStranger`); `sender` is `getr_addr`, which
`recvfrom` fills in and nobody looks at. `Rotation` is one counter;
`NameServerSpec` implements it with the servers in the log.

### Response

`Proxy` has an answer as one of three kinds; `Response` is the code between the
`read` and the `write`. An answer is a sequence of symbols: CR, LF, a blank, or
a word that stands for the characters between. All offsets and lengths are
counted in symbols, so an offset that is wrong by one byte at CR, LF or a blank
is wrong by one symbol. `Common` says how much of a key a word begins with,
which is what `start_with` sees of an indented line.

| Code | Actions |
|---|---|
| header loop of `handle_server_recv`, `recv` | `ReadHeader`, `HeaderCut`, `ReadBody` |
| `parse_f4m_response` | `Parse` (`WriteUnchanged`) |
| loop over the manifest in `write_f4m_nolist` | `DropBitrate`, `KeepMediaEnd`, `KeepLine`, `EndManifest` |
| loop over its header, `write` | `ReplaceLength`, `CopyHeader`, `CopyTypeAndWrite` |
| a loop that leaves its buffer | `LengthOverrun`, `ParseOverrun`, `XmlOverrun`, `HeadOverrun` |

`read_line` stops at a line feed and at nothing else short of 8192 bytes. A line
that has none before the end of its buffer (`EndsInside`) is read on in other
memory, also when it is `</manifest>`, the last the loop looks for. What a loop
does there depends on memory that is not its own; the model ends (phase `lost`),
and `CompleteNeverLost` says of which answers it never gets there: complete ones,
if a manifest among them ends in a line feed. One that ends without (`EndManifest`
and `XmlOverrun` are both possible, the run has it) may be written as it should be
or not.

### LinkState, Announcer, Routing and Selection

`LinkState` reads a file word by word; `at` counts the words. It keeps the
`continue` that leaves a word unread, so words can be misread: a word is a
sequence of atoms, its parts between commas. `Announcer` takes one node off the
walk's queue per action and writes its announcement or loses it. `Routing`
numbers the nodes of the list from its head, takes one turn of Dijkstra's loop
per action and then chooses; queries follow one another, until one has no
answer, which `handle_dns_request` does not survive. `Hops` and `LinksFrom` are
the reference definitions of distance, in the graph and in the network.

`Selection` runs the three one after the other: the script ends before the
server starts, `graph_init` returns before the first query. Its invariants
relate the two ends: the network the script was given and the answer.

## 3. The runs

| Run | Question | Bounds, and why they are enough |
|---|---|---|
| `bitrate` | is the tracker state consistent, the rate that of the number's last record? | two descriptors, throughputs below the ladder, at its start, on a rung boundary and at its top, four requests: lists of three and more on one descriptor beside a second one |
| `proxy_fair` | is every good request answered, in order, and what does it leave behind? | three clients that ask for the top rate, no faults; six descriptors, which three leaking connections use up but for the one that `LOG` needs: the state in which `LOG` dies is not reached, and of `DiesOfLeaksOnly` the run shows that nothing else ends the process |
| `proxy_faults` | do sessions own their connections? | all faults but `refused`; two clients with two requests each, so numbers are reused; the bit of descriptor -1 is that of the first of them (`NegBit`) |
| `proxy_all` | is `ProxyInv` right where descriptors go stale? | three clients, two requests each, refused connections: one session reads another's socket (`RelayForeign`); six descriptors run out; bit 63 falls on a connection's number (`NegBit`) |
| `resolver_lossy` | is the rotation exact, and the address one that was logged? | two proxies, a foreign client of the server, a stranger that answers the proxies; two copies of a datagram; two servers, the address of one of them too long to print, and three answers: the pointer wraps |
| `resolver_start` | do all proxies start, spread evenly? | four proxies over three servers, so that one server has two; each mode, and no server at all |
| `response` | where does the header end, what is forwarded, which loop leaves its buffer? | all sequences of CR, LF and a header up to seven, which has every way into and out of CR LF CR LF; eight orders of headers; manifests of up to three lines, some indented, whole, followed by a second medium, or cut; a body that is shorter than announced |
| `selection` | is the graph what was announced and what the network is, is Dijkstra's invariant kept, is the server nearest? | all files of up to four records of two senders: heard, refreshed, stale and misread; all 4096 directed graphs of four nodes; chains of eleven nodes with every one edge more, where the distance that stands for infinity is reached; all 64 networks of four nodes and a sink with and without losses, three of them for two rounds; two servers, one at two nodes; two sources of queries |

Between them `proxy_faults` and `proxy_all` have every fault: the first those of
a client that leaves and of an origin that answers badly, the second those that
make numbers stale. Symmetry is used in the safety runs of `Proxy`: connections
are only compared.

Fairness. The loop is weakly fair: the process is scheduled and the origin
answers a whole request. A client that has connected sends its first request:
without that `handle_client_recv` is not even called, and `Served` and `Relay`
say nothing about a client that stays silent. In `Resolver` both programs are
scheduled and a datagram that is not lost is read from its queue. Nothing is
assumed about foreign clients and strangers.

`CHECK_DEADLOCK FALSE` is set in every run: a behaviour really ends, when all
clients have been served, the process has died, or the answer has been written.

### Disagreements found

Four runs are expected to end in a violation. Each checks one statement of a
doc that the code does not meet; `findings` in `PROJECT.json` quotes them.

| Run | What the counterexample shows |
|---|---|
| `proxy_cross` | a refused origin connection leaves a stale `server_fd`; another client's request is sent as an answer (`handle.c:61-67`) |
| `proxy_deaf` | a client that closes early makes `select` drop the listening socket (`proxy.c:78`) |
| `proxy_short` | an incomplete body is padded, timed and forwarded (`handle.c:155-156`) |
| `routing_asker` | the search starts from the head of the list, not from the client (`dijkstra.c:167`) |

Other places where the code falls short of what one would expect are in the
model as they are, and the properties say what holds in spite of them:

* a rate with more digits than the one asked for pushes the end of the request
  out of the write (`handle.c:101`); such a request is never answered;
* a log record carries the rate chosen last and the name of the oldest chunk
  listed, which stays on the list when it is alone (`bitrate.c:148-158`):
  `LogLagsByOne`, `LogInRequestOrder`;
* the bit of a client whose connection was reset stays in the set when its
  socket is closed; the number may come back as an origin's, and the loop then
  waits for an answer to nothing. A session whose client was reset before it had
  an origin reads descriptor -1 if the bit `FD_ISSET(-1)` looks at is set for
  somebody else. `WaitsForOwnAnswer` says that nothing but a reset leads to a read
  of anything but the session's own answer;
* a lost datagram leaves `resolve` waiting for ever (`mydns.c:70`), and an
  address of eight characters or more is not printed (`proxy.c:41`):
  `EveryProxyStarts`, `AddressWasLogged`;
* a datagram of anybody's is taken for the name server's answer (`mydns.c:70`):
  `AddressWasLogged` says that its sender is all one would have to look at;
* a stale announcement leaves its neighbors to be read as a name
  (`dijkstra.c:64-67`): `NodesUnique`, `SeqsNeverFall`;
* infinity is 9 (`dijkstra.c:4`), and a query that finds no server nearer ends
  the name server: `AnswerIsNearest`;
* the sink announces nothing, so where it is on several links the paths through
  it are unknown and a server farther than another may be given:
  `NearestInNetwork` is claimed for a sink on one link;
* a new connection on a number that was used before begins with the estimate left
  there (`bitrate.c:72`): `ClientsInheritEstimate`;
* an answer without Content-Length, a manifest cut off or without its last line
  feed, and one whose
  Content-Type is not the last header are read past the end of a buffer or lose
  headers (`handle.c:222`, `255`, `313`); a line indented by four is taken for
  `</media>` if it is `</metadata>` (`handle.c:210`): `WellFormed` and `Complete`
  say for which answers the properties are claimed.

## 4. What is proved

Every module with proofs rests on the assumptions the modelled modules name
(`BitrateAssumption`, `ProxyAssumption`, `NameServerAssumption`,
`ResolverAssumption`, `ResponseAssumption`, `LinkStateAssumption`,
`AnnouncerAssumption`, `RoutingAssumption`, `SelectionAssumption`); TLC evaluates
each in a run. They give types to the constants, and say besides that the
descriptor table is finite, that the listening socket has a number in it and is
not alone there, that there is a node, and of a link file what its format means:
no link is named twice, none leads from a node to itself, the sink is on one.
A theorem that needs more of a constant says so in its ASSUME.

* `BitrateProofs`. `BitrateInv` is inductive: a new chunk is younger than every
  listed one and goes first; the one removed is the oldest; a record is no
  newer than any chunk still listed (`LoggedBeforeListed`, which is what makes
  `LogInRequestOrder` inductive: alone it does not say what the next record may
  name). `RateOfLastRecord` needs that the estimate in a tracker is the one in
  the last record of its number (`EstimateIsLastLogged`), which requests leave as
  it is, which an answer changes together with the log, and which holds only
  because there is one tracker for each number; that the loop over the rates finds
  the best one (`ChosenRateFits`) is the smaller part.
* `ProxyProofs`. `ProxyInv` is inductive for any number of connections and
  descriptors and any set of faults. `ListenerNeverClosed` alone is not: a
  session that remembered the listener's number would close it, so
  `SessionsSpareListener` is needed, and for that, that the lowest free number
  is never the listener's and that there is one (`RunningHasDescriptor`).
  `OriginsNeverSelected` follows from `WatchedAreClients` (what is in the set is
  the listener, a client's number, or the origin just written to, while that
  session's second handler is due) and `AnswerIsReadNext`. The two handlers are
  abstracted into what all their ways through have in common
  (`ClientHandled`, `ServerHandled`), each way is shown to be one, and the
  invariant is proved once for each abstraction. `Bitrate`'s lemmas are used for
  the steps the proxy takes in it.
* `SessionProofs`. What a session may rely on, under weaker and weaker faults:
  * any faults: `PlaceInv`, a connection waits, is on one descriptor, or has its
    answer, never two of these; hence `OneReply`.
  * no refused connection: `SessionInv`. Every session's numbers are its own or
    have been handed on, an origin's number is never handed on because nothing
    closes it, so sessions own their origins and replies go home. With a refused
    connection both are false (run `proxy_cross`). `OwnAnswerAwaited` holds
    wherever the bit of descriptor -1 lies, in the table or above it: a session
    without an origin is about to have its request read, or a client was reset
    (`UnconnectedInv`).
  * no faults: `QuietInv`, the loop deals with one connection at a time, whose
    session is the newest, and `select` has the listener alone. From it
    `OnlyListener`; every step of the proxy is a step of `Relay` or a stutter
    (`RelaysInOrder`, the safety part of `RelaySpec`); `CountInv` counts descriptors by
    sessions, so that `OriginsLeaked` and `DiesOfLeaksOnly` hold of a table of any
    size; and `LogInv`, one tracker with two chunks at most, gives `LogLagsByOne`
    and, with the estimate in that tracker, `ClientsInheritEstimate`
    (`EstimateInherited`).
* `NameServerProofs`. `RotationInv` relates pointer and log; from it the k-th
  server is k modulo N, which gives `EachOncePerTurn`, and each step maps to a
  step or a stutter of `Rotation` (`ServerRotates`).
* `ResolverProofs`. The rotation's invariant is carried over to the server with
  its proxies and a network that loses, duplicates and reorders.
  `AddressWasLogged` needs `AnswersWereLogged`: a proxy knows of the server by
  the datagrams in flight only, each of which was logged when it was sent, and no
  step of the network makes one up. A stranger can make one up, and then the
  proxy's `sender` says so. `SpreadEvenly`, for a network without faults
  and addresses that can be printed, needs `OneQuery`: a proxy asks once and is
  logged once, so that the log counts the proxies.
* `ResponseProofs`. `HeaderInv` is inductive for any bytes. Neither
  `HeaderNotOverrun` nor `HeaderWhole` is by itself: the first needs to know that
  after CR, CR LF and CR LF CR the state is at least what it should be
  (`StateCounts`), the second that it is not more (`StateIsExact`), which is true
  only of a header whose CR and LF come in pairs up to where it is read: a bare
  CR or LF counts too. For what is made of the answer, `RelayAt` says of every
  phase what the buffers hold and where both offsets are: the XML kept is the
  last byte of the header's empty line and then the places of the body that are
  kept, the header written is the one read up to the offset with one line
  replaced. So `WellFormedOut` (the length written, which the code counts from
  buffers that begin a byte apart, is the body's) and `FaithfulRelay` (the body
  written; the new header is not compared) hold for headers and manifests of any
  length. `CompleteAt` says of a complete
  answer what has been kept so far and that the line each loop looks for is
  still ahead. `NeverLost` adds that every line up to that one ends in its buffer
  (`NoOverrunBefore`, `NoOverrunAfter`), which is where the last line feed is needed.
* `LinkStateProofs`. Uniqueness of names and the order of numbers, for any file,
  through the steps that misread it too; and for a file in order, of any length,
  `GraphIsLatest`. That one needs `InStep`: before every turn the reader is at the
  beginning of a record, so that it has read whole announcements only, and what
  it has read of a sender has a latest record.
* `SelectionProofs`. Generator, reader and search together. `AnnounceInv`: nothing
  is read before the file is complete, the walk stays on the links, and the
  numbers written rise with the rounds, so that every file the script writes is in
  order (`ScriptsFileInOrder`), which carries the reader's theorems over.
  `SearchInv`: a distance below infinity is that of a path (`Reached`), every edge
  out of a settled node is relaxed, and no settled node is farther than one that
  is not. From it, by induction on the distance, settled nodes have the distance
  of the reference definition `Hops` (`SearchIsExact`), whose recursive function is
  shown to exist by its finite pieces (`StepwiseExists`), and the server chosen is
  a nearest one (`AnswersNearest`). The rest is about the network itself. The
  distances `LinksFrom` counts are a metric of links (`Distances`); that there are
  circles enough is a count: each one that is not the last is touched by a link
  none before it was (`CirclesClosed`). `Walk` is the invariant of a breadth-first
  search: the queue holds at most two distances, in order, nothing visited is
  farther than what waits, and what is linked to a visited node is visited or
  waits. What the walk finds is then one link farther than the node it is at
  (`WalkGoesOn`), because whatever is nearer is visited (`NearerInside`), and what it
  has visited when the queue is empty is all it can reach (`WalkEnds`). `FileInv`
  says what that makes of the file, round by round; `ScriptInv` is both, and gives
  `AnnouncesOnce` and, with `InStep`, `GraphMatches`. Last, for a sink on one link,
  hops in the graph are links in the network up to infinity (`HopsAreLinks`): a
  shortest path never goes through a node of one link, and the nodes of the list
  are all the others that can be reached. So what `AnswersNearest` says of the graph
  holds of the network (`NearestNet`), for any number of nodes.

In the modules with theorems `Picked` takes the place of `SelectSeq`, which is
defined by a recursion over sequences the provers cannot unfold.

Every invariant and every action property of the passing runs is proved. Only
model-checked are the liveness properties, which are out of the prover's reach:
`Served`, `EveryProxyStarts` and the fairness part of `RelaySpec`.

## 5. What is not modelled

* Bytes of requests and of DNS packets, and formatting of log records. An HTTP
  answer is modelled down to symbols, not to characters.
* Fixed-size buffers and their overflow (8192 bytes of a header, 256000 of a
  manifest, 50 neighbors of 49 characters).
* Several requests in one read; a request with `-Frag` and without `Seg` in its
  name.
* Time: the estimate is any value between the old one and a sample.
* A failed `recvfrom` in the name server, whose length -1 compares as a huge
  one; it ends in `send_error` to an address nobody set.
* `new_element->session.bitrate` and the rates of the manifest: no rate is ever
  chosen from them.
* A query for each connection, as `mydns.h:112` would have it: the proxy
  resolves once, so there is no second address to compare with.
* Reading the servers file: `get_servers` gives the constants `N` and `Servers`.
* `netsim/`: scripts that run `tc`, `ifconfig` and Apache in a fixed order; the
  state they change is that of those programs. `plot/` and `common/`: a reader of
  logs and wrappers of calls, without state.

## 6. Plan

Done, in this order: `Bitrate`; `Proxy` with `Relay`; `NameServer` with
`Rotation`; `Resolver`; `LinkState`; `Routing`; the proofs of the first two, of
the rotation and of the reader; then `Response` with its proofs, requests in two
parts, `Announcer`, and `Selection`, which composes network, reader and queries;
then the proofs of `GraphIsLatest` and of `Resolver`; then the sessions of the
proxy, the refinement of `Relay`, what `Response` makes of an answer, Dijkstra's
loop, the walk of the generator and what the graph tells of the network.

What is left of the system is listed in section 5 with the reason; of the
properties, liveness stays with TLC.
