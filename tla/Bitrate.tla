------------------------------- MODULE Bitrate -------------------------------
(***************************************************************************)
(* The adaptation state of the proxy (src/src/bitrate.c): one tracker per  *)
(* client descriptor number, holding a throughput estimate, the rate last  *)
(* chosen from it and the list of chunks asked for and not yet logged.     *)
(*                                                                         *)
(* The two sub-actions, AskChunk and ChunkReceived, are what the proxy     *)
(* runs when it forwards a chunk request and when the chunk has arrived.   *)
(* Module Proxy conjoins them with its own state; BitrateSpec below drives *)
(* them alone.                                                             *)
(***************************************************************************)
EXTENDS Integers, Sequences, FiniteSets

CONSTANTS
  Fd,        (* descriptor numbers a client connection can have            *)
  Tputs,     (* the throughputs (kbit/s) told apart                        *)
  MaxAsked   (* bound: chunk requests made in one behaviour                *)

ASSUME BitrateAssumption ==
  /\ Fd \subseteq Nat
  /\ Tputs \subseteq Nat
  /\ 100 \in Tputs
  /\ MaxAsked \in Nat

VARIABLES
  trackers,  (* the list at tracker_head, oldest first                     *)
  asked,     (* history: chunk requests so far; names the next chunk       *)
  tlog       (* the records TEST_LOG appended to the proxy's log           *)

bitrateVars == <<trackers, asked, tlog>>

Rates == {10, 100, 500, 1000}

(* A chunk's file name: which request it was made for, and the rate that  *)
(* update_bitrate put in the name.                                        *)
Chunk == [seg : Nat, rate : Rates]

(* chunk_tracker_list_t; ps is abstracted to ps->session.client_fd, the   *)
(* only field the code reads through it. chunks is newest first.          *)
Tracker == [fd : Fd, tput : Tputs, rate : Rates, chunks : Seq(Chunk)]

LogRecord == [fd : Fd, tput : Tputs, rate : Rates, file : Chunk]

(* Mutant: the throughput is not initialised.                              *)
NewTrackerUnset(fd) == [fd |-> fd, tput |-> 0, rate |-> 100, chunks |-> <<>>]

NewTracker(fd) == [fd |-> fd, tput |-> 100, rate |-> 100, chunks |-> <<>>]

(* Mutant: search_seg looks at the head of the list only.                  *)
TrackedAtHead(fd) ==
  {i \in DOMAIN trackers : i = Len(trackers) /\ trackers[i].fd = fd}

(* Positions of the trackers search_seg(node) can stop at.                *)
Tracked(fd) == {i \in DOMAIN trackers : trackers[i].fd = fd}

(* search_seg walks from tracker_head, the newest, and returns the first. *)
SearchSeg(fd) == CHOOSE i \in Tracked(fd) : \A j \in Tracked(fd) : j <= i

(* The rate loop of update_bitrate: the greatest rate r with 1.5r within  *)
(* the throughput, and the initial 100 when there is none.                *)
Affordable(t) == {r \in Rates : 3 * r <= 2 * t}

ChosenRate(t) ==
  IF Affordable(t) = {} THEN 100
  ELSE CHOOSE r \in Affordable(t) : \A q \in Affordable(t) : q <= r

(* est_tp: alpha * sample + (1 - alpha) * current. For alpha in [0, 1]    *)
(* the result lies between the two, and every point between them is the   *)
(* result for some alpha.                                                 *)
EstTp(current, sample) ==
  {t \in Tputs : \/ current <= t /\ t <= sample
                 \/ sample <= t /\ t <= current}

(* Mutant: the new chunk goes to the end of the list.                      *)
WithChunkAtEnd(tr, seg) ==
  LET r == ChosenRate(tr.tput)
  IN  [tr EXCEPT !.rate = r, !.chunks = @ \o <<[seg |-> seg, rate |-> r]>>]

(* create_tracker(file, node): find or add the tracker, then put the new  *)
(* chunk at the head of its list (the name it has before update_bitrate   *)
(* overwrites it is not kept). update_bitrate(buffer, tl, node): choose   *)
(* the rate and name the head chunk after it.                             *)
WithChunk(tr, seg) ==
  LET r == ChosenRate(tr.tput)
  IN  [tr EXCEPT !.rate   = r,
                 !.chunks = <<[seg |-> seg, rate |-> r]>> \o @]

AskChunk(fd) ==
  /\ asked < MaxAsked
  /\ asked' = asked + 1
  /\ trackers' =
       IF Tracked(fd) = {}
       THEN Append(trackers, WithChunk(NewTracker(fd), asked + 1))
       ELSE [trackers EXCEPT ![SearchSeg(fd)] = WithChunk(@, asked + 1)]
  /\ UNCHANGED tlog

(* Mutant: the logged chunk is always taken off.                           *)
DropOldestAlways(chunks) == SubSeq(chunks, 1, Len(chunks) - 1)

(* update_throughput: the oldest chunk is the one logged, and it is taken *)
(* off the list only when another chunk is on it (tmp_tracker != NULL).   *)
DropOldest(chunks) ==
  IF Len(chunks) > 1 THEN SubSeq(chunks, 1, Len(chunks) - 1) ELSE chunks

(* Mutant: the estimate is logged but not stored.                          *)
UpdatedChunksOnly(tr, t) == [tr EXCEPT !.chunks = DropOldest(@)]

Updated(tr, t) == [tr EXCEPT !.tput = t, !.chunks = DropOldest(@)]

ChunkReceived(fd) ==
  /\ Tracked(fd) # {}
  /\ LET i == SearchSeg(fd)
         old == trackers[i]
     IN  \E sample \in Tputs : \E t \in EstTp(old.tput, sample) :
           /\ trackers' = [trackers EXCEPT ![i] = Updated(old, t)]
           /\ tlog' = Append(tlog, [fd   |-> fd, tput |-> t, rate |-> old.rate,
                                    file |-> old.chunks[Len(old.chunks)]])
  /\ UNCHANGED asked

-----------------------------------------------------------------------------
(* The component on its own: on each descriptor the proxy asks for chunks *)
(* and receives them; a request whose answer is not a chunk has no        *)
(* ChunkReceived. A descriptor has one request outstanding at a time.     *)

BitrateInit ==
  /\ trackers = <<>>
  /\ asked = 0
  /\ tlog = <<>>

(* Bound: no more records than requests, one request outstanding.         *)
BitrateNext ==
  \E fd \in Fd :
    \/ AskChunk(fd)
    \/ Len(tlog) < asked /\ ChunkReceived(fd)

BitrateSpec == BitrateInit /\ [][BitrateNext]_bitrateVars
-----------------------------------------------------------------------------

BitrateTypeOK ==
  /\ trackers \in Seq(Tracker)
  /\ asked \in 0 .. MaxAsked
  /\ tlog \in Seq(LogRecord)

(* No two trackers are for the same descriptor number, so search_seg's    *)
(* answer does not depend on the order of the list, and a connection that *)
(* reuses a number also reuses the estimate left by the one before it.    *)
OneTrackerPerFd ==
  \A i, j \in DOMAIN trackers : trackers[i].fd = trackers[j].fd => i = j

(* update_throughput dereferences tracker_list->chunks unchecked: the     *)
(* list of a tracker that search_seg can return is never empty.           *)
ChunksNeverEmpty == \A i \in DOMAIN trackers : trackers[i].chunks # <<>>

(* The list is first in, first out: newest at the head, in request order. *)
ChunksInRequestOrder ==
  \A k \in DOMAIN trackers : LET c == trackers[k].chunks IN
    \A i, j \in DOMAIN c : i < j => c[i].seg > c[j].seg

(* Records of one descriptor name its chunks in the order they were asked *)
(* for: DropOldest may leave a chunk to be named again, but a record never *)
(* names a chunk older than the record before it did.                     *)
LogInRequestOrder ==
  \A i, j \in DOMAIN tlog :
    i < j /\ tlog[i].fd = tlog[j].fd => tlog[i].file.seg <= tlog[j].file.seg

(* The parts of the inductive invariant behind the two orders: a listed   *)
(* chunk has been asked for, a logged descriptor has a tracker, and what  *)
(* is logged is no newer than what is still listed.                       *)
ListedAreAsked ==
  \A k \in DOMAIN trackers : \A i \in DOMAIN trackers[k].chunks :
    trackers[k].chunks[i].seg <= asked

LoggedAreTracked ==
  \A r \in DOMAIN tlog : \E k \in DOMAIN trackers : trackers[k].fd = tlog[r].fd

LoggedBeforeListed ==
  \A r \in DOMAIN tlog, k \in DOMAIN trackers :
    trackers[k].fd = tlog[r].fd =>
      \A i \in DOMAIN trackers[k].chunks :
        tlog[r].file.seg <= trackers[k].chunks[i].seg

(* The adaptation state is consistent: all of the above, which no step of *)
(* create_tracker, update_bitrate or update_throughput can break.         *)
BitrateInv ==
  /\ BitrateTypeOK
  /\ OneTrackerPerFd
  /\ ChunksNeverEmpty
  /\ ChunksInRequestOrder
  /\ ListedAreAsked
  /\ LoggedAreTracked
  /\ LoggedBeforeListed
  /\ LogInRequestOrder

(* The estimate of the last record of fd, or the initial 100.              *)
LastEstimate(fd) ==
  LET records == {r \in DOMAIN tlog : tlog[r].fd = fd}
  IN  IF records = {} THEN 100 ELSE tlog[CHOOSE r \in records : \A q \in records : q <= r].tput

(* r is the best rate an estimate t affords. Below 15 kbit/s no rate fits,  *)
(* and the code falls back to 100, ten times the lowest rung.              *)
BestFor(r, t) ==
  /\ 3 * r <= 2 * t \/ (t < 15 /\ r = 100)
  /\ \A q \in Rates : 3 * q <= 2 * t => q <= r

(* A request is made at the best rate that the last record of its number   *)
(* affords, whatever requests and answers of other numbers came between,   *)
(* and its chunk is listed first under that rate.                          *)
AsksByLastRecord ==
  [][asked' # asked =>
       \E i \in DOMAIN trackers' :
         LET n == trackers'[i]
         IN  /\ n.chunks[1] = [seg |-> asked', rate |-> n.rate]
             /\ BestFor(n.rate, LastEstimate(n.fd))]_bitrateVars
=============================================================================
