---------------------------- MODULE BitrateProofs ----------------------------
(***************************************************************************)
(* Proofs about Bitrate. BitrateInv is inductive; its parts, and that a    *)
(* request is made at the best rate the last record of its number affords, *)
(* are theorems of the specification for all descriptors, throughputs and  *)
(* bounds. The lemmas about AskChunk and ChunkReceived are also what       *)
(* ProxyProofs and SessionProofs rest on.                                  *)
(***************************************************************************)
EXTENDS Bitrate, WellFoundedInduction, TLAPS

(* The throughputs told apart can be compared and halved.                  *)
LEMMA TputsAreIntegers == Tputs \subseteq Int
BY BitrateAssumption

(* The rate chosen is a rung, and the best affordable one if there is any. *)
LEMMA ChosenRateBest ==
  ASSUME NEW t \in Int
  PROVE  /\ ChosenRate(t) \in Rates
         /\ Affordable(t) # {} => ChosenRate(t) \in Affordable(t)
         /\ \A q \in Affordable(t) : q <= ChosenRate(t)
<1>1. CASE Affordable(t) = {}
  BY <1>1 DEF ChosenRate, Rates
<1>2. CASE Affordable(t) # {}
  <2>1. \E r \in Affordable(t) : \A q \in Affordable(t) : q <= r
    <3>1. CASE 1000 \in Affordable(t)
      BY <3>1 DEF Affordable, Rates
    <3>2. CASE 1000 \notin Affordable(t) /\ 500 \in Affordable(t)
      BY <3>2 DEF Affordable, Rates
    <3>3. CASE 1000 \notin Affordable(t) /\ 500 \notin Affordable(t) /\ 100 \in Affordable(t)
      BY <3>3 DEF Affordable, Rates
    <3>4. CASE Affordable(t) \subseteq {10}
      BY <1>2, <3>4
    <3> QED
      BY <3>1, <3>2, <3>3, <3>4 DEF Affordable, Rates
  <2>2. /\ ChosenRate(t) \in Affordable(t)
        /\ \A q \in Affordable(t) : q <= ChosenRate(t)
    BY <1>2, <2>1 DEF ChosenRate
  <2> QED
    BY <2>2 DEF Affordable
<1> QED
  BY <1>1, <1>2

(* search_seg returns the one tracker of the descriptor.                   *)
LEMMA SearchSegFinds ==
  ASSUME BitrateTypeOK, OneTrackerPerFd, NEW fd \in Fd, Tracked(fd) # {}
  PROVE  /\ SearchSeg(fd) \in DOMAIN trackers
         /\ trackers[SearchSeg(fd)].fd = fd
<1>1. PICK i \in Tracked(fd) : TRUE
  OBVIOUS
<1>2. \A j \in Tracked(fd) : j <= i
  BY <1>1 DEF Tracked, OneTrackerPerFd, BitrateTypeOK
<1>3. SearchSeg(fd) \in Tracked(fd)
  BY <1>1, <1>2 DEF SearchSeg
<1> QED
  BY <1>3 DEF Tracked

(* The new list of a tracker that is asked for chunk seg.                  *)
LEMMA WithChunkShape ==
  ASSUME NEW tr \in Tracker, NEW seg \in Nat
  PROVE  /\ WithChunk(tr, seg) \in Tracker
         /\ WithChunk(tr, seg).fd = tr.fd
         /\ WithChunk(tr, seg).tput = tr.tput
         /\ WithChunk(tr, seg).rate = ChosenRate(tr.tput)
         /\ Len(WithChunk(tr, seg).chunks) = Len(tr.chunks) + 1
         /\ WithChunk(tr, seg).chunks[1] = [seg |-> seg, rate |-> ChosenRate(tr.tput)]
         /\ \A i \in 2 .. Len(tr.chunks) + 1 :
              WithChunk(tr, seg).chunks[i] = tr.chunks[i - 1]
<1> DEFINE r == ChosenRate(tr.tput)
           c == [seg |-> seg, rate |-> r]
<1>1. r \in Rates
  <2>1. tr.tput \in Tputs
    BY DEF Tracker
  <2> QED
    BY <2>1, TputsAreIntegers, ChosenRateBest
<1>2. c \in Chunk
  BY <1>1 DEF Chunk
<1>3. tr.chunks \in Seq(Chunk)
  BY DEF Tracker
<1> HIDE DEF c
<1>4. /\ <<c>> \o tr.chunks \in Seq(Chunk)
      /\ Len(<<c>> \o tr.chunks) = Len(tr.chunks) + 1
      /\ (<<c>> \o tr.chunks)[1] = c
      /\ \A i \in 2 .. Len(tr.chunks) + 1 : (<<c>> \o tr.chunks)[i] = tr.chunks[i - 1]
  BY <1>2, <1>3
<1>5. WithChunk(tr, seg) = [tr EXCEPT !.rate = r, !.chunks = <<c>> \o @]
  BY DEF WithChunk, c
<1> HIDE DEF r
<1>6. WithChunk(tr, seg) = [fd |-> tr.fd, tput |-> tr.tput, rate |-> r,
                            chunks |-> <<c>> \o tr.chunks]
  BY <1>5 DEF Tracker
<1> QED
  BY <1>1, <1>4, <1>6 DEF Tracker, c, r

(* The new list of a tracker whose oldest chunk has been logged.           *)
LEMMA DropOldestShape ==
  ASSUME NEW chunks \in Seq(Chunk), chunks # <<>>
  PROVE  /\ DropOldest(chunks) \in Seq(Chunk)
         /\ DropOldest(chunks) # <<>>
         /\ Len(DropOldest(chunks)) <= Len(chunks)
         /\ \A i \in 1 .. Len(DropOldest(chunks)) : DropOldest(chunks)[i] = chunks[i]
<1>1. CASE Len(chunks) > 1
  <2> DEFINE n == Len(chunks) - 1
  <2>1. /\ SubSeq(chunks, 1, n) \in Seq(Chunk)
        /\ Len(SubSeq(chunks, 1, n)) = n
        /\ \A i \in 1 .. n : SubSeq(chunks, 1, n)[i] = chunks[i]
    BY <1>1
  <2>2. DropOldest(chunks) = SubSeq(chunks, 1, n)
    BY <1>1 DEF DropOldest
  <2>3. n \in Nat /\ n >= 1 /\ n <= Len(chunks)
    BY <1>1
  <2> HIDE DEF n
  <2>4. DropOldest(chunks) # <<>>
    BY <2>1, <2>2, <2>3
  <2> QED
    BY <2>1, <2>2, <2>3, <2>4
<1>2. CASE ~(Len(chunks) > 1)
  BY <1>2 DEF DropOldest
<1> QED
  BY <1>1, <1>2

(* A tracker whose chunk has arrived is still a tracker of its descriptor. *)
LEMMA UpdatedShape ==
  ASSUME NEW tr \in Tracker, NEW t \in Tputs, tr.chunks # <<>>
  PROVE  /\ Updated(tr, t) \in Tracker
         /\ Updated(tr, t).fd = tr.fd
         /\ Updated(tr, t).tput = t
         /\ Updated(tr, t).chunks = DropOldest(tr.chunks)
<1>1. DropOldest(tr.chunks) \in Seq(Chunk)
  BY DropOldestShape DEF Tracker
<1> DEFINE d == DropOldest(tr.chunks)
<1>2. Updated(tr, t) = [tr EXCEPT !.tput = t, !.chunks = d]
  BY DEF Updated
<1> HIDE DEF d
<1>3. Updated(tr, t) = [fd |-> tr.fd, tput |-> t, rate |-> tr.rate, chunks |-> d]
  BY <1>2 DEF Tracker
<1> QED
  BY <1>1, <1>3 DEF Tracker, d

(***************************************************************************)
(* The parts of BitrateInv that talk about trackers, for one call.         *)
(***************************************************************************)

(* What AskChunk(fd) does to the trackers: the tracker of fd, added when   *)
(* there is none, gets the new chunk; no other tracker changes.            *)
LEMMA AskChunkEffect ==
  ASSUME BitrateInv, NEW fd \in Fd, AskChunk(fd)
  PROVE  \E old \in Tracker, k \in Nat :
           /\ k \in DOMAIN trackers' /\ k >= 1
           /\ trackers' \in Seq(Tracker)
           /\ old.fd = fd
           /\ trackers'[k] = WithChunk(old, asked + 1)
           /\ DOMAIN trackers' = DOMAIN trackers \cup {k}
           /\ \A i \in DOMAIN trackers : i # k => trackers'[i] = trackers[i]
           /\ IF k \in DOMAIN trackers THEN trackers[k] = old
              ELSE old.chunks = <<>> /\ \A i \in DOMAIN trackers : trackers[i].fd # fd
           /\ k \notin DOMAIN trackers => old.tput = 100
<1>0. trackers \in Seq(Tracker) /\ asked + 1 \in Nat
  BY BitrateAssumption DEF BitrateInv, BitrateTypeOK
<1>1. CASE Tracked(fd) = {}
  <2> DEFINE old == NewTracker(fd)
             k   == Len(trackers) + 1
  <2>1. old \in Tracker /\ old.fd = fd /\ old.chunks = <<>> /\ old.tput = 100
    BY BitrateAssumption DEF NewTracker, Tracker, Rates
  <2>2. trackers' = Append(trackers, WithChunk(old, asked + 1))
    BY <1>1 DEF AskChunk
  <2>3. \A i \in DOMAIN trackers : trackers[i].fd # fd
    BY <1>1 DEF Tracked
  <2> HIDE DEF old
  <2>4. WithChunk(old, asked + 1) \in Tracker
    BY <1>0, <2>1, WithChunkShape
  <2>5. /\ trackers' \in Seq(Tracker)
        /\ DOMAIN trackers' = DOMAIN trackers \cup {k}
        /\ k \in Nat /\ k >= 1 /\ k \notin DOMAIN trackers
        /\ trackers'[k] = WithChunk(old, asked + 1)
        /\ \A i \in DOMAIN trackers : trackers'[i] = trackers[i]
    BY <1>0, <2>2, <2>4
  <2> QED
    BY <2>1, <2>3, <2>5
<1>2. CASE Tracked(fd) # {}
  <2> DEFINE k   == SearchSeg(fd)
             old == trackers[k]
  <2>1. k \in DOMAIN trackers /\ old.fd = fd
    BY <1>2, SearchSegFinds DEF BitrateInv
  <2>2. trackers' = [trackers EXCEPT ![k] = WithChunk(old, asked + 1)]
    BY <1>2 DEF AskChunk
  <2> HIDE DEF k
  <2>3. old \in Tracker /\ k \in Nat /\ k >= 1
    BY <1>0, <2>1
  <2> HIDE DEF old
  <2>4. WithChunk(old, asked + 1) \in Tracker
    BY <1>0, <2>3, WithChunkShape
  <2>5. /\ trackers' \in Seq(Tracker)
        /\ DOMAIN trackers' = DOMAIN trackers
        /\ trackers'[k] = WithChunk(old, asked + 1)
        /\ \A i \in DOMAIN trackers : i # k => trackers'[i] = trackers[i]
    BY <1>0, <2>1, <2>2, <2>4
  <2>6. k \in DOMAIN trackers /\ k \in DOMAIN trackers' /\ trackers[k] = old
        /\ DOMAIN trackers' = DOMAIN trackers \cup {k}
    BY <2>1, <2>5 DEF old
  <2> QED
    BY <2>1, <2>3, <2>5, <2>6
<1> QED
  BY <1>1, <1>2

(* What ChunkReceived(fd) does: the tracker of fd has a new estimate and   *)
(* possibly one chunk less, and one record naming its oldest is appended.  *)
LEMMA ChunkReceivedEffect ==
  ASSUME BitrateInv, NEW fd \in Fd, ChunkReceived(fd)
  PROVE  \E k \in DOMAIN trackers, t \in Tputs, rec \in LogRecord :
           /\ trackers' \in Seq(Tracker)
           /\ DOMAIN trackers' = DOMAIN trackers
           /\ trackers[k].fd = fd
           /\ trackers'[k].fd = fd
           /\ trackers'[k].chunks = DropOldest(trackers[k].chunks)
           /\ trackers'[k].tput = rec.tput
           /\ \A i \in DOMAIN trackers : i # k => trackers'[i] = trackers[i]
           /\ rec.fd = fd /\ rec.rate = trackers[k].rate
           /\ rec.file = trackers[k].chunks[Len(trackers[k].chunks)]
           /\ tlog' = Append(tlog, rec)
<1> DEFINE k   == SearchSeg(fd)
           old == trackers[k]
<1>0. trackers \in Seq(Tracker)
  BY DEF BitrateInv, BitrateTypeOK
<1>1. k \in DOMAIN trackers /\ old.fd = fd
  BY SearchSegFinds DEF BitrateInv, ChunkReceived
<1>2. PICK sample \in Tputs : \E t \in EstTp(old.tput, sample) :
        /\ trackers' = [trackers EXCEPT ![k] = Updated(old, t)]
        /\ tlog' = Append(tlog, [fd   |-> fd, tput |-> t, rate |-> old.rate,
                                 file |-> old.chunks[Len(old.chunks)]])
  BY DEF ChunkReceived
<1>3. PICK t \in EstTp(old.tput, sample) :
        /\ trackers' = [trackers EXCEPT ![k] = Updated(old, t)]
        /\ tlog' = Append(tlog, [fd   |-> fd, tput |-> t, rate |-> old.rate,
                                 file |-> old.chunks[Len(old.chunks)]])
  BY <1>2
<1>4. t \in Tputs
  BY DEF EstTp
<1>c. old.chunks # <<>>
  BY <1>1 DEF BitrateInv, ChunksNeverEmpty
<1> HIDE DEF k
<1>5. old \in Tracker
  BY <1>0, <1>1
<1>6. old.chunks \in Seq(Chunk) /\ old.rate \in Rates
  BY <1>5 DEF Tracker
<1> DEFINE new == Updated(old, t)
           rec == [fd |-> fd, tput |-> t, rate |-> old.rate,
                   file |-> old.chunks[Len(old.chunks)]]
<1>7. /\ new \in Tracker
      /\ new.fd = fd
      /\ new.chunks = DropOldest(old.chunks)
      /\ new.tput = t
  BY <1>1, <1>4, <1>5, <1>c, UpdatedShape
<1>8. old.chunks[Len(old.chunks)] \in Chunk
  BY <1>6, <1>c
<1>9. rec \in LogRecord
  BY <1>4, <1>6, <1>8 DEF LogRecord
<1>10. trackers' = [trackers EXCEPT ![k] = new]
  BY <1>3
<1> HIDE DEF new
<1>11. /\ trackers' \in Seq(Tracker)
       /\ DOMAIN trackers' = DOMAIN trackers
       /\ trackers'[k] = new
       /\ \A i \in DOMAIN trackers : i # k => trackers'[i] = trackers[i]
  BY <1>0, <1>1, <1>7, <1>10
<1> QED
  BY <1>1, <1>3, <1>4, <1>7, <1>9, <1>11

-----------------------------------------------------------------------------
(***************************************************************************)
(* BitrateInv is inductive.                                                *)
(***************************************************************************)

(* With no tracker there is nothing to be inconsistent.                    *)
LEMMA BitrateInitInv == BitrateInit => BitrateInv
BY BitrateAssumption
   DEF BitrateInit, BitrateInv, BitrateTypeOK, OneTrackerPerFd, ChunksNeverEmpty,
       ChunksInRequestOrder, ListedAreAsked, LoggedAreTracked, LoggedBeforeListed,
       LogInRequestOrder

(* The new chunk is younger than every listed one and is put first, so the *)
(* orders hold; a record is no newer than the old chunks, hence than it.   *)
LEMMA AskChunkInv ==
  ASSUME BitrateInv, NEW fd \in Fd, AskChunk(fd)
  PROVE  BitrateInv'
<1>0. /\ trackers \in Seq(Tracker) /\ tlog \in Seq(LogRecord)
      /\ asked \in Nat /\ asked + 1 \in Nat
  BY BitrateAssumption DEF BitrateInv, BitrateTypeOK
<1>1. asked' = asked + 1 /\ asked < MaxAsked /\ tlog' = tlog
  BY DEF AskChunk
<1>2. PICK old \in Tracker, k \in Nat :
        /\ k \in DOMAIN trackers' /\ k >= 1
        /\ trackers' \in Seq(Tracker)
        /\ old.fd = fd
        /\ trackers'[k] = WithChunk(old, asked + 1)
        /\ DOMAIN trackers' = DOMAIN trackers \cup {k}
        /\ \A i \in DOMAIN trackers : i # k => trackers'[i] = trackers[i]
        /\ IF k \in DOMAIN trackers THEN trackers[k] = old
           ELSE old.chunks = <<>> /\ \A i \in DOMAIN trackers : trackers[i].fd # fd
  BY AskChunkEffect
<1> DEFINE new == trackers'[k]
<1>3. /\ new.fd = fd
      /\ new.chunks \in Seq(Chunk) /\ old.chunks \in Seq(Chunk)
      /\ Len(new.chunks) = Len(old.chunks) + 1
      /\ new.chunks[1].seg = asked + 1
      /\ \A i \in 2 .. Len(old.chunks) + 1 : new.chunks[i] = old.chunks[i - 1]
  <2>1. /\ WithChunk(old, asked + 1) \in Tracker
        /\ WithChunk(old, asked + 1).fd = old.fd
        /\ Len(WithChunk(old, asked + 1).chunks) = Len(old.chunks) + 1
        /\ WithChunk(old, asked + 1).chunks[1]
             = [seg |-> asked + 1, rate |-> ChosenRate(old.tput)]
        /\ \A i \in 2 .. Len(old.chunks) + 1 :
             WithChunk(old, asked + 1).chunks[i] = old.chunks[i - 1]
    BY <1>0, WithChunkShape
  <2>2. new = WithChunk(old, asked + 1) /\ old.fd = fd
    BY <1>2
  <2>3. old.chunks \in Seq(Chunk) /\ \A tr \in Tracker : tr.chunks \in Seq(Chunk)
    BY DEF Tracker
  <2> HIDE DEF new
  <2> QED
    BY <2>1, <2>2, <2>3
<1> HIDE DEF new
(* What the invariant says of the old list.                                *)
<1>4. /\ \A i \in 1 .. Len(old.chunks) : old.chunks[i].seg <= asked
      /\ \A i, j \in 1 .. Len(old.chunks) :
           i < j => old.chunks[i].seg > old.chunks[j].seg
      /\ \A r \in DOMAIN tlog : tlog[r].fd = fd =>
           \A i \in 1 .. Len(old.chunks) : tlog[r].file.seg <= old.chunks[i].seg
  <2>1. DOMAIN old.chunks = 1 .. Len(old.chunks)
    BY <1>3
  <2>2. CASE k \in DOMAIN trackers
    BY <1>2, <2>1, <2>2
       DEF BitrateInv, ListedAreAsked, ChunksInRequestOrder, LoggedBeforeListed
  <2>3. CASE k \notin DOMAIN trackers
    BY <1>2, <2>3
  <2> QED
    BY <2>2, <2>3
<1>5. /\ \A r \in DOMAIN tlog : tlog[r].fd = fd => tlog[r].file.seg <= asked
      /\ \A r \in DOMAIN tlog : tlog[r].file.seg \in Nat
  <2>1. \A r \in DOMAIN tlog : tlog[r].file.seg \in Nat
    <3>1. \A r \in DOMAIN tlog : tlog[r] \in LogRecord
      BY <1>0
    <3> QED
      BY <3>1 DEF LogRecord, Chunk
  <2>2. ASSUME NEW r \in DOMAIN tlog, tlog[r].fd = fd
        PROVE  tlog[r].file.seg <= asked
    <3>1. PICK m \in DOMAIN trackers : trackers[m].fd = tlog[r].fd
      BY DEF BitrateInv, LoggedAreTracked
    <3>2. k \in DOMAIN trackers
      BY <1>2, <2>2, <3>1
    <3>3. m = k
      BY <1>2, <2>2, <3>1, <3>2 DEF BitrateInv, OneTrackerPerFd
    <3>4. old.chunks # <<>>
      BY <1>2, <3>2 DEF BitrateInv, ChunksNeverEmpty
    <3>5. 1 \in 1 .. Len(old.chunks)
      BY <1>3, <3>4
    <3>6. old.chunks[1] \in Chunk
      BY <1>3, <3>5
    <3>7. old.chunks[1].seg \in Nat
      BY <3>6 DEF Chunk
    <3> QED
      BY <1>0, <1>4, <2>1, <2>2, <3>5, <3>7
  <2> QED
    BY <2>1, <2>2
(* The same of the new list.                                               *)
<1>6. /\ DOMAIN new.chunks = 1 .. Len(old.chunks) + 1
      /\ Len(old.chunks) \in Nat
      /\ \A i \in 1 .. Len(old.chunks) : old.chunks[i].seg \in Nat
  <2>1. \A i \in 1 .. Len(old.chunks) : old.chunks[i] \in Chunk
    BY <1>3
  <2> QED
    BY <1>3, <2>1 DEF Chunk
<1>7. \A i \in 2 .. Len(old.chunks) + 1 :
        i - 1 \in 1 .. Len(old.chunks) /\ new.chunks[i].seg = old.chunks[i - 1].seg
  BY <1>3, <1>6
<1>21. \A i \in 2 .. Len(old.chunks) + 1 :
        new.chunks[i].seg \in Nat /\ new.chunks[i].seg <= asked
  BY <1>4, <1>6, <1>7
<1>8. \A i \in DOMAIN new.chunks : new.chunks[i].seg <= asked + 1
  <2> SUFFICES ASSUME NEW i \in DOMAIN new.chunks
               PROVE  new.chunks[i].seg <= asked + 1
    OBVIOUS
  <2>1. CASE i = 1
    BY <1>0, <1>3, <2>1
  <2>2. CASE i # 1
    <3>1. i \in 2 .. Len(old.chunks) + 1
      BY <1>6, <2>2
    <3> QED
      BY <1>0, <1>21, <3>1
  <2> QED
    BY <2>1, <2>2
<1>9. \A i, j \in DOMAIN new.chunks : i < j => new.chunks[i].seg > new.chunks[j].seg
  <2> SUFFICES ASSUME NEW i \in DOMAIN new.chunks, NEW j \in DOMAIN new.chunks, i < j
               PROVE  new.chunks[i].seg > new.chunks[j].seg
    OBVIOUS
  <2>1. j \in 2 .. Len(old.chunks) + 1
    BY <1>6
  <2>2. CASE i = 1
    <3>1. new.chunks[j].seg \in Nat /\ new.chunks[j].seg <= asked
      BY <1>21, <2>1
    <3>2. new.chunks[i].seg = asked + 1
      BY <1>3, <2>2
    <3> QED
      BY <1>0, <3>1, <3>2
  <2>3. CASE i # 1
    <3>1. i \in 2 .. Len(old.chunks) + 1 /\ i - 1 < j - 1
      BY <1>6, <2>1, <2>3
    <3> QED
      BY <1>4, <1>6, <1>7, <2>1, <3>1
  <2> QED
    BY <2>2, <2>3
<1>10. \A r \in DOMAIN tlog : tlog[r].fd = fd =>
         \A i \in DOMAIN new.chunks : tlog[r].file.seg <= new.chunks[i].seg
  <2> SUFFICES ASSUME NEW r \in DOMAIN tlog, tlog[r].fd = fd,
                      NEW i \in DOMAIN new.chunks
               PROVE  tlog[r].file.seg <= new.chunks[i].seg
    OBVIOUS
  <2>1. CASE i = 1
    BY <1>0, <1>3, <1>5, <2>1
  <2>2. CASE i # 1
    BY <1>4, <1>6, <1>7, <2>2
  <2> QED
    BY <2>1, <2>2
<1>11. /\ \A i \in DOMAIN trackers' : i # k => i \in DOMAIN trackers /\ trackers'[i] = trackers[i]
       /\ trackers'[k] = new /\ new.fd = fd /\ k \in DOMAIN trackers'
  BY <1>2, <1>3 DEF new
(* The conjuncts.                                                          *)
<1>12. BitrateTypeOK'
  BY <1>0, <1>1, <1>2, BitrateAssumption DEF BitrateTypeOK, BitrateInv
<1>13. \A i \in DOMAIN trackers : i # k => trackers[i].fd # fd
  BY <1>2 DEF BitrateInv, OneTrackerPerFd
<1>14. OneTrackerPerFd'
  BY <1>11, <1>13 DEF BitrateInv, OneTrackerPerFd
<1>15. ChunksNeverEmpty'
  <2>1. new.chunks # <<>>
    BY <1>3, <1>6
  <2> QED
    BY <1>11, <2>1 DEF BitrateInv, ChunksNeverEmpty
<1>16. ChunksInRequestOrder'
  BY <1>9, <1>11 DEF BitrateInv, ChunksInRequestOrder
<1>17. ListedAreAsked'
  <2>1. ASSUME NEW i \in DOMAIN trackers', i # k, NEW j \in DOMAIN trackers'[i].chunks
        PROVE  trackers'[i].chunks[j].seg <= asked + 1
    <3>1. /\ i \in DOMAIN trackers /\ trackers'[i] = trackers[i]
          /\ j \in DOMAIN trackers[i].chunks
      BY <1>11, <2>1
    <3>2. trackers[i].chunks[j].seg <= asked
      BY <3>1 DEF BitrateInv, ListedAreAsked
    <3>3. trackers[i] \in Tracker
      BY <1>0, <3>1
    <3>4. trackers[i].chunks \in Seq(Chunk)
      BY <3>3 DEF Tracker
    <3>5. trackers[i].chunks[j] \in Chunk
      BY <3>1, <3>4
    <3>6. trackers[i].chunks[j].seg \in Nat
      BY <3>5 DEF Chunk
    <3> QED
      BY <1>0, <3>1, <3>2, <3>6
  <2> QED
    BY <1>1, <1>8, <1>11, <2>1 DEF ListedAreAsked
<1>18. LoggedAreTracked'
  BY <1>1, <1>2, <1>11 DEF BitrateInv, LoggedAreTracked
<1>19. LoggedBeforeListed'
  BY <1>1, <1>10, <1>11 DEF BitrateInv, LoggedBeforeListed
<1>20. LogInRequestOrder'
  BY <1>1 DEF BitrateInv, LogInRequestOrder
<1> QED
  BY <1>12, <1>14, <1>15, <1>16, <1>17, <1>18, <1>19, <1>20 DEF BitrateInv

(* The chunk logged is the oldest listed, hence no newer than what stays;  *)
(* records already there were no newer than any listed chunk.              *)
LEMMA ChunkReceivedInv ==
  ASSUME BitrateInv, NEW fd \in Fd, ChunkReceived(fd)
  PROVE  BitrateInv'
<1>0. /\ trackers \in Seq(Tracker) /\ tlog \in Seq(LogRecord)
  BY DEF BitrateInv, BitrateTypeOK
<1>1. asked' = asked
  BY DEF ChunkReceived
<1>2. PICK k \in DOMAIN trackers, t \in Tputs, rec \in LogRecord :
        /\ trackers' \in Seq(Tracker)
        /\ DOMAIN trackers' = DOMAIN trackers
        /\ trackers[k].fd = fd
        /\ trackers'[k].fd = fd
        /\ trackers'[k].chunks = DropOldest(trackers[k].chunks)
        /\ \A i \in DOMAIN trackers : i # k => trackers'[i] = trackers[i]
        /\ rec.fd = fd
        /\ rec.file = trackers[k].chunks[Len(trackers[k].chunks)]
        /\ tlog' = Append(tlog, rec)
  BY ChunkReceivedEffect
<1> DEFINE old == trackers[k].chunks
           new == trackers'[k].chunks
<1>3. old \in Seq(Chunk) /\ old # <<>>
  <2>1. trackers[k] \in Tracker
    BY <1>0
  <2>2. trackers[k].chunks # <<>>
    BY DEF BitrateInv, ChunksNeverEmpty
  <2> QED
    BY <2>1, <2>2 DEF Tracker
<1>4. /\ new \in Seq(Chunk)
      /\ new # <<>>
      /\ Len(new) <= Len(old)
      /\ \A i \in 1 .. Len(new) : new[i] = old[i]
  BY <1>2, <1>3, DropOldestShape
<1>5. /\ \A i, j \in DOMAIN old : i < j => old[i].seg > old[j].seg
      /\ \A i \in DOMAIN old : old[i].seg <= asked
      /\ \A r \in DOMAIN tlog : tlog[r].fd = fd =>
           \A i \in DOMAIN old : tlog[r].file.seg <= old[i].seg
  BY <1>2 DEF BitrateInv, ChunksInRequestOrder, ListedAreAsked, LoggedBeforeListed
<1>6. \A i \in DOMAIN trackers : i # k => trackers'[i] = trackers[i] /\ trackers[i].fd # fd
  BY <1>2 DEF BitrateInv, OneTrackerPerFd
<1>7. rec.file = old[Len(old)]
  BY <1>2
<1> HIDE DEF old, new
<1>8. /\ DOMAIN old = 1 .. Len(old) /\ DOMAIN new = 1 .. Len(new)
      /\ Len(old) \in Nat /\ Len(new) \in Nat /\ Len(old) \in DOMAIN old
      /\ DOMAIN new \subseteq DOMAIN old
  BY <1>3, <1>4
<1>9. \A i \in DOMAIN old : old[i].seg \in Nat
  <2>1. \A i \in DOMAIN old : old[i] \in Chunk
    BY <1>3, <1>8
  <2> QED
    BY <2>1 DEF Chunk
<1>10. \A i \in DOMAIN old : rec.file.seg <= old[i].seg
  <2> SUFFICES ASSUME NEW i \in DOMAIN old
               PROVE  rec.file.seg <= old[i].seg
    OBVIOUS
  <2>1. CASE i = Len(old)
    BY <1>7, <1>9, <2>1
  <2>2. CASE i # Len(old)
    <3>1. i < Len(old)
      BY <1>8, <2>2
    <3> QED
      BY <1>5, <1>7, <1>8, <1>9, <3>1
  <2> QED
    BY <2>1, <2>2
<1>11. \A i \in DOMAIN new : i \in DOMAIN old /\ new[i] = old[i]
  BY <1>4, <1>8
(* The log, record by record.                                              *)
<1>12. /\ tlog' \in Seq(LogRecord)
       /\ DOMAIN tlog' = DOMAIN tlog \cup {Len(tlog) + 1}
       /\ tlog'[Len(tlog) + 1] = rec
       /\ \A r \in DOMAIN tlog : tlog'[r] = tlog[r] /\ r < Len(tlog) + 1
       /\ Len(tlog) + 1 \notin DOMAIN tlog
  BY <1>0, <1>2
<1>13. /\ \A i \in DOMAIN trackers : trackers'[i].fd = trackers[i].fd
       /\ DOMAIN trackers' = DOMAIN trackers
       /\ k \in DOMAIN trackers /\ trackers[k].fd = fd
       /\ trackers'[k].chunks = new /\ trackers[k].chunks = old
       /\ \A i \in DOMAIN trackers : i # k => trackers'[i].chunks = trackers[i].chunks
  BY <1>2, <1>6 DEF old, new
(* The conjuncts.                                                          *)
<1>14. BitrateTypeOK'
  BY <1>1, <1>2, <1>12 DEF BitrateTypeOK, BitrateInv
<1>15. OneTrackerPerFd'
  BY <1>13 DEF BitrateInv, OneTrackerPerFd
<1>16. ChunksNeverEmpty'
  BY <1>4, <1>13 DEF BitrateInv, ChunksNeverEmpty
<1>17. ChunksInRequestOrder'
  BY <1>5, <1>11, <1>13 DEF BitrateInv, ChunksInRequestOrder
<1>18. ListedAreAsked'
  BY <1>1, <1>5, <1>11, <1>13 DEF BitrateInv, ListedAreAsked
<1>19. LoggedAreTracked'
  BY <1>2, <1>12, <1>13 DEF BitrateInv, LoggedAreTracked
<1>20. LoggedBeforeListed'
  <2> SUFFICES ASSUME NEW r \in DOMAIN tlog', NEW m \in DOMAIN trackers,
                      trackers[m].fd = tlog'[r].fd,
                      NEW i \in DOMAIN trackers'[m].chunks
               PROVE  tlog'[r].file.seg <= trackers'[m].chunks[i].seg
    BY <1>13 DEF LoggedBeforeListed
  <2>1. CASE r = Len(tlog) + 1
    <3>1. m = k
      BY <1>2, <1>12, <1>13, <2>1 DEF BitrateInv, OneTrackerPerFd
    <3> QED
      BY <1>10, <1>11, <1>12, <1>13, <2>1, <3>1
  <2>2. CASE r # Len(tlog) + 1 /\ m = k
    <3>1. r \in DOMAIN tlog /\ tlog'[r] = tlog[r] /\ tlog[r].fd = fd
      BY <1>12, <1>13, <2>2
    <3> QED
      BY <1>5, <1>11, <1>13, <2>2, <3>1
  <2>3. CASE r # Len(tlog) + 1 /\ m # k
    <3>1. r \in DOMAIN tlog /\ tlog'[r] = tlog[r]
      BY <1>12, <2>3
    <3> QED
      BY <1>13, <2>3, <3>1 DEF BitrateInv, LoggedBeforeListed
  <2> QED
    BY <2>1, <2>2, <2>3
<1>21. LogInRequestOrder'
  <2> SUFFICES ASSUME NEW i \in DOMAIN tlog', NEW j \in DOMAIN tlog',
                      i < j, tlog'[i].fd = tlog'[j].fd
               PROVE  tlog'[i].file.seg <= tlog'[j].file.seg
    BY DEF LogInRequestOrder
  <2>1. i \in DOMAIN tlog /\ tlog'[i] = tlog[i]
    BY <1>0, <1>12
  <2>2. CASE j \in DOMAIN tlog
    BY <1>12, <2>1, <2>2 DEF BitrateInv, LogInRequestOrder
  <2>3. CASE j = Len(tlog) + 1
    BY <1>2, <1>5, <1>7, <1>8, <1>12, <2>1, <2>3
  <2> QED
    BY <1>12, <2>2, <2>3
<1> QED
  BY <1>14, <1>15, <1>16, <1>17, <1>18, <1>19, <1>20, <1>21 DEF BitrateInv

(* A step that leaves the adaptation state alone.                          *)
LEMMA BitrateStutterInv ==
  ASSUME BitrateInv, UNCHANGED bitrateVars
  PROVE  BitrateInv'
BY DEF bitrateVars, BitrateInv, BitrateTypeOK, OneTrackerPerFd, ChunksNeverEmpty,
       ChunksInRequestOrder, ListedAreAsked, LoggedAreTracked, LoggedBeforeListed,
       LogInRequestOrder

-----------------------------------------------------------------------------
(* The adaptation state is consistent whatever order chunks are asked for  *)
(* and received in, on however many descriptors (src/src/bitrate.c).       *)
THEOREM BitrateConsistent == BitrateSpec => []BitrateInv
<1>1. BitrateInit => BitrateInv
  BY BitrateInitInv
<1>2. BitrateInv /\ [BitrateNext]_bitrateVars => BitrateInv'
  <2> SUFFICES ASSUME BitrateInv, [BitrateNext]_bitrateVars PROVE BitrateInv'
    OBVIOUS
  <2>1. ASSUME NEW fd \in Fd, AskChunk(fd) PROVE BitrateInv'
    BY <2>1, AskChunkInv
  <2>2. ASSUME NEW fd \in Fd, ChunkReceived(fd) PROVE BitrateInv'
    BY <2>2, ChunkReceivedInv
  <2>3. CASE UNCHANGED bitrateVars
    BY <2>3, BitrateStutterInv
  <2> QED
    BY <2>1, <2>2, <2>3 DEF BitrateNext
<1> QED
  BY <1>1, <1>2, PTL DEF BitrateSpec

(* The records of a descriptor name its chunks in the order they were      *)
(* asked for (update_throughput logs the end of the list).                 *)
THEOREM LogOrder == BitrateSpec => []LogInRequestOrder
<1>1. BitrateInv => LogInRequestOrder
  BY DEF BitrateInv
<1> QED
  BY <1>1, BitrateConsistent, PTL

LEMMA GreatestOfBounded ==
  ASSUME NEW S \in SUBSET Nat, S # {}, NEW n \in Nat, \A q \in S : q <= n
  PROVE  \E r \in S : \A q \in S : q <= r
<1> DEFINE D == {d \in Nat : n - d \in S}
<1>1. D \in SUBSET Nat /\ D # {}
  <2>1. \A q \in S : n - q \in Nat /\ n - (n - q) = q
    OBVIOUS
  <2> QED
    BY <2>1
<1>2. \E d \in D : \A f \in D : <<f, d>> \notin OpToRel(<, Nat)
  BY <1>1, NatLessThanWellFounded, WFMin
<1>3. \A f, d \in Nat : f < d => <<f, d>> \in OpToRel(<, Nat)
  BY Zenon DEF OpToRel
<1>4. PICK d \in D : \A f \in D : ~(f < d)
  BY <1>1, <1>2, <1>3, Zenon
<1>5. n - d \in S /\ \A q \in S : q <= n - d
  <2>1. \A q \in S : n - q \in D
    <3>1. \A q \in S : n - q \in Nat /\ n - (n - q) = q
      OBVIOUS
    <3> QED
      BY <3>1
  <2>2. \A q \in S : ~(n - q < d)
    BY <1>4, <2>1
  <2> QED
    BY <1>4, <2>2
<1> QED
  BY <1>5

(* The rate chosen affords what is left of an estimate after the margin.   *)
LEMMA ChosenRateFits ==
  ASSUME NEW t \in Int
  PROVE  BestFor(ChosenRate(t), t)
<1>1. CASE Affordable(t) = {}
  <2>1. 10 \notin Affordable(t)
    BY <1>1
  <2>2. t < 15
    BY <2>1 DEF Affordable, Rates
  <2> QED
    BY <1>1, <2>2 DEF Affordable, BestFor, ChosenRate
<1>2. CASE Affordable(t) # {}
  BY <1>2, ChosenRateBest DEF Affordable, BestFor
<1> QED
  BY <1>1, <1>2

(* The estimate in a tracker is that of the last record of its number,     *)
(* which no request and no answer of another number changes.               *)
EstimateIsLastLogged ==
  \A i \in DOMAIN trackers : trackers[i].tput = LastEstimate(trackers[i].fd)

LEMMA AskChunkLastLogged ==
  ASSUME BitrateInv, EstimateIsLastLogged, NEW fd \in Fd, AskChunk(fd)
  PROVE  /\ EstimateIsLastLogged'
         /\ \E i \in DOMAIN trackers' :
              LET n == trackers'[i]
              IN  /\ n.chunks[1] = [seg |-> asked', rate |-> n.rate]
                  /\ BestFor(n.rate, LastEstimate(n.fd))
<1>1. asked' = asked + 1 /\ asked + 1 \in Nat /\ tlog' = tlog
  BY BitrateAssumption DEF AskChunk, BitrateInv, BitrateTypeOK
<1>2. PICK old \in Tracker, k \in Nat :
        /\ k \in DOMAIN trackers' /\ k >= 1
        /\ trackers' \in Seq(Tracker)
        /\ old.fd = fd
        /\ trackers'[k] = WithChunk(old, asked + 1)
        /\ DOMAIN trackers' = DOMAIN trackers \cup {k}
        /\ \A i \in DOMAIN trackers : i # k => trackers'[i] = trackers[i]
        /\ IF k \in DOMAIN trackers THEN trackers[k] = old
           ELSE old.chunks = <<>> /\ \A i \in DOMAIN trackers : trackers[i].fd # fd
        /\ k \notin DOMAIN trackers => old.tput = 100
  BY AskChunkEffect
<1> DEFINE n == trackers'[k]
<1>3. /\ n.fd = fd /\ n.tput = old.tput
      /\ n.rate = ChosenRate(old.tput)
      /\ n.chunks[1] = [seg |-> asked + 1, rate |-> ChosenRate(old.tput)]
  BY <1>1, <1>2, WithChunkShape
<1>4. old.tput = LastEstimate(fd)
  <2>1. CASE k \in DOMAIN trackers
    BY <1>2, <2>1 DEF EstimateIsLastLogged
  <2>2. CASE k \notin DOMAIN trackers
    <3>1. {r \in DOMAIN tlog : tlog[r].fd = fd} = {}
      BY <1>2, <2>2 DEF BitrateInv, LoggedAreTracked
    <3>2. LastEstimate(fd) = 100
      BY <3>1 DEF LastEstimate
    <3> QED
      BY <1>2, <2>2, <3>2
  <2> QED
    BY <2>1, <2>2
<1>5. \A m : LastEstimate(m)' = LastEstimate(m)
  BY <1>1 DEF LastEstimate
<1>6. EstimateIsLastLogged'
  <2> SUFFICES ASSUME NEW i \in DOMAIN trackers'
               PROVE  trackers'[i].tput = LastEstimate(trackers'[i].fd)
    BY <1>5 DEF EstimateIsLastLogged
  <2>1. CASE i = k
    BY <1>3, <1>4, <2>1
  <2>2. CASE i # k
    <3>1. i \in DOMAIN trackers /\ trackers'[i] = trackers[i]
      BY <1>2, <2>2
    <3> QED
      BY <3>1 DEF EstimateIsLastLogged
  <2> QED
    BY <2>1, <2>2
<1>7. old.tput \in Int
  <2>1. old.tput \in Tputs
    BY DEF Tracker
  <2> QED
    BY <2>1, TputsAreIntegers
<1> HIDE DEF n
<1>8. /\ n.chunks[1] = [seg |-> asked', rate |-> n.rate]
      /\ BestFor(n.rate, LastEstimate(n.fd))
  BY <1>1, <1>3, <1>4, <1>7, ChosenRateFits
<1> QED
  BY <1>2, <1>6, <1>8 DEF n

LEMMA ChunkReceivedLastLogged ==
  ASSUME BitrateInv, EstimateIsLastLogged, NEW fd \in Fd, ChunkReceived(fd)
  PROVE  EstimateIsLastLogged'
<1>1. PICK k \in DOMAIN trackers, t \in Tputs, rec \in LogRecord :
        /\ DOMAIN trackers' = DOMAIN trackers
        /\ trackers[k].fd = fd
        /\ trackers'[k].fd = fd
        /\ trackers'[k].tput = rec.tput
        /\ \A i \in DOMAIN trackers : i # k => trackers'[i] = trackers[i]
        /\ rec.fd = fd
        /\ tlog' = Append(tlog, rec)
  BY ChunkReceivedEffect
<1> DEFINE last == Len(tlog) + 1
           Of(m) == {r \in DOMAIN tlog : tlog[r].fd = m}
           OfNext(m) == {r \in DOMAIN tlog' : tlog'[r].fd = m}
<1>2. tlog \in Seq(LogRecord) /\ Len(tlog) \in Nat
  BY DEF BitrateInv, BitrateTypeOK
<1>3. /\ DOMAIN tlog = 1 .. Len(tlog) /\ DOMAIN tlog' = 1 .. last
      /\ tlog'[last] = rec
      /\ \A r \in 1 .. Len(tlog) : tlog'[r] = tlog[r]
  BY <1>1, <1>2
<1>4. LastEstimate(fd)' = rec.tput
  <2>1. last \in OfNext(fd) /\ \A q \in OfNext(fd) : q <= last
    BY <1>1, <1>2, <1>3
  <2>2. \A r \in OfNext(fd) : (\A q \in OfNext(fd) : q <= r) => r = last
    BY <1>2, <1>3, <2>1
  <2>3. (CHOOSE r \in OfNext(fd) : \A q \in OfNext(fd) : q <= r) = last
    <3> HIDE DEF OfNext, last
    <3> QED
      BY <2>1, <2>2
  <2>4. LastEstimate(fd)' = tlog'[last].tput
    BY <2>1, <2>3 DEF LastEstimate
  <2> QED
    BY <1>3, <2>4
<1>5. ASSUME NEW m, m # fd PROVE LastEstimate(m)' = LastEstimate(m)
  <2> DEFINE S == Of(m)
             c == CHOOSE r \in S : \A q \in S : q <= r
  <2>1. OfNext(m) = S
    BY <1>1, <1>2, <1>3, <1>5
  <2>2. \A r \in S : tlog'[r] = tlog[r]
    BY <1>3
  <2>3. LastEstimate(m) = (IF S = {} THEN 100 ELSE tlog[c].tput)
    BY DEF LastEstimate
  <2>4. LastEstimate(m)' = (IF S = {} THEN 100 ELSE tlog'[c].tput)
    <3>1. LastEstimate(m)' = IF OfNext(m) = {} THEN 100
            ELSE tlog'[CHOOSE r \in OfNext(m) : \A q \in OfNext(m) : q <= r].tput
      BY DEF LastEstimate
    <3> HIDE DEF OfNext, S
    <3> QED
      BY <2>1, <3>1
  <2>5. S # {} => c \in S
    <3> SUFFICES ASSUME S # {} PROVE \E r \in S : \A q \in S : q <= r
      BY DEF c
    <3>1. S \in SUBSET Nat /\ (\A q \in S : q <= Len(tlog)) /\ Len(tlog) \in Nat
      BY <1>2, <1>3
    <3> QED
      BY <3>1, GreatestOfBounded
  <2> HIDE DEF S, c
  <2> QED
    BY <2>2, <2>3, <2>4, <2>5
<1>6. \A i \in DOMAIN trackers : i # k => trackers[i].fd # fd
  BY <1>1 DEF BitrateInv, OneTrackerPerFd
<1> HIDE DEF Of, OfNext
<1> SUFFICES ASSUME NEW i \in DOMAIN trackers
             PROVE  (trackers[i].tput = LastEstimate(trackers[i].fd))'
  BY <1>1, Zenon DEF EstimateIsLastLogged
<1>7. CASE i = k
  BY <1>1, <1>4, <1>7
<1>8. CASE i # k
  <2>1. trackers'[i] = trackers[i] /\ trackers[i].fd # fd
    BY <1>1, <1>6, <1>8
  <2> QED
    BY <1>5, <2>1 DEF EstimateIsLastLogged
<1> QED
  BY <1>7, <1>8

(* Every request is made at the best rate that the last record of its      *)
(* number in the log affords, or at 100 when that affords none, over any   *)
(* order of requests and answers (update_bitrate, update_throughput).      *)
THEOREM RateOfLastRecord == BitrateSpec => AsksByLastRecord
<1> DEFINE Best ==
      asked' # asked =>
        \E i \in DOMAIN trackers' :
          LET n == trackers'[i]
          IN  /\ n.chunks[1] = [seg |-> asked', rate |-> n.rate]
              /\ BestFor(n.rate, LastEstimate(n.fd))
<1>1. BitrateInit => EstimateIsLastLogged
  BY DEF BitrateInit, EstimateIsLastLogged
<1>2. BitrateInv /\ EstimateIsLastLogged /\ [BitrateNext]_bitrateVars
      => EstimateIsLastLogged' /\ [Best]_bitrateVars
  <2> SUFFICES ASSUME BitrateInv, EstimateIsLastLogged, [BitrateNext]_bitrateVars
               PROVE  EstimateIsLastLogged' /\ [Best]_bitrateVars
    OBVIOUS
  <2>1. CASE UNCHANGED bitrateVars
    <3>1. trackers' = trackers /\ tlog' = tlog /\ asked' = asked
      BY <2>1 DEF bitrateVars
    <3>2. \A m : LastEstimate(m)' = LastEstimate(m)
      BY <3>1 DEF LastEstimate
    <3>3. EstimateIsLastLogged'
      BY <3>1, <3>2 DEF EstimateIsLastLogged
    <3> HIDE DEF Best
    <3> QED
      BY <2>1, <3>3
  <2>2. ASSUME NEW fd \in Fd, AskChunk(fd) PROVE EstimateIsLastLogged' /\ Best
    BY <2>2, AskChunkLastLogged
  <2>3. ASSUME NEW fd \in Fd, ChunkReceived(fd) PROVE EstimateIsLastLogged' /\ asked' = asked
    BY <2>3, ChunkReceivedLastLogged DEF ChunkReceived
  <2> QED
    BY <2>1, <2>2, <2>3 DEF BitrateNext
<1> QED
  BY <1>1, <1>2, BitrateConsistent, PTL DEF BitrateSpec, AsksByLastRecord

(* The trackers, the number of requests and the log stay of their types    *)
(* through every step of update_bitrate and update_throughput.             *)
THEOREM BitrateTyped == BitrateSpec => []BitrateTypeOK
<1>1. BitrateInv => BitrateTypeOK
  BY DEF BitrateInv
<1> QED
  BY <1>1, BitrateConsistent, PTL
=============================================================================
