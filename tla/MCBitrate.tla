------------------------------ MODULE MCBitrate ------------------------------
(* Instance of Bitrate for TLC: two descriptor numbers, and one throughput  *)
(* below the ladder, at its start, on a rung boundary and at its top.       *)
EXTENDS Bitrate

MCFd == {4, 5}
MCTputs == {14, 100, 150, 1600}
==============================================================================
