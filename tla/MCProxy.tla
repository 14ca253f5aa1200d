------------------------------- MODULE MCProxy -------------------------------
(* Instances of Proxy for TLC. Descriptors start at 3, after the standard   *)
(* three; MCFdN leaves N of them to the connections.                        *)
EXTENDS Proxy, TLC

MCFd5 == 3 .. 8
MCFd8 == 3 .. 11

OneTput == {100}
MCTputs == {14, 100, 150, 1600}
NoFaults == {}

(* The connections are alike. *)
Symmetry == Permutations(Conn)
=============================================================================
