------------------------------ MODULE MCResolver ------------------------------
(* Instances of Resolver for TLC. Clients that are not proxies are foreign.  *)
EXTENDS Resolver

CONSTANTS p1, p2, p3, p4

Two == {p1, p2}
Three == {p1, p2, p3}
Four == {p1, p2, p3, p4}

AllServers == 1 .. N
FirstServer == {1}

Rotating == {[rr |-> TRUE, nearest |-> 0]}

(* In rotation, with a nearest server and with none.                         *)
AnyMode == Rotating \cup {[rr |-> FALSE, nearest |-> s] : s \in {0, 2}}
===============================================================================
