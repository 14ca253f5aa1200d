------------------------------- MODULE Rotation -------------------------------
(***************************************************************************)
(* What the round-robin name server promises: the servers are given out in *)
(* the order of the servers file, over and over, each query one further.   *)
(***************************************************************************)
EXTENDS Naturals, Sequences

CONSTANT N   (* the number of servers *)

VARIABLE given   (* the servers given out so far, by their place in the file *)

RotationInit == given = <<>>

Give == given' = Append(given, (Len(given) % N) + 1)

RotationSpec == RotationInit /\ [][Give]_given
===============================================================================
