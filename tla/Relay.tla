-------------------------------- MODULE Relay --------------------------------
(***************************************************************************)
(* What the proxy promises when nothing goes wrong, seen from outside:     *)
(* connections are taken up one at a time in the order they arrived, and   *)
(* the one taken up is answered once before the next is looked at. Module  *)
(* Proxy implements it under the mapping given there.                      *)
(***************************************************************************)
EXTENDS Sequences

CONSTANT Conn

VARIABLES
  waiting,   (* connections not taken up yet, oldest first                 *)
  serving,   (* the connection taken up: a set of at most one              *)
  answered   (* connections that have got their answer                     *)

relayVars == <<waiting, serving, answered>>

RelayInit == waiting = <<>> /\ serving = {} /\ answered = {}

Arrive(c) ==
  /\ c \notin serving \cup answered
  /\ \A i \in DOMAIN waiting : waiting[i] # c
  /\ waiting' = Append(waiting, c)
  /\ UNCHANGED <<serving, answered>>

TakeUp ==
  /\ serving = {}
  /\ waiting # <<>>
  /\ serving' = {Head(waiting)}
  /\ waiting' = Tail(waiting)
  /\ UNCHANGED answered

Answer ==
  /\ serving # {}
  /\ answered' = answered \cup serving
  /\ serving' = {}
  /\ UNCHANGED waiting

RelayNext == TakeUp \/ Answer \/ \E c \in Conn : Arrive(c)

(* A connection that waits is taken up, and one taken up is answered.      *)
RelaySpec ==
  /\ RelayInit /\ [][RelayNext]_relayVars
  /\ WF_relayVars(TakeUp) /\ WF_relayVars(Answer)
=============================================================================
