---------------------------- MODULE MCConntrack ----------------------------
(***************************************************************************)
(* Two connections to one peer, which may have one at a time, so that the  *)
(* second evicts the first.                                                *)
(***************************************************************************)
EXTENDS Conntrack

CONSTANT ThePeer

AllToOne == [c \in Conns |-> ThePeer]
=============================================================================
