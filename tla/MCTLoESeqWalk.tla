---------------------------- MODULE MCTLoESeqWalk ----------------------------
(* TLoESeqWalk on a ring of 16 numbers, four times round. *)
EXTENDS TLoESeqWalk
=============================================================================
