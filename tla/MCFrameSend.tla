---------------------------- MODULE MCFrameSend ----------------------------
(***************************************************************************)
(* FrameSend for TLC.                                                      *)
(***************************************************************************)
EXTENDS FrameSend, TLC

Symmetry == Permutations(Client)
=============================================================================
