----------------------------- MODULE MCSpdkNode -----------------------------
(***************************************************************************)
(* Instances of SpdkNode for TLC.                                          *)
(***************************************************************************)
EXTENDS SpdkNode, TLC

Symmetry == Permutations(Threads) \cup Permutations(Names)
=============================================================================
