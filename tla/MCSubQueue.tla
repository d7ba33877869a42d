---------------------------- MODULE MCSubQueue ----------------------------
(***************************************************************************)
(* SubQueue for TLC: consumers are interchangeable, and so are blocks.     *)
(***************************************************************************)
EXTENDS SubQueue, TLC

Symmetry == Permutations(Consumers) \cup Permutations(Blocks)
=============================================================================
