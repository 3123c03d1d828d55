---------------------------- MODULE MCMemoryPool ----------------------------
(***************************************************************************)
(* A small instance of MemoryPool for TLC.  No block is special, and every *)
(* property is a safety property, so the blocks are symmetric.             *)
(***************************************************************************)
EXTENDS MemoryPool, TLC

Symmetry == Permutations(Blocks)
=============================================================================
