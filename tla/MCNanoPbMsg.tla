---------------------------- MODULE MCNanoPbMsg ----------------------------
(***************************************************************************)
(* NanoPbMsg for TLC: heap blocks are interchangeable.                     *)
(***************************************************************************)
EXTENDS NanoPbMsg, TLC

Renaming == Permutations(Blocks)
=============================================================================
