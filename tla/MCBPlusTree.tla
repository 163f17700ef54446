---------------------------- MODULE MCBPlusTree ----------------------------
(***************************************************************************)
(* BPlusTree alone, for TLC, with the trees to begin with.                 *)
(***************************************************************************)
EXTENDS BPlusTree, TreeStarts
=============================================================================
