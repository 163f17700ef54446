---------------------------- MODULE MCPoolParts -----------------------------
(***************************************************************************)
(* Instances of LRUList and DiskManager, the parts the buffer pool is made *)
(* of, for TLC, side by side: a behaviour is the life of one part, and     *)
(* leaves the variables of the other alone.                                *)
(***************************************************************************)
EXTENDS LRUList, DiskManager

VARIABLE part

PartInit == part \in {"LRU", "disk"} /\ Init /\ DiskInit

PartNext ==
    /\ UNCHANGED part
    /\ \/ part = "LRU" /\ Next /\ UNCHANGED diskVars
       \/ part = "disk" /\ DiskNext /\ UNCHANGED vars

PartSpec == PartInit /\ [][PartNext]_<<part, vars, diskVars>>
=============================================================================
