----------------------------- MODULE MCIndexes ------------------------------
(***************************************************************************)
(* Instances of StaticHashIndex and BPlusTree for TLC, side by side: a     *)
(* behaviour is the life of one index, of the type createIndex was given,  *)
(* and leaves the variables of the other type alone.                       *)
(***************************************************************************)
EXTENDS StaticHashIndex, TreeStarts

CONSTANTS t, TreeKeys, Values, Starts, MaxInserts, MaxRemoves

VARIABLES type,
          tree, loaded, inserts, removes

B == INSTANCE BPlusTree WITH Keys <- TreeKeys

ASSUME MCHashConstants == HashConstants

ASSUME MCTreeConstants == B!TreeConstants /\ B!StartsAreEntries

treeVars == <<tree, loaded, inserts, removes>>

-----------------------------------------------------------------------------
IndexInit ==
    /\ type \in {"BTree", "Hash"}
    /\ IF type = "BTree" THEN B!Init
       ELSE tree = B!EmptyTree /\ loaded = FALSE /\ inserts = 0 /\ removes = 0
    /\ Init

IndexNext ==
    /\ UNCHANGED type
    /\ \/ type = "BTree" /\ B!Next /\ UNCHANGED vars
       \/ type = "Hash" /\ Next /\ UNCHANGED treeVars

IndexSpec == IndexInit /\ [][IndexNext]_<<type, treeVars, vars>>

-----------------------------------------------------------------------------
(* The properties of BPlusTree, as they are stated and explained there; those *)
(* of StaticHashIndex are named as they are.                                  *)

\* Leaves are sorted, and separators separate what is left and right of them.
Ordered == B!Ordered

\* All leaves are equally deep, and nodes are neither too full nor too empty.
Balanced == B!Balanced

\* The pages hold the nodes that are in memory.
PagesMatch == B!PagesMatch

\* An insertion adds its entry, a removal loses one if the key has one and never
\* more, saving and loading lose nothing, and only a call on a loaded tree dies.
StepsKeepEntries == B!StepsKeepEntries

\* Until a removal a range query gathers the entries of its range, each once, and
\* it strays behind the last leaf only if no key is above the range.
RangeExact == B!RangeExact

\* Until a removal search and findValue find the keys that are there, and
\* findValue strays behind the last leaf only if no key is greater.
FindsKeys == B!FindsKeys
=============================================================================
