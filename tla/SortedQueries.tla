--------------------------- MODULE SortedQueries ----------------------------
(***************************************************************************)
(* SortedQueries: ExternalMergeSort over the rows of a scan, driven as its *)
(* callers drive it: its constructor opens it, the statement opens it once *)
(* more, and then it is asked for rows until there are none.  (Merge join  *)
(* and aggregation over sorts are in Joins and GroupedQueries.)            *)
(*                                                                         *)
(* SeqScan names its columns table.column while getColIndex asks the heap, *)
(* which knows them as column.  A caller may give the sort either name.    *)
(***************************************************************************)
EXTENDS ExternalSort

CONSTANTS
    Cells,         \* fields of the sorted column
    MaxRows        \* bound: rows of a table

SortConstants ==
    /\ PerPage \in Nat \ {0} /\ MaxRows \in Nat
    /\ \A f \in Cells : f.value \in Int

VARIABLES
    sorted,        \* what is sorted: [kind, rows, at, dir]
    sort,          \* the ExternalMergeSort
    returned,      \* the rows returned
    stage,         \* "new", "open", "done" (false was returned), "undefined"
    openings       \* calls of open

sortVars == <<sorted, sort, returned, stage, openings>>

\* The first column is sorted; it is named, or it is not and the sort looks
\* behind the row.
Sorts ==
    {[kind |-> "sort", rows |-> [i \in 1 .. Len(c) |-> <<c[i], IntField(i)>>],
      at |-> at, dir |-> dir] :
        c \in UNION {[1 .. m -> Cells] : m \in 0 .. MaxRows}, at \in {1, 3}, dir \in {"ASC", "DESC"}}

SortInit == /\ sorted \in Sorts
            /\ sort = NewSort /\ returned = <<>> /\ stage = "new" /\ openings = 0

OpenSort ==
    /\ sorted.kind = "sort" /\ openings < 2 /\ stage \in {"new", "open"} /\ returned = <<>>
    /\ openings' = openings + 1
    /\ IF OpensOnNothing(sort, sorted.rows)
       THEN stage' = "undefined" /\ UNCHANGED sort
       ELSE /\ sort' \in Opened(sort, sorted.rows, sorted.at, sorted.dir)
            /\ stage' = "open"
    /\ UNCHANGED <<sorted, returned>>

NextSorted ==
    /\ sorted.kind = "sort" /\ stage = "open"
    /\ LET f == FetchSorted(sort) IN
       IF f.row = <<>> THEN stage' = "done" /\ UNCHANGED <<sort, returned>>
       ELSE sort' = f.sort /\ returned' = Append(returned, f.row) /\ UNCHANGED stage
    /\ UNCHANGED <<sorted, openings>>

SortNext == OpenSort \/ NextSorted

SortSpec == SortInit /\ [][SortNext]_sortVars

-----------------------------------------------------------------------------
\* A sort that has returned false has returned every row of its child once for
\* each time it was opened, and in order where its key is one column of rows that
\* can be compared: nothing is lost or invented when runs are cut, merged, and
\* merged again with what the last opening left (ExternalMergeSortExecuter.c++:76).
SortedRows ==
    sorted.kind = "sort" /\ stage = "done" =>
        /\ Len(returned) = openings * Len(sorted.rows)
        /\ \A r \in ToSet(sorted.rows) : Count(r, returned) = openings * Count(r, sorted.rows)
        /\ Ordered(sorted.rows, sorted.at) => InOrder(returned, sorted.at, sorted.dir)
=============================================================================
