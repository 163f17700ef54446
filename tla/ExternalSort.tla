---------------------------- MODULE ExternalSort ----------------------------
(***************************************************************************)
(* ExternalSort: class ExternalMergeSort.  open reads its child, cuts the  *)
(* rows into runs of a page, sorts each and merges the runs pairwise into  *)
(* one; getNext walks the pages of that run.  pages_ids outlives open: a   *)
(* sort that is opened again merges its rows with those it has.            *)
(*                                                                         *)
(* A page keeps its content while it is being used: what happens where the *)
(* pool takes the frame away is in PoolClients.                            *)
(***************************************************************************)
EXTENDS Fields

CONSTANT PerPage        \* rows that fit a page

(* A sort is a record [runs, page, slot]                                   *)
(*   runs         pages_ids: the rows of each run that is not yet merged   *)
(*   page, slot   curr_rid_pointer: a page of the first run and a slot     *)
NewSort == [runs |-> <<>>, page |-> 1, slot |-> 0]

Before(dir, f, g) == IF dir = "ASC" THEN Less(f, g) ELSE Greater(f, g)

Arrangements(b) ==
    {s \in [1 .. Len(b) -> ToSet(b)] : \A r \in ToSet(b) : Count(r, s) = Count(r, b)}

\* getColIndex answers with the number of columns for a name the heap of the
\* child does not have: the comparison then reads behind the row.
KeyIn(at, b) == \A i \in 1 .. Len(b) : at <= Len(b[i])

\* std::sort orders a run that has one order; rows whose keys are equal, or
\* not comparable with the others, it may leave in any order.
Ordered(b, at) == KeyIn(at, b) /\ \A i, j \in 1 .. Len(b) : Comparable(b[i][at], b[j][at])
InOrder(b, at, dir) == \A i, j \in 1 .. Len(b) : i < j => ~Before(dir, b[j][at], b[i][at])
SortedRuns(b, at, dir) ==
    IF Ordered(b, at) THEN {s \in Arrangements(b) : InOrder(s, at, dir)} ELSE Arrangements(b)

\* The buffers that open fills from its child, the last one maybe not full.
Buffers(rows) ==
    [n \in 1 .. (Len(rows) + PerPage - 1) \div PerPage |->
        SubSeq(rows, (n - 1) * PerPage + 1, Min({n * PerPage, Len(rows)}))]

\* write_run_buffer_on_disk for each of them.
RunQueues(buffers, at, dir) ==
    LET runs(n) == SortedRuns(buffers[n], at, dir)
    IN  {q \in [1 .. Len(buffers) -> UNION {runs(n) : n \in 1 .. Len(buffers)}] :
            \A n \in 1 .. Len(buffers) : q[n] \in runs(n)}

\* How many of the first k rows of a merge are from the left run: the smaller
\* head is taken, the right one if neither is, until one of the runs has ended.
FromLeft(l, r, at, dir) ==
    LET left[k \in 0 .. Len(l) + Len(r)] ==
            IF k = 0 THEN 0
            ELSE LET i == left[k - 1]
                     j == k - 1 - i
                 IN  IF i < Len(l) /\ (j >= Len(r) \/ Before(dir, l[i + 1][at], r[j + 1][at]))
                     THEN i + 1 ELSE i
    IN  left

\* (Slip: where the left run has ended the rest of the right one is not copied.)
MergeShort(l, r, at, dir) ==
    LET left == FromLeft(l, r, at, dir)
        end == Min({k \in 0 .. Len(l) + Len(r) : left[k] = Len(l)})
    IN  [k \in 1 .. end |-> IF left[k] > left[k - 1] THEN l[left[k]] ELSE r[k - left[k]]]

Merge(l, r, at, dir) ==
    LET left == FromLeft(l, r, at, dir)
    IN  [k \in 1 .. Len(l) + Len(r) |->
            IF left[k] > left[k - 1] THEN l[left[k]] ELSE r[k - left[k]]]

\* The first two runs of the queue go into a new one at its end, as long as
\* there are two.
Merged(queue, at, dir) ==
    LET merges[n \in 0 .. Len(queue)] ==
            IF n = 0 THEN queue
            ELSE LET q == merges[n - 1]
                 IN  IF Len(q) <= 1 THEN q
                     ELSE SubSeq(q, 3, Len(q)) \o <<Merge(q[1], q[2], at, dir)>>
    IN  merges[Len(queue)]

\* The run of the last opening.
Kept(s) == IF s.runs = <<>> THEN <<>> ELSE s.runs[1]

\* The sorts that open can leave.  Without a key every order may come out.
Opened(s, rows, at, dir) ==
    LET queues == {s.runs \o q : q \in RunQueues(Buffers(rows), at, dir)}
        runs == IF KeyIn(at, rows) THEN {Merged(q, at, dir) : q \in queues}
                ELSE {<<a>> : a \in Arrangements(Kept(s) \o rows)}
    IN  {[runs |-> q, page |-> 1, slot |-> 0] : q \in runs}

\* With no row in its child open takes the front of an empty queue.
OpensOnNothing(s, rows) == s.runs = <<>> /\ rows = <<>>

\* The pages of the run that getNext walks.
RunPages(s) == Buffers(s.runs[1])

\* getNext: [sort, row], the row <<>> where it returns false.
FetchSorted(s) ==
    LET pages == RunPages(s) IN
    CASE s.slot < Len(pages[s.page]) ->
            [sort |-> [s EXCEPT !.slot = @ + 1], row |-> pages[s.page][s.slot + 1]]
      [] s.slot >= Len(pages[s.page]) /\ s.page = Len(pages) -> [sort |-> s, row |-> <<>>]
      [] OTHER -> [sort |-> [runs |-> s.runs, page |-> s.page + 1, slot |-> 1],
                   row |-> pages[s.page + 1][1]]
=============================================================================
