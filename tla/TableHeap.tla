----------------------------- MODULE TableHeap -----------------------------
(***************************************************************************)
(* TableHeap: a table as a chain of slotted pages, over the buffer pool,   *)
(* with the statements that scan it while they change it: UPDATE and       *)
(* DELETE run SeqScan::getNext and rewrite the tuple it returned before    *)
(* they ask for the next one.                                              *)
(*                                                                         *)
(* Of the pool the heap sees the copy of a page in memory, the copy in the *)
(* file, and the dirty flag; which page is evicted, and when, is left      *)
(* open.  Evicting a page that is not dirty drops its copy in memory: this *)
(* is BufferPool for callers that do not mark what they change.            *)
(*                                                                         *)
(* The constructor of a new table is Init.  Page 1 holds the metadata,     *)
(* which is written when the table is closed and read when it is opened,   *)
(* and no tuples.  Column descriptions and indexes are left out.           *)
(***************************************************************************)
EXTENDS SlottedPage

CONSTANTS
    Predicates,  \* the sets of tuples that WHERE clauses select
    MaxInserts,  \* bound: calls of insertTuple, those that move a tuple included
    MaxStatements, \* bound: UPDATE and DELETE statements
    MaxEvictions \* bound: evictions of a page

RID(p, s) == [page |-> p, slot |-> s]
NoRID == RID(-1, -1)

VARIABLES
    heap,      \* the TableHeap object and its pages
    stmt,      \* the statement that is running, with its scan
    inserts, statements, evictions   \* how much of each bound is used

bounds == <<inserts, statements, evictions>>
vars == <<heap, stmt, bounds>>

(* heap has the fields                                                     *)
(*   pages, disk    page id -> the page in memory, in the file             *)
(*   dirty          the pages marked dirty                                 *)
(*   last_page_id, num_of_tuples, starting_rid, stopping_rid               *)
NoStmt == [kind |-> "none"]

Init ==
    /\ LET linked == [BlankPage EXCEPT !.next_page_id = 2] IN
       heap = [pages |-> [p \in {1, 2} |-> IF p = 1 THEN linked ELSE BlankPage],
               disk |-> [p \in {1, 2} |-> BlankPage],
               dirty |-> {1},
               last_page_id |-> 2, num_of_tuples |-> 0,
               starting_rid |-> NoRID, stopping_rid |-> NoRID]
    /\ stmt = NoStmt
    /\ inserts = 0 /\ statements = 0 /\ evictions = 0

-----------------------------------------------------------------------------
(* The operations of the class, as operators on the heap h.                *)

\* markAsDirty.  (Slip: it is not called.)
Unmarked(h, p) == h
Marked(h, p) == [h EXCEPT !.dirty = @ \cup {p}]

\* A new page behind the last one: newPage puts a blank page in the file, and
\* the old last page is linked to it and marked.
Extended(h) ==
    LET new == Cardinality(DOMAIN h.pages) + 1
        ids == DOMAIN h.pages \cup {new}
    IN  [Marked(h, h.last_page_id) EXCEPT
           !.pages = [p \in ids |->
               IF p = new THEN BlankPage
               ELSE IF p = h.last_page_id THEN [@[p] EXCEPT !.next_page_id = new]
               ELSE @[p]],
           !.disk = [p \in ids |-> IF p = new THEN BlankPage ELSE @[p]],
           !.last_page_id = new]

\* insertTuple tries the last page, then a new one.  The RID it returns, which
\* is also the new stopping_rid, has the slot of the first attempt.
InsertTuple(h, v) ==
    LET first == PageInsert(h.pages[h.last_page_id], v)
        g == IF first.slot = -1 THEN Extended(h) ELSE h
        last == g.last_page_id
        rid == RID(last, first.slot)
    IN  [Marked(g, last) EXCEPT
           !.pages[last] = PageInsert(@, v).page,
           !.num_of_tuples = @ + 1,
           !.starting_rid = IF @.page = -1 THEN rid ELSE @,
           !.stopping_rid = rid]

\* deleteTuple does not mark the page.
DeleteTuple(h, rid) ==
    [h EXCEPT !.pages[rid.page] = PageDelete(@, rid.slot),
              !.num_of_tuples = @ - 1]

Moves(h, rid, v) == Length(h.pages[rid.page].slots[rid.slot].value) < Length(v)

\* (Slip: the old copy stays when the tuple moves.)
UpdateLeavesOld(h, rid, v) ==
    IF Moves(h, rid, v) THEN InsertTuple(h, v)
    ELSE [h EXCEPT !.pages[rid.page] = PageOverwrite(@, rid.slot, v)]

\* updateTuple of a live tuple: a longer one moves to the end of the table, the
\* others are overwritten in place, and the page is not marked.
UpdateTuple(h, rid, v) ==
    IF Moves(h, rid, v)
    THEN InsertTuple([h EXCEPT !.pages[rid.page] = PageDelete(@, rid.slot)], v)
    ELSE [h EXCEPT !.pages[rid.page] = PageOverwrite(@, rid.slot, v)]

\* What saveMetaData, called by the destructor, puts on page 1.
Metadata(h) == [last_page_id |-> h.last_page_id,
                num_of_tuples |-> h.num_of_tuples,
                starting_rid |-> h.starting_rid,
                stopping_rid |-> h.stopping_rid]

\* (Slip: the pool forgets a page without writing it back.)
Dropped(h, P) ==
    [h EXCEPT !.pages = [p \in DOMAIN @ |-> IF p \in P THEN h.disk[p] ELSE @[p]],
              !.dirty = @ \ P]

\* The pool writes a dirty page back and forgets the copy in memory.
Evicted(h, P) ==
    [h EXCEPT !.disk = [p \in DOMAIN @ |->
                          IF p \in P \cap h.dirty THEN h.pages[p] ELSE @[p]],
              !.pages = [p \in DOMAIN @ |->
                           IF p \in P \ h.dirty THEN h.disk[p] ELSE @[p]],
              !.dirty = @ \ P]

\* loadMetaData of a heap that was just opened.
LoadMetaData(h, meta) ==
    [h EXCEPT !.last_page_id = meta.last_page_id,
              !.num_of_tuples = meta.num_of_tuples,
              !.starting_rid = meta.starting_rid,
              !.stopping_rid = meta.stopping_rid]

LiveRIDs(h) == UNION {{RID(p, s) : s \in LiveSlots(h.pages[p])} : p \in DOMAIN h.pages}

-----------------------------------------------------------------------------
(* The statements. *)

\* INSERT.
Insert(v) ==
    /\ stmt = NoStmt
    /\ inserts < MaxInserts
    /\ heap' = InsertTuple(heap, v)
    /\ inserts' = inserts + 1
    /\ UNCHANGED <<stmt, statements, evictions>>

\* A statement opens its scan at starting_rid.  The bound leaves room for
\* every live tuple to move once.
Start(kind, match, value) ==
    /\ stmt = NoStmt
    /\ statements < MaxStatements
    /\ kind = "update" => inserts + Cardinality(LiveRIDs(heap)) <= MaxInserts
    /\ stmt' = [kind |-> kind, match |-> match, value |-> value,
                curr_rid_pointer |-> heap.starting_rid,
                unseen |-> LiveRIDs(heap)]
    /\ statements' = statements + 1
    /\ UNCHANGED <<heap, inserts, evictions>>

\* UPDATE SET value, and DELETE, WHERE the tuple is in match.
StartUpdate == \E match \in Predicates, v \in Values : Start("update", match, v)
StartDelete == \E match \in Predicates : Start("delete", match, {})

\* Where one turn of the loop in getNext looks: behind the last slot of a page
\* it goes on with the first slot of the next page.
PastPage == LET c == stmt.curr_rid_pointer IN
                c.slot >= NumTuples(heap.pages[c.page])
NextPageId == heap.pages[stmt.curr_rid_pointer.page].next_page_id
Looked == IF PastPage THEN RID(NextPageId, 0) ELSE stmt.curr_rid_pointer

\* fetchPage(-1) returns null: the table has no tuple.  (Slip: the scan stops
\* before the page of stopping_rid.)
AtEndEarly ==
    stmt.curr_rid_pointer.page # -1 =>
        PastPage /\ (NextPageId >= heap.stopping_rid.page \/ NextPageId = -1)
AtEnd ==
    stmt.curr_rid_pointer.page # -1 =>
        PastPage /\ (NextPageId > heap.stopping_rid.page \/ NextPageId = -1)

\* A turn that ends the scan, and with it the statement.
EndScan ==
    /\ stmt # NoStmt
    /\ AtEnd
    /\ stmt' = NoStmt
    /\ UNCHANGED <<heap, bounds>>

Found == IsLive(heap.pages[Looked.page], Looked.slot)
Matches == Found /\ heap.pages[Looked.page].slots[Looked.slot].value \in stmt.match

\* (Slip: a slot without a live tuple is not passed.)
AdvanceIfFound ==
    stmt' = [stmt EXCEPT !.curr_rid_pointer =
                 RID(Looked.page, IF Found THEN Looked.slot + 1 ELSE Looked.slot),
               !.unseen = IF Found THEN @ \ {Looked} ELSE @]

Advance ==
    stmt' = [stmt EXCEPT
               !.curr_rid_pointer = RID(Looked.page, Looked.slot + 1),
               !.unseen = IF Found THEN @ \ {Looked} ELSE @]

\* A turn that finds no tuple, or one the predicate rejects.
PassTuple ==
    /\ stmt # NoStmt
    /\ ~AtEnd
    /\ ~Matches
    /\ Advance
    /\ UNCHANGED <<heap, bounds>>

UpdateFound ==
    /\ stmt # NoStmt
    /\ stmt.kind = "update"
    /\ ~AtEnd
    /\ Matches
    /\ Advance
    /\ heap' = UpdateTuple(heap, Looked, stmt.value)
    /\ inserts' = IF Moves(heap, Looked, stmt.value) THEN inserts + 1 ELSE inserts
    /\ UNCHANGED <<statements, evictions>>

DeleteFound ==
    /\ stmt # NoStmt
    /\ stmt.kind = "delete"
    /\ ~AtEnd
    /\ Matches
    /\ Advance
    /\ heap' = DeleteTuple(heap, Looked)
    /\ UNCHANGED bounds

ScanTurn == EndScan \/ PassTuple \/ UpdateFound \/ DeleteFound

\* The pool makes room.
Evict(p) ==
    /\ evictions < MaxEvictions
    /\ heap' = Evicted(heap, {p})
    /\ evictions' = evictions + 1
    /\ UNCHANGED <<stmt, inserts, statements>>

\* The destructors of the table and of the pool, then a new process that opens
\* the table by its first page.
Restart ==
    /\ stmt = NoStmt
    /\ heap' = LoadMetaData(Evicted(heap, DOMAIN heap.pages), Metadata(heap))
    /\ UNCHANGED <<stmt, bounds>>

Next ==
    \/ \E v \in Values : Insert(v)
    \/ StartUpdate
    \/ StartDelete
    \/ EndScan
    \/ PassTuple
    \/ UpdateFound
    \/ DeleteFound
    \/ \E p \in DOMAIN heap.pages : Evict(p)
    \/ Restart

\* A statement's loop runs on until getNext returns false.
Spec == Init /\ [][Next]_vars /\ WF_vars(ScanTurn)

-----------------------------------------------------------------------------
\* No tuple overlaps another one, the slot array or the end of its page, in
\* memory and in the file, whatever was inserted, moved or overwritten with a
\* shorter tuple: the room that insertTuple computes is the room there is.  And
\* no live tuple carries the deletion flag, although a string that fills its
\* slot ends with a byte in the tuple above it.
PagesWellFormed ==
    \A p \in DOMAIN heap.pages : WellFormed(heap.pages[p]) /\ WellFormed(heap.disk[p])

\* The chain from the metadata page passes through every page of the table in
\* ascending order and ends at last_page_id, also after pages were evicted and
\* the table was reopened: no insertion is cut off from the scans.
ChainComplete ==
    /\ \A p \in DOMAIN heap.pages :
         heap.pages[p].next_page_id = IF p = heap.last_page_id THEN -1 ELSE p + 1
    /\ heap.last_page_id = Cardinality(DOMAIN heap.pages)
    /\ heap.stopping_rid.page \in {-1, heap.last_page_id}

\* A page that is not marked has in the file every slot and every link it has
\* in memory: only the flags and the bytes of single tuples may be lost.
StructureOnDisk ==
    \A p \in DOMAIN heap.pages \ heap.dirty :
        Structure(heap.pages[p]) = Structure(heap.disk[p])

\* A scan that ends has returned every tuple that was live when it began,
\* although its own statement moved tuples, filled new pages and deleted behind
\* the cursor, and although insertTuple may have recorded a slot of -1.
ScanReturnsLive ==
    [][EndScan => stmt.unseen = {}]_vars

\* An update keeps the number of live tuples: the old copy goes and the new one
\* is there, on the same page, on the last one or on one that was added, as
\* long as the new tuple fits on an empty page.
UpdateConserves ==
    [][UpdateFound /\ Fits(BlankPage, stmt.value) =>
         Cardinality(LiveRIDs(heap')) = Cardinality(LiveRIDs(heap))]_vars

\* A statement ends although the tuples it moves land in front of its cursor:
\* a tuple that is met again is as long as its new value and stays in place.
StatementEnds == (stmt # NoStmt) ~> (stmt = NoStmt)

\* "Dirty Page Tracking" (readme.md): what a statement changed is still there
\* after the pool evicted the page and after a clean restart.
ChangesSurvive ==
    [][Restart \/ (\E p \in DOMAIN heap.pages : Evict(p)) =>
         heap'.pages = heap.pages]_vars
=============================================================================
