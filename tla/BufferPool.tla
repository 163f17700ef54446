----------------------------- MODULE BufferPool -----------------------------
(***************************************************************************)
(* BufferPoolManager over its LRU list and its DiskManager.  Each action   *)
(* is one call with all the calls it makes in turn: a miss takes a frame,  *)
(* writes the victim back if it is dirty, reads the page, and enters it in *)
(* the map and in the recency order.  The destructor writes the dirty      *)
(* frames one by one, so a crash may strike between two of them.           *)
(*                                                                         *)
(* The pages callers ask for are ids that newPage returned and the         *)
(* directory still holds.  pin_count is never incremented in the code and  *)
(* is left out.                                                            *)
(***************************************************************************)
EXTENDS DiskFile, RecencyList

CONSTANTS
    BUFFER_SIZE,  \* number of frames (100 in the code)
    MaxPages,     \* bound: newPage is not called when MaxPages pages exist
    NoPage        \* the content of a frame nothing was read into yet

\* The metadata page holds the directory of MaxPages pages, so that nothing is
\* read or written past it: see SavedMetadata.
ASSUME PoolConstants ==
    /\ BUFFER_SIZE \in Nat \ {0}
    /\ MaxPages \in Nat
    /\ MaxPages <= MetaEntries
    /\ NoPage \notin Contents

Frames == 0 .. BUFFER_SIZE - 1

VARIABLES
    dm,               \* the disk manager's record (DiskFile)
    frames,           \* frame -> content
    page_table,       \* page id -> frame
    pages_ids,        \* frame -> page id, or -1
    is_dirty,
    free_frames_ids,  \* a stack: popped from its end
    lru,              \* recency order of the frames in use
    closing,          \* -1, or the frame that the destructor comes to next
    versions          \* history: page id -> contents since the last restart

poolVars == <<frames, page_table, pages_ids, is_dirty, free_frames_ids, lru>>
vars == <<dm, poolVars, closing, versions>>

Pages == DOMAIN dm.pages_table
Pooled == DOMAIN page_table

\* The constructor.
EmptyPool ==
    /\ frames' = [f \in Frames |-> NoPage]
    /\ page_table' = [p \in {} |-> 0]
    /\ pages_ids' = [f \in Frames |-> -1]
    /\ is_dirty' = [f \in Frames |-> FALSE]
    /\ free_frames_ids' = [i \in 1 .. BUFFER_SIZE |-> i - 1]
    /\ lru' = <<>>
    /\ closing' = -1

Init ==
    /\ dm = NewDisk
    /\ frames = [f \in Frames |-> NoPage]
    /\ page_table = [p \in {} |-> 0]
    /\ pages_ids = [f \in Frames |-> -1]
    /\ is_dirty = [f \in Frames |-> FALSE]
    /\ free_frames_ids = [i \in 1 .. BUFFER_SIZE |-> i - 1]
    /\ lru = <<>>
    /\ closing = -1
    /\ versions = [id \in {} |-> {}]

-----------------------------------------------------------------------------
\* The frame a miss takes: the last free one, or the least recently used.
TakenFrame ==
    IF free_frames_ids = <<>> THEN Victim(lru)
    ELSE free_frames_ids[Len(free_frames_ids)]

Evicts == free_frames_ids = <<>>

\* The disk after the victim was written back, if there is one and it is dirty.
\* (Slip: it is dropped.)
VictimDropped(f) == dm
WrittenBack(f) ==
    IF Evicts /\ is_dirty[f] THEN WritePage(dm, pages_ids[f], frames[f]) ELSE dm

\* (Slip: the victim's entry stays in page_table.)
InstallOver(f, id) ==
    /\ page_table' = Put(page_table, id, f)
    /\ pages_ids' = [pages_ids EXCEPT ![f] = id]
    /\ free_frames_ids' = IF Evicts THEN <<>>
                          ELSE SubSeq(free_frames_ids, 1, Len(free_frames_ids) - 1)
    /\ lru' = PutFrame(IF Evicts THEN DropLast(lru) ELSE lru, f, BUFFER_SIZE)

\* The bookkeeping of a miss that brings page id into frame f, the same in
\* fetchPage and newPage.
Install(f, id) ==
    /\ page_table' = Put(IF Evicts THEN Erase(page_table, pages_ids[f])
                         ELSE page_table, id, f)
    /\ pages_ids' = [pages_ids EXCEPT ![f] = id]
    /\ free_frames_ids' = IF Evicts THEN <<>>
                          ELSE SubSeq(free_frames_ids, 1, Len(free_frames_ids) - 1)
    /\ lru' = PutFrame(IF Evicts THEN DropLast(lru) ELSE lru, f, BUFFER_SIZE)

\* fetchPage of a pooled page: only the recency order changes.
FetchHit(id) ==
    /\ closing = -1
    /\ id \in Pooled
    /\ lru' = GetFrame(lru, page_table[id])
    /\ UNCHANGED <<dm, frames, page_table, pages_ids, is_dirty,
                   free_frames_ids, closing, versions>>

FetchMiss(id) ==
    /\ closing = -1
    /\ id \in Pages \ Pooled
    /\ LET f == TakenFrame IN
         /\ dm' = WrittenBack(f)
         /\ frames' = [frames EXCEPT ![f] = ReadPage(dm', id, @)]
         /\ is_dirty' = [is_dirty EXCEPT ![f] = FALSE]
         /\ Install(f, id)
    /\ UNCHANGED <<closing, versions>>

\* fetchPage, a write through the pointer it returned, markAsDirty: the
\* straight-line sequence by which the storage code changes a page.
UpdateHit(id, x) ==
    /\ closing = -1
    /\ id \in Pooled
    /\ LET f == page_table[id] IN
         /\ frames' = [frames EXCEPT ![f] = x]
         /\ is_dirty' = [is_dirty EXCEPT ![f] = TRUE]
         /\ lru' = GetFrame(lru, f)
    /\ versions' = [versions EXCEPT ![id] = @ \cup {x}]
    /\ UNCHANGED <<dm, page_table, pages_ids, free_frames_ids, closing>>

UpdateMiss(id, x) ==
    /\ closing = -1
    /\ id \in Pages \ Pooled
    /\ LET f == TakenFrame IN
         /\ dm' = WrittenBack(f)
         /\ frames' = [frames EXCEPT ![f] = x]
         /\ is_dirty' = [is_dirty EXCEPT ![f] = TRUE]
         /\ Install(f, id)
    /\ versions' = [versions EXCEPT ![id] = @ \cup {x}]
    /\ UNCHANGED closing

\* newPage: the victim goes first, then the disk allocates, then the blank page
\* is read from the slot whose number becomes the page's id.
NewPage ==
    /\ closing = -1
    /\ Cardinality(Pages) < MaxPages
    /\ LET f == TakenFrame
           a == AllocatePage(WrittenBack(f))
       IN  /\ dm' = a.disk
           /\ frames' = [frames EXCEPT ![f] = ReadPage(dm', a.slot, @)]
           /\ is_dirty' = [is_dirty EXCEPT ![f] = FALSE]
           /\ Install(f, a.slot)
           /\ versions' = Put(versions, a.slot, {Blank})
    /\ UNCHANGED closing

\* deletePage empties the frame; the page stays in the directory.
DeletePooled(id) ==
    /\ closing = -1
    /\ id \in Pooled
    /\ LET f == page_table[id] IN
         /\ dm' = IF is_dirty[f] THEN WritePage(dm, id, frames[f]) ELSE dm
         /\ page_table' = Erase(page_table, id)
         /\ pages_ids' = [pages_ids EXCEPT ![f] = -1]
         /\ is_dirty' = [is_dirty EXCEPT ![f] = FALSE]
         /\ free_frames_ids' = Append(free_frames_ids, f)
         /\ lru' = RemoveFrame(lru, f)
    /\ UNCHANGED <<frames, closing, versions>>

\* unpinPage with the dirty flag set.
UnpinDirty(id) ==
    /\ closing = -1
    /\ id \in Pooled
    /\ is_dirty' = [is_dirty EXCEPT ![page_table[id]] = TRUE]
    /\ UNCHANGED <<dm, frames, page_table, pages_ids, free_frames_ids, lru,
                   closing, versions>>

-----------------------------------------------------------------------------
\* The destructors of the pool and of the disk manager, then a new process.
StartClose ==
    /\ closing = -1
    /\ closing' = 0
    /\ UNCHANGED <<dm, poolVars, versions>>

\* (Slip: the destructor passes over a dirty frame.)
SkipFrame ==
    /\ closing \in Frames
    /\ closing' = closing + 1
    /\ UNCHANGED <<dm, poolVars, versions>>

FlushFrame ==
    /\ closing \in Frames
    /\ dm' = IF is_dirty[closing] /\ pages_ids[closing] # -1
             THEN WritePage(dm, pages_ids[closing], frames[closing]) ELSE dm
    /\ closing' = closing + 1
    /\ UNCHANGED <<poolVars, versions>>

\* saveMetaData by the disk manager's destructor, loadMetaData by the next
\* constructor.  deleted_slots is empty: nothing calls DiskManager::deletePage.
Reopen ==
    /\ closing = BUFFER_SIZE
    /\ \E saved \in SavedMetadata(dm) :
         dm' = LoadMetaData(saved, dm.file, saved.pages_table, <<>>)
    /\ versions' = [id \in Pages |-> {ReadPage(dm, id, NoPage)}]
    /\ EmptyPool

\* The process ends without the destructors, at any moment.
Crash ==
    /\ dm' = LoadMetaData(dm.saved, dm.file, dm.saved.pages_table, <<>>)
    /\ versions' = [id \in DOMAIN dm.saved.pages_table |->
                        {ReadPage(dm', id, NoPage)}]
    /\ EmptyPool

Next ==
    \/ \E id \in Pages : \/ FetchHit(id)
                         \/ FetchMiss(id)
                         \/ DeletePooled(id)
                         \/ UnpinDirty(id)
                         \/ \E x \in Data : UpdateHit(id, x) \/ UpdateMiss(id, x)
    \/ NewPage
    \/ StartClose
    \/ FlushFrame
    \/ Reopen
    \/ Crash

Spec == Init /\ [][Next]_vars
-----------------------------------------------------------------------------
Slots(d) == DOMAIN d.file

DiskType(d) ==
    d \in [capacity : Nat \ {0},
           pages_table : [DOMAIN d.pages_table -> Nat],
           deleted_slots : {<<>>},
           file : [Slots(d) -> Contents],
           saved : [capacity : Nat \ {0}, map_size : Nat,
                    pages_table : [DOMAIN d.saved.pages_table -> Nat],
                    deleted_slots : {<<>>}]]

Mapped == {f \in Frames : pages_ids[f] # -1}

TypeOK ==
    /\ DiskType(dm)
    /\ frames \in [Frames -> Contents \cup {NoPage}]
    /\ page_table \in [Pooled -> Frames]
    /\ pages_ids \in [Frames -> Nat \cup {-1}]
    /\ is_dirty \in [Frames -> BOOLEAN]
    /\ free_frames_ids \in Seq(Frames)
    /\ lru \in Seq(Frames)
    /\ closing \in -1 .. BUFFER_SIZE
    /\ \A f \in Mapped : frames[f] \in Contents

\* page_table and pages_ids are inverse to each other: no frame is claimed by
\* two pages, no page sits in two frames, whatever was evicted or deleted.
TablesAgree ==
    /\ \A id \in Pooled : id \in Pages /\ pages_ids[page_table[id]] = id
    /\ \A f \in Mapped : pages_ids[f] \in Pooled /\ page_table[pages_ids[f]] = f

\* A frame is on the free stack, once, exactly when it holds no page.
FreeFrames ==
    /\ Keys(free_frames_ids) = Frames \ Mapped
    /\ NoRepeats(free_frames_ids)

\* The recency order holds the frames in use, each once: evict_frame never runs
\* on an empty list, remove_frame finds its key, and put_frame never has to
\* drop a frame that the pool still maps.
RecencyMatches ==
    /\ Keys(lru) = Mapped
    /\ NoRepeats(lru)

\* Only a frame that holds a page is dirty.
DirtyIsMapped == \A f \in Frames : is_dirty[f] => f \in Mapped

\* The bookkeeping of the pool is consistent after every call.
PoolConsistent == TablesAgree /\ FreeFrames /\ RecencyMatches /\ DirtyIsMapped

\* A directory without gaps whose ids are the numbers of their slots.
Directory(pages_table, capacity) ==
    /\ \E n \in 0 .. MaxPages : n < capacity /\ DOMAIN pages_table = 1 .. n
    /\ \A id \in DOMAIN pages_table : pages_table[id] = id

Orderly(d) ==
    /\ Directory(d.pages_table, d.capacity)
    /\ Directory(d.saved.pages_table, d.saved.capacity)
    /\ DOMAIN d.saved.pages_table \subseteq DOMAIN d.pages_table
    /\ d.saved.capacity <= d.capacity
    /\ 0 .. d.capacity - 1 \subseteq Slots(d)

\* Page ids are consecutive and each is the number of its slot, inside the
\* file: newPage's division of an offset by PAGE_SIZE yields a fresh id, also
\* after a crash brought back an old directory and an old capacity.
DirectoryOrderly == Orderly(dm)

\* A frame whose page was not changed since it was read, or which the
\* destructor has passed, holds what the file holds: dropping it loses nothing.
CleanMatchesDisk ==
    \A f \in Mapped :
        ~is_dirty[f] \/ f < closing => frames[f] = ReadPage(dm, pages_ids[f], NoPage)

\* What a caller who fetches page id gets to see.
Visible(id) ==
    IF id \in Pooled THEN frames[page_table[id]] ELSE ReadPage(dm, id, NoPage)

\* The pool over the disk implements the page store: every fetch returns what
\* was last written, through evictions, write-backs, deletions from the pool,
\* clean restarts and crashes.
Store == INSTANCE PageStore WITH
    PageIds <- 1 .. MaxPages,
    pages <- [id \in Pages |-> Visible(id)],
    durable <- DOMAIN dm.saved.pages_table
ImplementsPageStore == Store!Spec
=============================================================================
