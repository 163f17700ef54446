---------------------------- MODULE DiskManager ----------------------------
(***************************************************************************)
(* DiskManager by itself, under every sequence of calls its public         *)
(* interface admits, with clean restarts and crashes.  What callers expect *)
(* of the file is kept beside it in "stored": the content each page was    *)
(* last given.                                                             *)
(***************************************************************************)
EXTENDS DiskFile

CONSTANTS
    Ids,          \* page ids that callers pass to writePage and deletePage
    MaxPages,     \* bound: allocatePage appends no id above it
    MaxDeleted,   \* bound on the length of deleted_slots
    Garbage       \* slots that an uninitialised size_t may name

VARIABLES
    dm,        \* the disk record of DiskFile
    stored,    \* page id -> the content last given to it
    orderly,   \* no call so far broke the discipline under which ids are slots
    garbled    \* metadata was loaded that had overrun its page, or deleted slots

diskVars == <<dm, stored, orderly, garbled>>

Known == DOMAIN dm.pages_table

DiskInit ==
    /\ dm = NewDisk
    /\ stored = [i \in {} |-> Blank]
    /\ orderly = TRUE
    /\ garbled = FALSE

\* Once values that nobody wrote are in the directory or in deleted_slots no
\* promise is made, and the behaviour is followed no further: every action asks
\* for ~garbled.

\* Room below the bound for allocatePage to append a page.
MayAppend == dm.deleted_slots # <<>> \/ NextId(dm) <= MaxPages

\* writePage of a page that has a slot.
Overwrite(id, x) ==
    /\ ~garbled
    /\ id \in Known
    /\ dm' = WritePage(dm, id, x)
    /\ stored' = Put(stored, id, x)
    /\ UNCHANGED <<orderly, garbled>>

\* writePage of an id the directory does not hold.  It is orderly only for the
\* id that follows the directory.
WriteNew(id, x) ==
    /\ ~garbled
    /\ id \notin Known
    /\ MayAppend
    /\ dm' = WritePage(dm, id, x)
    /\ stored' = Put(stored, id, x)
    /\ orderly' = (orderly /\ id = NextId(dm))
    /\ UNCHANGED garbled

\* allocatePage called by BufferPoolManager::newPage, which takes the slot's
\* number for the new page's id.
Allocate ==
    /\ ~garbled
    /\ MayAppend
    /\ LET a == AllocatePage(dm) IN
         /\ dm' = a.disk
         /\ stored' = Put(stored, a.slot, Blank)
    /\ orderly' = (orderly /\ dm.deleted_slots = <<>>)
    /\ UNCHANGED garbled

\* deletePage of a known page: orderly if it holds the directory's highest id.
Delete(id) ==
    /\ ~garbled
    /\ id \in Known
    /\ Len(dm.deleted_slots) < MaxDeleted
    /\ dm' = DeletePage(dm, id)
    /\ stored' = Erase(stored, id)
    /\ orderly' = (orderly /\ id = Cardinality(Known))
    /\ UNCHANGED garbled

\* The directories loadMetaData may come to: the entries on the page, and over
\* them the ones it reads behind its buffer.
LoadedTables(saved) ==
    LET missing == saved.map_size - Cardinality(DOMAIN saved.pages_table)
        beyond(S) == {[i \in DOMAIN saved.pages_table \cup S |->
                          IF i \in S THEN e[i] ELSE saved.pages_table[i]] :
                      e \in [S -> Garbage]}
    IN  IF missing = 0 THEN {saved.pages_table}
        ELSE UNION {beyond(S) : S \in {T \in SUBSET Ids :
                                           Cardinality(T) \in 1 .. missing}}

\* The constructor on an existing file.
Load(saved) ==
    \E pages_table \in LoadedTables(saved),
       slots \in [1 .. Len(saved.deleted_slots) -> Garbage] :
        /\ dm' = LoadMetaData(saved, dm.file, pages_table, slots)
        /\ garbled' = Misread(saved)

\* The destructor saves the metadata, and a new DiskManager opens the file.
Reopen ==
    /\ ~garbled
    /\ \E saved \in SavedMetadata(dm) :
         /\ Load(saved)
         /\ orderly' = (orderly /\ saved = Metadata(dm) /\ ~Misread(saved))
    /\ UNCHANGED stored

\* The process ends without the destructor: the pages that the last saved
\* directory does not name are gone, the others keep what was written to them.
Crash ==
    /\ ~garbled
    /\ Load(dm.saved)
    /\ stored' = [id \in DOMAIN stored \cap DOMAIN dm.saved.pages_table |->
                     stored[id]]
    /\ orderly' = (orderly /\ ~Misread(dm.saved)
                           /\ DOMAIN dm.saved.pages_table \subseteq Known)

DiskNext ==
    \/ \E id \in Ids, x \in Data : Overwrite(id, x) \/ WriteNew(id, x)
    \/ Allocate
    \/ \E id \in Ids : Delete(id)
    \/ Reopen
    \/ Crash

DiskSpec == DiskInit /\ [][DiskNext]_diskVars

-----------------------------------------------------------------------------
\* Every slot the directory or the free stack names lies inside the file,
\* behind the metadata page, so that no read fails and no write of a page
\* extends the file or hits the metadata: the capacity test of allocatePage
\* grows the file in time, also after a crash brought an old capacity back.
\* (Claimed up to the first load of metadata that had overrun its page or of
\* deleted slots: from then on the code takes slots that nobody wrote.)
SlotsInFile ==
    ~garbled =>
        /\ dm.capacity <= Cardinality(DOMAIN dm.file)
        /\ \A id \in Known : dm.pages_table[id] \in 1 .. dm.capacity - 1
        /\ \A i \in 1 .. Len(dm.deleted_slots) :
               dm.deleted_slots[i] \in 1 .. dm.capacity - 1

\* Under orderly use a page's id is its slot, the ids are consecutive, and the
\* deleted slots continue them: what newPage relies on when it divides an
\* offset by PAGE_SIZE to get an id.
IdsAreSlots ==
    orderly =>
        /\ Known = 1 .. Cardinality(Known)
        /\ \A id \in Known : dm.pages_table[id] = id
        /\ LET n == Len(dm.deleted_slots) IN
             \A i \in 1 .. n : dm.deleted_slots[i] = Cardinality(Known) + n - i + 1

\* Under orderly use every page reads back what it was last given, across
\* deletions, restarts and crashes: no two pages ever share a slot.
ReadsBack ==
    orderly => \A id \in DOMAIN stored :
                   id \in Known /\ ReadPage(dm, id, Hole) = stored[id]
=============================================================================
