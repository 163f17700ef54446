------------------------------ MODULE DiskFile ------------------------------
(***************************************************************************)
(* The database file and the page directory of DiskManager, as a record    *)
(* and pure operators on it, so that a handler that makes several calls    *)
(* can be one action (BufferPool composes these operators).                *)
(*                                                                         *)
(* A disk record d has the fields                                          *)
(*   capacity       header.capacity, the number of PAGE_SIZE slots         *)
(*   pages_table    page id -> slot, the directory held in memory          *)
(*   deleted_slots  the stack of slots that deletePage gave back           *)
(*   file           slot -> content: its domain is the length of the file  *)
(*   saved          the metadata page: header, directory, deleted slots    *)
(*                                                                         *)
(* Offsets are counted in slots (offset / PAGE_SIZE).  Slot 0 holds the    *)
(* metadata, kept apart in "saved".  A page's bytes are one value: a       *)
(* member of Data, Blank (what Page(page_id) writes) or Hole (the zeros    *)
(* of a resized file).                                                     *)
(***************************************************************************)
EXTENDS Integers, Sequences, FiniteSets

CONSTANTS
    Data,           \* contents a caller may give a page
    Blank,          \* the content of a freshly constructed Page
    Hole,           \* the content of a slot that was never written
    FILE_CAPACITY,  \* slots of a new file (100 in the code)
    MetaEntries     \* directory entries that fit the metadata page

ASSUME DiskConstants ==
    /\ FILE_CAPACITY \in Nat \ {0}
    /\ MetaEntries \in Nat
    /\ Blank \notin Data
    /\ Hole \notin Data \cup {Blank}

Contents == Data \cup {Blank, Hole}

\* f with k mapped to v, and f without k: map[k] = v and map.erase(k).
Put(f, k, v) == [x \in DOMAIN f \cup {k} |-> IF x = k THEN v ELSE f[x]]
Erase(f, k) == [x \in DOMAIN f \ {k} |-> f[x]]

\* The file after a write at slot s: past its end the file grows.
WriteSlot(file, s, x) ==
    [t \in DOMAIN file \cup 0 .. s |->
        IF t = s THEN x ELSE IF t \in DOMAIN file THEN file[t] ELSE Hole]

\* (Slip: the file is created anew with the new length.)
Recreated(file, length) == [t \in 0 .. length - 1 |-> Hole]

\* resize_file: what lies past the new length is cut, the new part is zeros.
Truncated(file, length) ==
    [t \in 0 .. length - 1 |-> IF t \in DOMAIN file THEN file[t] ELSE Hole]

\* The disk d with another file and another directory.
WithPages(d, file, pages_table) ==
    [capacity |-> d.capacity, pages_table |-> pages_table,
     deleted_slots |-> d.deleted_slots, file |-> file, saved |-> d.saved]

\* (Slip: the header keeps the old capacity.)
ResizeFileOnly(d) == WithPages(d, Truncated(d.file, 2 * d.capacity), d.pages_table)

ResizeFile(d) ==
    [WithPages(d, Truncated(d.file, 2 * d.capacity), d.pages_table)
        EXCEPT !.capacity = 2 * @]

\* The id, and the slot, that allocatePage hands out when nothing was deleted.
\* (Slip: the metadata page is subtracted.)
NextIdLow(d) == Cardinality(DOMAIN d.pages_table) - 1
NextId(d) == Cardinality(DOMAIN d.pages_table) + 1

\* allocatePage takes a deleted slot without entering it in the directory, or
\* appends a blank page under the id that follows the directory's size.
AllocatePage(d) ==
    IF d.deleted_slots # <<>>
    THEN LET n == Len(d.deleted_slots) IN
         [disk |-> [d EXCEPT !.deleted_slots = SubSeq(@, 1, n - 1)],
          slot |-> d.deleted_slots[n]]
    ELSE LET id == NextId(d)
             r == IF id >= d.capacity THEN ResizeFile(d) ELSE d IN
         [disk |-> WithPages(r, WriteSlot(r.file, id, Blank),
                             Put(r.pages_table, id, id)),
          slot |-> id]

\* writePage: an unknown id gets whatever slot allocatePage returns.
WritePage(d, id, x) ==
    LET a == IF id \in DOMAIN d.pages_table
             THEN [disk |-> d, slot |-> d.pages_table[id]]
             ELSE AllocatePage(d)
    IN  WithPages(a.disk, WriteSlot(a.disk.file, a.slot, x),
                  Put(a.disk.pages_table, id, a.slot))

\* readPage into a buffer: an unknown id, or a slot past the end of the file,
\* leaves the buffer's old bytes.
ReadPage(d, id, buffer) ==
    IF id \in DOMAIN d.pages_table /\ d.pages_table[id] \in DOMAIN d.file
    THEN d.file[d.pages_table[id]]
    ELSE buffer

DeletePage(d, id) ==
    IF id \in DOMAIN d.pages_table
    THEN [d EXCEPT !.deleted_slots = Append(@, d.pages_table[id]),
                   !.pages_table = Erase(@, id)]
    ELSE d

\* The header counts the entries behind it.
Metadata(d) ==
    [capacity |-> d.capacity, map_size |-> Cardinality(DOMAIN d.pages_table),
     pages_table |-> d.pages_table, deleted_slots |-> d.deleted_slots]

\* The metadata is longer than its page, in units of four bytes: a directory
\* entry takes 12 bytes, a deleted slot 8.
Overruns(d) ==
    3 * Cardinality(DOMAIN d.pages_table) + 2 * Len(d.deleted_slots)
        > 3 * MetaEntries

\* saveMetaData builds its page in one PAGE_SIZE buffer.  What does not fit is
\* written past the buffer: the process dies before the file is written, or the
\* entries that fit reach the file, under a header that counts them all.
SavedMetadata(d) ==
    IF ~Overruns(d) THEN {Metadata(d)}
    ELSE {d.saved} \cup
         {[Metadata(d) EXCEPT !.pages_table = [i \in S |-> d.pages_table[i]]] :
             S \in {T \in SUBSET DOMAIN d.pages_table :
                        \/ Cardinality(T) = MetaEntries
                        \/ /\ T = DOMAIN d.pages_table
                           /\ Cardinality(T) < MetaEntries}}

\* loadMetaData reads past its buffer, or does not know what it read: the
\* header counts more entries than the page holds, or deleted slots, which are
\* uninitialised once loaded (the memcpy has its arguments swapped).
Misread(saved) ==
    \/ saved.map_size # Cardinality(DOMAIN saved.pages_table)
    \/ saved.deleted_slots # <<>>

\* loadMetaData: the capacity as saved, with the directory and the deleted
\* slots that were read.
LoadMetaData(saved, file, pages_table, slots) ==
    [capacity |-> saved.capacity, pages_table |-> pages_table,
     deleted_slots |-> slots, file |-> file, saved |-> saved]

NewDisk ==
    LET none == [i \in {} |-> 0]
        empty == [capacity |-> FILE_CAPACITY, map_size |-> 0,
                  pages_table |-> none, deleted_slots |-> <<>>]
    IN  LoadMetaData(empty, [t \in 0 .. FILE_CAPACITY - 1 |-> Hole], none, <<>>)
=============================================================================
