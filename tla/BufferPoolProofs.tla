-------------------------- MODULE BufferPoolProofs --------------------------
(***************************************************************************)
(* The invariants of BufferPool hold for every number of frames and pages, *)
(* and the pool over the disk implements PageStore.  With any number of    *)
(* callers that keep pointers and write through them whenever they like,   *)
(* the window in which a pointer is good holds, and a write astray costs   *)
(* two pages and no third one.                                             *)
(***************************************************************************)
EXTENDS PoolClients, RecencyListProofs

\* The bookkeeping, which no content of a page can disturb.
BInv == TypeOK /\ PoolConsistent /\ DirectoryOrderly

\* The inductive invariant: the four invariants of the runs, together.
IInv == BInv /\ CleanMatchesDisk

\* CleanMatchesDisk for the pages of a set.
CleanFor(S) ==
    \A f \in Mapped :
        pages_ids[f] \in S /\ (~is_dirty[f] \/ f < closing) =>
            frames[f] = ReadPage(dm, pages_ids[f], NoPage)

DiskOK(d) == DiskType(d) /\ Orderly(d)

LEMMA FramesFinite ==
    IsFiniteSet(Frames) /\ Cardinality(Frames) = BUFFER_SIZE /\ 0 \in Frames
  BY PoolConstants, FS_Interval DEF Frames

-----------------------------------------------------------------------------
(* The disk. *)

\* The directory of an orderly disk is 1 .. n, and n + 1 is the next id.
LEMMA DirectorySize ==
    ASSUME NEW d, DiskOK(d)
    PROVE  \E n \in 0 .. MaxPages :
               /\ n < d.capacity
               /\ DOMAIN d.pages_table = 1 .. n
               /\ Cardinality(DOMAIN d.pages_table) = n
               /\ NextId(d) = n + 1
<1>1. PICK n \in 0 .. MaxPages : n < d.capacity /\ DOMAIN d.pages_table = 1 .. n
  BY DEF DiskOK, Orderly, Directory
<1>2. n \in Nat
  BY PoolConstants
<1>3. Cardinality(1 .. n) = n
  BY <1>2, FS_Interval
<1> QED BY <1>1, <1>2, <1>3 DEF NextId

\* A page of the directory is read from the slot of its number.
LEMMA ReadKnown ==
    ASSUME NEW d, DiskOK(d), NEW id \in DOMAIN d.pages_table, NEW buffer
    PROVE  /\ id \in Nat /\ id >= 1
           /\ id \in DOMAIN d.file
           /\ d.pages_table[id] = id
           /\ ReadPage(d, id, buffer) = d.file[id]
           /\ d.file[id] \in Contents
<1>1. PICK n \in 0 .. MaxPages : n < d.capacity /\ DOMAIN d.pages_table = 1 .. n
  BY DEF DiskOK, Orderly, Directory
<1>2. d.capacity \in Nat /\ d.file \in [DOMAIN d.file -> Contents]
  BY DEF DiskOK, DiskType, Slots
<1>3. id \in 1 .. n /\ n \in Nat
  BY <1>1, PoolConstants
<1>4. id \in 0 .. d.capacity - 1
  BY <1>1, <1>2, <1>3
<1>5. id \in DOMAIN d.file
  BY <1>4 DEF DiskOK, Orderly, Slots
<1>6. d.pages_table[id] = id
  BY DEF DiskOK, Orderly, Directory
<1> QED BY <1>2, <1>3, <1>5, <1>6 DEF ReadPage

\* Writing a page of the directory changes that page's slot only.
LEMMA WriteKnown ==
    ASSUME NEW d, DiskOK(d), NEW id \in DOMAIN d.pages_table, NEW x \in Contents
    PROVE  /\ DiskOK(WritePage(d, id, x))
           /\ WritePage(d, id, x).pages_table = d.pages_table
           /\ WritePage(d, id, x).saved = d.saved
           /\ WritePage(d, id, x).capacity = d.capacity
           /\ WritePage(d, id, x).file = [d.file EXCEPT ![id] = x]
<1> DEFINE w == WritePage(d, id, x)
<1>1. /\ id \in Nat /\ id >= 1 /\ id \in DOMAIN d.file /\ d.pages_table[id] = id
  BY ReadKnown
<1>2. PICK n \in 0 .. MaxPages : n < d.capacity /\ DOMAIN d.pages_table = 1 .. n
  BY DEF DiskOK, Orderly, Directory
<1>3. d.capacity \in Nat /\ d.file \in [DOMAIN d.file -> Contents]
  BY DEF DiskOK, DiskType, Slots
<1>4. 0 .. id \subseteq DOMAIN d.file
  <2>1. 0 .. d.capacity - 1 \subseteq DOMAIN d.file
    BY DEF DiskOK, Orderly, Slots
  <2>2. id < d.capacity
    BY <1>1, <1>2, <1>3, PoolConstants
  <2> QED BY <1>1, <1>3, <2>1, <2>2
<1>5. WriteSlot(d.file, id, x) = [d.file EXCEPT ![id] = x]
  <2>1. DOMAIN d.file \cup 0 .. id = DOMAIN d.file
    BY <1>4
  <2> QED BY <1>1, <1>3, <2>1 DEF WriteSlot
<1>6. Put(d.pages_table, id, id) = d.pages_table
  <2>1. d.pages_table \in [DOMAIN d.pages_table -> Nat]
    BY DEF DiskOK, DiskType
  <2>2. DOMAIN d.pages_table \cup {id} = DOMAIN d.pages_table
    OBVIOUS
  <2> QED BY <1>1, <2>1, <2>2 DEF Put
<1>7. w = WithPages(d, WriteSlot(d.file, id, x), Put(d.pages_table, id, id))
  BY <1>1 DEF WritePage
<1>9. w = [capacity |-> d.capacity, pages_table |-> d.pages_table,
           deleted_slots |-> d.deleted_slots,
           file |-> [d.file EXCEPT ![id] = x], saved |-> d.saved]
  BY <1>5, <1>6, <1>7 DEF WithPages
<1> HIDE DEF w
<1>10. [d.file EXCEPT ![id] = x] \in [DOMAIN d.file -> Contents]
  BY <1>3
<1>11. DiskType(w)
  BY <1>3, <1>9, <1>10 DEF DiskOK, DiskType, Slots
<1>12. Orderly(w)
  BY <1>9, <1>10 DEF DiskOK, Orderly, Slots
<1> QED BY <1>9, <1>11, <1>12 DEF w, DiskOK

\* allocatePage appends a blank page whose id is new and keeps all others.
LEMMA AllocateNext ==
    ASSUME NEW d, DiskOK(d), Cardinality(DOMAIN d.pages_table) < MaxPages,
           NEW a, a = AllocatePage(d)
    PROVE  /\ DiskOK(a.disk)
           /\ a.slot \in Nat
           /\ a.slot \notin DOMAIN d.pages_table
           /\ DOMAIN a.disk.pages_table = DOMAIN d.pages_table \cup {a.slot}
           /\ a.disk.saved = d.saved
           /\ a.disk.file[a.slot] = Blank
           /\ \A i \in DOMAIN d.pages_table : a.disk.file[i] = d.file[i]
<1>1. PICK n \in 0 .. MaxPages : /\ n < d.capacity
                                 /\ DOMAIN d.pages_table = 1 .. n
                                 /\ Cardinality(DOMAIN d.pages_table) = n
                                 /\ NextId(d) = n + 1
  BY DirectorySize
<1>2. n \in Nat /\ n + 1 \in 0 .. MaxPages
  BY <1>1, PoolConstants
<1>3. d.capacity \in Nat \ {0} /\ d.deleted_slots = <<>>
      /\ d.file \in [DOMAIN d.file -> Contents]
      /\ d.pages_table \in [1 .. n -> Nat]
  BY <1>1 DEF DiskOK, DiskType, Slots
<1> DEFINE r == IF n + 1 >= d.capacity THEN ResizeFile(d) ELSE d
<1>4. a = [disk |-> WithPages(r, WriteSlot(r.file, n + 1, Blank),
                              Put(r.pages_table, n + 1, n + 1)),
           slot |-> n + 1]
  BY <1>1, <1>3 DEF AllocatePage
<1>5. d = [capacity |-> d.capacity, pages_table |-> d.pages_table,
           deleted_slots |-> <<>>, file |-> d.file, saved |-> d.saved]
  BY DEF DiskOK, DiskType
<1>6. 0 .. d.capacity - 1 \subseteq DOMAIN d.file
  BY DEF DiskOK, Orderly, Slots
<1>7. \E c, f : /\ r = [capacity |-> c, pages_table |-> d.pages_table,
                        deleted_slots |-> <<>>, file |-> f, saved |-> d.saved]
                /\ c \in Nat \ {0} /\ n + 1 < c /\ d.capacity <= c
                /\ f \in [DOMAIN f -> Contents]
                /\ 0 .. c - 1 \subseteq DOMAIN f
                /\ \A i \in 1 .. n : f[i] = d.file[i]
  <2>1. CASE n + 1 >= d.capacity
    <3> DEFINE c == 2 * d.capacity
               f == Truncated(d.file, c)
    <3>1. r = [capacity |-> c, pages_table |-> d.pages_table,
               deleted_slots |-> <<>>, file |-> f, saved |-> d.saved]
      BY <1>3, <2>1 DEF ResizeFile, WithPages
    <3>2. c \in Nat \ {0} /\ n + 1 < c /\ d.capacity <= c
      BY <1>1, <1>2, <1>3
    <3>3. f \in [0 .. c - 1 -> Contents]
      BY <1>3 DEF Truncated, Contents
    <3>4. \A i \in 1 .. n : i \in 0 .. c - 1 /\ i \in 0 .. d.capacity - 1
      BY <1>1, <1>2, <1>3
    <3>5. \A i \in 1 .. n : f[i] = d.file[i]
      BY <1>6, <3>4 DEF Truncated
    <3> HIDE DEF f, c
    <3>6. DOMAIN f = 0 .. c - 1
      BY <3>3
    <3> QED BY <3>1, <3>2, <3>3, <3>5, <3>6
  <2>2. CASE ~(n + 1 >= d.capacity)
    BY <1>1, <1>2, <1>3, <1>5, <1>6, <2>2
  <2> QED BY <2>1, <2>2
<1> HIDE DEF r
<1>8. PICK c, f : /\ r = [capacity |-> c, pages_table |-> d.pages_table,
                          deleted_slots |-> <<>>, file |-> f, saved |-> d.saved]
                  /\ c \in Nat \ {0} /\ n + 1 < c /\ d.capacity <= c
                  /\ f \in [DOMAIN f -> Contents]
                  /\ 0 .. c - 1 \subseteq DOMAIN f
                  /\ \A i \in 1 .. n : f[i] = d.file[i]
  BY <1>7
<1> DEFINE g == WriteSlot(f, n + 1, Blank)
           t == Put(d.pages_table, n + 1, n + 1)
<1>9. a.disk = [capacity |-> c, pages_table |-> t, deleted_slots |-> <<>>,
                file |-> g, saved |-> d.saved]
      /\ a.slot = n + 1
  BY <1>4, <1>8 DEF WithPages
<1>10. g \in [DOMAIN f -> Contents] /\ g[n + 1] = Blank
       /\ \A i \in 1 .. n : g[i] = f[i]
  <2>1. 0 .. n + 1 \subseteq DOMAIN f
    BY <1>2, <1>8
  <2>2. DOMAIN f \cup 0 .. n + 1 = DOMAIN f
    BY <2>1
  <2>3. n + 1 \in DOMAIN f /\ \A i \in 1 .. n : i \in DOMAIN f /\ i # n + 1
    BY <1>2, <2>1
  <2>4. g = [s \in DOMAIN f |-> IF s = n + 1 THEN Blank ELSE f[s]]
    BY <2>2 DEF WriteSlot
  <2>5. Blank \in Contents
    BY DEF Contents
  <2> HIDE DEF g
  <2> QED BY <1>8, <2>3, <2>4, <2>5
<1>11. t \in [1 .. n + 1 -> Nat] /\ \A i \in 1 .. n + 1 : t[i] = i
  <2>1. 1 .. n \cup {n + 1} = 1 .. n + 1
    BY <1>2
  <2>2. \A i \in 1 .. n : d.pages_table[i] = i
    BY <1>1 DEF DiskOK, Orderly, Directory
  <2>3. t = [i \in 1 .. n + 1 |-> IF i = n + 1 THEN n + 1 ELSE d.pages_table[i]]
    BY <1>1, <2>1 DEF Put
  <2> HIDE DEF t
  <2>4. \A i \in 1 .. n + 1 : t[i] = i
    <3> SUFFICES ASSUME NEW i \in 1 .. n + 1 PROVE t[i] = i
      OBVIOUS
    <3>1. CASE i = n + 1
      BY <2>3, <3>1
    <3>2. CASE i # n + 1
      BY <1>2, <2>2, <2>3, <3>2
    <3> QED BY <3>1, <3>2
  <2>5. \A i \in 1 .. n + 1 : i \in Nat
    OBVIOUS
  <2> QED BY <2>3, <2>4, <2>5
<1> HIDE DEF g, t
<1>12. DOMAIN t = 1 .. n + 1 /\ DOMAIN g = DOMAIN f
  BY <1>10, <1>11
<1>13. DiskType(a.disk)
  <2>1. d.saved \in [capacity : Nat \ {0}, map_size : Nat,
                     pages_table : [DOMAIN d.saved.pages_table -> Nat],
                     deleted_slots : {<<>>}]
    BY DEF DiskOK, DiskType
  <2>2. t \in [DOMAIN t -> Nat] /\ g \in [DOMAIN g -> Contents]
    BY <1>10, <1>11, <1>12
  <2> QED BY <1>8, <1>9, <2>1, <2>2 DEF DiskType, Slots
<1>14. Orderly(a.disk)
  <2>1. Directory(t, c)
    BY <1>2, <1>8, <1>11, <1>12 DEF Directory
  <2>2. Directory(d.saved.pages_table, d.saved.capacity)
    BY DEF DiskOK, Orderly
  <2>3. DOMAIN d.saved.pages_table \subseteq DOMAIN t
    <3>1. DOMAIN d.saved.pages_table \subseteq 1 .. n
      BY <1>1 DEF DiskOK, Orderly
    <3> QED BY <1>2, <1>12, <3>1
  <2>4. d.saved.capacity <= c
    <3>1. d.saved.capacity <= d.capacity /\ d.saved.capacity \in Nat
      BY DEF DiskOK, Orderly, DiskType
    <3> QED BY <1>3, <1>8, <3>1
  <2>5. 0 .. c - 1 \subseteq DOMAIN g
    BY <1>8, <1>12
  <2> QED BY <1>9, <2>1, <2>2, <2>3, <2>4, <2>5 DEF Orderly, Slots
<1>15. n + 1 \notin 1 .. n /\ 1 .. n + 1 = 1 .. n \cup {n + 1}
  BY <1>2
<1> QED BY <1>1, <1>2, <1>8, <1>9, <1>10, <1>12, <1>13, <1>14, <1>15 DEF DiskOK

-----------------------------------------------------------------------------
(* The pool. *)

\* The part of the invariant that speaks of the pool's tables only.
Tables ==
    /\ page_table \in [Pooled -> Frames]
    /\ pages_ids \in [Frames -> Nat \cup {-1}]
    /\ is_dirty \in [Frames -> BOOLEAN]
    /\ free_frames_ids \in Seq(Frames)
    /\ lru \in Seq(Frames)
    /\ PoolConsistent

LEMMA InvParts ==
    ASSUME BInv
    PROVE  DiskOK(dm) /\ Tables
  BY DEF BInv, TypeOK, DirectoryOrderly, DiskOK, Tables

\* A pooled page is in the directory, and in a frame that is mapped to it.
LEMMA PooledPage ==
    ASSUME BInv, NEW id \in Pooled
    PROVE  /\ id \in Pages /\ id \in Nat
           /\ page_table[id] \in Mapped
           /\ pages_ids[page_table[id]] = id
<1>1. id \in Pages /\ pages_ids[page_table[id]] = id /\ page_table[id] \in Frames
  BY DEF BInv, PoolConsistent, TablesAgree, TypeOK
<1>2. id \in Nat
  BY <1>1, InvParts, ReadKnown DEF Pages
<1>3. id # -1
  BY <1>2
<1> QED BY <1>1, <1>2, <1>3 DEF Mapped

\* A mapped frame holds a page of the directory, which is pooled in it.
LEMMA MappedFrame ==
    ASSUME BInv, NEW f \in Mapped
    PROVE  /\ f \in Frames
           /\ pages_ids[f] \in Pooled /\ pages_ids[f] \in Pages
           /\ page_table[pages_ids[f]] = f
           /\ frames[f] \in Contents
  BY DEF BInv, PoolConsistent, TablesAgree, TypeOK, Mapped

\* A miss takes a free frame, or evicts one that holds a page: the recency
\* list is not empty when no frame is free.
LEMMA TakenFrameKind ==
    ASSUME BInv
    PROVE  /\ TakenFrame \in Frames
           /\ Evicts => /\ lru # <<>>
                        /\ TakenFrame = Victim(lru)
                        /\ TakenFrame \in Mapped
           /\ ~Evicts => TakenFrame \notin Mapped
<1>1. /\ Keys(free_frames_ids) = Frames \ Mapped /\ Keys(lru) = Mapped
      /\ NoRepeats(lru)
      /\ free_frames_ids \in Seq(Frames) /\ lru \in Seq(Frames)
  BY DEF BInv, PoolConsistent, FreeFrames, RecencyMatches, TypeOK
<1>2. CASE Evicts
  <2>1. Keys(free_frames_ids) = {}
    BY <1>2 DEF Evicts, Keys
  <2>2. 0 \in Keys(lru)
    BY <1>1, <2>1, FramesFinite DEF Mapped
  <2>3. lru # <<>>
    BY <2>2 DEF Keys
  <2>4. Victim(lru) \in Mapped
    BY <1>1, <2>3, DropLastKeys
  <2>5. TakenFrame = Victim(lru)
    BY <1>2 DEF Evicts, TakenFrame
  <2> QED BY <1>2, <2>3, <2>4, <2>5 DEF Mapped
<1>3. CASE ~Evicts
  <2>1. Len(free_frames_ids) \in Nat \ {0}
    BY <1>1, <1>3, EmptySeq DEF Evicts
  <2>2. TakenFrame = free_frames_ids[Len(free_frames_ids)]
    BY <1>3 DEF Evicts, TakenFrame
  <2>3. TakenFrame \in Keys(free_frames_ids)
    BY <2>1, <2>2 DEF Keys
  <2> QED BY <1>1, <1>3, <2>3
<1> QED BY <1>2, <1>3

\* Popping the free stack takes its last frame off it.
LEMMA PopFree ==
    ASSUME NEW S, NEW l \in Seq(S), l # <<>>, NoRepeats(l)
    PROVE  /\ SubSeq(l, 1, Len(l) - 1) \in Seq(S)
           /\ Keys(SubSeq(l, 1, Len(l) - 1)) = Keys(l) \ {l[Len(l)]}
           /\ NoRepeats(SubSeq(l, 1, Len(l) - 1))
<1>1. Len(l) \in Nat \ {0} /\ \A i \in 1 .. Len(l) : l[i] \in S
  BY EmptySeq
<1> DEFINE r == SubSeq(l, 1, Len(l) - 1)
<1>2. r \in Seq(S) /\ Len(r) = Len(l) - 1 /\ \A i \in 1 .. Len(r) : r[i] = l[i]
  <2> DEFINE n == Len(l) - 1
  <2>1. 1 \in Int /\ n \in Int /\ n \in Nat /\ \A i \in 1 .. n : l[i] \in S
    BY <1>1
  <2>2. r = SubSeq(l, 1, n)
    OBVIOUS
  <2> HIDE DEF n, r
  <2>3. /\ r \in Seq(S)
        /\ Len(r) = IF 1 <= n THEN n - 1 + 1 ELSE 0
        /\ \A i \in 1 .. n - 1 + 1 : r[i] = l[1 + i - 1]
    BY <2>1, <2>2, SubSeqProperties
  <2>4. Len(r) = n /\ \A i \in 1 .. n : r[i] = l[i]
    BY <2>1, <2>3
  <2> QED BY <2>3, <2>4 DEF n
<1> HIDE DEF r
<1>3. \A i \in 1 .. Len(l) : i # Len(l) => i \in 1 .. Len(r)
  BY <1>1, <1>2
<1>4. Keys(r) = Keys(l) \ {l[Len(l)]}
  <2>1. Keys(r) \subseteq Keys(l) \ {l[Len(l)]}
    BY <1>1, <1>2 DEF Keys, NoRepeats
  <2>2. Keys(l) \ {l[Len(l)]} \subseteq Keys(r)
    BY <1>2, <1>3 DEF Keys
  <2> QED BY <2>1, <2>2
<1>5. NoRepeats(r)
  BY <1>1, <1>2 DEF NoRepeats
<1> QED BY <1>2, <1>4, <1>5 DEF r

\* Pushing a frame the stack lacks.
LEMMA PushFree ==
    ASSUME NEW S, NEW l \in Seq(S), NEW f \in S, f \notin Keys(l), NoRepeats(l)
    PROVE  /\ Append(l, f) \in Seq(S)
           /\ Keys(Append(l, f)) = Keys(l) \cup {f}
           /\ NoRepeats(Append(l, f))
<1> DEFINE r == Append(l, f)
<1>1. Len(l) \in Nat /\ r \in Seq(S) /\ Len(r) = Len(l) + 1
      /\ r[Len(l) + 1] = f /\ \A i \in 1 .. Len(l) : r[i] = l[i]
  OBVIOUS
<1> HIDE DEF r
<1>2. \A i \in 1 .. Len(r) : i = Len(l) + 1 \/ i \in 1 .. Len(l)
  BY <1>1
<1>3. Keys(r) = Keys(l) \cup {f}
  <2>1. Keys(r) \subseteq Keys(l) \cup {f}
    BY <1>1, <1>2 DEF Keys
  <2>2. Keys(l) \subseteq Keys(r) /\ f \in Keys(r)
    BY <1>1 DEF Keys
  <2> QED BY <2>1, <2>2
<1>4. NoRepeats(r)
  BY <1>1, <1>2 DEF NoRepeats, Keys
<1> QED BY <1>1, <1>3, <1>4 DEF r

\* Bringing a page that is not pooled into the taken frame keeps the tables
\* consistent, and moves no other page.
LEMMA InstallTables ==
    ASSUME BInv, NEW id \in Nat, id \notin Pooled, Install(TakenFrame, id),
           Pages \subseteq Pages', id \in Pages',
           is_dirty' \in [Frames -> BOOLEAN],
           \A g \in Frames \ {TakenFrame} : is_dirty'[g] = is_dirty[g]
    PROVE  /\ Tables'
           /\ Mapped' = Mapped \cup {TakenFrame}
           /\ pages_ids' = [pages_ids EXCEPT ![TakenFrame] = id]
           /\ Pooled' = (Pooled \ {pages_ids[TakenFrame]}) \cup {id}
           /\ page_table'[id] = TakenFrame
           /\ \A p \in Pooled' \ {id} : p \in Pooled /\ page_table'[p] = page_table[p]
<1> DEFINE f == TakenFrame
           old == pages_ids[f]
           kept == IF Evicts THEN Erase(page_table, old) ELSE page_table
<1>1. /\ page_table \in [Pooled -> Frames] /\ pages_ids \in [Frames -> Nat \cup {-1}]
      /\ is_dirty \in [Frames -> BOOLEAN]
      /\ free_frames_ids \in Seq(Frames) /\ lru \in Seq(Frames)
      /\ TablesAgree /\ FreeFrames /\ RecencyMatches /\ DirtyIsMapped
  BY DEF BInv, TypeOK, PoolConsistent
<1>2. f \in Frames /\ (Evicts => lru # <<>> /\ f = Victim(lru) /\ f \in Mapped)
      /\ (~Evicts => f \notin Mapped)
  BY TakenFrameKind
<1>3. /\ page_table' = Put(kept, id, f)
      /\ pages_ids' = [pages_ids EXCEPT ![f] = id]
      /\ free_frames_ids' = IF Evicts THEN <<>>
                            ELSE SubSeq(free_frames_ids, 1, Len(free_frames_ids) - 1)
      /\ lru' = PutFrame(IF Evicts THEN DropLast(lru) ELSE lru, f, BUFFER_SIZE)
  BY DEF Install
<1>4. ~Evicts => old = -1 /\ old \notin Pooled
  <2>1. ASSUME ~Evicts PROVE old = -1
    BY <1>2, <2>1 DEF Mapped
  <2>2. \A p \in Pooled : p # -1
    BY PooledPage
  <2> QED BY <2>1, <2>2
<1>5. kept = [p \in Pooled \ {old} |-> page_table[p]]
  BY <1>1, <1>4 DEF Erase, Pooled
<1>6. \A p \in Pooled \ {old} : p # id /\ page_table[p] # f /\ page_table[p] \in Frames
                               /\ pages_ids[page_table[p]] = p
  BY <1>1 DEF TablesAgree
<1>7. \A g \in Mapped \ {f} : pages_ids[g] \in Pooled \ {old} /\ page_table[pages_ids[g]] = g
  <2> SUFFICES ASSUME NEW g \in Mapped, g # f
               PROVE  pages_ids[g] \in Pooled \ {old} /\ page_table[pages_ids[g]] = g
    OBVIOUS
  <2>1. pages_ids[g] \in Pooled /\ page_table[pages_ids[g]] = g
    BY <1>1 DEF TablesAgree
  <2>2. CASE Evicts
    BY <1>1, <1>2, <2>1, <2>2 DEF TablesAgree
  <2>3. CASE ~Evicts
    BY <1>4, <2>1, <2>3
  <2> QED BY <2>1, <2>2, <2>3
<1>8. /\ Pooled' = (Pooled \ {old}) \cup {id}
      /\ page_table'[id] = f
      /\ \A p \in Pooled \ {old} : page_table'[p] = page_table[p]
  <2> HIDE DEF kept, f, old
  <2>1. DOMAIN kept = Pooled \ {old} /\ \A p \in Pooled \ {old} : kept[p] = page_table[p]
    BY <1>5
  <2> QED BY <1>3, <1>6, <2>1 DEF Put, Pooled
<1>9. pages_ids'[f] = id /\ \A g \in Frames \ {f} : pages_ids'[g] = pages_ids[g]
  BY <1>1, <1>2, <1>3
<1>10. Mapped' = Mapped \cup {f}
  <2>1. id # -1
    OBVIOUS
  <2>2. \A g \in Frames : pages_ids'[g] # -1 <=> (g = f \/ pages_ids[g] # -1)
    BY <1>9, <2>1
  <2> QED BY <1>2, <2>2 DEF Mapped
<1> HIDE DEF f, old, kept
<1>11. page_table' \in [Pooled' -> Frames] /\ pages_ids' \in [Frames -> Nat \cup {-1}]
  <2>1. \A p \in Pooled' : page_table'[p] \in Frames
    BY <1>2, <1>6, <1>8
  <2>2. page_table' = [p \in Pooled' |-> page_table'[p]]
    BY <1>3 DEF Put, Pooled
  <2> QED BY <1>1, <1>2, <1>3, <2>1, <2>2
<1>12. TablesAgree'
  <2>1. \A p \in Pooled' : p \in Pages' /\ pages_ids'[page_table'[p]] = p
    <3> SUFFICES ASSUME NEW p \in Pooled'
                 PROVE  p \in Pages' /\ pages_ids'[page_table'[p]] = p
      OBVIOUS
    <3>1. CASE p = id
      BY <3>1, <1>8, <1>9
    <3>2. CASE p # id
      <4>1. p \in Pooled \ {old}
        BY <3>2, <1>8
      <4>2. p \in Pages
        BY <4>1, <1>1 DEF TablesAgree
      <4> QED BY <4>1, <4>2, <1>6, <1>8, <1>9
    <3> QED BY <3>1, <3>2
  <2>2. \A g \in Mapped' : pages_ids'[g] \in Pooled' /\ page_table'[pages_ids'[g]] = g
    <3> SUFFICES ASSUME NEW g \in Mapped'
                 PROVE  pages_ids'[g] \in Pooled' /\ page_table'[pages_ids'[g]] = g
      OBVIOUS
    <3>1. CASE g = f
      BY <3>1, <1>8, <1>9
    <3>2. CASE g # f
      <4>1. g \in Mapped \ {f} /\ g \in Frames \ {f}
        BY <3>2, <1>10 DEF Mapped
      <4> QED BY <4>1, <1>7, <1>8, <1>9
    <3> QED BY <3>1, <3>2
  <2> QED BY <2>1, <2>2 DEF TablesAgree
<1>13. free_frames_ids' \in Seq(Frames) /\ FreeFrames'
  <2>1. CASE Evicts
    <3>1. free_frames_ids' = <<>> /\ free_frames_ids = <<>>
      BY <2>1, <1>3 DEF Evicts
    <3>2. Keys(free_frames_ids') = {} /\ Keys(free_frames_ids) = {} /\ NoRepeats(free_frames_ids')
      BY <3>1 DEF Keys, NoRepeats
    <3>3. Mapped' = Mapped
      BY <2>1, <1>2, <1>10
    <3>4. <<>> \in Seq(Frames)
      BY EmptySeq
    <3> QED BY <1>1, <3>1, <3>2, <3>3, <3>4 DEF FreeFrames
  <2>2. CASE ~Evicts
    <3>1. free_frames_ids # <<>> /\ f = free_frames_ids[Len(free_frames_ids)]
      BY <2>2 DEF Evicts, TakenFrame, f
    <3>2. /\ free_frames_ids' \in Seq(Frames)
          /\ Keys(free_frames_ids') = Keys(free_frames_ids) \ {f}
          /\ NoRepeats(free_frames_ids')
      BY <2>2, <1>1, <1>3, <3>1, PopFree DEF FreeFrames
    <3> QED BY <1>1, <1>10, <3>2 DEF FreeFrames
  <2> QED BY <2>1, <2>2
<1>14. lru' \in Seq(Frames) /\ RecencyMatches'
  <2> DEFINE l == IF Evicts THEN DropLast(lru) ELSE lru
  <2>1. l \in Seq(Frames) /\ NoRepeats(l) /\ Keys(l) = Mapped \ {f}
    <3>1. CASE Evicts
      BY <3>1, <1>1, <1>2, DropLastKeys DEF RecencyMatches
    <3>2. CASE ~Evicts
      BY <3>2, <1>1, <1>2 DEF RecencyMatches
    <3> QED BY <3>1, <3>2
  <2> HIDE DEF l
  <2>2. f \in Frames \ Keys(l)
    BY <2>1, <1>2
  <2>3. lru' = PutFrame(l, f, Cardinality(Frames))
    BY <1>3, FramesFinite DEF l
  <2>4. /\ lru' \in Seq(Frames) /\ NoRepeats(lru') /\ Keys(lru') = Keys(l) \cup {f}
    BY <2>1, <2>2, <2>3, FramesFinite, PutFrameKeys
  <2> QED BY <1>10, <2>1, <2>4 DEF RecencyMatches
<1>15. DirtyIsMapped'
  BY <1>1, <1>10 DEF DirtyIsMapped, f
<1>16. Tables'
  BY <1>11, <1>12, <1>13, <1>14, <1>15 DEF Tables, PoolConsistent
<1> QED BY <1>3, <1>8, <1>10, <1>16 DEF f, old

-----------------------------------------------------------------------------
(* The steps. *)

\* Writing a frame's page back puts its content in the file and keeps the rest.
LEMMA FrameWrittenBack ==
    ASSUME BInv, NEW f \in Mapped,
           NEW w, w = WritePage(dm, pages_ids[f], frames[f])
    PROVE  /\ DiskOK(w)
           /\ w.pages_table = dm.pages_table
           /\ w.saved = dm.saved
           /\ w.file[pages_ids[f]] = frames[f]
           /\ \A i \in Pages \ {pages_ids[f]} : w.file[i] = dm.file[i]
<1>1. pages_ids[f] \in DOMAIN dm.pages_table /\ frames[f] \in Contents
  BY MappedFrame DEF Pages
<1>2. DiskOK(dm)
  BY InvParts
<1>3. /\ DiskOK(w) /\ w.pages_table = dm.pages_table /\ w.saved = dm.saved
      /\ w.file = [dm.file EXCEPT ![pages_ids[f]] = frames[f]]
  BY <1>1, <1>2, WriteKnown
<1>4. pages_ids[f] \in DOMAIN dm.file /\ \A i \in Pages : i \in DOMAIN dm.file
  BY <1>1, <1>2, ReadKnown DEF Pages
<1> QED BY <1>3, <1>4

\* The disk after the victim's write-back: the other pages are as before.
LEMMA VictimWrittenBack ==
    ASSUME BInv, closing = -1
    PROVE  /\ DiskOK(WrittenBack(TakenFrame))
           /\ WrittenBack(TakenFrame).pages_table = dm.pages_table
           /\ WrittenBack(TakenFrame).saved = dm.saved
           /\ \A i \in Pages : ~Evicts \/ i # pages_ids[TakenFrame] =>
                  WrittenBack(TakenFrame).file[i] = dm.file[i]
<1> DEFINE f == TakenFrame
<1>1. f \in Frames /\ (Evicts => f \in Mapped)
  BY TakenFrameKind
<1>2. CASE Evicts /\ is_dirty[f]
  <2>1. WrittenBack(f) = WritePage(dm, pages_ids[f], frames[f])
    BY <1>2 DEF WrittenBack
  <2> QED BY <1>1, <1>2, <2>1, FrameWrittenBack
<1>3. CASE ~(Evicts /\ is_dirty[f])
  <2>1. WrittenBack(f) = dm
    BY <1>3 DEF WrittenBack
  <2> QED BY <2>1, InvParts
<1> QED BY <1>2, <1>3

\* The victim's page holds what the frame held, whether it was dirty or not.
LEMMA VictimSaved ==
    ASSUME BInv, NEW S, CleanFor(S), Evicts, pages_ids[TakenFrame] \in S
    PROVE  WrittenBack(TakenFrame).file[pages_ids[TakenFrame]] = frames[TakenFrame]
<1> DEFINE f == TakenFrame
<1>1. f \in Mapped
  BY TakenFrameKind
<1>2. CASE is_dirty[f]
  <2>1. WrittenBack(f) = WritePage(dm, pages_ids[f], frames[f])
    BY <1>2 DEF WrittenBack
  <2> QED BY <1>1, <2>1, FrameWrittenBack
<1>3. CASE ~is_dirty[f]
  <2>1. WrittenBack(f) = dm
    BY <1>3 DEF WrittenBack
  <2>2. frames[f] = ReadPage(dm, pages_ids[f], NoPage)
    BY <1>1, <1>3 DEF CleanFor
  <2>3. pages_ids[f] \in DOMAIN dm.pages_table
    BY <1>1, MappedFrame DEF Pages
  <2> QED BY <2>1, <2>2, <2>3, InvParts, ReadKnown
<1> QED BY <1>2, <1>3

\* CleanMatchesDisk is CleanFor every page.
LEMMA CleanForPages ==
    ASSUME IInv
    PROVE  BInv /\ \A S : CleanFor(S)
  BY DEF IInv, CleanMatchesDisk, CleanFor

\* What is to be shown of the state after a step.
LEMMA BInvAfter ==
    ASSUME Tables', DiskOK(dm'), closing' \in -1 .. BUFFER_SIZE,
           frames' \in [Frames -> Contents \cup {NoPage}],
           \A f \in Mapped' : frames'[f] \in Contents
    PROVE  BInv'
<1>1. TypeOK'
  BY DEF Tables, DiskOK, TypeOK
<1>2. PoolConsistent' /\ DirectoryOrderly'
  BY DEF Tables, DiskOK, DirectoryOrderly
<1> QED BY <1>1, <1>2 DEF BInv

\* CleanFor every page is CleanMatchesDisk.
LEMMA IInvAfter ==
    ASSUME BInv', NEW S, CleanFor(S)', Pages' \subseteq S
    PROVE  IInv'
<1>1. \A f \in Mapped' : pages_ids'[f] \in Pages'
  BY DEF BInv, PoolConsistent, TablesAgree
<1> QED BY <1>1 DEF IInv, CleanMatchesDisk, CleanFor

\* While the pool is open, only the dirty flag counts.
LEMMA OpenClean ==
    ASSUME NEW S, closing' = -1,
           \A g \in Mapped' : pages_ids'[g] \in S /\ ~is_dirty'[g] =>
               frames'[g] = ReadPage(dm', pages_ids'[g], NoPage)
    PROVE  CleanFor(S)'
<1>1. \A g \in Mapped' : ~(g < -1)
  BY PoolConstants DEF Mapped, Frames
<1> QED BY <1>1 DEF CleanFor

\* A miss keeps the bookkeeping, and the clean frames of the pages of S: the
\* fetch and newPage, with or without a write to the frame that was filled.
LEMMA MissStep ==
    ASSUME BInv, closing = -1, NEW id \in Nat, id \notin Pooled,
           DiskOK(dm'), Pages \subseteq Pages', id \in Pages',
           \A i \in Pages : dm'.file[i] = WrittenBack(TakenFrame).file[i],
           Install(TakenFrame, id),
           NEW x \in Contents, frames' = [frames EXCEPT ![TakenFrame] = x],
           NEW b \in BOOLEAN, is_dirty' = [is_dirty EXCEPT ![TakenFrame] = b],
           ~b => x = dm'.file[id],
           UNCHANGED closing
    PROVE  /\ BInv'
           /\ \A S : CleanFor(S) => CleanFor(S \cup {id})'
<1> DEFINE f == TakenFrame
<1>1. /\ frames \in [Frames -> Contents \cup {NoPage}]
      /\ is_dirty \in [Frames -> BOOLEAN]
      /\ f \in Frames
  BY TakenFrameKind DEF BInv, TypeOK
<1>2. /\ is_dirty' \in [Frames -> BOOLEAN] /\ is_dirty'[f] = b
      /\ \A g \in Frames \ {f} : is_dirty'[g] = is_dirty[g]
  BY <1>1
<1>3. /\ frames' \in [Frames -> Contents \cup {NoPage}] /\ frames'[f] = x
      /\ \A g \in Frames \ {f} : frames'[g] = frames[g]
  BY <1>1
<1>4. /\ Tables' /\ Mapped' = Mapped \cup {f}
      /\ pages_ids' = [pages_ids EXCEPT ![f] = id]
  BY <1>2, InstallTables
<1>5. pages_ids'[f] = id /\ \A g \in Frames \ {f} : pages_ids'[g] = pages_ids[g]
  BY <1>1, <1>4 DEF BInv, TypeOK
<1> HIDE DEF f
<1>6. \A g \in Mapped' : frames'[g] \in Contents
  BY <1>3, <1>4, MappedFrame
<1>7. ASSUME NEW S, CleanFor(S) PROVE CleanFor(S \cup {id})'
  <2> SUFFICES ASSUME NEW g \in Mapped', pages_ids'[g] \in S \cup {id}, ~is_dirty'[g]
               PROVE  frames'[g] = ReadPage(dm', pages_ids'[g], NoPage)
    BY OpenClean
  <2>1. g \in Frames
    BY DEF Mapped
  <2>2. CASE g = f
    <3>1. ReadPage(dm', id, NoPage) = dm'.file[id]
      BY ReadKnown DEF Pages
    <3> QED BY <2>2, <3>1, <1>2, <1>3, <1>5
  <2>3. CASE g # f
    <3>1. g \in Mapped /\ ~is_dirty[g] /\ pages_ids'[g] = pages_ids[g]
          /\ frames'[g] = frames[g]
      BY <2>1, <2>3, <1>2, <1>3, <1>4, <1>5
    <3>2. pages_ids[g] \in Pages /\ pages_ids[g] \in Pooled
      BY <3>1, MappedFrame
    <3>3. frames[g] = ReadPage(dm, pages_ids[g], NoPage)
      BY <1>7, <3>1, <3>2 DEF CleanFor
    <3>4. frames[g] = dm.file[pages_ids[g]]
      BY <3>2, <3>3, InvParts, ReadKnown DEF Pages
    <3>5. Evicts => pages_ids[g] # pages_ids[f]
      BY <2>3, <3>1, TakenFrameKind, MappedFrame DEF f
    <3>6. dm'.file[pages_ids[g]] = frames[g]
      BY <3>2, <3>4, <3>5, VictimWrittenBack DEF f
    <3>7. ReadPage(dm', pages_ids[g], NoPage) = dm'.file[pages_ids[g]]
      BY <3>2, ReadKnown DEF Pages
    <3> QED BY <3>1, <3>6, <3>7
  <2> QED BY <2>2, <2>3
<1>8. closing' \in -1 .. BUFFER_SIZE
  BY PoolConstants
<1> QED BY <1>3, <1>4, <1>6, <1>7, <1>8, BInvAfter

LEMMA FetchMissStep ==
    ASSUME BInv, NEW id \in Pages, FetchMiss(id)
    PROVE  /\ BInv'
           /\ \A S : CleanFor(S) => CleanFor(S \cup {id})'
<1> DEFINE f == TakenFrame
<1>1. /\ closing = -1 /\ id \notin Pooled /\ dm' = WrittenBack(f)
      /\ frames' = [frames EXCEPT ![f] = ReadPage(dm', id, frames[f])]
      /\ is_dirty' = [is_dirty EXCEPT ![f] = FALSE]
      /\ Install(f, id) /\ UNCHANGED closing
  BY DEF FetchMiss
<1>2. DiskOK(dm') /\ Pages' = Pages /\ id \in Nat
  BY <1>1, VictimWrittenBack, InvParts, ReadKnown DEF Pages
<1>3. ReadPage(dm', id, frames[f]) = dm'.file[id] /\ dm'.file[id] \in Contents
  BY <1>2, ReadKnown DEF Pages
<1> QED BY <1>1, <1>2, <1>3, MissStep

LEMMA UpdateMissStep ==
    ASSUME BInv, NEW id \in Pages, NEW x \in Data, UpdateMiss(id, x)
    PROVE  /\ BInv'
           /\ \A S : CleanFor(S) => CleanFor(S \cup {id})'
<1> DEFINE f == TakenFrame
<1>1. /\ closing = -1 /\ id \notin Pooled /\ dm' = WrittenBack(f)
      /\ frames' = [frames EXCEPT ![f] = x]
      /\ is_dirty' = [is_dirty EXCEPT ![f] = TRUE]
      /\ Install(f, id) /\ UNCHANGED closing
  BY DEF UpdateMiss
<1>2. DiskOK(dm') /\ Pages' = Pages /\ id \in Nat /\ x \in Contents
  BY <1>1, VictimWrittenBack, InvParts, ReadKnown DEF Pages, Contents
<1> QED BY <1>1, <1>2, MissStep

LEMMA NewPageStep ==
    ASSUME BInv, NewPage, NEW n, n = AllocatePage(WrittenBack(TakenFrame)).slot
    PROVE  /\ BInv' /\ Pages' = Pages \cup {n}
           /\ \A S : CleanFor(S) => CleanFor(S \cup {n})'
<1> DEFINE f == TakenFrame
           a == AllocatePage(WrittenBack(f))
<1>1. /\ closing = -1 /\ Cardinality(Pages) < MaxPages
      /\ dm' = a.disk
      /\ frames' = [frames EXCEPT ![f] = ReadPage(dm', a.slot, frames[f])]
      /\ is_dirty' = [is_dirty EXCEPT ![f] = FALSE]
      /\ Install(f, a.slot) /\ UNCHANGED closing
  BY DEF NewPage
<1> HIDE DEF f
<1>2. /\ DiskOK(WrittenBack(f)) /\ DOMAIN WrittenBack(f).pages_table = Pages
  BY <1>1, VictimWrittenBack DEF Pages, f
<1>3. /\ DiskOK(dm') /\ a.slot \in Nat /\ a.slot \notin Pages
      /\ Pages' = Pages \cup {a.slot}
      /\ \A i \in Pages : dm'.file[i] = WrittenBack(f).file[i]
  BY <1>1, <1>2, AllocateNext DEF Pages
<1> HIDE DEF a
<1>4. a.slot \notin Pooled
  BY <1>3, PooledPage
<1>5. ReadPage(dm', a.slot, frames[f]) = dm'.file[a.slot] /\ dm'.file[a.slot] \in Contents
  BY <1>3, ReadKnown DEF Pages
<1> QED BY <1>1, <1>3, <1>4, <1>5, MissStep DEF f, a

\* A step that touches one pooled page and no table but the recency order.
LEMMA HitStep ==
    ASSUME BInv, closing = -1, NEW id \in Pooled,
           UNCHANGED <<dm, page_table, pages_ids, free_frames_ids, closing>>,
           NEW x \in Contents, frames' = [frames EXCEPT ![page_table[id]] = x],
           NEW b \in BOOLEAN,
           is_dirty' = [is_dirty EXCEPT ![page_table[id]] = b],
           lru' \in Seq(Frames), Keys(lru') = Keys(lru), NoRepeats(lru')
    PROVE  /\ BInv'
           /\ \A S : /\ CleanFor(S)
                     /\ b \/ id \notin S \/ (/\ x = frames[page_table[id]]
                                            /\ ~is_dirty[page_table[id]])
                     => CleanFor(S)'
<1> DEFINE f == page_table[id]
<1>1. /\ frames \in [Frames -> Contents \cup {NoPage}]
      /\ is_dirty \in [Frames -> BOOLEAN]
      /\ f \in Frames /\ f \in Mapped
  BY PooledPage, MappedFrame DEF BInv, TypeOK
<1>2. /\ is_dirty' \in [Frames -> BOOLEAN] /\ is_dirty'[f] = b
      /\ \A g \in Frames \ {f} : is_dirty'[g] = is_dirty[g]
  BY <1>1
<1>3. /\ frames' \in [Frames -> Contents \cup {NoPage}] /\ frames'[f] = x
      /\ \A g \in Frames \ {f} : frames'[g] = frames[g]
  BY <1>1
<1> HIDE DEF f
<1>4. Pooled' = Pooled /\ Pages' = Pages /\ Mapped' = Mapped
  BY DEF Pooled, Pages, Mapped
<1>5. DiskOK(dm') /\ Tables
  BY InvParts
<1>6. Tables'
  <2>1. TablesAgree' /\ FreeFrames'
    BY <1>4, <1>5 DEF Tables, PoolConsistent, TablesAgree, FreeFrames
  <2>2. RecencyMatches'
    BY <1>4, <1>5 DEF Tables, PoolConsistent, RecencyMatches
  <2>3. DirtyIsMapped'
    BY <1>1, <1>2, <1>4, <1>5 DEF Tables, PoolConsistent, DirtyIsMapped
  <2>4. page_table' \in [Pooled' -> Frames]
    BY <1>4, <1>5 DEF Tables
  <2> QED BY <1>2, <1>5, <2>1, <2>2, <2>3, <2>4 DEF Tables, PoolConsistent
<1>7. \A g \in Mapped' : frames'[g] \in Contents
  BY <1>3, <1>4, MappedFrame
<1>8. ASSUME NEW S, CleanFor(S), b \/ id \notin S \/ (x = frames[f] /\ ~is_dirty[f])
      PROVE  CleanFor(S)'
  <2> SUFFICES ASSUME NEW g \in Mapped, pages_ids[g] \in S, ~is_dirty'[g]
               PROVE  frames'[g] = ReadPage(dm', pages_ids'[g], NoPage)
    BY <1>4, OpenClean
  <2>1. g \in Frames
    BY DEF Mapped
  <2>2. g = f => pages_ids[g] = id
    BY PooledPage DEF f
  <2>3. ~is_dirty[g] /\ frames'[g] = frames[g]
    BY <2>1, <2>2, <1>2, <1>3, <1>8
  <2> QED BY <2>3, <1>8 DEF CleanFor
<1>9. closing' \in -1 .. BUFFER_SIZE
  BY PoolConstants
<1> QED BY <1>3, <1>5, <1>6, <1>7, <1>8, <1>9, BInvAfter DEF f

LEMMA FetchHitStep ==
    ASSUME BInv, NEW id \in Pages, FetchHit(id)
    PROVE  BInv' /\ \A S : CleanFor(S) => CleanFor(S)'
<1> DEFINE f == page_table[id]
<1>1. /\ closing = -1 /\ id \in Pooled /\ lru' = GetFrame(lru, f)
      /\ UNCHANGED <<dm, frames, page_table, pages_ids, is_dirty, free_frames_ids, closing>>
  BY DEF FetchHit
<1>2. lru \in Seq(Frames) /\ NoRepeats(lru)
  BY DEF BInv, TypeOK, PoolConsistent, RecencyMatches
<1>3. lru' \in Seq(Frames) /\ Keys(lru') = Keys(lru) /\ NoRepeats(lru')
  BY <1>1, <1>2, GetFrameKeys
<1>4. /\ f \in Frames /\ frames[f] \in Contents /\ is_dirty[f] \in BOOLEAN
      /\ frames' = [frames EXCEPT ![f] = frames[f]]
      /\ is_dirty' = [is_dirty EXCEPT ![f] = is_dirty[f]]
  BY <1>1, PooledPage, MappedFrame DEF BInv, TypeOK
<1> QED BY <1>1, <1>3, <1>4, HitStep

LEMMA UpdateHitStep ==
    ASSUME BInv, NEW id \in Pages, NEW x \in Data, UpdateHit(id, x)
    PROVE  BInv' /\ \A S : CleanFor(S) => CleanFor(S)'
<1> DEFINE f == page_table[id]
<1>1. /\ closing = -1 /\ id \in Pooled /\ lru' = GetFrame(lru, f)
      /\ frames' = [frames EXCEPT ![f] = x]
      /\ is_dirty' = [is_dirty EXCEPT ![f] = TRUE]
      /\ UNCHANGED <<dm, page_table, pages_ids, free_frames_ids, closing>>
  BY DEF UpdateHit
<1>2. lru \in Seq(Frames) /\ NoRepeats(lru)
  BY DEF BInv, TypeOK, PoolConsistent, RecencyMatches
<1>3. lru' \in Seq(Frames) /\ Keys(lru') = Keys(lru) /\ NoRepeats(lru')
  BY <1>1, <1>2, GetFrameKeys
<1> QED BY <1>1, <1>3, HitStep DEF Contents

LEMMA UnpinDirtyStep ==
    ASSUME BInv, NEW id \in Pages, UnpinDirty(id)
    PROVE  BInv' /\ \A S : CleanFor(S) => CleanFor(S)'
<1> DEFINE f == page_table[id]
<1>1. /\ closing = -1 /\ id \in Pooled /\ lru' = lru
      /\ is_dirty' = [is_dirty EXCEPT ![f] = TRUE]
      /\ UNCHANGED <<dm, frames, page_table, pages_ids, free_frames_ids, closing>>
  BY DEF UnpinDirty
<1>2. lru \in Seq(Frames) /\ NoRepeats(lru)
  BY DEF BInv, TypeOK, PoolConsistent, RecencyMatches
<1>3. frames[f] \in Contents /\ frames' = [frames EXCEPT ![f] = frames[f]]
  BY <1>1, PooledPage, MappedFrame DEF BInv, TypeOK
<1> QED BY <1>1, <1>2, <1>3, HitStep

\* deletePage writes a dirty page back before its frame is given up.
LEMMA DeletePooledStep ==
    ASSUME BInv, NEW id \in Pages, DeletePooled(id)
    PROVE  BInv' /\ Pages' = Pages /\ \A S : CleanFor(S) => CleanFor(S)'
<1> DEFINE f == page_table[id]
<1>1. /\ closing = -1 /\ id \in Pooled
      /\ dm' = IF is_dirty[f] THEN WritePage(dm, id, frames[f]) ELSE dm
      /\ page_table' = Erase(page_table, id)
      /\ pages_ids' = [pages_ids EXCEPT ![f] = -1]
      /\ is_dirty' = [is_dirty EXCEPT ![f] = FALSE]
      /\ free_frames_ids' = Append(free_frames_ids, f)
      /\ lru' = RemoveFrame(lru, f)
      /\ UNCHANGED <<frames, closing>>
  BY DEF DeletePooled
<1>2. f \in Mapped /\ f \in Frames /\ pages_ids[f] = id
  BY <1>1, PooledPage, MappedFrame
<1> HIDE DEF f
<1>3. /\ frames \in [Frames -> Contents \cup {NoPage}]
      /\ page_table \in [Pooled -> Frames]
      /\ pages_ids \in [Frames -> Nat \cup {-1}]
      /\ is_dirty \in [Frames -> BOOLEAN]
      /\ free_frames_ids \in Seq(Frames) /\ lru \in Seq(Frames)
      /\ TablesAgree /\ FreeFrames /\ RecencyMatches /\ DirtyIsMapped
  BY DEF BInv, TypeOK, PoolConsistent
<1>4. /\ DiskOK(dm') /\ dm'.pages_table = dm.pages_table
      /\ \A i \in Pages \ {id} : dm'.file[i] = dm.file[i]
  <2>1. CASE is_dirty[f]
    BY <2>1, <1>1, <1>2, FrameWrittenBack
  <2>2. CASE ~is_dirty[f]
    BY <2>2, <1>1, InvParts
  <2> QED BY <2>1, <2>2
<1>5. /\ pages_ids' \in [Frames -> Nat \cup {-1}] /\ pages_ids'[f] = -1
      /\ \A g \in Frames \ {f} : pages_ids'[g] = pages_ids[g]
  BY <1>1, <1>2, <1>3
<1>6. /\ is_dirty' \in [Frames -> BOOLEAN] /\ ~is_dirty'[f]
      /\ \A g \in Frames \ {f} : is_dirty'[g] = is_dirty[g]
  BY <1>1, <1>2, <1>3
<1>7. Mapped' = Mapped \ {f} /\ Pages' = Pages
  BY <1>2, <1>4, <1>5 DEF Mapped, Pages
<1>8. /\ Pooled' = Pooled \ {id}
      /\ \A p \in Pooled' : page_table'[p] = page_table[p]
      /\ page_table' \in [Pooled' -> Frames]
  BY <1>1, <1>3 DEF Pooled, Erase
<1>9. TablesAgree'
  <2>1. ASSUME NEW p \in Pooled'
        PROVE  p \in Pages' /\ pages_ids'[page_table'[p]] = p
    <3>1. p \in Pooled /\ p # id /\ page_table'[p] = page_table[p]
      BY <1>8
    <3>2. p \in Pages /\ page_table[p] \in Frames /\ pages_ids[page_table[p]] = p
      BY <1>3, <3>1 DEF TablesAgree
    <3>3. page_table[p] # f
      BY <1>2, <3>1, <3>2
    <3> QED BY <1>5, <1>7, <3>1, <3>2, <3>3
  <2>2. ASSUME NEW g \in Mapped'
        PROVE  pages_ids'[g] \in Pooled' /\ page_table'[pages_ids'[g]] = g
    <3>1. g \in Mapped /\ g # f /\ g \in Frames
      BY <1>7 DEF Mapped
    <3>2. pages_ids[g] \in Pooled /\ page_table[pages_ids[g]] = g
      BY <1>3, <3>1 DEF TablesAgree
    <3>3. pages_ids[g] # id
      BY <3>1, <3>2 DEF f
    <3> QED BY <1>5, <1>8, <3>1, <3>2, <3>3
  <2> QED BY <2>1, <2>2 DEF TablesAgree
<1>10. free_frames_ids' \in Seq(Frames) /\ FreeFrames'
  <2>1. f \notin Keys(free_frames_ids) /\ NoRepeats(free_frames_ids)
    BY <1>2, <1>3 DEF FreeFrames
  <2>2. /\ free_frames_ids' \in Seq(Frames) /\ NoRepeats(free_frames_ids')
        /\ Keys(free_frames_ids') = Keys(free_frames_ids) \cup {f}
    BY <1>1, <1>2, <1>3, <2>1, PushFree
  <2>3. Keys(free_frames_ids') = Frames \ Mapped'
    BY <1>2, <1>3, <1>7, <2>2 DEF FreeFrames
  <2> QED BY <2>2, <2>3 DEF FreeFrames
<1>11. lru' \in Seq(Frames) /\ RecencyMatches'
  <2>1. f \in Keys(lru) /\ NoRepeats(lru) /\ Keys(lru) = Mapped
    BY <1>2, <1>3 DEF RecencyMatches
  <2>2. /\ lru' \in Seq(Frames) /\ NoRepeats(lru') /\ Keys(lru') = Keys(lru) \ {f}
    BY <1>1, <1>3, <2>1, WithoutKeys DEF RemoveFrame
  <2> QED BY <1>7, <2>1, <2>2 DEF RecencyMatches
<1>12. DirtyIsMapped'
  BY <1>3, <1>6, <1>7 DEF DirtyIsMapped
<1>13. Tables'
  BY <1>5, <1>6, <1>8, <1>9, <1>10, <1>11, <1>12 DEF Tables, PoolConsistent
<1>14. \A g \in Mapped' : frames'[g] \in Contents
  BY <1>1, <1>7, MappedFrame
<1>15. ASSUME NEW S, CleanFor(S) PROVE CleanFor(S)'
  <2> SUFFICES ASSUME NEW g \in Mapped', pages_ids'[g] \in S, ~is_dirty'[g]
               PROVE  frames'[g] = ReadPage(dm', pages_ids'[g], NoPage)
    BY <1>1, OpenClean
  <2>1. g \in Mapped /\ g # f /\ g \in Frames
    BY <1>7 DEF Mapped
  <2>2. pages_ids[g] \in Pages /\ pages_ids[g] # id /\ pages_ids'[g] = pages_ids[g]
    BY <1>5, <2>1, MappedFrame DEF f
  <2>3. ~is_dirty[g]
    BY <1>6, <2>1
  <2>4. frames[g] = ReadPage(dm, pages_ids[g], NoPage)
    BY <1>15, <2>1, <2>2, <2>3 DEF CleanFor
  <2>5. frames[g] = dm.file[pages_ids[g]]
    BY <2>2, <2>4, InvParts, ReadKnown DEF Pages
  <2>6. ReadPage(dm', pages_ids[g], NoPage) = dm'.file[pages_ids[g]]
    BY <1>4, <2>2, ReadKnown DEF Pages
  <2> QED BY <1>1, <1>4, <2>2, <2>5, <2>6
<1>16. closing' \in -1 .. BUFFER_SIZE
  BY <1>1, PoolConstants
<1> QED BY <1>1, <1>3, <1>4, <1>7, <1>13, <1>14, <1>15, <1>16, BInvAfter

\* The destructor starts, and passes one frame after the other.
LEMMA StartCloseStep ==
    ASSUME IInv, StartClose
    PROVE  IInv'
<1>1. closing = -1 /\ closing' = 0 /\ UNCHANGED <<dm, poolVars>>
  BY DEF StartClose
<1>2. UNCHANGED <<dm, frames, page_table, pages_ids, is_dirty, free_frames_ids, lru>>
  BY <1>1 DEF poolVars
<1>3. Pooled' = Pooled /\ Pages' = Pages /\ Mapped' = Mapped
  BY <1>2 DEF Pooled, Pages, Mapped
<1>4. PoolConsistent'
  BY <1>2, <1>3 DEF IInv, BInv, PoolConsistent, TablesAgree, FreeFrames, RecencyMatches,
                    DirtyIsMapped
<1>5. TypeOK'
  BY <1>1, <1>2, <1>3, PoolConstants DEF IInv, BInv, TypeOK
<1>6. DirectoryOrderly'
  BY <1>2 DEF IInv, BInv, DirectoryOrderly
<1>7. CleanMatchesDisk'
  <2> SUFFICES ASSUME NEW g \in Mapped, ~is_dirty[g] \/ g < 0
               PROVE  frames[g] = ReadPage(dm, pages_ids[g], NoPage)
    BY <1>1, <1>2, <1>3 DEF CleanMatchesDisk
  <2>1. ~(g < 0)
    BY PoolConstants DEF Mapped, Frames
  <2> QED BY <2>1 DEF IInv, CleanMatchesDisk
<1> QED BY <1>4, <1>5, <1>6, <1>7 DEF IInv, BInv

LEMMA FlushFrameStep ==
    ASSUME IInv, FlushFrame
    PROVE  IInv'
<1> DEFINE c == closing
<1>1. /\ c \in Frames /\ closing' = c + 1
      /\ dm' = IF is_dirty[c] /\ pages_ids[c] # -1
               THEN WritePage(dm, pages_ids[c], frames[c]) ELSE dm
      /\ UNCHANGED <<frames, page_table, pages_ids, is_dirty, free_frames_ids, lru>>
  BY DEF FlushFrame, poolVars
<1>2. c \in Nat /\ closing' \in -1 .. BUFFER_SIZE
  BY <1>1, PoolConstants DEF Frames
<1>3. /\ DiskOK(dm') /\ dm'.pages_table = dm.pages_table
      /\ \A g \in Mapped \ {c} : dm'.file[pages_ids[g]] = dm.file[pages_ids[g]]
      /\ c \in Mapped => dm'.file[pages_ids[c]] = frames[c]
  <2>1. CASE is_dirty[c] /\ pages_ids[c] # -1
    <3>1. c \in Mapped
      BY <1>1, <2>1 DEF Mapped
    <3>2. /\ DiskOK(dm') /\ dm'.pages_table = dm.pages_table
          /\ dm'.file[pages_ids[c]] = frames[c]
          /\ \A i \in Pages \ {pages_ids[c]} : dm'.file[i] = dm.file[i]
      BY <1>1, <2>1, <3>1, FrameWrittenBack DEF IInv
    <3>3. \A g \in Mapped \ {c} : pages_ids[g] \in Pages /\ pages_ids[g] # pages_ids[c]
      BY <3>1, MappedFrame DEF IInv
    <3> QED BY <3>2, <3>3
  <2>2. CASE ~(is_dirty[c] /\ pages_ids[c] # -1)
    <3>1. dm' = dm
      BY <1>1, <2>2
    <3>2. ASSUME c \in Mapped PROVE dm.file[pages_ids[c]] = frames[c]
      <4>1. frames[c] = ReadPage(dm, pages_ids[c], NoPage)
        BY <2>2, <3>2 DEF IInv, CleanMatchesDisk, Mapped
      <4>2. pages_ids[c] \in Pages
        BY <3>2, MappedFrame DEF IInv
      <4> QED BY <4>1, <4>2, InvParts, ReadKnown DEF Pages, IInv
    <3> QED BY <3>1, <3>2, InvParts DEF IInv
  <2> QED BY <2>1, <2>2
<1> HIDE DEF c
<1>4. Pooled' = Pooled /\ Pages' = Pages /\ Mapped' = Mapped
  BY <1>1, <1>3 DEF Pooled, Pages, Mapped
<1>5. Tables'
  <2>1. PoolConsistent'
    BY <1>1, <1>4 DEF IInv, BInv, PoolConsistent, TablesAgree, FreeFrames, RecencyMatches,
                      DirtyIsMapped
  <2> QED BY <1>1, <1>4, <2>1 DEF Tables, IInv, BInv, TypeOK
<1>6. /\ frames' \in [Frames -> Contents \cup {NoPage}]
      /\ \A g \in Mapped' : frames'[g] \in Contents
  BY <1>1, <1>4, MappedFrame DEF IInv, BInv, TypeOK
<1>7. CleanMatchesDisk'
  <2> SUFFICES ASSUME NEW g \in Mapped, ~is_dirty[g] \/ g < c + 1
               PROVE  frames[g] = ReadPage(dm', pages_ids[g], NoPage)
    BY <1>1, <1>4 DEF CleanMatchesDisk
  <2>1. pages_ids[g] \in Pages /\ g \in Frames
    BY MappedFrame DEF IInv
  <2>2. ReadPage(dm', pages_ids[g], NoPage) = dm'.file[pages_ids[g]]
    BY <1>3, <2>1, ReadKnown DEF Pages
  <2>3. CASE g = c
    BY <1>3, <2>2, <2>3
  <2>4. CASE g # c
    <3>1. ~is_dirty[g] \/ g < c
      BY <1>2, <2>1, <2>4, PoolConstants DEF Frames
    <3>2. frames[g] = ReadPage(dm, pages_ids[g], NoPage)
      BY <3>1 DEF IInv, CleanMatchesDisk, c
    <3>3. frames[g] = dm.file[pages_ids[g]]
      BY <2>1, <3>2, InvParts, ReadKnown DEF Pages, IInv
    <3> QED BY <1>3, <2>2, <2>4, <3>3
  <2> QED BY <2>3, <2>4
<1>8. BInv'
  BY <1>2, <1>3, <1>5, <1>6, BInvAfter
<1> QED BY <1>7, <1>8 DEF IInv

-----------------------------------------------------------------------------
(* A new process. *)

\* The stack of a new pool holds every frame once.
LEMMA FreshStack ==
    ASSUME NEW l, l = [i \in 1 .. BUFFER_SIZE |-> i - 1]
    PROVE  l \in Seq(Frames) /\ Keys(l) = Frames /\ NoRepeats(l)
<1>1. BUFFER_SIZE \in Nat /\ l \in [1 .. BUFFER_SIZE -> Frames]
  BY PoolConstants DEF Frames
<1>2. l \in Seq(Frames) /\ Len(l) = BUFFER_SIZE
  BY <1>1, FunctionIsSeq
<1>3. Keys(l) \subseteq Frames
  BY <1>1, <1>2 DEF Keys
<1>4. ASSUME NEW f \in Frames PROVE f \in Keys(l)
  <2>1. f \in Int /\ f + 1 \in 1 .. BUFFER_SIZE
    BY <1>1 DEF Frames
  <2>2. l[f + 1] = f
    BY <2>1
  <2> QED BY <1>2, <2>1, <2>2 DEF Keys
<1>5. NoRepeats(l)
  BY <1>1, <1>2 DEF NoRepeats
<1> QED BY <1>2, <1>3, <1>4, <1>5

\* An empty pool over an orderly disk satisfies the invariant.
LEMMA EmptyPoolStep ==
    ASSUME DiskOK(dm'), EmptyPool
    PROVE  IInv'
<1>1. /\ frames' = [f \in Frames |-> NoPage]
      /\ page_table' = [p \in {} |-> 0]
      /\ pages_ids' = [f \in Frames |-> -1]
      /\ is_dirty' = [f \in Frames |-> FALSE]
      /\ free_frames_ids' = [i \in 1 .. BUFFER_SIZE |-> i - 1]
      /\ lru' = <<>>
      /\ closing' = -1
  BY DEF EmptyPool
<1>2. Mapped' = {} /\ Pooled' = {}
  BY <1>1 DEF Mapped, Pooled
<1>4. /\ free_frames_ids' \in Seq(Frames) /\ Keys(free_frames_ids') = Frames
      /\ NoRepeats(free_frames_ids')
  BY <1>1, FreshStack
<1>7. lru' \in Seq(Frames) /\ Keys(lru') = {} /\ NoRepeats(lru')
  BY <1>1, EmptySeq DEF Keys, NoRepeats
<1>8. PoolConsistent'
  BY <1>1, <1>2, <1>4, <1>7
     DEF PoolConsistent, TablesAgree, FreeFrames, RecencyMatches, DirtyIsMapped
<1>9. Tables'
  BY <1>1, <1>2, <1>4, <1>7, <1>8 DEF Tables
<1>10. CleanMatchesDisk' /\ closing' \in -1 .. BUFFER_SIZE
  BY <1>1, <1>2, PoolConstants DEF CleanMatchesDisk
<1>11. frames' \in [Frames -> Contents \cup {NoPage}]
       /\ \A f \in Mapped' : frames'[f] \in Contents
  BY <1>1, <1>2
<1>12. BInv'
  BY <1>9, <1>10, <1>11, BInvAfter
<1> QED BY <1>10, <1>12 DEF IInv

\* What was saved is an orderly directory for the file as it is.
LEMMA LoadSaved ==
    ASSUME NEW d, DiskOK(d),
           NEW m, m \in {Metadata(d), d.saved}
    PROVE  DiskOK(LoadMetaData(m, d.file, m.pages_table, <<>>))
<1> DEFINE l == LoadMetaData(m, d.file, m.pages_table, <<>>)
<1>1. l = [capacity |-> m.capacity, pages_table |-> m.pages_table,
           deleted_slots |-> <<>>, file |-> d.file, saved |-> m]
  BY DEF LoadMetaData
<1>2. /\ d.capacity \in Nat \ {0} /\ d.saved.capacity \in Nat \ {0}
      /\ d.deleted_slots = <<>>
      /\ d.pages_table \in [DOMAIN d.pages_table -> Nat]
      /\ d.saved \in [capacity : Nat \ {0}, map_size : Nat,
                      pages_table : [DOMAIN d.saved.pages_table -> Nat],
                      deleted_slots : {<<>>}]
      /\ d.saved.pages_table \in [DOMAIN d.saved.pages_table -> Nat]
      /\ d.file \in [DOMAIN d.file -> Contents]
  BY DEF DiskOK, DiskType, Slots
<1>3. Cardinality(DOMAIN d.pages_table) \in Nat
  BY DirectorySize, PoolConstants
<1>4. m \in [capacity : Nat \ {0}, map_size : Nat,
             pages_table : [DOMAIN m.pages_table -> Nat], deleted_slots : {<<>>}]
  BY <1>2, <1>3 DEF Metadata
<1>5. /\ Directory(m.pages_table, m.capacity)
      /\ m.capacity <= d.capacity /\ m.capacity \in Nat
  BY <1>2 DEF DiskOK, Orderly, Metadata
<1>6. 0 .. m.capacity - 1 \subseteq DOMAIN d.file
  <2>1. 0 .. d.capacity - 1 \subseteq DOMAIN d.file
    BY DEF DiskOK, Orderly, Slots
  <2> QED BY <1>2, <1>5, <2>1
<1>7. m.capacity \in Nat \ {0} /\ m.pages_table \in [DOMAIN m.pages_table -> Nat]
  BY <1>4
<1> HIDE DEF l
<1>8. DiskType(l)
  BY <1>1, <1>2, <1>4, <1>7 DEF DiskType, Slots
<1>9. Orderly(l)
  BY <1>1, <1>5, <1>6 DEF Orderly, Slots
<1> QED BY <1>8, <1>9 DEF DiskOK, l

\* The directory of MaxPages pages fits its page: it is saved as it is.
LEMMA SavedInFull ==
    ASSUME NEW d, DiskOK(d), NEW saved \in SavedMetadata(d)
    PROVE  saved = Metadata(d)
<1>1. PICK n \in 0 .. MaxPages : Cardinality(DOMAIN d.pages_table) = n
  BY DirectorySize
<1>2. d.deleted_slots = <<>> /\ Len(<<>>) = 0
  BY EmptySeq DEF DiskOK, DiskType
<1>3. ~(3 * n + 2 * 0 > 3 * MetaEntries)
  BY <1>1, PoolConstants, DiskConstants
<1>4. ~Overruns(d)
  BY <1>1, <1>2, <1>3 DEF Overruns
<1> QED BY <1>4 DEF SavedMetadata

LEMMA ReopenStep ==
    ASSUME IInv, Reopen
    PROVE  IInv'
<1>1. PICK saved \in SavedMetadata(dm) :
          dm' = LoadMetaData(saved, dm.file, saved.pages_table, <<>>)
  BY DEF Reopen
<1>2. DiskOK(dm)
  BY InvParts DEF IInv
<1>3. saved = Metadata(dm)
  BY <1>2, SavedInFull
<1>4. DiskOK(dm')
  BY <1>1, <1>2, <1>3, LoadSaved
<1> QED BY <1>4, EmptyPoolStep DEF Reopen

LEMMA CrashStep ==
    ASSUME IInv, Crash
    PROVE  IInv'
<1>1. DiskOK(LoadMetaData(dm.saved, dm.file, dm.saved.pages_table, <<>>))
  BY InvParts, LoadSaved DEF IInv
<1>2. DiskOK(dm') /\ EmptyPool
  BY <1>1 DEF Crash
<1> QED BY <1>2, EmptyPoolStep

LEMMA NewDiskOK == DiskOK(NewDisk)
<1> DEFINE none == [i \in {} |-> 0]
           file == [t \in 0 .. FILE_CAPACITY - 1 |-> Hole]
<1>1. NewDisk =
        [capacity |-> FILE_CAPACITY, pages_table |-> none, deleted_slots |-> <<>>,
         file |-> file,
         saved |-> [capacity |-> FILE_CAPACITY, map_size |-> 0,
                    pages_table |-> none, deleted_slots |-> <<>>]]
  BY DEF NewDisk, LoadMetaData
<1>2. DOMAIN none = {} /\ none \in [{} -> Nat]
  OBVIOUS
<1>3. file \in [0 .. FILE_CAPACITY - 1 -> Contents] /\ DOMAIN file = 0 .. FILE_CAPACITY - 1
  BY DEF Contents
<1>4. FILE_CAPACITY \in Nat \ {0} /\ MaxPages \in Nat
  BY DiskConstants, PoolConstants
<1>5. Directory(none, FILE_CAPACITY)
  <2>1. 0 \in 0 .. MaxPages /\ 0 < FILE_CAPACITY /\ 1 .. 0 = {}
    BY <1>4
  <2> QED BY <1>2, <2>1 DEF Directory
<1> HIDE DEF none, file
<1>6. DiskType(NewDisk)
  BY <1>1, <1>2, <1>3, <1>4 DEF DiskType, Slots
<1>7. Orderly(NewDisk)
  BY <1>1, <1>2, <1>3, <1>4, <1>5 DEF Orderly, Slots
<1> QED BY <1>6, <1>7 DEF DiskOK

LEMMA InitInv == Init => IInv
<1> SUFFICES ASSUME Init PROVE IInv
  OBVIOUS
<1>1. /\ dm = NewDisk
      /\ frames = [f \in Frames |-> NoPage]
      /\ page_table = [p \in {} |-> 0]
      /\ pages_ids = [f \in Frames |-> -1]
      /\ is_dirty = [f \in Frames |-> FALSE]
      /\ free_frames_ids = [i \in 1 .. BUFFER_SIZE |-> i - 1]
      /\ lru = <<>>
      /\ closing = -1
  BY DEF Init
<1>2. Mapped = {} /\ Pooled = {}
  BY <1>1 DEF Mapped, Pooled
<1>4. /\ free_frames_ids \in Seq(Frames) /\ Keys(free_frames_ids) = Frames
      /\ NoRepeats(free_frames_ids)
  BY <1>1, FreshStack
<1>7. lru \in Seq(Frames) /\ Keys(lru) = {} /\ NoRepeats(lru)
  BY <1>1, EmptySeq DEF Keys, NoRepeats
<1>8. PoolConsistent
  BY <1>1, <1>2, <1>4, <1>7
     DEF PoolConsistent, TablesAgree, FreeFrames, RecencyMatches, DirtyIsMapped
<1>9. DiskOK(dm)
  BY <1>1, NewDiskOK
<1>10. CleanMatchesDisk
  BY <1>2 DEF CleanMatchesDisk
<1>11. TypeOK
  BY <1>1, <1>2, <1>4, <1>7, <1>9, PoolConstants DEF TypeOK, DiskOK
<1> QED BY <1>8, <1>9, <1>10, <1>11 DEF IInv, BInv, DirectoryOrderly, DiskOK

-----------------------------------------------------------------------------
(* The theorems. *)

\* Every call of the pool, every step of its destructor, a restart and a crash
\* keep the invariant.
LEMMA NextKeepsInv == IInv /\ [Next]_vars => IInv'
<1> SUFFICES ASSUME IInv, [Next]_vars PROVE IInv'
  OBVIOUS
<1>1. BInv /\ \A S : CleanFor(S)
  BY CleanForPages
<1>2. ASSUME NEW id \in Pages,
             \/ FetchMiss(id)
             \/ \E x \in Data : UpdateMiss(id, x)
      PROVE  IInv'
  <2>1. BInv' /\ CleanFor(Pages \cup {id})' /\ Pages' = Pages
    <3> PICK S : S = Pages
      OBVIOUS
    <3>1. BInv' /\ CleanFor(S \cup {id})'
      BY <1>1, <1>2, FetchMissStep, UpdateMissStep
    <3>2. Pages' = Pages
      BY <1>1, <1>2, VictimWrittenBack DEF FetchMiss, UpdateMiss, Pages
    <3> QED BY <3>1, <3>2
  <2> QED BY <2>1, IInvAfter
<1>3. ASSUME NEW id \in Pages,
             \/ FetchHit(id)
             \/ UnpinDirty(id)
             \/ DeletePooled(id)
             \/ \E x \in Data : UpdateHit(id, x)
      PROVE  IInv'
  <2> PICK S : S = Pages
    OBVIOUS
  <2>1. BInv' /\ CleanFor(S)'
    BY <1>1, <1>3, FetchHitStep, UnpinDirtyStep, DeletePooledStep, UpdateHitStep
  <2>2. Pages' = Pages
    BY <1>1, <1>3, DeletePooledStep DEF FetchHit, UnpinDirty, UpdateHit, Pages
  <2> QED BY <2>1, <2>2, IInvAfter
<1>4. CASE NewPage
  <2> PICK S, n : S = Pages /\ n = AllocatePage(WrittenBack(TakenFrame)).slot
    OBVIOUS
  <2>1. BInv' /\ Pages' = S \cup {n} /\ CleanFor(S \cup {n})'
    BY <1>1, <1>4, NewPageStep
  <2> QED BY <2>1, IInvAfter
<1>5. CASE StartClose
  BY <1>5, StartCloseStep
<1>6. CASE FlushFrame
  BY <1>6, FlushFrameStep
<1>7. CASE Reopen
  BY <1>7, ReopenStep
<1>8. CASE Crash
  BY <1>8, CrashStep
<1>9. CASE UNCHANGED vars
  <2>1. UNCHANGED <<dm, frames, page_table, pages_ids, is_dirty, free_frames_ids,
                    lru, closing>>
    BY <1>9 DEF vars, poolVars
  <2>2. Pages' = Pages /\ Pooled' = Pooled /\ Mapped' = Mapped
    BY <2>1 DEF Pages, Pooled, Mapped
  <2>3. TypeOK' /\ DirectoryOrderly' /\ CleanMatchesDisk'
    BY <2>1, <2>2 DEF IInv, BInv, TypeOK, DirectoryOrderly, CleanMatchesDisk
  <2>4. PoolConsistent'
    BY <2>1, <2>2 DEF IInv, BInv, PoolConsistent, TablesAgree, FreeFrames,
                      RecencyMatches, DirtyIsMapped
  <2> QED BY <2>3, <2>4 DEF IInv, BInv
<1> QED BY <1>2, <1>3, <1>4, <1>5, <1>6, <1>7, <1>8, <1>9 DEF Next

\* The inductive invariant holds in every reachable state.
THEOREM InvariantHolds == Spec => []IInv
  BY InitInv, NextKeepsInv, PTL DEF Spec

\* Type correctness of the pool and its disk.
THEOREM TypeCorrect == Spec => []TypeOK
<1>1. IInv => TypeOK
  BY DEF IInv, BInv
<1> QED BY <1>1, InvariantHolds, PTL

\* After every call page_table and pages_ids are inverse, the free stack and
\* the recency order split the frames between them, and no free frame is dirty.
THEOREM PoolStaysConsistent == Spec => []PoolConsistent
<1>1. IInv => PoolConsistent
  BY DEF IInv, BInv
<1> QED BY <1>1, InvariantHolds, PTL

\* Page ids stay consecutive and equal to their slots, through resizes, clean
\* restarts and crashes.
THEOREM DirectoryStaysOrderly == Spec => []DirectoryOrderly
<1>1. IInv => DirectoryOrderly
  BY DEF IInv, BInv
<1> QED BY <1>1, InvariantHolds, PTL

\* A clean frame, or one the destructor has passed, equals its slot in the
\* file: evicting it without a write loses nothing.
THEOREM CleanFramesMatch == Spec => []CleanMatchesDisk
<1>1. IInv => CleanMatchesDisk
  BY DEF IInv, BInv
<1> QED BY <1>1, InvariantHolds, PTL
-----------------------------------------------------------------------------
(* The page store.  The refinement mapping takes the content of a page from  *)
(* its frame, or from the file when it is not pooled.                        *)

\* Each page's content, and what the file has of it, is a content it has had
\* since the last restart: why a crash may only bring back such a content.
VersionsKept ==
    /\ DOMAIN versions = Pages
    /\ \A id \in Pages : Visible(id) \in versions[id] /\ dm.file[id] \in versions[id]

LEMMA VisibleKnown ==
    ASSUME BInv, NEW id \in Pages
    PROVE  /\ id \in Pooled => Visible(id) = frames[page_table[id]]
           /\ id \notin Pooled => Visible(id) = dm.file[id]
  BY InvParts, ReadKnown DEF Visible, Pages

\* A miss leaves the pages of S as they were but the one it brings in.
LEMMA MissVisible ==
    ASSUME BInv, BInv', NEW S \in SUBSET Pages, CleanFor(S),
           closing = -1, NEW id \in Nat, id \notin Pooled,
           Pages \subseteq Pages', id \in Pages',
           \A i \in Pages : dm'.file[i] = WrittenBack(TakenFrame).file[i],
           Install(TakenFrame, id),
           NEW x, frames' = [frames EXCEPT ![TakenFrame] = x],
           NEW b \in BOOLEAN, is_dirty' = [is_dirty EXCEPT ![TakenFrame] = b]
    PROVE  /\ Visible(id)' = x
           /\ \A i \in S \ {id} : Visible(i)' = Visible(i)
           /\ \A i \in S : dm'.file[i] \in {dm.file[i], Visible(i)}
<1> DEFINE f == TakenFrame
<1>1. /\ frames \in [Frames -> Contents \cup {NoPage}]
      /\ is_dirty \in [Frames -> BOOLEAN]
      /\ f \in Frames
      /\ Evicts => f \in Mapped
      /\ ~Evicts => f \notin Mapped
  BY TakenFrameKind DEF BInv, TypeOK
<1>2. /\ is_dirty' \in [Frames -> BOOLEAN]
      /\ \A g \in Frames \ {f} : is_dirty'[g] = is_dirty[g]
  BY <1>1
<1>3. frames'[f] = x /\ \A g \in Frames \ {f} : frames'[g] = frames[g]
  BY <1>1
<1>4. /\ pages_ids' = [pages_ids EXCEPT ![f] = id]
      /\ Pooled' = (Pooled \ {pages_ids[f]}) \cup {id}
      /\ page_table'[id] = f
      /\ \A p \in Pooled' \ {id} : p \in Pooled /\ page_table'[p] = page_table[p]
  BY <1>2, InstallTables
<1>5. pages_ids \in [Frames -> Nat \cup {-1}] /\ pages_ids'[f] = id
  BY <1>1, <1>4 DEF BInv, TypeOK
<1>6. DiskOK(dm')
  BY DEF BInv, TypeOK, DirectoryOrderly, DiskOK
<1> HIDE DEF f
<1>7. ASSUME NEW i \in S PROVE dm'.file[i] \in {dm.file[i], Visible(i)}
  <2>1. CASE Evicts /\ i = pages_ids[f]
    <3>1. i \in Pooled /\ page_table[i] = f
      BY <1>1, <2>1, MappedFrame
    <3> QED BY <2>1, <3>1, VictimSaved, VisibleKnown DEF f
  <2>2. CASE ~(Evicts /\ i = pages_ids[f])
    BY <2>2, VictimWrittenBack DEF f
  <2> QED BY <2>1, <2>2
<1>8. Visible(id)' = x
  BY <1>3, <1>4 DEF Visible
<1>9. ASSUME NEW i \in S, i # id PROVE Visible(i)' = Visible(i)
  <2>1. CASE i \in Pooled'
    <3>1. i \in Pooled /\ page_table'[i] = page_table[i]
      BY <1>4, <1>9, <2>1
    <3>2. page_table[i] \in Frames /\ page_table[i] # f
      <4>1. pages_ids'[page_table'[i]] = i
        BY <2>1 DEF BInv, PoolConsistent, TablesAgree
      <4>2. page_table[i] \in Mapped
        BY <3>1, PooledPage
      <4> QED BY <1>5, <1>9, <3>1, <4>1, <4>2, MappedFrame
    <3> QED BY <1>3, <2>1, <3>1, <3>2 DEF Visible
  <2>2. CASE i \notin Pooled'
    <3>1. Visible(i)' = dm'.file[i]
      BY <1>6, <2>2, ReadKnown DEF Visible, Pages
    <3>2. CASE i \in Pooled
      <4>1. i = pages_ids[f] /\ i # -1
        BY <1>4, <2>2, <3>2, PooledPage
      <4>2. f \in Mapped /\ Evicts /\ page_table[i] = f
        BY <1>1, <4>1, MappedFrame DEF Mapped
      <4> QED BY <3>1, <3>2, <4>1, <4>2, VictimSaved, VisibleKnown DEF f
    <3>3. CASE i \notin Pooled
      <4>1. Evicts => i # pages_ids[f]
        BY <1>1, <3>3, MappedFrame
      <4> QED BY <3>1, <3>3, <4>1, VictimWrittenBack, VisibleKnown DEF f
    <3> QED BY <3>2, <3>3
  <2> QED BY <2>1, <2>2
<1> QED BY <1>7, <1>8, <1>9

\* A step on a pooled page whose frame gets the content x.
LEMMA HitVisible ==
    ASSUME BInv, NEW id \in Pooled, UNCHANGED <<dm, page_table>>,
           NEW x, frames' = [frames EXCEPT ![page_table[id]] = x]
    PROVE  /\ Pages' = Pages
           /\ Visible(id)' = x
           /\ \A i \in Pages \ {id} : Visible(i)' = Visible(i)
<1>1. frames \in [Frames -> Contents \cup {NoPage}]
  BY DEF BInv, TypeOK
<1>2. \A i \in Pooled : page_table[i] \in Frames /\ pages_ids[page_table[i]] = i
  BY PooledPage, MappedFrame
<1>3. Pages' = Pages /\ Pooled' = Pooled
  BY DEF Pages, Pooled
<1>4. Visible(id)' = x
  BY <1>1, <1>2, <1>3 DEF Visible
<1>5. ASSUME NEW i \in Pages \ {id} PROVE Visible(i)' = Visible(i)
  <2>1. CASE i \in Pooled
    <3>1. page_table[i] # page_table[id]
      BY <1>2, <2>1
    <3> QED BY <1>1, <1>2, <1>3, <2>1, <3>1 DEF Visible
  <2>2. CASE i \notin Pooled
    BY <1>3, <2>2 DEF Visible
  <2> QED BY <2>1, <2>2
<1> QED BY <1>3, <1>4, <1>5

-----------------------------------------------------------------------------
\* What the steps of the pool are in the page store.
SavedKept == DOMAIN dm'.saved.pages_table = DOMAIN dm.saved.pages_table
FileFollows == \A i \in Pages : dm'.file[i] \in {dm.file[i], Visible(i)}

\* A step that no caller sees.
LEMMA StutterMaps ==
    ASSUME VersionsKept, Pages' = Pages, SavedKept, FileFollows,
           \A i \in Pages : Visible(i)' = Visible(i), versions' = versions
    PROVE  VersionsKept' /\ UNCHANGED Store!vars
<1>1. VersionsKept'
  BY DEF VersionsKept, FileFollows
<1>2. [i \in Pages |-> Visible(i)]' = [i \in Pages |-> Visible(i)]
  OBVIOUS
<1> QED BY <1>1, <1>2 DEF Store!vars, SavedKept

\* A step that gives page id the content x.
LEMMA WriteMaps ==
    ASSUME VersionsKept, Pages' = Pages, SavedKept, FileFollows,
           NEW id \in Pages, NEW x \in Data, Visible(id)' = x,
           \A i \in Pages \ {id} : Visible(i)' = Visible(i),
           versions' = [versions EXCEPT ![id] = @ \cup {x}]
    PROVE  VersionsKept' /\ Store!Write(id, x)
<1>1. /\ DOMAIN versions' = Pages /\ versions'[id] = versions[id] \cup {x}
      /\ \A i \in Pages \ {id} : versions'[i] = versions[i]
  BY DEF VersionsKept
<1>2. VersionsKept'
  <2> SUFFICES ASSUME NEW i \in Pages
               PROVE  Visible(i)' \in versions'[i] /\ dm'.file[i] \in versions'[i]
    BY <1>1 DEF VersionsKept
  <2>1. CASE i = id
    BY <1>1, <2>1 DEF VersionsKept, FileFollows
  <2>2. CASE i # id
    BY <1>1, <2>2 DEF VersionsKept, FileFollows
  <2> QED BY <2>1, <2>2
<1> DEFINE p == [i \in Pages |-> Visible(i)]
<1>3. DOMAIN p = Pages
  OBVIOUS
<1>4. p' = [p EXCEPT ![id] = x]
  OBVIOUS
<1>5. Store!Write(id, x)
  BY <1>3, <1>4 DEF Store!Write, SavedKept
<1> QED BY <1>2, <1>5

LEMMA FetchMissMaps ==
    ASSUME IInv, IInv', VersionsKept, NEW id \in Pages, FetchMiss(id)
    PROVE  VersionsKept' /\ UNCHANGED Store!vars
<1> DEFINE f == TakenFrame
<1>1. /\ closing = -1 /\ id \notin Pooled /\ dm' = WrittenBack(f)
      /\ frames' = [frames EXCEPT ![f] = ReadPage(dm', id, frames[f])]
      /\ is_dirty' = [is_dirty EXCEPT ![f] = FALSE]
      /\ Install(f, id) /\ versions' = versions
  BY DEF FetchMiss
<1>2. DiskOK(dm') /\ Pages' = Pages /\ id \in Nat /\ SavedKept
  BY <1>1, VictimWrittenBack, InvParts, ReadKnown DEF Pages, SavedKept, IInv
<1>3. ReadPage(dm', id, frames[f]) = dm'.file[id]
  BY <1>2, ReadKnown DEF Pages
<1>4. /\ Visible(id)' = dm'.file[id]
      /\ \A i \in Pages \ {id} : Visible(i)' = Visible(i)
      /\ FileFollows
  <2> PICK S : S = Pages /\ CleanFor(S)
    BY CleanForPages
  <2> QED BY <1>1, <1>2, <1>3, MissVisible, CleanForPages DEF FileFollows, IInv
<1>5. dm'.file[id] = dm.file[id]
  <2>1. Evicts => id # pages_ids[f]
    BY <1>1, TakenFrameKind, MappedFrame DEF IInv
  <2> QED BY <1>1, <2>1, VictimWrittenBack DEF IInv
<1>6. Visible(id) = dm.file[id]
  BY <1>1, VisibleKnown DEF IInv
<1>7. \A i \in Pages : Visible(i)' = Visible(i)
  BY <1>4, <1>5, <1>6
<1> QED BY <1>1, <1>2, <1>4, <1>7, StutterMaps

LEMMA UpdateMissMaps ==
    ASSUME IInv, IInv', VersionsKept, NEW id \in Pages, NEW x \in Data,
           UpdateMiss(id, x)
    PROVE  VersionsKept' /\ Store!Write(id, x)
<1> DEFINE f == TakenFrame
<1>1. /\ closing = -1 /\ id \notin Pooled /\ dm' = WrittenBack(f)
      /\ frames' = [frames EXCEPT ![f] = x]
      /\ is_dirty' = [is_dirty EXCEPT ![f] = TRUE]
      /\ Install(f, id)
      /\ versions' = [versions EXCEPT ![id] = @ \cup {x}]
  BY DEF UpdateMiss
<1>2. DiskOK(dm') /\ Pages' = Pages /\ id \in Nat /\ SavedKept
  BY <1>1, VictimWrittenBack, InvParts, ReadKnown DEF Pages, SavedKept, IInv
<1>3. /\ Visible(id)' = x /\ \A i \in Pages \ {id} : Visible(i)' = Visible(i)
      /\ FileFollows
  <2> PICK S : S = Pages /\ CleanFor(S)
    BY CleanForPages
  <2> QED BY <1>1, <1>2, MissVisible, CleanForPages DEF FileFollows, IInv
<1> QED BY <1>1, <1>2, <1>3, WriteMaps

LEMMA NewPageMaps ==
    ASSUME IInv, IInv', VersionsKept, NewPage
    PROVE  VersionsKept' /\ \E id \in 1 .. MaxPages : Store!Alloc(id)
<1> DEFINE f == TakenFrame
           a == AllocatePage(WrittenBack(f))
<1> PICK n : n = a.slot
  OBVIOUS
<1>1. /\ closing = -1 /\ Cardinality(Pages) < MaxPages
      /\ dm' = a.disk
      /\ frames' = [frames EXCEPT ![f] = ReadPage(dm', n, frames[f])]
      /\ is_dirty' = [is_dirty EXCEPT ![f] = FALSE]
      /\ Install(f, n)
      /\ versions' = Put(versions, n, {Blank})
  BY DEF NewPage
<1>2. /\ DiskOK(WrittenBack(f)) /\ DOMAIN WrittenBack(f).pages_table = Pages
      /\ WrittenBack(f).saved = dm.saved
  BY <1>1, VictimWrittenBack DEF Pages, IInv
<1>3. /\ DiskOK(dm') /\ n \in Nat /\ n \notin Pages /\ Pages' = Pages \cup {n}
      /\ SavedKept /\ dm'.file[n] = Blank
      /\ \A i \in Pages : dm'.file[i] = WrittenBack(f).file[i]
  BY <1>1, <1>2, AllocateNext DEF Pages, SavedKept
<1> HIDE DEF f, a
<1>4. n \notin Pooled
  BY <1>3, PooledPage DEF IInv
<1>5. ReadPage(dm', n, frames[f]) = Blank
  BY <1>3, ReadKnown DEF Pages
<1>6. /\ Visible(n)' = Blank
      /\ \A i \in Pages : Visible(i)' = Visible(i)
      /\ FileFollows
  <2> PICK S : S = Pages /\ CleanFor(S)
    BY CleanForPages
  <2>1. BInv /\ BInv'
    BY DEF IInv
  <2>2. /\ frames' = [frames EXCEPT ![f] = Blank]
        /\ is_dirty' = [is_dirty EXCEPT ![f] = FALSE]
        /\ Install(f, n) /\ closing = -1
    BY <1>1, <1>5 DEF f
  <2>3. /\ Visible(n)' = Blank /\ \A i \in S \ {n} : Visible(i)' = Visible(i)
        /\ \A i \in S : dm'.file[i] \in {dm.file[i], Visible(i)}
    BY <1>3, <1>4, <2>1, <2>2, MissVisible DEF f
  <2> QED BY <1>3, <2>3 DEF FileFollows
<1>7. /\ DOMAIN versions' = Pages' /\ versions'[n] = {Blank}
      /\ \A i \in Pages : versions'[i] = versions[i]
  BY <1>1, <1>3 DEF VersionsKept, Put
<1>8. VersionsKept'
  BY <1>3, <1>6, <1>7 DEF VersionsKept, FileFollows
<1>9. n \in 1 .. MaxPages
  <2>1. PICK m \in 0 .. MaxPages : DOMAIN dm'.pages_table = 1 .. m
    BY <1>3, DirectorySize
  <2> QED BY <1>3, <2>1, PoolConstants DEF Pages
<1> DEFINE p == [i \in Pages |-> Visible(i)]
<1>10. DOMAIN p = Pages
  OBVIOUS
<1>11. p' = [i \in Pages \cup {n} |-> IF i = n THEN Blank ELSE p[i]]
  BY <1>3, <1>6
<1>12. versions' = [i \in Pages \cup {n} |-> IF i = n THEN {Blank} ELSE versions[i]]
  BY <1>1 DEF VersionsKept, Put
<1> HIDE DEF p
<1>13. Store!Alloc(n)
  BY <1>3, <1>10, <1>11, <1>12 DEF Store!Alloc, SavedKept, p
<1> QED BY <1>8, <1>9, <1>13

LEMMA HitMaps ==
    ASSUME IInv, VersionsKept, NEW id \in Pooled
    PROVE  /\ FetchHit(id) \/ UnpinDirty(id) =>
                  VersionsKept' /\ UNCHANGED Store!vars
           /\ \A x \in Data : UpdateHit(id, x) => VersionsKept' /\ Store!Write(id, x)
<1>1. id \in Pages
  BY PooledPage DEF IInv
<1>2. ASSUME UNCHANGED dm PROVE SavedKept /\ FileFollows
  BY <1>2 DEF SavedKept, FileFollows
<1>3. ASSUME FetchHit(id) \/ UnpinDirty(id)
      PROVE  VersionsKept' /\ UNCHANGED Store!vars
  <2>1. UNCHANGED <<dm, frames, page_table, versions>>
    BY <1>3 DEF FetchHit, UnpinDirty
  <2>2. Pages' = Pages /\ \A i \in Pages : Visible(i)' = Visible(i)
    BY <2>1 DEF Pages, Visible, Pooled
  <2> QED BY <1>2, <2>1, <2>2, StutterMaps
<1>4. ASSUME NEW x \in Data, UpdateHit(id, x)
      PROVE  VersionsKept' /\ Store!Write(id, x)
  <2>1. /\ UNCHANGED <<dm, page_table>>
        /\ frames' = [frames EXCEPT ![page_table[id]] = x]
        /\ versions' = [versions EXCEPT ![id] = @ \cup {x}]
    BY <1>4 DEF UpdateHit
  <2>2. /\ Pages' = Pages /\ Visible(id)' = x
        /\ \A i \in Pages \ {id} : Visible(i)' = Visible(i)
    BY <2>1, HitVisible DEF IInv
  <2> QED BY <1>1, <1>2, <2>1, <2>2, WriteMaps
<1> QED BY <1>3, <1>4

\* deletePage writes the frame back before it gives it up.
LEMMA DeletePooledMaps ==
    ASSUME IInv, VersionsKept, NEW id \in Pages, DeletePooled(id)
    PROVE  VersionsKept' /\ UNCHANGED Store!vars
<1> DEFINE f == page_table[id]
<1>1. /\ id \in Pooled /\ closing = -1
      /\ dm' = IF is_dirty[f] THEN WritePage(dm, id, frames[f]) ELSE dm
      /\ page_table' = Erase(page_table, id)
      /\ UNCHANGED <<frames, versions>>
  BY DEF DeletePooled
<1>2. f \in Mapped /\ pages_ids[f] = id
  BY <1>1, PooledPage DEF IInv
<1>3. /\ DiskOK(dm') /\ dm'.pages_table = dm.pages_table /\ dm'.saved = dm.saved
      /\ dm'.file[id] = frames[f]
      /\ \A i \in Pages \ {id} : dm'.file[i] = dm.file[i]
  <2>1. CASE is_dirty[f]
    BY <1>1, <1>2, <2>1, FrameWrittenBack DEF IInv
  <2>2. CASE ~is_dirty[f]
    <3>1. frames[f] = ReadPage(dm, id, NoPage)
      BY <1>2, <2>2 DEF IInv, CleanMatchesDisk
    <3> QED BY <1>1, <2>2, <3>1, InvParts, ReadKnown DEF Pages, IInv
  <2> QED BY <2>1, <2>2
<1>4. Pages' = Pages /\ SavedKept
  BY <1>3 DEF Pages, SavedKept
<1>5. Pooled' = Pooled \ {id} /\ \A i \in Pooled' : page_table'[i] = page_table[i]
  BY <1>1 DEF Pooled, Erase
<1> HIDE DEF f
<1>6. Visible(id) = frames[f]
  BY <1>1, VisibleKnown DEF f, IInv
<1>7. FileFollows
  BY <1>3, <1>6 DEF FileFollows
<1>8. ASSUME NEW i \in Pages PROVE Visible(i)' = Visible(i)
  <2>1. CASE i \in Pooled'
    BY <1>1, <1>5, <2>1 DEF Visible
  <2>2. CASE i \notin Pooled'
    <3>1. Visible(i)' = dm'.file[i]
      BY <1>3, <1>4, <2>2, ReadKnown DEF Visible, Pages
    <3> QED BY <1>3, <1>5, <1>6, <2>2, <3>1, VisibleKnown DEF IInv
  <2> QED BY <2>1, <2>2
<1> QED BY <1>1, <1>4, <1>7, <1>8, StutterMaps

\* Nor does a caller see the steps of the destructor.
LEMMA CloseMaps ==
    ASSUME IInv, VersionsKept, StartClose \/ FlushFrame
    PROVE  VersionsKept' /\ UNCHANGED Store!vars
<1> DEFINE c == closing
<1>1. UNCHANGED <<frames, page_table, pages_ids, versions>>
  BY DEF StartClose, FlushFrame, poolVars
<1>2. \/ dm' = dm
      \/ (c \in Mapped /\ dm' = WritePage(dm, pages_ids[c], frames[c]))
  BY DEF StartClose, FlushFrame, Mapped
<1>3. /\ DiskOK(dm') /\ dm'.pages_table = dm.pages_table /\ dm'.saved = dm.saved
      /\ \A i \in Pages : \/ dm'.file[i] = dm.file[i]
                          \/ i \in Pooled /\ dm'.file[i] = Visible(i)
  <2>1. CASE dm' = dm
    BY <2>1, InvParts DEF IInv
  <2>2. CASE c \in Mapped /\ dm' = WritePage(dm, pages_ids[c], frames[c])
    <3>1. /\ pages_ids[c] \in Pages /\ pages_ids[c] \in Pooled
          /\ Visible(pages_ids[c]) = frames[c]
      BY <2>2, MappedFrame, VisibleKnown DEF IInv
    <3> QED BY <2>2, <3>1, FrameWrittenBack DEF IInv
  <2> QED BY <1>2, <2>1, <2>2
<1>4. Pages' = Pages /\ Pooled' = Pooled /\ SavedKept /\ FileFollows
  BY <1>1, <1>3 DEF Pages, Pooled, SavedKept, FileFollows
<1>5. ASSUME NEW i \in Pages PROVE Visible(i)' = Visible(i)
  <2>1. CASE i \in Pooled
    BY <1>1, <1>4, <2>1 DEF Visible
  <2>2. CASE i \notin Pooled
    <3>1. Visible(i)' = dm'.file[i]
      BY <1>3, <1>4, <2>2, ReadKnown DEF Visible, Pages
    <3> QED BY <1>3, <2>2, <3>1, VisibleKnown DEF IInv
  <2> QED BY <2>1, <2>2
<1> QED BY <1>1, <1>4, <1>5, StutterMaps

\* The destructor has passed every frame: the file holds what callers saw.
LEMMA ReopenMaps ==
    ASSUME IInv, VersionsKept, Reopen
    PROVE  VersionsKept' /\ Store!Next
<1>1. PICK saved \in SavedMetadata(dm) :
          dm' = LoadMetaData(saved, dm.file, saved.pages_table, <<>>)
  BY DEF Reopen
<1>2. /\ closing = BUFFER_SIZE
      /\ versions' = [id \in Pages |-> {ReadPage(dm, id, NoPage)}]
      /\ page_table' = [p \in {} |-> 0]
  BY DEF Reopen, EmptyPool
<1>3. saved = Metadata(dm)
  BY <1>1, InvParts, SavedInFull DEF IInv
<1>4. /\ dm'.pages_table = dm.pages_table /\ dm'.file = dm.file
      /\ dm'.saved.pages_table = dm.pages_table
  BY <1>1, <1>3 DEF LoadMetaData, Metadata
<1>5. Pages' = Pages /\ Pooled' = {}
  BY <1>2, <1>4 DEF Pages, Pooled
<1>6. ASSUME NEW i \in Pages
      PROVE  Visible(i) = dm.file[i] /\ ReadPage(dm, i, NoPage) = dm.file[i]
  <2>1. ReadPage(dm, i, NoPage) = dm.file[i]
    BY InvParts, ReadKnown DEF Pages, IInv
  <2>2. CASE i \in Pooled
    <3>1. page_table[i] \in Mapped /\ pages_ids[page_table[i]] = i
      BY <2>2, PooledPage DEF IInv
    <3>2. page_table[i] < closing
      BY <1>2, <3>1, PoolConstants DEF Mapped, Frames
    <3> QED BY <2>1, <2>2, <3>1, <3>2, VisibleKnown DEF IInv, CleanMatchesDisk
  <2> QED BY <2>1, <2>2, VisibleKnown DEF IInv
<1>7. ASSUME NEW i \in Pages PROVE Visible(i)' = dm.file[i]
  <2>1. ReadPage(dm', i, NoPage) = ReadPage(dm, i, NoPage)
    BY <1>4 DEF ReadPage
  <2> QED BY <1>5, <1>6, <2>1 DEF Visible
<1>8. VersionsKept'
  BY <1>2, <1>4, <1>5, <1>6, <1>7 DEF VersionsKept
<1> DEFINE p == [i \in Pages |-> Visible(i)]
<1>9. p' = p /\ DOMAIN p = Pages
  BY <1>5, <1>6, <1>7
<1>10. versions' = [i \in Pages |-> {p[i]}]
  BY <1>2, <1>6
<1>11. DOMAIN dm'.saved.pages_table = Pages
  BY <1>4 DEF Pages
<1> HIDE DEF p
<1>12. Store!CleanRestart
  BY <1>9, <1>10, <1>11 DEF Store!CleanRestart, p
<1> QED BY <1>8, <1>12 DEF Store!Next

\* A crash brings back the saved directory over the file as it is.
LEMMA CrashMaps ==
    ASSUME IInv, VersionsKept, Crash
    PROVE  VersionsKept' /\ Store!Next
<1>1. /\ dm' = LoadMetaData(dm.saved, dm.file, dm.saved.pages_table, <<>>)
      /\ versions' = [id \in DOMAIN dm.saved.pages_table |->
                          {ReadPage(dm', id, NoPage)}]
      /\ page_table' = [p \in {} |-> 0]
  BY DEF Crash, EmptyPool
<1>2. /\ dm'.pages_table = dm.saved.pages_table /\ dm'.file = dm.file
      /\ dm'.saved = dm.saved
  BY <1>1 DEF LoadMetaData
<1>3. DiskOK(dm')
  BY <1>1, InvParts, LoadSaved DEF IInv
<1>4. /\ Pages' = DOMAIN dm.saved.pages_table /\ Pooled' = {}
      /\ DOMAIN dm.saved.pages_table \subseteq Pages
  BY <1>1, <1>2, InvParts DEF Pages, Pooled, DiskOK, Orderly, IInv
<1>5. ASSUME NEW i \in Pages'
      PROVE  Visible(i)' = dm.file[i] /\ ReadPage(dm', i, NoPage) = dm.file[i]
  BY <1>2, <1>3, <1>4, ReadKnown DEF Visible, Pages
<1>6. VersionsKept'
  BY <1>1, <1>2, <1>4, <1>5 DEF VersionsKept
<1> DEFINE p == [i \in Pages |-> Visible(i)]
<1>7. DOMAIN p' = DOMAIN dm.saved.pages_table
  BY <1>4
<1>8. \A i \in DOMAIN dm.saved.pages_table : p'[i] = dm.file[i]
  BY <1>4, <1>5
<1>9. \A i \in DOMAIN dm.saved.pages_table : dm.file[i] \in versions[i]
  BY <1>4 DEF VersionsKept
<1>10. versions' = [i \in DOMAIN dm.saved.pages_table |-> {p'[i]}]
  BY <1>1, <1>4, <1>5, <1>8
<1> HIDE DEF p
<1>11. Store!Crash
  BY <1>2, <1>7, <1>8, <1>9, <1>10 DEF Store!Crash, p
<1> QED BY <1>6, <1>11 DEF Store!Next

LEMMA InitMaps == Init => VersionsKept /\ Store!Init
<1> SUFFICES ASSUME Init PROVE VersionsKept /\ Store!Init
  OBVIOUS
<1>1. /\ dm.pages_table = [i \in {} |-> 0] /\ dm.saved.pages_table = [i \in {} |-> 0]
      /\ versions = [id \in {} |-> {}]
  BY DEF Init, NewDisk, LoadMetaData
<1>2. Pages = {}
  BY <1>1 DEF Pages
<1>3. [id \in Pages |-> Visible(id)] = [id \in {} |-> Blank]
  BY <1>2
<1> QED BY <1>1, <1>2, <1>3 DEF VersionsKept, Store!Init

\* Every step of the pool is a step of the page store, or none that a caller sees.
LEMMA NextMaps ==
    IInv /\ IInv' /\ VersionsKept /\ [Next]_vars => VersionsKept' /\ [Store!Next]_Store!vars
<1> SUFFICES ASSUME IInv, IInv', VersionsKept, [Next]_vars
             PROVE  VersionsKept' /\ (Store!Next \/ UNCHANGED Store!vars)
  OBVIOUS
<1>1. ASSUME NEW id \in Pages, FetchHit(id) \/ UnpinDirty(id)
      PROVE  VersionsKept' /\ UNCHANGED Store!vars
  BY <1>1, HitMaps DEF FetchHit, UnpinDirty
<1>2. ASSUME NEW id \in Pages, NEW x \in Data, UpdateHit(id, x)
      PROVE  VersionsKept' /\ Store!Write(id, x)
  BY <1>2, HitMaps DEF UpdateHit
<1>3. ASSUME NEW id \in Pages, FetchMiss(id)
      PROVE  VersionsKept' /\ UNCHANGED Store!vars
  BY <1>3, FetchMissMaps
<1>4. ASSUME NEW id \in Pages, NEW x \in Data, UpdateMiss(id, x)
      PROVE  VersionsKept' /\ Store!Write(id, x)
  BY <1>4, UpdateMissMaps
<1>5. ASSUME NEW id \in Pages, DeletePooled(id)
      PROVE  VersionsKept' /\ UNCHANGED Store!vars
  BY <1>5, DeletePooledMaps
<1>6. ASSUME NewPage PROVE VersionsKept' /\ \E id \in 1 .. MaxPages : Store!Alloc(id)
  BY <1>6, NewPageMaps
<1>7. CASE StartClose \/ FlushFrame
  BY <1>7, CloseMaps
<1>8. CASE Reopen
  BY <1>8, ReopenMaps
<1>9. CASE Crash
  BY <1>9, CrashMaps
<1>10. CASE UNCHANGED vars
  <2>1. UNCHANGED <<dm, frames, page_table, versions>>
    BY <1>10 DEF vars, poolVars
  <2>2. /\ Pages' = Pages /\ SavedKept /\ FileFollows
        /\ \A i \in Pages : Visible(i)' = Visible(i)
    BY <2>1 DEF Pages, SavedKept, FileFollows, Visible, Pooled
  <2> QED BY <2>1, <2>2, StutterMaps
<1>11. \A id \in Pages : id \in DOMAIN [i \in Pages |-> Visible(i)]
  OBVIOUS
<1> QED BY <1>1, <1>2, <1>3, <1>4, <1>5, <1>6, <1>7, <1>8, <1>9, <1>10, <1>11
        DEF Next, Store!Next

\* The pool over the disk implements the page store.
THEOREM PageStoreImplemented == Spec => ImplementsPageStore
<1>1. Init => IInv /\ VersionsKept /\ Store!Init
  BY InitInv, InitMaps
<1>2. IInv /\ VersionsKept /\ [Next]_vars =>
          IInv' /\ VersionsKept' /\ [Store!Next]_Store!vars
  BY NextKeepsInv, NextMaps
<1> QED BY <1>1, <1>2, PTL DEF Spec, ImplementsPageStore, Store!Spec

-----------------------------------------------------------------------------
(* Callers that keep pointers: PoolClients. *)

\* While client c is within its window, the frame it was given holds the page
\* it fetched, and it has seen a touch of every page used more recently: the
\* recency order counts what others[c] counts.
Recent(c) == {pages_ids[g] : g \in {h \in Mapped : Before(lru, h, held[c].frame)}}

WindowKept(c) ==
    InWindow(c) => /\ held[c].page \in Pooled
                   /\ page_table[held[c].page] = held[c].frame
                   /\ Recent(c) \subseteq others[c]

ClientsTypeOK ==
    /\ held \in [Clients -> [page : 1 .. MaxPages, frame : Frames] \cup {NotHeld}]
    /\ others \in [Clients -> SUBSET (1 .. MaxPages)]
    /\ DOMAIN written \subseteq Pages

\* The invariant until a page that is not pooled is marked: the bookkeeping of
\* the pool, which no write through a pointer disturbs, and clean frames that
\* match the file for the pages that no write went astray on.
KInv == /\ BInv
        /\ closing = -1
        /\ ClientsTypeOK
        /\ CleanFor(DOMAIN written)
        /\ AstrayHurtsTwo
        /\ \A c \in Clients : WindowKept(c)

CInv == KInv \/ (Mismarked /\ WindowIsSafe /\ AstrayHurtsTwo)

\* A client in its window after a step was in it before, if its pointer is the
\* same and others grew.
LEMMA WindowShrinks ==
    ASSUME ClientsTypeOK, ClientsTypeOK', NEW c \in Clients, held'[c] = held[c],
           others[c] \subseteq others'[c], InWindow(c)'
    PROVE  InWindow(c)
<1>1. others'[c] \subseteq 1 .. MaxPages /\ others[c] \in SUBSET others'[c]
  BY DEF ClientsTypeOK
<1>2. IsFiniteSet(1 .. MaxPages)
  BY PoolConstants, FS_Interval
<1>3. IsFiniteSet(others'[c])
  BY <1>1, <1>2, FS_Subset
<1>4. /\ Cardinality(others[c]) <= Cardinality(others'[c])
      /\ Cardinality(others[c]) \in Nat /\ Cardinality(others'[c]) \in Nat
  BY <1>1, <1>3, FS_Subset, FS_CardinalityType
<1> QED BY <1>4, PoolConstants DEF InWindow

\* A set of other pages that covers all frames is no window.
LEMMA FullWindow ==
    ASSUME NEW f \in Frames, NEW id, id \notin Pooled, BInv, Frames \subseteq Mapped,
           NEW T \in SUBSET (1 .. MaxPages), id \in T,
           \A g \in Frames \ {f} : pages_ids[g] \in T
    PROVE  ~(Cardinality(T) < BUFFER_SIZE)
<1> DEFINE page == [g \in Frames |-> IF g = f THEN id ELSE pages_ids[g]]
<1>1. IsFiniteSet(T) /\ Cardinality(T) \in Nat
  <2>1. IsFiniteSet(1 .. MaxPages)
    BY PoolConstants, FS_Interval
  <2>2. IsFiniteSet(T)
    BY <2>1, FS_Subset
  <2> QED BY <2>2, FS_CardinalityType
<1>2. \A g \in Frames : pages_ids[g] \in Pooled /\ page_table[pages_ids[g]] = g
  BY MappedFrame
<1>3. page \in [Frames -> T]
  OBVIOUS
<1>4. \A g, h \in Frames : page[g] = page[h] => g = h
  BY <1>2
<1> HIDE DEF page
<1>5. page \in Injection(Frames, T)
  BY <1>3, <1>4 DEF Injection, IsInjective
<1>6. Cardinality(Frames) <= Cardinality(T)
  BY <1>1, <1>5, FS_Injection
<1> QED BY <1>1, <1>6, FramesFinite, PoolConstants

\* What a step that touches page id does to the recency order: the page is in
\* front, and the others follow in their order.
Touched(id) ==
    \A g, f : Before(lru', g, f) =>
        f # page_table'[id] /\ (g = page_table'[id] \/ Before(lru, g, f))

LEMMA HitTouches ==
    ASSUME BInv, NEW id \in Pooled, page_table' = page_table,
           lru' = GetFrame(lru, page_table[id])
    PROVE  Touched(id)
<1>1. page_table[id] \in Keys(lru) /\ lru \in Seq(Frames) /\ NoRepeats(lru)
  BY PooledPage DEF BInv, PoolConsistent, RecencyMatches, TypeOK
<1> QED BY <1>1, GetFrameOrder DEF Touched

LEMMA MissTouches ==
    ASSUME BInv, NEW id, Install(TakenFrame, id), page_table'[id] = TakenFrame
    PROVE  Touched(id)
<1> DEFINE f == TakenFrame
           l == IF Evicts THEN DropLast(lru) ELSE lru
<1>1. /\ Keys(lru) = Mapped /\ lru \in Seq(Frames) /\ NoRepeats(lru)
      /\ f \in Frames
      /\ Evicts => lru # <<>> /\ f = Victim(lru)
      /\ ~Evicts => f \notin Mapped
  BY TakenFrameKind DEF BInv, PoolConsistent, RecencyMatches, TypeOK
<1>2. /\ l \in Seq(Frames) /\ NoRepeats(l) /\ f \in Frames \ Keys(l)
      /\ \A g, h : Before(l, g, h) => Before(lru, g, h)
  <2>1. CASE Evicts
    BY <1>1, <2>1, DropLastKeys, DropLastOrder
  <2>2. CASE ~Evicts
    BY <1>1, <2>2
  <2> QED BY <2>1, <2>2
<1>3. lru' = PutFrame(l, f, BUFFER_SIZE)
  BY DEF Install
<1> HIDE DEF f, l
<1>4. \A g, h : Before(lru', g, h) => h # f /\ (g = f \/ Before(l, g, h))
  BY <1>2, <1>3, FramesFinite, PutFrameOrder
<1> QED BY <1>2, <1>4 DEF Touched, f

\* The tables after a miss that brings in page id.
LEMMA MissTables ==
    ASSUME BInv, NEW id,
           \/ id \in Pages /\ FetchMiss(id)
           \/ id \in Pages /\ \E x \in Data : UpdateMiss(id, x)
           \/ NewPage /\ id = NextId(dm)
    PROVE  /\ id \in 1 .. MaxPages /\ id \notin Pooled
           /\ Touched(id)
           /\ Mapped' = Mapped \cup {TakenFrame}
           /\ pages_ids' = [pages_ids EXCEPT ![TakenFrame] = id]
           /\ Pooled' = (Pooled \ {pages_ids[TakenFrame]}) \cup {id}
           /\ page_table'[id] = TakenFrame
           /\ \A p \in Pooled' \ {id} : page_table'[p] = page_table[p]
<1> DEFINE f == TakenFrame
           w == WrittenBack(f)
           a == AllocatePage(w)
<1>1. closing = -1
  BY DEF FetchMiss, UpdateMiss, NewPage
<1>2. /\ DiskOK(w) /\ w.pages_table = dm.pages_table
      /\ f \in Frames /\ is_dirty \in [Frames -> BOOLEAN]
  BY <1>1, VictimWrittenBack, TakenFrameKind DEF BInv, TypeOK
<1>3. /\ id \in 1 .. MaxPages /\ id \notin Pooled
      /\ Pages \subseteq Pages' /\ id \in Pages'
      /\ Install(f, id)
      /\ \E b \in BOOLEAN : is_dirty' = [is_dirty EXCEPT ![f] = b]
  <2>1. PICK n \in 0 .. MaxPages : Pages = 1 .. n /\ NextId(dm) = n + 1
                                   /\ Cardinality(Pages) = n
    BY InvParts, DirectorySize DEF Pages
  <2>2. CASE id \in Pages /\ (FetchMiss(id) \/ \E x \in Data : UpdateMiss(id, x))
    <3>1. dm' = w /\ id \notin Pooled /\ Install(f, id)
          /\ \E b \in BOOLEAN : is_dirty' = [is_dirty EXCEPT ![f] = b]
      BY <2>2 DEF FetchMiss, UpdateMiss
    <3>2. id \in 1 .. MaxPages
      BY <2>1, <2>2, PoolConstants
    <3>3. Pages' = Pages
      BY <1>2, <3>1 DEF Pages
    <3> QED BY <2>2, <3>1, <3>2, <3>3
  <2>3. CASE NewPage /\ id = NextId(dm)
    <3>1. /\ dm' = a.disk /\ Install(f, a.slot) /\ Cardinality(Pages) < MaxPages
          /\ \E b \in BOOLEAN : is_dirty' = [is_dirty EXCEPT ![f] = b]
      BY <2>3 DEF NewPage
    <3>2. a.slot = NextId(dm)
      BY <1>2 DEF AllocatePage, NextId, DiskOK, DiskType
    <3>3. Pages' = Pages \cup {id} /\ id \notin Pages
      BY <1>2, <2>3, <3>1, <3>2, AllocateNext DEF Pages
    <3>4. id \in 1 .. MaxPages
      BY <2>1, <2>3, <3>1, PoolConstants
    <3> QED BY <2>3, <3>1, <3>2, <3>3, <3>4, PooledPage
  <2> QED BY <2>2, <2>3
<1>4. /\ is_dirty' \in [Frames -> BOOLEAN]
      /\ \A g \in Frames \ {f} : is_dirty'[g] = is_dirty[g]
  BY <1>2, <1>3
<1>5. id \in Nat
  BY <1>3, PoolConstants
<1> HIDE DEF f
<1>6. /\ Mapped' = Mapped \cup {f}
      /\ pages_ids' = [pages_ids EXCEPT ![f] = id]
      /\ Pooled' = (Pooled \ {pages_ids[f]}) \cup {id}
      /\ page_table'[id] = f
      /\ \A p \in Pooled' \ {id} : p \in Pooled /\ page_table'[p] = page_table[p]
  BY <1>3, <1>4, <1>5, InstallTables DEF f
<1>7. Touched(id)
  BY <1>3, <1>6, MissTouches DEF f
<1> QED BY <1>3, <1>6, <1>7 DEF f

\* The steps that touch page id.
Touches(id) ==
    \/ id \in Pages /\ (FetchHit(id) \/ FetchMiss(id))
    \/ id \in Pages /\ \E x \in Data : UpdateHit(id, x) \/ UpdateMiss(id, x)
    \/ NewPage /\ id = NextId(dm)

LEMMA TouchTables ==
    ASSUME BInv, NEW id, Touches(id)
    PROVE  /\ id \in 1 .. MaxPages /\ Touched(id)
           /\ id \in Pooled' /\ page_table'[id] \in Frames
           /\ pages_ids'[page_table'[id]] = id
           /\ \A g \in Mapped' : g # page_table'[id] =>
                  g \in Mapped /\ pages_ids'[g] = pages_ids[g]
<1>1. pages_ids \in [Frames -> Nat \cup {-1}] /\ TakenFrame \in Frames
  BY TakenFrameKind DEF BInv, TypeOK
<1>2. CASE /\ id \in Pages
           /\ FetchHit(id) \/ \E x \in Data : UpdateHit(id, x)
  <2>1. /\ id \in Pooled /\ lru' = GetFrame(lru, page_table[id])
        /\ page_table' = page_table /\ pages_ids' = pages_ids
    BY <1>2 DEF FetchHit, UpdateHit
  <2>2. Touched(id)
    BY <2>1, HitTouches
  <2>3. id \in 1 .. MaxPages
    <3>1. PICK n \in 0 .. MaxPages : Pages = 1 .. n
      BY InvParts, DirectorySize DEF Pages
    <3> QED BY <1>2, <3>1, PoolConstants
  <2>4. page_table[id] \in Frames /\ pages_ids[page_table[id]] = id
    BY <2>1, PooledPage, MappedFrame
  <2> QED BY <2>1, <2>2, <2>3, <2>4 DEF Pooled, Mapped
<1>3. CASE \/ id \in Pages /\ FetchMiss(id)
           \/ id \in Pages /\ \E x \in Data : UpdateMiss(id, x)
           \/ NewPage /\ id = NextId(dm)
  BY <1>1, <1>3, MissTables DEF Mapped
<1> QED BY <1>2, <1>3 DEF Touches

\* Within its window, a client's page stays where it is.
LEMMA TouchKeepsPage ==
    ASSUME KInv, NEW id, Touches(id), NEW c \in Clients, InWindow(c),
           NEW T \in SUBSET (1 .. MaxPages), Cardinality(T) < BUFFER_SIZE,
           T = IF held[c].page = id THEN others[c] ELSE others[c] \cup {id}
    PROVE  /\ held[c].page \in Pooled'
           /\ page_table'[held[c].page] = page_table[held[c].page]
<1> DEFINE p == held[c].page
           f == TakenFrame
<1>1. /\ BInv /\ p \in Pooled /\ page_table[p] = held[c].frame
      /\ Recent(c) \subseteq others[c]
  BY DEF KInv, WindowKept
<1>2. CASE page_table' = page_table
  BY <1>1, <1>2 DEF Pooled
<1>3. CASE page_table' # page_table
  <2>1. /\ id \notin Pooled
        /\ Pooled' = (Pooled \ {pages_ids[f]}) \cup {id}
        /\ \A q \in Pooled' \ {id} : page_table'[q] = page_table[q]
    BY <1>1, <1>3, MissTables DEF Touches, FetchHit, UpdateHit
  <2>2. p # id
    BY <1>1, <2>1
  <2>3. p # pages_ids[f]
    <3> SUFFICES ASSUME p = pages_ids[f] PROVE FALSE
      OBVIOUS
    <3>1. f \in Frames /\ f \in Mapped /\ Evicts /\ f = Victim(lru)
      <4>1. p # -1
        BY <1>1, PooledPage
      <4> QED BY <1>1, <4>1, TakenFrameKind DEF Mapped
    <3>2. held[c].frame = f
      BY <1>1, <3>1, MappedFrame
    <3>3. Frames \subseteq Mapped /\ Keys(lru) = Mapped /\ lru \in Seq(Frames)
      BY <1>1, <3>1 DEF Evicts, BInv, PoolConsistent, FreeFrames, RecencyMatches,
                        TypeOK, Keys
    <3>4. \A g \in Frames \ {f} : pages_ids[g] \in Recent(c)
      BY <3>1, <3>2, <3>3, VictimIsLast DEF Recent
    <3>5. T = others[c] \cup {id}
      BY <2>2
    <3> QED BY <1>1, <2>1, <3>1, <3>3, <3>4, <3>5, FullWindow
  <2> QED BY <1>1, <2>1, <2>2, <2>3
<1> QED BY <1>2, <1>3

\* A touch keeps the window of a client that keeps its pointer.
LEMMA TouchKeepsWindow ==
    ASSUME KInv, ClientsTypeOK', NEW id, Touches(id),
           NEW c \in Clients, held'[c] = held[c],
           others'[c] = IF held[c].page = id THEN others[c] ELSE others[c] \cup {id}
    PROVE  WindowKept(c)'
<1> SUFFICES ASSUME InWindow(c)'
             PROVE  /\ held[c].page \in Pooled'
                    /\ page_table'[held[c].page] = held[c].frame
                    /\ Recent(c)' \subseteq others'[c]
  BY DEF WindowKept
<1>1. InWindow(c)
  BY WindowShrinks DEF KInv
<1>2. /\ BInv /\ held[c].page \in Pooled
      /\ page_table[held[c].page] = held[c].frame
      /\ Recent(c) \subseteq others[c]
  BY <1>1 DEF KInv, WindowKept
<1>3. others'[c] \in SUBSET (1 .. MaxPages) /\ Cardinality(others'[c]) < BUFFER_SIZE
  BY DEF ClientsTypeOK, InWindow
<1>4. /\ held[c].page \in Pooled'
      /\ page_table'[held[c].page] = held[c].frame
  BY <1>1, <1>2, <1>3, TouchKeepsPage
<1>5. ASSUME NEW g \in Mapped', Before(lru', g, held[c].frame)
      PROVE  pages_ids'[g] \in others'[c]
  <2> DEFINE h == page_table'[id]
  <2>1. held[c].frame # h /\ (g = h \/ Before(lru, g, held[c].frame))
    BY <1>2, <1>5, TouchTables DEF Touched
  <2>2. CASE g = h
    BY <1>2, <1>4, <2>1, <2>2, TouchTables
  <2>3. CASE g # h
    <3>1. g \in Mapped /\ pages_ids'[g] = pages_ids[g]
      BY <1>2, <2>3, TouchTables
    <3>2. pages_ids[g] \in Recent(c)
      BY <2>1, <2>3, <3>1 DEF Recent
    <3> QED BY <1>2, <3>1, <3>2
  <2> QED BY <2>2, <2>3
<1>6. Recent(c)' \subseteq others'[c]
  BY <1>5 DEF Recent
<1> QED BY <1>4, <1>6

-----------------------------------------------------------------------------
(* The steps. *)

\* A step of the pool that leaves the pages of S as they were.
Keeps(S) ==
    /\ BInv' /\ closing' = -1 /\ Pages \subseteq Pages' /\ CleanFor(S)'
    /\ \A i \in S : Visible(i)' = Visible(i)

LEMMA FetchKeeps ==
    ASSUME BInv, NEW id \in Pages, FetchHit(id) \/ FetchMiss(id),
           NEW S \in SUBSET Pages, CleanFor(S)
    PROVE  Keeps(S)
<1>1. CASE FetchHit(id)
  <2>1. UNCHANGED <<dm, frames, page_table, closing>> /\ closing = -1
    BY <1>1 DEF FetchHit
  <2>2. Pages' = Pages /\ \A i \in S : Visible(i)' = Visible(i)
    BY <2>1 DEF Pages, Visible, Pooled
  <2> QED BY <1>1, <2>1, <2>2, FetchHitStep DEF Keeps
<1>2. CASE FetchMiss(id)
  <2> DEFINE f == TakenFrame
  <2>1. /\ closing = -1 /\ id \notin Pooled /\ dm' = WrittenBack(f)
        /\ frames' = [frames EXCEPT ![f] = ReadPage(dm', id, frames[f])]
        /\ is_dirty' = [is_dirty EXCEPT ![f] = FALSE]
        /\ Install(f, id) /\ closing' = closing
    BY <1>2 DEF FetchMiss
  <2>2. DiskOK(dm') /\ Pages' = Pages /\ id \in Nat
    BY <2>1, VictimWrittenBack, InvParts, ReadKnown DEF Pages
  <2>3. ReadPage(dm', id, frames[f]) = dm'.file[id]
    BY <2>2, ReadKnown DEF Pages
  <2>4. BInv' /\ CleanFor(S \cup {id})'
    BY <1>2, FetchMissStep
  <2>5. /\ Visible(id)' = dm'.file[id]
        /\ \A i \in S \ {id} : Visible(i)' = Visible(i)
    BY <2>1, <2>2, <2>3, <2>4, MissVisible
  <2>6. Evicts => id # pages_ids[f]
    BY <2>1, TakenFrameKind, MappedFrame
  <2>7. dm'.file[id] = dm.file[id]
    BY <2>1, <2>6, VictimWrittenBack
  <2>8. Visible(id)' = Visible(id)
    BY <2>1, <2>5, <2>7, VisibleKnown
  <2>9. CleanFor(S)'
    BY <2>4 DEF CleanFor
  <2> QED BY <2>1, <2>2, <2>4, <2>5, <2>8, <2>9 DEF Keeps
<1> QED BY <1>1, <1>2

LEMMA UpdateKeeps ==
    ASSUME BInv, NEW id \in Pages, NEW x \in Data,
           UpdateHit(id, x) \/ UpdateMiss(id, x),
           NEW S \in SUBSET Pages, CleanFor(S)
    PROVE  Keeps(S \ {id}) /\ CleanFor(S)' /\ Visible(id)' = x
<1>1. ASSUME BInv', closing' = -1, Pages' = Pages, CleanFor(S)',
             \A i \in S \ {id} : Visible(i)' = Visible(i)
      PROVE  Keeps(S \ {id})
  <2>1. CleanFor(S \ {id})'
    BY <1>1 DEF CleanFor
  <2> QED BY <1>1, <2>1 DEF Keeps
<1>2. CASE UpdateHit(id, x)
  <2>1. /\ UNCHANGED <<dm, page_table>> /\ id \in Pooled
        /\ closing' = closing /\ closing = -1
        /\ frames' = [frames EXCEPT ![page_table[id]] = x]
    BY <1>2 DEF UpdateHit
  <2>2. /\ Pages' = Pages /\ Visible(id)' = x
        /\ \A i \in Pages \ {id} : Visible(i)' = Visible(i)
    BY <2>1, HitVisible
  <2>3. BInv' /\ CleanFor(S)'
    BY <1>2, UpdateHitStep
  <2> QED BY <1>1, <2>1, <2>2, <2>3
<1>3. CASE UpdateMiss(id, x)
  <2> DEFINE f == TakenFrame
  <2>1. /\ closing = -1 /\ id \notin Pooled /\ dm' = WrittenBack(f)
        /\ frames' = [frames EXCEPT ![f] = x]
        /\ is_dirty' = [is_dirty EXCEPT ![f] = TRUE]
        /\ Install(f, id) /\ closing' = closing
    BY <1>3 DEF UpdateMiss
  <2>2. DiskOK(dm') /\ Pages' = Pages /\ id \in Nat
    BY <2>1, VictimWrittenBack, InvParts, ReadKnown DEF Pages
  <2>3. BInv' /\ CleanFor(S \cup {id})'
    BY <1>3, UpdateMissStep
  <2>4. /\ Visible(id)' = x
        /\ \A i \in S \ {id} : Visible(i)' = Visible(i)
    BY <2>1, <2>2, <2>3, MissVisible
  <2>5. CleanFor(S)'
    BY <2>3 DEF CleanFor
  <2> QED BY <1>1, <2>1, <2>2, <2>3, <2>4, <2>5
<1> QED BY <1>2, <1>3

LEMMA NewPageKeeps ==
    ASSUME BInv, NewPage, NEW n, n = NextId(dm), NEW S \in SUBSET Pages, CleanFor(S)
    PROVE  /\ Keeps(S) /\ CleanFor(S \cup {n})' /\ Visible(n)' = Blank
           /\ n \in Pages' /\ n \notin Pages
<1> DEFINE f == TakenFrame
           a == AllocatePage(WrittenBack(f))
<1>1. /\ closing = -1 /\ Cardinality(Pages) < MaxPages
      /\ dm' = a.disk
      /\ frames' = [frames EXCEPT ![f] = ReadPage(dm', a.slot, frames[f])]
      /\ is_dirty' = [is_dirty EXCEPT ![f] = FALSE]
      /\ Install(f, a.slot) /\ closing' = closing
  BY DEF NewPage
<1>2. /\ DiskOK(WrittenBack(f)) /\ WrittenBack(f).pages_table = dm.pages_table
  BY <1>1, VictimWrittenBack
<1>3. a.slot = n
  BY <1>2 DEF AllocatePage, NextId, DiskOK, DiskType
<1>4. /\ DiskOK(dm') /\ n \in Nat /\ n \notin Pages
      /\ Pages' = Pages \cup {n} /\ dm'.file[n] = Blank
      /\ \A i \in Pages : dm'.file[i] = WrittenBack(f).file[i]
  BY <1>1, <1>2, <1>3, AllocateNext DEF Pages
<1>5. BInv' /\ CleanFor(S \cup {n})'
  BY <1>3, NewPageStep
<1> HIDE DEF f, a
<1>6. n \notin Pooled
  BY <1>4, PooledPage
<1>7. ReadPage(dm', n, frames[f]) = Blank
  BY <1>4, ReadKnown DEF Pages
<1>8. /\ frames' = [frames EXCEPT ![f] = Blank]
      /\ is_dirty' = [is_dirty EXCEPT ![f] = FALSE]
      /\ Install(f, n)
  BY <1>1, <1>3, <1>7
<1>9. /\ Visible(n)' = Blank
      /\ \A i \in S \ {n} : Visible(i)' = Visible(i)
  <2>1. /\ Pages \subseteq Pages' /\ n \in Pages' /\ BInv'
        /\ \A i \in Pages : dm'.file[i] = WrittenBack(TakenFrame).file[i]
        /\ frames' = [frames EXCEPT ![TakenFrame] = Blank]
        /\ is_dirty' = [is_dirty EXCEPT ![TakenFrame] = FALSE]
        /\ Install(TakenFrame, n)
    BY <1>4, <1>5, <1>8 DEF f
  <2>2. /\ closing = -1 /\ n \in Nat /\ n \notin Pooled
    BY <1>1, <1>4, <1>6
  <2> QED BY <2>1, <2>2, MissVisible
<1>10. CleanFor(S)'
  BY <1>5 DEF CleanFor
<1> QED BY <1>1, <1>4, <1>5, <1>9, <1>10 DEF Keeps

LEMMA DeleteKeeps ==
    ASSUME BInv, NEW id \in Pages, DeletePooled(id),
           NEW S \in SUBSET Pages, CleanFor(S)
    PROVE  Keeps(S)
<1> DEFINE f == page_table[id]
<1>1. /\ id \in Pooled /\ closing = -1 /\ closing' = closing
      /\ dm' = IF is_dirty[f] THEN WritePage(dm, id, frames[f]) ELSE dm
      /\ page_table' = Erase(page_table, id)
      /\ frames' = frames
  BY DEF DeletePooled
<1>2. f \in Mapped /\ pages_ids[f] = id
  BY <1>1, PooledPage
<1>3. /\ DiskOK(dm') /\ dm'.pages_table = dm.pages_table
      /\ id \in S => dm'.file[id] = frames[f]
      /\ \A i \in Pages \ {id} : dm'.file[i] = dm.file[i]
  <2>1. CASE is_dirty[f]
    BY <1>1, <1>2, <2>1, FrameWrittenBack
  <2>2. CASE ~is_dirty[f]
    <3>1. id \in S => frames[f] = ReadPage(dm, id, NoPage)
      BY <1>2, <2>2 DEF CleanFor
    <3> QED BY <1>1, <2>2, <3>1, InvParts, ReadKnown DEF Pages
  <2> QED BY <2>1, <2>2
<1>4. Pages' = Pages
  BY <1>3 DEF Pages
<1>5. Pooled' = Pooled \ {id} /\ \A i \in Pooled' : page_table'[i] = page_table[i]
  BY <1>1 DEF Pooled, Erase
<1> HIDE DEF f
<1>6. Visible(id) = frames[f]
  BY <1>1, VisibleKnown DEF f
<1>7. ASSUME NEW i \in S PROVE Visible(i)' = Visible(i)
  <2>1. CASE i \in Pooled'
    BY <1>1, <1>5, <2>1 DEF Visible
  <2>2. CASE i \notin Pooled'
    <3>1. Visible(i)' = dm'.file[i]
      BY <1>3, <1>4, <2>2, ReadKnown DEF Visible, Pages
    <3> QED BY <1>3, <1>5, <1>6, <2>2, <3>1, VisibleKnown
  <2> QED BY <2>1, <2>2
<1> QED BY <1>1, <1>4, <1>7, DeletePooledStep DEF Keeps

\* What a touch of page id does to the windows of those who keep their pointers.
LEMMA TouchKeepsWindows ==
    ASSUME KInv, NEW id, Touches(id), Touch(id), held' = held,
           DOMAIN written' \subseteq Pages'
    PROVE  ClientsTypeOK' /\ \A c \in Clients : WindowKept(c)'
<1>1. BInv
  BY DEF KInv
<1>2. id \in 1 .. MaxPages
  BY <1>1, TouchTables
<1>3. ClientsTypeOK'
  BY <1>2 DEF KInv, ClientsTypeOK, Touch
<1>4. ASSUME NEW c \in Clients PROVE WindowKept(c)'
  <2>1. /\ held'[c] = held[c]
        /\ others'[c] = IF held[c].page = id THEN others[c] ELSE others[c] \cup {id}
    BY DEF Touch
  <2> QED BY <1>3, <2>1, TouchKeepsWindow
<1> QED BY <1>3, <1>4

\* A fetch, an update, and newPage by a caller that keeps no pointer.
LEMMA OtherFetchStep ==
    ASSUME KInv, NEW id \in Pages, OtherFetch(id)
    PROVE  KInv'
<1> PICK S : S = DOMAIN written
  OBVIOUS
<1>1. BInv /\ S \in SUBSET Pages /\ CleanFor(S)
  BY DEF KInv, ClientsTypeOK
<1>2. /\ FetchHit(id) \/ FetchMiss(id)
      /\ Touch(id) /\ held' = held /\ written' = written
  BY DEF OtherFetch
<1>3. Keeps(S)
  BY <1>1, <1>2, FetchKeeps
<1>4. AstrayHurtsTwo'
  BY <1>2, <1>3 DEF KInv, Keeps, AstrayHurtsTwo
<1>5. ClientsTypeOK' /\ \A c \in Clients : WindowKept(c)'
  BY <1>1, <1>2, <1>3, TouchKeepsWindows DEF Touches, Keeps
<1> QED BY <1>2, <1>3, <1>4, <1>5 DEF KInv, Keeps

LEMMA OtherUpdateStep ==
    ASSUME KInv, NEW id \in Pages, NEW x \in Data, OtherUpdate(id, x)
    PROVE  KInv'
<1> PICK S : S = DOMAIN written
  OBVIOUS
<1>1. BInv /\ S \in SUBSET Pages /\ CleanFor(S)
  BY DEF KInv, ClientsTypeOK
<1>2. /\ UpdateHit(id, x) \/ UpdateMiss(id, x)
      /\ Touch(id) /\ held' = held /\ written' = Given(id, x)
  BY DEF OtherUpdate
<1>3. Keeps(S \ {id}) /\ CleanFor(S)' /\ Visible(id)' = x
  BY <1>1, <1>2, UpdateKeeps
<1>4. /\ DOMAIN written' = S
      /\ \A i \in S : written'[i] = IF i = id THEN x ELSE written[i]
  BY <1>2 DEF Given
<1>5. AstrayHurtsTwo'
  BY <1>3, <1>4 DEF KInv, Keeps, AstrayHurtsTwo
<1>6. ClientsTypeOK' /\ \A c \in Clients : WindowKept(c)'
  BY <1>1, <1>2, <1>3, <1>4, TouchKeepsWindows DEF Touches, Keeps
<1> QED BY <1>3, <1>4, <1>5, <1>6 DEF KInv, Keeps

LEMMA OtherNewPageStep ==
    ASSUME KInv, OtherNewPage
    PROVE  KInv'
<1> PICK S, n : S = DOMAIN written /\ n = NextId(dm)
  OBVIOUS
<1>1. BInv /\ S \in SUBSET Pages /\ CleanFor(S)
  BY DEF KInv, ClientsTypeOK
<1>2. /\ NewPage /\ Touch(n) /\ held' = held /\ written' = Put(written, n, Blank)
  BY DEF OtherNewPage, Touch
<1>3. /\ Keeps(S) /\ CleanFor(S \cup {n})' /\ Visible(n)' = Blank
      /\ n \in Pages' /\ n \notin Pages
  BY <1>1, <1>2, NewPageKeeps
<1>4. /\ DOMAIN written' = S \cup {n}
      /\ \A i \in S \cup {n} : written'[i] = IF i = n THEN Blank ELSE written[i]
  BY <1>2 DEF Put
<1>5. AstrayHurtsTwo'
  BY <1>3, <1>4 DEF KInv, Keeps, AstrayHurtsTwo
<1>6. ClientsTypeOK' /\ \A c \in Clients : WindowKept(c)'
  BY <1>1, <1>2, <1>3, <1>4, TouchKeepsWindows DEF Touches, Keeps
<1> QED BY <1>3, <1>4, <1>5, <1>6 DEF KInv, Keeps

\* A fetch whose pointer a caller keeps.
LEMMA HoldStep ==
    ASSUME KInv, NEW c \in Clients, NEW id \in Pages, Hold(c, id)
    PROVE  KInv'
<1> PICK S : S = DOMAIN written
  OBVIOUS
<1>1. /\ Touches(id) /\ written' = written
      /\ held' = [held EXCEPT ![c] = [page |-> id, frame |-> page_table'[id]]]
      /\ others' = [d \in Clients |->
                       IF d = c THEN {}
                       ELSE IF held[d].page = id THEN others[d]
                       ELSE others[d] \cup {id}]
  BY DEF Hold, Touches
<1>2. BInv /\ S \in SUBSET Pages /\ CleanFor(S) /\ ClientsTypeOK
  BY DEF KInv, ClientsTypeOK
<1>3. Keeps(S)
  BY <1>2, FetchKeeps DEF Hold
<1>4. /\ id \in 1 .. MaxPages /\ Touched(id) /\ id \in Pooled'
      /\ page_table'[id] \in Frames
  BY <1>1, <1>2, TouchTables
<1>5. ClientsTypeOK'
  <2>1. held' \in [Clients -> [page : 1 .. MaxPages, frame : Frames] \cup {NotHeld}]
    BY <1>1, <1>2, <1>4 DEF ClientsTypeOK
  <2>2. others' \in [Clients -> SUBSET (1 .. MaxPages)]
    BY <1>1, <1>2, <1>4 DEF ClientsTypeOK
  <2>3. DOMAIN written' \subseteq Pages'
    BY <1>1, <1>2, <1>3 DEF Keeps
  <2> QED BY <2>1, <2>2, <2>3 DEF ClientsTypeOK
<1>6. ASSUME NEW d \in Clients PROVE WindowKept(d)'
  <2>1. CASE d = c
    <3>1. held'[c] = [page |-> id, frame |-> page_table'[id]]
      BY <1>1, <1>2 DEF ClientsTypeOK
    <3>2. Recent(c)' = {}
      BY <1>4, <3>1 DEF Recent, Touched
    <3> QED BY <1>4, <2>1, <3>1, <3>2 DEF WindowKept
  <2>2. CASE d # c
    <3>1. /\ held'[d] = held[d]
          /\ others'[d] = IF held[d].page = id THEN others[d] ELSE others[d] \cup {id}
      BY <1>1, <1>2, <2>2 DEF ClientsTypeOK
    <3> QED BY <1>1, <1>5, <3>1, TouchKeepsWindow
  <2> QED BY <2>1, <2>2
<1>7. AstrayHurtsTwo'
  BY <1>1, <1>3 DEF KInv, Keeps, AstrayHurtsTwo
<1> QED BY <1>1, <1>3, <1>5, <1>6, <1>7 DEF KInv, Keeps

\* deletePage of a page ends the window of those who hold it and no other.
LEMMA OtherDeleteStep ==
    ASSUME KInv, NEW id \in Pages, OtherDelete(id)
    PROVE  KInv'
<1> DEFINE f == page_table[id]
<1> PICK S : S = DOMAIN written
  OBVIOUS
<1>1. /\ DeletePooled(id) /\ others' = others /\ written' = written
      /\ held' = [d \in Clients |-> IF held[d].page = id THEN NotHeld ELSE held[d]]
  BY DEF OtherDelete
<1>2. /\ id \in Pooled
      /\ page_table' = Erase(page_table, id)
      /\ pages_ids' = [pages_ids EXCEPT ![f] = -1]
      /\ lru' = Without(lru, f)
  BY <1>1 DEF DeletePooled, RemoveFrame
<1>3. BInv /\ S \in SUBSET Pages /\ CleanFor(S)
  BY DEF KInv, ClientsTypeOK
<1>4. Keeps(S)
  BY <1>1, <1>3, DeleteKeeps
<1>5. ClientsTypeOK' /\ AstrayHurtsTwo'
  BY <1>1, <1>3, <1>4 DEF KInv, ClientsTypeOK, Keeps, AstrayHurtsTwo
<1>6. ASSUME NEW c \in Clients, InWindow(c)'
      PROVE  /\ held'[c].page \in Pooled'
             /\ page_table'[held'[c].page] = held'[c].frame
             /\ Recent(c)' \subseteq others'[c]
  <2>1. held'[c] # NotHeld
    BY <1>6 DEF InWindow
  <2>2. held'[c] = held[c] /\ held[c].page # id /\ InWindow(c)
    BY <1>1, <1>6, <2>1 DEF InWindow
  <2>3. /\ held[c].page \in Pooled /\ page_table[held[c].page] = held[c].frame
        /\ Recent(c) \subseteq others[c]
    BY <2>2 DEF KInv, WindowKept
  <2>4. held[c].page \in Pooled' /\ page_table'[held[c].page] = held[c].frame
    BY <1>2, <2>2, <2>3 DEF Pooled, Erase
  <2>5. /\ f \in Keys(lru) /\ NoRepeats(lru) /\ lru \in Seq(Frames)
        /\ pages_ids \in [Frames -> Nat \cup {-1}] /\ f \in Frames
    BY <1>2, <1>3, PooledPage, MappedFrame
       DEF BInv, PoolConsistent, RecencyMatches, TypeOK
  <2>6. \A g \in Mapped' : g \in Mapped /\ pages_ids'[g] = pages_ids[g]
    BY <1>2, <2>5 DEF Mapped
  <2> HIDE DEF f
  <2>7. ASSUME NEW g \in Mapped', Before(lru', g, held[c].frame)
        PROVE  pages_ids'[g] \in others[c]
    <3>1. Before(lru, g, held[c].frame)
      BY <1>2, <2>5, <2>7, WithoutOrder
    <3>2. g \in Mapped /\ pages_ids'[g] = pages_ids[g]
      BY <2>6
    <3> QED BY <2>3, <3>1, <3>2 DEF Recent
  <2>8. Recent(c)' \subseteq others'[c]
    BY <1>1, <2>2, <2>7 DEF Recent
  <2> QED BY <2>2, <2>4, <2>8
<1> QED BY <1>1, <1>4, <1>5, <1>6 DEF KInv, Keeps, WindowKept

\* A write through a pointer, in its window or not: the page it was fetched for
\* and the page in the frame may change, and no other one.
LEMMA WriteHeldPages ==
    ASSUME KInv, NEW c \in Clients, NEW x \in Data, NEW marks \in BOOLEAN,
           WriteHeld(c, x, marks),
           NEW id, id = held[c].page, NEW f, f = held[c].frame
    PROVE  /\ f \in Frames /\ id \in Nat
           /\ frames' = [frames EXCEPT ![f] = x]
           /\ UNCHANGED <<dm, pages_ids, free_frames_ids, lru, closing, held, others>>
           /\ \A i \in Pooled : i # id => i \in Pooled' /\ page_table'[i] = page_table[i]
           /\ Pooled' \subseteq Pooled \cup {id}
           /\ AstrayHurtsTwo'
           /\ \/ marks /\ pages_ids[f] = id /\ DOMAIN written' = DOMAIN written
              \/ DOMAIN written' = DOMAIN written \ {id, pages_ids[f]}
<1>1. /\ frames' = [frames EXCEPT ![f] = x]
      /\ IF marks THEN MarkAsDirty(id) ELSE UNCHANGED <<page_table, is_dirty>>
      /\ written' = IF marks /\ pages_ids[f] = id
                    THEN Given(id, x)
                    ELSE Erase(Erase(written, id), pages_ids[f])
      /\ UNCHANGED <<dm, pages_ids, free_frames_ids, lru, closing, held, others>>
      /\ held[c] # NotHeld
  BY DEF WriteHeld
<1>2. BInv /\ f \in Frames /\ id \in Nat
  BY <1>1, PoolConstants DEF KInv, ClientsTypeOK
<1>3. /\ \A i \in Pooled : i # id => i \in Pooled' /\ page_table'[i] = page_table[i]
      /\ Pooled' \subseteq Pooled \cup {id}
      /\ id \in Pooled => page_table'[id] = page_table[id]
  BY <1>1 DEF MarkAsDirty, Put, Pooled
<1>4. /\ frames'[f] = x /\ \A g \in Frames \ {f} : frames'[g] = frames[g]
      /\ \A i \in Pooled : page_table[i] \in Frames /\ pages_ids[page_table[i]] = i
  BY <1>1, <1>2, PooledPage, MappedFrame DEF BInv, TypeOK
<1>5. ASSUME NEW i \in Pages, i # id, i # pages_ids[f]
      PROVE  Visible(i)' = Visible(i)
  <2>1. CASE i \in Pooled
    <3>1. page_table[i] \in Frames /\ page_table[i] # f
      BY <1>4, <1>5, <2>1
    <3> QED BY <1>3, <1>4, <1>5, <2>1, <3>1 DEF Visible
  <2>2. CASE i \notin Pooled
    BY <1>1, <1>3, <1>5, <2>2 DEF Visible
  <2> QED BY <2>1, <2>2
<1>6. DOMAIN written \subseteq Pages /\ \A i \in DOMAIN written : Visible(i) = written[i]
  BY DEF KInv, ClientsTypeOK, AstrayHurtsTwo
<1>7. CASE marks /\ pages_ids[f] = id
  <2>1. /\ DOMAIN written' = DOMAIN written
        /\ \A i \in DOMAIN written : written'[i] = IF i = id THEN x ELSE written[i]
    BY <1>1, <1>7 DEF Given
  <2>2. f \in Mapped
    BY <1>2, <1>7 DEF Mapped
  <2>3. id \in Pooled /\ page_table[id] = f
    BY <1>2, <1>7, <2>2, MappedFrame
  <2>4. id \in Pooled'
    BY <1>1, <2>3 DEF MarkAsDirty, Put, Pooled
  <2>5. Visible(id)' = x
    BY <1>3, <1>4, <2>3, <2>4 DEF Visible
  <2>6. AstrayHurtsTwo'
    BY <1>5, <1>6, <1>7, <2>1, <2>5 DEF AstrayHurtsTwo
  <2> QED BY <1>1, <1>2, <1>3, <1>7, <2>1, <2>6
<1>8. CASE ~(marks /\ pages_ids[f] = id)
  <2>1. /\ DOMAIN written' = DOMAIN written \ {id, pages_ids[f]}
        /\ \A i \in DOMAIN written' : written'[i] = written[i]
    BY <1>1, <1>8 DEF Erase
  <2>2. AstrayHurtsTwo'
    BY <1>5, <1>6, <2>1 DEF AstrayHurtsTwo
  <2> QED BY <1>1, <1>2, <1>3, <2>1, <2>2
<1> QED BY <1>7, <1>8

\* The write leaves the bookkeeping as it is, unless it marks a page that is
\* not pooled.
LEMMA WriteHeldStep ==
    ASSUME KInv, NEW c \in Clients, NEW x \in Data, NEW marks \in BOOLEAN,
           WriteHeld(c, x, marks), ~marks \/ held[c].page \in Pooled
    PROVE  KInv'
<1> PICK id, f, S : /\ id = held[c].page /\ f = held[c].frame
                    /\ S = DOMAIN written
  OBVIOUS
<1>1. /\ BInv /\ closing = -1 /\ S \subseteq Pages /\ CleanFor(S)
      /\ page_table \in [Pooled -> Frames]
      /\ frames \in [Frames -> Contents \cup {NoPage}]
      /\ is_dirty \in [Frames -> BOOLEAN]
  BY DEF KInv, ClientsTypeOK, BInv, TypeOK
<1>2. /\ f \in Frames /\ id \in Nat
      /\ frames' = [frames EXCEPT ![f] = x]
      /\ UNCHANGED <<dm, pages_ids, free_frames_ids, lru, closing, held, others>>
      /\ AstrayHurtsTwo'
      /\ \/ marks /\ pages_ids[f] = id /\ DOMAIN written' = S
         \/ DOMAIN written' = S \ {id, pages_ids[f]}
  BY WriteHeldPages
<1>3. /\ page_table' = page_table
      /\ is_dirty' \in [Frames -> BOOLEAN]
      /\ \A g \in Frames : is_dirty[g] => is_dirty'[g]
      /\ \A g \in Frames : is_dirty'[g] => is_dirty[g] \/ g \in Mapped
      /\ marks => is_dirty'[page_table[id]]
  <2>1. CASE ~marks
    BY <1>1, <2>1 DEF WriteHeld
  <2>2. CASE marks
    <3>1. id \in Pooled /\ page_table[id] \in Frames /\ page_table[id] \in Mapped
      BY <1>1, <2>2, PooledPage
    <3>2. /\ page_table' = Put(page_table, id, page_table[id])
          /\ is_dirty' = [is_dirty EXCEPT ![page_table[id]] = TRUE]
      BY <2>2, <3>1 DEF WriteHeld, MarkAsDirty
    <3>3. Pooled \cup {id} = Pooled
      BY <3>1
    <3>4. page_table' = page_table
      BY <1>1, <3>2, <3>3 DEF Put, Pooled
    <3> QED BY <1>1, <3>1, <3>2, <3>4
  <2> QED BY <2>1, <2>2
<1>4. Pooled' = Pooled /\ Pages' = Pages /\ Mapped' = Mapped
  BY <1>2, <1>3 DEF Pooled, Pages, Mapped
<1>5. BInv'
  <2>1. PoolConsistent'
    BY <1>1, <1>2, <1>3, <1>4
       DEF BInv, PoolConsistent, TablesAgree, FreeFrames, RecencyMatches, DirtyIsMapped
  <2>2. Tables'
    BY <1>1, <1>2, <1>3, <1>4, <2>1 DEF Tables, BInv, TypeOK
  <2>3. x \in Contents
    BY DEF Contents
  <2>4. /\ frames' \in [Frames -> Contents \cup {NoPage}]
        /\ \A g \in Mapped' : frames'[g] \in Contents
    BY <1>1, <1>2, <1>4, <2>3, MappedFrame
  <2>5. DiskOK(dm') /\ closing' \in -1 .. BUFFER_SIZE
    BY <1>1, <1>2, InvParts, PoolConstants
  <2> QED BY <2>2, <2>4, <2>5, BInvAfter
<1>6. CleanFor(DOMAIN written)'
  <2> PICK T : T = DOMAIN written' /\ T \subseteq S
    BY <1>2
  <2>1. ASSUME NEW g \in Mapped', pages_ids'[g] \in T, ~is_dirty'[g]
        PROVE  frames'[g] = ReadPage(dm', pages_ids'[g], NoPage)
    <3>1. g \in Mapped /\ g \in Frames /\ pages_ids[g] \in S /\ ~is_dirty[g]
      BY <1>2, <1>3, <1>4, <2>1, MappedFrame, <1>1
    <3>2. g # f
      <4>1. CASE marks /\ pages_ids[f] = id
        BY <1>1, <1>3, <2>1, <3>1, <4>1, MappedFrame
      <4>2. CASE DOMAIN written' = S \ {id, pages_ids[f]}
        BY <1>2, <2>1, <4>2
      <4> QED BY <1>2, <4>1, <4>2
    <3>3. frames[g] = ReadPage(dm, pages_ids[g], NoPage)
      BY <1>1, <3>1 DEF CleanFor
    <3> QED BY <1>1, <1>2, <3>1, <3>2, <3>3
  <2>2. CleanFor(T)'
    BY <1>1, <1>2, <2>1, OpenClean
  <2> QED BY <2>2
<1>7. ClientsTypeOK'
  BY <1>1, <1>2, <1>4 DEF KInv, ClientsTypeOK
<1>8. \A d \in Clients : WindowKept(d)'
  BY <1>2, <1>3, <1>4 DEF KInv, WindowKept, InWindow, Recent
<1> QED BY <1>1, <1>2, <1>5, <1>6, <1>7, <1>8 DEF KInv

LEMMA WindowsAreSafe == KInv => WindowIsSafe
<1> SUFFICES ASSUME KInv, NEW c \in Clients, InWindow(c)
             PROVE  /\ held[c].page \in Pooled
                    /\ page_table[held[c].page] = held[c].frame
                    /\ pages_ids[held[c].frame] = held[c].page
  BY DEF WindowIsSafe
<1>1. BInv /\ held[c].page \in Pooled /\ page_table[held[c].page] = held[c].frame
  BY DEF KInv, WindowKept
<1> QED BY <1>1, PooledPage

\* A page that is not pooled is marked: frame 0 is claimed by two pages.  The
\* windows are safe all the same, and no third page is hurt.
LEMMA MismarkStep ==
    ASSUME KInv, NEW c \in Clients, NEW x \in Data, NEW marks \in BOOLEAN,
           WriteHeld(c, x, marks), held[c].page \notin Pooled
    PROVE  marks => WindowIsSafe' /\ AstrayHurtsTwo' /\ Mismarked'
<1> PICK id, f : id = held[c].page /\ f = held[c].frame
  OBVIOUS
<1>1. /\ id \in Nat /\ AstrayHurtsTwo'
      /\ UNCHANGED <<dm, pages_ids, free_frames_ids, lru, closing, held, others>>
      /\ \A i \in Pooled : i # id => i \in Pooled' /\ page_table'[i] = page_table[i]
      /\ \/ marks /\ pages_ids[f] = id /\ DOMAIN written' = DOMAIN written
         \/ DOMAIN written' = DOMAIN written \ {id, pages_ids[f]}
  BY WriteHeldPages
<1>2. BInv
  BY DEF KInv
<1> SUFFICES ASSUME marks PROVE WindowIsSafe' /\ Mismarked'
  BY <1>1
<1>3. id \in Pooled' /\ page_table'[id] = 0
  BY DEF WriteHeld, MarkAsDirty, Put, Pooled
<1>4. pages_ids[0] # id
  <2> SUFFICES ASSUME pages_ids[0] = id PROVE FALSE
    OBVIOUS
  <2>1. 0 \in Mapped
    BY <1>1, FramesFinite DEF Mapped
  <2> QED BY <1>2, <2>1, MappedFrame
<1>5. Mismarked'
  BY <1>1, <1>3, <1>4 DEF Mismarked
<1>6. WindowIsSafe
  BY WindowsAreSafe
<1>7. WindowIsSafe'
  <2> SUFFICES ASSUME NEW d \in Clients, InWindow(d)'
               PROVE  /\ held'[d].page \in Pooled'
                      /\ page_table'[held'[d].page] = held'[d].frame
                      /\ pages_ids'[held'[d].frame] = held'[d].page
    BY DEF WindowIsSafe
  <2>1. InWindow(d)
    BY <1>1 DEF InWindow
  <2>2. /\ held[d].page \in Pooled /\ page_table[held[d].page] = held[d].frame
        /\ pages_ids[held[d].frame] = held[d].page
    BY <1>6, <2>1 DEF WindowIsSafe
  <2> QED BY <1>1, <2>2
<1> QED BY <1>1, <1>5, <1>7

LEMMA ClientsInitInv == ClientsInit => CInv
<1> SUFFICES ASSUME ClientsInit PROVE CInv
  OBVIOUS
<1>1. IInv /\ closing = -1
  BY InitInv DEF ClientsInit, Init
<1>2. BInv /\ CleanFor(DOMAIN written)
  BY <1>1, CleanForPages
<1>3. ClientsTypeOK /\ AstrayHurtsTwo
  BY DEF ClientsInit, ClientsTypeOK, AstrayHurtsTwo
<1>4. \A c \in Clients : WindowKept(c)
  BY DEF ClientsInit, WindowKept, InWindow
<1>5. KInv
  BY <1>1, <1>2, <1>3, <1>4 DEF KInv
<1> QED BY <1>5 DEF CInv

LEMMA ClientsNextKeepsInv == CInv /\ [ClientsNext]_clientVars => CInv'
<1> SUFFICES ASSUME CInv, [ClientsNext]_clientVars PROVE CInv'
  OBVIOUS
<1>1. ASSUME KInv' PROVE CInv'
  BY <1>1 DEF CInv
<1>2. CASE UNCHANGED clientVars
  <2>1. UNCHANGED <<dm, frames, page_table, pages_ids, is_dirty, free_frames_ids,
                    lru, closing, held, others, written>>
    BY <1>2 DEF clientVars, vars, poolVars
  <2>2. Pages' = Pages /\ Pooled' = Pooled /\ Mapped' = Mapped
    BY <2>1 DEF Pages, Pooled, Mapped
  <2>3. /\ AstrayHurtsTwo => AstrayHurtsTwo'
        /\ WindowIsSafe => WindowIsSafe'
        /\ Mismarked => Mismarked'
    BY <2>1, <2>2 DEF WindowIsSafe, InWindow, AstrayHurtsTwo, Visible, Mismarked
  <2>4. ASSUME KInv PROVE KInv'
    <3>1. TypeOK' /\ DirectoryOrderly'
      BY <2>1, <2>2, <2>4 DEF KInv, BInv, TypeOK, DirectoryOrderly
    <3>2. PoolConsistent'
      BY <2>1, <2>2, <2>4 DEF KInv, BInv, PoolConsistent, TablesAgree, FreeFrames,
                              RecencyMatches, DirtyIsMapped
    <3>3. ClientsTypeOK' /\ CleanFor(DOMAIN written)'
      BY <2>1, <2>2, <2>4 DEF KInv, ClientsTypeOK, CleanFor
    <3>4. \A c \in Clients : WindowKept(c)'
      BY <2>1, <2>2, <2>4 DEF KInv, WindowKept, InWindow, Recent
    <3> QED BY <2>1, <2>3, <2>4, <3>1, <3>2, <3>3, <3>4 DEF KInv, BInv
  <2> QED BY <2>3, <2>4 DEF CInv
<1>3. CASE ClientsNext
  <2>1. KInv
    BY <1>3 DEF CInv, ClientsNext
  <2>2. ASSUME NEW id \in Pages, OtherFetch(id) PROVE CInv'
    BY <1>1, <2>1, <2>2, OtherFetchStep
  <2>3. ASSUME NEW id \in Pages, NEW x \in Data, OtherUpdate(id, x) PROVE CInv'
    BY <1>1, <2>1, <2>3, OtherUpdateStep
  <2>4. ASSUME NEW id \in Pages, OtherDelete(id) PROVE CInv'
    BY <1>1, <2>1, <2>4, OtherDeleteStep
  <2>5. ASSUME NEW id \in Pages, NEW c \in Clients, Hold(c, id) PROVE CInv'
    BY <1>1, <2>1, <2>5, HoldStep
  <2>6. ASSUME OtherNewPage PROVE CInv'
    BY <1>1, <2>1, <2>6, OtherNewPageStep
  <2>7. ASSUME NEW c \in Clients, NEW x \in Data, NEW marks \in BOOLEAN,
               WriteHeld(c, x, marks)
        PROVE  CInv'
    <3>1. CASE ~marks \/ held[c].page \in Pooled
      BY <1>1, <2>1, <2>7, <3>1, WriteHeldStep
    <3>2. CASE marks /\ held[c].page \notin Pooled
      BY <2>1, <2>7, <3>2, MismarkStep DEF CInv
    <3> QED BY <3>1, <3>2
  <2> QED BY <1>3, <2>2, <2>3, <2>4, <2>5, <2>6, <2>7 DEF ClientsNext
<1> QED BY <1>2, <1>3

-----------------------------------------------------------------------------
(* The theorems. *)

\* The inductive invariant: the bookkeeping of the pool, and for each caller
\* within its window that the pages touched since its fetch cover the frames
\* that were used more recently than its own; or a page was marked that is not
\* pooled, and the two properties below hold still.
THEOREM ClientsInvariantHolds == ClientsSpec => []CInv
  BY ClientsInitInv, ClientsNextKeepsInv, PTL DEF ClientsSpec

\* For as long as fewer other pages than frames were touched, the pointer still
\* leads to the frame of the page it was fetched for, with callers that write
\* through their pointers whenever they like.
THEOREM WindowStaysSafe == ClientsSpec => []WindowIsSafe
<1>1. CInv => WindowIsSafe
  BY WindowsAreSafe DEF CInv
<1> QED BY <1>1, ClientsInvariantHolds, PTL

\* Writes through pointers that have outlived their pages cost the page that
\* was meant and the page in the frame, and no third one, whatever is evicted,
\* written back and fetched again in between.
THEOREM AstrayWritesHurtTwo == ClientsSpec => []AstrayHurtsTwo
<1>1. CInv => AstrayHurtsTwo
  BY DEF CInv, KInv
<1> QED BY <1>1, ClientsInvariantHolds, PTL
=============================================================================
