------------------------- MODULE DiskManagerProofs -------------------------
(***************************************************************************)
(* The invariants of DiskManager hold for every initial capacity, every    *)
(* set of ids and contents, and every bound.                               *)
(***************************************************************************)
EXTENDS DiskManager, FiniteSetTheorems, SequenceTheorems, TLAPS

\* A directory whose pages have their slots below the capacity, behind the
\* metadata page, with no more entries than the capacity.
Fits(pages_table, capacity) ==
    /\ capacity \in Nat \ {0}
    /\ pages_table \in [DOMAIN pages_table -> 1 .. capacity - 1]
    /\ IsFiniteSet(DOMAIN pages_table)
    /\ Cardinality(DOMAIN pages_table) <= capacity

\* The file is at least as long as the capacity.
LongEnough(file, capacity) ==
    /\ IsFiniteSet(DOMAIN file)
    /\ DOMAIN file = 0 .. Cardinality(DOMAIN file) - 1
    /\ capacity <= Cardinality(DOMAIN file)

IsDisk(d) == d = [capacity |-> d.capacity, pages_table |-> d.pages_table,
                  deleted_slots |-> d.deleted_slots, file |-> d.file,
                  saved |-> d.saved]

\* The directory and the free stack together stay within the capacity: that is
\* why doubling the file makes room for the next slot.
Sound(d) ==
    /\ IsDisk(d)
    /\ Fits(d.pages_table, d.capacity)
    /\ d.deleted_slots \in Seq(1 .. d.capacity - 1)
    /\ Cardinality(DOMAIN d.pages_table) + Len(d.deleted_slots) <= d.capacity
    /\ LongEnough(d.file, d.capacity)
    /\ Fits(d.saved.pages_table, d.saved.capacity)
    /\ ~Misread(d.saved)
    /\ d.saved.capacity <= d.capacity

\* A directory without gaps, each page in the slot of its number.
Consecutive(pages_table) ==
    /\ DOMAIN pages_table = 1 .. Cardinality(DOMAIN pages_table)
    /\ \A id \in DOMAIN pages_table : pages_table[id] = id

Disciplined(d, given) ==
    /\ Consecutive(d.pages_table)
    /\ Consecutive(d.saved.pages_table)
    /\ \A i \in 1 .. Len(d.deleted_slots) :
           d.deleted_slots[i] =
               Cardinality(DOMAIN d.pages_table) + Len(d.deleted_slots) - i + 1
    /\ \A id \in DOMAIN given : /\ id \in DOMAIN d.pages_table
                                /\ d.file[id] = given[id]

DInv ==
    /\ garbled \in BOOLEAN /\ orderly \in BOOLEAN
    /\ ~garbled => Sound(dm)
    /\ orderly => ~garbled /\ Disciplined(dm, stored)

-----------------------------------------------------------------------------
(* Directories, files and stacks. *)

LEMMA PutFits ==
    ASSUME NEW t, NEW c, Fits(t, c), NEW id, NEW s \in 1 .. c - 1,
           Cardinality(DOMAIN t) + 1 <= c
    PROVE  /\ Fits(Put(t, id, s), c)
           /\ Cardinality(DOMAIN Put(t, id, s)) =
                  Cardinality(DOMAIN t) + IF id \in DOMAIN t THEN 0 ELSE 1
<1>1. /\ IsFiniteSet(DOMAIN t) /\ Cardinality(DOMAIN t) \in Nat /\ c \in Nat
      /\ t \in [DOMAIN t -> 1 .. c - 1]
  BY FS_CardinalityType DEF Fits
<1>2. DOMAIN Put(t, id, s) = DOMAIN t \cup {id}
  BY DEF Put
<1>3. /\ IsFiniteSet(DOMAIN Put(t, id, s))
      /\ Cardinality(DOMAIN Put(t, id, s)) =
             IF id \in DOMAIN t THEN Cardinality(DOMAIN t)
             ELSE Cardinality(DOMAIN t) + 1
  BY <1>1, <1>2, FS_AddElement
<1>4. Put(t, id, s) \in [DOMAIN t \cup {id} -> 1 .. c - 1]
  BY <1>1 DEF Put
<1> QED BY <1>1, <1>2, <1>3, <1>4 DEF Fits

\* Overwriting an entry of a directory adds none.
LEMMA PutKnownFits ==
    ASSUME NEW t, NEW c, Fits(t, c), NEW id \in DOMAIN t
    PROVE  Put(t, id, t[id]) = t
<1>1. t = [i \in DOMAIN t |-> t[i]] /\ DOMAIN t \cup {id} = DOMAIN t
  BY DEF Fits
<1> QED BY <1>1 DEF Put

LEMMA EraseFits ==
    ASSUME NEW t, NEW c, Fits(t, c), NEW id \in DOMAIN t
    PROVE  /\ Fits(Erase(t, id), c)
           /\ Cardinality(DOMAIN Erase(t, id)) = Cardinality(DOMAIN t) - 1
<1>1. /\ IsFiniteSet(DOMAIN t) /\ Cardinality(DOMAIN t) \in Nat /\ c \in Nat
      /\ t \in [DOMAIN t -> 1 .. c - 1]
  BY FS_CardinalityType DEF Fits
<1>2. DOMAIN Erase(t, id) = DOMAIN t \ {id}
  BY DEF Erase
<1>3. /\ IsFiniteSet(DOMAIN Erase(t, id))
      /\ Cardinality(DOMAIN Erase(t, id)) = Cardinality(DOMAIN t) - 1
  BY <1>1, <1>2, FS_RemoveElement
<1>4. Erase(t, id) \in [DOMAIN t \ {id} -> 1 .. c - 1]
  BY <1>1 DEF Erase
<1> QED BY <1>1, <1>2, <1>3, <1>4 DEF Fits

\* A smaller directory, or a larger capacity, fits too.
LEMMA PartFits ==
    ASSUME NEW t, NEW c, Fits(t, c), NEW S \in SUBSET DOMAIN t
    PROVE  Fits([i \in S |-> t[i]], c)
<1>1. /\ IsFiniteSet(DOMAIN t) /\ Cardinality(DOMAIN t) \in Nat
      /\ Cardinality(DOMAIN t) <= c /\ c \in Nat \ {0}
      /\ t \in [DOMAIN t -> 1 .. c - 1]
  BY FS_CardinalityType DEF Fits
<1>2. IsFiniteSet(S) /\ Cardinality(S) \in Nat /\ Cardinality(S) <= Cardinality(DOMAIN t)
  BY <1>1, FS_Subset, FS_CardinalityType
<1>3. [i \in S |-> t[i]] \in [S -> 1 .. c - 1]
  BY <1>1
<1> QED BY <1>1, <1>2, <1>3 DEF Fits

LEMMA FileOfLength ==
    ASSUME NEW f, NEW m \in Nat, DOMAIN f = 0 .. m - 1, NEW c, c <= m
    PROVE  LongEnough(f, c)
<1>1. IsFiniteSet(0 .. m - 1) /\ Cardinality(0 .. m - 1) = m
  BY FS_Interval
<1> QED BY <1>1 DEF LongEnough

LEMMA WriteSlotKeeps ==
    ASSUME NEW f, NEW c \in Nat, LongEnough(f, c), NEW s \in 1 .. c - 1, NEW x
    PROVE  /\ LongEnough(WriteSlot(f, s, x), c)
           /\ WriteSlot(f, s, x)[s] = x
           /\ \A t \in 1 .. c - 1 : t # s => WriteSlot(f, s, x)[t] = f[t]
           /\ \A t \in 1 .. c - 1 : t \in DOMAIN f
<1>1. /\ Cardinality(DOMAIN f) \in Nat /\ DOMAIN f = 0 .. Cardinality(DOMAIN f) - 1
      /\ c <= Cardinality(DOMAIN f)
  BY FS_CardinalityType DEF LongEnough
<1>2. DOMAIN f \cup 0 .. s = DOMAIN f /\ \A t \in 1 .. c - 1 : t \in DOMAIN f
  <2> DEFINE m == Cardinality(DOMAIN f)
  <2>1. m \in Nat /\ c <= m /\ DOMAIN f = 0 .. m - 1
    BY <1>1
  <2> HIDE DEF m
  <2>2. 0 .. s \subseteq 0 .. m - 1 /\ 1 .. c - 1 \subseteq 0 .. m - 1
    BY <2>1
  <2> QED BY <2>1, <2>2
<1>3. WriteSlot(f, s, x) = [t \in DOMAIN f |-> IF t = s THEN x ELSE f[t]]
  BY <1>2 DEF WriteSlot
<1>4. LongEnough(WriteSlot(f, s, x), c)
  BY <1>1, <1>3, FileOfLength
<1> QED BY <1>2, <1>3, <1>4

\* Doubling the file keeps every slot below the old capacity.
LEMMA TruncatedKeeps ==
    ASSUME NEW f, NEW c \in Nat \ {0}, LongEnough(f, c)
    PROVE  /\ LongEnough(Truncated(f, 2 * c), 2 * c)
           /\ \A t \in 1 .. c - 1 : Truncated(f, 2 * c)[t] = f[t]
<1>1. /\ Cardinality(DOMAIN f) \in Nat /\ DOMAIN f = 0 .. Cardinality(DOMAIN f) - 1
      /\ c <= Cardinality(DOMAIN f)
  BY FS_CardinalityType DEF LongEnough
<1>2. 2 * c \in Nat /\ DOMAIN Truncated(f, 2 * c) = 0 .. 2 * c - 1
  BY DEF Truncated
<1>3. LongEnough(Truncated(f, 2 * c), 2 * c)
  BY <1>2, FileOfLength
<1>4. \A t \in 1 .. c - 1 : t \in DOMAIN f /\ t \in 0 .. 2 * c - 1
  BY <1>1
<1> QED BY <1>3, <1>4 DEF Truncated

\* Popping the stack of deleted slots.
LEMMA PopSlot ==
    ASSUME NEW S, NEW l \in Seq(S), l # <<>>
    PROVE  /\ Len(l) \in Nat \ {0} /\ l[Len(l)] \in S
           /\ SubSeq(l, 1, Len(l) - 1) \in Seq(S)
           /\ Len(SubSeq(l, 1, Len(l) - 1)) = Len(l) - 1
           /\ \A i \in 1 .. Len(l) - 1 : SubSeq(l, 1, Len(l) - 1)[i] = l[i]
<1>1. Len(l) \in Nat \ {0} /\ \A i \in 1 .. Len(l) : l[i] \in S
  BY EmptySeq
<1> DEFINE n == Len(l) - 1
           r == SubSeq(l, 1, n)
<1>2. 1 \in Int /\ n \in Int /\ n \in Nat /\ \A i \in 1 .. n : l[i] \in S
  BY <1>1
<1>3. r = SubSeq(l, 1, n)
  OBVIOUS
<1> HIDE DEF n, r
<1>4. /\ r \in Seq(S)
      /\ Len(r) = IF 1 <= n THEN n - 1 + 1 ELSE 0
      /\ \A i \in 1 .. n - 1 + 1 : r[i] = l[1 + i - 1]
  BY <1>2, <1>3, SubSeqProperties
<1>5. Len(r) = n /\ \A i \in 1 .. n : r[i] = l[i]
  BY <1>2, <1>4
<1> QED BY <1>1, <1>4, <1>5 DEF r, n

-----------------------------------------------------------------------------
(* The operators of DiskFile. *)

\* allocatePage takes a deleted slot, or appends a page.
LEMMA AllocateReuses ==
    ASSUME NEW d, Sound(d), d.deleted_slots # <<>>, NEW a, a = AllocatePage(d)
    PROVE  /\ Sound(a.disk) /\ a.disk.saved = d.saved
           /\ Len(d.deleted_slots) \in Nat \ {0}
           /\ a.slot = d.deleted_slots[Len(d.deleted_slots)]
           /\ a.slot \in 1 .. a.disk.capacity - 1
           /\ a.disk.capacity = d.capacity
           /\ a.disk.pages_table = d.pages_table
           /\ a.disk.file = d.file
           /\ Len(a.disk.deleted_slots) = Len(d.deleted_slots) - 1
           /\ \A i \in 1 .. Len(d.deleted_slots) - 1 :
                  a.disk.deleted_slots[i] = d.deleted_slots[i]
<1> PICK len : len = Len(d.deleted_slots)
  OBVIOUS
<1> DEFINE r == SubSeq(d.deleted_slots, 1, len - 1)
<1>1. /\ d.deleted_slots \in Seq(1 .. d.capacity - 1) /\ IsDisk(d)
      /\ Cardinality(DOMAIN d.pages_table) \in Nat /\ d.capacity \in Nat
      /\ Cardinality(DOMAIN d.pages_table) + len <= d.capacity
  BY FS_CardinalityType DEF Sound, Fits
<1>2. /\ len \in Nat \ {0} /\ d.deleted_slots[len] \in 1 .. d.capacity - 1
      /\ r \in Seq(1 .. d.capacity - 1) /\ Len(r) = len - 1
      /\ \A i \in 1 .. len - 1 : r[i] = d.deleted_slots[i]
  BY <1>1, PopSlot
<1>3. a = [disk |-> [d EXCEPT !.deleted_slots = r], slot |-> d.deleted_slots[len]]
  BY DEF AllocatePage
<1> HIDE DEF r
<1>4. a.disk = [capacity |-> d.capacity, pages_table |-> d.pages_table,
                deleted_slots |-> r, file |-> d.file, saved |-> d.saved]
  BY <1>1, <1>3 DEF IsDisk
<1>5. Sound(a.disk)
  BY <1>1, <1>2, <1>4 DEF Sound, IsDisk
<1> QED BY <1>2, <1>3, <1>4, <1>5

LEMMA AllocateAppends ==
    ASSUME NEW d, Sound(d), d.deleted_slots = <<>>, NEW a, a = AllocatePage(d),
           NEW n, n = Cardinality(DOMAIN d.pages_table)
    PROVE  /\ Sound(a.disk) /\ a.disk.saved = d.saved
           /\ n \in Nat /\ a.slot = n + 1
           /\ a.slot \in 1 .. a.disk.capacity - 1
           /\ Cardinality(DOMAIN a.disk.pages_table) + 1 <= a.disk.capacity
           /\ a.disk.pages_table = Put(d.pages_table, n + 1, n + 1)
           /\ a.disk.deleted_slots = <<>>
           /\ a.disk.file[n + 1] = Blank
           /\ \A t \in 1 .. d.capacity - 1 : t # n + 1 => a.disk.file[t] = d.file[t]
           /\ d.capacity <= a.disk.capacity
<1> DEFINE r == IF n + 1 >= d.capacity THEN ResizeFile(d) ELSE d
<1>1. /\ IsDisk(d) /\ d.capacity \in Nat \ {0} /\ n \in Nat /\ n <= d.capacity
      /\ LongEnough(d.file, d.capacity) /\ Fits(d.pages_table, d.capacity)
      /\ d.saved.capacity \in Nat /\ d.saved.capacity <= d.capacity
  BY FS_CardinalityType DEF Sound, Fits
<1>2. d.capacity = 1 => n = 0
  <2> SUFFICES ASSUME d.capacity = 1 PROVE DOMAIN d.pages_table = {}
    BY FS_EmptySet
  <2>1. d.pages_table \in [DOMAIN d.pages_table -> 1 .. 0]
    BY DEF Sound, Fits
  <2> QED BY <2>1
<1>3. a = [disk |-> WithPages(r, WriteSlot(r.file, n + 1, Blank),
                              Put(r.pages_table, n + 1, n + 1)),
           slot |-> n + 1]
  BY DEF AllocatePage, NextId
<1>4. \E c, f : /\ r = [capacity |-> c, pages_table |-> d.pages_table,
                        deleted_slots |-> <<>>, file |-> f, saved |-> d.saved]
                /\ c \in Nat \ {0} /\ d.capacity <= c /\ n + 2 <= c
                /\ LongEnough(f, c)
                /\ \A t \in 1 .. d.capacity - 1 : f[t] = d.file[t]
  <2>1. CASE n + 1 >= d.capacity
    <3> DEFINE c == 2 * d.capacity
               f == Truncated(d.file, c)
    <3>1. r = [capacity |-> c, pages_table |-> d.pages_table,
               deleted_slots |-> <<>>, file |-> f, saved |-> d.saved]
      BY <2>1 DEF ResizeFile, WithPages
    <3>2. c \in Nat \ {0} /\ d.capacity <= c /\ n + 2 <= c
      BY <1>1, <1>2
    <3>3. LongEnough(f, c) /\ \A t \in 1 .. d.capacity - 1 : f[t] = d.file[t]
      BY <1>1, TruncatedKeeps
    <3> QED BY <3>1, <3>2, <3>3
  <2>2. CASE ~(n + 1 >= d.capacity)
    <3>1. r = [capacity |-> d.capacity, pages_table |-> d.pages_table,
               deleted_slots |-> <<>>, file |-> d.file, saved |-> d.saved]
      BY <1>1, <2>2 DEF IsDisk
    <3>2. n + 2 <= d.capacity
      BY <1>1, <2>2
    <3> QED BY <1>1, <3>1, <3>2
  <2> QED BY <2>1, <2>2
<1> HIDE DEF r
<1>5. PICK c, f : /\ r = [capacity |-> c, pages_table |-> d.pages_table,
                          deleted_slots |-> <<>>, file |-> f, saved |-> d.saved]
                  /\ c \in Nat \ {0} /\ d.capacity <= c /\ n + 2 <= c
                  /\ LongEnough(f, c)
                  /\ \A t \in 1 .. d.capacity - 1 : f[t] = d.file[t]
  BY <1>4
<1> DEFINE g == WriteSlot(f, n + 1, Blank)
           t == Put(d.pages_table, n + 1, n + 1)
<1>6. a.disk = [capacity |-> c, pages_table |-> t, deleted_slots |-> <<>>,
                file |-> g, saved |-> d.saved]
      /\ a.slot = n + 1
  BY <1>3, <1>5 DEF WithPages
<1>7. n + 1 \in 1 .. c - 1
  BY <1>1, <1>5
<1>8. /\ LongEnough(g, c) /\ g[n + 1] = Blank
      /\ \A s \in 1 .. d.capacity - 1 : s # n + 1 => g[s] = d.file[s]
  BY <1>1, <1>5, <1>7, WriteSlotKeeps
<1>9. Fits(d.pages_table, c)
  <2>1. 1 .. d.capacity - 1 \subseteq 1 .. c - 1
    BY <1>1, <1>5
  <2> QED BY <1>1, <1>5, <2>1 DEF Fits
<1>10. /\ Fits(t, c) /\ Cardinality(DOMAIN t) + 1 <= c
       /\ Cardinality(DOMAIN t) \in Nat
  <2>1. Fits(t, c) /\ Cardinality(DOMAIN t) = n + IF n + 1 \in DOMAIN d.pages_table THEN 0 ELSE 1
    BY <1>1, <1>5, <1>7, <1>9, PutFits
  <2> QED BY <1>1, <1>5, <2>1
<1> HIDE DEF g, t
<1>11. Sound(a.disk)
  <2>1. <<>> \in Seq(1 .. c - 1) /\ Len(<<>>) = 0
    OBVIOUS
  <2>2. Fits(d.saved.pages_table, d.saved.capacity) /\ ~Misread(d.saved)
    BY DEF Sound
  <2> QED BY <1>1, <1>5, <1>6, <1>8, <1>10, <2>1, <2>2 DEF Sound, IsDisk
<1>12. /\ a.disk.capacity = c /\ a.disk.pages_table = t /\ a.disk.file = g
       /\ a.disk.saved = d.saved /\ a.disk.deleted_slots = <<>> /\ a.slot = n + 1
  BY <1>6
<1> QED BY <1>1, <1>5, <1>7, <1>8, <1>10, <1>11, <1>12 DEF t

\* writePage keeps a sound disk sound, and gives the page the content.
LEMMA WritePageSound ==
    ASSUME NEW d, Sound(d), NEW id, NEW x, NEW w, w = WritePage(d, id, x)
    PROVE  /\ Sound(w) /\ w.saved = d.saved
           /\ id \in DOMAIN w.pages_table
           /\ w.file[w.pages_table[id]] = x
<1> DEFINE a == IF id \in DOMAIN d.pages_table
                THEN [disk |-> d, slot |-> d.pages_table[id]]
                ELSE AllocatePage(d)
<1>1. w = WithPages(a.disk, WriteSlot(a.disk.file, a.slot, x),
                    Put(a.disk.pages_table, id, a.slot))
  BY DEF WritePage
<1>2. /\ Sound(a.disk) /\ a.disk.saved = d.saved
      /\ a.slot \in 1 .. a.disk.capacity - 1
      /\ Fits(Put(a.disk.pages_table, id, a.slot), a.disk.capacity)
      /\ Cardinality(DOMAIN Put(a.disk.pages_table, id, a.slot))
             + Len(a.disk.deleted_slots) <= a.disk.capacity
  <2>1. CASE id \in DOMAIN d.pages_table
    <3>1. a = [disk |-> d, slot |-> d.pages_table[id]]
      BY <2>1
    <3>2. /\ Fits(d.pages_table, d.capacity)
          /\ Cardinality(DOMAIN d.pages_table) + Len(d.deleted_slots) <= d.capacity
      BY DEF Sound
    <3>3. Put(d.pages_table, id, d.pages_table[id]) = d.pages_table
      BY <2>1, <3>2, PutKnownFits
    <3>4. d.pages_table[id] \in 1 .. d.capacity - 1
      BY <2>1, <3>2 DEF Fits
    <3> QED BY <3>1, <3>2, <3>3, <3>4
  <2>2. CASE id \notin DOMAIN d.pages_table
    <3>1. a = AllocatePage(d)
      BY <2>2
    <3> HIDE DEF a
    <3>2. /\ Sound(a.disk) /\ a.disk.saved = d.saved
          /\ a.slot \in 1 .. a.disk.capacity - 1
          /\ Cardinality(DOMAIN a.disk.pages_table) + 1
                 + Len(a.disk.deleted_slots) <= a.disk.capacity
      <4>1. CASE d.deleted_slots # <<>>
        <5>1. /\ Sound(a.disk) /\ a.disk.saved = d.saved
              /\ a.slot \in 1 .. a.disk.capacity - 1
              /\ a.disk.capacity = d.capacity
              /\ a.disk.pages_table = d.pages_table
              /\ Len(d.deleted_slots) \in Nat
              /\ Len(a.disk.deleted_slots) = Len(d.deleted_slots) - 1
          BY <3>1, <4>1, AllocateReuses
        <5>2. /\ Cardinality(DOMAIN d.pages_table) \in Nat /\ d.capacity \in Nat
              /\ Cardinality(DOMAIN d.pages_table) + Len(d.deleted_slots) <= d.capacity
          BY FS_CardinalityType DEF Sound, Fits
        <5> QED BY <5>1, <5>2
      <4>2. CASE d.deleted_slots = <<>>
        <5>1. /\ Sound(a.disk) /\ a.disk.saved = d.saved
              /\ a.slot \in 1 .. a.disk.capacity - 1
              /\ a.disk.deleted_slots = <<>>
              /\ Cardinality(DOMAIN a.disk.pages_table) + 1 <= a.disk.capacity
          BY <3>1, <4>2, AllocateAppends
        <5>2. /\ Cardinality(DOMAIN a.disk.pages_table) \in Nat
              /\ a.disk.capacity \in Nat
          BY <5>1, FS_CardinalityType DEF Sound, Fits
        <5> QED BY <5>1, <5>2
      <4> QED BY <4>1, <4>2
    <3>3. /\ Fits(a.disk.pages_table, a.disk.capacity)
          /\ Cardinality(DOMAIN a.disk.pages_table) \in Nat
          /\ Len(a.disk.deleted_slots) \in Nat
          /\ a.disk.capacity \in Nat
      <4>1. a.disk.deleted_slots \in Seq(1 .. a.disk.capacity - 1)
        BY <3>2 DEF Sound
      <4>2. Len(a.disk.deleted_slots) \in Nat
        BY <4>1
      <4> QED BY <3>2, <4>2, FS_CardinalityType DEF Sound, Fits
    <3>4. Cardinality(DOMAIN a.disk.pages_table) + 1 <= a.disk.capacity
      BY <3>2, <3>3
    <3>5. /\ Fits(Put(a.disk.pages_table, id, a.slot), a.disk.capacity)
          /\ \/ Cardinality(DOMAIN Put(a.disk.pages_table, id, a.slot)) =
                    Cardinality(DOMAIN a.disk.pages_table) + 1
             \/ Cardinality(DOMAIN Put(a.disk.pages_table, id, a.slot)) =
                    Cardinality(DOMAIN a.disk.pages_table) + 0
      BY <3>2, <3>3, <3>4, PutFits
    <3> QED BY <3>2, <3>3, <3>5
  <2> QED BY <2>1, <2>2
<1> HIDE DEF a
<1> DEFINE c == a.disk.capacity
           t == Put(a.disk.pages_table, id, a.slot)
           g == WriteSlot(a.disk.file, a.slot, x)
<1>3. w = [capacity |-> c, pages_table |-> t, deleted_slots |-> a.disk.deleted_slots,
           file |-> g, saved |-> d.saved]
  BY <1>1, <1>2 DEF WithPages
<1>4. t[id] = a.slot /\ id \in DOMAIN t
  BY DEF Put
<1>5. LongEnough(g, c) /\ g[a.slot] = x
  <2>1. c \in Nat /\ LongEnough(a.disk.file, c)
    BY <1>2 DEF Sound, Fits
  <2> QED BY <1>2, <2>1, WriteSlotKeeps
<1>6. Sound(w)
  <2>1. /\ a.disk.deleted_slots \in Seq(1 .. c - 1)
        /\ Fits(d.saved.pages_table, d.saved.capacity)
        /\ ~Misread(d.saved)
        /\ d.saved.capacity <= c
    BY <1>2 DEF Sound
  <2> HIDE DEF c, t, g
  <2> QED BY <1>2, <1>3, <1>5, <2>1 DEF Sound, IsDisk, c, t
<1> QED BY <1>3, <1>4, <1>5, <1>6

\* deletePage moves the page's slot to the stack.
LEMMA DeletePageSound ==
    ASSUME NEW d, Sound(d), NEW id \in DOMAIN d.pages_table,
           NEW w, w = DeletePage(d, id)
    PROVE  /\ Sound(w) /\ w.saved = d.saved /\ w.file = d.file
           /\ w.pages_table = Erase(d.pages_table, id)
           /\ w.deleted_slots = Append(d.deleted_slots, d.pages_table[id])
<1> DEFINE t == Erase(d.pages_table, id)
           l == Append(d.deleted_slots, d.pages_table[id])
<1>1. /\ IsDisk(d) /\ Fits(d.pages_table, d.capacity) /\ d.capacity \in Nat
      /\ Cardinality(DOMAIN d.pages_table) \in Nat
      /\ d.pages_table[id] \in 1 .. d.capacity - 1
      /\ d.deleted_slots \in Seq(1 .. d.capacity - 1)
      /\ Cardinality(DOMAIN d.pages_table) + Len(d.deleted_slots) <= d.capacity
  BY FS_CardinalityType DEF Sound, Fits
<1>2. w = [d EXCEPT !.deleted_slots = l, !.pages_table = t]
  BY DEF DeletePage
<1>3. l \in Seq(1 .. d.capacity - 1) /\ Len(l) = Len(d.deleted_slots) + 1
      /\ Len(d.deleted_slots) \in Nat
  BY <1>1
<1>4. Fits(t, d.capacity) /\ Cardinality(DOMAIN t) = Cardinality(DOMAIN d.pages_table) - 1
  BY <1>1, EraseFits
<1> HIDE DEF t, l
<1>5. w = [capacity |-> d.capacity, pages_table |-> t, deleted_slots |-> l,
           file |-> d.file, saved |-> d.saved]
  BY <1>1, <1>2 DEF IsDisk
<1>6. Sound(w)
  BY <1>1, <1>3, <1>4, <1>5 DEF Sound, IsDisk
<1> QED BY <1>5, <1>6 DEF t, l

\* loadMetaData of a directory that fits an older, smaller capacity.
LEMMA LoadSound ==
    ASSUME NEW d, Sound(d), NEW saved, Fits(saved.pages_table, saved.capacity),
           ~Misread(saved), saved.capacity <= d.capacity
    PROVE  Sound(LoadMetaData(saved, d.file, saved.pages_table, <<>>))
<1> DEFINE w == LoadMetaData(saved, d.file, saved.pages_table, <<>>)
<1>1. w = [capacity |-> saved.capacity, pages_table |-> saved.pages_table,
           deleted_slots |-> <<>>, file |-> d.file, saved |-> saved]
  BY DEF LoadMetaData
<1> HIDE DEF w
<1>2. /\ LongEnough(d.file, d.capacity) /\ d.capacity \in Nat /\ saved.capacity \in Nat
      /\ Cardinality(DOMAIN d.file) \in Nat
      /\ Cardinality(DOMAIN saved.pages_table) \in Nat
      /\ Cardinality(DOMAIN saved.pages_table) <= saved.capacity
  BY FS_CardinalityType DEF Sound, Fits, LongEnough
<1>3. LongEnough(d.file, saved.capacity)
  BY <1>2 DEF LongEnough
<1>4. <<>> \in Seq(1 .. saved.capacity - 1) /\ Len(<<>>) = 0
  OBVIOUS
<1>5. /\ w.capacity = saved.capacity /\ w.pages_table = saved.pages_table
      /\ w.deleted_slots = <<>> /\ w.file = d.file /\ w.saved = saved /\ IsDisk(w)
  BY <1>1 DEF IsDisk
<1>6. saved.capacity <= saved.capacity
      /\ Cardinality(DOMAIN saved.pages_table) + 0 <= saved.capacity
  BY <1>2
<1>7. Sound(w)
  BY <1>3, <1>4, <1>5, <1>6 DEF Sound
<1> QED BY <1>7 DEF w

\* What saveMetaData may leave in the file fits.
LEMMA SavedFits ==
    ASSUME NEW d, Sound(d), NEW saved \in SavedMetadata(d)
    PROVE  /\ Fits(saved.pages_table, saved.capacity)
           /\ saved.capacity <= d.capacity
<1>1. /\ Fits(d.pages_table, d.capacity) /\ d.capacity \in Nat
      /\ Fits(d.saved.pages_table, d.saved.capacity)
      /\ d.saved.capacity <= d.capacity
  BY DEF Sound, Fits
<1>2. CASE saved = Metadata(d) \/ saved = d.saved
  BY <1>1, <1>2 DEF Metadata
<1>3. ASSUME NEW S \in SUBSET DOMAIN d.pages_table,
             saved = [Metadata(d) EXCEPT !.pages_table =
                          [i \in S |-> d.pages_table[i]]]
      PROVE  /\ Fits(saved.pages_table, saved.capacity)
             /\ saved.capacity <= d.capacity
  <2>1. /\ saved.capacity = d.capacity
        /\ saved.pages_table = [i \in S |-> d.pages_table[i]]
    BY <1>3 DEF Metadata
  <2> QED BY <1>1, <2>1, PartFits
<1> QED BY <1>2, <1>3 DEF SavedMetadata

LEMMA StackElements ==
    ASSUME NEW S, NEW l \in Seq(S)
    PROVE  \A i \in 1 .. Len(l) : l[i] \in S
  OBVIOUS

LEMMA NoSlots ==
    ASSUME NEW S, NEW f \in [1 .. Len(<<>>) -> S]
    PROVE  f = <<>>
<1>1. 1 .. Len(<<>>) = {}
  OBVIOUS
<1>2. f = [i \in {} |-> f[i]] /\ <<>> = [i \in {} |-> f[i]]
  BY <1>1
<1> QED BY <1>2

\* Metadata that is not misread is loaded as it was saved.
LEMMA LoadClean ==
    ASSUME NEW saved, ~Misread(saved), IsFiniteSet(DOMAIN saved.pages_table),
           Load(saved)
    PROVE  /\ dm' = LoadMetaData(saved, dm.file, saved.pages_table, <<>>)
           /\ garbled' = FALSE
<1>1. /\ saved.map_size = Cardinality(DOMAIN saved.pages_table)
      /\ saved.deleted_slots = <<>> /\ saved.map_size \in Nat
  BY FS_CardinalityType DEF Misread
<1>2. LoadedTables(saved) = {saved.pages_table}
  BY <1>1 DEF LoadedTables
<1>3. \A slots \in [1 .. Len(saved.deleted_slots) -> Garbage] : slots = <<>>
  BY <1>1, NoSlots
<1> QED BY <1>2, <1>3 DEF Load

-----------------------------------------------------------------------------
(* Orderly use. *)

\* In orderly use the known ids are 1 .. n, each in its slot below the capacity.
LEMMA OrderlyIds ==
    ASSUME NEW d, Sound(d), NEW given, Disciplined(d, given),
           NEW n, n = Cardinality(DOMAIN d.pages_table)
    PROVE  /\ n \in Nat /\ DOMAIN d.pages_table = 1 .. n
           /\ \A i \in 1 .. n : d.pages_table[i] = i /\ i \in 1 .. d.capacity - 1
           /\ \A i \in DOMAIN given : i \in 1 .. n /\ d.file[i] = given[i]
<1>1. n \in Nat
  BY FS_CardinalityType DEF Sound, Fits
<1>2. DOMAIN d.pages_table = 1 .. n /\ \A i \in 1 .. n : d.pages_table[i] = i
  BY DEF Disciplined, Consecutive
<1>3. d.pages_table \in [1 .. n -> 1 .. d.capacity - 1]
  BY <1>2 DEF Sound, Fits
<1>4. \A i \in 1 .. n : i \in 1 .. d.capacity - 1
  <2>1. \A i \in 1 .. n : d.pages_table[i] \in 1 .. d.capacity - 1
    BY <1>3
  <2> QED BY <1>2, <2>1, Zenon
<1>5. \A i \in DOMAIN given : i \in 1 .. n /\ d.file[i] = given[i]
  BY <1>2, Zenon DEF Disciplined
<1> QED BY <1>1, <1>2, <1>4, <1>5

\* A page that is appended, or that takes the last deleted slot, follows the
\* others.
LEMMA AppendDisciplined ==
    ASSUME NEW d, Sound(d), NEW given, Disciplined(d, given),
           NEW n, n = Cardinality(DOMAIN d.pages_table),
           NEW w, NEW x, w.saved = d.saved,
           w.pages_table = Put(d.pages_table, n + 1, n + 1),
           w.file[n + 1] = x, \A i \in 1 .. n : w.file[i] = d.file[i],
           \A i \in 1 .. Len(w.deleted_slots) :
               w.deleted_slots[i] = n + 1 + Len(w.deleted_slots) - i + 1
    PROVE  Disciplined(w, Put(given, n + 1, x))
<1>1. /\ n \in Nat /\ DOMAIN d.pages_table = 1 .. n
      /\ \A i \in 1 .. n : d.pages_table[i] = i
      /\ \A i \in DOMAIN given : i \in 1 .. n /\ d.file[i] = given[i]
  BY OrderlyIds
<1>2. /\ DOMAIN w.pages_table = 1 .. n + 1
      /\ \A i \in 1 .. n + 1 : w.pages_table[i] = i
  <2>1. 1 .. n \cup {n + 1} = 1 .. n + 1
    BY <1>1
  <2>2. w.pages_table = [i \in 1 .. n + 1 |-> IF i = n + 1 THEN n + 1
                                              ELSE d.pages_table[i]]
    BY <1>1, <2>1 DEF Put
  <2> QED BY <1>1, <2>2
<1>3. Cardinality(1 .. n + 1) = n + 1
  BY <1>1, FS_Interval
<1>4. Consecutive(w.pages_table) /\ Consecutive(w.saved.pages_table)
  BY <1>2, <1>3 DEF Consecutive, Disciplined
<1>5. ASSUME NEW i \in DOMAIN Put(given, n + 1, x)
      PROVE  i \in DOMAIN w.pages_table /\ w.file[i] = Put(given, n + 1, x)[i]
  <2>1. CASE i = n + 1
    BY <1>1, <1>2, <2>1 DEF Put
  <2>2. CASE i # n + 1
    BY <1>1, <1>2, <1>5, <2>2 DEF Put
  <2> QED BY <2>1, <2>2
<1> QED BY <1>2, <1>3, <1>4, <1>5 DEF Disciplined

LEMMA OverwriteDisciplined ==
    ASSUME NEW d, Sound(d), NEW given, Disciplined(d, given),
           NEW id \in DOMAIN d.pages_table, NEW x
    PROVE  Disciplined(WritePage(d, id, x), Put(given, id, x))
<1> DEFINE n == Cardinality(DOMAIN d.pages_table)
           w == WritePage(d, id, x)
<1>1. /\ n \in Nat /\ DOMAIN d.pages_table = 1 .. n
      /\ \A i \in 1 .. n : d.pages_table[i] = i /\ i \in 1 .. d.capacity - 1
      /\ \A i \in DOMAIN given : i \in 1 .. n /\ d.file[i] = given[i]
  BY OrderlyIds
<1>2. /\ Fits(d.pages_table, d.capacity) /\ d.capacity \in Nat
      /\ LongEnough(d.file, d.capacity)
  BY DEF Sound, Fits
<1>3. w = WithPages(d, WriteSlot(d.file, id, x), d.pages_table)
  BY <1>1, <1>2, PutKnownFits DEF WritePage
<1>4. /\ WriteSlot(d.file, id, x)[id] = x
      /\ \A i \in 1 .. n : i # id => WriteSlot(d.file, id, x)[i] = d.file[i]
  BY <1>1, <1>2, WriteSlotKeeps
<1>5. /\ w.pages_table = d.pages_table /\ w.file = WriteSlot(d.file, id, x)
      /\ w.deleted_slots = d.deleted_slots /\ w.saved = d.saved
  BY <1>3 DEF WithPages
<1> HIDE DEF w, n
<1>6. ASSUME NEW i \in DOMAIN Put(given, id, x)
      PROVE  i \in DOMAIN w.pages_table /\ w.file[i] = Put(given, id, x)[i]
  <2>1. CASE i = id
    BY <1>4, <1>5, <2>1 DEF Put
  <2>2. CASE i # id
    BY <1>1, <1>4, <1>5, <1>6, <2>2 DEF Put
  <2> QED BY <2>1, <2>2
<1> QED BY <1>5, <1>6 DEF Disciplined, w

LEMMA AllocateDisciplined ==
    ASSUME NEW d, Sound(d), NEW given, Disciplined(d, given), d.deleted_slots = <<>>
    PROVE  Disciplined(AllocatePage(d).disk, Put(given, AllocatePage(d).slot, Blank))
<1> DEFINE n == Cardinality(DOMAIN d.pages_table)
           a == AllocatePage(d)
<1>1. /\ n \in Nat /\ \A i \in 1 .. n : i \in 1 .. d.capacity - 1 /\ i # n + 1
  BY OrderlyIds
<1>2. /\ a.disk.saved = d.saved /\ a.slot = n + 1
      /\ a.disk.pages_table = Put(d.pages_table, n + 1, n + 1)
      /\ a.disk.deleted_slots = <<>>
      /\ a.disk.file[n + 1] = Blank
      /\ \A t \in 1 .. d.capacity - 1 : t # n + 1 => a.disk.file[t] = d.file[t]
  BY AllocateAppends
<1>3. \A i \in 1 .. n : a.disk.file[i] = d.file[i]
  BY <1>1, <1>2
<1>4. \A i \in 1 .. Len(a.disk.deleted_slots) : FALSE
  BY <1>2
<1> HIDE DEF a, n
<1>5. Disciplined(a.disk, Put(given, n + 1, Blank))
  BY <1>2, <1>3, <1>4, AppendDisciplined DEF n
<1> QED BY <1>2, <1>5 DEF a

LEMMA WriteNewDisciplined ==
    ASSUME NEW d, Sound(d), NEW given, Disciplined(d, given),
           NEW id, id = NextId(d), NEW x
    PROVE  Disciplined(WritePage(d, id, x), Put(given, id, x))
<1> PICK n : n = Cardinality(DOMAIN d.pages_table)
  OBVIOUS
<1> PICK a : a = AllocatePage(d)
  OBVIOUS
<1> PICK w : w = WritePage(d, id, x)
  OBVIOUS
<1>1. /\ n \in Nat /\ DOMAIN d.pages_table = 1 .. n /\ id = n + 1
      /\ \A i \in 1 .. n : i \in 1 .. d.capacity - 1 /\ i # n + 1
  BY OrderlyIds DEF NextId
<1>2. w = WithPages(a.disk, WriteSlot(a.disk.file, a.slot, x),
                    Put(a.disk.pages_table, id, a.slot))
  BY <1>1 DEF WritePage
<1>3. /\ Sound(a.disk) /\ a.disk.saved = d.saved /\ a.slot = n + 1
      /\ a.slot \in 1 .. a.disk.capacity - 1
      /\ d.capacity <= a.disk.capacity
      /\ Put(a.disk.pages_table, id, a.slot) = Put(d.pages_table, n + 1, n + 1)
      /\ \A i \in 1 .. n : a.disk.file[i] = d.file[i]
      /\ \A i \in 1 .. Len(a.disk.deleted_slots) :
             a.disk.deleted_slots[i] = n + 1 + Len(a.disk.deleted_slots) - i + 1
  <2>1. CASE d.deleted_slots # <<>>
    <3> PICK len : len = Len(d.deleted_slots)
      OBVIOUS
    <3>1. /\ Sound(a.disk) /\ a.disk.saved = d.saved
          /\ a.slot = d.deleted_slots[len]
          /\ len \in Nat \ {0}
          /\ a.slot \in 1 .. a.disk.capacity - 1
          /\ a.disk.capacity = d.capacity
          /\ a.disk.pages_table = d.pages_table
          /\ a.disk.file = d.file
          /\ Len(a.disk.deleted_slots) = len - 1
          /\ \A i \in 1 .. len - 1 : a.disk.deleted_slots[i] = d.deleted_slots[i]
      BY <2>1, AllocateReuses
    <3>2. \A i \in 1 .. len : d.deleted_slots[i] = n + len - i + 1
      BY DEF Disciplined
    <3>3. d.capacity \in Nat
      BY DEF Sound, Fits
    <3>4. a.slot = n + 1
      BY <1>1, <3>1, <3>2
    <3>5. ASSUME NEW i \in 1 .. len - 1
          PROVE  a.disk.deleted_slots[i] = n + 1 + (len - 1) - i + 1
      <4>1. i \in 1 .. len
        BY <3>1
      <4>2. a.disk.deleted_slots[i] = n + len - i + 1
        BY <3>1, <3>2, <4>1
      <4>3. n \in Int /\ len \in Int /\ i \in Int
        BY <1>1, <3>1
      <4>4. n + 1 + (len - 1) - i + 1 = n + len - i + 1
        BY <4>3
      <4> QED BY <4>2, <4>4
    <3> QED BY <1>1, <3>1, <3>3, <3>4, <3>5
  <2>2. CASE d.deleted_slots = <<>>
    <3>1. /\ Sound(a.disk) /\ a.disk.saved = d.saved /\ a.slot = n + 1
          /\ a.slot \in 1 .. a.disk.capacity - 1
          /\ a.disk.pages_table = Put(d.pages_table, n + 1, n + 1)
          /\ a.disk.deleted_slots = <<>>
          /\ \A t \in 1 .. d.capacity - 1 : t # n + 1 => a.disk.file[t] = d.file[t]
          /\ d.capacity <= a.disk.capacity
      BY <2>2, AllocateAppends
    <3>2. Put(Put(d.pages_table, n + 1, n + 1), n + 1, n + 1) =
              Put(d.pages_table, n + 1, n + 1)
      BY DEF Put
    <3>3. \A i \in 1 .. Len(a.disk.deleted_slots) : FALSE
      BY <3>1
    <3> QED BY <1>1, <3>1, <3>2, <3>3
  <2> QED BY <2>1, <2>2
<1>4. /\ w.saved = d.saved /\ w.pages_table = Put(d.pages_table, n + 1, n + 1)
      /\ w.file = WriteSlot(a.disk.file, n + 1, x)
      /\ w.deleted_slots = a.disk.deleted_slots
  BY <1>2, <1>3 DEF WithPages
<1>5. /\ a.disk.capacity \in Nat /\ LongEnough(a.disk.file, a.disk.capacity)
      /\ d.capacity \in Nat
  BY <1>3 DEF Sound, Fits
<1>6. /\ w.file[n + 1] = x
      /\ \A t \in 1 .. a.disk.capacity - 1 : t # n + 1 => w.file[t] = a.disk.file[t]
  BY <1>3, <1>4, <1>5, WriteSlotKeeps
<1>7. \A i \in 1 .. n : w.file[i] = d.file[i]
  <2>1. \A i \in 1 .. n : i \in 1 .. a.disk.capacity - 1
    BY <1>1, <1>3, <1>5
  <2> QED BY <1>1, <1>3, <1>6, <2>1
<1>8. Disciplined(w, Put(given, n + 1, x))
  <2>1. \A i \in 1 .. Len(w.deleted_slots) :
            w.deleted_slots[i] = n + 1 + Len(w.deleted_slots) - i + 1
    BY <1>3, <1>4
  <2>2. w.file[n + 1] = x
    BY <1>6
  <2> QED BY <1>4, <1>7, <2>1, <2>2, AppendDisciplined
<1> QED BY <1>1, <1>8

LEMMA DeleteDisciplined ==
    ASSUME NEW d, Sound(d), NEW given, Disciplined(d, given),
           NEW id \in DOMAIN d.pages_table, id = Cardinality(DOMAIN d.pages_table)
    PROVE  Disciplined(DeletePage(d, id), Erase(given, id))
<1> PICK w : w = DeletePage(d, id)
  OBVIOUS
<1> PICK len : len = Len(d.deleted_slots)
  OBVIOUS
<1>1. /\ id \in Nat /\ DOMAIN d.pages_table = 1 .. id
      /\ \A i \in 1 .. id : d.pages_table[i] = i
      /\ \A i \in DOMAIN given : i \in 1 .. id /\ d.file[i] = given[i]
  BY OrderlyIds
<1>2. /\ w.saved = d.saved /\ w.file = d.file
      /\ w.pages_table = Erase(d.pages_table, id)
      /\ w.deleted_slots = Append(d.deleted_slots, id)
  <2>1. d.pages_table[id] = id
    BY <1>1
  <2> QED BY <2>1, DeletePageSound
<1>3. /\ id - 1 \in Nat /\ DOMAIN w.pages_table = 1 .. id - 1
      /\ \A i \in 1 .. id - 1 : w.pages_table[i] = i
  <2>1. 1 .. id \ {id} = 1 .. id - 1 /\ id - 1 \in Nat
    BY <1>1
  <2> QED BY <1>1, <1>2, <2>1 DEF Erase
<1>4. Cardinality(1 .. id - 1) = id - 1
  BY <1>3, FS_Interval
<1>5. Consecutive(w.pages_table) /\ Consecutive(w.saved.pages_table)
  BY <1>2, <1>3, <1>4 DEF Consecutive, Disciplined
<1>6. \A i \in 1 .. Len(w.deleted_slots) :
          w.deleted_slots[i] = id - 1 + Len(w.deleted_slots) - i + 1
  <2>1. d.deleted_slots \in Seq(1 .. d.capacity - 1)
    BY DEF Sound
  <2>2. /\ len \in Nat /\ Len(w.deleted_slots) = len + 1
        /\ w.deleted_slots[len + 1] = id
        /\ \A i \in 1 .. len : w.deleted_slots[i] = d.deleted_slots[i]
    BY <1>2, <2>1
  <2>3. \A i \in 1 .. len : d.deleted_slots[i] = id + len - i + 1
    BY DEF Disciplined
  <2> SUFFICES ASSUME NEW i \in 1 .. len + 1
               PROVE  w.deleted_slots[i] = id - 1 + (len + 1) - i + 1
    BY <2>2
  <2>4. CASE i = len + 1
    BY <1>1, <2>2, <2>4
  <2>5. CASE i # len + 1
    <3>1. i \in 1 .. len
      BY <2>2, <2>5
    <3> QED BY <1>1, <2>2, <2>3, <3>1
  <2> QED BY <2>4, <2>5
<1>7. \A i \in DOMAIN Erase(given, id) :
          i \in DOMAIN w.pages_table /\ w.file[i] = Erase(given, id)[i]
  <2>1. \A i \in 1 .. id : i # id => i \in 1 .. id - 1
    BY <1>1
  <2> QED BY <1>1, <1>2, <1>3, <2>1 DEF Erase
<1> QED BY <1>3, <1>4, <1>5, <1>6, <1>7 DEF Disciplined

-----------------------------------------------------------------------------
(* The steps. *)

LEMMA InitInv == DiskInit => DInv
<1> SUFFICES ASSUME DiskInit PROVE DInv
  OBVIOUS
<1> DEFINE t == [i \in {} |-> 0]
           f == [s \in 0 .. FILE_CAPACITY - 1 |-> Hole]
           empty == [capacity |-> FILE_CAPACITY, map_size |-> 0,
                     pages_table |-> t, deleted_slots |-> <<>>]
<1>1. dm = [capacity |-> FILE_CAPACITY, pages_table |-> t, deleted_slots |-> <<>>,
            file |-> f, saved |-> empty]
  BY DEF DiskInit, NewDisk, LoadMetaData
<1>2. DOMAIN t = {} /\ IsFiniteSet({}) /\ Cardinality({}) = 0
  BY FS_EmptySet
<1>3. Fits(t, FILE_CAPACITY)
  <2>1. t \in [{} -> 1 .. FILE_CAPACITY - 1]
    OBVIOUS
  <2> QED BY <1>2, <2>1, DiskConstants DEF Fits
<1>4. LongEnough(f, FILE_CAPACITY)
  BY DiskConstants, FileOfLength
<1>5. Consecutive(t)
  BY <1>2 DEF Consecutive
<1> HIDE DEF t, f
<1>6. Sound(dm)
  <2>1. <<>> \in Seq(1 .. FILE_CAPACITY - 1) /\ Len(<<>>) = 0
    OBVIOUS
  <2>2. FILE_CAPACITY <= FILE_CAPACITY /\ Cardinality(DOMAIN t) + 0 <= FILE_CAPACITY
    BY <1>2, DiskConstants
  <2>3. ~Misread(empty)
    BY <1>2 DEF Misread
  <2> QED BY <1>1, <1>3, <1>4, <2>1, <2>2, <2>3 DEF Sound, IsDisk
<1>7. Disciplined(dm, stored)
  BY <1>1, <1>5 DEF DiskInit, Disciplined
<1> QED BY <1>6, <1>7 DEF DiskInit, DInv

\* What a step between two sound states leaves to show.
LEMMA SoundStep ==
    ASSUME DInv, Sound(dm'), garbled' = FALSE,
           orderly' \in BOOLEAN, orderly' => Disciplined(dm', stored')
    PROVE  DInv'
  BY DEF DInv

LEMMA OverwriteStep ==
    ASSUME DInv, NEW id, NEW x, Overwrite(id, x) \/ WriteNew(id, x)
    PROVE  DInv'
<1>1. /\ ~garbled /\ Sound(dm) /\ dm' = WritePage(dm, id, x)
      /\ stored' = Put(stored, id, x) /\ garbled' = FALSE
      /\ orderly' \in BOOLEAN
      /\ orderly' => Disciplined(dm, stored) /\ (id \in Known \/ id = NextId(dm))
  BY DEF DInv, Overwrite, WriteNew
<1>2. Sound(dm')
  BY <1>1, WritePageSound
<1>3. ASSUME orderly' PROVE Disciplined(dm', stored')
  BY <1>1, <1>3, OverwriteDisciplined, WriteNewDisciplined DEF Known
<1> QED BY <1>1, <1>2, <1>3, SoundStep

LEMMA AllocateStep ==
    ASSUME DInv, Allocate
    PROVE  DInv'
<1>1. /\ ~garbled /\ Sound(dm) /\ dm' = AllocatePage(dm).disk
      /\ stored' = Put(stored, AllocatePage(dm).slot, Blank) /\ garbled' = FALSE
      /\ orderly' \in BOOLEAN
      /\ orderly' => Disciplined(dm, stored) /\ dm.deleted_slots = <<>>
  BY DEF DInv, Allocate
<1>2. Sound(dm')
  BY <1>1, AllocateReuses, AllocateAppends
<1>3. ASSUME orderly' PROVE Disciplined(dm', stored')
  BY <1>1, <1>3, AllocateDisciplined
<1> QED BY <1>1, <1>2, <1>3, SoundStep

LEMMA DeleteStep ==
    ASSUME DInv, NEW id, Delete(id)
    PROVE  DInv'
<1>1. /\ ~garbled /\ Sound(dm) /\ id \in DOMAIN dm.pages_table
      /\ dm' = DeletePage(dm, id)
      /\ stored' = Erase(stored, id) /\ garbled' = FALSE
      /\ orderly' \in BOOLEAN
      /\ orderly' => /\ Disciplined(dm, stored)
                     /\ id = Cardinality(DOMAIN dm.pages_table)
  BY DEF DInv, Delete, Known
<1>2. Sound(dm')
  BY <1>1, DeletePageSound
<1>3. ASSUME orderly' PROVE Disciplined(dm', stored')
  BY <1>1, <1>3, DeleteDisciplined
<1> QED BY <1>1, <1>2, <1>3, SoundStep

\* A clean restart keeps the directory as long as it fits the metadata page.
LEMMA ReopenStep ==
    ASSUME DInv, Reopen
    PROVE  DInv'
<1>1. PICK saved \in SavedMetadata(dm) :
          /\ Load(saved)
          /\ orderly' = (orderly /\ saved = Metadata(dm) /\ ~Misread(saved))
  BY DEF Reopen
<1>2. /\ ~garbled /\ Sound(dm) /\ stored' = stored
      /\ orderly \in BOOLEAN
      /\ orderly => Disciplined(dm, stored)
  BY DEF Reopen, DInv
<1>3. /\ Fits(saved.pages_table, saved.capacity)
      /\ saved.capacity <= dm.capacity
  BY <1>1, <1>2, SavedFits
<1>4. CASE Misread(saved)
  BY <1>1, <1>4 DEF DInv, Load, Misread
<1>5. CASE ~Misread(saved)
  <2>1. /\ dm' = LoadMetaData(saved, dm.file, saved.pages_table, <<>>)
        /\ garbled' = FALSE
    BY <1>1, <1>3, <1>5, LoadClean DEF Fits
  <2>2. Sound(dm')
    BY <1>2, <1>3, <1>5, <2>1, LoadSound
  <2>3. ASSUME orderly' PROVE Disciplined(dm', stored')
    <3>1. /\ Disciplined(dm, stored) /\ saved = Metadata(dm)
      BY <1>1, <1>2, <2>3
    <3>2. /\ dm'.pages_table = dm.pages_table /\ dm'.file = dm.file
          /\ dm'.saved.pages_table = dm.pages_table
          /\ dm'.deleted_slots = <<>>
      BY <2>1, <3>1 DEF LoadMetaData, Metadata
    <3>3. \A i \in 1 .. Len(dm'.deleted_slots) : FALSE
      BY <3>2
    <3> QED BY <1>2, <3>1, <3>2, <3>3 DEF Disciplined
  <2>4. orderly' \in BOOLEAN
    BY <1>1, <1>2
  <2> QED BY <2>1, <2>2, <2>3, <2>4, SoundStep
<1> QED BY <1>4, <1>5

\* A crash brings back the saved directory: the pages it names kept their slots.
LEMMA CrashStep ==
    ASSUME DInv, Crash
    PROVE  DInv'
<1>1. /\ ~garbled /\ Sound(dm) /\ Load(dm.saved)
      /\ stored' = [id \in DOMAIN stored \cap DOMAIN dm.saved.pages_table |->
                       stored[id]]
      /\ orderly' = (orderly /\ ~Misread(dm.saved)
                             /\ DOMAIN dm.saved.pages_table \subseteq Known)
      /\ orderly \in BOOLEAN
      /\ orderly => Disciplined(dm, stored)
  BY DEF Crash, DInv
<1>2. /\ Fits(dm.saved.pages_table, dm.saved.capacity)
      /\ ~Misread(dm.saved) /\ dm.saved.capacity <= dm.capacity
  BY <1>1 DEF Sound
<1>3. /\ dm' = LoadMetaData(dm.saved, dm.file, dm.saved.pages_table, <<>>)
      /\ garbled' = FALSE
  BY <1>1, <1>2, LoadClean DEF Fits
<1>4. Sound(dm')
  BY <1>1, <1>2, <1>3, LoadSound
<1>5. ASSUME orderly' PROVE Disciplined(dm', stored')
  <2>1. Disciplined(dm, stored)
    BY <1>1, <1>5
  <2>2. /\ dm'.pages_table = dm.saved.pages_table /\ dm'.file = dm.file
        /\ dm'.saved = dm.saved /\ dm'.deleted_slots = <<>>
    BY <1>3 DEF LoadMetaData
  <2>3. \A i \in 1 .. Len(dm'.deleted_slots) : FALSE
    BY <2>2
  <2>4. \A i \in DOMAIN stored' : /\ i \in DOMAIN dm.saved.pages_table
                                  /\ dm.file[i] = stored'[i]
    BY <1>1, <2>1 DEF Disciplined
  <2> QED BY <2>1, <2>2, <2>3, <2>4 DEF Disciplined
<1>6. orderly' \in BOOLEAN
  BY <1>1
<1> QED BY <1>3, <1>4, <1>5, <1>6, SoundStep

LEMMA NextKeepsInv == DInv /\ [DiskNext]_diskVars => DInv'
<1> SUFFICES ASSUME DInv, [DiskNext]_diskVars PROVE DInv'
  OBVIOUS
<1>1. ASSUME NEW id \in Ids, NEW x \in Data, Overwrite(id, x) \/ WriteNew(id, x)
      PROVE  DInv'
  BY <1>1, OverwriteStep
<1>2. CASE Allocate
  BY <1>2, AllocateStep
<1>3. ASSUME NEW id \in Ids, Delete(id) PROVE DInv'
  BY <1>3, DeleteStep
<1>4. CASE Reopen
  BY <1>4, ReopenStep
<1>5. CASE Crash
  BY <1>5, CrashStep
<1>6. CASE UNCHANGED diskVars
  BY <1>6 DEF diskVars, DInv
<1> QED BY <1>1, <1>2, <1>3, <1>4, <1>5, <1>6 DEF DiskNext

-----------------------------------------------------------------------------
(* The theorems. *)

\* The inductive invariant: until metadata is misread, directory, free stack and
\* file of the current and of the saved metadata are sound together, what is in
\* the file can be loaded without reading past it, and orderly use keeps ids,
\* slots and contents in step.  Disorderly use, and a directory that overruns
\* its page when it is saved, are steps like the others; the load that follows
\* an overrun is where the code takes values nobody wrote.
THEOREM DiskInvariantHolds == DiskSpec => []DInv
  BY InitInv, NextKeepsInv, PTL DEF DiskSpec

\* Up to the first misread load of metadata, no slot that the directory or the
\* free stack names lies outside the file or on the metadata page.
THEOREM SlotsStayInFile == DiskSpec => []SlotsInFile
<1>1. DInv => SlotsInFile
  <2> SUFFICES ASSUME DInv, ~garbled
               PROVE  /\ dm.capacity <= Cardinality(DOMAIN dm.file)
                      /\ \A id \in Known : dm.pages_table[id] \in 1 .. dm.capacity - 1
                      /\ \A i \in 1 .. Len(dm.deleted_slots) :
                             dm.deleted_slots[i] \in 1 .. dm.capacity - 1
    BY DEF SlotsInFile
  <2>1. /\ LongEnough(dm.file, dm.capacity) /\ Fits(dm.pages_table, dm.capacity)
        /\ dm.deleted_slots \in Seq(1 .. dm.capacity - 1)
    BY DEF DInv, Sound
  <2>2. \A i \in 1 .. Len(dm.deleted_slots) :
            dm.deleted_slots[i] \in 1 .. dm.capacity - 1
    BY <2>1, StackElements
  <2> QED BY <2>1, <2>2 DEF LongEnough, Fits, Known
<1> QED BY <1>1, DiskInvariantHolds, PTL

\* Under orderly use a page's id is its slot, and the deleted slots follow.
THEOREM IdsStaySlots == DiskSpec => []IdsAreSlots
<1>1. DInv => IdsAreSlots
  BY DEF DInv, Disciplined, Consecutive, IdsAreSlots, Known
<1> QED BY <1>1, DiskInvariantHolds, PTL

\* Under orderly use every page reads back what it was last given.
THEOREM PagesReadBack == DiskSpec => []ReadsBack
<1>1. DInv => ReadsBack
  <2> SUFFICES ASSUME DInv, orderly, NEW id \in DOMAIN stored
               PROVE  id \in Known /\ ReadPage(dm, id, Hole) = stored[id]
    BY DEF ReadsBack
  <2>1. Sound(dm) /\ Disciplined(dm, stored)
    BY DEF DInv
  <2> PICK n : n = Cardinality(DOMAIN dm.pages_table)
    OBVIOUS
  <2>2. /\ id \in DOMAIN dm.pages_table /\ dm.pages_table[id] = id
        /\ id \in 1 .. dm.capacity - 1 /\ dm.file[id] = stored[id]
    BY <2>1, OrderlyIds
  <2>3. id \in DOMAIN dm.file
    <3>1. dm.capacity \in Nat /\ LongEnough(dm.file, dm.capacity)
      BY <2>1 DEF Sound, Fits
    <3> QED BY <2>2, <3>1, WriteSlotKeeps
  <2> QED BY <2>2, <2>3 DEF ReadPage, Known
<1> QED BY <1>1, DiskInvariantHolds, PTL
=============================================================================
