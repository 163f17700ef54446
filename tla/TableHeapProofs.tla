-------------------------- MODULE TableHeapProofs --------------------------
(***************************************************************************)
(* Proofs about TableHeap, for every page size, every length of tuples,    *)
(* every set of predicates and every value of the bounds: the layout of    *)
(* the pages, the chain, what reaches the file, and the scans.             *)
(*                                                                         *)
(* None of the properties is inductive.  That a scan which ends has        *)
(* returned every tuple that was live needs the position of what it has    *)
(* not seen yet (ScanSound), that no page outside starting_rid and         *)
(* stopping_rid holds a tuple (Bracketed), and that no eviction takes a    *)
(* tuple away: a slot deleted in the file is deleted in memory (Agree).    *)
(* The room on a page needs the types of its slots (PageSound).            *)
(*                                                                         *)
(* The module goes from pages to heaps to scans: a lemma per operation     *)
(* says what it keeps, and StepSound has a step per action.                *)
(***************************************************************************)
EXTENDS TableHeap, FiniteSetTheorems, TLAPS

-----------------------------------------------------------------------------
(* The inductive invariant, HInv. *)

Rids == [page : Int, slot : Int]

SlotRecords == [offset : Nat, size : Nat, deleted : BOOLEAN, is_deleted : BOOLEAN,
                value : Values]

PageSound(p) ==
    /\ NumTuples(p) \in Nat
    /\ p.free_space_pointer <= PAGE_SIZE
    /\ p \in [next_page_id : Int, free_space_pointer : Nat,
              slots : [0 .. NumTuples(p) - 1 -> SlotRecords]]
    /\ WellFormed(p)

\* The type of the heap.  Pages are numbered 1 .. last_page_id.
HeapShaped(h) ==
    /\ h = [pages |-> h.pages, disk |-> h.disk, dirty |-> h.dirty,
            last_page_id |-> h.last_page_id, num_of_tuples |-> h.num_of_tuples,
            starting_rid |-> h.starting_rid, stopping_rid |-> h.stopping_rid]
    /\ h.last_page_id \in Nat /\ h.last_page_id >= 2
    /\ h.pages = [p \in 1 .. h.last_page_id |-> h.pages[p]]
    /\ h.disk = [p \in 1 .. h.last_page_id |-> h.disk[p]]
    /\ h.dirty \subseteq 1 .. h.last_page_id
    /\ h.num_of_tuples \in Int
    /\ h.starting_rid \in Rids /\ h.stopping_rid \in Rids

Linked(h) ==
    \A p \in 1 .. h.last_page_id :
        h.pages[p].next_page_id = IF p = h.last_page_id THEN -1 ELSE p + 1

\* Pages p and q have the same layout, and p is deleted where q is.
Agree(p, q) ==
    /\ p.next_page_id = q.next_page_id
    /\ p.free_space_pointer = q.free_space_pointer
    /\ DOMAIN p.slots = DOMAIN q.slots
    /\ \A s \in DOMAIN p.slots :
         /\ p.slots[s].offset = q.slots[s].offset
         /\ p.slots[s].size = q.slots[s].size
         /\ q.slots[s].deleted => p.slots[s].deleted

\* All tuples lie between starting_rid and the last page, once there are any.
\* The slot of starting_rid may be -1, where insertTuple found no room at first.
Bracketed(h) ==
    IF h.starting_rid.page = -1
    THEN /\ h.stopping_rid.page = -1
         /\ \A p \in 1 .. h.last_page_id : NumTuples(h.pages[p]) = 0
    ELSE /\ h.starting_rid.page \in 1 .. h.last_page_id
         /\ h.starting_rid.slot <= 0
         /\ h.stopping_rid.page = h.last_page_id
         /\ \A p \in 1 .. h.starting_rid.page - 1 : NumTuples(h.pages[p]) = 0

PagesSound(h) ==
    /\ HeapShaped(h)
    /\ \A p \in 1 .. h.last_page_id : PageSound(h.pages[p]) /\ PageSound(h.disk[p])
    /\ Linked(h)
    /\ \A p \in (1 .. h.last_page_id) \ h.dirty : Agree(h.pages[p], h.disk[p])

HeapSound(h) == PagesSound(h) /\ Bracketed(h)

Statements == [kind : {"update", "delete"}, match : Predicates,
               value : Values \cup {{}}, curr_rid_pointer : Rids, unseen : SUBSET Rids]

\* The position r is the cursor c or behind it in the order of the scan.
Ahead(c, r) == r.page > c.page \/ (r.page = c.page /\ r.slot >= c.slot)

\* What the scan has not returned yet is still live, and its cursor will come by.
ScanSound(h, st) ==
    /\ st \in Statements
    /\ st.kind = "update" => st.value \in Values
    /\ IF st.curr_rid_pointer.page = -1 THEN st.unseen = {}
       ELSE /\ st.curr_rid_pointer.page \in 1 .. h.last_page_id
            /\ h.starting_rid.page # -1
    /\ st.unseen \subseteq LiveRIDs(h)
    /\ \A r \in st.unseen : Ahead(st.curr_rid_pointer, r)

HInv ==
    /\ HeapSound(heap)
    /\ stmt # NoStmt => ScanSound(heap, stmt)

-----------------------------------------------------------------------------
(* Pages. *)

\* Padding rounds up.
LEMMA PaddedBounds ==
    ASSUME NEW n \in Nat
    PROVE  Padded(n) \in Nat /\ n <= Padded(n)
  BY DEF Padded, Align

\* A tuple has a length.
LEMMA LengthIsNat == ASSUME NEW v \in Values PROVE Length(v) \in Nat
  <1>1. Length(v) \in 1 .. MaxLength BY PageConstants
  <1>2. MaxLength \in Nat BY DEF MaxLength
  <1> QED BY <1>1, <1>2

\* The slots of a sound page are numbered from 0.
LEMMA SlotsOf ==
    ASSUME NEW p, PageSound(p)
    PROVE  /\ NumTuples(p) \in Nat
           /\ DOMAIN p.slots = 0 .. NumTuples(p) - 1
           /\ p.slots \in [0 .. NumTuples(p) - 1 -> SlotRecords]
           /\ p.next_page_id \in Int /\ p.free_space_pointer \in Nat
           /\ FreeSize(p) >= 0
           /\ \A s \in DOMAIN p.slots : p.slots[s] \in SlotRecords
  BY DEF PageSound, WellFormed

\* A tuple is there exactly when its slot is not deleted.
LEMMA LiveUnlessDeleted ==
    ASSUME NEW p, PageSound(p), NEW s
    PROVE  IsLive(p, s) <=> s \in DOMAIN p.slots /\ ~p.slots[s].deleted
  BY SlotsOf DEF IsLive, PageSound, WellFormed, SlotRecords

\* The number of tuples is the number of slots.
LEMMA CountSlots ==
    ASSUME NEW p, NEW n \in Nat, DOMAIN p.slots = 0 .. n - 1
    PROVE  NumTuples(p) = n
  <1>1. Cardinality(0 .. n - 1) = n
    <2>1. 0 \in Int /\ n - 1 \in Int OBVIOUS
    <2>2. Cardinality(0 .. n - 1) = IF 0 > n - 1 THEN 0 ELSE n - 1 - 0 + 1
      BY <2>1, FS_Interval
    <2> QED BY <2>2
  <1> QED BY <1>1 DEF NumTuples

\* A new page is sound and empty.
LEMMA BlankPageSound ==
    PageSound(BlankPage) /\ NumTuples(BlankPage) = 0 /\ BlankPage.next_page_id = -1
  <1>1. DOMAIN BlankPage.slots = 0 .. 0 - 1 BY DEF BlankPage
  <1>2. NumTuples(BlankPage) = 0
    <2> HIDE DEF BlankPage
    <2> QED BY <1>1, CountSlots
  <1>3. DOMAIN BlankPage.slots = {} BY <1>1
  <1>4. HeaderSize \in Nat /\ SlotSize \in Nat /\ PAGE_SIZE \in Nat /\ PAGE_SIZE >= HeaderSize
    BY PageConstants
  <1>5. FreeSize(BlankPage) = PAGE_SIZE - HeaderSize
    BY <1>2, <1>4 DEF FreeSize, BlankPage
  <1>6. BlankPage \in [next_page_id : Int, free_space_pointer : Nat,
                       slots : [0 .. NumTuples(BlankPage) - 1 -> SlotRecords]]
    <2>1. [i \in {} |-> 0] \in [{} -> SlotRecords] OBVIOUS
    <2>2. 0 .. NumTuples(BlankPage) - 1 = {} BY <1>2
    <2> QED BY <2>1, <2>2, <1>4 DEF BlankPage
  <1>7. WellFormed(BlankPage)
    BY <1>1, <1>2, <1>3, <1>4, <1>5 DEF WellFormed
  <1> QED BY <1>2, <1>6, <1>7 DEF PageSound, BlankPage

\* Writing one tuple leaves every offset, every size and every slot flag alone.
LEMMA SerializedSlots ==
    ASSUME NEW n \in Nat, NEW slots \in [0 .. n - 1 -> SlotRecords],
           NEW s \in 0 .. n - 1, NEW v \in Values, NEW flag \in BOOLEAN
    PROVE  LET new == Serialized(slots, s, v, flag) IN
           /\ new \in [0 .. n - 1 -> SlotRecords]
           /\ \A t \in 0 .. n - 1 :
                /\ new[t].offset = slots[t].offset /\ new[t].size = slots[t].size
                /\ new[t].deleted = slots[t].deleted
                /\ t # s => new[t].value = slots[t].value
                /\ t # s /\ new[t].is_deleted => slots[t].is_deleted
           /\ new[s].value = v /\ new[s].is_deleted = flag
  <1> DEFINE new == Serialized(slots, s, v, flag)
  <1>1. new = [t \in 0 .. n - 1 |-> new[t]] BY DEF Serialized
  <1>2. ASSUME NEW t \in 0 .. n - 1
        PROVE  /\ new[t] \in SlotRecords
               /\ new[t].offset = slots[t].offset /\ new[t].size = slots[t].size
               /\ new[t].deleted = slots[t].deleted
               /\ t # s => new[t].value = slots[t].value
               /\ t # s /\ new[t].is_deleted => slots[t].is_deleted
               /\ t = s => new[t].value = v /\ new[t].is_deleted = flag
    <2>0. slots[t] \in SlotRecords OBVIOUS
    <2>1. CASE t = s
      <3>1. new[t] = [slots[t] EXCEPT !.value = v, !.is_deleted = flag]
        BY <2>1 DEF Serialized
      <3> HIDE DEF new
      <3> QED BY <3>1, <2>0, <2>1 DEF SlotRecords
    <2>2. CASE t # s
      <3>1. new[t] = [slots[t] EXCEPT !.is_deleted = FALSE] \/ new[t] = slots[t]
        BY <2>2 DEF Serialized
      <3> HIDE DEF new
      <3> QED BY <3>1, <2>0, <2>2 DEF SlotRecords
    <2> QED BY <2>1, <2>2
  <1> HIDE DEF new
  <1>3. new \in [0 .. n - 1 -> SlotRecords] BY <1>1, <1>2
  <1>4. /\ new \in [0 .. n - 1 -> SlotRecords]
        /\ \A t \in 0 .. n - 1 :
             /\ new[t].offset = slots[t].offset /\ new[t].size = slots[t].size
             /\ new[t].deleted = slots[t].deleted
             /\ t # s => new[t].value = slots[t].value
             /\ t # s /\ new[t].is_deleted => slots[t].is_deleted
        /\ new[s].value = v /\ new[s].is_deleted = flag
    BY <1>2, <1>3
  <1> QED BY <1>4 DEF new

\* insertTuple where the tuple fits: a slot more, behind the old ones, whose
\* offsets, sizes and flags stay.
LEMMA WithTupleSound ==
    ASSUME NEW p, PageSound(p), NEW v \in Values, Fits(p, v)
    PROVE  LET q == WithTuple(p, v)
               n == NumTuples(p)
           IN  /\ PageSound(q)
               /\ NumTuples(q) = n + 1
               /\ q.next_page_id = p.next_page_id
               /\ \A s \in 0 .. n - 1 : q.slots[s].deleted = p.slots[s].deleted
               /\ ~q.slots[n].deleted
  <1> DEFINE n == NumTuples(p)
             L == Padded(Length(v))
             offset == p.free_space_pointer - L
             slot == [offset |-> offset, size |-> L,
                      deleted |-> FALSE, is_deleted |-> FALSE, value |-> v]
             room == [i \in 0 .. n |-> IF i < n THEN p.slots[i] ELSE slot]
             slots == Serialized(room, n, v, FALSE)
             q == WithTuple(p, v)
  <1>1. /\ n \in Nat /\ DOMAIN p.slots = 0 .. n - 1
        /\ p.slots \in [0 .. n - 1 -> SlotRecords]
        /\ p.next_page_id \in Int /\ p.free_space_pointer \in Nat
        /\ FreeSize(p) >= 0
    BY SlotsOf
  <1>2. L \in Nat /\ Length(v) <= L /\ Length(v) \in Nat
    BY LengthIsNat, PaddedBounds
  <1>3. HeaderSize \in Nat /\ SlotSize \in Nat BY PageConstants
  <1>4. FreeSize(p) >= L + SlotSize BY DEF Fits
  <1>5. FreeSize(p) = p.free_space_pointer - (HeaderSize + n * SlotSize)
    BY DEF FreeSize
  <1>a. n * SlotSize \in Nat BY <1>1, <1>3
  <1>b. (n + 1) * SlotSize = n * SlotSize + SlotSize BY <1>1, <1>3
  <1>6. /\ offset \in Nat /\ offset + L = p.free_space_pointer
        /\ offset - (HeaderSize + (n + 1) * SlotSize) >= 0
    <2> HIDE DEF n, L
    <2> QED BY <1>1, <1>2, <1>3, <1>4, <1>5, <1>a, <1>b
  <1>7. slot \in SlotRecords BY <1>2, <1>6 DEF SlotRecords
  <1>8. room \in [0 .. (n + 1) - 1 -> SlotRecords]
    <2> HIDE DEF slot, n
    <2> QED BY <1>1, <1>7
  <1>9. /\ slots \in [0 .. (n + 1) - 1 -> SlotRecords]
        /\ \A t \in 0 .. (n + 1) - 1 :
             /\ slots[t].offset = room[t].offset /\ slots[t].size = room[t].size
             /\ slots[t].deleted = room[t].deleted
             /\ t # n => slots[t].value = room[t].value
             /\ t # n /\ slots[t].is_deleted => room[t].is_deleted
        /\ slots[n].value = v /\ slots[n].is_deleted = FALSE
    <2>1. n + 1 \in Nat /\ n \in 0 .. (n + 1) - 1 BY <1>1
    <2>2. PICK flag \in BOOLEAN : flag = FALSE OBVIOUS
    <2>3. slots = Serialized(room, n, v, flag) BY <2>2
    <2> HIDE DEF room, n, slots
    <2>4. /\ slots \in [0 .. (n + 1) - 1 -> SlotRecords]
          /\ \A t \in 0 .. (n + 1) - 1 :
             /\ slots[t].offset = room[t].offset /\ slots[t].size = room[t].size
             /\ slots[t].deleted = room[t].deleted
             /\ t # n => slots[t].value = room[t].value
             /\ t # n /\ slots[t].is_deleted => room[t].is_deleted
          /\ slots[n].value = v /\ slots[n].is_deleted = flag
      BY <1>8, <2>1, <2>3, SerializedSlots
    <2> QED BY <2>2, <2>4
  <1>10. q = [p EXCEPT !.free_space_pointer = offset, !.slots = slots]
    BY DEF WithTuple
  <1>11. /\ q.free_space_pointer = offset /\ q.slots = slots
         /\ q.next_page_id = p.next_page_id
         /\ q = [next_page_id |-> p.next_page_id, free_space_pointer |-> offset,
                 slots |-> slots]
    <2>1. p = [next_page_id |-> p.next_page_id, slots |-> p.slots,
               free_space_pointer |-> p.free_space_pointer] BY DEF PageSound
    <2> HIDE DEF q, offset, slots
    <2> QED BY <1>10, <2>1
  <1> HIDE DEF q, slots
  <1>12. NumTuples(q) = n + 1
    <2>1. DOMAIN q.slots = 0 .. (n + 1) - 1 /\ n + 1 \in Nat BY <1>1, <1>9, <1>11
    <2> HIDE DEF n
    <2> QED BY <2>1, CountSlots
  <1>13. FreeSize(q) >= 0
    BY <1>6, <1>11, <1>12 DEF FreeSize
  <1>14. \A t \in 0 .. n - 1 :
           /\ slots[t].offset = p.slots[t].offset /\ slots[t].size = p.slots[t].size
           /\ slots[t].deleted = p.slots[t].deleted
           /\ slots[t].value = p.slots[t].value
           /\ slots[t].is_deleted => p.slots[t].is_deleted
    <2> TAKE t \in 0 .. n - 1
    <2>1. t \in 0 .. n /\ t < n /\ t # n /\ t \in 0 .. (n + 1) - 1 BY <1>1
    <2>2. room[t] = p.slots[t] BY <2>1
    <2> HIDE DEF room, n
    <2> QED BY <1>9, <2>1, <2>2
  <1>15. /\ slots[n].offset = offset /\ slots[n].size = L
         /\ slots[n].deleted = FALSE /\ slots[n].value = v
         /\ slots[n].is_deleted = FALSE
    <2>1. room[n] = slot BY <1>1
    <2>2. n \in 0 .. (n + 1) - 1 BY <1>1
    <2>3. slots[n].offset = room[n].offset /\ slots[n].size = room[n].size
          /\ slots[n].deleted = room[n].deleted
      <3> HIDE DEF room, n
      <3> QED BY <1>9, <2>2
    <2> QED BY <1>9, <2>1, <2>3
  <1>16. ASSUME NEW s \in 0 .. n - 1
         PROVE  LET a == p.slots[s] IN
                /\ p.free_space_pointer <= a.offset
                /\ a.offset + a.size <= PAGE_SIZE
                /\ Length(a.value) <= a.size
                /\ a.is_deleted => a.deleted
                /\ \A t \in (0 .. n - 1) \ {s} :
                     \/ a.offset + a.size <= p.slots[t].offset
                     \/ p.slots[t].offset + p.slots[t].size <= a.offset
    BY <1>1 DEF PageSound, WellFormed
  <1>17. p.free_space_pointer <= PAGE_SIZE /\ PAGE_SIZE \in Nat
    BY PageConstants DEF PageSound
  <1>18. WellFormed(q)
    <2>1. DOMAIN slots = 0 .. n BY <1>9, <1>1
    <2>2. ASSUME NEW s \in 0 .. n
          PROVE  LET a == slots[s] IN
                 /\ offset <= a.offset
                 /\ a.offset + a.size <= PAGE_SIZE
                 /\ Length(a.value) <= a.size
                 /\ a.is_deleted => a.deleted
      <3>1. CASE s = n
        BY <3>1, <1>15, <1>2, <1>6, <1>17
      <3>2. CASE s # n
        <4>1. s \in 0 .. n - 1 BY <3>2, <1>1
        <4>2. p.slots[s].offset \in Nat BY <4>1, <1>1 DEF SlotRecords
        <4>3. offset <= p.free_space_pointer BY <1>2, <1>6
        <4>4. offset <= p.slots[s].offset
          <5> HIDE DEF offset
          <5> QED BY <4>1, <4>2, <4>3, <1>1, <1>6, <1>16
        <4> HIDE DEF offset, n
        <4> QED BY <4>1, <4>4, <1>14, <1>16
      <3> QED BY <3>1, <3>2
    <2>3. ASSUME NEW s \in 0 .. n, NEW t \in (0 .. n) \ {s}
          PROVE  \/ slots[s].offset + slots[s].size <= slots[t].offset
                 \/ slots[t].offset + slots[t].size <= slots[s].offset
      <3> HIDE DEF offset, L
      <3>1. CASE s = n
        <4>1. t \in 0 .. n - 1 BY <3>1, <1>1
        <4>2. p.free_space_pointer <= slots[t].offset BY <4>1, <1>14, <1>16
        <4> QED BY <3>1, <4>2, <1>6, <1>15
      <3>2. CASE t = n
        <4>1. s \in 0 .. n - 1 BY <3>2, <1>1
        <4>2. p.free_space_pointer <= slots[s].offset BY <4>1, <1>14, <1>16
        <4> QED BY <3>2, <4>2, <1>6, <1>15
      <3>3. CASE s # n /\ t # n
        <4>1. s \in 0 .. n - 1 /\ t \in (0 .. n - 1) \ {s} BY <3>3, <1>1
        <4> HIDE DEF n
        <4> QED BY <4>1, <1>14, <1>16
      <3> QED BY <3>1, <3>2, <3>3
    <2>4. 0 .. NumTuples(q) - 1 = 0 .. n BY <1>1, <1>12
    <2> HIDE DEF offset, n
    <2> QED BY <1>11, <1>13, <2>1, <2>2, <2>3, <2>4 DEF WellFormed
  <1>19. PageSound(q)
    <2>1. NumTuples(q) \in Nat BY <1>1, <1>12
    <2>2. 0 .. NumTuples(q) - 1 = 0 .. (n + 1) - 1 BY <1>12
    <2>3. offset <= PAGE_SIZE BY <1>2, <1>6, <1>17
    <2> HIDE DEF offset, n
    <2> QED BY <1>1, <1>6, <1>9, <1>11, <1>18, <2>1, <2>2, <2>3 DEF PageSound
  <1>20. ~slots[n].deleted BY <1>15
  <1> HIDE DEF n
  <1>21. /\ PageSound(q) /\ NumTuples(q) = n + 1
         /\ q.next_page_id = p.next_page_id
         /\ \A s \in 0 .. n - 1 : q.slots[s].deleted = p.slots[s].deleted
         /\ ~q.slots[n].deleted
    BY <1>11, <1>12, <1>14, <1>19, <1>20
  <1> QED BY <1>21 DEF q, n

\* A change in place: the layout stays sound when every tuple still fits its
\* slot and none is flagged behind the back of its slot.
LEMMA InPlaceSound ==
    ASSUME NEW p, PageSound(p),
           NEW slots \in [0 .. NumTuples(p) - 1 -> SlotRecords],
           \A t \in 0 .. NumTuples(p) - 1 :
             /\ slots[t].offset = p.slots[t].offset /\ slots[t].size = p.slots[t].size
             /\ p.slots[t].deleted => slots[t].deleted
             /\ Length(slots[t].value) <= slots[t].size
             /\ slots[t].is_deleted => slots[t].deleted
    PROVE  LET q == [p EXCEPT !.slots = slots] IN
           PageSound(q) /\ NumTuples(q) = NumTuples(p) /\ q.slots = slots /\ Agree(q, p)
  <1> DEFINE n == NumTuples(p)
             q == [p EXCEPT !.slots = slots]
  <1>1. /\ n \in Nat /\ DOMAIN p.slots = 0 .. n - 1
        /\ p.slots \in [0 .. n - 1 -> SlotRecords]
        /\ p.next_page_id \in Int /\ p.free_space_pointer \in Nat
        /\ FreeSize(p) >= 0
    BY SlotsOf
  <1>2. DOMAIN slots = 0 .. n - 1 OBVIOUS
  <1>3. p = [next_page_id |-> p.next_page_id, slots |-> p.slots,
             free_space_pointer |-> p.free_space_pointer] BY DEF PageSound
  <1>4. /\ q = [next_page_id |-> p.next_page_id, slots |-> slots,
                free_space_pointer |-> p.free_space_pointer]
        /\ q.next_page_id = p.next_page_id /\ q.slots = slots
        /\ q.free_space_pointer = p.free_space_pointer
    BY <1>3
  <1> HIDE DEF q, n
  <1>5. NumTuples(q) = n BY <1>1, <1>2, <1>4, CountSlots
  <1>6. FreeSize(q) >= 0 BY <1>1, <1>4, <1>5 DEF FreeSize, n
  <1>7. ASSUME NEW t \in 0 .. n - 1
        PROVE  /\ slots[t].offset = p.slots[t].offset /\ slots[t].size = p.slots[t].size
               /\ p.slots[t].deleted => slots[t].deleted
               /\ Length(slots[t].value) <= slots[t].size
               /\ slots[t].is_deleted => slots[t].deleted
               /\ p.free_space_pointer <= p.slots[t].offset
               /\ p.slots[t].offset + p.slots[t].size <= PAGE_SIZE
               /\ \A u \in (0 .. n - 1) \ {t} :
                    \/ p.slots[t].offset + p.slots[t].size <= p.slots[u].offset
                    \/ p.slots[u].offset + p.slots[u].size <= p.slots[t].offset
    BY <1>1 DEF n, PageSound, WellFormed
  <1>8. WellFormed(q)
    <2>1. ASSUME NEW t \in 0 .. n - 1
          PROVE  /\ p.free_space_pointer <= slots[t].offset
                 /\ slots[t].offset + slots[t].size <= PAGE_SIZE
                 /\ Length(slots[t].value) <= slots[t].size
                 /\ slots[t].is_deleted => slots[t].deleted
      BY <1>7
    <2>2. ASSUME NEW t \in 0 .. n - 1, NEW u \in (0 .. n - 1) \ {t}
          PROVE  \/ slots[t].offset + slots[t].size <= slots[u].offset
                 \/ slots[u].offset + slots[u].size <= slots[t].offset
      <3>1. \/ p.slots[t].offset + p.slots[t].size <= p.slots[u].offset
            \/ p.slots[u].offset + p.slots[u].size <= p.slots[t].offset
        BY <1>7
      <3>2. slots[t].offset = p.slots[t].offset /\ slots[t].size = p.slots[t].size
        BY <1>7
      <3>3. slots[u].offset = p.slots[u].offset /\ slots[u].size = p.slots[u].size
        BY <1>7
      <3> QED BY <3>1, <3>2, <3>3, Zenon
    <2>3. PICK t0, m : t0 = q.slots /\ m = q.free_space_pointer
      OBVIOUS
    <2>4. t0 = slots /\ m = p.free_space_pointer
      BY <1>4, <2>3
    <2>5. /\ DOMAIN t0 = 0 .. NumTuples(q) - 1
          /\ FreeSize(q) >= 0
      BY <1>2, <1>5, <1>6, <2>4
    <2>6. \A t \in DOMAIN t0 :
            /\ m <= t0[t].offset
            /\ t0[t].offset + t0[t].size <= PAGE_SIZE
            /\ Length(t0[t].value) <= t0[t].size
            /\ t0[t].is_deleted => t0[t].deleted
            /\ \A u \in DOMAIN t0 \ {t} :
                 \/ t0[t].offset + t0[t].size <= t0[u].offset
                 \/ t0[u].offset + t0[u].size <= t0[t].offset
      BY <1>2, <2>1, <2>2, <2>4, Zenon
    <2> QED BY <2>3, <2>5, <2>6, Zenon DEF WellFormed
  <1>9. PageSound(q)
    <2>1. slots \in [0 .. n - 1 -> SlotRecords] BY DEF n
    <2>2. p.free_space_pointer <= PAGE_SIZE BY DEF PageSound
    <2> QED BY <1>1, <1>4, <1>5, <1>8, <2>1, <2>2 DEF PageSound
  <1>10. Agree(q, p) BY <1>1, <1>2, <1>4, <1>7 DEF Agree
  <1>11. PageSound(q) /\ NumTuples(q) = NumTuples(p) /\ q.slots = slots /\ Agree(q, p)
    BY <1>4, <1>5, <1>9, <1>10 DEF n
  <1> QED BY <1>11 DEF q

\* deleteTuple of a live tuple: its slot is deleted, and no other.
LEMMA PageDeleteSound ==
    ASSUME NEW p, PageSound(p), NEW s, IsLive(p, s)
    PROVE  LET q == PageDelete(p, s) IN
           /\ PageSound(q) /\ NumTuples(q) = NumTuples(p) /\ Agree(q, p)
           /\ \A t \in DOMAIN p.slots :
                q.slots[t].deleted <=> p.slots[t].deleted \/ t = s
  <1> DEFINE n == NumTuples(p)
  <1>1. /\ n \in Nat /\ DOMAIN p.slots = 0 .. n - 1
        /\ p.slots \in [0 .. n - 1 -> SlotRecords]
    BY SlotsOf
  <1>2. s \in 0 .. n - 1 /\ ~p.slots[s].deleted BY <1>1 DEF IsLive
  <1>3. p.slots[s] \in SlotRecords /\ p.slots[s].value \in Values
    BY <1>1, <1>2 DEF SlotRecords
  <1>4. PICK flag \in BOOLEAN : flag = TRUE OBVIOUS
  <1>a. PICK v \in Values : v = p.slots[s].value BY <1>3
  <1> DEFINE a == Serialized(p.slots, s, v, flag)
             b == [a EXCEPT ![s].deleted = TRUE]
             q == PageDelete(p, s)
  <1>5. q = [p EXCEPT !.slots = b]
    BY <1>1, <1>2, <1>4, <1>a DEF PageDelete
  <1>6. /\ a \in [0 .. n - 1 -> SlotRecords]
        /\ \A t \in 0 .. n - 1 :
             /\ a[t].offset = p.slots[t].offset /\ a[t].size = p.slots[t].size
             /\ a[t].deleted = p.slots[t].deleted
             /\ t # s => a[t].value = p.slots[t].value
             /\ t # s /\ a[t].is_deleted => p.slots[t].is_deleted
        /\ a[s].value = v /\ a[s].is_deleted = flag
    <2> HIDE DEF n
    <2> QED BY <1>1, <1>2, SerializedSlots
  <1> HIDE DEF a
  <1>7. a[s] \in SlotRecords BY <1>2, <1>6
  <1>8. /\ b \in [0 .. n - 1 -> SlotRecords]
        /\ \A t \in 0 .. n - 1 :
             /\ t # s => b[t] = a[t]
             /\ b[s].offset = a[s].offset /\ b[s].size = a[s].size
             /\ b[s].value = a[s].value /\ b[s].deleted
    <2> HIDE DEF n
    <2> QED BY <1>2, <1>6, <1>7 DEF SlotRecords
  <1> HIDE DEF b, q
  <1>9. ASSUME NEW t \in 0 .. n - 1
        PROVE  /\ b[t].offset = p.slots[t].offset /\ b[t].size = p.slots[t].size
               /\ p.slots[t].deleted => b[t].deleted
               /\ Length(b[t].value) <= b[t].size
               /\ b[t].is_deleted => b[t].deleted
               /\ b[t].deleted <=> p.slots[t].deleted \/ t = s
    <2>1. Length(p.slots[t].value) <= p.slots[t].size
          /\ (p.slots[t].is_deleted => p.slots[t].deleted)
      BY <1>1 DEF PageSound, WellFormed
    <2>2. CASE t = s BY <2>1, <2>2, <1>6, <1>8, <1>a
    <2>3. CASE t # s BY <2>1, <2>3, <1>6, <1>8
    <2> QED BY <2>2, <2>3
  <1>10. PageSound(q) /\ NumTuples(q) = NumTuples(p) /\ q.slots = b /\ Agree(q, p)
    BY <1>5, <1>8, <1>9, InPlaceSound
  <1>11. \A t \in DOMAIN p.slots : q.slots[t].deleted <=> p.slots[t].deleted \/ t = s
    BY <1>1, <1>9, <1>10
  <1> QED BY <1>10, <1>11 DEF q

\* updateTuple with a tuple that is not longer than the one it replaces.
LEMMA PageOverwriteSound ==
    ASSUME NEW p, PageSound(p), NEW s, IsLive(p, s),
           NEW v \in Values, Length(v) <= Length(p.slots[s].value)
    PROVE  LET q == PageOverwrite(p, s, v) IN
           /\ PageSound(q) /\ NumTuples(q) = NumTuples(p) /\ Agree(q, p)
           /\ \A t \in DOMAIN p.slots : q.slots[t].deleted <=> p.slots[t].deleted
  <1> DEFINE n == NumTuples(p)
  <1>1. /\ n \in Nat /\ DOMAIN p.slots = 0 .. n - 1
        /\ p.slots \in [0 .. n - 1 -> SlotRecords]
    BY SlotsOf
  <1>2. s \in 0 .. n - 1 /\ ~p.slots[s].deleted BY <1>1 DEF IsLive
  <1>3. p.slots[s].value \in Values /\ p.slots[s].size \in Nat
    BY <1>1, <1>2 DEF SlotRecords
  <1>4. PICK flag \in BOOLEAN : flag = FALSE OBVIOUS
  <1> DEFINE a == Serialized(p.slots, s, v, flag)
             q == PageOverwrite(p, s, v)
  <1>5. q = [p EXCEPT !.slots = a] BY <1>4 DEF PageOverwrite
  <1>6. /\ a \in [0 .. n - 1 -> SlotRecords]
        /\ \A t \in 0 .. n - 1 :
             /\ a[t].offset = p.slots[t].offset /\ a[t].size = p.slots[t].size
             /\ a[t].deleted = p.slots[t].deleted
             /\ t # s => a[t].value = p.slots[t].value
             /\ t # s /\ a[t].is_deleted => p.slots[t].is_deleted
        /\ a[s].value = v /\ a[s].is_deleted = flag
    <2> HIDE DEF n
    <2> QED BY <1>1, <1>2, SerializedSlots
  <1> HIDE DEF a, q
  <1>7. Length(v) <= p.slots[s].size
    <2>1. Length(p.slots[s].value) <= p.slots[s].size
      BY <1>1, <1>2 DEF PageSound, WellFormed
    <2>2. Length(v) \in Nat /\ Length(p.slots[s].value) \in Nat BY <1>3, LengthIsNat
    <2> QED BY <2>1, <2>2, <1>3
  <1>8. ASSUME NEW t \in 0 .. n - 1
        PROVE  /\ a[t].offset = p.slots[t].offset /\ a[t].size = p.slots[t].size
               /\ a[t].deleted <=> p.slots[t].deleted
               /\ Length(a[t].value) <= a[t].size
               /\ a[t].is_deleted => a[t].deleted
    <2>1. Length(p.slots[t].value) <= p.slots[t].size
          /\ (p.slots[t].is_deleted => p.slots[t].deleted)
      BY <1>1 DEF PageSound, WellFormed
    <2>2. CASE t = s BY <2>1, <2>2, <1>4, <1>6, <1>7
    <2>3. CASE t # s BY <2>1, <2>3, <1>6
    <2> QED BY <2>2, <2>3
  <1>9. PageSound(q) /\ NumTuples(q) = NumTuples(p) /\ q.slots = a /\ Agree(q, p)
    BY <1>5, <1>6, <1>8, InPlaceSound
  <1>10. \A t \in DOMAIN p.slots : q.slots[t].deleted <=> p.slots[t].deleted
    BY <1>1, <1>8, <1>9
  <1> QED BY <1>9, <1>10 DEF q

\* setNextPageId changes nothing else of the page.
LEMMA RelinkedSound ==
    ASSUME NEW p, PageSound(p), NEW next \in Int
    PROVE  LET q == [p EXCEPT !.next_page_id = next] IN
           /\ PageSound(q) /\ NumTuples(q) = NumTuples(p)
           /\ q.slots = p.slots /\ q.next_page_id = next
  <1> DEFINE q == [p EXCEPT !.next_page_id = next]
  <1>1. p = [next_page_id |-> p.next_page_id, slots |-> p.slots,
             free_space_pointer |-> p.free_space_pointer] BY DEF PageSound
  <1>2. /\ q = [next_page_id |-> next, slots |-> p.slots,
                free_space_pointer |-> p.free_space_pointer]
        /\ q.next_page_id = next /\ q.slots = p.slots
        /\ q.free_space_pointer = p.free_space_pointer
    BY <1>1
  <1> HIDE DEF q
  <1>3. NumTuples(q) = NumTuples(p) BY <1>2 DEF NumTuples
  <1>4. FreeSize(q) = FreeSize(p) BY <1>2, <1>3 DEF FreeSize
  <1>5. WellFormed(q) BY <1>2, <1>3, <1>4 DEF PageSound, WellFormed
  <1>6. PageSound(q) BY <1>2, <1>3, <1>5 DEF PageSound
  <1> QED BY <1>2, <1>3, <1>6 DEF q

-----------------------------------------------------------------------------
(* The heap. *)

\* The live tuples of a table are those of its slots that are not deleted.
LEMMA LiveRIDsAre ==
    ASSUME NEW h, PagesSound(h)
    PROVE  /\ LiveRIDs(h) \subseteq Rids
           /\ \A r \in Rids : r \in LiveRIDs(h) <=>
                /\ r.page \in 1 .. h.last_page_id
                /\ r.slot \in DOMAIN h.pages[r.page].slots
                /\ ~h.pages[r.page].slots[r.slot].deleted
  <1>1. DOMAIN h.pages = 1 .. h.last_page_id /\ h.last_page_id \in Nat
    BY DEF PagesSound, HeapShaped
  <1>2. ASSUME NEW p \in 1 .. h.last_page_id
        PROVE  /\ LiveSlots(h.pages[p]) \subseteq Int
               /\ \A s : s \in LiveSlots(h.pages[p]) <=>
                    s \in DOMAIN h.pages[p].slots /\ ~h.pages[p].slots[s].deleted
    <2>1. PageSound(h.pages[p]) BY DEF PagesSound
    <2>2. DOMAIN h.pages[p].slots \subseteq Int BY <2>1, SlotsOf
    <2>3. \A s : IsLive(h.pages[p], s) <=>
             s \in DOMAIN h.pages[p].slots /\ ~h.pages[p].slots[s].deleted
      BY <2>1, LiveUnlessDeleted
    <2> QED BY <2>2, <2>3 DEF LiveSlots
  <1>3. \A r : r \in LiveRIDs(h) <=>
          \E p \in 1 .. h.last_page_id : \E s \in LiveSlots(h.pages[p]) : r = RID(p, s)
    BY <1>1 DEF LiveRIDs
  <1>4. \A p, s : RID(p, s).page = p /\ RID(p, s).slot = s BY DEF RID
  <1>5. \A p, s \in Int : RID(p, s) \in Rids BY DEF RID, Rids
  <1>6. \A r \in Rids : r = RID(r.page, r.slot) BY DEF RID, Rids
  <1>7. ASSUME NEW r \in LiveRIDs(h)
        PROVE  /\ r \in Rids /\ r.page \in 1 .. h.last_page_id
               /\ r.slot \in DOMAIN h.pages[r.page].slots
               /\ ~h.pages[r.page].slots[r.slot].deleted
    <2>1. PICK p \in 1 .. h.last_page_id : \E s \in LiveSlots(h.pages[p]) : r = RID(p, s)
      BY <1>3
    <2>2. PICK s \in LiveSlots(h.pages[p]) : r = RID(p, s) BY <2>1
    <2>3. r.page = p /\ r.slot = s BY <2>2, <1>4
    <2>4. p \in Int /\ s \in Int BY <1>2, <2>2
    <2> QED BY <1>2, <1>5, <2>2, <2>3, <2>4
  <1>8. ASSUME NEW r \in Rids, r.page \in 1 .. h.last_page_id,
               r.slot \in DOMAIN h.pages[r.page].slots,
               ~h.pages[r.page].slots[r.slot].deleted
        PROVE  r \in LiveRIDs(h)
    <2>1. r.slot \in LiveSlots(h.pages[r.page]) BY <1>2, <1>8
    <2> QED BY <2>1, <1>3, <1>6, <1>8
  <1> QED BY <1>7, <1>8

\* Agreement on what a page may not lose passes on.
LEMMA AgreeTransitive ==
    ASSUME NEW p, NEW q, NEW r, Agree(p, q), Agree(q, r)
    PROVE  Agree(p, r)
  BY DEF Agree

\* What the slots of h are, they are in g.
Keeps(g, h) ==
    /\ h.last_page_id <= g.last_page_id
    /\ \A p \in 1 .. h.last_page_id :
         \A s \in DOMAIN h.pages[p].slots :
            /\ s \in DOMAIN g.pages[p].slots
            /\ g.pages[p].slots[s].deleted <=> h.pages[p].slots[s].deleted

\* A page changed in place and not marked.
Changed(h, p, q, count) ==
    [pages |-> [h.pages EXCEPT ![p] = q], disk |-> h.disk, dirty |-> h.dirty,
     last_page_id |-> h.last_page_id, num_of_tuples |-> count,
     starting_rid |-> h.starting_rid, stopping_rid |-> h.stopping_rid]

\* A page in place of one it agrees with keeps the table sound.
LEMMA ChangedSound ==
    ASSUME NEW h, HeapSound(h), NEW p \in 1 .. h.last_page_id, NEW q,
           PageSound(q), NumTuples(q) = NumTuples(h.pages[p]), Agree(q, h.pages[p]),
           NEW count \in Int
    PROVE  HeapSound(Changed(h, p, q, count))
  <1> DEFINE g == Changed(h, p, q, count)
             last == h.last_page_id
  <1>1. /\ g.pages = [h.pages EXCEPT ![p] = q] /\ g.disk = h.disk
        /\ g.dirty = h.dirty /\ g.last_page_id = last /\ g.num_of_tuples = count
        /\ g.starting_rid = h.starting_rid /\ g.stopping_rid = h.stopping_rid
        /\ g = [pages |-> g.pages, disk |-> g.disk, dirty |-> g.dirty,
                last_page_id |-> g.last_page_id, num_of_tuples |-> g.num_of_tuples,
                starting_rid |-> g.starting_rid, stopping_rid |-> g.stopping_rid]
    BY DEF Changed
  <1> HIDE DEF g
  <1>2. DOMAIN h.pages = 1 .. last BY DEF HeapSound, PagesSound, HeapShaped
  <1>3. /\ g.pages[p] = q
        /\ \A x \in 1 .. last : x # p => g.pages[x] = h.pages[x]
        /\ g.pages = [x \in 1 .. last |-> g.pages[x]]
    BY <1>1, <1>2
  <1>4. HeapShaped(g) BY <1>1, <1>3 DEF HeapSound, PagesSound, HeapShaped
  <1>5. \A x \in 1 .. last : PageSound(g.pages[x]) /\ PageSound(g.disk[x])
    BY <1>1, <1>3 DEF HeapSound, PagesSound
  <1>6. Linked(g)
    BY <1>1, <1>3 DEF HeapSound, PagesSound, Linked, Agree
  <1>7. \A x \in (1 .. last) \ g.dirty : Agree(g.pages[x], g.disk[x])
    <2> TAKE x \in (1 .. last) \ g.dirty
    <2>1. Agree(h.pages[x], h.disk[x]) BY <1>1 DEF HeapSound, PagesSound
    <2>2. CASE x = p BY <2>1, <2>2, <1>1, <1>3, AgreeTransitive
    <2>3. CASE x # p BY <2>1, <2>3, <1>1, <1>3
    <2> QED BY <2>2, <2>3
  <1>8. \A x \in 1 .. last : NumTuples(g.pages[x]) = NumTuples(h.pages[x])
    BY <1>3
  <1>9. Bracketed(g)
    <2>1. Bracketed(h) /\ h.starting_rid.page \in Int /\ last \in Nat
      BY DEF HeapSound, PagesSound, HeapShaped, Rids
    <2>2. CASE h.starting_rid.page = -1
      BY <1>1, <1>8, <2>1, <2>2 DEF Bracketed
    <2>3. CASE h.starting_rid.page # -1
      <3>1. \A x \in 1 .. h.starting_rid.page - 1 : x \in 1 .. last
        BY <2>1, <2>3 DEF Bracketed
      <3> QED BY <1>1, <1>8, <2>1, <2>3, <3>1 DEF Bracketed
    <2> QED BY <2>2, <2>3
  <1>10. HeapSound(g) BY <1>1, <1>4, <1>5, <1>6, <1>7, <1>9 DEF HeapSound, PagesSound
  <1> QED BY <1>10 DEF g

\* A page written and marked behind the last tuple, and the RID recorded.
Placed(h, q, rid) ==
    [pages |-> [h.pages EXCEPT ![h.last_page_id] = q], disk |-> h.disk,
     dirty |-> h.dirty \cup {h.last_page_id},
     last_page_id |-> h.last_page_id, num_of_tuples |-> h.num_of_tuples + 1,
     starting_rid |-> IF h.starting_rid.page = -1 THEN rid ELSE h.starting_rid,
     stopping_rid |-> rid]

\* A tuple put on the last page keeps the table sound and starting_rid below it.
LEMMA PlacedSound ==
    ASSUME NEW h, PagesSound(h), NEW q, PageSound(q), q.next_page_id = -1,
           NEW rid \in Rids, rid.page = h.last_page_id,
           rid.slot <= 0 \/ h.starting_rid.page # -1,
           IF h.starting_rid.page = -1
           THEN \A p \in 1 .. h.last_page_id - 1 : NumTuples(h.pages[p]) = 0
           ELSE /\ h.starting_rid.page \in 1 .. h.last_page_id
                /\ h.starting_rid.slot <= 0
                /\ \A p \in 1 .. h.starting_rid.page - 1 : NumTuples(h.pages[p]) = 0
    PROVE  HeapSound(Placed(h, q, rid))
  <1> DEFINE g == Placed(h, q, rid)
             last == h.last_page_id
  <1>1. /\ g.pages = [h.pages EXCEPT ![last] = q] /\ g.disk = h.disk
        /\ g.dirty = h.dirty \cup {last} /\ g.last_page_id = last
        /\ g.num_of_tuples = h.num_of_tuples + 1
        /\ g.starting_rid = IF h.starting_rid.page = -1 THEN rid ELSE h.starting_rid
        /\ g.stopping_rid = rid
        /\ g = [pages |-> g.pages, disk |-> g.disk, dirty |-> g.dirty,
                last_page_id |-> g.last_page_id, num_of_tuples |-> g.num_of_tuples,
                starting_rid |-> g.starting_rid, stopping_rid |-> g.stopping_rid]
    BY DEF Placed
  <1> HIDE DEF g
  <1>2. /\ DOMAIN h.pages = 1 .. last /\ last \in Nat /\ last >= 2 /\ last \in 1 .. last
        /\ h.num_of_tuples \in Int /\ h.dirty \subseteq 1 .. last
        /\ h.starting_rid \in Rids /\ h.starting_rid.page \in Int
    BY DEF PagesSound, HeapShaped, Rids
  <1>3. /\ g.pages[last] = q
        /\ \A x \in 1 .. last : x # last => g.pages[x] = h.pages[x]
        /\ g.pages = [x \in 1 .. last |-> g.pages[x]]
    BY <1>1, <1>2
  <1>4. HeapShaped(g)
    <2>1. g.starting_rid \in Rids BY <1>1, <1>2
    <2>2. g.disk = [x \in 1 .. last |-> g.disk[x]] BY <1>1 DEF PagesSound, HeapShaped
    <2>3. g.dirty \subseteq 1 .. last /\ g.num_of_tuples \in Int BY <1>1, <1>2
    <2> QED BY <1>1, <1>2, <1>3, <2>1, <2>2, <2>3 DEF HeapShaped
  <1>5. \A x \in 1 .. last : PageSound(g.pages[x]) /\ PageSound(g.disk[x])
    BY <1>1, <1>3 DEF PagesSound
  <1>6. Linked(g) BY <1>1, <1>3 DEF PagesSound, Linked
  <1>7. \A x \in (1 .. last) \ g.dirty : Agree(g.pages[x], g.disk[x])
    BY <1>1, <1>3 DEF PagesSound
  <1>8. \A x \in 1 .. last - 1 : g.pages[x] = h.pages[x]
    <2> TAKE x \in 1 .. last - 1
    <2>1. x \in 1 .. last /\ x # last BY <1>2
    <2> QED BY <2>1, <1>3
  <1>9. Bracketed(g)
    <2>1. CASE h.starting_rid.page = -1
      BY <1>1, <1>2, <1>8, <2>1 DEF Bracketed
    <2>2. CASE h.starting_rid.page # -1
      <3>1. \A x \in 1 .. h.starting_rid.page - 1 : x \in 1 .. last - 1
        BY <1>2, <2>2
      <3> QED BY <1>1, <1>2, <1>8, <2>2, <3>1 DEF Bracketed
    <2> QED BY <2>1, <2>2
  <1>10. HeapSound(g) BY <1>1, <1>4, <1>5, <1>6, <1>7, <1>9 DEF HeapSound, PagesSound
  <1> QED BY <1>10 DEF g

\* A blank page behind the last one.
LEMMA ExtendedSound ==
    ASSUME NEW h, PagesSound(h)
    PROVE  LET e == Extended(h)
               last == h.last_page_id
           IN  /\ PagesSound(e)
               /\ e.last_page_id = last + 1
               /\ e.pages[last + 1] = BlankPage
               /\ \A p \in 1 .. last : /\ e.pages[p].slots = h.pages[p].slots
                                       /\ NumTuples(e.pages[p]) = NumTuples(h.pages[p])
               /\ e.starting_rid = h.starting_rid /\ e.stopping_rid = h.stopping_rid
  <1> DEFINE e == Extended(h)
             last == h.last_page_id
             new == last + 1
             relinked == [h.pages[last] EXCEPT !.next_page_id = new]
  <1>1. /\ last \in Nat /\ last >= 2 /\ last \in 1 .. last /\ new \in Nat
        /\ DOMAIN h.pages = 1 .. last /\ DOMAIN h.disk = 1 .. last
        /\ h.dirty \subseteq 1 .. last
        /\ (1 .. last) \cup {new} = 1 .. new /\ new \notin 1 .. last
    BY DEF PagesSound, HeapShaped
  <1>2. Cardinality(DOMAIN h.pages) = last
    <2>1. 1 \in Int /\ last \in Int BY <1>1
    <2>2. Cardinality(1 .. last) = IF 1 > last THEN 0 ELSE last - 1 + 1
      BY <2>1, FS_Interval
    <2> QED BY <1>1, <2>2
  <1>3. e = [pages |-> [p \in 1 .. new |->
                 IF p = new THEN BlankPage
                 ELSE IF p = last THEN relinked ELSE h.pages[p]],
             disk |-> [p \in 1 .. new |-> IF p = new THEN BlankPage ELSE h.disk[p]],
             dirty |-> h.dirty \cup {last}, last_page_id |-> new,
             num_of_tuples |-> h.num_of_tuples,
             starting_rid |-> h.starting_rid, stopping_rid |-> h.stopping_rid]
    <2>1. h = [pages |-> h.pages, disk |-> h.disk, dirty |-> h.dirty,
               last_page_id |-> h.last_page_id, num_of_tuples |-> h.num_of_tuples,
               starting_rid |-> h.starting_rid, stopping_rid |-> h.stopping_rid]
      BY DEF PagesSound, HeapShaped
    <2>2. (DOMAIN h.pages) \cup {new} = 1 .. new BY <1>1
    <2> DEFINE m == Marked(h, last)
               P == [p \in 1 .. new |-> IF p = new THEN BlankPage
                        ELSE IF p = last THEN [m.pages[last] EXCEPT !.next_page_id = new]
                        ELSE m.pages[p]]
               D == [p \in 1 .. new |-> IF p = new THEN BlankPage ELSE m.disk[p]]
    <2>3. m = [pages |-> h.pages, disk |-> h.disk, dirty |-> h.dirty \cup {last},
               last_page_id |-> last, num_of_tuples |-> h.num_of_tuples,
               starting_rid |-> h.starting_rid, stopping_rid |-> h.stopping_rid]
      BY <2>1 DEF Marked
    <2>4. e = [m EXCEPT !.pages = P, !.disk = D, !.last_page_id = new]
      <3> HIDE DEF m
      <3> QED BY <1>2, <2>2 DEF Extended, m
    <2>5. /\ P = [p \in 1 .. new |-> IF p = new THEN BlankPage
                                   ELSE IF p = last THEN relinked ELSE h.pages[p]]
          /\ D = [p \in 1 .. new |-> IF p = new THEN BlankPage ELSE h.disk[p]]
      <3>1. m.pages = h.pages /\ m.disk = h.disk BY <2>3
      <3> HIDE DEF m
      <3> QED BY <3>1
    <2> HIDE DEF m, P, D, relinked
    <2>6. e = [pages |-> P, disk |-> D, dirty |-> h.dirty \cup {last},
               last_page_id |-> new, num_of_tuples |-> h.num_of_tuples,
               starting_rid |-> h.starting_rid, stopping_rid |-> h.stopping_rid]
      BY <2>3, <2>4
    <2> QED BY <2>5, <2>6
  <1> HIDE DEF e
  <1>4. /\ e.last_page_id = new /\ e.dirty = h.dirty \cup {last}
        /\ e.num_of_tuples = h.num_of_tuples
        /\ e.starting_rid = h.starting_rid /\ e.stopping_rid = h.stopping_rid
        /\ e = [pages |-> e.pages, disk |-> e.disk, dirty |-> e.dirty,
                last_page_id |-> e.last_page_id, num_of_tuples |-> e.num_of_tuples,
                starting_rid |-> e.starting_rid, stopping_rid |-> e.stopping_rid]
    BY <1>3
  <1>5. /\ e.pages = [p \in 1 .. new |-> e.pages[p]]
        /\ e.disk = [p \in 1 .. new |-> e.disk[p]]
        /\ e.pages[new] = BlankPage /\ e.disk[new] = BlankPage
        /\ e.pages[last] = relinked
        /\ \A p \in 1 .. last : p # last => e.pages[p] = h.pages[p]
        /\ \A p \in 1 .. last : e.disk[p] = h.disk[p]
    <2> HIDE DEF relinked
    <2> QED BY <1>1, <1>3
  <1>6. /\ PageSound(relinked) /\ NumTuples(relinked) = NumTuples(h.pages[last])
        /\ relinked.slots = h.pages[last].slots /\ relinked.next_page_id = new
    <2>1. PageSound(h.pages[last]) /\ new \in Int BY <1>1 DEF PagesSound
    <2> HIDE DEF new
    <2> QED BY <2>1, RelinkedSound
  <1> HIDE DEF relinked
  <1>7. HeapShaped(e)
    <2>1. /\ h.num_of_tuples \in Int /\ h.starting_rid \in Rids /\ h.stopping_rid \in Rids
      BY DEF PagesSound, HeapShaped
    <2>2. e.dirty \subseteq 1 .. new BY <1>1, <1>4
    <2>3. new >= 2 BY <1>1
    <2> HIDE DEF new
    <2> QED BY <1>1, <1>4, <1>5, <2>1, <2>2, <2>3 DEF HeapShaped
  <1>8. \A p \in 1 .. last : p \in 1 .. new /\ p # new BY <1>1
  <1>9. \A p \in 1 .. new : p = new \/ p \in 1 .. last BY <1>1
  <1>10. \A p \in 1 .. new : PageSound(e.pages[p]) /\ PageSound(e.disk[p])
    BY <1>5, <1>6, <1>9, BlankPageSound DEF PagesSound
  <1>11. Linked(e)
    <2>1. SUFFICES ASSUME NEW p \in 1 .. new
                   PROVE  e.pages[p].next_page_id = IF p = new THEN -1 ELSE p + 1
      BY <1>4 DEF Linked
    <2>2. CASE p = new BY <2>2, <1>5, BlankPageSound
    <2>3. CASE p = last BY <2>3, <1>1, <1>5, <1>6
    <2>4. CASE p \in 1 .. last /\ p # last
      <3>1. e.pages[p] = h.pages[p] BY <2>4, <1>5
      <3>2. h.pages[p].next_page_id = p + 1 BY <2>4 DEF PagesSound, Linked
      <3> QED BY <2>4, <3>1, <3>2, <1>8
    <2> QED BY <2>2, <2>3, <2>4, <1>9
  <1>12. \A p \in (1 .. new) \ e.dirty : Agree(e.pages[p], e.disk[p])
    <2> TAKE p \in (1 .. new) \ e.dirty
    <2>1. CASE p = new
      <3>1. Agree(BlankPage, BlankPage) BY DEF Agree
      <3> QED BY <2>1, <3>1, <1>5
    <2>2. CASE p # new
      <3>1. p \in (1 .. last) \ h.dirty /\ p # last BY <2>2, <1>4, <1>9
      <3> QED BY <3>1, <1>5 DEF PagesSound
    <2> QED BY <2>1, <2>2
  <1>13. PagesSound(e) BY <1>4, <1>7, <1>10, <1>11, <1>12 DEF PagesSound
  <1>14. \A p \in 1 .. last : /\ e.pages[p].slots = h.pages[p].slots
                              /\ NumTuples(e.pages[p]) = NumTuples(h.pages[p])
    BY <1>5, <1>6
  <1> QED BY <1>4, <1>5, <1>13, <1>14 DEF e

\* The second half of insertTuple, on the heap with the page it chose.
Placing(g, v, rid) ==
    [Marked(g, g.last_page_id) EXCEPT
       !.pages[g.last_page_id] = PageInsert(@, v).page,
       !.num_of_tuples = @ + 1,
       !.starting_rid = IF @.page = -1 THEN rid ELSE @,
       !.stopping_rid = rid]

\* Field by field, insertTuple puts the page with the tuple in its place.
LEMMA PlacedIs ==
    ASSUME NEW g, PagesSound(g), NEW v, NEW rid
    PROVE  Placing(g, v, rid)
           = Placed(g, PageInsert(g.pages[g.last_page_id], v).page, rid)
  <1> DEFINE m == Marked(g, g.last_page_id)
             P == [m.pages EXCEPT ![g.last_page_id] =
                      PageInsert(m.pages[g.last_page_id], v).page]
             N == m.num_of_tuples + 1
             S == IF m.starting_rid.page = -1 THEN rid ELSE m.starting_rid
  <1>1. g = [pages |-> g.pages, disk |-> g.disk, dirty |-> g.dirty,
             last_page_id |-> g.last_page_id, num_of_tuples |-> g.num_of_tuples,
             starting_rid |-> g.starting_rid, stopping_rid |-> g.stopping_rid]
    BY DEF PagesSound, HeapShaped
  <1>2. m = [pages |-> g.pages, disk |-> g.disk,
             dirty |-> g.dirty \cup {g.last_page_id},
             last_page_id |-> g.last_page_id, num_of_tuples |-> g.num_of_tuples,
             starting_rid |-> g.starting_rid, stopping_rid |-> g.stopping_rid]
    BY <1>1 DEF Marked
  <1> HIDE DEF m
  <1>3. Placing(g, v, rid) = [m EXCEPT !.pages = P, !.num_of_tuples = N,
                                       !.starting_rid = S, !.stopping_rid = rid]
    BY <1>2 DEF Placing, m
  <1>4. /\ P = [g.pages EXCEPT ![g.last_page_id] =
                   PageInsert(g.pages[g.last_page_id], v).page]
        /\ N = g.num_of_tuples + 1
        /\ S = IF g.starting_rid.page = -1 THEN rid ELSE g.starting_rid
    BY <1>2
  <1> HIDE DEF P, N, S
  <1>5. Placing(g, v, rid) =
          [pages |-> P, disk |-> g.disk, dirty |-> g.dirty \cup {g.last_page_id},
           last_page_id |-> g.last_page_id, num_of_tuples |-> N,
           starting_rid |-> S, stopping_rid |-> rid]
    BY <1>2, <1>3
  <1> QED BY <1>4, <1>5 DEF Placed

\* An insertion goes to the last page, or to a new one behind it.
LEMMA InsertUnfolds ==
    ASSUME NEW h, PagesSound(h), NEW v \in Values
    PROVE  LET last == h.last_page_id
               p == h.pages[last]
           IN  InsertTuple(h, v) =
                 IF Fits(p, v)
                 THEN Placed(h, WithTuple(p, v), RID(last, NumTuples(p)))
                 ELSE Placed(Extended(h),
                             IF Fits(BlankPage, v) THEN WithTuple(BlankPage, v)
                                                   ELSE BlankPage,
                             RID(last + 1, -1))
  <1> DEFINE last == h.last_page_id
             p == h.pages[last]
             first == PageInsert(p, v)
  <1>1. last \in 1 .. last /\ last \in Nat BY DEF PagesSound, HeapShaped
  <1>2. NumTuples(p) \in Nat BY <1>1, SlotsOf DEF PagesSound
  <1>3. CASE Fits(p, v)
    <2>1. first.page = WithTuple(p, v) /\ first.slot = NumTuples(p)
      BY <1>3 DEF PageInsert
    <2>2. first.slot # -1 BY <1>2, <2>1
    <2>3. InsertTuple(h, v) = Placing(h, v, RID(last, first.slot))
      BY <2>2 DEF InsertTuple, Placing
    <2>4. InsertTuple(h, v) = Placed(h, first.page, RID(last, first.slot))
      BY <2>3, PlacedIs
    <2> QED BY <1>3, <2>1, <2>4
  <1>4. CASE ~Fits(p, v)
    <2>1. first.slot = -1 BY <1>4 DEF PageInsert
    <2> DEFINE e == Extended(h)
    <2>2. PagesSound(e) /\ e.last_page_id = last + 1 /\ e.pages[last + 1] = BlankPage
      BY ExtendedSound
    <2>3. InsertTuple(h, v) = Placing(e, v, RID(e.last_page_id, -1))
      BY <2>1 DEF InsertTuple, Placing
    <2>4. InsertTuple(h, v) =
            Placed(e, PageInsert(BlankPage, v).page, RID(last + 1, -1))
      <3> HIDE DEF e
      <3> QED BY <2>2, <2>3, PlacedIs
    <2>5. PageInsert(BlankPage, v).page =
            IF Fits(BlankPage, v) THEN WithTuple(BlankPage, v) ELSE BlankPage
      BY DEF PageInsert
    <2> QED BY <1>4, <2>4, <2>5
  <1> QED BY <1>3, <1>4

\* The tuple that is placed is live, and what was live stays so.
LEMMA PlacedLive ==
    ASSUME NEW h, PagesSound(h), NEW q, PageSound(q), NEW rid,
           PagesSound(Placed(h, q, rid)),
           NEW n \in Nat, NumTuples(h.pages[h.last_page_id]) = n, NumTuples(q) = n + 1,
           \A s \in 0 .. n - 1 :
             q.slots[s].deleted = h.pages[h.last_page_id].slots[s].deleted,
           ~q.slots[n].deleted
    PROVE  /\ Keeps(Placed(h, q, rid), h)
           /\ RID(h.last_page_id, n) \in Rids
           /\ RID(h.last_page_id, n) \notin LiveRIDs(h)
           /\ LiveRIDs(Placed(h, q, rid)) = LiveRIDs(h) \cup {RID(h.last_page_id, n)}
  <1> DEFINE g == Placed(h, q, rid)
             last == h.last_page_id
             new == RID(last, n)
  <1>1. g.last_page_id = last /\ g.pages = [h.pages EXCEPT ![last] = q] BY DEF Placed
  <1>2. last \in Nat /\ last \in 1 .. last /\ DOMAIN h.pages = 1 .. last
    BY DEF PagesSound, HeapShaped
  <1>3. new \in Rids /\ new.page = last /\ new.slot = n BY <1>2 DEF RID, Rids
  <1>4. g.pages[last] = q /\ \A p \in 1 .. last : p # last => g.pages[p] = h.pages[p]
    BY <1>1, <1>2
  <1>5. DOMAIN q.slots = 0 .. (n + 1) - 1 /\ DOMAIN h.pages[last].slots = 0 .. n - 1
    BY <1>2, SlotsOf DEF PagesSound
  <1>a. /\ \A s : s \in 0 .. (n + 1) - 1 <=> s \in 0 .. n - 1 \/ s = n
        /\ n \notin 0 .. n - 1
    OBVIOUS
  <1>6. \A r \in Rids : (r.page = last /\ r.slot = n) => r = new BY DEF RID, Rids
  <1> HIDE DEF g, new, last
  <1>7. Keeps(g, h)
    <2>1. ASSUME NEW p \in 1 .. last, NEW s \in DOMAIN h.pages[p].slots
          PROVE  /\ s \in DOMAIN g.pages[p].slots
                 /\ g.pages[p].slots[s].deleted <=> h.pages[p].slots[s].deleted
      <3>1. CASE p = last
        <4>1. s \in 0 .. n - 1 BY <3>1, <1>5
        <4>2. s \in 0 .. (n + 1) - 1 BY <4>1
        <4>3. q.slots[s].deleted = h.pages[last].slots[s].deleted
          BY <4>1 DEF last
        <4> QED BY <3>1, <4>2, <4>3, <1>4, <1>5
      <3>2. CASE p # last BY <3>2, <1>4
      <3> QED BY <3>1, <3>2
    <2>2. h.last_page_id <= g.last_page_id BY <1>1, <1>2 DEF last
    <2> QED BY <2>1, <2>2 DEF Keeps, last
  <1>8. new \notin LiveRIDs(h)
    <2>1. new.slot \notin DOMAIN h.pages[new.page].slots BY <1>3, <1>5, <1>a
    <2> QED BY <2>1, <1>3, LiveRIDsAre
  <1>9. PagesSound(g) BY DEF g
  <1>10. ASSUME NEW r \in Rids
         PROVE  r \in LiveRIDs(g) <=> r \in LiveRIDs(h) \/ r = new
    <2>1. r \in LiveRIDs(g) <=>
            /\ r.page \in 1 .. last
            /\ r.slot \in DOMAIN g.pages[r.page].slots
            /\ ~g.pages[r.page].slots[r.slot].deleted
      BY <1>1, <1>9, LiveRIDsAre
    <2>2. r \in LiveRIDs(h) <=>
            /\ r.page \in 1 .. last
            /\ r.slot \in DOMAIN h.pages[r.page].slots
            /\ ~h.pages[r.page].slots[r.slot].deleted
      BY LiveRIDsAre DEF last
    <2>3. CASE r.page # last
      BY <2>1, <2>2, <2>3, <1>3, <1>4
    <2>4. CASE r.page = last /\ r.slot = n
      <3>1. r = new BY <2>4, <1>6
      <3>2. r \in LiveRIDs(g) BY <2>1, <2>4, <1>2, <1>4, <1>5, <1>a
      <3> QED BY <3>1, <3>2
    <2>5. CASE r.page = last /\ r.slot # n
      <3>1. r # new BY <2>5, <1>3
      <3>2. r.slot \in DOMAIN q.slots <=> r.slot \in 0 .. n - 1 BY <2>5, <1>5, <1>a
      <3>3. r.slot \in 0 .. n - 1 =>
              q.slots[r.slot].deleted = h.pages[last].slots[r.slot].deleted
        BY DEF last
      <3> QED BY <2>1, <2>2, <2>5, <3>1, <3>2, <3>3, <1>4, <1>5
    <2> QED BY <2>3, <2>4, <2>5
  <1>11. LiveRIDs(g) \subseteq Rids /\ LiveRIDs(h) \subseteq Rids
    BY <1>9, LiveRIDsAre
  <1>12. LiveRIDs(g) = LiveRIDs(h) \cup {new} BY <1>3, <1>10, <1>11
  <1> QED BY <1>3, <1>7, <1>8, <1>12 DEF g, new, last

\* insertTuple keeps the heap sound and every tuple where it is.  A tuple that
\* fits on an empty page is one tuple more.
LEMMA InsertSound ==
    ASSUME NEW h, HeapSound(h), NEW v \in Values
    PROVE  LET g == InsertTuple(h, v) IN
           /\ HeapSound(g)
           /\ Keeps(g, h)
           /\ h.starting_rid.page # -1 => g.starting_rid = h.starting_rid
           /\ g.starting_rid.page # -1
           /\ Fits(BlankPage, v) =>
                \E r \in Rids : /\ r \notin LiveRIDs(h)
                                /\ LiveRIDs(g) = LiveRIDs(h) \cup {r}
  <1> DEFINE last == h.last_page_id
             p == h.pages[last]
             n == NumTuples(p)
             e == Extended(h)
             g == InsertTuple(h, v)
  <1>1. /\ PagesSound(h) /\ Bracketed(h)
        /\ last \in Nat /\ last \in 1 .. last /\ last >= 2
        /\ h.starting_rid.page \in Int
    BY DEF HeapSound, PagesSound, HeapShaped, Rids
  <1>2. PageSound(p) /\ p.next_page_id = -1 BY <1>1 DEF PagesSound, Linked
  <1>3. n \in Nat BY <1>2, SlotsOf
  <1>4. CASE Fits(p, v)
    <2> DEFINE q == WithTuple(p, v)
               rid == RID(last, n)
    <2>1. /\ PageSound(q) /\ NumTuples(q) = n + 1 /\ q.next_page_id = -1
          /\ \A s \in 0 .. n - 1 : q.slots[s].deleted = p.slots[s].deleted
          /\ ~q.slots[n].deleted
      BY <1>2, <1>4, WithTupleSound
    <2>2. g = Placed(h, q, rid) BY <1>1, <1>4, InsertUnfolds
    <2> HIDE DEF q, g
    <2>3. rid \in Rids /\ rid.page = last /\ rid.slot = n BY <1>1, <1>3 DEF RID, Rids
    <2>4. /\ n <= 0 \/ h.starting_rid.page # -1
          /\ IF h.starting_rid.page = -1
             THEN \A x \in 1 .. last - 1 : NumTuples(h.pages[x]) = 0
             ELSE /\ h.starting_rid.page \in 1 .. last
                  /\ h.starting_rid.slot <= 0
                  /\ \A x \in 1 .. h.starting_rid.page - 1 : NumTuples(h.pages[x]) = 0
      <3>1. \A x \in 1 .. last - 1 : x \in 1 .. last BY <1>1
      <3> QED BY <1>1, <1>3, <3>1 DEF Bracketed
    <2> HIDE DEF rid
    <2>5. HeapSound(g)
      <3> HIDE DEF p, n
      <3> QED BY <1>1, <1>3, <2>1, <2>2, <2>3, <2>4, PlacedSound
    <2>6. PagesSound(g) BY <2>5 DEF HeapSound
    <2>7. /\ Keeps(g, h) /\ RID(last, n) \in Rids /\ RID(last, n) \notin LiveRIDs(h)
          /\ LiveRIDs(g) = LiveRIDs(h) \cup {RID(last, n)}
      <3>1. NumTuples(h.pages[h.last_page_id]) = n
            /\ \A s \in 0 .. n - 1 :
                 q.slots[s].deleted = h.pages[h.last_page_id].slots[s].deleted
        BY <2>1
      <3> HIDE DEF n
      <3> QED BY <1>1, <1>3, <2>1, <2>2, <2>6, <3>1, PlacedLive
    <2>8. g.starting_rid = IF h.starting_rid.page = -1 THEN rid ELSE h.starting_rid
      BY <2>2 DEF Placed
    <2>9. g.starting_rid.page # -1 BY <1>1, <2>3, <2>8
    <2> QED BY <2>5, <2>7, <2>8, <2>9 DEF g
  <1>5. CASE ~Fits(p, v)
    <2> DEFINE q == IF Fits(BlankPage, v) THEN WithTuple(BlankPage, v) ELSE BlankPage
               rid == RID(last + 1, -1)
    <2>1. g = Placed(e, q, rid) BY <1>1, <1>5, InsertUnfolds
    <2>2. PageSound(q) /\ q.next_page_id = -1
      BY BlankPageSound, WithTupleSound
    <2>3. /\ PagesSound(e) /\ e.last_page_id = last + 1
          /\ e.pages[last + 1] = BlankPage
          /\ \A x \in 1 .. last : /\ e.pages[x].slots = h.pages[x].slots
                                  /\ NumTuples(e.pages[x]) = NumTuples(h.pages[x])
          /\ e.starting_rid = h.starting_rid
      BY <1>1, ExtendedSound
    <2>4. rid \in Rids /\ rid.page = last + 1 /\ rid.slot = -1 BY <1>1 DEF RID, Rids
    <2> HIDE DEF g, e, q, rid
    <2>5. IF e.starting_rid.page = -1
          THEN \A x \in 1 .. e.last_page_id - 1 : NumTuples(e.pages[x]) = 0
          ELSE /\ e.starting_rid.page \in 1 .. e.last_page_id
               /\ e.starting_rid.slot <= 0
               /\ \A x \in 1 .. e.starting_rid.page - 1 : NumTuples(e.pages[x]) = 0
      <3>1. e.last_page_id - 1 = last BY <1>1, <2>3
      <3>2. CASE h.starting_rid.page = -1 BY <1>1, <2>3, <3>1, <3>2 DEF Bracketed
      <3>3. CASE h.starting_rid.page # -1
        <4>1. /\ h.starting_rid.page \in 1 .. last /\ h.starting_rid.slot <= 0
              /\ \A x \in 1 .. h.starting_rid.page - 1 : NumTuples(h.pages[x]) = 0
          BY <1>1, <3>3 DEF Bracketed
        <4>2. \A x \in 1 .. h.starting_rid.page - 1 : x \in 1 .. last BY <1>1, <4>1
        <4>3. h.starting_rid.page \in 1 .. last + 1 BY <1>1, <4>1
        <4> QED BY <2>3, <3>3, <4>1, <4>2, <4>3
      <3> QED BY <3>2, <3>3
    <2>6. HeapSound(g)
      <3>1. rid.page = e.last_page_id /\ rid.slot <= 0 BY <2>3, <2>4
      <3> QED BY <2>1, <2>2, <2>3, <2>4, <2>5, <3>1, PlacedSound
    <2>7. PagesSound(g) BY <2>6 DEF HeapSound
    <2>8. /\ g.last_page_id = last + 1
          /\ \A x \in 1 .. last : g.pages[x] = e.pages[x]
      <3>1. DOMAIN e.pages = 1 .. last + 1 BY <2>3 DEF PagesSound, HeapShaped
      <3>2. \A x \in 1 .. last : x \in 1 .. last + 1 /\ x # last + 1 BY <1>1
      <3>3. g.pages = [e.pages EXCEPT ![e.last_page_id] = q]
            /\ g.last_page_id = e.last_page_id BY <2>1 DEF Placed
      <3> QED BY <2>3, <3>1, <3>2, <3>3
    <2>9. Keeps(g, h)
      <3>1. last <= last + 1 BY <1>1
      <3> QED BY <2>3, <2>8, <3>1 DEF Keeps
    <2>10. g.starting_rid = IF h.starting_rid.page = -1 THEN rid ELSE h.starting_rid
      BY <2>1, <2>3 DEF Placed
    <2>11. g.starting_rid.page # -1 BY <1>1, <2>4, <2>10
    <2>12. ASSUME Fits(BlankPage, v)
           PROVE  \E r \in Rids : /\ r \notin LiveRIDs(h)
                                  /\ LiveRIDs(g) = LiveRIDs(h) \cup {r}
      <3>1. q = WithTuple(BlankPage, v) BY <2>12 DEF q
      <3>2. /\ NumTuples(q) = 0 + 1 /\ ~q.slots[0].deleted
        BY <3>1, <2>12, BlankPageSound, WithTupleSound
      <3>3. NumTuples(e.pages[e.last_page_id]) = 0 BY <2>3, BlankPageSound
      <3>4. \A s \in 0 .. 0 - 1 : q.slots[s].deleted = e.pages[e.last_page_id].slots[s].deleted
        OBVIOUS
      <3>5. /\ RID(e.last_page_id, 0) \in Rids
            /\ RID(e.last_page_id, 0) \notin LiveRIDs(e)
            /\ LiveRIDs(g) = LiveRIDs(e) \cup {RID(e.last_page_id, 0)}
        BY <2>1, <2>2, <2>3, <2>7, <3>2, <3>3, <3>4, PlacedLive
      <3>6. LiveRIDs(e) = LiveRIDs(h)
        <4>1. /\ LiveRIDs(e) \subseteq Rids /\ LiveRIDs(h) \subseteq Rids
              /\ \A r \in Rids : r \in LiveRIDs(e) <=>
                   /\ r.page \in 1 .. last + 1
                   /\ r.slot \in DOMAIN e.pages[r.page].slots
                   /\ ~e.pages[r.page].slots[r.slot].deleted
              /\ \A r \in Rids : r \in LiveRIDs(h) <=>
                   /\ r.page \in 1 .. last
                   /\ r.slot \in DOMAIN h.pages[r.page].slots
                   /\ ~h.pages[r.page].slots[r.slot].deleted
          BY <1>1, <2>3, LiveRIDsAre
        <4>2. DOMAIN BlankPage.slots = {} BY DEF BlankPage
        <4>3. \A x : x \in 1 .. last + 1 <=> x \in 1 .. last \/ x = last + 1 BY <1>1
        <4>4. ASSUME NEW r \in Rids
              PROVE  r \in LiveRIDs(e) <=> r \in LiveRIDs(h)
          <5>1. CASE r.page = last + 1
            <6>1. r.slot \notin DOMAIN e.pages[r.page].slots BY <5>1, <4>2, <2>3
            <6>2. r.page \notin 1 .. last BY <5>1, <1>1
            <6> QED BY <6>1, <6>2, <4>1
          <5>2. CASE r.page # last + 1 BY <5>2, <4>1, <4>3, <2>3
          <5> QED BY <5>1, <5>2
        <4> QED BY <4>1, <4>4
      <3> QED BY <3>5, <3>6
    <2> QED BY <2>6, <2>9, <2>10, <2>11, <2>12 DEF g
  <1> QED BY <1>4, <1>5

\* deleteTuple, with any count of tuples.
LEMMA DeletedSound ==
    ASSUME NEW h, HeapSound(h), NEW rid \in LiveRIDs(h), NEW count \in Int
    PROVE  LET g == Changed(h, rid.page, PageDelete(h.pages[rid.page], rid.slot), count)
           IN  /\ HeapSound(g)
               /\ g.last_page_id = h.last_page_id /\ g.starting_rid = h.starting_rid
               /\ LiveRIDs(g) = LiveRIDs(h) \ {rid}
  <1> DEFINE p == rid.page
             q == PageDelete(h.pages[p], rid.slot)
             g == Changed(h, p, q, count)
             last == h.last_page_id
  <1>1. PagesSound(h) BY DEF HeapSound
  <1>2. /\ rid \in Rids /\ p \in 1 .. last
        /\ rid.slot \in DOMAIN h.pages[p].slots /\ ~h.pages[p].slots[rid.slot].deleted
    BY <1>1, LiveRIDsAre
  <1>3. PageSound(h.pages[p]) BY <1>1, <1>2 DEF PagesSound
  <1>4. IsLive(h.pages[p], rid.slot) BY <1>2, <1>3, LiveUnlessDeleted
  <1>5. /\ PageSound(q) /\ NumTuples(q) = NumTuples(h.pages[p]) /\ Agree(q, h.pages[p])
        /\ \A t \in DOMAIN h.pages[p].slots :
             q.slots[t].deleted <=> h.pages[p].slots[t].deleted \/ t = rid.slot
    BY <1>3, <1>4, PageDeleteSound
  <1> HIDE DEF q
  <1>6. HeapSound(g) BY <1>2, <1>5, ChangedSound
  <1>7. /\ g.last_page_id = last /\ g.starting_rid = h.starting_rid
        /\ g.pages = [h.pages EXCEPT ![p] = q] /\ DOMAIN h.pages = 1 .. last
    BY <1>1 DEF Changed, PagesSound, HeapShaped
  <1> HIDE DEF g
  <1>8. PagesSound(g) BY <1>6 DEF HeapSound
  <1>9. DOMAIN q.slots = DOMAIN h.pages[p].slots BY <1>5 DEF Agree
  <1>10. ASSUME NEW r \in Rids
         PROVE  r \in LiveRIDs(g) <=> r \in LiveRIDs(h) /\ r # rid
    <2>1. r \in LiveRIDs(g) <=>
            /\ r.page \in 1 .. last
            /\ r.slot \in DOMAIN g.pages[r.page].slots
            /\ ~g.pages[r.page].slots[r.slot].deleted
      BY <1>7, <1>8, LiveRIDsAre
    <2>2. r \in LiveRIDs(h) <=>
            /\ r.page \in 1 .. last
            /\ r.slot \in DOMAIN h.pages[r.page].slots
            /\ ~h.pages[r.page].slots[r.slot].deleted
      BY <1>1, LiveRIDsAre
    <2>3. r = rid <=> r.page = p /\ r.slot = rid.slot BY <1>2 DEF Rids
    <2>4. CASE r.page = p
      <3>1. g.pages[p] = q BY <1>2, <1>7
      <3> QED BY <2>1, <2>2, <2>3, <2>4, <3>1, <1>5, <1>9
    <2>5. CASE r.page # p
      <3>1. r.page \in 1 .. last => g.pages[r.page] = h.pages[r.page] BY <2>5, <1>7
      <3> QED BY <2>1, <2>2, <2>3, <2>5, <3>1
    <2> QED BY <2>4, <2>5
  <1>11. LiveRIDs(g) \subseteq Rids /\ LiveRIDs(h) \subseteq Rids
    BY <1>1, <1>8, LiveRIDsAre
  <1>12. LiveRIDs(g) = LiveRIDs(h) \ {rid} BY <1>10, <1>11
  <1> QED BY <1>6, <1>7, <1>12 DEF g, q

\* Deletion, with the count or without, and overwriting change one page.
LEMMA ChangedIs ==
    ASSUME NEW h, HeapSound(h), NEW rid
    PROVE  /\ DeleteTuple(h, rid) =
                Changed(h, rid.page, PageDelete(h.pages[rid.page], rid.slot),
                        h.num_of_tuples - 1)
           /\ [h EXCEPT !.pages[rid.page] = PageDelete(@, rid.slot)] =
                Changed(h, rid.page, PageDelete(h.pages[rid.page], rid.slot),
                        h.num_of_tuples)
           /\ \A v : [h EXCEPT !.pages[rid.page] = PageOverwrite(@, rid.slot, v)] =
                Changed(h, rid.page, PageOverwrite(h.pages[rid.page], rid.slot, v),
                        h.num_of_tuples)
  <1>1. h = [pages |-> h.pages, disk |-> h.disk, dirty |-> h.dirty,
             last_page_id |-> h.last_page_id, num_of_tuples |-> h.num_of_tuples,
             starting_rid |-> h.starting_rid, stopping_rid |-> h.stopping_rid]
    BY DEF HeapSound, PagesSound, HeapShaped
  <1>2. ASSUME NEW P, NEW n
        PROVE  [h EXCEPT !.pages = P, !.num_of_tuples = n] =
                 [pages |-> P, disk |-> h.disk, dirty |-> h.dirty,
                  last_page_id |-> h.last_page_id, num_of_tuples |-> n,
                  starting_rid |-> h.starting_rid, stopping_rid |-> h.stopping_rid]
    <2> DEFINE m == [h EXCEPT !.pages = P]
               w == [h EXCEPT !.pages = P, !.num_of_tuples = n]
    <2>1. m = [pages |-> P, disk |-> h.disk, dirty |-> h.dirty,
               last_page_id |-> h.last_page_id, num_of_tuples |-> h.num_of_tuples,
               starting_rid |-> h.starting_rid, stopping_rid |-> h.stopping_rid]
      BY <1>1
    <2>2. w = [m EXCEPT !.num_of_tuples = n] OBVIOUS
    <2> HIDE DEF m, w
    <2>3. w = [pages |-> P, disk |-> h.disk, dirty |-> h.dirty,
               last_page_id |-> h.last_page_id, num_of_tuples |-> n,
               starting_rid |-> h.starting_rid, stopping_rid |-> h.stopping_rid]
      BY <2>1, <2>2
    <2> QED BY <2>3 DEF w
  <1>3. \A P : [h EXCEPT !.pages = P] =
          [pages |-> P, disk |-> h.disk, dirty |-> h.dirty,
           last_page_id |-> h.last_page_id, num_of_tuples |-> h.num_of_tuples,
           starting_rid |-> h.starting_rid, stopping_rid |-> h.stopping_rid]
    BY <1>1
  <1>4. DeleteTuple(h, rid) =
          [h EXCEPT !.pages = [h.pages EXCEPT ![rid.page] =
                                 PageDelete(h.pages[rid.page], rid.slot)],
                    !.num_of_tuples = h.num_of_tuples - 1]
    BY DEF DeleteTuple
  <1>5. [h EXCEPT !.pages[rid.page] = PageDelete(@, rid.slot)] =
          [h EXCEPT !.pages = [h.pages EXCEPT ![rid.page] =
                                 PageDelete(h.pages[rid.page], rid.slot)]]
    OBVIOUS
  <1>6. \A v : [h EXCEPT !.pages[rid.page] = PageOverwrite(@, rid.slot, v)] =
          [h EXCEPT !.pages = [h.pages EXCEPT ![rid.page] =
                                 PageOverwrite(h.pages[rid.page], rid.slot, v)]]
    OBVIOUS
  <1> QED BY <1>1, <1>2, <1>3, <1>4, <1>5, <1>6 DEF Changed

\* updateTuple in place.
LEMMA OverwrittenSound ==
    ASSUME NEW h, HeapSound(h), NEW rid \in LiveRIDs(h), NEW v \in Values,
           ~Moves(h, rid, v)
    PROVE  LET g == Changed(h, rid.page, PageOverwrite(h.pages[rid.page], rid.slot, v),
                            h.num_of_tuples)
           IN  /\ HeapSound(g)
               /\ g.last_page_id = h.last_page_id /\ g.starting_rid = h.starting_rid
               /\ LiveRIDs(g) = LiveRIDs(h)
  <1> DEFINE p == rid.page
             s == rid.slot
             q == PageOverwrite(h.pages[p], s, v)
             g == Changed(h, p, q, h.num_of_tuples)
             last == h.last_page_id
  <1>1. PagesSound(h) /\ h.num_of_tuples \in Int BY DEF HeapSound, PagesSound, HeapShaped
  <1>2. /\ rid \in Rids /\ p \in 1 .. last
        /\ s \in DOMAIN h.pages[p].slots /\ ~h.pages[p].slots[s].deleted
    BY <1>1, LiveRIDsAre
  <1>3. PageSound(h.pages[p]) BY <1>1, <1>2 DEF PagesSound
  <1>4. IsLive(h.pages[p], s) BY <1>2, <1>3, LiveUnlessDeleted
  <1>5. Length(v) <= Length(h.pages[p].slots[s].value)
    <2>1. h.pages[p].slots[s].value \in Values BY <1>2, <1>3, SlotsOf DEF SlotRecords
    <2>2. Length(v) \in Nat /\ Length(h.pages[p].slots[s].value) \in Nat
      BY <2>1, LengthIsNat
    <2> QED BY <2>2 DEF Moves
  <1>6. /\ PageSound(q) /\ NumTuples(q) = NumTuples(h.pages[p]) /\ Agree(q, h.pages[p])
        /\ \A t \in DOMAIN h.pages[p].slots :
             q.slots[t].deleted <=> h.pages[p].slots[t].deleted
    <2> HIDE DEF p, s
    <2> QED BY <1>3, <1>4, <1>5, PageOverwriteSound
  <1> HIDE DEF q
  <1>7. HeapSound(g) BY <1>1, <1>2, <1>6, ChangedSound
  <1>8. /\ g.last_page_id = last /\ g.starting_rid = h.starting_rid
        /\ g.pages = [h.pages EXCEPT ![p] = q] /\ DOMAIN h.pages = 1 .. last
    BY <1>1 DEF Changed, PagesSound, HeapShaped
  <1> HIDE DEF g
  <1>9. PagesSound(g) BY <1>7 DEF HeapSound
  <1>10. DOMAIN q.slots = DOMAIN h.pages[p].slots BY <1>6 DEF Agree
  <1>11. ASSUME NEW r \in Rids
         PROVE  r \in LiveRIDs(g) <=> r \in LiveRIDs(h)
    <2>1. r \in LiveRIDs(g) <=>
            /\ r.page \in 1 .. last
            /\ r.slot \in DOMAIN g.pages[r.page].slots
            /\ ~g.pages[r.page].slots[r.slot].deleted
      BY <1>8, <1>9, LiveRIDsAre
    <2>2. r \in LiveRIDs(h) <=>
            /\ r.page \in 1 .. last
            /\ r.slot \in DOMAIN h.pages[r.page].slots
            /\ ~h.pages[r.page].slots[r.slot].deleted
      BY <1>1, LiveRIDsAre
    <2>3. CASE r.page = p
      <3>1. g.pages[p] = q BY <1>2, <1>8
      <3> QED BY <2>1, <2>2, <2>3, <3>1, <1>6, <1>10
    <2>4. CASE r.page # p
      <3>1. r.page \in 1 .. last => g.pages[r.page] = h.pages[r.page] BY <2>4, <1>8
      <3> QED BY <2>1, <2>2, <2>4, <3>1
    <2> QED BY <2>3, <2>4
  <1>12. LiveRIDs(g) \subseteq Rids /\ LiveRIDs(h) \subseteq Rids
    BY <1>1, <1>9, LiveRIDsAre
  <1>13. LiveRIDs(g) = LiveRIDs(h) BY <1>11, <1>12
  <1> QED BY <1>7, <1>8, <1>13 DEF g, q

\* A page has finitely many slots and a heap finitely many pages.
LEMMA LiveRIDsFinite ==
    ASSUME NEW h, PagesSound(h)
    PROVE  IsFiniteSet(LiveRIDs(h))
  <1> DEFINE on(p) == {RID(p, s) : s \in LiveSlots(h.pages[p])}
             sets == {on(p) : p \in DOMAIN h.pages}
  <1>1. DOMAIN h.pages = 1 .. h.last_page_id /\ h.last_page_id \in Int
    BY DEF PagesSound, HeapShaped
  <1>2. IsFiniteSet(DOMAIN h.pages)
    <2>1. 1 \in Int OBVIOUS
    <2> QED BY <1>1, <2>1, FS_Interval
  <1>3. IsFiniteSet(sets)
    <2> DEFINE f == [p \in DOMAIN h.pages |-> on(p)]
    <2>1. f \in Surjection(DOMAIN h.pages, sets)
      <3> HIDE DEF on
      <3> QED BY DEF Surjection
    <2> HIDE DEF f, sets
    <2> QED BY <1>2, <2>1, FS_Surjection
  <1>4. ASSUME NEW T \in sets PROVE IsFiniteSet(T)
    <2>1. PICK p \in DOMAIN h.pages : T = on(p) OBVIOUS
    <2> DEFINE live == LiveSlots(h.pages[p])
               n == NumTuples(h.pages[p])
               f == [s \in live |-> RID(p, s)]
    <2>2. PageSound(h.pages[p]) BY <1>1 DEF PagesSound
    <2>3. n \in Nat /\ live \subseteq 0 .. n - 1
      BY <2>2, SlotsOf DEF LiveSlots
    <2>4. IsFiniteSet(0 .. n - 1)
      <3>1. 0 \in Int /\ n - 1 \in Int BY <2>3
      <3> HIDE DEF n
      <3> QED BY <3>1, FS_Interval
    <2>5. IsFiniteSet(live)
      <3> HIDE DEF live, n
      <3> QED BY <2>3, <2>4, FS_Subset
    <2>6. f \in Surjection(live, T)
      <3>1. T = {RID(p, s) : s \in live} BY <2>1
      <3> HIDE DEF live
      <3> QED BY <3>1 DEF Surjection
    <2> HIDE DEF f, live
    <2> QED BY <2>5, <2>6, FS_Surjection
  <1>5. LiveRIDs(h) = UNION sets BY DEF LiveRIDs
  <1> HIDE DEF sets
  <1> QED BY <1>3, <1>4, <1>5, FS_UNION

\* updateTuple of a live tuple: the others stay live, where they are, and when
\* the new value fits on a page there are as many live tuples as before.
LEMMA UpdateSound ==
    ASSUME NEW h, HeapSound(h), h.starting_rid.page # -1,
           NEW rid \in LiveRIDs(h), NEW v \in Values
    PROVE  LET g == UpdateTuple(h, rid, v) IN
           /\ HeapSound(g)
           /\ h.last_page_id <= g.last_page_id
           /\ g.starting_rid = h.starting_rid
           /\ LiveRIDs(h) \ {rid} \subseteq LiveRIDs(g)
           /\ Fits(BlankPage, v) =>
                Cardinality(LiveRIDs(g)) = Cardinality(LiveRIDs(h))
  <1> DEFINE g == UpdateTuple(h, rid, v)
             d == Changed(h, rid.page, PageDelete(h.pages[rid.page], rid.slot),
                          h.num_of_tuples)
             o == Changed(h, rid.page, PageOverwrite(h.pages[rid.page], rid.slot, v),
                          h.num_of_tuples)
  <1>1. h.num_of_tuples \in Int /\ h.last_page_id \in Nat
    BY DEF HeapSound, PagesSound, HeapShaped
  <1>2. g = IF Moves(h, rid, v) THEN InsertTuple(d, v) ELSE o
    BY ChangedIs DEF UpdateTuple
  <1>3. CASE ~Moves(h, rid, v)
    <2>1. /\ HeapSound(o) /\ LiveRIDs(o) = LiveRIDs(h)
          /\ o.last_page_id = h.last_page_id /\ o.starting_rid = h.starting_rid
      BY <1>3, OverwrittenSound
    <2> HIDE DEF g, o
    <2>2. HeapSound(g) /\ h.last_page_id <= g.last_page_id
          /\ g.starting_rid = h.starting_rid
          /\ LiveRIDs(h) \ {rid} \subseteq LiveRIDs(g)
          /\ Cardinality(LiveRIDs(g)) = Cardinality(LiveRIDs(h))
      BY <1>1, <1>2, <1>3, <2>1
    <2> QED BY <2>2 DEF g
  <1>4. CASE Moves(h, rid, v)
    <2>1. /\ HeapSound(d) /\ LiveRIDs(d) = LiveRIDs(h) \ {rid}
          /\ d.last_page_id = h.last_page_id /\ d.starting_rid = h.starting_rid
      BY <1>1, DeletedSound
    <2> HIDE DEF g, d
    <2>2. /\ HeapSound(g) /\ Keeps(g, d) /\ g.starting_rid = d.starting_rid
          /\ Fits(BlankPage, v) =>
               \E r \in Rids : r \notin LiveRIDs(d) /\ LiveRIDs(g) = LiveRIDs(d) \cup {r}
      BY <1>2, <1>4, <2>1, InsertSound
    <2>3. PagesSound(d) /\ PagesSound(g) /\ PagesSound(h) BY <2>1, <2>2 DEF HeapSound
    <2>4. h.last_page_id <= g.last_page_id BY <2>1, <2>2 DEF Keeps
    <2>5. LiveRIDs(d) \subseteq LiveRIDs(g)
      <3>1. ASSUME NEW r \in LiveRIDs(d) PROVE r \in LiveRIDs(g)
        <4>1. /\ r \in Rids /\ r.page \in 1 .. d.last_page_id
              /\ r.slot \in DOMAIN d.pages[r.page].slots
              /\ ~d.pages[r.page].slots[r.slot].deleted
          BY <2>3, LiveRIDsAre
        <4>2. /\ r.slot \in DOMAIN g.pages[r.page].slots
              /\ ~g.pages[r.page].slots[r.slot].deleted
          BY <4>1, <2>2 DEF Keeps
        <4>3. r.page \in 1 .. g.last_page_id
          <5>1. g.last_page_id \in Nat BY <2>3 DEF PagesSound, HeapShaped
          <5> QED BY <4>1, <5>1, <2>1, <2>4, <1>1
        <4> QED BY <4>1, <4>2, <4>3, <2>3, LiveRIDsAre
      <3> QED BY <3>1
    <2>6. ASSUME Fits(BlankPage, v)
          PROVE  Cardinality(LiveRIDs(g)) = Cardinality(LiveRIDs(h))
      <3>1. PICK r \in Rids : r \notin LiveRIDs(d) /\ LiveRIDs(g) = LiveRIDs(d) \cup {r}
        BY <2>2, <2>6
      <3>2. IsFiniteSet(LiveRIDs(h)) /\ IsFiniteSet(LiveRIDs(d))
        BY <2>3, LiveRIDsFinite
      <3>3. Cardinality(LiveRIDs(d)) = Cardinality(LiveRIDs(h)) - 1
        BY <2>1, <3>2, FS_RemoveElement
      <3>4. Cardinality(LiveRIDs(g)) = Cardinality(LiveRIDs(d)) + 1
        BY <3>1, <3>2, FS_AddElement
      <3>5. Cardinality(LiveRIDs(h)) \in Nat BY <3>2, FS_CardinalityType
      <3> QED BY <3>3, <3>4, <3>5
    <2>7. g.starting_rid = h.starting_rid /\ LiveRIDs(h) \ {rid} \subseteq LiveRIDs(g)
      BY <2>1, <2>2, <2>5
    <2> QED BY <2>2, <2>4, <2>6, <2>7 DEF g
  <1> QED BY <1>3, <1>4

\* An eviction, of whichever pages.  A tuple may be live again that was deleted
\* from a page nobody marked; none is lost.
LEMMA EvictedSound ==
    ASSUME NEW h, HeapSound(h), NEW P \in SUBSET (1 .. h.last_page_id)
    PROVE  LET g == Evicted(h, P) IN
           /\ HeapSound(g)
           /\ g.last_page_id = h.last_page_id
           /\ g.starting_rid = h.starting_rid /\ g.stopping_rid = h.stopping_rid
           /\ g.num_of_tuples = h.num_of_tuples
           /\ LiveRIDs(h) \subseteq LiveRIDs(g)
  <1> DEFINE last == h.last_page_id
             g == Evicted(h, P)
             D == [p \in 1 .. last |-> IF p \in P \cap h.dirty THEN h.pages[p] ELSE h.disk[p]]
             M == [p \in 1 .. last |-> IF p \in P \ h.dirty THEN h.disk[p] ELSE h.pages[p]]
  <1>1. /\ PagesSound(h) /\ Bracketed(h)
        /\ DOMAIN h.pages = 1 .. last /\ DOMAIN h.disk = 1 .. last
        /\ h.dirty \subseteq 1 .. last /\ h.starting_rid.page \in Int /\ last \in Nat
    BY DEF HeapSound, PagesSound, HeapShaped, Rids
  <1>2. h = [pages |-> h.pages, disk |-> h.disk, dirty |-> h.dirty,
             last_page_id |-> h.last_page_id, num_of_tuples |-> h.num_of_tuples,
             starting_rid |-> h.starting_rid, stopping_rid |-> h.stopping_rid]
    BY <1>1 DEF PagesSound, HeapShaped
  <1>3. g = [h EXCEPT !.disk = D, !.pages = M, !.dirty = h.dirty \ P]
    BY <1>1, <1>2 DEF Evicted
  <1>4. g = [pages |-> M, disk |-> D, dirty |-> h.dirty \ P,
             last_page_id |-> last, num_of_tuples |-> h.num_of_tuples,
             starting_rid |-> h.starting_rid, stopping_rid |-> h.stopping_rid]
    <2> HIDE DEF g, M, D
    <2> QED BY <1>2, <1>3
  <1> HIDE DEF g
  <1>5. /\ g.last_page_id = last /\ g.num_of_tuples = h.num_of_tuples
        /\ g.starting_rid = h.starting_rid /\ g.stopping_rid = h.stopping_rid
        /\ g.dirty = h.dirty \ P
        /\ g = [pages |-> g.pages, disk |-> g.disk, dirty |-> g.dirty,
                last_page_id |-> g.last_page_id, num_of_tuples |-> g.num_of_tuples,
                starting_rid |-> g.starting_rid, stopping_rid |-> g.stopping_rid]
    <2> HIDE DEF M, D
    <2> QED BY <1>4
  <1>6. /\ g.pages = [p \in 1 .. last |-> g.pages[p]]
        /\ g.disk = [p \in 1 .. last |-> g.disk[p]]
        /\ \A p \in 1 .. last :
             /\ g.pages[p] = IF p \in P /\ p \notin h.dirty THEN h.disk[p] ELSE h.pages[p]
             /\ g.disk[p] = IF p \in P /\ p \in h.dirty THEN h.pages[p] ELSE h.disk[p]
    BY <1>4
  <1>7. HeapShaped(g) BY <1>1, <1>5, <1>6 DEF PagesSound, HeapShaped
  <1>8. \A p \in 1 .. last : PageSound(g.pages[p]) /\ PageSound(g.disk[p])
    BY <1>1, <1>6 DEF PagesSound
  <1>9. ASSUME NEW p \in 1 .. last
        PROVE  Agree(h.pages[p], g.pages[p])
    <2>1. CASE p \in P /\ p \notin h.dirty
      BY <2>1, <1>1, <1>6 DEF PagesSound
    <2>2. CASE ~(p \in P /\ p \notin h.dirty)
      <3>1. Agree(h.pages[p], h.pages[p]) BY DEF Agree
      <3> QED BY <2>2, <3>1, <1>6
    <2> QED BY <2>1, <2>2
  <1>10. Linked(g) BY <1>1, <1>5, <1>9 DEF PagesSound, Linked, Agree
  <1>11. \A p \in (1 .. last) \ g.dirty : Agree(g.pages[p], g.disk[p])
    <2> TAKE p \in (1 .. last) \ g.dirty
    <2>1. CASE p \in P
      <3>1. g.pages[p] = g.disk[p] BY <2>1, <1>6
      <3> QED BY <3>1 DEF Agree
    <2>2. CASE p \notin P
      <3>1. p \notin h.dirty BY <2>2, <1>5
      <3>2. g.pages[p] = h.pages[p] /\ g.disk[p] = h.disk[p] BY <2>2, <1>6
      <3> QED BY <3>1, <3>2, <1>1 DEF PagesSound
    <2> QED BY <2>1, <2>2
  <1>12. \A p \in 1 .. last : NumTuples(g.pages[p]) = NumTuples(h.pages[p])
    BY <1>9 DEF Agree, NumTuples
  <1>13. Bracketed(g)
    <2>1. CASE h.starting_rid.page = -1
      BY <1>1, <1>5, <1>12, <2>1 DEF Bracketed
    <2>2. CASE h.starting_rid.page # -1
      <3>1. \A x \in 1 .. h.starting_rid.page - 1 : x \in 1 .. last
        BY <1>1, <2>2 DEF Bracketed
      <3> QED BY <1>1, <1>5, <1>12, <2>2, <3>1 DEF Bracketed
    <2> QED BY <2>1, <2>2
  <1>14. PagesSound(g) BY <1>5, <1>7, <1>8, <1>10, <1>11 DEF PagesSound
  <1>15. LiveRIDs(h) \subseteq LiveRIDs(g)
    <2>1. ASSUME NEW r \in LiveRIDs(h) PROVE r \in LiveRIDs(g)
      <3>1. /\ r \in Rids /\ r.page \in 1 .. last
            /\ r.slot \in DOMAIN h.pages[r.page].slots
            /\ ~h.pages[r.page].slots[r.slot].deleted
        BY <1>1, LiveRIDsAre
      <3>2. /\ r.slot \in DOMAIN g.pages[r.page].slots
            /\ ~g.pages[r.page].slots[r.slot].deleted
        BY <3>1, <1>9 DEF Agree
      <3> QED BY <3>1, <3>2, <1>5, <1>14, LiveRIDsAre
    <2> QED BY <2>1
  <1>16. HeapSound(g) BY <1>13, <1>14 DEF HeapSound
  <1> QED BY <1>5, <1>15, <1>16 DEF g

\* A clean restart loads what the eviction of all pages left.
LEMMA RestartIs ==
    ASSUME NEW h, HeapSound(h)
    PROVE  LET g == LoadMetaData(Evicted(h, DOMAIN h.pages), Metadata(h)) IN
           HeapSound(g) /\ g = Evicted(h, DOMAIN h.pages)
  <1> DEFINE e == Evicted(h, DOMAIN h.pages)
             g == LoadMetaData(e, Metadata(h))
  <1>1. DOMAIN h.pages = 1 .. h.last_page_id BY DEF HeapSound, PagesSound, HeapShaped
  <1>2. /\ HeapSound(e) /\ e.last_page_id = h.last_page_id
        /\ e.starting_rid = h.starting_rid /\ e.stopping_rid = h.stopping_rid
        /\ e.num_of_tuples = h.num_of_tuples
    BY <1>1, EvictedSound
  <1> HIDE DEF e
  <1>3. e = [pages |-> e.pages, disk |-> e.disk, dirty |-> e.dirty,
             last_page_id |-> e.last_page_id, num_of_tuples |-> e.num_of_tuples,
             starting_rid |-> e.starting_rid, stopping_rid |-> e.stopping_rid]
    BY <1>2 DEF HeapSound, PagesSound, HeapShaped
  <1>4. g = [e EXCEPT !.last_page_id = e.last_page_id,
                      !.num_of_tuples = e.num_of_tuples,
                      !.starting_rid = e.starting_rid,
                      !.stopping_rid = e.stopping_rid]
    BY <1>2 DEF LoadMetaData, Metadata
  <1>5. g = e BY <1>3, <1>4
  <1> QED BY <1>2, <1>5 DEF e

-----------------------------------------------------------------------------
(* The scan. *)

\* A scan stays sound while what it has not seen stays live.
LEMMA ScanKept ==
    ASSUME NEW h, NEW g, NEW st, ScanSound(h, st), HeapSound(h),
           HeapSound(g), h.last_page_id <= g.last_page_id,
           g.starting_rid = h.starting_rid, st.unseen \subseteq LiveRIDs(g)
    PROVE  ScanSound(g, st)
  <1>1. h.last_page_id \in Nat /\ g.last_page_id \in Nat
    BY DEF HeapSound, PagesSound, HeapShaped
  <1>2. \A p \in 1 .. h.last_page_id : p \in 1 .. g.last_page_id BY <1>1
  <1> QED BY <1>2 DEF ScanSound

\* A scan starts at the first tuple there is.
LEMMA StartAhead ==
    ASSUME NEW h, HeapSound(h)
    PROVE  /\ h.starting_rid.page = -1 => LiveRIDs(h) = {}
           /\ \A r \in LiveRIDs(h) : Ahead(h.starting_rid, r)
  <1>1. PagesSound(h) /\ Bracketed(h) /\ h.starting_rid \in Rids
    BY DEF HeapSound, PagesSound, HeapShaped
  <1>2. ASSUME NEW r \in LiveRIDs(h)
        PROVE  h.starting_rid.page # -1 /\ Ahead(h.starting_rid, r)
    <2>1. r \in Rids /\ r.page \in 1 .. h.last_page_id
          /\ r.slot \in DOMAIN h.pages[r.page].slots
      BY <1>1, LiveRIDsAre
    <2>2. r.slot \in 0 .. NumTuples(h.pages[r.page]) - 1
          /\ NumTuples(h.pages[r.page]) \in Nat
      BY <2>1, <1>1, SlotsOf DEF PagesSound
    <2>3. NumTuples(h.pages[r.page]) # 0 /\ r.slot >= 0 BY <2>2
    <2>4. h.starting_rid.page # -1 BY <2>1, <2>3, <1>1 DEF Bracketed
    <2>5. ~(r.page \in 1 .. h.starting_rid.page - 1)
      BY <2>3, <2>4, <1>1 DEF Bracketed
    <2>6. h.starting_rid.page \in 1 .. h.last_page_id /\ h.starting_rid.slot <= 0
      BY <2>4, <1>1 DEF Bracketed
    <2>7. h.last_page_id \in Nat /\ h.starting_rid.slot \in Int /\ r.slot \in Int
      BY <1>1, <2>1 DEF PagesSound, HeapShaped, Rids
    <2>8. r.page >= h.starting_rid.page BY <2>1, <2>5, <2>6, <2>7
    <2> QED BY <2>1, <2>3, <2>4, <2>6, <2>7, <2>8 DEF Ahead
  <1> QED BY <1>2

\* A turn of the scan that does not end it: what it passes is behind the cursor
\* then, and a live tuple it passes is returned.
LEMMA AdvanceSound ==
    ASSUME HInv, stmt # NoStmt, ~AtEnd, Advance
    PROVE  /\ ScanSound(heap, stmt')
           /\ stmt'.kind = stmt.kind
           /\ heap.starting_rid.page # -1
           /\ Found => Looked \in LiveRIDs(heap) /\ Looked \notin stmt'.unseen
  <1> DEFINE c == stmt.curr_rid_pointer
             last == heap.last_page_id
             page == heap.pages[c.page]
  <1>1. HeapSound(heap) /\ PagesSound(heap) /\ ScanSound(heap, stmt)
    BY DEF HInv, HeapSound
  <1>2. /\ stmt \in Statements /\ c \in Rids /\ c.page \in Int /\ c.slot \in Int
        /\ stmt.unseen \subseteq Rids /\ stmt.unseen \subseteq LiveRIDs(heap)
        /\ \A r \in stmt.unseen : Ahead(c, r)
    BY <1>1 DEF ScanSound, Statements, Rids
  <1>3. /\ c.page # -1
        /\ PastPage => NextPageId # -1 /\ ~(NextPageId > heap.stopping_rid.page)
    BY DEF AtEnd
  <1>4. c.page \in 1 .. last /\ heap.starting_rid.page # -1 /\ last \in Nat
    BY <1>1, <1>3 DEF ScanSound, PagesSound, HeapShaped
  <1>5. PageSound(page) /\ NumTuples(page) \in Nat
        /\ page.next_page_id = IF c.page = last THEN -1 ELSE c.page + 1
    BY <1>1, <1>4, SlotsOf DEF PagesSound, Linked
  <1>6. /\ Looked \in Rids /\ Looked.page \in 1 .. last /\ Looked.slot \in Int
        /\ IF PastPage THEN Looked.page = c.page + 1 /\ Looked.slot = 0
                       ELSE Looked = c
    <2>1. CASE PastPage
      <3>1. NextPageId = c.page + 1 /\ c.page # last BY <2>1, <1>3, <1>5 DEF NextPageId
      <3>2. Looked = RID(c.page + 1, 0) BY <2>1, <3>1 DEF Looked
      <3>3. c.page + 1 \in 1 .. last BY <1>4, <3>1
      <3> QED BY <2>1, <3>2, <3>3 DEF RID, Rids
    <2>2. CASE ~PastPage
      <3>1. Looked = c BY <2>2 DEF Looked
      <3> QED BY <2>2, <3>1, <1>2, <1>4
    <2> QED BY <2>1, <2>2
  <1>7. PastPage <=> c.slot >= NumTuples(page) BY DEF PastPage
  <1>8. Found <=> Looked \in LiveRIDs(heap)
    <2>1. PageSound(heap.pages[Looked.page]) BY <1>1, <1>6 DEF PagesSound
    <2>2. Found <=> /\ Looked.slot \in DOMAIN heap.pages[Looked.page].slots
                    /\ ~heap.pages[Looked.page].slots[Looked.slot].deleted
      BY <2>1, LiveUnlessDeleted DEF Found
    <2> QED BY <2>2, <1>1, <1>6, LiveRIDsAre
  <1> DEFINE next == RID(Looked.page, Looked.slot + 1)
             unseen == IF Found THEN stmt.unseen \ {Looked} ELSE stmt.unseen
  <1>9. /\ stmt' \in Statements /\ stmt'.kind = stmt.kind /\ stmt'.value = stmt.value
        /\ stmt'.curr_rid_pointer = next /\ stmt'.unseen = unseen
    <2>1. stmt' = [stmt EXCEPT !.curr_rid_pointer = next, !.unseen = unseen]
      BY DEF Advance
    <2>2. next \in Rids BY <1>6 DEF RID, Rids
    <2>3. unseen \subseteq Rids BY <1>2
    <2> HIDE DEF next, unseen
    <2> QED BY <2>1, <2>2, <2>3, <1>2 DEF Statements
  <1>10. unseen \subseteq stmt.unseen /\ Looked \notin unseen BY <1>2, <1>8
  <1>11. next.page = Looked.page /\ next.slot = Looked.slot + 1 BY DEF RID
  <1> HIDE DEF next, unseen
  <1>12. ASSUME NEW r \in unseen
         PROVE  Ahead(next, r)
    <2>1. /\ r \in Rids /\ r.page \in 1 .. last /\ r.page \in Int /\ r.slot \in Int
          /\ r.slot \in DOMAIN heap.pages[r.page].slots
          /\ r # Looked /\ Ahead(c, r)
      BY <1>1, <1>2, <1>10, LiveRIDsAre DEF Rids
    <2>2. r.slot \in 0 .. NumTuples(heap.pages[r.page]) - 1
          /\ NumTuples(heap.pages[r.page]) \in Nat
      BY <2>1, <1>1, SlotsOf DEF PagesSound
    <2>3. Ahead(Looked, r)
      <3>1. CASE ~PastPage BY <3>1, <2>1, <1>6
      <3>2. CASE PastPage
        <4>1. r.page # c.page
          <5>1. SUFFICES ASSUME r.page = c.page PROVE FALSE OBVIOUS
          <5>2. r.slot >= c.slot BY <5>1, <2>1, <1>2 DEF Ahead
          <5> QED BY <5>1, <5>2, <3>2, <2>1, <2>2, <1>2, <1>5, <1>7
        <4>2. r.page > c.page BY <4>1, <2>1 DEF Ahead
        <4> QED BY <4>2, <3>2, <2>1, <2>2, <1>2, <1>6 DEF Ahead
      <3> QED BY <3>1, <3>2
    <2>4. ~(r.page = Looked.page /\ r.slot = Looked.slot)
      BY <2>1, <1>6 DEF Rids
    <2>5. Looked.page \in Int BY <1>6 DEF Rids
    <2> QED BY <2>1, <2>3, <2>4, <2>5, <1>6, <1>11 DEF Ahead
  <1>13. next.page # -1 /\ next.page \in 1 .. last BY <1>4, <1>6, <1>11
  <1>14. stmt'.kind = "update" => stmt'.value \in Values BY <1>1, <1>9 DEF ScanSound
  <1>15. ScanSound(heap, stmt')
    BY <1>2, <1>4, <1>9, <1>10, <1>12, <1>13, <1>14 DEF ScanSound
  <1> QED BY <1>4, <1>8, <1>9, <1>10, <1>15

\* When the scan ends, its cursor is behind the last slot of the last page.
LEMMA EndSeesAll ==
    ASSUME HInv, stmt # NoStmt, AtEnd
    PROVE  stmt.unseen = {}
  <1> DEFINE c == stmt.curr_rid_pointer
             last == heap.last_page_id
  <1>1. HeapSound(heap) /\ PagesSound(heap) /\ ScanSound(heap, stmt)
    BY DEF HInv, HeapSound
  <1>2. CASE c.page = -1 BY <1>1, <1>2 DEF ScanSound
  <1>3. CASE c.page # -1
    <2>1. /\ c.page \in 1 .. last /\ heap.starting_rid.page # -1 /\ last \in Nat
          /\ c \in Rids /\ c.slot \in Int
      BY <1>1, <1>3 DEF ScanSound, PagesSound, HeapShaped, Statements, Rids
    <2>2. heap.stopping_rid.page = last BY <1>1, <2>1 DEF HeapSound, Bracketed
    <2>3. heap.pages[c.page].next_page_id = IF c.page = last THEN -1 ELSE c.page + 1
      BY <1>1, <2>1 DEF PagesSound, Linked
    <2>4. c.slot >= NumTuples(heap.pages[c.page]) /\ c.page = last
      BY <1>3, <2>1, <2>2, <2>3 DEF AtEnd, PastPage, NextPageId
    <2>5. ASSUME NEW r \in stmt.unseen PROVE FALSE
      <3>1. /\ r \in Rids /\ r.page \in 1 .. last
            /\ r.slot \in DOMAIN heap.pages[r.page].slots
            /\ Ahead(c, r)
        BY <1>1, LiveRIDsAre DEF ScanSound
      <3>2. r.slot \in 0 .. NumTuples(heap.pages[r.page]) - 1
            /\ NumTuples(heap.pages[r.page]) \in Nat
        BY <3>1, <1>1, SlotsOf DEF PagesSound
      <3>3. r.page = last /\ r.slot >= c.slot BY <3>1, <2>1, <2>4 DEF Ahead
      <3> QED BY <3>2, <3>3, <2>1, <2>4
    <2> QED BY <2>5
  <1> QED BY <1>2, <1>3

-----------------------------------------------------------------------------
(* The invariant. *)

\* A new table satisfies the invariant.
LEMMA InitSound == Init => HInv
  <1> SUFFICES ASSUME Init PROVE HInv
    OBVIOUS
  <1> DEFINE linked == [BlankPage EXCEPT !.next_page_id = 2]
             pages == [p \in {1, 2} |-> IF p = 1 THEN linked ELSE BlankPage]
             disk == [p \in {1, 2} |-> BlankPage]
  <1>1. /\ heap.pages = pages /\ heap.disk = disk /\ heap.dirty = {1}
        /\ heap.last_page_id = 2 /\ heap.num_of_tuples = 0
        /\ heap.starting_rid = NoRID /\ heap.stopping_rid = NoRID
        /\ heap = [pages |-> heap.pages, disk |-> heap.disk, dirty |-> heap.dirty,
                   last_page_id |-> heap.last_page_id,
                   num_of_tuples |-> heap.num_of_tuples,
                   starting_rid |-> heap.starting_rid,
                   stopping_rid |-> heap.stopping_rid]
        /\ stmt = NoStmt
    BY DEF Init
  <1>2. NoRID \in Rids /\ NoRID.page = -1 BY DEF NoRID, RID, Rids
  <1>3. 1 .. 2 = {1, 2} OBVIOUS
  <1>4. PageSound(BlankPage) /\ NumTuples(BlankPage) = 0 /\ BlankPage.next_page_id = -1
    BY BlankPageSound
  <1>5. PageSound(linked) /\ NumTuples(linked) = 0 /\ linked.next_page_id = 2
    <2>1. 2 \in Int OBVIOUS
    <2> QED BY <1>4, <2>1, RelinkedSound
  <1> HIDE DEF linked
  <1>6. /\ pages[1] = linked /\ pages[2] = BlankPage
        /\ disk[1] = BlankPage /\ disk[2] = BlankPage
        /\ pages = [p \in 1 .. 2 |-> pages[p]] /\ disk = [p \in 1 .. 2 |-> disk[p]]
    BY <1>3
  <1> HIDE DEF pages, disk
  <1>7. HeapShaped(heap) BY <1>1, <1>2, <1>6 DEF HeapShaped
  <1>8. \A p \in 1 .. 2 : PageSound(pages[p]) /\ PageSound(disk[p]) /\ NumTuples(pages[p]) = 0
    BY <1>3, <1>4, <1>5, <1>6
  <1>9. Linked(heap)
    <2>1. \A p \in {1, 2} : pages[p].next_page_id = IF p = 2 THEN -1 ELSE p + 1
      BY <1>4, <1>5, <1>6
    <2> QED BY <1>1, <1>3, <2>1 DEF Linked
  <1>10. \A p \in (1 .. 2) \ {1} : Agree(pages[p], disk[p])
    <2>1. Agree(BlankPage, BlankPage) BY DEF Agree
    <2> QED BY <1>3, <1>6, <2>1
  <1>11. PagesSound(heap) BY <1>1, <1>7, <1>8, <1>9, <1>10 DEF PagesSound
  <1>12. Bracketed(heap) BY <1>1, <1>2, <1>8 DEF Bracketed
  <1> QED BY <1>1, <1>11, <1>12 DEF HInv, HeapSound

\* Every step keeps the invariant.
LEMMA StepSound == HInv /\ [Next]_vars => HInv'
  <1> SUFFICES ASSUME HInv, [Next]_vars PROVE HInv'
    OBVIOUS
  <1>1. HeapSound(heap) BY DEF HInv
  <1>2. heap.last_page_id \in Nat /\ DOMAIN heap.pages = 1 .. heap.last_page_id
    BY <1>1 DEF HeapSound, PagesSound, HeapShaped
  <1>3. ASSUME NEW v \in Values, Insert(v) PROVE HInv'
    <2>1. HeapSound(heap') BY <1>1, <1>3, InsertSound DEF Insert
    <2>2. stmt' = NoStmt BY <1>3 DEF Insert
    <2> QED BY <2>1, <2>2 DEF HInv
  <1>4. ASSUME NEW kind \in {"update", "delete"}, NEW match \in Predicates,
               NEW value \in Values \cup {{}}, kind = "update" => value \in Values,
               Start(kind, match, value)
        PROVE  HInv'
    <2>1. /\ heap' = heap
          /\ stmt' = [kind |-> kind, match |-> match, value |-> value,
                      curr_rid_pointer |-> heap.starting_rid,
                      unseen |-> LiveRIDs(heap)]
      BY <1>4 DEF Start
    <2>2. PagesSound(heap) /\ Bracketed(heap) /\ heap.starting_rid \in Rids
      BY <1>1 DEF HeapSound, PagesSound, HeapShaped
    <2>3. LiveRIDs(heap) \subseteq Rids BY <2>2, LiveRIDsAre
    <2>4. /\ stmt' \in Statements /\ stmt'.kind = kind /\ stmt'.value = value
          /\ stmt'.curr_rid_pointer = heap.starting_rid
          /\ stmt'.unseen = LiveRIDs(heap)
      BY <2>1, <2>2, <2>3 DEF Statements
    <2>5. IF heap.starting_rid.page = -1 THEN LiveRIDs(heap) = {}
          ELSE heap.starting_rid.page \in 1 .. heap.last_page_id
      BY <1>1, <2>2, StartAhead DEF Bracketed
    <2>6. ScanSound(heap, stmt')
      BY <1>1, <1>4, <2>4, <2>5, StartAhead DEF ScanSound
    <2> QED BY <1>1, <2>1, <2>6 DEF HInv
  <1>5. CASE StartUpdate
    <2>1. PICK match \in Predicates, v \in Values : Start("update", match, v)
      BY <1>5 DEF StartUpdate
    <2> QED BY <2>1, <1>4
  <1>6. CASE StartDelete
    <2>1. PICK match \in Predicates : Start("delete", match, {}) BY <1>6 DEF StartDelete
    <2>2. {} \in Values \cup {{}} /\ "delete" # "update" OBVIOUS
    <2> QED BY <2>1, <2>2, <1>4
  <1>7. CASE EndScan
    <2>1. heap' = heap /\ stmt' = NoStmt BY <1>7 DEF EndScan
    <2> QED BY <1>1, <2>1 DEF HInv
  <1>8. CASE PassTuple
    <2>1. heap' = heap BY <1>8 DEF PassTuple
    <2>2. ScanSound(heap, stmt') BY <1>8, AdvanceSound DEF PassTuple
    <2> QED BY <1>1, <2>1, <2>2 DEF HInv
  <1>9. CASE UpdateFound
    <2>1. /\ ScanSound(heap, stmt') /\ heap.starting_rid.page # -1
          /\ Looked \in LiveRIDs(heap) /\ Looked \notin stmt'.unseen
      BY <1>9, AdvanceSound DEF UpdateFound, Matches
    <2>2. stmt.value \in Values BY <1>9 DEF HInv, ScanSound, UpdateFound
    <2>3. heap' = UpdateTuple(heap, Looked, stmt.value) BY <1>9 DEF UpdateFound
    <2>4. /\ HeapSound(heap') /\ heap.last_page_id <= heap'.last_page_id
          /\ heap'.starting_rid = heap.starting_rid
          /\ LiveRIDs(heap) \ {Looked} \subseteq LiveRIDs(heap')
      BY <1>1, <2>1, <2>2, <2>3, UpdateSound
    <2>5. stmt'.unseen \subseteq LiveRIDs(heap') BY <2>1, <2>4 DEF ScanSound
    <2>6. ScanSound(heap', stmt') BY <1>1, <2>1, <2>4, <2>5, ScanKept
    <2> QED BY <2>4, <2>6 DEF HInv
  <1>10. CASE DeleteFound
    <2>1. /\ ScanSound(heap, stmt')
          /\ Looked \in LiveRIDs(heap) /\ Looked \notin stmt'.unseen
      BY <1>10, AdvanceSound DEF DeleteFound, Matches
    <2>2. heap' = Changed(heap, Looked.page,
                          PageDelete(heap.pages[Looked.page], Looked.slot),
                          heap.num_of_tuples - 1)
      BY <1>1, <1>10, ChangedIs DEF DeleteFound
    <2>3. heap.num_of_tuples - 1 \in Int BY <1>1 DEF HeapSound, PagesSound, HeapShaped
    <2>4. /\ HeapSound(heap') /\ heap'.last_page_id = heap.last_page_id
          /\ heap'.starting_rid = heap.starting_rid
          /\ LiveRIDs(heap') = LiveRIDs(heap) \ {Looked}
      BY <1>1, <2>1, <2>2, <2>3, DeletedSound
    <2>5. stmt'.unseen \subseteq LiveRIDs(heap') BY <2>1, <2>4 DEF ScanSound
    <2>6. heap.last_page_id <= heap'.last_page_id BY <2>4, <1>2
    <2>7. ScanSound(heap', stmt') BY <1>1, <2>1, <2>4, <2>5, <2>6, ScanKept
    <2> QED BY <2>4, <2>7 DEF HInv
  <1>11. ASSUME NEW p \in DOMAIN heap.pages, Evict(p) PROVE HInv'
    <2>1. heap' = Evicted(heap, {p}) /\ stmt' = stmt BY <1>11 DEF Evict
    <2>2. {p} \in SUBSET (1 .. heap.last_page_id) BY <1>2
    <2>3. /\ HeapSound(heap') /\ heap'.last_page_id = heap.last_page_id
          /\ heap'.starting_rid = heap.starting_rid
          /\ LiveRIDs(heap) \subseteq LiveRIDs(heap')
      BY <1>1, <2>1, <2>2, EvictedSound
    <2>4. heap.last_page_id <= heap'.last_page_id BY <2>3, <1>2
    <2>5. CASE stmt = NoStmt BY <2>1, <2>3, <2>5 DEF HInv
    <2>6. CASE stmt # NoStmt
      <3>1. ScanSound(heap, stmt) BY <2>6 DEF HInv
      <3>2. stmt.unseen \subseteq LiveRIDs(heap') BY <2>3, <3>1 DEF ScanSound
      <3>3. ScanSound(heap', stmt) BY <1>1, <2>3, <2>4, <3>1, <3>2, ScanKept
      <3> QED BY <2>1, <2>3, <3>3 DEF HInv
    <2> QED BY <2>5, <2>6
  <1>12. CASE Restart
    <2>1. HeapSound(heap') BY <1>1, <1>12, RestartIs DEF Restart
    <2>2. stmt' = NoStmt BY <1>12 DEF Restart
    <2> QED BY <2>1, <2>2 DEF HInv
  <1>13. CASE UNCHANGED vars
    BY <1>13 DEF vars, HInv
  <1> QED BY <1>3, <1>5, <1>6, <1>7, <1>8, <1>9, <1>10, <1>11, <1>12, <1>13 DEF Next

\* The heap's pages, its chain and the running scan are sound, whatever the
\* sizes of pages and tuples, the predicates and the bounds.
THEOREM TableInvariantHolds == Spec => []HInv
  BY InitSound, StepSound, PTL DEF Spec

\* No tuple overlaps another, in memory or in the file: the room that
\* insertTuple computes (Page.c++) is the room there is.
THEOREM PagesStayWellFormed == Spec => []PagesWellFormed
  <1>1. HInv => PagesWellFormed
    BY DEF HInv, HeapSound, PagesSound, HeapShaped, PageSound, PagesWellFormed
  <1> QED BY <1>1, TableInvariantHolds, PTL

\* The chain of pages is complete, also after evictions and restarts.
THEOREM ChainStaysComplete == Spec => []ChainComplete
  <1>1. HInv => ChainComplete
    <2> SUFFICES ASSUME HInv PROVE ChainComplete
      OBVIOUS
    <2>1. PagesSound(heap) /\ Bracketed(heap) BY DEF HInv, HeapSound
    <2>2. DOMAIN heap.pages = 1 .. heap.last_page_id /\ heap.last_page_id \in Nat
      BY <2>1 DEF PagesSound, HeapShaped
    <2>3. Cardinality(1 .. heap.last_page_id) = heap.last_page_id
      <3>1. 1 \in Int /\ heap.last_page_id \in Int BY <2>2
      <3>2. Cardinality(1 .. heap.last_page_id) =
              IF 1 > heap.last_page_id THEN 0 ELSE heap.last_page_id - 1 + 1
        BY <3>1, FS_Interval
      <3> QED BY <2>2, <3>2
    <2>4. heap.stopping_rid.page \in {-1, heap.last_page_id} BY <2>1 DEF Bracketed
    <2> QED BY <2>1, <2>2, <2>3, <2>4 DEF PagesSound, Linked, ChainComplete
  <1> QED BY <1>1, TableInvariantHolds, PTL

\* A page that is not marked has every slot and every link in the file.
THEOREM StructureStaysOnDisk == Spec => []StructureOnDisk
  <1>1. HInv => StructureOnDisk
    <2> SUFFICES ASSUME HInv, NEW p \in DOMAIN heap.pages \ heap.dirty
                 PROVE  Structure(heap.pages[p]) = Structure(heap.disk[p])
      BY DEF StructureOnDisk
    <2>1. Agree(heap.pages[p], heap.disk[p])
      BY DEF HInv, HeapSound, PagesSound, HeapShaped
    <2> QED BY <2>1 DEF Agree, Structure
  <1> QED BY <1>1, TableInvariantHolds, PTL

\* A scan returns every tuple that was live when it began (SeqScan::getNext),
\* although its own statement moves, inserts and deletes tuples meanwhile.
THEOREM ScansReturnLive == Spec => ScanReturnsLive
  <1>1. HInv /\ [Next]_vars => [EndScan => stmt.unseen = {}]_vars
    BY EndSeesAll DEF EndScan
  <1> QED BY <1>1, TableInvariantHolds, PTL DEF Spec, ScanReturnsLive

\* An update that moves its tuple neither loses it nor leaves a second copy.
THEOREM UpdatesConserve == Spec => UpdateConserves
  <1>1. HInv /\ [Next]_vars =>
          [UpdateFound /\ Fits(BlankPage, stmt.value) =>
             Cardinality(LiveRIDs(heap')) = Cardinality(LiveRIDs(heap))]_vars
    <2> SUFFICES ASSUME HInv, UpdateFound, Fits(BlankPage, stmt.value)
                 PROVE  Cardinality(LiveRIDs(heap')) = Cardinality(LiveRIDs(heap))
      OBVIOUS
    <2>1. heap.starting_rid.page # -1 /\ Looked \in LiveRIDs(heap)
      BY AdvanceSound DEF UpdateFound, Matches
    <2>2. stmt.value \in Values /\ HeapSound(heap)
      BY DEF HInv, ScanSound, UpdateFound
    <2>3. heap' = UpdateTuple(heap, Looked, stmt.value) BY DEF UpdateFound
    <2> QED BY <2>1, <2>2, <2>3, UpdateSound
  <1> QED BY <1>1, TableInvariantHolds, PTL DEF Spec, UpdateConserves
=============================================================================
