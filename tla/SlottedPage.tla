---------------------------- MODULE SlottedPage ----------------------------
(***************************************************************************)
(* Class Page: a slotted page as a record, and its operations as pure      *)
(* operators.  Tuples fill the page from its end downwards, the slot array *)
(* grows behind the header.  A tuple is a value; what the layout depends   *)
(* on is its length.                                                       *)
(*                                                                         *)
(* A page p has the fields next_page_id, free_space_pointer and slots, a   *)
(* function on 0 .. num_tuples - 1.  A slot has two deletion flags: its    *)
(* own, deleted, and the one in the first byte of its tuple, is_deleted.   *)
(***************************************************************************)
EXTENDS Integers, FiniteSets

CONSTANTS
    PAGE_SIZE,
    HeaderSize,    \* sizeof(PageHeader)
    SlotSize,      \* sizeof(Slot)
    Values,        \* tuples
    Texts,         \* the tuples whose last field is a string
    Length(_)      \* getTupleSize: the serialized length of a tuple

\* Tuples are padded to a multiple of Align (8 in the code, smaller here).
Align == 2

\* Sizes are uint16_t in the code: a tuple's padded length must not wrap.
MaxLength == 65528

ASSUME PageConstants ==
    /\ HeaderSize \in Nat /\ SlotSize \in Nat \ {0}
    /\ PAGE_SIZE \in Nat /\ PAGE_SIZE >= HeaderSize
    /\ Texts \subseteq Values
    /\ \A v \in Values : Length(v) \in 1 .. MaxLength

\* (Slip: the length is rounded down.)
PaddedDown(n) == (n \div Align) * Align

Padded(n) == ((n + Align - 1) \div Align) * Align

\* The constructor.
BlankPage == [next_page_id |-> -1, free_space_pointer |-> PAGE_SIZE,
              slots |-> [i \in {} |-> 0]]

NumTuples(p) == Cardinality(DOMAIN p.slots)

\* The room between the slot array and the tuples.
FreeSize(p) == p.free_space_pointer - (HeaderSize + NumTuples(p) * SlotSize)

\* Whether insertTuple and insertData find room for a value.
Fits(p, v) == FreeSize(p) >= Padded(Length(v)) + SlotSize

\* Field::serialize ends a string with a zero byte, one past the size it counts.
\* Behind a tuple that fills its slot lies the tuple of the slot before, and the
\* byte is its flag.  (Behind the first tuple it lies outside of the page.  A null
\* of type INT, FLOAT or BOOL is counted with size 0 and writes the bytes of its
\* type: statements make none, and none is among the values.)
Serialized(slots, s, v, flag) ==
    LET spills == v \in Texts /\ Length(v) = slots[s].size
    IN  [t \in DOMAIN slots |->
            CASE t = s -> [slots[t] EXCEPT !.value = v, !.is_deleted = flag]
              [] t = s - 1 /\ spills -> [slots[t] EXCEPT !.is_deleted = FALSE]
              [] OTHER -> slots[t]]

\* insertTuple, where the value fits: it gets the slot after the last one.
WithTuple(p, v) ==
    LET n == NumTuples(p)
        offset == p.free_space_pointer - Padded(Length(v))
        slot == [offset |-> offset, size |-> Padded(Length(v)),
                 deleted |-> FALSE, is_deleted |-> FALSE, value |-> v]
    IN  [p EXCEPT !.free_space_pointer = offset,
                  !.slots = Serialized([i \in 0 .. n |-> IF i < n THEN @[i] ELSE slot],
                                       n, v, FALSE)]

\* insertTuple returns the page and the slot, or the same page and -1.
PageInsert(p, v) ==
    IF Fits(p, v) THEN [page |-> WithTuple(p, v), slot |-> NumTuples(p)]
    ELSE [page |-> p, slot |-> -1]

\* getTuple finds a tuple in slot s.
IsLive(p, s) == s \in DOMAIN p.slots /\ ~p.slots[s].is_deleted /\ ~p.slots[s].deleted

\* deleteTuple writes the tuple back with its flag, and sets the slot's.
PageDelete(p, s) ==
    IF s \in DOMAIN p.slots /\ ~p.slots[s].deleted
    THEN [p EXCEPT !.slots = [Serialized(@, s, @[s].value, TRUE) EXCEPT ![s].deleted = TRUE]]
    ELSE p

\* updateTuple where the new value is no longer than the slot.
PageOverwrite(p, s, v) == [p EXCEPT !.slots = Serialized(@, s, v, FALSE)]

LiveSlots(p) == {s \in DOMAIN p.slots : IsLive(p, s)}

\* The layout: slots are numbered without gaps, the slot array ends below the
\* free space pointer, and the byte ranges of the tuples lie above it, inside
\* the page, pairwise disjoint, each long enough for what was last written.  A
\* tuple whose slot is not deleted does not say it is: no byte of another tuple
\* has reached its flag.
WellFormed(p) ==
    /\ DOMAIN p.slots = 0 .. NumTuples(p) - 1
    /\ FreeSize(p) >= 0
    /\ \A s \in DOMAIN p.slots :
         LET a == p.slots[s] IN
           /\ p.free_space_pointer <= a.offset
           /\ a.offset + a.size <= PAGE_SIZE
           /\ Length(a.value) <= a.size
           /\ a.is_deleted => a.deleted
           /\ \A t \in DOMAIN p.slots \ {s} :
                \/ a.offset + a.size <= p.slots[t].offset
                \/ p.slots[t].offset + p.slots[t].size <= a.offset

\* What no in-place change of a tuple touches.
Structure(p) == [next_page_id |-> p.next_page_id,
                 free_space_pointer |-> p.free_space_pointer,
                 slots |-> [s \in DOMAIN p.slots |->
                              <<p.slots[s].offset, p.slots[s].size>>]]
=============================================================================
