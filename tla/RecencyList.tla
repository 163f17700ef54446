---------------------------- MODULE RecencyList ----------------------------
(***************************************************************************)
(* What the four operations of class LRU do to the order of its keys: a    *)
(* sequence without repetitions whose first element was used last.         *)
(***************************************************************************)
EXTENDS Integers, Sequences

\* The keys the list holds.
Keys(l) == {l[i] : i \in 1 .. Len(l)}

NoRepeats(l) == \A i, j \in 1 .. Len(l) : l[i] = l[j] => i = j

\* l without the key k, which it holds once.
Without(l, k) ==
    LET p == CHOOSE i \in 1 .. Len(l) : l[i] = k
    IN  [i \in 1 .. Len(l) - 1 |-> IF i < p THEN l[i] ELSE l[i + 1]]

PushFront(l, k) == [i \in 1 .. Len(l) + 1 |-> IF i = 1 THEN k ELSE l[i - 1]]

DropLast(l) == [i \in 1 .. Len(l) - 1 |-> l[i]]

\* get_frame: a key of the list moves to the front.  (Slip: it does not.)
GetFrameUnmoved(l, k) == l
GetFrame(l, k) == IF k \in Keys(l) THEN PushFront(Without(l, k), k) ELSE l

\* put_frame: so does a key that is put again.  A full list drops its last key
\* before it takes a new one.
PutFrame(l, k, capacity) ==
    IF k \in Keys(l)
    THEN PushFront(Without(l, k), k)
    ELSE PushFront(IF Len(l) = capacity THEN DropLast(l) ELSE l, k)

\* evict_frame takes the last key of a list that is not empty.
Victim(l) == l[Len(l)]

\* remove_frame takes out a key of the list.
RemoveFrame(l, k) == Without(l, k)
=============================================================================
