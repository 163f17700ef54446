-------------------------------- MODULE LRU --------------------------------
(***************************************************************************)
(* The replacement policy as its callers see it: the recency order.        *)
(* evict_frame and remove_frame dereference a null pointer when the list   *)
(* is empty or the key is missing; that they are never called so is a      *)
(* duty of the caller, here a guard, and an invariant of BufferPool.       *)
(***************************************************************************)
EXTENDS RecencyList

CONSTANTS Frames, Capacity

VARIABLE order

Init == order = <<>>

Get(k) == order' = GetFrame(order, k)
PutNew(k) == order' = PutFrame(order, k, Capacity)
Evict == order # <<>> /\ order' = DropLast(order)
Remove(k) == k \in Keys(order) /\ order' = RemoveFrame(order, k)

Next == Evict \/ \E k \in Frames : Get(k) \/ PutNew(k) \/ Remove(k)

Spec == Init /\ [][Next]_order
=============================================================================
