------------------------------ MODULE LRUList ------------------------------
(***************************************************************************)
(* Class LRU as it is coded: a doubly linked list of nodes between two     *)
(* sentinels, and a map from keys to nodes.  A key has at most one node    *)
(* alive, so a node is named by its key; the fields of a deleted node are  *)
(* Null.  Every pointer assignment of the code is made in its order, since *)
(* the nodes it goes through may coincide.                                 *)
(***************************************************************************)
EXTENDS Integers, Sequences, FiniteSets

CONSTANTS
    Frames,      \* the keys: frame ids
    Capacity,
    D_head, D_tail, Null

ASSUME LRUConstants ==
    /\ Capacity \in Nat \ {0}
    /\ Frames \cap {D_head, D_tail, Null} = {}
    /\ D_head # D_tail /\ D_head # Null /\ D_tail # Null

Nodes == Frames \cup {D_head, D_tail}

VARIABLES
    next, prev,     \* the pointers of the nodes
    frames_map,     \* the keys that have a node
    since           \* history: since[k], the keys used after k's last use

vars == <<next, prev, frames_map, since>>

Init ==
    /\ next = [n \in Nodes |-> IF n = D_head THEN D_tail ELSE Null]
    /\ prev = [n \in Nodes |-> IF n = D_tail THEN D_head ELSE Null]
    /\ frames_map = {}
    /\ since = [k \in Frames |-> {}]

\* (Slip: the node behind n keeps its pointer to n.)
UnlinkForward(p, n) == [p EXCEPT !.next[p.prev[n]] = p.next[n]]

\* The two assignments that take node n out of a list with pointers p.
Unlink(p, n) ==
    LET p1 == [p EXCEPT !.next[p.prev[n]] = p.next[n]]
    IN  [p1 EXCEPT !.prev[p1.next[n]] = p1.prev[n]]

\* The four assignments that put node n behind the head.
LinkFront(p, n) ==
    LET second == p.next[D_head]
    IN  [next |-> [p.next EXCEPT ![n] = second, ![D_head] = n],
         prev |-> [p.prev EXCEPT ![second] = n, ![n] = D_head]]

Free(p, n) == [next |-> [p.next EXCEPT ![n] = Null],
               prev |-> [p.prev EXCEPT ![n] = Null]]

Pointers == [next |-> next, prev |-> prev]
SetPointers(p) == next' = p.next /\ prev' = p.prev

Used(k) == since' = [j \in Frames |-> IF j = k THEN {} ELSE since[j] \cup {k}]

\* (Slip: the node stays where it is.)
StayInPlace(k) ==
    /\ k \in frames_map
    /\ Used(k)
    /\ UNCHANGED <<next, prev, frames_map>>

MoveToFront(k) ==
    /\ k \in frames_map
    /\ SetPointers(LinkFront(Unlink(Pointers, k), k))
    /\ Used(k)
    /\ UNCHANGED frames_map

GetFrame(k) == MoveToFront(k)
PutAgain(k) == MoveToFront(k)

\* put_frame's test for a full list.
Full == Cardinality(frames_map) = Capacity

PutNew(k) ==
    /\ k \notin frames_map
    /\ LET last == prev[D_tail]
           p == IF Full THEN Free(Unlink(Pointers, last), last) ELSE Pointers
       IN  /\ SetPointers(LinkFront(p, k))
           /\ frames_map' = (IF Full THEN frames_map \ {last} ELSE frames_map)
                            \cup {k}
    /\ Used(k)

EvictFrame ==
    /\ frames_map # {}
    /\ LET last == prev[D_tail] IN
         /\ SetPointers(Free(Unlink(Pointers, last), last))
         /\ frames_map' = frames_map \ {last}
    /\ UNCHANGED since

RemoveFrame(k) ==
    /\ k \in frames_map
    /\ SetPointers(Free(Unlink(Pointers, k), k))
    /\ frames_map' = frames_map \ {k}
    /\ UNCHANGED since

Next ==
    \/ EvictFrame
    \/ \E k \in Frames : GetFrame(k) \/ PutAgain(k) \/ PutNew(k) \/ RemoveFrame(k)

Spec == Init /\ [][Next]_vars

-----------------------------------------------------------------------------
\* The node reached after n hops from the head, and after n hops back from the
\* tail.
Hop[n \in Nat] == IF n = 0 THEN D_head ELSE next[Hop[n - 1]]
HopBack[n \in Nat] == IF n = 0 THEN D_tail ELSE prev[HopBack[n - 1]]

Size == Cardinality(frames_map)

\* Walking forward visits the mapped keys and ends at the tail, walking back
\* visits the same nodes in reverse: no operation leaves a node half linked,
\* whichever of its neighbours are sentinels.
WellLinked ==
    /\ {Hop[i] : i \in 1 .. Size} = frames_map
    /\ \A i \in 0 .. Size + 1 : Hop[i] = HopBack[Size + 1 - i]

\* A key that leaves the list to make room (evict_frame, or put_frame on a full
\* list) is the one all others were used after: the eviction is least recently
\* used.
EvictsLeastRecent ==
    [][EvictFrame \/ (\E k \in Frames : PutNew(k)) =>
         \A v \in frames_map \ frames_map' :
             frames_map \ {v} \subseteq since[v]]_vars

\* The list implements the recency order.
Recency == INSTANCE LRU WITH order <- [i \in 1 .. Size |-> Hop[i]]
ImplementsRecency == Recency!Spec
=============================================================================
