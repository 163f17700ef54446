---------------------------- MODULE MCTableHeap ----------------------------
(***************************************************************************)
(* Instances of TableHeap for TLC: tuples of three lengths.                *)
(***************************************************************************)
EXTENDS TableHeap

CONSTANTS short, long, oversize

\* Two short tuples fill a page, a long one leaves no room for another, the
\* third kind fits no page.  A short tuple fills its slot, so that the byte at
\* the end of its string belongs to its neighbour.
MCLength(v) == CASE v = short -> 4 [] v = long -> 5 [] OTHER -> 11
=============================================================================
