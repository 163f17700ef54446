----------------------------- MODULE TreeStarts -----------------------------
(***************************************************************************)
(* The entries that the trees of the runs begin with.                      *)
(***************************************************************************)
EXTENDS Sequences, Naturals

CONSTANTS r1, r2

With(keys, rid) == [i \in 1 .. Len(keys) |-> [key |-> keys[i], value |-> rid]]

\* The empty tree; a root about to be split; a tree of height 2, which the next
\* insertion makes one of height 3; one with a key on both sides of separators.
MCStarts == {<<>>, With(<<3, 2, 1>>, r1), With(<<1, 2, 3, 4, 5, 5>>, r1),
             With(<<2, 3, 3, 3, 4, 3>>, r1)}
=============================================================================
