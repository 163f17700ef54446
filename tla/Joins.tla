------------------------------- MODULE Joins --------------------------------
(***************************************************************************)
(* Joins: the getNext of the nested loop join, of the nested loop join     *)
(* over an index, of the hash join and of the merge join, with the state   *)
(* each keeps from one call to the next.  The children are scans, and a    *)
(* join is opened more than once: its constructor, the statement, and a    *)
(* nested loop join above it open it, the last one again for each of its   *)
(* outer rows.  The merge join keeps positions in static variables, and is *)
(* followed through its first opening.                                     *)
(***************************************************************************)
EXTENDS Fields

CONSTANTS
    KeyFields,     \* fields of the join columns
    MaxOuter,      \* bound: rows of the outer table
    MaxInner,      \* bound: rows of the inner table
    MaxPair,       \* bound: rows of each table of a merge join
    MaxOpens       \* bound: calls of open

JoinConstants ==
    MaxOuter \in Nat /\ MaxInner \in Nat /\ MaxPair \in Nat /\ MaxOpens \in Nat

VARIABLES
    query,   \* what is joined: [kind, type, op, outer, inner, indexed]
    x,       \* the members of the join and the positions of its scans
    merge,   \* those of a merge join, and its sorts
    out,     \* the rows returned since open
    phase,   \* "new", "open", "done" (false was returned), "aborted",
             \* "undefined" (a field of an empty row was read)
    opens, reopened    \* reopened: open was called after false was returned

vars == <<query, x, merge, out, phase, opens, reopened>>

\* Row i of a table holds its join column and a column that tells it apart.
Outer(k) == [i \in 1 .. Len(k) |-> <<k[i], IntField(i)>>]
Inner(k) == [i \in 1 .. Len(k) |-> <<k[i], IntField(10 + i)>>]
Schema == <<"o.k", "o.id", "i.k", "i.id">>

Queries ==
    LET outers == UNION {[1 .. n -> KeyFields] : n \in 0 .. MaxOuter}
        inners == UNION {[1 .. n -> KeyFields] : n \in 0 .. MaxInner}
        Query(k, ty, op, o, i, ix) == [kind |-> k, type |-> ty, op |-> op,
                                       outer |-> Outer(o), inner |-> Inner(i), indexed |-> ix]
    IN  {Query("nested", ty, op, o, i, {}) :
            ty \in {"INNER", "LEFT", "RIGHT", "FULL"}, op \in {"EQ", "GT"}, o \in outers, i \in inners}
        \cup {Query("hash", "INNER", "EQ", o, i, {}) : o \in outers, i \in inners}
        \cup UNION {{Query("indexed", "INNER", "EQ", o, i, ix) : ix \in SUBSET (1 .. Len(i))} :
                        o \in outers, i \in inners}

MergeQueries ==
    LET tables == UNION {[1 .. n -> KeyFields] : n \in 0 .. MaxPair}
    IN  {[kind |-> "merge", type |-> "INNER", op |-> "EQ",
          outer |-> Outer(o), inner |-> Inner(i), indexed |-> {}] : o, i \in tables}

(* x has the fields                                                        *)
(*   o, i              position of the outer and of the inner scan         *)
(*   has_inner, inner_matches_counter            NestedLoopJoin            *)
(*   inner_matches                               IndexedNestedLoopJoin     *)
(*   is_hash_built, hashed, curr_inner, tuple_index      HashJoin          *)
Members == [o |-> 0, i |-> 0, has_inner |-> FALSE, inner_matches_counter |-> -1,
            inner_matches |-> <<>>, is_hash_built |-> FALSE, hashed |-> <<>>,
            curr_inner |-> <<>>, tuple_index |-> 0]

(* merge has the fields                                                    *)
(*   outer, inner      the rows of outer_table_sorted, inner_table_sorted  *)
(*   o, i              positions of curr_outer_tuple and of t2 in them; t2 *)
(*                     is an empty tuple behind the last row               *)
(*   res_batch                                                             *)
(*   left_pointer, right_pointer       static variables of getNext         *)
MergeMembers == [outer |-> <<>>, inner |-> <<>>, o |-> 0, i |-> 0, res_batch |-> <<>>,
                 left_pointer |-> 0, right_pointer |-> 0]

Init == /\ query \in Queries \cup MergeQueries
        /\ x = Members /\ merge = MergeMembers
        /\ out = <<>> /\ phase = "new" /\ opens = 0 /\ reopened = FALSE

Condition == Leaf(query.op, Col("o.k"), Col("i.k"))
Holds(o, i) == LeafValue(Condition, query.outer[o] \o query.inner[i], Schema)

KeepsOuter == query.type \in {"LEFT", "FULL"}
KeepsInner == query.type \in {"RIGHT", "FULL"}

Padding == <<NullText, NullText>>
Joined(o, i) == query.outer[o] \o query.inner[i]
WithoutInner(o) == query.outer[o] \o Padding
WithoutOuter(i) == Padding \o query.inner[i]

\* What a call of getNext leaves: the members, what it returned, and the row.
Returns(y, row) == [x |-> y, got |-> "row", row |-> row]
Ends(y) == [x |-> y, got |-> "false", row |-> <<>>]
AbortedAt(y) == [x |-> y, got |-> "aborted", row |-> <<>>]
Undefined(y) == [x |-> y, got |-> "undefined", row |-> <<>>]

-----------------------------------------------------------------------------
(* NestedLoopJoin::getNext.  Its loops run on until there is something to  *)
(* return: they are modelled by the rows at which they stop.               *)

\* The inner rows from i on at which the inner loop stops for outer row o.
Stops(o, i) == {j \in i .. Len(query.inner) : Holds(o, j) # "no" \/ KeepsInner}

\* It has read inner row y.i.
Stopped(y) ==
    LET h == Holds(y.o, y.i) IN
    CASE h = "aborts" -> AbortedAt(y)
      [] h = "yes" -> Returns([y EXCEPT !.inner_matches_counter = @ + 1], Joined(y.o, y.i))
      [] OTHER -> Returns(y, WithoutOuter(y.i))

\* (Slip: the counter is left at 0 when the padded row is returned.)
ExhaustedUnmarked(y) ==
    IF y.inner_matches_counter = 0 /\ KeepsOuter THEN Returns(y, WithoutInner(y.o)) ELSE Ends(y)

\* The inner rows of outer row y.o are exhausted: it may have to be padded.
Due(y) == y.inner_matches_counter = 0 /\ KeepsOuter
Exhausted(y) ==
    IF Due(y) THEN Returns([y EXCEPT !.inner_matches_counter = -1], WithoutInner(y.o))
    ELSE Ends(y)

\* What comes of outer row y.o, from the inner row behind y.i on.
Probe(y) ==
    LET stops == Stops(y.o, y.i + 1) IN
    CASE ~y.has_inner -> Exhausted(y)
      [] y.has_inner /\ stops = {} ->
            Exhausted([y EXCEPT !.has_inner = FALSE, !.i = Len(query.inner)])
      [] OTHER -> Stopped([y EXCEPT !.i = Min(stops)])

\* (Slip: the counter keeps the matches of the outer row before.)
BegunUnreset(y, o) ==
    [y EXCEPT !.o = o, !.i = 0, !.has_inner = TRUE,
              !.inner_matches_counter = IF @ > 0 THEN @ ELSE 0]

\* Outer row o is read, and the inner scan opened for it.
Begun(y, o) ==
    [y EXCEPT !.o = o, !.i = 0, !.has_inner = TRUE, !.inner_matches_counter = 0]

\* Outer rows of which nothing comes are passed over; behind the last one the
\* join ends.
NextNested(y) ==
    LET more == y.has_inner /\ Stops(y.o, y.i + 1) # {}
        last == Len(query.outer)
        next == {o \in y.o + 1 .. last : KeepsOuter \/ Stops(o, 1) # {} \/ o = last}
    IN  IF more \/ Due(y) \/ next = {} THEN Probe(y) ELSE Probe(Begun(y, Min(next)))

-----------------------------------------------------------------------------
(* IndexedNestedLoopJoin::getNext *)

\* Search of the index on the inner column: the RIDs of the entries of a key, in
\* some order.  The index holds what a caller put into it, whether or not it
\* still exists.
Search(f) == SetToSeq({i \in query.indexed : Equal(query.inner[i][1], f)})

\* The last of the matches is taken.
Taken(y) ==
    Returns([y EXCEPT !.inner_matches = Front(@)], Joined(y.o, Last(y.inner_matches)))

\* Outer rows without matches are passed over.
NextIndexed(y) ==
    LET next == {o \in y.o + 1 .. Len(query.outer) : Search(query.outer[o][1]) # <<>>}
    IN  CASE y.inner_matches # <<>> -> Taken(y)
          [] y.inner_matches = <<>> /\ next = {} -> Ends([y EXCEPT !.o = Len(query.outer)])
          [] OTHER -> Taken([y EXCEPT !.o = Min(next),
                                      !.inner_matches = Search(query.outer[Min(next)][1])])

-----------------------------------------------------------------------------
(* HashJoin::getNext *)

\* The first call reads the whole outer table and the first inner row.
Built(y) ==
    [y EXCEPT !.is_hash_built = TRUE, !.o = Len(query.outer),
              !.hashed = @ \o SubSeq(query.outer, y.o + 1, Len(query.outer))]

\* The rows of the hash table with a key, by their places, in some order.
Bucket(y, f) == SetToSeq({p \in 1 .. Len(y.hashed) : Equal(y.hashed[p][1], f)})

\* Row n of the bucket of the current inner row.
Matched(y, n) ==
    Returns([y EXCEPT !.tuple_index = n],
            y.hashed[Bucket(y, y.curr_inner[1])[n]] \o y.curr_inner)

\* Inner row i is read.
Turned(y, i) == [y EXCEPT !.tuple_index = 0, !.i = i, !.curr_inner = query.inner[i]]

\* Inner rows without a bucket are passed over; the last one read stays.
NextMatch(y) ==
    LET last == Len(query.inner)
        next == {i \in y.i + 1 .. last : Bucket(y, query.inner[i][1]) # <<>>}
    IN  CASE y.tuple_index < Len(Bucket(y, y.curr_inner[1])) -> Matched(y, y.tuple_index + 1)
          [] y.tuple_index >= Len(Bucket(y, y.curr_inner[1])) /\ next = {} -> Ends(Turned(y, last))
          [] OTHER -> Matched(Turned(y, Min(next)), 1)

\* Where the inner table is empty, a call after the first one reads the join
\* column of a row without fields.
NextHash(y) ==
    CASE y.is_hash_built -> IF y.curr_inner = <<>> THEN Undefined(y) ELSE NextMatch(y)
      [] ~y.is_hash_built /\ query.inner = <<>> -> Ends(Built(y))
      [] OTHER -> NextMatch(Turned(Built(y), 1))

-----------------------------------------------------------------------------
(* MergeJoin::getNext.  It pairs an outer row with a run of inner rows of  *)
(* the same key and looks only ahead; its loops are modelled by the rows   *)
(* at which they stop.                                                     *)

\* SeqScan names its columns table.column and the heap does not know them, so
\* that the sorts have no key and come out in any order.  Their constructor and
\* open open them both: every row is there twice.
Twice(rows) ==
    LET n == Len(rows)
    IN  {[k \in 1 .. 2 * n |-> rows[f[k]]] :
            f \in {g \in [1 .. 2 * n -> 1 .. n] :
                    \A r \in 1 .. n : Cardinality({k \in 1 .. 2 * n : g[k] = r}) = 2}}

Meet(y, o, i) == Equal(y.outer[o][1], y.inner[i][1])

Popped(y) == Returns([y EXCEPT !.res_batch = Front(@)], Last(y.res_batch))

\* The inner rows up to which the run of outer row y.o goes, and the outer rows
\* that are joined with the same run.
LastInner(y) ==
    LET stops == {i \in y.i .. Len(y.inner) :
                    ~Meet(y, y.o, i) \/ y.right_pointer + i - y.i >= Len(query.inner)}
    IN  IF stops = {} THEN Len(y.inner) ELSE Min(stops) - 1
\* (Slip: the next outer rows are not compared with the run.)
LastOuterAny(y) ==
    LET stops == {o \in y.o + 1 .. Len(y.outer) :
                    y.left_pointer + o - y.o >= Len(query.outer)}
    IN  IF stops = {} THEN Len(y.outer) ELSE Min(stops) - 1
LastOuter(y) ==
    LET stops == {o \in y.o + 1 .. Len(y.outer) :
                    ~Meet(y, o, y.i) \/ y.left_pointer + o - y.o >= Len(query.outer)}
    IN  IF stops = {} THEN Len(y.outer) ELSE Min(stops) - 1

Batch(y, o, i) ==
    LET n == i - y.i + 1
    IN  [b \in 1 .. (o - y.o + 1) * n |->
            y.outer[y.o + (b - 1) \div n] \o y.inner[y.i + ((b - 1) % n)]]

\* The current rows meet.  A run that is the last inner row is lost, and so is
\* that of the last outer row: the loop is left before anything is returned.
Paired(y) ==
    LET o == LastOuter(y)
        i == LastInner(y)
        z == [y EXCEPT !.o = IF o = Len(y.outer) THEN o ELSE o + 1,
                       !.i = i + 1,
                       !.res_batch = Batch(y, o, i),
                       !.left_pointer = @ + o - y.o + 1,
                       !.right_pointer = @ + i - y.i + (IF i = Len(y.inner) THEN 0 ELSE 1)]
    IN  CASE y.i = Len(y.inner) -> Ends(y)
          [] y.i < Len(y.inner) /\ y.o = Len(y.outer) ->
                Ends([z EXCEPT !.right_pointer = y.right_pointer + 1])
          [] OTHER -> Popped(z)

\* The outer rows before row o have been passed over: none met the inner row.
\* Each moves left_pointer, and the smaller of the two keys moves its own.
PassedOver(y, o) ==
    LET less == {k \in y.o .. o - 1 : Less(y.outer[k][1], y.inner[y.i][1])}
        greater == {k \in y.o .. o - 1 : Greater(y.outer[k][1], y.inner[y.i][1])}
    IN  [y EXCEPT !.o = Min({o, Len(y.outer)}),
                  !.left_pointer = @ + (o - y.o) + Cardinality(less),
                  !.right_pointer = @ + Cardinality(greater)]

\* One pointer has counted as many rows as its table has, or t2 is empty.
Over(y) == \/ y.left_pointer >= Len(query.outer)
           \/ y.right_pointer >= Len(query.inner)
           \/ y.i > Len(y.inner)

NextMerge(y) ==
    LET stops == {o \in y.o .. Len(y.outer) : Over(PassedOver(y, o)) \/ Meet(y, o, y.i)}
        z == PassedOver(y, IF stops = {} THEN Len(y.outer) + 1 ELSE Min(stops))
    IN  CASE y.res_batch # <<>> -> Popped(y)
          [] y.res_batch = <<>> /\ Over(y) -> Ends(y)
          [] OTHER -> IF stops = {} \/ Over(z) THEN Ends(z) ELSE Paired(z)

-----------------------------------------------------------------------------
(* The operators as their callers use them. *)

Open ==
    /\ query.kind # "merge" /\ phase \in {"new", "open", "done"}
    /\ phase = "open" => out = <<>> /\ x.o = 0
    /\ opens < MaxOpens /\ opens' = opens + 1
    /\ reopened' = (reopened \/ phase = "done")
    /\ x' = [x EXCEPT !.o = 0, !.i = IF query.kind = "indexed" THEN @ ELSE 0]
    /\ out' = <<>> /\ phase' = "open"
    /\ UNCHANGED <<query, merge>>

\* A sort of no rows takes the front of an empty queue.
OpenMergeJoin ==
    /\ query.kind = "merge" /\ phase = "new"
    /\ IF query.outer = <<>> \/ query.inner = <<>>
       THEN phase' = "undefined" /\ UNCHANGED merge
       ELSE /\ \E s \in Twice(query.outer), t \in Twice(query.inner) :
                 merge' = [merge EXCEPT !.outer = s, !.inner = t, !.o = 1, !.i = 1]
            /\ phase' = "open"
    /\ opens' = opens + 1
    /\ UNCHANGED <<query, x, out, reopened>>

Getting(r) ==
    /\ phase = "open"
    /\ out' = IF r.got = "row" THEN Append(out, r.row) ELSE out
    /\ phase' = CASE r.got = "row" -> "open" [] r.got = "false" -> "done" [] OTHER -> r.got
    /\ UNCHANGED <<query, opens, reopened>>

Moving(r) == Getting(r) /\ x' = r.x /\ UNCHANGED merge

NestedLoopJoin == query.kind = "nested" /\ Moving(NextNested(x))
IndexedNestedLoopJoin == query.kind = "indexed" /\ Moving(NextIndexed(x))
HashJoin == query.kind = "hash" /\ Moving(NextHash(x))

\* Rows left in res_batch when false is returned are not asked for any more.
MergeJoin ==
    /\ query.kind = "merge"
    /\ LET r == NextMerge(merge) IN Getting(r) /\ merge' = r.x
    /\ UNCHANGED x

Next == \/ Open \/ NestedLoopJoin \/ IndexedNestedLoopJoin \/ HashJoin
        \/ OpenMergeJoin \/ MergeJoin

Spec == Init /\ [][Next]_vars

-----------------------------------------------------------------------------
(* What a join promises. *)

Matches(o) ==
    LET among == IF query.kind = "indexed" THEN query.indexed ELSE 1 .. Len(query.inner)
    IN  {i \in among : Comparable(query.outer[o][1], query.inner[i][1])
                       /\ Compare(query.op, query.outer[o][1].value, query.inner[i][1].value)}

\* The rows of the join in SQL that outer row o gives, for an inner and for a
\* left join.  No two rows of the join are equal, since rows of tables are not.
RowsOf(o) ==
    IF Matches(o) # {} THEN {Joined(o, i) : i \in Matches(o)}
    ELSE IF KeepsOuter THEN {WithoutInner(o)} ELSE {}
Relational == UNION {RowsOf(o) : o \in 1 .. Len(query.outer)}

\* open leaves the hash table and the current inner row of a hash join as they
\* are: opened after it has ended, it returns the matches of that row again.
Reused == query.kind = "hash" /\ reopened

\* A join returns only rows of the relational join, and each only once, whichever
\* of its children's scans restarts in between (Nested_loop_join.c++:60,
\* IndexedNested_loop_join.c++:57, hash_join.c++:57).  RIGHT and FULL are left
\* out: there an inner row is padded for each outer row it does not match.
JoinSound ==
    query.kind # "merge" /\ ~KeepsInner /\ ~Reused =>
        ToSet(out) \subseteq Relational /\ IsInjective(out)

\* And when getNext has returned false it has returned all of them: no row is
\* lost where a scan ends, where an outer row has no match, or on opening again.
JoinComplete == query.kind # "merge" /\ phase = "done" => Relational \subseteq ToSet(out)

\* Every row of a merge join is made of an outer and an inner row with the same
\* key, in whatever order its unsorted sorts come out: those of a run were
\* compared with another outer row (MergeJoinExecuter.c++:179).  It need not be
\* complete, nor free of repetitions.
MergeSound ==
    query.kind = "merge" =>
        \A n \in 1 .. Len(out) :
            \E o \in ToSet(query.outer), i \in ToSet(query.inner) :
                out[n] = o \o i /\ Equal(o[1], i[1])
=============================================================================
