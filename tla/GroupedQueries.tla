--------------------------- MODULE GroupedQueries ---------------------------
(***************************************************************************)
(* GroupedQueries: the operators that group the rows of a scan -           *)
(* SortAggregateExecuter over an ExternalMergeSort, which its constructor  *)
(* and its caller both open, and HashAggregateExecuter - driven as their   *)
(* callers drive them: opened, and then asked for rows until there are     *)
(* none.                                                                   *)
(*                                                                         *)
(* SeqScan names its columns table.column while getColIndex asks the heap, *)
(* which knows them as column: SortAggregateExecuter takes the name from   *)
(* the scan, so its sort has no key and comes out in an arbitrary order.   *)
(***************************************************************************)
EXTENDS ExternalSort, Aggregates

CONSTANTS
    Cells,         \* fields of the grouped column
    Numbers,       \* arguments of the aggregate functions
    MaxRows        \* bound: rows of a table

VARIABLES
    query,     \* [kind, rows, at, dir, aggregation]
    sort,      \* the ExternalMergeSort of SortAggregateExecuter
    op,        \* the other members of the operator
    out,       \* rows returned
    phase,     \* "new", "open", "done", "undefined", "threw"
    opens      \* calls of open

vars == <<query, sort, op, out, phase, opens>>

\* The place of the key of a sort that does not know its column: behind a row.
Unnamed == 3
Tables(n) == UNION {[1 .. m -> Cells] : m \in 0 .. n}
Schema == <<"t.k", "t.v">>

Aggregation(fs, p) == [keys |-> <<1>>, functions |-> fs, having |-> p]
CountOf == <<Function("COUNT", 2), Function("SUM", 2), Function("AVG", 2)>>
Extremes == <<Function("MIN", 2), Function("MAX", 2), Function("COUNT", 1)>>
NoHaving == [kind |-> "none"]

\* HAVING over a grouping column reads the tuple where the schema says; over a
\* function it reads behind the tuple, which is shorter than the schema.
Havings == {NoHaving, Leaf("GT", Col("t.k"), Const(IntField(1))),
            Leaf("GT", Col("COUNT(t.v)"), Const(IntField(1)))}

Query(kind, rows, agg) ==
    [kind |-> kind, rows |-> rows, at |-> Unnamed, dir |-> "ASC", aggregation |-> agg]

Queries ==
    {Query("sort_agg", [i \in 1 .. Len(c) |-> <<c[i], v[i]>>], Aggregation(f, h)) :
        f \in {CountOf, Extremes}, h \in Havings, c \in Tables(2), v \in [1 .. 2 -> Numbers]}
    \cup {Query("hash_agg", [i \in 1 .. Len(c) |-> <<c[i], v[i]>>], Aggregation(f, NoHaving)) :
        f \in {CountOf, Extremes}, c \in Tables(MaxRows), v \in [1 .. MaxRows -> Numbers]}

\* The other members: of SortAggregateExecuter next_tuple, of
\* HashAggregateExecuter groups and states.  <<>> is an empty tuple.
NoOp == [next_tuple |-> <<>>, groups |-> <<>>]

Init == /\ query \in Queries
        /\ sort = NewSort /\ op = NoOp
        /\ out = <<>> /\ phase = "new" /\ opens = 0

-----------------------------------------------------------------------------
(* Opening. *)

\* A sort whose constructor and whose caller have opened it.
OpenedTwice(rows, q) ==
    UNION {Opened(s, rows, q.at, q.dir) : s \in Opened(NewSort, rows, q.at, q.dir)}

OpenSortAggregate ==
    /\ query.kind = "sort_agg" /\ phase = "new"
    /\ opens' = opens + 1
    /\ IF query.rows = <<>>
       THEN phase' = "undefined" /\ UNCHANGED <<sort, op>>
       ELSE \E s \in OpenedTwice(query.rows, query) :
              LET f == FetchSorted(s) IN
              /\ sort' = f.sort
              /\ op' = [op EXCEPT !.next_tuple = f.row]
              /\ phase' = "open"
    /\ UNCHANGED <<query, out>>

OpenHashAggregate ==
    /\ query.kind = "hash_agg" /\ phase = "new"
    /\ opens' = opens + 1
    /\ IF \E i \in 1 .. Len(query.rows) : Throws(query.aggregation, query.rows[i])
       THEN phase' = "threw" /\ UNCHANGED op
       ELSE /\ \E gs \in FiledAll(query.aggregation, <<>>, query.rows) :
                 op' = [op EXCEPT !.groups = gs]
            /\ phase' = "open"
    /\ UNCHANGED <<query, sort, out>>

-----------------------------------------------------------------------------
(* HashAggregateExecuter::getNext. *)

NextHashAggregate ==
    /\ query.kind = "hash_agg" /\ phase = "open"
    /\ IF op.groups = <<>> THEN phase' = "done" /\ UNCHANGED <<op, out>>
       ELSE LET g == Head(op.groups) IN
            /\ out' = Append(out, OutputTuple(query.aggregation, g.group, g.state))
            /\ op' = [op EXCEPT !.groups = Tail(@)]
            /\ UNCHANGED phase
    /\ UNCHANGED <<query, sort, opens>>

-----------------------------------------------------------------------------
(* SortAggregateExecuter::getNext.  y holds [sort, next, state, got].      *)

InGroup(group, row) ==
    LET g == GroupingFields(query.aggregation, row)
    IN  \A i \in 1 .. Len(group) : Equal(group[i], g[i])

\* The rows of a group, which are next to each other where the sort had a key.
RECURSIVE Consumed(_, _)
Consumed(y, group) ==
    LET f == FetchSorted(y.sort)
        z == [y EXCEPT !.state = Updated(query.aggregation, @, y.next),
                       !.sort = f.sort, !.next = f.row]
    IN  CASE Throws(query.aggregation, y.next) -> [y EXCEPT !.got = "threw"]
          [] z.next = <<>> -> z
          [] OTHER -> IF InGroup(group, z.next) THEN Consumed(z, group) ELSE z

\* Groups that do not fulfil HAVING are passed over.
RECURSIVE NextGroup(_)
NextGroup(y) ==
    LET q == query.aggregation
        group == GroupingFields(q, y.next)
        z == Consumed([y EXCEPT !.state = StartState(q)], group)
        row == OutputTuple(q, group, z.state)
        having == IF q.having = NoHaving THEN "yes"
                  ELSE Evaluate(q.having, row, OutputSchema(q, Schema))
    IN  CASE y.next = <<>> -> [y EXCEPT !.got = "done"]
          [] OTHER ->
                CASE z.got = "threw" -> z
                  [] z.got # "threw" /\ having = "yes" -> [z EXCEPT !.got = "row", !.row = row]
                  [] OTHER -> IF having = "no" THEN NextGroup(z)
                              ELSE [z EXCEPT !.got = having]

NextSortAggregate ==
    /\ query.kind = "sort_agg" /\ phase = "open"
    /\ LET y == NextGroup([sort |-> sort, next |-> op.next_tuple, state |-> <<>>,
                           got |-> "none", row |-> <<>>]) IN
       /\ sort' = y.sort /\ op' = [op EXCEPT !.next_tuple = y.next]
       /\ IF y.got = "row" THEN out' = Append(out, y.row) /\ UNCHANGED phase
          ELSE phase' = y.got /\ UNCHANGED out
    /\ UNCHANGED <<query, opens>>

Next == OpenSortAggregate \/ OpenHashAggregate \/ NextSortAggregate \/ NextHashAggregate

Spec == Init /\ [][Next]_vars

-----------------------------------------------------------------------------
(* What the operators promise. *)

Total(c, rows) == FoldLeft(LAMBDA n, r : n + r[c].value, 0, rows)

\* An aggregation: the counts and sums of its groups add up to those of the
\* rows, read once in each opening of the sort below it.
Account ==
    query.aggregation.having = NoHaving /\ query.aggregation.functions = CountOf
    /\ phase = "done"
    => LET times == IF query.kind = "sort_agg" THEN 2 ELSE 1
       IN  /\ Total(2, out) = times * Len(query.rows)
           /\ Total(3, out) = times * Total(2, query.rows)
           /\ \A i \in 1 .. Len(out) : out[i][4].value = <<out[i][3].value, out[i][2].value>>
=============================================================================
