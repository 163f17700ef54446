----------------------------- MODULE Aggregates -----------------------------
(***************************************************************************)
(* Aggregates: the functions of a group, as SortAggregateExecuter and      *)
(* HashAggregateExecuter compute them.  Both keep [counter, value] for     *)
(* each function, starting at zero for all of them.                        *)
(*                                                                         *)
(* An aggregation is a record [keys, functions, having]: the places of the *)
(* grouping columns, functions [type, key], and a predicate or "none".     *)
(***************************************************************************)
EXTENDS Rows

AggValues == [counter |-> 0, value |-> 0]

Function(type, key) == [type |-> type, key |-> key]

Number(f) == f.type \in {"INT", "BOOL", "FLOAT"}

\* update_aggregate throws where an argument is no number.
Throws(q, row) == \E i \in 1 .. Len(q.functions) : ~Number(row[q.functions[i].key])

\* (Slip: the counter is not advanced for the functions that keep no sum.)
UpdatedSumsOnly(q, state, row) ==
    [i \in 1 .. Len(q.functions) |->
        LET v == row[q.functions[i].key].value
            old == state[i]
        IN  CASE q.functions[i].type \in {"SUM", "AVG"} ->
                    [counter |-> old.counter + 1, value |-> old.value + v]
              [] OTHER -> old]

Updated(q, state, row) ==
    [i \in 1 .. Len(q.functions) |->
        LET v == row[q.functions[i].key].value
            old == state[i]
        IN  [counter |-> old.counter + 1,
             value |-> CASE q.functions[i].type \in {"SUM", "AVG"} -> old.value + v
                         [] q.functions[i].type = "MAX" -> Max({v, old.value})
                         [] q.functions[i].type = "MIN" -> Min({v, old.value})
                         [] q.functions[i].type = "COUNT" -> old.value]]

StartState(q) == [i \in 1 .. Len(q.functions) |-> AggValues]

GroupingFields(q, row) == [i \in 1 .. Len(q.keys) |-> row[q.keys[i]]]

\* get_output_tuple.  An average keeps its numerator and its denominator.
OutputField(type, s) ==
    CASE type = "COUNT" -> IntField(s.counter)
      [] type = "AVG" -> Field("AVG", <<s.value, s.counter>>)
      [] OTHER -> IntField(s.value)

OutputTuple(q, group, state) ==
    group \o [i \in 1 .. Len(q.functions) |-> OutputField(q.functions[i].type, state[i])]

\* set_output_schema puts the names of the functions behind all columns of the
\* child, while a tuple holds the grouping fields and the functions only.
FunctionName(f, schema) == f.type \o "(" \o schema[f.key] \o ")"
OutputSchema(q, schema) ==
    schema \o [i \in 1 .. Len(q.functions) |-> FunctionName(q.functions[i], schema)]

-----------------------------------------------------------------------------
(* HashAggregateExecuter::open files every row under its group. *)

\* std::map compares the fields of two groups one after the other with <, and
\* takes two groups of which neither is below the other for the same: a field
\* without a value is equal to every other.
RECURSIVE GroupLess(_, _)
GroupLess(g, h) ==
    IF g = <<>> THEN FALSE
    ELSE \/ Less(Head(g), Head(h))
         \/ ~Less(Head(h), Head(g)) /\ GroupLess(Tail(g), Tail(h))
SameGroup(g, h) == ~GroupLess(g, h) /\ ~GroupLess(h, g)

\* groups_map as the sequence of its groups [group, state], in some order.
\* Of several groups that compare equal the search may end at any.
Filed(q, groups, row) ==
    LET g == GroupingFields(q, row)
        same == {i \in 1 .. Len(groups) : SameGroup(groups[i].group, g)}
    IN  IF same = {}
        THEN {Append(groups, [group |-> g, state |-> Updated(q, StartState(q), row)])}
        ELSE {[groups EXCEPT ![i].state = Updated(q, @, row)] : i \in same}

RECURSIVE FiledAll(_, _, _)
FiledAll(q, groups, rows) ==
    IF rows = <<>> THEN {groups}
    ELSE UNION {FiledAll(q, gs, Tail(rows)) : gs \in Filed(q, groups, Head(rows))}
=============================================================================
