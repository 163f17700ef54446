-------------------------------- MODULE Rows --------------------------------
(***************************************************************************)
(* Rows: the predicates over the columns of a row, and the two operators   *)
(* of a query without a state of their own, Select and Projection.         *)
(***************************************************************************)
EXTENDS Fields

And(p, q) == [kind |-> "AND", left |-> p, right |-> q]
Or(p, q) == [kind |-> "OR", left |-> p, right |-> q]
Not(p) == [kind |-> "NOT", left |-> p]

\* Class ComplexPredicate: the right side is evaluated where the left one
\* does not decide.
RECURSIVE Evaluate(_, _, _)
Evaluate(p, row, schema) ==
    IF p.kind = "LEAF" THEN LeafValue(p, row, schema)
    ELSE LET l == Evaluate(p.left, row, schema) IN
         CASE l \in {"aborts", "undefined"} -> l
           [] p.kind = "NOT" -> IF l = "yes" THEN "no" ELSE "yes"
           [] p.kind = "AND" -> IF l = "no" THEN "no" ELSE Evaluate(p.right, row, schema)
           [] p.kind = "OR" -> IF l = "yes" THEN "yes" ELSE Evaluate(p.right, row, schema)

-----------------------------------------------------------------------------
(* A query is a composition of operators.  The rows one of them returns    *)
(* until its getNext returns false form a table: its schema and its rows.  *)

Table(schema, rows) == [schema |-> schema, rows |-> rows]

\* The evaluation of a predicate ends the process, or reads past a row.
Fails(p, t) == \E i \in 1 .. Len(t.rows) : Evaluate(p, t.rows[i], t.schema) \notin {"yes", "no"}

\* Select::getNext until false.
Select(t, p) ==
    [t EXCEPT !.rows = SelectSeq(@, LAMBDA r : Evaluate(p, r, t.schema) = "yes")]

FirstPlace(name, schema) == CHOOSE i \in Places(name, schema) :
                              \A j \in Places(name, schema) : i <= j

\* Projection::open and getNext: a name no column has is left out, and of
\* several columns of that name the first is taken.
Project(t, names) ==
    LET kept == SelectSeq(names, LAMBDA n : Places(n, t.schema) # {})
        at == [i \in 1 .. Len(kept) |-> FirstPlace(kept[i], t.schema)]
    IN  Table(kept, [j \in 1 .. Len(t.rows) |->
                       [i \in 1 .. Len(kept) |-> t.rows[j][at[i]]]])

-----------------------------------------------------------------------------
(* Helpers of the specifications of the operators. *)

Within(s, t) == \A i \in 1 .. Len(s) : Count(s[i], s) <= Count(s[i], t)
SameRows(s, t) == Within(s, t) /\ Within(t, s)
=============================================================================
