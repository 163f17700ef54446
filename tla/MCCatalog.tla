----------------------------- MODULE MCCatalog ------------------------------
(***************************************************************************)
(* An instance of Catalog for TLC: two tables of up to two columns.        *)
(***************************************************************************)
EXTENDS Catalog

Col(name, type, constraints, references) ==
    [name |-> name, type |-> type, constraints |-> constraints, references |-> references]
Plain(name) == Col(name, "INT", <<>>, <<>>)
Reference(table, column) == [table |-> table, columns |-> <<column>>]

MCNames == {"t", "u"}

\* Lists of columns: none, one, two, two with one name, one of a type the
\* binder does not know, a key, and references to either table.
ColumnLists ==
    {<<>>, <<Plain("a")>>, <<Plain("a"), Plain("b")>>, <<Plain("a"), Plain("a")>>,
     <<Col("a", "VARCHAR", <<>>, <<>>)>>, <<Col("a", "INT", <<"PRIMARY_KEY", "UNIQUE">>, <<>>)>>}
    \cup {<<Col("a", "TEXT", <<>>, <<Reference(n, c)>>)>> : n \in MCNames, c \in {"a", "b"}}

\* Constraints of the table, one of which may name a column there is not.
ConstraintLists ==
    {<<>>, <<Constraint("PRIMARY_KEY", <<"b">>, NoTable, <<>>)>>}
    \cup {<<Constraint("UNIQUE", <<"a">>, NoTable, <<>>),
            Constraint("FOREIGN_KEY", <<"a">>, n, <<"b">>)>> : n \in MCNames}

MCStatements ==
    {[table_name |-> n, if_not_exists |-> FALSE, columns |-> cs, constraints |-> ks] :
        n \in MCNames, cs \in ColumnLists, ks \in ConstraintLists}
    \cup {[table_name |-> n, if_not_exists |-> TRUE, columns |-> cs, constraints |-> <<>>] :
            n \in MCNames, cs \in {<<Plain("a")>>, <<Plain("a"), Plain("a")>>}}
=============================================================================
