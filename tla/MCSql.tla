------------------------------- MODULE MCSql --------------------------------
(***************************************************************************)
(* A session over two tables for TLC.                                      *)
(***************************************************************************)
EXTENDS Sql

MCColumns == [User |-> <<"id", "age">>, Orders |-> <<"id", "paid">>]
MCBoolColumns == {"paid"}

SelectFrom(from, alias, list, where) ==
    [kind |-> "select", from |-> from, alias |-> alias, join |-> None, list |-> list,
     where |-> where, group |-> None, having |-> None, order |-> None]
With(table, alias, type, on) == [kind |-> "join", table |-> table, alias |-> alias, type |-> type, on |-> on]
Insert(t, cs, vs) == [kind |-> "insert", table |-> t, columns |-> cs, values |-> vs, where |-> None]
Update(t, us, w) == [kind |-> "update", table |-> t, updates |-> us, where |-> w]
Delete(t, w) == [kind |-> "delete", table |-> t, where |-> w]
Set(c, v) == [column |-> c, value |-> v]

One == Value(IntField(1))
Two == Value(IntField(2))
Text == Value(StrField(1))
Id(t) == Column(t, "id")
Age(t) == Column(t, "age")
Both(t) == <<Id(t), Age(t)>>
Adult(t) == Op("GT", Age(t), One)

Selects == {
    SelectFrom("User", "", Both("User"), None),
    SelectFrom("User", "", <<Age("User"), Fun("COUNT", Id("User"))>>, Adult("User")),
    SelectFrom("User", "u", Both("u"), Op("OR", Op("EQ", Id("User"), One), Adult("u"))),
    SelectFrom("User", "", Both("User"), Op("AND", Op("LE", Id("User"), One), Op("NE", Age("User"), Two))),
    SelectFrom("User", "", Both("User"), Op("EQ", Id("User"), Age("User"))),
    SelectFrom("User", "", <<Column("NULL", "id")>>, None),
    SelectFrom("User", "", <<Star>>, None),
    SelectFrom("User", "u", <<Id("u"), One>>, None),
    SelectFrom("User", "", Both("User"), Op("ADD", Age("User"), One)),
    SelectFrom("User", "", <<Id("User"), Fun("FLOOR", Id("User"))>>, None),
    SelectFrom("User", "", Both("User"), Op("LT", Age("User"), Fun("FLOOR", Id("User")))),
    SelectFrom("Nowhere", "", Both("User"), None)}

Joins == {
    [SelectFrom("User", "u", <<Id("u"), Id("Orders")>>, None) EXCEPT
        !.join = With("Orders", "", "INNER", Op("EQ", Id("u"), Id("Orders")))],
    [SelectFrom("User", "", <<Id("User"), Id("o")>>, Op("EQ", Id("o"), One)) EXCEPT
        !.join = With("Orders", "o", "LEFT", Op("EQ", One, One))],
    [SelectFrom("User", "u", <<Id("u")>>, None) EXCEPT
        !.join = With("Orders", "", "INNER", Column("Orders", "paid"))],
    [SelectFrom("User", "", <<Id("User")>>, None) EXCEPT
        !.join = With("Orders", "", "INNER", Op("EQ", One, Text))],
    [SelectFrom("User", "", <<Id("User")>>, None) EXCEPT
        !.join = With("Orders", "", "FULL", Op("EQ", One, One))],
    [SelectFrom("User", "a", <<Id("a"), Id("b")>>, None) EXCEPT
        !.join = With("User", "b", "INNER", Op("NE", One, Two)), !.order = Id("a")]}

Ordered == {
    [SelectFrom("User", "", Both("User"), None) EXCEPT !.order = Age("User")],
    [SelectFrom("User", "", <<Age("User")>>, None) EXCEPT !.group = Age("User")],
    [SelectFrom("User", "", <<Age("User")>>, None) EXCEPT
        !.group = Age("User"), !.having = Op("GT", Fun("COUNT", Id("User")), One)]}

Changes == {
    Insert("User", <<"id", "age">>, <<One, Two>>),
    Insert("User", <<"id", "age">>, <<Two, One>>),
    Insert("User", <<"age", "id">>, <<One, Two>>),
    Insert("User", <<"age">>, <<Two>>),
    Insert("User", <<"id", "age">>, <<Text, One>>),
    Insert("User", <<"id", "age">>, <<One>>),
    Insert("User", <<"id", "age">>, <<One, Op("ADD", One, Two)>>),
    Insert("User", <<>>, <<One, Two>>),
    Insert("Nowhere", <<"id">>, <<One>>),
    Insert("Orders", <<"id", "paid">>, <<One, One>>),
    Update("User", <<Set("age", One)>>, Op("EQ", Id("User"), Two)),
    Update("User", <<Set("id", Two), Set("id", One)>>, Adult("User")),
    Update("User", <<Set("age", Id("User"))>>, Op("EQ", Id("User"), One)),
    Update("User", <<Set("age", Two)>>, None),
    Update("Orders", <<Set("paid", Two), Set("none", One)>>, Op("EQ", Id("Orders"), One)),
    Delete("User", Op("OR", Op("EQ", Age("User"), One), Op("GE", Id("User"), Two))),
    Delete("User", One),
    Delete("Orders", None),
    Delete("Nowhere", None)}

MCStatements == Selects \cup Joins \cup Ordered \cup Changes
=============================================================================
