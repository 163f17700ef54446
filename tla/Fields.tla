------------------------------- MODULE Fields -------------------------------
(***************************************************************************)
(* Fields and how they are compared, and the comparison of two of them     *)
(* that is a leaf of a predicate.                                          *)
(*                                                                         *)
(* A field has a type and a value.  The value is the rank of the content   *)
(* among the contents of its type, so one order serves numbers, booleans   *)
(* and strings.  A row is a sequence of fields and a schema the sequence   *)
(* of the names of its columns.                                            *)
(***************************************************************************)
EXTENDS Integers, Sequences, FiniteSets, SequencesExt

Field(t, v) == [type |-> t, value |-> v]
IntField(v) == Field("INT", v)
StrField(v) == Field("STRING", v)
NullField == Field("NULL", 0)

\* The field a join puts in the place of a missing one: the text "NULL".
NullText == StrField(0)

\* Fields of different types, and of type NULL, are in no relation.
Comparable(f, g) == f.type = g.type /\ f.type # "NULL"

Equal(f, g) == Comparable(f, g) /\ f.value = g.value
Less(f, g) == Comparable(f, g) /\ f.value < g.value
Greater(f, g) == Comparable(f, g) /\ f.value > g.value

\* How often a row is among rows.
Count(row, rows) == Cardinality({i \in 1 .. Len(rows) : rows[i] = row})

-----------------------------------------------------------------------------
(* Class Predicate: an operand is a column name, or a constant. *)

Compare(op, u, v) ==
    CASE op = "EQ" -> u = v
      [] op = "NE" -> u # v
      [] op = "GT" -> u > v
      [] op = "GE" -> u >= v
      [] op = "LT" -> u < v
      [] op = "LE" -> u <= v

Col(name) == [name |-> name, field |-> NullField]
Const(f) == [name |-> "const", field |-> f]
Leaf(op, l, r) == [kind |-> "LEAF", op |-> op, left |-> l, right |-> r]

\* The places of a schema that have a name.
Places(name, schema) == {i \in 1 .. Len(schema) : schema[i] = name}
LastPlace(name, schema) == CHOOSE i \in Places(name, schema) :
                              \A j \in Places(name, schema) : j <= i

\* The last column of that name gives the value.  (The code takes every operand
\* whose name contains "const" for a constant: no column here has such a name.)
Known(x, schema) == x.name = "const" \/ Places(x.name, schema) # {}
Operand(x, row, schema) ==
    IF x.name = "const" THEN x.field ELSE row[LastPlace(x.name, schema)]

\* The schema of an operator can be longer than its rows: see Aggregates.
Beyond(x, row, schema) == \E i \in Places(x.name, schema) : i > Len(row)

\* Operands of different types, and names no column has, fail an assertion.
\* Two fields without a type compare false.
LeafValue(p, row, schema) ==
    IF Beyond(p.left, row, schema) \/ Beyond(p.right, row, schema) THEN "undefined"
    ELSE IF ~(Known(p.left, schema) /\ Known(p.right, schema)) THEN "aborts"
    ELSE LET f == Operand(p.left, row, schema)
             g == Operand(p.right, row, schema)
         IN  IF f.type # g.type THEN "aborts"
             ELSE IF Comparable(f, g) /\ Compare(p.op, f.value, g.value) THEN "yes"
             ELSE "no"
=============================================================================
