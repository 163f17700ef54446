-------------------------------- MODULE Sql ---------------------------------
(***************************************************************************)
(* Sql: a session.  Each statement is bound against the catalog, planned   *)
(* and executed before the next one is read; what outlives a statement is  *)
(* the rows of the tables and the name each heap goes by.                  *)
(*                                                                         *)
(* The parser is external: a statement is a record, with None where it has *)
(* no such clause.  Binding and building follow the code down to the point *)
(* where they throw (the session goes on), use a null pointer ("dies"),    *)
(* fail an assertion ("aborts"), or read past an array ("undefined").  The *)
(* order of a table's rows, and what its scan meets while it changes them, *)
(* is in TableHeap; what joins, sorts and groups return is in the modules  *)
(* of these operators.                                                     *)
(***************************************************************************)
EXTENDS Rows

CONSTANTS
    Columns,       \* the columns of each table, a function of its name
    BoolColumns,   \* the names of the columns of type BOOL
    Statements,    \* the statements of a session
    MaxRows        \* bound: rows of all tables

VARIABLES
    db,      \* per table its rows, and heap: the name its heap goes by
    last     \* the last statement: [stmt, outcome, schema, rows, fresh]

vars == <<db, last>>

(* Expressions as the parser gives them, and as they are bound, None for a *)
(* null pointer.  (Below AND and OR no statement has a function.)          *)
None == [kind |-> "none"]
Column(t, c) == [kind |-> "col", table |-> t, column |-> c]
Value(f) == [kind |-> "const", field |-> f]
Op(op, l, r) == [kind |-> "op", op |-> op, left |-> l, right |-> r]
Fun(name, arg) == [kind |-> "fun", name |-> name, arg |-> arg]
Star == [kind |-> "other"]

Comparisons == {"EQ", "NE", "GT", "GE", "LT", "LE"}
Connectives == {"AND", "OR"}
Arithmetic == {"ADD", "SUB"}

-----------------------------------------------------------------------------
(* Binder.  A context is the sequence of the tables [name, alias] in use.  *)
(* A bound column carries its table, its position and the name its table   *)
(* is called by; what cannot be bound is an expression of kind "throws" or *)
(* "dies".                                                                 *)

Throws == [kind |-> "throws"]
Dies == [kind |-> "dies"]
Bad(b) == b.kind \in {"throws", "dies"}

NameIn(t) == IF t.alias = "" THEN t.name ELSE t.alias

\* The last table of the context that is called so and has the column.
ResolveColumn(ctx, table, column) ==
    LET found == {i \in 1 .. Len(ctx) : /\ table \in {ctx[i].alias, ctx[i].name}
                                        /\ Places(column, Columns[ctx[i].name]) # {}}
        t == ctx[Max(found)]
    IN  IF found = {} THEN Dies
        ELSE [kind |-> "col", table |-> t.name, column |-> column, called |-> NameIn(t),
              at |-> FirstPlace(column, Columns[t.name])]

Functions == {"COUNT", "SUM", "AVG", "MAX", "MIN"}

\* A function takes one argument, a column.  One of another name is reported, and
\* bound to a null pointer.
BindFunction(name, arg) ==
    CASE name \notin Functions -> None
      [] name \in Functions /\ (Bad(arg) \/ arg = None) -> arg
      [] name \in Functions /\ arg.kind = "col" -> Fun(name, arg)
      [] OTHER -> Dies

\* The result of arithmetic has the type of its left side.
BindOperator(op, l, r) ==
    CASE Bad(l) -> l
      [] ~Bad(l) /\ Bad(r) -> r
      [] ~Bad(l) /\ ~Bad(r) ->
            CASE op \in Comparisons \cup Connectives -> Op(op, l, r)
              [] op \in Arithmetic -> IF l = None THEN Dies ELSE Op(op, l, r)
              [] OTHER -> Throws

\* A column without a table is looked up in a table called NULL.
RECURSIVE BindExpression(_, _)
BindExpression(ctx, e) ==
    CASE e.kind \in {"none", "const"} -> e
      [] e.kind = "col" -> ResolveColumn(ctx, e.table, e.column)
      [] e.kind = "other" -> Throws
      [] e.kind = "fun" -> BindFunction(e.name, BindExpression(ctx, e.arg))
      [] e.kind = "op" ->
            BindOperator(e.op, BindExpression(ctx, e.left), BindExpression(ctx, e.right))

BindAll(ctx, s) == [i \in 1 .. Len(s) |-> BindExpression(ctx, s[i])]

\* The clauses are bound in this order; the first that fails decides.
FirstBad(s) ==
    LET bad == {i \in 1 .. Len(s) : Bad(s[i])}
    IN  IF bad = {} THEN "ok" ELSE s[Min(bad)].kind

-----------------------------------------------------------------------------
(* ExecutorFactory: predicates. *)

\* What building comes to: the left side is built before the right one, and a
\* null pointer below a comparison is used.
OperandVerdict(e) == CASE e = None -> "dies" [] e.kind = "op" -> "throws" [] OTHER -> "ok"

RECURSIVE BuildVerdict(_)
BuildVerdict(e) ==
    IF e.kind # "op" \/ e.op \in Arithmetic THEN "throws"
    ELSE LET Verdict(x) == IF e.op \in Connectives THEN BuildVerdict(x) ELSE OperandVerdict(x)
         IN  IF Verdict(e.left) # "ok" THEN Verdict(e.left) ELSE Verdict(e.right)

Buildable(e) == BuildVerdict(e) = "ok"

\* A column is the one at its position in the schema of the child, which for
\* a join begins with the columns of the left table whichever is meant.
ExprToCol(e, schema) ==
    CASE e.kind = "col" -> Col(schema[e.at])
      [] e.kind = "const" -> Const(e.field)
      [] e.kind = "fun" -> Col(e.name \o "(" \o e.arg.column \o ")")

\* (Slip: the right side is built from the left expression.)
RECURSIVE BuildLeftTwice(_, _)
BuildLeftTwice(e, schema) ==
    IF e.op \in Connectives
    THEN [kind |-> e.op, left |-> BuildLeftTwice(e.left, schema),
          right |-> BuildLeftTwice(e.left, schema)]
    ELSE Leaf(e.op, ExprToCol(e.left, schema), ExprToCol(e.right, schema))

RECURSIVE BuildPredicate(_, _)
BuildPredicate(e, schema) ==
    IF e.op \in Connectives
    THEN [kind |-> e.op, left |-> BuildPredicate(e.left, schema),
          right |-> BuildPredicate(e.right, schema)]
    ELSE Leaf(e.op, ExprToCol(e.left, schema), ExprToCol(e.right, schema))

\* A scan names its columns by the heap's name; has_column puts that name in
\* front of them once more.
Scan(d, t) ==
    Table([i \in 1 .. Len(Columns[t]) |-> d[t].heap \o "." \o Columns[t][i]], d[t].rows)
HasColumn(d, t, name) ==
    \E i \in 1 .. Len(Columns[t]) : d[t].heap \o "." \o Scan(d, t).schema[i] = name

JoinBuildable(d, e, tables) ==
    /\ e.kind = "op" /\ e.op \in {"EQ", "NE", "GT"}
    /\ \A x \in {e.left, e.right} :
          \/ x.kind = "const"
          \/ x.kind = "col" /\ \E t \in tables : HasColumn(d, t, x.called \o "." \o x.column)

\* An outer row with each inner row; the predicate is over constants.
CrossRows(l, r) ==
    [n \in 1 .. Len(l) * Len(r) |->
        l[((n - 1) \div Len(r)) + 1] \o r[((n - 1) % Len(r)) + 1]]
NestedLoop(d, s) ==
    LET l == Scan(d, s.from)
        r == Scan(d, s.join.table)
    IN  Table(l.schema \o r.schema, CrossRows(l.rows, r.rows))

\* An alias becomes the name of the heap, and stays it.
Renamed(d, ctx) ==
    [t \in DOMAIN d |->
        LET uses == {i \in 1 .. Len(ctx) : ctx[i].name = t} IN
        IF uses = {} \/ ctx[Max(uses)].alias = "" THEN d[t]
        ELSE [d[t] EXCEPT !.heap = ctx[Max(uses)].alias]]

-----------------------------------------------------------------------------
(* SELECT *)

Context(s) ==
    <<[name |-> s.from, alias |-> s.alias]>>
    \o IF s.join = None THEN <<>> ELSE <<[name |-> s.join.table, alias |-> s.join.alias]>>

JoinTypes == {"INNER", "LEFT", "RIGHT"}

UnknownTable(s) == \E i \in DOMAIN Context(s) : Context(s)[i].name \notin DOMAIN Columns

RECURSIVE IsBool(_)
IsBool(e) == CASE e.kind = "col" -> e.column \in BoolColumns
               [] e.kind = "fun" -> IsBool(e.arg)
               [] e.kind = "op" -> e.op \notin Arithmetic \/ IsBool(e.left)
               [] OTHER -> FALSE

\* The condition, which every join here has, must be of type bool.  (One that is
\* no comparison throws when it is built.)
BindJoin(ctx, join) ==
    LET on == BindExpression(ctx, join.on) IN
    IF Bad(on) THEN on
    ELSE IF ~IsBool(on) \/ join.type \notin JoinTypes THEN Throws
    ELSE on

BoundSelect(s) ==
    LET ctx == Context(s)
        on == IF s.join = None THEN None ELSE BindJoin(ctx, s.join)
        list == BindAll(ctx, s.list)
        clauses == BindAll(ctx, <<s.where, s.group, s.having, s.order>>)
        \* Printing and planning use a null group key, or a null item beside one.
        planned == IF s.group # None /\ None \in {clauses[2]} \cup ToSet(list) THEN Dies ELSE None
    IN  IF UnknownTable(s) THEN [verdict |-> "throws"]
        ELSE [verdict |-> FirstBad(<<on>> \o list \o clauses \o <<planned>>),
              on |-> on, list |-> list, where |-> clauses[1], group |-> clauses[2],
              having |-> clauses[3], order |-> clauses[4]]

\* The name of an item of the select list; items without one throw.
Named(e) == CASE e.kind = "col" -> e.called \o "." \o e.column
              [] e.kind = "fun" -> e.name \o "(" \o e.arg.column \o ")"
Nameless(list) == \E i \in 1 .. Len(list) : list[i].kind \notin {"col", "fun"}

Matching(t, where) == IF where = None THEN t ELSE Select(t, BuildPredicate(where, t.schema))
FailsOn(t, where) == where # None /\ Fails(BuildPredicate(where, t.schema), t)

\* The condition of a join fails on a pair of rows, or WHERE on a row.
ReadFails(c, b) == FailsOn(c, b.on) \/ FailsOn(Matching(c, b.on), b.where)

\* The rows of the table or join c that the statement is about.
Read(c, b) == Matching(Matching(c, b.on), b.where)

\* GROUP BY without HAVING prints the null predicate.  A function in HAVING
\* goes by another name than the column that the aggregation computes.
Grouped(c, b) ==
    CASE b.having = None -> {"dies"}
      [] b.having # None /\ ~Buildable(b.having) -> {BuildVerdict(b.having)}
      [] ReadFails(c, b) -> {"aborts"}
      [] OTHER -> IF Read(c, b).rows = <<>> THEN {"undefined"} ELSE {"aborts"}

\* ORDER BY asks the heap below for the position of its key, and a join has
\* none.  The heap does not know the key by that name: rows are compared
\* by what lies behind them.
OrderFails(s, c, b) ==
    CASE OperandVerdict(b.order) # "ok" -> {OperandVerdict(b.order)}
      [] OperandVerdict(b.order) = "ok" /\ s.join # None -> {"dies"}
      [] OTHER -> IF ReadFails(c, b) THEN {"aborts"}
                  ELSE IF Read(c, b).rows = <<>> THEN {"undefined"} ELSE {"ok", "undefined"}

\* Until the operators exist: the outcomes that are possible.
BuildOutcomes(d, s, b, c) ==
    IF s.join # None /\ ~JoinBuildable(d, b.on, {s.from, s.join.table}) THEN {"throws"}
    ELSE IF b.where # None /\ ~Buildable(b.where) THEN {BuildVerdict(b.where)}
    ELSE IF s.group # None THEN Grouped(c, b)
    ELSE IF s.order # None THEN OrderFails(s, c, b)
    ELSE {"ok"}

\* A sort was opened three times when the first row is asked for: by itself,
\* by the projection and by the statement.
Answer(s, c, b) ==
    LET read == Read(c, b).rows
        rows == IF s.order = None THEN read ELSE read \o read \o read
    IN  Project(Table(c.schema, rows), [i \in 1 .. Len(b.list) |-> Named(b.list[i])])

\* The heaps go by the names that the binder gave to the columns.
Fresh(d, s) == \A i \in 1 .. Len(Context(s)) :
                   d[Context(s)[i].name].heap = NameIn(Context(s)[i])

Done(s, outcome, answer, fresh) ==
    last' = [stmt |-> s, outcome |-> outcome, schema |-> answer.schema,
             rows |-> answer.rows, fresh |-> fresh]
Without == Table(<<>>, <<>>)

Running == last.outcome \in {"ok", "throws"}

SelectStatement ==
    \E s \in Statements :
        LET b == BoundSelect(s)
            d == Renamed(db, Context(s))
            c == IF s.join = None THEN Scan(d, s.from) ELSE NestedLoop(d, s)
        IN  /\ s.kind = "select" /\ Running
            /\ IF b.verdict # "ok" THEN UNCHANGED db /\ Done(s, b.verdict, Without, FALSE)
               ELSE /\ db' = d
                    /\ \E o \in BuildOutcomes(d, s, b, c) :
                         CASE o # "ok" -> Done(s, o, Without, FALSE)
                           [] o = "ok" /\ Nameless(b.list) -> Done(s, "throws", Without, FALSE)
                           [] OTHER -> IF ReadFails(c, b)
                                       THEN Done(s, "aborts", Without, FALSE)
                                       ELSE Done(s, "ok", Answer(s, c, b), Fresh(d, s))

-----------------------------------------------------------------------------
(* INSERT, UPDATE and DELETE *)

Inserted(s, c) == Columns[s.table][c] \in ToSet(s.columns)

\* The values in the order of the columns of the table, whatever the order of
\* the columns of the statement: column c gets the next value.
InsertValue(s, c) ==
    IF ~Inserted(s, c) THEN Value(NullField)
    ELSE LET n == Cardinality({i \in 1 .. c : Inserted(s, i)})
             value == BindExpression(<<>>, s.values[n])
         IN  CASE n > Len(s.values) -> Throws
               [] n <= Len(s.values) /\ value = None -> Value(NullField)
               [] OTHER -> value

InsertStatement ==
    \E s \in Statements :
        LET values == [c \in 1 .. Len(Columns[s.table]) |-> InsertValue(s, c)]
            o == CASE s.table \notin DOMAIN Columns -> "dies"
                   [] OTHER -> IF FirstBad(values) # "ok" THEN FirstBad(values)
                               ELSE IF \E c \in DOMAIN values : values[c].kind # "const"
                                    THEN "dies" ELSE "ok"
        IN  /\ s.kind = "insert" /\ Running
            /\ FoldFunction(LAMBDA r, n : n + Len(r.rows), 0, db) < MaxRows
            /\ Done(s, o, Without, TRUE)
            /\ db' = IF o # "ok" THEN db
                     ELSE [db EXCEPT ![s.table].rows =
                             Append(@, [c \in DOMAIN values |-> values[c].field])]

\* The first assignment to a column is taken.
Assigned(s, c) ==
    LET i == {i \in 1 .. Len(s.updates) : s.updates[i].column = Columns[s.table][c]}
    IN  IF i = {} THEN None
        ELSE BindExpression(<<[name |-> s.table, alias |-> ""]>>, s.updates[Min(i)].value)
AssignedAll(s) == [c \in 1 .. Len(Columns[s.table]) |-> Assigned(s, c)]

\* (Slip: the position in the old row only moves past columns it is read for.)
UpdatedBehind(row, values) ==
    [c \in DOMAIN values |->
        IF values[c] = None THEN row[Cardinality({i \in 1 .. c : values[i] = None})]
        ELSE values[c].field]
Updated(row, values) ==
    [c \in DOMAIN values |-> IF values[c] = None THEN row[c] ELSE values[c].field]

\* A change needs a WHERE clause: without one both statements use a null
\* pointer at the first row.
ChangeOutcome(t, where) ==
    CASE FirstBad(<<where>>) # "ok" -> where.kind
      [] where = None -> IF t.rows = <<>> THEN "ok" ELSE "dies"
      [] OTHER -> IF ~Buildable(where) THEN BuildVerdict(where)
                  ELSE IF FailsOn(t, where) THEN "aborts" ELSE "ok"

Hits(t, where) == {i \in 1 .. Len(t.rows) :
                      where # None
                      /\ Evaluate(BuildPredicate(where, t.schema), t.rows[i], t.schema) = "yes"}

Where(s) == BindExpression(<<[name |-> s.table, alias |-> ""]>>, s.where)

UpdateStatement ==
    \E s \in Statements :
        LET t == Scan(db, s.table)
            values == AssignedAll(s)
            unusable == \E c \in DOMAIN values : values[c].kind \notin {"none", "const"}
            o == CASE s.table \notin DOMAIN Columns -> "throws"
                   [] OTHER -> IF FirstBad(values) # "ok" THEN FirstBad(values)
                               ELSE ChangeOutcome(t, Where(s))
        IN  /\ s.kind = "update" /\ Running
            /\ IF o = "ok" /\ unusable /\ Hits(t, Where(s)) # {}
               THEN UNCHANGED db /\ Done(s, "dies", Without, TRUE)
               ELSE /\ Done(s, o, Without, TRUE)
                    /\ db' = IF o # "ok" THEN db
                             ELSE [db EXCEPT ![s.table].rows =
                                     [i \in 1 .. Len(t.rows) |->
                                        IF i \in Hits(t, Where(s)) THEN Updated(t.rows[i], values)
                                        ELSE t.rows[i]]]

DeleteStatement ==
    \E s \in Statements :
        LET t == Scan(db, s.table)
            o == IF s.table \notin DOMAIN Columns THEN "throws" ELSE ChangeOutcome(t, Where(s))
        IN  /\ s.kind = "delete" /\ Running
            /\ Done(s, o, Without, TRUE)
            /\ db' = IF o # "ok" THEN db
                     ELSE [db EXCEPT ![s.table].rows =
                             [n \in 1 .. Len(@) - Cardinality(Hits(t, Where(s))) |->
                                @[SetToSortSeq((1 .. Len(@)) \ Hits(t, Where(s)), <)[n]]]]

Init == /\ db = [t \in DOMAIN Columns |-> [heap |-> t, rows |-> <<>>]]
        /\ last = [stmt |-> None, outcome |-> "ok", schema |-> <<>>, rows |-> <<>>, fresh |-> TRUE]

Next == SelectStatement \/ InsertStatement \/ UpdateStatement \/ DeleteStatement

Spec == Init /\ [][Next]_vars

-----------------------------------------------------------------------------
(* What SQL says of a row of one table: columns are what they are called,  *)
(* and a comparison with a missing value does not hold.                    *)

FieldOf(e, table, row) == IF e.kind = "const" THEN e.field
                          ELSE row[FirstPlace(e.column, Columns[table])]
RECURSIVE Satisfies(_, _, _)
Satisfies(e, table, row) ==
    CASE e.kind = "none" -> TRUE
      [] e.kind = "op" ->
            CASE e.op = "AND" -> Satisfies(e.left, table, row) /\ Satisfies(e.right, table, row)
              [] e.op = "OR" -> Satisfies(e.left, table, row) \/ Satisfies(e.right, table, row)
              [] OTHER -> LET f == FieldOf(e.left, table, row)
                              g == FieldOf(e.right, table, row)
                          IN  Comparable(f, g) /\ Compare(e.op, f.value, g.value)

SimpleSelect(s) == s.kind = "select" /\ s.join = None /\ s.order = None /\ s.group = None

\* A SELECT from one table that answers returns the columns it lists of the
\* rows that satisfy WHERE, whatever was inserted, updated and renamed before -
\* except that the columns are lost where an earlier statement has left the
\* heap another name, and functions are.  The number of rows is right even then.
SelectExact ==
    SimpleSelect(last.stmt) /\ last.outcome = "ok" =>
        LET s == last.stmt
            rows == SelectSeq(db[s.from].rows, LAMBDA r : Satisfies(s.where, s.from, r))
            cols == SelectSeq(s.list, LAMBDA e : e.kind = "col")
        IN  /\ Len(last.rows) = Len(rows)
            /\ last.fresh =>
                 SameRows(last.rows, [i \in 1 .. Len(rows) |->
                    [c \in 1 .. Len(cols) |-> FieldOf(cols[c], s.from, rows[i])]])

InSchemaOrder(s) ==
    /\ Len(s.values) = Len(s.columns)
    /\ s.columns = SelectSeq(Columns[s.table], LAMBDA c : c \in ToSet(s.columns))

\* What one statement may do to the rows of the tables.  (Of an INSERT that lists
\* the columns in another order than the table, or none, it says only that a row is
\* added: the code stores its values in the order of the table, or nulls.)
Allowed(s, outcome, before, after) ==
    CASE outcome # "ok" \/ s.kind = "select" -> \A t \in DOMAIN before : after[t].rows = before[t].rows
      [] OTHER ->
           /\ \A t \in DOMAIN before \ {s.table} : after[t].rows = before[t].rows
           /\ LET old == before[s.table].rows
                  new == after[s.table].rows
                  kept == SelectSeq(old, LAMBDA r : ~Satisfies(s.where, s.table, r))
              IN  CASE s.kind = "insert" ->
                         /\ Len(new) = Len(old) + 1 /\ Front(new) = old
                         /\ InSchemaOrder(s) => \A c \in 1 .. Len(Columns[s.table]) :
                              Last(new)[c] = IF Places(Columns[s.table][c], s.columns) = {} THEN NullField
                                             ELSE s.values[FirstPlace(Columns[s.table][c], s.columns)].field
                    [] s.kind = "delete" -> IF s.where = None THEN new = old ELSE new = kept
                    [] s.kind = "update" ->
                         /\ Len(new) = Len(old)
                         /\ \A i \in 1 .. Len(old), c \in 1 .. Len(Columns[s.table]) :
                              LET set == {j \in 1 .. Len(s.updates) :
                                            s.updates[j].column = Columns[s.table][c]}
                              IN  IF set = {} \/ ~Satisfies(s.where, s.table, old[i])
                                  THEN new[i][c] = old[i][c]
                                  ELSE new[i][c] = s.updates[Min(set)].value.field

\* Statements change the rows that satisfy their WHERE clause, in the columns
\* they name, and nothing else; one that throws changes no row.
WritesExact == [][Allowed(last'.stmt, last'.outcome, db, db')]_vars

\* The join of the documentation: two tables of the catalog, joined on a column
\* of each and asked for columns of both, give an answer.
JoinAnswers ==
    LET s == last.stmt IN
    /\ s.kind = "select" /\ s.join # None /\ s.order = None /\ s.group = None /\ s.where = None
    /\ s.from \in DOMAIN Columns /\ s.join.table \in DOMAIN Columns /\ s.join.type = "INNER"
    /\ s.join.on.kind = "op" /\ s.join.on.left.kind = "col" /\ s.join.on.right.kind = "col"
    => last.outcome = "ok"
=============================================================================
