------------------------------ MODULE Catalog -------------------------------
(***************************************************************************)
(* Catalog: the tables by name, with their ids, pages and constraints, as  *)
(* CREATE TABLE statements make them (Binder::bindCreateTable, then        *)
(* Catalog::CreateTable in the constructor of the executor), the methods   *)
(* that create, drop, save and load tables, and a restart of the program,  *)
(* whose main makes a new catalog on the old file.                         *)
(*                                                                         *)
(* A page is its id: ids count up, and a page that a heap gives back stays *)
(* in the file (BufferPoolManager::deletePage drops it from memory only).  *)
(***************************************************************************)
EXTENDS Integers, SequencesExt, Functions

CONSTANTS
    Statements,  \* CREATE TABLE statements, as the parser returns them
    MaxPages     \* bound: pages of the file

ASSUME CatalogConstants ==
    /\ MaxPages \in Nat
    /\ \A s \in Statements : DOMAIN s.columns \subseteq Nat

VARIABLES
    catalog,     \* the Catalog object
    pages,       \* the number of pages in the file
    saved,       \* what load_catalog finds on page 1
    outcome      \* of the last step: "ok", "exists", "throws", "dead", "misread"

vars == <<catalog, pages, saved, outcome>>

(* A statement s: s.table_name, s.if_not_exists, s.columns with            *)
(*   [name, type, constraints, references], and s.constraints;             *)
(* a constraint: [type, columns, referenced_table, referenced_columns].    *)
Constraint(type, columns, table, referenced) ==
    [type |-> type, columns |-> columns,
     referenced_table |-> table, referenced_columns |-> referenced]
NoTable == "-"

(* catalog has the fields tables, a function of names, next_table_id and   *)
(* catalog_first_page_id and catalog_last_page_id.  A table's pages are    *)
(* the chain of its heap, the metadata page first.                         *)
NewCatalog(first) ==
    [tables |-> [n \in {} |-> 0], next_table_id |-> 0,
     catalog_first_page_id |-> first, catalog_last_page_id |-> first + 1]

\* Page 1 before anything was saved there: the header that newPage and the first
\* catalog gave it, with its id, the next page, and no tuples.
Unsaved == [next_table_id |-> 1, first |-> 2, last |-> 0, tables |-> [n \in {} |-> 0]]

Has(c, name) == name \in DOMAIN c.tables
With(c, name, info) ==
    [c EXCEPT !.tables = [n \in DOMAIN @ \cup {name} |-> IF n = name THEN info ELSE @[n]]]

-----------------------------------------------------------------------------
(* Binder::bindCreateTable. *)

ColumnNames(s) == [i \in DOMAIN s.columns |-> s.columns[i].name]

BindThrows(c, s) ==
    \/ Has(c, s.table_name) /\ ~s.if_not_exists
    \/ s.columns = <<>>
    \/ ~IsInjective(ColumnNames(s))
    \/ \E i \in DOMAIN s.columns : s.columns[i].type \notin {"INT", "DOUBLE", "TEXT", "BOOLEAN"}

\* Column by column its own constraints and references, then the table's.
BoundConstraints(s) ==
    FlattenSeq([i \in DOMAIN s.columns |->
        LET col == s.columns[i] IN
        [k \in DOMAIN col.constraints |->
            Constraint(col.constraints[k], <<col.name>>, NoTable, <<>>)]
        \o [k \in DOMAIN col.references |->
            Constraint("FOREIGN_KEY", <<col.name>>,
                       col.references[k].table, col.references[k].columns)]])
    \o s.constraints

-----------------------------------------------------------------------------
(* Catalog::CreateTable. *)

\* column_names_to_indexes: the first column of each name.  It throws where a
\* name is not in the schema.
Unknown(names, schema) == ~(Range(names) \subseteq Range(schema))
Places(name, schema) == {i \in DOMAIN schema : schema[i] = name}
Indexes(names, schema) ==
    [k \in DOMAIN names |-> CHOOSE i \in Places(names[k], schema) :
                              \A j \in Places(names[k], schema) : i <= j]

\* (meant is no member: the first page of the table that was looked up.)
ForeignKey(c, k, schema) ==
    LET referenced == c.tables[k.referenced_table] IN
    [column_ids |-> Indexes(k.columns, schema),
     referenced_table_id |-> referenced.table_id,
     referenced_column_ids |-> Indexes(k.referenced_columns, referenced.schema),
     meant |-> Head(referenced.pages)]

ConstraintThrows(c, k, schema) ==
    \/ Unknown(k.columns, schema)
    \/ /\ k.type = "FOREIGN_KEY"
       /\ \/ ~Has(c, k.referenced_table)
          \/ Unknown(k.referenced_columns, c.tables[k.referenced_table].schema)

\* The TableInfo with its constraints ks: of several primary keys the last.
\* (The others are vectors in the code; their order is left out.)
Info(c, id, schema, chain, ks) ==
    LET of(type) == {i \in DOMAIN ks : ks[i].type = type}
        key == of("PRIMARY_KEY")
    IN  [table_id |-> id, schema |-> schema, pages |-> chain,
         primary_key_columns |-> IF key = {} THEN <<>>
                                 ELSE LET last == CHOOSE i \in key : \A j \in key : j <= i
                                      IN  Indexes(ks[last].columns, schema),
         unique_constraints |-> {Indexes(ks[i].columns, schema) : i \in of("UNIQUE")},
         foreign_keys |-> {ForeignKey(c, ks[i], schema) : i \in of("FOREIGN_KEY")}]

\* What a call leaves: the catalog, the number of pages, and how it ends.
Result(c, n, o) == [catalog |-> c, pages |-> n, outcome |-> o]

\* (Slip: the id is taken from the number of tables.)
NumberedCountTables(c) == [c EXCEPT !.next_table_id = Cardinality(DOMAIN c.tables) + 1]
Numbered(c) == [c EXCEPT !.next_table_id = @ + 1]

\* (Slip: the table is entered before its constraints are resolved.)
CreateTableEarly(c, n, s) ==
    LET schema == ColumnNames(s)
        d == Numbered(c)
        chain == <<n + 1, n + 2>>
        ks == BoundConstraints(s)
    IN  IF Has(c, s.table_name) THEN Result(c, n, "exists")
        ELSE IF \E i \in DOMAIN ks : ConstraintThrows(c, ks[i], schema)
        THEN Result(With(d, s.table_name, Info(c, d.next_table_id, schema, chain, <<>>)),
                    n + 2, "throws")
        ELSE Result(With(d, s.table_name, Info(c, d.next_table_id, schema, chain, ks)),
                    n + 2, "ok")

\* CreateTable(statement).  The heap has its two pages, and the id is used,
\* before the constraints are resolved; the table is entered after that.
CreateTable(c, n, s) ==
    LET schema == ColumnNames(s)
        d == Numbered(c)
        chain == <<n + 1, n + 2>>
        ks == BoundConstraints(s)
    IN  IF Has(c, s.table_name) THEN Result(c, n, "exists")
        ELSE IF \E i \in DOMAIN ks : ConstraintThrows(c, ks[i], schema)
        THEN Result(d, n + 2, "throws")
        ELSE Result(With(d, s.table_name, Info(c, d.next_table_id, schema, chain, ks)),
                    n + 2, "ok")

\* CreateTable(name, schema) returns null where the name is taken.
CreatePlain(c, n, name, schema) ==
    LET d == Numbered(c) IN
    IF Has(c, name) THEN Result(c, n, "exists")
    ELSE Result(With(d, name, Info(c, d.next_table_id, schema, <<n + 1, n + 2>>, <<>>)),
                n + 2, "ok")

\* (Slip: the pages are taken out of the directory whose size numbers the next.)
DropTableFreeing(c, n, name) ==
    IF ~Has(c, name) THEN Result(c, n, "dead")
    ELSE Result([c EXCEPT !.tables = Restrict(@, DOMAIN @ \ {name})],
                n - Len(c.tables[name].pages), "ok")

\* DropTable walks the chain of the heap and forgets the table.  A name that
\* is not there gets a null entry, which is dereferenced.
DropTable(c, n, name) ==
    IF ~Has(c, name) THEN Result(c, n, "dead")
    ELSE Result([c EXCEPT !.tables = Restrict(@, DOMAIN @ \ {name})], n, "ok")

-----------------------------------------------------------------------------
Becomes(r) ==
    /\ r.pages <= MaxPages
    /\ catalog' = r.catalog /\ pages' = r.pages /\ outcome' = r.outcome
    /\ UNCHANGED saved

Stopped == outcome \in {"dead", "misread"}

\* main: the first catalog of a file.
Init == /\ catalog = NewCatalog(1) /\ pages = 2
        /\ saved = Unsaved /\ outcome = "ok"

\* A statement of the session: an exception ends it, not the program.
CreateStatement(s) ==
    /\ ~Stopped
    /\ Becomes(IF BindThrows(catalog, s) THEN Result(catalog, pages, "throws")
               ELSE CreateTable(catalog, pages, s))

CreatePlainTable(name, schema) ==
    ~Stopped /\ Becomes(CreatePlain(catalog, pages, name, schema))

Drop(name) == ~Stopped /\ Becomes(DropTable(catalog, pages, name))

\* insertTuple adds a page to the heap of a table.
Extend(name) ==
    /\ ~Stopped /\ Has(catalog, name)
    /\ Becomes(Result([catalog EXCEPT !.tables[name].pages = Append(@, pages + 1)],
                      pages + 1, "ok"))

\* serializeTableInfo: no constraint is written.
Serialized(t) ==
    [table_id |-> t.table_id, first_page_id |-> Head(t.pages), schema |-> t.schema]

\* save_catalog writes on the catalog's own first page; load_catalog reads page 1.
SaveCatalog ==
    /\ ~Stopped
    /\ saved' = IF catalog.catalog_first_page_id # 1 THEN saved
                ELSE [next_table_id |-> catalog.next_table_id,
                      first |-> catalog.catalog_first_page_id,
                      last |-> catalog.catalog_last_page_id,
                      tables |-> [n \in DOMAIN catalog.tables |->
                                     Serialized(catalog.tables[n])]]
    /\ outcome' = "ok"
    /\ UNCHANGED <<catalog, pages>>

\* load_catalog skips next_table_id: the ids of the first and the last page are
\* those before them, and as many tables as the id of the last page says are
\* read from a place where none begins.  What they hold is not followed.
LoadCatalog ==
    /\ ~Stopped
    /\ catalog' = [catalog EXCEPT !.tables = [n \in {} |-> 0],
                                  !.catalog_first_page_id = saved.next_table_id,
                                  !.catalog_last_page_id = saved.first]
    /\ outcome' = IF saved.last = 0 THEN "ok" ELSE "misread"
    /\ UNCHANGED <<pages, saved>>

\* After a clean end main makes a new catalog, with two new pages, and loads none:
\* page 1 and the pages of the tables are still in the file.
Restart ==
    /\ outcome # "dead" /\ pages + 2 <= MaxPages
    /\ catalog' = NewCatalog(pages + 1) /\ pages' = pages + 2
    /\ outcome' = "ok"
    /\ UNCHANGED saved

Names == {s.table_name : s \in Statements}
Schemas == {ColumnNames(s) : s \in Statements}

Next == \/ \E s \in Statements : CreateStatement(s)
        \/ \E name \in Names, schema \in Schemas : CreatePlainTable(name, schema)
        \/ \E name \in Names : Drop(name)
        \/ \E name \in Names : Extend(name)
        \/ SaveCatalog
        \/ LoadCatalog
        \/ Restart

Spec == Init /\ [][Next]_vars

-----------------------------------------------------------------------------
(* Properties. *)

Tables == Range(catalog.tables)
CatalogPages == {catalog.catalog_first_page_id, catalog.catalog_last_page_id}

\* A page belongs to one table, once, and to none of those the catalog has for
\* itself, whatever was created, half created, dropped and extended before:
\* newPage never hands out a page that a chain still passes through.
PagesApart ==
    ~Stopped =>
        /\ \A t \in Tables : IsInjective(t.pages) /\ Range(t.pages) \cap CatalogPages = {}
        /\ \A m, n \in DOMAIN catalog.tables :
             m # n => Range(catalog.tables[m].pages) \cap Range(catalog.tables[n].pages) = {}

\* A foreign key names its table by id, and nothing stops that table from being
\* dropped: then no table has the id, also when one of the same name has taken
\* its place, and never does the key lead to a table it was not declared for or
\* to a column that table does not have.
ReferencesResolve ==
    \A t, u \in Tables : \A k \in t.foreign_keys :
        u.table_id = k.referenced_table_id =>
            /\ Head(u.pages) = k.meant
            /\ Range(k.referenced_column_ids) \subseteq DOMAIN u.schema

\* A CREATE TABLE that fails - in the binder, or at any of its constraints -
\* leaves every table as it was, and one that succeeds adds one table and
\* changes no other: there is no half-created table to select from.
CreateAllOrNothing ==
    [][/\ outcome' = "throws" => catalog'.tables = catalog.tables
       /\ DOMAIN catalog'.tables \subseteq DOMAIN catalog.tables
          \/ \E n \in DOMAIN catalog'.tables :
               /\ Restrict(catalog'.tables, DOMAIN catalog'.tables \ {n}) = catalog.tables
               /\ pages' = pages + 2]_vars
=============================================================================
