--------------------------- MODULE CatalogProofs ----------------------------
(***************************************************************************)
(* Proofs about Catalog, for every set of statements and every bound on    *)
(* the pages: tables share no page, a foreign key never leads to a table   *)
(* it was not declared for, and a statement creates its table or none.     *)
(***************************************************************************)
EXTENDS Catalog, WellFoundedInduction, SequenceTheorems, TLAPS

-----------------------------------------------------------------------------
(* The strengthening of the two invariants: what a catalog c over n pages  *)
(* keeps, stated of c and n so that the operators can be proved about one  *)
(* by one.                                                                 *)

\* A table of a catalog whose last id is last: its id was given out, its pages
\* are in the file, and its foreign keys name ids that were given out.
TableOrderly(t, last, n) ==
    /\ t = [table_id |-> t.table_id, schema |-> t.schema, pages |-> t.pages,
            primary_key_columns |-> t.primary_key_columns,
            unique_constraints |-> t.unique_constraints, foreign_keys |-> t.foreign_keys]
    /\ t.table_id \in 1 .. last
    /\ DOMAIN t.schema \subseteq Nat
    /\ t.pages \in Seq(1 .. n) /\ t.pages # <<>> /\ IsInjective(t.pages)
    /\ \A k \in t.foreign_keys : k.referenced_table_id \in 1 .. last

\* Ids and pages tell tables apart.
TablesApart(c) ==
    \A l, m \in DOMAIN c.tables :
        l # m => /\ c.tables[l].table_id # c.tables[m].table_id
                 /\ Range(c.tables[l].pages) \cap Range(c.tables[m].pages) = {}

\* Key k, if its id is that of table u, was declared for u.
Resolves(k, u) ==
    u.table_id = k.referenced_table_id =>
        /\ Head(u.pages) = k.meant
        /\ Range(k.referenced_column_ids) \subseteq DOMAIN u.schema

KeysResolve(c) ==
    \A l, m \in DOMAIN c.tables : \A k \in c.tables[l].foreign_keys :
        Resolves(k, c.tables[m])

Orderly(c, n) ==
    /\ n \in Nat
    /\ c = [tables |-> c.tables, next_table_id |-> c.next_table_id,
            catalog_first_page_id |-> c.catalog_first_page_id,
            catalog_last_page_id |-> c.catalog_last_page_id]
    /\ c.next_table_id \in Nat
    /\ c.tables = [m \in DOMAIN c.tables |-> c.tables[m]]
    /\ \A m \in DOMAIN c.tables : TableOrderly(c.tables[m], c.next_table_id, n)
    /\ TablesApart(c)
    /\ KeysResolve(c)

\* The pages that catalog c keeps for itself are in the file, and so are those of
\* the first catalog; the former are in no chain.
OwnPages(c) == {c.catalog_first_page_id, c.catalog_last_page_id}
OwnPagesApart(c, n) ==
    /\ {1, 2} \cup OwnPages(c) \subseteq 1 .. n
    /\ \A m \in DOMAIN c.tables : Range(c.tables[m].pages) \cap OwnPages(c) = {}

\* A catalog that was saved has a last page, which load_catalog takes for the
\* number of tables.  Of a page 1 on which none was saved it makes the catalog that
\* was there first.
IInv == /\ Orderly(catalog, pages)
        /\ ~Stopped => OwnPagesApart(catalog, pages)
        /\ saved # Unsaved => saved.last # 0

-----------------------------------------------------------------------------
(* Sequences of pages. *)

LEMMA AppendPage ==
    ASSUME NEW n \in Nat, NEW m \in Nat, n < m, NEW s \in Seq(1 .. n), s # <<>>, IsInjective(s)
    PROVE  /\ Append(s, m) \in Seq(1 .. m) /\ Append(s, m) # <<>>
           /\ IsInjective(Append(s, m))
           /\ Head(Append(s, m)) = Head(s)
           /\ Range(Append(s, m)) = Range(s) \cup {m}
<1>1. /\ Len(s) \in Nat /\ Len(s) > 0
      /\ \A i \in 1 .. Len(s) : s[i] \in 1 .. n
      /\ DOMAIN s = 1 .. Len(s)
  OBVIOUS
<1>2. /\ Append(s, m) \in Seq(1 .. m)
      /\ DOMAIN Append(s, m) = 1 .. Len(s) + 1
      /\ \A i \in 1 .. Len(s) : Append(s, m)[i] = s[i]
      /\ Append(s, m)[Len(s) + 1] = m
  <2>1. s \in Seq(1 .. m)
    OBVIOUS
  <2>2. m \in 1 .. m
    OBVIOUS
  <2> QED BY <2>1, <2>2, <1>1
<1>3. IsInjective(Append(s, m))
  <2> SUFFICES ASSUME NEW i \in 1 .. Len(s) + 1, NEW j \in 1 .. Len(s) + 1,
                      Append(s, m)[i] = Append(s, m)[j]
               PROVE  i = j
    BY <1>2 DEF IsInjective
  <2>1. CASE i \in 1 .. Len(s) /\ j \in 1 .. Len(s)
    BY <2>1, <1>1, <1>2 DEF IsInjective
  <2>2. CASE i = Len(s) + 1 \/ j = Len(s) + 1
    BY <2>2, <1>1, <1>2
  <2> QED BY <2>1, <2>2, <1>1
<1>4. Range(Append(s, m)) = Range(s) \cup {m}
  <2>1. \A x \in Range(Append(s, m)) : x \in Range(s) \cup {m}
    BY <1>1, <1>2 DEF Range
  <2>2. \A x \in Range(s) : x \in Range(Append(s, m))
    BY <1>1, <1>2 DEF Range
  <2>3. m \in Range(Append(s, m))
    BY <1>1, <1>2 DEF Range
  <2> QED BY <2>1, <2>2, <2>3
<1>5. Head(Append(s, m)) = Head(s) /\ Append(s, m) # <<>>
  BY <1>1, <1>2
<1> QED BY <1>2, <1>3, <1>4, <1>5

LEMMA NewChain ==
    ASSUME NEW n \in Nat
    PROVE  /\ <<n + 1, n + 2>> \in Seq(1 .. n + 2) /\ <<n + 1, n + 2>> # <<>>
           /\ IsInjective(<<n + 1, n + 2>>)
           /\ Head(<<n + 1, n + 2>>) = n + 1
           /\ Range(<<n + 1, n + 2>>) = {n + 1, n + 2}
<1> DEFINE s == <<n + 1, n + 2>>
<1>1. DOMAIN s = {1, 2} /\ s[1] = n + 1 /\ s[2] = n + 2
  OBVIOUS
<1>2. s \in Seq(1 .. n + 2) /\ s # <<>> /\ Head(s) = n + 1
  OBVIOUS
<1> HIDE DEF s
<1>3. IsInjective(s)
  BY <1>1 DEF IsInjective
<1>4. Range(s) = {n + 1, n + 2}
  BY <1>1 DEF Range
<1> QED BY <1>2, <1>3, <1>4 DEF s

LEMMA LargerFile ==
    ASSUME NEW n \in Nat, NEW m \in Nat, n <= m, NEW s \in Seq(1 .. n)
    PROVE  s \in Seq(1 .. m)
OBVIOUS

LEMMA PagesInFile ==
    ASSUME NEW n \in Nat, NEW s \in Seq(1 .. n)
    PROVE  Range(s) \subseteq 1 .. n
BY DEF Range

-----------------------------------------------------------------------------
(* Columns by their names. *)

\* A set of positions has a first one.
LEMMA FirstPosition ==
    ASSUME NEW S \in SUBSET Nat, S # {}
    PROVE  \E i \in S : \A j \in S : i <= j
<1>1. \E i \in S : \A j \in S : <<j, i>> \notin OpToRel(<, Nat)
  BY NatLessThanWellFounded, WFMin, Zenon
<1>2. PICK i \in S : \A j \in S : <<j, i>> \notin OpToRel(<, Nat)
  BY <1>1
<1>3. ASSUME NEW j \in S PROVE i <= j
  <2>1. i \in Nat /\ j \in Nat /\ <<j, i>> \in Nat \X Nat
    OBVIOUS
  <2>2. j < i => <<j, i>> \in OpToRel(<, Nat)
    BY <2>1, Zenon DEF OpToRel
  <2>3. ~(j < i)
    BY <1>2, <2>2, Zenon
  <2> QED BY <2>1, <2>3
<1> QED BY <1>3

\* column_names_to_indexes returns positions of the schema.
LEMMA IndexesInSchema ==
    ASSUME NEW names, NEW schema, DOMAIN schema \subseteq Nat, ~Unknown(names, schema)
    PROVE  Range(Indexes(names, schema)) \subseteq DOMAIN schema
<1> SUFFICES ASSUME NEW k \in DOMAIN names
             PROVE  Indexes(names, schema)[k] \in DOMAIN schema
  BY DEF Range, Indexes
<1>1. names[k] \in Range(schema)
  BY DEF Unknown, Range
<1>2. Places(names[k], schema) \in SUBSET Nat /\ Places(names[k], schema) # {}
  BY <1>1 DEF Places, Range
<1>3. \E i \in Places(names[k], schema) : \A j \in Places(names[k], schema) : i <= j
  BY <1>2, FirstPosition
<1>4. Indexes(names, schema)[k] \in Places(names[k], schema)
  BY <1>3 DEF Indexes
<1> QED BY <1>4 DEF Places

\* A foreign key that CreateTable makes has the id of a table of the catalog,
\* leads to that one, and to columns it has.
LEMMA ForeignKeyResolves ==
    ASSUME NEW c, NEW n, Orderly(c, n), NEW k, NEW schema,
           k.type = "FOREIGN_KEY", ~ConstraintThrows(c, k, schema)
    PROVE  /\ ForeignKey(c, k, schema).referenced_table_id \in 1 .. c.next_table_id
           /\ \A m \in DOMAIN c.tables : Resolves(ForeignKey(c, k, schema), c.tables[m])
<1> DEFINE r == c.tables[k.referenced_table]
           f == ForeignKey(c, k, schema)
<1>1. k.referenced_table \in DOMAIN c.tables /\ ~Unknown(k.referenced_columns, r.schema)
  BY DEF ConstraintThrows, Has
<1>2. TableOrderly(r, c.next_table_id, n)
  BY <1>1 DEF Orderly
<1>3. /\ f.referenced_table_id = r.table_id /\ f.meant = Head(r.pages)
      /\ f.referenced_column_ids = Indexes(k.referenced_columns, r.schema)
  BY DEF ForeignKey
<1>4. Range(f.referenced_column_ids) \subseteq DOMAIN r.schema
  BY <1>1, <1>2, <1>3, IndexesInSchema DEF TableOrderly
<1>5. ASSUME NEW m \in DOMAIN c.tables PROVE Resolves(f, c.tables[m])
  <2>1. CASE m = k.referenced_table
    BY <2>1, <1>3, <1>4 DEF Resolves
  <2>2. CASE m # k.referenced_table
    BY <2>2, <1>1, <1>3 DEF Resolves, Orderly, TablesApart
  <2> QED BY <2>1, <2>2
<1> QED BY <1>2, <1>3, <1>5 DEF TableOrderly

-----------------------------------------------------------------------------
(* The operations on the catalog. *)

\* More pages, and an id given out, change nothing for the tables there are.
LEMMA NumberedOrderly ==
    ASSUME NEW c, NEW n, NEW m \in Nat, Orderly(c, n), n <= m
    PROVE  /\ Orderly(Numbered(c), m)
           /\ Numbered(c).next_table_id = c.next_table_id + 1
           /\ Numbered(c).tables = c.tables
           /\ OwnPages(Numbered(c)) = OwnPages(c)
<1> DEFINE d == Numbered(c)
<1>1. /\ d.tables = c.tables /\ d.next_table_id = c.next_table_id + 1
      /\ d.catalog_first_page_id = c.catalog_first_page_id
      /\ d.catalog_last_page_id = c.catalog_last_page_id
      /\ d = [tables |-> d.tables, next_table_id |-> d.next_table_id,
              catalog_first_page_id |-> d.catalog_first_page_id,
              catalog_last_page_id |-> d.catalog_last_page_id]
  BY DEF Numbered, Orderly
<1> HIDE DEF d
<1>2. n \in Nat /\ c.next_table_id \in Nat
  BY DEF Orderly
<1>3. ASSUME NEW l \in DOMAIN d.tables
      PROVE  TableOrderly(d.tables[l], d.next_table_id, m)
  <2> DEFINE t == c.tables[l]
  <2>1. TableOrderly(t, c.next_table_id, n)
    BY <1>1 DEF Orderly
  <2>2. t.pages \in Seq(1 .. m)
    <3>1. t.pages \in Seq(1 .. n)
      BY <2>1 DEF TableOrderly
    <3> QED BY <3>1, <1>2, LargerFile
  <2>3. t.table_id \in 1 .. d.next_table_id
    BY <2>1, <1>1, <1>2 DEF TableOrderly
  <2>4. \A k \in t.foreign_keys : k.referenced_table_id \in 1 .. d.next_table_id
    BY <2>1, <1>1, <1>2 DEF TableOrderly
  <2> QED BY <2>1, <2>2, <2>3, <2>4, <1>1 DEF TableOrderly
<1>4. TablesApart(d) /\ KeysResolve(d)
  BY <1>1 DEF Orderly, TablesApart, KeysResolve
<1>5. d.tables = [l \in DOMAIN d.tables |-> d.tables[l]]
  BY <1>1 DEF Orderly
<1>6. Orderly(d, m)
  BY <1>1, <1>2, <1>3, <1>4, <1>5 DEF Orderly
<1> QED BY <1>1, <1>6 DEF OwnPages, d

\* A table with the next id and two new pages may be entered under a new name.
LEMMA EnteredOrderly ==
    ASSUME NEW c, NEW n, Orderly(c, n), OwnPagesApart(c, n),
           NEW name, name \notin DOMAIN c.tables, NEW info,
           TableOrderly(info, c.next_table_id + 1, n + 2),
           info.table_id = c.next_table_id + 1, info.pages = <<n + 1, n + 2>>,
           \A k \in info.foreign_keys :
               /\ k.referenced_table_id \in 1 .. c.next_table_id
               /\ \A m \in DOMAIN c.tables : Resolves(k, c.tables[m])
    PROVE  /\ Orderly(With(Numbered(c), name, info), n + 2)
           /\ OwnPagesApart(With(Numbered(c), name, info), n + 2)
<1> DEFINE d == Numbered(c)
           e == With(d, name, info)
<1>1. n \in Nat /\ c.next_table_id \in Nat /\ n + 2 \in Nat /\ n <= n + 2
  BY DEF Orderly
<1>2. /\ Orderly(d, n + 2) /\ d.next_table_id = c.next_table_id + 1
      /\ d.tables = c.tables /\ OwnPages(d) = OwnPages(c)
  BY <1>1, NumberedOrderly
<1> HIDE DEF d
<1>3. /\ e.next_table_id = d.next_table_id
      /\ e.tables = [m \in DOMAIN c.tables \cup {name} |-> IF m = name THEN info ELSE c.tables[m]]
      /\ OwnPages(e) = OwnPages(c)
      /\ e = [tables |-> e.tables, next_table_id |-> e.next_table_id,
              catalog_first_page_id |-> e.catalog_first_page_id,
              catalog_last_page_id |-> e.catalog_last_page_id]
  BY <1>2 DEF With, Orderly, OwnPages
<1>4. /\ DOMAIN e.tables = DOMAIN c.tables \cup {name}
      /\ e.tables[name] = info
      /\ \A m \in DOMAIN c.tables : e.tables[m] = c.tables[m]
      /\ e.tables = [m \in DOMAIN e.tables |-> e.tables[m]]
  BY <1>3
<1> HIDE DEF e
<1>5. \A m \in DOMAIN e.tables : TableOrderly(e.tables[m], e.next_table_id, n + 2)
  BY <1>2, <1>3, <1>4 DEF Orderly
<1>6. \A m \in DOMAIN c.tables :
         /\ c.tables[m].table_id \in 1 .. c.next_table_id
         /\ Range(c.tables[m].pages) \subseteq 1 .. n
         /\ \A k \in c.tables[m].foreign_keys : k.referenced_table_id \in 1 .. c.next_table_id
  BY <1>1, PagesInFile DEF Orderly, TableOrderly
<1>7. Range(info.pages) = {n + 1, n + 2}
  BY <1>1, NewChain
<1>8. TablesApart(e)
  <2> SUFFICES ASSUME NEW l \in DOMAIN e.tables, NEW m \in DOMAIN e.tables, l # m
               PROVE  /\ e.tables[l].table_id # e.tables[m].table_id
                      /\ Range(e.tables[l].pages) \cap Range(e.tables[m].pages) = {}
    BY DEF TablesApart
  <2>1. CASE l = name
    BY <2>1, <1>1, <1>4, <1>6, <1>7
  <2>2. CASE m = name
    BY <2>2, <1>1, <1>4, <1>6, <1>7
  <2>3. CASE l # name /\ m # name
    BY <2>3, <1>4 DEF Orderly, TablesApart
  <2> QED BY <2>1, <2>2, <2>3
<1>9. KeysResolve(e)
  <2> SUFFICES ASSUME NEW l \in DOMAIN e.tables, NEW m \in DOMAIN e.tables,
                      NEW k \in e.tables[l].foreign_keys
               PROVE  Resolves(k, e.tables[m])
    BY DEF KeysResolve
  <2>1. k.referenced_table_id \in 1 .. c.next_table_id
    BY <1>4, <1>6
  <2>2. CASE m = name
    BY <2>1, <2>2, <1>1, <1>4 DEF Resolves
  <2>3. CASE m # name
    BY <2>3, <1>4 DEF Orderly, KeysResolve
  <2> QED BY <2>2, <2>3
<1>10. Orderly(e, n + 2)
  BY <1>1, <1>2, <1>3, <1>4, <1>5, <1>8, <1>9 DEF Orderly
<1>11. OwnPagesApart(e, n + 2)
  BY <1>1, <1>3, <1>4, <1>7 DEF OwnPagesApart
<1> QED BY <1>10, <1>11 DEF e, d
\* The TableInfo that CreateTable enters, when every constraint resolves.
LEMMA InfoOrderly ==
    ASSUME NEW c, NEW n, Orderly(c, n), NEW schema, DOMAIN schema \subseteq Nat,
           NEW ks, \A i \in DOMAIN ks : ~ConstraintThrows(c, ks[i], schema),
           NEW info, info = Info(c, c.next_table_id + 1, schema, <<n + 1, n + 2>>, ks)
    PROVE  /\ TableOrderly(info, c.next_table_id + 1, n + 2)
           /\ info.table_id = c.next_table_id + 1 /\ info.pages = <<n + 1, n + 2>>
           /\ \A k \in info.foreign_keys :
                  /\ k.referenced_table_id \in 1 .. c.next_table_id
                  /\ \A m \in DOMAIN c.tables : Resolves(k, c.tables[m])
<1>1. n \in Nat /\ c.next_table_id \in Nat
  BY DEF Orderly
<1>2. /\ info = [table_id |-> info.table_id, schema |-> info.schema, pages |-> info.pages,
                 primary_key_columns |-> info.primary_key_columns,
                 unique_constraints |-> info.unique_constraints,
                 foreign_keys |-> info.foreign_keys]
      /\ info.table_id = c.next_table_id + 1 /\ info.schema = schema
      /\ info.pages = <<n + 1, n + 2>>
      /\ info.foreign_keys = {ForeignKey(c, ks[i], schema) :
                                i \in {j \in DOMAIN ks : ks[j].type = "FOREIGN_KEY"}}
  BY DEF Info
<1>3. ASSUME NEW k \in info.foreign_keys
      PROVE  /\ k.referenced_table_id \in 1 .. c.next_table_id
             /\ \A m \in DOMAIN c.tables : Resolves(k, c.tables[m])
  <2>1. PICK i \in DOMAIN ks : ks[i].type = "FOREIGN_KEY" /\ k = ForeignKey(c, ks[i], schema)
    BY <1>2
  <2> QED BY <2>1, ForeignKeyResolves
<1>4. /\ info.pages \in Seq(1 .. n + 2) /\ info.pages # <<>> /\ IsInjective(info.pages)
  BY <1>1, <1>2, NewChain
<1>5. TableOrderly(info, c.next_table_id + 1, n + 2)
  <2>1. info.table_id \in 1 .. c.next_table_id + 1
    BY <1>1, <1>2
  <2>2. \A k \in info.foreign_keys : k.referenced_table_id \in 1 .. c.next_table_id + 1
    BY <1>1, <1>3
  <2> QED BY <1>2, <1>4, <2>1, <2>2 DEF TableOrderly
<1> QED BY <1>2, <1>3, <1>5

\* What a call returned is a catalog in order, whose own pages are apart.
ReturnsOrderly(r) == Orderly(r.catalog, r.pages) /\ OwnPagesApart(r.catalog, r.pages)

LEMMA NumberedReturns ==
    ASSUME NEW c, NEW n, Orderly(c, n), OwnPagesApart(c, n)
    PROVE  Orderly(Numbered(c), n + 2) /\ OwnPagesApart(Numbered(c), n + 2)
<1>1. n \in Nat /\ n + 2 \in Nat /\ n <= n + 2
  BY DEF Orderly
<1>2. /\ Orderly(Numbered(c), n + 2)
      /\ Numbered(c).tables = c.tables /\ OwnPages(Numbered(c)) = OwnPages(c)
  BY <1>1, NumberedOrderly
<1>3. {1, 2} \cup OwnPages(c) \subseteq 1 .. n + 2
  BY <1>1 DEF OwnPagesApart
<1> QED BY <1>2, <1>3 DEF OwnPagesApart

LEMMA CreateTableReturns ==
    ASSUME NEW c, NEW n, Orderly(c, n), OwnPagesApart(c, n),
           NEW s, DOMAIN s.columns \subseteq Nat
    PROVE  ReturnsOrderly(CreateTable(c, n, s))
<1> DEFINE schema == ColumnNames(s)
           ks == BoundConstraints(s)
           info == Info(c, c.next_table_id + 1, schema, <<n + 1, n + 2>>, ks)
           throws == \E i \in DOMAIN ks : ConstraintThrows(c, ks[i], schema)
           r == CreateTable(c, n, s)
<1>1. Numbered(c).next_table_id = c.next_table_id + 1
  <2>1. n \in Nat /\ n <= n
    BY DEF Orderly
  <2> QED BY <2>1, NumberedOrderly
<1>2. CASE Has(c, s.table_name)
  <2>1. r.catalog = c /\ r.pages = n
    BY <1>2 DEF CreateTable, Result
  <2> QED BY <2>1 DEF ReturnsOrderly
<1>3. CASE ~Has(c, s.table_name) /\ throws
  <2>1. r.catalog = Numbered(c) /\ r.pages = n + 2
    BY <1>3 DEF CreateTable, Result
  <2> QED BY <2>1, NumberedReturns DEF ReturnsOrderly
<1>4. CASE ~Has(c, s.table_name) /\ ~throws
  <2>1. r.catalog = With(Numbered(c), s.table_name, info) /\ r.pages = n + 2
    BY <1>1, <1>4 DEF CreateTable, Result
  <2>2. DOMAIN schema \subseteq Nat
    BY DEF ColumnNames
  <2>3. \A i \in DOMAIN ks : ~ConstraintThrows(c, ks[i], schema)
    BY <1>4
  <2>4. s.table_name \notin DOMAIN c.tables
    BY <1>4 DEF Has
  <2> HIDE DEF schema, ks
  <2>5. /\ TableOrderly(info, c.next_table_id + 1, n + 2)
        /\ info.table_id = c.next_table_id + 1 /\ info.pages = <<n + 1, n + 2>>
        /\ \A k \in info.foreign_keys :
               /\ k.referenced_table_id \in 1 .. c.next_table_id
               /\ \A m \in DOMAIN c.tables : Resolves(k, c.tables[m])
    BY <2>2, <2>3, InfoOrderly
  <2> HIDE DEF info
  <2> QED BY <2>1, <2>4, <2>5, EnteredOrderly DEF ReturnsOrderly
<1> QED BY <1>2, <1>3, <1>4

LEMMA CreatePlainReturns ==
    ASSUME NEW c, NEW n, Orderly(c, n), OwnPagesApart(c, n),
           NEW name, NEW schema, DOMAIN schema \subseteq Nat
    PROVE  ReturnsOrderly(CreatePlain(c, n, name, schema))
<1> DEFINE info == Info(c, c.next_table_id + 1, schema, <<n + 1, n + 2>>, <<>>)
           r == CreatePlain(c, n, name, schema)
<1>1. Numbered(c).next_table_id = c.next_table_id + 1
  <2>1. n \in Nat /\ n <= n
    BY DEF Orderly
  <2> QED BY <2>1, NumberedOrderly
<1>2. CASE Has(c, name)
  <2>1. r.catalog = c /\ r.pages = n
    BY <1>2 DEF CreatePlain, Result
  <2> QED BY <2>1 DEF ReturnsOrderly
<1>3. CASE ~Has(c, name)
  <2>1. r.catalog = With(Numbered(c), name, info) /\ r.pages = n + 2
    BY <1>1, <1>3 DEF CreatePlain, Result
  <2>2. name \notin DOMAIN c.tables
    BY <1>3 DEF Has
  <2>3. /\ TableOrderly(info, c.next_table_id + 1, n + 2)
        /\ info.table_id = c.next_table_id + 1 /\ info.pages = <<n + 1, n + 2>>
        /\ \A k \in info.foreign_keys :
               /\ k.referenced_table_id \in 1 .. c.next_table_id
               /\ \A m \in DOMAIN c.tables : Resolves(k, c.tables[m])
    <3> DEFINE none == <<>>
    <3>1. \A i \in DOMAIN none : ~ConstraintThrows(c, none[i], schema)
      OBVIOUS
    <3> HIDE DEF none
    <3>2. info = Info(c, c.next_table_id + 1, schema, <<n + 1, n + 2>>, none)
      BY DEF none
    <3> QED BY <3>1, <3>2, InfoOrderly
  <2> HIDE DEF info
  <2> QED BY <2>1, <2>2, <2>3, EnteredOrderly DEF ReturnsOrderly
<1> QED BY <1>2, <1>3

LEMMA DropTableReturns ==
    ASSUME NEW c, NEW n, Orderly(c, n), OwnPagesApart(c, n), NEW name
    PROVE  ReturnsOrderly(DropTable(c, n, name))
<1> DEFINE r == DropTable(c, n, name)
           d == [c EXCEPT !.tables = Restrict(@, DOMAIN @ \ {name})]
<1>1. CASE ~Has(c, name)
  <2>1. r.catalog = c /\ r.pages = n
    BY <1>1 DEF DropTable, Result
  <2> QED BY <2>1 DEF ReturnsOrderly
<1>2. CASE Has(c, name)
  <2>1. r.catalog = d /\ r.pages = n
    BY <1>2 DEF DropTable, Result
  <2>2. /\ d.next_table_id = c.next_table_id
        /\ OwnPages(d) = OwnPages(c)
        /\ d = [tables |-> d.tables, next_table_id |-> d.next_table_id,
                catalog_first_page_id |-> d.catalog_first_page_id,
                catalog_last_page_id |-> d.catalog_last_page_id]
        /\ d.tables = [m \in DOMAIN c.tables \ {name} |-> c.tables[m]]
    BY DEF Orderly, OwnPages, Restrict
  <2>3. /\ DOMAIN d.tables \subseteq DOMAIN c.tables
        /\ \A m \in DOMAIN d.tables : d.tables[m] = c.tables[m]
        /\ d.tables = [m \in DOMAIN d.tables |-> d.tables[m]]
    BY <2>2
  <2> HIDE DEF d
  <2>4. TablesApart(d)
    BY <2>3 DEF Orderly, TablesApart
  <2>5. KeysResolve(d)
    BY <2>3 DEF Orderly, KeysResolve
  <2>6. \A m \in DOMAIN d.tables : TableOrderly(d.tables[m], d.next_table_id, n)
    BY <2>2, <2>3 DEF Orderly
  <2>7. Orderly(d, n)
    BY <2>2, <2>3, <2>4, <2>5, <2>6 DEF Orderly
  <2>8. OwnPagesApart(d, n)
    BY <2>2, <2>3 DEF OwnPagesApart
  <2> QED BY <2>1, <2>7, <2>8 DEF ReturnsOrderly
<1> QED BY <1>1, <1>2

\* The fields of a catalog with other tables, and of a table with other pages.
LEMMA OtherTables ==
    ASSUME NEW c, NEW n, Orderly(c, n), NEW T, NEW d, d = [c EXCEPT !.tables = T]
    PROVE  /\ d.tables = T /\ d.next_table_id = c.next_table_id
           /\ OwnPages(d) = OwnPages(c)
           /\ d = [tables |-> d.tables, next_table_id |-> d.next_table_id,
                   catalog_first_page_id |-> d.catalog_first_page_id,
                   catalog_last_page_id |-> d.catalog_last_page_id]
BY DEF Orderly, OwnPages

WithPages(t, p) == [t EXCEPT !.pages = p]

LEMMA OtherPages ==
    ASSUME NEW t, NEW last, NEW n, TableOrderly(t, last, n), NEW p
    PROVE  LET u == WithPages(t, p) IN
           /\ u.table_id = t.table_id /\ u.schema = t.schema
           /\ u.foreign_keys = t.foreign_keys /\ u.pages = p
           /\ u = [table_id |-> u.table_id, schema |-> u.schema, pages |-> u.pages,
                   primary_key_columns |-> u.primary_key_columns,
                   unique_constraints |-> u.unique_constraints, foreign_keys |-> u.foreign_keys]
BY DEF TableOrderly, WithPages

\* A heap that grows takes the next page, which nobody had.
LEMMA ExtendReturns ==
    ASSUME NEW c, NEW n, Orderly(c, n), OwnPagesApart(c, n), NEW name \in DOMAIN c.tables
    PROVE  LET d == [c EXCEPT !.tables[name].pages = Append(@, n + 1)]
           IN  Orderly(d, n + 1) /\ OwnPagesApart(d, n + 1)
<1> DEFINE d == [c EXCEPT !.tables[name].pages = Append(@, n + 1)]
           t == c.tables[name]
           u == WithPages(t, Append(t.pages, n + 1))
<1>1. n \in Nat /\ n + 1 \in Nat /\ n < n + 1 /\ c.next_table_id \in Nat
  BY DEF Orderly
<1>2. /\ d.next_table_id = c.next_table_id
      /\ OwnPages(d) = OwnPages(c)
      /\ d = [tables |-> d.tables, next_table_id |-> d.next_table_id,
              catalog_first_page_id |-> d.catalog_first_page_id,
              catalog_last_page_id |-> d.catalog_last_page_id]
      /\ d.tables = [c.tables EXCEPT ![name] = u]
  <2>1. d = [c EXCEPT !.tables = [c.tables EXCEPT ![name] = u]]
    BY DEF WithPages
  <2> HIDE DEF d, u
  <2> QED BY <2>1, OtherTables
<1>3. /\ DOMAIN d.tables = DOMAIN c.tables
      /\ d.tables[name] = u
      /\ \A m \in DOMAIN c.tables : m # name => d.tables[m] = c.tables[m]
      /\ d.tables = [m \in DOMAIN d.tables |-> d.tables[m]]
  <2> HIDE DEF d, u
  <2>1. PICK T, U : T = c.tables /\ U = d.tables
    OBVIOUS
  <2>2. T = [m \in DOMAIN T |-> T[m]] /\ name \in DOMAIN T
    BY <2>1 DEF Orderly
  <2>3. U = [T EXCEPT ![name] = u]
    BY <1>2, <2>1
  <2>4. /\ DOMAIN U = DOMAIN T /\ U[name] = u
        /\ \A m \in DOMAIN T : m # name => U[m] = T[m]
        /\ U = [m \in DOMAIN U |-> U[m]]
    BY <2>2, <2>3
  <2> QED BY <2>1, <2>4, Zenon
<1> HIDE DEF d
<1>4. TableOrderly(t, c.next_table_id, n)
  BY DEF Orderly
<1>5. /\ u.table_id = t.table_id /\ u.schema = t.schema /\ u.foreign_keys = t.foreign_keys
      /\ u.pages = Append(t.pages, n + 1)
      /\ u = [table_id |-> u.table_id, schema |-> u.schema, pages |-> u.pages,
              primary_key_columns |-> u.primary_key_columns,
              unique_constraints |-> u.unique_constraints, foreign_keys |-> u.foreign_keys]
  <2>1. PICK p : p = Append(t.pages, n + 1)
    OBVIOUS
  <2>2. PICK v : v = WithPages(t, p)
    OBVIOUS
  <2> HIDE DEF t
  <2>3. /\ v.table_id = t.table_id /\ v.schema = t.schema
        /\ v.foreign_keys = t.foreign_keys /\ v.pages = p
        /\ v = [table_id |-> v.table_id, schema |-> v.schema, pages |-> v.pages,
                primary_key_columns |-> v.primary_key_columns,
                unique_constraints |-> v.unique_constraints,
                foreign_keys |-> v.foreign_keys]
    BY <1>4, <2>2, OtherPages
  <2>4. v = u
    BY <2>1, <2>2, Zenon
  <2> HIDE DEF u
  <2> QED BY <2>1, <2>3, <2>4
<1>6. t.pages \in Seq(1 .. n) /\ t.pages # <<>> /\ IsInjective(t.pages)
  BY <1>4 DEF TableOrderly
<1>7. /\ u.pages \in Seq(1 .. n + 1) /\ u.pages # <<>> /\ IsInjective(u.pages)
      /\ Head(u.pages) = Head(t.pages) /\ Range(u.pages) = Range(t.pages) \cup {n + 1}
  <2> DEFINE q == t.pages
             e == Append(q, n + 1)
  <2> HIDE DEF q, t, u
  <2>1. q \in Seq(1 .. n) /\ q # <<>> /\ IsInjective(q)
    BY <1>6 DEF q
  <2>2. /\ e \in Seq(1 .. n + 1) /\ e # <<>> /\ IsInjective(e)
        /\ Head(e) = Head(q) /\ Range(e) = Range(q) \cup {n + 1}
    BY <2>1, <1>1, AppendPage
  <2>3. u.pages = e
    BY <1>5 DEF q
  <2> HIDE DEF e
  <2> QED BY <2>2, <2>3 DEF q
<1>8. TableOrderly(u, c.next_table_id, n + 1)
  BY <1>4, <1>5, <1>7 DEF TableOrderly
<1> HIDE DEF u
<1>9. ASSUME NEW m \in DOMAIN d.tables
      PROVE  /\ TableOrderly(d.tables[m], d.next_table_id, n + 1)
             /\ d.tables[m].table_id = c.tables[m].table_id
             /\ d.tables[m].schema = c.tables[m].schema
             /\ d.tables[m].foreign_keys = c.tables[m].foreign_keys
             /\ Head(d.tables[m].pages) = Head(c.tables[m].pages)
             /\ m # name => Range(d.tables[m].pages) = Range(c.tables[m].pages)
             /\ Range(c.tables[m].pages) \subseteq 1 .. n
  <2>1. TableOrderly(c.tables[m], c.next_table_id, n)
    BY <1>3 DEF Orderly
  <2>2. c.tables[m].pages \in Seq(1 .. n)
    BY <2>1 DEF TableOrderly
  <2>3. Range(c.tables[m].pages) \subseteq 1 .. n
    BY <1>1, <2>2, PagesInFile
  <2>4. CASE m = name
    BY <2>3, <2>4, <1>2, <1>3, <1>5, <1>7, <1>8
  <2>5. CASE m # name
    <3>1. d.tables[m] = c.tables[m]
      BY <2>5, <1>3
    <3>2. c.tables[m].pages \in Seq(1 .. n + 1)
      BY <1>1, <2>2, LargerFile
    <3>3. TableOrderly(c.tables[m], c.next_table_id, n + 1)
      BY <2>1, <3>2 DEF TableOrderly
    <3> QED BY <3>1, <3>3, <2>3, <1>2
  <2> QED BY <2>4, <2>5
<1>10. TablesApart(d)
  <2> SUFFICES ASSUME NEW l \in DOMAIN d.tables, NEW m \in DOMAIN d.tables, l # m
               PROVE  /\ d.tables[l].table_id # d.tables[m].table_id
                      /\ Range(d.tables[l].pages) \cap Range(d.tables[m].pages) = {}
    BY DEF TablesApart
  <2>1. d.tables[l].table_id # d.tables[m].table_id
    BY <1>3, <1>9 DEF Orderly, TablesApart
  <2>2. Range(c.tables[l].pages) \cap Range(c.tables[m].pages) = {}
    BY <1>3 DEF Orderly, TablesApart
  <2>3. n + 1 \notin 1 .. n
    BY <1>1
  <2>4. Range(d.tables[name].pages) = Range(c.tables[name].pages) \cup {n + 1}
    BY <1>3, <1>7
  <2>5. \A k \in DOMAIN d.tables :
           /\ n + 1 \notin Range(c.tables[k].pages)
           /\ k # name => Range(d.tables[k].pages) = Range(c.tables[k].pages)
    BY <2>3, <1>9
  <2>6. Range(d.tables[l].pages) \cap Range(d.tables[m].pages) = {}
    <3>1. CASE l = name
      BY <2>2, <2>4, <2>5, <3>1
    <3>2. CASE m = name
      BY <2>2, <2>4, <2>5, <3>2
    <3>3. CASE l # name /\ m # name
      BY <2>2, <2>5, <3>3
    <3> QED BY <3>1, <3>2, <3>3
  <2> QED BY <2>1, <2>6
<1>11. KeysResolve(d)
  BY <1>3, <1>9 DEF Orderly, KeysResolve, Resolves
<1>12. Orderly(d, n + 1)
  BY <1>1, <1>2, <1>3, <1>9, <1>10, <1>11 DEF Orderly
<1>13. OwnPagesApart(d, n + 1)
  <2>1. {1, 2} \cup OwnPages(c) \subseteq 1 .. n
    BY DEF OwnPagesApart
  <2>2. {1, 2} \cup OwnPages(d) \subseteq 1 .. n + 1
    BY <1>1, <1>2, <2>1
  <2>3. ASSUME NEW m \in DOMAIN d.tables
        PROVE  Range(d.tables[m].pages) \cap OwnPages(d) = {}
    <3>1. Range(c.tables[m].pages) \cap OwnPages(c) = {} /\ n + 1 \notin OwnPages(c)
      BY <1>1, <1>3, <2>1 DEF OwnPagesApart
    <3>2. Range(d.tables[m].pages) \subseteq Range(c.tables[m].pages) \cup {n + 1}
      BY <1>3, <1>7, <1>9
    <3> QED BY <1>2, <3>1, <3>2
  <2> QED BY <2>2, <2>3 DEF OwnPagesApart
<1> QED BY <1>12, <1>13 DEF d

LEMMA NewCatalogOrderly ==
    ASSUME NEW n \in Nat
    PROVE  Orderly(NewCatalog(n + 1), n + 2) /\ OwnPagesApart(NewCatalog(n + 1), n + 2)
<1> DEFINE c == NewCatalog(n + 1)
<1>1. /\ DOMAIN c.tables = {} /\ c.next_table_id = 0 /\ OwnPages(c) = {n + 1, n + 2}
      /\ c.tables = [m \in DOMAIN c.tables |-> c.tables[m]]
      /\ c = [tables |-> c.tables, next_table_id |-> c.next_table_id,
              catalog_first_page_id |-> c.catalog_first_page_id,
              catalog_last_page_id |-> c.catalog_last_page_id]
  BY DEF NewCatalog, OwnPages
<1> HIDE DEF c
<1>2. TablesApart(c) /\ KeysResolve(c)
  BY <1>1 DEF TablesApart, KeysResolve
<1>3. Orderly(c, n + 2)
  BY <1>1, <1>2 DEF Orderly
<1>4. OwnPagesApart(c, n + 2)
  BY <1>1 DEF OwnPagesApart
<1> QED BY <1>3, <1>4 DEF c

\* What load_catalog leaves of a catalog.
Empty(c, first, last) ==
    [c EXCEPT !.tables = [m \in {} |-> 0],
              !.catalog_first_page_id = first, !.catalog_last_page_id = last]

LEMMA Emptied ==
    ASSUME NEW c, NEW n, Orderly(c, n), NEW first, NEW last
    PROVE  LET d == Empty(c, first, last) IN
           /\ DOMAIN d.tables = {} /\ d.next_table_id = c.next_table_id
           /\ d.tables = [m \in DOMAIN d.tables |-> d.tables[m]]
           /\ d = [tables |-> d.tables, next_table_id |-> d.next_table_id,
                   catalog_first_page_id |-> d.catalog_first_page_id,
                   catalog_last_page_id |-> d.catalog_last_page_id]
<1> DEFINE none == [m \in {} |-> 0]
           d == Empty(c, first, last)
<1>1. DOMAIN none = {} /\ none = [m \in DOMAIN none |-> none[m]]
  OBVIOUS
<1>2. d = [c EXCEPT !.tables = none,
                    !.catalog_first_page_id = first, !.catalog_last_page_id = last]
  BY DEF Empty
<1> HIDE DEF none, d
<1>3. d.tables = none /\ d.next_table_id = c.next_table_id
  BY <1>2 DEF Orderly
<1>4. d = [tables |-> d.tables, next_table_id |-> d.next_table_id,
           catalog_first_page_id |-> d.catalog_first_page_id,
           catalog_last_page_id |-> d.catalog_last_page_id]
  BY <1>2 DEF Orderly
<1> QED BY <1>1, <1>3, <1>4 DEF d

-----------------------------------------------------------------------------
(* The invariant and what follows from it. *)

LEMMA BecomesKeeps ==
    ASSUME IInv, ~Stopped, NEW r, ReturnsOrderly(r), Becomes(r)
    PROVE  IInv'
BY DEF IInv, Becomes, ReturnsOrderly

LEMMA InvariantInit == Init => IInv
<1> SUFFICES ASSUME Init PROVE IInv
  OBVIOUS
<1>1. Orderly(NewCatalog(0 + 1), 0 + 2) /\ OwnPagesApart(NewCatalog(0 + 1), 0 + 2)
  BY NewCatalogOrderly
<1>2. Orderly(catalog, pages) /\ OwnPagesApart(catalog, pages)
  BY <1>1 DEF Init
<1> QED BY <1>2 DEF Init, IInv

LEMMA InvariantStep == IInv /\ [Next]_vars => IInv'
<1> SUFFICES ASSUME IInv, [Next]_vars PROVE IInv'
  OBVIOUS
<1>1. Orderly(catalog, pages) /\ pages \in Nat
  BY DEF IInv, Orderly
<1>2. ASSUME ~Stopped PROVE OwnPagesApart(catalog, pages)
  BY <1>2 DEF IInv
<1>3. ASSUME NEW s \in Statements, CreateStatement(s) PROVE IInv'
  <2> DEFINE r == IF BindThrows(catalog, s) THEN Result(catalog, pages, "throws")
                  ELSE CreateTable(catalog, pages, s)
  <2>1. ~Stopped /\ Becomes(r)
    BY <1>3 DEF CreateStatement
  <2>2. ReturnsOrderly(Result(catalog, pages, "throws"))
    BY <1>1, <1>2, <2>1 DEF ReturnsOrderly, Result
  <2>3. ReturnsOrderly(CreateTable(catalog, pages, s))
    BY <1>1, <1>2, <2>1, CreateTableReturns, CatalogConstants
  <2>4. ReturnsOrderly(r)
    BY <2>2, <2>3
  <2> HIDE DEF r
  <2> QED BY <2>1, <2>4, BecomesKeeps
<1>4. ASSUME NEW name \in Names, NEW schema \in Schemas, CreatePlainTable(name, schema)
      PROVE  IInv'
  <2>1. DOMAIN schema \subseteq Nat
    BY CatalogConstants DEF Schemas, ColumnNames
  <2>2. ~Stopped /\ Becomes(CreatePlain(catalog, pages, name, schema))
    BY <1>4 DEF CreatePlainTable
  <2>3. ReturnsOrderly(CreatePlain(catalog, pages, name, schema))
    BY <1>1, <1>2, <2>1, <2>2, CreatePlainReturns
  <2> QED BY <2>2, <2>3, BecomesKeeps
<1>5. ASSUME NEW name \in Names, Drop(name) PROVE IInv'
  <2>1. ~Stopped /\ Becomes(DropTable(catalog, pages, name))
    BY <1>5 DEF Drop
  <2>2. ReturnsOrderly(DropTable(catalog, pages, name))
    BY <1>1, <1>2, <2>1, DropTableReturns
  <2> QED BY <2>1, <2>2, BecomesKeeps
<1>6. ASSUME NEW name \in Names, Extend(name) PROVE IInv'
  <2> DEFINE d == [catalog EXCEPT !.tables[name].pages = Append(@, pages + 1)]
             r == Result(d, pages + 1, "ok")
  <2>1. ~Stopped /\ name \in DOMAIN catalog.tables /\ Becomes(r)
    BY <1>6 DEF Extend, Has
  <2>2. Orderly(d, pages + 1) /\ OwnPagesApart(d, pages + 1)
    BY <1>1, <1>2, <2>1, ExtendReturns
  <2> HIDE DEF d
  <2>3. ReturnsOrderly(r)
    BY <2>2 DEF ReturnsOrderly, Result
  <2> HIDE DEF r
  <2> QED BY <2>1, <2>3, BecomesKeeps
<1>7. CASE SaveCatalog
  <2>1. /\ ~Stopped /\ catalog' = catalog /\ pages' = pages
        /\ saved' = saved \/ saved'.last = catalog.catalog_last_page_id
    BY <1>7 DEF SaveCatalog
  <2>2. catalog.catalog_last_page_id # 0
    BY <1>1, <1>2, <2>1 DEF OwnPagesApart, OwnPages
  <2> QED BY <1>1, <1>2, <2>1, <2>2 DEF IInv
<1>8. CASE LoadCatalog
  <2>1. /\ ~Stopped /\ saved' = saved /\ pages' = pages
        /\ saved # Unsaved => outcome' = "misread"
    BY <1>8 DEF LoadCatalog, IInv
  <2>2. saved # Unsaved => Stopped'
    BY <2>1 DEF Stopped
  <2> DEFINE d == Empty(catalog, saved.next_table_id, saved.first)
  <2>3. catalog' = d
    BY <1>8 DEF LoadCatalog, Empty
  <2>10. /\ d.catalog_first_page_id = saved.next_table_id
         /\ d.catalog_last_page_id = saved.first
    BY <1>1 DEF Empty, Orderly
  <2>4. /\ DOMAIN d.tables = {} /\ d.next_table_id = catalog.next_table_id
        /\ d.tables = [m \in DOMAIN d.tables |-> d.tables[m]]
        /\ d = [tables |-> d.tables, next_table_id |-> d.next_table_id,
                catalog_first_page_id |-> d.catalog_first_page_id,
                catalog_last_page_id |-> d.catalog_last_page_id]
    BY <1>1, Emptied
  <2> HIDE DEF d
  <2>5. TablesApart(d) /\ KeysResolve(d)
    BY <2>4 DEF TablesApart, KeysResolve
  <2>6. Orderly(d, pages)
    BY <1>1, <2>4, <2>5 DEF Orderly
  <2>7. saved = Unsaved => OwnPages(d) = {1, 2}
    BY <2>10 DEF OwnPages, Unsaved
  <2>8. saved = Unsaved => OwnPagesApart(d, pages)
    BY <1>2, <2>1, <2>4, <2>7 DEF OwnPagesApart
  <2> QED BY <2>1, <2>2, <2>3, <2>6, <2>8 DEF IInv
<1>9. CASE Restart
  <2>1. /\ catalog' = NewCatalog(pages + 1) /\ pages' = pages + 2 /\ saved' = saved
    BY <1>9 DEF Restart
  <2>2. Orderly(NewCatalog(pages + 1), pages + 2)
        /\ OwnPagesApart(NewCatalog(pages + 1), pages + 2)
    BY <1>1, NewCatalogOrderly
  <2> QED BY <2>1, <2>2 DEF IInv
<1>10. CASE UNCHANGED vars
  BY <1>10 DEF vars, IInv, Stopped
<1> QED BY <1>3, <1>4, <1>5, <1>6, <1>7, <1>8, <1>9, <1>10 DEF Next

\* IInv is an invariant of the catalog, for every set of statements.
THEOREM InvariantHolds == Spec => []IInv
BY InvariantInit, InvariantStep, PTL DEF Spec

\* No page belongs to two tables, or to a table and the catalog: see PagesApart.
THEOREM PagesStayApart == Spec => []PagesApart
<1>1. ASSUME IInv, ~Stopped, NEW m \in DOMAIN catalog.tables
      PROVE  IsInjective(catalog.tables[m].pages)
             /\ Range(catalog.tables[m].pages) \cap CatalogPages = {}
  BY <1>1 DEF IInv, Orderly, TableOrderly, OwnPagesApart, OwnPages, CatalogPages
<1>2. ASSUME IInv, ~Stopped
      PROVE  \A m, n \in DOMAIN catalog.tables :
               m # n => Range(catalog.tables[m].pages) \cap Range(catalog.tables[n].pages) = {}
  BY <1>2 DEF IInv, Orderly, TablesApart
<1>3. ASSUME IInv, ~Stopped
      PROVE  \A t \in Tables : IsInjective(t.pages) /\ Range(t.pages) \cap CatalogPages = {}
  <2> SUFFICES ASSUME NEW t \in Tables
               PROVE  IsInjective(t.pages) /\ Range(t.pages) \cap CatalogPages = {}
    OBVIOUS
  <2>1. PICK m \in DOMAIN catalog.tables : t = catalog.tables[m]
    BY DEF Tables, Range
  <2> QED BY <2>1, <1>1, <1>3
<1>4. IInv => PagesApart
  BY <1>2, <1>3 DEF PagesApart
<1> QED BY <1>4, InvariantHolds, PTL

\* A foreign key leads to the table it was declared for, or to none: see
\* ReferencesResolve.
THEOREM ReferencesStayResolved == Spec => []ReferencesResolve
<1>1. IInv => ReferencesResolve
  BY DEF IInv, Orderly, KeysResolve, Resolves, ReferencesResolve, Tables, Range
<1> QED BY <1>1, InvariantHolds, PTL
-----------------------------------------------------------------------------
(* What a statement adds. *)

\* A call on catalog c over n pages that returned r failed and changed no table,
\* or added one, or took some away.
AllOrNothing(r, c, n) ==
    LET T == r.catalog.tables IN
    /\ r.outcome = "throws" => T = c.tables
    /\ DOMAIN T \subseteq DOMAIN c.tables
       \/ \E m \in DOMAIN T : Restrict(T, DOMAIN T \ {m}) = c.tables /\ r.pages = n + 2

LEMMA EnteredAlone ==
    ASSUME NEW c, NEW n, Orderly(c, n), NEW name, name \notin DOMAIN c.tables, NEW info
    PROVE  LET T == With(Numbered(c), name, info).tables
           IN  name \in DOMAIN T /\ Restrict(T, DOMAIN T \ {name}) = c.tables
<1> DEFINE d == Numbered(c)
           T == With(d, name, info).tables
<1>1. n \in Nat /\ n <= n
  BY DEF Orderly
<1>2. Orderly(d, n) /\ d.tables = c.tables
  BY <1>1, NumberedOrderly
<1> HIDE DEF d
<1>3. T = [m \in DOMAIN c.tables \cup {name} |-> IF m = name THEN info ELSE c.tables[m]]
  BY <1>2 DEF With, Orderly
<1> HIDE DEF T
<1>4. DOMAIN T \ {name} = DOMAIN c.tables /\ \A m \in DOMAIN c.tables : T[m] = c.tables[m]
  BY <1>3
<1>5. Restrict(T, DOMAIN T \ {name}) = c.tables
  BY <1>4 DEF Restrict, Orderly
<1> QED BY <1>3, <1>5 DEF T, d

LEMMA CreatesAllOrNothing ==
    ASSUME NEW c, NEW n, Orderly(c, n), NEW s
    PROVE  AllOrNothing(CreateTable(c, n, s), c, n)
<1> DEFINE ks == BoundConstraints(s)
           info == Info(c, Numbered(c).next_table_id, ColumnNames(s), <<n + 1, n + 2>>, ks)
           throws == \E i \in DOMAIN ks : ConstraintThrows(c, ks[i], ColumnNames(s))
           r == CreateTable(c, n, s)
<1>1. CASE Has(c, s.table_name)
  BY <1>1 DEF CreateTable, Result, AllOrNothing
<1>2. CASE ~Has(c, s.table_name) /\ throws
  <2>1. n \in Nat /\ n <= n
    BY DEF Orderly
  <2>2. Numbered(c).tables = c.tables
    BY <2>1, NumberedOrderly
  <2>3. r.catalog = Numbered(c)
    BY <1>2 DEF CreateTable, Result
  <2> QED BY <2>2, <2>3 DEF AllOrNothing
<1>3. CASE ~Has(c, s.table_name) /\ ~throws
  <2>1. /\ r.catalog = With(Numbered(c), s.table_name, info)
        /\ r.pages = n + 2 /\ r.outcome = "ok"
    BY <1>3 DEF CreateTable, Result
  <2>2. s.table_name \notin DOMAIN c.tables
    BY <1>3 DEF Has
  <2> HIDE DEF info, r
  <2> DEFINE T == r.catalog.tables
  <2>3. s.table_name \in DOMAIN T /\ Restrict(T, DOMAIN T \ {s.table_name}) = c.tables
    BY <2>1, <2>2, EnteredAlone
  <2>4. AllOrNothing(r, c, n)
    BY <2>1, <2>3 DEF AllOrNothing
  <2> QED BY <2>4 DEF r
<1> QED BY <1>1, <1>2, <1>3

LEMMA PlainAllOrNothing ==
    ASSUME NEW c, NEW n, Orderly(c, n), NEW name, NEW schema
    PROVE  AllOrNothing(CreatePlain(c, n, name, schema), c, n)
<1> DEFINE info == Info(c, Numbered(c).next_table_id, schema, <<n + 1, n + 2>>, <<>>)
           r == CreatePlain(c, n, name, schema)
<1>1. CASE Has(c, name)
  BY <1>1 DEF CreatePlain, Result, AllOrNothing
<1>2. CASE ~Has(c, name)
  <2>1. /\ r.catalog = With(Numbered(c), name, info)
        /\ r.pages = n + 2 /\ r.outcome = "ok"
    BY <1>2 DEF CreatePlain, Result
  <2>2. name \notin DOMAIN c.tables
    BY <1>2 DEF Has
  <2> HIDE DEF info, r
  <2> DEFINE T == r.catalog.tables
  <2>3. name \in DOMAIN T /\ Restrict(T, DOMAIN T \ {name}) = c.tables
    BY <2>1, <2>2, EnteredAlone
  <2>4. AllOrNothing(r, c, n)
    BY <2>1, <2>3 DEF AllOrNothing
  <2> QED BY <2>4 DEF r
<1> QED BY <1>1, <1>2

\* A CREATE TABLE adds its table or nothing, and no other step adds one: see
\* CreateAllOrNothing.
THEOREM CreatesOneOrNone == Spec => CreateAllOrNothing
<1> DEFINE A == /\ outcome' = "throws" => catalog'.tables = catalog.tables
                /\ DOMAIN catalog'.tables \subseteq DOMAIN catalog.tables
                   \/ \E n \in DOMAIN catalog'.tables :
                        /\ Restrict(catalog'.tables, DOMAIN catalog'.tables \ {n})
                             = catalog.tables
                        /\ pages' = pages + 2
<1>1. ASSUME NEW r, Becomes(r), AllOrNothing(r, catalog, pages) PROVE A
  BY <1>1 DEF Becomes, AllOrNothing
<1>2. ASSUME IInv, Next PROVE A
  <2> HIDE DEF A
  <2>1. Orderly(catalog, pages)
    BY <1>2 DEF IInv
  <2>2. ASSUME NEW s \in Statements, CreateStatement(s) PROVE A
    <3>1. AllOrNothing(Result(catalog, pages, "throws"), catalog, pages)
      BY DEF AllOrNothing, Result
    <3>2. AllOrNothing(CreateTable(catalog, pages, s), catalog, pages)
      BY <2>1, CreatesAllOrNothing
    <3> QED BY <2>2, <3>1, <3>2, <1>1 DEF CreateStatement
  <2>3. ASSUME NEW name \in Names, NEW schema \in Schemas, CreatePlainTable(name, schema)
        PROVE  A
    BY <2>1, <2>3, <1>1, PlainAllOrNothing DEF CreatePlainTable
  <2>4. ASSUME NEW name \in Names, Drop(name) PROVE A
    <3>1. AllOrNothing(DropTable(catalog, pages, name), catalog, pages)
      <4> DEFINE r == DropTable(catalog, pages, name)
                 d == [catalog EXCEPT !.tables = Restrict(@, DOMAIN @ \ {name})]
      <4>1. r.outcome # "throws" /\ (r.catalog = catalog \/ r.catalog = d)
        BY DEF DropTable, Result
      <4>2. DOMAIN d.tables \subseteq DOMAIN catalog.tables
        <5>1. d.tables = Restrict(catalog.tables, DOMAIN catalog.tables \ {name})
          BY <2>1, OtherTables
        <5> QED BY <5>1 DEF Restrict
      <4> HIDE DEF r, d
      <4> QED BY <4>1, <4>2 DEF AllOrNothing, r
    <3> QED BY <2>4, <3>1, <1>1 DEF Drop
  <2>5. ASSUME NEW name \in Names, Extend(name) PROVE A
    <3> DEFINE T == [catalog.tables EXCEPT ![name].pages = Append(@, pages + 1)]
               d == [catalog EXCEPT !.tables = T]
               r == Result(d, pages + 1, "ok")
    <3>1. Becomes(r)
      BY <2>5 DEF Extend
    <3>2. d.tables = T /\ DOMAIN T = DOMAIN catalog.tables
      BY <2>1, OtherTables
    <3> HIDE DEF d, T
    <3>3. AllOrNothing(r, catalog, pages)
      BY <3>2 DEF AllOrNothing, Result
    <3> HIDE DEF r
    <3> QED BY <3>1, <3>3, <1>1
  <2>6. CASE SaveCatalog
    BY <2>6 DEF SaveCatalog, A
  <2>7. CASE LoadCatalog
    <3>1. outcome' \in {"ok", "misread"} /\ DOMAIN catalog'.tables = {}
      <4>1. catalog' = Empty(catalog, saved.next_table_id, saved.first)
        BY <2>7 DEF LoadCatalog, Empty
      <4>2. DOMAIN catalog'.tables = {}
        BY <2>1, <4>1, Emptied
      <4> QED BY <2>7, <4>2 DEF LoadCatalog
    <3> QED BY <3>1 DEF A
  <2>8. CASE Restart
    <3>1. outcome' = "ok" /\ DOMAIN catalog'.tables = {}
      BY <2>8 DEF Restart, NewCatalog
    <3> QED BY <3>1 DEF A
  <2> QED BY <1>2, <2>2, <2>3, <2>4, <2>5, <2>6, <2>7, <2>8 DEF Next
<1>3. IInv /\ [Next]_vars => [A]_vars
  BY <1>2
<1> QED BY <1>3, InvariantHolds, PTL DEF Spec, CreateAllOrNothing
=============================================================================
