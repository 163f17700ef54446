---------------------------- MODULE QueryProofs ----------------------------
(***************************************************************************)
(* The operators that join and sort, for every set of key fields, every    *)
(* size of the tables and every number of openings.  The nested loop,      *)
(* index and hash join return the rows of the relational join, no others   *)
(* and none twice; the merge join returns only rows that are made of rows  *)
(* with equal keys; the external sort returns each row of its child once   *)
(* for each opening, in order, for every size of a page.                   *)
(***************************************************************************)
EXTENDS Joins, SortedQueries, FiniteSetTheorems, FunctionTheorems, WellFoundedInduction,
        SequenceTheorems, TLAPS

-----------------------------------------------------------------------------
(* What a query q asks for, stated of q: a row of the join comes from a    *)
(* pair of an outer row and a matching inner row, or of an outer row and   *)
(* 0, where it is padded.                                                  *)

Left(q) == q.type \in {"LEFT", "FULL"}
Right(q) == q.type \in {"RIGHT", "FULL"}

Among(q) == IF q.kind = "indexed" THEN q.indexed ELSE 1 .. Len(q.inner)
Meets(q, o, i) == /\ Comparable(q.outer[o][1], q.inner[i][1])
                  /\ Compare(q.op, q.outer[o][1].value, q.inner[i][1].value)
Met(q, o) == {i \in Among(q) : Meets(q, o, i)}

Pairs(q) == {p \in (1 .. Len(q.outer)) \X (0 .. Len(q.inner)) :
                IF p[2] = 0 THEN Left(q) /\ Met(q, p[1]) = {} ELSE p[2] \in Met(q, p[1])}

RowAt(q, p) == q.outer[p[1]] \o (IF p[2] = 0 THEN Padding ELSE q.inner[p[2]])

-----------------------------------------------------------------------------
(* The pairs whose rows have been returned, by the members y of the join.  *)

\* Nested loop join: everything of an earlier outer row, and of the current one
\* the inner rows that were read - all of it once the inner rows are exhausted.
PassedNested(y) ==
    {p \in Int \X Int :
        \/ p[1] < y.o
        \/ p[1] = y.o /\ (y.has_inner => p[2] \in 1 .. y.i)}

\* Over an index: of the current outer row the matches that were taken.
PassedIndexed(y) ==
    {p \in Int \X Int :
        \/ p[1] < y.o
        \/ p[1] = y.o /\ p[2] \notin ToSet(y.inner_matches)}

\* Hash join: of the current inner row the bucket as far as the index into it.
BucketOf(q, i) == SetToSeq({p \in 1 .. Len(q.outer) : Equal(q.outer[p][1], q.inner[i][1])})
PassedHash(q, y) ==
    {p \in Int \X Int :
        \/ p[2] < y.i
        \/ p[2] = y.i /\ \E k \in 1 .. y.tuple_index : BucketOf(q, y.i)[k] = p[1]}

Passed(q, y) == CASE q.kind = "nested" -> PassedNested(y)
                  [] q.kind = "indexed" -> PassedIndexed(y)
                  [] q.kind = "hash" -> PassedHash(q, y)

\* The end has been reported: of all pairs.
Told(q, y, ph) == IF ph = "done" THEN Pairs(q) ELSE Pairs(q) \cap Passed(q, y)

-----------------------------------------------------------------------------
(* The inductive invariant. *)

\* The counter says whether the current outer row has had a match, until it has
\* been padded; it never asks for padding while there is no current row.
NestedOK(q, y, ph) ==
    /\ y.o \in 0 .. Len(q.outer) /\ y.i \in 0 .. Len(q.inner)
    /\ y.has_inner \in BOOLEAN /\ y.inner_matches_counter \in Int
    /\ y.has_inner => /\ ph = "open" /\ y.o >= 1 /\ y.inner_matches_counter >= 0
                      /\ y.inner_matches_counter = 0 <=> Met(q, y.o) \cap 1 .. y.i = {}
    /\ ~y.has_inner /\ Left(q) => y.inner_matches_counter # 0

\* The matches that are left are matches of the current outer row.
IndexedOK(q, y, ph) ==
    /\ y.o \in 0 .. Len(q.outer)
    /\ y.inner_matches \in Seq(1 .. Len(q.inner)) /\ IsInjective(y.inner_matches)
    /\ y.o = 0 => y.inner_matches = <<>>
    /\ y.o >= 1 => ToSet(y.inner_matches) \subseteq Met(q, y.o)
    /\ ph = "done" => y.inner_matches = <<>>

\* The hash table is the outer table from the first call on.  A join that is
\* open for the first time has returned a row by then, so it is not opened again
\* before it has ended.
HashOK(q, y, rows, ph, re) ==
    /\ y.o \in 0 .. Len(q.outer) /\ y.i \in 0 .. Len(q.inner) /\ y.tuple_index \in Nat
    /\ ~y.is_hash_built => /\ y.o = 0 /\ y.i = 0 /\ y.tuple_index = 0
                           /\ y.hashed = <<>> /\ y.curr_inner = <<>>
                           /\ ph # "done" /\ ~re
    /\ y.is_hash_built => y.hashed = q.outer
    /\ y.i >= 1 => y.is_hash_built /\ y.curr_inner = q.inner[y.i]
    /\ y.i >= 1 => y.tuple_index <= Len(BucketOf(q, y.i))
    /\ y.curr_inner # <<>> => Len(q.inner) >= 1
    /\ y.is_hash_built /\ ph = "open" /\ ~re => y.i >= 1 /\ rows # <<>>

AreMembers(y) ==
    y = [o |-> y.o, i |-> y.i, has_inner |-> y.has_inner,
         inner_matches_counter |-> y.inner_matches_counter,
         inner_matches |-> y.inner_matches, is_hash_built |-> y.is_hash_built,
         hashed |-> y.hashed, curr_inner |-> y.curr_inner, tuple_index |-> y.tuple_index]

MembersOK(q, y, rows, ph, re) ==
    /\ AreMembers(y)
    /\ q.kind = "nested" => NestedOK(q, y, ph)
    /\ q.kind = "indexed" => IndexedOK(q, y, ph)
    /\ q.kind = "hash" => HashOK(q, y, rows, ph, re)

\* Where a join returns nothing else and nothing twice.
Exact(q, re) == ~Right(q) /\ ~(q.kind = "hash" /\ re)

OnlyOf(q, rows, re, told) ==
    Exact(q, re) => /\ \A r \in ToSet(rows) : \E p \in told : r = RowAt(q, p)
                    /\ IsInjective(rows)

Running(ph) == ph \in {"new", "open", "done"}

\* While the join runs, what it has returned is told by its members alone.
JoinOK(q, y, rows, ph, re) ==
    /\ q \in Queries
    /\ ph \in {"new", "open", "done", "aborted", "undefined"} /\ re \in BOOLEAN
    /\ ph = "new" => y = Members
    /\ rows \in Seq(ToSet(rows))
    /\ Running(ph) => /\ MembersOK(q, y, rows, ph, re)
                      /\ \A p \in Told(q, y, ph) : RowAt(q, p) \in ToSet(rows)
                      /\ OnlyOf(q, rows, re, Told(q, y, ph))
    /\ OnlyOf(q, rows, re, Pairs(q))

Telling == JoinOK(query, x, out, phase, reopened)

\* A merge join: what it has returned, and what it has made for later calls, is
\* composed of rows that meet.  Its sorts hold rows of the tables, and while it is
\* open their current rows are there, but for a t2 that was emptied.
Composed(q) == {p[1] \o p[2] : p \in {r \in ToSet(q.outer) \X ToSet(q.inner) :
                                        Equal(r[1][1], r[2][1])}}

MergeShape(q) == [outer : Seq(ToSet(q.outer)), inner : Seq(ToSet(q.inner)), o : Int, i : Int,
                  res_batch : Seq(Composed(q)), left_pointer : Int, right_pointer : Int]

MergeOK(q, y, rows, ph) ==
    /\ q \in MergeQueries
    /\ ph \in {"new", "open", "done", "undefined"}
    /\ rows \in Seq(Composed(q))
    /\ ph = "new" => y = MergeMembers
    /\ ph = "open" => /\ y \in MergeShape(q)
                      /\ y.o \in 1 .. Len(y.outer) /\ y.i \in 1 .. Len(y.inner) + 1

Merging == MergeOK(query, merge, out, phase)

IInv == Telling \/ Merging
-----------------------------------------------------------------------------
(* The operators of the library that the joins use. *)

\* A set of naturals has a least element, which Min chooses.
LEMMA Least ==
    ASSUME NEW S \in SUBSET Nat, S # {}
    PROVE  Min(S) \in S /\ \A y \in S : Min(S) <= y
<1> DEFINE R == {ss \in Nat \X Nat : ss[1] < ss[2]}
<1>1. IsWellFoundedOn(R, Nat)
  BY NatLessThanWellFounded DEF OpToRel
<1>2. PICK m \in S : \A y \in S : ~ (<<y, m>> \in R)
  <2> HIDE DEF R
  <2> QED BY <1>1, WFMin
<1>3. \A y \in S : m <= y
  <2> SUFFICES ASSUME NEW y \in S
               PROVE  m <= y
    OBVIOUS
  <2>1. m \in Nat /\ y \in Nat /\ <<y, m>> \notin R
    BY <1>2
  <2> QED BY <2>1
<1> QED BY <1>3 DEF Min

\* SetToSeq lists each element of a finite set once.
LEMMA Enumerated ==
    ASSUME NEW S, IsFiniteSet(S)
    PROVE  /\ SetToSeq(S) \in Seq(S)
           /\ ToSet(SetToSeq(S)) = S
           /\ IsInjective(SetToSeq(S))
           /\ SetToSeq(S) = <<>> <=> S = {}
<1> DEFINE n == Cardinality(S)
           f == SetToSeq(S)
<1>1. n \in Nat /\ ExistsBijection(1 .. n, S)
  BY FS_CardinalityType
<1>2. PICK g : g \in Bijection(1 .. n, S)
  BY <1>1 DEF ExistsBijection
<1>3. g \in [1 .. n -> S] /\ IsInjective(g)
  BY <1>2 DEF Bijection, Injection, IsInjective
<1>4. f \in [1 .. n -> S] /\ IsInjective(f)
  BY <1>3 DEF SetToSeq
<1>5. f \in Injection(1 .. n, S)
  BY <1>4 DEF Injection, IsInjective
<1>6. IsFiniteSet(1 .. n) /\ Cardinality(1 .. n) = n
  BY <1>1, FS_Interval
<1>7. f \in Surjection(1 .. n, S)
  BY <1>5, <1>6, FS_Injection
<1>8. f \in Seq(S) /\ Len(f) = n /\ DOMAIN f = 1 .. n
  BY <1>1, <1>4
<1>9. ToSet(f) = S
  BY <1>4, <1>7, <1>8 DEF Surjection, ToSet
<1>10. f = <<>> <=> S = {}
  BY <1>8, <1>9, <1>4 DEF ToSet
<1> QED BY <1>4, <1>8, <1>9, <1>10

\* A row more.
LEMMA OneMore ==
    ASSUME NEW s, s \in Seq(ToSet(s)), NEW r
    PROVE  /\ Append(s, r) \in Seq(ToSet(Append(s, r)))
           /\ ToSet(Append(s, r)) = ToSet(s) \cup {r}
           /\ Append(s, r) # <<>>
           /\ IsInjective(s) /\ r \notin ToSet(s) => IsInjective(Append(s, r))
<1> DEFINE S == ToSet(s) \cup {r}
           t == Append(s, r)
<1>1. s \in Seq(S) /\ r \in S /\ Len(s) \in Nat
  OBVIOUS
<1>2. /\ t \in Seq(S) /\ Len(t) = Len(s) + 1 /\ t # <<>>
      /\ DOMAIN t = 1 .. Len(s) + 1 /\ DOMAIN s = 1 .. Len(s)
      /\ \A i \in 1 .. Len(s) : t[i] = s[i]
      /\ t[Len(s) + 1] = r
  BY <1>1
<1> HIDE DEF t
<1>3. ToSet(t) = S
  <2>1. \A i \in 1 .. Len(s) : i \in 1 .. Len(s) + 1
    BY <1>1
  <2>2. Len(s) + 1 \in 1 .. Len(s) + 1
    BY <1>1
  <2>3. \A i \in 1 .. Len(s) + 1 : i \in 1 .. Len(s) \/ i = Len(s) + 1
    BY <1>1
  <2> QED BY <1>2, <2>1, <2>2, <2>3 DEF ToSet
<1>4. IsInjective(s) /\ r \notin ToSet(s) => IsInjective(t)
  <2>1. \A i \in 1 .. Len(s) + 1 : i \in 1 .. Len(s) \/ i = Len(s) + 1
    BY <1>1
  <2> QED BY <1>2, <2>1 DEF IsInjective, ToSet
<1> QED BY <1>2, <1>3, <1>4 DEF t

-----------------------------------------------------------------------------
(* Queries. *)

\* A table: each row is a field and the number of the row.
IsTable(t, above) ==
    /\ Len(t) \in Nat /\ t \in Seq(ToSet(t)) /\ DOMAIN t = 1 .. Len(t)
    /\ \A i \in 1 .. Len(t) : t[i] = <<t[i][1], IntField(above + i)>>

LEMMA OuterIsTable ==
    ASSUME NEW n \in Nat, NEW k, k \in [1 .. n -> KeyFields]
    PROVE  IsTable(Outer(k), 0)
<1> DEFINE t == Outer(k)
<1>1. k \in Seq(KeyFields) /\ Len(k) = n
  OBVIOUS
<1>2. t = [i \in 1 .. n |-> <<k[i], IntField(i)>>]
  BY <1>1 DEF Outer
<1> HIDE DEF t
<1>3. DOMAIN t = 1 .. n /\ \A i \in 1 .. n : t[i] = <<k[i], IntField(i)>>
  BY <1>2
<1>4. t \in [1 .. n -> ToSet(t)]
  BY <1>2 DEF ToSet
<1>5. t \in Seq(ToSet(t)) /\ Len(t) = n
  BY <1>4
<1>6. \A i \in 1 .. n : i = 0 + i
  OBVIOUS
<1>7. \A i \in 1 .. n : t[i] = <<t[i][1], IntField(0 + i)>>
  BY <1>3, <1>6
<1> QED BY <1>3, <1>5, <1>7 DEF IsTable, t

LEMMA InnerIsTable ==
    ASSUME NEW n \in Nat, NEW k, k \in [1 .. n -> KeyFields]
    PROVE  IsTable(Inner(k), 10) /\ Len(Inner(k)) = Len(k)
<1> DEFINE t == Inner(k)
<1>1. k \in Seq(KeyFields) /\ Len(k) = n
  OBVIOUS
<1>2. t = [i \in 1 .. n |-> <<k[i], IntField(10 + i)>>]
  BY <1>1 DEF Inner
<1> HIDE DEF t
<1>3. DOMAIN t = 1 .. n /\ \A i \in 1 .. n : t[i] = <<k[i], IntField(10 + i)>>
  BY <1>2
<1>4. t \in [1 .. n -> ToSet(t)]
  BY <1>2 DEF ToSet
<1>5. t \in Seq(ToSet(t)) /\ Len(t) = n
  BY <1>4
<1>6. \A i \in 1 .. n : t[i] = <<t[i][1], IntField(10 + i)>>
  BY <1>3
<1> QED BY <1>1, <1>3, <1>5, <1>6 DEF IsTable, t

\* What is known of a query.
QueryOK(q) ==
    /\ q.kind \in {"nested", "indexed", "hash"}
    /\ q.type \in {"INNER", "LEFT", "RIGHT", "FULL"} /\ q.op \in {"EQ", "GT"}
    /\ q.kind # "nested" => q.type = "INNER" /\ q.op = "EQ"
    /\ q.indexed \subseteq 1 .. Len(q.inner)
    /\ IsTable(q.outer, 0) /\ IsTable(q.inner, 10)

LEMMA QueryKnown == ASSUME NEW q \in Queries, JoinConstants PROVE QueryOK(q)
<1> DEFINE outers == UNION {[1 .. n -> KeyFields] : n \in 0 .. MaxOuter}
           inners == UNION {[1 .. n -> KeyFields] : n \in 0 .. MaxInner}
<1>1. \A o \in outers : IsTable(Outer(o), 0)
  <2> TAKE o \in outers
  <2>1. PICK n \in 0 .. MaxOuter : o \in [1 .. n -> KeyFields]
    OBVIOUS
  <2>2. n \in Nat
    BY JoinConstants DEF JoinConstants
  <2> QED BY <2>1, <2>2, OuterIsTable
<1>2. \A i \in inners : IsTable(Inner(i), 10) /\ Len(Inner(i)) = Len(i)
  <2> TAKE i \in inners
  <2>1. PICK n \in 0 .. MaxInner : i \in [1 .. n -> KeyFields]
    OBVIOUS
  <2>2. n \in Nat
    BY JoinConstants DEF JoinConstants
  <2> QED BY <2>1, <2>2, InnerIsTable
<1> HIDE DEF outers, inners
<1>3. \/ \E ty \in {"INNER", "LEFT", "RIGHT", "FULL"}, op \in {"EQ", "GT"}, o \in outers, i \in inners :
             q = [kind |-> "nested", type |-> ty, op |-> op,
                  outer |-> Outer(o), inner |-> Inner(i), indexed |-> {}]
      \/ \E o \in outers, i \in inners :
             q = [kind |-> "hash", type |-> "INNER", op |-> "EQ",
                  outer |-> Outer(o), inner |-> Inner(i), indexed |-> {}]
      \/ \E o \in outers, i \in inners : \E ix \in SUBSET (1 .. Len(i)) :
             q = [kind |-> "indexed", type |-> "INNER", op |-> "EQ",
                  outer |-> Outer(o), inner |-> Inner(i), indexed |-> ix]
  <2> DEFINE Rec(k, ty, op, o, i, ix) == [kind |-> k, type |-> ty, op |-> op,
                                          outer |-> Outer(o), inner |-> Inner(i), indexed |-> ix]
             A == {Rec("nested", ty, op, o, i, {}) :
                      ty \in {"INNER", "LEFT", "RIGHT", "FULL"}, op \in {"EQ", "GT"},
                      o \in outers, i \in inners}
             B == {Rec("hash", "INNER", "EQ", o, i, {}) : o \in outers, i \in inners}
             C == {{Rec("indexed", "INNER", "EQ", o, i, ix) : ix \in SUBSET (1 .. Len(i))} :
                      o \in outers, i \in inners}
  <2>1. Queries = A \cup B \cup UNION C
    BY DEF Queries, outers, inners
  <2>2. q \in A \/ q \in B \/ \E D \in C : q \in D
    <3> HIDE DEF A, B, C
    <3> QED BY <2>1
  <2>3. CASE q \in A
    BY <2>3
  <2>4. CASE q \in B
    BY <2>4
  <2>5. CASE \E D \in C : q \in D
    <3>1. PICK o \in outers, i \in inners :
              q \in {Rec("indexed", "INNER", "EQ", o, i, ix) : ix \in SUBSET (1 .. Len(i))}
      BY <2>5
    <3> QED BY <3>1
  <2> HIDE DEF A, B, C
  <2> QED BY <2>2, <2>3, <2>4, <2>5
<1>4. ASSUME NEW ty \in {"INNER", "LEFT", "RIGHT", "FULL"}, NEW op \in {"EQ", "GT"},
             NEW o \in outers, NEW i \in inners,
             q = [kind |-> "nested", type |-> ty, op |-> op,
                  outer |-> Outer(o), inner |-> Inner(i), indexed |-> {}]
      PROVE  QueryOK(q)
  BY <1>1, <1>2, <1>4 DEF QueryOK
<1>5. ASSUME NEW o \in outers, NEW i \in inners,
             q = [kind |-> "hash", type |-> "INNER", op |-> "EQ",
                  outer |-> Outer(o), inner |-> Inner(i), indexed |-> {}]
      PROVE  QueryOK(q)
  BY <1>1, <1>2, <1>5 DEF QueryOK
<1>6. ASSUME NEW o \in outers, NEW i \in inners, NEW ix \in SUBSET (1 .. Len(i)),
             q = [kind |-> "indexed", type |-> "INNER", op |-> "EQ",
                  outer |-> Outer(o), inner |-> Inner(i), indexed |-> ix]
      PROVE  QueryOK(q)
  BY <1>1, <1>2, <1>6 DEF QueryOK
<1> QED BY <1>3, <1>4, <1>5, <1>6

LEMMA TwoAndTwo ==
    ASSUME NEW a, NEW b, NEW c, NEW d
    PROVE  LET s == <<a, b>> \o <<c, d>> IN
           /\ Len(s) = 4 /\ s[1] = a /\ s[2] = b /\ s[3] = c /\ s[4] = d
  OBVIOUS

\* Different pairs give different rows.
LEMMA RowsDiffer ==
    ASSUME NEW q, QueryOK(q), NEW p \in Pairs(q), NEW r \in Pairs(q), RowAt(q, p) = RowAt(q, r)
    PROVE  p = r
<1> DEFINE tail(s) == IF s[2] = 0 THEN Padding ELSE q.inner[s[2]]
<1>1. \A s \in Pairs(q) :
          /\ s[1] \in 1 .. Len(q.outer) /\ s[2] \in 0 .. Len(q.inner) /\ s = <<s[1], s[2]>>
  BY DEF Pairs
<1>2. \A s \in Pairs(q) : q.outer[s[1]] = <<q.outer[s[1]][1], IntField(0 + s[1])>>
  BY <1>1 DEF QueryOK, IsTable
<1>3. \A s \in Pairs(q) : \E f : tail(s) = <<f, IF s[2] = 0 THEN NullText ELSE IntField(10 + s[2])>>
  <2> TAKE s \in Pairs(q)
  <2>1. CASE s[2] = 0
    BY <2>1 DEF Padding
  <2>2. CASE s[2] # 0
    <3>1. s[2] \in 1 .. Len(q.inner)
      BY <1>1, <2>2 DEF QueryOK, IsTable
    <3> QED BY <3>1, <2>2 DEF QueryOK, IsTable
  <2> QED BY <2>1, <2>2
<1>4. \A s \in Pairs(q) :
          /\ RowAt(q, s)[2] = IntField(0 + s[1])
          /\ RowAt(q, s)[4] = IF s[2] = 0 THEN NullText ELSE IntField(10 + s[2])
  <2> TAKE s \in Pairs(q)
  <2>1. PICK f : tail(s) = <<f, IF s[2] = 0 THEN NullText ELSE IntField(10 + s[2])>>
    BY <1>3
  <2>2. RowAt(q, s) = q.outer[s[1]] \o tail(s)
    BY DEF RowAt
  <2>3. PICK g : q.outer[s[1]] = <<g, IntField(0 + s[1])>>
    BY <1>2
  <2> HIDE DEF tail
  <2> QED BY <2>1, <2>2, <2>3, TwoAndTwo
<1>5. p[1] = r[1]
  <2>1. IntField(0 + p[1]) = IntField(0 + r[1])
    BY <1>4
  <2>2. 0 + p[1] = 0 + r[1]
    BY <2>1 DEF IntField, Field
  <2> QED BY <1>1, <2>2
<1>6. p[2] = r[2]
  <2>1. (IF p[2] = 0 THEN NullText ELSE IntField(10 + p[2]))
          = (IF r[2] = 0 THEN NullText ELSE IntField(10 + r[2]))
    BY <1>4
  <2>2. p[2] = 0 <=> r[2] = 0
    BY <2>1 DEF NullText, StrField, IntField, Field
  <2>3. p[2] # 0 => 10 + p[2] = 10 + r[2]
    BY <2>1, <2>2 DEF IntField, Field
  <2> QED BY <1>1, <2>2, <2>3
<1> QED BY <1>1, <1>5, <1>6

\* The operators of Joins, of the query, are those above.
LEMMA AsAsked ==
    /\ KeepsOuter = Left(query) /\ KeepsInner = Right(query)
    /\ \A o : Matches(o) = Met(query, o)
    /\ \A o, i : i # 0 => Joined(o, i) = RowAt(query, <<o, i>>)
    /\ \A o : WithoutInner(o) = RowAt(query, <<o, 0>>)
<1>1. KeepsOuter = Left(query) /\ KeepsInner = Right(query)
  BY DEF KeepsOuter, KeepsInner, Left, Right
<1>2. ASSUME NEW o PROVE Matches(o) = Met(query, o)
  BY DEF Matches, Met, Meets, Among
<1>3. ASSUME NEW o, NEW i, i # 0 PROVE Joined(o, i) = RowAt(query, <<o, i>>)
  BY <1>3 DEF Joined, RowAt
<1>4. ASSUME NEW o PROVE WithoutInner(o) = RowAt(query, <<o, 0>>)
  BY DEF WithoutInner, RowAt
<1> QED BY <1>1, <1>2, <1>3, <1>4

\* The rows of the relational join are those of the pairs.
LEMMA RelationalIs ==
    ASSUME QueryOK(query)
    PROVE  \A r : r \in Relational <=> \E p \in Pairs(query) : r = RowAt(query, p)
<1>1. \A o : Met(query, o) \subseteq 1 .. Len(query.inner)
  BY DEF Met, Among, QueryOK
<1>2. Len(query.inner) \in Nat
  BY DEF QueryOK, IsTable
<1>3. \A r : r \in Relational <=> \E o \in 1 .. Len(query.outer) : r \in RowsOf(o)
  BY DEF Relational
<1>4. ASSUME NEW o \in 1 .. Len(query.outer), NEW r \in RowsOf(o)
      PROVE  \E p \in Pairs(query) : r = RowAt(query, p)
  <2>1. CASE Met(query, o) # {}
    <3>1. PICK i \in Met(query, o) : r = Joined(o, i)
      BY <1>4, <2>1, AsAsked DEF RowsOf
    <3>2. i \in 0 .. Len(query.inner) /\ i # 0
      BY <1>1, <1>2, <3>1
    <3>3. <<o, i>> \in Pairs(query)
      BY <3>1, <3>2 DEF Pairs
    <3> QED BY <3>1, <3>2, <3>3, AsAsked
  <2>2. CASE Met(query, o) = {}
    <3>1. Left(query) /\ r = WithoutInner(o)
      BY <1>4, <2>2, AsAsked DEF RowsOf
    <3>2. <<o, 0>> \in Pairs(query)
      BY <1>2, <2>2, <3>1 DEF Pairs
    <3> QED BY <3>1, <3>2, AsAsked
  <2> QED BY <2>1, <2>2
<1>5. ASSUME NEW p \in Pairs(query)
      PROVE  \E o \in 1 .. Len(query.outer) : RowAt(query, p) \in RowsOf(o)
  <2>1. p[1] \in 1 .. Len(query.outer) /\ p = <<p[1], p[2]>>
    BY DEF Pairs
  <2>2. CASE p[2] = 0
    <3>1. Left(query) /\ Met(query, p[1]) = {} /\ p = <<p[1], 0>>
      BY <2>1, <2>2 DEF Pairs
    <3> QED BY <2>1, <3>1, AsAsked DEF RowsOf
  <2>3. CASE p[2] # 0
    <3>1. p[2] \in Met(query, p[1])
      BY <2>3 DEF Pairs
    <3>2. RowAt(query, p) = Joined(p[1], p[2])
      BY <2>1, <2>3, AsAsked
    <3> QED BY <2>1, <3>1, <3>2, AsAsked DEF RowsOf
  <2> QED BY <2>2, <2>3
<1> QED BY <1>3, <1>4, <1>5

LEMMA PlacesOfKeys ==
    /\ LastPlace("o.k", Schema) = 1 /\ Places("o.k", Schema) = {1}
    /\ LastPlace("i.k", Schema) = 3 /\ Places("i.k", Schema) = {3}
<1>1. Len(Schema) = 4 /\ Schema[1] = "o.k" /\ Schema[2] = "o.id" /\ Schema[3] = "i.k" /\ Schema[4] = "i.id"
  BY DEF Schema
<1>2. 1 .. 4 = {1, 2, 3, 4}
  OBVIOUS
<1>3. Places("o.k", Schema) = {1} /\ Places("i.k", Schema) = {3}
  BY <1>1, <1>2 DEF Places
<1> QED BY <1>3 DEF LastPlace

\* The condition holds of the rows that meet.
LEMMA HoldsMeets ==
    ASSUME QueryOK(query), NEW o \in 1 .. Len(query.outer), NEW i \in 1 .. Len(query.inner)
    PROVE  /\ Holds(o, i) \in {"yes", "no", "aborts"}
           /\ Holds(o, i) = "yes" <=> Meets(query, o, i)
<1> DEFINE row == query.outer[o] \o query.inner[i]
           l == Col("o.k")
           r == Col("i.k")
<1>1. PICK f, g : query.outer[o] = <<f, IntField(0 + o)>> /\ query.inner[i] = <<g, IntField(10 + i)>>
  BY DEF QueryOK, IsTable
<1>2. Len(row) = 4 /\ row[1] = f /\ row[3] = g
  BY <1>1, TwoAndTwo
<1>3. query.outer[o][1] = f /\ query.inner[i][1] = g
  BY <1>1
<1> HIDE DEF row
<1>4. l.name = "o.k" /\ r.name = "i.k"
  BY DEF Col
<1> HIDE DEF l, r
<1>5. /\ ~Beyond(l, row, Schema) /\ ~Beyond(r, row, Schema)
      /\ Known(l, Schema) /\ Known(r, Schema)
  <2>1. /\ Places(l.name, Schema) = {1} /\ Places(r.name, Schema) = {3}
    BY <1>4, PlacesOfKeys
  <2>2. ~(1 > Len(row)) /\ ~(3 > Len(row))
    BY <1>2
  <2> QED BY <2>1, <2>2 DEF Beyond, Known
<1>6. Operand(l, row, Schema) = f /\ Operand(r, row, Schema) = g
  BY <1>2, <1>4, PlacesOfKeys DEF Operand
<1>7. /\ Condition.left = l /\ Condition.right = r /\ Condition.op = query.op
      /\ Holds(o, i) = LeafValue(Condition, row, Schema)
  BY DEF Condition, Leaf, Holds, l, r, row
<1>8. Holds(o, i) = IF f.type # g.type THEN "aborts"
                    ELSE IF Comparable(f, g) /\ Compare(query.op, f.value, g.value) THEN "yes"
                    ELSE "no"
  BY <1>5, <1>6, <1>7 DEF LeafValue
<1>9. Meets(query, o, i) <=> Comparable(f, g) /\ Compare(query.op, f.value, g.value)
  BY <1>3 DEF Meets
<1>10. Comparable(f, g) => ~(f.type # g.type)
  BY DEF Comparable
<1>11. CASE Comparable(f, g) /\ Compare(query.op, f.value, g.value)
  BY <1>8, <1>9, <1>10, <1>11
<1>12. CASE ~(Comparable(f, g) /\ Compare(query.op, f.value, g.value))
  <2>1. Holds(o, i) = IF f.type # g.type THEN "aborts" ELSE "no"
    BY <1>8, <1>12, Zenon
  <2> QED BY <1>9, <1>12, <2>1
<1> QED BY <1>11, <1>12

-----------------------------------------------------------------------------
(* The members after each of the assignments. *)

\* y and z differ in the members F only.
SameBut(y, z, F) ==
    /\ "o" \notin F => z.o = y.o
    /\ "i" \notin F => z.i = y.i
    /\ "has_inner" \notin F => z.has_inner = y.has_inner
    /\ "inner_matches_counter" \notin F => z.inner_matches_counter = y.inner_matches_counter
    /\ "inner_matches" \notin F => z.inner_matches = y.inner_matches
    /\ "is_hash_built" \notin F => z.is_hash_built = y.is_hash_built
    /\ "hashed" \notin F => z.hashed = y.hashed
    /\ "curr_inner" \notin F => z.curr_inner = y.curr_inner
    /\ "tuple_index" \notin F => z.tuple_index = y.tuple_index

LEMMA SetO ==
    ASSUME NEW y, AreMembers(y), NEW a
    PROVE  LET z == [y EXCEPT !.o = a] IN AreMembers(z) /\ z.o = a /\ SameBut(y, z, {"o"})
  BY DEF AreMembers, SameBut

LEMMA SetI ==
    ASSUME NEW y, AreMembers(y), NEW a
    PROVE  LET z == [y EXCEPT !.i = a] IN AreMembers(z) /\ z.i = a /\ SameBut(y, z, {"i"})
  BY DEF AreMembers, SameBut

LEMMA SetCounter ==
    ASSUME NEW y, AreMembers(y), NEW a
    PROVE  LET z == [y EXCEPT !.inner_matches_counter = a] IN
           /\ AreMembers(z) /\ z.inner_matches_counter = a
           /\ SameBut(y, z, {"inner_matches_counter"})
  BY DEF AreMembers, SameBut

LEMMA SetHasInner ==
    ASSUME NEW y, AreMembers(y), NEW a
    PROVE  LET z == [y EXCEPT !.has_inner = a] IN
           AreMembers(z) /\ z.has_inner = a /\ SameBut(y, z, {"has_inner"})
  BY DEF AreMembers, SameBut

LEMMA SetMatches ==
    ASSUME NEW y, AreMembers(y), NEW a
    PROVE  LET z == [y EXCEPT !.inner_matches = a] IN
           AreMembers(z) /\ z.inner_matches = a /\ SameBut(y, z, {"inner_matches"})
  BY DEF AreMembers, SameBut

LEMMA SetIndex ==
    ASSUME NEW y, AreMembers(y), NEW a
    PROVE  LET z == [y EXCEPT !.tuple_index = a] IN
           AreMembers(z) /\ z.tuple_index = a /\ SameBut(y, z, {"tuple_index"})
  BY DEF AreMembers, SameBut

LEMMA SetBuilt ==
    ASSUME NEW y, AreMembers(y), NEW a
    PROVE  LET z == [y EXCEPT !.is_hash_built = a] IN
           AreMembers(z) /\ z.is_hash_built = a /\ SameBut(y, z, {"is_hash_built"})
  BY DEF AreMembers, SameBut

LEMMA SetHashed ==
    ASSUME NEW y, AreMembers(y), NEW a
    PROVE  LET z == [y EXCEPT !.hashed = a] IN
           AreMembers(z) /\ z.hashed = a /\ SameBut(y, z, {"hashed"})
  BY DEF AreMembers, SameBut

LEMMA SetCurrent ==
    ASSUME NEW y, AreMembers(y), NEW a
    PROVE  LET z == [y EXCEPT !.curr_inner = a] IN
           AreMembers(z) /\ z.curr_inner = a /\ SameBut(y, z, {"curr_inner"})
  BY DEF AreMembers, SameBut

\* The members before the first inner row of outer row o is read.
BeforeInner(y, o) == /\ AreMembers(y)
                     /\ y.o = o /\ y.i = 0 /\ y.has_inner = TRUE /\ y.inner_matches_counter = 0

LEMMA BegunSets ==
    ASSUME NEW y, AreMembers(y), NEW o
    PROVE  BeforeInner(Begun(y, o), o)
<1>1. PICK y1 : y1 = [y EXCEPT !.o = o]
  OBVIOUS
<1>2. PICK y2 : y2 = [y1 EXCEPT !.i = 0]
  OBVIOUS
<1>3. PICK y3 : y3 = [y2 EXCEPT !.has_inner = TRUE]
  OBVIOUS
<1>4. PICK y4 : y4 = [y3 EXCEPT !.inner_matches_counter = 0]
  OBVIOUS
<1>5. Begun(y, o) = y4
  BY <1>1, <1>2, <1>3, <1>4 DEF Begun
<1>6. AreMembers(y1) /\ y1.o = o
  BY <1>1, SetO
<1>7. AreMembers(y2) /\ y2.o = o /\ y2.i = 0
  BY <1>2, <1>6, SetI DEF SameBut
<1>8. AreMembers(y3) /\ y3.o = o /\ y3.i = 0 /\ y3.has_inner = TRUE
  BY <1>3, <1>7, SetHasInner DEF SameBut
<1>9. BeforeInner(y4, o)
  BY <1>4, <1>8, SetCounter DEF SameBut, BeforeInner
<1> QED BY <1>5, <1>9

LEMMA BuiltSets ==
    ASSUME NEW y, AreMembers(y)
    PROVE  LET z == Built(y) IN
           /\ AreMembers(z)
           /\ z.o = Len(query.outer) /\ z.is_hash_built = TRUE
           /\ z.hashed = y.hashed \o SubSeq(query.outer, y.o + 1, Len(query.outer))
           /\ SameBut(y, z, {"o", "is_hash_built", "hashed"})
<1>1. PICK a : a = y.hashed \o SubSeq(query.outer, y.o + 1, Len(query.outer))
  OBVIOUS
<1>2. PICK y1 : y1 = [y EXCEPT !.is_hash_built = TRUE]
  OBVIOUS
<1>3. PICK y2 : y2 = [y1 EXCEPT !.o = Len(query.outer)]
  OBVIOUS
<1>4. PICK y3 : y3 = [y2 EXCEPT !.hashed = a]
  OBVIOUS
<1>5. AreMembers(y1) /\ y1.is_hash_built = TRUE /\ SameBut(y, y1, {"is_hash_built"})
  BY <1>2, SetBuilt
<1>6. AreMembers(y2) /\ y2.o = Len(query.outer) /\ SameBut(y1, y2, {"o"})
  BY <1>3, <1>5, SetO
<1>7. AreMembers(y3) /\ y3.hashed = a /\ SameBut(y2, y3, {"hashed"})
  BY <1>4, <1>6, SetHashed
<1>8. y2.hashed = y.hashed
  BY <1>5, <1>6 DEF SameBut
<1>9. Built(y) = y3
  BY <1>1, <1>2, <1>3, <1>4, <1>8 DEF Built
<1>10. y3.o = Len(query.outer) /\ y3.is_hash_built = TRUE
  BY <1>5, <1>6, <1>7 DEF SameBut
<1>11. SameBut(y, y3, {"o", "is_hash_built", "hashed"})
  BY <1>5, <1>6, <1>7 DEF SameBut
<1> QED BY <1>1, <1>7, <1>9, <1>10, <1>11

LEMMA TurnedSets ==
    ASSUME NEW y, AreMembers(y), NEW i
    PROVE  LET z == Turned(y, i) IN
           /\ AreMembers(z)
           /\ z.tuple_index = 0 /\ z.i = i /\ z.curr_inner = query.inner[i]
           /\ SameBut(y, z, {"tuple_index", "i", "curr_inner"})
<1>1. PICK a : a = query.inner[i]
  OBVIOUS
<1>2. PICK y1 : y1 = [y EXCEPT !.tuple_index = 0]
  OBVIOUS
<1>3. PICK y2 : y2 = [y1 EXCEPT !.i = i]
  OBVIOUS
<1>4. PICK y3 : y3 = [y2 EXCEPT !.curr_inner = a]
  OBVIOUS
<1>5. Turned(y, i) = y3
  BY <1>1, <1>2, <1>3, <1>4 DEF Turned
<1>6. AreMembers(y1) /\ y1.tuple_index = 0 /\ SameBut(y, y1, {"tuple_index"})
  BY <1>2, SetIndex
<1>7. AreMembers(y2) /\ y2.i = i /\ SameBut(y1, y2, {"i"})
  BY <1>3, <1>6, SetI
<1>8. AreMembers(y3) /\ y3.curr_inner = a /\ SameBut(y2, y3, {"curr_inner"})
  BY <1>4, <1>7, SetCurrent
<1>9. y3.tuple_index = 0 /\ y3.i = i
  BY <1>6, <1>7, <1>8 DEF SameBut
<1>10. SameBut(y, y3, {"tuple_index", "i", "curr_inner"})
  BY <1>6, <1>7, <1>8 DEF SameBut
<1> QED BY <1>1, <1>5, <1>8, <1>9, <1>10

-----------------------------------------------------------------------------
(* A call of getNext in which result r is made of the members y: it returns *)
(* the row of one pair that has not been passed, or one that is not of the  *)
(* join where such rows are not excluded; and it ends when all are passed.  *)

AddsPair(q, y, z, p) ==
    /\ p \in Pairs(q) /\ p \notin Passed(q, y)
    /\ \A s \in Pairs(q) : s \in Passed(q, z) <=> s \in Passed(q, y) \/ s = p

AddsNone(q, y, z) == \A s \in Pairs(q) : s \in Passed(q, z) => s \in Passed(q, y)

GoodRow(q, y, rows, re, r) ==
    /\ MembersOK(q, r.x, Append(rows, r.row), "open", re)
    /\ \/ \E p \in Pairs(q) : r.row = RowAt(q, p) /\ AddsPair(q, y, r.x, p)
       \/ ~Exact(q, re) /\ AddsNone(q, y, r.x)

GoodStep(q, y, rows, re, r) ==
    /\ r.got \in {"row", "false", "aborted", "undefined"}
    /\ r.got = "row" => GoodRow(q, y, rows, re, r)
    /\ r.got = "false" => MembersOK(q, r.x, rows, "done", re) /\ Pairs(q) \subseteq Passed(q, y)

LEMMA Results ==
    ASSUME NEW y, NEW row
    PROVE  /\ Returns(y, row).x = y /\ Returns(y, row).got = "row" /\ Returns(y, row).row = row
           /\ Ends(y).x = y /\ Ends(y).got = "false"
           /\ AbortedAt(y).got = "aborted" /\ Undefined(y).got = "undefined"
  BY DEF Returns, Ends, AbortedAt, Undefined

LEMMA PairsAre ==
    ASSUME NEW q, QueryOK(q), NEW s \in Pairs(q)
    PROVE  /\ s[1] \in 1 .. Len(q.outer) /\ s[2] \in 0 .. Len(q.inner) /\ s = <<s[1], s[2]>>
           /\ s \in Int \X Int /\ s[1] \in Int /\ s[2] \in Int
           /\ s[2] = 0 => Left(q) /\ Met(q, s[1]) = {}
           /\ s[2] # 0 => s[2] \in Met(q, s[1])
<1>1. Len(q.outer) \in Nat /\ Len(q.inner) \in Nat
  BY DEF QueryOK, IsTable
<1>2. s \in (1 .. Len(q.outer)) \X (0 .. Len(q.inner))
  BY DEF Pairs
<1>3. (s[2] = 0 => Left(q) /\ Met(q, s[1]) = {}) /\ (s[2] # 0 => s[2] \in Met(q, s[1]))
  BY DEF Pairs
<1> QED BY <1>1, <1>2, <1>3

-----------------------------------------------------------------------------
(* NestedLoopJoin *)

\* The inner loop stops at every row that meets the outer one.
LEMMA StopsWhereMet ==
    ASSUME QueryOK(query), query.kind = "nested",
           NEW o \in 1 .. Len(query.outer), NEW i \in Nat
    PROVE  /\ Stops(o, i + 1) \in SUBSET Nat
           /\ Met(query, o) \subseteq 1 .. Len(query.inner)
           /\ \A j \in Stops(o, i + 1) :
                  /\ j \in 1 .. Len(query.inner) /\ i < j
                  /\ Holds(o, j) \in {"yes", "aborts"} \/ Right(query)
                  /\ Holds(o, j) = "yes" <=> j \in Met(query, o)
           /\ \A j \in Met(query, o) : i < j => j \in Stops(o, i + 1)
<1>1. Len(query.inner) \in Nat
  BY DEF QueryOK, IsTable
<1>2. Met(query, o) \subseteq 1 .. Len(query.inner)
  BY DEF Met, Among
<1>3. \A j \in 1 .. Len(query.inner) : Holds(o, j) = "yes" <=> j \in Met(query, o)
  BY HoldsMeets DEF Met, Among
<1>4. \A j \in Int : j \in i + 1 .. Len(query.inner) <=> j \in 1 .. Len(query.inner) /\ i < j
  BY <1>1
<1>5. Stops(o, i + 1) = {j \in i + 1 .. Len(query.inner) : Holds(o, j) # "no" \/ Right(query)}
  BY AsAsked DEF Stops
<1>6. Stops(o, i + 1) \in SUBSET Nat
  BY <1>1, <1>5
<1>7. \A j \in Stops(o, i + 1) :
          j \in 1 .. Len(query.inner) /\ i < j /\ (Holds(o, j) \in {"yes", "aborts"} \/ Right(query))
  BY <1>4, <1>5, HoldsMeets
<1>8. \A j \in Met(query, o) : i < j => j \in Stops(o, i + 1)
  <2> SUFFICES ASSUME NEW j \in Met(query, o), i < j
               PROVE  j \in Stops(o, i + 1)
    OBVIOUS
  <2>1. j \in i + 1 .. Len(query.inner) /\ Holds(o, j) = "yes"
    BY <1>1, <1>2, <1>3
  <2> QED BY <1>5, <2>1
<1> QED BY <1>2, <1>3, <1>6, <1>7, <1>8

\* It stops at an inner row behind the last one.
LEMMA StoppedStep ==
    ASSUME QueryOK(query), query.kind = "nested", NEW rows, NEW re,
           NEW y, AreMembers(y), NestedOK(query, y, "open"), y.has_inner,
           Stops(y.o, y.i + 1) # {}
    PROVE  GoodStep(query, y, rows, re, Probe(y))
<1> DEFINE o == y.o
           j == Min(Stops(y.o, y.i + 1))
           z == [y EXCEPT !.i = j]
<1>1. /\ o \in 1 .. Len(query.outer) /\ y.i \in Nat /\ o \in Int
      /\ y.inner_matches_counter \in Nat
      /\ y.inner_matches_counter = 0 <=> Met(query, o) \cap 1 .. y.i = {}
  BY DEF NestedOK, QueryOK, IsTable
<1>2. j \in Stops(o, y.i + 1) /\ \A k \in Stops(o, y.i + 1) : j <= k
  BY <1>1, StopsWhereMet, Least
<1>3. /\ j \in 1 .. Len(query.inner) /\ y.i < j
      /\ Holds(o, j) \in {"yes", "aborts"} \/ Right(query)
      /\ Holds(o, j) = "yes" <=> j \in Met(query, o)
  BY <1>1, <1>2, StopsWhereMet
<1>4. Met(query, o) \subseteq 1 .. Len(query.inner) /\ \A k \in Met(query, o) : y.i < k => j <= k
  BY <1>1, <1>2, StopsWhereMet
<1>5. AreMembers(z) /\ z.i = j /\ SameBut(y, z, {"i"})
  BY SetI
<1>6. Probe(y) = Stopped(z)
  <2>1. Probe(y) = CASE ~y.has_inner -> Exhausted(y)
                     [] y.has_inner /\ Stops(y.o, y.i + 1) = {} ->
                            Exhausted([y EXCEPT !.has_inner = FALSE, !.i = Len(query.inner)])
                     [] OTHER -> Stopped(z)
    BY DEF Probe
  <2> QED BY <2>1
<1>7. j \in Int /\ Len(query.inner) \in Nat /\ Len(query.outer) \in Nat
  BY <1>3 DEF QueryOK, IsTable
<1>8. z.o = o /\ z.has_inner = TRUE /\ z.inner_matches_counter = y.inner_matches_counter
  BY <1>5 DEF SameBut, NestedOK
<1> HIDE DEF z, j, o
\* The pairs passed by members w that are at row j.
<1>9. ASSUME NEW w, w.o = o, w.i = j, w.has_inner = TRUE
      PROVE  \A s \in Pairs(query) :
                 s \in Passed(query, w) <=> s \in Passed(query, y) \/ s = <<o, j>>
  <2> TAKE s \in Pairs(query)
  <2>1. s \in Int \X Int /\ s[1] \in Int /\ s[2] \in Int /\ s = <<s[1], s[2]>>
        /\ (s[2] # 0 => s[2] \in Met(query, s[1]))
    BY PairsAre
  <2>2. s \in Passed(query, w) <=> s[1] < o \/ (s[1] = o /\ s[2] \in 1 .. j)
    BY <1>9, <2>1 DEF Passed, PassedNested
  <2>3. s \in Passed(query, y) <=> s[1] < o \/ (s[1] = o /\ s[2] \in 1 .. y.i)
    BY <2>1 DEF Passed, PassedNested, o
  <2>4. s[1] = o /\ s[2] \in 1 .. j => s[2] \in 1 .. y.i \/ s[2] = j
    BY <1>1, <1>4, <1>7, <2>1
  <2>5. j \in 1 .. j /\ (s[2] \in 1 .. y.i => s[2] \in 1 .. j)
    BY <1>1, <1>3, <1>7
  <2> QED BY <2>1, <2>2, <2>3, <2>4, <2>5
<1>10. CASE Holds(o, j) = "aborts"
  <2>1. Stopped(z) = AbortedAt(z)
    BY <1>5, <1>8, <1>10 DEF Stopped
  <2> QED BY <1>6, <2>1, Results DEF GoodStep
<1>11. CASE Holds(o, j) = "yes"
  <2> DEFINE w == [z EXCEPT !.inner_matches_counter = y.inner_matches_counter + 1]
             p == <<o, j>>
  <2>1. Stopped(z) = Returns(w, Joined(o, j))
    BY <1>5, <1>8, <1>11 DEF Stopped
  <2>2. /\ AreMembers(w) /\ w.inner_matches_counter = y.inner_matches_counter + 1
        /\ w.o = o /\ w.i = j /\ w.has_inner = TRUE
    BY <1>5, <1>8, SetCounter DEF SameBut
  <2> HIDE DEF w
  <2>3. p \in Pairs(query)
    BY <1>1, <1>3, <1>7, <1>11 DEF Pairs
  <2>4. p \notin Passed(query, y)
    BY <1>1, <1>3, <1>7 DEF Passed, PassedNested, o
  <2>5. AddsPair(query, y, w, p)
    BY <1>9, <2>2, <2>3, <2>4 DEF AddsPair
  <2>6. Joined(o, j) = RowAt(query, p)
    BY <1>3, AsAsked
  <2>7. NestedOK(query, w, "open")
    <3>1. j \in Met(query, o) \cap 1 .. j
      BY <1>3, <1>7, <1>11
    <3>2. w.inner_matches_counter > 0 /\ w.inner_matches_counter \in Int
      BY <1>1, <2>2
    <3>3. w.o \in 0 .. Len(query.outer) /\ w.o >= 1 /\ w.i \in 0 .. Len(query.inner)
      BY <1>1, <1>3, <1>7, <2>2
    <3>4. w.inner_matches_counter # 0 /\ w.inner_matches_counter >= 0
      BY <3>2
    <3>5. Met(query, w.o) \cap 1 .. w.i # {}
      BY <2>2, <3>1
    <3> QED BY <2>2, <3>2, <3>3, <3>4, <3>5 DEF NestedOK
  <2>8. MembersOK(query, w, Append(rows, Joined(o, j)), "open", re)
    BY <2>2, <2>7 DEF MembersOK
  <2> QED BY <1>6, <2>1, <2>3, <2>5, <2>6, <2>8, Results DEF GoodStep, GoodRow
<1>12. CASE Holds(o, j) \notin {"aborts", "yes"}
  <2>1. Stopped(z) = Returns(z, WithoutOuter(j))
    BY <1>5, <1>8, <1>12 DEF Stopped
  <2>2. j \notin Met(query, o)
    BY <1>3, <1>12
  <2>3. NestedOK(query, z, "open")
    <3>1. Met(query, o) \cap 1 .. j = Met(query, o) \cap 1 .. y.i
      BY <1>1, <1>3, <1>4, <1>7, <2>2
    <3>2. z.o \in 0 .. Len(query.outer) /\ z.o >= 1 /\ z.i \in 0 .. Len(query.inner)
      BY <1>1, <1>3, <1>5, <1>7, <1>8
    <3> QED BY <1>1, <1>5, <1>8, <3>1, <3>2 DEF NestedOK
  <2>4. MembersOK(query, z, Append(rows, WithoutOuter(j)), "open", re)
    BY <1>5, <2>3 DEF MembersOK
  <2>5. AddsNone(query, y, z)
    <3>1. <<o, j>> \notin Pairs(query)
      BY <1>3, <2>2 DEF Pairs
    <3> QED BY <1>5, <1>8, <1>9, <3>1 DEF AddsNone
  <2>6. ~Exact(query, re)
    <3>1. Right(query)
      BY <1>3, <1>12
    <3> QED BY <3>1 DEF Exact
  <2> QED BY <1>6, <2>1, <2>4, <2>5, <2>6, Results DEF GoodStep, GoodRow
<1> QED BY <1>10, <1>11, <1>12

\* The pairs of the current outer row, when no inner row is left to stop at.
LEMMA LeftOver ==
    ASSUME QueryOK(query), query.kind = "nested",
           NEW y, NestedOK(query, y, "open"), y.has_inner, Stops(y.o, y.i + 1) = {},
           NEW s \in Pairs(query), s[1] = y.o
    PROVE  IF s[2] = 0 THEN Due(y) ELSE s \in Passed(query, y)
<1>1. y.o \in 1 .. Len(query.outer) /\ y.i \in Nat
  BY DEF NestedOK, QueryOK, IsTable
<1>2. \A j \in Met(query, y.o) : j \in 1 .. Len(query.inner) /\ ~(y.i < j)
  BY <1>1, StopsWhereMet
<1>3. /\ s \in Int \X Int /\ s[2] \in Int
      /\ s[2] = 0 => Left(query) /\ Met(query, y.o) = {}
      /\ s[2] # 0 => s[2] \in Met(query, y.o)
  BY PairsAre
<1>4. CASE s[2] = 0
  <2>1. Met(query, y.o) \cap 1 .. y.i = {}
    BY <1>3, <1>4
  <2>2. y.inner_matches_counter = 0
    BY <2>1 DEF NestedOK
  <2> QED BY <1>3, <1>4, <2>2, AsAsked DEF Due
<1>5. CASE s[2] # 0
  <2>1. s[2] \in 1 .. y.i
    BY <1>1, <1>2, <1>3, <1>5
  <2> QED BY <1>3, <1>5, <2>1 DEF Passed, PassedNested
<1> QED BY <1>4, <1>5

\* The inner rows are exhausted: the outer row is padded, or it was the last one.
LEMMA ExhaustedStep ==
    ASSUME QueryOK(query), query.kind = "nested", NEW rows, NEW re,
           NEW y, AreMembers(y), NestedOK(query, y, "open"), y.has_inner,
           Stops(y.o, y.i + 1) = {},
           Due(y) \/ y.o = Len(query.outer)
    PROVE  GoodStep(query, y, rows, re, Probe(y))
<1> DEFINE n == Len(query.inner)
           z1 == [y EXCEPT !.has_inner = FALSE]
           z == [z1 EXCEPT !.i = n]
<1>1. /\ y.o \in 1 .. Len(query.outer) /\ y.i \in Nat /\ y.o \in Int
      /\ y.inner_matches_counter \in Nat
      /\ y.inner_matches_counter = 0 <=> Met(query, y.o) \cap 1 .. y.i = {}
  BY DEF NestedOK, QueryOK, IsTable
<1>2. n \in Nat /\ Len(query.outer) \in Nat
  BY DEF QueryOK, IsTable
<1>3. AreMembers(z1) /\ z1.has_inner = FALSE /\ SameBut(y, z1, {"has_inner"})
  BY SetHasInner
<1>4. AreMembers(z) /\ z.i = n /\ SameBut(z1, z, {"i"})
  BY <1>3, SetI
<1>5. Probe(y) = Exhausted(z)
  <2>1. Probe(y) = CASE ~y.has_inner -> Exhausted(y)
                     [] y.has_inner /\ Stops(y.o, y.i + 1) = {} -> Exhausted(z)
                     [] OTHER -> Stopped([y EXCEPT !.i = Min(Stops(y.o, y.i + 1))])
    BY DEF Probe
  <2> QED BY <2>1
<1>6. z.o = y.o /\ z.has_inner = FALSE /\ z.inner_matches_counter = y.inner_matches_counter
  BY <1>3, <1>4 DEF SameBut
<1> HIDE DEF z, z1, n
<1>7. Due(z) <=> Due(y)
  BY <1>6 DEF Due
<1>8. CASE Due(y)
  <2> DEFINE w == [z EXCEPT !.inner_matches_counter = -1]
             p == <<y.o, 0>>
  <2>1. Exhausted(z) = Returns(w, WithoutInner(y.o))
    BY <1>6, <1>7, <1>8 DEF Exhausted
  <2>2. /\ AreMembers(w) /\ w.inner_matches_counter = -1
        /\ w.o = y.o /\ w.i = n /\ w.has_inner = FALSE
    BY <1>4, <1>6, SetCounter DEF SameBut
  <2> HIDE DEF w
  <2>3. Left(query) /\ y.inner_matches_counter = 0
    BY <1>8, AsAsked DEF Due
  <2>4. Met(query, y.o) = {}
    <3>1. \A j \in Met(query, y.o) : j \in 1 .. Len(query.inner) /\ ~(y.i < j)
      BY <1>1, StopsWhereMet
    <3>2. \A j \in Met(query, y.o) : j \in 1 .. y.i
      BY <1>1, <3>1
    <3>3. Met(query, y.o) \cap 1 .. y.i = {}
      BY <1>1, <2>3
    <3> QED BY <3>2, <3>3
  <2>5. p \in Pairs(query)
    BY <1>1, <1>2, <2>3, <2>4 DEF Pairs, n
  <2>6. p \notin Passed(query, y)
    <3>1. ~(y.o < y.o) /\ 0 \notin 1 .. y.i
      BY <1>1
    <3> QED BY <3>1 DEF Passed, PassedNested
  <2>7. ASSUME NEW s \in Pairs(query)
        PROVE  s \in Passed(query, w) <=> s \in Passed(query, y) \/ s = p
    <3>1. s \in Int \X Int /\ s[1] \in Int /\ s[2] \in Int /\ s = <<s[1], s[2]>>
      BY PairsAre
    <3>2. s \in Passed(query, w) <=> s[1] < y.o \/ s[1] = y.o
      BY <2>2, <3>1 DEF Passed, PassedNested
    <3>3. s[1] < y.o => s \in Passed(query, y)
      BY <3>1 DEF Passed, PassedNested
    <3>4. s \in Passed(query, y) => s[1] < y.o \/ s[1] = y.o
      BY DEF Passed, PassedNested
    <3>5. s[1] = y.o => s[2] = 0
      BY <2>4, PairsAre
    <3> QED BY <3>1, <3>2, <3>3, <3>4, <3>5
  <2>8. AddsPair(query, y, w, p)
    BY <2>5, <2>6, <2>7 DEF AddsPair
  <2>9. WithoutInner(y.o) = RowAt(query, p)
    BY AsAsked
  <2>10. NestedOK(query, w, "open")
    <3>1. w.i \in 0 .. Len(query.inner) /\ w.o \in 0 .. Len(query.outer) /\ -1 \in Int /\ -1 # 0
      BY <1>1, <1>2, <2>2 DEF n
    <3> QED BY <2>2, <3>1 DEF NestedOK
  <2>11. MembersOK(query, w, Append(rows, WithoutInner(y.o)), "open", re)
    BY <2>2, <2>10 DEF MembersOK
  <2> QED BY <1>5, <2>1, <2>5, <2>8, <2>9, <2>11, Results DEF GoodStep, GoodRow
<1>9. CASE ~Due(y)
  <2>1. Exhausted(z) = Ends(z)
    BY <1>7, <1>9 DEF Exhausted
  <2>2. NestedOK(query, z, "done")
    <3>1. z.i \in 0 .. Len(query.inner) /\ z.o \in 0 .. Len(query.outer)
      BY <1>1, <1>2, <1>4, <1>6 DEF n
    <3>2. Left(query) => z.inner_matches_counter # 0
      BY <1>6, <1>9, AsAsked DEF Due
    <3> QED BY <1>1, <1>6, <3>1, <3>2 DEF NestedOK
  <2>3. MembersOK(query, z, rows, "done", re)
    BY <1>4, <2>2 DEF MembersOK
  <2>4. ASSUME NEW s \in Pairs(query)
        PROVE  s \in Passed(query, y)
    <3>1. s \in Int \X Int /\ s[1] \in 1 .. Len(query.outer)
      BY PairsAre
    <3>2. s[1] < y.o \/ s[1] = y.o
      BY <1>2, <1>9, <3>1
    <3>3. CASE s[1] < y.o
      BY <3>1, <3>3 DEF Passed, PassedNested
    <3>4. CASE s[1] = y.o
      BY <1>9, <3>4, LeftOver
    <3> QED BY <3>2, <3>3, <3>4
  <2> QED BY <1>5, <2>1, <2>3, <2>4, Results DEF GoodStep
<1> QED BY <1>8, <1>9

\* Begun for an outer row, the join has passed the pairs of the rows before it.
LEMMA BegunPassed ==
    ASSUME query.kind = "nested", QueryOK(query), NEW y, AreMembers(y), NEW o \in Int,
           NEW s \in Pairs(query)
    PROVE  s \in Passed(query, Begun(y, o)) <=> s[1] < o
<1>1. s \in Int \X Int /\ 1 .. 0 = {}
  BY PairsAre
<1>2. Begun(y, o).o = o /\ Begun(y, o).i = 0 /\ Begun(y, o).has_inner = TRUE
  <2>1. BeforeInner(Begun(y, o), o)
    BY BegunSets, Zenon
  <2> QED BY <2>1 DEF BeforeInner
<1> QED BY <1>1, <1>2 DEF Passed, PassedNested

\* A call of getNext of the nested loop join.
LEMMA NestedStep ==
    ASSUME QueryOK(query), query.kind = "nested", NEW rows, NEW re,
           NEW y, AreMembers(y), NestedOK(query, y, "open")
    PROVE  GoodStep(query, y, rows, re, NextNested(y))
<1> DEFINE m == Len(query.outer)
           more == y.has_inner /\ Stops(y.o, y.i + 1) # {}
           next == {o \in y.o + 1 .. m : KeepsOuter \/ Stops(o, 1) # {} \/ o = m}
<1>1. NextNested(y) = IF more \/ Due(y) \/ next = {} THEN Probe(y) ELSE Probe(Begun(y, Min(next)))
  BY DEF NextNested
<1>2. /\ m \in Nat /\ y.o \in 0 .. m /\ y.o \in Int /\ y.has_inner \in BOOLEAN
      /\ y.has_inner => y.o >= 1
  BY DEF NestedOK, QueryOK, IsTable
<1>3. next \in SUBSET Nat /\ \A o \in y.o + 1 .. m : o \in next <=> KeepsOuter \/ Stops(o, 1) # {} \/ o = m
  BY <1>2
<1>4. next \subseteq y.o + 1 .. m
  OBVIOUS
<1> HIDE DEF more, next, m
\* Nothing more comes of the current row: its pairs are passed.
<1>5. ASSUME ~more, ~Due(y), NEW s \in Pairs(query), s[1] <= y.o
      PROVE  s \in Passed(query, y)
  <2>1. s \in Int \X Int /\ s[1] \in Int
    BY PairsAre
  <2>2. CASE s[1] < y.o
    BY <2>1, <2>2 DEF Passed, PassedNested
  <2>3. CASE s[1] = y.o /\ y.has_inner
    BY <1>5, <2>3, LeftOver DEF more
  <2>4. CASE s[1] = y.o /\ ~y.has_inner
    BY <2>1, <2>4 DEF Passed, PassedNested
  <2> QED BY <1>2, <1>5, <2>1, <2>2, <2>3, <2>4
<1>6. CASE more
  BY <1>1, <1>6, StoppedStep DEF more
<1>7. CASE ~more /\ Due(y)
  <2>1. y.has_inner /\ Stops(y.o, y.i + 1) = {}
    BY <1>2, <1>7, AsAsked DEF more, Due, NestedOK
  <2> QED BY <1>1, <1>7, <2>1, ExhaustedStep
<1>8. CASE ~more /\ ~Due(y) /\ next = {}
  <2>1. y.o = m
    <3>1. m \notin y.o + 1 .. m
      BY <1>3, <1>8
    <3> QED BY <1>2, <3>1
  <2>2. CASE y.has_inner
    BY <1>1, <1>8, <2>1, <2>2, ExhaustedStep DEF more, m
  <2>3. CASE ~y.has_inner
    <3>1. Probe(y) = Ends(y)
      BY <1>8, <2>3 DEF Probe, Exhausted
    <3>2. NestedOK(query, y, "done")
      BY <2>3 DEF NestedOK
    <3>3. MembersOK(query, y, rows, "done", re)
      BY <3>2 DEF MembersOK
    <3>4. \A s \in Pairs(query) : s[1] <= y.o
      BY <2>1, PairsAre DEF m
    <3> QED BY <1>1, <1>5, <1>8, <3>1, <3>3, <3>4, Results DEF GoodStep
  <2> QED BY <1>2, <2>2, <2>3
<1>9. CASE ~more /\ ~Due(y) /\ next # {}
  <2>1. PICK o : o = Min(next)
    OBVIOUS
  <2>2. PICK w : w = Begun(y, o)
    OBVIOUS
  <2>3. o \in next /\ \A k \in next : o <= k
    BY <1>3, <1>9, <2>1, Least
  <2>4. o \in Int /\ o \in 1 .. m /\ y.o < o /\ o \in y.o + 1 .. m
    BY <1>2, <1>4, <2>3
  <2>5. AreMembers(w) /\ w.o = o /\ w.i = 0 /\ w.has_inner = TRUE /\ w.inner_matches_counter = 0
    <3>1. BeforeInner(w, o)
      BY <2>2, BegunSets, Zenon
    <3> QED BY <3>1 DEF BeforeInner
  <2>6. NestedOK(query, w, "open")
    <3>1. 1 .. 0 = {} /\ 0 \in 0 .. Len(query.inner) /\ o \in 0 .. m /\ o >= 1
      BY <1>2, <2>4 DEF QueryOK, IsTable
    <3>2. Met(query, w.o) \cap 1 .. w.i = {}
      BY <2>5, <3>1
    <3>3. w.i \in 0 .. Len(query.inner) /\ w.o \in 0 .. Len(query.outer) /\ w.o >= 1
      BY <2>5, <3>1 DEF m
    <3>4. w.has_inner => /\ w.inner_matches_counter >= 0
                         /\ w.inner_matches_counter = 0 <=> Met(query, w.o) \cap 1 .. w.i = {}
      BY <2>5, <3>2
    <3>5. w.has_inner \in BOOLEAN /\ w.inner_matches_counter \in Int
      <4>1. w.has_inner \in BOOLEAN
        BY <2>5, Zenon
      <4>2. 0 \in Int
        OBVIOUS
      <4> QED BY <2>5, <4>1, <4>2, Zenon
    <3>6. ~(~w.has_inner /\ Left(query))
      BY <2>5
    <3> HIDE DEF m
    <3> QED BY <3>3, <3>4, <3>5, <3>6 DEF NestedOK
  <2>7. GoodStep(query, w, rows, re, Probe(w))
    <3>1. CASE Stops(o, 1) # {}
      BY <2>5, <2>6, <3>1, StoppedStep
    <3>2. CASE Stops(o, 1) = {}
      <4>1. KeepsOuter \/ o = m
        BY <1>3, <2>3, <2>4, <3>2
      <4>2. Due(w) \/ w.o = Len(query.outer)
        BY <2>5, <4>1 DEF Due, m
      <4> QED BY <2>5, <2>6, <3>2, <4>2, ExhaustedStep
    <3> QED BY <3>1, <3>2
  <2>8. ASSUME NEW s \in Pairs(query)
        PROVE  s \in Passed(query, w) <=> s \in Passed(query, y)
    <3>1. /\ s[1] \in 1 .. m /\ s[1] \in Int /\ s[2] \in 0 .. Len(query.inner)
          /\ s[2] = 0 => Left(query)
          /\ s[2] # 0 => s[2] \in Met(query, s[1])
      BY PairsAre DEF m
    <3>2. s \in Passed(query, w) <=> s[1] < o
      BY <2>4, <2>2, BegunPassed
    <3>3. s \in Passed(query, y) => s[1] <= y.o
      BY <1>2, <3>1 DEF Passed, PassedNested
    <3>4. CASE s[1] <= y.o
      BY <1>2, <1>5, <1>9, <2>4, <3>1, <3>2, <3>4
    <3>5. CASE y.o < s[1] /\ s[1] < o
      <4>1. s[1] \in y.o + 1 .. m
        BY <1>2, <3>1, <3>5
      <4>2. s[1] \notin next
        <5>1. ~(o <= s[1])
          BY <2>4, <3>1, <3>5
        <5> QED BY <2>3, <5>1
      <4>3. ~KeepsOuter /\ Stops(s[1], 1) = {}
        BY <1>3, <4>1, <4>2
      <4>4. s[2] # 0 /\ s[2] \in Met(query, s[1])
        BY <3>1, <4>3, AsAsked
      <4>5. s[2] \in Stops(s[1], 0 + 1)
        BY <3>1, <4>4, StopsWhereMet DEF m
      <4> QED BY <4>3, <4>5
    <3>6. CASE o <= s[1]
      BY <1>2, <2>4, <3>1, <3>2, <3>3, <3>6
    <3> QED BY <1>2, <2>4, <3>1, <3>4, <3>5, <3>6
  <2>9. NextNested(y) = Probe(w)
    BY <1>1, <1>9, <2>1, <2>2
  <2>10. Pairs(query) \subseteq Passed(query, w) => Pairs(query) \subseteq Passed(query, y)
    BY <2>8
  <2>11. ASSUME NEW z, NEW p PROVE AddsPair(query, w, z, p) => AddsPair(query, y, z, p)
    BY <2>8 DEF AddsPair
  <2>12. ASSUME NEW z PROVE AddsNone(query, w, z) => AddsNone(query, y, z)
    BY <2>8 DEF AddsNone
  <2> QED BY <2>7, <2>9, <2>10, <2>11, <2>12 DEF GoodStep, GoodRow
<1> QED BY <1>6, <1>7, <1>8, <1>9

-----------------------------------------------------------------------------
(* IndexedNestedLoopJoin *)

\* Equality, as an index and a hash table know it, is that of the condition.
LEMMA EqualMeets ==
    ASSUME NEW q, q.op = "EQ", NEW o, NEW i
    PROVE  /\ Meets(q, o, i) <=> Equal(q.outer[o][1], q.inner[i][1])
           /\ Meets(q, o, i) <=> Equal(q.inner[i][1], q.outer[o][1])
<1>1. PICK f, g : f = q.outer[o][1] /\ g = q.inner[i][1]
  OBVIOUS
<1>2. Compare(q.op, f.value, g.value) <=> f.value = g.value
  BY DEF Compare
<1>3. Meets(q, o, i) <=> Comparable(f, g) /\ f.value = g.value
  BY <1>1, <1>2 DEF Meets
<1> QED BY <1>1, <1>3 DEF Equal, Comparable

\* No pair of an inner join is padded.
LEMMA InnerPairs ==
    ASSUME NEW q, QueryOK(q), q.type = "INNER", NEW s \in Pairs(q)
    PROVE  s[2] \in Met(q, s[1]) /\ s[2] \in 1 .. Len(q.inner)
<1>1. ~Left(q)
  BY DEF Left
<1>2. s[2] \in 0 .. Len(q.inner) /\ s[2] # 0 /\ s[2] \in Met(q, s[1]) /\ Len(q.inner) \in Nat
  BY <1>1, PairsAre DEF QueryOK, IsTable
<1> QED BY <1>2

LEMMA WiderSeq ==
    ASSUME NEW S, NEW T, S \subseteq T, NEW s \in Seq(S)
    PROVE  s \in Seq(T)
  OBVIOUS

\* A search of the index finds the matches of an outer row, each once.
LEMMA SearchFinds ==
    ASSUME QueryOK(query), query.kind = "indexed", NEW o \in 1 .. Len(query.outer)
    PROVE  LET s == Search(query.outer[o][1]) IN
           /\ s \in Seq(1 .. Len(query.inner)) /\ IsInjective(s)
           /\ ToSet(s) = Met(query, o)
           /\ s = <<>> <=> Met(query, o) = {}
<1> DEFINE f == query.outer[o][1]
           S == {i \in query.indexed : Equal(query.inner[i][1], f)}
<1>1. query.indexed \subseteq 1 .. Len(query.inner) /\ query.op = "EQ" /\ Len(query.inner) \in Nat
  BY DEF QueryOK, IsTable
<1>2. S = Met(query, o)
  BY <1>1, EqualMeets DEF Met, Among
<1>3. IsFiniteSet(1 .. Len(query.inner)) /\ S \subseteq 1 .. Len(query.inner)
  <2>1. 1 \in Int /\ Len(query.inner) \in Int
    BY <1>1
  <2> QED BY <1>1, <2>1, FS_Interval
<1>4. IsFiniteSet(S)
  BY <1>3, FS_Subset
<1>5. Search(f) = SetToSeq(S)
  BY DEF Search
<1> HIDE DEF S, f
<1>6. SetToSeq(S) \in Seq(S) /\ ToSet(SetToSeq(S)) = S /\ IsInjective(SetToSeq(S))
      /\ (SetToSeq(S) = <<>> <=> S = {})
  BY <1>4, Enumerated
<1>7. SetToSeq(S) \in Seq(1 .. Len(query.inner))
  BY <1>3, <1>6, WiderSeq
<1> QED BY <1>2, <1>5, <1>6, <1>7 DEF f

\* A sequence without repetitions is its front and its last element.
LEMMA FrontAndLast ==
    ASSUME NEW S, NEW s \in Seq(S), s # <<>>, IsInjective(s)
    PROVE  /\ Front(s) \in Seq(S) /\ IsInjective(Front(s))
           /\ Last(s) \in ToSet(s) /\ ToSet(Front(s)) = ToSet(s) \ {Last(s)}
<1> DEFINE t == Front(s)
<1>1. PICK n \in Nat : n = Len(s)
  OBVIOUS
<1>2. n \in Nat /\ n >= 1 /\ DOMAIN s = 1 .. n /\ \A i \in 1 .. n : s[i] \in S
  BY <1>1
<1>3. t = SubSeq(s, 1, n - 1)
  BY <1>1 DEF Front
<1>4. t \in Seq(S) /\ Len(t) = n - 1 /\ DOMAIN t = 1 .. n - 1 /\ \A i \in 1 .. n - 1 : t[i] = s[i]
  BY <1>2, <1>3
<1>5. Last(s) = s[n] /\ n \in 1 .. n
  BY <1>1, <1>2 DEF Last
<1>6. \A i \in 1 .. n : i \in 1 .. n - 1 \/ i = n
  BY <1>2
<1>7. \A i \in 1 .. n - 1 : i \in 1 .. n /\ i # n
  BY <1>2
<1> HIDE DEF t
<1>8. IsInjective(t)
  BY <1>2, <1>4, <1>7 DEF IsInjective
<1>9. Last(s) \in ToSet(s)
  BY <1>2, <1>5 DEF ToSet
<1>10. ToSet(t) = ToSet(s) \ {Last(s)}
  <2>1. ASSUME NEW i \in 1 .. n - 1 PROVE s[i] # s[n]
    BY <1>2, <1>5, <1>7 DEF IsInjective
  <2>2. ToSet(t) = {s[i] : i \in 1 .. n - 1}
    BY <1>4 DEF ToSet
  <2>3. ToSet(s) = {s[i] : i \in 1 .. n}
    BY <1>2 DEF ToSet
  <2> QED BY <1>5, <1>6, <1>7, <2>1, <2>2, <2>3
<1> QED BY <1>4, <1>8, <1>9, <1>10 DEF t

\* The pairs an indexed join has passed, among those there are.
LEMMA IndexedPassed ==
    ASSUME QueryOK(query), query.kind = "indexed", NEW y, NEW s \in Pairs(query)
    PROVE  s \in Passed(query, y) <=>
               \/ s[1] < y.o
               \/ s[1] = y.o /\ s[2] \notin ToSet(y.inner_matches)
  BY PairsAre DEF Passed, PassedIndexed

\* One of the matches is taken.
LEMMA TakenStep ==
    ASSUME QueryOK(query), query.kind = "indexed", NEW rows, NEW re,
           NEW y, AreMembers(y), IndexedOK(query, y, "open"), y.inner_matches # <<>>
    PROVE  GoodStep(query, y, rows, re, Taken(y))
<1> DEFINE s == y.inner_matches
           w == [y EXCEPT !.inner_matches = Front(y.inner_matches)]
           l == Last(y.inner_matches)
           p == <<y.o, l>>
<1>1. /\ s \in Seq(1 .. Len(query.inner)) /\ s # <<>> /\ IsInjective(s)
      /\ y.o \in 1 .. Len(query.outer) /\ y.o \in Int /\ Len(query.outer) \in Nat
      /\ ToSet(s) \subseteq Met(query, y.o)
  BY DEF IndexedOK, QueryOK, IsTable
<1>2. /\ Front(s) \in Seq(1 .. Len(query.inner)) /\ IsInjective(Front(s))
      /\ l \in ToSet(s) /\ ToSet(Front(s)) = ToSet(s) \ {l}
  BY <1>1, FrontAndLast
<1>3. AreMembers(w) /\ w.inner_matches = Front(s) /\ w.o = y.o
  <2>1. /\ AreMembers(w) /\ w.inner_matches = Front(y.inner_matches)
        /\ SameBut(y, w, {"inner_matches"})
    BY SetMatches, Zenon
  <2>2. w.o = y.o
    BY <2>1 DEF SameBut
  <2> QED BY <2>1, <2>2
<1>4. Taken(y) = Returns(w, Joined(y.o, l))
  BY DEF Taken
<1>5. l \in 1 .. Len(query.inner) /\ Len(query.inner) \in Nat
  BY <1>1, <1>2 DEF Met, Among, QueryOK, IsTable
<1> HIDE DEF w, s, l
<1>6. p \in Pairs(query)
  <2>1. p[1] = y.o /\ p[2] = l
    OBVIOUS
  <2>2. l \in Met(query, y.o) /\ l # 0 /\ l \in 0 .. Len(query.inner)
    BY <1>1, <1>2, <1>5
  <2>3. p \in (1 .. Len(query.outer)) \X (0 .. Len(query.inner))
    BY <1>1, <2>2
  <2> HIDE DEF p
  <2> QED BY <2>1, <2>2, <2>3 DEF Pairs
<1>7. p \notin Passed(query, y)
  <2>1. p[1] = y.o /\ p[2] = l /\ ~(y.o < y.o) /\ l \in ToSet(y.inner_matches)
    BY <1>1, <1>2 DEF s
  <2> HIDE DEF p
  <2> QED BY <1>6, <2>1, IndexedPassed
<1>8. ASSUME NEW t \in Pairs(query)
      PROVE  t \in Passed(query, w) <=> t \in Passed(query, y) \/ t = p
  <2>1. t[1] \in Int /\ t = <<t[1], t[2]>>
    BY PairsAre
  <2>2. t \in Passed(query, w) <=> t[1] < y.o \/ (t[1] = y.o /\ t[2] \notin ToSet(s) \ {l})
    BY <1>2, <1>3, IndexedPassed
  <2>3. t \in Passed(query, y) <=> t[1] < y.o \/ (t[1] = y.o /\ t[2] \notin ToSet(s))
    BY IndexedPassed DEF s
  <2>4. t = p <=> t[1] = y.o /\ t[2] = l
    BY <2>1
  <2> QED BY <1>2, <2>2, <2>3, <2>4
<1>9. AddsPair(query, y, w, p)
  BY <1>6, <1>7, <1>8 DEF AddsPair
<1>10. Joined(y.o, l) = RowAt(query, p)
  BY <1>5, AsAsked
<1>11. IndexedOK(query, w, "open")
  <2>1. ToSet(w.inner_matches) \subseteq Met(query, w.o)
    BY <1>1, <1>2, <1>3
  <2>2. w.o \in 0 .. Len(query.outer) /\ w.o # 0
    BY <1>1, <1>3
  <2> QED BY <1>2, <1>3, <2>1, <2>2 DEF IndexedOK
<1>12. MembersOK(query, w, Append(rows, Joined(y.o, l)), "open", re)
  BY <1>3, <1>11 DEF MembersOK
<1> QED BY <1>4, <1>6, <1>9, <1>10, <1>12, Results DEF GoodStep, GoodRow

\* A call of getNext of the nested loop join over an index.
LEMMA IndexedStep ==
    ASSUME QueryOK(query), query.kind = "indexed", NEW rows, NEW re,
           NEW y, AreMembers(y), IndexedOK(query, y, "open")
    PROVE  GoodStep(query, y, rows, re, NextIndexed(y))
<1> DEFINE m == Len(query.outer)
           next == {o \in y.o + 1 .. Len(query.outer) : Search(query.outer[o][1]) # <<>>}
<1>1. m \in Nat /\ y.o \in 0 .. m /\ y.o \in Int
  BY DEF IndexedOK, QueryOK, IsTable
<1>2. /\ next \in SUBSET Nat /\ next \subseteq y.o + 1 .. m
      /\ \A o \in y.o + 1 .. m : o \in next <=> Search(query.outer[o][1]) # <<>>
  BY <1>1
<1>3. ASSUME NEW s \in Pairs(query)
      PROVE  /\ s[1] \in 1 .. m /\ s[1] \in Int
             /\ s[2] \in Met(query, s[1]) /\ Search(query.outer[s[1]][1]) # <<>>
  <2>1. query.type = "INNER"
    BY DEF QueryOK
  <2>2. s[1] \in 1 .. m /\ s[1] \in Int /\ s[2] \in Met(query, s[1])
    BY <2>1, PairsAre, InnerPairs
  <2> QED BY <2>2, SearchFinds
<1>4. CASE y.inner_matches # <<>>
  <2>1. NextIndexed(y) = Taken(y)
    BY <1>4 DEF NextIndexed
  <2> QED BY <1>4, <2>1, TakenStep
<1>5. CASE y.inner_matches = <<>> /\ next = {}
  <2>1. PICK w : w = [y EXCEPT !.o = m]
    OBVIOUS
  <2>2. NextIndexed(y) = Ends(w)
    BY <1>5, <2>1 DEF NextIndexed
  <2>3. AreMembers(w) /\ w.o = m /\ w.inner_matches = <<>>
    <3>1. AreMembers(w) /\ w.o = m /\ SameBut(y, w, {"o"})
      BY <2>1, SetO
    <3> HIDE DEF next, m
    <3> QED BY <1>5, <3>1 DEF SameBut
  <2> HIDE DEF next
  <2>4. ToSet(<<>>) = {} /\ <<>> \in Seq(1 .. Len(query.inner)) /\ IsInjective(<<>>)
    BY DEF ToSet, IsInjective
  <2>5. IndexedOK(query, w, "done")
    <3>1. w.o \in 0 .. m
      BY <1>1, <2>3
    <3> QED BY <2>3, <2>4, <3>1 DEF IndexedOK
  <2>6. MembersOK(query, w, rows, "done", re)
    BY <2>3, <2>5 DEF MembersOK
  <2>7. ASSUME NEW s \in Pairs(query)
        PROVE  s \in Passed(query, y)
    <3>1. s[1] \in 1 .. m /\ s[1] \in Int /\ Search(query.outer[s[1]][1]) # <<>>
      BY <1>3
    <3>2. s[1] \notin y.o + 1 .. m
      BY <1>2, <1>5, <3>1
    <3>3. s[1] < y.o \/ s[1] = y.o
      BY <1>1, <3>1, <3>2
    <3> QED BY <1>5, <2>4, <3>3, IndexedPassed
  <2> QED BY <2>2, <2>6, <2>7, Results DEF GoodStep
<1>6. CASE y.inner_matches = <<>> /\ next # {}
  <2>1. PICK o : o = Min(next)
    OBVIOUS
  <2>2. PICK f : f = Search(query.outer[o][1])
    OBVIOUS
  <2>3. PICK v : v = [y EXCEPT !.o = o]
    OBVIOUS
  <2>4. PICK w : w = [v EXCEPT !.inner_matches = f]
    OBVIOUS
  <2>5. NextIndexed(y) = Taken(w)
    BY <1>6, <2>1, <2>2, <2>3, <2>4 DEF NextIndexed
  <2>6. AreMembers(w) /\ w.o = o /\ w.inner_matches = f
    <3>1. AreMembers(v) /\ v.o = o
      BY <2>3, SetO
    <3> QED BY <2>4, <3>1, SetMatches DEF SameBut
  <2>7. o \in next /\ \A k \in next : o <= k
    BY <1>2, <1>6, <2>1, Least
  <2> HIDE DEF next
  <2>8. o \in y.o + 1 .. m /\ o \in Int /\ o \in 1 .. m /\ y.o < o /\ f # <<>>
    BY <1>1, <1>2, <2>2, <2>7
  <2>9. f \in Seq(1 .. Len(query.inner)) /\ IsInjective(f) /\ ToSet(f) = Met(query, o)
    BY <2>2, <2>8, SearchFinds
  <2>10. IndexedOK(query, w, "open")
    <3>1. o \in 0 .. m /\ o # 0
      BY <1>1, <2>8
    <3> QED BY <2>6, <2>9, <3>1 DEF IndexedOK
  <2>11. GoodStep(query, w, rows, re, Taken(w))
    BY <2>6, <2>8, <2>10, TakenStep
  <2>12. ASSUME NEW s \in Pairs(query)
         PROVE  s \in Passed(query, w) <=> s \in Passed(query, y)
    <3>1. /\ s[1] \in 1 .. m /\ s[1] \in Int
          /\ s[2] \in Met(query, s[1]) /\ Search(query.outer[s[1]][1]) # <<>>
      BY <1>3
    <3>2. s \in Passed(query, w) <=> s[1] < o
      BY <2>6, <2>9, <3>1, IndexedPassed
    <3>3. s \in Passed(query, y) <=> s[1] < y.o \/ s[1] = y.o
      <4>1. ToSet(<<>>) = {}
        BY DEF ToSet
      <4> QED BY <1>6, <4>1, IndexedPassed
    <3>4. ~(y.o < s[1] /\ s[1] < o)
      <4> SUFFICES ASSUME y.o < s[1], s[1] < o
                   PROVE  FALSE
        OBVIOUS
      <4>1. s[1] \in y.o + 1 .. m
        BY <1>1, <3>1
      <4>2. ~(o <= s[1])
        BY <2>8, <3>1
      <4> QED BY <1>2, <2>7, <3>1, <4>1, <4>2
    <3> QED BY <1>1, <2>8, <3>1, <3>2, <3>3, <3>4
  <2>13. ASSUME NEW z, NEW p PROVE AddsPair(query, w, z, p) => AddsPair(query, y, z, p)
    BY <2>12 DEF AddsPair
  <2>14. ASSUME NEW z PROVE AddsNone(query, w, z) => AddsNone(query, y, z)
    BY <2>12 DEF AddsNone
  <2>15. Pairs(query) \subseteq Passed(query, w) => Pairs(query) \subseteq Passed(query, y)
    BY <2>12
  <2> QED BY <2>5, <2>11, <2>13, <2>14, <2>15 DEF GoodStep, GoodRow
<1> QED BY <1>4, <1>5, <1>6

-----------------------------------------------------------------------------
(* HashJoin *)

\* The bucket of an inner row lists the places of the outer rows that meet it.
LEMMA BucketLists ==
    ASSUME QueryOK(query), query.kind = "hash", NEW i \in 1 .. Len(query.inner)
    PROVE  LET b == BucketOf(query, i) IN
           /\ b \in Seq(1 .. Len(query.outer)) /\ IsInjective(b) /\ Len(b) \in Nat
           /\ \A k \in 1 .. Len(b) : b[k] \in 1 .. Len(query.outer) /\ i \in Met(query, b[k])
           /\ \A o \in 1 .. Len(query.outer) :
                  i \in Met(query, o) => b # <<>> /\ \E k \in 1 .. Len(b) : b[k] = o
<1> DEFINE S == {p \in 1 .. Len(query.outer) : Equal(query.outer[p][1], query.inner[i][1])}
           b == SetToSeq(S)
<1>1. query.op = "EQ" /\ Len(query.outer) \in Nat
  BY DEF QueryOK, IsTable
<1>2. \A p \in 1 .. Len(query.outer) : p \in S <=> i \in Met(query, p)
  BY <1>1, EqualMeets DEF Met, Among
<1>3. IsFiniteSet(1 .. Len(query.outer)) /\ S \subseteq 1 .. Len(query.outer)
  <2>1. 1 \in Int /\ Len(query.outer) \in Int
    BY <1>1
  <2> QED BY <1>1, <2>1, FS_Interval
<1>4. IsFiniteSet(S)
  BY <1>3, FS_Subset
<1>5. BucketOf(query, i) = b
  BY DEF BucketOf
<1> HIDE DEF S
<1>6. b \in Seq(S) /\ ToSet(b) = S /\ IsInjective(b) /\ (b = <<>> <=> S = {})
  BY <1>4, Enumerated
<1> HIDE DEF b
<1>7. b \in Seq(1 .. Len(query.outer))
  BY <1>3, <1>6, WiderSeq
<1>8. Len(b) \in Nat /\ DOMAIN b = 1 .. Len(b)
  BY <1>6
<1>9. S = {b[k] : k \in 1 .. Len(b)}
  BY <1>6, <1>8 DEF ToSet
<1>10. \A k \in 1 .. Len(b) : b[k] \in 1 .. Len(query.outer) /\ i \in Met(query, b[k])
  BY <1>2, <1>3, <1>9
<1>11. \A o \in 1 .. Len(query.outer) :
           i \in Met(query, o) => b # <<>> /\ \E k \in 1 .. Len(b) : b[k] = o
  BY <1>2, <1>6, <1>9
<1> QED BY <1>5, <1>6, <1>7, <1>8, <1>10, <1>11

LEMMA BucketIs ==
    ASSUME NEW y, y.hashed = query.outer, NEW i
    PROVE  Bucket(y, query.inner[i][1]) = BucketOf(query, i)
  BY DEF Bucket, BucketOf

LEMMA BucketLength ==
    ASSUME QueryOK(query), NEW y, y.hashed = query.outer, NEW f
    PROVE  Len(Bucket(y, f)) \in Nat
<1> DEFINE S == {p \in 1 .. Len(y.hashed) : Equal(y.hashed[p][1], f)}
<1>1. 1 \in Int /\ Len(y.hashed) \in Int
  BY DEF QueryOK, IsTable
<1>2. IsFiniteSet(1 .. Len(y.hashed)) /\ S \subseteq 1 .. Len(y.hashed)
  BY <1>1, FS_Interval
<1>3. IsFiniteSet(S)
  BY <1>2, FS_Subset
<1>4. Bucket(y, f) = SetToSeq(S)
  BY DEF Bucket
<1> HIDE DEF S
<1>5. SetToSeq(S) \in Seq(S)
  BY <1>3, Enumerated
<1> QED BY <1>4, <1>5

\* The pairs a hash join has passed, among those there are.
LEMMA HashPassed ==
    ASSUME QueryOK(query), query.kind = "hash", NEW y, NEW s \in Pairs(query)
    PROVE  s \in Passed(query, y) <=>
               \/ s[2] < y.i
               \/ s[2] = y.i /\ \E k \in 1 .. y.tuple_index : BucketOf(query, y.i)[k] = s[1]
  BY PairsAre DEF Passed, PassedHash

\* The pairs of a query of a hash join.
LEMMA HashPairs ==
    ASSUME QueryOK(query), query.kind = "hash", NEW s \in Pairs(query)
    PROVE  /\ s[1] \in 1 .. Len(query.outer) /\ s[2] \in 1 .. Len(query.inner)
           /\ s[2] \in Int /\ s[2] >= 1 /\ s = <<s[1], s[2]>>
           /\ BucketOf(query, s[2]) # <<>>
           /\ \E k \in 1 .. Len(BucketOf(query, s[2])) : BucketOf(query, s[2])[k] = s[1]
<1>1. query.type = "INNER"
  BY DEF QueryOK
<1>2. /\ s[1] \in 1 .. Len(query.outer) /\ s[2] \in 1 .. Len(query.inner)
      /\ s[2] \in Met(query, s[1]) /\ s = <<s[1], s[2]>> /\ s[2] \in Int
  BY <1>1, PairsAre, InnerPairs
<1>3. s[2] >= 1
  BY <1>2
<1> QED BY <1>2, <1>3, BucketLists

\* A hash join whose hash table is built, at some inner row; at none only when
\* it was opened again.
HashReady(q, y, re) ==
    /\ y.o \in 0 .. Len(q.outer) /\ y.i \in 0 .. Len(q.inner) /\ y.tuple_index \in Nat
    /\ y.is_hash_built /\ y.hashed = q.outer
    /\ y.i >= 1 => /\ y.curr_inner = q.inner[y.i]
                   /\ y.tuple_index <= Len(BucketOf(q, y.i))
    /\ y.i = 0 => re
    /\ Len(q.inner) >= 1

\* The next row of the bucket is returned.
LEMMA MatchedStep ==
    ASSUME QueryOK(query), query.kind = "hash", NEW rows, rows \in Seq(ToSet(rows)), NEW re,
           NEW y, AreMembers(y), HashReady(query, y, re),
           y.i >= 1 => y.tuple_index < Len(BucketOf(query, y.i))
    PROVE  GoodStep(query, y, rows, re, Matched(y, y.tuple_index + 1))
<1>1. PICK n : n = y.tuple_index + 1
  OBVIOUS
<1>2. PICK row : row = y.hashed[Bucket(y, y.curr_inner[1])[n]] \o y.curr_inner
  OBVIOUS
<1>3. PICK w : w = [y EXCEPT !.tuple_index = n]
  OBVIOUS
<1>4. Matched(y, y.tuple_index + 1) = Returns(w, row)
  BY <1>1, <1>2, <1>3 DEF Matched
<1>5. AreMembers(w) /\ w.tuple_index = n /\ SameBut(y, w, {"tuple_index"})
  BY <1>3, SetIndex
<1>6. /\ w.o = y.o /\ w.i = y.i /\ w.is_hash_built = y.is_hash_built
      /\ w.hashed = y.hashed /\ w.curr_inner = y.curr_inner
  BY <1>5 DEF SameBut
<1>7. y.tuple_index \in Nat /\ n \in Nat /\ y.i \in Int /\ Len(query.inner) \in Nat
  BY <1>1 DEF HashReady, QueryOK, IsTable
<1>8. MembersOK(query, w, Append(rows, row), "open", re)
  <2>1. Append(rows, row) # <<>>
    BY OneMore
  <2>2. y.i >= 1 => n <= Len(BucketOf(query, y.i))
    <3> SUFFICES ASSUME y.i >= 1
                 PROVE  n <= Len(BucketOf(query, y.i))
      OBVIOUS
    <3>1. y.i \in 1 .. Len(query.inner)
      BY <1>7 DEF HashReady
    <3>2. Len(BucketOf(query, y.i)) \in Nat
      BY <3>1, BucketLists
    <3> QED BY <1>1, <1>7, <3>2
  <2>3. y.i = 0 \/ y.i >= 1
    BY <1>7 DEF HashReady
  <2>4. HashOK(query, w, Append(rows, row), "open", re)
    BY <1>5, <1>6, <1>7, <2>1, <2>2, <2>3 DEF HashReady, HashOK
  <2> QED BY <1>5, <2>4 DEF MembersOK
<1>9. CASE y.i = 0
  <2>1. AddsNone(query, y, w)
    <3> SUFFICES ASSUME NEW s \in Pairs(query)
                 PROVE  s \notin Passed(query, w)
      BY DEF AddsNone
    <3>1. ~(s[2] < 0) /\ s[2] # 0
      BY HashPairs
    <3> QED BY <1>6, <1>9, <3>1, HashPassed
  <2>2. ~Exact(query, re)
    BY <1>9 DEF Exact, HashReady
  <2> QED BY <1>4, <1>8, <2>1, <2>2, Results DEF GoodStep, GoodRow
<1>10. CASE y.i # 0
  <2>1. PICK b : b = BucketOf(query, y.i)
    OBVIOUS
  <2>2. y.i \in 1 .. Len(query.inner) /\ y.i >= 1
    BY <1>7, <1>10 DEF HashReady
  <2>3. /\ IsInjective(b) /\ Len(b) \in Nat /\ b \in Seq(1 .. Len(query.outer))
        /\ \A k \in 1 .. Len(b) : b[k] \in 1 .. Len(query.outer) /\ y.i \in Met(query, b[k])
    BY <2>1, <2>2, BucketLists
  <2>4. n \in 1 .. Len(b) /\ DOMAIN b = 1 .. Len(b)
    BY <1>1, <1>7, <2>1, <2>2, <2>3
  <2>5. PICK p : p = <<b[n], y.i>>
    OBVIOUS
  <2>6. p[1] = b[n] /\ p[2] = y.i /\ p = <<p[1], p[2]>>
    BY <2>5
  <2>7. p \in Pairs(query)
    <3>1. b[n] \in 1 .. Len(query.outer) /\ y.i \in Met(query, b[n])
      BY <2>3, <2>4
    <3>2. y.i \in 0 .. Len(query.inner)
      BY <1>7, <2>2
    <3> QED BY <1>10, <2>5, <3>1, <3>2 DEF Pairs
  <2>8. row = RowAt(query, p)
    <3>1. y.hashed = query.outer /\ y.curr_inner = query.inner[y.i]
      BY <2>2 DEF HashReady
    <3>2. Bucket(y, y.curr_inner[1]) = b
      BY <2>1, <3>1, BucketIs
    <3> QED BY <1>2, <1>10, <2>6, <3>1, <3>2 DEF RowAt
  <2>9. ASSUME NEW s \in Pairs(query)
        PROVE  s \in Passed(query, w) <=> s \in Passed(query, y) \/ s = p
    <3>1. s[2] \in Int /\ s = <<s[1], s[2]>>
      BY HashPairs
    <3>2. s \in Passed(query, w) <=> s[2] < y.i \/ (s[2] = y.i /\ \E k \in 1 .. n : b[k] = s[1])
      BY <1>5, <1>6, <2>1, HashPassed
    <3>3. s \in Passed(query, y) <=>
              s[2] < y.i \/ (s[2] = y.i /\ \E k \in 1 .. y.tuple_index : b[k] = s[1])
      BY <2>1, HashPassed
    <3>4. (\E k \in 1 .. n : b[k] = s[1]) <=> (\E k \in 1 .. y.tuple_index : b[k] = s[1]) \/ b[n] = s[1]
      <4>1. \A k \in 1 .. n : k \in 1 .. y.tuple_index \/ k = n
        BY <1>1, <1>7
      <4>2. \A k \in 1 .. y.tuple_index : k \in 1 .. n
        BY <1>1, <1>7
      <4>3. n \in 1 .. n
        BY <1>1, <1>7
      <4> QED BY <4>1, <4>2, <4>3
    <3>5. s = p <=> s[1] = b[n] /\ s[2] = y.i
      BY <2>6, <3>1
    <3>6. s[2] = y.i => ~(s[2] < y.i)
      BY <1>7, <3>1
    <3> QED BY <3>2, <3>3, <3>4, <3>5, <3>6
  <2>10. p \notin Passed(query, y)
    <3>1. ~(y.i < y.i)
      BY <1>7
    <3>2. ASSUME NEW k \in 1 .. y.tuple_index PROVE b[k] # b[n]
      <4>1. k \in 1 .. Len(b) /\ k # n
        BY <1>1, <1>7, <2>3, <2>4
      <4> QED BY <2>3, <2>4, <4>1 DEF IsInjective
    <3> QED BY <2>1, <2>6, <2>7, <3>1, <3>2, HashPassed
  <2>11. AddsPair(query, y, w, p)
    BY <2>7, <2>9, <2>10 DEF AddsPair
  <2> QED BY <1>4, <1>8, <2>7, <2>8, <2>11, Results DEF GoodStep, GoodRow
<1> QED BY <1>9, <1>10

\* What comes from the current inner row on.
LEMMA NextMatchStep ==
    ASSUME QueryOK(query), query.kind = "hash", NEW rows, rows \in Seq(ToSet(rows)), NEW re,
           NEW y, AreMembers(y), HashReady(query, y, re)
    PROVE  GoodStep(query, y, rows, re, NextMatch(y))
<1>1. PICK n : n = Len(query.inner)
  OBVIOUS
<1>2. PICK next : next = {i \in y.i + 1 .. n : Bucket(y, query.inner[i][1]) # <<>>}
  OBVIOUS
<1>3. PICK len : len = Len(Bucket(y, y.curr_inner[1]))
  OBVIOUS
<1>4. NextMatch(y) =
          CASE y.tuple_index < len -> Matched(y, y.tuple_index + 1)
            [] y.tuple_index >= len /\ next = {} -> Ends(Turned(y, n))
            [] OTHER -> Matched(Turned(y, Min(next)), 1)
  BY <1>1, <1>2, <1>3 DEF NextMatch
<1>5. n \in Nat /\ n >= 1 /\ y.i \in 0 .. n /\ y.i \in Int /\ y.tuple_index \in Nat /\ len \in Nat
  <2>1. len \in Nat
    BY <1>3, BucketLength DEF HashReady
  <2> QED BY <1>1, <2>1 DEF HashReady, QueryOK, IsTable
<1>6. /\ next \in SUBSET Nat /\ next \subseteq y.i + 1 .. n
      /\ \A i \in y.i + 1 .. n : i \in next <=> BucketOf(query, i) # <<>>
  BY <1>2, <1>5, BucketIs DEF HashReady
<1>7. y.i >= 1 => len = Len(BucketOf(query, y.i))
  <2> SUFFICES ASSUME y.i >= 1
               PROVE  len = Len(BucketOf(query, y.i))
    OBVIOUS
  <2>1. y.curr_inner = query.inner[y.i] /\ y.hashed = query.outer
    BY DEF HashReady
  <2>2. y.i \in 1 .. Len(query.inner)
    BY <1>1, <1>5
  <2> QED BY <1>3, <2>1, <2>2, BucketIs
<1>8. ASSUME y.i >= 1 => y.tuple_index >= len, NEW s \in Pairs(query), s[2] <= y.i
      PROVE  s \in Passed(query, y)
  <2>1. /\ s[2] \in Int /\ s[2] >= 1
        /\ \E k \in 1 .. Len(BucketOf(query, s[2])) : BucketOf(query, s[2])[k] = s[1]
    BY HashPairs
  <2>2. s[2] < y.i \/ s[2] = y.i
    BY <1>5, <1>8, <2>1
  <2>3. CASE s[2] = y.i
    <3>1. len = y.tuple_index /\ len = Len(BucketOf(query, y.i))
      <4>1. y.i >= 1
        BY <2>1, <2>3
      <4>2. y.tuple_index <= Len(BucketOf(query, y.i))
        BY <4>1 DEF HashReady
      <4> QED BY <1>5, <1>7, <1>8, <4>1, <4>2
    <3> QED BY <2>1, <2>3, <3>1, HashPassed
  <2> QED BY <2>2, <2>3, HashPassed
<1>9. CASE y.tuple_index < len
  <2>1. NextMatch(y) = Matched(y, y.tuple_index + 1)
    <3>1. ~(y.tuple_index >= len)
      BY <1>5, <1>9
    <3> QED BY <1>4, <1>9, <3>1
  <2>2. y.i >= 1 => y.tuple_index < Len(BucketOf(query, y.i))
    BY <1>7, <1>9
  <2> QED BY <2>1, <2>2, MatchedStep
<1>10. CASE ~(y.tuple_index < len) /\ next = {}
  <2>1. y.i >= 1 => y.tuple_index >= len
    BY <1>5, <1>7, <1>10
  <2>2. PICK w : w = Turned(y, n)
    OBVIOUS
  <2>3. /\ AreMembers(w) /\ w.tuple_index = 0 /\ w.i = n /\ w.curr_inner = query.inner[n]
        /\ w.o = y.o /\ w.is_hash_built = y.is_hash_built /\ w.hashed = y.hashed
    BY <2>2, TurnedSets DEF SameBut
  <2>4. HashOK(query, w, rows, "done", re)
    <3>1. 0 <= Len(BucketOf(query, n)) /\ 0 \in Nat
      <4>1. n \in 1 .. Len(query.inner)
        BY <1>1, <1>5
      <4> QED BY <4>1, BucketLists
    <3>2. w.i \in 0 .. Len(query.inner) /\ Len(query.inner) >= 1
      BY <1>1, <1>5, <2>3
    <3> QED BY <2>3, <3>1, <3>2 DEF HashOK, HashReady
  <2>5. MembersOK(query, w, rows, "done", re)
    BY <2>3, <2>4 DEF MembersOK
  <2>6. ASSUME NEW s \in Pairs(query)
        PROVE  s \in Passed(query, y)
    <3>1. s[2] \in 1 .. n /\ s[2] \in Int /\ BucketOf(query, s[2]) # <<>>
      BY <1>1, HashPairs
    <3>2. s[2] \notin y.i + 1 .. n
      BY <1>6, <1>10, <3>1
    <3>3. s[2] <= y.i
      BY <1>5, <3>1, <3>2
    <3> QED BY <1>8, <2>1, <3>3
  <2>7. NextMatch(y) = Ends(w)
    <3>1. y.tuple_index >= len
      BY <1>5, <1>10
    <3> QED BY <1>4, <1>10, <2>2, <3>1
  <2> QED BY <2>5, <2>6, <2>7, Results DEF GoodStep
<1>11. CASE ~(y.tuple_index < len) /\ next # {}
  <2>1. y.i >= 1 => y.tuple_index >= len
    BY <1>5, <1>7, <1>11
  <2>2. PICK i : i = Min(next)
    OBVIOUS
  <2>3. PICK w : w = Turned(y, i)
    OBVIOUS
  <2>4. NextMatch(y) = Matched(w, 1)
    BY <1>4, <1>11, <2>2, <2>3
  <2>5. i \in next /\ \A k \in next : i <= k
    BY <1>6, <1>11, <2>2, Least
  <2>6. /\ i \in y.i + 1 .. n /\ i \in Int /\ i \in 1 .. Len(query.inner) /\ y.i < i /\ i >= 1
        /\ BucketOf(query, i) # <<>>
    BY <1>1, <1>5, <1>6, <2>5
  <2>7. /\ AreMembers(w) /\ w.tuple_index = 0 /\ w.i = i /\ w.curr_inner = query.inner[i]
        /\ w.o = y.o /\ w.is_hash_built = y.is_hash_built /\ w.hashed = y.hashed
    BY <2>3, TurnedSets DEF SameBut
  <2>8. 0 < Len(BucketOf(query, i)) /\ Len(BucketOf(query, i)) \in Nat
    BY <2>6, BucketLists
  <2>9. HashReady(query, w, re)
    <3>1. w.i \in 0 .. Len(query.inner) /\ w.i # 0 /\ w.tuple_index <= Len(BucketOf(query, i))
          /\ w.tuple_index \in Nat
      BY <1>1, <1>5, <2>6, <2>7, <2>8
    <3> QED BY <2>7, <3>1 DEF HashReady
  <2>10. GoodStep(query, w, rows, re, Matched(w, 1))
    <3>1. w.tuple_index + 1 = 1
      BY <2>7
    <3> QED BY <2>7, <2>8, <2>9, <3>1, MatchedStep
  <2>11. ASSUME NEW s \in Pairs(query)
         PROVE  s \in Passed(query, w) <=> s \in Passed(query, y)
    <3>1. s[2] \in 1 .. n /\ s[2] \in Int /\ BucketOf(query, s[2]) # <<>>
      BY <1>1, HashPairs
    <3>2. s \in Passed(query, w) <=> s[2] < i
      <4>1. 1 .. 0 = {}
        OBVIOUS
      <4> QED BY <2>7, <4>1, HashPassed
    <3>3. s \in Passed(query, y) => s[2] <= y.i
      BY <1>5, <3>1, HashPassed
    <3>4. s[2] <= y.i => s \in Passed(query, y)
      BY <1>8, <2>1
    <3>5. ~(y.i < s[2] /\ s[2] < i)
      <4> SUFFICES ASSUME y.i < s[2], s[2] < i
                   PROVE  FALSE
        OBVIOUS
      <4>1. s[2] \in y.i + 1 .. n /\ ~(i <= s[2])
        BY <1>5, <2>6, <3>1
      <4> QED BY <1>6, <2>5, <3>1, <4>1
    <3> QED BY <1>5, <2>6, <3>1, <3>2, <3>3, <3>4, <3>5
  <2>12. ASSUME NEW z, NEW p PROVE AddsPair(query, w, z, p) => AddsPair(query, y, z, p)
    BY <2>11 DEF AddsPair
  <2>13. ASSUME NEW z PROVE AddsNone(query, w, z) => AddsNone(query, y, z)
    BY <2>11 DEF AddsNone
  <2>14. Pairs(query) \subseteq Passed(query, w) => Pairs(query) \subseteq Passed(query, y)
    BY <2>11
  <2> QED BY <2>4, <2>10, <2>12, <2>13, <2>14 DEF GoodStep, GoodRow
<1> QED BY <1>9, <1>10, <1>11

\* A call of getNext of the hash join.
LEMMA HashStep ==
    ASSUME QueryOK(query), query.kind = "hash",
           NEW rows, rows \in Seq(ToSet(rows)), NEW re \in BOOLEAN,
           NEW y, AreMembers(y), HashOK(query, y, rows, "open", re)
    PROVE  GoodStep(query, y, rows, re, NextHash(y))
<1>1. PICK n \in Nat : n = Len(query.inner)
  BY DEF QueryOK, IsTable
<1>2. PICK m \in Nat : m = Len(query.outer)
  BY DEF QueryOK, IsTable
<1>3. query.inner = <<>> <=> n = 0
  BY <1>1 DEF QueryOK, IsTable
<1>4. CASE y.is_hash_built
  <2>1. CASE y.curr_inner = <<>>
    <3>1. NextHash(y) = Undefined(y)
      BY <1>4, <2>1 DEF NextHash
    <3> QED BY <3>1, Results DEF GoodStep
  <2>2. CASE y.curr_inner # <<>>
    <3>1. NextHash(y) = NextMatch(y)
      BY <1>4, <2>2 DEF NextHash
    <3>2. y.i = 0 => re
      <4>1. y.i = 0 => ~(y.i >= 1)
        OBVIOUS
      <4> QED BY <1>4, <4>1 DEF HashOK
    <3>3. HashReady(query, y, re)
      BY <1>4, <2>2, <3>2 DEF HashOK, HashReady
    <3> QED BY <3>1, <3>3, NextMatchStep
  <2> QED BY <2>1, <2>2
<1>5. CASE ~y.is_hash_built
  <2>1. PICK w : w = Built(y)
    OBVIOUS
  <2>2. /\ y.o = 0 /\ y.i = 0 /\ y.tuple_index = 0 /\ y.hashed = <<>> /\ y.curr_inner = <<>> /\ ~re
    BY <1>5 DEF HashOK
  <2>3. w.hashed = query.outer
    <3>1. w.hashed = y.hashed \o SubSeq(query.outer, y.o + 1, Len(query.outer))
      BY <2>1, BuiltSets
    <3>2. PICK S : query.outer \in Seq(S)
      BY DEF QueryOK, IsTable
    <3>3. SubSeq(query.outer, 0 + 1, Len(query.outer)) = query.outer
      BY <3>2
    <3> QED BY <2>2, <3>1, <3>2, <3>3
  <2>4. /\ AreMembers(w) /\ w.o = m /\ w.is_hash_built = TRUE
        /\ w.i = 0 /\ w.tuple_index = 0 /\ w.curr_inner = <<>>
    BY <1>2, <2>1, <2>2, BuiltSets DEF SameBut
  <2>5. CASE query.inner = <<>>
    <3>1. NextHash(y) = Ends(w)
      BY <1>5, <2>1, <2>5 DEF NextHash
    <3>2. HashOK(query, w, rows, "done", re)
      <4>1. m \in 0 .. Len(query.outer) /\ 0 \in 0 .. Len(query.inner) /\ 0 \in Nat /\ ~(0 >= 1)
        BY <1>1, <1>2
      <4> QED BY <2>3, <2>4, <4>1 DEF HashOK
    <3>3. MembersOK(query, w, rows, "done", re)
      BY <2>4, <3>2 DEF MembersOK
    <3>4. \A s \in Pairs(query) : FALSE
      <4> SUFFICES ASSUME NEW s \in Pairs(query)
                   PROVE  FALSE
        OBVIOUS
      <4>1. s[2] \in 1 .. n
        BY <1>1, HashPairs
      <4> QED BY <1>3, <2>5, <4>1
    <3> QED BY <3>1, <3>3, <3>4, Results DEF GoodStep
  <2>6. CASE query.inner # <<>>
    <3>1. PICK z : z = Turned(w, 1)
      OBVIOUS
    <3>2. NextHash(y) = NextMatch(z)
      BY <1>5, <2>1, <2>6, <3>1 DEF NextHash
    <3>3. /\ AreMembers(z) /\ z.o = m /\ z.is_hash_built = TRUE /\ z.hashed = query.outer
          /\ z.i = 1 /\ z.tuple_index = 0 /\ z.curr_inner = query.inner[1]
      BY <2>3, <2>4, <3>1, TurnedSets DEF SameBut
    <3>4. n >= 1 /\ 1 \in 1 .. Len(query.inner)
      BY <1>1, <1>3, <2>6
    <3>5. HashReady(query, z, re)
      <4>1. 0 <= Len(BucketOf(query, 1))
        BY <3>4, BucketLists
      <4>2. m \in 0 .. Len(query.outer) /\ 1 \in 0 .. Len(query.inner) /\ Len(query.inner) >= 1 /\ 0 \in Nat /\ 1 # 0
        BY <1>1, <1>2, <3>4
      <4> QED BY <3>3, <4>1, <4>2 DEF HashReady
    <3>6. GoodStep(query, z, rows, re, NextMatch(z))
      BY <3>3, <3>5, NextMatchStep
    <3>7. ASSUME NEW s \in Pairs(query)
          PROVE  s \notin Passed(query, z) /\ s \notin Passed(query, y)
      <4>1. s[2] \in Int /\ s[2] >= 1 /\ 1 .. 0 = {}
        BY HashPairs
      <4>2. ~(s[2] < 1) /\ ~(s[2] < 0)
        BY <4>1
      <4> QED BY <2>2, <3>3, <4>1, <4>2, HashPassed
    <3>8. ASSUME NEW v, NEW p PROVE AddsPair(query, z, v, p) => AddsPair(query, y, v, p)
      BY <3>7 DEF AddsPair
    <3>9. ASSUME NEW v PROVE AddsNone(query, z, v) => AddsNone(query, y, v)
      BY <3>7 DEF AddsNone
    <3>10. Pairs(query) \subseteq Passed(query, z) => Pairs(query) \subseteq Passed(query, y)
      BY <3>7
    <3> QED BY <3>2, <3>6, <3>8, <3>9, <3>10 DEF GoodStep, GoodRow
  <2> QED BY <2>5, <2>6
<1> QED BY <1>4, <1>5

-----------------------------------------------------------------------------
(* The actions. *)

\* A join that stands before the first rows has passed no pair.
LEMMA NonePassed ==
    ASSUME QueryOK(query), NEW y, y.o = 0, y.i = 0 \/ query.kind # "hash",
           NEW s \in Pairs(query)
    PROVE  s \notin Passed(query, y)
<1>1. s[1] \in Int /\ s[1] >= 1 /\ s[2] \in Int
  BY PairsAre
<1>2. ~(s[1] < 0) /\ s[1] # 0
  BY <1>1
<1>3. CASE query.kind = "nested"
  BY <1>2, <1>3 DEF Passed, PassedNested
<1>4. CASE query.kind = "indexed"
  BY <1>2, <1>4 DEF Passed, PassedIndexed
<1>5. CASE query.kind = "hash"
  <2>1. ~(s[2] < 0) /\ s[2] # 0
    BY <1>5, HashPairs
  <2> QED BY <1>5, <2>1, HashPassed
<1> QED BY <1>3, <1>4, <1>5 DEF QueryOK

LEMMA InitHolds == ASSUME JoinConstants, Init, query \in Queries PROVE Telling
<1>1. query \in Queries /\ x = Members /\ out = <<>> /\ phase = "new" /\ reopened = FALSE
  BY DEF Init
<1>2. QueryOK(query)
  BY <1>1, QueryKnown
<1>3. /\ Len(query.outer) \in Nat /\ Len(query.inner) \in Nat
      /\ 0 \in 0 .. Len(query.outer) /\ 0 \in 0 .. Len(query.inner)
  BY <1>2 DEF QueryOK, IsTable
<1>4. /\ AreMembers(x) /\ x.o = 0 /\ x.i = 0 /\ x.has_inner = FALSE /\ x.inner_matches_counter = -1
      /\ x.inner_matches = <<>> /\ x.is_hash_built = FALSE /\ x.hashed = <<>>
      /\ x.curr_inner = <<>> /\ x.tuple_index = 0
  BY <1>1 DEF Members, AreMembers
<1>5. NestedOK(query, x, phase)
  <2>1. x.has_inner \in BOOLEAN
    BY <1>4, Zenon
  <2> QED BY <1>3, <1>4, <2>1 DEF NestedOK
<1>6. ToSet(<<>>) = {} /\ IsInjective(<<>>) /\ <<>> \in Seq({})
  BY DEF ToSet, IsInjective
<1>7. IndexedOK(query, x, phase)
  <2>1. <<>> \in Seq(1 .. Len(query.inner)) /\ ~(0 >= 1)
    OBVIOUS
  <2> QED BY <1>1, <1>3, <1>4, <1>6, <2>1 DEF IndexedOK
<1>8. HashOK(query, x, out, phase, reopened)
  <2>1. ~(0 >= 1) /\ 0 \in Nat
    OBVIOUS
  <2> QED BY <1>1, <1>3, <1>4, <2>1 DEF HashOK
<1>9. MembersOK(query, x, out, phase, reopened)
  BY <1>4, <1>5, <1>7, <1>8 DEF MembersOK
<1>10. Told(query, x, phase) = {}
  BY <1>1, <1>2, <1>4, NonePassed DEF Told
<1>11. OnlyOf(query, out, reopened, {}) /\ OnlyOf(query, out, reopened, Pairs(query))
  BY <1>1, <1>6 DEF OnlyOf
<1> QED BY <1>1, <1>6, <1>9, <1>10, <1>11 DEF Telling, JoinOK

\* open puts the scans back, which keeps the invariant because the members hold
\* nothing of an outer row any more, and a hash join counts as opened again.
LEMMA OpenKeeps == ASSUME JoinConstants, Telling, Open PROVE Telling'
<1>1. PICK w : w = x'
  OBVIOUS
<1>2. PICK re \in BOOLEAN : re = reopened'
  BY DEF Telling, JoinOK, Open
<1>3. /\ query \in Queries /\ Running(phase) /\ reopened \in BOOLEAN
      /\ phase \in {"new", "open", "done"} /\ AreMembers(x)
      /\ MembersOK(query, x, out, phase, reopened)
      /\ phase = "new" => x = Members
      /\ phase = "open" => out = <<>> /\ x.o = 0
      /\ re = (reopened \/ phase = "done")
  BY <1>2 DEF Telling, JoinOK, Open, Running, MembersOK
<1>4. QueryOK(query)
  BY <1>3, QueryKnown
<1>5. PICK i : i = IF query.kind = "indexed" THEN x.i ELSE 0
  OBVIOUS
<1>6. PICK v : v = [x EXCEPT !.o = 0]
  OBVIOUS
<1>7. AreMembers(v) /\ v.o = 0 /\ SameBut(x, v, {"o"})
  BY <1>3, <1>6, SetO
<1>8. w = [v EXCEPT !.i = i]
  BY <1>1, <1>5, <1>6 DEF Open
<1>9. AreMembers(w) /\ w.i = i /\ SameBut(v, w, {"i"})
  BY <1>7, <1>8, SetI
<1>10. /\ w.o = 0 /\ w.has_inner = x.has_inner /\ w.inner_matches_counter = x.inner_matches_counter
       /\ w.inner_matches = x.inner_matches /\ w.is_hash_built = x.is_hash_built
       /\ w.hashed = x.hashed /\ w.curr_inner = x.curr_inner /\ w.tuple_index = x.tuple_index
  BY <1>7, <1>9 DEF SameBut
<1>11. /\ 0 \in 0 .. Len(query.outer) /\ 0 \in 0 .. Len(query.inner) /\ ~(0 >= 1)
  BY <1>4 DEF QueryOK, IsTable
<1>12. x = Members => x.inner_matches = <<>> /\ x.is_hash_built = FALSE
  BY DEF Members
<1>13. query.kind = "nested" => NestedOK(query, w, "open")
  <2> SUFFICES ASSUME query.kind = "nested"
               PROVE  NestedOK(query, w, "open")
    OBVIOUS
  <2>1. NestedOK(query, x, phase)
    BY <1>3 DEF MembersOK
  <2>2. ~x.has_inner
    BY <1>3, <1>11, <2>1 DEF NestedOK
  <2>3. w.i = 0
    BY <1>5, <1>9
  <2> QED BY <1>10, <1>11, <2>1, <2>2, <2>3 DEF NestedOK
<1>14. query.kind = "indexed" => IndexedOK(query, w, "open")
  <2> SUFFICES ASSUME query.kind = "indexed"
               PROVE  IndexedOK(query, w, "open")
    OBVIOUS
  <2>1. IndexedOK(query, x, phase)
    BY <1>3 DEF MembersOK
  <2>2. x.inner_matches = <<>>
    BY <1>3, <1>12, <2>1 DEF IndexedOK
  <2> QED BY <1>10, <1>11, <2>1, <2>2 DEF IndexedOK
<1>15. query.kind = "hash" => HashOK(query, w, <<>>, "open", re) /\ w.i = 0
  <2> SUFFICES ASSUME query.kind = "hash"
               PROVE  HashOK(query, w, <<>>, "open", re) /\ w.i = 0
    OBVIOUS
  <2>1. HashOK(query, x, out, phase, reopened)
    BY <1>3 DEF MembersOK
  <2>2. w.i = 0
    BY <1>5, <1>9
  <2>3. x.is_hash_built => re
    BY <1>3, <1>12, <2>1 DEF HashOK
  <2>4. ~x.is_hash_built => ~re
    BY <1>3, <2>1 DEF HashOK
  <2> QED BY <1>10, <1>11, <2>1, <2>2, <2>3, <2>4 DEF HashOK
<1>16. MembersOK(query, w, <<>>, "open", re)
  BY <1>9, <1>13, <1>14, <1>15 DEF MembersOK
<1>17. Told(query, w, "open") = {}
  BY <1>4, <1>10, <1>15, NonePassed DEF Told
<1>18. ToSet(<<>>) = {} /\ IsInjective(<<>>) /\ <<>> \in Seq({})
  BY DEF ToSet, IsInjective
<1>19. OnlyOf(query, <<>>, re, {}) /\ OnlyOf(query, <<>>, re, Pairs(query))
  BY <1>18 DEF OnlyOf
<1>20. JoinOK(query, w, <<>>, "open", re)
  BY <1>3, <1>16, <1>17, <1>18, <1>19 DEF JoinOK
<1> QED BY <1>1, <1>2, <1>20 DEF Telling, Open

\* A row of a pair more.
LEMMA RowKeeps ==
    ASSUME NEW q, QueryOK(q), NEW rows, rows \in Seq(ToSet(rows)), NEW re,
           NEW told \in SUBSET Pairs(q), OnlyOf(q, rows, re, told),
           NEW p \in Pairs(q), p \notin told
    PROVE  OnlyOf(q, Append(rows, RowAt(q, p)), re, told \cup {p})
<1> SUFFICES ASSUME Exact(q, re)
             PROVE  /\ \A r \in ToSet(Append(rows, RowAt(q, p))) :
                           \E s \in told \cup {p} : r = RowAt(q, s)
                    /\ IsInjective(Append(rows, RowAt(q, p)))
  BY DEF OnlyOf
<1>1. \A r \in ToSet(rows) : \E s \in told : r = RowAt(q, s)
  BY DEF OnlyOf
<1>2. RowAt(q, p) \notin ToSet(rows)
  <2> SUFFICES ASSUME RowAt(q, p) \in ToSet(rows)
               PROVE  FALSE
    OBVIOUS
  <2>1. PICK s \in told : RowAt(q, p) = RowAt(q, s)
    BY <1>1
  <2>2. p = s
    BY <2>1, RowsDiffer
  <2> QED BY <2>2
<1>3. ToSet(Append(rows, RowAt(q, p))) = ToSet(rows) \cup {RowAt(q, p)}
  BY OneMore
<1>4. IsInjective(rows)
  BY DEF OnlyOf
<1> QED BY <1>1, <1>2, <1>3, <1>4, OneMore

\* A call of getNext whose result is one of those above keeps the invariant.
LEMMA GettingKeeps ==
    ASSUME JoinConstants, Telling, NEW r, GoodStep(query, x, out, reopened, r), Moving(r)
    PROVE  Telling'
<1> DEFINE told == Told(query, x, "open")
<1>1. /\ phase = "open" /\ query \in Queries /\ reopened \in BOOLEAN /\ out \in Seq(ToSet(out))
      /\ \A p \in told : RowAt(query, p) \in ToSet(out)
      /\ OnlyOf(query, out, reopened, told)
      /\ OnlyOf(query, out, reopened, Pairs(query))
  BY DEF Telling, JoinOK, Getting, Moving, Running
<1>2. QueryOK(query)
  BY <1>1, QueryKnown
<1>3. /\ x' = r.x /\ query' = query /\ reopened' = reopened
      /\ out' = IF r.got = "row" THEN Append(out, r.row) ELSE out
      /\ phase' = CASE r.got = "row" -> "open" [] r.got = "false" -> "done" [] OTHER -> r.got
  BY DEF Getting, Moving
<1>4. told = Pairs(query) \cap Passed(query, x)
  BY DEF Told
<1> HIDE DEF told
<1>5. CASE r.got = "row"
  <2>1. GoodRow(query, x, out, reopened, r)
    BY <1>5 DEF GoodStep
  <2>2. PICK rows : rows = Append(out, r.row)
    OBVIOUS
  <2>3. MembersOK(query, r.x, rows, "open", reopened)
    BY <2>1, <2>2 DEF GoodRow
  <2>4. rows \in Seq(ToSet(rows)) /\ ToSet(rows) = ToSet(out) \cup {r.row}
    BY <1>1, <2>2, OneMore
  <2>5. Told(query, r.x, "open") = Pairs(query) \cap Passed(query, r.x)
    BY DEF Told
  <2>6. /\ \A p \in Told(query, r.x, "open") : RowAt(query, p) \in ToSet(rows)
        /\ OnlyOf(query, rows, reopened, Told(query, r.x, "open"))
    <3>1. CASE \E p \in Pairs(query) : r.row = RowAt(query, p) /\ AddsPair(query, x, r.x, p)
      <4>1. PICK p \in Pairs(query) : r.row = RowAt(query, p) /\ AddsPair(query, x, r.x, p)
        BY <3>1
      <4>2. p \notin told /\ Told(query, r.x, "open") = told \cup {p}
        BY <1>4, <2>5, <4>1 DEF AddsPair
      <4>3. told \in SUBSET Pairs(query)
        BY <1>4
      <4>4. OnlyOf(query, rows, reopened, told \cup {p})
        BY <1>1, <1>2, <2>2, <4>1, <4>2, <4>3, RowKeeps
      <4> QED BY <1>1, <2>4, <4>1, <4>2, <4>4
    <3>2. CASE ~Exact(query, reopened) /\ AddsNone(query, x, r.x)
      <4>1. Told(query, r.x, "open") \subseteq told
        BY <1>4, <2>5, <3>2 DEF AddsNone
      <4> QED BY <1>1, <2>4, <3>2, <4>1 DEF OnlyOf
    <3> QED BY <2>1, <3>1, <3>2 DEF GoodRow
  <2>7. OnlyOf(query, rows, reopened, Pairs(query))
    BY <2>5, <2>6 DEF OnlyOf
  <2>8. JoinOK(query, r.x, rows, "open", reopened)
    BY <1>1, <2>3, <2>4, <2>6, <2>7 DEF JoinOK
  <2>9. x' = r.x /\ query' = query /\ reopened' = reopened /\ out' = rows /\ phase' = "open"
    BY <1>3, <1>5, <2>2
  <2> QED BY <2>8, <2>9 DEF Telling
<1>6. CASE r.got = "false"
  <2>1. MembersOK(query, r.x, out, "done", reopened) /\ Pairs(query) \subseteq Passed(query, x)
    BY <1>6 DEF GoodStep
  <2>2. told = Pairs(query) /\ Told(query, r.x, "done") = Pairs(query)
    BY <1>4, <2>1 DEF Told
  <2>3. JoinOK(query, r.x, out, "done", reopened)
    BY <1>1, <2>1, <2>2 DEF JoinOK
  <2>4. x' = r.x /\ query' = query /\ reopened' = reopened /\ out' = out /\ phase' = "done"
    BY <1>3, <1>6
  <2> QED BY <2>3, <2>4 DEF Telling
<1>7. CASE r.got \in {"aborted", "undefined"}
  <2>1. JoinOK(query, r.x, out, r.got, reopened)
    BY <1>1, <1>7 DEF JoinOK, Running
  <2>2. x' = r.x /\ query' = query /\ reopened' = reopened /\ out' = out /\ phase' = r.got
    BY <1>3, <1>7
  <2> QED BY <2>1, <2>2 DEF Telling
<1> QED BY <1>5, <1>6, <1>7 DEF GoodStep

LEMMA TellingKept == ASSUME JoinConstants, Telling, [Next]_vars PROVE Telling'
<1>1. CASE Open
  BY <1>1, OpenKeeps
<1>2. phase = "open" => /\ QueryOK(query) /\ reopened \in BOOLEAN /\ out \in Seq(ToSet(out))
                        /\ MembersOK(query, x, out, "open", reopened)
  BY QueryKnown DEF Telling, JoinOK, Running
<1>3. CASE NestedLoopJoin
  <2>1. phase = "open" /\ query.kind = "nested"
    BY <1>3 DEF NestedLoopJoin, Moving, Getting
  <2>2. GoodStep(query, x, out, reopened, NextNested(x))
    BY <1>2, <2>1, NestedStep DEF MembersOK
  <2> QED BY <1>3, <2>2, GettingKeeps DEF NestedLoopJoin
<1>4. CASE IndexedNestedLoopJoin
  <2>1. phase = "open" /\ query.kind = "indexed"
    BY <1>4 DEF IndexedNestedLoopJoin, Moving, Getting
  <2>2. GoodStep(query, x, out, reopened, NextIndexed(x))
    BY <1>2, <2>1, IndexedStep DEF MembersOK
  <2> QED BY <1>4, <2>2, GettingKeeps DEF IndexedNestedLoopJoin
<1>5. CASE HashJoin
  <2>1. phase = "open" /\ query.kind = "hash"
    BY <1>5 DEF HashJoin, Moving, Getting
  <2>2. GoodStep(query, x, out, reopened, NextHash(x))
    BY <1>2, <2>1, HashStep DEF MembersOK
  <2> QED BY <1>5, <2>2, GettingKeeps DEF HashJoin
<1>6. CASE UNCHANGED vars
  BY <1>6 DEF Telling, vars
<1>7. ~OpenMergeJoin /\ ~MergeJoin
  <2>1. query.kind # "merge"
    BY QueryKnown DEF Telling, JoinOK, QueryOK
  <2> QED BY <2>1 DEF OpenMergeJoin, MergeJoin
<1> QED BY <1>1, <1>3, <1>4, <1>5, <1>6, <1>7 DEF Next

-----------------------------------------------------------------------------
(* The merge join. *)

\* What is known of the query of a merge join.
LEMMA MergeKnown ==
    ASSUME NEW q \in MergeQueries, JoinConstants
    PROVE  q.kind = "merge" /\ IsTable(q.outer, 0) /\ IsTable(q.inner, 10)
<1>1. PICK n \in 0 .. MaxPair, m \in 0 .. MaxPair :
          \E o \in [1 .. n -> KeyFields], i \in [1 .. m -> KeyFields] :
              q = [kind |-> "merge", type |-> "INNER", op |-> "EQ",
                   outer |-> Outer(o), inner |-> Inner(i), indexed |-> {}]
  BY DEF MergeQueries
<1>2. n \in Nat /\ m \in Nat
  BY DEF JoinConstants
<1> QED BY <1>1, <1>2, OuterIsTable, InnerIsTable

\* A query that is not one of a merge join.
LEMMA NoMerge == ASSUME JoinConstants, IInv, query.kind # "merge" PROVE Telling
  BY MergeKnown DEF IInv, Merging, MergeOK

\* A sort that was opened twice is a sequence of rows of its table.
LEMMA SortedTwice ==
    ASSUME NEW t, NEW above, IsTable(t, above), t # <<>>, NEW s \in Twice(t)
    PROVE  s \in Seq(ToSet(t)) /\ Len(s) \in Nat /\ Len(s) >= 1
<1>1. PICK n \in Nat : n = Len(t)
  BY DEF IsTable
<1>2. n >= 1 /\ 2 * n \in Nat /\ 2 * n >= 1
  BY <1>1 DEF IsTable
<1>3. PICK f \in [1 .. 2 * n -> 1 .. n] : s = [k \in 1 .. 2 * n |-> t[f[k]]]
  BY <1>1 DEF Twice
<1>4. \A i \in 1 .. n : t[i] \in ToSet(t)
  BY <1>1 DEF IsTable, ToSet
<1>5. s \in [1 .. 2 * n -> ToSet(t)]
  BY <1>3, <1>4
<1> QED BY <1>2, <1>5

\* The last element of a sequence is taken.
LEMMA TakesLast ==
    ASSUME NEW S, NEW s \in Seq(S), s # <<>>
    PROVE  Front(s) \in Seq(S) /\ Last(s) \in S
<1>1. Len(s) \in Nat /\ Len(s) >= 1
  OBVIOUS
<1> QED BY <1>1 DEF Front, Last

\* The result r of a call of getNext, made from rows already composed.
GoodMerge(q, r) ==
    /\ r.got \in {"row", "false"}
    /\ r.got = "row" => /\ r.row \in Composed(q)
                        /\ r.x \in MergeShape(q)
                        /\ r.x.o \in 1 .. Len(r.x.outer) /\ r.x.i \in 1 .. Len(r.x.inner) + 1

LEMMA MergeEnds == ASSUME NEW q, NEW y PROVE GoodMerge(q, Ends(y))
  BY DEF GoodMerge, Ends

\* A row of res_batch is returned.
LEMMA PoppedStep ==
    ASSUME NEW q, NEW y \in MergeShape(q), y.res_batch # <<>>,
           y.o \in 1 .. Len(y.outer), y.i \in 1 .. Len(y.inner) + 1
    PROVE  GoodMerge(q, Popped(y))
<1>1. Front(y.res_batch) \in Seq(Composed(q)) /\ Last(y.res_batch) \in Composed(q)
  BY TakesLast DEF MergeShape
<1>2. PICK z : z = [y EXCEPT !.res_batch = Front(y.res_batch)]
  OBVIOUS
<1>3. z \in MergeShape(q) /\ z.o = y.o /\ z.i = y.i /\ z.outer = y.outer /\ z.inner = y.inner
  BY <1>1, <1>2 DEF MergeShape
<1>4. Popped(y) = [x |-> z, got |-> "row", row |-> Last(y.res_batch)]
  BY <1>2 DEF Popped, Returns
<1> QED BY <1>1, <1>3, <1>4 DEF GoodMerge

\* A position in a grid of m rows of n places.
LEMMA InGrid ==
    ASSUME NEW m \in Nat, NEW n \in Nat, n >= 1, NEW b \in 1 .. m * n
    PROVE  (b - 1) \div n \in 0 .. m - 1 /\ (b - 1) % n \in 0 .. n - 1
<1>1. b - 1 \in Nat /\ b - 1 < m * n
  OBVIOUS
<1>2. PICK a \in Nat : a = b - 1
  BY <1>1
<1>3. PICK d \in Int, r \in Int : d = a \div n /\ r = a % n
  OBVIOUS
<1>4. a = n * d + r /\ 0 <= r /\ r < n
  BY <1>3
<1>5. d >= 0
  <2> SUFFICES ASSUME d <= -1
               PROVE  FALSE
    OBVIOUS
  <2>1. n * d <= n * (-1)
    OBVIOUS
  <2> QED BY <1>4, <2>1
<1>6. d <= m - 1
  <2> SUFFICES ASSUME d >= m
               PROVE  FALSE
    OBVIOUS
  <2>1. n * d >= n * m
    OBVIOUS
  <2> QED BY <1>1, <1>2, <1>4, <2>1
<1> QED BY <1>2, <1>3, <1>4, <1>5, <1>6

LEMMA InRun ==
    ASSUME NEW a \in Int, NEW b \in Int, NEW n \in Nat, n = b - a + 1, NEW d \in 0 .. n - 1
    PROVE  a + d \in a .. b
  OBVIOUS

LEMMA InPart ==
    ASSUME NEW a \in Int, NEW b \in Int, NEW k \in a .. b, NEW n \in Nat, 1 <= a, b <= n
    PROVE  k \in 1 .. n
  OBVIOUS

LEMMA MergeNumbers ==
    ASSUME NEW q, NEW y \in MergeShape(q)
    PROVE  /\ y.o \in Int /\ y.i \in Int /\ y.left_pointer \in Int /\ y.right_pointer \in Int
           /\ Len(y.outer) \in Nat /\ Len(y.inner) \in Nat
  BY DEF MergeShape

\* What meets the same inner row as another outer row meets what that one meets.
LEMMA MeetsToo ==
    ASSUME NEW f, NEW g, NEW h, NEW k, Equal(f, h), Equal(g, h), Equal(f, k)
    PROVE  Equal(g, k)
  BY DEF Equal, Comparable

\* Rows of a run are composed to rows that meet.
LEMMA BatchComposed ==
    ASSUME NEW q, NEW y \in MergeShape(q), NEW o \in Int, NEW i \in Int,
           1 <= y.o, y.o <= o, o <= Len(y.outer), 1 <= y.i, y.i <= i, i <= Len(y.inner),
           \A k \in y.o .. o : Meet(y, k, y.i), \A j \in y.i .. i : Meet(y, y.o, j)
    PROVE  Batch(y, o, i) \in Seq(Composed(q)) /\ Batch(y, o, i) # <<>>
<1>1. PICK n \in Nat, m \in Nat : n = i - y.i + 1 /\ m = o - y.o + 1
  BY DEF MergeShape
<1>2. /\ n >= 1 /\ m >= 1 /\ y.o \in Int /\ y.i \in Int
      /\ Len(y.outer) \in Nat /\ Len(y.inner) \in Nat
  BY <1>1, MergeNumbers
<1>3. ASSUME NEW b \in 1 .. m * n
      PROVE  y.outer[y.o + (b - 1) \div n] \o y.inner[y.i + ((b - 1) % n)] \in Composed(q)
  <2>1. PICK d \in 0 .. m - 1, r \in 0 .. n - 1 : d = (b - 1) \div n /\ r = (b - 1) % n
    BY <1>2, InGrid
  <2>2. PICK k \in y.o .. o, j \in y.i .. i : k = y.o + d /\ j = y.i + r
    <3>1. y.o + d \in y.o .. o
      BY <1>1, <1>2, InRun
    <3>2. y.i + r \in y.i .. i
      BY <1>1, <1>2, InRun
    <3> QED BY <3>1, <3>2
  <2>3. Meet(y, k, y.i) /\ Meet(y, y.o, j) /\ Meet(y, y.o, y.i)
    BY <1>2, <2>2
  <2>4. Equal(y.outer[k][1], y.inner[j][1])
    BY <2>3, MeetsToo DEF Meet
  <2>5. k \in 1 .. Len(y.outer) /\ j \in 1 .. Len(y.inner)
    BY <1>2, InPart
  <2>6. y.outer[k] \in ToSet(q.outer) /\ y.inner[j] \in ToSet(q.inner)
    BY <2>5 DEF MergeShape
  <2>7. y.outer[k] \o y.inner[j] \in Composed(q)
    <3>1. PICK p : p = <<y.outer[k], y.inner[j]>>
      OBVIOUS
    <3>2. p \in ToSet(q.outer) \X ToSet(q.inner) /\ p[1] = y.outer[k] /\ p[2] = y.inner[j]
      BY <2>6, <3>1
    <3> QED BY <2>4, <3>2 DEF Composed
  <2> QED BY <2>1, <2>2, <2>7
<1>4. Batch(y, o, i) = [b \in 1 .. m * n |->
                           y.outer[y.o + (b - 1) \div n] \o y.inner[y.i + ((b - 1) % n)]]
  BY <1>1 DEF Batch
<1>5. m * n \in Nat /\ m * n >= 1
  <2>1. m * n >= 1 * n
    BY <1>2
  <2>2. m * n \in Nat
    OBVIOUS
  <2> QED BY <1>2, <2>1, <2>2
<1>6. Batch(y, o, i) \in [1 .. m * n -> Composed(q)]
  BY <1>3, <1>4
<1>7. Batch(y, o, i) \in Seq(Composed(q)) /\ Len(Batch(y, o, i)) = m * n
  BY <1>5, <1>6
<1> QED BY <1>5, <1>7

\* The last element of an interval before the first of some that stop it.
LEMMA StopsBefore ==
    ASSUME NEW a \in Nat, NEW b \in Nat, a <= b, NEW S, S \subseteq a + 1 .. b
    PROVE  LET l == IF S = {} THEN b ELSE Min(S) - 1 IN
           l \in a .. b /\ l \in Int /\ \A k \in a .. l : k \notin S
<1>1. CASE S = {}
  BY <1>1
<1>2. CASE S # {}
  <2>1. S \in SUBSET Nat
    OBVIOUS
  <2>2. Min(S) \in S /\ \A k \in S : Min(S) <= k
    BY <1>2, <2>1, Least
  <2>3. PICK m \in a + 1 .. b : m = Min(S)
    BY <2>2
  <2> QED BY <1>2, <2>2, <2>3
<1> QED BY <1>1, <1>2

\* The current rows meet, and neither pointer is over.
LEMMA PairedStep ==
    ASSUME NEW q, NEW y \in MergeShape(q), y.o \in 1 .. Len(y.outer), y.i \in 1 .. Len(y.inner),
           Len(query.outer) \in Nat, Len(query.inner) \in Nat,
           y.right_pointer < Len(query.inner), Meet(y, y.o, y.i)
    PROVE  GoodMerge(q, Paired(y))
<1> DEFINE m == Len(y.outer)
           n == Len(y.inner)
           beyond == {k \in y.o + 1 .. m :
                        ~Meet(y, k, y.i) \/ y.left_pointer + k - y.o >= Len(query.outer)}
           behind == {j \in y.i .. n :
                        ~Meet(y, y.o, j) \/ y.right_pointer + j - y.i >= Len(query.inner)}
<1>1. /\ m \in Nat /\ n \in Nat /\ y.o \in Nat /\ y.i \in Nat /\ y.o <= m /\ y.i <= n
      /\ y.o >= 1 /\ y.i >= 1 /\ y.left_pointer \in Int /\ y.right_pointer \in Int
  BY MergeNumbers
<1>2. PICK o : o = LastOuter(y)
  OBVIOUS
<1>3. PICK i : i = LastInner(y)
  OBVIOUS
<1>4. o \in y.o .. m /\ o \in Int /\ \A k \in y.o .. o : k \notin beyond
  <2>1. o = IF beyond = {} THEN m ELSE Min(beyond) - 1
    BY <1>2 DEF LastOuter
  <2>2. beyond \subseteq y.o + 1 .. m
    OBVIOUS
  <2> HIDE DEF beyond, m
  <2> QED BY <1>1, <2>1, <2>2, StopsBefore
<1>5. i \in y.i .. n /\ i \in Int /\ \A j \in y.i .. i : j \notin behind
  <2>1. i = IF behind = {} THEN n ELSE Min(behind) - 1
    BY <1>3 DEF LastInner
  <2>2. y.i \notin behind
    <3>1. y.right_pointer + y.i - y.i = y.right_pointer
      BY DEF MergeShape
    <3> QED BY <3>1 DEF MergeShape
  <2>3. behind \subseteq y.i + 1 .. n
    <3> SUFFICES ASSUME NEW j \in behind PROVE j \in y.i + 1 .. n
      OBVIOUS
    <3>1. j \in y.i .. n /\ j # y.i
      BY <2>2
    <3> QED BY <1>1, <3>1
  <2> HIDE DEF behind, n
  <2> QED BY <1>1, <2>1, <2>3, StopsBefore
<1>6. \A k \in y.o .. o : Meet(y, k, y.i)
  <2> SUFFICES ASSUME NEW k \in y.o .. o PROVE Meet(y, k, y.i)
    OBVIOUS
  <2>1. k = y.o \/ k \in y.o + 1 .. m
    BY <1>1, <1>4
  <2> QED BY <1>4, <2>1
<1>7. \A j \in y.i .. i : Meet(y, y.o, j)
  <2> SUFFICES ASSUME NEW j \in y.i .. i PROVE Meet(y, y.o, j)
    OBVIOUS
  <2>1. j \in y.i .. n
    BY <1>1, <1>5
  <2> QED BY <1>5, <2>1
<1>8. PICK b : b = Batch(y, o, i)
  OBVIOUS
<1>9. b \in Seq(Composed(q)) /\ b # <<>>
  <2>1. 1 <= y.o /\ y.o <= o /\ o <= m /\ 1 <= y.i /\ y.i <= i /\ i <= n
    BY <1>1, <1>4, <1>5
  <2> QED BY <1>4, <1>5, <1>6, <1>7, <1>8, <2>1, BatchComposed
<1>10. PICK oo \in Int, ii \in Int, l \in Int, r \in Int :
           /\ oo = IF o = m THEN o ELSE o + 1
           /\ ii = i + 1
           /\ l = y.left_pointer + o - y.o + 1
           /\ r = y.right_pointer + i - y.i + (IF i = n THEN 0 ELSE 1)
  <2>1. (IF o = m THEN o ELSE o + 1) \in Int /\ i + 1 \in Int
    BY <1>4, <1>5
  <2>2. y.left_pointer + o - y.o + 1 \in Int
    BY <1>1, <1>4
  <2>3. y.right_pointer + i - y.i + (IF i = n THEN 0 ELSE 1) \in Int
    BY <1>1, <1>5
  <2> QED BY <2>1, <2>2, <2>3, Zenon
<1>11. PICK z : z = [y EXCEPT !.o = oo, !.i = ii, !.res_batch = b,
                             !.left_pointer = l, !.right_pointer = r]
  OBVIOUS
<1>12. /\ z \in MergeShape(q) /\ z.outer = y.outer /\ z.inner = y.inner
       /\ z.o = oo /\ z.i = ii /\ z.res_batch = b
  BY <1>9, <1>11 DEF MergeShape
<1>13. oo \in 1 .. m /\ ii \in 1 .. n + 1
  <2>1. oo \in 1 .. m
    BY <1>1, <1>4, <1>10
  <2>2. ii \in 1 .. n + 1
    BY <1>1, <1>5, <1>10
  <2> QED BY <2>1, <2>2
<1>14. GoodMerge(q, Popped(z))
  BY <1>9, <1>12, <1>13, PoppedStep
<1>15. \/ Paired(y) = Ends(y) \/ \E w : Paired(y) = Ends(w)
       \/ Paired(y) = Popped(z)
  BY <1>2, <1>3, <1>8, <1>10, <1>11 DEF Paired
<1> QED BY <1>14, <1>15, MergeEnds

\* Outer rows are passed over.
LEMMA PassedStep ==
    ASSUME NEW q, NEW y \in MergeShape(q), NEW o \in Int, y.o <= o, o <= Len(y.outer)
    PROVE  /\ PassedOver(y, o) \in MergeShape(q)
           /\ PassedOver(y, o).o = o /\ PassedOver(y, o).i = y.i
           /\ PassedOver(y, o).outer = y.outer /\ PassedOver(y, o).inner = y.inner
<1> DEFINE less == {k \in y.o .. o - 1 : Less(y.outer[k][1], y.inner[y.i][1])}
           greater == {k \in y.o .. o - 1 : Greater(y.outer[k][1], y.inner[y.i][1])}
<1>1. y.o \in Int /\ Len(y.outer) \in Int
  BY DEF MergeShape
<1>2. IsFiniteSet(y.o .. o - 1)
  BY <1>1, FS_Interval
<1>3. Cardinality(less) \in Int /\ Cardinality(greater) \in Int
  <2>1. less \subseteq y.o .. o - 1 /\ greater \subseteq y.o .. o - 1
    OBVIOUS
  <2>2. IsFiniteSet(less) /\ IsFiniteSet(greater)
    BY <1>2, <2>1, FS_Subset
  <2> HIDE DEF less, greater
  <2> QED BY <2>2, FS_CardinalityType
<1>4. Min({o, Len(y.outer)}) = o
  <2>1. \A k \in {o, Len(y.outer)} : o <= k
    BY <1>1
  <2>2. \A k \in {o, Len(y.outer)} : (\A j \in {o, Len(y.outer)} : k <= j) => k = o
    BY <1>1
  <2> QED BY <2>1, <2>2 DEF Min
<1>5. PICK l \in Int, r \in Int : /\ l = y.left_pointer + (o - y.o) + Cardinality(less)
                                 /\ r = y.right_pointer + Cardinality(greater)
  <2>1. y.left_pointer \in Int /\ y.right_pointer \in Int
    BY MergeNumbers
  <2>2. PICK c \in Int, d \in Int : c = Cardinality(less) /\ d = Cardinality(greater)
    BY <1>3
  <2>3. y.left_pointer + (o - y.o) + c \in Int /\ y.right_pointer + d \in Int
    BY <1>1, <2>1, <2>2
  <2> HIDE DEF less, greater
  <2> QED BY <2>2, <2>3, Zenon
<1>6. PassedOver(y, o) = [y EXCEPT !.o = o, !.left_pointer = l, !.right_pointer = r]
  BY <1>4, <1>5 DEF PassedOver
<1> QED BY <1>6 DEF MergeShape

LEMMA NextMergeStep ==
    ASSUME NEW q, NEW y \in MergeShape(q),
           y.o \in 1 .. Len(y.outer), y.i \in 1 .. Len(y.inner) + 1,
           Len(query.outer) \in Nat, Len(query.inner) \in Nat
    PROVE  GoodMerge(q, NextMerge(y))
<1> DEFINE stops == {o \in y.o .. Len(y.outer) : Over(PassedOver(y, o)) \/ Meet(y, o, y.i)}
           z == PassedOver(y, IF stops = {} THEN Len(y.outer) + 1 ELSE Min(stops))
<1>1. CASE y.res_batch # <<>>
  BY <1>1, PoppedStep DEF NextMerge
<1>2. CASE y.res_batch = <<>> /\ Over(y)
  BY <1>2, MergeEnds DEF NextMerge
<1>3. CASE y.res_batch = <<>> /\ ~Over(y) /\ (stops = {} \/ Over(z))
  <2>1. NextMerge(y) = Ends(z)
    BY <1>3 DEF NextMerge
  <2> QED BY <2>1, MergeEnds
<1>4. CASE y.res_batch = <<>> /\ ~Over(y) /\ stops # {} /\ ~Over(z)
  <2>1. NextMerge(y) = Paired(z)
    BY <1>4 DEF NextMerge
  <2>2. PICK o : o = Min(stops)
    OBVIOUS
  <2>3. o \in stops
    <3>1. stops \in SUBSET Nat
      BY DEF MergeShape
    <3> HIDE DEF stops
    <3> QED BY <1>4, <2>2, <3>1, Least
  <2>4. z = PassedOver(y, o)
    BY <1>4, <2>2
  <2>5. o \in Int /\ y.o <= o /\ o <= Len(y.outer) /\ o \in 1 .. Len(y.outer)
    BY <2>3 DEF MergeShape
  <2>6. Meet(y, o, y.i)
    BY <1>4, <2>3, <2>4
  <2> HIDE DEF z, stops
  <2>7. /\ z \in MergeShape(q) /\ z.o = o /\ z.i = y.i
        /\ z.outer = y.outer /\ z.inner = y.inner
    BY <2>4, <2>5, PassedStep
  <2>8. Meet(z, z.o, z.i)
    BY <2>6, <2>7 DEF Meet
  <2>9. z.i \in 1 .. Len(z.inner) /\ z.right_pointer < Len(query.inner)
    <3>1. z.i \in Int /\ z.right_pointer \in Int /\ Len(z.inner) \in Nat
      BY <2>7, MergeNumbers
    <3>2. ~(z.right_pointer >= Len(query.inner)) /\ ~(z.i > Len(z.inner))
      BY <1>4 DEF Over
    <3> QED BY <2>7, <3>1, <3>2
  <2> QED BY <2>1, <2>5, <2>7, <2>8, <2>9, PairedStep
<1> QED BY <1>1, <1>2, <1>3, <1>4

LEMMA MergeInit == ASSUME Init, query \in MergeQueries PROVE Merging
  BY DEF Init, Merging, MergeOK

LEMMA MergingKept == ASSUME JoinConstants, Merging, [Next]_vars PROVE Merging'
<1>1. /\ query.kind = "merge" /\ query \in MergeQueries
      /\ IsTable(query.outer, 0) /\ IsTable(query.inner, 10)
  BY MergeKnown DEF Merging, MergeOK
<1>2. CASE OpenMergeJoin
  <2>1. query' = query /\ out' = out /\ phase = "new" /\ merge = MergeMembers
    BY <1>2 DEF OpenMergeJoin, Merging, MergeOK
  <2>2. CASE query.outer = <<>> \/ query.inner = <<>>
    BY <1>2, <2>1, <2>2 DEF OpenMergeJoin, Merging, MergeOK
  <2>3. CASE query.outer # <<>> /\ query.inner # <<>>
    <3>1. PICK s \in Twice(query.outer), t \in Twice(query.inner) :
              merge' = [merge EXCEPT !.outer = s, !.inner = t, !.o = 1, !.i = 1]
      BY <1>2, <2>3 DEF OpenMergeJoin
    <3>2. /\ s \in Seq(ToSet(query.outer)) /\ Len(s) \in Nat /\ Len(s) >= 1
          /\ t \in Seq(ToSet(query.inner)) /\ Len(t) \in Nat /\ Len(t) >= 1
      BY <1>1, <2>3, SortedTwice
    <3>3. merge' = [outer |-> s, inner |-> t, o |-> 1, i |-> 1, res_batch |-> <<>>,
                    left_pointer |-> 0, right_pointer |-> 0]
      BY <2>1, <3>1 DEF MergeMembers
    <3>4. merge' \in MergeShape(query)
      BY <3>2, <3>3 DEF MergeShape
    <3>5. merge'.o \in 1 .. Len(merge'.outer) /\ merge'.i \in 1 .. Len(merge'.inner) + 1
      BY <3>2, <3>3
    <3>6. phase' = "open"
      BY <1>2, <2>3 DEF OpenMergeJoin
    <3> QED BY <2>1, <3>4, <3>5, <3>6 DEF Merging, MergeOK
  <2> QED BY <2>2, <2>3
<1>3. CASE MergeJoin
  <2>1. PICK r : r = NextMerge(merge)
    OBVIOUS
  <2>2. /\ phase = "open" /\ query' = query /\ merge' = r.x
        /\ out' = IF r.got = "row" THEN Append(out, r.row) ELSE out
        /\ phase' = CASE r.got = "row" -> "open" [] r.got = "false" -> "done" [] OTHER -> r.got
    BY <1>3, <2>1 DEF MergeJoin, Getting
  <2>3. GoodMerge(query, r)
    BY <1>1, <2>1, <2>2, NextMergeStep DEF Merging, MergeOK, IsTable
  <2>4. out \in Seq(Composed(query))
    BY DEF Merging, MergeOK
  <2>5. CASE r.got = "row"
    <3>1. out' \in Seq(Composed(query)) /\ phase' = "open"
      BY <2>2, <2>3, <2>4, <2>5 DEF GoodMerge
    <3> QED BY <1>1, <2>2, <2>3, <2>5, <3>1 DEF GoodMerge, Merging, MergeOK
  <2>6. CASE r.got = "false"
    BY <1>1, <2>2, <2>4, <2>6 DEF Merging, MergeOK
  <2> QED BY <2>3, <2>5, <2>6 DEF GoodMerge
<1>4. CASE UNCHANGED vars
  BY <1>4 DEF Merging, vars
<1>5. ~Open /\ ~NestedLoopJoin /\ ~IndexedNestedLoopJoin /\ ~HashJoin
  BY <1>1 DEF Open, NestedLoopJoin, IndexedNestedLoopJoin, HashJoin
<1> QED BY <1>2, <1>3, <1>4, <1>5 DEF Next

-----------------------------------------------------------------------------
(* The theorems. *)

\* The members of a join tell which pairs it has returned, however it is opened
\* again and whatever its calls of getNext pass over.
THEOREM JoinInvariantHolds == ASSUME JoinConstants PROVE Spec => []IInv
<1>1. Init => IInv
  <2> SUFFICES ASSUME Init PROVE IInv
    OBVIOUS
  <2>1. query \in Queries \/ query \in MergeQueries
    BY DEF Init
  <2> QED BY <2>1, InitHolds, MergeInit DEF IInv
<1>2. IInv /\ [Next]_vars => IInv'
  <2> SUFFICES ASSUME IInv, [Next]_vars PROVE IInv'
    OBVIOUS
  <2> QED BY TellingKept, MergingKept DEF IInv
<1> QED BY <1>1, <1>2, PTL DEF Spec

\* A join returns rows of the relational join only, each at most once, whichever
\* of its scans restarts in between (Nested_loop_join.c++:60,
\* IndexedNested_loop_join.c++:57, hash_join.c++:57), with two exceptions: RIGHT
\* and FULL joins, and a hash join opened again after it has ended.
THEOREM StaysSound == ASSUME JoinConstants PROVE Spec => []JoinSound
<1>1. IInv => JoinSound
  <2> SUFFICES ASSUME IInv, query.kind # "merge", ~KeepsInner, ~Reused
               PROVE  ToSet(out) \subseteq Relational /\ IsInjective(out)
    BY DEF JoinSound
  <2>1. query \in Queries /\ OnlyOf(query, out, reopened, Pairs(query))
    BY NoMerge DEF Telling, JoinOK
  <2>2. QueryOK(query)
    BY <2>1, QueryKnown
  <2>3. Exact(query, reopened)
    BY AsAsked DEF Exact, Reused
  <2> QED BY <2>1, <2>2, <2>3, RelationalIs DEF OnlyOf
<1> QED BY <1>1, JoinInvariantHolds, PTL

\* A join that has returned false has returned every row of the relational join:
\* none is lost where a scan ends, where an outer row has no match, or when the
\* join is opened again.
THEOREM StaysComplete == ASSUME JoinConstants PROVE Spec => []JoinComplete
<1>1. IInv => JoinComplete
  <2> SUFFICES ASSUME IInv, query.kind # "merge", phase = "done"
               PROVE  Relational \subseteq ToSet(out)
    BY DEF JoinComplete
  <2>1. query \in Queries /\ \A p \in Told(query, x, phase) : RowAt(query, p) \in ToSet(out)
    BY NoMerge DEF Telling, JoinOK, Running
  <2>2. QueryOK(query)
    BY <2>1, QueryKnown
  <2>3. Told(query, x, phase) = Pairs(query)
    BY DEF Told
  <2> QED BY <2>1, <2>2, <2>3, RelationalIs
<1> QED BY <1>1, JoinInvariantHolds, PTL

\* Every row that a merge join returns is made of an outer and an inner row with
\* the same key, in whatever order its sorts come out (MergeJoinExecuter.c++:179).
THEOREM MergeStaysSound == ASSUME JoinConstants PROVE Spec => []MergeSound
<1>1. IInv => MergeSound
  <2> SUFFICES ASSUME IInv, query.kind = "merge", NEW n \in 1 .. Len(out)
               PROVE  \E o \in ToSet(query.outer), i \in ToSet(query.inner) :
                          out[n] = o \o i /\ Equal(o[1], i[1])
    BY DEF MergeSound
  <2>1. ~Telling
    BY QueryKnown DEF Telling, JoinOK, QueryOK
  <2>2. out[n] \in Composed(query)
    BY <2>1 DEF IInv, Merging, MergeOK
  <2> QED BY <2>2 DEF Composed
<1> QED BY <1>1, JoinInvariantHolds, PTL

-----------------------------------------------------------------------------
(* Sorts: what a sort has merged is one run of the rows of its child, each *)
(* as often as the sort was opened, and getNext has returned the beginning *)
(* of it.                                                                  *)

\* How many of the first n rows of s, and of all, are in a set.
HeldUpTo(R, s, n) == Cardinality({k \in 1 .. n : s[k] \in R})
Held(R, s) == HeldUpTo(R, s, Len(s))

\* The sets by which rows are counted: of one row, and of all.
Views(T) == {{r} : r \in T} \cup {T}

\* A run that n openings have left of query q.
RunOf(q, n, run) ==
    /\ run \in Seq(ToSet(q.rows))
    /\ \A R \in Views(ToSet(q.rows)) : Held(R, run) = n * Held(R, q.rows)
    /\ Ordered(q.rows, q.at) => InOrder(run, q.at, q.dir)

\* How many rows of the run the pages and slots before curr_rid_pointer hold.
Position(s) == (s.page - 1) * PerPage + s.slot

Opens(q, s, n) ==
    /\ q.rows # <<>> /\ n \in Nat
    /\ \E run : s = [runs |-> <<run>>, page |-> s.page, slot |-> s.slot] /\ RunOf(q, n, run)

Standing(s, rows) ==
    /\ s.page \in 1 .. Len(RunPages(s)) /\ s.slot \in 0 .. Len(RunPages(s)[s.page])
    /\ rows = SubSeq(s.runs[1], 1, Position(s))

SInv ==
    /\ sorted \in Sorts
    /\ stage \in {"new", "open", "done", "undefined"}
    /\ stage = "new" => sort = NewSort /\ returned = <<>> /\ openings = 0
    /\ stage \in {"open", "done"} =>
         Opens(sorted, sort, openings) /\ Standing(sort, returned)
    /\ stage = "done" => Position(sort) = Len(sort.runs[1])
-----------------------------------------------------------------------------
(* Counting. *)

\* Induction over the naturals, for a set.
LEMMA SetInduction ==
    ASSUME NEW S, 0 \in S, \A n \in Nat : n \in S => n + 1 \in S
    PROVE  \A n \in Nat : n \in S
<1> DEFINE R == {ss \in Nat \X Nat : ss[1] < ss[2]}
           T == Nat \ S
<1>1. IsWellFoundedOn(R, Nat)
  BY NatLessThanWellFounded DEF OpToRel
<1> SUFFICES ASSUME T # {} PROVE FALSE
  OBVIOUS
<1>2. PICK n \in T : \A y \in T : ~ (<<y, n>> \in R)
  <2>1. T \subseteq Nat
    OBVIOUS
  <2> HIDE DEF R, T
  <2> QED BY <1>1, <2>1, WFMin
<1>3. n # 0 /\ n - 1 \in Nat
  OBVIOUS
<1>4. <<n - 1, n>> \in R
  BY <1>3
<1>5. n - 1 \notin T
  BY <1>2, <1>4
<1> QED BY <1>3, <1>5

\* A walk of N steps begins with v and follows step; there is one.
Steps(N, V) == [(1 .. N) \X V -> V]

Walks(N, V, v, step, f) ==
    /\ f \in [0 .. N -> V]
    /\ f[0] = v
    /\ \A n \in 1 .. N : f[n] = step[<<n, f[n - 1]>>]

LEMMA WalkExists ==
    ASSUME NEW N \in Nat, NEW V, NEW v \in V, NEW step \in Steps(N, V)
    PROVE  \E f : Walks(N, V, v, step, f)
<1> DEFINE Walk(m, f) == /\ f \in [0 .. m -> V]
                         /\ f[0] = v
                         /\ \A n \in 1 .. m : f[n] = step[<<n, f[n - 1]>>]
           S == {m \in Nat : m <= N => \E f \in [0 .. m -> V] : Walk(m, f)}
<1>1. 0 \in S
  <2>1. Walk(0, [n \in 0 .. 0 |-> v])
    OBVIOUS
  <2> QED BY <2>1
<1>2. ASSUME NEW m \in Nat, m \in S PROVE m + 1 \in S
  <2> SUFFICES ASSUME m + 1 <= N PROVE \E f \in [0 .. m + 1 -> V] : Walk(m + 1, f)
    OBVIOUS
  <2>1. PICK f \in [0 .. m -> V] : Walk(m, f)
    BY <1>2
  <2> DEFINE w == step[<<m + 1, f[m]>>]
             g == [n \in 0 .. m + 1 |-> IF n = m + 1 THEN w ELSE f[n]]
  <2>2. w \in V
    <3>1. m + 1 \in 1 .. N /\ f[m] \in V
      OBVIOUS
    <3> QED BY <3>1 DEF Steps
  <2>3. \A n \in 0 .. m : f[n] \in V
    OBVIOUS
  <2> HIDE DEF w
  <2>4. g \in [0 .. m + 1 -> V]
    BY <2>2, <2>3
  <2>5. g[0] = v /\ g[m + 1] = w /\ \A n \in 0 .. m : g[n] = f[n]
    BY <2>1
  <2> HIDE DEF g
  <2>6. ASSUME NEW n \in 1 .. m + 1 PROVE g[n] = step[<<n, g[n - 1]>>]
    <3>1. CASE n = m + 1
      BY <2>5, <3>1 DEF w
    <3>2. CASE n \in 1 .. m
      <4>1. n - 1 \in 0 .. m /\ n \in 0 .. m
        BY <3>2
      <4> QED BY <2>1, <2>5, <3>2, <4>1
    <3> QED BY <3>1, <3>2
  <2> QED BY <2>4, <2>5, <2>6
<1> HIDE DEF S
<1>3. N \in S
  BY <1>1, <1>2, SetInduction
<1>4. PICK f \in [0 .. N -> V] : Walk(N, f)
  BY <1>3 DEF S
<1> QED BY <1>4 DEF Walks

\* Counting goes row by row.
LEMMA HeldStep ==
    ASSUME NEW R, NEW s, NEW n \in Nat
    PROVE  /\ HeldUpTo(R, s, n) \in Nat
           /\ HeldUpTo(R, s, 0) = 0
           /\ HeldUpTo(R, s, n + 1) = HeldUpTo(R, s, n) + (IF s[n + 1] \in R THEN 1 ELSE 0)
<1> DEFINE H(m) == {k \in 1 .. m : s[k] \in R}
<1>1. IsFiniteSet(1 .. n)
  BY FS_Interval
<1>2. IsFiniteSet(H(n))
  BY <1>1, FS_Subset
<1>3. H(0) = {}
  OBVIOUS
<1>4. H(n + 1) = IF s[n + 1] \in R THEN H(n) \cup {n + 1} ELSE H(n)
  OBVIOUS
<1>5. n + 1 \notin H(n)
  OBVIOUS
<1>6. Cardinality(H(n)) \in Nat
  BY <1>2, FS_CardinalityType
<1> HIDE DEF H
<1>7. Cardinality(H(n + 1)) = Cardinality(H(n)) + (IF s[n + 1] \in R THEN 1 ELSE 0)
  <2>1. CASE s[n + 1] \in R
    BY <1>2, <1>4, <1>5, <2>1, FS_AddElement
  <2>2. CASE s[n + 1] \notin R
    BY <1>4, <1>6, <2>2
  <2> QED BY <2>1, <2>2
<1>8. HeldUpTo(R, s, n) = Cardinality(H(n)) /\ HeldUpTo(R, s, 0) = Cardinality(H(0))
      /\ HeldUpTo(R, s, n + 1) = Cardinality(H(n + 1))
  BY DEF HeldUpTo, H
<1> QED BY <1>3, <1>6, <1>7, <1>8, FS_EmptySet

\* The rows behind place a of s, up to c, are those behind place b of t, up to
\* d: they count the same.
Alike(s, a, c, t, b, d) ==
    /\ a \in Nat /\ b \in Nat /\ c \in Nat /\ d \in Nat /\ a <= c /\ d = b + (c - a)
    /\ \A k \in 1 .. c - a : s[a + k] = t[b + k]

LEMMA HeldFrom ==
    ASSUME NEW R, NEW s, NEW t, NEW a, NEW b, NEW c, NEW d, Alike(s, a, c, t, b, d)
    PROVE  HeldUpTo(R, s, c) - HeldUpTo(R, s, a) = HeldUpTo(R, t, d) - HeldUpTo(R, t, b)
<1> DEFINE n == c - a
<1>0. /\ a \in Nat /\ b \in Nat /\ c \in Nat /\ d \in Nat /\ n \in Nat /\ a + n = c /\ b + n = d
      /\ \A k \in 1 .. n : s[a + k] = t[b + k]
  BY DEF Alike
<1> HIDE DEF n
<1> DEFINE S == {m \in Nat : m <= n =>
                    HeldUpTo(R, s, a + m) - HeldUpTo(R, s, a)
                      = HeldUpTo(R, t, b + m) - HeldUpTo(R, t, b)}
<1>1. 0 \in S
  <2>1. a + 0 = a /\ b + 0 = b
    BY <1>0
  <2>2. HeldUpTo(R, s, a) \in Nat /\ HeldUpTo(R, t, b) \in Nat
    BY <1>0, HeldStep
  <2> QED BY <2>1, <2>2
<1>2. ASSUME NEW m \in Nat, m \in S PROVE m + 1 \in S
  <2> SUFFICES ASSUME m + 1 <= n
               PROVE  HeldUpTo(R, s, a + (m + 1)) - HeldUpTo(R, s, a)
                        = HeldUpTo(R, t, b + (m + 1)) - HeldUpTo(R, t, b)
    OBVIOUS
  <2>1. HeldUpTo(R, s, a + m) - HeldUpTo(R, s, a) = HeldUpTo(R, t, b + m) - HeldUpTo(R, t, b)
    BY <1>0, <1>2
  <2>2. s[a + (m + 1)] = t[b + (m + 1)]
    <3>1. m + 1 \in 1 .. n
      BY <1>0
    <3> QED BY <1>0, <3>1
  <2>3. /\ HeldUpTo(R, s, a + m) \in Nat
        /\ HeldUpTo(R, s, (a + m) + 1)
             = HeldUpTo(R, s, a + m) + (IF s[(a + m) + 1] \in R THEN 1 ELSE 0)
    <3>1. a + m \in Nat
      BY <1>0
    <3> QED BY <3>1, HeldStep
  <2>4. /\ HeldUpTo(R, t, b + m) \in Nat
        /\ HeldUpTo(R, t, (b + m) + 1)
             = HeldUpTo(R, t, b + m) + (IF t[(b + m) + 1] \in R THEN 1 ELSE 0)
    <3>1. b + m \in Nat
      BY <1>0
    <3> QED BY <3>1, HeldStep
  <2>5. (a + m) + 1 = a + (m + 1) /\ (b + m) + 1 = b + (m + 1)
    BY <1>0
  <2>6. HeldUpTo(R, s, a) \in Nat /\ HeldUpTo(R, t, b) \in Nat
    BY <1>0, HeldStep
  <2> QED BY <2>1, <2>2, <2>3, <2>4, <2>5, <2>6
<1> HIDE DEF S
<1>3. n \in S
  BY <1>0, <1>1, <1>2, SetInduction
<1> QED BY <1>0, <1>3 DEF S

LEMMA HeldSame ==
    ASSUME NEW R, NEW s, NEW t, NEW n \in Nat, \A k \in 1 .. n : s[k] = t[k]
    PROVE  HeldUpTo(R, s, n) = HeldUpTo(R, t, n)
<1>1. PICK z \in Nat : z = 0
  OBVIOUS
<1>2. Alike(s, z, n, t, z, n)
  BY <1>1 DEF Alike
<1>3. HeldUpTo(R, s, n) - HeldUpTo(R, s, z) = HeldUpTo(R, t, n) - HeldUpTo(R, t, z)
  BY <1>2, HeldFrom
<1>4. /\ HeldUpTo(R, s, z) = 0 /\ HeldUpTo(R, t, z) = 0
      /\ HeldUpTo(R, s, n) \in Nat /\ HeldUpTo(R, t, n) \in Nat
  BY <1>1, HeldStep
<1> QED BY <1>2, <1>3, <1>4

\* What sequences hold together.
LEMMA HeldConcat ==
    ASSUME NEW R, NEW T, NEW s \in Seq(T), NEW t \in Seq(T)
    PROVE  Held(R, s \o t) = Held(R, s) + Held(R, t)
<1> DEFINE u == s \o t
<1>1. PICK z, m, n, c \in Nat : z = 0 /\ m = Len(s) /\ n = Len(t) /\ c = m + n
  <2>1. Len(s) \in Nat /\ Len(t) \in Nat
    BY LenProperties
  <2> QED BY <2>1
<1>2. Len(u) = c /\ \A i \in 1 .. m + n : u[i] = IF i <= m THEN s[i] ELSE t[i - m]
  BY <1>1, ConcatProperties
<1> HIDE DEF u
<1>3. HeldUpTo(R, u, m) = HeldUpTo(R, s, m)
  <2>1. \A k \in 1 .. m : u[k] = s[k]
    BY <1>1, <1>2
  <2> QED BY <2>1, HeldSame
<1>4. Alike(u, m, c, t, z, n)
  <2>1. ASSUME NEW k \in 1 .. c - m PROVE u[m + k] = t[z + k]
    <3>1. m + k \in 1 .. m + n /\ ~(m + k <= m) /\ (m + k) - m = k /\ z + k = k
      BY <1>1
    <3> QED BY <1>2, <3>1
  <2>2. m <= c /\ n = z + (c - m)
    BY <1>1
  <2> QED BY <2>1, <2>2 DEF Alike
<1>6. HeldUpTo(R, u, c) - HeldUpTo(R, u, m) = HeldUpTo(R, t, n) - HeldUpTo(R, t, z)
  BY <1>4, HeldFrom
<1>7. /\ HeldUpTo(R, t, z) = 0 /\ HeldUpTo(R, t, n) \in Nat
      /\ HeldUpTo(R, s, m) \in Nat /\ HeldUpTo(R, u, c) \in Nat
  BY <1>1, HeldStep
<1>8. HeldUpTo(R, u, c) = HeldUpTo(R, s, m) + HeldUpTo(R, t, n)
  BY <1>3, <1>6, <1>7
<1> QED BY <1>1, <1>2, <1>8 DEF Held, u

LEMMA HeldNat ==
    ASSUME NEW R, NEW T, NEW s \in Seq(T)
    PROVE  Held(R, s) \in Nat
BY LenProperties, HeldStep DEF Held

\* Rows of a set are all held by it.
LEMMA HeldAll ==
    ASSUME NEW T, NEW s \in Seq(T)
    PROVE  Held(T, s) = Len(s)
<1>1. {k \in 1 .. Len(s) : s[k] \in T} = 1 .. Len(s) /\ Len(s) \in Nat
  BY LenProperties
<1>2. Cardinality(1 .. Len(s)) = Len(s)
  <2>1. 1 \in Int /\ Len(s) \in Int /\ (IF 1 > Len(s) THEN 0 ELSE Len(s) - 1 + 1) = Len(s)
    BY <1>1
  <2> QED BY <2>1, FS_Interval
<1> QED BY <1>1, <1>2 DEF Held, HeldUpTo

LEMMA HeldOne ==
    ASSUME NEW r, NEW s
    PROVE  Held({r}, s) = Count(r, s)
<1>1. {k \in 1 .. Len(s) : s[k] \in {r}} = {k \in 1 .. Len(s) : s[k] = r}
  OBVIOUS
<1> QED BY <1>1 DEF Held, HeldUpTo, Count

\* An arrangement holds what it arranges.
LEMMA ArrangementHolds ==
    ASSUME NEW T, NEW b \in Seq(T), NEW s \in Arrangements(b)
    PROVE  /\ s \in Seq(T) /\ Len(s) = Len(b) /\ ToSet(s) \subseteq ToSet(b)
           /\ \A R \in Views(T) : Held(R, s) = Held(R, b)
<1>1. Len(b) \in Nat /\ b \in [1 .. Len(b) -> T] /\ ToSet(b) = {b[k] : k \in 1 .. Len(b)}
  BY LenProperties DEF ToSet
<1>2. /\ s \in [1 .. Len(b) -> ToSet(b)]
      /\ \A r \in ToSet(b) : Count(r, s) = Count(r, b)
  BY DEF Arrangements
<1>3. ToSet(b) \subseteq T
  BY <1>1
<1>4. s \in Seq(ToSet(b)) /\ s \in Seq(T) /\ Len(s) = Len(b)
  <2>1. s \in Seq(ToSet(b))
    BY <1>1, <1>2, SeqDef
  <2> QED BY <1>1, <1>2, <1>3, <2>1, SeqMonotonic, LenProperties
<1>5. ToSet(s) \subseteq ToSet(b)
  BY <1>4, LenProperties DEF ToSet
<1>6. ASSUME NEW r \in T PROVE Held({r}, s) = Held({r}, b)
  <2>1. CASE r \in ToSet(b)
    BY <1>2, <2>1, HeldOne
  <2>2. CASE r \notin ToSet(b)
    <3>1. \A k \in 1 .. Len(b) : b[k] # r /\ s[k] # r
      BY <1>1, <1>2, <2>2
    <3>2. {k \in 1 .. Len(s) : s[k] \in {r}} = {} /\ {k \in 1 .. Len(b) : b[k] \in {r}} = {}
      BY <1>4, <3>1
    <3> QED BY <3>2 DEF Held, HeldUpTo
  <2> QED BY <2>1, <2>2
<1>7. Held(T, s) = Held(T, b)
  BY <1>4, HeldAll
<1> QED BY <1>4, <1>5, <1>6, <1>7 DEF Views

-----------------------------------------------------------------------------
(* Buffers. *)

LEMMA TimesMonotone ==
    ASSUME NEW P \in Nat, NEW i \in Int, NEW j \in Int, i <= j
    PROVE  i * P <= j * P /\ (i - 1) * P = i * P - P /\ i * P \in Int /\ j * P \in Int
<1>1. PICK d \in Nat : j = i + d
  OBVIOUS
<1>2. d * P \in Nat /\ i * P \in Int
  OBVIOUS
<1>3. (i + d) * P = i * P + d * P
  OBVIOUS
<1>4. (i - 1) * P = i * P - P
  OBVIOUS
<1> QED BY <1>1, <1>2, <1>3, <1>4

\* The number of buffers of P that L rows fill.
Needed(L, P) == (L + P - 1) \div P

LEMMA NumberOfBuffers ==
    ASSUME NEW L \in Nat, NEW P \in Nat \ {0}, NEW N, N = Needed(L, P)
    PROVE  N \in Nat /\ L <= N * P /\ (L = 0 => N = 0) /\ (L # 0 => N # 0)
           /\ \A n \in 1 .. N : (n - 1) * P < L
<1>1. N \in Int /\ N * P <= L + P - 1 /\ L + P - 1 < N * P + P
  <2>1. PICK y \in Nat : y = L + P - 1
    OBVIOUS
  <2>2. PICK q \in Int, r \in Int : q = y \div P /\ r = y % P
    OBVIOUS
  <2>3. y = P * q + r /\ 0 <= r /\ r < P
    BY <2>2
  <2>4. N = q
    BY <2>1, <2>2 DEF Needed
  <2>5. P * q = N * P /\ N * P \in Int
    BY <2>4
  <2> QED BY <2>1, <2>3, <2>4, <2>5
<1>2. N >= 0
  <2> SUFFICES ASSUME N <= -1 PROVE FALSE
    BY <1>1
  <2>1. N * P <= (-1) * P
    BY <1>1, TimesMonotone
  <2>2. (-1) * P = -P
    OBVIOUS
  <2> QED BY <1>1, <2>1, <2>2
<1>3. ASSUME L = 0 PROVE N = 0
  <2> SUFFICES ASSUME 1 <= N PROVE FALSE
    BY <1>1, <1>2
  <2>1. 1 * P <= N * P
    BY <1>1, TimesMonotone
  <2> QED BY <1>1, <1>3, <2>1
<1>4. ASSUME L # 0 PROVE N # 0
  <2> SUFFICES ASSUME N = 0 PROVE FALSE
    OBVIOUS
  <2>1. N * P = 0
    OBVIOUS
  <2> QED BY <1>1, <1>4, <2>1
<1>5. ASSUME NEW n \in 1 .. N PROVE (n - 1) * P < L
  <2>1. n * P <= N * P /\ (n - 1) * P = n * P - P /\ n * P \in Int /\ N * P \in Int
    BY <1>1, <1>2, TimesMonotone
  <2> QED BY <1>1, <2>1
<1> QED
  <2>1. N * P \in Int
    BY <1>1
  <2> QED BY <1>1, <1>2, <1>3, <1>4, <1>5, <2>1

\* The rows in the first n buffers.
Filled(rows, n) == IF n * PerPage <= Len(rows) THEN n * PerPage ELSE Len(rows)

LEMMA MinOfTwo ==
    ASSUME NEW m \in Nat, NEW n \in Nat
    PROVE  Min({m, n}) = IF m <= n THEN m ELSE n
<1> DEFINE k == IF m <= n THEN m ELSE n
<1>1. k \in {m, n} /\ \A y \in {m, n} : k <= y
  OBVIOUS
<1>2. \A j \in {m, n} : (\A y \in {m, n} : j <= y) => j = k
  OBVIOUS
<1> HIDE DEF k
<1>3. Min({m, n}) = k
  BY <1>1, <1>2 DEF Min
<1> QED BY <1>3 DEF k

\* Buffer n holds the rows from one place to the next, all but the last buffer
\* as many as fit.
LEMMA BufferIs ==
    ASSUME SortConstants, NEW T, NEW rows \in Seq(T)
    PROVE  /\ Len(Buffers(rows)) \in Nat /\ Buffers(rows) \in Seq(Seq(T))
           /\ rows # <<>> => Len(Buffers(rows)) # 0
           /\ Filled(rows, 0) = 0 /\ Filled(rows, Len(Buffers(rows))) = Len(rows)
           /\ \A n \in 1 .. Len(Buffers(rows)) :
                /\ Filled(rows, n - 1) = (n - 1) * PerPage
                /\ n < Len(Buffers(rows)) => Filled(rows, n) = Filled(rows, n - 1) + PerPage
                /\ Buffers(rows)[n] # <<>>
                /\ Buffers(rows)[n] \in Seq(T)
                /\ Alike(Buffers(rows)[n], 0, Len(Buffers(rows)[n]),
                         rows, Filled(rows, n - 1), Filled(rows, n))
<1> DEFINE P == PerPage
           L == Len(rows)
           N == Needed(L, P)
           B(n) == SubSeq(rows, (n - 1) * P + 1, Min({n * P, L}))
           c(n) == Filled(rows, n)
<1>1. P \in Nat \ {0} /\ L \in Nat
  BY LenProperties DEF SortConstants
<1>2. /\ N \in Nat /\ L <= N * P /\ (L = 0 => N = 0) /\ (L # 0 => N # 0)
      /\ \A n \in 1 .. N : (n - 1) * P < L
  <2> HIDE DEF P, L
  <2> QED BY <1>1, NumberOfBuffers
<1> HIDE DEF N
<1>3. \A n \in Nat : n * P \in Nat /\ c(n) = IF n * P <= L THEN n * P ELSE L
  BY <1>1 DEF Filled
<1> HIDE DEF P, L, c
<1>4. ASSUME NEW n \in 1 .. N
      PROVE  /\ c(n - 1) = (n - 1) * P /\ c(n - 1) \in Nat /\ c(n) \in Nat
             /\ c(n - 1) < c(n) /\ c(n) <= L
             /\ n < N => c(n) = c(n - 1) + P
             /\ Min({n * P, L}) = c(n)
  <2>1. (n - 1) * P < L /\ n \in Nat /\ n - 1 \in Nat
    BY <1>2
  <2>2. (n - 1) * P = n * P - P /\ n * P \in Nat /\ (n - 1) * P \in Nat
    BY <1>1, <1>3, <2>1, TimesMonotone
  <2>3. n < N => n * P < L
    <3> SUFFICES ASSUME n < N PROVE n * P < L
      OBVIOUS
    <3>1. PICK m \in 1 .. N : m = n + 1 /\ m - 1 = n
      BY <1>2
    <3> QED BY <1>2, <3>1
  <2>4. c(n) = (IF n * P <= L THEN n * P ELSE L) /\ c(n - 1) = (n - 1) * P
    <3>1. PICK m \in Nat : m = n - 1
      BY <2>1
    <3>2. c(m) = IF m * P <= L THEN m * P ELSE L
      BY <1>3
    <3>3. m * P = (n - 1) * P
      BY <3>1
    <3> QED BY <1>1, <1>3, <2>1, <2>2, <3>1, <3>2, <3>3
  <2>5. Min({n * P, L}) = c(n)
    BY <1>1, <2>2, <2>4, MinOfTwo
  <2> QED BY <1>1, <2>1, <2>2, <2>3, <2>4, <2>5
<1>5. ASSUME NEW n \in 1 .. N
      PROVE  /\ B(n) \in Seq(T) /\ Len(B(n)) = c(n) - c(n - 1) /\ B(n) # <<>>
             /\ Alike(B(n), 0, Len(B(n)), rows, c(n - 1), c(n))
  <2>1. PICK a, e \in Nat : a = c(n - 1) /\ e = c(n) /\ a < e /\ e <= L
    BY <1>4
  <2>2. B(n) = SubSeq(rows, a + 1, e)
    BY <1>4, <2>1
  <2>3. \A i \in a + 1 .. e : rows[i] \in T
    <3>1. \A i \in 1 .. L : rows[i] \in T
      BY ElementOfSeq DEF L
    <3> QED BY <1>1, <2>1, <3>1
  <2> HIDE DEF B
  <2>4. /\ B(n) \in Seq(T) /\ Len(B(n)) = e - a
        /\ \A k \in 1 .. e - a : B(n)[k] = rows[a + k]
    <3>1. PICK f, g \in Int : f = a + 1 /\ g = e
      BY <2>1
    <3>2. /\ SubSeq(rows, f, g) \in Seq(T)
          /\ Len(SubSeq(rows, f, g)) = IF f <= g THEN g - f + 1 ELSE 0
          /\ \A k \in 1 .. g - f + 1 : SubSeq(rows, f, g)[k] = rows[f + k - 1]
      BY <2>3, <3>1, SubSeqProperties
    <3>3. g - f + 1 = e - a /\ f <= g /\ \A k \in 1 .. e - a : f + k - 1 = a + k
      BY <2>1, <3>1
    <3>4. B(n) = SubSeq(rows, f, g)
      BY <2>2, <3>1
    <3> QED BY <3>2, <3>3, <3>4
  <2>5. B(n) # <<>>
    <3>1. Len(B(n)) # 0
      BY <2>1, <2>4
    <3> QED BY <3>1
  <2>6. Alike(B(n), 0, Len(B(n)), rows, a, e)
    <3>1. 0 <= e - a /\ e - a \in Nat /\ e = a + ((e - a) - 0) /\ (e - a) - 0 = e - a
      BY <2>1
    <3>2. \A k \in 1 .. e - a : B(n)[0 + k] = rows[a + k]
      BY <2>4
    <3> QED BY <2>1, <2>4, <3>1, <3>2 DEF Alike
  <2> QED BY <2>1, <2>4, <2>5, <2>6
<1>6. Buffers(rows) = [n \in 1 .. N |-> B(n)]
  BY DEF Buffers, N, Needed, P, L
<1> HIDE DEF B
<1>7. Len(Buffers(rows)) = N /\ \A n \in 1 .. N : Buffers(rows)[n] = B(n)
  BY <1>2, <1>6
<1>8. Buffers(rows) \in Seq(Seq(T))
  <2>1. Buffers(rows) \in [1 .. N -> Seq(T)]
    BY <1>5, <1>6
  <2> QED BY <1>2, <2>1, SeqDef
<1>9. c(0) = 0 /\ c(N) = L
  <2>1. 0 * P = 0 /\ N * P \in Nat
    BY <1>1, <1>2
  <2> QED BY <1>1, <1>2, <1>3, <2>1
<1>10. rows # <<>> => N # 0
  <2>1. rows # <<>> => L # 0
    BY EmptySeq DEF L
  <2> QED BY <1>2, <2>1
<1> QED
  <2>1. ASSUME NEW n \in 1 .. N
        PROVE  /\ Filled(rows, n - 1) = (n - 1) * PerPage
               /\ n < N => Filled(rows, n) = Filled(rows, n - 1) + PerPage
               /\ Buffers(rows)[n] # <<>>
               /\ Buffers(rows)[n] \in Seq(T)
               /\ Alike(Buffers(rows)[n], 0, Len(Buffers(rows)[n]),
                        rows, Filled(rows, n - 1), Filled(rows, n))
    BY <1>4, <1>5, <1>7 DEF c, P
  <2>2. Filled(rows, 0) = 0 /\ Filled(rows, N) = Len(rows)
    BY <1>9 DEF c, L
  <2> QED BY <1>2, <1>7, <1>8, <1>10, <2>1, <2>2

-----------------------------------------------------------------------------
(* Merging two runs. *)

\* The next row is from the left run, when i rows of it and j of the right one
\* have been taken.
Takes(l, r, at, dir, i, j) ==
    i < Len(l) /\ (j >= Len(r) \/ Before(dir, l[i + 1][at], r[j + 1][at]))

LEMMA LeftIs ==
    ASSUME NEW T, NEW l \in Seq(T), NEW r \in Seq(T), NEW at, NEW dir,
           NEW f, f = FromLeft(l, r, at, dir)
    PROVE  /\ f[0] = 0
           /\ \A k \in 1 .. Len(l) + Len(r) :
                 f[k] = IF Takes(l, r, at, dir, f[k - 1], (k - 1) - f[k - 1])
                        THEN f[k - 1] + 1 ELSE f[k - 1]
           /\ \A k \in 0 .. Len(l) + Len(r) : f[k] \in 0 .. Len(l) /\ k - f[k] \in 0 .. Len(r)
<1> DEFINE N == Len(l) + Len(r)
           Next1(k, i) == IF Takes(l, r, at, dir, i, (k - 1) - i) THEN i + 1 ELSE i
           step == [p \in (1 .. N) \X Nat |-> Next1(p[1], p[2])]
           Is(h) == h = [k \in 0 .. N |-> IF k = 0 THEN 0 ELSE Next1(k, h[k - 1])]
<1>1. Len(l) \in Nat /\ Len(r) \in Nat /\ N \in Nat
  BY LenProperties
<1>2. step \in Steps(N, Nat)
  <2> HIDE DEF N
  <2> QED BY DEF Steps
<1>3. PICK h : Walks(N, Nat, 0, step, h)
  <2> HIDE DEF step, N
  <2> QED BY <1>1, <1>2, WalkExists
<1>4. Is(h)
  <2>1. ASSUME NEW n \in 0 .. N, n # 0 PROVE h[n] = Next1(n, h[n - 1])
    <3>1. n - 1 \in 0 .. N /\ n \in 1 .. N
      BY <1>1, <2>1
    <3>2. <<n, h[n - 1]>> \in (1 .. N) \X Nat
      BY <1>3, <3>1 DEF Walks
    <3>3. h[n] = step[<<n, h[n - 1]>>]
      BY <1>3, <3>1 DEF Walks
    <3> HIDE DEF N, Next1
    <3> QED BY <3>2, <3>3
  <2>2. h \in [0 .. N -> Nat] /\ h[0] = 0
    BY <1>3 DEF Walks
  <2> HIDE DEF step, N, Next1
  <2> QED BY <2>1, <2>2
<1>5. f = CHOOSE g : Is(g)
  BY DEF FromLeft, Takes
<1>6. Is(f)
  BY <1>4, <1>5
<1> HIDE DEF N, Next1
<1>7. f[0] = 0 /\ \A k \in 1 .. N : f[k] = Next1(k, f[k - 1])
  BY <1>1, <1>6
<1> DEFINE S == {k \in Nat : k <= N => f[k] \in 0 .. Len(l) /\ k - f[k] \in 0 .. Len(r)}
<1>8. 0 \in S
  BY <1>1, <1>7
<1>9. ASSUME NEW m \in Nat, m \in S PROVE m + 1 \in S
  <2> SUFFICES ASSUME m + 1 <= N
               PROVE  f[m + 1] \in 0 .. Len(l) /\ (m + 1) - f[m + 1] \in 0 .. Len(r)
    OBVIOUS
  <2>1. PICK k \in 1 .. N : k = m + 1 /\ k - 1 = m
    BY <1>1
  <2>2. PICK i \in 0 .. Len(l) : i = f[m] /\ m - i \in 0 .. Len(r)
    BY <1>1, <1>9
  <2>3. f[k] = IF Takes(l, r, at, dir, i, m - i) THEN i + 1 ELSE i
    <3>1. f[k] = Next1(k, f[k - 1])
      BY <1>7
    <3> QED BY <2>1, <2>2, <3>1 DEF Next1
  <2>4. CASE Takes(l, r, at, dir, i, m - i)
    <3>1. i < Len(l)
      BY <2>4 DEF Takes
    <3> QED BY <1>1, <2>1, <2>2, <2>3, <2>4, <3>1
  <2>5. CASE ~Takes(l, r, at, dir, i, m - i)
    <3>1. ~(i < Len(l)) \/ m - i < Len(r)
      BY <1>1, <2>2, <2>5 DEF Takes
    <3>2. m - i < Len(r)
      BY <1>1, <2>2, <3>1 DEF N
    <3> QED BY <1>1, <2>1, <2>2, <2>3, <2>5, <3>2
  <2> QED BY <2>4, <2>5
<1> HIDE DEF S
<1>10. \A k \in Nat : k \in S
  BY <1>8, <1>9, SetInduction
<1>11. \A k \in 0 .. N : f[k] \in 0 .. Len(l) /\ k - f[k] \in 0 .. Len(r)
  BY <1>1, <1>10 DEF S
<1> QED BY <1>7, <1>11 DEF Next1, N

\* Row k of the merge m of l and r is the next of one of them; f[k] of the first
\* k rows are from l.
Interleaves(T, l, r, at, dir, m, f) ==
    /\ m \in Seq(T) /\ Len(m) = Len(l) + Len(r)
    /\ f[0] = 0 /\ f[Len(m)] = Len(l)
    /\ \A k \in 0 .. Len(m) : f[k] \in 0 .. Len(l) /\ k - f[k] \in 0 .. Len(r)
    /\ \A k \in 1 .. Len(m) :
         LET i == f[k - 1]
             j == (k - 1) - f[k - 1]
         IN  \/ Takes(l, r, at, dir, i, j) /\ f[k] = i + 1 /\ m[k] = l[i + 1]
             \/ ~Takes(l, r, at, dir, i, j) /\ f[k] = i /\ m[k] = r[j + 1]

LEMMA MergeIs ==
    ASSUME NEW T, NEW l \in Seq(T), NEW r \in Seq(T), NEW at, NEW dir
    PROVE  \E f : Interleaves(T, l, r, at, dir, Merge(l, r, at, dir), f)
<1> DEFINE N == Len(l) + Len(r)
           m == Merge(l, r, at, dir)
<1>1. PICK f : f = FromLeft(l, r, at, dir)
  OBVIOUS
<1>2. /\ f[0] = 0
      /\ \A k \in 1 .. N :
            f[k] = IF Takes(l, r, at, dir, f[k - 1], (k - 1) - f[k - 1])
                   THEN f[k - 1] + 1 ELSE f[k - 1]
      /\ \A k \in 0 .. N : f[k] \in 0 .. Len(l) /\ k - f[k] \in 0 .. Len(r)
  <2> HIDE DEF N
  <2> QED BY <1>1, LeftIs DEF N
<1>3. Len(l) \in Nat /\ Len(r) \in Nat /\ N \in Nat
  BY LenProperties
<1>4. m = [k \in 1 .. N |-> IF f[k] > f[k - 1] THEN l[f[k]] ELSE r[k - f[k]]]
  BY <1>1 DEF Merge
<1> HIDE DEF m
<1>5. ASSUME NEW k \in 1 .. N
      PROVE  LET i == f[k - 1]
                 j == (k - 1) - f[k - 1]
             IN  /\ \/ Takes(l, r, at, dir, i, j) /\ f[k] = i + 1 /\ m[k] = l[i + 1]
                    \/ ~Takes(l, r, at, dir, i, j) /\ f[k] = i /\ m[k] = r[j + 1]
                 /\ m[k] \in T
  <2>1. k - 1 \in 0 .. N /\ k \in 0 .. N
    BY <1>3
  <2>2. PICK i \in 0 .. Len(l), j \in 0 .. Len(r) : i = f[k - 1] /\ j = (k - 1) - f[k - 1]
    BY <1>2, <2>1
  <2>3. f[k] \in 0 .. Len(l) /\ k - f[k] \in 0 .. Len(r)
    BY <1>2, <2>1
  <2>4. m[k] = IF f[k] > f[k - 1] THEN l[f[k]] ELSE r[k - f[k]]
    BY <1>4
  <2>5. f[k] = IF Takes(l, r, at, dir, i, j) THEN i + 1 ELSE i
    BY <1>2, <2>2
  <2>6. CASE Takes(l, r, at, dir, i, j)
    <3>1. f[k] = i + 1 /\ i + 1 \in 1 .. Len(l)
      BY <1>3, <2>2, <2>3, <2>5, <2>6
    <3>2. m[k] = l[i + 1]
      BY <1>3, <2>2, <2>4, <3>1
    <3>3. m[k] \in T
      BY <3>1, <3>2, ElementOfSeq
    <3> QED BY <2>2, <2>6, <3>1, <3>2, <3>3
  <2>7. CASE ~Takes(l, r, at, dir, i, j)
    <3>1. f[k] = i /\ k - f[k] = j + 1 /\ j + 1 \in 1 .. Len(r)
      BY <1>3, <2>1, <2>2, <2>3, <2>5, <2>7
    <3>2. m[k] = r[j + 1]
      BY <1>3, <2>2, <2>4, <3>1
    <3>3. m[k] \in T
      BY <3>1, <3>2, ElementOfSeq
    <3> QED BY <2>2, <2>7, <3>1, <3>2, <3>3
  <2> QED BY <2>6, <2>7
<1>6. m \in Seq(T) /\ Len(m) = N
  <2>1. m \in [1 .. N -> T]
    <3>1. \A k \in 1 .. N : m[k] \in T
      BY <1>5
    <3> QED BY <1>4, <3>1
  <2>2. m \in Seq(T)
    BY <1>3, <2>1, SeqDef
  <2> QED BY <1>3, <2>1, <2>2
<1>7. f[N] = Len(l)
  <2>1. N \in 0 .. N
    BY <1>3
  <2>2. f[N] \in 0 .. Len(l) /\ N - f[N] \in 0 .. Len(r)
    BY <1>2, <2>1
  <2> QED BY <1>3, <2>2
<1>8. /\ m \in Seq(T) /\ Len(m) = N
      /\ f[0] = 0 /\ f[N] = Len(l)
      /\ \A k \in 0 .. N : f[k] \in 0 .. Len(l) /\ k - f[k] \in 0 .. Len(r)
      /\ \A k \in 1 .. N :
           LET i == f[k - 1]
               j == (k - 1) - f[k - 1]
           IN  \/ Takes(l, r, at, dir, i, j) /\ f[k] = i + 1 /\ m[k] = l[i + 1]
               \/ ~Takes(l, r, at, dir, i, j) /\ f[k] = i /\ m[k] = r[j + 1]
  BY <1>2, <1>5, <1>6, <1>7
<1> QED
  <2> HIDE DEF N
  <2> QED BY <1>6, <1>8 DEF m, N, Interleaves

\* After n rows of a merge, i from l and j from r, row k is row li of l or row ri of r.
RowTaken(l, r, at, dir, m, f, n, k, i, j, li, ri) ==
    /\ n = i + j /\ li = i + 1 /\ ri = j + 1 /\ f[n] = i /\ n - f[n] = j
    /\ \/ /\ Takes(l, r, at, dir, i, j) /\ li <= Len(l) /\ j <= Len(r)
          /\ f[k] = li /\ k - f[k] = j /\ m[k] = l[li]
       \/ /\ ~Takes(l, r, at, dir, i, j) /\ i <= Len(l) /\ ri <= Len(r)
          /\ f[k] = i /\ k - f[k] = ri /\ m[k] = r[ri]

LEMMA MergeRow ==
    ASSUME NEW T, NEW l \in Seq(T), NEW r \in Seq(T), NEW at, NEW dir, NEW m, NEW f,
           Interleaves(T, l, r, at, dir, m, f), NEW n \in Nat, NEW k, k = n + 1, k <= Len(m)
    PROVE  \E i, j, li, ri \in Nat : RowTaken(l, r, at, dir, m, f, n, k, i, j, li, ri)
<1>1. Len(l) \in Nat /\ Len(r) \in Nat /\ Len(m) \in Nat
  BY LenProperties DEF Interleaves
<1>2. k \in 1 .. Len(m) /\ k - 1 = n /\ n \in 0 .. Len(m) /\ k \in 0 .. Len(m)
  BY <1>1
<1>3. f[n] \in 0 .. Len(l) /\ n - f[n] \in 0 .. Len(r) /\ f[k] \in 0 .. Len(l) /\ k - f[k] \in 0 .. Len(r)
  BY <1>2 DEF Interleaves
<1>4. PICK i \in 0 .. Len(l), j \in 0 .. Len(r) : i = f[n] /\ j = n - f[n]
  BY <1>3
<1>5. PICK li \in Nat, ri \in Nat : li = i + 1 /\ ri = j + 1 /\ i \in Nat /\ j \in Nat
  BY <1>1
<1>6. n = i + j /\ k - li = j /\ k - i = ri
  <2>1. n = i + j
    BY <1>1, <1>4
  <2> QED BY <1>5, <2>1
<1>7. LET ii == f[n]
          jj == n - f[n]
      IN  \/ Takes(l, r, at, dir, ii, jj) /\ f[k] = ii + 1 /\ m[k] = l[ii + 1]
          \/ ~Takes(l, r, at, dir, ii, jj) /\ f[k] = ii /\ m[k] = r[jj + 1]
  BY <1>2 DEF Interleaves
<1>8. \/ Takes(l, r, at, dir, i, j) /\ f[k] = li /\ m[k] = l[li]
      \/ ~Takes(l, r, at, dir, i, j) /\ f[k] = i /\ m[k] = r[ri]
  BY <1>4, <1>7, <1>5
<1>9. CASE Takes(l, r, at, dir, i, j) /\ f[k] = li /\ m[k] = l[li]
  <2>1. li <= Len(l) /\ j <= Len(r) /\ k - f[k] = j
    <3>1. li \in 0 .. Len(l)
      BY <1>3, <1>9
    <3>2. li <= Len(l) /\ j <= Len(r)
      BY <1>1, <3>1
    <3>3. k - f[k] = j
      BY <1>6, <1>9
    <3> QED BY <3>2, <3>3
  <2>2. RowTaken(l, r, at, dir, m, f, n, k, i, j, li, ri)
    BY <1>4, <1>6, <1>9, <1>5, <2>1 DEF RowTaken
  <2> QED BY <1>5, <2>2
<1>10. CASE ~Takes(l, r, at, dir, i, j) /\ f[k] = i /\ m[k] = r[ri]
  <2>1. i <= Len(l) /\ ri <= Len(r) /\ k - f[k] = ri
    <3>1. ri \in 0 .. Len(r)
      BY <1>3, <1>6, <1>10
    <3>2. i <= Len(l) /\ ri <= Len(r)
      BY <1>1, <3>1
    <3>3. k - f[k] = ri
      BY <1>6, <1>10
    <3> QED BY <3>2, <3>3
  <2>2. RowTaken(l, r, at, dir, m, f, n, k, i, j, li, ri)
    BY <1>4, <1>6, <1>10, <1>5, <2>1 DEF RowTaken
  <2> QED BY <1>5, <2>2
<1> QED BY <1>8, <1>9, <1>10
LEMMA HeldNext ==
    ASSUME NEW R, NEW s, NEW n \in Nat, NEW k, k = n + 1
    PROVE  HeldUpTo(R, s, k) = HeldUpTo(R, s, n) + (IF s[k] \in R THEN 1 ELSE 0)
BY HeldStep

\* What a merge holds.
LEMMA MergeHolds ==
    ASSUME NEW R, NEW T, NEW l \in Seq(T), NEW r \in Seq(T), NEW at, NEW dir
    PROVE  Held(R, Merge(l, r, at, dir)) = Held(R, l) + Held(R, r)
<1> DEFINE m == Merge(l, r, at, dir)
<1>1. PICK f : Interleaves(T, l, r, at, dir, m, f)
  BY MergeIs
<1> HIDE DEF m
<1>2. Len(l) \in Nat /\ Len(r) \in Nat /\ Len(m) \in Nat /\ Len(m) = Len(l) + Len(r)
      /\ f[0] = 0 /\ f[Len(m)] = Len(l)
  BY <1>1, LenProperties DEF Interleaves
<1> DEFINE H(k) == HeldUpTo(R, m, k) = HeldUpTo(R, l, f[k]) + HeldUpTo(R, r, k - f[k])
           S == {k \in Nat : k <= Len(m) => H(k)}
<1>3. 0 \in S
  <2>1. HeldUpTo(R, m, 0) = 0 /\ HeldUpTo(R, l, 0) = 0 /\ HeldUpTo(R, r, 0) = 0
    BY HeldStep
  <2>2. f[0] = 0 /\ 0 - f[0] = 0
    BY <1>2
  <2> QED BY <2>1, <2>2
<1>4. ASSUME NEW n \in Nat, n \in S PROVE n + 1 \in S
  <2> SUFFICES ASSUME n + 1 <= Len(m) PROVE H(n + 1)
    OBVIOUS
  <2>1. PICK k \in Nat : k = n + 1 /\ n <= Len(m)
    BY <1>2
  <2>2. PICK i, j, li, ri \in Nat : RowTaken(l, r, at, dir, m, f, n, k, i, j, li, ri)
    BY <1>1, <2>1, MergeRow
  <2>3. HeldUpTo(R, m, n) = HeldUpTo(R, l, i) + HeldUpTo(R, r, j)
    <3>1. H(n)
      BY <1>4, <2>1
    <3> QED BY <2>2, <3>1 DEF RowTaken
  <2>4. /\ HeldUpTo(R, l, li) = HeldUpTo(R, l, i) + (IF l[li] \in R THEN 1 ELSE 0)
        /\ HeldUpTo(R, r, ri) = HeldUpTo(R, r, j) + (IF r[ri] \in R THEN 1 ELSE 0)
        /\ HeldUpTo(R, m, k) = HeldUpTo(R, m, n) + (IF m[k] \in R THEN 1 ELSE 0)
    BY <2>1, <2>2, HeldNext DEF RowTaken
  <2>5. HeldUpTo(R, l, i) \in Nat /\ HeldUpTo(R, r, j) \in Nat
    BY HeldStep
  <2>6. HeldUpTo(R, m, k) = HeldUpTo(R, l, f[k]) + HeldUpTo(R, r, k - f[k])
    <3>1. CASE f[k] = li /\ k - f[k] = j /\ m[k] = l[li]
      BY <2>3, <2>4, <2>5, <3>1
    <3>2. CASE f[k] = i /\ k - f[k] = ri /\ m[k] = r[ri]
      BY <2>3, <2>4, <2>5, <3>2
    <3> QED BY <2>2, <3>1, <3>2 DEF RowTaken
  <2> QED BY <2>1, <2>6
<1> HIDE DEF S
<1>5. Len(m) \in S
  BY <1>2, <1>3, <1>4, SetInduction
<1>6. H(Len(m))
  BY <1>2, <1>5 DEF S
<1>7. f[Len(m)] = Len(l) /\ Len(m) - f[Len(m)] = Len(r)
  BY <1>2
<1> QED BY <1>6, <1>7 DEF Held, m

\* The rows of T have keys of one type, which are numbers.
Keyed(T, at) == \A a, b \in T : Comparable(a[at], b[at]) /\ a[at].value \in Int

LEMMA OrderOfKeys ==
    ASSUME NEW T, NEW at, Keyed(T, at), NEW dir, NEW a \in T, NEW b \in T, NEW c \in T,
           ~Before(dir, b[at], a[at])
    PROVE  /\ ~Before(dir, c[at], b[at]) => ~Before(dir, c[at], a[at])
           /\ Before(dir, b[at], c[at]) => ~Before(dir, c[at], a[at])
           /\ Before(dir, c[at], a[at]) => ~Before(dir, b[at], c[at])
  BY DEF Keyed, Before, Less, Greater

LEMMA FirstIsNotLater ==
    ASSUME NEW T, NEW at, Keyed(T, at), NEW dir, NEW a \in T, NEW b \in T, Before(dir, a[at], b[at])
    PROVE  ~Before(dir, b[at], a[at])
  BY DEF Keyed, Before, Less, Greater

LEMMA NotBeforeItself ==
    ASSUME NEW T, NEW at, Keyed(T, at), NEW dir, NEW a \in T
    PROVE  ~Before(dir, a[at], a[at])
  BY DEF Keyed, Before, Less, Greater

\* The rows that are left in a run when i of them have been taken are not before
\* the key of a.
NoneBefore(s, i, at, dir, a) == \A p \in Nat : i < p /\ p <= Len(s) => ~Before(dir, s[p][at], a[at])

\* A run in order whose next row is not before a has none before it.
LEMMA RestInOrder ==
    ASSUME NEW T, NEW at, Keyed(T, at), NEW dir, NEW s \in Seq(T), InOrder(s, at, dir),
           NEW a \in T, NEW i \in Nat, NEW li, li = i + 1,
           li <= Len(s) => ~Before(dir, s[li][at], a[at])
    PROVE  NoneBefore(s, i, at, dir, a)
<1> SUFFICES ASSUME NEW p \in Nat, i < p, p <= Len(s)
             PROVE  ~Before(dir, s[p][at], a[at])
  BY DEF NoneBefore
<1>1. Len(s) \in Nat
  BY LenProperties
<1>2. li \in 1 .. Len(s) /\ p \in 1 .. Len(s) /\ (li = p \/ li < p)
  BY <1>1
<1>3. s[li] \in T /\ s[p] \in T
  BY <1>2, ElementOfSeq
<1>4. ~Before(dir, s[li][at], a[at])
  BY <1>1, <1>2
<1>5. CASE li < p
  <2>1. ~Before(dir, s[p][at], s[li][at])
    BY <1>2, <1>5 DEF InOrder
  <2> QED BY <1>3, <1>4, <2>1, OrderOfKeys
<1> QED BY <1>2, <1>4, <1>5

\* No row that is left in the runs is before the one a merge takes.
LEMMA MergeTakesFirst ==
    ASSUME NEW T, NEW at, Keyed(T, at), NEW dir, NEW l \in Seq(T), NEW r \in Seq(T),
           InOrder(l, at, dir), InOrder(r, at, dir),
           NEW m, NEW f, Interleaves(T, l, r, at, dir, m, f),
           NEW n \in Nat, NEW k, k = n + 1, k <= Len(m)
    PROVE  NoneBefore(l, f[k], at, dir, m[k]) /\ NoneBefore(r, k - f[k], at, dir, m[k])
<1>1. PICK i, j, li, ri \in Nat : RowTaken(l, r, at, dir, m, f, n, k, i, j, li, ri)
  BY MergeRow
<1>2. /\ n = i + j /\ li = i + 1 /\ ri = j + 1
      /\ \/ /\ Takes(l, r, at, dir, i, j) /\ li <= Len(l)
            /\ f[k] = li /\ k - f[k] = j /\ m[k] = l[li]
         \/ /\ ~Takes(l, r, at, dir, i, j) /\ ri <= Len(r)
            /\ f[k] = i /\ k - f[k] = ri /\ m[k] = r[ri]
  BY <1>1 DEF RowTaken
<1>3. Len(l) \in Nat /\ Len(r) \in Nat
  BY LenProperties
<1>4. CASE /\ Takes(l, r, at, dir, i, j) /\ li <= Len(l)
           /\ f[k] = li /\ k - f[k] = j /\ m[k] = l[li]
  <2>1. m[k] \in T
    <3>1. li \in 1 .. Len(l)
      <4>1. li = i + 1 /\ li <= Len(l)
        BY <1>2, <1>4
      <4> QED BY <1>3, <4>1
    <3> QED BY <1>4, <3>1, ElementOfSeq
  <2>2. NoneBefore(l, li, at, dir, m[k])
    <3> SUFFICES ASSUME NEW p \in Nat, li < p, p <= Len(l)
                 PROVE  ~Before(dir, l[p][at], l[li][at])
      BY <1>4 DEF NoneBefore
    <3>1. li \in 1 .. Len(l) /\ p \in 1 .. Len(l)
      <4>1. li >= 1
        BY <1>2
      <4>2. p >= 1 /\ li <= Len(l)
        BY <1>3, <4>1
      <4> QED BY <1>3, <4>1, <4>2
    <3> QED BY <3>1 DEF InOrder
  <2>3. ri <= Len(r) => ~Before(dir, r[ri][at], m[k][at])
    <3> SUFFICES ASSUME ri <= Len(r) PROVE ~Before(dir, r[ri][at], m[k][at])
      OBVIOUS
    <3>1. ~(j >= Len(r)) /\ ri \in 1 .. Len(r)
      BY <1>2, <1>3
    <3>2. r[ri] \in T
      BY <3>1, ElementOfSeq
    <3>3. Before(dir, l[li][at], r[ri][at])
      BY <1>2, <1>4, <3>1 DEF Takes
    <3> QED BY <1>4, <2>1, <3>2, <3>3, FirstIsNotLater
  <2>4. NoneBefore(r, j, at, dir, m[k])
    BY <1>2, <2>1, <2>3, RestInOrder
  <2> QED BY <1>4, <2>2, <2>4
<1>5. CASE /\ ~Takes(l, r, at, dir, i, j) /\ ri <= Len(r)
           /\ f[k] = i /\ k - f[k] = ri /\ m[k] = r[ri]
  <2>1. m[k] \in T
    <3>1. ri \in 1 .. Len(r)
      <4>1. ri = j + 1 /\ ri <= Len(r)
        BY <1>2, <1>5
      <4> QED BY <1>3, <4>1
    <3> QED BY <1>5, <3>1, ElementOfSeq
  <2>2. NoneBefore(r, ri, at, dir, m[k])
    <3> SUFFICES ASSUME NEW p \in Nat, ri < p, p <= Len(r)
                 PROVE  ~Before(dir, r[p][at], r[ri][at])
      BY <1>5 DEF NoneBefore
    <3>1. ri \in 1 .. Len(r) /\ p \in 1 .. Len(r)
      <4>1. ri >= 1
        BY <1>2
      <4>2. p >= 1 /\ ri <= Len(r)
        BY <1>3, <4>1
      <4> QED BY <1>3, <4>1, <4>2
    <3> QED BY <3>1 DEF InOrder
  <2>3. li <= Len(l) => ~Before(dir, l[li][at], m[k][at])
    <3> SUFFICES ASSUME li <= Len(l) PROVE ~Before(dir, l[li][at], m[k][at])
      OBVIOUS
    <3>1. i < Len(l)
      BY <1>2, <1>3
    <3> QED BY <1>2, <1>5, <3>1 DEF Takes
  <2>4. NoneBefore(l, i, at, dir, m[k])
    BY <1>2, <2>1, <2>3, RestInOrder
  <2> QED BY <1>5, <2>2, <2>4
<1> QED BY <1>2, <1>4, <1>5

\* The places a merge has reached in its runs never go back.
LEMMA MergeGoesOn ==
    ASSUME NEW T, NEW at, NEW dir, NEW l \in Seq(T), NEW r \in Seq(T),
           NEW m, NEW f, Interleaves(T, l, r, at, dir, m, f),
           NEW a \in Nat, NEW b \in Nat, a <= b, b <= Len(m)
    PROVE  /\ f[a] \in Nat /\ f[b] \in Nat /\ a - f[a] \in Nat /\ b - f[b] \in Nat
           /\ f[a] <= f[b] /\ a - f[a] <= b - f[b]
<1>1. Len(m) \in Nat /\ \A k \in Nat : k <= Len(m) => f[k] \in Nat /\ k - f[k] \in Nat
  <2>1. Len(m) \in Nat /\ Len(l) \in Nat /\ Len(r) \in Nat
    BY LenProperties DEF Interleaves
  <2>2. \A k \in 0 .. Len(m) : f[k] \in 0 .. Len(l) /\ k - f[k] \in 0 .. Len(r)
    BY DEF Interleaves
  <2> QED BY <2>1, <2>2
<1> DEFINE S == {k \in Nat : a <= k /\ k <= Len(m) => f[a] <= f[k] /\ a - f[a] <= k - f[k]}
<1>2. 0 \in S
  <2> SUFFICES ASSUME a <= 0 PROVE f[a] <= f[0] /\ a - f[a] <= 0 - f[0]
    OBVIOUS
  <2>1. a = 0
    OBVIOUS
  <2> QED BY <1>1, <2>1
<1>3. ASSUME NEW n \in Nat, n \in S PROVE n + 1 \in S
  <2> SUFFICES ASSUME a <= n + 1, n + 1 <= Len(m)
               PROVE  f[a] <= f[n + 1] /\ a - f[a] <= (n + 1) - f[n + 1]
    OBVIOUS
  <2>1. PICK k \in Nat : k = n + 1
    OBVIOUS
  <2>2. CASE a = k
    BY <1>1, <2>1, <2>2
  <2>3. CASE a <= n
    <3>1. f[a] <= f[n] /\ a - f[a] <= n - f[n]
      BY <1>1, <1>3, <2>1, <2>3
    <3>2. PICK i, j, li, ri \in Nat : RowTaken(l, r, at, dir, m, f, n, k, i, j, li, ri)
      BY <2>1, MergeRow
    <3>3. PICK u, v \in Nat : u = f[a] /\ v = a - f[a]
      <4>1. a <= Len(m)
        BY <1>1, <2>3
      <4> QED BY <1>1, <4>1
    <3>4. u <= i /\ v <= j
      BY <3>1, <3>2, <3>3 DEF RowTaken
    <3>5. u <= li /\ v <= ri
      <4>1. li = i + 1 /\ ri = j + 1
        BY <3>2 DEF RowTaken
      <4> QED BY <3>4, <4>1
    <3>6. (f[k] = li /\ k - f[k] = j) \/ (f[k] = i /\ k - f[k] = ri)
      BY <3>2 DEF RowTaken
    <3>7. u <= f[k] /\ v <= k - f[k]
      BY <3>4, <3>5, <3>6
    <3> QED BY <2>1, <3>3, <3>7
  <2> QED BY <2>1, <2>2, <2>3
<1> HIDE DEF S
<1>4. b \in S
  BY <1>2, <1>3, SetInduction
<1>5. a <= Len(m)
  BY <1>1
<1> QED BY <1>1, <1>4, <1>5 DEF S

\* A merge of runs in order is in order.
LEMMA MergeInOrder ==
    ASSUME NEW T, NEW at, Keyed(T, at), NEW dir, NEW l \in Seq(T), NEW r \in Seq(T),
           InOrder(l, at, dir), InOrder(r, at, dir)
    PROVE  InOrder(Merge(l, r, at, dir), at, dir)
<1> DEFINE m == Merge(l, r, at, dir)
<1>1. PICK f : Interleaves(T, l, r, at, dir, m, f)
  BY MergeIs
<1> HIDE DEF m
<1>2. Len(m) \in Nat /\ Len(l) \in Nat /\ Len(r) \in Nat
  BY <1>1, LenProperties DEF Interleaves
<1> SUFFICES ASSUME NEW a \in 1 .. Len(m), NEW k \in 1 .. Len(m), a < k
             PROVE  ~Before(dir, m[k][at], m[a][at])
  BY DEF InOrder, m
<1>3. PICK c, n \in Nat : a = c + 1 /\ k = n + 1 /\ a \in Nat /\ k \in Nat /\ a <= n
                          /\ a <= Len(m) /\ k <= Len(m) /\ n <= Len(m)
  <2>1. a - 1 \in Nat /\ k - 1 \in Nat /\ a = (a - 1) + 1 /\ k = (k - 1) + 1 /\ a \in Nat
        /\ k \in Nat /\ a <= k - 1 /\ a <= Len(m) /\ k <= Len(m) /\ k - 1 <= Len(m)
    BY <1>2
  <2> QED BY <2>1
<1>4. NoneBefore(l, f[a], at, dir, m[a]) /\ NoneBefore(r, a - f[a], at, dir, m[a])
  BY <1>1, <1>3, MergeTakesFirst
<1>5. /\ f[a] \in Nat /\ f[n] \in Nat /\ a - f[a] \in Nat /\ n - f[n] \in Nat
      /\ f[a] <= f[n] /\ a - f[a] <= n - f[n]
  BY <1>1, <1>3, MergeGoesOn
<1>6. PICK i, j, li, ri \in Nat : RowTaken(l, r, at, dir, m, f, n, k, i, j, li, ri)
  BY <1>1, <1>3, MergeRow
<1>7. PICK u, v \in Nat : u = f[a] /\ v = a - f[a] /\ u < li /\ v < ri
  <2>1. PICK u, v \in Nat : u = f[a] /\ v = a - f[a]
    BY <1>5
  <2>2. u <= i /\ v <= j
    BY <1>5, <1>6, <2>1 DEF RowTaken
  <2>3. u < li /\ v < ri
    <3>1. li = i + 1 /\ ri = j + 1
      BY <1>6 DEF RowTaken
    <3> QED BY <2>2, <3>1
  <2> QED BY <2>1, <2>3
<1>8. CASE li <= Len(l) /\ m[k] = l[li]
  <2>1. ~Before(dir, l[li][at], m[a][at])
    BY <1>4, <1>6, <1>7, <1>8 DEF NoneBefore
  <2> QED BY <1>8, <2>1
<1>9. CASE ri <= Len(r) /\ m[k] = r[ri]
  <2>1. ~Before(dir, r[ri][at], m[a][at])
    BY <1>4, <1>6, <1>7, <1>9 DEF NoneBefore
  <2> QED BY <1>9, <2>1
<1> QED BY <1>6, <1>8, <1>9 DEF RowTaken

-----------------------------------------------------------------------------
(* Merging a queue of runs. *)

\* The runs of q hold sum rows of R together.
Adds(R, q, sum) ==
    \E tot \in [0 .. Len(q) -> Int] :
        /\ tot[0] = 0 /\ tot[Len(q)] = sum
        /\ \A n \in 1 .. Len(q) : tot[n] = tot[n - 1] + Held(R, q[n])

\* A queue of runs of rows of T which hold w[R] rows of each view R together,
\* each in order if ord.
Queue(T, at, dir, ord, w, q) ==
    /\ q \in Seq(Seq(T)) /\ q # <<>>
    /\ \A R \in Views(T) : Adds(R, q, w[R])
    /\ ord => \A i \in 1 .. Len(q) : InOrder(q[i], at, dir)

LEMMA AddsOne ==
    ASSUME NEW R, NEW T, NEW run \in Seq(T), NEW sum, Adds(R, <<run>>, sum)
    PROVE  sum = Held(R, run)
<1>1. Held(R, run) \in Nat
  BY HeldNat
<1>2. PICK q : q = <<run>>
  OBVIOUS
<1>3. Len(q) = 1 /\ q[1] = run
  BY <1>2
<1>4. PICK tot \in [0 .. 1 -> Int] : tot[0] = 0 /\ tot[1] = sum /\ tot[1] = tot[0] + Held(R, q[1])
  <2>1. PICK tot \in [0 .. Len(q) -> Int] :
          /\ tot[0] = 0 /\ tot[Len(q)] = sum
          /\ \A n \in 1 .. Len(q) : tot[n] = tot[n - 1] + Held(R, q[n])
    BY <1>2 DEF Adds
  <2>2. 1 \in 1 .. Len(q) /\ 1 - 1 = 0
    BY <1>3
  <2>3. tot[1] = tot[1 - 1] + Held(R, q[1])
    BY <2>1, <2>2
  <2> QED BY <1>3, <2>1, <2>2, <2>3
<1> QED BY <1>1, <1>3, <1>4

\* A run before a queue.
LEMMA AddsFirst ==
    ASSUME NEW R, NEW T, NEW run \in Seq(T), NEW q \in Seq(Seq(T)), NEW sum, Adds(R, q, sum)
    PROVE  Adds(R, <<run>> \o q, Held(R, run) + sum)
<1> DEFINE u == <<run>> \o q
<1>1. PICK L \in Nat : L = Len(q)
  BY LenProperties
<1>2. PICK h \in Nat : h = Held(R, run)
  BY HeldNat
<1>3. Len(u) = L + 1 /\ u[1] = run /\ \A n \in 1 .. L : u[n + 1] = q[n]
  <2>1. <<run>> \in Seq(Seq(T)) /\ Len(<<run>>) = 1 /\ <<run>>[1] = run
    OBVIOUS
  <2>2. Len(u) = 1 + L /\ \A i \in 1 .. 1 + L : u[i] = IF i <= 1 THEN <<run>>[i] ELSE q[i - 1]
    BY <1>1, <2>1, ConcatProperties
  <2>3. ASSUME NEW n \in 1 .. L PROVE u[n + 1] = q[n]
    <3>1. n + 1 \in 1 .. 1 + L /\ ~(n + 1 <= 1) /\ (n + 1) - 1 = n
      OBVIOUS
    <3> QED BY <2>2, <3>1
  <2>4. 1 \in 1 .. 1 + L
    OBVIOUS
  <2> HIDE DEF u
  <2> QED BY <2>1, <2>2, <2>3, <2>4
<1> HIDE DEF u
<1>4. PICK tot \in [0 .. L -> Int] :
        /\ tot[0] = 0 /\ tot[L] = sum
        /\ \A n \in 1 .. L : tot[n] = tot[n - 1] + Held(R, q[n])
  BY <1>1 DEF Adds
<1>5. PICK t : t = [n \in 0 .. L + 1 |-> IF n = 0 THEN 0 ELSE h + tot[n - 1]]
  OBVIOUS
<1>6. t \in [0 .. L + 1 -> Int] /\ t[0] = 0 /\ \A n \in 0 .. L : t[n + 1] = h + tot[n]
  <2>1. \A n \in 0 .. L + 1 : n # 0 => n - 1 \in 0 .. L /\ tot[n - 1] \in Int
    OBVIOUS
  <2>2. \A n \in 0 .. L : n + 1 \in 0 .. L + 1 /\ n + 1 # 0 /\ (n + 1) - 1 = n
    OBVIOUS
  <2> QED BY <1>5, <2>1, <2>2
<1>7. t[L + 1] = h + sum
  BY <1>4, <1>6
<1>8. ASSUME NEW n \in 1 .. L + 1 PROVE t[n] = t[n - 1] + Held(R, u[n])
  <2>1. CASE n = 1
    <3>1. t[1] = h + tot[0] /\ 1 - 1 = 0
      <4>1. 0 \in 0 .. L /\ 0 + 1 = 1
        OBVIOUS
      <4> QED BY <1>6, <4>1
    <3> QED BY <1>2, <1>3, <1>4, <1>6, <2>1, <3>1
  <2>2. CASE n # 1
    <3>1. PICK p \in 1 .. L : n = p + 1 /\ n - 1 = p
      <4>1. n - 1 \in 1 .. L /\ n = (n - 1) + 1
        BY <2>2
      <4> QED BY <4>1
    <3>2. PICK o \in 0 .. L : o = p - 1 /\ o + 1 = p
      OBVIOUS
    <3>3. t[n] = h + tot[p] /\ t[p] = h + tot[o]
      <4>1. p \in 0 .. L
        OBVIOUS
      <4>2. t[p + 1] = h + tot[p] /\ t[o + 1] = h + tot[o]
        BY <1>6, <4>1
      <4> QED BY <3>1, <3>2, <4>2
    <3>4. tot[p] = tot[o] + Held(R, q[p]) /\ tot[p] \in Int /\ tot[o] \in Int
      BY <1>4, <3>2
    <3>5. u[n] = q[p]
      BY <1>3, <3>1
    <3>6. Held(R, q[p]) \in Nat
      <4>1. q[p] \in Seq(T)
        BY <1>1, ElementOfSeq
      <4> QED BY <4>1, HeldNat
    <3> QED BY <3>1, <3>3, <3>4, <3>5, <3>6
  <2> QED BY <2>1, <2>2
<1>9. Adds(R, u, h + sum)
  BY <1>3, <1>6, <1>7, <1>8 DEF Adds
<1> QED BY <1>2, <1>9 DEF u

\* The first two runs into a new one at the end.
MergesInto(q, qq, at, dir) == qq = SubSeq(q, 3, Len(q)) \o <<Merge(q[1], q[2], at, dir)>>

\* What that leaves of a queue of L + 2 runs.
OneFewer(T, q, qq, at, dir, L) ==
    /\ Len(q) = L + 2 /\ qq \in Seq(Seq(T)) /\ Len(qq) = L + 1
    /\ q[1] \in Seq(T) /\ q[2] \in Seq(T)
    /\ \A n \in 1 .. L : qq[n] = q[n + 2] /\ q[n + 2] \in Seq(T)
    /\ qq[L + 1] = Merge(q[1], q[2], at, dir)

LEMMA MergedQueue ==
    ASSUME NEW T, NEW q \in Seq(Seq(T)), ~(Len(q) <= 1), NEW at, NEW dir,
           NEW qq, MergesInto(q, qq, at, dir)
    PROVE  \E L \in Nat : OneFewer(T, q, qq, at, dir, L)
<1>1. PICK L \in Nat : Len(q) = L + 2
  <2>1. Len(q) \in Nat
    BY LenProperties
  <2>2. Len(q) - 2 \in Nat /\ Len(q) = (Len(q) - 2) + 2
    BY <2>1
  <2> QED BY <2>2
<1>2. \A n \in 1 .. L + 2 : q[n] \in Seq(T)
  BY <1>1, ElementOfSeq
<1>3. q[1] \in Seq(T) /\ q[2] \in Seq(T)
  <2>1. 1 \in 1 .. L + 2 /\ 2 \in 1 .. L + 2
    OBVIOUS
  <2> QED BY <1>2, <2>1
<1> DEFINE s == SubSeq(q, 3, Len(q))
           mm == Merge(q[1], q[2], at, dir)
<1>4. mm \in Seq(T)
  BY <1>3, MergeIs DEF Interleaves
<1>5. s \in Seq(Seq(T)) /\ Len(s) = L /\ \A n \in 1 .. L : s[n] = q[n + 2]
  <2>1. PICK f, g \in Int : f = 3 /\ g = L + 2
    OBVIOUS
  <2>2. PICK U : U = Seq(T) /\ \A i \in f .. g : q[i] \in U
    <3>1. \A i \in f .. g : i \in 1 .. L + 2
      BY <2>1
    <3> QED BY <1>2, <3>1
  <2>3. /\ SubSeq(q, f, g) \in Seq(U)
        /\ Len(SubSeq(q, f, g)) = IF f <= g THEN g - f + 1 ELSE 0
        /\ \A k \in 1 .. g - f + 1 : SubSeq(q, f, g)[k] = q[f + k - 1]
    BY <2>2, SubSeqProperties
  <2>4. g - f + 1 = L /\ (IF f <= g THEN g - f + 1 ELSE 0) = L
        /\ \A k \in 1 .. L : f + k - 1 = k + 2
    <3>1. g - f + 1 = L /\ \A k \in 1 .. L : f + k - 1 = k + 2
      BY <2>1
    <3>2. ~(f <= g) => L = 0
      BY <2>1
    <3> QED BY <3>1, <3>2
  <2>5. s = SubSeq(q, f, g)
    BY <1>1, <2>1
  <2> HIDE DEF s
  <2> QED BY <2>2, <2>3, <2>4, <2>5
<1>6. qq = s \o <<mm>>
  BY DEF MergesInto
<1> HIDE DEF s, mm
<1>7. <<mm>> \in Seq(Seq(T)) /\ Len(<<mm>>) = 1 /\ <<mm>>[1] = mm
  BY <1>4
<1>8. /\ qq \in Seq(Seq(T)) /\ Len(qq) = L + 1
      /\ \A i \in 1 .. L + 1 : qq[i] = IF i <= L THEN s[i] ELSE <<mm>>[i - L]
  BY <1>5, <1>6, <1>7, ConcatProperties
<1>9. ASSUME NEW n \in 1 .. L PROVE qq[n] = q[n + 2] /\ q[n + 2] \in Seq(T)
  <2>1. n \in 1 .. L + 1 /\ n <= L /\ n + 2 \in 1 .. L + 2
    OBVIOUS
  <2> QED BY <1>2, <1>5, <1>8, <2>1
<1>10. qq[L + 1] = mm
  <2>1. L + 1 \in 1 .. L + 1 /\ ~(L + 1 <= L) /\ (L + 1) - L = 1
    OBVIOUS
  <2> QED BY <1>7, <1>8, <2>1
<1> QED BY <1>1, <1>3, <1>8, <1>9, <1>10 DEF mm, OneFewer

\* A merge step leaves the sums.
LEMMA MergeStepAdds ==
    ASSUME NEW R, NEW T, NEW q \in Seq(Seq(T)), ~(Len(q) <= 1), NEW at, NEW dir,
           NEW qq, MergesInto(q, qq, at, dir), NEW sum, Adds(R, q, sum)
    PROVE  Adds(R, qq, sum)
<1>0. PICK L \in Nat : OneFewer(T, q, qq, at, dir, L)
  BY MergedQueue
<1>1. /\ Len(q) = L + 2 /\ qq \in Seq(Seq(T)) /\ Len(qq) = L + 1
      /\ q[1] \in Seq(T) /\ q[2] \in Seq(T)
      /\ \A n \in 1 .. L : qq[n] = q[n + 2] /\ q[n + 2] \in Seq(T)
      /\ qq[L + 1] = Merge(q[1], q[2], at, dir)
  BY <1>0 DEF OneFewer
<1>2. PICK tot \in [0 .. L + 2 -> Int] :
        /\ tot[0] = 0 /\ tot[L + 2] = sum
        /\ \A n \in 1 .. L + 2 : tot[n] = tot[n - 1] + Held(R, q[n])
  BY <1>1 DEF Adds
<1>3. PICK a, b \in Nat : a = Held(R, q[1]) /\ b = Held(R, q[2])
  BY <1>1, HeldNat
<1>4. Held(R, qq[L + 1]) = a + b
  BY <1>1, <1>3, MergeHolds
<1>5. tot[2] = a + b
  <2>1. 1 \in 1 .. L + 2 /\ 2 \in 1 .. L + 2 /\ 1 - 1 = 0 /\ 2 - 1 = 1 /\ tot[1] \in Int /\ tot[2] \in Int
    OBVIOUS
  <2>2. tot[1] = tot[0] + a /\ tot[2] = tot[1] + b
    BY <1>2, <1>3, <2>1
  <2> QED BY <1>2, <2>1, <2>2
<1>6. PICK t : t = [n \in 0 .. L + 1 |-> IF n = L + 1 THEN sum ELSE tot[n + 2] - (a + b)]
  OBVIOUS
<1>7. sum \in Int
  BY <1>2
<1>8. t \in [0 .. L + 1 -> Int] /\ t[L + 1] = sum /\ \A n \in 0 .. L : t[n] = tot[n + 2] - (a + b)
  <2>1. \A n \in 0 .. L + 1 : n # L + 1 => n + 2 \in 0 .. L + 2 /\ tot[n + 2] \in Int
    OBVIOUS
  <2>2. \A n \in 0 .. L : n \in 0 .. L + 1 /\ n # L + 1
    OBVIOUS
  <2>3. L + 1 \in 0 .. L + 1
    OBVIOUS
  <2>4. \A n \in 0 .. L + 1 : (IF n = L + 1 THEN sum ELSE tot[n + 2] - (a + b)) \in Int
    BY <1>7, <2>1
  <2>5. t \in [0 .. L + 1 -> Int]
    BY <1>6, <2>4
  <2>6. t[L + 1] = sum
    BY <1>6, <2>3
  <2>7. \A n \in 0 .. L : t[n] = tot[n + 2] - (a + b)
    BY <1>6, <2>2
  <2> QED BY <2>5, <2>6, <2>7
<1>9. t[0] = 0
  <2>1. 0 \in 0 .. L /\ 0 + 2 = 2
    OBVIOUS
  <2> QED BY <1>5, <1>8, <2>1
<1>10. ASSUME NEW n \in 1 .. L + 1 PROVE t[n] = t[n - 1] + Held(R, qq[n])
  <2>1. CASE n = L + 1
    <3>1. t[n] = sum /\ n - 1 = L /\ L \in 0 .. L
      BY <1>8, <2>1
    <3>2. t[L] = sum - (a + b)
      BY <1>2, <1>8, <3>1
    <3> QED BY <1>4, <1>7, <2>1, <3>1, <3>2
  <2>2. CASE n # L + 1
    <3>1. n \in 1 .. L /\ n \in 0 .. L /\ n - 1 \in 0 .. L
      BY <2>2
    <3>2. PICK p \in 1 .. L + 2, o \in 0 .. L + 2 :
             p = n + 2 /\ o = (n - 1) + 2 /\ o = p - 1 /\ tot[p] \in Int /\ tot[o] \in Int
      <4>1. n + 2 \in 1 .. L + 2 /\ (n - 1) + 2 \in 0 .. L + 2 /\ (n - 1) + 2 = (n + 2) - 1
        BY <3>1
      <4>2. n + 2 \in 0 .. L + 2
        BY <3>1
      <4> QED BY <4>1, <4>2
    <3>3. t[n] = tot[p] - (a + b) /\ t[n - 1] = tot[o] - (a + b)
      BY <1>8, <3>1, <3>2
    <3>4. tot[p] = tot[o] + Held(R, q[p])
      BY <1>2, <3>2
    <3>5. qq[n] = q[p] /\ Held(R, q[p]) \in Nat
      BY <1>1, <3>1, <3>2, HeldNat
    <3> QED BY <3>2, <3>3, <3>4, <3>5
  <2> QED BY <2>1, <2>2
<1> QED BY <1>1, <1>8, <1>9, <1>10 DEF Adds

LEMMA MergeStepKeeps ==
    ASSUME NEW T, NEW at, NEW dir, NEW ord, ord => Keyed(T, at), NEW w,
           NEW q, Queue(T, at, dir, ord, w, q), ~(Len(q) <= 1),
           NEW qq, MergesInto(q, qq, at, dir)
    PROVE  Queue(T, at, dir, ord, w, qq) /\ Len(qq) = Len(q) - 1
<1>1. /\ q \in Seq(Seq(T))
      /\ \A R \in Views(T) : Adds(R, q, w[R])
      /\ ord => \A i \in 1 .. Len(q) : InOrder(q[i], at, dir)
  BY DEF Queue
<1>0. PICK L \in Nat : OneFewer(T, q, qq, at, dir, L)
  BY <1>1, MergedQueue
<1>2. /\ Len(q) = L + 2 /\ qq \in Seq(Seq(T)) /\ Len(qq) = L + 1
      /\ q[1] \in Seq(T) /\ q[2] \in Seq(T)
      /\ \A n \in 1 .. L : qq[n] = q[n + 2] /\ q[n + 2] \in Seq(T)
      /\ qq[L + 1] = Merge(q[1], q[2], at, dir)
  BY <1>0 DEF OneFewer
<1>3. ASSUME NEW R \in Views(T) PROVE Adds(R, qq, w[R])
  BY <1>1, MergeStepAdds
<1>4. ASSUME ord, NEW i \in 1 .. Len(qq) PROVE InOrder(qq[i], at, dir)
  <2>1. \A n \in 1 .. L + 2 : InOrder(q[n], at, dir)
    BY <1>1, <1>2, <1>4
  <2>2. CASE i = L + 1
    <3>1. 1 \in 1 .. L + 2 /\ 2 \in 1 .. L + 2
      OBVIOUS
    <3>2. InOrder(q[1], at, dir) /\ InOrder(q[2], at, dir)
      BY <2>1, <3>1
    <3> QED BY <1>2, <1>4, <2>2, <3>2, MergeInOrder
  <2>3. CASE i # L + 1
    <3>1. i \in 1 .. L /\ i + 2 \in 1 .. L + 2
      BY <1>2, <2>3
    <3> QED BY <1>2, <2>1, <3>1
  <2> QED BY <2>2, <2>3
<1>5. qq # <<>>
  <2>1. Len(qq) # 0
    BY <1>2
  <2> QED BY <2>1
<1>6. Len(qq) = Len(q) - 1
  BY <1>2
<1> QED BY <1>2, <1>3, <1>4, <1>5, <1>6 DEF Queue

\* A queue merges into one run.
LEMMA MergedIsOneRun ==
    ASSUME NEW T, NEW at, NEW dir, NEW ord, ord => Keyed(T, at), NEW w,
           NEW q, Queue(T, at, dir, ord, w, q)
    PROVE  \E run : Merged(q, at, dir) = <<run>> /\ Queue(T, at, dir, ord, w, <<run>>)
<1> DEFINE Q(p) == Queue(T, at, dir, ord, w, p)
           V == Seq(Seq(T))
           Next1(p) == IF Len(p) <= 1 THEN p
                       ELSE SubSeq(p, 3, Len(p)) \o <<Merge(p[1], p[2], at, dir)>>
<1>1. PICK N \in Nat : N = Len(q) /\ N # 0 /\ q \in V
  BY LenProperties, EmptySeq DEF Queue
<1> DEFINE step == [p \in (1 .. N) \X V |-> Next1(p[2])]
           Is(h) == h = [n \in 0 .. N |-> IF n = 0 THEN q ELSE Next1(h[n - 1])]
<1>2. \A p \in V : Next1(p) \in V
  <2> SUFFICES ASSUME NEW p \in V, ~(Len(p) <= 1) PROVE Next1(p) \in V
    OBVIOUS
  <2>1. PICK pp : MergesInto(p, pp, at, dir)
    BY DEF MergesInto
  <2>2. pp \in V
    <3>1. PICK L \in Nat : OneFewer(T, p, pp, at, dir, L)
      BY <2>1, MergedQueue
    <3> QED BY <3>1 DEF OneFewer
  <2> QED BY <2>1, <2>2 DEF MergesInto
<1> HIDE DEF V, Next1
<1>3. step \in Steps(N, V)
  BY <1>2 DEF Steps
<1>4. PICK h : Walks(N, V, q, step, h)
  <2> HIDE DEF step
  <2> QED BY <1>1, <1>3, WalkExists
<1>5. Is(h)
  <2>1. ASSUME NEW n \in 0 .. N, n # 0 PROVE h[n] = Next1(h[n - 1])
    <3>1. n - 1 \in 0 .. N /\ n \in 1 .. N
      BY <2>1
    <3>2. <<n, h[n - 1]>> \in (1 .. N) \X V
      BY <1>4, <3>1 DEF Walks
    <3>3. h[n] = step[<<n, h[n - 1]>>]
      BY <1>4, <3>1 DEF Walks
    <3> QED BY <3>2, <3>3
  <2>2. h \in [0 .. N -> V] /\ h[0] = q
    BY <1>4 DEF Walks
  <2> HIDE DEF step
  <2> QED BY <2>1, <2>2
<1>6. PICK g : g = (CHOOSE h1 : Is(h1)) /\ Merged(q, at, dir) = g[N]
  BY <1>1 DEF Merged, Next1
<1>7. Is(g)
  <2> HIDE DEF Is
  <2> QED BY <1>5, <1>6
<1>8. g[0] = q /\ \A n \in Nat : n + 1 <= N => g[n + 1] = Next1(g[n])
  <2>1. 0 \in 0 .. N /\ \A n \in Nat : n + 1 <= N => n + 1 \in 0 .. N /\ n + 1 # 0 /\ (n + 1) - 1 = n
    OBVIOUS
  <2> QED BY <1>7, <2>1
<1> DEFINE S == {n \in Nat : n <= N => Q(g[n]) /\ (Len(g[n]) = 1 \/ Len(g[n]) = N - n)}
<1> HIDE DEF Is, Q, step
<1>9. 0 \in S
  BY <1>1, <1>8 DEF Q
<1>10. ASSUME NEW n \in Nat, n \in S PROVE n + 1 \in S
  <2> SUFFICES ASSUME n + 1 <= N
               PROVE  Q(g[n + 1]) /\ (Len(g[n + 1]) = 1 \/ Len(g[n + 1]) = N - (n + 1))
    OBVIOUS
  <2>1. n <= N
    OBVIOUS
  <2>2. PICK p : p = g[n] /\ Q(p) /\ (Len(p) = 1 \/ Len(p) = N - n)
    BY <1>10, <2>1
  <2>3. PICK pp : pp = g[n + 1] /\ pp = Next1(p)
    BY <1>8, <2>2
  <2>4. PICK c \in Nat : c = Len(p) /\ c # 0
    BY <2>2, LenProperties, EmptySeq DEF Q, Queue
  <2>5. CASE Len(p) <= 1
    <3>1. c = 1
      BY <2>4, <2>5
    <3>2. pp = p
      BY <2>3, <2>5 DEF Next1
    <3> QED BY <2>2, <2>3, <2>4, <3>1, <3>2
  <2>6. CASE ~(Len(p) <= 1)
    <3>1. MergesInto(p, pp, at, dir)
      BY <2>3, <2>6 DEF Next1, MergesInto
    <3>2. Q(pp) /\ Len(pp) = Len(p) - 1
      BY <2>2, <2>6, <3>1, MergeStepKeeps DEF Q
    <3>3. Len(pp) = N - (n + 1)
      <4>1. c = N - n
        <5>1. c = 1 \/ c = N - n
          BY <2>2, <2>4
        <5>2. ~(c <= 1)
          BY <2>4, <2>6
        <5> QED BY <5>1, <5>2
      <4>2. Len(pp) = c - 1
        BY <2>4, <3>2
      <4> QED BY <4>1, <4>2
    <3> QED BY <2>3, <3>2, <3>3
  <2> QED BY <2>5, <2>6
<1>11. N \in S
  <2> HIDE DEF S
  <2> QED BY <1>9, <1>10, SetInduction
<1>12. PICK p : p = g[N] /\ Q(p) /\ (Len(p) = 1 \/ Len(p) = 0)
  BY <1>11
<1>13. p \in V /\ Len(p) = 1
  BY <1>12, LenProperties, EmptySeq DEF Q, Queue, V
<1>14. p = <<p[1]>>
  BY <1>13 DEF V
<1> QED BY <1>6, <1>12, <1>14 DEF Q

-----------------------------------------------------------------------------
(* Opening. *)

LEMMA SortsAre ==
    ASSUME SortConstants, NEW qy \in Sorts, NEW T, T = ToSet(qy.rows)
    PROVE  /\ qy.rows \in Seq(T) /\ Len(qy.rows) \in Nat
           /\ \A a \in T : Len(a) = 2 /\ a[1].value \in Int
           /\ Ordered(qy.rows, qy.at) => Keyed(T, qy.at)
<1>0. PICK c \in UNION {[1 .. mm -> Cells] : mm \in 0 .. MaxRows}, at \in {1, 3},
           dir \in {"ASC", "DESC"} :
        qy = [kind |-> "sort", rows |-> [i \in 1 .. Len(c) |-> <<c[i], IntField(i)>>],
              at |-> at, dir |-> dir]
  BY DEF Sorts
<1>1. PICK m \in 0 .. MaxRows : c \in [1 .. m -> Cells]
  OBVIOUS
<1>2. m \in Nat /\ Len(c) = m
  BY <1>1 DEF SortConstants
<1>3. /\ qy.rows = [i \in 1 .. m |-> <<c[i], IntField(i)>>] /\ qy.at = at
      /\ \A i \in 1 .. m : qy.rows[i] = <<c[i], IntField(i)>>
  BY <1>0, <1>2
<1>4. qy.rows \in Seq({qy.rows[i] : i \in 1 .. m}) /\ Len(qy.rows) = m
  <2> DEFINE D == {qy.rows[i] : i \in 1 .. m}
  <2>1. qy.rows \in [1 .. m -> D]
    BY <1>3
  <2> HIDE DEF D
  <2>2. qy.rows \in Seq(D)
    BY <1>2, <2>1, SeqDef
  <2>3. Len(qy.rows) = m
    BY <1>2, <1>3
  <2> QED BY <2>2, <2>3 DEF D
<1>5. T = {qy.rows[i] : i \in 1 .. m}
  <2>1. DOMAIN qy.rows = 1 .. m
    BY <1>3
  <2> QED BY <2>1 DEF ToSet
<1>6. ASSUME NEW a \in T PROVE Len(a) = 2 /\ a[1].value \in Int
  <2>1. PICK i \in 1 .. m : a = <<c[i], IntField(i)>>
    <3>1. PICK i \in 1 .. m : a = qy.rows[i]
      BY <1>5
    <3>2. qy.rows[i] = <<c[i], IntField(i)>>
      BY <1>3
    <3> QED BY <3>1, <3>2
  <2>2. c[i] \in Cells
    BY <1>1
  <2> QED BY <2>1, <2>2 DEF SortConstants
<1>7. ASSUME Ordered(qy.rows, qy.at) PROVE Keyed(T, qy.at)
  <2> SUFFICES ASSUME NEW a \in T, NEW b \in T
               PROVE  Comparable(a[qy.at], b[qy.at]) /\ a[qy.at].value \in Int
    BY DEF Keyed
  <2>1. PICK i \in 1 .. m, j \in 1 .. m : a = qy.rows[i] /\ b = qy.rows[j]
    BY <1>5
  <2>2. qy.at <= Len(a) /\ Comparable(a[qy.at], b[qy.at])
    BY <1>4, <1>7, <2>1 DEF Ordered, KeyIn
  <2>3. qy.at = 1
    BY <1>3, <1>6, <2>2
  <2> QED BY <1>6, <2>2, <2>3
<1> QED BY <1>2, <1>4, <1>5, <1>6, <1>7

\* Rows that are in order together are in order in a part of them.
LEMMA OrderedPart ==
    ASSUME NEW T, NEW rows, T = ToSet(rows), NEW at, Ordered(rows, at), NEW b \in Seq(T)
    PROVE  Ordered(b, at)
<1>1. \A aa, y \in T : at <= Len(aa) /\ Comparable(aa[at], y[at])
  BY DEF Ordered, KeyIn, ToSet
<1>2. \A i \in 1 .. Len(b) : b[i] \in T
  BY ElementOfSeq
<1> QED BY <1>1, <1>2 DEF Ordered, KeyIn

\* The runs that are written for the rows of a child.
LEMMA WrittenRuns ==
    ASSUME SortConstants, NEW T, NEW rows \in Seq(T), T = ToSet(rows), rows # <<>>,
           NEW at, NEW dir, NEW q \in RunQueues(Buffers(rows), at, dir)
    PROVE  /\ q \in Seq(Seq(T)) /\ q # <<>>
           /\ \A R \in Views(T) : Adds(R, q, Held(R, rows))
           /\ Ordered(rows, at) => \A n \in 1 .. Len(q) : InOrder(q[n], at, dir)
<1> DEFINE B == Buffers(rows)
           c(n) == Filled(rows, n)
<1>1. PICK N \in Nat : N = Len(B)
  BY BufferIs
<1>2. /\ N # 0 /\ c(0) = 0 /\ c(N) = Len(rows)
      /\ \A n \in 1 .. N : B[n] \in Seq(T) /\ Alike(B[n], 0, Len(B[n]), rows, c(n - 1), c(n))
  BY <1>1, BufferIs
<1> HIDE DEF B, c
<1>3. q \in [1 .. N -> UNION {SortedRuns(B[n], at, dir) : n \in 1 .. N}]
      /\ \A n \in 1 .. N : q[n] \in SortedRuns(B[n], at, dir)
  BY <1>1 DEF RunQueues, B
<1>4. ASSUME NEW n \in 1 .. N
      PROVE  /\ q[n] \in Seq(T) /\ \A R \in Views(T) : Held(R, q[n]) = Held(R, B[n])
             /\ Ordered(rows, at) => InOrder(q[n], at, dir)
  <2>1. q[n] \in Arrangements(B[n]) /\ (Ordered(B[n], at) => InOrder(q[n], at, dir))
    BY <1>3 DEF SortedRuns
  <2>2. B[n] \in Seq(T)
    BY <1>2
  <2> QED BY <2>1, <2>2, ArrangementHolds, OrderedPart
<1>5. q \in Seq(Seq(T)) /\ Len(q) = N
  <2>1. q \in [1 .. N -> Seq(T)]
    BY <1>3, <1>4
  <2> QED BY <2>1, SeqDef
<1>6. q # <<>>
  BY <1>2, <1>5
<1>7. ASSUME NEW R \in Views(T) PROVE Adds(R, q, Held(R, rows))
  <2> DEFINE tot == [n \in 0 .. N |-> HeldUpTo(R, rows, c(n))]
  <2>1. \A n \in 0 .. N : c(n) \in Nat
    <3>1. c(0) \in Nat
      BY <1>2
    <3>2. \A n \in 1 .. N : c(n) \in Nat
      BY <1>2 DEF Alike
    <3>3. \A n \in 0 .. N : n = 0 \/ n \in 1 .. N
      OBVIOUS
    <3> QED BY <3>1, <3>2, <3>3
  <2>2. tot \in [0 .. N -> Int]
    BY <2>1, HeldStep
  <2>3. tot[0] = 0 /\ tot[N] = Held(R, rows)
    <3>1. HeldUpTo(R, rows, 0) = 0
      BY HeldStep
    <3> QED BY <1>2, <3>1 DEF Held
  <2>4. ASSUME NEW n \in 1 .. N PROVE tot[n] = tot[n - 1] + Held(R, q[n])
    <3>1. PICK z, b : z = 0 /\ b = Len(B[n])
      OBVIOUS
    <3>2. Alike(B[n], z, b, rows, c(n - 1), c(n))
      BY <1>2, <3>1
    <3>3. HeldUpTo(R, B[n], b) - HeldUpTo(R, B[n], z)
            = HeldUpTo(R, rows, c(n)) - HeldUpTo(R, rows, c(n - 1))
      BY <3>2, HeldFrom
    <3>4. HeldUpTo(R, B[n], z) = 0
      BY <3>1, HeldStep
    <3>5. HeldUpTo(R, B[n], b) = Held(R, q[n])
      BY <1>4, <3>1 DEF Held
    <3>6. n \in 0 .. N /\ n - 1 \in 0 .. N
      OBVIOUS
    <3>7. tot[n] = HeldUpTo(R, rows, c(n)) /\ tot[n - 1] = HeldUpTo(R, rows, c(n - 1))
          /\ tot[n] \in Int /\ tot[n - 1] \in Int
      BY <2>2, <3>6
    <3>8. Held(R, q[n]) \in Nat
      BY <1>4, HeldNat
    <3> HIDE DEF tot
    <3> QED BY <3>3, <3>4, <3>5, <3>7, <3>8
  <2> HIDE DEF tot
  <2> QED BY <1>5, <2>2, <2>3, <2>4 DEF Adds
<1> QED BY <1>4, <1>5, <1>6, <1>7

\* What n openings have left of a query.
HasRuns(qy, s, n) == \/ s.runs = <<>> /\ n = 0
                     \/ \E run : s.runs = <<run>> /\ RunOf(qy, n, run)

\* The queue that is merged: the run of earlier openings, and the ones written now.
LEMMA QueueToMerge ==
    ASSUME SortConstants, NEW qy \in Sorts, qy.rows # <<>>, NEW n \in Nat,
           NEW s, HasRuns(qy, s, n), NEW T, T = ToSet(qy.rows),
           NEW q \in RunQueues(Buffers(qy.rows), qy.at, qy.dir),
           NEW w, w = [R \in Views(T) |-> (n + 1) * Held(R, qy.rows)]
    PROVE  Queue(T, qy.at, qy.dir, Ordered(qy.rows, qy.at), w, s.runs \o q)
<1>1. qy.rows \in Seq(T)
  BY SortsAre
<1>2. /\ q \in Seq(Seq(T)) /\ q # <<>>
      /\ \A R \in Views(T) : Adds(R, q, Held(R, qy.rows))
      /\ Ordered(qy.rows, qy.at) => \A i \in 1 .. Len(q) : InOrder(q[i], qy.at, qy.dir)
  BY <1>1, WrittenRuns
<1>3. CASE s.runs = <<>> /\ n = 0
  <2>1. s.runs \o q = q
    BY <1>2, <1>3
  <2>2. ASSUME NEW R \in Views(T) PROVE Adds(R, q, w[R])
    <3>1. PICK h \in Nat : h = Held(R, qy.rows)
      BY <1>1, HeldNat
    <3>2. w[R] = (n + 1) * h
      BY <3>1
    <3>3. (0 + 1) * h = h
      OBVIOUS
    <3> QED BY <1>2, <1>3, <3>1, <3>2, <3>3
  <2> QED BY <1>2, <2>1, <2>2 DEF Queue
<1>4. CASE \E run : s.runs = <<run>> /\ RunOf(qy, n, run)
  <2>1. PICK run \in Seq(T) : s.runs = <<run>> /\ RunOf(qy, n, run)
    BY <1>4 DEF RunOf
  <2> DEFINE u == <<run>> \o q
  <2>2. ASSUME NEW R \in Views(T) PROVE Adds(R, u, w[R])
    <3>1. PICK h \in Nat : h = Held(R, qy.rows)
      BY <1>1, HeldNat
    <3>2. Held(R, run) = n * h
      BY <2>1, <3>1 DEF RunOf
    <3>3. w[R] = (n + 1) * h
      BY <3>1
    <3>4. (n + 1) * h = n * h + h
      OBVIOUS
    <3>5. Adds(R, u, Held(R, run) + h)
      BY <1>2, <3>1, AddsFirst
    <3> HIDE DEF u
    <3> QED BY <3>2, <3>3, <3>4, <3>5
  <2>3. PICK L \in Nat : L = Len(q)
    BY <1>2, LenProperties
  <2>4. <<run>> \in Seq(Seq(T)) /\ Len(<<run>>) = 1 /\ <<run>>[1] = run
    OBVIOUS
  <2>5. /\ u \in Seq(Seq(T)) /\ Len(u) = 1 + L
        /\ \A i \in 1 .. 1 + L : u[i] = IF i <= 1 THEN <<run>>[i] ELSE q[i - 1]
    BY <1>2, <2>3, <2>4, ConcatProperties
  <2> HIDE DEF u
  <2>6. u # <<>>
    <3>1. Len(u) # 0
      BY <2>5
    <3> QED BY <3>1
  <2>7. ASSUME Ordered(qy.rows, qy.at), NEW i \in 1 .. Len(u) PROVE InOrder(u[i], qy.at, qy.dir)
    <3>1. CASE i = 1
      <4>1. u[i] = run
        <5>1. 1 \in 1 .. 1 + L /\ 1 <= 1
          OBVIOUS
        <5> QED BY <2>4, <2>5, <3>1, <5>1
      <4> QED BY <2>1, <2>7, <4>1 DEF RunOf
    <3>2. CASE i # 1
      <4>1. i - 1 \in 1 .. L /\ i \in 1 .. 1 + L /\ ~(i <= 1)
        BY <2>5, <3>2
      <4>2. u[i] = q[i - 1]
        BY <2>5, <4>1
      <4> QED BY <1>2, <2>3, <2>7, <4>1, <4>2
    <3> QED BY <3>1, <3>2
  <2>8. s.runs \o q = u
    BY <2>1 DEF u
  <2> QED BY <2>2, <2>5, <2>6, <2>7, <2>8 DEF Queue
<1> QED BY <1>3, <1>4 DEF HasRuns

\* One opening more leaves one run, with each row once more.
LEMMA OpenedOnceMore ==
    ASSUME SortConstants, NEW qy \in Sorts, qy.rows # <<>>, NEW n \in Nat,
           NEW s, HasRuns(qy, s, n), NEW ss \in Opened(s, qy.rows, qy.at, qy.dir)
    PROVE  \E run : ss = [runs |-> <<run>>, page |-> 1, slot |-> 0] /\ RunOf(qy, n + 1, run)
<1> DEFINE T == ToSet(qy.rows)
           K == Ordered(qy.rows, qy.at)
           w == [R \in Views(T) |-> (n + 1) * Held(R, qy.rows)]
<1>1. qy.rows \in Seq(T) /\ (K => Keyed(T, qy.at))
  BY SortsAre
<1>2. CASE KeyIn(qy.at, qy.rows)
  <2>1. PICK q \in RunQueues(Buffers(qy.rows), qy.at, qy.dir) :
          ss = [runs |-> Merged(s.runs \o q, qy.at, qy.dir), page |-> 1, slot |-> 0]
    BY <1>2 DEF Opened
  <2>2. Queue(T, qy.at, qy.dir, K, w, s.runs \o q)
    BY QueueToMerge
  <2>3. PICK u : u = s.runs \o q /\ Queue(T, qy.at, qy.dir, K, w, u)
    BY <2>2
  <2> HIDE DEF T, K, w
  <2>4. PICK run : Merged(u, qy.at, qy.dir) = <<run>> /\ Queue(T, qy.at, qy.dir, K, w, <<run>>)
    BY <1>1, <2>3, MergedIsOneRun
  <2>5. /\ <<run>> \in Seq(Seq(T))
        /\ \A R \in Views(T) : Adds(R, <<run>>, w[R])
        /\ K => \A i \in 1 .. Len(<<run>>) : InOrder(<<run>>[i], qy.at, qy.dir)
    BY <2>4 DEF Queue
  <2>6. run \in Seq(T)
    BY <2>5
  <2>7. \A R \in Views(T) : Held(R, run) = (n + 1) * Held(R, qy.rows)
    <3>1. \A R \in Views(T) : w[R] = Held(R, run)
      BY <2>5, <2>6, AddsOne
    <3> QED BY <3>1 DEF w
  <2>8. K => InOrder(run, qy.at, qy.dir)
    <3>1. 1 \in 1 .. Len(<<run>>) /\ <<run>>[1] = run
      OBVIOUS
    <3> QED BY <2>5, <3>1
  <2>9. RunOf(qy, n + 1, run)
    BY <2>6, <2>7, <2>8 DEF RunOf, T, K
  <2> QED BY <2>1, <2>3, <2>4, <2>9
<1>3. CASE ~KeyIn(qy.at, qy.rows)
  <2>1. PICK run \in Arrangements(Kept(s) \o qy.rows) :
          ss = [runs |-> <<run>>, page |-> 1, slot |-> 0]
    BY <1>3 DEF Opened
  <2>2. Kept(s) \in Seq(T) /\ \A R \in Views(T) : Held(R, Kept(s)) = n * Held(R, qy.rows)
    <3>1. CASE s.runs = <<>> /\ n = 0
      <4>1. Kept(s) = <<>>
        BY <3>1 DEF Kept
      <4>2. ASSUME NEW R \in Views(T) PROVE Held(R, Kept(s)) = n * Held(R, qy.rows)
        <5>1. PICK h \in Nat : h = Held(R, qy.rows)
          BY <1>1, HeldNat
        <5>2. Held(R, Kept(s)) = 0
          <6>1. Len(Kept(s)) = 0
            BY <4>1
          <6>2. HeldUpTo(R, Kept(s), 0) = 0
            BY HeldStep
          <6> QED BY <6>1, <6>2 DEF Held
        <5>3. 0 * h = 0
          OBVIOUS
        <5> QED BY <3>1, <5>1, <5>2, <5>3
      <4> QED BY <4>1, <4>2
    <3>2. CASE \E run1 : s.runs = <<run1>> /\ RunOf(qy, n, run1)
      <4>1. PICK run1 : s.runs = <<run1>> /\ RunOf(qy, n, run1)
        BY <3>2
      <4>2. Kept(s) = run1
        <5>1. s.runs # <<>> /\ s.runs[1] = run1
          BY <4>1
        <5> QED BY <5>1 DEF Kept
      <4> QED BY <4>1, <4>2 DEF RunOf
    <3> QED BY <3>1, <3>2 DEF HasRuns
  <2>3. PICK b \in Seq(T) : b = Kept(s) \o qy.rows
    <3> HIDE DEF T
    <3>1. Kept(s) \o qy.rows \in Seq(T)
      BY <1>1, <2>2, ConcatProperties
    <3> QED BY <3>1
  <2>4. run \in Seq(T) /\ \A R \in Views(T) : Held(R, run) = Held(R, b)
    BY <2>1, <2>3, ArrangementHolds
  <2>5. ASSUME NEW R \in Views(T) PROVE Held(R, run) = (n + 1) * Held(R, qy.rows)
    <3>1. PICK h \in Nat : h = Held(R, qy.rows)
      BY <1>1, HeldNat
    <3>2. Held(R, b) = n * h + h
      BY <1>1, <2>2, <2>3, <3>1, HeldConcat
    <3>3. (n + 1) * h = n * h + h
      OBVIOUS
    <3> QED BY <2>4, <3>1, <3>2, <3>3
  <2>6. ~K
    BY <1>3 DEF Ordered
  <2>7. RunOf(qy, n + 1, run)
    BY <2>4, <2>5, <2>6 DEF RunOf
  <2> QED BY <2>1, <2>7
<1> QED BY <1>2, <1>3

-----------------------------------------------------------------------------
(* Fetching. *)

\* Page n of a run holds the b rows behind place a of it, up to d.
Page(T, run, B, P, n, a, b, d) ==
    /\ a = (n - 1) * P /\ a + b = d /\ d <= Len(run) /\ b = Len(B[n]) /\ b # 0
    /\ n < Len(B) => d = n * P
    /\ n = Len(B) => d = Len(run)
    /\ \A k \in 1 .. b : B[n][k] = run[a + k] /\ run[a + k] \in T

LEMMA PlaceInRun ==
    ASSUME SortConstants, NEW T, NEW run \in Seq(T), NEW B, B = Buffers(run),
           NEW n \in 1 .. Len(B)
    PROVE  \E a, b, d \in Nat : Page(T, run, B, PerPage, n, a, b, d)
<1>1. PICK N \in Nat : N = Len(B) /\ n \in Nat /\ n >= 1 /\ n <= N
  BY BufferIs
<1>2. PICK P \in Nat : P = PerPage
  BY DEF SortConstants
<1>3. /\ Filled(run, n - 1) = (n - 1) * P
      /\ n < N => Filled(run, n) = Filled(run, n - 1) + P
      /\ B[n] # <<>> /\ B[n] \in Seq(T)
      /\ Alike(B[n], 0, Len(B[n]), run, Filled(run, n - 1), Filled(run, n))
      /\ Filled(run, N) = Len(run)
  BY <1>1, <1>2, BufferIs
<1>4. PICK b \in Nat : b = Len(B[n]) /\ b # 0
  BY <1>3, LenProperties, EmptySeq
<1>5. PICK a, d \in Nat : a = Filled(run, n - 1) /\ d = Filled(run, n)
  BY <1>3 DEF Alike
<1>6. d = a + b /\ \A k \in 1 .. b : B[n][k] = run[a + k]
  <2>1. d = a + (b - 0) /\ \A k \in 1 .. b - 0 : B[n][0 + k] = run[a + k]
    BY <1>3, <1>4, <1>5 DEF Alike
  <2>2. b - 0 = b /\ \A k \in 1 .. b : 0 + k = k
    OBVIOUS
  <2> QED BY <2>1, <2>2
<1>7. d <= Len(run)
  <2>1. n * P \in Nat /\ Len(run) \in Nat
    BY <1>1, LenProperties
  <2>2. d = IF n * P <= Len(run) THEN n * P ELSE Len(run)
    BY <1>2, <1>5 DEF Filled
  <2> QED BY <2>1, <2>2
<1>8. a = (n - 1) * P /\ (n < N => d = n * P) /\ (n = N => d = Len(run))
  <2>1. (n - 1) * P + P = n * P
    <3>1. (n - 1) * P = n * P - P /\ n * P \in Int
      BY <1>1, TimesMonotone
    <3> QED BY <3>1
  <2>2. a = (n - 1) * P /\ (n < N => d = a + P)
    BY <1>3, <1>5
  <2>3. n = N => d = Len(run)
    BY <1>3, <1>5
  <2>4. n < N => d = n * P
    BY <2>1, <2>2
  <2> QED BY <2>2, <2>3, <2>4
<1>9. ASSUME NEW k \in 1 .. b PROVE run[a + k] \in T
  <2>1. a + k \in 1 .. Len(run)
    <3>1. Len(run) \in Nat
      BY LenProperties
    <3> QED BY <1>6, <1>7, <3>1
  <2> QED BY <2>1, ElementOfSeq
<1>10. Page(T, run, B, P, n, a, b, d)
  <2>1. a + b = d /\ N = Len(B)
    BY <1>1, <1>6
  <2> QED BY <1>4, <1>6, <1>7, <1>8, <1>9, <2>1 DEF Page
<1> QED BY <1>2, <1>10

LEMMA OneRowMore ==
    ASSUME NEW T, NEW run \in Seq(T), NEW lo \in Nat, NEW hi, hi = lo + 1, hi <= Len(run)
    PROVE  Append(SubSeq(run, 1, lo), run[hi]) = SubSeq(run, 1, hi)
<1>1. Len(run) \in Nat
  BY LenProperties
<1>2. PICK o \in 1 .. Len(run), n \in 1 .. Len(run) : o = 1 /\ n = hi /\ n \in o .. Len(run)
                                                  /\ n - 1 = lo
  <2>1. 1 \in 1 .. Len(run) /\ hi \in 1 .. Len(run) /\ hi - 1 = lo
    BY <1>1
  <2> QED BY <2>1
<1>3. SubSeq(run, o, n) = SubSeq(run, o, n - 1) \o <<run[n]>>
  BY <1>2, SubSeqRecursiveSecond
<1>4. SubSeq(run, o, lo) \in Seq(T) /\ run[n] \in T
  <2>1. \A i \in o .. lo : run[i] \in T
    BY <1>1, <1>2, ElementOfSeq
  <2>2. o \in Int /\ lo \in Int
    BY <1>2
  <2> QED BY <2>1, <2>2, SubSeqProperties, ElementOfSeq
<1>5. Append(SubSeq(run, o, lo), run[n]) = SubSeq(run, o, lo) \o <<run[n]>>
  BY <1>4, AppendIsConcat
<1> QED BY <1>2, <1>3, <1>5

\* A sort of one run at page p and slot j.
At(run, p, j) == [runs |-> <<run>>, page |-> p, slot |-> j]

\* The next row is the one behind those returned, or there is none.
LEMMA FetchGoesOn ==
    ASSUME SortConstants, NEW T, \A a \in T : a # <<>>, NEW run \in Seq(T),
           NEW p, NEW j, NEW rows, Standing(At(run, p, j), rows),
           NEW f, f = FetchSorted(At(run, p, j))
    PROVE  \/ f.row = <<>> /\ Position(At(run, p, j)) = Len(run)
           \/ /\ f.row # <<>>
              /\ \E pp, jj : f.sort = At(run, pp, jj) /\ Standing(At(run, pp, jj), Append(rows, f.row))
<1> DEFINE s == At(run, p, j)
           B == Buffers(run)
<1>1. s.page = p /\ s.slot = j /\ s.runs = <<run>> /\ s.runs[1] = run /\ RunPages(s) = B
  BY DEF At, RunPages
<1>2. PICK N \in Nat : N = Len(B)
  BY BufferIs
<1>3. PICK P \in Nat : P = PerPage
  BY DEF SortConstants
<1>4. p \in 1 .. N /\ j \in 0 .. Len(B[p]) /\ rows = SubSeq(run, 1, Position(s))
  BY <1>1, <1>2 DEF Standing
<1> HIDE DEF B
<1>5. PICK a, b, d \in Nat : Page(T, run, B, P, p, a, b, d)
  BY <1>2, <1>3, <1>4, PlaceInRun DEF B
<1>6. /\ a = (p - 1) * P /\ a + b = d /\ d <= Len(run) /\ b = Len(B[p]) /\ b # 0
      /\ p < N => d = p * P
      /\ p = N => d = Len(run)
      /\ \A k \in 1 .. b : B[p][k] = run[a + k] /\ run[a + k] \in T
  BY <1>2, <1>5 DEF Page
<1>7. Position(s) = a + j /\ j \in Nat /\ j <= b /\ Len(run) \in Nat
  <2>1. j \in Nat /\ j <= b
    BY <1>4, <1>6
  <2>2. Position(s) = (p - 1) * P + j
    BY <1>1, <1>3 DEF Position
  <2>3. Position(s) = a + j
    BY <1>6, <2>2
  <2> QED BY <2>1, <2>3, LenProperties
<1>8. CASE j < b
  <2>1. f = [sort |-> [s EXCEPT !.slot = @ + 1], row |-> B[p][j + 1]]
    <3>1. /\ j < Len(RunPages(s)[p]) /\ j \in Nat /\ Len(RunPages(s)[p]) \in Nat
      BY <1>1, <1>6, <1>7, <1>8
    <3>2. f = [sort |-> [s EXCEPT !.slot = @ + 1], row |-> RunPages(s)[p][j + 1]]
      BY <1>1, <3>1 DEF FetchSorted
    <3> QED BY <1>1, <3>2
  <2>2. PICK jj \in 1 .. b : jj = j + 1
    BY <1>7, <1>8
  <2>3. f.sort = At(run, p, jj)
    BY <1>1, <2>1, <2>2 DEF At
  <2>4. PICK lo, hi \in Nat : lo = a + j /\ hi = a + jj /\ hi = lo + 1 /\ hi <= Len(run)
    <3>1. a + j \in Nat /\ a + jj \in Nat /\ a + jj = (a + j) + 1
      BY <1>7, <2>2
    <3>2. jj <= b
      OBVIOUS
    <3>3. a + jj <= Len(run)
      BY <1>7, <1>6, <3>2
    <3> QED BY <3>1, <3>3
  <2>5. f.row = run[hi] /\ run[hi] \in T
    BY <1>6, <2>1, <2>2, <2>4
  <2>6. Append(rows, f.row) = SubSeq(run, 1, hi)
    <3>1. Append(SubSeq(run, 1, lo), run[hi]) = SubSeq(run, 1, hi)
      BY <2>4, OneRowMore
    <3>2. rows = SubSeq(run, 1, lo)
      BY <1>4, <1>7, <2>4
    <3> QED BY <2>5, <3>1, <3>2
  <2>7. Position(At(run, p, jj)) = hi
    BY <1>3, <1>6, <2>2, <2>4 DEF Position, At
  <2>8. jj \in 0 .. Len(B[p])
    BY <1>6, <2>2
  <2>9. Standing(At(run, p, jj), Append(rows, f.row))
    BY <1>2, <1>4, <2>6, <2>7, <2>8 DEF Standing, At, RunPages, B
  <2> QED BY <2>3, <2>5, <2>9
<1>9. CASE ~(j < b) /\ p = N
  <2>1. j = b
    BY <1>7, <1>9
  <2>2. f = [sort |-> s, row |-> <<>>]
    BY <1>1, <1>2, <1>6, <1>9, <2>1 DEF FetchSorted
  <2>3. a + j = d /\ d = Len(run)
    BY <1>6, <1>9, <2>1
  <2> QED BY <1>7, <2>2, <2>3
<1>10. CASE ~(j < b) /\ p # N
  <2>1. PICK pp \in 1 .. N : pp = p + 1 /\ p < N /\ pp - 1 = p
    <3>1. p + 1 \in 1 .. N /\ p < N /\ (p + 1) - 1 = p
      BY <1>4, <1>10
    <3> QED BY <3>1
  <2>2. j = b /\ Position(s) = d /\ d = p * P
    <3>1. j = b
      BY <1>7, <1>10
    <3> QED BY <1>7, <1>6, <2>1, <3>1
  <2>3. f = [sort |-> At(run, p + 1, 1), row |-> B[p + 1][1]]
    <3>1. f = [sort |-> [runs |-> s.runs, page |-> s.page + 1, slot |-> 1],
               row |-> RunPages(s)[s.page + 1][1]]
      BY <1>1, <1>2, <1>6, <1>10, <2>2 DEF FetchSorted
    <3> QED BY <1>1, <3>1 DEF At
  <2>4. f.sort = At(run, pp, 1) /\ f.row = B[pp][1]
    BY <2>1, <2>3
  <2>13. PICK aa, bb, dd \in Nat : Page(T, run, B, P, pp, aa, bb, dd)
    BY <1>2, <1>3, <2>1, PlaceInRun DEF B
  <2>5. /\ aa = (pp - 1) * P /\ aa + bb = dd /\ dd <= Len(run) /\ bb = Len(B[pp]) /\ bb # 0
        /\ \A k \in 1 .. bb : B[pp][k] = run[aa + k] /\ run[aa + k] \in T
    BY <2>13 DEF Page
  <2>6. aa = d
    BY <2>1, <2>2, <2>5
  <2>7. PICK hi \in Nat : hi = d + 1 /\ hi <= Len(run) /\ 1 \in 1 .. bb
    <3>1. bb >= 1
      BY <2>5
    <3>2. d + bb = dd /\ dd <= Len(run)
      BY <2>5, <2>6
    <3>3. d + 1 <= Len(run)
      BY <1>7, <3>1, <3>2
    <3> QED BY <3>1, <3>3
  <2>8. f.row = run[hi] /\ run[hi] \in T
    BY <2>4, <2>5, <2>6, <2>7
  <2>9. Append(rows, f.row) = SubSeq(run, 1, hi)
    <3>1. Append(SubSeq(run, 1, d), run[hi]) = SubSeq(run, 1, hi)
      BY <2>7, OneRowMore
    <3>2. rows = SubSeq(run, 1, d)
      BY <1>4, <2>2
    <3> QED BY <2>8, <3>1, <3>2
  <2>10. Position(At(run, pp, 1)) = hi
    <3>1. Position(At(run, pp, 1)) = (pp - 1) * P + 1
      BY <1>3 DEF Position, At
    <3> QED BY <2>5, <2>6, <2>7, <3>1
  <2>11. 1 \in 0 .. Len(B[pp])
    BY <2>5, <2>7
  <2>12. Standing(At(run, pp, 1), Append(rows, f.row))
    BY <1>2, <2>9, <2>10, <2>11 DEF Standing, At, RunPages, B
  <2> QED BY <2>4, <2>8, <2>12
<1> QED BY <1>8, <1>9, <1>10

-----------------------------------------------------------------------------
(* The invariant. *)

THEOREM SortStart == ASSUME SortConstants PROVE SortInit => SInv
BY DEF SortInit, SInv

\* What an opening leaves can be walked.
LEMMA OpenSortStep ==
    ASSUME SortConstants, SInv, OpenSort PROVE SInv'
<1> USE DEF SInv
<1>1. /\ openings < 2 /\ stage \in {"new", "open"} /\ returned = <<>>
      /\ openings' = openings + 1 /\ sorted' = sorted /\ returned' = returned
      /\ sorted \in Sorts
  BY DEF OpenSort
<1>2. CASE OpensOnNothing(sort, sorted.rows)
  BY <1>1, <1>2 DEF OpenSort
<1>3. CASE ~OpensOnNothing(sort, sorted.rows)
  <2>1. sort' \in Opened(sort, sorted.rows, sorted.at, sorted.dir) /\ stage' = "open"
    BY <1>3 DEF OpenSort
  <2>2. openings \in Nat /\ HasRuns(sorted, sort, openings) /\ sorted.rows # <<>>
    <3>1. CASE stage = "new"
      BY <1>3, <3>1 DEF HasRuns, NewSort, OpensOnNothing
    <3>2. CASE stage = "open"
      <4>1. Opens(sorted, sort, openings)
        BY <3>2
      <4>2. PICK run : sort = [runs |-> <<run>>, page |-> sort.page, slot |-> sort.slot]
                       /\ RunOf(sorted, openings, run)
        BY <4>1 DEF Opens
      <4>3. sort.runs = <<run>>
        BY <4>2
      <4> QED BY <4>1, <4>2, <4>3 DEF HasRuns, Opens
    <3> QED BY <1>1, <3>1, <3>2
  <2>3. PICK run : sort' = [runs |-> <<run>>, page |-> 1, slot |-> 0]
                   /\ RunOf(sorted, openings + 1, run)
    <3>1. PICK ss : ss = sort'
      OBVIOUS
    <3>2. \E run : ss = [runs |-> <<run>>, page |-> 1, slot |-> 0] /\ RunOf(sorted, openings + 1, run)
      <4> HIDE DEF SInv
      <4> QED BY <1>1, <2>1, <2>2, <3>1, OpenedOnceMore
    <3> QED BY <3>1, <3>2
  <2>4. Opens(sorted, sort, openings)'
    <3>1. sorted'.rows # <<>> /\ openings' \in Nat
      BY <1>1, <2>2
    <3>2. sort' = [runs |-> <<run>>, page |-> sort'.page, slot |-> sort'.slot]
      BY <2>3
    <3>3. RunOf(sorted', openings', run)
      BY <1>1, <2>3
    <3> QED BY <3>1, <3>2, <3>3 DEF Opens
  <2>5. run \in Seq(ToSet(sorted.rows)) /\ run # <<>>
    <3> DEFINE T == ToSet(sorted.rows)
    <3>1. run \in Seq(T) /\ Held(T, run) = (openings + 1) * Held(T, sorted.rows)
      BY <2>3 DEF RunOf, Views
    <3>2. sorted.rows \in Seq(T) /\ Len(sorted.rows) \in Nat /\ Len(sorted.rows) # 0
      BY <1>1, <2>2, SortsAre, EmptySeq
    <3> HIDE DEF T
    <3>3. PICK h \in Nat : h = Len(sorted.rows) /\ h # 0
      BY <3>2
    <3>4. Len(run) = (openings + 1) * h
      BY <3>1, <3>2, <3>3, HeldAll
    <3>5. (openings + 1) * h = openings * h + h /\ openings * h \in Nat
      BY <2>2
    <3>6. Len(run) # 0
      BY <3>3, <3>4, <3>5
    <3> QED BY <3>1, <3>6 DEF T
  <2>6. Standing(sort, returned)'
    <3>1. PICK N \in Nat : N = Len(Buffers(run)) /\ N # 0
      BY <2>5, BufferIs
    <3>2. Buffers(run)[1] \in Seq(ToSet(sorted.rows))
      <4>1. 1 \in 1 .. N
        BY <3>1
      <4> QED BY <2>5, <3>1, <4>1, BufferIs
    <3>3. 1 \in 1 .. N /\ 0 \in 0 .. Len(Buffers(run)[1])
      BY <3>1, <3>2, LenProperties
    <3>4. RunPages(sort') = Buffers(run) /\ sort'.page = 1 /\ sort'.slot = 0 /\ sort'.runs[1] = run
      BY <2>3 DEF RunPages
    <3>5. Position(sort') = 0
      <4>1. PICK P \in Nat : P = PerPage
        BY DEF SortConstants
      <4>2. (1 - 1) * P + 0 = 0
        OBVIOUS
      <4> QED BY <3>4, <4>1, <4>2 DEF Position
    <3>6. returned' = SubSeq(run, 1, 0)
      BY <1>1, <2>5
    <3> QED BY <3>1, <3>3, <3>4, <3>5, <3>6 DEF Standing
  <2> QED BY <1>1, <2>1, <2>4, <2>6
<1> QED BY <1>2, <1>3

LEMMA NextSortedStep ==
    ASSUME SortConstants, SInv, NextSorted PROVE SInv'
<1>1. /\ stage = "open" /\ sorted' = sorted /\ openings' = openings /\ sorted \in Sorts
      /\ Opens(sorted, sort, openings) /\ Standing(sort, returned)
  BY DEF NextSorted, SInv
<1> DEFINE T == ToSet(sorted.rows)
<1>2. PICK run, p, j : sort = At(run, p, j) /\ RunOf(sorted, openings, run)
  BY <1>1 DEF Opens, At
<1>3. run \in Seq(T) /\ \A a \in T : a # <<>>
  <2>1. \A a \in T : Len(a) = 2
    BY <1>1, SortsAre
  <2>2. Len(<<>>) = 0
    OBVIOUS
  <2> QED BY <1>2, <2>1, <2>2 DEF RunOf
<1>4. PICK f : f = FetchSorted(sort)
  OBVIOUS
<1>5. \/ f.row = <<>> /\ Position(sort) = Len(run)
      \/ /\ f.row # <<>>
         /\ \E pp, jj : f.sort = At(run, pp, jj) /\ Standing(At(run, pp, jj), Append(returned, f.row))
  <2> HIDE DEF T
  <2> QED BY <1>1, <1>2, <1>3, <1>4, FetchGoesOn
<1>6. CASE f.row = <<>> /\ Position(sort) = Len(run)
  <2>1. stage' = "done" /\ sort' = sort /\ returned' = returned
    BY <1>4, <1>6 DEF NextSorted
  <2>2. sort.runs[1] = run
    BY <1>2 DEF At
  <2>3. Opens(sorted', sort', openings') /\ Standing(sort', returned')
        /\ Position(sort') = Len(sort'.runs[1])
    BY <1>1, <1>6, <2>1, <2>2
  <2> QED BY <1>1, <2>1, <2>3 DEF SInv
<1>7. CASE /\ f.row # <<>>
           /\ \E pp, jj : f.sort = At(run, pp, jj) /\ Standing(At(run, pp, jj), Append(returned, f.row))
  <2>1. stage' = stage /\ sort' = f.sort /\ returned' = Append(returned, f.row)
    BY <1>4, <1>7 DEF NextSorted
  <2>2. PICK pp, jj : f.sort = At(run, pp, jj) /\ Standing(At(run, pp, jj), Append(returned, f.row))
    BY <1>7
  <2>3. sort' = [runs |-> <<run>>, page |-> sort'.page, slot |-> sort'.slot]
    BY <2>1, <2>2 DEF At
  <2>4. Opens(sorted', sort', openings')
    BY <1>1, <1>2, <2>3 DEF Opens
  <2>5. Standing(sort', returned')
    BY <2>1, <2>2
  <2> QED BY <1>1, <2>1, <2>4, <2>5 DEF SInv
<1> QED BY <1>5, <1>6, <1>7

\* What the invariant says of a sort that is done.
LEMMA DoneIsExact ==
    ASSUME SortConstants, SInv PROVE SortedRows
<1> SUFFICES ASSUME stage = "done"
             PROVE  /\ Len(returned) = openings * Len(sorted.rows)
                    /\ \A r \in ToSet(sorted.rows) : Count(r, returned) = openings * Count(r, sorted.rows)
                    /\ Ordered(sorted.rows, sorted.at) => InOrder(returned, sorted.at, sorted.dir)
  BY DEF SortedRows
<1>1. /\ sorted \in Sorts /\ Opens(sorted, sort, openings) /\ Standing(sort, returned)
      /\ Position(sort) = Len(sort.runs[1])
  BY DEF SInv
<1> DEFINE T == ToSet(sorted.rows)
<1>2. PICK run : sort.runs = <<run>> /\ RunOf(sorted, openings, run)
  BY <1>1 DEF Opens
<1>3. /\ run \in Seq(T)
      /\ \A R \in Views(T) : Held(R, run) = openings * Held(R, sorted.rows)
      /\ Ordered(sorted.rows, sorted.at) => InOrder(run, sorted.at, sorted.dir)
  BY <1>2 DEF RunOf
<1>4. sorted.rows \in Seq(T)
  BY <1>1, SortsAre
<1>5. returned = SubSeq(run, 1, Len(run))
  <2>1. sort.runs[1] = run
    BY <1>2
  <2> QED BY <1>1, <2>1 DEF Standing
<1> HIDE DEF T
<1>6. returned = run
  BY <1>3, <1>5, SubSeqFull
<1>7. Len(returned) = openings * Len(sorted.rows)
  <2>1. T \in Views(T)
    BY DEF Views
  <2> QED BY <1>3, <1>4, <1>6, <2>1, HeldAll
<1>8. \A r \in T : Count(r, returned) = openings * Count(r, sorted.rows)
  <2>1. \A r \in T : {r} \in Views(T)
    BY DEF Views
  <2> QED BY <1>3, <1>6, <2>1, HeldOne
<1> QED BY <1>3, <1>6, <1>7, <1>8 DEF T

\* The merged runs are the rows of the child, once for each opening, through
\* every opening and every fetch.
THEOREM SortInvariantHolds == ASSUME SortConstants PROVE SortSpec => []SInv
<1>1. SortInit => SInv
  BY SortStart
<1>2. SInv /\ [SortNext]_sortVars => SInv'
  <2> SUFFICES ASSUME SInv, [SortNext]_sortVars PROVE SInv'
    OBVIOUS
  <2>1. CASE OpenSort
    BY <2>1, OpenSortStep
  <2>2. CASE NextSorted
    BY <2>2, NextSortedStep
  <2>3. CASE UNCHANGED sortVars
    BY <2>3 DEF SInv, sortVars, Opens, Standing, Position, RunPages
  <2> QED BY <2>1, <2>2, <2>3 DEF SortNext
<1> QED BY <1>1, <1>2, PTL DEF SortSpec

\* A sort that is done has returned every row of its child once for each opening,
\* in order where there is one (ExternalMergeSortExecuter.c++:76).
THEOREM SortStaysExact == ASSUME SortConstants PROVE SortSpec => []SortedRows
<1>1. SInv => SortedRows
  BY DoneIsExact
<1> QED BY <1>1, SortInvariantHolds, PTL
=============================================================================
