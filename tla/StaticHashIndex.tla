-------------------------- MODULE StaticHashIndex --------------------------
(***************************************************************************)
(* StaticHashIndex: a hash index over one integer column of a table, with  *)
(* its chains, the pages its entries are appended to, and the table it is  *)
(* rebuilt from when the database is opened again.                         *)
(*                                                                         *)
(* A statement changes the table only; callers index a tuple by a call of  *)
(* their own.  A bucket is the sequence of the entries of its chain, which *)
(* is empty where the code has nullopt.                                    *)
(***************************************************************************)
EXTENDS Integers, FiniteSets, Sequences, SequencesExt

CONSTANTS
    Keys,          \* values of the indexed column
    TableSize,     \* index_size of createIndex
    PerPage,       \* entries that fit an index page
    MaxTuples,     \* bound: tuples ever inserted into the table
    MaxChanges,    \* bound: deletions of tuples, calls of Delete and updateIndex
    MaxRestarts    \* bound: restarts

HashConstants ==
    /\ Keys \subseteq Nat
    /\ TableSize \in Nat \ {0} /\ PerPage \in Nat \ {0}
    /\ MaxTuples \in Nat /\ MaxChanges \in Nat /\ MaxRestarts \in Nat

VARIABLES
    heap,    \* the tuples of the table in slot order: [key, live]
    index,   \* the hashIndex with its pages
    dead,    \* a null pointer was followed, or an exception ended the process
    wild,    \* an empty optional was read
    changes, restarts

vars == <<heap, index, dead, wild, changes, restarts>>

(* index has the fields                                                    *)
(*   capacity, buckets      buckets: 0 .. capacity - 1 -> chains           *)
(*   number_of_entries                                                     *)
(*   first, last, pages     pages: page id -> [entries, next]              *)
Entry(k, r) == [key |-> k, rid |-> r]

EmptyPage == [entries |-> <<>>, next |-> -1]
EmptyBuckets(n) == [b \in 0 .. n - 1 |-> <<>>]

\* createIndex: the constructor takes two pages and links them.
NewIndex == [capacity |-> TableSize, buckets |-> EmptyBuckets(TableSize),
             number_of_entries |-> 0, first |-> 1, last |-> 2,
             pages |-> [p \in {1, 2} |-> IF p = 1 THEN [EmptyPage EXCEPT !.next = 2]
                                         ELSE EmptyPage]]

Init == /\ heap = <<>>
        /\ index = NewIndex
        /\ dead = FALSE /\ wild = FALSE
        /\ changes = 0 /\ restarts = 0

-----------------------------------------------------------------------------
(* Class hashIndex. *)

hashFunction(x, k) == k % x.capacity

\* (Slip: an entry is counted only when it opens a bucket.)
InsertUncounted(x, e) ==
    LET b == hashFunction(x, e.key) IN
    [x EXCEPT !.buckets[b] = Append(@, e),
              !.number_of_entries = IF x.buckets[b] = <<>> THEN @ + 1 ELSE @]

insertIndex(x, e) ==
    [x EXCEPT !.buckets[hashFunction(x, e.key)] = Append(@, e),
              !.number_of_entries = @ + 1]

\* The position of the first entry of a key in its chain; 0 if there is none.
Find(x, k) ==
    LET chain == x.buckets[hashFunction(x, k)]
        at == {i \in 1 .. Len(chain) : chain[i].key = k}
    IN  IF at = {} THEN 0 ELSE CHOOSE i \in at : \A j \in at : i <= j

\* (Slip: the chain is followed while the keys are equal.)
getRun(x, k) ==
    LET chain == x.buckets[hashFunction(x, k)]
        run == {n \in 0 .. Len(chain) : \A i \in 1 .. n : chain[i].key = k}
    IN  [i \in 1 .. CHOOSE n \in run : \A m \in run : m <= n |-> chain[i].rid]

getValue(x, k) ==
    LET chain == x.buckets[hashFunction(x, k)]
        res[n \in 0 .. Len(chain)] ==
            IF n = 0 THEN <<>>
            ELSE IF chain[n].key = k THEN Append(res[n - 1], chain[n].rid)
            ELSE res[n - 1]
    IN  res[Len(chain)]

\* deleteIndex unlinks the first entry of the key, which is at position at, and
\* counts only where that is the head of the chain.
Unlinked(x, k) ==
    LET at == Find(x, k) IN
    [x EXCEPT !.buckets[hashFunction(x, k)] = RemoveAt(@, at),
              !.number_of_entries = IF at = 1 THEN @ - 1 ELSE @]

\* deleteIndex then reads from the node behind the successor of the removed
\* head, or behind the removed inner node: neither need exist.
DeleteDies(x, k) ==
    LET chain == x.buckets[hashFunction(x, k)]
        at == Find(x, k)
    IN  \/ at = 1 /\ Len(chain) = 2
        \/ at > 1 /\ at = Len(chain)

updateIndex(x, k, r) ==
    IF Find(x, k) = 0 THEN x
    ELSE [x EXCEPT !.buckets[hashFunction(x, k)][Find(x, k)] = Entry(k, r)]

-----------------------------------------------------------------------------
(* Class StaticHashIndexWrapper. *)

\* The entries of all buckets, in the order of the buckets.
Chained(x) ==
    LET upto[n \in 0 .. x.capacity] ==
            IF n = 0 THEN <<>> ELSE upto[n - 1] \o x.buckets[n - 1]
    IN  upto[x.capacity]

\* The entries es are inserted one after the other.
Inserted(x, es) ==
    LET upto[n \in 0 .. Len(es)] ==
            IF n = 0 THEN x ELSE insertIndex(upto[n - 1], es[n])
    IN  upto[Len(es)]

Grown(x) == [x EXCEPT !.capacity = 10 * @,
                      !.buckets = EmptyBuckets(10 * x.capacity),
                      !.number_of_entries = 0]

\* (Slip: of every bucket only the head is copied.)
RehashedHeads(x) ==
    LET heads == {x.buckets[b][1] : b \in {c \in DOMAIN x.buckets : x.buckets[c] # <<>>}}
    IN  Inserted(Grown(x), SetToSeq(heads))

\* A new index over the same pages takes the entries of the old one.
Rehashed(x) == Inserted(Grown(x), Chained(x))

Crowded(x) == 4 * x.number_of_entries >= 3 * x.capacity

\* (Slip: the new page is not made the last one.)
LinkedOnly(x, e) ==
    LET new == Cardinality(DOMAIN x.pages) + 1 IN
    [x EXCEPT !.pages = [p \in DOMAIN @ \cup {new} |->
                IF p = new THEN [EmptyPage EXCEPT !.entries = <<e>>]
                ELSE IF p = x.last THEN [@[p] EXCEPT !.next = new]
                ELSE @[p]]]

\* The last page is full: a new one is linked behind it and takes the entry.
OnNewPage(x, e) ==
    LET new == Cardinality(DOMAIN x.pages) + 1 IN
    [x EXCEPT !.last = new,
              !.pages = [p \in DOMAIN @ \cup {new} |->
                IF p = new THEN [EmptyPage EXCEPT !.entries = <<e>>]
                ELSE IF p = x.last THEN [@[p] EXCEPT !.next = new]
                ELSE @[p]]]

OnPage(x, e) ==
    IF Len(x.pages[x.last].entries) < PerPage
    THEN [x EXCEPT !.pages[x.last].entries = Append(@, e)]
    ELSE OnNewPage(x, e)

InsertEntry(x, e) == insertIndex(OnPage(IF Crowded(x) THEN Rehashed(x) ELSE x, e), e)

-----------------------------------------------------------------------------
(* Saving and loading, with the table that owns the index.                 *)

\* saveIndexMeta, called by the wrapper's destructor.
Metadata(x) == [last |-> x.last, number_of_entries |-> x.number_of_entries,
                capacity |-> x.capacity]

LiveRids(h) == {r \in 1 .. Len(h) : h[r].live}

\* (Slip: deleted tuples are taken as well.)
LoadedAll(x, h) ==
    Inserted(x, [r \in 1 .. Len(h) |-> Entry(h[r].key, r)])

\* load_hash_table walks the slots of the table, not the pages of the index, and
\* skips the tuples that are deleted.
load_hash_table(x, h) ==
    LET upto[n \in 0 .. Len(h)] ==
            IF n = 0 THEN x
            ELSE IF h[n].live THEN insertIndex(upto[n - 1], Entry(h[n].key, n))
            ELSE upto[n - 1]
    IN  upto[Len(h)]

\* TableHeap::loadMetaData: the index is made anew, loadIndexMeta restores its
\* fields, and the entries are added to the count that was loaded.
Reloaded(x, h) ==
    LET meta == Metadata(x) IN
    load_hash_table([NewIndex EXCEPT
        !.last = meta.last, !.number_of_entries = meta.number_of_entries,
        !.capacity = meta.capacity, !.buckets = EmptyBuckets(meta.capacity),
        !.pages = x.pages], h)

-----------------------------------------------------------------------------
(* The calls. *)

Indexed(x) == {e.rid : e \in ToSet(Chained(x))}

\* The table gets a tuple.
InsertTuple(k) ==
    /\ ~dead /\ Len(heap) < MaxTuples
    /\ heap' = Append(heap, [key |-> k, live |-> TRUE])
    /\ UNCHANGED <<index, dead, wild, changes, restarts>>

\* The table loses a tuple; the index is not told.
DeleteTuple(r) ==
    /\ ~dead /\ changes < MaxChanges
    /\ changes' = changes + 1
    /\ r \in LiveRids(heap)
    /\ heap' = [heap EXCEPT ![r].live = FALSE]
    /\ UNCHANGED <<index, dead, wild, restarts>>

\* A caller that walks the table indexes the next tuple that is not indexed.
Insert(r) ==
    /\ ~dead
    /\ r \in LiveRids(heap) \ Indexed(index)
    /\ \A q \in LiveRids(heap) \ Indexed(index) : r <= q
    /\ index' = InsertEntry(index, Entry(heap[r].key, r))
    /\ UNCHANGED <<heap, dead, wild, changes, restarts>>

\* Delete of a key whose bucket holds something.
Delete(k) ==
    /\ ~dead /\ changes < MaxChanges
    /\ changes' = changes + 1
    /\ index.buckets[hashFunction(index, k)] # <<>>
    /\ index' = IF Find(index, k) = 0 THEN index ELSE Unlinked(index, k)
    /\ dead' = DeleteDies(index, k)
    /\ UNCHANGED <<heap, wild, restarts>>

\* Delete of a key whose bucket is empty reads the key of an entry that is not
\* there.  If that is not equal, value() throws; if the memory still has the
\* entry that was there before, the code empties the bucket and counts down.
DeleteAbsent(k) ==
    /\ ~dead /\ changes < MaxChanges
    /\ changes' = changes + 1
    /\ index.buckets[hashFunction(index, k)] = <<>>
    /\ wild' = TRUE
    /\ \/ dead' = TRUE /\ UNCHANGED index
       \/ dead' = FALSE /\ index' = [index EXCEPT !.number_of_entries = @ - 1]
    /\ UNCHANGED <<heap, restarts>>

\* updateIndex of a key, to a tuple that holds it and is not indexed.
Update(r) ==
    /\ ~dead /\ changes < MaxChanges
    /\ changes' = changes + 1
    /\ r \in LiveRids(heap) \ Indexed(index)
    /\ index' = updateIndex(index, heap[r].key, r)
    /\ UNCHANGED <<heap, dead, wild, restarts>>

\* The destructors of a clean shutdown, and opening again.
Reopen ==
    /\ ~dead /\ restarts < MaxRestarts
    /\ index' = Reloaded(index, heap)
    /\ restarts' = restarts + 1
    /\ UNCHANGED <<heap, dead, wild, changes>>

Next ==
    \/ \E k \in Keys : InsertTuple(k) \/ Delete(k) \/ DeleteAbsent(k)
    \/ \E r \in 1 .. Len(heap) : DeleteTuple(r) \/ Insert(r) \/ Update(r)
    \/ Reopen

Spec == Init /\ [][Next]_vars

-----------------------------------------------------------------------------
Rids == 1 .. Len(heap)
EntriesOf(x) == ToSet(Chained(x))

\* Whatever was inserted, removed, rehashed and reloaded, a lookup returns every
\* entry of its key, each once, and none of another key: an entry is in the
\* bucket that the capacity of the moment gives it (static_hash_index.c++:166,
\* StaticHashIndexWrapper.c++:64).
LookupExact ==
    ~dead => \A k \in Keys :
        LET rids == getValue(index, k) IN
          /\ ToSet(rids) = {e.rid : e \in {f \in EntriesOf(index) : f.key = k}}
          /\ Len(rids) = Cardinality(ToSet(rids))

\* An insertion adds its entry, the rehash it may begin with loses none; a
\* Delete takes one entry of its key, if there is one, and none of another key,
\* wherever in the chain it is; an update replaces at most one entry by one of
\* the same key (static_hash_index.c++:63, 89, 102, StaticHashIndexWrapper.c++:45).
HashKeepsEntries ==
    [][ ~dead' =>
        LET old == EntriesOf(index)
            new == EntriesOf(index')
        IN  /\ \A r \in Rids : Insert(r) => new = old \cup {Entry(heap[r].key, r)}
            /\ \A k \in Keys : Delete(k) =>
                 \/ new = old /\ \A e \in old : e.key # k
                 \/ \E e \in old : e.key = k /\ new = old \ {e}
            /\ \A r \in Rids : Update(r) =>
                 \/ new = old
                 \/ \E e \in old : /\ e.key = heap[r].key
                                   /\ new = (old \ {e}) \cup {Entry(heap[r].key, r)}]_vars

\* After a restart the index holds the live tuples of the table, those that
\* were never indexed and those whose entry Delete had removed included, and no
\* tuple that was deleted since (TableHeap.c++:466, static_hash_index.c++:309).
ReloadsTable ==
    [][Reopen => EntriesOf(index') = {Entry(heap[r].key, r) : r \in LiveRids(heap)}]_vars

\* The count the load test reads is never below the number of entries, restarts
\* and deletions included, unless an empty bucket was read: a table is not more
\* crowded than the test believes (StaticHashIndexWrapper.c++:45).
CountCovers == wild \/ Len(Chained(index)) <= index.number_of_entries

\* The pages, from the first on, are one chain to the last one that insertions
\* go to, through restarts (StaticHashIndexWrapper.c++:82,
\* static_hash_index.c++:207).
PagesChained ==
    LET n == Cardinality(DOMAIN index.pages) IN
      /\ index.last = n
      /\ \A p \in DOMAIN index.pages :
           index.pages[p].next = (IF p = n THEN -1 ELSE p + 1)
=============================================================================
