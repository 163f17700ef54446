# DB_Storage_Engine: verification project

TLA+ models of the storage engine in `src/`, the TLC configurations that check
them on small instances, and TLAPS proofs for the storage layers, from the disk manager
to the scans of a table, for the hash index, the catalog, the joins and the external
sort.
Paths below are relative to `src/src/` unless they start with `readme.md`.

    cd tla
    tlc -workers 2 -config MC_pool.cfg BufferPool      # any run of the table below
    tlapm BufferPoolProofs.tla                         # or another *Proofs.tla

## 1. Inventory

The engine is a single-threaded C++ library: SQL is parsed, bound, planned and
run by Volcano operators over heap tables, which live on pages of one file
behind a buffer pool. Nothing locks, nothing is logged ahead, and metadata is
written by destructors. What is hard is therefore not threads: it is callers
that keep pointers into the pool while they call other code that uses the pool,
statements that change the table they scan, structures that are saved only at a
clean shutdown, and long sequences of calls.

| component | state | operations | depends on | what makes it correct |
|---|---|---|---|---|
| `Storage/Disk` DiskManager | `pages_table` (id to offset), `deleted_slots`, `header.capacity`, the file | `allocatePage`, `writePage`, `readPage`, `deletePage`, `resizeFile`, save and load of the metadata page | the file system | two pages never share a slot; a slot is inside the file; a page reads back what was written; the directory survives a restart |
| `Buffer` BufferPoolManager | `frames`, `page_table`, `pages_ids`, `is_dirty`, `free_frames_ids` | `fetchPage`, `newPage`, `deletePage`, `markAsDirty`, `unpinPage`, destructor | DiskManager, LRU | the four tables agree; a clean frame equals the disk; fetching returns what was last written |
| `Buffer` LRU | linked list with sentinels, `frames_map` | `put_frame`, `get_frame`, `evict_frame`, `remove_frame` | | the list stays linked; the victim is the least recently used |
| `Storage/Page` Page, Tuple, Field | header, slot array, tuples | `insertTuple`, `insertData`, `getTuple`, `deleteTuple`, `updateTuple` | | tuples do not overlap |
| `Storage/Table` TableHeap, RID, TableIterator | page chain, `last_page_id`, `starting_rid`, `stopping_rid`, `num_of_tuples`; column and index descriptions | `insertTuple`, `updateTuple`, `deleteTuple`, save and load of the metadata | BufferPool, Page, indexes | the chain reaches every page; scans return every live tuple; changes survive |
| `Storage/Indexing` B+ tree | nodes with keys, children, leaf chain; one page per node | insert, remove, find, range query, save, load | BufferPool | keys are found and scanned exactly once; reload equals what was saved |
| `Storage/Indexing` static hash index | buckets with chains; entries on index pages | insert (rehash at 75%), search, delete, reload | BufferPool, TableHeap | a lookup finds what was inserted and not deleted, before and after a rehash or restart |
| `Catalog` | tables, names, constraints | create, get, drop table; save and load | TableHeap, DiskManager | no half-created table; tables share no page; a foreign key leads to its table |
| `Q_Execution` scans | cursor (`curr_rid_pointer`) | `open`, `getNext` | TableHeap | see TableHeap |
| `Q_Execution` external merge sort | run pages, queue of runs, temporary page | `open`, `getNext` | BufferPool | the output is a sorted permutation of the input |
| `Q_Execution` joins and aggregates | cursors, hash tables, batches | `open`, `getNext` | scans, indexes | the output is the relational definition's |
| `Executer` ExecutorFactory | the loops of UPDATE and DELETE; the names of heaps | one case per plan node | all of the above | a statement changes each matching tuple once and ends |
| `Binder`, `QueryPlan` | none that outlives a statement | translation of trees | Catalog | names lead to the columns they mean; a statement that fails changes nothing |
| parser | external | | | |

Interaction is by direct calls. The one piece of state that all components
share is the pool: `fetchPage` returns a raw pointer to a frame, `markAsDirty`
announces a change to it, and any other fetch may replace the page in the frame.

The hazards are listed in `PROJECT.json`, each at its line, with the properties
that would catch it or a note why none does.

## 2. Modules

| module | models | kind |
|---|---|---|
| `DiskFile` | the file and the directory as a record, the methods of DiskManager as pure operators | operators |
| `DiskManager` | DiskManager alone under every sequence of calls, with clean restarts and crashes | specification |
| `RecencyList` | what the operations of LRU do to the order of the keys | operators |
| `LRU` | the replacement policy as its callers see it | abstract specification |
| `LRUList` | class LRU, pointer by pointer; implements `LRU` | specification |
| `PageStore` | what pool and disk promise together | abstract specification |
| `BufferPool` | BufferPoolManager composed with `DiskFile` and `RecencyList`; implements `PageStore` | specification |
| `PoolClients` | callers of `BufferPool` that keep the pointers they fetched and write through them | specification |
| `MCPoolClients` | an instance of `PoolClients` whose callers are interchangeable | instance |
| `MCPoolParts` | `LRUList` and `DiskManager`, one per behaviour | composition, instance |
| `SlottedPage` | class Page as a record and pure operators | operators |
| `Fields` | fields, their comparison, and the leaves of predicates | operators |
| `Rows` | predicates over rows, Select and Projection | operators |
| `TableHeap` | TableHeap with the statements INSERT, UPDATE and DELETE and their scan | specification |
| `MCTableHeap` | the lengths of tuples for the runs of `TableHeap` | instance |
| `BPlusTree` | the B+ tree, in memory and on its pages | specification |
| `TreeStarts`, `MCBPlusTree` | the trees the runs of `BPlusTree` begin with, and its instance | instance |
| `StaticHashIndex` | the hash index and its wrapper, in memory and on its pages, beside the table it indexes | specification |
| `MCIndexes` | both index types, one per behaviour | composition, instance |
| `ExternalSort` | ExternalMergeSort: runs, merging, opening again | operators |
| `Aggregates` | groups and aggregate functions | operators |
| `SortedQueries` | the external sort, as its callers drive it | specification |
| `GroupedQueries` | the two aggregations, over a sort and hashed, as their callers drive them | specification |
| `Joins` | nested loop, index, hash and merge join | specification |
| `MCQueries` | `Joins`, `SortedQueries` and `GroupedQueries`, one query per behaviour | composition, instance |
| `Catalog`, `MCCatalog` | the catalog with the binding of CREATE TABLE, its instance | specification |
| `Sql`, `MCSql` | sessions of statements: binder, planner, building of executors; an instance | specification |
| `DiskManagerProofs`, `RecencyListProofs`, `LRUListProofs`, `BufferPoolProofs`, `TableHeapProofs`, `HashIndexProofs`, `CatalogProofs`, `QueryProofs` | theorems about the modules they are named for; those of `PoolClients` are in `BufferPoolProofs`, those of `Joins` and `SortedQueries` in `QueryProofs` | proofs |

The layers meet where one uses only a promise of the next: `BufferPool` is built
on the order of keys that `LRUList` is shown to implement; `TableHeap`,
`BPlusTree` and `StaticHashIndex` take pages to be what `PageStore` promises;
`Joins`, `SortedQueries` and `GroupedQueries` take scans to return the rows of a
table, which is `ScanReturnsLive`; `Sql` has the operators as functions of tables.

How they correspond to the code:

* **DiskFile, DiskManager.** Offsets are counted in slots of PAGE_SIZE and a
  page's bytes are one value. `saved` is the metadata page; `LoadMetaData` and
  `SavedMetadata` are the two functions of that name. Two of their steps are
  undefined behaviour and are choices in the model. The deleted slots that
  `loadMetaData` "reads" are uninitialised (its `memcpy` has its arguments
  swapped), so that they may be any slot. Metadata longer than its page overruns
  the buffer (`Overruns`): either the process dies with the old metadata in the
  file, or the entries that fit are written under a header that counts all of
  them. Who loads that reads the missing entries behind its own buffer, so that any
  id may get any slot (`LoadedTables`).
  DiskManager carries `stored`, what each page was last given, and `orderly`,
  which says that the calls so far were those BufferPoolManager makes (new ids
  come from `allocatePage`; deletions only from the end). Once metadata that
  overran its page, or deleted slots, were loaded (`Misread`), nothing can be
  promised and the behaviour stops (`garbled`).
* **LRUList.** A node is named by its key, `next` and `prev` are functions, and
  each operation makes the assignments of the code in their order. The values
  that the nodes also carry are never used by the pool and are left out. That the
  two sentinels are two nodes is an assumption (`LRUConstants`): the constructor
  allocates them one after the other.
* **BufferPool.** One action per call. `UpdateHit` and `UpdateMiss` are a fetch,
  a write through the pointer and `markAsDirty` in a row, the way the storage
  code changes a page. The destructor is a loop (`FlushFrame`) so that `Crash`
  may strike in the middle of it. `pin_count` is never incremented in the code,
  nothing reads it but `unpinPage` and a warning, and it is left out. Ids that
  the directory does not hold are not fetched: no caller has any.
* **PoolClients.** A client keeps page and frame of a fetch (`Hold`) while others
  fetch, change, allocate and delete pages, and may at any time write through the
  kept frame, whatever is in it by then, with or without calling `markAsDirty` with
  the page's id; for an unmapped id that creates a mapping to frame 0 (`operator[]`).
  Two pages then claim one frame, and the behaviour is followed no further
  (`Mismarked`). `others` are the pages touched since the fetch, and the client is
  within its window while they are fewer than the frames. No code checks that. The
  callers rely on it, with 100 frames and few pages per step, and a sort over a
  selection that few rows of a long table pass is outside of it. A client whose
  page is deleted has nothing to write to and is done. `written` is what was last
  written to each page, for the pages no write went astray on.
* **SlottedPage.** A tuple is a value; the layout depends on its length alone,
  and on the byte 0 that serialize writes behind a string and nobody counts: it
  falls into the padding or on what follows. The engine makes missing values of type
  NULL; one of type INT, FLOAT or BOOL, which only the C++ interface can make, has the
  counted size 0 and writes 4, 8 or 1 bytes, and is left out. The deletion flags in the slot and
  in the tuple's bytes are two fields. Sizes are `uint16_t` in the code; `PageConstants`
  bounds the length of a tuple so that padding does not wrap
  (page.c++:25).
* **TableHeap.** `heap` has a copy of each page in memory and in the file, and
  the dirty set: the pool as its callers see it, with evictions at any moment.
  An UPDATE or DELETE statement is a state (`stmt`) whose cursor advances one
  turn of the loop in `SeqScan::getNext` per action; a turn that finds a matching
  tuple also performs the body of the factory's loop, before the next turn, as in
  the code. UPDATE gives each matched tuple the same value. Columns, indexes
  and `table_rids` are left out; DELETE without a WHERE clause, which
  dereferences a null pointer, is in `Sql`.
* **BPlusTree.** A node is named by its page. The operations are recursive
  operators on a record `tree` with the nodes in memory and the pages, and one
  action of the specification is one call. Splitting, borrowing and merging are
  three uses of joining two neighbours and cutting a node in two. `Reopen` is the
  destructor of the wrapper followed by `loadBPlusTree`. Queries are operators,
  and properties compare them with the leaves read from left to right; past the
  first leaf they walk the pages, as the code does. `next_page_id` of the
  rightmost leaf is uninitialised memory (`Unset`): a scan that comes to it may end
  there or load whatever page it names, and then gather more, never end or die. So a
  scan has a set of outcomes: the entries found on the leaves, and whether it `strays`
  behind them. Where the code takes the last key of a loaded
  leaf, which has none, it dies. The pages survive (the run `pool` is about that).
* **StaticHashIndex.** The buckets in memory, the chain of index pages, and a table
  beside them whose tuples come and go without the index being told. `Insert` is
  the wrapper's: the load is checked and the table rehashed, the entry goes to
  the last page or to a new one, and into its bucket. `Reopen` restores the fields
  and fills the buckets from the pages of the table, as `load_hash_table` does: the
  entries on the index pages are never read. `deleteIndex` follows pointers that can
  be null, which ends the process (`dead`), and reads an entry that is not there
  (`wild`). Keys are integers and hash to their remainder.
* **Fields, Rows.** A field is a type and the rank of its value. Evaluation of a
  predicate has four outcomes: yes, no, a failed assertion, or a read behind the
  row.
* **ExternalSort, SortedQueries, GroupedQueries.** A page holds `PerPage` rows. The
  key is found by a name that the heap may not know (`SeqScan` prefixes it): then
  rows are compared by what lies behind them, and the order is a choice. Constructor
  and caller both open a sort, and each opening adds its runs to the earlier ones. A
  merge is given by how many of its first k rows are from the left run (`FromLeft`),
  which says of each row where it comes from, and the loop over the queue of runs by
  the queue after each of its turns (`Merged`). Aggregation over a sort reads the
  sort's rows group by group.
* **Joins.** One action is one call of `open` or of `getNext`; `x` has the members
  of the operator, `merge` those of a merge join. The join is opened up to three
  times, also after its end. The loops of `getNext` run on until there is a row to
  return: they are modelled by the rows at which they stop (`Stops`, and the sets
  `next`), the first of which is the one reached. The order of the entries in a
  bucket of the index, and of the rows in a bucket of the hash table, is left open
  (`SetToSeq`). The merge join goes on at positions that are static variables, and
  is followed through its first opening. The sorts below it have no key (above):
  they come out in any order, with each row twice (`Twice`), and the join pairs an
  outer row with a run of inner rows and looks only ahead (`Paired`, `PassedOver`).
  Its empty `t2` is the position behind the last inner row.
* **Catalog.** A page is its id, and a table's pages are the chain of its heap. The
  operations return the new catalog, the number of pages and the outcome. `meant`
  is the one member the code does not have: the first page of the table a foreign
  key was declared for, by which the property tells tables apart. `saved` is what stands on
  page 1, which `load_catalog` reads whatever was saved and wherever: the header of an
  empty page (`Unsaved`) where nothing was. `save_catalog`
  writes a field that `load_catalog` skips, so that it ends as `misread`.
  `Restart` is what `main` does: a new catalog on the old file.
* **Sql.** A statement is a record as the parser returns it. Binding and building
  follow the code to the point where they throw, use a null pointer, fail an
  assertion or read past an array. An unknown function is bound to a null pointer, as
  a missing expression is, and travels as `None` to whoever uses it. A join condition
  must be of type bool for the binder, which a column of type BOOL is (`BoolColumns`),
  and a comparison for the executor. Whatever the operators do is taken from their
  modules. A table has, besides its rows, the name its heap goes by, which an
  alias changes for good.

Operators marked "Slip" are small plausible mistakes (a missing assignment, an
off-by-one). No specification uses them. Each property is checked to fail when
the definition that follows the slip is replaced by it, so that the property is
known to depend on the code it is about; `PROJECT.json` lists the pairs.

## 3. Runs

| run | shows | bounds |
|---|---|---|
| `parts` | DiskManager: slots stay inside the file (`SlotsInFile`); under orderly use ids are slots (`IdsAreSlots`) and every page reads back (`ReadsBack`). LRU: `WellLinked`, `EvictsLeastRecent`, and the list implements `LRU` | three pages over an initial capacity of two, so that the file is resized; one directory entry more than fits the metadata page. Four keys, capacity three: a node has zero, one or two sentinels as neighbours, and a put on a full list drops one |
| `pool` | `PoolConsistent`, `DirectoryOrderly`, `CleanMatchesDisk`; the pool implements `PageStore` | two frames, three pages, two contents: most fetches evict, and both dirty and clean victims occur; the file grows once |
| `clients` | inside its window a kept pointer is good (`WindowIsSafe`); a write astray costs two pages and no third one (`AstrayHurtsTwo`) | two clients, two frames, three pages: a pointer survives one other page, not two |
| `clients_astray` (violation) | a write through a kept pointer changes another page | one client, two frames, three pages |
| `heap` | `PagesWellFormed`, `ChainComplete`, `StructureOnDisk`, `ScanReturnsLive`, `UpdateConserves`, `StatementEnds` | four insertions (moves included) of tuples of three lengths, one that fits twice on a page, one once, one never; two statements; one eviction; any number of restarts |
| `heap_changes` (violation) | deletions and in-place updates are lost with the frame | as `heap` |
| `indexes` | B+ tree: `Ordered`, `Balanced`, `PagesMatch`, `StepsKeepEntries`, and until a removal `RangeExact` and `FindsKeys`. Hash index: `LookupExact`, `CountCovers`, `PagesChained`, `HashKeepsEntries`, `ReloadsTable` | B+ trees of degree 2, two insertions and two removals from an empty tree, a full root, a tree that grows to height three, and one with a key on both sides of separators; four tuples over two buckets, which a rehash makes twenty, two deletions and one restart |
| `btree_remove` (violation) | removing a separator removes the entry before it | as `indexes`, one removal |
| `queries` | `JoinSound`, `JoinComplete`, `SortedRows`, `MergeSound`, `GroupsAccount` | joins of all tables of up to two outer and three inner rows over two keys and a missing one, four join types, three openings; sorts of up to three rows, two to a page, so that runs are cut and merged twice; merge joins of two by two rows in any order |
| `catalog` | `PagesApart`, `ReferencesResolve`, `CreateAllOrNothing` | two names, all statements made of eight lists of columns and four of constraints, right and wrong; nine pages: three tables or attempts, a page more, and a restart |
| `sql` | `SelectExact`, `WritesExact` | two tables of two columns, 40 statements, up to three rows; half of the statements have a mistake |
| `sql_join` (violation) | a join condition finds no column | as `sql` |

The specifications are symmetric in pages and frames except for their order, so
that a third page over two frames, or a fourth insertion over pages of two
tuples, already shows each case of the code: hit, miss with a free frame, miss
with a clean and with a dirty victim; room, no room, no room on an empty page.
A join compares two rows at a time and remembers one of each; with three inner
rows there is one before, at and behind every position it may stop at.

CHECK_DEADLOCK is off where the bounds on insertions, pages, openings or
statements let the system stop, in `parts`, where a disk stops once its metadata was misread, in `PoolClients`, which stops at a mismarked page,
and where a call may end the process (the indexes, `Catalog`, `Sql`).

### Properties worth a comment

* `ImplementsPageStore` is the contract of the storage layer: a fetch returns
  what was last written, whatever was evicted; a clean restart changes nothing;
  a crash keeps the pages that the last clean shutdown knew, each with some
  content it had since. The history variable `versions` records those contents.
* `AstrayHurtsTwo` says what the missing pins cost. A pointer kept too long writes
  into whatever page has its frame by then; that page and the one that was meant
  lose, and every other page still reads back what was last written to it. It is
  claimed up to the first `markAsDirty` of a page that is not pooled. That such
  writes happen at all is the run `clients_astray`.
* `RangeExact` and `FindsKeys` speak of a tree from which nothing was removed, and of
  what a scan gathers from its leaves. A scan that no greater key stops comes to the
  uninitialised link of the last leaf, and what it does there nobody can say.
* `ScanReturnsLive`: the scan of a statement that moves tuples to the end of its
  own table still returns every tuple that was live when it began. It relies on
  the page ids along the chain being ascending (`ChainComplete`), since
  `getNext` compares ids to find the end, and holds although `stopping_rid` may
  carry the slot -1.
* `StatementEnds`: moved tuples land in front of the cursor and are met again.
  The statement ends since a tuple that is met again is already as long as the
  new value and is overwritten in place.
* `JoinSound` with `JoinComplete` says that a join returns the rows of the relational
  join and no others, as often. Two cases are left out because the code does
  otherwise: RIGHT and FULL joins, where an inner row is padded for each outer
  row it does not match, and a hash join opened again after its end, which keeps
  its table and its last inner row.
* `SortedRows` and `GroupsAccount` count the openings: a sort that was opened twice
  returns each row twice, and an aggregation over it counts it twice.
* `MergeSound` has no counterpart for completeness: the sorts below a merge join
  have no key, and rows left in `res_batch` when an input ends are lost.
* `ReferencesResolve` holds although no drop looks at foreign keys: ids are never
  given out twice, so that a dangling key leads nowhere rather than elsewhere.
* `WritesExact` says of an INSERT that lists its columns in another order than the
  table, or lists none, only that it adds a row: the values are stored in the order
  of the table, or not at all.
* `SelectExact` claims the columns of an answer only where the heap still has the
  name by which the statement calls it (`fresh`), the number of rows always.

### Fairness

Only `TableHeap` has a liveness property, and its only fairness is
`WF_vars(ScanTurn)`: the loop of a statement (`ExecuterFactory.c++` 272-314 and
349-355) calls `getNext` until it returns false, on the one thread there is.
INSERTs, evictions and restarts need not happen.

## 4. Proofs

The theorems hold for every value of the constants that meets the named assumptions
of the modules: sizes of the pool, of the file, of pages and tuples, sets of keys
and contents, predicates, statements, and the bounds. Each specification has one
inductive invariant (a lemma per operation, a step per action) and draws the
properties from it.

| module | theorems | inductive invariant |
|---|---|---|
| `DiskManagerProofs` | `SlotsStayInFile`, `IdsStaySlots`, `PagesReadBack` | `DInv` |
| `LRUListProofs` | `StaysWellLinked`, `EvictionIsLeastRecent`, `RecencyImplemented` | `LInv` |
| `BufferPoolProofs` | `TypeCorrect`, `PoolStaysConsistent`, `DirectoryStaysOrderly`, `CleanFramesMatch`, `PageStoreImplemented` | `IInv` |
| `BufferPoolProofs` | of `PoolClients`: `WindowStaysSafe`, `AstrayWritesHurtTwo` | `CInv` |
| `TableHeapProofs` | `PagesStayWellFormed`, `ChainStaysComplete`, `StructureStaysOnDisk`, `ScansReturnLive`, `UpdatesConserve` | `HInv` |
| `HashIndexProofs` | `LookupsStayExact`, `CountStaysCovering`, `PagesStayChained`, `CallsKeepEntries`, `RestartsReload` | `IndexSound` |
| `CatalogProofs` | `PagesStayApart`, `ReferencesStayResolved`, `CreatesOneOrNone` | `IInv` |
| `QueryProofs` | of `Joins`: `JoinInvariantHolds`, `StaysSound`, `StaysComplete`, `MergeStaysSound` | `IInv` |
| `QueryProofs` | of `SortedQueries`: `SortInvariantHolds`, `SortStaysExact` | `SInv` |

So every safety property of the runs `parts`, `pool`, `clients`, `heap` and
`catalog` is proved, refinements included, those of the run `indexes` that are about
the hash index, and those of the run `queries` but `GroupsAccount`. TLC checked
each inductive invariant on the instance of its run before it was proved.

**DiskManager.** A slot that the directory names is inside the file only as long as
the file does not shrink and fresh slots are taken below the capacity. `allocatePage`
compares the number of entries with the capacity, so that what is inductive is a
count: entries and deleted slots together never exceed the capacity (`Sound`). It
holds for every use of the class up to the first load of metadata that overran its
page or held deleted slots. The other two properties are claims about
orderly use, and need that ids are consecutive and that the deleted slots are the
ids behind them, in memory and on the metadata page (`Disciplined`).

**LRUList.** The invariant says that there is a sequence of nodes which the pointers
link both ways between the sentinels, whose set is the set of mapped keys, and whose
order is the order of the times of use. From it the walk of `WellLinked` is
computed, and each operation on the pointers becomes an operation on the sequence,
which is the refinement of `LRU`. The walk is a recursive function; that it exists
and that a walk of n steps agrees with the sequence goes by induction over the
steps, from the least counterexample (`SetInduction`).

**BufferPool.** The four invariants are not inductive one by one. That an evicted
page lands in its slot and disturbs no clean frame needs that ids are slots
(`DirectoryOrderly`), which needs the types of the directory; that the victim
has a page at all needs that the recency order holds the mapped frames
(`PoolConsistent`). `IInv` is their conjunction, with one lemma for the taken frame
and the bookkeeping of a miss, which `fetchPage` and `newPage` share, and lemmas on
the disk operators. The refinement of `PageStore` adds that the history of contents
covers what memory, the file and the saved directory hold (`VersionsKept`): a crash
may show a page with a content it had since the last clean shutdown, and no other.
`PoolConstants` includes MaxPages <= MetaEntries, that is, at most 340 pages: with
more the shutdown is undefined behaviour. `RecencyListProofs` has the facts about
the order of keys: `GetFrame`, `PutFrame`, `DropLast` and `RemoveFrame` keep it free
of repetitions, change its keys by exactly the key meant, and keep the relative
order of the others.

**PoolClients.** `WindowIsSafe` says where a pointer leads while few other pages were
touched; what is inductive is why. The frames used more recently than the one a
client holds are the frames of pages that were touched since, so there are at most
`others` of them; a victim is the least recent, so it is not the held frame until
`others` reaches the number of frames (`WindowKept`). Writes astray change contents
and marks, never the tables, so that this holds beside them. For `AstrayHurtsTwo` a
frame that is not marked must agree with the file, or an eviction would lose what
was written; here this is known only of the pages that no write went astray on
(`CleanFor`). Both hold until a page that is not pooled is marked, and in that state
still (`CInv`), where the behaviour ends. Neither asks the callers for anything.

**TableHeap.** That a scan that ends has returned everything needs to know where the
rest is: what it has not returned is live and at the cursor or behind it
(`ScanSound`). For the start of a scan all tuples must lie between `starting_rid` and
the last page (`Bracketed`), although the slot of `starting_rid` may be -1 and pages
may have stayed empty because a tuple fitted none. For an eviction under a running
scan a page that is not marked must not be more deleted in the file than in memory
(`Agree`): an eviction can bring a deleted tuple back, which is the violation of run
`heap_changes`, but takes none away. The layout is proved for any page size and all
lengths of tuples that `PageConstants` admits, with the room on a page as `insertTuple` computes it.

**StaticHashIndex.** `IndexSound` says that every entry lies in the bucket of its
key under the current capacity, that no rid occurs twice in one chain or in two,
that the pages are one chain, and that the count covers the entries. The bucket must
be the right one or a lookup, which walks one chain, would miss entries; rids must
be apart or a deletion, which unlinks one node, would leave another entry with the
same contents. For a rehash the chains are put one behind the other and inserted
again into an index that is ten times as large: nothing is lost because the sequence
of all chains holds the entries of the buckets, each once (`ConcatenatedHolds`).
`CountCovers` is inductive beside it: a deletion lowers the count at the head of a
chain only, an update not at all, and a reload adds the tuples to the count it
loaded, so that the count can only be too high, unless an empty bucket was read
(`wild`). What the code walks (`Chained`, `Inserted`, `load_hash_table`, `getValue`)
are recursive functions; each has a lemma that the recursive equation has a solution
(`WalkExists`, `WalkIsOnly`), by induction from the least counterexample, and one
that says what it computes. `HashConstants` is the hypothesis of each theorem; TLC
evaluates it on the instance (`MCHashConstants`).

**Catalog.** `IInv` says of a catalog over n pages that every table has an id that was
given out, a chain without repetitions inside the file, and foreign keys to ids that
were given out; that ids and chains tell tables apart; and that keys resolve. None
of the properties is inductive without it: a new table's id must be new for no older
key to name it, and its pages new for no older chain to hold them. What
`load_catalog` makes of page 1 needs one conjunct more: the last page of a saved
catalog is not page 0, so that it is misread and the behaviour stops; of a page 1 on
which none was saved it makes the catalog that was there first, without tables, whose
own pages are still no table's.

**Joins.** `JoinSound` and `JoinComplete` compare what was returned with the
relational join, and say nothing of a join that is half way. What is inductive is
that the rows returned so far are told by the members of the operator (`Passed`):
the row of a pair of an outer and an inner row has been returned if and only if the
members have passed the pair, and each only once. For a nested loop join these are
the pairs of earlier outer rows and, of the current one, the inner rows read; for an
index join the matches that are no longer in `inner_matches`; for a hash join the
pairs of earlier inner rows and, of the current one, its bucket up to `tuple_index`.
A padded row is a pair with 0, and is passed with its outer row. That it is returned
once, and only where there was no match, is what `inner_matches_counter` is for:
while there is a current outer row it is 0 if and only if none of the inner rows
read so far matched, and it is never 0 when there is none, so that a join opened
again does not pad the last row of the time before. The hash table equals the outer
table from the first call on, whence a hash join opened again builds nothing twice;
but it begins with the last inner row, which is why soundness excludes it.
`GoodStep` is what a call of `getNext` owes the invariant: the row returned is that
of a pair not passed before, which is the only one that becomes passed; and a call
that ends has passed all. There is one lemma for each way a call can go
(`StoppedStep`, `ExhaustedStep`, `TakenStep` and their like), since a call may pass
over any number of rows that give nothing. `SetToSeq` is a choice; the proof uses
only that it lists the set without repetition, which is proved from its definition
for finite sets. Of the merge join (`Merging`) it is inductive that the rows
returned and the rows in `res_batch` are made of rows that meet (`Composed`). The
rows of a batch were not all compared with each other: the inner rows of a run met
the current outer row, the outer rows behind it met the first row of the run, and
equality is transitive among rows whose keys can be compared.

**External sort.** `SortedRows` speaks of a sort that has returned everything.
`SInv` says what it stands on before: `open` has left one run, which holds each row
of the child as often as the child does times the openings, and is in order where
the rows have one order; and what was returned are the first rows of that run, up to
the place of the cursor. Rows are counted by the places at which they lie (`HeldUpTo`),
and two stretches of sequences that agree place by place count alike (`HeldFrom`). That a merge loses
nothing is a claim about each of its prefixes: the first k rows are the first
`left[k]` of the left run and the first `k - left[k]` of the right one
(`Interleaves`, `MergeHolds`). That it is in order: each row taken stands in order
with the head it was compared with, and so with all the rows behind the two heads
(`MergeTakesFirst`, `MergeGoesOn`), which needs that the runs are in order and that
the keys of all their rows can be compared. The queue of runs is followed turn by
turn: a merge keeps the sum of what the runs hold (`Adds`), keeps every run in order
and shortens the queue by one, so that one run is left (`MergedIsOneRun`). It is the
same argument for an opening that finds the run of the one before at the front of
the queue (`OpenedOnceMore`). The pages of the run are cut where the cursor expects
them (`BufferIs`, `FetchGoesOn`), so that a call that moves to the next page returns
the row behind the last one. For a key the heap does not know every arrangement may
come out, and what is claimed is which rows and how often, not their order. The
proof is for tables, pages and cells of any size; `SortConstants` asks that a page
hold a row and that the cells of the key have ranks.

### Model-checked only

* Liveness (`StatementEnds`) and whatever needs ENABLED: the prover has no rule for it.
* `BPlusTree`, `Sql` and `GroupedQueries` (the aggregations): their operators are
  recursive, and a module with RECURSIVE operators cannot be proved about. The
  library's induction theorems take an operator as a parameter, which the provers
  cannot instantiate. Induction over the naturals can be done by hand, as for the
  walks of `LRUList`, `StaticHashIndex` and `ExternalSort`; the trees of `BPlusTree`
  and the expressions of `Sql` would need an induction over nested data, and
  `GroupsAccount` one over sums along the rows of the groups, which the order of an
  unnamed key tears apart.

## 5. What is not modelled

* The parser is an external library; statements are inputs.
* LIMIT and OFFSET are bound and never planned: they have no effect to model.
* Stream errors of the file are ignored by the code, apart from a message.
  Printing, text conversion of fields and the bytes of numbers are left out.
* Columns whose names contain "const", which a predicate takes for constants
  (Q_Execution/Predicate.c++:99).
* `table_rids` and `createIndex` of TableHeap; the index types are modelled with
  the entries their callers insert.
* Of joins: joins of joins (no condition over them can be built), index entries of
  dead tuples, and a second merge join in one process, which goes on at the
  positions of the first.
* What a catalog holds after it was loaded: the tables are read from a place where
  none begins. The session program never loads one, although readme.md:345-350
  describes it; `Restart` is what it does.
* After a crash the directory is that of the last clean shutdown: pages allocated
  since are lost. `PageStore` promises no more than that, although readme.md:341
  says that all artifacts survive.

## 6. Next

1. What removal with the stale `next_page_id` makes of scans of the B+ tree.
2. Joins over indexes whose entries outlived their tuples, composed with `TableHeap`.
3. Proofs: the sums of the aggregations, over the rows that the sort is proved to
   return, with the loops of `GroupedQueries` as recursive functions.
