----------------------------- MODULE BPlusTree -----------------------------
(***************************************************************************)
(* The B+ tree index: class BPlusTree and its nodes, in memory and on the  *)
(* pages they are written to.  A node is named by its page, since each has *)
(* one of its own.  The record tr, to which the operations are applied,    *)
(* has the fields                                                          *)
(*   root    the page of the root, or NoPage                               *)
(*   nodes   page -> node, the nodes of the tree in memory                 *)
(*   pages   page -> node as serialize wrote it and loadNode reads it      *)
(*   dead    the process died in the operation                             *)
(* and a node the fields leaf, entries (of a leaf), keys, children (of an  *)
(* inner node) and next, the page id of the leaf to its right.             *)
(*                                                                         *)
(* The code's children_pages_ids name the pages of children, and loadNode  *)
(* loads whole subtrees, so that its lazy loading never happens.           *)
(***************************************************************************)
EXTENDS Integers, FiniteSets, SequencesExt, BagsExt

CONSTANTS
    t,            \* the minimum degree
    Keys, Values, \* keys are integers, values are RIDs
    Starts,       \* bound: the sequences of entries inserted to begin with
    MaxInserts,   \* bound: calls of insert after these
    MaxRemoves    \* bound: calls of remove

\* With degree 1 a split would leave an empty node.
TreeConstants == t \in Nat \ {0, 1} /\ Keys \subseteq Int

Entries == [key : Keys, value : Values]

StartsAreEntries == Starts \subseteq Seq(Entries)

NoPage == -1

\* next_page_id of a new node is not initialised, and a split passes it on to the
\* new last leaf: see ScanFrom.
Unset == -2

VARIABLES
    tree,      \* the record tr described above
    loaded,    \* whether the tree was read from its pages at some time
    inserts, removes

vars == <<tree, loaded, inserts, removes>>

-----------------------------------------------------------------------------
(* Nodes and pages. *)

KeysOf(entries) == [i \in 1 .. Len(entries) |-> entries[i].key]

Leaf(entries, next) == [leaf |-> TRUE, entries |-> entries, keys |-> KeysOf(entries),
                        children |-> <<>>, next |-> next]
Inner(keys, children) == [leaf |-> FALSE, entries |-> <<>>, keys |-> keys,
                          children |-> children, next |-> Unset]

\* What deserialize makes of what serialize wrote: the keys of a leaf, which
\* mirror its entries, are not restored.
Serialized(n) == IF n.leaf THEN [n EXCEPT !.keys = <<>>] ELSE n

\* newPage: the pages of removed nodes are never used again.
FreshPage(tr) == Cardinality(DOMAIN tr.pages) + 1

\* tr with new contents of nodes, which are also written to their pages, and
\* without the nodes of gone.  (Slip: only new pages are written.)
WrittenLess(tr, new, gone) ==
    [tr EXCEPT
       !.nodes = [p \in (DOMAIN @ \cup DOMAIN new) \ gone |->
                    IF p \in DOMAIN new THEN new[p] ELSE @[p]],
       !.pages = [p \in DOMAIN @ \cup DOMAIN new |->
                    IF p \in DOMAIN @ THEN @[p] ELSE Serialized(new[p])]]
Written(tr, new, gone) ==
    [tr EXCEPT
       !.nodes = [p \in (DOMAIN @ \cup DOMAIN new) \ gone |->
                    IF p \in DOMAIN new THEN new[p] ELSE @[p]],
       !.pages = [p \in DOMAIN @ \cup DOMAIN new |->
                    IF p \in DOMAIN new THEN Serialized(new[p]) ELSE @[p]]]

WrittenNode(tr, p, n) == Written(tr, [q \in {p} |-> n], {})

\* A node changed in memory only: its page is written later in the operation.
Changed(tr, p, n) == [tr EXCEPT !.nodes[p] = n]

\* How full a node is: by its content, and by its keys as remove counts it.
Size(n) == Len(IF n.leaf THEN n.entries ELSE n.keys)
Spare(n) == Len(n.keys) >= t

\* (Slip: off by one.)
FullLate(n) == Size(n) = 2 * t
Full(n) == Size(n) = 2 * t - 1

\* The number of keys a descent to k passes on the way.
Below(keys, k) == Cardinality({i \in 1 .. Len(keys) : keys[i] < k})
UpTo(keys, k) == Cardinality({i \in 1 .. Len(keys) : keys[i] <= k})

\* Two neighbours as one node, with the key sep that separates them in the
\* parent.  The left one keeps its link: merge updates the pointer next, which
\* nothing reads, and not next_page_id.
Joined(left, sep, right) ==
    IF left.leaf THEN Leaf(left.entries \o right.entries, left.next)
    ELSE Inner(left.keys \o <<sep>> \o right.keys, left.children \o right.children)

\* The two parts of node n when the left one gets size entries or keys, with
\* the links the parts have if they are leaves.
LeftPart(n, size, next) ==
    IF n.leaf THEN Leaf(SubSeq(n.entries, 1, size), next)
    ELSE Inner(SubSeq(n.keys, 1, size), SubSeq(n.children, 1, size + 1))
RightPart(n, size, next) ==
    IF n.leaf THEN Leaf(SubSeq(n.entries, size + 1, Len(n.entries)), next)
    ELSE Inner(SubSeq(n.keys, size + 2, Len(n.keys)),
               SubSeq(n.children, size + 2, Len(n.children)))

\* The key that separates the parts: the first entry of the right leaf, or the
\* key between two inner nodes.  (Slip: the last entry of the left leaf.)
LeftSeparator(n, size) == IF n.leaf THEN n.entries[size].key ELSE n.keys[size + 1]
Separator(n, size) == IF n.leaf THEN n.entries[size + 1].key ELSE n.keys[size + 1]

-----------------------------------------------------------------------------
(* Insertion. *)

\* Where the left half of a split leaf links to.  (Slip: past the new leaf.)
LinkPast(child, new) == child.next
LinkToNew(child, new) == new

\* splitChild: the i-th child of parent p, which is full, gives its upper half
\* to a new node on its right.  The parent's page is not written here.
SplitChild(tr, p, i) ==
    LET parent == tr.nodes[p]
        q == parent.children[i]
        child == tr.nodes[q]
        new == FreshPage(tr)
        halves == (q :> LeftPart(child, t - 1, LinkToNew(child, new)))
                    @@ (new :> RightPart(child, t - 1, child.next))
    IN  Changed(Written(tr, halves, {}), p,
                Inner(InsertAt(parent.keys, i, Separator(child, t - 1)),
                      InsertAt(parent.children, i + 1, new)))

\* Which child the insertion of k goes to after child i was split.  (Slip: it
\* stays with the left half.)
StaysLeft(keys, i, k) == i
AfterSplit(keys, i, k) == IF k > keys[i] THEN i + 1 ELSE i

\* insertNonFull at node p: a full child is split before the descent, and the
\* node is written after it.  A leaf takes the entry in front of equal ones.
RECURSIVE InsertNonFull(_, _, _)
InsertNonFull(tr, p, e) ==
    LET n == tr.nodes[p] IN
    IF n.leaf
    THEN WrittenNode(tr, p,
           Leaf(InsertAt(n.entries, 1 + Below(KeysOf(n.entries), e.key), e), n.next))
    ELSE LET i == 1 + UpTo(n.keys, e.key)
             split == Full(tr.nodes[n.children[i]])
             s == IF split THEN SplitChild(tr, p, i) ELSE tr
             m == s.nodes[p]
             j == IF split THEN AfterSplit(m.keys, i, e.key) ELSE i
         IN  WrittenNode(InsertNonFull(s, m.children[j], e), p, m)

\* insert: the first entry makes the root, a full root gets a new one above it.
InsertEntry(tr, e) ==
    LET p == FreshPage(tr) IN
    IF tr.root = NoPage
    THEN [WrittenNode(tr, p, Leaf(<<e>>, Unset)) EXCEPT !.root = p]
    ELSE IF Full(tr.nodes[tr.root])
    THEN LET above == WrittenNode(tr, p, Inner(<<>>, <<tr.root>>))
         IN  InsertNonFull([SplitChild(above, p, 1) EXCEPT !.root = p], p, e)
    ELSE InsertNonFull(tr, tr.root, e)

-----------------------------------------------------------------------------
(* Removal. *)

\* The last or the first leaf below node p.
RECURSIVE LastLeaf(_, _)
LastLeaf(tr, p) == LET n == tr.nodes[p] IN
    IF n.leaf THEN n ELSE LastLeaf(tr, Last(n.children))
RECURSIVE FirstLeaf(_, _)
FirstLeaf(tr, p) == LET n == tr.nodes[p] IN
    IF n.leaf THEN n ELSE FirstLeaf(tr, Head(n.children))

\* borrowFromPrev and borrowFromNext: children i and i + 1 of p share their
\* content anew, the left one getting size of it.
Shared(tr, p, i, size) ==
    LET n == tr.nodes[p]
        left == tr.nodes[n.children[i]]
        right == tr.nodes[n.children[i + 1]]
        both == Joined(left, n.keys[i], right)
        parts == (n.children[i] :> LeftPart(both, size, left.next))
                   @@ (n.children[i + 1] :> RightPart(both, size, right.next))
    IN  Changed(Written(tr, parts, {}), p,
                Inner([n.keys EXCEPT ![i] = Separator(both, size)], n.children))

\* merge: child i of p takes the content of child i + 1, which is deleted.  Its
\* page remains as it is.
Merge(tr, p, i) ==
    LET n == tr.nodes[p]
        left == tr.nodes[n.children[i]]
        right == tr.nodes[n.children[i + 1]]
        m == Inner(RemoveAt(n.keys, i), RemoveAt(n.children, i + 1))
    IN  Changed(Written(tr, n.children[i] :> Joined(left, n.keys[i], right),
                        {n.children[i + 1]}), p, m)

\* A leaf loses the first entry with the key.  (Slip: all of them.)
At(entries, k) == {i \in 1 .. Len(entries) : entries[i].key = k}
ErasedAll(entries, k) == SelectSeq(entries, LAMBDA e : e.key # k)
Erased(entries, k) == RemoveAt(entries, Min(At(entries, k)))

\* remove at node p.  A leaf without the key stays as it is.  A key that separates
\* two children is replaced by its predecessor or successor, which is removed
\* below instead; any other removal first brings the child it goes to up to t keys.
RECURSIVE RemoveFrom(_, _, _)
RemoveFrom(tr, p, k) ==
    LET n == tr.nodes[p]
        i == 1 + Below(n.keys, k)
        last == Len(n.children)
        Child(j) == tr.nodes[n.children[j]]
        \* The node is written when the removal below it is done.
        Then(s, j, key) ==
            LET r == RemoveFrom(s, s.nodes[p].children[j], key)
            IN  IF r.dead THEN r ELSE WrittenNode(r, p, r.nodes[p])
        \* The keys of a leaf that was loaded are empty, and so are front and back.
        Replace(key, j) == Then(Changed(tr, p, [n EXCEPT !.keys[i] = key]), j, key)
        Dead == [tr EXCEPT !.dead = TRUE]
        Keyed(leaf) == leaf.keys # <<>>
    IN  IF n.leaf
        THEN IF At(n.entries, k) = {} THEN tr
             ELSE WrittenNode(tr, p, Leaf(Erased(n.entries, k), n.next))
        ELSE IF i < last /\ n.keys[i] = k
        THEN IF Spare(Child(i))
             THEN LET from == LastLeaf(tr, n.children[i])
                  IN  IF Keyed(from) THEN Replace(Last(from.keys), i) ELSE Dead
             ELSE IF Spare(Child(i + 1))
             THEN LET from == FirstLeaf(tr, n.children[i + 1])
                  IN  IF Keyed(from) THEN Replace(Head(from.keys), i + 1) ELSE Dead
             ELSE Then(Merge(tr, p, i), i, k)
        ELSE IF Spare(Child(i)) THEN Then(tr, i, k)
        ELSE IF i > 1 /\ Spare(Child(i - 1))
        THEN Then(Shared(tr, p, i - 1, Size(Child(i - 1)) - 1), i, k)
        ELSE IF i < last /\ Spare(Child(i + 1))
        THEN Then(Shared(tr, p, i, Size(Child(i)) + 1), i, k)
        ELSE IF i < last THEN Then(Merge(tr, p, i), i, k)
        ELSE Then(Merge(tr, p, i - 1), i - 1, k)

\* remove: a root without keys is replaced by its only child.
RemoveKey(tr, k) ==
    IF tr.root = NoPage THEN tr
    ELSE LET s == RemoveFrom(tr, tr.root, k)
             root == s.nodes[s.root]
         IN  IF s.dead THEN [tr EXCEPT !.dead = TRUE]
             ELSE IF root.keys = <<>> /\ ~root.leaf
             THEN [s EXCEPT !.root = root.children[1],
                            !.nodes = [q \in DOMAIN @ \ {s.root} |-> @[q]]]
             ELSE s

-----------------------------------------------------------------------------
(* Queries. *)

\* The leaf a query starts from.  findValue and search pass the separators
\* equal to the key, rangeQuery stops at them.
RECURSIVE FindLeaf(_, _, _)
FindLeaf(tr, p, k) == LET n == tr.nodes[p] IN
    IF n.leaf THEN n ELSE FindLeaf(tr, n.children[1 + UpTo(n.keys, k)], k)
RECURSIVE RangeLeaf(_, _, _)
RangeLeaf(tr, p, k) == LET n == tr.nodes[p] IN
    IF n.leaf THEN n ELSE RangeLeaf(tr, n.children[1 + Below(n.keys, k)], k)

\* The ways a scan may go from node n on, through the pages the links name, until
\* it sees a key above hi.  It strays if it comes to the link that is not
\* initialised and this is not negative: it loads whatever page the link names, to
\* gather anything more there, to come back and never end, or to die.
RECURSIVE ScanFrom(_, _, _, _)
ScanFrom(tr, n, lo, hi) ==
    LET found == SelectSeq(n.entries, LAMBDA e : lo <= e.key /\ e.key <= hi)
        beyond == \E i \in 1 .. Len(n.entries) : n.entries[i].key > hi
    IN  IF beyond THEN {[found |-> found, strays |-> FALSE]}
        ELSE IF n.next = Unset THEN {[found |-> found, strays |-> b] : b \in BOOLEAN}
        ELSE {[o EXCEPT !.found = found \o @] : o \in ScanFrom(tr, tr.pages[n.next], lo, hi)}

NothingFound == {[found |-> <<>>, strays |-> FALSE]}

rangeQuery(tr, lo, hi) ==
    IF tr.root = NoPage THEN NothingFound
    ELSE ScanFrom(tr, RangeLeaf(tr, tr.root, lo), lo, hi)
findValue(tr, k) ==
    IF tr.root = NoPage THEN NothingFound
    ELSE ScanFrom(tr, FindLeaf(tr, tr.root, k), k, k)
search(tr, k) ==
    tr.root # NoPage /\ At(FindLeaf(tr, tr.root, k).entries, k) # {}

-----------------------------------------------------------------------------
(* The index in use. *)

EmptyTree == [root |-> NoPage, nodes |-> <<>>, pages |-> <<>>, dead |-> FALSE]

Init ==
    /\ \E start \in Starts : tree = FoldLeft(InsertEntry, EmptyTree, start)
    /\ loaded = FALSE /\ inserts = 0 /\ removes = 0

Insert(e) ==
    /\ ~tree.dead /\ inserts < MaxInserts
    /\ tree' = InsertEntry(tree, e)
    /\ inserts' = inserts + 1
    /\ UNCHANGED <<loaded, removes>>

Delete(k) ==
    /\ ~tree.dead /\ removes < MaxRemoves
    /\ tree' = RemoveKey(tree, k)
    /\ removes' = removes + 1
    /\ UNCHANGED <<loaded, inserts>>

\* The index is saved, destroyed and loaded again.  A tree that was saved has
\* all its nodes on their pages, and these name the same children.
Reopen ==
    /\ ~tree.dead /\ tree.root # NoPage
    /\ LET saved == Written(tree, tree.nodes, {})
       IN  tree' = [saved EXCEPT !.nodes = [p \in DOMAIN tree.nodes |-> saved.pages[p]]]
    /\ loaded' = TRUE
    /\ UNCHANGED <<inserts, removes>>

Next ==
    \/ \E e \in Entries : Insert(e)
    \/ \E k \in Keys : Delete(k)
    \/ Reopen

Spec == Init /\ [][Next]_vars

-----------------------------------------------------------------------------
(* Properties. *)

RECURSIVE InOrder(_, _)
\* The entries below node p, from left to right.
InOrder(tr, p) == LET n == tr.nodes[p] IN
    IF n.leaf THEN n.entries
    ELSE FlattenSeq([i \in 1 .. Len(n.children) |-> InOrder(tr, n.children[i])])
Contents(tr) == IF tr.root = NoPage THEN <<>> ELSE InOrder(tr, tr.root)

RECURSIVE Depth(_, _)
Depth(tr, p) == LET n == tr.nodes[p] IN IF n.leaf THEN 0 ELSE 1 + Depth(tr, n.children[1])

Occurrences(s) == [e \in ToSet(s) |-> Cardinality({i \in 1 .. Len(s) : s[i] = e})]

\* A separator is not below an entry on its left nor above one on its right, and
\* a leaf is sorted, through every split, borrowing, merge and replacement of a
\* separator (BPlusTreeIndex.c++:82, 286, 423, 469, 514).
Ordered ==
    \A p \in DOMAIN tree.nodes : LET n == tree.nodes[p] IN
      IF n.leaf THEN \A i \in 2 .. Len(n.entries) : n.entries[i - 1].key <= n.entries[i].key
      ELSE \A i \in 1 .. Len(n.keys) :
             /\ \A e \in ToSet(InOrder(tree, n.children[i])) : e.key <= n.keys[i]
             /\ \A e \in ToSet(InOrder(tree, n.children[i + 1])) : n.keys[i] <= e.key

\* All leaves are equally deep and every node but the root is at least half
\* full.  No node has more than 2t - 1 entries or keys, as long as nothing was
\* removed from a tree that was loaded: the keys of loaded leaves are missing,
\* so that remove takes them for empty and merges leaves that are not small.
Balanced ==
    \A p \in DOMAIN tree.nodes : LET n == tree.nodes[p] IN
      /\ \A i \in 1 .. Len(n.children) :
           Depth(tree, n.children[i]) = Depth(tree, n.children[1])
      /\ p # tree.root => Size(n) >= t - 1
      /\ (~n.leaf \/ ~loaded \/ removes = 0) => Size(n) <= 2 * t - 1

\* Between operations every node stands on its page, so that scans, which walk
\* the pages, and a later load see what is in memory (BPlusTreeIndex.c++:171,
\* 201, 301, 398, 458, 502, 552).
PagesMatch ==
    \A p \in DOMAIN tree.nodes : tree.pages[p] = Serialized(tree.nodes[p])

\* An insertion adds its entry and no other step does; a removal loses one entry
\* if the key has one, and never more than one; saving and loading lose nothing.
\* Only a call on a tree that was loaded may end the process.
StepsKeepEntries ==
    [][ LET old == Occurrences(Contents(tree))
            new == Occurrences(Contents(tree'))
        IN  IF tree'.dead THEN loaded
            ELSE /\ \A e \in Entries : Insert(e) => new = old (+) SetToBag({e})
                 /\ \A k \in Keys : Delete(k) =>
                      /\ new \sqsubseteq old
                      /\ BagCardinality(old (-) new) <= 1
                      /\ (\E e \in BagToSet(old) : e.key = k) => new # old
                 /\ Reopen => new = old ]_vars

\* Some key is above k: the scans for k stop at it.
Bounded(k) == \E e \in ToSet(Contents(tree)) : e.key > k

\* As long as nothing was removed, a range query gathers the entries of the
\* range from the leaves, in order and each once, equal keys on both sides of a
\* separator included, and returns them if a key above the range is there to stop
\* it.  If none is, it may stray behind the last leaf (BPlusTreeIndex.c++:665).
RangeExact ==
    removes = 0 => \A lo \in Keys, hi \in Keys :
      \A o \in rangeQuery(tree, lo, hi) :
        /\ o.found = SelectSeq(Contents(tree), LAMBDA e : lo <= e.key /\ e.key <= hi)
        /\ o.strays => ~Bounded(hi)

\* As long as nothing was removed, search finds the keys that are there, and
\* findValue gathers entries of the key, all of them if there is only one, and
\* returns them if a greater key is there to stop it.  With several, those on the
\* left of a separator equal to the key are missed (BPlusTreeIndex.c++:605, 628).
FindsKeys ==
    removes = 0 => \A k \in Keys :
      LET of == SelectSeq(Contents(tree), LAMBDA e : e.key = k)
      IN  /\ search(tree, k) <=> of # <<>>
          /\ \A o \in findValue(tree, k) :
               /\ IsSuffix(o.found, of)
               /\ of # <<>> => o.found # <<>>
               /\ o.strays => ~Bounded(k)

\* remove is a "function to remove a key from a node" (BPlusTreeIndex.h:182): no
\* entry with another key goes.
RemoveTakesKey ==
    [][\A k \in Keys : Delete(k) /\ ~tree'.dead =>
         SelectSeq(Contents(tree'), LAMBDA e : e.key # k)
           = SelectSeq(Contents(tree), LAMBDA e : e.key # k)]_vars
=============================================================================
