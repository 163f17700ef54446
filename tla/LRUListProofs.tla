--------------------------- MODULE LRUListProofs ---------------------------
(***************************************************************************)
(* The doubly linked list of class LRU is the recency order, for every set *)
(* of keys and every capacity.                                             *)
(***************************************************************************)
EXTENDS LRUList, FiniteSetTheorems, SequenceTheorems, WellFoundedInduction, TLAPS

Order == INSTANCE RecencyListProofs

\* The operators of the abstract list are those of RecencyList.
LEMMA SameOrder ==
    ASSUME NEW l, NEW k
    PROVE  /\ Recency!Keys(l) = Order!Keys(l)
           /\ Recency!GetFrame(l, k) = Order!GetFrame(l, k)
           /\ Recency!PutFrame(l, k, Capacity) = Order!PutFrame(l, k, Capacity)
           /\ Recency!DropLast(l) = Order!DropLast(l)
           /\ Recency!RemoveFrame(l, k) = Order!RemoveFrame(l, k)
  BY DEF Recency!Keys, Recency!GetFrame, Recency!PutFrame, Recency!DropLast,
         Recency!RemoveFrame, Recency!Without, Recency!PushFront,
         Order!Keys, Order!GetFrame, Order!PutFrame, Order!DropLast,
         Order!RemoveFrame, Order!Without, Order!PushFront

-----------------------------------------------------------------------------
(* Induction over the naturals. *)

LEMMA SetInduction ==
    ASSUME NEW S, 0 \in S, \A n \in Nat : n \in S => n + 1 \in S
    PROVE  Nat \subseteq S
<1> DEFINE R == {ss \in Nat \X Nat : ss[1] < ss[2]}
           T == Nat \ S
<1>1. IsWellFoundedOn(R, Nat)
  BY NatLessThanWellFounded DEF OpToRel
<1> SUFFICES ASSUME T # {} PROVE FALSE
  OBVIOUS
<1>2. PICK x \in T : \A y \in T : ~ (<<y, x>> \in R)
  <2>1. T \subseteq Nat
    OBVIOUS
  <2> HIDE DEF R, T
  <2> QED BY <1>1, <2>1, WFMin
<1>3. x # 0 /\ x - 1 \in Nat
  OBVIOUS
<1>4. <<x - 1, x>> \in R
  BY <1>3
<1>5. x - 1 \notin T
  BY <1>2, <1>4
<1> QED BY <1>3, <1>5

\* The walk from a node along pointers.
Walk(nx, start) ==
    CHOOSE h : h = [n \in Nat |-> IF n = 0 THEN start ELSE nx[h[n - 1]]]

LEMMA HopIsWalk == Hop = Walk(next, D_head) /\ HopBack = Walk(prev, D_tail)
  BY DEF Hop, HopBack, Walk


\* h is the walk's first n hops.
Hops(nx, start, n, h) ==
    /\ h = [i \in 0 .. n |-> h[i]]
    /\ h[0] = start
    /\ \A i \in 1 .. n : h[i] = nx[h[i - 1]]

LEMMA HopsExist ==
    ASSUME NEW nx, NEW start, NEW n \in Nat
    PROVE  \E h : Hops(nx, start, n, h)
<1> DEFINE S == {m \in Nat : \E h : Hops(nx, start, m, h)}
<1>1. 0 \in S
  <2>1. Hops(nx, start, 0, [i \in 0 .. 0 |-> start])
    BY DEF Hops
  <2> QED BY <2>1
<1>2. ASSUME NEW m \in Nat, m \in S PROVE m + 1 \in S
  <2>1. PICK h : Hops(nx, start, m, h)
    BY <1>2
  <2> DEFINE g == [i \in 0 .. m + 1 |-> IF i = m + 1 THEN nx[h[m]] ELSE h[i]]
  <2>2. g[m + 1] = nx[g[m]] /\ g[0] = start
    BY <2>1 DEF Hops
  <2>3. ASSUME NEW i \in 1 .. m PROVE g[i] = nx[g[i - 1]]
    <3>1. g[i] = h[i] /\ g[i - 1] = h[i - 1]
      OBVIOUS
    <3> QED BY <2>1, <3>1 DEF Hops
  <2>4. g = [i \in 0 .. m + 1 |-> g[i]]
    OBVIOUS
  <2> HIDE DEF g
  <2>5. ASSUME NEW i \in 1 .. m + 1 PROVE g[i] = nx[g[i - 1]]
    <3>1. CASE i = m + 1
      BY <2>2, <3>1
    <3>2. CASE i # m + 1
      BY <2>3, <3>2
    <3> QED BY <3>1, <3>2
  <2>6. Hops(nx, start, m + 1, g)
    BY <2>2, <2>4, <2>5 DEF Hops
  <2> QED BY <2>6
<1> HIDE DEF S
<1>3. n \in S
  BY <1>1, <1>2, SetInduction
<1> QED BY <1>3 DEF S

LEMMA HopsAgree ==
    ASSUME NEW nx, NEW start, NEW n \in Nat, NEW m \in Nat, NEW g, NEW h,
           Hops(nx, start, n, g), Hops(nx, start, m, h),
           NEW i \in Nat, i <= n, i <= m
    PROVE  g[i] = h[i]
<1> DEFINE S == {j \in Nat : j <= n /\ j <= m => g[j] = h[j]}
<1>1. 0 \in S
  BY DEF Hops
<1>2. ASSUME NEW j \in Nat, j \in S PROVE j + 1 \in S
  <2> SUFFICES ASSUME j + 1 <= n, j + 1 <= m PROVE g[j + 1] = h[j + 1]
    OBVIOUS
  <2>1. g[j] = h[j] /\ j + 1 \in 1 .. n /\ j + 1 \in 1 .. m /\ j + 1 - 1 = j
    BY <1>2
  <2>2. /\ \A a \in 1 .. n : g[a] = nx[g[a - 1]]
        /\ \A a \in 1 .. m : h[a] = nx[h[a - 1]]
    BY DEF Hops
  <2> QED BY <2>1, <2>2
<1> HIDE DEF S
<1>3. i \in S
  BY <1>1, <1>2, SetInduction
<1> QED BY <1>3 DEF S

\* The walk exists: its recursive equation has a solution.
LEMMA WalkUnfolds ==
    ASSUME NEW nx, NEW start
    PROVE  /\ Walk(nx, start)[0] = start
           /\ \A n \in Nat \ {0} : Walk(nx, start)[n] = nx[Walk(nx, start)[n - 1]]
<1> DEFINE f(n) == CHOOSE h : Hops(nx, start, n, h)
           w == [n \in Nat |-> f(n)[n]]
<1>1. \A n \in Nat : Hops(nx, start, n, f(n))
  BY HopsExist
<1> HIDE DEF f
<1>2. w[0] = start
  BY <1>1 DEF Hops
<1>3. ASSUME NEW n \in Nat \ {0} PROVE w[n] = nx[w[n - 1]]
  <2>1. n \in 1 .. n /\ n - 1 \in Nat /\ n - 1 <= n /\ n - 1 <= n - 1
    OBVIOUS
  <2>2. f(n)[n] = nx[f(n)[n - 1]]
    BY <1>1, <2>1 DEF Hops
  <2>3. f(n)[n - 1] = f(n - 1)[n - 1]
    BY <1>1, <2>1, HopsAgree
  <2> QED BY <2>1, <2>2, <2>3
<1>4. w = [n \in Nat |-> IF n = 0 THEN start ELSE nx[w[n - 1]]]
  <2>1. w = [n \in Nat |-> w[n]]
    OBVIOUS
  <2> HIDE DEF w
  <2> QED BY <1>2, <1>3, <2>1
<1> HIDE DEF w
<1>5. Walk(nx, start) =
          [n \in Nat |-> IF n = 0 THEN start ELSE nx[Walk(nx, start)[n - 1]]]
  BY <1>4 DEF Walk
<1> QED BY <1>5

-----------------------------------------------------------------------------
(* The list and its links. *)

\* The nodes from the head to the tail when the keys in between are those of l.
At(l, i) == IF i = 0 THEN D_head ELSE IF i = Len(l) + 1 THEN D_tail ELSE l[i]

\* The pointers p link the nodes of l, both ways.
Links(p, l) ==
    /\ p \in [next : [Nodes -> Nodes \cup {Null}], prev : [Nodes -> Nodes \cup {Null}]]
    /\ \A i \in 0 .. Len(l) : /\ p.next[At(l, i)] = At(l, i + 1)
                              /\ p.prev[At(l, i + 1)] = At(l, i)

\* Every key of l has one node, and none is a sentinel.
LEMMA AtDistinct ==
    ASSUME NEW l \in Seq(Frames), Order!NoRepeats(l)
    PROVE  /\ Len(l) \in Nat
           /\ \A i \in 1 .. Len(l) : l[i] \in Frames
           /\ \A i \in 0 .. Len(l) + 1 : At(l, i) \in Nodes
           /\ \A i, j \in 0 .. Len(l) + 1 : At(l, i) = At(l, j) => i = j
<1>1. Len(l) \in Nat /\ \A i \in 1 .. Len(l) : l[i] \in Frames
  OBVIOUS
<1>2. ASSUME NEW i \in 0 .. Len(l) + 1
      PROVE  \/ i = 0 /\ At(l, i) = D_head
             \/ i = Len(l) + 1 /\ At(l, i) = D_tail
             \/ i \in 1 .. Len(l) /\ At(l, i) = l[i] /\ l[i] \in Frames
  BY <1>1 DEF At
<1>3. ASSUME NEW i \in 0 .. Len(l) + 1, NEW j \in 0 .. Len(l) + 1, At(l, i) = At(l, j)
      PROVE  i = j
  BY <1>2, <1>3, LRUConstants DEF Order!NoRepeats
<1> QED BY <1>1, <1>2, <1>3 DEF Nodes

\* Unlink takes the node of k out, whichever its neighbours are.
LEMMA UnlinkLinks ==
    ASSUME NEW l \in Seq(Frames), Order!NoRepeats(l), NEW p, Links(p, l),
           NEW k \in Order!Keys(l)
    PROVE  Links(Unlink(p, k), Order!Without(l, k))
<1> DEFINE r == Order!Without(l, k)
           m == CHOOSE i \in 1 .. Len(l) : l[i] = k
           at(i) == IF i < m THEN i ELSE i + 1
           q == Unlink(p, k)
<1>1. m \in 1 .. Len(l) /\ l[m] = k
  BY DEF Order!Keys
<1>2. r = [i \in 1 .. Len(l) - 1 |-> IF i < m THEN l[i] ELSE l[i + 1]]
  BY DEF Order!Without
<1>3. r \in Seq(Frames) /\ Len(r) = Len(l) - 1
  BY Order!WithoutKeys
<1> HIDE DEF m, r
<1>4. ASSUME NEW i \in 0 .. Len(r) + 1
      PROVE  at(i) \in 0 .. Len(l) + 1 /\ at(i) # m /\ At(r, i) = At(l, at(i))
  <2>1. Len(l) \in Nat
    BY AtDistinct
  <2>2. i \in 0 .. Len(l)
    BY <1>3, <2>1
  <2>3. CASE i = 0 \/ i = Len(r) + 1
    BY <1>1, <1>3, <2>1, <2>2, <2>3 DEF At
  <2>4. CASE i # 0 /\ i # Len(r) + 1
    <3>1. i \in 1 .. Len(l) - 1
      BY <1>3, <2>1, <2>2, <2>4
    <3>2. r[i] = l[at(i)] /\ at(i) \in 1 .. Len(l) /\ at(i) # m
      BY <1>1, <1>2, <2>1, <3>1
    <3> QED BY <1>3, <2>1, <2>4, <3>1, <3>2 DEF At
  <2> QED BY <2>3, <2>4
<1>5. /\ p \in [next : [Nodes -> Nodes \cup {Null}], prev : [Nodes -> Nodes \cup {Null}]]
      /\ \A i \in 0 .. Len(l) : /\ p.next[At(l, i)] = At(l, i + 1)
                                /\ p.prev[At(l, i + 1)] = At(l, i)
  BY DEF Links
<1>6. /\ At(l, m) = k
      /\ p.prev[k] = At(l, m - 1) /\ p.next[k] = At(l, m + 1)
      /\ m - 1 \in 0 .. Len(l) + 1 /\ m + 1 \in 0 .. Len(l) + 1 /\ m \in 0 .. Len(l) + 1
  <2>1. Len(l) \in Nat
    BY AtDistinct
  <2>2. m - 1 \in 0 .. Len(l) /\ m \in 0 .. Len(l) /\ m - 1 + 1 = m
    BY <1>1, <2>1
  <2>3. At(l, m) = k
    BY <1>1, <2>1 DEF At
  <2>4. p.next[At(l, m)] = At(l, m + 1) /\ p.prev[At(l, m - 1 + 1)] = At(l, m - 1)
    BY <1>5, <2>2
  <2> QED BY <2>1, <2>2, <2>3, <2>4
<1>7. /\ At(l, m - 1) # k /\ At(l, m + 1) # k
      /\ At(l, m - 1) \in Nodes /\ At(l, m + 1) \in Nodes /\ k \in Nodes
  BY <1>1, <1>6, AtDistinct
<1>8. q = [next |-> [p.next EXCEPT ![At(l, m - 1)] = At(l, m + 1)],
           prev |-> [p.prev EXCEPT ![At(l, m + 1)] = At(l, m - 1)]]
  <2> DEFINE p1 == [p EXCEPT !.next[p.prev[k]] = p.next[k]]
             nx == [p.next EXCEPT ![At(l, m - 1)] = At(l, m + 1)]
  <2>1. p = [next |-> p.next, prev |-> p.prev]
    BY <1>5
  <2>2. p1 = [next |-> nx, prev |-> p.prev]
    BY <1>6, <2>1
  <2>3. nx[k] = At(l, m + 1)
    BY <1>5, <1>6, <1>7
  <2>4. q = [p1 EXCEPT !.prev[p1.next[k]] = p1.prev[k]]
    BY DEF Unlink
  <2> HIDE DEF p1, nx, q
  <2>5. q = [next |-> nx, prev |-> [p.prev EXCEPT ![At(l, m + 1)] = At(l, m - 1)]]
    BY <1>6, <2>2, <2>3, <2>4
  <2> QED BY <2>5 DEF nx
<1> HIDE DEF q
<1>9. q \in [next : [Nodes -> Nodes \cup {Null}], prev : [Nodes -> Nodes \cup {Null}]]
  BY <1>5, <1>7, <1>8
<1>10. ASSUME NEW i \in 0 .. Len(r)
       PROVE  q.next[At(r, i)] = At(r, i + 1) /\ q.prev[At(r, i + 1)] = At(r, i)
  <2>1. Len(l) \in Nat /\ i \in 0 .. Len(r) + 1 /\ i + 1 \in 0 .. Len(r) + 1
    BY <1>3, AtDistinct
  <2>2. /\ at(i) \in 0 .. Len(l) + 1 /\ at(i) # m /\ At(r, i) = At(l, at(i))
        /\ at(i + 1) \in 0 .. Len(l) + 1 /\ at(i + 1) # m
        /\ At(r, i + 1) = At(l, at(i + 1))
    BY <1>4, <2>1
  <2>3. At(l, at(i)) \in Nodes /\ At(l, at(i + 1)) \in Nodes
    BY <2>2, AtDistinct
  <2>4. CASE i = m - 1
    <3>1. at(i) = m - 1 /\ at(i + 1) = m + 1
      BY <1>1, <2>4
    <3> QED BY <1>5, <1>7, <1>8, <2>2, <2>3, <3>1
  <2>5. CASE i # m - 1
    <3>1. at(i) # m - 1 /\ at(i + 1) # m + 1 /\ at(i + 1) = at(i) + 1
          /\ at(i) \in 0 .. Len(l)
      BY <1>1, <1>3, <2>1, <2>5
    <3>2. At(l, at(i)) # At(l, m - 1) /\ At(l, at(i + 1)) # At(l, m + 1)
      BY <1>6, <2>2, <3>1, AtDistinct
    <3>3. p.next[At(l, at(i))] = At(l, at(i) + 1) /\ p.prev[At(l, at(i) + 1)] = At(l, at(i))
      BY <1>5, <3>1
    <3>4. q.next[At(l, at(i))] = p.next[At(l, at(i))]
          /\ q.prev[At(l, at(i + 1))] = p.prev[At(l, at(i + 1))]
      BY <1>5, <1>8, <2>3, <3>2
    <3> QED BY <2>2, <3>1, <3>3, <3>4
  <2> QED BY <2>4, <2>5
<1> QED BY <1>9, <1>10 DEF Links, q, r

\* Freeing a node outside the list leaves the links.
LEMMA FreeLinks ==
    ASSUME NEW l \in Seq(Frames), NEW p, Links(p, l), NEW k \in Frames \ Order!Keys(l)
    PROVE  Links(Free(p, k), l)
<1>1. ASSUME NEW i \in 0 .. Len(l) + 1 PROVE At(l, i) # k /\ At(l, i) \in Nodes
  <2>1. Len(l) \in Nat /\ k \in Frames /\ \A j \in 1 .. Len(l) : l[j] \in Frames
    OBVIOUS
  <2>2. CASE i = 0 \/ i = Len(l) + 1
    BY <2>1, <2>2, LRUConstants DEF At, Nodes
  <2>3. CASE i \in 1 .. Len(l)
    BY <2>1, <2>3 DEF At, Order!Keys, Nodes
  <2> QED BY <2>1, <2>2, <2>3
<1>2. /\ p \in [next : [Nodes -> Nodes \cup {Null}], prev : [Nodes -> Nodes \cup {Null}]]
      /\ \A i \in 0 .. Len(l) : /\ p.next[At(l, i)] = At(l, i + 1)
                                /\ p.prev[At(l, i + 1)] = At(l, i)
  BY DEF Links
<1> DEFINE q == Free(p, k)
<1>3. q = [next |-> [p.next EXCEPT ![k] = Null], prev |-> [p.prev EXCEPT ![k] = Null]]
  BY DEF Free
<1> HIDE DEF q
<1>4. q \in [next : [Nodes -> Nodes \cup {Null}], prev : [Nodes -> Nodes \cup {Null}]]
  BY <1>2, <1>3
<1>5. ASSUME NEW i \in 0 .. Len(l)
      PROVE  q.next[At(l, i)] = At(l, i + 1) /\ q.prev[At(l, i + 1)] = At(l, i)
  <2>1. i \in 0 .. Len(l) + 1 /\ i + 1 \in 0 .. Len(l) + 1
    OBVIOUS
  <2> QED BY <1>1, <1>2, <1>3, <2>1
<1> QED BY <1>4, <1>5 DEF Links, q

\* LinkFront puts the node of a key that has none in front.
LEMMA LinkFrontLinks ==
    ASSUME NEW l \in Seq(Frames), Order!NoRepeats(l), NEW p, Links(p, l),
           NEW k \in Frames \ Order!Keys(l)
    PROVE  Links(LinkFront(p, k), Order!PushFront(l, k))
<1> DEFINE r == Order!PushFront(l, k)
           q == LinkFront(p, k)
<1>1. Len(l) \in Nat /\ r \in Seq(Frames) /\ Len(r) = Len(l) + 1 /\ Order!NoRepeats(r)
  BY Order!PushFrontKeys
<1>2. r = [i \in 1 .. Len(l) + 1 |-> IF i = 1 THEN k ELSE l[i - 1]]
  BY DEF Order!PushFront
<1> HIDE DEF r
<1>3. /\ At(r, 0) = D_head /\ At(r, 1) = k /\ At(l, 0) = D_head
      /\ \A i \in 1 .. Len(l) + 1 : At(r, i + 1) = At(l, i)
  BY <1>1, <1>2 DEF At
<1>4. /\ p \in [next : [Nodes -> Nodes \cup {Null}], prev : [Nodes -> Nodes \cup {Null}]]
      /\ \A i \in 0 .. Len(l) : /\ p.next[At(l, i)] = At(l, i + 1)
                                /\ p.prev[At(l, i + 1)] = At(l, i)
  BY DEF Links
<1>5. p.next[D_head] = At(l, 1) /\ At(l, 1) = At(r, 2)
  <2>1. 0 \in 0 .. Len(l) /\ 1 \in 1 .. Len(l) + 1 /\ 0 + 1 = 1 /\ 1 + 1 = 2
    BY <1>1
  <2>2. p.next[At(l, 0)] = At(l, 0 + 1) /\ At(r, 1 + 1) = At(l, 1)
    BY <1>3, <1>4, <2>1
  <2> QED BY <1>3, <2>1, <2>2
<1>6. q = [next |-> [p.next EXCEPT ![k] = At(r, 2), ![D_head] = k],
           prev |-> [p.prev EXCEPT ![At(r, 2)] = k, ![k] = D_head]]
  BY <1>5 DEF LinkFront
<1>7. \A i \in 0 .. Len(r) + 1 : At(r, i) \in Nodes
  BY <1>1, AtDistinct
<1>8. \A i, j \in 0 .. Len(r) + 1 : At(r, i) = At(r, j) => i = j
  BY <1>1, AtDistinct
<1>9. 0 \in 0 .. Len(r) + 1 /\ 1 \in 0 .. Len(r) + 1 /\ 2 \in 0 .. Len(r) + 1
  BY <1>1
<1>10. D_head \in Nodes /\ k \in Nodes /\ At(r, 2) \in Nodes
       /\ D_head # k /\ At(r, 2) # k /\ At(r, 2) # D_head
  BY <1>3, <1>7, <1>8, <1>9
<1> HIDE DEF q
<1>11. q \in [next : [Nodes -> Nodes \cup {Null}], prev : [Nodes -> Nodes \cup {Null}]]
  BY <1>4, <1>6, <1>10
<1>12. ASSUME NEW i \in 0 .. Len(r)
       PROVE  q.next[At(r, i)] = At(r, i + 1) /\ q.prev[At(r, i + 1)] = At(r, i)
  <2>1. CASE i = 0
    BY <1>3, <1>4, <1>6, <1>10, <2>1
  <2>2. CASE i = 1
    BY <1>3, <1>4, <1>6, <1>10, <2>2
  <2>3. CASE i # 0 /\ i # 1
    <3>1. /\ i - 1 \in 1 .. Len(l) /\ i - 1 \in 0 .. Len(l) /\ i - 1 \in 1 .. Len(l) + 1
          /\ i \in 1 .. Len(l) + 1 /\ i - 1 + 1 = i
          /\ i \in 0 .. Len(r) + 1 /\ i + 1 \in 0 .. Len(r) + 1
          /\ i + 1 # 0 /\ i + 1 # 1 /\ i + 1 # 2
      BY <1>1, <2>3
    <3>2. At(r, i) = At(l, i - 1) /\ At(r, i + 1) = At(l, i)
      BY <1>3, <3>1
    <3>3. p.next[At(l, i - 1)] = At(l, i) /\ p.prev[At(l, i)] = At(l, i - 1)
      BY <1>4, <3>1
    <3>4. /\ At(r, i) # k /\ At(r, i) # D_head /\ At(r, i) \in Nodes
          /\ At(r, i + 1) # At(r, 2) /\ At(r, i + 1) # k /\ At(r, i + 1) \in Nodes
      BY <1>3, <1>7, <1>8, <1>9, <2>3, <3>1
    <3> QED BY <1>4, <1>6, <1>10, <3>2, <3>3, <3>4
  <2> QED BY <2>1, <2>2, <2>3
<1> QED BY <1>11, <1>12 DEF Links, q, r

\* The last key of the list is the one before the tail.
LEMMA LastLinked ==
    ASSUME NEW l \in Seq(Frames), Order!NoRepeats(l), NEW p, Links(p, l), l # <<>>
    PROVE  /\ p.prev[D_tail] = Order!Victim(l)
           /\ Order!Victim(l) \in Order!Keys(l)
           /\ Order!Without(l, Order!Victim(l)) = Order!DropLast(l)
<1>1. Len(l) \in Nat \ {0}
  BY EmptySeq
<1>2. p.prev[At(l, Len(l) + 1)] = At(l, Len(l))
  BY <1>1 DEF Links
<1>3. At(l, Len(l) + 1) = D_tail /\ At(l, Len(l)) = l[Len(l)]
  BY <1>1 DEF At
<1>4. Order!Victim(l) = l[Len(l)]
  BY DEF Order!Victim
<1> DEFINE m == CHOOSE i \in 1 .. Len(l) : l[i] = l[Len(l)]
<1>5. m = Len(l)
  <2>1. m \in 1 .. Len(l) /\ l[m] = l[Len(l)]
    BY <1>1
  <2> HIDE DEF m
  <2> QED BY <1>1, <2>1 DEF Order!NoRepeats
<1>6. Order!Without(l, l[Len(l)]) =
          [i \in 1 .. Len(l) - 1 |-> IF i < m THEN l[i] ELSE l[i + 1]]
  BY DEF Order!Without
<1> HIDE DEF m
<1>7. Order!Without(l, l[Len(l)]) = [i \in 1 .. Len(l) - 1 |-> l[i]]
  BY <1>1, <1>5, <1>6
<1> QED BY <1>1, <1>2, <1>3, <1>4, <1>7 DEF Order!DropLast, Order!Keys

\* The walks along the pointers visit the nodes of the list, there and back.
LEMMA WalksAgree ==
    ASSUME NEW l \in Seq(Frames), NEW p, Links(p, l), NEW i \in 0 .. Len(l) + 1
    PROVE  /\ Walk(p.next, D_head)[i] = At(l, i)
           /\ Walk(p.prev, D_tail)[i] = At(l, Len(l) + 1 - i)
<1>1. Len(l) \in Nat
  OBVIOUS
<1> DEFINE f == Walk(p.next, D_head)
           b == Walk(p.prev, D_tail)
           n == Len(l) + 1
           S == {j \in Nat : j <= n => f[j] = At(l, j) /\ b[j] = At(l, n - j)}
<1>2. /\ f[0] = D_head /\ \A j \in Nat \ {0} : f[j] = p.next[f[j - 1]]
      /\ b[0] = D_tail /\ \A j \in Nat \ {0} : b[j] = p.prev[b[j - 1]]
  BY WalkUnfolds
<1> HIDE DEF f, b
<1>3. 0 \in S
  BY <1>1, <1>2 DEF At
<1>4. ASSUME NEW j \in Nat, j \in S PROVE j + 1 \in S
  <2> SUFFICES ASSUME j + 1 <= n
               PROVE  f[j + 1] = At(l, j + 1) /\ b[j + 1] = At(l, n - (j + 1))
    OBVIOUS
  <2>1. /\ j \in 0 .. Len(l) /\ Len(l) - j \in 0 .. Len(l)
        /\ Len(l) - j + 1 = n - j /\ Len(l) - j = n - (j + 1)
        /\ j + 1 \in Nat \ {0} /\ j + 1 - 1 = j
    BY <1>1
  <2>2. f[j] = At(l, j) /\ b[j] = At(l, n - j)
    BY <1>1, <1>4
  <2>3. f[j + 1] = p.next[f[j]] /\ b[j + 1] = p.prev[b[j]]
    BY <1>2, <2>1
  <2> HIDE DEF n
  <2>4. p.next[At(l, j)] = At(l, j + 1)
    BY <2>1 DEF Links
  <2>5. p.prev[At(l, Len(l) - j + 1)] = At(l, Len(l) - j)
    BY <2>1 DEF Links
  <2> QED BY <2>1, <2>2, <2>3, <2>4, <2>5
<1>5. i \in Nat /\ i <= n
  BY <1>1
<1> HIDE DEF S, n
<1>6. i \in S
  BY <1>3, <1>4, <1>5, SetInduction
<1> QED BY <1>5, <1>6 DEF S, n, f, b

-----------------------------------------------------------------------------
(* The invariant. *)

\* The nodes and the map hold the list l, and of two keys in l the front one
\* was used since the last use of the other.
ListIs(l) ==
    /\ l \in Seq(Frames)
    /\ Order!NoRepeats(l)
    /\ Order!Keys(l) = frames_map
    /\ Links(Pointers, l)
    /\ \A g, f : Order!Before(l, g, f) => g \in since[f]

SinceOK == since \in [Frames -> SUBSET Frames]

LInv == SinceOK /\ \E l : ListIs(l)

\* The number of keys is the length of the list, and the keys met on the way
\* from the head are the list.
LEMMA OrderKnown ==
    ASSUME NEW l \in Seq(Frames), Order!NoRepeats(l), NEW p, Links(p, l)
    PROVE  /\ Cardinality(Order!Keys(l)) = Len(l)
           /\ l = [i \in 1 .. Len(l) |-> Walk(p.next, D_head)[i]]
<1>1. Len(l) \in Nat /\ l \in [1 .. Len(l) -> Order!Keys(l)] /\ l = [i \in 1 .. Len(l) |-> l[i]]
  BY LenProperties DEF Order!Keys
<1>2. l \in Bijection(1 .. Len(l), Order!Keys(l))
  BY <1>1 DEF Order!NoRepeats, Order!Keys, Bijection, Injection, IsInjective, Surjection
<1>3. ExistsBijection(1 .. Len(l), Order!Keys(l))
  BY <1>2 DEF ExistsBijection
<1>4. Cardinality(Order!Keys(l)) = Len(l)
  BY <1>1, <1>3, FS_CountingElements
<1>5. ASSUME NEW i \in 1 .. Len(l) PROVE Walk(p.next, D_head)[i] = l[i]
  <2>1. i \in 0 .. Len(l) + 1 /\ At(l, i) = l[i]
    BY <1>1 DEF At
  <2> QED BY <2>1, WalksAgree
<1> QED BY <1>1, <1>4, <1>5

LEMMA BeforeKeys ==
    ASSUME NEW l \in Seq(Frames), NEW g, NEW f, Order!Before(l, g, f)
    PROVE  g \in Frames /\ f \in Frames
  BY DEF Order!Before

LEMMA KeysInFrames ==
    ASSUME NEW l \in Seq(Frames)
    PROVE  Order!Keys(l) \subseteq Frames
  BY DEF Order!Keys

\* get_frame, and put_frame of a key the list has.
LEMMA MoveStep ==
    ASSUME SinceOK, NEW l, ListIs(l), NEW k \in Frames, MoveToFront(k)
    PROVE  /\ SinceOK' /\ ListIs(Order!GetFrame(l, k))'
           /\ frames_map' = frames_map /\ k \in Order!Keys(l)
<1> DEFINE w == Order!Without(l, k)
           r == Order!GetFrame(l, k)
           p == Unlink(Pointers, k)
<1>1. /\ l \in Seq(Frames) /\ Order!NoRepeats(l) /\ Order!Keys(l) = frames_map
      /\ Links(Pointers, l) /\ k \in Order!Keys(l)
      /\ \A g, f : Order!Before(l, g, f) => g \in since[f]
  BY DEF ListIs, MoveToFront
<1>2. /\ w \in Seq(Frames) /\ Order!NoRepeats(w) /\ Order!Keys(w) = Order!Keys(l) \ {k}
      /\ Links(p, w)
  BY <1>1, Order!WithoutKeys, UnlinkLinks
<1>3. r = Order!PushFront(w, k)
  BY <1>1 DEF Order!GetFrame
<1> HIDE DEF w, p
<1>4. Links(LinkFront(p, k), r)
  BY <1>2, <1>3, LinkFrontLinks
<1>5. /\ r \in Seq(Frames) /\ Order!NoRepeats(r) /\ Order!Keys(r) = Order!Keys(l)
      /\ \A g, f : Order!Before(r, g, f) => f # k /\ (g = k \/ Order!Before(l, g, f))
  BY <1>1, Order!GetFrameKeys, Order!GetFrameOrder
<1>6. /\ Pointers' = LinkFront(p, k) /\ frames_map' = frames_map
      /\ since' = [j \in Frames |-> IF j = k THEN {} ELSE since[j] \cup {k}]
  BY DEF MoveToFront, SetPointers, Pointers, LinkFront, Used, p
<1> HIDE DEF r
<1>7. SinceOK'
  BY <1>6 DEF SinceOK
<1>8. ASSUME NEW g, NEW f, Order!Before(r, g, f) PROVE g \in since'[f]
  <2>1. f \in Frames /\ f # k
    BY <1>5, <1>8, BeforeKeys
  <2> QED BY <1>1, <1>5, <1>6, <1>8, <2>1
<1>9. ListIs(r)'
  BY <1>1, <1>4, <1>5, <1>6, <1>8 DEF ListIs
<1> QED BY <1>1, <1>6, <1>7, <1>9 DEF r

\* evict_frame.
LEMMA EvictStep ==
    ASSUME SinceOK, NEW l, ListIs(l), EvictFrame
    PROVE  /\ SinceOK' /\ ListIs(Order!DropLast(l))'
           /\ l # <<>> /\ frames_map' = frames_map \ {Order!Victim(l)}
<1> DEFINE v == Order!Victim(l)
           r == Order!DropLast(l)
<1>1. /\ l \in Seq(Frames) /\ Order!NoRepeats(l) /\ Order!Keys(l) = frames_map
      /\ Links(Pointers, l) /\ l # <<>>
      /\ \A g, f : Order!Before(l, g, f) => g \in since[f]
  BY DEF ListIs, EvictFrame, Order!Keys
<1>2. prev[D_tail] = v /\ v \in Order!Keys(l) /\ Order!Without(l, v) = r
  BY <1>1, LastLinked DEF Pointers
<1>3. /\ r \in Seq(Frames) /\ Order!NoRepeats(r) /\ Order!Keys(r) = Order!Keys(l) \ {v}
      /\ \A g, f : Order!Before(r, g, f) => Order!Before(l, g, f)
  BY <1>1, Order!DropLastKeys, Order!DropLastOrder
<1>4. v \in Frames \ Order!Keys(r)
  BY <1>1, <1>2, <1>3, KeysInFrames
<1> HIDE DEF v, r
<1>5. Links(Free(Unlink(Pointers, v), v), r)
  BY <1>1, <1>2, <1>3, <1>4, UnlinkLinks, FreeLinks
<1>6. /\ Pointers' = Free(Unlink(Pointers, v), v) /\ frames_map' = frames_map \ {v}
      /\ since' = since
  BY <1>2 DEF EvictFrame, SetPointers, Pointers, Free
<1> QED BY <1>1, <1>3, <1>5, <1>6 DEF ListIs, SinceOK, v, r

\* remove_frame.
LEMMA RemoveStep ==
    ASSUME SinceOK, NEW l, ListIs(l), NEW k \in Frames, RemoveFrame(k)
    PROVE  SinceOK' /\ ListIs(Order!RemoveFrame(l, k))' /\ k \in Order!Keys(l)
<1> DEFINE r == Order!RemoveFrame(l, k)
<1>1. /\ l \in Seq(Frames) /\ Order!NoRepeats(l) /\ Order!Keys(l) = frames_map
      /\ Links(Pointers, l) /\ k \in Order!Keys(l)
      /\ \A g, f : Order!Before(l, g, f) => g \in since[f]
  BY DEF ListIs, RemoveFrame
<1>2. /\ r \in Seq(Frames) /\ Order!NoRepeats(r) /\ Order!Keys(r) = Order!Keys(l) \ {k}
      /\ \A g, f : Order!Before(r, g, f) => Order!Before(l, g, f)
      /\ Links(Unlink(Pointers, k), r)
  BY <1>1, Order!WithoutKeys, Order!WithoutOrder, UnlinkLinks DEF Order!RemoveFrame
<1>3. Links(Free(Unlink(Pointers, k), k), r)
  BY <1>2, FreeLinks
<1> HIDE DEF r
<1>4. /\ Pointers' = Free(Unlink(Pointers, k), k) /\ frames_map' = frames_map \ {k}
      /\ since' = since
  BY DEF RemoveFrame, SetPointers, Pointers, Free
<1> QED BY <1>1, <1>2, <1>3, <1>4 DEF ListIs, SinceOK, r

\* put_frame of a key the list lacks: a full list loses its last key first.
LEMMA PutStep ==
    ASSUME SinceOK, NEW l, ListIs(l), NEW k \in Frames, PutNew(k)
    PROVE  /\ SinceOK' /\ ListIs(Order!PutFrame(l, k, Capacity))'
           /\ frames_map \ frames_map' # {} =>
                  l # <<>> /\ frames_map \ frames_map' = {Order!Victim(l)}
<1> DEFINE v == Order!Victim(l)
           d == IF Full THEN Order!DropLast(l) ELSE l
           p == IF Full THEN Free(Unlink(Pointers, v), v) ELSE Pointers
           r == Order!PutFrame(l, k, Capacity)
<1>1. /\ l \in Seq(Frames) /\ Order!NoRepeats(l) /\ Order!Keys(l) = frames_map
      /\ Links(Pointers, l) /\ k \notin Order!Keys(l)
      /\ \A g, f : Order!Before(l, g, f) => g \in since[f]
  BY DEF ListIs, PutNew
<1>2. Full <=> Len(l) = Capacity
  BY <1>1, OrderKnown DEF Full
<1>3. Full => l # <<>> /\ prev[D_tail] = v
  BY <1>1, <1>2, LRUConstants, LastLinked DEF Pointers
<1>4. /\ d \in Seq(Frames) /\ Order!NoRepeats(d) /\ k \notin Order!Keys(d)
      /\ Order!Keys(d) = (IF Full THEN frames_map \ {v} ELSE frames_map)
      /\ \A g, f : Order!Before(d, g, f) => Order!Before(l, g, f)
      /\ Links(p, d)
  <2>1. CASE Full
    <3> DEFINE t == Order!DropLast(l)
    <3>1. /\ t \in Seq(Frames) /\ Order!NoRepeats(t)
          /\ Order!Keys(t) = Order!Keys(l) \ {v} /\ v \in Order!Keys(l)
          /\ \A g, f : Order!Before(t, g, f) => Order!Before(l, g, f)
          /\ Order!Without(l, v) = t
      BY <1>1, <1>3, <2>1, Order!DropLastKeys, Order!DropLastOrder, LastLinked
    <3>2. v \in Frames \ Order!Keys(t)
      BY <1>1, <3>1, KeysInFrames
    <3> HIDE DEF t, v
    <3>3. Links(Free(Unlink(Pointers, v), v), t)
      BY <1>1, <3>1, <3>2, UnlinkLinks, FreeLinks
    <3> QED BY <1>1, <2>1, <3>1, <3>3 DEF t
  <2>2. CASE ~Full
    BY <1>1, <2>2
  <2> QED BY <2>1, <2>2
<1>5. r = Order!PushFront(d, k)
  BY <1>1, <1>2 DEF Order!PutFrame
<1>6. /\ Pointers' = LinkFront(p, k)
      /\ frames_map' = (IF Full THEN frames_map \ {v} ELSE frames_map) \cup {k}
      /\ since' = [j \in Frames |-> IF j = k THEN {} ELSE since[j] \cup {k}]
  BY <1>3 DEF PutNew, SetPointers, Pointers, LinkFront, Used
<1> HIDE DEF d, p, r, v
<1>7. /\ r \in Seq(Frames) /\ Order!NoRepeats(r) /\ Order!Keys(r) = Order!Keys(d) \cup {k}
      /\ Links(LinkFront(p, k), r)
  BY <1>4, <1>5, Order!PushFrontKeys, LinkFrontLinks
<1>8. \A g, f : Order!Before(r, g, f) => f # k /\ (g = k \/ Order!Before(d, g, f))
  BY <1>4, <1>5, Order!PushFrontOrder
<1>9. SinceOK'
  BY <1>6 DEF SinceOK
<1>10. ASSUME NEW g, NEW f, Order!Before(r, g, f) PROVE g \in since'[f]
  <2>1. f \in Frames /\ f # k
    BY <1>7, <1>8, <1>10, BeforeKeys
  <2> QED BY <1>1, <1>4, <1>6, <1>8, <1>10, <2>1
<1>11. ListIs(r)'
  BY <1>4, <1>6, <1>7, <1>10 DEF ListIs
<1>12. frames_map \ frames_map' # {} => l # <<>> /\ frames_map \ frames_map' = {v}
  BY <1>1, <1>3, <1>6
<1> QED BY <1>9, <1>11, <1>12 DEF r, v

LEMMA InitList ==
    ASSUME Init
    PROVE  SinceOK /\ ListIs(<<>>)
<1>1. SinceOK
  BY DEF Init, SinceOK
<1>2. Links(Pointers, <<>>)
  <2>1. Pointers \in [next : [Nodes -> Nodes \cup {Null}], prev : [Nodes -> Nodes \cup {Null}]]
    BY DEF Init, Pointers, Nodes
  <2>2. Pointers.next[D_head] = D_tail /\ Pointers.prev[D_tail] = D_head
    BY DEF Init, Pointers, Nodes
  <2>3. At(<<>>, 0) = D_head /\ At(<<>>, 0 + 1) = D_tail
    BY DEF At
  <2>4. \A i \in 0 .. Len(<<>>) : i = 0
    OBVIOUS
  <2> QED BY <2>1, <2>2, <2>3, <2>4 DEF Links
<1>3. Order!Keys(<<>>) = frames_map /\ Order!NoRepeats(<<>>)
      /\ \A g, f : ~ Order!Before(<<>>, g, f)
  BY DEF Init, Order!Keys, Order!NoRepeats, Order!Before
<1> QED BY <1>1, <1>2, <1>3 DEF ListIs

LEMMA NextKeepsInv == LInv /\ [Next]_vars => LInv'
<1> SUFFICES ASSUME LInv, [Next]_vars PROVE LInv'
  OBVIOUS
<1>1. PICK l : ListIs(l)
  BY DEF LInv
<1>2. SinceOK
  BY DEF LInv
<1>3. CASE EvictFrame
  BY <1>1, <1>2, <1>3, EvictStep DEF LInv
<1>4. ASSUME NEW k \in Frames, GetFrame(k) \/ PutAgain(k) PROVE LInv'
  BY <1>1, <1>2, <1>4, MoveStep DEF LInv, GetFrame, PutAgain
<1>5. ASSUME NEW k \in Frames, PutNew(k) PROVE LInv'
  BY <1>1, <1>2, <1>5, PutStep DEF LInv
<1>6. ASSUME NEW k \in Frames, RemoveFrame(k) PROVE LInv'
  BY <1>1, <1>2, <1>6, RemoveStep DEF LInv
<1>7. CASE UNCHANGED vars
  <2>1. ListIs(l)'
    BY <1>1, <1>7 DEF vars, ListIs, Pointers
  <2> QED BY <1>2, <1>7, <2>1 DEF LInv, SinceOK, vars
<1> QED BY <1>3, <1>4, <1>5, <1>6, <1>7 DEF Next

\* The order that is read off the nodes is the list.
LEMMA ListRead ==
    ASSUME NEW l \in Seq(Frames), Order!NoRepeats(l), NEW nx, NEW pv,
           Links([next |-> nx, prev |-> pv], l)
    PROVE  /\ Cardinality(Order!Keys(l)) = Len(l)
           /\ l = [i \in 1 .. Len(l) |-> Walk(nx, D_head)[i]]
           /\ \A i \in 0 .. Len(l) + 1 : /\ Walk(nx, D_head)[i] = At(l, i)
                                         /\ Walk(pv, D_tail)[i] = At(l, Len(l) + 1 - i)
<1> DEFINE p == [next |-> nx, prev |-> pv]
<1>1. p.next = nx /\ p.prev = pv /\ Links(p, l)
  OBVIOUS
<1> HIDE DEF p
<1> QED BY <1>1, OrderKnown, WalksAgree

-----------------------------------------------------------------------------
(* The theorems. *)

\* The inductive invariant: there is a list of keys that the pointers link both
\* ways, that the map holds, and whose order is the order of use.
THEOREM ListInvariantHolds == Spec => []LInv
<1>1. Init => LInv
  BY InitList DEF LInv
<1> QED BY <1>1, NextKeepsInv, PTL DEF Spec

\* Walking forward visits the mapped keys and ends at the tail, walking back
\* visits the same nodes in reverse.
THEOREM StaysWellLinked == Spec => []WellLinked
<1>1. LInv => WellLinked
  <2> SUFFICES ASSUME NEW l, ListIs(l) PROVE WellLinked
    BY DEF LInv
  <2>1. /\ l \in Seq(Frames) /\ Order!NoRepeats(l) /\ Order!Keys(l) = frames_map
        /\ Links([next |-> next, prev |-> prev], l) /\ Len(l) \in Nat
    BY DEF ListIs, Pointers
  <2>2. /\ Size = Len(l)
        /\ l = [i \in 1 .. Size |-> Hop[i]]
        /\ \A i \in 0 .. Size + 1 : Hop[i] = At(l, i) /\ HopBack[i] = At(l, Size + 1 - i)
    BY <2>1, ListRead, HopIsWalk DEF Size
  <2>3. {Hop[i] : i \in 1 .. Size} = frames_map
    BY <2>1, <2>2 DEF Order!Keys
  <2>4. ASSUME NEW i \in 0 .. Size + 1 PROVE Hop[i] = HopBack[Size + 1 - i]
    <3>1. Size + 1 - i \in 0 .. Size + 1 /\ Size + 1 - (Size + 1 - i) = i
      BY <2>1, <2>2
    <3> QED BY <2>2, <3>1
  <2> QED BY <2>3, <2>4 DEF WellLinked
<1> QED BY <1>1, ListInvariantHolds, PTL

\* A key that leaves the list to make room is the one that all others were used
\* after.
THEOREM EvictionIsLeastRecent == Spec => EvictsLeastRecent
<1>1. LInv /\ [Next]_vars =>
          [EvictFrame \/ (\E k \in Frames : PutNew(k)) =>
               \A v \in frames_map \ frames_map' :
                   frames_map \ {v} \subseteq since[v]]_vars
  <2> SUFFICES ASSUME SinceOK, NEW l, ListIs(l),
                      EvictFrame \/ (\E k \in Frames : PutNew(k)),
                      NEW v \in frames_map \ frames_map',
                      NEW g \in frames_map, g # v
               PROVE  g \in since[v]
    BY DEF LInv
  <2>1. v = Order!Victim(l)
    <3>1. CASE EvictFrame
      BY <3>1, EvictStep
    <3>2. ASSUME NEW k \in Frames, PutNew(k) PROVE v = Order!Victim(l)
      BY <3>2, PutStep
    <3> QED BY <3>1, <3>2
  <2>2. Order!Before(l, g, v)
    BY <2>1, Order!VictimIsLast DEF ListIs
  <2> QED BY <2>2 DEF ListIs
<1> QED BY <1>1, ListInvariantHolds, PTL DEF Spec, EvictsLeastRecent

LEMMA OrderRead ==
    ASSUME NEW l, ListIs(l)
    PROVE  [i \in 1 .. Size |-> Hop[i]] = l
<1>1. /\ l \in Seq(Frames) /\ Order!NoRepeats(l) /\ Order!Keys(l) = frames_map
      /\ Links([next |-> next, prev |-> prev], l)
  BY DEF ListIs, Pointers
<1>2. Size = Len(l) /\ l = [i \in 1 .. Size |-> Hop[i]]
  BY <1>1, ListRead, HopIsWalk DEF Size
<1> QED BY <1>2

LEMMA OrderReadNext ==
    ASSUME NEW l, ListIs(l)'
    PROVE  [i \in 1 .. Size |-> Hop[i]]' = l
<1>1. /\ l \in Seq(Frames) /\ Order!NoRepeats(l) /\ Order!Keys(l) = frames_map'
      /\ Links([next |-> next', prev |-> prev'], l)
  BY DEF ListIs, Pointers
<1>2. Hop' = Walk(next', D_head)
  BY DEF Hop, Walk
<1>3. Size' = Len(l) /\ l = [i \in 1 .. Len(l) |-> Hop'[i]]
  BY <1>1, <1>2, ListRead DEF Size
<1> QED BY <1>3

\* The linked list implements the recency order.
THEOREM RecencyImplemented == Spec => ImplementsRecency
<1>1. Init => Recency!Init
  <2> SUFFICES ASSUME Init PROVE Recency!Init
    OBVIOUS
  <2>1. [i \in 1 .. Size |-> Hop[i]] = <<>>
    BY InitList, OrderRead
  <2> QED BY <2>1 DEF Recency!Init
<1>2. LInv /\ [Next]_vars => [Recency!Next]_([i \in 1 .. Size |-> Hop[i]])
  <2> DEFINE o == [i \in 1 .. Size |-> Hop[i]]
  <2> SUFFICES ASSUME SinceOK, NEW l, ListIs(l), [Next]_vars
               PROVE  Recency!Next \/ o' = o
    BY DEF LInv
  <2>1. o = l
    BY OrderRead
  <2>2. CASE EvictFrame
    <3>1. o' = Order!DropLast(l) /\ l # <<>>
      BY <2>2, EvictStep, OrderReadNext
    <3>2. Recency!Evict
      BY <2>1, <3>1, SameOrder DEF Recency!Evict
    <3> QED BY <3>2 DEF Recency!Next
  <2>3. ASSUME NEW k \in Frames, GetFrame(k) \/ PutAgain(k) PROVE Recency!Next
    <3>1. o' = Order!GetFrame(l, k)
      BY <2>3, MoveStep, OrderReadNext DEF GetFrame, PutAgain
    <3>2. Recency!Get(k)
      BY <2>1, <3>1, SameOrder DEF Recency!Get
    <3> QED BY <3>2 DEF Recency!Next
  <2>4. ASSUME NEW k \in Frames, PutNew(k) PROVE Recency!Next
    <3>1. o' = Order!PutFrame(l, k, Capacity)
      BY <2>4, PutStep, OrderReadNext
    <3>2. Recency!PutNew(k)
      BY <2>1, <3>1, SameOrder DEF Recency!PutNew
    <3> QED BY <3>2 DEF Recency!Next
  <2>5. ASSUME NEW k \in Frames, RemoveFrame(k) PROVE Recency!Next
    <3>1. o' = Order!RemoveFrame(l, k) /\ k \in Order!Keys(l)
      BY <2>5, RemoveStep, OrderReadNext
    <3>2. Recency!Remove(k)
      BY <2>1, <3>1, SameOrder DEF Recency!Remove
    <3> QED BY <3>2 DEF Recency!Next
  <2>6. CASE UNCHANGED vars
    BY <2>6 DEF vars, Size, Hop
  <2> QED BY <2>2, <2>3, <2>4, <2>5, <2>6 DEF Next
<1> QED BY <1>1, <1>2, ListInvariantHolds, PTL DEF Spec, ImplementsRecency, Recency!Spec
=============================================================================
