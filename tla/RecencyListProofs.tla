------------------------- MODULE RecencyListProofs -------------------------
(***************************************************************************)
(* What the operators of RecencyList do to the set of keys and to their    *)
(* order, proved for every list without repetitions, and the bound on such *)
(* a list's length.                                                        *)
(***************************************************************************)
EXTENDS RecencyList, FiniteSetTheorems, SequenceTheorems, TLAPS

\* A function on an initial segment of the naturals is a sequence of that length.
LEMMA FunctionIsSeq ==
    ASSUME NEW S, NEW n \in Nat, NEW f \in [1 .. n -> S]
    PROVE  f \in Seq(S) /\ Len(f) = n
  OBVIOUS

\* PushFront adds its key in front and moves the others back by one.
LEMMA PushFrontKeys ==
    ASSUME NEW S, NEW l \in Seq(S), NEW k \in S, NoRepeats(l), k \notin Keys(l)
    PROVE  /\ PushFront(l, k) \in Seq(S)
           /\ Len(PushFront(l, k)) = Len(l) + 1
           /\ Keys(PushFront(l, k)) = Keys(l) \cup {k}
           /\ NoRepeats(PushFront(l, k))
<1> DEFINE r == PushFront(l, k)
<1>1. Len(l) \in Nat /\ \A i \in 1 .. Len(l) : l[i] \in S
  OBVIOUS
<1>2. r \in [1 .. Len(l) + 1 -> S]
  BY <1>1 DEF PushFront
<1>3. r \in Seq(S) /\ Len(r) = Len(l) + 1
  BY <1>1, <1>2, FunctionIsSeq
<1>4. r[1] = k /\ \A i \in 1 .. Len(l) : r[i + 1] = l[i]
  BY <1>1 DEF PushFront
<1>5. \A i \in 2 .. Len(l) + 1 : r[i] = l[i - 1] /\ i - 1 \in 1 .. Len(l)
  BY <1>1 DEF PushFront
<1> HIDE DEF r
<1>6. Keys(r) = Keys(l) \cup {k}
  <2>1. Keys(r) \subseteq Keys(l) \cup {k}
    <3> SUFFICES ASSUME NEW i \in 1 .. Len(l) + 1, i # 1
                 PROVE  r[i] \in Keys(l)
      BY <1>3, <1>4 DEF Keys
    <3>1. i \in 2 .. Len(l) + 1
      BY <1>1
    <3> QED BY <3>1, <1>5 DEF Keys
  <2>2. Keys(l) \cup {k} \subseteq Keys(r)
    <3>1. k \in Keys(r)
      BY <1>1, <1>3, <1>4 DEF Keys
    <3>2. \A i \in 1 .. Len(l) : l[i] \in Keys(r)
      BY <1>1, <1>3, <1>4 DEF Keys
    <3> QED BY <3>1, <3>2 DEF Keys
  <2> QED BY <2>1, <2>2
<1>7. NoRepeats(r)
  <2> SUFFICES ASSUME NEW i \in 1 .. Len(l) + 1, NEW j \in 1 .. Len(l) + 1,
                      r[i] = r[j]
               PROVE  i = j
    BY <1>3 DEF NoRepeats
  <2>1. CASE i = 1 /\ j = 1
    BY <2>1
  <2>2. CASE i = 1 /\ j # 1
    BY <2>2, <1>1, <1>4, <1>5 DEF Keys
  <2>3. CASE i # 1 /\ j = 1
    BY <2>3, <1>1, <1>4, <1>5 DEF Keys
  <2>4. CASE i # 1 /\ j # 1
    BY <2>4, <1>1, <1>5 DEF NoRepeats
  <2> QED BY <2>1, <2>2, <2>3, <2>4
<1> QED BY <1>3, <1>6, <1>7 DEF r

\* Without takes exactly its key out.
LEMMA WithoutKeys ==
    ASSUME NEW S, NEW l \in Seq(S), NEW k \in Keys(l), NoRepeats(l)
    PROVE  /\ Without(l, k) \in Seq(S)
           /\ Len(Without(l, k)) = Len(l) - 1
           /\ Keys(Without(l, k)) = Keys(l) \ {k}
           /\ NoRepeats(Without(l, k))
<1> DEFINE r == Without(l, k)
           p == CHOOSE i \in 1 .. Len(l) : l[i] = k
<1>1. Len(l) \in Nat /\ \A i \in 1 .. Len(l) : l[i] \in S
  OBVIOUS
<1>2. p \in 1 .. Len(l) /\ l[p] = k
  BY DEF Keys
<1>3. r = [i \in 1 .. Len(l) - 1 |-> IF i < p THEN l[i] ELSE l[i + 1]]
  BY DEF Without
<1> HIDE DEF p, r
<1>4. r \in [1 .. Len(l) - 1 -> S]
  BY <1>1, <1>2, <1>3
<1>5. Len(l) - 1 \in Nat
  BY <1>1, <1>2
<1>6. r \in Seq(S) /\ Len(r) = Len(l) - 1
  BY <1>4, <1>5, FunctionIsSeq
<1>7. \A i \in 1 .. Len(r) : r[i] = IF i < p THEN l[i] ELSE l[i + 1]
  BY <1>3, <1>6
<1>8. Keys(r) = Keys(l) \ {k}
  <2>1. Keys(r) \subseteq Keys(l) \ {k}
    <3> SUFFICES ASSUME NEW i \in 1 .. Len(r)
                 PROVE  r[i] \in Keys(l) /\ r[i] # k
      BY DEF Keys
    <3>1. CASE i < p
      BY <3>1, <1>1, <1>2, <1>6, <1>7 DEF Keys, NoRepeats
    <3>2. CASE ~(i < p)
      BY <3>2, <1>1, <1>2, <1>6, <1>7 DEF Keys, NoRepeats
    <3> QED BY <3>1, <3>2
  <2>2. Keys(l) \ {k} \subseteq Keys(r)
    <3> SUFFICES ASSUME NEW j \in 1 .. Len(l), l[j] # k
                 PROVE  \E i \in 1 .. Len(r) : r[i] = l[j]
      BY DEF Keys
    <3>1. CASE j < p
      <4>1. j \in 1 .. Len(r) /\ r[j] = l[j]
        BY <3>1, <1>1, <1>2, <1>6, <1>7
      <4> QED BY <4>1
    <3>2. CASE j > p
      <4>1. j - 1 \in 1 .. Len(r) /\ r[j - 1] = l[j]
        BY <3>2, <1>1, <1>2, <1>6, <1>7
      <4> QED BY <4>1
    <3> QED BY <3>1, <3>2, <1>1, <1>2
  <2> QED BY <2>1, <2>2
<1>9. NoRepeats(r)
  <2> SUFFICES ASSUME NEW i \in 1 .. Len(r), NEW j \in 1 .. Len(r), r[i] = r[j]
               PROVE  i = j
    BY DEF NoRepeats
  <2> DEFINE at(m) == IF m < p THEN m ELSE m + 1
  <2>1. \A m \in 1 .. Len(r) : at(m) \in 1 .. Len(l) /\ r[m] = l[at(m)]
    BY <1>1, <1>2, <1>6, <1>7
  <2>2. at(i) = at(j)
    BY <2>1 DEF NoRepeats
  <2> QED BY <2>2, <1>1, <1>2, <1>6
<1> QED BY <1>6, <1>8, <1>9 DEF r

\* Dropping the last key of a list takes exactly the victim out.
LEMMA DropLastKeys ==
    ASSUME NEW S, NEW l \in Seq(S), l # <<>>, NoRepeats(l)
    PROVE  /\ DropLast(l) \in Seq(S)
           /\ Len(DropLast(l)) = Len(l) - 1
           /\ Victim(l) \in Keys(l)
           /\ Keys(DropLast(l)) = Keys(l) \ {Victim(l)}
           /\ NoRepeats(DropLast(l))
<1> DEFINE r == DropLast(l)
<1>1. Len(l) \in Nat \ {0} /\ \A i \in 1 .. Len(l) : l[i] \in S
  BY EmptySeq
<1>2. r \in [1 .. Len(l) - 1 -> S] /\ Len(l) - 1 \in Nat
  BY <1>1 DEF DropLast
<1>3. r \in Seq(S) /\ Len(r) = Len(l) - 1
  BY <1>2, FunctionIsSeq
<1>4. \A i \in 1 .. Len(r) : r[i] = l[i]
  BY <1>3 DEF DropLast
<1> HIDE DEF r
<1>5. Victim(l) \in Keys(l)
  BY <1>1 DEF Victim, Keys
<1>6. Keys(r) = Keys(l) \ {Victim(l)}
  <2>1. Keys(r) \subseteq Keys(l) \ {Victim(l)}
    BY <1>1, <1>3, <1>4 DEF Keys, Victim, NoRepeats
  <2>2. \A j \in 1 .. Len(l) : l[j] # Victim(l) => j \in 1 .. Len(r)
    BY <1>1, <1>3 DEF Victim
  <2>3. Keys(l) \ {Victim(l)} \subseteq Keys(r)
    BY <2>2, <1>4 DEF Keys
  <2> QED BY <2>1, <2>3
<1>7. NoRepeats(r)
  BY <1>1, <1>3, <1>4 DEF NoRepeats
<1> QED BY <1>3, <1>5, <1>6, <1>7 DEF r

\* A list without repetitions is no longer than the set it draws from.
LEMMA LengthBound ==
    ASSUME NEW S, NEW l \in Seq(S), NoRepeats(l), IsFiniteSet(S)
    PROVE  /\ Len(l) <= Cardinality(S)
           /\ \A f \in S \ Keys(l) : Len(l) < Cardinality(S)
<1>1. Len(l) \in Nat /\ l \in [1 .. Len(l) -> Keys(l)]
  BY LenProperties DEF Keys
<1>2. Keys(l) \subseteq S
  BY DEF Keys
<1>3. l \in Injection(1 .. Len(l), Keys(l))
  BY <1>1 DEF Injection, IsInjective, NoRepeats
<1>4. IsFiniteSet(Keys(l)) /\ Cardinality(Keys(l)) <= Cardinality(S)
  BY <1>2, FS_Subset
<1>5. Cardinality(1 .. Len(l)) = Len(l)
  BY <1>1, FS_Interval
<1>6. Len(l) <= Cardinality(Keys(l))
  BY <1>3, <1>4, <1>5, FS_Injection
<1>7. Cardinality(Keys(l)) \in Nat /\ Cardinality(S) \in Nat
  BY <1>4, FS_CardinalityType
<1>8. ASSUME NEW f \in S \ Keys(l) PROVE Cardinality(Keys(l)) # Cardinality(S)
  BY <1>2, FS_Subset
<1> QED BY <1>1, <1>4, <1>6, <1>7, <1>8

\* get_frame changes the order of the keys only.
LEMMA GetFrameKeys ==
    ASSUME NEW S, NEW l \in Seq(S), NEW k, NoRepeats(l)
    PROVE  /\ GetFrame(l, k) \in Seq(S)
           /\ Keys(GetFrame(l, k)) = Keys(l)
           /\ NoRepeats(GetFrame(l, k))
<1>1. CASE k \notin Keys(l)
  BY <1>1 DEF GetFrame
<1>2. CASE k \in Keys(l)
  <2>1. k \in S
    BY <1>2 DEF Keys
  <2>2. k \notin Keys(Without(l, k))
    BY <1>2, WithoutKeys
  <2>3. /\ Without(l, k) \in Seq(S) /\ NoRepeats(Without(l, k))
        /\ Keys(Without(l, k)) = Keys(l) \ {k}
    BY <1>2, WithoutKeys
  <2>4. GetFrame(l, k) = PushFront(Without(l, k), k)
    BY <1>2 DEF GetFrame
  <2> DEFINE w == Without(l, k)
  <2> HIDE DEF w
  <2>5. /\ PushFront(w, k) \in Seq(S)
        /\ Keys(PushFront(w, k)) = Keys(w) \cup {k}
        /\ NoRepeats(PushFront(w, k))
    BY <2>1, <2>2, <2>3, PushFrontKeys DEF w
  <2>6. Keys(w) \cup {k} = Keys(l)
    BY <1>2, <2>3 DEF w
  <2> QED BY <2>4, <2>5, <2>6 DEF w
<1> QED BY <1>1, <1>2

\* put_frame of a key the list lacks adds it; as long as the capacity is the
\* number of possible keys, no key is dropped for it.
LEMMA PutFrameKeys ==
    ASSUME NEW S, IsFiniteSet(S), NEW l \in Seq(S), NoRepeats(l),
           NEW k \in S \ Keys(l)
    PROVE  /\ PutFrame(l, k, Cardinality(S)) \in Seq(S)
           /\ Keys(PutFrame(l, k, Cardinality(S))) = Keys(l) \cup {k}
           /\ NoRepeats(PutFrame(l, k, Cardinality(S)))
<1>1. Len(l) # Cardinality(S)
  <2>1. Len(l) < Cardinality(S) /\ Len(l) \in Nat
    BY LengthBound
  <2>2. Cardinality(S) \in Nat
    BY FS_CardinalityType
  <2> QED BY <2>1, <2>2
<1>2. PutFrame(l, k, Cardinality(S)) = PushFront(l, k)
  BY <1>1 DEF PutFrame
<1> QED BY <1>2, PushFrontKeys
-----------------------------------------------------------------------------
(* The order of the keys. *)

\* Key g was used after key f: it stands in front of it.
Before(l, g, f) == \E i, j \in 1 .. Len(l) : i < j /\ l[i] = g /\ l[j] = f

\* The key that is pushed comes first, the others keep their order.
LEMMA PushFrontOrder ==
    ASSUME NEW S, NEW l \in Seq(S), NEW k \in S, k \notin Keys(l), NoRepeats(l),
           NEW g, NEW f, Before(PushFront(l, k), g, f)
    PROVE  f # k /\ (g = k \/ Before(l, g, f))
<1> DEFINE r == PushFront(l, k)
<1>1. Len(l) \in Nat /\ r \in Seq(S) /\ Len(r) = Len(l) + 1 /\ NoRepeats(r)
  BY PushFrontKeys
<1>2. r[1] = k /\ \A i \in 2 .. Len(l) + 1 : r[i] = l[i - 1]
  BY <1>1 DEF PushFront
<1> HIDE DEF r
<1>3. PICK i, j \in 1 .. Len(l) + 1 : i < j /\ r[i] = g /\ r[j] = f
  BY <1>1 DEF Before, r
<1>4. j \in 2 .. Len(l) + 1 /\ j - 1 \in 1 .. Len(l) /\ f = l[j - 1]
  BY <1>1, <1>2, <1>3
<1>5. f # k
  BY <1>4 DEF Keys
<1>6. CASE i = 1
  BY <1>2, <1>3, <1>5, <1>6
<1>7. CASE i # 1
  <2>1. i - 1 \in 1 .. Len(l) /\ g = l[i - 1] /\ i - 1 < j - 1
    BY <1>1, <1>2, <1>3, <1>4, <1>7
  <2> QED BY <1>4, <1>5, <2>1 DEF Before
<1> QED BY <1>6, <1>7

\* Taking a key out keeps the order of the others.
LEMMA WithoutOrder ==
    ASSUME NEW S, NEW l \in Seq(S), NEW k \in Keys(l), NoRepeats(l),
           NEW g, NEW f, Before(Without(l, k), g, f)
    PROVE  Before(l, g, f)
<1> DEFINE r == Without(l, k)
           p == CHOOSE i \in 1 .. Len(l) : l[i] = k
           at(m) == IF m < p THEN m ELSE m + 1
<1>1. Len(l) \in Nat /\ r \in Seq(S) /\ Len(r) = Len(l) - 1
  BY WithoutKeys
<1>2. p \in 1 .. Len(l)
  BY DEF Keys
<1>3. r = [i \in 1 .. Len(l) - 1 |-> IF i < p THEN l[i] ELSE l[i + 1]]
  BY DEF Without
<1> HIDE DEF p, r
<1>4. \A m \in 1 .. Len(r) : at(m) \in 1 .. Len(l) /\ r[m] = l[at(m)]
  BY <1>1, <1>2, <1>3
<1>5. PICK i, j \in 1 .. Len(r) : i < j /\ r[i] = g /\ r[j] = f
  BY DEF Before, r
<1>6. at(i) < at(j)
  BY <1>1, <1>2, <1>5
<1> QED BY <1>4, <1>5, <1>6 DEF Before

LEMMA DropLastOrder ==
    ASSUME NEW S, NEW l \in Seq(S), l # <<>>, NoRepeats(l),
           NEW g, NEW f, Before(DropLast(l), g, f)
    PROVE  Before(l, g, f)
<1>1. Len(l) \in Nat /\ Len(DropLast(l)) = Len(l) - 1
  BY DropLastKeys
<1>2. \A i \in 1 .. Len(l) - 1 : DropLast(l)[i] = l[i] /\ i \in 1 .. Len(l)
  BY <1>1 DEF DropLast
<1> QED BY <1>1, <1>2 DEF Before

\* All other keys come before the last one.
LEMMA VictimIsLast ==
    ASSUME NEW S, NEW l \in Seq(S), NEW g \in Keys(l), g # Victim(l)
    PROVE  Before(l, g, Victim(l))
<1>1. PICK i \in 1 .. Len(l) : l[i] = g
  BY DEF Keys
<1>2. Len(l) \in 1 .. Len(l) /\ i < Len(l)
  BY <1>1 DEF Victim
<1> QED BY <1>1, <1>2 DEF Before, Victim

\* After get_frame, its key comes first, and the others are in their order.
LEMMA GetFrameOrder ==
    ASSUME NEW S, NEW l \in Seq(S), NEW k \in Keys(l), NoRepeats(l),
           NEW g, NEW f, Before(GetFrame(l, k), g, f)
    PROVE  f # k /\ (g = k \/ Before(l, g, f))
<1>1. /\ Without(l, k) \in Seq(S) /\ NoRepeats(Without(l, k))
      /\ Keys(Without(l, k)) = Keys(l) \ {k}
  BY WithoutKeys
<1>2. GetFrame(l, k) = PushFront(Without(l, k), k) /\ k \in S
  BY DEF GetFrame, Keys
<1> DEFINE w == Without(l, k)
<1> HIDE DEF w
<1>3. f # k /\ (g = k \/ Before(w, g, f))
  BY <1>1, <1>2, PushFrontOrder DEF w
<1> QED BY <1>3, WithoutOrder DEF w

\* So it is after put_frame of a new key that finds room.
LEMMA PutFrameOrder ==
    ASSUME NEW S, IsFiniteSet(S), NEW l \in Seq(S), NoRepeats(l),
           NEW k \in S \ Keys(l),
           NEW g, NEW f, Before(PutFrame(l, k, Cardinality(S)), g, f)
    PROVE  f # k /\ (g = k \/ Before(l, g, f))
<1>1. Len(l) # Cardinality(S)
  <2>1. Len(l) < Cardinality(S) /\ Len(l) \in Nat
    BY LengthBound
  <2>2. Cardinality(S) \in Nat
    BY FS_CardinalityType
  <2> QED BY <2>1, <2>2
<1>2. PutFrame(l, k, Cardinality(S)) = PushFront(l, k)
  BY <1>1 DEF PutFrame
<1> QED BY <1>2, PushFrontOrder
=============================================================================
