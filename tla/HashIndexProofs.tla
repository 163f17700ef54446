-------------------------- MODULE HashIndexProofs --------------------------
(***************************************************************************)
(* The chains, the count and the pages of the static hash index stay sound *)
(* for every set of keys, every size of the table and of its pages, and    *)
(* every number of calls and restarts.                                     *)
(*                                                                         *)
(* What the code walks is a recursive function here.  Each of them gets a  *)
(* lemma that it exists, by induction over the naturals, and one that says *)
(* what it returns.                                                        *)
(***************************************************************************)
EXTENDS StaticHashIndex, FiniteSetTheorems, SequenceTheorems, WellFoundedInduction, TLAPS

EntrySet == [key : Nat, rid : Nat]
Chains == Seq(EntrySet)
Tuples == [key : Keys, live : BOOLEAN]

\* Induction over the naturals, for a set.
LEMMA SetInduction ==
    ASSUME NEW S, 0 \in S, \A n \in Nat : n \in S => n + 1 \in S
    PROVE  \A n \in Nat : n \in S
<1> DEFINE R == {ss \in Nat \X Nat : ss[1] < ss[2]}
           T == Nat \ S
<1>1. IsWellFoundedOn(R, Nat)
  BY NatLessThanWellFounded DEF OpToRel
<1> SUFFICES ASSUME T # {} PROVE FALSE
  OBVIOUS
<1>2. PICK x \in T : \A y \in T : ~ (<<y, x>> \in R)
  <2>1. T \subseteq Nat
    OBVIOUS
  <2> HIDE DEF R, T
  <2> QED BY <1>1, <2>1, WFMin
<1>3. x # 0 /\ x - 1 \in Nat
  OBVIOUS
<1>4. <<x - 1, x>> \in R
  BY <1>3
<1>5. x - 1 \notin T
  BY <1>2, <1>4
<1> QED BY <1>3, <1>5

\* A walk of N steps over values of V, and that it exists.
Steps(N, V) == [(1 .. N) \X V -> V]

Walks(N, V, x, step, f) ==
    /\ f \in [0 .. N -> V]
    /\ f[0] = x
    /\ \A n \in 1 .. N : f[n] = step[<<n, f[n - 1]>>]

\* A walk of N steps from x exists.
LEMMA WalkExists ==
    ASSUME NEW N \in Nat, NEW V, NEW x \in V, NEW step \in Steps(N, V)
    PROVE  \E f : Walks(N, V, x, step, f)
<1> DEFINE Walk(m, f) == /\ f \in [0 .. m -> V]
                         /\ f[0] = x
                         /\ \A n \in 1 .. m : f[n] = step[<<n, f[n - 1]>>]
           S == {m \in Nat : m <= N => \E f \in [0 .. m -> V] : Walk(m, f)}
<1>1. 0 \in S
  <2>1. Walk(0, [n \in 0 .. 0 |-> x])
    OBVIOUS
  <2> QED BY <2>1
<1>2. ASSUME NEW m \in Nat, m \in S PROVE m + 1 \in S
  <2> SUFFICES ASSUME m + 1 <= N PROVE \E f \in [0 .. m + 1 -> V] : Walk(m + 1, f)
    OBVIOUS
  <2>1. PICK f \in [0 .. m -> V] : Walk(m, f)
    BY <1>2
  <2> DEFINE v == step[<<m + 1, f[m]>>]
             g == [n \in 0 .. m + 1 |-> IF n = m + 1 THEN v ELSE f[n]]
  <2>2. v \in V
    <3>1. m + 1 \in 1 .. N /\ f[m] \in V
      OBVIOUS
    <3> QED BY <3>1 DEF Steps
  <2>3. \A n \in 0 .. m : f[n] \in V
    OBVIOUS
  <2> HIDE DEF v
  <2>4. g \in [0 .. m + 1 -> V]
    BY <2>2, <2>3
  <2>5. g[0] = x /\ g[m + 1] = v /\ \A n \in 0 .. m : g[n] = f[n]
    BY <2>1
  <2> HIDE DEF g
  <2>6. ASSUME NEW n \in 1 .. m + 1 PROVE g[n] = step[<<n, g[n - 1]>>]
    <3>1. CASE n = m + 1
      BY <2>5, <3>1 DEF v
    <3>2. CASE n \in 1 .. m
      <4>1. n - 1 \in 0 .. m /\ n \in 0 .. m
        BY <3>2
      <4> QED BY <2>1, <2>5, <3>2, <4>1
    <3> QED BY <3>1, <3>2
  <2> QED BY <2>4, <2>5, <2>6
<1> HIDE DEF S
<1>3. N \in S
  BY <1>1, <1>2, SetInduction
<1>4. \E f : Walk(N, f)
  BY <1>3 DEF S
<1> QED BY <1>4 DEF Walks

\* What begins and goes on like a walk over V is one.
LEMMA WalkIsOnly ==
    ASSUME NEW N \in Nat, NEW V, NEW x \in V, NEW step \in Steps(N, V),
           NEW g, g = [n \in 0 .. N |-> g[n]], g[0] = x,
           \A n \in 1 .. N : g[n - 1] \in V => g[n] = step[<<n, g[n - 1]>>]
    PROVE  Walks(N, V, x, step, g)
<1> DEFINE S == {n \in Nat : n <= N => g[n] \in V}
<1>1. 0 \in S
  OBVIOUS
<1>2. ASSUME NEW n \in Nat, n \in S PROVE n + 1 \in S
  <2> SUFFICES ASSUME n + 1 <= N PROVE g[n + 1] \in V
    OBVIOUS
  <2>1. PICK m \in 1 .. N : m = n + 1 /\ m - 1 = n
    OBVIOUS
  <2>2. g[m - 1] \in V
    BY <1>2, <2>1
  <2>3. g[m] = step[<<m, g[m - 1]>>]
    BY <2>2
  <2>4. <<m, g[m - 1]>> \in (1 .. N) \X V
    BY <2>2
  <2> QED BY <2>1, <2>3, <2>4 DEF Steps
<1> HIDE DEF S
<1>3. \A n \in Nat : n \in S
  BY <1>1, <1>2, SetInduction
<1>4. \A n \in 0 .. N : g[n] \in V
  BY <1>3 DEF S
<1>5. g \in [0 .. N -> V]
  BY <1>4
<1>6. ASSUME NEW n \in 1 .. N PROVE g[n] = step[<<n, g[n - 1]>>]
  <2>1. n - 1 \in 0 .. N
    OBVIOUS
  <2> QED BY <1>4, <2>1
<1> QED BY <1>5, <1>6 DEF Walks

-----------------------------------------------------------------------------
(* Chained: the entries of all buckets. *)

Concatenated(cap, bk) ==
    LET upto[n \in 0 .. cap] == IF n = 0 THEN <<>> ELSE upto[n - 1] \o bk[n - 1]
    IN  upto[cap]

\* Chained depends on the capacity and the buckets only.
LEMMA ChainedIs == ASSUME NEW x PROVE Chained(x) = Concatenated(x.capacity, x.buckets)
  BY DEF Chained, Concatenated

Joined(cap, bk, f) ==
    /\ f \in [0 .. cap -> Chains]
    /\ f[0] = <<>>
    /\ \A n \in 0 .. cap - 1 : f[n + 1] = f[n] \o bk[n]

\* The recursive equation of Concatenated has a solution, which is the one chosen.
LEMMA ConcatenatedUnfolds ==
    ASSUME NEW cap \in Nat, NEW bk \in [0 .. cap - 1 -> Chains]
    PROVE  \E f : Joined(cap, bk, f) /\ Concatenated(cap, bk) = f[cap]
<1> DEFINE step == [p \in (1 .. cap) \X Chains |-> p[2] \o bk[p[1] - 1]]
           Is(f) == f = [n \in 0 .. cap |-> IF n = 0 THEN <<>> ELSE f[n - 1] \o bk[n - 1]]
<1>1. step \in Steps(cap, Chains)
  <2>1. ASSUME NEW p \in (1 .. cap) \X Chains PROVE p[2] \o bk[p[1] - 1] \in Chains
    <3>1. p[2] \in Chains /\ p[1] - 1 \in 0 .. cap - 1
      OBVIOUS
    <3>2. bk[p[1] - 1] \in Chains
      BY <3>1
    <3> QED BY <3>1, <3>2, ConcatProperties DEF Chains
  <2> QED BY <2>1 DEF Steps
<1>2. <<>> \in Chains
  BY DEF Chains
<1>3. PICK f : Walks(cap, Chains, <<>>, step, f)
  <2> HIDE DEF step
  <2> QED BY <1>1, <1>2, WalkExists
<1>4. ASSUME NEW n \in 1 .. cap PROVE f[n] = f[n - 1] \o bk[n - 1]
  <2>1. <<n, f[n - 1]>> \in (1 .. cap) \X Chains
    BY <1>3 DEF Walks
  <2>2. f[n] = step[<<n, f[n - 1]>>]
    BY <1>3 DEF Walks
  <2> QED BY <2>1, <2>2
<1>5. Is(f)
  <2>1. \A n \in 0 .. cap : n # 0 => n \in 1 .. cap
    OBVIOUS
  <2> QED BY <1>3, <1>4, <2>1 DEF Walks
<1> DEFINE g == CHOOSE h : Is(h)
<1>6. Is(g)
  BY <1>5
<1>7. Concatenated(cap, bk) = g[cap]
  BY DEF Concatenated
<1> HIDE DEF g
<1>8. g[0] = <<>> /\ \A n \in 1 .. cap : g[n] = g[n - 1] \o bk[n - 1]
  <2>1. \A n \in 0 .. cap : g[n] = IF n = 0 THEN <<>> ELSE g[n - 1] \o bk[n - 1]
    BY <1>6, Zenon
  <2>2. 0 \in 0 .. cap /\ \A n \in 1 .. cap : n \in 0 .. cap /\ n # 0
    OBVIOUS
  <2> QED BY <2>1, <2>2, Zenon
<1>9. Walks(cap, Chains, <<>>, step, g)
  <2>1. g = [n \in 0 .. cap |-> g[n]]
    BY <1>6
  <2>2. ASSUME NEW n \in 1 .. cap, g[n - 1] \in Chains
        PROVE  g[n] = step[<<n, g[n - 1]>>]
    <3>1. <<n, g[n - 1]>> \in (1 .. cap) \X Chains
      BY <2>2
    <3> QED BY <1>8, <3>1
  <2> HIDE DEF step
  <2> QED BY <1>1, <1>2, <1>8, <2>1, <2>2, WalkIsOnly
<1>10. ASSUME NEW n \in 0 .. cap - 1 PROVE g[n + 1] = g[n] \o bk[n]
  <2>1. PICK m \in 1 .. cap : m = n + 1 /\ m - 1 = n
    OBVIOUS
  <2>2. g[m] = g[m - 1] \o bk[m - 1]
    BY <1>8
  <2> QED BY <2>1, <2>2, Zenon
<1> QED BY <1>7, <1>8, <1>9, <1>10 DEF Joined, Walks

\* What the sequences hold.
LEMMA InConcat ==
    ASSUME NEW s \in Chains, NEW t \in Chains
    PROVE  /\ s \o t \in Chains
           /\ ToSet(s \o t) = ToSet(s) \cup ToSet(t)
           /\ Len(s \o t) = Len(s) + Len(t)
<1>1. /\ s \o t \in Chains /\ Len(s \o t) = Len(s) + Len(t)
      /\ \A i \in 1 .. Len(s) + Len(t) :
           (s \o t)[i] = IF i <= Len(s) THEN s[i] ELSE t[i - Len(s)]
  BY ConcatProperties DEF Chains
<1> DEFINE u == s \o t
<1>2. /\ DOMAIN s = 1 .. Len(s) /\ DOMAIN t = 1 .. Len(t) /\ DOMAIN u = 1 .. Len(u)
      /\ Len(s) \in Nat /\ Len(t) \in Nat
  BY <1>1, LenProperties DEF Chains
<1> HIDE DEF u
<1>3. /\ Len(u) = Len(s) + Len(t)
      /\ \A i \in 1 .. Len(s) : i \in 1 .. Len(u) /\ u[i] = s[i]
      /\ \A i \in 1 .. Len(t) : Len(s) + i \in 1 .. Len(u) /\ u[Len(s) + i] = t[i]
      /\ \A i \in 1 .. Len(u) : \/ i \in 1 .. Len(s) /\ u[i] = s[i]
                                \/ i - Len(s) \in 1 .. Len(t) /\ u[i] = t[i - Len(s)]
  BY <1>1, <1>2 DEF u
<1>4. ToSet(u) = ToSet(s) \cup ToSet(t)
  <2>1. ToSet(u) \subseteq ToSet(s) \cup ToSet(t)
    BY <1>2, <1>3 DEF ToSet
  <2>2. ToSet(s) \subseteq ToSet(u)
    BY <1>2, <1>3 DEF ToSet
  <2>3. ToSet(t) \subseteq ToSet(u)
    BY <1>2, <1>3 DEF ToSet
  <2> QED BY <2>1, <2>2, <2>3
<1> QED BY <1>1, <1>4 DEF u

\* What an appended sequence holds, and its length.
LEMMA InAppend ==
    ASSUME NEW S, NEW s \in Seq(S), NEW e \in S
    PROVE  /\ Append(s, e) \in Seq(S)
           /\ ToSet(Append(s, e)) = ToSet(s) \cup {e}
           /\ Len(Append(s, e)) = Len(s) + 1
<1> DEFINE u == Append(s, e)
<1>1. /\ u \in Seq(S) /\ Len(u) = Len(s) + 1
      /\ \A i \in 1 .. Len(s) : u[i] = s[i]
      /\ u[Len(s) + 1] = e
  BY AppendProperties
<1>2. /\ DOMAIN s = 1 .. Len(s) /\ DOMAIN u = 1 .. Len(u) /\ Len(s) \in Nat
  BY <1>1, LenProperties
<1> HIDE DEF u
<1>3. \A i : i \in 1 .. Len(u) <=> i \in 1 .. Len(s) \/ i = Len(s) + 1
  BY <1>1, <1>2
<1>4. ToSet(u) = ToSet(s) \cup {e}
  BY <1>1, <1>2, <1>3 DEF ToSet
<1> QED BY <1>1, <1>4 DEF u

\* The elements of a sequence.
LEMMA ToSetOf ==
    ASSUME NEW S, NEW s \in Seq(S)
    PROVE  /\ ToSet(s) = {s[i] : i \in 1 .. Len(s)}
           /\ ToSet(s) \subseteq S /\ Len(s) \in Nat
           /\ ToSet(s) = {} => Len(s) = 0
<1>1. DOMAIN s = 1 .. Len(s) /\ Len(s) \in Nat /\ \A i \in 1 .. Len(s) : s[i] \in S
  BY LenProperties
<1>2. Len(s) # 0 => 1 \in 1 .. Len(s)
  BY <1>1
<1> QED BY <1>1, <1>2 DEF ToSet

\* No two entries of a sequence have one rid.
DistinctRids(s) == \A i, j \in 1 .. Len(s) : s[i].rid = s[j].rid => i = j

\* Sequences that share no rid, one behind the other.
LEMMA DistinctConcat ==
    ASSUME NEW s \in Chains, NEW t \in Chains, DistinctRids(s), DistinctRids(t),
           \A d \in ToSet(s), e \in ToSet(t) : d.rid # e.rid
    PROVE  DistinctRids(s \o t)
<1> DEFINE u == s \o t
<1>1. /\ Len(u) = Len(s) + Len(t) /\ Len(s) \in Nat /\ Len(t) \in Nat
      /\ \A i \in 1 .. Len(s) + Len(t) :
           u[i] = IF i <= Len(s) THEN s[i] ELSE t[i - Len(s)]
  BY ConcatProperties, LenProperties DEF Chains
<1> HIDE DEF u
<1>2. /\ \A i \in 1 .. Len(s) : s[i] \in ToSet(s)
      /\ \A i \in 1 .. Len(t) : t[i] \in ToSet(t)
  BY ToSetOf DEF Chains
<1>3. SUFFICES ASSUME NEW i \in 1 .. Len(u), NEW j \in 1 .. Len(u), u[i].rid = u[j].rid
               PROVE  i = j
  BY DEF DistinctRids, u
<1>4. CASE i <= Len(s) /\ j <= Len(s)
  <2>1. i \in 1 .. Len(s) /\ j \in 1 .. Len(s) /\ u[i] = s[i] /\ u[j] = s[j]
    BY <1>1, <1>4
  <2> QED BY <1>3, <2>1 DEF DistinctRids
<1>5. CASE i > Len(s) /\ j > Len(s)
  <2>1. /\ i - Len(s) \in 1 .. Len(t) /\ j - Len(s) \in 1 .. Len(t)
        /\ u[i] = t[i - Len(s)] /\ u[j] = t[j - Len(s)]
    BY <1>1, <1>5
  <2>2. i - Len(s) = j - Len(s)
    BY <1>3, <2>1 DEF DistinctRids
  <2> QED BY <1>1, <2>2
<1>6. CASE i <= Len(s) /\ j > Len(s)
  <2>1. /\ i \in 1 .. Len(s) /\ j - Len(s) \in 1 .. Len(t)
        /\ u[i] = s[i] /\ u[j] = t[j - Len(s)]
    BY <1>1, <1>6
  <2> QED BY <1>2, <1>3, <2>1
<1>7. CASE i > Len(s) /\ j <= Len(s)
  <2>1. /\ j \in 1 .. Len(s) /\ i - Len(s) \in 1 .. Len(t)
        /\ u[j] = s[j] /\ u[i] = t[i - Len(s)]
    BY <1>1, <1>7
  <2> QED BY <1>2, <1>3, <2>1
<1> QED BY <1>1, <1>4, <1>5, <1>6, <1>7

\* The entries of the buckets below n.
HeldBelow(n, bk) == {e \in EntrySet : \E b \in 0 .. n - 1 : e \in ToSet(bk[b])}

Held(cap, bk) == HeldBelow(cap, bk)

\* No two entries of the buckets have one rid.
Apart(cap, bk) ==
    /\ \A b \in 0 .. cap - 1 : DistinctRids(bk[b])
    /\ \A b, c \in 0 .. cap - 1 : b # c =>
         \A d \in ToSet(bk[b]), e \in ToSet(bk[c]) : d.rid # e.rid

\* All chains together hold the entries of the buckets, each rid once.
LEMMA ConcatenatedHolds ==
    ASSUME NEW cap \in Nat, NEW bk \in [0 .. cap - 1 -> Chains]
    PROVE  /\ Concatenated(cap, bk) \in Chains
           /\ ToSet(Concatenated(cap, bk)) = Held(cap, bk)
           /\ Apart(cap, bk) => DistinctRids(Concatenated(cap, bk))
<1>1. PICK f : Joined(cap, bk, f) /\ Concatenated(cap, bk) = f[cap]
  BY ConcatenatedUnfolds
<1> DEFINE S == {n \in Nat : n <= cap =>
                   /\ f[n] \in Chains
                   /\ ToSet(f[n]) = HeldBelow(n, bk)
                   /\ Apart(cap, bk) => DistinctRids(f[n])}
<1>2. 0 \in S
  <2>1. f[0] = <<>>
    BY <1>1 DEF Joined
  <2>2. <<>> \in Chains /\ ToSet(<<>>) = {} /\ DistinctRids(<<>>)
    BY DEF Chains, ToSet, DistinctRids
  <2>3. HeldBelow(0, bk) = {}
    BY DEF HeldBelow
  <2> QED BY <2>1, <2>2, <2>3
<1>3. ASSUME NEW n \in Nat, n \in S PROVE n + 1 \in S
  <2> SUFFICES ASSUME n + 1 <= cap
               PROVE  /\ f[n + 1] \in Chains
                      /\ ToSet(f[n + 1]) = HeldBelow(n + 1, bk)
                      /\ Apart(cap, bk) => DistinctRids(f[n + 1])
    OBVIOUS
  <2>1. /\ f[n] \in Chains /\ ToSet(f[n]) = HeldBelow(n, bk)
        /\ Apart(cap, bk) => DistinctRids(f[n])
    BY <1>3
  <2>2. n \in 0 .. cap - 1 /\ n + 1 \in 1 .. cap /\ n + 1 - 1 = n
    OBVIOUS
  <2>3. f[n + 1] = f[n] \o bk[n]
    BY <1>1, <2>2, Zenon DEF Joined
  <2>4. bk[n] \in Chains
    BY <2>2
  <2>5. /\ f[n] \o bk[n] \in Chains
        /\ ToSet(f[n] \o bk[n]) = ToSet(f[n]) \cup ToSet(bk[n])
    BY <2>1, <2>4, InConcat
  <2>6. HeldBelow(n + 1, bk) = HeldBelow(n, bk) \cup ToSet(bk[n])
    <3>1. ToSet(bk[n]) \subseteq EntrySet
      BY <2>4, ToSetOf DEF Chains
    <3>2. \A b : b \in 0 .. n + 1 - 1 <=> b \in 0 .. n - 1 \/ b = n
      OBVIOUS
    <3> QED BY <3>1, <3>2 DEF HeldBelow
  <2>7. ASSUME Apart(cap, bk) PROVE DistinctRids(f[n] \o bk[n])
    <3>1. DistinctRids(f[n]) /\ DistinctRids(bk[n])
      BY <2>1, <2>2, <2>7 DEF Apart
    <3>2. ASSUME NEW d \in ToSet(f[n]), NEW e \in ToSet(bk[n]) PROVE d.rid # e.rid
      <4>1. PICK b \in 0 .. n - 1 : d \in ToSet(bk[b])
        BY <2>1, <3>2 DEF HeldBelow
      <4>2. b \in 0 .. cap - 1 /\ b # n
        BY <2>2
      <4> QED BY <2>2, <2>7, <3>2, <4>1, <4>2 DEF Apart
    <3> QED BY <2>1, <2>4, <3>1, <3>2, DistinctConcat
  <2> QED BY <2>1, <2>3, <2>5, <2>6, <2>7
<1> HIDE DEF S
<1>4. cap \in S
  BY <1>2, <1>3, SetInduction
<1> QED BY <1>1, <1>4 DEF S, Held

\* The buckets with another chain in one.
Replaced(bk, b, chain) == [bk EXCEPT ![b] = chain]

\* A chain that changes changes the length of all by as much.
LEMMA ConcatenatedLength ==
    ASSUME NEW cap \in Nat, NEW bk \in [0 .. cap - 1 -> Chains],
           NEW b \in 0 .. cap - 1, NEW chain \in Chains
    PROVE  Len(Concatenated(cap, Replaced(bk, b, chain)))
             = Len(Concatenated(cap, bk)) - Len(bk[b]) + Len(chain)
<1> DEFINE bk2 == Replaced(bk, b, chain)
<1>1. /\ bk2 \in [0 .. cap - 1 -> Chains] /\ bk2[b] = chain
      /\ \A c \in 0 .. cap - 1 : c # b => bk2[c] = bk[c]
  BY DEF Replaced
<1> HIDE DEF bk2
<1>2. PICK f : Joined(cap, bk, f) /\ Concatenated(cap, bk) = f[cap]
  BY ConcatenatedUnfolds
<1>3. PICK g : Joined(cap, bk2, g) /\ Concatenated(cap, bk2) = g[cap]
  BY <1>1, ConcatenatedUnfolds
<1>4. \A c \in 0 .. cap - 1 : Len(bk[c]) \in Nat /\ Len(bk2[c]) \in Nat
  <2>1. \A c \in 0 .. cap - 1 : bk[c] \in Chains /\ bk2[c] \in Chains
    BY <1>1
  <2> QED BY <2>1, LenProperties DEF Chains
<1>5. ASSUME NEW n \in 0 .. cap - 1
      PROVE  /\ Len(f[n]) \in Nat /\ Len(g[n]) \in Nat
             /\ Len(f[n + 1]) = Len(f[n]) + Len(bk[n])
             /\ Len(g[n + 1]) = Len(g[n]) + Len(bk2[n])
  <2>1. n \in 0 .. cap /\ n + 1 \in 1 .. cap /\ n + 1 - 1 = n
    OBVIOUS
  <2>2. f[n] \in Chains /\ g[n] \in Chains /\ bk[n] \in Chains /\ bk2[n] \in Chains
    BY <1>1, <1>2, <1>3, <2>1 DEF Joined
  <2>3. f[n + 1] = f[n] \o bk[n] /\ g[n + 1] = g[n] \o bk2[n]
    BY <1>2, <1>3, Zenon DEF Joined
  <2>4. Len(f[n]) \in Nat /\ Len(g[n]) \in Nat
    BY <2>2, LenProperties DEF Chains
  <2> QED BY <2>2, <2>3, <2>4, InConcat
<1> DEFINE S == {n \in Nat : n <= cap =>
                   /\ n <= b => Len(g[n]) = Len(f[n])
                   /\ n > b => Len(g[n]) = Len(f[n]) - Len(bk[b]) + Len(chain)}
<1>6. 0 \in S
  <2>1. f[0] = <<>> /\ g[0] = <<>> /\ Len(<<>>) = 0 /\ ~ (0 > b)
    BY <1>2, <1>3 DEF Joined
  <2> QED BY <2>1
<1>7. ASSUME NEW n \in Nat, n \in S PROVE n + 1 \in S
  <2> SUFFICES ASSUME n + 1 <= cap
               PROVE  /\ n + 1 <= b => Len(g[n + 1]) = Len(f[n + 1])
                      /\ n + 1 > b => Len(g[n + 1]) = Len(f[n + 1]) - Len(bk[b]) + Len(chain)
    OBVIOUS
  <2>1. /\ n \in 0 .. cap - 1
        /\ n <= b => Len(g[n]) = Len(f[n])
        /\ n > b => Len(g[n]) = Len(f[n]) - Len(bk[b]) + Len(chain)
    BY <1>7
  <2>2. /\ Len(f[n]) \in Nat /\ Len(g[n]) \in Nat
        /\ Len(f[n + 1]) = Len(f[n]) + Len(bk[n])
        /\ Len(g[n + 1]) = Len(g[n]) + Len(bk2[n])
        /\ Len(bk[n]) \in Nat /\ Len(bk2[n]) \in Nat
    BY <1>4, <1>5, <2>1
  <2>3. CASE n = b
    <3>1. Len(bk2[n]) = Len(chain) /\ ~ (n + 1 <= b) /\ n <= b /\ Len(bk[n]) = Len(bk[b])
      BY <1>1, <2>3
    <3>2. PICK u, x, y \in Nat : u = Len(f[n]) /\ x = Len(bk[b]) /\ y = Len(chain)
      BY <2>2, <3>1, Zenon
    <3>3. Len(g[n + 1]) = u + y /\ Len(f[n + 1]) = u + x
      BY <2>1, <2>2, <3>1, <3>2, Zenon
    <3>4. u + y = (u + x) - x + y
      OBVIOUS
    <3> QED BY <3>1, <3>2, <3>3, <3>4, Zenon
  <2>4. CASE n < b
    <3>1. bk2[n] = bk[n] /\ n <= b /\ ~ (n + 1 > b)
      BY <1>1, <2>1, <2>4
    <3>2. Len(g[n + 1]) = Len(f[n + 1])
      BY <2>1, <2>2, <3>1, Zenon
    <3> QED BY <3>1, <3>2, Zenon
  <2>5. CASE n > b
    <3>1. bk2[n] = bk[n] /\ ~ (n + 1 <= b)
      BY <1>1, <2>1, <2>5
    <3>2. Len(bk[b]) \in Nat /\ Len(chain) \in Nat
      BY <1>1, <1>4
    <3>3. Len(g[n]) = Len(f[n]) - Len(bk[b]) + Len(chain)
      BY <2>1, <2>5
    <3>4. PICK u, v, w, x, y \in Nat :
             /\ u = Len(f[n]) /\ v = Len(g[n]) /\ w = Len(bk[n])
             /\ x = Len(bk[b]) /\ y = Len(chain)
      BY <2>2, <3>2, Zenon
    <3>5. v = u - x + y /\ Len(g[n + 1]) = v + w /\ Len(f[n + 1]) = u + w
      BY <2>2, <3>1, <3>3, <3>4, Zenon
    <3>6. v + w = (u + w) - x + y
      BY <3>5
    <3> QED BY <3>1, <3>4, <3>5, <3>6, Zenon
  <2> QED BY <2>3, <2>4, <2>5
<1> HIDE DEF S
<1>8. cap \in S
  BY <1>6, <1>7, SetInduction
<1>9. b < cap
  OBVIOUS
<1> QED BY <1>2, <1>3, <1>8, <1>9 DEF S, bk2

-----------------------------------------------------------------------------
(* One chain changes. *)

\* Every entry is in the bucket of its key.
Placed(cap, bk) == \A b \in 0 .. cap - 1 : \A e \in ToSet(bk[b]) : e.key % cap = b

Table(cap, bk) ==
    /\ cap \in Nat \ {0}
    /\ bk \in [0 .. cap - 1 -> Chains]
    /\ Placed(cap, bk)
    /\ Apart(cap, bk)

\* An entry is held where it is in some bucket.
LEMMA HeldIn ==
    ASSUME NEW cap \in Nat, NEW bk \in [0 .. cap - 1 -> Chains]
    PROVE  /\ \A b \in 0 .. cap - 1 : ToSet(bk[b]) \subseteq Held(cap, bk)
           /\ \A e \in Held(cap, bk) : \E b \in 0 .. cap - 1 : e \in ToSet(bk[b])
<1>1. \A b \in 0 .. cap - 1 : ToSet(bk[b]) \subseteq EntrySet
  BY ToSetOf DEF Chains
<1> QED BY <1>1 DEF Held, HeldBelow

\* A chain that may take the place of that of bucket b.
Fits(cap, bk, b, chain) ==
    /\ DistinctRids(chain)
    /\ \A e \in ToSet(chain) : e.key % cap = b
    /\ \A e \in ToSet(chain), d \in Held(cap, bk) : d.rid = e.rid => d \in ToSet(bk[b])

\* A chain that fits keeps the table, and exchanges what its bucket holds.
LEMMA ChainChanged ==
    ASSUME NEW cap, NEW bk, Table(cap, bk),
           NEW b \in 0 .. cap - 1, NEW chain \in Chains, Fits(cap, bk, b, chain)
    PROVE  /\ Table(cap, Replaced(bk, b, chain))
           /\ Held(cap, Replaced(bk, b, chain))
                = (Held(cap, bk) \ ToSet(bk[b])) \cup ToSet(chain)
<1> DEFINE bk2 == Replaced(bk, b, chain)
<1>1. cap \in Nat \ {0} /\ bk \in [0 .. cap - 1 -> Chains]
  BY DEF Table
<1>2. /\ bk2 \in [0 .. cap - 1 -> Chains] /\ bk2[b] = chain
      /\ \A c \in 0 .. cap - 1 : c # b => bk2[c] = bk[c]
  BY <1>1 DEF Replaced
<1> HIDE DEF bk2
<1>3. ASSUME NEW c \in 0 .. cap - 1, c # b, NEW d \in ToSet(bk[c])
      PROVE  d \in Held(cap, bk) /\ d \notin ToSet(bk[b])
                                 /\ \A e \in ToSet(chain) : d.rid # e.rid
  <2>1. d \in Held(cap, bk)
    BY <1>1, <1>3, HeldIn
  <2>2. d \notin ToSet(bk[b])
    BY <1>3 DEF Table, Apart
  <2> QED BY <2>1, <2>2 DEF Fits
<1>4. Placed(cap, bk2)
  BY <1>2 DEF Placed, Table, Fits
<1>5. Apart(cap, bk2)
  <2>1. \A c \in 0 .. cap - 1 : DistinctRids(bk2[c])
    BY <1>2 DEF Apart, Table, Fits
  <2>2. ASSUME NEW i \in 0 .. cap - 1, NEW j \in 0 .. cap - 1, i # j,
               NEW d \in ToSet(bk2[i]), NEW e \in ToSet(bk2[j])
        PROVE  d.rid # e.rid
    <3>1. CASE i = b
      BY <1>2, <1>3, <2>2, <3>1
    <3>2. CASE j = b
      BY <1>2, <1>3, <2>2, <3>2
    <3>3. CASE i # b /\ j # b
      BY <1>2, <2>2, <3>3 DEF Table, Apart
    <3> QED BY <3>1, <3>2, <3>3
  <2> QED BY <2>1, <2>2 DEF Apart
<1>6. Held(cap, bk2) = (Held(cap, bk) \ ToSet(bk[b])) \cup ToSet(chain)
  <2>1. ASSUME NEW e \in Held(cap, bk2)
        PROVE  e \in (Held(cap, bk) \ ToSet(bk[b])) \cup ToSet(chain)
    <3>1. PICK c \in 0 .. cap - 1 : e \in ToSet(bk2[c])
      BY <1>1, <1>2, HeldIn
    <3> QED BY <1>2, <1>3, <3>1
  <2>2. ASSUME NEW e \in Held(cap, bk), e \notin ToSet(bk[b])
        PROVE  e \in Held(cap, bk2)
    <3>1. PICK c \in 0 .. cap - 1 : e \in ToSet(bk[c])
      BY <1>1, HeldIn
    <3>2. e \in ToSet(bk2[c])
      BY <1>2, <2>2, <3>1
    <3> QED BY <1>1, <1>2, <3>2, HeldIn
  <2>3. ToSet(chain) \subseteq Held(cap, bk2)
    BY <1>1, <1>2, HeldIn
  <2> QED BY <2>1, <2>2, <2>3
<1> QED BY <1>1, <1>2, <1>4, <1>5, <1>6 DEF Table, bk2

-----------------------------------------------------------------------------
(* The index as a record: insertion into it. *)

\* The indexes that differ from x in their buckets and count only.
Like(x) == [capacity : {x.capacity},
            buckets : [0 .. x.capacity - 1 -> Chains],
            number_of_entries : Int,
            first : {x.first}, last : {x.last}, pages : {x.pages}]

Shaped(x) == x \in Like(x) /\ x.capacity \in Nat \ {0}

Sound(x) == Shaped(x) /\ Table(x.capacity, x.buckets)

\* x with another chain in bucket b and another count.
Changed(x, b, chain, n) == [x EXCEPT !.buckets[b] = chain, !.number_of_entries = n]

\* The fields of a changed index.
LEMMA ChangedIs ==
    ASSUME NEW x, Shaped(x), NEW b \in 0 .. x.capacity - 1, NEW chain \in Chains,
           NEW n \in Int
    PROVE  LET y == Changed(x, b, chain, n) IN
             /\ y \in Like(x) /\ Shaped(y) /\ Like(y) = Like(x)
             /\ y.capacity = x.capacity
             /\ y.buckets = Replaced(x.buckets, b, chain)
             /\ y.number_of_entries = n
             /\ y.first = x.first /\ y.last = x.last /\ y.pages = x.pages
<1> DEFINE bk == Replaced(x.buckets, b, chain)
           y == [capacity |-> x.capacity, buckets |-> bk, number_of_entries |-> n,
                 first |-> x.first, last |-> x.last, pages |-> x.pages]
<1>1. x = [capacity |-> x.capacity, buckets |-> x.buckets,
           number_of_entries |-> x.number_of_entries,
           first |-> x.first, last |-> x.last, pages |-> x.pages]
  BY DEF Shaped, Like
<1>2. Changed(x, b, chain, n) = [[x EXCEPT !.buckets = bk] EXCEPT !.number_of_entries = n]
  BY DEF Changed, Replaced
<1>3. bk \in [0 .. x.capacity - 1 -> Chains]
  BY DEF Shaped, Like, Replaced
<1> HIDE DEF bk
<1>4. Changed(x, b, chain, n) = y
  BY <1>1, <1>2
<1>5. /\ y.capacity = x.capacity /\ y.buckets = bk /\ y.number_of_entries = n
      /\ y.first = x.first /\ y.last = x.last /\ y.pages = x.pages
  OBVIOUS
<1>6. y \in Like(x)
  BY <1>3 DEF Like
<1> HIDE DEF y
<1>7. Like(y) = Like(x)
  BY <1>5 DEF Like
<1>8. Shaped(y)
  BY <1>5, <1>6, <1>7 DEF Shaped
<1> QED BY <1>4, <1>5, <1>6, <1>7, <1>8 DEF bk

\* A member of Like(x) has the shape of x.
LEMMA LikeIs ==
    ASSUME NEW x, Shaped(x), NEW y \in Like(x)
    PROVE  /\ Shaped(y) /\ Like(y) = Like(x) /\ y.capacity = x.capacity
           /\ y.first = x.first /\ y.last = x.last /\ y.pages = x.pages
<1>1. /\ y.capacity = x.capacity
      /\ y.first = x.first /\ y.last = x.last /\ y.pages = x.pages
  BY DEF Like
<1>2. Like(y) = Like(x)
  BY <1>1 DEF Like
<1> QED BY <1>1, <1>2 DEF Shaped

\* The hash of a key is the number of a bucket.
LEMMA BucketOf ==
    ASSUME NEW x, Shaped(x), NEW k \in Nat
    PROVE  /\ hashFunction(x, k) \in 0 .. x.capacity - 1
           /\ x.buckets[hashFunction(x, k)] \in Chains
           /\ hashFunction(x, k) = k % x.capacity
<1>1. x.capacity \in Nat \ {0} /\ x.buckets \in [0 .. x.capacity - 1 -> Chains]
  BY DEF Shaped, Like
<1>2. k % x.capacity \in 0 .. x.capacity - 1
  BY <1>1
<1> QED BY <1>1, <1>2 DEF hashFunction

\* The number of entries changes by as much as the chain.
LEMMA SizeChanged ==
    ASSUME NEW x, Shaped(x), NEW b \in 0 .. x.capacity - 1, NEW chain \in Chains,
           NEW n \in Int
    PROVE  /\ Len(Chained(Changed(x, b, chain, n)))
                = Len(Chained(x)) - Len(x.buckets[b]) + Len(chain)
           /\ Len(Chained(x)) \in Nat /\ Len(x.buckets[b]) \in Nat /\ Len(chain) \in Nat
<1>1. x.capacity \in Nat /\ x.buckets \in [0 .. x.capacity - 1 -> Chains]
  BY DEF Shaped, Like
<1>2. Len(Concatenated(x.capacity, Replaced(x.buckets, b, chain)))
        = Len(Concatenated(x.capacity, x.buckets)) - Len(x.buckets[b]) + Len(chain)
  BY <1>1, ConcatenatedLength
<1>3. Concatenated(x.capacity, x.buckets) \in Chains /\ x.buckets[b] \in Chains
  BY <1>1, ConcatenatedHolds
<1>4. Chained(Changed(x, b, chain, n))
        = Concatenated(x.capacity, Replaced(x.buckets, b, chain))
  BY ChangedIs, ChainedIs
<1> QED BY <1>2, <1>3, <1>4, ChainedIs, LenProperties, Zenon DEF Chains

\* The entries of an index are those of its buckets.
LEMMA EntriesAre ==
    ASSUME NEW x, Shaped(x)
    PROVE  /\ EntriesOf(x) = Held(x.capacity, x.buckets)
           /\ EntriesOf(x) \subseteq EntrySet
           /\ Chained(x) \in Chains /\ ToSet(Chained(x)) = EntriesOf(x)
           /\ Indexed(x) = {e.rid : e \in EntriesOf(x)}
<1>1. x.capacity \in Nat /\ x.buckets \in [0 .. x.capacity - 1 -> Chains]
  BY DEF Shaped, Like
<1>2. /\ Concatenated(x.capacity, x.buckets) \in Chains
      /\ ToSet(Concatenated(x.capacity, x.buckets)) = Held(x.capacity, x.buckets)
  BY <1>1, ConcatenatedHolds
<1> QED BY <1>2, ChainedIs DEF EntriesOf, Indexed, Held, HeldBelow

\* insertIndex adds the entry to its bucket and to the count.
LEMMA InsertAdds ==
    ASSUME NEW x, Shaped(x), NEW e \in EntrySet
    PROVE  LET y == insertIndex(x, e) IN
             /\ y \in Like(x)
             /\ y.number_of_entries = x.number_of_entries + 1
             /\ Len(Chained(y)) = Len(Chained(x)) + 1
             /\ Sound(x) /\ (\A d \in EntriesOf(x) : d.rid # e.rid)
                  => Sound(y) /\ EntriesOf(y) = EntriesOf(x) \cup {e}
<1> DEFINE b == hashFunction(x, e.key)
           chain == Append(x.buckets[b], e)
           y == Changed(x, b, chain, x.number_of_entries + 1)
<1>1. e.key \in Nat /\ x.number_of_entries \in Int
  BY DEF EntrySet, Shaped, Like
<1>2. /\ b \in 0 .. x.capacity - 1 /\ x.buckets[b] \in Chains /\ b = e.key % x.capacity
  BY <1>1, BucketOf
<1>3. insertIndex(x, e) = y
  BY DEF insertIndex, Changed
<1>4. /\ chain \in Chains
      /\ ToSet(chain) = ToSet(x.buckets[b]) \cup {e}
      /\ Len(chain) = Len(x.buckets[b]) + 1
      /\ Len(x.buckets[b]) \in Nat
      /\ \A i \in 1 .. Len(x.buckets[b]) : chain[i] = x.buckets[b][i]
      /\ chain[Len(x.buckets[b]) + 1] = e
  BY <1>2, InAppend, AppendProperties, LenProperties DEF Chains
<1> HIDE DEF b, chain
<1>5. /\ y \in Like(x) /\ Shaped(y)
      /\ y.number_of_entries = x.number_of_entries + 1
      /\ y.capacity = x.capacity
      /\ y.buckets = Replaced(x.buckets, b, chain)
  BY <1>1, <1>2, <1>4, ChangedIs
<1>6. Len(Chained(y)) = Len(Chained(x)) + 1
  <2>1. /\ Len(Chained(y)) = Len(Chained(x)) - Len(x.buckets[b]) + Len(chain)
        /\ Len(Chained(x)) \in Nat
    <3>1. PICK n \in Int : n = x.number_of_entries + 1
      BY <1>1
    <3> QED BY <1>2, <1>4, <3>1, SizeChanged, Zenon
  <2>2. PICK u, v \in Nat : u = Len(Chained(x)) /\ v = Len(x.buckets[b])
    BY <1>4, <2>1, Zenon
  <2>3. Len(Chained(y)) = u - v + (v + 1)
    BY <1>4, <2>1, <2>2, Zenon
  <2>4. u - v + (v + 1) = u + 1
    OBVIOUS
  <2> QED BY <2>2, <2>3, <2>4, Zenon
<1>7. ASSUME Sound(x), \A d \in EntriesOf(x) : d.rid # e.rid
      PROVE  Sound(y) /\ EntriesOf(y) = EntriesOf(x) \cup {e}
  <2> DEFINE cap == x.capacity
             bk == x.buckets
  <2>1. Table(cap, bk) /\ EntriesOf(x) = Held(cap, bk) /\ cap \in Nat
        /\ bk \in [0 .. cap - 1 -> Chains]
    BY <1>7, EntriesAre DEF Sound, Table
  <2>2. ToSet(bk[b]) \subseteq Held(cap, bk)
    BY <1>2, <2>1, HeldIn
  <2>3. DistinctRids(chain)
    <3>1. DistinctRids(bk[b]) /\ \A i \in 1 .. Len(bk[b]) : bk[b][i] \in ToSet(bk[b])
      BY <1>2, <2>1, ToSetOf DEF Table, Apart, Chains
    <3>2. \A i \in 1 .. Len(bk[b]) : bk[b][i].rid # e.rid
      BY <1>7, <2>1, <2>2, <3>1
    <3>3. \A i \in 1 .. Len(chain) : i \in 1 .. Len(bk[b]) \/ i = Len(bk[b]) + 1
      BY <1>4
    <3> QED BY <1>4, <3>1, <3>2, <3>3 DEF DistinctRids
  <2>4. \A d \in ToSet(chain) : d.key % cap = b
    <3>1. \A d \in ToSet(bk[b]) : d.key % cap = b
      BY <1>2, <2>1 DEF Table, Placed
    <3> QED BY <1>2, <1>4, <3>1
  <2>5. ASSUME NEW c \in ToSet(chain), NEW d \in Held(cap, bk), d.rid = c.rid
        PROVE  d \in ToSet(bk[b])
    <3>1. CASE c = e
      BY <1>7, <2>1, <2>5, <3>1
    <3>2. CASE c \in ToSet(bk[b])
      <4>1. PICK a \in 0 .. cap - 1 : d \in ToSet(bk[a])
        BY <2>1, HeldIn
      <4> QED BY <1>2, <2>1, <2>5, <3>2, <4>1 DEF Table, Apart
    <3> QED BY <1>4, <3>1, <3>2
  <2>6. /\ Table(cap, Replaced(bk, b, chain))
        /\ Held(cap, Replaced(bk, b, chain)) = (Held(cap, bk) \ ToSet(bk[b])) \cup ToSet(chain)
    <3>1. Fits(cap, bk, b, chain)
      BY <2>3, <2>4, <2>5 DEF Fits
    <3> HIDE DEF cap, bk
    <3>2. b \in 0 .. cap - 1
      BY <1>2 DEF cap
    <3> QED BY <1>4, <2>1, <3>1, <3>2, ChainChanged
  <2>7. EntriesOf(y) = Held(cap, Replaced(bk, b, chain))
    BY <1>5, EntriesAre
  <2> QED BY <1>4, <1>5, <2>1, <2>2, <2>6, <2>7 DEF Sound
<1> HIDE DEF y
<1> QED BY <1>3, <1>5, <1>6, <1>7

-----------------------------------------------------------------------------
(* Inserted: a sequence of entries. *)

InsertWalk(x, es, f) ==
    /\ f \in [0 .. Len(es) -> Like(x)]
    /\ f[0] = x
    /\ \A n \in 0 .. Len(es) - 1 : f[n + 1] = insertIndex(f[n], es[n + 1])

\* The recursive equation of Inserted has a solution, which is the one chosen.
LEMMA InsertedUnfolds ==
    ASSUME NEW x, Shaped(x), NEW es \in Chains
    PROVE  \E f : InsertWalk(x, es, f) /\ Inserted(x, es) = f[Len(es)]
<1> DEFINE N == Len(es)
           step == [p \in (1 .. N) \X Like(x) |-> insertIndex(p[2], es[p[1]])]
           Is(f) == f = [n \in 0 .. N |-> IF n = 0 THEN x ELSE insertIndex(f[n - 1], es[n])]
<1>1. N \in Nat /\ \A n \in 1 .. N : es[n] \in EntrySet
  BY LenProperties DEF Chains
<1>2. step \in Steps(N, Like(x))
  <2>1. ASSUME NEW p \in (1 .. N) \X Like(x) PROVE insertIndex(p[2], es[p[1]]) \in Like(x)
    <3>1. p[2] \in Like(x) /\ p[1] \in 1 .. N
      OBVIOUS
    <3>2. Shaped(p[2]) /\ Like(p[2]) = Like(x)
      BY <3>1, LikeIs
    <3>3. es[p[1]] \in EntrySet
      BY <1>1, <3>1
    <3>4. insertIndex(p[2], es[p[1]]) \in Like(p[2])
      BY <3>2, <3>3, InsertAdds
    <3> QED BY <3>2, <3>4
  <2> QED BY <2>1 DEF Steps
<1>3. x \in Like(x)
  BY DEF Shaped
<1> HIDE DEF N
<1>4. PICK f : Walks(N, Like(x), x, step, f)
  <2> HIDE DEF step
  <2> QED BY <1>1, <1>2, <1>3, WalkExists
<1>5. Is(f)
  <2>1. ASSUME NEW n \in 1 .. N PROVE f[n] = insertIndex(f[n - 1], es[n])
    <3>1. <<n, f[n - 1]>> \in (1 .. N) \X Like(x)
      BY <1>1, <1>4 DEF Walks
    <3>2. f[n] = step[<<n, f[n - 1]>>]
      BY <1>4 DEF Walks
    <3> QED BY <3>1, <3>2
  <2>2. \A n \in 0 .. N : n # 0 => n \in 1 .. N
    OBVIOUS
  <2> QED BY <1>4, <2>1, <2>2 DEF Walks
<1> DEFINE g == CHOOSE h : Is(h)
<1>6. Is(g)
  BY <1>5
<1>7. Inserted(x, es) = g[N]
  BY DEF Inserted, N
<1> HIDE DEF g
<1>8. g[0] = x /\ \A n \in 1 .. N : g[n] = insertIndex(g[n - 1], es[n])
  <2>1. \A n \in 0 .. N : g[n] = IF n = 0 THEN x ELSE insertIndex(g[n - 1], es[n])
    BY <1>6, Zenon
  <2>2. 0 \in 0 .. N /\ \A n \in 1 .. N : n \in 0 .. N /\ n # 0
    BY <1>1
  <2> QED BY <2>1, <2>2, Zenon
<1>9. Walks(N, Like(x), x, step, g)
  <2>1. g = [n \in 0 .. N |-> g[n]]
    BY <1>6
  <2>2. ASSUME NEW n \in 1 .. N, g[n - 1] \in Like(x)
        PROVE  g[n] = step[<<n, g[n - 1]>>]
    <3>1. <<n, g[n - 1]>> \in (1 .. N) \X Like(x)
      BY <2>2
    <3> QED BY <1>8, <3>1
  <2> HIDE DEF step
  <2> QED BY <1>1, <1>2, <1>3, <1>8, <2>1, <2>2, WalkIsOnly
<1>10. ASSUME NEW n \in 0 .. N - 1 PROVE g[n + 1] = insertIndex(g[n], es[n + 1])
  <2>1. PICK m \in 1 .. N : m = n + 1 /\ m - 1 = n
    BY <1>1
  <2>2. g[m] = insertIndex(g[m - 1], es[m])
    BY <1>8
  <2> QED BY <2>1, <2>2, Zenon
<1> QED BY <1>7, <1>8, <1>9, <1>10 DEF InsertWalk, Walks, N

\* Entries whose rids are new are all added, and all counted.
LEMMA InsertedAdds ==
    ASSUME NEW x, Shaped(x), NEW es \in Chains
    PROVE  LET y == Inserted(x, es) IN
             /\ y \in Like(x)
             /\ y.number_of_entries = x.number_of_entries + Len(es)
             /\ Len(Chained(y)) = Len(Chained(x)) + Len(es)
             /\ (/\ Sound(x) /\ DistinctRids(es)
                 /\ \A d \in EntriesOf(x), e \in ToSet(es) : d.rid # e.rid)
                  => Sound(y) /\ EntriesOf(y) = EntriesOf(x) \cup ToSet(es)
<1>1. PICK f : InsertWalk(x, es, f) /\ Inserted(x, es) = f[Len(es)]
  BY InsertedUnfolds
<1>2. /\ Len(es) \in Nat /\ \A n \in 1 .. Len(es) : es[n] \in EntrySet
      /\ ToSet(es) = {es[i] : i \in 1 .. Len(es)}
  BY LenProperties, ToSetOf DEF Chains
<1> DEFINE Fresh == /\ Sound(x) /\ DistinctRids(es)
                    /\ \A d \in EntriesOf(x), e \in ToSet(es) : d.rid # e.rid
           First(n) == {es[i] : i \in 1 .. n}
           S == {n \in Nat : n <= Len(es) =>
                   /\ f[n] \in Like(x)
                   /\ f[n].number_of_entries = x.number_of_entries + n
                   /\ Len(Chained(f[n])) = Len(Chained(x)) + n
                   /\ Fresh => Sound(f[n]) /\ EntriesOf(f[n]) = EntriesOf(x) \cup First(n)}
<1>3. 0 \in S
  <2>1. f[0] = x /\ x \in Like(x) /\ x.number_of_entries \in Int
    BY <1>1 DEF InsertWalk, Shaped, Like
  <2>2. Len(Chained(x)) \in Nat
    BY EntriesAre, LenProperties DEF Chains
  <2>3. First(0) = {}
    OBVIOUS
  <2> QED BY <2>1, <2>2, <2>3
<1>4. ASSUME NEW n \in Nat, n \in S PROVE n + 1 \in S
  <2> SUFFICES ASSUME n + 1 <= Len(es)
               PROVE  /\ f[n + 1] \in Like(x)
                      /\ f[n + 1].number_of_entries = x.number_of_entries + (n + 1)
                      /\ Len(Chained(f[n + 1])) = Len(Chained(x)) + (n + 1)
                      /\ Fresh => /\ Sound(f[n + 1])
                                  /\ EntriesOf(f[n + 1]) = EntriesOf(x) \cup First(n + 1)
    OBVIOUS
  <2>1. /\ f[n] \in Like(x)
        /\ f[n].number_of_entries = x.number_of_entries + n
        /\ Len(Chained(f[n])) = Len(Chained(x)) + n
        /\ Fresh => Sound(f[n]) /\ EntriesOf(f[n]) = EntriesOf(x) \cup First(n)
    BY <1>2, <1>4
  <2>2. n \in 0 .. Len(es) - 1 /\ n + 1 \in 1 .. Len(es)
    BY <1>2
  <2> HIDE DEF S, First, Fresh
  <2>3. PICK e \in EntrySet : e = es[n + 1]
    BY <1>2, <2>2
  <2>4. f[n + 1] = insertIndex(f[n], e)
    BY <1>1, <2>2, <2>3, Zenon DEF InsertWalk
  <2>5. Shaped(f[n]) /\ Like(f[n]) = Like(x)
    BY <2>1, LikeIs
  <2>6. /\ f[n + 1] \in Like(f[n])
        /\ f[n + 1].number_of_entries = f[n].number_of_entries + 1
        /\ Len(Chained(f[n + 1])) = Len(Chained(f[n])) + 1
        /\ Sound(f[n]) /\ (\A d \in EntriesOf(f[n]) : d.rid # e.rid)
             => Sound(f[n + 1]) /\ EntriesOf(f[n + 1]) = EntriesOf(f[n]) \cup {e}
    BY <2>4, <2>5, InsertAdds
  <2>7. /\ f[n + 1].number_of_entries = x.number_of_entries + (n + 1)
        /\ Len(Chained(f[n + 1])) = Len(Chained(x)) + (n + 1)
    <3>1. x.number_of_entries \in Int /\ Len(Chained(x)) \in Int
      BY EntriesAre, LenProperties DEF Chains, Shaped, Like
    <3>2. PICK u, v \in Int : u = x.number_of_entries /\ v = Len(Chained(x))
      BY <3>1, Zenon
    <3>3. /\ f[n + 1].number_of_entries = (u + n) + 1
          /\ Len(Chained(f[n + 1])) = (v + n) + 1
      BY <2>1, <2>6, <3>2, Zenon
    <3>4. (u + n) + 1 = u + (n + 1) /\ (v + n) + 1 = v + (n + 1)
      OBVIOUS
    <3> QED BY <3>2, <3>3, <3>4, Zenon
  <2>8. ASSUME Fresh
        PROVE  Sound(f[n + 1]) /\ EntriesOf(f[n + 1]) = EntriesOf(x) \cup First(n + 1)
    <3>1. First(n + 1) = First(n) \cup {e}
      <4>1. \A i : i \in 1 .. n + 1 <=> i \in 1 .. n \/ i = n + 1
        OBVIOUS
      <4> QED BY <2>3, <4>1 DEF First
    <3>2. ASSUME NEW d \in EntriesOf(f[n]) PROVE d.rid # e.rid
      <4>1. CASE d \in EntriesOf(x)
        BY <1>2, <2>2, <2>3, <2>8, <4>1 DEF Fresh
      <4>2. CASE d \in First(n)
        <5>1. PICK i \in 1 .. n : d = es[i]
          BY <4>2 DEF First
        <5>2. i \in 1 .. Len(es) /\ i # n + 1
          BY <2>2
        <5> QED BY <2>2, <2>3, <2>8, <5>1, <5>2 DEF Fresh, DistinctRids
      <4> QED BY <2>1, <2>8, <4>1, <4>2
    <3> QED BY <2>1, <2>6, <2>8, <3>1, <3>2
  <2> QED BY <2>5, <2>6, <2>7, <2>8 DEF Fresh
<1> HIDE DEF S
<1>5. Len(es) \in S
  BY <1>2, <1>3, <1>4, SetInduction
<1>6. First(Len(es)) = ToSet(es)
  BY <1>2
<1> QED BY <1>1, <1>5, <1>6 DEF S

-----------------------------------------------------------------------------
(* load_hash_table: the live tuples of the table. *)

\* The step of the walk at slot n.
Taken(x, h, n) == IF h[n].live THEN insertIndex(x, Entry(h[n].key, n)) ELSE x

\* The entry of a tuple of the table.
LEMMA EntryIn ==
    ASSUME NEW h \in Seq(Tuples), Keys \subseteq Nat, NEW n \in 1 .. Len(h)
    PROVE  /\ Entry(h[n].key, n) \in EntrySet /\ Entry(h[n].key, n).rid = n
           /\ Entry(h[n].key, n).key = h[n].key /\ h[n] \in Tuples
<1>1. h[n] \in Tuples /\ n \in Nat
  BY LenProperties
<1>2. h[n].key \in Nat
  BY <1>1 DEF Tuples
<1> QED BY <1>1, <1>2 DEF Entry, EntrySet

\* A step of the walk changes buckets and count only.
LEMMA TakenLike ==
    ASSUME NEW x, Shaped(x), NEW h \in Seq(Tuples), Keys \subseteq Nat, NEW n \in 1 .. Len(h)
    PROVE  Taken(x, h, n) \in Like(x)
<1>1. CASE h[n].live
  <2>1. PICK e \in EntrySet : e = Entry(h[n].key, n)
    BY EntryIn
  <2>2. insertIndex(x, e) \in Like(x)
    BY InsertAdds
  <2> QED BY <1>1, <2>1, <2>2 DEF Taken
<1>2. CASE ~ h[n].live
  BY <1>2 DEF Taken, Shaped
<1> QED BY <1>1, <1>2

LoadWalk(x, h, f) ==
    /\ f \in [0 .. Len(h) -> Like(x)]
    /\ f[0] = x
    /\ \A n \in 0 .. Len(h) - 1 : f[n + 1] = Taken(f[n], h, n + 1)

\* The recursive equation of load_hash_table has a solution, which is the one chosen.
LEMMA LoadUnfolds ==
    ASSUME NEW x, Shaped(x), NEW h \in Seq(Tuples), Keys \subseteq Nat
    PROVE  \E f : LoadWalk(x, h, f) /\ load_hash_table(x, h) = f[Len(h)]
<1> DEFINE N == Len(h)
           step == [p \in (1 .. N) \X Like(x) |-> Taken(p[2], h, p[1])]
           Is(f) == f = [n \in 0 .. N |-> IF n = 0 THEN x ELSE Taken(f[n - 1], h, n)]
<1>1. N \in Nat
  BY LenProperties
<1>2. step \in Steps(N, Like(x))
  <2>1. ASSUME NEW p \in (1 .. N) \X Like(x) PROVE Taken(p[2], h, p[1]) \in Like(x)
    <3>1. p[2] \in Like(x) /\ p[1] \in 1 .. N
      OBVIOUS
    <3>2. Shaped(p[2]) /\ Like(p[2]) = Like(x)
      BY <3>1, LikeIs
    <3> QED BY <3>1, <3>2, TakenLike
  <2> QED BY <2>1 DEF Steps
<1>3. x \in Like(x)
  BY DEF Shaped
<1> HIDE DEF N
<1>4. PICK f : Walks(N, Like(x), x, step, f)
  <2> HIDE DEF step
  <2> QED BY <1>1, <1>2, <1>3, WalkExists
<1>5. Is(f)
  <2>1. ASSUME NEW n \in 1 .. N PROVE f[n] = Taken(f[n - 1], h, n)
    <3>1. <<n, f[n - 1]>> \in (1 .. N) \X Like(x)
      BY <1>1, <1>4 DEF Walks
    <3>2. f[n] = step[<<n, f[n - 1]>>]
      BY <1>4 DEF Walks
    <3> QED BY <3>1, <3>2
  <2>2. \A n \in 0 .. N : n # 0 => n \in 1 .. N
    OBVIOUS
  <2> QED BY <1>4, <2>1, <2>2 DEF Walks
<1> DEFINE g == CHOOSE hh : Is(hh)
<1>6. Is(g)
  BY <1>5
<1>7. load_hash_table(x, h) = g[N]
  BY DEF load_hash_table, Taken, N
<1> HIDE DEF g
<1>8. g[0] = x /\ \A n \in 1 .. N : g[n] = Taken(g[n - 1], h, n)
  <2>1. \A n \in 0 .. N : g[n] = IF n = 0 THEN x ELSE Taken(g[n - 1], h, n)
    BY <1>6, Zenon
  <2>2. 0 \in 0 .. N /\ \A n \in 1 .. N : n \in 0 .. N /\ n # 0
    BY <1>1
  <2> QED BY <2>1, <2>2, Zenon
<1>9. Walks(N, Like(x), x, step, g)
  <2>1. g = [n \in 0 .. N |-> g[n]]
    BY <1>6
  <2>2. ASSUME NEW n \in 1 .. N, g[n - 1] \in Like(x)
        PROVE  g[n] = step[<<n, g[n - 1]>>]
    <3>1. <<n, g[n - 1]>> \in (1 .. N) \X Like(x)
      BY <2>2
    <3> QED BY <1>8, <3>1
  <2> HIDE DEF step
  <2> QED BY <1>1, <1>2, <1>3, <1>8, <2>1, <2>2, WalkIsOnly
<1>10. ASSUME NEW n \in 0 .. N - 1 PROVE g[n + 1] = Taken(g[n], h, n + 1)
  <2>1. PICK m \in 1 .. N : m = n + 1 /\ m - 1 = n
    BY <1>1
  <2>2. g[m] = Taken(g[m - 1], h, m)
    BY <1>8
  <2> QED BY <2>1, <2>2, Zenon
<1> QED BY <1>7, <1>8, <1>9, <1>10 DEF LoadWalk, Walks, N

\* The entries of the live tuples in the first n slots.
LiveBelow(h, n) == {Entry(h[r].key, r) : r \in {q \in 1 .. n : h[q].live}}

\* The index grows as its count does, and an empty one gets the live tuples.
LEMMA LoadAdds ==
    ASSUME NEW x, Shaped(x), NEW h \in Seq(Tuples), Keys \subseteq Nat
    PROVE  LET y == load_hash_table(x, h) IN
             /\ y \in Like(x)
             /\ \E m \in Nat : /\ y.number_of_entries = x.number_of_entries + m
                               /\ Len(Chained(y)) = Len(Chained(x)) + m
             /\ Sound(x) /\ EntriesOf(x) = {}
                  => Sound(y) /\ EntriesOf(y) = LiveBelow(h, Len(h))
<1>1. PICK f : LoadWalk(x, h, f) /\ load_hash_table(x, h) = f[Len(h)]
  BY LoadUnfolds
<1>2. Len(h) \in Nat
  BY LenProperties
<1>3. x.number_of_entries \in Int /\ Len(Chained(x)) \in Int
  BY EntriesAre, LenProperties DEF Chains, Shaped, Like
<1> DEFINE Fresh == Sound(x) /\ EntriesOf(x) = {}
           Grows(y) == \E m \in Nat : /\ y.number_of_entries = x.number_of_entries + m
                                      /\ Len(Chained(y)) = Len(Chained(x)) + m
           S == {n \in Nat : n <= Len(h) =>
                   /\ f[n] \in Like(x)
                   /\ Grows(f[n])
                   /\ Fresh => Sound(f[n]) /\ EntriesOf(f[n]) = LiveBelow(h, n)}
<1>4. 0 \in S
  <2>1. f[0] = x /\ x \in Like(x)
    BY <1>1 DEF LoadWalk, Shaped
  <2>2. Grows(x)
    <3>1. /\ x.number_of_entries = x.number_of_entries + 0 /\ 0 \in Nat
          /\ Len(Chained(x)) = Len(Chained(x)) + 0
      BY <1>3
    <3> QED BY <3>1, Zenon
  <2>3. LiveBelow(h, 0) = {}
    BY DEF LiveBelow
  <2> QED BY <2>1, <2>2, <2>3
<1>5. ASSUME NEW n \in Nat, n \in S PROVE n + 1 \in S
  <2> SUFFICES ASSUME n + 1 <= Len(h)
               PROVE  /\ f[n + 1] \in Like(x)
                      /\ Grows(f[n + 1])
                      /\ Fresh => /\ Sound(f[n + 1])
                                  /\ EntriesOf(f[n + 1]) = LiveBelow(h, n + 1)
    OBVIOUS
  <2>1. /\ f[n] \in Like(x)
        /\ Grows(f[n])
        /\ Fresh => Sound(f[n]) /\ EntriesOf(f[n]) = LiveBelow(h, n)
    BY <1>2, <1>5
  <2>2. n \in 0 .. Len(h) - 1 /\ n + 1 \in 1 .. Len(h) /\ \A i \in 1 .. n : i \in 1 .. Len(h)
    BY <1>2
  <2>3. f[n + 1] = Taken(f[n], h, n + 1)
    BY <1>1, <2>2, Zenon DEF LoadWalk
  <2>4. Shaped(f[n]) /\ Like(f[n]) = Like(x)
    BY <2>1, LikeIs
  <2>5. \A i : i \in 1 .. n + 1 <=> i \in 1 .. n \/ i = n + 1
    OBVIOUS
  <2>6. CASE ~ h[n + 1].live
    <3>1. f[n + 1] = f[n]
      BY <2>3, <2>6 DEF Taken
    <3>2. LiveBelow(h, n + 1) = LiveBelow(h, n)
      BY <2>5, <2>6 DEF LiveBelow
    <3> QED BY <2>1, <3>1, <3>2
  <2>7. CASE h[n + 1].live
    <3>1. PICK e \in EntrySet : e = Entry(h[n + 1].key, n + 1) /\ e.rid = n + 1
      BY <2>2, EntryIn
    <3>2. f[n + 1] = insertIndex(f[n], e)
      BY <2>3, <2>7, <3>1 DEF Taken
    <3>3. /\ f[n + 1] \in Like(f[n])
          /\ f[n + 1].number_of_entries = f[n].number_of_entries + 1
          /\ Len(Chained(f[n + 1])) = Len(Chained(f[n])) + 1
          /\ Sound(f[n]) /\ (\A d \in EntriesOf(f[n]) : d.rid # e.rid)
               => Sound(f[n + 1]) /\ EntriesOf(f[n + 1]) = EntriesOf(f[n]) \cup {e}
      BY <2>4, <3>2, InsertAdds
    <3>4. Grows(f[n + 1])
      <4>1. PICK m \in Nat : /\ f[n].number_of_entries = x.number_of_entries + m
                             /\ Len(Chained(f[n])) = Len(Chained(x)) + m
        BY <2>1
      <4>2. PICK u, v \in Int : u = x.number_of_entries /\ v = Len(Chained(x))
        BY <1>3, Zenon
      <4>3. /\ f[n + 1].number_of_entries = (u + m) + 1
            /\ Len(Chained(f[n + 1])) = (v + m) + 1
        BY <3>3, <4>1, <4>2, Zenon
      <4>4. (u + m) + 1 = u + (m + 1) /\ (v + m) + 1 = v + (m + 1) /\ m + 1 \in Nat
        OBVIOUS
      <4>5. /\ f[n + 1].number_of_entries = x.number_of_entries + (m + 1)
            /\ Len(Chained(f[n + 1])) = Len(Chained(x)) + (m + 1)
        BY <4>2, <4>3, <4>4, Zenon
      <4> QED BY <4>4, <4>5, Zenon
    <3>5. LiveBelow(h, n + 1) = LiveBelow(h, n) \cup {e}
      BY <2>5, <2>7, <3>1 DEF LiveBelow
    <3>6. ASSUME NEW d \in LiveBelow(h, n) PROVE d.rid # e.rid
      <4>1. PICK r \in 1 .. n : d = Entry(h[r].key, r)
        BY DEF LiveBelow
      <4>2. d.rid = r
        BY <2>2, <4>1, EntryIn
      <4> QED BY <3>1, <4>2
    <3> HIDE DEF Grows
    <3> QED BY <2>1, <2>4, <3>3, <3>4, <3>5, <3>6
  <2> QED BY <2>6, <2>7
<1> HIDE DEF S
<1>6. Len(h) \in S
  BY <1>2, <1>4, <1>5, SetInduction
<1> QED BY <1>1, <1>2, <1>6 DEF S

-----------------------------------------------------------------------------
(* An empty table, and the rehash. *)

LEMMA EmptyIs ==
    ASSUME NEW cap \in Nat \ {0}
    PROVE  /\ Table(cap, EmptyBuckets(cap))
           /\ Held(cap, EmptyBuckets(cap)) = {}
<1>1. <<>> \in Chains /\ ToSet(<<>>) = {} /\ DistinctRids(<<>>)
  BY DEF Chains, ToSet, DistinctRids
<1>2. /\ EmptyBuckets(cap) \in [0 .. cap - 1 -> Chains]
      /\ \A b \in 0 .. cap - 1 : EmptyBuckets(cap)[b] = <<>>
  BY <1>1 DEF EmptyBuckets
<1> QED BY <1>1, <1>2 DEF Table, Placed, Apart, Held, HeldBelow

\* An index with an empty table.
LEMMA EmptyIndexIs ==
    ASSUME NEW cap \in Nat \ {0}, NEW n \in Int, NEW f, NEW l, NEW p,
           NEW x, x = [capacity |-> cap, buckets |-> EmptyBuckets(cap),
                       number_of_entries |-> n, first |-> f, last |-> l, pages |-> p]
    PROVE  /\ Sound(x) /\ EntriesOf(x) = {} /\ Len(Chained(x)) = 0
           /\ x.number_of_entries = n /\ x.capacity = cap
           /\ x.first = f /\ x.last = l /\ x.pages = p
<1>1. /\ x.number_of_entries = n /\ x.capacity = cap
      /\ x.first = f /\ x.last = l /\ x.pages = p /\ x.buckets = EmptyBuckets(cap)
  OBVIOUS
<1>2. Table(cap, EmptyBuckets(cap)) /\ Held(cap, EmptyBuckets(cap)) = {}
  BY EmptyIs
<1>3. Shaped(x)
  BY <1>1, <1>2 DEF Shaped, Like, Table
<1>4. EntriesOf(x) = {} /\ Chained(x) \in Chains /\ ToSet(Chained(x)) = {}
  BY <1>1, <1>2, <1>3, EntriesAre
<1>5. Len(Chained(x)) = 0
  BY <1>4, ToSetOf DEF Chains
<1> QED BY <1>1, <1>2, <1>3, <1>4, <1>5 DEF Sound

\* The index a rehash begins with is empty and has the pages of the old one.
LEMMA GrownIs ==
    ASSUME NEW x, Shaped(x)
    PROVE  LET y == Grown(x) IN
             /\ Sound(y) /\ EntriesOf(y) = {} /\ Len(Chained(y)) = 0
             /\ y.number_of_entries = 0 /\ y.capacity = 10 * x.capacity
             /\ y.first = x.first /\ y.last = x.last /\ y.pages = x.pages
<1>1. x = [capacity |-> x.capacity, buckets |-> x.buckets,
           number_of_entries |-> x.number_of_entries,
           first |-> x.first, last |-> x.last, pages |-> x.pages]
  BY DEF Shaped, Like
<1>2. PICK cap \in Nat \ {0} : cap = 10 * x.capacity
  BY DEF Shaped
<1> DEFINE y == [capacity |-> cap, buckets |-> EmptyBuckets(cap),
                 number_of_entries |-> 0, first |-> x.first, last |-> x.last,
                 pages |-> x.pages]
<1>3. Grown(x) = y
  <2>1. PICK c, bk, n, f, l, p, eb :
           /\ x = [capacity |-> c, buckets |-> bk, number_of_entries |-> n,
                   first |-> f, last |-> l, pages |-> p]
           /\ eb = EmptyBuckets(cap)
    BY <1>1, Zenon
  <2>2. Grown(x) = [[[x EXCEPT !.capacity = cap] EXCEPT !.buckets = eb]
                        EXCEPT !.number_of_entries = 0]
    BY <1>2, <2>1 DEF Grown
  <2>3. Grown(x) = [capacity |-> cap, buckets |-> eb, number_of_entries |-> 0,
                    first |-> f, last |-> l, pages |-> p]
    BY <2>1, <2>2
  <2>4. f = x.first /\ l = x.last /\ p = x.pages
    BY <2>1
  <2> QED BY <2>1, <2>3, <2>4
<1>4. 0 \in Int
  OBVIOUS
<1>5. /\ Sound(y) /\ EntriesOf(y) = {} /\ Len(Chained(y)) = 0
      /\ y.number_of_entries = 0 /\ y.capacity = cap
      /\ y.first = x.first /\ y.last = x.last /\ y.pages = x.pages
  BY <1>4, EmptyIndexIs
<1> HIDE DEF y
<1> QED BY <1>2, <1>3, <1>5

\* A rehash keeps the entries and counts them.
LEMMA RehashedKeeps ==
    ASSUME NEW x, Sound(x)
    PROVE  LET y == Rehashed(x) IN
             /\ Sound(y) /\ EntriesOf(y) = EntriesOf(x)
             /\ y.number_of_entries \in Nat /\ Len(Chained(y)) = y.number_of_entries
             /\ y.first = x.first /\ y.last = x.last /\ y.pages = x.pages
<1>1. /\ Shaped(x) /\ Chained(x) \in Chains /\ ToSet(Chained(x)) = EntriesOf(x)
      /\ x.capacity \in Nat /\ x.buckets \in [0 .. x.capacity - 1 -> Chains]
  BY EntriesAre DEF Sound, Table
<1>2. DistinctRids(Chained(x))
  BY <1>1, ConcatenatedHolds, ChainedIs DEF Sound, Table
<1>3. PICK g : /\ g = Grown(x)
               /\ Sound(g) /\ Shaped(g) /\ EntriesOf(g) = {} /\ Len(Chained(g)) = 0
               /\ g.number_of_entries = 0
               /\ g.first = x.first /\ g.last = x.last /\ g.pages = x.pages
  BY <1>1, GrownIs DEF Sound
<1>4. PICK es \in Chains : es = Chained(x)
  BY <1>1
<1>5. Len(es) \in Nat
  BY LenProperties DEF Chains
<1> DEFINE y == Inserted(g, es)
<1>6. /\ y \in Like(g)
      /\ y.number_of_entries = g.number_of_entries + Len(es)
      /\ Len(Chained(y)) = Len(Chained(g)) + Len(es)
      /\ Sound(y) /\ EntriesOf(y) = EntriesOf(g) \cup ToSet(es)
  BY <1>2, <1>3, <1>4, InsertedAdds
<1> HIDE DEF y
<1>7. y.number_of_entries = Len(es) /\ Len(Chained(y)) = Len(es)
  BY <1>3, <1>5, <1>6
<1>8. y.first = g.first /\ y.last = g.last /\ y.pages = g.pages
  BY <1>3, <1>6, LikeIs
<1>9. Rehashed(x) = y
  BY <1>3, <1>4 DEF Rehashed, y
<1> QED BY <1>1, <1>3, <1>4, <1>5, <1>6, <1>7, <1>8, <1>9

-----------------------------------------------------------------------------
(* The pages. *)

IndexPage == [entries : Chains, next : Int]

\* The pages 1 .. last are one chain.
PagesSound(last, pages) ==
    /\ last \in Nat \ {0}
    /\ pages \in [1 .. last -> IndexPage]
    /\ \A p \in 1 .. last : pages[p].next = IF p = last THEN -1 ELSE p + 1

\* The entry goes to the last page, or to a new one behind it.
LEMMA OnPageKeeps ==
    ASSUME NEW x, Shaped(x), PagesSound(x.last, x.pages), NEW e \in EntrySet
    PROVE  LET y == OnPage(x, e) IN
             /\ Shaped(y) /\ PagesSound(y.last, y.pages)
             /\ y.capacity = x.capacity /\ y.buckets = x.buckets
             /\ y.number_of_entries = x.number_of_entries
<1>1. PICK c, bk, m, f, l, pg :
         /\ x = [capacity |-> c, buckets |-> bk, number_of_entries |-> m,
                 first |-> f, last |-> l, pages |-> pg]
         /\ c = x.capacity /\ bk = x.buckets /\ m = x.number_of_entries
         /\ f = x.first /\ l = x.last /\ pg = x.pages
  BY Zenon DEF Shaped, Like
<1>2. /\ c \in Nat \ {0} /\ bk \in [0 .. c - 1 -> Chains] /\ m \in Int
  BY <1>1 DEF Shaped, Like
<1>3. PagesSound(l, pg) /\ l \in Nat \ {0} /\ pg \in [1 .. l -> IndexPage]
  BY <1>1, Zenon DEF PagesSound
<1>4. ASSUME NEW l2, NEW pg2, PagesSound(l2, pg2), NEW y,
             y = [capacity |-> c, buckets |-> bk, number_of_entries |-> m,
                  first |-> f, last |-> l2, pages |-> pg2]
      PROVE  /\ Shaped(y) /\ PagesSound(y.last, y.pages)
             /\ y.capacity = x.capacity /\ y.buckets = x.buckets
             /\ y.number_of_entries = x.number_of_entries
  <2>1. /\ y.capacity = c /\ y.buckets = bk /\ y.number_of_entries = m
        /\ y.first = f /\ y.last = l2 /\ y.pages = pg2
    BY <1>4
  <2>2. y \in Like(y)
    BY <1>2, <1>4, <2>1 DEF Like
  <2> QED BY <1>1, <1>2, <1>4, <2>1, <2>2 DEF Shaped
<1>5. CASE Len(pg[l].entries) < PerPage
  <2>1. PICK es \in Chains : es = Append(pg[l].entries, e)
    <3>1. pg[l].entries \in Chains
      BY <1>3 DEF IndexPage
    <3> QED BY <3>1, AppendProperties DEF Chains
  <2>2. PICK pg2 : pg2 = [pg EXCEPT ![l].entries = es]
    OBVIOUS
  <2>3. OnPage(x, e) = [x EXCEPT !.pages = pg2]
    BY <1>1, <1>5, <2>1, <2>2 DEF OnPage
  <2>4. OnPage(x, e) = [capacity |-> c, buckets |-> bk, number_of_entries |-> m,
                        first |-> f, last |-> l, pages |-> pg2]
    BY <1>1, <2>3
  <2>5. PagesSound(l, pg2)
    <3>1. \A p \in 1 .. l : pg[p] \in IndexPage
      BY <1>3
    <3>2. /\ pg2 \in [1 .. l -> IndexPage]
          /\ \A p \in 1 .. l : pg2[p].next = pg[p].next
      BY <1>3, <2>1, <2>2, <3>1 DEF IndexPage
    <3> QED BY <1>3, <3>2 DEF PagesSound
  <2> QED BY <1>4, <2>4, <2>5
<1>6. CASE ~ (Len(pg[l].entries) < PerPage)
  <2>1. DOMAIN pg = 1 .. l /\ Cardinality(DOMAIN pg) = l
    <3>1. DOMAIN pg = 1 .. l /\ 1 \in Int /\ l \in Int /\ ~ (1 > l)
      BY <1>3
    <3>2. Cardinality(1 .. l) = l - 1 + 1
      BY <3>1, FS_Interval
    <3> QED BY <3>1, <3>2
  <2>2. PICK l2, new : l2 = l + 1 /\ new = [EmptyPage EXCEPT !.entries = <<e>>]
    OBVIOUS
  <2>3. PICK pg2 : pg2 = [p \in 1 .. l \cup {l2} |->
                            IF p = l2 THEN new
                            ELSE IF p = l THEN [pg[p] EXCEPT !.next = l2]
                            ELSE pg[p]]
    OBVIOUS
  <2>4. OnPage(x, e) = [[x EXCEPT !.last = l2] EXCEPT !.pages = pg2]
    <3>1. Cardinality(DOMAIN x.pages) + 1 = l2 /\ DOMAIN x.pages = 1 .. l
      BY <1>1, <2>1, <2>2, Zenon
    <3>2. OnPage(x, e) = OnNewPage(x, e)
      BY <1>1, <1>6, Zenon DEF OnPage
    <3>3. x.last = l /\ x.pages = pg
      BY <1>1, Zenon
    <3>4. OnNewPage(x, e)
            = [x EXCEPT !.last = l2,
                        !.pages = [p \in DOMAIN x.pages \cup {l2} |->
                            IF p = l2 THEN [EmptyPage EXCEPT !.entries = <<e>>]
                            ELSE IF p = x.last THEN [x.pages[p] EXCEPT !.next = l2]
                            ELSE x.pages[p]]]
      BY <3>1 DEF OnNewPage
    <3>5. OnNewPage(x, e) = [x EXCEPT !.last = l2, !.pages = pg2]
      BY <2>2, <2>3, <3>1, <3>3, <3>4
    <3> QED BY <1>1, <3>2, <3>5
  <2>5. OnPage(x, e) = [capacity |-> c, buckets |-> bk, number_of_entries |-> m,
                        first |-> f, last |-> l2, pages |-> pg2]
    BY <1>1, <2>4
  <2>6. PagesSound(l2, pg2)
    <3>1. new \in IndexPage /\ new.next = -1
      <4>1. <<e>> \in Chains
        BY DEF Chains
      <4> QED BY <2>2, <4>1 DEF IndexPage, EmptyPage
    <3>2. \A p \in 1 .. l : pg[p] \in IndexPage
      BY <1>3
    <3>3. /\ pg2 \in [1 .. l2 -> IndexPage]
          /\ pg2[l2] = new
          /\ \A p \in 1 .. l : pg2[p].next = IF p = l THEN l2 ELSE pg[p].next
      <4>1. 1 .. l \cup {l2} = 1 .. l2 /\ l2 \notin 1 .. l /\ l2 \in Int
        BY <1>3, <2>2
      <4>2. \A p \in 1 .. l : /\ [pg[p] EXCEPT !.next = l2] \in IndexPage
                              /\ [pg[p] EXCEPT !.next = l2].next = l2
        BY <3>2, <4>1 DEF IndexPage
      <4>3. pg2 \in [1 .. l2 -> IndexPage]
        BY <2>3, <3>1, <3>2, <4>1, <4>2
      <4>4. pg2[l2] = new
        BY <2>3, <4>1
      <4>5. \A p \in 1 .. l : pg2[p] = IF p = l THEN [pg[p] EXCEPT !.next = l2] ELSE pg[p]
        BY <2>3, <4>1
      <4> QED BY <4>2, <4>3, <4>4, <4>5
    <3>4. \A p \in 1 .. l2 : p = l2 \/ p \in 1 .. l
      BY <1>3, <2>2
    <3>5. \A p \in 1 .. l2 : pg2[p].next = IF p = l2 THEN -1 ELSE p + 1
      <4>1. ASSUME NEW p \in 1 .. l PROVE pg2[p].next = p + 1 /\ p # l2
        <5>1. CASE p = l
          BY <1>3, <2>2, <3>3, <5>1
        <5>2. CASE p # l
          BY <1>3, <2>2, <3>3, <5>2 DEF PagesSound
        <5> QED BY <5>1, <5>2
      <4> QED BY <3>1, <3>3, <3>4, <4>1
    <3>6. l2 \in Nat \ {0}
      BY <1>3, <2>2
    <3> QED BY <3>3, <3>5, <3>6 DEF PagesSound
  <2> QED BY <1>4, <2>5, <2>6
<1> QED BY <1>5, <1>6

\* What depends on the buckets only.
LEMMA SameBuckets ==
    ASSUME NEW x, NEW y, Shaped(x), Shaped(y),
           y.capacity = x.capacity, y.buckets = x.buckets
    PROVE  /\ Sound(x) => Sound(y)
           /\ EntriesOf(y) = EntriesOf(x)
           /\ Chained(y) = Chained(x)
<1>1. Chained(y) = Chained(x)
  BY ChainedIs
<1> QED BY <1>1 DEF Sound, EntriesOf

\* StaticHashIndexWrapper::Insert, with its load check, rehash and pages.
LEMMA InsertEntryAdds ==
    ASSUME NEW x, Sound(x), PagesSound(x.last, x.pages), NEW e \in EntrySet,
           \A d \in EntriesOf(x) : d.rid # e.rid
    PROVE  LET y == InsertEntry(x, e) IN
             /\ Sound(y) /\ PagesSound(y.last, y.pages)
             /\ EntriesOf(y) = EntriesOf(x) \cup {e}
             /\ Len(Chained(x)) <= x.number_of_entries
                  => Len(Chained(y)) <= y.number_of_entries
<1>1. PICK r : r = IF Crowded(x) THEN Rehashed(x) ELSE x
  OBVIOUS
<1>2. Shaped(x) /\ x.number_of_entries \in Int /\ Len(Chained(x)) \in Nat
  BY EntriesAre, LenProperties DEF Sound, Shaped, Like, Chains
<1>3. /\ Sound(r) /\ EntriesOf(r) = EntriesOf(x) /\ PagesSound(r.last, r.pages)
      /\ r.number_of_entries \in Int
      /\ Len(Chained(x)) <= x.number_of_entries
           => Len(Chained(r)) <= r.number_of_entries
  <2>1. CASE Crowded(x)
    <3>1. /\ Sound(r) /\ EntriesOf(r) = EntriesOf(x)
          /\ r.number_of_entries \in Nat /\ Len(Chained(r)) = r.number_of_entries
          /\ r.last = x.last /\ r.pages = x.pages
      BY <1>1, <2>1, RehashedKeeps
    <3> QED BY <3>1
  <2>2. CASE ~ Crowded(x)
    BY <1>1, <1>2, <2>2
  <2> QED BY <2>1, <2>2
<1>4. PICK p : p = OnPage(r, e)
  OBVIOUS
<1>5. /\ Shaped(p) /\ PagesSound(p.last, p.pages)
      /\ p.capacity = r.capacity /\ p.buckets = r.buckets
      /\ p.number_of_entries = r.number_of_entries
  BY <1>3, <1>4, OnPageKeeps DEF Sound
<1>6. Sound(p) /\ EntriesOf(p) = EntriesOf(x) /\ Chained(p) = Chained(r)
  BY <1>3, <1>5, SameBuckets DEF Sound
<1> DEFINE y == insertIndex(p, e)
<1>7. /\ y \in Like(p)
      /\ y.number_of_entries = p.number_of_entries + 1
      /\ Len(Chained(y)) = Len(Chained(p)) + 1
      /\ Sound(y) /\ EntriesOf(y) = EntriesOf(p) \cup {e}
  BY <1>5, <1>6, InsertAdds
<1> HIDE DEF y
<1>8. y.last = p.last /\ y.pages = p.pages
  BY <1>5, <1>7, LikeIs
<1>9. Len(Chained(r)) <= r.number_of_entries => Len(Chained(y)) <= y.number_of_entries
  <2>1. Len(Chained(r)) \in Nat
    BY <1>3, EntriesAre, LenProperties DEF Sound, Chains
  <2>2. PICK u, v \in Int : u = Len(Chained(r)) /\ v = r.number_of_entries
    BY <1>3, <2>1
  <2>3. Len(Chained(y)) = u + 1 /\ y.number_of_entries = v + 1
    BY <1>5, <1>6, <1>7, <2>2, Zenon
  <2>4. u <= v => u + 1 <= v + 1
    OBVIOUS
  <2> QED BY <2>2, <2>3, <2>4, Zenon
<1>10. InsertEntry(x, e) = y
  BY <1>1, <1>4 DEF InsertEntry, y
<1> QED BY <1>3, <1>5, <1>6, <1>7, <1>8, <1>9, <1>10

-----------------------------------------------------------------------------
(* Find, deleteIndex and updateIndex. *)

LEMMA LeastExists ==
    ASSUME NEW T, T \subseteq Nat, T # {}
    PROVE  \E i \in T : \A j \in T : i <= j
<1> DEFINE R == {ss \in Nat \X Nat : ss[1] < ss[2]}
<1>1. IsWellFoundedOn(R, Nat)
  BY NatLessThanWellFounded DEF OpToRel
<1>2. PICK i \in T : \A j \in T : ~ (<<j, i>> \in R)
  <2> HIDE DEF R
  <2> QED BY <1>1, WFMin
<1>3. \A j \in T : i <= j
  <2> TAKE j \in T
  <2>1. i \in Nat /\ j \in Nat /\ ~ (<<j, i>> \in R)
    BY <1>2
  <2> QED BY <2>1
<1> QED BY <1>3

\* Find returns 0 where the chain has no entry of the key, else the position of one.
LEMMA FindIs ==
    ASSUME NEW x, Shaped(x), NEW k \in Nat,
           NEW chain, chain = x.buckets[hashFunction(x, k)]
    PROVE  \/ Find(x, k) = 0 /\ \A e \in ToSet(chain) : e.key # k
           \/ /\ Find(x, k) # 0 /\ Find(x, k) \in 1 .. Len(chain)
              /\ chain[Find(x, k)].key = k
<1>1. chain \in Chains
  BY BucketOf
<1>2. Len(chain) \in Nat /\ ToSet(chain) = {chain[i] : i \in 1 .. Len(chain)}
  BY <1>1, LenProperties, ToSetOf DEF Chains
<1> DEFINE at == {i \in 1 .. Len(chain) : chain[i].key = k}
<1>3. Find(x, k) = IF at = {} THEN 0 ELSE CHOOSE i \in at : \A j \in at : i <= j
  BY DEF Find
<1>4. CASE at = {}
  BY <1>2, <1>3, <1>4
<1>5. CASE at # {}
  <2>1. \E i \in at : \A j \in at : i <= j
    <3>1. at \subseteq Nat
      BY <1>2
    <3> HIDE DEF at
    <3> QED BY <1>5, <3>1, LeastExists
  <2>2. Find(x, k) \in at
    <3> HIDE DEF at
    <3> QED BY <1>3, <1>5, <2>1
  <2> QED BY <1>2, <2>2
<1> QED BY <1>4, <1>5

\* A chain without its entry at position a.
LEMMA RemovedIs ==
    ASSUME NEW s \in Chains, DistinctRids(s), NEW a \in 1 .. Len(s)
    PROVE  /\ RemoveAt(s, a) \in Chains
           /\ Len(RemoveAt(s, a)) = Len(s) - 1
           /\ ToSet(RemoveAt(s, a)) = ToSet(s) \ {s[a]}
           /\ DistinctRids(RemoveAt(s, a))
<1>1. Len(s) \in Nat /\ \A i \in 1 .. Len(s) : s[i] \in EntrySet
  BY LenProperties DEF Chains
<1> DEFINE t == SubSeq(s, 1, a - 1)
           u == SubSeq(s, a + 1, Len(s))
           r == t \o u
<1>2. t \in Chains /\ Len(t) = a - 1 /\ \A i \in 1 .. a - 1 : t[i] = s[i]
  <2>1. 1 \in Int /\ a - 1 \in Int /\ \A i \in 1 .. a - 1 : s[i] \in EntrySet
    BY <1>1
  <2>2. /\ t \in Chains /\ Len(t) = IF 1 <= a - 1 THEN a - 1 - 1 + 1 ELSE 0
        /\ \A i \in 1 .. a - 1 - 1 + 1 : t[i] = s[1 + i - 1]
    BY <2>1, SubSeqProperties DEF Chains
  <2> HIDE DEF t
  <2> QED BY <2>2
<1>3. u \in Chains /\ Len(u) = Len(s) - a /\ \A i \in 1 .. Len(s) - a : u[i] = s[a + i]
  <2>1. a + 1 \in Int /\ Len(s) \in Int /\ \A i \in a + 1 .. Len(s) : s[i] \in EntrySet
    BY <1>1
  <2>2. /\ u \in Chains
        /\ Len(u) = IF a + 1 <= Len(s) THEN Len(s) - (a + 1) + 1 ELSE 0
        /\ \A i \in 1 .. Len(s) - (a + 1) + 1 : u[i] = s[a + 1 + i - 1]
    BY <2>1, SubSeqProperties DEF Chains
  <2> HIDE DEF u
  <2> QED BY <1>1, <2>2
<1> HIDE DEF t, u
<1>4. /\ r \in Chains /\ Len(r) = Len(s) - 1
      /\ \A i \in 1 .. Len(s) - 1 : r[i] = IF i < a THEN s[i] ELSE s[i + 1]
  <2>1. /\ r \in Chains /\ Len(r) = Len(t) + Len(u)
        /\ \A i \in 1 .. Len(t) + Len(u) : r[i] = IF i <= Len(t) THEN t[i] ELSE u[i - Len(t)]
    BY <1>2, <1>3, ConcatProperties DEF Chains
  <2> HIDE DEF r
  <2>2. Len(r) = Len(s) - 1
    BY <1>1, <1>2, <1>3, <2>1
  <2>3. ASSUME NEW i \in 1 .. Len(s) - 1 PROVE r[i] = IF i < a THEN s[i] ELSE s[i + 1]
    <3>1. CASE i < a
      <4>1. i \in 1 .. a - 1 /\ i \in 1 .. Len(t) + Len(u) /\ i <= Len(t)
        BY <1>1, <1>2, <1>3, <3>1
      <4> QED BY <1>2, <2>1, <3>1, <4>1
    <3>2. CASE ~ (i < a)
      <4>1. /\ i \in 1 .. Len(t) + Len(u) /\ ~ (i <= Len(t))
            /\ i - Len(t) \in 1 .. Len(s) - a /\ a + (i - Len(t)) = i + 1
        BY <1>1, <1>2, <1>3, <3>2
      <4>2. r[i] = u[i - Len(t)]
        BY <2>1, <4>1
      <4>3. u[i - Len(t)] = s[a + (i - Len(t))]
        BY <1>3, <4>1
      <4> QED BY <3>2, <4>1, <4>2, <4>3
    <3> QED BY <3>1, <3>2
  <2> QED BY <2>1, <2>2, <2>3
<1>5. RemoveAt(s, a) = r
  BY DEF RemoveAt, t, u
<1> HIDE DEF r
<1>6. /\ ToSet(s) = {s[i] : i \in 1 .. Len(s)}
      /\ ToSet(r) = {r[i] : i \in 1 .. Len(r)}
  BY <1>4, ToSetOf DEF Chains
<1>7. ASSUME NEW i \in 1 .. Len(r)
      PROVE  \E j \in 1 .. Len(s) : r[i] = s[j] /\ j # a /\ j = IF i < a THEN i ELSE i + 1
  <2>1. i \in 1 .. Len(s) - 1
    BY <1>4
  <2>2. CASE i < a
    BY <1>1, <1>4, <2>1, <2>2
  <2>3. CASE ~ (i < a)
    <3>1. i + 1 \in 1 .. Len(s) /\ i + 1 # a
      BY <1>1, <2>1, <2>3
    <3> QED BY <1>4, <2>1, <2>3, <3>1
  <2> QED BY <2>2, <2>3
<1>8. ToSet(r) = ToSet(s) \ {s[a]}
  <2>1. ASSUME NEW i \in 1 .. Len(r) PROVE r[i] \in ToSet(s) /\ r[i] # s[a]
    <3>1. PICK j \in 1 .. Len(s) : r[i] = s[j] /\ j # a
      BY <1>7
    <3> QED BY <1>6, <3>1 DEF DistinctRids
  <2>2. ASSUME NEW j \in 1 .. Len(s), s[j] # s[a] PROVE s[j] \in ToSet(r)
    <3>1. CASE j < a
      <4>1. j \in 1 .. Len(s) - 1 /\ r[j] = s[j]
        BY <1>1, <1>4, <3>1
      <4> QED BY <1>4, <1>6, <4>1
    <3>2. CASE j > a
      <4>1. j - 1 \in 1 .. Len(s) - 1 /\ ~ (j - 1 < a) /\ j - 1 + 1 = j
        BY <1>1, <3>2
      <4>2. r[j - 1] = s[j]
        BY <1>4, <4>1
      <4> QED BY <1>4, <1>6, <4>1, <4>2
    <3>3. j # a
      BY <2>2
    <3> QED BY <3>1, <3>2, <3>3
  <2> QED BY <1>6, <2>1, <2>2
<1>9. DistinctRids(r)
  <2> SUFFICES ASSUME NEW i \in 1 .. Len(r), NEW j \in 1 .. Len(r), r[i].rid = r[j].rid
               PROVE  i = j
    BY DEF DistinctRids
  <2>1. PICK m \in 1 .. Len(s) : r[i] = s[m] /\ m = IF i < a THEN i ELSE i + 1
    BY <1>7
  <2>2. PICK n \in 1 .. Len(s) : r[j] = s[n] /\ n = IF j < a THEN j ELSE j + 1
    BY <1>7
  <2>3. m = n
    BY <2>1, <2>2 DEF DistinctRids
  <2>4. i \in Int /\ j \in Int
    BY <1>1, <1>4
  <2> QED BY <2>1, <2>2, <2>3, <2>4
<1> QED BY <1>4, <1>5, <1>8, <1>9

\* An entry with the rid of one of bucket b is in bucket b.
LEMMA RidsStay ==
    ASSUME NEW cap, NEW bk, Table(cap, bk), NEW b \in 0 .. cap - 1,
           NEW e \in ToSet(bk[b]), NEW d \in Held(cap, bk), d.rid = e.rid
    PROVE  d \in ToSet(bk[b])
<1>1. PICK a \in 0 .. cap - 1 : d \in ToSet(bk[a])
  BY HeldIn DEF Table
<1> QED BY <1>1 DEF Table, Apart

\* deleteIndex takes one entry of the key, and counts it or not.
LEMMA UnlinkedTakes ==
    ASSUME NEW x, Sound(x), NEW k \in Nat, Find(x, k) # 0
    PROVE  LET y == Unlinked(x, k) IN
             /\ Sound(y) /\ y.last = x.last /\ y.pages = x.pages
             /\ \E e \in EntriesOf(x) : e.key = k /\ EntriesOf(y) = EntriesOf(x) \ {e}
             /\ Len(Chained(x)) <= x.number_of_entries
                  => Len(Chained(y)) <= y.number_of_entries
<1> DEFINE b == hashFunction(x, k)
           a == Find(x, k)
<1>1. Shaped(x) /\ Table(x.capacity, x.buckets) /\ x.number_of_entries \in Int
  BY DEF Sound, Shaped, Like
<1>2. PICK chain : chain = x.buckets[b]
  OBVIOUS
<1>3. /\ b \in 0 .. x.capacity - 1 /\ chain \in Chains
      /\ a \in 1 .. Len(chain) /\ chain[a].key = k
  BY <1>1, <1>2, BucketOf, FindIs
<1>4. DistinctRids(chain)
  BY <1>1, <1>2, <1>3 DEF Table, Apart
<1>5. PICK rest : rest = RemoveAt(chain, a)
  OBVIOUS
<1>6. PICK n \in Int : n = IF a = 1 THEN x.number_of_entries - 1 ELSE x.number_of_entries
  BY <1>1
<1>7. Unlinked(x, k) = Changed(x, b, rest, n)
  BY <1>2, <1>5, <1>6 DEF Unlinked, Changed
<1> HIDE DEF a, b
<1>8. /\ rest \in Chains /\ Len(rest) = Len(chain) - 1 /\ DistinctRids(rest)
      /\ ToSet(rest) = ToSet(chain) \ {chain[a]}
  BY <1>3, <1>4, <1>5, RemovedIs
<1>9. chain[a] \in ToSet(chain) /\ Len(chain) \in Nat
  BY <1>3, ToSetOf DEF Chains
<1>10. Fits(x.capacity, x.buckets, b, rest)
  <2>1. \A e \in ToSet(rest) : e.key % x.capacity = b
    BY <1>1, <1>2, <1>3, <1>8 DEF Table, Placed
  <2>2. \A e \in ToSet(rest), d \in Held(x.capacity, x.buckets) :
           d.rid = e.rid => d \in ToSet(x.buckets[b])
    BY <1>1, <1>2, <1>3, <1>8, RidsStay
  <2> QED BY <1>8, <2>1, <2>2 DEF Fits
<1>11. PICK bk2 : bk2 = Replaced(x.buckets, b, rest)
  OBVIOUS
<1>12. /\ Table(x.capacity, bk2)
       /\ Held(x.capacity, bk2)
            = (Held(x.capacity, x.buckets) \ ToSet(chain)) \cup ToSet(rest)
  BY <1>1, <1>2, <1>3, <1>8, <1>10, <1>11, ChainChanged
<1>13. PICK y : y = Changed(x, b, rest, n)
  OBVIOUS
<1>14. /\ Shaped(y) /\ y.capacity = x.capacity /\ y.buckets = bk2
       /\ y.number_of_entries = n /\ y.last = x.last /\ y.pages = x.pages
  BY <1>1, <1>3, <1>8, <1>11, <1>13, ChangedIs
<1>15. /\ EntriesOf(x) = Held(x.capacity, x.buckets)
       /\ EntriesOf(y) = Held(x.capacity, bk2)
  BY <1>1, <1>14, EntriesAre
<1>16. ToSet(chain) \subseteq EntriesOf(x)
  <2>1. x.capacity \in Nat /\ x.buckets \in [0 .. x.capacity - 1 -> Chains]
    BY <1>1 DEF Table
  <2>2. ToSet(x.buckets[b]) \subseteq Held(x.capacity, x.buckets)
    BY <1>3, <2>1, HeldIn
  <2> QED BY <1>2, <1>15, <2>2, Zenon
<1>17. EntriesOf(y) = EntriesOf(x) \ {chain[a]} /\ chain[a] \in EntriesOf(x)
  BY <1>8, <1>9, <1>12, <1>15, <1>16
<1>18. Len(Chained(x)) <= x.number_of_entries => Len(Chained(y)) <= y.number_of_entries
  <2>1. /\ Len(Chained(y)) = Len(Chained(x)) - Len(chain) + Len(rest)
        /\ Len(Chained(x)) \in Nat
    <3>1. /\ Len(Chained(Changed(x, b, rest, n)))
                = Len(Chained(x)) - Len(x.buckets[b]) + Len(rest)
          /\ Len(Chained(x)) \in Nat
      <4>1. Shaped(x) /\ rest \in Chains /\ b \in 0 .. x.capacity - 1
        BY <1>1, <1>3, <1>8
      <4> QED BY <4>1, SizeChanged
    <3> QED BY <1>2, <1>13, <3>1, Zenon
  <2>2. PICK u, v, w \in Int :
           u = Len(Chained(x)) /\ v = Len(chain) /\ w = x.number_of_entries
    BY <1>1, <1>9, <2>1
  <2>3. Len(Chained(y)) = u - v + (v - 1)
    BY <1>8, <2>1, <2>2, Zenon
  <2>4. u - v + (v - 1) = u - 1
    OBVIOUS
  <2>5. y.number_of_entries = w \/ y.number_of_entries = w - 1
    BY <1>6, <1>14, <2>2
  <2>6. u <= w => u - 1 <= w /\ u - 1 <= w - 1
    OBVIOUS
  <2> QED BY <2>2, <2>3, <2>4, <2>5, <2>6, Zenon
<1> QED BY <1>3, <1>7, <1>12, <1>13, <1>14, <1>17, <1>18 DEF Sound

\* A chain with another entry at position a.
LEMMA ExchangedIs ==
    ASSUME NEW s \in Chains, DistinctRids(s), NEW a \in 1 .. Len(s), NEW e \in EntrySet,
           \A d \in ToSet(s) : d.rid # e.rid
    PROVE  /\ [s EXCEPT ![a] = e] \in Chains
           /\ Len([s EXCEPT ![a] = e]) = Len(s)
           /\ ToSet([s EXCEPT ![a] = e]) = (ToSet(s) \ {s[a]}) \cup {e}
           /\ DistinctRids([s EXCEPT ![a] = e])
<1>1. PICK t : t = [s EXCEPT ![a] = e]
  OBVIOUS
<1>2. /\ t \in Chains /\ Len(t) = Len(s)
      /\ \A j \in 1 .. Len(s) : t[j] = IF j = a THEN e ELSE s[j]
  BY <1>1, ExceptSeq DEF Chains
<1>3. /\ ToSet(s) = {s[i] : i \in 1 .. Len(s)}
      /\ ToSet(t) = {t[i] : i \in 1 .. Len(s)}
  BY <1>2, ToSetOf DEF Chains
<1>4. ToSet(t) = (ToSet(s) \ {s[a]}) \cup {e}
  <2>1. ASSUME NEW i \in 1 .. Len(s) PROVE t[i] \in (ToSet(s) \ {s[a]}) \cup {e}
    <3>1. i # a => s[i] # s[a]
      BY DEF DistinctRids
    <3> QED BY <1>2, <1>3, <3>1
  <2>2. ASSUME NEW i \in 1 .. Len(s), s[i] # s[a] PROVE s[i] \in ToSet(t)
    <3>1. t[i] = s[i]
      BY <1>2, <2>2
    <3> QED BY <1>3, <3>1
  <2>3. e \in ToSet(t)
    BY <1>2, <1>3
  <2> QED BY <1>3, <2>1, <2>2, <2>3
<1>5. DistinctRids(t)
  <2> SUFFICES ASSUME NEW i \in 1 .. Len(s), NEW j \in 1 .. Len(s), t[i].rid = t[j].rid
               PROVE  i = j
    BY <1>2 DEF DistinctRids
  <2>1. s[i].rid # e.rid /\ s[j].rid # e.rid
    BY <1>3
  <2>2. t[i] = (IF i = a THEN e ELSE s[i]) /\ t[j] = (IF j = a THEN e ELSE s[j])
    BY <1>2
  <2>3. CASE i = a \/ j = a
    BY <2>1, <2>2, <2>3
  <2>4. CASE i # a /\ j # a
    BY <2>2, <2>4 DEF DistinctRids
  <2> QED BY <2>3, <2>4
<1> QED BY <1>1, <1>2, <1>4, <1>5

\* updateIndex puts the entry in the place of one of its key, if there is one.
LEMMA UpdatedReplaces ==
    ASSUME NEW x, Sound(x), NEW k \in Nat, NEW r \in Nat, \A d \in EntriesOf(x) : d.rid # r
    PROVE  LET y == updateIndex(x, k, r) IN
             /\ Sound(y) /\ y.last = x.last /\ y.pages = x.pages
             /\ \/ y = x
                \/ \E e \in EntriesOf(x) :
                     e.key = k /\ EntriesOf(y) = (EntriesOf(x) \ {e}) \cup {Entry(k, r)}
             /\ y.number_of_entries = x.number_of_entries
             /\ Len(Chained(y)) = Len(Chained(x))
<1>1. CASE Find(x, k) = 0
  BY <1>1 DEF updateIndex
<1>2. CASE Find(x, k) # 0
  <2> DEFINE b == hashFunction(x, k)
             a == Find(x, k)
  <2>1. Shaped(x) /\ Table(x.capacity, x.buckets) /\ x.number_of_entries \in Int
    BY DEF Sound, Shaped, Like
  <2>2. PICK chain : chain = x.buckets[b]
    OBVIOUS
  <2>3. /\ b \in 0 .. x.capacity - 1 /\ chain \in Chains /\ b = k % x.capacity
        /\ a \in 1 .. Len(chain) /\ chain[a].key = k
    BY <1>2, <2>1, <2>2, BucketOf, FindIs
  <2>4. DistinctRids(chain)
    BY <2>1, <2>2, <2>3 DEF Table, Apart
  <2>5. PICK e \in EntrySet : e = Entry(k, r) /\ e.key = k /\ e.rid = r
    <3>1. Entry(k, r) \in EntrySet /\ Entry(k, r).key = k /\ Entry(k, r).rid = r
      BY DEF Entry, EntrySet
    <3> QED BY <3>1, Zenon
  <2>6. PICK new : new = [chain EXCEPT ![a] = e]
    OBVIOUS
  <2>7. updateIndex(x, k, r) = Changed(x, b, new, x.number_of_entries)
    <3>1. PICK c, bk, m, f, l, p :
             x = [capacity |-> c, buckets |-> bk, number_of_entries |-> m,
                  first |-> f, last |-> l, pages |-> p]
      BY <2>1, Zenon DEF Shaped, Like
    <3>2. PICK bk2 : bk2 = [x.buckets EXCEPT ![b] = new]
      OBVIOUS
    <3>3. Changed(x, b, new, x.number_of_entries)
            = [[x EXCEPT !.buckets = bk2] EXCEPT !.number_of_entries = x.number_of_entries]
      BY <3>2 DEF Changed
    <3>4. updateIndex(x, k, r) = [x EXCEPT !.buckets = bk2]
      BY <1>2, <2>2, <2>5, <2>6, <3>2 DEF updateIndex
    <3>5. [x EXCEPT !.buckets = bk2]
            = [[x EXCEPT !.buckets = bk2] EXCEPT !.number_of_entries = x.number_of_entries]
      BY <3>1
    <3> QED BY <3>3, <3>4, <3>5
  <2> HIDE DEF a, b
  <2>8. ToSet(chain) \subseteq EntriesOf(x) /\ EntriesOf(x) = Held(x.capacity, x.buckets)
    <3>1. x.capacity \in Nat /\ x.buckets \in [0 .. x.capacity - 1 -> Chains]
      BY <2>1 DEF Table
    <3>2. ToSet(x.buckets[b]) \subseteq Held(x.capacity, x.buckets)
      BY <2>3, <3>1, HeldIn
    <3>3. EntriesOf(x) = Held(x.capacity, x.buckets)
      BY <2>1, EntriesAre
    <3> QED BY <2>2, <3>2, <3>3, Zenon
  <2>9. /\ new \in Chains /\ Len(new) = Len(chain) /\ DistinctRids(new)
        /\ ToSet(new) = (ToSet(chain) \ {chain[a]}) \cup {e}
    <3>1. \A d \in ToSet(chain) : d.rid # e.rid
      BY <2>5, <2>8
    <3>2. a \in 1 .. Len(chain) /\ chain \in Chains
      BY <2>3
    <3> QED BY <2>4, <2>6, <3>1, <3>2, ExchangedIs
  <2>10. chain[a] \in ToSet(chain) /\ Len(chain) \in Nat
    BY <2>3, ToSetOf DEF Chains
  <2>11. Fits(x.capacity, x.buckets, b, new)
    <3>1. \A d \in ToSet(new) : d.key % x.capacity = b
      BY <2>1, <2>2, <2>3, <2>5, <2>9 DEF Table, Placed
    <3>2. ASSUME NEW c \in ToSet(new), NEW d \in Held(x.capacity, x.buckets), d.rid = c.rid
          PROVE  d \in ToSet(x.buckets[b])
      <4>1. c # e
        BY <2>5, <2>8, <3>2
      <4>2. c \in ToSet(chain)
        BY <2>9, <4>1
      <4> QED BY <2>1, <2>2, <2>3, <3>2, <4>2, RidsStay
    <3> QED BY <2>9, <3>1, <3>2 DEF Fits
  <2>12. PICK bk2 : bk2 = Replaced(x.buckets, b, new)
    OBVIOUS
  <2>13. /\ Table(x.capacity, bk2)
         /\ Held(x.capacity, bk2)
              = (Held(x.capacity, x.buckets) \ ToSet(chain)) \cup ToSet(new)
    BY <2>1, <2>2, <2>3, <2>9, <2>11, <2>12, ChainChanged
  <2>14. PICK y : y = Changed(x, b, new, x.number_of_entries)
    OBVIOUS
  <2>15. /\ Shaped(y) /\ y.capacity = x.capacity /\ y.buckets = bk2
         /\ y.number_of_entries = x.number_of_entries
         /\ y.last = x.last /\ y.pages = x.pages
    BY <2>1, <2>3, <2>9, <2>12, <2>14, ChangedIs
  <2>16. EntriesOf(y) = Held(x.capacity, bk2)
    BY <2>15, EntriesAre
  <2>17. /\ EntriesOf(y) = (EntriesOf(x) \ {chain[a]}) \cup {e}
         /\ chain[a] \in EntriesOf(x) /\ chain[a].key = k
    BY <2>3, <2>8, <2>9, <2>10, <2>13, <2>16
  <2>18. Len(Chained(y)) = Len(Chained(x))
    <3>1. /\ Len(Chained(y)) = Len(Chained(x)) - Len(chain) + Len(new)
          /\ Len(Chained(x)) \in Nat
      BY <2>1, <2>2, <2>3, <2>9, <2>14, SizeChanged
    <3>2. PICK u, v \in Int : u = Len(Chained(x)) /\ v = Len(chain)
      BY <2>10, <3>1
    <3>3. Len(Chained(y)) = u - v + v
      BY <2>9, <3>1, <3>2, Zenon
    <3>4. u - v + v = u
      OBVIOUS
    <3> QED BY <3>2, <3>3, <3>4, Zenon
  <2>19. Sound(y)
    BY <2>13, <2>15 DEF Sound
  <2> QED BY <2>5, <2>7, <2>14, <2>15, <2>17, <2>18, <2>19
<1> QED BY <1>1, <1>2

-----------------------------------------------------------------------------
(* getValue: the walk along a chain. *)

\* The step of the walk at position n.
Picked(v, chain, k, n) == IF chain[n].key = k THEN Append(v, chain[n].rid) ELSE v

Values(chain, k) ==
    LET res[n \in 0 .. Len(chain)] ==
            IF n = 0 THEN <<>>
            ELSE IF chain[n].key = k THEN Append(res[n - 1], chain[n].rid)
            ELSE res[n - 1]
    IN  res[Len(chain)]

\* getValue walks the chain of its bucket.
LEMMA GetValueIs ==
    ASSUME NEW x, NEW k PROVE getValue(x, k) = Values(x.buckets[hashFunction(x, k)], k)
  BY DEF getValue, Values

GetWalk(chain, k, f) ==
    /\ f \in [0 .. Len(chain) -> Seq(Nat)]
    /\ f[0] = <<>>
    /\ \A n \in 0 .. Len(chain) - 1 : f[n + 1] = Picked(f[n], chain, k, n + 1)

\* The recursive equation of Values has a solution, which is the one chosen.
LEMMA ValuesUnfold ==
    ASSUME NEW chain \in Chains, NEW k
    PROVE  \E f : GetWalk(chain, k, f) /\ Values(chain, k) = f[Len(chain)]
<1> DEFINE N == Len(chain)
           step == [p \in (1 .. N) \X Seq(Nat) |-> Picked(p[2], chain, k, p[1])]
           Is(f) == f = [n \in 0 .. N |-> IF n = 0 THEN <<>> ELSE Picked(f[n - 1], chain, k, n)]
<1>1. N \in Nat /\ \A n \in 1 .. N : chain[n] \in EntrySet
  BY LenProperties DEF Chains
<1>2. step \in Steps(N, Seq(Nat))
  <2>1. ASSUME NEW p \in (1 .. N) \X Seq(Nat) PROVE Picked(p[2], chain, k, p[1]) \in Seq(Nat)
    <3>1. p[2] \in Seq(Nat) /\ p[1] \in 1 .. N
      OBVIOUS
    <3>2. chain[p[1]] \in EntrySet
      BY <1>1, <3>1
    <3>3. chain[p[1]].rid \in Nat
      BY <3>2 DEF EntrySet
    <3> QED BY <3>1, <3>3, AppendProperties DEF Picked
  <2> QED BY <2>1 DEF Steps
<1>3. <<>> \in Seq(Nat)
  OBVIOUS
<1> HIDE DEF N
<1>4. PICK f : Walks(N, Seq(Nat), <<>>, step, f)
  <2> HIDE DEF step
  <2> QED BY <1>1, <1>2, <1>3, WalkExists
<1>5. Is(f)
  <2>1. ASSUME NEW n \in 1 .. N PROVE f[n] = Picked(f[n - 1], chain, k, n)
    <3>1. <<n, f[n - 1]>> \in (1 .. N) \X Seq(Nat)
      BY <1>1, <1>4 DEF Walks
    <3>2. f[n] = step[<<n, f[n - 1]>>]
      BY <1>4 DEF Walks
    <3> QED BY <3>1, <3>2
  <2>2. \A n \in 0 .. N : n # 0 => n \in 1 .. N
    OBVIOUS
  <2> QED BY <1>4, <2>1, <2>2 DEF Walks
<1> DEFINE g == CHOOSE h : Is(h)
<1>6. Is(g)
  BY <1>5
<1>7. Values(chain, k) = g[N]
  BY DEF Values, Picked, N
<1> HIDE DEF g
<1>8. g[0] = <<>> /\ \A n \in 1 .. N : g[n] = Picked(g[n - 1], chain, k, n)
  <2>1. \A n \in 0 .. N : g[n] = IF n = 0 THEN <<>> ELSE Picked(g[n - 1], chain, k, n)
    BY <1>6, Zenon
  <2>2. 0 \in 0 .. N /\ \A n \in 1 .. N : n \in 0 .. N /\ n # 0
    BY <1>1
  <2> QED BY <2>1, <2>2, Zenon
<1>9. Walks(N, Seq(Nat), <<>>, step, g)
  <2>1. g = [n \in 0 .. N |-> g[n]]
    BY <1>6
  <2>2. ASSUME NEW n \in 1 .. N, g[n - 1] \in Seq(Nat)
        PROVE  g[n] = step[<<n, g[n - 1]>>]
    <3>1. <<n, g[n - 1]>> \in (1 .. N) \X Seq(Nat)
      BY <2>2
    <3> QED BY <1>8, <3>1
  <2> HIDE DEF step
  <2> QED BY <1>1, <1>2, <1>3, <1>8, <2>1, <2>2, WalkIsOnly
<1>10. ASSUME NEW n \in 0 .. N - 1 PROVE g[n + 1] = Picked(g[n], chain, k, n + 1)
  <2>1. PICK m \in 1 .. N : m = n + 1 /\ m - 1 = n
    BY <1>1
  <2>2. g[m] = Picked(g[m - 1], chain, k, m)
    BY <1>8
  <2> QED BY <2>1, <2>2, Zenon
<1> QED BY <1>7, <1>8, <1>9, <1>10 DEF GetWalk, Walks, N

\* The rids of the entries of key k at the first n positions.
RidsBelow(chain, k, n) == {chain[i].rid : i \in {j \in 1 .. n : chain[j].key = k}}

\* The walk along a chain returns the rids of the key, each once.
LEMMA ValuesAre ==
    ASSUME NEW chain \in Chains, DistinctRids(chain), NEW k
    PROVE  /\ ToSet(Values(chain, k)) = RidsBelow(chain, k, Len(chain))
           /\ Len(Values(chain, k)) = Cardinality(ToSet(Values(chain, k)))
<1>1. PICK f : GetWalk(chain, k, f) /\ Values(chain, k) = f[Len(chain)]
  BY ValuesUnfold
<1>2. Len(chain) \in Nat /\ \A i \in 1 .. Len(chain) : chain[i].rid \in Nat
  <2>1. Len(chain) \in Nat /\ \A i \in 1 .. Len(chain) : chain[i] \in EntrySet
    BY LenProperties DEF Chains
  <2> QED BY <2>1 DEF EntrySet
<1> DEFINE Once(v) == \A i, j \in 1 .. Len(v) : v[i] = v[j] => i = j
           S == {n \in Nat : n <= Len(chain) =>
                   /\ f[n] \in Seq(Nat)
                   /\ ToSet(f[n]) = RidsBelow(chain, k, n)
                   /\ Once(f[n])}
<1>3. 0 \in S
  <2>1. f[0] = <<>>
    BY <1>1 DEF GetWalk
  <2>2. <<>> \in Seq(Nat) /\ ToSet(<<>>) = {} /\ Once(<<>>)
    BY DEF ToSet
  <2>3. RidsBelow(chain, k, 0) = {}
    BY DEF RidsBelow
  <2>4. PICK v : v = f[0]
    OBVIOUS
  <2>5. v \in Seq(Nat) /\ ToSet(v) = {} /\ Once(v)
    <3>1. v = <<>>
      BY <2>1, <2>4
    <3> QED BY <2>2, <3>1
  <2> QED BY <2>3, <2>4, <2>5
<1>4. ASSUME NEW n \in Nat, n \in S PROVE n + 1 \in S
  <2> SUFFICES ASSUME n + 1 <= Len(chain)
               PROVE  /\ f[n + 1] \in Seq(Nat)
                      /\ ToSet(f[n + 1]) = RidsBelow(chain, k, n + 1)
                      /\ Once(f[n + 1])
    OBVIOUS
  <2>1. /\ f[n] \in Seq(Nat) /\ ToSet(f[n]) = RidsBelow(chain, k, n) /\ Once(f[n])
    BY <1>2, <1>4
  <2>2. /\ n \in 0 .. Len(chain) - 1 /\ n + 1 \in 1 .. Len(chain)
        /\ \A i \in 1 .. n : i \in 1 .. Len(chain) /\ i # n + 1
        /\ \A i : i \in 1 .. n + 1 <=> i \in 1 .. n \/ i = n + 1
    BY <1>2
  <2>3. f[n + 1] = Picked(f[n], chain, k, n + 1)
    BY <1>1, <2>2, Zenon DEF GetWalk
  <2>4. CASE chain[n + 1].key # k
    <3>1. f[n + 1] = f[n]
      BY <2>3, <2>4 DEF Picked
    <3>2. RidsBelow(chain, k, n + 1) = RidsBelow(chain, k, n)
      BY <2>2, <2>4 DEF RidsBelow
    <3> QED BY <2>1, <3>1, <3>2
  <2>5. CASE chain[n + 1].key = k
    <3>1. PICK r \in Nat : r = chain[n + 1].rid
      BY <1>2, <2>2
    <3>2. f[n + 1] = Append(f[n], r)
      BY <2>3, <2>5, <3>1 DEF Picked
    <3>3. RidsBelow(chain, k, n + 1) = RidsBelow(chain, k, n) \cup {r}
      BY <2>2, <2>5, <3>1 DEF RidsBelow
    <3>4. r \notin RidsBelow(chain, k, n)
      BY <2>2, <3>1 DEF RidsBelow, DistinctRids
    <3>5. f[n + 1] \in Seq(Nat) /\ ToSet(f[n + 1]) = ToSet(f[n]) \cup {r}
      <4>1. PICK v \in Seq(Nat) : v = f[n]
        BY <2>1
      <4>2. /\ Append(v, r) \in Seq(Nat)
            /\ ToSet(Append(v, r)) = ToSet(v) \cup {r}
        BY InAppend
      <4> QED BY <3>2, <4>1, <4>2, Zenon
    <3>6. Once(f[n + 1])
      <4>1. PICK v \in Seq(Nat) : v = f[n]
        BY <2>1
      <4>2. PICK w : w = f[n + 1]
        OBVIOUS
      <4>3. /\ Len(w) = Len(v) + 1 /\ Len(v) \in Nat
            /\ \A i \in 1 .. Len(v) : w[i] = v[i]
            /\ w[Len(v) + 1] = r
        BY <3>2, <4>1, <4>2, AppendProperties, LenProperties
      <4>4. \A i \in 1 .. Len(v) : v[i] # r
        BY <2>1, <3>4, <4>1, ToSetOf
      <4>5. \A i \in 1 .. Len(w) : i \in 1 .. Len(v) \/ i = Len(v) + 1
        BY <4>3
      <4>6. Once(v)
        BY <2>1, <4>1
      <4>7. Once(w)
        BY <4>3, <4>4, <4>5, <4>6
      <4> QED BY <4>2, <4>7
    <3> QED BY <2>1, <3>3, <3>5, <3>6
  <2> QED BY <2>4, <2>5
<1> HIDE DEF S
<1>5. Len(chain) \in S
  BY <1>2, <1>3, <1>4, SetInduction
<1>6. PICK v \in Seq(Nat) : /\ v = Values(chain, k) /\ Once(v)
                            /\ ToSet(v) = RidsBelow(chain, k, Len(chain))
  BY <1>1, <1>2, <1>5 DEF S
<1>7. Len(v) = Cardinality(ToSet(v))
  <2>1. Len(v) \in Nat /\ ToSet(v) = {v[i] : i \in 1 .. Len(v)} /\ v \in [1 .. Len(v) -> Nat]
    BY ToSetOf, LenProperties
  <2>2. v \in [1 .. Len(v) -> ToSet(v)]
    BY <2>1
  <2>3. v \in Surjection(1 .. Len(v), ToSet(v)) /\ v \in Injection(1 .. Len(v), ToSet(v))
    BY <1>6, <2>1, <2>2 DEF Surjection, Injection, IsInjective
  <2>4. IsFiniteSet(1 .. Len(v)) /\ Cardinality(1 .. Len(v)) = Len(v)
    <3>1. 1 \in Int /\ Len(v) \in Int
      BY <2>1
    <3>2. /\ IsFiniteSet(1 .. Len(v))
          /\ Cardinality(1 .. Len(v)) = IF 1 > Len(v) THEN 0 ELSE Len(v) - 1 + 1
      BY <3>1, FS_Interval
    <3> QED BY <2>1, <3>2
  <2>5. Cardinality(ToSet(v)) = Cardinality(1 .. Len(v))
    BY <2>3, <2>4, FS_Surjection
  <2> QED BY <2>4, <2>5
<1> QED BY <1>6, <1>7

-----------------------------------------------------------------------------
(* The invariant. *)

\* The buckets hold every entry once, where its key belongs; the pages are one
\* chain; the count covers the chains unless an empty bucket was read.  Nothing
\* is said of the tuples: any of them may be indexed, or none.
IndexSound ==
    /\ heap \in Seq(Tuples)
    /\ Sound(index)
    /\ PagesSound(index.last, index.pages)
    /\ CountCovers

\* Types of the two counts.
LEMMA CountIs ==
    ASSUME NEW x, Shaped(x)
    PROVE  x.number_of_entries \in Int /\ Len(Chained(x)) \in Nat
  BY EntriesAre, LenProperties DEF Shaped, Like, Chains

\* createIndex makes a sound index.
LEMMA InitSound == ASSUME HashConstants, Init PROVE IndexSound
<1>1. PICK pg : pg = [p \in {1, 2} |-> IF p = 1 THEN [EmptyPage EXCEPT !.next = 2]
                                       ELSE EmptyPage]
  OBVIOUS
<1>2. index = [capacity |-> TableSize, buckets |-> EmptyBuckets(TableSize),
               number_of_entries |-> 0, first |-> 1, last |-> 2, pages |-> pg]
  BY <1>1 DEF Init, NewIndex
<1>3. TableSize \in Nat \ {0} /\ 0 \in Int
  BY DEF HashConstants
<1>4. /\ Sound(index) /\ Len(Chained(index)) = 0 /\ index.number_of_entries = 0
      /\ index.last = 2 /\ index.pages = pg
  BY <1>2, <1>3, EmptyIndexIs
<1>5. PagesSound(2, pg)
  <2>1. <<>> \in Chains
    BY DEF Chains
  <2>2. [EmptyPage EXCEPT !.next = 2] = [entries |-> <<>>, next |-> 2]
    BY DEF EmptyPage
  <2>3. {1, 2} = 1 .. 2
    OBVIOUS
  <2>4. pg[1] = [entries |-> <<>>, next |-> 2] /\ pg[2] = [entries |-> <<>>, next |-> -1]
    BY <1>1, <2>2 DEF EmptyPage
  <2>5. pg \in [1 .. 2 -> IndexPage]
    BY <1>1, <2>1, <2>2, <2>3 DEF IndexPage, EmptyPage
  <2> QED BY <2>4, <2>5 DEF PagesSound
<1>6. heap \in Seq(Tuples)
  BY DEF Init
<1> QED BY <1>4, <1>5, <1>6 DEF IndexSound, CountCovers

\* Indexing a tuple that is not indexed.
LEMMA InsertKeeps ==
    ASSUME HashConstants, IndexSound, NEW r \in 1 .. Len(heap), Insert(r)
    PROVE  /\ IndexSound'
           /\ EntriesOf(index') = EntriesOf(index) \cup {Entry(heap[r].key, r)}
<1>1. Keys \subseteq Nat /\ heap \in Seq(Tuples)
  BY DEF HashConstants, IndexSound
<1>2. PICK e \in EntrySet : e = Entry(heap[r].key, r) /\ e.rid = r
  BY <1>1, EntryIn
<1>3. /\ r \notin Indexed(index) /\ index' = InsertEntry(index, e)
      /\ heap' = heap /\ wild' = wild
  BY <1>2 DEF Insert
<1>4. Sound(index) /\ Shaped(index) /\ PagesSound(index.last, index.pages) /\ CountCovers
  BY DEF IndexSound, Sound
<1>5. \A d \in EntriesOf(index) : d.rid # e.rid
  BY <1>2, <1>3, <1>4, EntriesAre
<1>6. /\ Sound(index') /\ PagesSound(index'.last, index'.pages)
      /\ EntriesOf(index') = EntriesOf(index) \cup {e}
      /\ Len(Chained(index)) <= index.number_of_entries
           => Len(Chained(index')) <= index'.number_of_entries
  BY <1>3, <1>4, <1>5, InsertEntryAdds
<1> QED BY <1>1, <1>2, <1>3, <1>4, <1>6 DEF IndexSound, CountCovers

\* Delete of a key whose bucket holds something.
LEMMA DeleteKeeps ==
    ASSUME HashConstants, IndexSound, NEW k \in Keys, Delete(k)
    PROVE  /\ IndexSound'
           /\ \/ /\ EntriesOf(index') = EntriesOf(index)
                 /\ \A e \in EntriesOf(index) : e.key # k
              \/ \E e \in EntriesOf(index) :
                   e.key = k /\ EntriesOf(index') = EntriesOf(index) \ {e}
<1>1. k \in Nat /\ heap \in Seq(Tuples)
  BY DEF HashConstants, IndexSound
<1>2. /\ index' = IF Find(index, k) = 0 THEN index ELSE Unlinked(index, k)
      /\ heap' = heap /\ wild' = wild
  BY DEF Delete
<1>3. Sound(index) /\ Shaped(index) /\ PagesSound(index.last, index.pages) /\ CountCovers
  BY DEF IndexSound, Sound
<1>4. CASE Find(index, k) = 0
  <2>1. index' = index
    BY <1>2, <1>4
  <2>2. ASSUME NEW e \in EntriesOf(index), e.key = k PROVE FALSE
    <3>1. Table(index.capacity, index.buckets)
      BY <1>3 DEF Sound
    <3>2. PICK b \in 0 .. index.capacity - 1 : e \in ToSet(index.buckets[b])
      BY <1>3, <2>2, <3>1, HeldIn, EntriesAre DEF Table
    <3>3. b = hashFunction(index, k)
      BY <1>1, <1>3, <2>2, <3>1, <3>2, BucketOf DEF Table, Placed
    <3>4. \A d \in ToSet(index.buckets[b]) : d.key # k
      BY <1>1, <1>3, <1>4, <3>3, FindIs
    <3> QED BY <2>2, <3>2, <3>4
  <2> QED BY <1>1, <1>2, <1>3, <2>1, <2>2 DEF IndexSound, CountCovers
<1>5. CASE Find(index, k) # 0
  <2>1. /\ Sound(index') /\ index'.last = index.last /\ index'.pages = index.pages
        /\ \E e \in EntriesOf(index) :
             e.key = k /\ EntriesOf(index') = EntriesOf(index) \ {e}
        /\ Len(Chained(index)) <= index.number_of_entries
             => Len(Chained(index')) <= index'.number_of_entries
    BY <1>1, <1>2, <1>3, <1>5, UnlinkedTakes
  <2> QED BY <1>1, <1>2, <1>3, <2>1 DEF IndexSound, CountCovers
<1> QED BY <1>4, <1>5

\* Delete of a key whose bucket is empty.
LEMMA DeleteAbsentKeeps ==
    ASSUME IndexSound, NEW k, DeleteAbsent(k)
    PROVE  IndexSound'
<1>1. /\ wild' = TRUE /\ heap' = heap
      /\ index' = index \/ index' = [index EXCEPT !.number_of_entries = @ - 1]
  BY DEF DeleteAbsent
<1>2. CASE index' = index
  BY <1>1, <1>2 DEF IndexSound, CountCovers
<1>3. CASE index' = [index EXCEPT !.number_of_entries = @ - 1]
  <2>1. Shaped(index) /\ index.number_of_entries - 1 \in Int
    BY DEF IndexSound, Sound, Shaped, Like
  <2>2. PICK c, bk, m, f, l, p :
           /\ index = [capacity |-> c, buckets |-> bk, number_of_entries |-> m,
                       first |-> f, last |-> l, pages |-> p]
           /\ c = index.capacity /\ bk = index.buckets /\ m = index.number_of_entries
           /\ f = index.first /\ l = index.last /\ p = index.pages
    BY <2>1, Zenon DEF Shaped, Like
  <2>3. index' = [capacity |-> c, buckets |-> bk, number_of_entries |-> m - 1,
                  first |-> f, last |-> l, pages |-> p]
    BY <1>3, <2>2
  <2>4. /\ index'.capacity = c /\ index'.buckets = bk /\ index'.number_of_entries = m - 1
        /\ index'.first = f /\ index'.last = l /\ index'.pages = p
    BY <2>3
  <2>5. c \in Nat \ {0} /\ bk \in [0 .. c - 1 -> Chains] /\ m - 1 \in Int
    BY <2>1, <2>2 DEF Shaped, Like
  <2>6. Shaped(index')
    BY <2>3, <2>4, <2>5 DEF Shaped, Like
  <2>7. Sound(index')
    BY <2>1, <2>2, <2>4, <2>6, SameBuckets DEF IndexSound
  <2> QED BY <1>1, <2>2, <2>4, <2>7 DEF IndexSound, CountCovers
<1> QED BY <1>1, <1>2, <1>3

\* updateIndex to a tuple that is not indexed.
LEMMA UpdateKeeps ==
    ASSUME HashConstants, IndexSound, NEW r \in 1 .. Len(heap), Update(r)
    PROVE  /\ IndexSound'
           /\ \/ EntriesOf(index') = EntriesOf(index)
              \/ \E e \in EntriesOf(index) :
                   /\ e.key = heap[r].key
                   /\ EntriesOf(index')
                        = (EntriesOf(index) \ {e}) \cup {Entry(heap[r].key, r)}
<1>1. Keys \subseteq Nat /\ heap \in Seq(Tuples)
  BY DEF HashConstants, IndexSound
<1>2. PICK k \in Nat : k = heap[r].key /\ r \in Nat
  <2>1. heap[r] \in Tuples /\ r \in Nat
    BY <1>1, LenProperties
  <2> QED BY <1>1, <2>1 DEF Tuples
<1>3. /\ r \notin Indexed(index) /\ index' = updateIndex(index, k, r)
      /\ heap' = heap /\ wild' = wild
  BY <1>2 DEF Update
<1>4. Sound(index) /\ Shaped(index) /\ PagesSound(index.last, index.pages) /\ CountCovers
  BY DEF IndexSound, Sound
<1>5. \A d \in EntriesOf(index) : d.rid # r
  BY <1>3, <1>4, EntriesAre
<1>6. /\ Sound(index') /\ index'.last = index.last /\ index'.pages = index.pages
      /\ \/ index' = index
         \/ \E e \in EntriesOf(index) :
              e.key = k /\ EntriesOf(index') = (EntriesOf(index) \ {e}) \cup {Entry(k, r)}
      /\ index'.number_of_entries = index.number_of_entries
      /\ Len(Chained(index')) = Len(Chained(index))
  BY <1>2, <1>3, <1>4, <1>5, UpdatedReplaces
<1>7. IndexSound'
  BY <1>1, <1>3, <1>4, <1>6 DEF IndexSound, CountCovers
<1> QED BY <1>2, <1>6, <1>7

\* A shutdown and opening again.
LEMMA ReopenKeeps ==
    ASSUME HashConstants, IndexSound, Reopen
    PROVE  /\ IndexSound'
           /\ EntriesOf(index') = {Entry(heap[r].key, r) : r \in LiveRids(heap)}
<1>1. Keys \subseteq Nat /\ heap \in Seq(Tuples)
  BY DEF HashConstants, IndexSound
<1>2. index' = Reloaded(index, heap) /\ heap' = heap /\ wild' = wild
  BY DEF Reopen
<1>3. Sound(index) /\ Shaped(index) /\ PagesSound(index.last, index.pages) /\ CountCovers
  BY DEF IndexSound, Sound
<1>0. PICK l, pg : l = index.last /\ pg = index.pages
  OBVIOUS
<1>4. PICK cap \in Nat \ {0}, n \in Int : /\ cap = index.capacity /\ n = index.number_of_entries
                                         /\ l = index.last /\ pg = index.pages
  BY <1>0, <1>3, CountIs DEF Shaped
<1>5. PICK fresh : fresh = [capacity |-> cap, buckets |-> EmptyBuckets(cap),
                            number_of_entries |-> n, first |-> 1, last |-> l, pages |-> pg]
  OBVIOUS
<1>6. Reloaded(index, heap) = load_hash_table(fresh, heap)
  <2>1. PICK bk, pp, eb : NewIndex = [capacity |-> TableSize, buckets |-> bk,
                                      number_of_entries |-> 0, first |-> 1, last |-> 2,
                                      pages |-> pp]
                          /\ eb = EmptyBuckets(cap)
    BY DEF NewIndex
  <2>2. /\ Metadata(index).last = l /\ Metadata(index).number_of_entries = n
        /\ Metadata(index).capacity = cap
    BY <1>4 DEF Metadata
  <2>3. [NewIndex EXCEPT
           !.last = l, !.number_of_entries = n,
           !.capacity = cap, !.buckets = eb, !.pages = pg] = fresh
    <3>1. PICK x, t : x = NewIndex /\ t = TableSize
      OBVIOUS
    <3>2. x = [capacity |-> t, buckets |-> bk, number_of_entries |-> 0,
               first |-> 1, last |-> 2, pages |-> pp]
      BY <2>1, <3>1, Zenon
    <3>3. PICK y : y = [[x EXCEPT !.last = l] EXCEPT !.number_of_entries = n]
      OBVIOUS
    <3>4. y = [capacity |-> t, buckets |-> bk, number_of_entries |-> n,
               first |-> 1, last |-> l, pages |-> pp]
      BY <3>2, <3>3
    <3>5. PICK z : z = [[[y EXCEPT !.capacity = cap] EXCEPT !.buckets = eb] EXCEPT !.pages = pg]
      OBVIOUS
    <3>6. z = [capacity |-> cap, buckets |-> eb, number_of_entries |-> n,
               first |-> 1, last |-> l, pages |-> pg]
      BY <3>4, <3>5
    <3>7. z = fresh
      BY <1>5, <2>1, <3>6, Zenon
    <3>8. [x EXCEPT !.last = l, !.number_of_entries = n,
                    !.capacity = cap, !.buckets = eb, !.pages = pg] = z
      BY <3>2, <3>3, <3>5
    <3> QED BY <3>1, <3>7, <3>8, Zenon
  <2> QED BY <1>4, <2>1, <2>2, <2>3 DEF Reloaded
<1>7. /\ Sound(fresh) /\ Shaped(fresh) /\ EntriesOf(fresh) = {} /\ Len(Chained(fresh)) = 0
      /\ fresh.number_of_entries = n /\ fresh.last = l /\ fresh.pages = pg
  BY <1>5, EmptyIndexIs DEF Sound
<1>8. PICK m \in Nat : /\ index' \in Like(fresh)
                       /\ index'.number_of_entries = n + m
                       /\ Len(Chained(index')) = 0 + m
                       /\ Sound(index')
                       /\ EntriesOf(index') = LiveBelow(heap, Len(heap))
  BY <1>1, <1>2, <1>6, <1>7, LoadAdds
<1>9. index'.last = l /\ index'.pages = pg
  BY <1>7, <1>8, LikeIs
<1>10. wild \/ Len(Chained(index')) <= index'.number_of_entries
  <2>1. wild \/ n >= 0
    BY <1>3, <1>4, CountIs DEF CountCovers
  <2> QED BY <1>8, <2>1
<1>11. IndexSound'
  BY <1>1, <1>2, <1>3, <1>4, <1>8, <1>9, <1>10 DEF IndexSound, CountCovers
<1>12. EntriesOf(index') = {Entry(heap[r].key, r) : r \in LiveRids(heap)}
  BY <1>8 DEF LiveBelow, LiveRids
<1> QED BY <1>11, <1>12

-----------------------------------------------------------------------------
(* The theorems. *)

\* A step of the index or of the table keeps the invariant.
LEMMA StepSound ==
    ASSUME HashConstants, IndexSound, [Next]_vars
    PROVE  IndexSound'
<1>1. CASE UNCHANGED vars
  BY <1>1 DEF IndexSound, CountCovers, vars
<1>2. CASE \E k \in Keys : InsertTuple(k)
  <2>1. PICK k \in Keys : InsertTuple(k)
    BY <1>2
  <2>2. [key |-> k, live |-> TRUE] \in Tuples
    BY DEF Tuples
  <2>3. /\ heap' = Append(heap, [key |-> k, live |-> TRUE])
        /\ index' = index /\ wild' = wild
    BY <2>1 DEF InsertTuple
  <2>4. heap' \in Seq(Tuples)
    BY <2>2, <2>3, AppendProperties DEF IndexSound
  <2> QED BY <2>3, <2>4 DEF IndexSound, CountCovers
<1>3. CASE \E k \in Keys : Delete(k)
  BY <1>3, DeleteKeeps
<1>4. CASE \E k \in Keys : DeleteAbsent(k)
  BY <1>4, DeleteAbsentKeeps
<1>5. CASE \E r \in 1 .. Len(heap) : DeleteTuple(r)
  <2>1. PICK r \in 1 .. Len(heap) : DeleteTuple(r)
    BY <1>5
  <2>2. heap \in Seq(Tuples)
    BY DEF IndexSound
  <2>3. PICK h \in Tuples : h = [heap[r] EXCEPT !.live = FALSE]
    <3>1. heap[r] \in Tuples
      BY <2>2, LenProperties
    <3>2. [heap[r] EXCEPT !.live = FALSE] \in Tuples
      BY <3>1 DEF Tuples
    <3> QED BY <3>2
  <2>4. heap' = [heap EXCEPT ![r] = h] /\ index' = index /\ wild' = wild
    BY <2>1, <2>3 DEF DeleteTuple
  <2>5. heap' \in Seq(Tuples)
    BY <2>2, <2>4, ExceptSeq
  <2> QED BY <2>4, <2>5 DEF IndexSound, CountCovers
<1>6. CASE \E r \in 1 .. Len(heap) : Insert(r)
  BY <1>6, InsertKeeps
<1>7. CASE \E r \in 1 .. Len(heap) : Update(r)
  BY <1>7, UpdateKeeps
<1>8. CASE Reopen
  BY <1>8, ReopenKeeps
<1> QED BY <1>1, <1>2, <1>3, <1>4, <1>5, <1>6, <1>7, <1>8 DEF Next

\* In every reachable state each entry is in the bucket of its key, once; the
\* pages are one chain; the count covers the entries.
THEOREM IndexInvariantHolds == ASSUME HashConstants PROVE Spec => []IndexSound
<1>1. Init => IndexSound
  BY InitSound
<1>2. IndexSound /\ [Next]_vars => IndexSound'
  BY StepSound
<1> QED BY <1>1, <1>2, PTL DEF Spec

\* Lookups are exact: of the bucket's entries those of the key, each once, and
\* no other bucket has one.
LEMMA SoundIsExact ==
    ASSUME HashConstants, IndexSound
    PROVE  LookupExact
<1>1. SUFFICES ASSUME NEW k \in Keys
               PROVE  /\ ToSet(getValue(index, k))
                           = {e.rid : e \in {f \in EntriesOf(index) : f.key = k}}
                      /\ Len(getValue(index, k)) = Cardinality(ToSet(getValue(index, k)))
  BY DEF LookupExact
<1>2. k \in Nat /\ Sound(index) /\ Shaped(index) /\ Table(index.capacity, index.buckets)
  BY DEF HashConstants, IndexSound, Sound
<1>3. PICK b, chain : b = hashFunction(index, k) /\ chain = index.buckets[b]
  OBVIOUS
<1>4. /\ b \in 0 .. index.capacity - 1 /\ chain \in Chains /\ b = k % index.capacity
  BY <1>2, <1>3, BucketOf
<1>5. DistinctRids(chain)
  BY <1>2, <1>3, <1>4 DEF Table, Apart
<1>6. PICK v : v = getValue(index, k) /\ v = Values(chain, k)
  BY <1>3, GetValueIs
<1>7. ToSet(v) = RidsBelow(chain, k, Len(chain)) /\ Len(v) = Cardinality(ToSet(v))
  BY <1>4, <1>5, <1>6, ValuesAre
<1>8. ASSUME NEW e, e.key = k
      PROVE  e \in EntriesOf(index) <=> e \in ToSet(chain)
  <2>1. /\ EntriesOf(index) = Held(index.capacity, index.buckets)
        /\ index.capacity \in Nat /\ index.buckets \in [0 .. index.capacity - 1 -> Chains]
    BY <1>2, EntriesAre DEF Table
  <2>2. e \in ToSet(chain) => e \in EntriesOf(index)
    BY <1>3, <1>4, <2>1, HeldIn
  <2>3. ASSUME e \in EntriesOf(index) PROVE e \in ToSet(chain)
    <3>1. PICK c \in 0 .. index.capacity - 1 : e \in ToSet(index.buckets[c])
      BY <2>1, <2>3, HeldIn
    <3>2. c = b
      BY <1>2, <1>4, <1>8, <3>1 DEF Table, Placed
    <3> QED BY <1>3, <3>1, <3>2
  <2> QED BY <2>2, <2>3
<1>9. RidsBelow(chain, k, Len(chain))
        = {e.rid : e \in {f \in EntriesOf(index) : f.key = k}}
  <2>1. ToSet(chain) = {chain[i] : i \in 1 .. Len(chain)}
    BY <1>4, ToSetOf DEF Chains
  <2> QED BY <1>8, <2>1 DEF RidsBelow
<1> QED BY <1>6, <1>7, <1>9

\* For every set of keys, table size, page size and number of calls and
\* restarts: a lookup returns the entries of its key, each once, and no other.
THEOREM LookupsStayExact == ASSUME HashConstants PROVE Spec => []LookupExact
<1>1. IndexSound => LookupExact
  BY SoundIsExact
<1> QED BY <1>1, IndexInvariantHolds, PTL

\* The count that the load test reads is never below the number of entries,
\* unless an empty bucket was read.
THEOREM CountStaysCovering == ASSUME HashConstants PROVE Spec => []CountCovers
<1>1. IndexSound => CountCovers
  BY DEF IndexSound
<1> QED BY <1>1, IndexInvariantHolds, PTL

\* The pages are one chain from the first to the one insertions go to.
THEOREM PagesStayChained == ASSUME HashConstants PROVE Spec => []PagesChained
<1>1. IndexSound => PagesChained
  <2> SUFFICES ASSUME IndexSound PROVE PagesChained
    OBVIOUS
  <2>1. PICK l, pg : l = index.last /\ pg = index.pages /\ PagesSound(l, pg)
    BY DEF IndexSound
  <2>2. DOMAIN pg = 1 .. l /\ 1 \in Int /\ l \in Int /\ ~ (1 > l)
    BY <2>1 DEF PagesSound
  <2>3. Cardinality(1 .. l) = l
    <3>1. Cardinality(1 .. l) = l - 1 + 1
      BY <2>2, FS_Interval
    <3> QED BY <2>2, <3>1
  <2> QED BY <2>1, <2>2, <2>3 DEF PagesChained, PagesSound
<1> QED BY <1>1, IndexInvariantHolds, PTL

\* An insertion adds its entry, whatever rehash it begins with; a Delete takes
\* one entry of its key, if there is one; an update replaces one of its key.
THEOREM CallsKeepEntries == ASSUME HashConstants PROVE Spec => HashKeepsEntries
<1> DEFINE A == ~dead' =>
        LET old == EntriesOf(index)
            new == EntriesOf(index')
        IN  /\ \A r \in Rids : Insert(r) => new = old \cup {Entry(heap[r].key, r)}
            /\ \A k \in Keys : Delete(k) =>
                 \/ new = old /\ \A e \in old : e.key # k
                 \/ \E e \in old : e.key = k /\ new = old \ {e}
            /\ \A r \in Rids : Update(r) =>
                 \/ new = old
                 \/ \E e \in old : /\ e.key = heap[r].key
                                   /\ new = (old \ {e}) \cup {Entry(heap[r].key, r)}
<1>1. IndexSound => A
  <2> SUFFICES ASSUME IndexSound PROVE A
    OBVIOUS
  <2>1. \A r \in Rids : Insert(r) =>
           EntriesOf(index') = EntriesOf(index) \cup {Entry(heap[r].key, r)}
    BY InsertKeeps DEF Rids
  <2>2. \A k \in Keys : Delete(k) =>
           \/ /\ EntriesOf(index') = EntriesOf(index)
              /\ \A e \in EntriesOf(index) : e.key # k
           \/ \E e \in EntriesOf(index) :
                e.key = k /\ EntriesOf(index') = EntriesOf(index) \ {e}
    BY DeleteKeeps
  <2>3. \A r \in Rids : Update(r) =>
           \/ EntriesOf(index') = EntriesOf(index)
           \/ \E e \in EntriesOf(index) :
                /\ e.key = heap[r].key
                /\ EntriesOf(index') = (EntriesOf(index) \ {e}) \cup {Entry(heap[r].key, r)}
    BY UpdateKeeps DEF Rids
  <2> QED BY <2>1, <2>2, <2>3
<1>2. IndexSound => [A]_vars
  BY <1>1
<1> QED BY <1>2, IndexInvariantHolds, PTL DEF HashKeepsEntries

\* After a restart the index holds the live tuples of the table, no more and no
\* fewer.
THEOREM RestartsReload == ASSUME HashConstants PROVE Spec => ReloadsTable
<1>1. IndexSound =>
        [Reopen => EntriesOf(index') = {Entry(heap[r].key, r) : r \in LiveRids(heap)}]_vars
  BY ReopenKeeps
<1> QED BY <1>1, IndexInvariantHolds, PTL DEF ReloadsTable
=============================================================================
