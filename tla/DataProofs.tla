----------------------------- MODULE DataProofs -----------------------------
(***************************************************************************)
(* For every set of leaves, every number of digits and every bound: the    *)
(* Merkle tree holds the hashes of all the committed leaves, whatever was  *)
(* committed together or rolled back, and the common types are read from   *)
(* texts as they were printed.                                             *)
(***************************************************************************)
EXTENDS Libraries, Lists, SumProofs, FunctionTheorems

-----------------------------------------------------------------------------
(* The Merkle tree: the hashes of a layer are those of the tree of all the     *)
(* committed leaves.                                                         *)

\* The module of the tree counts as the others do.
LEMMA LeafCounts == \A S : Leafs!Cardinality(S) = Cardinality(S)
BY DEF Leafs!Cardinality, Cardinality, Leafs!IsFiniteSet, IsFiniteSet

\* The sequence s has the numbers of S, in ascending order.
Lists(s, S) ==
  /\ s \in Seq(S)
  /\ \A i, j \in 1 .. Len(s) : i < j => s[i] < s[j]
  /\ \A x \in S : \E i \in 1 .. Len(s) : s[i] = x

\* Two ascending lists of the same numbers agree place by place.
LEMMA ListsPrefix ==
  ASSUME NEW S \in SUBSET Nat, NEW s, NEW t, Lists(s, S), Lists(t, S)
  PROVE  \A n \in Nat : \A i \in 1 .. n : i <= Len(s) => i <= Len(t) /\ s[i] = t[i]
<1> DEFINE G == {n \in Nat : \A i \in 1 .. n : i <= Len(s) => i <= Len(t) /\ s[i] = t[i]}
<1>1. 0 \in G
  OBVIOUS
<1>2. ASSUME NEW n \in Nat, n \in G PROVE n + 1 \in G
  <2>1. SUFFICES ASSUME n + 1 <= Len(s)
                 PROVE  n + 1 <= Len(t) /\ s[n + 1] = t[n + 1]
    <3>1. \A i \in 1 .. n + 1 : i \in 1 .. n \/ i = n + 1
      OBVIOUS
    <3> QED BY <1>2, <3>1
  <2>2. /\ Len(s) \in Nat /\ Len(t) \in Nat
        /\ \A i \in 1 .. Len(s) : s[i] \in Nat /\ s[i] \in S
        /\ \A i \in 1 .. Len(t) : t[i] \in Nat /\ t[i] \in S
    <3>1. s \in Seq(S) /\ t \in Seq(S)
      BY DEF Lists
    <3>2. \A x \in S : x \in Nat
      OBVIOUS
    <3>3. Len(s) \in Nat /\ \A i \in 1 .. Len(s) : s[i] \in S
      BY <3>1
    <3>4. Len(t) \in Nat /\ \A i \in 1 .. Len(t) : t[i] \in S
      BY <3>1
    <3> QED BY <3>2, <3>3, <3>4
  <2>3. \A i \in 1 .. n : i <= Len(s) /\ i <= Len(t) /\ s[i] = t[i]
    BY <1>2, <2>1, <2>2
  <2> HIDE DEF G
  <2>4. n + 1 \in 1 .. Len(s)
    BY <2>1, <2>2
  <2>5. PICK j \in 1 .. Len(t) : t[j] = s[n + 1]
    BY <2>2, <2>4 DEF Lists
  <2>6. j >= n + 1
    <3>1. SUFFICES ASSUME j \in 1 .. n PROVE FALSE
      BY <2>5
    <3>2. s[j] = s[n + 1] /\ j < n + 1 /\ j \in 1 .. Len(s)
      BY <2>2, <2>3, <2>5, <3>1
    <3>3. s[j] < s[n + 1]
      BY <2>4, <3>2 DEF Lists
    <3> QED BY <2>2, <2>4, <3>2, <3>3
  <2>7. n + 1 \in 1 .. Len(t)
    BY <2>2, <2>6
  <2>8. PICK l \in 1 .. Len(s) : s[l] = t[n + 1]
    BY <2>2, <2>7 DEF Lists
  <2>9. l >= n + 1
    <3>1. SUFFICES ASSUME l \in 1 .. n PROVE FALSE
      BY <2>8
    <3>2. t[l] = t[n + 1] /\ l < n + 1 /\ l \in 1 .. Len(t)
      BY <2>2, <2>3, <2>8, <3>1
    <3>3. t[l] < t[n + 1]
      BY <2>7, <3>2 DEF Lists
    <3> QED BY <2>2, <2>7, <3>2, <3>3
  <2>10. t[n + 1] <= s[n + 1]
    <3>1. n + 1 = j \/ t[n + 1] < t[j]
      BY <2>5, <2>6, <2>7 DEF Lists
    <3> QED BY <2>2, <2>4, <2>5, <2>7, <3>1
  <2>11. s[n + 1] <= t[n + 1]
    <3>1. n + 1 = l \/ s[n + 1] < s[l]
      BY <2>4, <2>8, <2>9 DEF Lists
    <3> QED BY <2>2, <2>4, <2>7, <2>8, <3>1
  <2> QED BY <2>2, <2>4, <2>7, <2>10, <2>11
<1> HIDE DEF G
<1>3. Nat \subseteq G
  BY <1>1, <1>2, NumberInduction
<1> QED BY <1>3 DEF G

\* There is one such sequence.
LEMMA ListsUnique ==
  ASSUME NEW S \in SUBSET Nat, NEW s, NEW t, Lists(s, S), Lists(t, S)
  PROVE  s = t
<1>1. /\ Len(s) \in Nat /\ Len(t) \in Nat /\ s \in Seq(S) /\ t \in Seq(S)
  BY DEF Lists
<1>2. \A i \in 1 .. Len(s) : i <= Len(t) /\ s[i] = t[i]
  <2>1. \A n \in Nat : \A i \in 1 .. n : i <= Len(s) => i <= Len(t) /\ s[i] = t[i]
    BY ListsPrefix
  <2> QED BY <1>1, <2>1
<1>3. \A i \in 1 .. Len(t) : i <= Len(s) /\ s[i] = t[i]
  <2>1. \A n \in Nat : \A i \in 1 .. n : i <= Len(t) => i <= Len(s) /\ t[i] = s[i]
    BY ListsPrefix
  <2> QED BY <1>1, <2>1
<1>4. Len(s) = Len(t)
  BY <1>1, <1>2, <1>3
<1> QED BY <1>1, <1>2, <1>4

\* A finite set with an order has an enumeration in this order; `below` has
\* what is no later than an element.
LEMMA Enumerated ==
  ASSUME NEW S, IsFiniteSet(S), NEW below,
         \A x \in S : below[x] \subseteq S /\ x \in below[x],
         \A x, y \in S : x \in below[y] \/ y \in below[x],
         \A x, y, z \in S : x \in below[y] /\ y \in below[z] => x \in below[z],
         \A x, y \in S : x \in below[y] /\ y \in below[x] => x = y
  PROVE  /\ \A x \in S : Cardinality(below[x]) \in 1 .. Cardinality(S)
         /\ \A x, y \in S : x \in below[y] /\ x # y
                              => Cardinality(below[x]) < Cardinality(below[y])
         /\ \A x, y \in S : Cardinality(below[x]) = Cardinality(below[y]) => x = y
         /\ \A k \in 1 .. Cardinality(S) : \E x \in S : Cardinality(below[x]) = k
<1> DEFINE c == [x \in S |-> Cardinality(below[x])]
<1>1. \A x \in S : IsFiniteSet(below[x]) /\ Cardinality(below[x]) \in Nat
  BY FS_Subset, FS_CardinalityType
<1>2. \A x \in S : c[x] \in 1 .. Cardinality(S)
  <2> TAKE x \in S
  <2>1. Cardinality(below[x]) <= Cardinality(S) /\ Cardinality(S) \in Nat
    BY FS_Subset, FS_CardinalityType
  <2>2. Cardinality(below[x]) # 0
    BY <1>1, FS_EmptySet
  <2> QED BY <1>1, <2>1, <2>2
<1>3. ASSUME NEW x \in S, NEW y \in S, x \in below[y], x # y
      PROVE  c[x] < c[y]
  <2>1. below[x] \subseteq below[y] /\ below[x] # below[y]
    BY <1>3
  <2>2. Cardinality(below[x]) < Cardinality(below[y])
    BY <1>1, <2>1, FS_Subset
  <2> QED BY <2>2
<1>4. \A x, y \in S : c[x] = c[y] => x = y
  BY <1>2, <1>3
<1>5. c \in [S -> 1 .. Cardinality(S)]
  BY <1>2
<1>6. \A k \in 1 .. Cardinality(S) : \E x \in S : c[x] = k
  <2> HIDE DEF c
  <2> QED BY <1>4, <1>5, Ranking
<1> QED BY <1>2, <1>3, <1>4, <1>6

\* Ascending lists a set of numbers.
LEMMA AscendingLists ==
  ASSUME NEW S \in SUBSET Nat, IsFiniteSet(S)
  PROVE  Lists(Leafs!Ascending(S), S) /\ Len(Leafs!Ascending(S)) = Cardinality(S)
<1> DEFINE below == [i \in S |-> {j \in S : j <= i}]
           c == [i \in S |-> Leafs!Cardinality({j \in S : j <= i})]
           s == [k \in 1 .. Leafs!Cardinality(S) |-> CHOOSE i \in S : c[i] = k]
<1>1. Leafs!Ascending(S) = s
  BY DEF Leafs!Ascending
<1>2. /\ \A x \in S : below[x] \subseteq S /\ x \in below[x]
      /\ \A x, y \in S : x \in below[y] <=> x <= y
  OBVIOUS
<1>3. /\ \A x, y \in S : x \in below[y] \/ y \in below[x]
      /\ \A x, y, z \in S : x \in below[y] /\ y \in below[z] => x \in below[z]
      /\ \A x, y \in S : x \in below[y] /\ y \in below[x] => x = y
  <2>1. S \subseteq Nat
    OBVIOUS
  <2> HIDE DEF below
  <2> QED BY <1>2, <2>1
<1>4. \A x \in S : c[x] = Cardinality(below[x])
  BY LeafCounts
<1> HIDE DEF below, c
<1>5. /\ \A x \in S : c[x] \in 1 .. Cardinality(S)
      /\ \A x, y \in S : x \in below[y] /\ x # y => c[x] < c[y]
      /\ \A x, y \in S : c[x] = c[y] => x = y
      /\ \A k \in 1 .. Cardinality(S) : \E x \in S : c[x] = k
  <2>1. /\ \A x \in S : Cardinality(below[x]) \in 1 .. Cardinality(S)
        /\ \A x, y \in S : x \in below[y] /\ x # y
                             => Cardinality(below[x]) < Cardinality(below[y])
        /\ \A x, y \in S : Cardinality(below[x]) = Cardinality(below[y]) => x = y
        /\ \A k \in 1 .. Cardinality(S) : \E x \in S : Cardinality(below[x]) = k
    BY <1>2, <1>3, Enumerated
  <2> QED BY <1>4, <2>1
<1>6. Cardinality(S) \in Nat /\ Leafs!Cardinality(S) = Cardinality(S)
  BY FS_CardinalityType, LeafCounts
<1>7. \A k \in 1 .. Cardinality(S) : s[k] \in S /\ c[s[k]] = k
  BY <1>5, <1>6
<1>8. s \in Seq(S) /\ Len(s) = Cardinality(S)
  BY <1>6, <1>7
<1>9. ASSUME NEW x \in S PROVE c[x] \in 1 .. Len(s) /\ s[c[x]] = x
  <2>1. c[x] \in 1 .. Cardinality(S)
    BY <1>5
  <2>2. s[c[x]] \in S /\ c[s[c[x]]] = c[x]
    BY <1>7, <2>1
  <2>3. s[c[x]] = x
    BY <1>5, <2>2
  <2> QED BY <1>8, <2>1, <2>3
<1> HIDE DEF s
<1>10. ASSUME NEW i \in 1 .. Len(s), NEW j \in 1 .. Len(s), i < j
       PROVE  s[i] < s[j]
  <2>1. s[i] \in S /\ s[j] \in S /\ c[s[i]] = i /\ c[s[j]] = j
    BY <1>7, <1>8
  <2>3. s[i] \in Nat /\ s[j] \in Nat
    BY <2>1
  <2>2. CASE s[j] <= s[i]
    <3>1. s[j] \in below[s[i]]
      BY <1>2, <2>1, <2>2
    <3>2. s[j] = s[i] \/ c[s[j]] < c[s[i]]
      BY <1>5, <2>1, <3>1
    <3> QED BY <1>6, <1>8, <1>10, <2>1, <3>2
  <2> QED BY <2>2, <2>3
<1> QED BY <1>1, <1>8, <1>9, <1>10 DEF Lists

\* What is picked has the elements at these positions, from the first.
LEMMA PickedLists ==
  ASSUME NEW s \in Seq(Nat), NEW P \in SUBSET (1 .. Len(s)),
         \A i, j \in P : i < j => s[i] < s[j]
  PROVE  Lists(Leafs!Picked(s, P), {s[i] : i \in P})
<1> DEFINE pos == Leafs!Ascending(P)
           t == Leafs!Picked(s, P)
           S == {s[i] : i \in P}
<1>1. P \in SUBSET Nat /\ IsFiniteSet(P)
  <2>1. Len(s) \in Nat /\ 1 \in Int
    OBVIOUS
  <2>2. IsFiniteSet(1 .. Len(s))
    BY <2>1, FS_Interval
  <2>3. IsFiniteSet(P)
    BY <2>2, FS_Subset
  <2>4. \A i \in P : i \in Nat
    BY <2>1
  <2> QED BY <2>3, <2>4
<1>2. Lists(pos, P)
  BY <1>1, AscendingLists
<1>3. t = [k \in DOMAIN pos |-> s[pos[k]]]
  BY DEF Leafs!Picked
<1> HIDE DEF pos, t
<1>4. /\ pos \in Seq(P) /\ \A k \in 1 .. Len(pos) : pos[k] \in P
      /\ \A k, l \in 1 .. Len(pos) : k < l => pos[k] < pos[l]
      /\ \A i \in P : \E k \in 1 .. Len(pos) : pos[k] = i
  BY <1>2 DEF Lists
<1>4a. DOMAIN pos = 1 .. Len(pos) /\ Len(pos) \in Nat
  BY <1>4
<1>5. DOMAIN t = 1 .. Len(pos) /\ \A k \in 1 .. Len(pos) : t[k] = s[pos[k]] /\ t[k] \in S
  BY <1>3, <1>4, <1>4a
<1>5a. t \in Seq(S) /\ Len(t) = Len(pos)
  BY <1>3, <1>4a, <1>5
<1>6. ASSUME NEW k \in 1 .. Len(t), NEW l \in 1 .. Len(t), k < l PROVE t[k] < t[l]
  <2>1. pos[k] \in P /\ pos[l] \in P /\ pos[k] < pos[l]
    BY <1>4, <1>5a, <1>6
  <2>2. t[k] = s[pos[k]] /\ t[l] = s[pos[l]]
    BY <1>5, <1>5a
  <2> QED BY <2>1, <2>2
<1>7. ASSUME NEW x \in S PROVE \E k \in 1 .. Len(t) : t[k] = x
  <2>1. PICK i \in P : x = s[i]
    OBVIOUS
  <2>2. PICK k \in 1 .. Len(pos) : pos[k] = i
    BY <1>4
  <2> QED BY <1>5, <1>5a, <2>1, <2>2
<1> QED BY <1>5a, <1>6, <1>7 DEF Lists, t

\* A set with a list is finite, and is listed by Ascending.
LEMMA ListedFinite ==
  ASSUME NEW S \in SUBSET Nat, NEW s, Lists(s, S)
  PROVE  IsFiniteSet(S) /\ s = Leafs!Ascending(S)
<1>1. Len(s) \in Nat /\ s \in [1 .. Len(s) -> S]
  BY DEF Lists
<1>2. s \in Surjection(1 .. Len(s), S)
  <2>1. \A x \in S : \E i \in 1 .. Len(s) : s[i] = x
    BY DEF Lists
  <2> QED BY <1>1, <2>1, Fun_IsSurj
<1>3. IsFiniteSet(1 .. Len(s))
  BY <1>1, FS_Interval
<1>4. IsFiniteSet(S)
  BY <1>2, <1>3, FS_Surjection
<1>5. Lists(Leafs!Ascending(S), S)
  BY <1>4, AscendingLists
<1> QED BY <1>4, <1>5, ListsUnique

\* The members of a list.
LEMMA ListMembers ==
  ASSUME NEW S \in SUBSET Nat, IsFiniteSet(S), NEW s, s = Leafs!Ascending(S)
  PROVE  /\ s \in Seq(S) /\ s \in Seq(Nat) /\ Len(s) \in Nat /\ DOMAIN s = 1 .. Len(s)
         /\ Len(s) = Cardinality(S) /\ (S # {} => Len(s) > 0)
         /\ \A i \in 1 .. Len(s) : s[i] \in S /\ s[i] \in Nat
         /\ \A i, j \in 1 .. Len(s) : i < j => s[i] < s[j]
         /\ \A x \in S : \E i \in 1 .. Len(s) : s[i] = x
<1>1. Lists(s, S) /\ Len(s) = Cardinality(S)
  BY AscendingLists
<1>2. s \in Seq(S) /\ (\A x \in S : \E i \in 1 .. Len(s) : s[i] = x)
      /\ \A i, j \in 1 .. Len(s) : i < j => s[i] < s[j]
  BY <1>1 DEF Lists
<1>3. Len(s) \in Nat /\ DOMAIN s = 1 .. Len(s) /\ \A i \in 1 .. Len(s) : s[i] \in S
  BY <1>2
<1>4. \A i \in 1 .. Len(s) : s[i] \in Nat
  BY <1>3
<1>5. s \in Seq(Nat)
  <2>1. s = [i \in 1 .. Len(s) |-> s[i]]
    BY <1>2
  <2> QED BY <1>3, <1>4, <2>1
<1>6. ASSUME S # {} PROVE Len(s) > 0
  <2>1. PICK x \in S : TRUE
    BY <1>6
  <2>2. PICK i \in 1 .. Len(s) : s[i] = x
    BY <1>2
  <2> QED BY <1>3, <2>2
<1> QED BY <1>1, <1>2, <1>3, <1>4, <1>5, <1>6

\* The members of a list that are in T.
PlacesOf(P, s, T) == P = {i \in DOMAIN s : s[i] \in T}

\* Filtering an ascending list gives the ascending list of what is left.
LEMMA FilteredList ==
  ASSUME NEW S \in SUBSET Nat, IsFiniteSet(S), NEW s, s = Leafs!Ascending(S), NEW T,
         NEW P, PlacesOf(P, s, T)
  PROVE  Leafs!Picked(s, P) = Leafs!Ascending(S \cap T)
<1>1. /\ s \in Seq(Nat) /\ DOMAIN s = 1 .. Len(s)
      /\ \A i, j \in 1 .. Len(s) : i < j => s[i] < s[j]
      /\ \A i \in 1 .. Len(s) : s[i] \in S
      /\ \A x \in S : \E i \in 1 .. Len(s) : s[i] = x
  BY ListMembers
<1>0. P = {i \in DOMAIN s : s[i] \in T}
  BY DEF PlacesOf
<1>2. P \in SUBSET (1 .. Len(s)) /\ \A i, j \in P : i < j => s[i] < s[j]
  BY <1>0, <1>1
<1>3. Lists(Leafs!Picked(s, P), {s[i] : i \in P})
  BY <1>1, <1>2, PickedLists
<1>4. {s[i] : i \in P} = S \cap T
  BY <1>0, <1>1
<1>5. S \cap T \in SUBSET Nat
  OBVIOUS
<1> QED BY <1>3, <1>4, <1>5, ListedFinite

-----------------------------------------------------------------------------
\* The parents of some indices.
Up(I) == {i \div 2 : i \in I}

\* Half of a number, and what is left over.
LEMMA HalfNumbers ==
  ASSUME NEW n \in Nat
  PROVE  /\ n \div 2 \in Nat /\ n % 2 \in {0, 1} /\ n = 2 * (n \div 2) + (n % 2)
OBVIOUS

\* Halving keeps the order.
LEMMA HalfAscends ==
  ASSUME NEW m \in Nat, NEW n \in Nat, m <= n
  PROVE  m \div 2 <= n \div 2
OBVIOUS

\* parent_indices: the parents of the nodes of a layer, in order and each once.
LEMMA ParentsListed ==
  ASSUME NEW I \in SUBSET Nat, IsFiniteSet(I)
  PROVE  /\ Leafs!parent_indices(Leafs!Ascending(I)) = Leafs!Ascending(Up(I))
         /\ IsFiniteSet(Up(I)) /\ Up(I) \in SUBSET Nat
<1> DEFINE s == Leafs!Ascending(I)
           t == [i \in DOMAIN s |-> Leafs!parent_index(s[i])]
           P == {i \in DOMAIN t : i = 1 \/ t[i] # t[i - 1]}
<1>0. Leafs!parent_indices(s) = Leafs!Picked(t, P)
  BY DEF Leafs!parent_indices, Leafs!dedup
<1>1. /\ Len(s) \in Nat /\ DOMAIN s = 1 .. Len(s)
      /\ \A i \in 1 .. Len(s) : s[i] \in I /\ s[i] \in Nat
      /\ \A i, j \in 1 .. Len(s) : i < j => s[i] < s[j]
      /\ \A x \in I : \E i \in 1 .. Len(s) : s[i] = x
  BY ListMembers
<1>2. \A i \in 1 .. Len(s) : t[i] = s[i] \div 2
  BY <1>1 DEF Leafs!parent_index
<1> HIDE DEF s
<1>3. DOMAIN t = 1 .. Len(s) /\ P = {i \in 1 .. Len(s) : i = 1 \/ t[i] # t[i - 1]}
  BY <1>1
<1>4. t \in Seq(Nat) /\ Len(t) = Len(s)
  <2>1. \A i \in 1 .. Len(s) : s[i] \div 2 \in Nat
    BY <1>1, HalfNumbers
  <2> QED BY <1>1, <1>2, <1>3, <2>1
<1> HIDE DEF t, P
<1>4a. \A i \in 1 .. Len(s) : t[i] \in Nat
  BY <1>4
<1>5. \A i, j \in 1 .. Len(s) : i <= j => t[i] <= t[j]
  <2> TAKE i, j \in 1 .. Len(s)
  <2>1. CASE i < j
    <3>1. s[i] <= s[j] /\ s[i] \in Nat /\ s[j] \in Nat
      BY <1>1, <2>1
    <3> QED BY <1>2, <3>1, HalfAscends
  <2>2. CASE i = j
    BY <1>4a, <2>2
  <2> QED BY <2>1, <2>2
<1>6. \A i, j \in P : i < j => t[i] < t[j]
  <2> SUFFICES ASSUME NEW i \in P, NEW j \in P, i < j PROVE t[i] < t[j]
    OBVIOUS
  <2>1. /\ i \in 1 .. Len(s) /\ j \in 1 .. Len(s) /\ j - 1 \in 1 .. Len(s) /\ i <= j - 1
        /\ t[j] # t[j - 1]
    BY <1>1, <1>3
  <2>2. t[i] <= t[j - 1] /\ t[j - 1] <= t[j]
    BY <1>5, <2>1
  <2> QED BY <1>4a, <2>1, <2>2
<1>7. P \in SUBSET (1 .. Len(t))
  BY <1>3, <1>4
<1>8. {t[i] : i \in P} = Up(I)
  <2>1. \A i \in P : t[i] \in Up(I)
    BY <1>1, <1>2, <1>3 DEF Up
  <2>2. ASSUME NEW y \in Up(I) PROVE \E i \in P : t[i] = y
    <3> DEFINE D == {i \in 1 .. Len(s) : t[i] = y}
    <3>1. PICK x \in I : y = x \div 2
      BY DEF Up
    <3>2. PICK k \in 1 .. Len(s) : s[k] = x
      BY <1>1
    <3>3. k \in D
      BY <1>2, <3>1, <3>2
    <3>4. D \in SUBSET Nat
      BY <1>1
    <3>5. PICK i \in D : \A j \in D : i <= j
      BY <3>3, <3>4, SmallestOf
    <3>6. i = 1 \/ t[i] # t[i - 1]
      <4>1. ASSUME i # 1, t[i] = t[i - 1] PROVE FALSE
        <5>1. i - 1 \in 1 .. Len(s)
          BY <1>1, <4>1
        <5>2. i - 1 \in D
          BY <4>1, <5>1
        <5> QED BY <3>4, <3>5, <5>2
      <4> QED BY <4>1
    <3> QED BY <1>3, <3>5, <3>6
  <2> QED BY <2>1, <2>2
<1>9. Up(I) \in SUBSET Nat
  BY HalfNumbers DEF Up
<1>10. Lists(Leafs!Picked(t, P), Up(I))
  BY <1>4, <1>6, <1>7, <1>8, PickedLists
<1> QED BY <1>0, <1>9, <1>10, ListedFinite DEF s

-----------------------------------------------------------------------------
\* The siblings of the first n nodes of a list that are not on the list.
LEMMA SiblingRange ==
  ASSUME NEW i \in Nat
  PROVE  /\ Leafs!get_sibling_index(i) \in Nat /\ Leafs!get_sibling_index(i) # i
         /\ Leafs!get_sibling_index(i) \div 2 = i \div 2
         /\ Leafs!get_sibling_index(Leafs!get_sibling_index(i)) = i
         /\ i % 2 = 0 => Leafs!get_sibling_index(i) = i + 1
         /\ i % 2 = 1 => Leafs!get_sibling_index(i) = i - 1
BY HalfNumbers DEF Leafs!get_sibling_index

\* Siblings keep the order of the nodes, unless the two are siblings themselves.
LEMMA SiblingsAscend ==
  ASSUME NEW i \in Nat, NEW j \in Nat, i < j, Leafs!get_sibling_index(i) # j
  PROVE  Leafs!get_sibling_index(i) < Leafs!get_sibling_index(j)
BY HalfNumbers DEF Leafs!get_sibling_index

\* difference: the siblings that are not nodes of the layer, in order.
LEMMA SiblingsListed ==
  ASSUME NEW A \in SUBSET Nat, IsFiniteSet(A), NEW s, s = Leafs!Ascending(A),
         NEW u \in Seq(Nat), Len(u) <= Len(s),
         \A i \in 1 .. Len(u) : u[i] = Leafs!get_sibling_index(s[i]),
         NEW B, B = {u[i] : i \in 1 .. Len(u)} \ A
  PROVE  Leafs!difference(u, s) = Leafs!Ascending(B) /\ IsFiniteSet(B) /\ B \in SUBSET Nat
<1> DEFINE P == {i \in DOMAIN u : u[i] \notin Leafs!ToSet(s)}
<1>1. Leafs!difference(u, s) = Leafs!Picked(u, P)
  BY DEF Leafs!difference
<1>2. /\ Len(s) \in Nat /\ DOMAIN s = 1 .. Len(s)
      /\ \A i \in 1 .. Len(s) : s[i] \in A /\ s[i] \in Nat
      /\ \A i, j \in 1 .. Len(s) : i < j => s[i] < s[j]
      /\ \A x \in A : \E i \in 1 .. Len(s) : s[i] = x
  <2> DEFINE t == Leafs!Ascending(A)
  <2>1. /\ Len(t) \in Nat /\ DOMAIN t = 1 .. Len(t)
        /\ \A i \in 1 .. Len(t) : t[i] \in A /\ t[i] \in Nat
        /\ \A i, j \in 1 .. Len(t) : i < j => t[i] < t[j]
        /\ \A x \in A : \E i \in 1 .. Len(t) : t[i] = x
    <3>1. A \in SUBSET Nat /\ IsFiniteSet(A) /\ t = Leafs!Ascending(A)
      OBVIOUS
    <3> HIDE DEF t
    <3> QED BY ONLY <3>1, ListMembers
  <2>2. t = s
    OBVIOUS
  <2> HIDE DEF t
  <2> QED BY <2>1, <2>2
<1>3. Leafs!ToSet(s) = A
  BY <1>2 DEF Leafs!ToSet
<1>4. P = {i \in 1 .. Len(u) : u[i] \notin A}
  BY <1>3
<1> HIDE DEF P
<1>5. ASSUME NEW i \in P, NEW j \in P, i < j PROVE u[i] < u[j]
  <2>1. i \in 1 .. Len(s) /\ j \in 1 .. Len(s) /\ s[i] < s[j] /\ s[i] \in Nat /\ s[j] \in Nat
    BY <1>2, <1>4, <1>5
  <2>2. u[i] # s[j] /\ u[i] = Leafs!get_sibling_index(s[i]) /\ u[j] = Leafs!get_sibling_index(s[j])
    BY <1>2, <1>4, <2>1
  <2> QED BY <2>1, <2>2, SiblingsAscend
<1>6. {u[i] : i \in P} = B /\ P \in SUBSET (1 .. Len(u))
  BY <1>4
<1>7. Lists(Leafs!Picked(u, P), B)
  BY <1>5, <1>6, PickedLists
<1>8. B \in SUBSET Nat
  <2>1. \A i \in 1 .. Len(u) : u[i] \in Nat
    OBVIOUS
  <2> QED BY <2>1
<1> QED BY <1>1, <1>7, <1>8, ListedFinite

-----------------------------------------------------------------------------
\* The children of some nodes, in a layer with the nodes 0 .. z.
Kids(P, z) == {j \in 0 .. z : j \div 2 \in P}

\* The children of some nodes have these nodes as parents.
LEMMA KidsAbove ==
  ASSUME NEW z \in Nat, NEW P \in SUBSET (0 .. z \div 2)
  PROVE  /\ Kids(P, z) \in SUBSET Nat /\ IsFiniteSet(Kids(P, z)) /\ Up(Kids(P, z)) = P
         /\ P \in SUBSET Nat /\ IsFiniteSet(P)
         /\ (P # {} => Kids(P, z) # {})
<1>1. z \div 2 \in Nat /\ \A p \in P : p \in Nat /\ p <= z \div 2
  OBVIOUS
<1>2. \A j \in 0 .. z : j \in Nat
  OBVIOUS
<1>3. Kids(P, z) \in SUBSET (0 .. z) /\ Kids(P, z) \in SUBSET Nat
  BY <1>2 DEF Kids
<1>4. IsFiniteSet(0 .. z) /\ IsFiniteSet(0 .. z \div 2)
  BY <1>1, FS_Interval
<1>5. IsFiniteSet(Kids(P, z)) /\ IsFiniteSet(P)
  BY <1>3, <1>4, FS_Subset
<1>6. ASSUME NEW p \in P PROVE 2 * p \in Kids(P, z) /\ (2 * p) \div 2 = p
  <2>1. p \in Nat /\ 2 * p \in 0 .. z /\ (2 * p) \div 2 = p
    BY <1>1
  <2> QED BY <2>1 DEF Kids
<1>7. Up(Kids(P, z)) = P
  <2>1. \A x \in Up(Kids(P, z)) : x \in P
    BY DEF Up, Kids
  <2>2. \A p \in P : p \in Up(Kids(P, z))
    BY <1>6 DEF Up
  <2> QED BY <2>1, <2>2
<1> QED BY <1>1, <1>3, <1>5, <1>6, <1>7

\* In order, the children of each node are next to each other.
LEMMA KidsListed ==
  ASSUME NEW z \in Nat, NEW P \in SUBSET (0 .. z \div 2), P # {},
         NEW p, p = Leafs!Ascending(P), NEW c, c = Leafs!Ascending(Kids(P, z))
  PROVE  /\ Len(p) \in Nat \ {0} /\ DOMAIN p = 1 .. Len(p) /\ \A k \in 1 .. Len(p) : p[k] \in P
         /\ Len(c) \in Nat /\ DOMAIN c = 1 .. Len(c) /\ 2 * Len(p) - 1 <= Len(c)
         /\ \A k \in 1 .. Len(p) :
              /\ 2 * k - 1 \in 1 .. Len(c) /\ c[2 * k - 1] = 2 * p[k]
              /\ 2 * k <= Len(c) <=> 2 * p[k] + 1 <= z
              /\ 2 * k <= Len(c) => c[2 * k] = 2 * p[k] + 1
<1> DEFINE n == Len(p)
           K == Kids(P, z)
           L == IF 2 * p[n] + 1 <= z THEN 2 * n ELSE 2 * n - 1
           t == [j \in 1 .. L |-> IF j % 2 = 1 THEN 2 * p[(j + 1) \div 2] ELSE 2 * p[j \div 2] + 1]
<1>1. K \in SUBSET Nat /\ IsFiniteSet(K) /\ P \in SUBSET Nat /\ IsFiniteSet(P)
  BY KidsAbove
<1>2. /\ n \in Nat /\ n > 0 /\ DOMAIN p = 1 .. n
      /\ \A k \in 1 .. n : p[k] \in P /\ p[k] \in Nat
      /\ \A k, l \in 1 .. n : k < l => p[k] < p[l]
      /\ \A x \in P : \E k \in 1 .. n : p[k] = x
  <2>1. P \in SUBSET Nat /\ IsFiniteSet(P) /\ p = Leafs!Ascending(P) /\ P # {}
    BY <1>1
  <2> QED BY ONLY <2>1, ListMembers
<1>3. \A x \in P : x \in Nat /\ 2 * x <= z
  <2>1. \A x \in P : x \in Nat /\ x <= z \div 2
    OBVIOUS
  <2> QED BY <2>1
<1>4. n \in 1 .. n /\ L \in Nat /\ L \in {2 * n, 2 * n - 1} /\ p[n] \in Nat
  BY <1>2
<1>5. ASSUME NEW k \in 1 .. n
      PROVE  /\ 2 * k - 1 \in 1 .. L /\ (2 * k <= L <=> 2 * p[k] + 1 <= z)
  <2>1. CASE k = n
    BY <1>2, <1>4, <2>1
  <2>2. CASE k # n
    <3>0. k < n /\ k \in Nat /\ 2 * k <= 2 * n - 2
      <4>1. n \in Nat /\ k \in 1 .. n /\ k # n
        BY <1>2, <2>2
      <4> QED BY ONLY <4>1
    <3>1. p[k] < p[n] /\ p[k] \in Nat /\ p[n] \in P
      BY <1>2, <1>4, <3>0
    <3>2. 2 * p[n] <= z /\ 2 * p[k] + 1 <= z
      BY <1>3, <1>4, <3>1
    <3>3. 2 * k <= L /\ 2 * k - 1 \in 1 .. L
      BY <1>4, <3>0
    <3> QED BY <3>2, <3>3
  <2> QED BY <2>1, <2>2
<1>6. ASSUME NEW k \in 1 .. n
      PROVE  /\ t[2 * k - 1] = 2 * p[k]
             /\ 2 * k <= L => t[2 * k] = 2 * p[k] + 1
  <2>1. (2 * k - 1) % 2 = 1 /\ ((2 * k - 1) + 1) \div 2 = k /\ (2 * k) % 2 = 0 /\ (2 * k) \div 2 = k
    OBVIOUS
  <2>2. t[2 * k - 1] = 2 * p[k]
    BY <1>5, <2>1
  <2>3. ASSUME 2 * k <= L PROVE t[2 * k] = 2 * p[k] + 1
    <3>1. 2 * k \in 1 .. L
      BY <1>4, <2>3
    <3> QED BY <2>1, <3>1
  <2> QED BY <2>2, <2>3
<1>7. ASSUME NEW j \in 1 .. L
      PROVE  \E k \in 1 .. n : \/ j = 2 * k - 1 /\ t[j] = 2 * p[k]
                               \/ j = 2 * k /\ t[j] = 2 * p[k] + 1
  <2> DEFINE m == j \div 2
  <2>1. j \in Nat /\ j >= 1 /\ j <= L
    BY <1>4
  <2>2. m \in Nat /\ j % 2 \in {0, 1} /\ j = 2 * m + (j % 2)
    BY <2>1, HalfNumbers
  <2> HIDE DEF m
  <2>3. CASE j % 2 = 1
    <3> DEFINE k == m + 1
    <3>1. k \in 1 .. n /\ j = 2 * k - 1
      <4>1. j = 2 * m + 1
        BY <2>2, <2>3
      <4> QED BY <1>2, <1>4, <2>1, <2>2, <4>1
    <3> HIDE DEF k
    <3> QED BY <1>6, <3>1
  <2>4. CASE j % 2 # 1
    <3>1. j = 2 * m
      BY <2>2, <2>4
    <3>2. m \in 1 .. n /\ 2 * m <= L
      BY <1>2, <1>4, <2>1, <2>2, <3>1
    <3> QED BY <1>6, <3>1, <3>2
  <2> QED BY <2>3, <2>4
<1>8. DOMAIN t = 1 .. L /\ t = [j \in 1 .. L |-> t[j]]
  OBVIOUS
<1> HIDE DEF t, L, n, K
<1>9. ASSUME NEW j \in 1 .. L PROVE t[j] \in K
  <2>1. PICK k \in 1 .. n : \/ j = 2 * k - 1 /\ t[j] = 2 * p[k]
                            \/ j = 2 * k /\ t[j] = 2 * p[k] + 1
    BY <1>7
  <2>2. p[k] \in P /\ p[k] \in Nat /\ 2 * p[k] <= z /\ (2 * k <= L => 2 * p[k] + 1 <= z)
    BY <1>2, <1>3, <1>5
  <2>3. (2 * p[k]) \div 2 = p[k] /\ (2 * p[k] + 1) \div 2 = p[k]
    BY <2>2
  <2>4. t[j] \in 0 .. z /\ t[j] \div 2 = p[k]
    BY <1>4, <2>1, <2>2, <2>3
  <2> QED BY <2>2, <2>4 DEF K, Kids
<1>10. ASSUME NEW i \in 1 .. L, NEW j \in 1 .. L, i < j PROVE t[i] < t[j]
  <2>1. PICK k \in 1 .. n : \/ i = 2 * k - 1 /\ t[i] = 2 * p[k]
                            \/ i = 2 * k /\ t[i] = 2 * p[k] + 1
    BY <1>7
  <2>2. PICK l \in 1 .. n : \/ j = 2 * l - 1 /\ t[j] = 2 * p[l]
                            \/ j = 2 * l /\ t[j] = 2 * p[l] + 1
    BY <1>7
  <2>3. k <= l /\ p[k] \in Nat /\ p[l] \in Nat /\ (k = l \/ p[k] < p[l])
    BY <1>2, <1>4, <1>10, <2>1, <2>2
  <2> DEFINE a == p[k]
             b == p[l]
  <2>4. a \in Nat /\ b \in Nat /\ t[i] \in {2 * a, 2 * a + 1} /\ t[j] \in {2 * b, 2 * b + 1}
    BY <2>1, <2>2, <2>3
  <2>5. CASE k = l
    <3>1. i = 2 * k - 1 /\ j = 2 * k /\ t[i] = 2 * a /\ t[j] = 2 * a + 1
      BY <1>4, <1>10, <2>1, <2>2, <2>5
    <3> HIDE DEF a
    <3> QED BY <2>4, <3>1
  <2>6. CASE k # l
    <3>1. a < b
      BY <2>3, <2>6
    <3> HIDE DEF a, b
    <3> QED BY <2>4, <3>1
  <2> QED BY <2>5, <2>6
<1>11. ASSUME NEW x \in K PROVE \E j \in 1 .. L : t[j] = x
  <2>1. x \in 0 .. z /\ x \div 2 \in P
    BY DEF K, Kids
  <2>2. PICK k \in 1 .. n : p[k] = x \div 2
    BY <1>2, <2>1
  <2>3. x = 2 * p[k] \/ x = 2 * p[k] + 1
    BY <2>1, <2>2
  <2>4. CASE x = 2 * p[k]
    BY <1>5, <1>6, <2>4
  <2>5. CASE x = 2 * p[k] + 1
    <3>1. 2 * k <= L /\ 2 * k \in 1 .. L
      BY <1>4, <1>5, <2>1, <2>5
    <3> QED BY <1>6, <2>5, <3>1
  <2> QED BY <2>3, <2>4, <2>5
<1>12. t \in Seq(K) /\ Len(t) = L
  BY <1>4, <1>8, <1>9
<1>13. Lists(t, K)
  BY <1>10, <1>11, <1>12 DEF Lists
<1>14. t = c
  BY <1>1, <1>13, ListedFinite DEF K
<1>15. 2 * n - 1 <= L
  BY <1>2, <1>4
<1>16. Len(c) = L /\ DOMAIN c = 1 .. L /\ n \in Nat \ {0}
  <2>1. n \in Nat \ {0}
    BY <1>2
  <2>2. Len(t) = L /\ DOMAIN t = 1 .. L
    BY <1>8, <1>12
  <2> QED BY <1>14, <2>1, <2>2
<1>17. \A k \in 1 .. n : /\ 2 * k - 1 \in 1 .. L /\ c[2 * k - 1] = 2 * p[k]
                         /\ 2 * k <= L <=> 2 * p[k] + 1 <= z
                         /\ 2 * k <= L => c[2 * k] = 2 * p[k] + 1
  BY <1>5, <1>6, <1>14
<1>18. DOMAIN p = 1 .. n /\ \A k \in 1 .. n : p[k] \in P
  BY <1>2
<1> QED BY <1>4, <1>15, <1>16, <1>17, <1>18 DEF n

-----------------------------------------------------------------------------
\* The layer with the nodes I, whose hashes are h.
LayerOf(I, h) ==
  LET s == Leafs!Ascending(I) IN [k \in DOMAIN s |-> <<s[k], h[s[k]]>>]

\* What is known of a layer: a lists the nodes of s with their hashes.
Layered(a, s, I, h) ==
  /\ Len(a) = Len(s) /\ Len(a) \in Nat /\ DOMAIN a = 1 .. Len(a) /\ DOMAIN s = 1 .. Len(a)
  /\ s \in Seq(I) /\ a = [k \in 1 .. Len(a) |-> <<s[k], h[s[k]]>>]
  /\ \A k \in 1 .. Len(a) :
       /\ a[k] = <<s[k], h[s[k]]>> /\ a[k][1] = s[k] /\ a[k][2] = h[s[k]]
       /\ s[k] \in I /\ s[k] \in Nat
  /\ \A k, l \in 1 .. Len(a) : k < l => s[k] < s[l]
  /\ \A i \in I : \E k \in 1 .. Len(a) : s[k] = i
  /\ Leafs!Indices(a) = s

\* What a layer is, place by place.
LEMMA LayerMembers ==
  ASSUME NEW I \in SUBSET Nat, IsFiniteSet(I), NEW h
  PROVE  Layered(LayerOf(I, h), Leafs!Ascending(I), I, h)
<1> DEFINE s == Leafs!Ascending(I)
           a == LayerOf(I, h)
<1>1. /\ Len(s) \in Nat /\ DOMAIN s = 1 .. Len(s) /\ s \in Seq(I)
      /\ \A k \in 1 .. Len(s) : s[k] \in I /\ s[k] \in Nat
      /\ \A k, l \in 1 .. Len(s) : k < l => s[k] < s[l]
      /\ \A x \in I : \E k \in 1 .. Len(s) : s[k] = x
  <2>1. I \in SUBSET Nat /\ IsFiniteSet(I) /\ s = Leafs!Ascending(I)
    OBVIOUS
  <2> HIDE DEF s
  <2> QED BY ONLY <2>1, ListMembers
<1>2. a = [k \in 1 .. Len(s) |-> <<s[k], h[s[k]]>>]
  BY <1>1 DEF LayerOf
<1> HIDE DEF s, a
<1>3. \A k \in 1 .. Len(s) : a[k] = <<s[k], h[s[k]]>> /\ a[k] \in I \X {h[i] : i \in I}
  BY <1>1, <1>2
<1>4. a \in Seq(I \X {h[i] : i \in I}) /\ Len(a) = Len(s) /\ DOMAIN a = 1 .. Len(s)
  BY <1>1, <1>2, <1>3
<1>5. \A k \in 1 .. Len(s) : a[k][1] = s[k] /\ a[k][2] = h[s[k]]
  BY <1>3
<1>6. Leafs!Indices(a) = s
  <2>1. Leafs!Indices(a) = [k \in 1 .. Len(s) |-> s[k]]
    BY <1>4, <1>5 DEF Leafs!Indices
  <2>2. s = [k \in 1 .. Len(s) |-> s[k]]
    BY <1>1
  <2> QED BY <2>1, <2>2
<1>7. s \in Seq(I) /\ a = [k \in 1 .. Len(a) |-> <<s[k], h[s[k]]>>]
  BY <1>1, <1>2, <1>4
<1> QED BY <1>1, <1>3, <1>4, <1>5, <1>6, <1>7 DEF Layered, s, a

\* The hashes that a layer has are those of its nodes.
LEMMA SameLayer ==
  ASSUME NEW I \in SUBSET Nat, IsFiniteSet(I), NEW h, NEW g, \A i \in I : h[i] = g[i]
  PROVE  LayerOf(I, h) = LayerOf(I, g)
<1> DEFINE s == Leafs!Ascending(I)
<1>1. DOMAIN s = 1 .. Len(s) /\ \A k \in 1 .. Len(s) : s[k] \in I
  <2>1. I \in SUBSET Nat /\ IsFiniteSet(I) /\ s = Leafs!Ascending(I)
    OBVIOUS
  <2> HIDE DEF s
  <2> QED BY ONLY <2>1, ListMembers
<1> HIDE DEF s
<1>2. [k \in DOMAIN s |-> <<s[k], h[s[k]]>>] = [k \in DOMAIN s |-> <<s[k], g[s[k]]>>]
  BY <1>1
<1> QED BY <1>2 DEF LayerOf, s

\* A layer without nodes.
LEMMA EmptyLayer == ASSUME NEW h PROVE LayerOf({}, h) = <<>>
<1> DEFINE s == Leafs!Ascending({})
           a == LayerOf({}, h)
<1>1. {} \in SUBSET Nat /\ IsFiniteSet({}) /\ s = Leafs!Ascending({})
  BY FS_EmptySet
<1>2. Len(s) \in Nat /\ DOMAIN s = 1 .. Len(s) /\ \A k \in 1 .. Len(s) : s[k] \in {}
  <2> HIDE DEF s
  <2> QED BY ONLY <1>1, ListMembers
<1>3. Len(s) = 0
  BY <1>2
<1> HIDE DEF s
<1> QED BY <1>2, <1>3 DEF LayerOf, s

\* The hashes of the layer above, when this one has the nodes 0 .. z.
Join(z, h) == [p \in Nat |-> IF 2 * p + 1 <= z THEN <<h[2 * p], h[2 * p + 1]>> ELSE h[2 * p]]

\* A layer that has the children of some nodes gives these nodes.
LEMMA ParentsOf ==
  ASSUME NEW z \in Nat, NEW P \in SUBSET (0 .. z \div 2), P # {}, NEW h,
         NEW a, a = LayerOf(Kids(P, z), h)
  PROVE  /\ Leafs!Parents(a) = LayerOf(P, Join(z, h))
         /\ ~(2 * Len(Leafs!parent_indices(Leafs!Indices(a))) - 1 > Len(a))
<1> DEFINE K == Kids(P, z)
           p == Leafs!Ascending(P)
           c == Leafs!Ascending(K)
           indices == Leafs!parent_indices(Leafs!Indices(a))
<1>1. K \in SUBSET Nat /\ IsFiniteSet(K) /\ Up(K) = P /\ P \in SUBSET Nat /\ IsFiniteSet(P)
  BY KidsAbove
<1>2. /\ Len(a) = Len(c) /\ Len(a) \in Nat
      /\ \A k \in 1 .. Len(a) : a[k][1] = c[k] /\ a[k][2] = h[c[k]]
      /\ Leafs!Indices(a) = c
  <2>1. Layered(a, c, K, h)
    BY <1>1, LayerMembers
  <2> HIDE DEF c, K
  <2> QED BY <2>1 DEF Layered
<1>3. indices = p
  BY <1>1, <1>2, ParentsListed
<1>4. /\ Len(p) \in Nat \ {0} /\ DOMAIN p = 1 .. Len(p) /\ \A k \in 1 .. Len(p) : p[k] \in P
      /\ Len(c) \in Nat /\ 2 * Len(p) - 1 <= Len(c)
      /\ \A k \in 1 .. Len(p) :
              /\ 2 * k - 1 \in 1 .. Len(c) /\ c[2 * k - 1] = 2 * p[k]
              /\ 2 * k <= Len(c) <=> 2 * p[k] + 1 <= z
              /\ 2 * k <= Len(c) => c[2 * k] = 2 * p[k] + 1
  <2>1. z \in Nat /\ P \in SUBSET (0 .. z \div 2) /\ P # {} /\ p = Leafs!Ascending(P)
        /\ c = Leafs!Ascending(Kids(P, z))
    OBVIOUS
  <2> HIDE DEF c, p, K
  <2> QED BY ONLY <2>1, KidsListed
<1>5. Leafs!Parents(a) = [k \in DOMAIN p |-> <<p[k], Leafs!concat_and_hash(a, 2 * k - 1)>>]
  BY <1>3 DEF Leafs!Parents
<1> HIDE DEF p, c, K, indices
<1>6. ASSUME NEW k \in 1 .. Len(p)
      PROVE  Leafs!concat_and_hash(a, 2 * k - 1) = Join(z, h)[p[k]]
  <2>1. /\ k \in Nat /\ 2 * k - 1 \in 1 .. Len(a) /\ (2 * k - 1) + 1 = 2 * k
        /\ 2 * k - 1 < Len(a) <=> 2 * k <= Len(a)
    BY <1>2, <1>4
  <2>2. p[k] \in Nat /\ a[2 * k - 1][2] = h[2 * p[k]]
    <3>1. p[k] \in Nat
      BY <1>1, <1>4
    <3>2. a[2 * k - 1][2] = h[c[2 * k - 1]] /\ c[2 * k - 1] = 2 * p[k]
      BY <1>2, <1>4, <2>1
    <3> QED BY <3>1, <3>2
  <2>3. CASE 2 * k <= Len(a)
    <3>1. 2 * k \in 1 .. Len(a) /\ c[2 * k] = 2 * p[k] + 1 /\ 2 * p[k] + 1 <= z
      BY <1>2, <1>4, <2>1, <2>3
    <3>2. a[2 * k][2] = h[2 * p[k] + 1]
      BY <1>2, <3>1
    <3>3. Leafs!concat_and_hash(a, 2 * k - 1) = <<h[2 * p[k]], h[2 * p[k] + 1]>>
      BY <2>1, <2>2, <2>3, <3>2 DEF Leafs!concat_and_hash
    <3> QED BY <2>2, <3>1, <3>3 DEF Join
  <2>4. CASE ~(2 * k <= Len(a))
    <3>1. ~(2 * p[k] + 1 <= z)
      BY <1>2, <1>4, <2>4
    <3>2. Leafs!concat_and_hash(a, 2 * k - 1) = h[2 * p[k]]
      BY <2>1, <2>2, <2>4 DEF Leafs!concat_and_hash
    <3> QED BY <2>2, <3>1, <3>2 DEF Join
  <2> QED BY <2>3, <2>4
<1>7. Leafs!Parents(a) = LayerOf(P, Join(z, h))
  BY <1>4, <1>5, <1>6 DEF LayerOf, p
<1>8. ~(2 * Len(p) - 1 > Len(a))
  BY <1>2, <1>4
<1> QED BY <1>3, <1>7, <1>8 DEF indices

-----------------------------------------------------------------------------
\* The n nodes of a are those of I, each there once, in the order of w.
Arranged(a, n, w, I, h) ==
  /\ n \in Nat /\ w \in [1 .. n -> I]
  /\ \A k, l \in 1 .. n : w[k] = w[l] => k = l
  /\ \A i \in I : \E k \in 1 .. n : w[k] = i
  /\ DOMAIN a = 1 .. n /\ \A k \in 1 .. n : a[k] = <<w[k], h[w[k]]>>

\* Sorted puts them in order.
LEMMA SortedLayer ==
  ASSUME NEW I \in SUBSET Nat, NEW h, NEW n, NEW w, NEW a, Arranged(a, n, w, I, h)
  PROVE  Leafs!Sorted(a) = LayerOf(I, h) /\ IsFiniteSet(I)
<1> DEFINE S == 1 .. n
           Before(i) == {j \in DOMAIN a :
                           a[j][1] < a[i][1] \/ (a[j][1] = a[i][1] /\ j <= i)}
           place == [i \in DOMAIN a |-> Leafs!Cardinality(Before(i))]
           below == [i \in S |-> Before(i)]
           chosen == [k \in S |-> CHOOSE i \in S : place[i] = k]
           b == [k \in S |-> a[CHOOSE i \in S : place[i] = k]]
           t == [k \in S |-> a[chosen[k]][1]]
<1>0. \A k \in 1 .. n : a[k] = <<w[k], h[w[k]]>> /\ a[k][1] = w[k] /\ w[k] \in I /\ k \in Nat
  BY DEF Arranged
<1>1. DOMAIN a = S /\ \A k \in S : k \in Nat /\ a[k][1] \in Nat
  BY <1>0 DEF Arranged
<1>1a. /\ \A k \in S : a[k][1] \in I /\ a[k] = <<a[k][1], h[a[k][1]]>>
       /\ \A k, l \in S : a[k][1] = a[l][1] => k = l
       /\ \A i \in I : \E k \in S : a[k][1] = i
  BY <1>0 DEF Arranged
<1>2. Leafs!Sorted(a) = b
  BY <1>1 DEF Leafs!Sorted
<1>3. \A i, j \in S : j \in below[i] <=> a[j][1] < a[i][1] \/ (a[j][1] = a[i][1] /\ j <= i)
  BY <1>1
<1>4. \A i \in S : below[i] \subseteq S /\ i \in below[i]
  BY <1>1
<1>5. \A i \in S : place[i] = Cardinality(below[i])
  BY <1>1, LeafCounts
<1> HIDE DEF place, below
<1>6. IsFiniteSet(S) /\ Cardinality(S) = n
  <2>2. IsFiniteSet(1 .. n) /\ Cardinality(1 .. n) = n
    <3>1. 1 \in Int /\ n \in Int
      BY DEF Arranged
    <3>2. IsFiniteSet(1 .. n) /\ Cardinality(1 .. n) = IF 1 > n THEN 0 ELSE n - 1 + 1
      BY ONLY <3>1, FS_Interval
    <3> QED BY <3>1, <3>2 DEF Arranged
  <2> QED BY <2>2
<1>7. \A i, j \in S : i \in below[j] \/ j \in below[i]
  BY <1>1, <1>3
<1>8. ASSUME NEW i \in S, NEW j \in S, NEW k \in S, i \in below[j], j \in below[k]
      PROVE  i \in below[k]
  <2>1. /\ a[i][1] < a[j][1] \/ (a[i][1] = a[j][1] /\ i <= j)
        /\ a[j][1] < a[k][1] \/ (a[j][1] = a[k][1] /\ j <= k)
    BY <1>3, <1>8
  <2>2. a[i][1] \in Nat /\ a[j][1] \in Nat /\ a[k][1] \in Nat /\ i \in Nat /\ j \in Nat /\ k \in Nat
    BY <1>1
  <2>3. a[i][1] < a[k][1] \/ (a[i][1] = a[k][1] /\ i <= k)
    BY <2>1, <2>2
  <2> QED BY <1>3, <2>3
<1>9. ASSUME NEW i \in S, NEW j \in S, i \in below[j], j \in below[i]
      PROVE  i = j
  <2>1. /\ a[i][1] < a[j][1] \/ (a[i][1] = a[j][1] /\ i <= j)
        /\ a[j][1] < a[i][1] \/ (a[j][1] = a[i][1] /\ j <= i)
    BY <1>3, <1>9
  <2>2. a[i][1] \in Nat /\ a[j][1] \in Nat /\ i \in Nat /\ j \in Nat
    BY <1>1
  <2> QED BY <2>1, <2>2
<1>10. /\ \A x \in S : place[x] \in S
       /\ \A x, y \in S : x \in below[y] /\ x # y => place[x] < place[y]
       /\ \A x, y \in S : place[x] = place[y] => x = y
       /\ \A k \in S : \E x \in S : place[x] = k
  <2> HIDE DEF S
  <2>1. /\ \A x \in S : Cardinality(below[x]) \in 1 .. Cardinality(S)
        /\ \A x, y \in S : x \in below[y] /\ x # y
                             => Cardinality(below[x]) < Cardinality(below[y])
        /\ \A x, y \in S : Cardinality(below[x]) = Cardinality(below[y]) => x = y
        /\ \A k \in 1 .. Cardinality(S) : \E x \in S : Cardinality(below[x]) = k
    BY ONLY <1>4, <1>6, <1>7, <1>8, <1>9, Enumerated
  <2>2. S = 1 .. Cardinality(S)
    BY <1>6 DEF S
  <2>3. ASSUME NEW x \in S PROVE place[x] \in S
    <3>1. place[x] \in 1 .. Cardinality(S)
      BY <1>5, <2>1
    <3> QED BY ONLY <2>2, <3>1
  <2>4. \A x, y \in S : x \in below[y] /\ x # y => place[x] < place[y]
    BY <1>5, <2>1
  <2>5. \A x, y \in S : place[x] = place[y] => x = y
    BY <1>5, <2>1
  <2>6. \A k \in S : \E x \in S : place[x] = k
    BY ONLY <1>5, <2>1, <2>2
  <2> QED BY <2>3, <2>4, <2>5, <2>6
<1>11. \A k \in S : chosen[k] \in S /\ place[chosen[k]] = k
  BY <1>10
<1>12. \A k \in S : b[k] = a[chosen[k]]
  OBVIOUS
<1> HIDE DEF chosen
<1>13. ASSUME NEW k \in S PROVE t[k] \in I /\ b[k] = <<t[k], h[t[k]]>>
  <2>1. t[k] = a[chosen[k]][1] /\ chosen[k] \in S /\ b[k] = a[chosen[k]]
    BY <1>11, <1>12
  <2> HIDE DEF t, b
  <2> QED BY <1>1a, <2>1
<1>14. ASSUME NEW k \in S, NEW l \in S, k < l PROVE t[k] < t[l]
  <2> DEFINE u == chosen[k]
             y == chosen[l]
  <2>1. u \in S /\ y \in S /\ place[u] = k /\ place[y] = l
    BY <1>11
  <2>2. k \in Nat /\ l \in Nat
    BY <1>1
  <2> HIDE DEF u, y
  <2>3. u # y /\ u \in below[y]
    <3>1. u # y /\ ~(place[y] < place[u])
      BY ONLY <1>14, <2>1, <2>2
    <3> QED BY ONLY <1>7, <1>10, <2>1, <3>1
  <2>4. a[u][1] < a[y][1] \/ a[u][1] = a[y][1]
    BY <1>3, <2>1, <2>3
  <2>5. a[u][1] # a[y][1]
    BY <1>1a, <2>1, <2>3
  <2>6. t[k] = a[u][1] /\ t[l] = a[y][1]
    BY DEF u, y
  <2> HIDE DEF t
  <2> QED BY <2>4, <2>5, <2>6
<1>15. ASSUME NEW i \in I PROVE \E k \in S : t[k] = i
  <2>1. PICK y \in S : a[y][1] = i
    BY <1>1a
  <2>2. place[y] \in S /\ chosen[place[y]] = y
    <3>1. place[y] \in S
      BY <1>10, <2>1
    <3>2. chosen[place[y]] \in S /\ place[chosen[place[y]]] = place[y]
      BY <1>11, <3>1
    <3> QED BY <1>10, <2>1, <3>1, <3>2
  <2> QED BY <2>1, <2>2
<1>16. DOMAIN t = S /\ t = [k \in S |-> t[k]]
  OBVIOUS
<1> HIDE DEF t
<1>17. t \in Seq(I) /\ Len(t) = n
  <2>1. t \in [1 .. n -> I]
    BY <1>13, <1>16
  <2> QED BY <2>1 DEF Arranged
<1>18. Lists(t, I)
  BY <1>14, <1>15, <1>17 DEF Lists
<1>19. IsFiniteSet(I) /\ t = Leafs!Ascending(I)
  BY <1>18, ListedFinite
<1>20. b = [k \in DOMAIN t |-> <<t[k], h[t[k]]>>]
  <2>1. b = [k \in S |-> b[k]]
    OBVIOUS
  <2> HIDE DEF b, S
  <2> QED BY <1>13, <1>16, <2>1
<1>21. LayerOf(I, h) = b
  BY <1>19, <1>20 DEF LayerOf
<1> QED BY <1>2, <1>19, <1>21

\* The union of two finite sets of numbers.
LEMMA FiniteUnion ==
  ASSUME NEW A \in SUBSET Nat, IsFiniteSet(A), NEW B \in SUBSET Nat, IsFiniteSet(B)
  PROVE  A \cup B \in SUBSET Nat /\ IsFiniteSet(A \cup B)
BY FS_Union

\* The concatenation of sequences of any elements.
LEMMA Concatenated ==
  ASSUME NEW m \in Nat, NEW n \in Nat, NEW p, p = [k \in 1 .. m |-> p[k]],
         NEW q, q = [k \in 1 .. n |-> q[k]]
  PROVE  /\ Len(p) = m /\ Len(q) = n /\ Len(p \o q) = m + n /\ DOMAIN (p \o q) = 1 .. m + n
         /\ p \o q = [k \in 1 .. m + n |-> IF k <= m THEN p[k] ELSE q[k - m]]
<1> DEFINE V == {p[k] : k \in 1 .. m} \cup {q[k] : k \in 1 .. n}
<1>1. \A k \in 1 .. m : p[k] \in V
  OBVIOUS
<1>2. \A k \in 1 .. n : q[k] \in V
  OBVIOUS
<1> HIDE DEF V
<1>3. p \in Seq(V) /\ Len(p) = m
  BY <1>1
<1>4. q \in Seq(V) /\ Len(q) = n
  BY <1>2
<1>5. /\ p \o q \in Seq(V) /\ Len(p \o q) = m + n
      /\ \A k \in 1 .. m + n : (p \o q)[k] = IF k <= m THEN p[k] ELSE q[k - m]
  BY <1>3, <1>4
<1> QED BY <1>3, <1>4, <1>5

\* Two layers without a common node, in one.
LEMMA SortedUnion ==
  ASSUME NEW A \in SUBSET Nat, IsFiniteSet(A), NEW B \in SUBSET Nat, IsFiniteSet(B),
         A \cap B = {}, NEW h
  PROVE  Leafs!Sorted(LayerOf(A, h) \o LayerOf(B, h)) = LayerOf(A \cup B, h)
<1> DEFINE p == LayerOf(A, h)
           q == LayerOf(B, h)
           s == Leafs!Ascending(A)
           t == Leafs!Ascending(B)
           m == Len(p)
           n == Len(q)
           I == A \cup B
           w == [k \in 1 .. m + n |-> IF k <= m THEN s[k] ELSE t[k - m]]
<1>1. Layered(p, s, A, h) /\ Layered(q, t, B, h)
  BY LayerMembers
<1> HIDE DEF p, q, s, t
<1>4. /\ m \in Nat /\ p = [k \in 1 .. m |-> <<s[k], h[s[k]]>>]
      /\ \A k \in 1 .. m : s[k] \in A /\ s[k] \in Nat
      /\ \A k, l \in 1 .. m : k < l => s[k] < s[l]
      /\ \A i \in A : \E k \in 1 .. m : s[k] = i
  BY <1>1 DEF Layered
<1>5. /\ n \in Nat /\ q = [k \in 1 .. n |-> <<t[k], h[t[k]]>>]
      /\ \A k \in 1 .. n : t[k] \in B /\ t[k] \in Nat
      /\ \A k, l \in 1 .. n : k < l => t[k] < t[l]
      /\ \A i \in B : \E k \in 1 .. n : t[k] = i
  BY <1>1 DEF Layered
<1> HIDE DEF m, n
<1>6. p \o q = [k \in 1 .. m + n |-> <<w[k], h[w[k]]>>]
  <2>1. p = [k \in 1 .. m |-> p[k]] /\ q = [k \in 1 .. n |-> q[k]]
    BY <1>4, <1>5
  <2>2. p \o q = [k \in 1 .. m + n |-> IF k <= m THEN p[k] ELSE q[k - m]]
    BY <1>4, <1>5, <2>1, Concatenated
  <2>3. ASSUME NEW k \in 1 .. m + n
        PROVE  (IF k <= m THEN p[k] ELSE q[k - m]) = <<w[k], h[w[k]]>>
    <3>1. CASE k <= m
      <4>1. k \in 1 .. m /\ w[k] = s[k]
        BY <1>4, <1>5, <3>1
      <4> QED BY <1>4, <3>1, <4>1
    <3>2. CASE ~(k <= m)
      <4>1. k - m \in 1 .. n /\ w[k] = t[k - m]
        BY <1>4, <1>5, <3>2
      <4> QED BY <1>5, <3>2, <4>1
    <3> QED BY <3>1, <3>2
  <2> HIDE DEF w
  <2> QED BY <2>2, <2>3
<1>7. \A k \in 1 .. m + n : \/ k \in 1 .. m /\ w[k] = s[k] /\ w[k] \in A
                            \/ k - m \in 1 .. n /\ k > m /\ w[k] = t[k - m] /\ w[k] \in B
  <2> TAKE k \in 1 .. m + n
  <2>1. CASE k <= m
    BY <1>4, <1>5, <2>1
  <2>2. CASE ~(k <= m)
    <3>1. k - m \in 1 .. n /\ k > m /\ w[k] = t[k - m]
      BY <1>4, <1>5, <2>2
    <3> HIDE DEF w
    <3> QED BY <1>5, <3>1
  <2> QED BY <2>1, <2>2
<1>8. /\ \A k \in 1 .. m : k \in 1 .. m + n /\ w[k] = s[k]
      /\ \A k \in 1 .. n : k + m \in 1 .. m + n /\ w[k + m] = t[k]
  <2>1. \A k \in 1 .. m : k \in 1 .. m + n /\ k <= m
    BY <1>4, <1>5
  <2>2. \A k \in 1 .. n : k + m \in 1 .. m + n /\ ~(k + m <= m) /\ (k + m) - m = k
    BY <1>4, <1>5
  <2>3. \A k \in 1 .. m : w[k] = s[k]
    BY <2>1
  <2>4. \A k \in 1 .. n : w[k + m] = t[(k + m) - m]
    BY <2>2
  <2> HIDE DEF w
  <2> QED BY <2>1, <2>2, <2>3, <2>4
<1>9. m + n \in Nat /\ w \in [1 .. m + n -> I] /\ I \in SUBSET Nat
  <2>1. \A k \in 1 .. m + n : w[k] \in I
    BY <1>7 DEF I
  <2> QED BY <1>4, <1>5, <2>1
<1> DEFINE N == m + n
<1> HIDE DEF w, I
<1>10. ASSUME NEW k \in 1 .. m + n, NEW l \in 1 .. m + n, w[k] = w[l] PROVE k = l
  <2>0. k \in Nat /\ l \in Nat
    BY <1>4, <1>5
  <2>1. CASE k \in 1 .. m /\ w[k] = s[k] /\ l \in 1 .. m /\ w[l] = s[l]
    <3>1. s[k] = s[l] /\ s[k] \in Nat
      BY <1>4, <1>10, <2>1
    <3>2. ~(k < l)
      BY <1>4, <2>1, <3>1
    <3>3. ~(l < k)
      BY <1>4, <2>1, <3>1
    <3> QED BY <2>0, <3>2, <3>3
  <2>2. CASE k - m \in 1 .. n /\ w[k] = t[k - m] /\ l - m \in 1 .. n /\ w[l] = t[l - m]
    <3> DEFINE u == k - m
               v == l - m
    <3>1. u \in 1 .. n /\ v \in 1 .. n /\ t[u] = t[v]
      BY <1>10, <2>2
    <3> HIDE DEF u, v
    <3>2. u \in Nat /\ v \in Nat /\ t[u] \in Nat
      BY <1>5, <3>1
    <3>3. ~(u < v)
      BY <1>5, <3>1, <3>2
    <3>4. ~(v < u)
      BY <1>5, <3>1, <3>2
    <3>5. u = v
      BY <3>2, <3>3, <3>4
    <3> QED BY <1>4, <2>0, <3>5 DEF u, v
  <2> QED BY <1>7, <1>10, <2>1, <2>2
<1>11. ASSUME NEW i \in I PROVE \E k \in 1 .. m + n : w[k] = i
  <2>1. CASE i \in A
    BY <1>4, <1>8, <2>1
  <2>2. CASE i \in B
    BY <1>5, <1>8, <2>2
  <2> QED BY <2>1, <2>2 DEF I
<1>12. DOMAIN (p \o q) = 1 .. N /\ \A k \in 1 .. N : (p \o q)[k] = <<w[k], h[w[k]]>>
  BY <1>6
<1>13. /\ N \in Nat /\ w \in [1 .. N -> I] /\ I \in SUBSET Nat
       /\ \A k, l \in 1 .. N : w[k] = w[l] => k = l
       /\ \A i \in I : \E k \in 1 .. N : w[k] = i
  BY <1>9, <1>10, <1>11
<1> HIDE DEF N
<1>14. Leafs!Sorted(p \o q) = LayerOf(I, h)
  <2>1. Arranged(p \o q, N, w, I, h)
    BY <1>12, <1>13 DEF Arranged
  <2> QED BY <1>9, <2>1, SortedLayer
<1> QED BY <1>14 DEF I, p, q

\* Sorting leaves a layer as it is.
LEMMA SortedAlready ==
  ASSUME NEW A \in SUBSET Nat, IsFiniteSet(A), NEW h
  PROVE  Leafs!Sorted(LayerOf(A, h)) = LayerOf(A, h)
<1> DEFINE a == LayerOf(A, h)
           s == Leafs!Ascending(A)
           n == Len(a)
<1>1. Layered(a, s, A, h)
  BY LayerMembers
<1> HIDE DEF a, s
<1>2. /\ n \in Nat /\ a = [k \in 1 .. n |-> <<s[k], h[s[k]]>>] /\ Len(s) = n /\ s \in Seq(A)
      /\ \A k \in 1 .. n : s[k] \in A /\ s[k] \in Nat
      /\ \A k, l \in 1 .. n : k < l => s[k] < s[l]
      /\ \A i \in A : \E k \in 1 .. n : s[k] = i
  BY <1>1 DEF Layered
<1> HIDE DEF n
<1>3. s \in [1 .. n -> A]
  BY <1>2
<1>4. ASSUME NEW k \in 1 .. n, NEW l \in 1 .. n, s[k] = s[l] PROVE k = l
  <2>1. k \in Nat /\ l \in Nat /\ s[k] = s[l] /\ s[k] \in Nat /\ ~(k < l) /\ ~(l < k)
    BY <1>2, <1>4
  <2> QED BY ONLY <2>1
<1>5. DOMAIN a = 1 .. n /\ \A k \in 1 .. n : a[k] = <<s[k], h[s[k]]>>
  BY <1>2
<1>6. Leafs!Sorted(a) = LayerOf(A, h)
  <2>1. Arranged(a, n, s, A, h)
    BY <1>2, <1>3, <1>4, <1>5 DEF Arranged
  <2> QED BY <2>1, SortedLayer
<1> QED BY <1>6 DEF a

\* The nodes of a layer that another one does not have.
LEMMA PickedLayer ==
  ASSUME NEW A \in SUBSET Nat, IsFiniteSet(A), NEW h, NEW B \in SUBSET Nat, IsFiniteSet(B), NEW g,
         NEW a, a = LayerOf(A, h), NEW b, b = LayerOf(B, g),
         NEW P, P = {k \in DOMAIN a : a[k][1] \notin Leafs!ToSet(Leafs!Indices(b))}
  PROVE  Leafs!Picked(a, P) = LayerOf(A \ B, h)
<1> DEFINE s == Leafs!Ascending(A)
           t == Leafs!Ascending(B)
           pos == Leafs!Ascending(P)
<1>1. Layered(a, s, A, h) /\ Layered(b, t, B, g)
  BY LayerMembers
<1> HIDE DEF s, t
<1>2. Leafs!ToSet(Leafs!Indices(b)) = B
  <2>1. Leafs!Indices(b) = t /\ DOMAIN t = 1 .. Len(b) /\ (\A k \in 1 .. Len(b) : t[k] \in B)
        /\ \A i \in B : \E k \in 1 .. Len(b) : t[k] = i
    BY <1>1 DEF Layered
  <2> QED BY <2>1 DEF Leafs!ToSet
<1>3. /\ Len(a) \in Nat /\ DOMAIN a = 1 .. Len(a) /\ DOMAIN s = 1 .. Len(a)
      /\ \A k \in 1 .. Len(a) : a[k] = <<s[k], h[s[k]]>> /\ a[k][1] = s[k] /\ s[k] \in A
  BY <1>1 DEF Layered
<1>4. P = {k \in DOMAIN s : s[k] \in A \ B}
  BY <1>2, <1>3
<1>5. Leafs!Picked(s, P) = Leafs!Ascending(A \cap (A \ B))
  <2>1. PlacesOf(P, s, A \ B)
    BY <1>4 DEF PlacesOf
  <2> QED BY <2>1, FilteredList DEF s
<1>6. A \cap (A \ B) = A \ B
  OBVIOUS
<1>7. P \in SUBSET Nat /\ IsFiniteSet(P) /\ P \subseteq 1 .. Len(a)
  <2>1. IsFiniteSet(1 .. Len(a)) /\ 1 .. Len(a) \subseteq Nat
    BY <1>3, FS_Interval
  <2>2. P \subseteq 1 .. Len(a)
    BY <1>3, <1>4
  <2> QED BY <2>1, <2>2, FS_Subset
<1>8. DOMAIN pos = 1 .. Len(pos) /\ \A k \in 1 .. Len(pos) : pos[k] \in P
  <2>1. P \in SUBSET Nat /\ IsFiniteSet(P) /\ pos = Leafs!Ascending(P)
    BY <1>7
  <2> HIDE DEF pos
  <2> QED BY ONLY <2>1, ListMembers
<1>9. Leafs!Picked(s, P) = [k \in DOMAIN pos |-> s[pos[k]]]
  BY DEF Leafs!Picked
<1>10. Leafs!Picked(a, P) = [k \in DOMAIN pos |-> a[pos[k]]]
  BY DEF Leafs!Picked
<1> HIDE DEF pos
<1>11. [k \in DOMAIN pos |-> a[pos[k]]] = [k \in DOMAIN pos |-> <<s[pos[k]], h[s[pos[k]]]>>]
  BY <1>3, <1>7, <1>8
<1> DEFINE u == Leafs!Ascending(A \ B)
<1>12. u = [k \in DOMAIN pos |-> s[pos[k]]]
  BY <1>5, <1>6, <1>9
<1>13. LayerOf(A \ B, h) = [k \in DOMAIN u |-> <<u[k], h[u[k]]>>]
  BY DEF LayerOf
<1> HIDE DEF u
<1>14. [k \in DOMAIN u |-> <<u[k], h[u[k]]>>] = [k \in DOMAIN pos |-> <<s[pos[k]], h[s[pos[k]]]>>]
  BY <1>12
<1> QED BY <1>10, <1>11, <1>13, <1>14

-----------------------------------------------------------------------------
\* The numbers from n.
LEMMA RangeListed ==
  ASSUME NEW n \in Nat, NEW len \in Nat
  PROVE  /\ Leafs!Ascending(n .. n + len - 1) = [i \in 1 .. len |-> n + i - 1]
         /\ n .. n + len - 1 \in SUBSET Nat /\ IsFiniteSet(n .. n + len - 1)
<1> DEFINE S == n .. n + len - 1
           t == [i \in 1 .. len |-> n + i - 1]
<1>1. \A i \in 1 .. len : t[i] = n + i - 1 /\ t[i] \in S
  OBVIOUS
<1>2. t \in Seq(S) /\ Len(t) = len
  BY <1>1
<1>3. \A i, j \in 1 .. len : i < j => t[i] < t[j]
  OBVIOUS
<1>4. ASSUME NEW x \in S PROVE \E i \in 1 .. len : t[i] = x
  <2>1. x - n + 1 \in 1 .. len /\ n + (x - n + 1) - 1 = x
    OBVIOUS
  <2> QED BY <1>1, <2>1
<1>5. S \in SUBSET Nat
  OBVIOUS
<1> HIDE DEF t, S
<1>6. Lists(t, S)
  BY <1>2, <1>3, <1>4 DEF Lists
<1> QED BY <1>5, <1>6, ListedFinite DEF S, t

\* The siblings of some nodes, in a layer with the nodes 0 .. z.
Siblings(A) == {Leafs!get_sibling_index(i) : i \in A}

\* The missing siblings of some nodes are the other children of their parents.
LEMMA SiblingsAndKids ==
  ASSUME NEW z \in Nat, NEW A \in SUBSET (0 .. z)
  PROVE  (Siblings(A) \ A) \cap (0 .. z) = Kids(Up(A), z) \ A
<1>1. \A i \in A : i \in Nat
  OBVIOUS
<1>2. ASSUME NEW i \in A, Leafs!get_sibling_index(i) \in 0 .. z
      PROVE  Leafs!get_sibling_index(i) \in Kids(Up(A), z)
  BY <1>1, <1>2, SiblingRange DEF Kids, Up
<1>3. ASSUME NEW j \in Kids(Up(A), z), j \notin A
      PROVE  j \in Siblings(A)
  <2>1. PICK i \in A : j \div 2 = i \div 2
    BY DEF Kids, Up
  <2>2. j \in Nat /\ i \in Nat /\ i # j
    BY <1>1, <1>3 DEF Kids
  <2>3. j = Leafs!get_sibling_index(i)
    BY <2>1, <2>2, HalfNumbers DEF Leafs!get_sibling_index
  <2> QED BY <2>3 DEF Siblings
<1>4. Kids(Up(A), z) \subseteq 0 .. z
  BY DEF Kids
<1> QED BY <1>2, <1>3, <1>4 DEF Siblings

-----------------------------------------------------------------------------
\* Halving a number again and again, and the nodes above some nodes.
Halving(f, n) == f \in [Nat -> Nat] /\ f[0] = n /\ \A d \in Nat : f[d + 1] = f[d] \div 2
Halves(n) == CHOOSE f : Halving(f, n)

Rising(f, I) == f \in [Nat -> SUBSET Nat] /\ f[0] = I /\ \A d \in Nat : f[d + 1] = Up(f[d])
Above(I) == CHOOSE f : Rising(f, I)

\* There is a sequence of halves.
LEMMA HalvesAre == ASSUME NEW n \in Nat PROVE Halving(Halves(n), n)
<1> DEFINE S == Nat
           a == n
           step == [m \in S |-> m \div 2]
<1>1. \A m \in Nat : step[m] = m \div 2
  OBVIOUS
<1>2. a \in S /\ step \in [S -> S]
  BY HalfNumbers
<1>3. PICK f \in [Nat -> S] : f[0] = a /\ \A d \in Nat : f[d + 1] = step[f[d]]
  <2> HIDE DEF S, a, step
  <2> QED BY ONLY <1>2, Repetition
<1> HIDE DEF step
<1>4. Halving(f, n)
  BY <1>1, <1>3 DEF Halving
<1> QED BY <1>4 DEF Halves

\* There is a sequence of ancestors.
LEMMA AboveAre == ASSUME NEW I \in SUBSET Nat PROVE Rising(Above(I), I)
<1> DEFINE step == [J \in SUBSET Nat |-> Up(J)]
<1>1. step \in [SUBSET Nat -> SUBSET Nat] /\ \A J \in SUBSET Nat : step[J] = Up(J)
  <2>1. ASSUME NEW J \in SUBSET Nat PROVE Up(J) \in SUBSET Nat
    BY HalfNumbers DEF Up
  <2> QED BY <2>1
<1> HIDE DEF step
<1>2. PICK f \in [Nat -> SUBSET Nat] : f[0] = I /\ \A d \in Nat : f[d + 1] = step[f[d]]
  <2> DEFINE S == SUBSET Nat
  <2>1. I \in S /\ step \in [S -> S]
    BY <1>1
  <2> HIDE DEF S
  <2>2. \E f \in [Nat -> S] : f[0] = I /\ \A d \in Nat : f[d + 1] = step[f[d]]
    BY ONLY <2>1, Repetition
  <2> QED BY <2>2 DEF S
<1>3. Rising(f, I)
  BY <1>1, <1>2 DEF Rising
<1> QED BY <1>3 DEF Above

\* Each number of the halves, from the one before.
LEMMA HalvesStep ==
  ASSUME NEW n \in Nat
  PROVE  /\ Halves(n)[0] = n
         /\ \A d \in Nat : Halves(n)[d] \in Nat /\ Halves(n)[d + 1] = Halves(n)[d] \div 2
BY HalvesAre DEF Halving

\* Each layer of ancestors, from the one below.
LEMMA AboveStep ==
  ASSUME NEW I \in SUBSET Nat
  PROVE  /\ Above(I)[0] = I
         /\ \A d \in Nat : Above(I)[d] \in SUBSET Nat /\ Above(I)[d + 1] = Up(Above(I)[d])
BY AboveAre DEF Rising

\* Halving repeatedly keeps the order.
LEMMA HalvesOrder ==
  ASSUME NEW m \in Nat, NEW n \in Nat, m <= n
  PROVE  \A d \in Nat : Halves(m)[d] <= Halves(n)[d]
<1> DEFINE f == Halves(m)
           g == Halves(n)
           G == {d \in Nat : f[d] <= g[d]}
<1>1. /\ f[0] = m /\ \A d \in Nat : f[d] \in Nat /\ f[d + 1] = f[d] \div 2
      /\ g[0] = n /\ \A d \in Nat : g[d] \in Nat /\ g[d + 1] = g[d] \div 2
  BY HalvesStep
<1> HIDE DEF f, g
<1>2. 0 \in G
  BY <1>1
<1>3. ASSUME NEW d \in Nat, d \in G PROVE d + 1 \in G
  BY <1>1, <1>3, HalfAscends
<1> HIDE DEF G
<1>4. Nat \subseteq G
  BY <1>2, <1>3, NumberInduction
<1> QED BY <1>4 DEF G, f, g

\* The node before the first one above n.
LEMMA HalvesNext ==
  ASSUME NEW n \in Nat \ {0}
  PROVE  \A d \in Nat : Halves(n)[d] <= Halves(n - 1)[d] + 1
<1> DEFINE f == Halves(n)
           g == Halves(n - 1)
           G == {d \in Nat : f[d] <= g[d] + 1}
<1>0. n - 1 \in Nat
  OBVIOUS
<1>1. /\ f[0] = n /\ \A d \in Nat : f[d] \in Nat /\ f[d + 1] = f[d] \div 2
      /\ g[0] = n - 1 /\ \A d \in Nat : g[d] \in Nat /\ g[d + 1] = g[d] \div 2
  BY <1>0, HalvesStep
<1> HIDE DEF f, g
<1>2. 0 \in G
  BY <1>1
<1>3. ASSUME NEW d \in Nat, d \in G PROVE d + 1 \in G
  BY <1>1, <1>3
<1> HIDE DEF G
<1>4. Nat \subseteq G
  BY <1>2, <1>3, NumberInduction
<1> QED BY <1>4 DEF G, f, g

\* The parents of neighbouring nodes are neighbours.
LEMMA UpRange ==
  ASSUME NEW a \in Nat, NEW b \in Nat, a <= b
  PROVE  Up(a .. b) = a \div 2 .. b \div 2
<1>1. ASSUME NEW i \in a .. b PROVE i \div 2 \in a \div 2 .. b \div 2
  OBVIOUS
<1>2. ASSUME NEW p \in a \div 2 .. b \div 2 PROVE p \in Up(a .. b)
  <2>1. p \in Nat /\ a \div 2 <= p /\ p <= b \div 2
    OBVIOUS
  <2>2. CASE 2 * p >= a
    <3>1. 2 * p \in a .. b /\ (2 * p) \div 2 = p
      BY <2>1, <2>2
    <3> QED BY <3>1 DEF Up
  <2>3. CASE 2 * p < a
    <3>1. a \in a .. b /\ a \div 2 = p
      BY <2>1, <2>3
    <3> QED BY <3>1 DEF Up
  <2> QED BY <2>1, <2>2, <2>3
<1> QED BY <1>1, <1>2 DEF Up

\* The ancestors of neighbouring nodes are neighbours.
LEMMA AboveRange ==
  ASSUME NEW a \in Nat, NEW b \in Nat, a <= b
  PROVE  \A d \in Nat : Above(a .. b)[d] = Halves(a)[d] .. Halves(b)[d]
<1> DEFINE f == Halves(a)
           g == Halves(b)
           A == Above(a .. b)
           G == {d \in Nat : A[d] = f[d] .. g[d]}
<1>0. a .. b \in SUBSET Nat
  OBVIOUS
<1>1. /\ f[0] = a /\ \A d \in Nat : f[d] \in Nat /\ f[d + 1] = f[d] \div 2
      /\ g[0] = b /\ \A d \in Nat : g[d] \in Nat /\ g[d + 1] = g[d] \div 2
      /\ \A d \in Nat : f[d] <= g[d]
  BY HalvesStep, HalvesOrder
<1>2. A[0] = a .. b /\ \A d \in Nat : A[d + 1] = Up(A[d])
  BY <1>0, AboveStep
<1> HIDE DEF f, g, A
<1>3. 0 \in G
  BY <1>1, <1>2
<1>4. ASSUME NEW d \in Nat, d \in G PROVE d + 1 \in G
  <2>1. f[d] \in Nat /\ g[d] \in Nat /\ f[d] <= g[d]
    BY <1>1
  <2>2. Up(f[d] .. g[d]) = f[d] \div 2 .. g[d] \div 2
    BY <2>1, UpRange
  <2> QED BY <1>1, <1>2, <1>4, <2>2
<1> HIDE DEF G
<1>5. Nat \subseteq G
  BY <1>3, <1>4, NumberInduction
<1> QED BY <1>5 DEF G, f, g, A

\* The nodes above some leaves are in their layers.
LEMMA AboveWithin ==
  ASSUME NEW z \in Nat, NEW I \in SUBSET (0 .. z), I # {}
  PROVE  /\ \A d \in Nat : /\ Above(I)[d] \in SUBSET (0 .. Halves(z)[d]) /\ Above(I)[d] # {}
                           /\ Above(I)[d] \in SUBSET Nat /\ IsFiniteSet(Above(I)[d])
                           /\ Above(I)[d + 1] = Up(Above(I)[d])
                           /\ Above(I)[d + 1] \in SUBSET (0 .. Halves(z)[d] \div 2)
         /\ Above(I)[0] = I
<1> DEFINE g == Halves(z)
           A == Above(I)
           G == {d \in Nat : A[d] \in SUBSET (0 .. g[d]) /\ A[d] # {}}
<1>0. I \in SUBSET Nat
  OBVIOUS
<1>1. g[0] = z /\ \A d \in Nat : g[d] \in Nat /\ g[d + 1] = g[d] \div 2
  BY HalvesStep
<1>2. A[0] = I /\ \A d \in Nat : A[d] \in SUBSET Nat /\ A[d + 1] = Up(A[d])
  BY <1>0, AboveStep
<1> HIDE DEF g, A
<1>3. 0 \in G
  BY <1>1, <1>2
<1>4. ASSUME NEW d \in Nat, d \in G PROVE d + 1 \in G
  <2>1. \A i \in A[d] : i \div 2 \in 0 .. g[d] \div 2
    <3> TAKE i \in A[d]
    <3>1. i \in Nat /\ i <= g[d] /\ g[d] \in Nat
      BY <1>1, <1>4
    <3> QED BY <3>1
  <2>2. Up(A[d]) \in SUBSET (0 .. g[d] \div 2) /\ Up(A[d]) # {}
    BY <1>4, <2>1 DEF Up
  <2> QED BY <1>1, <1>2, <2>2
<1> HIDE DEF G
<1>5. Nat \subseteq G
  BY <1>3, <1>4, NumberInduction
<1>6. ASSUME NEW d \in Nat
      PROVE  A[d] \in SUBSET (0 .. g[d]) /\ A[d] # {} /\ IsFiniteSet(A[d])
  <2>1. A[d] \in SUBSET (0 .. g[d]) /\ A[d] # {}
    BY <1>5 DEF G
  <2>2. IsFiniteSet(0 .. g[d])
    <3>1. 0 \in Int /\ g[d] \in Int
      BY <1>1
    <3> QED BY <3>1, FS_Interval
  <2> QED BY <2>1, <2>2, FS_Subset
<1>7. ASSUME NEW d \in Nat PROVE A[d + 1] \in SUBSET (0 .. g[d] \div 2)
  BY <1>1, <1>6
<1> QED BY <1>2, <1>6, <1>7 DEF g, A

-----------------------------------------------------------------------------
\* The indices of the model: the nodes above some leaves, and the sizes of layers.
LEMMA LayerIndicesAre ==
  ASSUME NEW I \in SUBSET Nat, IsFiniteSet(I), NEW n \in Nat
  PROVE  \A d \in 0 .. n : /\ Leafs!LayerIndices(Leafs!Ascending(I), n)[d]
                                = Leafs!Ascending(Above(I)[d])
                           /\ IsFiniteSet(Above(I)[d])
<1> DEFINE s == Leafs!Ascending(I)
           A == Above(I)
           current == Leafs!LayerIndices(s, n)
           f == [d \in 0 .. n |-> Leafs!Ascending(A[d])]
           G == {d \in Nat : d <= n => current[d] = f[d]}
           F == {d \in Nat : IsFiniteSet(A[d])}
<1>1. A[0] = I /\ \A d \in Nat : A[d] \in SUBSET Nat /\ A[d + 1] = Up(A[d])
  BY AboveStep
<1> HIDE DEF A
<1>2. Nat \subseteq F
  <2>1. 0 \in F
    BY <1>1
  <2>2. ASSUME NEW d \in Nat, d \in F PROVE d + 1 \in F
    BY <1>1, <2>2, ParentsListed
  <2> HIDE DEF F
  <2> QED BY <2>1, <2>2, NumberInduction
<1>3. \A d \in Nat : IsFiniteSet(A[d])
  BY <1>2
<1> HIDE DEF F
<1>4. \A d \in 0 .. n : f[d] = IF d = 0 THEN s ELSE Leafs!parent_indices(f[d - 1])
  <2> TAKE d \in 0 .. n
  <2>1. CASE d = 0
    BY <1>1, <2>1
  <2>2. CASE d # 0
    <3>1. d - 1 \in Nat /\ d - 1 \in 0 .. n /\ (d - 1) + 1 = d /\ d \in Nat
      BY <2>2
    <3>2. Leafs!parent_indices(Leafs!Ascending(A[d - 1])) = Leafs!Ascending(Up(A[d - 1]))
      BY <1>1, <1>3, <3>1, ParentsListed
    <3> QED BY <1>1, <2>2, <3>1, <3>2
  <2> QED BY <2>1, <2>2
<1>5. f = [d \in 0 .. n |-> IF d = 0 THEN s ELSE Leafs!parent_indices(f[d - 1])]
  BY <1>4
<1> HIDE DEF f, s
<1>6. current = [d \in 0 .. n |-> IF d = 0 THEN s ELSE Leafs!parent_indices(current[d - 1])]
  BY <1>5 DEF Leafs!LayerIndices
<1> HIDE DEF current
<1>7. 0 \in G
  BY <1>4, <1>6
<1>8. ASSUME NEW d \in Nat, d \in G PROVE d + 1 \in G
  <2>1. ASSUME d + 1 <= n PROVE current[d + 1] = f[d + 1]
    <3>1. d + 1 \in 0 .. n /\ (d + 1) - 1 = d /\ d + 1 # 0 /\ d <= n
      BY <2>1
    <3>2. f[d + 1] = Leafs!parent_indices(f[d])
      BY <1>4, <3>1
    <3>3. current[d + 1] = Leafs!parent_indices(current[d])
      BY <1>6, <3>1
    <3> QED BY <1>8, <3>1, <3>2, <3>3
  <2> QED BY <2>1
<1> HIDE DEF G
<1>9. Nat \subseteq G
  BY <1>7, <1>8, NumberInduction
<1>10. \A d \in 0 .. n : current[d] = f[d]
  BY <1>9 DEF G
<1> QED BY <1>3, <1>10 DEF current, s, f, A

-----------------------------------------------------------------------------
\* Powers of two.
LEMMA TwoPowers ==
  /\ Leafs!Two[0] = 1
  /\ \A d \in Nat : /\ Leafs!Two[d] \in Nat \ {0} /\ Leafs!Two[d + 1] = 2 * Leafs!Two[d]
                    /\ d < Leafs!Two[d]
<1> DEFINE S == Nat \ {0}
           a == 1
           step == [m \in S |-> 2 * m]
<1>1. \A m \in S : step[m] = 2 * m
  OBVIOUS
<1>2. a \in S /\ step \in [S -> S]
  OBVIOUS
<1>3. PICK f \in [Nat -> S] : f[0] = a /\ \A d \in Nat : f[d + 1] = step[f[d]]
  <2> HIDE DEF S, a, step
  <2> QED BY ONLY <1>2, Repetition
<1> HIDE DEF step
<1>4. f[0] = 1 /\ \A d \in Nat : f[d] \in Nat \ {0} /\ f[d + 1] = 2 * f[d]
  BY <1>1, <1>3
<1>5. \A d \in Nat : f[d] = IF d = 0 THEN 1 ELSE 2 * f[d - 1]
  <2> TAKE d \in Nat
  <2>1. CASE d = 0
    BY <1>4, <2>1
  <2>2. CASE d # 0
    <3> DEFINE e == d - 1
    <3>1. e \in Nat /\ e + 1 = d
      BY <2>2
    <3>2. f[e + 1] = 2 * f[e]
      BY <1>4, <3>1
    <3> QED BY <2>2, <3>1, <3>2
  <2> QED BY <2>1, <2>2
<1>6. f = [d \in Nat |-> IF d = 0 THEN 1 ELSE 2 * f[d - 1]]
  BY <1>3, <1>5
<1>7. Leafs!Two = [d \in Nat |-> IF d = 0 THEN 1 ELSE 2 * Leafs!Two[d - 1]]
  BY <1>6 DEF Leafs!Two
<1> DEFINE T == Leafs!Two
           G == {d \in Nat : T[d] \in Nat \ {0} /\ d < T[d]}
<1>8. T = [d \in Nat |-> IF d = 0 THEN 1 ELSE 2 * T[d - 1]]
  BY <1>7
<1> HIDE DEF T
<1>9. T[0] = 1 /\ \A d \in Nat : T[d + 1] = 2 * T[d]
  <2>1. T[0] = 1
    BY <1>8
  <2>2. ASSUME NEW d \in Nat PROVE T[d + 1] = 2 * T[d]
    <3>1. d + 1 \in Nat /\ d + 1 # 0 /\ (d + 1) - 1 = d
      OBVIOUS
    <3> QED BY <1>8, <3>1
  <2> QED BY <2>1, <2>2
<1>10. 0 \in G
  BY <1>9
<1>11. ASSUME NEW d \in Nat, d \in G PROVE d + 1 \in G
  <2>1. T[d + 1] = 2 * T[d] /\ T[d] \in Nat \ {0} /\ d < T[d]
    BY <1>9, <1>11
  <2> QED BY <2>1
<1> HIDE DEF G
<1>12. Nat \subseteq G
  BY <1>10, <1>11, NumberInduction
<1>13. \A d \in Nat : T[d] \in Nat \ {0} /\ d < T[d]
  BY <1>12 DEF G
<1> QED BY <1>9, <1>13 DEF T

\* The powers of two grow.
LEMMA TwoGrows ==
  ASSUME NEW d \in Nat
  PROVE  \A k \in Nat : Leafs!Two[d] <= Leafs!Two[d + k]
<1> DEFINE T == Leafs!Two
           G == {k \in Nat : T[d] <= T[d + k]}
<1>1. \A e \in Nat : T[e] \in Nat \ {0} /\ T[e + 1] = 2 * T[e]
  BY TwoPowers
<1> HIDE DEF T
<1>2. 0 \in G
  <2>1. d + 0 = d
    OBVIOUS
  <2> QED BY <1>1, <2>1
<1>3. ASSUME NEW k \in Nat, k \in G PROVE k + 1 \in G
  <2>1. d + (k + 1) = (d + k) + 1 /\ d + k \in Nat
    OBVIOUS
  <2>2. T[d + (k + 1)] = 2 * T[d + k] /\ T[d + k] \in Nat /\ T[d] \in Nat
    BY <1>1, <2>1
  <2>3. T[d] <= T[d + k]
    BY <1>3
  <2>4. T[d] <= T[d + (k + 1)]
    BY <2>2, <2>3
  <2> QED BY <2>4
<1> HIDE DEF G
<1>4. Nat \subseteq G
  BY <1>2, <1>3, NumberInduction
<1> QED BY <1>4 DEF G, T

\* The powers of two keep the order.
LEMMA TwoOrder ==
  ASSUME NEW d \in Nat, NEW e \in Nat, d <= e
  PROVE  Leafs!Two[d] <= Leafs!Two[e]
<1> DEFINE k == e - d
<1>1. k \in Nat /\ d + k = e
  OBVIOUS
<1> HIDE DEF k
<1> QED BY <1>1, TwoGrows

\* How often a number can be halved.
LEMMA HalvesBelow ==
  ASSUME NEW n \in Nat
  PROVE  \A d \in Nat : \A k \in Nat : Halves(n)[d] < Leafs!Two[k] <=> n < Leafs!Two[k + d]
<1> DEFINE z == Halves(n)
           T == Leafs!Two
           G == {d \in Nat : \A k \in Nat : z[d] < T[k] <=> n < T[k + d]}
<1>1. z[0] = n /\ \A d \in Nat : z[d] \in Nat /\ z[d + 1] = z[d] \div 2
  BY HalvesStep
<1>2. \A e \in Nat : T[e] \in Nat \ {0} /\ T[e + 1] = 2 * T[e]
  BY TwoPowers
<1> HIDE DEF z, T
<1>3. 0 \in G
  <2>1. ASSUME NEW k \in Nat PROVE k + 0 = k
    OBVIOUS
  <2> QED BY <1>1, <2>1
<1>4. ASSUME NEW d \in Nat, d \in G PROVE d + 1 \in G
  <2>1. ASSUME NEW k \in Nat PROVE z[d + 1] < T[k] <=> n < T[k + (d + 1)]
    <3>1. k + (d + 1) = (k + 1) + d /\ k + 1 \in Nat
      OBVIOUS
    <3>2. z[d] < T[k + 1] <=> n < T[(k + 1) + d]
      BY <1>4, <3>1
    <3>3. z[d] \in Nat /\ T[k] \in Nat /\ T[k + 1] = 2 * T[k] /\ z[d + 1] = z[d] \div 2
      BY <1>1, <1>2
    <3>4. z[d] \div 2 < T[k] <=> z[d] < 2 * T[k]
      BY <3>3
    <3> QED BY <3>1, <3>2, <3>3, <3>4
  <2> QED BY <2>1
<1> HIDE DEF G
<1>5. Nat \subseteq G
  BY <1>3, <1>4, NumberInduction
<1> QED BY <1>5 DEF G, z, T

\* A number is halved to nothing by as many steps as the power above it.
LEMMA HalvesZero ==
  ASSUME NEW n \in Nat, NEW d \in Nat
  PROVE  Halves(n)[d] = 0 <=> n < Leafs!Two[d]
<1>1. Halves(n)[d] < Leafs!Two[0] <=> n < Leafs!Two[0 + d]
  BY HalvesBelow
<1>2. Halves(n)[d] \in Nat /\ Leafs!Two[0] = 1 /\ 0 + d = d
  BY HalvesStep, TwoPowers
<1> QED BY <1>1, <1>2

\* The depth of a tree.
LEMMA DepthOf ==
  ASSUME NEW n \in Nat \ {0}, n <= MaxLeaves, Limits, NEW depth, depth = Leafs!tree_depth(n)
  PROVE  /\ depth \in 1 .. 32 /\ depth \in Nat /\ depth - 1 \in Nat /\ n <= Leafs!Two[depth]
         /\ depth = 1 \/ n > Leafs!Two[depth - 1]
         /\ Halves(n - 1)[depth] = 0
<1> DEFINE T == Leafs!Two
           E == {d \in Nat : d \in 1 .. 32 /\ n <= T[d]}
<1>1. \A e \in Nat : T[e] \in Nat
  BY TwoPowers
<1>2. PICK d \in 1 .. 32 : MaxLeaves <= T[d]
  BY DEF Limits, Leafs!MerkleAssumption
<1>3. MaxLeaves \in Nat
  BY DEF Limits, Leafs!MerkleAssumption
<1> HIDE DEF T
<1>4. d \in E
  <2>1. d \in Nat /\ T[d] \in Nat
    BY <1>1
  <2>2. n <= T[d]
    BY <1>2, <1>3, <2>1
  <2> QED BY <2>1, <2>2
<1>5. PICK e \in E : \A f \in E : e <= f
  <2>1. E \in SUBSET Nat /\ E # {}
    BY <1>4
  <2> HIDE DEF E
  <2> QED BY ONLY <2>1, SmallestOf
<1>6. e = 1 \/ n > T[e - 1]
  <2>1. CASE e # 1
    <3>1. e - 1 \in 1 .. 32 /\ e - 1 \in Nat /\ ~(e <= e - 1)
      BY <2>1
    <3>2. T[e - 1] \in Nat
      BY <1>1, <3>1
    <3>3. ~(n <= T[e - 1])
      BY <1>5, <3>1
    <3> QED BY <3>2, <3>3
  <2> QED BY <2>1
<1>7. e \in 1 .. 32 /\ n <= T[e]
  BY <1>5
<1>8. depth \in 1 .. 32 /\ n <= T[depth] /\ (depth = 1 \/ n > T[depth - 1])
  BY <1>6, <1>7 DEF Leafs!tree_depth, T
<1>9. depth \in Nat /\ depth - 1 \in Nat
  BY <1>8
<1>10. Halves(n - 1)[depth] = 0
  <2>1. n - 1 \in Nat /\ n - 1 < T[depth]
    BY <1>1, <1>8, <1>9
  <2> QED BY <1>9, <2>1, HalvesZero DEF T
<1> QED BY <1>8, <1>9, <1>10 DEF T

\* The sizes of the layers.
LEMMA SizesAre ==
  ASSUME NEW n \in Nat \ {0}, NEW depth \in Nat, depth = Leafs!tree_depth(n)
  PROVE  \A d \in 0 .. depth : Leafs!LayerSizes(n)[d] = Halves(n - 1)[d] + 1
<1> DEFINE z == Halves(n - 1)
           size_of == Leafs!LayerSizes(n)
           f == [d \in 0 .. depth |-> z[d] + 1]
           G == {d \in Nat : d <= depth => size_of[d] = f[d]}
<1>0. n - 1 \in Nat
  OBVIOUS
<1>1. z[0] = n - 1 /\ \A d \in Nat : z[d] \in Nat /\ z[d + 1] = z[d] \div 2
  BY <1>0, HalvesStep
<1> HIDE DEF z
<1>2. \A d \in 0 .. depth : f[d] = IF d = 0 THEN n ELSE Leafs!Halved(f[d - 1])
  <2> TAKE d \in 0 .. depth
  <2>1. CASE d = 0
    <3>1. f[d] = z[d] + 1 /\ z[d] = n - 1
      BY <1>1, <2>1
    <3>2. z[d] + 1 = n
      BY <3>1
    <3> QED BY <2>1, <3>1, <3>2
  <2>2. CASE d # 0
    <3> DEFINE e == d - 1
    <3>1. e \in Nat /\ e \in 0 .. depth /\ e + 1 = d
      BY <2>2
    <3>2. f[d] = (z[e] \div 2) + 1 /\ f[e] = z[e] + 1 /\ z[e] \in Nat
      BY <1>1, <3>1
    <3>3. Leafs!Halved(z[e] + 1) = (z[e] \div 2) + 1
      BY <3>2 DEF Leafs!Halved
    <3> QED BY <2>2, <3>2, <3>3
  <2> QED BY <2>1, <2>2
<1>3. f = [d \in 0 .. depth |-> IF d = 0 THEN n ELSE Leafs!Halved(f[d - 1])]
  BY <1>2
<1> HIDE DEF f
<1>4. size_of = [d \in 0 .. depth |-> IF d = 0 THEN n ELSE Leafs!Halved(size_of[d - 1])]
  BY <1>3 DEF Leafs!LayerSizes
<1> HIDE DEF size_of
<1>5. 0 \in G
  BY <1>2, <1>4
<1>6. ASSUME NEW d \in Nat, d \in G PROVE d + 1 \in G
  <2>1. ASSUME d + 1 <= depth PROVE size_of[d + 1] = f[d + 1]
    <3>1. d + 1 \in 0 .. depth /\ (d + 1) - 1 = d /\ d + 1 # 0 /\ d <= depth
      BY <2>1
    <3>2. f[d + 1] = Leafs!Halved(f[d])
      BY <1>2, <3>1
    <3>3. size_of[d + 1] = Leafs!Halved(size_of[d])
      BY <1>4, <3>1
    <3> QED BY <1>6, <3>1, <3>2, <3>3
  <2> QED BY <2>1
<1> HIDE DEF G
<1>7. Nat \subseteq G
  BY <1>5, <1>6, NumberInduction
<1>8. \A d \in 0 .. depth : size_of[d] = f[d]
  BY <1>7 DEF G
<1> QED BY <1>8 DEF size_of, f, z

-----------------------------------------------------------------------------
\* The hashes of all layers above those of layer 0, which has n + 1 nodes.
Levels(n, h, f) ==
  /\ f[0] = h
  /\ \A d \in Nat : f[d + 1] = Join(Halves(n)[d], f[d])
Level(n, h) == CHOOSE f : Levels(n, h, f)

LevelsTo(n, h, f, k) ==
  f = [d \in 0 .. k |-> IF d = 0 THEN h ELSE Join(Halves(n)[d - 1], f[d - 1])]

\* The nodes over some leaves are determined up to each height.
LEMMA LevelsUnique ==
  ASSUME NEW n, NEW h, NEW k \in Nat, NEW l \in Nat, NEW f, NEW g,
         LevelsTo(n, h, f, k), LevelsTo(n, h, g, l)
  PROVE  \A d \in Nat : d <= k /\ d <= l => f[d] = g[d]
<1> DEFINE G == {d \in Nat : d <= k /\ d <= l => f[d] = g[d]}
           up(d, x) == Join(Halves(n)[d], x)
<1>1. \A d \in 0 .. k : f[d] = IF d = 0 THEN h ELSE up(d - 1, f[d - 1])
  BY DEF LevelsTo
<1>2. \A d \in 0 .. l : g[d] = IF d = 0 THEN h ELSE up(d - 1, g[d - 1])
  BY DEF LevelsTo
<1> HIDE DEF up
<1>3. 0 \in G
  BY <1>1, <1>2
<1>4. ASSUME NEW d \in Nat, d \in G PROVE d + 1 \in G
  <2>1. ASSUME d + 1 <= k, d + 1 <= l PROVE f[d + 1] = g[d + 1]
    <3>1. d + 1 \in 0 .. k /\ d + 1 \in 0 .. l /\ d + 1 # 0 /\ (d + 1) - 1 = d /\ d <= k /\ d <= l
      BY <2>1
    <3>2. f[d + 1] = up(d, f[d]) /\ g[d + 1] = up(d, g[d])
      BY <1>1, <1>2, <3>1
    <3> QED BY <1>4, <3>1, <3>2
  <2> QED BY <2>1
<1> HIDE DEF G
<1>5. Nat \subseteq G
  BY <1>3, <1>4, NumberInduction
<1> QED BY <1>5 DEF G

\* There are nodes over any leaves, at every height.
LEMMA LevelsAre == ASSUME NEW n, NEW h PROVE Levels(n, h, Level(n, h))
<1> DEFINE G == {k \in Nat : \E f : LevelsTo(n, h, f, k)}
           H(k) == CHOOSE f : LevelsTo(n, h, f, k)
           F == [d \in Nat |-> H(d)[d]]
           up(d, x) == Join(Halves(n)[d], x)
<1>1. 0 \in G
  <2> DEFINE f == [d \in 0 .. 0 |-> h]
  <2>1. \A d \in 0 .. 0 : f[d] = IF d = 0 THEN h ELSE up(d - 1, f[d - 1])
    OBVIOUS
  <2>2. f = [d \in 0 .. 0 |-> IF d = 0 THEN h ELSE up(d - 1, f[d - 1])]
    BY <2>1
  <2>3. LevelsTo(n, h, f, 0)
    BY <2>2 DEF LevelsTo
  <2> QED BY <2>3
<1>2. ASSUME NEW k \in Nat, k \in G PROVE k + 1 \in G
  <2>1. PICK g : LevelsTo(n, h, g, k)
    BY <1>2
  <2>2. \A d \in 0 .. k : g[d] = IF d = 0 THEN h ELSE up(d - 1, g[d - 1])
    BY <2>1 DEF LevelsTo
  <2> HIDE DEF up
  <2> DEFINE f == [d \in 0 .. k + 1 |-> IF d = k + 1 THEN up(k, g[k]) ELSE g[d]]
  <2>3. \A d \in 0 .. k : f[d] = g[d]
    OBVIOUS
  <2>4. k + 1 \in 0 .. k + 1 /\ f[k + 1] = up(k, g[k])
    OBVIOUS
  <2>5. f = [d \in 0 .. k + 1 |-> f[d]]
    OBVIOUS
  <2> HIDE DEF f
  <2>6. \A d \in 0 .. k + 1 : f[d] = IF d = 0 THEN h ELSE up(d - 1, f[d - 1])
    <3> TAKE d \in 0 .. k + 1
    <3>1. CASE d = k + 1
      <4>1. d # 0 /\ d - 1 = k /\ k \in 0 .. k
        BY <3>1
      <4> QED BY <2>3, <2>4, <3>1, <4>1
    <3>2. CASE d # k + 1
      <4>1. d \in 0 .. k /\ (d # 0 => d - 1 \in 0 .. k)
        BY <3>2
      <4> QED BY <2>2, <2>3, <4>1
    <3> QED BY <3>1, <3>2
  <2>7. f = [d \in 0 .. k + 1 |-> IF d = 0 THEN h ELSE up(d - 1, f[d - 1])]
    BY <2>5, <2>6
  <2>8. LevelsTo(n, h, f, k + 1)
    BY <2>7 DEF LevelsTo, up
  <2> QED BY <2>8
<1> HIDE DEF G, H
<1>3. Nat \subseteq G
  BY <1>1, <1>2, NumberInduction
<1>4. \A k \in Nat : LevelsTo(n, h, H(k), k)
  BY <1>3 DEF G, H
<1>5. ASSUME NEW k \in Nat PROVE H(k)[0] = h
  <2>1. 0 \in 0 .. k
    OBVIOUS
  <2> QED BY <1>4, <2>1 DEF LevelsTo
<1>6. ASSUME NEW d \in Nat PROVE H(d + 1)[d + 1] = up(d, H(d)[d])
  <2> DEFINE f == H(d + 1)
  <2>1. LevelsTo(n, h, f, d + 1) /\ LevelsTo(n, h, H(d), d)
    BY <1>4
  <2> HIDE DEF f
  <2>2. d + 1 \in Nat /\ d + 1 \in 0 .. d + 1 /\ d + 1 # 0 /\ (d + 1) - 1 = d /\ d <= d /\ d <= d + 1
    OBVIOUS
  <2>3. f[d + 1] = up(d, f[d])
    BY <2>1, <2>2 DEF LevelsTo
  <2>4. f[d] = H(d)[d]
    BY <2>1, <2>2, LevelsUnique
  <2> QED BY <2>3, <2>4 DEF f
<1>7. F[0] = h /\ \A d \in Nat : F[d + 1] = up(d, F[d])
  BY <1>5, <1>6
<1> HIDE DEF F
<1>8. Levels(n, h, F)
  BY <1>7 DEF Levels, up
<1> QED BY <1>8 DEF Level

\* A node is the pair of its children, or its only child.
LEMMA LevelStep ==
  ASSUME NEW n, NEW h
  PROVE  /\ Level(n, h)[0] = h
         /\ \A d \in Nat : Level(n, h)[d + 1] = Join(Halves(n)[d], Level(n, h)[d])
         /\ \A d, p \in Nat :
              Level(n, h)[d + 1][p]
                = IF 2 * p + 1 <= Halves(n)[d]
                  THEN <<Level(n, h)[d][2 * p], Level(n, h)[d][2 * p + 1]>>
                  ELSE Level(n, h)[d][2 * p]
<1> DEFINE f == Level(n, h)
<1>1. f[0] = h /\ \A d \in Nat : f[d + 1] = Join(Halves(n)[d], f[d])
  BY LevelsAre DEF Levels
<1> HIDE DEF f
<1>2. ASSUME NEW d \in Nat, NEW p \in Nat
      PROVE  f[d + 1][p] = IF 2 * p + 1 <= Halves(n)[d] THEN <<f[d][2 * p], f[d][2 * p + 1]>>
                           ELSE f[d][2 * p]
  BY <1>1 DEF Join
<1> QED BY <1>1, <1>2 DEF f

-----------------------------------------------------------------------------
\* Nodes over the first leaves only do not depend on the others.
LEMMA LevelsBelow ==
  ASSUME NEW n \in Nat, NEW m \in Nat, n <= m, NEW h, NEW g, \A i \in 0 .. n : h[i] = g[i]
  PROVE  \A d \in Nat : \A j \in Nat :
           j < Halves(n + 1)[d] => Level(n, h)[d][j] = Level(m, g)[d][j]
<1> DEFINE f == Level(n, h)
           e == Level(m, g)
           x == Halves(n)
           y == Halves(m)
           w == Halves(n + 1)
           G == {d \in Nat : \A j \in Nat : j < w[d] => f[d][j] = e[d][j]}
<1>1. /\ \A d \in Nat : x[d] \in Nat /\ y[d] \in Nat /\ w[d] \in Nat
      /\ w[0] = n + 1 /\ \A d \in Nat : w[d + 1] = w[d] \div 2
  BY HalvesStep
<1>2. \A d \in Nat : x[d] <= y[d]
  BY HalvesOrder
<1>3. \A d \in Nat : w[d] <= x[d] + 1
  <2> DEFINE k == n + 1
  <2>1. k \in Nat \ {0} /\ k - 1 = n
    OBVIOUS
  <2>2. \A d \in Nat : Halves(k)[d] <= Halves(k - 1)[d] + 1
    BY <2>1, HalvesNext
  <2> QED BY <2>1, <2>2
<1>4. /\ f[0] = h /\ e[0] = g
      /\ \A d, p \in Nat : f[d + 1][p] = IF 2 * p + 1 <= x[d] THEN <<f[d][2 * p], f[d][2 * p + 1]>>
                                         ELSE f[d][2 * p]
      /\ \A d, p \in Nat : e[d + 1][p] = IF 2 * p + 1 <= y[d] THEN <<e[d][2 * p], e[d][2 * p + 1]>>
                                         ELSE e[d][2 * p]
  BY LevelStep
<1> HIDE DEF f, e, x, y, w
<1>5. 0 \in G
  <2>1. ASSUME NEW j \in Nat, j < w[0] PROVE f[0][j] = e[0][j]
    <3>1. j < n + 1
      BY <1>1, <2>1
    <3>2. j \in 0 .. n
      BY <3>1
    <3> QED BY <1>4, <3>2
  <2> QED BY <2>1
<1>6. ASSUME NEW d \in Nat, d \in G PROVE d + 1 \in G
  <2>1. ASSUME NEW j \in Nat, j < w[d + 1] PROVE f[d + 1][j] = e[d + 1][j]
    <3>1. w[d] \in Nat /\ j < w[d] \div 2 /\ w[d] <= x[d] + 1 /\ x[d] <= y[d]
          /\ x[d] \in Nat /\ y[d] \in Nat
      BY <1>1, <1>2, <1>3, <2>1
    <3>2. 2 * j + 1 < w[d] /\ 2 * j < w[d] /\ 2 * j \in Nat /\ 2 * j + 1 \in Nat
      BY <3>1
    <3>3. 2 * j + 1 <= x[d] /\ 2 * j + 1 <= y[d]
      BY <3>1, <3>2
    <3>4. f[d][2 * j] = e[d][2 * j] /\ f[d][2 * j + 1] = e[d][2 * j + 1]
      BY <1>6, <3>2
    <3>5. f[d + 1][j] = <<f[d][2 * j], f[d][2 * j + 1]>>
      BY <1>4, <3>3
    <3>6. e[d + 1][j] = <<e[d][2 * j], e[d][2 * j + 1]>>
      BY <1>4, <3>3
    <3> QED BY <3>4, <3>5, <3>6
  <2> QED BY <2>1
<1> HIDE DEF G
<1>7. Nat \subseteq G
  BY <1>5, <1>6, NumberInduction
<1> QED BY <1>7 DEF G, f, e, w

\* Leaves that change change only the nodes above them.
LEMMA LevelsOutside ==
  ASSUME NEW n \in Nat, NEW I \in SUBSET Nat, NEW h, NEW g, \A i \in Nat \ I : h[i] = g[i]
  PROVE  \A d \in Nat : \A j \in Nat \ Above(I)[d] : Level(n, h)[d][j] = Level(n, g)[d][j]
<1> DEFINE f == Level(n, h)
           e == Level(n, g)
           x == Halves(n)
           A == Above(I)
           G == {d \in Nat : \A j \in Nat \ A[d] : f[d][j] = e[d][j]}
<1>1. A[0] = I /\ \A d \in Nat : A[d] \in SUBSET Nat /\ A[d + 1] = Up(A[d])
  BY AboveStep
<1>2. \A d \in Nat : x[d] \in Nat
  BY HalvesStep
<1>4. /\ f[0] = h /\ e[0] = g
      /\ \A d, p \in Nat : f[d + 1][p] = IF 2 * p + 1 <= x[d] THEN <<f[d][2 * p], f[d][2 * p + 1]>>
                                         ELSE f[d][2 * p]
      /\ \A d, p \in Nat : e[d + 1][p] = IF 2 * p + 1 <= x[d] THEN <<e[d][2 * p], e[d][2 * p + 1]>>
                                         ELSE e[d][2 * p]
  BY LevelStep
<1> HIDE DEF f, e, x, A
<1>5. 0 \in G
  BY <1>1, <1>4
<1>6. ASSUME NEW d \in Nat, d \in G PROVE d + 1 \in G
  <2>1. ASSUME NEW j \in Nat \ A[d + 1] PROVE f[d + 1][j] = e[d + 1][j]
    <3>1. 2 * j \in Nat /\ 2 * j + 1 \in Nat /\ (2 * j) \div 2 = j /\ (2 * j + 1) \div 2 = j
      OBVIOUS
    <3>2. 2 * j \notin A[d] /\ 2 * j + 1 \notin A[d]
      BY <1>1, <2>1, <3>1 DEF Up
    <3>3. f[d][2 * j] = e[d][2 * j] /\ f[d][2 * j + 1] = e[d][2 * j + 1]
      BY <1>6, <3>1, <3>2
    <3>4. f[d + 1][j] = IF 2 * j + 1 <= x[d] THEN <<f[d][2 * j], f[d][2 * j + 1]>> ELSE f[d][2 * j]
      BY <1>4
    <3>5. e[d + 1][j] = IF 2 * j + 1 <= x[d] THEN <<e[d][2 * j], e[d][2 * j + 1]>> ELSE e[d][2 * j]
      BY <1>4
    <3> QED BY <3>3, <3>4, <3>5
  <2> QED BY <2>1
<1> HIDE DEF G
<1>7. Nat \subseteq G
  BY <1>5, <1>6, NumberInduction
<1> QED BY <1>7 DEF G, f, e, A

\* No two lists of leaves have the same nodes.
Decides(n, h, g) ==
  \A d \in Nat : (\A j \in 0 .. Halves(n)[d] : Level(n, h)[d][j] = Level(n, g)[d][j])
                   => \A i \in 0 .. n : h[i] = g[i]

\* No two lists of leaves have the same nodes.
LEMMA LevelsInjective ==
  ASSUME NEW n \in Nat, NEW h, NEW g
  PROVE  Decides(n, h, g)
<1> SUFFICES \A d \in Nat : (\A j \in 0 .. Halves(n)[d] : Level(n, h)[d][j] = Level(n, g)[d][j])
                              => \A i \in 0 .. n : h[i] = g[i]
  BY DEF Decides
<1> DEFINE f == Level(n, h)
           e == Level(n, g)
           x == Halves(n)
           G == {d \in Nat : (\A j \in 0 .. x[d] : f[d][j] = e[d][j]) => \A i \in 0 .. n : h[i] = g[i]}
<1>2. x[0] = n /\ \A d \in Nat : x[d] \in Nat /\ x[d + 1] = x[d] \div 2
  BY HalvesStep
<1>3. /\ f[0] = h
      /\ \A d, p \in Nat : f[d + 1][p] = IF 2 * p + 1 <= x[d] THEN <<f[d][2 * p], f[d][2 * p + 1]>>
                                         ELSE f[d][2 * p]
  BY ONLY LevelStep
<1>4. /\ e[0] = g
      /\ \A d, p \in Nat : e[d + 1][p] = IF 2 * p + 1 <= x[d] THEN <<e[d][2 * p], e[d][2 * p + 1]>>
                                         ELSE e[d][2 * p]
  BY ONLY LevelStep
<1> HIDE DEF f, e, x
<1>5. 0 \in G
  BY <1>2, <1>3, <1>4
<1>6. ASSUME NEW d \in Nat, d \in G PROVE d + 1 \in G
  <2>1. ASSUME \A j \in 0 .. x[d + 1] : f[d + 1][j] = e[d + 1][j]
        PROVE  \A j \in 0 .. x[d] : f[d][j] = e[d][j]
    <3> TAKE j \in 0 .. x[d]
    <3> DEFINE p == j \div 2
    <3>1. x[d] \in Nat /\ x[d + 1] = x[d] \div 2 /\ j \in Nat /\ j <= x[d]
      BY <1>2
    <3>2. p \in Nat /\ p \in 0 .. x[d + 1] /\ (j = 2 * p \/ j = 2 * p + 1)
      BY <3>1
    <3> HIDE DEF p
    <3>3. f[d + 1][p] = e[d + 1][p]
      BY <2>1, <3>2
    <3>4. CASE 2 * p + 1 <= x[d]
      <4>0. f[d + 1][p] = <<f[d][2 * p], f[d][2 * p + 1]>>
        BY <1>3, <1>4, <3>2, <3>4
      <4>00. e[d + 1][p] = <<e[d][2 * p], e[d][2 * p + 1]>>
        BY <1>3, <1>4, <3>2, <3>4
      <4>1. <<f[d][2 * p], f[d][2 * p + 1]>> = <<e[d][2 * p], e[d][2 * p + 1]>>
        BY <3>3, <4>0, <4>00
      <4>2. f[d][2 * p] = e[d][2 * p] /\ f[d][2 * p + 1] = e[d][2 * p + 1]
        BY <4>1
      <4> QED BY <3>2, <4>2
    <3>5. CASE ~(2 * p + 1 <= x[d])
      <4>1. f[d][2 * p] = e[d][2 * p]
        BY <1>3, <1>4, <3>2, <3>3, <3>5
      <4>2. j = 2 * p
        BY <3>1, <3>2, <3>5
      <4> QED BY <4>1, <4>2
    <3> QED BY <3>4, <3>5
  <2> QED BY <1>6, <2>1
<1> HIDE DEF G
<1>7. Nat \subseteq G
  BY <1>5, <1>6, NumberInduction
<1> QED BY <1>7 DEF G, f, e, x

\* The nodes over the leaves behind the first 2^e.
HalvesShifted(n, m, e) ==
  \A d \in 0 .. e : Halves(n)[d] = Leafs!Two[e - d] + Halves(m)[d]

\* The halves of a number beyond a power of two.
LEMMA HalvesShift ==
  ASSUME NEW e \in Nat, NEW m \in Nat, NEW n, n = Leafs!Two[e] + m
  PROVE  HalvesShifted(n, m, e) /\ n \in Nat
<1> DEFINE x == Halves(n)
           y == Halves(m)
           T == Leafs!Two
           G == {d \in Nat : d <= e => x[d] = T[e - d] + y[d]}
<1>1. \A d \in Nat : T[d] \in Nat \ {0} /\ T[d + 1] = 2 * T[d]
  BY TwoPowers
<1>2. n \in Nat
  BY <1>1
<1>3. /\ x[0] = n /\ \A d \in Nat : x[d] \in Nat /\ x[d + 1] = x[d] \div 2
      /\ y[0] = m /\ \A d \in Nat : y[d] \in Nat /\ y[d + 1] = y[d] \div 2
  BY <1>2, HalvesStep
<1> HIDE DEF x, y
<1>4. 0 \in G
  <2>1. e - 0 = e
    OBVIOUS
  <2> QED BY <1>3, <2>1
<1>5. ASSUME NEW d \in Nat, d \in G PROVE d + 1 \in G
  <2>1. ASSUME d + 1 <= e PROVE x[d + 1] = T[e - (d + 1)] + y[d + 1]
    <3> DEFINE k == e - (d + 1)
    <3>1. k \in Nat /\ k + 1 = e - d /\ d <= e
      BY <2>1
    <3> HIDE DEF k
    <3>2. x[d] = T[k + 1] + y[d]
      BY <1>5, <3>1
    <3>3. T[k + 1] = 2 * T[k] /\ T[k] \in Nat /\ y[d] \in Nat
      BY <1>1, <1>3, <3>1
    <3>4. x[d] \div 2 = T[k] + y[d] \div 2
      BY <3>2, <3>3
    <3> QED BY <1>3, <3>4 DEF k
  <2> QED BY <2>1
<1> HIDE DEF G
<1>6. Nat \subseteq G
  BY <1>4, <1>5, NumberInduction
<1>7. \A d \in 0 .. e : x[d] = T[e - d] + y[d]
  BY <1>6 DEF G
<1> QED BY <1>2, <1>7 DEF HalvesShifted, x, y

BaseShifted(n, m, e, h, g) ==
  n = Leafs!Two[e] + m /\ e \in Nat /\ m \in Nat /\ \A i \in Nat : g[i] = h[Leafs!Two[e] + i]

\* The right half of a tree is a tree of its own.
LEMMA LevelsShift ==
  ASSUME NEW e, NEW m, NEW n, NEW h, NEW g, BaseShifted(n, m, e, h, g)
  PROVE  \A j \in Nat : Level(n, h)[e][1 + j] = Level(m, g)[e][j]
<1> DEFINE f == Level(n, h)
           u == Level(m, g)
           x == Halves(n)
           y == Halves(m)
           T == Leafs!Two
           G == {d \in Nat : d <= e => \A j \in Nat : f[d][T[e - d] + j] = u[d][j]}
<1>0. n = T[e] + m /\ e \in Nat /\ m \in Nat /\ \A i \in Nat : g[i] = h[T[e] + i]
  BY DEF BaseShifted
<1>1. T[0] = 1 /\ \A d \in Nat : T[d] \in Nat \ {0} /\ T[d + 1] = 2 * T[d]
  BY TwoPowers
<1>2. \A d \in 0 .. e : x[d] = T[e - d] + y[d]
  BY <1>0, HalvesShift DEF HalvesShifted
<1>3. \A d \in Nat : y[d] \in Nat
  BY <1>0, HalvesStep
<1>4. /\ f[0] = h /\ u[0] = g
      /\ \A d, p \in Nat : f[d + 1][p] = IF 2 * p + 1 <= x[d] THEN <<f[d][2 * p], f[d][2 * p + 1]>>
                                         ELSE f[d][2 * p]
      /\ \A d, p \in Nat : u[d + 1][p] = IF 2 * p + 1 <= y[d] THEN <<u[d][2 * p], u[d][2 * p + 1]>>
                                         ELSE u[d][2 * p]
  BY LevelStep
<1> HIDE DEF f, u, x, y
<1>5. 0 \in G
  <2>1. e - 0 = e
    BY <1>0
  <2> QED BY <1>0, <1>4, <2>1
<1>6. ASSUME NEW d \in Nat, d \in G PROVE d + 1 \in G
  <2>1. ASSUME d + 1 <= e, NEW j \in Nat PROVE f[d + 1][T[e - (d + 1)] + j] = u[d + 1][j]
    <3> DEFINE k == e - (d + 1)
               p == T[k] + j
    <3>1. k \in Nat /\ k + 1 = e - d /\ d \in 0 .. e /\ d <= e
      BY <1>0, <2>1
    <3> HIDE DEF k
    <3>2. T[k + 1] = 2 * T[k] /\ T[k] \in Nat /\ y[d] \in Nat
      BY <1>1, <1>3, <3>1
    <3>3. p \in Nat /\ 2 * p = T[k + 1] + 2 * j /\ 2 * p + 1 = T[k + 1] + (2 * j + 1)
          /\ 2 * j \in Nat /\ 2 * j + 1 \in Nat
      BY <3>2
    <3>4. x[d] = T[k + 1] + y[d]
      BY <1>2, <3>1
    <3>5. 2 * p + 1 <= x[d] <=> 2 * j + 1 <= y[d]
      BY <3>2, <3>3, <3>4
    <3> HIDE DEF p
    <3>6. f[d][2 * p] = u[d][2 * j] /\ f[d][2 * p + 1] = u[d][2 * j + 1]
      BY <1>6, <3>1, <3>3
    <3>8. f[d + 1][p] = IF 2 * p + 1 <= x[d] THEN <<f[d][2 * p], f[d][2 * p + 1]>> ELSE f[d][2 * p]
      BY <1>4, <3>3
    <3>9. u[d + 1][j] = IF 2 * j + 1 <= y[d] THEN <<u[d][2 * j], u[d][2 * j + 1]>> ELSE u[d][2 * j]
      BY <1>4
    <3>7. f[d + 1][p] = u[d + 1][j]
      BY <3>5, <3>6, <3>8, <3>9
    <3> QED BY <3>7 DEF p, k
  <2> QED BY <2>1
<1> HIDE DEF G
<1>7. Nat \subseteq G
  BY <1>5, <1>6, NumberInduction
<1>8. \A j \in Nat : f[e][T[e - e] + j] = u[e][j]
  BY <1>0, <1>7 DEF G
<1>9. e - e = 0
  BY <1>0
<1> QED BY <1>1, <1>8, <1>9 DEF f, u

\* A single node is carried up.
LEMMA LevelCarried ==
  ASSUME NEW n \in Nat, NEW h, NEW d \in Nat, Halves(n)[d] = 0
  PROVE  \A k \in Nat : Level(n, h)[d + k][0] = Level(n, h)[d][0] /\ Halves(n)[d + k] = 0
<1> DEFINE f == Level(n, h)
           x == Halves(n)
           G == {k \in Nat : f[d + k][0] = f[d][0] /\ x[d + k] = 0}
<1>1. \A e \in Nat : x[e + 1] = x[e] \div 2
  BY HalvesStep
<1>2. \A e, p \in Nat : f[e + 1][p] = IF 2 * p + 1 <= x[e] THEN <<f[e][2 * p], f[e][2 * p + 1]>>
                                         ELSE f[e][2 * p]
  BY LevelStep
<1>3. x[d] = 0
  OBVIOUS
<1> HIDE DEF f, x
<1>4. 0 \in G
  <2>1. d + 0 = d
    OBVIOUS
  <2> QED BY <1>3, <2>1
<1>5. ASSUME NEW k \in Nat, k \in G PROVE k + 1 \in G
  <2> DEFINE e == d + k
  <2>1. e \in Nat /\ d + (k + 1) = e + 1
    OBVIOUS
  <2>2. x[e] = 0 /\ f[e][0] = f[d][0]
    BY <1>5
  <2> HIDE DEF e
  <2>3. x[e + 1] = 0
    BY <1>1, <2>1, <2>2
  <2>4. ~(2 * 0 + 1 <= x[e]) /\ 2 * 0 = 0 /\ 0 \in Nat
    BY <2>2
  <2>5. f[e + 1][0] = f[e][0]
    BY <1>2, <2>1, <2>4
  <2> QED BY <2>1, <2>2, <2>3, <2>5
<1> HIDE DEF G
<1>6. Nat \subseteq G
  BY <1>4, <1>5, NumberInduction
<1> QED BY <1>6 DEF G, f, x

Rises(n, h) ==
  /\ Level(n, h)[0] = h
  /\ \A d \in Nat : Level(n, h)[d + 1] = Join(Halves(n)[d], Level(n, h)[d])
  /\ \A d, p \in Nat :
       Level(n, h)[d + 1][p]
         = IF 2 * p + 1 <= Halves(n)[d]
           THEN <<Level(n, h)[d][2 * p], Level(n, h)[d][2 * p + 1]>>
           ELSE Level(n, h)[d][2 * p]

\* The nodes over some leaves, from height to height.
LEMMA LevelRises == ASSUME NEW n, NEW h PROVE Rises(n, h)
BY LevelStep DEF Rises

\* Nodes depend on the leaves only.
LEMMA LevelsSame ==
  ASSUME NEW n \in Nat, NEW h, NEW g, \A i \in 0 .. n : h[i] = g[i]
  PROVE  \A d \in Nat : \A j \in 0 .. Halves(n)[d] : Level(n, h)[d][j] = Level(n, g)[d][j]
<1> DEFINE f == Level(n, h)
           e == Level(n, g)
           x == Halves(n)
           G == {d \in Nat : \A j \in 0 .. x[d] : f[d][j] = e[d][j]}
<1>1. x[0] = n /\ \A d \in Nat : x[d] \in Nat /\ x[d + 1] = x[d] \div 2
  BY HalvesStep
<1>2. /\ f[0] = h /\ e[0] = g
      /\ \A d, p \in Nat : f[d + 1][p] = IF 2 * p + 1 <= x[d] THEN <<f[d][2 * p], f[d][2 * p + 1]>>
                                         ELSE f[d][2 * p]
      /\ \A d, p \in Nat : e[d + 1][p] = IF 2 * p + 1 <= x[d] THEN <<e[d][2 * p], e[d][2 * p + 1]>>
                                         ELSE e[d][2 * p]
  BY LevelStep
<1> HIDE DEF f, e, x
<1>3. 0 \in G
  BY <1>1, <1>2
<1>4. ASSUME NEW d \in Nat, d \in G PROVE d + 1 \in G
  <2>1. ASSUME NEW j \in 0 .. x[d + 1] PROVE f[d + 1][j] = e[d + 1][j]
    <3>1. x[d] \in Nat /\ x[d + 1] = x[d] \div 2
      BY <1>1
    <3>2. j \in Nat /\ 2 * j \in 0 .. x[d] /\ (2 * j + 1 <= x[d] => 2 * j + 1 \in 0 .. x[d])
      BY <3>1
    <3>3. f[d][2 * j] = e[d][2 * j] /\ (2 * j + 1 <= x[d] => f[d][2 * j + 1] = e[d][2 * j + 1])
      BY <1>4, <3>2
    <3>4. f[d + 1][j] = IF 2 * j + 1 <= x[d] THEN <<f[d][2 * j], f[d][2 * j + 1]>> ELSE f[d][2 * j]
      BY <1>2, <3>2
    <3>5. e[d + 1][j] = IF 2 * j + 1 <= x[d] THEN <<e[d][2 * j], e[d][2 * j + 1]>> ELSE e[d][2 * j]
      BY <1>2, <3>2
    <3> QED BY <3>3, <3>4, <3>5
  <2> QED BY <2>1
<1> HIDE DEF G
<1>5. Nat \subseteq G
  BY <1>3, <1>4, NumberInduction
<1> QED BY <1>5 DEF G, f, e, x

-----------------------------------------------------------------------------
\* The root of some leaves, at any height that is enough for them.
Base(s) == [i \in Nat |-> s[i + 1]]
RootOf(s, d) == Level(Len(s) - 1, Base(s))[d][0]

\* The root is the same at every height that is enough.
LEMMA RootAnyHeight ==
  ASSUME NEW s, Len(s) \in Nat \ {0}, NEW d \in Nat, NEW e \in Nat,
         Len(s) <= Leafs!Two[d], Len(s) <= Leafs!Two[e]
  PROVE  RootOf(s, d) = RootOf(s, e)
<1> DEFINE n == Len(s) - 1
<1>1. n \in Nat /\ n < Leafs!Two[d] /\ n < Leafs!Two[e]
  <2>1. Leafs!Two[d] \in Nat /\ Leafs!Two[e] \in Nat
    BY TwoPowers
  <2> QED BY <2>1
<1> HIDE DEF n
<1>2. ASSUME NEW a \in Nat, NEW b \in Nat, n < Leafs!Two[a], a <= b
      PROVE  Level(n, Base(s))[a][0] = Level(n, Base(s))[b][0]
  <2> DEFINE k == b - a
  <2>1. k \in Nat /\ a + k = b
    BY <1>2
  <2> HIDE DEF k
  <2>2. Halves(n)[a] = 0
    BY <1>1, <1>2, HalvesZero
  <2> DEFINE h == Base(s)
  <2> HIDE DEF h
  <2>3. \A j \in Nat : Level(n, h)[a + j][0] = Level(n, h)[a][0] /\ Halves(n)[a + j] = 0
    BY ONLY <1>1, <2>2, a \in Nat, LevelCarried
  <2>4. Level(n, Base(s))[a + k][0] = Level(n, Base(s))[a][0]
    BY <2>1, <2>3 DEF h
  <2> QED BY <2>1, <2>4
<1>3. d <= e \/ e <= d
  OBVIOUS
<1>4. Level(n, Base(s))[d][0] = Level(n, Base(s))[e][0]
  BY <1>1, <1>2, <1>3
<1> QED BY <1>4 DEF RootOf, n

\* The root of more than one leaf is the pair of the roots of its parts.
Halved(s, e, a, b) ==
  /\ a \in Seq(Leaves) \ {<<>>} /\ b \in Seq(Leaves) \ {<<>>}
  /\ Len(a) \in Nat \ {0} /\ Len(b) \in Nat \ {0}
  /\ Len(a) <= Leafs!Two[e] /\ Len(b) <= Leafs!Two[e]
  /\ Len(a) < Len(s) /\ Len(b) < Len(s)
  /\ RootOf(s, e + 1) = <<RootOf(a, e), RootOf(b, e)>>

\* The root of more than half a full tree is the pair of the roots of two parts.
LEMMA RootHalves ==
  ASSUME NEW s \in Seq(Leaves), NEW e \in Nat, NEW t, t = Leafs!Two[e], t < Len(s),
         Len(s) <= 2 * t
  PROVE  Halved(s, e, SubSeq(s, 1, t), SubSeq(s, t + 1, Len(s)))
<1> DEFINE a == SubSeq(s, 1, t)
           b == SubSeq(s, t + 1, Len(s))
           n == Len(s) - 1
           m == n - t
           h == Base(s)
           g == [i \in Nat |-> h[t + i]]
<1>1. t \in Nat \ {0} /\ Len(s) \in Nat
  <2>1. Leafs!Two[e] \in Nat \ {0}
    BY TwoPowers
  <2> QED BY <2>1
<1>2. n \in Nat /\ m \in Nat /\ n = t + m /\ m < t /\ t - 1 \in Nat /\ t - 1 <= n /\ (t - 1) + 1 = t
  <2> DEFINE len == Len(s)
  <2>1. t \in Nat \ {0} /\ len \in Nat /\ t < len /\ len <= 2 * t
    BY <1>1
  <2> HIDE DEF len
  <2> QED BY ONLY <2>1 DEF n, m, len
<1>3. a \in Seq(Leaves) /\ Len(a) = t /\ \A i \in 1 .. t : a[i] = s[i]
  BY <1>1
<1>4. b \in Seq(Leaves) /\ Len(b) = m + 1 /\ \A i \in 1 .. m + 1 : b[i] = s[t + i]
  <2>1. t + 1 \in 1 .. Len(s) + 1 /\ Len(s) - (t + 1) + 1 = m + 1
    BY <1>1
  <2>2. \A i \in 1 .. m + 1 : (t + 1) + i - 1 = t + i /\ t + i \in 1 .. Len(s)
    BY <1>1
  <2>3. b = [i \in 1 .. m + 1 |-> s[(t + 1) + i - 1]]
    <3> DEFINE p == t + 1
               q == Len(s)
    <3>1. p \in Nat /\ q \in Nat /\ q - p + 1 = m + 1
      BY <1>1
    <3> HIDE DEF p, q
    <3>2. SubSeq(s, p, q) = [i \in 1 .. q - p + 1 |-> s[p + i - 1]]
      BY <3>1
    <3> HIDE DEF m
    <3> QED BY <3>1, <3>2 DEF p, q
  <2>4. \A i \in 1 .. m + 1 : b[i] = s[t + i] /\ b[i] \in Leaves
    <3> TAKE i \in 1 .. m + 1
    <3>1. b[i] = s[(t + 1) + i - 1]
      BY <2>3
    <3> HIDE DEF b
    <3> QED BY <2>2, <3>1
  <2> HIDE DEF b
  <2>5. m + 1 \in Nat
    BY <1>2
  <2>6. b = [i \in 1 .. m + 1 |-> b[i]]
    BY <2>3
  <2>7. b \in [1 .. m + 1 -> Leaves]
    BY <2>4, <2>6
  <2> QED BY <2>4, <2>5, <2>7
<1>5. \A i \in 0 .. t - 1 : Base(a)[i] = h[i]
  <2> TAKE i \in 0 .. t - 1
  <2>1. i \in Nat /\ i + 1 \in 1 .. t
    BY <1>1
  <2> QED BY <1>3, <2>1 DEF Base
<1>6. \A i \in 0 .. m : g[i] = Base(b)[i]
  <2> TAKE i \in 0 .. m
  <2> HIDE DEF b, m
  <2>1. i \in Nat /\ i + 1 \in 1 .. m + 1 /\ t + i \in Nat /\ (t + i) + 1 = t + (i + 1)
    BY ONLY <1>1, <1>2, i \in 0 .. m
  <2> QED BY <1>4, <2>1 DEF Base
<1>7. \A i \in Nat : g[i] = h[t + i]
  OBVIOUS
<1> HIDE DEF a, b, n, m, h, g
<1> DEFINE f == Level(n, h)
<1>8. Halves(n)[e] = 1 + Halves(m)[e]
  <2>1. HalvesShifted(n, m, e)
    BY <1>2, HalvesShift
  <2>2. e \in 0 .. e /\ e - e = 0
    OBVIOUS
  <2>3. Halves(n)[e] = Leafs!Two[0] + Halves(m)[e]
    BY <2>1, <2>2 DEF HalvesShifted
  <2> QED BY <2>3, TwoPowers
<1>9. f[e + 1][0] = <<f[e][0], f[e][1]>>
  <2>0. /\ Level(n, h)[0] = h
        /\ \A d \in Nat : Level(n, h)[d + 1] = Join(Halves(n)[d], Level(n, h)[d])
        /\ \A d, p \in Nat :
             Level(n, h)[d + 1][p]
               = IF 2 * p + 1 <= Halves(n)[d]
                 THEN <<Level(n, h)[d][2 * p], Level(n, h)[d][2 * p + 1]>>
                 ELSE Level(n, h)[d][2 * p]
    <3>1. Rises(n, h)
      BY ONLY LevelRises
    <3> QED BY ONLY <3>1 DEF Rises
  <2>00. 0 \in Nat
    OBVIOUS
  <2>1. f[e + 1][0] = IF 2 * 0 + 1 <= Halves(n)[e] THEN <<f[e][2 * 0], f[e][2 * 0 + 1]>> ELSE f[e][2 * 0]
    BY ONLY <2>0, <2>00, e \in Nat
  <2>2. Halves(m)[e] \in Nat
    BY <1>2, HalvesStep
  <2>3. 2 * 0 + 1 <= Halves(n)[e] /\ 2 * 0 = 0 /\ 2 * 0 + 1 = 1
    BY <1>8, <2>2
  <2> QED BY <2>1, <2>3
<1>10. f[e][0] = Level(t - 1, Base(a))[e][0]
  <2> DEFINE k == t - 1
  <2>1. k \in Nat /\ k + 1 = t /\ k <= n /\ \A i \in 0 .. k : Base(a)[i] = h[i]
    BY <1>2, <1>5
  <2> HIDE DEF k
  <2>2. 0 < Halves(k + 1)[e]
    <3>1. Halves(t)[e] \in Nat /\ (Halves(t)[e] = 0 <=> t < Leafs!Two[e])
      BY <1>1, HalvesStep, HalvesZero
    <3> QED BY <1>1, <2>1, <3>1
  <2> DEFINE c == Base(a)
  <2>3. n \in Nat /\ \A i \in 0 .. k : c[i] = h[i]
    BY <1>2, <2>1
  <2>4. 0 \in Nat
    OBVIOUS
  <2> HIDE DEF c
  <2>5. \A d \in Nat : \A j \in Nat : j < Halves(k + 1)[d] => Level(k, c)[d][j] = Level(n, h)[d][j]
    BY ONLY <2>1, <2>3, LevelsBelow
  <2>6. Level(k, Base(a))[e][0] = Level(n, h)[e][0]
    BY <2>2, <2>4, <2>5 DEF c
  <2> QED BY <2>6 DEF k
<1>11. f[e][1] = Level(m, Base(b))[e][0]
  <2>1. f[e][1 + 0] = Level(m, g)[e][0]
    <3>1. n = Leafs!Two[e] + m /\ m \in Nat /\ \A i \in Nat : g[i] = h[Leafs!Two[e] + i]
      BY <1>2, <1>7
    <3>2. \A j \in Nat : Level(n, h)[e][1 + j] = Level(m, g)[e][j]
      <4>1. BaseShifted(n, m, e, h, g)
        BY <3>1 DEF BaseShifted
      <4> QED BY ONLY <4>1, LevelsShift
    <3>3. 0 \in Nat
      OBVIOUS
    <3> QED BY <3>2, <3>3
  <2>2. Halves(m)[e] \in Nat
    BY <1>2, HalvesStep
  <2>3. 0 \in 0 .. Halves(m)[e] /\ 1 + 0 = 1
    BY <2>2
  <2>4. Level(m, g)[e][0] = Level(m, Base(b))[e][0]
    BY <1>2, <1>6, <2>3, LevelsSame
  <2> QED BY <2>1, <2>3, <2>4
<1>12. RootOf(s, e + 1) = f[e + 1][0]
  BY DEF RootOf, n, h
<1>13. RootOf(a, e) = Level(t - 1, Base(a))[e][0]
  BY <1>3 DEF RootOf
<1>14. RootOf(b, e) = Level(m, Base(b))[e][0]
  <2>1. Len(b) - 1 = m
    BY <1>2, <1>4
  <2> QED BY <2>1 DEF RootOf
<1>15. RootOf(s, e + 1) = <<RootOf(a, e), RootOf(b, e)>>
  BY <1>9, <1>10, <1>11, <1>12, <1>13, <1>14
<1>16. Len(a) \in Nat \ {0} /\ Len(b) \in Nat \ {0} /\ Len(a) <= t /\ Len(b) <= t
       /\ Len(a) < Len(s) /\ Len(b) < Len(s)
  <2>1. Len(s) = n + 1
    BY <1>1 DEF n
  <2>2. Len(a) = t /\ Len(b) = m + 1
    BY <1>3, <1>4
  <2>3. t < n + 1 /\ m + 1 < n + 1 /\ m + 1 <= t /\ m + 1 \in Nat \ {0}
    BY ONLY <1>1, <1>2
  <2> QED BY <1>1, <2>1, <2>2, <2>3
<1>17. a # <<>> /\ b # <<>>
  BY <1>16
<1>18. Halved(s, e, a, b)
  BY <1>3, <1>4, <1>15, <1>16, <1>17 DEF Halved
<1> QED BY <1>18 DEF a, b

\* Lists are empty, have one element, or more.
LEMMA MoreThanOne ==
  ASSUME NEW s, Len(s) \in Nat \ {0}
  PROVE  Len(s) # 1 => Len(s) > 1
<1> DEFINE n == Len(s)
<1>1. n \in Nat \ {0}
  OBVIOUS
<1> HIDE DEF n
<1>2. n # 1 => n > 1
  BY <1>1
<1> QED BY <1>2 DEF n

\* Where the reference splits.
SplitAt(s) == CHOOSE d \in 0 .. Len(s) : Leafs!Two[d] < Len(s) /\ Len(s) <= Leafs!Two[d + 1]

\* There is a power of two to split a longer list at.
LEMMA SplitPoint ==
  ASSUME NEW s \in Seq(Leaves), Len(s) > 1
  PROVE  /\ SplitAt(s) \in Nat
         /\ Leafs!Two[SplitAt(s)] < Len(s) /\ Len(s) <= Leafs!Two[SplitAt(s) + 1]
         /\ Leafs!Two[SplitAt(s) + 1] = 2 * Leafs!Two[SplitAt(s)]
<1> DEFINE T == Leafs!Two
           n == Len(s)
           D == {d \in Nat : n <= T[d]}
<1>1. T[0] = 1 /\ \A d \in Nat : T[d] \in Nat /\ T[d + 1] = 2 * T[d] /\ d < T[d]
  BY TwoPowers
<1>2. n \in Nat /\ n > 1
  OBVIOUS
<1> HIDE DEF T, n
<1>3. n \in D
  <2>1. n < T[n] /\ T[n] \in Nat
    BY <1>1, <1>2
  <2> QED BY <1>2, <2>1
<1>4. PICK i \in D : \A j \in D : i <= j
  <2>1. D \in SUBSET Nat /\ D # {}
    BY <1>3
  <2> HIDE DEF D
  <2> QED BY ONLY <2>1, SmallestOf
<1>5. i # 0
  BY <1>1, <1>2
<1> DEFINE e == i - 1
<1>6. e \in Nat /\ e + 1 = i /\ e \in 0 .. n
  BY <1>2, <1>3, <1>4, <1>5
<1> HIDE DEF e
<1>7. e \notin D
  BY <1>4, <1>6
<1>8. T[e] < n /\ n <= T[e + 1]
  <2>1. T[e] \in Nat /\ ~(n <= T[e])
    BY <1>1, <1>6, <1>7
  <2>2. e + 1 \in D
    BY <1>4, <1>6
  <2> QED BY <1>2, <2>1, <2>2
<1>9. \E d \in 0 .. n : T[d] < n /\ n <= T[d + 1]
  BY <1>6, <1>8
<1>10. SplitAt(s) \in 0 .. n /\ T[SplitAt(s)] < n /\ n <= T[SplitAt(s) + 1]
  BY <1>9 DEF SplitAt, T, n
<1> DEFINE k == SplitAt(s)
<1>11. k \in Nat /\ T[k] < n /\ n <= T[k + 1]
  BY <1>10
<1> HIDE DEF k
<1>12. T[k + 1] = 2 * T[k]
  BY <1>1, <1>11
<1> QED BY <1>11, <1>12 DEF T, n, k

\* The recursion of the reference.
SplitRoot(f, s) ==
  IF Len(s) = 1 THEN s[1]
  ELSE <<f[SubSeq(s, 1, Leafs!Two[SplitAt(s)])], f[SubSeq(s, Leafs!Two[SplitAt(s)] + 1, Len(s))]>>

\* The reference root is the function that its definition describes.
LEMMA MerkleRootIs ==
  \A s \in Seq(Leaves) \ {<<>>} : Leafs!MerkleRoot[s] = SplitRoot(Leafs!MerkleRoot, s)
<1> DEFINE S == Seq(Leaves) \ {<<>>}
           f == [s \in S |-> RootOf(s, Len(s))]
<1>1. ASSUME NEW s \in S PROVE f[s] = SplitRoot(f, s)
  <2>1. s \in Seq(Leaves) /\ Len(s) \in Nat \ {0}
    OBVIOUS
  <2>2. CASE Len(s) = 1
    <3>1. Len(s) <= Leafs!Two[0] /\ Len(s) <= Leafs!Two[Len(s)]
      <4>1. Leafs!Two[0] = 1 /\ Leafs!Two[1] \in Nat /\ 1 < Leafs!Two[1]
        BY TwoPowers
      <4> QED BY <2>2, <4>1
    <3>2. RootOf(s, Len(s)) = RootOf(s, 0)
      BY <2>1, <3>1, RootAnyHeight
    <3>3. RootOf(s, 0) = Base(s)[0] /\ Base(s)[0] = s[1]
      <4>1. Base(s)[0] = s[1]
        BY DEF Base
      <4> QED BY <4>1, LevelStep DEF RootOf
    <3> QED BY <2>2, <3>2, <3>3 DEF SplitRoot
  <2>3. CASE Len(s) # 1
    <3> DEFINE e == SplitAt(s)
               t == Leafs!Two[e]
               a == SubSeq(s, 1, t)
               b == SubSeq(s, t + 1, Len(s))
    <3>1. Len(s) > 1
      BY ONLY <2>1, <2>3, MoreThanOne
    <3>2. e \in Nat /\ t < Len(s) /\ Len(s) <= 2 * t /\ Len(s) <= Leafs!Two[e + 1]
      BY <2>1, <3>1, SplitPoint
    <3> HIDE DEF e
    <3>3. Halved(s, e, a, b)
      BY <2>1, <3>2, RootHalves
    <3> HIDE DEF a, b, t
    <3>4. ASSUME NEW r, Len(r) \in Nat \ {0}, NEW d \in Nat, Len(r) <= Leafs!Two[d]
          PROVE  RootOf(r, Len(r)) = RootOf(r, d)
      <4>1. Len(r) <= Leafs!Two[Len(r)]
        <5>1. Leafs!Two[Len(r)] \in Nat /\ Len(r) < Leafs!Two[Len(r)]
          BY <3>4, TwoPowers
        <5> QED BY <3>4, <5>1
      <4> QED BY <3>4, <4>1, RootAnyHeight
    <3>5. e + 1 \in Nat
      BY <3>2
    <3>6. RootOf(s, Len(s)) = RootOf(s, e + 1)
      BY <2>1, <3>2, <3>4, <3>5
    <3>7. RootOf(a, Len(a)) = RootOf(a, e) /\ RootOf(b, Len(b)) = RootOf(b, e)
      BY <3>2, <3>3, <3>4 DEF Halved
    <3>8. f[s] = <<f[a], f[b]>>
      BY <3>3, <3>6, <3>7 DEF Halved
    <3> HIDE DEF f
    <3> QED BY <2>3, <3>8 DEF SplitRoot, a, b, t, e
  <2> QED BY <2>2, <2>3
<1>2. f = [s \in S |-> f[s]]
  OBVIOUS
<1> HIDE DEF f
<1>3. f = [s \in S |-> SplitRoot(f, s)]
  BY <1>1, <1>2
<1>4. Leafs!MerkleRoot = [s \in S |-> SplitRoot(Leafs!MerkleRoot, s)]
  BY <1>3 DEF Leafs!MerkleRoot, SplitRoot, SplitAt
<1> QED BY <1>4

\* The node over all the leaves is the reference root.
LEMMA MerkleRoots ==
  \A d \in Nat : \A s \in Seq(Leaves) \ {<<>>} :
    Len(s) <= Leafs!Two[d] => Leafs!MerkleRoot[s] = RootOf(s, d)
<1> DEFINE S == Seq(Leaves) \ {<<>>}
           M == Leafs!MerkleRoot
           G == {d \in Nat : \A s \in S : Len(s) <= Leafs!Two[d] => M[s] = RootOf(s, d)}
<1>1. \A s \in S : M[s] = SplitRoot(M, s)
  BY MerkleRootIs
<1> HIDE DEF M
<1>2. ASSUME NEW s \in S, Len(s) = 1, NEW d \in Nat PROVE M[s] = RootOf(s, d)
  <2>1. Leafs!Two[0] = 1 /\ Leafs!Two[d] \in Nat \ {0}
    BY TwoPowers
  <2>2. Len(s) <= Leafs!Two[0] /\ Len(s) <= Leafs!Two[d] /\ Len(s) \in Nat \ {0}
    BY <1>2, <2>1
  <2>3. RootOf(s, d) = RootOf(s, 0)
    BY <2>2, RootAnyHeight
  <2>4. RootOf(s, 0) = Base(s)[0] /\ Base(s)[0] = s[1]
    <3>1. Base(s)[0] = s[1]
      BY DEF Base
    <3>2. Level(Len(s) - 1, Base(s))[0] = Base(s)
      BY LevelStep
    <3> QED BY <3>1, <3>2 DEF RootOf
  <2> QED BY <1>1, <1>2, <2>3, <2>4 DEF SplitRoot
<1>3. 0 \in G
  <2>1. ASSUME NEW s \in S, Len(s) <= Leafs!Two[0] PROVE M[s] = RootOf(s, 0)
    <3>0. Len(s) \in Nat \ {0}
      OBVIOUS
    <3>1. Len(s) = 1
      BY ONLY <2>1, <3>0, TwoPowers, MoreThanOne
    <3> QED BY <1>2, <3>1
  <2> QED BY <2>1
<1>4. ASSUME NEW d \in Nat, d \in G PROVE d + 1 \in G
  <2>1. ASSUME NEW s \in S, Len(s) <= Leafs!Two[d + 1] PROVE M[s] = RootOf(s, d + 1)
    <3>0. s \in Seq(Leaves) /\ Len(s) \in Nat \ {0}
      OBVIOUS
    <3>1. CASE Len(s) = 1
      BY <1>2, <3>1
    <3>2. CASE Len(s) # 1
      <4> DEFINE e == SplitAt(s)
                 t == Leafs!Two[e]
                 a == SubSeq(s, 1, t)
                 b == SubSeq(s, t + 1, Len(s))
      <4>1. Len(s) > 1
        BY ONLY <3>0, <3>2, MoreThanOne
      <4>2. e \in Nat /\ t < Len(s) /\ Len(s) <= 2 * t /\ Len(s) <= Leafs!Two[e + 1]
        BY <3>0, <4>1, SplitPoint
      <4> HIDE DEF e
      <4>3. Halved(s, e, a, b)
        BY <3>0, <4>2, RootHalves
      <4>4. M[s] = <<M[a], M[b]>>
        BY <1>1, <3>2 DEF SplitRoot, e
      <4> HIDE DEF a, b
      <4>5. t \in Nat /\ Leafs!Two[d] \in Nat /\ Leafs!Two[d + 1] \in Nat
        <5>1. d + 1 \in Nat
          OBVIOUS
        <5> QED BY <4>2, <5>1, TwoPowers
      <4>6. e <= d
        <5>1. SUFFICES ASSUME ~(e <= d) PROVE FALSE
          OBVIOUS
        <5>2. d + 1 <= e /\ d + 1 \in Nat
          BY <4>2, <5>1
        <5>3. Leafs!Two[d + 1] <= t
          BY <4>2, <5>2, TwoOrder
        <5> QED BY <2>1, <3>0, <4>2, <4>5, <5>3
      <4>7. t <= Leafs!Two[d]
        BY <4>2, <4>6, TwoOrder
      <4>8. ASSUME NEW r \in S, Len(r) \in Nat \ {0}, Len(r) <= t PROVE M[r] = RootOf(r, e)
        <5>1. Len(r) <= Leafs!Two[d]
          BY <4>5, <4>7, <4>8
        <5>2. M[r] = RootOf(r, d)
          BY <1>4, <5>1
        <5>3. RootOf(r, d) = RootOf(r, e)
          BY <4>2, <4>8, <5>1, RootAnyHeight
        <5> QED BY <5>2, <5>3
      <4>9. M[a] = RootOf(a, e) /\ M[b] = RootOf(b, e)
        BY <4>3, <4>8 DEF Halved
      <4>10. M[s] = RootOf(s, e + 1)
        BY <4>3, <4>4, <4>9 DEF Halved
      <4>11. e + 1 \in Nat /\ d + 1 \in Nat
        BY <4>2
      <4>12. RootOf(s, e + 1) = RootOf(s, d + 1)
        BY <2>1, <3>0, <4>2, <4>11, RootAnyHeight
      <4> QED BY <4>10, <4>12
    <3> QED BY <3>1, <3>2
  <2> QED BY <2>1
<1> HIDE DEF G
<1>5. Nat \subseteq G
  BY <1>3, <1>4, NumberInduction
<1> QED BY <1>5 DEF G, M

-----------------------------------------------------------------------------
\* build_tree as a recursion over the layers.
GivenAt(p, e) == IF e + 1 \in DOMAIN p THEN p[e + 1] ELSE <<>>
Lacking(layer) == 2 * Len(Leafs!parent_indices(Leafs!Indices(layer))) - 1 > Len(layer)
UpOf(layer) == IF Lacking(layer) THEN <<>> ELSE Leafs!Parents(layer)
BuiltLayer(p, depth, x, d) ==
  IF d = 0 THEN Leafs!Sorted(GivenAt(p, 0))
  ELSE IF d = depth THEN UpOf(x[d - 1]) ELSE Leafs!Sorted(UpOf(x[d - 1]) \o GivenAt(p, d))
BuiltLayers(p, depth) == CHOOSE x : x = [d \in 0 .. depth |-> BuiltLayer(p, depth, x, d)]

\* build_tree, by its layers.
LEMMA BuildTreeIs ==
  ASSUME NEW p, NEW depth
  PROVE  Leafs!build_tree(p, depth)
           = IF \E d \in 0 .. depth - 1 : Lacking(BuiltLayers(p, depth)[d]) THEN <<>>
             ELSE [d \in 1 .. depth + 1 |-> BuiltLayers(p, depth)[d - 1]]
BY DEF Leafs!build_tree, BuiltLayers, BuiltLayer, GivenAt, Lacking, UpOf, Leafs!NotEnoughHelperNodes

\* The layers of a partial tree over the leaves I of n + 1 leaves h.
PartNodes(I, n, depth, e) ==
  IF e = depth THEN Above(I)[depth] ELSE Kids(Above(I)[e + 1], Halves(n)[e])
PartLayer(I, n, h, depth, e) == LayerOf(PartNodes(I, n, depth, e), Level(n, h)[e])
PartTree(I, n, h, depth) == [d \in 1 .. depth + 1 |-> PartLayer(I, n, h, depth, d - 1)]

\* What build_tree has to be given for it.
Covers(p, I, n, h, depth) ==
  /\ n \in Nat /\ depth \in Nat \ {0} /\ I \in SUBSET (0 .. n) /\ I # {}
  /\ Leafs!Sorted(GivenAt(p, 0)) = LayerOf(Kids(Above(I)[1], n), h)
  /\ \A e \in 1 .. depth - 1 :
       GivenAt(p, e) = LayerOf(Kids(Above(I)[e + 1], Halves(n)[e]) \ Above(I)[e], Level(n, h)[e])

\* What the nodes above some leaves are among.
AboveAt(I, n, d) ==
  /\ Above(I)[d] \in SUBSET (0 .. Halves(n)[d]) /\ Above(I)[d] # {}
  /\ Above(I)[d] \in SUBSET Nat /\ IsFiniteSet(Above(I)[d])
  /\ Halves(n)[d] \in Nat
  /\ Above(I)[d + 1] = Up(Above(I)[d]) /\ Above(I)[d + 1] # {}
  /\ Above(I)[d + 1] \in SUBSET (0 .. Halves(n)[d] \div 2)
  /\ Kids(Above(I)[d + 1], Halves(n)[d]) \in SUBSET Nat
  /\ Above(I)[d] \subseteq Kids(Above(I)[d + 1], Halves(n)[d])
  /\ IsFiniteSet(Kids(Above(I)[d + 1], Halves(n)[d]))
  /\ Above(I)[0] = I /\ Halves(n)[0] = n

\* What is known of the ancestors of some leaves at any height.
LEMMA AboveThere ==
  ASSUME NEW n \in Nat, NEW I \in SUBSET (0 .. n), I # {}
  PROVE  \A d \in Nat : AboveAt(I, n, d)
<1> DEFINE A == Above(I)
           x == Halves(n)
<1>1. /\ \A d \in Nat : /\ A[d] \in SUBSET (0 .. x[d]) /\ A[d] # {}
                        /\ A[d] \in SUBSET Nat /\ IsFiniteSet(A[d])
                        /\ A[d + 1] = Up(A[d])
                        /\ A[d + 1] \in SUBSET (0 .. x[d] \div 2)
      /\ A[0] = I
  BY AboveWithin
<1>2. x[0] = n /\ \A d \in Nat : x[d] \in Nat
  BY HalvesStep
<1> HIDE DEF A, x
<1>3. ASSUME NEW d \in Nat PROVE AboveAt(I, n, d)
  <2>1. d + 1 \in Nat
    OBVIOUS
  <2>2. A[d + 1] \in SUBSET (0 .. x[d] \div 2) /\ A[d + 1] # {} /\ x[d] \in Nat
    BY <1>1, <1>2, <2>1
  <2>3. Kids(A[d + 1], x[d]) \in SUBSET Nat /\ IsFiniteSet(Kids(A[d + 1], x[d]))
    BY <2>2, KidsAbove
  <2>4. A[d] \subseteq Kids(A[d + 1], x[d])
    <3>1. A[d] \in SUBSET (0 .. x[d]) /\ A[d + 1] = Up(A[d])
      BY <1>1
    <3> QED BY <3>1 DEF Kids, Up
  <2> QED BY <1>1, <1>2, <2>2, <2>3, <2>4 DEF AboveAt, A, x
<1> QED BY <1>3

\* The layer above one in which no sibling is missing.
LEMMA PartNext ==
  ASSUME NEW n \in Nat, NEW I \in SUBSET (0 .. n), I # {}, NEW h, NEW d \in Nat,
         NEW a, a = LayerOf(Kids(Above(I)[d + 1], Halves(n)[d]), Level(n, h)[d])
  PROVE  /\ ~Lacking(a)
         /\ UpOf(a) = LayerOf(Above(I)[d + 1], Level(n, h)[d + 1])
<1> DEFINE P == Above(I)[d + 1]
           z == Halves(n)[d]
           g == Level(n, h)[d]
<1>1. AboveAt(I, n, d)
  BY AboveThere
<1>2. P \in SUBSET (0 .. z \div 2) /\ P # {} /\ z \in Nat
  BY <1>1 DEF AboveAt
<1>3. a = LayerOf(Kids(P, z), g)
  OBVIOUS
<1>4. Level(n, h)[d + 1] = Join(z, g)
  <2>1. Rises(n, h)
    BY ONLY LevelRises
  <2> QED BY <2>1 DEF Rises
<1> HIDE DEF P, z, g
<1>5. /\ Leafs!Parents(a) = LayerOf(P, Join(z, g))
      /\ ~(2 * Len(Leafs!parent_indices(Leafs!Indices(a))) - 1 > Len(a))
  BY ONLY <1>2, <1>3, ParentsOf
<1>6. ~Lacking(a)
  BY <1>5 DEF Lacking
<1>7. UpOf(a) = LayerOf(P, Join(z, g))
  BY <1>5, <1>6 DEF UpOf
<1> QED BY <1>4, <1>6, <1>7 DEF P

\* Given every missing sibling, build_tree finds what it needs and computes the
\* nodes of the whole tree.
LEMMA BuiltTree ==
  ASSUME NEW p, NEW I, NEW n, NEW h, NEW depth, Covers(p, I, n, h, depth)
  PROVE  Leafs!build_tree(p, depth) = PartTree(I, n, h, depth)
<1> DEFINE f == [d \in 0 .. depth |-> PartLayer(I, n, h, depth, d)]
           x == BuiltLayers(p, depth)
           G == {d \in Nat : d <= depth => x[d] = f[d]}
<1>0. n \in Nat /\ depth \in Nat \ {0} /\ I \in SUBSET (0 .. n) /\ I # {}
  BY DEF Covers
<1>1. ASSUME NEW e \in Nat, e < depth
      PROVE  /\ ~Lacking(f[e])
             /\ UpOf(f[e]) = LayerOf(Above(I)[e + 1], Level(n, h)[e + 1])
  <2> DEFINE a == f[e]
  <2>1. a = LayerOf(Kids(Above(I)[e + 1], Halves(n)[e]), Level(n, h)[e])
    <3>1. e \in 0 .. depth /\ e # depth
      BY <1>0, <1>1
    <3> QED BY <3>1 DEF PartLayer, PartNodes
  <2> HIDE DEF a
  <2>2. ~Lacking(a) /\ UpOf(a) = LayerOf(Above(I)[e + 1], Level(n, h)[e + 1])
    BY <1>0, <2>1, PartNext
  <2> QED BY <2>2 DEF a
<1>2. ASSUME NEW d \in 0 .. depth PROVE f[d] = BuiltLayer(p, depth, f, d)
  <2>1. CASE d = 0
    <3>1. f[0] = LayerOf(Kids(Above(I)[0 + 1], Halves(n)[0]), Level(n, h)[0])
      <4>1. 0 \in 0 .. depth /\ 0 # depth
        BY <1>0
      <4> QED BY <4>1 DEF PartLayer, PartNodes
    <3>2. Halves(n)[0] = n /\ Level(n, h)[0] = h /\ 0 + 1 = 1
      BY <1>0, HalvesStep, LevelStep
    <3>3. f[0] = Leafs!Sorted(GivenAt(p, 0))
      BY <3>1, <3>2 DEF Covers
    <3> QED BY <2>1, <3>3 DEF BuiltLayer
  <2>2. CASE d # 0
    <3> DEFINE e == d - 1
    <3>1. e \in Nat /\ e < depth /\ e + 1 = d /\ d \in Nat
      BY <1>0, <2>2
    <3>2. UpOf(f[e]) = LayerOf(Above(I)[d], Level(n, h)[d])
      BY <1>1, <3>1
    <3>3. CASE d = depth
      <4>1. f[d] = LayerOf(Above(I)[d], Level(n, h)[d])
        BY <3>3 DEF PartLayer, PartNodes
      <4> QED BY <2>2, <3>2, <3>3, <4>1 DEF BuiltLayer
    <3>4. CASE d # depth
      <4> DEFINE A == Above(I)[d]
                 K == Kids(Above(I)[d + 1], Halves(n)[d])
                 B == K \ A
                 g == Level(n, h)[d]
      <4>1. f[d] = LayerOf(K, g)
        BY <3>4 DEF PartLayer, PartNodes
      <4>2. GivenAt(p, d) = LayerOf(B, g)
        <5>1. d \in 1 .. depth - 1
          BY <1>0, <2>2, <3>4
        <5> QED BY <5>1 DEF Covers
      <4>3. AboveAt(I, n, d)
        BY <1>0, <3>1, AboveThere
      <4>4. A \in SUBSET Nat /\ IsFiniteSet(A) /\ K \in SUBSET Nat /\ IsFiniteSet(K) /\ A \subseteq K
        BY <4>3 DEF AboveAt
      <4> HIDE DEF A, K, g
      <4>5. B \in SUBSET Nat /\ IsFiniteSet(B) /\ A \cap B = {} /\ A \cup B = K
        BY <4>4, FS_Subset
      <4> HIDE DEF B
      <4>6. Leafs!Sorted(LayerOf(A, g) \o LayerOf(B, g)) = LayerOf(A \cup B, g)
        BY ONLY <4>4, <4>5, SortedUnion
      <4>7. f[d] = Leafs!Sorted(UpOf(f[e]) \o GivenAt(p, d))
        BY <3>2, <4>1, <4>2, <4>5, <4>6 DEF A, g
      <4> HIDE DEF f
      <4> QED BY <2>2, <3>4, <4>7 DEF BuiltLayer
    <3> QED BY <3>3, <3>4
  <2> QED BY <2>1, <2>2
<1>3. f = [d \in 0 .. depth |-> f[d]]
  OBVIOUS
<1> HIDE DEF f
<1>4. f = [d \in 0 .. depth |-> BuiltLayer(p, depth, f, d)]
  BY <1>2, <1>3
<1>5. x = [d \in 0 .. depth |-> BuiltLayer(p, depth, x, d)]
  BY <1>4 DEF BuiltLayers
<1>5a. \A d \in 0 .. depth : x[d] = BuiltLayer(p, depth, x, d)
  BY <1>5
<1> HIDE DEF x
<1>6. 0 \in G
  <2>1. 0 \in 0 .. depth
    BY <1>0
  <2> QED BY <1>2, <1>5a, <2>1 DEF BuiltLayer
<1>7. ASSUME NEW d \in Nat, d \in G PROVE d + 1 \in G
  <2>1. ASSUME d + 1 <= depth PROVE x[d + 1] = f[d + 1]
    <3>1. d + 1 \in 0 .. depth /\ (d + 1) - 1 = d /\ d + 1 # 0 /\ d <= depth
      BY <1>0, <2>1
    <3>2. x[d] = f[d]
      BY <1>7, <3>1
    <3>3. BuiltLayer(p, depth, x, d + 1) = BuiltLayer(p, depth, f, d + 1)
      BY <3>1, <3>2 DEF BuiltLayer
    <3> QED BY <1>2, <1>5a, <3>1, <3>3
  <2> QED BY <2>1
<1> HIDE DEF G
<1>8. Nat \subseteq G
  BY <1>6, <1>7, NumberInduction
<1>9. \A d \in 0 .. depth : x[d] = f[d]
  BY <1>8 DEF G
<1>10. ~\E d \in 0 .. depth - 1 : Lacking(x[d])
  <2>1. ASSUME NEW d \in 0 .. depth - 1 PROVE ~Lacking(x[d])
    <3>1. d \in Nat /\ d < depth /\ d \in 0 .. depth
      BY <1>0
    <3> QED BY <1>1, <1>9, <3>1
  <2> QED BY <2>1
<1>11. Leafs!build_tree(p, depth) = [d \in 1 .. depth + 1 |-> x[d - 1]]
  BY <1>10, BuildTreeIs DEF x
<1>12. \A d \in 1 .. depth + 1 : x[d - 1] = PartLayer(I, n, h, depth, d - 1)
  <2> TAKE d \in 1 .. depth + 1
  <2>1. d - 1 \in 0 .. depth
    BY <1>0
  <2> QED BY <1>9, <2>1 DEF f
<1> QED BY <1>11, <1>12 DEF PartTree

-----------------------------------------------------------------------------
\* The nodes of a whole layer are at their places.
LEMMA WholeLayer ==
  ASSUME NEW z \in Nat, NEW g, NEW a, a = LayerOf(0 .. z, g)
  PROVE  /\ Len(a) = z + 1 /\ DOMAIN a = 1 .. z + 1
         /\ \A k \in 0 .. z : a[k + 1] = <<k, g[k]>>
         /\ \A k \in 1 .. z + 1 : a[k] = <<k - 1, g[k - 1]>>
<1> DEFINE s == Leafs!Ascending(0 .. z)
           len == z + 1
<1>1. s = [i \in 1 .. z + 1 |-> i - 1]
  <2>1. 0 \in Nat /\ len \in Nat /\ 0 + len - 1 = z
    OBVIOUS
  <2> HIDE DEF len
  <2>2. Leafs!Ascending(0 .. 0 + len - 1) = [i \in 1 .. len |-> 0 + i - 1]
    BY <2>1, RangeListed
  <2>3. \A i \in 1 .. len : 0 + i - 1 = i - 1
    BY <2>1
  <2>4. Leafs!Ascending(0 .. z) = [i \in 1 .. len |-> i - 1]
    BY <2>1, <2>2, <2>3
  <2> QED BY <2>4 DEF len
<1> HIDE DEF s
<1>2. a = [k \in 1 .. z + 1 |-> <<s[k], g[s[k]]>>]
  BY <1>1 DEF LayerOf, s
<1>3. \A k \in 1 .. z + 1 : a[k] = <<k - 1, g[k - 1]>>
  BY <1>1, <1>2
<1>4. ASSUME NEW k \in 0 .. z PROVE a[k + 1] = <<k, g[k]>>
  <2>1. k + 1 \in 1 .. z + 1 /\ (k + 1) - 1 = k
    OBVIOUS
  <2> QED BY <1>3, <2>1
<1>5. Len(a) = z + 1 /\ DOMAIN a = 1 .. z + 1
  <2>1. z + 1 \in Nat
    OBVIOUS
  <2> QED BY <1>2, <2>1
<1> QED BY <1>3, <1>4, <1>5

\* What helper_node_tuples takes from one layer.
HelpersOf(layer, idx) ==
  LET siblings == Leafs!difference(Leafs!sibling_indices(idx), idx)
      helper_indices == Leafs!Picked(siblings, {i \in DOMAIN siblings : siblings[i] < Len(layer)})
  IN  [j \in DOMAIN helper_indices |-> layer[helper_indices[j] + 1]]

\* The siblings that the tree has for some nodes of a layer.
LEMMA HelperLayer ==
  ASSUME NEW z \in Nat, NEW A \in SUBSET Nat, IsFiniteSet(A), NEW g,
         NEW layer, layer = LayerOf(0 .. z, g)
  PROVE  HelpersOf(layer, Leafs!Ascending(A)) = LayerOf((Siblings(A) \ A) \cap (0 .. z), g)
<1> DEFINE s == Leafs!Ascending(A)
           u == Leafs!sibling_indices(s)
           B == Siblings(A) \ A
           t == Leafs!difference(u, s)
           P == {i \in DOMAIN t : t[i] < Len(layer)}
           w == Leafs!Picked(t, P)
           T == 0 .. z
<1>1. /\ Len(s) \in Nat /\ DOMAIN s = 1 .. Len(s)
      /\ \A i \in 1 .. Len(s) : s[i] \in A /\ s[i] \in Nat
      /\ \A x \in A : \E i \in 1 .. Len(s) : s[i] = x
  BY ListMembers
<1> HIDE DEF s
<1>2. u = [i \in 1 .. Len(s) |-> Leafs!get_sibling_index(s[i])]
  BY <1>1 DEF Leafs!sibling_indices
<1>3. ASSUME NEW i \in 1 .. Len(s) PROVE Leafs!get_sibling_index(s[i]) \in Nat
  BY <1>1, SiblingRange
<1> HIDE DEF u
<1>4. u \in Seq(Nat) /\ Len(u) = Len(s)
      /\ \A i \in 1 .. Len(u) : u[i] = Leafs!get_sibling_index(s[i])
  <2>1. \A i \in 1 .. Len(s) : u[i] = Leafs!get_sibling_index(s[i]) /\ u[i] \in Nat
    BY <1>2, <1>3
  <2>2. u \in [1 .. Len(s) -> Nat]
    BY <1>2, <2>1
  <2> QED BY <1>1, <2>1, <2>2
<1>5. B = {u[i] : i \in 1 .. Len(u)} \ A
  BY <1>1, <1>4 DEF Siblings
<1>6. t = Leafs!Ascending(B) /\ IsFiniteSet(B) /\ B \in SUBSET Nat
  <2>1. Len(u) <= Len(s)
    BY <1>1, <1>4
  <2>2. s = Leafs!Ascending(A)
    BY DEF s
  <2>3. A \in SUBSET Nat /\ IsFiniteSet(A)
    OBVIOUS
  <2> HIDE DEF B
  <2>4. Leafs!difference(u, s) = Leafs!Ascending(B) /\ IsFiniteSet(B) /\ B \in SUBSET Nat
    BY ONLY <1>4, <1>5, <2>1, <2>2, <2>3, SiblingsListed
  <2> QED BY <2>4
<1> HIDE DEF t, B
<1>7. /\ Len(t) \in Nat /\ DOMAIN t = 1 .. Len(t)
      /\ \A i \in 1 .. Len(t) : t[i] \in B /\ t[i] \in Nat
  BY <1>6, ListMembers
<1>8. Len(layer) = z + 1 /\ \A k \in 0 .. z : layer[k + 1] = <<k, g[k]>>
  BY WholeLayer
<1>9. P = {i \in DOMAIN t : t[i] \in T}
  <2>1. ASSUME NEW i \in DOMAIN t PROVE t[i] < Len(layer) <=> t[i] \in T
    <3>1. t[i] \in Nat
      BY <1>7
    <3> QED BY <1>8, <3>1
  <2> QED BY <2>1
<1> HIDE DEF P, T
<1>10. w = Leafs!Ascending(B \cap T)
  <2>1. Leafs!Picked(t, P) = Leafs!Ascending(B \cap T)
    <3>1. PlacesOf(P, t, T)
      BY <1>9 DEF PlacesOf
    <3> QED BY ONLY <1>6, <3>1, FilteredList
  <2> QED BY <2>1
<1>11. B \cap T \in SUBSET Nat /\ IsFiniteSet(B \cap T)
  BY <1>6, FS_Subset
<1>12. /\ DOMAIN w = 1 .. Len(w)
       /\ \A i \in 1 .. Len(w) : w[i] \in B \cap T
  <2> DEFINE C == B \cap T
  <2>1. C \in SUBSET Nat /\ IsFiniteSet(C) /\ w = Leafs!Ascending(C)
    BY <1>10, <1>11
  <2> HIDE DEF C, w
  <2>2. DOMAIN w = 1 .. Len(w) /\ \A i \in 1 .. Len(w) : w[i] \in C
    BY <2>1, ListMembers
  <2> QED BY <2>2 DEF C
<1> HIDE DEF w
<1>13. HelpersOf(layer, s) = [j \in DOMAIN w |-> layer[w[j] + 1]]
  BY DEF HelpersOf, w, P, t, u
<1>14. \A j \in DOMAIN w : layer[w[j] + 1] = <<w[j], g[w[j]]>>
  <2> TAKE j \in DOMAIN w
  <2>1. w[j] \in 0 .. z
    BY <1>12 DEF T
  <2> QED BY <1>8, <2>1
<1>15. HelpersOf(layer, s) = [j \in DOMAIN w |-> <<w[j], g[w[j]]>>]
  BY <1>13, <1>14
<1>16. LayerOf(B \cap T, g) = [j \in DOMAIN w |-> <<w[j], g[w[j]]>>]
  BY <1>10 DEF LayerOf
<1> QED BY <1>15, <1>16 DEF s, B, T

\* One layer of merge_unverified.
MergeLayer(a, b) ==
  Leafs!Sorted(Leafs!Picked(a, {k \in DOMAIN a : a[k][1] \notin Leafs!ToSet(Leafs!Indices(b))}) \o b)

\* Merging two layers that agree where only the first is kept.
LEMMA MergedLayer ==
  ASSUME NEW A \in SUBSET Nat, IsFiniteSet(A), NEW g, NEW K \in SUBSET Nat, IsFiniteSet(K), NEW h,
         \A j \in A \ K : g[j] = h[j], NEW a, a = LayerOf(A, g), NEW b, b = LayerOf(K, h)
  PROVE  MergeLayer(a, b) = LayerOf(A \cup K, h)
<1> DEFINE R == A \ K
           P == {k \in DOMAIN a : a[k][1] \notin Leafs!ToSet(Leafs!Indices(b))}
<1>1. Leafs!Picked(a, P) = LayerOf(R, g)
  BY PickedLayer
<1>2. R \in SUBSET Nat /\ IsFiniteSet(R) /\ R \cap K = {} /\ R \cup K = A \cup K
  BY FS_Subset
<1>3. \A j \in R : g[j] = h[j]
  OBVIOUS
<1> HIDE DEF R
<1>4. LayerOf(R, g) = LayerOf(R, h)
  BY <1>2, <1>3, SameLayer
<1>5. Leafs!Sorted(LayerOf(R, h) \o LayerOf(K, h)) = LayerOf(R \cup K, h)
  BY <1>2, SortedUnion
<1> QED BY <1>1, <1>2, <1>4, <1>5 DEF MergeLayer

-----------------------------------------------------------------------------
\* The nodes above new leaves n .. m behind the old ones, at height d.
NewAt(n, m, d) ==
  LET A == Above(n .. m)[d]
      K == Kids(Above(n .. m)[d + 1], Halves(m)[d])
  IN  /\ AboveAt(n .. m, m, d)
      /\ A = Halves(n)[d] .. Halves(m)[d]
      /\ Halves(n)[d] \in Nat /\ Halves(m)[d] \in Nat /\ Halves(n)[d] <= Halves(m)[d]
      /\ (Siblings(A) \ A) \cap (0 .. Halves(m)[d]) = K \ A
      /\ n > 0 => /\ Halves(n - 1)[d] \in Nat /\ Halves(n)[d] <= Halves(n - 1)[d] + 1
                  /\ Halves(n - 1)[d] <= Halves(m)[d]

\* What is known of the ancestors of new leaves at any height.
LEMMA NewThere ==
  ASSUME NEW n \in Nat, NEW m \in Nat, n <= m
  PROVE  \A d \in Nat : NewAt(n, m, d)
<1> DEFINE I == n .. m
<1>1. I \in SUBSET (0 .. m) /\ I # {}
  OBVIOUS
<1>2. \A d \in Nat : Above(I)[d] = Halves(n)[d] .. Halves(m)[d]
  BY AboveRange
<1>3. \A d \in Nat : Halves(n)[d] <= Halves(m)[d]
  BY HalvesOrder
<1>4. \A d \in Nat : Halves(n)[d] \in Nat /\ Halves(m)[d] \in Nat
  BY HalvesStep
<1>5. ASSUME n > 0, NEW d \in Nat
      PROVE  /\ Halves(n - 1)[d] \in Nat /\ Halves(n)[d] <= Halves(n - 1)[d] + 1
             /\ Halves(n - 1)[d] <= Halves(m)[d]
  <2> DEFINE k == n - 1
  <2>1. k \in Nat /\ n \in Nat \ {0} /\ k <= m
    BY <1>5
  <2>2. Halves(n)[d] <= Halves(n - 1)[d] + 1
    BY <2>1, HalvesNext
  <2> HIDE DEF k
  <2>3. Halves(k)[d] \in Nat /\ Halves(k)[d] <= Halves(m)[d]
    BY <2>1, HalvesStep, HalvesOrder
  <2> QED BY <2>2, <2>3 DEF k
<1> HIDE DEF I
<1>6. \A d \in Nat : AboveAt(I, m, d)
  BY <1>1, AboveThere
<1>7. ASSUME NEW d \in Nat
      PROVE  (Siblings(Above(I)[d]) \ Above(I)[d]) \cap (0 .. Halves(m)[d])
               = Kids(Above(I)[d + 1], Halves(m)[d]) \ Above(I)[d]
  <2> DEFINE A == Above(I)[d]
             z == Halves(m)[d]
  <2>1. A \in SUBSET (0 .. z) /\ z \in Nat /\ Above(I)[d + 1] = Up(A)
    BY <1>6 DEF AboveAt
  <2> HIDE DEF A, z
  <2>2. (Siblings(A) \ A) \cap (0 .. z) = Kids(Up(A), z) \ A
    BY <2>1, SiblingsAndKids
  <2> QED BY <2>1, <2>2 DEF A, z
<1>8. ASSUME NEW d \in Nat PROVE NewAt(n, m, d)
  BY <1>2, <1>3, <1>4, <1>5, <1>6, <1>7 DEF NewAt, I
<1> QED BY <1>8

\* The helpers of new leaves are the old nodes that are missing.
HelpsNew(n, m, g, h, d, layer) ==
  /\ n \in Nat \ {0} /\ m \in Nat /\ n <= m /\ \A i \in 0 .. n - 1 : g[i] = h[i]
  /\ d \in Nat /\ layer = LayerOf(0 .. Halves(n - 1)[d], Level(n - 1, g)[d])

HelpedNew(n, m, h, d, layer) ==
  HelpersOf(layer, Leafs!Ascending(Above(n .. m)[d]))
    = LayerOf(Kids(Above(n .. m)[d + 1], Halves(m)[d]) \ Above(n .. m)[d], Level(m, h)[d])

\* The siblings of the new nodes are in the old tree, and are not to change.
LEMMA NewHelpers ==
  ASSUME NEW n, NEW m, NEW g, NEW h, NEW d, NEW layer, HelpsNew(n, m, g, h, d, layer)
  PROVE  HelpedNew(n, m, h, d, layer)
<1>0. /\ n \in Nat \ {0} /\ m \in Nat /\ n <= m /\ \A i \in 0 .. n - 1 : g[i] = h[i]
      /\ d \in Nat /\ layer = LayerOf(0 .. Halves(n - 1)[d], Level(n - 1, g)[d])
  BY DEF HelpsNew
<1> DEFINE A == Above(n .. m)[d]
           K == Kids(Above(n .. m)[d + 1], Halves(m)[d])
           x == Halves(n)[d]
           z == Halves(m)[d]
           y == Halves(n - 1)[d]
           old == Level(n - 1, g)[d]
           new == Level(m, h)[d]
           B == Siblings(A) \ A
<1>1. NewAt(n, m, d)
  BY <1>0, NewThere
<1>2. /\ A \in SUBSET Nat /\ IsFiniteSet(A) /\ A = x .. z
      /\ x \in Nat /\ z \in Nat /\ B \cap (0 .. z) = K \ A
      /\ y \in Nat /\ x <= y + 1 /\ y <= z /\ K \in SUBSET Nat /\ IsFiniteSet(K)
  BY <1>0, <1>1 DEF NewAt, AboveAt
<1>3. \A j \in Nat : j < x => old[j] = new[j]
  <2> DEFINE k == n - 1
  <2>1. k \in Nat /\ k + 1 = n /\ k <= m /\ \A i \in 0 .. k : g[i] = h[i]
    BY <1>0
  <2> HIDE DEF k
  <2>2. \A e \in Nat : \A j \in Nat : j < Halves(k + 1)[e] => Level(k, g)[e][j] = Level(m, h)[e][j]
    BY ONLY <1>0, <2>1, LevelsBelow
  <2>3. \A j \in Nat : j < Halves(n)[d] => Level(k, g)[d][j] = Level(m, h)[d][j]
    BY <1>0, <2>1, <2>2
  <2> QED BY <2>3 DEF k
<1> HIDE DEF A, K, x, y, z, old, new
<1>4. HelpersOf(layer, Leafs!Ascending(A)) = LayerOf(B \cap (0 .. y), old)
  <2>1. layer = LayerOf(0 .. y, old)
    BY <1>0 DEF y, old
  <2> QED BY <1>2, <2>1, HelperLayer
<1> HIDE DEF B
<1>5. B \cap (0 .. y) = K \ A
  <2>1. ASSUME NEW j \in K \ A PROVE j \in 0 .. y
    <3>1. j \in 0 .. z /\ j \notin x .. z
      BY <1>2, <2>1
    <3> QED BY <1>2, <3>1
  <2>2. 0 .. y \subseteq 0 .. z
    BY <1>2
  <2> QED BY <1>2, <2>1, <2>2
<1>6. \A j \in K \ A : old[j] = new[j]
  <2> TAKE j \in K \ A
  <2>1. j \in 0 .. z /\ j \notin x .. z
    BY <1>2
  <2>2. j \in Nat /\ j < x
    BY <1>2, <2>1
  <2> QED BY <1>3, <2>2
<1>7. LayerOf(K \ A, old) = LayerOf(K \ A, new)
  <2> DEFINE R == K \ A
  <2>1. R \in SUBSET Nat /\ IsFiniteSet(R) /\ \A j \in R : old[j] = new[j]
    BY <1>2, <1>6, FS_Subset
  <2> HIDE DEF R
  <2>2. LayerOf(R, old) = LayerOf(R, new)
    BY <2>1, SameLayer
  <2> QED BY <2>2 DEF R
<1> QED BY <1>4, <1>5, <1>7 DEF A, K, new, HelpedNew

\* Where no old node is, every node is new.
LEMMA NewOnly ==
  ASSUME NEW n \in Nat, NEW m \in Nat, n <= m, NEW d \in Nat, Halves(n)[d] = 0
  PROVE  /\ Above(n .. m)[d] = 0 .. Halves(m)[d]
         /\ Kids(Above(n .. m)[d + 1], Halves(m)[d]) = 0 .. Halves(m)[d]
<1>1. NewAt(n, m, d)
  BY NewThere
<1>2. Above(n .. m)[d] = 0 .. Halves(m)[d]
  BY <1>1 DEF NewAt
<1>3. Above(n .. m)[d] \subseteq Kids(Above(n .. m)[d + 1], Halves(m)[d])
  BY <1>1 DEF NewAt, AboveAt
<1> QED BY <1>2, <1>3 DEF Kids

\* The old nodes with the new ones.
MergesOld(n, m, g, h, d, K, a, b) ==
  /\ n \in Nat \ {0} /\ m \in Nat /\ n <= m /\ \A i \in 0 .. n - 1 : g[i] = h[i]
  /\ d \in Nat /\ K \in SUBSET (0 .. Halves(m)[d]) /\ Above(n .. m)[d] \subseteq K
  /\ a = LayerOf(0 .. Halves(n - 1)[d], Level(n - 1, g)[d]) /\ b = LayerOf(K, Level(m, h)[d])

\* With the new nodes an old layer becomes the layer of all leaves.
LEMMA NewMerged ==
  ASSUME NEW n, NEW m, NEW g, NEW h, NEW d, NEW K, NEW a, NEW b, MergesOld(n, m, g, h, d, K, a, b)
  PROVE  MergeLayer(a, b) = LayerOf(0 .. Halves(m)[d], Level(m, h)[d])
<1>0. /\ n \in Nat \ {0} /\ m \in Nat /\ n <= m /\ \A i \in 0 .. n - 1 : g[i] = h[i]
      /\ d \in Nat /\ K \in SUBSET (0 .. Halves(m)[d]) /\ Above(n .. m)[d] \subseteq K
      /\ a = LayerOf(0 .. Halves(n - 1)[d], Level(n - 1, g)[d]) /\ b = LayerOf(K, Level(m, h)[d])
  BY DEF MergesOld
<1> DEFINE A == Above(n .. m)[d]
           x == Halves(n)[d]
           z == Halves(m)[d]
           y == Halves(n - 1)[d]
           old == Level(n - 1, g)[d]
           new == Level(m, h)[d]
           O == 0 .. y
<1>1. NewAt(n, m, d)
  BY <1>0, NewThere
<1>2. A = x .. z /\ x \in Nat /\ z \in Nat /\ y \in Nat /\ x <= y + 1 /\ y <= z
  BY <1>0, <1>1 DEF NewAt
<1>3. \A j \in Nat : j < x => old[j] = new[j]
  <2> DEFINE k == n - 1
  <2>1. k \in Nat /\ k + 1 = n /\ k <= m /\ \A i \in 0 .. k : g[i] = h[i]
    BY <1>0
  <2> HIDE DEF k
  <2>0. m \in Nat
    BY <1>0
  <2>2. \A e \in Nat : \A j \in Nat : j < Halves(k + 1)[e] => Level(k, g)[e][j] = Level(m, h)[e][j]
    BY ONLY <2>0, <2>1, LevelsBelow
  <2>3. \A j \in Nat : j < Halves(n)[d] => Level(k, g)[d][j] = Level(m, h)[d][j]
    BY <1>0, <2>1, <2>2
  <2> QED BY <2>3 DEF k
<1>4. K \in SUBSET (0 .. z) /\ A \subseteq K /\ a = LayerOf(O, old) /\ b = LayerOf(K, new)
  BY <1>0
<1> HIDE DEF A, x, y, z, old, new
<1>5. O \in SUBSET Nat /\ IsFiniteSet(O) /\ IsFiniteSet(0 .. z) /\ 0 .. z \in SUBSET Nat
  <2>1. 0 \in Int /\ y \in Int /\ z \in Int
    BY <1>2
  <2> QED BY <1>2, <2>1, FS_Interval
<1>6. K \in SUBSET Nat /\ IsFiniteSet(K)
  BY <1>4, <1>5, FS_Subset
<1>7. \A j \in O \ K : old[j] = new[j]
  <2> TAKE j \in O \ K
  <2>1. j \in Nat /\ j <= y /\ j \notin x .. z
    BY <1>2, <1>4
  <2>2. j < x
    BY <1>2, <2>1
  <2> QED BY <1>3, <2>1, <2>2
<1>8. O \cup K = 0 .. z
  <2>1. ASSUME NEW j \in 0 .. z, j \notin K PROVE j \in O
    <3>1. j \notin x .. z
      BY <1>2, <1>4, <2>1
    <3> QED BY <1>2, <3>1
  <2>2. O \subseteq 0 .. z
    BY <1>2
  <2> QED BY <1>4, <2>1, <2>2
<1> HIDE DEF O
<1>9. MergeLayer(a, b) = LayerOf(O \cup K, new)
  BY <1>4, <1>5, <1>6, <1>7, MergedLayer
<1> QED BY <1>8, <1>9 DEF z, new

-----------------------------------------------------------------------------
\* The tree of some leaves, and the partial tree that makes t of s.
FullTree(n, h, depth) == [d \in 1 .. depth + 1 |-> LayerOf(0 .. Halves(n)[d - 1], Level(n, h)[d - 1])]
TreeOf(s) == IF s = <<>> THEN <<>> ELSE FullTree(Len(s) - 1, Base(s), Leafs!tree_depth(Len(s)))
DiffOf(s, t) == PartTree(Len(s) .. Len(t) - 1, Len(t) - 1, Base(t), Leafs!tree_depth(Len(t)))

OldLayer(s, e) ==
  /\ e + 1 \in DOMAIN TreeOf(s)
       => /\ Len(s) \in Nat \ {0}
          /\ TreeOf(s)[e + 1] = LayerOf(0 .. Halves(Len(s) - 1)[e], Level(Len(s) - 1, Base(s))[e])
  /\ e + 1 \notin DOMAIN TreeOf(s) => Halves(Len(s))[e] = 0

\* The layers of a tree, and those that it does not have.
LEMMA OldLayers ==
  ASSUME Limits, NEW s \in Seq(Leaves), Len(s) <= MaxLeaves
  PROVE  /\ \A e \in Nat : OldLayer(s, e)
         /\ s # <<>> => DOMAIN TreeOf(s) = 1 .. Leafs!tree_depth(Len(s)) + 1
         /\ s = <<>> => TreeOf(s) = <<>>
<1>1. CASE s = <<>>
  <2>1. TreeOf(s) = <<>> /\ DOMAIN TreeOf(s) = {} /\ Len(s) = 0
    BY <1>1 DEF TreeOf
  <2>2. ASSUME NEW e \in Nat PROVE Halves(0)[e] = 0
    <3>1. Leafs!Two[e] \in Nat \ {0} /\ 0 \in Nat
      BY TwoPowers
    <3>2. 0 < Leafs!Two[e]
      BY <3>1
    <3> QED BY <3>1, <3>2, HalvesZero
  <2> QED BY <1>1, <2>1, <2>2 DEF OldLayer
<1>2. CASE s # <<>>
  <2> DEFINE n == Len(s)
             depth == Leafs!tree_depth(n)
             x == TreeOf(s)
  <2>1. n \in Nat \ {0} /\ n <= MaxLeaves
    BY <1>2
  <2>2. x = [d \in 1 .. depth + 1 |-> LayerOf(0 .. Halves(n - 1)[d - 1], Level(n - 1, Base(s))[d - 1])]
    BY <1>2 DEF TreeOf, FullTree
  <2> HIDE DEF n, x
  <2>3. depth \in Nat /\ n <= Leafs!Two[depth]
    BY <2>1, DepthOf
  <2> HIDE DEF depth
  <2>4. ASSUME NEW e \in Nat
        PROVE  /\ e + 1 \in DOMAIN x
                    => x[e + 1] = LayerOf(0 .. Halves(n - 1)[e], Level(n - 1, Base(s))[e])
               /\ e + 1 \notin DOMAIN x => Halves(n)[e] = 0
    <3>1. ASSUME e + 1 \in DOMAIN x
          PROVE  x[e + 1] = LayerOf(0 .. Halves(n - 1)[e], Level(n - 1, Base(s))[e])
      <4>1. (e + 1) - 1 = e
        OBVIOUS
      <4> QED BY <2>2, <3>1, <4>1
    <3>2. ASSUME e + 1 \notin DOMAIN x PROVE Halves(n)[e] = 0
      <4>1. depth + 1 <= e /\ depth + 1 \in Nat
        BY <2>2, <2>3, <3>2
      <4>2. Leafs!Two[depth + 1] <= Leafs!Two[e]
        BY <4>1, TwoOrder
      <4>3. /\ Leafs!Two[depth + 1] = 2 * Leafs!Two[depth] /\ Leafs!Two[depth] \in Nat \ {0}
            /\ Leafs!Two[e] \in Nat
        BY <2>3, TwoPowers
      <4>4. n \in Nat /\ n < Leafs!Two[e]
        BY <2>1, <2>3, <4>2, <4>3
      <4> QED BY <4>4, HalvesZero
    <3> QED BY <3>1, <3>2
  <2>5. DOMAIN x = 1 .. depth + 1
    BY <2>2
  <2>6. ASSUME NEW e \in Nat PROVE OldLayer(s, e)
    BY <2>1, <2>4 DEF OldLayer, n, x
  <2> QED BY <1>2, <2>5, <2>6 DEF depth, n, x
<1> QED BY <1>1, <1>2

\* More leaves u behind the leaves s.
Extended(s, u, t, n, m) ==
  /\ s \in Seq(Leaves) /\ u \in Seq(Leaves) /\ t \in Seq(Leaves) /\ u # <<>> /\ t # <<>>
  /\ n = Len(s) /\ n \in Nat /\ m \in Nat /\ n <= m /\ Len(t) = m + 1 /\ Len(t) - 1 = m
  /\ Len(u) \in Nat /\ n + Len(u) = Len(t) /\ n + Len(u) - 1 = m
  /\ \A i \in 1 .. Len(u) : t[n + i] = u[i]
  /\ \A i \in 0 .. n - 1 : Base(s)[i] = Base(t)[i]

\* A list of leaves with more leaves at its end.
LEMMA ExtendedBy ==
  ASSUME NEW s \in Seq(Leaves), NEW u \in Seq(Leaves), u # <<>>
  PROVE  Extended(s, u, s \o u, Len(s), Len(s) + Len(u) - 1)
<1> DEFINE t == s \o u
           n == Len(s)
           k == Len(u)
           m == n + k - 1
<1>1. t \in Seq(Leaves) /\ Len(t) = n + k /\ n \in Nat /\ k \in Nat \ {0}
  OBVIOUS
<1>2. \A i \in 1 .. k : t[n + i] = u[i]
  <2> TAKE i \in 1 .. k
  <2>1. n + i \in 1 .. n + k /\ ~(n + i <= n) /\ (n + i) - n = i
    BY <1>1
  <2> QED BY <2>1
<1>3. \A i \in 0 .. n - 1 : Base(s)[i] = Base(t)[i]
  <2> TAKE i \in 0 .. n - 1
  <2>1. i \in Nat /\ i + 1 \in 1 .. n
    BY <1>1
  <2>2. t[i + 1] = s[i + 1]
    BY <2>1
  <2> QED BY <2>1, <2>2 DEF Base
<1> HIDE DEF t, n, k
<1>4. m \in Nat /\ n <= m /\ Len(t) = m + 1 /\ Len(t) - 1 = m /\ n + k = Len(t)
  BY <1>1
<1>5. t # <<>>
  BY <1>1
<1> HIDE DEF m
<1>6. Extended(s, u, t, n, m)
  BY <1>1, <1>2, <1>3, <1>4, <1>5 DEF Extended, n, k, m
<1> QED BY <1>6 DEF t, n, k, m

-----------------------------------------------------------------------------
\* merge_unverified, one layer at a time.
OfTree(x, d) == IF d \in DOMAIN x THEN x[d] ELSE <<>>

\* The nodes K of a partial tree at height e.
PartOf(K, n, m, e) ==
  /\ K \in SUBSET (0 .. Halves(m)[e]) /\ Above(n .. m)[e] \subseteq K
  /\ Halves(n)[e] = 0 => K = 0 .. Halves(m)[e]

\* merge_unverified, layer by layer.
LEMMA MergeIs ==
  ASSUME NEW x, NEW y
  PROVE  Leafs!merge_unverified(x, y) = [d \in DOMAIN y |-> MergeLayer(OfTree(x, d), y[d])]
BY DEF Leafs!merge_unverified, MergeLayer, OfTree

\* Merging a layer of the new nodes into that of the old tree.
LEMMA MergeWithOld ==
  ASSUME NEW s, NEW u, NEW t, NEW n, NEW m, Extended(s, u, t, n, m), Limits, Len(t) <= MaxLeaves,
         NEW e \in Nat, NEW K, PartOf(K, n, m, e)
  PROVE  MergeLayer(OfTree(TreeOf(s), e + 1), LayerOf(K, Level(m, Base(t))[e]))
           = LayerOf(0 .. Halves(m)[e], Level(m, Base(t))[e])
<1> DEFINE a == OfTree(TreeOf(s), e + 1)
           b == LayerOf(K, Level(m, Base(t))[e])
           g == Base(s)
           h == Base(t)
<1>1. /\ n \in Nat /\ m \in Nat /\ n <= m /\ n = Len(s) /\ s \in Seq(Leaves)
      /\ Len(t) = m + 1
  BY DEF Extended
<1>2. \A i \in 0 .. n - 1 : g[i] = h[i]
  BY DEF Extended
<1>3. OldLayer(s, e)
  <2>1. Len(s) <= MaxLeaves
    BY <1>1 DEF Limits, Leafs!MerkleAssumption
  <2> QED BY <1>1, <2>1, OldLayers
<1>4. CASE e + 1 \in DOMAIN TreeOf(s)
  <2>1. n \in Nat \ {0} /\ a = LayerOf(0 .. Halves(n - 1)[e], Level(n - 1, g)[e])
    BY <1>1, <1>3, <1>4 DEF OldLayer, OfTree
  <2>2. b = LayerOf(K, Level(m, h)[e]) /\ e \in Nat
    OBVIOUS
  <2>3. K \in SUBSET (0 .. Halves(m)[e]) /\ Above(n .. m)[e] \subseteq K
    BY DEF PartOf
  <2> HIDE DEF a, b, g, h
  <2>4. MergeLayer(a, b) = LayerOf(0 .. Halves(m)[e], Level(m, h)[e])
    <3>1. MergesOld(n, m, g, h, e, K, a, b)
      BY <1>1, <1>2, <2>1, <2>2, <2>3 DEF MergesOld
    <3> QED BY ONLY <3>1, NewMerged
  <2> QED BY <2>4 DEF a, b, h
<1>5. CASE e + 1 \notin DOMAIN TreeOf(s)
  <2> DEFINE E == {}
             new == Level(m, h)[e]
  <2>1. a = <<>> /\ Halves(n)[e] = 0
    BY <1>1, <1>3, <1>5 DEF OldLayer, OfTree
  <2>2. K = 0 .. Halves(m)[e]
    BY <2>1 DEF PartOf
  <2>3. a = LayerOf(E, new)
    BY <2>1, EmptyLayer
  <2>4. E \in SUBSET Nat /\ IsFiniteSet(E) /\ K \in SUBSET Nat /\ IsFiniteSet(K)
    <3>1. Halves(m)[e] \in Nat
      BY <1>1, HalvesStep
    <3>2. 0 \in Int /\ Halves(m)[e] \in Int
      BY <3>1
    <3>3. IsFiniteSet(K)
      BY <2>2, <3>2, FS_Interval
    <3> QED BY <2>2, <3>1, <3>3, FS_EmptySet
  <2>5. b = LayerOf(K, new) /\ \A j \in E \ K : new[j] = new[j]
    OBVIOUS
  <2>5a. E \cup K = K
    OBVIOUS
  <2> HIDE DEF a, b, E, new
  <2>6. MergeLayer(a, b) = LayerOf(E \cup K, new)
    BY ONLY <2>3, <2>4, <2>5, MergedLayer
  <2> QED BY <2>2, <2>5a, <2>6 DEF a, b, new
<1> QED BY <1>4, <1>5

\* The layers of a partial tree have the ancestors of the new leaves.
LEMMA PartWithin ==
  ASSUME NEW n \in Nat, NEW m \in Nat, n <= m, NEW depth \in Nat, Halves(m)[depth] = 0,
         NEW e \in 0 .. depth, NEW K, K = PartNodes(n .. m, m, depth, e)
  PROVE  PartOf(K, n, m, e)
<1>0. e \in Nat
  OBVIOUS
<1>1. NewAt(n, m, e)
  BY <1>0, NewThere
<1>2. CASE e = depth
  <2>1. K = Above(n .. m)[e]
    BY <1>2 DEF PartNodes
  <2> QED BY <1>0, <1>1, <2>1, NewOnly DEF NewAt, AboveAt, PartOf
<1>3. CASE e # depth
  <2>1. K = Kids(Above(n .. m)[e + 1], Halves(m)[e])
    BY <1>3 DEF PartNodes
  <2>2. K \in SUBSET (0 .. Halves(m)[e])
    BY <2>1 DEF Kids
  <2> QED BY <1>0, <1>1, <2>1, <2>2, NewOnly DEF NewAt, AboveAt, PartOf
<1> QED BY <1>2, <1>3

\* A commit adds the new leaves to the tree.
LEMMA Merged ==
  ASSUME NEW s, NEW u, NEW t, NEW n, NEW m, Extended(s, u, t, n, m), Limits, Len(t) <= MaxLeaves
  PROVE  Leafs!merge_unverified(TreeOf(s), DiffOf(s, t)) = TreeOf(t)
<1> DEFINE depth == Leafs!tree_depth(Len(t))
           y == DiffOf(s, t)
           h == Base(t)
<1>1. /\ n \in Nat /\ m \in Nat /\ n <= m /\ n = Len(s) /\ t # <<>>
      /\ Len(t) = m + 1 /\ Len(t) - 1 = m
  BY DEF Extended
<1>2. depth \in Nat /\ Halves(m)[depth] = 0
  <2> DEFINE k == Len(t)
  <2>1. k \in Nat \ {0} /\ k <= MaxLeaves /\ k - 1 = m
    BY <1>1
  <2> HIDE DEF k
  <2>2. Leafs!tree_depth(k) \in Nat /\ Halves(k - 1)[Leafs!tree_depth(k)] = 0
    BY <2>1, DepthOf
  <2> QED BY <2>1, <2>2 DEF k
<1>3. y = [d \in 1 .. depth + 1 |-> LayerOf(PartNodes(n .. m, m, depth, d - 1), Level(m, h)[d - 1])]
  BY <1>1 DEF DiffOf, PartTree, PartLayer
<1>4. TreeOf(t) = [d \in 1 .. depth + 1 |-> LayerOf(0 .. Halves(m)[d - 1], Level(m, h)[d - 1])]
  BY <1>1 DEF TreeOf, FullTree
<1> HIDE DEF depth, y, h
<1>5. ASSUME NEW d \in 1 .. depth + 1
      PROVE  MergeLayer(OfTree(TreeOf(s), d), y[d]) = LayerOf(0 .. Halves(m)[d - 1], Level(m, h)[d - 1])
  <2> DEFINE e == d - 1
             K == PartNodes(n .. m, m, depth, e)
  <2>1. e \in 0 .. depth /\ e \in Nat /\ e + 1 = d
    BY <1>2
  <2>2. y[d] = LayerOf(K, Level(m, h)[e])
    BY <1>3
  <2> HIDE DEF e
  <2>3. PartOf(K, n, m, e)
    BY <1>1, <1>2, <2>1, PartWithin
  <2> HIDE DEF K
  <2>4. MergeLayer(OfTree(TreeOf(s), e + 1), LayerOf(K, Level(m, Base(t))[e]))
           = LayerOf(0 .. Halves(m)[e], Level(m, Base(t))[e])
    BY <2>1, <2>3, MergeWithOld
  <2> QED BY <2>1, <2>2, <2>4 DEF h, e
<1>6. DOMAIN y = 1 .. depth + 1
  BY <1>3
<1>7. Leafs!merge_unverified(TreeOf(s), y) = [d \in 1 .. depth + 1 |-> MergeLayer(OfTree(TreeOf(s), d), y[d])]
  BY <1>6, MergeIs
<1> QED BY <1>4, <1>5, <1>7 DEF y

-----------------------------------------------------------------------------
\* A state with the tree of s, of at most MaxLeaves leaves.
HasTree(s) ==
  /\ Limits /\ s \in Seq(Leaves) /\ Len(s) \in Nat /\ Len(s) <= MaxLeaves
  /\ current_working_tree = TreeOf(s)

\* The layers of the working tree.
LEMMA TreeShape ==
  ASSUME NEW s, HasTree(s)
  PROVE  /\ s = <<>> => current_working_tree = <<>>
         /\ s # <<>> => /\ Len(s) \in Nat \ {0} /\ Leafs!tree_depth(Len(s)) \in Nat \ {0}
                        /\ DOMAIN current_working_tree = 1 .. Leafs!tree_depth(Len(s)) + 1
                        /\ Len(current_working_tree) = Leafs!tree_depth(Len(s)) + 1
                        /\ Halves(Len(s) - 1)[Leafs!tree_depth(Len(s))] = 0
                        /\ current_working_tree # <<>>
         /\ \A e \in Nat : e + 1 \in DOMAIN current_working_tree
              => current_working_tree[e + 1]
                   = LayerOf(0 .. Halves(Len(s) - 1)[e], Level(Len(s) - 1, Base(s))[e])
<1>1. /\ s \in Seq(Leaves) /\ Len(s) <= MaxLeaves /\ Limits /\ current_working_tree = TreeOf(s)
  BY DEF HasTree
<1>2. /\ \A e \in Nat : OldLayer(s, e)
      /\ s = <<>> => TreeOf(s) = <<>>
  BY <1>1, OldLayers
<1>3. ASSUME s # <<>>
      PROVE  /\ Len(s) \in Nat \ {0} /\ Leafs!tree_depth(Len(s)) \in Nat \ {0}
             /\ DOMAIN current_working_tree = 1 .. Leafs!tree_depth(Len(s)) + 1
             /\ Len(current_working_tree) = Leafs!tree_depth(Len(s)) + 1
             /\ Halves(Len(s) - 1)[Leafs!tree_depth(Len(s))] = 0
             /\ current_working_tree # <<>>
  <2> DEFINE n == Len(s)
             depth == Leafs!tree_depth(n)
             x == TreeOf(s)
  <2>1. n \in Nat \ {0} /\ n <= MaxLeaves
    BY <1>1, <1>3
  <2>2. x = [d \in 1 .. depth + 1 |-> LayerOf(0 .. Halves(n - 1)[d - 1], Level(n - 1, Base(s))[d - 1])]
    BY <1>3 DEF TreeOf, FullTree
  <2> HIDE DEF n
  <2>3. depth \in 1 .. 32 /\ Halves(n - 1)[depth] = 0
    BY <1>1, <2>1, DepthOf
  <2> HIDE DEF depth, x
  <2>4. depth \in Nat \ {0} /\ depth + 1 \in Nat
    BY <2>3
  <2>5. DOMAIN x = 1 .. depth + 1 /\ Len(x) = depth + 1
    BY <2>2, <2>4
  <2>6. x # <<>>
    BY <2>4, <2>5
  <2> QED BY <1>1, <2>1, <2>3, <2>4, <2>5, <2>6 DEF n, depth, x
<1> QED BY <1>1, <1>2, <1>3 DEF OldLayer

\* The working tree has one leaf for each leaf committed, and its nodes in order.
LEMMA TreeLeaves ==
  ASSUME NEW s, HasTree(s)
  PROVE  /\ Leafs!leaves_len = Len(s)
         /\ \A d \in DOMAIN current_working_tree : \A i \in DOMAIN current_working_tree[d] :
              current_working_tree[d][i][1] = i - 1
<1> DEFINE x == current_working_tree
           n == Len(s)
<1>1. s \in Seq(Leaves) /\ n \in Nat
  BY DEF HasTree
<1>2. /\ s = <<>> => x = <<>>
      /\ s # <<>> => /\ n \in Nat \ {0} /\ Leafs!tree_depth(n) \in Nat \ {0}
                     /\ DOMAIN x = 1 .. Leafs!tree_depth(n) + 1
                     /\ x # <<>>
      /\ \A e \in Nat : e + 1 \in DOMAIN x
           => x[e + 1] = LayerOf(0 .. Halves(n - 1)[e], Level(n - 1, Base(s))[e])
  BY TreeShape
<1>3. s = <<>> => n = 0
  OBVIOUS
<1> HIDE DEF x, n
<1>4. CASE s = <<>>
  <2>1. x = <<>> /\ n = 0
    BY <1>2, <1>3, <1>4
  <2> QED BY <2>1 DEF Leafs!leaves_len, x, n
<1>5. CASE s # <<>>
  <2> DEFINE k == n - 1
             depth == Leafs!tree_depth(n)
  <2>1. k \in Nat /\ k + 1 = n /\ depth \in Nat \ {0} /\ DOMAIN x = 1 .. depth + 1
    BY <1>2, <1>5
  <2>2. \A e \in Nat : e + 1 \in DOMAIN x => x[e + 1] = LayerOf(0 .. Halves(k)[e], Level(k, Base(s))[e])
    BY <1>2
  <2> HIDE DEF k, depth
  <2>3. Halves(k)[0] = k /\ \A e \in Nat : Halves(k)[e] \in Nat
    BY <2>1, HalvesStep
  <2>4. ASSUME NEW d \in DOMAIN x
        PROVE  /\ Len(x[d]) = Halves(k)[d - 1] + 1
               /\ \A i \in DOMAIN x[d] : x[d][i][1] = i - 1
    <3> DEFINE e == d - 1
               a == x[d]
               g == Level(k, Base(s))[e]
    <3>1. e \in Nat /\ e + 1 = d
      BY <2>1
    <3>2. a = LayerOf(0 .. Halves(k)[e], g) /\ Halves(k)[e] \in Nat
      <4> HIDE DEF e
      <4> QED BY <2>2, <2>3, <2>4, <3>1
    <3> HIDE DEF a, e, g
    <3>3. /\ Len(a) = Halves(k)[e] + 1 /\ DOMAIN a = 1 .. Halves(k)[e] + 1
          /\ \A i \in 1 .. Halves(k)[e] + 1 : a[i] = <<i - 1, g[i - 1]>>
      BY <3>2, WholeLayer
    <3>4. \A i \in DOMAIN a : a[i][1] = i - 1
      BY <3>3
    <3> QED BY <3>3, <3>4 DEF a, e
  <2>5. Len(x[1]) = n
    <3>1. 1 \in DOMAIN x /\ 1 - 1 = 0
      BY <2>1
    <3>2. Len(x[1]) = Halves(k)[0] + 1
      BY <2>4, <3>1
    <3> QED BY <2>1, <2>3, <3>2
  <2>6. x # <<>>
    BY <1>2, <1>5
  <2> QED BY <2>4, <2>5, <2>6 DEF Leafs!leaves_len, x, n
<1> QED BY <1>4, <1>5

-----------------------------------------------------------------------------
\* The helpers of some leaves, layer by layer.
LEMMA HelpersAre ==
  ASSUME NEW idx
  PROVE  Leafs!helper_node_tuples(idx)
           = [d \in DOMAIN current_working_tree |->
                HelpersOf(current_working_tree[d],
                          Leafs!LayerIndices(idx, Len(current_working_tree))[d - 1])]
BY DEF Leafs!helper_node_tuples, HelpersOf

\* helper_node_tuples, with the ancestors of the leaves.
LEMMA TreeHelpers ==
  ASSUME NEW s, HasTree(s), NEW I \in SUBSET Nat, IsFiniteSet(I)
  PROVE  Leafs!helper_node_tuples(Leafs!Ascending(I))
           = [d \in DOMAIN current_working_tree |->
                HelpersOf(current_working_tree[d], Leafs!Ascending(Above(I)[d - 1]))]
<1> DEFINE x == current_working_tree
           idx == Leafs!Ascending(I)
           k == Len(x)
<1>1. s = <<>> \/ (DOMAIN x = 1 .. k /\ k \in Nat)
  <2>1. CASE s # <<>>
    <3>1. DOMAIN x = 1 .. Leafs!tree_depth(Len(s)) + 1 /\ k = Leafs!tree_depth(Len(s)) + 1
          /\ Leafs!tree_depth(Len(s)) \in Nat
      BY <2>1, TreeShape
    <3> QED BY <3>1
  <2> QED BY <2>1
<1>2. DOMAIN x = 1 .. k /\ k \in Nat
  <2>1. CASE s = <<>>
    <3>1. x = <<>>
      BY <2>1, TreeShape
    <3>2. DOMAIN <<>> = 1 .. 0 /\ Len(<<>>) = 0
      OBVIOUS
    <3> HIDE DEF x
    <3> QED BY <3>1, <3>2
  <2> QED BY <1>1, <2>1
<1> HIDE DEF k
<1>3. \A d \in 0 .. k : Leafs!LayerIndices(idx, k)[d] = Leafs!Ascending(Above(I)[d])
  BY <1>2, LayerIndicesAre
<1>4. Leafs!helper_node_tuples(idx) = [d \in DOMAIN x |-> HelpersOf(x[d], Leafs!LayerIndices(idx, k)[d - 1])]
  BY HelpersAre DEF k
<1> HIDE DEF x, idx
<1>5. \A d \in DOMAIN x : Leafs!LayerIndices(idx, k)[d - 1] = Leafs!Ascending(Above(I)[d - 1])
  <2> TAKE d \in DOMAIN x
  <2>1. d - 1 \in 0 .. k
    BY <1>2
  <2> QED BY <1>3, <2>1
<1>6. Leafs!helper_node_tuples(idx) = [d \in DOMAIN x |-> HelpersOf(x[d], Leafs!Ascending(Above(I)[d - 1]))]
  BY <1>4, <1>5
<1> QED BY <1>6 DEF x, idx

-----------------------------------------------------------------------------
\* The partial tree of the uncommitted leaves.
LEMMA ShadowLeaves ==
  ASSUME NEW s, NEW u, NEW t, NEW n, NEW m, Extended(s, u, t, n, m)
  PROVE  /\ [i \in DOMAIN u |-> n + i - 1] = Leafs!Ascending(n .. m)
         /\ Leafs!Zip([i \in DOMAIN u |-> n + i - 1], u) = LayerOf(n .. m, Base(t))
         /\ n .. m \in SUBSET Nat /\ IsFiniteSet(n .. m) /\ n .. m \in SUBSET (0 .. m) /\ n .. m # {}
<1> DEFINE k == Len(u)
           w == [i \in 1 .. k |-> n + i - 1]
           h == Base(t)
<1>1. n \in Nat /\ m \in Nat /\ n <= m /\ k \in Nat /\ n + k - 1 = m /\ u \in Seq(Leaves)
      /\ \A i \in 1 .. k : t[n + i] = u[i]
  BY DEF Extended
<1>2. DOMAIN u = 1 .. k
  BY <1>1
<1> HIDE DEF k
<1>3. Leafs!Ascending(n .. n + k - 1) = [i \in 1 .. k |-> n + i - 1]
      /\ n .. n + k - 1 \in SUBSET Nat /\ IsFiniteSet(n .. n + k - 1)
  BY <1>1, RangeListed
<1>4. w = Leafs!Ascending(n .. m) /\ n .. m \in SUBSET Nat /\ IsFiniteSet(n .. m)
  BY <1>1, <1>3
<1>5. n .. m \in SUBSET (0 .. m) /\ n .. m # {}
  BY <1>1
<1>6. \A i \in 1 .. k : w[i] = n + i - 1 /\ h[w[i]] = u[i]
  <2> TAKE i \in 1 .. k
  <2>1. n + i - 1 \in Nat /\ (n + i - 1) + 1 = n + i
    BY <1>1
  <2> QED BY <1>1, <2>1 DEF Base
<1>7. DOMAIN w = 1 .. k
  OBVIOUS
<1> HIDE DEF w, h
<1>8. Leafs!Zip(w, u) = [i \in 1 .. k |-> <<w[i], u[i]>>]
  BY <1>2, <1>7 DEF Leafs!Zip
<1>9. LayerOf(n .. m, h) = [i \in 1 .. k |-> <<w[i], h[w[i]]>>]
  BY <1>4, <1>7 DEF LayerOf
<1>10. Leafs!Zip(w, u) = LayerOf(n .. m, h)
  BY <1>6, <1>8, <1>9
<1> QED BY <1>2, <1>4, <1>5, <1>10 DEF w, h

ShadowParts(x, s, n, m) ==
  \* the layers that uncommitted_diff gives to build_tree
  LET helpers == [d \in DOMAIN x |-> HelpersOf(x[d], Leafs!Ascending(Above(n .. m)[d - 1]))]
  IN  IF helpers = <<>> THEN <<s>> ELSE [helpers EXCEPT ![1] = Leafs!Sorted(@ \o s)]

\* uncommitted_diff gives build_tree all that it needs.
LEMMA ShadowCovers ==
  ASSUME NEW s, NEW u, NEW t, NEW n, NEW m, Extended(s, u, t, n, m), HasTree(s), Len(t) <= MaxLeaves,
         NEW depth \in Nat \ {0}
  PROVE  Covers(ShadowParts(current_working_tree, LayerOf(n .. m, Base(t)), n, m), n .. m, m, Base(t), depth)
<1> DEFINE x == current_working_tree
           I == n .. m
           h == Base(t)
           g == Base(s)
           q == LayerOf(I, h)
           helpers == [d \in DOMAIN x |-> HelpersOf(x[d], Leafs!Ascending(Above(I)[d - 1]))]
           p == IF helpers = <<>> THEN <<q>> ELSE [helpers EXCEPT ![1] = Leafs!Sorted(@ \o q)]
<1>1. /\ n \in Nat /\ m \in Nat /\ n <= m /\ n = Len(s) /\ \A i \in 0 .. n - 1 : g[i] = h[i]
  BY DEF Extended
<1>2. I \in SUBSET Nat /\ IsFiniteSet(I) /\ I \in SUBSET (0 .. m) /\ I # {}
  BY ShadowLeaves
<1>3. \A e \in Nat : NewAt(n, m, e)
  BY <1>1, NewThere
<1>4. Above(I)[0] = I /\ Level(m, h)[0] = h /\ Halves(m)[0] = m /\ Halves(n)[0] = n
  <2>1. Rises(m, h)
    BY ONLY LevelRises
  <2> QED BY <1>1, <1>2, <2>1, AboveStep, HalvesStep DEF Rises
<1>5. \A e \in Nat : OldLayer(s, e)
  BY OldLayers DEF HasTree
<1>6. x = TreeOf(s)
  BY DEF HasTree
<1> HIDE DEF x, h, g
<1>7. ASSUME NEW e \in Nat
      PROVE  (IF e + 1 \in DOMAIN helpers THEN helpers[e + 1] ELSE <<>>)
               = LayerOf(Kids(Above(I)[e + 1], Halves(m)[e]) \ Above(I)[e], Level(m, h)[e])
  <2>1. CASE e + 1 \in DOMAIN x
    <3> DEFINE layer == x[e + 1]
    <3>1. n \in Nat \ {0} /\ layer = LayerOf(0 .. Halves(n - 1)[e], Level(n - 1, g)[e])
      BY <1>1, <1>5, <1>6, <2>1 DEF OldLayer, g
    <3> HIDE DEF layer
    <3>2. HelpersOf(layer, Leafs!Ascending(Above(n .. m)[e]))
           = LayerOf(Kids(Above(n .. m)[e + 1], Halves(m)[e]) \ Above(n .. m)[e], Level(m, h)[e])
      <4>1. HelpsNew(n, m, g, h, e, layer)
        BY <1>1, <3>1 DEF HelpsNew
      <4>2. HelpedNew(n, m, h, e, layer)
        BY ONLY <4>1, NewHelpers
      <4> QED BY <4>2 DEF HelpedNew
    <3>3. (e + 1) - 1 = e
      OBVIOUS
    <3>4. helpers[e + 1] = HelpersOf(layer, Leafs!Ascending(Above(I)[e]))
      BY <2>1, <3>3 DEF layer
    <3> QED BY <2>1, <3>2, <3>4
  <2>2. CASE e + 1 \notin DOMAIN x
    <3>1. Halves(n)[e] = 0
      BY <1>1, <1>5, <1>6, <2>2 DEF OldLayer
    <3>2. /\ Above(n .. m)[e] = 0 .. Halves(m)[e]
          /\ Kids(Above(n .. m)[e + 1], Halves(m)[e]) = 0 .. Halves(m)[e]
      BY <1>1, <3>1, NewOnly
    <3>3. Kids(Above(I)[e + 1], Halves(m)[e]) \ Above(I)[e] = {}
      BY <3>2
    <3>4. LayerOf({}, Level(m, h)[e]) = <<>>
      BY EmptyLayer
    <3> QED BY <2>2, <3>3, <3>4
  <2> QED BY <2>1, <2>2
<1>8. DOMAIN helpers = DOMAIN x
  OBVIOUS
<1>9. s = <<>> \/ 1 \in DOMAIN x
  <2>1. CASE s # <<>>
    <3>1. DOMAIN x = 1 .. Leafs!tree_depth(Len(s)) + 1 /\ Leafs!tree_depth(Len(s)) \in Nat \ {0}
      BY <2>1, TreeShape DEF x
    <3> QED BY <3>1
  <2> QED BY <2>1
<1>10. s = <<>> => DOMAIN x = {}
  BY <1>6 DEF TreeOf
<1> HIDE DEF helpers
<1> DEFINE A == I
           K == Kids(Above(I)[0 + 1], Halves(m)[0])
           B == K \ A
<1>11. /\ A \in SUBSET Nat /\ IsFiniteSet(A) /\ B \in SUBSET Nat /\ IsFiniteSet(B)
       /\ A \cap B = {} /\ B \cup A = K /\ K \in SUBSET Nat /\ IsFiniteSet(K)
  <2>1. NewAt(n, m, 0)
    BY <1>3
  <2>2. A \subseteq K /\ K \in SUBSET Nat /\ IsFiniteSet(K)
    BY <1>4, <2>1 DEF NewAt, AboveAt
  <2> QED BY <1>2, <2>2, FS_Subset
<1>12. K = Kids(Above(I)[1], m) /\ (IF 0 + 1 \in DOMAIN helpers THEN helpers[0 + 1] ELSE <<>>) = LayerOf(B, h)
  <2>1. 0 + 1 = 1 /\ 0 \in Nat
    OBVIOUS
  <2> QED BY <1>4, <1>7, <2>1
<1> HIDE DEF K, I
<1>13. Leafs!Sorted(GivenAt(p, 0)) = LayerOf(K, h)
  <2> HIDE DEF B, A
  <2>1. CASE s = <<>>
    <3>1. DOMAIN helpers = {}
      BY <1>8, <1>10, <2>1
    <3>2. helpers = <<>>
      BY <3>1 DEF helpers
    <3>3. GivenAt(p, 0) = q
      BY <3>2 DEF GivenAt
    <3>4. LayerOf(B, h) = <<>>
      BY <1>12, <3>1
    <3>5. B = {}
      <4>0. <<>> = LayerOf(B, h)
        BY <3>4
      <4>1. Layered(<<>>, Leafs!Ascending(B), B, h)
        BY <1>11, <4>0, LayerMembers
      <4>2. Len(<<>>) = 0
        OBVIOUS
      <4>3. \A i \in B : \E k \in 1 .. 0 : TRUE
        BY <4>1, <4>2 DEF Layered
      <4> QED BY <4>3
    <3>6. K = A
      BY <1>11, <3>5
    <3>7. Leafs!Sorted(LayerOf(A, h)) = LayerOf(A, h)
      BY <1>11, SortedAlready
    <3> QED BY <3>3, <3>6, <3>7 DEF A
  <2>2. CASE s # <<>>
    <3>1. 1 \in DOMAIN helpers /\ helpers # <<>>
      BY <1>8, <1>9, <2>2
    <3>2. GivenAt(p, 0) = Leafs!Sorted(helpers[1] \o q)
      <4>1. p = [helpers EXCEPT ![1] = Leafs!Sorted(@ \o q)]
        BY <3>1
      <4>2. DOMAIN p = DOMAIN helpers /\ p[1] = Leafs!Sorted(helpers[1] \o q)
        BY <3>1, <4>1
      <4>3. 0 + 1 = 1
        OBVIOUS
      <4> QED BY <3>1, <4>2, <4>3 DEF GivenAt
    <3>3. helpers[1] = LayerOf(B, h)
      BY <1>12, <3>1
    <3>4. Leafs!Sorted(LayerOf(B, h) \o LayerOf(A, h)) = LayerOf(B \cup A, h)
      <4>1. B \cap A = {}
        BY <1>11
      <4> QED BY ONLY <1>11, <4>1, SortedUnion
    <3>5. GivenAt(p, 0) = LayerOf(K, h)
      BY <1>11, <3>2, <3>3, <3>4 DEF A
    <3>6. Leafs!Sorted(LayerOf(K, h)) = LayerOf(K, h)
      BY <1>11, SortedAlready
    <3> QED BY <3>5, <3>6
  <2> QED BY <2>1, <2>2
<1>14. ASSUME NEW e \in 1 .. depth - 1
       PROVE  GivenAt(p, e)
                = LayerOf(Kids(Above(I)[e + 1], Halves(m)[e]) \ Above(I)[e], Level(m, h)[e])
  <2>1. e \in Nat /\ e + 1 # 1 /\ 0 \in Nat
    OBVIOUS
  <2>2. GivenAt(p, e) = IF e + 1 \in DOMAIN helpers THEN helpers[e + 1] ELSE <<>>
    <3>1. CASE helpers = <<>>
      <4>1. DOMAIN p = {1} /\ DOMAIN helpers = {}
        BY <3>1
      <4> QED BY <2>1, <4>1 DEF GivenAt
    <3>2. CASE helpers # <<>>
      <4>1. p = [helpers EXCEPT ![1] = Leafs!Sorted(@ \o q)]
        BY <3>2
      <4>2. DOMAIN p = DOMAIN helpers /\ \A d \in DOMAIN helpers \ {1} : p[d] = helpers[d]
        BY <4>1
      <4> QED BY <2>1, <4>2 DEF GivenAt
    <3> QED BY <3>1, <3>2
  <2> QED BY <1>7, <2>1, <2>2
<1> HIDE DEF p
<1>15. Covers(p, I, m, h, depth)
  BY <1>1, <1>2, <1>12, <1>13, <1>14 DEF Covers
<1> QED BY <1>15 DEF p, q, helpers, x, I, h, ShadowParts

-----------------------------------------------------------------------------
\* The partial tree of the uncommitted leaves is the part of the whole new tree.
LEMMA Uncommitted ==
  ASSUME NEW s, NEW u, NEW t, NEW n, NEW m, Extended(s, u, t, n, m), HasTree(s),
         uncommitted_leaves = u, Len(t) <= MaxLeaves
  PROVE  Leafs!uncommitted_diff = DiffOf(s, t)
<1> DEFINE x == current_working_tree
           idx == [i \in DOMAIN u |-> n + i - 1]
           q == Leafs!Zip(idx, u)
           helpers == Leafs!helper_node_tuples(idx)
           depth == Leafs!tree_depth(Len(t))
           p == IF helpers = <<>> THEN <<q>> ELSE [helpers EXCEPT ![1] = Leafs!Sorted(@ \o q)]
<1>1. /\ n \in Nat /\ m \in Nat /\ n = Len(s) /\ Len(t) = m + 1 /\ Len(t) - 1 = m
      /\ n + Len(u) = Len(t)
  BY DEF Extended
<1>2. Leafs!leaves_len = n
  BY <1>1, TreeLeaves
<1>3. Leafs!uncommitted_diff = Leafs!build_tree(p, depth)
  BY <1>1, <1>2 DEF Leafs!uncommitted_diff
<1>4. /\ idx = Leafs!Ascending(n .. m) /\ q = LayerOf(n .. m, Base(t))
      /\ n .. m \in SUBSET Nat /\ IsFiniteSet(n .. m)
  BY ShadowLeaves
<1>5. helpers = [d \in DOMAIN x |-> HelpersOf(x[d], Leafs!Ascending(Above(n .. m)[d - 1]))]
  BY <1>4, TreeHelpers
<1>6. depth \in Nat \ {0}
  <2> DEFINE k == Len(t)
  <2>1. k \in Nat \ {0} /\ k <= MaxLeaves /\ Limits
    BY <1>1 DEF HasTree
  <2> HIDE DEF k
  <2>2. Leafs!tree_depth(k) \in 1 .. 32
    BY <2>1, DepthOf
  <2>3. Leafs!tree_depth(k) \in Nat \ {0}
    BY ONLY <2>2
  <2> QED BY <2>3 DEF k
<1> HIDE DEF depth
<1>7. p = ShadowParts(x, LayerOf(n .. m, Base(t)), n, m)
  BY <1>4, <1>5 DEF ShadowParts
<1>8. Covers(p, n .. m, m, Base(t), depth)
  <2>1. Covers(ShadowParts(x, LayerOf(n .. m, Base(t)), n, m), n .. m, m, Base(t), depth)
    BY <1>6, ShadowCovers
  <2> QED BY <1>7, <2>1
<1> HIDE DEF p
<1>9. Leafs!build_tree(p, depth) = PartTree(n .. m, m, Base(t), depth)
  BY <1>8, BuiltTree
<1>10. DiffOf(s, t) = PartTree(n .. m, m, Base(t), depth)
  BY <1>1 DEF DiffOf, depth
<1> QED BY <1>3, <1>9, <1>10

-----------------------------------------------------------------------------
\* Roots.
LEMMA TopLayer ==
  ASSUME NEW f, NEW g, NEW depth \in Nat, DOMAIN f = 1 .. depth + 1, f = [d \in 1 .. depth + 1 |-> f[d]],
         f[depth + 1] = LayerOf(0 .. 0, g)
  PROVE  Leafs!root(f) = g[0] /\ f # <<>>
<1> DEFINE a == LayerOf(0 .. 0, g)
           k == depth + 1
<1>1. k \in Nat \ {0}
  OBVIOUS
<1>2. Len(f) = k /\ f # <<>>
  BY <1>1
<1>3. a[1] = <<0, g[0]>>
  <2>1. 0 \in Nat /\ 0 \in 0 .. 0 /\ 0 + 1 = 1
    OBVIOUS
  <2> DEFINE z == 0
  <2>2. a = LayerOf(0 .. z, g) /\ z \in Nat
    OBVIOUS
  <2> HIDE DEF a, z
  <2>3. \A i \in 0 .. z : a[i + 1] = <<i, g[i]>>
    BY ONLY <2>2, WholeLayer
  <2> QED BY <2>1, <2>3 DEF z
<1> HIDE DEF a
<1>4. Leafs!Last(f) = a
  BY <1>2 DEF Leafs!Last, a
<1> QED BY <1>2, <1>3, <1>4 DEF Leafs!root

\* The root of a partial tree is the root of the whole.
LEMMA PartRoot ==
  ASSUME NEW n \in Nat, NEW I \in SUBSET (0 .. n), I # {}, NEW h, NEW depth \in Nat,
         Halves(n)[depth] = 0
  PROVE  Leafs!root(PartTree(I, n, h, depth)) = Level(n, h)[depth][0] /\ PartTree(I, n, h, depth) # <<>>
<1> DEFINE f == PartTree(I, n, h, depth)
           g == Level(n, h)[depth]
<1>1. f = [d \in 1 .. depth + 1 |-> PartLayer(I, n, h, depth, d - 1)]
  BY DEF PartTree
<1>2. f[depth + 1] = LayerOf(Above(I)[depth], g)
  <2>1. depth + 1 \in 1 .. depth + 1 /\ (depth + 1) - 1 = depth
    OBVIOUS
  <2> QED BY <1>1, <2>1 DEF PartLayer, PartNodes
<1>3. Above(I)[depth] = 0 .. 0
  <2>1. AboveAt(I, n, depth)
    BY AboveThere
  <2>2. Above(I)[depth] \in SUBSET (0 .. 0) /\ Above(I)[depth] # {}
    BY <2>1 DEF AboveAt
  <2> QED BY <2>2
<1> HIDE DEF f, g
<1>4. DOMAIN f = 1 .. depth + 1 /\ f = [d \in 1 .. depth + 1 |-> f[d]]
  BY <1>1
<1>5. f[depth + 1] = LayerOf(0 .. 0, g)
  BY <1>2, <1>3
<1>6. Leafs!root(f) = g[0] /\ f # <<>>
  BY <1>4, <1>5, TopLayer
<1> QED BY <1>6 DEF f, g

\* The root of the tree of some leaves is the reference root.
LEMMA TreeRoot ==
  ASSUME Limits, NEW s \in Seq(Leaves), s # <<>>, Len(s) <= MaxLeaves
  PROVE  Leafs!root(TreeOf(s)) = Leafs!MerkleRoot[s] /\ TreeOf(s) # <<>>
         /\ Leafs!MerkleRoot[s] = RootOf(s, Leafs!tree_depth(Len(s)))
<1> DEFINE n == Len(s)
           depth == Leafs!tree_depth(n)
           f == TreeOf(s)
           g == Level(n - 1, Base(s))[depth]
<1>1. n \in Nat \ {0} /\ n <= MaxLeaves
  OBVIOUS
<1>2. f = [d \in 1 .. depth + 1 |-> LayerOf(0 .. Halves(n - 1)[d - 1], Level(n - 1, Base(s))[d - 1])]
  BY DEF TreeOf, FullTree
<1> HIDE DEF n
<1>3. depth \in Nat /\ n <= Leafs!Two[depth] /\ Halves(n - 1)[depth] = 0
  BY <1>1, DepthOf
<1> HIDE DEF depth
<1>4. f[depth + 1] = LayerOf(0 .. 0, g)
  <2>1. depth + 1 \in 1 .. depth + 1 /\ (depth + 1) - 1 = depth
    BY <1>3
  <2> HIDE DEF f
  <2> QED BY <1>2, <1>3, <2>1
<1> HIDE DEF f, g
<1>5. DOMAIN f = 1 .. depth + 1 /\ f = [d \in 1 .. depth + 1 |-> f[d]]
  BY <1>2
<1>6. Leafs!root(f) = g[0] /\ f # <<>>
  BY <1>3, <1>4, <1>5, TopLayer
<1>7. Leafs!MerkleRoot[s] = RootOf(s, depth)
  BY <1>3, MerkleRoots DEF n
<1>8. RootOf(s, depth) = g[0]
  BY DEF RootOf, g, n
<1> QED BY <1>6, <1>7, <1>8 DEF f, depth, n

\* The root of the partial tree is that of the leaves after the commit.
LEMMA DiffRoot ==
  ASSUME NEW s, NEW u, NEW t, NEW n, NEW m, Extended(s, u, t, n, m), Limits, Len(t) <= MaxLeaves
  PROVE  Leafs!root(DiffOf(s, t)) = Leafs!MerkleRoot[t] /\ DiffOf(s, t) # <<>>
<1> DEFINE depth == Leafs!tree_depth(Len(t))
<1>1. /\ n \in Nat /\ m \in Nat /\ n <= m /\ n = Len(s) /\ Len(t) = m + 1 /\ Len(t) - 1 = m
      /\ t \in Seq(Leaves) /\ t # <<>>
  BY DEF Extended
<1>2. depth \in Nat /\ Halves(m)[depth] = 0
  <2> DEFINE k == Len(t)
  <2>1. k \in Nat \ {0} /\ k <= MaxLeaves /\ k - 1 = m
    BY <1>1
  <2> HIDE DEF k
  <2>2. Leafs!tree_depth(k) \in Nat /\ Halves(k - 1)[Leafs!tree_depth(k)] = 0
    BY <2>1, DepthOf
  <2> QED BY <2>1, <2>2 DEF k
<1>3. Leafs!MerkleRoot[t] = RootOf(t, depth)
  BY <1>1, TreeRoot
<1> HIDE DEF depth
<1>4. n .. m \in SUBSET (0 .. m) /\ n .. m # {}
  BY ShadowLeaves
<1>5. Leafs!root(PartTree(n .. m, m, Base(t), depth)) = Level(m, Base(t))[depth][0]
      /\ PartTree(n .. m, m, Base(t), depth) # <<>>
  <2> DEFINE I == n .. m
             h == Base(t)
  <2>1. I \in SUBSET (0 .. m) /\ I # {} /\ m \in Nat
    BY <1>1, <1>4
  <2> HIDE DEF I, h
  <2>2. Leafs!root(PartTree(I, m, h, depth)) = Level(m, h)[depth][0] /\ PartTree(I, m, h, depth) # <<>>
    BY ONLY <1>2, <2>1, PartRoot
  <2> QED BY <2>2 DEF I, h
<1>6. RootOf(t, depth) = Level(m, Base(t))[depth][0]
  BY <1>1 DEF RootOf
<1>7. DiffOf(s, t) = PartTree(n .. m, m, Base(t), depth)
  BY <1>1 DEF DiffOf, depth
<1> QED BY <1>3, <1>5, <1>6, <1>7

-----------------------------------------------------------------------------
\* The nodes a verifier of the leaves I is given at height e.
RestAt(I, n, e) == Kids(Above(I)[e + 1], Halves(n)[e]) \ Above(I)[e]

RestOf(I, n, e) ==
  /\ RestAt(I, n, e) \in SUBSET Nat /\ IsFiniteSet(RestAt(I, n, e))
  /\ RestAt(I, n, e) \cap Above(I)[e] = {} /\ Above(I)[e] \cap RestAt(I, n, e) = {}
  /\ RestAt(I, n, e) \cup Above(I)[e] = Kids(Above(I)[e + 1], Halves(n)[e])
  /\ RestAt(I, n, e) = (Siblings(Above(I)[e]) \ Above(I)[e]) \cap (0 .. Halves(n)[e])

\* What is known of the nodes that a verifier is given.
LEMMA RestThere ==
  ASSUME NEW n \in Nat, NEW I \in SUBSET (0 .. n), I # {}
  PROVE  \A e \in Nat : RestOf(I, n, e)
<1> TAKE e \in Nat
<1> DEFINE A == Above(I)[e]
           z == Halves(n)[e]
           K == Kids(Above(I)[e + 1], z)
           R == K \ A
<1>1. AboveAt(I, n, e)
  BY AboveThere
<1>2. /\ A \in SUBSET (0 .. z) /\ z \in Nat /\ Above(I)[e + 1] = Up(A)
      /\ K \in SUBSET Nat /\ IsFiniteSet(K) /\ A \subseteq K
  BY <1>1 DEF AboveAt
<1> HIDE DEF A, z
<1>3. (Siblings(A) \ A) \cap (0 .. z) = Kids(Up(A), z) \ A
  BY <1>2, SiblingsAndKids
<1>4. R = (Siblings(A) \ A) \cap (0 .. z)
  BY <1>2, <1>3
<1> HIDE DEF K
<1>5. R \in SUBSET Nat /\ IsFiniteSet(R) /\ R \cap A = {} /\ A \cap R = {} /\ R \cup A = K
  BY <1>2, FS_Subset
<1>6. RestAt(I, n, e) = R
  BY DEF RestAt, A, z, K
<1> HIDE DEF R
<1> QED BY <1>4, <1>5, <1>6 DEF RestOf, A, z, K

\* The siblings the verifier looks for in a layer.
NeededOf(list, len) ==
  IF len % 2 = 1 /\ Leafs!Last(list) = len - 1 THEN Leafs!Front(Leafs!sibling_indices(list))
  ELSE Leafs!sibling_indices(list)

\* The siblings that the verifier looks for are those within the layer.
LEMMA NeededLayer ==
  ASSUME NEW z \in Nat, NEW A \in SUBSET (0 .. z), A # {}, IsFiniteSet(A),
         NEW s, s = Leafs!Ascending(A), NEW B, B = (Siblings(A) \ A) \cap (0 .. z)
  PROVE  Leafs!difference(NeededOf(s, z + 1), s) = Leafs!Ascending(B)
<1> DEFINE w == Leafs!sibling_indices(s)
           u == NeededOf(s, z + 1)
           k == Len(s)
           sib(i) == Leafs!get_sibling_index(i)
           lonely == (z + 1) % 2 = 1 /\ Leafs!Last(s) = (z + 1) - 1
<1>0. A \in SUBSET Nat
  OBVIOUS
<1>1. /\ k \in Nat \ {0} /\ DOMAIN s = 1 .. k
      /\ \A i \in 1 .. k : s[i] \in A /\ s[i] \in Nat
      /\ \A i, j \in 1 .. k : i < j => s[i] < s[j]
      /\ \A x \in A : \E i \in 1 .. k : s[i] = x
  BY <1>0, ListMembers
<1>2. w = [i \in 1 .. k |-> sib(s[i])]
  BY <1>1 DEF Leafs!sibling_indices
<1>3. ASSUME NEW i \in Nat
      PROVE  /\ sib(i) \in Nat /\ (i % 2 = 0 => sib(i) = i + 1) /\ (i % 2 = 1 => sib(i) = i - 1)
             /\ i % 2 \in {0, 1}
  BY SiblingRange
<1> HIDE DEF k, sib, w
<1>4. w \in Seq(Nat) /\ Len(w) = k /\ \A i \in 1 .. k : w[i] = sib(s[i])
  <2>1. \A i \in 1 .. k : w[i] = sib(s[i]) /\ w[i] \in Nat
    BY <1>1, <1>2, <1>3
  <2>2. w \in [1 .. k -> Nat]
    BY <1>2, <2>1
  <2> QED BY <1>1, <2>1, <2>2
<1>5. Siblings(A) = {sib(s[i]) : i \in 1 .. k}
  BY <1>1 DEF Siblings, sib
<1>6. Leafs!Last(s) = s[k]
  BY DEF Leafs!Last, k
<1>7. \A i \in 1 .. k : s[i] <= s[k] /\ s[i] <= z /\ s[i] \in Nat
  <2> TAKE i \in 1 .. k
  <2>1. k \in 1 .. k /\ s[i] \in Nat /\ s[k] \in Nat /\ s[i] <= z
    BY <1>1
  <2>2. i = k \/ i < k
    BY <1>1
  <2>3. CASE i = k
    BY <2>1, <2>3
  <2>4. CASE i < k
    <3>1. s[i] < s[k]
      BY <1>1, <2>1, <2>4
    <3> QED BY <2>1, <3>1
  <2> QED BY <2>2, <2>3, <2>4
<1>8. ASSUME NEW i \in 1 .. k, s[i] < z PROVE sib(s[i]) \in 0 .. z
  <2>1. s[i] \in Nat
    BY <1>7
  <2>2. sib(s[i]) \in Nat /\ sib(s[i]) <= s[i] + 1
    BY <1>3, <2>1
  <2> QED BY <1>8, <2>1, <2>2
<1>9. CASE lonely
  <2>1. u = Leafs!Front(w) /\ z % 2 = 0 /\ s[k] = z
    <3>1. u = Leafs!Front(w)
      BY <1>9 DEF NeededOf, w
    <3>2. z % 2 = 0 /\ s[k] = z
      BY <1>6, <1>9
    <3> QED BY <3>1, <3>2
  <2> HIDE DEF u
  <2>2. u \in Seq(Nat) /\ Len(u) = k - 1 /\ \A i \in 1 .. k - 1 : u[i] = w[i]
    <3>1. u = SubSeq(w, 1, k - 1)
      BY <1>4, <2>1 DEF Leafs!Front
    <3> QED BY <1>1, <1>4, <3>1
  <2>3. \A i \in 1 .. k - 1 : i \in 1 .. k /\ u[i] = sib(s[i]) /\ u[i] \in 0 .. z
    <3> TAKE i \in 1 .. k - 1
    <3>1. i \in 1 .. k /\ k \in 1 .. k /\ i < k
      BY <1>1
    <3>2. s[i] < z
      BY <1>1, <2>1, <3>1
    <3>3. sib(s[i]) \in 0 .. z
      BY <1>8, <3>1, <3>2
    <3> QED BY <1>4, <2>2, <3>1, <3>3
  <2>4. sib(s[k]) \notin 0 .. z
    <3>1. sib(z) = z + 1
      BY <1>3, <2>1
    <3> QED BY <2>1, <3>1
  <2>5. \A i \in 1 .. k : i = k \/ i \in 1 .. k - 1
    BY <1>1
  <2>6. B = {u[i] : i \in 1 .. Len(u)} \ A
    BY <1>5, <2>2, <2>3, <2>4, <2>5
  <2>7. Len(u) <= Len(s) /\ \A i \in 1 .. Len(u) : u[i] = Leafs!get_sibling_index(s[i])
    BY <1>1, <2>2, <2>3 DEF k, sib
  <2>8. Leafs!difference(u, s) = Leafs!Ascending(B)
    BY <1>0, <2>2, <2>6, <2>7, SiblingsListed
  <2> QED BY <2>8 DEF u
<1>10. CASE ~lonely
  <2>1. u = w
    BY <1>10 DEF NeededOf, w
  <2>2. ~(z % 2 = 0 /\ s[k] = z)
    BY <1>6, <1>10
  <2> HIDE DEF u
  <2>3. \A i \in 1 .. k : sib(s[i]) \in 0 .. z
    <3> TAKE i \in 1 .. k
    <3>1. s[i] \in Nat /\ s[i] <= z /\ s[i] <= s[k] /\ k \in 1 .. k
      BY <1>1, <1>7
    <3>2. s[k] \in Nat /\ s[k] <= z
      BY <1>7, <3>1
    <3>3. CASE s[i] = z
      <4>1. s[k] = z
        BY <3>1, <3>2, <3>3
      <4>2. z % 2 = 1
        BY <1>3, <2>2, <4>1
      <4>3. sib(z) = z - 1 /\ sib(z) \in Nat
        BY <1>3, <4>2
      <4> QED BY <3>3, <4>3
    <3>4. CASE s[i] # z
      BY <1>8, <3>1, <3>4
    <3> QED BY <3>3, <3>4
  <2>4. B = {u[i] : i \in 1 .. Len(u)} \ A
    BY <1>4, <1>5, <2>1, <2>3
  <2>5. Len(u) <= Len(s) /\ \A i \in 1 .. Len(u) : u[i] = Leafs!get_sibling_index(s[i])
    BY <1>1, <1>4, <2>1 DEF k, sib
  <2>6. u \in Seq(Nat)
    BY <1>4, <2>1
  <2>8. Leafs!difference(u, s) = Leafs!Ascending(B)
    BY <1>0, <2>4, <2>5, <2>6, SiblingsListed
  <2> QED BY <2>8 DEF u
<1> QED BY <1>9, <1>10

-----------------------------------------------------------------------------
\* Lists put together one after the other, and where each of them ends.
Joined(c, k, S, H) ==
  /\ k \in Nat /\ H \in [0 .. k -> Seq(S)] /\ H[0] = <<>>
  /\ \A d \in 1 .. k : c[d] \in Seq(S) /\ H[d] = H[d - 1] \o c[d]

Ended(c, k, T) ==
  /\ k \in Nat /\ T \in [0 .. k -> Nat] /\ T[0] = 0
  /\ \A d \in 1 .. k : Len(c[d]) \in Nat /\ T[d] = T[d - 1] + Len(c[d])

\* The elements of the list at place e in what is joined up to d.
JoinedAt(c, H, d, e) ==
  /\ Len(H[e - 1]) \in Nat /\ Len(H[e]) \in Nat /\ Len(c[e]) \in Nat /\ Len(H[d]) \in Nat
  /\ Len(H[e]) = Len(H[e - 1]) + Len(c[e]) /\ Len(H[e]) <= Len(H[d])
  /\ \A i \in 1 .. Len(c[e]) : H[d][Len(H[e - 1]) + i] = c[e][i]

\* What is joined later leaves the earlier lists where they are.
LEMMA JoinedParts ==
  ASSUME NEW c, NEW k, NEW S, NEW H, Joined(c, k, S, H)
  PROVE  \A d \in 0 .. k : \A e \in 1 .. d : JoinedAt(c, H, d, e)
<1> DEFINE G == {d \in Nat : d <= k => \A e \in 1 .. d : JoinedAt(c, H, d, e)}
<1>0. k \in Nat
  BY DEF Joined
<1>1. 0 \in G
  OBVIOUS
<1>2. ASSUME NEW d \in Nat, d \in G PROVE d + 1 \in G
  <2>1. SUFFICES ASSUME d + 1 <= k, NEW e \in 1 .. d + 1 PROVE JoinedAt(c, H, d + 1, e)
    OBVIOUS
  <2>2. d \in 0 .. k /\ d + 1 \in 1 .. k /\ d + 1 \in 0 .. k /\ (d + 1) - 1 = d
    BY <1>0, <2>1
  <2>3. H[d] \in Seq(S) /\ c[d + 1] \in Seq(S) /\ H[d + 1] = H[d] \o c[d + 1]
    BY <2>2 DEF Joined
  <2> DEFINE a == H[d]
             b == c[d + 1]
             m == Len(a)
             n == Len(b)
  <2>4. m \in Nat /\ n \in Nat
    BY <2>3
  <2>5. Len(a \o b) = m + n /\ \A i \in 1 .. m + n : (a \o b)[i] = IF i <= m THEN a[i] ELSE b[i - m]
    <3>1. a \in Seq(S) /\ b \in Seq(S)
      BY <2>3
    <3> HIDE DEF a, b
    <3> QED BY <3>1
  <2> HIDE DEF m, n
  <2>6. CASE e = d + 1
    <3>1. Len(H[d + 1]) = m + n
      BY <2>3, <2>5
    <3>2. \A i \in 1 .. n : H[d + 1][m + i] = b[i]
      <4> TAKE i \in 1 .. n
      <4>1. m + i \in 1 .. m + n /\ ~(m + i <= m) /\ (m + i) - m = i
        BY <2>4
      <4> HIDE DEF a, b
      <4>2. (a \o b)[m + i] = b[i]
        BY <2>5, <4>1
      <4> QED BY <2>3, <4>2 DEF a, b
    <3>3. m + n \in Nat /\ m + n <= m + n
      BY <2>4
    <3> QED BY <2>2, <2>4, <2>6, <3>1, <3>2, <3>3 DEF JoinedAt, m, n
  <2>7. CASE e # d + 1
    <3>1. e \in 1 .. d
      BY <2>7
    <3>2. JoinedAt(c, H, d, e)
      BY <1>2, <2>2, <3>1
    <3>3. /\ Len(H[e - 1]) \in Nat /\ Len(H[e]) \in Nat /\ Len(c[e]) \in Nat
          /\ Len(H[e]) = Len(H[e - 1]) + Len(c[e]) /\ Len(H[e]) <= m
          /\ \A i \in 1 .. Len(c[e]) : a[Len(H[e - 1]) + i] = c[e][i]
      BY <3>2 DEF JoinedAt, m
    <3>4. Len(H[d + 1]) = m + n
      BY <2>3, <2>5
    <3>5. \A i \in 1 .. Len(c[e]) : H[d + 1][Len(H[e - 1]) + i] = c[e][i]
      <4> TAKE i \in 1 .. Len(c[e])
      <4> DEFINE j == Len(H[e - 1]) + i
      <4>1. j \in 1 .. m + n /\ j <= m
        <5> DEFINE x == Len(H[e - 1])
                   y == Len(c[e])
        <5>1. x \in Nat /\ y \in Nat /\ x + y <= m /\ i \in 1 .. y
          BY <3>3
        <5> HIDE DEF x, y
        <5>2. x + i \in 1 .. m + n /\ x + i <= m
          BY <2>4, <5>1
        <5> QED BY <5>2 DEF x
      <4>2. a[j] = c[e][i]
        BY <3>3
      <4> HIDE DEF a, b, j
      <4>3. (a \o b)[j] = a[j]
        BY <2>5, <4>1
      <4> QED BY <2>3, <4>2, <4>3 DEF a, b, j
    <3> DEFINE x == Len(H[e])
    <3>6. m + n \in Nat /\ x <= m + n
      <4>1. x \in Nat /\ x <= m
        BY <3>3
      <4> HIDE DEF x
      <4> QED BY <2>4, <4>1
    <3> QED BY <3>3, <3>4, <3>5, <3>6 DEF JoinedAt
  <2> QED BY <2>6, <2>7
<1> HIDE DEF G
<1>3. Nat \subseteq G
  BY <1>1, <1>2, NumberInduction
<1> QED BY <1>0, <1>3 DEF G

\* Lists dealt out by their lengths are the lists that were joined.
LEMMA DealtOut ==
  ASSUME NEW c, NEW k, NEW S, NEW H, Joined(c, k, S, H), NEW l, NEW T, Ended(c, l, T), l <= k
  PROVE  /\ T[l] <= Len(H[k])
         /\ \A e \in 1 .. l : SubSeq(H[k], T[e - 1] + 1, T[e]) = c[e]
<1> DEFINE G == {d \in Nat : d <= l => T[d] = Len(H[d])}
<1>0. k \in Nat /\ l \in Nat
  BY DEF Joined, Ended
<1>1. 0 \in G
  BY DEF Joined, Ended
<1>2. ASSUME NEW d \in Nat, d \in G PROVE d + 1 \in G
  <2>1. SUFFICES ASSUME d + 1 <= l PROVE T[d + 1] = Len(H[d + 1])
    OBVIOUS
  <2>2. d + 1 \in 1 .. l /\ d + 1 \in 1 .. k /\ (d + 1) - 1 = d /\ d \in 0 .. k /\ d <= l
        /\ d + 1 \in 0 .. k /\ d + 1 \in 1 .. d + 1
    BY <1>0, <2>1
  <2>3. T[d + 1] = T[d] + Len(c[d + 1])
    BY <2>2 DEF Ended
  <2>4. JoinedAt(c, H, d + 1, d + 1)
    BY <2>2, JoinedParts
  <2>5. Len(H[d + 1]) = Len(H[d]) + Len(c[d + 1])
    BY <2>2, <2>4 DEF JoinedAt
  <2> QED BY <1>2, <2>2, <2>3, <2>5
<1> HIDE DEF G
<1>3. Nat \subseteq G
  BY <1>1, <1>2, NumberInduction
<1>4. \A d \in 0 .. l : T[d] = Len(H[d])
  BY <1>0, <1>3 DEF G
<1>5. \A d \in 0 .. k : H[d] \in Seq(S) /\ Len(H[d]) \in Nat
  BY DEF Joined
<1>6. ASSUME NEW e \in 1 .. l PROVE SubSeq(H[k], T[e - 1] + 1, T[e]) = c[e]
  <2>1. e \in 1 .. k /\ k \in 0 .. k /\ e \in 0 .. l /\ e - 1 \in 0 .. l
    BY <1>0
  <2>2. JoinedAt(c, H, k, e)
    BY <2>1, JoinedParts
  <2> DEFINE a == H[k]
             m == T[e - 1]
             n == Len(c[e])
             b == SubSeq(a, m + 1, T[e])
  <2>3. T[e - 1] = Len(H[e - 1]) /\ T[e] = Len(H[e])
    BY <1>4, <2>1
  <2>4. /\ m \in Nat /\ n \in Nat /\ T[e] = m + n /\ m + n <= Len(a)
        /\ \A i \in 1 .. n : a[m + i] = c[e][i]
    BY <2>2, <2>3 DEF JoinedAt
  <2>5. a \in Seq(S) /\ c[e] \in Seq(S) /\ Len(a) \in Nat
    BY <1>5, <2>1 DEF Joined
  <2> HIDE DEF m, a
  <2>6. b = SubSeq(a, m + 1, m + n)
    BY <2>4
  <2>7. Len(b) = n /\ b \in Seq(S) /\ \A i \in 1 .. n : b[i] = a[m + i]
    <3>1. b = [i \in 1 .. n |-> a[m + i]]
      <4>1. (m + n) - (m + 1) + 1 = n
        BY <2>4
      <4>2. \A i \in 1 .. n : i + (m + 1) - 1 = m + i
        BY <2>4
      <4> QED BY <2>4, <2>5, <2>6, <4>1, <4>2
    <3>2. \A i \in 1 .. n : m + i \in 1 .. Len(a) /\ a[m + i] \in S
      BY <2>4, <2>5
    <3> HIDE DEF b, n
    <3>3. b \in [1 .. n -> S]
      BY <3>1, <3>2
    <3>4. n \in Nat
      BY <2>4
    <3>5. b \in Seq(S) /\ Len(b) = n
      BY <3>3, <3>4
    <3> QED BY <3>1, <3>5
  <2> HIDE DEF b
  <2>8. \A i \in 1 .. n : b[i] = c[e][i]
    BY <2>4, <2>7
  <2>9. b = c[e]
    <3> DEFINE q == c[e]
    <3>1. b \in Seq(S) /\ q \in Seq(S) /\ Len(b) = Len(q) /\ \A i \in 1 .. Len(b) : b[i] = q[i]
      BY <2>5, <2>7, <2>8
    <3> HIDE DEF q
    <3>2. b = q
      BY ONLY <3>1
    <3> QED BY <3>2 DEF q
  <2> QED BY <2>9 DEF b, a, m
<1>7. T[l] <= Len(H[k])
  <2>1. CASE l = 0
    BY <1>0, <1>5, <2>1 DEF Ended
  <2>2. CASE l # 0
    <3>1. l \in 1 .. k /\ k \in 0 .. k /\ l \in 0 .. l
      BY <1>0, <2>2
    <3>2. JoinedAt(c, H, k, l)
      BY <3>1, JoinedParts
    <3> QED BY <1>4, <3>1, <3>2 DEF JoinedAt
  <2> QED BY <2>1, <2>2
<1> QED BY <1>6, <1>7

-----------------------------------------------------------------------------
\* The hashes of the nodes B, in the order of their indices.
HashesOf(B, g) == LET s == Leafs!Ascending(B) IN [i \in DOMAIN s |-> g[s[i]]]

\* A layer is its indices zipped with its hashes.
LEMMA ZippedLayer ==
  ASSUME NEW B \in SUBSET Nat, IsFiniteSet(B), NEW g
  PROVE  /\ Leafs!Zip(Leafs!Ascending(B), HashesOf(B, g)) = LayerOf(B, g)
         /\ [i \in DOMAIN LayerOf(B, g) |-> LayerOf(B, g)[i][2]] = HashesOf(B, g)
         /\ Len(HashesOf(B, g)) = Len(Leafs!Ascending(B)) /\ Len(HashesOf(B, g)) \in Nat
         /\ DOMAIN HashesOf(B, g) = DOMAIN Leafs!Ascending(B)
         /\ \A S : (\A j \in Nat : g[j] \in S) => HashesOf(B, g) \in Seq(S)
<1> DEFINE s == Leafs!Ascending(B)
           k == Len(s)
           w == HashesOf(B, g)
           a == LayerOf(B, g)
<1>1. k \in Nat /\ DOMAIN s = 1 .. k /\ \A i \in 1 .. k : s[i] \in Nat
  BY ListMembers
<1>2. w = [i \in 1 .. k |-> g[s[i]]]
  BY <1>1 DEF HashesOf
<1>3. a = [i \in 1 .. k |-> <<s[i], g[s[i]]>>]
  BY <1>1 DEF LayerOf
<1> HIDE DEF s, k, w, a
<1>4. Leafs!Zip(s, w) = a
  <2>1. DOMAIN s \cap DOMAIN w = 1 .. k /\ \A i \in 1 .. k : w[i] = g[s[i]]
    BY <1>1, <1>2
  <2> QED BY <1>3, <2>1 DEF Leafs!Zip
<1>5. [i \in DOMAIN a |-> a[i][2]] = w
  <2>1. DOMAIN a = 1 .. k /\ \A i \in 1 .. k : a[i][2] = g[s[i]]
    BY <1>3
  <2> QED BY <1>2, <2>1
<1>6. Len(w) = k /\ DOMAIN w = DOMAIN s
  BY <1>1, <1>2
<1>7. ASSUME NEW S, \A j \in Nat : g[j] \in S PROVE w \in Seq(S)
  <2>1. \A i \in 1 .. k : g[s[i]] \in S
    BY <1>1, <1>7
  <2>2. w \in [1 .. k -> S]
    BY <1>2, <2>1
  <2> QED BY <1>1, <2>2
<1> QED BY <1>1, <1>4, <1>5, <1>6, <1>7 DEF a, w, k, s

-----------------------------------------------------------------------------
\* What proof joins.
ProofHashes(helpers) ==
  CHOOSE x : x = [d \in 0 .. Len(helpers) |->
    IF d = 0 THEN <<>> ELSE x[d - 1] \o [i \in DOMAIN helpers[d] |-> helpers[d][i][2]]]

ChunksOf(c, helpers, k, S) ==
  /\ k \in Nat /\ Len(helpers) = k
  /\ \A d \in 1 .. k : c[d] = [i \in DOMAIN helpers[d] |-> helpers[d][i][2]] /\ c[d] \in Seq(S)

\* proof, by the function that joins the hashes.
LEMMA ProofIs ==
  ASSUME NEW idx
  PROVE  Leafs!proof(idx)
           = ProofHashes(Leafs!helper_node_tuples(idx))[Len(Leafs!helper_node_tuples(idx))]
BY DEF Leafs!proof, ProofHashes

\* proof joins the hashes layer by layer.
LEMMA ProofJoined ==
  ASSUME NEW c, NEW helpers, NEW k, NEW S, ChunksOf(c, helpers, k, S)
  PROVE  Joined(c, k, S, ProofHashes(helpers))
<1> DEFINE V == Seq(S)
           g == [x \in Nat \X V |-> IF x[1] \in 1 .. k THEN x[2] \o c[x[1]] ELSE x[2]]
           H == ProofHashes(helpers)
<1>0. k \in Nat /\ \A d \in 1 .. k : c[d] \in V
  BY DEF ChunksOf
<1>1. <<>> \in V /\ g \in [Nat \X V -> V]
  <2>1. ASSUME NEW x \in Nat \X V
        PROVE  (IF x[1] \in 1 .. k THEN x[2] \o c[x[1]] ELSE x[2]) \in V
    <3>1. x[2] \in V
      OBVIOUS
    <3> QED BY <1>0, <3>1
  <2> QED BY <2>1
<1>2. \A d \in 1 .. k : \A y \in V : g[<<d, y>>] = y \o c[d]
  <2> TAKE d \in 1 .. k
  <2> TAKE y \in V
  <2>1. <<d, y>> \in Nat \X V /\ <<d, y>>[1] = d /\ <<d, y>>[2] = y
    OBVIOUS
  <2> QED BY <2>1
<1> HIDE DEF V, g
<1>3. PICK f : Made(V, <<>>, k, g, f)
  <2>1. Makeable(V, <<>>, k, g)
    BY <1>0, <1>1 DEF Makeable
  <2> QED BY <2>1, MadeInSteps
<1>3a. f \in [0 .. k -> V] /\ f[0] = <<>> /\ \A d \in 1 .. k : f[d] = g[<<d, f[d - 1]>>]
  BY <1>3 DEF Made
<1>4. \A d \in 1 .. k : f[d] = f[d - 1] \o c[d]
  <2> TAKE d \in 1 .. k
  <2>1. d - 1 \in 0 .. k
    BY <1>0
  <2> QED BY <1>2, <1>3a, <2>1
<1> DEFINE chunk(d) == [i \in DOMAIN helpers[d] |-> helpers[d][i][2]]
           made(x, d) == IF d = 0 THEN <<>> ELSE x[d - 1] \o chunk(d)
<1>5. \A d \in 1 .. k : chunk(d) = c[d]
  BY DEF ChunksOf
<1>6. \A d \in 0 .. k : f[d] = IF d = 0 THEN <<>> ELSE f[d - 1] \o c[d]
  <2> TAKE d \in 0 .. k
  <2>1. d = 0 \/ (d \in 1 .. k /\ d # 0)
    BY <1>0
  <2>2. CASE d = 0
    BY <1>3a, <2>2
  <2>3. CASE d \in 1 .. k /\ d # 0
    BY <1>4, <2>3
  <2> QED BY <2>1, <2>2, <2>3
<1> HIDE DEF chunk
<1>7. \A d \in 0 .. k : f[d] = made(f, d)
  <2> TAKE d \in 0 .. k
  <2>1. d = 0 \/ d \in 1 .. k
    BY <1>0
  <2> QED BY <1>5, <1>6, <2>1
<1>8. f = [d \in 0 .. k |-> f[d]]
  BY <1>3a
<1>9. f = [d \in 0 .. k |-> IF d = 0 THEN <<>> ELSE f[d - 1] \o chunk(d)]
  BY <1>7, <1>8
<1>10. H = [d \in 0 .. k |-> IF d = 0 THEN <<>> ELSE H[d - 1] \o chunk(d)]
  <2>1. Len(helpers) = k
    BY DEF ChunksOf
  <2>2. H = CHOOSE x : x = [d \in 0 .. k |-> IF d = 0 THEN <<>> ELSE x[d - 1] \o chunk(d)]
    BY <2>1 DEF ProofHashes, chunk
  <2> HIDE DEF H
  <2> QED BY <1>9, <2>2
<1> HIDE DEF H
<1>11. H[0] = <<>> /\ \A d \in 1 .. k : H[d] = H[d - 1] \o c[d]
  <2>1. \A d \in 0 .. k : H[d] = IF d = 0 THEN <<>> ELSE H[d - 1] \o chunk(d)
    BY <1>10
  <2>2. 0 \in 0 .. k /\ \A d \in 1 .. k : d \in 0 .. k /\ d # 0
    BY <1>0
  <2> QED BY <1>5, <2>1, <2>2
<1> DEFINE G == {d \in Nat : d <= k => H[d] \in V}
<1>12. 0 \in G
  BY <1>1, <1>11
<1>13. ASSUME NEW d \in Nat, d \in G PROVE d + 1 \in G
  <2>1. ASSUME d + 1 <= k PROVE H[d + 1] \in V
    <3>1. d + 1 \in 1 .. k /\ (d + 1) - 1 = d /\ d <= k
      BY <1>0, <2>1
    <3>2. H[d] \in V /\ c[d + 1] \in V /\ H[d + 1] = H[d] \o c[d + 1]
      BY <1>0, <1>11, <1>13, <3>1
    <3> QED BY <3>2 DEF V
  <2> QED BY <2>1
<1> HIDE DEF G
<1>14. Nat \subseteq G
  BY <1>12, <1>13, NumberInduction
<1>15. \A d \in 0 .. k : H[d] \in V
  BY <1>0, <1>14 DEF G
<1>16. H \in [0 .. k -> V]
  <2>1. H = [d \in 0 .. k |-> H[d]]
    BY <1>10
  <2> QED BY <1>15, <2>1
<1> QED BY <1>0, <1>11, <1>16 DEF Joined, V, H

-----------------------------------------------------------------------------
\* Where the verifier's dealing of the hashes ends for each layer.
Taken(indices) ==
  CHOOSE x : x = [d \in 0 .. Len(indices) |-> IF d = 0 THEN 0 ELSE x[d - 1] + Len(indices[d])]

DealtAt(hashes, indices, d) ==
  Leafs!Zip(indices[d], SubSeq(hashes, Taken(indices)[d - 1] + 1, Taken(indices)[d]))

GivenLayers(hashes, indices, idx, leaf_hashes) ==
  [d \in DOMAIN indices |->
     IF d = 1 THEN Leafs!Sorted(DealtAt(hashes, indices, 1) \o Leafs!Zip(idx, leaf_hashes))
     ELSE DealtAt(hashes, indices, d)]

\* The root that a verifier computes, by its steps.
LEMMA ProofRootIs ==
  ASSUME NEW hashes, NEW idx, NEW leaf_hashes, NEW len, NEW indices,
         indices = Leafs!proof_indices_by_layers(idx, len),
         NEW t, t = Leafs!build_tree(GivenLayers(hashes, indices, idx, leaf_hashes),
                                      Leafs!tree_depth(len))
  PROVE  Leafs!ProofRoot(hashes, idx, leaf_hashes, len)
           = IF Taken(indices)[Len(indices)] > Len(hashes) THEN Leafs!Panic
             ELSE IF t = Leafs!NotEnoughHelperNodes THEN t ELSE Leafs!root(t)
BY DEF Leafs!ProofRoot, GivenLayers, DealtAt, Taken

\* Numbers k of elements, one for each layer.
Counts(indices, l) == l \in Nat /\ Len(indices) = l /\ \A d \in 1 .. l : Len(indices[d]) \in Nat

\* The verifier counts the hashes it has dealt out.
LEMMA TakenEnds ==
  ASSUME NEW indices, NEW l, Counts(indices, l)
  PROVE  Ended(indices, l, Taken(indices))
<1> DEFINE g == [x \in Nat \X Nat |-> IF x[1] \in 1 .. l THEN x[2] + Len(indices[x[1]]) ELSE x[2]]
           T == Taken(indices)
<1>0. l \in Nat /\ \A d \in 1 .. l : Len(indices[d]) \in Nat
  BY DEF Counts
<1>1. g \in [Nat \X Nat -> Nat]
  <2>1. ASSUME NEW x \in Nat \X Nat
        PROVE  (IF x[1] \in 1 .. l THEN x[2] + Len(indices[x[1]]) ELSE x[2]) \in Nat
    <3>1. x[2] \in Nat
      OBVIOUS
    <3>2. CASE x[1] \in 1 .. l
      <4>1. Len(indices[x[1]]) \in Nat
        BY <1>0, <3>2
      <4> QED BY <3>1, <3>2, <4>1
    <3>3. CASE x[1] \notin 1 .. l
      BY <3>1, <3>3
    <3> QED BY <3>2, <3>3
  <2> QED BY <2>1
<1>2. \A d \in 1 .. l : \A y \in Nat : g[<<d, y>>] = y + Len(indices[d])
  <2> TAKE d \in 1 .. l
  <2> TAKE y \in Nat
  <2>1. <<d, y>> \in Nat \X Nat /\ <<d, y>>[1] = d /\ <<d, y>>[2] = y
    BY <1>0
  <2> QED BY <2>1
<1> HIDE DEF g
<1>3. PICK f : Made(Nat, 0, l, g, f)
  <2>1. Makeable(Nat, 0, l, g)
    BY <1>0, <1>1 DEF Makeable
  <2> QED BY <2>1, MadeInSteps
<1>4. f \in [0 .. l -> Nat] /\ f[0] = 0 /\ \A d \in 1 .. l : f[d] = g[<<d, f[d - 1]>>]
  BY <1>3 DEF Made
<1>5. \A d \in 1 .. l : f[d] = f[d - 1] + Len(indices[d])
  <2> TAKE d \in 1 .. l
  <2>1. d - 1 \in 0 .. l
    BY <1>0
  <2> QED BY <1>2, <1>4, <2>1
<1> DEFINE len(d) == Len(indices[d])
<1>6. \A d \in 0 .. l : f[d] = IF d = 0 THEN 0 ELSE f[d - 1] + len(d)
  <2> TAKE d \in 0 .. l
  <2>1. d = 0 \/ (d \in 1 .. l /\ d # 0)
    BY <1>0
  <2>2. CASE d = 0
    BY <1>4, <2>2
  <2>3. CASE d \in 1 .. l /\ d # 0
    BY <1>5, <2>3
  <2> QED BY <2>1, <2>2, <2>3
<1>7. f = [d \in 0 .. l |-> f[d]]
  BY <1>4
<1> HIDE DEF len
<1>8. f = [d \in 0 .. l |-> IF d = 0 THEN 0 ELSE f[d - 1] + len(d)]
  BY <1>6, <1>7
<1>9. T = [d \in 0 .. l |-> IF d = 0 THEN 0 ELSE T[d - 1] + len(d)]
  <2>1. Len(indices) = l
    BY DEF Counts
  <2>2. T = CHOOSE x : x = [d \in 0 .. l |-> IF d = 0 THEN 0 ELSE x[d - 1] + len(d)]
    BY <2>1 DEF Taken, len
  <2> HIDE DEF T
  <2> QED BY <1>8, <2>2
<1> HIDE DEF T
<1>10. T[0] = 0 /\ \A d \in 1 .. l : T[d] = T[d - 1] + Len(indices[d])
  <2>1. \A d \in 0 .. l : T[d] = IF d = 0 THEN 0 ELSE T[d - 1] + len(d)
    BY <1>9
  <2>2. 0 \in 0 .. l /\ \A d \in 1 .. l : d \in 0 .. l /\ d # 0
    BY <1>0
  <2> QED BY <2>1, <2>2 DEF len
<1> DEFINE G == {d \in Nat : d <= l => T[d] \in Nat}
<1>11. 0 \in G
  BY <1>10
<1>12. ASSUME NEW d \in Nat, d \in G PROVE d + 1 \in G
  <2>1. ASSUME d + 1 <= l PROVE T[d + 1] \in Nat
    <3>1. d + 1 \in 1 .. l /\ (d + 1) - 1 = d /\ d <= l
      BY <1>0, <2>1
    <3>2. T[d] \in Nat /\ Len(indices[d + 1]) \in Nat /\ T[d + 1] = T[d] + Len(indices[d + 1])
      BY <1>0, <1>10, <1>12, <3>1
    <3> QED BY <3>2
  <2> QED BY <2>1
<1> HIDE DEF G
<1>13. Nat \subseteq G
  BY <1>11, <1>12, NumberInduction
<1>14. T \in [0 .. l -> Nat]
  <2>1. T = [d \in 0 .. l |-> T[d]]
    BY <1>9
  <2>2. \A d \in 0 .. l : T[d] \in Nat
    BY <1>0, <1>13 DEF G
  <2> QED BY <2>1, <2>2
<1> QED BY <1>0, <1>10, <1>14 DEF Ended, T

-----------------------------------------------------------------------------
\* The indices of the hashes that the verifier deals out to each layer.
LEMMA ProofIndices ==
  ASSUME NEW n \in Nat \ {0}, Leafs!tree_depth(n) \in Nat, NEW I \in SUBSET (0 .. n - 1), I # {}
  PROVE  Leafs!proof_indices_by_layers(Leafs!Ascending(I), n)
           = [d \in 1 .. Leafs!tree_depth(n) |-> Leafs!Ascending(RestAt(I, n - 1, d - 1))]
<1> DEFINE depth == Leafs!tree_depth(n)
           z == n - 1
           idx == Leafs!Ascending(I)
           sizes == Leafs!LayerSizes(n)
           current == Leafs!LayerIndices(idx, depth)
<1>1. z \in Nat /\ I \in SUBSET (0 .. z) /\ I \in SUBSET Nat /\ IsFiniteSet(I) /\ depth \in Nat
  <2>1. z \in Nat
    OBVIOUS
  <2>2. IsFiniteSet(0 .. z)
    <3>1. 0 \in Int /\ z \in Int
      BY <2>1
    <3> QED BY <3>1, FS_Interval
  <2>3. IsFiniteSet(I)
    BY <2>2, FS_Subset
  <2>4. I \in SUBSET Nat
    BY <2>1
  <2> QED BY <2>1, <2>3, <2>4
<1>2. Leafs!proof_indices_by_layers(idx, n)
        = [d \in 1 .. depth |->
             Leafs!difference(NeededOf(current[d - 1], sizes[d - 1]), current[d - 1])]
  BY DEF Leafs!proof_indices_by_layers, NeededOf
<1>3. \A d \in 0 .. depth : sizes[d] = Halves(z)[d] + 1
  BY <1>1, SizesAre
<1>4. \A d \in 0 .. depth : current[d] = Leafs!Ascending(Above(I)[d])
  BY <1>1, LayerIndicesAre
<1> HIDE DEF depth, sizes, current, z, idx
<1>5. ASSUME NEW d \in 1 .. depth
      PROVE  Leafs!difference(NeededOf(current[d - 1], sizes[d - 1]), current[d - 1])
               = Leafs!Ascending(RestAt(I, z, d - 1))
  <2> DEFINE e == d - 1
             A == Above(I)[e]
             y == Halves(z)[e]
             B == RestAt(I, z, e)
  <2>1. e \in Nat /\ e \in 0 .. depth
    BY <1>1
  <2>2. sizes[e] = y + 1 /\ current[e] = Leafs!Ascending(A)
    BY <1>3, <1>4, <2>1
  <2>3. AboveAt(I, z, e) /\ RestOf(I, z, e)
    BY <1>1, <2>1, AboveThere, RestThere
  <2>4. y \in Nat /\ A \in SUBSET (0 .. y) /\ A # {} /\ IsFiniteSet(A)
        /\ B = (Siblings(A) \ A) \cap (0 .. y)
    BY <2>3 DEF AboveAt, RestOf
  <2> HIDE DEF A, y, B
  <2>5. Leafs!difference(NeededOf(Leafs!Ascending(A), y + 1), Leafs!Ascending(A)) = Leafs!Ascending(B)
    BY ONLY <2>4, NeededLayer
  <2> QED BY <2>2, <2>5 DEF B
<1>6. Leafs!proof_indices_by_layers(idx, n) = [d \in 1 .. depth |-> Leafs!Ascending(RestAt(I, z, d - 1))]
  BY <1>2, <1>5
<1> QED BY <1>6 DEF idx, depth, z

-----------------------------------------------------------------------------
\* A proof of the leaves I of the tree of s.
Proving(s, I, z, depth) ==
  /\ HasTree(s) /\ s # <<>> /\ Len(s) \in Nat \ {0} /\ z = Len(s) - 1 /\ z \in Nat
  /\ depth = Leafs!tree_depth(Len(s)) /\ depth \in Nat \ {0} /\ Halves(z)[depth] = 0
  /\ I \in SUBSET (0 .. z) /\ I # {} /\ I \in SUBSET Nat /\ IsFiniteSet(I)

\* The hashes that the proof has for each layer.
ProofChunk(s, I, z, d) == HashesOf(RestAt(I, z, d - 1), Level(z, Base(s))[d - 1])
NodeHashes(s, z) == {Level(z, Base(s))[e][j] : e \in Nat, j \in Nat}

\* The part of a proof for one layer.
LEMMA ChunkIs ==
  ASSUME NEW s, NEW I, NEW z, NEW depth, Proving(s, I, z, depth), NEW d \in Nat \ {0}
  PROVE  /\ ProofChunk(s, I, z, d) \in Seq(NodeHashes(s, z))
         /\ Len(ProofChunk(s, I, z, d)) = Len(Leafs!Ascending(RestAt(I, z, d - 1)))
         /\ Len(ProofChunk(s, I, z, d)) \in Nat
         /\ Leafs!Zip(Leafs!Ascending(RestAt(I, z, d - 1)), ProofChunk(s, I, z, d))
              = LayerOf(RestAt(I, z, d - 1), Level(z, Base(s))[d - 1])
         /\ [i \in DOMAIN LayerOf(RestAt(I, z, d - 1), Level(z, Base(s))[d - 1]) |->
               LayerOf(RestAt(I, z, d - 1), Level(z, Base(s))[d - 1])[i][2]]
              = ProofChunk(s, I, z, d)
<1> DEFINE e == d - 1
           B == RestAt(I, z, e)
           g == Level(z, Base(s))[e]
           S == NodeHashes(s, z)
<1>1. e \in Nat
  OBVIOUS
<1>2. RestOf(I, z, e)
  BY <1>1, RestThere DEF Proving
<1>3. B \in SUBSET Nat /\ IsFiniteSet(B)
  BY <1>2 DEF RestOf
<1>4. \A j \in Nat : g[j] \in S
  BY <1>1 DEF NodeHashes
<1>5. ProofChunk(s, I, z, d) = HashesOf(B, g)
  BY DEF ProofChunk
<1> HIDE DEF B, g, S
<1>6. /\ Leafs!Zip(Leafs!Ascending(B), HashesOf(B, g)) = LayerOf(B, g)
      /\ [i \in DOMAIN LayerOf(B, g) |-> LayerOf(B, g)[i][2]] = HashesOf(B, g)
      /\ Len(HashesOf(B, g)) = Len(Leafs!Ascending(B)) /\ Len(HashesOf(B, g)) \in Nat
      /\ HashesOf(B, g) \in Seq(S)
  BY ONLY <1>3, <1>4, ZippedLayer
<1> QED BY <1>5, <1>6 DEF B, g, S

\* The chunks are what proof joins.
LEMMA ProofChunks ==
  ASSUME NEW s, NEW I, NEW z, NEW depth, Proving(s, I, z, depth),
         NEW c, c = [d \in 1 .. depth + 1 |-> ProofChunk(s, I, z, d)]
  PROVE  ChunksOf(c, Leafs!helper_node_tuples(Leafs!Ascending(I)), depth + 1, NodeHashes(s, z))
<1> DEFINE x == current_working_tree
           helpers == Leafs!helper_node_tuples(Leafs!Ascending(I))
           k == depth + 1
           S == NodeHashes(s, z)
<1>1. k \in Nat /\ depth \in Nat
  BY DEF Proving
<1>2. DOMAIN x = 1 .. k
  BY TreeShape DEF Proving
<1>3. helpers = [d \in DOMAIN x |-> HelpersOf(x[d], Leafs!Ascending(Above(I)[d - 1]))]
  BY TreeHelpers DEF Proving
<1>4. helpers = [d \in 1 .. k |-> HelpersOf(x[d], Leafs!Ascending(Above(I)[d - 1]))]
  BY <1>2, <1>3
<1> HIDE DEF helpers, k, S
<1>5. Len(helpers) = k
  BY <1>1, <1>4
<1>6. ASSUME NEW d \in 1 .. k
      PROVE  c[d] = [i \in DOMAIN helpers[d] |-> helpers[d][i][2]] /\ c[d] \in Seq(S)
  <2> DEFINE e == d - 1
             A == Above(I)[e]
             y == Halves(z)[e]
             B == RestAt(I, z, e)
             g == Level(z, Base(s))[e]
  <2>1. e \in Nat /\ d \in Nat \ {0} /\ e + 1 = d
    BY <1>1
  <2>2. x[d] = LayerOf(0 .. y, g)
    <3>1. \A i \in Nat : i + 1 \in DOMAIN x
            => x[i + 1] = LayerOf(0 .. Halves(Len(s) - 1)[i], Level(Len(s) - 1, Base(s))[i])
      BY TreeShape DEF Proving
    <3>2. e + 1 \in DOMAIN x
      BY <1>2, <2>1
    <3>3. x[e + 1] = LayerOf(0 .. Halves(Len(s) - 1)[e], Level(Len(s) - 1, Base(s))[e])
      BY <2>1, <3>1, <3>2
    <3>4. z = Len(s) - 1
      BY DEF Proving
    <3> QED BY <2>1, <3>3, <3>4
  <2>3. AboveAt(I, z, e) /\ RestOf(I, z, e)
    BY <2>1, AboveThere, RestThere DEF Proving
  <2>4. y \in Nat /\ A \in SUBSET Nat /\ IsFiniteSet(A) /\ B = (Siblings(A) \ A) \cap (0 .. y)
    BY <2>3 DEF AboveAt, RestOf
  <2> HIDE DEF A, y, B, g, x
  <2>5. HelpersOf(x[d], Leafs!Ascending(A)) = LayerOf((Siblings(A) \ A) \cap (0 .. y), g)
    BY <2>2, <2>4, HelperLayer
  <2>6. helpers[d] = LayerOf(B, g)
    BY <1>4, <2>4, <2>5 DEF A
  <2>7. c[d] = ProofChunk(s, I, z, d)
    BY DEF k
  <2>8. ProofChunk(s, I, z, d) \in Seq(S)
        /\ [i \in DOMAIN LayerOf(B, g) |-> LayerOf(B, g)[i][2]] = ProofChunk(s, I, z, d)
    BY <2>1, ChunkIs DEF B, g, S
  <2> QED BY <2>6, <2>7, <2>8
<1> QED BY <1>1, <1>5, <1>6 DEF ChunksOf, helpers, k, S

-----------------------------------------------------------------------------
\* The indices of the layers dealt out.
RestLists(I, z, depth) == [d \in 1 .. depth |-> Leafs!Ascending(RestAt(I, z, d - 1))]

\* The verifier deals out to each layer the hashes that the proof took from it.
LEMMA DealtLayers ==
  ASSUME NEW s, NEW I, NEW z, NEW depth, Proving(s, I, z, depth),
         NEW hashes, hashes = Leafs!proof(Leafs!Ascending(I)),
         NEW indices, indices = RestLists(I, z, depth)
  PROVE  /\ Len(indices) = depth /\ DOMAIN indices = 1 .. depth
         /\ ~(Taken(indices)[Len(indices)] > Len(hashes))
         /\ \A d \in 1 .. depth : DealtAt(hashes, indices, d)
                                    = LayerOf(RestAt(I, z, d - 1), Level(z, Base(s))[d - 1])
<1> DEFINE helpers == Leafs!helper_node_tuples(Leafs!Ascending(I))
           k == depth + 1
           S == NodeHashes(s, z)
           c == [d \in 1 .. k |-> ProofChunk(s, I, z, d)]
           H == ProofHashes(helpers)
           T == Taken(indices)
<1>1. depth \in Nat \ {0} /\ depth \in Nat /\ k \in Nat /\ depth <= k
  BY DEF Proving
<1>2. ChunksOf(c, helpers, k, S)
  BY ProofChunks
<1>3. \A d \in 1 .. k : c[d] = ProofChunk(s, I, z, d)
  OBVIOUS
<1> HIDE DEF c, helpers, S, k
<1>4. Joined(c, k, S, H)
  BY <1>2, ProofJoined
<1>5. hashes = H[k]
  <2>1. Len(helpers) = k
    BY <1>2 DEF ChunksOf
  <2>2. Leafs!proof(Leafs!Ascending(I)) = ProofHashes(helpers)[Len(helpers)]
    BY ProofIs DEF helpers
  <2> QED BY <2>1, <2>2
<1> HIDE DEF H
<1>6. Len(indices) = depth /\ DOMAIN indices = 1 .. depth
      /\ \A d \in 1 .. depth : indices[d] = Leafs!Ascending(RestAt(I, z, d - 1))
  BY <1>1 DEF RestLists
<1>7. \A d \in 1 .. depth : /\ d \in 1 .. k /\ c[d] = ProofChunk(s, I, z, d)
                            /\ Len(c[d]) = Len(indices[d]) /\ Len(c[d]) \in Nat
                            /\ Leafs!Zip(indices[d], c[d])
                                 = LayerOf(RestAt(I, z, d - 1), Level(z, Base(s))[d - 1])
  <2> TAKE d \in 1 .. depth
  <2>1. d \in Nat \ {0} /\ d \in 1 .. k
    BY <1>1
  <2>2. /\ Len(ProofChunk(s, I, z, d)) = Len(Leafs!Ascending(RestAt(I, z, d - 1)))
        /\ Len(ProofChunk(s, I, z, d)) \in Nat
        /\ Leafs!Zip(Leafs!Ascending(RestAt(I, z, d - 1)), ProofChunk(s, I, z, d))
             = LayerOf(RestAt(I, z, d - 1), Level(z, Base(s))[d - 1])
    BY <2>1, ChunkIs
  <2> QED BY <1>3, <1>6, <2>1, <2>2
<1>8. Ended(c, depth, T)
  <2>1. Counts(indices, depth)
    BY <1>1, <1>6, <1>7 DEF Counts
  <2>2. Ended(indices, depth, T)
    BY <2>1, TakenEnds
  <2> HIDE DEF T
  <2> QED BY <1>7, <2>2 DEF Ended
<1>9. T[depth] <= Len(hashes) /\ \A e \in 1 .. depth : SubSeq(hashes, T[e - 1] + 1, T[e]) = c[e]
  BY <1>1, <1>4, <1>5, <1>8, DealtOut
<1>10. \A d \in 1 .. depth : DealtAt(hashes, indices, d)
                                = LayerOf(RestAt(I, z, d - 1), Level(z, Base(s))[d - 1])
  BY <1>7, <1>9 DEF DealtAt
<1>11. ~(T[depth] > Len(hashes))
  <2>1. T[depth] \in Nat
    <3>1. T \in [0 .. depth -> Nat] /\ depth \in 0 .. depth
      BY <1>1, <1>8 DEF Ended
    <3> HIDE DEF T
    <3> QED BY <3>1
  <2>2. Len(hashes) \in Nat
    <3>1. H \in [0 .. k -> Seq(S)] /\ k \in 0 .. k
      BY <1>1, <1>4 DEF Joined
    <3>2. hashes \in Seq(S)
      BY <1>5, <3>1
    <3> QED BY <3>2
  <2> DEFINE a == T[depth]
             b == Len(hashes)
  <2>3. a \in Nat /\ b \in Nat /\ a <= b
    BY <1>9, <2>1, <2>2
  <2> HIDE DEF a, b
  <2>4. ~(a > b)
    BY <2>3
  <2> QED BY <2>4 DEF a, b
<1> QED BY <1>6, <1>10, <1>11

-----------------------------------------------------------------------------
\* What the verifier builds its partial tree from, when it is given the leaves
\* g at the places I.
LEMMA VerifierCovers ==
  ASSUME NEW s, NEW I, NEW z, NEW depth, Proving(s, I, z, depth),
         NEW hashes, hashes = Leafs!proof(Leafs!Ascending(I)),
         NEW indices, indices = RestLists(I, z, depth),
         NEW g, \A i \in Nat \ I : g[i] = Base(s)[i]
  PROVE  Covers(GivenLayers(hashes, indices, Leafs!Ascending(I), HashesOf(I, g)), I, z, g, depth)
<1> DEFINE p == GivenLayers(hashes, indices, Leafs!Ascending(I), HashesOf(I, g))
           h == Base(s)
<1>1. depth \in Nat \ {0} /\ depth \in Nat /\ z \in Nat /\ I \in SUBSET (0 .. z) /\ I # {}
      /\ I \in SUBSET Nat /\ IsFiniteSet(I)
  BY DEF Proving
<1>2. DOMAIN indices = 1 .. depth
      /\ \A d \in 1 .. depth : DealtAt(hashes, indices, d)
                                 = LayerOf(RestAt(I, z, d - 1), Level(z, h)[d - 1])
  BY DealtLayers
<1>3. DOMAIN p = 1 .. depth
      /\ \A d \in 1 .. depth : p[d] = IF d = 1
           THEN Leafs!Sorted(DealtAt(hashes, indices, 1) \o Leafs!Zip(Leafs!Ascending(I), HashesOf(I, g)))
           ELSE DealtAt(hashes, indices, d)
  BY <1>2 DEF GivenLayers
<1> HIDE DEF p, h
<1>4. \A e \in Nat : /\ RestOf(I, z, e)
                     /\ LayerOf(RestAt(I, z, e), Level(z, h)[e]) = LayerOf(RestAt(I, z, e), Level(z, g)[e])
  <2> TAKE e \in Nat
  <2> DEFINE B == RestAt(I, z, e)
             x == Level(z, h)[e]
             y == Level(z, g)[e]
  <2>1. RestOf(I, z, e)
    BY <1>1, RestThere
  <2>2. B \in SUBSET Nat /\ IsFiniteSet(B) /\ B \cap Above(I)[e] = {}
    BY <2>1 DEF RestOf
  <2>3. \A i \in Nat \ I : h[i] = g[i]
    BY DEF h
  <2>4. \A j \in Nat \ Above(I)[e] : x[j] = y[j]
    BY <1>1, <2>3, LevelsOutside
  <2>5. \A j \in B : x[j] = y[j]
    BY <2>2, <2>4
  <2> HIDE DEF B, x, y
  <2>6. LayerOf(B, x) = LayerOf(B, y)
    BY ONLY <2>2, <2>5, SameLayer
  <2> QED BY <2>1, <2>6 DEF B, x, y
<1>5. Leafs!Sorted(GivenAt(p, 0)) = LayerOf(Kids(Above(I)[1], z), g)
  <2> DEFINE B == RestAt(I, z, 0)
             K == Kids(Above(I)[1], z)
  <2>1. AboveAt(I, z, 0) /\ RestOf(I, z, 0)
    BY <1>1, <1>4, AboveThere
  <2>2. B \in SUBSET Nat /\ IsFiniteSet(B) /\ B \cap I = {} /\ B \cup I = K
        /\ K \in SUBSET Nat /\ IsFiniteSet(K)
    <3>1. Above(I)[0] = I /\ Halves(z)[0] = z /\ 0 + 1 = 1
      BY <2>1 DEF AboveAt
    <3>2. B \in SUBSET Nat /\ IsFiniteSet(B) /\ B \cap Above(I)[0] = {}
          /\ B \cup Above(I)[0] = Kids(Above(I)[0 + 1], Halves(z)[0])
      BY <2>1 DEF RestOf
    <3>3. Kids(Above(I)[0 + 1], Halves(z)[0]) \in SUBSET Nat
          /\ IsFiniteSet(Kids(Above(I)[0 + 1], Halves(z)[0]))
      BY <2>1 DEF AboveAt
    <3> HIDE DEF B
    <3> QED BY <3>1, <3>2, <3>3
  <2>3. DealtAt(hashes, indices, 1) = LayerOf(B, g)
    <3>1. 1 \in 1 .. depth /\ 1 - 1 = 0 /\ 0 \in Nat
      BY <1>1
    <3>2. DealtAt(hashes, indices, 1) = LayerOf(B, Level(z, h)[0])
      BY <1>2, <3>1
    <3>3. LayerOf(B, Level(z, h)[0]) = LayerOf(B, Level(z, g)[0])
      BY <1>4, <3>1
    <3>4. Level(z, g)[0] = g
      BY LevelStep
    <3> QED BY <3>2, <3>3, <3>4
  <2>4. Leafs!Zip(Leafs!Ascending(I), HashesOf(I, g)) = LayerOf(I, g)
    BY <1>1, ZippedLayer
  <2>5. GivenAt(p, 0) = Leafs!Sorted(LayerOf(B, g) \o LayerOf(I, g))
    <3>1. 1 \in 1 .. depth /\ 0 + 1 = 1
      BY <1>1
    <3>2. p[1] = Leafs!Sorted(DealtAt(hashes, indices, 1) \o Leafs!Zip(Leafs!Ascending(I), HashesOf(I, g)))
      BY <1>3, <3>1
    <3> QED BY <1>3, <2>3, <2>4, <3>1, <3>2 DEF GivenAt
  <2> HIDE DEF B, K
  <2>6. Leafs!Sorted(LayerOf(B, g) \o LayerOf(I, g)) = LayerOf(B \cup I, g)
    BY <1>1, <2>2, SortedUnion
  <2>7. Leafs!Sorted(LayerOf(K, g)) = LayerOf(K, g)
    BY <2>2, SortedAlready
  <2> QED BY <2>2, <2>5, <2>6, <2>7 DEF K
<1>6. \A e \in 1 .. depth - 1 :
        GivenAt(p, e) = LayerOf(Kids(Above(I)[e + 1], Halves(z)[e]) \ Above(I)[e], Level(z, g)[e])
  <2> TAKE e \in 1 .. depth - 1
  <2>1. e \in Nat /\ e + 1 \in 1 .. depth /\ e + 1 # 1 /\ (e + 1) - 1 = e
    BY <1>1
  <2>2. GivenAt(p, e) = DealtAt(hashes, indices, e + 1)
    BY <1>3, <2>1 DEF GivenAt
  <2>3. DealtAt(hashes, indices, e + 1) = LayerOf(RestAt(I, z, e), Level(z, h)[e])
    BY <1>2, <2>1
  <2> QED BY <1>4, <2>1, <2>2, <2>3 DEF RestAt
<1> QED BY <1>1, <1>5, <1>6 DEF Covers, p

\* The root that the verifier computes.
LEMMA VerifierRoot ==
  ASSUME NEW s, NEW I, NEW z, NEW depth, Proving(s, I, z, depth),
         NEW g, \A i \in Nat \ I : g[i] = Base(s)[i]
  PROVE  Leafs!ProofRoot(Leafs!proof(Leafs!Ascending(I)), Leafs!Ascending(I), HashesOf(I, g), Len(s))
           = Level(z, g)[depth][0]
<1> DEFINE hashes == Leafs!proof(Leafs!Ascending(I))
           indices == RestLists(I, z, depth)
           idx == Leafs!Ascending(I)
           lh == HashesOf(I, g)
           n == Len(s)
           p == GivenLayers(hashes, indices, idx, lh)
           t == Leafs!build_tree(p, Leafs!tree_depth(n))
<1>1. /\ depth = Leafs!tree_depth(n) /\ depth \in Nat /\ n \in Nat \ {0} /\ z = n - 1 /\ z \in Nat
      /\ Halves(z)[depth] = 0 /\ I \in SUBSET (0 .. z) /\ I # {}
  BY DEF Proving
<1>2. Leafs!proof_indices_by_layers(idx, n) = indices
  <2> HIDE DEF n
  <2>1. Leafs!proof_indices_by_layers(idx, n)
          = [d \in 1 .. Leafs!tree_depth(n) |-> Leafs!Ascending(RestAt(I, n - 1, d - 1))]
    BY <1>1, ProofIndices
  <2> QED BY <1>1, <2>1 DEF RestLists
<1>3. ~(Taken(indices)[Len(indices)] > Len(hashes))
  BY DealtLayers
<1>4. Covers(p, I, z, g, depth)
  BY VerifierCovers
<1> HIDE DEF p
<1>5. Leafs!build_tree(p, depth) = PartTree(I, z, g, depth)
  BY <1>4, BuiltTree
<1>6. Leafs!root(PartTree(I, z, g, depth)) = Level(z, g)[depth][0] /\ PartTree(I, z, g, depth) # <<>>
  BY <1>1, PartRoot
<1>7. t = PartTree(I, z, g, depth)
  BY <1>1, <1>5
<1> HIDE DEF t, n, hashes, indices, idx, lh
<1>8. Leafs!ProofRoot(hashes, idx, lh, n)
        = IF Taken(indices)[Len(indices)] > Len(hashes) THEN Leafs!Panic
          ELSE IF t = Leafs!NotEnoughHelperNodes THEN t ELSE Leafs!root(t)
  BY <1>2, ProofRootIs DEF t, p
<1>9. Leafs!ProofRoot(hashes, idx, lh, n) = Level(z, g)[depth][0]
  BY <1>3, <1>6, <1>7, <1>8 DEF Leafs!NotEnoughHelperNodes
<1> QED BY <1>9 DEF hashes, idx, lh, n

-----------------------------------------------------------------------------
\* Whatever the leaves, the tree proves them, and no other leaf in their place.
LEMMA ProvenLeaves ==
  ASSUME NEW s, NEW I, NEW z, NEW depth, Proving(s, I, z, depth)
  PROVE  /\ [i \in DOMAIN Leafs!Ascending(I) |-> s[Leafs!Ascending(I)[i] + 1]] = HashesOf(I, Base(s))
         /\ Leafs!ProofRoot(Leafs!proof(Leafs!Ascending(I)), Leafs!Ascending(I),
                            HashesOf(I, Base(s)), Len(s)) = RootOf(s, depth)
         /\ \A i \in DOMAIN HashesOf(I, Base(s)) : \A other :
              other # HashesOf(I, Base(s))[i]
                => Leafs!ProofRoot(Leafs!proof(Leafs!Ascending(I)), Leafs!Ascending(I),
                                   [HashesOf(I, Base(s)) EXCEPT ![i] = other], Len(s))
                     # RootOf(s, depth)
<1> DEFINE idx == Leafs!Ascending(I)
           h == Base(s)
           hs == HashesOf(I, h)
           k == Len(idx)
           Root(l) == Leafs!ProofRoot(Leafs!proof(idx), idx, l, Len(s))
<1>1. /\ z \in Nat /\ I \in SUBSET Nat /\ IsFiniteSet(I) /\ I \in SUBSET (0 .. z)
      /\ depth \in Nat /\ Halves(z)[depth] = 0 /\ z = Len(s) - 1
  BY DEF Proving
<1>2. k \in Nat /\ DOMAIN idx = 1 .. k /\ \A i \in 1 .. k : idx[i] \in I /\ idx[i] \in Nat
  BY <1>1, ListMembers
<1>3. \A i, j \in 1 .. k : idx[i] = idx[j] => i = j
  <2>1. \A i, j \in 1 .. k : i < j => idx[i] < idx[j]
    BY <1>1, ListMembers
  <2> SUFFICES ASSUME NEW i \in 1 .. k, NEW j \in 1 .. k, idx[i] = idx[j], i # j PROVE FALSE
    OBVIOUS
  <2>2. i < j \/ j < i
    BY <1>2
  <2>3. idx[i] < idx[j] \/ idx[j] < idx[i]
    BY <2>1, <2>2
  <2> QED BY <1>2, <2>3
<1>4. [i \in DOMAIN idx |-> s[idx[i] + 1]] = hs
  <2>1. \A i \in DOMAIN idx : h[idx[i]] = s[idx[i] + 1]
    BY <1>2 DEF Base
  <2> QED BY <2>1 DEF HashesOf
<1>5. \A f : hs = [i \in DOMAIN idx |-> h[idx[i]]] /\ HashesOf(I, f) = [i \in DOMAIN idx |-> f[idx[i]]]
  BY DEF HashesOf
<1>6. DOMAIN hs = 1 .. k /\ \A i \in 1 .. k : hs[i] = h[idx[i]]
  BY <1>2, <1>5
<1>7. Level(z, h)[depth][0] = RootOf(s, depth)
  BY <1>1 DEF RootOf
<1>8. Root(hs) = RootOf(s, depth)
  <2>1. Root(HashesOf(I, h)) = Level(z, h)[depth][0]
    <3>1. \A i \in Nat \ I : h[i] = Base(s)[i]
      OBVIOUS
    <3> HIDE DEF h
    <3> QED BY <3>1, VerifierRoot
  <2> QED BY <1>7, <2>1
<1>9. h = [i \in Nat |-> h[i]]
  BY DEF Base
<1> HIDE DEF idx, hs, k
<1>10. ASSUME NEW i \in DOMAIN hs, NEW other, other # hs[i]
       PROVE  Root([hs EXCEPT ![i] = other]) # RootOf(s, depth)
  <2> DEFINE x == idx[i]
             g == [j \in Nat |-> IF j = x THEN other ELSE h[j]]
  <2>1. i \in 1 .. k /\ x \in I /\ x \in Nat /\ x \in 0 .. z /\ hs[i] = h[x]
    BY <1>1, <1>2, <1>6, <1>10
  <2>2. g[x] = other /\ \A j \in Nat : j # x => g[j] = h[j]
    BY <2>1
  <2> HIDE DEF g
  <2>3. \A j \in Nat \ I : g[j] = Base(s)[j]
    BY <2>1, <2>2
  <2>4. HashesOf(I, g) = [hs EXCEPT ![i] = other]
    <3>1. \A j \in 1 .. k : g[idx[j]] = IF j = i THEN other ELSE hs[j]
      <4> TAKE j \in 1 .. k
      <4>1. CASE j = i
        BY <2>2, <4>1
      <4>2. CASE j # i
        <5>1. idx[j] # x /\ idx[j] \in Nat
          BY <1>2, <1>3, <2>1, <4>2
        <5> QED BY <1>6, <2>2, <4>2, <5>1
      <4> QED BY <4>1, <4>2
    <3>2. HashesOf(I, g) = [j \in 1 .. k |-> g[idx[j]]]
      BY <1>2, <1>5
    <3>3. [hs EXCEPT ![i] = other] = [j \in 1 .. k |-> IF j = i THEN other ELSE hs[j]]
      <4>1. hs = [j \in 1 .. k |-> hs[j]]
        BY <1>2, <1>5
      <4> QED BY <2>1, <4>1
    <3> QED BY <3>1, <3>2, <3>3
  <2>5. Root(HashesOf(I, g)) = Level(z, g)[depth][0]
    BY <2>3, VerifierRoot DEF idx
  <2>6. SUFFICES ASSUME Level(z, g)[depth][0] = Level(z, h)[depth][0] PROVE FALSE
    BY <1>7, <2>4, <2>5
  <2>7. \A j \in 0 .. Halves(z)[depth] : Level(z, g)[depth][j] = Level(z, h)[depth][j]
    <3>1. \A j \in 0 .. 0 : j = 0
      OBVIOUS
    <3> QED BY <1>1, <2>6, <3>1
  <2> HIDE DEF h
  <2>8. \A j \in 0 .. z : g[j] = h[j]
    <3>1. Decides(z, g, h)
      BY <1>1, LevelsInjective
    <3> QED BY <1>1, <2>7, <3>1 DEF Decides
  <2> QED BY <1>10, <2>1, <2>2, <2>8
<1> QED BY <1>4, <1>8, <1>10 DEF idx, hs

\* A tree of the committed leaves proves these, and nothing in their place.
LEMMA ProofsAreRight ==
  ASSUME NEW s, HasTree(s), s = Leafs!Committed
  PROVE  Leafs!ProofsHold
<1> SUFFICES ASSUME NEW I \in (SUBSET (0 .. Leafs!leaves_len - 1)) \ {{}}
             PROVE  LET leaf_indices == Leafs!Ascending(I)
                        hashes == [i \in DOMAIN leaf_indices |-> Leafs!Committed[leaf_indices[i] + 1]]
                    IN  /\ Leafs!Verifies(leaf_indices, hashes)
                        /\ \A i \in DOMAIN hashes, other \in Leaves :
                             other # hashes[i]
                               => ~Leafs!Verifies(leaf_indices, [hashes EXCEPT ![i] = other])
  BY DEF Leafs!ProofsHold
<1> DEFINE n == Len(s)
           z == n - 1
           depth == Leafs!tree_depth(n)
           idx == Leafs!Ascending(I)
           hs == HashesOf(I, Base(s))
           Root(l) == Leafs!ProofRoot(Leafs!proof(idx), idx, l, n)
           top == Leafs!root(current_working_tree)
<1>1. Leafs!leaves_len = n
  BY TreeLeaves
<1>2. s # <<>> /\ n \in Nat \ {0}
  <2>1. s = <<>> => n = 0
    OBVIOUS
  <2>2. n \in Nat
    BY DEF HasTree
  <2> HIDE DEF n
  <2>3. n # 0
    <3>1. 0 .. 0 - 1 = {}
      OBVIOUS
    <3> QED BY <1>1, <3>1
  <2> QED BY <2>1, <2>2, <2>3
<1>3. Proving(s, I, z, depth)
  <2>1. depth \in Nat \ {0} /\ Halves(z)[depth] = 0
    BY <1>2, TreeShape
  <2> HIDE DEF depth
  <2>2. I \in SUBSET (0 .. z) /\ I # {}
    BY <1>1
  <2>3. I \in SUBSET Nat /\ IsFiniteSet(I)
    <3> HIDE DEF n
    <3>1. 0 \in Int /\ z \in Int
      BY <1>2
    <3>2. IsFiniteSet(0 .. z)
      BY <3>1, FS_Interval
    <3>3. IsFiniteSet(I)
      BY <2>2, <3>2, FS_Subset
    <3>4. I \in SUBSET Nat
      BY <2>2, <1>2
    <3> QED BY <3>3, <3>4
  <2>4. z \in Nat
    BY <1>2
  <2> QED BY <1>2, <2>1, <2>2, <2>3, <2>4 DEF Proving, depth
<1>4. top = RootOf(s, depth)
  <2>1. Limits /\ s \in Seq(Leaves) /\ Len(s) <= MaxLeaves /\ current_working_tree = TreeOf(s)
    BY DEF HasTree
  <2>2. Leafs!root(TreeOf(s)) = Leafs!MerkleRoot[s] /\ Leafs!MerkleRoot[s] = RootOf(s, Leafs!tree_depth(Len(s)))
    BY <1>2, <2>1, TreeRoot
  <2> QED BY <2>1, <2>2
<1> HIDE DEF depth, z
<1>5. [i \in DOMAIN idx |-> s[idx[i] + 1]] = hs
  BY <1>3, ProvenLeaves
<1>6. Root(hs) = RootOf(s, depth)
  BY <1>3, ProvenLeaves
<1>7. \A i \in DOMAIN hs : \A other :
        other # hs[i] => Root([hs EXCEPT ![i] = other]) # RootOf(s, depth)
  BY <1>3, ProvenLeaves
<1>8. \A l : Leafs!Verifies(idx, l) <=> Root(l) = top
  BY <1>1 DEF Leafs!Verifies
<1> HIDE DEF hs, idx, n, Root, top
<1>9. [i \in DOMAIN idx |-> Leafs!Committed[idx[i] + 1]] = hs
  BY <1>5
<1>10. Leafs!Verifies(idx, hs)
  BY <1>4, <1>6, <1>8
<1>11. \A i \in DOMAIN hs, other \in Leaves : other # hs[i] => ~Leafs!Verifies(idx, [hs EXCEPT ![i] = other])
  BY <1>4, <1>7, <1>8
<1> QED BY <1>9, <1>10, <1>11 DEF idx

\* A tree of the committed leaves has their root, before and after a commit.
LEMMA RootsAreRight ==
  ASSUME NEW s, HasTree(s), s = Leafs!Committed, NEW u, u \in Seq(Leaves), uncommitted_leaves = u,
         Len(s) + Len(u) <= MaxLeaves
  PROVE  Leafs!RootsAgree
<1>1. Limits /\ s \in Seq(Leaves) /\ Len(s) <= MaxLeaves /\ current_working_tree = TreeOf(s)
  BY DEF HasTree
<1>2. Leafs!leaves_len = Len(Leafs!Committed)
  BY TreeLeaves
<1>3. Leafs!Committed # <<>> => Leafs!root(current_working_tree) = Leafs!MerkleRoot[Leafs!Committed]
  BY <1>1, TreeRoot
<1>4. u # <<>> => Leafs!root(Leafs!uncommitted_diff) = Leafs!MerkleRoot[Leafs!Committed \o u]
  <2> SUFFICES ASSUME u # <<>>
               PROVE  Leafs!root(Leafs!uncommitted_diff) = Leafs!MerkleRoot[Leafs!Committed \o u]
    OBVIOUS
  <2> DEFINE t == s \o u
             n == Len(s)
             m == Len(s) + Len(u) - 1
  <2>1. Extended(s, u, t, n, m)
    BY <1>1, ExtendedBy
  <2>2. Len(t) <= MaxLeaves
    BY <1>1
  <2> HIDE DEF t, n, m
  <2>3. Leafs!uncommitted_diff = DiffOf(s, t)
    BY <2>1, <2>2, Uncommitted
  <2>4. Leafs!root(DiffOf(s, t)) = Leafs!MerkleRoot[t]
    BY <1>1, <2>1, <2>2, DiffRoot
  <2> QED BY <2>3, <2>4 DEF t
<1> QED BY <1>2, <1>3, <1>4 DEF Leafs!RootsAgree

-----------------------------------------------------------------------------
\* The leaves after i commits of the record c, and the partial trees l that the
\* tree keeps of them.
LeavesAfter(c, i) == IF i = 0 THEN <<>> ELSE c[i]
Grown(s, t) == \E u \in Seq(Leaves) : u # <<>> /\ t = s \o u
Diffs == {DiffOf(s, t) : s \in Seq(Leaves), t \in Seq(Leaves)}

Recorded(c, l) ==
  /\ c \in Seq(Seq(Leaves)) /\ l \in Seq(Diffs) /\ Len(l) = Len(c)
  /\ \A i \in 1 .. Len(c) : /\ Grown(LeavesAfter(c, i - 1), c[i]) /\ Len(c[i]) <= MaxLeaves
                            /\ l[i] = DiffOf(LeavesAfter(c, i - 1), c[i])

\* What is recorded of each commit.
LEMMA RecordedAt ==
  ASSUME NEW c, NEW l, Recorded(c, l)
  PROVE  /\ Len(c) \in Nat /\ Len(l) = Len(c)
         /\ \A i \in 0 .. Len(c) : LeavesAfter(c, i) \in Seq(Leaves) /\ Len(LeavesAfter(c, i)) \in Nat
         /\ \A i \in 1 .. Len(c) : /\ LeavesAfter(c, i) = c[i] /\ Grown(LeavesAfter(c, i - 1), LeavesAfter(c, i))
                                   /\ Len(LeavesAfter(c, i)) <= MaxLeaves
                                   /\ l[i] = DiffOf(LeavesAfter(c, i - 1), LeavesAfter(c, i))
                                   /\ i - 1 \in 0 .. Len(c)
<1> DEFINE k == Len(c)
<1>1. c \in Seq(Seq(Leaves)) /\ k \in Nat /\ Len(l) = k
  BY DEF Recorded
<1>2. \A i \in 1 .. k : LeavesAfter(c, i) = c[i] /\ c[i] \in Seq(Leaves)
  BY <1>1 DEF LeavesAfter
<1>3. ASSUME NEW i \in 0 .. k PROVE LeavesAfter(c, i) \in Seq(Leaves)
  <2> HIDE DEF k
  <2>1. i = 0 \/ i \in 1 .. k
    BY <1>1
  <2>2. CASE i = 0
    <3>1. <<>> \in Seq(Leaves)
      OBVIOUS
    <3> QED BY <2>2, <3>1 DEF LeavesAfter
  <2>3. CASE i \in 1 .. k
    BY <1>2, <2>3
  <2> QED BY <2>1, <2>2, <2>3
<1>4. \A i \in 0 .. k : LeavesAfter(c, i) \in Seq(Leaves) /\ Len(LeavesAfter(c, i)) \in Nat
  BY <1>3
<1>5. \A i \in 1 .. k : i - 1 \in 0 .. k
  <2> HIDE DEF k
  <2> QED BY <1>1
<1>6. \A i \in 1 .. k : /\ Grown(LeavesAfter(c, i - 1), c[i]) /\ Len(c[i]) <= MaxLeaves
                        /\ l[i] = DiffOf(LeavesAfter(c, i - 1), c[i])
  BY DEF Recorded
<1> QED BY <1>1, <1>2, <1>4, <1>5, <1>6

\* A commit adds at least one leaf.
LEMMA GrownExtends ==
  ASSUME NEW s, s \in Seq(Leaves), NEW t, Grown(s, t)
  PROVE  /\ \E u : Extended(s, u, t, Len(s), Len(t) - 1)
         /\ t \in Seq(Leaves) /\ t # <<>> /\ Len(s) \in Nat /\ Len(t) \in Nat /\ Len(s) <= Len(t)
<1>1. PICK u \in Seq(Leaves) : u # <<>> /\ t = s \o u
  BY DEF Grown
<1> DEFINE n == Len(s)
           m == Len(s) + Len(u) - 1
<1>2. Extended(s, u, t, n, m)
  BY <1>1, ExtendedBy
<1>3. n = Len(s) /\ n \in Nat /\ n <= m /\ m \in Nat /\ Len(t) = m + 1 /\ Len(t) - 1 = m /\ t \in Seq(Leaves) /\ t # <<>>
  BY <1>2 DEF Extended
<1> HIDE DEF n, m
<1>4. Extended(s, u, t, Len(s), Len(t) - 1)
  BY <1>2, <1>3
<1> QED BY <1>3, <1>4

\* One more commit is recorded.
LEMMA RecordedMore ==
  ASSUME NEW c, NEW l, Recorded(c, l), NEW t, t \in Seq(Leaves), NEW s, s = LeavesAfter(c, Len(c)),
         Grown(s, t), Len(t) <= MaxLeaves
  PROVE  Recorded(Append(c, t), Append(l, DiffOf(s, t)))
<1> DEFINE k == Len(c)
           c2 == Append(c, t)
           l2 == Append(l, DiffOf(s, t))
<1>1. c \in Seq(Seq(Leaves)) /\ l \in Seq(Diffs) /\ k \in Nat /\ Len(l) = k
  BY DEF Recorded
<1>2. s \in Seq(Leaves)
  <2>1. k \in 0 .. k
    BY <1>1
  <2> QED BY <2>1, RecordedAt
<1>3. DiffOf(s, t) \in Diffs
  BY <1>2 DEF Diffs
<1>4. c2 \in Seq(Seq(Leaves)) /\ Len(c2) = k + 1 /\ c2[k + 1] = t /\ \A i \in 1 .. k : c2[i] = c[i]
  BY <1>1
<1>5. l2 \in Seq(Diffs) /\ Len(l2) = k + 1 /\ l2[k + 1] = DiffOf(s, t) /\ \A i \in 1 .. k : l2[i] = l[i]
  BY <1>1, <1>3
<1> HIDE DEF c2, l2, k
<1>6. ASSUME NEW i \in 1 .. k + 1
      PROVE  /\ Grown(LeavesAfter(c2, i - 1), c2[i]) /\ Len(c2[i]) <= MaxLeaves
             /\ l2[i] = DiffOf(LeavesAfter(c2, i - 1), c2[i])
  <2>1. LeavesAfter(c2, i - 1) = LeavesAfter(c, i - 1)
    <3>1. i - 1 = 0 \/ i - 1 \in 1 .. k
      BY <1>1
    <3> QED BY <1>4, <3>1 DEF LeavesAfter
  <2>2. i \in 1 .. k \/ i = k + 1
    BY <1>1
  <2>3. CASE i \in 1 .. k
    <3>1. Grown(LeavesAfter(c, i - 1), c[i]) /\ Len(c[i]) <= MaxLeaves /\ l[i] = DiffOf(LeavesAfter(c, i - 1), c[i])
      BY <2>3 DEF Recorded, k
    <3> QED BY <1>4, <1>5, <2>1, <2>3, <3>1
  <2>4. CASE i = k + 1
    <3>1. i - 1 = k /\ LeavesAfter(c, i - 1) = s
      BY <1>1, <2>4 DEF k
    <3> QED BY <1>4, <1>5, <2>1, <2>4, <3>1
  <2> QED BY <2>2, <2>3, <2>4
<1> QED BY <1>4, <1>5, <1>6 DEF Recorded, c2, l2

\* What Front drops.
LEMMA FrontIs ==
  ASSUME NEW V, NEW s, s \in Seq(V), Len(s) > 0
  PROVE  /\ Leafs!Front(s) \in Seq(V) /\ Len(Leafs!Front(s)) = Len(s) - 1 /\ Len(s) - 1 \in Nat
         /\ \A i \in 1 .. Len(s) - 1 : Leafs!Front(s)[i] = s[i]
<1> DEFINE n == Len(s) - 1
<1>1. n \in Nat /\ n < Len(s)
  OBVIOUS
<1>2. Leafs!Front(s) = SubSeq(s, 1, n)
  BY DEF Leafs!Front
<1> HIDE DEF n
<1>3. /\ SubSeq(s, 1, n) \in Seq(V) /\ Len(SubSeq(s, 1, n)) = n
      /\ \A i \in 1 .. n : SubSeq(s, 1, n)[i] = s[i]
  BY <1>1
<1>4. Leafs!Front(s) \in Seq(V) /\ Len(Leafs!Front(s)) = n /\ \A i \in 1 .. n : Leafs!Front(s)[i] = s[i]
  BY <1>2, <1>3
<1> QED BY <1>1, <1>4 DEF n

\* The last commit is taken back.
LEMMA RecordedLess ==
  ASSUME NEW c, NEW l, Recorded(c, l), Len(c) > 0
  PROVE  /\ Recorded(Leafs!Front(c), Leafs!Front(l)) /\ Len(Leafs!Front(c)) = Len(c) - 1
         /\ Len(c) - 1 \in Nat
         /\ LeavesAfter(Leafs!Front(c), Len(c) - 1) = LeavesAfter(c, Len(c) - 1)
<1> DEFINE k == Len(c) - 1
           c2 == Leafs!Front(c)
           l2 == Leafs!Front(l)
<1>1. c \in Seq(Seq(Leaves)) /\ l \in Seq(Diffs) /\ Len(l) = Len(c) /\ Len(c) \in Nat
  BY DEF Recorded
<1>2. c2 \in Seq(Seq(Leaves)) /\ Len(c2) = k /\ k \in Nat /\ \A i \in 1 .. k : c2[i] = c[i]
  BY <1>1, FrontIs
<1>3. l2 \in Seq(Diffs) /\ Len(l2) = k /\ \A i \in 1 .. k : l2[i] = l[i]
  BY <1>1, FrontIs
<1>4. \A i \in 1 .. k : i \in 1 .. Len(c)
  BY <1>1
<1> HIDE DEF c2, l2, k
<1>5. \A i \in 0 .. k : LeavesAfter(c2, i) = LeavesAfter(c, i)
  <2> TAKE i \in 0 .. k
  <2>1. i = 0 \/ i \in 1 .. k
    BY <1>2
  <2> QED BY <1>2, <2>1 DEF LeavesAfter
<1>6. ASSUME NEW i \in 1 .. k
      PROVE  /\ Grown(LeavesAfter(c2, i - 1), c2[i]) /\ Len(c2[i]) <= MaxLeaves
             /\ l2[i] = DiffOf(LeavesAfter(c2, i - 1), c2[i])
  <2>1. i - 1 \in 0 .. k
    BY <1>2
  <2>2. Grown(LeavesAfter(c, i - 1), c[i]) /\ Len(c[i]) <= MaxLeaves /\ l[i] = DiffOf(LeavesAfter(c, i - 1), c[i])
    BY <1>4 DEF Recorded
  <2> QED BY <1>2, <1>3, <1>5, <2>1, <2>2
<1>7. Recorded(c2, l2)
  BY <1>2, <1>3, <1>6 DEF Recorded
<1>8. LeavesAfter(c2, k) = LeavesAfter(c, k)
  <2>1. k \in 0 .. k
    BY <1>2
  <2> QED BY <1>5, <2>1
<1> QED BY <1>2, <1>7, <1>8 DEF c2, l2, k

-----------------------------------------------------------------------------
\* Replaying the commits gives the tree of their leaves.
ReplayedTrees(l) ==
  CHOOSE x : x = [i \in 0 .. Len(l) |->
    IF i = 0 THEN <<>> ELSE Leafs!merge_unverified(x[i - 1], l[i])]

\* Replayed, the partial trees give the tree of the leaves of the last one.
LEMMA ReplayedTree ==
  ASSUME NEW c, NEW l, Recorded(c, l), Limits
  PROVE  Leafs!Replayed(l) = TreeOf(LeavesAfter(c, Len(c)))
<1> DEFINE k == Len(l)
           made(x, i) == IF i = 0 THEN <<>> ELSE Leafs!merge_unverified(x[i - 1], l[i])
           f == [i \in 0 .. k |-> TreeOf(LeavesAfter(c, i))]
           x == ReplayedTrees(l)
           G == {i \in Nat : i <= k => x[i] = f[i]}
<1>1. k \in Nat /\ Len(c) = k
  BY RecordedAt
<1>2. Leafs!Replayed(l) = x[k]
  BY DEF Leafs!Replayed, ReplayedTrees
<1>3. x = CHOOSE y : y = [i \in 0 .. k |-> made(y, i)]
  BY DEF ReplayedTrees
<1> HIDE DEF k, x
<1>4. ASSUME NEW i \in 0 .. k PROVE f[i] = made(f, i)
  <2>1. CASE i = 0
    <3>1. f[i] = TreeOf(LeavesAfter(c, i))
      OBVIOUS
    <3> QED BY <2>1, <3>1 DEF TreeOf, LeavesAfter
  <2>2. CASE i # 0
    <3>1. i \in 1 .. k /\ i - 1 \in 0 .. k
      BY <1>1, <2>2
    <3> DEFINE s == LeavesAfter(c, i - 1)
               t == LeavesAfter(c, i)
    <3>2. s \in Seq(Leaves) /\ Grown(s, t) /\ Len(t) <= MaxLeaves /\ l[i] = DiffOf(s, t)
      BY <1>1, <3>1, RecordedAt
    <3>3. f[i] = TreeOf(t) /\ f[i - 1] = TreeOf(s)
      BY <3>1
    <3> HIDE DEF s, t, f
    <3>4. PICK u : Extended(s, u, t, Len(s), Len(t) - 1)
      BY <3>2, GrownExtends
    <3>5. Leafs!merge_unverified(TreeOf(s), DiffOf(s, t)) = TreeOf(t)
      BY <3>2, <3>4, Merged
    <3> QED BY <2>2, <3>2, <3>3, <3>5
  <2> QED BY <2>1, <2>2
<1>5. f = [i \in 0 .. k |-> f[i]]
  OBVIOUS
<1> HIDE DEF f
<1>6. f = [i \in 0 .. k |-> made(f, i)]
  BY <1>4, <1>5
<1>7. x = [i \in 0 .. k |-> made(x, i)]
  BY <1>3, <1>6
<1>8. \A i \in 0 .. k : x[i] = made(x, i)
  BY <1>7
<1>9. 0 \in G
  <2>1. 0 \in 0 .. k
    BY <1>1
  <2> QED BY <1>4, <1>8, <2>1
<1>10. ASSUME NEW i \in Nat, i \in G PROVE i + 1 \in G
  <2>1. ASSUME i + 1 <= k PROVE x[i + 1] = f[i + 1]
    <3>1. i + 1 \in 0 .. k /\ (i + 1) - 1 = i /\ i + 1 # 0 /\ i <= k
      BY <1>1, <2>1
    <3>2. x[i] = f[i]
      BY <1>10, <3>1
    <3>3. made(x, i + 1) = made(f, i + 1)
      BY <3>1, <3>2
    <3> QED BY <1>4, <1>8, <3>1, <3>3
  <2> QED BY <2>1
<1> HIDE DEF G
<1>11. Nat \subseteq G
  BY <1>9, <1>10, NumberInduction
<1>12. x[k] = f[k] /\ k \in 0 .. k
  BY <1>1, <1>11 DEF G
<1>13. f[k] = TreeOf(LeavesAfter(c, k))
  BY <1>12 DEF f
<1> QED BY <1>1, <1>2, <1>12, <1>13

-----------------------------------------------------------------------------
LeafInv ==
  /\ Limits
  /\ Recorded(committed, history) /\ Len(history) <= MaxCommits
  /\ uncommitted_leaves \in Seq(Leaves)
  /\ Len(LeavesAfter(committed, Len(committed))) + Len(uncommitted_leaves) <= MaxLeaves
  /\ current_working_tree = TreeOf(LeavesAfter(committed, Len(committed)))

\* The leaves of the tree.
LeafState(s, u) ==
  /\ HasTree(s) /\ s = Leafs!Committed /\ s = LeavesAfter(committed, Len(committed)) /\ s \in Seq(Leaves)
  /\ u = uncommitted_leaves /\ u \in Seq(Leaves)
  /\ Len(s) \in Nat /\ Len(u) \in Nat /\ MaxLeaves \in Nat /\ Len(s) + Len(u) <= MaxLeaves

\* What the invariant says of the tree as it is.
LEMMA LeafStates ==
  ASSUME LeafInv
  PROVE  LeafState(LeavesAfter(committed, Len(committed)), uncommitted_leaves)
<1> DEFINE k == Len(committed)
           s == LeavesAfter(committed, k)
<1>1. Recorded(committed, history) /\ Limits
  BY DEF LeafInv
<1>2. k \in Nat /\ s \in Seq(Leaves) /\ Len(s) \in Nat
  <2>1. k \in Nat
    BY <1>1, RecordedAt
  <2>2. k \in 0 .. k
    BY <2>1
  <2> QED BY <1>1, <2>1, <2>2, RecordedAt
<1>3. s = Leafs!Committed
  <2>1. committed \in Seq(Seq(Leaves))
    BY <1>1 DEF Recorded
  <2>2. CASE committed = <<>>
    <3>1. k = 0
      BY <2>2
    <3> HIDE DEF k
    <3> QED BY <2>2, <3>1 DEF LeavesAfter, Leafs!Committed
  <2>3. CASE committed # <<>>
    <3>1. k # 0
      BY <2>1, <2>3
    <3> QED BY <2>3, <3>1 DEF LeavesAfter, Leafs!Committed, Leafs!Last
  <2> QED BY <2>2, <2>3
<1>4. MaxLeaves \in Nat
  BY <1>1 DEF Limits, Leafs!MerkleAssumption
<1>5. uncommitted_leaves \in Seq(Leaves) /\ Len(uncommitted_leaves) \in Nat
      /\ Len(s) + Len(uncommitted_leaves) <= MaxLeaves /\ current_working_tree = TreeOf(s)
  BY DEF LeafInv
<1> HIDE DEF s, k
<1>6. Len(s) <= MaxLeaves
  <2> DEFINE a == Len(s)
             b == Len(uncommitted_leaves)
  <2>1. a \in Nat /\ b \in Nat /\ a + b <= MaxLeaves
    BY <1>2, <1>5
  <2> HIDE DEF a, b
  <2>2. a <= MaxLeaves
    BY <1>4, <2>1
  <2> QED BY <2>2 DEF a
<1>7. HasTree(s)
  BY <1>1, <1>2, <1>5, <1>6 DEF HasTree
<1> QED BY <1>2, <1>3, <1>4, <1>5, <1>7 DEF LeafState, s, k

\* The tree is right in every state that the invariant allows.
LEMMA LeafsHold == ASSUME LeafInv PROVE Leafs!TreeHolds
<1> DEFINE s == LeavesAfter(committed, Len(committed))
           u == uncommitted_leaves
<1>1. LeafState(s, u)
  BY LeafStates
<1> HIDE DEF s
<1>2. HasTree(s) /\ s = Leafs!Committed /\ u \in Seq(Leaves) /\ Len(s) + Len(u) <= MaxLeaves
  BY <1>1 DEF LeafState
<1> QED BY <1>2, ProofsAreRight, RootsAreRight DEF Leafs!TreeHolds

\* The type invariant of the tree.
LEMMA LeafsTyped == ASSUME LeafInv PROVE Leafs!TypeOK
<1> DEFINE s == LeavesAfter(committed, Len(committed))
           u == uncommitted_leaves
<1>1. LeafState(s, u)
  BY LeafStates
<1> HIDE DEF s
<1>2. HasTree(s) /\ u \in Seq(Leaves) /\ Len(s) + Len(u) <= MaxLeaves
  BY <1>1 DEF LeafState
<1>3. Leafs!leaves_len = Len(s)
      /\ \A d \in DOMAIN current_working_tree : \A i \in DOMAIN current_working_tree[d] :
           current_working_tree[d][i][1] = i - 1
  BY <1>2, TreeLeaves
<1>4. Len(history) = Len(committed) /\ Len(history) <= MaxCommits /\ committed \in Seq(Seq(Leaves))
  BY DEF LeafInv, Recorded
<1> QED BY <1>2, <1>3, <1>4 DEF Leafs!TypeOK

\* A tree starts without leaves.
LEMMA LeafsStart == ASSUME Leafs!Init, Limits PROVE LeafInv
<1>1. current_working_tree = <<>> /\ history = <<>> /\ uncommitted_leaves = <<>> /\ committed = <<>>
  BY DEF Leafs!Init
<1>2. LeavesAfter(<<>>, 0) = <<>> /\ TreeOf(<<>>) = <<>>
  BY DEF LeavesAfter, TreeOf
<1>3. MaxLeaves \in Nat /\ MaxCommits \in Nat
  BY DEF Limits, Leafs!MerkleAssumption
<1>4. Len(<<>>) = 0 /\ \A V : <<>> \in Seq(V)
  OBVIOUS
<1>5. Recorded(<<>>, <<>>)
  BY <1>4 DEF Recorded
<1>6. 0 <= MaxCommits /\ 0 + 0 <= MaxLeaves
  BY <1>3
<1> QED BY <1>1, <1>2, <1>4, <1>5, <1>6 DEF LeafInv

\* More leaves wait for a commit.
LEMMA AppendKeeps ==
  ASSUME LeafInv, NEW leaves, leaves \in Seq(Leaves), Leafs!append(leaves)
  PROVE  LeafInv'
<1> DEFINE s == LeavesAfter(committed, Len(committed))
           u == uncommitted_leaves
<1>1. LeafState(s, u)
  BY LeafStates
<1> HIDE DEF s
<1>2. HasTree(s) /\ u \in Seq(Leaves) /\ Len(s) \in Nat /\ Len(u) \in Nat
  BY <1>1 DEF LeafState
<1>3. Leafs!leaves_len = Len(s)
  BY <1>2, TreeLeaves
<1>4. /\ Len(s) + Len(u) + Len(leaves) <= MaxLeaves /\ uncommitted_leaves' = u \o leaves
      /\ current_working_tree' = current_working_tree /\ history' = history /\ committed' = committed
  BY <1>3 DEF Leafs!append
<1>5. u \o leaves \in Seq(Leaves) /\ Len(u \o leaves) = Len(u) + Len(leaves) /\ Len(leaves) \in Nat
  BY <1>2
<1>6. Len(s) + Len(u \o leaves) <= MaxLeaves
  <2> DEFINE a == Len(s)
             b == Len(u)
             d == Len(leaves)
  <2>1. a \in Nat /\ b \in Nat /\ d \in Nat /\ a + b + d <= MaxLeaves
    BY <1>2, <1>4, <1>5
  <2> HIDE DEF a, b, d
  <2>2. a + (b + d) <= MaxLeaves
    BY <2>1
  <2> QED BY <1>5, <2>2 DEF a, b, d
<1> QED BY <1>4, <1>5, <1>6 DEF LeafInv, s

\* A commit.
LEMMA CommitKeeps == ASSUME LeafInv, Leafs!commit PROVE LeafInv'
<1> DEFINE k == Len(committed)
           s == LeavesAfter(committed, k)
           u == uncommitted_leaves
           t == s \o u
<1>1. LeafState(s, u)
  BY LeafStates
<1>2. Recorded(committed, history) /\ Limits /\ Len(history) \in Nat /\ k \in Nat
      /\ committed \in Seq(Seq(Leaves))
  BY RecordedAt DEF LeafInv, Recorded
<1> HIDE DEF s
<1>3. /\ HasTree(s) /\ s = Leafs!Committed /\ u \in Seq(Leaves) /\ s \in Seq(Leaves)
      /\ Len(s) \in Nat /\ Len(u) \in Nat /\ Len(s) + Len(u) <= MaxLeaves
      /\ current_working_tree = TreeOf(s)
  BY <1>1 DEF LeafState, HasTree
<1>4. /\ u # <<>> /\ Len(history) < MaxCommits
      /\ history' = Append(history, Leafs!uncommitted_diff)
      /\ current_working_tree' = Leafs!merge_unverified(current_working_tree, Leafs!uncommitted_diff)
      /\ committed' = Append(committed, s \o u) /\ uncommitted_leaves' = <<>>
  BY <1>3 DEF Leafs!commit
<1>5. Extended(s, u, t, Len(s), Len(s) + Len(u) - 1) /\ t \in Seq(Leaves) /\ Len(t) <= MaxLeaves
      /\ Grown(s, t)
  <2>1. Extended(s, u, s \o u, Len(s), Len(s) + Len(u) - 1)
    BY <1>3, <1>4, ExtendedBy
  <2>2. s \o u \in Seq(Leaves) /\ Len(s \o u) = Len(s) + Len(u)
    BY <1>3
  <2>3. Grown(s, s \o u)
    BY <1>3, <1>4 DEF Grown
  <2> QED BY <1>3, <2>1, <2>2, <2>3
<1> HIDE DEF t
<1>6. Leafs!uncommitted_diff = DiffOf(s, t)
  BY <1>3, <1>5, Uncommitted
<1>7. Leafs!merge_unverified(TreeOf(s), DiffOf(s, t)) = TreeOf(t)
  BY <1>2, <1>5, Merged
<1>8. Recorded(Append(committed, t), Append(history, DiffOf(s, t)))
  BY <1>2, <1>5, RecordedMore DEF s
<1>9. history' = Append(history, DiffOf(s, t)) /\ current_working_tree' = TreeOf(t)
      /\ committed' = Append(committed, t)
  BY <1>3, <1>4, <1>6, <1>7 DEF t
<1>10. Len(Append(history, DiffOf(s, t))) <= MaxCommits
  <2>1. Len(Append(history, DiffOf(s, t))) = Len(history) + 1
    BY <1>2 DEF Recorded
  <2>2. MaxCommits \in Nat
    BY <1>2 DEF Limits, Leafs!MerkleAssumption
  <2> QED BY <1>2, <1>4, <2>1, <2>2
<1>11. LeavesAfter(Append(committed, t), Len(Append(committed, t))) = t
  <2>1. Len(Append(committed, t)) = k + 1 /\ Append(committed, t)[k + 1] = t /\ k + 1 # 0
    BY <1>2, <1>5
  <2> QED BY <2>1 DEF LeavesAfter
<1>12. Len(<<>>) = 0 /\ <<>> \in Seq(Leaves) /\ Len(t) + 0 <= MaxLeaves
  <2>1. Len(t) \in Nat
    BY <1>5
  <2> QED BY <1>5, <2>1
<1> QED BY <1>2, <1>4, <1>8, <1>9, <1>10, <1>11, <1>12 DEF LeafInv

\* A rollback replays the other commits.
LEMMA RollbackKeeps == ASSUME LeafInv, Leafs!rollback PROVE LeafInv'
<1> DEFINE k == Len(committed)
           c == Leafs!Front(committed)
           l == Leafs!Front(history)
           s == LeavesAfter(committed, k)
           r == LeavesAfter(committed, k - 1)
           u == uncommitted_leaves
<1>1. Recorded(committed, history) /\ Limits /\ k \in Nat /\ Len(history) = k /\ Len(history) <= MaxCommits
      /\ u \in Seq(Leaves) /\ Len(u) \in Nat /\ Len(s) + Len(u) <= MaxLeaves
  BY RecordedAt DEF LeafInv
<1>2. /\ history # <<>> /\ history' = l /\ committed' = c
      /\ current_working_tree' = Leafs!Replayed(l) /\ uncommitted_leaves' = u
  BY DEF Leafs!rollback
<1>3. k > 0
  <2>1. history \in Seq(Diffs)
    BY <1>1 DEF Recorded
  <2>2. Len(history) # 0
    BY <1>2, <2>1
  <2> QED BY <1>1, <2>2
<1>4. Recorded(c, l) /\ Len(c) = k - 1 /\ k - 1 \in Nat /\ LeavesAfter(c, k - 1) = r
  BY <1>1, <1>3, RecordedLess
<1>5. Leafs!Replayed(l) = TreeOf(LeavesAfter(c, Len(c)))
  BY <1>1, <1>4, ReplayedTree
<1>6. Len(l) = Len(c)
  BY <1>4 DEF Recorded
<1>7. Len(l) <= MaxCommits
  <2>1. MaxCommits \in Nat
    BY <1>1 DEF Limits, Leafs!MerkleAssumption
  <2> HIDE DEF l, c, k
  <2> QED BY <1>1, <1>4, <1>6, <2>1
<1>8. Len(r) + Len(u) <= MaxLeaves
  <2>1. k \in 1 .. k /\ k - 1 \in 0 .. k
    <3> HIDE DEF k
    <3> QED BY <1>1, <1>3
  <2>2. r \in Seq(Leaves) /\ Grown(r, s)
    BY <1>1, <2>1, RecordedAt
  <2> HIDE DEF r, s
  <2>3. Len(r) \in Nat /\ Len(s) \in Nat /\ Len(r) <= Len(s)
    BY <2>2, GrownExtends
  <2>4. MaxLeaves \in Nat
    BY <1>1 DEF Limits, Leafs!MerkleAssumption
  <2> DEFINE a == Len(r)
             b == Len(s)
             d == Len(u)
  <2>5. a \in Nat /\ b \in Nat /\ d \in Nat /\ a <= b /\ b + d <= MaxLeaves
    BY <1>1, <2>3
  <2> HIDE DEF a, b, d
  <2>6. a + d <= MaxLeaves
    BY <2>4, <2>5
  <2> QED BY <2>6 DEF a, d
<1> HIDE DEF c, l, r, s, k
<1>9. LeavesAfter(c, Len(c)) = r
  BY <1>4
<1> QED BY <1>1, <1>2, <1>4, <1>5, <1>7, <1>8, <1>9 DEF LeafInv

\* The uncommitted leaves are dropped.
LEMMA AbortKeeps == ASSUME LeafInv, Leafs!abort_uncommitted PROVE LeafInv'
<1> DEFINE s == LeavesAfter(committed, Len(committed))
<1>1. /\ uncommitted_leaves' = <<>> /\ current_working_tree' = current_working_tree
      /\ history' = history /\ committed' = committed
  BY DEF Leafs!abort_uncommitted
<1>2. LeafState(s, uncommitted_leaves)
  BY LeafStates
<1> HIDE DEF s
<1>3. Len(s) + Len(<<>>) <= MaxLeaves /\ <<>> \in Seq(Leaves)
  <2>1. Len(s) \in Nat /\ Len(s) <= MaxLeaves /\ Len(<<>>) = 0 /\ <<>> \in Seq(Leaves)
    BY <1>2 DEF LeafState, HasTree
  <2> QED BY <2>1
<1> QED BY <1>1, <1>3 DEF LeafInv, s

\* Every step of the tree keeps the invariant.
LEMMA LeafsKeep == ASSUME LeafInv, [Leafs!Next]_leafs PROVE LeafInv'
<1>1. CASE UNCHANGED leafs
  BY <1>1 DEF leafs, LeafInv
<1>2. ASSUME NEW leaf \in Leaves, Leafs!insert(leaf) PROVE LeafInv'
  <2>1. <<leaf>> \in Seq(Leaves)
    OBVIOUS
  <2> QED BY <1>2, <2>1, AppendKeeps DEF Leafs!insert
<1>3. ASSUME NEW leaf \in Leaves, NEW next \in Leaves, Leafs!append(<<leaf, next>>) PROVE LeafInv'
  <2>1. <<leaf, next>> \in Seq(Leaves)
    OBVIOUS
  <2> QED BY <1>3, <2>1, AppendKeeps
<1> QED BY <1>1, <1>2, <1>3, CommitKeeps, RollbackKeeps, AbortKeeps DEF Leafs!Next

-----------------------------------------------------------------------------
(* The common types: what is read of a text so far, and the texts of values.  *)

-----------------------------------------------------------------------------
\* Powers of ten.
LEMMA TenPowers ==
  /\ Common!Ten[0] = 1
  /\ \A d \in Nat : Common!Ten[d] \in Nat \ {0} /\ Common!Ten[d + 1] = 10 * Common!Ten[d] /\ d < Common!Ten[d]
<1> DEFINE S == Nat \ {0}
           a == 1
           step == [m \in S |-> 10 * m]
<1>1. \A m \in S : step[m] = 10 * m
  OBVIOUS
<1>2. a \in S /\ step \in [S -> S]
  OBVIOUS
<1>3. PICK f \in [Nat -> S] : f[0] = a /\ \A d \in Nat : f[d + 1] = step[f[d]]
  <2> HIDE DEF S, a, step
  <2> QED BY ONLY <1>2, Repetition
<1> HIDE DEF step
<1>4. f[0] = 1 /\ \A d \in Nat : f[d] \in Nat \ {0} /\ f[d + 1] = 10 * f[d]
  BY <1>1, <1>3
<1>5. \A d \in Nat : f[d] = IF d = 0 THEN 1 ELSE 10 * f[d - 1]
  <2> TAKE d \in Nat
  <2>1. CASE d = 0
    BY <1>4, <2>1
  <2>2. CASE d # 0
    <3> DEFINE e == d - 1
    <3>1. e \in Nat /\ e + 1 = d
      BY <2>2
    <3>2. f[e + 1] = 10 * f[e]
      BY <1>4, <3>1
    <3> QED BY <2>2, <3>1, <3>2
  <2> QED BY <2>1, <2>2
<1>6. f = [d \in Nat |-> IF d = 0 THEN 1 ELSE 10 * f[d - 1]]
  BY <1>3, <1>5
<1>7. Common!Ten = [d \in Nat |-> IF d = 0 THEN 1 ELSE 10 * Common!Ten[d - 1]]
  BY <1>6 DEF Common!Ten
<1> DEFINE t == Common!Ten
<1>8. t = [d \in Nat |-> IF d = 0 THEN 1 ELSE 10 * t[d - 1]]
  BY <1>7
<1> HIDE DEF t
<1>9. t[0] = 1
  BY <1>8
<1>10. ASSUME NEW d \in Nat PROVE t[d + 1] = 10 * t[d]
  <2>1. d + 1 \in Nat /\ d + 1 # 0 /\ (d + 1) - 1 = d
    OBVIOUS
  <2>2. t[d + 1] = 10 * t[(d + 1) - 1]
    BY <1>8, <2>1
  <2> QED BY <2>1, <2>2
<1> DEFINE G == {d \in Nat : t[d] \in Nat \ {0} /\ d < t[d]}
<1>11. 0 \in G
  BY <1>9
<1>12. ASSUME NEW d \in Nat, d \in G PROVE d + 1 \in G
  BY <1>10, <1>12
<1> HIDE DEF G
<1>13. Nat \subseteq G
  BY <1>11, <1>12, NumberInduction
<1>14. \A d \in Nat : t[d] \in Nat \ {0} /\ d < t[d]
  BY <1>13 DEF G
<1> QED BY <1>9, <1>10, <1>14 DEF t

\* Powers of ten multiply.
LEMMA TenSum ==
  ASSUME NEW i \in Nat, NEW j \in Nat
  PROVE  Common!Ten[i + j] = Common!Ten[i] * Common!Ten[j]
<1> DEFINE G == {k \in Nat : Common!Ten[i + k] = Common!Ten[i] * Common!Ten[k]}
<1>1. 0 \in G
  BY TenPowers
<1>2. ASSUME NEW k \in Nat, k \in G PROVE k + 1 \in G
  <2> DEFINE x == Common!Ten[i]
             y == Common!Ten[k]
             z == Common!Ten[i + k]
  <2>1. x \in Nat /\ y \in Nat /\ z = x * y
    BY <1>2, TenPowers
  <2>2. Common!Ten[k + 1] = 10 * y /\ Common!Ten[(i + k) + 1] = 10 * z
    BY TenPowers
  <2> HIDE DEF x, y, z
  <2>3. 10 * z = x * (10 * y)
    BY <2>1
  <2>4. i + (k + 1) = (i + k) + 1
    OBVIOUS
  <2> QED BY <2>2, <2>3, <2>4 DEF x
<1> HIDE DEF G
<1>3. Nat \subseteq G
  BY <1>1, <1>2, NumberInduction
<1> QED BY <1>3 DEF G

-----------------------------------------------------------------------------
\* A text that is split after its first k characters.
IsSplit(t, k) == Common!IsAmount(SubSeq(t, 1, k), SubSeq(t, k + 1, Len(t)))
SplitWorth(t, k) == Common!Worth(SubSeq(t, 1, k), SubSeq(t, k + 1, Len(t)))

Splits(t, k) ==
  /\ \A i \in 1 .. k : t[i] <= 9
  /\ t[1] = 0 => k = 1
  /\ k < Len(t) => /\ t[k + 1] = Common!Dot /\ Len(t) - k >= 2 /\ Len(t) - k <= Decimals + 1
                   /\ \A i \in k + 2 .. Len(t) : t[i] <= 9

\* What it is that a text has a dot, or its end, after place k.
LEMMA SplitMeans ==
  ASSUME Common!CommonTypesAssumption, NEW t \in Texts, NEW k \in 1 .. Len(t)
  PROVE  IsSplit(t, k) <=> Splits(t, k)
<1> DEFINE n == SubSeq(t, 1, k)
           m == SubSeq(t, k + 1, Len(t))
<1>0. Len(t) \in Nat /\ t \in Seq(Nat) /\ \A i \in 1 .. Len(t) : t[i] \in Nat
  BY DEF Texts
<1>1. n \in Seq(Nat) /\ Len(n) = k /\ \A i \in 1 .. k : n[i] = t[i]
  BY <1>0
<1>2. m \in Seq(Nat) /\ Len(m) = Len(t) - k /\ \A i \in 1 .. Len(t) - k : m[i] = t[i + k]
  BY <1>0
<1>3. Decimals \in Nat
  BY DEF Common!CommonTypesAssumption
<1> HIDE DEF n, m
<1>4. n \in Seq(0 .. 9) <=> \A i \in 1 .. k : t[i] <= 9
  <2>1. n \in Seq(0 .. 9) <=> \A i \in 1 .. k : n[i] \in 0 .. 9
    BY <1>1
  <2>2. ASSUME NEW i \in 1 .. k PROVE n[i] \in 0 .. 9 <=> t[i] <= 9
    <3>1. n[i] = t[i] /\ t[i] \in Nat
      BY <1>0, <1>1
    <3> QED BY <3>1
  <2> QED BY <2>1, <2>2
<1>5. n # <<>> /\ n[1] = t[1]
  BY <1>1
<1>6. m # <<>> <=> k < Len(t)
  BY <1>0, <1>2
<1>7. ASSUME k < Len(t)
      PROVE  /\ m[1] = t[k + 1]
             /\ Tail(m) \in Seq(0 .. 9) <=> \A i \in k + 2 .. Len(t) : t[i] <= 9
  <2>1. m[1] = t[1 + k] /\ 1 + k = k + 1
    BY <1>0, <1>2, <1>7
  <2> DEFINE l == Len(t) - k - 1
  <2>2. l \in Nat /\ l = Len(t) - k - 1 /\ Len(m) = l + 1 /\ m # <<>>
    BY <1>0, <1>2, <1>6, <1>7
  <2> HIDE DEF l
  <2>3. Tail(m) \in Seq(Nat) /\ Len(Tail(m)) = l /\ \A i \in 1 .. l : Tail(m)[i] = m[i + 1]
    BY <1>2, <2>2
  <2>4. \A i \in 1 .. l : Tail(m)[i] = t[i + k + 1]
    <3> TAKE i \in 1 .. l
    <3>1. i + 1 \in 1 .. Len(t) - k /\ (i + 1) + k = i + k + 1
      BY <1>0, <2>2
    <3>2. m[i + 1] = t[(i + 1) + k]
      BY <1>2, <3>1
    <3> QED BY <2>3, <3>1, <3>2
  <2>5. Tail(m) \in Seq(0 .. 9) <=> \A i \in 1 .. l : Tail(m)[i] \in 0 .. 9
    <3> DEFINE v == Tail(m)
    <3>1. v \in Seq(Nat) /\ Len(v) = l
      BY <2>3
    <3> HIDE DEF v
    <3>2. v \in Seq(0 .. 9) <=> \A i \in 1 .. l : v[i] \in 0 .. 9
      BY ONLY <3>1
    <3> QED BY <3>2 DEF v
  <2>6. (\A i \in 1 .. l : Tail(m)[i] \in 0 .. 9) <=> \A i \in 1 .. l : t[i + k + 1] <= 9
    <3>1. ASSUME NEW i \in 1 .. l PROVE Tail(m)[i] \in 0 .. 9 <=> t[i + k + 1] <= 9
      <4>1. i + k + 1 \in 1 .. Len(t)
        BY <1>0, <2>2
      <4>2. Tail(m)[i] = t[i + k + 1] /\ t[i + k + 1] \in Nat
        BY <1>0, <2>4, <4>1
      <4> DEFINE x == t[i + k + 1]
                 y == Tail(m)[i]
      <4>3. x \in Nat /\ y = x
        BY <4>2
      <4> HIDE DEF x, y
      <4>4. y \in 0 .. 9 <=> x <= 9
        BY <4>3
      <4> QED BY <4>4 DEF x, y
    <3> QED BY <3>1
  <2>7. (\A i \in 1 .. l : t[i + k + 1] <= 9) <=> \A i \in k + 2 .. Len(t) : t[i] <= 9
    <3>1. ASSUME \A i \in 1 .. l : t[i + k + 1] <= 9, NEW i \in k + 2 .. Len(t) PROVE t[i] <= 9
      <4> DEFINE j == i - k - 1
      <4>1. j \in 1 .. l /\ j + k + 1 = i
        BY <1>0, <2>2
      <4> QED BY <3>1, <4>1
    <3>2. ASSUME \A i \in k + 2 .. Len(t) : t[i] <= 9, NEW i \in 1 .. l PROVE t[i + k + 1] <= 9
      <4>1. i + k + 1 \in k + 2 .. Len(t)
        BY <1>0, <2>2
      <4> QED BY <3>2, <4>1
    <3> QED BY <3>1, <3>2
  <2> QED BY <2>1, <2>5, <2>6, <2>7
<1>8. Len(m) \in 2 .. Decimals + 1 <=> Len(t) - k >= 2 /\ Len(t) - k <= Decimals + 1
  BY <1>0, <1>2, <1>3
<1>9. Common!IsAmount(n, m) <=> Splits(t, k)
  BY <1>1, <1>4, <1>5, <1>6, <1>7, <1>8 DEF Common!IsAmount, Splits
<1> QED BY <1>9 DEF IsSplit, n, m

\* What a split text is worth.
LEMMA WorthIs ==
  ASSUME NEW n, NEW m, NEW ds, ds = n \o (IF m = <<>> THEN <<>> ELSE Tail(m))
  PROVE  Common!Worth(n, m) = ReadOff(ds)[Len(ds)] * Common!Ten[Decimals + Len(n) - Len(ds)]
BY DEF Common!Worth, ReadOff

\* The worth of a split text, from the numbers read off its digits.
LEMMA SplitWorthIs ==
  ASSUME NEW t \in Texts, NEW k \in 1 .. Len(t)
  PROVE  SplitWorth(t, k)
           = ReadOff(DigitsAt(t, k))[Len(DigitsAt(t, k))] * Common!Ten[Decimals + k - Len(DigitsAt(t, k))]
<1> DEFINE n == SubSeq(t, 1, k)
           m == SubSeq(t, k + 1, Len(t))
           ds == DigitsAt(t, k)
           rest == IF m = <<>> THEN <<>> ELSE Tail(m)
<1>0. Len(t) \in Nat /\ t \in Seq(Nat)
  BY DEF Texts
<1>1. n \in Seq(Nat) /\ Len(n) = k
  BY <1>0
<1>2. m \in Seq(Nat) /\ Len(m) = Len(t) - k /\ \A i \in 1 .. Len(t) - k : m[i] = t[i + k]
  BY <1>0
<1>3. rest = SubSeq(t, k + 2, Len(t))
  <2> DEFINE r == SubSeq(t, k + 2, Len(t))
  <2>1. CASE k = Len(t)
    <3>1. m = <<>>
      BY <1>0, <1>2, <2>1
    <3>2. r \in Seq(Nat) /\ Len(r) = 0
      BY <1>0, <2>1
    <3>3. r = <<>>
      <4> HIDE DEF r
      <4> QED BY <3>2
    <3> QED BY <3>1, <3>3
  <2>2. CASE k # Len(t)
    <3> DEFINE l == Len(t) - k - 1
    <3>1. l \in Nat /\ l = Len(t) - k - 1 /\ Len(m) = l + 1 /\ m # <<>>
      <4> HIDE DEF m
      <4>1. l \in Nat /\ l = Len(t) - k - 1
        BY <1>0, <2>2
      <4> HIDE DEF l
      <4>2. Len(m) = l + 1
        BY <1>0, <1>2, <4>1
      <4> QED BY <1>2, <4>1, <4>2
    <3>2. r \in Seq(Nat) /\ Len(r) = l /\ \A i \in 1 .. l : r[i] = t[i + (k + 1)]
      BY <1>0, <3>1
    <3> HIDE DEF l, m, r
    <3> DEFINE v == Tail(m)
    <3>3. v \in Seq(Nat) /\ Len(v) = l /\ \A i \in 1 .. l : v[i] = m[i + 1]
      BY <1>2, <3>1
    <3>4. \A i \in 1 .. l : v[i] = r[i]
      <4> TAKE i \in 1 .. l
      <4>1. i + 1 \in 1 .. Len(t) - k /\ (i + 1) + k = i + (k + 1)
        BY <1>0, <3>1
      <4>2. m[i + 1] = t[(i + 1) + k]
        BY <1>2, <4>1
      <4> QED BY <3>2, <3>3, <4>1, <4>2
    <3> HIDE DEF v
    <3>5. v = r
      BY <3>2, <3>3, <3>4, SameNumbers
    <3> QED BY <3>1, <3>5 DEF v, r
  <2> QED BY <2>1, <2>2
<1>4. ds = n \o rest
  BY <1>3 DEF DigitsAt
<1> HIDE DEF n, m, ds
<1>5. Common!Worth(n, m) = ReadOff(ds)[Len(ds)] * Common!Ten[Decimals + Len(n) - Len(ds)]
  BY ONLY <1>4, WorthIs
<1>6. Common!Worth(n, m) = ReadOff(ds)[Len(ds)] * Common!Ten[Decimals + k - Len(ds)]
  BY <1>1, <1>5
<1> QED BY <1>6 DEF SplitWorth, n, m, ds

\* The amounts that a text is, as the property of Common says it.
AmountsOf(t) ==
  {Common!Worth(SubSeq(t, 1, k), SubSeq(t, k + 1, Len(t))) :
     k \in {k \in 1 .. Len(t) : Common!IsAmount(SubSeq(t, 1, k), SubSeq(t, k + 1, Len(t)))}}

\* The amounts of a text are the worths of its splits.
LEMMA AmountsAre ==
  ASSUME Common!CommonTypesAssumption, NEW t \in Texts
  PROVE  \A a : a \in AmountsOf(t) <=> \E k \in 1 .. Len(t) : Splits(t, k) /\ a = SplitWorth(t, k)
<1>1. \A k \in 1 .. Len(t) : IsSplit(t, k) <=> Splits(t, k)
  BY SplitMeans
<1>2. AmountsOf(t) = {SplitWorth(t, k) : k \in {k \in 1 .. Len(t) : IsSplit(t, k)}}
  BY DEF AmountsOf, SplitWorth, IsSplit
<1> QED BY <1>1, <1>2

\* A number is read off its digits, after those of a larger power of ten.
LEMMA ReadsNumber ==
  ASSUME NEW ds \in Texts, NEW a \in Nat, NEW p \in Nat, NEW k \in Nat, p + k <= Len(ds),
         ReadOff(ds)[p] = a \div Common!Ten[k],
         \A j \in 1 .. k : ds[p + j] = (a \div Common!Ten[k - j]) % 10
  PROVE  ReadOff(ds)[p + k] = a
<1> DEFINE r == ReadOff(ds)
           G == {j \in Nat : j <= k => r[p + j] = a \div Common!Ten[k - j]}
           n == Len(ds)
<1>0. n \in Nat /\ p + k <= n
  BY DEF Texts
<1>1. 0 \in G
  BY p + 0 = p, k - 0 = k
<1>2. ASSUME NEW j \in Nat, j \in G PROVE j + 1 \in G
  <2>1. ASSUME j + 1 <= k PROVE r[p + (j + 1)] = a \div Common!Ten[k - (j + 1)]
    <3> DEFINE i == p + j
               e == k - (j + 1)
               w == Common!Ten[e]
    <3>1. e \in Nat /\ k - j = e + 1 /\ i \in 0 .. n - 1 /\ p + (j + 1) = i + 1 /\ j + 1 \in 1 .. k
      BY <1>0, <2>1
    <3>2. w \in Nat \ {0} /\ Common!Ten[k - j] = 10 * w
      BY <3>1, TenPowers
    <3>3. r[i + 1] = 10 * r[i] + ds[i + 1]
      BY <3>1, ReadOffNext DEF n
    <3>4. r[i] = a \div (10 * w)
      BY <1>2, <2>1, <3>2
    <3>5. ds[i + 1] = (a \div w) % 10
      BY <3>1
    <3>6. 10 * (a \div (10 * w)) + ((a \div w) % 10) = a \div w
      BY <3>2, NextDigit
    <3> QED BY <3>1, <3>3, <3>4, <3>5, <3>6
  <2> QED BY <2>1
<1> HIDE DEF G
<1>3. Nat \subseteq G
  BY <1>1, <1>2, NumberInduction
<1>4. r[p + k] = a \div Common!Ten[k - k]
  BY <1>3 DEF G
<1>5. k - k = 0 /\ Common!Ten[0] = 1
  BY TenPowers
<1>6. a \div 1 = a
  <2>1. 1 \in Nat \ {0} /\ 0 \in 0 .. 1 - 1 /\ a = 1 * a + 0
    OBVIOUS
  <2> QED BY <2>1, DivUnique
<1> QED BY <1>4, <1>5, <1>6

\* Padded writes the k lowest digits.
LEMMA PaddedIs ==
  ASSUME NEW a \in Nat, NEW k \in Nat
  PROVE  /\ Common!Padded(a, k) \in Texts /\ Len(Common!Padded(a, k)) = k
         /\ \A j \in 1 .. k : /\ Common!Padded(a, k)[j] = (a \div Common!Ten[k - j]) % 10
                              /\ Common!Padded(a, k)[j] <= 9
<1>1. ASSUME NEW j \in 1 .. k PROVE (a \div Common!Ten[k - j]) % 10 \in 0 .. 9
  <2> DEFINE e == k - j
             w == Common!Ten[e]
  <2>1. e \in Nat
    OBVIOUS
  <2>2. w \in Nat \ {0}
    BY <2>1, TenPowers
  <2> HIDE DEF w
  <2>3. (a \div w) % 10 \in 0 .. 9
    BY <2>2, NextDigit
  <2> QED BY <2>3 DEF w
<1> DEFINE s == Common!Padded(a, k)
<1>2. s = [j \in 1 .. k |-> s[j]] /\ \A j \in 1 .. k : s[j] = (a \div Common!Ten[k - j]) % 10
  BY DEF Common!Padded
<1>3. \A j \in 1 .. k : s[j] \in 0 .. 9
  BY <1>1, <1>2
<1> HIDE DEF s
<1>4. s \in Seq(Nat) /\ Len(s) = k
  BY <1>2, <1>3
<1>5. \A j \in 1 .. k : s[j] = (a \div Common!Ten[k - j]) % 10 /\ s[j] <= 9
  BY <1>2, <1>3
<1>6. s \in Texts
  BY <1>4 DEF Texts
<1> QED BY ONLY <1>4, <1>5, <1>6 DEF s

\* A numeral has as many digits as the number needs.
NumberPlaces(q, k) == q < Common!Ten[k] /\ (k > 1 => q >= Common!Ten[k - 1])
DotPlaces(q) == CHOOSE k \in 1 .. Limit : q < Common!Ten[k] /\ (k > 1 => q >= Common!Ten[k - 1])

\* A numeral is padded to as many places as its number has.
LEMMA NumeralLength ==
  ASSUME Common!CommonTypesAssumption, NEW q \in Common!u64
  PROVE  DotPlaces(q) \in 1 .. Limit /\ NumberPlaces(q, DotPlaces(q)) /\ Common!Numeral(q) = Common!Padded(q, DotPlaces(q))
<1>0. Limit \in Nat \ {0} /\ q \in Nat /\ q < Limit
  BY DEF Common!CommonTypesAssumption, Common!u64
<1> DEFINE D == {k \in Nat \ {0} : q < Common!Ten[k]}
<1>1. \E k \in D : k <= Limit
  <2>1. CASE q = 0
    <3>1. Common!Ten[0 + 1] = 10 * Common!Ten[0] /\ Common!Ten[0] = 1 /\ 0 + 1 = 1
      BY TenPowers
    <3>2. 1 \in D /\ 1 <= Limit
      BY <1>0, <2>1, <3>1
    <3> QED BY <3>2
  <2>2. CASE q # 0
    <3>1. q < Common!Ten[q]
      BY <1>0, TenPowers
    <3> QED BY <1>0, <2>2, <3>1
  <2> QED BY <2>1, <2>2
<1>2. D \in SUBSET Nat /\ D # {}
  BY <1>1
<1>3. PICK k \in D : \A j \in D : k <= j
  <2> HIDE DEF D
  <2> QED BY <1>2, SmallestOf
<1>4. k \in 1 .. Limit /\ q < Common!Ten[k]
  <2>1. PICK j \in D : j <= Limit
    BY <1>1
  <2> QED BY <1>0, <1>3, <2>1
<1>5. ASSUME k > 1 PROVE q >= Common!Ten[k - 1]
  <2>1. k - 1 \in Nat \ {0} /\ ~(k <= k - 1)
    BY <1>4, <1>5
  <2>2. k - 1 \notin D
    BY <1>3, <2>1
  <2>3. ~(q < Common!Ten[k - 1])
    BY <2>1, <2>2
  <2> DEFINE x == Common!Ten[k - 1]
  <2>4. x \in Nat
    BY <2>1, TenPowers
  <2> HIDE DEF x
  <2>5. q >= x
    BY <1>0, <2>3, <2>4 DEF x
  <2> QED BY <2>5 DEF x
<1>6. \E i \in 1 .. Limit : q < Common!Ten[i] /\ (i > 1 => q >= Common!Ten[i - 1])
  BY <1>4, <1>5
<1>7. DotPlaces(q) \in 1 .. Limit /\ NumberPlaces(q, DotPlaces(q))
  BY <1>6 DEF DotPlaces, NumberPlaces
<1> QED BY <1>7 DEF Common!Numeral, DotPlaces

\* A numeral has no leading zero.
LEMMA NumeralLeads ==
  ASSUME NEW q \in Nat, NEW k \in Nat, k > 1, NumberPlaces(q, k)
  PROVE  (q \div Common!Ten[k - 1]) % 10 # 0
<1> DEFINE e == k - 1
           w == Common!Ten[e]
           x == q \div w
<1>1. e \in Nat /\ k = e + 1
  OBVIOUS
<1>2. w \in Nat \ {0} /\ Common!Ten[k] = 10 * w
  BY <1>1, TenPowers
<1>3. w <= q /\ q < 10 * w
  BY <1>2 DEF NumberPlaces
<1> HIDE DEF w, e
<1>4. x \in Nat /\ q % w \in 0 .. w - 1 /\ q = w * x + (q % w)
  BY <1>2, DivMod
<1> HIDE DEF x
<1>5. x >= 1
  <2>1. CASE x = 0
    <3>1. w * x = 0
      BY <1>2, <2>1
    <3> QED BY <1>2, <1>3, <1>4, <3>1
  <2> QED BY <1>4, <2>1
<1>6. x <= 9
  <2>1. CASE x >= 10
    <3>1. w * x >= w * 10
      BY <1>2, <1>4, <2>1
    <3>2. w * x \in Nat
      BY <1>2, <1>4
    <3> QED BY <1>2, <1>3, <1>4, <3>1, <3>2
  <2> QED BY <1>4, <2>1
<1>7. 10 \in Nat \ {0} /\ x \in 0 .. 10 - 1
  BY <1>4, <1>6
<1>8. x % 10 = x
  BY <1>7, ModSmall
<1> QED BY <1>5, <1>8 DEF x, w, e

\* A dot and decimals after a numeral.
LEMMA DottedText ==
  ASSUME NEW n \in Texts, NEW m \in Texts
  PROVE  /\ n \o <<Common!Dot>> \o m \in Texts
         /\ Len(n \o <<Common!Dot>> \o m) = Len(n) + 1 + Len(m)
         /\ (n \o <<Common!Dot>> \o m)[Len(n) + 1] = Common!Dot
         /\ \A i \in 1 .. Len(n) : (n \o <<Common!Dot>> \o m)[i] = n[i]
         /\ \A i \in 1 .. Len(m) : (n \o <<Common!Dot>> \o m)[Len(n) + 1 + i] = m[i]
<1> DEFINE d == <<Common!Dot>>
           b == n \o d
<1>1. d \in Texts /\ Len(d) = 1 /\ d[1] = Common!Dot
  BY DEF Common!Dot, Texts
<1> HIDE DEF d
<1>2. /\ b \in Texts /\ Len(b) = Len(n) + Len(d) /\ Len(n) \in Nat
      /\ \A i \in 1 .. Len(n) : b[i] = n[i]
      /\ \A i \in 1 .. Len(d) : b[Len(n) + i] = d[i]
  BY <1>1, TextsJoin
<1> HIDE DEF b
<1>3. /\ b \o m \in Texts /\ Len(b \o m) = Len(b) + Len(m) /\ Len(m) \in Nat
      /\ \A i \in 1 .. Len(b) : (b \o m)[i] = b[i]
      /\ \A i \in 1 .. Len(m) : (b \o m)[Len(b) + i] = m[i]
  BY <1>2, TextsJoin
<1>4. Len(b) = Len(n) + 1 /\ Len(n) + 1 \in 1 .. Len(b) /\ b[Len(n) + 1] = Common!Dot
  BY <1>1, <1>2
<1>5. \A i \in 1 .. Len(n) : i \in 1 .. Len(b)
  BY <1>2, <1>4
<1>6. /\ Len(b \o m) = Len(n) + 1 + Len(m) /\ (b \o m)[Len(n) + 1] = Common!Dot
      /\ \A i \in 1 .. Len(n) : (b \o m)[i] = n[i]
      /\ \A i \in 1 .. Len(m) : (b \o m)[Len(n) + 1 + i] = m[i]
  BY <1>2, <1>3, <1>4, <1>5
<1> QED BY ONLY <1>3, <1>6 DEF b, d

\* Where such a text is split, and what it is worth there.
Dotted(t, n, m) ==
  /\ t \in Texts /\ n \in Texts /\ m \in Texts
  /\ Len(t) = Len(n) + 1 + Len(m) /\ t[Len(n) + 1] = Common!Dot
  /\ \A i \in 1 .. Len(n) : t[i] = n[i]
  /\ \A i \in 1 .. Len(m) : t[Len(n) + 1 + i] = m[i]

\* What DisplayAmount writes with a dot is split at that dot.
LEMMA DottedSplits ==
  ASSUME Common!CommonTypesAssumption, NEW t, NEW n, NEW m, Dotted(t, n, m),
         Len(n) >= 1, Len(m) >= 1, Len(m) <= Decimals,
         n[1] = 0 => Len(n) = 1,
         \A i \in 1 .. Len(n) : n[i] <= 9, \A i \in 1 .. Len(m) : m[i] <= 9
  PROVE  Len(n) \in 1 .. Len(t) /\ Splits(t, Len(n))
<1> DEFINE k == Len(n)
           l == Len(m)
<1>0. Decimals \in Nat
  BY DEF Common!CommonTypesAssumption
<1>1. k \in Nat /\ l \in Nat /\ k >= 1 /\ l >= 1 /\ Len(t) = k + 1 + l /\ Decimals \in Nat
  BY <1>0 DEF Dotted, Texts
<1>2. \A i \in 1 .. k : t[i] <= 9
  BY DEF Dotted
<1>3. t[1] = 0 => k = 1
  <2>1. 1 \in 1 .. k
    BY <1>1
  <2> QED BY <2>1 DEF Dotted
<1>4. ASSUME NEW i \in k + 2 .. Len(t) PROVE t[i] <= 9
  <2> DEFINE j == i - k - 1
  <2>1. j \in 1 .. l /\ i = k + 1 + j
    BY <1>1
  <2>2. t[k + 1 + j] = m[j] /\ m[j] <= 9
    BY <2>1 DEF Dotted
  <2> QED BY <2>1, <2>2
<1>5. t[k + 1] = Common!Dot
  BY DEF Dotted
<1> HIDE DEF k, l
<1>6. k \in 1 .. Len(t) /\ Len(t) - k >= 2 /\ Len(t) - k <= Decimals + 1
  <2>1. l <= Decimals
    BY DEF l
  <2> QED BY <1>1, <2>1
<1>7. Splits(t, k)
  BY <1>2, <1>3, <1>4, <1>5, <1>6 DEF Splits
<1> QED BY <1>6, <1>7 DEF k

\* What a text with a dot is worth, from the digits around it.
LEMMA DottedWorth ==
  ASSUME Common!CommonTypesAssumption, NEW t, NEW n, NEW m, Dotted(t, n, m),
         Len(n) >= 1, Len(m) >= 1, Len(m) <= Decimals, NEW ds, ds = DigitsAt(t, Len(n))
  PROVE  /\ ds \in Texts /\ Len(ds) = Len(n) + Len(m)
         /\ \A i \in 1 .. Len(n) : ds[i] = n[i]
         /\ \A i \in 1 .. Len(m) : ds[Len(n) + i] = m[i]
         /\ SplitWorth(t, Len(n)) = ReadOff(ds)[Len(n) + Len(m)] * Common!Ten[Decimals - Len(m)]
<1> DEFINE k == Len(n)
           l == Len(m)
<1>0. Decimals \in Nat
  BY DEF Common!CommonTypesAssumption
<1>1. k \in Nat /\ l \in Nat /\ k >= 1 /\ l >= 1 /\ Len(t) = k + 1 + l /\ Decimals \in Nat
  <2>1. n \in Seq(Nat) /\ m \in Seq(Nat) /\ Len(t) = Len(n) + 1 + Len(m)
    BY DEF Dotted, Texts
  <2>2. k \in Nat /\ l \in Nat
    BY ONLY <2>1
  <2> QED BY ONLY <1>0, <2>1, <2>2, Len(n) >= 1, Len(m) >= 1
<1>2. t \in Texts /\ l <= Decimals /\ ds = DigitsAt(t, k)
  BY DEF Dotted
<1>3. (\A i \in 1 .. k : t[i] = n[i]) /\ (\A i \in 1 .. l : t[k + 1 + i] = m[i])
  BY DEF Dotted
<1> HIDE DEF k, l
<1>4. k \in 1 .. Len(t) /\ k < Len(t) /\ Len(t) - 1 = k + l
  BY <1>1
<1>5. ds \in Texts /\ (k < Len(t) => Len(ds) = Len(t) - 1)
  BY <1>2, <1>4, DigitsOf
<1>6. (\A i \in 1 .. k : ds[i] = t[i]) /\ (\A i \in k + 1 .. Len(t) - 1 : ds[i] = t[i + 1])
  BY <1>2, <1>4, DigitsOf
<1>7. Len(ds) = k + l
  BY <1>4, <1>5
<1>8. ASSUME NEW i \in 1 .. l PROVE ds[k + i] = m[i]
  <2>1. k + i \in k + 1 .. Len(t) - 1 /\ (k + i) + 1 = k + 1 + i
    BY <1>1, <1>4
  <2>2. ds[k + i] = t[(k + i) + 1]
    BY <1>6, <2>1
  <2>3. t[k + 1 + i] = m[i]
    BY <1>3
  <2> QED BY <2>1, <2>2, <2>3
<1>9. SplitWorth(t, k) = ReadOff(ds)[Len(ds)] * Common!Ten[Decimals + k - Len(ds)]
  BY <1>2, <1>4, SplitWorthIs
<1>10. Decimals + k - (k + l) = Decimals - l
  BY <1>1
<1>11. SplitWorth(t, k) = ReadOff(ds)[k + l] * Common!Ten[Decimals - l]
  BY <1>7, <1>9, <1>10
<1>12. \A i \in 1 .. k : ds[i] = n[i]
  BY <1>3, <1>6
<1> QED BY <1>5, <1>7, <1>8, <1>11, <1>12 DEF k, l

\* The digits of a numeral are read as the number.
LEMMA NumeralReads ==
  ASSUME Common!CommonTypesAssumption, NEW q \in Common!u64, NEW ds \in Texts, NEW k, k = DotPlaces(q),
         k <= Len(ds), \A i \in 1 .. k : ds[i] = Common!Numeral(q)[i]
  PROVE  ReadOff(ds)[k] = q
<1>1. k \in Nat /\ k >= 1 /\ NumberPlaces(q, k) /\ Common!Numeral(q) = Common!Padded(q, k) /\ q \in Nat
  <2>1. Limit \in Nat
    BY DEF Common!CommonTypesAssumption
  <2> QED BY <2>1, NumeralLength DEF Common!u64
<1>2. \A i \in 1 .. k : ds[i] = (q \div Common!Ten[k - i]) % 10
  BY <1>1, PaddedIs
<1>3. 0 + k = k /\ \A i \in 1 .. k : 0 + i = i
  BY <1>1
<1>4. ReadOff(ds)[0] = 0
  <2>1. Len(ds) \in Nat /\ 0 \in 0 .. Len(ds)
    BY DEF Texts
  <2> QED BY <2>1, ReadOffTyped
<1> DEFINE w == Common!Ten[k]
<1>5. w \in Nat \ {0} /\ q \in 0 .. w - 1
  BY <1>1, TenPowers DEF NumberPlaces
<1> HIDE DEF w
<1>6. q \div w = 0
  BY <1>5, DivSmall
<1>7. ReadOff(ds)[0] = q \div Common!Ten[k]
  BY <1>4, <1>6 DEF w
<1>8. \A i \in 1 .. k : ds[0 + i] = (q \div Common!Ten[k - i]) % 10
  BY <1>2, <1>3
<1>9. 0 \in Nat /\ 0 + k <= Len(ds) /\ k \in Nat /\ q \in Nat
  BY <1>1, <1>3
<1>10. ReadOff(ds)[0 + k] = q
  BY ONLY ds \in Texts, <1>7, <1>8, <1>9, ReadsNumber
<1> QED BY <1>3, <1>10

\* A numeral as a list of digits.
LEMMA NumeralIs ==
  ASSUME Common!CommonTypesAssumption, NEW q \in Common!u64, NEW n, n = Common!Numeral(q)
  PROVE  /\ n \in Texts /\ Len(n) = DotPlaces(q) /\ Len(n) >= 1
         /\ \A i \in 1 .. Len(n) : n[i] <= 9
         /\ n[1] = 0 => Len(n) = 1
<1> DEFINE k == DotPlaces(q)
<1>1. k \in Nat /\ k >= 1 /\ NumberPlaces(q, k) /\ n = Common!Padded(q, k) /\ q \in Nat
  <2>1. Limit \in Nat
    BY DEF Common!CommonTypesAssumption
  <2> QED BY <2>1, NumeralLength DEF Common!u64
<1> HIDE DEF k
<1>2. /\ n \in Texts /\ Len(n) = k
      /\ \A i \in 1 .. k : n[i] = (q \div Common!Ten[k - i]) % 10 /\ n[i] <= 9
  BY <1>1, PaddedIs
<1>3. ASSUME n[1] = 0 PROVE k = 1
  <2>1. 1 \in 1 .. k
    BY <1>1
  <2>2. n[1] = (q \div Common!Ten[k - 1]) % 10
    BY <1>2, <2>1
  <2>3. ~(k > 1)
    BY <1>1, <1>3, <2>2, NumeralLeads
  <2> QED BY <1>1, <2>3
<1> QED BY <1>1, <1>2, <1>3 DEF k

\* The decimals of an amount are those of what is below one CCD.
LEMMA DecimalsRead ==
  ASSUME Common!CommonTypesAssumption, NEW a \in Nat, NEW j \in 1 .. Decimals
  PROVE  ((a % Common!Ten[Decimals]) \div Common!Ten[Decimals - j]) % 10 = (a \div Common!Ten[Decimals - j]) % 10
<1> DEFINE e == Decimals - j
           w == Common!Ten[e]
           v == Common!Ten[j]
           u == Common!Ten[Decimals]
           q == a \div u
           r == a % u
<1>0. Decimals \in Nat /\ e \in Nat /\ j \in Nat /\ j - 1 \in Nat /\ j = (j - 1) + 1 /\ j + e = Decimals
  BY DEF Common!CommonTypesAssumption
<1>1. w \in Nat \ {0} /\ v \in Nat \ {0} /\ u \in Nat \ {0}
  BY <1>0, TenPowers
<1>11. u = v * w
  <2>1. Common!Ten[j + e] = Common!Ten[j] * Common!Ten[e]
    BY <1>0, TenSum
  <2> QED BY <1>0, <2>1
<1>2. v = 10 * Common!Ten[j - 1] /\ Common!Ten[j - 1] \in Nat
  BY <1>0, TenPowers
<1> DEFINE y == Common!Ten[j - 1]
<1> HIDE DEF e, w, v, u, y
<1>3. q \in Nat /\ r \in Nat /\ a = u * q + r
  <2>1. q \in Nat /\ r \in 0 .. u - 1 /\ a = u * q + r
    BY <1>1, DivMod
  <2> HIDE DEF q, r
  <2> QED BY <1>1, <2>1
<1> HIDE DEF q, r
<1>4. u * q = (q * v) * w
  BY <1>1, <1>3, <1>11
<1>5. q * v \in Nat /\ q * v = (q * y) * 10 /\ q * y \in Nat
  BY <1>1, <1>2, <1>3 DEF y
<1> DEFINE x == q * v
           z == q * y
           s == r \div w
<1>6. x \in Nat /\ z \in Nat /\ x = z * 10 /\ a = x * w + r
  BY <1>3, <1>4, <1>5
<1> HIDE DEF x, z
<1>7. a \div w = x + s
  <2>1. w \in Nat \ {0} /\ r \in Nat /\ x \in Nat /\ a = x * w + r
    BY <1>1, <1>3, <1>6
  <2> QED BY ONLY <2>1, DivAdds DEF s
<1>8. s \in Nat
  BY <1>1, <1>3, DivMod
<1> HIDE DEF s
<1> DEFINE b == x + s
<1>9. b \in Nat /\ b = s + z * 10 /\ z \in Int /\ 10 \in Nat \ {0}
  BY <1>6, <1>8
<1> HIDE DEF b
<1>10. b % 10 = s % 10
  BY <1>8, <1>9, Congruent
<1> QED BY <1>7, <1>10 DEF b, s, r, u, w, e

\* What is printed is worth the amount that it was printed from.
LEMMA PrintedAmount ==
  ASSUME Common!CommonTypesAssumption, NEW a \in Common!u64
  PROVE  Common!DisplayAmount(a) \in Texts /\ a \in AmountsOf(Common!DisplayAmount(a))
<1> DEFINE u == Common!Ten[Decimals]
           q == a \div u
           r == a % u
           n == Common!Numeral(q)
           k == DotPlaces(q)
           t == Common!DisplayAmount(a)
<1>0. Decimals \in Nat \ {0} /\ Limit \in Nat \ {0} /\ a \in Nat /\ a < Limit
  BY DEF Common!CommonTypesAssumption, Common!u64
<1>1. u \in Nat \ {0}
  BY <1>0, TenPowers
<1> HIDE DEF u
<1>2. q \in Nat /\ r \in 0 .. u - 1 /\ a = u * q + r /\ q <= a
  BY <1>0, <1>1, DivMod, DivBelow
<1>3. q \in Common!u64
  BY <1>0, <1>2 DEF Common!u64
<1> HIDE DEF q, r
<1>4. /\ n \in Texts /\ Len(n) = k /\ Len(n) >= 1
      /\ \A i \in 1 .. Len(n) : n[i] <= 9
      /\ n[1] = 0 => Len(n) = 1
  BY <1>3, NumeralIs
<1>5. ASSUME NEW m, t = n \o <<Common!Dot>> \o m, m \in Texts, Len(m) >= 1, Len(m) <= Decimals,
             \A i \in 1 .. Len(m) : m[i] <= 9,
             \A ds \in Texts : /\ Len(ds) = Len(n) + Len(m) /\ ReadOff(ds)[Len(n)] = q
                               /\ \A i \in 1 .. Len(m) : ds[Len(n) + i] = m[i]
                               => ReadOff(ds)[Len(n) + Len(m)] * Common!Ten[Decimals - Len(m)] = a
      PROVE  t \in Texts /\ a \in AmountsOf(t)
  <2> HIDE DEF t, n, k
  <2>1. Dotted(t, n, m)
    BY <1>4, <1>5, DottedText DEF Dotted
  <2>2. Len(n) \in 1 .. Len(t) /\ Splits(t, Len(n))
    BY <1>4, <1>5, <2>1, DottedSplits
  <2> DEFINE ds == DigitsAt(t, Len(n))
  <2>3. ds = DigitsAt(t, Len(n))
    OBVIOUS
  <2> HIDE DEF ds
  <2>4. /\ ds \in Texts /\ Len(ds) = Len(n) + Len(m)
        /\ \A i \in 1 .. Len(n) : ds[i] = n[i]
        /\ \A i \in 1 .. Len(m) : ds[Len(n) + i] = m[i]
        /\ SplitWorth(t, Len(n)) = ReadOff(ds)[Len(n) + Len(m)] * Common!Ten[Decimals - Len(m)]
    <3>1. Len(n) >= 1 /\ Len(m) >= 1 /\ Len(m) <= Decimals
      BY <1>4, <1>5
    <3> QED BY ONLY Common!CommonTypesAssumption, <2>1, <2>3, <3>1, DottedWorth
  <2>5. ReadOff(ds)[Len(n)] = q
    <3>1. Len(n) = DotPlaces(q) /\ Len(n) <= Len(ds) /\ \A i \in 1 .. Len(n) : ds[i] = Common!Numeral(q)[i]
      <4>1. Len(n) \in Nat /\ Len(m) \in Nat
        BY <1>4, <1>5 DEF Texts
      <4> QED BY <1>4, <2>4, <4>1 DEF k, n
    <3> QED BY <1>3, <2>4, <3>1, NumeralReads
  <2>6. a = SplitWorth(t, Len(n))
    BY <1>5, <2>4, <2>5
  <2>7. t \in Texts
    BY <2>1 DEF Dotted
  <2> QED BY <2>2, <2>6, <2>7, AmountsAre
<1>6. CASE r = 0
  <2> DEFINE m == <<0>>
             e == Decimals - 1
             w == Common!Ten[e]
  <2>1. t = n \o <<Common!Dot>> \o m
    BY <1>6 DEF Common!DisplayAmount, q, r, u
  <2>2. m \in Texts /\ Len(m) = 1 /\ m[1] = 0
    BY DEF Texts
  <2>3. e \in Nat /\ Decimals = e + 1 /\ 1 <= Decimals
    BY <1>0
  <2>4. w \in Nat /\ u = 10 * w
    BY <2>3, TenPowers DEF u
  <2> HIDE DEF w, t, n, k
  <2>5. (10 * q) * w = a
    BY <1>2, <1>6, <2>4
  <2>6. ASSUME NEW ds \in Texts, Len(ds) = Len(n) + 1, ReadOff(ds)[Len(n)] = q, ds[Len(n) + 1] = 0
        PROVE  ReadOff(ds)[Len(n) + 1] * Common!Ten[Decimals - 1] = a
    <3>1. Len(n) \in 0 .. Len(ds) - 1
      BY <1>4, <2>6 DEF Texts
    <3>2. ReadOff(ds)[Len(n) + 1] = 10 * q + 0
      BY <2>6, <3>1, ReadOffNext
    <3>3. 10 * q + 0 = 10 * q
      BY <1>2
    <3> QED BY <2>5, <3>2, <3>3 DEF w
  <2> HIDE DEF m
  <2>7. \A i \in 1 .. Len(m) : m[i] <= 9 /\ i = 1
    BY <2>2
  <2>8. Len(m) >= 1 /\ Len(m) <= Decimals /\ 1 \in 1 .. Len(m)
    BY <2>2, <2>3
  <2>9. \A ds \in Texts : /\ Len(ds) = Len(n) + Len(m) /\ ReadOff(ds)[Len(n)] = q
                          /\ \A i \in 1 .. Len(m) : ds[Len(n) + i] = m[i]
                          => ReadOff(ds)[Len(n) + Len(m)] * Common!Ten[Decimals - Len(m)] = a
    BY <2>2, <2>6, <2>8
  <2>10. t \in Texts /\ a \in AmountsOf(t)
    BY <1>5, <2>1, <2>2, <2>7, <2>8, <2>9
  <2> QED BY <2>10 DEF t
<1>7. CASE r # 0
  <2> DEFINE m == Common!Padded(r, Decimals)
  <2>1. t = n \o <<Common!Dot>> \o m
    BY <1>7 DEF Common!DisplayAmount, q, r, u
  <2>2. r \in Nat
    BY <1>1, <1>2
  <2>3. /\ m \in Texts /\ Len(m) = Decimals
        /\ \A j \in 1 .. Decimals : m[j] = (r \div Common!Ten[Decimals - j]) % 10 /\ m[j] <= 9
    BY <1>0, <2>2, PaddedIs
  <2> HIDE DEF m, t, n, k
  <2>4. \A j \in 1 .. Decimals : m[j] = (a \div Common!Ten[Decimals - j]) % 10
    BY <1>0, <2>3, DecimalsRead DEF r, u
  <2>5. ASSUME NEW ds \in Texts, Len(ds) = Len(n) + Decimals, ReadOff(ds)[Len(n)] = q,
               \A i \in 1 .. Decimals : ds[Len(n) + i] = m[i]
        PROVE  ReadOff(ds)[Len(n) + Decimals] = a
    <3>1. Len(n) \in Nat /\ Len(n) + Decimals <= Len(ds)
      BY <1>0, <1>4, <2>5 DEF Texts
    <3>2. \A j \in 1 .. Decimals : ds[Len(n) + j] = (a \div Common!Ten[Decimals - j]) % 10
      BY <2>4, <2>5
    <3>3. ReadOff(ds)[Len(n)] = a \div Common!Ten[Decimals]
      BY <2>5 DEF q, u
    <3> QED BY <1>0, <3>1, <3>2, <3>3, ReadsNumber
  <2>6. Decimals - Decimals = 0 /\ Common!Ten[0] = 1 /\ a * 1 = a
    BY <1>0, TenPowers
  <2>7. \A ds \in Texts : /\ Len(ds) = Len(n) + Len(m) /\ ReadOff(ds)[Len(n)] = q
                          /\ \A i \in 1 .. Len(m) : ds[Len(n) + i] = m[i]
                          => ReadOff(ds)[Len(n) + Len(m)] * Common!Ten[Decimals - Len(m)] = a
    BY <2>3, <2>5, <2>6
  <2>8. Len(m) >= 1 /\ Len(m) <= Decimals
    BY <1>0, <2>3
  <2>9. t \in Texts /\ a \in AmountsOf(t)
    BY <1>5, <2>1, <2>3, <2>7, <2>8
  <2> QED BY <2>9 DEF t
<1> QED BY <1>6, <1>7

\* The first k characters are read as v: before the dot at p, and after it.
WholeRead(t, k, v) ==
  \A ds \in Texts : Len(ds) >= k /\ (\A i \in 1 .. k : ds[i] = t[i]) => ReadOff(ds)[k] = v
FractionRead(t, p, k, v) ==
  \A ds \in Texts : Len(ds) >= k - 1 /\ (\A i \in 1 .. p - 1 : ds[i] = t[i])
                      /\ (\A i \in p .. k - 1 : ds[i] = t[i + 1])
                      => ReadOff(ds)[k - 1] = v

\* Nothing has been read at the start.
LEMMA WholeStarts == ASSUME NEW t PROVE WholeRead(t, 0, 0)
<1>1. ASSUME NEW ds \in Texts PROVE ReadOff(ds)[0] = 0
  <2>1. Len(ds) \in Nat /\ 0 \in 0 .. Len(ds)
    BY DEF Texts
  <2> QED BY <2>1, ReadOffTyped
<1> QED BY <1>1 DEF WholeRead

\* One more digit before the dot.
LEMMA WholeStep ==
  ASSUME NEW t \in Texts, NEW k \in 0 .. Len(t) - 1, NEW v, WholeRead(t, k, v)
  PROVE  WholeRead(t, k + 1, 10 * v + t[k + 1])
<1>1. ASSUME NEW ds \in Texts, Len(ds) >= k + 1, \A i \in 1 .. k + 1 : ds[i] = t[i]
      PROVE  ReadOff(ds)[k + 1] = 10 * v + t[k + 1]
  <2>1. k \in Nat /\ Len(ds) \in Nat /\ k \in 0 .. Len(ds) - 1 /\ Len(ds) >= k /\ k + 1 \in 1 .. k + 1
        /\ \A i \in 1 .. k : i \in 1 .. k + 1
    BY <1>1 DEF Texts
  <2>2. ReadOff(ds)[k + 1] = 10 * ReadOff(ds)[k] + ds[k + 1]
    BY <2>1, ReadOffNext
  <2>3. ReadOff(ds)[k] = v
    BY <1>1, <2>1 DEF WholeRead
  <2> QED BY <1>1, <2>1, <2>2, <2>3
<1> QED BY <1>1 DEF WholeRead

\* The dot.
LEMMA DotRead ==
  ASSUME NEW t \in Texts, NEW k \in 0 .. Len(t) - 1, NEW v, WholeRead(t, k, v)
  PROVE  FractionRead(t, k + 1, k + 1, v)
<1>1. (k + 1) - 1 = k /\ k \in Nat
  BY DEF Texts
<1> QED BY <1>1 DEF WholeRead, FractionRead

\* One more digit after the dot.
LEMMA FractionStep ==
  ASSUME NEW t \in Texts, NEW k \in 1 .. Len(t) - 1, NEW p \in 1 .. k, NEW v,
         FractionRead(t, p, k, v)
  PROVE  FractionRead(t, p, k + 1, 10 * v + t[k + 1])
<1> DEFINE j == k - 1
<1>0. k \in Nat /\ p \in Nat /\ j \in Nat /\ j + 1 = k /\ (k + 1) - 1 = k /\ p <= k
  BY DEF Texts
<1>1. ASSUME NEW ds \in Texts, Len(ds) >= k, \A i \in 1 .. p - 1 : ds[i] = t[i],
             \A i \in p .. k : ds[i] = t[i + 1]
      PROVE  ReadOff(ds)[k] = 10 * v + t[k + 1]
  <2>1. Len(ds) \in Nat
    BY DEF Texts
  <2>2. j \in 0 .. Len(ds) - 1 /\ Len(ds) >= j /\ k \in p .. k /\ \A i \in p .. j : i \in p .. k
    BY <1>0, <1>1, <2>1
  <2>3. ReadOff(ds)[j + 1] = 10 * ReadOff(ds)[j] + ds[j + 1]
    BY <2>2, ReadOffNext
  <2>4. ReadOff(ds)[j] = v
    BY <1>1, <2>2 DEF FractionRead
  <2>5. ds[k] = t[k + 1]
    BY <1>1, <2>2
  <2> HIDE DEF j
  <2> QED BY <1>0, <2>3, <2>4, <2>5
<1> QED BY <1>0, <1>1 DEF FractionRead

-----------------------------------------------------------------------------
\* A text that can be split is worth at least what was read of it.
LEMMA WorthBound ==
  ASSUME Common!CommonTypesAssumption, NEW t \in Texts, NEW k \in 1 .. Len(t), Splits(t, k),
         NEW ds, ds = DigitsAt(t, k), NEW i \in 0 .. Len(ds)
  PROVE  SplitWorth(t, k) \in Nat /\ ReadOff(ds)[i] \in Nat /\ ReadOff(ds)[i] <= SplitWorth(t, k)
<1> DEFINE e == Decimals + k - Len(ds)
           w == Common!Ten[e]
           x == ReadOff(ds)[i]
           y == ReadOff(ds)[Len(ds)]
<1>0. Decimals \in Nat
  BY DEF Common!CommonTypesAssumption
<1>1. k \in Nat /\ Len(t) \in Nat
  BY DEF Texts
<1>2. /\ ds \in Texts
      /\ k = Len(t) => Len(ds) = k
      /\ k < Len(t) => Len(ds) = Len(t) - 1
  BY DigitsOf
<1>3. k < Len(t) => Len(t) - k <= Decimals + 1
  BY DEF Splits
<1>4. e \in Nat
  <2>1. CASE k = Len(t)
    BY <1>0, <1>1, <1>2, <2>1
  <2>2. CASE k # Len(t)
    <3>1. k < Len(t)
      BY <1>1, <2>2
    <3> QED BY <1>0, <1>1, <1>2, <1>3, <3>1
  <2> QED BY <2>1, <2>2
<1>5. SplitWorth(t, k) = y * w
  BY SplitWorthIs
<1> HIDE DEF e
<1>6. w \in Nat \ {0}
  BY <1>4, TenPowers
<1>7. x \in Nat /\ y \in Nat /\ x <= y
  BY <1>2, ReadOffRises
<1> HIDE DEF x, y, w
<1>8. y * w \in Nat /\ y <= y * w
  BY <1>6, <1>7
<1>9. y * w \in Nat /\ x <= y * w
  <2> DEFINE z == y * w
  <2>1. z \in Nat /\ y <= z
    BY <1>8
  <2> HIDE DEF z
  <2>2. z \in Nat /\ x <= z
    BY <1>7, <2>1
  <2> QED BY <2>2 DEF z
<1> QED BY <1>5, <1>7, <1>9 DEF x

\* What was read before the dot is at most what the text is worth.
LEMMA WholeBound ==
  ASSUME Common!CommonTypesAssumption, NEW t \in Texts, NEW k \in 1 .. Len(t), NEW j \in k .. Len(t),
         NEW v, WholeRead(t, k, v), Splits(t, j)
  PROVE  v \in Nat /\ SplitWorth(t, j) \in Nat /\ v <= SplitWorth(t, j)
<1> DEFINE ds == DigitsAt(t, j)
<1>0. Len(t) \in Nat /\ k \in Nat /\ j \in 1 .. Len(t) /\ \A i \in 1 .. k : i \in 1 .. j
  BY DEF Texts
<1>1. /\ ds \in Texts
      /\ j = Len(t) => Len(ds) = j
      /\ j < Len(t) => Len(ds) = Len(t) - 1
      /\ \A i \in 1 .. j : ds[i] = t[i]
  BY <1>0, DigitsOf
<1>2. ds = DigitsAt(t, j)
  OBVIOUS
<1> HIDE DEF ds
<1>3. Len(ds) >= k /\ k \in 0 .. Len(ds)
  BY <1>0, <1>1
<1>4. ReadOff(ds)[k] = v
  BY <1>0, <1>1, <1>3 DEF WholeRead
<1> QED BY <1>0, <1>2, <1>3, <1>4, WorthBound

\* What was read after the dot is at most what the text is worth.
LEMMA FractionBound ==
  ASSUME Common!CommonTypesAssumption, NEW t \in Texts, NEW k \in 2 .. Len(t), NEW p \in 2 .. k,
         NEW v, FractionRead(t, p, k, v), Splits(t, p - 1)
  PROVE  v \in Nat /\ SplitWorth(t, p - 1) \in Nat /\ v <= SplitWorth(t, p - 1)
<1> DEFINE j == p - 1
           ds == DigitsAt(t, j)
           i == k - 1
<1>0. Len(t) \in Nat /\ j \in 1 .. Len(t) /\ j < Len(t) /\ p = j + 1 /\ i \in Nat /\ k \in Nat /\ i <= Len(t) - 1
  BY DEF Texts
<1>1. /\ ds \in Texts
      /\ j < Len(t) => Len(ds) = Len(t) - 1
      /\ \A h \in 1 .. j : ds[h] = t[h]
      /\ \A h \in j + 1 .. Len(t) - 1 : ds[h] = t[h + 1]
  BY <1>0, DigitsOf
<1>2. ds = DigitsAt(t, j)
  OBVIOUS
<1>3. \A h \in p .. i : h \in j + 1 .. Len(t) - 1
  BY <1>0
<1> HIDE DEF ds
<1>4. Len(ds) >= i /\ i \in 0 .. Len(ds)
  BY <1>0, <1>1
<1>5. ReadOff(ds)[i] = v
  BY <1>1, <1>3, <1>4 DEF FractionRead
<1> HIDE DEF i, j
<1>6. v \in Nat /\ SplitWorth(t, j) \in Nat /\ v <= SplitWorth(t, j)
  <2>1. Splits(t, j)
    BY DEF j
  <2> QED BY <1>0, <1>2, <1>4, <1>5, <2>1, WorthBound
<1> QED BY <1>6 DEF j

\* The first k characters are digits; a dot is at p, after digits.
WholeDigits(t, k) == \A i \in 1 .. k : t[i] <= 9
DotAt(t, p) == p \in 2 .. Len(t) /\ WholeDigits(t, p - 1) /\ t[p] = Common!Dot
Decimal(t, p, k) == DotAt(t, p) /\ k \in p .. Len(t) /\ \A i \in p + 1 .. k : t[i] <= 9

\* A text is split after all its first digits.
LEMMA SplitAfter ==
  ASSUME NEW t \in Texts, NEW k \in 0 .. Len(t), WholeDigits(t, k), NEW j \in 1 .. Len(t), Splits(t, j)
  PROVE  j \in k .. Len(t)
<1>0. Len(t) \in Nat
  BY DEF Texts
<1>1. CASE j < k
  <2>1. j + 1 \in 1 .. k /\ j < Len(t)
    BY <1>0, <1>1
  <2>2. t[j + 1] <= 9 /\ t[j + 1] = Common!Dot
    BY <2>1 DEF WholeDigits, Splits
  <2> QED BY <2>2 DEF Common!Dot
<1> QED BY <1>0, <1>1

\* No split goes beyond a character that is not a digit.
LEMMA SplitBefore ==
  ASSUME NEW t \in Texts, NEW k \in 1 .. Len(t), t[k] > 9, NEW j \in 1 .. Len(t), Splits(t, j)
  PROVE  j < k
<1>0. Len(t) \in Nat /\ t[k] \in Nat
  BY DEF Texts
<1>1. CASE k <= j
  <2>1. k \in 1 .. j
    BY <1>0, <1>1
  <2>2. t[k] <= 9
    BY <2>1 DEF Splits
  <2> QED BY <1>0, <2>2
<1> QED BY <1>0, <1>1

\* A text with a dot is split there and nowhere else.
LEMMA SplitAtDot ==
  ASSUME NEW t \in Texts, NEW p, DotAt(t, p), NEW j \in 1 .. Len(t), Splits(t, j)
  PROVE  j = p - 1 /\ j < Len(t)
<1>0. Len(t) \in Nat /\ p \in 2 .. Len(t) /\ p - 1 \in 0 .. Len(t) /\ p \in 1 .. Len(t)
  BY DEF Texts, DotAt
<1>1. WholeDigits(t, p - 1) /\ t[p] > 9
  BY DEF DotAt, Common!Dot
<1>2. j \in p - 1 .. Len(t)
  BY <1>0, <1>1, SplitAfter
<1>3. j < p
  BY <1>0, <1>1, SplitBefore
<1> QED BY <1>0, <1>2, <1>3

-----------------------------------------------------------------------------
(* A text that was read to its end.                                        *)

\* The one amount of digits without a dot.
LEMMA WholeAmount ==
  ASSUME Common!CommonTypesAssumption, NEW t \in Texts, Len(t) >= 1, WholeDigits(t, Len(t)),
         t[1] = 0 => Len(t) = 1, NEW v, WholeRead(t, Len(t), v)
  PROVE  AmountsOf(t) = {v * Common!Ten[Decimals]}
<1> DEFINE k == Len(t)
           ds == DigitsAt(t, k)
<1>0. k \in Nat /\ k >= 1 /\ k \in 1 .. Len(t) /\ k \in 0 .. Len(t) /\ Decimals \in Nat
  BY DEF Texts, Common!CommonTypesAssumption
<1>1. /\ ds \in Texts /\ Len(ds) = k
      /\ \A i \in 1 .. k : ds[i] = t[i]
  BY <1>0, DigitsOf
<1>2. ReadOff(ds)[k] = v
  <2>1. Len(ds) >= k
    BY <1>0, <1>1
  <2> HIDE DEF ds
  <2> QED BY <1>1, <2>1 DEF WholeRead
<1>3. Decimals + k - k = Decimals
  BY <1>0
<1>4. SplitWorth(t, k) = v * Common!Ten[Decimals]
  <2>1. SplitWorth(t, k) = ReadOff(ds)[Len(ds)] * Common!Ten[Decimals + k - Len(ds)]
    BY <1>0, SplitWorthIs
  <2> QED BY <1>1, <1>2, <1>3, <2>1
<1>5. Splits(t, k)
  BY <1>0 DEF Splits, WholeDigits
<1>6. \A j \in 1 .. Len(t) : Splits(t, j) => j = k
  <2> TAKE j \in 1 .. Len(t)
  <2> HAVE Splits(t, j)
  <2>1. j \in k .. Len(t)
    BY <1>0, SplitAfter
  <2> QED BY <1>0, <2>1
<1>7. \A a : a \in AmountsOf(t) <=> a = v * Common!Ten[Decimals]
  <2>1. k \in 1 .. Len(t)
    BY <1>0
  <2> HIDE DEF k
  <2> QED BY <1>4, <1>5, <1>6, <2>1, AmountsAre
<1> QED BY <1>7

\* The one amount of digits with a dot.
LEMMA FractionAmount ==
  ASSUME Common!CommonTypesAssumption, NEW t \in Texts, NEW p, Decimal(t, p, Len(t)),
         t[1] = 0 => p = 2, NEW d \in 1 .. Decimals, Len(t) = p + d,
         NEW v, FractionRead(t, p, Len(t), v)
  PROVE  AmountsOf(t) = {v * Common!Ten[Decimals - d]}
<1> DEFINE k == p - 1
           ds == DigitsAt(t, k)
<1>0. /\ Decimals \in Nat /\ Len(t) \in Nat /\ p \in Nat /\ p >= 2 /\ d \in Nat /\ d >= 1 /\ d <= Decimals
      /\ k \in 1 .. Len(t) /\ k < Len(t) /\ k + 1 = p /\ Len(t) = p + d /\ DotAt(t, p)
  <2>1. Decimals \in Nat
    BY DEF Common!CommonTypesAssumption
  <2>2. DotAt(t, p) /\ p \in 2 .. Len(t) /\ Len(t) \in Nat
    BY DEF Texts, Decimal, DotAt
  <2> QED BY <2>1, <2>2
<1>1. /\ ds \in Texts /\ Len(ds) = Len(t) - 1
      /\ \A i \in 1 .. k : ds[i] = t[i]
      /\ \A i \in k + 1 .. Len(t) - 1 : ds[i] = t[i + 1]
  BY <1>0, DigitsOf
<1>2. ReadOff(ds)[Len(t) - 1] = v
  <2>1. Len(ds) >= Len(t) - 1 /\ \A i \in p .. Len(t) - 1 : i \in k + 1 .. Len(t) - 1
    BY <1>0, <1>1
  <2> HIDE DEF ds
  <2> QED BY <1>1, <2>1 DEF FractionRead
<1>3. Decimals + k - (Len(t) - 1) = Decimals - d
  BY <1>0
<1>4. SplitWorth(t, k) = v * Common!Ten[Decimals - d]
  <2>1. SplitWorth(t, k) = ReadOff(ds)[Len(ds)] * Common!Ten[Decimals + k - Len(ds)]
    BY <1>0, SplitWorthIs
  <2> QED BY <1>1, <1>2, <1>3, <2>1
<1>5. Splits(t, k)
  <2>1. \A i \in 1 .. k : t[i] <= 9
    BY DEF Decimal, DotAt, WholeDigits
  <2>2. t[k + 1] = Common!Dot /\ (t[1] = 0 => k = 1)
    BY <1>0 DEF DotAt
  <2>3. Len(t) - k >= 2 /\ Len(t) - k <= Decimals + 1
    BY <1>0
  <2>4. \A i \in k + 2 .. Len(t) : t[i] <= 9
    <3>1. \A i \in k + 2 .. Len(t) : i \in p + 1 .. Len(t)
      BY <1>0
    <3> QED BY <3>1 DEF Decimal
  <2> QED BY <2>1, <2>2, <2>3, <2>4 DEF Splits
<1>6. \A j \in 1 .. Len(t) : Splits(t, j) => j = k
  BY <1>0, SplitAtDot
<1>7. \A a : a \in AmountsOf(t) <=> a = v * Common!Ten[Decimals - d]
  <2>1. k \in 1 .. Len(t)
    BY <1>0
  <2> HIDE DEF k
  <2> QED BY <1>4, <1>5, <1>6, <2>1, AmountsAre
<1> QED BY <1>7

-----------------------------------------------------------------------------
(* Texts that are no amount, or too large a one.                           *)

\* A text without a split has no amount.
LEMMA NoAmount ==
  ASSUME Common!CommonTypesAssumption, NEW t \in Texts, \A j \in 1 .. Len(t) : ~Splits(t, j)
  PROVE  AmountsOf(t) \cap Common!u64 = {}
BY AmountsAre

\* A text worth more than an u64 holds has no amount.
LEMMA TooLarge ==
  ASSUME Common!CommonTypesAssumption, NEW t \in Texts, NEW v \in Nat, v \notin Common!u64,
         \A j \in 1 .. Len(t) : Splits(t, j) => SplitWorth(t, j) \in Nat /\ v <= SplitWorth(t, j)
  PROVE  AmountsOf(t) \cap Common!u64 = {}
<1>1. Limit \in Nat /\ v >= Limit
  BY DEF Common!CommonTypesAssumption, Common!u64
<1>2. ASSUME NEW a \in AmountsOf(t) PROVE a \notin Common!u64
  <2>1. PICK j \in 1 .. Len(t) : Splits(t, j) /\ a = SplitWorth(t, j)
    BY <1>2, AmountsAre
  <2>2. a \in Nat /\ v <= a
    BY <2>1
  <2> QED BY <1>1, <2>2 DEF Common!u64
<1> QED BY <1>2

\* No amount starts with another character than a digit.
LEMMA FirstWrong ==
  ASSUME Common!CommonTypesAssumption, NEW t \in Texts, Len(t) >= 1, t[1] > 9
  PROVE  AmountsOf(t) \cap Common!u64 = {}
<1>0. Len(t) \in Nat /\ 1 \in 1 .. Len(t)
  BY DEF Texts
<1>1. \A j \in 1 .. Len(t) : ~Splits(t, j)
  <2> SUFFICES ASSUME NEW j \in 1 .. Len(t), Splits(t, j) PROVE FALSE
    OBVIOUS
  <2>1. j < 1
    BY <1>0, SplitBefore
  <2> QED BY <1>0, <2>1
<1> QED BY <1>1, NoAmount

\* The empty text is no amount.
LEMMA EmptyWrong ==
  ASSUME Common!CommonTypesAssumption, NEW t \in Texts, Len(t) = 0
  PROVE  AmountsOf(t) \cap Common!u64 = {}
<1>1. 1 .. Len(t) = {}
  OBVIOUS
<1> QED BY <1>1, NoAmount

\* No amount has such a character after the digits before the dot.
LEMMA WholeWrong ==
  ASSUME Common!CommonTypesAssumption, NEW t \in Texts, NEW k \in 1 .. Len(t) - 1, WholeDigits(t, k),
         t[k + 1] # Common!Dot, t[k + 1] > 9 \/ (t[1] = 0 /\ k = 1)
  PROVE  AmountsOf(t) \cap Common!u64 = {}
<1>0. Len(t) \in Nat /\ k \in Nat /\ k < Len(t) /\ k \in 0 .. Len(t) /\ k + 1 \in 1 .. Len(t)
  BY DEF Texts
<1>1. ASSUME NEW j \in 1 .. Len(t), Splits(t, j) PROVE FALSE
  <2>1. j \in k .. Len(t)
    BY <1>0, <1>1, SplitAfter
  <2>2. j # k
    BY <1>0, <1>1 DEF Splits
  <2>3. CASE t[k + 1] > 9
    <3>1. j < k + 1
      BY <1>0, <1>1, <2>3, SplitBefore
    <3> QED BY <1>0, <2>1, <2>2, <3>1
  <2>4. CASE t[1] = 0 /\ k = 1
    <3>1. j = 1
      BY <1>1, <2>4 DEF Splits
    <3> QED BY <2>2, <2>4, <3>1
  <2> QED BY <2>3, <2>4
<1> QED BY <1>1, NoAmount

\* The digits before the dot may be too large already.
LEMMA WholeLarge ==
  ASSUME Common!CommonTypesAssumption, NEW t \in Texts, NEW k \in 1 .. Len(t), WholeDigits(t, k),
         NEW v \in Nat, WholeRead(t, k, v), v \notin Common!u64
  PROVE  AmountsOf(t) \cap Common!u64 = {}
<1>0. Len(t) \in Nat /\ k \in 0 .. Len(t)
  BY DEF Texts
<1>1. ASSUME NEW j \in 1 .. Len(t), Splits(t, j)
      PROVE  SplitWorth(t, j) \in Nat /\ v <= SplitWorth(t, j)
  <2>1. j \in k .. Len(t)
    BY <1>0, <1>1, SplitAfter
  <2> QED BY <1>1, <2>1, WholeBound
<1> QED BY <1>1, TooLarge

\* No amount has such a character, or so many, after the dot.
LEMMA FractionWrong ==
  ASSUME Common!CommonTypesAssumption, NEW t \in Texts, NEW p, NEW k, Decimal(t, p, k), k < Len(t),
         k - p >= Decimals \/ t[k + 1] > 9
  PROVE  AmountsOf(t) \cap Common!u64 = {}
<1>0. Len(t) \in Nat /\ p \in 2 .. Len(t) /\ k \in p .. Len(t) /\ Decimals \in Nat /\ DotAt(t, p)
  BY DEF Texts, Decimal, DotAt, Common!CommonTypesAssumption
<1>1. ASSUME NEW j \in 1 .. Len(t), Splits(t, j) PROVE FALSE
  <2>1. j = p - 1 /\ j < Len(t)
    BY <1>0, <1>1, SplitAtDot
  <2>2. Len(t) - j <= Decimals + 1 /\ \A i \in j + 2 .. Len(t) : t[i] <= 9
    BY <1>1, <2>1 DEF Splits
  <2>3. ~(k - p >= Decimals)
    BY <1>0, <2>1, <2>2
  <2>4. k + 1 \in j + 2 .. Len(t)
    BY <1>0, <2>1
  <2>5. t[k + 1] <= 9 /\ t[k + 1] > 9
    BY <2>2, <2>3, <2>4
  <2>6. t[k + 1] \in Nat
    BY <1>0, <2>1, <2>4 DEF Texts
  <2> QED BY <2>5, <2>6
<1> QED BY <1>1, NoAmount

\* The digits after the dot may be too large.
LEMMA FractionLarge ==
  ASSUME Common!CommonTypesAssumption, NEW t \in Texts, NEW p, NEW k, Decimal(t, p, k),
         NEW v \in Nat, FractionRead(t, p, k, v), v \notin Common!u64
  PROVE  AmountsOf(t) \cap Common!u64 = {}
<1>0. Len(t) \in Nat /\ p \in 2 .. k /\ k \in 2 .. Len(t) /\ DotAt(t, p)
  BY DEF Texts, Decimal, DotAt
<1>1. ASSUME NEW j \in 1 .. Len(t), Splits(t, j)
      PROVE  SplitWorth(t, j) \in Nat /\ v <= SplitWorth(t, j)
  <2>1. j = p - 1
    BY <1>0, <1>1, SplitAtDot
  <2> QED BY <1>0, <1>1, <2>1, FractionBound
<1> QED BY <1>1, TooLarge

\* No amount ends with the dot.
LEMMA DotLast ==
  ASSUME Common!CommonTypesAssumption, NEW t \in Texts, DotAt(t, Len(t))
  PROVE  AmountsOf(t) \cap Common!u64 = {}
<1>0. Len(t) \in Nat
  BY DEF Texts
<1>1. ASSUME NEW j \in 1 .. Len(t), Splits(t, j) PROVE FALSE
  <2>1. j = Len(t) - 1 /\ j < Len(t)
    BY <1>1, SplitAtDot
  <2>2. Len(t) - j >= 2
    BY <1>1, <2>1 DEF Splits
  <2> QED BY <1>0, <2>1, <2>2
<1> QED BY <1>1, NoAmount

\* What the parser has read, in each of its states.
Reads(t, k, s, d, v) ==
  \/ s = 0 /\ k = 0 /\ d = 0
  \/ s = 1 /\ k = 1 /\ d = 0 /\ 1 <= Len(t) /\ t[1] = 0 /\ WholeRead(t, 1, v)
  \/ s = 2 /\ k \in 1 .. Len(t) /\ d = 0 /\ t[1] # 0 /\ WholeDigits(t, k) /\ WholeRead(t, k, v)
  \/ /\ s = 3 /\ d \in 0 .. Decimals /\ Decimal(t, k - d, k)
     /\ (t[1] = 0 => k - d = 2) /\ FractionRead(t, k - d, k, v)

AmountInv ==
  /\ text \in Texts /\ reading \in {"Open", "Ok", "Err"}
  /\ reading = "Open" => Reads(text, at, state, after_dot, number)
  /\ reading = "Ok" => AmountsOf(text) = {number}
  /\ reading = "Err" => AmountsOf(text) \cap Common!u64 = {}
  /\ printed # <<>> => \E a \in Common!u64 : printed = <<a>> /\ text = Common!DisplayAmount(a)

Parsing == Common!TypeOK /\ AmountInv /\ kind = "amount" /\ reading = "Open"

\* A step that reads one character keeps the invariant.
LEMMA StepKeeps ==
  ASSUME Common!CommonTypesAssumption, Parsing, Common!More, NEW s \in 0 .. 3, NEW v \in Common!u64, NEW d,
         after_dot + d \in 0 .. Decimals, Common!Step(s, v, d),
         Reads(text, at + 1, s, after_dot + d, v)
  PROVE  AmountInv' /\ Common!TypeOK'
<1>1. /\ at' = at + 1 /\ state' = s /\ number' = v /\ after_dot' = after_dot + d
      /\ kind' = kind /\ text' = text /\ printed' = printed /\ reading' = reading
  BY DEF Common!Step
<1>2. AmountInv'
  BY <1>1 DEF Parsing, AmountInv, Common!u64
<1>3. at + 1 \in 0 .. Len(text)
  BY DEF Parsing, Common!TypeOK, Common!More, AmountInv, Texts
<1>4. Common!TypeOK'
  BY <1>1, <1>3 DEF Parsing, Common!TypeOK, Common!u64
<1> QED BY <1>2, <1>4

\* A refusal is right where the text has no amount.
LEMMA CommonErr ==
  ASSUME Parsing, Common!Err, AmountsOf(text) \cap Common!u64 = {}
  PROVE  AmountInv' /\ Common!TypeOK'
<1>1. /\ at' = at /\ state' = state /\ number' = number /\ after_dot' = after_dot
      /\ kind' = kind /\ text' = text /\ printed' = printed /\ reading' = "Err"
  BY DEF Common!Err
<1>2. AmountInv'
  BY <1>1 DEF Parsing, AmountInv, Common!u64
<1>3. Common!TypeOK'
  BY <1>1 DEF Parsing, Common!TypeOK, Common!u64
<1> QED BY <1>2, <1>3

\* An answer is right where it is the one amount of the text.
LEMMA OkKeeps ==
  ASSUME Parsing, NEW v \in Common!u64, Common!Ok(v), AmountsOf(text) = {v}
  PROVE  AmountInv' /\ Common!TypeOK'
<1>1. /\ at' = at /\ state' = state /\ number' = v /\ after_dot' = after_dot
      /\ kind' = kind /\ text' = text /\ printed' = printed /\ reading' = "Ok"
  BY DEF Common!Ok
<1>2. AmountInv'
  BY <1>1 DEF Parsing, AmountInv, Common!u64
<1>3. Common!TypeOK'
  BY <1>1 DEF Parsing, Common!TypeOK, Common!u64
<1> QED BY <1>2, <1>3

-----------------------------------------------------------------------------
\* Where the parser is.
LEMMA ParsingAt ==
  ASSUME Common!CommonTypesAssumption, Parsing
  PROVE  /\ text \in Texts /\ Len(text) \in Nat /\ at \in 0 .. Len(text) /\ number \in Common!u64 /\ number \in Nat
         /\ Decimals \in Nat /\ Limit \in Nat /\ Limit > 9 /\ after_dot \in Nat
         /\ Reads(text, at, state, after_dot, number)
         /\ Common!More => /\ at + 1 \in 1 .. Len(text) /\ at \in 0 .. Len(text) - 1
                    /\ Common!c = text[at + 1] /\ Common!c \in Nat
         /\ ~Common!More => at = Len(text)
<1>1. text \in Texts /\ at \in 0 .. Len(text) /\ number \in Common!u64 /\ Reads(text, at, state, after_dot, number)
      /\ after_dot \in 0 .. Decimals
  BY DEF Parsing, Common!TypeOK, AmountInv
<1>2. Decimals \in Nat /\ Limit \in Nat /\ Limit > 9
  BY DEF Common!CommonTypesAssumption
<1>3. Len(text) \in Nat
  BY <1>1 DEF Texts
<1>4. number \in Nat /\ after_dot \in Nat
  BY <1>1, <1>2 DEF Common!u64
<1>5. ASSUME Common!More
      PROVE  at + 1 \in 1 .. Len(text) /\ at \in 0 .. Len(text) - 1 /\ Common!c = text[at + 1] /\ Common!c \in Nat
  <2>1. at + 1 \in 1 .. Len(text) /\ at \in 0 .. Len(text) - 1
    BY <1>1, <1>3, <1>5 DEF Common!More
  <2> QED BY <1>1, <2>1 DEF Common!c, Texts
<1>6. ~Common!More => at = Len(text)
  BY <1>1, <1>3 DEF Common!More
<1> QED BY <1>1, <1>2, <1>3, <1>4, <1>5, <1>6

\* The first character.
LEMMA FirstKeeps ==
  ASSUME Common!CommonTypesAssumption, Parsing, Common!More, Common!First
  PROVE  AmountInv' /\ Common!TypeOK'
<1>1. state = 0 /\ at = 0 /\ after_dot = 0
  BY ParsingAt DEF Common!First, Reads
<1>2. /\ text \in Texts /\ Len(text) >= 1 /\ at + 1 = 1 /\ 0 \in 0 .. Len(text) - 1
      /\ Common!c = text[1] /\ text[1] \in Nat /\ Decimals \in Nat
  BY <1>1, ParsingAt
<1> DEFINE x == text[1]
<1>3. WholeRead(text, 1, x)
  <2>1. WholeRead(text, 0, 0)
    BY WholeStarts
  <2>2. WholeRead(text, 0 + 1, 10 * 0 + text[0 + 1])
    BY <1>2, <2>1, WholeStep
  <2>3. 0 + 1 = 1 /\ 10 * 0 + x = x
    BY <1>2
  <2> QED BY <2>2, <2>3
<1>4. CASE x <= 9
  <2>1. x \in Common!u64 /\ Common!c < 10 /\ after_dot + 0 = 0 /\ 0 \in 0 .. Decimals
    BY <1>1, <1>2, <1>4, ParsingAt DEF Common!u64
  <2>2. CASE x = 0
    <3>1. Common!Step(1, x, 0)
      BY <1>2, <2>1, <2>2 DEF Common!First
    <3>2. Reads(text, at + 1, 1, after_dot + 0, x)
      BY <1>2, <1>3, <2>1, <2>2 DEF Reads
    <3> QED BY <2>1, <3>1, <3>2, StepKeeps
  <2>3. CASE x # 0
    <3>1. Common!Step(2, x, 0)
      BY <1>2, <2>1, <2>3 DEF Common!First
    <3>2. WholeDigits(text, 1)
      <4>1. \A i \in 1 .. 1 : i = 1
        OBVIOUS
      <4> QED BY <1>4, <4>1 DEF WholeDigits
    <3>3. Reads(text, at + 1, 2, after_dot + 0, x)
      <4>1. 1 \in 1 .. Len(text)
        BY <1>2
      <4> QED BY <1>2, <1>3, <2>1, <2>3, <3>2, <4>1 DEF Reads
    <3> QED BY <2>1, <3>1, <3>3, StepKeeps
  <2> QED BY <2>2, <2>3
<1>5. CASE x > 9
  <2>1. Common!Err
    <3>1. ~(Common!c < 10)
      BY <1>2, <1>5
    <3> QED BY <3>1 DEF Common!First
  <2>2. AmountsOf(text) \cap Common!u64 = {}
    BY <1>2, <1>5, FirstWrong
  <2> QED BY <2>1, <2>2, CommonErr
<1> QED BY <1>2, <1>4, <1>5

\* The character after a leading zero.
LEMMA AfterZeroKeeps ==
  ASSUME Common!CommonTypesAssumption, Parsing, Common!More, Common!AfterZero
  PROVE  AmountInv' /\ Common!TypeOK'
<1>1. state = 1 /\ at = 1 /\ after_dot = 0 /\ text[1] = 0 /\ WholeRead(text, 1, number)
  BY ParsingAt DEF Common!AfterZero, Reads
<1>2. /\ text \in Texts /\ Len(text) \in Nat /\ at + 1 = 2 /\ 2 <= Len(text)
      /\ Common!c = text[2] /\ text[2] \in Nat /\ Decimals \in Nat /\ number \in Common!u64
  BY <1>1, ParsingAt
<1>3. WholeDigits(text, 1)
  <2>1. \A i \in 1 .. 1 : i = 1
    OBVIOUS
  <2> QED BY <1>1, <2>1 DEF WholeDigits
<1>4. 1 \in 0 .. Len(text) - 1 /\ 1 \in 1 .. Len(text) - 1 /\ 1 + 1 = 2 /\ 2 - 1 = 1
  BY <1>2
<1>5. CASE Common!c = Common!Dot
  <2>1. Common!Step(3, number, 0)
    BY <1>5 DEF Common!AfterZero
  <2>2. FractionRead(text, 2, 2, number)
    <3>1. FractionRead(text, 1 + 1, 1 + 1, number)
      BY <1>1, <1>2, <1>4, DotRead
    <3> QED BY <1>4, <3>1
  <2>3. Decimal(text, 2, 2)
    <3>1. 2 \in 2 .. Len(text) /\ \A i \in 2 + 1 .. 2 : FALSE
      BY <1>2
    <3> QED BY <1>2, <1>3, <1>4, <1>5, <3>1 DEF Decimal, DotAt
  <2>4. Reads(text, at + 1, 3, after_dot + 0, number)
    <3>1. after_dot + 0 = 0 /\ at + 1 - 0 = 2 /\ at + 1 = 2 /\ 0 \in 0 .. Decimals /\ 2 - 0 = 2
      BY <1>1, <1>2
    <3>2. Reads(text, 2, 3, 0, number)
      BY <2>2, <2>3, <3>1 DEF Reads
    <3> QED BY <3>1, <3>2
  <2>5. 3 \in 0 .. 3 /\ after_dot + 0 \in 0 .. Decimals
    BY <1>1, <1>2
  <2> QED BY <1>2, <2>1, <2>4, <2>5, StepKeeps
<1>6. CASE Common!c # Common!Dot
  <2>1. Common!Err
    BY <1>6 DEF Common!AfterZero
  <2>2. AmountsOf(text) \cap Common!u64 = {}
    BY <1>1, <1>2, <1>3, <1>4, <1>6, WholeWrong
  <2> QED BY <2>1, <2>2, CommonErr
<1> QED BY <1>5, <1>6

\* What the next number is.
LEMMA NextNumber ==
  ASSUME Common!CommonTypesAssumption, Parsing, Common!More, NEW v, v = 10 * number + Common!c
  PROVE  v \in Nat /\ v = 10 * number + text[at + 1]
<1>1. number \in Nat /\ Common!c \in Nat /\ Common!c = text[at + 1]
  BY ParsingAt
<1>2. \A x, y \in Nat : 10 * x + y \in Nat
  OBVIOUS
<1> QED BY ONLY <1>1, <1>2, v = 10 * number + Common!c

\* One more digit.
LEMMA DigitsGrow ==
  ASSUME NEW t \in Texts, NEW k \in 1 .. Len(t) - 1, WholeDigits(t, k), t[k + 1] <= 9
  PROVE  WholeDigits(t, k + 1)
<1>1. \A i \in 1 .. k + 1 : i = k + 1 \/ i \in 1 .. k
  BY DEF Texts
<1> QED BY <1>1 DEF WholeDigits

\* A digit before the dot.
LEMMA WholeDigitKeeps ==
  ASSUME Common!CommonTypesAssumption, Parsing, Common!More, state = 2, Common!c < 10, Common!Digit(0)
  PROVE  AmountInv' /\ Common!TypeOK'
<1>1. /\ at \in 1 .. Len(text) /\ after_dot = 0 /\ text[1] # 0 /\ WholeDigits(text, at)
      /\ WholeRead(text, at, number)
  BY ParsingAt DEF Reads
<1>2. /\ text \in Texts /\ Len(text) \in Nat /\ at \in 1 .. Len(text) - 1 /\ at \in 0 .. Len(text) - 1
      /\ at + 1 \in 1 .. Len(text) /\ Common!c = text[at + 1] /\ Common!c \in Nat /\ Decimals \in Nat
  BY <1>1, ParsingAt
<1> DEFINE v == 10 * number + Common!c
<1>3. v \in Nat /\ WholeRead(text, at + 1, v)
  <2>1. v \in Nat /\ v = 10 * number + text[at + 1]
    BY NextNumber
  <2>2. WholeRead(text, at + 1, 10 * number + text[at + 1])
    BY <1>1, <1>2, WholeStep
  <2> QED BY <2>1, <2>2
<1>4. WholeDigits(text, at + 1)
  <2>1. text[at + 1] <= 9
    BY <1>2
  <2> QED BY <1>1, <1>2, <2>1, DigitsGrow
<1>5. CASE v \in Common!u64
  <2>1. Common!Step(2, v, 0)
    BY <1>5 DEF Common!Digit
  <2>2. Reads(text, at + 1, 2, after_dot + 0, v)
    <3>1. after_dot + 0 = 0
      BY <1>1
    <3> HIDE DEF v
    <3>2. Reads(text, at + 1, 2, 0, v)
      BY <1>1, <1>2, <1>3, <1>4 DEF Reads
    <3> QED BY <3>1, <3>2
  <2>3. 2 \in 0 .. 3 /\ after_dot + 0 \in 0 .. Decimals
    BY <1>1, <1>2
  <2> HIDE DEF v
  <2> QED BY <1>5, <2>1, <2>2, <2>3, StepKeeps
<1>6. CASE v \notin Common!u64
  <2>1. Common!Err
    BY <1>6 DEF Common!Digit
  <2>2. AmountsOf(text) \cap Common!u64 = {}
    <3> HIDE DEF v
    <3> QED BY <1>2, <1>3, <1>4, <1>6, WholeLarge
  <2> QED BY <2>1, <2>2, CommonErr
<1> QED BY <1>5, <1>6

\* A character before the dot.
LEMMA WholeKeeps ==
  ASSUME Common!CommonTypesAssumption, Parsing, Common!More, Common!Whole
  PROVE  AmountInv' /\ Common!TypeOK'
<1>0. state = 2
  BY DEF Common!Whole
<1>1. /\ at \in 1 .. Len(text) /\ after_dot = 0 /\ text[1] # 0 /\ WholeDigits(text, at)
      /\ WholeRead(text, at, number)
  BY <1>0, ParsingAt DEF Reads
<1>2. /\ text \in Texts /\ Len(text) \in Nat /\ at \in 1 .. Len(text) - 1 /\ at \in 0 .. Len(text) - 1
      /\ at + 1 \in 1 .. Len(text) /\ Common!c = text[at + 1] /\ Common!c \in Nat /\ Decimals \in Nat /\ number \in Common!u64
  BY <1>1, ParsingAt
<1>3. CASE Common!c < 10 /\ Common!Digit(0)
  BY <1>0, <1>3, WholeDigitKeeps
<1>4. CASE Common!c = Common!Dot /\ Common!Step(3, number, 0)
  <2>1. FractionRead(text, at + 1, at + 1, number)
    BY <1>1, <1>2, DotRead
  <2>2. Decimal(text, at + 1, at + 1)
    <3>1. at + 1 \in 2 .. Len(text) /\ at + 1 - 1 = at /\ at + 1 \in at + 1 .. Len(text)
          /\ \A i \in at + 1 + 1 .. at + 1 : FALSE
      BY <1>2
    <3> QED BY <1>1, <1>2, <1>4, <3>1 DEF Decimal, DotAt
  <2>3. Reads(text, at + 1, 3, after_dot + 0, number)
    <3>1. after_dot + 0 = 0 /\ at + 1 - 0 = at + 1 /\ 0 \in 0 .. Decimals
      BY <1>1, <1>2
    <3>2. Reads(text, at + 1, 3, 0, number)
      BY <1>1, <2>1, <2>2, <3>1 DEF Reads
    <3> QED BY <3>1, <3>2
  <2>4. 3 \in 0 .. 3 /\ after_dot + 0 \in 0 .. Decimals
    BY <1>1, <1>2
  <2> QED BY <1>2, <1>4, <2>3, <2>4, StepKeeps
<1>5. CASE Common!c > Common!Dot /\ Common!Err
  <2>1. text[at + 1] # Common!Dot /\ text[at + 1] > 9
    BY <1>2, <1>5 DEF Common!Dot
  <2>2. AmountsOf(text) \cap Common!u64 = {}
    BY <1>1, <1>2, <2>1, WholeWrong
  <2> QED BY <1>5, <2>2, CommonErr
<1> QED BY <1>3, <1>4, <1>5 DEF Common!Whole

-----------------------------------------------------------------------------
\* A digit after the dot.
LEMMA FractionDigitKeeps ==
  ASSUME Common!CommonTypesAssumption, Parsing, Common!More, state = 3, after_dot < Decimals, Common!c < 10, Common!Digit(1)
  PROVE  AmountInv' /\ Common!TypeOK'
<1> DEFINE p == at - after_dot
<1>1. /\ after_dot \in 0 .. Decimals /\ Decimal(text, p, at) /\ (text[1] = 0 => p = 2)
      /\ FractionRead(text, p, at, number)
  BY ParsingAt DEF Reads
<1>2. /\ text \in Texts /\ Len(text) \in Nat /\ at \in 0 .. Len(text) - 1
      /\ at + 1 \in 1 .. Len(text) /\ Common!c = text[at + 1] /\ Common!c \in Nat /\ Decimals \in Nat /\ after_dot \in Nat
  BY ParsingAt
<1>3. /\ p \in 2 .. Len(text) /\ at \in p .. Len(text) /\ DotAt(text, p) /\ p \in 1 .. at
      /\ at \in 1 .. Len(text) - 1 /\ at + 1 \in p .. Len(text)
      /\ after_dot + 1 \in 0 .. Decimals /\ at + 1 - (after_dot + 1) = p
  <2>1. p \in 2 .. Len(text) /\ at \in p .. Len(text) /\ DotAt(text, p)
    BY <1>1 DEF Decimal, DotAt
  <2> QED BY <1>2, <2>1
<1> DEFINE v == 10 * number + Common!c
<1>4. v \in Nat /\ FractionRead(text, p, at + 1, v)
  <2> HIDE DEF p
  <2>1. v \in Nat /\ v = 10 * number + text[at + 1]
    BY NextNumber
  <2>2. FractionRead(text, p, at + 1, 10 * number + text[at + 1])
    BY <1>1, <1>2, <1>3, FractionStep
  <2> QED BY <2>1, <2>2
<1>5. Decimal(text, p, at + 1)
  <2> HIDE DEF p
  <2>1. text[at + 1] <= 9 /\ \A i \in p + 1 .. at + 1 : i = at + 1 \/ i \in p + 1 .. at
    BY <1>2, <1>3
  <2> QED BY <1>1, <1>3, <2>1 DEF Decimal
<1>6. CASE v \in Common!u64
  <2>1. Common!Step(3, v, 1)
    BY <1>6 DEF Common!Digit
  <2>2. Reads(text, at + 1, 3, after_dot + 1, v)
    <3> HIDE DEF v, p
    <3> QED BY <1>1, <1>3, <1>4, <1>5 DEF Reads
  <2> HIDE DEF v
  <2>3. 3 \in 0 .. 3 /\ after_dot + 1 \in 0 .. Decimals
    BY <1>3
  <2> QED BY <1>6, <2>1, <2>2, <2>3, StepKeeps
<1>7. CASE v \notin Common!u64
  <2>1. Common!Err
    BY <1>7 DEF Common!Digit
  <2>2. AmountsOf(text) \cap Common!u64 = {}
    <3> HIDE DEF v, p
    <3> QED BY <1>2, <1>4, <1>5, <1>7, FractionLarge
  <2> QED BY <2>1, <2>2, CommonErr
<1> QED BY <1>6, <1>7

\* A character after the dot.
LEMMA FractionKeeps ==
  ASSUME Common!CommonTypesAssumption, Parsing, Common!More, Common!Fraction
  PROVE  AmountInv' /\ Common!TypeOK'
<1>0. state = 3
  BY DEF Common!Fraction
<1>1. CASE after_dot < Decimals /\ Common!c < 10
  BY <1>0, <1>1, FractionDigitKeeps DEF Common!Fraction
<1>2. CASE ~(after_dot < Decimals /\ Common!c < 10)
  <2> DEFINE p == at - after_dot
  <2>1. Common!Err
    BY <1>2 DEF Common!Fraction
  <2>2. Decimal(text, p, at)
    BY <1>0, ParsingAt DEF Reads
  <2>3. /\ text \in Texts /\ Len(text) \in Nat /\ at \in Nat /\ at < Len(text) /\ Common!c = text[at + 1] /\ Common!c \in Nat
        /\ Decimals \in Nat /\ after_dot \in Nat
    BY ParsingAt
  <2>4. at - p >= Decimals \/ text[at + 1] > 9
    BY <1>2, <2>3
  <2>5. AmountsOf(text) \cap Common!u64 = {}
    <3> HIDE DEF p
    <3> QED BY <2>2, <2>3, <2>4, FractionWrong
  <2> QED BY <2>1, <2>5, CommonErr
<1> QED BY <1>1, <1>2

-----------------------------------------------------------------------------
\* At the end of the text.
LEMMA AnswerKeeps ==
  ASSUME Common!CommonTypesAssumption, Parsing, NEW v, AmountsOf(text) = {v},
         v \in Common!u64 => Common!Ok(v), v \notin Common!u64 => Common!Err
  PROVE  AmountInv' /\ Common!TypeOK'
<1>1. CASE v \in Common!u64
  BY <1>1, OkKeeps
<1>2. CASE v \notin Common!u64
  <2>1. AmountsOf(text) \cap Common!u64 = {}
    BY <1>2
  <2> QED BY <1>2, <2>1, CommonErr
<1> QED BY <1>1, <1>2

\* The end of the text.
LEMMA EndKeeps ==
  ASSUME Common!CommonTypesAssumption, Parsing, ~Common!More, Common!EndOfAmount
  PROVE  AmountInv' /\ Common!TypeOK'
<1>1. /\ text \in Texts /\ Len(text) \in Nat /\ at = Len(text) /\ Decimals \in Nat /\ after_dot \in Nat
      /\ Reads(text, at, state, after_dot, number)
  BY ParsingAt
<1>2. CASE state = 0
  <2>1. Len(text) = 0
    BY <1>1, <1>2 DEF Reads
  <2>2. AmountsOf(text) \cap Common!u64 = {}
    BY <1>1, <2>1, EmptyWrong
  <2>3. Common!Err
    BY <1>2 DEF Common!EndOfAmount
  <2> QED BY <2>2, <2>3, CommonErr
<1> DEFINE v == number * Common!Ten[Decimals - after_dot]
<1>3. CASE state \in {1, 2}
  <2>1. /\ after_dot = 0 /\ Len(text) >= 1 /\ WholeDigits(text, Len(text)) /\ (text[1] = 0 => Len(text) = 1)
        /\ WholeRead(text, Len(text), number)
    <3>1. CASE state = 1
      <4>1. after_dot = 0 /\ Len(text) = 1 /\ text[1] = 0 /\ WholeRead(text, 1, number)
        BY <1>1, <3>1 DEF Reads
      <4>2. \A i \in 1 .. 1 : i = 1
        OBVIOUS
      <4> QED BY <4>1, <4>2 DEF WholeDigits
    <3>2. CASE state = 2
      BY <1>1, <3>2 DEF Reads
    <3> QED BY <1>3, <3>1, <3>2
  <2>2. AmountsOf(text) = {number * Common!Ten[Decimals]}
    BY <1>1, <2>1, WholeAmount
  <2>3. Decimals - after_dot = Decimals
    BY <1>1, <2>1
  <2>4. AmountsOf(text) = {v}
    BY <2>2, <2>3
  <2>5. (v \in Common!u64 => Common!Ok(v)) /\ (v \notin Common!u64 => Common!Err)
    BY <1>3 DEF Common!EndOfAmount
  <2> HIDE DEF v
  <2> QED BY <2>4, <2>5, AnswerKeeps
<1>4. CASE state = 3
  <2>0. LET p == at - after_dot
        IN  /\ after_dot \in 0 .. Decimals /\ Decimal(text, p, Len(text)) /\ (text[1] = 0 => p = 2)
            /\ FractionRead(text, p, Len(text), number)
    BY <1>1, <1>4 DEF Reads
  <2> DEFINE p == at - after_dot
  <2>1. CASE after_dot = 0
    <3>1. DotAt(text, Len(text))
      <4>1. p = Len(text)
        BY <1>1, <2>1
      <4> HIDE DEF p
      <4> QED BY <2>0, <4>1 DEF Decimal, p
    <3>2. AmountsOf(text) \cap Common!u64 = {}
      BY <1>1, <3>1, DotLast
    <3>3. Common!Err
      BY <1>4, <2>1 DEF Common!EndOfAmount
    <3> QED BY <3>2, <3>3, CommonErr
  <2>2. CASE after_dot # 0
    <3>1. after_dot \in 1 .. Decimals /\ Len(text) = p + after_dot
      BY <1>1, <2>0, <2>2
    <3>2. AmountsOf(text) = {v}
      <4>1. Decimal(text, p, Len(text)) /\ (text[1] = 0 => p = 2) /\ FractionRead(text, p, Len(text), number)
        BY <2>0
      <4> HIDE DEF p
      <4> QED BY <1>1, <3>1, <4>1, FractionAmount
    <3>3. (v \in Common!u64 => Common!Ok(v)) /\ (v \notin Common!u64 => Common!Err)
      BY <1>4, <2>2 DEF Common!EndOfAmount
    <3> HIDE DEF v
    <3> QED BY <3>2, <3>3, AnswerKeeps
  <2> QED BY <2>1, <2>2
<1>5. state \in 0 .. 3
  BY DEF Parsing, Common!TypeOK
<1> QED BY <1>2, <1>3, <1>4, <1>5

\* Reading an amount keeps the invariant.
LEMMA AmountKeeps ==
  ASSUME Common!CommonTypesAssumption, Parsing, Common!ReadAmount
  PROVE  AmountInv' /\ Common!TypeOK'
BY FirstKeeps, AfterZeroKeeps, WholeKeeps, FractionKeeps, EndKeeps DEF Common!ReadAmount

\* The sums of the measures of a duration from its start.
Total(t) ==
  CHOOSE f : f = [i \in 0 .. Len(t) |-> IF i = 0 THEN 0 ELSE f[i - 1] + Common!Millis(t[i])]

IsText(t) == Len(t) \in Nat /\ DOMAIN t = 1 .. Len(t)

\* The units, and the measures with them.
LEMMA FactorIs ==
  ASSUME Common!CommonTypesAssumption
  PROVE  /\ DOMAIN Common!Factor = {"ms", "s", "m", "h", "d"}
         /\ Common!Factor["ms"] = 1 /\ Common!Factor["s"] = Second /\ Common!Factor["m"] = Minute
         /\ Common!Factor["h"] = Hour /\ Common!Factor["d"] = Day
         /\ \A u \in DOMAIN Common!Factor : Common!Factor[u] \in Nat
<1>1. DOMAIN Common!Factor = {"ms", "s", "m", "h", "d"}
  BY DEF Common!Factor
<1>2. /\ Common!Factor["ms"] = 1 /\ Common!Factor["s"] = Second /\ Common!Factor["m"] = Minute
      /\ Common!Factor["h"] = Hour /\ Common!Factor["d"] = Day
  BY DEF Common!Factor
<1>3. {Second, Minute, Hour, Day} \subseteq Nat
  BY DEF Common!CommonTypesAssumption
<1> QED BY <1>1, <1>2, <1>3

\* The milliseconds of a measure.
LEMMA MillisIs ==
  ASSUME Common!CommonTypesAssumption, NEW x
  PROVE  /\ Common!Millis(x) \in Nat
         /\ Common!IsMeasure(x) => Common!Millis(x) = x[1][1] * Common!Factor[x[2]] /\ x[2] # ""
<1>1. CASE Common!IsMeasure(x)
  <2>1. x[1][1] \in Nat /\ Common!Factor[x[2]] \in Nat
    BY <1>1, FactorIs DEF Common!IsMeasure, Common!u64, Common!CommonTypesAssumption
  <2>2. Common!Millis(x) = x[1][1] * Common!Factor[x[2]]
    BY <1>1 DEF Common!Millis
  <2>3. \A k, l \in Nat : k * l \in Nat
    OBVIOUS
  <2>4. x[2] # ""
    BY <1>1, FactorIs DEF Common!IsMeasure
  <2> QED BY <2>1, <2>2, <2>3, <2>4
<1>2. CASE ~Common!IsMeasure(x)
  BY <1>2 DEF Common!Millis
<1> QED BY <1>1, <1>2

\* The sums grow, one measure at a time.
LEMMA TotalIs ==
  ASSUME Common!CommonTypesAssumption, NEW t, IsText(t)
  PROVE  /\ \A i \in 0 .. Len(t) : Total(t)[i] \in Nat
         /\ Total(t)[0] = 0
         /\ \A i \in 1 .. Len(t) : Total(t)[i] = Total(t)[i - 1] + Common!Millis(t[i])
<1> DEFINE n == Len(t)
           e == [i \in 1 .. n |-> Common!Millis(t[i])]
           IsTotal(f) == f = [i \in 0 .. Len(t) |-> IF i = 0 THEN 0 ELSE f[i - 1] + Common!Millis(t[i])]
<1>1. n \in Nat /\ \A i \in 1 .. n : e[i] \in Nat /\ e[i] = Common!Millis(t[i])
  BY MillisIs DEF IsText
<1>2. PICK h : Accumulated(h, n, 1, e)
  <2> HIDE DEF n, e
  <2> QED BY <1>1, Accumulates
<1>3. h \in [0 .. n -> Nat] /\ h[0] = 0 /\ \A i \in 1 .. n : h[i] = h[i - 1] + e[i]
  <2>1. h \in [0 .. n -> Nat] /\ h[0] = 0 /\ \A i \in 1 .. n : h[i] = 1 * h[i - 1] + e[i]
    BY <1>2 DEF Accumulated
  <2>2. \A i \in 1 .. n : i - 1 \in 0 .. n
    BY <1>1
  <2>3. \A x \in Nat : 1 * x = x
    OBVIOUS
  <2> QED BY <2>1, <2>2, <2>3
<1>4. IsTotal(h)
  <2>1. \A i \in 0 .. n : i # 0 => i \in 1 .. n
    OBVIOUS
  <2>2. \A i \in 0 .. n : h[i] = IF i = 0 THEN 0 ELSE h[i - 1] + Common!Millis(t[i])
    BY <1>1, <1>3, <2>1
  <2>3. h = [i \in 0 .. n |-> h[i]]
    BY <1>3
  <2> QED BY <2>2, <2>3
<1>5. IsTotal(Total(t))
  BY <1>4 DEF Total
<1> DEFINE r == Total(t)
<1>6. r = [i \in 0 .. Len(t) |-> IF i = 0 THEN 0 ELSE r[i - 1] + Common!Millis(t[i])]
  BY <1>5
<1> HIDE DEF r, IsTotal
<1>7. r[0] = 0 /\ \A i \in 1 .. n : r[i] = r[i - 1] + Common!Millis(t[i])
  <2>1. 0 \in 0 .. Len(t) /\ \A i \in 1 .. n : i \in 0 .. Len(t) /\ i # 0
    BY <1>1
  <2> QED BY <1>6, <2>1
<1> DEFINE G == {i \in Nat : i <= n => r[i] = h[i]}
<1> HIDE DEF n, e
<1>8. 0 \in G
  BY <1>3, <1>7
<1>9. ASSUME NEW i \in Nat, i \in G PROVE i + 1 \in G
  <2>1. ASSUME i + 1 <= n PROVE r[i + 1] = h[i + 1]
    <3>1. r[i] = h[i] /\ i + 1 \in 1 .. n /\ (i + 1) - 1 = i
      BY <1>1, <1>9, <2>1
    <3>2. r[i + 1] = r[(i + 1) - 1] + Common!Millis(t[i + 1]) /\ h[i + 1] = h[(i + 1) - 1] + e[i + 1]
          /\ e[i + 1] = Common!Millis(t[i + 1])
      BY <1>1, <1>3, <1>7, <3>1
    <3> QED BY <3>1, <3>2
  <2> QED BY <2>1
<1> HIDE DEF G
<1>10. Nat \subseteq G
  BY <1>8, <1>9, NumberInduction
<1>11. \A i \in 0 .. n : r[i] \in Nat
  BY <1>1, <1>3, <1>10 DEF G
<1> QED BY <1>7, <1>11 DEF r, n

\* The total of a text's measures never falls.
LEMMA TotalRises ==
  ASSUME Common!CommonTypesAssumption, NEW t, IsText(t), NEW j \in 0 .. Len(t)
  PROVE  Total(t)[j] <= Total(t)[Len(t)]
<1> DEFINE n == Len(t)
           r == Total(t)
           G == {k \in Nat : j + k <= n => r[j] <= r[j + k]}
<1>1. /\ n \in Nat /\ j \in Nat /\ j <= n /\ \A i \in 0 .. n : r[i] \in Nat
      /\ \A i \in 1 .. n : r[i] = r[i - 1] + Common!Millis(t[i])
      /\ \A i \in 1 .. n : Common!Millis(t[i]) \in Nat
  <2>1. n \in Nat /\ j \in Nat /\ j <= n
    BY DEF IsText
  <2>2. \A i \in 1 .. n : Common!Millis(t[i]) \in Nat
    BY MillisIs
  <2>3. (\A i \in 0 .. n : r[i] \in Nat) /\ \A i \in 1 .. n : r[i] = r[i - 1] + Common!Millis(t[i])
    BY TotalIs
  <2> HIDE DEF n, r
  <2> QED BY <2>1, <2>2, <2>3
<1> HIDE DEF n, r
<1>2. 0 \in G
  BY <1>1
<1>3. ASSUME NEW k \in Nat, k \in G PROVE k + 1 \in G
  <2>1. ASSUME j + (k + 1) <= n PROVE r[j] <= r[j + (k + 1)]
    <3> DEFINE i == j + (k + 1)
    <3>1. i \in 1 .. n /\ i - 1 = j + k /\ j + k <= n /\ j \in 0 .. n /\ j + k \in 0 .. n
      BY <1>1, <2>1
    <3>2. r[j] <= r[j + k]
      BY <1>3, <3>1
    <3> HIDE DEF i
    <3>3. r[i] = r[j + k] + Common!Millis(t[i]) /\ Common!Millis(t[i]) \in Nat /\ r[j + k] \in Nat /\ r[j] \in Nat
      BY <1>1, <3>1
    <3>4. r[j] <= r[i]
      BY <3>2, <3>3
    <3> QED BY <3>4 DEF i
  <2> QED BY <2>1
<1> HIDE DEF G
<1>4. Nat \subseteq G
  BY <1>2, <1>3, NumberInduction
<1>5. n - j \in G /\ j + (n - j) = n
  BY <1>1, <1>4
<1> QED BY <1>5 DEF G, n, r

-----------------------------------------------------------------------------
\* A duration that is printed.
PrintedMeasures(d) ==
  \A i \in 1 .. 5 : Common!IsMeasure(Common!DisplayDuration(d)[i])

\* A duration is its days, hours, minutes, seconds and rest.
LEMMA DurationParts ==
  ASSUME Common!CommonTypesAssumption, NEW d \in Nat
  PROVE  /\ d \div Day \in Nat /\ d \div Day <= d /\ (d % Day) \div Hour \in Nat /\ (d % Day) \div Hour <= d
         /\ (d % Hour) \div Minute \in Nat /\ (d % Hour) \div Minute <= d
         /\ (d % Minute) \div Second \in Nat /\ (d % Minute) \div Second <= d
         /\ d % Second \in Nat /\ d % Second <= d
         /\ d = (d \div Day) * Day + ((d % Day) \div Hour) * Hour + ((d % Hour) \div Minute) * Minute
                  + ((d % Minute) \div Second) * Second + (d % Second)
<1>1. ASSUME NEW n \in Nat, NEW w \in Nat \ {0}
      PROVE  /\ n \div w \in Nat /\ n \div w <= n /\ n % w \in Nat /\ n % w <= n
             /\ n = (n \div w) * w + (n % w) /\ (n \div w) * w \in Nat
  <2> DEFINE q == n \div w
             r == n % w
  <2>1. q \in Nat /\ r \in Nat /\ n = w * q + r /\ q <= n
    BY DivMod, DivBelow
  <2> HIDE DEF q, r
  <2>2. w * q = q * w /\ q * w \in Nat
    BY <2>1
  <2> DEFINE p == q * w
  <2>3. p \in Nat /\ n = p + r
    BY <2>1, <2>2
  <2> HIDE DEF p
  <2>4. r <= n
    BY <2>1, <2>3
  <2> QED BY <2>1, <2>3, <2>4 DEF q, r, p
<1>2. /\ {Second, Minute, Hour, Day} \subseteq Nat \ {0}
      /\ Minute % Second = 0 /\ Hour % Minute = 0 /\ Day % Hour = 0
  BY DEF Common!CommonTypesAssumption
<1> DEFINE x == d % Day
           y == d % Hour
           z == d % Minute
           s == d % Second
           a == (d \div Day) * Day
           b == (x \div Hour) * Hour
           e == (y \div Minute) * Minute
           f == (z \div Second) * Second
<1>3. x \in Nat /\ x <= d /\ d = a + x /\ a \in Nat /\ d \div Day \in Nat /\ d \div Day <= d
  BY <1>1, <1>2
<1>4. y \in Nat /\ y <= d /\ z \in Nat /\ z <= d /\ s \in Nat /\ s <= d
  BY <1>1, <1>2
<1>5. x % Hour = y /\ y % Minute = z /\ z % Second = s
  BY <1>2, ModOfMod
<1> HIDE DEF x, y, z, s
<1>6. x = b + y /\ b \in Nat /\ x \div Hour \in Nat /\ x \div Hour <= x
  BY <1>1, <1>2, <1>3, <1>5
<1>7. y = e + z /\ e \in Nat /\ y \div Minute \in Nat /\ y \div Minute <= y
  BY <1>1, <1>2, <1>4, <1>5
<1>8. z = f + s /\ f \in Nat /\ z \div Second \in Nat /\ z \div Second <= z
  BY <1>1, <1>2, <1>4, <1>5
<1>9. d = a + b + e + f + s
  <2> HIDE DEF a, b, e, f
  <2> QED BY <1>3, <1>4, <1>6, <1>7, <1>8
<1>10. x \div Hour <= d /\ y \div Minute <= d /\ z \div Second <= d
  <2> DEFINE k == x \div Hour
             l == y \div Minute
             m == z \div Second
  <2>1. k \in Nat /\ k <= x /\ l \in Nat /\ l <= y /\ m \in Nat /\ m <= z
    BY <1>6, <1>7, <1>8
  <2> HIDE DEF k, l, m
  <2>2. k <= d /\ l <= d /\ m <= d
    BY <1>3, <1>4, <2>1
  <2> QED BY <2>2 DEF k, l, m
<1> QED BY <1>3, <1>4, <1>6, <1>7, <1>8, <1>9, <1>10 DEF x, y, z, s, a, b, e, f

\* DisplayDuration writes five measures that add up to the duration.
LEMMA PrintedDuration ==
  ASSUME Common!CommonTypesAssumption, NEW d \in Common!u64, NEW t, t = Common!DisplayDuration(d)
  PROVE  /\ IsText(t) /\ Len(t) = 5 /\ \A i \in 1 .. 5 : Common!IsMeasure(t[i])
         /\ Total(t)[5] = d
<1>0. Limit \in Nat /\ d \in Nat /\ \A n \in Nat : n <= d => n \in Common!u64
  BY DEF Common!CommonTypesAssumption, Common!u64
<1> DEFINE a == d \div Day
           b == (d % Day) \div Hour
           e == (d % Hour) \div Minute
           f == (d % Minute) \div Second
           s == d % Second
<1>1. /\ a \in Common!u64 /\ b \in Common!u64 /\ e \in Common!u64 /\ f \in Common!u64 /\ s \in Common!u64 /\ s \in Nat
      /\ d = a * Day + b * Hour + e * Minute + f * Second + s
  BY <1>0, DurationParts
<1>2. t = << <<<<a>>, "d">>, <<<<b>>, "h">>, <<<<e>>, "m">>, <<<<f>>, "s">>, <<<<s>>, "ms">> >>
  BY DEF Common!DisplayDuration, Common!days, Common!hours, Common!minutes, Common!seconds
<1> HIDE DEF a, b, e, f, s
<1>3. IsText(t) /\ Len(t) = 5
  BY <1>2 DEF IsText
<1>4. /\ t[1] = <<<<a>>, "d">> /\ t[2] = <<<<b>>, "h">> /\ t[3] = <<<<e>>, "m">>
      /\ t[4] = <<<<f>>, "s">> /\ t[5] = <<<<s>>, "ms">>
  BY <1>2
<1>5. ASSUME NEW n \in Common!u64, NEW u \in DOMAIN Common!Factor
      PROVE  Common!IsMeasure(<<<<n>>, u>>) /\ Common!Millis(<<<<n>>, u>>) = n * Common!Factor[u]
  <2>1. <<<<n>>, u>>[1] = <<n>> /\ <<<<n>>, u>>[2] = u /\ <<n>>[1] = n /\ <<n>> # <<>>
    OBVIOUS
  <2>2. Common!IsMeasure(<<<<n>>, u>>)
    BY <2>1 DEF Common!IsMeasure
  <2> QED BY <2>1, <2>2, MillisIs
<1>6. /\ Common!IsMeasure(t[1]) /\ Common!Millis(t[1]) = a * Day
      /\ Common!IsMeasure(t[2]) /\ Common!Millis(t[2]) = b * Hour
      /\ Common!IsMeasure(t[3]) /\ Common!Millis(t[3]) = e * Minute
      /\ Common!IsMeasure(t[4]) /\ Common!Millis(t[4]) = f * Second
      /\ Common!IsMeasure(t[5]) /\ Common!Millis(t[5]) = s * 1
  <2>1. {"ms", "s", "m", "h", "d"} = DOMAIN Common!Factor
    BY FactorIs
  <2>2. Common!IsMeasure(<<<<a>>, "d">>) /\ Common!Millis(<<<<a>>, "d">>) = a * Day
    BY <1>1, <1>5, <2>1, FactorIs
  <2>3. Common!IsMeasure(<<<<b>>, "h">>) /\ Common!Millis(<<<<b>>, "h">>) = b * Hour
    BY <1>1, <1>5, <2>1, FactorIs
  <2>4. Common!IsMeasure(<<<<e>>, "m">>) /\ Common!Millis(<<<<e>>, "m">>) = e * Minute
    BY <1>1, <1>5, <2>1, FactorIs
  <2>5. Common!IsMeasure(<<<<f>>, "s">>) /\ Common!Millis(<<<<f>>, "s">>) = f * Second
    BY <1>1, <1>5, <2>1, FactorIs
  <2>6. Common!IsMeasure(<<<<s>>, "ms">>) /\ Common!Millis(<<<<s>>, "ms">>) = s * 1
    BY <1>1, <1>5, <2>1, FactorIs
  <2> QED BY <1>4, <2>2, <2>3, <2>4, <2>5, <2>6
<1>7. \A i \in 1 .. 5 : Common!IsMeasure(t[i])
  <2>1. \A i \in 1 .. 5 : i = 1 \/ i = 2 \/ i = 3 \/ i = 4 \/ i = 5
    OBVIOUS
  <2> QED BY <1>6, <2>1
<1>8. Total(t)[5] = d
  <2> DEFINE r == Total(t)
             ad == a * Day
             bh == b * Hour
             em == e * Minute
             fs == f * Second
  <2>1. /\ r[0] = 0 /\ r[1] = r[1 - 1] + Common!Millis(t[1]) /\ r[2] = r[2 - 1] + Common!Millis(t[2])
        /\ r[3] = r[3 - 1] + Common!Millis(t[3]) /\ r[4] = r[4 - 1] + Common!Millis(t[4]) /\ r[5] = r[5 - 1] + Common!Millis(t[5])
    <3>1. 1 \in 1 .. 5 /\ 2 \in 1 .. 5 /\ 3 \in 1 .. 5 /\ 4 \in 1 .. 5 /\ 5 \in 1 .. 5
      OBVIOUS
    <3> HIDE DEF r
    <3> QED BY <1>3, <3>1, TotalIs DEF r
  <2>2. /\ Common!Millis(t[1]) = ad /\ Common!Millis(t[2]) = bh /\ Common!Millis(t[3]) = em /\ Common!Millis(t[4]) = fs /\ Common!Millis(t[5]) = s
        /\ ad \in Nat /\ bh \in Nat /\ em \in Nat /\ fs \in Nat /\ d = ad + bh + em + fs + s
    <3>1. s * 1 = s
      BY <1>1
    <3> QED BY <1>1, <1>6, <3>1, MillisIs
  <2>3. 1 - 1 = 0 /\ 2 - 1 = 1 /\ 3 - 1 = 2 /\ 4 - 1 = 3 /\ 5 - 1 = 4
    OBVIOUS
  <2> HIDE DEF r, ad, bh, em, fs
  <2>4. r[1] = ad /\ r[2] = ad + bh /\ r[3] = ad + bh + em
    BY <2>1, <2>2, <2>3
  <2>5. r[5] = d
    BY <1>1, <2>1, <2>2, <2>3, <2>4
  <2> QED BY <2>5 DEF r
<1> QED BY <1>3, <1>7, <1>8

\* What is known of a duration that is read.
DurationInv ==
  /\ IsText(text) /\ reading \in {"Open", "Ok", "Err", "Panic"}
  /\ reading = "Open" => number = Total(text)[at] % Limit /\ \A i \in 1 .. at : Common!IsMeasure(text[i])
  /\ reading = "Ok" => number = Total(text)[Len(text)] % Limit /\ \A i \in 1 .. Len(text) : Common!IsMeasure(text[i])
  /\ reading = "Err" => \E i \in 1 .. Len(text) : ~Common!IsMeasure(text[i])
  /\ reading = "Panic" => at < Len(text) /\ Total(text)[at + 1] \notin Common!u64
  /\ printed # <<>> => \E d \in Common!u64 : printed = <<d>> /\ text = Common!DisplayDuration(d)

Timing == Common!TypeOK /\ DurationInv /\ kind = "duration" /\ reading = "Open"

\* Where the reading of a duration stands.
LEMMA TimingAt ==
  ASSUME Common!CommonTypesAssumption, Timing
  PROVE  /\ IsText(text) /\ Len(text) \in Nat /\ at \in 0 .. Len(text) /\ number \in Common!u64 /\ number \in Nat
         /\ Limit \in Nat \ {0} /\ \A i \in 1 .. at : Common!IsMeasure(text[i])
         /\ Total(text)[at] \in Nat /\ number = Total(text)[at] % Limit
         /\ Common!More => /\ at + 1 \in 1 .. Len(text) /\ at < Len(text) /\ Common!c = text[at + 1]
                    /\ Total(text)[at + 1] = Total(text)[at] + Common!Millis(Common!c) /\ Common!Millis(Common!c) \in Nat
         /\ ~Common!More => at = Len(text)
<1>1. IsText(text) /\ at \in 0 .. Len(text) /\ number \in Common!u64 /\ \A i \in 1 .. at : Common!IsMeasure(text[i])
  BY DEF Timing, Common!TypeOK, DurationInv
<1>2. Len(text) \in Nat /\ Limit \in Nat \ {0}
  BY <1>1 DEF IsText, Common!CommonTypesAssumption
<1>3. number \in Nat
  BY <1>1, <1>2 DEF Common!u64
<1>4. Total(text)[at] \in Nat /\ number = Total(text)[at] % Limit
  BY <1>1, TotalIs DEF Timing, DurationInv
<1>5. ASSUME Common!More
      PROVE  /\ at + 1 \in 1 .. Len(text) /\ at < Len(text) /\ Common!c = text[at + 1]
             /\ Total(text)[at + 1] = Total(text)[at] + Common!Millis(Common!c) /\ Common!Millis(Common!c) \in Nat
  <2>1. at + 1 \in 1 .. Len(text) /\ at < Len(text) /\ (at + 1) - 1 = at
    BY <1>1, <1>2, <1>5 DEF Common!More
  <2>2. Common!c = text[at + 1]
    BY DEF Common!c
  <2>3. Total(text)[at + 1] = Total(text)[(at + 1) - 1] + Common!Millis(text[at + 1])
    BY <1>1, <2>1, TotalIs
  <2>4. Common!Millis(text[at + 1]) \in Nat
    BY MillisIs
  <2> QED BY <2>1, <2>2, <2>3, <2>4
<1>6. ~Common!More => at = Len(text)
  BY <1>1, <1>2 DEF Common!More
<1> QED BY <1>1, <1>2, <1>3, <1>4, <1>5, <1>6

\* Reading one measure keeps the invariant of durations.
LEMMA MeasureKeeps ==
  ASSUME Common!CommonTypesAssumption, Timing, Common!More, Common!ReadMeasure
  PROVE  DurationInv' /\ Common!TypeOK'
<1> DEFINE sum == number + Common!c[1][1] * Common!Factor[Common!c[2]]
           Wrong == Common!c[2] = "" \/ Common!c[1] = <<>> \/ Common!c[1][1] \notin Common!u64 \/ Common!c[2] \notin DOMAIN Common!Factor
           Adds == /\ at' = at + 1 /\ number' = sum % Limit
                   /\ UNCHANGED <<kind, text, printed, state, after_dot, reading>>
           Panics == /\ sum \notin Common!u64 /\ reading' = "Panic"
                     /\ UNCHANGED <<kind, text, printed, at, state, after_dot, number>>
<1>1. /\ IsText(text) /\ Len(text) \in Nat /\ at \in Nat /\ at < Len(text) /\ at + 1 \in 1 .. Len(text)
      /\ Limit \in Nat \ {0} /\ number \in Nat /\ Common!c = text[at + 1]
      /\ \A i \in 1 .. at : Common!IsMeasure(text[i])
      /\ Total(text)[at] \in Nat /\ number = Total(text)[at] % Limit
      /\ Total(text)[at + 1] = Total(text)[at] + Common!Millis(Common!c) /\ Common!Millis(Common!c) \in Nat
  BY TimingAt
<1>2. IF Wrong THEN Common!Err ELSE Adds \/ Panics
  BY DEF Common!ReadMeasure
<1>3. Common!IsMeasure(Common!c) <=> ~Wrong
  BY MillisIs DEF Common!IsMeasure
<1>4. Common!IsMeasure(Common!c) => sum = number + Common!Millis(Common!c)
  BY MillisIs
<1> HIDE DEF sum, Wrong
<1>5. CASE Wrong
  <2>1. /\ at' = at /\ state' = state /\ number' = number /\ after_dot' = after_dot
        /\ kind' = kind /\ text' = text /\ printed' = printed /\ reading' = "Err"
    BY <1>2, <1>5 DEF Common!Err
  <2>2. \E i \in 1 .. Len(text) : ~Common!IsMeasure(text[i])
    BY <1>1, <1>3, <1>5
  <2>3. DurationInv'
    BY <2>1, <2>2 DEF Timing, DurationInv, Common!u64, IsText
  <2>4. Common!TypeOK'
    BY <2>1 DEF Timing, Common!TypeOK, Common!u64
  <2> QED BY <2>3, <2>4
<1> DEFINE b == Total(text)[at]
           z == Total(text)[at + 1]
           m == Common!Millis(Common!c)
<1>6. CASE ~Wrong /\ Adds
  <2>1. /\ at' = at + 1 /\ state' = state /\ number' = sum % Limit /\ after_dot' = after_dot
        /\ kind' = kind /\ text' = text /\ printed' = printed /\ reading' = reading
    BY <1>6
  <2>2. sum % Limit = z % Limit /\ sum \in Nat
    <3>1. b \in Nat /\ m \in Nat /\ z = b + m /\ sum = (b % Limit) + m /\ sum = number + m
      BY <1>1, <1>3, <1>4, <1>6
    <3> HIDE DEF b, m, z
    <3>2. ((b % Limit) + m) % Limit = (b + m) % Limit
      BY <1>1, <3>1, ModSum
    <3>3. sum \in Nat
      BY <1>1, <3>1
    <3> QED BY <3>1, <3>2, <3>3
  <2>3. sum % Limit \in Common!u64
    BY <1>1, <2>2, DivMod DEF Common!u64
  <2>4. \A i \in 1 .. at + 1 : Common!IsMeasure(text[i])
    <3>1. \A i \in 1 .. at + 1 : i \in 1 .. at \/ i = at + 1
      BY <1>1
    <3> QED BY <1>1, <1>3, <1>6, <3>1
  <2>5. DurationInv'
    BY <2>1, <2>2, <2>4 DEF Timing, DurationInv, Common!u64, IsText
  <2>6. Common!TypeOK'
    <3>1. at + 1 \in 0 .. Len(text)
      BY <1>1
    <3> QED BY <2>1, <2>3, <3>1 DEF Timing, Common!TypeOK, Common!u64
  <2> QED BY <2>5, <2>6
<1>7. CASE ~Wrong /\ Panics
  <2>1. /\ at' = at /\ state' = state /\ number' = number /\ after_dot' = after_dot
        /\ kind' = kind /\ text' = text /\ printed' = printed /\ reading' = "Panic"
    BY <1>7
  <2>2. z \notin Common!u64
    <3>1. b \in Nat /\ m \in Nat /\ z = b + m /\ number = b % Limit /\ sum = number + m /\ sum \notin Common!u64
      BY <1>1, <1>3, <1>4, <1>7
    <3> HIDE DEF b, m, z
    <3>2. number <= b
      <4> DEFINE q == Limit * (b \div Limit)
      <4>1. b \div Limit \in Nat /\ b = Limit * (b \div Limit) + (b % Limit)
        BY <1>1, <3>1, DivMod
      <4>2. \A x, y \in Nat : x * y \in Nat
        OBVIOUS
      <4>3. q \in Nat /\ b = q + (b % Limit)
        BY <1>1, <4>1, <4>2
      <4> HIDE DEF q
      <4> QED BY <1>1, <3>1, <4>3
    <3> QED BY <1>1, <3>1, <3>2 DEF Common!u64
  <2>3. DurationInv'
    <3>1. (Total(text)[at + 1] \notin Common!u64)'
      BY <2>1, <2>2 DEF Common!u64
    <3> QED BY <1>1, <2>1, <3>1 DEF Timing, DurationInv, Common!u64, IsText
  <2>4. Common!TypeOK'
    BY <2>1 DEF Timing, Common!TypeOK, Common!u64
  <2> QED BY <2>3, <2>4
<1> QED BY <1>2, <1>5, <1>6, <1>7

\* Reading a duration keeps its invariant.
LEMMA DurationKeeps ==
  ASSUME Common!CommonTypesAssumption, Timing, Common!ReadDuration
  PROVE  DurationInv' /\ Common!TypeOK'
<1>1. CASE Common!More
  BY <1>1, MeasureKeeps DEF Common!ReadDuration
<1>2. CASE ~Common!More
  <2>1. /\ at' = at /\ state' = state /\ number' = number /\ after_dot' = after_dot
        /\ kind' = kind /\ text' = text /\ printed' = printed /\ reading' = "Ok"
    BY <1>2 DEF Common!ReadDuration, Common!Ok
  <2>2. number = Total(text)[Len(text)] % Limit /\ \A i \in 1 .. Len(text) : Common!IsMeasure(text[i])
    BY <1>2, TimingAt
  <2>3. DurationInv'
    BY <2>1, <2>2 DEF Timing, DurationInv, Common!u64, IsText
  <2>4. Common!TypeOK'
    BY <2>1 DEF Timing, Common!TypeOK, Common!u64
  <2> QED BY <2>3, <2>4
<1> QED BY <1>1, <1>2

\* A printed duration is read as what it was.
LEMMA PrintedDurationReads ==
  ASSUME Common!CommonTypesAssumption, Common!TypeOK, DurationInv, printed # <<>>
  PROVE  reading \notin {"Err", "Panic"} /\ (reading = "Ok" => number = printed[1])
<1>1. PICK d \in Common!u64 : printed = <<d>> /\ text = Common!DisplayDuration(d)
  BY DEF DurationInv
<1>2. IsText(text) /\ Len(text) = 5 /\ (\A i \in 1 .. 5 : Common!IsMeasure(text[i])) /\ Total(text)[5] = d
  BY <1>1, PrintedDuration
<1>3. reading # "Err"
  BY <1>2 DEF DurationInv
<1>4. ASSUME reading = "Panic" PROVE FALSE
  <2>1. at \in Nat /\ at + 1 \in 0 .. Len(text) /\ Total(text)[at + 1] \notin Common!u64
    BY <1>2, <1>4 DEF DurationInv, Common!TypeOK
  <2>2. Total(text)[at + 1] \in Nat /\ Total(text)[at + 1] <= Total(text)[Len(text)]
    BY <1>2, <2>1, TotalIs, TotalRises
  <2> DEFINE z == Total(text)[at + 1]
  <2>3. z \in Nat /\ z <= d /\ z \notin Common!u64 /\ Limit \in Nat
    BY <1>2, <2>1, <2>2 DEF Common!CommonTypesAssumption
  <2> HIDE DEF z
  <2> QED BY <2>3 DEF Common!u64
<1>5. ASSUME reading = "Ok" PROVE number = printed[1]
  <2>1. number = d % Limit
    BY <1>2, <1>5 DEF DurationInv
  <2>2. Limit \in Nat \ {0} /\ d \in 0 .. Limit - 1
    BY DEF Common!CommonTypesAssumption, Common!u64
  <2>3. d % Limit = d
    BY <2>2, ModSmall
  <2> QED BY <1>1, <2>1, <2>3
<1> QED BY <1>3, <1>4, <1>5

\* The sums are those that the property of Common names.
LEMMA DurationsRight ==
  ASSUME Common!CommonTypesAssumption, kind = "duration" => DurationInv
  PROVE  Common!DurationsExact
<1>1. CASE kind # "duration"
  BY <1>1 DEF Common!DurationsExact
<1>2. CASE kind = "duration"
  <2> DEFINE r == CHOOSE f : f = [i \in 0 .. Len(text) |-> IF i = 0 THEN 0 ELSE f[i - 1] + Common!Millis(text[i])]
  <2>1. r = Total(text)
    BY DEF Total
  <2>2. Common!DurationsExact <=>
          /\ reading = "Ok" => (\A i \in DOMAIN text : Common!IsMeasure(text[i])) /\ number = r[Len(text)] % Limit
          /\ reading = "Err" => \E i \in DOMAIN text : ~Common!IsMeasure(text[i])
          /\ reading = "Panic" => r[at + 1] \notin Common!u64
    BY <1>2 DEF Common!DurationsExact
  <2> HIDE DEF r
  <2> QED BY <1>2, <2>1, <2>2 DEF DurationInv, IsText
<1> QED BY <1>1, <1>2

\* The invariant of amounts says that they are read exactly.
LEMMA AmountsRight ==
  ASSUME kind = "amount" => AmountInv
  PROVE  Common!AmountsExact
BY DEF Common!AmountsExact, AmountInv, AmountsOf

\* A printed amount is not refused, and reads as itself.
LEMMA PrintedAmountReads ==
  ASSUME Common!CommonTypesAssumption, AmountInv, printed # <<>>
  PROVE  reading \notin {"Err", "Panic"} /\ (reading = "Ok" => number = printed[1])
<1>1. PICK a \in Common!u64 : printed = <<a>> /\ text = Common!DisplayAmount(a)
  BY DEF AmountInv
<1>2. a \in AmountsOf(text)
  BY <1>1, PrintedAmount
<1>3. reading # "Err" /\ reading # "Panic" /\ (reading = "Ok" => number = a)
  BY <1>2 DEF AmountInv
<1> QED BY <1>1, <1>3

Characters == {Common!Letter, Common!Dot, Common!Other}

\* The sequences of at most k elements.
LEMMA CommonSeqOf ==
  ASSUME NEW A, NEW k \in Nat, NEW s
  PROVE  s \in Common!SeqOf(A, k) <=> s \in Seq(A) /\ Len(s) <= k
<1>1. ASSUME s \in Common!SeqOf(A, k) PROVE s \in Seq(A) /\ Len(s) <= k
  <2>1. PICK m \in 0 .. k : s \in [1 .. m -> A]
    BY <1>1 DEF Common!SeqOf
  <2> QED BY <2>1
<1>2. ASSUME s \in Seq(A), Len(s) <= k PROVE s \in Common!SeqOf(A, k)
  <2>1. Len(s) \in 0 .. k /\ s \in [1 .. Len(s) -> A]
    BY <1>2
  <2> QED BY <2>1 DEF Common!SeqOf
<1> QED BY <1>1, <1>2

\* The names, in numbers.
LEMMA NamesAre ==
  ASSUME Common!CommonTypesAssumption
  PROVE  /\ Common!Names \subseteq Seq(Characters) /\ Common!Names \subseteq Texts
         /\ Common!ContractNames \subseteq Texts
<1>1. MaxName \in Nat
  BY DEF Common!CommonTypesAssumption
<1>2. Common!Names \subseteq Seq(Characters)
  BY <1>1, CommonSeqOf DEF Common!Names, Characters
<1>3. ASSUME NEW s \in Seq(Characters) PROVE s \in Texts
  <2>1. Characters \subseteq Nat
    BY DEF Characters, Common!Letter, Common!Dot, Common!Other
  <2>2. s \in [1 .. Len(s) -> Characters] /\ Len(s) \in Nat
    BY <1>3
  <2> HIDE DEF Characters
  <2>3. s \in [1 .. Len(s) -> Nat]
    BY <2>1, <2>2
  <2> QED BY <2>2, <2>3 DEF Texts
<1>4. ASSUME NEW s \in Texts PROVE <<Common!init_>> \o s \in Texts
  <2>1. <<Common!init_>> \in Texts
    BY DEF Texts, Common!init_
  <2> QED BY <2>1, TextsJoin
<1> QED BY <1>2, <1>3, <1>4 DEF Common!ContractNames

\* Where a name is taken apart.
FirstDot(name, i) == name[i] = Common!Dot /\ ~Common!Contains(SubSeq(name, 1, i - 1), Common!Dot)
DotOf(name) ==
  CHOOSE i \in DOMAIN name : name[i] = Common!Dot /\ ~Common!Contains(SubSeq(name, 1, i - 1), Common!Dot)

\* The first dot of a name.
LEMMA FirstDotIs ==
  ASSUME NEW name \in Texts, NEW i \in 1 .. Len(name)
  PROVE  FirstDot(name, i) <=> name[i] = Common!Dot /\ \A j \in 1 .. i - 1 : name[j] # Common!Dot
<1> DEFINE s == SubSeq(name, 1, i - 1)
<1>1. name \in Seq(Nat) /\ Len(name) \in Nat /\ i \in Nat /\ i - 1 \in Nat /\ i - 1 <= Len(name)
  BY DEF Texts
<1>2. s \in Seq(Nat) /\ Len(s) = i - 1 /\ \A j \in 1 .. i - 1 : s[j] = name[j]
  BY <1>1
<1> HIDE DEF s
<1>3. DOMAIN s = 1 .. i - 1
  BY <1>2
<1>4. Common!Contains(s, Common!Dot) <=> \E j \in 1 .. i - 1 : name[j] = Common!Dot
  BY <1>2, <1>3 DEF Common!Contains
<1> QED BY <1>4 DEF FirstDot, s

\* get_name_parts splits a name at its first dot.
LEMMA DotFound ==
  ASSUME NEW name \in Texts, Common!Contains(name, Common!Dot)
  PROVE  /\ DotOf(name) \in 1 .. Len(name) /\ FirstDot(name, DotOf(name))
         /\ Common!get_name_parts(name) = <<SubSeq(name, 1, DotOf(name) - 1), SubSeq(name, DotOf(name) + 1, Len(name))>>
<1> DEFINE D == {i \in DOMAIN name : name[i] = Common!Dot}
<1>1. DOMAIN name = 1 .. Len(name) /\ Len(name) \in Nat
  BY DEF Texts
<1>2. D \in SUBSET Nat /\ D # {}
  BY <1>1 DEF Common!Contains
<1> HIDE DEF D
<1>3. PICK i \in D : \A j \in D : i <= j
  BY <1>2, SmallestOf
<1>4. i \in 1 .. Len(name) /\ name[i] = Common!Dot /\ \A j \in 1 .. i - 1 : name[j] # Common!Dot
  <2>1. i \in 1 .. Len(name) /\ name[i] = Common!Dot
    BY <1>1 DEF D
  <2>2. ASSUME NEW j \in 1 .. i - 1, name[j] = Common!Dot PROVE FALSE
    <3>1. j \in 1 .. Len(name) /\ j < i
      BY <1>1, <2>1
    <3>2. j \in D
      BY <1>1, <2>2, <3>1 DEF D
    <3>3. i <= j
      BY <1>3, <3>2
    <3> QED BY <2>1, <3>1, <3>3
  <2> QED BY <2>1, <2>2
<1>5. FirstDot(name, i)
  BY <1>4, FirstDotIs
<1>6. DotOf(name) \in 1 .. Len(name) /\ FirstDot(name, DotOf(name))
  <2>1. \E k \in DOMAIN name : name[k] = Common!Dot /\ ~Common!Contains(SubSeq(name, 1, k - 1), Common!Dot)
    BY <1>1, <1>4, <1>5 DEF FirstDot
  <2>2. DotOf(name) \in DOMAIN name /\ FirstDot(name, DotOf(name))
    BY <2>1 DEF DotOf, FirstDot
  <2> QED BY <1>1, <2>2
<1>7. Common!get_name_parts(name) = <<SubSeq(name, 1, DotOf(name) - 1), SubSeq(name, DotOf(name) + 1, Len(name))>>
  BY DEF Common!get_name_parts, DotOf
<1> QED BY <1>6, <1>7

\* A constructed name is taken apart where it was put together.
LEMMA DottedName ==
  ASSUME NEW n \in Texts, NEW e \in Texts, ~Common!Contains(n, Common!Dot), NEW name, name = n \o <<Common!Dot>> \o e
  PROVE  name \in Texts /\ Common!get_name_parts(name) = <<n, e>>
<1>0. /\ n \in Seq(Nat) /\ e \in Seq(Nat) /\ Len(n) \in Nat /\ Len(e) \in Nat
      /\ \A j \in 1 .. Len(n) : n[j] # Common!Dot
  <2>1. n \in Seq(Nat) /\ e \in Seq(Nat) /\ Len(n) \in Nat /\ Len(e) \in Nat /\ DOMAIN n = 1 .. Len(n)
    BY DEF Texts
  <2> QED BY <2>1 DEF Common!Contains
<1>1. /\ name \in Texts /\ Len(name) = Len(n) + 1 + Len(e) /\ name[Len(n) + 1] = Common!Dot
      /\ \A i \in 1 .. Len(n) : name[i] = n[i]
      /\ \A i \in 1 .. Len(e) : name[Len(n) + 1 + i] = e[i]
  BY DottedText
<1>2. name \in Seq(Nat) /\ DOMAIN name = 1 .. Len(name) /\ Len(name) \in Nat
  BY <1>1 DEF Texts
<1> DEFINE i == DotOf(name)
<1>3. Len(n) + 1 \in 1 .. Len(name)
  BY <1>0, <1>1
<1>4. Common!Contains(name, Common!Dot)
  BY <1>1, <1>2, <1>3 DEF Common!Contains
<1>5. i \in 1 .. Len(name) /\ FirstDot(name, i)
      /\ Common!get_name_parts(name) = <<SubSeq(name, 1, i - 1), SubSeq(name, i + 1, Len(name))>>
  BY <1>1, <1>4, DotFound
<1> HIDE DEF i
<1>6. name[i] = Common!Dot /\ \A j \in 1 .. i - 1 : name[j] # Common!Dot
  BY <1>1, <1>5, FirstDotIs
<1>7. i = Len(n) + 1
  <2>1. ~(i < Len(n) + 1)
    <3>1. i < Len(n) + 1 => i \in 1 .. Len(n)
      BY <1>0, <1>5
    <3> QED BY <1>0, <1>1, <1>6, <3>1
  <2>2. ~(Len(n) + 1 < i)
    <3>1. Len(n) + 1 < i => Len(n) + 1 \in 1 .. i - 1
      BY <1>0, <1>5
    <3> QED BY <1>1, <1>6, <3>1
  <2> QED BY <1>0, <1>5, <2>1, <2>2
<1> DEFINE l == Len(n)
           k == Len(name)
           s == SubSeq(name, 1, l)
           r == SubSeq(name, l + 2, k)
<1>8. Common!get_name_parts(name) = <<s, r>>
  <2>1. i - 1 = l /\ i + 1 = l + 2
    BY <1>0, <1>7
  <2> QED BY <1>5, <2>1
<1> HIDE DEF l, k, s, r
<1>9. s = n
  <2>1. s \in Texts /\ Len(s) = Len(n) /\ \A j \in 1 .. Len(s) : s[j] = n[j]
    <3>1. 0 \in Nat /\ l \in Nat /\ 0 <= l /\ l <= Len(name) /\ s = SubSeq(name, 1, l) /\ l - 0 = Len(n) /\ 1 = 0 + 1
          /\ \A j \in 1 .. l : j + 0 = j
      BY <1>0, <1>1, <1>2 DEF l, s
    <3>2. IsPart(SubSeq(name, 1, l), name, 0, l)
      BY <1>1, <3>1, TextPart
    <3>3. s \in Texts /\ Len(s) = l - 0 /\ \A j \in 1 .. l - 0 : s[j] = name[j + 0]
      BY <3>1, <3>2 DEF IsPart
    <3> QED BY <1>1, <3>1, <3>3
  <2> QED BY <2>1, SameText
<1>10. r = e
  <2>1. r \in Texts /\ Len(r) = Len(e) /\ \A j \in 1 .. Len(r) : r[j] = e[j]
    <3>1. l + 1 \in Nat /\ k \in Nat /\ l + 1 <= k /\ k <= Len(name) /\ r = SubSeq(name, l + 2, k) /\ l + 2 = (l + 1) + 1
          /\ k - (l + 1) = Len(e) /\ \A j \in 1 .. Len(e) : j + (l + 1) = Len(n) + 1 + j
      <4>1. l + 2 = (l + 1) + 1
        BY <1>0 DEF l
      <4> QED BY <1>0, <1>1, <4>1 DEF l, k, r
    <3>2. IsPart(SubSeq(name, l + 2, k), name, l + 1, k)
      BY <1>1, <3>1, TextPart
    <3>3. r \in Texts /\ Len(r) = k - (l + 1) /\ \A j \in 1 .. k - (l + 1) : r[j] = name[j + (l + 1)]
      BY <3>1, <3>2 DEF IsPart
    <3>4. Len(r) = Len(e)
      BY <3>1, <3>3
    <3>5. ASSUME NEW j \in 1 .. Len(e) PROVE r[j] = e[j]
      <4>1. j \in 1 .. k - (l + 1)
        BY <3>1
      <4>2. r[j] = name[j + (l + 1)]
        BY <3>3, <4>1
      <4>3. j + (l + 1) = Len(n) + 1 + j
        BY <3>1
      <4>4. name[Len(n) + 1 + j] = e[j]
        BY <1>1
      <4> QED BY <4>2, <4>3, <4>4
    <3> QED BY <3>3, <3>4, <3>5
  <2> QED BY <2>1, SameText
<1> QED BY <1>1, <1>8, <1>9, <1>10

-----------------------------------------------------------------------------
\* What is known of the names.
ConstructInv ==
  /\ Len(text) \in Nat /\ text[1] \in Texts /\ text[2] \in Texts /\ reading \in {"Open", "Ok", "Err"} /\ printed = <<>>
  /\ reading = "Ok" => Common!get_name_parts(number) = <<Common!contract_name(text[1]), text[2]>>

NameInv ==
  /\ text \in Seq(Characters) /\ text \in Texts /\ reading \in {"Open", "Ok", "Err"} /\ printed = <<>>
  /\ reading = "Ok" => /\ number[1] \o <<Common!Dot>> \o number[2] = text /\ ~Common!Contains(number[1], Common!Dot)
                      /\ Common!is_valid_entrypoint_name(number[2])

\* What is read in one step answers Ok or Err.
LEMMA OneAnswer ==
  ASSUME Common!TypeOK, kind \notin {"amount", "duration"}, (\E v : Common!Ok(v)) \/ Common!Err
  PROVE  /\ Common!TypeOK' /\ text' = text /\ printed' = printed /\ kind' = kind /\ reading' \in {"Ok", "Err"}
         /\ reading' = "Ok" => Common!Ok(number')
<1>1. CASE Common!Err
  BY <1>1 DEF Common!Err, Common!TypeOK, Common!u64
<1>2. CASE \E v : Common!Ok(v)
  BY <1>2 DEF Common!Ok, Common!TypeOK, Common!u64
<1> QED BY <1>1, <1>2

\* Constructing a name keeps its invariant.
LEMMA ConstructKeeps ==
  ASSUME Common!CommonTypesAssumption, Common!TypeOK, ConstructInv, kind = "construct", Common!construct
  PROVE  ConstructInv' /\ Common!TypeOK'
<1> DEFINE n == Common!contract_name(text[1])
           name == n \o <<Common!Dot>> \o text[2]
           Good == /\ Common!is_valid_contract_name(text[1]) /\ Common!is_valid_entrypoint_name(text[2])
                   /\ Common!is_valid_receive_name(name)
<1>1. IF Good THEN Common!Ok(name) ELSE Common!Err
  BY DEF Common!construct
<1>2. text[1] \in Texts /\ text[2] \in Texts /\ Len(text) \in Nat /\ printed = <<>>
  BY DEF ConstructInv
<1>3. ASSUME Good PROVE Common!get_name_parts(name) = <<n, text[2]>>
  <2> DEFINE s == text[1]
  <2>1. s # <<>> /\ ~Common!Contains(s, Common!Dot) /\ s \in Seq(Nat)
    BY <1>2, <1>3 DEF Common!is_valid_contract_name, Common!StartsWithInit, Texts
  <2> HIDE DEF s
  <2>2. /\ Len(s) \in Nat /\ Len(s) # 0 /\ DOMAIN s = 1 .. Len(s)
        /\ Tail(s) \in Seq(Nat) /\ Len(Tail(s)) = Len(s) - 1 /\ \A j \in 1 .. Len(s) - 1 : Tail(s)[j] = s[j + 1]
    BY <2>1
  <2> DEFINE z == Tail(s)
  <2>3. z \in Texts /\ DOMAIN z = 1 .. Len(s) - 1 /\ \A j \in 1 .. Len(s) - 1 : z[j] = s[j + 1] /\ j + 1 \in 1 .. Len(s)
    BY <2>2 DEF Texts
  <2> HIDE DEF z
  <2>4. ~Common!Contains(z, Common!Dot)
    BY <2>1, <2>2, <2>3 DEF Common!Contains
  <2>5. n = z
    BY DEF Common!contract_name, s, z
  <2> HIDE DEF n
  <2> QED BY <1>2, <2>3, <2>4, <2>5, DottedName
<1> HIDE DEF Good, name
<1>4. CASE Good
  <2>1. Common!Ok(name)
    BY <1>1, <1>4
  <2>2. Common!TypeOK' /\ text' = text /\ printed' = printed
    BY <2>1, OneAnswer
  <2>3. number' = name /\ reading' = "Ok"
    BY <2>1 DEF Common!Ok
  <2>4. (Common!get_name_parts(number) = <<Common!contract_name(text[1]), text[2]>>)'
    BY <1>3, <1>4, <2>2, <2>3 DEF Common!get_name_parts, Common!contract_name, Common!Contains
  <2> QED BY <1>2, <2>2, <2>3, <2>4 DEF ConstructInv, Texts
<1>5. CASE ~Good
  <2>1. Common!Err
    BY <1>1, <1>5
  <2>2. Common!TypeOK' /\ text' = text /\ printed' = printed
    BY <2>1, OneAnswer
  <2>3. reading' = "Err"
    BY <2>1 DEF Common!Err
  <2> QED BY <1>2, <2>2, <2>3 DEF ConstructInv, Texts
<1> QED BY <1>4, <1>5

\* What is in front of the first dot, and what is behind it.
LEMMA NameParts ==
  ASSUME Common!CommonTypesAssumption, NEW name, name \in Seq(Characters), name \in Texts,
         Common!is_valid_receive_name(name), NEW parts, parts = Common!get_name_parts(name)
  PROVE  /\ parts[1] \o <<Common!Dot>> \o parts[2] = name /\ ~Common!Contains(parts[1], Common!Dot)
         /\ Common!is_valid_entrypoint_name(parts[2])
<1> DEFINE i == DotOf(name)
           n == SubSeq(name, 1, i - 1)
           e == SubSeq(name, i + 1, Len(name))
<1>1. Common!Contains(name, Common!Dot) /\ Common!len(name) <= MAX_FUNC_NAME_SIZE /\ Common!Printable(name)
  BY DEF Common!is_valid_receive_name
<1>2. i \in 1 .. Len(name) /\ FirstDot(name, i) /\ Common!get_name_parts(name) = <<n, e>>
  BY <1>1, DotFound
<1>3. parts[1] = n /\ parts[2] = e
  BY <1>2
<1> HIDE DEF i
<1>4. /\ name \in Seq(Nat) /\ Len(name) \in Nat /\ i \in Nat /\ i >= 1 /\ i <= Len(name)
      /\ DOMAIN name = 1 .. Len(name) /\ name[i] = Common!Dot /\ MAX_FUNC_NAME_SIZE \in Nat /\ InitSize \in Nat /\ InitSize # 0
  <2>1. name \in Seq(Nat) /\ Len(name) \in Nat /\ DOMAIN name = 1 .. Len(name)
    BY DEF Texts
  <2>2. name[i] = Common!Dot
    BY <1>2 DEF FirstDot
  <2>3. MAX_FUNC_NAME_SIZE \in Nat /\ InitSize \in Nat /\ InitSize # 0
    BY DEF Common!CommonTypesAssumption
  <2> QED BY <1>2, <2>1, <2>2, <2>3
<1>5. n \in Texts /\ Len(n) = i - 1 /\ \A j \in 1 .. i - 1 : n[j] = name[j]
  <2>1. 0 \in Nat /\ i - 1 \in Nat /\ 0 <= i - 1 /\ i - 1 <= Len(name) /\ n = SubSeq(name, 1, i - 1)
        /\ 1 = 0 + 1 /\ (i - 1) - 0 = i - 1 /\ \A j \in 1 .. i - 1 : j + 0 = j
    BY <1>4
  <2> HIDE DEF n
  <2>2. IsPart(SubSeq(name, 1, i - 1), name, 0, i - 1)
    BY <2>1, TextPart
  <2>3. n \in Texts /\ Len(n) = (i - 1) - 0 /\ \A j \in 1 .. (i - 1) - 0 : n[j] = name[j + 0]
    BY <2>1, <2>2 DEF IsPart
  <2> QED BY <2>1, <2>3
<1>6. e \in Texts /\ Len(e) = Len(name) - i /\ \A j \in 1 .. Len(name) - i : e[j] = name[j + i]
  <2>1. IsPart(SubSeq(name, i + 1, Len(name)), name, i, Len(name))
    BY <1>4, TextPart
  <2> QED BY <2>1 DEF IsPart
<1>7. ~Common!Contains(n, Common!Dot)
  BY <1>2 DEF FirstDot
<1> HIDE DEF n, e
<1>8. n \o <<Common!Dot>> \o e = name
  <2> DEFINE t == n \o <<Common!Dot>> \o e
  <2>1. /\ t \in Texts /\ Len(t) = Len(n) + 1 + Len(e) /\ t[Len(n) + 1] = Common!Dot
        /\ \A j \in 1 .. Len(n) : t[j] = n[j]
        /\ \A j \in 1 .. Len(e) : t[Len(n) + 1 + j] = e[j]
    BY <1>5, <1>6, DottedText
  <2> HIDE DEF t
  <2>2. Len(t) = Len(name) /\ t \in Seq(Nat)
    BY <1>4, <1>5, <1>6, <2>1 DEF Texts
  <2>3. ASSUME NEW j \in 1 .. Len(name) PROVE t[j] = name[j]
    <3>1. CASE j < i
      <4>1. j \in 1 .. i - 1 /\ j \in 1 .. Len(n)
        BY <1>4, <1>5, <3>1
      <4> QED BY <1>5, <2>1, <4>1
    <3>2. CASE j = i
      <4>1. Len(n) + 1 = i
        BY <1>4, <1>5
      <4> QED BY <1>4, <2>1, <3>2, <4>1
    <3>3. CASE j > i
      <4>1. j - i \in 1 .. Len(name) - i /\ j - i \in 1 .. Len(e) /\ Len(n) + 1 + (j - i) = j /\ (j - i) + i = j
        BY <1>4, <1>5, <1>6, <3>3
      <4>2. t[Len(n) + 1 + (j - i)] = e[j - i] /\ e[j - i] = name[(j - i) + i]
        BY <1>6, <2>1, <4>1
      <4> QED BY <4>1, <4>2
    <3> QED BY <1>4, <3>1, <3>2, <3>3
  <2>4. t = name
    BY <1>4, <2>2, <2>3
  <2> QED BY <2>4 DEF t
<1>9. \A j \in DOMAIN e : j \in 1 .. Len(e) /\ j + i \in DOMAIN name /\ e[j] = name[j + i] /\ e[j] # Common!init_
  <2> SUFFICES ASSUME NEW j \in DOMAIN e
               PROVE  j \in 1 .. Len(e) /\ j + i \in DOMAIN name /\ e[j] = name[j + i] /\ e[j] # Common!init_
    OBVIOUS
  <2>1. j \in 1 .. Len(e) /\ j \in 1 .. Len(name) - i
    BY <1>6 DEF Texts
  <2>2. j + i \in 1 .. Len(name) /\ e[j] = name[j + i]
    BY <1>4, <1>6, <2>1
  <2>3. name[j + i] \in Characters
    BY <1>4, <2>2
  <2>4. Common!init_ \notin Characters
    BY DEF Common!init_, Characters, Common!Letter, Common!Dot, Common!Other
  <2> QED BY <1>4, <2>1, <2>2, <2>3, <2>4
<1>10. Common!Printable(e)
  BY <1>1, <1>9 DEF Common!Printable, Common!Contains
<1>11. Common!len(e) < MAX_FUNC_NAME_SIZE
  <2>1. ~Common!StartsWithInit(e)
    <3>1. e # <<>> => 1 \in DOMAIN e
      BY <1>6 DEF Texts
    <3> QED BY <1>9, <3>1 DEF Common!StartsWithInit
  <2>2. Common!len(e) = Len(e)
    <3>1. Common!len(e) = Len(e) + 0
      BY <2>1 DEF Common!len
    <3> QED BY <1>6, <3>1 DEF Texts
  <2>3. Len(name) <= Common!len(name)
    <3>1. Common!len(name) = Len(name) + 0 \/ Common!len(name) = Len(name) + (InitSize - 1)
      BY DEF Common!len
    <3> QED BY <1>4, <3>1
  <2>4. Common!len(name) \in Nat
    <3>1. Common!len(name) = Len(name) + 0 \/ Common!len(name) = Len(name) + (InitSize - 1)
      BY DEF Common!len
    <3> QED BY <1>4, <3>1
  <2>5. Len(e) < Len(name)
    BY <1>4, <1>6
  <2> DEFINE x == Common!len(name)
             y == Len(e)
  <2>6. x \in Nat /\ y \in Nat /\ Len(name) <= x /\ x <= MAX_FUNC_NAME_SIZE /\ y < Len(name)
    BY <1>1, <1>4, <1>6, <2>3, <2>4, <2>5
  <2> HIDE DEF x, y
  <2>7. y < MAX_FUNC_NAME_SIZE
    BY <1>4, <2>6
  <2> QED BY <2>2, <2>7 DEF y
<1> QED BY <1>3, <1>7, <1>8, <1>10, <1>11 DEF Common!is_valid_entrypoint_name

\* Reading a receive name keeps its invariant.
LEMMA NameKeeps ==
  ASSUME Common!CommonTypesAssumption, Common!TypeOK, NameInv, kind = "receive_name", Common!ReadName
  PROVE  NameInv' /\ Common!TypeOK'
<1>1. text \in Seq(Characters) /\ text \in Texts /\ printed = <<>>
  BY DEF NameInv
<1>2. CASE Common!is_valid_receive_name(text) /\ Common!Ok(Common!get_name_parts(text))
  <2>1. Common!TypeOK' /\ text' = text /\ printed' = printed
    BY <1>2, OneAnswer
  <2>2. number' = Common!get_name_parts(text) /\ reading' = "Ok"
    BY <1>2 DEF Common!Ok
  <2> DEFINE parts == number'
  <2> HIDE DEF parts
  <2>3. parts = Common!get_name_parts(text)
    BY <2>2 DEF parts
  <2>4. parts[1] \o <<Common!Dot>> \o parts[2] = text /\ ~Common!Contains(parts[1], Common!Dot) /\ Common!is_valid_entrypoint_name(parts[2])
    BY <1>1, <1>2, <2>3, NameParts
  <2>5. (number[1] \o <<Common!Dot>> \o number[2] = text /\ ~Common!Contains(number[1], Common!Dot) /\ Common!is_valid_entrypoint_name(number[2]))'
    BY <2>1, <2>4 DEF parts, Common!Contains, Common!is_valid_entrypoint_name, Common!len, Common!StartsWithInit, Common!Printable
  <2> QED BY <1>1, <2>1, <2>2, <2>5 DEF NameInv, Texts, Characters
<1>3. CASE Common!Err
  <2>1. Common!TypeOK' /\ text' = text /\ printed' = printed
    BY <1>3, OneAnswer
  <2>2. reading' = "Err"
    BY <1>3 DEF Common!Err
  <2> QED BY <1>1, <2>1, <2>2 DEF NameInv, Texts, Characters
<1> QED BY <1>2, <1>3 DEF Common!ReadName

TimesInv ==
  /\ Len(text) \in Nat /\ text[1] \in Common!u64 /\ text[2] \in Common!u64 /\ reading \in {"Open", "Ok", "Err"} /\ printed = <<>>
  /\ reading = "Ok" => number = <<Common!duration_between(text[1], text[2]), Common!duration_since(text[1], text[2]),
                              Common!checked_add(text[1], text[2]), Common!checked_sub(text[1], text[2])>>

\* Measuring times keeps their invariant.
LEMMA MeasureTimesKeeps ==
  ASSUME Common!CommonTypesAssumption, Common!TypeOK, TimesInv, kind = "times", Common!Measure
  PROVE  TimesInv' /\ Common!TypeOK'
<1> DEFINE z == <<Common!duration_between(text[1], text[2]), Common!duration_since(text[1], text[2]),
                  Common!checked_add(text[1], text[2]), Common!checked_sub(text[1], text[2])>>
<1>1. Common!Ok(z)
  BY DEF Common!Measure
<1>2. number' = z /\ reading' = "Ok"
  BY <1>1 DEF Common!Ok
<1> HIDE DEF z
<1>3. Common!TypeOK' /\ text' = text /\ printed' = printed
  BY <1>1, OneAnswer
<1>4. z' = z
  BY <1>3 DEF z, Common!duration_between, Common!duration_since, Common!checked_add, Common!checked_sub, Common!u64
<1>5. (number = z)'
  BY <1>2, <1>4
<1>6. (number = <<Common!duration_between(text[1], text[2]), Common!duration_since(text[1], text[2]),
              Common!checked_add(text[1], text[2]), Common!checked_sub(text[1], text[2])>>)'
  BY <1>5 DEF z
<1> QED BY <1>2, <1>3, <1>6 DEF TimesInv, Common!u64

\* The invariant of times says that their operations agree.
LEMMA TimesRight ==
  ASSUME Common!CommonTypesAssumption, kind = "times" => TimesInv
  PROVE  Common!TimesAgree
<1> SUFFICES ASSUME kind = "times", reading = "Ok" PROVE Common!TimesAgree
  BY DEF Common!TimesAgree
<1> DEFINE t == text[1]
           u == text[2]
<1>1. t \in Common!u64 /\ u \in Common!u64 /\ Limit \in Nat
  BY DEF TimesInv, Common!CommonTypesAssumption
<1>2. /\ number[1] = Common!duration_between(t, u) /\ number[2] = Common!duration_since(t, u)
      /\ number[3] = Common!checked_add(t, u) /\ number[4] = Common!checked_sub(t, u)
  BY DEF TimesInv
<1> HIDE DEF t, u
<1>3. t \in Nat /\ u \in Nat /\ \A n \in Nat : n < Limit <=> n \in Common!u64
  BY <1>1 DEF Common!u64
<1>4. Common!checked_add(IF t < u THEN t ELSE u, number[1]) = <<IF t < u THEN u ELSE t>>
  <2>1. CASE t < u
    <3>1. number[1] = u - t /\ t + (u - t) = u
      BY <1>2, <1>3, <2>1 DEF Common!duration_between
    <3>2. Common!checked_add(t, number[1]) = <<u>>
      BY <1>1, <3>1 DEF Common!checked_add
    <3> QED BY <2>1, <3>2
  <2>2. CASE ~(t < u)
    <3>1. number[1] = t - u /\ u + (t - u) = t
      BY <1>2, <1>3, <2>2 DEF Common!duration_between
    <3>2. Common!checked_add(u, number[1]) = <<t>>
      BY <1>1, <3>1 DEF Common!checked_add
    <3> QED BY <2>2, <3>2
  <2> QED BY <2>1, <2>2
<1>5. ASSUME number[2] # <<>> PROVE Common!duration_since(t, number[2][1]) = <<u>>
  <2>1. t >= u /\ number[2] = <<t - u>>
    BY <1>2, <1>5 DEF Common!duration_since, Common!checked_sub
  <2>2. number[2][1] = t - u /\ t >= t - u /\ t - (t - u) = u
    BY <1>3, <2>1
  <2> QED BY <2>2 DEF Common!duration_since, Common!checked_sub
<1>6. ASSUME number[3] # <<>> PROVE Common!checked_sub(number[3][1], u) = <<t>>
  <2>1. number[3] = <<t + u>>
    BY <1>2, <1>6 DEF Common!checked_add
  <2>2. number[3][1] = t + u /\ t + u >= u /\ (t + u) - u = t
    BY <1>3, <2>1
  <2> QED BY <2>2 DEF Common!checked_sub
<1>7. ASSUME number[4] # <<>> PROVE Common!checked_add(number[4][1], u) = <<t>>
  <2>1. t >= u /\ number[4] = <<t - u>>
    BY <1>2, <1>7 DEF Common!checked_sub
  <2>2. number[4][1] = t - u /\ (t - u) + u = t
    BY <1>3, <2>1
  <2> QED BY <1>1, <2>2 DEF Common!checked_add
<1> QED BY <1>4, <1>5, <1>6, <1>7 DEF Common!TimesAgree, t, u

-----------------------------------------------------------------------------
CommonInv ==
  /\ Common!TypeOK
  /\ kind = Common!None => /\ at = 0 /\ state = 0 /\ after_dot = 0 /\ number = 0 /\ printed = <<>> /\ reading = "Done"
  /\ kind # Common!None => reading # "Done"
  /\ kind = "amount" => AmountInv
  /\ kind = "duration" => DurationInv
  /\ kind = "construct" => ConstructInv
  /\ kind = "receive_name" => NameInv
  /\ kind = "times" => TimesInv

\* The invariant of the common types holds at the start.
LEMMA CommonStarts ==
  ASSUME Common!CommonTypesAssumption, Common!Init
  PROVE  CommonInv
<1>1. /\ kind = Common!None /\ text = <<>> /\ printed = <<>> /\ at = 0 /\ state = 0 /\ after_dot = 0
      /\ number = 0 /\ reading = "Done"
  BY DEF Common!Init
<1>2. 0 \in 0 .. Len(<<>>) /\ 0 \in 0 .. 3 /\ 0 \in 0 .. Decimals /\ 0 \in Common!u64
  <2>1. Decimals \in Nat /\ Limit \in Nat \ {0} /\ Len(<<>>) = 0
    BY DEF Common!CommonTypesAssumption
  <2> QED BY <2>1 DEF Common!u64
<1>3. Common!TypeOK
  BY <1>1, <1>2 DEF Common!TypeOK, Common!None
<1> QED BY <1>1, <1>3 DEF CommonInv, Common!None

\* What arrives.
LEMMA ArrivesKeeps ==
  ASSUME Common!CommonTypesAssumption, CommonInv, kind = Common!None, NEW k \in Common!Kinds, NEW t, NEW v, Common!from_str(k, t, v),
         Len(t) \in Nat
  PROVE  /\ Common!TypeOK' /\ reading' = "Open" /\ kind' = k /\ text' = t /\ printed' = v
         /\ at' = 0 /\ state' = 0 /\ after_dot' = 0 /\ number' = 0
<1>1. /\ kind' = k /\ text' = t /\ printed' = v /\ reading' = "Open"
      /\ at' = 0 /\ state' = 0 /\ after_dot' = 0 /\ number' = 0
  BY DEF Common!from_str, CommonInv
<1>2. 0 \in 0 .. Len(t) /\ 0 \in 0 .. 3 /\ 0 \in 0 .. Decimals /\ 0 \in 0 .. Limit - 1
  BY DEF Common!CommonTypesAssumption
<1> QED BY <1>1, <1>2 DEF Common!TypeOK, Common!u64

\* An amount to read keeps the invariant.
LEMMA AmountArrives ==
  ASSUME Common!CommonTypesAssumption, CommonInv, kind = Common!None, NEW t \in Texts, NEW v,
         v # <<>> => \E a \in Common!u64 : v = <<a>> /\ t = Common!DisplayAmount(a), Common!from_str("amount", t, v)
  PROVE  CommonInv'
<1>1. Len(t) \in Nat
  BY DEF Texts
<1>2. /\ Common!TypeOK' /\ reading' = "Open" /\ kind' = "amount" /\ text' = t /\ printed' = v
      /\ at' = 0 /\ state' = 0 /\ after_dot' = 0 /\ number' = 0
  BY <1>1, ArrivesKeeps DEF Common!Kinds
<1>3. Reads(t, 0, 0, 0, 0)
  BY DEF Reads
<1>4. AmountInv'
  BY <1>2, <1>3 DEF AmountInv, Texts, Common!u64
<1> QED BY <1>2, <1>4 DEF CommonInv, Common!None

\* A duration to read keeps the invariant.
LEMMA DurationArrives ==
  ASSUME Common!CommonTypesAssumption, CommonInv, kind = Common!None, NEW t, IsText(t), NEW v,
         v # <<>> => \E d \in Common!u64 : v = <<d>> /\ t = Common!DisplayDuration(d), Common!from_str("duration", t, v)
  PROVE  CommonInv'
<1>1. Len(t) \in Nat
  BY DEF IsText
<1>2. /\ Common!TypeOK' /\ reading' = "Open" /\ kind' = "duration" /\ text' = t /\ printed' = v
      /\ at' = 0 /\ state' = 0 /\ after_dot' = 0 /\ number' = 0
  BY <1>1, ArrivesKeeps DEF Common!Kinds
<1>3. 0 = Total(t)[0] % Limit /\ \A i \in 1 .. 0 : Common!IsMeasure(t[i])
  <2>1. Total(t)[0] = 0
    BY TotalIs
  <2>2. Limit \in Nat \ {0} /\ 0 \in 0 .. Limit - 1
    BY DEF Common!CommonTypesAssumption
  <2>3. 0 % Limit = 0
    BY <2>2, ModSmall
  <2>4. 1 .. 0 = {}
    OBVIOUS
  <2> QED BY <2>1, <2>3, <2>4
<1>4. DurationInv'
  BY <1>2, <1>3 DEF DurationInv, IsText, Common!u64
<1> QED BY <1>2, <1>4 DEF CommonInv, Common!None

\* Names and times keep the invariant when they arrive.
LEMMA NameArrives ==
  ASSUME Common!CommonTypesAssumption, CommonInv, kind = Common!None, Common!Arrives,
         kind' \notin {"amount", "duration"}
  PROVE  CommonInv'
<1>1. CASE \E contract \in Common!ContractNames, entrypoint \in Common!Names :
             Common!from_str("construct", <<contract, entrypoint>>, <<>>)
  <2>1. PICK a \in Common!ContractNames, b \in Common!Names : Common!from_str("construct", <<a, b>>, <<>>)
    BY <1>1
  <2>2. a \in Texts /\ b \in Texts /\ Len(<<a, b>>) \in Nat /\ <<a, b>>[1] = a /\ <<a, b>>[2] = b
    BY NamesAre
  <2>3. Common!TypeOK' /\ reading' = "Open" /\ kind' = "construct" /\ text' = <<a, b>> /\ printed' = <<>>
    BY <2>1, <2>2, ArrivesKeeps DEF Common!Kinds
  <2>4. ConstructInv'
    BY <2>2, <2>3 DEF ConstructInv, Texts
  <2> QED BY <2>3, <2>4 DEF CommonInv, Common!None
<1>2. CASE \E name \in Common!Names : Common!from_str("receive_name", name, <<>>)
  <2>1. PICK n \in Common!Names : Common!from_str("receive_name", n, <<>>)
    BY <1>2
  <2>2. n \in Seq(Characters) /\ n \in Texts /\ Len(n) \in Nat
    BY NamesAre DEF Texts
  <2>3. Common!TypeOK' /\ reading' = "Open" /\ kind' = "receive_name" /\ text' = n /\ printed' = <<>>
    BY <2>1, <2>2, ArrivesKeeps DEF Common!Kinds
  <2>4. NameInv'
    BY <2>2, <2>3 DEF NameInv, Texts, Characters
  <2> QED BY <2>3, <2>4 DEF CommonInv, Common!None
<1>3. CASE \E t, u \in {0, 1, Second, Limit - 2, Limit - 1} : Common!from_str("times", <<t, u>>, <<>>)
  <2>1. PICK t, u \in {0, 1, Second, Limit - 2, Limit - 1} : Common!from_str("times", <<t, u>>, <<>>)
    BY <1>3
  <2>2. t \in Common!u64 /\ u \in Common!u64
    <3>1. Limit \in Nat /\ Limit > 9 /\ Second \in 1 .. Limit - 1
      BY DEF Common!CommonTypesAssumption
    <3> QED BY <3>1 DEF Common!u64
  <2>3. Len(<<t, u>>) \in Nat /\ <<t, u>>[1] = t /\ <<t, u>>[2] = u
    OBVIOUS
  <2>4. Common!TypeOK' /\ reading' = "Open" /\ kind' = "times" /\ text' = <<t, u>> /\ printed' = <<>>
    BY <2>1, <2>3, ArrivesKeeps DEF Common!Kinds
  <2>5. TimesInv'
    BY <2>2, <2>3, <2>4 DEF TimesInv, Common!u64
  <2> QED BY <2>4, <2>5 DEF CommonInv, Common!None
<1>4. (\E v : \E t : Common!from_str("amount", t, v) \/ Common!from_str("duration", t, v)) => FALSE
  BY DEF Common!from_str
<1> QED BY <1>1, <1>2, <1>3, <1>4 DEF Common!Arrives

\* Whatever arrives keeps the invariant.
LEMMA ArrivalKeeps ==
  ASSUME Common!CommonTypesAssumption, CommonInv, kind = Common!None, Common!Arrives
  PROVE  CommonInv'
<1>0. MaxText \in Nat /\ Digits \subseteq 0 .. 9
  BY DEF Common!CommonTypesAssumption
<1>1. CASE \E t \in Common!SeqOf(Digits \cup {Common!Dot, Common!Other}, MaxText) : Common!from_str("amount", t, <<>>)
  <2>1. PICK t \in Common!SeqOf(Digits \cup {Common!Dot, Common!Other}, MaxText) : Common!from_str("amount", t, <<>>)
    BY <1>1
  <2> DEFINE A == Digits \cup {Common!Dot, Common!Other}
  <2>2. A \subseteq Nat
    BY <1>0 DEF Common!Dot, Common!Other
  <2> HIDE DEF A
  <2>3. t \in Seq(A)
    BY <1>0, <2>1, CommonSeqOf DEF A
  <2>4. Len(t) \in Nat /\ t \in [1 .. Len(t) -> A]
    BY <2>3
  <2>5. t \in [1 .. Len(t) -> Nat]
    BY <2>2, <2>4
  <2>6. t \in Texts
    BY <2>4, <2>5 DEF Texts
  <2> QED BY <2>1, <2>6, AmountArrives
<1>2. CASE \E a \in Common!u64 : Common!from_str("amount", Common!DisplayAmount(a), <<a>>)
  <2>1. PICK a \in Common!u64 : Common!from_str("amount", Common!DisplayAmount(a), <<a>>)
    BY <1>2
  <2>2. Common!DisplayAmount(a) \in Texts
    BY PrintedAmount
  <2> QED BY <2>1, <2>2, AmountArrives
<1>3. CASE \E t \in Common!SeqOf(Common!Measures, 2) : Common!from_str("duration", t, <<>>)
  <2>1. PICK t \in Common!SeqOf(Common!Measures, 2) : Common!from_str("duration", t, <<>>)
    BY <1>3
  <2>2. t \in Seq(Common!Measures)
    BY <2>1, CommonSeqOf
  <2>3. IsText(t)
    BY <2>2 DEF IsText
  <2> QED BY <2>1, <2>3, DurationArrives
<1>4. CASE \E d \in Common!u64 : Common!from_str("duration", Common!DisplayDuration(d), <<d>>)
  <2>1. PICK d \in Common!u64 : Common!from_str("duration", Common!DisplayDuration(d), <<d>>)
    BY <1>4
  <2>2. IsText(Common!DisplayDuration(d))
    BY PrintedDuration
  <2> QED BY <2>1, <2>2, DurationArrives
<1>5. CASE kind' \notin {"amount", "duration"}
  BY <1>5, NameArrives
<1>6. kind' \in {"amount", "duration"} =>
        \/ \E t \in Common!SeqOf(Digits \cup {Common!Dot, Common!Other}, MaxText) : Common!from_str("amount", t, <<>>)
        \/ \E a \in Common!u64 : Common!from_str("amount", Common!DisplayAmount(a), <<a>>)
        \/ \E t \in Common!SeqOf(Common!Measures, 2) : Common!from_str("duration", t, <<>>)
        \/ \E d \in Common!u64 : Common!from_str("duration", Common!DisplayDuration(d), <<d>>)
  BY DEF Common!Arrives, Common!from_str
<1> QED BY <1>1, <1>2, <1>3, <1>4, <1>5, <1>6

\* Every step keeps the invariant of the common types.
LEMMA CommonKeeps ==
  ASSUME Common!CommonTypesAssumption, CommonInv, [Common!Next]_common
  PROVE  CommonInv'
<1>1. CASE kind = Common!None /\ Common!Arrives
  BY <1>1, ArrivalKeeps
<1>2. CASE reading = "Open" /\ kind = "amount" /\ Common!ReadAmount
  <2>1. Parsing
    BY <1>2 DEF Parsing, CommonInv
  <2>2. AmountInv' /\ Common!TypeOK'
    BY <1>2, <2>1, AmountKeeps
  <2>3. kind' = kind
    BY <1>2 DEF Common!ReadAmount, Common!First, Common!AfterZero, Common!Whole, Common!Fraction, Common!Digit, Common!EndOfAmount, Common!Step, Common!Ok, Common!Err
  <2> QED BY <1>2, <2>2, <2>3 DEF CommonInv, AmountInv, Common!None
<1>3. CASE reading = "Open" /\ kind = "duration" /\ Common!ReadDuration
  <2>1. Timing
    BY <1>3 DEF Timing, CommonInv
  <2>2. DurationInv' /\ Common!TypeOK'
    BY <1>3, <2>1, DurationKeeps
  <2>3. kind' = kind
    BY <1>3 DEF Common!ReadDuration, Common!ReadMeasure, Common!Ok, Common!Err
  <2> QED BY <1>3, <2>2, <2>3 DEF CommonInv, DurationInv, Common!None
<1>4. CASE reading = "Open" /\ kind = "construct" /\ Common!construct
  <2>1. ConstructInv' /\ Common!TypeOK'
    BY <1>4, ConstructKeeps DEF CommonInv
  <2>2. kind' = kind
    BY <1>4 DEF Common!construct, Common!Ok, Common!Err
  <2> QED BY <1>4, <2>1, <2>2 DEF CommonInv, ConstructInv, Common!None
<1>5. CASE reading = "Open" /\ kind = "receive_name" /\ Common!ReadName
  <2>1. NameInv' /\ Common!TypeOK'
    BY <1>5, NameKeeps DEF CommonInv
  <2>2. kind' = kind
    BY <1>5 DEF Common!ReadName, Common!Ok, Common!Err
  <2> QED BY <1>5, <2>1, <2>2 DEF CommonInv, NameInv, Common!None
<1>6. CASE reading = "Open" /\ kind = "times" /\ Common!Measure
  <2>1. TimesInv' /\ Common!TypeOK'
    BY <1>6, MeasureTimesKeeps DEF CommonInv
  <2>2. kind' = kind
    BY <1>6 DEF Common!Measure, Common!Ok
  <2> QED BY <1>6, <2>1, <2>2 DEF CommonInv, TimesInv, Common!None
<1>7. CASE UNCHANGED common
  <2>1. /\ kind' = kind /\ text' = text /\ printed' = printed /\ at' = at /\ state' = state
        /\ after_dot' = after_dot /\ number' = number /\ reading' = reading
    BY <1>7 DEF common
  <2>2. Common!TypeOK'
    BY <2>1 DEF CommonInv, Common!TypeOK, Common!u64
  <2>3. kind = "amount" => AmountInv'
    BY <2>1 DEF CommonInv, AmountInv, Texts, Common!u64
  <2>4. kind = "duration" => DurationInv'
    BY <2>1 DEF CommonInv, DurationInv, IsText, Common!u64
  <2>5. kind = "construct" => ConstructInv'
    BY <2>1 DEF CommonInv, ConstructInv, Texts, Common!get_name_parts, Common!contract_name, Common!Contains
  <2>6. kind = "receive_name" => NameInv'
    BY <2>1 DEF CommonInv, NameInv, Texts, Characters, Common!Contains, Common!is_valid_entrypoint_name, Common!len, Common!StartsWithInit, Common!Printable
  <2>7. kind = "times" => TimesInv'
    BY <2>1 DEF CommonInv, TimesInv, Common!u64, Common!duration_between, Common!duration_since, Common!checked_add, Common!checked_sub
  <2> QED BY <2>1, <2>2, <2>3, <2>4, <2>5, <2>6, <2>7 DEF CommonInv
<1> QED BY <1>1, <1>2, <1>3, <1>4, <1>5, <1>6, <1>7 DEF Common!Next

\* The invariant says that what was printed reads back.
LEMMA CommonRight ==
  ASSUME Common!CommonTypesAssumption, CommonInv
  PROVE  Common!ReadsBack
<1>1. Common!PrintedReadsBack
  <2> SUFFICES ASSUME printed # <<>>
               PROVE  reading \notin {"Err", "Panic"} /\ (reading = "Ok" => number = printed[1])
    BY DEF Common!PrintedReadsBack
  <2>1. kind \in {"amount", "duration"}
    BY DEF CommonInv, Common!TypeOK, Common!Kinds, ConstructInv, NameInv, TimesInv
  <2>2. CASE kind = "amount"
    BY <2>2, PrintedAmountReads DEF CommonInv
  <2>3. CASE kind = "duration"
    BY <2>3, PrintedDurationReads DEF CommonInv
  <2> QED BY <2>1, <2>2, <2>3
<1>2. Common!AmountsExact
  BY AmountsRight DEF CommonInv
<1>3. Common!DurationsExact
  BY DurationsRight DEF CommonInv
<1>4. Common!NamesReadBack
  BY DEF CommonInv, Common!NamesReadBack, ConstructInv, NameInv
<1>5. Common!TimesAgree
  BY TimesRight DEF CommonInv
<1> QED BY <1>1, <1>2, <1>3, <1>4, <1>5 DEF Common!ReadsBack

\* The invariant holds the types.
LEMMA CommonTyped == CommonInv => Common!TypeOK
BY DEF CommonInv

-----------------------------------------------------------------------------
\* A step of the libraries is one of the library that runs.
LEMMA DataSteps ==
  [Next]_vars => [Leafs!Next]_leafs /\ [Common!Next]_common
BY DEF Next, vars, leafs, common

\* The Merkle tree has the root of its committed leaves, however they were
\* batched and whatever was rolled back, and its proofs convince a verifier of
\* these leaves and of no other in the place of one.
THEOREM TreeRight == Spec => []TreeHolds
<1>1. Init => LeafInv
  BY Limits, LeafsStart DEF Init
<1>2. LeafInv /\ [Next]_vars => LeafInv'
  BY DataSteps, LeafsKeep
<1>3. LeafInv => TreeHolds
  BY LeafsHold DEF TreeHolds
<1> QED BY <1>1, <1>2, <1>3, PTL DEF Spec
=============================================================================
