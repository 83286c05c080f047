------------------------------ MODULE SumProofs -----------------------------
(***************************************************************************)
(* Sums of the values of a function over a finite set, recursion over the  *)
(* natural numbers, and division.                                          *)
(***************************************************************************)
EXTENDS Integers, Sequences, Functions, FiniteSetTheorems, WellFoundedInduction, TLAPS

\* An injection of a finite set into as many numbers takes them all.
LEMMA Ranking ==
  ASSUME NEW S, IsFiniteSet(S), NEW r \in [S -> 1 .. Cardinality(S)],
         \A a, b \in S : r[a] = r[b] => a = b
  PROVE  \A i \in 1 .. Cardinality(S) : \E x \in S : r[x] = i
<1> DEFINE n == Cardinality(S)
           T == 1 .. n
<1>1. n \in Nat
  BY FS_CardinalityType
<1>2. IsFiniteSet(T) /\ Cardinality(T) = n
  BY <1>1, FS_Interval
<1>3. r \in Injection(S, T)
  BY DEF Injection, IsInjective
<1>4. r \in Surjection(S, T)
  BY <1>2, <1>3, FS_Injection
<1> QED BY <1>4 DEF Surjection

\* Induction over the subsets of a finite set, for a set of them.
LEMMA SubsetInduction ==
  ASSUME NEW S, IsFiniteSet(S), NEW G,
         \A T \in SUBSET S : (\A U \in SUBSET T : U # T => U \in G) => T \in G
  PROVE  SUBSET S \subseteq G
<1> DEFINE Bad == (SUBSET S) \ G
<1>1. SUFFICES ASSUME Bad # {} PROVE FALSE
  OBVIOUS
<1>2. IsWellFoundedOn(StrictSubsetOrdering(S), FiniteSubsetsOf(S))
  BY FS_StrictSubsetOrderingWellFounded
<1>3. FiniteSubsetsOf(S) = SUBSET S
  BY FS_FiniteSubsetsOfFinite
<1> HIDE DEF Bad
<1>4. Bad \subseteq SUBSET S
  BY DEF Bad
<1>5. PICK T \in Bad : \A U \in Bad : <<U, T>> \notin StrictSubsetOrdering(S)
  BY <1>1, <1>2, <1>3, <1>4, WFMin
<1>6. \A U \in SUBSET T : U # T => U \in G
  BY <1>4, <1>5 DEF StrictSubsetOrdering, Bad
<1> QED BY <1>4, <1>5, <1>6 DEF Bad

Chosen(T) == CHOOSE x \in T : TRUE

\* What the fold computes over the subsets of S.
Sums(f, S, h) ==
  h = [T \in SUBSET S |-> IF T = {} THEN 0 ELSE f[Chosen(T)] + h[T \ {Chosen(T)}]]

\* The library's sum is a recursive function applied to the set.
LEMMA SumUnfold ==
  ASSUME NEW f, NEW S
  PROVE  SumFunctionOnSet(f, S) = (CHOOSE h : Sums(f, S, h))[S]
BY DEF SumFunctionOnSet, FoldFunctionOnSet, MapThenFoldSet, Sums, Chosen


\* No two functions satisfy the recursion on a common subset.
LEMMA SumsUnique ==
  ASSUME NEW f, NEW S, IsFiniteSet(S), NEW T, NEW g, Sums(f, S, g), NEW h, Sums(f, T, h)
  PROVE  \A U \in SUBSET (S \cap T) : g[U] = h[U]
<1> DEFINE D == S \cap T
           G == {U \in SUBSET D : g[U] = h[U]}
<1>1. IsFiniteSet(D)
  BY FS_Intersection
<1>2. ASSUME NEW U \in SUBSET D, \A V \in SUBSET U : V # U => V \in G
      PROVE  U \in G
  <2>1. /\ g[U] = IF U = {} THEN 0 ELSE f[Chosen(U)] + g[U \ {Chosen(U)}]
        /\ h[U] = IF U = {} THEN 0 ELSE f[Chosen(U)] + h[U \ {Chosen(U)}]
    BY DEF Sums
  <2>2. U # {} => Chosen(U) \in U
    BY DEF Chosen
  <2>3. U # {} => U \ {Chosen(U)} \in G
    BY <1>2, <2>2
  <2> QED BY <2>1, <2>3
<1> HIDE DEF G, D
<1>3. SUBSET D \subseteq G
  BY <1>1, <1>2, SubsetInduction
<1> QED BY <1>3 DEF G, D

\* Some function satisfies the recursion on every finite set.
LEMMA SumsExist ==
  ASSUME NEW f, NEW S, IsFiniteSet(S)
  PROVE  \E h : Sums(f, S, h)
<1> DEFINE G == {T \in SUBSET S : \E h : Sums(f, T, h)}
           H(T) == CHOOSE h : Sums(f, T, h)
<1>1. ASSUME NEW T \in SUBSET S, \A U \in SUBSET T : U # T => U \in G
      PROVE  T \in G
  <2> DEFINE step(h, U) == IF U = {} THEN 0 ELSE f[Chosen(U)] + h[U \ {Chosen(U)}]
             below == [U \in SUBSET T |-> H(U)[U]]
             h0 == [U \in SUBSET T |-> IF U = T THEN step(below, T) ELSE below[U]]
  <2>1. \A U \in SUBSET T : U # T => Sums(f, U, H(U))
    BY <1>1
  <2>2. ASSUME NEW U \in SUBSET T, U # T PROVE below[U] = step(below, U)
    <3>1. Sums(f, U, H(U))
      BY <2>1, <2>2
    <3>2. H(U)[U] = step(H(U), U)
      BY <3>1 DEF Sums
    <3>3. ASSUME U # {} PROVE H(U)[U \ {Chosen(U)}] = below[U \ {Chosen(U)}]
      <4> DEFINE V == U \ {Chosen(U)}
      <4>1. V \in SUBSET T /\ V # T /\ V \in SUBSET (U \cap V) /\ IsFiniteSet(U)
        BY <2>2, <3>3, FS_Subset DEF Chosen
      <4>2. Sums(f, V, H(V))
        BY <2>1, <4>1
      <4> HIDE DEF H, V
      <4>3. H(U)[V] = H(V)[V]
        BY <3>1, <4>1, <4>2, SumsUnique
      <4> QED BY <4>1, <4>3 DEF V
    <3> QED BY <3>2, <3>3
  <2>3. Sums(f, T, h0)
    <3>1. ASSUME NEW U \in SUBSET T PROVE step(h0, U) = step(below, U)
      BY DEF Chosen
    <3>2. ASSUME NEW U \in SUBSET T PROVE h0[U] = step(h0, U)
      BY <2>2, <3>1
    <3>3. h0 = [U \in SUBSET T |-> h0[U]]
      OBVIOUS
    <3> HIDE DEF h0, step
    <3>4. h0 = [U \in SUBSET T |-> step(h0, U)]
      BY <3>2, <3>3
    <3> QED BY <3>4 DEF Sums, step
  <2> QED BY <2>3
<1> HIDE DEF G
<1>2. SUBSET S \subseteq G
  BY <1>1, SubsetInduction
<1>3. S \in G
  BY <1>2
<1> QED BY <1>3 DEF G

\* The sum over the empty set, and one element at a time.
LEMMA SumChosen ==
  ASSUME NEW f, NEW S, IsFiniteSet(S)
  PROVE  SumFunctionOnSet(f, S) =
           IF S = {} THEN 0
           ELSE f[Chosen(S)] + SumFunctionOnSet(f, S \ {Chosen(S)})
<1> DEFINE H(T) == CHOOSE h : Sums(f, T, h)
           T == S \ {Chosen(S)}
<1>1. IsFiniteSet(T) /\ T \in SUBSET (S \cap T)
  BY FS_Subset
<1>2. Sums(f, S, H(S)) /\ Sums(f, T, H(T))
  BY <1>1, SumsExist
<1>3. H(S)[S] = IF S = {} THEN 0 ELSE f[Chosen(S)] + H(S)[T]
  BY <1>2 DEF Sums
<1> HIDE DEF H, T
<1>4. H(S)[T] = H(T)[T]
  BY <1>1, <1>2, SumsUnique
<1>5. SumFunctionOnSet(f, S) = H(S)[S] /\ SumFunctionOnSet(f, T) = H(T)[T]
  BY SumUnfold DEF H
<1> QED BY <1>3, <1>4, <1>5 DEF T

-----------------------------------------------------------------------------
\* The sum over no elements.
LEMMA SumEmpty ==
  ASSUME NEW f
  PROVE  SumFunctionOnSet(f, {}) = 0
BY SumChosen, FS_EmptySet

\* The sum of integers is an integer.
LEMMA SumInteger ==
  ASSUME NEW S, IsFiniteSet(S), NEW f, \A x \in S : f[x] \in Int
  PROVE  SumFunctionOnSet(f, S) \in Int
<1> DEFINE G == {T \in SUBSET S : SumFunctionOnSet(f, T) \in Int}
<1>1. ASSUME NEW T \in SUBSET S, \A U \in SUBSET T : U # T => U \in G
      PROVE  T \in G
  <2>1. CASE T = {}
    BY <2>1, SumEmpty
  <2>2. CASE T # {}
    <3>1. Chosen(T) \in T /\ T \ {Chosen(T)} \in G
      BY <1>1, <2>2 DEF Chosen
    <3>2. SumFunctionOnSet(f, T) = f[Chosen(T)] + SumFunctionOnSet(f, T \ {Chosen(T)})
      BY <2>2, SumChosen, FS_Subset
    <3> QED BY <3>1, <3>2
  <2> QED BY <2>1, <2>2
<1> HIDE DEF G
<1>2. SUBSET S \subseteq G
  BY <1>1, SubsetInduction
<1> QED BY <1>2 DEF G

\* Any element may be taken out first.
LEMMA SumRemove ==
  ASSUME NEW S, IsFiniteSet(S), NEW f, \A x \in S : f[x] \in Int, NEW x \in S
  PROVE  SumFunctionOnSet(f, S) = f[x] + SumFunctionOnSet(f, S \ {x})
<1> DEFINE G == {T \in SUBSET S : \A y \in T :
                   SumFunctionOnSet(f, T) = f[y] + SumFunctionOnSet(f, T \ {y})}
<1>1. ASSUME NEW T \in SUBSET S, \A U \in SUBSET T : U # T => U \in G
      PROVE  T \in G
  <2> SUFFICES ASSUME NEW y \in T
               PROVE  SumFunctionOnSet(f, T) = f[y] + SumFunctionOnSet(f, T \ {y})
    OBVIOUS
  <2> DEFINE c == Chosen(T)
             rest == T \ {c, y}
  <2>1. c \in T /\ IsFiniteSet(T)
    BY FS_Subset DEF Chosen
  <2>2. SumFunctionOnSet(f, T) = f[c] + SumFunctionOnSet(f, T \ {c})
    BY <2>1, SumChosen
  <2>3. CASE y = c
    BY <2>2, <2>3
  <2>4. CASE y # c
    <3>1. /\ T \ {c} \in G /\ y \in T \ {c} /\ (T \ {c}) \ {y} = rest
          /\ T \ {y} \in G /\ c \in T \ {y} /\ (T \ {y}) \ {c} = rest
      BY <1>1, <2>1, <2>4
    <3>2. SumFunctionOnSet(f, T \ {c}) = f[y] + SumFunctionOnSet(f, rest)
      BY <3>1
    <3>3. SumFunctionOnSet(f, T \ {y}) = f[c] + SumFunctionOnSet(f, rest)
      BY <3>1
    <3>4. IsFiniteSet(rest) /\ (\A z \in rest : f[z] \in Int) /\ f[c] \in Int /\ f[y] \in Int
      BY <2>1, FS_Subset
    <3>5. SumFunctionOnSet(f, rest) \in Int
      BY <3>4, SumInteger
    <3> QED BY <2>2, <3>2, <3>3, <3>4, <3>5
  <2> QED BY <2>3, <2>4
<1> HIDE DEF G
<1>2. SUBSET S \subseteq G
  BY <1>1, SubsetInduction
<1> QED BY <1>2 DEF G

\* A new element adds its value.
LEMMA SumInsert ==
  ASSUME NEW S, IsFiniteSet(S), NEW f, NEW x, x \notin S, \A y \in S \cup {x} : f[y] \in Int
  PROVE  SumFunctionOnSet(f, S \cup {x}) = SumFunctionOnSet(f, S) + f[x]
<1>1. IsFiniteSet(S \cup {x}) /\ (S \cup {x}) \ {x} = S
  BY FS_AddElement
<1>2. SumFunctionOnSet(f, S \cup {x}) = f[x] + SumFunctionOnSet(f, S)
  BY <1>1, SumRemove
<1> QED BY <1>2, SumInteger

\* The sum depends on the values in the set only.
LEMMA SumSame ==
  ASSUME NEW S, IsFiniteSet(S), NEW f, NEW g, \A x \in S : f[x] = g[x]
  PROVE  SumFunctionOnSet(f, S) = SumFunctionOnSet(g, S)
<1> DEFINE G == {T \in SUBSET S : SumFunctionOnSet(f, T) = SumFunctionOnSet(g, T)}
<1>1. ASSUME NEW T \in SUBSET S, \A U \in SUBSET T : U # T => U \in G
      PROVE  T \in G
  <2>1. CASE T = {}
    BY <2>1, SumEmpty
  <2>2. CASE T # {}
    <3>1. Chosen(T) \in T /\ T \ {Chosen(T)} \in G /\ f[Chosen(T)] = g[Chosen(T)]
      BY <1>1, <2>2 DEF Chosen
    <3>2. /\ SumFunctionOnSet(f, T) = f[Chosen(T)] + SumFunctionOnSet(f, T \ {Chosen(T)})
          /\ SumFunctionOnSet(g, T) = g[Chosen(T)] + SumFunctionOnSet(g, T \ {Chosen(T)})
      BY <2>2, SumChosen, FS_Subset
    <3> QED BY <3>1, <3>2
  <2> QED BY <2>1, <2>2
<1> HIDE DEF G
<1>2. SUBSET S \subseteq G
  BY <1>1, SubsetInduction
<1> QED BY <1>2 DEF G

\* One value changes.
LEMMA SumUpdate ==
  ASSUME NEW S, IsFiniteSet(S), NEW f, NEW g, NEW x \in S,
         \A y \in S : f[y] \in Int /\ g[y] \in Int,
         \A y \in S \ {x} : f[y] = g[y]
  PROVE  SumFunctionOnSet(g, S) = SumFunctionOnSet(f, S) - f[x] + g[x]
<1>1. IsFiniteSet(S \ {x})
  BY FS_RemoveElement
<1>2. SumFunctionOnSet(f, S \ {x}) = SumFunctionOnSet(g, S \ {x})
  BY <1>1, SumSame
<1>3. SumFunctionOnSet(f, S \ {x}) \in Int
  BY <1>1, SumInteger
<1>4. /\ SumFunctionOnSet(f, S) = f[x] + SumFunctionOnSet(f, S \ {x})
      /\ SumFunctionOnSet(g, S) = g[x] + SumFunctionOnSet(g, S \ {x})
  BY SumRemove
<1> QED BY <1>2, <1>3, <1>4

\* A sum of naturals over a set is no more than over a larger set.
LEMMA SumPart ==
  ASSUME NEW S, IsFiniteSet(S), NEW f, \A x \in S : f[x] \in Nat, NEW T \in SUBSET S
  PROVE  /\ SumFunctionOnSet(f, T) \in Nat
         /\ SumFunctionOnSet(f, T) <= SumFunctionOnSet(f, S)
         /\ SumFunctionOnSet(f, S) \in Nat
<1> DEFINE G == {U \in SUBSET S : /\ SumFunctionOnSet(f, U) \in Nat
                                  /\ \A V \in SUBSET U :
                                        SumFunctionOnSet(f, V) <= SumFunctionOnSet(f, U)}
<1>1. ASSUME NEW U \in SUBSET S, \A V \in SUBSET U : V # U => V \in G
      PROVE  U \in G
  <2>0. \A V \in SUBSET U : IsFiniteSet(V) /\ SumFunctionOnSet(f, V) \in Int
    BY FS_Subset, SumInteger
  <2>1. SumFunctionOnSet(f, U) \in Nat
    <3>1. CASE U = {}
      BY <3>1, SumEmpty
    <3>2. CASE U # {}
      <4>1. PICK c : c \in U
        BY <3>2
      <4>2. SumFunctionOnSet(f, U) = f[c] + SumFunctionOnSet(f, U \ {c})
        BY <2>0, <4>1, SumRemove
      <4>3. U \ {c} \in G
        BY <1>1, <4>1
      <4> QED BY <4>1, <4>2, <4>3
    <3> QED BY <3>1, <3>2
  <2>2. ASSUME NEW V \in SUBSET U PROVE SumFunctionOnSet(f, V) <= SumFunctionOnSet(f, U)
    <3>1. CASE V = U
      BY <2>1, <3>1
    <3>2. CASE V # U
      <4>1. PICK c : c \in U \ V
        BY <3>2
      <4>2. SumFunctionOnSet(f, U) = f[c] + SumFunctionOnSet(f, U \ {c})
        BY <2>0, <4>1, SumRemove
      <4>3. U \ {c} \in G /\ V \in SUBSET (U \ {c})
        BY <1>1, <4>1
      <4>4. f[c] \in Nat /\ SumFunctionOnSet(f, U \ {c}) \in Nat
            /\ SumFunctionOnSet(f, V) <= SumFunctionOnSet(f, U \ {c})
            /\ SumFunctionOnSet(f, V) \in Int
        BY <2>0, <4>1, <4>3
      <4> QED BY <4>2, <4>4
    <3> QED BY <3>1, <3>2
  <2> QED BY <2>1, <2>2
<1> HIDE DEF G
<1>2. SUBSET S \subseteq G
  BY <1>1, SubsetInduction
<1> QED BY <1>2 DEF G

\* The sums over a part and over the rest.
LEMMA SumSplit ==
  ASSUME NEW S, IsFiniteSet(S), NEW f, \A x \in S : f[x] \in Int, NEW T \in SUBSET S
  PROVE  SumFunctionOnSet(f, S) = SumFunctionOnSet(f, T) + SumFunctionOnSet(f, S \ T)
<1> DEFINE G == {U \in SUBSET S :
                   SumFunctionOnSet(f, U)
                     = SumFunctionOnSet(f, U \cap T) + SumFunctionOnSet(f, U \ T)}
<1>1. ASSUME NEW U \in SUBSET S, \A V \in SUBSET U : V # U => V \in G
      PROVE  U \in G
  <2>1. CASE U = {}
    BY <2>1, SumEmpty
  <2>2. CASE U # {}
    <3>1. PICK c : c \in U
      BY <2>2
    <3> DEFINE V == U \ {c}
    <3>2. \A W \in SUBSET S : IsFiniteSet(W) /\ SumFunctionOnSet(f, W) \in Int
      BY FS_Subset, SumInteger
    <3>3. SumFunctionOnSet(f, U) = f[c] + SumFunctionOnSet(f, V)
      BY <3>1, <3>2, SumRemove
    <3>4. SumFunctionOnSet(f, V) = SumFunctionOnSet(f, V \cap T) + SumFunctionOnSet(f, V \ T)
      BY <1>1, <3>1
    <3>0. /\ f[c] \in Int
          /\ SumFunctionOnSet(f, V \cap T) \in Int /\ SumFunctionOnSet(f, V \ T) \in Int
      <4>1. V \cap T \in SUBSET S /\ V \ T \in SUBSET S
        OBVIOUS
      <4> QED BY <3>1, <3>2, <4>1
    <3>5. CASE c \in T
      <4>1. U \ T = V \ T /\ (U \cap T) \ {c} = V \cap T /\ c \in U \cap T
        BY <3>1, <3>5
      <4>2. SumFunctionOnSet(f, U \cap T) = f[c] + SumFunctionOnSet(f, V \cap T)
        BY <3>2, <4>1, SumRemove
      <4>3. SumFunctionOnSet(f, U \ T) = SumFunctionOnSet(f, V \ T)
        BY <4>1
      <4> HIDE DEF V
      <4>4. SumFunctionOnSet(f, U) = SumFunctionOnSet(f, U \cap T) + SumFunctionOnSet(f, U \ T)
        BY <3>0, <3>3, <3>4, <4>2, <4>3
      <4> QED BY <4>4
    <3>6. CASE c \notin T
      <4>1. U \cap T = V \cap T /\ (U \ T) \ {c} = V \ T /\ c \in U \ T
        BY <3>1, <3>6
      <4>2. SumFunctionOnSet(f, U \ T) = f[c] + SumFunctionOnSet(f, V \ T)
        BY <3>2, <4>1, SumRemove
      <4>3. SumFunctionOnSet(f, U \cap T) = SumFunctionOnSet(f, V \cap T)
        BY <4>1
      <4> HIDE DEF V
      <4>4. SumFunctionOnSet(f, U) = SumFunctionOnSet(f, U \cap T) + SumFunctionOnSet(f, U \ T)
        BY <3>0, <3>3, <3>4, <4>2, <4>3
      <4> QED BY <4>4
    <3> QED BY <3>5, <3>6
  <2> QED BY <2>1, <2>2
<1> HIDE DEF G
<1>2. SUBSET S \subseteq G
  BY <1>1, SubsetInduction
<1>3. S \in G /\ S \cap T = T
  BY <1>2
<1> QED BY <1>3 DEF G

\* One value is no more than a sum of naturals.
LEMMA SumBounds ==
  ASSUME NEW S, IsFiniteSet(S), NEW f, \A x \in S : f[x] \in Nat, NEW x \in S
  PROVE  f[x] <= SumFunctionOnSet(f, S)
<1>1. IsFiniteSet(S \ {x}) /\ S \ {x} \in SUBSET S
  BY FS_RemoveElement
<1>2. SumFunctionOnSet(f, S) = f[x] + SumFunctionOnSet(f, S \ {x})
  BY SumRemove
<1>3. SumFunctionOnSet(f, S \ {x}) \in Nat
  BY <1>1, SumPart
<1> QED BY <1>2, <1>3

\* Nothing adds up to 0.
LEMMA SumZero ==
  ASSUME NEW S, IsFiniteSet(S), NEW f, \A x \in S : f[x] = 0
  PROVE  SumFunctionOnSet(f, S) = 0
<1> DEFINE G == {T \in SUBSET S : SumFunctionOnSet(f, T) = 0}
<1>1. ASSUME NEW T \in SUBSET S, \A U \in SUBSET T : U # T => U \in G
      PROVE  T \in G
  <2>1. CASE T = {}
    BY <2>1, SumEmpty
  <2>2. CASE T # {}
    <3>1. Chosen(T) \in T /\ T \ {Chosen(T)} \in G
      BY <1>1, <2>2 DEF Chosen
    <3>2. SumFunctionOnSet(f, T) = f[Chosen(T)] + SumFunctionOnSet(f, T \ {Chosen(T)})
      BY <2>2, SumChosen, FS_Subset
    <3> QED BY <3>1, <3>2
  <2> QED BY <2>1, <2>2
<1> HIDE DEF G
<1>2. SUBSET S \subseteq G
  BY <1>1, SubsetInduction
<1>3. S \in G
  BY <1>2
<1> QED BY <1>3 DEF G

-----------------------------------------------------------------------------
(* Remainders.                                                             *)

\* Division with remainder.
LEMMA DivMod ==
  ASSUME NEW n \in Nat, NEW w \in Nat \ {0}
  PROVE  /\ n \div w \in Nat /\ n % w \in 0 .. w - 1
         /\ n = w * (n \div w) + (n % w)
OBVIOUS

\* The remainder is unique.
LEMMA ModUnique ==
  ASSUME NEW w \in Nat \ {0}, NEW q \in Int, NEW p \in Int,
         NEW r \in 0 .. w - 1, NEW s \in 0 .. w - 1, w * q + r = w * p + s
  PROVE  r = s
<1>1. w * (q - p) = s - r
  OBVIOUS
<1>2. CASE q - p >= 1
  <2>1. w * (q - p) >= w
    BY <1>2
  <2> QED BY <1>1, <2>1
<1>3. CASE q - p <= -1
  <2>1. w * (q - p) <= -w
    BY <1>3
  <2> QED BY <1>1, <2>1
<1>4. CASE q - p = 0
  BY <1>4
<1> QED BY <1>2, <1>3, <1>4

\* A multiple of w more leaves the same remainder.
LEMMA Congruent ==
  ASSUME NEW w \in Nat \ {0}, NEW m \in Nat, NEW n \in Nat, NEW k \in Int, n = m + k * w
  PROVE  n % w = m % w
<1> DEFINE q == m \div w
           p == n \div w
           r == m % w
           s == n % w
<1>1. q \in Nat /\ r \in 0 .. w - 1 /\ m = w * q + r
  BY DivMod
<1>2. p \in Nat /\ s \in 0 .. w - 1 /\ n = w * p + s
  BY DivMod
<1> HIDE DEF q, p, r, s
<1>3. w * (q + k) = w * q + k * w
  BY <1>1
<1>4. w * (q + k) + r = w * p + s
  BY <1>1, <1>2, <1>3
<1>5. q + k \in Int /\ p \in Int
  BY <1>1, <1>2
<1>6. r = s
  BY <1>1, <1>2, <1>4, <1>5, ModUnique
<1> QED BY <1>6 DEF r, s

\* A number below w is its own remainder.
LEMMA ModSmall ==
  ASSUME NEW w \in Nat \ {0}, NEW n \in 0 .. w - 1
  PROVE  n % w = n
<1> DEFINE k == n \div w
           r == n % w
<1>1. k \in Int /\ r \in 0 .. w - 1 /\ n = w * k + r
  BY DivMod
<1> HIDE DEF k, r
<1>2. w * 0 + n = w * k + r
  BY <1>1
<1>3. n = r
  BY <1>1, <1>2, ModUnique
<1> QED BY <1>3 DEF r

\* A term of a sum may be replaced by its remainder.
LEMMA ModSum ==
  ASSUME NEW w \in Nat \ {0}, NEW m \in Nat, NEW n \in Nat
  PROVE  m % w \in Nat /\ ((m % w) + n) % w = (m + n) % w
<1> DEFINE k == m \div w
           r == m % w
<1>1. k \in Nat /\ r \in Nat /\ m = w * k + r
  BY DivMod
<1> HIDE DEF k, r
<1>2. r + n \in Nat /\ m + n \in Nat /\ m + n = (r + n) + k * w
  BY <1>1
<1>3. (m + n) % w = (r + n) % w
  <2> DEFINE a == r + n
             b == m + n
  <2>1. a \in Nat /\ b \in Nat /\ k \in Int /\ b = a + k * w
    BY <1>1, <1>2
  <2> HIDE DEF a, b
  <2>2. b % w = a % w
    BY <2>1, Congruent
  <2> QED BY <2>2 DEF a, b
<1> QED BY <1>1, <1>3 DEF r

-----------------------------------------------------------------------------
(* Recursion over the natural numbers.                                       *)

\* A set of numbers has a smallest one.
LEMMA SmallestOf ==
  ASSUME NEW D \in SUBSET Nat, D # {}
  PROVE  \E i \in D : \A j \in D : i <= j
<1> DEFINE R == OpToRel(<, Nat)
<1>1. IsWellFoundedOn(R, Nat)
  BY NatLessThanWellFounded
<1>2. \A i, j \in Nat : <<j, i>> \in R <=> j < i
  BY DEF OpToRel
<1> HIDE DEF R
<1>3. PICK i \in D : \A j \in D : <<j, i>> \notin R
  BY <1>1, WFMin
<1>4. ASSUME NEW j \in D
      PROVE  i <= j
  <2>1. i \in Nat /\ j \in Nat /\ ~(j < i)
    BY <1>2, <1>3
  <2> QED BY <2>1
<1> QED BY <1>4

\* Induction, for a set in the place of a predicate.
LEMMA NumberInduction ==
  ASSUME NEW G, 0 \in G, \A n \in Nat : n \in G => n + 1 \in G
  PROVE  Nat \subseteq G
<1> DEFINE D == Nat \ G
<1>1. SUFFICES ASSUME D # {} PROVE FALSE
  OBVIOUS
<1>2. PICK i \in D : \A j \in D : i <= j
  BY <1>1, SmallestOf
<1>3. i \in Nat /\ i # 0 /\ i \notin G
  OBVIOUS
<1>4. i - 1 \in Nat /\ (i - 1) + 1 = i /\ i - 1 \notin D
  BY <1>2, <1>3
<1> QED BY <1>3, <1>4

\* The first n results of repeating a step.
Repeats(a, step, n, h) ==
  h[0] = a /\ \A k \in 0 .. n - 1 : h[k + 1] = step[h[k]]

\* A repetition has one course.
LEMMA RepeatsUnique ==
  ASSUME NEW a, NEW step, NEW n \in Nat, NEW g, NEW h,
         Repeats(a, step, n, g), Repeats(a, step, n, h)
  PROVE  \A k \in 0 .. n : g[k] = h[k]
<1> DEFINE G == {k \in Nat : k <= n => g[k] = h[k]}
<1>1. 0 \in G
  BY DEF Repeats
<1>2. ASSUME NEW k \in Nat, k \in G PROVE k + 1 \in G
  <2>1. ASSUME k + 1 <= n PROVE g[k + 1] = h[k + 1]
    <3>1. k \in 0 .. n - 1 /\ g[k] = h[k]
      BY <1>2, <2>1
    <3> QED BY <3>1 DEF Repeats
  <2> QED BY <2>1
<1> HIDE DEF G
<1>3. Nat \subseteq G
  BY <1>1, <1>2, NumberInduction
<1> QED BY <1>3 DEF G

\* A step can be repeated for ever.
LEMMA Repetition ==
  ASSUME NEW S, NEW a \in S, NEW step \in [S -> S]
  PROVE  \E h \in [Nat -> S] : h[0] = a /\ \A n \in Nat : h[n + 1] = step[h[n]]
<1> DEFINE G == {n \in Nat : \E h \in [0 .. n -> S] : Repeats(a, step, n, h)}
           H(n) == CHOOSE h : h \in [0 .. n -> S] /\ Repeats(a, step, n, h)
<1>1. 0 \in G
  <2> DEFINE h == [k \in 0 .. 0 |-> a]
  <2>1. h \in [0 .. 0 -> S] /\ Repeats(a, step, 0, h)
    BY DEF Repeats
  <2> QED BY <2>1
<1>2. ASSUME NEW n \in Nat, n \in G PROVE n + 1 \in G
  <2>1. PICK g \in [0 .. n -> S] : Repeats(a, step, n, g)
    BY <1>2
  <2> DEFINE h == [k \in 0 .. n + 1 |-> IF k <= n THEN g[k] ELSE step[g[n]]]
  <2>2. n \in 0 .. n /\ \A k \in 0 .. n + 1 : k <= n => k \in 0 .. n
    OBVIOUS
  <2>3. h \in [0 .. n + 1 -> S]
    BY <2>2
  <2>4. h[0] = a
    BY <2>1 DEF Repeats
  <2>5. ASSUME NEW k \in 0 .. (n + 1) - 1 PROVE h[k + 1] = step[h[k]]
    <3>1. k \in 0 .. n /\ k + 1 \in 0 .. n + 1 /\ h[k] = g[k]
      BY <2>2
    <3>2. CASE k = n
      BY <3>1, <3>2
    <3>3. CASE k # n
      <4>1. k \in 0 .. n - 1 /\ k + 1 <= n
        BY <3>1, <3>3
      <4>2. h[k + 1] = g[k + 1] /\ g[k + 1] = step[g[k]]
        BY <2>1, <3>1, <4>1 DEF Repeats
      <4> QED BY <3>1, <4>2
    <3> QED BY <3>2, <3>3
  <2> HIDE DEF h
  <2>6. Repeats(a, step, n + 1, h)
    BY <2>4, <2>5 DEF Repeats
  <2> QED BY <2>3, <2>6
<1>3. Nat \subseteq G
  <2> HIDE DEF G
  <2> QED BY <1>1, <1>2, NumberInduction
<1>4. \A n \in Nat : H(n) \in [0 .. n -> S] /\ Repeats(a, step, n, H(n))
  BY <1>3
<1> HIDE DEF G, H
<1> DEFINE h == [n \in Nat |-> H(n)[n]]
<1>5. h \in [Nat -> S]
  BY <1>4
<1>6. h[0] = a
  BY <1>4 DEF Repeats
<1>7. ASSUME NEW n \in Nat PROVE h[n + 1] = step[h[n]]
  <2>1. n + 1 \in Nat /\ n \in 0 .. (n + 1) - 1 /\ n \in 0 .. n
    OBVIOUS
  <2>2. H(n + 1)[n + 1] = step[H(n + 1)[n]]
    BY <1>4, <2>1 DEF Repeats
  <2>3. Repeats(a, step, n, H(n + 1))
    <3>1. \A k \in 0 .. n - 1 : k \in 0 .. (n + 1) - 1
      OBVIOUS
    <3>2. Repeats(a, step, n + 1, H(n + 1))
      BY <1>4, <2>1
    <3> QED BY <3>1, <3>2 DEF Repeats
  <2>4. H(n + 1)[n] = H(n)[n]
    BY <1>4, <2>1, <2>3, RepeatsUnique
  <2> QED BY <2>1, <2>2, <2>4
<1> QED BY <1>5, <1>6, <1>7

\* A function of the numbers up to k can be made from its first value and a
\* step that may depend on the number.
Makeable(V, v, k, g) == v \in V /\ k \in Nat /\ g \in [Nat \X V -> V]

Made(V, v, k, g, f) ==
  f \in [0 .. k -> V] /\ f[0] = v /\ \A d \in 1 .. k : f[d] = g[<<d, f[d - 1]>>]

\* What is made from the one before can be made from the start.
LEMMA MadeInSteps ==
  ASSUME NEW V, NEW v, NEW k, NEW g, Makeable(V, v, k, g)
  PROVE  \E f : Made(V, v, k, g, f)
<1>0. v \in V /\ k \in Nat /\ g \in [Nat \X V -> V]
  BY DEF Makeable
<1> SUFFICES \E f \in [0 .. k -> V] : f[0] = v /\ \A d \in 1 .. k : f[d] = g[<<d, f[d - 1]>>]
  BY DEF Made
<1> SUFFICES ASSUME NEW U, U = Nat \X V
             PROVE  \E f \in [0 .. k -> V] : f[0] = v /\ \A d \in 1 .. k : f[d] = g[<<d, f[d - 1]>>]
  OBVIOUS
<1> SUFFICES ASSUME NEW b, b = <<0, v>>,
                    NEW next, next = [x \in U |-> <<x[1] + 1, g[<<x[1] + 1, x[2]>>]>>]
             PROVE  \E f \in [0 .. k -> V] : f[0] = v /\ \A d \in 1 .. k : f[d] = g[<<d, f[d - 1]>>]
  OBVIOUS
<1>1. b \in U /\ next \in [U -> U]
  <2>1. ASSUME NEW x \in U PROVE <<x[1] + 1, g[<<x[1] + 1, x[2]>>]>> \in U
    <3>1. x[1] + 1 \in Nat /\ x[2] \in V
      OBVIOUS
    <3>2. <<x[1] + 1, x[2]>> \in Nat \X V
      BY <3>1
    <3>3. g[<<x[1] + 1, x[2]>>] \in V
      BY <1>0, <3>2
    <3> QED BY <3>1, <3>3
  <2> QED BY <1>0, <2>1
<1>2. \A x \in U : next[x] = <<x[1] + 1, g[<<x[1] + 1, x[2]>>]>>
  OBVIOUS
<1>3. PICK h \in [Nat -> U] : h[0] = b /\ \A d \in Nat : h[d + 1] = next[h[d]]
  BY ONLY <1>1, Repetition
<1> DEFINE G == {d \in Nat : h[d][1] = d}
<1>4. 0 \in G
  BY <1>3
<1>5. ASSUME NEW d \in Nat, d \in G PROVE d + 1 \in G
  <2>1. h[d] \in U /\ h[d][1] = d
    BY <1>3, <1>5
  <2>2. h[d + 1] = <<d + 1, g[<<d + 1, h[d][2]>>]>>
    BY <1>2, <1>3, <2>1
  <2> QED BY <2>2
<1> HIDE DEF G
<1>6. Nat \subseteq G
  BY <1>4, <1>5, NumberInduction
<1> DEFINE f == [d \in 0 .. k |-> h[d][2]]
<1>7. ASSUME NEW d \in Nat PROVE h[d][1] = d /\ h[d][2] \in V /\ h[d] \in U
  <2>1. h[d] \in U
    BY <1>3
  <2>2. h[d][2] \in V
    BY <2>1
  <2> QED BY <1>6, <2>1, <2>2 DEF G
<1>8. f \in [0 .. k -> V]
  BY <1>7
<1>9. f[0] = v
  <2>1. 0 \in 0 .. k
    BY <1>0
  <2> QED BY <1>3, <2>1
<1>10. ASSUME NEW d \in 1 .. k PROVE f[d] = g[<<d, f[d - 1]>>]
  <2>1. d - 1 \in Nat /\ (d - 1) + 1 = d /\ d - 1 \in 0 .. k /\ d \in 0 .. k
    BY <1>0
  <2> DEFINE e == d - 1
  <2>2. h[e + 1] = <<h[e][1] + 1, g[<<h[e][1] + 1, h[e][2]>>]>>
    BY <1>2, <1>3, <1>7, <2>1
  <2>3. h[e][1] = e
    BY <1>7, <2>1
  <2> HIDE DEF e
  <2>4. h[e + 1][2] = g[<<e + 1, h[e][2]>>]
    BY <2>2, <2>3
  <2> QED BY <2>1, <2>4 DEF e
<1> HIDE DEF f
<1> QED BY <1>8, <1>9, <1>10

-----------------------------------------------------------------------------
(* Division, sequences of numbers, and the numbers of digits.                *)

\* Quotient and remainder are unique.
LEMMA DivUnique ==
  ASSUME NEW w \in Nat \ {0}, NEW q \in Nat, NEW r \in 0 .. w - 1, NEW n, n = w * q + r
  PROVE  n \in Nat /\ n \div w = q /\ n % w = r
<1>0. w * q \in Nat
  OBVIOUS
<1>1. n \in Nat
  BY <1>0
<1> DEFINE p == n \div w
           s == n % w
<1>2. p \in Nat /\ s \in 0 .. w - 1 /\ n = w * p + s
  BY <1>1, DivMod
<1> HIDE DEF p, s
<1>3. w * q + r = w * p + s /\ q \in Int /\ p \in Int
  BY <1>2
<1>4. r = s
  BY ONLY <1>2, <1>3, ModUnique
<1>5. w * (q - p) = 0
  BY <1>2, <1>3, <1>4
<1>6. q = p
  <2>1. CASE q - p >= 1
    <3>1. w * (q - p) >= w
      BY <1>2, <2>1
    <3> QED BY <1>5, <3>1
  <2>2. CASE q - p <= -1
    <3>1. w * (q - p) <= -w
      BY <1>2, <2>2
    <3> QED BY <1>5, <3>1
  <2> QED BY <1>2, <2>1, <2>2
<1> QED BY <1>1, <1>4, <1>6 DEF p, s

\* The quotient of a quotient.
LEMMA DivTwice ==
  ASSUME NEW n \in Nat, NEW w \in Nat \ {0}, NEW b \in Nat \ {0}
  PROVE  b * w \in Nat \ {0} /\ n \div (b * w) = (n \div w) \div b
<1> DEFINE q == n \div w
           r == n % w
           y == q \div b
           e == q % b
<1>1. q \in Nat /\ r \in 0 .. w - 1 /\ n = w * q + r
  BY DivMod
<1>2. y \in Nat /\ e \in 0 .. b - 1 /\ q = b * y + e
  BY <1>1, DivMod
<1> HIDE DEF q, r, y, e
<1>3. w * (b * y + e) = (b * w) * y + w * e
  BY <1>1, <1>2
<1>4. b * w \in Nat \ {0}
  OBVIOUS
<1>5. w * e + r \in 0 .. b * w - 1
  <2>1. w * e \in Nat
    BY <1>2
  <2>2. w * (e + 1) <= w * b
    BY <1>2
  <2>3. w * (e + 1) = w * e + w /\ w * b = b * w
    BY <1>2
  <2> DEFINE u == w * e
             v == b * w
  <2>4. u \in Nat /\ v \in Nat /\ u + w <= v
    BY <1>4, <2>1, <2>2, <2>3
  <2> HIDE DEF u, v
  <2>5. u + r \in 0 .. v - 1
    BY <1>1, <2>4
  <2> QED BY <2>5 DEF u, v
<1>6. n = (b * w) * y + (w * e + r)
  <2> DEFINE u == w * e
             v == (b * w) * y
  <2>1. n = w * (b * y + e) + r
    BY <1>1, <1>2
  <2>2. u \in Nat /\ v \in Nat /\ w * (b * y + e) = v + u
    BY <1>2, <1>3, <1>4
  <2> HIDE DEF u, v
  <2>3. n = v + (u + r)
    BY <1>1, <2>1, <2>2
  <2> QED BY <2>3 DEF u, v
<1> DEFINE z == b * w
           s == w * e + r
<1>7. z \in Nat \ {0} /\ s \in 0 .. z - 1 /\ n = z * y + s
  BY <1>4, <1>5, <1>6
<1> HIDE DEF z, s
<1>8. n \div z = y
  BY <1>2, <1>7, DivUnique
<1> QED BY <1>4, <1>8 DEF z, y, q

\* One more digit of a number.
LEMMA NextDigit ==
  ASSUME NEW n \in Nat, NEW w \in Nat \ {0}
  PROVE  /\ (n \div w) % 10 \in 0 .. 9
         /\ 10 * (n \div (10 * w)) + ((n \div w) % 10) = n \div w
<1> DEFINE q == n \div w
<1>1. q \in Nat
  BY DivMod
<1>2. n \div (10 * w) = q \div 10
  BY DivTwice
<1> HIDE DEF q
<1>3. q % 10 \in 0 .. 9 /\ q = 10 * (q \div 10) + (q % 10)
  BY <1>1
<1> QED BY <1>2, <1>3 DEF q

\* A number below its divisor.
LEMMA DivSmall ==
  ASSUME NEW w \in Nat \ {0}, NEW n \in 0 .. w - 1
  PROVE  n \div w = 0 /\ n % w = n
<1>1. n = w * 0 + n /\ 0 \in Nat
  OBVIOUS
<1> QED BY <1>1, DivUnique

\* Multiples of the divisor are added to the quotient.
LEMMA DivAdds ==
  ASSUME NEW w \in Nat \ {0}, NEW n \in Nat, NEW k \in Nat, NEW m, m = k * w + n
  PROVE  m \in Nat /\ m \div w = k + (n \div w)
<1> DEFINE q == n \div w
           r == n % w
<1>1. q \in Nat /\ r \in 0 .. w - 1 /\ n = w * q + r
  BY DivMod
<1> HIDE DEF q, r
<1>2. w * (k + q) = k * w + w * q
  BY <1>1
<1>3. k * w \in Nat /\ w * q \in Nat
  BY <1>1
<1> DEFINE u == k * w
           v == w * q
           x == w * (k + q)
<1>4. u \in Nat /\ v \in Nat /\ x = u + v /\ m = u + n /\ n = v + r
  BY <1>1, <1>2, <1>3
<1> HIDE DEF u, v, x
<1>5. m = x + r
  BY <1>1, <1>4
<1>6. k + q \in Nat /\ m = w * (k + q) + r
  BY <1>1, <1>5 DEF x
<1> DEFINE y == k + q
<1>7. y \in Nat /\ m = w * y + r
  BY <1>6
<1> HIDE DEF y
<1>8. m \in Nat /\ m \div w = y
  BY ONLY w \in Nat \ {0}, <1>1, <1>7, DivUnique
<1> QED BY <1>8 DEF q, y

\* A quotient is at most the number.
LEMMA DivBelow ==
  ASSUME NEW w \in Nat \ {0}, NEW n \in Nat
  PROVE  n \div w \in Nat /\ n \div w <= n
<1> DEFINE q == n \div w
           r == n % w
<1>1. q \in Nat /\ r \in 0 .. w - 1 /\ n = w * q + r
  BY DivMod
<1> HIDE DEF q, r
<1>2. w * q >= q
  BY <1>1
<1>3. w * q \in Nat
  BY <1>1
<1> QED BY <1>1, <1>2, <1>3 DEF q

\* The remainder by a divisor of the divisor.
LEMMA ModOfMod ==
  ASSUME NEW n \in Nat, NEW a \in Nat \ {0}, NEW b \in Nat \ {0}, a % b = 0
  PROVE  n % a \in Nat /\ (n % a) % b = n % b
<1> DEFINE q == n \div a
           r == n % a
           k == a \div b
<1>1. q \in Nat /\ r \in 0 .. a - 1 /\ n = a * q + r
  BY DivMod
<1>2. k \in Nat /\ a = b * k + 0
  BY DivMod
<1> HIDE DEF q, r, k
<1>3. a * q = (k * q) * b
  BY <1>1, <1>2
<1>4. k * q \in Nat /\ r \in Nat
  BY <1>1, <1>2
<1> DEFINE j == k * q
<1>5. j \in Int /\ n = r + j * b
  BY <1>1, <1>3, <1>4
<1> HIDE DEF j
<1>6. n % b = r % b
  BY <1>4, <1>5, Congruent
<1> QED BY <1>4, <1>6 DEF r

\* Numbers that are each made from the one before, times m, and an element.
Accumulated(f, n, m, e) ==
  f \in [0 .. n -> Nat] /\ f[0] = 0 /\ \A i \in 1 .. n : f[i] = m * f[i - 1] + e[i]

\* There is a course of the numbers that digits accumulate to.
LEMMA Accumulates ==
  ASSUME NEW n \in Nat, NEW m \in Nat, NEW e, \A i \in 1 .. n : e[i] \in Nat
  PROVE  \E f : Accumulated(f, n, m, e)
<1> DEFINE g == [x \in Nat \X Nat |-> IF x[1] \in 1 .. n THEN m * x[2] + e[x[1]] ELSE 0]
<1>1. Makeable(Nat, 0, n, g)
  <2>1. ASSUME NEW x \in Nat \X Nat PROVE g[x] \in Nat
    <3>1. x[1] \in Nat /\ x[2] \in Nat
      OBVIOUS
    <3>2. m * x[2] \in Nat
      BY <3>1
    <3> QED
      <4> DEFINE p == m * x[2]
      <4> HIDE DEF p
      <4>1. x[1] \in 1 .. n => p + e[x[1]] \in Nat
        BY <3>2 DEF p
      <4> QED BY <4>1 DEF p
  <2>2. g \in [Nat \X Nat -> Nat]
    BY <2>1
  <2> QED BY <2>2 DEF Makeable
<1>2. \A i \in 1 .. n, y \in Nat : g[<<i, y>>] = m * y + e[i]
  <2>1. \A i \in 1 .. n, y \in Nat : <<i, y>> \in Nat \X Nat /\ <<i, y>>[1] = i /\ <<i, y>>[2] = y
    OBVIOUS
  <2> QED BY <2>1
<1> HIDE DEF g
<1>3. PICK f : Made(Nat, 0, n, g, f)
  BY <1>1, MadeInSteps
<1>4. f \in [0 .. n -> Nat] /\ f[0] = 0 /\ \A i \in 1 .. n : f[i] = g[<<i, f[i - 1]>>]
  BY <1>3 DEF Made
<1>5. ASSUME NEW i \in 1 .. n PROVE f[i] = m * f[i - 1] + e[i]
  <2>1. i - 1 \in 0 .. n
    OBVIOUS
  <2>2. f[i - 1] \in Nat
    BY <1>4, <2>1
  <2> QED BY <1>2, <1>4, <2>2
<1>6. Accumulated(f, n, m, e)
  BY <1>4, <1>5 DEF Accumulated
<1> QED BY <1>6

\* As a recursive function.
LEMMA AccumulatesTo ==
  ASSUME NEW n \in Nat, NEW m \in Nat, NEW e, NEW f, Accumulated(f, n, m, e)
  PROVE  f = [i \in 0 .. n |-> IF i = 0 THEN 0 ELSE m * f[i - 1] + e[i]]
<1>1. f = [i \in 0 .. n |-> f[i]]
  BY DEF Accumulated
<1>2. ASSUME NEW i \in 0 .. n PROVE f[i] = IF i = 0 THEN 0 ELSE m * f[i - 1] + e[i]
  <2>1. i # 0 => i \in 1 .. n
    OBVIOUS
  <2> QED BY <2>1 DEF Accumulated
<1> QED BY <1>1, <1>2

\* Two sequences of numbers are the same if they are at every place.
LEMMA SameNumbers ==
  ASSUME NEW s \in Seq(Nat), NEW t \in Seq(Nat), Len(s) = Len(t),
         \A i \in 1 .. Len(s) : s[i] = t[i]
  PROVE  s = t
OBVIOUS

\* A sequence of some numbers is one of numbers.
LEMMA NumberSeq ==
  ASSUME NEW A, A \subseteq Nat, NEW s \in Seq(A)
  PROVE  s \in Seq(Nat)
<1>1. Len(s) \in Nat /\ DOMAIN s = 1 .. Len(s) /\ s = [i \in 1 .. Len(s) |-> s[i]]
      /\ \A i \in 1 .. Len(s) : s[i] \in A
  OBVIOUS
<1>2. \A i \in 1 .. Len(s) : s[i] \in Nat
  BY <1>1
<1> QED BY <1>1, <1>2

\* The numbers that a list of digits has from its start.
ReadOff(ds) ==
  CHOOSE f : f = [i \in 0 .. Len(ds) |-> IF i = 0 THEN 0 ELSE 10 * f[i - 1] + ds[i]]

Texts == Seq(Nat)

\* The number read off a text grows by ten and a digit each time.
LEMMA ReadOffStep ==
  ASSUME NEW ds \in Texts
  PROVE  Accumulated(ReadOff(ds), Len(ds), 10, ds)
<1> DEFINE n == Len(ds)
           IsRead(f) == f = [i \in 0 .. Len(ds) |-> IF i = 0 THEN 0 ELSE 10 * f[i - 1] + ds[i]]
<1>1. n \in Nat /\ \A i \in 1 .. n : ds[i] \in Nat
  BY DEF Texts
<1>2. PICK h : Accumulated(h, n, 10, ds)
  <2> HIDE DEF n
  <2> QED BY <1>1, Accumulates
<1>3. h = [i \in 0 .. n |-> IF i = 0 THEN 0 ELSE 10 * h[i - 1] + ds[i]]
  <2> HIDE DEF n
  <2> QED BY <1>1, <1>2, AccumulatesTo
<1>4. IsRead(h)
  BY <1>3
<1>5. IsRead(ReadOff(ds))
  BY <1>4 DEF ReadOff
<1> DEFINE r == ReadOff(ds)
<1>6. r = [i \in 0 .. Len(ds) |-> IF i = 0 THEN 0 ELSE 10 * r[i - 1] + ds[i]]
  BY <1>5
<1> HIDE DEF r, IsRead
<1>7. r[0] = 0 /\ \A i \in 1 .. n : r[i] = 10 * r[i - 1] + ds[i]
  <2>1. 0 \in 0 .. Len(ds) /\ \A i \in 1 .. n : i \in 0 .. Len(ds) /\ i # 0
    BY <1>1
  <2> QED BY <1>6, <2>1
<1> DEFINE G == {i \in Nat : i <= n => r[i] \in Nat}
<1> HIDE DEF n
<1>8. 0 \in G
  BY <1>7
<1>9. ASSUME NEW i \in Nat, i \in G PROVE i + 1 \in G
  <2>1. ASSUME i + 1 <= n PROVE r[i + 1] \in Nat
    <3>1. r[i] \in Nat /\ i + 1 \in 1 .. n /\ (i + 1) - 1 = i
      BY <1>1, <1>9, <2>1
    <3>2. r[i + 1] = 10 * r[i] + ds[i + 1]
      <4>1. r[i + 1] = 10 * r[(i + 1) - 1] + ds[i + 1]
        BY <1>7, <3>1
      <4> QED BY <3>1, <4>1
    <3> DEFINE x == r[i]
               y == ds[i + 1]
    <3>3. x \in Nat /\ y \in Nat /\ r[i + 1] = 10 * x + y
      BY <1>1, <3>1, <3>2
    <3> HIDE DEF x, y
    <3> QED BY <3>3
  <2> QED BY <2>1
<1> HIDE DEF G
<1>10. Nat \subseteq G
  BY <1>8, <1>9, NumberInduction
<1>11. \A i \in 0 .. n : r[i] \in Nat
  BY <1>1, <1>10 DEF G
<1>12. r = [i \in 0 .. n |-> r[i]]
  BY <1>6 DEF n
<1>13. r \in [0 .. n -> Nat]
  BY <1>11, <1>12
<1>14. Accumulated(r, n, 10, ds)
  BY <1>7, <1>13 DEF Accumulated
<1> QED BY <1>14 DEF r, n

\* A digit more makes the number at least as large.
LEMMA ReadOffNext ==
  ASSUME NEW ds \in Texts, NEW i \in 0 .. Len(ds) - 1
  PROVE  /\ ReadOff(ds)[0] = 0
         /\ ReadOff(ds)[i] \in Nat /\ ReadOff(ds)[i + 1] \in Nat
         /\ ReadOff(ds)[i + 1] = 10 * ReadOff(ds)[i] + ds[i + 1]
         /\ ReadOff(ds)[i] <= ReadOff(ds)[i + 1]
<1> DEFINE r == ReadOff(ds)
           n == Len(ds)
<1>1. Accumulated(r, n, 10, ds)
  BY ReadOffStep
<1>2. n \in Nat /\ i + 1 \in 1 .. n /\ (i + 1) - 1 = i /\ ds[i + 1] \in Nat
  BY DEF Texts
<1> HIDE DEF r, n
<1>3. i \in 0 .. n /\ i + 1 \in 0 .. n
  BY <1>2
<1>4. r[0] = 0 /\ r[i] \in Nat /\ r[i + 1] \in Nat
  BY <1>1, <1>3 DEF Accumulated
<1>5. r[i + 1] = 10 * r[i] + ds[i + 1]
  <2>1. r[i + 1] = 10 * r[(i + 1) - 1] + ds[i + 1]
    BY <1>1, <1>2 DEF Accumulated
  <2> QED BY <1>2, <2>1
<1>6. r[i] <= r[i + 1]
  <2> DEFINE x == r[i]
             y == ds[i + 1]
             z == r[i + 1]
  <2>1. x \in Nat /\ y \in Nat /\ z = 10 * x + y
    BY <1>2, <1>4, <1>5
  <2> HIDE DEF x, y, z
  <2>2. x <= z
    BY <2>1
  <2> QED BY <2>2 DEF x, z
<1> QED BY <1>4, <1>5, <1>6 DEF r

\* What is read off a text is a number, and 0 at the start.
LEMMA ReadOffTyped ==
  ASSUME NEW ds \in Texts, NEW i \in 0 .. Len(ds)
  PROVE  ReadOff(ds)[0] = 0 /\ ReadOff(ds)[i] \in Nat
BY ReadOffStep DEF Accumulated

\* The number read off a text never falls.
LEMMA ReadOffRises ==
  ASSUME NEW ds \in Texts, NEW i \in 0 .. Len(ds)
  PROVE  ReadOff(ds)[i] \in Nat /\ ReadOff(ds)[Len(ds)] \in Nat
         /\ ReadOff(ds)[i] <= ReadOff(ds)[Len(ds)]
<1> DEFINE n == Len(ds)
           r == ReadOff(ds)
           G == {k \in Nat : i + k <= n => r[i + k] \in Nat /\ r[i] <= r[i + k]}
<1>0. n \in Nat /\ i \in 0 .. n /\ \A k \in 0 .. n : r[k] \in Nat
  BY ReadOffStep DEF Texts, Accumulated
<1>1. ASSUME NEW k \in 0 .. n - 1 PROVE r[k] <= r[k + 1]
  BY ReadOffNext
<1> HIDE DEF n, r
<1>2. 0 \in G
  BY <1>0
<1>3. ASSUME NEW k \in Nat, k \in G PROVE k + 1 \in G
  <2>1. ASSUME i + (k + 1) <= n PROVE r[i + (k + 1)] \in Nat /\ r[i] <= r[i + (k + 1)]
    <3> DEFINE j == i + k
    <3>1. i + (k + 1) = j + 1 /\ j \in 0 .. n - 1 /\ j + 1 \in 0 .. n /\ i + k <= n
      BY <1>0, <2>1
    <3>2. r[j] \in Nat /\ r[i] <= r[j]
      BY <1>3, <3>1
    <3> HIDE DEF j
    <3>3. r[j] <= r[j + 1] /\ r[j + 1] \in Nat /\ r[i] \in Nat
      BY <1>0, <1>1, <3>1
    <3> QED BY <3>1, <3>2, <3>3
  <2> QED BY <2>1
<1> HIDE DEF G
<1>4. Nat \subseteq G
  BY <1>2, <1>3, NumberInduction
<1> DEFINE k == n - i
<1>5. k \in Nat /\ i + k = n
  BY <1>0
<1> HIDE DEF k
<1>6. r[n] \in Nat /\ r[i] <= r[n]
  BY <1>0, <1>4, <1>5 DEF G
<1> QED BY <1>0, <1>6 DEF n, r

\* The digits of a text of which the first k are before the dot.
DigitsAt(t, k) == SubSeq(t, 1, k) \o SubSeq(t, k + 2, Len(t))

\* The digits of a text are those before its dot and those after it.
LEMMA DigitsOf ==
  ASSUME NEW t \in Texts, NEW k \in 1 .. Len(t)
  PROVE  /\ DigitsAt(t, k) \in Texts
         /\ k = Len(t) => Len(DigitsAt(t, k)) = k
         /\ k < Len(t) => Len(DigitsAt(t, k)) = Len(t) - 1
         /\ \A i \in 1 .. k : DigitsAt(t, k)[i] = t[i]
         /\ \A i \in k + 1 .. Len(t) - 1 : DigitsAt(t, k)[i] = t[i + 1]
<1> DEFINE a == SubSeq(t, 1, k)
           b == SubSeq(t, k + 2, Len(t))
<1>0. Len(t) \in Nat /\ t \in Seq(Nat)
  BY DEF Texts
<1>1. a \in Seq(Nat) /\ Len(a) = k /\ \A i \in 1 .. k : a[i] = t[i]
  BY <1>0
<1>2. b \in Seq(Nat)
  BY <1>0
<1>3. k = Len(t) => Len(b) = 0
  BY <1>0
<1>4. k < Len(t) => Len(b) = Len(t) - k - 1 /\ \A i \in 1 .. Len(t) - k - 1 : b[i] = t[i + k + 1]
  BY <1>0
<1> HIDE DEF a, b
<1>5. /\ a \o b \in Seq(Nat) /\ Len(a \o b) = k + Len(b)
      /\ \A i \in 1 .. k : (a \o b)[i] = a[i]
      /\ \A i \in 1 .. Len(b) : (a \o b)[k + i] = b[i]
  <2>1. a \in Seq(Nat) /\ b \in Seq(Nat) /\ Len(a) \in Nat /\ Len(b) \in Nat /\ Len(a) = k
    BY <1>1, <1>2
  <2>2. a \o b \in Seq(Nat) /\ Len(a \o b) = Len(a) + Len(b)
    BY ONLY <2>1
  <2>3. \A i \in 1 .. Len(a) : (a \o b)[i] = a[i]
    BY ONLY <2>1
  <2>4. \A i \in 1 .. Len(b) : (a \o b)[Len(a) + i] = b[i]
    BY ONLY <2>1
  <2> QED BY <2>1, <2>2, <2>3, <2>4
<1>6. ASSUME NEW i \in k + 1 .. Len(t) - 1 PROVE (a \o b)[i] = t[i + 1]
  <2> DEFINE j == i - k
  <2>1. k < Len(t) /\ j \in 1 .. Len(t) - k - 1 /\ k + j = i /\ j + k + 1 = i + 1
    BY <1>0
  <2> HIDE DEF j
  <2>2. Len(b) = Len(t) - k - 1 /\ b[j] = t[j + k + 1]
    BY <1>4, <2>1
  <2>3. (a \o b)[k + j] = b[j]
    BY <1>5, <2>1, <2>2
  <2> QED BY <2>1, <2>2, <2>3
<1>7. (k = Len(t) => Len(a \o b) = k) /\ (k < Len(t) => Len(a \o b) = Len(t) - 1)
  BY <1>0, <1>3, <1>4, <1>5
<1> QED BY <1>1, <1>5, <1>6, <1>7 DEF DigitsAt, Texts, a, b

\* One text after another.
LEMMA TextsJoin ==
  ASSUME NEW n \in Texts, NEW m \in Texts
  PROVE  /\ n \o m \in Texts /\ Len(n \o m) = Len(n) + Len(m) /\ Len(n) \in Nat /\ Len(m) \in Nat
         /\ \A i \in 1 .. Len(n) : (n \o m)[i] = n[i]
         /\ \A i \in 1 .. Len(m) : (n \o m)[Len(n) + i] = m[i]
<1>0. n \in Seq(Nat) /\ m \in Seq(Nat) /\ Len(n) \in Nat /\ Len(m) \in Nat
  BY DEF Texts
<1>1. n \o m \in Seq(Nat) /\ Len(n \o m) = Len(n) + Len(m)
  BY ONLY <1>0
<1>2. \A i \in 1 .. Len(n) : (n \o m)[i] = n[i]
  BY ONLY <1>0
<1>3. \A i \in 1 .. Len(m) : (n \o m)[Len(n) + i] = m[i]
  BY ONLY <1>0
<1> QED BY <1>0, <1>1, <1>2, <1>3 DEF Texts

\* A part of a text, and texts with the same characters.
IsPart(r, s, a, b) == r \in Texts /\ Len(r) = b - a /\ \A j \in 1 .. b - a : r[j] = s[j + a]

\* A SubSeq is a part of its text.
LEMMA TextPart ==
  ASSUME NEW s \in Texts, NEW a \in Nat, NEW b \in Nat, a <= b, b <= Len(s), NEW p, p = a + 1
  PROVE  IsPart(SubSeq(s, p, b), s, a, b)
BY DEF Texts, IsPart

\* Texts with the same characters are the same.
LEMMA SameText ==
  ASSUME NEW s \in Texts, NEW t \in Texts, Len(s) = Len(t), \A j \in 1 .. Len(s) : s[j] = t[j]
  PROVE  s = t
BY DEF Texts

\* The number of elements is in front of what is written for them.
LEMMA InFront ==
  ASSUME NEW z \in Nat, NEW e \in Seq(Nat)
  PROVE  /\ <<z>> \o e \in Seq(Nat) /\ Len(<<z>> \o e) = 1 + Len(e)
         /\ (<<z>> \o e)[1] = z /\ \A i \in 1 .. Len(e) : (<<z>> \o e)[i + 1] = e[i]
OBVIOUS

\* What is written for a bool, an option and an address.
LEMMA OneAndOne ==
  ASSUME NEW z \in Nat, NEW x \in Nat
  PROVE  <<z>> \o <<x>> = <<z, x>>
<1> DEFINE e == <<x>>
           s == <<z>> \o e
           t == <<z, x>>
<1>1. e \in Seq(Nat) /\ Len(e) = 1 /\ e[1] = x
  OBVIOUS
<1>2. t \in Seq(Nat) /\ Len(t) = 2 /\ t[1] = z /\ t[2] = x
  OBVIOUS
<1> HIDE DEF e
<1>3. s \in Seq(Nat) /\ Len(s) = 1 + Len(e) /\ s[1] = z /\ \A i \in 1 .. Len(e) : s[i + 1] = e[i]
  BY <1>1, InFront
<1> HIDE DEF s, t
<1>4. Len(s) = 2 /\ s[2] = x
  <2>1. 1 \in 1 .. Len(e) /\ 1 + 1 = 2
    BY <1>1
  <2>2. s[1 + 1] = e[1]
    BY <1>3, <2>1
  <2> QED BY <1>1, <1>3, <2>1, <2>2
<1>5. \A i \in 1 .. 2 : i = 1 \/ i = 2
  OBVIOUS
<1>6. s = t
  BY <1>2, <1>3, <1>4, <1>5, SameNumbers
<1> QED BY <1>6 DEF s, t, e

\* A sequence of one element before a sequence of two.
LEMMA OneAndTwo ==
  ASSUME NEW z \in Nat, NEW x \in Nat, NEW y \in Nat
  PROVE  <<z>> \o <<x, y>> = <<z, x, y>>
<1> DEFINE e == <<x, y>>
           s == <<z>> \o e
           t == <<z, x, y>>
<1>1. e \in Seq(Nat) /\ Len(e) = 2 /\ e[1] = x /\ e[2] = y
  OBVIOUS
<1>2. t \in Seq(Nat) /\ Len(t) = 3 /\ t[1] = z /\ t[2] = x /\ t[3] = y
  OBVIOUS
<1> HIDE DEF e
<1>3. s \in Seq(Nat) /\ Len(s) = 1 + Len(e) /\ s[1] = z /\ \A i \in 1 .. Len(e) : s[i + 1] = e[i]
  BY <1>1, InFront
<1> HIDE DEF s, t
<1>4. Len(s) = 3 /\ s[2] = x /\ s[3] = y
  <2>1. 1 \in 1 .. Len(e) /\ 1 + 1 = 2 /\ 2 \in 1 .. Len(e) /\ 2 + 1 = 3
    BY <1>1
  <2>2. s[1 + 1] = e[1] /\ s[2 + 1] = e[2]
    BY <1>3, <2>1
  <2> QED BY <1>1, <1>3, <2>1, <2>2
<1>5. \A i \in 1 .. 3 : i = 1 \/ i = 2 \/ i = 3
  OBVIOUS
<1>6. s = t
  BY <1>2, <1>3, <1>4, <1>5, SameNumbers
<1> QED BY <1>6 DEF s, t, e

\* A sequence that agrees with the beginning of another is that beginning.
LEMMA Begins ==
  ASSUME NEW d \in Seq(Nat), NEW u \in Seq(Nat), Len(u) <= Len(d), \A i \in 1 .. Len(u) : u[i] = d[i]
  PROVE  SubSeq(d, 1, Len(u)) = u
<1> DEFINE n == Len(u)
           t == SubSeq(d, 1, n)
<1>1. n \in Nat /\ Len(d) \in Nat
  OBVIOUS
<1>2. t \in Seq(Nat) /\ Len(t) = n /\ \A i \in 1 .. n : t[i] = d[i]
  BY <1>1
<1> HIDE DEF t
<1>3. t = u
  BY <1>2, SameNumbers
<1> QED BY <1>3 DEF t
=============================================================================
