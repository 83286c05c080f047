--------------------------- MODULE ElectionProofs ---------------------------
(***************************************************************************)
(* Theorems of an election, for every group order, hash, electorate and    *)
(* every choice of the voters.                                             *)
(***************************************************************************)
EXTENDS Election, SumProofs

-----------------------------------------------------------------------------
(* Exponents are numbers modulo q.                                         *)
Same(a, b) == \E k \in Int : a = b + k * q

LEMMA Order == q \in Nat \ {0} /\ q > 2 /\ q \in Int /\ Zq \subseteq Nat
BY GroupAssumption DEF Zq

LEMMA Remainder ==
  ASSUME NEW n \in Int
  PROVE  /\ n \div q \in Int /\ n % q \in 0 .. q - 1
         /\ n = q * (n \div q) + (n % q)
BY Order

\* A number is the same as its remainder, which is an exponent.
LEMMA SameRemainder ==
  ASSUME NEW n \in Int
  PROVE  n % q \in Zq /\ n % q \in Int /\ Same(n % q, n) /\ Same(n, n % q) /\ Same(n, n)
<1> DEFINE k == n \div q
           r == n % q
<1>1. k \in Int /\ r \in 0 .. q - 1 /\ n = q * k + r
  BY Remainder
<1> HIDE DEF k, r
<1>2. r = n + (-k) * q /\ n = r + k * q /\ n = n + 0 * q /\ -k \in Int
  BY <1>1, Order
<1>3. r \in Zq /\ r \in Int /\ Same(r, n) /\ Same(n, r) /\ Same(n, n)
  BY <1>1, <1>2, Order DEF Same, Zq
<1> QED BY <1>3 DEF r

\* The same numbers have the same remainder.
LEMMA SameMod ==
  ASSUME NEW m \in Int, NEW n \in Int, Same(m, n)
  PROVE  m % q = n % q
<1>1. PICK k \in Int : m = n + k * q
  BY DEF Same
<1> DEFINE a == m \div q
           b == n \div q
           r == m % q
           s == n % q
<1>2. a \in Int /\ r \in 0 .. q - 1 /\ m = q * a + r
  BY Remainder
<1>3. b \in Int /\ s \in 0 .. q - 1 /\ n = q * b + s
  BY Remainder
<1> HIDE DEF a, b, r, s
<1>4. q * (b + k) = q * b + k * q /\ b + k \in Int
  BY <1>1, <1>3, Order
<1>5. q * a + r = q * (b + k) + s
  BY <1>1, <1>2, <1>3, <1>4, Order
<1>6. r = s
  <2> DEFINE c == b + k
  <2>1. c \in Int /\ q * a + r = q * c + s
    BY <1>4, <1>5
  <2> HIDE DEF c
  <2> QED BY <1>2, <1>3, <2>1, Order, ModUnique
<1> QED BY <1>6 DEF r, s

\* An exponent is its own remainder.
LEMMA ExponentMod ==
  ASSUME NEW n \in Zq
  PROVE  n % q = n
BY Order, ModSmall DEF Zq

LEMMA SameBoth ==
  ASSUME NEW a \in Int, NEW b \in Int, NEW c \in Int, NEW d \in Int, Same(a, b), Same(c, d)
  PROVE  Same(a + c, b + d) /\ Same(a - c, b - d)
<1>1. PICK k \in Int : a = b + k * q
  BY DEF Same
<1>2. PICK j \in Int : c = d + j * q
  BY DEF Same
<1>3. a + c = (b + d) + (k + j) * q /\ a - c = (b - d) + (k - j) * q
  BY <1>1, <1>2, Order
<1>4. k + j \in Int /\ k - j \in Int
  OBVIOUS
<1> QED BY <1>3, <1>4 DEF Same

LEMMA SameTimes ==
  ASSUME NEW a \in Int, NEW b \in Int, NEW c \in Int, Same(a, b)
  PROVE  Same(c * a, c * b)
<1>1. PICK k \in Int : a = b + k * q
  BY DEF Same
<1>2. c * a = c * b + (c * k) * q /\ c * k \in Int
  BY <1>1, Order
<1> QED BY <1>2 DEF Same

LEMMA SameThrough ==
  ASSUME NEW a \in Int, NEW b \in Int, NEW c \in Int, Same(a, b), Same(b, c)
  PROVE  Same(a, c)
<1>1. PICK k \in Int : a = b + k * q
  BY DEF Same
<1>2. PICK j \in Int : b = c + j * q
  BY DEF Same
<1>3. a = c + (k + j) * q /\ k + j \in Int
  BY <1>1, <1>2, Order
<1> QED BY <1>3 DEF Same

-----------------------------------------------------------------------------
(* A proof made by the crate verifies in the contract.                     *)

Answers(w, x, c, b, t) == (b * ((w - x * c) % q) + t * c) % q = (b * w) % q

\* A response w - x c to a challenge c satisfies the verifier's equation, in any base.
LEMMA Response ==
  ASSUME NEW w \in Zq, NEW x \in Int, NEW c \in Int, NEW b \in Int, NEW t \in Int,
         Same(t, b * x)
  PROVE  (w - x * c) % q \in Zq /\ Answers(w, x, c, b, t)
<1> DEFINE n == w - x * c
           r == n % q
<1>1. w \in Int /\ n \in Int /\ b * x \in Int /\ b * w \in Int /\ b * n \in Int
  BY Order
<1>2. r \in Zq /\ r \in Int /\ Same(r, n)
  BY <1>1, SameRemainder
<1>3. b * n = b * w - c * (b * x)
  BY <1>1
<1> HIDE DEF n, r
<1>4. Same(b * r, b * n) /\ b * r \in Int
  BY <1>1, <1>2, SameTimes
<1>5. Same(c * t, c * (b * x)) /\ c * t \in Int /\ c * (b * x) \in Int /\ c * t = t * c
  <2> DEFINE y == b * x
  <2>1. y \in Int /\ Same(t, y)
    BY <1>1
  <2> HIDE DEF y
  <2>2. Same(c * t, c * y) /\ c * t \in Int /\ c * y \in Int /\ c * t = t * c
    BY <2>1, SameTimes
  <2> QED BY <2>2 DEF y
<1>6. Same(b * r + c * t, b * n + c * (b * x))
  BY <1>1, <1>4, <1>5, SameBoth
<1>7. b * n + c * (b * x) = b * w
  BY <1>1, <1>3, <1>5
<1>8. (b * r + t * c) % q = (b * w) % q
  BY <1>1, <1>4, <1>5, <1>6, <1>7, SameMod
<1> QED BY <1>2, <1>8 DEF r, n, Answers

\* The challenges of the two branches add up to the hash.
LEMMA Challenges ==
  ASSUME NEW c \in Zq, NEW d \in Zq
  PROVE  (c - d) % q \in Zq /\ c = (d + ((c - d) % q)) % q /\ c = (((c - d) % q) + d) % q
<1> DEFINE n == c - d
           e == n % q
<1>1. c \in Int /\ d \in Int /\ n \in Int
  BY Order
<1>2. e \in Zq /\ e \in Int /\ Same(e, n) /\ Same(d, d)
  BY <1>1, SameRemainder
<1>3. d + n = c
  BY <1>1
<1> HIDE DEF n, e
<1>4. Same(d + e, d + n) /\ d + e \in Int /\ d + e = e + d
  BY <1>1, <1>2, SameBoth
<1>5. (d + e) % q = c % q
  BY <1>1, <1>3, <1>4, SameMod
<1>6. c = (d + e) % q /\ c = (e + d) % q
  BY <1>4, <1>5, ExponentMod
<1> QED BY <1>2, <1>6 DEF n, e

LEMMA HashTyped == \A n \in Int : hash_to_scalar(n % q) \in Zq
BY SameRemainder, GroupAssumption DEF hash_to_scalar, Zq

\* Without an IF on what it is of, the proof for a yes.
LEMMA YesVerifies ==
  ASSUME NEW x \in Zq, NEW g \in Zq, NEW w \in Zq, NEW r \in Zq, NEW d \in Zq, NEW zkp,
         zkp = create_one_in_two_zkp_yes(x, g, x, w, r, d),
         Readable(zkp), Parses(one_in_two_challenge(zkp.points))
  PROVE  verify_one_in_two_zkp(zkp, g)
<1> DEFINE y == (g * x + GENERATOR) % q
           points == [x |-> x, y |-> y,
                      a1 |-> (r + x * d) % q, b1 |-> (g * r + y * d) % q,
                      a2 |-> w, b2 |-> (g * w) % q]
           c == one_in_two_challenge(points)
           e == (c - d) % q
           s == (w - x * e) % q
<1>1. /\ zkp.points = points /\ zkp.r1 = r /\ zkp.d1 = d /\ zkp.d2 = e /\ zkp.r2 = s
      /\ points.x = x /\ points.y = y /\ points.a1 = (r + x * d) % q
      /\ points.b1 = (g * r + y * d) % q /\ points.a2 = w /\ points.b2 = (g * w) % q
  BY DEF create_one_in_two_zkp_yes
<1>2. x \in Int /\ g \in Int /\ w \in Int /\ r \in Int /\ d \in Int /\ g * x \in Int
  BY Order
<1>3. y \in Zq /\ y \in Int /\ Same(y - 1, g * x) /\ y - 1 \in Int
  <2> DEFINE n == g * x + 1
             m == n % q
  <2>1. n \in Int /\ n - 1 = g * x
    BY <1>2
  <2>2. m \in Zq /\ m \in Int /\ Same(m, n) /\ Same(1, 1)
    BY <2>1, SameRemainder
  <2> HIDE DEF n, m
  <2>3. Same(m - 1, n - 1)
    BY <2>1, <2>2, SameBoth
  <2> QED BY <2>1, <2>2, <2>3 DEF n, m, GENERATOR
<1>4. c \in Zq
  <2>1. (r + x * d) \in Int /\ (g * r + y * d) \in Int /\ g * w \in Int
    BY <1>2, <1>3
  <2>2. points.a1 \in Int /\ points.b1 \in Int /\ points.b2 \in Int
    BY <1>1, <2>1, SameRemainder
  <2> HIDE DEF points, y
  <2>3. points.x + points.y + points.a1 + points.b1 + points.a2 + points.b2 \in Int
    BY <1>1, <1>2, <1>3, <2>2
  <2> QED BY <2>3, HashTyped DEF one_in_two_challenge
<1>5. e \in Zq /\ c = (d + e) % q /\ e \in Int
  <2> HIDE DEF c
  <2> QED BY <1>4, Challenges, Order
<1>6. w = (s + x * e) % q
  <2> HIDE DEF e
  <2>1. Same(x, x) /\ 1 * x = x
    BY <1>2, SameRemainder
  <2>2. s \in Zq /\ Answers(w, x, e, 1, x)
    <3> DEFINE one == 1
    <3>1. one \in Int /\ Same(x, one * x)
      BY <2>1
    <3> HIDE DEF one
    <3>2. s \in Zq /\ Answers(w, x, e, one, x)
      BY <1>2, <1>5, <3>1, Response
    <3> QED BY <3>2 DEF one
  <2>3. (1 * s + x * e) % q = (1 * w) % q
    BY <2>2 DEF Answers
  <2> HIDE DEF s
  <2>4. 1 * s = s /\ 1 * w = w
    BY <1>2, <2>2, Order
  <2>5. (s + x * e) % q = w % q
    BY <2>3, <2>4
  <2> QED BY <2>5, ExponentMod
<1>7. (g * w) % q = (g * s + (y - GENERATOR) * e) % q
  <2> DEFINE t == y - 1
  <2> HIDE DEF e, y
  <2>1. t \in Int /\ Same(t, g * x)
    BY <1>3
  <2> HIDE DEF t
  <2>2. Answers(w, x, e, g, t)
    BY <1>2, <1>5, <2>1, Response
  <2> QED BY <2>2 DEF Answers, t, GENERATOR
<1> HIDE DEF points, c, e, s, y
<1>8. one_in_two_challenge(zkp.points) = c
  BY <1>1 DEF c
<1> QED BY <1>1, <1>5, <1>6, <1>7, <1>8 DEF verify_one_in_two_zkp

\* And the proof for a no.
LEMMA NoVerifies ==
  ASSUME NEW x \in Zq, NEW g \in Zq, NEW w \in Zq, NEW r \in Zq, NEW d \in Zq, NEW zkp,
         zkp = create_one_in_two_zkp_no(x, g, x, w, r, d),
         Readable(zkp), Parses(one_in_two_challenge(zkp.points))
  PROVE  verify_one_in_two_zkp(zkp, g)
<1> DEFINE y == (g * x) % q
           points == [x |-> x, y |-> y, a1 |-> w, b1 |-> (g * w) % q,
                      a2 |-> (r + x * d) % q,
                      b2 |-> (g * r + (y - GENERATOR) * d) % q]
           c == one_in_two_challenge(points)
           e == (c - d) % q
           s == (w - x * e) % q
<1>1. /\ zkp.points = points /\ zkp.r2 = r /\ zkp.d2 = d /\ zkp.d1 = e /\ zkp.r1 = s
      /\ points.x = x /\ points.y = y /\ points.a1 = w /\ points.b1 = (g * w) % q
      /\ points.a2 = (r + x * d) % q /\ points.b2 = (g * r + (y - GENERATOR) * d) % q
  BY DEF create_one_in_two_zkp_no
<1>2. x \in Int /\ g \in Int /\ w \in Int /\ r \in Int /\ d \in Int /\ g * x \in Int
  BY Order
<1>3. y \in Int /\ Same(y, g * x)
  <2> DEFINE n == g * x
  <2> HIDE DEF n
  <2>1. n \in Int => n % q \in Int /\ Same(n % q, n)
    BY SameRemainder
  <2> QED BY <1>2, <2>1 DEF n
<1>4. c \in Zq
  <2> HIDE DEF y
  <2>1. (r + x * d) \in Int /\ (g * r + (y - GENERATOR) * d) \in Int /\ g * w \in Int
    BY <1>2, <1>3 DEF GENERATOR
  <2>2. points.a2 \in Int /\ points.b2 \in Int /\ points.b1 \in Int
    BY <1>1, <2>1, SameRemainder
  <2> HIDE DEF points
  <2>3. points.x + points.y + points.a1 + points.b1 + points.a2 + points.b2 \in Int
    BY <1>1, <1>2, <1>3, <2>2
  <2> QED BY <2>3, HashTyped DEF one_in_two_challenge
<1>5. e \in Zq /\ c = (e + d) % q /\ e \in Int
  <2> HIDE DEF c
  <2> QED BY <1>4, Challenges, Order
<1>6. w = (s + x * e) % q
  <2> HIDE DEF e
  <2>1. Same(x, x) /\ 1 * x = x
    BY <1>2, SameRemainder
  <2>2. s \in Zq /\ Answers(w, x, e, 1, x)
    <3> DEFINE one == 1
    <3>1. one \in Int /\ Same(x, one * x)
      BY <2>1
    <3> HIDE DEF one
    <3>2. s \in Zq /\ Answers(w, x, e, one, x)
      BY <1>2, <1>5, <3>1, Response
    <3> QED BY <3>2 DEF one
  <2>3. (1 * s + x * e) % q = (1 * w) % q
    BY <2>2 DEF Answers
  <2> HIDE DEF s
  <2>4. 1 * s = s /\ 1 * w = w
    BY <1>2, <2>2, Order
  <2>5. (s + x * e) % q = w % q
    BY <2>3, <2>4
  <2> QED BY <2>5, ExponentMod
<1>7. (g * w) % q = (g * s + y * e) % q
  <2> HIDE DEF e, y
  <2>1. Answers(w, x, e, g, y)
    BY <1>2, <1>3, <1>5, Response
  <2> QED BY <2>1 DEF Answers
<1> HIDE DEF points, c, e, s, y
<1>8. one_in_two_challenge(zkp.points) = c
  BY <1>1 DEF c
<1> QED BY <1>1, <1>5, <1>6, <1>7, <1>8 DEF verify_one_in_two_zkp

\* The proof of a voting key.
LEMMA KeyVerifies ==
  ASSUME NEW x \in Zq, NEW w \in Zq, NEW zkp, zkp = create_schnorr_zkp(x, x, w),
         Parses(w), Parses(zkp.r), Parses(schnorr_challenge(w, x))
  PROVE  verify_schnorr_zkp(x, zkp)
<1> DEFINE c == schnorr_challenge(w, x)
           s == (w - x * c) % q
           one == 1
<1>1. zkp.g_w = w /\ zkp.r = s
  BY DEF create_schnorr_zkp
<1>2. x \in Int /\ w \in Int /\ GENERATOR + w + x \in Int
  BY Order DEF GENERATOR
<1>3. c \in Int
  <2> DEFINE n == GENERATOR + w + x
  <2>1. n \in Int /\ schnorr_challenge(w, x) = hash_to_scalar(n % q)
    BY <1>2 DEF schnorr_challenge
  <2> HIDE DEF n
  <2>2. hash_to_scalar(n % q) \in Zq
    BY <2>1, HashTyped
  <2>3. c \in Zq
    BY <2>1, <2>2
  <2>4. Zq \subseteq Int
    BY Order
  <2> QED BY <2>3, <2>4
<1> HIDE DEF c
<1>4. one \in Int /\ Same(x, one * x)
  BY <1>2, SameRemainder
<1> HIDE DEF one
<1>5. s \in Zq /\ Answers(w, x, c, one, x)
  BY <1>2, <1>3, <1>4, Response
<1>6. (one * s + x * c) % q = (one * w) % q
  BY <1>5 DEF Answers
<1> HIDE DEF s
<1>7. one * s = s /\ one * w = w
  BY <1>2, <1>5, Order DEF one
<1>8. (s + x * c) % q = w
  BY <1>6, <1>7, ExponentMod
<1> QED BY <1>1, <1>8 DEF verify_schnorr_zkp, c

-----------------------------------------------------------------------------
(* The roll of the voters, in the order of their addresses.                *)

LEMMA VotersFew ==
  ASSUME voters \subseteq Account
  PROVE  /\ voters \subseteq Nat /\ IsFiniteSet(voters) /\ Cardinality(voters) \in Nat
         /\ \A S \in SUBSET voters : IsFiniteSet(S) /\ Cardinality(S) \in Nat
BY ElectionAssumption, FS_Subset, FS_CardinalityType

\* Every position has one voter and every voter one position.
LEMMA RollOnce ==
  ASSUME voters \subseteq Account
  PROVE  /\ \A i \in 1 .. Cardinality(voters) : Roll[i] \in voters
         /\ \A i, j \in 1 .. Cardinality(voters) : Roll[i] = Roll[j] => i = j
         /\ \A a \in voters : \E i \in 1 .. Cardinality(voters) : Roll[i] = a
<1> DEFINE n == Cardinality(voters)
           Before(a) == {b \in voters : b < a}
           rank == [a \in voters |-> Cardinality(Before(a)) + 1]
<1>1. /\ voters \subseteq Nat /\ IsFiniteSet(voters) /\ n \in Nat
      /\ \A S \in SUBSET voters : IsFiniteSet(S) /\ Cardinality(S) \in Nat
  BY VotersFew
<1>2. ASSUME NEW a \in voters PROVE Cardinality(Before(a)) \in 0 .. n - 1
  <2>1. Before(a) \in SUBSET voters /\ a \notin Before(a)
    BY <1>1
  <2> DEFINE S == Before(a)
  <2> HIDE DEF S
  <2>2. Cardinality(S) \in Nat /\ Cardinality(S) <= n /\ (n = Cardinality(S) => voters = S)
    BY <1>1, <2>1, FS_Subset DEF S
  <2>3. voters # S
    BY <2>1 DEF S
  <2> QED BY <1>1, <2>2, <2>3 DEF S
<1>3. ASSUME NEW a \in voters, NEW b \in voters, a < b
      PROVE  Cardinality(Before(a)) < Cardinality(Before(b))
  <2>1. Before(a) \in SUBSET Before(b) /\ a \in Before(b) /\ a \notin Before(a)
        /\ Before(b) \in SUBSET voters
    <3>1. ASSUME NEW c \in Before(a) PROVE c \in Before(b)
      <4>1. c \in voters /\ c \in Int /\ a \in Int /\ b \in Int /\ c < a
        BY <1>1
      <4>2. c < b
        BY <1>3, <4>1
      <4> QED BY <4>1, <4>2
    <3>2. a \in Nat /\ ~(a < a)
      BY <1>1
    <3> QED BY <1>3, <3>1, <3>2
  <2> DEFINE S == Before(a)
             T == Before(b)
  <2>2. IsFiniteSet(T) /\ Cardinality(S) \in Nat /\ Cardinality(T) \in Nat
    BY <1>1, <2>1
  <2>3. S \in SUBSET T /\ S # T
    BY <2>1
  <2> HIDE DEF S, T
  <2>4. Cardinality(S) <= Cardinality(T) /\ Cardinality(S) # Cardinality(T)
    BY <2>2, <2>3, FS_Subset
  <2> QED BY <2>2, <2>4 DEF S, T
<1>4. \A a, b \in voters : Cardinality(Before(a)) = Cardinality(Before(b)) => a = b
  <2> SUFFICES ASSUME NEW a \in voters, NEW b \in voters,
                      Cardinality(Before(a)) = Cardinality(Before(b)), a # b
               PROVE  FALSE
    OBVIOUS
  <2>1. a < b \/ b < a
    BY <1>1
  <2>2. Cardinality(Before(a)) \in Nat /\ Cardinality(Before(b)) \in Nat
    BY <1>2
  <2> HIDE DEF Before
  <2> QED BY <1>3, <2>1, <2>2
<1>5. rank \in Surjection(voters, 1 .. n)
  <2>1. \A a \in voters : rank[a] \in 1 .. n
    <3> SUFFICES ASSUME NEW a \in voters PROVE rank[a] \in 1 .. n
      OBVIOUS
    <3> HIDE DEF Before
    <3> QED BY <1>1, <1>2
  <2>2. \A a, b \in voters : rank[a] = rank[b] => a = b
    <3> SUFFICES ASSUME NEW a \in voters, NEW b \in voters, rank[a] = rank[b] PROVE a = b
      OBVIOUS
    <3>1. Cardinality(Before(a)) \in Int /\ Cardinality(Before(b)) \in Int
      BY <1>2
    <3> HIDE DEF Before
    <3>2. Cardinality(Before(a)) = Cardinality(Before(b))
      BY <3>1
    <3> QED BY <1>4, <3>2
  <2>3. rank = [a \in voters |-> rank[a]]
    OBVIOUS
  <2> HIDE DEF rank
  <2>4. rank \in Injection(voters, 1 .. n)
    BY <2>1, <2>2, <2>3 DEF Injection, IsInjective
  <2>5. IsFiniteSet(1 .. n) /\ Cardinality(1 .. n) = n
    BY <1>1, FS_Interval
  <2> HIDE DEF n
  <2> QED BY <2>4, <2>5, FS_Injection DEF n
<1>6. ASSUME NEW i \in 1 .. n PROVE Roll[i] \in voters /\ rank[Roll[i]] = i
  <2>1. PICK a \in voters : rank[a] = i
    BY <1>5 DEF Surjection
  <2>2. Cardinality(Before(a)) = i - 1
    <3>1. Cardinality(Before(a)) \in Int
      BY <1>2
    <3> HIDE DEF Before
    <3> QED BY <1>1, <2>1, <3>1
  <2>3. Roll[i] = CHOOSE b \in voters : Cardinality(Before(b)) = i - 1
    BY DEF Roll
  <2> HIDE DEF Before
  <2>4. Roll[i] \in voters /\ Cardinality(Before(Roll[i])) = i - 1
    BY <2>2, <2>3
  <2> QED BY <1>1, <2>4
<1>7. ASSUME NEW a \in voters PROVE rank[a] \in 1 .. n /\ Roll[rank[a]] = a
  <2>1. rank[a] \in 1 .. n
    BY <1>5 DEF Surjection
  <2> DEFINE i == rank[a]
             b == Roll[i]
  <2>2. i \in 1 .. n
    BY <2>1
  <2>3. b \in voters /\ rank[b] = rank[a]
    <3> HIDE DEF rank
    <3> QED BY <1>6, <2>2
  <2> HIDE DEF b
  <2>4. Cardinality(Before(a)) = Cardinality(Before(b))
    <3>1. Cardinality(Before(a)) \in Int /\ Cardinality(Before(b)) \in Int
      BY <1>2, <2>3
    <3> HIDE DEF Before
    <3> QED BY <2>3, <3>1
  <2>5. a = b
    BY <1>4, <2>3, <2>4
  <2> QED BY <2>1, <2>5 DEF b
<1> HIDE DEF rank
<1>8. \A i, j \in 1 .. n : Roll[i] = Roll[j] => i = j
  BY <1>6
<1> QED BY <1>6, <1>7, <1>8

-----------------------------------------------------------------------------
(* The reconstructed keys.                                                 *)

\* The sum of the first m keys.
Low(keys, m) == SumFunctionOnSet(keys, 1 .. m)

LEMMA Lows ==
  ASSUME NEW n \in Nat, NEW keys \in [1 .. n -> Int]
  PROVE  /\ Low(keys, 0) = 0
         /\ \A m \in 0 .. n : Low(keys, m) \in Int
         /\ \A m \in 1 .. n : Low(keys, m) = Low(keys, m - 1) + keys[m]
<1>1. Low(keys, 0) = 0
  <2>1. 1 .. 0 = {}
    OBVIOUS
  <2> QED BY <2>1, SumEmpty DEF Low
<1>2. ASSUME NEW m \in 0 .. n PROVE Low(keys, m) \in Int
  <2> DEFINE S == 1 .. m
  <2>1. IsFiniteSet(S)
    BY FS_Interval
  <2>2. \A i \in S : keys[i] \in Int
    OBVIOUS
  <2> HIDE DEF S
  <2>3. SumFunctionOnSet(keys, S) \in Int
    BY <2>1, <2>2, SumInteger
  <2> QED BY <2>3 DEF S, Low
<1>3. ASSUME NEW m \in 1 .. n PROVE Low(keys, m) = Low(keys, m - 1) + keys[m]
  <2> DEFINE S == 1 .. m - 1
  <2>1. IsFiniteSet(S)
    BY FS_Interval
  <2>2. S \cup {m} = 1 .. m /\ m \notin S /\ \A i \in S \cup {m} : keys[i] \in Int
    OBVIOUS
  <2> HIDE DEF S
  <2>3. SumFunctionOnSet(keys, S \cup {m}) = SumFunctionOnSet(keys, S) + keys[m]
    BY <2>1, <2>2, SumInsert
  <2> QED BY <2>2, <2>3 DEF S, Low
<1> QED BY <1>1, <1>2, <1>3

\* The sum of the keys after the first m.
LEMMA Highs ==
  ASSUME NEW n \in Nat, NEW keys \in [1 .. n -> Int], NEW m \in 0 .. n
  PROVE  SumFunctionOnSet(keys, m + 1 .. n) = Low(keys, n) - Low(keys, m)
<1> DEFINE S == 1 .. n
           T == 1 .. m
           U == m + 1 .. n
<1>1. IsFiniteSet(S) /\ IsFiniteSet(U)
  BY FS_Interval
<1>2. T \in SUBSET S /\ S \ T = U /\ (\A i \in S : keys[i] \in Int) /\ \A i \in U : keys[i] \in Int
  OBVIOUS
<1> HIDE DEF S, T, U
<1>3. SumFunctionOnSet(keys, S) = SumFunctionOnSet(keys, T) + SumFunctionOnSet(keys, U)
  BY <1>1, <1>2, SumSplit
<1>4. SumFunctionOnSet(keys, U) \in Int
  BY <1>1, <1>2, SumInteger
<1>5. SumFunctionOnSet(keys, S) = Low(keys, n) /\ SumFunctionOnSet(keys, T) = Low(keys, m)
  BY DEF Low, S, T
<1>6. Low(keys, m) \in Int /\ Low(keys, n) \in Int
  BY Lows
<1>7. SumFunctionOnSet(keys, U) = Low(keys, n) - Low(keys, m)
  BY <1>3, <1>4, <1>5, <1>6
<1> QED BY <1>7 DEF U

\* The key at a position is found there.
LEMMA Positions ==
  ASSUME NEW n \in Nat, NEW keys \in [1 .. n -> Zq], NEW i \in 1 .. n,
         \A j, k \in 1 .. n : keys[j] = keys[k] => j = k
  PROVE  FirstPosition(keys, keys[i]) = i
<1>1. {j \in DOMAIN keys : keys[j] = keys[i]} = {i}
  OBVIOUS
<1>2. Min({i}) = i
  BY DEF Min
<1> QED BY <1>1, <1>2 DEF FirstPosition

\* What the loops over the inner positions add up to.
LEMMA Loops ==
  ASSUME NEW n \in Nat, NEW keys \in [1 .. n -> Int], NEW i \in 1 .. n
  PROVE  /\ i # 1 => keys[1] + SumAt(keys, {j \in 2 .. n - 1 : j < i}) = Low(keys, i - 1)
         /\ i # n => keys[n] + SumAt(keys, {j \in 2 .. n - 1 : j > i}) = Low(keys, n) - Low(keys, i)
<1>1. ASSUME i # 1 PROVE keys[1] + SumAt(keys, {j \in 2 .. n - 1 : j < i}) = Low(keys, i - 1)
  <2> DEFINE S == {j \in 2 .. n - 1 : j < i}
  <2>1. IsFiniteSet(2 .. n - 1) /\ S \in SUBSET (2 .. n - 1)
    BY FS_Interval
  <2>2. S \cup {1} = 1 .. i - 1
    BY <1>1
  <2>3. 1 \notin S /\ \A j \in S \cup {1} : keys[j] \in Int
    BY <1>1
  <2> HIDE DEF S
  <2>4. IsFiniteSet(S)
    BY <2>1, FS_Subset
  <2>5. SumFunctionOnSet(keys, S \cup {1}) = SumFunctionOnSet(keys, S) + keys[1]
        /\ SumFunctionOnSet(keys, S) \in Int /\ keys[1] \in Int
    BY <2>3, <2>4, SumInsert, SumInteger
  <2>6. SumFunctionOnSet(keys, S \cup {1}) = Low(keys, i - 1)
    BY <2>2 DEF Low
  <2>7. keys[1] + SumFunctionOnSet(keys, S) = Low(keys, i - 1)
    BY <2>5, <2>6
  <2> QED BY <2>7 DEF SumAt, S
<1>2. ASSUME i # n PROVE keys[n] + SumAt(keys, {j \in 2 .. n - 1 : j > i}) = Low(keys, n) - Low(keys, i)
  <2> DEFINE S == {j \in 2 .. n - 1 : j > i}
  <2>1. IsFiniteSet(2 .. n - 1) /\ S \in SUBSET (2 .. n - 1)
    BY FS_Interval
  <2>2. S \cup {n} = i + 1 .. n
    BY <1>2
  <2>3. n \notin S /\ \A j \in S \cup {n} : keys[j] \in Int
    BY <1>2
  <2> HIDE DEF S
  <2>4. IsFiniteSet(S)
    BY <2>1, FS_Subset
  <2>5. SumFunctionOnSet(keys, S \cup {n}) = SumFunctionOnSet(keys, S) + keys[n]
        /\ SumFunctionOnSet(keys, S) \in Int /\ keys[n] \in Int
    BY <2>3, <2>4, SumInsert, SumInteger
  <2>6. i \in 0 .. n
    OBVIOUS
  <2>7. SumFunctionOnSet(keys, i + 1 .. n) = Low(keys, n) - Low(keys, i)
    BY <2>6, Highs
  <2>8. SumFunctionOnSet(keys, S \cup {n}) = Low(keys, n) - Low(keys, i)
    BY <2>2, <2>7
  <2>9. keys[n] + SumFunctionOnSet(keys, S) = Low(keys, n) - Low(keys, i)
    BY <2>5, <2>8
  <2> QED BY <2>9 DEF SumAt, S
<1> QED BY <1>1, <1>2

\* With two voters or more, a key is the keys before less the keys after.
LEMMA Reconstructs ==
  ASSUME NEW n \in Nat, NEW keys \in [1 .. n -> Zq], NEW i \in 1 .. n,
         \A j, k \in 1 .. n : keys[j] = keys[k] => j = k
  PROVE  /\ compute_reconstructed_key(keys, keys[i]) \in Zq
         /\ n >= 2 => compute_reconstructed_key(keys, keys[i])
                        = (Low(keys, i - 1) + Low(keys, i) - Low(keys, n)) % q
<1> DEFINE inner == 2 .. n - 1
           before == keys[1] + SumAt(keys, {j \in inner : j < i})
           after == keys[n] + SumAt(keys, {j \in inner : j > i})
<1>1. keys \in [1 .. n -> Int] /\ Len(keys) = n
  <2>1. Zq \subseteq Int
    BY Order
  <2>2. keys \in [1 .. n -> Int]
    BY <2>1
  <2>3. DOMAIN keys = 1 .. n
    OBVIOUS
  <2>4. Len(keys) = n
    BY <2>3
  <2> QED BY <2>2, <2>4
<1>2. compute_reconstructed_key(keys, keys[i])
        = CASE i = 1 -> (-after) % q
            [] i # 1 /\ i = n -> before % q
            [] OTHER -> (before - after) % q
  <2>1. FirstPosition(keys, keys[i]) = i
    BY Positions
  <2> QED BY <1>1, <2>1 DEF compute_reconstructed_key
<1>3. before \in Int /\ after \in Int
  <2>1. IsFiniteSet(inner) /\ {j \in inner : j < i} \in SUBSET inner /\ {j \in inner : j > i} \in SUBSET inner
    BY FS_Interval
  <2>0. \A j \in inner : keys[j] \in Int
    BY <1>1
  <2>2. \A S \in SUBSET inner : IsFiniteSet(S) /\ \A j \in S : keys[j] \in Int
    <3> HIDE DEF inner
    <3> QED BY <2>0, <2>1, FS_Subset
  <2>3. \A S \in SUBSET inner : SumAt(keys, S) \in Int
    BY <2>2, SumInteger DEF SumAt
  <2> HIDE DEF inner
  <2> QED BY <1>1, <2>1, <2>3
<1>4. /\ i # 1 => before = Low(keys, i - 1)
      /\ i # n => after = Low(keys, n) - Low(keys, i)
  BY <1>1, Loops
<1> HIDE DEF before, after
<1>5. compute_reconstructed_key(keys, keys[i]) \in Zq
  <2>1. -after \in Int /\ before - after \in Int
    BY <1>3
  <2>2. (-after) % q \in Zq /\ before % q \in Zq /\ (before - after) % q \in Zq
    BY <1>3, <2>1, SameRemainder
  <2> QED BY <1>2, <2>2
<1>6. ASSUME n >= 2 PROVE compute_reconstructed_key(keys, keys[i])
                            = (Low(keys, i - 1) + Low(keys, i) - Low(keys, n)) % q
  <2>1. /\ i - 1 \in 0 .. n /\ i \in 0 .. n /\ n \in 0 .. n
        /\ Low(keys, i - 1) \in Int /\ Low(keys, i) \in Int /\ Low(keys, n) \in Int
        /\ Low(keys, 0) = 0
    BY <1>1, Lows
  <2>2. CASE i = 1
    <3>1. -after = Low(keys, i - 1) + Low(keys, i) - Low(keys, n)
      BY <1>4, <1>6, <2>1, <2>2
    <3> QED BY <1>2, <2>2, <3>1
  <2>3. CASE i # 1 /\ i = n
    <3>1. before = Low(keys, i - 1) + Low(keys, i) - Low(keys, n)
      BY <1>4, <2>1, <2>3
    <3> QED BY <1>2, <2>3, <3>1
  <2>4. CASE i # 1 /\ i # n
    <3>1. before - after = Low(keys, i - 1) + Low(keys, i) - Low(keys, n)
      BY <1>4, <2>1, <2>4
    <3> QED BY <1>2, <2>4, <3>1
  <2> QED BY <2>2, <2>3, <2>4
<1> QED BY <1>5, <1>6

-----------------------------------------------------------------------------
(* What is known of an election.                                           *)

Drawn ==
  /\ secret \in [Account -> Zq \ {0}] /\ choice \in [Account -> {0, 1}]
  /\ \A a, b \in Account : secret[a] = secret[b] => a = b

Rolled ==
  /\ voters \subseteq Account
  /\ voting_key = [a \in Account \cup Bystander |-> voting_key[a]]
  /\ reconstructed_key = [a \in Account \cup Bystander |-> reconstructed_key[a]]
  /\ commitment = [a \in Account \cup Bystander |-> commitment[a]]
  /\ vote = [a \in Account \cup Bystander |-> vote[a]]
  /\ \A a \in voters : voting_key[a] = secret[a]
  /\ voting_phase \in {"Commit", "Vote", "Result"} /\ LeafCount # 1 => 2 <= Cardinality(voters)

\* A voter commits to the ballot that goes with the key it stored, and the keys
\* are reconstructed from the whole roll.
Committed == \A a \in Account : reconstructed_key[a] # NoBytes =>
  /\ a \in voters /\ voting_phase # "Registration"
  /\ reconstructed_key[a] = compute_reconstructed_key(Keys, secret[a])
  /\ commitment[a] = Sha256(ballot(secret[a], reconstructed_key[a], choice[a]))

Cast == \A a \in Account : vote[a] # NoBytes =>
  /\ reconstructed_key[a] # NoBytes
  /\ vote[a] = ballot(secret[a], reconstructed_key[a], choice[a])

Counts == <<Cardinality({a \in voters : choice[a] = 1}), Cardinality({a \in voters : choice[a] = 0})>>

Phased ==
  /\ voting_phase \in {"Vote", "Result"} => \A a \in voters : reconstructed_key[a] # NoBytes
  /\ voting_phase = "Result" => \A a \in voters : vote[a] # NoBytes
  /\ voting_result # <<-1, -1>> => /\ voting_phase = "Result"
                                   /\ LeafCount # 1 => voting_result = Counts

ElectionInv == Drawn /\ Rolled /\ Committed /\ Cast /\ Phased

\* The keys a voter reads are the secrets of the roll's voters, in their order.
LEMMA KeysRead ==
  ASSUME Drawn, Rolled
  PROVE  /\ Cardinality(voters) \in Nat
         /\ Keys \in [1 .. Cardinality(voters) -> Zq]
         /\ \A i \in 1 .. Cardinality(voters) : Roll[i] \in voters /\ Keys[i] = secret[Roll[i]]
         /\ \A i, j \in 1 .. Cardinality(voters) : Keys[i] = Keys[j] => i = j
<1> DEFINE n == Cardinality(voters)
<1>1. /\ n \in Nat /\ DOMAIN Roll = 1 .. n
      /\ \A i \in 1 .. n : Roll[i] \in voters
      /\ \A i, j \in 1 .. n : Roll[i] = Roll[j] => i = j
  <2>1. voters \subseteq Account
    BY DEF Rolled
  <2>2. DOMAIN Roll = 1 .. n
    BY DEF Roll
  <2> QED BY <2>1, <2>2, VotersFew, RollOnce
<1> HIDE DEF n
<1>2. Keys = [i \in 1 .. n |-> voting_key[Roll[i]]]
  BY <1>1 DEF Keys
<1>3. \A i \in 1 .. n : Keys[i] = secret[Roll[i]] /\ Roll[i] \in Account /\ Keys[i] \in Zq
  BY <1>1, <1>2 DEF Drawn, Rolled
<1>4. Keys \in [1 .. n -> Zq]
  BY <1>2, <1>3
<1>5. \A i, j \in 1 .. n : Keys[i] = Keys[j] => i = j
  BY <1>1, <1>3 DEF Drawn
<1> QED BY <1>1, <1>3, <1>4, <1>5 DEF n

\* So a key on the roll is an exponent.
LEMMA KeyTyped ==
  ASSUME Drawn, Rolled, NEW a \in voters
  PROVE  compute_reconstructed_key(Keys, secret[a]) \in Zq
<1> DEFINE n == Cardinality(voters)
           keys == Keys
<1>1. PICK i \in 1 .. n : Roll[i] = a
  BY RollOnce DEF Rolled
<1>2. /\ n \in Nat /\ keys \in [1 .. n -> Zq] /\ keys[i] = secret[a]
      /\ \A j, k \in 1 .. n : keys[j] = keys[k] => j = k
  BY <1>1, KeysRead
<1> HIDE DEF n, keys
<1>3. compute_reconstructed_key(keys, keys[i]) \in Zq
  BY <1>2, Reconstructs
<1> QED BY <1>2, <1>3 DEF keys

\* What the first m voters' ballots hide adds up to a difference that is 0 when
\* m is the whole roll.
LEMMA Telescopes ==
  ASSUME Drawn, Rolled, 2 <= Cardinality(voters),
         NEW h, \A a \in voters : h[a] = secret[a] * compute_reconstructed_key(Keys, secret[a])
  PROVE  Same(SumFunctionOnSet(h, voters), 0)
<1> DEFINE n == Cardinality(voters)
           keys == Keys
           T == Low(keys, n)
           At(m) == {Roll[i] : i \in 1 .. m}
           Part(m) == Low(keys, m) * Low(keys, m) - T * Low(keys, m)
           G == {m \in Nat : m <= n => Same(SumFunctionOnSet(h, At(m)), Part(m))}
<1>1. /\ n \in Nat /\ 2 <= n /\ keys \in [1 .. n -> Zq]
      /\ \A i \in 1 .. n : Roll[i] \in voters /\ keys[i] = secret[Roll[i]] /\ keys[i] \in Int
      /\ \A j, k \in 1 .. n : keys[j] = keys[k] => j = k
  <2>1. n \in Nat /\ keys \in [1 .. n -> Zq]
    BY KeysRead
  <2>2. \A i \in 1 .. n : keys[i] \in Int
    BY <2>1, Order
  <2> QED BY <2>1, <2>2, KeysRead
<1>2. At(n) = voters /\ \A i, j \in 1 .. n : Roll[i] = Roll[j] => i = j
  <2>1. voters \subseteq Account
    BY DEF Rolled
  <2> QED BY <2>1, RollOnce
<1> HIDE DEF n, keys
<1>3. /\ Low(keys, 0) = 0 /\ T \in Int
      /\ \A m \in 0 .. n : Low(keys, m) \in Int
      /\ \A m \in 1 .. n : Low(keys, m) = Low(keys, m - 1) + keys[m]
  <2>1. keys \in [1 .. n -> Int] /\ n \in 0 .. n
    BY <1>1, Order
  <2> QED BY <1>1, <2>1, Lows
<1> HIDE DEF T
<1>4. ASSUME NEW m \in Nat, m + 1 <= n
      PROVE  /\ h[Roll[m + 1]] \in Int
             /\ Same(h[Roll[m + 1]], keys[m + 1] * (Low(keys, m) + Low(keys, m + 1) - T))
  <2> DEFINE i == m + 1
             x == keys[i]
             r == compute_reconstructed_key(keys, keys[i])
             s == Low(keys, m) + Low(keys, i) - T
  <2>1. i \in 1 .. n /\ i - 1 = m /\ m \in 0 .. n /\ i \in 0 .. n
    BY <1>1, <1>4
  <2> HIDE DEF i
  <2>2. s \in Int /\ x \in Int
    <3>1. Low(keys, m) \in Int /\ Low(keys, i) \in Int
      BY <1>3, <2>1
    <3>2. x \in Int
      BY <1>1, <2>1
    <3> HIDE DEF x
    <3> QED BY <1>3, <3>1, <3>2
  <2>3. r \in Zq /\ r = s % q
    <3>1. Low(keys, m) + Low(keys, i) - Low(keys, n) = s
      BY DEF T
    <3>2. r = (Low(keys, m) + Low(keys, i) - Low(keys, n)) % q
      BY <1>1, <2>1, Reconstructs
    <3>3. r \in Zq
      BY <1>1, <2>1, Reconstructs
    <3> QED BY <3>1, <3>2, <3>3
  <2> HIDE DEF s, r
  <2>4. r \in Int /\ Same(r, s)
    BY <2>2, <2>3, SameRemainder
  <2>5. h[Roll[i]] = x * r
    BY <1>1, <2>1 DEF keys, r
  <2> HIDE DEF x
  <2>6. Same(x * r, x * s)
    BY <2>2, <2>4, SameTimes
  <2>7. x * r \in Int
    BY <2>2, <2>4
  <2> QED BY <2>5, <2>6, <2>7 DEF x, s, i
<1>5. 0 \in G
  <2>1. At(0) = {}
    OBVIOUS
  <2>2. SumFunctionOnSet(h, At(0)) = 0
    BY <2>1, SumEmpty
  <2>3. Part(0) = 0
    BY <1>3
  <2>4. Same(0, 0)
    BY SameRemainder
  <2> QED BY <2>2, <2>3, <2>4
<1>6. ASSUME NEW m \in Nat, m \in G PROVE m + 1 \in G
  <2> SUFFICES ASSUME m + 1 <= n PROVE Same(SumFunctionOnSet(h, At(m + 1)), Part(m + 1))
    BY <1>6
  <2> DEFINE i == m + 1
             a == Roll[i]
             S == At(m)
             L == Low(keys, m)
             x == keys[i]
  <2>1. i \in 1 .. n /\ i - 1 = m /\ m \in 0 .. n /\ m <= n
    BY <1>1
  <2>2. At(i) = S \cup {a} /\ a \notin S
    <3>1. 1 .. i = 1 .. m \cup {i} /\ i \notin 1 .. m /\ \A j \in 1 .. m : j \in 1 .. n
      <4>1. 1 .. i = 1 .. m \cup {i} /\ i \notin 1 .. m
        OBVIOUS
      <4> QED BY <1>1, <2>1, <4>1
    <3> HIDE DEF i
    <3> QED BY <1>2, <2>1, <3>1
  <2>3. IsFiniteSet(S) /\ \A b \in S \cup {a} : h[b] \in Int
    <3>1. \A j \in 1 .. i : h[Roll[j]] \in Int
      <4> SUFFICES ASSUME NEW j \in 1 .. i PROVE h[Roll[j]] \in Int
        OBVIOUS
      <4> DEFINE k == j - 1
      <4>1. k \in Nat /\ k + 1 = j /\ k + 1 <= n
        BY <1>1, <2>1
      <4> HIDE DEF k
      <4>2. h[Roll[k + 1]] \in Int
        BY <1>4, <4>1
      <4> QED BY <4>1, <4>2
    <3>2. S \subseteq voters
      BY <1>1, <2>1
    <3>3. IsFiniteSet(voters)
      BY VotersFew DEF Rolled
    <3>4. IsFiniteSet(S)
      BY <3>2, <3>3, FS_Subset
    <3>5. \A b \in S \cup {a} : \E j \in 1 .. i : b = Roll[j]
      BY <2>1
    <3> QED BY <3>1, <3>4, <3>5
  <2>4. Same(SumFunctionOnSet(h, S), L * L - T * L)
    BY <1>6, <2>1
  <2>5. h[a] \in Int /\ Same(h[a], x * (L + Low(keys, i) - T))
    BY <1>4
  <2>6. Low(keys, i) = L + x /\ L \in Int /\ x \in Int
    BY <1>1, <1>3, <2>1
  <2> HIDE DEF i, a, S, L, x
  <2>7. SumFunctionOnSet(h, S \cup {a}) = SumFunctionOnSet(h, S) + h[a]
        /\ SumFunctionOnSet(h, S) \in Int
    BY <2>2, <2>3, SumInsert, SumInteger
  <2>8. Same(h[a], x * (L + (L + x) - T))
    BY <2>5, <2>6
  <2> DEFINE u == L * L - T * L
             w == x * (L + (L + x) - T)
  <2>9. /\ u \in Int /\ w \in Int
        /\ u + w = (L + x) * (L + x) - T * (L + x)
    BY <1>3, <2>6
  <2>10. Same(SumFunctionOnSet(h, S), u) /\ Same(h[a], w)
    BY <2>4, <2>8
  <2> HIDE DEF u, w
  <2>11. Same(SumFunctionOnSet(h, S) + h[a], u + w)
    BY <2>5, <2>7, <2>9, <2>10, SameBoth
  <2>12. Same(SumFunctionOnSet(h, At(i)), Low(keys, i) * Low(keys, i) - T * Low(keys, i))
    BY <2>2, <2>6, <2>7, <2>9, <2>11
  <2> QED BY <2>12 DEF i
<1>7. n \in G
  <2> HIDE DEF G
  <2>1. Nat \subseteq G
    BY <1>5, <1>6, NumberInduction
  <2> QED BY <1>1, <2>1
<1>8. Part(n) = 0
  BY <1>3 DEF T
<1>9. Same(SumFunctionOnSet(h, At(n)), Part(n))
  BY <1>1, <1>7
<1> QED BY <1>2, <1>8, <1>9

-----------------------------------------------------------------------------
(* Every step keeps it.                                                    *)

LEMMA ElectionStarts == Init => ElectionInv
<1> SUFFICES ASSUME Init PROVE ElectionInv
  OBVIOUS
<1>1. /\ voting_phase = "Registration" /\ voters = {} /\ voting_result = <<-1, -1>>
      /\ voting_key = [a \in Account \cup Bystander |-> NoBytes]
      /\ reconstructed_key = [a \in Account \cup Bystander |-> NoBytes]
      /\ commitment = [a \in Account \cup Bystander |-> NoBytes]
      /\ vote = [a \in Account \cup Bystander |-> NoBytes]
  BY DEF Init, Contract!setup
<1>2. Drawn
  BY DEF Init, Drawn
<1> QED BY <1>1, <1>2 DEF ElectionInv, Rolled, Committed, Cast, Phased

LEMMA CountsSame == \A S : Contract!Cardinality(S) = Cardinality(S)
BY DEF Contract!Cardinality, Cardinality

LEMMA SecretKey ==
  ASSUME Drawn, NEW a \in Account
  PROVE  secret[a] \in Zq /\ (GENERATOR * secret[a]) % q = secret[a]
<1> DEFINE x == secret[a]
<1>1. x \in Zq
  BY DEF Drawn
<1> HIDE DEF x
<1>2. 1 * x = x /\ x % q = x
  BY <1>1, Order, ExponentMod
<1> QED BY <1>1, <1>2 DEF x, GENERATOR

LEMMA RegisterKeeps ==
  ASSUME ElectionInv, NEW a \in Account, Register(a), UNCHANGED <<secret, choice>>
  PROVE  ElectionInv'
<1>1. /\ voting_phase = "Registration" /\ a \notin voters /\ voters' = voters \cup {a}
      /\ voting_key' = [voting_key EXCEPT ![a] = secret[a]]
      /\ voting_phase' = "Registration" \/ (voting_phase' = "Commit" /\ Cardinality(voters') = LeafCount)
      /\ reconstructed_key' = reconstructed_key /\ commitment' = commitment /\ vote' = vote
      /\ voting_result' = voting_result
  BY SecretKey, CountsSame DEF Register, Contract!register, ElectionInv, Contract!AllRegistered
<1>2. Drawn'
  BY DEF ElectionInv, Drawn
<1>3. Rolled'
  <2>1. voters' \subseteq Account /\ voters \subseteq Account
    BY <1>1 DEF ElectionInv, Rolled
  <2>2. voting_key' = [b \in Account \cup Bystander |-> voting_key'[b]] /\ \A b \in voters' : voting_key'[b] = secret[b]
    BY <1>1 DEF ElectionInv, Rolled
  <2>3. ASSUME voting_phase' = "Commit", LeafCount # 1 PROVE 2 <= Cardinality(voters')
    <3>1. Cardinality(voters') = Cardinality(voters) + 1 /\ Cardinality(voters) \in Nat
      BY <1>1, <2>1, VotersFew, FS_AddElement
    <3> QED BY <1>1, <2>3, <3>1
  <2> QED BY <1>1, <2>1, <2>2, <2>3 DEF ElectionInv, Rolled
<1>4. \A b \in Account : reconstructed_key[b] = NoBytes /\ vote[b] = NoBytes
  BY <1>1 DEF ElectionInv, Committed, Cast
<1>5. Committed' /\ Cast'
  BY <1>1, <1>4 DEF Committed, Cast
<1>6. voting_result = <<-1, -1>>
  BY <1>1 DEF ElectionInv, Phased
<1>7. Phased'
  BY <1>1, <1>6 DEF Phased
<1> QED BY <1>2, <1>3, <1>5, <1>7 DEF ElectionInv

LEMMA CommitKeeps ==
  ASSUME ElectionInv, NEW a \in Account, Commit(a), UNCHANGED <<secret, choice>>
  PROVE  ElectionInv'
<1> DEFINE g == compute_reconstructed_key(Keys, secret[a])
           c == Sha256(ballot(secret[a], g, choice[a]))
<1>1. a \in voters /\ voting_key[a] = secret[a]
  BY DEF Commit, ElectionInv, Rolled
<1>2. /\ voting_phase = "Commit" /\ g # NoBytes /\ c # NoBytes
      /\ reconstructed_key' = [reconstructed_key EXCEPT ![a] = g]
      /\ commitment' = [commitment EXCEPT ![a] = c]
      /\ voters' = voters /\ voting_key' = voting_key /\ vote' = vote
      /\ voting_result' = voting_result
      /\ voting_phase' = IF Contract!AllCommitted' THEN "Vote" ELSE voting_phase
  BY <1>1 DEF Commit, Contract!commit
<1>3. Keys' = Keys
  BY <1>2 DEF Keys, Roll
<1>4. Drawn'
  BY DEF ElectionInv, Drawn
<1>5. Rolled'
  BY <1>2 DEF ElectionInv, Rolled
<1>6. Committed'
  <2> SUFFICES ASSUME NEW b \in Account, reconstructed_key'[b] # NoBytes
               PROVE  /\ b \in voters /\ voting_phase' # "Registration"
                      /\ reconstructed_key'[b] = compute_reconstructed_key(Keys, secret[b])
                      /\ commitment'[b] = Sha256(ballot(secret[b], reconstructed_key'[b], choice[b]))
    BY <1>2, <1>3 DEF Committed
  <2>1. CASE b = a
    <3> HIDE DEF g
    <3>1. reconstructed_key'[a] = g /\ commitment'[a] = c
      BY <1>2 DEF ElectionInv, Rolled
    <3> QED BY <1>1, <1>2, <2>1, <3>1 DEF g
  <2>2. CASE b # a
    <3>1. reconstructed_key'[b] = reconstructed_key[b] /\ commitment'[b] = commitment[b]
      BY <1>2, <2>2 DEF ElectionInv, Rolled
    <3> QED BY <1>2, <3>1 DEF ElectionInv, Committed
  <2> QED BY <2>1, <2>2
<1>7. Cast'
  <2> SUFFICES ASSUME NEW b \in Account, vote[b] # NoBytes
               PROVE  /\ reconstructed_key'[b] # NoBytes
                      /\ vote[b] = ballot(secret[b], reconstructed_key'[b], choice[b])
    BY <1>2 DEF Cast
  <2>1. /\ reconstructed_key[b] # NoBytes
        /\ vote[b] = ballot(secret[b], reconstructed_key[b], choice[b])
        /\ reconstructed_key[b] = compute_reconstructed_key(Keys, secret[b])
    BY DEF ElectionInv, Cast, Committed
  <2> HIDE DEF g
  <2>2. reconstructed_key'[b] = reconstructed_key[b]
    BY <1>2, <2>1 DEF ElectionInv, Rolled, g
  <2> QED BY <2>1, <2>2
<1>8. Phased'
  <2>1. voting_result = <<-1, -1>>
    BY <1>2 DEF ElectionInv, Phased
  <2>2. voting_phase' = "Vote" => \A b \in voters' : reconstructed_key'[b] # NoBytes
    BY <1>2 DEF Contract!AllCommitted
  <2>3. voting_phase' \in {"Vote", "Commit"}
    BY <1>2
  <2> QED BY <1>2, <2>1, <2>2, <2>3 DEF Phased
<1> QED BY <1>4, <1>5, <1>6, <1>7, <1>8 DEF ElectionInv

LEMMA VoteKeeps ==
  ASSUME ElectionInv, NEW a \in Account, Vote(a), UNCHANGED <<secret, choice>>
  PROVE  ElectionInv'
<1> DEFINE v == ballot(secret[a], reconstructed_key[a], choice[a])
<1>1. /\ voting_phase = "Vote" /\ a \in voters /\ reconstructed_key[a] # NoBytes
      /\ vote' = [vote EXCEPT ![a] = v]
      /\ voters' = voters /\ voting_key' = voting_key /\ voting_result' = voting_result
      /\ reconstructed_key' = reconstructed_key /\ commitment' = commitment
      /\ voting_phase' = IF Contract!AllVoted' THEN "Result" ELSE voting_phase
  BY DEF Vote, Contract!cast_vote
<1>2. Keys' = Keys
  BY <1>1 DEF Keys, Roll
<1>3. Drawn'
  BY DEF ElectionInv, Drawn
<1>4. Rolled'
  BY <1>1 DEF ElectionInv, Rolled
<1>5. Committed'
  BY <1>1, <1>2 DEF ElectionInv, Committed
<1>6. Cast'
  <2> SUFFICES ASSUME NEW b \in Account, vote'[b] # NoBytes
               PROVE  /\ reconstructed_key[b] # NoBytes
                      /\ vote'[b] = ballot(secret[b], reconstructed_key[b], choice[b])
    BY <1>1 DEF Cast
  <2> HIDE DEF v
  <2>1. vote'[b] = IF b = a THEN v ELSE vote[b]
    BY <1>1 DEF ElectionInv, Rolled
  <2> QED BY <1>1, <2>1 DEF ElectionInv, Cast, v
<1>7. Phased'
  <2>1. voting_result = <<-1, -1>>
    BY <1>1 DEF ElectionInv, Phased
  <2>2. voting_phase' = "Result" => \A b \in voters' : vote'[b] # NoBytes
    BY <1>1 DEF Contract!AllVoted
  <2>3. \A b \in voters' : reconstructed_key'[b] # NoBytes
    BY <1>1 DEF ElectionInv, Phased
  <2> QED BY <1>1, <2>1, <2>2, <2>3 DEF Phased
<1> QED BY <1>3, <1>4, <1>5, <1>6, <1>7 DEF ElectionInv

-----------------------------------------------------------------------------
(* The tally.                                                              *)

\* Term by term.
LEMMA SumAdds ==
  ASSUME NEW S, IsFiniteSet(S), NEW f, NEW g, NEW h,
         \A a \in S : f[a] \in Int /\ g[a] \in Int /\ h[a] \in Int /\ Same(f[a], g[a] + h[a])
  PROVE  Same(SumFunctionOnSet(f, S), SumFunctionOnSet(g, S) + SumFunctionOnSet(h, S))
<1> DEFINE G == {T \in SUBSET S :
                   Same(SumFunctionOnSet(f, T), SumFunctionOnSet(g, T) + SumFunctionOnSet(h, T))}
<1>1. ASSUME NEW T \in SUBSET S, \A U \in SUBSET T : U # T => U \in G
      PROVE  T \in G
  <2>1. CASE T = {}
    <3>1. SumFunctionOnSet(f, {}) = 0 /\ SumFunctionOnSet(g, {}) = 0 /\ SumFunctionOnSet(h, {}) = 0
      BY SumEmpty
    <3>2. Same(0, 0) /\ 0 + 0 = 0
      BY SameRemainder
    <3> QED BY <2>1, <3>1, <3>2
  <2>2. CASE T # {}
    <3>1. PICK c : c \in T
      BY <2>2
    <3> DEFINE U == T \ {c}
    <3>2. IsFiniteSet(T) /\ IsFiniteSet(U) /\ U \in G /\ c \in S /\ U \in SUBSET S
      BY <1>1, <3>1, FS_Subset
    <3> DEFINE F == SumFunctionOnSet(f, U)
               K == SumFunctionOnSet(g, U)
               H == SumFunctionOnSet(h, U)
    <3>3. /\ SumFunctionOnSet(f, T) = f[c] + F
          /\ SumFunctionOnSet(g, T) = g[c] + K
          /\ SumFunctionOnSet(h, T) = h[c] + H
      BY <3>1, <3>2, SumRemove
    <3>4. F \in Int /\ K \in Int /\ H \in Int /\ Same(F, K + H)
      <4> HIDE DEF U
      <4>1. \A a \in U : f[a] \in Int /\ g[a] \in Int /\ h[a] \in Int
        BY <3>2
      <4> QED BY <3>2, <4>1, SumInteger
    <3> HIDE DEF U, F, K, H
    <3>5. f[c] \in Int /\ g[c] \in Int /\ h[c] \in Int /\ Same(f[c], g[c] + h[c])
      BY <3>2
    <3> DEFINE u == g[c] + h[c]
               w == K + H
    <3>6. u \in Int /\ w \in Int /\ u + w = (g[c] + K) + (h[c] + H)
      BY <3>4, <3>5
    <3>7. Same(f[c], u) /\ Same(F, w)
      BY <3>4, <3>5
    <3> HIDE DEF u, w
    <3>8. Same(f[c] + F, u + w)
      BY <3>4, <3>5, <3>6, <3>7, SameBoth
    <3> QED BY <3>3, <3>6, <3>8
  <2> QED BY <2>1, <2>2
<1> HIDE DEF G
<1>2. SUBSET S \subseteq G
  BY <1>1, SubsetInduction
<1>3. S \in G
  BY <1>2
<1> QED BY <1>3 DEF G

\* Ones are counted.
LEMMA SumOnes ==
  ASSUME NEW S, IsFiniteSet(S), NEW f, \A a \in S : f[a] \in {0, 1}
  PROVE  /\ SumFunctionOnSet(f, S) = Cardinality({a \in S : f[a] = 1})
         /\ Cardinality(S) = Cardinality({a \in S : f[a] = 1}) + Cardinality({a \in S : f[a] = 0})
<1> DEFINE Ones(T) == {a \in T : f[a] = 1}
           Zeros(T) == {a \in T : f[a] = 0}
           G == {T \in SUBSET S : /\ SumFunctionOnSet(f, T) = Cardinality(Ones(T))
                                  /\ Cardinality(T) = Cardinality(Ones(T)) + Cardinality(Zeros(T))}
<1>1. ASSUME NEW T \in SUBSET S, \A U \in SUBSET T : U # T => U \in G
      PROVE  T \in G
  <2>1. CASE T = {}
    <3>1. Ones(T) = {} /\ Zeros(T) = {}
      BY <2>1
    <3>2. SumFunctionOnSet(f, {}) = 0 /\ Cardinality({}) = 0
      BY SumEmpty, FS_EmptySet
    <3> QED BY <2>1, <3>1, <3>2
  <2>2. CASE T # {}
    <3>1. PICK c : c \in T
      BY <2>2
    <3> DEFINE U == T \ {c}
    <3>2. IsFiniteSet(T) /\ U \in G /\ c \in S /\ U \in SUBSET S
      BY <1>1, <3>1, FS_Subset
    <3>3. IsFiniteSet(U) /\ IsFiniteSet(Ones(U)) /\ IsFiniteSet(Zeros(U))
      <4>1. Ones(U) \in SUBSET T /\ Zeros(U) \in SUBSET T /\ U \in SUBSET T
        OBVIOUS
      <4> HIDE DEF U
      <4> QED BY <3>2, <4>1, FS_Subset
    <3>4. SumFunctionOnSet(f, T) = f[c] + SumFunctionOnSet(f, U)
      BY <3>1, <3>2, SumRemove
    <3>5. T = U \cup {c} /\ c \notin U
      BY <3>1
    <3> HIDE DEF U
    <3>6. Cardinality(T) = Cardinality(U) + 1
      BY <3>3, <3>5, FS_AddElement
    <3>7. /\ SumFunctionOnSet(f, U) = Cardinality(Ones(U))
          /\ Cardinality(U) = Cardinality(Ones(U)) + Cardinality(Zeros(U))
      BY <3>2
    <3>8. Cardinality(Ones(U)) \in Nat /\ Cardinality(Zeros(U)) \in Nat
      BY <3>3, FS_CardinalityType
    <3>9. CASE f[c] = 1
      <4>1. Ones(T) = Ones(U) \cup {c} /\ c \notin Ones(U) /\ Zeros(T) = Zeros(U)
        BY <3>5, <3>9
      <4> HIDE DEF Ones, Zeros
      <4>2. Cardinality(Ones(T)) = Cardinality(Ones(U)) + 1
        BY <3>3, <4>1, FS_AddElement
      <4>3. SumFunctionOnSet(f, T) = Cardinality(Ones(T))
        BY <3>4, <3>7, <3>8, <3>9, <4>1, <4>2
      <4>4. Cardinality(T) = Cardinality(Ones(T)) + Cardinality(Zeros(T))
        BY <3>6, <3>7, <3>8, <4>1, <4>2
      <4> QED BY <4>3, <4>4
    <3>10. CASE f[c] = 0
      <4>1. Zeros(T) = Zeros(U) \cup {c} /\ c \notin Zeros(U) /\ Ones(T) = Ones(U)
        BY <3>5, <3>10
      <4> HIDE DEF Ones, Zeros
      <4>2. Cardinality(Zeros(T)) = Cardinality(Zeros(U)) + 1
        BY <3>3, <4>1, FS_AddElement
      <4>3. SumFunctionOnSet(f, T) = Cardinality(Ones(T))
        BY <3>4, <3>7, <3>8, <3>10, <4>1, <4>2
      <4>4. Cardinality(T) = Cardinality(Ones(T)) + Cardinality(Zeros(T))
        BY <3>6, <3>7, <3>8, <4>1, <4>2
      <4> QED BY <4>3, <4>4
    <3> QED BY <3>2, <3>9, <3>10
  <2> QED BY <2>1, <2>2
<1> HIDE DEF G
<1>2. SUBSET S \subseteq G
  BY <1>1, SubsetInduction
<1>3. S \in G
  BY <1>2
<1> QED BY <1>3 DEF G

\* There are fewer voters than exponents.
LEMMA VotersBounded ==
  ASSUME Drawn, Rolled
  PROVE  Cardinality(voters) <= q - 1
<1> DEFINE S == 1 .. q - 1
           f == [a \in voters |-> secret[a]]
<1>1. IsFiniteSet(S) /\ Cardinality(S) = q - 1
  BY Order, FS_Interval
<1>2. \A a \in voters : f[a] \in S
  BY DEF Drawn, Rolled, Zq
<1>3. \A a, b \in voters : f[a] = f[b] => a = b
  BY DEF Drawn, Rolled
<1>4. f = [a \in voters |-> f[a]]
  OBVIOUS
<1> HIDE DEF S, f
<1>5. f \in Injection(voters, S)
  BY <1>2, <1>3, <1>4 DEF Injection, IsInjective
<1> QED BY <1>1, <1>5, FS_Injection

\* The sum of what is hidden in the ballots is the number of those who said yes.
LEMMA Tally ==
  ASSUME ElectionInv, voting_phase = "Result", LeafCount # 1
  PROVE  <<brute_force_tally([a \in voters |-> vote[a]]),
           Cardinality(voters) - brute_force_tally([a \in voters |-> vote[a]])>> = Counts
<1> DEFINE v == [a \in voters |-> vote[a]]
           h == [a \in voters |-> secret[a] * compute_reconstructed_key(Keys, secret[a])]
           d == [a \in voters |-> choice[a]]
           yes == Cardinality({a \in voters : choice[a] = 1})
           no == Cardinality({a \in voters : choice[a] = 0})
<1>1. /\ Drawn /\ Rolled /\ IsFiniteSet(voters) /\ voters \subseteq Account
      /\ 2 <= Cardinality(voters) /\ Cardinality(voters) \in Nat
      /\ \A S \in SUBSET voters : IsFiniteSet(S) /\ Cardinality(S) \in Nat
  BY VotersFew DEF ElectionInv, Rolled
<1>2. Same(SumFunctionOnSet(h, voters), 0)
  <2>1. \A a \in voters : h[a] = secret[a] * compute_reconstructed_key(Keys, secret[a])
    OBVIOUS
  <2> HIDE DEF h
  <2> QED BY <1>1, <2>1, Telescopes
<1>3. ASSUME NEW a \in voters
      PROVE  v[a] \in Int /\ h[a] \in Int /\ d[a] \in {0, 1} /\ d[a] \in Int /\ Same(v[a], h[a] + d[a])
  <2> DEFINE g == compute_reconstructed_key(Keys, secret[a])
             x == secret[a]
             c == choice[a]
             n == g * x + c
  <2>1. g \in Zq /\ x \in Zq /\ c \in {0, 1}
    BY <1>1, KeyTyped DEF Drawn
  <2>2. vote[a] = ballot(x, g, c)
    BY <1>1 DEF ElectionInv, Phased, Cast, Committed
  <2>3. v[a] = n % q /\ h[a] = x * g /\ d[a] = c
    BY <2>2 DEF ballot
  <2> HIDE DEF g, x, c, v, h, d
  <2>4. g \in Int /\ x \in Int /\ c \in Int /\ x * g \in Int
    BY <2>1, Order
  <2>5. n \in Int /\ n = x * g + c
    BY <2>4
  <2> HIDE DEF n
  <2>6. n % q \in Int /\ Same(n % q, n)
    BY <2>5, SameRemainder
  <2> QED BY <2>1, <2>3, <2>4, <2>5, <2>6
<1>4. /\ SumFunctionOnSet(d, voters) = yes
      /\ Cardinality(voters) = yes + no
  <2>1. \A a \in voters : d[a] \in {0, 1}
    BY <1>3
  <2>2. {a \in voters : d[a] = 1} = {a \in voters : choice[a] = 1}
        /\ {a \in voters : d[a] = 0} = {a \in voters : choice[a] = 0}
    OBVIOUS
  <2> HIDE DEF d
  <2>3. /\ SumFunctionOnSet(d, voters) = Cardinality({a \in voters : d[a] = 1})
        /\ Cardinality(voters) = Cardinality({a \in voters : d[a] = 1})
                                   + Cardinality({a \in voters : d[a] = 0})
    BY <1>1, <2>1, SumOnes
  <2> QED BY <2>2, <2>3
<1>5. brute_force_tally(v) = SumFunctionOnSet(v, voters) % q
  BY DEF brute_force_tally, SumFunction
<1> HIDE DEF v, h, d
<1>6. Same(SumFunctionOnSet(v, voters), SumFunctionOnSet(h, voters) + SumFunctionOnSet(d, voters))
  BY <1>1, <1>3, SumAdds
<1>7. /\ SumFunctionOnSet(v, voters) \in Int /\ SumFunctionOnSet(h, voters) \in Int
  BY <1>1, <1>3, SumInteger
<1>8. yes \in Nat /\ no \in Nat
  BY <1>1
<1>9. yes \in Zq
  BY <1>1, <1>4, <1>8, VotersBounded, Order DEF Zq
<1>10. Counts = <<yes, no>>
  BY DEF Counts
<1> HIDE DEF yes, no
<1> DEFINE s == SumFunctionOnSet(v, voters)
           t == SumFunctionOnSet(h, voters)
<1>11. s \in Int /\ t \in Int /\ Same(t, 0) /\ Same(s, t + yes) /\ Same(yes, yes)
  BY <1>2, <1>4, <1>6, <1>7, <1>8, SameRemainder
<1> HIDE DEF s, t
<1>12. Same(t + yes, 0 + yes)
  BY <1>8, <1>11, SameBoth
<1>13. t + yes \in Int /\ 0 + yes = yes
  BY <1>8, <1>11
<1>14. Same(s, yes)
  <2> DEFINE u == t + yes
  <2>1. u \in Int /\ Same(s, u) /\ Same(u, yes) /\ yes \in Int
    BY <1>8, <1>11, <1>12, <1>13
  <2> HIDE DEF u
  <2> QED BY <1>11, <2>1, SameThrough
<1>15. s % q = yes
  BY <1>8, <1>9, <1>11, <1>14, SameMod, ExponentMod
<1>16. brute_force_tally(v) = yes /\ Cardinality(voters) - yes = no
  BY <1>4, <1>5, <1>8, <1>15 DEF s
<1> QED BY <1>10, <1>16 DEF v

-----------------------------------------------------------------------------
LEMMA ResultKeeps ==
  ASSUME ElectionInv, Contract!result, UNCHANGED <<secret, choice>>
  PROVE  ElectionInv'
<1>1. /\ voting_phase = "Result" /\ voting_phase' = voting_phase /\ voters' = voters
      /\ voting_key' = voting_key /\ reconstructed_key' = reconstructed_key
      /\ commitment' = commitment /\ vote' = vote
      /\ voting_result' = <<brute_force_tally([a \in voters |-> vote[a]]),
                            Cardinality(voters) - brute_force_tally([a \in voters |-> vote[a]])>>
  BY CountsSame DEF Contract!result, Contract!ResultOpen
<1>2. LeafCount # 1 => voting_result' = Counts
  BY <1>1, Tally
<1>3. Counts' = Counts /\ Keys' = Keys
  BY <1>1 DEF Counts, Keys, Roll
<1>4. Drawn' /\ Rolled' /\ Cast'
  BY <1>1 DEF ElectionInv, Drawn, Rolled, Cast
<1>5. Committed'
  BY <1>1, <1>3 DEF ElectionInv, Committed
<1>6. Phased'
  <2>1. (\A a \in voters : reconstructed_key[a] # NoBytes) /\ \A a \in voters : vote[a] # NoBytes
    BY <1>1 DEF ElectionInv, Phased
  <2> QED BY <1>1, <1>2, <1>3, <2>1 DEF Phased
<1> QED BY <1>4, <1>5, <1>6 DEF ElectionInv

\* Steps of the phase only.
LEMMA PhaseKeeps ==
  ASSUME ElectionInv, UNCHANGED <<secret, choice, voters, voting_key, reconstructed_key,
                                  commitment, vote, voting_result>>,
         \/ voting_phase' = voting_phase
         \/ voting_phase' = "Abort" /\ voting_phase # "Result"
         \/ voting_phase = "Registration" /\ voting_phase' = "Commit" /\ 2 <= Cardinality(voters)
         \/ /\ voting_phase = "Commit" /\ voting_phase' = "Vote"
            /\ \A a \in voters : reconstructed_key[a] # NoBytes
         \/ /\ voting_phase = "Vote" /\ voting_phase' = "Result"
            /\ \A a \in voters : vote[a] # NoBytes
  PROVE  ElectionInv'
<1>1. Counts' = Counts /\ Keys' = Keys
  BY DEF Counts, Keys, Roll
<1>2. Drawn' /\ Cast'
  BY DEF ElectionInv, Drawn, Cast
<1>3. Rolled'
  BY DEF ElectionInv, Rolled
<1>4. Committed'
  BY <1>1 DEF ElectionInv, Committed
<1>5. Phased'
  BY <1>1 DEF ElectionInv, Phased
<1> QED BY <1>2, <1>3, <1>4, <1>5 DEF ElectionInv

LEMMA ElectionKeeps == ElectionInv /\ [Next]_vars => ElectionInv'
<1> SUFFICES ASSUME ElectionInv, [Next]_vars PROVE ElectionInv'
  OBVIOUS
<1>1. ASSUME NEW a \in Account \cup Bystander, Contract!change_phase(a), UNCHANGED <<secret, choice>>
      PROVE  ElectionInv'
  <2>1. /\ voters' = voters /\ voting_key' = voting_key /\ reconstructed_key' = reconstructed_key
        /\ commitment' = commitment /\ vote' = vote /\ voting_result' = voting_result
    BY <1>1 DEF Contract!change_phase
  <2>2. Contract!EnoughKeys => 2 <= Cardinality(voters)
    <3> DEFINE S == {b \in voters : voting_key[b] # NoBytes}
    <3>1. voters \subseteq Account /\ S \in SUBSET voters
      BY DEF ElectionInv, Rolled
    <3>2. Contract!EnoughKeys => Cardinality(S) > 2
      BY CountsSame DEF Contract!EnoughKeys
    <3> HIDE DEF S
    <3>3. /\ Cardinality(S) \in Nat /\ Cardinality(voters) \in Nat
          /\ Cardinality(S) <= Cardinality(voters)
      BY <3>1, VotersFew, FS_Subset
    <3> QED BY <3>2, <3>3
  <2>3. \/ voting_phase = "Registration" /\ Contract!EnoughKeys /\ voting_phase' = "Commit"
        \/ voting_phase = "Commit" /\ Contract!AllCommitted /\ voting_phase' = "Vote"
        \/ voting_phase = "Vote" /\ Contract!AllVoted /\ voting_phase' = "Result"
        \/ voting_phase # "Result" /\ voting_phase' = "Abort"
    BY <1>1 DEF Contract!change_phase, Contract!Enter, Contract!AbortBy
  <2>4. /\ Contract!AllCommitted => \A b \in voters : reconstructed_key[b] # NoBytes
        /\ Contract!AllVoted => \A b \in voters : vote[b] # NoBytes
    BY DEF Contract!AllCommitted, Contract!AllVoted
  <2> QED BY <1>1, <2>1, <2>2, <2>3, <2>4, PhaseKeeps
<1>2. CASE Contract!Tick /\ UNCHANGED <<secret, choice>>
  BY <1>2, PhaseKeeps DEF Contract!Tick
<1>3. CASE UNCHANGED vars
  BY <1>3, PhaseKeeps DEF vars, contractVars
<1>4. CASE Next
  BY <1>1, <1>2, <1>4, RegisterKeeps, CommitKeeps, VoteKeeps, ResultKeeps DEF Next
<1> QED BY <1>3, <1>4

LEMMA ElectionInvariant == Spec => []ElectionInv
BY ElectionStarts, ElectionKeeps, PTL DEF Spec

-----------------------------------------------------------------------------
\* A voter who follows the protocol is not turned away: whatever it chose and
\* whatever it drew, the proof it sends with its ballot verifies against the key
\* it stored, and the ballot opens the commitment it stored.
THEOREM BallotsAccepted == Spec => []HonestBallotAccepted
<1>1. ElectionInv => HonestBallotAccepted
  <2> SUFFICES ASSUME ElectionInv, voting_phase = "Vote", NEW a \in voters
               PROVE  /\ commitment[a] = Sha256(ballot(secret[a], reconstructed_key[a], choice[a]))
                      /\ \A w, r, d \in Nonce :
                           LET zkp == OneInTwo(a, w, r, d)
                           IN  Readable(zkp) /\ Parses(one_in_two_challenge(zkp.points))
                                  => verify_one_in_two_zkp(zkp, reconstructed_key[a])
    BY DEF HonestBallotAccepted
  <2> DEFINE x == secret[a]
             g == reconstructed_key[a]
  <2>1. /\ a \in Account /\ voting_key[a] = x /\ x \in Zq /\ choice[a] \in {0, 1}
        /\ reconstructed_key[a] # NoBytes
    BY DEF ElectionInv, Rolled, Drawn, Phased
  <2>2. /\ commitment[a] = Sha256(ballot(secret[a], reconstructed_key[a], choice[a]))
        /\ g = compute_reconstructed_key(Keys, x)
    BY <2>1 DEF ElectionInv, Committed
  <2>3. g \in Zq
    BY <2>2, KeyTyped DEF ElectionInv
  <2>4. ASSUME NEW w \in Nonce, NEW r \in Nonce, NEW d \in Nonce, NEW zkp,
               zkp = OneInTwo(a, w, r, d),
               Readable(zkp), Parses(one_in_two_challenge(zkp.points))
        PROVE  verify_one_in_two_zkp(zkp, g)
    <3>1. w \in Zq /\ r \in Zq /\ d \in Zq
      BY ElectionAssumption
    <3>2. zkp = IF choice[a] = 1 THEN create_one_in_two_zkp_yes(x, g, x, w, r, d)
                ELSE create_one_in_two_zkp_no(x, g, x, w, r, d)
      BY <2>1, <2>4 DEF OneInTwo
    <3> HIDE DEF x, g
    <3>3. CASE choice[a] = 1
      BY <2>1, <2>3, <2>4, <3>1, <3>2, <3>3, YesVerifies
    <3>4. CASE choice[a] # 1
      BY <2>1, <2>3, <2>4, <3>1, <3>2, <3>4, NoVerifies
    <3> QED BY <3>3, <3>4
  <2> QED BY <2>2, <2>4
<1> QED BY <1>1, ElectionInvariant, PTL

\* Once the roll has committed the exponents x_i y_i cancel, whoever of the
\* eligible registered and in whatever order.
THEOREM ExponentsCancel ==
  ASSUME LeafCount # 1
  PROVE  Spec => []KeysCancel
<1>1. ElectionInv => KeysCancel
  <2> SUFFICES ASSUME ElectionInv, voting_phase \in {"Vote", "Result"} PROVE KeysCancel
    BY DEF KeysCancel
  <2> DEFINE h == [a \in voters |-> secret[a] * reconstructed_key[a]]
  <2>1. Drawn /\ Rolled /\ 2 <= Cardinality(voters) /\ voters \subseteq Account
    BY DEF ElectionInv, Rolled
  <2>2. \A a \in voters : h[a] = secret[a] * compute_reconstructed_key(Keys, secret[a])
    BY <2>1 DEF ElectionInv, Committed, Phased
  <2>3. ASSUME NEW a \in voters PROVE h[a] \in Int
    <3> DEFINE x == secret[a]
               g == compute_reconstructed_key(Keys, secret[a])
    <3>1. x \in Zq /\ g \in Zq
      BY <2>1, KeyTyped DEF Drawn
    <3> HIDE DEF x, g
    <3>2. x * g \in Int
      BY <3>1, Order
    <3> QED BY <2>2, <3>2 DEF x, g
  <2>4. SumFunction(h) = SumFunctionOnSet(h, voters)
    BY DEF SumFunction
  <2>5. KeysCancel <=> SumFunction(h) % q = 0
    BY DEF KeysCancel
  <2> HIDE DEF h
  <2> DEFINE s == SumFunctionOnSet(h, voters)
  <2>6. Same(s, 0)
    BY <2>1, <2>2, Telescopes
  <2>7. s \in Int
    BY <2>1, <2>3, VotersFew, SumInteger
  <2> HIDE DEF s
  <2>8. s % q = 0 % q
    BY <2>6, <2>7, SameMod
  <2>9. 0 % q = 0
    BY Order, ExponentMod DEF Zq
  <2> QED BY <2>4, <2>5, <2>8, <2>9 DEF s
<1> QED BY <1>1, ElectionInvariant, PTL

\* So the published result is the count of the voters' choices, whatever the
\* group, the hash, the electorate and the choices.
THEOREM ResultRight ==
  ASSUME LeafCount # 1
  PROVE  Spec => []ResultCountsChoices
<1>1. ElectionInv => ResultCountsChoices
  BY DEF ElectionInv, Phased, Counts, ResultCountsChoices
<1> QED BY <1>1, ElectionInvariant, PTL

\* And a voter who follows the protocol can register.
THEOREM KeysAccepted ==
  Spec => [](\A a \in Account, w \in Nonce :
               LET g_x == (GENERATOR * secret[a]) % q
                   zkp == create_schnorr_zkp(g_x, secret[a], w)
               IN  Parses(w) /\ Parses(zkp.r) /\ Parses(schnorr_challenge(w, g_x))
                     => verify_schnorr_zkp(g_x, zkp))
<1>1. ASSUME ElectionInv, NEW a \in Account, NEW w \in Nonce, NEW zkp,
             zkp = create_schnorr_zkp((GENERATOR * secret[a]) % q, secret[a], w),
             Parses(w), Parses(zkp.r), Parses(schnorr_challenge(w, (GENERATOR * secret[a]) % q))
      PROVE  verify_schnorr_zkp((GENERATOR * secret[a]) % q, zkp)
  <2> DEFINE x == secret[a]
  <2>1. x \in Zq /\ (GENERATOR * secret[a]) % q = x /\ w \in Zq
    BY <1>1, SecretKey, ElectionAssumption DEF ElectionInv
  <2> HIDE DEF x
  <2>2. zkp = create_schnorr_zkp(x, x, w) /\ Parses(w) /\ Parses(zkp.r) /\ Parses(schnorr_challenge(w, x))
    BY <1>1, <2>1 DEF x
  <2>3. verify_schnorr_zkp(x, zkp)
    BY <2>1, <2>2, KeyVerifies
  <2> QED BY <2>1, <2>3
<1>2. ElectionInv => \A a \in Account, w \in Nonce :
        LET g_x == (GENERATOR * secret[a]) % q
            zkp == create_schnorr_zkp(g_x, secret[a], w)
        IN  Parses(w) /\ Parses(zkp.r) /\ Parses(schnorr_challenge(w, g_x))
              => verify_schnorr_zkp(g_x, zkp)
  BY <1>1
<1> QED BY <1>2, ElectionInvariant, PTL
=============================================================================
