---------------------------- MODULE NumberLemmas -----------------------------
(***************************************************************************)
(* Facts about numbers: % with a symbolic modulus, for the proofs about    *)
(* indices that wrap; the least and the greatest of a set, for those about *)
(* searches; induction and recursion up to a number, for those about       *)
(* recursive functions.                                                    *)
(***************************************************************************)
EXTENDS Integers, FiniteSetTheorems, WellFoundedInduction, TLAPS

\* Quotient and remainder of a natural number.
LEMMA DivisionNat ==
    ASSUME NEW n \in Nat, NEW c \in Nat \ {0}
    PROVE  /\ n \div c \in Nat
           /\ n % c \in 0 .. (c - 1)
           /\ n = c * (n \div c) + (n % c)
OBVIOUS

\* A remainder is determined by any decomposition.
LEMMA RemainderUnique ==
    ASSUME NEW c \in Nat \ {0}, NEW n \in Int, NEW q \in Int,
           NEW r \in 0 .. (c - 1), n = c * q + r
    PROVE  n % c = r
OBVIOUS

\* A nonzero multiple of c is at least c away from 0.
LEMMA MultipleFar ==
    ASSUME NEW c \in Nat \ {0}, NEW k \in Int
    PROVE  /\ k >= 1  => c * k >= c
           /\ k <= -1 => c * k <= -c
OBVIOUS

\* Numbers less than c apart have different remainders.
LEMMA RemainderDistinct ==
    ASSUME NEW c \in Nat \ {0}, NEW a \in Nat, NEW b \in Nat,
           a < b, b < a + c
    PROVE  a % c # b % c
<1>1. SUFFICES ASSUME a % c = b % c PROVE FALSE
  OBVIOUS
<1> DEFINE p == a \div c
           q == b \div c
           k == q - p
<1>2. /\ a = c * p + (a % c) /\ b = c * q + (b % c)
      /\ p \in Nat /\ q \in Nat /\ a % c \in Nat /\ b % c \in Nat
  BY DivisionNat
<1> HIDE DEF p, q
<1>3. k \in Int /\ c * p \in Int /\ c * q \in Int
  BY <1>2
<1>4. c * k = c * q - c * p
  BY <1>2
<1>5. b - a = c * k
  BY <1>1, <1>2, <1>3, <1>4
<1> HIDE DEF k
<1>6. CASE k >= 1
  <2>1. c * k >= c
    BY <1>3, <1>6, MultipleFar
  <2> QED BY <2>1, <1>5
<1>7. CASE k = 0
  BY <1>5, <1>7
<1>8. CASE k <= -1
  <2>1. c * k <= -c
    BY <1>3, <1>8, MultipleFar
  <2> QED BY <2>1, <1>5
<1> QED BY <1>3, <1>6, <1>7, <1>8

\* Reducing modulo a multiple of c first does not change the remainder.
LEMMA RemainderNested ==
    ASSUME NEW c \in Nat \ {0}, NEW k \in Nat \ {0}, NEW n \in Nat
    PROVE  (n % (c * k)) % c = n % c
<1> DEFINE m == c * k
           q == n \div m
           r == n % m
           p == r \div c
           s == r % c
           x == k * q + p
<1>1. m \in Nat \ {0}
  OBVIOUS
<1> HIDE DEF m
<1>2. n = m * q + r /\ q \in Nat /\ r \in Nat
  BY <1>1, DivisionNat
<1> HIDE DEF q, r
<1>3. r = c * p + s /\ p \in Nat /\ s \in 0 .. (c - 1)
  BY <1>2, DivisionNat
<1> HIDE DEF p, s
<1>4. m * q = c * (k * q)
  BY <1>2 DEF m
<1>5. n = c * x + s /\ x \in Int
  BY <1>2, <1>3, <1>4
<1> HIDE DEF x
<1>6. n % c = s
  BY <1>5, <1>3, RemainderUnique
<1> QED BY <1>6 DEF r, s, m

\* Incrementing a reduced number and reducing again is incrementing it.
LEMMA RemainderSucc ==
    ASSUME NEW m \in Nat \ {0}, NEW n \in Nat
    PROVE  ((n % m) + 1) % m = (n + 1) % m
<1> DEFINE q == n \div m
           r == n % m
<1>1. n = m * q + r /\ q \in Nat /\ r \in 0 .. (m - 1)
  BY DivisionNat
<1> SUFFICES (r + 1) % m = (n + 1) % m
  OBVIOUS
<1> HIDE DEF q, r
<1> DEFINE a == r + 1
           b == n + 1
           q1 == q + 1
<1>2. a \in Nat /\ b \in Nat /\ q1 \in Int
  BY <1>1
<1>3. CASE r + 1 < m
  <2>1. b = m * q + a /\ a = m * 0 + a /\ a \in 0 .. (m - 1)
    BY <1>1, <1>3
  <2> HIDE DEF a, b
  <2>2. b % m = a
    BY <2>1, <1>1, <1>2, RemainderUnique
  <2>3. a % m = a
    BY <2>1, <1>2, RemainderUnique
  <2> QED BY <2>2, <2>3 DEF a, b
<1>4. CASE r + 1 = m
  <2>1. b = m * q1 + 0 /\ a = m * 1 + 0
    BY <1>1, <1>4
  <2> HIDE DEF a, b, q1
  <2>2. b % m = 0
    BY <2>1, <1>2, RemainderUnique
  <2>3. a % m = 0
    BY <2>1, <1>2, RemainderUnique
  <2> QED BY <2>2, <2>3 DEF a, b
<1> QED BY <1>1, <1>3, <1>4

\* The difference of two reduced numbers, reduced, is their distance.
LEMMA RemainderDifference ==
    ASSUME NEW m \in Nat \ {0}, NEW a \in Nat, NEW b \in Nat,
           b <= a, a - b < m
    PROVE  ((a % m) - (b % m)) % m = a - b
<1> DEFINE p == a \div m
           q == b \div m
           r == a % m
           s == b % m
<1>1. a = m * p + r /\ p \in Nat /\ r \in 0 .. (m - 1)
  BY DivisionNat
<1>2. b = m * q + s /\ q \in Nat /\ s \in 0 .. (m - 1)
  BY DivisionNat
<1> SUFFICES (r - s) % m = a - b
  OBVIOUS
<1> HIDE DEF p, q, r, s
<1> DEFINE d == r - s
           e == a - b
           k == q - p
<1>3. m * k = m * q - m * p /\ m * q \in Int /\ m * p \in Int
  BY <1>1, <1>2
<1>4. d = m * k + e
  BY <1>1, <1>2, <1>3
<1>5. d \in Int /\ k \in Int /\ e \in 0 .. (m - 1)
  BY <1>1, <1>2
<1> HIDE DEF d, e, k
<1>6. d % m = e
  BY <1>4, <1>5, RemainderUnique
<1> QED BY <1>6 DEF d, e
------------------------------------------------------------------------------
\* The numbers of a set that are not above one of them.
UpTo(T, i) == {j \in T : j <= i}

\* A set of naturals has a least number.
LEMMA LeastNumber ==
    ASSUME NEW T \in SUBSET Nat, T # {}
    PROVE  \E x \in T : \A y \in T : x <= y
<1>1. PICK R : /\ IsWellFoundedOn(R, Nat)
               /\ \A x, y \in Nat : y < x => <<y, x>> \in R
  <2>1. \A x, y \in Nat : y < x => <<y, x>> \in OpToRel(<, Nat)
    BY DEF OpToRel
  <2> QED BY <2>1, NatLessThanWellFounded
<1>2. PICK x \in T : \A y \in T : ~ (<<y, x>> \in R)
  BY <1>1, WFMin
<1>3. ASSUME NEW y \in T PROVE x <= y
  <2>1. x \in Nat /\ y \in Nat
    OBVIOUS
  <2>2. ~ (y < x)
    BY <1>1, <1>2, <2>1
  <2> QED BY <2>1, <2>2
<1> QED BY <1>3

LEMMA UpToType ==
    ASSUME NEW T \in SUBSET Nat, IsFiniteSet(T), NEW i \in T
    PROVE  /\ IsFiniteSet(UpTo(T, i)) /\ Cardinality(UpTo(T, i)) \in Nat
           /\ Cardinality(UpTo(T, i)) <= Cardinality(T) /\ Cardinality(T) \in Nat
           /\ i \in UpTo(T, i) /\ UpTo(T, i) \in SUBSET T
<1>1. UpTo(T, i) \in SUBSET T /\ i \in UpTo(T, i)
  BY DEF UpTo
<1> QED BY <1>1, FS_Subset, FS_CardinalityType

\* More numbers are up to the larger one.
LEMMA UpToGrows ==
    ASSUME NEW T \in SUBSET Nat, IsFiniteSet(T), NEW i \in T, NEW j \in T, i < j
    PROVE  Cardinality(UpTo(T, i)) < Cardinality(UpTo(T, j))
<1>1. UpTo(T, i) \in SUBSET UpTo(T, j) /\ j \notin UpTo(T, i) /\ j \in UpTo(T, j)
  <2>1. i \in Nat /\ j \in Nat
    OBVIOUS
  <2>2. \A k \in T : k <= i => k <= j
    BY <2>1
  <2>3. ~ (j <= i) /\ j <= j
    BY <2>1
  <2>4. UpTo(T, i) \subseteq UpTo(T, j)
    BY <2>2 DEF UpTo
  <2> QED BY <2>3, <2>4 DEF UpTo
<1>2. /\ Cardinality(UpTo(T, i)) <= Cardinality(UpTo(T, j))
      /\ Cardinality(UpTo(T, i)) # Cardinality(UpTo(T, j))
  BY <1>1, UpToType, FS_Subset
<1>3. Cardinality(UpTo(T, i)) \in Nat /\ Cardinality(UpTo(T, j)) \in Nat
  BY UpToType
<1> QED BY <1>2, <1>3

\* A finite one has a greatest.
LEMMA GreatestNumber ==
    ASSUME NEW T \in SUBSET Nat, IsFiniteSet(T), T # {}
    PROVE  \E x \in T : \A y \in T : y <= x
<1> DEFINE Above == {Cardinality(T) - Cardinality(UpTo(T, i)) : i \in T}
<1>1. \A i \in T : Cardinality(T) - Cardinality(UpTo(T, i)) \in Nat
  <2> SUFFICES ASSUME NEW i \in T
               PROVE  Cardinality(T) - Cardinality(UpTo(T, i)) \in Nat
    OBVIOUS
  <2>1. /\ Cardinality(UpTo(T, i)) \in Nat /\ Cardinality(T) \in Nat
        /\ Cardinality(UpTo(T, i)) <= Cardinality(T)
    BY UpToType
  <2> QED BY <2>1
<1>2. Above \in SUBSET Nat /\ Above # {}
  BY <1>1
<1>3. PICK d \in Above : \A e \in Above : d <= e
  <2> HIDE DEF Above
  <2> QED BY <1>2, LeastNumber
<1>4. PICK x \in T : d = Cardinality(T) - Cardinality(UpTo(T, x))
  OBVIOUS
<1>5. ASSUME NEW y \in T PROVE y <= x
  <2>1. Cardinality(T) - Cardinality(UpTo(T, x)) <= Cardinality(T) - Cardinality(UpTo(T, y))
    BY <1>3, <1>4
  <2>2. /\ Cardinality(UpTo(T, x)) \in Nat /\ Cardinality(T) \in Nat
        /\ Cardinality(UpTo(T, y)) \in Nat
    BY UpToType
  <2>3. Cardinality(UpTo(T, y)) <= Cardinality(UpTo(T, x))
    BY <2>1, <2>2
  <2>4. ~ (x < y)
    BY <2>2, <2>3, UpToGrows
  <2>5. x \in Nat /\ y \in Nat
    OBVIOUS
  <2> QED BY <2>4, <2>5
<1> QED BY <1>5
------------------------------------------------------------------------------
\* Induction up to N: P has the numbers for which something holds.
LEMMA Climb ==
    ASSUME NEW N \in Nat, NEW P, 0 \in P,
           \A n \in 0 .. N : n < N /\ n \in P => n + 1 \in P
    PROVE  \A n \in 0 .. N : n \in P
<1> DEFINE Bad == {n \in 0 .. N : n \notin P}
<1> SUFFICES ASSUME Bad # {} PROVE FALSE
  OBVIOUS
<1>1. PICK n \in Bad : \A m \in Bad : n <= m
  <2>1. Bad \in SUBSET Nat
    OBVIOUS
  <2> HIDE DEF Bad
  <2> QED BY <2>1, LeastNumber
<1>2. n \in 1 .. N /\ n - 1 \in 0 .. N /\ n - 1 < N /\ (n - 1) + 1 = n /\ ~ (n <= n - 1)
  OBVIOUS
<1>3. n - 1 \in P
  BY <1>1, <1>2
<1> QED BY <1>2, <1>3

\* Recursion up to N: the n-th step is a function of what there was before.
AreSteps(step, N, S) == step \in [1 .. N -> [S -> S]]

IsRun(f, N, S, base, step) ==
    /\ f \in [0 .. N -> S] /\ f[0] = base
    /\ \A n \in 1 .. N : f[n] = step[n][f[n - 1]]

LEMMA Recursion ==
    ASSUME NEW N \in Nat, NEW S, NEW base \in S, NEW step, AreSteps(step, N, S)
    PROVE  \E f : IsRun(f, N, S, base, step)
<1> USE DEF AreSteps, IsRun
<1> DEFINE P == {m \in 0 .. N : \E f : IsRun(f, m, S, base, step)}
<1>1. 0 \in P
  <2> DEFINE f == [n \in 0 .. 0 |-> base]
  <2>1. f \in [0 .. 0 -> S] /\ f[0] = base /\ \A n \in 1 .. 0 : FALSE
    OBVIOUS
  <2> HIDE DEF f
  <2>2. IsRun(f, 0, S, base, step)
    BY <2>1
  <2> QED BY <2>2
<1>2. ASSUME NEW m \in 0 .. N, m < N, m \in P PROVE m + 1 \in P
  <2>1. PICK f : IsRun(f, m, S, base, step)
    BY <1>2
  <2> DEFINE x == step[m + 1][f[m]]
             g == [n \in 0 .. m + 1 |-> IF n = m + 1 THEN x ELSE f[n]]
  <2>2. m + 1 \in 1 .. N /\ m \in 0 .. m /\ f[m] \in S /\ x \in S
    BY <1>2, <2>1
  <2> HIDE DEF x
  <2>3. g \in [0 .. m + 1 -> S] /\ g[0] = base
    BY <2>1, <2>2
  <2>4. ASSUME NEW n \in 1 .. m + 1 PROVE g[n] = step[n][g[n - 1]]
    <3>1. CASE n = m + 1
      <4>1. g[n] = x /\ g[n - 1] = f[m] /\ n - 1 = m
        BY <3>1
      <4> QED BY <3>1, <4>1 DEF x
    <3>2. CASE n # m + 1
      <4>1. n \in 1 .. m /\ n - 1 \in 0 .. m /\ n - 1 # m + 1
        BY <3>2
      <4>2. g[n] = f[n] /\ g[n - 1] = f[n - 1]
        BY <4>1
      <4>3. f[n] = step[n][f[n - 1]]
        BY <2>1, <4>1
      <4> QED BY <4>2, <4>3
    <3> QED BY <3>1, <3>2
  <2> HIDE DEF g
  <2>5. IsRun(g, m + 1, S, base, step)
    BY <2>3, <2>4
  <2> QED BY <2>2, <2>5
<1>3. N \in P
  <2> HIDE DEF P
  <2>1. \A n \in 0 .. N : n \in P
    BY <1>1, <1>2, Climb
  <2> QED BY <2>1
<1> QED BY <1>3
==============================================================================
