------------------------------- MODULE Lemmas -------------------------------
(***************************************************************************)
(* What the proofs of several modules need about numbers and finite sets:  *)
(* division, induction, the functions that recursion on numbers defines,   *)
(* and sums.  The library states induction and recursion for an operator,  *)
(* with which the provers cannot do anything; here they are stated for     *)
(* sets and functions.                                                     *)
(***************************************************************************)
EXTENDS Integers, FiniteSetsExt, TLAPS, WellFoundedInduction, FiniteSetTheorems

\* Division of any integer: a quotient and a residue.
LEMMA Division ==
  ASSUME NEW z \in Int, NEW m \in Nat \ {0}
  PROVE  /\ (z % m) \in 0..(m - 1) /\ (z \div m) \in Int
         /\ z = (m * (z \div m)) + (z % m)
OBVIOUS

LEMMA NatDivision ==
  ASSUME NEW z \in Nat, NEW m \in Nat \ {0}
  PROVE  z \div m \in Nat
OBVIOUS

\* A product of integers is one: the provers need to be told.
LEMMA Product == \A a, b \in Int : a * b \in Int
OBVIOUS

\* A factor that grows makes the product grow.
LEMMA ProductGrows ==
  ASSUME NEW m \in Nat, NEW a \in Int, NEW b \in Int, a <= b
  PROVE  m * a \in Int /\ m * b \in Int /\ m * a <= m * b
<1>1. m * (b - a) >= 0
  OBVIOUS
<1>2. m * (b - a) = (m * b) - (m * a)
  OBVIOUS
<1> QED
  BY <1>1, <1>2, Product

LEMMA QuotientBelow ==
  ASSUME NEW z \in Nat, NEW m \in Nat \ {0}, NEW k \in Int, z < m * k
  PROVE  z \div m < k
<1> DEFINE q == z \div m
           s == z % m
<1>1. s \in 0..(m - 1) /\ q \in Int /\ z = (m * q) + s
  BY Division
<1> HIDE DEF q, s
<1>2. SUFFICES ASSUME k <= q PROVE FALSE
  BY <1>1 DEF q
<1>3. m * k \in Int /\ m * q \in Int /\ m * k <= m * q
  BY <1>1, <1>2, ProductGrows
<1> QED
  BY <1>1, <1>3

\* A residue is the only number of its range that differs by a multiple.
LEMMA OneResidue ==
  ASSUME NEW z \in Int, NEW m \in Nat \ {0}, NEW q \in Int, NEW r \in 0..(m - 1),
         z = (m * q) + r
  PROVE  z % m = r
<1> DEFINE p == z \div m
           s == z % m
<1>1. s \in 0..(m - 1) /\ p \in Int /\ z = (m * p) + s
  BY Division
<1>2. m * (p - q) = r - s
  BY <1>1
<1>3. p - q = 0
  <2>1. CASE p - q >= 1
    <3>1. m * (p - q) >= m
      BY <1>1, <2>1
    <3> QED
      BY <1>1, <1>2, <3>1
  <2>2. CASE p - q <= -1
    <3>1. m * (p - q) <= -m
      BY <1>1, <2>2
    <3> QED
      BY <1>1, <1>2, <3>1
  <2> QED
    BY <1>1, <2>1, <2>2
<1> QED
  BY <1>1, <1>2, <1>3

LEMMA OneQuotient ==
  ASSUME NEW z \in Int, NEW m \in Nat \ {0}, NEW q \in Int, NEW r \in 0..(m - 1),
         z = (m * q) + r
  PROVE  z \div m = q
<1> DEFINE p == z \div m
<1>1. p \in Int /\ z = (m * p) + (z % m)
  BY Division
<1>2. z % m = r
  BY OneResidue
<1> HIDE DEF p
<1>3. m * (p - q) = 0
  <2>1. m * (p - q) = (m * p) - (m * q)
    BY <1>1
  <2>2. m * p \in Int /\ m * q \in Int
    BY <1>1, Product
  <2> QED
    BY <1>1, <1>2, <2>1, <2>2
<1>4. p = q
  <2>1. p - q >= 1 => m * (p - q) >= m * 1
    BY <1>1, ProductGrows
  <2>2. p - q <= -1 => m * (p - q) <= m * (-1)
    BY <1>1, ProductGrows
  <2> QED
    BY <1>1, <1>3, <2>1, <2>2
<1> QED
  BY <1>4 DEF p

-----------------------------------------------------------------------------
\* A set of natural numbers has a least element.
LEMMA Least ==
  ASSUME NEW T, T \subseteq Nat, T # {}
  PROVE  \E n \in T : \A m \in T : n <= m
<1> DEFINE R == OpToRel(<, Nat)
<1>1. IsWellFoundedOn(R, Nat)
  BY NatLessThanWellFounded
<1>2. \A x, y \in Nat : x < y => <<x, y>> \in R
  BY DEF OpToRel
<1> HIDE DEF R
<1>3. PICK n \in T : \A m \in T : ~(<<m, n>> \in R)
  BY <1>1, WFMin
<1>4. ASSUME NEW m \in T PROVE n <= m
  <2>1. m \in Nat /\ n \in Nat
    OBVIOUS
  <2>2. ~(m < n)
    BY <1>2, <1>3, <2>1, Zenon
  <2> QED
    BY <2>1, <2>2
<1> QED
  BY <1>4

\* Induction, for the set of numbers for which something holds.
LEMMA UpTo ==
  ASSUME NEW S, 0 \in S, \A n \in Nat : n \in S => n + 1 \in S
  PROVE  Nat \subseteq S
<1>1. SUFFICES ASSUME Nat \ S # {} PROVE FALSE
  OBVIOUS
<1>2. PICK n \in Nat \ S : \A m \in Nat \ S : n <= m
  BY <1>1, Least
<1>3. n # 0 /\ n - 1 \in Nat
  BY <1>2
<1>4. n - 1 \in S
  BY <1>2, <1>3
<1> QED
  BY <1>2, <1>3, <1>4

-----------------------------------------------------------------------------
\* f starts with base, and element i comes from element i-1 and from i by G.
IsRun(f, X, base, n, G) ==
  /\ f \in [0..n -> X]
  /\ f[0] = base
  /\ \A i \in 1..n : f[i] = G[<<f[i - 1], i>>]

\* There is such a function, of any length.
LEMMA Recursion ==
  ASSUME NEW X, NEW n \in Nat, NEW base \in X, NEW G \in [X \X (1..n) -> X]
  PROVE  \E f : IsRun(f, X, base, n, G)
<1> DEFINE P(m, f) == /\ f \in [0..m -> X] /\ f[0] = base
                      /\ \A i \in 1..m : f[i] = G[<<f[i - 1], i>>]
           S == {m \in Nat : m <= n => \E f : P(m, f)}
<1>1. 0 \in S
  <2>1. P(0, [i \in 0..0 |-> base])
    OBVIOUS
  <2> QED
    BY <2>1
<1>2. ASSUME NEW m \in Nat, m \in S PROVE m + 1 \in S
  <2>1. SUFFICES ASSUME m + 1 <= n PROVE \E f : P(m + 1, f)
    OBVIOUS
  <2>2. PICK f : P(m, f)
    BY <1>2, <2>1
  <2> DEFINE g == [i \in 0..(m + 1) |-> IF i <= m THEN f[i] ELSE G[<<f[m], m + 1>>]]
  <2>3. f[m] \in X /\ m + 1 \in 1..n
    BY <2>1, <2>2
  <2>4. G[<<f[m], m + 1>>] \in X
    BY <2>3
  <2>5. g \in [0..(m + 1) -> X]
    BY <2>2, <2>4
  <2>6. ASSUME NEW i \in 1..(m + 1) PROVE g[i] = G[<<g[i - 1], i>>]
    <3>1. CASE i <= m
      <4>1. g[i] = f[i] /\ g[i - 1] = f[i - 1] /\ f[i] = G[<<f[i - 1], i>>]
        BY <2>2, <3>1
      <4> QED
        BY <4>1
    <3>2. CASE i = m + 1
      BY <3>2
    <3> QED
      BY <3>1, <3>2
  <2>7. g[0] = base
    BY <2>2
  <2> QED
    BY <2>5, <2>6, <2>7
<1> HIDE DEF S
<1>3. n \in S
  BY <1>1, <1>2, UpTo
<1> QED
  BY <1>3 DEF S, IsRun

\* There is only one, and it begins with the shorter ones.
LEMMA RunUnique ==
  ASSUME NEW X, NEW m \in Nat, NEW n \in Nat, m <= n, NEW base, NEW G, NEW f, NEW g,
         IsRun(f, X, base, m, G), IsRun(g, X, base, n, G)
  PROVE  \A i \in 0..m : f[i] = g[i]
<1> DEFINE S == {i \in Nat : i <= m => f[i] = g[i]}
<1>1. 0 \in S
  BY DEF IsRun
<1>2. ASSUME NEW i \in Nat, i \in S PROVE i + 1 \in S
  <2>1. SUFFICES ASSUME i + 1 <= m PROVE f[i + 1] = g[i + 1]
    OBVIOUS
  <2>2. i + 1 \in 1..m /\ i + 1 \in 1..n /\ (i + 1) - 1 = i /\ f[i] = g[i]
    BY <1>2, <2>1
  <2> QED
    BY <2>2 DEF IsRun
<1> HIDE DEF S
<1>3. Nat \subseteq S
  BY <1>1, <1>2, UpTo
<1> QED
  BY <1>3 DEF S

\* A function that recursion defines on all numbers.
IsRecursive(f, X, base, G) ==
  /\ f \in [Nat -> X]
  /\ f = [n \in Nat |-> IF n = 0 THEN base ELSE G[<<f[n - 1], n>>]]

LEMMA RecursionOnNat ==
  ASSUME NEW X, NEW base \in X, NEW G \in [X \X Nat -> X]
  PROVE  \E f : IsRecursive(f, X, base, G)
<1> DEFINE run(n) == CHOOSE g : IsRun(g, X, base, n, G)
           f == [n \in Nat |-> run(n)[n]]
<1>1. ASSUME NEW n \in Nat PROVE IsRun(run(n), X, base, n, G)
  <2> DEFINE H == [a \in X \X (1..n) |-> G[a]]
  <2>1. H \in [X \X (1..n) -> X]
    <3>1. \A a \in X \X (1..n) : a \in X \X Nat
      OBVIOUS
    <3> QED
      BY <3>1
  <2>2. PICK g : IsRun(g, X, base, n, H)
    BY <2>1, Recursion
  <2>3. IsRun(g, X, base, n, G)
    <3>1. ASSUME NEW i \in 1..n PROVE g[i] = G[<<g[i - 1], i>>]
      <4>1. g[i - 1] \in X
        BY <2>2 DEF IsRun
      <4>2. <<g[i - 1], i>> \in X \X (1..n)
        BY <4>1
      <4> QED
        BY <2>2, <4>2 DEF IsRun
    <3> QED
      BY <2>2, <3>1 DEF IsRun
  <2> QED
    BY <2>3
<1> HIDE DEF run
<1>2. ASSUME NEW n \in Nat PROVE f[n] \in X /\ f[n] = run(n)[n]
  BY <1>1 DEF IsRun
<1>3. ASSUME NEW n \in Nat, n # 0 PROVE f[n] = G[<<f[n - 1], n>>]
  <2>1. n - 1 \in Nat /\ n - 1 <= n /\ n \in 1..n /\ n - 1 \in 0..(n - 1)
    BY <1>3
  <2>2. IsRun(run(n), X, base, n, G) /\ IsRun(run(n - 1), X, base, n - 1, G)
    BY <1>1, <2>1
  <2>3. run(n)[n] = G[<<run(n)[n - 1], n>>]
    BY <2>1, <2>2 DEF IsRun
  <2>4. run(n - 1)[n - 1] = run(n)[n - 1]
    BY <2>1, <2>2, RunUnique
  <2> QED
    BY <1>2, <2>1, <2>3, <2>4
<1>4. f[0] = base
  BY <1>1, <1>2 DEF IsRun
<1>5. f \in [Nat -> X]
  BY <1>2
<1>6. f = [n \in Nat |-> IF n = 0 THEN base ELSE G[<<f[n - 1], n>>]]
  <2> DEFINE h == [n \in Nat |-> IF n = 0 THEN base ELSE G[<<f[n - 1], n>>]]
  <2>1. \A n \in Nat : f[n] = h[n]
    BY <1>3, <1>4
  <2> QED
    BY <2>1
<1> QED
  BY <1>5, <1>6 DEF IsRecursive

\* Two numbers with one residue: so have their products with a third.
LEMMA ResidueOfProduct ==
  ASSUME NEW m \in Nat \ {0}, NEW a \in Int, NEW b \in Int, NEW x \in Int, a % m = b % m
  PROVE  (a * x) % m = (b * x) % m
<1> DEFINE p == a \div m
           q == b \div m
           r == a % m
           k == (r * x) \div m
           s == (r * x) % m
<1>1. p \in Int /\ q \in Int /\ r \in Int /\ a = (m * p) + r /\ b = (m * q) + r
  BY Division
<1> HIDE DEF p, q, r
<1>2. r * x \in Int
  BY <1>1, Product
<1>3. k \in Int /\ s \in 0..(m - 1) /\ r * x = (m * k) + s
  BY <1>2, Division
<1> HIDE DEF k, s
<1>4. ASSUME NEW c \in Int, NEW t \in Int, c = (m * t) + r
      PROVE  (c * x) % m = s
  <2>1. c * x = ((m * t) * x) + (r * x)
    BY <1>1, <1>4
  <2>2. (m * t) * x = m * (t * x) /\ t * x \in Int /\ (t * x) + k \in Int
    BY <1>3, Product
  <2>3. m * ((t * x) + k) = (m * (t * x)) + (m * k)
    BY <1>3, <2>2
  <2>4. c * x \in Int /\ m * (t * x) \in Int /\ m * k \in Int
    BY <1>3, <2>2, Product
  <2>5. c * x = (m * ((t * x) + k)) + s
    BY <1>2, <1>3, <2>1, <2>2, <2>3, <2>4
  <2> QED
    BY <1>3, <2>2, <2>4, <2>5, OneResidue
<1> QED
  BY <1>1, <1>4

-----------------------------------------------------------------------------
(* Sums over finite sets *)

\* it is the sum of w over every member of D, or subset of S, added up in the
\* order of MapThenSumSet.
Picked(s) == CHOOSE x \in s : TRUE
SumsOn(it, w, D) ==
  it = [s \in D |-> IF s = {} THEN 0 ELSE w[Picked(s)] + it[s \ {Picked(s)}]]
IsSum(it, w, S) == SumsOn(it, w, SUBSET S)

Total(w, S) == MapThenSumSet(LAMBDA x : w[x], S)

LEMMA TotalDef ==
  ASSUME NEW w, NEW S
  PROVE  Total(w, S) = (CHOOSE it : IsSum(it, w, S))[S]
BY DEF Total, MapThenSumSet, MapThenFoldSet, IsSum, SumsOn, Picked

\* Induction on the size of a set, for the subsets of a finite set.
LEMMA BySize ==
  ASSUME NEW S, IsFiniteSet(S), NEW Q, Q \subseteq SUBSET S,
         \A s \in SUBSET S : (\A x \in s : s \ {x} \in Q) => s \in Q
  PROVE  SUBSET S \subseteq Q
<1> DEFINE M == {n \in Nat : \A s \in SUBSET S : Cardinality(s) = n => s \in Q}
<1>1. \A s \in SUBSET S : IsFiniteSet(s) /\ Cardinality(s) \in Nat
  BY FS_Subset, FS_CardinalityType
<1>2. 0 \in M
  <2>1. \A s \in SUBSET S : Cardinality(s) = 0 => s = {}
    BY <1>1, FS_EmptySet
  <2> QED
    BY <2>1
<1>3. ASSUME NEW n \in Nat, n \in M PROVE n + 1 \in M
  <2>1. SUFFICES ASSUME NEW s \in SUBSET S, Cardinality(s) = n + 1 PROVE s \in Q
    OBVIOUS
  <2>2. ASSUME NEW x \in s PROVE s \ {x} \in Q
    <3>1. Cardinality(s \ {x}) = n
      <4>1. IsFiniteSet(s) /\ x \in s
        BY <1>1
      <4>2. Cardinality(s \ {x}) = Cardinality(s) - 1
        BY <4>1, FS_RemoveElement
      <4> QED
        BY <2>1, <4>2
    <3>2. s \ {x} \in SUBSET S
      OBVIOUS
    <3> QED
      BY <1>3, <3>1, <3>2
  <2> QED
    BY <2>2
<1> HIDE DEF M
<1>4. Nat \subseteq M
  BY <1>2, <1>3, UpTo
<1> QED
  BY <1>1, <1>4 DEF M

\* A finite set has a sum.
LEMMA SumExists ==
  ASSUME NEW w, NEW S, IsFiniteSet(S)
  PROVE  \E it : IsSum(it, w, S)
<1> DEFINE D(n) == {s \in SUBSET S : Cardinality(s) <= n}
           M == {n \in Nat : \E f : SumsOn(f, w, D(n))}
<1>1. \A s \in SUBSET S : /\ IsFiniteSet(s) /\ Cardinality(s) \in Nat
                          /\ (Cardinality(s) = 0 <=> s = {})
  BY FS_Subset, FS_CardinalityType, FS_EmptySet
<1>2. \A s \in SUBSET S : s # {} => /\ Picked(s) \in s
                                    /\ s \ {Picked(s)} \in SUBSET S
                                    /\ Cardinality(s \ {Picked(s)}) = Cardinality(s) - 1
  <2> SUFFICES ASSUME NEW s \in SUBSET S, s # {}
               PROVE  /\ Picked(s) \in s
                      /\ Cardinality(s \ {Picked(s)}) = Cardinality(s) - 1
    OBVIOUS
  <2>1. Picked(s) \in s
    BY DEF Picked
  <2> QED
    BY <1>1, <2>1, FS_RemoveElement
<1>3. 0 \in M
  <2> DEFINE f == [s \in D(0) |-> 0]
  <2>1. SumsOn(f, w, D(0))
    BY <1>1 DEF SumsOn
  <2> QED
    BY <2>1
<1>4. ASSUME NEW n \in Nat, n \in M PROVE n + 1 \in M
  <2>1. PICK f : SumsOn(f, w, D(n))
    BY <1>4
  <2> DEFINE g == [s \in D(n + 1) |-> IF Cardinality(s) <= n THEN f[s]
                                     ELSE w[Picked(s)] + f[s \ {Picked(s)}]]
  <2>2. ASSUME NEW s \in D(n + 1)
        PROVE  g[s] = IF s = {} THEN 0 ELSE w[Picked(s)] + g[s \ {Picked(s)}]
    <3>1. s \in SUBSET S /\ Cardinality(s) \in Nat /\ Cardinality(s) <= n + 1
      BY <1>1
    <3>2. CASE s = {}
      <4>1. s \in D(n) /\ g[s] = f[s]
        BY <1>1, <3>1, <3>2
      <4> QED
        BY <2>1, <3>2, <4>1 DEF SumsOn
    <3>3. CASE s # {}
      <4> DEFINE r == s \ {Picked(s)}
      <4>1. r \in SUBSET S /\ Cardinality(r) = Cardinality(s) - 1
        BY <1>2, <3>1, <3>3
      <4>2. r \in D(n) /\ r \in D(n + 1)
        BY <3>1, <4>1
      <4>3. g[r] = f[r]
        BY <4>2
      <4>4. g[s] = w[Picked(s)] + f[r]
        <5>1. CASE Cardinality(s) <= n
          BY <2>1, <3>1, <3>3, <5>1 DEF SumsOn
        <5>2. CASE ~(Cardinality(s) <= n)
          BY <5>2
        <5> QED
          BY <5>1, <5>2
      <4> QED
        BY <3>3, <4>3, <4>4
    <3> QED
      BY <3>2, <3>3
  <2>3. SumsOn(g, w, D(n + 1))
    BY <2>2 DEF SumsOn
  <2>4. n + 1 \in Nat
    OBVIOUS
  <2> HIDE DEF g, D
  <2> QED
    BY <2>3, <2>4, Zenon
<1> HIDE DEF M
<1>5. Cardinality(S) \in Nat /\ Cardinality(S) \in M
  BY <1>1, <1>3, <1>4, UpTo
<1>6. PICK f : SumsOn(f, w, D(Cardinality(S)))
  BY <1>5 DEF M
<1>7. D(Cardinality(S)) = SUBSET S
  <2>1. \A s \in SUBSET S : Cardinality(s) <= Cardinality(S)
    BY FS_Subset
  <2> QED
    BY <2>1
<1>8. IsSum(f, w, S)
  BY <1>6, <1>7 DEF IsSum, SumsOn
<1> QED
  BY <1>8

\* Sums of weights that agree on a set agree on it, whatever larger sets they
\* are the sums of.
LEMMA SumUnique ==
  ASSUME NEW w, NEW v, NEW S, NEW T, NEW it, NEW jt, IsSum(it, w, S), IsSum(jt, v, T),
         NEW R, R \subseteq S, R \subseteq T, IsFiniteSet(R), \A x \in R : w[x] = v[x]
  PROVE  it[R] = jt[R]
<1> DEFINE Q == {s \in SUBSET R : it[s] = jt[s]}
<1>1. ASSUME NEW s \in SUBSET R, \A x \in s : s \ {x} \in Q PROVE s \in Q
  <2>1. CASE s = {}
    BY <2>1 DEF IsSum, SumsOn
  <2>2. CASE s # {}
    <3>1. Picked(s) \in s
      BY <2>2 DEF Picked
    <3>2. it[s \ {Picked(s)}] = jt[s \ {Picked(s)}] /\ w[Picked(s)] = v[Picked(s)]
      BY <1>1, <3>1
    <3>3. s \in SUBSET S /\ s \in SUBSET T
      OBVIOUS
    <3>4. it[s] = w[Picked(s)] + it[s \ {Picked(s)}] /\ jt[s] = v[Picked(s)] + jt[s \ {Picked(s)}]
      BY <2>2, <3>3 DEF IsSum, SumsOn
    <3> QED
      BY <3>2, <3>4
  <2> QED
    BY <2>1, <2>2
<1> HIDE DEF Q
<1>2. SUBSET R \subseteq Q
  <2>1. Q \subseteq SUBSET R
    BY DEF Q
  <2> QED
    BY <1>1, <2>1, BySize
<1> QED
  BY <1>2 DEF Q

LEMMA SumNat ==
  ASSUME NEW w, NEW S, IsFiniteSet(S), NEW it, IsSum(it, w, S), \A x \in S : w[x] \in Nat
  PROVE  \A s \in SUBSET S : it[s] \in Nat
<1> DEFINE Q == {s \in SUBSET S : it[s] \in Nat}
<1>1. ASSUME NEW s \in SUBSET S, \A x \in s : s \ {x} \in Q PROVE s \in Q
  <2>1. CASE s = {}
    BY <2>1 DEF IsSum, SumsOn
  <2>2. CASE s # {}
    <3>1. Picked(s) \in s /\ it[s] = w[Picked(s)] + it[s \ {Picked(s)}]
      BY <2>2 DEF Picked, IsSum, SumsOn
    <3>2. it[s \ {Picked(s)}] \in Nat
      BY <1>1, <3>1
    <3>3. w[Picked(s)] \in Nat
      BY <3>1
    <3>4. it[s] \in Nat
      BY <3>1, <3>2, <3>3
    <3> QED
      BY <3>4
  <2> QED
    BY <2>1, <2>2
<1>2. Q \subseteq SUBSET S
  OBVIOUS
<1> HIDE DEF Q
<1>3. SUBSET S \subseteq Q
  BY <1>1, <1>2, BySize
<1> QED
  BY <1>3 DEF Q

\* Any element can be taken out of a sum.
LEMMA SumTakesOut ==
  ASSUME NEW w, NEW S, IsFiniteSet(S), NEW it, IsSum(it, w, S), \A x \in S : w[x] \in Nat
  PROVE  \A s \in SUBSET S : \A x \in s : it[s] = w[x] + it[s \ {x}]
<1> DEFINE Q == {s \in SUBSET S : \A x \in s : it[s] = w[x] + it[s \ {x}]}
<1>1. \A s \in SUBSET S : it[s] \in Nat
  BY SumNat
<1>2. ASSUME NEW s \in SUBSET S, \A x \in s : s \ {x} \in Q PROVE s \in Q
  <2>1. SUFFICES ASSUME NEW x \in s PROVE it[s] = w[x] + it[s \ {x}]
    OBVIOUS
  <2> DEFINE y == Picked(s)
  <2>2. y \in s /\ it[s] = w[y] + it[s \ {y}]
    BY <2>1 DEF Picked, IsSum, SumsOn
  <2> HIDE DEF y
  <2>3. CASE x = y
    BY <2>2, <2>3
  <2>4. CASE x # y
    <3>1. x \in s \ {y} /\ y \in s \ {x} /\ s \ {x} \in Q /\ s \ {y} \in Q
      BY <1>2, <2>2, <2>4
    <3> DEFINE r == s \ {x, y}
    <3>2. (s \ {y}) \ {x} = r /\ (s \ {x}) \ {y} = r /\ r \in SUBSET S
      OBVIOUS
    <3>3. it[s \ {y}] = w[x] + it[r]
      BY <3>1, <3>2
    <3>4. it[s \ {x}] = w[y] + it[r]
      BY <3>1, <3>2
    <3>5. it[r] \in Nat /\ w[x] \in Nat /\ w[y] \in Nat
      BY <1>1, <2>2, <3>2
    <3> HIDE DEF Q, r
    <3> QED
      BY <2>2, <3>3, <3>4, <3>5
  <2> QED
    BY <2>3, <2>4
<1>3. Q \subseteq SUBSET S
  OBVIOUS
<1> HIDE DEF Q
<1>4. SUBSET S \subseteq Q
  BY <1>2, <1>3, BySize
<1> QED
  BY <1>4 DEF Q

-----------------------------------------------------------------------------
\* The same of Total.
LEMMA TotalNat ==
  ASSUME NEW w, NEW S, IsFiniteSet(S), \A x \in S : w[x] \in Nat
  PROVE  Total(w, S) \in Nat
<1> DEFINE it == CHOOSE i : IsSum(i, w, S)
<1>1. IsSum(it, w, S)
  BY SumExists
<1>2. Total(w, S) = it[S]
  BY TotalDef
<1> HIDE DEF it
<1>3. S \in SUBSET S
  OBVIOUS
<1> QED
  BY <1>1, <1>2, <1>3, SumNat

LEMMA TotalTakesOut ==
  ASSUME NEW w, NEW S, IsFiniteSet(S), \A x \in S : w[x] \in Nat, NEW x \in S
  PROVE  Total(w, S) = w[x] + Total(w, S \ {x})
<1> DEFINE it == CHOOSE i : IsSum(i, w, S)
           jt == CHOOSE i : IsSum(i, w, S \ {x})
<1>1. IsFiniteSet(S \ {x})
  BY FS_RemoveElement
<1>2. IsSum(it, w, S) /\ IsSum(jt, w, S \ {x})
  BY <1>1, SumExists
<1>3. Total(w, S) = it[S] /\ Total(w, S \ {x}) = jt[S \ {x}]
  BY TotalDef
<1> HIDE DEF it, jt
<1>4. it[S] = w[x] + it[S \ {x}]
  <2>1. S \in SUBSET S
    OBVIOUS
  <2> QED
    BY <1>2, <2>1, SumTakesOut
<1>5. it[S \ {x}] = jt[S \ {x}]
  BY <1>1, <1>2, SumUnique
<1> QED
  BY <1>3, <1>4, <1>5

LEMMA TotalSame ==
  ASSUME NEW w, NEW v, NEW S, IsFiniteSet(S), \A x \in S : w[x] = v[x]
  PROVE  Total(w, S) = Total(v, S)
<1> DEFINE it == CHOOSE i : IsSum(i, w, S)
           jt == CHOOSE i : IsSum(i, v, S)
<1>1. IsSum(it, w, S) /\ IsSum(jt, v, S)
  BY SumExists
<1>2. Total(w, S) = it[S] /\ Total(v, S) = jt[S]
  BY TotalDef
<1> HIDE DEF it, jt
<1> QED
  BY <1>1, <1>2, SumUnique

LEMMA TotalOfNothing == \A w : Total(w, {}) = 0
<1> SUFFICES ASSUME NEW w PROVE Total(w, {}) = 0
  OBVIOUS
<1> DEFINE it == CHOOSE i : IsSum(i, w, {})
<1>1. IsSum(it, w, {})
  BY SumExists, FS_EmptySet
<1>2. Total(w, {}) = it[{}]
  BY TotalDef
<1> HIDE DEF it
<1> QED
  BY <1>1, <1>2 DEF IsSum, SumsOn
=============================================================================
