------------------------- MODULE ModularArithmetic --------------------------
(***************************************************************************)
(* Facts about quotients and remainders for every divisor, from which the  *)
(* proofs about wrapping sequence numbers and ring indices are made, and   *)
(* the least-number principle in the form that needs no operator argument, *)
(* on which the proofs by induction rest.                                  *)
(***************************************************************************)
EXTENDS Integers, WellFoundedInduction, TLAPS

\* A set of naturals that is not empty has a least element.
LEMMA NatMin ==
    ASSUME NEW T \in SUBSET Nat, T # {}
    PROVE  \E x \in T : \A y \in T : x <= y
<1>1. PICK x \in T : \A y \in T : ~(<<y, x>> \in OpToRel(<, Nat))
  BY WFMin, NatLessThanWellFounded
<1>2. \A y \in T : ~(y < x)
  BY <1>1 DEF OpToRel
<1> QED BY <1>2

\* Induction up to n, with the set of numbers for which the claim holds.
LEMMA UpTo ==
    ASSUME NEW n \in Nat, NEW P, 0 \in P, \A k \in 1 .. n : k - 1 \in P => k \in P
    PROVE  \A k \in 0 .. n : k \in P
<1> SUFFICES ASSUME NEW m \in 0 .. n, m \notin P PROVE FALSE
  OBVIOUS
<1> DEFINE T == { k \in 0 .. n : k \notin P }
<1>1. T \in SUBSET Nat /\ T # {}
  OBVIOUS
<1>2. PICK x \in T : \A y \in T : x <= y
  BY <1>1, NatMin
<1>3. x \in 1 .. n /\ x - 1 \notin T
  BY <1>2
<1> QED BY <1>2, <1>3

\* f starts in a, stays in A, and its steps are the functions g[k].
Solves(f, A, a, n, g) ==
    f \in [0 .. n -> A] /\ f[0] = a /\ \A k \in 1 .. n : f[k] = g[k][f[k - 1]]

\* A recursion over 0 .. n has a solution.
LEMMA Recursion ==
    ASSUME NEW A, NEW a \in A, NEW n \in Nat, NEW g \in [1 .. n -> [A -> A]]
    PROVE  \E f : Solves(f, A, a, n, g)
<1> DEFINE P == { m \in 0 .. n : \E f : Solves(f, A, a, m, g) }
<1>1. 0 \in P
  <2> DEFINE f == [k \in 0 .. 0 |-> a]
  <2>1. Solves(f, A, a, 0, g)
    BY DEF Solves
  <2> HIDE DEF f
  <2> QED BY <2>1
<1>2. ASSUME NEW m \in 1 .. n, m - 1 \in P PROVE m \in P
  <2>0. PICK f : Solves(f, A, a, m - 1, g)
    BY <1>2
  <2>1. /\ f \in [0 .. m - 1 -> A] /\ f[0] = a
        /\ \A k \in 1 .. m - 1 : f[k] = g[k][f[k - 1]]
    BY <2>0 DEF Solves
  <2> DEFINE h == [k \in 0 .. m |-> IF k = m THEN g[m][f[m - 1]] ELSE f[k]]
  <2>2. g[m][f[m - 1]] \in A
    BY <2>1
  <2>3. h \in [0 .. m -> A]
    BY <2>1, <2>2
  <2>4. h[0] = a
    BY <2>1
  <2>5. ASSUME NEW k \in 1 .. m PROVE h[k] = g[k][h[k - 1]]
    BY <2>1, <2>5
  <2>6. Solves(h, A, a, m, g)
    BY <2>3, <2>4, <2>5 DEF Solves
  <2> HIDE DEF h
  <2> QED BY <2>6
<1>3. n \in P
  <2>1. \A k \in 0 .. n : k \in P
    <3> HIDE DEF P
    <3> QED BY <1>1, <1>2, UpTo
  <2> QED BY <2>1
<1> QED BY <1>3

\* Two recursions that start alike and step alike are alike.
LEMMA Alike ==
    ASSUME NEW n \in Nat, NEW f, NEW h, f[0] = h[0],
           \A k \in 1 .. n : f[k - 1] = h[k - 1] => f[k] = h[k]
    PROVE  \A k \in 0 .. n : f[k] = h[k]
<1> DEFINE P == { k \in 0 .. n : f[k] = h[k] }
<1>1. 0 \in P /\ \A k \in 1 .. n : k - 1 \in P => k \in P
  OBVIOUS
<1>2. \A k \in 0 .. n : k \in P
  <2> HIDE DEF P
  <2> QED BY <1>1, UpTo
<1> QED BY <1>2

\* A number is its quotient times the divisor plus its remainder.
LEMMA DivMod ==
    ASSUME NEW a \in Int, NEW m \in Nat \ {0}
    PROVE  a \div m \in Int /\ a % m \in 0 .. m - 1 /\ a = m * (a \div m) + (a % m)
OBVIOUS

\* A multiple of m between -m and m is zero.
LEMMA MulZero ==
    ASSUME NEW m \in Nat \ {0}, NEW k \in Int, m * k < m, m * k > -m
    PROVE  k = 0
OBVIOUS

\* A number written as a multiple plus r in range has the remainder r.
LEMMA ModIs ==
    ASSUME NEW a \in Int, NEW m \in Nat \ {0}, NEW q \in Int, NEW r \in 0 .. m - 1, a = m * q + r
    PROVE  a % m = r
<1> DEFINE d == a \div m
<1>1. d \in Int /\ a % m \in 0 .. m - 1 /\ a = m * d + (a % m)
  BY DivMod
<1> HIDE DEF d
<1>2. m * (d - q) = r - (a % m)
  BY <1>1
<1>3. d - q = 0
  BY <1>1, <1>2, MulZero
<1> QED BY <1>1, <1>3

\* Numbers less than m apart with the same remainder are equal.
LEMMA ModUnique ==
    ASSUME NEW a \in Int, NEW b \in Int, NEW m \in Nat \ {0},
           a - b < m, b - a < m, a % m = b % m
    PROVE  a = b
<1> DEFINE p == a \div m
           q == b \div m
<1>1. p \in Int /\ a = m * p + (a % m) /\ q \in Int /\ b = m * q + (b % m)
  BY DivMod
<1>2. a % m \in Int
  BY DivMod
<1> HIDE DEF p, q
<1>3. a - b = m * (p - q)
  BY <1>1, <1>2
<1>4. p - q = 0
  BY <1>1, <1>3, MulZero
<1> QED BY <1>1, <1>4

\* A wrapped number can be counted on from as the number itself.
LEMMA ModPlus ==
    ASSUME NEW a \in Int, NEW i \in Int, NEW m \in Nat \ {0}
    PROVE  ((a % m) + i) % m = (a + i) % m
<1> DEFINE p == a \div m
           r == a % m
           q == (r + i) \div m
           s == (r + i) % m
<1>1. p \in Int /\ r \in Int /\ a = m * p + r
  BY DivMod
<1>2. q \in Int /\ s \in 0 .. m - 1 /\ r + i = m * q + s
  BY <1>1, DivMod
<1> HIDE DEF p, q, r, s
<1>3. a + i = m * (p + q) + s
  BY <1>1, <1>2
<1>4. (a + i) % m = s
  <2>1. a + i \in Int /\ p + q \in Int
    BY <1>1, <1>2
  <2> QED BY <1>2, <1>3, <2>1, ModIs
<1> QED BY <1>4 DEF s, r

\* A remainder modulo a multiple of h keeps the remainder modulo h.
LEMMA ModMod ==
    ASSUME NEW a \in Int, NEW m \in Nat \ {0}, NEW h \in Nat \ {0}, m % h = 0
    PROVE  (a % m) % h = a % h
<1> DEFINE p == a \div m
           r == a % m
           k == m \div h
           q == r \div h
           s == r % h
<1>1. p \in Int /\ r \in Int /\ a = m * p + r
  BY DivMod
<1>2. k \in Int /\ m = h * k
  BY DivMod
<1>3. q \in Int /\ s \in 0 .. h - 1 /\ r = h * q + s
  BY <1>1, DivMod
<1> HIDE DEF p, r, k, q, s
<1>4. a = (h * k) * p + (h * q + s)
  BY <1>1, <1>2, <1>3
<1>5. a = h * (k * p + q) + s
  BY <1>1, <1>2, <1>3, <1>4
<1>6. a % h = s
  BY <1>1, <1>2, <1>3, <1>5, ModIs
<1> QED BY <1>6 DEF s, r
=============================================================================
