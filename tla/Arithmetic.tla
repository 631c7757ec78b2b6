----------------------------- MODULE Arithmetic -----------------------------
(***************************************************************************)
(* Facts about the natural numbers that the proofs of the other modules    *)
(* rest on.  Induction and recursion are stated with sets and functions    *)
(* where the library's theorems take operators: a set of numbers that has  *)
(* 0 and, with every number, the next one, is all of them.                 *)
(***************************************************************************)
EXTENDS Integers, WellFoundedInduction, TLAPS

LEMMA LeastNat ==
  ASSUME NEW T \in SUBSET Nat, T # {}
  PROVE  \E x \in T : \A y \in T : x <= y
<1>1. PICK x \in T : \A y \in T : ~(<<y, x>> \in OpToRel(<, Nat))
  BY NatLessThanWellFounded, WFMin
<1>2. \A y \in T : ~(y < x)
  BY <1>1 DEF OpToRel
<1> QED
  BY <1>2

LEMMA SetInduction ==
  ASSUME NEW S \in SUBSET Nat, 0 \in S, \A n \in S : n + 1 \in S
  PROVE  S = Nat
<1> SUFFICES ASSUME Nat \ S # {} PROVE FALSE
  OBVIOUS
<1>1. PICK x \in Nat \ S : \A y \in Nat \ S : x <= y
  BY LeastNat
<1>2. x # 0
  OBVIOUS
<1>3. x - 1 \in Nat /\ ~(x <= x - 1)
  BY <1>2
<1>4. x - 1 \in S
  BY <1>1, <1>3
<1>5. (x - 1) + 1 \in S /\ (x - 1) + 1 = x
  BY <1>3, <1>4
<1> QED
  BY <1>5

\* The same up to a bound.
LEMMA InductionTo ==
  ASSUME NEW n \in Nat, NEW S, 0 \in S, \A k \in 1..n : k - 1 \in S => k \in S
  PROVE  \A k \in 0..n : k \in S
<1> DEFINE T == {k \in Nat : k <= n => k \in S}
<1>1. T \in SUBSET Nat
  OBVIOUS
<1>2. 0 \in T
  OBVIOUS
<1>3. ASSUME NEW k \in T PROVE k + 1 \in T
  <2>1. k \in Nat /\ k + 1 \in Nat /\ (k + 1) - 1 = k /\ (k <= n => k \in S)
    OBVIOUS
  <2>2. ASSUME k + 1 <= n PROVE k + 1 \in S
    <3>1. k + 1 \in 1..n /\ k \in S
      BY <2>1, <2>2
    <3> QED
      BY <2>1, <3>1
  <2> QED
    BY <2>1, <2>2
<1> HIDE DEF T
<1>4. T = Nat
  BY <1>1, <1>2, <1>3, SetInduction
<1>5. \A k \in Nat : k <= n => k \in S
  BY <1>4 DEF T
<1> QED
  BY <1>5

\* Functions that agree at 0, and at k if they agree at k - 1, agree.
Alike(n, f, g) == /\ f[0] = g[0]
                  /\ \A k \in 1..n : f[k - 1] = g[k - 1] => f[k] = g[k]

LEMMA SameRun ==
  ASSUME NEW n \in Nat, NEW f, NEW g, Alike(n, f, g)
  PROVE  \A k \in 0..n : f[k] = g[k]
<1> USE DEF Alike
<1> DEFINE S == {k \in 0..n : f[k] = g[k]}
<1>1. 0 \in S
  OBVIOUS
<1>2. \A k \in 1..n : k - 1 \in S => k \in S
  OBVIOUS
<1> HIDE DEF S
<1>3. \A k \in 0..n : k \in S
  BY <1>1, <1>2, InductionTo
<1> QED
  BY <1>3 DEF S

\* g is the function defined by recursion up to n, from a by the steps of F.
Runs(n, a, F, g) == g = [k \in 0..n |-> IF k = 0 THEN a ELSE F[k][g[k - 1]]]

\* The steps of F, and the values of g, are of the types T.
StepsTyped(n, T, F) == \A k \in 1..n : \A v \in T[k - 1] : F[k][v] \in T[k]
ValuesTyped(n, T, g) == \A k \in 0..n : g[k] \in T[k]

\* Such a function exists, and has values of the types its steps have.
LEMMA Recursion ==
  ASSUME NEW n \in Nat, NEW T, NEW a \in T[0], NEW F, StepsTyped(n, T, F)
  PROVE  \E g : Runs(n, a, F, g) /\ ValuesTyped(n, T, g)
<1> USE DEF Runs, StepsTyped, ValuesTyped
<1> DEFINE Good(m, g) == /\ g = [k \in 0..m |-> IF k = 0 THEN a ELSE F[k][g[k - 1]]]
                         /\ \A k \in 0..m : g[k] \in T[k]
           S == {m \in Nat : m <= n => \E g : Good(m, g)}
<1>1. 0 \in S
  <2> DEFINE g == [k \in 0..0 |-> a]
  <2>1. \A k \in 0..0 : k = 0
    OBVIOUS
  <2>2. Good(0, g)
    BY <2>1
  <2> QED
    BY <2>2
<1>2. ASSUME NEW m \in S PROVE m + 1 \in S
  <2> HIDE DEF Good
  <2>0. m \in Nat /\ (m <= n => \E g : Good(m, g))
    OBVIOUS
  <2> SUFFICES ASSUME m + 1 <= n PROVE \E g : Good(m + 1, g)
    BY <2>0
  <2>1. PICK g : Good(m, g)
    BY <2>0
  <2> USE DEF Good
  <2> DEFINE h == [k \in 0..m + 1 |-> IF k = m + 1 THEN F[m + 1][g[m]] ELSE g[k]]
  <2>2. /\ m + 1 \in 1..n /\ m \in 0..m /\ (m + 1) - 1 = m
        /\ \A k \in 0..m + 1 : k = m + 1 \/ k \in 0..m
        /\ \A k \in 0..m : k # m + 1 /\ k \in 0..m + 1
        /\ \A k \in 0..m + 1 : k # 0 => k - 1 \in 0..m
    OBVIOUS
  <2>3. F[m + 1][g[m]] \in T[m + 1]
    BY <2>1, <2>2
  <2>4. \A k \in 0..m + 1 : h[k] = IF k = 0 THEN a ELSE F[k][h[k - 1]]
    <3> SUFFICES ASSUME NEW k \in 0..m + 1
                 PROVE  h[k] = IF k = 0 THEN a ELSE F[k][h[k - 1]]
      OBVIOUS
    <3>1. CASE k = m + 1
      <4>1. h[k] = F[m + 1][g[m]] /\ h[k - 1] = g[m] /\ k # 0
        BY <2>2, <3>1
      <4> QED
        BY <3>1, <4>1
    <3>2. CASE k # m + 1
      <4>1. k \in 0..m /\ h[k] = g[k] /\ (k # 0 => h[k - 1] = g[k - 1])
        BY <2>2, <3>2
      <4>2. g[k] = IF k = 0 THEN a ELSE F[k][g[k - 1]]
        BY <2>1, <4>1
      <4> QED
        BY <4>1, <4>2
    <3> QED
      BY <3>1, <3>2
  <2>5. \A k \in 0..m + 1 : h[k] \in T[k]
    BY <2>1, <2>2, <2>3
  <2>6. h = [k \in 0..m + 1 |-> IF k = 0 THEN a ELSE F[k][h[k - 1]]]
    <3>1. h = [k \in 0..m + 1 |-> h[k]]
      OBVIOUS
    <3> HIDE DEF h
    <3> QED
      BY <2>4, <3>1
  <2> QED
    BY <2>5, <2>6
<1>3. S = Nat
  <2>1. S \in SUBSET Nat
    OBVIOUS
  <2> HIDE DEF S
  <2> QED
    BY <1>1, <1>2, <2>1, SetInduction
<1>4. n \in S
  BY <1>3
<1> QED
  BY <1>4

\* The same where every value is of one type.
RunsIn(n, S, a, F, g) == /\ g \in [0..n -> S] /\ g[0] = a
                         /\ \A k \in 1..n : g[k] = F[k][g[k - 1]]

LEMMA RecursionIn ==
  ASSUME NEW n \in Nat, NEW S, NEW a \in S, NEW F,
         \A k \in 1..n : \A x \in S : F[k][x] \in S
  PROVE  \E g : RunsIn(n, S, a, F, g)
<1> DEFINE T == [k \in 0..n |-> S]
<1>1. a \in T[0] /\ \A k \in 1..n : \A v \in T[k - 1] : F[k][v] \in T[k]
  <2>1. 0 \in 0..n /\ \A k \in 1..n : k \in 0..n /\ k - 1 \in 0..n
    OBVIOUS
  <2> QED
    BY <2>1
<1>2. StepsTyped(n, T, F)
  BY <1>1 DEF StepsTyped
<1> HIDE DEF T
<1>3. PICK g : Runs(n, a, F, g) /\ ValuesTyped(n, T, g)
  BY <1>1, <1>2, Recursion
<1>4. g \in [0..n -> S]
  BY <1>3 DEF T, Runs, ValuesTyped
<1>5. g[0] = a /\ \A k \in 1..n : g[k] = F[k][g[k - 1]]
  BY <1>3 DEF Runs
<1> QED
  BY <1>4, <1>5 DEF RunsIn

\* A quotient and a remainder are those of the division, and there are no others.
LEMMA Division ==
  ASSUME NEW n \in Nat, NEW a \in Nat \ {0}
  PROVE  /\ n \div a \in Nat /\ n % a \in 0..a - 1
         /\ n = a * (n \div a) + (n % a)
         /\ \A q \in Nat : \A r \in 0..a - 1 :
              n = a * q + r => n \div a = q /\ n % a = r
<1>1. n \div a \in Nat /\ n % a \in 0..a - 1
  OBVIOUS
<1>2. n = a * (n \div a) + (n % a)
  OBVIOUS
<1>3. ASSUME NEW q \in Nat, NEW r \in 0..a - 1, n = a * q + r
      PROVE  n \div a = q /\ n % a = r
  BY <1>3
<1> QED
  BY <1>1, <1>2, <1>3

\* The quotient of a number is at least that of what is below it.
LEMMA QuotientAtLeast ==
  ASSUME NEW a \in Nat \ {0}, NEW q \in Nat, NEW m \in Nat, a * q <= m
  PROVE  q <= m \div a
<1> DEFINE u == m \div a
           r == m % a
<1>1. u \in Nat /\ r \in 0..a - 1 /\ m = a * u + r
  BY Division
<1> HIDE DEF u, r
<1> SUFFICES ASSUME u + 1 <= q PROVE FALSE
  BY <1>1 DEF u
<1>2. PICK t \in Nat : q = (u + 1) + t
  <2>1. q - (u + 1) \in Nat /\ q = (u + 1) + (q - (u + 1))
    BY <1>1
  <2> QED
    BY <2>1
<1>3. a * q = a * u + a + a * t
  BY <1>1, <1>2
<1>4. a * u \in Nat /\ a * t \in Nat
  BY <1>1, <1>2
<1>5. a * q >= a * u + a
  BY <1>3, <1>4
<1> DEFINE x == a * q
           y == a * u
<1>6. x <= m /\ x >= y + a /\ m = y + r /\ y \in Nat /\ x \in Int
  BY <1>1, <1>4, <1>5
<1> HIDE DEF x, y
<1> QED
  BY <1>1, <1>6

\* Adding whole turns does not change a remainder.
LEMMA WholeTurns ==
  ASSUME NEW r \in Nat, NEW t \in Nat, NEW a \in Nat \ {0}
  PROVE  (r + a * t) % a = r % a
<1>1. r \div a \in Nat /\ r % a \in 0..a - 1 /\ r = a * (r \div a) + (r % a)
  BY Division
<1> DEFINE q == r \div a
           s == r % a
<1>2. q \in Nat /\ s \in 0..a - 1 /\ r = a * q + s
  BY <1>1
<1> HIDE DEF q, s
<1>3. a * (q + t) = a * q + a * t /\ a * t \in Nat /\ a * q \in Nat
  BY <1>2
<1>4. r + a * t = a * (q + t) + s /\ q + t \in Nat /\ r + a * t \in Nat
  BY <1>2, <1>3
<1>5. (r + a * t) % a = s
  BY <1>2, <1>4, Division
<1> QED
  BY <1>5 DEF s
=============================================================================
