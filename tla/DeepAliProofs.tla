---------------------------- MODULE DeepAliProofs ----------------------------
(***************************************************************************)
(* Proofs about the DEEP-ALI part and the arithmetic under it, for every   *)
(* base field and native field of the sizes FieldAssumption and            *)
(* PackAssumption ask for, BabyBear inside BLS12-381 among them, and for   *)
(* every table.                                                            *)
(*                                                                         *)
(* First the field: the range checks leave one decomposition, the hash of  *)
(* a slice determines the slice, the extension of degree 4 is a            *)
(* commutative ring, and the hint for an inverse is the only one and finds *)
(* one wherever there is one.  Then where the circuit takes a number from  *)
(* the prover and means it to be the only one possible - the challenges,   *)
(* the words of the seal and their digest -, the step program, and the     *)
(* equation a run that goes on has checked.  Last, that every number       *)
(* computed with on the way, to the words of the FRI rounds, is reduced.   *)
(***************************************************************************)
EXTENDS DeepAli, Arithmetic, SequenceTheorems, TLAPS

-----------------------------------------------------------------------------
(* Division *)

\* Multiples of p keep their order (the range checks of sponge.go:97-99 compare them).
LEMMA Multiples ==
  ASSUME NEW a \in Int, NEW b \in Int, a <= b
  PROVE  a * P <= b * P
<1>1. P \in Nat
  BY FieldAssumption
<1>2. (b - a) * P >= 0
  BY <1>1, SMT
<1>3. b * P = a * P + (b - a) * P
  BY <1>1, SMT
<1>4. a * P \in Int /\ b * P \in Int /\ (b - a) * P \in Int
  BY <1>1, SMT
<1> QED
  BY <1>2, <1>3, <1>4, SMT

\* A quotient and a remainder below p are those of the division (sponge.go:94).
LEMMA QuotientUnique ==
  ASSUME NEW q \in Nat, NEW r \in 0..P - 1, NEW n \in Nat, q * P + r = n
  PROVE  r = n % P
<1>1. P \in Nat /\ P > 0
  BY FieldAssumption
<1>2. PICK k \in Int : n = k * P + (n % P) /\ n % P \in 0..P - 1
  <2>1. n \in Nat
    BY <1>1, SMT
  <2>2. n \div P \in Int /\ n = (n \div P) * P + (n % P) /\ n % P \in 0..P - 1
    BY <1>1, <2>1, SMT
  <2> QED
    BY <2>2
<1>3. CASE q = k
  BY <1>1, <1>2, <1>3, SMT
<1>4. CASE q < k
  <2>1. (q + 1) * P <= k * P
    BY <1>4, Multiples, q + 1 <= k, q + 1 \in Int
  <2> QED
    BY <1>1, <1>2, <2>1, SMT
<1>5. CASE k < q
  <2>1. (k + 1) * P <= q * P
    BY <1>5, Multiples, k + 1 <= q, k + 1 \in Int
  <2> QED
    BY <1>1, <1>2, <2>1, SMT
<1> QED
  BY <1>2, <1>3, <1>4, <1>5, SMT

\* Below the native modulus nothing wraps (sponge.go:94 holds in the native field).
LEMMA NoWrap ==
  ASSUME NEW n \in 0..(MaxQuotient + 1) * P - 1
  PROVE  n \in Nat /\ n % Native = n
<1>1. /\ Native \in Nat /\ Native > 0 /\ (MaxQuotient + 1) * P \in Nat
      /\ (MaxQuotient + 1) * P <= Native
  <2>1. P \in Nat /\ Cap \in Nat /\ MaxQuotient \in Nat /\ Native \in Nat /\ 1 < P /\ P <= Cap
        /\ Cap + Cap <= Native /\ (MaxQuotient + 1) * P <= Native
    BY FieldAssumption
  <2>2. (MaxQuotient + 1) * P \in Nat
    BY <2>1, SMT
  <2> QED
    BY <2>1, <2>2, SMT
<1> DEFINE m == (MaxQuotient + 1) * P
<1>2. m \in Nat /\ m <= Native /\ n \in 0..m - 1
  BY <1>1
<1> HIDE DEF m
<1>3. n \in Nat /\ n < Native
  BY <1>1, <1>2, SMT
<1> QED
  BY <1>1, <1>3, SMT

\* The circuit accepts one remainder for a squeezed sum, whatever the hint returns
\* (sponge.go:76-100).
LEMMA RandomElemUnique ==
  ASSUME NEW sum \in 0..(MaxQuotient + 1) * P - 1
  PROVE  RandomElem(sum) = {sum % P}
<1>1. P \in Nat /\ P > 0 /\ MaxQuotient \in Nat
  BY FieldAssumption
<1>2. sum \in Nat /\ sum % Native = sum
  BY NoWrap
<1>3. ASSUME NEW q \in 0..MaxQuotient, NEW r \in 0..P - 1
      PROVE  q * P + r \in 0..(MaxQuotient + 1) * P - 1
  <2>1. (q + 1) * P <= (MaxQuotient + 1) * P
    BY <1>1, Multiples, q + 1 \in Int, MaxQuotient + 1 \in Int, q + 1 <= MaxQuotient + 1
  <2>2. q * P \in Nat /\ (q + 1) * P = q * P + P
    BY <1>1, SMT
  <2>3. (MaxQuotient + 1) * P \in Nat
    BY <1>1, SMT
  <2> DEFINE m == (MaxQuotient + 1) * P
             k == q * P
  <2>4. m \in Nat /\ k \in Nat /\ k + P <= m
    BY <2>1, <2>2, <2>3
  <2> HIDE DEF m, k
  <2>5. k + r \in 0..m - 1
    BY <1>1, <2>4, SMT
  <2> QED
    BY <2>5 DEF m, k
<1>4. ASSUME NEW r \in RandomElem(sum)
      PROVE  r = sum % P
  <2>1. r \in 0..P - 1 /\ \E q \in 0..MaxQuotient : (q * P + r) % Native = sum % Native
    BY DEF RandomElem
  <2>2. PICK q \in 0..MaxQuotient : (q * P + r) % Native = sum % Native
    BY <2>1
  <2>3. (q * P + r) % Native = q * P + r
    BY <1>3, <2>1, NoWrap
  <2>4. q * P + r = sum
    BY <1>2, <2>2, <2>3
  <2> QED
    BY <1>2, <2>1, <2>4, QuotientUnique, q \in Nat
<1>5. sum % P \in RandomElem(sum)
  <2> DEFINE q == sum \div P
             r == sum % P
  <2>1. q \in Int /\ r \in 0..P - 1 /\ sum = q * P + r
    BY <1>1, <1>2, SMT
  <2>2. q >= 0
    BY <1>1, <1>2, SMT
  <2> HIDE DEF q, r
  <2>3. q <= MaxQuotient
    <3>1. SUFFICES ASSUME q >= MaxQuotient + 1
                   PROVE  FALSE
      BY <1>1, <2>1, SMT
    <3>2. (MaxQuotient + 1) * P <= q * P
      BY <1>1, <2>1, <3>1, Multiples, MaxQuotient + 1 \in Int
    <3>3. (MaxQuotient + 1) * P \in Int /\ q * P \in Int
      BY <1>1, <2>1, SMT
    <3> QED
      BY <2>1, <3>2, <3>3, SMT
  <2>4. q \in 0..MaxQuotient
    BY <1>1, <2>1, <2>2, <2>3, SMT
  <2>5. (q * P + r) % Native = sum % Native
    BY <2>1
  <2>6. r \in RandomElem(sum)
    BY <2>1, <2>4, <2>5 DEF RandomElem
  <2> QED
    BY <2>6 DEF r
<1> QED
  BY <1>4, <1>5

\* Two decompositions make a word canonical (babybear.go:213-217, 233-235).
LEMMA CanonicalMeans ==
  ASSUME NEW v, AssertCanonical(v)
  PROVE  v \in Base
<1>1. /\ P \in Nat /\ Cap \in Nat /\ Native \in Nat
      /\ 1 < P /\ P <= Cap /\ Cap + Cap <= Native
  BY FieldAssumption
<1>2. v \in 0..Cap - 1 /\ (P - 1 - v) % Native \in 0..Cap - 1
  BY DEF AssertCanonical, FitsBits, NativeSub
<1>3. SUFFICES ASSUME v >= P
               PROVE  FALSE
  BY <1>1, <1>2, SMT DEF Base
<1>4. (P - 1 - v) % Native = Native + (P - 1 - v)
  <2> DEFINE d == Native + (P - 1 - v)
  <2>1. d \in 0..Native - 1 /\ P - 1 - v = d - Native
    BY <1>1, <1>2, <1>3, SMT
  <2> HIDE DEF d
  <2>2. (d - Native) % Native = d
    BY <1>1, <2>1, SMT
  <2> QED
    BY <2>1, <2>2 DEF d
<1>5. Native + (P - 1 - v) > Cap - 1
  BY <1>1, <1>2, SMT
<1> QED
  BY <1>1, <1>2, <1>4, <1>5, SMT

-----------------------------------------------------------------------------
(* The hash of a slice *)

\* The k-th element that is added to a cell, from the last one to the first (sponge.go:134-141).
Digit(v, c, k) ==
  LET i == PerCell * c - k + 1 IN IF i \in DOMAIN v THEN v[i] ELSE 0

\* The sizes that the hash is made of are not zero.
LEMMA Sizes ==
  /\ P \in Nat \ {0} /\ Native \in Nat \ {0} /\ PerCell \in Nat \ {0}
  /\ \A k \in 1..PerCell : k - 1 \in 0..PerCell /\ k \in 0..PerCell
BY FieldAssumption, PackAssumption

\* The powers of p up to the size of a cell do not exceed the native modulus (sponge.go:129).
LEMMA SpanFits ==
  \E span \in [0..PerCell -> Nat \ {0}] :
    /\ span[0] = 1 /\ \A k \in 1..PerCell : span[k] = span[k - 1] * P
    /\ \A k \in 0..PerCell : span[k] <= Native
<1>1. \A x \in Nat \ {0} : x * P \in Nat \ {0} /\ x <= x * P
  BY Sizes
<1> DEFINE N == PerCell
           S == Nat \ {0}
           F == [k \in 1..N |-> [x \in S |-> x * P]]
           Spans(z) == z = [i \in 0..N |-> IF i = 0 THEN 1 ELSE z[i - 1] * P]
           span == CHOOSE z : Spans(z)
<1>2. span[PerCell] <= Native
  BY PackAssumption
<1>0. N \in Nat
  BY Sizes
<1>3. N \in Nat /\ 1 \in S /\ \A k \in 1..N : \A x \in S : F[k][x] \in S
  BY <1>1, Sizes
<1>4. \A k \in 1..N : \A x \in S : F[k][x] = x * P
  OBVIOUS
<1>5. \A k \in 1..N : k - 1 \in 0..N /\ k \in 0..N
  BY Sizes
<1> HIDE DEF N, F, S, span
<1>6. PICK g \in [0..N -> S] : g[0] = 1 /\ \A k \in 1..N : g[k] = F[k][g[k - 1]]
  <2>1. \E g : RunsIn(N, S, 1, F, g)
    BY <1>3, RecursionIn
  <2> QED
    BY <2>1 DEF RunsIn
<1>7. \A k \in 1..N : g[k] = g[k - 1] * P
  BY <1>4, <1>5, <1>6
<1>8. Spans(g)
  <2>1. \A k \in 0..N : k = 0 \/ k \in 1..N
    BY <1>3
  <2> QED
    BY <1>6, <1>7, <2>1
<1>9. Spans(span)
  <2> HIDE DEF Spans
  <2> QED
    BY <1>8 DEF span
<1>10. span[0] = 1 /\ \A k \in 1..N : span[k] = span[k - 1] * P
  <2>1. span = [i \in 0..N |-> IF i = 0 THEN 1 ELSE span[i - 1] * P]
    BY <1>9 DEF Spans
  <2>2. 0 \in 0..N /\ \A k \in 1..N : k \in 0..N /\ k # 0
    BY <1>3
  <2> QED
    BY <2>1, <2>2
<1>11. \A k \in 0..N : span[k] = g[k]
  <2>1. span[0] = g[0] /\ \A k \in 1..N : span[k - 1] = g[k - 1] => span[k] = g[k]
    BY <1>6, <1>7, <1>10
  <2>2. Alike(N, span, g)
    BY <2>1 DEF Alike
  <2> QED
    BY <1>0, <2>2, SameRun, Zenon
<1>12. g[N] <= Native
  <2>1. N \in 0..N
    BY <1>3
  <2> QED
    BY <1>2, <1>11, <2>1 DEF N
<1>13. \A k \in 1..N : g[k] \in Nat /\ g[k - 1] \in Nat /\ g[k - 1] <= g[k]
  BY <1>1, <1>5, <1>6, <1>7 DEF S
<1>14. \A k \in 0..N : g[k] <= Native
  <2> DEFINE R == {n \in 0..N : g[N - n] <= Native}
  <2>1. 0 \in R
    BY <1>3, <1>12
  <2>2. ASSUME NEW n \in 1..N, n - 1 \in R
        PROVE  n \in R
    <3>1. N - (n - 1) \in 1..N /\ (N - (n - 1)) - 1 = N - n /\ n \in 0..N
      BY <1>3
    <3>2. g[N - (n - 1)] <= Native
      BY <2>2
    <3>3. g[N - n] <= g[N - (n - 1)] /\ g[N - n] \in Nat /\ g[N - (n - 1)] \in Nat
      BY <1>13, <3>1
    <3>4. g[N - n] <= Native
      BY <3>2, <3>3, Sizes
    <3> QED
      BY <3>1, <3>4
  <2> HIDE DEF R
  <2>3. \A n \in 0..N : n \in R
    BY <1>3, <2>1, <2>2, InductionTo
  <2>4. \A k \in 0..N : N - k \in 0..N /\ N - (N - k) = k
    BY <1>3
  <2>5. \A n \in 0..N : g[N - n] <= Native
    BY <2>3 DEF R
  <2> QED
    BY <2>4, <2>5
<1> QED
  BY <1>6, <1>7, <1>14 DEF N, S

\* A cell is the number whose digits in base p are its elements: it never wraps around the
\* native modulus.
LEMMA CellIsNumber ==
  ASSUME NEW v, NEW c \in Nat, \A k \in 1..PerCell : Digit(v, c, k) \in Base
  PROVE  \E s \in [0..PerCell -> Nat] :
           /\ s[0] = 0 /\ Cell(v, c) = s[PerCell]
           /\ \A k \in 1..PerCell : s[k] = s[k - 1] * P + Digit(v, c, k)
<1> DEFINE N == PerCell
           F == [k \in 1..N |-> [x \in Nat |-> x * P + Digit(v, c, k)]]
           Sum(z) == z = [k \in 0..N |->
                            IF k = 0 THEN 0
                            ELSE LET i == PerCell * c - k + 1
                                 IN  (z[k - 1] * P + (IF i \in DOMAIN v THEN v[i] ELSE 0)) % Native]
           sum == CHOOSE z : Sum(z)
<1>1. \A k \in 1..N : Digit(v, c, k) \in Nat /\ Digit(v, c, k) <= P - 1
  BY Sizes DEF Base
<1>0. N \in Nat
  BY Sizes
<1>2. N \in Nat /\ 0 \in Nat /\ \A k \in 1..N : \A x \in Nat : F[k][x] \in Nat
  <2>1. ASSUME NEW k \in 1..N, NEW x \in Nat PROVE x * P + Digit(v, c, k) \in Nat
    BY <1>1, Sizes
  <2> QED
    BY <2>1, Sizes
<1>3. \A k \in 1..N : \A x \in Nat : F[k][x] = x * P + Digit(v, c, k)
  OBVIOUS
<1>4. \A k \in 1..N : k - 1 \in 0..N /\ k \in 0..N
  BY Sizes
<1>5. PICK span \in [0..N -> Nat \ {0}] :
        /\ span[0] = 1 /\ \A k \in 1..N : span[k] = span[k - 1] * P
        /\ \A k \in 0..N : span[k] <= Native
  BY SpanFits
<1>6. Cell(v, c) = sum[N]
  BY DEF Cell
<1>7. \A z : Sum(z) <=> z = [k \in 0..N |->
                IF k = 0 THEN 0 ELSE (z[k - 1] * P + Digit(v, c, k)) % Native]
  BY DEF Digit
<1> HIDE DEF N, F, Sum, sum
<1>8. PICK s \in [0..N -> Nat] : s[0] = 0 /\ \A k \in 1..N : s[k] = F[k][s[k - 1]]
  <2>1. \E s : RunsIn(N, Nat, 0, F, s)
    BY <1>2, RecursionIn
  <2> QED
    BY <2>1 DEF RunsIn
<1>9. \A k \in 1..N : s[k] = s[k - 1] * P + Digit(v, c, k)
  BY <1>3, <1>4, <1>8
<1>10. \A k \in 0..N : s[k] < span[k]
  <2> DEFINE S == {k \in 0..N : s[k] < span[k]}
  <2>1. 0 \in S
    BY <1>2, <1>5, <1>8
  <2>2. ASSUME NEW k \in 1..N, k - 1 \in S
        PROVE  k \in S
    <3> DEFINE d == Digit(v, c, k)
               x == s[k - 1]
               y == span[k - 1]
    <3>1. x \in Nat /\ y \in Nat /\ x <= y - 1
      BY <1>4, <1>5, <1>8, <2>2
    <3>2. d \in Nat /\ d <= P - 1 /\ s[k] = x * P + d /\ span[k] = y * P
      BY <1>1, <1>5, <1>9
    <3> HIDE DEF d, x, y
    <3>3. x * P <= (y - 1) * P
      BY <3>1, Multiples
    <3>4. (y - 1) * P = y * P - P /\ x * P \in Nat /\ y * P \in Nat
      BY <3>1, Sizes
    <3>5. s[k] < span[k]
      BY <3>2, <3>3, <3>4, Sizes
    <3> QED
      BY <1>4, <3>5
  <2> HIDE DEF S
  <2>3. \A k \in 0..N : k \in S
    BY <1>2, <2>1, <2>2, InductionTo
  <2> QED
    BY <2>3 DEF S
<1>11. \A k \in 1..N : (s[k - 1] * P + Digit(v, c, k)) % Native = s[k]
  <2> SUFFICES ASSUME NEW k \in 1..N
               PROVE  (s[k - 1] * P + Digit(v, c, k)) % Native = s[k]
    OBVIOUS
  <2>1. s[k] \in Nat /\ s[k] < span[k] /\ span[k] \in Nat /\ span[k] <= Native
    BY <1>4, <1>5, <1>8, <1>10
  <2>2. \A x \in Nat : x < Native => x % Native = x
    BY Sizes
  <2>3. s[k] % Native = s[k]
    BY <2>1, <2>2, Sizes
  <2> QED
    BY <1>9, <2>3
<1>12. Sum(s)
  <2>1. \A k \in 0..N : k = 0 \/ k \in 1..N
    BY <1>2
  <2>2. s = [k \in 0..N |-> IF k = 0 THEN 0 ELSE (s[k - 1] * P + Digit(v, c, k)) % Native]
    BY <1>8, <1>11, <2>1
  <2> QED
    BY <1>7, <2>2
<1>13. Sum(sum)
  BY <1>12 DEF sum
<1>14. sum[0] = 0 /\ \A k \in 1..N : sum[k] = (sum[k - 1] * P + Digit(v, c, k)) % Native
  <2>1. sum = [k \in 0..N |->
                 IF k = 0 THEN 0 ELSE (sum[k - 1] * P + Digit(v, c, k)) % Native]
    BY <1>7, <1>13
  <2>2. 0 \in 0..N /\ \A k \in 1..N : k \in 0..N /\ k # 0
    BY <1>2
  <2> QED
    BY <2>1, <2>2
<1>15. \A k \in 0..N : sum[k] = s[k]
  <2>1. sum[0] = s[0] /\ \A k \in 1..N : sum[k - 1] = s[k - 1] => sum[k] = s[k]
    BY <1>8, <1>11, <1>14
  <2>2. Alike(N, sum, s)
    BY <2>1 DEF Alike
  <2> QED
    BY <1>0, <2>2, SameRun, Zenon
<1>16. sum[N] = s[N]
  BY <1>2, <1>15
<1> QED
  BY <1>6, <1>8, <1>9, <1>16 DEF N

\* Cells that are equal hold the same elements (sponge.go:134-141).
LEMMA SameCell ==
  ASSUME NEW v, NEW w, NEW c \in Nat, Cell(v, c) = Cell(w, c),
         \A k \in 1..PerCell : Digit(v, c, k) \in Base,
         \A k \in 1..PerCell : Digit(w, c, k) \in Base
  PROVE  \A k \in 1..PerCell : Digit(v, c, k) = Digit(w, c, k)
<1> DEFINE N == PerCell
<1>1. PICK s \in [0..N -> Nat] :
        /\ s[0] = 0 /\ Cell(v, c) = s[N]
        /\ \A k \in 1..N : s[k] = s[k - 1] * P + Digit(v, c, k)
  BY CellIsNumber
<1>2. PICK t \in [0..N -> Nat] :
        /\ t[0] = 0 /\ Cell(w, c) = t[N]
        /\ \A k \in 1..N : t[k] = t[k - 1] * P + Digit(w, c, k)
  BY CellIsNumber
<1>3. N \in Nat \ {0} /\ \A k \in 1..N : k - 1 \in 0..N /\ k \in 0..N
  BY Sizes
<1>4. ASSUME NEW k \in 1..N, s[k] = t[k]
      PROVE  s[k - 1] = t[k - 1] /\ Digit(v, c, k) = Digit(w, c, k)
  <2> DEFINE x == s[k - 1]
             y == t[k - 1]
             d == Digit(v, c, k)
             e == Digit(w, c, k)
             z == s[k]
  <2>1. x \in Nat /\ y \in Nat /\ d \in 0..P - 1 /\ e \in 0..P - 1 /\ z \in Nat
    BY <1>1, <1>2, <1>3 DEF Base
  <2>2. z = x * P + d /\ z = y * P + e
    BY <1>1, <1>2, <1>4
  <2> HIDE DEF x, y, d, e, z
  <2>3. z = P * x + d /\ z = P * y + e /\ P \in Nat \ {0}
    BY <2>1, <2>2, Sizes DEF Base
  <2> DEFINE Is(q, r) == z \div P = q /\ z % P = r
  <2>0. \A q \in Nat : \A r \in 0..P - 1 : z = P * q + r => Is(q, r)
    BY <2>1, <2>3, Division
  <2> HIDE DEF Is
  <2>4. Is(x, d) /\ Is(y, e)
    BY <2>0, <2>1, <2>3
  <2>5. x = y /\ d = e
    BY <2>4 DEF Is
  <2> QED
    BY <2>5 DEF x, y, d, e
<1> HIDE DEF N
<1> DEFINE S == {n \in 0..N : s[N - n] = t[N - n]}
<1>5. 0 \in S
  <2>1. N - 0 = N /\ 0 \in 0..N
    BY <1>3
  <2>2. s[N] = t[N]
    BY <1>1, <1>2
  <2> QED
    BY <2>1, <2>2
<1>6. ASSUME NEW n \in 1..N, n - 1 \in S
      PROVE  n \in S
  <2>1. N - (n - 1) \in 1..N /\ (N - (n - 1)) - 1 = N - n /\ n \in 0..N
    BY <1>3
  <2>2. s[N - (n - 1)] = t[N - (n - 1)]
    BY <1>6
  <2>3. s[N - n] = t[N - n]
    BY <1>4, <2>1, <2>2
  <2> QED
    BY <2>1, <2>3
<1> HIDE DEF S
<1>7. \A n \in 0..N : n \in S
  BY <1>3, <1>5, <1>6, InductionTo
<1>8. \A k \in 1..N : N - k \in 0..N /\ N - (N - k) = k
  BY <1>3
<1>9. \A k \in 1..N : s[k] = t[k]
  BY <1>7, <1>8 DEF S
<1>10. \A k \in 1..N : Digit(v, c, k) = Digit(w, c, k)
  BY <1>4, <1>9
<1> QED
  BY <1>10 DEF N

\* The hash of a slice of elements has no other slice of that length (sponge.go:125-151), given
\* that the permutation loses nothing.
LEMMA HashBinds ==
  ASSUME NEW n \in Nat, NEW v \in [1..n -> Base], NEW w \in [1..n -> Base],
         HashElemSlice(v) = HashElemSlice(w)
  PROVE  v = w
<1>1. Len(v) = n /\ Len(w) = n
  OBVIOUS
<1>2. DOMAIN v = 1..n /\ DOMAIN w = 1..n /\ 0 \in Base
  BY Sizes DEF Base
<1>3. ASSUME NEW c \in Nat, NEW k
      PROVE  Digit(v, c, k) \in Base /\ Digit(w, c, k) \in Base
  BY <1>2 DEF Digit
<1>4. ASSUME NEW b \in 1..Blocks(v), NEW c \in {2 * b - 1, 2 * b}
      PROVE  \A k \in 1..PerCell : Digit(v, c, k) = Digit(w, c, k)
  <2>1. Blocks(v) = Blocks(w)
    BY <1>1 DEF Blocks
  <2>2. b \in Nat
    OBVIOUS
  <2> HIDE DEF Blocks
  <2>3. HashElemSlice(v)[b] = <<Cell(v, 2 * b - 1), Cell(v, 2 * b)>>
    BY DEF HashElemSlice
  <2>4. HashElemSlice(w)[b] = <<Cell(w, 2 * b - 1), Cell(w, 2 * b)>>
    BY <2>1 DEF HashElemSlice
  <2>5. Cell(v, 2 * b - 1) = Cell(w, 2 * b - 1) /\ Cell(v, 2 * b) = Cell(w, 2 * b)
    BY <2>3, <2>4
  <2>6. Cell(v, c) = Cell(w, c) /\ c \in Nat
    BY <2>2, <2>5
  <2> QED
    BY <1>3, <2>6, SameCell
<1>5. ASSUME NEW i \in 1..n
      PROVE  v[i] = w[i]
  <2> DEFINE C == PerCell
             A == 2 * C
             q == (i - 1) \div A
             r == (i - 1) % A
  <2>1. C \in Nat \ {0} /\ A \in Nat \ {0} /\ i - 1 \in Nat
    BY Sizes
  <2> HIDE DEF A
  <2>2. q \in Nat /\ r \in 0..A - 1 /\ i - 1 = A * q + r
    BY <2>1, Division
  <2>3. q + 1 \in 1..Blocks(v)
    <3>1. A * q \in Nat /\ A * (q + 1) = A * q + A
      BY <2>1, <2>2
    <3> HIDE DEF q, r
    <3>2. A * (q + 1) <= n + A - 1 /\ n + A - 1 \in Nat /\ q + 1 \in Nat
      BY <2>1, <2>2, <3>1
    <3>3. q + 1 <= (n + A - 1) \div A /\ (n + A - 1) \div A \in Nat
      BY <2>1, <3>2, QuotientAtLeast, Division
    <3>4. Blocks(v) = (n + A - 1) \div A
      BY <1>1 DEF Blocks, A
    <3> QED
      BY <2>2, <3>3, <3>4
  <2> HIDE DEF q, r, C
  <2>4. A * q = 2 * (C * q) /\ C * q \in Nat
    BY <2>1, <2>2 DEF A
  <2>5. \A c \in {2 * q + 1, 2 * q + 2} : \A k \in 1..C : Digit(v, c, k) = Digit(w, c, k)
    <3>1. 2 * q + 1 = 2 * (q + 1) - 1 /\ 2 * q + 2 = 2 * (q + 1)
      BY <2>2
    <3> QED
      BY <1>4, <2>3, <3>1 DEF C
  <2>6. PICK c \in {2 * q + 1, 2 * q + 2} : C * c - i + 1 \in 1..C /\ c \in Nat
    <3>1. CASE r < C
      <4>1. C * (2 * q + 1) = 2 * (C * q) + C
        BY <2>1, <2>2
      <4>2. C * (2 * q + 1) - i + 1 \in 1..C
        BY <2>1, <2>2, <2>4, <3>1, <4>1
      <4> QED
        BY <2>2, <4>2
    <3>2. CASE ~(r < C)
      <4>1. C * (2 * q + 2) = 2 * (C * q) + 2 * C
        BY <2>1, <2>2
      <4>2. C * (2 * q + 2) - i + 1 \in 1..C
        BY <2>1, <2>2, <2>4, <3>2, <4>1 DEF A
      <4> QED
        BY <2>2, <4>2
    <3> QED
      BY <3>1, <3>2
  <2> DEFINE k == C * c - i + 1
  <2>7. C * c \in Nat /\ C * c - k + 1 = i /\ k \in 1..C
    BY <2>1, <2>6
  <2>8. Digit(v, c, k) = v[i] /\ Digit(w, c, k) = w[i]
    BY <1>2, <2>7 DEF Digit, C
  <2> QED
    BY <2>5, <2>6, <2>7, <2>8
<1> QED
  BY <1>5

-----------------------------------------------------------------------------
(* The extension *)

\* Numbers of the extension before they are reduced: sums and products over the integers.
Ints4 == [1..4 -> Int]
Reduced(x) == [i \in 1..4 |-> x[i] % P]
IntAdd(a, b) == [i \in 1..4 |-> a[i] + b[i]]
IntMul(a, b, n) ==
  << a[1] * b[1] + n * (a[2] * b[4] + a[3] * b[3] + a[4] * b[2]),
     a[1] * b[2] + a[2] * b[1] + n * (a[3] * b[4] + a[4] * b[3]),
     a[1] * b[3] + a[2] * b[2] + a[3] * b[1] + n * (a[4] * b[4]),
     a[1] * b[4] + a[2] * b[3] + a[3] * b[2] + a[4] * b[1] >>
N4 == P - Beta

\* The modulus and the number X^4 stands for.
LEMMA Modulus == P \in Nat \ {0} /\ N4 \in Int /\ Beta \in Int
BY FieldAssumption DEF N4

\* Equality of tuples, entry by entry.
LEMMA Entries ==
  ASSUME NEW S, NEW x \in [1..4 -> S], NEW y \in [1..4 -> S],
         x[1] = y[1], x[2] = y[2], x[3] = y[3], x[4] = y[4]
  PROVE  x = y
<1>1. \A i \in 1..4 : x[i] = y[i]
  OBVIOUS
<1> QED
  BY <1>1

\* Sums and products of integers are integers.
LEMMA IntTyped ==
  ASSUME NEW a \in Ints4, NEW b \in Ints4, NEW n \in Int
  PROVE  IntAdd(a, b) \in Ints4 /\ IntMul(a, b, n) \in Ints4
<1>1. IntAdd(a, b) \in Ints4
  BY DEF Ints4, IntAdd
<1>2. \A i \in 1..4 : a[i] \in Int /\ b[i] \in Int
  BY DEF Ints4
<1>3. /\ a[1] * b[1] + n * (a[2] * b[4] + a[3] * b[3] + a[4] * b[2]) \in Int
      /\ a[1] * b[2] + a[2] * b[1] + n * (a[3] * b[4] + a[4] * b[3]) \in Int
      /\ a[1] * b[3] + a[2] * b[2] + a[3] * b[1] + n * (a[4] * b[4]) \in Int
      /\ a[1] * b[4] + a[2] * b[3] + a[3] * b[2] + a[4] * b[1] \in Int
  BY <1>2
<1> QED
  BY <1>1, <1>3 DEF IntMul, Ints4

\* The product does not depend on the order of the factors (babybear.go:107-126).
LEMMA IntCommutes ==
  ASSUME NEW a \in Ints4, NEW b \in Ints4, NEW n \in Int
  PROVE  IntMul(a, b, n) = IntMul(b, a, n)
<1>1. \A i \in 1..4 : a[i] \in Int /\ b[i] \in Int
  BY DEF Ints4
<1>2. \A i \in 1..4 : \A j \in 1..4 : a[i] * b[j] = b[j] * a[i] /\ a[i] * b[j] \in Int
  BY <1>1
<1> QED
  BY <1>2 DEF IntMul

\* Nor on the brackets.
LEMMA IntAssociates ==
  ASSUME NEW a \in Ints4, NEW b \in Ints4, NEW c \in Ints4, NEW n \in Int
  PROVE  IntMul(IntMul(a, b, n), c, n) = IntMul(a, IntMul(b, c, n), n)
<1> DEFINE a1 == a[1]  a2 == a[2]  a3 == a[3]  a4 == a[4]
           b1 == b[1]  b2 == b[2]  b3 == b[3]  b4 == b[4]
           c1 == c[1]  c2 == c[2]  c3 == c[3]  c4 == c[4]
           l == IntMul(IntMul(a, b, n), c, n)
           r == IntMul(a, IntMul(b, c, n), n)
<1>1. /\ a1 \in Int /\ a2 \in Int /\ a3 \in Int /\ a4 \in Int
      /\ b1 \in Int /\ b2 \in Int /\ b3 \in Int /\ b4 \in Int
      /\ c1 \in Int /\ c2 \in Int /\ c3 \in Int /\ c4 \in Int
  BY DEF Ints4
<1>2. /\ l[1] = (a1 * b1 + n * (a2 * b4 + a3 * b3 + a4 * b2)) * c1
                 + n * ((a1 * b2 + a2 * b1 + n * (a3 * b4 + a4 * b3)) * c4
                        + (a1 * b3 + a2 * b2 + a3 * b1 + n * (a4 * b4)) * c3
                        + (a1 * b4 + a2 * b3 + a3 * b2 + a4 * b1) * c2)
      /\ l[2] = (a1 * b1 + n * (a2 * b4 + a3 * b3 + a4 * b2)) * c2
                 + (a1 * b2 + a2 * b1 + n * (a3 * b4 + a4 * b3)) * c1
                 + n * ((a1 * b3 + a2 * b2 + a3 * b1 + n * (a4 * b4)) * c4
                        + (a1 * b4 + a2 * b3 + a3 * b2 + a4 * b1) * c3)
      /\ l[3] = (a1 * b1 + n * (a2 * b4 + a3 * b3 + a4 * b2)) * c3
                 + (a1 * b2 + a2 * b1 + n * (a3 * b4 + a4 * b3)) * c2
                 + (a1 * b3 + a2 * b2 + a3 * b1 + n * (a4 * b4)) * c1
                 + n * ((a1 * b4 + a2 * b3 + a3 * b2 + a4 * b1) * c4)
      /\ l[4] = (a1 * b1 + n * (a2 * b4 + a3 * b3 + a4 * b2)) * c4
                 + (a1 * b2 + a2 * b1 + n * (a3 * b4 + a4 * b3)) * c3
                 + (a1 * b3 + a2 * b2 + a3 * b1 + n * (a4 * b4)) * c2
                 + (a1 * b4 + a2 * b3 + a3 * b2 + a4 * b1) * c1
  BY DEF IntMul
<1>3. /\ r[1] = a1 * (b1 * c1 + n * (b2 * c4 + b3 * c3 + b4 * c2))
                 + n * (a2 * (b1 * c4 + b2 * c3 + b3 * c2 + b4 * c1)
                        + a3 * (b1 * c3 + b2 * c2 + b3 * c1 + n * (b4 * c4))
                        + a4 * (b1 * c2 + b2 * c1 + n * (b3 * c4 + b4 * c3)))
      /\ r[2] = a1 * (b1 * c2 + b2 * c1 + n * (b3 * c4 + b4 * c3))
                 + a2 * (b1 * c1 + n * (b2 * c4 + b3 * c3 + b4 * c2))
                 + n * (a3 * (b1 * c4 + b2 * c3 + b3 * c2 + b4 * c1)
                        + a4 * (b1 * c3 + b2 * c2 + b3 * c1 + n * (b4 * c4)))
      /\ r[3] = a1 * (b1 * c3 + b2 * c2 + b3 * c1 + n * (b4 * c4))
                 + a2 * (b1 * c2 + b2 * c1 + n * (b3 * c4 + b4 * c3))
                 + a3 * (b1 * c1 + n * (b2 * c4 + b3 * c3 + b4 * c2))
                 + n * (a4 * (b1 * c4 + b2 * c3 + b3 * c2 + b4 * c1))
      /\ r[4] = a1 * (b1 * c4 + b2 * c3 + b3 * c2 + b4 * c1)
                 + a2 * (b1 * c3 + b2 * c2 + b3 * c1 + n * (b4 * c4))
                 + a3 * (b1 * c2 + b2 * c1 + n * (b3 * c4 + b4 * c3))
                 + a4 * (b1 * c1 + n * (b2 * c4 + b3 * c3 + b4 * c2))
  BY DEF IntMul
<1>4. l \in [1..4 -> Int] /\ r \in [1..4 -> Int]
  BY IntTyped DEF Ints4
<1> HIDE DEF a1, a2, a3, a4, b1, b2, b3, b4, c1, c2, c3, c4, l, r
<1>5. l[1] = r[1]
  BY <1>1, <1>2, <1>3
<1>6. l[2] = r[2]
  BY <1>1, <1>2, <1>3
<1>7. l[3] = r[3]
  BY <1>1, <1>2, <1>3
<1>8. l[4] = r[4]
  BY <1>1, <1>2, <1>3
<1>9. l = r
  BY <1>4, <1>5, <1>6, <1>7, <1>8, Entries
<1> QED
  BY <1>9 DEF l, r

\* A product of a sum is the sum of the products.
LEMMA IntDistributes ==
  ASSUME NEW a \in Ints4, NEW b \in Ints4, NEW c \in Ints4, NEW n \in Int
  PROVE  IntMul(IntAdd(a, b), c, n) = IntAdd(IntMul(a, c, n), IntMul(b, c, n))
<1> DEFINE a1 == a[1]  a2 == a[2]  a3 == a[3]  a4 == a[4]
           b1 == b[1]  b2 == b[2]  b3 == b[3]  b4 == b[4]
           c1 == c[1]  c2 == c[2]  c3 == c[3]  c4 == c[4]
           l == IntMul(IntAdd(a, b), c, n)
           r == IntAdd(IntMul(a, c, n), IntMul(b, c, n))
<1>1. /\ a1 \in Int /\ a2 \in Int /\ a3 \in Int /\ a4 \in Int
      /\ b1 \in Int /\ b2 \in Int /\ b3 \in Int /\ b4 \in Int
      /\ c1 \in Int /\ c2 \in Int /\ c3 \in Int /\ c4 \in Int
  BY DEF Ints4
<1>2. /\ l[1] = (a1 + b1) * c1 + n * ((a2 + b2) * c4 + (a3 + b3) * c3 + (a4 + b4) * c2)
      /\ l[2] = (a1 + b1) * c2 + (a2 + b2) * c1 + n * ((a3 + b3) * c4 + (a4 + b4) * c3)
      /\ l[3] = (a1 + b1) * c3 + (a2 + b2) * c2 + (a3 + b3) * c1 + n * ((a4 + b4) * c4)
      /\ l[4] = (a1 + b1) * c4 + (a2 + b2) * c3 + (a3 + b3) * c2 + (a4 + b4) * c1
  BY DEF IntMul, IntAdd
<1>3. /\ r[1] = (a1 * c1 + n * (a2 * c4 + a3 * c3 + a4 * c2))
                 + (b1 * c1 + n * (b2 * c4 + b3 * c3 + b4 * c2))
      /\ r[2] = (a1 * c2 + a2 * c1 + n * (a3 * c4 + a4 * c3))
                 + (b1 * c2 + b2 * c1 + n * (b3 * c4 + b4 * c3))
      /\ r[3] = (a1 * c3 + a2 * c2 + a3 * c1 + n * (a4 * c4))
                 + (b1 * c3 + b2 * c2 + b3 * c1 + n * (b4 * c4))
      /\ r[4] = (a1 * c4 + a2 * c3 + a3 * c2 + a4 * c1)
                 + (b1 * c4 + b2 * c3 + b3 * c2 + b4 * c1)
  BY DEF IntMul, IntAdd
<1>4. l \in [1..4 -> Int] /\ r \in [1..4 -> Int]
  BY IntTyped DEF Ints4
<1> HIDE DEF a1, a2, a3, a4, b1, b2, b3, b4, c1, c2, c3, c4, l, r
<1>5. l[1] = r[1]
  BY <1>1, <1>2, <1>3
<1>6. l[2] = r[2]
  BY <1>1, <1>2, <1>3
<1>7. l[3] = r[3]
  BY <1>1, <1>2, <1>3
<1>8. l[4] = r[4]
  BY <1>1, <1>2, <1>3
<1>9. l = r
  BY <1>4, <1>5, <1>6, <1>7, <1>8, Entries
<1> QED
  BY <1>9 DEF l, r

\* Sums do not depend on order and brackets.
LEMMA IntAddAssociates ==
  ASSUME NEW a \in Ints4, NEW b \in Ints4, NEW c \in Ints4
  PROVE  /\ IntAdd(IntAdd(a, b), c) = IntAdd(a, IntAdd(b, c))
         /\ IntAdd(a, b) = IntAdd(b, a)
BY DEF IntAdd, Ints4

\* What does not count: whole multiples of p.
Turned(x, t) == [i \in 1..4 |-> x[i] + P * t[i]]

\* Whole turns, of a number that may be negative.
LEMMA AnyTurns ==
  ASSUME NEW x \in Int, NEW t \in Int
  PROVE  (x + P * t) % P = x % P
<1> DEFINE q == x \div P
           r == x % P
<1>1. P \in Nat \ {0}
  BY Modulus
<1>2. q \in Int /\ r \in 0..P - 1 /\ x = P * q + r
  BY <1>1
<1> HIDE DEF q, r
<1>3. P * (q + t) = P * q + P * t /\ P * q \in Int /\ P * t \in Int
  BY <1>1, <1>2
<1>4. x + P * t = P * (q + t) + r /\ q + t \in Int
  BY <1>2, <1>3
<1>5. \A u \in Int : (P * u + r) % P = r
  BY <1>1, <1>2
<1> QED
  BY <1>4, <1>5 DEF r

\* The same, entry by entry.
LEMMA TurnedReduces ==
  ASSUME NEW x \in Ints4, NEW t \in Ints4
  PROVE  Reduced(Turned(x, t)) = Reduced(x)
<1>1. \A i \in 1..4 : x[i] \in Int /\ t[i] \in Int
  BY DEF Ints4
<1>2. \A i \in 1..4 : (x[i] + P * t[i]) % P = x[i] % P
  BY <1>1, AnyTurns
<1> QED
  BY <1>2 DEF Reduced, Turned

\* Reduction takes whole turns away.
LEMMA ReducedIsTurned ==
  ASSUME NEW x \in Ints4
  PROVE  \E t \in Ints4 : x = Turned(Reduced(x), t)
<1> DEFINE t == [i \in 1..4 |-> x[i] \div P]
<1>1. \A i \in 1..4 : x[i] \in Int
  BY DEF Ints4
<1>2. \A z \in Int : z \div P \in Int /\ z % P \in Int /\ z = (z % P) + P * (z \div P)
  BY Modulus
<1>3. t \in Ints4
  BY <1>1, <1>2 DEF Ints4
<1>4. x = Turned(Reduced(x), t)
  <2>1. \A i \in 1..4 : Turned(Reduced(x), t)[i] = (x[i] % P) + P * (x[i] \div P)
    BY DEF Turned, Reduced
  <2>2. \A i \in 1..4 : Turned(Reduced(x), t)[i] = x[i]
    BY <1>1, <1>2, <2>1
  <2>3. x = [i \in 1..4 |-> x[i]] /\ Turned(Reduced(x), t) = [i \in 1..4 |-> Turned(Reduced(x), t)[i]]
    BY DEF Ints4, Turned
  <2> QED
    BY <2>2, <2>3
<1> QED
  BY <1>3, <1>4

\* What is reduced is an element.
LEMMA ReducedTyped ==
  ASSUME NEW x \in Ints4
  PROVE  Reduced(x) \in E4 /\ Reduced(x) \in Ints4
<1>1. \A z \in Int : z % P \in Base /\ z % P \in Int
  BY Modulus DEF Base
<1> QED
  BY <1>1 DEF Reduced, Ints4, E4

\* An element is reduced.
LEMMA AlreadyReduced ==
  ASSUME NEW x \in E4
  PROVE  Reduced(x) = x /\ x \in Ints4
<1>1. \A z \in Base : z % P = z /\ z \in Int
  BY Modulus DEF Base
<1> QED
  BY <1>1 DEF Reduced, Ints4, E4

\* A factor and a summand may be reduced first.
LEMMA ReducedFactor ==
  ASSUME NEW x \in Ints4, NEW y \in Ints4
  PROVE  /\ Reduced(IntMul(Reduced(x), y, N4)) = Reduced(IntMul(x, y, N4))
         /\ Reduced(IntMul(y, Reduced(x), N4)) = Reduced(IntMul(y, x, N4))
<1> DEFINE n == N4
           z == Reduced(x)
<1>1. P \in Nat \ {0} /\ n \in Int
  BY Modulus
<1>2. z \in Ints4
  BY ReducedTyped
<1>3. PICK t \in Ints4 : x = Turned(z, t)
  BY ReducedIsTurned
<1> HIDE DEF n, z
<1>4. IntMul(x, y, n) = Turned(IntMul(z, y, n), IntMul(t, y, n))
  <2> DEFINE z1 == z[1]  z2 == z[2]  z3 == z[3]  z4 == z[4]
             y1 == y[1]  y2 == y[2]  y3 == y[3]  y4 == y[4]
             t1 == t[1]  t2 == t[2]  t3 == t[3]  t4 == t[4]
             l == IntMul(x, y, n)
             r == Turned(IntMul(z, y, n), IntMul(t, y, n))
  <2>1. /\ z1 \in Int /\ z2 \in Int /\ z3 \in Int /\ z4 \in Int
        /\ y1 \in Int /\ y2 \in Int /\ y3 \in Int /\ y4 \in Int
        /\ t1 \in Int /\ t2 \in Int /\ t3 \in Int /\ t4 \in Int
    BY <1>2, <1>3 DEF Ints4
  <2>2. x[1] = z1 + P * t1 /\ x[2] = z2 + P * t2 /\ x[3] = z3 + P * t3 /\ x[4] = z4 + P * t4
    BY <1>3 DEF Turned
  <2>3. /\ l[1] = x[1] * y1 + n * (x[2] * y4 + x[3] * y3 + x[4] * y2)
        /\ l[2] = x[1] * y2 + x[2] * y1 + n * (x[3] * y4 + x[4] * y3)
        /\ l[3] = x[1] * y3 + x[2] * y2 + x[3] * y1 + n * (x[4] * y4)
        /\ l[4] = x[1] * y4 + x[2] * y3 + x[3] * y2 + x[4] * y1
    BY DEF IntMul
  <2>4. /\ r[1] = z1 * y1 + n * (z2 * y4 + z3 * y3 + z4 * y2)
                   + P * (t1 * y1 + n * (t2 * y4 + t3 * y3 + t4 * y2))
        /\ r[2] = z1 * y2 + z2 * y1 + n * (z3 * y4 + z4 * y3)
                   + P * (t1 * y2 + t2 * y1 + n * (t3 * y4 + t4 * y3))
        /\ r[3] = z1 * y3 + z2 * y2 + z3 * y1 + n * (z4 * y4)
                   + P * (t1 * y3 + t2 * y2 + t3 * y1 + n * (t4 * y4))
        /\ r[4] = z1 * y4 + z2 * y3 + z3 * y2 + z4 * y1
                   + P * (t1 * y4 + t2 * y3 + t3 * y2 + t4 * y1)
    BY DEF IntMul, Turned
  <2>5. l \in [1..4 -> Int] /\ r \in [1..4 -> Int]
    <3>1. IntMul(z, y, n) \in Ints4 /\ IntMul(t, y, n) \in Ints4
      BY <1>1, <1>2, IntTyped
    <3>2. \A u \in Ints4 : \A v \in Ints4 : Turned(u, v) \in Ints4
      BY <1>1 DEF Turned, Ints4
    <3> QED
      BY <1>1, <3>1, <3>2, IntTyped DEF Ints4
  <2> HIDE DEF z1, z2, z3, z4, y1, y2, y3, y4, t1, t2, t3, t4, l, r
  <2>6. l[1] = r[1]
    BY <1>1, <2>1, <2>2, <2>3, <2>4
  <2>7. l[2] = r[2]
    BY <1>1, <2>1, <2>2, <2>3, <2>4
  <2>8. l[3] = r[3]
    BY <1>1, <2>1, <2>2, <2>3, <2>4
  <2>9. l[4] = r[4]
    BY <1>1, <2>1, <2>2, <2>3, <2>4
  <2>10. l = r
    BY <2>5, <2>6, <2>7, <2>8, <2>9, Entries
  <2> QED
    BY <2>10 DEF l, r
<1>5. IntMul(z, y, n) \in Ints4 /\ IntMul(t, y, n) \in Ints4
  BY <1>1, <1>2, IntTyped
<1>6. Reduced(IntMul(x, y, n)) = Reduced(IntMul(z, y, n))
  BY <1>4, <1>5, TurnedReduces
<1>7. IntMul(y, z, n) = IntMul(z, y, n) /\ IntMul(y, x, n) = IntMul(x, y, n)
  BY <1>1, <1>2, IntCommutes
<1> QED
  BY <1>6, <1>7 DEF n, z

\* So does reducing a summand (babybear.go:92-105).
LEMMA ReducedSummand ==
  ASSUME NEW x \in Ints4, NEW y \in Ints4
  PROVE  /\ Reduced(IntAdd(Reduced(x), y)) = Reduced(IntAdd(x, y))
         /\ Reduced(IntAdd(y, Reduced(x))) = Reduced(IntAdd(y, x))
<1> DEFINE z == Reduced(x)
<1>1. z \in Ints4 /\ IntAdd(z, y) \in Ints4
  BY ReducedTyped, IntTyped, Modulus
<1>2. PICK t \in Ints4 : x = Turned(z, t)
  BY ReducedIsTurned
<1> HIDE DEF z
<1>3. IntAdd(x, y) = Turned(IntAdd(z, y), t)
  <2>1. \A i \in 1..4 : z[i] \in Int /\ y[i] \in Int /\ P * t[i] \in Int
    BY <1>1, <1>2, Modulus DEF Ints4
  <2>2. \A i \in 1..4 : x[i] = z[i] + P * t[i]
    BY <1>2 DEF Turned
  <2>3. \A i \in 1..4 : x[i] + y[i] = (z[i] + y[i]) + P * t[i]
    BY <2>1, <2>2
  <2> QED
    BY <2>3 DEF IntAdd, Turned
<1>4. Reduced(IntAdd(x, y)) = Reduced(IntAdd(z, y))
  BY <1>1, <1>3, TurnedReduces
<1>5. IntAdd(y, z) = IntAdd(z, y) /\ IntAdd(y, x) = IntAdd(x, y)
  BY <1>1, IntAddAssociates
<1> QED
  BY <1>4, <1>5 DEF z

\* The circuit's sum and product are those of the integers, reduced.
LEMMA ByIntegers ==
  ASSUME NEW a, NEW b
  PROVE  E4Mul(a, b) = Reduced(IntMul(a, b, N4)) /\ E4Add(a, b) = Reduced(IntAdd(a, b))
<1>1. E4Add(a, b) = Reduced(IntAdd(a, b))
  BY DEF E4Add, Reduced, IntAdd
<1>2. E4Mul(a, b) = Reduced(IntMul(a, b, N4))
  BY DEF E4Mul, Product, N4, Reduced, IntMul
<1> QED
  BY <1>1, <1>2

\* Operations on elements give elements (babybear.go:92-126).
LEMMA E4Typed ==
  ASSUME NEW a \in E4, NEW b \in E4
  PROVE  E4Add(a, b) \in E4 /\ E4Sub(a, b) \in E4 /\ E4Mul(a, b) \in E4
<1>1. a \in Ints4 /\ b \in Ints4
  BY AlreadyReduced
<1>2. E4Add(a, b) \in E4 /\ E4Mul(a, b) \in E4
  BY <1>1, IntTyped, Modulus, ReducedTyped, ByIntegers
<1>3. \A z \in Int : z % P \in Base
  BY Modulus DEF Base
<1>4. \A i \in 1..4 : a[i] - b[i] \in Int
  BY <1>1 DEF Ints4
<1>5. E4Sub(a, b) \in E4
  BY <1>3, <1>4 DEF E4Sub, E4
<1> QED
  BY <1>2, <1>5

\* Multiplication and addition commute.
LEMMA E4Commutes ==
  ASSUME NEW a \in E4, NEW b \in E4
  PROVE  E4Mul(a, b) = E4Mul(b, a) /\ E4Add(a, b) = E4Add(b, a)
<1>1. a \in Ints4 /\ b \in Ints4 /\ N4 \in Int
  BY AlreadyReduced, Modulus
<1>2. IntMul(a, b, N4) = IntMul(b, a, N4) /\ IntAdd(a, b) = IntAdd(b, a)
  BY <1>1, IntCommutes, IntAddAssociates
<1> QED
  BY <1>2, ByIntegers

\* Multiplication is associative.
LEMMA E4Associates ==
  ASSUME NEW a \in E4, NEW b \in E4, NEW c \in E4
  PROVE  E4Mul(E4Mul(a, b), c) = E4Mul(a, E4Mul(b, c))
<1>1. a \in Ints4 /\ b \in Ints4 /\ c \in Ints4 /\ N4 \in Int
  BY AlreadyReduced, Modulus
<1>2. IntMul(a, b, N4) \in Ints4 /\ IntMul(b, c, N4) \in Ints4
  BY <1>1, IntTyped
<1>3. E4Mul(E4Mul(a, b), c) = Reduced(IntMul(IntMul(a, b, N4), c, N4))
  BY <1>1, <1>2, ByIntegers, ReducedFactor
<1>4. E4Mul(a, E4Mul(b, c)) = Reduced(IntMul(a, IntMul(b, c, N4), N4))
  BY <1>1, <1>2, ByIntegers, ReducedFactor
<1> QED
  BY <1>1, <1>3, <1>4, IntAssociates

\* Addition is associative.
LEMMA E4AddAssociates ==
  ASSUME NEW a \in E4, NEW b \in E4, NEW c \in E4
  PROVE  E4Add(E4Add(a, b), c) = E4Add(a, E4Add(b, c))
<1>1. a \in Ints4 /\ b \in Ints4 /\ c \in Ints4
  BY AlreadyReduced
<1>2. IntAdd(a, b) \in Ints4 /\ IntAdd(b, c) \in Ints4
  BY <1>1, IntTyped, Modulus
<1>3. E4Add(E4Add(a, b), c) = Reduced(IntAdd(IntAdd(a, b), c))
  BY <1>1, <1>2, ByIntegers, ReducedSummand
<1>4. E4Add(a, E4Add(b, c)) = Reduced(IntAdd(a, IntAdd(b, c)))
  BY <1>1, <1>2, ByIntegers, ReducedSummand
<1> QED
  BY <1>1, <1>3, <1>4, IntAddAssociates

\* Multiplication distributes over addition.
LEMMA E4Distributes ==
  ASSUME NEW a \in E4, NEW b \in E4, NEW c \in E4
  PROVE  E4Mul(E4Add(a, b), c) = E4Add(E4Mul(a, c), E4Mul(b, c))
<1>1. a \in Ints4 /\ b \in Ints4 /\ c \in Ints4 /\ N4 \in Int
  BY AlreadyReduced, Modulus
<1>2. IntAdd(a, b) \in Ints4 /\ IntMul(a, c, N4) \in Ints4 /\ IntMul(b, c, N4) \in Ints4
  BY <1>1, IntTyped
<1>3. E4Mul(E4Add(a, b), c) = Reduced(IntMul(IntAdd(a, b), c, N4))
  BY <1>1, <1>2, ByIntegers, ReducedFactor
<1>4. E4Add(E4Mul(a, c), E4Mul(b, c)) = Reduced(IntAdd(IntMul(a, c, N4), IntMul(b, c, N4)))
  <2> DEFINE x == IntMul(a, c, N4)
             y == IntMul(b, c, N4)
  <2>1. E4Add(E4Mul(a, c), E4Mul(b, c)) = Reduced(IntAdd(Reduced(x), Reduced(y)))
    BY ByIntegers
  <2>2. x \in Ints4 /\ y \in Ints4
    BY <1>2
  <2> HIDE DEF x, y
  <2>3. Reduced(y) \in Ints4
    BY <2>2, ReducedTyped
  <2>4. Reduced(IntAdd(Reduced(x), Reduced(y))) = Reduced(IntAdd(x, Reduced(y)))
    BY <2>2, <2>3, ReducedSummand
  <2>5. Reduced(IntAdd(x, Reduced(y))) = Reduced(IntAdd(x, y))
    BY <2>2, ReducedSummand
  <2> QED
    BY <2>1, <2>4, <2>5 DEF x, y
<1> QED
  BY <1>1, <1>3, <1>4, IntDistributes

\* Zero and one.
LEMMA E4Units ==
  ASSUME NEW a \in E4
  PROVE  /\ E4Zero \in E4 /\ E4One \in E4
         /\ E4Add(E4Zero, a) = a /\ E4Add(a, E4Zero) = a
         /\ E4Mul(E4One, a) = a /\ E4Mul(a, E4One) = a
         /\ E4Mul(E4Zero, a) = E4Zero /\ E4Mul(a, E4Zero) = E4Zero
<1>1. a \in Ints4 /\ N4 \in Int /\ \A i \in 1..4 : a[i] \in Int
  BY AlreadyReduced, Modulus DEF Ints4
<1>2. 0 \in Base /\ 1 \in Base
  BY FieldAssumption DEF Base
<1>3. E4Zero \in E4 /\ E4One \in E4 /\ E4Zero \in Ints4 /\ E4One \in Ints4
  BY <1>2 DEF E4, E4Zero, E4One, Ints4
<1>4. IntAdd(E4Zero, a) = a /\ IntMul(E4One, a, N4) = a /\ IntMul(E4Zero, a, N4) = E4Zero
  <2>1. a = [i \in 1..4 |-> a[i]]
    BY <1>1 DEF Ints4
  <2>2. IntAdd(E4Zero, a) = a
    BY <1>1, <2>1 DEF IntAdd, E4Zero
  <2>3. /\ 1 * a[1] + N4 * (0 * a[4] + 0 * a[3] + 0 * a[2]) = a[1]
        /\ 1 * a[2] + 0 * a[1] + N4 * (0 * a[4] + 0 * a[3]) = a[2]
        /\ 1 * a[3] + 0 * a[2] + 0 * a[1] + N4 * (0 * a[4]) = a[3]
        /\ 1 * a[4] + 0 * a[3] + 0 * a[2] + 0 * a[1] = a[4]
    BY <1>1
  <2>4. /\ IntMul(E4One, a, N4) \in [1..4 -> Int] /\ a \in [1..4 -> Int]
        /\ IntMul(E4Zero, a, N4) \in [1..4 -> Int] /\ E4Zero \in [1..4 -> Int]
    BY <1>1, <1>3, IntTyped DEF Ints4
  <2>5. IntMul(E4One, a, N4) = a
    <3>1. /\ IntMul(E4One, a, N4)[1] = a[1] /\ IntMul(E4One, a, N4)[2] = a[2]
          /\ IntMul(E4One, a, N4)[3] = a[3] /\ IntMul(E4One, a, N4)[4] = a[4]
      BY <2>3 DEF IntMul, E4One
    <3> QED
      BY <2>4, <3>1, Entries
  <2>6. IntMul(E4Zero, a, N4) = E4Zero
    <3>1. /\ 0 * a[1] + N4 * (0 * a[4] + 0 * a[3] + 0 * a[2]) = 0
          /\ 0 * a[2] + 0 * a[1] + N4 * (0 * a[4] + 0 * a[3]) = 0
          /\ 0 * a[3] + 0 * a[2] + 0 * a[1] + N4 * (0 * a[4]) = 0
          /\ 0 * a[4] + 0 * a[3] + 0 * a[2] + 0 * a[1] = 0
      BY <1>1
    <3>2. \A i \in 1..4 : E4Zero[i] = 0
      BY DEF E4Zero
    <3>3. /\ IntMul(E4Zero, a, N4)[1] = 0 /\ IntMul(E4Zero, a, N4)[2] = 0
          /\ IntMul(E4Zero, a, N4)[3] = 0 /\ IntMul(E4Zero, a, N4)[4] = 0
      BY <3>1 DEF IntMul, E4Zero
    <3>4. /\ E4Zero[1] = 0 /\ E4Zero[2] = 0 /\ E4Zero[3] = 0 /\ E4Zero[4] = 0
      BY DEF E4Zero
    <3> QED
      BY <2>4, <3>3, <3>4, Entries
  <2> QED
    BY <2>2, <2>5, <2>6
<1>5. E4Add(E4Zero, a) = a /\ E4Mul(E4One, a) = a /\ E4Mul(E4Zero, a) = E4Zero
  BY <1>3, <1>4, ByIntegers, AlreadyReduced
<1> QED
  BY <1>3, <1>5, E4Commutes

\* A number as an element.
LEMMA FromBase ==
  ASSUME NEW x \in Base
  PROVE  E4From(x) \in E4
<1>1. 0 \in Base
  BY FieldAssumption DEF Base
<1> QED
  BY <1>1 DEF E4From, E4

\* Four numbers side by side are an element.
LEMMA FourOf ==
  ASSUME NEW s \in Seq(Base), Len(s) = 4
  PROVE  s \in E4
<1>1. s \in [1..Len(s) -> Base]
  OBVIOUS
<1> QED
  BY <1>1 DEF E4

\* The points of the taps are elements.
LEMMA ScaledTyped ==
  ASSUME NEW a \in E4, NEW s \in Nat
  PROVE  E4ScalarMul(a, s) \in E4
<1>1. \A z \in Nat : z % P \in Base
  BY Modulus DEF Base
<1>2. \A i \in 1..4 : a[i] * s \in Nat
  <2>1. \A i \in 1..4 : a[i] \in Nat
    BY Modulus DEF E4, Base
  <2> QED
    BY <2>1
<1> QED
  BY <1>1, <1>2 DEF E4ScalarMul, E4

\* A polynomial at a point is an element.
LEMMA PolyTyped ==
  ASSUME NEW c \in Seq(E4), NEW x \in E4
  PROVE  PolyEval(c, x) \in E4
<1> DEFINE n == Len(c)
           R == [mulX : E4, tot : E4]
           a == [mulX |-> E4One, tot |-> E4Zero]
           go(k, s) == [mulX |-> E4Mul(s.mulX, x), tot |-> E4Add(s.tot, E4Mul(c[k], s.mulX))]
           F == [k \in 1..n |-> [s \in R |-> go(k, s)]]
           Run(z) == z = [i \in 0..n |-> IF i = 0 THEN a ELSE go(i, z[i - 1])]
           run == CHOOSE z : Run(z)
<1>1. n \in Nat /\ \A k \in 1..n : c[k] \in E4
  OBVIOUS
<1>2. PolyEval(c, x) = run[n].tot
  BY DEF PolyEval
<1> HIDE DEF n
<1>3. \A k \in 1..n : \A s \in R : go(k, s) \in R
  <2> SUFFICES ASSUME NEW k \in 1..n, NEW s \in R PROVE go(k, s) \in R
    OBVIOUS
  <2>1. s.mulX \in E4 /\ s.tot \in E4 /\ c[k] \in E4
    BY <1>1
  <2>2. E4Mul(s.mulX, x) \in E4 /\ E4Mul(c[k], s.mulX) \in E4
    BY <2>1, E4Typed
  <2>3. E4Add(s.tot, E4Mul(c[k], s.mulX)) \in E4
    BY <2>1, <2>2, E4Typed
  <2> QED
    BY <2>2, <2>3
<1>4. a \in R
  BY E4Units
<1>5. \A k \in 1..n : \A s \in R : F[k][s] = go(k, s)
  OBVIOUS
<1>6. \A k \in 1..n : k \in 0..n /\ k - 1 \in 0..n /\ k # 0
  BY <1>1
<1>7. \A s \in R : s.tot \in E4
  OBVIOUS
<1> HIDE DEF F, Run, run, go, a, R
<1>8. PICK g \in [0..n -> R] : g[0] = a /\ \A k \in 1..n : g[k] = F[k][g[k - 1]]
  <2>1. \E g : RunsIn(n, R, a, F, g)
    BY <1>1, <1>3, <1>4, <1>5, RecursionIn
  <2> QED
    BY <2>1 DEF RunsIn
<1>9. \A k \in 1..n : g[k] = go(k, g[k - 1])
  BY <1>5, <1>6, <1>8
<1>10. Run(g)
  <2>1. \A k \in 0..n : k = 0 \/ k \in 1..n
    BY <1>1
  <2>2. \A k \in 0..n : g[k] = IF k = 0 THEN a ELSE go(k, g[k - 1])
    BY <1>8, <1>9, <2>1
  <2>3. g = [k \in 0..n |-> g[k]]
    BY <1>8
  <2> QED
    BY <2>2, <2>3 DEF Run
<1>11. Run(run)
  BY <1>10 DEF run
<1>12. \A k \in 0..n : run[k] = IF k = 0 THEN a ELSE go(k, run[k - 1])
  <2>1. run = [i \in 0..n |-> IF i = 0 THEN a ELSE go(i, run[i - 1])]
    BY <1>11 DEF Run
  <2> QED
    BY <2>1
<1>13. Alike(n, run, g)
  <2>1. 0 \in 0..n
    BY <1>1
  <2>2. run[0] = g[0]
    BY <1>8, <1>12, <2>1
  <2>3. \A k \in 1..n : run[k] = go(k, run[k - 1])
    BY <1>6, <1>12
  <2> QED
    BY <1>9, <2>2, <2>3 DEF Alike
<1>14. n \in 0..n /\ n \in Nat
  BY <1>1
<1>15. \A k \in 0..n : run[k] = g[k]
  BY <1>13, <1>14, SameRun
<1>16. run[n] \in R
  BY <1>8, <1>14, <1>15
<1> QED
  BY <1>2, <1>7, <1>16

-----------------------------------------------------------------------------
(* Inverses *)

\* The inverse of a number is reduced, and the inverse of every number but zero is one
\* (babybear.go:178-182).
LEMMA InverseOfNumber ==
  ASSUME NEW c \in Base
  PROVE  ModInverse(c) \in Base /\ (c # 0 => (c * ModInverse(c)) % P = 1)
<1>1. CASE c = 0
  BY <1>1, Modulus DEF ModInverse, Base
<1>2. CASE c # 0
  <2>1. c \in 1..P - 1
    BY <1>2, Modulus DEF Base
  <2>2. \E i \in Base : (c * i) % P = 1
    BY <2>1, InverseAssumption DEF Base
  <2> QED
    BY <1>2, <2>2 DEF ModInverse
<1> QED
  BY <1>1, <1>2

\* Integers that differ by whole turns are the same number.
LEMMA SameTurns ==
  ASSUME NEW x \in Int, NEW y \in Int, NEW t \in Int, x = y + P * t
  PROVE  x % P = y % P
BY AnyTurns

\* The conjugate, with the odd coefficients negated: before reduction, and reduced.
Opposite(a) == <<a[1], -a[2], a[3], -a[4]>>
Conjugate(a) == Reduced(Opposite(a))

\* It is an element.
LEMMA OppositeTyped ==
  ASSUME NEW a \in Ints4
  PROVE  Opposite(a) \in Ints4 /\ Conjugate(a) \in E4
<1>1. \A i \in 1..4 : a[i] \in Int
  BY DEF Ints4
<1>2. Opposite(a) \in Ints4
  <2>1. -a[2] \in Int /\ -a[4] \in Int /\ a[1] \in Int /\ a[3] \in Int
    BY <1>1
  <2> QED
    BY <2>1 DEF Opposite, Ints4
<1> QED
  BY <1>2, ReducedTyped DEF Conjugate

\* The parts of the norm as the hint has them, before they are reduced.
Norm0(a) == a[1] * a[1] + Beta * (2 * a[2] * a[4] - a[3] * a[3])
Norm2(a) == 2 * a[1] * a[3] - a[2] * a[2] + Beta * (a[4] * a[4])
Low(x, y) == <<x, 0, y, 0>>

\* An element times its conjugate has no odd coefficients.
LEMMA TimesConjugate ==
  ASSUME NEW a \in E4
  PROVE  /\ Norm0(a) \in Int /\ Norm2(a) \in Int
         /\ E4Mul(a, Conjugate(a)) = Low(Norm0(a) % P, Norm2(a) % P)
<1> DEFINE a1 == a[1]  a2 == a[2]  a3 == a[3]  a4 == a[4]
           m == IntMul(a, Opposite(a), N4)
<1>1. a \in Ints4 /\ a1 \in Int /\ a2 \in Int /\ a3 \in Int /\ a4 \in Int
  BY AlreadyReduced DEF Ints4
<1>2. P \in Nat \ {0} /\ Beta \in Int /\ N4 = P - Beta /\ N4 \in Int
  BY Modulus DEF N4
<1>3. E4Mul(a, Conjugate(a)) = Reduced(m)
  BY <1>1, ByIntegers, OppositeTyped, ReducedFactor DEF Conjugate
<1>4. /\ m[1] = a1 * a1 + N4 * (a2 * (-a4) + a3 * a3 + a4 * (-a2))
      /\ m[2] = a1 * (-a2) + a2 * a1 + N4 * (a3 * (-a4) + a4 * a3)
      /\ m[3] = a1 * a3 + a2 * (-a2) + a3 * a1 + N4 * (a4 * (-a4))
      /\ m[4] = a1 * (-a4) + a2 * a3 + a3 * (-a2) + a4 * a1
  BY DEF IntMul, Opposite
<1>5. Norm0(a) = a1 * a1 + Beta * (2 * a2 * a4 - a3 * a3)
  BY DEF Norm0
<1>6. Norm2(a) = 2 * a1 * a3 - a2 * a2 + Beta * (a4 * a4)
  BY DEF Norm2
<1>7. Reduced(m) = << m[1] % P, m[2] % P, m[3] % P, m[4] % P >>
  BY DEF Reduced
<1>b. Beta = P - N4
  BY <1>2
<1> HIDE DEF a1, a2, a3, a4, m
<1>8. Norm0(a) \in Int /\ Norm2(a) \in Int
  BY <1>1, <1>2, <1>5, <1>6
<1>9. m[2] = 0 /\ m[4] = 0
  BY <1>1, <1>2, <1>4
<1>10. m[1] \in Int /\ m[3] \in Int
  BY <1>1, <1>2, <1>4
<1>11. Norm0(a) % P = m[1] % P
  <2> DEFINE t == 2 * a2 * a4 - a3 * a3
  <2>1. t \in Int
    BY <1>1
  <2>2. m[1] = a1 * a1 + N4 * (-t)
    BY <1>1, <1>2, <1>4
  <2>3. Norm0(a) = a1 * a1 + Beta * t
    BY <1>5
  <2> HIDE DEF t
  <2>4. Norm0(a) = m[1] + P * t
    BY <1>1, <1>2, <1>b, <2>1, <2>2, <2>3
  <2> QED
    BY <1>8, <1>10, <2>1, <2>4, SameTurns
<1>12. Norm2(a) % P = m[3] % P
  <2> DEFINE t == a4 * a4
  <2>1. t \in Int
    BY <1>1
  <2>2. m[3] = 2 * a1 * a3 - a2 * a2 + N4 * (-t)
    BY <1>1, <1>2, <1>4
  <2>3. Norm2(a) = 2 * a1 * a3 - a2 * a2 + Beta * t
    BY <1>6
  <2> HIDE DEF t
  <2>4. Norm2(a) = m[3] + P * t
    BY <1>1, <1>2, <1>b, <2>1, <2>2, <2>3
  <2> QED
    BY <1>8, <1>10, <2>1, <2>4, SameTurns
<1>13. 0 % P = 0
  BY <1>2
<1> QED
  BY <1>3, <1>7, <1>8, <1>9, <1>11, <1>12, <1>13 DEF Low

\* A remainder inside a product may be taken or left.
LEMMA InnerRemainder ==
  ASSUME NEW x \in Int, NEW y \in Int, NEW k \in Int
  PROVE  (x + k * (y % P)) % P = (x + k * y) % P
<1> DEFINE r == y % P
           q == y \div P
           u == k * r
           v == k * q
<1>1. P \in Nat \ {0}
  BY Modulus
<1>2. r \in Int /\ q \in Int /\ y = P * q + r
  BY <1>1
<1> HIDE DEF r, q
<1>3. u \in Int /\ v \in Int /\ k * y = u + P * v
  BY <1>1, <1>2
<1> HIDE DEF u, v
<1>4. x + u \in Int /\ x + k * y = (x + u) + P * v
  BY <1>1, <1>3
<1>5. ((x + u) + P * v) % P = (x + u) % P
  BY <1>3, <1>4, AnyTurns
<1> QED
  BY <1>4, <1>5 DEF u, r

\* The norm to the base field, and what the norm to the field of X^2 is multiplied by for it.
Norm(a) == LET b0 == Norm0(a) % P
               b2 == Norm2(a) % P
           IN  (b0 * b0 + Beta * ((b2 * b2) % P)) % P
Rest(a) == Low(Norm0(a) % P, (-(Norm2(a) % P)) % P)

\* With it the product is that norm, a number.
LEMMA TimesRest ==
  ASSUME NEW a \in E4
  PROVE  /\ Norm(a) \in Base /\ Rest(a) \in E4
         /\ E4Mul(E4Mul(a, Conjugate(a)), Rest(a)) = E4From(Norm(a))
<1> DEFINE b0 == Norm0(a) % P
           b2 == Norm2(a) % P
           l == Low(b0, b2)
           o == Low(b0, -b2)
           m == IntMul(l, o, N4)
<1>1. P \in Nat \ {0} /\ Beta \in Int /\ N4 = P - Beta /\ N4 \in Int /\ Beta = P - N4
  BY Modulus DEF N4
<1>2. b0 \in Base /\ b2 \in Base /\ b0 \in Int /\ b2 \in Int
  BY <1>1, TimesConjugate DEF Base
<1>3. E4Mul(a, Conjugate(a)) = l
  BY TimesConjugate
<1>4. Norm(a) = (b0 * b0 + Beta * ((b2 * b2) % P)) % P
  BY DEF Norm
<1>5. Rest(a) = Low(b0, (-b2) % P)
  BY DEF Rest
<1> HIDE DEF b0, b2
<1>6. 0 % P = 0 /\ b0 % P = b0 /\ 0 \in Base
  BY <1>1, <1>2 DEF Base
<1>7. l \in Ints4 /\ o \in Ints4
  <2>1. -b2 \in Int
    BY <1>2
  <2> QED
    BY <1>2, <2>1 DEF Low, Ints4
<1>8. Rest(a) = Reduced(o)
  BY <1>5, <1>6 DEF Low, Reduced
<1>9. E4Mul(l, Rest(a)) = Reduced(m)
  BY <1>7, <1>8, ByIntegers, ReducedFactor
<1>10. /\ m[1] = b0 * b0 + N4 * (0 * 0 + b2 * (-b2) + 0 * 0)
       /\ m[2] = b0 * 0 + 0 * b0 + N4 * (b2 * 0 + 0 * (-b2))
       /\ m[3] = b0 * (-b2) + 0 * 0 + b2 * b0 + N4 * (0 * 0)
       /\ m[4] = b0 * 0 + 0 * (-b2) + b2 * 0 + 0 * b0
  BY DEF IntMul, Low
<1>11. Reduced(m) = << m[1] % P, m[2] % P, m[3] % P, m[4] % P >>
  BY DEF Reduced
<1> HIDE DEF m, l, o
<1>12. m[2] = 0 /\ m[3] = 0 /\ m[4] = 0
  BY <1>1, <1>2, <1>10
<1>13. Norm(a) = m[1] % P
  <2> DEFINE t == b2 * b2
             s == b0 * b0
  <2>1. t \in Int /\ s \in Int
    BY <1>2
  <2>2. m[1] = s + N4 * (-t)
    BY <1>1, <1>2, <1>10
  <2>3. Norm(a) = (s + Beta * (t % P)) % P
    BY <1>4
  <2> HIDE DEF t, s
  <2>4. (s + Beta * (t % P)) % P = (s + Beta * t) % P
    BY <1>1, <2>1, InnerRemainder
  <2>5. s + Beta * t \in Int /\ m[1] \in Int /\ s + Beta * t = m[1] + P * t
    BY <1>1, <2>1, <2>2
  <2>6. (s + Beta * t) % P = m[1] % P
    BY <2>1, <2>5, SameTurns
  <2> QED
    BY <2>3, <2>4, <2>6
<1>14. m[1] \in Int
  BY <1>1, <1>2, <1>10
<1>15. Norm(a) \in Base
  BY <1>1, <1>13, <1>14 DEF Base
<1>16. Rest(a) \in E4
  BY <1>7, <1>8, ReducedTyped
<1>17. E4Mul(l, Rest(a)) = E4From(Norm(a))
  BY <1>6, <1>9, <1>11, <1>12, <1>13 DEF E4From
<1> QED
  BY <1>3, <1>15, <1>16, <1>17

\* The hint's inverse: what is left of the norm, divided by it.
LEMMA HintFactors ==
  ASSUME NEW a \in E4
  PROVE  /\ InvHint(a) \in E4
         /\ InvHint(a) =
              E4Mul(Conjugate(a), E4Mul(Rest(a), E4From(ModInverse(Norm(a)))))
<1> DEFINE a1 == a[1]  a2 == a[2]  a3 == a[3]  a4 == a[4]
           b0 == Norm0(a) % P
           b2 == Norm2(a) % P
           ic == ModInverse(Norm(a))
           c0 == (b0 * ic) % P
           c2 == (b2 * ic) % P
           i1 == a1 * c0 + Beta * ((a3 * c2) % P)
           i2 == (P - Beta) * ((a4 * c2) % P) - a2 * c0
           i3 == a3 * c0 - a1 * c2
           i4 == a2 * c2 - a4 * c0
           o == Low(c0, -c2)
           r == Low(b0, -b2)
           s == Low(ic, 0)
           n == IntMul(r, s, N4)
           m == IntMul(Opposite(a), o, N4)
<1>1. a \in Ints4 /\ a1 \in Int /\ a2 \in Int /\ a3 \in Int /\ a4 \in Int
  BY AlreadyReduced DEF Ints4
<1>2. P \in Nat \ {0} /\ Beta \in Int /\ N4 = P - Beta /\ N4 \in Int /\ Beta = P - N4
  BY Modulus DEF N4
<1>3. b0 \in Base /\ b2 \in Base /\ b0 \in Int /\ b2 \in Int
  BY <1>2, TimesConjugate DEF Base
<1>4. ic \in Base /\ ic \in Int
  BY <1>2, TimesRest, InverseOfNumber DEF Base
<1>5. InvHint(a) = << i1 % P, i2 % P, i3 % P, i4 % P >>
  BY DEF InvHint, Norm, Norm0, Norm2
<1>6. Rest(a) = Low(b0, (-b2) % P) /\ E4From(ic) = s
  BY DEF Rest, E4From, Low
<1>7. c0 \in Base /\ c2 \in Base /\ c0 \in Int /\ c2 \in Int
  <2>1. b0 * ic \in Int /\ b2 * ic \in Int
    BY <1>3, <1>4
  <2> HIDE DEF b0, b2, ic
  <2> QED
    BY <1>2, <2>1 DEF Base
<1> HIDE DEF ic, b0, b2
<1>8. /\ n[1] = b0 * ic + N4 * (0 * 0 + (-b2) * 0 + 0 * 0)
      /\ n[2] = b0 * 0 + 0 * ic + N4 * ((-b2) * 0 + 0 * 0)
      /\ n[3] = b0 * 0 + 0 * 0 + (-b2) * ic + N4 * (0 * 0)
      /\ n[4] = b0 * 0 + 0 * 0 + (-b2) * 0 + 0 * ic
  BY DEF IntMul, Low
<1>9. r \in Ints4 /\ s \in Ints4
  <2>1. -b2 \in Int
    BY <1>3
  <2> QED
    BY <1>3, <1>4, <2>1 DEF Low, Ints4
<1>10. Rest(a) = Reduced(r)
  <2>1. 0 % P = 0 /\ b0 % P = b0
    BY <1>2, <1>3 DEF Base
  <2> QED
    BY <1>6, <2>1 DEF Low, Reduced
<1>11. E4Mul(Rest(a), E4From(ic)) = Reduced(n)
  BY <1>6, <1>9, <1>10, ByIntegers, ReducedFactor
<1>12. o \in Ints4
  <2>1. -c2 \in Int
    BY <1>7
  <2> HIDE DEF c0, c2
  <2> QED
    BY <1>7, <2>1 DEF Low, Ints4
<1>13. Reduced(n) = Reduced(o)
  <2>1. Reduced(n) = << n[1] % P, n[2] % P, n[3] % P, n[4] % P >>
    BY DEF Reduced
  <2>2. Reduced(o) = << c0 % P, 0 % P, (-c2) % P, 0 % P >>
    BY DEF Reduced, Low
  <2> HIDE DEF n, o
  <2>3. n[1] = b0 * ic /\ n[2] = 0 /\ n[4] = 0 /\ n[3] = -(b2 * ic)
    BY <1>2, <1>3, <1>4, <1>8
  <2>4. \A x \in Base : x % P = x
    BY <1>2 DEF Base
  <2>5. c0 % P = (b0 * ic) % P
    BY <1>7, <2>4
  <2>6. (-c2) % P = (-(b2 * ic)) % P
    <3> DEFINE w == b2 * ic
    <3>1. w \in Int
      BY <1>3, <1>4
    <3>2. (0 + (-1) * (w % P)) % P = (0 + (-1) * w) % P
      BY <3>1, InnerRemainder
    <3>3. c2 = w % P
      OBVIOUS
    <3> HIDE DEF w, c2
    <3>4. 0 + (-1) * (w % P) = -c2 /\ 0 + (-1) * w = -w
      BY <1>7, <3>1, <3>3
    <3> QED
      BY <3>2, <3>4 DEF w
  <2> QED
    BY <2>1, <2>2, <2>3, <2>5, <2>6
<1>14. E4Mul(Conjugate(a), Reduced(o)) = Reduced(m)
  <2>1. Opposite(a) \in Ints4
    BY <1>1, OppositeTyped
  <2>2. Reduced(o) \in Ints4
    BY <1>12, ReducedTyped
  <2> HIDE DEF o
  <2> QED
    BY <1>12, <2>1, <2>2, ByIntegers, ReducedFactor DEF Conjugate
<1>15. /\ m[1] = a1 * c0 + N4 * ((-a2) * 0 + a3 * (-c2) + (-a4) * 0)
       /\ m[2] = a1 * 0 + (-a2) * c0 + N4 * (a3 * 0 + (-a4) * (-c2))
       /\ m[3] = a1 * (-c2) + (-a2) * 0 + a3 * c0 + N4 * ((-a4) * 0)
       /\ m[4] = a1 * 0 + (-a2) * (-c2) + a3 * 0 + (-a4) * c0
  <2> HIDE DEF c0, c2
  <2> QED
    BY DEF IntMul, Low, Opposite
<1>16. Reduced(m) = << m[1] % P, m[2] % P, m[3] % P, m[4] % P >>
  BY DEF Reduced
<1> HIDE DEF a1, a2, a3, a4, c0, c2, m, n, o, r, s
<1>17. m[1] \in Int /\ m[2] \in Int /\ m[3] = i3 /\ m[4] = i4 /\ i3 \in Int /\ i4 \in Int
  BY <1>1, <1>2, <1>7, <1>15
<1>18. i1 % P = m[1] % P
  <2> DEFINE t == a3 * c2
             u == a1 * c0
  <2>1. t \in Int /\ u \in Int
    BY <1>1, <1>7
  <2>2. m[1] = u + N4 * (-t)
    BY <1>1, <1>2, <1>7, <1>15
  <2> HIDE DEF t, u
  <2>3. (u + Beta * (t % P)) % P = (u + Beta * t) % P
    BY <1>2, <2>1, InnerRemainder
  <2>4. u + Beta * t \in Int /\ u + Beta * t = m[1] + P * t
    BY <1>2, <2>1, <2>2
  <2>5. (u + Beta * t) % P = m[1] % P
    BY <1>17, <2>1, <2>4, SameTurns
  <2> QED
    BY <2>3, <2>5 DEF t, u
<1>19. i2 % P = m[2] % P
  <2> DEFINE t == a4 * c2
             u == a2 * c0
  <2>1. t \in Int /\ u \in Int /\ -u \in Int
    BY <1>1, <1>7
  <2>2. m[2] = (-u) + N4 * t
    BY <1>1, <1>2, <1>7, <1>15
  <2> HIDE DEF t, u
  <2>3. ((-u) + N4 * (t % P)) % P = ((-u) + N4 * t) % P
    BY <1>2, <2>1, InnerRemainder
  <2>4. t % P \in Int
    BY <1>2, <2>1
  <2>5. (P - Beta) * (t % P) - u = (-u) + N4 * (t % P)
    BY <1>2, <2>1, <2>4
  <2> QED
    BY <2>2, <2>3, <2>5 DEF t, u
<1>20. InvHint(a) = Reduced(m)
  BY <1>5, <1>16, <1>17, <1>18, <1>19
<1>21. m \in Ints4
  BY <1>1, <1>2, <1>12, OppositeTyped, IntTyped DEF m
<1>22. InvHint(a) \in E4
  BY <1>20, <1>21, ReducedTyped
<1>23. InvHint(a) = E4Mul(Conjugate(a), E4Mul(Rest(a), E4From(ic)))
  BY <1>11, <1>13, <1>14, <1>20
<1> QED
  BY <1>22, <1>23 DEF ic

\* The conjugate of a product is the product of the conjugates.
LEMMA ConjugateOfProduct ==
  ASSUME NEW a \in E4, NEW b \in E4
  PROVE  Conjugate(E4Mul(a, b)) = E4Mul(Conjugate(a), Conjugate(b))
<1> DEFINE a1 == a[1]  a2 == a[2]  a3 == a[3]  a4 == a[4]
           b1 == b[1]  b2 == b[2]  b3 == b[3]  b4 == b[4]
           m == IntMul(a, b, N4)
           l == IntMul(Opposite(a), Opposite(b), N4)
           o == Opposite(m)
           q == Opposite(Reduced(m))
<1>1. /\ a1 \in Int /\ a2 \in Int /\ a3 \in Int /\ a4 \in Int
      /\ b1 \in Int /\ b2 \in Int /\ b3 \in Int /\ b4 \in Int
      /\ a \in Ints4 /\ b \in Ints4
  BY AlreadyReduced DEF Ints4
<1>2. P \in Nat \ {0} /\ N4 \in Int
  BY Modulus
<1>3. m \in Ints4 /\ l \in Ints4 /\ o \in Ints4
  BY <1>1, <1>2, OppositeTyped, IntTyped
<1>4. E4Mul(a, b) = Reduced(m)
  BY ByIntegers
<1>5. E4Mul(Conjugate(a), Conjugate(b)) = Reduced(l)
  <2> DEFINE x == Opposite(a)
             y == Opposite(b)
  <2>1. x \in Ints4 /\ y \in Ints4
    BY <1>1, OppositeTyped
  <2> HIDE DEF x, y
  <2>2. Reduced(y) \in Ints4
    BY <2>1, ReducedTyped
  <2>3. Reduced(IntMul(Reduced(x), Reduced(y), N4)) = Reduced(IntMul(x, y, N4))
    BY <2>1, <2>2, ReducedFactor
  <2> QED
    BY <2>3, ByIntegers DEF x, y, Conjugate
<1>6. l = o
  <2>1. /\ l[1] = a1 * b1 + N4 * ((-a2) * (-b4) + a3 * b3 + (-a4) * (-b2))
        /\ l[2] = a1 * (-b2) + (-a2) * b1 + N4 * (a3 * (-b4) + (-a4) * b3)
        /\ l[3] = a1 * b3 + (-a2) * (-b2) + a3 * b1 + N4 * ((-a4) * (-b4))
        /\ l[4] = a1 * (-b4) + (-a2) * b3 + a3 * (-b2) + (-a4) * b1
    BY DEF IntMul, Opposite
  <2>2. /\ m[1] = a1 * b1 + N4 * (a2 * b4 + a3 * b3 + a4 * b2)
        /\ m[2] = a1 * b2 + a2 * b1 + N4 * (a3 * b4 + a4 * b3)
        /\ m[3] = a1 * b3 + a2 * b2 + a3 * b1 + N4 * (a4 * b4)
        /\ m[4] = a1 * b4 + a2 * b3 + a3 * b2 + a4 * b1
    BY DEF IntMul
  <2>3. o[1] = m[1] /\ o[2] = -m[2] /\ o[3] = m[3] /\ o[4] = -m[4]
    BY DEF Opposite
  <2>4. l \in [1..4 -> Int] /\ o \in [1..4 -> Int]
    BY <1>3 DEF Ints4
  <2> HIDE DEF a1, a2, a3, a4, b1, b2, b3, b4, l, m, o
  <2>5. l[1] = m[1] /\ l[2] = -m[2]
    BY <1>1, <1>2, <2>1, <2>2
  <2>6. l[3] = m[3] /\ l[4] = -m[4]
    BY <1>1, <1>2, <2>1, <2>2
  <2> QED
    BY <2>3, <2>4, <2>5, <2>6, Entries
<1>7. Reduced(q) = Reduced(o)
  <2>1. Reduced(q) = << (m[1] % P) % P, (-(m[2] % P)) % P, (m[3] % P) % P, (-(m[4] % P)) % P >>
    BY DEF Reduced, Opposite
  <2>2. Reduced(o) = << m[1] % P, (-m[2]) % P, m[3] % P, (-m[4]) % P >>
    BY DEF Reduced, Opposite
  <2>3. m[1] \in Int /\ m[2] \in Int /\ m[3] \in Int /\ m[4] \in Int
    BY <1>3 DEF Ints4
  <2> HIDE DEF m
  <2>4. ASSUME NEW x \in Int
        PROVE  (x % P) % P = x % P /\ (-(x % P)) % P = (-x) % P
    <3>1. /\ (0 + 1 * (x % P)) % P = (0 + 1 * x) % P
          /\ (0 + (-1) * (x % P)) % P = (0 + (-1) * x) % P
      BY InnerRemainder
    <3>2. x % P \in Int
      BY <1>2
    <3> HIDE DEF q, o, l
    <3>3. 0 + 1 * (x % P) = x % P /\ 0 + 1 * x = x /\ 0 + (-1) * (x % P) = -(x % P) /\ 0 + (-1) * x = -x
      BY <3>2
    <3> QED
      BY <3>1, <3>3
  <2> QED
    BY <2>1, <2>2, <2>3, <2>4
<1> QED
  BY <1>4, <1>5, <1>6, <1>7 DEF Conjugate

\* One and zero are two elements, and one is its own conjugate.
LEMMA ConjugateOfOne ==
  /\ E4One \in E4 /\ E4Zero \in E4 /\ E4One # E4Zero /\ Conjugate(E4One) = E4One
<1>1. 0 \in Base /\ 1 \in Base /\ 0 % P = 0 /\ 1 % P = 1 /\ (-0) % P = 0
  BY FieldAssumption DEF Base
<1>2. E4One \in E4 /\ E4Zero \in E4
  BY <1>1 DEF E4, E4One, E4Zero
<1>3. E4One[1] # E4Zero[1]
  BY DEF E4One, E4Zero
<1>4. Conjugate(E4One) = << 1 % P, (-0) % P, 0 % P, (-0) % P >>
  BY DEF Conjugate, Reduced, Opposite, E4One
<1> QED
  BY <1>1, <1>2, <1>3, <1>4 DEF E4One

\* Numbers multiply as elements.
LEMMA FromTimes ==
  ASSUME NEW x \in Base, NEW y \in Base
  PROVE  E4Mul(E4From(x), E4From(y)) = E4From((x * y) % P)
<1>1. N4 \in Int /\ x \in Int /\ y \in Int /\ 0 % P = 0
  BY Modulus DEF Base
<1>2. /\ x * y + N4 * (0 * 0 + 0 * 0 + 0 * 0) = x * y
      /\ x * 0 + 0 * y + N4 * (0 * 0 + 0 * 0) = 0
      /\ x * 0 + 0 * 0 + 0 * y + N4 * (0 * 0) = 0
      /\ x * 0 + 0 * 0 + 0 * 0 + 0 * y = 0
  BY <1>1
<1>3. IntMul(E4From(x), E4From(y), N4) = << x * y, 0, 0, 0 >>
  BY <1>2 DEF IntMul, E4From
<1>4. Reduced(<< x * y, 0, 0, 0 >>) = << (x * y) % P, 0, 0, 0 >>
  BY <1>1 DEF Reduced
<1> QED
  BY <1>3, <1>4, ByIntegers DEF E4From

\* babybear.go:178-182: the hint finds an inverse when the norm is not zero.
LEMMA NormInverts ==
  ASSUME NEW a \in E4, Norm(a) # 0
  PROVE  Invertible(a)
<1> DEFINE c == Conjugate(a)
           r == Rest(a)
           n == E4From(Norm(a))
           i == E4From(ModInverse(Norm(a)))
<1>1. c \in E4 /\ r \in E4 /\ Norm(a) \in Base
  BY AlreadyReduced, OppositeTyped, TimesRest
<1>2. ModInverse(Norm(a)) \in Base /\ (Norm(a) * ModInverse(Norm(a))) % P = 1
  BY <1>1, InverseOfNumber
<1>3. n \in E4 /\ i \in E4
  BY <1>1, <1>2, FromBase
<1>4. E4Mul(n, i) = E4One
  BY <1>1, <1>2, FromTimes DEF E4From, E4One
<1>5. InvHint(a) = E4Mul(c, E4Mul(r, i)) /\ E4Mul(E4Mul(a, c), r) = n
  BY HintFactors, TimesRest
<1> HIDE DEF c, r, n, i
<1>6. E4Mul(a, E4Mul(c, E4Mul(r, i))) = E4Mul(E4Mul(a, c), E4Mul(r, i))
  BY <1>1, <1>3, E4Typed, E4Associates
<1>7. E4Mul(E4Mul(a, c), E4Mul(r, i)) = E4Mul(E4Mul(E4Mul(a, c), r), i)
  <2>1. E4Mul(a, c) \in E4
    BY <1>1, E4Typed
  <2> QED
    BY <1>1, <1>3, <2>1, E4Associates
<1> QED
  BY <1>4, <1>5, <1>6, <1>7 DEF Invertible

\* babybear.go:178: nothing whose norm is zero has an inverse.
LEMMA NoNormNoInverse ==
  ASSUME NEW a \in E4, Norm(a) = 0, NEW y \in E4, E4Mul(a, y) = E4One
  PROVE  FALSE
<1> DEFINE c == Conjugate(a)
           d == Conjugate(y)
           b == E4Mul(a, c)
           z == E4Mul(y, d)
           r == Rest(a)
<1>1. c \in E4 /\ d \in E4 /\ r \in E4
  BY AlreadyReduced, OppositeTyped, TimesRest
<1>2. b \in E4 /\ z \in E4
  BY <1>1, E4Typed
<1>3. E4Mul(c, d) = E4One
  BY ConjugateOfProduct, ConjugateOfOne
<1>4. E4Mul(b, r) = E4Zero
  BY TimesRest DEF E4From, E4Zero
<1>5. E4Mul(z, b) = E4One
  <2> HIDE DEF c, d
  <2>1. E4Mul(z, b) = E4Mul(b, z)
    BY <1>2, E4Commutes
  <2>2. E4Mul(b, z) = E4Mul(a, E4Mul(c, z))
    BY <1>1, <1>2, E4Associates
  <2>3. E4Mul(c, z) = E4Mul(z, c) /\ E4Mul(c, d) = E4Mul(d, c)
    BY <1>1, <1>2, E4Commutes
  <2>4. E4Mul(z, c) = E4Mul(y, E4Mul(d, c))
    BY <1>1, E4Associates
  <2>5. E4Mul(y, E4One) = y
    BY E4Units
  <2> QED
    BY <1>3, <2>1, <2>2, <2>3, <2>4, <2>5
<1>6. r = E4Zero
  <2> HIDE DEF b, z, r
  <2>1. E4Mul(z, E4Mul(b, r)) = E4Mul(E4Mul(z, b), r)
    BY <1>1, <1>2, E4Associates
  <2>2. E4Mul(z, E4Zero) = E4Zero /\ E4Mul(E4One, r) = r
    BY <1>1, <1>2, E4Units
  <2> QED
    BY <1>4, <1>5, <2>1, <2>2
<1>7. b = E4Zero
  <2> DEFINE x == Norm0(a) % P
             w == Norm2(a) % P
  <2>1. b = Low(x, w)
    BY TimesConjugate
  <2>2. x \in Base /\ w \in Base
    BY Modulus, TimesConjugate DEF Base
  <2>3. r = Low(x, (-w) % P)
    BY DEF Rest
  <2> HIDE DEF x, w, r, b
  <2>4. x = 0 /\ (-w) % P = 0
    <3>1. r[1] = x /\ r[3] = (-w) % P
      BY <2>3 DEF Low
    <3>2. E4Zero[1] = 0 /\ E4Zero[3] = 0
      BY DEF E4Zero
    <3> QED
      BY <1>6, <3>1, <3>2
  <2>5. w = 0
    <3>1. ASSUME w # 0
          PROVE  FALSE
      <4>1. (-w + P * 1) % P = (-w) % P
        BY <2>2, AnyTurns DEF Base
      <4>2. P - w \in 1..P - 1 /\ -w + P * 1 = P - w
        BY <2>2, <3>1, Modulus DEF Base
      <4>3. (P - w) % P = P - w
        BY <4>2, Modulus
      <4> QED
        BY <2>4, <4>1, <4>2, <4>3
    <3> QED
      BY <3>1
  <2> QED
    BY <2>1, <2>4, <2>5 DEF Low, E4Zero
<1>8. E4Mul(z, E4Zero) = E4Zero
  BY <1>2, E4Units
<1> QED
  BY <1>5, <1>7, <1>8, ConjugateOfOne

\* babybear.go:196-206: whatever the prover returns in the place of fp4InvHint, the only value that
\* passes E4Inv's assertion is the one the hint computes, and the hint computes one whenever any
\* value passes: E4Inv is a function, and refuses exactly the elements without an inverse.
THEOREM InverseNotChosen ==
  ASSUME NEW a \in E4
  PROVE  {y \in E4 : E4Mul(a, y) = E4One} = IF Invertible(a) THEN {InvHint(a)} ELSE {}
<1> DEFINE h == InvHint(a)
<1>1. h \in E4
  BY HintFactors
<1>2. ASSUME NEW y \in E4, E4Mul(a, y) = E4One
      PROVE  Invertible(a) /\ y = h
  <2>1. E4Mul(a, h) = E4One
    BY <1>2, NormInverts, NoNormNoInverse DEF Invertible
  <2> HIDE DEF h
  <2>2. E4Mul(E4Mul(h, a), y) = E4Mul(h, E4Mul(a, y))
    BY <1>1, E4Associates
  <2>3. E4Mul(h, a) = E4Mul(a, h)
    BY <1>1, E4Commutes
  <2>4. E4Mul(E4One, y) = y /\ E4Mul(h, E4One) = h
    BY <1>1, E4Units
  <2> QED
    BY <1>2, <2>1, <2>2, <2>3, <2>4 DEF Invertible, h
<1> QED
  BY <1>1, <1>2 DEF Invertible

-----------------------------------------------------------------------------
(* Challenges *)

\* How many elements have been drawn at each step of the driver.
Counted ==
  /\ pc = "accumMix" => Len(drawn) = 0
  /\ pc = "accum" => Len(drawn) = 1
  /\ pc = "polyMix" => Len(drawn) \in 1..4
  /\ pc = "check" => Len(drawn) = 5
  /\ pc = "z" => Len(drawn) \in 5..8
  /\ pc \in {"u", "ingest", "program"} => Len(drawn) = 9
  /\ pc = "friMix" => Len(drawn) \in 9..12
  /\ pc \in {"combo", "fri"} => Len(drawn) = 13 + 4 * round
  /\ pc = "mix" => round >= 1 /\ Len(drawn) \in 9 + 4 * round..12 + 4 * round

DInv ==
  /\ drawn \in Seq(Nat) /\ round \in 0..Rounds
  /\ pc \in {"accumMix", "accum", "polyMix", "check", "z", "u", "ingest", "program", "friMix",
             "combo"} => round = 0
  /\ Counted /\ DrawnIsSqueezed

\* What is squeezed can be reduced by the circuit (sponge.go:83-99).
LEMMA Squeezed ==
  ASSUME NEW i \in 1..13 + 4 * Rounds
  PROVE  RandomElem(Sums[i]) = {Sums[i] % P} /\ Sums[i] % P \in Nat
<1>1. Sums[i] \in 0..(MaxQuotient + 1) * P - 1
  BY DeepAssumption
<1>2. P \in Nat /\ P > 0
  BY FieldAssumption
<1>3. Sums[i] \in Nat
  BY <1>1, NoWrap
<1> QED
  BY <1>1, <1>2, <1>3, RandomElemUnique, SMT

\* Whatever remainder the hint supplies, a draw takes the driver to its next place with the
\* squeezed sum reduced (driver.go:85-117).
LEMMA DrawKeeps ==
  ASSUME DInv, Draw
  PROVE  DInv'
<1> DEFINE n == Len(drawn)
<1>1. drawn \in Seq(Nat) /\ n \in Nat /\ round \in 0..Rounds /\ Rounds \in Nat
  BY DeepAssumption DEF DInv
<1>2. /\ \/ pc = "accumMix" /\ n = 0 /\ round = 0
         \/ pc = "polyMix" /\ n \in 1..4 /\ round = 0
         \/ pc = "z" /\ n \in 5..8 /\ round = 0
         \/ pc = "friMix" /\ n \in 9..12 /\ round = 0
         \/ pc = "mix" /\ round >= 1 /\ n \in 9 + 4 * round..12 + 4 * round
      /\ pc' = CASE n + 1 = 1 -> "accum" [] n + 1 = 5 -> "check" [] n + 1 = 9 -> "u"
                 [] n + 1 = 13 -> "combo"
                 [] pc = "mix" /\ n + 1 = 13 + 4 * round -> "fri"
                 [] OTHER -> pc
      /\ round' = round
  BY DEF DInv, Counted, Draw
<1>3. PICK e \in RandomElem(Sums[n + 1]) : drawn' = Append(drawn, e)
  BY DEF Draw
<1>4. drawn \in [1..n -> Nat]
  BY <1>1
<1> HIDE DEF n
<1>5. n + 1 \in 1..13 + 4 * Rounds
  <2>0. n <= 12 \/ n <= 12 + 4 * round
    BY <1>2
  <2>1. n <= 12 + 4 * round
    BY <1>1, <2>0, SMT
  <2>2. n \in Nat /\ round \in Int /\ Rounds \in Int /\ round <= Rounds
    BY <1>1
  <2> QED
    BY <2>1, <2>2, SMT
<1>6. e = Sums[n + 1] % P /\ e \in Nat
  BY <1>3, <1>5, Squeezed
<1>7. drawn' \in Seq(Nat) /\ Len(drawn') = n + 1
  BY <1>1, <1>3, <1>6, SMT DEF n
<1>8. DrawnIsSqueezed'
  <2>1. \A i \in 1..n : drawn[i] = Sums[i] % P
    BY <1>1, <1>4 DEF DInv, DrawnIsSqueezed
  <2>2. DOMAIN drawn' = 1..n + 1
    BY <1>7
  <2>3. SUFFICES ASSUME NEW i \in 1..n + 1
                 PROVE  drawn'[i] = Sums[i] % P
    BY <2>2 DEF DrawnIsSqueezed
  <2>4. CASE i = n + 1
    BY <1>1, <1>3, <1>6, <2>4 DEF n
  <2>5. CASE i \in 1..n
    BY <1>1, <1>3, <1>6, <2>1, <2>5 DEF n
  <2> QED
    BY <1>1, <2>4, <2>5, SMT
<1>9. \/ pc' = "accum" /\ n + 1 = 1 /\ round = 0
      \/ pc' = "polyMix" /\ n + 1 \in 1..4 /\ round = 0
      \/ pc' = "check" /\ n + 1 = 5 /\ round = 0
      \/ pc' = "z" /\ n + 1 \in 5..8 /\ round = 0
      \/ pc' = "u" /\ n + 1 = 9 /\ round = 0
      \/ pc' = "friMix" /\ n + 1 \in 9..12 /\ round = 0
      \/ pc' = "combo" /\ n + 1 = 13 /\ round = 0
      \/ pc' = "mix" /\ round >= 1 /\ n + 1 \in 9 + 4 * round..12 + 4 * round
      \/ pc' = "fri" /\ n + 1 = 13 + 4 * round
  <2> USE <1>1
  <2>1. CASE pc = "accumMix" /\ n = 0 /\ round = 0
    BY <1>2, <2>1, SMT
  <2>2. CASE pc = "polyMix" /\ n \in 1..4 /\ round = 0
    BY <1>2, <2>2, SMT
  <2>3. CASE pc = "z" /\ n \in 5..8 /\ round = 0
    BY <1>2, <2>3, SMT
  <2>4. CASE pc = "friMix" /\ n \in 9..12 /\ round = 0
    BY <1>2, <2>4, SMT
  <2>5. CASE pc = "mix" /\ round >= 1 /\ n \in 9 + 4 * round..12 + 4 * round
    <3>1. round \in Int /\ n \in Int /\ n >= 13 /\ n >= 9 + 4 * round /\ n <= 12 + 4 * round
      BY <2>5, SMT
    <3>2. CASE n + 1 = 13 + 4 * round
      BY <1>2, <2>5, <3>1, <3>2, SMT
    <3>3. CASE n + 1 # 13 + 4 * round
      <4>1. n + 1 \in 9 + 4 * round..12 + 4 * round
        BY <3>1, <3>3, SMT
      <4>2. pc' = "mix"
        BY <1>2, <2>5, <3>1, <3>3, SMT
      <4> QED
        BY <2>5, <4>1, <4>2
    <3> QED
      BY <3>2, <3>3
  <2> QED
    BY <1>2, <2>1, <2>2, <2>3, <2>4, <2>5
<1>10. Counted'
  <2>1. Len(drawn') = n + 1 /\ round' = round /\ round \in Nat /\ n \in Nat
    BY <1>1, <1>2, <1>7
  <2>2. CASE pc' \in {"accum", "polyMix", "check", "z", "u", "friMix"}
    BY <1>9, <2>1, <2>2 DEF Counted
  <2>3. CASE pc' = "combo"
    BY <1>9, <2>1, <2>3, 13 + 4 * 0 = 13 DEF Counted
  <2>4. CASE pc' \in {"mix", "fri"}
    BY <1>9, <2>1, <2>4 DEF Counted
  <2> QED
    BY <1>9, <2>2, <2>3, <2>4
<1> QED
  BY <1>1, <1>2, <1>7, <1>8, <1>9, <1>10 DEF DInv

\* Where a draw takes the driver.
LEMMA DrawGoes ==
  ASSUME DInv, Draw
  PROVE  \/ pc = "accumMix" /\ pc' = "accum"
         \/ pc = "polyMix" /\ pc' \in {"polyMix", "check"}
         \/ pc = "z" /\ pc' \in {"z", "u"}
         \/ pc = "friMix" /\ pc' \in {"friMix", "combo"}
         \/ pc = "mix" /\ pc' \in {"mix", "fri"}
<1> DEFINE n == Len(drawn)
<1>1. n \in Nat /\ round \in Nat
  BY LenProperties DEF DInv
<1> HIDE DEF n
<1>2. \/ pc = "accumMix" /\ n = 0
      \/ pc = "polyMix" /\ n \in 1..4
      \/ pc = "z" /\ n \in 5..8
      \/ pc = "friMix" /\ n \in 9..12
      \/ pc = "mix" /\ round >= 1 /\ n \in 9 + 4 * round..12 + 4 * round
  BY DEF DInv, Counted, Draw, n
<1>3. pc' = CASE n + 1 = 1 -> "accum" [] n + 1 = 5 -> "check" [] n + 1 = 9 -> "u"
              [] n + 1 = 13 -> "combo"
              [] pc = "mix" /\ n + 1 = 13 + 4 * round -> "fri"
              [] OTHER -> pc
  BY DEF Draw, n
<1>4. CASE pc = "mix"
  <2>1. n >= 13
    BY <1>1, <1>2, <1>4
  <2> QED
    BY <1>1, <1>3, <1>4, <2>1, SMT
<1> QED
  BY <1>1, <1>2, <1>3, <1>4, SMT

\* Every other step leaves the elements alone and goes on in the driver's order (driver.go:85-117,
\* 145-155).
LEMMA OthersKeep ==
  ASSUME DInv,
         UNCHANGED <<drawn, round>>,
         \/ UNCHANGED pc
         \/ pc = "accum" /\ pc' = "polyMix"
         \/ pc = "check" /\ pc' = "z"
         \/ pc = "u" /\ pc' = "ingest"
         \/ pc = "ingest" /\ pc' = "program"
         \/ pc = "program" /\ pc' = "friMix"
         \/ pc = "combo" /\ pc' = "fri"
         \/ pc' \in {"query", "accepted", "rejected", "panic"}
  PROVE  DInv'
BY DEF DInv, Counted, DrawnIsSqueezed

\* A round's mix is four more elements (driver.go:149-153).
LEMMA CommitFriKeeps ==
  ASSUME DInv, CommitFri
  PROVE  DInv'
<1> DEFINE n == Len(drawn)
<1>1. /\ pc = "fri" /\ pc' = "mix" /\ round \in 0..Rounds /\ round < Rounds /\ round' = round + 1
      /\ n = 13 + 4 * round /\ drawn' = drawn /\ n' = n /\ Rounds \in Nat
  BY DeepAssumption DEF DInv, Counted, CommitFri
<1> HIDE DEF n
<1>2. round' \in 0..Rounds /\ round' >= 1 /\ n \in 9 + 4 * round'..12 + 4 * round'
  BY <1>1, SMT
<1>3. Counted'
  BY <1>1, <1>2 DEF Counted, n
<1>4. DrawnIsSqueezed'
  BY <1>1 DEF DInv, DrawnIsSqueezed
<1> QED
  BY <1>1, <1>2, <1>3, <1>4 DEF DInv

\* The driver draws each challenge at its place and in its size.
LEMMA Counting == Spec => []DInv
<1>1. Init => DInv
  BY DeepAssumption DEF Init, DInv, Counted, DrawnIsSqueezed
<1>2. DInv /\ [Next]_vars => DInv'
  <2> SUFFICES ASSUME DInv, [Next]_vars
               PROVE  DInv'
    OBVIOUS
  <2>1. CASE Draw
    BY <2>1, DrawKeeps
  <2>2. CASE CommitAccum
    BY <2>2, OthersKeep DEF CommitAccum
  <2>3. CASE CommitCheck
    BY <2>3, OthersKeep DEF CommitCheck
  <2>4. CASE SendU
    BY <2>4, OthersKeep DEF SendU
  <2>5. CASE Ingest
    BY <2>5, OthersKeep DEF Ingest
  <2>6. CASE Step
    BY <2>6, OthersKeep DEF Step
  <2>7. CASE Validity
    BY <2>7, OthersKeep DEF Validity
  <2>8. CASE MixU
    BY <2>8, OthersKeep DEF MixU
  <2>9. CASE Query
    BY <2>9, OthersKeep DEF Query
  <2>10. CASE CommitFri
    BY <2>10, CommitFriKeeps
  <2>12. CASE SendFinal
    BY <2>12, OthersKeep DEF SendFinal
  <2>11. CASE UNCHANGED vars
    BY <2>11, OthersKeep DEF vars
  <2> QED
    BY <2>1, <2>2, <2>3, <2>4, <2>5, <2>6, <2>7, <2>8, <2>9, <2>10, <2>11, <2>12 DEF Next
<1> QED
  BY <1>1, <1>2, PTL DEF Spec

\* sponge.go:76-100: whatever quotient and remainder the prover's hint returns, every challenge is
\* the squeezed sum modulo p.
THEOREM ChallengesNotChosen == Spec => []DrawnIsSqueezed
<1>1. DInv => DrawnIsSqueezed
  BY DEF DInv
<1> QED
  BY <1>1, Counting, PTL

-----------------------------------------------------------------------------
(* Words *)

\* babybear.go:232-237: once the seal's words are ingested every one of them is the canonical form
\* of its element, so that the words hashed into the transcript and the elements computed with
\* determine each other.
Trusted == {"program", "friMix", "combo", "fri", "mix", "query", "accepted"}
WordsCanonical == pc \in Trusted => \A i \in DOMAIN words : words[i] \in Base

\* No step but Ingest enters the part of the driver that computes with the words, and no step
\* but SendU changes them or what they hash to.
LEMMA WordsKeep ==
  ASSUME DInv, [Next]_vars
  PROVE  \/ SendU \/ Ingest
         \/ /\ UNCHANGED <<words, digest>>
            /\ pc' \in Trusted => pc \in Trusted
            /\ pc' = "ingest" => pc = "ingest"
<1>1. CASE Draw
  BY <1>1, DrawGoes DEF Draw, Trusted
<1>2. CASE CommitAccum
  BY <1>2 DEF CommitAccum, Trusted
<1>3. CASE CommitCheck
  BY <1>3 DEF CommitCheck, Trusted
<1>4. CASE Step
  BY <1>4 DEF Step
<1>5. CASE Validity
  BY <1>5 DEF Validity, Trusted
<1>6. CASE MixU
  BY <1>6 DEF MixU, Trusted
<1>7. CASE CommitFri
  BY <1>7 DEF CommitFri, Trusted
<1>8. CASE SendFinal
  BY <1>8 DEF SendFinal, Trusted
<1>9. CASE Query
  BY <1>9 DEF Query, Trusted
<1>10. CASE UNCHANGED vars
  BY <1>10 DEF vars
<1> QED
  BY <1>1, <1>2, <1>3, <1>4, <1>5, <1>6, <1>7, <1>8, <1>9, <1>10 DEF Next

\* babybear.go:213-237: no word reaches the arithmetic, or an accepted seal, in another form than
\* the canonical one.
THEOREM WordsTrusted == Spec => []WordsCanonical
<1>1. Init => WordsCanonical
  BY DEF Init, WordsCanonical, Trusted
<1>2. WordsCanonical /\ DInv /\ [Next]_vars => WordsCanonical'
  <2> SUFFICES ASSUME WordsCanonical, DInv, [Next]_vars
               PROVE  WordsCanonical'
    OBVIOUS
  <2>1. CASE SendU
    BY <2>1 DEF SendU, WordsCanonical, Trusted
  <2>2. CASE Ingest
    <3>1. CASE \A i \in DOMAIN words : AssertCanonical(words[i])
      <4>1. \A i \in DOMAIN words : words[i] \in Base
        BY <3>1, CanonicalMeans
      <4> QED
        BY <2>2, <4>1 DEF Ingest, WordsCanonical
    <3>2. CASE ~\A i \in DOMAIN words : AssertCanonical(words[i])
      BY <2>2, <3>2 DEF Ingest, WordsCanonical, Trusted
    <3> QED
      BY <3>1, <3>2
  <2>3. CASE UNCHANGED <<words, digest>> /\ (pc' \in Trusted => pc \in Trusted)
    BY <2>3 DEF WordsCanonical
  <2> QED
    BY <2>1, <2>2, <2>3, WordsKeep
<1> QED
  BY <1>1, <1>2, Counting, PTL DEF Spec

-----------------------------------------------------------------------------
(* The digest of the U coefficients *)

\* Where each register's coefficients begin: right after those of the one before.
LEMMA Positions ==
  /\ Len(Regs) \in Nat /\ TapSize \in Nat /\ CurPos(1) = 0
  /\ \A r \in 1..Len(Regs) :
       /\ Size(r) \in Nat /\ CurPos(r) \in Nat /\ CurPos(r + 1) = CurPos(r) + Size(r)
       /\ CurPos(r + 1) \in 0..TapSize
<1> DEFINE L == Len(Regs)
           Pos(z) == z = [i \in 1..L + 1 |-> IF i = 1 THEN 0 ELSE z[i - 1] + Size(i - 1)]
           pos == CHOOSE z : Pos(z)
           F == [k \in 1..L |-> [x \in Nat |-> x + Size(k)]]
<1>1. L \in Nat /\ \A k \in 1..L : Size(k) \in Nat
  <2>1. Regs \in Seq([group : Nat, offset : Nat, combo : Nat, backs : Seq(Nat)])
    BY DeepAssumption
  <2>2. L \in Nat /\ \A k \in 1..L : Regs[k].backs \in Seq(Nat)
    <3> DEFINE R == [group : Nat, offset : Nat, combo : Nat, backs : Seq(Nat)]
    <3>1. \A r \in R : r.backs \in Seq(Nat)
      OBVIOUS
    <3>2. Regs \in Seq(R)
      BY <2>1
    <3> HIDE DEF R
    <3>3. L \in Nat /\ \A k \in 1..L : Regs[k] \in R
      BY <3>2
    <3> QED
      BY <3>1, <3>3
  <2> HIDE DEF L
  <2>3. \A k \in 1..L : Len(Regs[k].backs) \in Nat
    BY <2>2
  <2> QED
    BY <2>2, <2>3 DEF Size
<1>2. TapSize = pos[L + 1] /\ \A r : CurPos(r) = pos[r]
  BY DEF TapSize, CurPos
<1>3. \A k \in 1..L : \A x \in Nat : F[k][x] = x + Size(k) /\ F[k][x] \in Nat
  BY <1>1
<1> HIDE DEF L, F, pos
<1>4. PICK g \in [0..L -> Nat] : g[0] = 0 /\ \A k \in 1..L : g[k] = F[k][g[k - 1]]
  <2>1. \E g : RunsIn(L, Nat, 0, F, g)
    BY <1>1, <1>3, RecursionIn
  <2> QED
    BY <2>1 DEF RunsIn
<1> DEFINE z == [i \in 1..L + 1 |-> g[i - 1]]
<1>5. \A i \in 1..L + 1 : z[i] = IF i = 1 THEN 0 ELSE z[i - 1] + Size(i - 1)
  <2> SUFFICES ASSUME NEW i \in 1..L + 1
               PROVE  z[i] = IF i = 1 THEN 0 ELSE z[i - 1] + Size(i - 1)
    OBVIOUS
  <2>1. CASE i = 1
    BY <1>4, <2>1
  <2>2. CASE i # 1
    <3>1. i - 1 \in 1..L /\ i - 1 \in 1..L + 1 /\ (i - 1) - 1 \in 0..L
      BY <1>1, <2>2
    <3>2. g[i - 1] = g[(i - 1) - 1] + Size(i - 1)
      BY <1>3, <1>4, <3>1
    <3> QED
      BY <2>2, <3>1, <3>2
  <2> QED
    BY <2>1, <2>2
<1>6. Pos(z)
  <2>1. z = [i \in 1..L + 1 |-> z[i]]
    OBVIOUS
  <2> HIDE DEF z
  <2> QED
    BY <1>5, <2>1
<1>7. Pos(pos)
  <2> HIDE DEF Pos
  <2> QED
    BY <1>6 DEF pos
<1>8. pos[1] = 0
  <2>1. 1 \in 1..L + 1
    BY <1>1
  <2> QED
    BY <1>7, <2>1
<1>9. \A r \in 1..L : pos[r + 1] = pos[r] + Size(r)
  <2>1. \A r \in 1..L : r + 1 \in 1..L + 1 /\ r + 1 # 1 /\ (r + 1) - 1 = r
    BY <1>1
  <2> QED
    BY <1>7, <2>1
<1> HIDE DEF Pos
<1> DEFINE S == {k \in 0..L : pos[k + 1] \in Nat}
           B == {k \in 0..L : pos[L + 1 - k] <= pos[L + 1] /\ L + 1 - k \in 1..L + 1}
<1>10. \A k \in 0..L : pos[k + 1] \in Nat
  <2>1. 0 \in S
    BY <1>1, <1>8
  <2>2. ASSUME NEW k \in 1..L, k - 1 \in S
        PROVE  k \in S
    <3>1. (k - 1) + 1 = k /\ k \in 0..L
      BY <1>1
    <3> QED
      BY <1>1, <1>9, <2>2, <3>1
  <2> HIDE DEF S
  <2>3. \A k \in 0..L : k \in S
    BY <1>1, <2>1, <2>2, InductionTo
  <2> QED
    BY <2>3 DEF S
<1>11. \A r \in 1..L + 1 : pos[r] \in Nat
  <2>1. \A r \in 1..L + 1 : r - 1 \in 0..L /\ (r - 1) + 1 = r
    BY <1>1
  <2> QED
    BY <1>10, <2>1
<1>12. \A k \in 0..L : k \in B
  <2>1. 0 \in B
    <3>1. L + 1 \in 1..L + 1 /\ L + 1 - 0 = L + 1 /\ 0 \in 0..L
      BY <1>1
    <3> QED
      BY <1>11, <3>1
  <2>2. ASSUME NEW k \in 1..L, k - 1 \in B
        PROVE  k \in B
    <3> DEFINE r == L + 1 - k
    <3>1. /\ r \in 1..L /\ L + 1 - (k - 1) = r + 1 /\ k \in 0..L
          /\ r \in 1..L + 1 /\ r + 1 \in 1..L + 1 /\ L + 1 \in 1..L + 1
      BY <1>1
    <3>2. pos[r + 1] <= pos[L + 1]
      BY <2>2, <3>1
    <3> HIDE DEF r
    <3>3. pos[r] \in Nat /\ pos[r + 1] \in Nat /\ pos[L + 1] \in Nat
      BY <1>11, <3>1
    <3>4. pos[r + 1] = pos[r] + Size(r) /\ Size(r) \in Nat
      BY <1>1, <1>9, <3>1
    <3>5. pos[r] <= pos[L + 1]
      BY <3>2, <3>3, <3>4
    <3> QED
      BY <3>1, <3>5 DEF r
  <2> HIDE DEF B
  <2> QED
    BY <1>1, <2>1, <2>2, InductionTo
<1>13. \A r \in 1..L : pos[r + 1] \in 0..pos[L + 1]
  <2> SUFFICES ASSUME NEW r \in 1..L PROVE pos[r + 1] \in 0..pos[L + 1]
    OBVIOUS
  <2>1. L - r \in 0..L /\ L + 1 - (L - r) = r + 1 /\ r + 1 \in 1..L + 1 /\ L + 1 \in 1..L + 1
    BY <1>1
  <2>2. pos[r + 1] <= pos[L + 1]
    BY <1>12, <2>1
  <2>3. pos[r + 1] \in Nat /\ pos[L + 1] \in Nat
    BY <1>11, <2>1
  <2> QED
    BY <2>2, <2>3
<1>14. L + 1 \in 1..L + 1 /\ \A r \in 1..L : r \in 1..L + 1
  BY <1>1
<1> QED
  BY <1>1, <1>2, <1>8, <1>9, <1>11, <1>13, <1>14 DEF L

\* A prover's words fill the circuit's array (deep_evalu.go:16).
LEMMA ArrayFilled ==
  ASSUME NEW w \in UChoices
  PROVE  w = [i \in 1..NUCoeffs |-> w[i]]
<1> DEFINE N == NUCoeffs
           Whole(x) == x = [i \in 1..N |-> x[i]]
<1>1. N \in Nat
  BY Positions DEF NUCoeffs, CheckSize
<1>2. \A v : Whole(Words(v))
  BY DEF Words
<1> HIDE DEF N
<1>3. ASSUME NEW x, Whole(x) PROVE Whole(<<>> \o x)
  <2>1. x \in Seq({x[i] : i \in 1..N})
    BY <1>1, <1>3
  <2>2. <<>> \o x = x
    BY <2>1, ConcatEmptySeq
  <2> QED
    BY <1>3, <2>2
<1>4. ASSUME NEW x, Whole(x), NEW i, NEW y PROVE Whole([x EXCEPT ![i] = y])
  BY <1>4
<1>5. PICK u : \/ \E v : w = Words(v)
               \/ \E i, y : w = [(<<>> \o Words(u)) EXCEPT ![i] = y]
  <2> DEFINE u == <<>> \o HonestU
             x == <<>> \o Words(u)
             us == {u} \cup {Bumped(u, k) : k \in 1..TapSize}
  <2>1. UChoices = {Words(v) : v \in us \cup {Adjusted(v) : v \in us}}
                     \cup {[x EXCEPT ![i] = x[i] + P] : i \in {i \in DOMAIN x : x[i] + P < Cap}}
                     \cup {[x EXCEPT ![1] = Native - 1]}
    BY DEF UChoices
  <2> HIDE DEF u, us
  <2> QED
    BY <2>1
<1> HIDE DEF Whole
<1>6. Whole(<<>> \o Words(u))
  BY <1>2, <1>3
<1>7. Whole(w)
  BY <1>2, <1>4, <1>5, <1>6
<1> QED
  BY <1>7 DEF Whole, N

\* From SendU on the digest is that of the words, and there are as many as the array has.
Stamped ==
  pc \in Trusted \cup {"ingest"} =>
    words = [i \in 1..NUCoeffs |-> words[i]] /\ digest = HashElemSlice(words)

\* The words fill the array, and the digest is theirs, from the moment the U coefficients are
\* sent.
LEMMA Stamping == Spec => []Stamped
<1>1. Init => Stamped
  BY DEF Init, Stamped, Trusted
<1>2. Stamped /\ DInv /\ [Next]_vars => Stamped'
  <2> SUFFICES ASSUME Stamped, DInv, [Next]_vars
               PROVE  Stamped'
    OBVIOUS
  <2>1. CASE SendU
    <3>1. words' \in UChoices /\ digest' = HashElemSlice(words')
      BY <2>1 DEF SendU
    <3>2. PICK w : w = words'
      OBVIOUS
    <3>3. w = [i \in 1..NUCoeffs |-> w[i]]
      BY <3>1, <3>2, ArrayFilled
    <3> QED
      BY <3>1, <3>2, <3>3 DEF Stamped
  <2>2. CASE Ingest
    BY <2>2 DEF Ingest, Stamped
  <2>3. CASE /\ UNCHANGED <<words, digest>> /\ (pc' \in Trusted => pc \in Trusted)
             /\ (pc' = "ingest" => pc = "ingest")
    BY <2>3 DEF Stamped
  <2> QED
    BY <2>1, <2>2, <2>3, WordsKeep
<1> QED
  BY <1>1, <1>2, Counting, PTL DEF Spec

\* sponge.go:125-151, babybear.go:232: of all the ways to fill the array of the U coefficients with
\* words that pass the range checks, the digest in the transcript is that of one, to the end of
\* the run.
OpensOnce ==
  pc \in Trusted => \A v \in [1..NUCoeffs -> Base] : HashElemSlice(v) = digest => v = words

\* Canonical words and their digest determine each other.
LEMMA Opening ==
  ASSUME Stamped, WordsCanonical
  PROVE  OpensOnce
<1> SUFFICES ASSUME pc \in Trusted, NEW v \in [1..NUCoeffs -> Base], HashElemSlice(v) = digest
             PROVE  v = words
  BY DEF OpensOnce
<1>1. NUCoeffs \in Nat
  BY Positions DEF NUCoeffs, CheckSize
<1>2. words = [i \in 1..NUCoeffs |-> words[i]] /\ digest = HashElemSlice(words)
  BY DEF Stamped
<1>3. \A i \in 1..NUCoeffs : words[i] \in Base
  BY <1>2 DEF WordsCanonical
<1>4. words \in [1..NUCoeffs -> Base]
  BY <1>2, <1>3
<1> QED
  BY <1>1, <1>2, <1>4, HashBinds

\* The digest from which the later challenges come has one opening that the circuit ingests
\* (sponge.go:125-151, babybear.go:232), among all words the array can hold.
THEOREM DigestOpensOnce == Spec => []OpensOnce
BY Stamping, WordsTrusted, Opening, PTL

\* The same for the words a run tries in their place: one changed, two exchanged, P moved from one
\* to the next.
THEOREM DigestBindsWords == Spec => []DigestBinds
<1>1. ASSUME Stamped, WordsCanonical, OpensOnce
      PROVE  DigestBinds
  <2> SUFFICES ASSUME pc = "program", NEW v \in Others,
                      \A i \in DOMAIN v : AssertCanonical(v[i]), HashElemSlice(v) = digest
               PROVE  v = words
    BY DEF DigestBinds
  <2>1. words = [i \in 1..NUCoeffs |-> words[i]]
    BY <1>1 DEF Stamped, Trusted
  <2>2. v = [i \in 1..NUCoeffs |-> v[i]]
    <3>1. \/ v \in OneChanged(words)
          \/ v \in {[words EXCEPT ![i] = @ + P, ![i + 1] = @ - 1] : i \in 1..Len(words) - 1}
          \/ v \in {[words EXCEPT ![i] = words[i + 1], ![i + 1] = words[i]] :
                      i \in 1..Len(words) - 1}
      <4> DEFINE B == {[words EXCEPT ![i] = @ + P, ![i + 1] = @ - 1] : i \in 1..Len(words) - 1}
                 C == {[words EXCEPT ![i] = words[i + 1], ![i + 1] = words[i]] :
                         i \in 1..Len(words) - 1}
      <4>1. Others = OneChanged(words) \cup B \cup C
        BY Zenon DEF Others
      <4> HIDE DEF B, C
      <4>2. v \in OneChanged(words) \/ v \in B \/ v \in C
        BY <4>1
      <4> QED
        BY <4>2 DEF B, C
    <3>2. CASE v \in OneChanged(words)
      <4>1. PICK i, x : v = [words EXCEPT ![i] = x]
        BY <3>2 DEF OneChanged
      <4> QED
        BY <2>1, <4>1
    <3>3. CASE v \in {[words EXCEPT ![i] = @ + P, ![i + 1] = @ - 1] : i \in 1..Len(words) - 1}
      <4>1. PICK i : v = [words EXCEPT ![i] = @ + P, ![i + 1] = @ - 1]
        BY <3>3
      <4> QED
        BY <2>1, <4>1
    <3>4. CASE v \in {[words EXCEPT ![i] = words[i + 1], ![i + 1] = words[i]] :
                        i \in 1..Len(words) - 1}
      <4>1. PICK i : v = [words EXCEPT ![i] = words[i + 1], ![i + 1] = words[i]]
        BY <3>4
      <4> QED
        BY <2>1, <4>1
    <3> QED
      BY <3>1, <3>2, <3>3, <3>4
  <2>3. \A i \in 1..NUCoeffs : v[i] \in Base
    BY <2>2, CanonicalMeans
  <2>4. v \in [1..NUCoeffs -> Base]
    BY <2>2, <2>3
  <2> QED
    BY <1>1, <2>4 DEF OpensOnce, Trusted
<1> QED
  BY <1>1, Stamping, WordsTrusted, DigestOpensOnce, PTL

-----------------------------------------------------------------------------
(* Powers and mixed sums *)

\* The product by definition is the product as the code writes it (babybear.go:107-126).
LEMMA ProductByDefinition ==
  ASSUME NEW a \in E4, NEW b \in E4
  PROVE  RefMul(a, b) = E4Mul(a, b)
<1>1. \A i \in 1..4 : a[i] \in Int /\ b[i] \in Int
  BY AlreadyReduced DEF Ints4
<1> DEFINE l == RefMul(a, b)
           r == E4Mul(a, b)
<1>2. \A i \in 1..4 : \A j \in 1..4 : a[i] * b[j] \in Int
  BY <1>1
<1>3. ASSUME NEW x \in Int, NEW y \in Int
      PROVE  (x - Beta * y) % P = (x + N4 * y) % P
  <2>1. x + N4 * y = (x - Beta * y) + P * y /\ x - Beta * y \in Int
    BY Modulus DEF N4
  <2> QED
    BY <2>1, AnyTurns
<1> DEFINE at(m, i) == IF m - i \in 1..4 THEN a[i] * b[m - i] ELSE 0
           conv(m) == at(m, 1) + at(m, 2) + at(m, 3) + at(m, 4)
           x1 == a[1] * b[1]
           y1 == a[2] * b[4] + a[3] * b[3] + a[4] * b[2]
           x2 == a[1] * b[2] + a[2] * b[1]
           y2 == a[3] * b[4] + a[4] * b[3]
           x3 == a[1] * b[3] + a[2] * b[2] + a[3] * b[1]
           y3 == a[4] * b[4]
           x4 == a[1] * b[4] + a[2] * b[3] + a[3] * b[2] + a[4] * b[1]
<1>4. /\ l[1] = (x1 - Beta * y1) % P /\ l[2] = (x2 - Beta * y2) % P
      /\ l[3] = (x3 - Beta * y3) % P /\ l[4] = (x4 - Beta * 0) % P
  <2>1. l = [m \in 1..4 |-> (conv(m + 1) - Beta * conv(m + 5)) % P]
    BY DEF RefMul
  <2>2. conv(2) = x1 /\ conv(6) = y1
    BY <1>2
  <2>3. conv(3) = x2 /\ conv(7) = y2
    BY <1>2
  <2>4. conv(4) = x3 /\ conv(8) = y3
    BY <1>2
  <2>5. conv(5) = x4 /\ conv(9) = 0
    BY <1>2
  <2> HIDE DEF conv, x1, x2, x3, x4, y1, y2, y3, l
  <2>6. /\ l[1] = (conv(2) - Beta * conv(6)) % P /\ l[2] = (conv(3) - Beta * conv(7)) % P
        /\ l[3] = (conv(4) - Beta * conv(8)) % P /\ l[4] = (conv(5) - Beta * conv(9)) % P
    BY <2>1
  <2> QED
    BY <2>2, <2>3, <2>4, <2>5, <2>6
<1>5. /\ r[1] = (x1 + N4 * y1) % P /\ r[2] = (x2 + N4 * y2) % P
      /\ r[3] = (x3 + N4 * y3) % P /\ r[4] = x4 % P
  BY DEF E4Mul, Product, N4
<1>0. /\ x1 \in Int /\ x2 \in Int /\ x3 \in Int /\ x4 \in Int
      /\ y1 \in Int /\ y2 \in Int /\ y3 \in Int
  BY <1>2
<1> HIDE DEF x1, x2, x3, x4, y1, y2, y3
<1>6. l \in [1..4 -> Base] /\ r \in [1..4 -> Base]
  <2>1. l = [i \in 1..4 |-> l[i]]
    BY DEF RefMul
  <2>2. \A z \in Int : z % P \in Base
    BY Modulus DEF Base
  <2>3. l[1] \in Base /\ l[2] \in Base /\ l[3] \in Base /\ l[4] \in Base
    <3>1. /\ x1 - Beta * y1 \in Int /\ x2 - Beta * y2 \in Int
          /\ x3 - Beta * y3 \in Int /\ x4 - Beta * 0 \in Int
      BY <1>0, Modulus
    <3> HIDE DEF l
    <3> QED
      BY <1>4, <2>2, <3>1
  <2>4. \A i \in 1..4 : l[i] \in Base
    <3> HIDE DEF l
    <3> QED
      BY <2>3
  <2>5. r \in [1..4 -> Base]
    BY E4Typed DEF E4
  <2> QED
    BY <2>1, <2>4, <2>5
<1> HIDE DEF l, r
<1>7. l[1] = r[1]
  BY <1>0, <1>3, <1>4, <1>5
<1>8. l[2] = r[2]
  BY <1>0, <1>3, <1>4, <1>5
<1>9. l[3] = r[3]
  BY <1>0, <1>3, <1>4, <1>5
<1>10. l[4] = r[4]
  BY <1>0, <1>4, <1>5, Modulus
<1>11. l = r
  BY <1>6, <1>7, <1>8, <1>9, <1>10, Entries
<1> QED
  BY <1>11 DEF l, r

\* Powers, one after the other.
LEMMA PowerRun ==
  ASSUME NEW b \in E4, NEW n \in Nat
  PROVE  \E g \in [0..n -> E4] : /\ g[0] = E4One /\ E4Power(b, n) = g[n]
                                 /\ \A k \in 1..n : g[k] = E4Mul(g[k - 1], b)
<1> DEFINE F == [k \in 1..n |-> [x \in E4 |-> E4Mul(x, b)]]
           Pow(z) == z = [i \in 0..n |-> IF i = 0 THEN E4One ELSE E4Mul(z[i - 1], b)]
           pow == CHOOSE z : Pow(z)
<1>1. \A k \in 1..n : \A x \in E4 : F[k][x] = E4Mul(x, b) /\ F[k][x] \in E4
  BY E4Typed
<1>2. E4One \in E4
  BY E4Units
<1>3. E4Power(b, n) = pow[n]
  BY DEF E4Power
<1>4. \A k \in 1..n : k \in 0..n /\ k - 1 \in 0..n /\ k # 0
  OBVIOUS
<1> HIDE DEF F, Pow, pow
<1>5. PICK g \in [0..n -> E4] : g[0] = E4One /\ \A k \in 1..n : g[k] = F[k][g[k - 1]]
  <2>1. \E g : RunsIn(n, E4, E4One, F, g)
    BY <1>1, <1>2, RecursionIn
  <2> QED
    BY <2>1 DEF RunsIn
<1>6. \A k \in 1..n : g[k] = E4Mul(g[k - 1], b)
  BY <1>1, <1>4, <1>5
<1>7. Pow(g)
  <2>1. \A k \in 0..n : k = 0 \/ k \in 1..n
    OBVIOUS
  <2>2. \A k \in 0..n : g[k] = IF k = 0 THEN E4One ELSE E4Mul(g[k - 1], b)
    BY <1>5, <1>6, <2>1
  <2>3. g = [k \in 0..n |-> g[k]]
    BY <1>5
  <2> QED
    BY <2>2, <2>3 DEF Pow
<1>8. Pow(pow)
  BY <1>7 DEF pow
<1>9. pow[0] = E4One /\ \A k \in 1..n : pow[k] = E4Mul(pow[k - 1], b)
  <2>1. 0 \in 0..n
    OBVIOUS
  <2>2. pow = [i \in 0..n |-> IF i = 0 THEN E4One ELSE E4Mul(pow[i - 1], b)]
    BY <1>8 DEF Pow
  <2>3. \A i \in 0..n : pow[i] = IF i = 0 THEN E4One ELSE E4Mul(pow[i - 1], b)
    BY <2>2
  <2> QED
    BY <1>4, <2>1, <2>3
<1>10. Alike(n, pow, g)
  BY <1>5, <1>6, <1>9 DEF Alike
<1>11. \A k \in 0..n : pow[k] = g[k]
  BY <1>10, SameRun, Zenon
<1>12. n \in 0..n
  OBVIOUS
<1> QED
  BY <1>3, <1>5, <1>6, <1>11, <1>12

\* One power more is one factor more.
LEMMA PowerStep ==
  ASSUME NEW b \in E4, NEW n \in Nat
  PROVE  /\ E4Power(b, n) \in E4 /\ E4Power(b, 0) = E4One
         /\ E4Power(b, n + 1) = E4Mul(E4Power(b, n), b)
<1>1. PICK z \in [0..0 -> E4] : z[0] = E4One /\ E4Power(b, 0) = z[0]
  BY PowerRun, 0 \in Nat
<1>2. PICK g \in [0..n -> E4] : /\ g[0] = E4One /\ E4Power(b, n) = g[n]
                                /\ \A k \in 1..n : g[k] = E4Mul(g[k - 1], b)
  BY PowerRun
<1>3. PICK h \in [0..n + 1 -> E4] :
        /\ h[0] = E4One /\ E4Power(b, n + 1) = h[n + 1]
        /\ \A k \in 1..n + 1 : h[k] = E4Mul(h[k - 1], b)
  <2>1. n + 1 \in Nat
    OBVIOUS
  <2> QED
    BY <2>1, PowerRun
<1>4. Alike(n, g, h)
  <2>1. \A k \in 1..n : k \in 1..n + 1
    OBVIOUS
  <2> QED
    BY <1>2, <1>3, <2>1 DEF Alike
<1>5. \A k \in 0..n : g[k] = h[k]
  BY <1>4, SameRun
<1>6. n \in 0..n /\ n + 1 \in 1..n + 1 /\ (n + 1) - 1 = n
  OBVIOUS
<1>7. h[n + 1] = E4Mul(h[n], b)
  BY <1>3, <1>6
<1> QED
  BY <1>1, <1>2, <1>3, <1>5, <1>6, <1>7

\* Powers multiply by adding the exponents.
LEMMA PowerAdds ==
  ASSUME NEW b \in E4, NEW n \in Nat, NEW m \in Nat
  PROVE  E4Power(b, n + m) = E4Mul(E4Power(b, n), E4Power(b, m))
<1> DEFINE S == {k \in Nat : E4Power(b, n + k) = E4Mul(E4Power(b, n), E4Power(b, k))}
<1>1. 0 \in S
  <2>1. E4Power(b, n) \in E4 /\ E4Power(b, 0) = E4One
    BY PowerStep
  <2>2. E4Mul(E4Power(b, n), E4One) = E4Power(b, n)
    BY <2>1, E4Units
  <2> QED
    BY <2>1, <2>2
<1>2. ASSUME NEW k \in S PROVE k + 1 \in S
  <2>1. k \in Nat /\ n + k \in Nat /\ k + 1 \in Nat /\ n + (k + 1) = (n + k) + 1
    OBVIOUS
  <2>2. E4Power(b, (n + k) + 1) = E4Mul(E4Power(b, n + k), b)
    BY <2>1, PowerStep
  <2>3. E4Power(b, k + 1) = E4Mul(E4Power(b, k), b) /\ E4Power(b, k) \in E4 /\ E4Power(b, n) \in E4
    BY <2>1, PowerStep
  <2>4. E4Power(b, n + k) = E4Mul(E4Power(b, n), E4Power(b, k))
    BY <1>2
  <2>5. E4Mul(E4Mul(E4Power(b, n), E4Power(b, k)), b) = E4Mul(E4Power(b, n), E4Mul(E4Power(b, k), b))
    BY <2>3, E4Associates
  <2> QED
    BY <2>1, <2>2, <2>3, <2>4, <2>5
<1>3. S \in SUBSET Nat
  OBVIOUS
<1> HIDE DEF S
<1>4. S = Nat
  BY <1>1, <1>2, <1>3, SetInduction
<1> QED
  BY <1>4 DEF S

\* The sums by which terms are mixed, from the last term to the first.
LEMMA MixedRun ==
  ASSUME NEW t \in Seq(E4), NEW m \in E4
  PROVE  \E g \in [0..Len(t) -> E4] :
           /\ g[0] = E4Zero /\ Mixed(t, m) = g[Len(t)]
           /\ \A k \in 1..Len(t) : g[k] = E4Add(E4Mul(g[k - 1], m), t[Len(t) + 1 - k])
<1> DEFINE n == Len(t)
           F == [k \in 1..n |-> [x \in E4 |-> E4Add(RefMul(x, m), t[n + 1 - k])]]
           Sum(z) == z = [i \in 0..n |-> IF i = 0 THEN E4Zero
                                         ELSE E4Add(RefMul(z[i - 1], m), t[n + 1 - i])]
           sum == CHOOSE z : Sum(z)
<1>0. n \in Nat
  OBVIOUS
<1>1. \A k \in 1..n : t[n + 1 - k] \in E4
  <2>1. \A k \in 1..n : n + 1 - k \in 1..n
    OBVIOUS
  <2>2. \A k \in 1..n : t[k] \in E4
    OBVIOUS
  <2> HIDE DEF n
  <2> QED
    BY <2>1, <2>2
<1>2. Mixed(t, m) = sum[n]
  BY DEF Mixed
<1> HIDE DEF n
<1>3. \A k \in 1..n : \A x \in E4 : /\ F[k][x] = E4Add(E4Mul(x, m), t[n + 1 - k])
                                    /\ F[k][x] \in E4
  <2>1. \A x \in E4 : RefMul(x, m) = E4Mul(x, m) /\ E4Mul(x, m) \in E4
    BY ProductByDefinition, E4Typed
  <2> QED
    BY <1>1, <2>1, E4Typed
<1>4. E4Zero \in E4
  <2>1. \E x : x \in E4
    OBVIOUS
  <2> QED
    BY E4Units
<1>5. \A k \in 1..n : k \in 0..n /\ k - 1 \in 0..n /\ k # 0
  BY <1>0
<1> HIDE DEF F, Sum, sum
<1>6. PICK g \in [0..n -> E4] : g[0] = E4Zero /\ \A k \in 1..n : g[k] = F[k][g[k - 1]]
  <2>1. \E g : RunsIn(n, E4, E4Zero, F, g)
    BY <1>0, <1>3, <1>4, RecursionIn
  <2> QED
    BY <2>1 DEF RunsIn
<1>7. \A k \in 1..n : g[k] = E4Add(E4Mul(g[k - 1], m), t[n + 1 - k])
  BY <1>3, <1>5, <1>6
<1>8. Sum(g)
  <2>1. \A k \in 0..n : k = 0 \/ k \in 1..n
    BY <1>0
  <2>2. \A k \in 0..n : g[k] = IF k = 0 THEN E4Zero
                               ELSE E4Add(RefMul(g[k - 1], m), t[n + 1 - k])
    <3>1. \A k \in 1..n : RefMul(g[k - 1], m) = E4Mul(g[k - 1], m)
      BY <1>5, <1>6, ProductByDefinition
    <3> QED
      BY <1>6, <1>7, <2>1, <3>1
  <2>3. g = [k \in 0..n |-> g[k]]
    BY <1>6
  <2> QED
    BY <2>2, <2>3 DEF Sum
<1>9. Sum(sum)
  BY <1>8 DEF sum
<1>10. sum[0] = E4Zero
       /\ \A k \in 1..n : sum[k] = E4Add(RefMul(sum[k - 1], m), t[n + 1 - k])
  <2>1. 0 \in 0..n
    BY <1>0
  <2>2. sum = [i \in 0..n |-> IF i = 0 THEN E4Zero
                               ELSE E4Add(RefMul(sum[i - 1], m), t[n + 1 - i])]
    BY <1>9 DEF Sum
  <2>3. \A i \in 0..n : sum[i] = IF i = 0 THEN E4Zero
                                 ELSE E4Add(RefMul(sum[i - 1], m), t[n + 1 - i])
    BY <2>2
  <2> QED
    BY <1>5, <2>1, <2>3
<1>11. Alike(n, sum, g)
  <2>1. \A k \in 1..n : RefMul(g[k - 1], m) = E4Mul(g[k - 1], m)
    BY <1>5, <1>6, ProductByDefinition
  <2> QED
    BY <1>6, <1>7, <1>10, <2>1 DEF Alike
<1>12. \A k \in 0..n : sum[k] = g[k]
  BY <1>0, <1>11, SameRun, Zenon
<1>13. n \in 0..n
  BY <1>0
<1> QED
  BY <1>2, <1>6, <1>7, <1>12, <1>13 DEF n

\* A mixed sum is an element.
LEMMA MixedTyped ==
  ASSUME NEW t \in Seq(E4), NEW m \in E4
  PROVE  Mixed(t, m) \in E4
<1>1. PICK g \in [0..Len(t) -> E4] : Mixed(t, m) = g[Len(t)]
  BY MixedRun
<1>2. Len(t) \in 0..Len(t)
  OBVIOUS
<1> QED
  BY <1>1, <1>2

\* Nothing mixed is zero.
LEMMA MixedNone ==
  ASSUME NEW m \in E4
  PROVE  Mixed(<<>>, m) = E4Zero
<1>1. <<>> \in Seq(E4) /\ Len(<<>>) = 0
  OBVIOUS
<1>2. PICK g \in [0..Len(<<>>) -> E4] : g[0] = E4Zero /\ Mixed(<<>>, m) = g[Len(<<>>)]
  BY <1>1, MixedRun
<1> QED
  BY <1>1, <1>2

\* Two lists of terms, one after the other: the second has the powers the first one left.
LEMMA MixedJoins ==
  ASSUME NEW t \in Seq(E4), NEW u \in Seq(E4), NEW m \in E4
  PROVE  Mixed(t \o u, m) = E4Add(Mixed(t, m), E4Mul(E4Power(m, Len(t)), Mixed(u, m)))
<1> DEFINE s == t \o u
           n == Len(t)
           k == Len(u)
           U == Mixed(u, m)
<1>1. n \in Nat /\ k \in Nat /\ s \in Seq(E4) /\ Len(s) = n + k /\ U \in E4
  BY MixedTyped
<1>2. /\ \A i \in 1..n : s[i] = t[i] /\ t[i] \in E4
      /\ \A i \in 1..k : s[n + i] = u[i]
  OBVIOUS
<1>3. PICK gs \in [0..n + k -> E4] :
        /\ gs[0] = E4Zero /\ Mixed(s, m) = gs[n + k]
        /\ \A i \in 1..n + k : gs[i] = E4Add(E4Mul(gs[i - 1], m), s[n + k + 1 - i])
  <2> HIDE DEF s, n, k
  <2>1. \E g \in [0..Len(s) -> E4] :
          /\ g[0] = E4Zero /\ Mixed(s, m) = g[Len(s)]
          /\ \A i \in 1..Len(s) : g[i] = E4Add(E4Mul(g[i - 1], m), s[Len(s) + 1 - i])
    BY <1>1, MixedRun
  <2>2. Len(s) = n + k
    BY <1>1
  <2> QED
    BY <2>1, <2>2
<1>4. PICK gt \in [0..n -> E4] :
        /\ gt[0] = E4Zero /\ Mixed(t, m) = gt[n]
        /\ \A i \in 1..n : gt[i] = E4Add(E4Mul(gt[i - 1], m), t[n + 1 - i])
  BY MixedRun
<1>5. PICK gu \in [0..k -> E4] :
        /\ gu[0] = E4Zero /\ U = gu[k]
        /\ \A i \in 1..k : gu[i] = E4Add(E4Mul(gu[i - 1], m), u[k + 1 - i])
  BY MixedRun
<1> HIDE DEF s, n, k, U
<1>6. gs[k] = U
  <2>1. ASSUME NEW i \in 1..k, gu[i - 1] = gs[i - 1]
        PROVE  gu[i] = gs[i]
    <3>1. i \in 1..n + k /\ k + 1 - i \in 1..k /\ n + k + 1 - i = n + (k + 1 - i)
      BY <1>1
    <3>2. s[n + k + 1 - i] = u[k + 1 - i]
      BY <1>2, <3>1
    <3> QED
      BY <1>3, <1>5, <2>1, <3>1, <3>2
  <2>2. Alike(k, gu, gs)
    BY <1>3, <1>5, <2>1 DEF Alike
  <2>3. \A i \in 0..k : gu[i] = gs[i]
    <3>1. k \in Nat
      BY <1>1
    <3> QED
      BY <2>2, <3>1, SameRun
  <2>4. k \in 0..k
    BY <1>1
  <2> QED
    BY <1>5, <2>3, <2>4
<1> DEFINE S == {j \in 0..n : gs[k + j] = E4Add(gt[j], E4Mul(E4Power(m, j), U))}
<1>7. 0 \in S
  <2>1. E4Power(m, 0) = E4One
    BY PowerStep, 0 \in Nat
  <2>2. E4Mul(E4One, U) = U /\ E4Add(E4Zero, U) = U
    BY <1>1, E4Units
  <2>3. 0 \in 0..n /\ k + 0 = k
    BY <1>1
  <2> QED
    BY <1>4, <1>6, <2>1, <2>2, <2>3
<1>8. ASSUME NEW j \in 1..n, j - 1 \in S
      PROVE  j \in S
  <2> DEFINE w == E4Power(m, j - 1)
             a == gt[j - 1]
             x == t[n + 1 - j]
  <2>1. /\ j - 1 \in Nat /\ j \in 0..n /\ j - 1 \in 0..n /\ (j - 1) + 1 = j
        /\ k + j \in 1..n + k /\ (k + j) - 1 = k + (j - 1)
        /\ n + k + 1 - (k + j) = n + 1 - j /\ n + 1 - j \in 1..n
    BY <1>1
  <2>2. w \in E4 /\ E4Power(m, j) = E4Mul(w, m)
    <3>1. E4Power(m, j - 1) \in E4 /\ E4Power(m, (j - 1) + 1) = E4Mul(E4Power(m, j - 1), m)
      BY <2>1, PowerStep
    <3> QED
      BY <2>1, <3>1
  <2>3. a \in E4 /\ x \in E4 /\ s[n + k + 1 - (k + j)] = x
    BY <1>2, <1>4, <2>1
  <2>4. gs[k + (j - 1)] = E4Add(a, E4Mul(w, U))
    BY <1>8
  <2>5. gs[k + j] = E4Add(E4Mul(gs[k + (j - 1)], m), x)
    BY <1>3, <2>1, <2>3
  <2>6. gt[j] = E4Add(E4Mul(a, m), x)
    BY <1>4
  <2> HIDE DEF w, a, x
  <2> DEFINE wU == E4Mul(w, U)
             am == E4Mul(a, m)
             wm == E4Mul(w, m)
             v == E4Mul(wm, U)
  <2>7. wU \in E4 /\ am \in E4 /\ wm \in E4 /\ v \in E4
    BY <1>1, <2>2, <2>3, E4Typed
  <2>8. E4Mul(E4Add(a, wU), m) = E4Add(am, E4Mul(wU, m))
    BY <2>3, <2>7, E4Distributes
  <2>9. E4Mul(wU, m) = v
    <3>1. E4Mul(wU, m) = E4Mul(w, E4Mul(U, m))
      BY <1>1, <2>2, E4Associates
    <3>2. E4Mul(U, m) = E4Mul(m, U)
      BY <1>1, E4Commutes
    <3>3. E4Mul(w, E4Mul(m, U)) = v
      BY <1>1, <2>2, E4Associates
    <3> QED
      BY <3>1, <3>2, <3>3
  <2>10. E4Add(E4Add(am, v), x) = E4Add(E4Add(am, x), v)
    <3> HIDE DEF wU, am, wm, v
    <3>1. E4Add(E4Add(am, v), x) = E4Add(am, E4Add(v, x))
      BY <2>3, <2>7, E4AddAssociates
    <3>2. E4Add(v, x) = E4Add(x, v)
      BY <2>3, <2>7, E4Commutes
    <3>3. E4Add(am, E4Add(x, v)) = E4Add(E4Add(am, x), v)
      BY <2>3, <2>7, E4AddAssociates
    <3> QED
      BY <3>1, <3>2, <3>3
  <2>11. gs[k + j] = E4Add(gt[j], E4Mul(E4Power(m, j), U))
    BY <2>2, <2>4, <2>5, <2>6, <2>8, <2>9, <2>10
  <2> QED
    BY <2>1, <2>11
<1> HIDE DEF S
<1>9. \A j \in 0..n : j \in S
  BY <1>1, <1>7, <1>8, InductionTo
<1>10. n \in 0..n /\ k + n = n + k
  BY <1>1
<1>11. gs[n + k] = E4Add(gt[n], E4Mul(E4Power(m, n), U))
  BY <1>9, <1>10 DEF S
<1> QED
  BY <1>3, <1>4, <1>11 DEF s, n, U

\* One term more comes with the next free power (deep_polyext.go:121-126).
LEMMA MixedOne ==
  ASSUME NEW t \in Seq(E4), NEW x \in E4, NEW m \in E4
  PROVE  Mixed(Append(t, x), m) = E4Add(Mixed(t, m), E4Mul(E4Power(m, Len(t)), x))
<1>1. <<x>> \in Seq(E4) /\ Len(<<x>>) = 1 /\ <<x>>[1] = x
  OBVIOUS
<1>2. PICK g \in [0..1 -> E4] :
        /\ g[0] = E4Zero /\ Mixed(<<x>>, m) = g[1]
        /\ \A i \in 1..1 : g[i] = E4Add(E4Mul(g[i - 1], m), <<x>>[1 + 1 - i])
  <2> DEFINE u == <<x>>
  <2>1. u \in Seq(E4) /\ Len(u) = 1
    BY <1>1
  <2> HIDE DEF u
  <2>2. \E g \in [0..1 -> E4] :
          /\ g[0] = E4Zero /\ Mixed(u, m) = g[1]
          /\ \A i \in 1..1 : g[i] = E4Add(E4Mul(g[i - 1], m), u[1 + 1 - i])
    <3>1. \E g \in [0..Len(u) -> E4] :
            /\ g[0] = E4Zero /\ Mixed(u, m) = g[Len(u)]
            /\ \A i \in 1..Len(u) : g[i] = E4Add(E4Mul(g[i - 1], m), u[Len(u) + 1 - i])
      BY <2>1, MixedRun
    <3> QED
      BY <2>1, <3>1
  <2> QED
    BY <2>2 DEF u
<1>3. g[1] = E4Add(E4Mul(E4Zero, m), x)
  <2>1. 1 \in 1..1 /\ 1 - 1 = 0 /\ 1 + 1 - 1 = 1
    OBVIOUS
  <2> QED
    BY <1>1, <1>2, <2>1
<1>4. g[1] = x
  BY <1>3, E4Units
<1>5. Append(t, x) = t \o <<x>>
  OBVIOUS
<1>6. Mixed(t \o <<x>>, m) = E4Add(Mixed(t, m), E4Mul(E4Power(m, Len(t)), Mixed(<<x>>, m)))
  BY <1>1, MixedJoins
<1> QED
  BY <1>2, <1>4, <1>5, <1>6

\* What every term is multiplied by, the sum is.
LEMMA MixedScales ==
  ASSUME NEW u \in Seq(E4), NEW x \in E4, NEW m \in E4
  PROVE  LET v == [i \in 1..Len(u) |-> RefMul(x, u[i])]
         IN  v \in Seq(E4) /\ Len(v) = Len(u) /\ Mixed(v, m) = E4Mul(x, Mixed(u, m))
<1> DEFINE v == [i \in 1..Len(u) |-> RefMul(x, u[i])]
           k == Len(u)
<1>1. k \in Nat /\ \A i \in 1..k : u[i] \in E4
  OBVIOUS
<1>2. \A i \in 1..k : v[i] = E4Mul(x, u[i]) /\ v[i] \in E4
  BY <1>1, ProductByDefinition, E4Typed
<1>3. v \in Seq(E4) /\ Len(v) = k
  <2>1. v = [i \in 1..k |-> v[i]]
    OBVIOUS
  <2> HIDE DEF v, k
  <2>2. v \in [1..k -> E4]
    BY <1>2, <2>1
  <2> QED
    BY <1>1, <2>2
<1>4. PICK gu \in [0..k -> E4] :
        /\ gu[0] = E4Zero /\ Mixed(u, m) = gu[k]
        /\ \A i \in 1..k : gu[i] = E4Add(E4Mul(gu[i - 1], m), u[k + 1 - i])
  BY MixedRun
<1> HIDE DEF v, k
<1>5. PICK gv \in [0..k -> E4] :
        /\ gv[0] = E4Zero /\ Mixed(v, m) = gv[k]
        /\ \A i \in 1..k : gv[i] = E4Add(E4Mul(gv[i - 1], m), v[k + 1 - i])
  BY <1>3, MixedRun
<1> DEFINE S == {j \in 0..k : gv[j] = E4Mul(x, gu[j])}
<1>6. 0 \in S
  <2>1. E4Mul(x, E4Zero) = E4Zero /\ 0 \in 0..k
    BY <1>1, E4Units
  <2> QED
    BY <1>4, <1>5, <2>1
<1>7. ASSUME NEW j \in 1..k, j - 1 \in S
      PROVE  j \in S
  <2> DEFINE a == gu[j - 1]
             y == u[k + 1 - j]
  <2>1. j - 1 \in 0..k /\ j \in 0..k /\ k + 1 - j \in 1..k
    BY <1>1
  <2>2. a \in E4 /\ y \in E4 /\ v[k + 1 - j] = E4Mul(x, y)
    BY <1>1, <1>2, <1>4, <2>1
  <2>3. gv[j - 1] = E4Mul(x, a)
    BY <1>7
  <2>4. gv[j] = E4Add(E4Mul(E4Mul(x, a), m), E4Mul(x, y))
    BY <1>5, <2>2, <2>3
  <2>5. gu[j] = E4Add(E4Mul(a, m), y)
    BY <1>4
  <2> HIDE DEF a, y
  <2>6. E4Mul(E4Mul(x, a), m) = E4Mul(x, E4Mul(a, m)) /\ E4Mul(a, m) \in E4
    BY <2>2, E4Associates, E4Typed
  <2>7. E4Add(E4Mul(x, E4Mul(a, m)), E4Mul(x, y)) = E4Mul(x, E4Add(E4Mul(a, m), y))
    <3> DEFINE b == E4Mul(a, m)
    <3>1. b \in E4
      BY <2>6
    <3> HIDE DEF b
    <3>2. E4Mul(E4Add(b, y), x) = E4Add(E4Mul(b, x), E4Mul(y, x))
      BY <2>2, <3>1, E4Distributes
    <3>3. E4Mul(b, x) = E4Mul(x, b) /\ E4Mul(y, x) = E4Mul(x, y)
      BY <2>2, <3>1, E4Commutes
    <3>4. E4Add(b, y) \in E4
      BY <2>2, <3>1, E4Typed
    <3>5. E4Mul(E4Add(b, y), x) = E4Mul(x, E4Add(b, y))
      BY <3>4, E4Commutes
    <3> QED
      BY <3>2, <3>3, <3>5 DEF b
  <2> QED
    BY <2>1, <2>4, <2>5, <2>6, <2>7
<1> HIDE DEF S
<1>8. \A j \in 0..k : j \in S
  BY <1>1, <1>6, <1>7, InductionTo
<1>9. gv[k] = E4Mul(x, gu[k])
  BY <1>1, <1>8 DEF S
<1>10. v \in Seq(E4) /\ Len(v) = k /\ Mixed(v, m) = E4Mul(x, Mixed(u, m))
  BY <1>3, <1>4, <1>5, <1>9
<1> QED
  BY <1>10 DEF v, k

-----------------------------------------------------------------------------
(* The step program by definition *)

\* How many registers are filled, step by step.
LEMMA FilledCounts ==
  /\ Filled[0] = 0
  /\ \A n \in 1..Len(Block) :
       Filled[n] = IF Block[n][1] \in MixOps THEN Filled[n - 1] ELSE Filled[n - 1] + 1
  /\ \A n \in 0..Len(Block) : Filled[n] \in 0..n
<1> DEFINE L == Len(Block)
           F == [k \in 1..L |-> [x \in Nat |-> IF Block[k][1] \in MixOps THEN x ELSE x + 1]]
           Is(z) == z = [n \in 0..L |-> IF n = 0 THEN 0
                                        ELSE IF Block[n][1] \in MixOps THEN z[n - 1]
                                        ELSE z[n - 1] + 1]
<1>1. L \in Nat
  BY BlockAssumption
<1>2. Filled = CHOOSE z : Is(z)
  BY DEF Filled
<1> HIDE DEF L, Is
<1>3. \A k \in 1..L : \A x \in Nat :
        F[k][x] = (IF Block[k][1] \in MixOps THEN x ELSE x + 1) /\ F[k][x] \in Nat
  OBVIOUS
<1>4. \A k \in 1..L : k \in 0..L /\ k - 1 \in 0..L /\ k # 0
  BY <1>1
<1> HIDE DEF F
<1>5. PICK g \in [0..L -> Nat] : g[0] = 0 /\ \A k \in 1..L : g[k] = F[k][g[k - 1]]
  <2>1. \E g : RunsIn(L, Nat, 0, F, g)
    BY <1>1, <1>3, RecursionIn
  <2> QED
    BY <2>1 DEF RunsIn
<1>6. \A k \in 1..L : g[k] = IF Block[k][1] \in MixOps THEN g[k - 1] ELSE g[k - 1] + 1
  BY <1>3, <1>4, <1>5
<1>7. Is(g)
  <2>1. \A k \in 0..L : k = 0 \/ k \in 1..L
    BY <1>1
  <2>2. \A k \in 0..L : g[k] = IF k = 0 THEN 0
                               ELSE IF Block[k][1] \in MixOps THEN g[k - 1] ELSE g[k - 1] + 1
    BY <1>5, <1>6, <2>1
  <2>3. g = [k \in 0..L |-> g[k]]
    BY <1>5
  <2> QED
    BY <2>2, <2>3 DEF Is
<1>8. Is(Filled)
  BY <1>2, <1>7
<1>9. Filled[0] = 0
      /\ \A n \in 1..L : Filled[n] = IF Block[n][1] \in MixOps THEN Filled[n - 1]
                                     ELSE Filled[n - 1] + 1
  <2>1. 0 \in 0..L
    BY <1>1
  <2>2. Filled = [n \in 0..L |-> IF n = 0 THEN 0
                                 ELSE IF Block[n][1] \in MixOps THEN Filled[n - 1]
                                 ELSE Filled[n - 1] + 1]
    BY <1>8 DEF Is
  <2>3. \A n \in 0..L : Filled[n] = IF n = 0 THEN 0
                                    ELSE IF Block[n][1] \in MixOps THEN Filled[n - 1]
                                    ELSE Filled[n - 1] + 1
    BY <2>2
  <2> QED
    BY <1>4, <2>1, <2>3
<1> DEFINE S == {n \in 0..L : Filled[n] \in 0..n}
<1>10. 0 \in S
  BY <1>1, <1>9
<1>11. ASSUME NEW k \in 1..L, k - 1 \in S
       PROVE  k \in S
  <2>1. k \in 0..L /\ Filled[k - 1] \in 0..k - 1
    BY <1>4, <1>11
  <2>2. Filled[k] = Filled[k - 1] \/ Filled[k] = Filled[k - 1] + 1
    BY <1>9
  <2> QED
    BY <1>1, <2>1, <2>2
<1> HIDE DEF S
<1>12. \A n \in 0..L : n \in S
  BY <1>1, <1>10, <1>11, InductionTo
<1>13. \A n \in 0..L : Filled[n] \in 0..n
  BY <1>12 DEF S
<1> QED
  BY <1>9, <1>13 DEF L

\* v values, and the terms of m mix registers.
RefStates(v, m) ==
  {s \in [fp : Seq(E4), terms : Seq(Seq(E4))] : Len(s.fp) = v /\ Len(s.terms) = m}

\* A register more in either bank.
LEMMA Filling ==
  ASSUME NEW a, NEW b, NEW c
  PROVE  /\ [[fp |-> a, terms |-> b] EXCEPT !.fp = c] = [fp |-> c, terms |-> b]
         /\ [[fp |-> a, terms |-> b] EXCEPT !.terms = c] = [fp |-> a, terms |-> c]
OBVIOUS

\* A well-formed step fills the next register of its bank, from registers of the right types.
LEMMA MeaningTyped ==
  ASSUME NEW v \in Nat, NEW m \in Nat, NEW s \in RefStates(v, m), NEW st, Formed(st, v, m),
         NEW taps \in [1..TapSize -> E4], NEW acc \in Base
  PROVE  Meaning(st, s, taps, acc) \in
           RefStates(IF st[1] \in MixOps THEN v ELSE v + 1, IF st[1] \in MixOps THEN m + 1 ELSE m)
<1>1. /\ s.fp \in Seq(E4) /\ Len(s.fp) = v /\ s.terms \in Seq(Seq(E4)) /\ Len(s.terms) = m
      /\ s = [fp |-> s.fp, terms |-> s.terms]
  BY DEF RefStates
<1>2. \A i \in 0..v - 1 : s.fp[i + 1] \in E4
  BY <1>1
<1>3. \A i \in 0..m - 1 : s.terms[i + 1] \in Seq(E4)
  BY <1>1
<1>0. PICK a \in Seq(E4), b \in Seq(Seq(E4)) :
        /\ s = [fp |-> a, terms |-> b] /\ a = s.fp /\ b = s.terms /\ Len(a) = v /\ Len(b) = m
  BY <1>1
<1>4. ASSUME NEW e \in E4
      PROVE  [s EXCEPT !.fp = Append(@, e)] \in RefStates(v + 1, m)
  <2> DEFINE c == Append(a, e)
  <2>1. c \in Seq(E4) /\ Len(c) = v + 1
    BY <1>0
  <2>2. [s EXCEPT !.fp = Append(@, e)] = [fp |-> c, terms |-> b]
    <3>1. [s EXCEPT !.fp = Append(@, e)] = [s EXCEPT !.fp = c]
      BY <1>0
    <3> HIDE DEF c
    <3> QED
      BY <1>0, <3>1, Filling
  <2> HIDE DEF c
  <2>3. [fp |-> c, terms |-> b] \in RefStates(v + 1, m)
    BY <1>0, <2>1 DEF RefStates
  <2> QED
    BY <2>2, <2>3
<1>5. ASSUME NEW t \in Seq(E4)
      PROVE  [s EXCEPT !.terms = Append(@, t)] \in RefStates(v, m + 1)
  <2> DEFINE c == Append(b, t)
  <2>1. c \in Seq(Seq(E4)) /\ Len(c) = m + 1
    BY <1>0
  <2>2. [s EXCEPT !.terms = Append(@, t)] = [fp |-> a, terms |-> c]
    <3>1. [s EXCEPT !.terms = Append(@, t)] = [s EXCEPT !.terms = c]
      BY <1>0
    <3> HIDE DEF c
    <3> QED
      BY <1>0, <3>1, Filling
  <2> HIDE DEF c
  <2>3. [fp |-> a, terms |-> c] \in RefStates(v, m + 1)
    BY <1>0, <2>1 DEF RefStates
  <2> QED
    BY <2>2, <2>3
<1>6. CASE st[1] = "Const" /\ st[2] \in Base
  <2>1. Meaning(st, s, taps, acc) = [s EXCEPT !.fp = Append(@, E4From(st[2]))]
    BY <1>6 DEF Meaning
  <2>2. st[1] \notin MixOps
    BY <1>6 DEF MixOps
  <2> QED
    BY <1>4, <1>6, <2>1, <2>2, FromBase
<1>7. CASE st[1] = "ConstExt" /\ Tail(st) \in E4
  <2>1. Meaning(st, s, taps, acc) = [s EXCEPT !.fp = Append(@, Tail(st))]
    BY <1>7 DEF Meaning
  <2>2. st[1] \notin MixOps
    BY <1>7 DEF MixOps
  <2> QED
    BY <1>4, <1>7, <2>1, <2>2
<1>8. CASE st[1] = "Get" /\ st[2] + 1 \in 1..TapSize
  <2>1. Meaning(st, s, taps, acc) = [s EXCEPT !.fp = Append(@, taps[st[2] + 1])]
    BY <1>8 DEF Meaning
  <2>2. st[1] \notin MixOps
    BY <1>8 DEF MixOps
  <2> QED
    BY <1>4, <1>8, <2>1, <2>2
<1>9. CASE st[1] = "GetGlobal" /\ (st[2] = 0 => st[3] + 1 \in DOMAIN GlobalsOut)
  <2> DEFINE x == IF st[2] = 0 THEN GlobalsOut[st[3] + 1] ELSE acc
  <2>1. Meaning(st, s, taps, acc) = [s EXCEPT !.fp = Append(@, E4From(x))]
    BY <1>9 DEF Meaning
  <2>2. st[1] \notin MixOps
    BY <1>9 DEF MixOps
  <2>3. x \in Base
    BY <1>9, BlockAssumption
  <2> HIDE DEF x
  <2> QED
    BY <1>4, <2>1, <2>2, <2>3, FromBase
<1>10. CASE st[1] \in {"Add", "Sub", "Mul"} /\ st[2] \in 0..v - 1 /\ st[3] \in 0..v - 1
  <2> DEFINE x == s.fp[st[2] + 1]
             y == s.fp[st[3] + 1]
  <2>1. x \in E4 /\ y \in E4
    BY <1>2, <1>10
  <2>2. \/ Meaning(st, s, taps, acc) = [s EXCEPT !.fp = Append(@, E4Add(x, y))]
        \/ Meaning(st, s, taps, acc) = [s EXCEPT !.fp = Append(@, E4Sub(x, y))]
        \/ Meaning(st, s, taps, acc) = [s EXCEPT !.fp = Append(@, RefMul(x, y))]
    BY <1>10 DEF Meaning
  <2>3. st[1] \notin MixOps
    BY <1>10 DEF MixOps
  <2> HIDE DEF x, y
  <2>4. E4Add(x, y) \in E4 /\ E4Sub(x, y) \in E4 /\ RefMul(x, y) \in E4
    BY <2>1, E4Typed, ProductByDefinition
  <2> QED
    BY <1>4, <2>2, <2>3, <2>4
<1>11. CASE st[1] = "True"
  <2>1. Meaning(st, s, taps, acc) = [s EXCEPT !.terms = Append(@, <<>>)]
    BY <1>11 DEF Meaning
  <2>2. st[1] \in MixOps /\ <<>> \in Seq(E4)
    BY <1>11 DEF MixOps
  <2> QED
    BY <1>5, <2>1, <2>2
<1>12. CASE st[1] = "AndEqz" /\ st[2] \in 0..m - 1 /\ st[3] \in 0..v - 1
  <2> DEFINE t == s.terms[st[2] + 1]
             x == s.fp[st[3] + 1]
  <2>1. t \in Seq(E4) /\ x \in E4
    BY <1>2, <1>3, <1>12
  <2>2. Meaning(st, s, taps, acc) = [s EXCEPT !.terms = Append(@, Append(t, x))]
    BY <1>12 DEF Meaning
  <2>3. st[1] \in MixOps
    BY <1>12 DEF MixOps
  <2> HIDE DEF t, x
  <2>4. Append(t, x) \in Seq(E4)
    BY <2>1
  <2> QED
    BY <1>5, <2>2, <2>3, <2>4
<1>13. CASE /\ st[1] = "AndCond" /\ st[2] \in 0..m - 1 /\ st[3] \in 0..v - 1
            /\ st[4] \in 0..m - 1
  <2> DEFINE t == s.terms[st[2] + 1]
             x == s.fp[st[3] + 1]
             u == s.terms[st[4] + 1]
             w == [i \in 1..Len(u) |-> RefMul(x, u[i])]
  <2>1. t \in Seq(E4) /\ x \in E4 /\ u \in Seq(E4)
    BY <1>2, <1>3, <1>13
  <2>2. Meaning(st, s, taps, acc) = [s EXCEPT !.terms = Append(@, t \o w)]
    BY <1>13 DEF Meaning
  <2>3. st[1] \in MixOps
    BY <1>13 DEF MixOps
  <2> HIDE DEF t, x, u
  <2>4. w \in Seq(E4)
    <3>1. Len(u) \in Nat /\ \A i \in 1..Len(u) : u[i] \in E4
      BY <2>1
    <3>2. \A i \in 1..Len(u) : RefMul(x, u[i]) \in E4
      BY <2>1, <3>1, ProductByDefinition, E4Typed
    <3> QED
      BY <3>1, <3>2
  <2> HIDE DEF w
  <2>5. t \o w \in Seq(E4)
    BY <2>1, <2>4
  <2> QED
    BY <1>5, <2>2, <2>3, <2>5
<1> QED
  BY <1>6, <1>7, <1>8, <1>9, <1>10, <1>11, <1>12, <1>13 DEF Formed

\* What the program means, step by step.
LEMMA ReferenceSteps ==
  ASSUME NEW taps \in [1..TapSize -> E4], NEW acc \in Base
  PROVE  /\ Reference(0, taps, acc) = [fp |-> <<>>, terms |-> <<>>]
         /\ \A n \in 0..Len(Block) :
              Reference(n, taps, acc) \in RefStates(Filled[n], n - Filled[n])
         /\ \A n \in 1..Len(Block) :
              Reference(n, taps, acc) = Meaning(Block[n], Reference(n - 1, taps, acc), taps, acc)
<1> DEFINE L == Len(Block)
           T == [k \in 0..L |-> RefStates(Filled[k], k - Filled[k])]
           F == [k \in 1..L |-> [s \in T[k - 1] |-> Meaning(Block[k], s, taps, acc)]]
           a == [fp |-> <<>>, terms |-> <<>>]
<1>1. L \in Nat
  BY BlockAssumption
<1> HIDE DEF L
<1>2. \A k \in 1..L : k \in 0..L /\ k - 1 \in 0..L /\ k # 0
  BY <1>1
<1>3. \A k \in 0..L : T[k] = RefStates(Filled[k], k - Filled[k])
  OBVIOUS
<1> HIDE DEF T
<1>4. a \in T[0]
  <2>1. 0 \in 0..L /\ Filled[0] = 0
    BY <1>1, FilledCounts
  <2>2. a \in RefStates(0, 0)
    BY DEF RefStates
  <2> QED
    BY <1>3, <2>1, <2>2
<1>5. ASSUME NEW k \in 1..L, NEW s \in T[k - 1]
      PROVE  F[k][s] = Meaning(Block[k], s, taps, acc) /\ F[k][s] \in T[k]
  <2> DEFINE v == Filled[k - 1]
             m == (k - 1) - Filled[k - 1]
  <2>1. v \in Nat /\ m \in Nat
    <3>1. k - 1 \in 0..Len(Block)
      BY <1>2 DEF L
    <3>2. v \in 0..k - 1
      BY <3>1, FilledCounts
    <3> QED
      BY <1>1, <3>2
  <2>2. Formed(Block[k], v, m)
    BY BlockAssumption DEF L
  <2>3. s \in RefStates(v, m)
    BY <1>2, <1>3
  <2>4. Filled[k] = IF Block[k][1] \in MixOps THEN v ELSE v + 1
    BY FilledCounts DEF L
  <2>5. k - Filled[k] = IF Block[k][1] \in MixOps THEN m + 1 ELSE m
    BY <1>1, <2>1, <2>4
  <2>6. T[k] = RefStates(Filled[k], k - Filled[k])
    BY <1>2, <1>3
  <2> HIDE DEF v, m
  <2>7. Meaning(Block[k], s, taps, acc) \in
          RefStates(IF Block[k][1] \in MixOps THEN v ELSE v + 1,
                    IF Block[k][1] \in MixOps THEN m + 1 ELSE m)
    BY <2>1, <2>2, <2>3, MeaningTyped
  <2>8. F[k][s] = Meaning(Block[k], s, taps, acc)
    OBVIOUS
  <2> QED
    BY <2>4, <2>5, <2>6, <2>7, <2>8
<1>6. StepsTyped(L, T, F)
  <2> HIDE DEF F
  <2> QED
    BY <1>5 DEF StepsTyped
<1> HIDE DEF F, a
<1>7. PICK g : Runs(L, a, F, g) /\ ValuesTyped(L, T, g)
  BY <1>1, <1>4, <1>6, Recursion
<1>8. /\ \A k \in 0..L : g[k] \in T[k]
      /\ \A k \in 0..L : g[k] = IF k = 0 THEN a ELSE F[k][g[k - 1]]
  BY <1>7 DEF Runs, ValuesTyped
<1>9. g[0] = a /\ \A k \in 1..L : g[k] = Meaning(Block[k], g[k - 1], taps, acc)
  <2>1. 0 \in 0..L
    BY <1>1
  <2>2. \A k \in 1..L : g[k] = F[k][g[k - 1]] /\ g[k - 1] \in T[k - 1]
    BY <1>2, <1>8
  <2> QED
    BY <1>5, <1>8, <2>1, <2>2
<1>10. ASSUME NEW n \in 0..L
       PROVE  Reference(n, taps, acc) = g[n]
  <2> DEFINE Run(z) == z = [k \in 0..n |-> IF k = 0 THEN a
                                           ELSE Meaning(Block[k], z[k - 1], taps, acc)]
             run == CHOOSE z : Run(z)
             h == [k \in 0..n |-> g[k]]
  <2>1. Reference(n, taps, acc) = run[n]
    BY DEF Reference, a
  <2>2. n \in Nat /\ \A k \in 0..n : k \in 0..L /\ (k # 0 => k \in 1..L /\ k - 1 \in 0..n)
    BY <1>1
  <2>3. h = [k \in 0..n |-> IF k = 0 THEN a ELSE Meaning(Block[k], h[k - 1], taps, acc)]
    <3>1. ASSUME NEW k \in 0..n
          PROVE  g[k] = IF k = 0 THEN a ELSE Meaning(Block[k], h[k - 1], taps, acc)
      <4>1. CASE k = 0
        BY <1>9, <4>1
      <4>2. CASE k # 0
        <5>1. k \in 1..L /\ h[k - 1] = g[k - 1]
          BY <2>2, <4>2
        <5> QED
          BY <1>9, <4>2, <5>1
      <4> QED
        BY <4>1, <4>2
    <3> QED
      BY <3>1
  <2>4. Run(run)
    <3>1. Run(h)
      BY <2>3
    <3> HIDE DEF Run, h
    <3> QED
      BY <3>1
  <2> HIDE DEF run, h
  <2>5. \A k \in 0..n : run[k] = IF k = 0 THEN a ELSE Meaning(Block[k], run[k - 1], taps, acc)
    BY <2>4
  <2>6. Alike(n, run, g)
    <3>1. run[0] = g[0]
      BY <1>9, <2>2, <2>5
    <3>2. ASSUME NEW k \in 1..n, run[k - 1] = g[k - 1]
          PROVE  run[k] = g[k]
      <4>1. k \in 0..n /\ k # 0 /\ k \in 1..L
        BY <2>2
      <4>2. run[k] = Meaning(Block[k], run[k - 1], taps, acc)
        BY <2>5, <4>1
      <4> QED
        BY <1>9, <3>2, <4>1, <4>2
    <3> QED
      BY <3>1, <3>2 DEF Alike
  <2>7. \A k \in 0..n : run[k] = g[k]
    <3>1. n \in Nat
      BY <2>2
    <3> QED
      BY <2>6, <3>1, SameRun
  <2>8. n \in 0..n
    BY <2>2
  <2> QED
    BY <2>1, <2>7, <2>8
<1>11. Reference(0, taps, acc) = a
  <2>1. 0 \in 0..L
    BY <1>1
  <2> QED
    BY <1>9, <1>10, <2>1
<1>12. \A n \in 0..L : Reference(n, taps, acc) \in RefStates(Filled[n], n - Filled[n])
  BY <1>3, <1>8, <1>10
<1>13. \A n \in 1..L : Reference(n, taps, acc) = Meaning(Block[n], Reference(n - 1, taps, acc), taps, acc)
  BY <1>2, <1>9, <1>10
<1> QED
  BY <1>11, <1>12, <1>13 DEF L, a

-----------------------------------------------------------------------------
(* The taps *)

\* What is typed at the start of a run, and stays so, is typed at its end.
LEMMA TypedRun ==
  ASSUME NEW n \in Nat, NEW S, NEW run, run[0] \in S,
         \A k \in 1..n : run[k - 1] \in S => run[k] \in S
  PROVE  run[n] \in S
<1> DEFINE T == {k \in 0..n : run[k] \in S}
<1>1. 0 \in T
  OBVIOUS
<1>2. \A k \in 1..n : k - 1 \in T => k \in T
  OBVIOUS
<1> HIDE DEF T
<1>3. \A k \in 0..n : k \in T
  BY <1>1, <1>2, InductionTo
<1> QED
  BY <1>3 DEF T

\* Remainders are elements, one is, and zero.
LEMMA BaseFacts ==
  /\ P \in Nat \ {0} /\ 0 \in Base /\ 1 \in Base /\ Base \subseteq Nat
  /\ \A x \in Int : x % P \in Base
BY FieldAssumption DEF Base

\* Elements are their own remainders, scaled or not.
LEMMA ScaledBy ==
  ASSUME NEW a \in E4, NEW s \in Base
  PROVE  E4ScalarMul(a, s) \in E4
BY BaseFacts, ScaledTyped

\* The powers of a number are reduced (deep_evalu.go:37-41, fri.go:78-84).
LEMMA PowerTyped ==
  ASSUME NEW b \in Nat, NEW n \in Nat
  PROVE  Power(b, n) \in Base
<1> DEFINE S == Base
           go(k, s) == (s * b) % P
           F == [k \in 1..n |-> [s \in S |-> go(k, s)]]
           Run(z) == z = [k \in 0..n |-> IF k = 0 THEN 1 ELSE go(k, z[k - 1])]
           run == CHOOSE z : Run(z)
<1>1. n \in Nat
  OBVIOUS
<1>2. ASSUME NEW k \in 1..n, NEW s \in S
      PROVE  go(k, s) \in S
  <2>1. s \in Nat /\ b \in Nat
    BY BaseFacts
  <2>2. s * b \in Int
    BY <2>1
  <2> QED
    BY <2>2, BaseFacts
<1>3. 1 \in S
  BY BaseFacts
<1>4. Power(b, n) = run[n]
  BY DEF Power
<1>5. \A k \in 1..n : \A s \in S : F[k][s] = go(k, s)
  OBVIOUS
<1> HIDE DEF S, go, F, Run, run
<1>6. \A k \in 1..n : k \in 0..n /\ k - 1 \in 0..n /\ k # 0
  BY <1>1
<1>7. PICK g : RunsIn(n, S, 1, F, g)
  BY <1>1, <1>2, <1>3, <1>5, RecursionIn
<1>8. Run(g)
  <2>1. \A k \in 0..n : k = 0 \/ k \in 1..n
    BY <1>1
  <2>2. \A k \in 0..n : g[k] = IF k = 0 THEN 1 ELSE go(k, g[k - 1])
    BY <1>5, <1>6, <1>7, <2>1 DEF RunsIn
  <2>3. g = [k \in 0..n |-> g[k]]
    BY <1>7 DEF RunsIn
  <2> QED
    BY <2>2, <2>3 DEF Run
<1>9. Run(run)
  BY <1>8 DEF run
<1>10. run[0] \in S /\ \A k \in 1..n : run[k - 1] \in S => run[k] \in S
  <2>1. run = [k \in 0..n |-> IF k = 0 THEN 1 ELSE go(k, run[k - 1])]
    BY <1>9 DEF Run
  <2>2. 0 \in 0..n
    BY <1>1
  <2> QED
    BY <1>2, <1>3, <1>6, <2>1, <2>2
<1>11. run[n] \in S
  BY <1>1, <1>10, TypedRun
<1> QED
  BY <1>4, <1>11 DEF S

\* The evaluations of the taps, as many as there are (deep_evalu.go:21-53).
LEMMA EvalTyped ==
  ASSUME NEW c \in [1..TapSize + CheckSize -> E4], Z \in E4
  PROVE  EvalRegs(c, Len(Regs)) \in [1..TapSize -> E4]
<1> DEFINE L == Len(Regs)
           T == [k \in 0..L |-> {s \in Seq(E4) : Len(s) = CurPos(k + 1)}]
           part(k) == [i \in 1..Size(k) |->
                         PolyEval(SubSeq(c, CurPos(k) + 1, CurPos(k) + Size(k)),
                                  E4ScalarMul(Z, Power(BackOne, Regs[k].backs[i])))]
           F == [k \in 1..L |-> [s \in T[k - 1] |-> s \o part(k)]]
           Run(z) == z = [r \in 0..L |-> IF r = 0 THEN <<>> ELSE z[r - 1] \o part(r)]
           run == CHOOSE z : Run(z)
<1>1. L \in Nat /\ TapSize \in Nat /\ CurPos(1) = 0 /\ CurPos(L + 1) = TapSize
  BY Positions DEF TapSize
<1>2. ASSUME NEW k \in 1..L
      PROVE  part(k) \in Seq(E4) /\ Len(part(k)) = Size(k)
  <2>1. /\ Size(k) \in Nat /\ CurPos(k) \in Nat /\ CurPos(k) + Size(k) \in 0..TapSize
    BY Positions
  <2> DEFINE u == SubSeq(c, CurPos(k) + 1, CurPos(k) + Size(k))
  <2>2. u \in Seq(E4)
    <3> DEFINE m == CurPos(k) + 1
               n == CurPos(k) + Size(k)
    <3>1. m \in Int /\ n \in Int /\ \A i \in m..n : i \in 1..TapSize + CheckSize
      BY <1>1, <2>1 DEF CheckSize
    <3> HIDE DEF m, n
    <3>2. \A i \in m..n : c[i] \in E4
      BY <3>1
    <3>3. SubSeq(c, m, n) \in Seq(E4)
      BY <3>1, <3>2, SubSeqProperties
    <3> QED
      BY <3>3 DEF m, n
  <2>3. \A i \in 1..Size(k) : Regs[k].backs[i] \in Nat
    <3> DEFINE R == [group : Nat, offset : Nat, combo : Nat, backs : Seq(Nat)]
    <3>1. \A r \in R : r.backs \in Seq(Nat)
      OBVIOUS
    <3>2. Regs \in Seq(R)
      BY DeepAssumption
    <3> HIDE DEF R
    <3>3. Regs[k] \in R
      BY <3>2
    <3>4. Regs[k].backs \in Seq(Nat)
      BY <3>1, <3>3
    <3> QED
      BY <3>4 DEF Size
  <2>4. \A i \in 1..Size(k) : E4ScalarMul(Z, Power(BackOne, Regs[k].backs[i])) \in E4
    <3>1. \A i \in 1..Size(k) : Power(BackOne, Regs[k].backs[i]) \in Base
      BY <2>3, BlockAssumption, BaseFacts, PowerTyped
    <3> QED
      BY <3>1, ScaledBy
  <2> HIDE DEF u
  <2>5. \A i \in 1..Size(k) :
          PolyEval(u, E4ScalarMul(Z, Power(BackOne, Regs[k].backs[i]))) \in E4
    BY <2>2, <2>4, PolyTyped
  <2>6. part(k) = [i \in 1..Size(k) |->
                     PolyEval(u, E4ScalarMul(Z, Power(BackOne, Regs[k].backs[i])))]
    BY DEF u
  <2> HIDE DEF part
  <2> QED
    BY <2>1, <2>5, <2>6
<1>3. EvalRegs(c, L) = run[L]
  BY DEF EvalRegs
<1>4. \A k \in 0..L : T[k] = {s \in Seq(E4) : Len(s) = CurPos(k + 1)}
  OBVIOUS
<1>5. \A k \in 1..L : k \in 0..L /\ k - 1 \in 0..L /\ k # 0 /\ (k - 1) + 1 = k
  BY <1>1
<1>6. \A k \in 1..L : \A s \in T[k - 1] : F[k][s] = s \o part(k)
  OBVIOUS
<1> HIDE DEF L, T, part, F, Run, run
<1>7. StepsTyped(L, T, F)
  <2> SUFFICES ASSUME NEW k \in 1..L, NEW s \in T[k - 1]
               PROVE  F[k][s] \in T[k]
    BY DEF StepsTyped
  <2>1. s \in Seq(E4) /\ Len(s) = CurPos(k)
    BY <1>4, <1>5
  <2>2. CurPos(k + 1) = CurPos(k) + Size(k)
    BY Positions DEF L
  <2>3. s \o part(k) \in Seq(E4) /\ Len(s \o part(k)) = CurPos(k + 1)
    BY <1>2, <2>1, <2>2
  <2>4. s \o part(k) \in T[k]
    BY <1>4, <1>5, <2>3
  <2> QED
    BY <1>6, <2>4
<1>8. <<>> \in T[0]
  <2>1. 0 \in 0..L /\ 0 + 1 = 1
    BY <1>1
  <2>2. T[0] = {s \in Seq(E4) : Len(s) = CurPos(1)}
    BY <1>4, <2>1
  <2> QED
    BY <1>1, <2>2
<1>9. PICK g : Runs(L, <<>>, F, g) /\ ValuesTyped(L, T, g)
  BY <1>1, <1>7, <1>8, Recursion
<1>10. /\ \A k \in 0..L : g[k] \in T[k]
       /\ g = [k \in 0..L |-> IF k = 0 THEN <<>> ELSE F[k][g[k - 1]]]
  BY <1>9 DEF Runs, ValuesTyped
<1>11. \A k \in 0..L : g[k] = IF k = 0 THEN <<>> ELSE F[k][g[k - 1]]
  BY <1>10
<1>12. \A k \in 1..L : g[k] = g[k - 1] \o part(k)
  BY <1>5, <1>6, <1>10, <1>11
<1>13. Run(g)
  <2>1. \A k \in 0..L : k = 0 \/ k \in 1..L
    BY <1>1
  <2>2. \A k \in 0..L : g[k] = IF k = 0 THEN <<>> ELSE g[k - 1] \o part(k)
    BY <1>11, <1>12, <2>1
  <2>3. g = [k \in 0..L |-> g[k]]
    BY <1>10
  <2> QED
    BY <2>2, <2>3 DEF Run
<1>14. Run(run)
  BY <1>13 DEF run
<1>15. \A k \in 0..L : run[k] = IF k = 0 THEN <<>> ELSE run[k - 1] \o part(k)
  <2>1. run = [r \in 0..L |-> IF r = 0 THEN <<>> ELSE run[r - 1] \o part(r)]
    BY <1>14 DEF Run
  <2> QED
    BY <2>1
<1>16. Alike(L, run, g)
  <2>1. 0 \in 0..L
    BY <1>1
  <2>2. run[0] = g[0]
    BY <1>11, <1>15, <2>1
  <2>3. \A k \in 1..L : run[k] = run[k - 1] \o part(k)
    BY <1>5, <1>15
  <2> QED
    BY <1>12, <2>2, <2>3 DEF Alike
<1>17. L \in 0..L /\ L \in Nat
  BY <1>1
<1>18. \A k \in 0..L : run[k] = g[k]
  BY <1>16, <1>17, SameRun
<1>19. run[L] \in Seq(E4) /\ Len(run[L]) = TapSize
  BY <1>1, <1>4, <1>10, <1>17, <1>18
<1>20. EvalRegs(c, L) \in [1..TapSize -> E4]
  <2> DEFINE e == run[L]
  <2>1. e \in Seq(E4) /\ Len(e) = TapSize
    BY <1>19
  <2> HIDE DEF e
  <2>2. e \in [1..TapSize -> E4]
    BY <2>1
  <2> QED
    BY <1>3, <2>2 DEF e
<1> QED
  BY <1>20 DEF L

\* The coefficients are read off the ingested words (deep_evalu.go:10-19).
LEMMA CoeffsTyped ==
  ASSUME words = [i \in 1..NUCoeffs |-> words[i]], \A i \in DOMAIN words : words[i] \in Base
  PROVE  CoeffU \in [1..TapSize + CheckSize -> E4]
<1> SUFFICES ASSUME NEW k \in 1..TapSize + CheckSize
             PROVE  SubSeq(words, 4 * k - 3, 4 * k) \in E4
  BY DEF CoeffU
<1> DEFINE m == 4 * k - 3
           n == 4 * k
           s == SubSeq(words, m, n)
<1>1. TapSize + CheckSize \in Nat
  BY Positions DEF CheckSize
<1>2. /\ m \in Int /\ n \in Int /\ \A i \in m..n : i \in 1..NUCoeffs
      /\ m <= n /\ n - m + 1 = 4
  BY <1>1 DEF NUCoeffs
<1>3. \A i \in m..n : words[i] \in Base
  BY <1>2
<1> HIDE DEF m, n
<1>4. s \in Seq(Base) /\ Len(s) = 4
  BY <1>2, <1>3, SubSeqProperties
<1> HIDE DEF s
<1>5. s \in E4
  BY <1>4, FourOf
<1> QED
  BY <1>5 DEF s, m, n

\* The mixes and the point are elements as soon as they are drawn.
LEMMA ChallengesTyped ==
  ASSUME DInv, Len(drawn) = 9
  PROVE  AccumMix \in Base /\ PolyMix \in E4 /\ Z \in E4
<1>1. drawn \in Seq(Nat) /\ DOMAIN drawn = 1..9
  BY DEF DInv
<1>2. \A i \in 1..9 : drawn[i] \in Base
  <2>1. \A i \in 1..9 : drawn[i] = Sums[i] % P
    BY <1>1 DEF DInv, DrawnIsSqueezed
  <2>2. \A i \in 1..9 : i \in 1..13 + 4 * Rounds
    BY DeepAssumption
  <2>3. \A i \in 1..9 : Sums[i] \in Nat
    BY <2>2, DeepAssumption, NoWrap
  <2>4. \A x \in Nat : x % P \in Base
    BY Modulus DEF Base
  <2> QED
    BY <2>1, <2>3, <2>4
<1>3. AccumMix \in Base
  BY <1>2 DEF AccumMix
<1>4. PolyMix \in Seq(Base) /\ Len(PolyMix) = 4
  <2>1. 2 \in Int /\ 5 \in Int /\ \A i \in 2..5 : drawn[i] \in Base
    BY <1>2
  <2>2. 2 <= 5 /\ 5 - 2 + 1 = 4
    OBVIOUS
  <2> QED
    BY <2>1, <2>2, SubSeqProperties DEF PolyMix
<1>5. Z \in Seq(Base) /\ Len(Z) = 4
  <2>1. 6 \in Int /\ 9 \in Int /\ \A i \in 6..9 : drawn[i] \in Base
    BY <1>2
  <2>2. 6 <= 9 /\ 9 - 6 + 1 = 4
    OBVIOUS
  <2> QED
    BY <2>1, <2>2, SubSeqProperties DEF Z
<1> QED
  BY <1>3, <1>4, <1>5, FourOf

-----------------------------------------------------------------------------
(* The registers and what they stand for *)

Registers == [isConst : BOOLEAN, e : E4]
MixRegisters == [tot : Registers, mul : Registers]

\* The banks f and x hold what the state ref of the program by definition says, mixed with p.
Holds(f, x, ref, p) ==
  /\ f \in Seq(Registers) /\ x \in Seq(MixRegisters)
  /\ Len(f) = Len(ref.fp) /\ \A k \in 1..Len(f) : f[k].e = ref.fp[k]
  /\ Len(x) = Len(ref.terms)
  /\ \A k \in 1..Len(x) : /\ x[k].tot.e = Mixed(ref.terms[k], p)
                          /\ x[k].mul.e = E4Power(p, Len(ref.terms[k]))

\* Folded or not, an operation gives the element (deep_polyext.go:35-86).
LEMMA Folding ==
  ASSUME NEW a \in Registers, NEW b \in Registers
  PROVE  /\ FpAdd(a, b) \in Registers /\ FpAdd(a, b).e = E4Add(a.e, b.e)
         /\ FpSub(a, b) \in Registers /\ FpSub(a, b).e = E4Sub(a.e, b.e)
         /\ FpMul(a, b) \in Registers /\ FpMul(a, b).e = E4Mul(a.e, b.e)
<1>1. a.e \in E4 /\ b.e \in E4
  BY DEF Registers
<1>2. E4Add(a.e, b.e) \in E4 /\ E4Sub(a.e, b.e) \in E4 /\ E4Mul(a.e, b.e) \in E4
  BY <1>1, E4Typed
<1>3. (a.isConst /\ b.isConst) \in BOOLEAN
  OBVIOUS
<1>4. FpAdd(a, b) \in Registers /\ FpAdd(a, b).e = E4Add(a.e, b.e)
  <2> DEFINE c == a.isConst /\ b.isConst
             e == E4Add(a.e, b.e)
  <2>1. c \in BOOLEAN /\ e \in E4 /\ FpAdd(a, b) = [isConst |-> c, e |-> e]
    BY <1>2 DEF FpAdd
  <2> HIDE DEF c, e
  <2>2. FpAdd(a, b) \in Registers /\ FpAdd(a, b).e = e
    BY <2>1 DEF Registers
  <2> QED
    BY <2>2 DEF e
<1>5. FpSub(a, b) \in Registers /\ FpSub(a, b).e = E4Sub(a.e, b.e)
  <2> DEFINE c == a.isConst /\ b.isConst
             e == E4Sub(a.e, b.e)
  <2>1. c \in BOOLEAN /\ e \in E4 /\ FpSub(a, b) = [isConst |-> c, e |-> e]
    BY <1>2 DEF FpSub
  <2> HIDE DEF c, e
  <2>2. FpSub(a, b) \in Registers /\ FpSub(a, b).e = e
    BY <2>1 DEF Registers
  <2> QED
    BY <2>2 DEF e
<1>6. FpMul(a, b) \in Registers /\ FpMul(a, b).e = E4Mul(a.e, b.e)
  <2> DEFINE e == E4Mul(a.e, b.e)
  <2>1. KMul(a.e, b.e) = e
    BY DEF KMul, E4Mul
  <2>2. FpMul(a, b) = [isConst |-> TRUE, e |-> e] \/ FpMul(a, b) = [isConst |-> FALSE, e |-> e]
    BY <2>1 DEF FpMul, Konst, Value
  <2>3. e \in E4
    BY <1>2
  <2> HIDE DEF e
  <2>4. \A c \in BOOLEAN : LET r == [isConst |-> c, e |-> e] IN r \in Registers /\ r.e = e
    BY <2>3 DEF Registers
  <2>5. FpMul(a, b) \in Registers /\ FpMul(a, b).e = e
    BY <2>2, <2>4
  <2> QED
    BY <2>5 DEF e
<1> QED
  BY <1>4, <1>5, <1>6

\* A constant or a value made from an element.
LEMMA Making ==
  ASSUME NEW x \in E4
  PROVE  /\ Konst(x) \in Registers /\ Konst(x).e = x
         /\ Value(x) \in Registers /\ Value(x).e = x
BY DEF Konst, Value, Registers

\* A value register more.
LEMMA HoldsValue ==
  ASSUME NEW v \in Nat, NEW m \in Nat, NEW ref \in RefStates(v, m), NEW p,
         NEW f, NEW x, Holds(f, x, ref, p), NEW r \in Registers
  PROVE  Holds(Append(f, r), x, [ref EXCEPT !.fp = Append(@, r.e)], p)
<1>1. PICK a \in Seq(E4), b \in Seq(Seq(E4)) : ref = [fp |-> a, terms |-> b]
  BY DEF RefStates
<1>2. ref.fp = a /\ ref.terms = b
  BY <1>1
<1> DEFINE c == Append(a, r.e)
           g == Append(f, r)
           s == [ref EXCEPT !.fp = Append(@, r.e)]
<1>3. r.e \in E4
  BY DEF Registers
<1>4. f \in Seq(Registers) /\ Len(f) = Len(a) /\ \A k \in 1..Len(f) : f[k].e = a[k]
  BY <1>2 DEF Holds
<1>5. /\ g \in Seq(Registers) /\ Len(g) = Len(f) + 1 /\ g[Len(f) + 1] = r
      /\ \A k \in 1..Len(f) : g[k] = f[k]
  BY <1>4, AppendProperties
<1>6. /\ Len(c) = Len(a) + 1 /\ c[Len(a) + 1] = r.e
      /\ \A k \in 1..Len(a) : c[k] = a[k]
  BY <1>1, <1>3, AppendProperties
<1>7. s = [fp |-> c, terms |-> b]
  <2>1. s = [ref EXCEPT !.fp = c]
    BY <1>2
  <2> HIDE DEF c
  <2> QED
    BY <1>1, <2>1, Filling
<1>8. s.fp = c /\ s.terms = b
  <2> HIDE DEF c, s
  <2> QED
    BY <1>7
<1> HIDE DEF c, g, s
<1>9. Len(g) = Len(c) /\ \A k \in 1..Len(g) : g[k].e = c[k]
  <2>0. Len(f) \in Nat
    BY <1>4, LenProperties
  <2>1. \A k \in 1..Len(f) + 1 : k \in 1..Len(f) \/ k = Len(f) + 1
    BY <2>0
  <2> QED
    BY <1>4, <1>5, <1>6, <2>1
<1>10. Holds(g, x, s, p)
  BY <1>2, <1>5, <1>8, <1>9 DEF Holds
<1> QED
  BY <1>10 DEF g, s

\* A mix register more.
LEMMA HoldsMix ==
  ASSUME NEW v \in Nat, NEW m \in Nat, NEW ref \in RefStates(v, m), NEW p,
         NEW f, NEW x, Holds(f, x, ref, p),
         NEW t \in Seq(E4), NEW tot \in Registers, NEW mul \in Registers,
         tot.e = Mixed(t, p), mul.e = E4Power(p, Len(t))
  PROVE  Holds(f, Append(x, [tot |-> tot, mul |-> mul]), [ref EXCEPT !.terms = Append(@, t)], p)
<1>1. PICK a \in Seq(E4), b \in Seq(Seq(E4)) : ref = [fp |-> a, terms |-> b]
  BY DEF RefStates
<1>2. ref.fp = a /\ ref.terms = b
  BY <1>1
<1> DEFINE c == Append(b, t)
           r == [tot |-> tot, mul |-> mul]
           g == Append(x, r)
           s == [ref EXCEPT !.terms = Append(@, t)]
<1>3. r \in MixRegisters /\ r.tot = tot /\ r.mul = mul
  BY DEF MixRegisters
<1>4. /\ x \in Seq(MixRegisters) /\ Len(x) = Len(b)
      /\ \A k \in 1..Len(x) : x[k].tot.e = Mixed(b[k], p) /\ x[k].mul.e = E4Power(p, Len(b[k]))
  BY <1>2 DEF Holds
<1> HIDE DEF r
<1>5. /\ g \in Seq(MixRegisters) /\ Len(g) = Len(x) + 1 /\ g[Len(x) + 1] = r
      /\ \A k \in 1..Len(x) : g[k] = x[k]
  BY <1>3, <1>4, AppendProperties
<1>6. /\ Len(c) = Len(b) + 1 /\ c[Len(b) + 1] = t
      /\ \A k \in 1..Len(b) : c[k] = b[k]
  BY <1>1, AppendProperties
<1>7. s = [fp |-> a, terms |-> c]
  <2>1. s = [ref EXCEPT !.terms = c]
    BY <1>2
  <2> HIDE DEF c
  <2> QED
    BY <1>1, <2>1, Filling
<1>8. s.fp = a /\ s.terms = c
  <2> HIDE DEF c, s
  <2> QED
    BY <1>7
<1> HIDE DEF c, g, s
<1>9. /\ Len(g) = Len(c)
      /\ \A k \in 1..Len(g) : g[k].tot.e = Mixed(c[k], p) /\ g[k].mul.e = E4Power(p, Len(c[k]))
  <2>0. Len(x) \in Nat
    BY <1>4, LenProperties
  <2>1. \A k \in 1..Len(x) + 1 : k \in 1..Len(x) \/ k = Len(x) + 1
    BY <2>0
  <2>2. ASSUME NEW k \in 1..Len(x)
        PROVE  g[k].tot.e = Mixed(c[k], p) /\ g[k].mul.e = E4Power(p, Len(c[k]))
    BY <1>4, <1>5, <1>6, <2>2
  <2>3. LET k == Len(x) + 1
        IN  g[k].tot.e = Mixed(c[k], p) /\ g[k].mul.e = E4Power(p, Len(c[k]))
    BY <1>3, <1>4, <1>5, <1>6
  <2> QED
    BY <1>4, <1>5, <1>6, <2>1, <2>2, <2>3
<1>10. Holds(f, g, s, p)
  BY <1>2, <1>5, <1>8, <1>9 DEF Holds
<1> QED
  BY <1>10 DEF g, s, r

\* The state with a register more.
WithValue(ref, e) == [ref EXCEPT !.fp = Append(@, e)]
WithTerms(ref, t) == [ref EXCEPT !.terms = Append(@, t)]

\* One step of PolyExt does what the program means (deep_polyext.go:102-146).
LEMMA StepMeans ==
  ASSUME Load \/ Compute \/ Chain,
         evalU \in [1..TapSize -> E4], AccumMix \in Base, PolyMix \in E4,
         NEW v \in Nat, NEW m \in Nat, NEW ref \in RefStates(v, m), Formed(Next1, v, m),
         Holds(fp, mix, ref, PolyMix)
  PROVE  Holds(fp', mix', Meaning(Next1, ref, evalU, AccumMix), PolyMix)
<1> DEFINE st == Next1
           p == PolyMix
           goal == Holds(fp', mix', Meaning(st, ref, evalU, AccumMix), p)
<1>0. /\ evalU \in [1..TapSize -> E4] /\ AccumMix \in Base /\ p \in E4
      /\ Formed(st, v, m) /\ Holds(fp, mix, ref, p)
      /\ Load \/ Compute \/ Chain
  OBVIOUS
<1>1. Len(ref.fp) = v /\ Len(ref.terms) = m
      /\ ref.fp \in Seq(E4) /\ ref.terms \in Seq(Seq(E4))
  BY DEF RefStates
<1>2. \A i \in 0..v - 1 : fp[i + 1] \in Registers /\ fp[i + 1].e = ref.fp[i + 1]
                          /\ ref.fp[i + 1] \in E4
  BY <1>0, <1>1 DEF Holds
<1>3. \A i \in 0..m - 1 :
        /\ mix[i + 1] \in MixRegisters /\ ref.terms[i + 1] \in Seq(E4)
        /\ mix[i + 1].tot.e = Mixed(ref.terms[i + 1], p)
        /\ mix[i + 1].mul.e = E4Power(p, Len(ref.terms[i + 1]))
  BY <1>0, <1>1 DEF Holds
<1>4. \A r \in MixRegisters : r.tot \in Registers /\ r.mul \in Registers
  BY DEF MixRegisters
<1>5. ASSUME NEW r \in Registers, fp' = Append(fp, r), mix' = mix,
             Meaning(st, ref, evalU, AccumMix) = WithValue(ref, r.e)
      PROVE  goal
  <2>1. Holds(Append(fp, r), mix, WithValue(ref, r.e), p)
    BY <1>0, HoldsValue DEF WithValue
  <2> QED
    BY <1>5, <2>1
<1>6. ASSUME NEW tot \in Registers, NEW mul \in Registers, NEW t \in Seq(E4),
             fp' = fp, mix' = Append(mix, [tot |-> tot, mul |-> mul]),
             Meaning(st, ref, evalU, AccumMix) = WithTerms(ref, t),
             tot.e = Mixed(t, p), mul.e = E4Power(p, Len(t))
      PROVE  goal
  <2>1. Holds(fp, Append(mix, [tot |-> tot, mul |-> mul]), WithTerms(ref, t), p)
    BY <1>0, <1>6, HoldsMix DEF WithTerms
  <2> QED
    BY <1>6, <2>1
<1> SUFFICES goal
  OBVIOUS
<1> HIDE DEF p, goal
<1>7. CASE st[1] = "Const"
  <2> DEFINE r == Konst(E4From(st[2]))
  <2>1. st[2] \in Base
    BY <1>0, <1>7 DEF Formed
  <2>2. fp' = Append(fp, r) /\ mix' = mix
    BY <1>0, <1>7 DEF Load, Compute, Chain, Push, PushMix
  <2>3. r \in Registers /\ r.e = E4From(st[2])
    BY <2>1, FromBase, Making
  <2> HIDE DEF r
  <2>4. Meaning(st, ref, evalU, AccumMix) = WithValue(ref, r.e)
    BY <1>7, <2>3 DEF Meaning, WithValue
  <2> QED
    BY <1>5, <2>2, <2>3, <2>4
<1>8. CASE st[1] = "ConstExt"
  <2> DEFINE r == Konst(Tail(st))
  <2>1. Tail(st) \in E4
    BY <1>0, <1>8 DEF Formed
  <2>2. fp' = Append(fp, r) /\ mix' = mix
    BY <1>0, <1>8 DEF Load, Compute, Chain, Push, PushMix
  <2>3. r \in Registers /\ r.e = Tail(st)
    BY <2>1, Making
  <2> HIDE DEF r
  <2>4. Meaning(st, ref, evalU, AccumMix) = WithValue(ref, r.e)
    BY <1>8, <2>3 DEF Meaning, WithValue
  <2> QED
    BY <1>5, <2>2, <2>3, <2>4
<1>9. CASE st[1] = "Get"
  <2> DEFINE r == Value(evalU[st[2] + 1])
  <2>1. evalU[st[2] + 1] \in E4
    <3>1. st[2] + 1 \in 1..TapSize
      BY <1>0, <1>9 DEF Formed
    <3> QED
      BY <1>0, <3>1
  <2>2. fp' = Append(fp, r) /\ mix' = mix
    BY <1>0, <1>9 DEF Load, Compute, Chain, Push, PushMix
  <2>3. r \in Registers /\ r.e = evalU[st[2] + 1]
    BY <2>1, Making
  <2> HIDE DEF r
  <2>4. Meaning(st, ref, evalU, AccumMix) = WithValue(ref, r.e)
    BY <1>9, <2>3 DEF Meaning, WithValue
  <2> QED
    BY <1>5, <2>2, <2>3, <2>4
<1>10. CASE st[1] = "GetGlobal"
  <2> DEFINE y == IF st[2] = 0 THEN GlobalsOut[st[3] + 1] ELSE AccumMix
             r == Value(E4From(y))
  <2>1. y \in Base
    <3>1. st[2] = 0 => st[3] + 1 \in DOMAIN GlobalsOut
      BY <1>0, <1>10 DEF Formed
    <3> QED
      BY <1>0, <3>1, BlockAssumption
  <2>2. fp' = Append(fp, r) /\ mix' = mix
    BY <1>0, <1>10 DEF Load, Compute, Chain, Push, PushMix
  <2>3. Meaning(st, ref, evalU, AccumMix) = WithValue(ref, E4From(y))
    BY <1>10 DEF Meaning, WithValue
  <2> HIDE DEF y
  <2>4. r \in Registers /\ r.e = E4From(y)
    BY <2>1, FromBase, Making
  <2> HIDE DEF r
  <2> QED
    BY <1>5, <2>2, <2>3, <2>4
<1>11. CASE st[1] = "Add"
  <2> DEFINE x == fp[st[2] + 1]
             y == fp[st[3] + 1]
             r == FpAdd(x, y)
  <2>1. st[2] \in 0..v - 1 /\ st[3] \in 0..v - 1
    BY <1>0, <1>11 DEF Formed
  <2>2. x \in Registers /\ y \in Registers /\ x.e = ref.fp[st[2] + 1] /\ y.e = ref.fp[st[3] + 1]
    BY <1>2, <2>1
  <2>3. fp' = Append(fp, r) /\ mix' = mix
    BY <1>0, <1>11 DEF Load, Compute, Chain, Push, PushMix
  <2> HIDE DEF x, y
  <2>4. r \in Registers /\ r.e = E4Add(x.e, y.e)
    BY <2>2, Folding
  <2> HIDE DEF r
  <2>5. Meaning(st, ref, evalU, AccumMix) = WithValue(ref, r.e)
    BY <1>11, <2>2, <2>4 DEF Meaning, WithValue
  <2> QED
    BY <1>5, <2>3, <2>4, <2>5
<1>12. CASE st[1] = "Sub"
  <2> DEFINE x == fp[st[2] + 1]
             y == fp[st[3] + 1]
             r == FpSub(x, y)
  <2>1. st[2] \in 0..v - 1 /\ st[3] \in 0..v - 1
    BY <1>0, <1>12 DEF Formed
  <2>2. x \in Registers /\ y \in Registers /\ x.e = ref.fp[st[2] + 1] /\ y.e = ref.fp[st[3] + 1]
    BY <1>2, <2>1
  <2>3. fp' = Append(fp, r) /\ mix' = mix
    BY <1>0, <1>12 DEF Load, Compute, Chain, Push, PushMix
  <2> HIDE DEF x, y
  <2>4. r \in Registers /\ r.e = E4Sub(x.e, y.e)
    BY <2>2, Folding
  <2> HIDE DEF r
  <2>5. Meaning(st, ref, evalU, AccumMix) = WithValue(ref, r.e)
    BY <1>12, <2>2, <2>4 DEF Meaning, WithValue
  <2> QED
    BY <1>5, <2>3, <2>4, <2>5
<1>13. CASE st[1] = "Mul"
  <2> DEFINE x == fp[st[2] + 1]
             y == fp[st[3] + 1]
             r == FpMul(x, y)
  <2>1. st[2] \in 0..v - 1 /\ st[3] \in 0..v - 1
    BY <1>0, <1>13 DEF Formed
  <2>2. x \in Registers /\ y \in Registers /\ x.e = ref.fp[st[2] + 1] /\ y.e = ref.fp[st[3] + 1]
    BY <1>2, <2>1
  <2>3. fp' = Append(fp, r) /\ mix' = mix
    BY <1>0, <1>13 DEF Load, Compute, Chain, Push, PushMix
  <2> HIDE DEF x, y
  <2>4. r \in Registers /\ r.e = E4Mul(x.e, y.e)
    BY <2>2, Folding
  <2> HIDE DEF r
  <2>5. RefMul(x.e, y.e) = E4Mul(x.e, y.e)
    BY <2>2, ProductByDefinition DEF Registers
  <2>6. Meaning(st, ref, evalU, AccumMix) = WithValue(ref, RefMul(x.e, y.e))
    BY <1>13, <2>2 DEF Meaning, WithValue
  <2>7. Meaning(st, ref, evalU, AccumMix) = WithValue(ref, r.e)
    BY <2>4, <2>5, <2>6
  <2> QED
    BY <1>5, <2>3, <2>4, <2>7
<1>14. CASE st[1] = "True"
  <2> DEFINE tot == Konst(E4Zero)
             mul == Konst(E4One)
  <2>1. E4Zero \in E4 /\ E4One \in E4
    BY <1>0, E4Units
  <2>2. /\ tot \in Registers /\ tot.e = E4Zero
        /\ mul \in Registers /\ mul.e = E4One
    BY <2>1, Making
  <2>3. fp' = fp /\ mix' = Append(mix, [tot |-> tot, mul |-> mul])
    BY <1>0, <1>14 DEF Load, Compute, Chain, Push, PushMix
  <2> HIDE DEF tot, mul
  <2>4. <<>> \in Seq(E4) /\ Len(<<>>) = 0
    OBVIOUS
  <2>5. Mixed(<<>>, p) = E4Zero /\ E4Power(p, 0) = E4One
    BY <1>0, MixedNone, PowerStep, 0 \in Nat
  <2>6. Meaning(st, ref, evalU, AccumMix) = WithTerms(ref, <<>>)
    BY <1>14 DEF Meaning, WithTerms
  <2> QED
    BY <1>6, <2>2, <2>3, <2>4, <2>5, <2>6
<1>15. CASE st[1] = "AndEqz"
  <2> DEFINE ch == mix[st[2] + 1]
             x == fp[st[3] + 1]
             t == ref.terms[st[2] + 1]
             tot == FpAdd(ch.tot, FpMul(ch.mul, x))
             mul == FpMul(ch.mul, Value(p))
  <2>1. st[2] \in 0..m - 1 /\ st[3] \in 0..v - 1
    BY <1>0, <1>15 DEF Formed
  <2>2. x \in Registers /\ x.e = ref.fp[st[3] + 1] /\ x.e \in E4
    BY <1>2, <2>1 DEF Registers
  <2>3. /\ ch \in MixRegisters /\ t \in Seq(E4)
        /\ ch.tot.e = Mixed(t, p) /\ ch.mul.e = E4Power(p, Len(t))
    BY <1>3, <2>1
  <2>4. fp' = fp /\ mix' = Append(mix, [tot |-> tot, mul |-> mul])
    BY <1>0, <1>15 DEF Load, Compute, Chain, p, PushMix
  <2>5. Meaning(st, ref, evalU, AccumMix) = WithTerms(ref, Append(t, x.e))
    BY <1>15, <2>2 DEF Meaning, WithTerms
  <2> HIDE DEF ch, x, t
  <2>6. ch.tot \in Registers /\ ch.mul \in Registers
    BY <1>4, <2>3
  <2>7. /\ FpMul(ch.mul, x) \in Registers
        /\ FpMul(ch.mul, x).e = E4Mul(ch.mul.e, x.e)
    BY <2>2, <2>6, Folding
  <2>8. tot \in Registers /\ tot.e = E4Add(ch.tot.e, E4Mul(ch.mul.e, x.e))
    BY <2>6, <2>7, Folding
  <2>9. Value(p) \in Registers /\ Value(p).e = p
    BY <1>0, Making
  <2>10. mul \in Registers /\ mul.e = E4Mul(ch.mul.e, p)
    BY <2>6, <2>9, Folding
  <2> HIDE DEF tot, mul
  <2> DEFINE s == Append(t, x.e)
  <2>11. s \in Seq(E4) /\ Len(s) = Len(t) + 1 /\ Len(t) \in Nat
    BY <2>2, <2>3, AppendProperties, LenProperties
  <2>12. tot.e = Mixed(s, p)
    BY <1>0, <2>2, <2>3, <2>8, MixedOne
  <2>13. mul.e = E4Power(p, Len(s))
    BY <1>0, <2>3, <2>10, <2>11, PowerStep
  <2>14. Meaning(st, ref, evalU, AccumMix) = WithTerms(ref, s)
    BY <2>5
  <2> HIDE DEF s
  <2> QED
    BY <1>6, <2>4, <2>8, <2>10, <2>11, <2>12, <2>13, <2>14
<1>16. CASE st[1] = "AndCond"
  <2> DEFINE ch == mix[st[2] + 1]
             x == fp[st[3] + 1]
             inner == mix[st[4] + 1]
             t == ref.terms[st[2] + 1]
             u == ref.terms[st[4] + 1]
             w == [i \in 1..Len(u) |-> RefMul(x.e, u[i])]
             cond == FpMul(x, inner.tot)
             moved == FpMul(cond, ch.mul)
             tot == FpAdd(ch.tot, moved)
             mul == FpMul(ch.mul, inner.mul)
  <2>1. st[2] \in 0..m - 1 /\ st[3] \in 0..v - 1 /\ st[4] \in 0..m - 1
    BY <1>0, <1>16 DEF Formed
  <2>2. x \in Registers /\ x.e = ref.fp[st[3] + 1] /\ x.e \in E4
    BY <1>2, <2>1 DEF Registers
  <2>3. /\ ch \in MixRegisters /\ t \in Seq(E4)
        /\ ch.tot.e = Mixed(t, p) /\ ch.mul.e = E4Power(p, Len(t))
    BY <1>3, <2>1
  <2>4. /\ inner \in MixRegisters /\ u \in Seq(E4)
        /\ inner.tot.e = Mixed(u, p) /\ inner.mul.e = E4Power(p, Len(u))
    BY <1>3, <2>1
  <2>5. fp' = fp /\ mix' = Append(mix, [tot |-> tot, mul |-> mul])
    BY <1>0, <1>16 DEF Load, Compute, Chain, Push, PushMix
  <2>6. Meaning(st, ref, evalU, AccumMix) = WithTerms(ref, t \o w)
    BY <1>16, <2>2 DEF Meaning, WithTerms
  <2> HIDE DEF ch, x, inner, t, u
  <2>7. ch.tot \in Registers /\ ch.mul \in Registers /\ inner.tot \in Registers
        /\ inner.mul \in Registers
    BY <1>4, <2>3, <2>4
  <2>8. cond \in Registers /\ cond.e = E4Mul(x.e, inner.tot.e)
    BY <2>2, <2>7, Folding
  <2> HIDE DEF cond
  <2>9. moved \in Registers /\ moved.e = E4Mul(cond.e, ch.mul.e)
    BY <2>7, <2>8, Folding
  <2> HIDE DEF moved
  <2>10. tot \in Registers /\ tot.e = E4Add(ch.tot.e, moved.e)
    BY <2>7, <2>9, Folding
  <2>11. mul \in Registers /\ mul.e = E4Mul(ch.mul.e, inner.mul.e)
    BY <2>7, Folding
  <2> HIDE DEF tot, mul
  <2>12. w \in Seq(E4) /\ Len(w) = Len(u) /\ Mixed(w, p) = E4Mul(x.e, Mixed(u, p))
    BY <1>0, <2>2, <2>4, MixedScales
  <2> HIDE DEF w
  <2> DEFINE s == t \o w
  <2>13. s \in Seq(E4) /\ Len(s) = Len(t) + Len(u) /\ Len(t) \in Nat /\ Len(u) \in Nat
    BY <2>3, <2>4, <2>12, ConcatProperties, LenProperties
  <2>14. Mixed(s, p) = E4Add(Mixed(t, p), E4Mul(E4Power(p, Len(t)), Mixed(w, p)))
    BY <1>0, <2>3, <2>12, MixedJoins
  <2>15. E4Mul(E4Power(p, Len(t)), Mixed(w, p)) = E4Mul(Mixed(w, p), E4Power(p, Len(t)))
    <3>1. E4Power(p, Len(t)) \in E4
      BY <1>0, <2>13, PowerStep
    <3>2. Mixed(w, p) \in E4
      BY <1>0, <2>12, MixedTyped
    <3> QED
      BY <3>1, <3>2, E4Commutes
  <2>16. tot.e = Mixed(s, p)
    BY <2>3, <2>4, <2>8, <2>9, <2>10, <2>12, <2>14, <2>15
  <2>17. E4Power(p, Len(t) + Len(u)) = E4Mul(E4Power(p, Len(t)), E4Power(p, Len(u)))
    BY <1>0, <2>13, PowerAdds
  <2>18. mul.e = E4Power(p, Len(s))
    BY <2>3, <2>4, <2>11, <2>13, <2>17
  <2>19. Meaning(st, ref, evalU, AccumMix) = WithTerms(ref, s)
    BY <2>6
  <2> HIDE DEF s
  <2> QED
    BY <1>6, <2>5, <2>10, <2>11, <2>13, <2>16, <2>18, <2>19
<1>17. st[1] \in {"Const", "ConstExt", "Get", "GetGlobal", "Add", "Sub", "Mul", "True", "AndEqz",
                 "AndCond"}
  BY <1>0 DEF Formed
<1> QED
  BY <1>7, <1>8, <1>9, <1>10, <1>11, <1>12, <1>13, <1>14, <1>15, <1>16, <1>17

\* The inductive invariant behind MixIsSum.
Before == {"accumMix", "accum", "polyMix", "check", "z", "u", "ingest"}
Done == Len(fp) + Len(mix)
ProgramHolds ==
  /\ pc \in Before => fp = <<>> /\ mix = <<>>
  /\ pc = "program" =>
       /\ evalU \in [1..TapSize -> E4]
       /\ Done \in 0..Len(Block) /\ Len(fp) = Filled[Done]
       /\ Holds(fp, mix, Reference(Done, evalU, AccumMix), PolyMix)

\* The first state of the program.
LEMMA IngestHolds ==
  ASSUME ProgramHolds, DInv, Stamped, Ingest
  PROVE  ProgramHolds'
<1>1. /\ pc = "ingest" /\ fp = <<>> /\ mix = <<>> /\ fp' = <<>> /\ mix' = <<>>
      /\ pc' \in {"program", "rejected"}
  BY DEF ProgramHolds, Before, Ingest
<1>2. CASE pc' = "rejected"
  BY <1>2 DEF ProgramHolds, Before
<1>3. CASE pc' = "program"
  <2>1. /\ \A i \in DOMAIN words : AssertCanonical(words[i])
        /\ evalU' = EvalRegs(CoeffU, Len(Regs)) /\ drawn' = drawn
    BY <1>3 DEF Ingest, EvalU
  <2>2. CoeffU \in [1..TapSize + CheckSize -> E4]
    <3>1. \A i \in DOMAIN words : words[i] \in Base
      BY <2>1, CanonicalMeans
    <3>2. words = [i \in 1..NUCoeffs |-> words[i]]
      BY <1>1 DEF Stamped
    <3> QED
      BY <3>1, <3>2, CoeffsTyped
  <2>3. Len(drawn) = 9
    BY <1>1 DEF DInv, Counted
  <2>4. AccumMix \in Base /\ PolyMix \in E4 /\ Z \in E4
    BY <2>3, ChallengesTyped
  <2>5. evalU' \in [1..TapSize -> E4]
    BY <2>1, <2>2, <2>4, EvalTyped
  <2>6. Done' = 0 /\ Len(fp') = 0 /\ 0 \in 0..Len(Block) /\ Filled[0] = 0
    BY <1>1, FilledCounts, BlockAssumption DEF Done
  <2>7. Reference(0, evalU', AccumMix) = [fp |-> <<>>, terms |-> <<>>]
    <3>1. PICK e \in [1..TapSize -> E4] : e = evalU'
      BY <2>5
    <3>2. Reference(0, e, AccumMix) = [fp |-> <<>>, terms |-> <<>>]
      BY <2>4, ReferenceSteps
    <3> QED
      BY <3>1, <3>2
  <2>8. \A p : Holds(<<>>, <<>>, [fp |-> <<>>, terms |-> <<>>], p)
    BY DEF Holds
  <2>9. AccumMix' = AccumMix /\ PolyMix' = PolyMix
    BY <2>1 DEF AccumMix, PolyMix
  <2>10. Holds(fp', mix', Reference(Done', evalU', AccumMix'), PolyMix')
    BY <1>1, <2>6, <2>7, <2>8, <2>9
  <2> QED
    BY <1>3, <2>5, <2>6, <2>10 DEF ProgramHolds, Before
<1> QED
  BY <1>1, <1>2, <1>3

\* From one step of the program to the next.
LEMMA StepHolds ==
  ASSUME ProgramHolds, DInv, Step
  PROVE  ProgramHolds'
<1> DEFINE k == Done
           v == Filled[k]
           m == k - Filled[k]
           ref == Reference(k, evalU, AccumMix)
<1>1. /\ pc = "program" /\ pc' = pc /\ drawn' = drawn /\ evalU' = evalU
      /\ Load \/ Compute \/ Chain
      /\ k < Len(Block)
  BY DEF Step, Running, Done
<1>2. /\ evalU \in [1..TapSize -> E4] /\ k \in 0..Len(Block) /\ Len(fp) = v
      /\ Holds(fp, mix, ref, PolyMix)
  BY <1>1 DEF ProgramHolds
<1>3. /\ k \in Nat /\ k + 1 \in 1..Len(Block) /\ (k + 1) - 1 = k
      /\ v \in Nat /\ m \in Nat
  <2>1. Len(Block) \in Nat
    BY BlockAssumption
  <2>2. Filled[k] \in 0..k
    BY <1>2, FilledCounts
  <2> HIDE DEF k
  <2> QED
    BY <1>1, <1>2, <2>1, <2>2
<1>4. AccumMix \in Base /\ PolyMix \in E4
  <2>1. Len(drawn) = 9
    BY <1>1 DEF DInv, Counted
  <2> QED
    BY <2>1, ChallengesTyped
<1>5. ref \in RefStates(v, m) /\ Formed(Next1, v, m)
  <2>1. Next1 = Block[k + 1]
    BY DEF Next1, Done
  <2>2. \A n \in 1..Len(Block) : Formed(Block[n], Filled[n - 1], (n - 1) - Filled[n - 1])
    BY BlockAssumption
  <2> HIDE DEF k
  <2>3. Formed(Block[k + 1], v, m)
    BY <1>3, <2>2
  <2>4. ref \in RefStates(v, m)
    BY <1>2, <1>4, ReferenceSteps
  <2> QED
    BY <2>1, <2>3, <2>4
<1> DEFINE new == Meaning(Next1, ref, evalU, AccumMix)
<1>6. new = Reference(k + 1, evalU, AccumMix)
      /\ new \in RefStates(Filled[k + 1], (k + 1) - Filled[k + 1])
  <2>1. Next1 = Block[k + 1]
    BY DEF Next1, Done
  <2> HIDE DEF k
  <2>2. Reference(k + 1, evalU, AccumMix) =
          Meaning(Block[k + 1], Reference((k + 1) - 1, evalU, AccumMix), evalU, AccumMix)
    BY <1>2, <1>3, <1>4, ReferenceSteps
  <2>3. k + 1 \in 0..Len(Block)
    BY <1>3
  <2>4. Reference(k + 1, evalU, AccumMix) \in RefStates(Filled[k + 1], (k + 1) - Filled[k + 1])
    BY <1>2, <1>4, <2>3, ReferenceSteps
  <2> QED
    BY <1>3, <2>1, <2>2, <2>4
<1> HIDE DEF v, m, ref
<1>7. Holds(fp', mix', Meaning(Next1, ref, evalU, AccumMix), PolyMix)
  BY <1>1, <1>2, <1>3, <1>4, <1>5, StepMeans
<1> HIDE DEF new
<1>8. Len(fp') = Filled[k + 1] /\ Len(mix') = (k + 1) - Filled[k + 1]
  <2>1. Holds(fp', mix', new, PolyMix)
    BY <1>7 DEF new
  <2>2. Len(new.fp) = Filled[k + 1] /\ Len(new.terms) = (k + 1) - Filled[k + 1]
    BY <1>6 DEF RefStates
  <2> QED
    BY <2>1, <2>2 DEF Holds
<1>9. Done' = k + 1 /\ k + 1 \in 0..Len(Block)
  <2>1. Done' = Len(fp') + Len(mix')
    BY DEF Done
  <2>2. Filled[k + 1] \in Nat
    <3>1. k + 1 \in 0..Len(Block)
      BY <1>3
    <3>2. Filled[k + 1] \in 0..k + 1
      BY <3>1, FilledCounts
    <3> QED
      BY <3>2
  <2> HIDE DEF k
  <2> QED
    BY <1>3, <1>8, <2>1, <2>2
<1>10. AccumMix' = AccumMix /\ PolyMix' = PolyMix
  BY <1>1 DEF AccumMix, PolyMix
<1>11. Holds(fp', mix', Reference(Done', evalU', AccumMix'), PolyMix')
  <2>1. Holds(fp', mix', Reference(k + 1, evalU, AccumMix), PolyMix)
    BY <1>6, <1>7 DEF new
  <2> QED
    BY <1>1, <1>9, <1>10, <2>1
<1>12. pc' \notin Before
  BY <1>1 DEF Before
<1> QED
  BY <1>1, <1>2, <1>8, <1>9, <1>11, <1>12 DEF ProgramHolds

\* No other step enters the program or goes back before it, or moves the registers.
LEMMA ElsewhereHolds ==
  ASSUME ProgramHolds, UNCHANGED <<fp, mix>>, pc' \in Before => pc \in Before,
         pc' = "program" => pc = "program" /\ UNCHANGED <<evalU, drawn>>
  PROVE  ProgramHolds'
BY DEF ProgramHolds, Done, AccumMix, PolyMix

\* The registers follow the program from its first step to its last.
LEMMA ProgramFollowed == Spec => []ProgramHolds
<1>1. Init => ProgramHolds
  BY DEF Init, ProgramHolds
<1>2. ProgramHolds /\ DInv /\ Stamped /\ [Next]_vars => ProgramHolds'
  <2> SUFFICES ASSUME ProgramHolds, DInv, Stamped, [Next]_vars
               PROVE  ProgramHolds'
    OBVIOUS
  <2>1. CASE Draw
    <3>1. (pc' \in Before => pc \in Before) /\ pc' # "program"
      BY <2>1, DrawGoes DEF Before
    <3> QED
      BY <2>1, <3>1, ElsewhereHolds DEF Draw
  <2>2. CASE CommitAccum
    BY <2>2, ElsewhereHolds DEF CommitAccum, Before
  <2>3. CASE CommitCheck
    BY <2>3, ElsewhereHolds DEF CommitCheck, Before
  <2>4. CASE SendU
    BY <2>4, ElsewhereHolds DEF SendU, Before
  <2>5. CASE Ingest
    BY <2>5, IngestHolds
  <2>6. CASE Step
    BY <2>6, StepHolds
  <2>7. CASE Validity
    BY <2>7, ElsewhereHolds DEF Validity, Before
  <2>8. CASE MixU
    BY <2>8, ElsewhereHolds DEF MixU, Before
  <2>9. CASE CommitFri
    BY <2>9, ElsewhereHolds DEF CommitFri, Before
  <2>10. CASE SendFinal
    BY <2>10, ElsewhereHolds DEF SendFinal, Before
  <2>11. CASE Query
    BY <2>11, ElsewhereHolds DEF Query, Before
  <2>12. CASE UNCHANGED vars
    BY <2>12, ElsewhereHolds DEF vars
  <2> QED
    BY <2>1, <2>2, <2>3, <2>4, <2>5, <2>6, <2>7, <2>8, <2>9, <2>10, <2>11, <2>12 DEF Next
<1> QED
  BY <1>1, <1>2, Counting, Stamping, PTL DEF Spec

\* deep_polyext.go:102-146: whatever the table of the step program, the taps and the challenges,
\* folding constants outside the circuit and carrying the powers of poly_mix from block to block
\* computes the sum of everything the program asserts, each term under a power of its own.
THEOREM MixesEverything == Spec => []MixIsSum
<1>1. ASSUME ProgramHolds, DInv
      PROVE  MixIsSum
  <2> SUFFICES ASSUME pc = "program"
               PROVE  LET ref == Reference(Len(fp) + Len(mix), evalU, AccumMix)
                      IN  /\ Len(ref.fp) = Len(fp) /\ \A k \in DOMAIN fp : fp[k].e = ref.fp[k]
                          /\ \A m \in DOMAIN mix :
                               /\ mix[m].tot.e = Mixed(ref.terms[m], PolyMix)
                               /\ mix[m].mul.e = E4Power(PolyMix, Len(ref.terms[m]))
    BY DEF MixIsSum
  <2> DEFINE ref == Reference(Len(fp) + Len(mix), evalU, AccumMix)
  <2>1. Holds(fp, mix, ref, PolyMix)
    BY <1>1 DEF ProgramHolds, Done
  <2> HIDE DEF ref
  <2>2. DOMAIN fp = 1..Len(fp) /\ DOMAIN mix = 1..Len(mix)
    BY <2>1 DEF Holds
  <2>3. /\ Len(ref.fp) = Len(fp) /\ \A k \in DOMAIN fp : fp[k].e = ref.fp[k]
        /\ \A m \in DOMAIN mix : /\ mix[m].tot.e = Mixed(ref.terms[m], PolyMix)
                                 /\ mix[m].mul.e = E4Power(PolyMix, Len(ref.terms[m]))
    BY <2>1, <2>2 DEF Holds
  <2> QED
    BY <2>3 DEF ref
<1> QED
  BY <1>1, ProgramFollowed, Counting, PTL
-----------------------------------------------------------------------------
(* The validity equation *)

\* The evaluations of the taps, and the check polynomial, with the point as a parameter.
EvalAt(z, coeffU, n) ==
  LET eval[r \in 0..n] ==
        IF r = 0 THEN <<>>
        ELSE eval[r - 1] \o
             [i \in 1..Size(r) |-> PolyEval(SubSeq(coeffU, CurPos(r) + 1, CurPos(r) + Size(r)),
                                            E4ScalarMul(z, Power(BackOne, Regs[r].backs[i])))]
  IN  eval[n]
CheckPolyAt(z, coeffU, remap) ==
  LET basis == <<E4One, <<0, 1, 0, 0>>, <<0, 0, 1, 0>>, <<0, 0, 0, 1>> >>
      inner[i \in 1..4, j \in 0..4] ==
        IF j = 0 THEN E4Zero
        ELSE E4Add(inner[i, j - 1],
                   E4Mul(coeffU[TapSize + 1 + remap[i] + 4 * (j - 1)], basis[j]))
      square[k \in 0..Po2] ==
        IF k = 0 THEN E4ScalarMul(z, 3) ELSE E4Mul(square[k - 1], square[k - 1])
  IN  E4Mul(PolyEval([i \in 1..4 |-> inner[i, 4]], z), E4Sub(square[Po2], E4One))

\* What the block asserts, with the global as a parameter.
AssertedWith(taps, acc) == LET terms == Reference(Len(Block), taps, acc).terms IN terms[Len(terms)]

\* The words of the U coefficients, as a parameter.
CoeffsOf(w) == [k \in 1..TapSize + CheckSize |-> SubSeq(w, 4 * k - 3, 4 * k)]

\* The equation says something about the words, the challenges of the validity check and nothing
\* else.
LEMMA EquationOf ==
  /\ EvalU = EvalAt(Z, CoeffsOf(words), Len(Regs))
  /\ \A taps : Asserted(taps) = AssertedWith(taps, AccumMix)
  /\ ComputeCheckFrom(CoeffU) = CheckPolyAt(Z, CoeffsOf(words), <<0, 2, 1, 3>>)
<1>1. CoeffU = CoeffsOf(words)
  BY DEF CoeffU, CoeffsOf
<1>2. EvalU = EvalAt(Z, CoeffU, Len(Regs))
  BY DEF EvalU, EvalRegs, EvalAt
<1>3. ComputeCheckFrom(CoeffU) = CheckPolyAt(Z, CoeffU, <<0, 2, 1, 3>>)
  BY DEF ComputeCheckFrom, CheckAt, CheckPolyAt
<1>4. \A taps : Asserted(taps) = AssertedWith(taps, AccumMix)
  BY DEF Asserted, AssertedWith
<1> QED
  BY <1>1, <1>2, <1>3, <1>4

\* It stays what it is as long as they do.
LEMMA EquationStays ==
  ASSUME words' = words, AccumMix' = AccumMix, PolyMix' = PolyMix, Z' = Z
  PROVE  /\ EvalU' = EvalU
         /\ Mixed(Asserted(EvalU), PolyMix)' = Mixed(Asserted(EvalU), PolyMix)
         /\ ComputeCheckFrom(CoeffU)' = ComputeCheckFrom(CoeffU)
<1>1. CoeffU' = CoeffsOf(words')
  BY DEF CoeffU, CoeffsOf
<1>2. EvalU' = EvalAt(Z', CoeffU', Len(Regs))
  BY DEF EvalU, EvalRegs, EvalAt
<1>3. ComputeCheckFrom(CoeffU)' = CheckPolyAt(Z', CoeffU', <<0, 2, 1, 3>>)
  BY DEF ComputeCheckFrom, CheckAt, CheckPolyAt
<1>4. Mixed(Asserted(EvalU), PolyMix)' = Mixed(AssertedWith(EvalU', AccumMix'), PolyMix')
  BY DEF Asserted, AssertedWith
<1>5. Mixed(Asserted(EvalU), PolyMix) = Mixed(AssertedWith(EvalU, AccumMix), PolyMix)
  BY DEF Asserted, AssertedWith
<1> QED
  BY <1>1, <1>2, <1>3, <1>4, <1>5, EquationOf

\* The mixes of the validity check and the point stay what they are while elements are added to
\* what was drawn.
LEMMA ChallengesStay ==
  ASSUME DInv, Len(drawn) >= 9, \/ drawn' = drawn
                                \/ \E e \in Nat : drawn' = Append(drawn, e)
  PROVE  AccumMix' = AccumMix /\ PolyMix' = PolyMix /\ Z' = Z
<1>1. CASE drawn' = drawn
  BY <1>1 DEF AccumMix, PolyMix, Z
<1>2. CASE \E e \in Nat : drawn' = Append(drawn, e)
  <2>1. PICK e \in Nat : drawn' = Append(drawn, e)
    BY <1>2
  <2>2. drawn \in Seq(Nat) /\ Len(drawn) \in Nat
    BY LenProperties DEF DInv
  <2>3. \A i \in 1..Len(drawn) : Append(drawn, e)[i] = drawn[i]
    BY <2>2
  <2>4. \A i \in 1..9 : drawn'[i] = drawn[i]
    BY <2>1, <2>2, <2>3
  <2>5. AccumMix' = AccumMix
    BY <2>4 DEF AccumMix
  <2>6. ASSUME NEW m \in 1..9, NEW n \in 1..9
        PROVE  SubSeq(drawn', m, n) = SubSeq(drawn, m, n)
    <3> DEFINE s == SubSeq(drawn', m, n)
               t == SubSeq(drawn, m, n)
    <3>0. DOMAIN drawn = 1..Len(drawn) /\ m \in Int /\ n \in Int
      BY <2>2
    <3>1. /\ \A i \in m..n : drawn'[i] \in Nat
          /\ \A i \in m..n : drawn[i] \in Nat
      <4>1. \A i \in m..n : i \in 1..9
        OBVIOUS
      <4>2. \A i \in 1..9 : drawn[i] \in Nat
        BY <2>2, <3>0
      <4>3. \A i \in 1..9 : drawn'[i] \in Nat
        BY <2>4, <4>2
      <4> QED
        BY <4>1, <4>2, <4>3
    <3>2. /\ s \in Seq(Nat) /\ Len(s) = (IF m <= n THEN n - m + 1 ELSE 0)
          /\ \A i \in 1..n - m + 1 : s[i] = drawn'[m + i - 1]
      BY <3>0, <3>1, SubSeqProperties
    <3>3. /\ t \in Seq(Nat) /\ Len(t) = (IF m <= n THEN n - m + 1 ELSE 0)
          /\ \A i \in 1..n - m + 1 : t[i] = drawn[m + i - 1]
      BY <3>0, <3>1, SubSeqProperties
    <3> HIDE DEF s, t
    <3>4. \A i \in 1..n - m + 1 : m + i - 1 \in 1..9
      OBVIOUS
    <3>5. Len(s) = Len(t) /\ \A i \in 1..Len(s) : s[i] = t[i]
      <4>1. \A i \in 1..n - m + 1 : s[i] = t[i]
        BY <2>4, <3>2, <3>3, <3>4
      <4>2. Len(s) = Len(t) /\ \A i \in 1..Len(s) : i \in 1..n - m + 1
        BY <3>0, <3>2, <3>3
      <4> QED
        BY <4>1, <4>2
    <3>6. s = t
      BY <3>2, <3>3, <3>5, SeqEqual
    <3> QED
      BY <3>6 DEF s, t
  <2> QED
    BY <2>5, <2>6 DEF PolyMix, Z
<1> QED
  BY <1>1, <1>2

\* The inductive invariant behind EquationHolds.
EquationInv ==
  /\ pc = "program" => evalU = EvalU
  /\ EquationHolds

\* driver.go:109-116, deep_polyext.go:147-152: the end of the program with the registers it filled.
LEMMA ValidityChecks ==
  ASSUME EquationInv, ProgramHolds, DInv, ret \in Nat, Validity
  PROVE  EquationInv'
<1> DEFINE n == Len(Block)
           f == Filled[n]
           ref == Reference(n, evalU, AccumMix)
<1>1. /\ pc = "program" /\ Done \in 0..n /\ ~(Done < n) /\ n \in Nat
      /\ Len(fp) = Filled[Done] /\ evalU \in [1..TapSize -> E4] /\ evalU = EvalU
      /\ Holds(fp, mix, Reference(Done, evalU, AccumMix), PolyMix)
  BY BlockAssumption DEF Validity, Running, ProgramHolds, Done, EquationInv
<1>2. Done = n
  BY <1>1
<1>3. f \in 0..n
  BY <1>1, FilledCounts
<1>4. Len(fp) = f /\ Len(mix) = n - f /\ Holds(fp, mix, ref, PolyMix)
  <2>1. Len(fp) \in Nat /\ Len(mix) \in Nat
    BY <1>1 DEF Holds
  <2>2. Len(fp) = f /\ Len(fp) + Len(mix) = n
    BY <1>1, <1>2 DEF Done
  <2> HIDE DEF n, f
  <2>3. Len(mix) = n - f
    BY <1>1, <1>3, <2>1, <2>2
  <2> QED
    BY <1>1, <1>2, <2>2, <2>3 DEF n, f
<1>5. SizesOK <=> ret = LastMix
  <2>1. LastMix = n - f - 1
    BY DEF LastMix
  <2>2. SizesOK <=> n - f = ret + 1 /\ f = n - (ret + 1)
    BY <1>4 DEF SizesOK
  <2> HIDE DEF n, f
  <2> QED
    BY <1>1, <1>3, <2>1, <2>2
<1>6. ASSUME SizesOK
      PROVE  mix[ret + 1].tot.e = Mixed(Asserted(EvalU), PolyMix)
  <2>1. Len(ref.terms) = Len(mix) /\ ret + 1 = Len(mix) /\ ret + 1 \in 1..Len(mix)
    BY <1>4, <1>6 DEF Holds, SizesOK
  <2>2. mix[ret + 1].tot.e = Mixed(ref.terms[ret + 1], PolyMix)
    BY <1>4, <2>1 DEF Holds
  <2>3. Asserted(evalU) = ref.terms[Len(ref.terms)]
    BY DEF Asserted
  <2> HIDE DEF ref
  <2> QED
    BY <1>1, <2>1, <2>2, <2>3
<1>7. /\ words' = words /\ drawn' = drawn /\ ret' = ret
      /\ pc' = IF ~SizesOK THEN "panic"
               ELSE IF mix[ret + 1].tot.e = ComputeCheckFrom(CoeffU) THEN "friMix" ELSE "rejected"
  BY DEF Validity
<1>8. LastMix' = LastMix
  BY DEF LastMix
<1>9. AccumMix' = AccumMix /\ PolyMix' = PolyMix /\ Z' = Z
  BY <1>7 DEF AccumMix, PolyMix, Z
<1> DEFINE l == Mixed(Asserted(EvalU), PolyMix)
           r == ComputeCheckFrom(CoeffU)
<1>10. l' = l /\ r' = r
  BY <1>7, <1>9, EquationStays
<1>11. pc' \in {"panic", "friMix", "rejected"}
  BY <1>7
<1> HIDE DEF ref, n, f
<1>12. (pc' = "friMix" => ret' = LastMix' /\ l' = r') /\ (pc' = "panic" => ret' # LastMix')
  BY <1>5, <1>6, <1>7, <1>8, <1>10
<1> HIDE DEF l, r
<1>13. pc' \in Checked => ret' = LastMix' /\ l' = r'
  BY <1>11, <1>12 DEF Checked
<1> QED
  BY <1>11, <1>12, <1>13 DEF EquationInv, EquationHolds, l, r

\* Steps that change neither the words nor the challenges keep what was checked.
LEMMA EquationKept ==
  ASSUME EquationInv, DInv, ret' = ret, words' = words,
         AccumMix' = AccumMix /\ PolyMix' = PolyMix /\ Z' = Z,
         pc' = "program" => pc = "program" /\ evalU' = evalU,
         pc' \in Checked => pc \in Checked, pc' = "panic" => pc = "panic"
  PROVE  EquationInv'
<1> DEFINE l == Mixed(Asserted(EvalU), PolyMix)
           r == ComputeCheckFrom(CoeffU)
<1>1. EvalU' = EvalU /\ l' = l /\ r' = r
  BY EquationStays
<1>2. LastMix' = LastMix
  BY DEF LastMix
<1>3. /\ pc \in Checked => ret = LastMix /\ l = r
      /\ pc = "panic" => ret # LastMix
      /\ pc = "program" => evalU = EvalU
  BY DEF EquationInv, EquationHolds
<1> HIDE DEF l, r
<1>4. /\ pc' \in Checked => ret' = LastMix' /\ l' = r'
      /\ pc' = "panic" => ret' # LastMix'
      /\ pc' = "program" => evalU' = EvalU'
  BY <1>1, <1>2, <1>3
<1> QED
  BY <1>4 DEF EquationInv, EquationHolds, Checked, l, r

\* So do those that leave the part of the driver the equation is about alone.
LEMMA EquationElsewhere ==
  ASSUME pc' \notin Checked \cup {"program", "panic"}
  PROVE  EquationInv'
BY DEF EquationInv, EquationHolds, Checked

\* Every step keeps it.
LEMMA EquationStep ==
  ASSUME EquationInv, ProgramHolds, DInv, ret \in Nat, [Next]_vars
  PROVE  EquationInv'
<1>1. CASE Draw
  <2>1. CASE pc \in {"friMix", "mix"}
    <3>1. Len(drawn) >= 9 /\ pc' \in Checked /\ pc \in Checked /\ pc' \notin {"program", "panic"}
      <4> DEFINE n == Len(drawn)
      <4>1. n \in Nat /\ round \in Nat
        BY LenProperties DEF DInv
      <4>2. n \in 9..12 \/ n \in 9 + 4 * round..12 + 4 * round
        BY <2>1 DEF DInv, Counted
      <4> HIDE DEF n
      <4>3. n >= 9
        BY <4>1, <4>2
      <4> QED
        BY <1>1, <2>1, <4>3, DrawGoes DEF Checked, n
    <3>2. \E e \in Nat : drawn' = Append(drawn, e)
      <4>1. PICK e \in RandomElem(Sums[Len(drawn) + 1]) : drawn' = Append(drawn, e)
        BY <1>1 DEF Draw
      <4>2. e \in Nat
        BY Modulus, <4>1 DEF RandomElem
      <4> QED
        BY <4>1, <4>2
    <3>3. AccumMix' = AccumMix /\ PolyMix' = PolyMix /\ Z' = Z
      BY <3>1, <3>2, ChallengesStay
    <3>4. ret' = ret /\ words' = words
      BY <1>1 DEF Draw
    <3> QED
      BY <3>1, <3>3, <3>4, EquationKept
  <2>2. CASE pc \notin {"friMix", "mix"}
    <3>1. pc' \in {"accum", "polyMix", "check", "z", "u"}
      BY <1>1, <2>2, DrawGoes
    <3> QED
      BY <3>1, EquationElsewhere DEF Checked
  <2> QED
    BY <2>1, <2>2
<1>2. CASE CommitAccum
  BY <1>2, EquationElsewhere DEF CommitAccum, Checked
<1>3. CASE CommitCheck
  BY <1>3, EquationElsewhere DEF CommitCheck, Checked
<1>4. CASE SendU
  BY <1>4, EquationElsewhere DEF SendU, Checked
<1>5. CASE Ingest
  <2>1. CASE pc' = "program"
    <3>1. evalU' = EvalU /\ words' = words /\ drawn' = drawn
      BY <1>5, <2>1 DEF Ingest
    <3>2. AccumMix' = AccumMix /\ PolyMix' = PolyMix /\ Z' = Z
      BY <3>1 DEF AccumMix, PolyMix, Z
    <3>3. EvalU' = EvalU
      BY <3>1, <3>2, EquationStays
    <3> QED
      BY <2>1, <3>1, <3>3 DEF EquationInv, EquationHolds, Checked
  <2>2. CASE pc' # "program"
    BY <1>5, <2>2, EquationElsewhere DEF Ingest, Checked
  <2> QED
    BY <2>1, <2>2
<1>6. ASSUME \/ Step \/ MixU \/ CommitFri \/ SendFinal \/ Query \/ UNCHANGED vars
      PROVE  EquationInv'
  <2>1. /\ ret' = ret /\ words' = words /\ drawn' = drawn
    BY <1>6 DEF Step, MixU, CommitFri, SendFinal, Query, vars
  <2>2. AccumMix' = AccumMix /\ PolyMix' = PolyMix /\ Z' = Z
    BY <2>1 DEF AccumMix, PolyMix, Z
  <2>3. /\ pc' = "program" => pc = "program" /\ evalU' = evalU
        /\ pc' \in Checked => pc \in Checked
        /\ pc' = "panic" => pc = "panic"
    <3>1. CASE Step
      BY <3>1 DEF Step
    <3>2. CASE MixU
      BY <3>2 DEF MixU, Checked
    <3>3. CASE CommitFri
      BY <3>3 DEF CommitFri, Checked
    <3>4. CASE SendFinal
      BY <3>4 DEF SendFinal, Checked
    <3>5. CASE Query
      BY <3>5 DEF Query, Checked
    <3>6. CASE UNCHANGED vars
      BY <3>6 DEF vars
    <3> QED
      BY <1>6, <3>1, <3>2, <3>3, <3>4, <3>5, <3>6
  <2> QED
    BY <2>1, <2>2, <2>3, EquationKept
<1>7. CASE Validity
  BY <1>7, ValidityChecks
<1> QED
  BY <1>1, <1>2, <1>3, <1>4, <1>5, <1>6, <1>7 DEF Next

\* The table does not change its result register.
LEMMA RetKept == Spec => [](ret \in Nat)
<1>1. Init => ret \in Nat
  BY BlockAssumption DEF Init
<1>2. ret \in Nat /\ [Next]_vars => (ret \in Nat)'
  BY DEF Next, vars, Draw, CommitAccum, CommitCheck, SendU, Ingest, Step, Validity, MixU, CommitFri,
         SendFinal, Query
<1> QED
  BY <1>1, <1>2, PTL DEF Spec

\* driver.go:109-116: whatever the tables, the challenges and the words of the seal, a run that
\* passes the validity check, an accepted one among them, has checked that everything the program
\* asserts by definition adds up to the check polynomial; and the size check stops exactly the
\* tables whose result register is not the last.
THEOREM WholeProgramChecked == Spec => []EquationHolds
<1>1. Init => EquationInv
  BY DEF Init, EquationInv, EquationHolds, Checked
<1>2. EquationInv /\ ProgramHolds /\ DInv /\ ret \in Nat /\ [Next]_vars => EquationInv'
  BY EquationStep
<1>3. EquationInv => EquationHolds
  BY DEF EquationInv
<1> QED
  BY <1>1, <1>2, <1>3, ProgramFollowed, Counting, RetKept, PTL DEF Spec

-----------------------------------------------------------------------------
(* What a query hands to FRI *)

\* A column at a point of the base field.
LEMMA BaseEvalTyped ==
  ASSUME NEW c \in [1..Cycles -> Base], NEW x \in Base
  PROVE  BaseEval(c, x) \in Base
<1> DEFINE n == Len(c)
           S == Base
           go(k, s) == (s * x + c[Len(c) + 1 - k]) % P
           F == [k \in 1..n |-> [s \in S |-> go(k, s)]]
           Run(z) == z = [k \in 0..n |-> IF k = 0 THEN 0 ELSE go(k, z[k - 1])]
           run == CHOOSE z : Run(z)
<1>1. n \in Nat
  BY DomainAssumption
<1>2. ASSUME NEW k \in 1..n, NEW s \in S
      PROVE  go(k, s) \in S
  <2>1. s \in Nat /\ x \in Nat
    BY BaseFacts
  <2>2. Len(c) = Cycles /\ Cycles \in Nat
    BY DomainAssumption
  <2>3. Len(c) + 1 - k \in 1..Cycles
    BY <2>2
  <2>4. c[Len(c) + 1 - k] \in Nat
    BY <2>3, BaseFacts
  <2>5. s * x + c[Len(c) + 1 - k] \in Int
    BY <2>1, <2>4
  <2> QED
    BY <2>5, BaseFacts
<1>3. 0 \in S
  BY BaseFacts
<1>4. BaseEval(c, x) = run[n]
  BY DEF BaseEval
<1>5. \A k \in 1..n : \A s \in S : F[k][s] = go(k, s)
  OBVIOUS
<1> HIDE DEF n, S, go, F, Run, run
<1>6. \A k \in 1..n : k \in 0..n /\ k - 1 \in 0..n /\ k # 0
  BY <1>1
<1>7. PICK g : RunsIn(n, S, 0, F, g)
  BY <1>1, <1>2, <1>3, <1>5, RecursionIn
<1>8. Run(g)
  <2>1. \A k \in 0..n : k = 0 \/ k \in 1..n
    BY <1>1
  <2>2. \A k \in 0..n : g[k] = IF k = 0 THEN 0 ELSE go(k, g[k - 1])
    BY <1>5, <1>6, <1>7, <2>1 DEF RunsIn
  <2>3. g = [k \in 0..n |-> g[k]]
    BY <1>7 DEF RunsIn
  <2> QED
    BY <2>2, <2>3 DEF Run
<1>9. Run(run)
  BY <1>8 DEF run
<1>10. run[0] \in S /\ \A k \in 1..n : run[k - 1] \in S => run[k] \in S
  <2>1. run = [k \in 0..n |-> IF k = 0 THEN 0 ELSE go(k, run[k - 1])]
    BY <1>9 DEF Run
  <2>2. 0 \in 0..n
    BY <1>1
  <2> QED
    BY <1>2, <1>3, <1>6, <2>1, <2>2
<1>11. run[n] \in S
  BY <1>1, <1>10, TypedRun
<1> QED
  BY <1>4, <1>11 DEF S, n

\* The columns, the check columns and the mixed polynomials are of elements.
ColsTyped == \A r \in DOMAIN Regs : cols[Column(r)] \in [1..Cycles -> Base]
CheckTyped == check \in [1..CheckSize -> [1..Cycles -> Base]]
ComboTyped ==
  /\ \A c \in 1..Combos : combo.u[c] \in Seq(E4)
  /\ combo.check \in E4
  /\ combo.pows \in [1..Len(Regs) + CheckSize -> E4]

\* How many registers there are.
LEMMA RegCount == Len(Regs) \in Nat /\ DOMAIN Regs = 1..Len(Regs) /\ CheckSize \in Nat
BY DeepAssumption DEF CheckSize

\* The mixed row entries of a combo (deep_frieval.go:69-73).
LEMMA TapTotalTyped ==
  ASSUME ColsTyped, ComboTyped, NEW c, NEW x \in Base
  PROVE  TapTotal(c, x) \in E4
<1> DEFINE n == Len(Regs)
           S == E4
           go(k, s) == IF k \notin SameCombo(c) THEN s
                       ELSE E4Add(s, E4ScalarMul(combo.pows[k], BaseEval(cols[Column(k)], x)))
           F == [k \in 1..n |-> [s \in S |-> go(k, s)]]
           Run(z) == z = [k \in 0..n |-> IF k = 0 THEN E4Zero ELSE go(k, z[k - 1])]
           run == CHOOSE z : Run(z)
<1>1. n \in Nat
  BY RegCount
<1>2. ASSUME NEW k \in 1..n, NEW s \in S
      PROVE  go(k, s) \in S
  <2>1. k \in DOMAIN Regs /\ k \in 1..Len(Regs) + CheckSize
    BY RegCount
  <2>2. combo.pows[k] \in E4 /\ BaseEval(cols[Column(k)], x) \in Base
    BY <2>1, BaseEvalTyped DEF ColsTyped, ComboTyped
  <2>3. E4ScalarMul(combo.pows[k], BaseEval(cols[Column(k)], x)) \in E4
    BY <2>2, ScaledBy
  <2> QED
    BY <2>3, E4Typed
<1>3. E4Zero \in S
  BY ConjugateOfOne
<1>4. TapTotal(c, x) = run[n]
  BY DEF TapTotal
<1>5. \A k \in 1..n : \A s \in S : F[k][s] = go(k, s)
  OBVIOUS
<1> HIDE DEF n, S, go, F, Run, run
<1>6. \A k \in 1..n : k \in 0..n /\ k - 1 \in 0..n /\ k # 0
  BY <1>1
<1>7. PICK g : RunsIn(n, S, E4Zero, F, g)
  BY <1>1, <1>2, <1>3, <1>5, RecursionIn
<1>8. Run(g)
  <2>1. \A k \in 0..n : k = 0 \/ k \in 1..n
    BY <1>1
  <2>2. \A k \in 0..n : g[k] = IF k = 0 THEN E4Zero ELSE go(k, g[k - 1])
    BY <1>5, <1>6, <1>7, <2>1 DEF RunsIn
  <2>3. g = [k \in 0..n |-> g[k]]
    BY <1>7 DEF RunsIn
  <2> QED
    BY <2>2, <2>3 DEF Run
<1>9. Run(run)
  BY <1>8 DEF run
<1>10. run[0] \in S /\ \A k \in 1..n : run[k - 1] \in S => run[k] \in S
  <2>1. run = [k \in 0..n |-> IF k = 0 THEN E4Zero ELSE go(k, run[k - 1])]
    BY <1>9 DEF Run
  <2>2. 0 \in 0..n
    BY <1>1
  <2> QED
    BY <1>2, <1>3, <1>6, <2>1, <2>2
<1>11. run[n] \in S
  BY <1>1, <1>10, TypedRun
<1> QED
  BY <1>4, <1>11 DEF S, n

\* And of the check group (deep_frieval.go:74-76).
LEMMA CheckTotalTyped ==
  ASSUME CheckTyped, ComboTyped, NEW x \in Base
  PROVE  CheckTotal(x) \in E4
<1> DEFINE n == CheckSize
           S == E4
           go(k, s) == E4Add(s, E4ScalarMul(combo.pows[Len(Regs) + k], BaseEval(check[k], x)))
           F == [k \in 1..n |-> [s \in S |-> go(k, s)]]
           Run(z) == z = [k \in 0..n |-> IF k = 0 THEN E4Zero ELSE go(k, z[k - 1])]
           run == CHOOSE z : Run(z)
<1>1. n \in Nat
  BY RegCount
<1>2. ASSUME NEW k \in 1..n, NEW s \in S
      PROVE  go(k, s) \in S
  <2>1. Len(Regs) + k \in 1..Len(Regs) + CheckSize
    BY RegCount
  <2>2. combo.pows[Len(Regs) + k] \in E4 /\ BaseEval(check[k], x) \in Base
    BY <2>1, BaseEvalTyped DEF CheckTyped, ComboTyped
  <2>3. E4ScalarMul(combo.pows[Len(Regs) + k], BaseEval(check[k], x)) \in E4
    BY <2>2, ScaledBy
  <2> QED
    BY <2>3, E4Typed
<1>3. E4Zero \in S
  BY ConjugateOfOne
<1>4. CheckTotal(x) = run[n]
  BY DEF CheckTotal
<1>5. \A k \in 1..n : \A s \in S : F[k][s] = go(k, s)
  OBVIOUS
<1> HIDE DEF n, S, go, F, Run, run
<1>6. \A k \in 1..n : k \in 0..n /\ k - 1 \in 0..n /\ k # 0
  BY <1>1
<1>7. PICK g : RunsIn(n, S, E4Zero, F, g)
  BY <1>1, <1>2, <1>3, <1>5, RecursionIn
<1>8. Run(g)
  <2>1. \A k \in 0..n : k = 0 \/ k \in 1..n
    BY <1>1
  <2>2. \A k \in 0..n : g[k] = IF k = 0 THEN E4Zero ELSE go(k, g[k - 1])
    BY <1>5, <1>6, <1>7, <2>1 DEF RunsIn
  <2>3. g = [k \in 0..n |-> g[k]]
    BY <1>7 DEF RunsIn
  <2> QED
    BY <2>2, <2>3 DEF Run
<1>9. Run(run)
  BY <1>8 DEF run
<1>10. run[0] \in S /\ \A k \in 1..n : run[k - 1] \in S => run[k] \in S
  <2>1. run = [k \in 0..n |-> IF k = 0 THEN E4Zero ELSE go(k, run[k - 1])]
    BY <1>9 DEF Run
  <2>2. 0 \in 0..n
    BY <1>1
  <2> QED
    BY <1>2, <1>3, <1>6, <2>1, <2>2
<1>11. run[n] \in S
  BY <1>1, <1>10, TypedRun
<1> QED
  BY <1>4, <1>11 DEF S, n

\* The backs of a combo.
LEMMA BacksTyped ==
  ASSUME NEW c \in 1..Combos
  PROVE  LET backs == SubSeq(ComboTaps, ComboBegin[c] + 1, ComboBegin[c + 1])
         IN  backs \in Seq(Nat) /\ Len(backs) = ComboBegin[c + 1] - ComboBegin[c]
<1> DEFINE m == ComboBegin[c] + 1
           n == ComboBegin[c + 1]
<1>1. c \in 1..Len(ComboBegin) /\ c + 1 \in 1..Len(ComboBegin)
  <2>1. Len(ComboBegin) \in Nat /\ Combos = Len(ComboBegin) - 1
    BY CombosAssumption DEF Combos
  <2> QED
    BY <2>1
<1>2. ComboBegin[c] \in Nat /\ n \in Nat /\ ComboBegin[c] <= n /\ n <= Len(ComboTaps)
  BY <1>1, CombosAssumption
<1>3. m \in Int /\ n \in Int /\ \A i \in m..n : i \in 1..Len(ComboTaps)
  <2>1. Len(ComboTaps) \in Nat
    BY CombosAssumption
  <2> QED
    BY <1>2, <2>1
<1>4. \A i \in m..n : ComboTaps[i] \in Nat
  BY <1>3, CombosAssumption
<1>5. m <= n \/ n = ComboBegin[c]
  BY <1>2
<1> HIDE DEF m, n
<1>6. SubSeq(ComboTaps, m, n) \in Seq(Nat) /\ Len(SubSeq(ComboTaps, m, n)) = IF m <= n THEN n - m + 1 ELSE 0
  BY <1>3, <1>4, SubSeqProperties
<1> USE DEF m, n
<1>7. (IF m <= n THEN n - m + 1 ELSE 0) = n - ComboBegin[c]
  BY <1>2, <1>5
<1> QED
  BY <1>6, <1>7

\* The denominator of a combo (deep_frieval.go:84-88).
LEMMA DivisorTyped ==
  ASSUME Z \in E4, NEW c \in 1..Combos, NEW x \in Base
  PROVE  Divisor(c, x) \in E4
<1> DEFINE n == Len(SubSeq(ComboTaps, ComboBegin[c] + 1, ComboBegin[c + 1]))
           S == E4
           go(k, s) == E4Mul(s, E4Sub(E4From(x), E4ScalarMul(Z, Power(BackOne,
                                    SubSeq(ComboTaps, ComboBegin[c] + 1, ComboBegin[c + 1])[k]))))
           F == [k \in 1..n |-> [s \in S |-> go(k, s)]]
           Run(z) == z = [k \in 0..n |-> IF k = 0 THEN E4One ELSE go(k, z[k - 1])]
           run == CHOOSE z : Run(z)
<1>1. n \in Nat
  BY BacksTyped
<1>2. ASSUME NEW k \in 1..n, NEW s \in S
      PROVE  go(k, s) \in S
  <2> DEFINE backs == SubSeq(ComboTaps, ComboBegin[c] + 1, ComboBegin[c + 1])
  <2>1. backs \in Seq(Nat)
    BY BacksTyped
  <2>2. backs[k] \in Nat
    BY <2>1
  <2>3. Power(BackOne, backs[k]) \in Base
    BY <2>2, BlockAssumption, BaseFacts, PowerTyped
  <2>4. E4ScalarMul(Z, Power(BackOne, backs[k])) \in E4
    BY <2>3, ScaledBy
  <2>5. E4Sub(E4From(x), E4ScalarMul(Z, Power(BackOne, backs[k]))) \in E4
    BY <2>4, FromBase, E4Typed
  <2> QED
    BY <2>5, E4Typed
<1>3. E4One \in S
  BY ConjugateOfOne
<1>4. Divisor(c, x) = run[n]
  BY DEF Divisor
<1>5. \A k \in 1..n : \A s \in S : F[k][s] = go(k, s)
  OBVIOUS
<1> HIDE DEF n, S, go, F, Run, run
<1>6. \A k \in 1..n : k \in 0..n /\ k - 1 \in 0..n /\ k # 0
  BY <1>1
<1>7. PICK g : RunsIn(n, S, E4One, F, g)
  BY <1>1, <1>2, <1>3, <1>5, RecursionIn
<1>8. Run(g)
  <2>1. \A k \in 0..n : k = 0 \/ k \in 1..n
    BY <1>1
  <2>2. \A k \in 0..n : g[k] = IF k = 0 THEN E4One ELSE go(k, g[k - 1])
    BY <1>5, <1>6, <1>7, <2>1 DEF RunsIn
  <2>3. g = [k \in 0..n |-> g[k]]
    BY <1>7 DEF RunsIn
  <2> QED
    BY <2>2, <2>3 DEF Run
<1>9. Run(run)
  BY <1>8 DEF run
<1>10. run[0] \in S /\ \A k \in 1..n : run[k - 1] \in S => run[k] \in S
  <2>1. run = [k \in 0..n |-> IF k = 0 THEN E4One ELSE go(k, run[k - 1])]
    BY <1>9 DEF Run
  <2>2. 0 \in 0..n
    BY <1>1
  <2> QED
    BY <1>2, <1>3, <1>6, <2>1, <2>2
<1>11. run[n] \in S
  BY <1>1, <1>10, TypedRun
<1> QED
  BY <1>4, <1>11 DEF S, n

\* A query's value: the part of the taps (deep_frieval.go:80-90).
LEMMA TapsPartTyped ==
  ASSUME ColsTyped, ComboTyped, Z \in E4, NEW x \in Base
  PROVE  TapsPart(x) \in E4
<1> DEFINE n == Combos
           S == E4
           go(k, s) == E4Add(s, E4Mul(E4Sub(TapTotal(k, x), PolyEval(combo.u[k], E4From(x))),
                                      InvHint(Divisor(k, x))))
           F == [k \in 1..n |-> [s \in S |-> go(k, s)]]
           Run(z) == z = [k \in 0..n |-> IF k = 0 THEN E4Zero ELSE go(k, z[k - 1])]
           run == CHOOSE z : Run(z)
<1>1. n \in Nat
  BY CombosAssumption
<1>2. ASSUME NEW k \in 1..n, NEW s \in S
      PROVE  go(k, s) \in S
  <2>1. TapTotal(k, x) \in E4
    BY TapTotalTyped
  <2>2. PolyEval(combo.u[k], E4From(x)) \in E4
    BY FromBase, PolyTyped DEF ComboTyped
  <2>3. InvHint(Divisor(k, x)) \in E4
    BY DivisorTyped, HintFactors
  <2>4. E4Sub(TapTotal(k, x), PolyEval(combo.u[k], E4From(x))) \in E4
    BY <2>1, <2>2, E4Typed
  <2>5. E4Mul(E4Sub(TapTotal(k, x), PolyEval(combo.u[k], E4From(x))), InvHint(Divisor(k, x))) \in E4
    BY <2>3, <2>4, E4Typed
  <2> QED
    BY <2>5, E4Typed
<1>3. E4Zero \in S
  BY ConjugateOfOne
<1>4. TapsPart(x) = run[n]
  BY DEF TapsPart
<1>5. \A k \in 1..n : \A s \in S : F[k][s] = go(k, s)
  OBVIOUS
<1> HIDE DEF n, S, go, F, Run, run
<1>6. \A k \in 1..n : k \in 0..n /\ k - 1 \in 0..n /\ k # 0
  BY <1>1
<1>7. PICK g : RunsIn(n, S, E4Zero, F, g)
  BY <1>1, <1>2, <1>3, <1>5, RecursionIn
<1>8. Run(g)
  <2>1. \A k \in 0..n : k = 0 \/ k \in 1..n
    BY <1>1
  <2>2. \A k \in 0..n : g[k] = IF k = 0 THEN E4Zero ELSE go(k, g[k - 1])
    BY <1>5, <1>6, <1>7, <2>1 DEF RunsIn
  <2>3. g = [k \in 0..n |-> g[k]]
    BY <1>7 DEF RunsIn
  <2> QED
    BY <2>2, <2>3 DEF Run
<1>9. Run(run)
  BY <1>8 DEF run
<1>10. run[0] \in S /\ \A k \in 1..n : run[k - 1] \in S => run[k] \in S
  <2>1. run = [k \in 0..n |-> IF k = 0 THEN E4Zero ELSE go(k, run[k - 1])]
    BY <1>9 DEF Run
  <2>2. 0 \in 0..n
    BY <1>1
  <2> QED
    BY <1>2, <1>3, <1>6, <2>1, <2>2
<1>11. run[n] \in S
  BY <1>1, <1>10, TypedRun
<1> QED
  BY <1>4, <1>11 DEF S, n

\* What a query hands to FRI is an element (deep_frieval.go:58-97).
LEMMA GoalTyped ==
  ASSUME ColsTyped, CheckTyped, ComboTyped, Z \in E4, NEW x \in Base
  PROVE  FriEvalTaps(x) \in E4
<1>1. E4Power(Z, 4) \in E4
  BY PowerStep
<1>2. CheckDivisor(x) \in E4
  BY <1>1, FromBase, E4Typed DEF CheckDivisor
<1>3. InvHint(CheckDivisor(x)) \in E4
  BY <1>2, HintFactors
<1>4. E4Sub(CheckTotal(x), combo.check) \in E4
  BY CheckTotalTyped, E4Typed DEF ComboTyped
<1>5. E4Mul(E4Sub(CheckTotal(x), combo.check), InvHint(CheckDivisor(x))) \in E4
  BY <1>3, <1>4, E4Typed
<1> QED
  BY <1>5, TapsPartTyped, E4Typed DEF FriEvalTaps

-----------------------------------------------------------------------------
(* The mixed polynomials *)

\* Nothing in front of a sequence given by its entries.
LEMMA Listed ==
  ASSUME NEW n \in Nat, NEW f \in [1..n -> E4]
  PROVE  <<>> \o f \in Seq(E4) /\ Len(<<>> \o f) = n /\ <<>> \o f = f
<1>1. f \in Seq(E4) /\ Len(f) = n
  OBVIOUS
<1> QED
  BY <1>1, ConcatEmptySeq

\* ComboU's powers and sums by names of their own.
MixPows == <<>> \o [k \in 1..Len(Regs) + CheckSize |-> E4Power(FriMix, k - 1)]
MixedCoeff(pows, c, i) ==
  LET sum[r \in 0..Len(Regs)] ==
        IF r = 0 THEN E4Zero
        ELSE IF r \notin SameCombo(c) THEN sum[r - 1]
        ELSE E4Add(sum[r - 1], E4Mul(pows[r], CoeffU[CurPos(r) + i]))
  IN  sum[Len(Regs)]
MixedCheck(pows) ==
  LET checkSum[k \in 0..CheckSize] ==
        IF k = 0 THEN E4Zero
        ELSE E4Add(checkSum[k - 1], E4Mul(pows[Len(Regs) + k], CoeffU[TapSize + k]))
  IN  checkSum[CheckSize]
PowsTyped(pows) == pows \in [1..Len(Regs) + CheckSize -> E4]

\* A coefficient of a combo, mixed over the registers that have its backs (deep_frieval.go:37-45).
LEMMA MixedCoeffTyped ==
  ASSUME NEW pows, PowsTyped(pows), CoeffU \in [1..TapSize + CheckSize -> E4],
         NEW c \in 1..Combos, NEW i \in 1..ComboBegin[c + 1] - ComboBegin[c]
  PROVE  MixedCoeff(pows, c, i) \in E4
<1> DEFINE n == Len(Regs)
           S == E4
           go(k, s) == IF k \notin SameCombo(c) THEN s
                       ELSE E4Add(s, E4Mul(pows[k], CoeffU[CurPos(k) + i]))
           F == [k \in 1..n |-> [s \in S |-> go(k, s)]]
           Run(z) == z = [k \in 0..n |-> IF k = 0 THEN E4Zero ELSE go(k, z[k - 1])]
           run == CHOOSE z : Run(z)
<1>1. n \in Nat
  BY RegCount
<1>2. ASSUME NEW k \in 1..n, NEW s \in S
      PROVE  go(k, s) \in S
  <2>1. CASE k \notin SameCombo(c)
    BY <2>1
  <2>2. CASE k \in SameCombo(c)
    <3>1. Size(k) = ComboBegin[c + 1] - ComboBegin[c]
      BY <2>2, BacksTyped, CombosAssumption DEF Size
    <3>2. CurPos(k) \in Nat /\ CurPos(k) + Size(k) \in 0..TapSize
      BY Positions
    <3>3. TapSize \in Nat /\ CheckSize \in Nat
      BY Positions, RegCount
    <3>4. CurPos(k) + i \in 1..TapSize + CheckSize
      <4> DEFINE d == ComboBegin[c + 1] - ComboBegin[c]
      <4>1. Size(k) = d /\ i \in 1..d /\ Size(k) \in Nat
        BY <3>1, Positions
      <4> HIDE DEF d
      <4> QED
        BY <3>2, <3>3, <4>1
    <3>5. pows[k] \in E4
      BY RegCount DEF PowsTyped
    <3>6. E4Mul(pows[k], CoeffU[CurPos(k) + i]) \in E4
      BY <3>4, <3>5, E4Typed
    <3> QED
      BY <3>6, E4Typed
  <2> QED
    BY <2>1, <2>2
<1>3. E4Zero \in S
  BY ConjugateOfOne
<1>4. MixedCoeff(pows, c, i) = run[n]
  BY DEF MixedCoeff
<1>5. \A k \in 1..n : \A s \in S : F[k][s] = go(k, s)
  OBVIOUS
<1> HIDE DEF n, S, go, F, Run, run
<1>6. \A k \in 1..n : k \in 0..n /\ k - 1 \in 0..n /\ k # 0
  BY <1>1
<1>7. PICK g : RunsIn(n, S, E4Zero, F, g)
  BY <1>1, <1>2, <1>3, <1>5, RecursionIn
<1>8. Run(g)
  <2>1. \A k \in 0..n : k = 0 \/ k \in 1..n
    BY <1>1
  <2>2. \A k \in 0..n : g[k] = IF k = 0 THEN E4Zero ELSE go(k, g[k - 1])
    BY <1>5, <1>6, <1>7, <2>1 DEF RunsIn
  <2>3. g = [k \in 0..n |-> g[k]]
    BY <1>7 DEF RunsIn
  <2> QED
    BY <2>2, <2>3 DEF Run
<1>9. Run(run)
  BY <1>8 DEF run
<1>10. run[0] \in S /\ \A k \in 1..n : run[k - 1] \in S => run[k] \in S
  <2>1. run = [k \in 0..n |-> IF k = 0 THEN E4Zero ELSE go(k, run[k - 1])]
    BY <1>9 DEF Run
  <2>2. 0 \in 0..n
    BY <1>1
  <2> QED
    BY <1>2, <1>3, <1>6, <2>1, <2>2
<1>11. run[n] \in S
  BY <1>1, <1>10, TypedRun
<1> QED
  BY <1>4, <1>11 DEF S, n

\* The number the check group is mixed into (deep_frieval.go:46-52).
LEMMA MixedCheckTyped ==
  ASSUME NEW pows, PowsTyped(pows), CoeffU \in [1..TapSize + CheckSize -> E4]
  PROVE  MixedCheck(pows) \in E4
<1> DEFINE n == CheckSize
           S == E4
           go(k, s) == E4Add(s, E4Mul(pows[Len(Regs) + k], CoeffU[TapSize + k]))
           F == [k \in 1..n |-> [s \in S |-> go(k, s)]]
           Run(z) == z = [k \in 0..n |-> IF k = 0 THEN E4Zero ELSE go(k, z[k - 1])]
           run == CHOOSE z : Run(z)
<1>1. n \in Nat
  BY RegCount
<1>2. ASSUME NEW k \in 1..n, NEW s \in S
      PROVE  go(k, s) \in S
  <2>1. Len(Regs) + k \in 1..Len(Regs) + CheckSize
    BY RegCount
  <2>2. TapSize + k \in 1..TapSize + CheckSize
    BY Positions, RegCount
  <2>3. E4Mul(pows[Len(Regs) + k], CoeffU[TapSize + k]) \in E4
    BY <2>1, <2>2, E4Typed DEF PowsTyped
  <2> QED
    BY <2>3, E4Typed
<1>3. E4Zero \in S
  BY ConjugateOfOne
<1>4. MixedCheck(pows) = run[n]
  BY DEF MixedCheck
<1>5. \A k \in 1..n : \A s \in S : F[k][s] = go(k, s)
  OBVIOUS
<1> HIDE DEF n, S, go, F, Run, run
<1>6. \A k \in 1..n : k \in 0..n /\ k - 1 \in 0..n /\ k # 0
  BY <1>1
<1>7. PICK g : RunsIn(n, S, E4Zero, F, g)
  BY <1>1, <1>2, <1>3, <1>5, RecursionIn
<1>8. Run(g)
  <2>1. \A k \in 0..n : k = 0 \/ k \in 1..n
    BY <1>1
  <2>2. \A k \in 0..n : g[k] = IF k = 0 THEN E4Zero ELSE go(k, g[k - 1])
    BY <1>5, <1>6, <1>7, <2>1 DEF RunsIn
  <2>3. g = [k \in 0..n |-> g[k]]
    BY <1>7 DEF RunsIn
  <2> QED
    BY <2>2, <2>3 DEF Run
<1>9. Run(run)
  BY <1>8 DEF run
<1>10. run[0] \in S /\ \A k \in 1..n : run[k - 1] \in S => run[k] \in S
  <2>1. run = [k \in 0..n |-> IF k = 0 THEN E4Zero ELSE go(k, run[k - 1])]
    BY <1>9 DEF Run
  <2>2. 0 \in 0..n
    BY <1>1
  <2> QED
    BY <1>2, <1>3, <1>6, <2>1, <2>2
<1>11. run[n] \in S
  BY <1>1, <1>10, TypedRun
<1> QED
  BY <1>4, <1>11 DEF S, n

\* What ComboU makes is of elements (deep_frieval.go:28-53).
LEMMA ComboUTyped ==
  ASSUME FriMix \in E4, CoeffU \in [1..TapSize + CheckSize -> E4], combo' = ComboU
  PROVE  ComboTyped'
<1> DEFINE p == MixPows
           n(c) == ComboBegin[c + 1] - ComboBegin[c]
           f == [k \in 1..Len(Regs) + CheckSize |-> E4Power(FriMix, k - 1)]
<1>1. ComboU = [u |-> [c \in 1..Combos |-> [i \in 1..n(c) |-> MixedCoeff(p, c, i)]],
                check |-> MixedCheck(p), pows |-> p]
  BY DEF ComboU, MixPows, MixedCoeff, MixedCheck
<1>2. p \in [1..Len(Regs) + CheckSize -> E4]
  <2>1. Len(Regs) + CheckSize \in Nat
    BY RegCount
  <2>2. \A k \in 1..Len(Regs) + CheckSize : E4Power(FriMix, k - 1) \in E4
    <3> SUFFICES ASSUME NEW k \in 1..Len(Regs) + CheckSize
                 PROVE  E4Power(FriMix, k - 1) \in E4
      OBVIOUS
    <3>1. k - 1 \in Nat
      BY <2>1
    <3> QED
      BY <3>1, PowerStep
  <2>3. f \in [1..Len(Regs) + CheckSize -> E4]
    BY <2>2
  <2> HIDE DEF f
  <2>4. <<>> \o f = f
    BY <2>1, <2>3, Listed
  <2>5. p = <<>> \o f
    BY DEF MixPows, f
  <2> QED
    BY <2>3, <2>4, <2>5
<1> HIDE DEF p
<1>3. PowsTyped(p)
  BY <1>2 DEF PowsTyped
<1>4. MixedCheck(p) \in E4
  BY <1>3, MixedCheckTyped
<1>5. ASSUME NEW c \in 1..Combos
      PROVE  [i \in 1..n(c) |-> MixedCoeff(p, c, i)] \in Seq(E4)
  <2>1. \A i \in 1..n(c) : MixedCoeff(p, c, i) \in E4
    BY <1>3, MixedCoeffTyped
  <2>2. n(c) \in Nat
    BY BacksTyped
  <2> HIDE DEF n
  <2> QED
    BY <2>1, <2>2
<1>6. combo'.u = [c \in 1..Combos |-> [i \in 1..n(c) |-> MixedCoeff(p, c, i)]]
  BY <1>1
<1>7. combo'.check = MixedCheck(p) /\ combo'.pows = p
  BY <1>1
<1>8. \A c \in 1..Combos : combo'.u[c] \in Seq(E4)
  BY <1>5, <1>6
<1>9. Combos' = Combos
  BY DEF Combos
<1> QED
  BY <1>2, <1>4, <1>7, <1>8, <1>9 DEF ComboTyped, CheckSize

-----------------------------------------------------------------------------
(* The words of the FRI rounds *)

\* The generators of the domains.
LEMMA RouTyped ==
  ASSUME NEW n \in Nat \ {0}
  PROVE  Rou(n) \in Base /\ RouRev(n) \in Base
<1>1. DomainSize \div n \in Nat
  BY DomainAssumption DEF DomainSize, InvRate
<1>2. Rou(n) \in Base
  BY <1>1, DomainAssumption, BaseFacts, PowerTyped DEF Rou
<1> QED
  BY <1>2, InverseOfNumber DEF RouRev

\* A coefficient of the polynomial through given values.
LEMMA TransformTyped ==
  ASSUME NEW v \in Seq(E4), Len(v) # 0, NEW m \in Nat
  PROVE  Transform(v, m) \in E4
<1> DEFINE n == Len(v)
           S == E4
           go(k, s) == E4Add(E4ScalarMul(s, Power(RouRev(Len(v)), m)), v[Len(v) + 1 - k])
           F == [k \in 1..n |-> [s \in S |-> go(k, s)]]
           Run(z) == z = [k \in 0..n |-> IF k = 0 THEN E4Zero ELSE go(k, z[k - 1])]
           run == CHOOSE z : Run(z)
<1>1. n \in Nat
  OBVIOUS
<1>2. ASSUME NEW k \in 1..n, NEW s \in S
      PROVE  go(k, s) \in S
  <2>1. RouRev(Len(v)) \in Base
    BY RouTyped
  <2>2. Power(RouRev(Len(v)), m) \in Base
    BY <2>1, BaseFacts, PowerTyped
  <2>3. E4ScalarMul(s, Power(RouRev(Len(v)), m)) \in E4
    BY <2>2, ScaledBy
  <2>4. v[Len(v) + 1 - k] \in E4
    OBVIOUS
  <2> QED
    BY <2>3, <2>4, E4Typed
<1>3. E4Zero \in S
  BY ConjugateOfOne
<1>4. Transform(v, m) = run[n]
  BY DEF Transform
<1>5. \A k \in 1..n : \A s \in S : F[k][s] = go(k, s)
  OBVIOUS
<1> HIDE DEF n, S, go, F, Run, run
<1>6. \A k \in 1..n : k \in 0..n /\ k - 1 \in 0..n /\ k # 0
  BY <1>1
<1>7. PICK g : RunsIn(n, S, E4Zero, F, g)
  BY <1>1, <1>2, <1>3, <1>5, RecursionIn
<1>8. Run(g)
  <2>1. \A k \in 0..n : k = 0 \/ k \in 1..n
    BY <1>1
  <2>2. \A k \in 0..n : g[k] = IF k = 0 THEN E4Zero ELSE go(k, g[k - 1])
    BY <1>5, <1>6, <1>7, <2>1 DEF RunsIn
  <2>3. g = [k \in 0..n |-> g[k]]
    BY <1>7 DEF RunsIn
  <2> QED
    BY <2>2, <2>3 DEF Run
<1>9. Run(run)
  BY <1>8 DEF run
<1>10. run[0] \in S /\ \A k \in 1..n : run[k - 1] \in S => run[k] \in S
  <2>1. run = [k \in 0..n |-> IF k = 0 THEN E4Zero ELSE go(k, run[k - 1])]
    BY <1>9 DEF Run
  <2>2. 0 \in 0..n
    BY <1>1
  <2> QED
    BY <1>2, <1>3, <1>6, <2>1, <2>2
<1>11. run[n] \in S
  BY <1>1, <1>10, TypedRun
<1> QED
  BY <1>4, <1>11 DEF S, n

\* There are as many coefficients as values.
LEMMA CoeffsListed ==
  ASSUME NEW v \in Seq(E4), Len(v) <= DomainSize
  PROVE  Coeffs(v) \in Seq(E4) /\ Len(Coeffs(v)) = Len(v)
<1> DEFINE f == [m \in DOMAIN v |-> E4ScalarMul(Transform(v, m - 1), ModInverse(Len(v)))]
<1>1. DOMAIN v = 1..Len(v) /\ Len(v) \in Nat
  OBVIOUS
<1>2. ASSUME NEW m \in DOMAIN v
      PROVE  E4ScalarMul(Transform(v, m - 1), ModInverse(Len(v))) \in E4
  <2>1. m - 1 \in Nat /\ Len(v) # 0
    BY <1>1
  <2>2. Len(v) \in Base
    <3>1. DomainSize \in Nat
      BY DomainAssumption DEF DomainSize, InvRate
    <3>2. DomainSize < P
      BY DomainAssumption
    <3> QED
      BY <1>1, <3>1, <3>2, BaseFacts DEF Base
  <2>3. Transform(v, m - 1) \in E4 /\ ModInverse(Len(v)) \in Base
    BY <2>1, <2>2, TransformTyped, InverseOfNumber
  <2> QED
    BY <2>3, ScaledBy
<1>3. f \in [1..Len(v) -> E4]
  BY <1>1, <1>2
<1>4. Coeffs(v) = <<>> \o f
  BY DEF Coeffs
<1> HIDE DEF f
<1> QED
  BY <1>1, <1>3, <1>4, Listed

\* And as many values as are asked for.
LEMMA ValuesListed ==
  ASSUME NEW c \in Seq(E4), NEW n \in Nat
  PROVE  Values(c, n) \in Seq(E4) /\ Len(Values(c, n)) = n
<1> DEFINE f == [i \in 1..n |-> PolyEval(c, E4From(Power(Rou(n), i - 1)))]
<1>1. ASSUME NEW i \in 1..n
      PROVE  PolyEval(c, E4From(Power(Rou(n), i - 1))) \in E4
  <2>1. n \in Nat \ {0} /\ i - 1 \in Nat
    OBVIOUS
  <2>2. Power(Rou(n), i - 1) \in Base
    BY <2>1, RouTyped, BaseFacts, PowerTyped
  <2> QED
    BY <2>2, FromBase, PolyTyped
<1>2. f \in [1..n -> E4]
  BY <1>1
<1>3. Values(c, n) = <<>> \o f
  BY DEF Values
<1> HIDE DEF f
<1> QED
  BY <1>2, <1>3, Listed

\* The sizes of the domains of the rounds.
LEMMA RoundDomains ==
  /\ DomainSize \in Nat \ {0} /\ DomainSize = 4 * Cycles /\ RoundDomain(1) = DomainSize
  /\ \A r \in Nat \ {0} : RoundDomain(r) \in 0..DomainSize
<1>1. DomainSize \in Nat \ {0} /\ DomainSize = 4 * Cycles /\ Fold \in Nat \ {0}
  BY DomainAssumption DEF DomainSize, InvRate
<1>2. ASSUME NEW r \in Nat \ {0}
      PROVE  RoundDomain(r) \in 0..DomainSize /\ (r = 1 => RoundDomain(r) = DomainSize)
  <2> DEFINE n == r - 1
             S == 0..DomainSize
             F == [k \in 1..n |-> [s \in S |-> s \div Fold]]
             Run(z) == z = [i \in 1..r |-> IF i = 1 THEN DomainSize ELSE z[i - 1] \div Fold]
             run == CHOOSE z : Run(z)
  <2>1. n \in Nat /\ DomainSize \in S
    BY <1>1
  <2>2. \A s \in S : s \div Fold \in S
    <3> SUFFICES ASSUME NEW s \in S PROVE s \div Fold \in S
      OBVIOUS
    <3>1. s \in Nat /\ s <= DomainSize
      BY <1>1
    <3>2. s \div Fold \in Nat /\ s \div Fold <= s
      BY <1>1, <3>1
    <3> QED
      BY <1>1, <3>1, <3>2
  <2>3. \A k \in 1..n : \A s \in S : F[k][s] = s \div Fold
    OBVIOUS
  <2>4. RoundDomain(r) = run[r]
    BY DEF RoundDomain
  <2>5. r \in 1..r /\ 1 \in 1..r /\ \A i \in 1..r : /\ i - 1 \in 0..n
                                                    /\ i # 1 => i - 1 \in 1..n /\ i - 1 \in 1..r
                                                    /\ (i = 1 <=> i - 1 = 0)
    OBVIOUS
  <2> HIDE DEF n, S, F, Run, run
  <2>6. PICK g : RunsIn(n, S, DomainSize, F, g)
    BY <2>1, <2>2, <2>3, RecursionIn
  <2> DEFINE h == [i \in 1..r |-> g[i - 1]]
  <2>7. Run(h)
    <3>1. ASSUME NEW i \in 1..r
          PROVE  h[i] = IF i = 1 THEN DomainSize ELSE h[i - 1] \div Fold
      <4>1. CASE i = 1
        BY <2>6, <4>1 DEF RunsIn
      <4>2. CASE i # 1
        <5>1. i - 1 \in 1..n /\ i - 1 \in 1..r /\ (i - 1) - 1 \in 0..n
          BY <2>5, <4>2
        <5>2. h[i] = g[i - 1] /\ h[i - 1] = g[(i - 1) - 1]
          BY <5>1
        <5>3. g[i - 1] = F[i - 1][g[(i - 1) - 1]] /\ g[(i - 1) - 1] \in S
          BY <2>6, <5>1 DEF RunsIn
        <5> QED
          BY <2>3, <4>2, <5>1, <5>2, <5>3
      <4> QED
        BY <4>1, <4>2
    <3>2. h = [i \in 1..r |-> h[i]]
      OBVIOUS
    <3> HIDE DEF h
    <3> QED
      BY <3>1, <3>2 DEF Run
  <2> HIDE DEF h
  <2>8. Run(run)
    BY <2>7 DEF run
  <2>9. \A i \in 1..r : run[i] = IF i = 1 THEN DomainSize ELSE run[i - 1] \div Fold
    <3>1. run = [i \in 1..r |-> IF i = 1 THEN DomainSize ELSE run[i - 1] \div Fold]
      BY <2>8 DEF Run
    <3> QED
      BY <3>1
  <2> DEFINE t == [k \in 0..n |-> run[k + 1]]
  <2>10. t[0] \in S /\ \A k \in 1..n : t[k - 1] \in S => t[k] \in S
    <3>1. t[0] = DomainSize
      BY <2>1, <2>5, <2>9
    <3>2. ASSUME NEW k \in 1..n, t[k - 1] \in S
          PROVE  t[k] \in S
      <4>1. k + 1 \in 1..r /\ k + 1 # 1 /\ (k + 1) - 1 = k /\ (k - 1) + 1 = k /\ k \in 0..n /\ k - 1 \in 0..n
        BY <2>1 DEF n
      <4>2. t[k] = run[k + 1] /\ t[k - 1] = run[k]
        BY <4>1
      <4>3. run[k + 1] = run[k] \div Fold
        BY <2>9, <4>1
      <4> QED
        BY <2>2, <3>2, <4>2, <4>3
    <3> QED
      BY <2>1, <3>1, <3>2
  <2> HIDE DEF t
  <2>11. t[n] \in S
    BY <2>1, <2>10, TypedRun
  <2>12. t[n] = run[r]
    BY <2>1 DEF t, n
  <2> QED
    BY <2>4, <2>5, <2>9, <2>11, <2>12 DEF S
<1> QED
  BY <1>1, <1>2

\* What the queries will ask for.
LEMMA GoalsListed ==
  ASSUME ColsTyped, CheckTyped, ComboTyped, Z \in E4
  PROVE  Goals \in Seq(E4) /\ Len(Goals) = DomainSize
<1> DEFINE f == [i \in 1..DomainSize |-> FriEvalTaps(DeepQueryX(i - 1))]
<1>1. ASSUME NEW i \in 1..DomainSize
      PROVE  FriEvalTaps(DeepQueryX(i - 1)) \in E4
  <2>1. i - 1 \in Nat
    BY RoundDomains
  <2>2. DeepQueryX(i - 1) \in Base
    BY <2>1, DomainAssumption, BaseFacts, PowerTyped DEF DeepQueryX
  <2> QED
    BY <2>2, GoalTyped
<1>2. f \in [1..DomainSize -> E4]
  BY <1>1
<1>3. Goals = <<>> \o f
  BY DEF Goals
<1> HIDE DEF f
<1> QED
  BY <1>2, <1>3, RoundDomains, Listed

\* The word of low degree that agrees with another at every fourth position.
LEMMA LowDegreeListed ==
  ASSUME NEW w \in Seq(E4), Len(w) = DomainSize
  PROVE  LowDegree(w) \in Seq(E4) /\ Len(LowDegree(w)) = DomainSize
<1> DEFINE f == [k \in 1..Cycles |-> w[InvRate * (k - 1) + 1]]
           v == <<>> \o f
<1>1. Cycles \in Nat /\ Cycles <= DomainSize /\ DomainSize \in Nat
  BY DomainAssumption DEF DomainSize, InvRate
<1>2. ASSUME NEW k \in 1..Cycles
      PROVE  w[InvRate * (k - 1) + 1] \in E4
  <2>1. DomainSize = 4 * Cycles
    BY DEF DomainSize, InvRate
  <2>2. InvRate * (k - 1) + 1 \in 1..DomainSize
    BY <1>1, <2>1 DEF InvRate
  <2> QED
    BY <2>2
<1>3. f \in [1..Cycles -> E4]
  BY <1>2
<1> HIDE DEF f
<1>4. v \in Seq(E4) /\ Len(v) = Cycles
  BY <1>1, <1>3, Listed
<1>5. LowDegree(w) = Values(Coeffs(v), DomainSize)
  BY DEF LowDegree, f
<1> HIDE DEF v
<1>6. Coeffs(v) \in Seq(E4)
  BY <1>1, <1>4, CoeffsListed
<1> QED
  BY <1>1, <1>5, <1>6, ValuesListed

\* A fold of a word (fri.go:13-61).
LEMMA FoldedTyped ==
  ASSUME NEW w \in Seq(E4), Len(w) <= DomainSize, NEW m \in E4
  PROVE  Folded(w, m) \in Seq(E4)
<1> DEFINE c == Coeffs(w)
           n == Len(c) \div Fold
           f == [k \in 1..n |-> PolyEval(SubSeq(c, Fold * (k - 1) + 1, Fold * k), m)]
<1>1. c \in Seq(E4) /\ Len(c) \in Nat
  BY CoeffsListed
<1>2. Fold \in Nat \ {0}
  BY DomainAssumption
<1>3. n \in Nat /\ Fold * n <= Len(c)
  <2> DEFINE l == Len(c)
  <2>1. l \in Nat
    BY <1>1
  <2> HIDE DEF l
  <2>2. l \div Fold \in Nat /\ l % Fold \in Nat /\ l = Fold * (l \div Fold) + (l % Fold)
    BY <1>2, <2>1, Division
  <2> DEFINE q == l \div Fold
             r == l % Fold
  <2>3. q \in Nat /\ r \in Nat /\ l = Fold * q + r
    BY <2>2
  <2> HIDE DEF q, r
  <2>4. Fold * q <= l
    BY <1>2, <2>1, <2>3
  <2> QED
    BY <2>3, <2>4 DEF q, l
<1>4. Folded(w, m) = <<>> \o f
  BY DEF Folded
<1> HIDE DEF c, n
<1>5. ASSUME NEW k \in 1..n
      PROVE  PolyEval(SubSeq(c, Fold * (k - 1) + 1, Fold * k), m) \in E4
  <2> DEFINE i == Fold * (k - 1) + 1
             j == Fold * k
  <2>1. i \in Nat /\ i >= 1 /\ j \in Nat /\ j <= Len(c)
    <3>1. k \in Nat /\ k - 1 \in Nat /\ k <= n
      BY <1>3
    <3>2. \E d \in Nat : n = k + d
      <4>1. n - k \in Nat /\ n = k + (n - k)
        BY <1>3, <3>1
      <4> QED
        BY <4>1
    <3>3. PICK d \in Nat : n = k + d
      BY <3>2
    <3>4. Fold * n = Fold * k + Fold * d /\ Fold * d \in Nat /\ Fold * k \in Nat
      BY <1>2, <3>1, <3>3
    <3>5. Fold * k <= Len(c)
      BY <1>1, <1>3, <3>4
    <3>6. Fold * (k - 1) \in Nat
      BY <1>2, <3>1
    <3> QED
      BY <3>4, <3>5, <3>6
  <2> HIDE DEF i, j
  <2>2. \A h \in i..j : h \in 1..Len(c)
    BY <1>1, <2>1
  <2>3. \A h \in i..j : c[h] \in E4
    BY <1>1, <2>2
  <2>4. SubSeq(c, i, j) \in Seq(E4)
    BY <2>1, <2>3, SubSeqProperties
  <2>5. PolyEval(SubSeq(c, i, j), m) \in E4
    BY <2>4, PolyTyped
  <2> QED
    BY <2>5 DEF i, j
<1>6. f \in [1..n -> E4]
  BY <1>5
<1> HIDE DEF f
<1> QED
  BY <1>3, <1>4, <1>6, Listed

\* The words of the rounds so far.
FriTyped ==
  /\ fri \in Seq(Seq(E4)) /\ Len(fri) = round
  /\ \A r \in 1..round : Len(fri[r]) = RoundDomain(r)

\* The word of the next round fills its domain (fri.go:104-131).
LEMMA NextWordTyped ==
  ASSUME ColsTyped, CheckTyped, ComboTyped, FriTyped, Z \in E4, round \in Nat,
         round \in 1..Rounds => RoundMixes[round] \in E4, round < Rounds,
         NEW w \in FriWords
  PROVE  w \in Seq(E4) /\ Len(w) = RoundDomain(round + 1)
<1>1. CASE round = 0
  <2>1. w = Goals \/ w = LowDegree(Goals)
    BY <1>1 DEF FriWords
  <2>2. Goals \in Seq(E4) /\ Len(Goals) = DomainSize
    BY GoalsListed
  <2> DEFINE u == Goals
  <2> HIDE DEF u
  <2>3. u \in Seq(E4) /\ Len(u) = DomainSize
    BY <2>2 DEF u
  <2>4. LowDegree(u) \in Seq(E4) /\ Len(LowDegree(u)) = DomainSize
    BY <2>3, LowDegreeListed
  <2>5. RoundDomain(round + 1) = DomainSize
    BY <1>1, RoundDomains
  <2> QED
    BY <2>1, <2>2, <2>4, <2>5 DEF u
<1>2. CASE round # 0
  <2>1. round \in 1..Rounds /\ round \in 1..round /\ round + 1 \in Nat \ {0} /\ round \in Nat \ {0}
    BY <1>2, DeepAssumption
  <2>2. w = Values(Folded(fri[round], RoundMixes[round]), RoundDomain(round + 1))
    BY <1>2 DEF FriWords
  <2>3. fri[round] \in Seq(E4) /\ Len(fri[round]) = RoundDomain(round)
    <3>1. round \in 1..Len(fri)
      BY <2>1 DEF FriTyped
    <3> QED
      BY <2>1, <3>1 DEF FriTyped
  <2>4. RoundDomain(round) \in 0..DomainSize /\ RoundDomain(round + 1) \in 0..DomainSize /\ DomainSize \in Nat
    BY <2>1, RoundDomains
  <2>5. RoundDomain(round + 1) \in Nat /\ Len(fri[round]) <= DomainSize
    BY <2>3, <2>4
  <2>6. Folded(fri[round], RoundMixes[round]) \in Seq(E4)
    BY <2>1, <2>3, <2>5, FoldedTyped
  <2> QED
    BY <2>2, <2>5, <2>6, ValuesListed
<1> QED
  BY <1>1, <1>2

-----------------------------------------------------------------------------
(* The columns *)

\* A sum over the cycles of a trace.
LEMMA TraceSumTyped ==
  ASSUME NEW t \in [1..Cycles -> Base], NEW j \in 1..Cycles
  PROVE  LET sum[i \in 0..Cycles] ==
               IF i = 0 THEN 0
               ELSE (sum[i - 1] + t[i] * Power(BackOne, (i - 1) * (j - 1))) % P
         IN  sum[Cycles] \in Base
<1> DEFINE n == Cycles
           S == Base
           go(k, s) == (s + t[k] * Power(BackOne, (k - 1) * (j - 1))) % P
           F == [k \in 1..n |-> [s \in S |-> go(k, s)]]
           Run(z) == z = [k \in 0..n |-> IF k = 0 THEN 0 ELSE go(k, z[k - 1])]
           run == CHOOSE z : Run(z)
<1>1. n \in Nat
  BY DomainAssumption
<1>2. ASSUME NEW k \in 1..n, NEW s \in S
      PROVE  go(k, s) \in S
  <2>1. k - 1 \in Nat /\ j - 1 \in Nat
    BY DomainAssumption
  <2>2. (k - 1) * (j - 1) \in Nat
    BY <2>1
  <2>3. Power(BackOne, (k - 1) * (j - 1)) \in Base
    BY <2>2, BlockAssumption, BaseFacts, PowerTyped
  <2> DEFINE p == Power(BackOne, (k - 1) * (j - 1))
  <2>4. p \in Nat /\ t[k] \in Nat /\ s \in Nat
    BY <2>3, BaseFacts
  <2> HIDE DEF p
  <2>5. s + t[k] * p \in Int
    BY <2>4
  <2> QED
    BY <2>5, BaseFacts DEF p
<1>3. 0 \in S
  BY BaseFacts
<1>4. LET sum[i \in 0..Cycles] ==
              IF i = 0 THEN 0
              ELSE (sum[i - 1] + t[i] * Power(BackOne, (i - 1) * (j - 1))) % P
        IN  sum[Cycles] = run[n]
  OBVIOUS
<1>5. \A k \in 1..n : \A s \in S : F[k][s] = go(k, s)
  OBVIOUS
<1> HIDE DEF n, S, go, F, Run, run
<1>6. \A k \in 1..n : k \in 0..n /\ k - 1 \in 0..n /\ k # 0
  BY <1>1
<1>7. PICK g : RunsIn(n, S, 0, F, g)
  BY <1>1, <1>2, <1>3, <1>5, RecursionIn
<1>8. Run(g)
  <2>1. \A k \in 0..n : k = 0 \/ k \in 1..n
    BY <1>1
  <2>2. \A k \in 0..n : g[k] = IF k = 0 THEN 0 ELSE go(k, g[k - 1])
    BY <1>5, <1>6, <1>7, <2>1 DEF RunsIn
  <2>3. g = [k \in 0..n |-> g[k]]
    BY <1>7 DEF RunsIn
  <2> QED
    BY <2>2, <2>3 DEF Run
<1>9. Run(run)
  BY <1>8 DEF run
<1>10. run[0] \in S /\ \A k \in 1..n : run[k - 1] \in S => run[k] \in S
  <2>1. run = [k \in 0..n |-> IF k = 0 THEN 0 ELSE go(k, run[k - 1])]
    BY <1>9 DEF Run
  <2>2. 0 \in 0..n
    BY <1>1
  <2> QED
    BY <1>2, <1>3, <1>6, <2>1, <2>2
<1>11. run[n] \in S
  BY <1>1, <1>10, TypedRun
<1> QED
  BY <1>4, <1>11 DEF S, n

\* A trace as a polynomial is of elements.
LEMMA InterpolateTyped ==
  ASSUME NEW t \in [1..Cycles -> Base]
  PROVE  Interpolate(t) \in [1..Cycles -> Base]
<1> DEFINE total(j) == LET sum[i \in 0..Cycles] ==
                             IF i = 0 THEN 0
                             ELSE (sum[i - 1] + t[i] * Power(BackOne, (i - 1) * (j - 1))) % P
                       IN  sum[Cycles]
<1>1. Interpolate(t) = [j \in 1..Cycles |->
                          (((total(j) * Power(3, j - 1)) % P) * ModInverse(Cycles)) % P]
  BY DEF Interpolate
<1>2. \A j \in 1..Cycles : total(j) \in Base
  BY TraceSumTyped
<1> HIDE DEF total
<1>3. ASSUME NEW j \in 1..Cycles
      PROVE  (((total(j) * Power(3, j - 1)) % P) * ModInverse(Cycles)) % P \in Base
  <2>1. total(j) \in Nat
    BY <1>2, BaseFacts
  <2>2. Power(3, j - 1) \in Base
    <3>1. j - 1 \in Nat /\ 3 \in Nat
      BY DomainAssumption
    <3> QED
      BY <3>1, PowerTyped
  <2>3. ModInverse(Cycles) \in Base
    <3>1. Cycles \in Base
      BY DomainAssumption, BaseFacts DEF DomainSize, InvRate, Base
    <3> QED
      BY <3>1, InverseOfNumber
  <2> DEFINE a == Power(3, j - 1)
             b == ModInverse(Cycles)
             d == total(j)
  <2>4. a \in Nat /\ b \in Nat /\ d \in Nat
    BY <2>1, <2>2, <2>3, BaseFacts
  <2> HIDE DEF a, b, d
  <2>5. d * a \in Int
    BY <2>4
  <2>6. (d * a) % P \in Nat
    BY <2>5, BaseFacts
  <2>7. ((d * a) % P) * b \in Int
    BY <2>4, <2>6
  <2>8. (((d * a) % P) * b) % P \in Base
    BY <2>7, BaseFacts
  <2> QED
    BY <2>8 DEF a, b, d
<1> QED
  BY <1>1, <1>3

\* The taps of the committed columns at a point of the base field, as many as there are.
LEMMA TapsTyped ==
  ASSUME ColsTyped, NEW x \in Base
  PROVE  TapsAt(x) \in [1..TapSize -> E4]
<1> DEFINE L == Len(Regs)
           T == [k \in 0..L |-> {s \in Seq(E4) : Len(s) = CurPos(k + 1)}]
           part(k) == [i \in 1..Size(k) |->
                         E4From(BaseEval(cols[Column(k)], (x * Power(BackOne, Regs[k].backs[i])) % P))]
           F == [k \in 1..L |-> [s \in T[k - 1] |-> s \o part(k)]]
           Run(z) == z = [r \in 0..L |-> IF r = 0 THEN <<>> ELSE z[r - 1] \o part(r)]
           run == CHOOSE z : Run(z)
<1>1. L \in Nat /\ TapSize \in Nat /\ CurPos(1) = 0 /\ CurPos(L + 1) = TapSize
  BY Positions DEF TapSize
<1>2. ASSUME NEW k \in 1..L
      PROVE  part(k) \in Seq(E4) /\ Len(part(k)) = Size(k)
  <2>1. Size(k) \in Nat /\ k \in DOMAIN Regs
    BY Positions, RegCount
  <2>2. cols[Column(k)] \in [1..Cycles -> Base]
    BY <2>1 DEF ColsTyped
  <2>3. ASSUME NEW i \in 1..Size(k)
        PROVE  E4From(BaseEval(cols[Column(k)], (x * Power(BackOne, Regs[k].backs[i])) % P)) \in E4
    <3>1. Regs[k].backs[i] \in Nat
      <4> DEFINE R == [group : Nat, offset : Nat, combo : Nat, backs : Seq(Nat)]
      <4>1. \A r \in R : r.backs \in Seq(Nat)
        OBVIOUS
      <4>2. Regs \in Seq(R)
        BY DeepAssumption
      <4> HIDE DEF R
      <4>3. Regs[k] \in R
        BY <4>2
      <4>4. Regs[k].backs \in Seq(Nat)
        BY <4>1, <4>3
      <4> QED
        BY <4>4 DEF Size
    <3> DEFINE p == Power(BackOne, Regs[k].backs[i])
    <3>2. p \in Base
      BY <3>1, BlockAssumption, BaseFacts, PowerTyped
    <3> HIDE DEF p
    <3>3. x \in Nat /\ p \in Nat
      BY <3>2, BaseFacts
    <3>4. x * p \in Int
      BY <3>3
    <3>5. BaseEval(cols[Column(k)], (x * p) % P) \in Base
      BY <2>2, <3>4, BaseFacts, BaseEvalTyped
    <3> QED
      BY <3>5, FromBase DEF p
  <2> HIDE DEF L
  <2>4. \A i \in 1..Size(k) : part(k)[i] \in E4
    BY <2>3
  <2>5. part(k) = [i \in 1..Size(k) |-> part(k)[i]]
    OBVIOUS
  <2> HIDE DEF part
  <2> QED
    BY <2>1, <2>4, <2>5
<1>3. TapsAt(x) = <<>> \o run[L]
  BY DEF TapsAt
<1>4. \A k \in 0..L : T[k] = {s \in Seq(E4) : Len(s) = CurPos(k + 1)}
  OBVIOUS
<1>5. \A k \in 1..L : k \in 0..L /\ k - 1 \in 0..L /\ k # 0 /\ (k - 1) + 1 = k
  BY <1>1
<1>6. \A k \in 1..L : \A s \in T[k - 1] : F[k][s] = s \o part(k)
  OBVIOUS
<1> HIDE DEF L, T, part, F, Run, run
<1>7. StepsTyped(L, T, F)
  <2> SUFFICES ASSUME NEW k \in 1..L, NEW s \in T[k - 1]
               PROVE  F[k][s] \in T[k]
    BY DEF StepsTyped
  <2>1. s \in Seq(E4) /\ Len(s) = CurPos(k)
    BY <1>4, <1>5
  <2>2. CurPos(k + 1) = CurPos(k) + Size(k)
    BY Positions DEF L
  <2>3. s \o part(k) \in Seq(E4) /\ Len(s \o part(k)) = CurPos(k + 1)
    <3> DEFINE q == part(k)
    <3>1. q \in Seq(E4) /\ Len(q) = Size(k)
      BY <1>2
    <3> HIDE DEF q
    <3>2. s \o q \in Seq(E4) /\ Len(s \o q) = Len(s) + Len(q)
      BY <2>1, <3>1, ConcatProperties
    <3> QED
      BY <2>1, <2>2, <3>1, <3>2 DEF q
  <2>4. s \o part(k) \in T[k]
    BY <1>4, <1>5, <2>3
  <2> QED
    BY <1>6, <2>4
<1>8. <<>> \in T[0]
  <2>1. 0 \in 0..L /\ 0 + 1 = 1
    BY <1>1
  <2>2. T[0] = {s \in Seq(E4) : Len(s) = CurPos(1)}
    BY <1>4, <2>1
  <2> QED
    BY <1>1, <2>2
<1>9. PICK g : Runs(L, <<>>, F, g) /\ ValuesTyped(L, T, g)
  BY <1>1, <1>7, <1>8, Recursion
<1>10. /\ \A k \in 0..L : g[k] \in T[k]
       /\ g = [k \in 0..L |-> IF k = 0 THEN <<>> ELSE F[k][g[k - 1]]]
  BY <1>9 DEF Runs, ValuesTyped
<1>11. \A k \in 0..L : g[k] = IF k = 0 THEN <<>> ELSE F[k][g[k - 1]]
  BY <1>10
<1>12. \A k \in 1..L : g[k] = g[k - 1] \o part(k)
  BY <1>5, <1>6, <1>10, <1>11
<1>13. Run(g)
  <2>1. \A k \in 0..L : k = 0 \/ k \in 1..L
    BY <1>1
  <2>2. \A k \in 0..L : g[k] = IF k = 0 THEN <<>> ELSE g[k - 1] \o part(k)
    BY <1>11, <1>12, <2>1
  <2>3. g = [k \in 0..L |-> g[k]]
    BY <1>10
  <2> QED
    BY <2>2, <2>3 DEF Run
<1>14. Run(run)
  BY <1>13 DEF run
<1>15. \A k \in 0..L : run[k] = IF k = 0 THEN <<>> ELSE run[k - 1] \o part(k)
  <2>1. run = [r \in 0..L |-> IF r = 0 THEN <<>> ELSE run[r - 1] \o part(r)]
    BY <1>14 DEF Run
  <2> QED
    BY <2>1
<1>16. Alike(L, run, g)
  <2>1. 0 \in 0..L
    BY <1>1
  <2>2. run[0] = g[0]
    BY <1>11, <1>15, <2>1
  <2>3. \A k \in 1..L : run[k] = run[k - 1] \o part(k)
    BY <1>5, <1>15
  <2> QED
    BY <1>12, <2>2, <2>3 DEF Alike
<1>17. L \in 0..L /\ L \in Nat
  BY <1>1
<1>18. \A k \in 0..L : run[k] = g[k]
  BY <1>16, <1>17, SameRun
<1>19. run[L] \in Seq(E4) /\ Len(run[L]) = TapSize
  BY <1>1, <1>4, <1>10, <1>17, <1>18
<1> DEFINE e == run[L]
<1>20. e \in Seq(E4) /\ Len(e) = TapSize
  BY <1>19
<1> HIDE DEF e
<1>21. e \in [1..TapSize -> E4] /\ <<>> \o e = e
  BY <1>20, ConcatEmptySeq
<1> QED
  BY <1>3, <1>21 DEF e

\* What the block asserts is a list of elements.
LEMMA AssertedTyped ==
  ASSUME NEW taps \in [1..TapSize -> E4], AccumMix \in Base
  PROVE  Asserted(taps) \in Seq(E4)
<1> DEFINE n == Len(Block)
           f == Filled[n]
           ref == Reference(n, taps, AccumMix)
<1>1. n \in Nat /\ n \in 0..n /\ LastMix \in Nat /\ LastMix = n - f - 1
  BY BlockAssumption DEF LastMix
<1>2. f \in 0..n
  BY <1>1, FilledCounts
<1>3. ref \in RefStates(f, n - f)
  BY <1>1, ReferenceSteps
<1> HIDE DEF n, f
<1>4. n - f \in Nat /\ n - f >= 1
  BY <1>1, <1>2
<1>5. ref.terms \in Seq(Seq(E4)) /\ Len(ref.terms) = n - f
  BY <1>3 DEF RefStates
<1>6. Asserted(taps) = ref.terms[Len(ref.terms)]
  BY DEF Asserted, n
<1> HIDE DEF ref
<1>7. Len(ref.terms) \in 1..Len(ref.terms)
  BY <1>4, <1>5
<1> QED
  BY <1>5, <1>6, <1>7

\* The values of the quotient over the domain.
QuotientAt(x) == E4ScalarMul(Mixed(Asserted(TapsAt(x)), PolyMix),
                             ModInverse((Power((3 * x) % P, Cycles) - 1) % P))

\* They are elements.
LEMMA QuotientAtTyped ==
  ASSUME ColsTyped, AccumMix \in Base, PolyMix \in E4, NEW x \in Base
  PROVE  QuotientAt(x) \in E4
<1> DEFINE taps == TapsAt(x)
           mixed == Mixed(Asserted(taps), PolyMix)
           d == (Power((3 * x) % P, Cycles) - 1) % P
<1>1. taps \in [1..TapSize -> E4]
  BY TapsTyped
<1>2. QuotientAt(x) = E4ScalarMul(mixed, ModInverse(d))
  BY DEF QuotientAt
<1> HIDE DEF taps
<1>3. mixed \in E4
  BY <1>1, AssertedTyped, MixedTyped
<1>4. d \in Base
  <2>1. x \in Nat
    BY BaseFacts
  <2>2. 3 * x \in Int
    BY <2>1
  <2>3. (3 * x) % P \in Nat
    BY <2>2, BaseFacts
  <2>4. Power((3 * x) % P, Cycles) \in Nat
    BY <2>3, DomainAssumption, BaseFacts, PowerTyped
  <2>5. Power((3 * x) % P, Cycles) - 1 \in Int
    BY <2>4
  <2> QED
    BY <2>5, BaseFacts
<1> HIDE DEF mixed, d
<1>5. ModInverse(d) \in Base
  BY <1>4, InverseOfNumber
<1> QED
  BY <1>2, <1>3, <1>5, ScaledBy

\* The quotient an honest prover commits to fills the columns of the check group.
LEMMA QuotientTyped ==
  ASSUME ColsTyped, AccumMix \in Base, PolyMix \in E4
  PROVE  Quotient \in [1..CheckSize -> [1..Cycles -> Base]]
<1> DEFINE f == [i \in 1..DomainSize |-> QuotientAt(Power(Gen, i - 1))]
           v == <<>> \o f
           c == Coeffs(v)
           remap == <<0, 2, 1, 3>>
           part(k) == CHOOSE i \in 1..4 : remap[i] = (k - 1) % 4
           column(k) == [e \in 1..Cycles |-> c[part(k) + 4 * (e - 1)][((k - 1) \div 4) + 1]]
<1>1. Quotient = [k \in 1..CheckSize |-> column(k)]
  BY DEF Quotient, QuotientAt
<1>2. DomainSize \in Nat /\ DomainSize = 4 * Cycles /\ Cycles \in Nat
  BY RoundDomains, DomainAssumption
<1>3. ASSUME NEW i \in 1..DomainSize
      PROVE  QuotientAt(Power(Gen, i - 1)) \in E4
  <2>1. i - 1 \in Nat
    BY <1>2
  <2>2. Power(Gen, i - 1) \in Base
    BY <2>1, DomainAssumption, BaseFacts, PowerTyped
  <2> QED
    BY <2>2, QuotientAtTyped
<1>4. f \in [1..DomainSize -> E4]
  BY <1>3
<1> HIDE DEF f
<1>5. v \in Seq(E4) /\ Len(v) = DomainSize
  BY <1>2, <1>4, Listed
<1> HIDE DEF v
<1>6. c \in Seq(E4) /\ Len(c) = DomainSize
  BY <1>2, <1>5, CoeffsListed
<1> HIDE DEF c
<1>7. ASSUME NEW k \in 1..CheckSize
      PROVE  part(k) \in 1..4 /\ ((k - 1) \div 4) + 1 \in 1..4
  <2>1. k \in 1..16
    BY DEF CheckSize
  <2>2. (k - 1) % 4 \in 0..3 /\ (k - 1) \div 4 \in 0..3
    BY <2>1
  <2>3. \E i \in 1..4 : remap[i] = (k - 1) % 4
    <3>1. remap[1] = 0 /\ remap[2] = 2 /\ remap[3] = 1 /\ remap[4] = 3
      OBVIOUS
    <3> HIDE DEF remap
    <3>2. 1 \in 1..4 /\ 2 \in 1..4 /\ 3 \in 1..4 /\ 4 \in 1..4
      OBVIOUS
    <3>3. (k - 1) % 4 \in {0, 1, 2, 3}
      BY <2>2
    <3> DEFINE m == (k - 1) % 4
    <3> HIDE DEF m
    <3>4. m \in {0, 1, 2, 3}
      BY <3>3 DEF m
    <3>5. \E i \in 1..4 : remap[i] = m
      BY <3>1, <3>2, <3>4
    <3> QED
      BY <3>5 DEF m
  <2> QED
    BY <2>2, <2>3
<1> HIDE DEF part
<1>8. ASSUME NEW k \in 1..CheckSize
      PROVE  column(k) \in [1..Cycles -> Base]
  <2> DEFINE j == ((k - 1) \div 4) + 1
  <2>1. part(k) \in 1..4 /\ j \in 1..4
    BY <1>7
  <2> HIDE DEF j
  <2>2. ASSUME NEW e \in 1..Cycles
        PROVE  c[part(k) + 4 * (e - 1)][j] \in Base
    <3>1. part(k) + 4 * (e - 1) \in 1..DomainSize
      BY <1>2, <2>1
    <3>2. c[part(k) + 4 * (e - 1)] \in E4
      BY <1>6, <3>1
    <3> QED
      BY <2>1, <3>2 DEF E4
  <2> QED
    BY <2>2 DEF j
<1> HIDE DEF column
<1> QED
  BY <1>1, <1>8

\* The quotient of a prover that commits to nothing does too.
LEMMA NothingTyped == [k \in 1..CheckSize |-> [e \in 1..Cycles |-> 0]] \in [1..CheckSize -> [1..Cycles -> Base]]
BY BaseFacts

\* The columns of a trace (deep_frieval.go's rows are of these).
LEMMA CommittedTyped ==
  ASSUME NEW t \in Traces
  PROVE  \A r \in DOMAIN Regs : Committed(t)[Column(r)] \in [1..Cycles -> Base]
<1> SUFFICES ASSUME NEW r \in DOMAIN Regs
             PROVE  Committed(t)[Column(r)] \in [1..Cycles -> Base]
  OBVIOUS
<1> DEFINE s == CHOOSE q \in DOMAIN Regs : Column(q) = Column(r)
<1>1. s \in DOMAIN Regs
  OBVIOUS
<1>2. Committed(t)[Column(r)] = Interpolate(t[s])
  BY DEF Committed
<1> HIDE DEF s
<1>3. t[s] \in [1..Cycles -> Base]
  BY <1>1, TracesAssumption, RegCount
<1> QED
  BY <1>2, <1>3, InterpolateTyped

-----------------------------------------------------------------------------
(* The types *)

\* The steps of the driver, those from which the check columns are there, and those from which the
\* mixed polynomials are.
Places == {"accumMix", "accum", "polyMix", "check", "z", "u", "ingest", "program", "friMix",
           "combo", "fri", "mix", "query", "accepted", "rejected", "panic"}
AfterCheck == {"z", "u", "ingest", "program", "friMix", "combo", "fri", "mix"}
AfterCombo == {"fri", "mix"}

ColsListed == cols = [c \in {Column(r) : r \in DOMAIN Regs} |-> cols[c]]
EvalsTyped == \A i \in DOMAIN evalU : evalU[i] \in E4
BanksTyped == /\ fp \in Seq(Registers) /\ mix \in Seq(MixRegisters)
              /\ Len(fp) + Len(mix) <= Len(Block)

\* The inductive invariant behind TypeOK.
TypeInv ==
  /\ pc \in Places /\ drawn \in Seq(Base)
  /\ ColsListed /\ ColsTyped
  /\ pc \in AfterCheck => CheckTyped
  /\ EvalsTyped /\ BanksTyped
  /\ pc \in AfterCombo => ComboTyped
  /\ FriTyped

\* Four elements drawn one after the other.
LEMMA FourDrawn ==
  ASSUME drawn \in Seq(Base), NEW i \in Nat, NEW j \in Nat, i >= 1, j = i + 3, j <= Len(drawn)
  PROVE  SubSeq(drawn, i, j) \in E4
<1> DEFINE s == SubSeq(drawn, i, j)
<1>1. Len(drawn) \in Nat /\ \A k \in i..j : k \in 1..Len(drawn)
  BY LenProperties
<1>2. \A k \in i..j : drawn[k] \in Base
  BY <1>1
<1>3. s \in Seq(Base) /\ Len(s) = IF i <= j THEN j - i + 1 ELSE 0
  BY <1>2, SubSeqProperties
<1> HIDE DEF s
<1>4. Len(s) = 4
  BY <1>3
<1> QED
  BY <1>3, <1>4, FourOf DEF s

\* What is drawn is an element (sponge.go:94-99).
LEMMA DrawnStep ==
  ASSUME drawn \in Seq(Base), [Next]_vars
  PROVE  drawn' \in Seq(Base)
<1>1. CASE Draw
  <2>1. PICK e \in RandomElem(Sums[Len(drawn) + 1]) : drawn' = Append(drawn, e)
    BY <1>1 DEF Draw
  <2>2. e \in Base
    BY <2>1 DEF RandomElem, Base
  <2> QED
    BY <2>1, <2>2, AppendProperties
<1>2. CASE ~Draw
  <2>1. drawn' = drawn
    BY <1>2 DEF Next, vars, CommitAccum, CommitCheck, SendU, Ingest, Step, Validity, MixU, CommitFri,
                SendFinal, Query
  <2> QED
    BY <2>1
<1> QED
  BY <1>1, <1>2

\* The driver goes on to one of its steps.
LEMMA PlaceStep ==
  ASSUME pc \in Places, DInv, [Next]_vars
  PROVE  pc' \in Places
<1>1. CASE Draw
  BY <1>1, DrawGoes DEF Places
<1>2. CASE ~Draw
  BY <1>2 DEF Next, vars, CommitAccum, CommitCheck, SendU, Ingest, Step, Validity, MixU, CommitFri,
              SendFinal, Query, Places
<1> QED
  BY <1>1, <1>2

\* The columns are those of a trace, and the accumulator's of one with the mix.
LEMMA ColsStep ==
  ASSUME drawn \in Seq(Base), DInv, ColsListed, ColsTyped, [Next]_vars
  PROVE  ColsListed' /\ ColsTyped'
<1>1. CASE CommitAccum
  <2>1. Len(drawn) = 1
    BY <1>1 DEF CommitAccum, DInv, Counted
  <2>2. AccumMix \in Base
    <3>1. 1 \in 1..Len(drawn)
      BY <2>1
    <3> QED
      BY <3>1 DEF AccumMix
  <2>3. PICK t \in AccumTraces(AccumMix) : cols' = [cols EXCEPT ![Column(AccumReg)] = Interpolate(t)]
    BY <1>1 DEF CommitAccum
  <2>4. t \in [1..Cycles -> Base]
    <3> DEFINE m == AccumMix
    <3> HIDE DEF m
    <3>1. m \in Base /\ t \in AccumTraces(m)
      BY <2>2, <2>3 DEF m
    <3> QED
      BY <3>1, TracesAssumption
  <2>5. Interpolate(t) \in [1..Cycles -> Base]
    BY <2>4, InterpolateTyped
  <2> DEFINE C == {Column(r) : r \in DOMAIN Regs}
             v == Interpolate(t)
  <2>6. \A r \in DOMAIN Regs : Column(r) \in C
    OBVIOUS
  <2> HIDE DEF v, C
  <2>7. cols = [c \in C |-> cols[c]]
    BY DEF ColsListed, C
  <2>8. cols' = [c \in C |-> IF c = Column(AccumReg) THEN v ELSE cols[c]]
    BY <2>3, <2>7 DEF v
  <2>9. cols' = [c \in C |-> cols'[c]]
    BY <2>8
  <2>10. \A r \in DOMAIN Regs : cols'[Column(r)] = IF Column(r) = Column(AccumReg) THEN v ELSE cols[Column(r)]
    BY <2>6, <2>8
  <2>11. \A r \in DOMAIN Regs : cols'[Column(r)] \in [1..Cycles -> Base]
    BY <2>5, <2>10 DEF ColsTyped, v
  <2>12. ColsListed'
    BY <2>9 DEF ColsListed, C, Column
  <2>13. ColsTyped'
    BY <2>11 DEF ColsTyped, Column
  <2> QED
    BY <2>12, <2>13
<1>2. CASE ~CommitAccum
  <2>1. cols' = cols
    BY <1>2 DEF Next, vars, Draw, CommitCheck, SendU, Ingest, Step, Validity, MixU, CommitFri,
                SendFinal, Query
  <2> QED
    BY <2>1 DEF ColsListed, ColsTyped, Column
<1> QED
  BY <1>1, <1>2

\* The check columns are those of the quotient, or nothing.
LEMMA CheckStep ==
  ASSUME drawn \in Seq(Base), DInv, ColsTyped, pc \in AfterCheck => CheckTyped, [Next]_vars
  PROVE  pc' \in AfterCheck => CheckTyped'
<1>1. CASE CommitCheck
  <2>1. Len(drawn) = 5
    BY <1>1 DEF CommitCheck, DInv, Counted
  <2>2. AccumMix \in Base
    <3>1. 1 \in 1..Len(drawn)
      BY <2>1
    <3> QED
      BY <3>1 DEF AccumMix
  <2>3. PolyMix \in E4
    BY <2>1, FourDrawn DEF PolyMix
  <2>4. check' = Quotient \/ check' = [k \in 1..CheckSize |-> [e \in 1..Cycles |-> 0]]
    BY <1>1 DEF CommitCheck
  <2>5. check' \in [1..CheckSize -> [1..Cycles -> Base]]
    BY <2>2, <2>3, <2>4, QuotientTyped, NothingTyped
  <2> QED
    BY <2>5 DEF CheckTyped, CheckSize
<1>2. CASE ~CommitCheck
  <2>1. check' = check
    BY <1>2 DEF Next, vars, Draw, CommitAccum, SendU, Ingest, Step, Validity, MixU, CommitFri,
                SendFinal, Query
  <2>2. pc' \in AfterCheck => pc \in AfterCheck
    <3>1. CASE Draw
      BY <3>1, DrawGoes DEF AfterCheck
    <3>2. CASE ~Draw
      BY <1>2, <3>2 DEF Next, vars, CommitAccum, SendU, Ingest, Step, Validity, MixU, CommitFri,
                        SendFinal, Query, AfterCheck
    <3> QED
      BY <3>1, <3>2
  <2> QED
    BY <2>1, <2>2 DEF CheckTyped, CheckSize
<1> QED
  BY <1>1, <1>2

\* The evaluations are computed once, when the program starts.
LEMMA EvalsStep ==
  ASSUME EvalsTyped, ProgramHolds', [Next]_vars
  PROVE  EvalsTyped'
<1>1. CASE Ingest
  <2>1. CASE pc' = "program"
    <3>1. evalU' \in [1..TapSize -> E4]
      <4>1. (pc = "program" => evalU \in [1..TapSize -> E4])'
        BY DEF ProgramHolds
      <4>2. TapSize' = TapSize
        BY DEF TapSize, CurPos, Size
      <4> QED
        BY <2>1, <4>1, <4>2
    <3> QED
      BY <3>1 DEF EvalsTyped
  <2>2. CASE pc' # "program"
    BY <1>1, <2>2 DEF Ingest, EvalsTyped
  <2> QED
    BY <2>1, <2>2
<1>2. CASE ~Ingest
  <2>1. evalU' = evalU
    BY <1>2 DEF Next, vars, Draw, CommitAccum, CommitCheck, SendU, Step, Validity, MixU, CommitFri,
                SendFinal, Query
  <2> QED
    BY <2>1 DEF EvalsTyped
<1> QED
  BY <1>1, <1>2

\* The banks are filled by the steps of the program.
LEMMA BanksStep ==
  ASSUME BanksTyped, ProgramHolds', [Next]_vars
  PROVE  BanksTyped'
<1>1. CASE Step
  <2>1. pc' = "program"
    BY <1>1 DEF Step, Running
  <2>2. fp' \in Seq(Registers) /\ mix' \in Seq(MixRegisters) /\ Done' \in 0..Len(Block)
    BY <2>1 DEF ProgramHolds, Holds
  <2>3. Len(Block) \in Nat /\ Done' = Len(fp') + Len(mix')
    BY BlockAssumption DEF Done
  <2> QED
    BY <2>2, <2>3 DEF BanksTyped
<1>2. CASE ~Step
  <2>1. fp' = fp /\ mix' = mix
    BY <1>2 DEF Next, vars, Draw, CommitAccum, CommitCheck, SendU, Ingest, Validity, MixU, CommitFri,
                SendFinal, Query
  <2> QED
    BY <2>1 DEF BanksTyped
<1> QED
  BY <1>1, <1>2

\* The U polynomials are mixed from ingested words (deep_frieval.go:28-53).
LEMMA ComboStep ==
  ASSUME drawn \in Seq(Base), DInv, Stamped, WordsCanonical, pc \in AfterCombo => ComboTyped,
         [Next]_vars
  PROVE  pc' \in AfterCombo => ComboTyped'
<1>1. CASE MixU
  <2>1. pc = "combo" /\ combo' = ComboU
    BY <1>1 DEF MixU
  <2>2. Len(drawn) = 13
    BY <2>1 DEF DInv, Counted
  <2>3. FriMix \in E4
    BY <2>2, FourDrawn DEF FriMix
  <2>4. CoeffU \in [1..TapSize + CheckSize -> E4]
    <3>1. pc \in Trusted
      BY <2>1 DEF Trusted
    <3>2. /\ words = [i \in 1..NUCoeffs |-> words[i]]
          /\ \A i \in DOMAIN words : words[i] \in Base
      BY <3>1 DEF Stamped, WordsCanonical
    <3> QED
      BY <3>2, CoeffsTyped
  <2> QED
    BY <2>1, <2>3, <2>4, ComboUTyped
<1>2. CASE ~MixU
  <2>1. combo' = combo
    BY <1>2 DEF Next, vars, Draw, CommitAccum, CommitCheck, SendU, Ingest, Step, Validity, CommitFri,
                SendFinal, Query
  <2>2. pc' \in AfterCombo => pc \in AfterCombo
    <3>1. CASE Draw
      BY <3>1, DrawGoes DEF AfterCombo
    <3>2. CASE ~Draw
      BY <1>2, <3>2 DEF Next, vars, CommitAccum, CommitCheck, SendU, Ingest, Step, Validity, CommitFri,
                        SendFinal, Query, AfterCombo
    <3> QED
      BY <3>1, <3>2
  <2> QED
    BY <2>1, <2>2 DEF ComboTyped, Combos, CheckSize
<1> QED
  BY <1>1, <1>2

\* Every word of a round fills its domain (fri.go:104-131).
LEMMA FriStep ==
  ASSUME drawn \in Seq(Base), DInv, ColsTyped, pc \in AfterCheck => CheckTyped,
         pc \in AfterCombo => ComboTyped, FriTyped, [Next]_vars
  PROVE  FriTyped'
<1>1. CASE CommitFri
  <2>1. PICK w \in FriWords : fri' = Append(fri, w)
    BY <1>1 DEF CommitFri
  <2>2. pc = "fri" /\ round < Rounds /\ round' = round + 1 /\ round \in Nat
    BY <1>1 DEF CommitFri, DInv
  <2>3. CheckTyped /\ ComboTyped
    BY <2>2 DEF AfterCheck, AfterCombo
  <2>4. Len(drawn) = 13 + 4 * round
    BY <2>2 DEF DInv, Counted
  <2>5. Z \in E4
    BY <2>2, <2>4, FourDrawn DEF Z
  <2>6. round \in 1..Rounds => RoundMixes[round] \in E4
    <3> SUFFICES ASSUME round \in 1..Rounds
                 PROVE  RoundMixes[round] \in E4
      OBVIOUS
    <3> DEFINE i == 10 + 4 * round
               j == 13 + 4 * round
    <3>1. i \in Nat /\ j \in Nat /\ i >= 1 /\ j = i + 3 /\ j <= Len(drawn)
      BY <2>2, <2>4
    <3> HIDE DEF i, j
    <3>2. SubSeq(drawn, i, j) \in E4
      BY <3>1, FourDrawn
    <3> QED
      BY <3>2 DEF RoundMixes, i, j
  <2>7. w \in Seq(E4) /\ Len(w) = RoundDomain(round + 1)
    BY <2>2, <2>3, <2>5, <2>6, NextWordTyped
  <2>8. fri \in Seq(Seq(E4)) /\ Len(fri) = round /\ \A r \in 1..round : Len(fri[r]) = RoundDomain(r)
    BY DEF FriTyped
  <2>9. fri' \in Seq(Seq(E4)) /\ Len(fri') = round + 1
    BY <2>1, <2>7, <2>8, AppendProperties
  <2>10. ASSUME NEW r \in 1..round + 1
         PROVE  Len(fri'[r]) = RoundDomain(r)
    <3>1. CASE r = round + 1
      BY <2>1, <2>7, <2>8, <3>1, AppendProperties
    <3>2. CASE r \in 1..round
      <4>1. fri'[r] = fri[r]
        BY <2>1, <2>7, <2>8, <3>2, AppendProperties
      <4> QED
        BY <2>8, <3>2, <4>1
    <3> QED
      BY <2>2, <3>1, <3>2
  <2> QED
    BY <2>2, <2>9, <2>10 DEF FriTyped, RoundDomain
<1>2. CASE ~CommitFri
  <2>1. fri' = fri /\ round' = round
    BY <1>2 DEF Next, vars, Draw, CommitAccum, CommitCheck, SendU, Ingest, Step, Validity, MixU,
                SendFinal, Query
  <2> QED
    BY <2>1 DEF FriTyped
<1> QED
  BY <1>1, <1>2

\* The columns an honest prover or another one starts with.
LEMMA TypesStart == Init => TypeInv
<1> SUFFICES ASSUME Init
             PROVE  TypeInv
  OBVIOUS
<1>1. PICK t \in Traces : cols = Committed(t)
  BY DEF Init
<1>2. ColsListed
  BY <1>1 DEF ColsListed, Committed
<1>3. ColsTyped
  BY <1>1, CommittedTyped DEF ColsTyped
<1>4. BanksTyped
  BY BlockAssumption DEF Init, BanksTyped
<1>5. FriTyped
  BY DEF Init, FriTyped
<1>6. EvalsTyped
  BY DEF Init, EvalsTyped
<1>7. pc \in Places /\ pc \notin AfterCheck /\ pc \notin AfterCombo /\ drawn \in Seq(Base)
  BY DEF Init, Places, AfterCheck, AfterCombo
<1> QED
  BY <1>2, <1>3, <1>4, <1>5, <1>6, <1>7 DEF TypeInv

\* Every number the verifier computes with is reduced at every step, on every path, for every
\* table: the challenges, the evaluations of the taps, both banks of registers, which never
\* outgrow the block, and the words of the FRI rounds, which fill their domains (babybear.go:53-126,
\* deep_evalu.go:21-53, deep_polyext.go:102-146, fri.go:104-131).
THEOREM DeepAliTyped == Spec => []TypeOK
<1>1. TypeInv /\ DInv /\ Stamped /\ WordsCanonical /\ ProgramHolds' /\ [Next]_vars => TypeInv'
  <2> SUFFICES ASSUME TypeInv, DInv, Stamped, WordsCanonical, ProgramHolds', [Next]_vars
               PROVE  TypeInv'
    OBVIOUS
  <2>1. /\ pc \in Places /\ drawn \in Seq(Base) /\ ColsListed /\ ColsTyped
        /\ (pc \in AfterCheck => CheckTyped) /\ EvalsTyped /\ BanksTyped
        /\ (pc \in AfterCombo => ComboTyped) /\ FriTyped
    BY DEF TypeInv
  <2>2. pc' \in Places /\ drawn' \in Seq(Base)
    BY <2>1, PlaceStep, DrawnStep
  <2>3. ColsListed' /\ ColsTyped' /\ (pc' \in AfterCheck => CheckTyped')
    BY <2>1, ColsStep, CheckStep
  <2>4. EvalsTyped' /\ BanksTyped'
    BY <2>1, EvalsStep, BanksStep
  <2>5. (pc' \in AfterCombo => ComboTyped') /\ FriTyped'
    BY <2>1, ComboStep, FriStep
  <2> QED
    BY <2>2, <2>3, <2>4, <2>5 DEF TypeInv, Places, AfterCheck, AfterCombo
<1>2. TypeInv /\ DInv => TypeOK
  <2> SUFFICES ASSUME TypeInv, DInv
               PROVE  TypeOK
    OBVIOUS
  <2>1. /\ fp \in Seq(Registers) /\ mix \in Seq(MixRegisters) /\ drawn \in Seq(Base)
        /\ Len(fp) + Len(mix) <= Len(Block) /\ EvalsTyped /\ FriTyped
    BY DEF TypeInv, BanksTyped
  <2>2. \A i \in DOMAIN drawn : drawn[i] \in Base
    BY <2>1
  <2>3. \A i \in DOMAIN fp : fp[i].e \in E4
    <3>1. \A i \in DOMAIN fp : fp[i] \in Registers
      BY <2>1
    <3> QED
      BY <3>1 DEF Registers
  <2>4. \A i \in DOMAIN mix : mix[i].tot.e \in E4 /\ mix[i].mul.e \in E4
    <3>1. \A i \in DOMAIN mix : mix[i] \in MixRegisters
      BY <2>1
    <3> QED
      BY <3>1 DEF MixRegisters, Registers
  <2>5. \A r \in DOMAIN fri : Len(fri[r]) = RoundDomain(r) /\ \A i \in DOMAIN fri[r] : fri[r][i] \in E4
    <3> SUFFICES ASSUME NEW r \in DOMAIN fri
                 PROVE  Len(fri[r]) = RoundDomain(r) /\ \A i \in DOMAIN fri[r] : fri[r][i] \in E4
      OBVIOUS
    <3>1. r \in 1..round /\ fri[r] \in Seq(E4)
      BY <2>1 DEF FriTyped
    <3> QED
      BY <2>1, <3>1 DEF FriTyped
  <2>6. round = Len(fri) /\ round <= Rounds
    BY <2>1, DeepAssumption DEF FriTyped, DInv
  <2>7. pc \in Places /\ \A i \in DOMAIN evalU : evalU[i] \in E4
    BY <2>1 DEF TypeInv, EvalsTyped
  <2> QED
    BY <2>1, <2>2, <2>3, <2>4, <2>5, <2>6, <2>7 DEF TypeOK, Places
<1> QED
  BY <1>1, <1>2, TypesStart, Counting, Stamping, WordsTrusted, ProgramFollowed, PTL DEF Spec
=============================================================================
