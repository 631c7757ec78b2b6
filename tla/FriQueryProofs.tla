--------------------------- MODULE FriQueryProofs ---------------------------
(***************************************************************************)
(* Proofs about FriQuery for tables of every width and any number of       *)
(* rounds: a Merkle path opens one row only, the bits of a position lead   *)
(* through the rounds as the folds of the domain do, and so a query misses *)
(* no false entry on its way and refuses nothing else.                     *)
(***************************************************************************)
EXTENDS FriQuery, Arithmetic, FiniteSetTheorems, SequenceTheorems, TLAPS

-----------------------------------------------------------------------------
(* Powers of two.  The provers know nothing of ^, but the library says it  *)
(* counts subsets; that is where its recurrence comes from.                *)

\* One more bit doubles the numbers: a set with one more element has twice the subsets.
LEMMA Doubling ==
  ASSUME NEW n \in Nat
  PROVE  /\ 2 ^ n \in Nat \ {0}
         /\ 2 ^ 0 = 1
         /\ 2 ^ (n + 1) = 2 * 2 ^ n
<1> DEFINE A == SUBSET (1..n)
           B == {X \cup {n + 1} : X \in A}
           f == [X \in A |-> X \cup {n + 1}]
<1>1. \A m \in Nat : IsFiniteSet(SUBSET (1..m)) /\ Cardinality(SUBSET (1..m)) = 2 ^ m
  <2> TAKE m \in Nat
  <2>1. IsFiniteSet(1..m) /\ Cardinality(1..m) = m
    BY FS_Interval
  <2> HIDE DEF A, B
  <2> QED
    BY <2>1, FS_SUBSET
<1>2. SUBSET (1..n + 1) = A \cup B
  <2>1. 1..n + 1 = (1..n) \cup {n + 1}
    OBVIOUS
  <2>2. ASSUME NEW X \in SUBSET (1..n + 1) PROVE X \in A \cup B
    <3>1. CASE n + 1 \in X
      <4>1. X \ {n + 1} \in A /\ X = (X \ {n + 1}) \cup {n + 1}
        BY <2>1, <3>1
      <4> QED
        BY <4>1
    <3>2. CASE n + 1 \notin X
      BY <2>1, <3>2
    <3> QED
      BY <3>1, <3>2
  <2>3. ASSUME NEW X \in A \cup B PROVE X \in SUBSET (1..n + 1)
    BY <2>1
  <2> QED
    BY <2>2, <2>3
<1>3. n + 1 \notin 1..n
  OBVIOUS
<1>4. A \cap B = {}
  BY <1>3
<1>5. f \in Bijection(A, B)
  <2>1. f \in [A -> B]
    OBVIOUS
  <2>2. \A X, Y \in A : X \cup {n + 1} = Y \cup {n + 1} => X = Y
    BY <1>3
  <2>3. f \in Injection(A, B)
    BY <2>1, <2>2 DEF Injection, IsInjective
  <2>4. f \in Surjection(A, B)
    BY <2>1 DEF Surjection
  <2> QED
    BY <2>3, <2>4 DEF Bijection
<1> HIDE DEF A, B, f
<1>6. IsFiniteSet(A) /\ Cardinality(A) = 2 ^ n
  BY <1>1 DEF A
<1>7. IsFiniteSet(B) /\ Cardinality(B) = 2 ^ n
  BY <1>5, <1>6, FS_Bijection DEF ExistsBijection
<1>8. Cardinality(A \cup B) = 2 ^ n + 2 ^ n
  <2>1. Cardinality({}) = 0 /\ 2 ^ n \in Nat
    BY <1>6, FS_EmptySet, FS_CardinalityType
  <2>2. Cardinality(A \cup B) = 2 ^ n + 2 ^ n - 0
    BY <1>4, <1>6, <1>7, <2>1, FS_Union
  <2> QED
    BY <2>1, <2>2
<1>9. 2 ^ (n + 1) = 2 ^ n + 2 ^ n
  <2>1. n + 1 \in Nat
    OBVIOUS
  <2>2. Cardinality(SUBSET (1..n + 1)) = 2 ^ (n + 1)
    BY <1>1, <2>1
  <2> QED
    BY <1>2, <1>8, <2>2
<1>10. 2 ^ n \in Nat
  BY <1>6, FS_CardinalityType
<1>11. 2 ^ n # 0
  <2>1. {} \in A
    BY DEF A
  <2> QED
    BY <1>6, <2>1, FS_EmptySet
<1>12. 2 ^ 0 = 1
  <2>1. SUBSET (1..0) = {{}}
    OBVIOUS
  <2>2. Cardinality({{}}) = 1
    BY FS_Singleton
  <2> QED
    BY <1>1, <2>1, <2>2
<1> QED
  BY <1>9, <1>10, <1>11, <1>12

\* Bits above bits: the numbers of a + b bits are pairs.
LEMMA PowerOfSum ==
  ASSUME NEW a \in Nat, NEW b \in Nat
  PROVE  2 ^ (a + b) = 2 ^ a * 2 ^ b
<1> DEFINE S == {n \in Nat : 2 ^ (a + n) = 2 ^ a * 2 ^ n}
<1>1. 0 \in S
  BY Doubling
<1>2. ASSUME NEW n \in S PROVE n + 1 \in S
  <2>1. 2 ^ (a + n) = 2 ^ a * 2 ^ n /\ n \in Nat /\ a + n \in Nat
    OBVIOUS
  <2>2. 2 ^ ((a + n) + 1) = 2 * 2 ^ (a + n) /\ 2 ^ (n + 1) = 2 * 2 ^ n
    BY <2>1, Doubling
  <2>3. a + (n + 1) = (a + n) + 1
    BY <2>1
  <2>4. 2 ^ a \in Nat /\ 2 ^ n \in Nat
    BY <2>1, Doubling
  <2>5. 2 * (2 ^ a * 2 ^ n) = 2 ^ a * (2 * 2 ^ n)
    <3>1. \A x, y \in Nat : 2 * (x * y) = x * (2 * y)
      OBVIOUS
    <3> QED
      BY <2>4, <3>1
  <2> QED
    BY <2>1, <2>2, <2>3, <2>5
<1>3. S = Nat
  <2> HIDE DEF S
  <2>1. S \in SUBSET Nat
    BY DEF S
  <2> QED
    BY <1>1, <1>2, <2>1, SetInduction
<1> QED
  BY <1>3

-----------------------------------------------------------------------------
(* Division *)

\* Dividing by two factors one after the other, and the two digits of a remainder.
LEMMA TwoDigits ==
  ASSUME NEW n \in Nat, NEW a \in Nat \ {0}, NEW b \in Nat \ {0}
  PROVE  /\ n \div (a * b) = (n \div a) \div b
         /\ n % (a * b) = (n % a) + a * ((n \div a) % b)
<1> DEFINE q == n \div a
           r == n % a
           s == q \div b
           t == q % b
<1>1. q \in Nat /\ r \in 0..a - 1 /\ n = a * q + r
  BY Division
<1>2. s \in Nat /\ t \in 0..b - 1 /\ q = b * s + t
  BY <1>1, Division
<1> HIDE DEF q, r, s, t
<1>3. a * b \in Nat \ {0}
  <2>1. a * b \in Nat /\ (a * b = 0 => a = 0 \/ b = 0)
    OBVIOUS
  <2> QED
    BY <2>1
<1>4. a * t + r \in 0..a * b - 1
  <2>1. a * t <= a * (b - 1)
    <3>1. t <= b - 1 /\ t \in Nat /\ b - 1 \in Nat
      BY <1>2
    <3>2. \A x, y, z \in Nat : x <= y => z * x <= z * y
      OBVIOUS
    <3> QED
      BY <3>1, <3>2
  <2>2. a * (b - 1) = a * b - a /\ a * t \in Nat
    BY <1>2
  <2> QED
    BY <1>1, <1>3, <2>1, <2>2
<1>5. n = (a * b) * s + (a * t + r)
  <2>1. n = a * (b * s + t) + r
    BY <1>1, <1>2
  <2>2. a * (b * s + t) = (a * b) * s + a * t
    BY <1>2
  <2> QED
    BY <1>1, <1>2, <1>3, <2>1, <2>2
<1>6. n \div (a * b) = s /\ n % (a * b) = a * t + r
  BY <1>2, <1>3, <1>4, <1>5, Division
<1>7. a * t + r = r + a * t
  BY <1>1, <1>2
<1> QED
  BY <1>6, <1>7 DEF q, r, s, t

\* The bits of a number one by one (merkle.go:38): each bit halves what is left.
LEMMA Halving ==
  ASSUME NEW n \in Nat, NEW k \in Nat
  PROVE  /\ High(n, 0) = n
         /\ High(n, k) \in Nat /\ Bit(n, k) \in 0..1
         /\ High(n, k) = 2 * High(n, k + 1) + Bit(n, k)
<1>1. 2 ^ k \in Nat \ {0} /\ 2 ^ (k + 1) = 2 ^ k * 2 /\ 2 ^ 0 = 1
  BY Doubling
<1>2. High(n, 0) = n
  BY <1>1, Division DEF High
<1>3. High(n, k) \in Nat /\ Bit(n, k) \in 0..1
  BY <1>1, Division DEF High, Bit
<1>4. High(n, k + 1) = High(n, k) \div 2
  <2> DEFINE A == 2 ^ k
  <2>1. A \in Nat \ {0} /\ 2 \in Nat \ {0}
    BY <1>1
  <2> HIDE DEF A
  <2>2. n \div (A * 2) = (n \div A) \div 2
    BY <2>1, TwoDigits
  <2> QED
    BY <1>1, <2>2 DEF A, High
<1>5. High(n, k) = 2 * (High(n, k) \div 2) + (High(n, k) % 2)
  BY <1>3, Division
<1> QED
  BY <1>2, <1>3, <1>4, <1>5 DEF Bit

\* What a number of bits keeps of a number, and what it leaves.
LEMMA Digits ==
  ASSUME NEW n \in Nat, NEW a \in Nat, NEW b \in Nat
  PROVE  /\ Low(n, a) \in 0..2 ^ a - 1
         /\ High(n, a) \in Nat
         /\ Low(n, a + b) = Low(n, a) + Low(High(n, a), b) * 2 ^ a
         /\ Low(Low(n, a + b), a) = Low(n, a)
         /\ n \in 0..2 ^ a - 1 => Low(n, a) = n
         /\ n \in 0..2 ^ (a + b) - 1 => High(n, a) \in 0..2 ^ b - 1
<1>1. 2 ^ a \in Nat \ {0} /\ 2 ^ b \in Nat \ {0} /\ 2 ^ (a + b) = 2 ^ a * 2 ^ b
  BY Doubling, PowerOfSum
<1>2. Low(n, a) \in 0..2 ^ a - 1 /\ High(n, a) \in Nat
  BY <1>1, Division DEF Low, High
<1>3. /\ Low(n, a + b) = Low(n, a) + 2 ^ a * Low(High(n, a), b)
      /\ Low(Low(n, a + b), a) = Low(n, a)
  <2> DEFINE A == 2 ^ a
             B == 2 ^ b
  <2>1. A \in Nat \ {0} /\ B \in Nat \ {0}
    BY <1>1
  <2> HIDE DEF A, B
  <2>2. n % (A * B) = (n % A) + A * ((n \div A) % B)
    BY <2>1, TwoDigits
  <2>3. (n % (A * B)) % A = n % A
    <3> DEFINE r == n % A
               t == (n \div A) % B
    <3>1. r \in Nat /\ r \in 0..A - 1 /\ t \in Nat
      BY <2>1, Division
    <3> HIDE DEF r, t
    <3>2. (r + A * t) % A = r % A
      BY <2>1, <3>1, WholeTurns
    <3>3. r % A = r
      BY <2>1, <3>1
    <3> QED
      BY <2>2, <3>2, <3>3 DEF r, t
  <2> QED
    BY <1>1, <2>2, <2>3 DEF A, B, Low, High
<1>4. 2 ^ a * Low(High(n, a), b) = Low(High(n, a), b) * 2 ^ a
  <2>1. Low(High(n, a), b) \in Nat
    BY <1>1, <1>2, Division DEF Low
  <2>2. \A x, y \in Nat : x * y = y * x
    OBVIOUS
  <2> QED
    BY <1>1, <2>1, <2>2
<1>5. ASSUME n \in 0..2 ^ a - 1 PROVE Low(n, a) = n
  <2>1. n = 2 ^ a * 0 + n /\ 0 \in Nat
    BY <1>1
  <2> QED
    BY <1>1, <1>5, <2>1, Division DEF Low
<1>6. ASSUME n \in 0..2 ^ (a + b) - 1 PROVE High(n, a) \in 0..2 ^ b - 1
  <2> DEFINE A == 2 ^ a
             B == 2 ^ b
             q == n \div A
             r == n % A
  <2>1. A \in Nat \ {0} /\ B \in Nat /\ n < A * B
    BY <1>1, <1>6
  <2> HIDE DEF A, B
  <2>2. q \in Nat /\ r \in Nat /\ n = A * q + r
    BY <2>1, Division
  <2> HIDE DEF q, r
  <2>3. CASE q >= B
    <3>1. A * q >= A * B
      BY <2>1, <2>2, <2>3
    <3> QED
      BY <2>1, <2>2, <3>1
  <2>4. q \in 0..B - 1
    BY <2>1, <2>2, <2>3
  <2> QED
    BY <2>4 DEF q, A, B, High
<1> QED
  BY <1>2, <1>3, <1>4, <1>5, <1>6

-----------------------------------------------------------------------------
(* A row's path (merkle.go:33-50) *)

\* The node k levels above row j of a tree of so many bits.
Node(bits, j, k) == High(Leaf(bits, j), k)

\* The nodes above a row are numbered by the bits of the row that are left.
LEMMA NodeAbove ==
  ASSUME NEW bits \in Nat, NEW j \in 0..2 ^ bits - 1, NEW k \in 0..bits
  PROVE  Node(bits, j, k) = 2 ^ (bits - k) + High(j, k)
<1>1. 2 ^ k \in Nat \ {0} /\ 2 ^ (bits - k) \in Nat \ {0} /\ 2 ^ bits \in Nat \ {0}
  BY Doubling
<1>2. 2 ^ bits = 2 ^ k * 2 ^ (bits - k)
  <2>1. k \in Nat /\ bits - k \in Nat /\ k + (bits - k) = bits
    OBVIOUS
  <2> QED
    BY <2>1, PowerOfSum
<1> DEFINE A == 2 ^ k
           B == 2 ^ (bits - k)
           q == j \div A
           r == j % A
<1>3. j \in Nat /\ A \in Nat \ {0} /\ B \in Nat
  BY <1>1
<1> HIDE DEF A, B
<1>4. q \in Nat /\ r \in 0..A - 1 /\ j = A * q + r
  BY <1>3, Division
<1> HIDE DEF q, r
<1>5. A * (B + q) = A * B + A * q /\ A * B \in Nat /\ A * q \in Nat /\ B + q \in Nat
  BY <1>3, <1>4
<1>6. A * B + j = A * (B + q) + r /\ A * B + j \in Nat
  BY <1>3, <1>4, <1>5
<1>7. (A * B + j) \div A = B + q
  <2> DEFINE n == A * B + j
             s == B + q
  <2>1. n \in Nat /\ s \in Nat /\ n = A * s + r
    BY <1>5, <1>6
  <2> HIDE DEF n, s
  <2>2. n \div A = s
    BY <1>3, <1>4, <2>1, Division
  <2> QED
    BY <2>2 DEF n, s
<1>8. Leaf(bits, j) = A * B + j
  BY <1>2 DEF Leaf, A, B
<1> QED
  BY <1>7, <1>8 DEF Node, High, A, B, q

\* A node is a right child if the next bit of its row is set, its sibling is next to it,
\* and neither is the root.
LEMMA NodeStep ==
  ASSUME NEW bits \in Nat, NEW j \in 0..2 ^ bits - 1, NEW k \in Nat, k < bits
  PROVE  /\ Node(bits, j, k) \in Nat /\ Node(bits, j, k) >= 2
         /\ Node(bits, j, k) % 2 = Bit(j, k)
         /\ Node(bits, j, k + 1) = Node(bits, j, k) \div 2
         /\ Node(bits, j, k + 1) \in Nat
<1> DEFINE C == 2 ^ (bits - (k + 1))
           h == High(j, k + 1)
           b == Bit(j, k)
<1>1. /\ bits - (k + 1) \in Nat /\ (bits - (k + 1)) + 1 = bits - k
      /\ k \in 0..bits /\ k + 1 \in 0..bits /\ k + 1 \in Nat /\ j \in Nat
  BY Doubling
<1>2. C \in Nat \ {0} /\ 2 ^ (bits - k) = 2 * C
  BY <1>1, Doubling
<1>3. h \in Nat /\ b \in 0..1 /\ High(j, k) = 2 * h + b
  BY <1>1, Halving
<1>4. Node(bits, j, k) = 2 ^ (bits - k) + High(j, k) /\ Node(bits, j, k + 1) = C + h
  BY <1>1, NodeAbove
<1> HIDE DEF C, h, b
<1>5. Node(bits, j, k) = 2 * (C + h) + b
  BY <1>2, <1>3, <1>4
<1> QED
  BY <1>2, <1>3, <1>4, <1>5 DEF b

\* A climb (merkle.go:37-44) is a run of one hash for every level.
HashAt(index, k, sibling, v) ==
  IF Bit(index, k - 1) = 1 THEN HashPair(sibling, v) ELSE HashPair(v, sibling)

ClimbsBy(n, index, leaf, path, cur) ==
  /\ cur \in [0..n -> Nat] /\ cur[0] = leaf
  /\ \A k \in 1..n : cur[k] = HashAt(index, k, path[k], cur[k - 1])
  /\ Climb(index, leaf, path) = cur[n]

LEMMA ClimbRuns ==
  ASSUME NEW n \in Nat, NEW index \in Nat, NEW leaf \in Nat, NEW path \in [1..n -> Nat]
  PROVE  \E cur : ClimbsBy(n, index, leaf, path, cur)
<1> DEFINE F == [k \in 1..n |-> [v \in Nat |-> HashAt(index, k, path[k], v)]]
           Steps(z) == z = [k \in 0..n |-> IF k = 0 THEN leaf ELSE HashAt(index, k, path[k], z[k - 1])]
           c == CHOOSE z : Steps(z)
<1>1. Len(path) = n
  <2>1. path \in Seq(Nat)
    OBVIOUS
  <2>2. DOMAIN path = 1..Len(path) /\ Len(path) \in Nat /\ DOMAIN path = 1..n
    BY <2>1, LenProperties
  <2> QED
    BY <2>2
<1>2. \A k \in 1..n : \A v \in Nat : HashAt(index, k, path[k], v) \in Nat
  <2> SUFFICES ASSUME NEW k \in 1..n, NEW v \in Nat PROVE HashAt(index, k, path[k], v) \in Nat
    OBVIOUS
  <2>1. \A a, b \in Nat : HashPair(a, b) \in Nat
    BY DEF HashPair
  <2>2. path[k] \in Nat
    OBVIOUS
  <2> QED
    BY <2>1, <2>2 DEF HashAt
<1>3. PICK g : RunsIn(n, Nat, leaf, F, g)
  <2>1. \A k \in 1..n : \A v \in Nat : F[k][v] \in Nat
    BY <1>2
  <2> HIDE DEF F
  <2> QED
    BY <2>1, RecursionIn
<1>4. /\ g \in [0..n -> Nat] /\ g[0] = leaf
      /\ \A k \in 1..n : g[k] = HashAt(index, k, path[k], g[k - 1])
  <2>1. \A k \in 1..n : k - 1 \in 0..n
    OBVIOUS
  <2> QED
    BY <1>3, <2>1 DEF RunsIn
<1>5. Steps(g)
  <2>1. \A k \in 0..n : g[k] = IF k = 0 THEN leaf ELSE HashAt(index, k, path[k], g[k - 1])
    BY <1>4
  <2>2. g = [k \in 0..n |-> g[k]]
    BY <1>4
  <2> QED
    BY <2>1, <2>2
<1>6. Steps(c)
  <2> HIDE DEF Steps
  <2> QED
    BY <1>5
<1>7. c[0] = leaf /\ \A k \in 1..n : c[k] = HashAt(index, k, path[k], c[k - 1])
  <2> HIDE DEF c
  <2>1. \A k \in 0..n : c[k] = IF k = 0 THEN leaf ELSE HashAt(index, k, path[k], c[k - 1])
    BY <1>6
  <2> QED
    BY <2>1
<1>8. \A k \in 0..n : g[k] = c[k]
  <2> HIDE DEF c
  <2>1. \A k \in 1..n : g[k - 1] = c[k - 1] => g[k] = c[k]
    BY <1>4, <1>7
  <2>2. Alike(n, g, c)
    BY <1>4, <1>7, <2>1 DEF Alike
  <2> QED
    BY <2>2, SameRun
<1>9. Climb(index, leaf, path) = c[n]
  BY <1>1 DEF Climb, HashAt
<1>10. g[n] = c[n]
  BY <1>8
<1>11. ClimbsBy(n, index, leaf, path, g)
  <2> HIDE DEF c
  <2> QED
    BY <1>4, <1>9, <1>10 DEF ClimbsBy
<1> QED
  BY <1>11

\* Whose hash a node is.
LEMMA HashPairMeans ==
  ASSUME NEW a \in Nat, NEW b \in Nat, NEW up \in Nat \ {0}
  PROVE  HashPair(a, b) = up <=> a = 2 * up /\ b = 2 * up + 1
<1>1. CASE a > 0 /\ a % 2 = 0 /\ b = a + 1
  <2>1. a = 2 * (a \div 2) /\ HashPair(a, b) = a \div 2
    BY <1>1 DEF HashPair
  <2> QED
    BY <1>1, <2>1
<1>2. CASE ~(a > 0 /\ a % 2 = 0 /\ b = a + 1)
  <2>1. HashPair(a, b) = 0
    BY <1>2 DEF HashPair
  <2>2. ASSUME a = 2 * up, b = 2 * up + 1 PROVE FALSE
    <3>1. a > 0 /\ a % 2 = 0 /\ b = a + 1
      BY <2>2
    <3> QED
      BY <1>2, <3>1
  <2> QED
    BY <2>1, <2>2
<1> QED
  BY <1>1, <1>2

\* One level up (merkle.go:38-43): the hash is the node above row j's, at the bits of j, only
\* of that node's own children.
LEMMA HashesChildren ==
  ASSUME NEW bits \in Nat, NEW j \in 0..2 ^ bits - 1, NEW n \in 0..bits, NEW k \in 1..n,
         NEW sibling \in Nat, NEW v \in Nat
  PROVE  HashAt(j, k, sibling, v) = Node(bits, j, k) <=>
           v = Node(bits, j, k - 1) /\ sibling = Path(bits, j, n)[k]
<1> DEFINE m == k - 1
           own == Node(bits, j, m)
           up == Node(bits, j, k)
           b == Bit(j, m)
<1>1. m \in Nat /\ m < bits /\ m + 1 = k /\ j \in Nat
  BY Doubling
<1> HIDE DEF m
<1>2. own \in Nat /\ own >= 2 /\ own % 2 = b /\ Node(bits, j, m + 1) = own \div 2
  BY <1>1, NodeStep
<1>3. b \in 0..1
  BY <1>1, Halving
<1>4. Path(bits, j, n)[k] = IF own % 2 = 0 THEN own + 1 ELSE own - 1
  BY DEF Path, Node, m
<1>5. HashAt(j, k, sibling, v) = IF b = 1 THEN HashPair(sibling, v) ELSE HashPair(v, sibling)
  BY DEF HashAt, m
<1>6. up = own \div 2
  BY <1>1, <1>2
<1> HIDE DEF own, up, b
<1>7. up \in Nat \ {0} /\ own = 2 * up + b
  BY <1>2, <1>3, <1>6
<1> DEFINE p == Path(bits, j, n)[k]
<1> HIDE DEF p
<1>8. p = IF own % 2 = 0 THEN own + 1 ELSE own - 1
  BY <1>4 DEF p
<1>9. HashAt(j, k, sibling, v) = up <=> v = own /\ sibling = p
  <2>1. CASE b = 1
    <3>1. HashPair(sibling, v) = up <=> sibling = 2 * up /\ v = 2 * up + 1
      BY <1>7, HashPairMeans
    <3>2. own = 2 * up + 1 /\ p = 2 * up
      BY <1>2, <1>7, <1>8, <2>1
    <3> QED
      BY <1>5, <2>1, <3>1, <3>2
  <2>2. CASE b = 0
    <3>1. HashPair(v, sibling) = up <=> v = 2 * up /\ sibling = 2 * up + 1
      BY <1>7, HashPairMeans
    <3>2. own = 2 * up /\ p = 2 * up + 1
      BY <1>2, <1>7, <1>8, <2>2
    <3> QED
      BY <1>5, <2>2, <3>1, <3>2
  <2> QED
    BY <1>3, <2>1, <2>2
<1> QED
  BY <1>9 DEF up, own, p, m

\* merkle.go:33-50: in a tree of any height, with any number of its levels in the top row,
\* an index is opened with the digest of its own row and the tree's own digest at every place
\* of the path, and with nothing else.
LEMMA OpensOneRow ==
  ASSUME NEW bits \in Nat, TopBits <= bits, NEW index \in 0..2 ^ bits - 1,
         NEW leaf \in Nat, NEW path \in [1..bits - TopBits -> Nat]
  PROVE  MerkleVerify(index, leaf, path) <=>
           leaf = Leaf(bits, index) /\ path = Path(bits, index, bits - TopBits)
<1> DEFINE n == bits - TopBits
           own(k) == Node(bits, index, k)
<1>1. TopBits \in Nat /\ n \in Nat /\ n \in 0..bits /\ n + TopBits = bits /\ bits - n = TopBits
  BY FriQueryAssumption
<1>2. index \in Nat /\ 2 ^ TopBits \in Nat \ {0} /\ Leaf(bits, index) \in Nat
  BY <1>1, Doubling DEF Leaf
<1>3. path \in [1..n -> Nat]
  OBVIOUS
<1> HIDE DEF n
<1>4. Len(path) = n
  <2>1. path \in Seq(Nat)
    BY <1>1, <1>3
  <2>2. DOMAIN path = 1..Len(path) /\ Len(path) \in Nat /\ DOMAIN path = 1..n
    BY <1>3, <2>1, LenProperties
  <2> QED
    BY <1>1, <2>2
<1>5. TopRow[High(index, n)] = own(n)
  <2>1. High(index, n) \in 0..2 ^ TopBits - 1
    BY <1>1, <1>2, Digits
  <2>2. own(n) = 2 ^ TopBits + High(index, n)
    BY <1>1, NodeAbove
  <2> QED
    BY <2>1, <2>2 DEF TopRow
<1>6. own(0) = Leaf(bits, index)
  BY <1>2, Halving DEF Node
<1>7. PICK cur : ClimbsBy(n, index, leaf, path, cur)
  BY <1>1, <1>2, <1>3, ClimbRuns
<1> USE DEF ClimbsBy
<1>8. ASSUME NEW k \in 1..n
      PROVE  cur[k] = own(k) <=> cur[k - 1] = own(k - 1) /\ path[k] = Path(bits, index, n)[k]
  <2>1. k - 1 \in 0..n /\ cur[k - 1] \in Nat /\ path[k] \in Nat
    BY <1>1, <1>3, <1>7
  <2>2. HashAt(index, k, path[k], cur[k - 1]) = own(k) <=>
          cur[k - 1] = own(k - 1) /\ path[k] = Path(bits, index, n)[k]
    BY <1>1, <2>1, HashesChildren
  <2> QED
    BY <1>7, <2>2
<1>9. MerkleVerify(index, leaf, path) <=> cur[n] = own(n)
  BY <1>4, <1>5, <1>7 DEF MerkleVerify
<1> HIDE DEF own
<1>10. ASSUME cur[n] = own(n) PROVE leaf = Leaf(bits, index) /\ path = Path(bits, index, n)
  <2> DEFINE S == {m \in 0..n : cur[n - m] = own(n - m)}
  <2>1. 0 \in S
    BY <1>1, <1>10
  <2>2. \A m \in 1..n : m - 1 \in S => m \in S
    <3> SUFFICES ASSUME NEW m \in 1..n, m - 1 \in S PROVE m \in S
      OBVIOUS
    <3>1. n - (m - 1) \in 1..n /\ (n - (m - 1)) - 1 = n - m /\ m \in 0..n
      BY <1>1
    <3>2. cur[n - (m - 1)] = own(n - (m - 1))
      OBVIOUS
    <3> QED
      BY <1>8, <3>1, <3>2
  <2> HIDE DEF S
  <2>3. \A m \in 0..n : m \in S
    BY <1>1, <2>1, <2>2, InductionTo
  <2>4. \A k \in 0..n : cur[k] = own(k)
    <3> SUFFICES ASSUME NEW k \in 0..n PROVE cur[k] = own(k)
      OBVIOUS
    <3>1. n - k \in 0..n /\ n - (n - k) = k
      BY <1>1
    <3> QED
      BY <2>3, <3>1 DEF S
  <2>5. \A k \in 1..n : path[k] = Path(bits, index, n)[k]
    BY <1>8, <2>4
  <2>6. path = Path(bits, index, n)
    <3>1. Path(bits, index, n) = [k \in 1..n |-> Path(bits, index, n)[k]]
      BY DEF Path
    <3> QED
      BY <1>3, <2>5, <3>1
  <2>7. leaf = Leaf(bits, index)
    BY <1>1, <1>6, <1>7, <2>4
  <2> QED
    BY <2>6, <2>7
<1>11. ASSUME leaf = Leaf(bits, index), path = Path(bits, index, n) PROVE cur[n] = own(n)
  <2> DEFINE S == {m \in 0..n : cur[m] = own(m)}
  <2>1. 0 \in S
    BY <1>1, <1>6, <1>7, <1>11
  <2>2. \A m \in 1..n : m - 1 \in S => m \in S
    BY <1>1, <1>8, <1>11
  <2> HIDE DEF S
  <2>3. \A m \in 0..n : m \in S
    BY <1>1, <2>1, <2>2, InductionTo
  <2> QED
    BY <1>1, <2>3 DEF S
<1> QED
  BY <1>9, <1>10, <1>11 DEF n

-----------------------------------------------------------------------------
(* The entries on a position's way *)

\* The tables agree round by round (driver.go:127-132): a fold takes FoldBits bits off.
LEMMA Widths ==
  ASSUME NEW r \in Rounds
  PROVE  /\ NRounds \in Nat \ {0} /\ r \in Nat
         /\ GroupBits[r] \in Nat /\ RoundBits[r] = GroupBits[r]
         /\ TopBits \in Nat /\ TopBits <= GroupBits[r] /\ FriPath[r] = GroupBits[r] - TopBits
         /\ FoldBits \in Nat /\ FoldBits # 0
         /\ WordBits(r) = GroupBits[r] + FoldBits
         /\ GroupBits[r] = PosBits - ((r + 1) - 1) * FoldBits
<1>1. NRounds \in Nat \ {0} /\ r \in Nat
  BY FriQueryAssumption, LenProperties DEF NRounds, Rounds
<1>2. /\ FoldBits \in Nat \ {0} /\ TopBits \in Nat /\ PosBits \in Nat
      /\ \A s \in Rounds :
           /\ GroupBits[s] = PosBits - s * FoldBits /\ GroupBits[s] >= TopBits
           /\ RoundBits[s] = GroupBits[s]
           /\ FriPath[s] = GroupBits[s] - TopBits
  BY FriQueryAssumption
<1>3. GroupBits[r] \in Nat
  BY <1>1, <1>2, FriQueryAssumption DEF NRounds, Rounds
<1>4. WordBits(r) = GroupBits[r] + FoldBits
  <2>1. CASE r = 1
    BY <1>2, <2>1 DEF WordBits
  <2>2. CASE r # 1
    <3>1. r - 1 \in Rounds /\ r - 1 \in Nat
      BY <1>1, <2>2 DEF Rounds
    <3>2. GroupBits[r - 1] = PosBits - (r - 1) * FoldBits /\ GroupBits[r] = PosBits - r * FoldBits
      BY <1>2, <3>1
    <3>3. (r - 1) * FoldBits = r * FoldBits - FoldBits /\ r * FoldBits \in Nat
      BY <1>1, <1>2
    <3> QED
      BY <1>2, <2>2, <3>2, <3>3 DEF WordBits
  <2> QED
    BY <2>1, <2>2
<1>5. (r + 1) - 1 = r
  BY <1>1
<1> QED
  BY <1>1, <1>2, <1>3, <1>4, <1>5

\* The width of every word, and that the top row fits in its tree.
LEMMA WordWidths ==
  /\ PosBits \in Nat /\ TopBits <= PosBits /\ MainPath = PosBits - TopBits
  /\ WordBits(1) = PosBits
  /\ \A r \in Rounds : WordBits(r + 1) = GroupBits[r]
  /\ \A r \in 1 .. NRounds + 1 : WordBits(r) \in Nat
<1>1. NRounds \in Nat \ {0} /\ PosBits \in Nat /\ TopBits \in Nat /\ MainPath = PosBits - TopBits
  BY FriQueryAssumption, LenProperties DEF NRounds
<1>2. WordBits(1) = PosBits
  BY DEF WordBits
<1>3. TopBits <= PosBits
  <2>1. 1 \in Rounds
    BY <1>1 DEF Rounds
  <2>2. TopBits <= GroupBits[1] /\ FoldBits \in Nat /\ WordBits(1) = GroupBits[1] + FoldBits
        /\ GroupBits[1] \in Nat
    BY <2>1, Widths
  <2> QED
    BY <1>1, <1>2, <2>2
<1>4. \A r \in Rounds : WordBits(r + 1) = GroupBits[r]
  BY <1>1 DEF Rounds, WordBits
<1>5. ASSUME NEW r \in 1 .. NRounds + 1 PROVE WordBits(r) \in Nat
  <2>1. CASE r = 1
    BY <1>1, <1>2, <2>1
  <2>2. CASE r # 1
    <3>1. r - 1 \in Rounds /\ (r - 1) + 1 = r
      BY <1>1, <2>2 DEF Rounds
    <3>2. WordBits((r - 1) + 1) = GroupBits[r - 1]
      BY <1>4, <3>1
    <3> QED
      BY <3>1, <3>2, Widths
  <2> QED
    BY <2>1, <2>2
<1> QED
  BY <1>1, <1>2, <1>3, <1>4, <1>5

\* The entry of word r at a position: its low bits.
At(r) == Low(pos, WordBits(r))

\* Taking the position modulo one domain after the other (fri.go:101-112) keeps its low bits.
LEMMA VisitedIsAt ==
  ASSUME pos \in 0 .. 2 ^ PosBits - 1, NEW r \in 1 .. NRounds + 1
  PROVE  Visited(r) = At(r)
<1> DEFINE Modulo(s, v) == v % 2 ^ (PosBits - (s - 1) * FoldBits)
           w == [s \in 1 .. r |-> At(s)]
<1>1. /\ NRounds \in Nat /\ r \in Nat /\ pos \in Nat
      /\ \A s \in 1 .. r : s \in 1 .. NRounds + 1
  <2>1. NRounds \in Nat /\ pos \in Nat
    BY FriQueryAssumption, LenProperties, Doubling DEF NRounds
  <2> QED
    BY <2>1
<1>2. At(1) = pos
  BY <1>1, WordWidths, Digits DEF At
<1>3. ASSUME NEW s \in 2 .. r PROVE At(s) = Modulo(s, At(s - 1))
  <2>1. s - 1 \in Rounds /\ (s - 1) + 1 = s
    BY <1>1 DEF Rounds
  <2> DEFINE g == GroupBits[s - 1]
  <2>2. /\ g \in Nat /\ FoldBits \in Nat /\ WordBits(s - 1) = g + FoldBits
        /\ g = PosBits - (s - 1) * FoldBits
    BY <2>1, Widths
  <2>3. WordBits(s) = g
    <3>1. WordBits((s - 1) + 1) = g
      BY <2>1, WordWidths
    <3> QED
      BY <2>1, <3>1
  <2>4. Low(Low(pos, g + FoldBits), g) = Low(pos, g)
    <3>1. g \in Nat /\ FoldBits \in Nat /\ pos \in Nat
      BY <1>1, <2>2
    <3> HIDE DEF g
    <3> QED
      BY <3>1, Digits
  <2> QED
    BY <2>2, <2>3, <2>4 DEF At, Low
<1> DEFINE Steps(z) == z = [s \in 1 .. r |-> IF s = 1 THEN pos ELSE Modulo(s, z[s - 1])]
           at == CHOOSE z : Steps(z)
<1>4. Steps(w)
  <2>1. \A s \in 1 .. r : w[s] = IF s = 1 THEN pos ELSE Modulo(s, w[s - 1])
    <3> SUFFICES ASSUME NEW s \in 1 .. r
                 PROVE  w[s] = IF s = 1 THEN pos ELSE Modulo(s, w[s - 1])
      OBVIOUS
    <3>1. CASE s = 1
      BY <1>2, <3>1
    <3>2. CASE s # 1
      <4>1. s \in 2 .. r /\ s - 1 \in 1 .. r
        BY <1>1, <3>2
      <4> HIDE DEF Modulo
      <4> QED
        BY <1>3, <3>2, <4>1
    <3> QED
      BY <3>1, <3>2
  <2> HIDE DEF Modulo
  <2> QED
    BY <2>1
<1>5. Steps(at)
  <2> HIDE DEF Steps, w
  <2> QED
    BY <1>4
<1>6. at[r] = At(r)
  <2> DEFINE S == {n \in Nat : n + 1 <= r => at[n + 1] = At(n + 1)}
  <2> HIDE DEF at, Modulo
  <2>1. \A s \in 1 .. r : at[s] = IF s = 1 THEN pos ELSE Modulo(s, at[s - 1])
    BY <1>5
  <2>2. 0 \in S
    BY <1>1, <1>2, <2>1
  <2>3. ASSUME NEW n \in S PROVE n + 1 \in S
    <3> SUFFICES ASSUME (n + 1) + 1 <= r PROVE at[(n + 1) + 1] = At((n + 1) + 1)
      OBVIOUS
    <3> DEFINE s == (n + 1) + 1
    <3>1. s \in 2 .. r /\ s \in 1 .. r /\ s - 1 = n + 1 /\ s # 1 /\ n + 1 <= r
      BY <1>1
    <3>2. at[s - 1] = At(s - 1)
      BY <3>1
    <3> HIDE DEF s
    <3>3. at[s] = At(s)
      BY <1>3, <2>1, <3>1, <3>2
    <3> QED
      BY <3>3 DEF s
  <2>4. S = Nat
    <3>1. S \in SUBSET Nat
      OBVIOUS
    <3> HIDE DEF S
    <3> QED
      BY <2>2, <2>3, <3>1, SetInduction
  <2>5. r - 1 \in Nat /\ (r - 1) + 1 = r /\ r <= r
    BY <1>1
  <2>6. \A n \in Nat : n + 1 <= r => at[n + 1] = At(n + 1)
    BY <2>4
  <2> QED
    BY <2>5, <2>6
<1>7. Visited(r) = at[r]
  BY DEF Visited
<1> QED
  BY <1>6, <1>7

-----------------------------------------------------------------------------
(* The inductive invariant *)

\* No entry at the position is false in the first n words.
WayClear(n) == \A r \in 1 .. n : lie # <<r, At(r)>>

\* Every row that was opened is the one at the position.
Opened == \A r \in 1 .. Len(rows) : rows[r] = Leaf(WordBits(r), At(r))

\* What is known at each step of the query: the goal is the value of the next word's entry
\* at the position.
Stage ==
  /\ pc # "rejected" => fair
  /\ pc = "open" =>
       /\ round = 0 /\ Len(rows) <= NRounds
       /\ rows # <<>> => goal = <<1, At(1)>>
  /\ pc = "fold" =>
       Len(rows) = NRounds + 1 /\ round < NRounds /\ goal = <<round + 1, At(round + 1)>>
  /\ pc = "final" =>
       Len(rows) = NRounds + 1 /\ round = NRounds /\ goal = <<round + 1, At(round + 1)>>
  /\ pc = "accepted" => Len(rows) = NRounds + 1 /\ WayClear(NRounds + 1)
  /\ pc = "rejected" /\ fair => ~WayClear(NRounds + 1)

QInv == TypeOK /\ Opened /\ WayClear(round) /\ Stage

\* The entries at a position are entries.
LEMMA AtEntries ==
  ASSUME TypeOK
  PROVE  /\ NRounds \in Nat \ {0} /\ pos \in Nat
         /\ \A r \in 1 .. NRounds + 1 :
              /\ At(r) \in 0 .. 2 ^ PosBits - 1
              /\ At(r) \in 0 .. 2 ^ WordBits(r) - 1
              /\ <<r, At(r)>> \in Entries /\ <<r, At(r)>> # Junk
         /\ At(1) = pos
<1>1. NRounds \in Nat \ {0} /\ pos \in Nat /\ pos \in 0 .. 2 ^ PosBits - 1
  BY FriQueryAssumption, LenProperties, Doubling DEF NRounds, TypeOK
<1>2. ASSUME NEW r \in 1 .. NRounds + 1
      PROVE  At(r) \in 0 .. 2 ^ PosBits - 1 /\ At(r) \in 0 .. 2 ^ WordBits(r) - 1
  <2> DEFINE A == 2 ^ WordBits(r)
             B == 2 ^ PosBits
  <2>1. A \in Nat \ {0} /\ B \in Nat /\ pos < B
    BY <1>1, WordWidths, Doubling
  <2>2. At(r) = pos % A
    BY DEF At, Low
  <2> HIDE DEF A, B
  <2>3. pos % A \in 0 .. A - 1 /\ pos = A * (pos \div A) + (pos % A) /\ pos \div A \in Nat
    BY <1>1, <2>1, Division
  <2>4. A * (pos \div A) \in Nat
    BY <2>1, <2>3
  <2>5. pos % A <= pos
    BY <1>1, <2>1, <2>3, <2>4
  <2>6. pos % A \in 0 .. B - 1
    BY <1>1, <2>1, <2>3, <2>5
  <2> QED
    BY <2>2, <2>3, <2>6 DEF A, B
<1>3. ASSUME NEW r \in 1 .. NRounds + 1
      PROVE  <<r, At(r)>> \in Entries /\ <<r, At(r)>> # Junk
  <2>1. <<r, At(r)>> \in {r} \X (0 .. 2 ^ WordBits(r) - 1)
    BY <1>2
  <2>2. r # 0
    BY <1>1
  <2> QED
    BY <2>1, <2>2 DEF Entries, Junk
<1>4. At(1) = pos
  BY <1>1, WordWidths, Digits DEF At
<1> QED
  BY <1>1, <1>2, <1>3, <1>4

LEMMA InitQ == Init => QInv
<1> SUFFICES ASSUME Init PROVE QInv
  OBVIOUS
<1>1. NRounds \in Nat
  BY FriQueryAssumption, LenProperties DEF NRounds
<1>2. rows = <<>> /\ Len(rows) = 0 /\ rows \in Seq(Nat)
  BY DEF Init
<1> QED
  BY <1>1, <1>2 DEF Init, QInv, TypeOK, Opened, WayClear, Stage

\* The widths of a tree, and of the way up in it.
LEMMA TreeWidths ==
  ASSUME NEW t \in Trees
  PROVE  /\ t + 1 \in 1 .. NRounds + 1 /\ t \in Nat
         /\ RowBits(t) = WordBits(t + 1) /\ RowBits(t) \in Nat /\ TopBits <= RowBits(t)
         /\ PathLength(t) = RowBits(t) - TopBits
<1>1. NRounds \in Nat \ {0} /\ t \in 0 .. NRounds
  BY FriQueryAssumption, LenProperties DEF NRounds, Trees
<1>2. RowBits(t) = WordBits(t + 1) /\ RowBits(t) \in Nat
  BY <1>1, WordWidths DEF RowBits
<1>3. CASE t = 0
  BY <1>1, <1>2, <1>3, WordWidths DEF PathLength
<1>4. CASE t # 0
  <2>1. t \in Rounds
    BY <1>1, <1>4 DEF Rounds
  <2> QED
    BY <1>1, <1>2, <1>4, <2>1, WordWidths, Widths DEF PathLength
<1> QED
  BY <1>3, <1>4

\* A row at the position is of the tree.
LEMMA RowsAreCommitted ==
  ASSUME NEW t \in Trees, NEW j \in Indices(t)
  PROVE  ~Foreign(t, Leaf(RowBits(t), j))
BY DEF Foreign

\* merkle.go:33-50: only the row at the position can be opened, and only with its own path.
LEMMA OpenStep ==
  ASSUME QInv, Open
  PROVE  QInv'
<1> DEFINE t == Len(rows)
           bits == RowBits(t)
           index == Low(pos, bits)
<1>1. /\ pc = "open" /\ round = 0 /\ t \in Trees /\ t \in 0 .. NRounds
      /\ t \in Nat /\ NRounds \in Nat \ {0} /\ fair = TRUE
      /\ rows \in Seq(Nat)
  BY AtEntries, LenProperties DEF Open, QInv, Stage, TypeOK, Trees
<1>2. /\ t + 1 \in 1 .. NRounds + 1 /\ bits = WordBits(t + 1)
      /\ bits \in Nat /\ TopBits <= bits /\ PathLength(t) = bits - TopBits
  BY <1>1, TreeWidths
<1>3. index = At(t + 1) /\ index \in 0 .. 2 ^ bits - 1 /\ index \in Indices(t)
  BY <1>2, AtEntries DEF At, QInv, Indices
<1> HIDE DEF bits, index
<1>4. Visited(t + 1) = index
  BY <1>2, <1>3, VisitedIsAt DEF QInv, TypeOK
<1>5. PICK o \in Offers(t, index) :
        /\ fair' = (fair /\ o = Honest(t, index))
        /\ IF MerkleVerify(index, o.leaf, o.path)
           THEN /\ rows' = Append(rows, o.leaf)
                /\ goal' = IF t > 0 THEN goal ELSE Goal0(o.leaf)
                /\ pc' = IF t < NRounds THEN "open" ELSE "fold"
                /\ UNCHANGED <<pos, lie, round>>
           ELSE Reject
  BY <1>4 DEF Open, index, bits
<1>6. o \in [leaf : Nat, path : [1 .. bits - TopBits -> Nat]]
  BY <1>1, <1>2, <1>3, OffersAssumption DEF Openings
<1>7. Honest(t, index) = [leaf |-> Leaf(bits, index), path |-> Path(bits, index, bits - TopBits)]
  BY <1>2 DEF Honest, bits
<1>8. MerkleVerify(index, o.leaf, o.path) <=> o = Honest(t, index)
  <2>1. o.leaf \in Nat /\ o.path \in [1 .. bits - TopBits -> Nat]
        /\ o = [leaf |-> o.leaf, path |-> o.path]
    BY <1>6
  <2>2. MerkleVerify(index, o.leaf, o.path) <=>
          o.leaf = Leaf(bits, index) /\ o.path = Path(bits, index, bits - TopBits)
    BY <1>2, <1>3, <2>1, OpensOneRow
  <2> QED
    BY <1>7, <2>1, <2>2
<1>9. CASE o # Honest(t, index)
  <2>1. Reject /\ fair' = FALSE
    BY <1>5, <1>8, <1>9
  <2> QED
    BY <1>1, <2>1 DEF Reject, QInv, TypeOK, Opened, WayClear, Stage, At
<1>10. CASE o = Honest(t, index)
  <2>1. /\ rows' = Append(rows, Leaf(bits, index))
        /\ goal' = IF t > 0 THEN goal ELSE Goal0(Leaf(bits, index))
        /\ pc' = IF t < NRounds THEN "open" ELSE "fold"
        /\ fair' = TRUE
        /\ pos' = pos /\ lie' = lie /\ round' = round
    <3>1. o.leaf = Leaf(bits, index)
      BY <1>7, <1>10
    <3>2. MerkleVerify(index, o.leaf, o.path) /\ fair' = TRUE
      BY <1>1, <1>5, <1>8, <1>10
    <3> QED
      BY <1>5, <3>1, <3>2
  <2>2. /\ rows' \in Seq(Nat) /\ Len(rows') = t + 1
        /\ \A s \in 1 .. t : rows'[s] = rows[s]
        /\ rows'[t + 1] = Leaf(WordBits(t + 1), At(t + 1))
    <3>1. Leaf(bits, index) \in Nat
      BY <1>6, <1>7, <1>10
    <3> QED
      BY <1>1, <1>2, <1>3, <2>1, <3>1, AppendProperties
  <2>3. goal' = <<1, At(1)>>
    <3>1. CASE t = 0
      <4>1. bits = PosBits /\ index = pos /\ At(1) = pos
        BY <1>2, <1>3, <3>1, AtEntries, WordWidths DEF QInv
      <4> QED
        BY <2>1, <3>1, <4>1 DEF Goal0
    <3>2. CASE t # 0
      BY <1>1, <2>1, <3>2, EmptySeq DEF QInv, Stage
    <3> QED
      BY <3>1, <3>2
  <2>4. \A s \in 1 .. NRounds + 1 : At(s)' = At(s)
    BY <2>1 DEF At
  <2>5. TypeOK'
    <3>1. goal' \in Entries
      BY <1>1, <2>3, AtEntries DEF QInv
    <3>2. rows' \in Seq(Nat) /\ Len(rows') <= NRounds + 1
      BY <1>1, <2>2
    <3> QED
      BY <2>1, <3>1, <3>2 DEF QInv, TypeOK
  <2>6. Opened'
    <3>1. \A s \in 1 .. t + 1 : rows'[s] = Leaf(WordBits(s), At(s))
      BY <1>1, <2>2 DEF QInv, Opened
    <3>2. \A s \in 1 .. t + 1 : s \in 1 .. NRounds + 1
      BY <1>1
    <3> QED
      BY <2>2, <2>4, <3>1, <3>2 DEF Opened
  <2>7. WayClear(round)'
    BY <1>1, <2>1 DEF WayClear
  <2>8. Stage'
    <3>1. At(1)' = At(1)
      BY <1>1, <2>4
    <3> QED
      BY <1>1, <2>1, <2>2, <2>3, <3>1 DEF Stage
  <2> QED
    BY <2>5, <2>6, <2>7, <2>8 DEF QInv
<1> QED
  BY <1>9, <1>10

\* fri.go:101-112: the entry compared is the one at the position, and the next goal is its
\* fold.
LEMMA FoldStep ==
  ASSUME QInv, FoldRound
  PROVE  QInv'
<1>0. PICK r \in Nat : r = round + 1
  BY DEF QInv, TypeOK
<1> DEFINE leaf == rows[r + 1]
           quot == Low(High(pos, RoundBits[r]), FoldBits)
           bits == GroupBits[r]
<1>1. /\ pc = "fold" /\ round \in Nat /\ round < NRounds /\ NRounds \in Nat \ {0} /\ pos \in Nat
      /\ r \in Rounds /\ r \in 1 .. NRounds + 1 /\ r + 1 \in 1 .. NRounds + 1 /\ r \in Nat
      /\ r - 1 = round /\ r \in Trees
      /\ Len(rows) = NRounds + 1 /\ goal = <<r, At(r)>> /\ fair = TRUE
  BY <1>0, AtEntries DEF FoldRound, QInv, TypeOK, Stage, Rounds, Trees
<1>2. /\ bits \in Nat /\ FoldBits \in Nat /\ RoundBits[r] = bits /\ RowBits(r) = bits
      /\ WordBits(r) = bits + FoldBits /\ WordBits(r + 1) = bits
  BY <1>1, Widths, WordWidths DEF RowBits
<1>3. leaf = Leaf(bits, At(r + 1)) /\ Low(pos, RoundBits[r]) = At(r + 1)
  BY <1>1, <1>2 DEF QInv, Opened, At
<1>4. At(r + 1) + quot * 2 ^ bits = At(r)
  <2>1. Low(pos, bits + FoldBits) = Low(pos, bits) + Low(High(pos, bits), FoldBits) * 2 ^ bits
    BY <1>1, <1>2, Digits
  <2> QED
    BY <1>2, <2>1 DEF At
<1>a. ~Foreign(r, leaf) /\ leaf - 2 ^ bits = At(r + 1)
  <2>1. At(r + 1) \in Indices(r) /\ At(r + 1) \in Nat
    <3>1. At(r + 1) \in 0 .. 2 ^ WordBits(r + 1) - 1 /\ 2 ^ RowBits(r) \in Nat
      BY <1>1, <1>2, AtEntries, Doubling DEF QInv
    <3> QED
      BY <1>2, <3>1 DEF Indices
  <2>2. ~Foreign(r, leaf)
    BY <1>1, <1>2, <1>3, <2>1, RowsAreCommitted
  <2>3. 2 ^ bits \in Nat
    BY <1>2, Doubling
  <2> QED
    BY <1>3, <2>1, <2>2, <2>3 DEF Leaf
<1> HIDE DEF leaf, quot, bits
<1>5. <<r, At(r)>> # Junk /\ <<r + 1, At(r + 1)>> \in Entries
  BY <1>1, AtEntries DEF QInv
<1>6. GoalHolds(Slot(r, leaf, quot)) <=> lie # <<r, At(r)>>
  <2>1. Slot(r, leaf, quot) = IF lie = <<r, At(r)>> THEN Junk ELSE <<r, At(r)>>
    BY <1>4, <1>a DEF Slot, Held, bits
  <2> QED
    BY <1>1, <1>5, <2>1 DEF GoalHolds
<1>7. CASE lie = <<r, At(r)>>
  <2>1. Reject /\ UNCHANGED fair
    BY <1>0, <1>6, <1>7 DEF FoldRound, leaf, quot
  <2>2. ~WayClear(NRounds + 1)
    BY <1>1, <1>7 DEF WayClear
  <2> QED
    BY <1>1, <2>1, <2>2 DEF Reject, QInv, TypeOK, Opened, WayClear, Stage, At
<1>8. CASE lie # <<r, At(r)>>
  <2>1. /\ goal' = Fold(r, leaf, Low(pos, RoundBits[r]))
        /\ round' = r
        /\ pc' = IF MoreRounds THEN "fold" ELSE "final"
        /\ pos' = pos /\ lie' = lie /\ rows' = rows /\ fair' = fair
    BY <1>0, <1>6, <1>8 DEF FoldRound, leaf, quot
  <2>2. goal' = <<r + 1, At(r + 1)>>
    BY <1>3, <2>1 DEF Fold, bits
  <2>3. \A s \in 1 .. NRounds + 1 : At(s)' = At(s)
    BY <2>1 DEF At
  <2>4. TypeOK'
    <3>1. round' \in 0 .. NRounds
      BY <1>1, <2>1
    <3>2. pc' \in {"fold", "final"}
      BY <2>1
    <3> QED
      BY <1>5, <2>1, <2>2, <3>1, <3>2 DEF QInv, TypeOK
  <2>5. Opened'
    <3>1. \A s \in 1 .. Len(rows) : rows[s] = Leaf(WordBits(s), At(s)) /\ At(s)' = At(s)
      BY <1>1, <2>3 DEF QInv, Opened
    <3> QED
      BY <2>1, <3>1 DEF Opened
  <2>6. WayClear(round)'
    <3>1. \A s \in 1 .. r : s \in 1 .. round \/ s = r
      BY <1>1
    <3>2. \A s \in 1 .. r : lie # <<s, At(s)>> /\ At(s)' = At(s)
      BY <1>1, <1>8, <2>3, <3>1 DEF QInv, WayClear
    <3> QED
      BY <2>1, <3>2 DEF WayClear
  <2>7. Stage'
    <3>1. At(r + 1)' = At(r + 1)
      BY <1>1, <2>3
    <3>2. goal' = <<r + 1, At(r + 1)'>> /\ round' = r
      BY <2>1, <2>2, <3>1
    <3>3. MoreRounds <=> r < NRounds
      BY <2>1 DEF MoreRounds
    <3>4. CASE r < NRounds
      BY <1>1, <2>1, <3>2, <3>3, <3>4 DEF Stage
    <3>5. CASE ~(r < NRounds)
      <4>1. r = NRounds
        BY <1>1, <3>5
      <4> QED
        BY <1>1, <2>1, <3>2, <3>3, <3>5, <4>1 DEF Stage
    <3> QED
      BY <3>4, <3>5
  <2> QED
    BY <2>4, <2>5, <2>6, <2>7 DEF QInv
<1> QED
  BY <1>7, <1>8

\* The final polynomial is compared at the last group.
LEMMA FinalStep ==
  ASSUME QInv, CheckFinal
  PROVE  QInv'
<1> DEFINE n == NRounds + 1
           entry == <<n, Low(pos, FinalBits)>>
<1>1. /\ pc = "final" /\ NRounds \in Nat \ {0} /\ round = NRounds /\ Len(rows) = n
      /\ goal = <<n, At(n)>> /\ n \in 1 .. NRounds + 1 /\ n \in Nat
      /\ <<n, At(n)>> # Junk
  BY AtEntries DEF CheckFinal, QInv, Stage
<1>2. entry = <<n, At(n)>>
  <2>1. NRounds \in Rounds
    BY <1>1 DEF Rounds
  <2>2. FinalBits = WordBits(n)
    BY <2>1, Widths, WordWidths DEF FinalBits
  <2> QED
    BY <2>2 DEF At
<1>3. CASE lie = <<n, At(n)>>
  <2>1. Reject /\ UNCHANGED fair
    BY <1>1, <1>2, <1>3 DEF CheckFinal, GoalHolds, Held
  <2>2. ~WayClear(n)
    BY <1>1, <1>3 DEF WayClear
  <2> QED
    BY <1>1, <2>1, <2>2 DEF Reject, QInv, TypeOK, Opened, WayClear, Stage, At
<1>4. CASE lie # <<n, At(n)>>
  <2>1. pc' = "accepted" /\ UNCHANGED <<pos, lie, rows, round, goal, fair>>
    BY <1>1, <1>2, <1>4 DEF CheckFinal, GoalHolds, Held
  <2>2. WayClear(n)
    <3>1. \A s \in 1 .. n : s \in 1 .. round \/ s = n
      BY <1>1
    <3> QED
      BY <1>4, <3>1 DEF QInv, WayClear
  <2> QED
    BY <1>1, <2>1, <2>2 DEF QInv, TypeOK, Opened, WayClear, Stage, At
<1> QED
  BY <1>3, <1>4

LEMMA QInvariance == Spec => []QInv
<1>1. QInv /\ [Next]_vars => QInv'
  <2> SUFFICES ASSUME QInv, [Next]_vars PROVE QInv'
    OBVIOUS
  <2>1. CASE Open
    BY <2>1, OpenStep
  <2>2. CASE FoldRound
    BY <2>2, FoldStep
  <2>3. CASE CheckFinal
    BY <2>3, FinalStep
  <2>4. CASE UNCHANGED vars
    BY <2>4 DEF vars, QInv, TypeOK, Opened, WayClear, Stage, At
  <2> QED
    BY <2>1, <2>2, <2>3, <2>4 DEF Next
<1> QED
  BY InitQ, <1>1, PTL DEF Spec

\* What a query holds has its type whatever the widths are.
THEOREM TypeCorrect == Spec => []TypeOK
<1>1. QInv => TypeOK
  BY DEF QInv
<1> QED
  BY <1>1, QInvariance, PTL

\* merkle.go:43-50, fri.go:107-112: a query that is accepted was answered in every tree with
\* the row at its position and the tree's own path, and the entry of every word there is
\* right, for tables of every width and whatever a prover may open a row with.
THEOREM AcceptedIsClear == Spec => []CatchesLies
<1>1. QInv => CatchesLies
  <2> SUFFICES ASSUME QInv, pc = "accepted"
               PROVE  /\ fair /\ ~OnTheWay
                      /\ \A t \in Trees : rows[t + 1] = Honest(t, Visited(t + 1)).leaf
    BY DEF CatchesLies
  <2>1. \A r \in 1 .. NRounds + 1 : Visited(r) = At(r)
    BY VisitedIsAt DEF QInv, TypeOK
  <2>2. fair /\ ~OnTheWay
    BY <2>1 DEF QInv, Stage, WayClear, OnTheWay
  <2>3. ASSUME NEW t \in Trees
        PROVE  rows[t + 1] = Honest(t, Visited(t + 1)).leaf
    <3>1. t + 1 \in 1 .. NRounds + 1 /\ RowBits(t) = WordBits(t + 1)
      BY TreeWidths
    <3>2. rows[t + 1] = Leaf(WordBits(t + 1), At(t + 1))
      BY <3>1 DEF QInv, Opened, Stage
    <3> QED
      BY <2>1, <3>1, <3>2 DEF Honest
  <2> QED
    BY <2>2, <2>3
<1> QED
  BY <1>1, QInvariance, PTL

\* driver.go:127-132, fri.go:101-103: a query answered with the rows at its position and their
\* own paths is refused only over a false entry there, for tables of every width.
THEOREM RefusedIsFalse == Spec => []RefusesOnlyLies
<1>1. QInv => RefusesOnlyLies
  <2> SUFFICES ASSUME QInv, pc = "rejected", fair
               PROVE  OnTheWay
    BY DEF RefusesOnlyLies
  <2>1. \A r \in 1 .. NRounds + 1 : Visited(r) = At(r)
    BY VisitedIsAt DEF QInv, TypeOK
  <2> QED
    BY <2>1 DEF QInv, Stage, WayClear, OnTheWay
<1> QED
  BY <1>1, QInvariance, PTL
=============================================================================
