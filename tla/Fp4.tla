--------------------------------- MODULE Fp4 ---------------------------------
(***************************************************************************)
(* BabyBear and its extension of degree 4 as the circuit computes in them  *)
(* (go/field/babybear, go/hash/poseidon_bls/sponge.go), over a base field  *)
(* of P elements inside a native field of Native elements.  In the code    *)
(* P = 2^31 - 2^27 + 1, Cap = 2^31 and Native is the order of BLS12-381.   *)
(***************************************************************************)
EXTENDS Integers, Sequences

CONSTANTS
  P,            \* modulus of the base field
  Beta,         \* X^4 = -Beta in the extension
  Cap,          \* what the range checks decompose to: values below Cap
  Native,       \* modulus of the native field
  MaxQuotient,  \* bound on RandomElem's quotient (255)
  PerCell       \* elements packed into one cell of the hash (8)

ASSUME FieldAssumption ==
  /\ P \in Nat /\ Beta \in 1..P - 1 /\ Cap \in Nat /\ Native \in Nat /\ MaxQuotient \in Nat
  /\ 1 < P /\ P <= Cap /\ Cap + Cap <= Native
  /\ (MaxQuotient + 1) * P <= Native

\* As many elements as are packed into a cell fit there.
ASSUME PackAssumption ==
  /\ PerCell \in Nat \ {0}
  /\ LET span[i \in 0..PerCell] == IF i = 0 THEN 1 ELSE span[i - 1] * P
     IN  span[PerCell] <= Native

\* The modulus is prime: every element but zero has an inverse.
ASSUME InverseAssumption == \A c \in 1..P - 1 : \E i \in 0..P - 1 : (c * i) % P = 1

Base == 0..P - 1
E4 == [1..4 -> Base]

E4Zero == <<0, 0, 0, 0>>
E4One == <<1, 0, 0, 0>>
E4From(x) == <<x, 0, 0, 0>>

E4Add(a, b) == [i \in 1..4 |-> (a[i] + b[i]) % P]
E4Sub(a, b) == [i \in 1..4 |-> (a[i] - b[i]) % P]
E4ScalarMul(a, s) == [i \in 1..4 |-> (a[i] * s) % P]

\* The product over X^4 = n.
Product(a, b, n) ==
  << (a[1] * b[1] + n * (a[2] * b[4] + a[3] * b[3] + a[4] * b[2])) % P,
     (a[1] * b[2] + a[2] * b[1] + n * (a[3] * b[4] + a[4] * b[3])) % P,
     (a[1] * b[3] + a[2] * b[2] + a[3] * b[1] + n * (a[4] * b[4])) % P,
     (a[1] * b[4] + a[2] * b[3] + a[3] * b[2] + a[4] * b[1]) % P >>

E4Mul(a, b) == Product(a, b, P - Beta)

ModInverse(c) == IF c = 0 THEN 0 ELSE CHOOSE i \in Base : (c * i) % P = 1

\* The inverse as the hint computes it: the norm to the field of X^2, then to the base field.
InvHint(a) ==
  LET b0 == (a[1] * a[1] + Beta * (2 * a[2] * a[4] - a[3] * a[3])) % P
      b2 == (2 * a[1] * a[3] - a[2] * a[2] + Beta * (a[4] * a[4])) % P
      ic == ModInverse((b0 * b0 + Beta * ((b2 * b2) % P)) % P)
      c0 == (b0 * ic) % P
      c2 == (b2 * ic) % P
  IN  << (a[1] * c0 + Beta * ((a[3] * c2) % P)) % P,
         ((P - Beta) * ((a[4] * c2) % P) - a[2] * c0) % P,
         (a[3] * c0 - a[1] * c2) % P,
         (a[2] * c2 - a[4] * c0) % P >>

\* E4Inv asserts the product: with no inverse the circuit has no satisfying assignment.
Invertible(a) == E4Mul(a, InvHint(a)) = E4One

\* A polynomial at a point, with the power of the point carried along.
PolyEval(coeffs, x) ==
  LET run[i \in 0..Len(coeffs)] ==
        IF i = 0 THEN [mulX |-> E4One, tot |-> E4Zero]
        ELSE [mulX |-> E4Mul(run[i - 1].mulX, x),
              tot |-> E4Add(run[i - 1].tot, E4Mul(coeffs[i], run[i - 1].mulX))]
  IN  run[Len(coeffs)].tot

-----------------------------------------------------------------------------
\* What a decomposition into bits asserts of a native value.
FitsBits(v) == v \in 0..Cap - 1

NativeSub(a, b) == (a - b) % Native

\* (Mutant of AssertCanonical: the second decomposition is left out.)
AssertOneDecomposition(v) == FitsBits(v)

\* v and P - 1 - v both decompose.
AssertCanonical(v) == FitsBits(v) /\ FitsBits(NativeSub(P - 1, v))

\* (Mutant of RandomElem: the quotient is not checked.)
RandomElemAnyQuotient(sum) ==
  {r \in 0..P - 1 : \E q \in 0..Native - 1 : (q * P + r) % Native = sum % Native}

\* The remainders the circuit accepts for a squeezed sum; the hint's quotient and remainder are
\* the prover's.
RandomElem(sum) ==
  {r \in 0..P - 1 : \E q \in 0..MaxQuotient : (q * P + r) % Native = sum % Native}

\* The hash of a slice: elements are packed in base P into cells, and two cells at a time (the last
\* ones as full as they are) are permuted into the capacity.  The permutation is taken to lose
\* nothing, so that the hash is the sequence of what was permuted into it.
Cell(elems, c) ==
  LET sum[k \in 0..PerCell] ==
        IF k = 0 THEN 0
        ELSE LET i == PerCell * c - k + 1
             IN  (sum[k - 1] * P + (IF i \in DOMAIN elems THEN elems[i] ELSE 0)) % Native
  IN  sum[PerCell]
Blocks(elems) == (Len(elems) + 2 * PerCell - 1) \div (2 * PerCell)
HashElemSlice(elems) == [b \in 1..Blocks(elems) |-> <<Cell(elems, 2 * b - 1), Cell(elems, 2 * b)>>]
=============================================================================
