------------------------------- MODULE FriFold -------------------------------
(***************************************************************************)
(* The arithmetic of a FRI query (go/stark/fri.go): the leaves of the      *)
(* rounds, the inverse transform that folds one, and the final polynomial. *)
(* Which row of which tree the bits of a position select, and how it is    *)
(* opened, is module FriQuery.                                             *)
(***************************************************************************)
EXTENDS Fp4

CONSTANTS
  Po2,       \* 2^Po2 cycles (18)
  Gen,       \* generator of the domain the first round works over
  Fold,      \* points folded into one (16)
  Rounds     \* rounds (3)

InvRate == 4
Cycles == 2^Po2
DomainSize == InvRate * Cycles

\* The domain has generators in the base field.
ASSUME DomainAssumption ==
  /\ Cycles \in Nat \ {0} /\ DomainSize < P
  /\ Gen \in Base /\ Fold \in Nat \ {0}

Power(b, n) == LET pow[i \in 0..n] == IF i = 0 THEN 1 ELSE (pow[i - 1] * b) % P IN pow[n]

\* The domain of round r, and after the last round that of the final polynomial.
RoundDomain(r) == LET size[i \in 1..r] == IF i = 1 THEN DomainSize ELSE size[i - 1] \div Fold
                  IN  size[r]
FinalDegree == RoundDomain(Rounds + 1) \div InvRate

\* Generators of the domains, and their inverses.
Rou(size) == Power(Gen, DomainSize \div size)
RouRev(size) == ModInverse(Rou(size))

\* Limbs of one kind lie side by side.
Planes(flat, n) == [i \in 1..n |-> <<flat[i], flat[n + i], flat[2 * n + i], flat[3 * n + i]>>]
ReshapeLeaf(leaf) == Planes(leaf, Fold)
FinalPoly(coeffs) == Planes(coeffs, FinalDegree)

FriTwiddle(k, i) == (ModInverse(Fold) * Power(RouRev(Fold), (k * i) % Fold)) % P

\* (Mutant of FoldDataExt: the point is not moved to the coset of the group.)
FoldDataExtAtMix(data, group, mix, root) ==
  LET acc(i) == LET sum[k \in 0..Fold] ==
                      IF k = 0 THEN E4Zero
                      ELSE E4Add(sum[k - 1], E4ScalarMul(data[k], FriTwiddle(k - 1, i)))
                IN  sum[Fold]
  IN  PolyEval([i \in 1..Fold |-> acc(i - 1)], mix)

\* The inverse transform of the points of a group, at the round's mix.
FoldDataExt(data, group, mix, root) ==
  LET acc(i) == LET sum[k \in 0..Fold] ==
                      IF k = 0 THEN E4Zero
                      ELSE E4Add(sum[k - 1], E4ScalarMul(data[k], FriTwiddle(k - 1, i)))
                IN  sum[Fold]
  IN  PolyEval([i \in 1..Fold |-> acc(i - 1)], E4ScalarMul(mix, Power(root, group)))

\* One query: leaves[r] is what the tree of round r holds for the group of the position.
VerifyFRIQuery(pos, goal0, leaves, mixes, finalCoeffs) ==
  LET round[r \in 0..Rounds] ==
        IF r = 0 THEN [ok |-> TRUE, goal |-> goal0]
        ELSE LET groups == RoundDomain(r + 1)
                 data == ReshapeLeaf(leaves[r])
             IN  [ok |-> round[r - 1].ok /\ data[((pos \div groups) % Fold) + 1] = round[r - 1].goal,
                  goal |-> FoldDataExt(data, pos % groups, mixes[r], RouRev(RoundDomain(r)))]
      last == RoundDomain(Rounds + 1)
  IN  /\ round[Rounds].ok
      /\ PolyEval(FinalPoly(finalCoeffs), E4From(Power(Rou(last), pos % last))) = round[Rounds].goal
=============================================================================
