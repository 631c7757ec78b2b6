------------------------------- MODULE DeepAli -------------------------------
(***************************************************************************)
(* The DEEP-ALI part of the verifier, with its arithmetic: the validity    *)
(* check (go/stark/deep_evalu.go, deep_polyext.go, deep_check.go) and the  *)
(* value a query hands to FRI (deep_frieval.go), against a prover that     *)
(* commits to columns, a quotient and evaluations of its choice.           *)
(*                                                                         *)
(* Everything has the shape of the code and none of its size: a small      *)
(* field, Cycles cycles, a handful of registers, and a step program of     *)
(* some thirty operations.  Columns are polynomials of degree below        *)
(* Cycles, committed before the challenges are drawn; a query opens them   *)
(* faithfully (modules Receipt, FriQuery), and FRI's own words are of the  *)
(* prover's choice again.                                                  *)
(***************************************************************************)
EXTENDS FriFold

CONSTANTS
  Regs,       \* taps.json: registers, each [group, offset, combo, backs]
  ComboBegin, \* taps.json: where the backs of each combo begin in ComboTaps
  ComboTaps,
  Block,      \* polyext_def.json: the step program
  Rets,       \* what the table may give as its result register
  BackOne,    \* inverse of the generator of the cycles
  Traces,     \* traces the prover may commit to: for each register its values over the cycles
  AccumReg,   \* the register that is filled after the accumulator's mix is drawn
  AccumTraces(_), \* what it may be filled with, given the mix
  GlobalsOut, \* the public outputs
  Sums        \* what the transcript squeezes, one sum for each element drawn

\* A sum of weighted bits is less than 160 p.
ASSUME DeepAssumption ==
  /\ Rounds \in Nat
  /\ Regs \in Seq([group : Nat, offset : Nat, combo : Nat, backs : Seq(Nat)])
  /\ Sums \in [1..13 + 4 * Rounds -> 0..(MaxQuotient + 1) * P - 1]

VARIABLES
  pc,     \* the next step of the driver
  ret,    \* the result register of the extracted table
  cols,   \* the columns of each group: the coefficients of a polynomial for each offset
  check,  \* the committed columns of the check group, likewise
  drawn,  \* the elements drawn so far
  words,  \* the words of the U coefficients in the seal
  digest, \* their hash, which the transcript absorbs
  evalU,  \* the evaluations of the taps
  fp,     \* the value registers of the step program
  mix,    \* its mix registers
  combo,  \* the mixed U polynomials, and the powers of the mix they were made with
  fri,    \* the words committed in the FRI rounds, and the number of rounds begun
  round,
  final,  \* the words of the final coefficients
  asked   \* the positions asked for so far

vars == <<pc, ret, cols, check, drawn, words, digest, evalU, fp, mix, combo, fri, round, final, asked>>

CheckSize == 16
Domain == 0..DomainSize - 1
Size(r) == Len(Regs[r].backs)
\* A register is a column of one of the three groups.
Column(r) == <<Regs[r].group, Regs[r].offset>>

\* Where the coefficients of register r begin.
CurPos(r) == LET pos[i \in 1..Len(Regs) + 1] == IF i = 1 THEN 0 ELSE pos[i - 1] + Size(i - 1)
             IN  pos[r]
TapSize == CurPos(Len(Regs) + 1)

E4Power(b, n) == LET pow[i \in 0..n] == IF i = 0 THEN E4One ELSE E4Mul(pow[i - 1], b) IN pow[n]

\* The challenges, in the order they are drawn.
AccumMix == drawn[1]
PolyMix == SubSeq(drawn, 2, 5)
Z == SubSeq(drawn, 6, 9)
FriMix == SubSeq(drawn, 10, 13)
RoundMixes == [r \in 1..Rounds |-> SubSeq(drawn, 10 + 4 * r, 13 + 4 * r)]

-----------------------------------------------------------------------------
\* What the code computes.

\* CoeffUFromUCoeffs: four words a coefficient.
CoeffU == [k \in 1..TapSize + CheckSize |-> SubSeq(words, 4 * k - 3, 4 * k)]

\* EvalU: each register's coefficients at each of its points z * back_one^back.
EvalRegs(coeffU, n) ==
  LET eval[r \in 0..n] ==
        IF r = 0 THEN <<>>
        ELSE eval[r - 1] \o
             [i \in 1..Size(r) |-> PolyEval(SubSeq(coeffU, CurPos(r) + 1, CurPos(r) + Size(r)),
                                            E4ScalarMul(Z, Power(BackOne, Regs[r].backs[i])))]
  IN  eval[n]
EvalU == EvalRegs(CoeffU, Len(Regs))

\* Constants are folded outside the circuit, by kAdd, kSub and kMul.
Konst(e) == [isConst |-> TRUE, e |-> e]
Value(e) == [isConst |-> FALSE, e |-> e]
\* (Mutant of KMul: the product of constants is not reduced modulo p.)
KMulUnreduced(a, b) == [Product(a, b, P - Beta) EXCEPT ![1] = a[1] * b[1] - Beta * (a[3] * b[3])]
KMul(a, b) == Product(a, b, P - Beta)
FpAdd(a, b) == [isConst |-> a.isConst /\ b.isConst, e |-> E4Add(a.e, b.e)]
FpSub(a, b) == [isConst |-> a.isConst /\ b.isConst, e |-> E4Sub(a.e, b.e)]
FpMul(a, b) == IF a.isConst /\ b.isConst THEN Konst(KMul(a.e, b.e)) ELSE Value(E4Mul(a.e, b.e))

\* The check polynomial at z from its sixteen parts: of part i and basis element j, the columns
\* are stored with i in bit-reversed order; times the polynomial that vanishes on the cycles.
CheckAt(coeffU, remap) ==
  LET basis == <<E4One, <<0, 1, 0, 0>>, <<0, 0, 1, 0>>, <<0, 0, 0, 1>> >>
      inner[i \in 1..4, j \in 0..4] ==
        IF j = 0 THEN E4Zero
        ELSE E4Add(inner[i, j - 1],
                   E4Mul(coeffU[TapSize + 1 + remap[i] + 4 * (j - 1)], basis[j]))
      square[k \in 0..Po2] ==
        IF k = 0 THEN E4ScalarMul(Z, 3) ELSE E4Mul(square[k - 1], square[k - 1])
  IN  E4Mul(PolyEval([i \in 1..4 |-> inner[i, 4]], Z), E4Sub(square[Po2], E4One))

\* (Mutant of ComputeCheckFrom: the parts are taken in their natural order.)
ComputeCheckInOrder(coeffU) == CheckAt(coeffU, <<0, 1, 2, 3>>)
ComputeCheckFrom(coeffU) == CheckAt(coeffU, <<0, 2, 1, 3>>)

\* ComboU: registers with the same backs are mixed into one polynomial, the check group into
\* one number.
Combos == Len(ComboBegin) - 1
SameCombo(c) == {r \in DOMAIN Regs : Regs[r].combo = c}
ComboU ==
  LET pows == <<>> \o [k \in 1..Len(Regs) + CheckSize |-> E4Power(FriMix, k - 1)]
      coeffs(c, i) ==
        LET sum[r \in 0..Len(Regs)] ==
              IF r = 0 THEN E4Zero
              ELSE IF r \notin SameCombo(c) THEN sum[r - 1]
              ELSE E4Add(sum[r - 1], E4Mul(pows[r], CoeffU[CurPos(r) + i]))
        IN  sum[Len(Regs)]
      checkSum[k \in 0..CheckSize] ==
        IF k = 0 THEN E4Zero
        ELSE E4Add(checkSum[k - 1], E4Mul(pows[Len(Regs) + k], CoeffU[TapSize + k]))
  IN  [u |-> [c \in 1..Combos |-> [i \in 1..ComboBegin[c + 1] - ComboBegin[c] |-> coeffs(c, i)]],
       check |-> checkSum[CheckSize],
       pows |-> pows]

\* The row the trees hold at x.
BaseEval(coeffs, x) ==
  LET tot[k \in 0..Len(coeffs)] ==
        IF k = 0 THEN 0 ELSE (tot[k - 1] * x + coeffs[Len(coeffs) + 1 - k]) % P
  IN  tot[Len(coeffs)]

\* The mixed row entries of a combo and of the check group, and their denominators: a combo's
\* vanishes at the points of its backs, the check group's at z^4.
TapTotal(c, x) ==
  LET tot[r \in 0..Len(Regs)] ==
        IF r = 0 THEN E4Zero
        ELSE IF r \notin SameCombo(c) THEN tot[r - 1]
        ELSE E4Add(tot[r - 1], E4ScalarMul(combo.pows[r], BaseEval(cols[Column(r)], x)))
  IN  tot[Len(Regs)]
CheckTotal(x) ==
  LET tot[k \in 0..CheckSize] ==
        IF k = 0 THEN E4Zero
        ELSE E4Add(tot[k - 1], E4ScalarMul(combo.pows[Len(Regs) + k], BaseEval(check[k], x)))
  IN  tot[CheckSize]
Divisor(c, x) ==
  LET backs == SubSeq(ComboTaps, ComboBegin[c] + 1, ComboBegin[c + 1])
      div[i \in 0..Len(backs)] ==
        IF i = 0 THEN E4One
        ELSE E4Mul(div[i - 1], E4Sub(E4From(x), E4ScalarMul(Z, Power(BackOne, backs[i]))))
  IN  div[Len(backs)]
CheckDivisor(x) == E4Sub(E4From(x), E4Power(Z, 4))

\* Each combo's row entries minus its U polynomial, over its denominator.
TapsPart(x) ==
  LET sum[c \in 0..Combos] ==
        IF c = 0 THEN E4Zero
        ELSE E4Add(sum[c - 1], E4Mul(E4Sub(TapTotal(c, x), PolyEval(combo.u[c], E4From(x))),
                                     InvHint(Divisor(c, x))))
  IN  sum[Combos]

\* (Mutant of FriEvalTaps: the check group is left out.)
FriEvalTapsOnly(x) == TapsPart(x)
FriEvalTaps(x) == E4Add(TapsPart(x), E4Mul(E4Sub(CheckTotal(x), combo.check), InvHint(CheckDivisor(x))))
Divides(x) == (\A c \in 1..Combos : Invertible(Divisor(c, x))) /\ Invertible(CheckDivisor(x))

DeepQueryX(pos) == Power(Gen, pos)

-----------------------------------------------------------------------------
\* The same mathematics by definition: multiplication of polynomials, and the step program as
\* the list of the expressions that have to vanish.
RefMul(a, b) ==
  LET at(m, i) == IF m - i \in 1..4 THEN a[i] * b[m - i] ELSE 0
      conv(m) == at(m, 1) + at(m, 2) + at(m, 3) + at(m, 4)
  IN  [m \in 1..4 |-> (conv(m + 1) - Beta * conv(m + 5)) % P]

\* One step: a new register, or a new list of what has to be zero.
Meaning(st, s, taps, acc) ==
  LET new(e) == [s EXCEPT !.fp = Append(@, e)]
      assert(t) == [s EXCEPT !.terms = Append(@, t)]
      x(i) == s.fp[st[i] + 1]
      t(i) == s.terms[st[i] + 1]
  IN  CASE st[1] = "Const" -> new(E4From(st[2]))
        [] st[1] = "ConstExt" -> new(Tail(st))
        [] st[1] = "Get" -> new(taps[st[2] + 1])
        [] st[1] = "GetGlobal" -> new(E4From(IF st[2] = 0 THEN GlobalsOut[st[3] + 1] ELSE acc))
        [] st[1] = "Add" -> new(E4Add(x(2), x(3)))
        [] st[1] = "Sub" -> new(E4Sub(x(2), x(3)))
        [] st[1] = "Mul" -> new(RefMul(x(2), x(3)))
        [] st[1] = "True" -> assert(<<>>)
        [] st[1] = "AndEqz" -> assert(Append(t(2), x(3)))
        [] st[1] = "AndCond" -> assert(t(2) \o [i \in 1..Len(t(4)) |-> RefMul(x(3), t(4)[i])])

\* The registers after n steps, with what each mix register asserts to be zero.
Reference(n, taps, acc) ==
  LET run[k \in 0..n] == IF k = 0 THEN [fp |-> <<>>, terms |-> <<>>]
                         ELSE Meaning(Block[k], run[k - 1], taps, acc)
  IN  run[n]

\* The terms, mixed by the powers of m.
Mixed(terms, m) ==
  LET sum[i \in 0..Len(terms)] ==
        IF i = 0 THEN E4Zero
        ELSE E4Add(RefMul(sum[i - 1], m), terms[Len(terms) + 1 - i])
  IN  sum[Len(terms)]

MixOps == {"True", "AndEqz", "AndCond"}

\* How many value registers are filled after n steps.
Filled[n \in 0..Len(Block)] ==
  IF n = 0 THEN 0 ELSE IF Block[n][1] \in MixOps THEN Filled[n - 1] ELSE Filled[n - 1] + 1

\* The last mix register of the block: the steps that fill no value register fill one.
LastMix == Len(Block) - Filled[Len(Block)] - 1

\* A step whose operands are reduced constants, taps, globals, or registers filled before it.
Formed(st, v, m) ==
  \/ st[1] = "Const" /\ st[2] \in Base
  \/ st[1] = "ConstExt" /\ Tail(st) \in E4
  \/ st[1] = "Get" /\ st[2] + 1 \in 1..TapSize
  \/ st[1] = "GetGlobal" /\ (st[2] = 0 => st[3] + 1 \in DOMAIN GlobalsOut)
  \/ st[1] \in {"Add", "Sub", "Mul"} /\ st[2] \in 0..v - 1 /\ st[3] \in 0..v - 1
  \/ st[1] = "True"
  \/ st[1] = "AndEqz" /\ st[2] \in 0..m - 1 /\ st[3] \in 0..v - 1
  \/ st[1] = "AndCond" /\ st[2] \in 0..m - 1 /\ st[3] \in 0..v - 1 /\ st[4] \in 0..m - 1

\* The table is as the dumper writes it: PolyExt does not look at its operands, an index that is
\* not there stops it.
ASSUME BlockAssumption ==
  /\ BackOne \in Base /\ GlobalsOut \in Seq(Base)
  /\ Len(Block) \in Nat /\ LastMix \in Nat /\ Rets \in SUBSET Nat
  /\ \A n \in 1..Len(Block) : Formed(Block[n], Filled[n - 1], (n - 1) - Filled[n - 1])

\* The registers of a combo have its backs.
ASSUME CombosAssumption ==
  /\ ComboBegin \in Seq(Nat) /\ ComboTaps \in Seq(Nat) /\ Combos \in Nat
  /\ \A c \in 1..Combos : /\ ComboBegin[c] <= ComboBegin[c + 1]
                          /\ ComboBegin[c + 1] <= Len(ComboTaps)
                          /\ \A r \in SameCombo(c) :
                               Regs[r].backs = SubSeq(ComboTaps, ComboBegin[c] + 1, ComboBegin[c + 1])

\* Traces are of elements.
ASSUME TracesAssumption ==
  /\ \A t \in Traces : t \in [1..Len(Regs) -> [1..Cycles -> Base]]
  /\ \A m \in Base : \A t \in AccumTraces(m) : t \in [1..Cycles -> Base]

\* What the block asserts of a row of taps: all that its last mix register has.
Asserted(taps) == LET terms == Reference(Len(Block), taps, AccumMix).terms IN terms[Len(terms)]

\* The taps of the committed columns at a point of the base field.
TapsAt(x) == <<>> \o
  LET taps[r \in 0..Len(Regs)] ==
        IF r = 0 THEN <<>>
        ELSE taps[r - 1] \o
             [i \in 1..Size(r) |->
                E4From(BaseEval(cols[Column(r)], (x * Power(BackOne, Regs[r].backs[i])) % P))]
  IN  taps[Len(Regs)]

\* The columns live over the cycles scaled by 1/3.
CyclePoint(i) == (ModInverse(3) * Power(ModInverse(BackOne), i)) % P
Satisfied == \A i \in 0..Cycles - 1 :
               \A k \in DOMAIN Asserted(TapsAt(CyclePoint(i))) :
                 Asserted(TapsAt(CyclePoint(i)))[k] = E4Zero

-----------------------------------------------------------------------------
\* What an honest prover does, and what another one may do instead.

\* A trace as a polynomial over the scaled cycles.
Interpolate(t) ==
  [k \in 1..Cycles |->
     LET sum[i \in 0..Cycles] ==
           IF i = 0 THEN 0
           ELSE (sum[i - 1] + t[i] * Power(BackOne, (i - 1) * (k - 1))) % P
     IN  (((sum[Cycles] * Power(3, k - 1)) % P) * ModInverse(Cycles)) % P]

\* A trace, register by register, as the columns of the groups.
Committed(t) ==
  [c \in {Column(r) : r \in DOMAIN Regs} |->
     Interpolate(t[CHOOSE r \in DOMAIN Regs : Column(r) = c])]

\* The polynomial that takes values at the powers of a generator, and back.
Transform(values, m) ==
  LET g == Power(RouRev(Len(values)), m)
      sum[i \in 0..Len(values)] ==
        IF i = 0 THEN E4Zero
        ELSE E4Add(E4ScalarMul(sum[i - 1], g), values[Len(values) + 1 - i])
  IN  sum[Len(values)]

Coeffs(values) ==
  <<>> \o [m \in DOMAIN values |-> E4ScalarMul(Transform(values, m - 1), ModInverse(Len(values)))]
Values(coeffs, n) == <<>> \o [i \in 1..n |-> PolyEval(coeffs, E4From(Power(Rou(n), i - 1)))]

\* The columns of the check group: the mixed assertions over the domain, divided by the
\* polynomial that vanishes on the cycles, split by the residue of the exponent modulo 4.
Quotient ==
  LET n == DomainSize
      value(x) == E4ScalarMul(Mixed(Asserted(TapsAt(x)), PolyMix),
                              ModInverse((Power((3 * x) % P, Cycles) - 1) % P))
      values == <<>> \o [i \in 1..n |-> value(Power(Gen, i - 1))]
      coeffs == Coeffs(values)
      remap == <<0, 2, 1, 3>>
      column(k) == LET i == CHOOSE i \in 1..4 : remap[i] = (k - 1) % 4
                       j == ((k - 1) \div 4) + 1
                   IN  [e \in 1..Cycles |-> coeffs[i + 4 * (e - 1)][j]]
  IN  [k \in 1..CheckSize |-> column(k)]

Extended(coeffs) == [k \in 1..Len(coeffs) |-> E4From(coeffs[k])]

\* The U coefficients of what was committed: of each register the polynomial through its values
\* at its points (registers here have one back or two), of the check group the values at z^4.
HonestU ==
  LET pt(r, i) == E4ScalarMul(Z, Power(BackOne, Regs[r].backs[i]))
      at(r, i) == PolyEval(Extended(cols[Column(r)]), pt(r, i))
      slope(r) == E4Mul(E4Sub(at(r, 2), at(r, 1)), InvHint(E4Sub(pt(r, 2), pt(r, 1))))
      reg(r) == IF Size(r) = 1 THEN <<at(r, 1)>>
                ELSE <<E4Sub(at(r, 1), E4Mul(slope(r), pt(r, 1))), slope(r)>>
      taps[r \in 0..Len(Regs)] == IF r = 0 THEN <<>> ELSE taps[r - 1] \o reg(r)
  IN  taps[Len(Regs)] \o [k \in 1..CheckSize |-> PolyEval(Extended(check[k]), E4Power(Z, 4))]

\* The words of the coefficients: the circuit has an array for so many.
NUCoeffs == 4 * (TapSize + CheckSize)
Words(u) == [w \in 1..NUCoeffs |-> u[((w - 1) \div 4) + 1][((w - 1) % 4) + 1]]

\* One coefficient changed.
Bumped(u, k) == [u EXCEPT ![k] = E4Add(@, E4One)]

\* A check coefficient chosen so that the validity equation holds.
Adjusted(u) ==
  LET taps == <<>> \o EvalRegs(u, Len(Regs))
      result == Mixed(Asserted(taps), PolyMix)
      factor == E4Sub(E4Power(E4ScalarMul(Z, 3), Cycles), E4One)
      off == E4Mul(E4Sub(result, ComputeCheckFrom(u)), InvHint(factor))
  IN  [u EXCEPT ![TapSize + 1] = E4Add(@, off)]

UChoices ==
  LET u == <<>> \o HonestU
      w == <<>> \o Words(u)
      us == {u} \cup {Bumped(u, k) : k \in 1..TapSize}
  IN  {Words(v) : v \in us \cup {Adjusted(v) : v \in us}}
        \cup {[w EXCEPT ![i] = @ + P] : i \in {i \in DOMAIN w : w[i] + P < Cap}}
        \cup {[w EXCEPT ![1] = Native - 1]}

\* The word of the first round: what the queries will ask for, or the one of low degree
\* that agrees with it at every fourth position.
Goals == <<>> \o [i \in 1..DomainSize |-> FriEvalTaps(DeepQueryX(i - 1))]
LowDegree(word) ==
  Values(Coeffs(<<>> \o [k \in 1..Cycles |-> word[InvRate * (k - 1) + 1]]), DomainSize)

\* A fold by definition: the coefficients by the residue of their exponents, mixed.
Folded(word, m) ==
  LET c == Coeffs(word)
  IN  <<>> \o [k \in 1..Len(c) \div Fold |-> PolyEval(SubSeq(c, Fold * (k - 1) + 1, Fold * k), m)]

FriWords ==
  IF round = 0 THEN {Goals, LowDegree(Goals)}
  ELSE {Values(Folded(fri[round], RoundMixes[round]), RoundDomain(round + 1))}

\* Limb by limb, as risc0 lays out extension elements.
ByLimb(points) ==
  LET n == Len(points)
  IN  [j \in 1..4 * n |-> points[((j - 1) % n) + 1][((j - 1) \div n) + 1]]

\* Row g of the tree of round r: the points of a group.
Leaf(r, g) == ByLimb(<<>> \o [k \in 1..Fold |-> fri[r][g + (k - 1) * RoundDomain(r + 1) + 1]])

\* The words of the first coefficients of the last fold.
FinalWords == ByLimb(SubSeq(Folded(fri[Rounds], RoundMixes[Rounds]), 1, FinalDegree))

-----------------------------------------------------------------------------
Init ==
  /\ pc = "accumMix"
  /\ ret \in Rets
  /\ \E t \in Traces : cols = Committed(t)
  /\ check = <<>> /\ drawn = <<>> /\ words = <<>> /\ digest = <<>> /\ evalU = <<>>
  /\ fp = <<>> /\ mix = <<>> /\ combo = <<>>
  /\ fri = <<>> /\ round = 0 /\ final = <<>> /\ asked = 0

\* An element is squeezed; after the last of a challenge the driver goes on.
Draw ==
  /\ pc \in {"accumMix", "polyMix", "z", "friMix", "mix"}
  /\ \E e \in RandomElem(Sums[Len(drawn) + 1]) : drawn' = Append(drawn, e)
  /\ pc' = CASE Len(drawn) + 1 = 1 -> "accum"
             [] Len(drawn) + 1 = 5 -> "check"
             [] Len(drawn) + 1 = 9 -> "u"
             [] Len(drawn) + 1 = 13 -> "combo"
             [] pc = "mix" /\ Len(drawn) + 1 = 13 + 4 * round -> "fri"
             [] OTHER -> pc
  /\ UNCHANGED <<ret, cols, check, words, digest, evalU, fp, mix, combo, fri, round, final, asked>>

CommitAccum ==
  /\ pc = "accum" /\ pc' = "polyMix"
  /\ \E t \in AccumTraces(AccumMix) : cols' = [cols EXCEPT ![Column(AccumReg)] = Interpolate(t)]
  /\ UNCHANGED <<ret, check, drawn, words, digest, evalU, fp, mix, combo, fri, round, final, asked>>

CommitCheck ==
  /\ pc = "check" /\ pc' = "z"
  /\ check' \in {Quotient, [k \in 1..CheckSize |-> [e \in 1..Cycles |-> 0]]}
  /\ UNCHANGED <<ret, cols, drawn, words, digest, evalU, fp, mix, combo, fri, round, final, asked>>

SendU ==
  /\ pc = "u" /\ pc' = "ingest"
  /\ words' \in UChoices /\ digest' = HashElemSlice(words')
  /\ UNCHANGED <<ret, cols, check, drawn, evalU, fp, mix, combo, fri, round, final, asked>>

\* IngestElem on every word, then EvalU.
Ingest ==
  /\ pc = "ingest"
  /\ IF \A i \in DOMAIN words : AssertCanonical(words[i])
     THEN pc' = "program" /\ evalU' = EvalU
     ELSE pc' = "rejected" /\ UNCHANGED evalU
  /\ UNCHANGED <<ret, cols, check, drawn, words, digest, fp, mix, combo, fri, round, final, asked>>

\* PolyExt: one step of the block.
Next1 == Block[Len(fp) + Len(mix) + 1]
Running == pc = "program" /\ Len(fp) + Len(mix) < Len(Block)
Push(v) == fp' = Append(fp, v) /\ UNCHANGED mix
PushMix(tot, mul) == mix' = Append(mix, [tot |-> tot, mul |-> mul]) /\ UNCHANGED fp

Load == LET st == Next1 IN
  \/ st[1] = "Const" /\ Push(Konst(E4From(st[2])))
  \/ st[1] = "ConstExt" /\ Push(Konst(Tail(st)))
  \/ st[1] = "Get" /\ Push(Value(evalU[st[2] + 1]))
  \/ st[1] = "GetGlobal" /\ Push(Value(E4From(IF st[2] = 0 THEN GlobalsOut[st[3] + 1] ELSE AccumMix)))

Compute == LET st == Next1 IN
  \/ st[1] = "Add" /\ Push(FpAdd(fp[st[2] + 1], fp[st[3] + 1]))
  \/ st[1] = "Sub" /\ Push(FpSub(fp[st[2] + 1], fp[st[3] + 1]))
  \/ st[1] = "Mul" /\ Push(FpMul(fp[st[2] + 1], fp[st[3] + 1]))

\* (Mutant of Chain: a conditional block moves on by one power, whatever it asserts.)
ChainByOne == LET st == Next1
                  ch == mix[st[2] + 1]
              IN
  \/ st[1] = "True" /\ PushMix(Konst(E4Zero), Konst(E4One))
  \/ /\ st[1] = "AndEqz"
     /\ PushMix(FpAdd(ch.tot, FpMul(ch.mul, fp[st[3] + 1])), FpMul(ch.mul, Value(PolyMix)))
  \/ /\ st[1] = "AndCond"
     /\ PushMix(FpAdd(ch.tot, FpMul(FpMul(fp[st[3] + 1], mix[st[4] + 1].tot), ch.mul)),
                FpMul(ch.mul, Value(PolyMix)))

\* True, AndEqz and AndCond: the assertions, and the power the next one gets.
Chain == LET st == Next1
             ch == mix[st[2] + 1]
         IN
  \/ st[1] = "True" /\ PushMix(Konst(E4Zero), Konst(E4One))
  \/ /\ st[1] = "AndEqz"
     /\ PushMix(FpAdd(ch.tot, FpMul(ch.mul, fp[st[3] + 1])), FpMul(ch.mul, Value(PolyMix)))
  \/ /\ st[1] = "AndCond"
     /\ LET inner == mix[st[4] + 1]
        IN  PushMix(FpAdd(ch.tot, FpMul(FpMul(fp[st[3] + 1], inner.tot), ch.mul)),
                    FpMul(ch.mul, inner.mul))

Step == /\ Running
        /\ Load \/ Compute \/ Chain
        /\ UNCHANGED <<pc, ret, cols, check, drawn, words, digest, evalU, combo, fri, round, final, asked>>

SizesOK == Len(mix) = ret + 1 /\ Len(fp) = Len(Block) - (ret + 1)

\* (Mutant of Validity: the equation is computed and not asserted.)
ValidityUnasserted ==
  /\ pc = "program" /\ ~Running
  /\ pc' = IF SizesOK THEN "friMix" ELSE "panic"
  /\ UNCHANGED <<ret, cols, check, drawn, words, digest, evalU, fp, mix, combo, fri, round, final, asked>>

\* The end of PolyExt, ComputeCheck and the equation.
Validity ==
  /\ pc = "program" /\ ~Running
  /\ pc' = IF ~SizesOK THEN "panic"
           ELSE IF mix[ret + 1].tot.e = ComputeCheckFrom(CoeffU) THEN "friMix" ELSE "rejected"
  /\ UNCHANGED <<ret, cols, check, drawn, words, digest, evalU, fp, mix, combo, fri, round, final, asked>>

MixU == /\ pc = "combo" /\ pc' = "fri"
        /\ combo' = ComboU
        /\ UNCHANGED <<ret, cols, check, drawn, words, digest, evalU, fp, mix, fri, round, final, asked>>

\* The driver's loop over the rounds, and the final coefficients.
CommitFri ==
  /\ pc = "fri" /\ round < Rounds
  /\ \E w \in FriWords : fri' = Append(fri, w)
  /\ round' = round + 1 /\ pc' = "mix"
  /\ UNCHANGED <<ret, cols, check, drawn, words, digest, evalU, fp, mix, combo, final, asked>>

SendFinal ==
  /\ pc = "fri" /\ round = Rounds
  /\ final' = FinalWords /\ pc' = "query"
  /\ UNCHANGED <<ret, cols, check, drawn, words, digest, evalU, fp, mix, combo, fri, round, asked>>

\* A query, with the rows of its groups: here every position is asked for once.
Query ==
  /\ pc = "query" /\ asked \in Domain
  /\ LET x == DeepQueryX(asked)
         leaves == [r \in 1..Rounds |-> Leaf(r, asked % RoundDomain(r + 1))]
     IN  IF Divides(x) /\ VerifyFRIQuery(asked, FriEvalTaps(x), leaves, RoundMixes, final)
         THEN asked' = asked + 1 /\ pc' = IF asked + 1 \in Domain THEN pc ELSE "accepted"
         ELSE pc' = "rejected" /\ UNCHANGED asked
  /\ UNCHANGED <<ret, cols, check, drawn, words, digest, evalU, fp, mix, combo, fri, round, final>>

Next == \/ Draw \/ CommitAccum \/ CommitCheck \/ SendU \/ Ingest \/ Step \/ Validity
        \/ MixU \/ CommitFri \/ SendFinal \/ Query

Spec == Init /\ [][Next]_vars

-----------------------------------------------------------------------------
\* Every element computed with is reduced, and the banks never outgrow the block.
TypeOK ==
  /\ pc \in {"accumMix", "accum", "polyMix", "check", "z", "u", "ingest", "program", "friMix",
            "combo", "fri", "mix", "query", "accepted", "rejected", "panic"}
  /\ \A i \in DOMAIN drawn : drawn[i] \in Base
  /\ \A i \in DOMAIN evalU : evalU[i] \in E4
  /\ \A i \in DOMAIN fp : fp[i].e \in E4
  /\ \A i \in DOMAIN mix : mix[i].tot.e \in E4 /\ mix[i].mul.e \in E4
  /\ Len(fp) + Len(mix) <= Len(Block)
  /\ \A r \in DOMAIN fri : Len(fri[r]) = RoundDomain(r) /\ \A i \in DOMAIN fri[r] : fri[r][i] \in E4
  /\ round = Len(fri) /\ round <= Rounds

\* Whatever quotient and remainder the prover supplies, the element drawn is the squeezed sum
\* modulo p (sponge.go:87-99).
DrawnIsSqueezed == \A i \in DOMAIN drawn : drawn[i] = Sums[i] % P

\* At every step of the program a value register holds its expression, folded or not, and a mix
\* register holds the sum of everything it asserts, each under a power of poly_mix of its own,
\* with the next free power (deep_polyext.go:102-146).
MixIsSum ==
  pc = "program" =>
    LET ref == Reference(Len(fp) + Len(mix), evalU, AccumMix)
    IN  /\ Len(ref.fp) = Len(fp) /\ \A k \in DOMAIN fp : fp[k].e = ref.fp[k]
        /\ \A m \in DOMAIN mix : /\ mix[m].tot.e = Mixed(ref.terms[m], PolyMix)
                                 /\ mix[m].mul.e = E4Power(PolyMix, Len(ref.terms[m]))

\* Past the equation, to the end of the run, everything the program asserts by definition, at the
\* evaluations the seal's words give and mixed by the powers of poly_mix, adds up to the check
\* polynomial: all of the block, because the size check stops a table whose result register is not
\* the last one, and no other (driver.go:109-116, deep_polyext.go:147-152).
Checked == {"friMix", "combo", "fri", "mix", "query", "accepted"}
EquationHolds ==
  /\ pc \in Checked => /\ ret = LastMix
                       /\ Mixed(Asserted(EvalU), PolyMix) = ComputeCheckFrom(CoeffU)
  /\ pc = "panic" => ret # LastMix

\* An accepted seal is one of columns that satisfy every assertion of the program at every
\* cycle, whatever the prover committed to and whichever evaluations it sent (deep_check.go:18,
\* deep_frieval.go:58, driver.go:113).
Sound == pc = "accepted" => Satisfied

\* The U coefficients of an accepted seal are those of the committed columns, word for word
\* (deep_evalu.go:16-53, babybear.go:232).
Bound == pc = "accepted" => words = Words(HonestU)

\* The words one might put in the place of an accepted seal's: one word changed, or P moved between
\* two neighbours.
OneChanged(w) == {[w EXCEPT ![i] = v] : i \in DOMAIN w, v \in {0, 1, P - 1, P, Cap - 1}}
Others == LET w == words IN
  OneChanged(w)
    \cup {[w EXCEPT ![i] = @ + P, ![i + 1] = @ - 1] : i \in 1..Len(w) - 1}
    \cup {[w EXCEPT ![i] = w[i + 1], ![i + 1] = w[i]] : i \in 1..Len(w) - 1}

\* The digest from which the later challenges come has one opening that the circuit ingests: no
\* other words both hash to it and pass the range checks (sponge.go:125-151, babybear.go:232).
DigestBinds ==
  pc = "program" /\ fp = <<>> =>
    \A v \in Others : /\ \A i \in DOMAIN v : AssertCanonical(v[i])
                      /\ HashElemSlice(v) = digest
                      => v = words

\* A prover that committed to a satisfying trace and to its quotient, and sent their
\* evaluations and the words its queries are asked for, is neither refused nor, with the table
\* as it was dumped, stopped by the size check (deep_polyext.go:147, fri.go:107).
Complete ==
  pc \in {"rejected", "panic"} =>
    ~(ret = LastMix /\ words = Words(HonestU) /\ check = Quotient /\ Satisfied
      /\ (fri = <<>> \/ fri[1] = Goals))
=============================================================================
