------------------------- MODULE CardanoWireProofs --------------------------
(***************************************************************************)
(* Proofs about CardanoWire, for every artifact the Go program may write,  *)
(* of any size, and every file the verifier may be given.                  *)
(*                                                                         *)
(* The parsers keep values, the properties are about cells.  Between them  *)
(* is Part(b, g), the cells file b would have been written with had it     *)
(* held the values g: the invariant says that this is a beginning of the   *)
(* file and ends where the reader stands.  It grows by the cells that are  *)
(* read, which is what most lemmas are about, as a value is added in the   *)
(* middle of a concatenation and not at its end.  Where a file has been    *)
(* read to its end Part is its encoding (Canonical); where the file is the *)
(* one that was written, what was read stays a beginning of what was       *)
(* written (HonestAccepted).  For AcceptedAsWritten the verifier's sum is  *)
(* compared with the prover's, term by term: a challenge is at least two   *)
(* cells long and a public input one, so the challenges tell how long the  *)
(* other parts are.                                                        *)
(***************************************************************************)
EXTENDS CardanoWire, Arithmetic, SequenceTheorems, TLAPS

-----------------------------------------------------------------------------
(* Concatenations, and what begins a sequence                              *)

\* What the concatenation of a list of sequences is: the last of these, each the one before
\* with the next sequence.
LEMMA FlatRun ==
  ASSUME NEW S, NEW s \in Seq(Seq(S))
  PROVE  \E g \in [0..Len(s) -> Seq(S)] :
           /\ g[0] = <<>>
           /\ \A k \in 1..Len(s) : g[k] = g[k - 1] \o s[k]
           /\ FlattenSeq(s) = g[Len(s)]
<1> DEFINE n == Len(s)
           F == [k \in 1..n |-> [x \in Seq(S) |-> x \o s[k]]]
           Run(z) == z = [i \in 1..n |-> IF i = 1 THEN s[i] ELSE z[i - 1] \o s[i]]
           run == CHOOSE z : Run(z)
<1>1. n \in Nat /\ \A k \in 1..n : s[k] \in Seq(S)
  OBVIOUS
<1>2. FlattenSeq(s) = IF n = 0 THEN s ELSE run[n]
  BY DEF FlattenSeq
<1>3. n = 0 => s = <<>>
  OBVIOUS
<1> HIDE DEF n
<1>4. <<>> \in Seq(S)
  OBVIOUS
<1>5. \A k \in 1..n : \A x \in Seq(S) : F[k][x] = x \o s[k] /\ x \o s[k] \in Seq(S)
  <2> SUFFICES ASSUME NEW k \in 1..n, NEW x \in Seq(S)
               PROVE  F[k][x] = x \o s[k] /\ x \o s[k] \in Seq(S)
    OBVIOUS
  <2>1. x \o s[k] \in Seq(S)
    BY <1>1, ConcatProperties
  <2> QED
    BY <2>1
<1> HIDE DEF F
<1>6. PICK g : RunsIn(n, Seq(S), <<>>, F, g)
  BY <1>1, <1>4, <1>5, RecursionIn
<1>7. g \in [0..n -> Seq(S)] /\ g[0] = <<>> /\ \A k \in 1..n : g[k] = F[k][g[k - 1]]
  BY <1>6 DEF RunsIn
<1>8. \A k \in 1..n : k \in 0..n /\ k - 1 \in 0..n
  BY <1>1
<1>9. \A k \in 1..n : g[k] = g[k - 1] \o s[k]
  BY <1>5, <1>7, <1>8
<1>10. ASSUME n # 0 PROVE run[n] = g[n]
  <2> DEFINE h == [k \in 1..n |-> g[k]]
  <2>1. \A k \in 1..n : h[k] = g[k] /\ (k # 1 => k - 1 \in 1..n)
    BY <1>1
  <2>2. \A k \in 1..n : h[k] = IF k = 1 THEN s[k] ELSE h[k - 1] \o s[k]
    <3> SUFFICES ASSUME NEW k \in 1..n PROVE h[k] = IF k = 1 THEN s[k] ELSE h[k - 1] \o s[k]
      OBVIOUS
    <3>1. CASE k = 1
      <4>1. s[k] \in Seq(S) /\ g[k - 1] = <<>>
        BY <1>1, <1>7, <3>1
      <4>2. <<>> \o s[k] = s[k]
        BY <4>1, ConcatEmptySeq
      <4> QED
        BY <1>9, <2>1, <3>1, <4>1, <4>2
    <3>2. CASE k # 1
      BY <1>9, <2>1, <3>2
    <3> QED
      BY <3>1, <3>2
  <2>3. h = [k \in 1..n |-> h[k]]
    OBVIOUS
  <2> HIDE DEF h, run
  <2>4. Run(h)
    BY <2>2, <2>3
  <2>5. Run(run)
    BY <2>4 DEF run
  <2> HIDE DEF Run
  <2> DEFINE shift == [k \in 0..n |-> IF k = 0 THEN <<>> ELSE run[k]]
  <2>6. \A k \in 1..n : run[k] = IF k = 1 THEN s[k] ELSE run[k - 1] \o s[k]
    <3>1. run = [i \in 1..n |-> IF i = 1 THEN s[i] ELSE run[i - 1] \o s[i]]
      BY <2>5 DEF Run
    <3> QED
      BY <3>1
  <2>7. \A k \in 1..n : g[k - 1] = shift[k - 1] => g[k] = shift[k]
    <3> SUFFICES ASSUME NEW k \in 1..n, g[k - 1] = shift[k - 1] PROVE g[k] = shift[k]
      OBVIOUS
    <3>0. k \in 0..n /\ k # 0
      BY <1>1
    <3>1. shift[k] = run[k] /\ g[k] = g[k - 1] \o s[k]
      BY <1>9, <3>0
    <3>2. CASE k = 1
      <4>1. g[k] = h[k] /\ h[k] = s[k]
        BY <2>1, <2>2, <3>2
      <4>2. run[k] = s[k]
        BY <2>6, <3>2
      <4> QED
        BY <3>1, <4>1, <4>2
    <3>3. CASE k # 1
      <4>1. k - 1 \in 0..n /\ k - 1 # 0
        BY <1>1, <3>3
      <4>2. shift[k - 1] = run[k - 1]
        BY <4>1
      <4>3. run[k] = run[k - 1] \o s[k]
        BY <2>6, <3>3
      <4> QED
        BY <3>1, <4>2, <4>3
    <3> QED
      BY <3>2, <3>3
  <2>8. g[0] = shift[0]
    BY <1>1, <1>7
  <2>9. shift[n] = run[n]
    BY <1>1, <1>10
  <2> HIDE DEF shift
  <2>10. Alike(n, g, shift)
    BY <2>7, <2>8 DEF Alike
  <2>11. \A k \in 0..n : g[k] = shift[k]
    BY <1>1, <2>10, SameRun
  <2>12. n \in 0..n
    BY <1>1
  <2> QED
    BY <2>9, <2>11, <2>12
<1>11. FlattenSeq(s) = g[n]
  BY <1>2, <1>3, <1>7, <1>10
<1> QED
  BY <1>7, <1>9, <1>11 DEF n

\* The concatenation of sequences over a set is one.
LEMMA FlatTyped ==
  ASSUME NEW S, NEW s \in Seq(Seq(S))
  PROVE  FlattenSeq(s) \in Seq(S)
<1>1. PICK g \in [0..Len(s) -> Seq(S)] : FlattenSeq(s) = g[Len(s)]
  BY FlatRun
<1>2. Len(s) \in 0..Len(s)
  OBVIOUS
<1> QED
  BY <1>1, <1>2

\* One more sequence adds what it holds.
LEMMA FlatAppend ==
  ASSUME NEW S, NEW s \in Seq(Seq(S)), NEW x \in Seq(S)
  PROVE  FlattenSeq(Append(s, x)) = FlattenSeq(s) \o x
<1> DEFINE t == Append(s, x)
           n == Len(s)
<1>1. n \in Nat /\ t \in Seq(Seq(S)) /\ Len(t) = n + 1 /\ t[n + 1] = x
      /\ \A k \in 1..n : t[k] = s[k]
  BY AppendProperties
<1>2. PICK g \in [0..n -> Seq(S)] :
        /\ g[0] = <<>> /\ \A k \in 1..n : g[k] = g[k - 1] \o s[k]
        /\ FlattenSeq(s) = g[n]
  BY FlatRun
<1> HIDE DEF t, n
<1>3. PICK h \in [0..Len(t) -> Seq(S)] :
        /\ h[0] = <<>> /\ \A k \in 1..Len(t) : h[k] = h[k - 1] \o t[k]
        /\ FlattenSeq(t) = h[Len(t)]
  BY <1>1, FlatRun
<1>4. \A k \in 1..n : k \in 1..Len(t)
  BY <1>1
<1>5. Alike(n, g, h)
  BY <1>1, <1>2, <1>3, <1>4 DEF Alike
<1>6. \A k \in 0..n : g[k] = h[k]
  <2>1. n \in Nat
    BY <1>1
  <2> QED
    BY <1>5, <2>1, SameRun
<1>7. n \in 0..n /\ Len(t) \in 1..Len(t) /\ Len(t) - 1 = n
  BY <1>1
<1>8. h[Len(t)] = h[n] \o t[Len(t)]
  BY <1>3, <1>7
<1>9. g[n] = h[n]
  BY <1>6, <1>7
<1> QED
  BY <1>1, <1>2, <1>3, <1>8, <1>9 DEF t

\* No sequence, and one.
LEMMA FlatFew ==
  /\ FlattenSeq(<<>>) = <<>>
  /\ \A S : \A x \in Seq(S) : FlattenSeq(<<x>>) = x
<1>1. FlattenSeq(<<>>) = <<>>
  BY DEF FlattenSeq
<1>2. ASSUME NEW S, NEW x \in Seq(S) PROVE FlattenSeq(<<x>>) = x
  <2>1. <<>> \in Seq(Seq(S)) /\ Append(<<>>, x) = <<x>>
    OBVIOUS
  <2>2. FlattenSeq(Append(<<>>, x)) = FlattenSeq(<<>>) \o x
    BY <2>1, FlatAppend
  <2>3. <<>> \o x = x
    BY ConcatEmptySeq
  <2> QED
    BY <1>1, <2>1, <2>2, <2>3
<1> QED
  BY <1>1, <1>2

\* A sequence another one begins with.
Pre(s, t) == Len(s) <= Len(t) /\ \A i \in 1..Len(s) : s[i] = t[i]

\* A sequence begins itself, and nothing begins every one.
LEMMA PreSelf ==
  ASSUME NEW S, NEW s \in Seq(S) PROVE Pre(s, s) /\ Pre(<<>>, s)
  BY DEF Pre

\* What begins the beginning of a sequence begins the sequence.
LEMMA PreTrans ==
  ASSUME NEW S, NEW s \in Seq(S), NEW t \in Seq(S), NEW u \in Seq(S), Pre(s, t), Pre(t, u)
  PROVE  Pre(s, u)
<1>1. \A i \in 1..Len(s) : i \in 1..Len(t)
  BY DEF Pre
<1>2. \A i \in 1..Len(s) : s[i] = u[i]
  BY <1>1 DEF Pre
<1> QED
  BY <1>2 DEF Pre

\* A sequence begins what it is continued to.
LEMMA PreConcat ==
  ASSUME NEW S, NEW s \in Seq(S), NEW t \in Seq(S) PROVE Pre(s, s \o t)
<1>1. Len(s \o t) = Len(s) + Len(t) /\ Len(s) \in Nat /\ Len(t) \in Nat
  BY ConcatProperties, LenProperties
<1>2. \A i \in 1..Len(s) : i \in 1..Len(s) + Len(t) /\ i <= Len(s)
  BY <1>1
<1>3. \A i \in 1..Len(s) : (s \o t)[i] = s[i]
  BY <1>2, ConcatProperties
<1> QED
  BY <1>1, <1>3 DEF Pre

\* The same before both keeps one the beginning of the other.
LEMMA PreShift ==
  ASSUME NEW S, NEW r \in Seq(S), NEW s \in Seq(S), NEW t \in Seq(S), Pre(s, t)
  PROVE  Pre(r \o s, r \o t)
<1>1. /\ Len(r) \in Nat /\ Len(s) \in Nat /\ Len(t) \in Nat
      /\ Len(r \o s) = Len(r) + Len(s) /\ Len(r \o t) = Len(r) + Len(t)
  BY ConcatProperties, LenProperties
<1>2. Len(s) <= Len(t) /\ \A i \in 1..Len(s) : s[i] = t[i]
  BY DEF Pre
<1>3. ASSUME NEW i \in 1..Len(r) + Len(s) PROVE (r \o s)[i] = (r \o t)[i]
  <2>1. i \in 1..Len(r) + Len(t)
    BY <1>1, <1>2
  <2>2. (r \o s)[i] = IF i <= Len(r) THEN r[i] ELSE s[i - Len(r)]
    BY ConcatProperties
  <2>3. (r \o t)[i] = IF i <= Len(r) THEN r[i] ELSE t[i - Len(r)]
    BY <2>1, ConcatProperties
  <2>4. i > Len(r) => i - Len(r) \in 1..Len(s)
    BY <1>1
  <2>5. i > Len(r) => s[i - Len(r)] = t[i - Len(r)]
    BY <1>2, <2>4
  <2> QED
    BY <1>1, <2>2, <2>3, <2>5
<1>4. Len(r \o s) <= Len(r \o t)
  BY <1>1, <1>2
<1>5. \A i \in 1..Len(r \o s) : (r \o s)[i] = (r \o t)[i]
  BY <1>1, <1>3
<1> QED
  BY <1>4, <1>5 DEF Pre

\* A beginning as long as the sequence is all of it.
LEMMA PreWhole ==
  ASSUME NEW S, NEW s \in Seq(S), NEW t \in Seq(S), Pre(s, t), Len(s) = Len(t)
  PROVE  s = t
  BY SeqEqual DEF Pre

\* One of the sequences in s, all of which after it are empty, is longer by x in t.
GrowsAt(S, s, t, k, x) ==
  /\ s \in Seq(Seq(S)) /\ t \in Seq(Seq(S)) /\ Len(s) = Len(t) /\ k \in 1..Len(s) /\ x \in Seq(S)
  /\ t[k] = s[k] \o x
  /\ \A j \in 1..Len(s) : (j < k => t[j] = s[j]) /\ (j > k => s[j] = <<>> /\ t[j] = <<>>)

\* Concatenation, by name: its facts without its elements.
Cat(s, t) == s \o t

\* Concatenation stays among the sequences, has a neutral element and is associative.
LEMMA CatFacts ==
  ASSUME NEW S
  PROVE  /\ \A s, t \in Seq(S) : Cat(s, t) \in Seq(S)
         /\ \A s \in Seq(S) : Cat(s, <<>>) = s /\ Cat(<<>>, s) = s
         /\ \A s, t, u \in Seq(S) : Cat(Cat(s, t), u) = Cat(s, Cat(t, u))
<1>1. \A s, t \in Seq(S) : Cat(s, t) \in Seq(S)
  BY ConcatProperties DEF Cat
<1>2. \A s \in Seq(S) : Cat(s, <<>>) = s /\ Cat(<<>>, s) = s
  BY ConcatEmptySeq DEF Cat
<1>3. \A s, t, u \in Seq(S) : Cat(Cat(s, t), u) = Cat(s, Cat(t, u))
  BY ConcatAssociative DEF Cat
<1> QED
  BY <1>1, <1>2, <1>3

\* What is added to one of several sequences, all of which after it are empty, is added to their
\* concatenation.
LEMMA FlatGrow ==
  ASSUME NEW S, NEW s, NEW t, NEW k, NEW x, GrowsAt(S, s, t, k, x)
  PROVE  FlattenSeq(t) = FlattenSeq(s) \o x
<1> DEFINE n == Len(s)
<1>0. s \in Seq(Seq(S)) /\ t \in Seq(Seq(S)) /\ Len(s) = Len(t)
      /\ k \in 1..Len(s) /\ x \in Seq(S)
  BY DEF GrowsAt
<1>1. n \in Nat /\ k \in 1..n /\ Len(t) = n /\ \A j \in 1..n : s[j] \in Seq(S) /\ t[j] \in Seq(S)
  BY <1>0
<1>2. PICK f \in [0..n -> Seq(S)] :
        /\ f[0] = <<>> /\ \A j \in 1..n : f[j] = Cat(f[j - 1], s[j])
        /\ FlattenSeq(s) = f[n]
  BY <1>0, FlatRun DEF Cat
<1>3. \E g \in [0..Len(t) -> Seq(S)] :
        /\ g[0] = <<>> /\ \A j \in 1..Len(t) : g[j] = Cat(g[j - 1], t[j])
        /\ FlattenSeq(t) = g[Len(t)]
  BY <1>0, FlatRun DEF Cat
<1>4. \A j \in 1..n : (j < k => t[j] = s[j]) /\ (j > k => s[j] = <<>> /\ t[j] = <<>>)
  BY DEF GrowsAt
<1>5. t[k] = Cat(s[k], x)
  BY DEF GrowsAt, Cat
<1> HIDE DEF n
<1>6. PICK g \in [0..n -> Seq(S)] :
        /\ g[0] = <<>> /\ \A j \in 1..n : g[j] = Cat(g[j - 1], t[j])
        /\ FlattenSeq(t) = g[n]
  BY <1>1, <1>3
<1> DEFINE h == [j \in 0..n |-> IF j < k THEN f[j] ELSE Cat(f[j], x)]
<1>7. \A j \in 0..n : h[j] = IF j < k THEN f[j] ELSE Cat(f[j], x)
  OBVIOUS
<1> HIDE DEF h
<1>8. \A j \in 1..n : h[j - 1] = g[j - 1] => h[j] = g[j]
  <2> SUFFICES ASSUME NEW j \in 1..n, h[j - 1] = g[j - 1] PROVE h[j] = g[j]
    OBVIOUS
  <2>1. j \in 0..n /\ j - 1 \in 0..n
    BY <1>1
  <2>2. f[j] \in Seq(S) /\ f[j - 1] \in Seq(S) /\ s[j] \in Seq(S) /\ x \in Seq(S)
    BY <1>0, <1>1, <2>1
  <2>3. /\ h[j] = (IF j < k THEN f[j] ELSE Cat(f[j], x))
        /\ h[j - 1] = (IF j - 1 < k THEN f[j - 1] ELSE Cat(f[j - 1], x))
    BY <1>7, <2>1
  <2>4. f[j] = Cat(f[j - 1], s[j]) /\ g[j] = Cat(h[j - 1], t[j])
    BY <1>2, <1>6
  <2>5. CASE j < k
    BY <1>1, <1>4, <2>3, <2>4, <2>5
  <2>6. CASE j = k
    <3>1. h[j - 1] = f[j - 1] /\ h[j] = Cat(f[j], x) /\ t[j] = Cat(s[j], x)
      BY <1>1, <1>5, <2>3, <2>6
    <3>a. \A p, q, r \in Seq(S) : Cat(Cat(p, q), r) = Cat(p, Cat(q, r))
      BY CatFacts
    <3>2. Cat(Cat(f[j - 1], s[j]), x) = Cat(f[j - 1], Cat(s[j], x))
      BY <2>2, <3>a
    <3> QED
      BY <2>4, <3>1, <3>2
  <2>7. CASE j > k
    <3>1. s[j] = <<>> /\ t[j] = <<>>
      BY <1>4, <2>7
    <3>2. h[j - 1] = Cat(f[j - 1], x) /\ h[j] = Cat(f[j], x)
      BY <1>1, <2>3, <2>7
    <3>3. Cat(f[j - 1], x) \in Seq(S)
      BY <2>2, CatFacts
    <3>4. Cat(Cat(f[j - 1], x), <<>>) = Cat(f[j - 1], x) /\ Cat(f[j - 1], <<>>) = f[j - 1]
      BY <2>2, <3>3, CatFacts
    <3> QED
      BY <2>4, <3>1, <3>2, <3>4
  <2> QED
    BY <1>1, <2>5, <2>6, <2>7
<1>9. h[0] = g[0]
  <2>1. 0 \in 0..n /\ 0 < k
    BY <1>1
  <2> QED
    BY <1>2, <1>6, <1>7, <2>1
<1>10. n \in 0..n /\ ~(n < k)
  BY <1>1
<1>11. h[n] = Cat(f[n], x)
  BY <1>7, <1>10
<1>12. Alike(n, h, g)
  BY <1>8, <1>9 DEF Alike
<1>13. \A j \in 0..n : h[j] = g[j]
  <2>1. n \in Nat
    BY <1>1
  <2> QED
    BY <1>12, <2>1, SameRun
<1>14. g[n] = Cat(f[n], x)
  BY <1>10, <1>11, <1>13
<1>15. FlattenSeq(t) = Cat(FlattenSeq(s), x)
  BY <1>2, <1>6, <1>14
<1> QED
  BY <1>15 DEF Cat

\* Each sequence in s begins the one at its place in t, and after the first that is not all of it
\* there are only empty ones.
Begins(S, s, t) ==
  /\ s \in Seq(Seq(S)) /\ t \in Seq(Seq(S)) /\ Len(s) <= Len(t)
  /\ \A j \in 1..Len(s) :
       Pre(s[j], t[j]) /\ (s[j] = t[j] \/ \A i \in j + 1..Len(s) : s[i] = <<>>)

\* If each of several sequences begins the one at its place in another list, and after the first
\* that is not all of it there are only empty ones, then their concatenation begins the other.
LEMMA FlatPre ==
  ASSUME NEW S, NEW s, NEW t, Begins(S, s, t)
  PROVE  Pre(FlattenSeq(s), FlattenSeq(t))
<1> DEFINE n == Len(s)
           m == Len(t)
<1>0. s \in Seq(Seq(S)) /\ t \in Seq(Seq(S))
  BY DEF Begins
<1>1. /\ n \in Nat /\ m \in Nat /\ n <= m
      /\ \A j \in 1..n : s[j] \in Seq(S)
      /\ \A j \in 1..m : t[j] \in Seq(S)
  BY <1>0 DEF Begins
<1>2. PICK f \in [0..n -> Seq(S)] :
        /\ f[0] = <<>> /\ \A j \in 1..n : f[j] = f[j - 1] \o s[j]
        /\ FlattenSeq(s) = f[n]
  BY <1>0, FlatRun
<1>3. PICK g \in [0..m -> Seq(S)] :
        /\ g[0] = <<>> /\ \A j \in 1..m : g[j] = g[j - 1] \o t[j]
        /\ FlattenSeq(t) = g[m]
  BY <1>0, FlatRun
<1>4. \A j \in 1..n : Pre(s[j], t[j]) /\ (s[j] = t[j] \/ \A i \in j + 1..n : s[i] = <<>>)
  BY DEF Begins
<1> HIDE DEF n, m
<1> DEFINE Rest(j) == \A i \in j + 1..n : s[i] = <<>>
           D == {j \in 0..n : Pre(f[j], g[j]) /\ (f[j] = g[j] \/ Rest(j))}
<1>5. 0 \in D
  <2>1. 0 \in 0..n /\ <<>> \in Seq(S)
    BY <1>1
  <2>2. Pre(f[0], g[0])
    BY <1>2, <1>3, <2>1, PreSelf, PreTrans, PreConcat, PreShift
  <2> QED
    BY <1>2, <1>3, <2>1, <2>2
<1>6. ASSUME NEW j \in 1..n, j - 1 \in D PROVE j \in D
  <2>1. /\ j \in 0..n /\ j - 1 \in 0..n /\ j \in 1..m /\ j \in 0..m /\ j - 1 \in 0..m
        /\ j \in (j - 1) + 1..n
        /\ \A i \in j + 1..n : i \in (j - 1) + 1..n
    BY <1>1
  <2>2. /\ f[j] \in Seq(S) /\ f[j - 1] \in Seq(S) /\ g[j] \in Seq(S) /\ g[j - 1] \in Seq(S)
        /\ s[j] \in Seq(S) /\ t[j] \in Seq(S)
    BY <1>1, <1>2, <1>3, <2>1
  <2>3. f[j] = f[j - 1] \o s[j] /\ g[j] = g[j - 1] \o t[j]
    BY <1>2, <1>3, <2>1
  <2>4. Pre(f[j - 1], g[j - 1]) /\ (f[j - 1] = g[j - 1] \/ Rest(j - 1))
    BY <1>6
  <2>5. Pre(s[j], t[j]) /\ (s[j] = t[j] \/ Rest(j))
    BY <1>4
  <2>6. CASE f[j - 1] = g[j - 1]
    <3>1. Pre(f[j], g[j])
      BY <2>2, <2>3, <2>5, <2>6, PreSelf, PreTrans, PreConcat, PreShift
    <3>2. f[j] = g[j] \/ Rest(j)
      BY <2>3, <2>5, <2>6
    <3> QED
      BY <2>1, <3>1, <3>2
  <2>7. CASE Rest(j - 1)
    <3>1. s[j] = <<>> /\ Rest(j)
      BY <2>1, <2>7
    <3>2. f[j] = f[j - 1]
      BY <2>2, <2>3, <3>1, ConcatEmptySeq
    <3>3. Pre(g[j - 1], g[j])
      BY <2>2, <2>3, PreSelf, PreTrans, PreConcat, PreShift
    <3>4. Pre(f[j], g[j])
      BY <2>2, <2>4, <3>2, <3>3, PreSelf, PreTrans, PreConcat, PreShift
    <3> QED
      BY <2>1, <3>1, <3>4
  <2> QED
    BY <2>4, <2>6, <2>7
<1>7. \A j \in 0..n : j \in D
  <2> HIDE DEF D
  <2>1. n \in Nat
    BY <1>1
  <2> QED
    BY <1>5, <1>6, <2>1, InductionTo
<1>8. n \in 0..n /\ Pre(f[n], g[n])
  <2>1. n \in 0..n
    BY <1>1
  <2>2. n \in D
    BY <1>7, <2>1
  <2> QED
    BY <2>1, <2>2
<1> HIDE DEF D
<1> DEFINE E == {j \in 0..m : j < n \/ Pre(f[n], g[j])}
<1>9. 0 \in E
  BY <1>1, <1>8
<1>10. ASSUME NEW j \in 1..m, j - 1 \in E PROVE j \in E
  <2>1. j \in 0..m /\ j - 1 \in 0..m
    BY <1>1
  <2>2. f[n] \in Seq(S) /\ g[j] \in Seq(S) /\ g[j - 1] \in Seq(S) /\ t[j] \in Seq(S)
    BY <1>1, <1>2, <1>3, <1>8, <2>1
  <2>3. CASE j < n
    BY <2>1, <2>3
  <2>4. CASE j = n
    BY <1>8, <2>1, <2>4
  <2>5. CASE j > n
    <3>1. Pre(f[n], g[j - 1])
      BY <1>1, <1>10, <2>5
    <3>2. Pre(g[j - 1], g[j])
      <4>1. g[j] = g[j - 1] \o t[j]
        BY <1>3
      <4>2. Pre(g[j - 1], g[j - 1] \o t[j])
        BY <2>2, PreConcat
      <4> QED
        BY <4>1, <4>2
    <3>3. Pre(f[n], g[j])
      BY <2>2, <3>1, <3>2, PreSelf, PreTrans, PreConcat, PreShift
    <3> QED
      BY <2>1, <3>3
  <2> QED
    BY <1>1, <2>3, <2>4, <2>5
<1>11. \A j \in 0..m : j \in E
  <2> HIDE DEF E
  <2>1. m \in Nat
    BY <1>1
  <2> QED
    BY <1>9, <1>10, <2>1, InductionTo
<1>12. m \in 0..m /\ ~(m < n)
  BY <1>1
<1>13. Pre(f[n], g[m])
  BY <1>11, <1>12
<1> QED
  BY <1>2, <1>3, <1>13

\* The concatenation of a few sequences.
LEMMA FlatOf ==
  ASSUME NEW S, NEW s \in Seq(Seq(S))
  PROVE  /\ Len(s) = 2 =>
              FlattenSeq(s) = Cat(s[1], s[2])
         /\ Len(s) = 3 =>
              FlattenSeq(s) = Cat(Cat(s[1], s[2]), s[3])
         /\ Len(s) = 4 =>
              FlattenSeq(s) = Cat(Cat(Cat(s[1], s[2]), s[3]), s[4])
         /\ Len(s) = 6 =>
              FlattenSeq(s) = Cat(Cat(Cat(Cat(Cat(s[1], s[2]), s[3]), s[4]), s[5]), s[6])
         /\ Len(s) = 8 =>
              FlattenSeq(s) = Cat(Cat(Cat(Cat(Cat(Cat(Cat(s[1], s[2]), s[3]), s[4]), s[5]), s[6]), s[7]), s[8])
<1> DEFINE n == Len(s)
<1>1. PICK g \in [0..n -> Seq(S)] :
        /\ g[0] = <<>> /\ \A k \in 1..n : g[k] = Cat(g[k - 1], s[k])
        /\ FlattenSeq(s) = g[n]
  BY FlatRun DEF Cat
<1>2. n \in Nat /\ \A k \in 1..n : s[k] \in Seq(S)
  OBVIOUS
<1> HIDE DEF n
<1>3. \A k \in Nat : k + 1 <= n => g[k + 1] = Cat(g[k], s[k + 1])
  <2> SUFFICES ASSUME NEW k \in Nat, k + 1 <= n PROVE g[k + 1] = Cat(g[k], s[k + 1])
    OBVIOUS
  <2>1. k + 1 \in 1..n /\ (k + 1) - 1 = k
    BY <1>2
  <2> QED
    BY <1>1, <2>1
<1>4. n >= 1 => g[1] = s[1]
  <2> SUFFICES ASSUME n >= 1 PROVE g[1] = s[1]
    OBVIOUS
  <2>1. 1 \in 1..n
    BY <1>2
  <2>2. g[1] = Cat(g[0], s[1])
    BY <1>1, <2>1
  <2>3. s[1] \in Seq(S)
    BY <1>2, <2>1
  <2>4. Cat(<<>>, s[1]) = s[1]
    BY <2>3, CatFacts
  <2> QED
    BY <1>1, <2>2, <2>4
<1>5. n >= 2 => g[2] = Cat(s[1], s[2])
  <2>1. n >= 2 => 1 + 1 <= n /\ n >= 1
    BY <1>2
  <2>2. n >= 2 => g[2] = Cat(g[1], s[2])
    BY <1>3, <2>1
  <2> QED
    BY <1>4, <2>1, <2>2
<1>6. n >= 3 => g[3] = Cat(Cat(s[1], s[2]), s[3])
  <2>1. n >= 3 => 2 + 1 <= n /\ n >= 2
    BY <1>2
  <2>2. n >= 3 => g[3] = Cat(g[2], s[3])
    BY <1>3, <2>1
  <2> QED
    BY <1>5, <2>1, <2>2
<1>7. n >= 4 => g[4] = Cat(Cat(Cat(s[1], s[2]), s[3]), s[4])
  <2>1. n >= 4 => 3 + 1 <= n /\ n >= 3
    BY <1>2
  <2>2. n >= 4 => g[4] = Cat(g[3], s[4])
    BY <1>3, <2>1
  <2> QED
    BY <1>6, <2>1, <2>2
<1>8. n >= 5 => g[5] = Cat(Cat(Cat(Cat(s[1], s[2]), s[3]), s[4]), s[5])
  <2>1. n >= 5 => 4 + 1 <= n /\ n >= 4
    BY <1>2
  <2>2. n >= 5 => g[5] = Cat(g[4], s[5])
    BY <1>3, <2>1
  <2> QED
    BY <1>7, <2>1, <2>2
<1>9. n >= 6 => g[6] = Cat(Cat(Cat(Cat(Cat(s[1], s[2]), s[3]), s[4]), s[5]), s[6])
  <2>1. n >= 6 => 5 + 1 <= n /\ n >= 5
    BY <1>2
  <2>2. n >= 6 => g[6] = Cat(g[5], s[6])
    BY <1>3, <2>1
  <2> QED
    BY <1>8, <2>1, <2>2
<1>10. n >= 7 => g[7] = Cat(Cat(Cat(Cat(Cat(Cat(s[1], s[2]), s[3]), s[4]), s[5]), s[6]), s[7])
  <2>1. n >= 7 => 6 + 1 <= n /\ n >= 6
    BY <1>2
  <2>2. n >= 7 => g[7] = Cat(g[6], s[7])
    BY <1>3, <2>1
  <2> QED
    BY <1>9, <2>1, <2>2
<1>11. n >= 8 => g[8] = Cat(Cat(Cat(Cat(Cat(Cat(Cat(s[1], s[2]), s[3]), s[4]), s[5]), s[6]), s[7]), s[8])
  <2>1. n >= 8 => 7 + 1 <= n /\ n >= 7
    BY <1>2
  <2>2. n >= 8 => g[8] = Cat(g[7], s[8])
    BY <1>3, <2>1
  <2> QED
    BY <1>10, <2>1, <2>2
<1>12. n = 2 => FlattenSeq(s) = Cat(s[1], s[2])
  BY <1>1, <1>5
<1>13. n = 3 => FlattenSeq(s) = Cat(Cat(s[1], s[2]), s[3])
  BY <1>1, <1>6
<1>14. n = 4 => FlattenSeq(s) = Cat(Cat(Cat(s[1], s[2]), s[3]), s[4])
  BY <1>1, <1>7
<1>15. n = 6 => FlattenSeq(s) = Cat(Cat(Cat(Cat(Cat(s[1], s[2]), s[3]), s[4]), s[5]), s[6])
  BY <1>1, <1>9
<1>16. n = 8 => FlattenSeq(s) = Cat(Cat(Cat(Cat(Cat(Cat(Cat(s[1], s[2]), s[3]), s[4]), s[5]), s[6]), s[7]), s[8])
  BY <1>1, <1>11
<1> QED
  BY <1>12, <1>13, <1>14, <1>15, <1>16 DEF n

-----------------------------------------------------------------------------
(* The fields                                                              *)

\* The fields of all the files.
Names == DOMAIN Kind

\* The fields, what they are and how wide.
LEMMA KindIs ==
  /\ Names = {"alpha", "beta", "gamma", "delta", "ic_count", "ic", "vk_nC", "pedersen_G",
              "pedersen_GSigmaNeg", "committed_count", "committed_index", "a", "b", "c",
              "proof_nC", "commitment", "uncompressed", "pok", "n_inner", "n_limbs", "scalar"}
  /\ Kind["alpha"] = "g1" /\ Kind["beta"] = "g2" /\ Kind["gamma"] = "g2" /\ Kind["delta"] = "g2"
  /\ Kind["ic_count"] = "u32" /\ Kind["ic"] = "g1" /\ Kind["vk_nC"] = "u32"
  /\ Kind["pedersen_G"] = "g2" /\ Kind["pedersen_GSigmaNeg"] = "g2"
  /\ Kind["committed_count"] = "u32" /\ Kind["committed_index"] = "u32" /\ Kind["a"] = "g1"
  /\ Kind["b"] = "g2" /\ Kind["c"] = "g1" /\ Kind["proof_nC"] = "u32" /\ Kind["commitment"] = "g1"
  /\ Kind["uncompressed"] = "raw" /\ Kind["pok"] = "g1" /\ Kind["n_inner"] = "u32"
  /\ Kind["n_limbs"] = "u32" /\ Kind["scalar"] = "scalar"
<1>0. Names = {"alpha", "beta", "gamma", "delta", "ic_count", "ic", "vk_nC", "pedersen_G",
              "pedersen_GSigmaNeg", "committed_count", "committed_index", "a", "b", "c",
              "proof_nC", "commitment", "uncompressed", "pok", "n_inner", "n_limbs", "scalar"}
  BY DEF Names, Kind
<1>1. /\ Kind["alpha"] = "g1" /\ Kind["beta"] = "g2" /\ Kind["gamma"] = "g2"
      /\ Kind["delta"] = "g2" /\ Kind["ic_count"] = "u32" /\ Kind["ic"] = "g1"
      /\ Kind["vk_nC"] = "u32"
  BY DEF Kind
<1>2. /\ Kind["pedersen_G"] = "g2" /\ Kind["pedersen_GSigmaNeg"] = "g2"
      /\ Kind["committed_count"] = "u32" /\ Kind["committed_index"] = "u32"
  BY DEF Kind
<1>3. /\ Kind["a"] = "g1" /\ Kind["b"] = "g2" /\ Kind["c"] = "g1" /\ Kind["proof_nC"] = "u32"
      /\ Kind["commitment"] = "g1" /\ Kind["uncompressed"] = "raw" /\ Kind["pok"] = "g1"
  BY DEF Kind
<1>4. /\ Kind["n_inner"] = "u32" /\ Kind["n_limbs"] = "u32" /\ Kind["scalar"] = "scalar"
  BY DEF Kind
<1> QED
  BY <1>0, <1>1, <1>2, <1>3, <1>4

\* The width of each field.
LEMMA WidthIs ==
  /\ \A f \in {"beta", "gamma", "delta", "pedersen_G", "pedersen_GSigmaNeg", "b",
             "uncompressed"} :
       Width(f) = 2
  /\ \A f \in {"alpha", "ic_count", "ic", "vk_nC", "committed_count", "committed_index", "a",
             "c", "proof_nC", "commitment", "pok", "n_inner", "n_limbs", "scalar"} :
       Width(f) = 1
  BY KindIs DEF Width

\* The values of each field.
LEMMA ReadIs ==
  /\ Read["alpha"] = G1 /\ Read["beta"] = G2 /\ Read["gamma"] = G2 /\ Read["delta"] = G2
  /\ Read["ic_count"] = U32 /\ Read["ic"] = G1 /\ Read["vk_nC"] = U32 /\ Read["pedersen_G"] = G2
  /\ Read["pedersen_GSigmaNeg"] = G2 /\ Read["committed_count"] = U32
  /\ Read["committed_index"] = Seq(U32) /\ Read["a"] = G1 /\ Read["b"] = G2 /\ Read["c"] = G1
  /\ Read["proof_nC"] = U32 /\ Read["commitment"] = G1
  /\ Read["uncompressed"] = {Uncompressed(p) : p \in G1} /\ Read["pok"] = G1
  /\ Read["n_inner"] = U32 /\ Read["n_limbs"] = U32 /\ Read["scalar"] = Scalars
<1> DEFINE Of(f) == IF f = "committed_index" THEN Seq(U32) ELSE Values[Kind[f]]
<1>1. \A f \in Names : Read[f] = Of(f)
  BY DEF Names, Read
<1>2. /\ Values["g1"] = G1 /\ Values["g2"] = G2 /\ Values["u32"] = U32
      /\ Values["raw"] = {Uncompressed(p) : p \in G1} /\ Values["scalar"] = Scalars
  BY DEF Values
<1>3. Of("committed_index") = Seq(U32)
  OBVIOUS
<1>4. /\ Of("alpha") = G1 /\ Of("beta") = G2 /\ Of("gamma") = G2 /\ Of("delta") = G2
      /\ Of("ic_count") = U32 /\ Of("ic") = G1 /\ Of("vk_nC") = U32
  BY <1>2, <1>3, KindIs
<1>5. /\ Of("pedersen_G") = G2 /\ Of("pedersen_GSigmaNeg") = G2 /\ Of("committed_count") = U32
      /\ Of("committed_index") = Seq(U32)
  BY <1>2, <1>3, KindIs
<1>6. /\ Of("a") = G1 /\ Of("b") = G2 /\ Of("c") = G1 /\ Of("proof_nC") = U32
      /\ Of("commitment") = G1 /\ Of("uncompressed") = {Uncompressed(p) : p \in G1}
      /\ Of("pok") = G1
  BY <1>2, <1>3, KindIs
<1>7. /\ Of("n_inner") = U32 /\ Of("n_limbs") = U32 /\ Of("scalar") = Scalars
  BY <1>2, <1>3, KindIs
<1>8. /\ "alpha" \in Names /\ "beta" \in Names /\ "gamma" \in Names /\ "delta" \in Names
      /\ "ic_count" \in Names /\ "ic" \in Names /\ "vk_nC" \in Names /\ "pedersen_G" \in Names
      /\ "pedersen_GSigmaNeg" \in Names /\ "committed_count" \in Names
      /\ "committed_index" \in Names /\ "a" \in Names /\ "b" \in Names /\ "c" \in Names
      /\ "proof_nC" \in Names /\ "commitment" \in Names /\ "uncompressed" \in Names
      /\ "pok" \in Names /\ "n_inner" \in Names /\ "n_limbs" \in Names /\ "scalar" \in Names
  BY KindIs
<1>9. /\ Read["alpha"] = G1 /\ Read["beta"] = G2 /\ Read["gamma"] = G2 /\ Read["delta"] = G2
      /\ Read["ic_count"] = U32 /\ Read["ic"] = G1 /\ Read["vk_nC"] = U32
  BY <1>1, <1>4, <1>8
<1>10. /\ Read["pedersen_G"] = G2 /\ Read["pedersen_GSigmaNeg"] = G2
      /\ Read["committed_count"] = U32 /\ Read["committed_index"] = Seq(U32)
  BY <1>1, <1>5, <1>8
<1>11. /\ Read["a"] = G1 /\ Read["b"] = G2 /\ Read["c"] = G1 /\ Read["proof_nC"] = U32
      /\ Read["commitment"] = G1 /\ Read["uncompressed"] = {Uncompressed(p) : p \in G1}
      /\ Read["pok"] = G1
  BY <1>1, <1>6, <1>8
<1>12. /\ Read["n_inner"] = U32 /\ Read["n_limbs"] = U32 /\ Read["scalar"] = Scalars
  BY <1>1, <1>7, <1>8
<1> QED
  BY <1>9, <1>10, <1>11, <1>12

-----------------------------------------------------------------------------
(* Reading one value                                                       *)

\* A value as the parsers keep it, and back in cells.
Item(f, v) == IF Width(f) = 1 THEN v[1] ELSE v
Cells(f, x) == IF Width(f) = 1 THEN <<x>> ELSE x

\* The cells of one field, as the parsers take them.
Good(f, v) ==
  /\ v \in Seq(Cell) /\ Len(v) = Width(f) /\ Decodes(f, v)
  /\ f = "uncompressed" => v \in {Uncompressed(p) : p \in G1}

\* Values of all the fields.
Typed(g) == DOMAIN g = Names /\ \A f \in Names : g[f] \in Seq(Read[f])

\* Every value is written in cells.
LEMMA ValuesAreCells ==
  /\ G1 \subseteq Cell /\ Scalars \subseteq Cell /\ U32 = Cell
  /\ \A x \in G2 : x \in Seq(Cell) /\ Len(x) = 2
  /\ \A p \in G1 : Uncompressed(p) \in Seq(Cell) /\ Len(Uncompressed(p)) = 2
<1>1. MaxCell \in Nat /\ NPoints \in 1..MaxCell /\ Order \in 1..MaxCell
  BY CardanoWireAssumption
<1>2. \A p \in G1 : p \in Cell /\ p + 1 \in Cell
  BY <1>1 DEF G1, Cell
<1>3. \A x, y \in Cell : <<x, y>> \in Seq(Cell) /\ Len(<<x, y>>) = 2
  OBVIOUS
<1>4. \A x \in G2 : x \in Seq(Cell) /\ Len(x) = 2
  BY <1>2, <1>3 DEF G2
<1>5. \A p \in G1 : Uncompressed(p) \in Seq(Cell) /\ Len(Uncompressed(p)) = 2
  BY <1>2, <1>3 DEF Uncompressed
<1>6. Scalars \subseteq Cell
  BY <1>1 DEF Scalars, Cell
<1> QED
  BY <1>2, <1>4, <1>5, <1>6 DEF U32

\* A value that is read is one of its field.
LEMMA ItemTyped ==
  ASSUME NEW f \in Names, NEW v, Good(f, v)
  PROVE  /\ f # "committed_index" => Item(f, v) \in Read[f]
         /\ f = "committed_index" => Item(f, v) \in U32
<1>1. v \in Seq(Cell) /\ Len(v) = Width(f) /\ Decodes(f, v)
      /\ (f = "uncompressed" => v \in {Uncompressed(p) : p \in G1})
  BY DEF Good
<1>2. Width(f) = 1 => v[1] \in Cell
  BY <1>1
<1>3. CASE Kind[f] = "g1"
  <2>1. Width(f) = 1 /\ v[1] \in G1
    BY <1>1, <1>3 DEF Width, Decodes
  <2>2. f \in {"alpha", "ic", "a", "c", "commitment", "pok"}
    BY <1>3, KindIs
  <2> QED
    BY <2>1, <2>2, ReadIs, KindIs DEF Item
<1>4. CASE Kind[f] = "g2"
  <2>1. Width(f) = 2 /\ v \in G2
    BY <1>1, <1>4 DEF Width, Decodes
  <2>2. f \in {"beta", "gamma", "delta", "pedersen_G", "pedersen_GSigmaNeg", "b"}
    BY <1>4, KindIs
  <2> QED
    BY <2>1, <2>2, ReadIs, KindIs DEF Item
<1>5. CASE Kind[f] = "u32"
  <2>1. Width(f) = 1 /\ v[1] \in U32
    BY <1>2, <1>5 DEF Width, U32
  <2>2. f \in {"ic_count", "vk_nC", "committed_count", "committed_index", "proof_nC", "n_inner",
               "n_limbs"}
    BY <1>5, KindIs
  <2> QED
    BY <2>1, <2>2, ReadIs, KindIs DEF Item
<1>6. CASE Kind[f] = "raw"
  <2>1. Width(f) = 2
    BY <1>6 DEF Width
  <2>2. f = "uncompressed"
    BY <1>6, KindIs
  <2> QED
    BY <1>1, <2>1, <2>2, ReadIs DEF Item
<1>7. CASE Kind[f] = "scalar"
  <2>1. Width(f) = 1 /\ v[1] \in Scalars
    BY <1>1, <1>7 DEF Width, Decodes
  <2>2. f = "scalar"
    BY <1>7, KindIs
  <2> QED
    BY <2>1, <2>2, ReadIs, KindIs DEF Item
<1>8. Kind[f] \in {"g1", "g2", "u32", "raw", "scalar"}
  BY KindIs
<1> QED
  BY <1>3, <1>4, <1>5, <1>6, <1>7, <1>8

\* Append, by name: its facts without its elements.
Add(s, x) == Append(s, x)

\* In p the values g have one more of the field f, x.
OneMore(g, f, x, p) ==
  /\ f # "committed_index" => p[f] = Add(g[f], x)
  /\ f = "committed_count" => p["committed_index"] = Add(g["committed_index"], <<>>)
  /\ f = "committed_index" =>
       /\ Len(p[f]) = Len(g[f])
       /\ p[f][Len(g[f])] = Add(g[f][Len(g[f])], x)
       /\ \A j \in 1..Len(g[f]) - 1 : p[f][j] = g[f][j]
  /\ \A h \in Names \ {f} :
       (f = "committed_count" => h # "committed_index") => p[h] = g[h]

\* What reading a value changes.
LEMMA PushedIs ==
  ASSUME NEW g, Typed(g), NEW f \in Names, NEW v, Good(f, v),
         f = "committed_index" => g[f] # <<>>
  PROVE  Typed(Pushed(g, f, v)) /\ OneMore(g, f, Item(f, v), Pushed(g, f, v))
<1> DEFINE p == Pushed(g, f, v)
           n == Len(g[f])
           x == Item(f, v)
<1>0. DOMAIN g = Names /\ \A h \in Names : g[h] \in Seq(Read[h])
  BY DEF Typed
<1>a. "committed_index" \in Names /\ "committed_count" \in Names
      /\ Read["committed_index"] = Seq(U32) /\ Width("committed_index") = 1
  BY KindIs, ReadIs, WidthIs
<1>1. CASE f = "committed_count"
  <2>1. p = [g EXCEPT !["committed_count"] = Append(@, x),
                      !["committed_index"] = Append(@, <<>>)]
    BY <1>1 DEF Pushed, Item
  <2>2. p.committed_count = Append(g.committed_count, x)
        /\ p.committed_index = Append(g.committed_index, <<>>)
        /\ DOMAIN p = Names
        /\ \A h \in Names \ {"committed_count", "committed_index"} : p[h] = g[h]
    BY <1>0, <1>a, <2>1
  <2>3. x \in Read["committed_count"] /\ <<>> \in Seq(U32)
    BY <1>1, ItemTyped
  <2>4. p.committed_count \in Seq(Read["committed_count"])
    BY <1>0, <1>a, <2>2, <2>3, AppendProperties
  <2>5. p.committed_index \in Seq(Read["committed_index"])
    BY <1>0, <1>a, <2>2, <2>3, AppendProperties
  <2>6. Typed(p)
    BY <1>0, <2>2, <2>4, <2>5 DEF Typed
  <2>7. p["committed_index"] = Add(g["committed_index"], <<>>) /\ p[f] = Add(g[f], x)
    BY <1>1, <2>2 DEF Add
  <2> HIDE DEF p, x
  <2>8. f # "committed_index"
        /\ \A h \in Names \ {f} :
             (f = "committed_count" => h # "committed_index") => p[h] = g[h]
    BY <1>1, <2>2
  <2>9. OneMore(g, f, x, p)
    BY <2>7, <2>8 DEF OneMore
  <2> QED
    BY <2>6, <2>9 DEF p, x
<1>2. CASE f = "committed_index"
  <2>0. g[f] \in Seq(Seq(U32)) /\ n = Len(g[f]) /\ n \in 1..n
    <3>1. g[f] \in Seq(Seq(U32)) /\ g[f] # <<>>
      BY <1>0, <1>2, <1>a
    <3> QED
      BY <3>1, EmptySeq
  <2>1. p = [g EXCEPT ![f] = [g[f] EXCEPT ![n] = Append(g[f][n], x)]]
    <3>1. p = [g EXCEPT ![f][Len(g[f])] = Append(@, x)]
      BY <1>2 DEF Pushed, Item
    <3> HIDE DEF p, x, n
    <3>2. p = [g EXCEPT ![f] = [g[f] EXCEPT ![Len(g[f])] = Append(g[f][Len(g[f])], x)]]
      BY <3>1
    <3> QED
      BY <2>0, <3>2
  <2> HIDE DEF p, n
  <2>2. p[f] = [g[f] EXCEPT ![n] = Append(g[f][n], x)] /\ DOMAIN p = Names
        /\ \A h \in Names \ {f} : p[h] = g[h]
    BY <1>0, <2>1
  <2>3. x \in U32
    BY <1>2, ItemTyped
  <2> DEFINE y == Add(g[f][n], x)
  <2>4. y \in Seq(U32)
    BY <2>0, <2>3 DEF Add
  <2>5. p[f] = [g[f] EXCEPT ![n] = y]
    BY <2>2 DEF Add
  <2> HIDE DEF y
  <2>6. /\ p[f] \in Seq(Seq(U32)) /\ Len(p[f]) = n
        /\ \A j \in 1..n : p[f][j] = IF j = n THEN y ELSE g[f][j]
    BY <2>0, <2>4, <2>5, ExceptSeq
  <2>7. Typed(p)
    BY <1>0, <1>2, <1>a, <2>2, <2>6 DEF Typed
  <2>a. n \in Nat /\ n \in 1..n
    BY <2>0
  <2>b. p[f][n] = y
    BY <2>6, <2>a
  <2>c. \A j \in 1..n - 1 : j \in 1..n /\ j # n
    BY <2>a
  <2>d. \A j \in 1..n - 1 : p[f][j] = g[f][j]
    BY <2>6, <2>c
  <2>8. p[f][n] = y /\ \A j \in 1..n - 1 : p[f][j] = g[f][j]
    BY <2>b, <2>d
  <2>9. f # "committed_count" /\ \A h \in Names : h = f \/ p[h] = g[h]
    BY <1>2, <2>2
  <2>10. Len(p[f]) = Len(g[f]) /\ p[f][Len(g[f])] = Add(g[f][Len(g[f])], x)
         /\ \A j \in 1..Len(g[f]) - 1 : p[f][j] = g[f][j]
    BY <2>6, <2>8 DEF n, y
  <2>11. OneMore(g, f, x, p)
    BY <1>2, <2>9, <2>10 DEF OneMore
  <2> QED
    BY <2>7, <2>11 DEF p
<1>3. CASE f \notin {"committed_count", "committed_index"}
  <2>1. p = [g EXCEPT ![f] = Append(@, x)]
    BY <1>3 DEF Pushed, Item
  <2>2. p[f] = Append(g[f], x) /\ DOMAIN p = Names /\ \A h \in Names \ {f} : p[h] = g[h]
    BY <1>0, <2>1
  <2>3. x \in Read[f]
    BY <1>3, ItemTyped
  <2>4. p[f] \in Seq(Read[f])
    BY <1>0, <2>2, <2>3, AppendProperties
  <2>5. Typed(p)
    BY <1>0, <2>2, <2>4 DEF Typed
  <2> HIDE DEF p, x
  <2>6. f # "committed_count" /\ f # "committed_index" /\ p[f] = Add(g[f], x)
    BY <1>3, <2>2 DEF Add
  <2>7. \A h \in Names : h = f \/ p[h] = g[h]
    BY <2>2
  <2>8. OneMore(g, f, x, p)
    BY <2>6, <2>7 DEF OneMore
  <2> QED
    BY <2>5, <2>8 DEF p, x
<1> QED
  BY <1>1, <1>2, <1>3

-----------------------------------------------------------------------------
(* What was written of a field                                             *)

\* The field that follows each field.
LEMMA AfterIs ==
  ASSUME NEW g
  PROVE  /\ After("alpha", g) = "beta" /\ After("beta", g) = "gamma" /\ After("gamma", g) = "delta"
         /\ After("delta", g) = "ic_count"
         /\ \A f \in {"ic_count", "ic"} : After(f, g) =
              IF Len(g.ic) < g.ic_count[1] THEN "ic" ELSE "vk_nC"
         /\ After("vk_nC", g) = IF 0 < g.vk_nC[1] THEN "pedersen_G" ELSE "end"
         /\ After("pedersen_G", g) = "pedersen_GSigmaNeg"
         /\ After("pedersen_GSigmaNeg", g) = "committed_count"
         /\ \A f \in {"committed_count", "committed_index"} : After(f, g) =
              IF Len(Last(g.committed_index)) < Last(g.committed_count) THEN "committed_index"
              ELSE IF Len(g.pedersen_G) < g.vk_nC[1] THEN "pedersen_G" ELSE "end"
         /\ After("a", g) = "b" /\ After("b", g) = "c" /\ After("c", g) = "proof_nC"
         /\ \A f \in {"proof_nC", "uncompressed"} : After(f, g) =
              IF Len(g.commitment) < g.proof_nC[1] THEN "commitment" ELSE "pok"
         /\ After("commitment", g) = "uncompressed" /\ After("pok", g) = "end"
         /\ After("n_inner", g) = "n_limbs"
         /\ \A f \in {"n_limbs", "scalar"} : After(f, g) =
              IF Len(g.scalar) < g.n_inner[1] THEN "scalar" ELSE "end"
<1>1. DOMAIN Successor = {"alpha", "beta", "gamma", "delta", "pedersen_G", "pedersen_GSigmaNeg",
                          "a", "b", "c", "commitment", "pok", "n_inner"}
  BY DEF Successor
<1>2. /\ Successor["alpha"] = "beta" /\ Successor["beta"] = "gamma"
      /\ Successor["gamma"] = "delta" /\ Successor["delta"] = "ic_count"
      /\ Successor["pedersen_G"] = "pedersen_GSigmaNeg"
      /\ Successor["pedersen_GSigmaNeg"] = "committed_count"
  BY DEF Successor
<1>3. /\ Successor["a"] = "b" /\ Successor["b"] = "c" /\ Successor["c"] = "proof_nC"
      /\ Successor["commitment"] = "uncompressed" /\ Successor["pok"] = "end"
      /\ Successor["n_inner"] = "n_limbs"
  BY DEF Successor
<1>4. /\ After("alpha", g) = "beta" /\ After("beta", g) = "gamma" /\ After("gamma", g) = "delta"
      /\ After("delta", g) = "ic_count" /\ After("pedersen_G", g) = "pedersen_GSigmaNeg"
      /\ After("pedersen_GSigmaNeg", g) = "committed_count"
  BY <1>1, <1>2 DEF After
<1>5. /\ After("a", g) = "b" /\ After("b", g) = "c" /\ After("c", g) = "proof_nC"
      /\ After("commitment", g) = "uncompressed" /\ After("pok", g) = "end"
      /\ After("n_inner", g) = "n_limbs"
  BY <1>1, <1>3 DEF After
<1>6. /\ \A f \in {"ic_count", "ic"} : After(f, g) =
           IF Len(g.ic) < g.ic_count[1] THEN "ic" ELSE "vk_nC"
      /\ After("vk_nC", g) = IF 0 < g.vk_nC[1] THEN "pedersen_G" ELSE "end"
  BY <1>1 DEF After
<1>7. \A f \in {"committed_count", "committed_index"} : After(f, g) =
        IF Len(Last(g.committed_index)) < Last(g.committed_count) THEN "committed_index"
        ELSE IF Len(g.pedersen_G) < g.vk_nC[1] THEN "pedersen_G" ELSE "end"
  BY <1>1 DEF After
<1>8. \A f \in {"proof_nC", "uncompressed"} : After(f, g) =
        IF Len(g.commitment) < g.proof_nC[1] THEN "commitment" ELSE "pok"
  BY <1>1 DEF After
<1>9. \A f \in {"n_limbs", "scalar"} : After(f, g) =
        IF Len(g.scalar) < g.n_inner[1] THEN "scalar" ELSE "end"
  BY <1>1 DEF After
<1> QED
  BY <1>4, <1>5, <1>6, <1>7, <1>8, <1>9

\* What has been written of a field that is read once, or is all of a list; and of the value of a
\* field for one commitment.
Seg(g, f) == IF Width(f) = 1 THEN g[f] ELSE FlattenSeq(g[f])
Opt(g, f, j) == IF j <= Len(g[f]) THEN Cells(f, g[f][j]) ELSE <<>>
Indices(g, j) == IF j <= Len(g["committed_index"]) THEN g["committed_index"][j] ELSE <<>>

\* The cells of a value.
LEMMA CellsAre ==
  /\ \A f \in Names \ {"committed_index"} : \A x \in Read[f] :
       Cells(f, x) \in Seq(Cell) /\ Len(Cells(f, x)) = Width(f)
  /\ \A f \in Names : Width(f) = 1 => Read[f] \subseteq Cell \/ f = "committed_index"
  /\ \A f \in Names : Width(f) = 2 => Read[f] \subseteq Seq(Cell)
  /\ \A f \in Names : \A v : Good(f, v) => Cells(f, Item(f, v)) = v
<1>1. \A f \in Names : Width(f) = 1 \/ Width(f) = 2
  BY DEF Width
<1>2. ASSUME NEW f \in Names, Width(f) = 1, f # "committed_index" PROVE Read[f] \subseteq Cell
  BY <1>2, KindIs, ReadIs, WidthIs, ValuesAreCells
<1>3. ASSUME NEW f \in Names, Width(f) = 2
      PROVE  \A x \in Read[f] : x \in Seq(Cell) /\ Len(x) = 2
  <2>1. Read[f] = G2 \/ Read[f] = {Uncompressed(p) : p \in G1}
    BY <1>3, KindIs, ReadIs, WidthIs
  <2> QED
    BY <2>1, ValuesAreCells
<1>4. \A f \in Names \ {"committed_index"} : \A x \in Read[f] :
        Cells(f, x) \in Seq(Cell) /\ Len(Cells(f, x)) = Width(f)
  <2> SUFFICES ASSUME NEW f \in Names \ {"committed_index"}, NEW x \in Read[f]
               PROVE  Cells(f, x) \in Seq(Cell) /\ Len(Cells(f, x)) = Width(f)
    OBVIOUS
  <2>1. CASE Width(f) = 1
    <3>1. x \in Cell /\ Cells(f, x) = <<x>>
      BY <1>2, <2>1 DEF Cells
    <3> QED
      BY <2>1, <3>1
  <2>2. CASE Width(f) = 2
    <3>1. x \in Seq(Cell) /\ Len(x) = 2 /\ Cells(f, x) = x
      BY <1>3, <2>2 DEF Cells
    <3> QED
      BY <2>2, <3>1
  <2> QED
    BY <1>1, <2>1, <2>2
<1>5. ASSUME NEW f \in Names, NEW v, Good(f, v) PROVE Cells(f, Item(f, v)) = v
  <2>1. v \in Seq(Cell) /\ Len(v) = Width(f)
    BY <1>5 DEF Good
  <2>2. CASE Width(f) = 1
    <3>1. <<v[1]>> = v
      BY <2>1, <2>2
    <3> QED
      BY <2>2, <3>1 DEF Cells, Item
  <2>3. CASE Width(f) = 2
    BY <2>3 DEF Cells, Item
  <2> QED
    BY <1>1, <2>2, <2>3
<1> QED
  BY <1>2, <1>3, <1>4, <1>5

\* What is written of a field is cells.
LEMMA SegTyped ==
  ASSUME NEW g, Typed(g), NEW f \in Names \ {"committed_index"}
  PROVE  Seg(g, f) \in Seq(Cell)
<1>1. g[f] \in Seq(Read[f])
  BY DEF Typed
<1>2. CASE Width(f) = 1
  <2>1. Read[f] \subseteq Cell
    BY <1>2, CellsAre
  <2>2. g[f] \in Seq(Cell)
    BY <1>1, <2>1, SeqMonotonic
  <2> QED
    BY <1>2, <2>2 DEF Seg
<1>3. CASE Width(f) = 2
  <2>1. Read[f] \subseteq Seq(Cell)
    BY <1>3, CellsAre
  <2>2. g[f] \in Seq(Seq(Cell))
    BY <1>1, <2>1, SeqMonotonic
  <2> QED
    BY <1>3, <2>2, FlatTyped DEF Seg
<1> QED
  BY <1>2, <1>3 DEF Width

\* And what is written of one of its values.
LEMMA OptTyped ==
  ASSUME NEW g, Typed(g), NEW f \in Names \ {"committed_index"}, NEW j \in Nat \ {0}
  PROVE  Opt(g, f, j) \in Seq(Cell) /\ Indices(g, j) \in Seq(Cell)
<1>1. g[f] \in Seq(Read[f]) /\ g["committed_index"] \in Seq(Seq(Cell))
  BY KindIs, ReadIs DEF Typed, U32
<1>2. CASE j <= Len(g[f])
  <2>1. g[f][j] \in Read[f]
    BY <1>1, <1>2
  <2> QED
    BY <1>1, <1>2, <2>1, CellsAre DEF Opt, Indices
<1>3. CASE ~(j <= Len(g[f]))
  BY <1>1, <1>3 DEF Opt, Indices
<1> QED
  BY <1>2, <1>3

\* A value that is read is added to what was written of its field.
LEMMA SegGrow ==
  ASSUME NEW g, Typed(g), NEW f \in Names \ {"committed_index"}, NEW x \in Read[f], NEW p,
         p[f] = Add(g[f], x)
  PROVE  Seg(p, f) = Cat(Seg(g, f), Cells(f, x))
<1>1. g[f] \in Seq(Read[f])
  BY DEF Typed
<1>2. CASE Width(f) = 1
  <2>1. Append(g[f], x) = g[f] \o <<x>>
    BY <1>1, AppendIsConcat
  <2> QED
    BY <1>2, <2>1 DEF Seg, Add, Cat, Cells
<1>3. CASE Width(f) = 2
  <2>1. Read[f] \subseteq Seq(Cell)
    BY <1>3, CellsAre
  <2>2. g[f] \in Seq(Seq(Cell)) /\ x \in Seq(Cell)
    BY <1>1, <2>1, SeqMonotonic
  <2>3. FlattenSeq(Append(g[f], x)) = FlattenSeq(g[f]) \o x
    BY <2>2, FlatAppend
  <2>4. Seg(p, f) = FlattenSeq(p[f]) /\ Seg(g, f) = FlattenSeq(g[f]) /\ Cells(f, x) = x
    BY <1>3 DEF Seg, Cells
  <2> QED
    BY <2>3, <2>4 DEF Add, Cat
<1> QED
  BY <1>2, <1>3 DEF Width

\* A value that is read becomes what is written at its place, and changes no other.
LEMMA OptGrow ==
  ASSUME NEW g, Typed(g), NEW f \in Names \ {"committed_index"}, NEW x \in Read[f], NEW p,
         p[f] = Add(g[f], x)
  PROVE  /\ Len(p[f]) = Len(g[f]) + 1
         /\ \A j \in 1..Len(g[f]) : Opt(p, f, j) = Opt(g, f, j)
         /\ Opt(g, f, Len(g[f]) + 1) = <<>> /\ Opt(p, f, Len(g[f]) + 1) = Cells(f, x)
<1> DEFINE n == Len(g[f])
<1>1. g[f] \in Seq(Read[f])
  BY DEF Typed
<1>2. /\ n \in Nat /\ Len(p[f]) = n + 1 /\ p[f][n + 1] = x
      /\ \A j \in 1..n : p[f][j] = g[f][j]
  BY <1>1, AppendProperties DEF Add
<1> HIDE DEF n
<1>3. \A j \in 1..n : j <= n /\ j <= n + 1
  BY <1>2
<1>4. ~(n + 1 <= n) /\ n + 1 <= n + 1
  BY <1>2
<1>5. \A j \in 1..n : Opt(p, f, j) = Opt(g, f, j)
  BY <1>2, <1>3 DEF Opt, n
<1>6. Opt(g, f, n + 1) = <<>> /\ Opt(p, f, n + 1) = Cells(f, x)
  BY <1>2, <1>4 DEF Opt, n
<1> QED
  BY <1>2, <1>5, <1>6 DEF n

-----------------------------------------------------------------------------
(* What was written of a file                                              *)

\* What has been written of a file when the values g were read of it, part by part.
KeyParts(g, j) ==
  <<Opt(g, "pedersen_G", j), Opt(g, "pedersen_GSigmaNeg", j), Opt(g, "committed_count", j),
    Indices(g, j)>>
Keys(g) == [j \in 1..Len(g["pedersen_G"]) |-> FlattenSeq(KeyParts(g, j))]

CopyParts(g, j) == <<Opt(g, "commitment", j), Opt(g, "uncompressed", j)>>
Copies(g) == [j \in 1..Len(g["commitment"]) |-> FlattenSeq(CopyParts(g, j))]

VKHead == <<"alpha", "beta", "gamma", "delta", "ic_count", "ic", "vk_nC">>
VKParts(g) ==
  <<Seg(g, "alpha"), Seg(g, "beta"), Seg(g, "gamma"), Seg(g, "delta"), Seg(g, "ic_count"),
    Seg(g, "ic"), Seg(g, "vk_nC"), FlattenSeq(Keys(g))>>

ProofHead == <<"a", "b", "c", "proof_nC">>
ProofParts(g) ==
  <<Seg(g, "a"), Seg(g, "b"), Seg(g, "c"), Seg(g, "proof_nC"), FlattenSeq(Copies(g)),
    Seg(g, "pok")>>

PublicHead == <<"n_inner", "n_limbs", "scalar">>
PublicParts(g) == <<Seg(g, "n_inner"), Seg(g, "n_limbs"), Seg(g, "scalar")>>

\* The fields before the keys, before the commitments, and of the public inputs, in order.
LEMMA HeadsAre ==
  /\ VKHead[1] = "alpha" /\ VKHead[2] = "beta" /\ VKHead[3] = "gamma" /\ VKHead[4] = "delta"
  /\ VKHead[5] = "ic_count" /\ VKHead[6] = "ic" /\ VKHead[7] = "vk_nC"
  /\ ProofHead[1] = "a" /\ ProofHead[2] = "b" /\ ProofHead[3] = "c" /\ ProofHead[4] = "proof_nC"
  /\ PublicHead[1] = "n_inner" /\ PublicHead[2] = "n_limbs" /\ PublicHead[3] = "scalar"
  BY DEF VKHead, ProofHead, PublicHead

\* The parts of the keys are cells, four to a key.
LEMMA KeysTyped ==
  ASSUME NEW g, Typed(g)
  PROVE  /\ Len(g["pedersen_G"]) \in Nat
         /\ \A j \in 1..Len(g["pedersen_G"]) :
              /\ KeyParts(g, j) \in Seq(Seq(Cell)) /\ Len(KeyParts(g, j)) = 4
              /\ KeyParts(g, j)[1] = Opt(g, "pedersen_G", j)
              /\ KeyParts(g, j)[2] = Opt(g, "pedersen_GSigmaNeg", j)
              /\ KeyParts(g, j)[3] = Opt(g, "committed_count", j)
              /\ KeyParts(g, j)[4] = Indices(g, j)
              /\ Keys(g)[j] = FlattenSeq(KeyParts(g, j))
         /\ Keys(g) \in Seq(Seq(Cell)) /\ Len(Keys(g)) = Len(g["pedersen_G"])
         /\ FlattenSeq(Keys(g)) \in Seq(Cell)
<1> DEFINE n == Len(g["pedersen_G"])
<1>1. n \in Nat
  BY KindIs DEF Typed
<1> HIDE DEF n
<1>2. ASSUME NEW j \in 1..n
      PROVE  /\ KeyParts(g, j) \in Seq(Seq(Cell)) /\ Len(KeyParts(g, j)) = 4
             /\ KeyParts(g, j)[1] = Opt(g, "pedersen_G", j)
             /\ KeyParts(g, j)[2] = Opt(g, "pedersen_GSigmaNeg", j)
             /\ KeyParts(g, j)[3] = Opt(g, "committed_count", j)
             /\ KeyParts(g, j)[4] = Indices(g, j)
  <2>1. j \in Nat \ {0}
    BY <1>1
  <2>2. /\ Opt(g, "pedersen_G", j) \in Seq(Cell) /\ Opt(g, "pedersen_GSigmaNeg", j) \in Seq(Cell)
        /\ Opt(g, "committed_count", j) \in Seq(Cell) /\ Indices(g, j) \in Seq(Cell)
    BY <2>1, OptTyped, KindIs
  <2> QED
    BY <2>2 DEF KeyParts
<1>3. \A j \in 1..n : FlattenSeq(KeyParts(g, j)) \in Seq(Cell)
  BY <1>2, FlatTyped
<1>4. /\ Keys(g) = [j \in 1..n |-> FlattenSeq(KeyParts(g, j))]
      /\ \A j \in 1..n : Keys(g)[j] = FlattenSeq(KeyParts(g, j))
  BY DEF Keys, n
<1>5. Keys(g) \in Seq(Seq(Cell)) /\ Len(Keys(g)) = n
  BY <1>1, <1>3, <1>4
<1>6. FlattenSeq(Keys(g)) \in Seq(Cell)
  BY <1>5, FlatTyped
<1> QED
  BY <1>1, <1>2, <1>4, <1>5, <1>6 DEF n

\* The parts of the commitments are cells, two to a commitment.
LEMMA CopiesTyped ==
  ASSUME NEW g, Typed(g)
  PROVE  /\ Len(g["commitment"]) \in Nat
         /\ \A j \in 1..Len(g["commitment"]) :
              /\ CopyParts(g, j) \in Seq(Seq(Cell)) /\ Len(CopyParts(g, j)) = 2
              /\ CopyParts(g, j)[1] = Opt(g, "commitment", j)
              /\ CopyParts(g, j)[2] = Opt(g, "uncompressed", j)
              /\ Copies(g)[j] = FlattenSeq(CopyParts(g, j))
         /\ Copies(g) \in Seq(Seq(Cell)) /\ Len(Copies(g)) = Len(g["commitment"])
         /\ FlattenSeq(Copies(g)) \in Seq(Cell)
<1> DEFINE n == Len(g["commitment"])
<1>1. n \in Nat
  BY KindIs DEF Typed
<1> HIDE DEF n
<1>2. ASSUME NEW j \in 1..n
      PROVE  /\ CopyParts(g, j) \in Seq(Seq(Cell)) /\ Len(CopyParts(g, j)) = 2
             /\ CopyParts(g, j)[1] = Opt(g, "commitment", j)
             /\ CopyParts(g, j)[2] = Opt(g, "uncompressed", j)
  <2>1. j \in Nat \ {0}
    BY <1>1
  <2>2. Opt(g, "commitment", j) \in Seq(Cell) /\ Opt(g, "uncompressed", j) \in Seq(Cell)
    BY <2>1, OptTyped, KindIs
  <2> QED
    BY <2>2 DEF CopyParts
<1>3. \A j \in 1..n : FlattenSeq(CopyParts(g, j)) \in Seq(Cell)
  BY <1>2, FlatTyped
<1>4. /\ Copies(g) = [j \in 1..n |-> FlattenSeq(CopyParts(g, j))]
      /\ \A j \in 1..n : Copies(g)[j] = FlattenSeq(CopyParts(g, j))
  BY DEF Copies, n
<1>5. Copies(g) \in Seq(Seq(Cell)) /\ Len(Copies(g)) = n
  BY <1>1, <1>3, <1>4
<1>6. FlattenSeq(Copies(g)) \in Seq(Cell)
  BY <1>5, FlatTyped
<1> QED
  BY <1>1, <1>2, <1>4, <1>5, <1>6 DEF n

\* The parts of each file are cells, one for each of its fields that is no loop.
LEMMA PartsTyped ==
  ASSUME NEW g, Typed(g)
  PROVE  /\ VKParts(g) \in Seq(Seq(Cell)) /\ Len(VKParts(g)) = 8
         /\ \A k \in 1..7 : VKParts(g)[k] = Seg(g, VKHead[k])
         /\ VKParts(g)[8] = FlattenSeq(Keys(g))
         /\ ProofParts(g) \in Seq(Seq(Cell)) /\ Len(ProofParts(g)) = 6
         /\ \A k \in 1..4 : ProofParts(g)[k] = Seg(g, ProofHead[k])
         /\ ProofParts(g)[5] = FlattenSeq(Copies(g)) /\ ProofParts(g)[6] = Seg(g, "pok")
         /\ PublicParts(g) \in Seq(Seq(Cell)) /\ Len(PublicParts(g)) = 3
         /\ \A k \in 1..3 : PublicParts(g)[k] = Seg(g, PublicHead[k])
<1>1. \A f \in Names \ {"committed_index"} : Seg(g, f) \in Seq(Cell)
  BY SegTyped
<1>2. FlattenSeq(Keys(g)) \in Seq(Cell) /\ FlattenSeq(Copies(g)) \in Seq(Cell)
  BY KeysTyped, CopiesTyped
<1>3. /\ Seg(g, "alpha") \in Seq(Cell) /\ Seg(g, "beta") \in Seq(Cell)
      /\ Seg(g, "gamma") \in Seq(Cell) /\ Seg(g, "delta") \in Seq(Cell)
      /\ Seg(g, "ic_count") \in Seq(Cell) /\ Seg(g, "ic") \in Seq(Cell)
      /\ Seg(g, "vk_nC") \in Seq(Cell)
  BY <1>1, KindIs
<1>4. /\ Seg(g, "a") \in Seq(Cell) /\ Seg(g, "b") \in Seq(Cell) /\ Seg(g, "c") \in Seq(Cell)
      /\ Seg(g, "proof_nC") \in Seq(Cell) /\ Seg(g, "pok") \in Seq(Cell)
  BY <1>1, KindIs
<1>5. /\ Seg(g, "n_inner") \in Seq(Cell) /\ Seg(g, "n_limbs") \in Seq(Cell)
      /\ Seg(g, "scalar") \in Seq(Cell)
  BY <1>1, KindIs
<1>6. /\ VKParts(g) \in Seq(Seq(Cell)) /\ Len(VKParts(g)) = 8
      /\ VKParts(g)[8] = FlattenSeq(Keys(g))
  BY <1>2, <1>3 DEF VKParts
<1>7. \A k \in 1..7 : VKParts(g)[k] = Seg(g, VKHead[k])
  BY HeadsAre DEF VKParts
<1>8. /\ ProofParts(g) \in Seq(Seq(Cell)) /\ Len(ProofParts(g)) = 6
      /\ ProofParts(g)[5] = FlattenSeq(Copies(g)) /\ ProofParts(g)[6] = Seg(g, "pok")
  BY <1>2, <1>4 DEF ProofParts
<1>9. \A k \in 1..4 : ProofParts(g)[k] = Seg(g, ProofHead[k])
  BY HeadsAre DEF ProofParts
<1>10. PublicParts(g) \in Seq(Seq(Cell)) /\ Len(PublicParts(g)) = 3
  BY <1>5 DEF PublicParts
<1>11. \A k \in 1..3 : PublicParts(g)[k] = Seg(g, PublicHead[k])
  BY HeadsAre DEF PublicParts
<1> QED
  BY <1>6, <1>7, <1>8, <1>9, <1>10, <1>11

\* No field is twice among those before a loop, and none of them belongs to the loop.
LEMMA HeadNames ==
  /\ \A k \in 1..7 : VKHead[k] \in Names \ {"committed_index", "committed_count", "pedersen_G",
                                            "pedersen_GSigmaNeg"}
  /\ \A j, k \in 1..7 : j # k => VKHead[j] # VKHead[k]
  /\ \A k \in 1..4 : ProofHead[k] \in Names \ {"committed_index", "committed_count",
                                               "commitment", "uncompressed", "pok"}
  /\ \A j, k \in 1..4 : j # k => ProofHead[j] # ProofHead[k]
  /\ \A k \in 1..3 : PublicHead[k] \in Names \ {"committed_index", "committed_count"}
  /\ \A j, k \in 1..3 : j # k => PublicHead[j] # PublicHead[k]
<1>1. \A k \in 1..7 : VKHead[k] \in Names \ {"committed_index", "committed_count", "pedersen_G",
                                            "pedersen_GSigmaNeg"}
  BY KindIs, HeadsAre
<1>2. \A j, k \in 1..7 : j # k => VKHead[j] # VKHead[k]
  BY HeadsAre
<1>3. \A k \in 1..4 : ProofHead[k] \in Names \ {"committed_index", "committed_count",
                                                "commitment", "uncompressed", "pok"}
  BY KindIs, HeadsAre
<1>4. \A j, k \in 1..4 : j # k => ProofHead[j] # ProofHead[k]
  BY HeadsAre
<1>5. \A k \in 1..3 : PublicHead[k] \in Names \ {"committed_index", "committed_count"}
  BY KindIs, HeadsAre
<1>6. \A j, k \in 1..3 : j # k => PublicHead[j] # PublicHead[k]
  BY HeadsAre
<1> QED
  BY <1>1, <1>2, <1>3, <1>4, <1>5, <1>6

\* Nothing is written of a field that has not been read.
LEMMA SegEmpty ==
  ASSUME NEW g, NEW f, g[f] = <<>>
  PROVE  Seg(g, f) = <<>>
  BY FlatFew DEF Seg

\* Nor of the keys before the first.
LEMMA KeysEmpty ==
  ASSUME NEW g, g["pedersen_G"] = <<>>
  PROVE  FlattenSeq(Keys(g)) = <<>>
<1>1. Keys(g) = <<>>
  BY DEF Keys
<1> QED
  BY <1>1, FlatFew

\* Nor of the commitments.
LEMMA CopiesEmpty ==
  ASSUME NEW g, g["commitment"] = <<>>
  PROVE  FlattenSeq(Copies(g)) = <<>>
<1>1. Copies(g) = <<>>
  BY DEF Copies
<1> QED
  BY <1>1, FlatFew

\* A value of a field that is read before the keys is added to the whole.
LEMMA VKHeadGrow ==
  ASSUME NEW g, Typed(g), NEW p, Typed(p), NEW k \in 1..7, NEW x \in Read[VKHead[k]],
         OneMore(g, VKHead[k], x, p),
         \A j \in 1..7 : j > k => g[VKHead[j]] = <<>>,
         g["pedersen_G"] = <<>>
  PROVE  FlattenSeq(VKParts(p)) = Cat(FlattenSeq(VKParts(g)), Cells(VKHead[k], x))
<1> DEFINE f == VKHead[k]
           v == Cells(f, x)
           s == VKParts(g)
           t == VKParts(p)
<1>1. f \in Names \ {"committed_index", "committed_count", "pedersen_G", "pedersen_GSigmaNeg"}
  BY HeadNames
<1>2. p[f] = Add(g[f], x) /\ \A h \in Names \ {f} : p[h] = g[h]
  BY <1>1 DEF OneMore
<1>3. v \in Seq(Cell) /\ Seg(p, f) = Cat(Seg(g, f), v)
  BY <1>1, <1>2, CellsAre, SegGrow
<1>4. \A j \in 1..7 : j # k => p[VKHead[j]] = g[VKHead[j]]
  BY <1>2, HeadNames
<1>5. \A j \in 1..7 : j # k => Seg(p, VKHead[j]) = Seg(g, VKHead[j])
  BY <1>4 DEF Seg
<1>6. "pedersen_G" \in Names
  BY KindIs
<1>7. p["pedersen_G"] = <<>>
  BY <1>1, <1>2, <1>6
<1>8. FlattenSeq(Keys(g)) = <<>> /\ FlattenSeq(Keys(p)) = <<>>
  BY <1>7, KeysEmpty
<1>9. \A j \in 1..7 : j > k => Seg(g, VKHead[j]) = <<>>
  BY SegEmpty
<1>10. /\ s \in Seq(Seq(Cell)) /\ t \in Seq(Seq(Cell)) /\ Len(s) = 8 /\ Len(t) = 8
       /\ \A j \in 1..7 : s[j] = Seg(g, VKHead[j]) /\ t[j] = Seg(p, VKHead[j])
       /\ s[8] = <<>> /\ t[8] = <<>>
  BY <1>8, PartsTyped
<1> HIDE DEF s, t, v
<1>11. t[k] = s[k] \o v
  BY <1>3, <1>10 DEF Cat
<1>12. \A j \in 1..7 : (j < k => t[j] = s[j]) /\ (j > k => s[j] = <<>> /\ t[j] = <<>>)
  BY <1>5, <1>9, <1>10
<1>13. \A j \in 1..8 : j \in 1..7 \/ j = 8
  OBVIOUS
<1>a. 8 > k
  OBVIOUS
<1>14. \A j \in 1..8 : (j < k => t[j] = s[j]) /\ (j > k => s[j] = <<>> /\ t[j] = <<>>)
  BY <1>10, <1>12, <1>13, <1>a
<1>15. GrowsAt(Cell, s, t, k, v)
  BY <1>3, <1>10, <1>11, <1>14 DEF GrowsAt
<1> QED
  BY <1>15, FlatGrow DEF Cat, s, t, v

\* And what is added to the keys.
LEMMA VKKeysGrow ==
  ASSUME NEW g, Typed(g), NEW p, Typed(p), NEW v \in Seq(Cell),
         \A j \in 1..7 : p[VKHead[j]] = g[VKHead[j]],
         FlattenSeq(Keys(p)) = Cat(FlattenSeq(Keys(g)), v)
  PROVE  FlattenSeq(VKParts(p)) = Cat(FlattenSeq(VKParts(g)), v)
<1> DEFINE s == VKParts(g)
           t == VKParts(p)
<1>1. \A j \in 1..7 : Seg(p, VKHead[j]) = Seg(g, VKHead[j])
  BY DEF Seg
<1>2. /\ s \in Seq(Seq(Cell)) /\ t \in Seq(Seq(Cell)) /\ Len(s) = 8 /\ Len(t) = 8
      /\ \A j \in 1..7 : s[j] = Seg(g, VKHead[j]) /\ t[j] = Seg(p, VKHead[j])
      /\ s[8] = FlattenSeq(Keys(g)) /\ t[8] = FlattenSeq(Keys(p))
  BY PartsTyped
<1> HIDE DEF s, t
<1>3. t[8] = s[8] \o v
  BY <1>2 DEF Cat
<1>4. \A j \in 1..8 : (j < 8 => t[j] = s[j]) /\ (j > 8 => s[j] = <<>> /\ t[j] = <<>>)
  BY <1>1, <1>2
<1>5. GrowsAt(Cell, s, t, 8, v)
  BY <1>2, <1>3, <1>4 DEF GrowsAt
<1> QED
  BY <1>5, FlatGrow DEF Cat, s, t

\* The same for the fields of the proof before its commitments,
LEMMA ProofHeadGrow ==
  ASSUME NEW g, Typed(g), NEW p, Typed(p), NEW k \in 1..4, NEW x \in Read[ProofHead[k]],
         OneMore(g, ProofHead[k], x, p),
         \A j \in 1..4 : j > k => g[ProofHead[j]] = <<>>,
         g["commitment"] = <<>>, g["pok"] = <<>>
  PROVE  FlattenSeq(ProofParts(p)) = Cat(FlattenSeq(ProofParts(g)), Cells(ProofHead[k], x))
<1> DEFINE f == ProofHead[k]
           v == Cells(f, x)
           s == ProofParts(g)
           t == ProofParts(p)
<1>1. f \in Names \ {"committed_index", "committed_count", "commitment", "uncompressed", "pok"}
  BY HeadNames
<1>2. p[f] = Add(g[f], x) /\ \A h \in Names \ {f} : p[h] = g[h]
  BY <1>1 DEF OneMore
<1>3. v \in Seq(Cell) /\ Seg(p, f) = Cat(Seg(g, f), v)
  BY <1>1, <1>2, CellsAre, SegGrow
<1>4. \A j \in 1..4 : j # k => p[ProofHead[j]] = g[ProofHead[j]]
  BY <1>2, HeadNames
<1>5. \A j \in 1..4 : j # k => Seg(p, ProofHead[j]) = Seg(g, ProofHead[j])
  BY <1>4 DEF Seg
<1>6. "commitment" \in Names /\ "pok" \in Names
  BY KindIs
<1>7. p["commitment"] = <<>> /\ p["pok"] = <<>>
  BY <1>1, <1>2, <1>6
<1>8. /\ FlattenSeq(Copies(g)) = <<>> /\ FlattenSeq(Copies(p)) = <<>>
      /\ Seg(g, "pok") = <<>> /\ Seg(p, "pok") = <<>>
  BY <1>7, CopiesEmpty, SegEmpty
<1>9. \A j \in 1..4 : j > k => Seg(g, ProofHead[j]) = <<>>
  BY SegEmpty
<1>10. /\ s \in Seq(Seq(Cell)) /\ t \in Seq(Seq(Cell)) /\ Len(s) = 6 /\ Len(t) = 6
       /\ \A j \in 1..4 : s[j] = Seg(g, ProofHead[j]) /\ t[j] = Seg(p, ProofHead[j])
       /\ s[5] = <<>> /\ t[5] = <<>> /\ s[6] = <<>> /\ t[6] = <<>>
  BY <1>8, PartsTyped
<1> HIDE DEF s, t, v
<1>11. t[k] = s[k] \o v
  BY <1>3, <1>10 DEF Cat
<1>12. \A j \in 1..4 : (j < k => t[j] = s[j]) /\ (j > k => s[j] = <<>> /\ t[j] = <<>>)
  BY <1>5, <1>9, <1>10
<1>13. \A j \in 1..6 : j \in 1..4 \/ j \in {5, 6}
  OBVIOUS
<1>a. 5 > k /\ 6 > k
  OBVIOUS
<1>14. \A j \in 1..6 : (j < k => t[j] = s[j]) /\ (j > k => s[j] = <<>> /\ t[j] = <<>>)
  BY <1>10, <1>12, <1>13, <1>a
<1>15. GrowsAt(Cell, s, t, k, v)
  BY <1>3, <1>10, <1>11, <1>14 DEF GrowsAt
<1> QED
  BY <1>15, FlatGrow DEF Cat, s, t, v

\* for its commitments,
LEMMA ProofCopiesGrow ==
  ASSUME NEW g, Typed(g), NEW p, Typed(p), NEW v \in Seq(Cell),
         \A j \in 1..4 : p[ProofHead[j]] = g[ProofHead[j]],
         g["pok"] = <<>>, p["pok"] = <<>>,
         FlattenSeq(Copies(p)) = Cat(FlattenSeq(Copies(g)), v)
  PROVE  FlattenSeq(ProofParts(p)) = Cat(FlattenSeq(ProofParts(g)), v)
<1> DEFINE s == ProofParts(g)
           t == ProofParts(p)
<1>1. \A j \in 1..4 : Seg(p, ProofHead[j]) = Seg(g, ProofHead[j])
  BY DEF Seg
<1>2. Seg(g, "pok") = <<>> /\ Seg(p, "pok") = <<>>
  BY SegEmpty
<1>3. /\ s \in Seq(Seq(Cell)) /\ t \in Seq(Seq(Cell)) /\ Len(s) = 6 /\ Len(t) = 6
      /\ \A j \in 1..4 : s[j] = Seg(g, ProofHead[j]) /\ t[j] = Seg(p, ProofHead[j])
      /\ s[5] = FlattenSeq(Copies(g)) /\ t[5] = FlattenSeq(Copies(p))
      /\ s[6] = <<>> /\ t[6] = <<>>
  BY <1>2, PartsTyped
<1> HIDE DEF s, t
<1>4. t[5] = s[5] \o v
  BY <1>3 DEF Cat
<1>5. \A j \in 1..6 : (j < 5 => t[j] = s[j]) /\ (j > 5 => s[j] = <<>> /\ t[j] = <<>>)
  BY <1>1, <1>3
<1>6. GrowsAt(Cell, s, t, 5, v)
  BY <1>3, <1>4, <1>5 DEF GrowsAt
<1> QED
  BY <1>6, FlatGrow DEF Cat, s, t

\* for the proof of knowledge after them,
LEMMA ProofPokGrow ==
  ASSUME NEW g, Typed(g), NEW p, Typed(p), NEW x \in Read["pok"], OneMore(g, "pok", x, p)
  PROVE  FlattenSeq(ProofParts(p)) = Cat(FlattenSeq(ProofParts(g)), Cells("pok", x))
<1> DEFINE v == Cells("pok", x)
           s == ProofParts(g)
           t == ProofParts(p)
<1>1. "pok" \in Names \ {"committed_index"}
  BY KindIs
<1>2. p["pok"] = Add(g["pok"], x) /\ \A h \in Names \ {"pok"} : p[h] = g[h]
  BY DEF OneMore
<1>3. v \in Seq(Cell) /\ Seg(p, "pok") = Cat(Seg(g, "pok"), v)
  BY <1>1, <1>2, CellsAre, SegGrow
<1>4. \A j \in 1..4 : p[ProofHead[j]] = g[ProofHead[j]]
  BY <1>2, HeadNames
<1>5. \A j \in 1..4 : Seg(p, ProofHead[j]) = Seg(g, ProofHead[j])
  BY <1>4 DEF Seg
<1>6. p["commitment"] = g["commitment"] /\ p["uncompressed"] = g["uncompressed"]
  BY <1>2, KindIs
<1>7. Copies(p) = Copies(g)
  BY <1>6 DEF Copies, CopyParts, Opt
<1>8. /\ s \in Seq(Seq(Cell)) /\ t \in Seq(Seq(Cell)) /\ Len(s) = 6 /\ Len(t) = 6
      /\ \A j \in 1..4 : s[j] = Seg(g, ProofHead[j]) /\ t[j] = Seg(p, ProofHead[j])
      /\ s[5] = FlattenSeq(Copies(g)) /\ t[5] = FlattenSeq(Copies(p))
      /\ s[6] = Seg(g, "pok") /\ t[6] = Seg(p, "pok")
  BY PartsTyped
<1> HIDE DEF s, t, v
<1>9. t[6] = s[6] \o v
  BY <1>3, <1>8 DEF Cat
<1>10. \A j \in 1..6 : (j < 6 => t[j] = s[j]) /\ (j > 6 => s[j] = <<>> /\ t[j] = <<>>)
  BY <1>5, <1>7, <1>8
<1>11. GrowsAt(Cell, s, t, 6, v)
  BY <1>3, <1>8, <1>9, <1>10 DEF GrowsAt
<1> QED
  BY <1>11, FlatGrow DEF Cat, s, t, v

\* and for the public inputs.
LEMMA PublicGrow ==
  ASSUME NEW g, Typed(g), NEW p, Typed(p), NEW k \in 1..3, NEW x \in Read[PublicHead[k]],
         OneMore(g, PublicHead[k], x, p),
         \A j \in 1..3 : j > k => g[PublicHead[j]] = <<>>
  PROVE  FlattenSeq(PublicParts(p)) = Cat(FlattenSeq(PublicParts(g)), Cells(PublicHead[k], x))
<1> DEFINE f == PublicHead[k]
           v == Cells(f, x)
           s == PublicParts(g)
           t == PublicParts(p)
<1>1. f \in Names \ {"committed_index", "committed_count"}
  BY HeadNames
<1>2. p[f] = Add(g[f], x) /\ \A h \in Names \ {f} : p[h] = g[h]
  BY <1>1 DEF OneMore
<1>3. v \in Seq(Cell) /\ Seg(p, f) = Cat(Seg(g, f), v)
  BY <1>1, <1>2, CellsAre, SegGrow
<1>4. \A j \in 1..3 : j # k => p[PublicHead[j]] = g[PublicHead[j]]
  BY <1>2, HeadNames
<1>5. \A j \in 1..3 : j # k => Seg(p, PublicHead[j]) = Seg(g, PublicHead[j])
  BY <1>4 DEF Seg
<1>6. \A j \in 1..3 : j > k => Seg(g, PublicHead[j]) = <<>>
  BY SegEmpty
<1>7. /\ s \in Seq(Seq(Cell)) /\ t \in Seq(Seq(Cell)) /\ Len(s) = 3 /\ Len(t) = 3
      /\ \A j \in 1..3 : s[j] = Seg(g, PublicHead[j]) /\ t[j] = Seg(p, PublicHead[j])
  BY PartsTyped
<1> HIDE DEF s, t, v
<1>8. t[k] = s[k] \o v
  BY <1>3, <1>7 DEF Cat
<1>9. \A j \in 1..3 : (j < k => t[j] = s[j]) /\ (j > k => s[j] = <<>> /\ t[j] = <<>>)
  BY <1>5, <1>6, <1>7
<1>10. GrowsAt(Cell, s, t, k, v)
  BY <1>3, <1>7, <1>8, <1>9 DEF GrowsAt
<1> QED
  BY <1>10, FlatGrow DEF Cat, s, t, v

-----------------------------------------------------------------------------
(* How far each file has been read                                         *)

\* The fields of a key.
KeyFields == {"pedersen_G", "pedersen_GSigmaNeg", "committed_count", "committed_index"}

\* How far the fields of the keys have been read when f is next.
KeysStage(f, g) ==
  LET n == Len(g["pedersen_G"]) IN
  /\ Len(g["pedersen_GSigmaNeg"]) = IF f = "pedersen_GSigmaNeg" THEN n - 1 ELSE n
  /\ Len(g["committed_count"]) =
       IF f \in {"pedersen_GSigmaNeg", "committed_count"} THEN n - 1 ELSE n
  /\ Len(g["committed_index"]) = Len(g["committed_count"])
  /\ f \in KeyFields \ {"pedersen_G"} => n >= 1
  /\ \A j \in 1..Len(g["committed_index"]) :
       IF f = "committed_index" /\ j = n
       THEN Len(g["committed_index"][j]) < g["committed_count"][j]
       ELSE Len(g["committed_index"][j]) = g["committed_count"][j]

\* What is added to a part of the last key, those after it empty, is added to the keys.
LEMMA KeysLast ==
  ASSUME NEW g, Typed(g), NEW p, Typed(p), NEW n \in Nat \ {0},
         Len(g["pedersen_G"]) = n, Len(p["pedersen_G"]) = n,
         \A j \in 1..n - 1 : KeyParts(p, j) = KeyParts(g, j),
         NEW m \in 1..4, NEW v \in Seq(Cell), KeyParts(p, n)[m] = Cat(KeyParts(g, n)[m], v),
         \A i \in 1..4 : /\ i < m => KeyParts(p, n)[i] = KeyParts(g, n)[i]
                         /\ i > m => KeyParts(p, n)[i] = <<>> /\ KeyParts(g, n)[i] = <<>>
  PROVE  FlattenSeq(Keys(p)) = Cat(FlattenSeq(Keys(g)), v)
<1> DEFINE a == KeyParts(g, n)
           b == KeyParts(p, n)
           s == Keys(g)
           t == Keys(p)
<1>1. n \in 1..n /\ \A j \in 1..n : j = n \/ j \in 1..n - 1
  OBVIOUS
<1>2. a \in Seq(Seq(Cell)) /\ b \in Seq(Seq(Cell)) /\ Len(a) = 4 /\ Len(b) = 4
  BY <1>1, KeysTyped
<1>3. /\ s \in Seq(Seq(Cell)) /\ Len(s) = n /\ \A j \in 1..n : s[j] = FlattenSeq(KeyParts(g, j))
      /\ t \in Seq(Seq(Cell)) /\ Len(t) = n /\ \A j \in 1..n : t[j] = FlattenSeq(KeyParts(p, j))
  BY KeysTyped
<1>4. GrowsAt(Cell, a, b, m, v)
  <2>1. b[m] = a[m] \o v
    BY DEF Cat
  <2> HIDE DEF a, b
  <2>2. \A i \in 1..4 : (i < m => b[i] = a[i]) /\ (i > m => a[i] = <<>> /\ b[i] = <<>>)
    BY DEF a, b
  <2> QED
    BY <1>2, <2>1, <2>2 DEF GrowsAt
<1>5. FlattenSeq(b) = Cat(FlattenSeq(a), v)
  BY <1>4, FlatGrow DEF Cat
<1>6. s[n] = FlattenSeq(a) /\ t[n] = FlattenSeq(b)
  BY <1>1, <1>3
<1>7. \A j \in 1..n : j # n => t[j] = s[j]
  BY <1>1, <1>3
<1> HIDE DEF a, b, s, t
<1>8. t[n] = s[n] \o v
  BY <1>5, <1>6 DEF Cat
<1>9. \A j \in 1..n : (j < n => t[j] = s[j]) /\ (j > n => s[j] = <<>> /\ t[j] = <<>>)
  BY <1>7
<1>10. GrowsAt(Cell, s, t, n, v)
  BY <1>1, <1>3, <1>8, <1>9 DEF GrowsAt
<1> QED
  BY <1>10, FlatGrow DEF Cat, s, t

\* A value of a key that is read is added to the keys.
LEMMA KeysGrow ==
  ASSUME NEW g, Typed(g), NEW p, Typed(p), NEW f \in KeyFields, NEW x,
         IF f = "committed_index" THEN x \in U32 ELSE x \in Read[f],
         OneMore(g, f, x, p), KeysStage(f, g)
  PROVE  FlattenSeq(Keys(p)) = Cat(FlattenSeq(Keys(g)), Cells(f, x))
<1> DEFINE n == Len(g["pedersen_G"])
           v == Cells(f, x)
<1>0. /\ "pedersen_G" \in Names /\ "pedersen_GSigmaNeg" \in Names
      /\ "committed_count" \in Names /\ "committed_index" \in Names
      /\ Width("committed_index") = 1 /\ U32 = Cell /\ Read["committed_index"] = Seq(U32)
  BY KindIs, WidthIs, ReadIs DEF U32
<1>1. \A h \in Names : g[h] \in Seq(Read[h]) /\ Len(g[h]) \in Nat
  BY DEF Typed
<1>2. n \in Nat
  BY <1>0, <1>1
<1>3. v \in Seq(Cell)
  <2>1. CASE f = "committed_index"
    BY <1>0, <2>1 DEF Cells
  <2>2. CASE f # "committed_index"
    BY <1>0, <2>2, CellsAre DEF KeyFields
  <2> QED
    BY <2>1, <2>2
<1>4. Cat(<<>>, v) = v
  BY <1>3, CatFacts
<1>5. /\ Len(g["pedersen_GSigmaNeg"]) = (IF f = "pedersen_GSigmaNeg" THEN n - 1 ELSE n)
      /\ Len(g["committed_count"]) =
           (IF f \in {"pedersen_GSigmaNeg", "committed_count"} THEN n - 1 ELSE n)
      /\ Len(g["committed_index"]) = Len(g["committed_count"])
      /\ (f # "pedersen_G" => n >= 1)
  BY DEF KeysStage, KeyFields
<1>6. \A h \in Names : \A j : p[h] = g[h] => Opt(p, h, j) = Opt(g, h, j)
  BY DEF Opt
<1>7. \A j : p["committed_index"] = g["committed_index"] => Indices(p, j) = Indices(g, j)
  BY DEF Indices
<1> HIDE DEF v, n
<1>8. CASE f = "pedersen_G"
  <2>1. /\ p["pedersen_G"] = Add(g["pedersen_G"], x)
        /\ p["pedersen_GSigmaNeg"] = g["pedersen_GSigmaNeg"]
        /\ p["committed_count"] = g["committed_count"]
        /\ p["committed_index"] = g["committed_index"] /\ x \in Read["pedersen_G"]
    BY <1>0, <1>8 DEF OneMore
  <2>2. /\ Len(p["pedersen_G"]) = n + 1
        /\ \A j \in 1..n : Opt(p, "pedersen_G", j) = Opt(g, "pedersen_G", j)
        /\ Opt(p, "pedersen_G", n + 1) = v
    BY <1>0, <1>8, <2>1, OptGrow DEF n, v
  <2>3. \A j \in 1..n : KeyParts(p, j) = KeyParts(g, j)
    BY <1>0, <1>6, <1>7, <2>1, <2>2 DEF KeyParts
  <2>4. /\ Opt(p, "pedersen_GSigmaNeg", n + 1) = <<>> /\ Opt(p, "committed_count", n + 1) = <<>>
        /\ Indices(p, n + 1) = <<>>
    BY <1>2, <1>5, <1>8, <2>1 DEF Opt, Indices
  <2>5. FlattenSeq(KeyParts(p, n + 1)) = v
    <3>1. KeyParts(p, n + 1) = <<v, <<>>, <<>>, <<>> >>
      BY <2>2, <2>4 DEF KeyParts
    <3>2. FlattenSeq(<<v, <<>>, <<>>, <<>> >>) = Cat(Cat(Cat(v, <<>>), <<>>), <<>>)
      <4> DEFINE s == <<v, <<>>, <<>>, <<>> >>
      <4>1. <<>> \in Seq(Cell)
        OBVIOUS
      <4>2. s \in Seq(Seq(Cell)) /\ Len(s) = 4
        BY <1>3, <4>1
      <4>3. s[1] = v /\ s[2] = <<>> /\ s[3] = <<>> /\ s[4] = <<>>
        OBVIOUS
      <4> HIDE DEF s
      <4> QED
        BY <4>2, <4>3, FlatOf DEF s
    <3>3. Cat(v, <<>>) = v
      BY <1>3, CatFacts
    <3> QED
      BY <3>1, <3>2, <3>3
  <2>6. /\ Keys(g) \in Seq(Seq(Cell)) /\ Len(Keys(g)) = n
        /\ \A j \in 1..n : Keys(g)[j] = FlattenSeq(KeyParts(g, j))
        /\ Keys(p) \in Seq(Seq(Cell)) /\ Len(Keys(p)) = n + 1
        /\ \A j \in 1..n + 1 : Keys(p)[j] = FlattenSeq(KeyParts(p, j))
    <3>1. Len(p["pedersen_G"]) = n + 1 /\ Len(g["pedersen_G"]) = n
      BY <2>2 DEF n
    <3> QED
      BY <3>1, KeysTyped
  <2>7. Keys(p) = Append(Keys(g), v)
    <3> DEFINE s == Keys(g)
               t == Keys(p)
    <3>1. /\ s \in Seq(Seq(Cell)) /\ Len(s) = n /\ t \in Seq(Seq(Cell)) /\ Len(t) = n + 1
      BY <2>6
    <3>2. \A j \in 1..n : j \in 1..n + 1 /\ t[j] = s[j]
      BY <1>2, <2>3, <2>6
    <3>3. t[n + 1] = v
      BY <1>2, <2>5, <2>6
    <3> HIDE DEF s, t
    <3>4. /\ Append(s, v) \in Seq(Seq(Cell)) /\ Len(Append(s, v)) = n + 1
          /\ Append(s, v)[n + 1] = v /\ \A j \in 1..n : Append(s, v)[j] = s[j]
      BY <1>3, <3>1, AppendProperties
    <3>5. \A j \in 1..n + 1 : j \in 1..n \/ j = n + 1
      BY <1>2
    <3>6. \A j \in 1..n + 1 : t[j] = Append(s, v)[j]
      BY <3>2, <3>3, <3>4, <3>5
    <3>7. t = Append(s, v)
      BY <3>1, <3>4, <3>6, SeqEqual
    <3> QED
      BY <3>7 DEF s, t
  <2> QED
    BY <1>3, <2>6, <2>7, FlatAppend DEF Cat, v
<1>9. CASE f # "pedersen_G"
  <2>1. n \in Nat \ {0} /\ n = (n - 1) + 1 /\ n - 1 \in Nat
    BY <1>2, <1>5, <1>9
  <2>2. p["pedersen_G"] = g["pedersen_G"] /\ Len(g["pedersen_G"]) = n /\ Len(p["pedersen_G"]) = n
    BY <1>0, <1>9 DEF OneMore, n
  <2>3. \A j : Opt(p, "pedersen_G", j) = Opt(g, "pedersen_G", j)
    BY <1>0, <1>6, <2>2
  <2>4. /\ KeyParts(g, n)[1] = Opt(g, "pedersen_G", n) /\ KeyParts(p, n)[1] = Opt(p, "pedersen_G", n)
        /\ KeyParts(g, n)[2] = Opt(g, "pedersen_GSigmaNeg", n)
        /\ KeyParts(p, n)[2] = Opt(p, "pedersen_GSigmaNeg", n)
        /\ KeyParts(g, n)[3] = Opt(g, "committed_count", n)
        /\ KeyParts(p, n)[3] = Opt(p, "committed_count", n)
        /\ KeyParts(g, n)[4] = Indices(g, n) /\ KeyParts(p, n)[4] = Indices(p, n)
    BY DEF KeyParts
  <2>5. CASE f = "pedersen_GSigmaNeg"
    <3>1. /\ p[f] = Add(g[f], x) /\ p["committed_count"] = g["committed_count"]
          /\ p["committed_index"] = g["committed_index"] /\ x \in Read[f]
      BY <1>0, <2>5 DEF OneMore
    <3>2. Len(g[f]) = n - 1 /\ Len(g["committed_count"]) = n - 1
          /\ Len(g["committed_index"]) = n - 1
      BY <1>5, <2>5
    <3>3. /\ \A j \in 1..n - 1 : Opt(p, f, j) = Opt(g, f, j)
          /\ Opt(g, f, n) = <<>> /\ Opt(p, f, n) = v
      BY <1>0, <2>1, <2>5, <3>1, <3>2, OptGrow DEF v
    <3>4. \A j \in 1..n - 1 : KeyParts(p, j) = KeyParts(g, j)
      BY <1>0, <1>6, <1>7, <2>3, <2>5, <3>1, <3>3 DEF KeyParts
    <3>5. /\ Opt(g, "committed_count", n) = <<>> /\ Opt(p, "committed_count", n) = <<>>
          /\ Indices(g, n) = <<>> /\ Indices(p, n) = <<>>
      BY <2>1, <3>1, <3>2 DEF Opt, Indices
    <3>6. KeyParts(p, n)[2] = Cat(KeyParts(g, n)[2], v)
      BY <1>4, <2>4, <2>5, <3>3
    <3>7. \A i \in 1..4 : /\ i < 2 => KeyParts(p, n)[i] = KeyParts(g, n)[i]
                          /\ i > 2 => KeyParts(p, n)[i] = <<>> /\ KeyParts(g, n)[i] = <<>>
      BY <2>3, <2>4, <3>5
    <3> QED
      BY <1>3, <2>1, <2>2, <3>4, <3>6, <3>7, KeysLast DEF v
  <2>6. CASE f = "committed_count"
    <3>1. /\ p[f] = Add(g[f], x) /\ p["pedersen_GSigmaNeg"] = g["pedersen_GSigmaNeg"]
          /\ p["committed_index"] = Add(g["committed_index"], <<>>) /\ x \in Read[f]
      BY <1>0, <2>6 DEF OneMore
    <3>2. Len(g[f]) = n - 1 /\ Len(g["committed_index"]) = n - 1
      BY <1>5, <2>6
    <3>3. /\ \A j \in 1..n - 1 : Opt(p, f, j) = Opt(g, f, j)
          /\ Opt(g, f, n) = <<>> /\ Opt(p, f, n) = v
      BY <1>0, <2>1, <2>6, <3>1, <3>2, OptGrow DEF v
    <3>4. /\ Len(p["committed_index"]) = n /\ p["committed_index"][n] = <<>>
          /\ \A j \in 1..n - 1 : p["committed_index"][j] = g["committed_index"][j]
      <4>1. g["committed_index"] \in Seq(Seq(U32)) /\ <<>> \in Seq(U32)
        BY <1>0, <1>1
      <4> QED
        BY <2>1, <3>1, <3>2, <4>1, AppendProperties DEF Add
    <3>5. \A j \in 1..n - 1 : Indices(p, j) = Indices(g, j)
      BY <2>1, <3>2, <3>4 DEF Indices
    <3>6. Indices(g, n) = <<>> /\ Indices(p, n) = <<>>
      BY <2>1, <3>2, <3>4 DEF Indices
    <3>7. \A j : Opt(p, "pedersen_GSigmaNeg", j) = Opt(g, "pedersen_GSigmaNeg", j)
      BY <1>0, <1>6, <3>1
    <3>8. \A j \in 1..n - 1 : KeyParts(p, j) = KeyParts(g, j)
      BY <2>3, <2>6, <3>3, <3>5, <3>7 DEF KeyParts
    <3>9. KeyParts(p, n)[3] = Cat(KeyParts(g, n)[3], v)
      BY <1>4, <2>4, <2>6, <3>3
    <3>10. \A i \in 1..4 : /\ i < 3 => KeyParts(p, n)[i] = KeyParts(g, n)[i]
                           /\ i > 3 => KeyParts(p, n)[i] = <<>> /\ KeyParts(g, n)[i] = <<>>
      BY <2>3, <2>4, <3>6, <3>7
    <3> QED
      BY <1>3, <2>1, <2>2, <3>8, <3>9, <3>10, KeysLast DEF v
  <2>7. CASE f = "committed_index"
    <3>1. /\ p["committed_count"] = g["committed_count"]
          /\ p["pedersen_GSigmaNeg"] = g["pedersen_GSigmaNeg"]
      BY <1>0, <2>7 DEF OneMore
    <3>2. Len(g[f]) = n
      BY <1>5, <2>7
    <3>3. /\ Len(p[f]) = n /\ p[f][n] = Add(g[f][n], x)
          /\ \A j \in 1..n - 1 : p[f][j] = g[f][j]
      BY <2>7, <3>2 DEF OneMore
    <3>4. \A j \in 1..n - 1 : Indices(p, j) = Indices(g, j)
      BY <2>1, <2>7, <3>2, <3>3 DEF Indices
    <3>5. Indices(g, n) = g[f][n] /\ Indices(p, n) = Add(g[f][n], x)
      BY <2>1, <2>7, <3>2, <3>3 DEF Indices
    <3>6. Add(g[f][n], x) = Cat(g[f][n], v)
      <4>1. g[f][n] \in Seq(U32) /\ x \in U32
        BY <1>0, <1>1, <2>1, <2>7, <3>2
      <4>2. v = <<x>>
        BY <1>0, <2>7 DEF v, Cells
      <4>3. Append(g[f][n], x) = g[f][n] \o <<x>>
        BY <4>1, AppendIsConcat
      <4> QED
        BY <4>2, <4>3 DEF Add, Cat
    <3>7. \A j : /\ Opt(p, "pedersen_GSigmaNeg", j) = Opt(g, "pedersen_GSigmaNeg", j)
                 /\ Opt(p, "committed_count", j) = Opt(g, "committed_count", j)
      BY <1>0, <1>6, <3>1
    <3>8. \A j \in 1..n - 1 : KeyParts(p, j) = KeyParts(g, j)
      BY <2>3, <3>4, <3>7 DEF KeyParts
    <3>9. KeyParts(p, n)[4] = Cat(KeyParts(g, n)[4], v)
      BY <2>4, <3>5, <3>6
    <3>10. \A i \in 1..4 : /\ i < 4 => KeyParts(p, n)[i] = KeyParts(g, n)[i]
                           /\ i > 4 => KeyParts(p, n)[i] = <<>> /\ KeyParts(g, n)[i] = <<>>
      BY <2>3, <2>4, <3>7
    <3> QED
      BY <1>3, <2>1, <2>2, <3>8, <3>9, <3>10, KeysLast DEF v
  <2> QED
    BY <1>9, <2>5, <2>6, <2>7 DEF KeyFields
<1> QED
  BY <1>8, <1>9

\* The fields of a commitment.
CopyFields == {"commitment", "uncompressed"}

\* The same for the commitments and their copies.
CopiesStage(f, g) ==
  LET n == Len(g["commitment"]) IN
  /\ Len(g["uncompressed"]) = IF f = "uncompressed" THEN n - 1 ELSE n
  /\ f = "uncompressed" => n >= 1

\* A point that is read is added to the commitments.
LEMMA CopiesGrow ==
  ASSUME NEW g, Typed(g), NEW p, Typed(p), NEW f \in CopyFields, NEW x \in Read[f],
         OneMore(g, f, x, p), CopiesStage(f, g)
  PROVE  FlattenSeq(Copies(p)) = Cat(FlattenSeq(Copies(g)), Cells(f, x))
<1> DEFINE n == Len(g["commitment"])
           v == Cells(f, x)
<1>0. "commitment" \in Names /\ "uncompressed" \in Names
  BY KindIs
<1>1. \A h \in Names : g[h] \in Seq(Read[h]) /\ Len(g[h]) \in Nat
  BY DEF Typed
<1>2. n \in Nat
  BY <1>0, <1>1
<1>3. v \in Seq(Cell)
  BY <1>0, CellsAre DEF CopyFields
<1>4. Cat(<<>>, v) = v /\ Cat(v, <<>>) = v
  BY <1>3, CatFacts
<1>5. /\ Len(g["uncompressed"]) = (IF f = "uncompressed" THEN n - 1 ELSE n)
      /\ (f # "commitment" => n >= 1)
  BY DEF CopiesStage, CopyFields
<1>6. \A h \in Names : \A j : p[h] = g[h] => Opt(p, h, j) = Opt(g, h, j)
  BY DEF Opt
<1> HIDE DEF v, n
<1>8. CASE f = "commitment"
  <2>1. /\ p["commitment"] = Add(g["commitment"], x)
        /\ p["uncompressed"] = g["uncompressed"] /\ x \in Read["commitment"]
    BY <1>0, <1>8 DEF OneMore
  <2>2. /\ Len(p["commitment"]) = n + 1
        /\ \A j \in 1..n : Opt(p, "commitment", j) = Opt(g, "commitment", j)
        /\ Opt(p, "commitment", n + 1) = v
    BY <1>0, <1>8, <2>1, OptGrow DEF n, v
  <2>3. \A j \in 1..n : CopyParts(p, j) = CopyParts(g, j)
    BY <1>0, <1>6, <2>1, <2>2 DEF CopyParts
  <2>4. Opt(p, "uncompressed", n + 1) = <<>>
    BY <1>2, <1>5, <1>8, <2>1 DEF Opt
  <2>5. FlattenSeq(CopyParts(p, n + 1)) = v
    <3>1. CopyParts(p, n + 1) = <<v, <<>> >>
      BY <2>2, <2>4 DEF CopyParts
    <3>2. FlattenSeq(<<v, <<>> >>) = Cat(v, <<>>)
      <4> DEFINE s == <<v, <<>> >>
      <4>1. <<>> \in Seq(Cell)
        OBVIOUS
      <4>2. s \in Seq(Seq(Cell)) /\ Len(s) = 2
        BY <1>3, <4>1
      <4>3. s[1] = v /\ s[2] = <<>>
        OBVIOUS
      <4> HIDE DEF s
      <4> QED
        BY <4>2, <4>3, FlatOf DEF s
    <3> QED
      BY <1>4, <3>1, <3>2
  <2>6. /\ Copies(g) \in Seq(Seq(Cell)) /\ Len(Copies(g)) = n
        /\ \A j \in 1..n : Copies(g)[j] = FlattenSeq(CopyParts(g, j))
        /\ Copies(p) \in Seq(Seq(Cell)) /\ Len(Copies(p)) = n + 1
        /\ \A j \in 1..n + 1 : Copies(p)[j] = FlattenSeq(CopyParts(p, j))
    <3>1. Len(p["commitment"]) = n + 1 /\ Len(g["commitment"]) = n
      BY <2>2 DEF n
    <3> QED
      BY <3>1, CopiesTyped
  <2>7. Copies(p) = Append(Copies(g), v)
    <3> DEFINE s == Copies(g)
               t == Copies(p)
    <3>1. /\ s \in Seq(Seq(Cell)) /\ Len(s) = n /\ t \in Seq(Seq(Cell)) /\ Len(t) = n + 1
      BY <2>6
    <3>2. \A j \in 1..n : j \in 1..n + 1 /\ t[j] = s[j]
      BY <1>2, <2>3, <2>6
    <3>3. t[n + 1] = v
      BY <1>2, <2>5, <2>6
    <3> HIDE DEF s, t
    <3>4. /\ Append(s, v) \in Seq(Seq(Cell)) /\ Len(Append(s, v)) = n + 1
          /\ Append(s, v)[n + 1] = v /\ \A j \in 1..n : Append(s, v)[j] = s[j]
      BY <1>3, <3>1, AppendProperties
    <3>5. \A j \in 1..n + 1 : j \in 1..n \/ j = n + 1
      BY <1>2
    <3>6. \A j \in 1..n + 1 : t[j] = Append(s, v)[j]
      BY <3>2, <3>3, <3>4, <3>5
    <3>7. t = Append(s, v)
      BY <3>1, <3>4, <3>6, SeqEqual
    <3> QED
      BY <3>7 DEF s, t
  <2> QED
    BY <1>3, <2>6, <2>7, FlatAppend DEF Cat, v
<1>9. CASE f = "uncompressed"
  <2>1. n \in Nat \ {0} /\ n = (n - 1) + 1 /\ n - 1 \in Nat /\ n \in 1..n
        /\ \A j \in 1..n : j = n \/ j \in 1..n - 1
    BY <1>2, <1>5, <1>9
  <2>2. /\ p["commitment"] = g["commitment"] /\ p[f] = Add(g[f], x) /\ x \in Read[f]
        /\ Len(g[f]) = n - 1
    BY <1>0, <1>5, <1>9 DEF OneMore
  <2>3. \A j : Opt(p, "commitment", j) = Opt(g, "commitment", j)
    BY <1>0, <1>6, <2>2
  <2>4. /\ \A j \in 1..n - 1 : Opt(p, f, j) = Opt(g, f, j)
        /\ Opt(g, f, n) = <<>> /\ Opt(p, f, n) = v
    BY <1>0, <1>9, <2>1, <2>2, OptGrow DEF v
  <2>5. \A j \in 1..n - 1 : CopyParts(p, j) = CopyParts(g, j)
    BY <1>9, <2>3, <2>4 DEF CopyParts
  <2> DEFINE a == CopyParts(g, n)
             b == CopyParts(p, n)
             s == Copies(g)
             t == Copies(p)
  <2>6. /\ a \in Seq(Seq(Cell)) /\ Len(a) = 2 /\ a[1] = Opt(g, "commitment", n) /\ a[2] = <<>>
        /\ b \in Seq(Seq(Cell)) /\ Len(b) = 2 /\ b[1] = Opt(g, "commitment", n) /\ b[2] = v
    BY <1>9, <2>1, <2>2, <2>3, <2>4, CopiesTyped DEF n
  <2>7. /\ s \in Seq(Seq(Cell)) /\ Len(s) = n /\ \A j \in 1..n : s[j] = FlattenSeq(CopyParts(g, j))
        /\ t \in Seq(Seq(Cell)) /\ Len(t) = n /\ \A j \in 1..n : t[j] = FlattenSeq(CopyParts(p, j))
    <3>1. Len(g["commitment"]) = n /\ Len(p["commitment"]) = n
      BY <2>2 DEF n
    <3> QED
      BY <3>1, CopiesTyped
  <2>8. s[n] = FlattenSeq(a) /\ t[n] = FlattenSeq(b) /\ \A j \in 1..n : j # n => t[j] = s[j]
    BY <2>1, <2>5, <2>7
  <2> HIDE DEF a, b, s, t
  <2>9. GrowsAt(Cell, a, b, 2, v)
    <3>1. b[2] = a[2] \o v
      BY <1>4, <2>6 DEF Cat
    <3>2. \A i \in 1..2 : (i < 2 => b[i] = a[i]) /\ (i > 2 => a[i] = <<>> /\ b[i] = <<>>)
      BY <2>6
    <3> QED
      BY <1>3, <2>6, <3>1, <3>2 DEF GrowsAt
  <2>10. FlattenSeq(b) = Cat(FlattenSeq(a), v)
    BY <2>9, FlatGrow DEF Cat
  <2>11. t[n] = s[n] \o v
    BY <2>8, <2>10 DEF Cat
  <2>12. \A j \in 1..n : (j < n => t[j] = s[j]) /\ (j > n => s[j] = <<>> /\ t[j] = <<>>)
    BY <2>1, <2>8
  <2>13. GrowsAt(Cell, s, t, n, v)
    BY <1>3, <2>1, <2>7, <2>11, <2>12 DEF GrowsAt
  <2> QED
    BY <2>13, FlatGrow DEF Cat, s, t, v
<1> QED
  BY <1>8, <1>9 DEF CopyFields

\* The fields before the keys.
HeadFields == {"alpha", "beta", "gamma", "delta", "ic_count", "ic", "vk_nC"}
VKFields == HeadFields \cup KeyFields

\* How far the key has been read when f is next.
HeadStage(f, g) ==
  /\ Len(g["alpha"]) = IF f = "alpha" THEN 0 ELSE 1
  /\ Len(g["beta"]) = IF f \in {"alpha", "beta"} THEN 0 ELSE 1
  /\ Len(g["gamma"]) = IF f \in {"alpha", "beta", "gamma"} THEN 0 ELSE 1
  /\ Len(g["delta"]) = IF f \in {"alpha", "beta", "gamma", "delta"} THEN 0 ELSE 1
  /\ Len(g["ic_count"]) = IF f \in HeadFields \ {"ic", "vk_nC"} THEN 0 ELSE 1
  /\ f \in HeadFields \ {"ic", "vk_nC"} => Len(g["ic"]) = 0
  /\ f = "ic" => Len(g["ic"]) < g["ic_count"][1]
  /\ f \notin HeadFields \ {"vk_nC"} => Len(g["ic"]) = g["ic_count"][1]
  /\ Len(g["vk_nC"]) = IF f \in HeadFields THEN 0 ELSE 1

\* How many keys have been begun when f is next.
KeysCount(f, g) ==
  LET n == Len(g["pedersen_G"]) IN
  /\ f \in HeadFields => n = 0
  /\ f \in KeyFields => n <= g["vk_nC"][1]
  /\ f = "pedersen_G" => n < g["vk_nC"][1]
  /\ f = "end" => n = g["vk_nC"][1]

\* How far the file has been read when f is next.
VKStage(f, g) ==
  f \in VKFields \cup {"end"} /\ HeadStage(f, g) /\ KeysCount(f, g) /\ KeysStage(f, g)

\* The fields after the one that is read have not been read.
LEMMA LaterEmpty ==
  ASSUME NEW g, NEW k \in 1..7, HeadStage(VKHead[k], g)
  PROVE  \A j \in 1..7 : j > k => Len(g[VKHead[j]]) = 0
<1> DEFINE f == VKHead[k]
<1>2. /\ f \in {"alpha"} => Len(g["beta"]) = 0
      /\ f \in {"alpha", "beta"} => Len(g["gamma"]) = 0
      /\ f \in {"alpha", "beta", "gamma"} => Len(g["delta"]) = 0
      /\ f \in {"alpha", "beta", "gamma", "delta"} => Len(g["ic_count"]) = 0
      /\ f \in {"alpha", "beta", "gamma", "delta", "ic_count"} => Len(g["ic"]) = 0
      /\ f \in {"alpha", "beta", "gamma", "delta", "ic_count", "ic"} => Len(g["vk_nC"]) = 0
  BY DEF HeadStage, HeadFields
<1>3. /\ k < 2 => f \in {"alpha"}
      /\ k < 3 => f \in {"alpha", "beta"}
      /\ k < 4 => f \in {"alpha", "beta", "gamma"}
      /\ k < 5 => f \in {"alpha", "beta", "gamma", "delta"}
      /\ k < 6 => f \in {"alpha", "beta", "gamma", "delta", "ic_count"}
      /\ k < 7 => f \in {"alpha", "beta", "gamma", "delta", "ic_count", "ic"}
  BY HeadsAre
<1> HIDE DEF f
<1>4. /\ k < 2 => Len(g["beta"]) = 0
      /\ k < 3 => Len(g["gamma"]) = 0
      /\ k < 4 => Len(g["delta"]) = 0
      /\ k < 5 => Len(g["ic_count"]) = 0
      /\ k < 6 => Len(g["ic"]) = 0
      /\ k < 7 => Len(g["vk_nC"]) = 0
  BY <1>2, <1>3
<1>5. /\ k < 2 => Len(g[VKHead[2]]) = 0
      /\ k < 3 => Len(g[VKHead[3]]) = 0
      /\ k < 4 => Len(g[VKHead[4]]) = 0
      /\ k < 5 => Len(g[VKHead[5]]) = 0
      /\ k < 6 => Len(g[VKHead[6]]) = 0
      /\ k < 7 => Len(g[VKHead[7]]) = 0
  BY <1>4, HeadsAre
<1> QED
  BY <1>5

\* A value of the key that is read is added to the whole.
LEMMA VKGrow ==
  ASSUME NEW g, Typed(g), NEW f \in VKFields, VKStage(f, g), NEW v, Good(f, v)
  PROVE  LET p == Pushed(g, f, v) IN
         /\ Typed(p) /\ OneMore(g, f, Item(f, v), p)
         /\ FlattenSeq(VKParts(p)) = Cat(FlattenSeq(VKParts(g)), v)
<1> DEFINE p == Pushed(g, f, v)
           x == Item(f, v)
<1>1. f \in Names /\ "pedersen_G" \in Names /\ "committed_index" \in Names
  BY KindIs DEF VKFields, HeadFields, KeyFields
<1>2. HeadStage(f, g) /\ KeysCount(f, g) /\ KeysStage(f, g)
  BY DEF VKStage
<1>3. \A h \in Names : g[h] \in Seq(Read[h])
  BY DEF Typed
<1>4. f = "committed_index" => g[f] # <<>>
  <2>1. f = "committed_index" => Len(g["committed_index"]) >= 1
    BY <1>2 DEF KeysStage, KeyFields
  <2> QED
    BY <2>1
<1>5. Typed(p) /\ OneMore(g, f, x, p)
  BY <1>1, <1>4, PushedIs
<1>6. Cells(f, x) = v
  BY <1>1, CellsAre
<1>7. IF f = "committed_index" THEN x \in U32 ELSE x \in Read[f]
  BY <1>1, ItemTyped
<1>8. v \in Seq(Cell)
  BY DEF Good
<1> HIDE DEF p, x
<1>9. CASE f \in HeadFields
  <2>1. PICK k \in 1..7 : f = VKHead[k]
    BY <1>9, HeadsAre DEF HeadFields
  <2>2. \A j \in 1..7 : j > k => Len(g[VKHead[j]]) = 0
    BY <1>2, <2>1, LaterEmpty
  <2>3. \A j \in 1..7 : j > k => g[VKHead[j]] = <<>>
    <3> SUFFICES ASSUME NEW j \in 1..7, j > k PROVE g[VKHead[j]] = <<>>
      OBVIOUS
    <3>1. VKHead[j] \in Names
      BY HeadNames
    <3>2. g[VKHead[j]] \in Seq(Read[VKHead[j]]) /\ Len(g[VKHead[j]]) = 0
      BY <1>3, <2>2, <3>1
    <3> QED
      BY <3>2, EmptySeq
  <2>4. g["pedersen_G"] = <<>>
    <3>1. Len(g["pedersen_G"]) = 0
      BY <1>2, <1>9 DEF KeysCount
    <3> QED
      BY <1>1, <1>3, <3>1, EmptySeq
  <2>5. x \in Read[VKHead[k]] /\ OneMore(g, VKHead[k], x, p)
    BY <1>5, <1>7, <1>9, <2>1 DEF HeadFields
  <2>6. FlattenSeq(VKParts(p)) = Cat(FlattenSeq(VKParts(g)), Cells(VKHead[k], x))
    BY <1>5, <2>3, <2>4, <2>5, VKHeadGrow
  <2>7. FlattenSeq(VKParts(p)) = Cat(FlattenSeq(VKParts(g)), v)
    BY <1>6, <2>1, <2>6
  <2> QED
    BY <1>5, <2>7 DEF p, x
<1>10. CASE f \in KeyFields
  <2>1. FlattenSeq(Keys(p)) = Cat(FlattenSeq(Keys(g)), v)
    BY <1>2, <1>5, <1>6, <1>7, <1>10, KeysGrow
  <2>2. \A j \in 1..7 : p[VKHead[j]] = g[VKHead[j]]
    <3> SUFFICES ASSUME NEW j \in 1..7 PROVE p[VKHead[j]] = g[VKHead[j]]
      OBVIOUS
    <3>1. VKHead[j] \in Names \ KeyFields
      BY HeadNames DEF KeyFields
    <3>2. VKHead[j] \in Names \ {f} /\ VKHead[j] # "committed_index"
      BY <1>10, <3>1 DEF KeyFields
    <3> QED
      BY <1>5, <3>2 DEF OneMore
  <2>3. FlattenSeq(VKParts(p)) = Cat(FlattenSeq(VKParts(g)), v)
    BY <1>5, <1>8, <2>1, <2>2, VKKeysGrow
  <2> QED
    BY <1>5, <2>3 DEF p, x
<1> QED
  BY <1>9, <1>10 DEF VKFields

-----------------------------------------------------------------------------
(* A value that is read leaves the reader where the next field begins      *)

\* The counts that were read are numbers, and the lists of indices sequences.
LEMMA CountsAre ==
  ASSUME NEW g, Typed(g)
  PROVE  /\ \A h \in Names : Len(g[h]) \in Nat
         /\ \A h \in {"ic_count", "vk_nC", "proof_nC", "n_inner", "n_limbs"} :
              Len(g[h]) = 1 => g[h][1] \in Nat /\ Last(g[h]) = g[h][1]
         /\ \A j \in 1..Len(g["committed_count"]) : g["committed_count"][j] \in Nat
         /\ \A j \in 1..Len(g["committed_index"]) : g["committed_index"][j] \in Seq(U32)
<1>1. U32 \subseteq Nat
  BY CardanoWireAssumption DEF U32, Cell
<1>2. \A h \in Names : g[h] \in Seq(Read[h])
  BY DEF Typed
<1>3. /\ g["ic_count"] \in Seq(U32) /\ g["vk_nC"] \in Seq(U32) /\ g["proof_nC"] \in Seq(U32)
      /\ g["n_inner"] \in Seq(U32) /\ g["n_limbs"] \in Seq(U32)
      /\ g["committed_count"] \in Seq(U32) /\ g["committed_index"] \in Seq(Seq(U32))
  BY <1>2, KindIs, ReadIs
<1>4. \A s \in Seq(U32) : Len(s) = 1 => s[1] \in Nat /\ Last(s) = s[1]
  <2> SUFFICES ASSUME NEW s \in Seq(U32), Len(s) = 1 PROVE s[1] \in Nat /\ Last(s) = s[1]
    OBVIOUS
  <2>1. s[1] \in U32
    OBVIOUS
  <2> QED
    BY <1>1, <2>1 DEF Last
<1>5. \A j \in 1..Len(g["committed_count"]) : g["committed_count"][j] \in Nat
  <2> SUFFICES ASSUME NEW j \in 1..Len(g["committed_count"])
               PROVE  g["committed_count"][j] \in Nat
    OBVIOUS
  <2>1. g["committed_count"][j] \in U32
    BY <1>3
  <2> QED
    BY <1>1, <2>1
<1>6. \A j \in 1..Len(g["committed_index"]) : g["committed_index"][j] \in Seq(U32)
  BY <1>3
<1>7. \A h \in {"ic_count", "vk_nC", "proof_nC", "n_inner", "n_limbs"} : g[h] \in Seq(U32)
  BY <1>3
<1>8. \A h \in Names : Len(g[h]) \in Nat
  BY <1>2
<1> QED
  BY <1>4, <1>5, <1>6, <1>7, <1>8

\* What a list is when an element has been added.
LEMMA AddIs ==
  ASSUME NEW S, NEW s \in Seq(S), NEW x \in S
  PROVE  /\ Add(s, x) \in Seq(S) /\ Len(Add(s, x)) = Len(s) + 1
         /\ Add(s, x)[Len(s) + 1] = x /\ \A j \in 1..Len(s) : Add(s, x)[j] = s[j]
         /\ Last(Add(s, x)) = x
<1>1. /\ Add(s, x) \in Seq(S) /\ Len(Add(s, x)) = Len(s) + 1
      /\ Add(s, x)[Len(s) + 1] = x /\ \A j \in 1..Len(s) : Add(s, x)[j] = s[j]
  BY AppendProperties DEF Add
<1>2. Last(Add(s, x)) = x
  BY <1>1 DEF Last
<1> QED
  BY <1>1, <1>2

\* And leaves the reader where the next field begins.
LEMMA VKAfterHead ==
  ASSUME NEW g, Typed(g), NEW p, Typed(p), NEW f \in HeadFields, VKStage(f, g),
         NEW x \in Read[f], OneMore(g, f, x, p)
  PROVE  VKStage(After(f, p), p)
<1>0. /\ f \in Names /\ f # "committed_count" /\ f # "committed_index" /\ HeadFields \subseteq Names
      /\ KeyFields \subseteq Names \ {f}
  BY KindIs DEF KeyFields, HeadFields
<1>1. HeadStage(f, g) /\ KeysCount(f, g) /\ KeysStage(f, g)
  BY DEF VKStage
<1>2. \A h \in Names \ {f} : p[h] = g[h]
  BY <1>0 DEF OneMore
<1>3. /\ g[f] \in Seq(Read[f]) /\ p[f] = Add(g[f], x)
  BY <1>0 DEF Typed, OneMore
<1>4. Len(p[f]) = Len(g[f]) + 1
  <2> DEFINE S == Read[f]
             s == g[f]
  <2>1. s \in Seq(S) /\ x \in S
    BY <1>3
  <2> HIDE DEF S, s
  <2>2. Len(Add(s, x)) = Len(s) + 1
    BY <2>1, AddIs
  <2> QED
    BY <1>3, <2>2 DEF s
<1>5. \A h \in Names : Len(g[h]) \in Nat
  BY CountsAre
<1>a. \A h \in HeadFields : Len(p[h]) = IF h = f THEN Len(g[h]) + 1 ELSE Len(g[h])
  BY <1>0, <1>2, <1>4
<1>b. /\ Len(p["alpha"]) = IF f = "alpha" THEN Len(g["alpha"]) + 1 ELSE Len(g["alpha"])
      /\ Len(p["beta"]) = IF f = "beta" THEN Len(g["beta"]) + 1 ELSE Len(g["beta"])
      /\ Len(p["gamma"]) = IF f = "gamma" THEN Len(g["gamma"]) + 1 ELSE Len(g["gamma"])
      /\ Len(p["delta"]) = IF f = "delta" THEN Len(g["delta"]) + 1 ELSE Len(g["delta"])
      /\ Len(p["ic_count"]) = IF f = "ic_count" THEN Len(g["ic_count"]) + 1 ELSE Len(g["ic_count"])
      /\ Len(p["ic"]) = IF f = "ic" THEN Len(g["ic"]) + 1 ELSE Len(g["ic"])
      /\ Len(p["vk_nC"]) = IF f = "vk_nC" THEN Len(g["vk_nC"]) + 1 ELSE Len(g["vk_nC"])
      /\ f # "ic_count" => p["ic_count"] = g["ic_count"]
  BY <1>0, <1>2, <1>a, KindIs DEF HeadFields
<1>6. \A e \in HeadFields \cup {"pedersen_G", "end"} : KeysStage(e, p)
  <2>1. /\ Len(g["pedersen_G"]) = 0 /\ Len(g["pedersen_GSigmaNeg"]) = 0
        /\ Len(g["committed_count"]) = 0 /\ Len(g["committed_index"]) = 0
    BY <1>1 DEF KeysCount, KeysStage
  <2>2. /\ p["pedersen_G"] = g["pedersen_G"]
        /\ p["pedersen_GSigmaNeg"] = g["pedersen_GSigmaNeg"]
        /\ p["committed_count"] = g["committed_count"]
        /\ p["committed_index"] = g["committed_index"]
    BY <1>0, <1>2 DEF KeyFields
  <2>3. \A j \in 1..0 : FALSE
    OBVIOUS
  <2> QED
    BY <2>1, <2>2, <2>3 DEF KeysStage, KeyFields, HeadFields
<1>7. Len(p["pedersen_G"]) = 0
  BY <1>0, <1>1, <1>2 DEF KeysCount, KeyFields
<1>8. \A e \in HeadFields : KeysCount(e, p)
  BY <1>7 DEF KeysCount, KeyFields, HeadFields
<1>9. CASE f = "alpha"
  <2>1. HeadStage("beta", p)
    BY <1>1, <1>b, <1>9 DEF HeadStage, HeadFields
  <2> QED
    BY <1>6, <1>8, <1>9, <2>1, AfterIs DEF VKStage, VKFields, HeadFields
<1>10. CASE f = "beta"
  <2>1. HeadStage("gamma", p)
    BY <1>1, <1>b, <1>10 DEF HeadStage, HeadFields
  <2> QED
    BY <1>6, <1>8, <1>10, <2>1, AfterIs DEF VKStage, VKFields, HeadFields
<1>11. CASE f = "gamma"
  <2>1. HeadStage("delta", p)
    BY <1>1, <1>b, <1>11 DEF HeadStage, HeadFields
  <2> QED
    BY <1>6, <1>8, <1>11, <2>1, AfterIs DEF VKStage, VKFields, HeadFields
<1>12. CASE f = "delta"
  <2>1. HeadStage("ic_count", p)
    BY <1>1, <1>b, <1>12 DEF HeadStage, HeadFields
  <2> QED
    BY <1>6, <1>8, <1>12, <2>1, AfterIs DEF VKStage, VKFields, HeadFields
<1>13. CASE f \in {"ic_count", "ic"}
  <2>1. p["ic_count"][1] \in Nat /\ Len(p["ic"]) <= p["ic_count"][1]
    <3>1. CASE f = "ic_count"
      <4>1. Len(p["ic"]) = 0 /\ Len(p["ic_count"]) = 1
        BY <1>1, <1>b, <3>1 DEF HeadStage, HeadFields
      <4>2. p["ic_count"][1] \in Nat
        BY <4>1, CountsAre
      <4> QED
        BY <4>1, <4>2
    <3>2. CASE f = "ic"
      <4>1. /\ Len(p["ic"]) = Len(g["ic"]) + 1 /\ p["ic_count"] = g["ic_count"]
            /\ Len(p["ic_count"]) = 1 /\ Len(g["ic"]) < g["ic_count"][1]
            /\ Len(g["ic"]) \in Nat
        BY <1>1, <1>b, <1>5, <3>2 DEF HeadStage, HeadFields
      <4>2. p["ic_count"][1] \in Nat
        BY <4>1, CountsAre
      <4> QED
        BY <4>1, <4>2
    <3> QED
      BY <1>13, <3>1, <3>2
  <2>2. /\ Len(p["alpha"]) = 1 /\ Len(p["beta"]) = 1 /\ Len(p["gamma"]) = 1
        /\ Len(p["delta"]) = 1 /\ Len(p["ic_count"]) = 1 /\ Len(p["vk_nC"]) = 0
    BY <1>1, <1>b, <1>13 DEF HeadStage, HeadFields
  <2>3. CASE Len(p["ic"]) < p["ic_count"][1]
    <3>1. After(f, p) = "ic"
      BY <1>13, <2>3, AfterIs
    <3>2. HeadStage("ic", p)
      BY <2>2, <2>3 DEF HeadStage, HeadFields
    <3> QED
      BY <1>6, <1>8, <3>1, <3>2 DEF VKStage, VKFields, HeadFields
  <2>4. CASE ~(Len(p["ic"]) < p["ic_count"][1])
    <3>0. Len(p["ic"]) \in Nat
      BY <1>0, CountsAre
    <3>1. After(f, p) = "vk_nC" /\ Len(p["ic"]) = p["ic_count"][1]
      BY <1>13, <2>1, <2>4, <3>0, AfterIs
    <3>2. HeadStage("vk_nC", p)
      BY <2>2, <3>1 DEF HeadStage, HeadFields
    <3> QED
      BY <1>6, <1>8, <3>1, <3>2 DEF VKStage, VKFields, HeadFields
  <2> QED
    BY <2>3, <2>4
<1>14. CASE f = "vk_nC"
  <2>1. HeadStage("pedersen_G", p) /\ HeadStage("end", p) /\ Len(p["vk_nC"]) = 1
    BY <1>1, <1>b, <1>14 DEF HeadStage, HeadFields
  <2>2. p["vk_nC"][1] \in Nat
    BY <2>1, CountsAre
  <2>3. CASE 0 < p["vk_nC"][1]
    <3>1. After(f, p) = "pedersen_G"
      BY <1>14, <2>3, AfterIs
    <3>2. KeysCount("pedersen_G", p)
      BY <1>7, <2>2, <2>3 DEF KeysCount, KeyFields
    <3> QED
      BY <1>6, <2>1, <3>1, <3>2 DEF VKStage, VKFields, KeyFields
  <2>4. CASE ~(0 < p["vk_nC"][1])
    <3>1. After(f, p) = "end" /\ p["vk_nC"][1] = 0
      BY <1>14, <2>2, <2>4, AfterIs
    <3>2. KeysCount("end", p)
      BY <1>7, <3>1 DEF KeysCount, KeyFields
    <3> QED
      BY <1>6, <2>1, <3>1, <3>2 DEF VKStage, VKFields, KeyFields
  <2> QED
    BY <2>3, <2>4
<1> QED
  BY <1>9, <1>10, <1>11, <1>12, <1>13, <1>14 DEF HeadFields

\* When the head of the key has been read it stays read.
LEMMA HeadKept ==
  ASSUME NEW g, NEW p, NEW f \in KeyFields \cup {"end"}, HeadStage(f, g),
         \A h \in HeadFields : p[h] = g[h]
  PROVE  \A e \in KeyFields \cup {"end"} : HeadStage(e, p)
<1>1. /\ p["alpha"] = g["alpha"] /\ p["beta"] = g["beta"] /\ p["gamma"] = g["gamma"]
      /\ p["delta"] = g["delta"] /\ p["ic_count"] = g["ic_count"] /\ p["ic"] = g["ic"]
      /\ p["vk_nC"] = g["vk_nC"]
  BY DEF HeadFields
<1>2. /\ Len(g["alpha"]) = 1 /\ Len(g["beta"]) = 1 /\ Len(g["gamma"]) = 1 /\ Len(g["delta"]) = 1
      /\ Len(g["ic_count"]) = 1 /\ Len(g["ic"]) = g["ic_count"][1] /\ Len(g["vk_nC"]) = 1
  BY DEF HeadStage, HeadFields, KeyFields
<1> QED
  BY <1>1, <1>2 DEF HeadStage, HeadFields, KeyFields

\* What was there stays.
LEMMA AddKeeps ==
  ASSUME NEW S, NEW s \in Seq(S), NEW x \in S
  PROVE  \A j \in 1..Len(s) : Add(s, x)[j] = s[j]
  BY AddIs

\* The last element of a list that has just grown, and the others.
LEMMA AddLast ==
  ASSUME NEW S, NEW s \in Seq(S), NEW x \in S, NEW n \in Nat \ {0}, Len(s) = n - 1,
         NEW t, t = Add(s, x)
  PROVE  t \in Seq(S) /\ Len(t) = n /\ t[n] = x /\ \A j \in 1..n - 1 : t[j] = s[j]
<1>1. n = Len(s) + 1 /\ \A j \in 1..n - 1 : j \in 1..Len(s)
  OBVIOUS
<1>2. Add(s, x) \in Seq(S)
  BY AddIs
<1>3. Len(Add(s, x)) = Len(s) + 1
  BY AddIs
<1>4. Add(s, x)[Len(s) + 1] = x
  BY AddIs
<1>5. \A j \in 1..Len(s) : Add(s, x)[j] = s[j]
  BY AddKeeps
<1> QED
  BY <1>1, <1>2, <1>3, <1>4, <1>5

\* Where the loops over the keys go when the last key has its count.
LEMMA KeysNext ==
  ASSUME NEW p, Typed(p), NEW f \in {"committed_count", "committed_index"},
         \A e \in KeyFields \cup {"end"} : HeadStage(e, p),
         NEW n \in Nat \ {0}, Len(p["pedersen_G"]) = n, n <= p["vk_nC"][1],
         Len(p["pedersen_GSigmaNeg"]) = n, Len(p["committed_count"]) = n,
         Len(p["committed_index"]) = n,
         \A j \in 1..n - 1 : Len(p["committed_index"][j]) = p["committed_count"][j],
         Len(p["committed_index"][n]) <= p["committed_count"][n]
  PROVE  VKStage(After(f, p), p)
<1>1. n \in 1..n /\ \A j \in 1..n : j = n \/ j \in 1..n - 1
  OBVIOUS
<1>2. Last(p["committed_index"]) = p["committed_index"][n] /\ Last(p["committed_count"]) = p["committed_count"][n]
  BY DEF Last
<1>3. Len(p["committed_index"][n]) \in Nat /\ p["committed_count"][n] \in Nat
  <2>1. p["committed_index"][n] \in Seq(U32) /\ p["committed_count"][n] \in Nat
    BY <1>1, CountsAre
  <2> QED
    BY <2>1
<1>4. p["vk_nC"][1] \in Nat
  <2>1. Len(p["vk_nC"]) = 1
    BY DEF HeadStage, HeadFields, KeyFields
  <2> QED
    BY <2>1, CountsAre
<1>5. CASE Len(p["committed_index"][n]) < p["committed_count"][n]
  <2>1. After(f, p) = "committed_index"
    BY <1>2, <1>5, AfterIs
  <2>2. KeysStage("committed_index", p)
    BY <1>1, <1>5 DEF KeysStage, KeyFields
  <2>3. KeysCount("committed_index", p)
    BY DEF KeysCount, KeyFields, HeadFields
  <2> QED
    BY <2>1, <2>2, <2>3 DEF VKStage, VKFields, KeyFields
<1>6. CASE ~(Len(p["committed_index"][n]) < p["committed_count"][n])
  <2>1. \A j \in 1..n : Len(p["committed_index"][j]) = p["committed_count"][j]
    BY <1>1, <1>3, <1>6
  <2>2. \A e \in {"pedersen_G", "end"} : KeysStage(e, p)
    BY <2>1 DEF KeysStage, KeyFields
  <2>3. CASE n < p["vk_nC"][1]
    <3>1. After(f, p) = "pedersen_G"
      BY <1>2, <1>6, <2>3, AfterIs
    <3>2. KeysCount("pedersen_G", p)
      BY <2>3 DEF KeysCount, KeyFields, HeadFields
    <3> QED
      BY <2>2, <3>1, <3>2 DEF VKStage, VKFields, KeyFields
  <2>4. CASE ~(n < p["vk_nC"][1])
    <3>1. After(f, p) = "end"
      BY <1>2, <1>6, <2>4, AfterIs
    <3>2. KeysCount("end", p)
      BY <1>4, <2>4 DEF KeysCount, KeyFields, HeadFields
    <3> QED
      BY <2>2, <3>1, <3>2 DEF VKStage, VKFields, KeyFields
  <2> QED
    BY <2>3, <2>4
<1> QED
  BY <1>5, <1>6

\* The same for the fields of the keys.
LEMMA VKAfterKeys ==
  ASSUME NEW g, Typed(g), NEW p, Typed(p), NEW f \in KeyFields, VKStage(f, g),
         NEW x, IF f = "committed_index" THEN x \in U32 ELSE x \in Read[f], OneMore(g, f, x, p)
  PROVE  VKStage(After(f, p), p)
<1> DEFINE n == Len(g["pedersen_G"])
<1>0. KeyFields \subseteq Names /\ HeadFields \subseteq Names \ KeyFields
  BY KindIs DEF KeyFields, HeadFields
<1>1. HeadStage(f, g) /\ KeysCount(f, g) /\ KeysStage(f, g)
  BY DEF VKStage
<1>2. \A h \in Names \ {f} : (f = "committed_count" => h # "committed_index") => p[h] = g[h]
  BY DEF OneMore
<1>3. \A e \in KeyFields \cup {"end"} : HeadStage(e, p)
  <2>1. \A h \in HeadFields : p[h] = g[h]
    BY <1>0, <1>2 DEF KeyFields
  <2> QED
    BY <1>1, <2>1, HeadKept
<1>4. /\ n \in Nat /\ n <= g["vk_nC"][1]
      /\ f = "pedersen_G" => n < g["vk_nC"][1]
      /\ f # "pedersen_G" => n >= 1
  <2>1. n \in Nat
    BY <1>0, CountsAre DEF KeyFields
  <2> QED
    BY <1>1, <2>1 DEF KeysCount, KeysStage, KeyFields
<1>5. /\ p["vk_nC"] = g["vk_nC"] /\ g["vk_nC"][1] \in Nat
  <2>1. Len(g["vk_nC"]) = 1
    BY <1>1 DEF HeadStage, HeadFields, KeyFields
  <2>2. "vk_nC" \in Names \ KeyFields
    BY <1>0 DEF HeadFields
  <2> QED
    BY <1>2, <2>1, <2>2, CountsAre DEF KeyFields
<1>6. f # "committed_index" => Len(p[f]) = Len(g[f]) + 1
  <2> HAVE f # "committed_index"
  <2> DEFINE S == Read[f]
             s == g[f]
  <2>1. s \in Seq(S) /\ x \in S
    BY <1>0 DEF Typed
  <2> HIDE DEF S, s
  <2>2. Len(Add(s, x)) = Len(s) + 1
    BY <2>1, AddIs
  <2>3. p[f] = Add(g[f], x)
    BY DEF OneMore
  <2> QED
    BY <2>2, <2>3 DEF s
<1>7. \A h \in Names : Len(g[h]) \in Nat /\ Len(p[h]) \in Nat
  BY CountsAre
<1>8. /\ Len(g["pedersen_GSigmaNeg"]) = IF f = "pedersen_GSigmaNeg" THEN n - 1 ELSE n
      /\ Len(g["committed_count"]) =
           IF f \in {"pedersen_GSigmaNeg", "committed_count"} THEN n - 1 ELSE n
      /\ Len(g["committed_index"]) = Len(g["committed_count"])
      /\ \A j \in 1..Len(g["committed_index"]) :
           IF f = "committed_index" /\ j = n
           THEN Len(g["committed_index"][j]) < g["committed_count"][j]
           ELSE Len(g["committed_index"][j]) = g["committed_count"][j]
  BY <1>1 DEF KeysStage
<1> HIDE DEF n
<1>9. CASE f = "pedersen_G"
  <2>1. /\ p["pedersen_GSigmaNeg"] = g["pedersen_GSigmaNeg"]
        /\ p["committed_count"] = g["committed_count"] /\ p["committed_index"] = g["committed_index"]
    BY <1>0, <1>2, <1>9 DEF KeyFields
  <2>2. Len(p["pedersen_G"]) = n + 1
    BY <1>6, <1>9 DEF n
  <2>3. KeysStage("pedersen_GSigmaNeg", p)
    BY <1>4, <1>8, <1>9, <2>1, <2>2 DEF KeysStage, KeyFields
  <2>4. KeysCount("pedersen_GSigmaNeg", p)
    BY <1>4, <1>5, <1>9, <2>2 DEF KeysCount, KeyFields, HeadFields
  <2> QED
    BY <1>3, <1>9, <2>3, <2>4, AfterIs DEF VKStage, VKFields, KeyFields
<1>10. CASE f = "pedersen_GSigmaNeg"
  <2>1. /\ p["pedersen_G"] = g["pedersen_G"]
        /\ p["committed_count"] = g["committed_count"] /\ p["committed_index"] = g["committed_index"]
    BY <1>0, <1>2, <1>10 DEF KeyFields
  <2>2. Len(p["pedersen_G"]) = n /\ Len(p["pedersen_GSigmaNeg"]) = n
    BY <1>4, <1>6, <1>8, <1>10, <2>1 DEF n
  <2>3. KeysStage("committed_count", p)
    BY <1>4, <1>8, <1>10, <2>1, <2>2 DEF KeysStage, KeyFields
  <2>4. KeysCount("committed_count", p)
    BY <1>4, <1>5, <1>10, <2>2 DEF KeysCount, KeyFields, HeadFields
  <2> QED
    BY <1>3, <1>10, <2>3, <2>4, AfterIs DEF VKStage, VKFields, KeyFields
<1>11. CASE f = "committed_count"
  <2>0. n \in Nat \ {0}
    BY <1>4, <1>11
  <2>1. p["pedersen_G"] = g["pedersen_G"] /\ p["pedersen_GSigmaNeg"] = g["pedersen_GSigmaNeg"]
    BY <1>0, <1>2, <1>11 DEF KeyFields
  <2>2. /\ p["committed_count"] = Add(g["committed_count"], x)
        /\ p["committed_index"] = Add(g["committed_index"], <<>>)
    BY <1>11 DEF OneMore
  <2>3. /\ g["committed_count"] \in Seq(U32) /\ g["committed_index"] \in Seq(Seq(U32))
        /\ x \in U32 /\ <<>> \in Seq(U32)
    <3>1. x \in Read["committed_count"]
      BY <1>11
    <3>2. g["committed_count"] \in Seq(Read["committed_count"])
          /\ g["committed_index"] \in Seq(Read["committed_index"])
      BY KindIs DEF Typed
    <3> QED
      BY <3>1, <3>2, KindIs, ReadIs
  <2>4. Len(g["committed_count"]) = n - 1 /\ Len(g["committed_index"]) = n - 1
    BY <1>8, <1>11
  <2>5. /\ Len(p["committed_count"]) = n /\ p["committed_count"][n] = x
        /\ \A j \in 1..n - 1 : p["committed_count"][j] = g["committed_count"][j]
    <3> DEFINE S == U32
               y == x
               s == g["committed_count"]
    <3>1. y \in S /\ s \in Seq(S) /\ Len(s) = n - 1
      BY <2>3, <2>4
    <3>2. p["committed_count"] = Add(s, y)
      BY <2>2
    <3> HIDE DEF S, s, y
    <3>3. /\ Len(p["committed_count"]) = n /\ p["committed_count"][n] = y
          /\ \A j \in 1..n - 1 : p["committed_count"][j] = s[j]
      BY <2>0, <3>1, <3>2, AddLast
    <3> QED
      BY <3>3 DEF s, y
  <2>6. /\ Len(p["committed_index"]) = n /\ p["committed_index"][n] = <<>>
        /\ \A j \in 1..n - 1 : p["committed_index"][j] = g["committed_index"][j]
    <3> DEFINE S == Seq(U32)
               y == <<>>
               s == g["committed_index"]
    <3>1. y \in S /\ s \in Seq(S) /\ Len(s) = n - 1
      BY <2>3, <2>4
    <3>2. p["committed_index"] = Add(s, y)
      BY <2>2
    <3> HIDE DEF S, s, y
    <3>3. /\ Len(p["committed_index"]) = n /\ p["committed_index"][n] = y
          /\ \A j \in 1..n - 1 : p["committed_index"][j] = s[j]
      BY <2>0, <3>1, <3>2, AddLast
    <3> QED
      BY <3>3 DEF s, y
  <2>7. \A j \in 1..n - 1 : Len(p["committed_index"][j]) = p["committed_count"][j]
    BY <1>8, <1>11, <2>4, <2>5, <2>6
  <2>8. Len(p["committed_index"][n]) <= p["committed_count"][n]
    <3>1. x \in Nat
      BY <2>3, CardanoWireAssumption DEF U32, Cell
    <3> QED
      BY <2>5, <2>6, <3>1
  <2>9. n \in Nat \ {0} /\ Len(p["pedersen_G"]) = n /\ Len(p["pedersen_GSigmaNeg"]) = n
    BY <1>4, <1>8, <1>11, <2>1 DEF n
  <2> QED
    BY <1>3, <1>4, <1>5, <1>11, <2>5, <2>6, <2>7, <2>8, <2>9, KeysNext
<1>12. CASE f = "committed_index"
  <2>1. /\ p["pedersen_G"] = g["pedersen_G"] /\ p["pedersen_GSigmaNeg"] = g["pedersen_GSigmaNeg"]
        /\ p["committed_count"] = g["committed_count"]
    BY <1>0, <1>2, <1>12 DEF KeyFields
  <2>2. Len(g["committed_count"]) = n /\ Len(g["committed_index"]) = n
    BY <1>8, <1>12
  <2>3. /\ Len(p["committed_index"]) = n
        /\ p["committed_index"][n] = Add(g["committed_index"][n], x)
        /\ \A j \in 1..n - 1 : p["committed_index"][j] = g["committed_index"][j]
    BY <1>12, <2>2 DEF OneMore
  <2>4. n \in 1..n /\ n \in Nat \ {0}
    BY <1>4, <1>12
  <2>5. g["committed_index"][n] \in Seq(U32) /\ x \in U32 /\ g["committed_count"][n] \in Nat
    BY <1>12, <2>2, <2>4, CountsAre
  <2>6. Len(p["committed_index"][n]) = Len(g["committed_index"][n]) + 1
    BY <2>3, <2>5, AddIs
  <2>7. Len(g["committed_index"][n]) < g["committed_count"][n]
    BY <1>8, <1>12, <2>2, <2>4
  <2>8. Len(p["committed_index"][n]) <= p["committed_count"][n]
    <3>1. Len(g["committed_index"][n]) \in Nat
      BY <2>5
    <3> QED
      BY <2>1, <2>5, <2>6, <2>7, <3>1
  <2>9. \A j \in 1..n - 1 : Len(p["committed_index"][j]) = p["committed_count"][j]
    <3> SUFFICES ASSUME NEW j \in 1..n - 1
                 PROVE  Len(p["committed_index"][j]) = p["committed_count"][j]
      OBVIOUS
    <3>1. j \in 1..n /\ j # n
      BY <2>4
    <3>2. Len(g["committed_index"][j]) = g["committed_count"][j]
      BY <1>8, <2>2, <3>1
    <3> QED
      BY <2>1, <2>3, <3>2
  <2>10. Len(p["pedersen_G"]) = n /\ Len(p["pedersen_GSigmaNeg"]) = n
    BY <1>8, <1>12, <2>1 DEF n
  <2> QED
    BY <1>3, <1>4, <1>5, <1>12, <2>1, <2>2, <2>3, <2>4, <2>8, <2>9, <2>10, KeysNext
<1> QED
  BY <1>9, <1>10, <1>11, <1>12 DEF KeyFields

\* The fields before the commitments.
ProofHeads == {"a", "b", "c", "proof_nC"}
ProofFields == ProofHeads \cup CopyFields \cup {"pok"}

\* How far the proof has been read when f is next; the copies of a commitment are one point.
ProofStage(f, g) ==
  /\ f \in ProofFields \cup {"end"}
  /\ Len(g["a"]) = IF f = "a" THEN 0 ELSE 1
  /\ Len(g["b"]) = IF f \in {"a", "b"} THEN 0 ELSE 1
  /\ Len(g["c"]) = IF f \in {"a", "b", "c"} THEN 0 ELSE 1
  /\ Len(g["proof_nC"]) = IF f \in ProofHeads THEN 0 ELSE 1
  /\ f \in ProofHeads => Len(g["commitment"]) = 0
  /\ f \in CopyFields => Len(g["commitment"]) <= g["proof_nC"][1]
  /\ f = "commitment" => Len(g["commitment"]) < g["proof_nC"][1]
  /\ f \in {"pok", "end"} => Len(g["commitment"]) = g["proof_nC"][1]
  /\ Len(g["pok"]) = IF f = "end" THEN 1 ELSE 0
  /\ CopiesStage(f, g)
  /\ \A j \in 1..Len(g["uncompressed"]) :
       g["uncompressed"][j] = Uncompressed(g["commitment"][j])

\* The fields after the one that is read have not been read.
LEMMA ProofLater ==
  ASSUME NEW g, NEW k \in 1..4, ProofStage(ProofHead[k], g)
  PROVE  \A j \in 1..4 : j > k => Len(g[ProofHead[j]]) = 0
<1> DEFINE f == ProofHead[k]
<1>1. /\ f \in {"a"} => Len(g["b"]) = 0
      /\ f \in {"a", "b"} => Len(g["c"]) = 0
      /\ f \in {"a", "b", "c"} => Len(g["proof_nC"]) = 0
  BY DEF ProofStage, ProofHeads
<1>2. /\ k < 2 => f \in {"a"}
      /\ k < 3 => f \in {"a", "b"}
      /\ k < 4 => f \in {"a", "b", "c"}
  BY HeadsAre
<1> HIDE DEF f
<1>3. /\ k < 2 => Len(g[ProofHead[2]]) = 0
      /\ k < 3 => Len(g[ProofHead[3]]) = 0
      /\ k < 4 => Len(g[ProofHead[4]]) = 0
  BY <1>1, <1>2, HeadsAre
<1> QED
  BY <1>3

\* A value of the proof that is read is added to the whole.
LEMMA ProofGrow ==
  ASSUME NEW g, Typed(g), NEW f \in ProofFields, ProofStage(f, g), NEW v, Good(f, v)
  PROVE  LET p == Pushed(g, f, v) IN
         /\ Typed(p) /\ OneMore(g, f, Item(f, v), p)
         /\ FlattenSeq(ProofParts(p)) = Cat(FlattenSeq(ProofParts(g)), v)
<1> DEFINE p == Pushed(g, f, v)
           x == Item(f, v)
<1>1. /\ f \in Names /\ f # "committed_index" /\ "commitment" \in Names /\ "pok" \in Names
      /\ f # "committed_count"
  BY KindIs DEF ProofFields, ProofHeads, CopyFields
<1>3. \A h \in Names : g[h] \in Seq(Read[h])
  BY DEF Typed
<1>5. Typed(p) /\ OneMore(g, f, x, p)
  BY <1>1, PushedIs
<1>6. Cells(f, x) = v
  BY <1>1, CellsAre
<1>7. x \in Read[f]
  BY <1>1, ItemTyped
<1>8. v \in Seq(Cell)
  BY DEF Good
<1> HIDE DEF p, x
<1>a. f # "pok" => g["pok"] = <<>>
  <2>1. f # "pok" => Len(g["pok"]) = 0
    BY DEF ProofStage, ProofFields, ProofHeads, CopyFields
  <2> QED
    BY <1>1, <1>3, <2>1, EmptySeq
<1>9. CASE f \in ProofHeads
  <2>1. PICK k \in 1..4 : f = ProofHead[k]
    BY <1>9, HeadsAre DEF ProofHeads
  <2>2. \A j \in 1..4 : j > k => Len(g[ProofHead[j]]) = 0
    BY <2>1, ProofLater
  <2>3. \A j \in 1..4 : j > k => g[ProofHead[j]] = <<>>
    <3> SUFFICES ASSUME NEW j \in 1..4, j > k PROVE g[ProofHead[j]] = <<>>
      OBVIOUS
    <3>1. ProofHead[j] \in Names
      BY HeadNames
    <3>2. g[ProofHead[j]] \in Seq(Read[ProofHead[j]]) /\ Len(g[ProofHead[j]]) = 0
      BY <1>3, <2>2, <3>1
    <3> QED
      BY <3>2, EmptySeq
  <2>4. g["commitment"] = <<>>
    <3>1. Len(g["commitment"]) = 0
      BY <1>9 DEF ProofStage
    <3> QED
      BY <1>1, <1>3, <3>1, EmptySeq
  <2>5. x \in Read[ProofHead[k]] /\ OneMore(g, ProofHead[k], x, p) /\ g["pok"] = <<>>
    BY <1>5, <1>7, <1>9, <1>a, <2>1 DEF ProofHeads
  <2>6. FlattenSeq(ProofParts(p)) = Cat(FlattenSeq(ProofParts(g)), Cells(ProofHead[k], x))
    BY <1>5, <2>3, <2>4, <2>5, ProofHeadGrow
  <2>7. FlattenSeq(ProofParts(p)) = Cat(FlattenSeq(ProofParts(g)), v)
    BY <1>6, <2>1, <2>6
  <2> QED
    BY <1>5, <2>7 DEF p, x
<1>10. CASE f \in CopyFields
  <2>0. CopiesStage(f, g)
    BY DEF ProofStage
  <2>1. FlattenSeq(Copies(p)) = Cat(FlattenSeq(Copies(g)), v)
    BY <1>5, <1>6, <1>7, <1>10, <2>0, CopiesGrow
  <2>2. \A j \in 1..4 : p[ProofHead[j]] = g[ProofHead[j]]
    <3> SUFFICES ASSUME NEW j \in 1..4 PROVE p[ProofHead[j]] = g[ProofHead[j]]
      OBVIOUS
    <3>1. ProofHead[j] \in Names \ CopyFields
      BY HeadNames DEF CopyFields
    <3>2. ProofHead[j] \in Names \ {f}
      BY <1>10, <3>1
    <3> QED
      BY <1>1, <1>5, <3>2 DEF OneMore
  <2>3. g["pok"] = <<>> /\ p["pok"] = <<>>
    <3>1. f # "pok" /\ "pok" \in Names \ {f}
      BY <1>1, <1>10 DEF CopyFields
    <3> QED
      BY <1>1, <1>5, <1>a, <3>1 DEF OneMore
  <2>4. FlattenSeq(ProofParts(p)) = Cat(FlattenSeq(ProofParts(g)), v)
    BY <1>5, <1>8, <2>1, <2>2, <2>3, ProofCopiesGrow
  <2> QED
    BY <1>5, <2>4 DEF p, x
<1>11. CASE f = "pok"
  <2>1. x \in Read["pok"] /\ OneMore(g, "pok", x, p)
    BY <1>5, <1>7, <1>11
  <2>2. FlattenSeq(ProofParts(p)) = Cat(FlattenSeq(ProofParts(g)), Cells("pok", x))
    BY <1>5, <2>1, ProofPokGrow
  <2> QED
    BY <1>5, <1>6, <1>11, <2>2 DEF p, x
<1> QED
  BY <1>9, <1>10, <1>11 DEF ProofFields

\* And leaves the reader where the next field begins.
LEMMA ProofAfter ==
  ASSUME NEW g, Typed(g), NEW p, Typed(p), NEW f \in ProofFields, ProofStage(f, g),
         NEW x \in Read[f], OneMore(g, f, x, p),
         f = "uncompressed" => x = Uncompressed(Last(g["commitment"]))
  PROVE  ProofStage(After(f, p), p)
<1>0. /\ f \in Names /\ f # "committed_count" /\ f # "committed_index" /\ ProofFields \subseteq Names
  BY KindIs DEF ProofFields, ProofHeads, CopyFields
<1>2. \A h \in Names \ {f} : p[h] = g[h]
  BY <1>0 DEF OneMore
<1>3. Len(p[f]) = Len(g[f]) + 1 /\ p[f][Len(g[f]) + 1] = x /\ \A j \in 1..Len(g[f]) : p[f][j] = g[f][j]
  <2> DEFINE S == Read[f]
             s == g[f]
  <2>1. s \in Seq(S) /\ x \in S /\ p[f] = Add(s, x)
    BY <1>0 DEF Typed, OneMore
  <2> HIDE DEF S, s
  <2>2. Len(Add(s, x)) = Len(s) + 1
    BY <2>1, AddIs
  <2>3. Add(s, x)[Len(s) + 1] = x
    BY <2>1, AddIs
  <2>4. \A j \in 1..Len(s) : Add(s, x)[j] = s[j]
    BY <2>1, AddKeeps
  <2> QED
    BY <2>1, <2>2, <2>3, <2>4 DEF s
<1>4. \A h \in Names : Len(g[h]) \in Nat
  BY CountsAre
<1>a. \A h \in ProofFields : Len(p[h]) = IF h = f THEN Len(g[h]) + 1 ELSE Len(g[h])
  BY <1>0, <1>2, <1>3
<1>b. /\ Len(p["a"]) = IF f = "a" THEN Len(g["a"]) + 1 ELSE Len(g["a"])
      /\ Len(p["b"]) = IF f = "b" THEN Len(g["b"]) + 1 ELSE Len(g["b"])
      /\ Len(p["c"]) = IF f = "c" THEN Len(g["c"]) + 1 ELSE Len(g["c"])
      /\ Len(p["proof_nC"]) = IF f = "proof_nC" THEN Len(g["proof_nC"]) + 1 ELSE Len(g["proof_nC"])
      /\ Len(p["commitment"]) =
           IF f = "commitment" THEN Len(g["commitment"]) + 1 ELSE Len(g["commitment"])
      /\ Len(p["uncompressed"]) =
           IF f = "uncompressed" THEN Len(g["uncompressed"]) + 1 ELSE Len(g["uncompressed"])
      /\ Len(p["pok"]) = IF f = "pok" THEN Len(g["pok"]) + 1 ELSE Len(g["pok"])
  BY <1>a DEF ProofFields, ProofHeads, CopyFields
<1>c. /\ f # "proof_nC" => p["proof_nC"] = g["proof_nC"]
      /\ f # "commitment" => p["commitment"] = g["commitment"]
      /\ f # "uncompressed" => p["uncompressed"] = g["uncompressed"]
  BY <1>0, <1>2 DEF ProofFields, ProofHeads, CopyFields
<1>d. /\ Len(g["a"]) = IF f = "a" THEN 0 ELSE 1
      /\ Len(g["b"]) = IF f \in {"a", "b"} THEN 0 ELSE 1
      /\ Len(g["c"]) = IF f \in {"a", "b", "c"} THEN 0 ELSE 1
      /\ Len(g["proof_nC"]) = IF f \in ProofHeads THEN 0 ELSE 1
      /\ f \in ProofHeads => Len(g["commitment"]) = 0
      /\ f \in CopyFields => Len(g["commitment"]) <= g["proof_nC"][1]
      /\ f = "commitment" => Len(g["commitment"]) < g["proof_nC"][1]
      /\ f = "pok" => Len(g["commitment"]) = g["proof_nC"][1]
      /\ Len(g["pok"]) = 0
      /\ Len(g["uncompressed"]) =
           IF f = "uncompressed" THEN Len(g["commitment"]) - 1 ELSE Len(g["commitment"])
      /\ f = "uncompressed" => Len(g["commitment"]) >= 1
  BY DEF ProofStage, CopiesStage, ProofFields, ProofHeads, CopyFields
<1>e. \A j \in 1..Len(g["uncompressed"]) :
        g["uncompressed"][j] = Uncompressed(g["commitment"][j])
  BY DEF ProofStage
<1>f. /\ Len(g["commitment"]) \in Nat /\ Len(g["uncompressed"]) \in Nat
      /\ Len(p["proof_nC"]) = 1 => p["proof_nC"][1] \in Nat
  BY <1>0, <1>4, CountsAre DEF ProofFields, ProofHeads, CopyFields
<1>g. \A j \in 1..Len(p["uncompressed"]) :
        p["uncompressed"][j] = Uncompressed(p["commitment"][j])
  <2>1. CASE f = "uncompressed"
    <3> DEFINE n == Len(g["commitment"])
    <3>1. n \in Nat /\ n >= 1 /\ Len(g["uncompressed"]) = n - 1 /\ Len(p["uncompressed"]) = n
      BY <1>b, <1>d, <1>f, <2>1
    <3>2. p["uncompressed"][n] = Uncompressed(p["commitment"][n])
      <4>1. Last(g["commitment"]) = g["commitment"][n]
        BY DEF Last
      <4>2. p["uncompressed"][n] = x
        BY <1>3, <2>1, <3>1
      <4> QED
        BY <1>c, <2>1, <4>1, <4>2
    <3>3. \A j \in 1..n - 1 : p["uncompressed"][j] = Uncompressed(p["commitment"][j])
      BY <1>3, <1>c, <1>e, <2>1, <3>1
    <3> QED
      BY <3>1, <3>2, <3>3
  <2>2. CASE f = "commitment"
    <3>1. \A j \in 1..Len(g["uncompressed"]) : p["commitment"][j] = g["commitment"][j]
      BY <1>3, <1>d, <2>2
    <3> QED
      BY <1>c, <1>e, <2>2, <3>1
  <2>3. CASE f # "commitment" /\ f # "uncompressed"
    BY <1>c, <1>e, <2>3
  <2> QED
    BY <2>1, <2>2, <2>3
<1>9. CASE f = "a"
  <2>1. ProofStage("b", p)
    BY <1>9, <1>b, <1>d, <1>g DEF ProofStage, CopiesStage, ProofFields, ProofHeads, CopyFields
  <2> QED
    BY <1>9, <2>1, AfterIs
<1>10. CASE f = "b"
  <2>1. ProofStage("c", p)
    BY <1>10, <1>b, <1>d, <1>g DEF ProofStage, CopiesStage, ProofFields, ProofHeads, CopyFields
  <2> QED
    BY <1>10, <2>1, AfterIs
<1>11. CASE f = "c"
  <2>1. ProofStage("proof_nC", p)
    BY <1>11, <1>b, <1>d, <1>g DEF ProofStage, CopiesStage, ProofFields, ProofHeads, CopyFields
  <2> QED
    BY <1>11, <2>1, AfterIs
<1>12. CASE f \in {"proof_nC", "uncompressed"}
  <2>1. /\ Len(p["a"]) = 1 /\ Len(p["b"]) = 1 /\ Len(p["c"]) = 1 /\ Len(p["proof_nC"]) = 1
        /\ Len(p["pok"]) = 0 /\ Len(p["uncompressed"]) = Len(p["commitment"])
        /\ Len(p["commitment"]) \in Nat
    BY <1>12, <1>b, <1>d, <1>f DEF ProofHeads
  <2>2. p["proof_nC"][1] \in Nat /\ Len(p["commitment"]) <= p["proof_nC"][1]
    <3>1. p["proof_nC"][1] \in Nat
      BY <1>f, <2>1
    <3>2. CASE f = "proof_nC"
      BY <1>b, <1>d, <3>1, <3>2 DEF ProofHeads
    <3>3. CASE f = "uncompressed"
      BY <1>b, <1>c, <1>d, <3>1, <3>3 DEF CopyFields
    <3> QED
      BY <1>12, <3>1, <3>2, <3>3
  <2>3. CASE Len(p["commitment"]) < p["proof_nC"][1]
    <3>1. After(f, p) = "commitment"
      BY <1>12, <2>3, AfterIs
    <3>2. ProofStage("commitment", p)
      BY <1>g, <2>1, <2>2, <2>3 DEF ProofStage, CopiesStage, ProofFields, ProofHeads, CopyFields
    <3> QED
      BY <3>1, <3>2
  <2>4. CASE ~(Len(p["commitment"]) < p["proof_nC"][1])
    <3>1. After(f, p) = "pok" /\ Len(p["commitment"]) = p["proof_nC"][1]
      BY <1>12, <2>1, <2>2, <2>4, AfterIs
    <3>2. ProofStage("pok", p)
      BY <1>g, <2>1, <3>1 DEF ProofStage, CopiesStage, ProofFields, ProofHeads, CopyFields
    <3> QED
      BY <3>1, <3>2
  <2> QED
    BY <2>3, <2>4
<1>13. CASE f = "commitment"
  <2>1. /\ Len(p["a"]) = 1 /\ Len(p["b"]) = 1 /\ Len(p["c"]) = 1 /\ Len(p["proof_nC"]) = 1
        /\ Len(p["pok"]) = 0 /\ Len(p["uncompressed"]) = Len(p["commitment"]) - 1
        /\ Len(p["commitment"]) >= 1
    BY <1>13, <1>b, <1>d, <1>f DEF ProofHeads
  <2>2. Len(p["commitment"]) <= p["proof_nC"][1]
    <3>1. p["proof_nC"][1] \in Nat
      BY <1>f, <2>1
    <3> QED
      BY <1>13, <1>b, <1>c, <1>d, <1>f, <3>1
  <2>3. ProofStage("uncompressed", p)
    BY <1>g, <2>1, <2>2 DEF ProofStage, CopiesStage, ProofFields, ProofHeads, CopyFields
  <2> QED
    BY <1>13, <2>3, AfterIs
<1>14. CASE f = "pok"
  <2>1. /\ Len(p["a"]) = 1 /\ Len(p["b"]) = 1 /\ Len(p["c"]) = 1 /\ Len(p["proof_nC"]) = 1
        /\ Len(p["pok"]) = 1 /\ Len(p["uncompressed"]) = Len(p["commitment"])
        /\ Len(p["commitment"]) = p["proof_nC"][1]
    BY <1>14, <1>b, <1>c, <1>d DEF ProofHeads
  <2>2. ProofStage("end", p)
    BY <1>g, <2>1 DEF ProofStage, CopiesStage, ProofFields, ProofHeads, CopyFields
  <2> QED
    BY <1>14, <2>2, AfterIs
<1> QED
  BY <1>9, <1>10, <1>11, <1>12, <1>13, <1>14 DEF ProofFields, ProofHeads, CopyFields

\* The fields of the public inputs.
PublicFields == {"n_inner", "n_limbs", "scalar"}

\* How far the public inputs have been read when f is next; one limb is all that is read.
PublicStage(f, g) ==
  /\ f \in PublicFields \cup {"end"}
  /\ Len(g["n_inner"]) = IF f = "n_inner" THEN 0 ELSE 1
  /\ Len(g["n_limbs"]) = IF f \in {"n_inner", "n_limbs"} THEN 0 ELSE 1
  /\ f \in {"scalar", "end"} => g["n_limbs"][1] = 1
  /\ f \in {"n_inner", "n_limbs"} => Len(g["scalar"]) = 0
  /\ f = "scalar" => Len(g["scalar"]) < g["n_inner"][1]
  /\ f = "end" => Len(g["scalar"]) = g["n_inner"][1]

\* The fields after the one that is read have not been read.
LEMMA PublicLater ==
  ASSUME NEW g, NEW k \in 1..3, PublicStage(PublicHead[k], g)
  PROVE  \A j \in 1..3 : j > k => Len(g[PublicHead[j]]) = 0
<1> DEFINE f == PublicHead[k]
<1>1. /\ f \in {"n_inner"} => Len(g["n_limbs"]) = 0
      /\ f \in {"n_inner", "n_limbs"} => Len(g["scalar"]) = 0
  BY DEF PublicStage
<1>2. /\ k < 2 => f \in {"n_inner"}
      /\ k < 3 => f \in {"n_inner", "n_limbs"}
  BY HeadsAre
<1> HIDE DEF f
<1>3. /\ k < 2 => Len(g[PublicHead[2]]) = 0
      /\ k < 3 => Len(g[PublicHead[3]]) = 0
  BY <1>1, <1>2, HeadsAre
<1> QED
  BY <1>3

\* A public input that is read is added to the whole.
LEMMA PublicsGrow ==
  ASSUME NEW g, Typed(g), NEW f \in PublicFields, PublicStage(f, g), NEW v, Good(f, v)
  PROVE  LET p == Pushed(g, f, v) IN
         /\ Typed(p) /\ OneMore(g, f, Item(f, v), p)
         /\ FlattenSeq(PublicParts(p)) = Cat(FlattenSeq(PublicParts(g)), v)
<1> DEFINE p == Pushed(g, f, v)
           x == Item(f, v)
<1>1. f \in Names /\ f # "committed_index" /\ f # "committed_count"
  BY KindIs DEF PublicFields
<1>3. \A h \in Names : g[h] \in Seq(Read[h])
  BY DEF Typed
<1>5. Typed(p) /\ OneMore(g, f, x, p)
  BY <1>1, PushedIs
<1>6. Cells(f, x) = v
  BY <1>1, CellsAre
<1>7. x \in Read[f]
  BY <1>1, ItemTyped
<1> HIDE DEF p, x
<1>8. PICK k \in 1..3 : f = PublicHead[k]
  BY HeadsAre DEF PublicFields
<1>9. \A j \in 1..3 : j > k => Len(g[PublicHead[j]]) = 0
  BY <1>8, PublicLater
<1>10. \A j \in 1..3 : j > k => g[PublicHead[j]] = <<>>
  <2> SUFFICES ASSUME NEW j \in 1..3, j > k PROVE g[PublicHead[j]] = <<>>
    OBVIOUS
  <2>1. PublicHead[j] \in Names
    BY HeadNames
  <2>2. g[PublicHead[j]] \in Seq(Read[PublicHead[j]]) /\ Len(g[PublicHead[j]]) = 0
    BY <1>3, <1>9, <2>1
  <2> QED
    BY <2>2, EmptySeq
<1>11. x \in Read[PublicHead[k]] /\ OneMore(g, PublicHead[k], x, p)
  BY <1>5, <1>7, <1>8
<1>12. FlattenSeq(PublicParts(p)) = Cat(FlattenSeq(PublicParts(g)), Cells(PublicHead[k], x))
  BY <1>5, <1>10, <1>11, PublicGrow
<1>13. FlattenSeq(PublicParts(p)) = Cat(FlattenSeq(PublicParts(g)), v)
  BY <1>6, <1>8, <1>12
<1> QED
  BY <1>5, <1>13 DEF p, x

\* And leaves the reader where the next field begins.
LEMMA PublicAfter ==
  ASSUME NEW g, Typed(g), NEW p, Typed(p), NEW f \in PublicFields, PublicStage(f, g),
         NEW x \in Read[f], OneMore(g, f, x, p), f = "n_limbs" => x = 1
  PROVE  PublicStage(After(f, p), p)
<1>0. /\ f \in Names /\ f # "committed_count" /\ f # "committed_index" /\ PublicFields \subseteq Names
  BY KindIs DEF PublicFields
<1>2. \A h \in Names \ {f} : p[h] = g[h]
  BY <1>0 DEF OneMore
<1>3. Len(p[f]) = Len(g[f]) + 1 /\ p[f][Len(g[f]) + 1] = x
  <2> DEFINE S == Read[f]
             s == g[f]
  <2>1. s \in Seq(S) /\ x \in S /\ p[f] = Add(s, x)
    BY <1>0 DEF Typed, OneMore
  <2> HIDE DEF S, s
  <2>2. Len(Add(s, x)) = Len(s) + 1
    BY <2>1, AddIs
  <2>3. Add(s, x)[Len(s) + 1] = x
    BY <2>1, AddIs
  <2> QED
    BY <2>1, <2>2, <2>3 DEF s
<1>a. \A h \in PublicFields : Len(p[h]) = IF h = f THEN Len(g[h]) + 1 ELSE Len(g[h])
  BY <1>0, <1>2, <1>3
<1>b. /\ Len(p["n_inner"]) = IF f = "n_inner" THEN Len(g["n_inner"]) + 1 ELSE Len(g["n_inner"])
      /\ Len(p["n_limbs"]) = IF f = "n_limbs" THEN Len(g["n_limbs"]) + 1 ELSE Len(g["n_limbs"])
      /\ Len(p["scalar"]) = IF f = "scalar" THEN Len(g["scalar"]) + 1 ELSE Len(g["scalar"])
      /\ f # "n_inner" => p["n_inner"] = g["n_inner"]
      /\ f # "n_limbs" => p["n_limbs"] = g["n_limbs"]
  BY <1>0, <1>2, <1>a DEF PublicFields
<1>f. /\ Len(g["scalar"]) \in Nat /\ Len(p["scalar"]) \in Nat
      /\ Len(p["n_inner"]) = 1 => p["n_inner"][1] \in Nat
  BY <1>0, CountsAre DEF PublicFields
<1>9. CASE f = "n_inner"
  <2>1. PublicStage("n_limbs", p)
    BY <1>9, <1>b DEF PublicStage, PublicFields
  <2> QED
    BY <1>9, <2>1, AfterIs
<1>10. CASE f \in {"n_limbs", "scalar"}
  <2>1. Len(p["n_inner"]) = 1 /\ Len(p["n_limbs"]) = 1
    BY <1>10, <1>b DEF PublicStage
  <2>2. p["n_limbs"][1] = 1
    <3>1. CASE f = "n_limbs"
      <4>1. Len(g["n_limbs"]) = 0
        BY <3>1 DEF PublicStage
      <4> QED
        BY <1>3, <3>1, <4>1
    <3>2. CASE f = "scalar"
      BY <1>b, <3>2 DEF PublicStage
    <3> QED
      BY <1>10, <3>1, <3>2
  <2>3. p["n_inner"][1] \in Nat /\ Len(p["scalar"]) <= p["n_inner"][1]
    <3>1. CASE f = "n_limbs"
      BY <1>b, <1>f, <2>1, <3>1 DEF PublicStage
    <3>2. CASE f = "scalar"
      BY <1>b, <1>f, <2>1, <3>2 DEF PublicStage
    <3> QED
      BY <1>10, <3>1, <3>2
  <2>4. CASE Len(p["scalar"]) < p["n_inner"][1]
    <3>1. After(f, p) = "scalar"
      BY <1>10, <2>4, AfterIs
    <3>2. PublicStage("scalar", p)
      BY <2>1, <2>2, <2>4 DEF PublicStage, PublicFields
    <3> QED
      BY <3>1, <3>2
  <2>5. CASE ~(Len(p["scalar"]) < p["n_inner"][1])
    <3>1. After(f, p) = "end" /\ Len(p["scalar"]) = p["n_inner"][1]
      BY <1>10, <1>f, <2>3, <2>5, AfterIs
    <3>2. PublicStage("end", p)
      BY <2>1, <2>2, <3>1 DEF PublicStage, PublicFields
    <3> QED
      BY <3>1, <3>2
  <2> QED
    BY <2>4, <2>5
<1> QED
  BY <1>9, <1>10 DEF PublicFields

-----------------------------------------------------------------------------
(* All three files alike                                                   *)

\* The fields of a file, how far it has been read when f is next, and what was written of it.
Fields(b) == IF b = "vk" THEN VKFields ELSE IF b = "proof" THEN ProofFields ELSE PublicFields
Stage(b, f, g) ==
  IF b = "vk" THEN VKStage(f, g)
  ELSE IF b = "proof" THEN ProofStage(f, g) ELSE PublicStage(f, g)
Part(b, g) ==
  FlattenSeq(IF b = "vk" THEN VKParts(g)
             ELSE IF b = "proof" THEN ProofParts(g) ELSE PublicParts(g))

\* The files and where they begin.
LEMMA BlobsAre ==
  /\ Blobs = {"vk", "proof", "public"}
  /\ First["vk"] = "alpha" /\ First["proof"] = "a" /\ First["public"] = "n_inner"
  BY DEF Blobs, First

\* A field belongs to one file.
LEMMA FieldsAre ==
  /\ \A b : Fields(b) \subseteq Names
  /\ \A b \in Blobs, c \in Blobs : b # c => Fields(b) \cap Fields(c) = {}
  /\ \A b \in Blobs : First[b] \in Fields(b) /\ "end" \notin Fields(b)
<1>1. VKFields \subseteq Names /\ ProofFields \subseteq Names /\ PublicFields \subseteq Names
  BY KindIs DEF VKFields, HeadFields, KeyFields, ProofFields, ProofHeads, CopyFields, PublicFields
<1>2. VKFields \cap ProofFields = {} /\ VKFields \cap PublicFields = {}
  BY DEF VKFields, HeadFields, KeyFields, ProofFields, ProofHeads, CopyFields, PublicFields
<1>3. ProofFields \cap PublicFields = {}
  BY DEF ProofFields, ProofHeads, CopyFields, PublicFields
<1>4. /\ "alpha" \in VKFields /\ "a" \in ProofFields /\ "n_inner" \in PublicFields
      /\ "end" \notin VKFields /\ "end" \notin ProofFields /\ "end" \notin PublicFields
  BY DEF VKFields, HeadFields, KeyFields, ProofFields, ProofHeads, CopyFields, PublicFields
<1>5. \A b : Fields(b) \subseteq Names
  BY <1>1 DEF Fields
<1>6. \A b \in Blobs, c \in Blobs : b # c => Fields(b) \cap Fields(c) = {}
  BY <1>2, <1>3, BlobsAre DEF Fields
<1>7. \A b \in Blobs : First[b] \in Fields(b) /\ "end" \notin Fields(b)
  BY <1>4, BlobsAre DEF Fields
<1> QED
  BY <1>5, <1>6, <1>7

\* What is written of a file is cells.
LEMMA PartTyped ==
  ASSUME NEW g, Typed(g), NEW b
  PROVE  Part(b, g) \in Seq(Cell)
  BY PartsTyped, FlatTyped DEF Part

\* What has been written of a file, and how far it has been read, is in its fields.
LEMMA PartKept ==
  ASSUME NEW g, NEW p, NEW b \in Blobs, \A h \in Fields(b) : p[h] = g[h]
  PROVE  Part(b, p) = Part(b, g) /\ \A e : Stage(b, e, g) => Stage(b, e, p)
<1>1. CASE b = "vk"
  <2>1. /\ p["alpha"] = g["alpha"] /\ p["beta"] = g["beta"] /\ p["gamma"] = g["gamma"]
        /\ p["delta"] = g["delta"] /\ p["ic_count"] = g["ic_count"] /\ p["ic"] = g["ic"]
        /\ p["vk_nC"] = g["vk_nC"]
    BY <1>1 DEF Fields, VKFields, HeadFields
  <2>2. /\ p["pedersen_G"] = g["pedersen_G"] /\ p["pedersen_GSigmaNeg"] = g["pedersen_GSigmaNeg"]
        /\ p["committed_count"] = g["committed_count"]
        /\ p["committed_index"] = g["committed_index"]
    BY <1>1 DEF Fields, VKFields, KeyFields
  <2>3. \A j : KeyParts(p, j) = KeyParts(g, j)
    BY <2>2 DEF KeyParts, Opt, Indices
  <2>4. Keys(p) = Keys(g)
    BY <2>2, <2>3 DEF Keys
  <2>5. VKParts(p) = VKParts(g)
    BY <2>1, <2>4 DEF VKParts, Seg
  <2>6. \A e : HeadStage(e, g) => HeadStage(e, p)
    BY <2>1 DEF HeadStage
  <2>7. \A e : KeysCount(e, g) => KeysCount(e, p)
    BY <2>1, <2>2 DEF KeysCount
  <2>8. \A e : KeysStage(e, g) => KeysStage(e, p)
    BY <2>2 DEF KeysStage
  <2> QED
    BY <1>1, <2>5, <2>6, <2>7, <2>8 DEF Part, Stage, VKStage
<1>2. CASE b = "proof"
  <2>1. /\ p["a"] = g["a"] /\ p["b"] = g["b"] /\ p["c"] = g["c"] /\ p["proof_nC"] = g["proof_nC"]
        /\ p["commitment"] = g["commitment"] /\ p["uncompressed"] = g["uncompressed"]
        /\ p["pok"] = g["pok"]
    BY <1>2 DEF Fields, ProofFields, ProofHeads, CopyFields
  <2>2. \A j : CopyParts(p, j) = CopyParts(g, j)
    BY <2>1 DEF CopyParts, Opt
  <2>3. Copies(p) = Copies(g)
    BY <2>1, <2>2 DEF Copies
  <2>4. ProofParts(p) = ProofParts(g)
    BY <2>1, <2>3 DEF ProofParts, Seg
  <2>5. \A e : ProofStage(e, g) => ProofStage(e, p)
    BY <2>1 DEF ProofStage, CopiesStage
  <2> QED
    BY <1>2, <2>4, <2>5 DEF Part, Stage
<1>3. CASE b = "public"
  <2>1. /\ p["n_inner"] = g["n_inner"] /\ p["n_limbs"] = g["n_limbs"] /\ p["scalar"] = g["scalar"]
    BY <1>3 DEF Fields, PublicFields
  <2>2. PublicParts(p) = PublicParts(g)
    BY <2>1 DEF PublicParts, Seg
  <2>3. \A e : PublicStage(e, g) => PublicStage(e, p)
    BY <2>1 DEF PublicStage
  <2> QED
    BY <1>3, <2>2, <2>3 DEF Part, Stage
<1> QED
  BY <1>1, <1>2, <1>3, BlobsAre

\* What reading a value does, whichever the file.
LEMMA FieldRead ==
  ASSUME NEW g, Typed(g), NEW b \in Blobs, NEW f \in Fields(b), Stage(b, f, g),
         NEW v, Good(f, v), f = "n_limbs" => v = << 1 >>,
         f = "uncompressed" => v = Uncompressed(Last(g["commitment"]))
  PROVE  LET p == Pushed(g, f, v) IN
         /\ Typed(p) /\ OneMore(g, f, Item(f, v), p)
         /\ Part(b, p) = Cat(Part(b, g), v) /\ Stage(b, After(f, p), p)
         /\ \A c \in Blobs \ {b} :
              Part(c, p) = Part(c, g) /\ \A e : Stage(c, e, g) => Stage(c, e, p)
<1> DEFINE p == Pushed(g, f, v)
           x == Item(f, v)
<1>1. f \in Names /\ Fields(b) \subseteq Names
  BY FieldsAre
<1>2. /\ f # "committed_index" => x \in Read[f]
      /\ f = "committed_index" => x \in U32
  BY <1>1, ItemTyped
<1>3. f = "uncompressed" => x = Uncompressed(Last(g["commitment"]))
  BY WidthIs DEF Item
<1>4. f = "n_limbs" => x = 1
  BY WidthIs DEF Item
<1>5. Typed(p) /\ OneMore(g, f, x, p) /\ Part(b, p) = Cat(Part(b, g), v)
  <2>1. CASE b = "vk"
    BY <2>1, VKGrow DEF Fields, Stage, Part
  <2>2. CASE b = "proof"
    BY <2>2, ProofGrow DEF Fields, Stage, Part
  <2>3. CASE b = "public"
    BY <2>3, PublicsGrow DEF Fields, Stage, Part
  <2> QED
    BY <2>1, <2>2, <2>3, BlobsAre
<1> HIDE DEF p, x
<1>6. Stage(b, After(f, p), p)
  <2>1. CASE b = "vk"
    <3>1. f \in VKFields /\ VKStage(f, g)
      BY <2>1 DEF Fields, Stage
    <3>2. CASE f \in HeadFields
      <4>1. x \in Read[f]
        BY <1>2, <3>2 DEF HeadFields
      <4> QED
        BY <1>5, <2>1, <3>1, <3>2, <4>1, VKAfterHead DEF Stage
    <3>3. CASE f \in KeyFields
      BY <1>2, <1>5, <2>1, <3>1, <3>3, VKAfterKeys DEF Stage
    <3> QED
      BY <3>1, <3>2, <3>3 DEF VKFields
  <2>2. CASE b = "proof"
    <3>1. f \in ProofFields /\ ProofStage(f, g)
      BY <2>2 DEF Fields, Stage
    <3>2. x \in Read[f]
      BY <1>2, <3>1 DEF ProofFields, ProofHeads, CopyFields
    <3> QED
      BY <1>3, <1>5, <2>2, <3>1, <3>2, ProofAfter DEF Stage
  <2>3. CASE b = "public"
    <3>1. f \in PublicFields /\ PublicStage(f, g)
      BY <2>3 DEF Fields, Stage
    <3>2. x \in Read[f]
      BY <1>2, <3>1 DEF PublicFields
    <3> QED
      BY <1>4, <1>5, <2>3, <3>1, <3>2, PublicAfter DEF Stage
  <2> QED
    BY <2>1, <2>2, <2>3, BlobsAre
<1>7. ASSUME NEW c \in Blobs \ {b}
      PROVE  Part(c, p) = Part(c, g) /\ \A e : Stage(c, e, g) => Stage(c, e, p)
  <2>1. \A h \in Fields(c) : p[h] = g[h]
    <3> SUFFICES ASSUME NEW h \in Fields(c) PROVE p[h] = g[h]
      OBVIOUS
    <3>1. h \notin Fields(b) /\ h \in Names
      BY FieldsAre
    <3>2. f = "committed_count" => h # "committed_index"
      <4>1. CASE b = "vk"
        BY <3>1, <4>1 DEF Fields, VKFields, KeyFields
      <4>2. CASE b # "vk"
        BY <4>2 DEF Fields, ProofFields, ProofHeads, CopyFields, PublicFields
      <4> QED
        BY <4>1, <4>2
    <3> QED
      BY <1>5, <3>1, <3>2 DEF OneMore
  <2> QED
    BY <2>1, PartKept
<1> QED
  BY <1>5, <1>6, <1>7 DEF p, x

-----------------------------------------------------------------------------
(* The invariant                                                           *)

\* The field each file is read at: the end of those that were read, the start of those to come.
At(b) ==
  IF b = blob THEN field ELSE IF b = "vk" \/ blob = "public" THEN "end" ELSE First[b]

\* The counts of key, proof and public inputs agree.
Shaped == CountsAgree /\ Len(VK.ic) = 1 + NKeys + Len(Public)

\* The indices of the commitments name public inputs.
Named == \A j \in 1..NKeys : \A k \in DOMAIN VK.committed[j] : VK.committed[j][k] \in DOMAIN Public

\* What is read of each file is what was written of it so far.
Progress ==
  /\ \A b \in Blobs : Stage(b, At(b), got) /\ Pre(Part(b, got), files[b])
  /\ pos = Len(Part(blob, got))

\* Nothing has been read.
Blank == blob = "vk" /\ field = First["vk"] /\ got = [f \in DOMAIN Kind |-> <<>>]

\* What the steps before q have found.
Found(q) ==
  /\ q = "write" => Blank
  /\ q \in {"shape?", "challenge?", "pok?", "pairing?", "accepted"} =>
       blob = "public" /\ field = "end" /\ pos = Len(files["public"])
  /\ q \in {"challenge?", "pok?", "pairing?", "accepted"} => Shaped
  /\ q \in {"pok?", "pairing?", "accepted"} => Named
  /\ q \in {"pairing?", "accepted"} => NKeys <= 1 /\ (NKeys = 1 => PokHolds)
  /\ q = "accepted" => PairingHolds
  /\ q # "panic"

\* The inductive invariant: values of their types, as much of each file read as has been written
\* of the values, and what the verifier has checked is so.
CWInv == TypeOK /\ Progress /\ Found(pc)

\* Where the program can be.
Steps == Ends \cup {"write", "parse", "shape?", "challenge?", "pok?", "pairing?"}

\* What was read are values of the fields.
LEMMA TypedGot ==
  ASSUME TypeOK
  PROVE  Typed(got)
  BY DEF TypeOK, Typed, Names

\* A step that only says where to go next keeps what was read.
LEMMA Stay ==
  ASSUME CWInv, NEW q \in Steps, Found(q), End(q)
  PROVE  CWInv'
<1>1. /\ pc' = q /\ written' = written /\ files' = files /\ intact' = intact /\ blob' = blob
      /\ pos' = pos /\ field' = field /\ got' = got
  BY DEF End
<1>2. TypeOK'
  BY <1>1 DEF CWInv, TypeOK, Steps
<1>3. Progress'
  <2>1. \A b : At(b)' = At(b)
    BY <1>1 DEF At
  <2> QED
    BY <1>1, <2>1 DEF CWInv, Progress
<1>4. Found(pc)'
  <2>1. NKeys' = NKeys /\ VK' = VK /\ Proof' = Proof /\ Raw' = Raw /\ Public' = Public
    BY <1>1 DEF NKeys, VK, Proof, Raw, Public
  <2>2. Shaped' = Shaped /\ Named' = Named /\ PokHolds' = PokHolds /\ Blank' = Blank
    BY <1>1, <2>1 DEF Shaped, CountsAgree, Named, PokHolds, Blank
  <2>3. PublicExt' = PublicExt
    BY <2>1 DEF PublicExt
  <2>4. KSum' = KSum
    BY <2>1, <2>3 DEF KSum
  <2>5. GnarkSum' = GnarkSum
    BY <1>1 DEF GnarkSum
  <2>6. PairingHolds' = PairingHolds
    BY <1>1, <2>1, <2>4, <2>5 DEF PairingHolds
  <2> QED
    BY <1>1, <2>1, <2>2, <2>6 DEF Found
<1> QED
  BY <1>2, <1>3, <1>4 DEF CWInv

\* Nothing has been written of a file when its first field is next.
LEMMA PartEmpty ==
  ASSUME NEW g, Typed(g), NEW b \in Blobs, Stage(b, First[b], g)
  PROVE  Part(b, g) = <<>>
<1>0. Cat(<<>>, <<>>) = <<>> /\ \A h \in Names : g[h] \in Seq(Read[h])
  <2>1. <<>> \in Seq(Cell)
    OBVIOUS
  <2> QED
    BY <2>1, CatFacts DEF Typed
<1>a. \A h \in Names : Len(g[h]) = 0 => g[h] = <<>>
  BY <1>0, EmptySeq
<1>1. CASE b = "vk"
  <2>1. HeadStage("alpha", g) /\ KeysCount("alpha", g)
    BY <1>1, BlobsAre DEF Stage, VKStage
  <2>2. /\ Len(g["alpha"]) = 0 /\ Len(g["beta"]) = 0 /\ Len(g["gamma"]) = 0 /\ Len(g["delta"]) = 0
        /\ Len(g["ic_count"]) = 0 /\ Len(g["ic"]) = 0 /\ Len(g["vk_nC"]) = 0
        /\ Len(g["pedersen_G"]) = 0
    BY <2>1 DEF HeadStage, KeysCount, HeadFields
  <2>3. /\ g["alpha"] = <<>> /\ g["beta"] = <<>> /\ g["gamma"] = <<>> /\ g["delta"] = <<>>
        /\ g["ic_count"] = <<>> /\ g["ic"] = <<>> /\ g["vk_nC"] = <<>> /\ g["pedersen_G"] = <<>>
    BY <1>a, <2>2, KindIs
  <2>4. /\ Seg(g, "alpha") = <<>> /\ Seg(g, "beta") = <<>> /\ Seg(g, "gamma") = <<>>
        /\ Seg(g, "delta") = <<>> /\ Seg(g, "ic_count") = <<>> /\ Seg(g, "ic") = <<>>
        /\ Seg(g, "vk_nC") = <<>> /\ FlattenSeq(Keys(g)) = <<>>
    BY <2>3, SegEmpty, KeysEmpty
  <2>5. VKParts(g) = << <<>>, <<>>, <<>>, <<>>, <<>>, <<>>, <<>>, <<>> >>
    BY <2>4 DEF VKParts
  <2> DEFINE s == VKParts(g)
  <2>6. /\ s \in Seq(Seq(Cell)) /\ Len(s) = 8 /\ s[1] = <<>> /\ s[2] = <<>> /\ s[3] = <<>>
        /\ s[4] = <<>> /\ s[5] = <<>> /\ s[6] = <<>> /\ s[7] = <<>> /\ s[8] = <<>>
    BY <2>5, PartsTyped
  <2> HIDE DEF s
  <2>7. FlattenSeq(s) = <<>>
    BY <1>0, <2>6, FlatOf
  <2> QED
    BY <1>1, <2>7 DEF Part, s
<1>2. CASE b = "proof"
  <2>1. ProofStage("a", g)
    BY <1>2, BlobsAre DEF Stage
  <2>2. /\ Len(g["a"]) = 0 /\ Len(g["b"]) = 0 /\ Len(g["c"]) = 0 /\ Len(g["proof_nC"]) = 0
        /\ Len(g["commitment"]) = 0 /\ Len(g["pok"]) = 0
    BY <2>1 DEF ProofStage, ProofHeads
  <2>3. /\ g["a"] = <<>> /\ g["b"] = <<>> /\ g["c"] = <<>> /\ g["proof_nC"] = <<>>
        /\ g["commitment"] = <<>> /\ g["pok"] = <<>>
    BY <1>a, <2>2, KindIs
  <2>4. /\ Seg(g, "a") = <<>> /\ Seg(g, "b") = <<>> /\ Seg(g, "c") = <<>>
        /\ Seg(g, "proof_nC") = <<>> /\ Seg(g, "pok") = <<>> /\ FlattenSeq(Copies(g)) = <<>>
    BY <2>3, SegEmpty, CopiesEmpty
  <2>5. ProofParts(g) = << <<>>, <<>>, <<>>, <<>>, <<>>, <<>> >>
    BY <2>4 DEF ProofParts
  <2> DEFINE s == ProofParts(g)
  <2>6. /\ s \in Seq(Seq(Cell)) /\ Len(s) = 6 /\ s[1] = <<>> /\ s[2] = <<>> /\ s[3] = <<>>
        /\ s[4] = <<>> /\ s[5] = <<>> /\ s[6] = <<>>
    BY <2>5, PartsTyped
  <2> HIDE DEF s
  <2>7. FlattenSeq(s) = <<>>
    BY <1>0, <2>6, FlatOf
  <2> QED
    BY <1>2, <2>7 DEF Part, s
<1>3. CASE b = "public"
  <2>1. PublicStage("n_inner", g)
    BY <1>3, BlobsAre DEF Stage
  <2>2. Len(g["n_inner"]) = 0 /\ Len(g["n_limbs"]) = 0 /\ Len(g["scalar"]) = 0
    BY <2>1 DEF PublicStage
  <2>3. g["n_inner"] = <<>> /\ g["n_limbs"] = <<>> /\ g["scalar"] = <<>>
    BY <1>a, <2>2, KindIs
  <2>4. Seg(g, "n_inner") = <<>> /\ Seg(g, "n_limbs") = <<>> /\ Seg(g, "scalar") = <<>>
    BY <2>3, SegEmpty
  <2>5. PublicParts(g) = << <<>>, <<>>, <<>> >>
    BY <2>4 DEF PublicParts
  <2> DEFINE s == PublicParts(g)
  <2>6. s \in Seq(Seq(Cell)) /\ Len(s) = 3 /\ s[1] = <<>> /\ s[2] = <<>> /\ s[3] = <<>>
    BY <2>5, PartsTyped
  <2> HIDE DEF s
  <2>7. FlattenSeq(s) = <<>>
    BY <1>0, <2>6, FlatOf
  <2> QED
    BY <1>3, <2>7 DEF Part, s
<1> QED
  BY <1>1, <1>2, <1>3, BlobsAre

\* Before anything is read.
LEMMA BlankStage ==
  ASSUME NEW g, g = [f \in Names |-> <<>>]
  PROVE  Typed(g) /\ \A b \in Blobs : Stage(b, First[b], g) /\ Part(b, g) = <<>>
<1>1. DOMAIN g = Names /\ \A f \in Names : g[f] = <<>>
  OBVIOUS
<1>2. Typed(g)
  BY <1>1 DEF Typed
<1>3. /\ g["alpha"] = <<>> /\ g["beta"] = <<>> /\ g["gamma"] = <<>> /\ g["delta"] = <<>>
      /\ g["ic_count"] = <<>> /\ g["ic"] = <<>> /\ g["vk_nC"] = <<>> /\ g["pedersen_G"] = <<>>
      /\ g["pedersen_GSigmaNeg"] = <<>> /\ g["committed_count"] = <<>>
      /\ g["committed_index"] = <<>>
  BY <1>1, KindIs
<1>4. /\ g["a"] = <<>> /\ g["b"] = <<>> /\ g["c"] = <<>> /\ g["proof_nC"] = <<>>
      /\ g["commitment"] = <<>> /\ g["uncompressed"] = <<>> /\ g["pok"] = <<>>
      /\ g["n_inner"] = <<>> /\ g["n_limbs"] = <<>> /\ g["scalar"] = <<>>
  BY <1>1, KindIs
<1>5. VKStage("alpha", g)
  <2>1. HeadStage("alpha", g)
    BY <1>3 DEF HeadStage, HeadFields
  <2>2. KeysCount("alpha", g) /\ KeysStage("alpha", g)
    BY <1>3 DEF KeysCount, KeysStage, HeadFields, KeyFields
  <2> QED
    BY <2>1, <2>2 DEF VKStage, VKFields, HeadFields
<1>6. ProofStage("a", g)
  BY <1>4 DEF ProofStage, CopiesStage, ProofFields, ProofHeads, CopyFields
<1>7. PublicStage("n_inner", g)
  BY <1>4 DEF PublicStage, PublicFields
<1>8. \A b \in Blobs : Stage(b, First[b], g)
  BY <1>5, <1>6, <1>7, BlobsAre DEF Stage
<1> QED
  BY <1>2, <1>8, PartEmpty

\* The next w cells of a file continue the beginning that was read.
LEMMA PreNext ==
  ASSUME NEW S, NEW s \in Seq(S), NEW t \in Seq(S), Pre(s, t), NEW w \in Nat,
         Len(s) + w <= Len(t)
  PROVE  LET v == SubSeq(t, Len(s) + 1, Len(s) + w) IN
         v \in Seq(S) /\ Len(v) = w /\ Pre(Cat(s, v), t) /\ Len(Cat(s, v)) = Len(s) + w
<1> DEFINE n == Len(s)
           v == SubSeq(t, n + 1, n + w)
<1>1. n \in Nat /\ Len(t) \in Nat
  OBVIOUS
<1>2. v \in Seq(S) /\ Len(v) = w /\ \A i \in 1..w : v[i] = t[n + i]
  <2>1. v \in Seq(S)
    BY <1>1
  <2>2. Len(v) = w
    BY <1>1
  <2>3. ASSUME NEW i \in 1..w PROVE v[i] = t[n + i]
    <3>1. n + 1 \in Int /\ n + w \in Int /\ (n + w) - (n + 1) + 1 = w /\ (n + 1) + i - 1 = n + i
      BY <1>1
    <3>2. v[i] = t[(n + 1) + i - 1]
      BY <1>1, <3>1
    <3> QED
      BY <3>1, <3>2
  <2> QED
    BY <2>1, <2>2, <2>3
<1> HIDE DEF v
<1>3. /\ Len(s \o v) = n + w /\ \A i \in 1..n + w : (s \o v)[i] = IF i <= n THEN s[i] ELSE v[i - n]
  BY <1>1, <1>2, ConcatProperties
<1>4. \A i \in 1..n + w : (s \o v)[i] = t[i]
  <2> SUFFICES ASSUME NEW i \in 1..n + w PROVE (s \o v)[i] = t[i]
    OBVIOUS
  <2>1. CASE i <= n
    BY <1>3, <2>1 DEF Pre
  <2>2. CASE i > n
    <3>1. i - n \in 1..w /\ n + (i - n) = i
      BY <1>1, <2>2
    <3> QED
      BY <1>1, <1>2, <1>3, <2>2, <3>1
  <2>3. i <= n \/ i > n
    BY <1>1
  <2> QED
    BY <2>1, <2>2, <2>3, Zenon
<1>5. Pre(s \o v, t)
  BY <1>3, <1>4 DEF Pre
<1> QED
  BY <1>2, <1>3, <1>5 DEF Cat, v

\* The invariant holds before anything is written.
LEMMA CWInit ==
  ASSUME Init
  PROVE  CWInv
<1>1. Typed(got) /\ \A b \in Blobs : Stage(b, First[b], got) /\ Part(b, got) = <<>>
  <2>1. got = [f \in Names |-> <<>>]
    BY DEF Init, Names
  <2> QED
    BY <2>1, BlankStage
<1>2. \A b \in Blobs : At(b) = First[b]
  BY BlobsAre DEF Init, At
<1>3. TypeOK
  <2>1. \A b \in Blobs : files[b] = <<>>
    BY DEF Init
  <2>2. files \in [Blobs -> Seq(Cell)]
    BY DEF Init
  <2>3. blob \in Blobs /\ pos \in 0..Len(files[blob]) /\ field \in DOMAIN Kind \cup {"end"}
    BY <2>1, BlobsAre, KindIs DEF Init, Names
  <2> QED
    BY <1>1, <2>2, <2>3 DEF Init, TypeOK, Typed, Names
<1>4. Progress
  <2>1. \A b \in Blobs : Pre(<<>>, files[b])
    BY DEF Init, Pre
  <2> QED
    BY <1>1, <1>2, <2>1, BlobsAre DEF Init, Progress
<1>5. Found(pc)
  BY DEF Init, Found, Blank
<1> QED
  BY <1>3, <1>4, <1>5 DEF CWInv

\* Reading a field.
LEMMA CWRead ==
  ASSUME CWInv, ReadField
  PROVE  CWInv'
<1> DEFINE next == pos + Width(field)
           v == SubSeq(files[blob], pos + 1, next)
<1>1. pc = "parse" /\ field # "end"
  BY DEF ReadField
<1>2. /\ TypeOK /\ Typed(got) /\ blob \in Blobs /\ files[blob] \in Seq(Cell)
      /\ pos = Len(Part(blob, got)) /\ Part(blob, got) \in Seq(Cell)
      /\ Stage(blob, field, got) /\ Pre(Part(blob, got), files[blob])
  BY TypedGot, PartTyped DEF CWInv, TypeOK, Progress, At
<1>3. field \in Fields(blob) /\ field \in Names
  <2>1. field \in Fields(blob)
    BY <1>1, <1>2 DEF Stage, Fields, VKStage, ProofStage, PublicStage
  <2> QED
    BY <2>1, FieldsAre
<1>4. \A how \in {"truncated", "bad_scalar", "bad_point", "mismatch", "shape"} :
        how \in Steps /\ Found(how)
  BY DEF Steps, Ends, Found
<1>5. CASE next > Len(files[blob])
  <2>1. End("truncated")
    BY <1>5 DEF ReadField
  <2> QED
    BY <1>4, <2>1, Stay
<1>6. CASE ~(next > Len(files[blob])) /\ ~Decodes(field, v)
  <2>1. End("bad_scalar") \/ End("bad_point")
    BY <1>6 DEF ReadField
  <2> QED
    BY <1>4, <2>1, Stay
<1>7. CASE ~(next > Len(files[blob])) /\ Decodes(field, v) /\ field = "uncompressed" /\ ~CopiesAgree(v)
  <2>1. End("mismatch")
    BY <1>7 DEF ReadField
  <2> QED
    BY <1>4, <2>1, Stay
<1>8. CASE /\ ~(next > Len(files[blob])) /\ Decodes(field, v)
           /\ field = "n_limbs" /\ v # << 1 >>
  <2>1. End("shape")
    BY <1>8 DEF ReadField
  <2> QED
    BY <1>4, <2>1, Stay
<1>9. CASE /\ ~(next > Len(files[blob])) /\ Decodes(field, v)
           /\ ~(field = "uncompressed" /\ ~CopiesAgree(v))
           /\ ~(field = "n_limbs" /\ v # << 1 >>)
  <2>1. /\ pos' = next /\ got' = Pushed(got, field, v) /\ field' = After(field, got')
        /\ written' = written /\ files' = files /\ intact' = intact /\ pc' = pc /\ blob' = blob
    BY <1>9 DEF ReadField
  <2>2. Width(field) \in Nat /\ pos \in Nat
    BY <1>2 DEF Width
  <2>3. pos + Width(field) <= Len(files[blob])
    BY <1>2, <1>9, <2>2
  <2>4. /\ v \in Seq(Cell) /\ Len(v) = Width(field)
        /\ Pre(Cat(Part(blob, got), v), files[blob])
        /\ Len(Cat(Part(blob, got), v)) = pos + Width(field)
    <3> DEFINE s == Part(blob, got)
               t == files[blob]
               w == Width(field)
    <3>1. /\ s \in Seq(Cell) /\ t \in Seq(Cell) /\ Pre(s, t) /\ w \in Nat /\ Len(s) + w <= Len(t)
          /\ pos = Len(s)
      BY <1>2, <2>2, <2>3
    <3>2. v = SubSeq(t, Len(s) + 1, Len(s) + w)
      BY <3>1
    <3> HIDE DEF s, t, w, v
    <3>3. v \in Seq(Cell) /\ Len(v) = w /\ Pre(Cat(s, v), t) /\ Len(Cat(s, v)) = Len(s) + w
      BY <3>1, <3>2, PreNext
    <3> QED
      BY <3>1, <3>3 DEF s, t, w
  <2>5. field = "uncompressed" => /\ v = Uncompressed(Last(got["commitment"]))
                                  /\ Last(got["commitment"]) \in G1
    <3> SUFFICES ASSUME field = "uncompressed"
                 PROVE  v = Uncompressed(Last(got["commitment"])) /\ Last(got["commitment"]) \in G1
      OBVIOUS
    <3>1. v = Uncompressed(Last(got["commitment"]))
      BY <1>9 DEF CopiesAgree
    <3>2. got["commitment"] \in Seq(G1)
      BY <1>2, KindIs, ReadIs DEF Typed
    <3>3. blob = "proof"
      BY <1>2, <1>3, BlobsAre DEF Fields, VKFields, HeadFields, KeyFields, PublicFields
    <3>4. Len(got["commitment"]) >= 1
      BY <1>2, <3>3 DEF Stage, ProofStage, CopiesStage
    <3>5. Last(got["commitment"]) \in G1
      <4>1. Len(got["commitment"]) \in 1..Len(got["commitment"])
        BY <3>2, <3>4
      <4> QED
        BY <3>2, <4>1 DEF Last
    <3> QED
      BY <3>1, <3>5
  <2>6. Good(field, v)
    BY <1>9, <2>4, <2>5 DEF Good
  <2>7. field = "n_limbs" => v = << 1 >>
    BY <1>9
  <2>8. /\ Typed(got')
        /\ Part(blob, got') = Cat(Part(blob, got), v) /\ Stage(blob, field', got')
        /\ \A c \in Blobs \ {blob} :
             Part(c, got') = Part(c, got) /\ \A e : Stage(c, e, got) => Stage(c, e, got')
    <3> HIDE DEF v
    <3> DEFINE p == Pushed(got, field, v)
    <3>1. /\ Typed(p)
          /\ Part(blob, p) = Cat(Part(blob, got), v) /\ Stage(blob, After(field, p), p)
          /\ \A c \in Blobs \ {blob} :
               Part(c, p) = Part(c, got) /\ \A e : Stage(c, e, got) => Stage(c, e, p)
      BY <1>2, <1>3, <2>5, <2>6, <2>7, FieldRead
    <3>2. got' = p /\ field' = After(field, p)
      BY <2>1
    <3> HIDE DEF p
    <3> QED
      BY <3>1, <3>2
  <2> HIDE DEF v, next
  <2>9. TypeOK'
    <3>1. field' \in Names \cup {"end"}
      <4>1. field' \in Fields(blob) \cup {"end"}
        BY <2>8 DEF Stage, Fields, VKStage, ProofStage, PublicStage
      <4> QED
        BY <4>1, FieldsAre
    <3>2. pos' \in 0..Len(files'[blob'])
      BY <2>1, <2>2, <2>3 DEF next
    <3> QED
      BY <1>2, <2>1, <2>8, <3>1, <3>2 DEF TypeOK, Typed, Names
  <2>10. Progress'
    <3>1. \A b \in Blobs \ {blob} : At(b)' = At(b)
      BY <2>1 DEF At
    <3>3. \A b \in Blobs \ {blob} : Stage(b, At(b), got) /\ Pre(Part(b, got), files[b])
      BY DEF CWInv, Progress
    <3>4. \A b \in Blobs \ {blob} : Stage(b, At(b)', got') /\ Pre(Part(b, got'), files'[b])
      BY <2>1, <2>8, <3>1, <3>3
    <3>5. pos' = Len(Part(blob', got'))
      BY <2>1, <2>4, <2>8 DEF next
    <3>6. \A b \in Blobs : Stage(b, At(b)', got') /\ Pre(Part(b, got'), files'[b])
      <4> SUFFICES ASSUME NEW b \in Blobs
                   PROVE  Stage(b, At(b)', got') /\ Pre(Part(b, got'), files'[b])
        OBVIOUS
      <4>1. CASE b = blob
        BY <2>1, <2>4, <2>8, <4>1 DEF At
      <4>2. CASE b # blob
        BY <3>4, <4>2
      <4> QED
        BY <4>1, <4>2
    <3> QED
      BY <3>5, <3>6 DEF Progress
  <2>11. Found(pc)'
    BY <1>1, <2>1 DEF Found
  <2> QED
    BY <2>9, <2>10, <2>11 DEF CWInv
<1> QED
  BY <1>5, <1>6, <1>7, <1>8, <1>9

\* Going on to the next file.
LEMMA CWNextFile ==
  ASSUME CWInv, NextFile
  PROVE  CWInv'
<1>1. /\ TypeOK /\ Typed(got) /\ blob \in Blobs /\ field = "end" /\ pc = "parse"
      /\ pos \in 0..Len(files[blob]) /\ files[blob] \in Seq(Cell)
  BY TypedGot DEF CWInv, TypeOK, NextFile
<1>2. CASE blob = "public"
  <2>1. CASE pos < Len(files[blob])
    <3>1. End("truncated")
      BY <1>2, <2>1 DEF NextFile
    <3>2. "truncated" \in Steps /\ Found("truncated")
      BY DEF Steps, Ends, Found
    <3> QED
      BY <3>1, <3>2, Stay
  <2>2. CASE ~(pos < Len(files[blob]))
    <3>1. End("shape?")
      BY <1>2, <2>2 DEF NextFile
    <3>2. pos = Len(files["public"])
      BY <1>1, <1>2, <2>2
    <3>3. "shape?" \in Steps /\ Found("shape?")
      BY <1>1, <1>2, <3>2 DEF Steps, Ends, Found
    <3> QED
      BY <3>1, <3>3, Stay
  <2> QED
    BY <2>1, <2>2
<1>3. CASE blob # "public"
  <2> DEFINE next == IF blob = "vk" THEN "proof" ELSE "public"
  <2>1. /\ blob' = next /\ pos' = 0 /\ field' = First[next]
        /\ written' = written /\ files' = files /\ intact' = intact /\ pc' = pc /\ got' = got
    BY <1>3 DEF NextFile
  <2>2. next \in Blobs /\ next # blob /\ (blob = "vk" \/ blob = "proof")
    BY <1>1, <1>3, BlobsAre
  <2>3. \A b \in Blobs : At(b)' = At(b)
    <3> SUFFICES ASSUME NEW b \in Blobs PROVE At(b)' = At(b)
      OBVIOUS
    <3>1. CASE b = "vk"
      BY <1>1, <1>3, <2>1, <2>2, <3>1 DEF At
    <3>2. CASE b = "proof"
      BY <1>1, <1>3, <2>1, <2>2, <3>2 DEF At
    <3>3. CASE b = "public"
      BY <1>1, <1>3, <2>1, <2>2, <3>3 DEF At
    <3> QED
      BY <3>1, <3>2, <3>3, BlobsAre
  <2>4. At(next) = First[next]
    BY <1>1, <1>3, <2>2 DEF At
  <2>5. Part(next, got) = <<>>
    <3>1. Stage(next, First[next], got)
      BY <2>2, <2>4 DEF CWInv, Progress
    <3> QED
      BY <1>1, <2>2, <3>1, PartEmpty
  <2> HIDE DEF next
  <2>6. TypeOK'
    <3>1. field' \in Names
      BY <2>1, <2>2, FieldsAre
    <3>2. pos' \in 0..Len(files'[blob'])
      <4>1. files[next] \in Seq(Cell)
        BY <1>1, <2>2 DEF TypeOK
      <4> QED
        BY <2>1, <4>1
    <3> QED
      BY <1>1, <2>1, <2>2, <3>1, <3>2 DEF TypeOK, Names
  <2>7. Progress'
    <3>1. Len(Part(next, got)) = 0
      BY <2>5
    <3>2. \A b \in Blobs : Stage(b, At(b)', got') /\ Pre(Part(b, got'), files'[b])
      BY <2>1, <2>3 DEF CWInv, Progress
    <3> QED
      BY <2>1, <3>1, <3>2 DEF Progress
  <2>8. Found(pc)'
    BY <1>1, <2>1 DEF Found
  <2> QED
    BY <2>6, <2>7, <2>8 DEF CWInv
<1> QED
  BY <1>2, <1>3

\* Two lists one after the other.
LEMMA Joined ==
  ASSUME NEW m \in Nat, NEW n \in Nat, NEW s, NEW t,
         DOMAIN s = 1..m, s = [i \in 1..m |-> s[i]], DOMAIN t = 1..n, t = [i \in 1..n |-> t[i]]
  PROVE  /\ Len(s \o t) = m + n
         /\ \A i \in 1..m : (s \o t)[i] = s[i]
         /\ \A i \in 1..n : (s \o t)[m + i] = t[i]
<1> DEFINE S == {s[i] : i \in 1..m} \cup {t[i] : i \in 1..n}
<1>1. s \in Seq(S) /\ t \in Seq(S) /\ Len(s) = m /\ Len(t) = n
  <2>1. \A i \in 1..m : s[i] \in S
    OBVIOUS
  <2>2. \A i \in 1..n : t[i] \in S
    OBVIOUS
  <2> HIDE DEF S
  <2>3. s \in Seq(S) /\ Len(s) = m
    BY <2>1
  <2>4. t \in Seq(S) /\ Len(t) = n
    BY <2>2
  <2> QED
    BY <2>3, <2>4
<1> HIDE DEF S
<1>2. /\ Len(s \o t) = m + n
      /\ \A i \in 1..m + n : (s \o t)[i] = IF i <= m THEN s[i] ELSE t[i - m]
  BY <1>1, ConcatProperties
<1>3. \A i \in 1..m : i \in 1..m + n /\ i <= m
  OBVIOUS
<1>4. \A i \in 1..n : m + i \in 1..m + n /\ ~(m + i <= m) /\ (m + i) - m = i
  OBVIOUS
<1>5. \A i \in 1..m : (s \o t)[i] = s[i]
  BY <1>2, <1>3
<1>6. ASSUME NEW i \in 1..n PROVE (s \o t)[m + i] = t[i]
  <2>1. m + i \in 1..m + n /\ ~(m + i <= m) /\ (m + i) - m = i
    BY <1>4
  <2>2. (s \o t)[m + i] = t[(m + i) - m]
    BY <1>2, <2>1
  <2> QED
    BY <2>1, <2>2
<1> QED
  BY <1>2, <1>5, <1>6

\* The lengths of what was read.
LEMMA Lengths ==
  ASSUME TypeOK
  PROVE  /\ NKeys \in Nat /\ Len(Public) \in Nat /\ Len(VK.ic) \in Nat
         /\ Len(Proof.commitments) \in Nat /\ Len(Raw) \in Nat
         /\ Len(PublicExt) = Len(Public) + NKeys
<1>1. Typed(got)
  BY TypedGot
<1>2. /\ Len(got["pedersen_G"]) \in Nat /\ Len(got["scalar"]) \in Nat /\ Len(got["ic"]) \in Nat
      /\ Len(got["commitment"]) \in Nat /\ Len(got["uncompressed"]) \in Nat
  BY <1>1, CountsAre, KindIs
<1>3. /\ NKeys \in Nat /\ Len(Public) \in Nat /\ Len(VK.ic) \in Nat
      /\ Len(Proof.commitments) \in Nat /\ Len(Raw) \in Nat
  BY <1>2 DEF NKeys, Public, VK, Proof, Raw
<1>4. Len(PublicExt) = Len(Public) + NKeys
  <2> DEFINE m == Len(Public)
             n == NKeys
             s == [i \in 1..m |-> <<Public[i]>>]
             t == [j \in 1..n |-> Challenge(Raw[j], VK.committed[j], Public)]
  <2>1. m \in Nat /\ n \in Nat /\ DOMAIN s = 1..m /\ DOMAIN t = 1..n
    BY <1>3
  <2>2. s = [i \in 1..m |-> s[i]] /\ t = [i \in 1..n |-> t[i]]
    OBVIOUS
  <2>3. PublicExt = s \o t
    BY DEF PublicExt
  <2> HIDE DEF m, n, s, t
  <2>4. Len(s \o t) = m + n
    BY <2>1, <2>2, Joined
  <2> QED
    BY <2>3, <2>4 DEF m, n
<1> QED
  BY <1>3, <1>4

\* The steps of verify.
LEMMA CWVerify ==
  ASSUME CWInv, CheckShape \/ Challenges \/ CheckPok \/ CheckPairing
  PROVE  CWInv'
<1>1. /\ NKeys \in Nat /\ Len(Public) \in Nat /\ Len(VK.ic) \in Nat
      /\ Len(Proof.commitments) \in Nat /\ Len(Raw) \in Nat
      /\ Len(PublicExt) = Len(Public) + NKeys
  BY Lengths DEF CWInv
<1>2. Found(pc)
  BY DEF CWInv
<1>3. \A how \in {"shape", "pok_failed", "pairing_failed"} : how \in Steps /\ Found(how)
  BY DEF Steps, Ends, Found
<1>4. CASE CheckShape
  <2>1. pc = "shape?"
    BY <1>4 DEF CheckShape
  <2>2. CASE CountsAgree /\ Len(VK.ic) - (1 + NKeys) = Len(Public)
    <3>1. End("challenge?")
      BY <1>4, <2>2 DEF CheckShape
    <3>2. Shaped
      BY <1>1, <2>2 DEF Shaped
    <3>3. "challenge?" \in Steps /\ Found("challenge?")
      BY <1>2, <2>1, <3>2 DEF Steps, Found
    <3> QED
      BY <3>1, <3>3, Stay
  <2>3. CASE ~(CountsAgree /\ Len(VK.ic) - (1 + NKeys) = Len(Public))
    <3>1. End("shape")
      BY <1>4, <2>3 DEF CheckShape
    <3> QED
      BY <1>3, <3>1, Stay
  <2> QED
    BY <2>2, <2>3
<1>5. CASE Challenges
  <2>1. pc = "challenge?" /\ Shaped /\ blob = "public"
    BY <1>2, <1>5 DEF Challenges, Found
  <2>2. Len(Raw) = NKeys
    <3>1. ProofStage("end", got)
      BY <2>1, BlobsAre DEF CWInv, Progress, At, Stage
    <3>2. Len(got["uncompressed"]) = Len(got["commitment"])
      BY <3>1 DEF ProofStage, CopiesStage
    <3>3. Len(Proof.commitments) = NKeys
      BY <2>1 DEF Shaped, CountsAgree
    <3> QED
      BY <3>2, <3>3 DEF Raw, Proof
  <2>3. ~(Len(Raw) < NKeys)
    BY <1>1, <2>2
  <2>4. CASE \E j \in 1..NKeys : \E k \in DOMAIN VK.committed[j] :
               VK.committed[j][k] \notin DOMAIN Public
    <3>1. End("shape")
      BY <1>5, <2>3, <2>4 DEF Challenges
    <3> QED
      BY <1>3, <3>1, Stay
  <2>5. CASE ~\E j \in 1..NKeys : \E k \in DOMAIN VK.committed[j] :
               VK.committed[j][k] \notin DOMAIN Public
    <3>1. End("pok?")
      BY <1>5, <2>3, <2>5 DEF Challenges
    <3>2. Named
      BY <2>5 DEF Named
    <3>3. "pok?" \in Steps /\ Found("pok?")
      BY <1>2, <2>1, <3>2 DEF Steps, Found
    <3> QED
      BY <3>1, <3>3, Stay
  <2> QED
    BY <2>4, <2>5
<1>6. CASE CheckPok
  <2>1. pc = "pok?" /\ Shaped /\ Named
    BY <1>2, <1>6 DEF CheckPok, Found
  <2>2. ASSUME NKeys = 0 \/ (NKeys = 1 /\ PokHolds), End("pairing?") PROVE CWInv'
    <3>1. NKeys <= 1 /\ (NKeys = 1 => PokHolds)
      BY <1>1, <2>2
    <3>2. "pairing?" \in Steps /\ Found("pairing?")
      BY <1>2, <2>1, <3>1 DEF Steps, Found
    <3> QED
      BY <2>2, <3>2, Stay
  <2>3. CASE NKeys = 0
    <3>1. End("pairing?")
      BY <1>6, <2>3 DEF CheckPok
    <3> QED
      BY <2>2, <2>3, <3>1
  <2>4. CASE NKeys > 1
    <3>1. End("shape")
      BY <1>6, <2>4 DEF CheckPok
    <3> QED
      BY <1>3, <3>1, Stay
  <2>5. CASE NKeys = 1
    <3>1. Len(Proof.commitments) # 0
      BY <2>1, <2>5 DEF Shaped, CountsAgree
    <3>2. CASE PokHolds
      <4>1. End("pairing?")
        BY <1>6, <2>5, <3>1, <3>2 DEF CheckPok
      <4> QED
        BY <2>2, <2>5, <3>2, <4>1
    <3>3. CASE ~PokHolds
      <4>1. End("pok_failed")
        BY <1>6, <2>5, <3>1, <3>3 DEF CheckPok
      <4> QED
        BY <1>3, <4>1, Stay
    <3> QED
      BY <3>2, <3>3
  <2> QED
    BY <1>1, <2>3, <2>4, <2>5
<1>7. CASE CheckPairing
  <2>1. pc = "pairing?" /\ Shaped /\ Named
    BY <1>2, <1>7 DEF CheckPairing, Found
  <2>2. ~(Len(VK.ic) < 1 + Len(PublicExt))
    BY <1>1, <2>1 DEF Shaped
  <2>3. CASE PairingHolds
    <3>1. End("accepted")
      BY <1>7, <2>2, <2>3 DEF CheckPairing
    <3>2. "accepted" \in Steps /\ Found("accepted")
      BY <1>2, <2>1, <2>3 DEF Steps, Ends, Found
    <3> QED
      BY <3>1, <3>2, Stay
  <2>4. CASE ~PairingHolds
    <3>1. End("pairing_failed")
      BY <1>7, <2>2, <2>4 DEF CheckPairing
    <3> QED
      BY <1>3, <3>1, Stay
  <2> QED
    BY <2>3, <2>4
<1> QED
  BY <1>4, <1>5, <1>6, <1>7

-----------------------------------------------------------------------------
(* What was read, written again                                            *)

\* What the values g were read as.
VKOf(g) ==
  [alpha |-> g.alpha[1], beta |-> g.beta[1], gamma |-> g.gamma[1], delta |-> g.delta[1],
   ic |-> g.ic,
   keys |-> [j \in 1 .. Len(g.pedersen_G) |-> <<g.pedersen_G[j], g.pedersen_GSigmaNeg[j]>>],
   committed |-> g.committed_index]
ProofOf(g) ==
  [a |-> g.a[1], b |-> g.b[1], c |-> g.c[1], commitments |-> g.commitment, pok |-> g.pok[1]]

\* A field that is read once is written as its value.
LEMMA SegSingle ==
  ASSUME NEW g, Typed(g), NEW f \in Names \ {"committed_index"}, Len(g[f]) = 1
  PROVE  Seg(g, f) = Cells(f, g[f][1]) /\ g[f][1] \in Read[f] /\ g[f] = <<g[f][1]>>
<1>1. g[f] \in Seq(Read[f])
  BY DEF Typed
<1>2. g[f][1] \in Read[f] /\ g[f] = <<g[f][1]>>
  BY <1>1
<1>3. CASE Width(f) = 1
  BY <1>2, <1>3 DEF Seg, Cells
<1>4. CASE Width(f) # 1
  <2>1. Cells(f, g[f][1]) = g[f][1] /\ Cells(f, g[f][1]) \in Seq(Cell)
    BY <1>2, <1>4, CellsAre DEF Cells
  <2>2. FlattenSeq(<<g[f][1]>>) = g[f][1]
    BY <2>1, FlatFew
  <2> QED
    BY <1>2, <1>4, <2>1, <2>2 DEF Seg
<1> QED
  BY <1>2, <1>3, <1>4

\* The parts of one key, and of one commitment.
LEMMA KeyIs ==
  ASSUME NEW g, Typed(g), VKStage("end", g)
  PROVE  [j \in 1..Len(VKOf(g).keys) |->
            VKOf(g).keys[j][1] \o VKOf(g).keys[j][2] \o <<Len(VKOf(g).committed[j])>>
            \o VKOf(g).committed[j]] = Keys(g)
<1> DEFINE n == Len(g["pedersen_G"])
           K == VKOf(g).keys
           C == VKOf(g).committed
<1>1. /\ n \in Nat /\ Len(g["pedersen_GSigmaNeg"]) = n /\ Len(g["committed_count"]) = n
      /\ Len(g["committed_index"]) = n
      /\ \A j \in 1..n : Len(g["committed_index"][j]) = g["committed_count"][j]
  BY CountsAre, KindIs DEF VKStage, KeysStage
<1>2. Len(K) = n /\ \A j \in 1..n : K[j][1] = g["pedersen_G"][j] /\ K[j][2] = g["pedersen_GSigmaNeg"][j]
  BY <1>1 DEF VKOf
<1>3. C = g["committed_index"]
  BY DEF VKOf
<1> HIDE DEF n, K, C
<1>4. ASSUME NEW j \in 1..n
      PROVE  Keys(g)[j] = K[j][1] \o K[j][2] \o <<Len(C[j])>> \o C[j]
  <2>1. /\ KeyParts(g, j) \in Seq(Seq(Cell)) /\ Len(KeyParts(g, j)) = 4
        /\ KeyParts(g, j)[1] = Opt(g, "pedersen_G", j)
        /\ KeyParts(g, j)[2] = Opt(g, "pedersen_GSigmaNeg", j)
        /\ KeyParts(g, j)[3] = Opt(g, "committed_count", j)
        /\ KeyParts(g, j)[4] = Indices(g, j)
        /\ Keys(g)[j] = FlattenSeq(KeyParts(g, j))
    BY KeysTyped DEF n
  <2>2. j <= n
    BY <1>1
  <2>3. /\ Opt(g, "pedersen_G", j) = K[j][1] /\ Opt(g, "pedersen_GSigmaNeg", j) = K[j][2]
        /\ Opt(g, "committed_count", j) = <<Len(C[j])>> /\ Indices(g, j) = C[j]
    BY <1>1, <1>2, <1>3, <2>2, WidthIs DEF Opt, Indices, Cells, n
  <2>4. Keys(g)[j] = Cat(Cat(Cat(K[j][1], K[j][2]), <<Len(C[j])>>), C[j])
    BY <2>1, <2>3, FlatOf
  <2> QED
    BY <2>4 DEF Cat
<1>5. Keys(g) = [j \in 1..n |-> Keys(g)[j]]
  BY DEF Keys, n
<1>6. [j \in 1..Len(K) |-> K[j][1] \o K[j][2] \o <<Len(C[j])>> \o C[j]] = Keys(g)
  BY <1>2, <1>4, <1>5
<1> QED
  BY <1>6 DEF K, C

\* What was read of the key, written again.
LEMMA VKIs ==
  ASSUME NEW g, Typed(g), VKStage("end", g)
  PROVE  EncodeVK(VKOf(g)) = Part("vk", g)
<1>1. /\ Len(g["alpha"]) = 1 /\ Len(g["beta"]) = 1 /\ Len(g["gamma"]) = 1 /\ Len(g["delta"]) = 1
      /\ Len(g["ic_count"]) = 1 /\ Len(g["vk_nC"]) = 1 /\ Len(g["ic"]) = g["ic_count"][1]
      /\ Len(g["pedersen_G"]) = g["vk_nC"][1]
  BY DEF VKStage, HeadStage, KeysCount, HeadFields
<1>2. /\ Seg(g, "alpha") = <<g["alpha"][1]>> /\ Seg(g, "beta") = g["beta"][1]
      /\ Seg(g, "gamma") = g["gamma"][1] /\ Seg(g, "delta") = g["delta"][1]
      /\ Seg(g, "ic_count") = <<g["ic_count"][1]>> /\ Seg(g, "vk_nC") = <<g["vk_nC"][1]>>
      /\ Seg(g, "ic") = g["ic"]
  <2>1. Seg(g, "ic") = g["ic"]
    BY WidthIs DEF Seg
  <2>2. Seg(g, "alpha") = <<g["alpha"][1]>> /\ Seg(g, "beta") = g["beta"][1]
    BY <1>1, SegSingle, WidthIs, KindIs DEF Cells
  <2>3. Seg(g, "gamma") = g["gamma"][1] /\ Seg(g, "delta") = g["delta"][1]
    BY <1>1, SegSingle, WidthIs, KindIs DEF Cells
  <2>4. Seg(g, "ic_count") = <<g["ic_count"][1]>> /\ Seg(g, "vk_nC") = <<g["vk_nC"][1]>>
    BY <1>1, SegSingle, WidthIs, KindIs DEF Cells
  <2> QED
    BY <2>1, <2>2, <2>3, <2>4
<1> DEFINE s == VKParts(g)
<1>3. /\ s \in Seq(Seq(Cell)) /\ Len(s) = 8 /\ s[1] = Seg(g, "alpha") /\ s[2] = Seg(g, "beta")
      /\ s[3] = Seg(g, "gamma") /\ s[4] = Seg(g, "delta") /\ s[5] = Seg(g, "ic_count")
      /\ s[6] = Seg(g, "ic") /\ s[7] = Seg(g, "vk_nC") /\ s[8] = FlattenSeq(Keys(g))
  <2>1. s \in Seq(Seq(Cell)) /\ Len(s) = 8
    BY PartsTyped
  <2> QED
    BY <2>1 DEF VKParts
<1>4. FlattenSeq(s) = Cat(Cat(Cat(Cat(Cat(Cat(Cat(s[1], s[2]), s[3]), s[4]), s[5]), s[6]), s[7]), s[8])
  <2> HIDE DEF s
  <2> QED
    BY <1>3, FlatOf
<1>5. Part("vk", g) = FlattenSeq(s)
  BY DEF Part
<1> HIDE DEF s
<1> DEFINE vk == VKOf(g)
<1>6. /\ vk.alpha = g["alpha"][1] /\ vk.beta = g["beta"][1] /\ vk.gamma = g["gamma"][1]
      /\ vk.delta = g["delta"][1] /\ vk.ic = g["ic"] /\ Len(vk.keys) = Len(g["pedersen_G"])
  <2>1. Len(g["pedersen_G"]) \in Nat
    BY CountsAre, KindIs
  <2> QED
    BY <2>1 DEF VKOf
<1>7. [j \in 1..Len(vk.keys) |->
         vk.keys[j][1] \o vk.keys[j][2] \o <<Len(vk.committed[j])>> \o vk.committed[j]] = Keys(g)
  BY KeyIs
<1>8. EncodeVK(vk) =
        <<vk.alpha>> \o vk.beta \o vk.gamma \o vk.delta
        \o <<Len(vk.ic)>> \o vk.ic \o <<Len(vk.keys)>> \o FlattenSeq(Keys(g))
  <2> HIDE DEF vk
  <2> QED
    BY <1>7 DEF EncodeVK
<1> HIDE DEF vk
<1>9. EncodeVK(vk) = s[1] \o s[2] \o s[3] \o s[4] \o s[5] \o s[6] \o s[7] \o s[8]
  BY <1>1, <1>2, <1>3, <1>6, <1>8
<1> QED
  BY <1>4, <1>5, <1>9 DEF vk, Cat

\* What was read of the proof, written again.
LEMMA ProofIs ==
  ASSUME NEW g, Typed(g), ProofStage("end", g)
  PROVE  EncodeProof(ProofOf(g)) = Part("proof", g)
<1>1. /\ Len(g["a"]) = 1 /\ Len(g["b"]) = 1 /\ Len(g["c"]) = 1 /\ Len(g["proof_nC"]) = 1
      /\ Len(g["pok"]) = 1 /\ Len(g["commitment"]) = g["proof_nC"][1]
      /\ Len(g["uncompressed"]) = Len(g["commitment"])
      /\ \A j \in 1..Len(g["uncompressed"]) :
           g["uncompressed"][j] = Uncompressed(g["commitment"][j])
  BY DEF ProofStage, CopiesStage, ProofHeads
<1>2. /\ Seg(g, "a") = <<g["a"][1]>> /\ Seg(g, "b") = g["b"][1] /\ Seg(g, "c") = <<g["c"][1]>>
      /\ Seg(g, "proof_nC") = <<g["proof_nC"][1]>> /\ Seg(g, "pok") = <<g["pok"][1]>>
  BY <1>1, SegSingle, WidthIs, KindIs DEF Cells
<1> DEFINE s == ProofParts(g)
           n == Len(g["commitment"])
           U == [j \in 1..n |-> <<g["commitment"][j]>> \o Uncompressed(g["commitment"][j])]
<1>3. /\ s \in Seq(Seq(Cell)) /\ Len(s) = 6 /\ s[1] = Seg(g, "a") /\ s[2] = Seg(g, "b")
      /\ s[3] = Seg(g, "c") /\ s[4] = Seg(g, "proof_nC") /\ s[5] = FlattenSeq(Copies(g))
      /\ s[6] = Seg(g, "pok")
  <2>1. s \in Seq(Seq(Cell)) /\ Len(s) = 6
    BY PartsTyped
  <2> QED
    BY <2>1 DEF ProofParts
<1>4. FlattenSeq(s) = Cat(Cat(Cat(Cat(Cat(s[1], s[2]), s[3]), s[4]), s[5]), s[6])
  <2> HIDE DEF s
  <2> QED
    BY <1>3, FlatOf
<1>5. Part("proof", g) = FlattenSeq(s)
  BY DEF Part
<1> HIDE DEF s
<1>6. U = Copies(g)
  <2>1. Copies(g) = [j \in 1..n |-> Copies(g)[j]]
    BY DEF Copies
  <2>2. ASSUME NEW j \in 1..n
        PROVE  Copies(g)[j] = <<g["commitment"][j]>> \o Uncompressed(g["commitment"][j])
    <3>1. /\ CopyParts(g, j) \in Seq(Seq(Cell)) /\ Len(CopyParts(g, j)) = 2
          /\ CopyParts(g, j)[1] = Opt(g, "commitment", j)
          /\ CopyParts(g, j)[2] = Opt(g, "uncompressed", j)
          /\ Copies(g)[j] = FlattenSeq(CopyParts(g, j))
      BY CopiesTyped
    <3>2. n \in Nat /\ j <= n
      BY CountsAre, KindIs
    <3>3. /\ Opt(g, "commitment", j) = <<g["commitment"][j]>>
          /\ Opt(g, "uncompressed", j) = Uncompressed(g["commitment"][j])
      BY <1>1, <3>2, WidthIs DEF Opt, Cells
    <3>4. Copies(g)[j] = Cat(<<g["commitment"][j]>>, Uncompressed(g["commitment"][j]))
      BY <3>1, <3>3, FlatOf
    <3> QED
      BY <3>4 DEF Cat
  <2> QED
    BY <2>1, <2>2
<1> DEFINE p == ProofOf(g)
<1>7. /\ p.a = g["a"][1] /\ p.b = g["b"][1] /\ p.c = g["c"][1] /\ p.pok = g["pok"][1]
      /\ p.commitments = g["commitment"]
  BY DEF ProofOf
<1> HIDE DEF p
<1>8. EncodeProof(p) =
        <<p.a>> \o p.b \o <<p.c>> \o <<Len(p.commitments)>> \o FlattenSeq(U) \o <<p.pok>>
  BY <1>7 DEF EncodeProof
<1> HIDE DEF U
<1>9. EncodeProof(p) = s[1] \o s[2] \o s[3] \o s[4] \o s[5] \o s[6]
  BY <1>1, <1>2, <1>3, <1>6, <1>7, <1>8
<1> QED
  BY <1>4, <1>5, <1>9 DEF p, Cat

\* What was read of the public inputs, written again.
LEMMA PublicIs ==
  ASSUME NEW g, Typed(g), PublicStage("end", g)
  PROVE  EncodePublic(g["scalar"], 1) = Part("public", g)
<1>1. /\ Len(g["n_inner"]) = 1 /\ Len(g["n_limbs"]) = 1 /\ g["n_limbs"][1] = 1
      /\ Len(g["scalar"]) = g["n_inner"][1]
  BY DEF PublicStage
<1>2. /\ Seg(g, "n_inner") = <<g["n_inner"][1]>> /\ Seg(g, "n_limbs") = <<g["n_limbs"][1]>>
      /\ Seg(g, "scalar") = g["scalar"]
  <2>1. Seg(g, "scalar") = g["scalar"]
    BY WidthIs DEF Seg
  <2>2. Seg(g, "n_inner") = <<g["n_inner"][1]>> /\ Seg(g, "n_limbs") = <<g["n_limbs"][1]>>
    BY <1>1, SegSingle, WidthIs, KindIs DEF Cells
  <2> QED
    BY <2>1, <2>2
<1> DEFINE s == PublicParts(g)
<1>3. /\ s \in Seq(Seq(Cell)) /\ Len(s) = 3 /\ s[1] = Seg(g, "n_inner") /\ s[2] = Seg(g, "n_limbs")
      /\ s[3] = Seg(g, "scalar")
  <2>1. s \in Seq(Seq(Cell)) /\ Len(s) = 3
    BY PartsTyped
  <2> QED
    BY <2>1 DEF PublicParts
<1>4. FlattenSeq(s) = Cat(Cat(s[1], s[2]), s[3])
  <2> HIDE DEF s
  <2> QED
    BY <1>3, FlatOf
<1>5. Part("public", g) = FlattenSeq(s)
  BY DEF Part
<1> HIDE DEF s
<1>6. <<Len(g["scalar"]) \div 1, 1>> = s[1] \o s[2]
  <2>1. Len(g["scalar"]) \in Nat
    BY CountsAre, KindIs
  <2>2. Len(g["scalar"]) \div 1 = Len(g["scalar"])
    <3> DEFINE n == Len(g["scalar"])
    <3>1. 1 \in Nat \ {0} /\ n \in Nat
      BY <2>1
    <3> HIDE DEF n
    <3>2. /\ n \div 1 \in Nat /\ n % 1 \in 0..1 - 1
          /\ n = 1 * (n \div 1) + (n % 1)
      BY <3>1, Division
    <3>3. n % 1 = 0
      BY <3>2
    <3>4. 1 * (n \div 1) = n \div 1
      BY <3>2
    <3>5. n \div 1 = n
      BY <3>1, <3>2, <3>3, <3>4
    <3> QED
      BY <3>5 DEF n
  <2>3. s[1] = <<Len(g["scalar"])>> /\ s[2] = << 1 >>
    BY <1>1, <1>2, <1>3
  <2> DEFINE n == Len(g["scalar"])
  <2>4. <<n, 1>> = <<n>> \o << 1 >>
    OBVIOUS
  <2> QED
    BY <2>2, <2>3, <2>4
<1>7. EncodePublic(g["scalar"], 1) = (s[1] \o s[2]) \o s[3]
  BY <1>2, <1>3, <1>6 DEF EncodePublic
<1> QED
  BY <1>4, <1>5, <1>7 DEF Cat

-----------------------------------------------------------------------------
(* What the Go program wrote                                               *)

\* The values of an artifact, as the parsers keep them.
Whole(w) ==
  [alpha |-> <<w.vk.alpha>>, beta |-> <<w.vk.beta>>, gamma |-> <<w.vk.gamma>>,
   delta |-> <<w.vk.delta>>, ic_count |-> <<Len(w.vk.ic)>>, ic |-> w.vk.ic,
   vk_nC |-> <<Len(w.vk.keys)>>,
   pedersen_G |-> [j \in 1..Len(w.vk.keys) |-> w.vk.keys[j][1]],
   pedersen_GSigmaNeg |-> [j \in 1..Len(w.vk.keys) |-> w.vk.keys[j][2]],
   committed_count |-> [j \in 1..Len(w.vk.keys) |-> Len(w.vk.committed[j])],
   committed_index |-> w.vk.committed,
   a |-> <<w.proof.a>>, b |-> <<w.proof.b>>, c |-> <<w.proof.c>>,
   proof_nC |-> <<Len(w.proof.commitments)>>, commitment |-> w.proof.commitments,
   uncompressed |->
     [j \in 1..Len(w.proof.commitments) |-> Uncompressed(w.proof.commitments[j])],
   pok |-> <<w.proof.pok>>,
   n_inner |-> <<Len(w.public) \div w.limbs>>, n_limbs |-> <<w.limbs>>, scalar |-> w.public]

\* What an artifact is made of.
LEMMA Made ==
  ASSUME NEW w \in Artifacts
  PROVE  /\ w.vk.alpha \in G1 /\ w.vk.beta \in G2 /\ w.vk.gamma \in G2 /\ w.vk.delta \in G2
         /\ w.vk.ic \in Seq(G1) /\ w.vk.keys \in Seq(G2 \X G2)
         /\ w.vk.committed \in Seq(Seq(U32)) /\ w.public \in Seq(Scalars)
         /\ w.proof.a \in G1 /\ w.proof.b \in G2 /\ w.proof.c \in G1
         /\ w.proof.commitments \in Seq(G1) /\ w.proof.pok \in G1
         /\ w.limbs \in U32 \ {0} /\ Len(w.public) % w.limbs = 0
         /\ Len(w.vk.committed) = Len(w.vk.keys) /\ Len(w.proof.commitments) = Len(w.vk.keys)
         /\ Len(w.vk.ic) = 1 + Len(w.public) + Len(w.vk.keys)
         /\ Len(w.vk.ic) \in U32 /\ \A j \in 1..Len(w.vk.committed) : Len(w.vk.committed[j]) \in U32
         /\ Len(w.vk.keys) = 1 =>
              \A k \in DOMAIN w.vk.committed[1] : w.vk.committed[1][k] \in DOMAIN w.public
         /\ w.vk \in VKs /\ w.proof \in Proofs
<1> DEFINE art == w
<1>1. /\ w.vk \in VKs /\ w.proof \in Proofs /\ w.public \in Seq(Scalars) /\ w.limbs \in U32 \ {0}
      /\ Len(w.public) % w.limbs = 0
      /\ Len(w.vk.committed) = Len(w.vk.keys) /\ Len(w.proof.commitments) = Len(w.vk.keys)
      /\ Len(w.vk.ic) = 1 + Len(w.public) + Len(w.vk.keys)
      /\ Len(w.vk.ic) \in U32
      /\ \A j \in DOMAIN w.vk.committed : Len(w.vk.committed[j]) \in U32
      /\ Len(w.vk.keys) = 1 =>
           \A k \in DOMAIN w.vk.committed[1] : w.vk.committed[1][k] \in DOMAIN w.public
  BY CardanoWireAssumption, Zenon
<1>2. /\ w.vk.alpha \in G1 /\ w.vk.beta \in G2 /\ w.vk.gamma \in G2 /\ w.vk.delta \in G2
      /\ w.vk.ic \in Seq(G1) /\ w.vk.keys \in Seq(G2 \X G2)
      /\ w.vk.committed \in Seq(Seq(U32))
  BY <1>1 DEF VKs
<1>3. /\ w.proof.a \in G1 /\ w.proof.b \in G2 /\ w.proof.c \in G1
      /\ w.proof.commitments \in Seq(G1) /\ w.proof.pok \in G1
  BY <1>1 DEF Proofs
<1>4. DOMAIN w.vk.committed = 1..Len(w.vk.committed)
  BY <1>2
<1> QED
  BY <1>1, <1>2, <1>3, <1>4

\* The counts an artifact has fit.
LEMMA CountsFit ==
  ASSUME NEW w \in Artifacts
  PROVE  /\ Len(w.public) \in Nat /\ Len(w.vk.keys) \in Nat /\ Len(w.public) \in U32
         /\ Len(w.vk.keys) \in U32 /\ Len(w.public) \div w.limbs \in U32 /\ 1 \in U32
<1>1. /\ Len(w.vk.ic) = 1 + Len(w.public) + Len(w.vk.keys) /\ Len(w.vk.ic) \in U32
      /\ Len(w.public) \in Nat /\ Len(w.vk.keys) \in Nat /\ w.limbs \in U32 \ {0}
  <2>1. w.public \in Seq(Scalars) /\ w.vk.keys \in Seq(G2 \X G2)
    BY Made
  <2>2. Len(w.vk.ic) = 1 + Len(w.public) + Len(w.vk.keys) /\ Len(w.vk.ic) \in U32
    BY Made
  <2>3. w.limbs \in U32 \ {0}
    BY Made
  <2>4. Len(w.public) \in Nat /\ Len(w.vk.keys) \in Nat
    BY <2>1
  <2> QED
    BY <2>2, <2>3, <2>4, Zenon
<1>2. U32 = 0..MaxCell /\ MaxCell \in Nat
  BY CardanoWireAssumption DEF U32, Cell
<1> DEFINE n == Len(w.public)
           k == Len(w.vk.keys)
           m == Len(w.vk.ic)
           l == w.limbs
<1>3. m = 1 + n + k /\ m \in 0..MaxCell /\ n \in Nat /\ k \in Nat /\ l \in Nat \ {0}
  <2>1. m = 1 + n + k /\ m \in U32 /\ n \in Nat /\ k \in Nat /\ l \in U32 \ {0}
    BY <1>1, Zenon
  <2> HIDE DEF n, k, m, l
  <2> QED
    BY <1>2, <2>1
<1> HIDE DEF n, k, m, l
<1>4. n \in 0..MaxCell /\ k \in 0..MaxCell /\ 1 \in 0..MaxCell
  BY <1>2, <1>3
<1>5. n \div l \in 0..MaxCell
  <2>1. n \div l \in Nat /\ n % l \in 0..l - 1 /\ n = l * (n \div l) + (n % l)
    BY <1>3, Division
  <2> DEFINE q == n \div l
             r == n % l
  <2>2. q \in Nat /\ r \in Nat /\ n = l * q + r
    BY <1>3, <2>1
  <2> HIDE DEF q, r
  <2>3. q <= l * q
    BY <1>3, <2>2
  <2>4. l * q \in Nat
    BY <1>3, <2>2
  <2>5. q \in 0..MaxCell
    BY <1>2, <1>4, <2>2, <2>3, <2>4
  <2> QED
    BY <2>5 DEF q
<1> QED
  BY <1>1, <1>2, <1>4, <1>5 DEF n, k, l

\* Its fields, one by one.
LEMMA WholeFields ==
  ASSUME NEW w
  PROVE  LET W == Whole(w) IN
         /\ DOMAIN W = Names
         /\ W["alpha"] = <<w.vk.alpha>> /\ W["beta"] = <<w.vk.beta>> /\ W["gamma"] = <<w.vk.gamma>>
         /\ W["delta"] = <<w.vk.delta>> /\ W["ic_count"] = <<Len(w.vk.ic)>> /\ W["ic"] = w.vk.ic
         /\ W["vk_nC"] = <<Len(w.vk.keys)>>
         /\ W["pedersen_G"] = [j \in 1..Len(w.vk.keys) |-> w.vk.keys[j][1]]
         /\ W["pedersen_GSigmaNeg"] = [j \in 1..Len(w.vk.keys) |-> w.vk.keys[j][2]]
         /\ W["committed_count"] = [j \in 1..Len(w.vk.keys) |-> Len(w.vk.committed[j])]
         /\ W["committed_index"] = w.vk.committed
         /\ W["a"] = <<w.proof.a>> /\ W["b"] = <<w.proof.b>> /\ W["c"] = <<w.proof.c>>
         /\ W["proof_nC"] = <<Len(w.proof.commitments)>> /\ W["commitment"] = w.proof.commitments
         /\ W["uncompressed"] =
              [j \in 1..Len(w.proof.commitments) |-> Uncompressed(w.proof.commitments[j])]
         /\ W["pok"] = <<w.proof.pok>>
         /\ W["n_inner"] = <<Len(w.public) \div w.limbs>> /\ W["n_limbs"] = <<w.limbs>>
         /\ W["scalar"] = w.public
  BY KindIs DEF Whole

\* They are values of their fields.
LEMMA WholeTyped ==
  ASSUME NEW w \in Artifacts
  PROVE  Typed(Whole(w))
<1> DEFINE W == Whole(w)
<1>1. DOMAIN W = Names
  BY WholeFields
<1>2. /\ W["alpha"] \in Seq(G1) /\ W["beta"] \in Seq(G2) /\ W["gamma"] \in Seq(G2)
      /\ W["delta"] \in Seq(G2)
  <2>1. w.vk.alpha \in G1 /\ w.vk.beta \in G2 /\ w.vk.gamma \in G2 /\ w.vk.delta \in G2
    BY Made
  <2>2. /\ W["alpha"] = <<w.vk.alpha>> /\ W["beta"] = <<w.vk.beta>>
        /\ W["gamma"] = <<w.vk.gamma>> /\ W["delta"] = <<w.vk.delta>>
    BY WholeFields
  <2> QED
    BY <2>1, <2>2
<1>3. W["ic_count"] \in Seq(U32) /\ W["ic"] \in Seq(G1) /\ W["vk_nC"] \in Seq(U32)
  <2>1. w.vk.ic \in Seq(G1) /\ Len(w.vk.ic) \in U32 /\ Len(w.vk.keys) \in U32
    BY Made, CountsFit
  <2>2. /\ W["ic_count"] = <<Len(w.vk.ic)>> /\ W["ic"] = w.vk.ic
        /\ W["vk_nC"] = <<Len(w.vk.keys)>>
    BY WholeFields
  <2> QED
    BY <2>1, <2>2
<1>4. /\ W["pedersen_G"] \in Seq(G2) /\ W["pedersen_GSigmaNeg"] \in Seq(G2)
      /\ W["committed_count"] \in Seq(U32) /\ W["committed_index"] \in Seq(Seq(U32))
  <2> DEFINE n == Len(w.vk.keys)
             K == w.vk.keys
             C == w.vk.committed
  <2>1. /\ K \in Seq(G2 \X G2) /\ C \in Seq(Seq(U32)) /\ Len(C) = n
        /\ \A j \in 1..Len(C) : Len(C[j]) \in U32
    BY Made
  <2>2. n \in Nat /\ \A j \in 1..n : K[j][1] \in G2 /\ K[j][2] \in G2 /\ Len(C[j]) \in U32
    BY <2>1
  <2> HIDE DEF n
  <2>3. /\ [j \in 1..n |-> K[j][1]] \in Seq(G2) /\ [j \in 1..n |-> K[j][2]] \in Seq(G2)
        /\ [j \in 1..n |-> Len(C[j])] \in Seq(U32)
    BY <2>2
  <2>4. /\ W["pedersen_G"] = [j \in 1..n |-> K[j][1]]
        /\ W["pedersen_GSigmaNeg"] = [j \in 1..n |-> K[j][2]]
        /\ W["committed_count"] = [j \in 1..n |-> Len(C[j])]
        /\ W["committed_index"] = C
    BY WholeFields DEF n
  <2> QED
    BY <2>1, <2>3, <2>4
<1>5. /\ W["a"] \in Seq(G1) /\ W["b"] \in Seq(G2) /\ W["c"] \in Seq(G1) /\ W["pok"] \in Seq(G1)
      /\ W["proof_nC"] \in Seq(U32)
  <2>1. /\ w.proof.a \in G1 /\ w.proof.b \in G2 /\ w.proof.c \in G1 /\ w.proof.pok \in G1
        /\ Len(w.proof.commitments) \in U32
    BY Made, CountsFit
  <2>2. /\ W["a"] = <<w.proof.a>> /\ W["b"] = <<w.proof.b>> /\ W["c"] = <<w.proof.c>>
        /\ W["pok"] = <<w.proof.pok>> /\ W["proof_nC"] = <<Len(w.proof.commitments)>>
    BY WholeFields
  <2> QED
    BY <2>1, <2>2
<1>6. /\ W["commitment"] \in Seq(G1)
      /\ W["uncompressed"] \in Seq({Uncompressed(p) : p \in G1})
  <2> DEFINE n == Len(w.proof.commitments)
             C == w.proof.commitments
             R == {Uncompressed(p) : p \in G1}
  <2>1. C \in Seq(G1)
    BY Made
  <2>2. n \in Nat /\ \A j \in 1..n : Uncompressed(C[j]) \in R
    BY <2>1
  <2> HIDE DEF n, R
  <2>3. [j \in 1..n |-> Uncompressed(C[j])] \in Seq(R)
    BY <2>2
  <2>4. W["commitment"] = C /\ W["uncompressed"] = [j \in 1..n |-> Uncompressed(C[j])]
    BY WholeFields DEF n
  <2> QED
    BY <2>1, <2>3, <2>4 DEF R
<1>7. W["n_inner"] \in Seq(U32) /\ W["n_limbs"] \in Seq(U32) /\ W["scalar"] \in Seq(Scalars)
  <2>1. Len(w.public) \div w.limbs \in U32 /\ w.limbs \in U32 /\ w.public \in Seq(Scalars)
    BY Made, CountsFit
  <2> DEFINE q == Len(w.public) \div w.limbs
  <2>2. W["n_inner"] = <<q>> /\ W["n_limbs"] = <<w.limbs>> /\ W["scalar"] = w.public
    BY WholeFields
  <2>3. q \in U32
    BY <2>1
  <2> HIDE DEF q
  <2> QED
    BY <2>1, <2>2, <2>3
<1> HIDE DEF W
<1>8. \A f \in {"alpha", "beta", "gamma", "delta", "ic_count", "ic", "vk_nC"} : W[f] \in Seq(Read[f])
  BY <1>2, <1>3, ReadIs
<1>9. \A f \in KeyFields : W[f] \in Seq(Read[f])
  BY <1>4, ReadIs DEF KeyFields
<1>10. \A f \in {"a", "b", "c", "pok", "proof_nC", "commitment", "uncompressed"} : W[f] \in Seq(Read[f])
  BY <1>5, <1>6, ReadIs
<1>11. \A f \in {"n_inner", "n_limbs", "scalar"} : W[f] \in Seq(Read[f])
  BY <1>7, ReadIs
<1>12. \A f \in Names : W[f] \in Seq(Read[f])
  BY <1>8, <1>9, <1>10, <1>11, KindIs DEF KeyFields
<1>13. Typed(W)
  BY <1>1, <1>12 DEF Typed
<1> QED
  BY <1>13 DEF W

\* The values of an artifact are all there are: its files are what is written of them.
LEMMA WholeVK ==
  ASSUME NEW w \in Artifacts
  PROVE  VKStage("end", Whole(w)) /\ VKOf(Whole(w)) = w.vk
<1> DEFINE W == Whole(w)
           n == Len(w.vk.keys)
<1>1. n \in Nat /\ Len(w.vk.committed) = n /\ w.vk.keys \in Seq(G2 \X G2)
  <2>1. w.vk.keys \in Seq(G2 \X G2)
    BY Made
  <2>2. Len(w.vk.committed) = n
    BY Made
  <2> QED
    BY <2>1, <2>2
<1>2. /\ W["pedersen_G"] = [j \in 1..n |-> w.vk.keys[j][1]]
      /\ W["pedersen_GSigmaNeg"] = [j \in 1..n |-> w.vk.keys[j][2]]
      /\ W["committed_count"] = [j \in 1..n |-> Len(w.vk.committed[j])]
      /\ W["committed_index"] = w.vk.committed
  BY WholeFields
<1>3. /\ Len(W["pedersen_G"]) = n /\ Len(W["pedersen_GSigmaNeg"]) = n
      /\ Len(W["committed_count"]) = n /\ Len(W["committed_index"]) = n
  BY <1>1, <1>2
<1>4. KeysStage("end", W)
  <2>1. \A j \in 1..n : Len(W["committed_index"][j]) = W["committed_count"][j]
    BY <1>2
  <2> HIDE DEF W, n
  <2> QED
    BY <1>3, <2>1 DEF KeysStage, KeyFields
<1>5. HeadStage("end", W)
  <2>1. /\ W["alpha"] = <<w.vk.alpha>> /\ W["beta"] = <<w.vk.beta>> /\ W["gamma"] = <<w.vk.gamma>>
        /\ W["delta"] = <<w.vk.delta>> /\ W["ic_count"] = <<Len(w.vk.ic)>> /\ W["ic"] = w.vk.ic
        /\ W["vk_nC"] = <<n>>
    BY WholeFields
  <2> HIDE DEF W, n
  <2>2. /\ Len(W["alpha"]) = 1 /\ Len(W["beta"]) = 1 /\ Len(W["gamma"]) = 1 /\ Len(W["delta"]) = 1
        /\ Len(W["ic_count"]) = 1 /\ Len(W["ic"]) = W["ic_count"][1] /\ Len(W["vk_nC"]) = 1
    BY <2>1
  <2> QED
    BY <2>2 DEF HeadStage, HeadFields
<1>6. KeysCount("end", W)
  <2>1. W["vk_nC"] = <<n>>
    BY WholeFields
  <2> HIDE DEF W, n
  <2> QED
    BY <1>3, <2>1 DEF KeysCount, HeadFields, KeyFields
<1>7. VKOf(W) = w.vk
  <2>1. /\ W["alpha"][1] = w.vk.alpha /\ W["beta"][1] = w.vk.beta /\ W["gamma"][1] = w.vk.gamma
        /\ W["delta"][1] = w.vk.delta /\ W["ic"] = w.vk.ic
    <3>1. /\ W["alpha"] = <<w.vk.alpha>> /\ W["beta"] = <<w.vk.beta>>
          /\ W["gamma"] = <<w.vk.gamma>> /\ W["delta"] = <<w.vk.delta>> /\ W["ic"] = w.vk.ic
      BY WholeFields
    <3> HIDE DEF W
    <3> QED
      BY <3>1
  <2>2. [j \in 1..Len(W["pedersen_G"]) |-> <<W["pedersen_G"][j], W["pedersen_GSigmaNeg"][j]>>]
        = w.vk.keys
    <3>1. w.vk.keys = [j \in 1..n |-> <<w.vk.keys[j][1], w.vk.keys[j][2]>>]
      <4>1. \A j \in 1..n : w.vk.keys[j] = <<w.vk.keys[j][1], w.vk.keys[j][2]>>
        BY <1>1
      <4>2. w.vk.keys = [j \in 1..n |-> w.vk.keys[j]]
        <5> DEFINE K == w.vk.keys
                   S == G2 \X G2
        <5>1. K \in Seq(S)
          BY <1>1
        <5> HIDE DEF K, S
        <5>2. K = [j \in 1..Len(K) |-> K[j]]
          BY <5>1
        <5> QED
          BY <5>2 DEF K
      <4> QED
        BY <4>1, <4>2
    <3>2. \A j \in 1..n : W["pedersen_G"][j] = w.vk.keys[j][1]
                          /\ W["pedersen_GSigmaNeg"][j] = w.vk.keys[j][2]
      BY <1>2
    <3> QED
      BY <1>3, <3>1, <3>2
  <2>3. w.vk = [alpha |-> w.vk.alpha, beta |-> w.vk.beta, gamma |-> w.vk.gamma,
                delta |-> w.vk.delta, ic |-> w.vk.ic, keys |-> w.vk.keys,
                committed |-> w.vk.committed]
    <3>1. w.vk \in VKs
      BY Made
    <3> QED
      BY <3>1 DEF VKs
  <2> HIDE DEF W
  <2> QED
    BY <1>2, <2>1, <2>2, <2>3 DEF VKOf
<1> HIDE DEF W
<1>8. VKStage("end", W)
  BY <1>4, <1>5, <1>6 DEF VKStage
<1> QED
  BY <1>7, <1>8 DEF W

\* The same for the proof,
LEMMA WholeProof ==
  ASSUME NEW w \in Artifacts
  PROVE  ProofStage("end", Whole(w)) /\ ProofOf(Whole(w)) = w.proof
<1> DEFINE W == Whole(w)
           C == w.proof.commitments
           n == Len(C)
<1>1. n \in Nat
  <2>1. C \in Seq(G1)
    BY Made
  <2> QED
    BY <2>1
<1>2. /\ W["a"] = <<w.proof.a>> /\ W["b"] = <<w.proof.b>> /\ W["c"] = <<w.proof.c>>
      /\ W["pok"] = <<w.proof.pok>> /\ W["proof_nC"] = <<n>> /\ W["commitment"] = C
      /\ W["uncompressed"] = [j \in 1..n |-> Uncompressed(C[j])]
  BY WholeFields
<1> HIDE DEF W, n
<1>3. /\ Len(W["a"]) = 1 /\ Len(W["b"]) = 1 /\ Len(W["c"]) = 1 /\ Len(W["pok"]) = 1
      /\ Len(W["proof_nC"]) = 1 /\ Len(W["uncompressed"]) = n /\ W["proof_nC"][1] = n
      /\ \A j \in 1..n : W["uncompressed"][j] = Uncompressed(W["commitment"][j])
  BY <1>1, <1>2
<1>4. Len(W["commitment"]) = n
  BY <1>2 DEF n
<1>5. ProofStage("end", W)
  BY <1>3, <1>4 DEF ProofStage, CopiesStage, ProofHeads, ProofFields, CopyFields
<1>6. ProofOf(W) = w.proof
  <2>1. w.proof = [a |-> w.proof.a, b |-> w.proof.b, c |-> w.proof.c, commitments |-> C,
                   pok |-> w.proof.pok]
    <3>1. w.proof \in Proofs
      BY Made
    <3> QED
      BY <3>1 DEF Proofs
  <2>2. /\ W["a"][1] = w.proof.a /\ W["b"][1] = w.proof.b /\ W["c"][1] = w.proof.c
        /\ W["pok"][1] = w.proof.pok
    BY <1>2
  <2> QED
    BY <1>2, <2>1, <2>2 DEF ProofOf
<1> QED
  BY <1>5, <1>6 DEF W

\* and for public inputs of one limb.
LEMMA WholePublic ==
  ASSUME NEW w \in Artifacts, w.limbs = 1
  PROVE  PublicStage("end", Whole(w)) /\ Whole(w)["scalar"] = w.public
<1> DEFINE W == Whole(w)
           n == Len(w.public)
<1>1. n \in Nat
  BY CountsFit
<1>2. n \div 1 = n
  <2> HIDE DEF n
  <2>1. 1 \in Nat \ {0} /\ n % 1 \in 0..1 - 1 /\ n \div 1 \in Nat /\ n = 1 * (n \div 1) + (n % 1)
    BY <1>1, Division
  <2>2. n % 1 = 0
    BY <2>1
  <2> QED
    BY <1>1, <2>1, <2>2
<1>3. W["n_inner"] = <<n \div w.limbs>> /\ W["n_limbs"] = <<w.limbs>> /\ W["scalar"] = w.public
  BY WholeFields
<1>4. W["n_inner"] = <<n>> /\ W["n_limbs"] = << 1 >>
  BY <1>2, <1>3
<1>5. Len(W["scalar"]) = n
  BY <1>3
<1> HIDE DEF W, n
<1>6. PublicStage("end", W)
  BY <1>4, <1>5 DEF PublicStage, PublicFields
<1> QED
  BY <1>3, <1>6 DEF W

\* The files as the Go program writes them.
Encoded(w) ==
  [vk |-> EncodeVK(w.vk), proof |-> EncodeProof(w.proof),
   public |-> EncodePublic(w.public, w.limbs)]

\* The files as the Go program writes them are what is written of the whole values.
LEMMA EncodedIs ==
  ASSUME NEW w \in Artifacts
  PROVE  /\ Encoded(w) \in [Blobs -> Seq(Cell)]
         /\ Encoded(w)["vk"] = Part("vk", Whole(w)) /\ Encoded(w)["proof"] = Part("proof", Whole(w))
         /\ w.limbs = 1 => Encoded(w)["public"] = Part("public", Whole(w))
<1> DEFINE W == Whole(w)
<1>1. Typed(W) /\ VKStage("end", W) /\ VKOf(W) = w.vk /\ ProofStage("end", W) /\ ProofOf(W) = w.proof
  BY WholeTyped, WholeVK, WholeProof
<1>2. EncodeVK(w.vk) = Part("vk", W) /\ EncodeProof(w.proof) = Part("proof", W)
  <2> HIDE DEF W
  <2> QED
    BY <1>1, VKIs, ProofIs
<1>3. w.limbs = 1 => EncodePublic(w.public, w.limbs) = Part("public", W)
  <2> HAVE w.limbs = 1
  <2>1. PublicStage("end", W) /\ W["scalar"] = w.public
    BY WholePublic
  <2> HIDE DEF W
  <2>2. EncodePublic(W["scalar"], 1) = Part("public", W)
    BY <1>1, <2>1, PublicIs
  <2> QED
    BY <2>1, <2>2
<1>4. EncodePublic(w.public, w.limbs) \in Seq(Cell)
  <2> DEFINE q == Len(w.public) \div w.limbs
             l == w.limbs
             p == w.public
  <2>1. q \in Cell /\ l \in Cell /\ p \in Seq(Scalars) /\ Scalars \subseteq Cell
    BY CountsFit, Made, ValuesAreCells
  <2>2. EncodePublic(p, l) = <<q, l>> \o p
    BY DEF EncodePublic
  <2> HIDE DEF q, l, p
  <2>3. <<q, l>> \in Seq(Cell) /\ p \in Seq(Cell)
    BY <2>1, SeqMonotonic
  <2>4. <<q, l>> \o p \in Seq(Cell)
    BY <2>3, ConcatProperties
  <2> QED
    BY <2>2, <2>4 DEF p, l
<1>5. Part("vk", W) \in Seq(Cell) /\ Part("proof", W) \in Seq(Cell)
  BY <1>1, PartTyped
<1> HIDE DEF W
<1>6. /\ Encoded(w)["vk"] = EncodeVK(w.vk) /\ Encoded(w)["proof"] = EncodeProof(w.proof)
      /\ Encoded(w)["public"] = EncodePublic(w.public, w.limbs)
      /\ Encoded(w) = [b \in Blobs |-> Encoded(w)[b]]
  BY BlobsAre DEF Encoded
<1>7. Encoded(w) \in [Blobs -> Seq(Cell)]
  BY <1>2, <1>4, <1>5, <1>6, BlobsAre
<1> QED
  BY <1>2, <1>3, <1>6, <1>7 DEF W

\* The files reach the verifier.
LEMMA CWWrite ==
  ASSUME CWInv, Write
  PROVE  CWInv' /\ (intact' => files' = Encoded(written))
<1> DEFINE whole == Encoded(written)
<1>1. /\ TypeOK /\ Typed(got) /\ written \in Artifacts /\ pc = "write" /\ Blank
      /\ pc' = "parse" /\ written' = written /\ blob' = blob /\ pos' = pos /\ field' = field
      /\ got' = got
  BY TypedGot DEF CWInv, TypeOK, Write, Found
<1>2. whole \in [Blobs -> Seq(Cell)] /\ DOMAIN whole = Blobs
  BY <1>1, EncodedIs
<1>3. \/ files' = whole /\ intact' = TRUE
      \/ \E b \in DOMAIN whole :
           /\ files' \in {[whole EXCEPT ![b] = SubSeq(@, 1, n)] : n \in 0 .. Len(whole[b]) - 1}
                  \cup {[whole EXCEPT ![b] = Append(@, c)] : c \in Cell}
                  \cup {[whole EXCEPT ![b][n] = c] : n \in DOMAIN whole[b], c \in Cell}
           /\ intact' = (files' = whole)
  BY DEF Write, Encoded
<1> HIDE DEF whole
<1>4. files' \in [Blobs -> Seq(Cell)]
  <2>1. CASE files' = whole
    BY <1>2, <2>1
  <2>2. ASSUME NEW b \in Blobs, NEW n \in 0 .. Len(whole[b]) - 1,
               files' = [whole EXCEPT ![b] = SubSeq(@, 1, n)]
        PROVE  files' \in [Blobs -> Seq(Cell)]
    <3>1. whole[b] \in Seq(Cell)
      BY <1>2
    <3>2. SubSeq(whole[b], 1, n) \in Seq(Cell)
      <4>1. n \in Nat /\ n <= Len(whole[b])
        BY <3>1
      <4> QED
        BY <3>1, <4>1
    <3> QED
      BY <1>2, <2>2, <3>2
  <2>3. ASSUME NEW b \in Blobs, NEW c \in Cell, files' = [whole EXCEPT ![b] = Append(@, c)]
        PROVE  files' \in [Blobs -> Seq(Cell)]
    <3>1. Append(whole[b], c) \in Seq(Cell)
      BY <1>2, AppendProperties
    <3> QED
      BY <1>2, <2>3, <3>1
  <2>4. ASSUME NEW b \in Blobs, NEW n \in DOMAIN whole[b], NEW c \in Cell,
               files' = [whole EXCEPT ![b][n] = c]
        PROVE  files' \in [Blobs -> Seq(Cell)]
    <3>1. [whole[b] EXCEPT ![n] = c] \in Seq(Cell)
      BY <1>2, ExceptSeq
    <3> QED
      BY <1>2, <2>4, <3>1
  <2>5. ASSUME NEW b \in Blobs,
               files' \in {[whole EXCEPT ![b] = SubSeq(@, 1, n)] : n \in 0 .. Len(whole[b]) - 1}
                  \cup {[whole EXCEPT ![b] = Append(@, c)] : c \in Cell}
                  \cup {[whole EXCEPT ![b][n] = c] : n \in DOMAIN whole[b], c \in Cell}
        PROVE  files' \in [Blobs -> Seq(Cell)]
    <3>1. CASE files' \in {[whole EXCEPT ![b] = SubSeq(@, 1, n)] : n \in 0 .. Len(whole[b]) - 1}
      <4>1. PICK n \in 0 .. Len(whole[b]) - 1 : files' = [whole EXCEPT ![b] = SubSeq(@, 1, n)]
        BY <3>1
      <4> QED
        BY <2>2, <4>1
    <3>2. CASE files' \in {[whole EXCEPT ![b] = Append(@, c)] : c \in Cell}
      <4>1. PICK c \in Cell : files' = [whole EXCEPT ![b] = Append(@, c)]
        BY <3>2
      <4> QED
        BY <2>3, <4>1
    <3>3. CASE files' \in {[whole EXCEPT ![b][n] = c] : n \in DOMAIN whole[b], c \in Cell}
      <4>1. PICK n \in DOMAIN whole[b], c \in Cell : files' = [whole EXCEPT ![b][n] = c]
        BY <3>3
      <4> QED
        BY <2>4, <4>1
    <3> QED
      BY <2>5, <3>1, <3>2, <3>3
  <2> QED
    BY <1>2, <1>3, <2>1, <2>5
<1>5. intact' \in BOOLEAN /\ (intact' => files' = whole)
  <2> DEFINE R == intact' = (files' = whole)
             Q(b) == files' \in {[whole EXCEPT ![b] = SubSeq(@, 1, n)] : n \in 0 .. Len(whole[b]) - 1}
                          \cup {[whole EXCEPT ![b] = Append(@, c)] : c \in Cell}
                          \cup {[whole EXCEPT ![b][n] = c] : n \in DOMAIN whole[b], c \in Cell}
  <2>1. (files' = whole /\ intact' = TRUE) \/ \E b \in DOMAIN whole : Q(b) /\ R
    BY <1>3
  <2>2. CASE files' = whole /\ intact' = TRUE
    BY <2>2
  <2>3. CASE R
    <3>1. CASE files' = whole
      <4>1. intact' = TRUE
        BY <2>3, <3>1
      <4> QED
        BY <3>1, <4>1
    <3>2. CASE files' # whole
      <4>1. intact' = FALSE
        BY <2>3, <3>2
      <4> QED
        BY <4>1
    <3> QED
      BY <3>1, <3>2
  <2> HIDE DEF R, Q
  <2> QED
    BY <2>1, <2>2, <2>3, Zenon
<1>6. TypeOK'
  <2>1. blob = "vk" /\ blob \in Blobs /\ pos = Len(Part(blob, got)) /\ field \in DOMAIN Kind \cup {"end"}
    BY <1>1 DEF CWInv, TypeOK, Progress, Blank
  <2>2. Part(blob, got) = <<>>
    <3>1. got = [f \in Names |-> <<>>]
      BY <1>1 DEF Blank, Names
    <3> QED
      BY <2>1, <3>1, BlankStage
  <2>3. pos' \in 0..Len(files'[blob'])
    <3>1. files'[blob] \in Seq(Cell) /\ pos = 0
      BY <1>4, <2>1, <2>2
    <3> QED
      BY <1>1, <3>1
  <2> QED
    BY <1>1, <1>4, <1>5, <2>1, <2>3 DEF TypeOK
<1>7. Progress'
  <2>1. got = [f \in Names |-> <<>>] /\ blob = "vk" /\ field = First["vk"]
    BY <1>1 DEF Blank, Names
  <2>2. \A b \in Blobs : Stage(b, First[b], got) /\ Part(b, got) = <<>>
    BY <2>1, BlankStage
  <2>3. \A b \in Blobs : At(b)' = First[b]
    BY <1>1, <2>1, BlobsAre DEF At
  <2>4. \A b \in Blobs : Pre(<<>>, files'[b])
    BY <1>4 DEF Pre
  <2>5. pos = Len(Part(blob, got))
    BY DEF CWInv, Progress
  <2> QED
    BY <1>1, <2>2, <2>3, <2>4, <2>5 DEF Progress
<1>8. Found(pc)'
  BY <1>1 DEF Found
<1> QED
  BY <1>5, <1>6, <1>7, <1>8 DEF CWInv, whole

-----------------------------------------------------------------------------
(* What the parsers and the verifier never do                              *)

\* A step changes nothing, or is one of those above.
LEMMA CWNext ==
  ASSUME CWInv, [Next]_vars
  PROVE  CWInv'
<1>1. CASE Write
  BY <1>1, CWWrite
<1>2. CASE ReadField
  BY <1>2, CWRead
<1>3. CASE NextFile
  BY <1>3, CWNextFile
<1>4. CASE CheckShape \/ Challenges \/ CheckPok \/ CheckPairing
  BY <1>4, CWVerify
<1>5. CASE UNCHANGED vars
  <2>1. End(pc)
    BY <1>5 DEF vars, End
  <2>2. pc \in Steps /\ Found(pc)
    BY DEF CWInv, TypeOK, Steps
  <2> QED
    BY <2>1, <2>2, Stay
<1> QED
  BY <1>1, <1>2, <1>3, <1>4, <1>5 DEF Next

\* The invariant holds in every state of every behaviour.
THEOREM CWSafe == Spec => []CWInv
<1>1. Init => CWInv
  BY CWInit
<1>2. CWInv /\ [Next]_vars => CWInv'
  BY CWNext
<1> QED
  BY <1>1, <1>2, PTL DEF Spec

\* lib.rs:87-102: what has been read is decoded, whatever the files hold: points of the subgroup,
\* canonical scalars, counts that a cell can hold; and the reader never stands behind the end of
\* its file.
THEOREM CWTyped == Spec => []TypeOK
<1>1. CWInv => TypeOK
  BY DEF CWInv
<1> QED
  BY <1>1, CWSafe, PTL

\* lib.rs:272-356: whatever was read, no index of verify is outside its list: the counts that were
\* compared before are what the loops after rely on.
THEOREM CWNoPanic == Spec => []NoPanic
<1>1. CWInv => NoPanic
  BY DEF CWInv, Found, NoPanic
<1> QED
  BY <1>1, CWSafe, PTL

\* Begins, by the library's word for it.
LEMMA PreIsPrefix ==
  ASSUME NEW S, NEW s \in Seq(S), NEW t \in Seq(S), Pre(s, t)
  PROVE  IsPrefix(s, t)
<1>1. Len(s) \in Nat /\ Len(t) \in Nat /\ Len(s) <= Len(t)
  BY DEF Pre
<1>2. SubSeq(s, 1, Len(s)) = SubSeq(t, 1, Len(s))
  BY <1>1 DEF Pre
<1> QED
  BY <1>1, <1>2 DEF IsPrefix

\* cardano.go:31-155, lib.rs:108-197: what gets past the parsers is the encoding of what they took
\* it for, with no second form for any value, for files of any length and any number of keys.
THEOREM CWCanonical == Spec => []Canonical
<1>1. ASSUME CWInv PROVE Canonical
  <2> SUFFICES ASSUME pc \in {"shape?", "challenge?", "pok?", "pairing?", "accepted"}
               PROVE  /\ IsPrefix(EncodeVK(VK), files["vk"])
                      /\ IsPrefix(EncodeProof(Proof), files["proof"])
                      /\ EncodePublic(Public, 1) = files["public"]
    BY DEF Canonical
  <2>1. /\ Typed(got) /\ blob = "public" /\ field = "end" /\ pos = Len(files["public"])
        /\ files["vk"] \in Seq(Cell) /\ files["proof"] \in Seq(Cell) /\ files["public"] \in Seq(Cell)
    BY <1>1, TypedGot, BlobsAre DEF CWInv, Found, TypeOK
  <2>2. \A b \in Blobs : Stage(b, "end", got) /\ Pre(Part(b, got), files[b])
    BY <1>1, <2>1, BlobsAre DEF CWInv, Progress, At
  <2>3. /\ VKStage("end", got) /\ ProofStage("end", got) /\ PublicStage("end", got)
        /\ Pre(Part("vk", got), files["vk"]) /\ Pre(Part("proof", got), files["proof"])
        /\ Pre(Part("public", got), files["public"])
    BY <2>2, BlobsAre DEF Stage
  <2>4. VK = VKOf(got) /\ Proof = ProofOf(got) /\ Public = got["scalar"]
    BY DEF VK, NKeys, VKOf, Proof, ProofOf, Public
  <2>5. /\ EncodeVK(VK) = Part("vk", got) /\ EncodeProof(Proof) = Part("proof", got)
        /\ EncodePublic(Public, 1) = Part("public", got)
    BY <2>1, <2>3, <2>4, VKIs, ProofIs, PublicIs
  <2>6. \A b \in Blobs : Part(b, got) \in Seq(Cell)
    BY <2>1, PartTyped
  <2>7. Part("public", got) = files["public"]
    <3>1. pos = Len(Part("public", got))
      BY <1>1, <2>1 DEF CWInv, Progress
    <3> QED
      BY <2>1, <2>3, <2>6, <3>1, BlobsAre, PreWhole
  <2>8. IsPrefix(Part("vk", got), files["vk"]) /\ IsPrefix(Part("proof", got), files["proof"])
    BY <2>1, <2>3, <2>6, BlobsAre, PreIsPrefix
  <2> QED
    BY <2>5, <2>7, <2>8
<1>2. CWInv => Canonical
  BY <1>1
<1> QED
  BY <1>2, CWSafe, PTL

-----------------------------------------------------------------------------
(* The two sums                                                            *)

\* A list of n elements, whatever they are.
List(s, n) == n \in Nat /\ DOMAIN s = 1..n /\ s = [i \in 1..n |-> s[i]]

\* u is the m elements of s, then the n of t.
Joins(u, s, m, t, n) ==
  List(u, m + n) /\ (\A i \in 1..m : u[i] = s[i]) /\ \A i \in 1..n : u[m + i] = t[i]

\* Two lists one after the other.
LEMMA ListJoined ==
  ASSUME NEW m, NEW n, NEW s, NEW t, List(s, m), List(t, n)
  PROVE  Joins(Cat(s, t), s, m, t, n)
<1>1. /\ m \in Nat /\ n \in Nat /\ DOMAIN s = 1..m /\ s = [i \in 1..m |-> s[i]]
      /\ DOMAIN t = 1..n /\ t = [i \in 1..n |-> t[i]]
  BY DEF List
<1>2. /\ \A i \in 1..m : (s \o t)[i] = s[i]
      /\ \A i \in 1..n : (s \o t)[m + i] = t[i]
  BY <1>1, Joined
<1>3. List(s \o t, m + n)
  <2> DEFINE S == {s[i] : i \in 1..m} \cup {t[i] : i \in 1..n}
  <2>1. \A i \in 1..m : s[i] \in S
    OBVIOUS
  <2>2. \A i \in 1..n : t[i] \in S
    OBVIOUS
  <2> HIDE DEF S
  <2>3. s \in Seq(S) /\ Len(s) = m
    BY <1>1, <2>1
  <2>4. t \in Seq(S) /\ Len(t) = n
    BY <1>1, <2>2
  <2> DEFINE u == s \o t
  <2>5. u \in Seq(S) /\ Len(u) = m + n
    BY <2>3, <2>4, ConcatProperties
  <2> HIDE DEF u
  <2>6. DOMAIN u = 1..m + n /\ u = [i \in 1..m + n |-> u[i]]
    BY <2>5
  <2>7. m + n \in Nat
    BY <1>1
  <2> QED
    BY <2>6, <2>7 DEF List, u
<1> QED
  BY <1>2, <1>3 DEF Cat, Joins

\* Lists of the same elements are the same.
LEMMA ListSame ==
  ASSUME NEW n, NEW s, NEW t, List(s, n), List(t, n), \A i \in 1..n : s[i] = t[i]
  PROVE  s = t
  BY DEF List

\* The length of a list.
LEMMA ListLen ==
  ASSUME NEW n, NEW s, List(s, n)
  PROVE  Len(s) = n
  BY DEF List

\* Every sequence is a list.
LEMMA SeqList ==
  ASSUME NEW S, NEW s \in Seq(S)
  PROVE  List(s, Len(s))
<1>1. Len(s) \in Nat /\ DOMAIN s = 1..Len(s) /\ s = [i \in 1..Len(s) |-> s[i]]
  OBVIOUS
<1> QED
  BY <1>1 DEF List

\* The points and scalars of a sum: the first point, the public inputs, the challenges h, the
\* commitments.
SumOf(s, ic, public, h, commitments) ==
  LET m == Len(public)
      k == Len(commitments)
  IN  /\ List(s, 1 + m + k + k)
      /\ s[1] = <<ic[1], <<>> >>
      /\ \A i \in 1..m : s[1 + i] = <<ic[1 + i], <<public[i]>> >>
      /\ \A j \in 1..k : s[1 + m + j] = <<ic[1 + m + j], h[j]>>
      /\ \A j \in 1..k : s[1 + m + k + j] = <<commitments[j], <<>> >>

\* The challenges of commitments.
Hashes(commitments, committed, public) ==
  [j \in 1..Len(commitments) |->
     Challenge(Uncompressed(commitments[j]), committed[j], public)]

\* What gnark sums is such a sum, of the artifacts.
LEMMA GnarkSumIs ==
  ASSUME TypeOK
  PROVE  SumOf(GnarkSum, written.vk.ic, written.public,
               Hashes(written.proof.commitments, written.vk.committed, written.public),
               written.proof.commitments)
<1> DEFINE w == written
           m == Len(w.public)
           k == Len(w.proof.commitments)
           h == [j \in 1 .. Len(w.vk.keys) |->
                   Challenge(Uncompressed(w.proof.commitments[j]), w.vk.committed[j], w.public)]
           a == << <<w.vk.ic[1], <<>> >> >>
           b == [i \in 1..m |-> <<w.vk.ic[1 + i], <<w.public[i]>> >>]
           c == [j \in 1..k |-> <<w.vk.ic[1 + m + j], h[j]>>]
           d == [j \in 1..k |-> <<w.proof.commitments[j], <<>> >>]
<1>1. m \in Nat /\ k \in Nat /\ Len(w.vk.keys) = k
  <2>1. w \in Artifacts
    BY DEF TypeOK
  <2>2. w.public \in Seq(Scalars) /\ w.proof.commitments \in Seq(G1)
    BY <2>1, Made
  <2>3. Len(w.proof.commitments) = Len(w.vk.keys)
    BY <2>1, Made
  <2> QED
    BY <2>2, <2>3
<1>2. h = Hashes(w.proof.commitments, w.vk.committed, w.public) /\ Len(h) = k
  BY <1>1 DEF Hashes
<1>3. GnarkSum = Cat(Cat(Cat(a, b), c), d)
  <2>1. GnarkSum =
          << <<w.vk.ic[1], <<>> >> >>
          \o [i \in 1 .. m |-> <<w.vk.ic[1 + i], <<w.public[i]>> >>]
          \o [j \in 1 .. Len(h) |-> <<w.vk.ic[1 + m + j], h[j]>>]
          \o [j \in 1 .. Len(h) |-> <<w.proof.commitments[j], <<>> >>]
    BY DEF GnarkSum
  <2> QED
    BY <1>2, <2>1 DEF Cat
<1>4. List(a, 1) /\ List(b, m) /\ List(c, k) /\ List(d, k)
  BY <1>1 DEF List
<1>5. /\ a[1] = <<w.vk.ic[1], <<>> >>
      /\ \A i \in 1..m : b[i] = <<w.vk.ic[1 + i], <<w.public[i]>> >>
      /\ \A j \in 1..k : c[j] = <<w.vk.ic[1 + m + j], h[j]>>
      /\ \A j \in 1..k : d[j] = <<w.proof.commitments[j], <<>> >>
  OBVIOUS
<1> HIDE DEF a, b, c, d, h, k, m
<1>6. /\ List(Cat(a, b), 1 + m) /\ Cat(a, b)[1] = a[1] /\ \A i \in 1..m : Cat(a, b)[1 + i] = b[i]
  <2>1. 1 \in 1..1
    OBVIOUS
  <2>2. Joins(Cat(a, b), a, 1, b, m)
    BY <1>4, ListJoined
  <2> QED
    BY <2>1, <2>2 DEF Joins
<1> DEFINE e == Cat(a, b)
<1> HIDE DEF e
<1>7. /\ List(e, 1 + m) /\ e[1] = a[1] /\ \A i \in 1..m : e[1 + i] = b[i]
  BY <1>6 DEF e
<1>8. /\ List(Cat(e, c), 1 + m + k) /\ \A i \in 1..1 + m : Cat(e, c)[i] = e[i]
      /\ \A j \in 1..k : Cat(e, c)[1 + m + j] = c[j]
  <2>1. Joins(Cat(e, c), e, 1 + m, c, k)
    BY <1>4, <1>7, ListJoined
  <2> QED
    BY <2>1 DEF Joins
<1> DEFINE f == Cat(e, c)
<1> HIDE DEF f
<1>9. /\ List(f, 1 + m + k) /\ \A i \in 1..1 + m : f[i] = e[i]
      /\ \A j \in 1..k : f[1 + m + j] = c[j]
  BY <1>8 DEF f
<1>10. /\ List(Cat(f, d), 1 + m + k + k) /\ \A i \in 1..1 + m + k : Cat(f, d)[i] = f[i]
       /\ \A j \in 1..k : Cat(f, d)[1 + m + k + j] = d[j]
  <2>1. Joins(Cat(f, d), f, 1 + m + k, d, k)
    BY <1>4, <1>9, ListJoined
  <2> QED
    BY <2>1 DEF Joins
<1> DEFINE s == Cat(f, d)
<1>11. s = GnarkSum
  BY <1>3 DEF f, e
<1> HIDE DEF s
<1>12. /\ List(s, 1 + m + k + k) /\ \A i \in 1..1 + m + k : s[i] = f[i]
       /\ \A j \in 1..k : s[1 + m + k + j] = d[j]
  BY <1>10 DEF s
<1>13. s[1] = a[1]
  <2>1. 1 \in 1..1 + m /\ 1 \in 1..1 + m + k
    BY <1>1
  <2> QED
    BY <1>7, <1>9, <1>12, <2>1
<1>14. \A i \in 1..m : s[1 + i] = b[i]
  <2> SUFFICES ASSUME NEW i \in 1..m PROVE s[1 + i] = b[i]
    OBVIOUS
  <2>1. 1 + i \in 1..1 + m /\ 1 + i \in 1..1 + m + k
    BY <1>1
  <2> QED
    BY <1>7, <1>9, <1>12, <2>1
<1>15. \A j \in 1..k : s[1 + m + j] = c[j]
  <2> SUFFICES ASSUME NEW j \in 1..k PROVE s[1 + m + j] = c[j]
    OBVIOUS
  <2>1. 1 + m + j \in 1..1 + m + k
    BY <1>1
  <2> QED
    BY <1>9, <1>12, <2>1
<1>16. SumOf(s, w.vk.ic, w.public, h, w.proof.commitments)
  BY <1>5, <1>12, <1>13, <1>14, <1>15 DEF SumOf, m, k
<1> QED
  BY <1>2, <1>11, <1>16

\* What the verifier sums is one too, of what it read.
LEMMA KSumIs ==
  ASSUME TypeOK, Shaped, \A j \in 1..NKeys : Raw[j] = Uncompressed(Proof.commitments[j])
  PROVE  SumOf(KSum, VK.ic, Public, Hashes(Proof.commitments, VK.committed, Public),
               Proof.commitments)
<1> DEFINE m == Len(Public)
           k == NKeys
           g == [i \in 1..m |-> <<Public[i]>>]
           r == [j \in 1..k |-> Challenge(Raw[j], VK.committed[j], Public)]
           a == << <<VK.ic[1], <<>> >> >>
           b == [i \in 1..Len(PublicExt) |-> <<VK.ic[i + 1], PublicExt[i]>>]
           d == [j \in 1..k |-> <<Proof.commitments[j], <<>> >>]
           h == Hashes(Proof.commitments, VK.committed, Public)
<1>1. m \in Nat /\ k \in Nat /\ Len(PublicExt) = m + k /\ Len(Proof.commitments) = k
  BY Lengths DEF Shaped, CountsAgree
<1>2. PublicExt = Cat(g, r)
  BY DEF PublicExt, Cat
<1>3. List(g, m) /\ List(r, k) /\ List(a, 1) /\ List(b, m + k) /\ List(d, k)
  BY <1>1 DEF List
<1>4. /\ \A i \in 1..m : g[i] = <<Public[i]>>
      /\ \A j \in 1..k : r[j] = h[j]
      /\ a[1] = <<VK.ic[1], <<>> >>
      /\ \A i \in 1..m + k : b[i] = <<VK.ic[i + 1], PublicExt[i]>>
      /\ \A j \in 1..k : d[j] = <<Proof.commitments[j], <<>> >>
  BY <1>1 DEF Hashes
<1>5. KSum = Cat(Cat(a, b), d)
  BY <1>1 DEF KSum, Cat
<1> HIDE DEF a, b, d, g, r, h, m, k
<1>6. /\ \A i \in 1..m : PublicExt[i] = g[i]
      /\ \A j \in 1..k : PublicExt[m + j] = r[j]
  <2>1. Joins(PublicExt, g, m, r, k)
    BY <1>2, <1>3, ListJoined
  <2> QED
    BY <2>1 DEF Joins
<1>7. /\ List(Cat(a, b), 1 + (m + k)) /\ Cat(a, b)[1] = a[1]
      /\ \A i \in 1..m + k : Cat(a, b)[1 + i] = b[i]
  <2>1. 1 \in 1..1
    OBVIOUS
  <2>2. Joins(Cat(a, b), a, 1, b, m + k)
    BY <1>3, ListJoined
  <2> QED
    BY <2>1, <2>2 DEF Joins
<1> DEFINE e == Cat(a, b)
<1> HIDE DEF e
<1>8. /\ List(e, 1 + (m + k)) /\ e[1] = a[1] /\ \A i \in 1..m + k : e[1 + i] = b[i]
  BY <1>7 DEF e
<1>9. /\ List(Cat(e, d), 1 + (m + k) + k) /\ \A i \in 1..1 + (m + k) : Cat(e, d)[i] = e[i]
      /\ \A j \in 1..k : Cat(e, d)[1 + (m + k) + j] = d[j]
  <2>1. Joins(Cat(e, d), e, 1 + (m + k), d, k)
    BY <1>3, <1>8, ListJoined
  <2> QED
    BY <2>1 DEF Joins
<1> DEFINE s == Cat(e, d)
<1>10. s = KSum
  BY <1>5 DEF e
<1> HIDE DEF s
<1>11. /\ List(s, 1 + (m + k) + k) /\ \A i \in 1..1 + (m + k) : s[i] = e[i]
       /\ \A j \in 1..k : s[1 + (m + k) + j] = d[j]
  BY <1>9 DEF s
<1>12. s[1] = a[1]
  <2>1. 1 \in 1..1 + (m + k)
    BY <1>1
  <2> QED
    BY <1>8, <1>11, <2>1
<1>13. \A i \in 1..m + k : s[1 + i] = <<VK.ic[1 + i], PublicExt[i]>>
  <2> SUFFICES ASSUME NEW i \in 1..m + k PROVE s[1 + i] = <<VK.ic[1 + i], PublicExt[i]>>
    OBVIOUS
  <2>1. 1 + i \in 1..1 + (m + k) /\ i + 1 = 1 + i
    BY <1>1
  <2>2. s[1 + i] = b[i]
    BY <1>8, <1>11, <2>1
  <2> QED
    BY <1>4, <2>1, <2>2
<1>14. \A i \in 1..m : s[1 + i] = <<VK.ic[1 + i], <<Public[i]>> >>
  <2> SUFFICES ASSUME NEW i \in 1..m PROVE s[1 + i] = <<VK.ic[1 + i], <<Public[i]>> >>
    OBVIOUS
  <2>1. i \in 1..m + k
    BY <1>1
  <2> QED
    <3>1. s[1 + i] = <<VK.ic[1 + i], PublicExt[i]>>
      BY <1>13, <2>1
    <3>2. PublicExt[i] = <<Public[i]>>
      BY <1>4, <1>6
    <3> QED
      BY <3>1, <3>2
<1>15. \A j \in 1..k : s[1 + m + j] = <<VK.ic[1 + m + j], h[j]>>
  <2> SUFFICES ASSUME NEW j \in 1..k PROVE s[1 + m + j] = <<VK.ic[1 + m + j], h[j]>>
    OBVIOUS
  <2>1. m + j \in 1..m + k /\ 1 + (m + j) = 1 + m + j
    BY <1>1
  <2>2. s[1 + (m + j)] = <<VK.ic[1 + (m + j)], PublicExt[m + j]>>
    BY <1>13, <2>1
  <2> QED
    BY <1>4, <1>6, <2>1, <2>2
<1>16. 1 + (m + k) + k = 1 + m + k + k /\ \A j \in 1..k : 1 + (m + k) + j = 1 + m + k + j
  BY <1>1
<1>17. SumOf(s, VK.ic, Public, h, Proof.commitments)
  <2>1. Len(Public) = m /\ Len(Proof.commitments) = k
    BY <1>1 DEF m
  <2>2. \A j \in 1..k : s[1 + m + k + j] = <<Proof.commitments[j], <<>> >>
    BY <1>4, <1>11, <1>16
  <2>3. List(s, 1 + m + k + k) /\ s[1] = <<VK.ic[1], <<>> >>
    BY <1>4, <1>11, <1>12, <1>16
  <2> QED
    BY <1>14, <1>15, <2>1, <2>2, <2>3 DEF SumOf
<1> QED
  BY <1>10, <1>17 DEF h

\* Two readings of one sum, where a challenge has at least the two cells of its point: only the
\* challenges are that long, so they are found at the same places.
LEMMA SumPlaces ==
  ASSUME NEW s, NEW i1, NEW p1, NEW h1, NEW c1, NEW i2, NEW p2, NEW h2, NEW c2,
         SumOf(s, i1, p1, h1, c1), SumOf(s, i2, p2, h2, c2),
         Len(p1) \in Nat, Len(p2) \in Nat, Len(c1) \in Nat, Len(c2) \in Nat, Len(c1) <= 1,
         \A j \in 1..Len(c1) : Len(h1[j]) >= 2, \A j \in 1..Len(c2) : Len(h2[j]) >= 2
  PROVE  Len(p1) = Len(p2) /\ Len(c1) = Len(c2)
<1> DEFINE m == Len(p1)
           k == Len(c1)
           n == Len(p2)
           l == Len(c2)
           wide(i) == Len(s[i][2]) >= 2
<1>1. m + k + k = n + l + l
  <2>1. List(s, 1 + m + k + k) /\ List(s, 1 + n + l + l)
    BY DEF SumOf
  <2>2. Len(s) = 1 + m + k + k /\ Len(s) = 1 + n + l + l
    BY <2>1, ListLen
  <2> QED
    BY <2>2
<1>2. Len(<<>>) = 0 /\ \A x : Len(<<x>>) = 1
  OBVIOUS
<1>3. /\ ~wide(1) /\ \A i \in 1..m : ~wide(1 + i)
      /\ \A j \in 1..k : wide(1 + m + j)
      /\ \A j \in 1..k : ~wide(1 + m + k + j)
  <2>1. /\ s[1][2] = <<>> /\ \A i \in 1..m : s[1 + i][2] = <<p1[i]>>
        /\ \A j \in 1..k : s[1 + m + j][2] = h1[j]
        /\ \A j \in 1..k : s[1 + m + k + j][2] = <<>>
    BY DEF SumOf
  <2> HIDE DEF m, k
  <2>2. ~wide(1)
    BY <1>2, <2>1
  <2>3. ASSUME NEW i \in 1..m PROVE ~wide(1 + i)
    <3>1. Len(s[1 + i][2]) = Len(<<p1[i]>>)
      BY <2>1
    <3> QED
      BY <1>2, <3>1
  <2>4. \A j \in 1..k : wide(1 + m + j)
    BY <2>1 DEF k
  <2>5. \A j \in 1..k : ~wide(1 + m + k + j)
    BY <1>2, <2>1
  <2> QED
    BY <2>2, <2>3, <2>4, <2>5
<1>4. /\ \A i \in 1..n : ~wide(1 + i)
      /\ \A j \in 1..l : wide(1 + n + j)
      /\ \A j \in 1..l : ~wide(1 + n + l + j)
  <2>1. /\ \A i \in 1..n : s[1 + i][2] = <<p2[i]>>
        /\ \A j \in 1..l : s[1 + n + j][2] = h2[j]
        /\ \A j \in 1..l : s[1 + n + l + j][2] = <<>>
    BY DEF SumOf
  <2> HIDE DEF n, l
  <2>3. ASSUME NEW i \in 1..n PROVE ~wide(1 + i)
    <3>1. Len(s[1 + i][2]) = Len(<<p2[i]>>)
      BY <2>1
    <3> QED
      BY <1>2, <3>1
  <2>4. \A j \in 1..l : wide(1 + n + j)
    BY <2>1 DEF l
  <2>5. \A j \in 1..l : ~wide(1 + n + l + j)
    BY <1>2, <2>1
  <2> QED
    BY <2>3, <2>4, <2>5
<1>5. m \in Nat /\ k \in {0, 1} /\ n \in Nat /\ l \in Nat
  BY DEF m, k, n, l
<1> HIDE DEF wide, m, k, n, l
<1>6. \A i \in 1..1 + m + k + k : wide(i) => i \in 2 + m..1 + m + k
  <2> SUFFICES ASSUME NEW i \in 1..1 + m + k + k, wide(i) PROVE i \in 2 + m..1 + m + k
    OBVIOUS
  <2>1. i # 1
    BY <1>3
  <2>2. ~(i \in 2..1 + m)
    <3> SUFFICES ASSUME i \in 2..1 + m PROVE FALSE
      OBVIOUS
    <3>1. i - 1 \in 1..m /\ 1 + (i - 1) = i
      BY <1>5
    <3> QED
      BY <1>3, <3>1
  <2>3. ~(i \in 2 + m + k..1 + m + k + k)
    <3> SUFFICES ASSUME i \in 2 + m + k..1 + m + k + k PROVE FALSE
      OBVIOUS
    <3>1. i - (1 + m + k) \in 1..k /\ 1 + m + k + (i - (1 + m + k)) = i
      BY <1>5
    <3> QED
      BY <1>3, <3>1
  <2> QED
    BY <1>5, <2>1, <2>2, <2>3
<1>7. CASE k = 0
  <2>1. l = 0
    <3> SUFFICES ASSUME l >= 1 PROVE FALSE
      BY <1>5
    <3>1. 1 \in 1..l /\ 1 + n + 1 \in 1..1 + m + k + k
      BY <1>1, <1>5
    <3>2. wide(1 + n + 1)
      BY <1>4, <3>1
    <3>3. 1 + n + 1 \in 2 + m..1 + m + k
      BY <1>6, <3>1, <3>2
    <3> QED
      BY <1>5, <1>7, <3>3
  <2> QED
    BY <1>1, <1>5, <1>7, <2>1 DEF m, k, n, l
<1>8. CASE k = 1
  <2>1. wide(2 + m) /\ 2 + m \in 1..1 + n + l + l
    <3>1. 1 \in 1..k /\ 1 + m + 1 = 2 + m
      BY <1>5, <1>8
    <3> QED
      BY <1>1, <1>3, <1>5, <1>8, <3>1
  <2>2. l >= 1
    <3> SUFFICES ASSUME l = 0 PROVE FALSE
      BY <1>5
    <3>1. 1 + m \in 1..n /\ 1 + (1 + m) = 2 + m
      BY <1>1, <1>5, <1>8
    <3> QED
      BY <1>4, <2>1, <3>1
  <2>3. n = m
    <3>1. 1 \in 1..l /\ 1 + n + 1 \in 1..1 + m + k + k
      BY <1>1, <1>5, <2>2
    <3>2. wide(1 + n + 1)
      BY <1>4, <3>1
    <3>3. 1 + n + 1 \in 2 + m..1 + m + k
      BY <1>6, <3>1, <3>2
    <3> QED
      BY <1>5, <1>8, <3>3
  <2> QED
    <3>1. l = k
      BY <1>1, <1>5, <1>8, <2>3
    <3> QED
      BY <2>3, <3>1 DEF m, k, n, l
<1> QED
  BY <1>5, <1>7, <1>8

\* So what is summed is the same.
LEMMA SumSame ==
  ASSUME NEW s, NEW i1, NEW p1, NEW h1, NEW c1, NEW i2, NEW p2, NEW h2, NEW c2,
         SumOf(s, i1, p1, h1, c1), SumOf(s, i2, p2, h2, c2),
         Len(p1) = Len(p2), Len(c1) = Len(c2), Len(p1) \in Nat, Len(c1) \in Nat
  PROVE  /\ \A i \in 1..1 + Len(p1) + Len(c1) : i1[i] = i2[i]
         /\ \A i \in 1..Len(p1) : p1[i] = p2[i]
         /\ \A j \in 1..Len(c1) : h1[j] = h2[j] /\ c1[j] = c2[j]
<1> DEFINE m == Len(p1)
           k == Len(c1)
<1>1. \A a, b, c, d : <<a, b>> = <<c, d>> => a = c /\ b = d
  OBVIOUS
<1>2. /\ s[1] = <<i1[1], <<>> >>
      /\ \A i \in 1..m : s[1 + i] = <<i1[1 + i], <<p1[i]>> >>
      /\ \A j \in 1..k : s[1 + m + j] = <<i1[1 + m + j], h1[j]>>
      /\ \A j \in 1..k : s[1 + m + k + j] = <<c1[j], <<>> >>
  BY DEF SumOf
<1>3. /\ s[1] = <<i2[1], <<>> >>
      /\ \A i \in 1..m : s[1 + i] = <<i2[1 + i], <<p2[i]>> >>
      /\ \A j \in 1..k : s[1 + m + j] = <<i2[1 + m + j], h2[j]>>
      /\ \A j \in 1..k : s[1 + m + k + j] = <<c2[j], <<>> >>
  BY DEF SumOf
<1>4. m \in Nat /\ k \in Nat
  OBVIOUS
<1> HIDE DEF m, k
<1>5. i1[1] = i2[1]
  BY <1>2, <1>3
<1>6. \A i \in 1..m : i1[1 + i] = i2[1 + i] /\ p1[i] = p2[i]
  BY <1>2, <1>3
<1>7. \A j \in 1..k : i1[1 + m + j] = i2[1 + m + j] /\ h1[j] = h2[j]
  BY <1>2, <1>3
<1>8. \A j \in 1..k : c1[j] = c2[j]
  BY <1>2, <1>3
<1>9. ASSUME NEW i \in 1..1 + m + k PROVE i1[i] = i2[i]
  <2>1. CASE i = 1
    BY <1>5, <2>1
  <2>2. CASE i \in 2..1 + m
    <3>1. i - 1 \in 1..m /\ 1 + (i - 1) = i
      BY <1>4, <2>2
    <3> QED
      BY <1>6, <3>1
  <2>3. CASE i \in 2 + m..1 + m + k
    <3>1. i - (1 + m) \in 1..k /\ 1 + m + (i - (1 + m)) = i
      BY <1>4, <2>3
    <3> QED
      BY <1>7, <3>1
  <2> QED
    BY <1>4, <2>1, <2>2, <2>3
<1> QED
  BY <1>6, <1>7, <1>8, <1>9 DEF m, k

\* A challenge is the hash of its point and of the public inputs its commitment binds.
LEMMA ChallengeIs ==
  ASSUME NEW p, NEW committed, NEW public, Len(committed) \in Nat
  PROVE  LET n == Len(committed)
             c == Challenge(Uncompressed(p), committed, public)
         IN  List(c, 2 + n) /\ \A i \in 1..n : c[2 + i] = public[committed[i]]
<1> DEFINE n == Len(committed)
           r == Uncompressed(p)
           b == [i \in 1..n |-> public[committed[i]]]
<1>1. List(r, 2) /\ List(b, n) /\ \A i \in 1..n : b[i] = public[committed[i]]
  <2>1. r = <<p, p + 1>>
    BY DEF Uncompressed
  <2> HIDE DEF r
  <2>2. List(r, 2)
    BY <2>1 DEF List
  <2>3. List(b, n)
    BY DEF List
  <2> QED
    BY <2>2, <2>3
<1>2. Challenge(r, committed, public) = Cat(r, b)
  BY DEF Challenge, Cat
<1> HIDE DEF b, r, n
<1>3. Joins(Cat(r, b), r, 2, b, n)
  BY <1>1, ListJoined
<1>4. List(Cat(r, b), 2 + n) /\ \A i \in 1..n : Cat(r, b)[2 + i] = b[i]
  BY <1>3 DEF Joins
<1> QED
  BY <1>1, <1>2, <1>4 DEF r, n

\* One hash is of one list of public inputs.
LEMMA ChallengeBinds ==
  ASSUME NEW p, NEW q, NEW c, NEW d, NEW u, NEW v, Len(c) \in Nat, Len(d) \in Nat,
         Challenge(Uncompressed(p), c, u) = Challenge(Uncompressed(q), d, v)
  PROVE  Len(c) = Len(d) /\ \A i \in 1..Len(c) : u[c[i]] = v[d[i]]
<1> DEFINE s == Challenge(Uncompressed(p), c, u)
           m == Len(c)
           n == Len(d)
<1>1. List(s, 2 + m) /\ \A i \in 1..m : s[2 + i] = u[c[i]]
  BY ChallengeIs
<1>2. List(s, 2 + n) /\ \A i \in 1..n : s[2 + i] = v[d[i]]
  BY ChallengeIs
<1>3. m \in Nat /\ n \in Nat
  OBVIOUS
<1> HIDE DEF s, m, n
<1>4. Len(s) = 2 + m /\ Len(s) = 2 + n
  BY <1>1, <1>2, ListLen
<1>5. m = n
  BY <1>3, <1>4
<1> QED
  BY <1>1, <1>2, <1>5 DEF m, n

-----------------------------------------------------------------------------
(* What is accepted                                                        *)

\* What the verifier knows when it accepts.
LEMMA AtAccept ==
  ASSUME CWInv, pc = "accepted"
  PROVE  /\ TypeOK /\ Typed(got) /\ Shaped /\ Named /\ NKeys <= 1 /\ (NKeys = 1 => PokHolds)
         /\ PairingHolds /\ written \in Artifacts
         /\ VKStage("end", got) /\ ProofStage("end", got) /\ PublicStage("end", got)
<1>1. /\ TypeOK /\ Shaped /\ Named /\ NKeys <= 1 /\ (NKeys = 1 => PokHolds) /\ PairingHolds
      /\ blob = "public" /\ field = "end"
  BY DEF CWInv, Found
<1>2. Typed(got) /\ written \in Artifacts
  BY <1>1, TypedGot DEF TypeOK
<1>3. \A b \in Blobs : Stage(b, "end", got)
  BY <1>1, BlobsAre DEF CWInv, Progress, At
<1> QED
  BY <1>1, <1>2, <1>3, BlobsAre DEF Stage

\* What was read has the shape that was checked.
LEMMA KeysLen ==
  ASSUME TypeOK, Shaped
  PROVE  /\ VK.committed \in Seq(Seq(U32)) /\ VK.ic \in Seq(G1) /\ Public \in Seq(Scalars)
         /\ Proof.commitments \in Seq(G1)
         /\ Len(VK.committed) = NKeys /\ Len(Proof.commitments) = NKeys
         /\ Len(VK.ic) = 1 + Len(Public) + NKeys
         /\ NKeys \in Nat /\ Len(Public) \in Nat
<1>1. Typed(got)
  BY TypedGot
<1>2. /\ got["committed_index"] \in Seq(Seq(U32)) /\ got["ic"] \in Seq(G1)
      /\ got["scalar"] \in Seq(Scalars) /\ got["commitment"] \in Seq(G1)
  BY <1>1, KindIs, ReadIs DEF Typed
<1>3. NKeys \in Nat /\ Len(Public) \in Nat
  BY Lengths
<1>4. /\ VK.committed = got["committed_index"] /\ VK.ic = got["ic"]
      /\ Public = got["scalar"] /\ Proof.commitments = got["commitment"]
  BY DEF VK, Proof, Public
<1>5. /\ Len(VK.committed) = NKeys /\ Len(Proof.commitments) = NKeys
      /\ Len(VK.ic) = 1 + NKeys + Len(Public)
  BY DEF Shaped, CountsAgree
<1>6. Len(VK.ic) = 1 + Len(Public) + NKeys
  BY <1>3, <1>5
<1> QED
  BY <1>2, <1>3, <1>4, <1>5, <1>6

\* The sum that is checked is the one that was proved.
LEMMA SumChecked ==
  ASSUME CWInv, pc = "accepted"
  PROVE  /\ Len(Public) = Len(written.public) /\ NKeys = Len(written.vk.keys)
         /\ \A i \in 1..1 + Len(Public) + NKeys : VK.ic[i] = written.vk.ic[i]
         /\ \A i \in 1..Len(Public) : Public[i] = written.public[i]
         /\ \A j \in 1..NKeys : /\ Proof.commitments[j] = written.proof.commitments[j]
                                /\ Len(VK.committed[j]) = Len(written.vk.committed[j])
                                /\ \A k \in 1..Len(VK.committed[j]) :
                                     Public[VK.committed[j][k]] =
                                       written.public[written.vk.committed[j][k]]
<1> DEFINE w == written
           h == Hashes(Proof.commitments, VK.committed, Public)
           e == Hashes(w.proof.commitments, w.vk.committed, w.public)
           i1 == VK.ic
           p1 == Public
           c1 == Proof.commitments
           d1 == VK.committed
           i2 == w.vk.ic
           p2 == w.public
           c2 == w.proof.commitments
           d2 == w.vk.committed
           n == NKeys
           l == Len(w.vk.keys)
           s == KSum
<1>1. /\ TypeOK /\ Shaped /\ NKeys <= 1 /\ KSum = GnarkSum /\ w \in Artifacts
      /\ ProofStage("end", got)
  BY AtAccept DEF PairingHolds
<1>2. /\ d1 \in Seq(Seq(U32)) /\ p1 \in Seq(Scalars) /\ c1 \in Seq(G1) /\ Len(d1) = n
      /\ Len(c1) = n /\ n \in {0, 1} /\ Len(p1) \in Nat
  BY <1>1, KeysLen
<1>3. /\ d2 \in Seq(Seq(U32)) /\ p2 \in Seq(Scalars) /\ c2 \in Seq(G1)
      /\ w.vk.keys \in Seq(G2 \X G2)
  BY <1>1, Made
<1>4. Len(d2) = l /\ Len(c2) = l
  BY <1>1, Made
<1>5. l \in Nat /\ Len(p2) \in Nat
  BY <1>3
<1>6. SumOf(s, i2, p2, e, c2)
  BY <1>1, GnarkSumIs
<1>7. SumOf(s, i1, p1, h, c1)
  <2>1. ASSUME NEW j \in 1..NKeys PROVE Raw[j] = Uncompressed(Proof.commitments[j])
    <3>1. /\ Len(got["uncompressed"]) = NKeys
          /\ \A k \in 1..Len(got["uncompressed"]) :
               got["uncompressed"][k] = Uncompressed(got["commitment"][k])
      <4>1. /\ Len(got["uncompressed"]) = Len(got["commitment"])
            /\ \A k \in 1..Len(got["uncompressed"]) :
                 got["uncompressed"][k] = Uncompressed(got["commitment"][k])
        BY <1>1 DEF ProofStage, CopiesStage
      <4>2. Len(got["commitment"]) = NKeys
        BY <1>2 DEF Proof
      <4> QED
        BY <4>1, <4>2
    <3> QED
      BY <3>1 DEF Raw, Proof
  <2> QED
    BY <1>1, <2>1, KSumIs
<1>8. \A j \in 1..n : h[j] = Challenge(Uncompressed(c1[j]), d1[j], p1)
  BY <1>2 DEF Hashes
<1>9. \A j \in 1..l : e[j] = Challenge(Uncompressed(c2[j]), d2[j], p2)
  BY <1>4 DEF Hashes
<1> HIDE DEF h, e, i1, p1, c1, d1, i2, p2, c2, d2, n, l, s
<1>10. \A j \in 1..n : Len(d1[j]) \in Nat
  <2> SUFFICES ASSUME NEW j \in 1..n PROVE Len(d1[j]) \in Nat
    OBVIOUS
  <2>1. d1[j] \in Seq(U32)
    BY <1>2
  <2> QED
    BY <2>1
<1>11. \A j \in 1..l : Len(d2[j]) \in Nat
  <2> SUFFICES ASSUME NEW j \in 1..l PROVE Len(d2[j]) \in Nat
    OBVIOUS
  <2>1. d2[j] \in Seq(U32)
    BY <1>3, <1>4
  <2> QED
    BY <2>1
<1>12. \A j \in 1..n : Len(h[j]) >= 2
  <2> SUFFICES ASSUME NEW j \in 1..n PROVE Len(h[j]) >= 2
    OBVIOUS
  <2>1. List(h[j], 2 + Len(d1[j]))
    BY <1>8, <1>10, ChallengeIs
  <2> QED
    BY <1>10, <2>1, ListLen
<1>13. \A j \in 1..l : Len(e[j]) >= 2
  <2> SUFFICES ASSUME NEW j \in 1..l PROVE Len(e[j]) >= 2
    OBVIOUS
  <2>1. List(e[j], 2 + Len(d2[j]))
    BY <1>9, <1>11, ChallengeIs
  <2> QED
    BY <1>11, <2>1, ListLen
<1>14. Len(p1) = Len(p2) /\ Len(c1) = Len(c2)
  <2>1. /\ Len(c1) \in Nat /\ Len(c2) \in Nat /\ Len(c1) <= 1
        /\ \A j \in 1..Len(c1) : Len(h[j]) >= 2
        /\ \A j \in 1..Len(c2) : Len(e[j]) >= 2
    BY <1>2, <1>4, <1>5, <1>12, <1>13
  <2> QED
    BY <1>2, <1>5, <1>6, <1>7, <2>1, SumPlaces
<1>15. n = l
  BY <1>2, <1>4, <1>14
<1>16. /\ \A i \in 1..1 + Len(p1) + Len(c1) : i1[i] = i2[i]
       /\ \A i \in 1..Len(p1) : p1[i] = p2[i]
       /\ \A j \in 1..Len(c1) : h[j] = e[j] /\ c1[j] = c2[j]
  <2>1. Len(c1) \in Nat
    BY <1>2
  <2> QED
    BY <1>2, <1>6, <1>7, <1>14, <2>1, SumSame
<1>17. ASSUME NEW j \in 1..n
       PROVE  Len(d1[j]) = Len(d2[j]) /\ \A k \in 1..Len(d1[j]) : p1[d1[j][k]] = p2[d2[j][k]]
  <2>1. Challenge(Uncompressed(c1[j]), d1[j], p1) = Challenge(Uncompressed(c2[j]), d2[j], p2)
    BY <1>2, <1>8, <1>9, <1>15, <1>16
  <2>2. Len(d1[j]) \in Nat /\ Len(d2[j]) \in Nat
    BY <1>10, <1>11, <1>15
  <2> QED
    BY <2>1, <2>2, ChallengeBinds
<1>18. /\ Len(p1) = Len(p2) /\ n = l /\ \A i \in 1..1 + Len(p1) + n : i1[i] = i2[i]
       /\ \A i \in 1..Len(p1) : p1[i] = p2[i]
       /\ \A j \in 1..n : /\ c1[j] = c2[j] /\ Len(d1[j]) = Len(d2[j])
                          /\ \A k \in 1..Len(d1[j]) : p1[d1[j][k]] = p2[d2[j][k]]
  BY <1>2, <1>14, <1>15, <1>16, <1>17
<1> QED
  BY <1>18 DEF i1, p1, c1, d1, i2, p2, c2, d2, n, l

\* A key without its lists of indices.
LEMMA VKBut ==
  ASSUME NEW v,
         v = [alpha |-> v.alpha, beta |-> v.beta, gamma |-> v.gamma, delta |-> v.delta,
              ic |-> v.ic, keys |-> v.keys, committed |-> v.committed]
  PROVE  [v EXCEPT !.committed = <<>>] =
           [alpha |-> v.alpha, beta |-> v.beta, gamma |-> v.gamma, delta |-> v.delta,
            ic |-> v.ic, keys |-> v.keys, committed |-> <<>>]
<1> DEFINE a == v.alpha
           b == v.beta
           c == v.gamma
           d == v.delta
           e == v.ic
           f == v.keys
           h == v.committed
           r == [alpha |-> a, beta |-> b, gamma |-> c, delta |-> d, ic |-> e, keys |-> f,
                 committed |-> h]
<1>1. v = r
  OBVIOUS
<1> HIDE DEF a, b, c, d, e, f, h
<1>2. [r EXCEPT !.committed = <<>>] =
        [alpha |-> a, beta |-> b, gamma |-> c, delta |-> d, ic |-> e, keys |-> f,
         committed |-> <<>>]
  OBVIOUS
<1> QED
  BY <1>1, <1>2 DEF a, b, c, d, e, f, h

\* tests/real_proof.rs:30-50, lib.rs:272-356: a key, proof or public inputs that are not the ones
\* written are refused, for artifacts of any size, whichever cells differ.
THEOREM CWAccepted == Spec => []AcceptedAsWritten
<1>1. ASSUME CWInv PROVE AcceptedAsWritten
  <2> SUFFICES ASSUME pc = "accepted"
               PROVE  /\ [VK EXCEPT !.committed = <<>>] = [written.vk EXCEPT !.committed = <<>>]
                      /\ Bound(VK.committed, Public) = Bound(written.vk.committed, written.public)
                      /\ Public = written.public
                      /\ [Proof EXCEPT !.pok = 0] = [written.proof EXCEPT !.pok = 0]
                      /\ NKeys > 0 => Proof.pok = written.proof.pok
    BY DEF AcceptedAsWritten
  <2>1. /\ TypeOK /\ Shaped /\ NKeys <= 1 /\ (NKeys = 1 => PokHolds) /\ PairingHolds
        /\ written \in Artifacts /\ VKStage("end", got)
    BY <1>1, AtAccept
  <2>2. /\ VK.committed \in Seq(Seq(U32)) /\ VK.ic \in Seq(G1) /\ Public \in Seq(Scalars)
        /\ Proof.commitments \in Seq(G1)
        /\ Len(VK.committed) = NKeys /\ Len(Proof.commitments) = NKeys
        /\ Len(VK.ic) = 1 + Len(Public) + NKeys
        /\ NKeys \in Nat /\ Len(Public) \in Nat
    BY <2>1, KeysLen
  <2>3. /\ written.vk.ic \in Seq(G1) /\ written.public \in Seq(Scalars)
        /\ written.proof.commitments \in Seq(G1) /\ written.vk.committed \in Seq(Seq(U32))
        /\ written.vk.keys \in Seq(G2 \X G2) /\ written.vk \in VKs /\ written.proof \in Proofs
    BY <2>1, Made
  <2>4. /\ Len(written.vk.ic) = 1 + Len(written.public) + Len(written.vk.keys)
        /\ Len(written.vk.committed) = Len(written.vk.keys)
        /\ Len(written.proof.commitments) = Len(written.vk.keys)
    BY <2>1, Made
  <2>5. Len(Public) = Len(written.public) /\ NKeys = Len(written.vk.keys)
    BY <1>1, SumChecked
  <2>6. VK.ic = written.vk.ic
    <3>1. \A i \in 1..1 + Len(Public) + NKeys : VK.ic[i] = written.vk.ic[i]
      BY <1>1, SumChecked
    <3>2. List(VK.ic, 1 + Len(Public) + NKeys)
      BY <2>2, SeqList
    <3>3. List(written.vk.ic, 1 + Len(Public) + NKeys)
      BY <2>3, <2>4, <2>5, SeqList
    <3> QED
      BY <3>1, <3>2, <3>3, ListSame
  <2>7. Public = written.public
    <3>1. \A i \in 1..Len(Public) : Public[i] = written.public[i]
      BY <1>1, SumChecked
    <3>2. List(Public, Len(Public)) /\ List(written.public, Len(Public))
      BY <2>2, <2>3, <2>5, SeqList
    <3> QED
      BY <3>1, <3>2, ListSame
  <2>8. Proof.commitments = written.proof.commitments
    <3>1. \A j \in 1..NKeys : Proof.commitments[j] = written.proof.commitments[j]
      BY <1>1, SumChecked
    <3>2. List(Proof.commitments, NKeys) /\ List(written.proof.commitments, NKeys)
      BY <2>2, <2>3, <2>4, <2>5, SeqList
    <3> QED
      BY <3>1, <3>2, ListSame
  <2>9. Bound(VK.committed, Public) = Bound(written.vk.committed, written.public)
    <3>1. DOMAIN VK.committed = 1..NKeys /\ DOMAIN written.vk.committed = 1..NKeys
      BY <2>2, <2>3, <2>4, <2>5
    <3>2. ASSUME NEW j \in 1..NKeys
          PROVE  [k \in DOMAIN VK.committed[j] |-> Public[VK.committed[j][k]]] =
                   [k \in DOMAIN written.vk.committed[j] |->
                      written.public[written.vk.committed[j][k]]]
      <4>1. /\ Len(VK.committed[j]) = Len(written.vk.committed[j])
            /\ \A k \in 1..Len(VK.committed[j]) :
                 Public[VK.committed[j][k]] = written.public[written.vk.committed[j][k]]
        BY <1>1, SumChecked
      <4>2. VK.committed[j] \in Seq(U32) /\ written.vk.committed[j] \in Seq(U32)
        <5>1. j \in 1..Len(VK.committed) /\ j \in 1..Len(written.vk.committed)
          BY <2>2, <2>4, <2>5
        <5> QED
          BY <2>2, <2>3, <5>1
      <4>3. /\ DOMAIN VK.committed[j] = 1..Len(VK.committed[j])
            /\ DOMAIN written.vk.committed[j] = 1..Len(VK.committed[j])
        BY <4>1, <4>2
      <4> QED
        BY <4>1, <4>3, Zenon
    <3> QED
      BY <3>1, <3>2 DEF Bound
  <2>10. VK.keys = written.vk.keys
    <3>1. List(VK.keys, NKeys)
      BY <2>2 DEF List, VK
    <3>2. List(written.vk.keys, NKeys)
      BY <2>3, <2>5, SeqList
    <3>3. \A j \in 1..NKeys : VK.keys[j] = written.vk.keys[j]
      BY <2>1, <2>2 DEF PokHolds
    <3> QED
      BY <3>1, <3>2, <3>3, ListSame
  <2>11. /\ VK.alpha = written.vk.alpha /\ VK.beta = written.vk.beta
         /\ VK.gamma = written.vk.gamma /\ VK.delta = written.vk.delta
         /\ Proof.a = written.proof.a /\ Proof.b = written.proof.b /\ Proof.c = written.proof.c
    <3>1. \A a, b, c, d, e, f : <<a, b, c>> = <<d, e, f>> => a = d /\ b = e /\ c = f
      OBVIOUS
    <3>2. \A a, b, c, d, e, f, x, y :
            <<a, b, c, x>> = <<d, e, f, y>> => a = d /\ b = e /\ c = f /\ x = y
      OBVIOUS
    <3>3. <<Proof.a, Proof.b, Proof.c>> = <<written.proof.a, written.proof.b, written.proof.c>>
      BY <2>1 DEF PairingHolds
    <3>4. <<VK.alpha, VK.beta, VK.gamma, VK.delta>> =
            <<written.vk.alpha, written.vk.beta, written.vk.gamma, written.vk.delta>>
      BY <2>1 DEF PairingHolds
    <3> QED
      BY <3>1, <3>2, <3>3, <3>4, Zenon
  <2>12. [VK EXCEPT !.committed = <<>>] = [written.vk EXCEPT !.committed = <<>>]
    <3> DEFINE v == written.vk
               R(x) == [alpha |-> x.alpha, beta |-> x.beta, gamma |-> x.gamma, delta |-> x.delta,
                        ic |-> x.ic, keys |-> x.keys, committed |-> <<>>]
    <3> DEFINE u == VK
    <3>1. [u EXCEPT !.committed = <<>>] = R(u)
      <4>1. u = [alpha |-> u.alpha, beta |-> u.beta, gamma |-> u.gamma, delta |-> u.delta,
                 ic |-> u.ic, keys |-> u.keys, committed |-> u.committed]
        BY DEF VK
      <4> HIDE DEF u
      <4> QED
        BY <4>1, VKBut
    <3>2. [v EXCEPT !.committed = <<>>] = R(v)
      <4>1. v \in VKs
        BY <2>3
      <4> HIDE DEF v
      <4>2. v = [alpha |-> v.alpha, beta |-> v.beta, gamma |-> v.gamma, delta |-> v.delta,
                 ic |-> v.ic, keys |-> v.keys, committed |-> v.committed]
        BY <4>1 DEF VKs
      <4> QED
        BY <4>2, VKBut
    <3>3. R(u) = R(v)
      BY <2>6, <2>10, <2>11, Zenon
    <3> QED
      BY <3>1, <3>2, <3>3
  <2>13. [Proof EXCEPT !.pok = 0] = [written.proof EXCEPT !.pok = 0]
    <3> DEFINE v == written.proof
               R(x) == [a |-> x.a, b |-> x.b, c |-> x.c, commitments |-> x.commitments, pok |-> 0]
    <3>1. [Proof EXCEPT !.pok = 0] = R(Proof)
      BY DEF Proof
    <3>2. [v EXCEPT !.pok = 0] = R(v)
      <4>1. v \in Proofs
        BY <2>3
      <4> HIDE DEF v
      <4> QED
        BY <4>1 DEF Proofs
    <3>3. R(Proof) = R(v)
      BY <2>8, <2>11, Zenon
    <3> QED
      BY <3>1, <3>2, <3>3
  <2>14. NKeys > 0 => Proof.pok = written.proof.pok
    BY <2>1, <2>2 DEF PokHolds
  <2> QED
    BY <2>7, <2>9, <2>12, <2>13, <2>14
<1>2. CWInv => AcceptedAsWritten
  BY <1>1
<1> QED
  BY <1>2, CWSafe, PTL

-----------------------------------------------------------------------------
(* Files that nothing has touched                                          *)

\* The values g were read of a file that holds the values w.
Agree(g, w) ==
  /\ \A h \in Names \ {"committed_index"} : Pre(g[h], w[h])
  /\ Len(g["committed_index"]) <= Len(w["committed_index"])
  /\ \A j \in 1..Len(g["committed_index"]) : Pre(g["committed_index"][j], w["committed_index"][j])

\* All the values of the files, of a key that has a commitment or none.
Full(w) ==
  /\ Typed(w) /\ VKStage("end", w) /\ ProofStage("end", w) /\ PublicStage("end", w)
  /\ Len(w["pedersen_G"]) <= 1 /\ Len(w["commitment"]) <= 1

\* What is written of the values of a field that were read begins what is written of them all.
LEMMA SegPre ==
  ASSUME NEW g, Typed(g), NEW w, Typed(w), NEW h \in Names \ {"committed_index"}, Pre(g[h], w[h])
  PROVE  /\ Pre(Seg(g, h), Seg(w, h))
         /\ Len(g[h]) = Len(w[h]) => g[h] = w[h]
<1> DEFINE S == Read[h]
           s == g[h]
           t == w[h]
<1>1. s \in Seq(S) /\ t \in Seq(S)
  BY DEF Typed
<1>2. Len(s) = Len(t) => s = t
  <2> HIDE DEF s, t, S
  <2>1. Pre(s, t)
    BY DEF s, t
  <2> QED
    BY <1>1, <2>1, PreWhole
<1>3. CASE Width(h) = 1
  BY <1>2, <1>3 DEF Seg
<1>4. CASE Width(h) # 1
  <2>1. S \subseteq Seq(Cell)
    BY <1>4, WidthIs, CellsAre, KindIs
  <2> HIDE DEF S
  <2>2. s \in Seq(Seq(Cell)) /\ t \in Seq(Seq(Cell))
    BY <1>1, <2>1, SeqMonotonic
  <2>3. Pre(s, t)
    OBVIOUS
  <2> HIDE DEF s, t
  <2>4. Begins(Cell, s, t)
    <3>1. ASSUME NEW j \in 1..Len(s) PROVE s[j] = t[j] /\ Pre(s[j], t[j])
      <4>1. s[j] = t[j] /\ s[j] \in Seq(Cell)
        BY <2>2, <2>3 DEF Pre
      <4> QED
        BY <4>1, PreSelf
    <3> QED
      BY <2>2, <2>3, <3>1 DEF Begins, Pre
  <2>5. Pre(FlattenSeq(s), FlattenSeq(t))
    BY <2>4, FlatPre
  <2> QED
    BY <1>2, <1>4, <2>5 DEF Seg, s, t
<1> QED
  BY <1>3, <1>4

\* The same of the value of a field for the only key, or the only commitment.
LEMMA OptPre ==
  ASSUME NEW g, Typed(g), NEW w, Typed(w), NEW h \in Names \ {"committed_index"}, Pre(g[h], w[h])
  PROVE  /\ Pre(Opt(g, h, 1), Opt(w, h, 1))
         /\ Len(g[h]) >= 1 => Opt(g, h, 1) = Opt(w, h, 1)
         /\ Len(g[h]) = 0 => Opt(g, h, 1) = <<>>
<1>1. Len(g[h]) \in Nat /\ Len(w[h]) \in Nat /\ Len(g[h]) <= Len(w[h])
  BY CountsAre DEF Pre
<1>2. Opt(g, h, 1) \in Seq(Cell) /\ Opt(w, h, 1) \in Seq(Cell)
  BY OptTyped
<1>3. Len(g[h]) >= 1 => Opt(g, h, 1) = Opt(w, h, 1)
  <2> HAVE Len(g[h]) >= 1
  <2>1. g[h][1] = w[h][1]
    BY <1>1 DEF Pre
  <2> QED
    BY <1>1, <2>1 DEF Opt
<1>4. Len(g[h]) = 0 => Opt(g, h, 1) = <<>>
  BY DEF Opt
<1> DEFINE s == Opt(g, h, 1)
           t == Opt(w, h, 1)
<1>5. Pre(s, t)
  <2>1. CASE Len(g[h]) >= 1
    <3>1. s = t /\ t \in Seq(Cell)
      BY <1>2, <1>3, <2>1
    <3> HIDE DEF s, t
    <3> QED
      BY <3>1, PreSelf
  <2>2. CASE Len(g[h]) = 0
    <3>1. s = <<>> /\ t \in Seq(Cell)
      BY <1>2, <1>4, <2>2
    <3> HIDE DEF s, t
    <3> QED
      BY <3>1, PreSelf
  <2> QED
    BY <1>1, <2>1, <2>2
<1> QED
  BY <1>3, <1>4, <1>5

\* What is written of the only key.
LEMMA KeysPre ==
  ASSUME NEW g, Typed(g), NEW w, Typed(w), Agree(g, w), Len(w["pedersen_G"]) <= 1,
         NEW f, KeysStage(f, g)
  PROVE  Pre(FlattenSeq(Keys(g)), FlattenSeq(Keys(w)))
<1> DEFINE n == Len(g["pedersen_G"])
           m == Len(w["pedersen_G"])
<1>1. /\ n \in Nat /\ m \in Nat /\ n <= m /\ m <= 1
      /\ "pedersen_G" \in Names /\ "pedersen_GSigmaNeg" \in Names /\ "committed_count" \in Names
  BY KindIs, CountsAre DEF Agree, Pre
<1> HIDE DEF n, m
<1>2. CASE n = 0
  <2>1. g["pedersen_G"] = <<>>
    BY <1>1, <1>2, EmptySeq DEF Typed, n
  <2>2. FlattenSeq(Keys(g)) = <<>> /\ FlattenSeq(Keys(w)) \in Seq(Cell)
    BY <2>1, KeysEmpty, KeysTyped
  <2> QED
    BY <2>2, PreSelf
<1>3. CASE n = 1
  <2> DEFINE s == KeyParts(g, 1)
             t == KeyParts(w, 1)
             a == "pedersen_G"
             b == "pedersen_GSigmaNeg"
             c == "committed_count"
             d == "committed_index"
  <2>1. m = 1 /\ 1 \in 1..n /\ 1 \in 1..m
    BY <1>1, <1>3
  <2>2. /\ s \in Seq(Seq(Cell)) /\ Len(s) = 4
        /\ s[1] = Opt(g, a, 1) /\ s[2] = Opt(g, b, 1) /\ s[3] = Opt(g, c, 1) /\ s[4] = Indices(g, 1)
        /\ Keys(g)[1] = FlattenSeq(s) /\ Keys(g) \in Seq(Seq(Cell)) /\ Len(Keys(g)) = 1
    BY <1>3, <2>1, KeysTyped DEF n
  <2>3. /\ t \in Seq(Seq(Cell)) /\ Len(t) = 4
        /\ t[1] = Opt(w, a, 1) /\ t[2] = Opt(w, b, 1) /\ t[3] = Opt(w, c, 1) /\ t[4] = Indices(w, 1)
        /\ Keys(w)[1] = FlattenSeq(t) /\ Keys(w) \in Seq(Seq(Cell)) /\ Len(Keys(w)) = 1
    BY <2>1, KeysTyped DEF m
  <2>4. Pre(g[a], w[a]) /\ Pre(g[b], w[b]) /\ Pre(g[c], w[c])
    BY <1>1 DEF Agree
  <2>5. /\ Len(g[b]) \in {0, 1} /\ Len(g[c]) \in {0, 1} /\ (Len(g[b]) = 0 => Len(g[c]) = 0)
        /\ Len(g[d]) = Len(g[c])
    BY <1>3 DEF KeysStage, n
  <2>6. Opt(g, a, 1) = Opt(w, a, 1)
    <3>1. Len(g[a]) >= 1
      BY <1>3 DEF n
    <3> QED
      BY <1>1, <2>4, <3>1, OptPre
  <2>7. /\ Pre(Opt(g, b, 1), Opt(w, b, 1)) /\ (Len(g[b]) >= 1 => Opt(g, b, 1) = Opt(w, b, 1))
        /\ (Len(g[b]) = 0 => Opt(g, b, 1) = <<>>)
    BY <1>1, <2>4, OptPre
  <2>8. /\ Pre(Opt(g, c, 1), Opt(w, c, 1)) /\ (Len(g[c]) >= 1 => Opt(g, c, 1) = Opt(w, c, 1))
        /\ (Len(g[c]) = 0 => Opt(g, c, 1) = <<>>)
    BY <1>1, <2>4, OptPre
  <2>9. /\ Pre(Indices(g, 1), Indices(w, 1))
        /\ (Len(g[c]) = 0 => Indices(g, 1) = <<>>)
    <3>1. CASE Len(g[c]) = 0
      <4>1. Indices(g, 1) = <<>>
        BY <2>5, <3>1 DEF Indices
      <4>2. Indices(w, 1) \in Seq(Cell)
        BY <1>1, OptTyped
      <4> QED
        BY <4>1, <4>2, PreSelf
    <3>2. CASE Len(g[c]) = 1
      <4>1. Len(g[d]) = 1 /\ 1 <= Len(w[d]) /\ Pre(g[d][1], w[d][1])
        BY <2>5, <3>2 DEF Agree
      <4> QED
        BY <3>2, <4>1 DEF Indices
    <3> QED
      BY <2>5, <3>1, <3>2
  <2>10. Pre(s[1], t[1])
    <3>1. s[1] = t[1] /\ t[1] \in Seq(Cell)
      <4>1. 1 \in 1..Len(t)
        BY <2>3
      <4> QED
        BY <2>2, <2>3, <2>6, <4>1
    <3> QED
      BY <3>1, PreSelf
  <2> HIDE DEF s, t, a, b, c, d
  <2>11. s[1] = t[1] /\ (s[2] = t[2] \/ (s[3] = <<>> /\ s[4] = <<>>))
    <3>1. CASE Len(g[b]) = 0
      BY <2>2, <2>3, <2>5, <2>6, <2>8, <2>9, <3>1
    <3>2. CASE Len(g[b]) = 1
      BY <2>2, <2>3, <2>6, <2>7, <3>2
    <3> QED
      BY <2>5, <3>1, <3>2
  <2>12. s[3] = t[3] \/ s[4] = <<>>
    BY <2>2, <2>3, <2>5, <2>8, <2>9
  <2>13. Begins(Cell, s, t)
    <3>1. ASSUME NEW j \in 1..4
          PROVE  Pre(s[j], t[j]) /\ (s[j] = t[j] \/ \A i \in j + 1..4 : s[i] = <<>>)
      <4>1. CASE j = 1
        BY <2>10, <2>11, <4>1
      <4>2. CASE j = 2
        <5>1. \A i \in 3..4 : i = 3 \/ i = 4
          OBVIOUS
        <5> QED
          BY <2>2, <2>3, <2>7, <2>11, <4>2, <5>1
      <4>3. CASE j = 3
        <5>1. \A i \in 4..4 : i = 4
          OBVIOUS
        <5> QED
          BY <2>2, <2>3, <2>8, <2>12, <4>3, <5>1
      <4>4. CASE j = 4
        <5>1. \A i \in 5..4 : FALSE
          OBVIOUS
        <5> QED
          BY <2>2, <2>3, <2>9, <4>4, <5>1
      <4> QED
        BY <4>1, <4>2, <4>3, <4>4
    <3> QED
      BY <2>2, <2>3, <3>1 DEF Begins
  <2>14. Pre(FlattenSeq(s), FlattenSeq(t))
    BY <2>13, FlatPre
  <2> DEFINE u == Keys(g)
             v == Keys(w)
  <2>15. /\ u \in Seq(Seq(Cell)) /\ v \in Seq(Seq(Cell)) /\ Len(u) = 1 /\ Len(v) = 1
         /\ Pre(u[1], v[1])
    BY <2>2, <2>3, <2>14
  <2> HIDE DEF u, v
  <2>16. Begins(Cell, u, v)
    <3>1. \A j \in 1..1 : j = 1 /\ \A i \in j + 1..1 : FALSE
      OBVIOUS
    <3> QED
      BY <2>15, <3>1 DEF Begins
  <2>17. Pre(FlattenSeq(u), FlattenSeq(v))
    BY <2>16, FlatPre
  <2> QED
    BY <2>17 DEF u, v
<1> QED
  BY <1>1, <1>2, <1>3

\* What is written of the only commitment and its copy.
LEMMA CopiesPre ==
  ASSUME NEW g, Typed(g), NEW w, Typed(w), Agree(g, w), Len(w["commitment"]) <= 1,
         NEW f, CopiesStage(f, g)
  PROVE  Pre(FlattenSeq(Copies(g)), FlattenSeq(Copies(w)))
<1> DEFINE n == Len(g["commitment"])
           m == Len(w["commitment"])
<1>1. /\ n \in Nat /\ m \in Nat /\ n <= m /\ m <= 1
      /\ "commitment" \in Names /\ "uncompressed" \in Names
  BY KindIs, CountsAre DEF Agree, Pre
<1> HIDE DEF n, m
<1>2. CASE n = 0
  <2>1. g["commitment"] = <<>>
    BY <1>1, <1>2, EmptySeq DEF Typed, n
  <2>2. FlattenSeq(Copies(g)) = <<>> /\ FlattenSeq(Copies(w)) \in Seq(Cell)
    BY <2>1, CopiesEmpty, CopiesTyped
  <2> QED
    BY <2>2, PreSelf
<1>3. CASE n = 1
  <2> DEFINE s == CopyParts(g, 1)
             t == CopyParts(w, 1)
             a == "commitment"
             b == "uncompressed"
  <2>1. m = 1 /\ 1 \in 1..n /\ 1 \in 1..m
    BY <1>1, <1>3
  <2>2. /\ s \in Seq(Seq(Cell)) /\ Len(s) = 2 /\ s[1] = Opt(g, a, 1) /\ s[2] = Opt(g, b, 1)
        /\ Copies(g)[1] = FlattenSeq(s) /\ Copies(g) \in Seq(Seq(Cell)) /\ Len(Copies(g)) = 1
    BY <1>3, <2>1, CopiesTyped DEF n
  <2>3. /\ t \in Seq(Seq(Cell)) /\ Len(t) = 2 /\ t[1] = Opt(w, a, 1) /\ t[2] = Opt(w, b, 1)
        /\ Copies(w)[1] = FlattenSeq(t) /\ Copies(w) \in Seq(Seq(Cell)) /\ Len(Copies(w)) = 1
    BY <2>1, CopiesTyped DEF m
  <2>4. Pre(g[a], w[a]) /\ Pre(g[b], w[b])
    BY <1>1 DEF Agree
  <2>5. Opt(g, a, 1) = Opt(w, a, 1)
    <3>1. Len(g[a]) >= 1
      BY <1>3 DEF n
    <3> QED
      BY <1>1, <2>4, <3>1, OptPre
  <2>6. Pre(Opt(g, b, 1), Opt(w, b, 1))
    BY <1>1, <2>4, OptPre
  <2>7. Pre(s[1], t[1])
    <3>1. s[1] = t[1] /\ t[1] \in Seq(Cell)
      <4>1. 1 \in 1..Len(t)
        BY <2>3
      <4> QED
        BY <2>2, <2>3, <2>5, <4>1
    <3> QED
      BY <3>1, PreSelf
  <2> HIDE DEF s, t, a, b
  <2>8. Begins(Cell, s, t)
    <3>1. ASSUME NEW j \in 1..2
          PROVE  Pre(s[j], t[j]) /\ (s[j] = t[j] \/ \A i \in j + 1..2 : s[i] = <<>>)
      <4>1. CASE j = 1
        BY <2>2, <2>3, <2>5, <2>7, <4>1
      <4>2. CASE j = 2
        <5>1. \A i \in 3..2 : FALSE
          OBVIOUS
        <5> QED
          BY <2>2, <2>3, <2>6, <4>2, <5>1
      <4> QED
        BY <4>1, <4>2
    <3> QED
      BY <2>2, <2>3, <3>1 DEF Begins
  <2>9. Pre(FlattenSeq(s), FlattenSeq(t))
    BY <2>8, FlatPre
  <2> DEFINE u == Copies(g)
             v == Copies(w)
  <2>10. /\ u \in Seq(Seq(Cell)) /\ v \in Seq(Seq(Cell)) /\ Len(u) = 1 /\ Len(v) = 1
         /\ Pre(u[1], v[1])
    BY <2>2, <2>3, <2>9
  <2> HIDE DEF u, v
  <2>11. Begins(Cell, u, v)
    <3>1. \A j \in 1..1 : j = 1 /\ \A i \in j + 1..1 : FALSE
      OBVIOUS
    <3> QED
      BY <2>10, <3>1 DEF Begins
  <2>12. Pre(FlattenSeq(u), FlattenSeq(v))
    BY <2>11, FlatPre
  <2> QED
    BY <2>12 DEF u, v
<1> QED
  BY <1>1, <1>2, <1>3

\* A field that was read to its end has the values it was written with.
LEMMA SingleSame ==
  ASSUME NEW g, Typed(g), NEW w, Typed(w), Agree(g, w), NEW h \in Names \ {"committed_index"},
         Len(g[h]) = Len(w[h])
  PROVE  g[h] = w[h]
  BY SegPre DEF Agree

\* The fields of the key before the one that is next have the values they were written with.
LEMMA HeadSame ==
  ASSUME NEW g, Typed(g), NEW w, Typed(w), Agree(g, w), HeadStage("end", w), NEW f, HeadStage(f, g)
  PROVE  /\ f # "alpha" => g["alpha"] = w["alpha"]
         /\ f \notin {"alpha", "beta"} => g["beta"] = w["beta"]
         /\ f \notin {"alpha", "beta", "gamma"} => g["gamma"] = w["gamma"]
         /\ f \notin {"alpha", "beta", "gamma", "delta"} => g["delta"] = w["delta"]
         /\ f \notin HeadFields \ {"ic", "vk_nC"} => g["ic_count"] = w["ic_count"]
         /\ f \notin HeadFields \ {"vk_nC"} => g["ic"] = w["ic"]
         /\ f \notin HeadFields => g["vk_nC"] = w["vk_nC"]
<1>1. /\ Len(w["alpha"]) = 1 /\ Len(w["beta"]) = 1 /\ Len(w["gamma"]) = 1 /\ Len(w["delta"]) = 1
      /\ Len(w["ic_count"]) = 1 /\ Len(w["ic"]) = w["ic_count"][1] /\ Len(w["vk_nC"]) = 1
  BY DEF HeadStage, HeadFields
<1>2. /\ f # "alpha" => Len(g["alpha"]) = 1
      /\ f \notin {"alpha", "beta"} => Len(g["beta"]) = 1
      /\ f \notin {"alpha", "beta", "gamma"} => Len(g["gamma"]) = 1
      /\ f \notin {"alpha", "beta", "gamma", "delta"} => Len(g["delta"]) = 1
      /\ f \notin HeadFields \ {"ic", "vk_nC"} => Len(g["ic_count"]) = 1
      /\ f \notin HeadFields \ {"vk_nC"} => Len(g["ic"]) = g["ic_count"][1]
      /\ f \notin HeadFields => Len(g["vk_nC"]) = 1
  BY DEF HeadStage
<1>3. \A h \in {"alpha", "beta", "gamma", "delta", "ic_count", "ic", "vk_nC"} :
        Len(g[h]) = Len(w[h]) => g[h] = w[h]
  BY SingleSame, KindIs
<1>4. f \notin HeadFields \ {"ic", "vk_nC"} => g["ic_count"] = w["ic_count"]
  BY <1>1, <1>2, <1>3
<1>5. f \notin HeadFields \ {"vk_nC"} => g["ic"] = w["ic"]
  <2> HAVE f \notin HeadFields \ {"vk_nC"}
  <2>1. g["ic_count"] = w["ic_count"]
    BY <1>4
  <2> QED
    BY <1>1, <1>2, <1>3, <2>1
<1> QED
  BY <1>1, <1>2, <1>3, <1>4, <1>5

\* What was read of a file whose values are w begins it.
LEMMA VKPre ==
  ASSUME NEW g, Typed(g), NEW w, Full(w), Agree(g, w), NEW f, VKStage(f, g)
  PROVE  Pre(Part("vk", g), Part("vk", w))
<1> DEFINE s == VKParts(g)
           t == VKParts(w)
           Rest(k) == \A j \in 1..7 : j > k => g[VKHead[j]] = <<>>
<1>1. /\ Typed(w) /\ HeadStage("end", w) /\ HeadStage(f, g) /\ KeysCount(f, g) /\ KeysStage(f, g)
      /\ f \in VKFields \cup {"end"} /\ Len(w["pedersen_G"]) <= 1
  BY DEF Full, VKStage
<1>2. \A k \in 1..7 : VKHead[k] \in Names \ {"committed_index"}
  BY HeadNames
<1>3. /\ s \in Seq(Seq(Cell)) /\ Len(s) = 8 /\ \A k \in 1..7 : s[k] = Seg(g, VKHead[k])
      /\ s[8] = FlattenSeq(Keys(g))
  BY PartsTyped
<1>4. /\ t \in Seq(Seq(Cell)) /\ Len(t) = 8 /\ \A k \in 1..7 : t[k] = Seg(w, VKHead[k])
      /\ t[8] = FlattenSeq(Keys(w))
  BY <1>1, PartsTyped
<1> HIDE DEF s, t
<1>5. Pre(s[8], t[8])
  BY <1>1, <1>3, <1>4, KeysPre
<1>6. \A k \in 1..7 : Pre(s[k], t[k])
  <2> SUFFICES ASSUME NEW k \in 1..7 PROVE Pre(s[k], t[k])
    OBVIOUS
  <2>1. Pre(g[VKHead[k]], w[VKHead[k]])
    BY <1>2 DEF Agree
  <2>2. Pre(Seg(g, VKHead[k]), Seg(w, VKHead[k]))
    BY <1>1, <1>2, <2>1, SegPre
  <2> QED
    BY <1>3, <1>4, <2>2
<1>7. f \in HeadFields => s[8] = <<>>
  <2> HAVE f \in HeadFields
  <2>1. Len(g["pedersen_G"]) = 0 /\ "pedersen_G" \in Names
    BY <1>1, KindIs DEF KeysCount
  <2>2. g["pedersen_G"] = <<>>
    BY <2>1, EmptySeq DEF Typed
  <2> QED
    BY <1>3, <2>2, KeysEmpty
<1>8. \A k \in 1..7 : f = VKHead[k] => \A j \in 1..7 : j > k => s[j] = <<>>
  <2> SUFFICES ASSUME NEW k \in 1..7, f = VKHead[k], NEW j \in 1..7, j > k PROVE s[j] = <<>>
    OBVIOUS
  <2>1. Len(g[VKHead[j]]) = 0
    BY <1>1, LaterEmpty
  <2>2. g[VKHead[j]] = <<>>
    BY <1>2, <2>1, EmptySeq DEF Typed
  <2> QED
    BY <1>3, <2>2, SegEmpty
<1>9. \A k \in 1..7 : (f \notin {VKHead[j] : j \in 1..k}) => s[k] = t[k]
  <2> SUFFICES ASSUME NEW k \in 1..7, f \notin {VKHead[j] : j \in 1..k} PROVE s[k] = t[k]
    OBVIOUS
  <2>1. \A j \in 1..7 : j <= k => f # VKHead[j]
    OBVIOUS
  <2>2. g[VKHead[k]] = w[VKHead[k]]
    <3>1. /\ f # "alpha" => g["alpha"] = w["alpha"]
          /\ f \notin {"alpha", "beta"} => g["beta"] = w["beta"]
          /\ f \notin {"alpha", "beta", "gamma"} => g["gamma"] = w["gamma"]
          /\ f \notin {"alpha", "beta", "gamma", "delta"} => g["delta"] = w["delta"]
          /\ f \notin HeadFields \ {"ic", "vk_nC"} => g["ic_count"] = w["ic_count"]
          /\ f \notin HeadFields \ {"vk_nC"} => g["ic"] = w["ic"]
          /\ f \notin HeadFields => g["vk_nC"] = w["vk_nC"]
      BY <1>1, HeadSame
    <3>2. CASE k = 1
      BY <2>1, <3>1, <3>2, HeadsAre
    <3>3. CASE k = 2
      BY <2>1, <3>1, <3>3, HeadsAre
    <3>4. CASE k = 3
      BY <2>1, <3>1, <3>4, HeadsAre
    <3>5. CASE k = 4
      BY <2>1, <3>1, <3>5, HeadsAre
    <3>6. CASE k = 5
      BY <2>1, <3>1, <3>6, HeadsAre DEF HeadFields
    <3>7. CASE k = 6
      BY <2>1, <3>1, <3>7, HeadsAre DEF HeadFields
    <3>8. CASE k = 7
      BY <2>1, <3>1, <3>8, HeadsAre DEF HeadFields
    <3> QED
      BY <3>2, <3>3, <3>4, <3>5, <3>6, <3>7, <3>8
  <2> QED
    BY <1>3, <1>4, <2>2 DEF Seg
<1>10. Begins(Cell, s, t)
  <2>1. ASSUME NEW k \in 1..7 PROVE s[k] = t[k] \/ \A i \in k + 1..8 : s[i] = <<>>
    <3> SUFFICES ASSUME s[k] # t[k], NEW i \in k + 1..8 PROVE s[i] = <<>>
      OBVIOUS
    <3>1. PICK j \in 1..k : f = VKHead[j]
      BY <1>9
    <3>2. f \in HeadFields
      BY <3>1, HeadsAre DEF HeadFields
    <3>3. CASE i = 8
      BY <1>7, <3>2, <3>3
    <3>4. CASE i # 8
      <4>1. i \in 1..7 /\ i > j /\ j \in 1..7
        BY <3>4
      <4> QED
        BY <1>8, <3>1, <4>1
    <3> QED
      BY <3>3, <3>4
  <2>2. ASSUME NEW k \in 1..8
        PROVE  Pre(s[k], t[k]) /\ (s[k] = t[k] \/ \A i \in k + 1..8 : s[i] = <<>>)
    <3>1. CASE k = 8
      <4>1. \A i \in 9..8 : FALSE
        OBVIOUS
      <4> QED
        BY <1>5, <3>1, <4>1
    <3>2. CASE k # 8
      BY <1>6, <2>1, <3>2
    <3> QED
      BY <3>1, <3>2
  <2> QED
    BY <1>3, <1>4, <2>2 DEF Begins
<1>11. Pre(FlattenSeq(s), FlattenSeq(t))
  BY <1>10, FlatPre
<1> QED
  BY <1>11 DEF Part, s, t

\* The same for the fields of the proof,
LEMMA ProofSame ==
  ASSUME NEW g, Typed(g), NEW w, Typed(w), Agree(g, w), ProofStage("end", w), NEW f, ProofStage(f, g)
  PROVE  /\ f # "a" => g["a"] = w["a"]
         /\ f \notin {"a", "b"} => g["b"] = w["b"]
         /\ f \notin {"a", "b", "c"} => g["c"] = w["c"]
         /\ f \notin ProofHeads => g["proof_nC"] = w["proof_nC"]
         /\ f \in {"pok", "end"} => g["commitment"] = w["commitment"] /\ g["uncompressed"] = w["uncompressed"]
         /\ f = "end" => g["pok"] = w["pok"]
<1>1. /\ Len(w["a"]) = 1 /\ Len(w["b"]) = 1 /\ Len(w["c"]) = 1 /\ Len(w["proof_nC"]) = 1
      /\ Len(w["commitment"]) = w["proof_nC"][1] /\ Len(w["uncompressed"]) = Len(w["commitment"])
      /\ Len(w["pok"]) = 1
  BY DEF ProofStage, ProofHeads, CopiesStage
<1>2. /\ f # "a" => Len(g["a"]) = 1
      /\ f \notin {"a", "b"} => Len(g["b"]) = 1
      /\ f \notin {"a", "b", "c"} => Len(g["c"]) = 1
      /\ f \notin ProofHeads => Len(g["proof_nC"]) = 1
      /\ f \in {"pok", "end"} => /\ Len(g["commitment"]) = g["proof_nC"][1]
                                 /\ Len(g["uncompressed"]) = Len(g["commitment"])
      /\ f = "end" => Len(g["pok"]) = 1
  BY DEF ProofStage, CopiesStage
<1>3. \A h \in {"a", "b", "c", "proof_nC", "commitment", "uncompressed", "pok"} :
        Len(g[h]) = Len(w[h]) => g[h] = w[h]
  BY SingleSame, KindIs
<1>4. f \notin ProofHeads => g["proof_nC"] = w["proof_nC"]
  BY <1>1, <1>2, <1>3
<1>5. f \in {"pok", "end"} => g["commitment"] = w["commitment"] /\ g["uncompressed"] = w["uncompressed"]
  <2> HAVE f \in {"pok", "end"}
  <2>1. g["proof_nC"] = w["proof_nC"]
    BY <1>4 DEF ProofHeads
  <2>2. g["commitment"] = w["commitment"]
    BY <1>1, <1>2, <1>3, <2>1
  <2> QED
    BY <1>1, <1>2, <1>3, <2>2
<1> QED
  BY <1>1, <1>2, <1>3, <1>4, <1>5

\* What was read of a proof begins its file.
LEMMA ProofPre ==
  ASSUME NEW g, Typed(g), NEW w, Full(w), Agree(g, w), NEW f, ProofStage(f, g)
  PROVE  Pre(Part("proof", g), Part("proof", w))
<1> DEFINE s == ProofParts(g)
           t == ProofParts(w)
<1>1. /\ Typed(w) /\ ProofStage("end", w) /\ CopiesStage(f, g) /\ Len(w["commitment"]) <= 1
      /\ f \in ProofFields \cup {"end"}
  BY DEF Full, ProofStage
<1>2. \A k \in 1..4 : ProofHead[k] \in Names \ {"committed_index"}
  BY HeadNames
<1>a. "pok" \in Names \ {"committed_index"} /\ "commitment" \in Names
  BY KindIs
<1>3. /\ s \in Seq(Seq(Cell)) /\ Len(s) = 6 /\ \A k \in 1..4 : s[k] = Seg(g, ProofHead[k])
      /\ s[5] = FlattenSeq(Copies(g)) /\ s[6] = Seg(g, "pok")
  BY PartsTyped
<1>4. /\ t \in Seq(Seq(Cell)) /\ Len(t) = 6 /\ \A k \in 1..4 : t[k] = Seg(w, ProofHead[k])
      /\ t[5] = FlattenSeq(Copies(w)) /\ t[6] = Seg(w, "pok")
  BY <1>1, PartsTyped
<1>b. /\ f # "a" => g["a"] = w["a"]
      /\ f \notin {"a", "b"} => g["b"] = w["b"]
      /\ f \notin {"a", "b", "c"} => g["c"] = w["c"]
      /\ f \notin ProofHeads => g["proof_nC"] = w["proof_nC"]
      /\ f \in {"pok", "end"} => g["commitment"] = w["commitment"] /\ g["uncompressed"] = w["uncompressed"]
  BY <1>1, ProofSame
<1> HIDE DEF s, t
<1>5. Pre(s[5], t[5])
  BY <1>1, <1>3, <1>4, CopiesPre
<1>6. Pre(s[6], t[6])
  <2>1. Pre(g["pok"], w["pok"])
    BY <1>a DEF Agree
  <2>2. Pre(Seg(g, "pok"), Seg(w, "pok"))
    BY <1>1, <1>a, <2>1, SegPre
  <2> QED
    BY <1>3, <1>4, <2>2
<1>7. \A k \in 1..4 : Pre(s[k], t[k])
  <2> SUFFICES ASSUME NEW k \in 1..4 PROVE Pre(s[k], t[k])
    OBVIOUS
  <2>1. Pre(g[ProofHead[k]], w[ProofHead[k]])
    BY <1>2 DEF Agree
  <2>2. Pre(Seg(g, ProofHead[k]), Seg(w, ProofHead[k]))
    BY <1>1, <1>2, <2>1, SegPre
  <2> QED
    BY <1>3, <1>4, <2>2
<1>8. f # "end" => s[6] = <<>>
  <2> HAVE f # "end"
  <2>1. Len(g["pok"]) = 0
    BY DEF ProofStage
  <2>2. g["pok"] = <<>>
    BY <1>a, <2>1, EmptySeq DEF Typed
  <2> QED
    BY <1>3, <2>2, SegEmpty
<1>9. f \in ProofHeads => s[5] = <<>>
  <2> HAVE f \in ProofHeads
  <2>1. Len(g["commitment"]) = 0
    BY DEF ProofStage
  <2>2. g["commitment"] = <<>>
    BY <1>a, <2>1, EmptySeq DEF Typed
  <2> QED
    BY <1>3, <2>2, CopiesEmpty
<1>10. f \in {"pok", "end"} => s[5] = t[5]
  <2> HAVE f \in {"pok", "end"}
  <2>1. g["commitment"] = w["commitment"] /\ g["uncompressed"] = w["uncompressed"]
    BY <1>b
  <2>2. \A j : CopyParts(g, j) = CopyParts(w, j)
    BY <2>1 DEF CopyParts, Opt
  <2>3. Copies(g) = Copies(w)
    BY <2>1, <2>2 DEF Copies
  <2> QED
    BY <1>3, <1>4, <2>3
<1>11. \A k \in 1..4 : f = ProofHead[k] => \A j \in 1..4 : j > k => s[j] = <<>>
  <2> SUFFICES ASSUME NEW k \in 1..4, f = ProofHead[k], NEW j \in 1..4, j > k PROVE s[j] = <<>>
    OBVIOUS
  <2>1. Len(g[ProofHead[j]]) = 0
    BY ProofLater
  <2>2. g[ProofHead[j]] = <<>>
    BY <1>2, <2>1, EmptySeq DEF Typed
  <2> QED
    BY <1>3, <2>2, SegEmpty
<1>12. \A k \in 1..4 : (f \notin {ProofHead[j] : j \in 1..k}) => s[k] = t[k]
  <2> SUFFICES ASSUME NEW k \in 1..4, f \notin {ProofHead[j] : j \in 1..k} PROVE s[k] = t[k]
    OBVIOUS
  <2>1. \A j \in 1..4 : j <= k => f # ProofHead[j]
    OBVIOUS
  <2>2. g[ProofHead[k]] = w[ProofHead[k]]
    <3>2. CASE k = 1
      BY <1>b, <2>1, <3>2, HeadsAre
    <3>3. CASE k = 2
      BY <1>b, <2>1, <3>3, HeadsAre
    <3>4. CASE k = 3
      BY <1>b, <2>1, <3>4, HeadsAre
    <3>5. CASE k = 4
      BY <1>b, <2>1, <3>5, HeadsAre DEF ProofHeads
    <3> QED
      BY <3>2, <3>3, <3>4, <3>5
  <2> QED
    BY <1>3, <1>4, <2>2 DEF Seg
<1>13. Begins(Cell, s, t)
  <2>1. ASSUME NEW k \in 1..4 PROVE s[k] = t[k] \/ \A i \in k + 1..6 : s[i] = <<>>
    <3> SUFFICES ASSUME s[k] # t[k], NEW i \in k + 1..6 PROVE s[i] = <<>>
      OBVIOUS
    <3>1. PICK j \in 1..k : f = ProofHead[j]
      BY <1>12
    <3>2. f \in ProofHeads /\ f # "end"
      BY <3>1, HeadsAre DEF ProofHeads
    <3>3. CASE i = 6
      BY <1>8, <3>2, <3>3
    <3>4. CASE i = 5
      BY <1>9, <3>2, <3>4
    <3>5. CASE i # 5 /\ i # 6
      <4>1. i \in 1..4 /\ i > j /\ j \in 1..4
        BY <3>5
      <4> QED
        BY <1>11, <3>1, <4>1
    <3> QED
      BY <3>3, <3>4, <3>5
  <2>2. s[5] = t[5] \/ s[6] = <<>>
    BY <1>8, <1>10
  <2>3. ASSUME NEW k \in 1..6
        PROVE  Pre(s[k], t[k]) /\ (s[k] = t[k] \/ \A i \in k + 1..6 : s[i] = <<>>)
    <3>1. CASE k = 6
      <4>1. \A i \in 7..6 : FALSE
        OBVIOUS
      <4> QED
        BY <1>6, <3>1, <4>1
    <3>2. CASE k = 5
      <4>1. \A i \in 6..6 : i = 6
        OBVIOUS
      <4> QED
        BY <1>5, <2>2, <3>2, <4>1
    <3>3. CASE k # 5 /\ k # 6
      BY <1>7, <2>1, <3>3
    <3> QED
      BY <3>1, <3>2, <3>3
  <2> QED
    BY <1>3, <1>4, <2>3 DEF Begins
<1>14. Pre(FlattenSeq(s), FlattenSeq(t))
  BY <1>13, FlatPre
<1> QED
  BY <1>14 DEF Part, s, t

\* The same for the public inputs.
LEMMA PublicSame ==
  ASSUME NEW g, Typed(g), NEW w, Typed(w), Agree(g, w), PublicStage("end", w), NEW f, PublicStage(f, g)
  PROVE  /\ f # "n_inner" => g["n_inner"] = w["n_inner"]
         /\ f \notin {"n_inner", "n_limbs"} => g["n_limbs"] = w["n_limbs"]
         /\ f = "end" => g["scalar"] = w["scalar"]
<1>1. /\ Len(w["n_inner"]) = 1 /\ Len(w["n_limbs"]) = 1 /\ Len(w["scalar"]) = w["n_inner"][1]
  BY DEF PublicStage
<1>2. /\ f # "n_inner" => Len(g["n_inner"]) = 1
      /\ f \notin {"n_inner", "n_limbs"} => Len(g["n_limbs"]) = 1
      /\ f = "end" => Len(g["scalar"]) = g["n_inner"][1]
  BY DEF PublicStage
<1>3. \A h \in {"n_inner", "n_limbs", "scalar"} : Len(g[h]) = Len(w[h]) => g[h] = w[h]
  BY SingleSame, KindIs
<1>4. f # "n_inner" => g["n_inner"] = w["n_inner"]
  BY <1>1, <1>2, <1>3
<1> QED
  BY <1>1, <1>2, <1>3, <1>4

\* What was read of the public inputs begins their file.
LEMMA PublicPre ==
  ASSUME NEW g, Typed(g), NEW w, Full(w), Agree(g, w), NEW f, PublicStage(f, g)
  PROVE  Pre(Part("public", g), Part("public", w))
<1> DEFINE s == PublicParts(g)
           t == PublicParts(w)
<1>1. Typed(w) /\ PublicStage("end", w) /\ f \in PublicFields \cup {"end"}
  BY DEF Full, PublicStage
<1>2. \A k \in 1..3 : PublicHead[k] \in Names \ {"committed_index"}
  BY HeadNames
<1>3. s \in Seq(Seq(Cell)) /\ Len(s) = 3 /\ \A k \in 1..3 : s[k] = Seg(g, PublicHead[k])
  BY PartsTyped
<1>4. t \in Seq(Seq(Cell)) /\ Len(t) = 3 /\ \A k \in 1..3 : t[k] = Seg(w, PublicHead[k])
  BY <1>1, PartsTyped
<1> HIDE DEF s, t
<1>5. \A k \in 1..3 : Pre(s[k], t[k])
  <2> SUFFICES ASSUME NEW k \in 1..3 PROVE Pre(s[k], t[k])
    OBVIOUS
  <2>1. Pre(g[PublicHead[k]], w[PublicHead[k]])
    BY <1>2 DEF Agree
  <2>2. Pre(Seg(g, PublicHead[k]), Seg(w, PublicHead[k]))
    BY <1>1, <1>2, <2>1, SegPre
  <2> QED
    BY <1>3, <1>4, <2>2
<1>6. /\ f # "n_inner" => s[1] = t[1]
      /\ f \notin {"n_inner", "n_limbs"} => s[2] = t[2]
  <2>1. /\ f # "n_inner" => g["n_inner"] = w["n_inner"]
        /\ f \notin {"n_inner", "n_limbs"} => g["n_limbs"] = w["n_limbs"]
    BY <1>1, PublicSame
  <2>2. /\ s[1] = Seg(g, "n_inner") /\ s[2] = Seg(g, "n_limbs")
        /\ t[1] = Seg(w, "n_inner") /\ t[2] = Seg(w, "n_limbs")
    BY <1>3, <1>4, HeadsAre
  <2> QED
    BY <2>1, <2>2 DEF Seg
<1>7. /\ f = "n_inner" => s[2] = <<>> /\ s[3] = <<>>
      /\ f = "n_limbs" => s[3] = <<>>
  <2>1. \A k \in 1..3 : f = PublicHead[k] => \A j \in 1..3 : j > k => s[j] = <<>>
    <3> SUFFICES ASSUME NEW k \in 1..3, f = PublicHead[k], NEW j \in 1..3, j > k PROVE s[j] = <<>>
      OBVIOUS
    <3>1. Len(g[PublicHead[j]]) = 0
      BY PublicLater
    <3>2. g[PublicHead[j]] = <<>>
      BY <1>2, <3>1, EmptySeq DEF Typed
    <3> QED
      BY <1>3, <3>2, SegEmpty
  <2> QED
    BY <2>1, HeadsAre
<1>8. Begins(Cell, s, t)
  <2>1. ASSUME NEW k \in 1..3
        PROVE  Pre(s[k], t[k]) /\ (s[k] = t[k] \/ \A i \in k + 1..3 : s[i] = <<>>)
    <3>1. CASE k = 1
      <4>1. \A i \in 2..3 : i = 2 \/ i = 3
        OBVIOUS
      <4> QED
        BY <1>5, <1>6, <1>7, <3>1, <4>1
    <3>2. CASE k = 2
      <4>1. \A i \in 3..3 : i = 3
        OBVIOUS
      <4> QED
        BY <1>5, <1>6, <1>7, <3>2, <4>1
    <3>3. CASE k = 3
      <4>1. \A i \in 4..3 : FALSE
        OBVIOUS
      <4> QED
        BY <1>5, <3>3, <4>1
    <3> QED
      BY <3>1, <3>2, <3>3
  <2> QED
    BY <1>3, <1>4, <2>1 DEF Begins
<1>9. Pre(FlattenSeq(s), FlattenSeq(t))
  BY <1>8, FlatPre
<1> QED
  BY <1>9 DEF Part, s, t

\* What was read of a file begins it, whichever it is.
LEMMA PartPre ==
  ASSUME NEW g, Typed(g), NEW w, Full(w), Agree(g, w), NEW b \in Blobs, NEW f, Stage(b, f, g)
  PROVE  Pre(Part(b, g), Part(b, w))
<1>1. CASE b = "vk"
  BY <1>1, VKPre DEF Stage
<1>2. CASE b = "proof"
  BY <1>2, ProofPre DEF Stage
<1>3. CASE b = "public"
  BY <1>3, PublicPre DEF Stage
<1> QED
  BY <1>1, <1>2, <1>3, BlobsAre

\* A file that was read to its end has the values it was written with.
LEMMA FileSame ==
  ASSUME NEW g, Typed(g), NEW w, Full(w), Agree(g, w), NEW b \in Blobs, Stage(b, "end", g)
  PROVE  \A h \in Fields(b) : g[h] = w[h]
<1>1. Typed(w) /\ VKStage("end", w) /\ ProofStage("end", w) /\ PublicStage("end", w)
  BY DEF Full
<1>2. CASE b = "vk"
  <2>1. VKStage("end", g)
    BY <1>2 DEF Stage
  <2>2. /\ HeadStage("end", w) /\ HeadStage("end", g) /\ KeysCount("end", g) /\ KeysStage("end", g)
        /\ KeysCount("end", w) /\ KeysStage("end", w)
    BY <1>1, <2>1 DEF VKStage
  <2>3. \A h \in HeadFields : g[h] = w[h]
    <3>1. /\ g["alpha"] = w["alpha"] /\ g["beta"] = w["beta"] /\ g["gamma"] = w["gamma"]
          /\ g["delta"] = w["delta"] /\ g["ic_count"] = w["ic_count"] /\ g["ic"] = w["ic"]
          /\ g["vk_nC"] = w["vk_nC"]
      BY <1>1, <2>2, HeadSame DEF HeadFields
    <3> QED
      BY <3>1 DEF HeadFields
  <2>4. /\ Len(g["pedersen_G"]) = Len(w["pedersen_G"])
        /\ Len(g["pedersen_GSigmaNeg"]) = Len(w["pedersen_GSigmaNeg"])
        /\ Len(g["committed_count"]) = Len(w["committed_count"])
        /\ Len(g["committed_index"]) = Len(w["committed_index"])
    <3>1. /\ Len(g["pedersen_G"]) = g["vk_nC"][1] /\ Len(w["pedersen_G"]) = w["vk_nC"][1]
      BY <2>2 DEF KeysCount
    <3>2. /\ Len(g["pedersen_GSigmaNeg"]) = Len(g["pedersen_G"])
          /\ Len(g["committed_count"]) = Len(g["pedersen_G"])
          /\ Len(g["committed_index"]) = Len(g["committed_count"])
          /\ Len(w["pedersen_GSigmaNeg"]) = Len(w["pedersen_G"])
          /\ Len(w["committed_count"]) = Len(w["pedersen_G"])
          /\ Len(w["committed_index"]) = Len(w["committed_count"])
      BY <2>2 DEF KeysStage
    <3>3. g["vk_nC"] = w["vk_nC"]
      BY <2>3 DEF HeadFields
    <3> QED
      BY <3>1, <3>2, <3>3
  <2>5. \A h \in KeyFields \ {"committed_index"} : g[h] = w[h]
    <3>1. \A h \in KeyFields \ {"committed_index"} : h \in Names \ {"committed_index"}
      BY KindIs DEF KeyFields
    <3>2. \A h \in KeyFields \ {"committed_index"} : Len(g[h]) = Len(w[h])
      BY <2>4 DEF KeyFields
    <3> QED
      BY <1>1, <3>1, <3>2, SingleSame
  <2>6. g["committed_index"] = w["committed_index"]
    <3> DEFINE s == g["committed_index"]
               t == w["committed_index"]
               m == Len(s)
    <3>1. s \in Seq(Seq(U32)) /\ t \in Seq(Seq(U32)) /\ Len(t) = m
      BY <1>1, <2>4, KindIs, ReadIs DEF Typed
    <3>2. ASSUME NEW j \in 1..m PROVE s[j] = t[j]
      <4>1. Len(s[j]) = g["committed_count"][j] /\ Len(t[j]) = w["committed_count"][j]
        <5>1. j \in 1..Len(w["committed_index"])
          BY <2>4
        <5> QED
          BY <2>2, <5>1 DEF KeysStage
      <4>2. g["committed_count"] = w["committed_count"]
        BY <2>5 DEF KeyFields
      <4>3. Pre(s[j], t[j])
        BY DEF Agree
      <4>4. s[j] \in Seq(U32) /\ t[j] \in Seq(U32)
        BY <3>1
      <4> HIDE DEF s, t
      <4> QED
        BY <4>1, <4>2, <4>3, <4>4, PreWhole
    <3> HIDE DEF s, t
    <3>3. List(s, m) /\ List(t, m)
      BY <3>1, SeqList
    <3>4. s = t
      BY <3>2, <3>3, ListSame
    <3> QED
      BY <3>4 DEF s, t
  <2> QED
    BY <1>2, <2>3, <2>5, <2>6 DEF Fields, VKFields
<1>3. CASE b = "proof"
  <2>1. ProofStage("end", g)
    BY <1>3 DEF Stage
  <2>2. /\ g["a"] = w["a"] /\ g["b"] = w["b"] /\ g["c"] = w["c"] /\ g["proof_nC"] = w["proof_nC"]
        /\ g["commitment"] = w["commitment"] /\ g["uncompressed"] = w["uncompressed"]
        /\ g["pok"] = w["pok"]
    BY <1>1, <2>1, ProofSame DEF ProofHeads
  <2> QED
    BY <1>3, <2>2 DEF Fields, ProofFields, ProofHeads, CopyFields
<1>4. CASE b = "public"
  <2>1. PublicStage("end", g)
    BY <1>4 DEF Stage
  <2>2. g["n_inner"] = w["n_inner"] /\ g["n_limbs"] = w["n_limbs"] /\ g["scalar"] = w["scalar"]
    BY <1>1, <2>1, PublicSame
  <2> QED
    BY <1>4, <2>2 DEF Fields, PublicFields
<1> QED
  BY <1>2, <1>3, <1>4, BlobsAre

\* The field that is read next has a value that was not read yet.
LEMMA MoreToRead ==
  ASSUME NEW g, Typed(g), NEW w, Full(w), Agree(g, w), NEW b \in Blobs, NEW f \in Fields(b),
         Stage(b, f, g)
  PROVE  /\ f # "committed_index" => Len(g[f]) < Len(w[f])
         /\ f = "committed_index" =>
              LET n == Len(g[f]) IN
              n \in 1..Len(w[f]) /\ Len(g[f]) = n /\ Len(g[f][n]) < Len(w[f][n])
         /\ f = "committed_count" => Len(g["committed_index"]) < Len(w["committed_index"])
<1>1. Typed(w) /\ VKStage("end", w) /\ ProofStage("end", w) /\ PublicStage("end", w)
  BY DEF Full
<1>c. \A h \in Names : Len(g[h]) \in Nat /\ Len(w[h]) \in Nat
  BY <1>1, CountsAre
<1>2. CASE b = "vk"
  <2>1. VKStage(f, g) /\ f \in VKFields
    BY <1>2 DEF Stage, Fields
  <2>2. /\ HeadStage("end", w) /\ HeadStage(f, g) /\ KeysCount(f, g) /\ KeysStage(f, g)
        /\ KeysCount("end", w) /\ KeysStage("end", w)
    BY <1>1, <2>1 DEF VKStage
  <2>3. /\ Len(w["alpha"]) = 1 /\ Len(w["beta"]) = 1 /\ Len(w["gamma"]) = 1 /\ Len(w["delta"]) = 1
        /\ Len(w["ic_count"]) = 1 /\ Len(w["ic"]) = w["ic_count"][1] /\ Len(w["vk_nC"]) = 1
    BY <2>2 DEF HeadStage, HeadFields
  <2>4. /\ f \notin HeadFields \ {"ic", "vk_nC"} => g["ic_count"] = w["ic_count"]
        /\ f \notin HeadFields => g["vk_nC"] = w["vk_nC"]
    BY <1>1, <2>2, HeadSame
  <2>5. CASE f \in HeadFields \ {"ic"}
    <3>1. Len(g[f]) = 0 /\ Len(w[f]) = 1
      BY <2>2, <2>3, <2>5 DEF HeadStage, HeadFields
    <3> QED
      BY <2>5, <3>1 DEF HeadFields
  <2>6. CASE f = "ic"
    <3>1. Len(g["ic"]) < g["ic_count"][1]
      BY <2>2, <2>6 DEF HeadStage
    <3>2. g["ic_count"] = w["ic_count"]
      BY <2>4, <2>6
    <3> QED
      BY <2>3, <2>6, <3>1, <3>2
  <2>7. CASE f \in KeyFields
    <3> DEFINE n == Len(g["pedersen_G"])
               m == Len(w["pedersen_G"])
    <3>1. f \notin HeadFields
      BY <2>7 DEF KeyFields, HeadFields
    <3>2. g["vk_nC"] = w["vk_nC"] /\ m = w["vk_nC"][1]
      BY <2>2, <2>4, <3>1 DEF KeysCount
    <3>3. /\ Len(w["pedersen_GSigmaNeg"]) = m /\ Len(w["committed_count"]) = m
          /\ Len(w["committed_index"]) = m
      BY <2>2 DEF KeysStage
    <3>4. n \in Nat /\ m \in Nat /\ n <= m /\ (f = "pedersen_G" => n < m)
      <4>1. n <= g["vk_nC"][1] /\ (f = "pedersen_G" => n < g["vk_nC"][1])
        BY <2>2, <2>7 DEF KeysCount
      <4>2. "pedersen_G" \in Names
        BY KindIs
      <4> QED
        BY <1>c, <3>2, <4>1, <4>2
    <3>5. CASE f = "pedersen_G"
      BY <3>4, <3>5
    <3>6. CASE f = "pedersen_GSigmaNeg"
      <4>1. Len(g["pedersen_GSigmaNeg"]) = n - 1
        BY <2>2, <3>6 DEF KeysStage
      <4> QED
        BY <3>3, <3>4, <3>6, <4>1
    <3>7. CASE f = "committed_count"
      <4>1. Len(g["committed_count"]) = n - 1 /\ Len(g["committed_index"]) = n - 1
        BY <2>2, <3>7 DEF KeysStage
      <4> QED
        BY <3>3, <3>4, <3>7, <4>1
    <3>8. CASE f = "committed_index"
      <4>1. /\ n >= 1 /\ Len(g["committed_index"]) = n /\ Len(g["committed_count"]) = n
            /\ Len(g["committed_index"][n]) < g["committed_count"][n]
        <5>1. n >= 1 /\ Len(g["committed_index"]) = n /\ Len(g["committed_count"]) = n
          BY <2>2, <3>8 DEF KeysStage, KeyFields
        <5>2. n \in 1..Len(g["committed_index"])
          BY <3>4, <5>1
        <5>3. Len(g["committed_index"][n]) < g["committed_count"][n]
          BY <2>2, <3>8, <5>2 DEF KeysStage
        <5> QED
          BY <5>1, <5>3
      <4>2. g["committed_count"][n] = w["committed_count"][n]
        <5>1. "committed_count" \in Names \ {"committed_index"}
          BY KindIs
        <5>2. Pre(g["committed_count"], w["committed_count"])
          BY <5>1 DEF Agree
        <5>3. n \in 1..Len(g["committed_count"])
          BY <3>4, <4>1
        <5> QED
          BY <5>2, <5>3 DEF Pre
      <4>3. Len(w["committed_index"][n]) = w["committed_count"][n]
        <5>1. n \in 1..Len(w["committed_index"])
          BY <3>3, <3>4, <4>1
        <5> QED
          BY <2>2, <5>1 DEF KeysStage
      <4> QED
        BY <3>3, <3>4, <3>8, <4>1, <4>2, <4>3
    <3> QED
      BY <2>7, <3>5, <3>6, <3>7, <3>8 DEF KeyFields
  <2> QED
    BY <2>1, <2>5, <2>6, <2>7 DEF VKFields
<1>3. CASE b = "proof"
  <2>1. ProofStage(f, g) /\ f \in ProofFields
    BY <1>3 DEF Stage, Fields
  <2>2. /\ Len(w["a"]) = 1 /\ Len(w["b"]) = 1 /\ Len(w["c"]) = 1 /\ Len(w["proof_nC"]) = 1
        /\ Len(w["commitment"]) = w["proof_nC"][1] /\ Len(w["uncompressed"]) = Len(w["commitment"])
        /\ Len(w["pok"]) = 1
    BY <1>1 DEF ProofStage, ProofHeads, CopiesStage
  <2>3. CASE f \in ProofHeads \cup {"pok"}
    <3>1. Len(g[f]) = 0 /\ Len(w[f]) = 1
      BY <2>1, <2>2, <2>3 DEF ProofStage, ProofHeads
    <3> QED
      BY <2>3, <3>1 DEF ProofHeads
  <2>4. CASE f \in CopyFields
    <3>1. g["proof_nC"] = w["proof_nC"]
      BY <1>1, <2>1, <2>4, ProofSame DEF ProofHeads, CopyFields
    <3>2. "commitment" \in Names
      BY KindIs
    <3>3. CASE f = "commitment"
      <4>1. Len(g["commitment"]) < g["proof_nC"][1]
        BY <2>1, <3>3 DEF ProofStage
      <4> QED
        BY <2>2, <3>1, <3>3, <4>1
    <3>4. CASE f = "uncompressed"
      <4>1. /\ Len(g["commitment"]) <= g["proof_nC"][1]
            /\ Len(g["uncompressed"]) = Len(g["commitment"]) - 1
        BY <2>1, <3>4 DEF ProofStage, CopiesStage, CopyFields
      <4> QED
        BY <1>c, <2>2, <3>1, <3>2, <3>4, <4>1
    <3> QED
      BY <2>4, <3>3, <3>4 DEF CopyFields
  <2> QED
    BY <2>1, <2>3, <2>4 DEF ProofFields
<1>4. CASE b = "public"
  <2>1. PublicStage(f, g) /\ f \in PublicFields
    BY <1>4 DEF Stage, Fields
  <2>2. /\ Len(w["n_inner"]) = 1 /\ Len(w["n_limbs"]) = 1 /\ Len(w["scalar"]) = w["n_inner"][1]
    BY <1>1 DEF PublicStage
  <2>3. CASE f \in {"n_inner", "n_limbs"}
    <3>1. Len(g[f]) = 0 /\ Len(w[f]) = 1
      BY <2>1, <2>2, <2>3 DEF PublicStage
    <3> QED
      BY <2>3, <3>1
  <2>4. CASE f = "scalar"
    <3>1. Len(g["scalar"]) < g["n_inner"][1]
      BY <2>1, <2>4 DEF PublicStage
    <3>2. g["n_inner"] = w["n_inner"]
      BY <1>1, <2>1, <2>4, PublicSame
    <3> QED
      BY <2>2, <2>4, <3>1, <3>2
  <2> QED
    BY <2>1, <2>3, <2>4 DEF PublicFields
<1> QED
  BY <1>2, <1>3, <1>4, BlobsAre

\* A value of a field is written in cells that decode to it.
LEMMA CellsGood ==
  ASSUME NEW f \in Names, NEW x, IF f = "committed_index" THEN x \in U32 ELSE x \in Read[f]
  PROVE  Good(f, Cells(f, x)) /\ Item(f, Cells(f, x)) = x
<1>1. f # "committed_index" => Cells(f, x) \in Seq(Cell) /\ Len(Cells(f, x)) = Width(f)
  BY CellsAre
<1>2. f = "committed_index" => Cells(f, x) \in Seq(Cell) /\ Len(Cells(f, x)) = Width(f)
  <2> HAVE f = "committed_index"
  <2>1. Width(f) = 1 /\ x \in Cell
    BY WidthIs, ValuesAreCells
  <2>2. Cells(f, x) = <<x>>
    BY <2>1 DEF Cells
  <2>3. <<x>> \in Seq(Cell) /\ Len(<<x>>) = 1
    BY <2>1
  <2> QED
    BY <2>1, <2>2, <2>3
<1>3. Item(f, Cells(f, x)) = x
  BY DEF Item, Cells
<1>4. Decodes(f, Cells(f, x)) /\ (f = "uncompressed" => Cells(f, x) \in {Uncompressed(p) : p \in G1})
  <2>1. /\ \A h \in {"alpha", "ic", "a", "c", "commitment", "pok"} : Read[h] = G1 /\ Width(h) = 1
        /\ \A h \in {"beta", "gamma", "delta", "pedersen_G", "pedersen_GSigmaNeg", "b"} :
             Read[h] = G2 /\ Width(h) = 2
        /\ Read["scalar"] = Scalars /\ Width("scalar") = 1 /\ Width("uncompressed") = 2
        /\ Read["uncompressed"] = {Uncompressed(p) : p \in G1}
    BY ReadIs, WidthIs
  <2>2. CASE f \in {"alpha", "ic", "a", "c", "commitment", "pok"}
    <3>1. Cells(f, x) = <<x>> /\ x \in G1 /\ Kind[f] = "g1"
      BY <2>1, <2>2, KindIs DEF Cells
    <3> QED
      BY <2>2, <3>1 DEF Decodes
  <2>3. CASE f \in {"beta", "gamma", "delta", "pedersen_G", "pedersen_GSigmaNeg", "b"}
    <3>1. Cells(f, x) = x /\ x \in G2 /\ Kind[f] = "g2"
      BY <2>1, <2>3, KindIs DEF Cells
    <3> QED
      BY <2>3, <3>1 DEF Decodes
  <2>4. CASE f = "scalar"
    <3>1. Cells(f, x) = <<x>> /\ x \in Scalars /\ Kind[f] = "scalar"
      BY <2>1, <2>4, KindIs DEF Cells
    <3> QED
      BY <2>4, <3>1 DEF Decodes
  <2>5. CASE f = "uncompressed"
    <3>1. Cells(f, x) = x /\ x \in {Uncompressed(p) : p \in G1} /\ Kind[f] = "raw"
      BY <2>1, <2>5, KindIs DEF Cells
    <3> QED
      BY <2>5, <3>1 DEF Decodes
  <2>6. CASE f \in {"ic_count", "vk_nC", "committed_count", "committed_index", "proof_nC",
                    "n_inner", "n_limbs"}
    <3>1. Kind[f] = "u32"
      BY <2>6, KindIs
    <3> QED
      BY <2>6, <3>1 DEF Decodes
  <2> QED
    BY <2>2, <2>3, <2>4, <2>5, <2>6, KindIs
<1> QED
  BY <1>1, <1>2, <1>3, <1>4 DEF Good

\* The beginning of a sequence continued by its next element is one.
LEMMA PreAdd ==
  ASSUME NEW S, NEW s \in Seq(S), NEW t \in Seq(S), Pre(s, t), Len(s) < Len(t)
  PROVE  t[Len(s) + 1] \in S /\ Pre(Add(s, t[Len(s) + 1]), t)
<1> DEFINE n == Len(s)
           x == t[n + 1]
           u == Add(s, x)
<1>1. n \in Nat /\ Len(t) \in Nat /\ n < Len(t) /\ n + 1 \in 1..Len(t)
  OBVIOUS
<1>2. x \in S
  BY <1>1
<1> HIDE DEF x
<1>3. Len(u) = n + 1 /\ u[n + 1] = x /\ \A j \in 1..n : u[j] = s[j]
  BY <1>2, AddIs
<1> HIDE DEF u
<1>4. \A j \in 1..n : s[j] = t[j]
  BY DEF Pre
<1> HIDE DEF n
<1>5. \A j \in 1..n + 1 : u[j] = t[j]
  <2> SUFFICES ASSUME NEW j \in 1..n + 1 PROVE u[j] = t[j]
    OBVIOUS
  <2>1. CASE j = n + 1
    BY <1>3, <2>1 DEF x
  <2>2. CASE j # n + 1
    <3>1. j \in 1..n
      BY <1>1, <2>2
    <3> QED
      BY <1>3, <1>4, <3>1
  <2> QED
    BY <2>1, <2>2
<1>6. Pre(u, t)
  BY <1>1, <1>3, <1>5 DEF Pre
<1> QED
  BY <1>2, <1>6 DEF u, x, n

\* The value that is read next of a file whose values are w.
NextValue(w, g, f) ==
  IF f = "committed_index" THEN w[f][Len(g[f])][Len(g[f][Len(g[f])]) + 1]
  ELSE w[f][Len(g[f]) + 1]

\* Reading it keeps what was read the beginning of the file, and is not refused.
LEMMA NextIs ==
  ASSUME NEW g, Typed(g), NEW w, Full(w), Agree(g, w), NEW b \in Blobs, NEW f \in Fields(b),
         Stage(b, f, g)
  PROVE  LET v == Cells(f, NextValue(w, g, f)) IN
         /\ Good(f, v)
         /\ f = "n_limbs" => v = << 1 >>
         /\ f = "uncompressed" => v = Uncompressed(Last(g["commitment"]))
         /\ \A p : Typed(p) /\ OneMore(g, f, NextValue(w, g, f), p) => Agree(p, w)
<1> DEFINE x == NextValue(w, g, f)
           v == Cells(f, x)
           n == Len(g[f])
<1>1. /\ Typed(w) /\ f \in Names /\ \A h \in Names : g[h] \in Seq(Read[h]) /\ w[h] \in Seq(Read[h])
      /\ PublicStage("end", w) /\ ProofStage("end", w)
  BY FieldsAre DEF Full, Typed
<1>2. /\ f # "committed_index" => Len(g[f]) < Len(w[f])
      /\ f = "committed_index" => n \in 1..Len(w[f]) /\ Len(g[f][n]) < Len(w[f][n])
      /\ f = "committed_count" => Len(g["committed_index"]) < Len(w["committed_index"])
  BY MoreToRead
<1>3. ASSUME f = "committed_index"
      PROVE  /\ x \in U32 /\ Pre(Add(g[f][n], x), w[f][n]) /\ n \in 1..Len(w[f])
  <2> DEFINE s == g[f][n]
             t == w[f][n]
  <2>1. g[f] \in Seq(Seq(U32)) /\ w[f] \in Seq(Seq(U32))
    BY <1>1, <1>3, ReadIs
  <2>2. n \in 1..Len(w[f]) /\ n \in 1..Len(g[f]) /\ Len(s) < Len(t)
    BY <1>2, <1>3, <2>1
  <2>3. s \in Seq(U32) /\ t \in Seq(U32) /\ Pre(s, t)
    <3>1. s \in Seq(U32) /\ t \in Seq(U32)
      BY <2>1, <2>2
    <3>2. \A j \in 1..Len(g["committed_index"]) :
            Pre(g["committed_index"][j], w["committed_index"][j])
      BY DEF Agree
    <3>3. Pre(s, t)
      BY <1>3, <2>2, <3>2
    <3> QED
      BY <3>1, <3>3
  <2>4. x = t[Len(s) + 1]
    BY <1>3 DEF NextValue
  <2> HIDE DEF x, s, t
  <2>5. x \in U32 /\ Pre(Add(s, x), t)
    BY <2>2, <2>3, <2>4, PreAdd
  <2> QED
    BY <2>2, <2>5 DEF s, t
<1>4. ASSUME f # "committed_index"
      PROVE  x \in Read[f] /\ Pre(Add(g[f], x), w[f]) /\ x = w[f][n + 1] /\ n < Len(w[f])
  <2> DEFINE s == g[f]
             t == w[f]
             S == Read[f]
  <2>1. s \in Seq(S) /\ t \in Seq(S) /\ Len(s) < Len(t) /\ Pre(s, t)
    BY <1>1, <1>2, <1>4 DEF Agree
  <2>2. x = t[Len(s) + 1]
    BY <1>4 DEF NextValue
  <2> HIDE DEF x, s, t, S
  <2>3. x \in S /\ Pre(Add(s, x), t)
    BY <2>1, <2>2, PreAdd
  <2> QED
    BY <2>1, <2>2, <2>3 DEF s, t, S
<1> HIDE DEF x
<1>5. Good(f, v)
  BY <1>1, <1>3, <1>4, CellsGood
<1>6. f = "n_limbs" => v = << 1 >>
  <2> HAVE f = "n_limbs"
  <2>1. Len(w["n_limbs"]) = 1 /\ w["n_limbs"][1] = 1
    BY <1>1 DEF PublicStage
  <2>2. n \in Nat /\ n < 1 /\ x = w[f][n + 1]
    BY <1>1, <1>4, <2>1
  <2>3. x = 1
    BY <2>1, <2>2
  <2> QED
    BY <2>3, WidthIs DEF Cells
<1>7. f = "uncompressed" => v = Uncompressed(Last(g["commitment"]))
  <2> HAVE f = "uncompressed"
  <2>0. b = "proof"
    BY BlobsAre DEF Fields, VKFields, HeadFields, KeyFields, PublicFields
  <2>1. /\ Len(g["commitment"]) >= 1 /\ n = Len(g["commitment"]) - 1
    BY <2>0 DEF Stage, ProofStage, CopiesStage
  <2>2. n + 1 = Len(g["commitment"]) /\ n \in Nat /\ "commitment" \in Names \ {"committed_index"}
    BY <1>1, <2>1, KindIs
  <2>3. x = w["uncompressed"][n + 1] /\ n < Len(w["uncompressed"])
    BY <1>4
  <2>4. x = Uncompressed(w["commitment"][n + 1])
    <3>1. Len(w["uncompressed"]) \in Nat
      BY <1>1
    <3>2. n + 1 \in 1..Len(w["uncompressed"])
      BY <2>2, <2>3, <3>1
    <3>3. \A j \in 1..Len(w["uncompressed"]) :
            w["uncompressed"][j] = Uncompressed(w["commitment"][j])
      BY <1>1 DEF ProofStage
    <3> QED
      BY <2>3, <3>2, <3>3
  <2>5. w["commitment"][n + 1] = g["commitment"][n + 1]
    <3>1. Pre(g["commitment"], w["commitment"])
      BY <2>2 DEF Agree
    <3>2. n + 1 \in 1..Len(g["commitment"])
      BY <2>2
    <3> QED
      BY <3>1, <3>2 DEF Pre
  <2>6. Last(g["commitment"]) = g["commitment"][n + 1]
    BY <2>2 DEF Last
  <2>7. v = x
    BY WidthIs DEF Cells
  <2> QED
    BY <2>4, <2>5, <2>6, <2>7
<1>8. ASSUME NEW p, Typed(p), OneMore(g, f, x, p) PROVE Agree(p, w)
  <2>1. ASSUME NEW h \in Names \ {"committed_index"} PROVE Pre(p[h], w[h])
    <3>1. CASE h = f
      <4>1. p[f] = Add(g[f], x)
        BY <1>8, <3>1 DEF OneMore
      <4> QED
        BY <1>4, <3>1, <4>1
    <3>2. CASE h # f
      <4>1. p[h] = g[h]
        BY <1>8, <3>2 DEF OneMore
      <4> QED
        BY <4>1 DEF Agree
    <3> QED
      BY <3>1, <3>2
  <2> DEFINE s == g["committed_index"]
             q == p["committed_index"]
             t == w["committed_index"]
  <2>2. /\ s \in Seq(Seq(U32)) /\ t \in Seq(Seq(U32)) /\ Len(s) <= Len(t)
        /\ \A j \in 1..Len(s) : Pre(s[j], t[j])
    BY <1>1, KindIs, ReadIs DEF Agree
  <2>3. Len(q) <= Len(t) /\ \A j \in 1..Len(q) : Pre(q[j], t[j])
    <3>1. CASE f = "committed_count"
      <4>1. q = Add(s, <<>>) /\ Len(s) < Len(t)
        BY <1>2, <1>8, <3>1 DEF OneMore
      <4> HIDE DEF s, q, t
      <4>2. <<>> \in Seq(U32)
        OBVIOUS
      <4>3. Len(q) = Len(s) + 1 /\ q[Len(s) + 1] = <<>> /\ \A j \in 1..Len(s) : q[j] = s[j]
        <5> DEFINE S == Seq(U32)
                   e == <<>>
        <5>1. s \in Seq(S) /\ e \in S /\ q = Add(s, e)
          BY <2>2, <4>1, <4>2
        <5> HIDE DEF S, e
        <5>2. Len(q) = Len(s) + 1 /\ q[Len(s) + 1] = e
          BY <5>1, AddIs
        <5>3. \A j \in 1..Len(s) : q[j] = s[j]
          BY <5>1, AddKeeps
        <5> QED
          BY <5>2, <5>3 DEF e
      <4>4. Len(s) \in Nat /\ Len(t) \in Nat
        BY <2>2
      <4>5. ASSUME NEW j \in 1..Len(q) PROVE Pre(q[j], t[j])
        <5>1. CASE j = Len(s) + 1
          <6>1. t[j] \in Seq(U32)
            BY <2>2, <4>1, <4>4, <5>1
          <6> QED
            BY <4>3, <5>1, <6>1, PreSelf
        <5>2. CASE j # Len(s) + 1
          <6>1. j \in 1..Len(s)
            BY <4>3, <4>4, <5>2
          <6> QED
            BY <2>2, <4>3, <6>1
        <5> QED
          BY <5>1, <5>2
      <4> QED
        BY <4>1, <4>3, <4>4, <4>5
    <3>2. CASE f = "committed_index"
      <4>1. Len(q) = Len(s) /\ q[n] = Add(s[n], x) /\ \A j \in 1..Len(s) - 1 : q[j] = s[j]
        BY <1>8, <3>2 DEF OneMore
      <4>2. Pre(Add(s[n], x), t[n]) /\ n = Len(s) /\ n \in Nat
        BY <1>3, <2>2, <3>2
      <4> HIDE DEF s, q, t, n
      <4>3. ASSUME NEW j \in 1..Len(q) PROVE Pre(q[j], t[j])
        <5>1. CASE j = n
          BY <4>1, <4>2, <5>1
        <5>2. CASE j # n
          <6>1. j \in 1..Len(s) - 1 /\ j \in 1..Len(s)
            BY <4>1, <4>2, <5>2
          <6> QED
            BY <2>2, <4>1, <6>1
        <5> QED
          BY <5>1, <5>2
      <4> QED
        BY <2>2, <4>1, <4>3
    <3>3. CASE f \notin {"committed_count", "committed_index"}
      <4>1. q = s
        BY <1>8, <3>3, KindIs DEF OneMore
      <4> HIDE DEF s, q, t
      <4> QED
        BY <2>2, <4>1
    <3> QED
      BY <3>1, <3>2, <3>3
  <2> QED
    BY <2>1, <2>3 DEF Agree
<1> QED
  BY <1>5, <1>6, <1>7, <1>8 DEF x

-----------------------------------------------------------------------------
(* They are accepted                                                       *)

\* The files of an artifact of a shape both sides support, and nothing has touched them.
Honest == intact /\ written.limbs = 1 /\ Len(written.vk.keys) <= 1

\* Of the files nothing has touched, what was read is what was written, and nothing was refused.
HonestInv ==
  /\ pc = "write" => ~intact
  /\ intact => files = Encoded(written)
  /\ Honest => Agree(got, Whole(written)) /\ pc \notin Ends \ {"accepted"}

\* An artifact of that shape has all the values of its files.
LEMMA WholeFull ==
  ASSUME NEW w \in Artifacts, w.limbs = 1, Len(w.vk.keys) <= 1
  PROVE  Full(Whole(w)) /\ \A b \in Blobs : Encoded(w)[b] = Part(b, Whole(w))
<1>1. Typed(Whole(w)) /\ VKStage("end", Whole(w)) /\ ProofStage("end", Whole(w))
  BY WholeTyped, WholeVK, WholeProof
<1>2. PublicStage("end", Whole(w))
  BY WholePublic
<1>3. Len(Whole(w)["pedersen_G"]) <= 1 /\ Len(Whole(w)["commitment"]) <= 1
  <2> DEFINE n == Len(w.vk.keys)
             s == [j \in 1..n |-> w.vk.keys[j][1]]
  <2>1. w.vk.keys \in Seq(G2 \X G2) /\ Len(w.proof.commitments) = n
    BY Made
  <2>2. n \in Nat
    BY <2>1
  <2>3. Whole(w)["pedersen_G"] = s /\ Whole(w)["commitment"] = w.proof.commitments
    BY WholeFields
  <2>4. List(s, n)
    BY <2>2 DEF List
  <2> HIDE DEF s
  <2>5. Len(s) = n
    BY <2>4, ListLen
  <2> QED
    BY <2>1, <2>3, <2>5
<1>4. \A b \in Blobs : Encoded(w)[b] = Part(b, Whole(w))
  BY EncodedIs, BlobsAre
<1> QED
  BY <1>1, <1>2, <1>3, <1>4 DEF Full

\* A field of files that nothing has touched is read.
LEMMA HonestRead ==
  ASSUME CWInv, HonestInv, Honest, ReadField
  PROVE  pc' = pc /\ Agree(got', Whole(written))
<1> DEFINE W == Whole(written)
           b == blob
           f == field
           x == NextValue(W, got, f)
           v == Cells(f, x)
           next == pos + Width(f)
           u == SubSeq(files[b], pos + 1, next)
           p == Pushed(got, f, v)
<1>1. pc = "parse" /\ f # "end"
  BY DEF ReadField
<1>2. /\ TypeOK /\ Typed(got) /\ b \in Blobs /\ files[b] \in Seq(Cell) /\ written \in Artifacts
      /\ pos = Len(Part(b, got)) /\ Part(b, got) \in Seq(Cell)
      /\ Stage(b, f, got)
  BY TypedGot, PartTyped DEF CWInv, TypeOK, Progress, At
<1>3. f \in Fields(b) /\ f \in Names
  <2>1. f \in Fields(b)
    BY <1>1, <1>2 DEF Stage, Fields, VKStage, ProofStage, PublicStage
  <2> QED
    BY <2>1, FieldsAre
<1>4. Full(W) /\ files[b] = Part(b, W) /\ Agree(got, W)
  BY <1>2, WholeFull DEF Honest, HonestInv
<1> HIDE DEF W, b, f
<1>5. /\ Good(f, v) /\ (f = "n_limbs" => v = << 1 >>)
      /\ (f = "uncompressed" => v = Uncompressed(Last(got["commitment"])))
      /\ \A q : Typed(q) /\ OneMore(got, f, x, q) => Agree(q, W)
  BY <1>2, <1>3, <1>4, NextIs
<1>6. Item(f, v) = x
  BY DEF Item, Cells
<1> HIDE DEF v, x
<1>7. /\ Typed(p) /\ OneMore(got, f, x, p) /\ Part(b, p) = Cat(Part(b, got), v)
      /\ Stage(b, After(f, p), p)
  BY <1>2, <1>3, <1>5, <1>6, FieldRead
<1> HIDE DEF p
<1>8. Agree(p, W)
  BY <1>5, <1>7
<1>9. Pre(Part(b, p), files[b])
  BY <1>2, <1>4, <1>7, <1>8, PartPre
<1>10. ~(next > Len(files[b])) /\ u = v
  <2> DEFINE s == Part(b, got)
             t == files[b]
             m == Width(f)
  <2>1. /\ s \in Seq(Cell) /\ t \in Seq(Cell) /\ v \in Seq(Cell) /\ Len(v) = m /\ pos = Len(s)
        /\ Pre(Cat(s, v), t)
    BY <1>2, <1>5, <1>7, <1>9 DEF Good
  <2>2. next = Len(s) + m /\ u = SubSeq(t, Len(s) + 1, Len(s) + m)
    BY <2>1
  <2> HIDE DEF s, t, m, u, next
  <2>3. Len(s) \in Nat /\ m \in Nat /\ Len(t) \in Nat
    BY <2>1
  <2>4. /\ Len(Cat(s, v)) = Len(s) + m
        /\ \A i \in 1..m : Cat(s, v)[Len(s) + i] = v[i]
    <3>1. List(s, Len(s)) /\ List(v, m)
      BY <2>1, SeqList
    <3>2. Joins(Cat(s, v), s, Len(s), v, m)
      BY <3>1, ListJoined
    <3> QED
      BY <3>2, ListLen DEF Joins
  <2>5. Len(s) + m <= Len(t) /\ \A i \in 1..m : t[Len(s) + i] = v[i]
    <3>1. Len(s) + m <= Len(t)
      BY <2>1, <2>4 DEF Pre
    <3>2. ASSUME NEW i \in 1..m PROVE t[Len(s) + i] = v[i]
      <4>1. Len(s) + i \in 1..Len(Cat(s, v))
        BY <2>3, <2>4
      <4>2. Cat(s, v)[Len(s) + i] = t[Len(s) + i]
        BY <2>1, <4>1 DEF Pre
      <4> QED
        BY <2>4, <4>2
    <3> QED
      BY <3>1, <3>2
  <2>6. List(u, m) /\ \A i \in 1..m : u[i] = t[Len(s) + i]
    <3>1. u \in Seq(Cell) /\ Len(u) = m
      BY <2>1, <2>2, <2>3, <2>5
    <3>2. List(u, m)
      BY <3>1, SeqList
    <3>3. ASSUME NEW i \in 1..m PROVE u[i] = t[Len(s) + i]
      <4>1. (Len(s) + m) - (Len(s) + 1) + 1 = m /\ (Len(s) + 1) + i - 1 = Len(s) + i
        BY <2>3
      <4>2. u[i] = t[(Len(s) + 1) + i - 1]
        BY <2>1, <2>2, <2>3, <4>1
      <4> QED
        BY <4>1, <4>2
    <3> QED
      BY <3>2, <3>3
  <2>7. List(v, m)
    BY <2>1, SeqList
  <2>8. u = v
    BY <2>5, <2>6, <2>7, ListSame
  <2> QED
    BY <2>2, <2>3, <2>5, <2>8 DEF t
<1>11. Decodes(f, v) /\ ~(f = "uncompressed" /\ ~CopiesAgree(v)) /\ ~(f = "n_limbs" /\ v # << 1 >>)
  BY <1>5 DEF Good, CopiesAgree
<1>12. got' = p /\ pc' = pc
  <2>1. /\ ~(pos + Width(field) > Len(files[blob]))
        /\ SubSeq(files[blob], pos + 1, pos + Width(field)) = v
        /\ Decodes(field, v) /\ ~(field = "uncompressed" /\ ~CopiesAgree(v))
        /\ ~(field = "n_limbs" /\ v # << 1 >>)
    BY <1>10, <1>11 DEF b, f
  <2>2. got' = Pushed(got, field, v) /\ pc' = pc
    BY <2>1 DEF ReadField
  <2> QED
    BY <2>2 DEF p, f
<1> QED
  BY <1>8, <1>12 DEF W

\* The values of files that nothing has touched are the artifacts.
LEMMA HonestValues ==
  ASSUME CWInv, HonestInv, Honest, blob = "public", field = "end"
  PROVE  /\ VK = written.vk /\ Proof = written.proof /\ Public = written.public
         /\ NKeys = Len(written.vk.keys) /\ Len(Raw) = NKeys
         /\ pos = Len(files["public"])
<1> DEFINE W == Whole(written)
           w == written
<1>1. TypeOK /\ Typed(got) /\ w \in Artifacts /\ w.limbs = 1
  BY TypedGot DEF CWInv, TypeOK, Honest
<1>2. Full(W) /\ Agree(got, W) /\ files["public"] = Part("public", W)
  BY <1>1, WholeFull, BlobsAre DEF Honest, HonestInv
<1>3. \A b \in Blobs : Stage(b, "end", got)
  BY BlobsAre DEF CWInv, Progress, At
<1>4. VKOf(W) = w.vk /\ ProofOf(W) = w.proof /\ W["scalar"] = w.public
  BY <1>1, WholeVK, WholeProof, WholePublic
<1>5. ProofStage("end", got)
  BY <1>3, BlobsAre DEF Stage
<1> HIDE DEF W
<1>6. \A b \in Blobs : \A h \in Fields(b) : got[h] = W[h]
  BY <1>1, <1>2, <1>3, FileSame
<1>7. \A h \in VKFields \cup ProofFields \cup PublicFields : got[h] = W[h]
  BY <1>6, BlobsAre DEF Fields
<1>8. VK = VKOf(got) /\ Proof = ProofOf(got) /\ Public = got["scalar"]
  BY DEF VK, NKeys, VKOf, Proof, ProofOf, Public
<1>9. VKOf(got) = VKOf(W)
  <2>1. /\ got["alpha"] = W["alpha"] /\ got["beta"] = W["beta"] /\ got["gamma"] = W["gamma"]
        /\ got["delta"] = W["delta"] /\ got["ic"] = W["ic"] /\ got["pedersen_G"] = W["pedersen_G"]
        /\ got["pedersen_GSigmaNeg"] = W["pedersen_GSigmaNeg"]
        /\ got["committed_index"] = W["committed_index"]
    BY <1>7 DEF VKFields, HeadFields, KeyFields
  <2> QED
    BY <2>1 DEF VKOf
<1>10. ProofOf(got) = ProofOf(W)
  <2>1. /\ got["a"] = W["a"] /\ got["b"] = W["b"] /\ got["c"] = W["c"]
        /\ got["commitment"] = W["commitment"] /\ got["pok"] = W["pok"]
    BY <1>7 DEF ProofFields, ProofHeads, CopyFields
  <2> QED
    BY <2>1 DEF ProofOf
<1>11. got["scalar"] = W["scalar"] /\ got["pedersen_G"] = W["pedersen_G"]
  BY <1>7 DEF VKFields, KeyFields, PublicFields
<1>12. NKeys = Len(w.vk.keys) /\ Len(Raw) = NKeys
  <2>1. Len(W["pedersen_G"]) = Len(w.vk.keys)
    <3> DEFINE n == Len(w.vk.keys)
               s == [j \in 1..n |-> w.vk.keys[j][1]]
    <3>1. w.vk.keys \in Seq(G2 \X G2)
      BY <1>1, Made
    <3>a. n \in Nat
      BY <3>1
    <3>b. List(s, n)
      BY <3>a DEF List
    <3>c. W["pedersen_G"] = s
      BY WholeFields DEF W
    <3>2. List(s, n) /\ W["pedersen_G"] = s
      BY <3>b, <3>c
    <3> HIDE DEF s, n
    <3>3. Len(s) = n
      BY <3>2, ListLen
    <3> QED
      BY <3>2, <3>3 DEF n
  <2>2. NKeys = Len(w.vk.keys)
    BY <1>11, <2>1 DEF NKeys
  <2>3. Len(Raw) = Len(Proof.commitments)
    BY <1>5 DEF ProofStage, CopiesStage, Raw, Proof
  <2>4. Len(w.proof.commitments) = Len(w.vk.keys)
    BY <1>1, Made
  <2> QED
    BY <1>4, <1>8, <1>10, <2>2, <2>3, <2>4
<1>13. pos = Len(files["public"])
  <2>1. pos = Len(Part("public", got))
    BY DEF CWInv, Progress
  <2>2. Part("public", W) = Part("public", got)
    <3>1. \A h \in Fields("public") : W[h] = got[h]
      BY <1>6, BlobsAre
    <3> QED
      BY <3>1, BlobsAre, PartKept
  <2> QED
    BY <1>2, <2>1, <2>2
<1> QED
  BY <1>4, <1>8, <1>9, <1>10, <1>11, <1>12, <1>13

\* Two sums of the same points and scalars are the same.
LEMMA SumUnique ==
  ASSUME NEW s, NEW t, NEW ic, NEW public, NEW h, NEW com,
         SumOf(s, ic, public, h, com), SumOf(t, ic, public, h, com),
         Len(public) \in Nat, Len(com) \in Nat
  PROVE  s = t
<1> DEFINE m == Len(public)
           k == Len(com)
           n == 1 + m + k + k
<1>1. /\ List(s, n) /\ s[1] = <<ic[1], <<>> >>
      /\ \A i \in 1..m : s[1 + i] = <<ic[1 + i], <<public[i]>> >>
      /\ \A j \in 1..k : s[1 + m + j] = <<ic[1 + m + j], h[j]>>
      /\ \A j \in 1..k : s[1 + m + k + j] = <<com[j], <<>> >>
  BY DEF SumOf
<1>2. /\ List(t, n) /\ t[1] = <<ic[1], <<>> >>
      /\ \A i \in 1..m : t[1 + i] = <<ic[1 + i], <<public[i]>> >>
      /\ \A j \in 1..k : t[1 + m + j] = <<ic[1 + m + j], h[j]>>
      /\ \A j \in 1..k : t[1 + m + k + j] = <<com[j], <<>> >>
  BY DEF SumOf
<1>3. m \in Nat /\ k \in Nat
  OBVIOUS
<1> HIDE DEF m, k
<1>4. ASSUME NEW i \in 1..n PROVE s[i] = t[i]
  <2>1. CASE i = 1
    BY <1>1, <1>2, <2>1
  <2>2. CASE i \in 2..1 + m
    <3>1. i - 1 \in 1..m /\ 1 + (i - 1) = i
      BY <1>3, <2>2
    <3> QED
      BY <1>1, <1>2, <3>1
  <2>3. CASE i \in 2 + m..1 + m + k
    <3>1. i - (1 + m) \in 1..k /\ 1 + m + (i - (1 + m)) = i
      BY <1>3, <2>3
    <3> QED
      BY <1>1, <1>2, <3>1
  <2>4. CASE i \in 2 + m + k..1 + m + k + k
    <3>1. i - (1 + m + k) \in 1..k /\ 1 + m + k + (i - (1 + m + k)) = i
      BY <1>3, <2>4
    <3> QED
      BY <1>1, <1>2, <3>1
  <2> QED
    BY <1>3, <2>1, <2>2, <2>3, <2>4
<1> QED
  BY <1>1, <1>2, <1>4, ListSame

\* A step that only says where to go next, and not that the files are refused.
LEMMA HonestStay ==
  ASSUME HonestInv, NEW q, End(q), pc # "write", q # "write",
         Honest => q \notin Ends \ {"accepted"}
  PROVE  HonestInv'
<1>1. /\ pc' = q /\ written' = written /\ files' = files /\ intact' = intact /\ got' = got
  BY DEF End
<1>2. Honest' = Honest
  BY <1>1 DEF Honest
<1> QED
  BY <1>1, <1>2 DEF HonestInv

\* Nothing read agrees with every file.
LEMMA HonestBlank ==
  ASSUME NEW w \in Artifacts, NEW g, g = [f \in DOMAIN Kind |-> <<>>]
  PROVE  Agree(g, Whole(w))
<1>1. \A h \in Names : g[h] = <<>>
  BY DEF Names
<1>2. Typed(Whole(w)) /\ "committed_index" \in Names
  BY WholeTyped, KindIs
<1>3. ASSUME NEW h \in Names PROVE Pre(g[h], Whole(w)[h])
  <2>1. Whole(w)[h] \in Seq(Read[h])
    BY <1>2 DEF Typed
  <2> QED
    BY <1>1, <2>1, PreSelf
<1>4. /\ Len(g["committed_index"]) = 0 /\ Len(Whole(w)["committed_index"]) \in Nat
  BY <1>1, <1>2, CountsAre
<1> QED
  BY <1>3, <1>4 DEF Agree

\* Writing and reading the files keeps this.
LEMMA HonestParse ==
  ASSUME CWInv, HonestInv, Write \/ ReadField \/ NextFile
  PROVE  HonestInv'
<1>0. TypeOK /\ written \in Artifacts
  BY DEF CWInv, TypeOK
<1>1. CASE Write
  <2>1. intact' => files' = Encoded(written)
    BY <1>1, CWWrite
  <2>2. pc = "write" /\ pc' = "parse" /\ written' = written /\ got' = got
    BY <1>1 DEF Write
  <2>3. got = [f \in DOMAIN Kind |-> <<>>]
    BY <2>2 DEF CWInv, Found, Blank
  <2>4. Agree(got, Whole(written))
    BY <1>0, <2>3, HonestBlank
  <2> QED
    BY <2>1, <2>2, <2>4 DEF HonestInv, Ends
<1>2. CASE ReadField
  <2>1. pc = "parse"
    BY <1>2 DEF ReadField
  <2>2. written' = written /\ files' = files /\ intact' = intact /\ pc' # "write"
    <3> DEFINE next == pos + Width(field)
               v == SubSeq(files[blob], pos + 1, next)
    <3>1. \/ End("truncated") \/ End("bad_scalar") \/ End("bad_point") \/ End("mismatch")
          \/ End("shape") \/ UNCHANGED <<written, files, intact, pc, blob>>
      BY <1>2 DEF ReadField
    <3> QED
      BY <2>1, <3>1 DEF End
  <2>3. Honest' = Honest
    BY <2>2 DEF Honest
  <2>4. Honest => pc' = pc /\ Agree(got', Whole(written))
    BY <1>2, HonestRead
  <2> QED
    BY <2>1, <2>2, <2>3, <2>4 DEF HonestInv, Ends
<1>3. CASE NextFile
  <2>1. pc = "parse" /\ field = "end" /\ pc # "write"
    BY <1>3 DEF NextFile
  <2>2. CASE blob = "public" /\ pos < Len(files[blob])
    <3>1. End("truncated")
      BY <1>3, <2>2 DEF NextFile
    <3>2. ~Honest
      <4> SUFFICES ASSUME Honest PROVE FALSE
        OBVIOUS
      <4>1. pos = Len(files["public"])
        BY <2>1, <2>2, HonestValues
      <4>2. files["public"] \in Seq(Cell)
        BY <1>0, BlobsAre DEF TypeOK
      <4> QED
        BY <2>2, <4>1, <4>2
    <3> QED
      BY <2>1, <3>1, <3>2, HonestStay
  <2>3. CASE blob = "public" /\ ~(pos < Len(files[blob]))
    <3>1. End("shape?")
      BY <1>3, <2>3 DEF NextFile
    <3>2. "shape?" \notin Ends
      BY DEF Ends
    <3> QED
      BY <2>1, <3>1, <3>2, HonestStay
  <2>4. CASE blob # "public"
    <3>1. /\ written' = written /\ files' = files /\ intact' = intact /\ pc' = pc /\ got' = got
      BY <1>3, <2>4 DEF NextFile
    <3>2. Honest' = Honest
      BY <3>1 DEF Honest
    <3> QED
      BY <3>1, <3>2 DEF HonestInv
  <2> QED
    BY <2>2, <2>3, <2>4
<1> QED
  BY <1>1, <1>2, <1>3

\* The pairing holds of files that nothing has touched: both sides sum the same.
LEMMA HonestPairing ==
  ASSUME CWInv, HonestInv, Honest, pc = "pairing?"
  PROVE  PairingHolds /\ ~(Len(VK.ic) < 1 + Len(PublicExt))
<1>1. /\ TypeOK /\ Shaped /\ blob = "public" /\ field = "end" /\ written \in Artifacts
  BY DEF CWInv, Found, TypeOK
<1>2. /\ VK = written.vk /\ Proof = written.proof /\ Public = written.public
  BY <1>1, HonestValues
<1>3. ProofStage("end", got)
  BY <1>1, BlobsAre DEF CWInv, Progress, At, Stage
<1>4. /\ NKeys \in Nat /\ Len(Public) \in Nat /\ Len(Proof.commitments) = NKeys
      /\ Len(VK.ic) = 1 + Len(Public) + NKeys
  BY <1>1, KeysLen
<1>5. ASSUME NEW j \in 1..NKeys PROVE Raw[j] = Uncompressed(Proof.commitments[j])
  <2>1. /\ Len(got["uncompressed"]) = Len(got["commitment"])
        /\ \A k \in 1..Len(got["uncompressed"]) :
             got["uncompressed"][k] = Uncompressed(got["commitment"][k])
    BY <1>3 DEF ProofStage, CopiesStage
  <2>2. Len(got["commitment"]) = NKeys
    BY <1>4 DEF Proof
  <2>3. got["uncompressed"][j] = Uncompressed(got["commitment"][j])
    BY <2>1, <2>2
  <2> QED
    BY <2>3 DEF Raw, Proof
<1>6. SumOf(KSum, VK.ic, Public, Hashes(Proof.commitments, VK.committed, Public),
            Proof.commitments)
  BY <1>1, <1>5, KSumIs
<1>7. SumOf(GnarkSum, written.vk.ic, written.public,
            Hashes(written.proof.commitments, written.vk.committed, written.public),
            written.proof.commitments)
  BY <1>1, GnarkSumIs
<1>8. KSum = GnarkSum
  <2> DEFINE s == KSum
             t == GnarkSum
             i == VK.ic
             p == Public
             c == Proof.commitments
             h == Hashes(Proof.commitments, VK.committed, Public)
  <2>1. SumOf(s, i, p, h, c)
    BY <1>6
  <2>2. SumOf(t, i, p, h, c)
    <3>1. /\ VK.ic = written.vk.ic /\ Public = written.public
          /\ Proof.commitments = written.proof.commitments
          /\ VK.committed = written.vk.committed
      BY <1>2
    <3> HIDE DEF t
    <3>2. h = Hashes(written.proof.commitments, written.vk.committed, written.public)
      BY <3>1, Zenon
    <3> HIDE DEF h
    <3>3. SumOf(t, written.vk.ic, written.public, h, written.proof.commitments)
      BY <1>7, <3>2 DEF t
    <3> QED
      BY <3>1, <3>3, Zenon
  <2>3. Len(p) \in Nat /\ Len(c) \in Nat
    BY <1>4
  <2> HIDE DEF s, t, i, p, c, h
  <2>4. s = t
    BY <2>1, <2>2, <2>3, SumUnique
  <2> QED
    BY <2>4 DEF s, t
<1>9. PairingHolds
  <2>1. /\ Proof.a = written.proof.a /\ Proof.b = written.proof.b /\ Proof.c = written.proof.c
        /\ VK.alpha = written.vk.alpha /\ VK.beta = written.vk.beta
        /\ VK.gamma = written.vk.gamma /\ VK.delta = written.vk.delta
    BY <1>2
  <2> QED
    BY <1>8, <2>1 DEF PairingHolds
<1>10. ~(Len(VK.ic) < 1 + Len(PublicExt))
  <2>1. Len(PublicExt) = Len(Public) + NKeys
    BY <1>1, Lengths
  <2> QED
    BY <1>4, <2>1
<1> QED
  BY <1>9, <1>10

\* No check of verify refuses them.
LEMMA HonestVerify ==
  ASSUME CWInv, HonestInv, CheckShape \/ Challenges \/ CheckPok \/ CheckPairing
  PROVE  HonestInv'
<1>0. TypeOK /\ written \in Artifacts /\ Found(pc)
  BY DEF CWInv, TypeOK
<1>1. pc \in {"shape?", "challenge?", "pok?", "pairing?"} /\ pc # "write"
  BY DEF CheckShape, Challenges, CheckPok, CheckPairing
<1>2. blob = "public" /\ field = "end"
  BY <1>0, <1>1 DEF Found
<1>3. Honest => /\ VK = written.vk /\ Proof = written.proof /\ Public = written.public
                /\ NKeys = Len(written.vk.keys) /\ Len(Raw) = NKeys
  BY <1>2, HonestValues
<1>4. /\ Len(written.vk.committed) = Len(written.vk.keys)
      /\ Len(written.proof.commitments) = Len(written.vk.keys)
      /\ Len(written.vk.ic) = 1 + Len(written.public) + Len(written.vk.keys)
      /\ Len(written.vk.keys) = 1 =>
           \A k \in DOMAIN written.vk.committed[1] :
             written.vk.committed[1][k] \in DOMAIN written.public
  BY <1>0, Made
<1>5. /\ NKeys \in Nat /\ Len(Public) \in Nat /\ Len(VK.ic) \in Nat
  BY <1>0, Lengths
<1>6. \A q \in {"challenge?", "pok?", "pairing?", "accepted"} :
        q # "write" /\ q \notin Ends \ {"accepted"}
  BY DEF Ends
<1>7. CASE CheckShape
  <2>1. CASE CountsAgree /\ Len(VK.ic) - (1 + NKeys) = Len(Public)
    <3>1. End("challenge?")
      BY <1>7, <2>1 DEF CheckShape
    <3> QED
      BY <1>1, <1>6, <3>1, HonestStay
  <2>2. CASE ~(CountsAgree /\ Len(VK.ic) - (1 + NKeys) = Len(Public))
    <3>1. End("shape")
      BY <1>7, <2>2 DEF CheckShape
    <3>2. ~Honest
      <4> SUFFICES ASSUME Honest PROVE FALSE
        OBVIOUS
      <4>1. CountsAgree
        BY <1>3, <1>4 DEF CountsAgree
      <4>2. Len(VK.ic) = 1 + Len(Public) + NKeys
        BY <1>3, <1>4
      <4> QED
        BY <1>5, <2>2, <4>1, <4>2
    <3> QED
      BY <1>1, <3>1, <3>2, HonestStay
  <2> QED
    BY <2>1, <2>2
<1>8. CASE Challenges
  <2>1. \/ End("panic") /\ Len(Raw) < NKeys
        \/ End("shape") /\ \E j \in 1 .. NKeys : \E k \in DOMAIN VK.committed[j] :
                              VK.committed[j][k] \notin DOMAIN Public
        \/ End("pok?")
    BY <1>8 DEF Challenges
  <2>2. CASE End("panic") /\ Len(Raw) < NKeys
    <3>1. ~Honest
      BY <1>3, <1>5, <2>2
    <3> QED
      BY <1>1, <2>2, <3>1, HonestStay
  <2>3. CASE End("shape") /\ \E j \in 1 .. NKeys : \E k \in DOMAIN VK.committed[j] :
                                VK.committed[j][k] \notin DOMAIN Public
    <3>1. ~Honest
      <4> SUFFICES ASSUME Honest PROVE FALSE
        OBVIOUS
      <4>1. PICK j \in 1 .. NKeys : \E k \in DOMAIN VK.committed[j] :
              VK.committed[j][k] \notin DOMAIN Public
        BY <2>3
      <4> DEFINE n == Len(written.vk.keys)
      <4>5. n = NKeys /\ n <= 1
        BY <1>3 DEF Honest
      <4>6. j \in 1..n
        BY <4>5
      <4>7. n \in Nat
        BY <1>5, <4>5
      <4> HIDE DEF n
      <4>8. j = 1 /\ n = 1
        BY <4>5, <4>6, <4>7
      <4>2. j = 1 /\ Len(written.vk.keys) = 1
        BY <4>8 DEF n
      <4> QED
        BY <1>3, <1>4, <4>1, <4>2
    <3> QED
      BY <1>1, <2>3, <3>1, HonestStay
  <2>4. CASE End("pok?")
    BY <1>1, <1>6, <2>4, HonestStay
  <2> QED
    BY <2>1, <2>2, <2>3, <2>4
<1>9. CASE CheckPok
  <2>1. \/ End("pairing?")
        \/ End("shape") /\ NKeys > 1
        \/ End("panic") /\ ~(NKeys > 1) /\ NKeys # 0 /\ Len(Proof.commitments) = 0
        \/ End("pok_failed") /\ ~PokHolds /\ ~(NKeys > 1) /\ NKeys # 0
    BY <1>9 DEF CheckPok
  <2>2. CASE End("pairing?")
    BY <1>1, <1>6, <2>2, HonestStay
  <2>3. ASSUME NEW q \in {"shape", "panic", "pok_failed"}, End(q), ~Honest PROVE HonestInv'
    BY <1>1, <2>3, HonestStay
  <2>4. CASE End("shape") /\ NKeys > 1
    <3>1. ~Honest
      BY <1>3, <1>5, <2>4 DEF Honest
    <3> QED
      BY <2>3, <2>4, <3>1
  <2>5. CASE End("panic") /\ ~(NKeys > 1) /\ NKeys # 0 /\ Len(Proof.commitments) = 0
    <3>1. ~Honest
      BY <1>3, <1>4, <2>5
    <3> QED
      BY <2>3, <2>5, <3>1
  <2>6. CASE End("pok_failed") /\ ~PokHolds /\ ~(NKeys > 1) /\ NKeys # 0
    <3>1. ~Honest
      BY <1>3, <2>6 DEF PokHolds
    <3> QED
      BY <2>3, <2>6, <3>1
  <2> QED
    BY <2>1, <2>2, <2>4, <2>5, <2>6
<1>10. CASE CheckPairing
  <2>0. pc = "pairing?"
    BY <1>10 DEF CheckPairing
  <2>1. \/ End("accepted")
        \/ End("panic") /\ Len(VK.ic) < 1 + Len(PublicExt)
        \/ End("pairing_failed") /\ ~PairingHolds
    BY <1>10 DEF CheckPairing
  <2>2. CASE End("accepted")
    BY <1>1, <1>6, <2>2, HonestStay
  <2>3. ASSUME NEW q \in {"panic", "pairing_failed"}, End(q), ~Honest PROVE HonestInv'
    BY <1>1, <2>3, HonestStay
  <2>4. Honest => PairingHolds /\ ~(Len(VK.ic) < 1 + Len(PublicExt))
    BY <2>0, HonestPairing
  <2>5. CASE End("panic") /\ Len(VK.ic) < 1 + Len(PublicExt)
    BY <2>3, <2>4, <2>5
  <2>6. CASE End("pairing_failed") /\ ~PairingHolds
    BY <2>3, <2>4, <2>6
  <2> QED
    BY <2>1, <2>2, <2>5, <2>6
<1> QED
  BY <1>7, <1>8, <1>9, <1>10

\* lib.rs:3, cardano.go:1-4: a proof the Go program wrote and nothing has touched is never
\* refused, for artifacts of any size with one limb to a scalar and at most one commitment.
THEOREM CWHonest == Spec => []HonestAccepted
<1>1. Init => HonestInv
  BY DEF Init, HonestInv, Honest
<1>2. CWInv /\ HonestInv /\ [Next]_vars => HonestInv'
  <2> SUFFICES ASSUME CWInv, HonestInv, [Next]_vars PROVE HonestInv'
    OBVIOUS
  <2>1. CASE Write \/ ReadField \/ NextFile
    BY <2>1, HonestParse
  <2>2. CASE CheckShape \/ Challenges \/ CheckPok \/ CheckPairing
    BY <2>2, HonestVerify
  <2>3. CASE UNCHANGED vars
    <3>1. pc' = pc /\ written' = written /\ files' = files /\ intact' = intact /\ got' = got
      BY <2>3 DEF vars
    <3>2. Honest' = Honest
      BY <3>1 DEF Honest
    <3> QED
      BY <3>1, <3>2 DEF HonestInv
  <2> QED
    BY <2>1, <2>2, <2>3 DEF Next
<1>3. HonestInv => HonestAccepted
  BY DEF HonestInv, HonestAccepted, Honest
<1> QED
  BY <1>1, <1>2, <1>3, CWSafe, PTL DEF Spec
=============================================================================
