------------------------------ MODULE FriQuery ------------------------------
(***************************************************************************)
(* One query of the FRI phase: go/stark/driver.go (the query loop of       *)
(* VerifyFRIPhase), merkle.go (MerkleVerify) and fri.go (VerifyFRIQuery).  *)
(* What is modelled is which rows of which trees the bits of a position    *)
(* open, and which entries of them are compared.                           *)
(*                                                                         *)
(* Digests are symbolic: a digest is the number of its node in the tree,   *)
(* the root being 1 and the children of v being 2v and 2v + 1, and 0 is    *)
(* any digest that is not in the tree.  A prover opens a row with whatever *)
(* digests it likes, for the row and for every sibling.  Field elements    *)
(* are symbolic too: a value is known by the entry <<word, index>> it is   *)
(* the right value of, and <<0, 0>> is any other.  Word 1 is what the main *)
(* rows evaluate to, word r + 1 the fold of word r, and the last word the  *)
(* final polynomial.                                                       *)
(***************************************************************************)
EXTENDS Integers, Sequences

CONSTANTS
  PosBits,    \* bits of a query position (20)
  FoldBits,   \* log2 of FRI_FOLD (4)
  TopBits,    \* log2 of the digests in a top row (5)
  GroupBits,  \* friGroupBits: bits that index each round's tree (16, 12, 8)
  RoundBits,  \* friRoundParams: bits that form each round's group (16, 12, 8)
  MainPath,   \* siblings in a main row's path (15)
  FriPath,    \* siblings in the path of each round's row (11, 7, 3)
  Offers(_, _) \* what a prover may open a row of a tree with, at an index

NRounds == Len(GroupBits)
Rounds == 1 .. NRounds
FinalBits == RoundBits[NRounds]

\* The tables of three files agree: the widths the program has are in SealLayout.
ASSUME FriQueryAssumption ==
  /\ FoldBits \in Nat \ {0} /\ TopBits \in Nat /\ PosBits \in Nat
  /\ GroupBits \in Seq(Nat) /\ NRounds > 0
  /\ MainPath = PosBits - TopBits
  /\ Len(RoundBits) = NRounds /\ Len(FriPath) = NRounds
  /\ \A r \in Rounds :
        /\ GroupBits[r] = PosBits - r * FoldBits /\ GroupBits[r] >= TopBits
        /\ RoundBits[r] = GroupBits[r]
        /\ FriPath[r] = GroupBits[r] - TopBits

WordBits(r) == IF r = 1 THEN PosBits ELSE GroupBits[r - 1]

\* Tree 0 stands for the main ones, which are indexed alike; then one for
\* each round.
Trees == 0 .. NRounds
RowBits(t) == WordBits(t + 1)
PathLength(t) == IF t = 0 THEN MainPath ELSE FriPath[t]
Indices(t) == 0 .. 2 ^ RowBits(t) - 1

\* An opening is the digest of a row and of the siblings on its way up.
Openings(t) == [leaf : Nat, path : [1 .. PathLength(t) -> Nat]]

ASSUME OffersAssumption ==
  \A t \in Trees : \A i \in Indices(t) : \A o \in Offers(t, i) : o \in Openings(t)

Junk == <<0, 0>>
Entries == UNION {{r} \X (0 .. 2 ^ WordBits(r) - 1) : r \in 1 .. NRounds + 1}

VARIABLES
  pos,     \* the position drawn
  lie,     \* the committed entry that is not the fold of the word before, or Junk
  pc,      \* what the query does next
  rows,    \* digest of the row opened in the main trees, then in each round's
  round,   \* rounds folded
  goal,    \* the value the next word must have
  fair     \* every opening was the tree's own at the position (history)

vars == <<pos, lie, pc, rows, round, goal, fair>>

TypeOK ==
  /\ pos \in 0 .. 2 ^ PosBits - 1
  /\ lie \in Entries \cup {Junk}
  /\ pc \in {"open", "fold", "final", "accepted", "rejected"}
  /\ rows \in Seq(Nat) /\ Len(rows) <= NRounds + 1
  /\ round \in 0 .. NRounds
  /\ goal \in Entries \cup {Junk}
  /\ fair \in BOOLEAN

\* RandomBits draws the position.  A word with one false entry is the
\* hardest to catch.
Init ==
  /\ pos \in 0 .. 2 ^ PosBits - 1
  /\ lie \in Entries \cup {Junk}
  /\ pc = "open"
  /\ rows = <<>>
  /\ round = 0
  /\ goal = Junk
  /\ fair = TRUE

\* The entry of word r that the position stands for: a fold divides the
\* domain by 2^FoldBits, and the position is taken modulo the new domain.
Visited(r) ==
  LET at[s \in 1 .. r] ==
        IF s = 1 THEN pos ELSE at[s - 1] % 2 ^ (PosBits - (s - 1) * FoldBits)
  IN at[r]

-----------------------------------------------------------------------------
Low(n, k) == n % 2 ^ k
High(n, k) == n \div 2 ^ k
Bit(n, k) == High(n, k) % 2

\* hash_pair of two siblings is their parent.
HashPair(a, b) == IF a > 0 /\ a % 2 = 0 /\ b = a + 1 THEN a \div 2 ELSE 0

\* (Mutant of Climb: the bit tells the left child from the right wrongly.)
ClimbSwapped(index, leaf, siblings) ==
  LET cur[k \in 0 .. Len(siblings)] ==
        IF k = 0 THEN leaf
        ELSE IF Bit(index, k - 1) = 0 THEN HashPair(siblings[k], cur[k - 1])
             ELSE HashPair(cur[k - 1], siblings[k])
  IN cur[Len(siblings)]

\* The low bits of the index say at each level whether the node is a right
\* child.
Climb(index, leaf, siblings) ==
  LET cur[k \in 0 .. Len(siblings)] ==
        IF k = 0 THEN leaf
        ELSE IF Bit(index, k - 1) = 1 THEN HashPair(siblings[k], cur[k - 1])
             ELSE HashPair(cur[k - 1], siblings[k])
  IN cur[Len(siblings)]

TopRow == [j \in 0 .. 2 ^ TopBits - 1 |-> 2 ^ TopBits + j]

\* (Mutant of MerkleVerify: any digest of the top row will do.)
MerkleVerifyAnyTop(index, leaf, siblings) ==
  \E h \in DOMAIN TopRow : Climb(index, leaf, siblings) = TopRow[h]

\* The high bits select the digest of the top row.
MerkleVerify(index, leaf, siblings) ==
  Climb(index, leaf, siblings) = TopRow[High(index, Len(siblings))]

\* Row j of a tree of 2^bits rows, and its siblings up the tree.
Leaf(bits, j) == 2 ^ bits + j
Path(bits, j, length) ==
  [k \in 1 .. length |->
     LET v == High(Leaf(bits, j), k - 1) IN IF v % 2 = 0 THEN v + 1 ELSE v - 1]

\* The opening of row j by the prover that committed to the tree.
Honest(t, j) ==
  [leaf |-> Leaf(RowBits(t), j), path |-> Path(RowBits(t), j, PathLength(t))]

\* Entry i of word r as it was committed.
Held(r, i) == IF lie = <<r, i>> THEN Junk ELSE <<r, i>>

\* A digest that is no row of the tree is of cells the prover chose.
Foreign(t, leaf) == leaf \notin {Leaf(RowBits(t), j) : j \in Indices(t)}

\* FriEvalTaps at the position, of the main row opened.
Goal0(leaf) ==
  IF leaf = Leaf(PosBits, pos) THEN <<1, pos>>
  ELSE IF Foreign(0, leaf) THEN Held(1, pos) ELSE Junk

\* Slot k of row g of round r's tree holds entry g + k * 2^bits of its word.
Slot(r, leaf, k) ==
  IF Foreign(r, leaf) THEN goal
  ELSE LET g == leaf - 2 ^ GroupBits[r] IN Held(r, g + k * 2 ^ GroupBits[r])

\* (Mutant of Fold: every bit of the position is in the power.)
FoldAtPosition(r, leaf, group) ==
  IF leaf = Leaf(GroupBits[r], group) THEN <<r + 1, pos>> ELSE Junk

\* foldDataExt evaluates at the mix times a root to the power of the group;
\* the fold is right if that is the group of the row.
Fold(r, leaf, group) ==
  IF leaf = Leaf(GroupBits[r], group) THEN <<r + 1, group>>
  ELSE IF Foreign(r, leaf) THEN Held(r + 1, group) ELSE Junk

\* (Mutant of GoalHolds: E4AssertEq is left out.)
GoalUnchecked(value) == TRUE

GoalHolds(value) == value = goal

-----------------------------------------------------------------------------
Reject == pc' = "rejected" /\ UNCHANGED <<pos, lie, rows, round, goal>>

\* Open a row of the next tree: a main one at the position, each round's at
\* its low bits.
Open ==
  /\ pc = "open"
  /\ LET t == Len(rows)
         index == Low(pos, RowBits(t))
     IN \E o \in Offers(t, index) :
       /\ fair' = (fair /\ o = Honest(t, Visited(t + 1)))
       /\ IF MerkleVerify(index, o.leaf, o.path)
          THEN /\ rows' = Append(rows, o.leaf)
               /\ goal' = IF t > 0 THEN goal ELSE Goal0(o.leaf)
               /\ pc' = IF t < NRounds THEN "open" ELSE "fold"
               /\ UNCHANGED <<pos, lie, round>>
          ELSE Reject

MoreRounds == round' < NRounds

\* One round: the entry at the position equals the goal; the row is folded
\* to the next.
FoldRound ==
  /\ pc = "fold"
  /\ LET r == round + 1
         leaf == rows[r + 1]
         quot == Low(High(pos, RoundBits[r]), FoldBits)
     IN IF GoalHolds(Slot(r, leaf, quot))
        THEN /\ goal' = Fold(r, leaf, Low(pos, RoundBits[r]))
             /\ round' = r
             /\ pc' = IF MoreRounds THEN "fold" ELSE "final"
             /\ UNCHANGED <<pos, lie, rows, fair>>
        ELSE Reject /\ UNCHANGED fair

\* The final polynomial is evaluated at the last group.
CheckFinal ==
  /\ pc = "final"
  /\ IF GoalHolds(Held(NRounds + 1, Low(pos, FinalBits)))
     THEN pc' = "accepted" /\ UNCHANGED <<pos, lie, rows, round, goal, fair>>
     ELSE Reject /\ UNCHANGED fair

Next == Open \/ FoldRound \/ CheckFinal

Spec == Init /\ [][Next]_vars

-----------------------------------------------------------------------------
(* Properties *)

OnTheWay == \E r \in 1 .. NRounds + 1 : lie = <<r, Visited(r)>>

\* merkle.go:43-50, fri.go:107-112: a query that is accepted was answered in
\* every tree with the row committed at its position and with the tree's own
\* digest in every place of its path, and found the entry of every word at
\* the position right.  (What the opened rows hold in their other slots is
\* for the queries that lead there.)
CatchesLies ==
  pc = "accepted" =>
    /\ fair /\ ~OnTheWay
    /\ \A t \in Trees : rows[t + 1] = Honest(t, Visited(t + 1)).leaf

\* driver.go:127-132, fri.go:101-103: the tables of the driver and of
\* VerifyFRIQuery agree, so that a query is refused only over a false entry
\* on its way or an opening that is not the tree's: an honest prover answers
\* every query.
RefusesOnlyLies ==
  pc = "rejected" /\ fair => OnTheWay
=============================================================================
