----------------------------- MODULE SealLayout -----------------------------
(***************************************************************************)
(* The seal parser, go/stark/seal.go, and AssignReceipt of                 *)
(* receipt_circuit.go, which copies what it parsed into the arrays of the  *)
(* circuit.  The sizes are the program's own.  A seal is known by its      *)
(* length in words and by its po2 word: no other word decides anything     *)
(* here.  A part of the seal is <<name, index>>.                           *)
(***************************************************************************)
EXTENDS Integers, Sequences, SequencesExt, TLC

NGlobals == 33
TopWords == 32 * 8
TopSize == 32
NUCoeffs == 659 * 4
NFinal == 256
NFriRound == 3
NQueries == 50
DigestWords == 8
QueryStart == 4717
QueryWords == 1019
SealWords == QueryStart + NQueries * QueryWords
ExpectedPo2 == 18

\* (Mutant of MainCols: the order in which the roots are committed.)
MainColsCommitted == <<23, 128, 12, 16>>

MainCols == <<12, 23, 128, 16>>     \* accum, code, data, check
MainPath == 15

\* (Mutant of FriPath: the rounds from the last to the first.)
FriPathReversed == <<3, 7, 11>>

FriPath == <<11, 7, 3>>
FriCol == 64

\* Bits that index the trees: 20 for the main ones, friGroupBits for FRI's.
MainBits == 20
FriGroupBits == <<16, 12, 8>>

-----------------------------------------------------------------------------
(* What the parsers read, in order: n values of `width` words each.        *)

Fields(name, i, n) == [part |-> <<name, i>>, n |-> n, width |-> 1]
Digests(name, i, n) == [part |-> <<name, i>>, n |-> n, width |-> DigestWords]
Words(r) == r.n * r.width

PrefixReads ==
  << Fields("Globals", 0, NGlobals),
     Digests("CodeTop", 0, TopSize), Digests("DataTop", 0, TopSize),
     Digests("AccumTop", 0, TopSize), Digests("CheckTop", 0, TopSize),
     Fields("UCoeffs", 0, NUCoeffs) >>
  \o [r \in 1 .. NFriRound |-> Digests("FriTop", r - 1, TopSize)]
  \o << Fields("Final", 0, NFinal) >>

QueryReads ==
  FlattenSeq([g \in 1 .. 4 |-> << Fields("MainLeaf", g - 1, MainCols[g]),
                                  Digests("MainPath", g - 1, MainPath) >>])
  \o FlattenSeq([r \in 1 .. NFriRound |-> << Fields("FriLeaf", r - 1, FriCol),
                                             Digests("FriPath", r - 1, FriPath[r]) >>])

\* The arrays of ReceiptCircuit and QueryWit.
WireSize ==
  [Globals |-> 33, CodeTop |-> 32, DataTop |-> 32, AccumTop |-> 32, CheckTop |-> 32,
   UCoeffs |-> 2636, Fri0Top |-> 32, Fri1Top |-> 32, Fri2Top |-> 32, Final |-> 256,
   AccumLeaf |-> 12, CodeLeaf |-> 23, DataLeaf |-> 128, CheckLeaf |-> 16,
   AccumPath |-> 15, CodePath |-> 15, DataPath |-> 15, CheckPath |-> 15,
   Fri0Leaf |-> 64, Fri1Leaf |-> 64, Fri2Leaf |-> 64,
   Fri0Path |-> 11, Fri1Path |-> 7, Fri2Path |-> 3]

\* The part AssignReceipt copies into each.
CopiedFrom ==
  [Globals |-> <<"Globals", 0>>, CodeTop |-> <<"CodeTop", 0>>, DataTop |-> <<"DataTop", 0>>,
   AccumTop |-> <<"AccumTop", 0>>, CheckTop |-> <<"CheckTop", 0>>,
   UCoeffs |-> <<"UCoeffs", 0>>, Fri0Top |-> <<"FriTop", 0>>, Fri1Top |-> <<"FriTop", 1>>,
   Fri2Top |-> <<"FriTop", 2>>, Final |-> <<"Final", 0>>,
   AccumLeaf |-> <<"MainLeaf", 0>>, CodeLeaf |-> <<"MainLeaf", 1>>,
   DataLeaf |-> <<"MainLeaf", 2>>, CheckLeaf |-> <<"MainLeaf", 3>>,
   AccumPath |-> <<"MainPath", 0>>, CodePath |-> <<"MainPath", 1>>,
   DataPath |-> <<"MainPath", 2>>, CheckPath |-> <<"MainPath", 3>>,
   Fri0Leaf |-> <<"FriLeaf", 0>>, Fri1Leaf |-> <<"FriLeaf", 1>>,
   Fri2Leaf |-> <<"FriLeaf", 2>>, Fri0Path |-> <<"FriPath", 0>>,
   Fri1Path |-> <<"FriPath", 1>>, Fri2Path |-> <<"FriPath", 2>>]

-----------------------------------------------------------------------------
VARIABLES
  len,     \* words of the seal
  po2,     \* its word 32, meaningful if it has one
  nq,      \* queries the circuit is to verify
  pc,      \* what AssignReceipt does next
  query,   \* the query being parsed
  item,    \* reads done of the prefix or of the query
  off,     \* the parser's offset
  seen,    \* end of the words read last (history)
  parsed   \* number of values in each part parsed last

seal == <<len, po2, nq>>
vars == <<len, po2, nq, pc, query, item, off, seen, parsed>>

Reads == IF pc = "prefix" THEN PrefixReads ELSE QueryReads

TypeOK ==
  /\ len \in Nat /\ po2 \in Nat /\ nq \in Int
  /\ pc \in {"validate", "prefix", "queries", "query", "assign", "assigned", "error", "panic"}
  /\ query \in 0 .. NQueries - 1
  /\ item \in 0 .. Len(Reads)
  /\ off \in Nat /\ seen \in Nat
  /\ \A part \in DOMAIN parsed : parsed[part] \in Nat

\* Lengths around the ones the code names; the queries asked for are an
\* argument of AssignReceipt.
Init ==
  /\ len \in {0, NGlobals - 1, NGlobals, SealWords - 1, SealWords, SealWords + 1}
  /\ po2 \in {0, ExpectedPo2 - 1, ExpectedPo2, ExpectedPo2 + 1}
  /\ nq \in {-1, 0, 1, NQueries, NQueries + 1}
  /\ pc = "validate"
  /\ query = 0 /\ item = 0 /\ off = 0 /\ seen = 0
  /\ parsed = <<>>

End(how) == pc' = how /\ UNCHANGED <<seal, query, item, off, seen, parsed>>

\* (Mutant of LengthOK: only the words ValidateSeal reads itself are asked for.)
LengthHasPo2 == len >= NGlobals

LengthOK == len = SealWords

\* ValidateSeal; it runs in ParsePrefix and again in ParseQueries.
Validate(next) ==
  IF ~LengthOK THEN End("error")
  ELSE IF len < NGlobals THEN End("panic")
  ELSE IF po2 # ExpectedPo2 THEN End("error")
  ELSE pc' = next /\ item' = 0 /\ UNCHANGED <<seal, query, off, seen, parsed>>

\* readField, readTop, fieldsAt, digestsAt: a read past the end panics.
ReadNext ==
  LET r == Reads[item + 1] IN
  IF off + Words(r) > len THEN End("panic")
  ELSE /\ parsed' = (r.part :> r.n) @@ parsed
       /\ off' = off + Words(r)
       /\ seen' = off + Words(r)
       /\ item' = item + 1
       /\ UNCHANGED <<seal, pc, query>>

ParsePrefix ==
  \/ /\ pc = "validate"
     /\ Validate("prefix")
  \/ /\ pc = "prefix" /\ item < Len(Reads)
     /\ ReadNext
  \/ /\ pc = "prefix" /\ item = Len(Reads)
     /\ Validate("queries")

\* (Mutant of QueryBase: the stride is a digest short.)
QueryBaseShort == QueryStart + query * (QueryWords - DigestWords)

QueryBase == QueryStart + query * QueryWords

\* (Mutant of MoreQueries: the loop runs once too often.)
MoreQueriesByOne == query < NQueries

MoreQueries == query + 1 < NQueries

StartQuery ==
  /\ pc = "queries"
  /\ pc' = "query"
  /\ off' = QueryBase
  /\ UNCHANGED <<seal, query, item, seen, parsed>>

EndQuery ==
  /\ pc = "query" /\ item = Len(Reads)
  /\ IF MoreQueries THEN pc' = "queries" /\ query' = query + 1
                    ELSE pc' = "assign" /\ UNCHANGED query
  /\ item' = 0
  /\ UNCHANGED <<seal, off, seen, parsed>>

ParseQueries ==
  \/ StartQuery
  \/ /\ pc = "query" /\ item < Len(Reads)
     /\ ReadNext
  \/ EndQuery

CountOK == nq >= 1 /\ nq <= NQueries

\* ReceiptTemplate panics on a negative count, and qs[i] past the last query.
AssignReceipt ==
  /\ pc = "assign"
  /\ IF ~CountOK THEN End("error")
     ELSE IF nq < 0 \/ nq > NQueries THEN End("panic")
     ELSE End("assigned")

Next == ParsePrefix \/ ParseQueries \/ AssignReceipt

Spec == Init /\ [][Next]_vars

-----------------------------------------------------------------------------
(* Properties *)

\* seal.go:22: whatever the length, the po2 word and the number of queries,
\* the parsers end in a result or an error.
NoPanic == pc # "panic"

\* seal.go:13-14, 153-154: the constants queryStart and queryWords, written
\* as numbers, put every read where the one before it ended, and the last
\* read ends with the seal.
SealTiled ==
  /\ pc = "query" => off = seen
  /\ pc \in {"assign", "assigned"} => seen = len

\* receipt_circuit.go:106-138: `copy` stops at the shorter slice and leaves the rest of an array
\* nil, so each array has the size of what is copied; merkle.go:66-84 with driver.go:131: and the
\* bits of a position that a path does not use number the digests of a top row, in every tree.
WiresFit ==
  pc \in {"assign", "assigned"} =>
    /\ \A w \in DOMAIN WireSize :
         CopiedFrom[w] \in DOMAIN parsed /\ parsed[CopiedFrom[w]] = WireSize[w]
    /\ \A g \in 0 .. 3 : parsed[<<"CodeTop", 0>>] = 2 ^ (MainBits - parsed[<<"MainPath", g>>])
    /\ \A r \in 0 .. 2 :
         parsed[<<"FriTop", r>>] = 2 ^ (FriGroupBits[r + 1] - parsed[<<"FriPath", r>>])
=============================================================================
