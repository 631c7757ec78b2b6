------------------------------ MODULE Receipt ------------------------------
(***************************************************************************)
(* The receipt verifier (go/stark/driver.go, claim.go): one pass over a    *)
(* seal that absorbs its parts, draws challenges from what it absorbed,    *)
(* and asserts equations.  The circuit is satisfiable by a seal exactly    *)
(* when the pass ends "accepted".                                          *)
(*                                                                         *)
(* A part of the seal is known by whether it is what an honest prover      *)
(* would have sent (else it is in lies) and by the challenges that could   *)
(* be known when it was fixed (knew).  The prover is free to fix a part as *)
(* late as it likes: it does so when the part is absorbed, knowing every   *)
(* challenge drawn up to then.  Its choices are the \E of the actions.     *)
(*                                                                         *)
(* Hash collisions and lucky guesses are left out: a polynomial equation   *)
(* tested at a drawn point holds of unequal polynomials only if one of     *)
(* them was fixed knowing the point, and one query finds any word that is  *)
(* not the fold of the previous one, unless fixed knowing the query.       *)
(***************************************************************************)
EXTENDS Naturals

CONSTANTS
  Roots,       \* inner control roots
  Claims,      \* claim digests
  Ids,         \* control ids: programs of the recursion circuit
  Executions,  \* the statements <<root, claim, id>> that are true
  AllowedRoot, \* ALLOWED_CONTROL_ROOT
  IdentityId,  \* BLS_IDENTITY_CONTROL_ID
  NRounds,     \* FRI rounds (3 in the code)
  NQueries     \* queries (50 in a complete verification)

ASSUME ReceiptAssumption ==
  /\ NRounds \in Nat \ {0} /\ NQueries \in Nat \ {0}
  /\ Executions \subseteq Roots \X Claims \X Ids
  /\ AllowedRoot \in Roots /\ IdentityId \in Ids

Globals == <<"globals", 0>>
Code == <<"code", 0>>
Data == <<"data", 0>>
Accum == <<"accum", 0>>
Check == <<"check", 0>>
UCoeffs == <<"u", 0>>
Fri(r) == <<"fri", r>>
Final == <<"final", 0>>

AccumMix == <<"accumMix", 0>>
PolyMix == <<"polyMix", 0>>
Z == <<"z", 0>>
FriMix == <<"friMix", 0>>
Mix(r) == <<"mix", r>>
Pos(q) == <<"pos", q>>

FriParts == {Fri(r) : r \in 1 .. NRounds}
Columns == {Globals, Code, Data, Accum}
Part == Columns \cup {Check, UCoeffs, Final} \cup FriParts
Challenge == {AccumMix, PolyMix, Z, FriMix} \cup {Mix(r) : r \in 1 .. NRounds}
               \cup {Pos(q) : q \in 1 .. NQueries}
Trees == {Code, Data, Accum, Check} \cup FriParts

Phases == {"globals", "code", "data", "accumMix", "accum", "polyMix", "check", "z", "u",
           "validity", "friMix", "fri", "mix", "final", "pos", "open", "bind",
           "accepted", "rejected"}

VARIABLES
  public,      \* the public inputs
  pc,          \* the step of the pass
  round,       \* FRI rounds committed to
  query,       \* queries verified
  globals,     \* what the seal's globals encode
  code,        \* the program whose tree the code top row belongs to
  sent,        \* parts absorbed
  known,       \* challenges drawn
  knew,        \* for each part absorbed, the challenges known when it was fixed
  lies,        \* parts that are not what an honest prover sends
  honest       \* history: the seal is one an honest prover made for public

vars == <<public, pc, round, query, globals, code, sent, known, knew, lies, honest>>

\* root: the even words of globals[0:16]; claim: the SHA half-words of
\* globals[16:32], which fit in 16 bits or not; po2: globals[32].
GlobalsValues == [root : Roots, claim : Claims, fit : BOOLEAN, po2 : {18, 19}]

TypeOK ==
  /\ public \in [root : Roots, claim : Claims, id : Ids]
  /\ pc \in Phases
  /\ round \in 0 .. NRounds
  /\ query \in 0 .. NQueries
  /\ globals \in GlobalsValues
  /\ code \in Ids
  /\ sent \subseteq Part
  /\ known \subseteq Challenge
  /\ knew \in [Part -> SUBSET Challenge]
  /\ lies \subseteq sent
  /\ honest \in BOOLEAN

Statement == <<globals.root, globals.claim, code>>

Init ==
  /\ public \in [root : Roots, claim : Claims, id : Ids]
  /\ pc = "globals"
  /\ round = 0
  /\ query = 0
  /\ globals \in GlobalsValues
  /\ code \in Ids
  /\ sent = {}
  /\ known = {}
  /\ knew = [s \in Part |-> {}]
  /\ lies = {}
  /\ honest = (/\ Statement \in Executions
               /\ Statement = <<public.root, public.claim, public.id>>
               /\ globals.fit /\ globals.po2 = 18)

-----------------------------------------------------------------------------
(* What the asserted equations come to. *)

\* The parts a challenge is to test, if they are fixed before it is known.
Tests == [c \in Challenge |->
  CASE c = AccumMix -> {Globals, Code, Data}
    [] c = PolyMix -> Columns
    [] c = Z -> Columns \cup {Check}
    [] c = FriMix -> Columns \cup {Check, UCoeffs}
    [] c[1] = "mix" -> Columns \cup {Check, UCoeffs} \cup {Fri(r) : r \in 1 .. c[2]}
    [] OTHER -> Part]
Foreseen(c) == \E s \in Tests[c] : c \in knew[s]

\* The committed columns break a constraint of the circuit.
Broken == Accum \in lies \/ (Data \in lies /\ ~Foreseen(AccumMix))

\* Constraints and check polynomial disagree at the point z.
OffAtZ == (Check \in lies \/ (Broken /\ ~Foreseen(PolyMix))) /\ ~Foreseen(Z)

\* E4AssertEq(check, result).  Lying U coefficients are free variables of it.
ValidityHolds == IF UCoeffs \in lies THEN {PolyMix, Z} \subseteq knew[UCoeffs] ELSE ~OffAtZ

\* The U coefficients are not the values of the committed columns at z, so
\* what FRI is run on is far from every polynomial of low degree, and folding
\* it keeps it so.
Far == UCoeffs \in lies /\ ~Foreseen(FriMix)
StillFar == Far /\ \A r \in 1 .. NRounds : Fri(r) \notin lies /\ ~Foreseen(Mix(r))

\* VerifyFRIQuery: the goals agree from the main rows to the final polynomial.
\* Opened values that are not the tree's own can be made to agree.
FoldsHold(q, forged) ==
  \/ forged # {}
  \/ \A s \in lies \cap (FriParts \cup {Final}) : Pos(q) \in knew[s]

\* (Mutant of OpeningsHold: the check row is read but not opened.)
OpeningsHoldButCheck(forged, canonical) == forged \subseteq {Check} \/ ~canonical

\* MerkleVerify of every opened leaf against the top row of its own tree.
\* Elements out of range are packed like other elements in range, so a leaf
\* of them hashes like another leaf.
OpeningsHold(forged, canonical) == forged = {} \/ ~canonical

\* IngestElem: every element read from the seal is in [0, p).
Ingested(canonical) == canonical

-----------------------------------------------------------------------------
(* (Mutant of After: z is drawn before the check polynomial is committed.) *)
AfterSwapped ==
  [globals |-> "code", code |-> "data", data |-> "accumMix", accumMix |-> "accum",
   accum |-> "polyMix", polyMix |-> "z", z |-> "check", check |-> "u", u |-> "validity",
   validity |-> "friMix", friMix |-> "fri", fri |-> "mix", final |-> "pos", pos |-> "open",
   bind |-> "accepted"]

\* The order of the pass, but for the two loops.
After ==
  [globals |-> "code", code |-> "data", data |-> "accumMix", accumMix |-> "accum",
   accum |-> "polyMix", polyMix |-> "check", check |-> "z", z |-> "u", u |-> "validity",
   validity |-> "friMix", friMix |-> "fri", fri |-> "mix", final |-> "pos", pos |-> "open",
   bind |-> "accepted"]

\* An assertion fails: no assignment satisfies the circuit.
Reject(fair) ==
  /\ pc' = "rejected"
  /\ honest' = (honest /\ fair)
  /\ UNCHANGED <<public, round, query, globals, code, sent, known, knew, lies>>

Assert(equation) ==
  IF equation
  THEN /\ pc' = After[pc]
       /\ UNCHANGED <<public, round, query, globals, code, sent, known, knew, lies, honest>>
  ELSE Reject(TRUE)

\* Part s is hashed into the transcript.  A hash of elements out of range
\* binds its prover to nothing.
Absorb(s, lie, canonical) ==
  /\ sent' = sent \cup {s}
  /\ knew' = [knew EXCEPT ![s] = IF canonical THEN known ELSE Challenge]
  /\ lies' = IF lie THEN lies \cup {s} ELSE lies
  /\ honest' = (honest /\ ~lie /\ canonical)
  /\ pc' = After[pc]
  /\ UNCHANGED <<public, query, globals, code, known>>

\* The sponge is squeezed for challenge c.
Draw(c) ==
  /\ known' = known \cup {c}
  /\ UNCHANGED <<public, round, globals, code, sent, knew, lies, honest>>

\* Ingest the globals, pin po2, commit to their hash.
CommitGlobals ==
  /\ pc = "globals"
  /\ \E canonical \in BOOLEAN :
        IF Ingested(canonical) /\ globals.po2 = 18
        THEN Absorb(Globals, FALSE, canonical) /\ UNCHANGED round
        ELSE Reject(canonical)

\* Commit to a tree's root.  The code tree is that of the program named by
\* code; only a true statement has an execution for the data tree to hold.
CommitTop ==
  \E s \in {Code, Data, Accum, Check}, lie \in BOOLEAN :
    /\ pc = s[1]
    /\ s = Code => ~lie
    /\ s = Data /\ ~lie => Statement \in Executions
    /\ Absorb(s, lie, TRUE)
    /\ UNCHANGED round

CommitU ==
  /\ pc = "u"
  /\ \E lie \in BOOLEAN, canonical \in BOOLEAN :
        IF Ingested(canonical)
        THEN Absorb(UCoeffs, lie, canonical) /\ UNCHANGED round
        ELSE Reject(FALSE)

\* The challenges before FRI: the 20 accum mixes, poly mix, z, FRI mix.
DrawMain ==
  \E c \in {AccumMix, PolyMix, Z, FriMix} :
    /\ pc = c[1]
    /\ Draw(c)
    /\ pc' = After[pc]
    /\ UNCHANGED query

AssertValidity == pc = "validity" /\ Assert(ValidityHolds)

\* One FRI round: the root of its top row is committed, then its mix drawn.
CommitFri ==
  /\ pc = "fri"
  /\ round' = round + 1
  /\ \E lie \in BOOLEAN : Absorb(Fri(round'), lie, TRUE)

\* (Mutant of MoreRounds: the loop runs once too often.)
MoreRoundsByOne == round <= NRounds

MoreRounds == round < NRounds

DrawMix ==
  /\ pc = "mix"
  /\ Draw(Mix(round))
  /\ pc' = IF MoreRounds THEN "fri" ELSE "final"
  /\ UNCHANGED query

\* The last polynomial is of low degree whatever its coefficients, so it is
\* the fold of what came before only if that is not far.
CommitFinal ==
  /\ pc = "final"
  /\ \E lie \in BOOLEAN, canonical \in BOOLEAN :
        /\ ~lie => ~StillFar
        /\ IF Ingested(canonical)
           THEN Absorb(Final, lie, canonical) /\ UNCHANGED round
           ELSE Reject(FALSE)

\* One query: its position is drawn; the leaves at it are ingested and opened,
\* and the folds are checked.
DrawPos ==
  /\ pc = "pos"
  /\ query' = query + 1
  /\ Draw(Pos(query'))
  /\ pc' = After[pc]

OpenQuery ==
  /\ pc = "open"
  /\ \E forged \in SUBSET Trees, canonical \in BOOLEAN :
        IF Ingested(canonical) /\ OpeningsHold(forged, canonical) /\ FoldsHold(query, forged)
        THEN /\ pc' = IF query < NQueries THEN "pos" ELSE "bind"
             /\ honest' = (honest /\ forged = {} /\ canonical)
             /\ UNCHANGED <<public, round, query, globals, code, sent, known, knew, lies>>
        ELSE Reject(forged = {} /\ canonical)

\* The claim digest that half-words pack to: any, if one of them does not fit.
PacksTo(claim) == globals.fit => claim = globals.claim

\* (Mutant of Bound: the control root and id are compared with constants.)
BoundToConstants ==
  /\ globals.fit /\ PacksTo(public.claim)
  /\ public.root = globals.root /\ public.root = AllowedRoot
  /\ public.id = code /\ public.id = IdentityId

\* The public inputs are the seal's control root, claim digest and code root.
Bound ==
  /\ globals.fit /\ PacksTo(public.claim)
  /\ public.root = globals.root
  /\ public.id = code

BindClaim == pc = "bind" /\ Assert(Bound)

Next ==
  \/ CommitGlobals \/ CommitTop \/ CommitU
  \/ DrawMain \/ AssertValidity \/ CommitFri \/ DrawMix \/ CommitFinal
  \/ DrawPos \/ OpenQuery \/ BindClaim

Spec == Init /\ [][Next]_vars

-----------------------------------------------------------------------------
(* Properties *)

\* driver.go:193-196: the circuit is satisfied only for public inputs that
\* name a program, a control root and a claim digest with an execution behind
\* them, whatever seal the witness was taken from.
Sound ==
  pc = "accepted" => <<public.root, public.claim, public.id>> \in Executions

\* ... and an honest prover's seal for the public inputs is never refused.
HonestAccepted == pc = "rejected" => ~honest

PC == INSTANCE PublicCoin

\* driver.go:58-66: the challenges are bound to the seal by Fiat-Shamir: none
\* can be known while a part that it tests is still open.
BoundByTranscript == PC!Spec
=============================================================================
