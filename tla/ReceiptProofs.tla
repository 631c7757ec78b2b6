--------------------------- MODULE ReceiptProofs ---------------------------
(***************************************************************************)
(* The receipt verifier is sound and its transcript binds, for any number  *)
(* of FRI rounds and queries and any set of true statements.               *)
(*                                                                         *)
(* The argument: a challenge is drawn only when every part it tests has    *)
(* been absorbed (Committed), so no part was fixed knowing a challenge     *)
(* that tests it (Blind), so no assertion can be met by a lie aimed at it. *)
(* Each assertion passed then moves a lie one part to the left: from the   *)
(* data to the U coefficients (PastValidity), from there to a FRI part     *)
(* (FoldedFrom), where a query finds it (PastQueries).                     *)
(***************************************************************************)
EXTENDS Receipt, TLAPS

-----------------------------------------------------------------------------
\* What has been absorbed at each step of the pass.
Before(place) ==
  CASE place = "globals" -> {}
    [] place = "code" -> {Globals}
    [] place = "data" -> {Globals, Code}
    [] place \in {"accumMix", "accum"} -> {Globals, Code, Data}
    [] place \in {"polyMix", "check"} -> Columns
    [] place \in {"z", "u"} -> Columns \cup {Check}
    [] place \in {"validity", "friMix"} -> Columns \cup {Check, UCoeffs}
    [] place \in {"fri", "mix", "final"} ->
         Columns \cup {Check, UCoeffs} \cup {Fri(r) : r \in 1 .. round}
    [] OTHER -> Part

Early == {"globals", "code", "data", "accumMix", "accum", "polyMix", "check", "z", "u",
          "validity", "friMix"}
Late == {"final", "pos", "open", "bind", "accepted"}

\* The loops' counters.
Counting ==
  /\ pc \in Early => round = 0
  /\ pc = "fri" => round < NRounds
  /\ pc = "mix" => round >= 1
  /\ pc \in Late => round = NRounds
  /\ pc = "open" => query >= 1
  /\ pc = "pos" => query < NQueries
  /\ pc \in Early \cup {"fri", "mix", "final"} => query = 0

Absorbed == pc # "rejected" => sent = Before(pc)

\* What a challenge tests was absorbed before it was drawn.
Committed == \A c \in known : Tests[c] \subseteq sent

\* No part was fixed knowing a challenge that tests it.
Blind == \A c \in Challenge : ~Foreseen(c)

\* Only a true statement has an execution.
Executed == Data \in sent /\ Data \notin lies => Statement \in Executions

\* Past the validity check, a lie about the execution is one about the U
\* coefficients too.
PastValidity ==
  pc \in {"friMix", "fri", "mix"} \cup Late => UCoeffs \in lies \/ lies \cap {Data, Accum, Check} = {}

\* A lie about the U coefficients is one about a FRI part too.
FoldedFrom ==
  Final \in sent /\ UCoeffs \in lies => lies \cap (FriParts \cup {Final}) # {}

\* Past the queries, no FRI part is a lie.
PastQueries == pc \in {"bind", "accepted"} => lies \cap (FriParts \cup {Final}) = {}

PublicBound ==
  pc = "accepted" => <<public.root, public.claim, public.id>> = Statement

\* An honest prover's seal has no lies in it and belongs to the public inputs.
Honesty ==
  honest => lies = {} /\ Bound /\ globals.po2 = 18

Transcript == TypeOK /\ Counting /\ Absorbed /\ Committed /\ Blind

Chain ==
  /\ Executed /\ PastValidity /\ FoldedFrom /\ PastQueries /\ PublicBound
  /\ Honesty /\ HonestAccepted

IInv == Transcript /\ Chain

-----------------------------------------------------------------------------
(* Parts and challenges. *)

USE ReceiptAssumption

LEMMA PartsApart ==
  /\ Columns \subseteq Part /\ FriParts \subseteq Part
  /\ {Globals, Code, Data, Accum, Check, UCoeffs, Final} \subseteq Part
  /\ \A r \in 1 .. NRounds : Fri(r) \in FriParts
  /\ {Globals, Code, Data, Accum, Check, UCoeffs, Final} \cap FriParts = {}
  /\ {Globals, Code, Data, Accum} = Columns
  /\ Globals # Code /\ Globals # Data /\ Globals # Accum /\ Globals # Check
  /\ Globals # UCoeffs /\ Globals # Final
  /\ Code # Data /\ Code # Accum /\ Code # Check /\ Code # UCoeffs /\ Code # Final
  /\ Data # Accum /\ Data # Check /\ Data # UCoeffs /\ Data # Final
  /\ Accum # Check /\ Accum # UCoeffs /\ Accum # Final
  /\ Check # UCoeffs /\ Check # Final /\ UCoeffs # Final
BY DEF Part, Columns, FriParts, Globals, Code, Data, Accum, Check, UCoeffs, Final, Fri

LEMMA FriApart == \A r, k \in Nat : Fri(r) = Fri(k) <=> r = k
BY DEF Fri

LEMMA ChallengesAre ==
  /\ {AccumMix, PolyMix, Z, FriMix} \subseteq Challenge
  /\ \A r \in 1 .. NRounds : Mix(r) \in Challenge
  /\ \A q \in 1 .. NQueries : Pos(q) \in Challenge
BY DEF Challenge

LEMMA TestsAre ==
  /\ Tests[AccumMix] = {Globals, Code, Data}
  /\ Tests[PolyMix] = Columns
  /\ Tests[Z] = Columns \cup {Check}
  /\ Tests[FriMix] = Columns \cup {Check, UCoeffs}
  /\ \A r \in 1 .. NRounds :
        Tests[Mix(r)] = Columns \cup {Check, UCoeffs} \cup {Fri(k) : k \in 1 .. r}
  /\ \A q \in 1 .. NQueries : Tests[Pos(q)] = Part
BY ChallengesAre DEF Tests, AccumMix, PolyMix, Z, FriMix, Mix, Pos

LEMMA TestsTyped == Tests \in [Challenge -> SUBSET Part]
<1>1. \A c \in Challenge : Tests[c] \subseteq Part
  <2> SUFFICES ASSUME NEW c \in Challenge PROVE Tests[c] \subseteq Part
    OBVIOUS
  <2>1. CASE c \in {AccumMix, PolyMix, Z, FriMix}
    BY <2>1, TestsAre, PartsApart
  <2>2. CASE \E r \in 1 .. NRounds : c = Mix(r)
    BY <2>2, TestsAre, PartsApart
  <2>3. CASE \E q \in 1 .. NQueries : c = Pos(q)
    BY <2>3, TestsAre
  <2> QED
    BY <2>1, <2>2, <2>3 DEF Challenge
<1> QED
  BY <1>1 DEF Tests

-----------------------------------------------------------------------------
(* The transcript. *)

\* Absorbing a part that was not absorbed before.
LEMMA AbsorbBinds ==
  ASSUME TypeOK, Committed, Blind, NEW s \in Part, s \notin sent,
         sent' = sent \cup {s}, knew' = [knew EXCEPT ![s] = known], known' = known
  PROVE  Committed' /\ Blind' /\ sent' \subseteq Part /\ knew' \in [Part -> SUBSET Challenge]
<1>1. Committed'
  BY DEF Committed
<1>2. knew' \in [Part -> SUBSET Challenge]
  BY DEF TypeOK
<1>3. Blind'
  <2> SUFFICES ASSUME NEW c \in Challenge, NEW t \in Tests[c], c \in knew'[t] PROVE FALSE
    BY DEF Blind, Foreseen
  <2>1. t \in Part
    BY TestsTyped
  <2>2. CASE t = s
    BY <2>2 DEF TypeOK, Committed
  <2>3. CASE t # s
    BY <2>1, <2>3 DEF TypeOK, Blind, Foreseen
  <2> QED
    BY <2>2, <2>3
<1> QED
  BY <1>1, <1>2, <1>3 DEF TypeOK

\* Drawing a challenge when what it tests has been absorbed.
LEMMA DrawBinds ==
  ASSUME TypeOK, Committed, Blind, NEW c \in Challenge, Tests[c] \subseteq sent,
         known' = known \cup {c}, UNCHANGED <<sent, knew>>
  PROVE  Committed' /\ Blind' /\ known' \subseteq Challenge
BY DEF TypeOK, Committed, Blind, Foreseen

-----------------------------------------------------------------------------
(* One lemma per action. *)

LEMMA RejectStep ==
  ASSUME IInv, NEW fair \in BOOLEAN, Reject(fair), ~(honest /\ fair)
  PROVE  IInv'
<1>1. honest' = FALSE
  BY DEF Reject, IInv, Transcript, TypeOK
<1>2. /\ pc' = "rejected"
      /\ UNCHANGED <<public, round, query, globals, code, sent, known, knew, lies>>
  BY DEF Reject
<1>3. Transcript'
  BY <1>1, <1>2 DEF IInv, Transcript, TypeOK, Phases, Counting, Early, Late, Absorbed, Committed,
     Blind, Foreseen
<1>4. Chain'
  BY <1>1, <1>2 DEF IInv, Chain, Executed, Statement, PastValidity, Late, FoldedFrom, PastQueries,
     PublicBound, Honesty, HonestAccepted
<1> QED
  BY <1>3, <1>4 DEF IInv

\* What absorbing a part of an accepted range does, for the steps before the
\* final polynomial.
LEMMA AbsorbStep ==
  ASSUME IInv, NEW s \in Part \ {Final}, s \notin sent, NEW lie \in BOOLEAN,
         Absorb(s, lie, TRUE), round' \in 0 .. NRounds, Final \notin sent,
         pc' \in Phases \ (Late \cup {"rejected", "bind", "friMix", "fri"}),
         pc' = "mix" => s \in FriParts /\ pc = "fri",
         s = Data /\ ~lie => Statement \in Executions,
         Counting', Absorbed'
  PROVE  IInv'
<1>1. /\ sent' = sent \cup {s} /\ knew' = [knew EXCEPT ![s] = known]
      /\ lies' = IF lie THEN lies \cup {s} ELSE lies
      /\ UNCHANGED <<public, query, globals, code, known>>
  BY DEF Absorb
<1>2. honest' \in BOOLEAN /\ (honest' => honest /\ ~lie)
  BY Zenon DEF Absorb
<1>3. Transcript'
  <2>1. Committed' /\ Blind' /\ sent' \subseteq Part /\ knew' \in [Part -> SUBSET Challenge]
    BY <1>1, AbsorbBinds DEF IInv, Transcript
  <2> QED
    BY <1>1, <1>2, <2>1 DEF IInv, Transcript, TypeOK
<1>4. Executed'
  BY <1>1, PartsApart DEF IInv, Chain, Executed, Statement
<1>5. PastValidity'
  BY <1>1, PartsApart DEF IInv, Chain, PastValidity, Late
<1>6. FoldedFrom' /\ PastQueries' /\ PublicBound' /\ HonestAccepted'
  BY <1>1 DEF IInv, Chain, FoldedFrom, PastQueries, PublicBound, HonestAccepted, Late
<1>7. Honesty'
  BY <1>1, <1>2 DEF IInv, Chain, Honesty, Bound, PacksTo
<1> QED
  BY <1>3, <1>4, <1>5, <1>6, <1>7 DEF IInv, Chain

LEMMA CommitGlobalsStep == ASSUME IInv, CommitGlobals PROVE IInv'
<1>1. PICK canonical \in BOOLEAN :
        IF canonical /\ globals.po2 = 18
        THEN Absorb(Globals, FALSE, canonical) /\ UNCHANGED round
        ELSE Reject(canonical)
  BY DEF CommitGlobals, Ingested
<1>2. pc = "globals" /\ sent = {} /\ round = 0 /\ round \in 0 .. NRounds /\ query = 0
  BY DEF CommitGlobals, TypeOK, IInv, Transcript, Absorbed, Before, Counting, Early
<1>3. CASE canonical /\ globals.po2 = 18
  <2>1. Absorb(Globals, FALSE, TRUE) /\ UNCHANGED round
    BY <1>1, <1>3
  <2>2. pc' = "code" /\ sent' = {Globals}
    BY <1>2, <2>1 DEF Absorb, After
  <2>3. Counting' /\ Absorbed'
    BY <1>2, <2>1, <2>2 DEF Absorb, Counting, Early, Late, Absorbed, Before
  <2> QED
    BY <1>2, <2>1, <2>2, <2>3, AbsorbStep, PartsApart DEF Phases, Late
<1>4. CASE ~(canonical /\ globals.po2 = 18)
  <2>1. ~(honest /\ canonical)
    BY <1>4 DEF IInv, Chain, Honesty
  <2> QED
    BY <1>1, <1>4, <2>1, RejectStep
<1> QED
  BY <1>3, <1>4

LEMMA CommitTopStep == ASSUME IInv, CommitTop PROVE IInv'
<1>1. PICK s \in {Code, Data, Accum, Check}, lie \in BOOLEAN :
        /\ pc = s[1]
        /\ s = Data /\ ~lie => Statement \in Executions
        /\ Absorb(s, lie, TRUE)
        /\ UNCHANGED round
  BY DEF CommitTop
<1>2. s \in Part \ {Final}
  BY PartsApart
<1>3. \/ s = Code /\ pc = "code"
      \/ s = Data /\ pc = "data"
      \/ s = Accum /\ pc = "accum"
      \/ s = Check /\ pc = "check"
  <2>1. Code[1] = "code" /\ Data[1] = "data" /\ Accum[1] = "accum" /\ Check[1] = "check"
    BY DEF Code, Data, Accum, Check
  <2> QED
    BY <1>1, <2>1
<1>4. round = 0 /\ query = 0 /\ sent = Before(pc) /\ s \notin sent /\ Final \notin sent
  BY <1>3, PartsApart DEF IInv, Transcript, Absorbed, Before, Counting, Early
<1>5. /\ pc' = CASE pc = "code" -> "data" [] pc = "data" -> "accumMix"
                 [] pc = "accum" -> "polyMix" [] pc = "check" -> "z"
      /\ sent' = sent \cup {s} /\ query' = query
  BY <1>1, <1>3 DEF Absorb, After
<1>6. Counting'
  BY <1>1, <1>3, <1>4, <1>5 DEF Counting, Early, Late
<1>7. Absorbed'
  BY <1>3, <1>4, <1>5, PartsApart DEF Absorbed, Before
<1> QED
  BY <1>1, <1>2, <1>3, <1>4, <1>5, <1>6, <1>7, AbsorbStep DEF Phases, Late, IInv, Transcript, TypeOK

LEMMA CommitUStep == ASSUME IInv, CommitU PROVE IInv'
<1>1. PICK lie \in BOOLEAN, canonical \in BOOLEAN :
        IF canonical THEN Absorb(UCoeffs, lie, canonical) /\ UNCHANGED round ELSE Reject(FALSE)
  BY DEF CommitU, Ingested
<1>2. /\ pc = "u" /\ round = 0 /\ round \in 0 .. NRounds /\ query = 0
      /\ sent = Columns \cup {Check}
  BY DEF CommitU, TypeOK, IInv, Transcript, Absorbed, Before, Counting, Early
<1>3. CASE canonical
  <2>1. Absorb(UCoeffs, lie, TRUE) /\ UNCHANGED round
    BY <1>1, <1>3
  <2>2. pc' = "validity" /\ sent' = Columns \cup {Check, UCoeffs}
    BY <1>2, <2>1 DEF Absorb, After
  <2>3. Counting' /\ Absorbed'
    BY <1>2, <2>1, <2>2 DEF Absorb, Counting, Early, Late, Absorbed, Before
  <2>4. UCoeffs \in Part \ {Final} /\ UCoeffs \notin sent /\ Final \notin sent /\ UCoeffs # Data
    BY <1>2, PartsApart
  <2> QED
    BY <1>2, <2>1, <2>2, <2>3, <2>4, AbsorbStep DEF Phases, Late
<1>4. CASE ~canonical
  BY <1>1, <1>4, RejectStep
<1> QED
  BY <1>3, <1>4

LEMMA DrawMainStep == ASSUME IInv, DrawMain PROVE IInv'
<1>1. PICK c \in {AccumMix, PolyMix, Z, FriMix} :
        pc = c[1] /\ Draw(c) /\ pc' = After[pc] /\ UNCHANGED query
  BY DEF DrawMain
<1>2. \/ c = AccumMix /\ pc = "accumMix" /\ pc' = "accum"
      \/ c = PolyMix /\ pc = "polyMix" /\ pc' = "check"
      \/ c = Z /\ pc = "z" /\ pc' = "u"
      \/ c = FriMix /\ pc = "friMix" /\ pc' = "fri"
  BY <1>1 DEF After, AccumMix, PolyMix, Z, FriMix
<1>3. round = 0 /\ query = 0 /\ sent = Before(pc)
  BY <1>2 DEF IInv, Transcript, Absorbed, Counting, Early
<1>4. known' = known \cup {c} /\ UNCHANGED <<public, round, query, globals, code, sent, knew, lies, honest>>
  BY <1>1 DEF Draw
<1>5. Tests[c] \subseteq sent
  BY <1>2, <1>3, TestsAre DEF Before
<1>6. Committed' /\ Blind' /\ known' \subseteq Challenge
  BY <1>4, <1>5, DrawBinds, ChallengesAre DEF IInv, Transcript
<1>7. TypeOK'
  BY <1>2, <1>4, <1>6 DEF IInv, Transcript, TypeOK, Phases
<1>8. Counting'
  BY <1>2, <1>3, <1>4 DEF Counting, Early, Late
<1>9. Absorbed'
  BY <1>2, <1>3, <1>4 DEF Absorbed, Before
<1>10. Chain'
  BY <1>2, <1>4 DEF IInv, Chain, Executed, Statement, PastValidity, Late, FoldedFrom, PastQueries,
     PublicBound, Honesty, HonestAccepted, Bound, PacksTo
<1> QED
  BY <1>6, <1>7, <1>8, <1>9, <1>10 DEF IInv, Transcript

LEMMA AssertValidityStep == ASSUME IInv, AssertValidity PROVE IInv'
<1>1. pc = "validity" /\ Assert(ValidityHolds)
  BY DEF AssertValidity
<1>2. ~Foreseen(AccumMix) /\ ~Foreseen(PolyMix) /\ ~Foreseen(Z)
  BY ChallengesAre DEF IInv, Transcript, Blind
<1>3. CASE ValidityHolds
  <2>1. /\ pc' = "friMix"
        /\ UNCHANGED <<public, round, query, globals, code, sent, known, knew, lies, honest>>
    BY <1>1, <1>3 DEF Assert, After
  <2>2. UCoeffs \in lies \/ lies \cap {Data, Accum, Check} = {}
    BY <1>2, <1>3 DEF ValidityHolds, OffAtZ, Broken
  <2>3. Transcript'
    BY <1>1, <2>1 DEF IInv, Transcript, TypeOK, Phases, Counting, Early, Late, Absorbed, Before,
       Committed, Blind, Foreseen
  <2>4. Chain'
    BY <1>1, <2>1, <2>2 DEF IInv, Chain, Executed, Statement, PastValidity, Late, FoldedFrom,
       PastQueries, PublicBound, Honesty, HonestAccepted, Bound, PacksTo
  <2> QED
    BY <2>3, <2>4 DEF IInv
<1>4. CASE ~ValidityHolds
  <2>1. Reject(TRUE)
    BY <1>1, <1>4 DEF Assert
  <2>2. ~honest
    BY <1>4 DEF IInv, Chain, Honesty, ValidityHolds, OffAtZ, Broken
  <2> QED
    BY <2>1, <2>2, RejectStep
<1> QED
  BY <1>3, <1>4

LEMMA CommitFriStep == ASSUME IInv, CommitFri PROVE IInv'
<1>1. pc = "fri" /\ round' = round + 1 /\ pc' = "mix"
  BY DEF CommitFri, Absorb, After
<1>2. PICK lie \in BOOLEAN : Absorb(Fri(round'), lie, TRUE)
  BY DEF CommitFri
<1>3. round \in Nat /\ round' \in 1 .. NRounds
  BY <1>1 DEF IInv, Transcript, TypeOK, Counting
<1>4. sent = Columns \cup {Check, UCoeffs} \cup {Fri(r) : r \in 1 .. round}
  BY <1>1 DEF IInv, Transcript, Absorbed, Before
<1>5. Fri(round') \in FriParts
  BY <1>3, PartsApart
<1>6. Fri(round') \notin sent /\ Final \notin sent
  <2>1. \A r \in 1 .. round : r \in 1 .. NRounds /\ r # round' /\ r \in Nat
    BY <1>1, <1>3
  <2>2. \A r \in 1 .. round : Fri(r) # Fri(round')
    BY <1>3, <2>1, FriApart
  <2>3. \A r \in 1 .. round : Fri(r) \in FriParts
    BY <2>1, PartsApart
  <2> QED
    BY <1>4, <1>5, <2>2, <2>3, PartsApart
<1>7. Counting'
  <2>1. query = 0 /\ query' = query
    BY <1>1, <1>2 DEF IInv, Transcript, Counting, Absorb
  <2> QED
    BY <1>1, <1>3, <2>1 DEF Counting, Early, Late
<1>8. Absorbed'
  <2>1. sent' = sent \cup {Fri(round')}
    BY <1>2 DEF Absorb
  <2>2. 1 .. round' = (1 .. round) \cup {round'}
    BY <1>1, <1>3
  <2>3. {Fri(r) : r \in 1 .. round'} = {Fri(r) : r \in 1 .. round} \cup {Fri(round')}
    BY <2>2
  <2> QED
    BY <1>1, <1>4, <2>1, <2>3 DEF Absorbed, Before
<1>9. PICK s \in FriParts : s = Fri(round')
  BY <1>5
<1>10. s \in Part \ {Final} /\ s # Data /\ s \notin sent /\ Absorb(s, lie, TRUE)
  BY <1>2, <1>6, <1>9, PartsApart
<1>11. round' \in 0 .. NRounds /\ pc' \in Phases \ (Late \cup {"rejected", "bind", "friMix", "fri"})
  BY <1>1, <1>3 DEF Phases, Late
<1> QED
  BY <1>1, <1>6, <1>7, <1>8, <1>10, <1>11, AbsorbStep

LEMMA DrawMixStep == ASSUME IInv, DrawMix PROVE IInv'
<1>1. /\ pc = "mix" /\ known' = known \cup {Mix(round)}
      /\ pc' = IF round < NRounds THEN "fri" ELSE "final"
      /\ UNCHANGED <<public, round, query, globals, code, sent, knew, lies, honest>>
  BY DEF DrawMix, MoreRounds, Draw
<1>2. round \in 1 .. NRounds /\ query = 0
  BY <1>1 DEF IInv, Transcript, TypeOK, Counting
<1>3. sent = Columns \cup {Check, UCoeffs} \cup {Fri(r) : r \in 1 .. round}
  BY <1>1 DEF IInv, Transcript, Absorbed, Before
<1>4. Tests[Mix(round)] \subseteq sent
  BY <1>2, <1>3, TestsAre
<1>5. Committed' /\ Blind' /\ known' \subseteq Challenge
  BY <1>1, <1>2, <1>4, DrawBinds, ChallengesAre DEF IInv, Transcript
<1>6. TypeOK'
  BY <1>1, <1>5 DEF IInv, Transcript, TypeOK, Phases
<1>7. Counting'
  BY <1>1, <1>2 DEF Counting, Early, Late
<1>8. Absorbed'
  BY <1>1, <1>3 DEF Absorbed, Before
<1>9. Chain'
  BY <1>1 DEF IInv, Chain, Executed, Statement, PastValidity, Late, FoldedFrom, PastQueries,
     PublicBound, Honesty, HonestAccepted, Bound, PacksTo
<1> QED
  BY <1>5, <1>6, <1>7, <1>8, <1>9 DEF IInv, Transcript

LEMMA CommitFinalStep == ASSUME IInv, CommitFinal PROVE IInv'
<1>1. PICK lie \in BOOLEAN, canonical \in BOOLEAN :
        /\ ~lie => ~StillFar
        /\ IF canonical THEN Absorb(Final, lie, canonical) /\ UNCHANGED round ELSE Reject(FALSE)
  BY DEF CommitFinal, Ingested
<1>2. /\ pc = "final" /\ round = NRounds /\ query = 0
      /\ sent = Columns \cup {Check, UCoeffs} \cup {Fri(r) : r \in 1 .. round}
  BY DEF CommitFinal, IInv, Transcript, Absorbed, Before, Counting, Late
<1>3. sent = Columns \cup {Check, UCoeffs} \cup FriParts /\ Final \notin sent /\ Final \in Part
  BY <1>2, PartsApart DEF FriParts
<1>4. CASE canonical
  <2>1. /\ sent' = sent \cup {Final} /\ knew' = [knew EXCEPT ![Final] = known]
        /\ lies' = (IF lie THEN lies \cup {Final} ELSE lies)
        /\ pc' = "pos"
        /\ UNCHANGED <<public, round, query, globals, code, known>>
    BY <1>1, <1>2, <1>4 DEF Absorb, After
  <2>2. Absorb(Final, lie, canonical)
    BY <1>1, <1>4
  <2>3. honest' \in BOOLEAN /\ (honest' => honest /\ ~lie)
    BY <2>2, Zenon DEF Absorb
  <2>4. Committed' /\ Blind' /\ sent' \subseteq Part /\ knew' \in [Part -> SUBSET Challenge]
    BY <1>3, <2>1, AbsorbBinds DEF IInv, Transcript
  <2>5. TypeOK'
    BY <2>1, <2>3, <2>4 DEF IInv, Transcript, TypeOK, Phases
  <2>6. Counting'
    BY <1>2, <2>1 DEF Counting, Early, Late
  <2>7. Absorbed'
    BY <1>3, <2>1 DEF Absorbed, Before, Part
  <2>8. FoldedFrom'
    <3>1. CASE lie
      BY <2>1, <3>1 DEF FoldedFrom
    <3>2. CASE ~lie /\ UCoeffs \in lies
      <4>1. \A c \in Challenge : ~Foreseen(c)
        BY DEF IInv, Transcript, Blind
      <4>2. \E r \in 1 .. NRounds : Fri(r) \in lies
        BY <1>1, <3>2, <4>1, ChallengesAre DEF StillFar, Far
      <4> QED
        BY <2>1, <3>2, <4>2, PartsApart DEF FoldedFrom
    <3>3. CASE ~lie /\ UCoeffs \notin lies
      BY <2>1, <3>3 DEF FoldedFrom
    <3> QED
      BY <3>1, <3>2, <3>3
  <2>9. Executed' /\ PastValidity'
    BY <1>2, <2>1, PartsApart DEF IInv, Chain, Executed, Statement, PastValidity, Late
  <2>10. PastQueries' /\ PublicBound' /\ Honesty' /\ HonestAccepted'
    BY <2>1, <2>3 DEF IInv, Chain, PastQueries, PublicBound, Honesty, HonestAccepted, Bound, PacksTo
  <2> QED
    BY <2>4, <2>5, <2>6, <2>7, <2>8, <2>9, <2>10 DEF IInv, Transcript, Chain
<1>5. CASE ~canonical
  BY <1>1, <1>5, RejectStep
<1> QED
  BY <1>4, <1>5

LEMMA DrawPosStep == ASSUME IInv, DrawPos PROVE IInv'
<1>1. /\ pc = "pos" /\ pc' = "open" /\ query' = query + 1 /\ known' = known \cup {Pos(query')}
      /\ UNCHANGED <<public, round, globals, code, sent, knew, lies, honest>>
  BY DEF DrawPos, Draw, After
<1>2. query' \in 1 .. NQueries /\ round = NRounds /\ sent = Part
  BY <1>1 DEF IInv, Transcript, TypeOK, Counting, Late, Absorbed, Before
<1>3. Committed' /\ Blind' /\ known' \subseteq Challenge
  BY <1>1, <1>2, DrawBinds, ChallengesAre, TestsAre DEF IInv, Transcript
<1>4. TypeOK'
  BY <1>1, <1>2, <1>3 DEF IInv, Transcript, TypeOK, Phases
<1>5. Counting' /\ Absorbed'
  BY <1>1, <1>2 DEF Counting, Early, Late, Absorbed, Before
<1>6. Chain'
  BY <1>1 DEF IInv, Chain, Executed, Statement, PastValidity, Late, FoldedFrom, PastQueries,
     PublicBound, Honesty, HonestAccepted, Bound, PacksTo
<1> QED
  BY <1>3, <1>4, <1>5, <1>6 DEF IInv, Transcript

LEMMA OpenQueryStep == ASSUME IInv, OpenQuery PROVE IInv'
<1>1. /\ pc = "open" /\ round = NRounds /\ sent = Part /\ query \in 1 .. NQueries
  BY DEF OpenQuery, IInv, Transcript, TypeOK, Counting, Late, Absorbed, Before
<1>2. PICK forged \in SUBSET Trees, canonical \in BOOLEAN :
        IF canonical /\ OpeningsHold(forged, canonical) /\ FoldsHold(query, forged)
        THEN /\ pc' = (IF query < NQueries THEN "pos" ELSE "bind")
             /\ honest' = (honest /\ forged = {} /\ canonical)
             /\ UNCHANGED <<public, round, query, globals, code, sent, known, knew, lies>>
        ELSE Reject(forged = {} /\ canonical)
  BY DEF OpenQuery, Ingested
<1>3. \A s \in Part : Pos(query) \notin knew[s]
  BY <1>1, ChallengesAre, TestsAre DEF IInv, Transcript, Blind, Foreseen
<1>4. CASE canonical /\ forged = {} /\ FoldsHold(query, forged)
  <2>1. lies \cap (FriParts \cup {Final}) = {}
    BY <1>3, <1>4, PartsApart DEF FoldsHold
  <2>2. /\ pc' = (IF query < NQueries THEN "pos" ELSE "bind")
        /\ honest' = honest
        /\ UNCHANGED <<public, round, query, globals, code, sent, known, knew, lies>>
    BY <1>2, <1>4 DEF OpeningsHold, IInv, Transcript, TypeOK
  <2>3. Transcript'
    BY <1>1, <2>2 DEF IInv, Transcript, TypeOK, Phases, Counting, Early, Late, Absorbed, Before,
       Committed, Blind, Foreseen
  <2>4. Chain'
    BY <1>1, <2>1, <2>2 DEF IInv, Chain, Executed, Statement, PastValidity, Late, FoldedFrom,
       PastQueries, PublicBound, Honesty, HonestAccepted, Bound, PacksTo
  <2> QED
    BY <2>3, <2>4 DEF IInv
<1>5. CASE ~(canonical /\ forged = {} /\ FoldsHold(query, forged))
  <2>1. Reject(forged = {} /\ canonical)
    BY <1>2, <1>5 DEF OpeningsHold
  <2>2. honest => FoldsHold(query, forged)
    BY DEF IInv, Chain, Honesty, FoldsHold
  <2> QED
    BY <1>5, <2>1, <2>2, RejectStep
<1> QED
  BY <1>4, <1>5

LEMMA BindClaimStep == ASSUME IInv, BindClaim PROVE IInv'
<1>1. pc = "bind" /\ Assert(Bound)
  BY DEF BindClaim
<1>2. CASE Bound
  <2>1. /\ pc' = "accepted"
        /\ UNCHANGED <<public, round, query, globals, code, sent, known, knew, lies, honest>>
    BY <1>1, <1>2 DEF Assert, After
  <2>2. <<public.root, public.claim, public.id>> = Statement
    BY <1>2 DEF Bound, PacksTo, Statement
  <2>3. Transcript'
    BY <1>1, <2>1 DEF IInv, Transcript, TypeOK, Phases, Counting, Early, Late, Absorbed, Before,
       Committed, Blind, Foreseen
  <2>4. Chain'
    BY <1>1, <2>1, <2>2 DEF IInv, Chain, Executed, Statement, PastValidity, Late, FoldedFrom,
       PastQueries, PublicBound, Honesty, HonestAccepted, Bound, PacksTo
  <2> QED
    BY <2>3, <2>4 DEF IInv
<1>3. CASE ~Bound
  <2>1. Reject(TRUE)
    BY <1>1, <1>3 DEF Assert
  <2>2. ~honest
    BY <1>3 DEF IInv, Chain, Honesty
  <2> QED
    BY <2>1, <2>2, RejectStep
<1> QED
  BY <1>2, <1>3

-----------------------------------------------------------------------------
LEMMA InitInv == Init => IInv
<1> SUFFICES ASSUME Init PROVE IInv
  OBVIOUS
<1>1. honest \in BOOLEAN
  BY Zenon DEF Init
<1>2. TypeOK
  BY <1>1 DEF Init, TypeOK, Phases
<1>3. Counting /\ Absorbed /\ Committed
  BY DEF Init, Counting, Early, Late, Absorbed, Before, Committed
<1>4. Blind
  BY TestsTyped DEF Init, Blind, Foreseen
<1>5. Honesty
  BY DEF Init, Honesty, Statement, Bound, PacksTo
<1>6. Executed /\ PastValidity /\ FoldedFrom /\ PastQueries /\ PublicBound /\ HonestAccepted
  BY DEF Init, Executed, PastValidity, Late, FoldedFrom, PastQueries, PublicBound, HonestAccepted
<1> QED
  BY <1>2, <1>3, <1>4, <1>5, <1>6 DEF IInv, Transcript, Chain

LEMMA NextInv == IInv /\ [Next]_vars => IInv'
<1>1. IInv /\ UNCHANGED vars => IInv'
  BY DEF IInv, Transcript, Chain, vars, TypeOK, Counting, Absorbed, Before, Committed, Blind,
     Foreseen, Executed, Statement, PastValidity, FoldedFrom, PastQueries, PublicBound, Honesty,
     HonestAccepted, Bound, PacksTo
<1>2. IInv /\ Next => IInv'
  BY CommitGlobalsStep, CommitTopStep, CommitUStep, DrawMainStep, AssertValidityStep,
     CommitFriStep, DrawMixStep, CommitFinalStep, DrawPosStep, OpenQueryStep, BindClaimStep
     DEF Next
<1> QED
  BY <1>1, <1>2

THEOREM Invariance == Spec => []IInv
BY InitInv, NextInv, PTL DEF Spec

\* Every variable keeps its type.
THEOREM TypeCorrect == Spec => []TypeOK
BY Invariance, PTL DEF IInv, Transcript

\* The circuit is satisfied for true statements only (driver.go:193-196).
THEOREM Soundness == Spec => []Sound
<1>1. IInv => Sound
  <2> SUFFICES ASSUME IInv, pc = "accepted"
               PROVE  <<public.root, public.claim, public.id>> \in Executions
    BY DEF Sound
  <2>1. sent = Part /\ lies \cap (FriParts \cup {Final}) = {}
    BY DEF IInv, Transcript, Absorbed, Before, Chain, PastQueries
  <2>2. UCoeffs \notin lies
    BY <2>1, PartsApart DEF IInv, Chain, FoldedFrom
  <2>3. Data \notin lies
    BY <2>2 DEF IInv, Chain, PastValidity, Late
  <2> QED
    BY <2>1, <2>3, PartsApart DEF IInv, Chain, Executed, PublicBound
<1> QED
  BY <1>1, Invariance, PTL

\* An honest prover's seal for the public inputs is never refused.
THEOREM Completeness == Spec => []HonestAccepted
BY Invariance, PTL DEF IInv, Chain

-----------------------------------------------------------------------------
(* The transcript implements the public-coin protocol. *)

\* Absorbing a new part commits the prover to it.
LEMMA AbsorbSends ==
  ASSUME Committed, NEW s \in Part, s \notin sent, NEW lie, NEW canonical,
         Absorb(s, lie, canonical)
  PROVE  PC!Next
BY DEF Committed, Absorb, PC!Next, PC!Send

LEMMA AbsorbsNew ==
  ASSUME IInv,
         NEW s \in Part, NEW lie, NEW canonical, Absorb(s, lie, canonical),
         \/ pc = "globals" /\ s = Globals
         \/ pc = s[1] /\ s \in {Code, Data, Accum, Check}
         \/ pc = "u" /\ s = UCoeffs
         \/ pc = "fri" /\ s = Fri(round + 1)
         \/ pc = "final" /\ s = Final
  PROVE  PC!Next
<1>1. Code[1] = "code" /\ Data[1] = "data" /\ Accum[1] = "accum" /\ Check[1] = "check"
  BY DEF Code, Data, Accum, Check
<1>2. CASE pc # "fri" /\ pc # "final"
  <2>1. s \notin sent
    BY <1>1, <1>2, PartsApart DEF IInv, Transcript, Absorbed, Before
  <2> QED
    BY <2>1, AbsorbSends DEF IInv, Transcript
<1>3. CASE pc = "fri" \/ pc = "final"
  <2>1. /\ round \in 0 .. NRounds /\ (pc = "fri" => round < NRounds)
        /\ sent = Columns \cup {Check, UCoeffs} \cup {Fri(r) : r \in 1 .. round}
    BY <1>3 DEF IInv, Transcript, TypeOK, Counting, Absorbed, Before
  <2>2. \A r \in 1 .. round : Fri(r) \in FriParts /\ Fri(r) # Fri(round + 1)
    BY <2>1, PartsApart, FriApart
  <2>3. Fri(round + 1) \in FriParts \/ pc = "final"
    BY <1>3, <2>1, PartsApart
  <2>4. s = Final \/ (s = Fri(round + 1) /\ s \in FriParts)
    BY <1>1, <1>3, <2>3, PartsApart
  <2>5. s \notin sent
    BY <2>1, <2>2, <2>4, PartsApart
  <2> QED
    BY <2>5, AbsorbSends DEF IInv, Transcript
<1> QED
  BY <1>2, <1>3

\* Drawing a challenge makes it known.
LEMMA DrawTosses ==
  ASSUME NEW c \in Challenge, Draw(c), Tests[c] \subseteq sent
  PROVE  PC!Next
BY DEF Draw, PC!Next, PC!Toss

LEMMA StepImplements == IInv /\ [Next]_vars => [PC!Next]_PC!vars
<1> SUFFICES ASSUME IInv, Next PROVE PC!Next \/ UNCHANGED PC!vars
  BY DEF vars, PC!vars
<1> DEFINE Still == UNCHANGED <<sent, known>>
<1>1. Still => UNCHANGED PC!vars
  BY DEF PC!vars
<1>2. CASE CommitGlobals
  BY <1>1, <1>2, AbsorbsNew, PartsApart DEF CommitGlobals, Reject
<1>3. CASE CommitTop
  BY <1>3, AbsorbsNew, PartsApart DEF CommitTop
<1>4. CASE CommitU
  BY <1>1, <1>4, AbsorbsNew, PartsApart DEF CommitU, Reject
<1>5. CASE CommitFri
  <2>1. pc = "fri" /\ round' = round + 1 /\ \E lie \in BOOLEAN : Absorb(Fri(round'), lie, TRUE)
    BY <1>5 DEF CommitFri
  <2>2. Fri(round + 1) \in Part
    BY <2>1, PartsApart DEF IInv, Transcript, TypeOK, Counting
  <2>3. PICK s \in Part : s = Fri(round + 1)
    BY <2>2
  <2>4. PICK lie \in BOOLEAN : Absorb(s, lie, TRUE)
    BY <2>1, <2>3
  <2> QED
    BY <2>1, <2>3, <2>4, AbsorbsNew
<1>6. CASE CommitFinal
  BY <1>1, <1>6, AbsorbsNew, PartsApart DEF CommitFinal, Reject
<1>7. CASE DrawMain
  <2>1. PICK c \in {AccumMix, PolyMix, Z, FriMix} : pc = c[1] /\ Draw(c)
    BY <1>7 DEF DrawMain
  <2>2. AccumMix[1] = "accumMix" /\ PolyMix[1] = "polyMix" /\ Z[1] = "z" /\ FriMix[1] = "friMix"
    BY DEF AccumMix, PolyMix, Z, FriMix
  <2>3. Tests[c] \subseteq sent
    BY <2>1, <2>2, TestsAre DEF IInv, Transcript, Absorbed, Before
  <2> QED
    BY <2>1, <2>3, ChallengesAre, DrawTosses
<1>8. CASE DrawMix
  <2>1. pc = "mix" /\ Draw(Mix(round)) /\ round \in 1 .. NRounds
    BY <1>8 DEF DrawMix, IInv, Transcript, TypeOK, Counting
  <2>2. Tests[Mix(round)] \subseteq sent
    BY <2>1, TestsAre DEF IInv, Transcript, Absorbed, Before
  <2> QED
    BY <2>1, <2>2, ChallengesAre, DrawTosses
<1>9. CASE DrawPos
  <2>1. pc = "pos" /\ query' = query + 1 /\ Draw(Pos(query')) /\ query' \in 1 .. NQueries
    BY <1>9 DEF DrawPos, IInv, Transcript, TypeOK, Counting
  <2>2. PICK c \in Challenge : c = Pos(query') /\ Draw(c)
    BY <2>1, ChallengesAre
  <2>3. Tests[c] \subseteq sent
    BY <2>1, <2>2, TestsAre DEF IInv, Transcript, Absorbed, Before
  <2> QED
    BY <2>2, <2>3, DrawTosses
<1>10. CASE AssertValidity
  BY <1>1, <1>10 DEF AssertValidity, Assert, Reject
<1>11. CASE OpenQuery
  BY <1>1, <1>11 DEF OpenQuery, Reject
<1>12. CASE BindClaim
  BY <1>1, <1>12 DEF BindClaim, Assert, Reject
<1> QED
  BY <1>2, <1>3, <1>4, <1>5, <1>6, <1>7, <1>8, <1>9, <1>10, <1>11, <1>12 DEF Next

\* The transcript binds: no challenge can be known while a part that it tests
\* is still open (driver.go:58-66).
THEOREM TranscriptBinds == Spec => BoundByTranscript
<1>1. Init => PC!Init
  BY DEF Init, PC!Init
<1> QED
  BY <1>1, StepImplements, Invariance, PTL DEF Spec, BoundByTranscript, PC!Spec
=============================================================================
