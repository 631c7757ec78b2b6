----------------------------- MODULE SetupStates -----------------------------
(***************************************************************************)
(* What the files of a trusted setup hold (go/cmd/ceremony/main.go), up to *)
(* what tells two of them apart: the state a phase began from, the secrets *)
(* folded into it and in which order, and the beacon that closed it.       *)
(*                                                                         *)
(* Phase 1 begins from a size; phase 2 begins from a sealed phase 1.  A    *)
(* state is known by what is folded into it: a valid update proof exists   *)
(* for one more secret and for nothing else (gnark's mpcsetup).            *)
(***************************************************************************)
EXTENDS Naturals, Sequences

CONSTANTS
  Contributors,  \* runs of a contribute command, each with a secret of its own
  Powers,        \* sizes phase 1 may be begun with
  Enough,        \* the sizes that hold the circuit
  Beacons,       \* public random values
  Outside,       \* what a file that is no state of this setup began from
  None

ASSUME SetupAssumption ==
  /\ Enough \subseteq Powers
  /\ Outside \notin Powers

Phases == {"phase1", "phase2"}

State(kind, root, chain) == [kind |-> kind, root |-> root, chain |-> chain, beacon |-> None]

\* mpcsetup Initialize: no secret folded in yet.
Initial(kind, root) == State(kind, root, <<>>)

\* mpcsetup Contribute: one more secret.
Contributed(s, c) == State(s.kind, s.root, Append(s.chain, c))

\* mpcsetup Seal: the beacon is the last contribution, known to everybody.
Sealed(kind, root, chain, b) == [kind |-> kind, root |-> root, chain |-> chain, beacon |-> b]

\* Initialize fails for a phase 1 that is too small for the circuit.
LargeEnough(k) == k.root \in Enough \cup {Outside}

\* A sealed phase 1, an uncontributed phase 2 and a phase 1 of another origin: a rehearsal's
\* files, or files damaged in a way that still decodes.
OutsideCommons == {Sealed("commons", Outside, <<>>, b) : b \in Beacons}
OutsideFiles == OutsideCommons \cup {Initial("phase1", Outside)}
                  \cup {Initial("phase2", k) : k \in OutsideCommons}

\* Every sealed phase 1 and every state of either phase.
Sizes == Powers \cup {Outside}
CommonsStates ==
  [kind : {"commons"}, root : Sizes, chain : Seq(Contributors), beacon : Beacons]
PhaseStates ==
  [kind : {"phase1"}, root : Sizes, chain : Seq(Contributors), beacon : {None}]
    \cup [kind : {"phase2"}, root : CommonsStates, chain : Seq(Contributors), beacon : {None}]
=============================================================================
