----------------------------- MODULE PublicCoin -----------------------------
(***************************************************************************)
(* What a Fiat-Shamir transcript promises, whatever hash drives it: the    *)
(* prover is committed to a part of its proof before it can know a         *)
(* challenge that is to test it.                                           *)
(***************************************************************************)
CONSTANTS
  Part,        \* what the prover sends
  Challenge,   \* what the verifier tosses
  Tests        \* Tests[c]: the parts, a subset of Part, that challenge c is to test

VARIABLES
  sent,        \* parts the prover is committed to
  known        \* challenges it can know

vars == <<sent, known>>

Init == sent = {} /\ known = {}

\* The prover commits to a part; no challenge it knows is to test it.
Send(s) ==
  /\ s \notin sent
  /\ \A c \in known : s \notin Tests[c]
  /\ sent' = sent \cup {s}
  /\ UNCHANGED known

\* A challenge becomes known; everything it is to test is committed to.
Toss(c) ==
  /\ Tests[c] \subseteq sent
  /\ known' = known \cup {c}
  /\ UNCHANGED sent

Next == (\E s \in Part : Send(s)) \/ (\E c \in Challenge : Toss(c))

Spec == Init /\ [][Next]_vars
=============================================================================
