--------------------------- MODULE MCCardanoWire ----------------------------
(* CardanoWire for circuits of up to two public inputs and two commitments.  *)
EXTENDS CardanoWire

Pt(n) == n % NPoints

Key(nPublic, committed) ==
  LET n == Len(committed) IN
  [alpha |-> 1, beta |-> <<2, 2>>, gamma |-> <<0, 0>>, delta |-> <<1, 1>>,
   ic |-> [i \in 1 .. 1 + nPublic + n |-> Pt(i)],
   keys |-> [j \in 1 .. n |-> << <<0, 0>>, <<1, 1>> >>],
   committed |-> committed]

Artifact(nPublic, committed, limbs) ==
  [vk |-> Key(nPublic, committed),
   proof |-> [a |-> 2, b |-> <<1, 1>>, c |-> 0,
              commitments |-> [j \in 1 .. Len(committed) |-> Pt(j)], pok |-> 2],
   public |-> SubSeq(<<2, 1>>, 1, nPublic), limbs |-> limbs]

\* What commitments bind: nothing, as in this circuit, or some public inputs.
MCArtifacts ==
  {Artifact(n, c, 1) : n \in 0 .. 2, c \in {<<>>, << <<>> >>}}
  \cup {Artifact(1, << <<1>> >>, 1), Artifact(2, << <<2>> >>, 1),
        Artifact(2, << <<1, 2>> >>, 1), Artifact(1, << <<>>, <<1>> >>, 1),
        Artifact(2, << <<>> >>, 2),
        [Artifact(2, << <<1>> >>, 1) EXCEPT !.public = <<2, 2>>]}
=============================================================================
