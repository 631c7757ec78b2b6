---------------------------- MODULE MCProverKeys ----------------------------
(* Small instances of ProverKeys for TLC. *)
EXTENDS ProverKeys, TLC

\* Processes are interchangeable, and so are the dev generations.
Symmetry == Permutations(Procs) \cup Permutations(DevGens)
=============================================================================
