----------------------------- MODULE MCCeremony -----------------------------
(* A small instance of Ceremony for TLC. *)
EXTENDS Ceremony, TLC

\* Processes are interchangeable, and so are file names and contributors.
Symmetry == Permutations(Procs) \cup Permutations(Paths) \cup Permutations(Contributors)
=============================================================================
