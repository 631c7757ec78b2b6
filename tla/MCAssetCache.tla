---------------------------- MODULE MCAssetCache ----------------------------
(* Small instances of AssetCache for TLC. *)
EXTENDS AssetCache, TLC

\* Processes and file bodies are interchangeable.
Symmetry == Permutations(Procs) \cup Permutations(Inodes)
=============================================================================
