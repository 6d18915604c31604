--------------------------- MODULE MCAtlasDaemon ---------------------------
(* Small instances of AtlasDaemon for TLC. *)
EXTENDS AtlasDaemon, TLC

\* Runs are interchangeable.
RunSymmetry == Permutations(Runs)

=============================================================================
