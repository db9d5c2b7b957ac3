----------------------------- MODULE MCSharedTray -----------------------------
(* TLC instance of SharedTray: the applications are interchangeable.       *)
EXTENDS SharedTray, TLC

Symmetry == Permutations(Apps)
=============================================================================
