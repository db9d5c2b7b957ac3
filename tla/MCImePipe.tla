------------------------------ MODULE MCImePipe ------------------------------
(* ImePipe for TLC: clients, and server processes, are interchangeable.    *)
(* Symmetry is used by the runs that check no liveness property only.      *)
EXTENDS ImePipe, TLC

Symmetry == Permutations(Clients) \cup Permutations(Servers)

=============================================================================
