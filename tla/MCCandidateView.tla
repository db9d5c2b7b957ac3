---------------------------- MODULE MCCandidateView ----------------------------
(* CandidateView for model checking: a list of two rows and one of one.    *)
EXTENDS CandidateView, TLC

CONSTANTS long, short

MCSize == (long :> 2) @@ (short :> 1)

===============================================================================
