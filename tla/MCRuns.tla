------------------------------- MODULE MCRuns -------------------------------
(* Runs on small instances: clients are interchangeable.                   *)
EXTENDS Runs, TLC

MCSymmetry == Permutations(Clients)
=============================================================================
