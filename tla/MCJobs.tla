-------------------------------- MODULE MCJobs --------------------------------
(* Instances of Jobs for TLC. *)
EXTENDS Jobs, TLC

CONSTANTS j1, j2

\* j1 has a handler for its type, j2 has not.
MCRegistered == {j1}

Symmetry == Permutations(Workers)
=============================================================================
