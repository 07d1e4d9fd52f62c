------------------------------ MODULE MCIpFilter ------------------------------
(* Instances of IpFilter for TLC.                                             *)
EXTENDS IpFilter, TLC

\* A rule without expiry and one that expires with the next tick.
MCLifetimes == {Never, 0}

Symmetry == Permutations(Rules)
=============================================================================
