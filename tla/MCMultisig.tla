----------------------------- MODULE MCMultisig -----------------------------
(* Instances of Multisig for TLC. *)
EXTENDS Multisig, TLC

CONSTANTS u1, u2, u3

\* A wallet of two and one that lists a signer twice (CreateWallet allows it);
\* u3 signs neither.
MCSignerLists == {<<u1, u2>>, <<u1, u2, u2>>}
MCThree == {<<u1, u2, u3>>}

\* A proposal that never expires, and one that does at the first tick.
MCLifetimes == {Never, 0}

\* What the HTTP handler passes: nil.
MCNoExpiry == {Never}

Symmetry == Permutations(Calls)
=============================================================================
