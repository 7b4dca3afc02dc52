---------------------------- MODULE EventStreamMC ----------------------------
(* Model values for checking EventStream with TLC. *)
EXTENDS EventStream, TLC

CONSTANTS w1, w2

TwoWorkers == {w1, w2}

\* The worker identities are interchangeable.
Symmetry == Permutations(Workers)
=============================================================================
