---------------------------- MODULE JobControlMC ----------------------------
(* Model values for checking JobControl with TLC. *)
EXTENDS JobControl, TLC

CONSTANTS w1, w2

OneWorker == {w1}
TwoWorkers == {w1, w2}

\* The worker identities are interchangeable.
Symmetry == Permutations(Workers)
=============================================================================
