---------------------------- MODULE JobStagesMC -----------------------------
(* Model values for checking JobStages with TLC. *)
EXTENDS JobStages

\* Every source, with and without an overall summary.
SomeConfigs == {[source |-> "local",  summary |-> FALSE],
                [source |-> "single", summary |-> TRUE],
                [source |-> "pair",   summary |-> TRUE]}
=============================================================================
