------------------------------ MODULE JobStates ------------------------------
(***************************************************************************)
(* The execution states of a job and the transitions that                  *)
(* packages/core/state_machine.py allows between them.  "absent" stands    *)
(* for a job whose row was never inserted, "gone" for one whose row was    *)
(* deleted.                                                                *)
(***************************************************************************)

\* JobStatus of packages/contracts/models.py.
Statuses == {"queued", "running", "paused", "interrupted",
             "succeeded", "failed", "cancelled"}

\* The statuses no worker and no command leaves again.
Terminal == {"succeeded", "failed", "cancelled"}

\* _ALLOWED_JOB_TRANSITIONS.
Allowed == {<<"queued", "running">>, <<"queued", "cancelled">>,
            <<"queued", "interrupted">>,
            <<"running", "paused">>, <<"running", "interrupted">>,
            <<"running", "succeeded">>, <<"running", "failed">>,
            <<"running", "cancelled">>,
            <<"paused", "running">>, <<"paused", "cancelled">>,
            <<"interrupted", "queued">>, <<"interrupted", "cancelled">>}

RowStates == Statuses \cup {"absent", "gone"}
=============================================================================
