----------------------------- MODULE JobControl -----------------------------
(***************************************************************************)
(* The job table of packages/infra/sqlite_repository.py shared by the      *)
(* worker processes of workers/single_host.py, which run the pipeline of   *)
(* packages/pipeline/orchestrator.py, and the API process, which runs the  *)
(* control commands of apps/api/service.py.                                *)
(*                                                                         *)
(* One action is one SQLite transaction (or one removal of a directory)    *)
(* with the local computation up to the next one: everything that another  *)
(* process can observe between two commits is a state of this model.       *)
(* Job identifiers are numbered in the order of jobs.created_at.           *)
(***************************************************************************)
EXTENDS JobStates, Naturals, FiniteSets

CONSTANTS
    NumJobs,         \* bound: how many jobs are ever created
    Workers,         \* worker identities (workers/single_host.py --worker-id)
    NumStages,       \* length of STAGE_SEQUENCE
    SingleInstance,  \* TRUE: worker.lock keeps all but one process out
    Faults,          \* which of "crash", "sigint", "api" may happen
    MaxFaults,       \* bound: how many faults happen
    MaxVersion,      \* bound: control requests accepted per job
    None             \* SQL NULL in worker_id

Jobs == 1..NumJobs
FaultKinds == {"crash", "sigint", "api"}

ASSUME ParameterAssumption ==
    /\ NumJobs \in Nat
    /\ NumStages \in Nat \ {0}
    /\ SingleInstance \in BOOLEAN
    /\ Faults \subseteq FaultKinds
    /\ MaxFaults \in Nat
    /\ MaxVersion \in Nat
    /\ None \notin Workers

VARIABLES
    row,     \* the jobs table
    ws,      \* whether runtime/.../jobs/<job> exists in the workspace
    wk,      \* the local state of each worker process
    api,     \* the control handler the API event loop is executing
    faults   \* faults so far

vars == <<row, ws, wk, api, faults>>

-----------------------------------------------------------------------------
(* The job table.                                                          *)

Active == {"queued", "running", "paused", "interrupted"}
Commands == {"none", "pause", "resume", "cancel"}

\* The columns of a job row that the control path reads.  fresh abstracts
\* heartbeat_at: it is younger than --stale-after.
Row == [status: RowStates, owner: Workers \cup {None}, attempt: Nat,
        fresh: BOOLEAN, cmd: Commands, ver: Nat, ack: Nat, sv: Nat,
        del: BOOLEAN]

NewRow(s) == [status |-> s, owner |-> None, attempt |-> 0, fresh |-> FALSE,
              cmd |-> "none", ver |-> 0, ack |-> 0, sv |-> 0, del |-> FALSE]

Exists(j) == row[j].status \in Statuses

\* control_version > control_ack_version: the request waits for its owner.
Pending(j) == row[j].ver > row[j].ack
PendingCommand(j) == IF Pending(j) THEN row[j].cmd ELSE "none"

Legal(s, t) == s = t \/ <<s, t>> \in Allowed

-----------------------------------------------------------------------------
(* The worker process.                                                     *)

\* Where a worker stands between two commits.
WorkerPC == {"down", "poll", "claim", "start", "read", "beat", "ack", "apply",
             "signal", "begin", "stage", "progress", "fail", "log", "succeed",
             "failure", "release", "quit"}

\* What the safety point it is in was reached for.
SafetyPoints == {"before", "after", "final", "error", "control"}

\* The claim a worker works for (job, attempt), the stage it is in (k), and
\* the pending command with its version as the safety point read them.
Local == [pc: WorkerPC, job: 0..NumJobs, attempt: Nat, k: 0..NumStages,
          point: SafetyPoints, cmd: Commands, ver: Nat]

Idle(pc) == [pc |-> pc, job |-> 0, attempt |-> 0, k |-> 0,
             point |-> "before", cmd |-> "none", ver |-> 0]

Holds(w) == wk[w].job # 0

\* The fence of every owned write: worker_id = ? AND attempt = ?.
Owns(w) == /\ Holds(w)
           /\ row[wk[w].job].owner = w
           /\ row[wk[w].job].attempt = wk[w].attempt

At(w, pc) == [wk[w] EXCEPT !.pc = pc]
Safety(w, k, point) == [wk[w] EXCEPT !.pc = "read", !.k = k, !.point = point]
Become(w, local) == wk' = [wk EXCEPT ![w] = local]

\* Mutant of SetJobStatus: the update is not fenced.
SetJobStatusUnfenced(w, t, done, lost) ==
    LET j == wk[w].job
    IN  /\ Legal(row[j].status, t)
        /\ row' = [row EXCEPT ![j].status = t, ![j].sv = @ + 1]
        /\ Become(w, done)

\* _set_job_status: read the row, check the transition, then update it under
\* the fence.  Losing the fence raises the INTERRUPTED signal, an illegal
\* transition or a missing row an ordinary exception.
SetJobStatus(w, t, done, lost) ==
    LET j == wk[w].job
    IN  \/ /\ Legal(row[j].status, t)
           /\ Owns(w)
           /\ row' = [row EXCEPT ![j].status = t, ![j].sv = @ + 1]
           /\ Become(w, done)
        \/ /\ Legal(row[j].status, t)
           /\ ~Owns(w)
           /\ Become(w, lost)
           /\ UNCHANGED row
        \/ /\ ~Legal(row[j].status, t)
           /\ Become(w, At(w, "failure"))
           /\ UNCHANGED row

\* checkpoint.save, worker.log: they create the directories they need.
TouchWorkspace(w) == ws' = [ws EXCEPT ![wk[w].job] = TRUE]

-----------------------------------------------------------------------------
(* Polling, claiming and starting a job: SingleHostWorker.run_once.        *)

\* The process starts once it holds worker.lock.
Launch(w) ==
    /\ wk[w].pc = "down"
    /\ SingleInstance => \A v \in Workers : wk[v].pc = "down"
    /\ Become(w, Idle("poll"))
    /\ UNCHANGED <<row, ws, api, faults>>

\* Mutant of Stale: a job whose control request is still open is spared.
StaleUnlessRequested(j) == /\ row[j].owner # None /\ row[j].status = "running"
                           /\ ~row[j].fresh /\ ~Pending(j)

Stale(j) == row[j].owner # None /\ row[j].status = "running" /\ ~row[j].fresh

\* Mutant of SweptRow: the owner stays in the row.
SweptRowOwned(j) == [row[j] EXCEPT !.status = "interrupted", !.sv = @ + 1]

SweptRow(j) == [row[j] EXCEPT !.status = "interrupted", !.owner = None,
                              !.fresh = FALSE, !.sv = @ + 1]

\* mark_stale_jobs_interrupted.
SweepStale(w) ==
    /\ wk[w].pc = "poll"
    /\ row' = [j \in Jobs |-> IF Stale(j) THEN SweptRow(j) ELSE row[j]]
    /\ Become(w, Idle("claim"))
    /\ UNCHANGED <<ws, api, faults>>

\* Mutants of Claimable: a recovered job is overlooked while its resume is
\* open; a paused job only counts when its last owner released it.
ClaimableWithoutRequest(j) == \/ row[j].status = "queued" /\ ~Pending(j)
                              \/ row[j].status = "paused"
                                    /\ PendingCommand(j) = "resume"
ClaimableIfReleased(j) == \/ row[j].status = "queued"
                          \/ /\ row[j].status = "paused"
                             /\ PendingCommand(j) = "resume"
                             /\ row[j].owner = None

Claimable(j) == \/ row[j].status = "queued" /\ PendingCommand(j) # "cancel"
                \/ row[j].status = "paused" /\ PendingCommand(j) = "resume"

\* Mutant of ClaimedRow: the attempt is not counted.
ReclaimedRow(w, j) ==
    [row[j] EXCEPT !.status = "running", !.owner = w, !.fresh = TRUE,
                   !.sv = @ + 1,
                   !.ack = IF PendingCommand(j) = "resume"
                           THEN row[j].ver ELSE @]

ClaimedRow(w, j) ==
    [row[j] EXCEPT !.status = "running", !.owner = w, !.fresh = TRUE,
                   !.attempt = @ + 1, !.sv = @ + 1,
                   !.ack = IF PendingCommand(j) = "resume"
                           THEN row[j].ver ELSE @]

\* Mutant of ClaimNext: the oldest waiting row is looked at, eligible or not.
ClaimOldest(w) ==
    /\ wk[w].pc = "claim"
    /\ \E j \in Jobs :
          /\ Claimable(j)
          /\ \A i \in Jobs : row[i].status \in {"queued", "paused"} => j <= i
          /\ row' = [row EXCEPT ![j] = ClaimedRow(w, j)]
          /\ Become(w, [Idle("start") EXCEPT !.job = j,
                                  !.attempt = ClaimedRow(w, j).attempt])
    /\ UNCHANGED <<ws, api, faults>>

\* claim_next_job takes the oldest eligible row; its owner is not looked at.
ClaimNext(w) ==
    /\ wk[w].pc = "claim"
    /\ \E j \in Jobs :
          /\ Claimable(j)
          /\ \A i \in Jobs : Claimable(i) => j <= i
          /\ row' = [row EXCEPT ![j] = ClaimedRow(w, j)]
          /\ Become(w, [Idle("start") EXCEPT !.job = j,
                                  !.attempt = ClaimedRow(w, j).attempt])
    /\ UNCHANGED <<ws, api, faults>>

\* Nothing to claim: wait for the next poll.
ClaimNothing(w) ==
    /\ wk[w].pc = "claim"
    /\ \A j \in Jobs : ~Claimable(j)
    /\ Become(w, Idle("poll"))
    /\ UNCHANGED <<row, ws, api, faults>>

\* _run_claimed_job up to the stage loop: the configuration snapshot and the
\* secrets may fail to load.
LoadConfig(w) ==
    /\ wk[w].pc = "start"
    /\ \/ /\ ws[wk[w].job] /\ Exists(wk[w].job)
          /\ IF row[wk[w].job].status \in {"queued", "paused"}
             THEN SetJobStatus(w, "running", Safety(w, 1, "before"),
                               At(w, "failure"))
             ELSE Become(w, Safety(w, 1, "before")) /\ UNCHANGED row
       \/ /\ Become(w, At(w, "failure"))
          /\ UNCHANGED row
    /\ UNCHANGED <<ws, api, faults>>

-----------------------------------------------------------------------------
(* PipelineOrchestrator._safety_point.                                     *)

\* get_job: what the safety point decides on is read here.
SafetyRead(w) ==
    /\ wk[w].pc = "read"
    /\ Become(w, IF Exists(wk[w].job)
                 THEN [At(w, "beat") EXCEPT !.cmd = PendingCommand(wk[w].job),
                                            !.ver = row[wk[w].job].ver]
                 ELSE At(w, "failure"))
    /\ UNCHANGED <<row, ws, api, faults>>

\* Mutant of Pass: one stage too many.
PassTooFar(w) ==
    IF wk[w].point = "after" THEN Safety(w, wk[w].k + 1, "before")
                             ELSE At(w, "begin")

\* Where the pipeline goes on when the safety point lets it pass.
Pass(w) ==
    CASE wk[w].point = "before" -> At(w, "begin")
      [] wk[w].point = "after"  -> IF wk[w].k < NumStages
                                   THEN Safety(w, wk[w].k + 1, "before")
                                   ELSE Safety(w, wk[w].k, "final")
      [] wk[w].point = "final"  -> At(w, "succeed")
      [] OTHER                  -> At(w, "fail")

\* heartbeat_job succeeds only for a running row that is still owned.
SafetyBeat(w) ==
    /\ wk[w].pc = "beat"
    /\ \/ /\ Owns(w) /\ row[wk[w].job].status = "running"
          /\ row' = [row EXCEPT ![wk[w].job].fresh = TRUE]
          /\ Become(w, IF wk[w].cmd \in {"pause", "cancel"} THEN At(w, "ack")
                       ELSE [Pass(w) EXCEPT !.cmd = "none", !.ver = 0])
       \/ /\ ~(Owns(w) /\ row[wk[w].job].status = "running")
          /\ Become(w, At(w, "release"))
          /\ UNCHANGED row
    /\ UNCHANGED <<ws, api, faults>>

\* Mutant of AckControl: whatever request is in the row is acknowledged.
AckLatestControl(w) ==
    LET j == wk[w].job
    IN  /\ wk[w].pc = "ack"
        /\ row' = IF row[j].owner = w
                  THEN [row EXCEPT ![j].ack = row[j].ver]
                  ELSE row
        /\ Become(w, At(w, "apply"))
        /\ UNCHANGED <<ws, api, faults>>

\* acknowledge_job_control: a commit of its own, fenced by owner and version;
\* its outcome only decides whether a confirmation event is published.
AckControl(w) ==
    LET j == wk[w].job
    IN  /\ wk[w].pc = "ack"
        /\ row' = IF /\ row[j].owner = w
                     /\ row[j].ver = wk[w].ver
                     /\ row[j].ack < wk[w].ver
                  THEN [row EXCEPT ![j].ack = wk[w].ver]
                  ELSE row
        /\ Become(w, At(w, "apply"))
        /\ UNCHANGED <<ws, api, faults>>

Target(cmd) == IF cmd = "cancel" THEN "cancelled" ELSE "paused"

\* The status the command asks for, in a second commit.
ApplyControl(w) ==
    /\ wk[w].pc = "apply"
    /\ SetJobStatus(w, Target(wk[w].cmd), At(w, "signal"), At(w, "release"))
    /\ UNCHANGED <<ws, api, faults>>

\* run_job's handler of the safety signal writes that status once more, for a
\* cancellation after saving the checkpoint.
HandleSignal(w) ==
    /\ wk[w].pc = "signal"
    /\ SetJobStatus(w, Target(wk[w].cmd), At(w, "release"), At(w, "failure"))
    /\ IF wk[w].cmd = "cancel" THEN TouchWorkspace(w) ELSE UNCHANGED ws
    /\ UNCHANGED <<api, faults>>

-----------------------------------------------------------------------------
(* The stage loop of PipelineOrchestrator.run_job.                         *)

\* Save the checkpoint, then record the stage as running.
BeginStage(w) ==
    /\ wk[w].pc = "begin"
    /\ TouchWorkspace(w)
    /\ SetJobStatus(w, "running", At(w, "stage"), At(w, "release"))
    /\ UNCHANGED <<api, faults>>

\* _is_cancel_requested and _check_model_control, asked from inside a stage.
CancelRequested(j) == \/ row[j].status \in {"cancelled", "gone"}
                      \/ PendingCommand(j) = "cancel"
ControlPending(w) == \/ ~Owns(w)
                     \/ PendingCommand(wk[w].job) \in {"pause", "cancel"}

\* The stage returns and its checkpoint is saved.
StageSucceeds(w) ==
    /\ wk[w].pc = "stage"
    /\ TouchWorkspace(w)
    /\ Become(w, At(w, "progress"))
    /\ UNCHANGED <<row, api, faults>>

\* Mutant of StageRaises: the persisted control is not looked at again.
StageRaisesIntoFailure(w) ==
    /\ wk[w].pc = "stage"
    /\ \/ /\ ControlPending(w)
          /\ Become(w, [At(w, "fail") EXCEPT !.point = "control"])
       \/ Become(w, [At(w, "fail") EXCEPT !.point = "error"])
    /\ UNCHANGED <<row, ws, api, faults>>

\* The stage raises: because a control request or a lost claim stopped its
\* model calls, or on its own account.
StageRaises(w) ==
    /\ wk[w].pc = "stage"
    /\ \/ ControlPending(w) /\ Become(w, Safety(w, wk[w].k, "control"))
       \/ Become(w, Safety(w, wk[w].k, "error"))
    /\ UNCHANGED <<row, ws, api, faults>>

\* Ingest (the first stage) turns a cancel request straight into the signal,
\* without acknowledging it.
IngestCancelled(w) ==
    /\ wk[w].pc = "stage"
    /\ wk[w].k = 1
    /\ CancelRequested(wk[w].job)
    /\ Become(w, [At(w, "signal") EXCEPT !.cmd = "cancel"])
    /\ UNCHANGED <<row, ws, api, faults>>

\* _publish_progress.
PublishProgress(w) ==
    /\ wk[w].pc = "progress"
    /\ \/ /\ Owns(w)
          /\ row' = [row EXCEPT ![wk[w].job].sv = @ + 1]
          /\ Become(w, Safety(w, wk[w].k, "after"))
       \/ /\ ~Owns(w)
          /\ Become(w, At(w, "release"))
          /\ UNCHANGED row
    /\ UNCHANGED <<ws, api, faults>>

\* The exception handler of the loop: save the checkpoint, then fail the job.
RecordFailure(w) ==
    /\ wk[w].pc = "fail"
    /\ TouchWorkspace(w)
    /\ SetJobStatus(w, "failed", At(w, "log"), At(w, "release"))
    /\ UNCHANGED <<api, faults>>

\* The failure, already in the row, goes to worker.log, whose directory is made
\* if it is not there; then the exception is raised again.
LogFailure(w) ==
    /\ wk[w].pc = "log"
    /\ TouchWorkspace(w)
    /\ Become(w, At(w, "failure"))
    /\ UNCHANGED <<row, api, faults>>

\* All stages done.
Succeed(w) ==
    /\ wk[w].pc = "succeed"
    /\ TouchWorkspace(w)
    /\ SetJobStatus(w, "succeeded", At(w, "release"), At(w, "release"))
    /\ UNCHANGED <<api, faults>>

\* _handle_claim_failure: fail the job unless its status already says how the
\* attempt ended.
HandleClaimFailure(w) ==
    LET j == wk[w].job
    IN  /\ wk[w].pc = "failure"
        /\ row' = IF row[j].status \in {"queued", "running"} /\ Owns(w)
                  THEN [row EXCEPT ![j].status = "failed", ![j].sv = @ + 1]
                  ELSE row
        /\ Become(w, At(w, "release"))
        /\ UNCHANGED <<ws, api, faults>>

\* release_job_claim, in run_once's finally.
Release(w) ==
    LET j == wk[w].job
    IN  /\ wk[w].pc \in {"release", "quit"}
        /\ row' = IF Owns(w)
                  THEN [row EXCEPT ![j].owner = None, ![j].fresh = FALSE]
                  ELSE row
        /\ Become(w, Idle(IF wk[w].pc = "quit" THEN "down" ELSE "poll"))
        /\ UNCHANGED <<ws, api, faults>>

\* What the worker's main thread does next.
WorkerStep(w) ==
    \/ SweepStale(w) \/ ClaimNext(w) \/ ClaimNothing(w) \/ LoadConfig(w)
    \/ SafetyRead(w) \/ SafetyBeat(w) \/ AckControl(w) \/ ApplyControl(w)
    \/ HandleSignal(w) \/ BeginStage(w) \/ StageSucceeds(w) \/ StageRaises(w)
    \/ IngestCancelled(w) \/ PublishProgress(w) \/ RecordFailure(w)
    \/ LogFailure(w) \/ Succeed(w) \/ HandleClaimFailure(w) \/ Release(w)

-----------------------------------------------------------------------------
(* Time, crashes and signals.                                              *)

\* The thread of _HeartbeatLease lives as long as its process holds a claim.
LeaseBeat(w) ==
    /\ wk[w].pc \notin {"down", "poll", "claim"}
    /\ Owns(w) /\ row[wk[w].job].status = "running"
    /\ row' = [row EXCEPT ![wk[w].job].fresh = TRUE]
    /\ UNCHANGED <<ws, wk, api, faults>>

\* --stale-after seconds pass without a heartbeat.
Lapse(j) ==
    /\ row[j].status = "running" /\ row[j].owner # None /\ row[j].fresh
    /\ row' = [row EXCEPT ![j].fresh = FALSE]
    /\ UNCHANGED <<ws, wk, api, faults>>

\* The same when no process is left that would renew the heartbeat.
LapseOfDead(j) == Lapse(j) /\ \A w \in Workers : ~(wk[w].job = j /\ Owns(w))

Fault(kind) == /\ kind \in Faults
               /\ faults < MaxFaults
               /\ faults' = faults + 1

\* The process is killed: no finally runs and the row keeps its owner.
Crash(w) ==
    /\ wk[w].pc # "down"
    /\ Fault("crash")
    /\ Become(w, Idle("down"))
    /\ UNCHANGED <<row, ws, api>>

\* KeyboardInterrupt is no Exception: run_once skips _handle_claim_failure,
\* its finally releases the claim, and main ends the process.
Interrupt(w) ==
    /\ wk[w].pc \notin {"down", "poll", "claim", "release", "quit"}
    /\ Fault("sigint")
    /\ Become(w, At(w, "quit"))
    /\ UNCHANGED <<row, ws, api>>

-----------------------------------------------------------------------------
(* The API process: handlers run one at a time on its event loop, but the  *)
(* worker commits between their transactions.                              *)

ApiPC == {"idle", "insert", "request", "owner", "mark", "latest", "cleanup",
          "delete", "pendingOwner", "pendingStatus"}
ApiCommands == {"none", "create", "pause", "resume", "cancel", "delete",
                "finalize"}

\* The handler's local variables: the command and the status and version of
\* the row it read first.
ApiLocal == [pc: ApiPC, job: 0..NumJobs, cmd: ApiCommands,
             status: RowStates, sv: Nat]

ApiIdle == [pc |-> "idle", job |-> 0, cmd |-> "none", status |-> "absent",
            sv |-> 0]

Handler(pc, j, c) == [pc |-> pc, job |-> j, cmd |-> c,
                      status |-> row[j].status, sv |-> row[j].sv]
ApiAt(pc) == [api EXCEPT !.pc = pc]

\* create_job writes the job directory and config snapshot first ...
CreateLayout(j) ==
    /\ api.pc = "idle"
    /\ row[j].status = "absent"
    /\ \A i \in Jobs : i < j => row[i].status # "absent"
    /\ ws' = [ws EXCEPT ![j] = TRUE]
    /\ api' = Handler("insert", j, "create")
    /\ UNCHANGED <<row, wk, faults>>

\* ... and inserts the row last: queue visibility is the commit point.
InsertRow ==
    /\ api.pc = "insert"
    /\ row' = [row EXCEPT ![api.job] = NewRow("queued")]
    /\ api' = ApiIdle
    /\ UNCHANGED <<ws, wk, faults>>

\* evaluate_control_command: the (command, status) pairs that do more than
\* answer; every other pair is a no-op or a rejection.
Decides(c, s) == \/ c = "pause" /\ s = "running"
                 \/ c = "resume" /\ s \in {"paused", "interrupted"}
                 \/ c = "cancel" /\ s \in Active
                 \/ c = "delete" /\ s \in Statuses

\* _default_control_dispatcher reads the row and evaluates the command.
Dispatch(j, c) ==
    /\ api.pc = "idle"
    /\ Exists(j)
    /\ Decides(c, row[j].status)
    /\ row[j].status \in Active => row[j].ver < MaxVersion
    /\ api' = Handler(IF row[j].status \in Active THEN "request" ELSE "owner",
                      j, c)
    /\ UNCHANGED <<row, ws, wk, faults>>

\* Mutant of Unchanged: the request is posted unconditionally.
UnchangedAssumed(j) == row[j].sv >= api.sv

\* expected_status and expected_state_version of the conditional update.
Unchanged(j) == row[j].status = api.status /\ row[j].sv = api.sv

\* Mutant of PostControl: a cancel always waits for a worker.
PostControlOnly(j, c) ==
    row' = [row EXCEPT ![j].cmd = c, ![j].ver = @ + 1, ![j].sv = @ + 1]

\* request_job_control; a cancel of an unowned row is final at once.
PostControl(j, c) ==
    LET final == c = "cancel" /\ row[j].owner = None
                              /\ row[j].status \in Active
    IN  row' = [row EXCEPT
                  ![j].cmd = c, ![j].ver = @ + 1, ![j].sv = @ + 1,
                  ![j].ack = IF final THEN row[j].ver + 1 ELSE @,
                  ![j].status = IF final THEN "cancelled" ELSE @]

\* recover_interrupted_job.
Recover(j) ==
    row' = [row EXCEPT ![j].status = "queued", ![j].owner = None,
                       ![j].fresh = FALSE, ![j].cmd = "resume",
                       ![j].ver = @ + 1, ![j].sv = @ + 1]

\* The row is as it was read: commit the request.
SubmitRequest ==
    LET j == api.job
    IN  /\ api.pc = "request"
        /\ Unchanged(j)
        /\ \/ /\ api.cmd = "resume" /\ api.status = "interrupted"
              /\ Recover(j)
           \/ /\ api.cmd = "pause" \/ (api.cmd = "resume" /\ api.status = "paused")
              /\ PostControl(j, api.cmd)
           \/ /\ api.cmd \in {"cancel", "delete"}
              /\ PostControl(j, "cancel")
        /\ api' = IF api.cmd = "delete" THEN ApiAt("owner") ELSE ApiIdle
        /\ UNCHANGED <<ws, wk, faults>>

\* It is not: answer job_state_changed.
RefuseRequest ==
    /\ api.pc = "request"
    /\ ~Unchanged(api.job)
    /\ api' = ApiIdle
    /\ UNCHANGED <<row, ws, wk, faults>>

\* Mutant of DeleteChecksOwner: nobody asks for the worker.
DeleteIgnoresOwner ==
    /\ api.pc = "owner"
    /\ api' = ApiAt("latest")
    /\ UNCHANGED <<row, ws, wk, faults>>

\* DELETE: _job_worker_may_be_running.
DeleteChecksOwner ==
    /\ api.pc = "owner"
    /\ api' = ApiAt(IF row[api.job].owner # None THEN "mark" ELSE "latest")
    /\ UNCHANGED <<row, ws, wk, faults>>

\* DELETE: _mark_job_delete_pending.
MarkDeletePending ==
    /\ api.pc = "mark"
    /\ row' = [row EXCEPT ![api.job].del = TRUE]
    /\ api' = ApiIdle
    /\ UNCHANGED <<ws, wk, faults>>

\* Mutant of DeleteChecksStatus: clean up whatever became of the job.
DeleteIgnoresStatus ==
    /\ api.pc = "latest"
    /\ api' = ApiAt("cleanup")
    /\ UNCHANGED <<row, ws, wk, faults>>

\* DELETE: clean up if the job was terminal when the command was evaluated or
\* is cancelled now; otherwise answer without doing more.
DeleteChecksStatus ==
    /\ api.pc = "latest"
    /\ api' = IF \/ api.status \in Terminal
                 \/ row[api.job].status = "cancelled"
              THEN ApiAt("cleanup") ELSE ApiIdle
    /\ UNCHANGED <<row, ws, wk, faults>>

\* A snapshot, or the reconciliation at start-up, meets a job with
\* delete_pending: _try_finalize_pending_job_delete.
FinalizeDelete(j) ==
    /\ api.pc = "idle"
    /\ Exists(j) /\ row[j].del
    /\ api' = Handler("pendingOwner", j, "finalize")
    /\ UNCHANGED <<row, ws, wk, faults>>

\* Its first read: is there a worker?
FinalizeChecksOwner ==
    /\ api.pc = "pendingOwner"
    /\ api' = IF row[api.job].owner # None THEN ApiIdle
              ELSE ApiAt("pendingStatus")
    /\ UNCHANGED <<row, ws, wk, faults>>

\* Mutants of FinalizeChecksStatus: any unowned job is cleaned up; only a
\* cancelled one is.
FinalizeIgnoresStatus ==
    /\ api.pc = "pendingStatus"
    /\ api' = ApiAt("cleanup")
    /\ UNCHANGED <<row, ws, wk, faults>>
FinalizeCancelledOnly ==
    /\ api.pc = "pendingStatus"
    /\ api' = IF row[api.job].status = "cancelled" THEN ApiAt("cleanup")
              ELSE ApiIdle
    /\ UNCHANGED <<row, ws, wk, faults>>

\* Its second read: is the status terminal?
FinalizeChecksStatus ==
    /\ api.pc = "pendingStatus"
    /\ api' = IF row[api.job].status \in Terminal THEN ApiAt("cleanup")
              ELSE ApiIdle
    /\ UNCHANGED <<row, ws, wk, faults>>

\* _cleanup_job_workspace removes the job directory.
RemoveWorkspace ==
    /\ api.pc = "cleanup"
    /\ ws' = [ws EXCEPT ![api.job] = FALSE]
    /\ api' = ApiAt("delete")
    /\ UNCHANGED <<row, wk, faults>>

\* It cannot, because files are open: the delete becomes or stays pending.
WorkspaceBusy ==
    /\ api.pc = "cleanup"
    /\ ws[api.job]
    /\ api' = IF api.cmd = "delete" THEN ApiAt("mark") ELSE ApiIdle
    /\ UNCHANGED <<row, ws, wk, faults>>

\* delete_job.
DeleteRow ==
    /\ api.pc = "delete"
    /\ row' = [row EXCEPT ![api.job] = NewRow("gone")]
    /\ api' = ApiIdle
    /\ UNCHANGED <<ws, wk, faults>>

\* The next step of the handler that is being executed.
ApiStep ==
    \/ InsertRow \/ SubmitRequest \/ RefuseRequest \/ DeleteChecksOwner
    \/ MarkDeletePending \/ DeleteChecksStatus \/ FinalizeChecksOwner
    \/ FinalizeChecksStatus \/ RemoveWorkspace \/ WorkspaceBusy
    \/ DeleteRow

\* The API process is killed between two commits of a handler.
ApiCrash ==
    /\ api.pc # "idle"
    /\ Fault("api")
    /\ api' = ApiIdle
    /\ UNCHANGED <<row, ws, wk>>

-----------------------------------------------------------------------------
Init ==
    /\ row = [j \in Jobs |-> NewRow("absent")]
    /\ ws = [j \in Jobs |-> FALSE]
    /\ wk = [w \in Workers |-> Idle("down")]
    /\ api = ApiIdle
    /\ faults = 0

Request(j) ==
    \/ CreateLayout(j)
    \/ \E c \in {"pause", "resume", "cancel", "delete"} : Dispatch(j, c)
    \/ FinalizeDelete(j)

Next ==
    \/ \E w \in Workers : Launch(w) \/ WorkerStep(w) \/ LeaseBeat(w)
                          \/ Crash(w) \/ Interrupt(w)
    \/ \E j \in Jobs : Lapse(j) \/ Request(j)
    \/ ApiStep
    \/ ApiCrash

Spec == Init /\ [][Next]_vars

\* A worker that has work goes on with it, the service manager restarts it,
\* a handler that was entered returns, and a heartbeat nobody renews ages.
\* Nobody has to send a command or open a page.
Fairness ==
    /\ \A w \in Workers : WF_vars(WorkerStep(w)) /\ WF_vars(Launch(w))
    /\ WF_vars(ApiStep)
    /\ \A j \in Jobs : WF_vars(LapseOfDead(j))

FairSpec == Spec /\ Fairness

\* In addition somebody keeps looking at jobs whose delete is pending (each
\* snapshot tries to finish it) and the files in their directories are not
\* busy for ever.
WatchedSpec == /\ FairSpec
               /\ \A j \in Jobs : SF_vars(FinalizeDelete(j))
               /\ SF_vars(RemoveWorkspace)

-----------------------------------------------------------------------------
(* Type invariant.                                                         *)

\* Every variable keeps its shape; in particular a claim names a job.
TypeOK ==
    /\ row \in [Jobs -> Row]
    /\ ws \in [Jobs -> BOOLEAN]
    /\ wk \in [Workers -> Local]
    /\ api \in ApiLocal
    /\ faults \in 0..MaxFaults

-----------------------------------------------------------------------------
(* Ownership.                                                              *)

\* A queued or interrupted job is nobody's: claiming is the only way out of
\* the queue, and an interrupted attempt cannot write any more.
WaitingIsUnowned ==
    \A j \in Jobs : row[j].status \in {"queued", "interrupted", "absent", "gone"}
                       => row[j].owner = None

\* A cancel that is accepted for a queued job is final at once, so that the
\* queue never holds a job that claim_next_job would have to skip for ever.
QueueHasNoCancelled ==
    \A j \in Jobs : row[j].status = "queued" => PendingCommand(j) # "cancel"

\* However claims are lost, recovered and taken over, two workers never work
\* under the same attempt of a job, and none is ahead of the row.
ClaimsAreDistinct ==
    \A v, w \in Workers :
        Holds(w) =>
            /\ wk[w].attempt <= row[wk[w].job].attempt
               \/ ~Exists(wk[w].job)
            /\ v # w /\ wk[v].job = wk[w].job => wk[v].attempt # wk[w].attempt

\* A worker that lost its claim (swept, recovered, taken over or deleted
\* behind its back) never changes the row again, whatever it still executes.
LostClaimWritesNothing ==
    [][\A w \in Workers :
          Holds(w) /\ ~Owns(w) /\ wk'[w] # wk[w]
              => row'[wk[w].job] = row[wk[w].job]]_vars

-----------------------------------------------------------------------------
(* Control requests.                                                       *)

\* The API decides on a row it read in an earlier transaction; a request is
\* nevertheless only ever committed to a job in a status that allows it.
RequestsFitStatus ==
    [][\A j \in Jobs : row'[j].ver > row[j].ver =>
          \/ row'[j].cmd = "pause" /\ row[j].status = "running"
          \/ row'[j].cmd = "resume" /\ row[j].status \in {"paused", "interrupted"}
          \/ row'[j].cmd = "cancel" /\ row[j].status \in Active]_vars

\* A cancel that is shown as applied is never followed by another outcome of
\* that attempt.
AppliedCancelIsFinal ==
    [][\A j \in Jobs :
          /\ row[j].cmd = "cancel" /\ row[j].ver = row[j].ack
          /\ row'[j].status # row[j].status
          => row'[j].status \in {"cancelled", "interrupted", "queued", "gone"}]_vars

\* An exception that a control request or a lost claim provoked inside a stage
\* is never recorded as the failure of the job.
ControlIsNoFailure ==
    \A w \in Workers : wk[w].pc = "fail" => wk[w].point # "control"

-----------------------------------------------------------------------------
(* Workspace.                                                              *)

\* A job that may still be claimed or resumed has its directory, and with it
\* its configuration snapshot: it is written before the row becomes visible
\* and removed only behind a terminal status.
ActiveHasWorkspace == \A j \in Jobs : row[j].status \in Active => ws[j]

\* With worker.lock held, nothing brings back the directory that a deletion
\* removed but the log of a failure: neither the checkpoint that the handler of
\* a cancel saves behind the committed status, nor a stage
\* (orchestrator.py:221, apps/api/service.py:2333).
OnlyLogsOutliveDeletion ==
    [][\A j \in Jobs : ~ws[j] /\ ws'[j] /\ row[j].status # "absent" =>
          \E w \in Workers : wk[w].pc = "log" /\ wk[w].job = j]_vars

-----------------------------------------------------------------------------
(* The abstract lifecycle.                                                 *)

Lifecycle == INSTANCE JobLifecycle
                 WITH job <- [j \in Jobs |-> [status  |-> row[j].status,
                                               owner   |-> row[j].owner,
                                               attempt |-> row[j].attempt]]

\* Sweeps, claims, stale workers, conditional requests and the deletion
\* together implement the lifecycle: an attempt is granted once, ended once,
\* and by nobody but its owner.
ImplementsLifecycle == Lifecycle!Spec

-----------------------------------------------------------------------------
(* Liveness.                                                               *)

\* A running job does not stay running for ever, also when its worker dies.
RunsEnd == \A j \in Jobs :
              row[j].status = "running" ~> row[j].status # "running"

\* Every queued job, also a recovered one, is eventually claimed.
QueueIsServed == \A j \in Jobs :
                    row[j].status = "queued" ~> row[j].status # "queued"

\* An accepted resume of a paused job is honoured or superseded.
ResumeIsHonoured ==
    \A j \in Jobs : row[j].status = "paused" /\ PendingCommand(j) = "resume"
                       ~> row[j].status # "paused" \/ row[j].cmd # "resume"

\* A delete that waits for a job in a terminal status is completed.
PendingDeleteCompletes ==
    \A j \in Jobs : row[j].del /\ row[j].status \in Terminal
                       ~> row[j].status = "gone"

-----------------------------------------------------------------------------
(* What the documents say and the code does not keep.                      *)

\* state-machine.md, Cancel: an accepted cancel is confirmed by the owner at a
\* safety point or, without an owner, by the coordinator.
AcceptedCancelTakesEffect ==
    \A j \in Jobs : PendingCommand(j) = "cancel"
                       ~> \/ row[j].status \in Terminal \cup {"gone"}
                          \/ PendingCommand(j) # "cancel"

\* state-machine.md, Delete: an accepted delete whose cleanup is not done is
\* kept as a pending delete.
AcceptedDeleteIsKept ==
    [][/\ api.cmd = "delete" /\ api.pc # "idle" /\ api'.pc = "idle"
       /\ faults' = faults /\ api.pc # "request"
       => row'[api.job].del \/ row'[api.job].status = "gone"]_vars
=============================================================================
