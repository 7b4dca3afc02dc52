------------------------------ MODULE Projects ------------------------------
(***************************************************************************)
(* Projects and the life of their jobs between submission and deletion:    *)
(* the rows, the files they stand for, the configuration each job pins,    *)
(* the uploads that jobs name, and the status of the project, which the    *)
(* API and the worker derive from the rows of its jobs.                    *)
(*                                                                         *)
(* One API process and the one worker that worker.lock admits, each of     *)
(* which may be killed between any two commits.  The control protocol is   *)
(* JobControl's; here a job names the worker or nobody as its owner, and a *)
(* pause, which for a project is an interruption, is left out.             *)
(***************************************************************************)
EXTENDS Providers

CONSTANTS
    ProjectIds,
    MaxJobs         \* bound: jobs that are ever submitted

ASSUME ProjectsAssumption ==
    /\ MaxJobs \in Nat
    /\ None \notin {"queued", "running", "interrupted", "succeeded", "failed",
                     "cancelled", "gone"}
    /\ None \notin [Capabilities -> [kind: Kinds, ref: Nat \cup {None}]]

VARIABLES
    projects,   \* the projects: absent, "gone", or the status that is shown
    jobs,       \* the jobs in the order of their submission
    uploads,    \* the videos that were uploaded, in that order
    worker,     \* what the worker does, with which job
    overtaken,  \* projects whose refresh another one overtook or a kill cut off
    dropped     \* statuses of the jobs deleted since a project was refreshed

shownVars == <<projects, overtaken, dropped>>
projectVars == <<shownVars, jobs, uploads, worker>>
vars == <<providerVars, apiVars, projectVars>>

-----------------------------------------------------------------------------
(* The rows.                                                               *)

Statuses == {"queued", "running", "interrupted", "succeeded", "failed",
             "cancelled"}
Pending == {"queued", "running", "interrupted"}
Ended == Statuses \ Pending

\* A job without a row yet is "unborn"; its row goes with its project.
HasRow(j) == jobs[j].status \in Statuses

\* config.snapshot.json is there.
HasConfig(j) == jobs[j].pin # None

Shown(p) == projects[p] \in Statuses
JobsOf(p) == {j \in DOMAIN jobs : jobs[j].project = p /\ HasRow(j)}

\* _pending_project_job_ids.
PendingJobs(p) == {j \in JobsOf(p) : jobs[j].status \in Pending}

Precedence == <<"running", "queued", "interrupted", "failed", "cancelled",
                "succeeded">>

\* The status that _refresh_project_status_in_transaction finds for a set of
\* statuses.
Derived(found) ==
    Precedence[CHOOSE i \in DOMAIN Precedence :
                  /\ Precedence[i] \in found
                  /\ \A k \in 1..(i - 1) : Precedence[k] \notin found]

StatusesOf(rows, p) ==
    {rows[j].status : j \in {i \in DOMAIN rows : /\ rows[i].project = p
                                                 /\ rows[i].status \in Statuses}}

WithStatus(j, status) == [jobs EXCEPT ![j].status = status]

\* The rows of some jobs are deleted.
Erased(lost) ==
    [j \in DOMAIN jobs |->
        IF j \in lost THEN [jobs[j] EXCEPT !.status = "gone", !.cancel = FALSE,
                                          !.owned = FALSE, !.delete = FALSE]
                      ELSE jobs[j]]

\* The worker is between the two statements of its refresh of a project.
Refreshing(p) == worker.pc = "update" /\ jobs[worker.job].project = p

\* A status and the project's in one transaction; nobody owns the job then.
SetAndRefresh(j, status) ==
    LET p == jobs[j].project
    IN  /\ jobs' = [WithStatus(j, status) EXCEPT ![j].cancel = FALSE,
                                                 ![j].owned = FALSE]
        /\ projects' = [projects EXCEPT ![p] = Derived(StatusesOf(jobs', p))]
        /\ overtaken' = IF Refreshing(p) THEN overtaken \cup {p}
                                         ELSE overtaken \ {p}
        /\ dropped' = [dropped EXCEPT ![p] = {}]

-----------------------------------------------------------------------------
(* Submission.                                                             *)

\* create_project: the row, and a directory that later steps make if need be.
CreateProject ==
    /\ Idle
    /\ \E p \in ProjectIds : /\ projects[p] = None
                             /\ projects' = [projects EXCEPT ![p] = "queued"]
    /\ UNCHANGED <<providerVars, apiVars, jobs, uploads, worker, overtaken,
                   dropped>>

\* _select_provider_profile: one that is asked for or the default, or the
\* older settings if the capability has none.
Selectable(cap) ==
    IF Uses(profiles, cap) = {} THEN {cap}
    ELSE {profiles[i].kind : i \in Uses(profiles, cap)}

\* _profile_job_snapshot: the kind of credential and the active one.
Pinned(kind) == [kind |-> kind, ref |-> ActiveRef(kind)]

\* Every job here is of an uploaded video: a link is nothing that can be lost.
NewJob(p, u) ==
    [project |-> p, status |-> "unborn", upload |-> u, pin |-> None,
     cancel |-> FALSE, owned |-> FALSE, delete |-> FALSE]

\* What became of the video: it is there, was discarded because the request
\* that brought it failed, was unlinked with a job, or went with its project.
Fates == {"there", "discarded", "unlinked", "removed"}
Kept(u) == uploads[u].file = "there"

\* Some videos are removed; what is gone stays gone for its first reason.
Lost(us, fate) ==
    [u \in DOMAIN uploads |-> IF u \in us /\ Kept(u)
                              THEN [uploads[u] EXCEPT !.file = fate]
                              ELSE uploads[u]]

PutUpload(p) == [put |-> "upload", project |-> p]
PutLayout(job) == [put |-> "layout", row |-> job]
PutSnapshot(j, pin) == [put |-> "snapshot", job |-> j, pin |-> pin]
PutRow(j) == [put |-> "row", job |-> j]
PutLogged(us) == [put |-> "logged", discard |-> us]

\* The request brings its video itself.
Brought(u) == IF u \in DOMAIN uploads THEN {} ELSE {u}
Staging(p, u) == IF u \in DOMAIN uploads THEN <<>> ELSE <<PutUpload(p)>>

\* Mutant of Submission: the row before the configuration it stands for.
SubmissionRowFirst(p, u, pin) ==
    LET j == Len(jobs) + 1
    IN  Staging(p, u)
           \o <<PutLayout(NewJob(p, u)), PutRow(j), PutSnapshot(j, pin),
                PutLogged(Brought(u))>>

\* stage_local_upload, unless the request names a video of before, and
\* create_job: the directory, the configuration that pins the providers, the
\* row that makes the job visible, and the operation log.
Submission(p, u, pin) ==
    LET j == Len(jobs) + 1
    IN  Staging(p, u)
           \o <<PutLayout(NewJob(p, u)), PutSnapshot(j, pin), PutRow(j),
                PutLogged(Brought(u))>>

\* The videos a request may name (_validate_local_video_path), and a new one.
Nameable(p) == {u \in DOMAIN uploads : uploads[u].project = p /\ Kept(u)}
                   \cup {Len(uploads) + 1}

CreateJob ==
    /\ Idle
    /\ Len(jobs) < MaxJobs
    /\ changes < MaxChanges
    /\ changes' = changes + 1
    /\ \E p \in {q \in ProjectIds : Shown(q)}, kinds \in [Capabilities -> Kinds] :
       \E u \in Nameable(p) :
          /\ \A cap \in Capabilities : kinds[cap] \in Selectable(cap)
          /\ todo' = Submission(p, u,
                                [cap \in Capabilities |-> Pinned(kinds[cap])])
    /\ UNCHANGED <<providerVars, projectVars, up, kills>>

\* An exception of create_job, of whatever step: the route of the upload
\* discards the video it has staged.
SubmissionRaises ==
    /\ up /\ todo # <<>>
    /\ Last(todo).put = "logged" /\ Head(todo).put # "upload"
    /\ uploads' = Lost(Last(todo).discard, "discarded")
    /\ todo' = <<>>
    /\ UNCHANGED <<providerVars, shownVars, jobs, worker, changes, up, kills>>

CommitUpload(w) ==
    /\ w.put = "upload"
    /\ uploads' = Append(uploads, [project |-> w.project, file |-> "there"])
    /\ UNCHANGED <<providerVars, shownVars, jobs, worker>>

CommitLayout(w) ==
    /\ w.put = "layout"
    /\ jobs' = Append(jobs, w.row)
    /\ UNCHANGED <<providerVars, shownVars, uploads, worker>>

CommitSnapshot(w) ==
    /\ w.put = "snapshot"
    /\ jobs' = [jobs EXCEPT ![w.job].pin = w.pin]
    /\ UNCHANGED <<providerVars, shownVars, uploads, worker>>

CommitRow(w) ==
    /\ w.put = "row"
    /\ jobs' = WithStatus(w.job, "queued")
    /\ UNCHANGED <<providerVars, shownVars, uploads, worker>>

CommitLogged(w) == w.put = "logged" /\ UNCHANGED <<providerVars, projectVars>>

-----------------------------------------------------------------------------
(* Control and deletion.                                                   *)

\* A cancel: final at once for a job nobody owns, else a request; decided on
\* the row as it is in the transaction.
Cancel(j) ==
    /\ \/ /\ jobs[j].status \in {"queued", "interrupted"}
          /\ SetAndRefresh(j, "cancelled")
       \/ /\ jobs[j].status = "running"
          /\ jobs' = [jobs EXCEPT ![j].cancel = TRUE]
          /\ UNCHANGED shownVars
       \/ /\ jobs[j].status \notin Pending
          /\ UNCHANGED <<shownVars, jobs>>
    /\ UNCHANGED <<providerVars, uploads, worker>>

CancelJob == /\ Idle
             /\ \E j \in {i \in DOMAIN jobs : HasRow(i)} : Cancel(j)
             /\ UNCHANGED apiVars

\* A resume of an interrupted job: recover_interrupted_job.
RecoverJob ==
    /\ Idle
    /\ \E j \in DOMAIN jobs : jobs[j].status = "interrupted"
                              /\ SetAndRefresh(j, "queued")
    /\ UNCHANGED <<providerVars, uploads, worker, apiVars>>

PutCancel(j) == [put |-> "cancel", job |-> j]
PutAwait(p) == [put |-> "await", project |-> p]
PutTree(p) == [put |-> "tree", project |-> p]
PutGone(p) == [put |-> "gone", project |-> p]

\* What is left to do when a deletion is not refused: cancel the active jobs
\* and wait for them, remove the directory, and the rows.
Deletion(p, active) ==
    (IF active = {} THEN <<>>
     ELSE [i \in 1..Cardinality(active) |-> PutCancel(SetToSeq(active)[i])]
             \o <<PutAwait(p)>>)
        \o <<PutTree(p), PutGone(p)>>

\* delete_project, with force_cancel_active if there are active jobs.
DeleteProject ==
    /\ Idle
    /\ \E p \in {q \in ProjectIds : Shown(q)} :
          todo' = Deletion(p, PendingJobs(p))
    /\ UNCHANGED <<providerVars, projectVars, changes, up, kills>>

CommitCancel(w) == w.put = "cancel" /\ Cancel(w.job)

\* _wait_for_project_jobs_to_finish sees them all ended, ...
CommitAwait(w) ==
    /\ w.put = "await"
    /\ PendingJobs(w.project) = {}
    /\ UNCHANGED <<providerVars, projectVars>>

\* ... or gives up; the user is told to ask again.
GiveUpWaiting ==
    /\ up /\ todo # <<>> /\ Head(todo).put = "await"
    /\ todo' = <<>>
    /\ UNCHANGED <<providerVars, projectVars, changes, up, kills>>

\* The configurations of some jobs are gone.
Without(lost) ==
    [j \in DOMAIN jobs |-> IF j \in lost THEN [jobs[j] EXCEPT !.pin = None]
                                        ELSE jobs[j]]

FilesOf(p) == {j \in DOMAIN jobs : jobs[j].project = p}
VideosOf(p) == {u \in DOMAIN uploads : uploads[u].project = p}

CommitTree(w) ==
    /\ w.put = "tree"
    /\ jobs' = Without(FilesOf(w.project))
    /\ uploads' = Lost(VideosOf(w.project), "removed")
    /\ UNCHANGED <<providerVars, shownVars, worker>>

\* rmtree fails on a file in use, after it has removed some.
TreeIsBusy ==
    /\ up /\ todo # <<>> /\ Head(todo).put = "tree"
    /\ \E lost \in SUBSET FilesOf(Head(todo).project) : jobs' = Without(lost)
    /\ \E lost \in SUBSET VideosOf(Head(todo).project) :
          uploads' = Lost(lost, "removed")
    /\ todo' = <<>>
    /\ UNCHANGED <<providerVars, shownVars, worker, changes, up, kills>>

\* The repository's delete_project: events, jobs and project together.
CommitGone(w) ==
    /\ w.put = "gone"
    /\ projects' = [projects EXCEPT ![w.project] = "gone"]
    /\ jobs' = Erased(JobsOf(w.project))
    /\ UNCHANGED <<providerVars, uploads, worker, overtaken, dropped>>

-----------------------------------------------------------------------------
(* Deletion of one job.                                                    *)

PutStop(j) == [put |-> "stop", job |-> j]
PutOwner(j, marks) == [put |-> "owner", job |-> j, marks |-> marks]
PutEnded(j, wanted) == [put |-> "ended", job |-> j, wanted |-> wanted]
PutUnlink(j) == [put |-> "unlink", job |-> j]
PutDirectory(j) == [put |-> "directory", job |-> j]
PutMark(j) == [put |-> "mark", job |-> j]
PutErase(j) == [put |-> "erase", job |-> j]

\* Mutant of Cleanup: the video goes before the worker is asked for.
CleanupUnlinksFirst(j, marks, wanted) ==
    <<PutUnlink(j), PutOwner(j, marks), PutEnded(j, wanted), PutDirectory(j),
      PutErase(j)>>

\* What both deletions have in common: nobody owns the job, it has ended as it
\* should have, its video and its directory go, and then the row.
Cleanup(j, marks, wanted) ==
    <<PutOwner(j, marks), PutEnded(j, wanted), PutUnlink(j), PutDirectory(j),
      PutErase(j)>>

\* The delete command of a job; a pending one is cancelled first.
DeleteJob ==
    /\ Idle
    /\ \E j \in {i \in DOMAIN jobs : HasRow(i)} :
          todo' = IF jobs[j].status \in Pending
                  THEN <<PutStop(j)>> \o Cleanup(j, TRUE, {"cancelled"})
                  ELSE Cleanup(j, TRUE, Ended)
    /\ UNCHANGED <<providerVars, projectVars, changes, up, kills>>

\* _try_finalize_pending_job_delete.
FinalizeDelete ==
    /\ Idle
    /\ \E j \in {i \in DOMAIN jobs : HasRow(i) /\ jobs[i].delete} :
          todo' = Cleanup(j, FALSE, Ended)
    /\ UNCHANGED <<providerVars, projectVars, changes, up, kills>>

CommitStop(w) ==
    w.put = "stop" /\ jobs[w.job].status \in Pending /\ Cancel(w.job)

CommitOwner(w) == /\ w.put = "owner" /\ ~jobs[w.job].owned
                  /\ UNCHANGED <<providerVars, projectVars>>

CommitEnded(w) == /\ w.put = "ended" /\ jobs[w.job].status \in w.wanted
                  /\ UNCHANGED <<providerVars, projectVars>>

\* The handler has its answer before the end: the row has changed since it was
\* read (its version is left out here), somebody owns the job, or it did not
\* end as wanted.
StopDeleting ==
    /\ up /\ todo # <<>>
    /\ LET w == Head(todo)
       IN  /\ \/ w.put = "stop"
              \/ w.put = "owner" /\ jobs[w.job].owned
              \/ w.put = "ended" /\ jobs[w.job].status \notin w.wanted
           /\ todo' = IF w.put = "owner" /\ w.marks THEN <<PutMark(w.job)>>
                                                   ELSE <<>>
    /\ UNCHANGED <<providerVars, projectVars, changes, up, kills>>

\* _mark_job_delete_pending.
CommitMark(w) ==
    /\ w.put = "mark"
    /\ jobs' = [jobs EXCEPT ![w.job].delete = HasRow(w.job)]
    /\ UNCHANGED <<providerVars, shownVars, uploads, worker>>

\* _cleanup_staged_upload_for_job removes what the configuration names, ...
CommitUnlink(w) ==
    /\ w.put = "unlink"
    /\ uploads' = IF HasConfig(w.job)
                  THEN Lost({jobs[w.job].upload}, "unlinked") ELSE uploads
    /\ UNCHANGED <<providerVars, shownVars, jobs, worker>>

\* ... and the directory is removed, ...
CommitDirectory(w) ==
    /\ w.put = "directory"
    /\ jobs' = Without({w.job})
    /\ UNCHANGED <<providerVars, shownVars, uploads, worker>>

\* ... unless a file is in use.
DirectoryIsBusy ==
    /\ up /\ todo # <<>> /\ Head(todo).put = "directory"
    /\ \E lost \in SUBSET {Head(todo).job} : jobs' = Without(lost)
    /\ todo' = <<PutMark(Head(todo).job)>>
    /\ UNCHANGED <<providerVars, shownVars, uploads, worker, changes, up, kills>>

\* The repository's delete_job, which leaves the project as it is.
CommitErase(w) ==
    /\ w.put = "erase"
    /\ LET p == jobs[w.job].project
       IN  dropped' = [dropped EXCEPT ![p] = @ \cup {jobs[w.job].status}]
    /\ jobs' = Erased({w.job})
    /\ UNCHANGED <<providerVars, projects, overtaken, uploads, worker>>

CommitProjectWrite(w) ==
    \/ CommitUpload(w) \/ CommitLayout(w) \/ CommitSnapshot(w) \/ CommitRow(w)
    \/ CommitLogged(w) \/ CommitCancel(w) \/ CommitAwait(w) \/ CommitTree(w)
    \/ CommitGone(w)
    \/ CommitStop(w) \/ CommitOwner(w) \/ CommitEnded(w) \/ CommitMark(w)
    \/ CommitUnlink(w) \/ CommitDirectory(w) \/ CommitErase(w)

Commit ==
    /\ up /\ todo # <<>>
    /\ todo' = Tail(todo)
    /\ \/ CommitConfig(Head(todo)) /\ UNCHANGED projectVars
       \/ CommitProjectWrite(Head(todo))
    /\ UNCHANGED <<changes, up, kills>>

-----------------------------------------------------------------------------
(* The worker.                                                             *)

Resting == [pc |-> "idle", job |-> 0, seen |-> None, then |-> "idle"]
Goto(pc) == worker' = [worker EXCEPT !.pc = pc]

\* claim_next_job shows the project as running in the same transaction.
ClaimNext ==
    /\ worker.pc = "idle"
    /\ \E j \in DOMAIN jobs :
          /\ jobs[j].status = "queued"
          /\ jobs' = [WithStatus(j, "running") EXCEPT ![j].owned = TRUE]
          /\ worker' = [Resting EXCEPT !.pc = "load", !.job = j]
          /\ LET p == jobs[j].project
             IN  /\ projects' = [projects EXCEPT ![p] = "running"]
                 /\ overtaken' = overtaken \ {p}
                 /\ dropped' = [dropped EXCEPT ![p] = {}]
    /\ UNCHANGED <<providerVars, apiVars, uploads>>

\* _interrupt_stale_claims, of what a killed worker left running.
SweepStale ==
    /\ worker.pc = "idle"
    /\ \E j \in DOMAIN jobs : /\ jobs[j].status = "running" /\ jobs[j].owned
                              /\ SetAndRefresh(j, "interrupted")
    /\ UNCHANGED <<providerVars, apiVars, uploads, worker>>

\* Mutant of SetAndGo: the project is not refreshed when a job ends.
SetAndRest(status, then) ==
    /\ jobs' = WithStatus(worker.job, status)
    /\ worker' = [worker EXCEPT !.pc = then]

\* A status of the worker's, whose claim nobody takes from it here; the
\* refresh of the project is still to come.
SetAndGo(status, then) ==
    /\ jobs' = WithStatus(worker.job, status)
    /\ worker' = [worker EXCEPT !.pc = "select", !.then = then]

\* _run_claimed_job: the configuration is there and every credential in it is
\* found under its number and its kind.
Loadable(j) ==
    /\ HasConfig(j)
    /\ \A cap \in DOMAIN jobs[j].pin :
          LET pin == jobs[j].pin[cap]
          IN  pin.ref # None => Resolve(pin.ref, pin.kind) = pin.ref

LoadConfig ==
    /\ worker.pc = "load"
    /\ \/ /\ Loadable(worker.job)
          /\ Goto("ready")
          /\ UNCHANGED jobs
       \/ /\ ~Loadable(worker.job)
          /\ SetAndGo("failed", "release")
    /\ UNCHANGED <<providerVars, apiVars, shownVars, uploads>>

\* The next stage begins.
BeginStage ==
    /\ worker.pc \in {"ready", "work"}
    /\ SetAndGo("running", "work")
    /\ UNCHANGED <<providerVars, apiVars, shownVars, uploads>>

\* The job ends: by a cancel it was asked for, or by its own outcome.  The
\* video may be lost: its first stage has copied it.
EndJob ==
    /\ \E status \in {"succeeded", "failed", "cancelled"} :
          /\ worker.pc \in IF status = "cancelled" THEN {"ready", "work"}
                                                   ELSE {"work"}
          /\ status = "cancelled" => jobs[worker.job].cancel
          /\ SetAndGo(status, "release")
    /\ UNCHANGED <<providerVars, apiVars, shownVars, uploads>>

\* On to the next stage, or to the end of run_once.
Continued == [Resting EXCEPT !.pc = worker.then, !.job = worker.job]

\* refresh_project_status is a SELECT outside of any transaction, ...
SelectStatuses ==
    /\ worker.pc = "select"
    /\ LET p == jobs[worker.job].project
           found == StatusesOf(jobs, p)
       IN  /\ worker' = IF found = {} THEN Continued
                        ELSE [worker EXCEPT !.pc = "update",
                                            !.seen = Derived(found)]
           /\ overtaken' = overtaken \ {p}
           /\ dropped' = [dropped EXCEPT ![p] = {}]
    /\ UNCHANGED <<providerVars, apiVars, projects, jobs, uploads>>

\* ... and an UPDATE of the project, if it is still there.
UpdateProject ==
    /\ worker.pc = "update"
    /\ LET p == jobs[worker.job].project
       IN  projects' = IF Shown(p) THEN [projects EXCEPT ![p] = worker.seen]
                                   ELSE projects
    /\ worker' = Continued
    /\ UNCHANGED <<providerVars, apiVars, jobs, uploads, overtaken, dropped>>

\* release_job_claim, in the finally of run_once.
ReleaseClaim ==
    /\ worker.pc = "release"
    /\ jobs' = [jobs EXCEPT ![worker.job].owned = FALSE]
    /\ worker' = Resting
    /\ UNCHANGED <<providerVars, apiVars, shownVars, uploads>>

KillWorker ==
    /\ worker.pc # "idle"
    /\ kills < MaxKills
    /\ kills' = kills + 1
    /\ worker' = Resting
    /\ overtaken' = IF worker.pc \in {"select", "update"}
                    THEN overtaken \cup {jobs[worker.job].project}
                    ELSE overtaken
    /\ UNCHANGED <<providerVars, todo, changes, up, projects, jobs, uploads,
                   dropped>>

-----------------------------------------------------------------------------
Init ==
    /\ ProvidersInit
    /\ projects = [p \in ProjectIds |-> None]
    /\ jobs = <<>>
    /\ uploads = <<>>
    /\ worker = Resting
    /\ overtaken = {}
    /\ dropped = [p \in ProjectIds |-> {}]

ApiStep == \/ Configure /\ UNCHANGED projectVars
           \/ CreateProject \/ CreateJob \/ SubmissionRaises
           \/ CancelJob \/ RecoverJob
           \/ DeleteProject \/ GiveUpWaiting \/ TreeIsBusy
           \/ DeleteJob \/ FinalizeDelete \/ StopDeleting \/ DirectoryIsBusy
           \/ Commit

WorkerStep == \/ ClaimNext \/ SweepStale \/ LoadConfig \/ BeginStage \/ EndJob
              \/ SelectStatuses \/ UpdateProject \/ ReleaseClaim

Next == \/ ApiStep
        \/ WorkerStep
        \/ (StartApi \/ KillApi) /\ UNCHANGED projectVars
        \/ KillWorker

Spec == Init /\ [][Next]_vars

-----------------------------------------------------------------------------
(* Properties.                                                             *)

TypeOK ==
    /\ profiles # None =>
          /\ \A i \in DOMAIN profiles :
                /\ profiles[i].id \in Capabilities \cup (1..made)
                /\ profiles[i].kind \in Kinds
                /\ profiles[i].default \in BOOLEAN
          /\ \A i, k \in DOMAIN profiles :
                profiles[i].id = profiles[k].id => i = k
    /\ Len(secrets) <= MaxSecrets + Cardinality(Capabilities)
    /\ projects \in [ProjectIds -> Statuses \cup {None, "gone"}]
    /\ \A j \in DOMAIN jobs :
          /\ jobs[j].project \in ProjectIds
          /\ jobs[j].status \in Statuses \cup {"unborn", "gone"}
          /\ jobs[j].upload \in DOMAIN uploads
          /\ {jobs[j].owned, jobs[j].delete} \subseteq BOOLEAN
    /\ \A u \in DOMAIN uploads :
          uploads[u].project \in ProjectIds /\ uploads[u].file \in Fates
    /\ worker.pc \in {"idle", "load", "ready", "work", "select", "update",
                      "release"}
    /\ worker.pc # "idle" => worker.job \in DOMAIN jobs
    /\ worker.seen # None => worker.pc = "update" /\ worker.seen \in Statuses
    /\ overtaken \subseteq ProjectIds
    /\ dropped \in [ProjectIds -> SUBSET Ended]

\* A job that may still run has its project and the configuration it pinned,
\* with every credential in it, although profiles may be patched or deleted
\* (apps/api/service.py:283, 1593, 708; workers/single_host.py:463).
\* Submission and deletion are several commits each, and a kill, an exception
\* or a busy file may end them at any.
ActiveJobsAreRunnable ==
    \A j \in DOMAIN jobs :
       jobs[j].status \in Pending => Shown(jobs[j].project) /\ Loadable(j)

\* A job that may still run has its video but in two cases: the request that
\* brought it was answered with an error and the video discarded, or the
\* deletion of another job that named it took it away (apps/api/main.py:402,
\* service.py:2303, 1719).  No deletion takes it from a job of its own that
\* has not ended, none of a project from any.
UploadsOutliveTheirJobs ==
    \A j \in DOMAIN jobs :
       jobs[j].status \in Pending =>
          \/ uploads[jobs[j].upload].file \in {"there", "discarded"}
          \/ /\ uploads[jobs[j].upload].file = "unlinked"
             /\ \E i \in DOMAIN jobs \ {j} :
                   /\ jobs[i].upload = jobs[j].upload
                   /\ jobs[i].status \in Ended \cup {"gone"}

\* Once all jobs of a project have ended the project shows what follows from
\* them and from those deleted since it was refreshed, as a deletion refreshes
\* nothing.  The exception is a refresh by the worker, which is no
\* transaction, that was overtaken by one of the API's or cut off by a kill
\* (packages/infra/sqlite_repository.py:307, 566, packages/pipeline/
\* orchestrator.py:854).
FinishedProjectIsShown ==
    \A p \in ProjectIds \ overtaken :
       Shown(p) /\ JobsOf(p) # {} /\ PendingJobs(p) = {} =>
          \/ projects[p] = Derived(StatusesOf(jobs, p) \cup dropped[p])
          \/ worker.pc \in {"select", "update"} /\ jobs[worker.job].project = p
=============================================================================
