# TLA+ models of VideoSieve

VideoSieve turns a video into notes: an API process accepts projects and jobs, a worker process
runs each job through a pipeline of stages, a web page follows it. The processes share one SQLite
database and one workspace directory and nothing else. What is hard in this program is therefore
not in one function: it is what another process can commit between two transactions of this one.
That is what these modules are about.

| module | what it is |
|---|---|
| `JobStates` | the job statuses and `_ALLOWED_JOB_TRANSITIONS` |
| `JobLifecycle` | abstract specification: what the job table promises its readers (attempts granted once, ended once, by their owner) |
| `JobControl`, `JobControlMC` | worker processes, API control plane and job table together; implements `JobLifecycle` |
| `JobControl_proofs` | the inductive invariant of `JobControl` and its theorems |
| `JobFinality_proofs` | two further invariants of `JobControl`: nothing but the log of a failure brings a removed directory back, an attempt with a confirmed cancel comes to no other outcome |
| `JobFeed` | abstract specification: what a page that follows a job is promised |
| `EventStream`, `EventStreamMC` | how a job's state reaches a page: event table, gateway, polling thread, reducer; implements `JobFeed` |
| `EventStream_proofs` | cursors of a connection and versions of a state: invariant, theorems, the refinement |
| `JobStages`, `JobStagesMC` | the attempts at one job and the files they leave in its directory; the API's listing of them |
| `JobStages_proofs` | which attempt each file is of: invariant and theorems |
| `ModelProtocol` | what the client makes of a provider's answer under its three protocols |
| `ModelCalls` | the calls of a job: thread pool, limiter, retries, control checks, journal; extends `ModelProtocol` |
| `Sorting` | Python's `sorted` and comprehensions, as positions in an order |
| `KeyframeSelection`, `Timeline`, `EvidenceReduction` | the computations of keyframe selection, fusion and evidence reduction, as operators |
| `EvidenceReduction_proofs` | loops as recursive functions; what splitting, packing and a round of reduction keep |
| `KeyframesAndChapters_proofs` | orders; what chapters and a selection are, for inputs of any length |
| `StageData`, `StageDataMC` | composes `ModelCalls` with those computations, one of them per behaviour |
| `StageData_proofs` | invariant and theorems about the calls, the judgement of answers and the computations |
| `Providers` | profiles, credentials, settings, cookies: handlers of several commits, and kills |
| `Projects`, `ProjectsMC` | extends `Providers`: projects, uploads, submission, pinned configuration, deletion of jobs and projects, derived status, beside the worker |
| `Projects_proofs` | the invariant of `Providers` and `Projects` together, and its theorems |

What composes what: `JobControl` is the worker, the pipeline's control protocol and the API's job
handlers; `Projects` is the API's other handlers, and what submission and deletion of a job do beyond
`JobControl`'s row and directory, with the worker reduced to what they share.
`JobStages` is one worker's stages with the job row reduced to a request, a claim and an
outcome; `StageData` is the inside of the stages. `EventStream` takes the row's changes as given
and follows their announcement. Each module repeats of its neighbours only what it can observe of
them, and weaker (more behaviours) than the neighbour is.

## 1. Inventory

| component | state | operations | interacts with | hard behaviour | correct when |
|---|---|---|---|---|---|
| Job table (`packages/infra/sqlite_repository.py`, `packages/core/state_machine.py`) | `jobs` rows: status, `worker_id`, `attempt`, `heartbeat_at`, control columns, `state_version`, `delete_pending` | create, claim, heartbeat, release, sweep, status and progress updates, request/acknowledge control, recover, delete | every process | each operation is a transaction of its own; writes are conditional on owner and attempt, or on status and version | transitions are legal, a lost claim writes nothing, claims are exclusive |
| Worker (`workers/single_host.py`) | the claimed job, `worker.lock`, lease thread | poll, sweep, claim, run, fail, release | job table, workspace, events | kill at any point, SIGINT, heartbeat that lapses while the process lives | every run ends, every queued job is claimed |
| Pipeline (`packages/pipeline/orchestrator.py`, `checkpoint.py`, `control.py`) | stage, checkpoint, safety point | stage loop, safety points, signal handling, status writes | job table, workspace | control decided on a row read earlier; acknowledgement and effect are two commits; cooperative stops surface as stage errors | a stop is no failure, an applied cancel is final |
| API control plane (`apps/api/service.py`) | pending deletes (row flag and cache) | create, pause, resume, cancel, delete, finalize | job table, workspace | check and update in different transactions, kill between two of them, files in use | a request fits the status it is committed to, a delete is complete or pending |
| Event table, event bus, gateway (`packages/infra/event_bus.py`, `apps/api/ws_gateway.py`) | `job_events`, subscriptions, buffered connections | append, poll, connect with replay, snapshot, live delivery | worker, API, page | the polling thread runs beside the setup of a connection; publication follows the commit | no gap, no repetition, no exchange |
| Page (`apps/web/lib/state/jobReducer.ts`, `lib/hooks/useJobRealtime.ts`) | last cursor, version, status | connect, merge, reconnect | gateway | snapshots and events of different age | the state does not go back |
| Deliverables (`packages/deliverables/service.py`) | files under `outputs/` | publish, read | pipeline, API | kill between two files, reader during publication | a reader sees one attempt |
| Model API (`packages/model_api`) | limiter, retry budget, call journal | call, retry, record | stages | concurrent calls, torn journal line after a kill | limits kept, usage counted once |
| Projects (`apps/api/service.py`, `sqlite_repository.py`) | project rows, uploads, directories | create, stage and discard uploads, refresh status, delete a job or the project | job table, worker | status derived in a later transaction; uploads that jobs share; deletion beside a running worker | status agrees with the jobs, a pending job keeps its files |
| Ingest, ASR, keyframes, hotwords, fusion, summaries | files of a job | transformations | model API, external tools | mostly sequential data code | the result matches a reference definition |
| Settings, profiles, cookies, secrets | rows and encrypted values | read-modify-write | API | lost updates | no update is lost |
| HTTP layer, CLI, deployment, UI | – | parsing, rendering, supervision | – | – | – |

`PROJECT.json` lists the same components with their status, and under `hazards` each place where
this code can go wrong in a way a test would hardly reach.

## 2. JobControl

### Correspondence

One action is one SQLite transaction, or one removal of a directory, with the local computation up
to the next: whatever another process can observe between two commits is a state.

* `row` is the `jobs` table (`owner` = `worker_id`, `ver`/`ack` = `control_version` and
  `control_ack_version`, `sv` = `state_version`, `del` = `delete_pending`; `fresh` stands for a
  `heartbeat_at` younger than `--stale-after`). Jobs are numbered in the order of `created_at`.
* `ws[j]` says whether the job's directory exists.
* `wk[w]` is a worker process: where it is in `run_once`/`run_job` (`pc`), its claim
  (`job`, `attempt`), its stage `k`, why it is in a safety point, and the command and version the
  safety point read. `ClaimNext … Release` are `run_once` from `claim_next_job` to
  `release_job_claim`; `SafetyRead`, `SafetyBeat`, `AckControl`, `ApplyControl` are the four
  transactions of `_safety_point`; `HandleSignal` is the handler in `run_job`; `BeginStage`,
  `Stage…`, `PublishProgress`, `RecordFailure`, `LogFailure`, `Succeed` are the stage loop; the log of a
  failure is a step of its own, after the commit of `failed`, and makes the directory it needs.
* `api` is the handler the API event loop is executing. `Dispatch` reads the row and evaluates the
  command; `SubmitRequest`/`RefuseRequest` are the conditional update; the deletion is the chain
  `owner → latest → cleanup → delete`, or `mark` for a pending one; `FinalizeDelete` starts
  `_try_finalize_pending_job_delete`.
* Faults: `Crash` (kill -9 of a worker), `Interrupt` (KeyboardInterrupt), `ApiCrash`. `Lapse` is the
  passing of `--stale-after`; nothing relates it to the worker being dead, so workers also lose
  their claim while they live.

### What is abstracted

What a stage computes is a choice between success, an exception of its own, and an exception a
control request or lost claim provoked. Stage, progress and error columns, logs, events and
`claimed_at` are left out, and so is the replay of a `request_id` (a retried command is a command).
The read of the status and the fenced update in `_set_job_status` are one action: the fence protects
the update, and only the owner changes the status of an owned running row. A directory is
removed at once or not at all. The API's cache of pending deletes equals the `del` column, from
which it is rebuilt. A worker identity is reused by its next process, as `--worker-id` is. `_try_finalize_pending_job_delete`
is also called by the thread that polls the events; here it takes its turn with the handlers. SQLite
errors are not modelled. The in-memory `pending` sets of the control service are not, because they
are not shared with the process that runs the job.

### Runs

| run | instance | shows |
|---|---|---|
| `fencing` | 2 workers without `worker.lock`, 1 job, 1 stage, 1 fault of any kind, 2 requests per job | the conditional updates alone keep claims distinct, silence attempts that lost their claim, bind requests to the status they were decided on, keep cooperative stops from becoming failures, and make the table implement `JobLifecycle` |
| `liveness` | 1 worker with the lock, 2 stages, 2 kills of the worker or the API, 2 requests, `FairSpec` | runs end, resumes are honoured, queued (also recovered) jobs are claimed, and nothing but the log of a failure recreates the directory of a deleted job |
| `delete` | 1 worker, 2 jobs, 1 request per job, `WatchedSpec` | the queue is served past a parked job, pending deletes complete |
| `v_cancel`, `v_sigint`, `v_ghost`, `v_forgotten` | minimal instances | see Findings |

Bounds. Two workers are the least number for a takeover, and a third adds no new relation between
two claims (`ClaimsAreDistinct` speaks of pairs). Two requests per job suffice for one request to
supersede another that a worker has already read, and two stages for a request that falls between
the safety points of a run. Two kills let the second hit the sweep or the recovery after the first.
Deadlock is checked in all these runs: a worker that polls never stops.
`MaxVersion` bounds accepted requests, `MaxFaults` faults; both are guards.
`OnlyLogsOutliveDeletion` needs `worker.lock`: without it a worker that lost its claim may
still save a checkpoint into the directory of a job that was recovered, finished and deleted
meanwhile, so the run has `SingleInstance = TRUE`, as deployed. That the log of a
failure may come late is a weakness of the code (section 7).

### Fairness

Weak fairness of a worker's steps (its main thread goes on), of `Launch`
(`deploy/systemd/videosieve-worker.service` has `Restart=on-failure`), of `ApiStep` (a handler that
was entered returns) and of `LapseOfDead` (a heartbeat nobody renews ages). Not of commands: nobody
has to send one. `WatchedSpec` adds strong fairness of `FinalizeDelete` and `RemoveWorkspace`:
every snapshot of a job with a pending delete tries to finish it (`get_job_snapshot`), and
its files are not in use for ever. The first is an assumption about users, which is why it is
made only for `PendingDeleteCompletes`.

### Proofs

`JobControl_proofs` proves, for all numbers of jobs, workers, stages, requests and faults, with and
without the lock, from `ParameterAssumption` alone: `TypeCorrect`, `Invariance` (`IInv`),
`WaitingJobsAreUnowned`, `AttemptsAreExclusive`, `QueueIsNeverBlocked`, `ActiveJobsKeepWorkspace`,
`ControlNeverFailsJobs`, the action properties `FencingHolds` and `RequestsAreChecked`, and the
refinement `LifecycleRefinement`.

None of the invariants is inductive alone; `IInv` adds

* `OwnerIsCurrent`: the owner of a row works under the row's attempt. It makes "the row's owner is w"
  and "w holds the fence" the same, without which a re-claim could hand w's old attempt a valid fence;
* `ClaimedWasInserted`, `ClaimsNameJobs`, `HandlersNameJobs`: what program counters imply about claims;
* `HandlerKnows`: which of the handler's earlier reads are still true. Terminal statuses are
  stable, so "terminal" survives the two reads of a deletion; "unowned" alone does not;
* `OwnedIsRunning`: an owner that has not written its outcome owns a running row. This bounds what a
  status write can do to the lifecycle;
* `QueueWasNotCancelled`: the last request of a queued row is not a cancel, which is what makes the
  claim query never skip a row for ever;
* `ControlIsFound`: a stage stopped by a request or a lost claim reaches a safety point that still
  finds one of the two; from this follows `ControlIsNoFailure`.

`JobLifecycle` is a table of statuses, owners and attempts without program counters, requests or
heartbeats. Its steps are those of one row: `Grant` (the next attempt, out of the queue or a pause),
`Work` (the owner ends the attempt, once, or gives up the row), `Expire` (the sweep), `Requeue` (the
recovery), `Withdraw` (a cancel of a row nobody owns), `Insert` and `Delete`. Two facts of the code
show in it: a running row may be unowned (an interrupted worker releases its claim and leaves the
status, see `v_sigint`), so `Withdraw` includes it; and neither `Grant` nor `Delete` looks at the
owner. `LifecycleRefinement` maps every step of `JobControl` to steps of the rows it changes; besides
`IInv` it needs `SignalFits`: an owner that handles a safety signal finds its row running or already
in the status the signal asks for. This is what keeps a second status write, after the one of the
safety point, from ending an attempt twice.

The step proof splits the actions into those of a worker (`OwnMove`: what the row of the moving
worker may become, and `OthersKeepOwned`: what this leaves to the other workers) and the others, and
has one lemma per action and conjunct it can disturb.

`JobFinality_proofs` builds two more invariants on `IInv`, because both properties depend on what
the worker that holds a job is still going to do.

* `Confirmation` (theorem `ConfirmedCancelsAreFinal`, for `AppliedCancelIsFinal`). An acknowledgement
  is fenced by owner and version only, so the proof needs that no version is confirmed before it was
  requested (`AckIsBehind`), that equal versions are equal commands in what a worker read and in the
  row (`ReadIsBehind`), and that an owner with a confirmed cancel stands where it can only write that
  outcome (`ConfirmedIsApplied`). INGEST's own cancel checker is the awkward case: it ends a stage
  without having confirmed anything.
* `Deletion` (theorem `OnlyLogsComeLate`, for `OnlyLogsOutliveDeletion`, under `SingleInstance`). One
  process is up (`OneProcess`), so a claim is lost by deletion only (`HolderOwns`). A handler past its
  first read deals with a job that was terminal or has a cancel in its row (`CommandStands`), and
  the finalizer may have overlooked a claim between its two reads, but then of a job without a
  cancel (`FinalizerRaces`): whoever still holds a job that is being removed writes no file any more
  but the log of its failure (`LateWorkersAreQuiet`).

`ConfirmedCancelsAreFinal` is about the attempt. It does not say that the job ends: a kill between
the acknowledgement and the status leaves a running row, which is swept to `interrupted` and may be
resumed; paused, failed or succeeded is what the row does not become.

Only model-checked: liveness (`RunsEnd`, `ResumeIsHonoured`, `QueueIsServed`,
`PendingDeleteCompletes`), which is out of the prover's reach.

## 3. EventStream

### Correspondence

`log` is `job_events` of one channel (cursor = position: `event_id` increases, other channels leave
gaps nobody looks at). `row` keeps what decides who may commit next; `pub[w]` is a worker between
its commit and the event that announces it. `ReadVersion` and `AppendEvent` are `append_job_event`:
its SELECT of `state_version` runs before the transaction of its INSERT. `ack` is the control
confirmation the API still has to append. `conn`, `sub`, `wire` and `page` are `_PendingConnection`,
the thread of `_SQLiteSubscription`, the socket's queue and the reducer. `Connect … Activate`
are the steps of `connect`, which the event loop executes without interruption while workers and
the polling thread go on; `Deliver` is `_deliver_live_event` under the lock that `Activate` holds, and
`Ascending` the sorted buffer that `_activate_connection` sends.
The sender task starts after the setup, hence the guard of `Receive`. `Drop` and `ApiRestart` lose
what is under way; the page reconnects with its cursor.

`at`, in rows, events and the page, counts the commits that changed the status, to tell one stay
in a status from another; `late` marks an event whose status had been left at the append. Neither
exists in the code, and no action reads them to decide anything.

Left out: deletion of rows and events, model usage, log lines, rejected commands, and events without
status other than those of progress and control commands, which are of the same kind (`other`).

### Runs

| run | instance | shows |
|---|---|---|
| `stream` | 2 workers, 3 commits, batches of 2, 1 broken connection, kills | what a page receives is gapless and in order through replay, snapshot, buffer and live delivery; all of it implements `JobFeed`; the page goes back to an earlier status only by an event that was late |

Three commits with their events exceed a batch after a reconnection and leave room for a
commit between a status and its announcement. Batches of 2 stand for those of 1000, so that a replay needs
several. `CHECK_DEADLOCK FALSE`: when the commits are used up everything may come to rest. No
fairness is assumed: the run checks safety.

### Proofs

`EventStream_proofs` proves, for any number of workers, commits, crashes and broken connections and
any batch size, from `StreamAssumption`: `TypeCorrect`, `Invariance`, `EventsArriveInOrder`,
`EventsAreNotLost`, `VersionsGrow`, `OnlyLateAnnouncementsMislead` and the refinement
`FeedRefinement`. The invariant has two parts.

* `CursorInv` follows a connection: `Connected` says for every step of the setup how far what was
  sent reaches (`EndsAt`), and that the buffer holds exactly the cursors between the barrier
  and the polling thread's, which is why nothing is lost when the buffer is emptied although the
  thread ran through the whole setup.
* `VersionInv` compares versions. That the page's version never falls needs `ReadFromRow`,
  `WireIsLog` and `SnapshotIsNewest` (the snapshot is at least as new as all that was sent before
  it). That only late events set the page back needs `RowTells`, `LogTells`, `PubTells`,
  `WireTells` and `PageTells`: wherever a copy of the row is, a later state than one announced
  in time comes with a greater version, so that the reducer drops the earlier event.

`JobFeed` says what is left of all this for a page: it comes to every event after the one it began
with, one after the other, whatever connections broke in between; the version it shows never falls,
never runs ahead of the row, and is at least that of the event it has come to, although events may
be appended with older versions than those before them. The gateway's barrier, watermarks, buffer and
lock do not occur in it. The mapping takes the versions of `log`, `row.sv` and the page's cursor and
version. A commit maps to `Change` or a stutter, an append to `Publish`, a receipt to `Receive`,
everything else of a connection to a stutter. The last promise needs one invariant more,
`SnapshotKnowsLog`: a snapshot is read after the watermark whose cursor it carries.

## 4. JobStages

### Correspondence

A step is one file written, replaced or removed, because a kill falls between two of those or inside
one that is written in place. `file[f]` says which attempts' work went into a file and whether it
was written to its end (`From`, `Torn`); `images`, `selected`, `zipped`, `summarised` are the frames
behind the image directory, `keyframes.jsonl`, `images.zip` and `frame_summary.jsonl`. `at` is the
step the worker is at. `Begin` is a claim with the start of `run_job`, which goes through all stages
again whatever the checkpoint says, in a directory nobody cleans; `Reaches` and `Stop` are the safety
point before each stage; `Raise` is `_run_stage`'s answer to an exception, which looks for a pending
control first. INGEST is `FetchSource … WriteMeta` with the download plan, its retries from the first
asset and its own cancel checker, which does not look for a pause. KEYFRAMES is the algorithm, the
baseline it falls back to on any exception, the second extraction of missing images and the
archive. DELIVERABLES is `DeliverableService.run`: withdraw, manifest first; render; publish,
manifest last; retract on an exception. `ReadManifest` and `VerifyArtifact` are the API's
`list_artifacts`, one file at a time, beside the worker.

Left out: what the files say beyond their origin, progress, logs, staging files (named for
their attempt, read by nobody), `checkpoint.json` and `events.jsonl`, and the rerun from a stage,
which no configuration asks for. The frame summaries are made of the records and of the images:
`SaveSummaries` takes along whether an image it reads was taken for another selection, or by an
attempt that was cut off, as `Path.exists` is content with either (`current` in a file's record).

### Run and proofs

`v_images` has one attempt at one frame and no kill: the algorithm fails after it has written images,
see Findings. What the passing run says of one attempt is therefore about records
(`RecordsAreOwnAndComplete`), not about images.

`stages`: 2 frames, 3 attempts, 2 kills, 1 repeated download, three configurations (a local file
with summary, one format without, two formats with summary). Three attempts because a reader can hold
a manifest of the first while the second withdraws and the third publishes; two kills to cut two of
them; two frames because a selection that shrinks leaves an image behind. `CHECK_DEADLOCK FALSE`:
when the attempts are used up or the job is final, nothing is left to do. No fairness: safety only.

`JobStages_proofs` proves `TypeCorrect`, `Invariance`, `ManifestsAreHonest`, `AttemptsDoNotMix`
and `ListingsAreConsistent` for any number of frames, attempts, kills, retries
and configurations, from `StagesAssumption`. What makes the invariant inductive is `WorkIsOwn`: at
each step, the files this step may still read were written by this attempt. `RecordsAreOwnAndComplete`
and `ManifestCoversOutputs` do not follow from themselves: that what is published agrees with the
manifest depends on the files before it having been withdrawn, and that it is of one attempt
on every stage having overwritten its input's file. `ReaderIsStrict` says that what
a listing has seen equals the manifest it started from, so that the answer is of one generation
even when both are gone by the time it is sent.

## 5. StageData: model calls and computations

### Correspondence

`ModelCalls` is `request_model` run by the frame summaries' thread pool behind `_RpmLimiter`, and
by the worker's own thread for the overall summary. `task[t]` is where the thread of a request
stands: queued, at the gate (control checks and limiter), about to send, calling. `Answer` records
the attempt in the journal whatever it was, then looks at control, then judges the outcome. Time is
counted in ticks; `stamps` says for every attempt at a frame's request how many ticks ago the limiter
let it pass, up to `Window`, which is also the value of one that never did. `Kill` may leave the
journal's last line torn or without its newline (`TornAppends`), which `Appended` repairs and `Begin`
reads back. `sends` and `tally` are ghosts: when a frame's attempt really left the process, and how
many requests did. `Ask` and `LoseClaim` are the API and the sweep.

`ModelProtocol` translates the judgement of an answer: truncations, aborts, refusals and missing
reasons under the three protocols. A payload is a protocol, a reason from the set the code tells
apart, and whether it has text, a refusal, an error; HTTP status classes are one outcome each.

`KeyframeSelection`, `Timeline` and `EvidenceReduction` are pure operators: stable segments by median
and median deviation, sampled buckets, scores, selection in two passes; segments to chapters by
midpoints, and the reading back of the timeline; splitting, packing and rounds of reduction with the
code's lengths. A loop that carries a value is a recursive function of the turn, a sort is an order
of positions (`Sorting`). Features and times are whole numbers; normalised values count sixtieths and
scores six-thousandths, exact for the ranges of the run, so that rounding of floats is not modelled.
Left out are two branches no input reaches, the selection's for frames without a candidate and
fusion's for a transcript without a chapter, and `k_max`, which the pipeline leaves at `None`.

`StageData` runs either the calls or one computation per behaviour: stages exchange files
and share nothing else, so their inputs are chosen freely within what the stage before can write.

### Run and fairness

`work`: 2 frames and the overall summary, 2 threads, 1 call per window of 2 ticks, 1 retry, 2 attempts;
for the computations up to 5 frames of 5 kinds, 2 segments with up to 3 keyframes in any relation
(also of no length, out of order, blank), 3 sections of lengths around the cut, 3 lengths of a
partial summary, 2 rounds. One call per window with two threads makes a thread wait with a place of
the pool in hand and a retry queue behind it. The context is chosen so that the limit is the least
the service allows, which keeps sections near it short. States that differ only in how many requests
were sent and lost, with the same difference, count as one (`VIEW UpToLosses`): no step reads the two
ghosts. `CHECK_DEADLOCK FALSE`: attempts are bounded, and a computation ends.

Fairness is weak, of `CallStep` (the threads go on, the provider answers or the client's timeout fires,
time passes), and not of commands, kills or lost claims. From it follows `CallsEnd`: nobody waits for
limiter, pool or backoff for ever, although a failure does not cancel the requests still queued.

### Proofs

`StageData_proofs` proves `TypeCorrect`, `Invariance` and a theorem for each safety invariant of the
run, for any finite set of frames, any pool, limit, window and number of retries and attempts, any
parameters of the selection, and inputs of any length. The assumptions are `CallsAssumption`,
`SelectionAssumption`, `ReductionAssumption` (the context leaves room for the least limit the service
allows) and `InputsAssumption`: segments have identifiers of their own and keyframes come in the order
of their times, no two at the same, which is what ASR and the selection write. The invariant has four
parts.

* Calls (`NoCallIsForgotten`, `UsageSurvivesKills`, `ControlStopsCalls`). The accounting needs `AtRest`
  (nothing is in flight between two stages, or the calls of a finished stage would be counted for
  ever); the bound on late calls needs `PoolIsBounded` and `LateIsBounded`: a request control has passed
  but that is not sent yet is the only one that can still go, and there are as many as threads.
* Rate (`FrameRateIsBounded`). The limiter counts when it lets a request pass, the provider counts
  when it is sent, and a thread may be held between the two for any time. `RateInv` therefore bounds,
  for every age `k` up to the window, the attempts that `k` ticks ago had passed and were not sent
  (`Held`): there are never more than threads. What was sent within the window has passed within it,
  `Rpm` at most, or was held when it began.
* Answers (`AnswersAreWhole`): a judged answer carries the outcome `PayloadOutcome` gives it.
* Computations: a finished computation carries the result of its operators (`Selection`, `Fusion`),
  and what is being reduced is all of the evidence, in order (`Reduction`). The properties then are
  statements about operators.

`ReductionIsFaithful` and its theorem take the prompt and the text around the sections to fit into the
2048 tokens reserved for them. The client's check counts them (`client.py:118`), but nothing bounds a
prompt that a user sets: then the request is refused, not cut.

Induction over data is not available to these provers. The lemmas about loops use the least number
instead: a recursive function exists, because the turns up to which there is one have no least
exception (`LoopExists`), and what every turn keeps is kept by the whole (`EveryTurn`). With them:

* `EvidenceIsNotLost` (`EvidenceReduction_proofs`): splitting a section yields pieces within the limit
  (`SplitFits`); packing keeps which sections went in, in order, and the limit (`Packed`,
  `PartitionKeeps`); the summaries of one round are the evidence of the next (`NextRoundOfEvidence`).
* `ChaptersAreNearest` (`KeyframesAndChapters_proofs`): an order by counting predecessors holds every
  element exactly once, as in a strict total order no two elements have equally many (`InOrderLists`),
  so that sorting loses nothing; the midpoints between keyframes separate as the distances do
  (`ChapterIsNearest`); a chunk spans what it holds (`ChunkSpans`).
* `KeyframesAreSpread`: conflicts are mutual (`ConflictsAreMutual`), so each pass keeps a compatible
  set. A candidate that was rejected as not worth it was compared with fewer taken ones than there
  are in the end, hence the lemma that novelty, and with it worth, only falls when more is taken
  (`NoveltyFalls`, `WorthFalls`); that every bucket with a candidate that fits is served by the first
  pass is `CoveringReaches`.

Only model-checked: `CallsEnd` (liveness).

## 6. Providers and Projects

### Correspondence

The API's handlers run one after another on its event loop, so a handler computes everything it
will write from one state; but each write is a commit of its own. `todo` is the list of commits still to
come; `Commit` makes the next one, `KillApi` forgets the rest. `Providers` has the settings value with
all profiles, the rows of `provider_secrets` (a new credential supersedes those of its kind; they
stay readable by number) and `user_cookies`, with create, patch and delete of profiles and cookies, the
patch of the older settings, and the migration at the first start.

`Projects` adds `create_project`, submission, cancel and recovery, and the two deletions.

* Submission comes by two routes. The one of an upload stages the video (`CommitUpload`) and discards
  it when `create_job` raises (`SubmissionRaises`); the other names a video of before, as
  `_validate_local_video_path` takes any upload of the project (`Nameable`), also one that another
  job names. `create_job` makes the directory, pins the configuration, inserts the row and writes the
  operation log, which may raise with the row committed.
* `delete_project` cancels, waits, removes the directory with `rmtree`, which may fail half-way, and
  then the rows.
* The deletion of one job (`DeleteJob`, `FinalizeDelete`) is `Cleanup`: nobody owns the job, it has
  ended as wanted, then its upload is unlinked, its directory and its row go. `StopDeleting` is every
  answer before that, `CommitMark` the pending delete. It refreshes no project.

The worker claims, which shows the project as running, loads the pinned configuration, runs, ends,
refreshes the project in two statements that are no transaction (`SelectStatuses`, `UpdateProject`),
and releases its claim; the API refreshes in the transaction that changes the job. Two ghosts say
what a stale status may come from: `overtaken`, the projects whose refresh by the worker was overtaken
by one of the API's or cut off by a kill, and `dropped`, the statuses of the jobs that were deleted
since a project was last refreshed. `uploads` keeps why a video is gone.

Left out: endpoints, models, prompts and the other values of settings, encryption, names, uploads'
contents, jobs of a link (nothing of a link can be lost), pauses, which for a project are
interruptions, and the versions of a row, so that an API that finds the row changed may stop at any
time. The worker is the one that `worker.lock` admits. The finalizer also runs in the thread that polls
the events; here it takes its turn with the handlers.

### Run

`control_plane`: 1 capability, 2 profiles, 1 new credential beside the one of the older settings, 2
cookies, 3 changes, 1 kill, 1 project, 2 jobs. One capability is enough for competing defaults, since
capabilities share nothing; two credentials of a kind for one to supersede the other while a job pins
it; two jobs are the least that share an upload, or give a project different statuses to be derived
from.

`ProjectsMC` adds the constraint `Apart`, which keeps TLC from combining what has nothing in common:
cookies with projects, an ended job with changes of the configuration, and a second job or upload with
changes of the configuration (what two jobs have in common, the project's status and perhaps a video,
is not configured). With two jobs there is besides a kill or a request that waits for the worker (the
cancel of a running job, a pending delete), not both; with one job there are both. The theorems are
without the constraint. `UploadsOutliveTheirJobs` and
`FinishedProjectIsShown` hold with the exceptions they name, and say that there are no others.
`CHECK_DEADLOCK FALSE`: changes and jobs are bounded.

### Proofs

`Projects_proofs` proves `ProjectsTypeOK`, `OneDefaultIsKept`, `PendingJobsCanRun`,
`PendingJobsKeepVideos` and `ProjectsShowTheirJobs` for any number of capabilities, profiles,
credentials, cookies, projects, jobs and kills, from `ProvidersAssumption` and `ProjectsAssumption`
(names are told apart, capabilities are finitely many). What has to be related is the list of commits
still to come with the state they were computed from, when a kill may cut it anywhere and the worker
goes on beside it:

* `Configuring`: every write of the configuration in `todo` is good whenever it comes (`ConfigWrite`),
  so that what a kill leaves out cannot hurt; the credential is written first, and there is room
  for it. Each handler's computation of new profiles or cookies has a lemma (`CreatedIsGood`,
  `PatchedIsGood`, `DeletedIsGood`, `MigratedIsGood`, `WrittenCookies`).
* `Submitting`: the row comes after video, snapshot and credentials, of a project that is still
  shown. This is what makes `ActiveJobsAreRunnable` hold for the row that is inserted; only the log
  follows it, and with it the exception that discards the video.
* `Deleting`: files go when no job of the project is pending, and rows after files.
* `Cleaning`: what takes something from a job comes after the job was found to have ended, and nothing
  makes an ended job pending again.
* `JobsNameVideos`: a job names an upload of its own project, so that the deletion of another project
  takes nothing from it.
* `WorkerRuns` and `RefreshIsCurrent`: the status the worker has computed of a finished project and is
  about to write is still the derived one, of the jobs and the deleted ones, unless a refresh of the
  API's came between (`overtaken`).

## 7. Findings

Each is a `violation` run with its trace and an entry in `PROJECT.json`.

* `v_cancel`: a cancel accepted between the paused commit of the safety point and the release of
  the claim is left open for ever.
* `v_sigint`: SIGINT releases a claim and leaves the job `running` without owner; no sweep finds it.
* `v_ghost`: a worker killed between the terminal commit and the release stays the owner; a pending
  delete waits for it for ever.
* `v_forgotten`: a delete of an active job that ends by itself meanwhile is answered as accepted and
  neither done nor recorded.
* `v_images`: the images of the algorithm that failed are taken for those of the baseline sampling,
  which selects other times under the same numbers; they are summarised and published. The same
  happens with images that an earlier attempt left behind.

### Weaknesses that no run refutes

The first five are exceptions that a property of a passing run names: the code does this, and the
property says that nothing else leads to it. Of the others no document or test promises the contrary,
or what they break is below the models' data, or it is repaired.

* `failed` is committed (`orchestrator.py:162`) before its log is appended (795), which makes the
  directory it needs. A finalizer that has seen no owner meets the `failed` of a job claimed meanwhile
  (`service.py:2339-2352`), removes directory and row, and the log brings the directory back, which
  nothing cleans up; docs/10_system/workspace-layout.md:53 has the cleanup after the confirmed stop.
  `OnlyLogsOutliveDeletion` delimits the case.
* An event without a version takes the one the row has at the append (`sqlite_repository.py:968`)
  instead of the one its status had, so that a page shows `paused` for a cancelled job, although
  docs/30_apps/web.md:60 has the version keep the state from going back. `OnlyLateEventsGoBack`
  delimits the case.
* `create_job` may raise at the operation log (`service.py:1711`), after the queued row was committed
  (1708), and the route of the upload then discards the video of a queued job (`main.py:402`), although
  `discard_local_upload` is for unqueued ones (`service.py:231`). `UploadsOutliveTheirJobs` delimits
  the case.
* A job may name an upload that another job names (`service.py:1719-1732`), and the deletion of either
  unlinks it (2284-2303), so that the other, if it has still to run, finds no video.
  `UploadsOutliveTheirJobs` delimits the case.
* The worker's refresh of a project is a SELECT and an UPDATE without a transaction
  (`sqlite_repository.py:307-338`), and creating and deleting a job refreshes nothing (a claim sets the
  project running): a project can keep a stale status, as when the failed one of its jobs is deleted
  and the others succeeded. `FinishedProjectIsShown` delimits the cases.
* A kill between the credential's commit and the profiles' (`service.py:656-706`) leaves a new
  credential with the old endpoint; a settings patch is sixteen values and up to three credentials,
  each a commit (`service.py:520-562`).
* A job pins its credentials by number, but a cookie is read as it is when INGEST begins.
* An upload is orphaned when the API is killed before the job's row.
* An artifact download checks the hash and then opens the file (`apps/api/main.py:440`).
* A failed frame summary does not cancel the queued ones (`frame_summary/service.py:242`): they
  are still sent.
* Fusion may write a chunk of blank text (`fusion/service.py:124`), which the evidence reader rejects
  together with the whole timeline (`overall_summary/evidence.py:95`).
* `request_id` recognises only the latest command (`sqlite_repository.py:868`).
* An acknowledgement is fenced by owner and version, not by attempt (`sqlite_repository.py:929`); the
  proof of `AttemptsAreExclusive` is why this is harmless.
* INGEST's cancel ends a job as cancelled without an acknowledgement (`orchestrator.py:492`).
* A database error inside `_handle_claim_failure` (`single_host.py:243`) ends like SIGINT does.
* A pause is two commits (`orchestrator.py:344`), where docs/10_system/state-machine.md:86 has one: a
  kill between them leaves an applied pause on a job that is then swept to `interrupted`.
* `checkpoint.json` is written in place (`checkpoint.py:72`): cut off by a kill, it makes
  every later attempt fail at its start. The model's `LoadConfig` may fail, without this memory.

## 8. Plan

Done: the job table with its refinement, the event stream with its refinement, the job directory, the
calls and computations of the stages, the control plane; every safety property that a passing
run checks is a theorem.

1. An abstract publication (none, or the deliverables of one attempt) that `JobStages` implements for
   the readers of its listings.
2. The limiter's promise as a specification of its own, which `ModelCalls` implements up to the
   requests its threads hold.
3. A convergence property for pages that stay connected: it fails for changes the API announces by
   `control_ack` only (hazards at `ws_gateway.py:168` and `jobReducer.ts:67`), and is worth a
   run once it is settled what the documents promise.

## 9. Not modelled

* ffmpeg, ASR engines, yt-dlp and model endpoints are external: an outcome each.
* Feature extraction from pixels, hotword extraction, prompts and rendering transform data without
  state.
* Request parsing, encryption and path checks, the command-line scripts (they check an
  installation or call the API), and the user interface beyond its realtime state keep no state
  that others share.
* The rerun from a stage: the worker passes `rerun_from_stage` on from the job's configuration
  (`single_host.py:403`), but no handler of the API writes that key.
* Deployment appears as two assumptions: the worker is restarted, and `worker.lock` admits one.
