------------------------- MODULE JobFinality_proofs -------------------------
(***************************************************************************)
(* Proofs about JobControl that need to know what the worker that still    *)
(* holds a job is going to do: a cancel that was confirmed is followed by  *)
(* no other outcome of its attempt, and under worker.lock nothing brings a *)
(* removed directory back but the log of a failure.                        *)
(***************************************************************************)
EXTENDS JobControl_proofs

-----------------------------------------------------------------------------
(* The steps of the process that holds a claim.                            *)

\* SetJobStatus leaves the owner of every row alone.
LEMMA SetJobStatusKeepsOwner ==
    ASSUME Shape, NEW w \in Workers, Holds(w), NEW t, NEW done, NEW lost,
           SetJobStatus(w, t, done, lost)
    PROVE  /\ row'[wk[w].job].owner = row[wk[w].job].owner
           /\ row'[wk[w].job].cmd = row[wk[w].job].cmd
           /\ row'[wk[w].job].ver = row[wk[w].job].ver
           /\ row'[wk[w].job].ack = row[wk[w].job].ack
           /\ row'[wk[w].job].status \in {row[wk[w].job].status, t}
<1>1. wk[w].job \in Jobs /\ row[wk[w].job] \in Row /\ row \in [Jobs -> Row]
  BY ClaimedRowIsRow DEF Shape, TypeOK
<1>2. row' = row \/ row' = [row EXCEPT ![wk[w].job].status = t,
                                       ![wk[w].job].sv = @ + 1]
  BY SetJobStatusEffect
<1> QED
  BY <1>1, <1>2 DEF Row

\* A process gives up the ownership of its row only together with its claim.
LEMMA OwnKeepsOwner ==
    ASSUME Shape, WaitingIsUnowned, NEW w \in Workers, Own(w), Holds(w)
    PROVE  \/ wk'[w].job = 0
           \/ /\ wk'[w].job = wk[w].job
              /\ row'[wk[w].job].owner = row[wk[w].job].owner
              /\ row'[wk[w].job].cmd = row[wk[w].job].cmd
              /\ row'[wk[w].job].ver = row[wk[w].job].ver
<1> DEFINE j == wk[w].job
           Kept == /\ row'[j].owner = row[j].owner
                   /\ row'[j].cmd = row[j].cmd
                   /\ row'[j].ver = row[j].ver
<1>1. j \in Jobs /\ row[j] \in Row /\ row \in [Jobs -> Row]
      /\ wk \in [Workers -> Local] /\ wk[w].pc \notin Resting
  BY ClaimedRowIsRow DEF Shape, TypeOK, ClaimsNameJobs, Resting
<1>2. \A l : Become(w, l) => wk'[w] = l
  BY <1>1 DEF Become
<1>3. \A pc \in WorkerPC : Idle(pc).job = 0
  BY IdleShape
<1>4. CASE Release(w) \/ Crash(w)
  BY <1>2, <1>3, <1>4 DEF Release, Crash, WorkerPC
<1>5. ASSUME LoadConfig(w) \/ ApplyControl(w) \/ HandleSignal(w) \/ BeginStage(w)
               \/ RecordFailure(w) \/ Succeed(w)
      PROVE  Kept
  <2>1. CASE UNCHANGED row
    BY <2>1
  <2>2. CASE \E t, done, lost : SetJobStatus(w, t, done, lost)
    <3>1. PICK t, done, lost : SetJobStatus(w, t, done, lost)
      BY <2>2
    <3> QED
      BY <3>1, SetJobStatusKeepsOwner
  <2> QED
    BY <1>5, <2>1, <2>2
       DEF LoadConfig, ApplyControl, HandleSignal, BeginStage, RecordFailure,
           Succeed
<1>6. ASSUME \/ row' = row
             \/ row' = [row EXCEPT ![j].fresh = TRUE]
             \/ row' = [row EXCEPT ![j].sv = @ + 1]
             \/ row' = [row EXCEPT ![j].ack = wk[w].ver]
             \/ row' = [row EXCEPT ![j].status = "failed", ![j].sv = @ + 1]
      PROVE  Kept
  BY <1>1, <1>6 DEF Row
<1>7. Kept \/ Release(w) \/ Crash(w)
  <2>1. CASE SafetyRead(w) \/ SafetyBeat(w) \/ AckControl(w) \/ StageSucceeds(w)
             \/ StageRaises(w) \/ IngestCancelled(w) \/ PublishProgress(w)
             \/ LogFailure(w) \/ HandleClaimFailure(w) \/ LeaseBeat(w)
             \/ Interrupt(w)
    BY <1>6, <2>1
       DEF LeaseBeat, Interrupt, LogFailure, SafetyRead, SafetyBeat, AckControl,
           StageSucceeds, StageRaises, IngestCancelled, PublishProgress,
           HandleClaimFailure
  <2>2. ~Launch(w) /\ ~SweepStale(w) /\ ~ClaimNext(w) /\ ~ClaimNothing(w)
    BY <1>1 DEF Resting, Launch, SweepStale, ClaimNext, ClaimNothing
  <2> QED
    BY <1>5, <2>1, <2>2 DEF Own, WorkerStep
<1>8. wk'[w].job = j \/ wk'[w].job = 0
  <2>1. ~SweepStale(w) /\ ~ClaimNext(w)
    BY <1>1 DEF Resting, SweepStale, ClaimNext
  <2> QED
    BY <2>1, OwnEffect DEF WorkerEffect
<1> QED
  BY <1>4, <1>7, <1>8

\* What a process remembers of the request it read: it is read in SafetyRead,
\* carried along, dropped, or assumed by the ingest that was told to stop; only
\* SafetyRead and SafetyBeat lead towards an acknowledgement.
LEMMA OwnReads ==
    ASSUME Shape, NEW w \in Workers, Own(w), wk'[w].job # 0
    PROVE  \/ LeaseBeat(w)
           \/ SafetyRead(w)
           \/ IngestCancelled(w)
           \/ wk'[w].cmd = "none" /\ wk'[w].pc \notin {"beat", "ack"}
           \/ /\ wk'[w].cmd = wk[w].cmd
              /\ \/ wk'[w].pc \notin {"beat", "ack"}
                 \/ SafetyBeat(w) /\ wk'[w].pc = "ack" /\ wk'[w].ver = wk[w].ver
<1>1. wk \in [Workers -> Local] /\ wk[w] \in Local
  BY DEF Shape, TypeOK
<1>2. \A l : Become(w, l) => wk'[w] = l
  BY <1>1 DEF Become
<1>3. \A pc \in WorkerPC : Idle(pc).job = 0
  BY IdleShape
<1>4. \A pc \in WorkerPC : At(w, pc).pc = pc /\ At(w, pc).cmd = wk[w].cmd
                           /\ At(w, pc).ver = wk[w].ver
  BY <1>1 DEF At, Local
<1>5. \A k \in 0..NumStages, point \in SafetyPoints :
         Safety(w, k, point).pc = "read" /\ Safety(w, k, point).cmd = wk[w].cmd
  BY <1>1, SafetyShape
<1>6. wk[w].k \in 0..NumStages /\ 1 \in 0..NumStages
      /\ {"before", "after", "error", "control"} \subseteq SafetyPoints
  BY <1>1, ParameterAssumption DEF Local, SafetyPoints
<1>7. {"poll", "down", "claim", "log", "failure", "ack", "release", "apply",
       "signal", "quit", "stage", "progress"} \subseteq WorkerPC
  BY DEF WorkerPC
<1>8. ~Launch(w) /\ ~SweepStale(w) /\ ~ClaimNothing(w) /\ ~Crash(w) /\ ~Release(w)
  BY <1>2, <1>3, <1>7 DEF Launch, SweepStale, ClaimNothing, Crash, Release
<1>9. CASE ClaimNext(w)
  <2>1. PICK i \in Jobs :
           Become(w, [Idle("start") EXCEPT !.job = i,
                                           !.attempt = ClaimedRow(w, i).attempt])
    BY <1>9 DEF ClaimNext
  <2>2. [Idle("start") EXCEPT !.job = i,
                              !.attempt = ClaimedRow(w, i).attempt].cmd = "none"
        /\ [Idle("start") EXCEPT !.job = i,
                              !.attempt = ClaimedRow(w, i).attempt].pc = "start"
    BY DEF Idle
  <2> QED
    BY <1>2, <2>1, <2>2
<1>10. CASE \E t, lost, done :
               /\ SetJobStatus(w, t, done, lost)
               /\ \/ \E pc \in {"signal", "release", "stage", "log", "failure"} :
                        done = At(w, pc)
                  \/ done = Safety(w, 1, "before")
               /\ lost \in {At(w, "failure"), At(w, "release")}
  <2>1. \/ \E pc \in {"signal", "release", "stage", "log", "failure"} :
              Become(w, At(w, pc))
        \/ Become(w, Safety(w, 1, "before"))
    BY <1>10, SetJobStatusEffect
  <2>2. wk'[w].cmd = wk[w].cmd
        /\ wk'[w].pc \in {"signal", "release", "stage", "log", "failure", "read"}
    BY <1>2, <1>4, <1>5, <1>6, <1>7, <2>1
  <2> QED
    BY <2>2
<1>11. CASE ApplyControl(w) \/ HandleSignal(w) \/ BeginStage(w)
            \/ RecordFailure(w) \/ Succeed(w)
  BY <1>10, <1>11
     DEF ApplyControl, HandleSignal, BeginStage, RecordFailure, Succeed
<1>12. CASE LoadConfig(w)
  <2>1. CASE Become(w, Safety(w, 1, "before")) \/ Become(w, At(w, "failure"))
    BY <1>2, <1>4, <1>5, <1>6, <1>7, <2>1
  <2>2. CASE SetJobStatus(w, "running", Safety(w, 1, "before"), At(w, "failure"))
    BY <1>10, <2>2
  <2> QED
    BY <1>12, <2>1, <2>2 DEF LoadConfig
<1>13. CASE SafetyBeat(w)
  <2>1. CASE Become(w, At(w, "ack")) \/ Become(w, At(w, "release"))
    BY <1>2, <1>4, <1>7, <1>13, <2>1
  <2>2. CASE Become(w, [Pass(w) EXCEPT !.cmd = "none", !.ver = 0])
    <3>1. Pass(w) \in Local /\ Pass(w).pc \notin {"beat", "ack"}
      BY <1>1, PassShape
    <3>2. [Pass(w) EXCEPT !.cmd = "none", !.ver = 0].cmd = "none"
          /\ [Pass(w) EXCEPT !.cmd = "none", !.ver = 0].pc = Pass(w).pc
      BY <3>1 DEF Local
    <3> QED
      BY <1>2, <2>2, <3>1, <3>2
  <2> QED
    BY <1>13, <2>1, <2>2 DEF SafetyBeat
<1>14. CASE AckControl(w) \/ StageSucceeds(w) \/ LogFailure(w)
            \/ HandleClaimFailure(w) \/ Interrupt(w)
  BY <1>2, <1>4, <1>7, <1>14
     DEF AckControl, StageSucceeds, LogFailure, HandleClaimFailure, Interrupt
<1>15. CASE StageRaises(w)
  BY <1>2, <1>5, <1>6, <1>15 DEF StageRaises
<1>16. CASE PublishProgress(w)
  <2>1. Become(w, Safety(w, wk[w].k, "after")) \/ Become(w, At(w, "release"))
    BY <1>16 DEF PublishProgress
  <2> QED
    BY <1>2, <1>4, <1>5, <1>6, <1>7, <2>1
<1> QED
  BY <1>8, <1>9, <1>11, <1>12, <1>13, <1>14, <1>15, <1>16 DEF Own, WorkerStep

-----------------------------------------------------------------------------
(* Deletion under worker.lock: the invariant.                              *)

\* worker.lock keeps all processes but one down.
OneProcess ==
    SingleInstance => \A v, w \in Workers :
        v # w => wk[v].pc = "down" \/ wk[w].pc = "down"

\* So nobody takes a claim away from its holder, except by deleting the row.
HolderOwns ==
    SingleInstance => \A w \in Workers :
        Holds(w) => Owns(w) \/ row[wk[w].job].status = "gone"

\* A DELETE that is past its cancel deals with a job that cannot be claimed
\* again, and past its look at the owner with one that nobody owns.
CommandStands ==
    /\ api.pc \in {"owner", "latest"}
          => row[api.job].status \in Terminal \/ row[api.job].cmd = "cancel"
    /\ api.pc = "latest" => row[api.job].owner = None

\* Between the two reads of the finalizer a worker may have claimed the job,
\* even finished it, but without meeting a cancel.
FinalizerRaces ==
    SingleInstance =>
        (api.pc = "pendingStatus" => \A w \in Workers : wk[w].job = api.job
              => row[api.job].cmd # "cancel" /\ wk[w].cmd # "cancel")

\* A worker that is done with the workspace, but for the log of a failure: the
\* handler of a pause signal and the cleanup after an attempt write no file.
Quiet(w) == \/ wk[w].pc \in {"log", "failure", "release", "quit"}
            \/ wk[w].pc = "signal" /\ wk[w].cmd # "cancel"

Doomed(j) == \/ api.pc \in {"cleanup", "delete"} /\ api.job = j
             \/ row[j].status = "gone"
             \/ row[j].status # "absent" /\ ~ws[j]

\* Whoever still holds a job that is being deleted, or was once being deleted,
\* writes no file but that log.
LateWorkersAreQuiet ==
    SingleInstance => \A w \in Workers :
        Holds(w) /\ Doomed(wk[w].job) => Quiet(w)

Deletion == /\ OneProcess /\ HolderOwns /\ CommandStands /\ FinalizerRaces
            /\ LateWorkersAreQuiet

-----------------------------------------------------------------------------
(* Deletion under worker.lock: each part is preserved.                     *)

\* A process is launched while all are down, and nobody else gets up.
LEMMA OneProcessStep ==
    ASSUME IInv, OneProcess, Next
    PROVE  OneProcess'
<1> SUFFICES ASSUME SingleInstance, NEW v \in Workers, NEW w \in Workers, v # w,
                    wk'[v].pc # "down", wk'[w].pc # "down"
             PROVE  FALSE
  BY DEF OneProcess
<1>1. ASSUME NEW u \in Workers, wk[u].pc = "down", wk'[u].pc # "down"
      PROVE  Launch(u)
  <2>1. Own(u)
    BY <1>1, OthersKeepOwned DEF IInv
  <2> QED
    BY <1>1, <2>1
       DEF Own, WorkerStep, LeaseBeat, Crash, Interrupt, SweepStale, ClaimNext,
           ClaimNothing, LoadConfig, SafetyRead, SafetyBeat, AckControl,
           ApplyControl, HandleSignal, BeginStage, StageSucceeds, StageRaises,
           IngestCancelled, PublishProgress, RecordFailure, LogFailure,
           Succeed, HandleClaimFailure, Release
<1>2. ASSUME NEW u \in Workers, Launch(u)
      PROVE  \A x \in Workers : x # u => wk'[x].pc = "down"
  BY <1>2 DEF Launch, Become, IInv, Shape, TypeOK
<1>3. wk[v].pc = "down" \/ wk[w].pc = "down"
  BY DEF OneProcess
<1> QED
  BY <1>1, <1>2, <1>3

\* While a process holds a claim, every step is its own, or time passes, or
\* a handler acts.
LEMMA HolderIsAlone ==
    ASSUME IInv, OneProcess, SingleInstance, Next, NEW w \in Workers, Holds(w)
    PROVE  Own(w) \/ (\E j \in Jobs : Lapse(j)) \/ Frontstage
<1> SUFFICES ASSUME NEW v \in Workers, Own(v), v # w
             PROVE  FALSE
  BY DEF Next, Own, Frontstage
<1>1. wk[w].pc # "down"
  BY DEF IInv, Shape, ClaimsNameJobs
<1>2. wk[v].pc = "down"
  BY <1>1 DEF OneProcess
<1> QED
  BY <1>1, <1>2
     DEF Own, WorkerStep, LeaseBeat, Crash, Interrupt, SweepStale, ClaimNext,
         ClaimNothing, LoadConfig, SafetyRead, SafetyBeat, AckControl,
         ApplyControl, HandleSignal, BeginStage, StageSucceeds, StageRaises,
         IngestCancelled, PublishProgress, RecordFailure, LogFailure,
         Succeed, HandleClaimFailure, Release, Launch

\* A job's owner is replaced by a sweep or another claim, which needs another
\* process; handlers clear it only of a job that is not running, or with the row.
LEMMA HolderOwnsStep ==
    ASSUME IInv, OneProcess, HolderOwns, Next
    PROVE  HolderOwns'
<1> SUFFICES ASSUME SingleInstance, NEW w \in Workers, wk'[w].job # 0
             PROVE  \/ /\ row'[wk'[w].job].owner = w
                       /\ row'[wk'[w].job].attempt = wk'[w].attempt
                    \/ row'[wk'[w].job].status = "gone"
  BY DEF HolderOwns, Owns, Holds
<1>0. IInv' /\ wk'[w].job \in Jobs /\ w # None
  <2>1. IInv'
    BY StepInvariant
  <2>2. wk'[w] \in Local
    BY <2>1 DEF IInv, Shape, TypeOK
  <2> QED
    BY <2>1, <2>2, ParameterAssumption DEF Local, Jobs
<1>1. CASE \E i \in Jobs : Claimed(w, i)
  BY <1>1 DEF Claimed
<1>2. CASE wk'[w].job = wk[w].job /\ wk'[w].attempt = wk[w].attempt
  <2> DEFINE j == wk[w].job
  <2>1. j \in Jobs /\ Holds(w) /\ (Owns(w) \/ row[j].status = "gone")
    BY <1>0, <1>2 DEF HolderOwns, Holds
  <2>2. CASE row[j].status = "gone"
    <3>1. \A t : <<"gone", t>> \notin Edges
      BY DEF Edges, Allowed, Terminal
    <3> QED
      BY <1>2, <2>1, <2>2, <3>1, StatusStep DEF IInv
  <2>3. CASE Owns(w)
    <3>1. row'[j].owner = w => row'[j].attempt = wk'[w].attempt
      BY <1>0, <1>2 DEF IInv, OwnerIsCurrent, Holds
    <3>2. CASE Own(w)
      BY <1>0, <1>2, <2>1, <2>3, <3>1, <3>2, OwnKeepsOwner DEF Owns, IInv
    <3>3. ASSUME NEW i \in Jobs, Lapse(i) PROVE row'[j].owner = w
      <4>1. row' = [row EXCEPT ![i].fresh = FALSE] /\ row \in [Jobs -> Row]
        BY <3>3 DEF Lapse, IInv, Shape, TypeOK
      <4> QED
        BY <2>1, <2>3, <4>1 DEF Row, Owns
    <3>4. CASE Frontstage
      <4>1. row[j].owner = w /\ row[j].status # "absent"
            /\ row[j].status # "interrupted"
        BY <1>0, <2>1, <2>3
           DEF IInv, Owns, ClaimedWasInserted, WaitingIsUnowned
      <4>2. \/ row'[j] = row[j] \/ Posted(j) \/ Deleted(j) \/ Aged(j)
        BY <2>1, <3>4, <4>1, FrontstageRow DEF IInv, Inserted, Recovered
      <4> QED
        BY <1>2, <3>1, <4>1, <4>2, NewRowFields DEF Posted, Deleted, Aged, SameClaim
    <3> QED
      BY <1>2, <2>1, <3>1, <3>2, <3>3, <3>4, HolderIsAlone
  <2> QED
    BY <2>1, <2>2, <2>3
<1> QED
  BY <1>1, <1>2, ClaimStep DEF IInv

\* Once the handler's cancel is in the row no worker claims the job: it is not
\* queued, and a paused job needs a resume, which only a handler posts.
LEMMA CommandStandsStep ==
    ASSUME IInv, CommandStands, Next
    PROVE  CommandStands'
<1>0. api \in ApiLocal /\ row \in [Jobs -> Row]
  BY DEF IInv, Shape, TypeOK
<1>1. CASE Backstage
  <2> SUFFICES ASSUME api.pc \in {"owner", "latest"}
               PROVE  CommandStands'
    BY <1>1, BackstageKeepsHandler DEF CommandStands, IInv
  <2> DEFINE j == api.job
  <2>1. j \in Jobs /\ api' = api
    BY <1>0, <1>1, BackstageKeepsHandler
       DEF IInv, Shape, HandlersNameJobs, ApiLocal, Jobs
  <2>2. row[j].status \in Terminal \/ row[j].cmd = "cancel"
    BY DEF CommandStands
  <2>3. ~Claimable(j)
    BY <2>1, <2>2
       DEF Claimable, PendingCommand, IInv, QueueWasNotCancelled, Terminal
  <2>4. row'[j] = row[j] \/ Swept(j) \/ (\E w \in Workers : Written(w, j)) \/ Aged(j)
    BY <1>1, <2>1, <2>3, BackstageRow DEF IInv, Claimed
  <2>5. row'[j].status \in Terminal \/ row'[j].cmd = "cancel"
    BY <2>2, <2>4 DEF Swept, Written, Aged, SameRequest, Terminal, Allowed
  <2>6. row[j].owner = None => row'[j].owner = None
    BY <2>4, ParameterAssumption DEF Swept, Written, Aged, SameClaim
  <2> QED
    BY <2>1, <2>5, <2>6 DEF CommandStands
<1>2. CASE Frontstage
  <2>1. CASE api'.pc \notin {"owner", "latest"}
    BY <2>1 DEF CommandStands
  <2>2. ASSUME NEW j \in Jobs, NEW c, Dispatch(j, c)
        PROVE  CommandStands'
    <3>1. row' = row /\ api'.job = j /\ api'.pc \in {"request", "owner"}
          /\ (api'.pc = "owner" => row[j].status \notin Active) /\ Exists(j)
      BY <2>2 DEF Dispatch, Handler
    <3> QED
      BY <3>1 DEF CommandStands, Exists, Active, Statuses, Terminal
  <2>3. CASE SubmitRequest /\ api'.pc \in {"owner", "latest"}
    <3>1. /\ api.cmd = "delete" /\ api'.pc = "owner" /\ api'.job = api.job
          /\ PostControl(api.job, "cancel") /\ api.job \in Jobs
      BY <1>0, <2>3, ApiAtFields
         DEF SubmitRequest, IInv, Shape, HandlersNameJobs, ApiLocal, Jobs
    <3>2. row'[api.job].cmd = "cancel"
      BY <1>0, <3>1 DEF PostControl, Row
    <3> QED
      BY <3>1, <3>2 DEF CommandStands
  <2>4. CASE DeleteChecksOwner
    <3>1. /\ api.pc = "owner" /\ row' = row /\ api'.job = api.job
          /\ api'.pc \in {"mark", "latest"}
          /\ api'.pc = "latest" => row[api.job].owner = None
      BY <1>0, <2>4, ApiAtFields DEF DeleteChecksOwner
    <3> QED
      BY <3>1 DEF CommandStands
  <2>5. ASSUME NEW j \in Jobs, CreateLayout(j) \/ FinalizeDelete(j)
        PROVE  api'.pc \notin {"owner", "latest"}
    BY <2>5 DEF CreateLayout, FinalizeDelete, Handler
  <2>6. CASE InsertRow \/ RefuseRequest \/ MarkDeletePending \/ DeleteChecksStatus
             \/ FinalizeChecksOwner \/ FinalizeChecksStatus \/ RemoveWorkspace
             \/ WorkspaceBusy \/ DeleteRow \/ ApiCrash
    <3>1. api'.pc \notin {"owner", "latest"}
      BY <1>0, <2>6, ApiAtFields
         DEF InsertRow, RefuseRequest, MarkDeletePending, DeleteChecksStatus,
             FinalizeChecksOwner, FinalizeChecksStatus, RemoveWorkspace,
             WorkspaceBusy, DeleteRow, ApiCrash
    <3> QED
      BY <2>1, <3>1
  <2> QED
    BY <1>2, <2>1, <2>2, <2>3, <2>4, <2>5, <2>6 DEF Frontstage, Request, ApiStep
<1> QED
  BY <1>1, <1>2, StepSplit DEF IInv

\* A row only disappears in the last step of a handler that removed its files.
LEMMA GoneByDelete ==
    ASSUME IInv, Next, NEW j \in Jobs, row'[j].status = "gone",
           row[j].status # "gone"
    PROVE  api.pc = "delete" /\ api.job = j
<1>0. row \in [Jobs -> Row]
  BY DEF IInv, Shape, TypeOK
<1>1. CASE Backstage
  <2>1. \A s : <<s, "gone">> \notin Allowed
    BY DEF Allowed
  <2> QED
    BY <1>1, <2>1, StatusStep DEF IInv
<1>2. CASE Frontstage
  <2>1. CASE DeleteRow
    BY <1>0, <2>1 DEF DeleteRow
  <2>2. CASE InsertRow
    BY <1>0, <2>2, NewRowFields DEF InsertRow
  <2>3. CASE SubmitRequest
    <3>1. (api.pc = "request" /\ Exists(j)) \/ api.job # j
      BY <2>3 DEF SubmitRequest, IInv, HandlerKnows
    <3>2. CASE api.job # j
      BY <1>0, <2>3, <3>2 DEF SubmitRequest, PostControl, Recover
    <3>3. CASE api.job = j
      BY <1>0, <2>3, <3>3 DEF SubmitRequest, PostControl, Recover, Row
    <3> QED
      BY <3>2, <3>3
  <2>4. CASE MarkDeletePending
    BY <1>0, <2>4 DEF MarkDeletePending, Row
  <2> QED
    BY <1>2, <2>1, <2>2, <2>3, <2>4
       DEF Frontstage, Request, CreateLayout, Dispatch, FinalizeDelete, ApiCrash,
           ApiStep, RefuseRequest, DeleteChecksOwner, DeleteChecksStatus,
           FinalizeChecksOwner, FinalizeChecksStatus, RemoveWorkspace, WorkspaceBusy
<1> QED
  BY <1>1, <1>2, StepSplit DEF IInv

\* A job that is being deleted is not claimable.
LEMMA DoomedIsNotClaimable ==
    ASSUME IInv, NEW j \in Jobs, Doomed(j)
    PROVE  ~Claimable(j) /\ row[j].status \in Terminal \cup {"gone"}
<1>1. row[j] \in Row
  BY DEF IInv, Shape, TypeOK
<1>2. row[j].status \in Terminal \cup {"gone"}
  BY <1>1 DEF Doomed, IInv, HandlerKnows, ActiveHasWorkspace, Row, RowStates,
              Statuses, Active, Terminal
<1> QED
  BY <1>2 DEF Claimable, Terminal

\* A worker that is done with the workspace stays so until it is idle; only its
\* log is left.
LEMMA QuietSteps ==
    ASSUME Shape, NEW w \in Workers, Own(w), Holds(w), Quiet(w)
    PROVE  /\ ws' = ws \/ (wk[w].pc = "log" /\ TouchWorkspace(w))
           /\ \/ wk'[w].job = 0
              \/ wk'[w].pc \in {"failure", "release", "quit"}
              \/ wk'[w] = wk[w]
<1>1. wk \in [Workers -> Local]
  BY DEF Shape, TypeOK
<1>2. \A l : Become(w, l) => wk'[w] = l
  BY <1>1 DEF Become
<1>3. \A pc \in WorkerPC : Idle(pc).job = 0 /\ At(w, pc).pc = pc
  BY <1>1, IdleShape, AtShape
<1>4. {"failure", "release", "quit", "poll", "down"} \subseteq WorkerPC
  BY DEF WorkerPC
<1>5. wk[w].pc \in Ends /\ (wk[w].pc = "signal" => wk[w].cmd # "cancel")
  BY DEF Quiet, Ends
<1>6. CASE HandleSignal(w)
  <2>1. Become(w, At(w, "release")) \/ Become(w, At(w, "failure"))
    BY <1>6, SetJobStatusEffect DEF HandleSignal
  <2>2. ws' = ws
    BY <1>5, <1>6 DEF HandleSignal
  <2> QED
    BY <1>2, <1>3, <1>4, <2>1, <2>2
<1>7. CASE LogFailure(w) \/ HandleClaimFailure(w) \/ Interrupt(w)
  BY <1>2, <1>3, <1>4, <1>7 DEF LogFailure, HandleClaimFailure, Interrupt
<1>8. CASE Release(w) \/ Crash(w)
  BY <1>2, <1>3, <1>4, <1>8 DEF Release, Crash
<1>9. CASE LeaseBeat(w)
  BY <1>9 DEF LeaseBeat
<1>10. ~ApplyControl(w)
  BY <1>5 DEF ApplyControl, Ends
<1> QED
  BY <1>5, <1>6, <1>7, <1>8, <1>9, <1>10, LateSteps

\* When a handler starts to remove files, whoever holds the job is past them:
\* a cancel left nobody, and the finalizer met no cancelled attempt.
LEMMA CleanupBegins ==
    ASSUME IInv, HolderOwns, CommandStands, FinalizerRaces, Next, SingleInstance,
           NEW w \in Workers, Holds(w), ~Doomed(wk[w].job), api'.pc = "cleanup",
           api'.job = wk[w].job
    PROVE  wk' = wk /\ Quiet(w)
<1>0. api \in ApiLocal
  BY DEF IInv, Shape, TypeOK
<1>1. api' # api
  BY DEF Doomed
<1>2. Frontstage
  BY <1>1, StepSplit, BackstageKeepsHandler DEF IInv
<1>3. (DeleteChecksStatus \/ FinalizeChecksStatus) /\ wk' = wk
  <2>1. wk' = wk
    BY <1>2, FrontstageKeepsWorkers
  <2>2. ~InsertRow /\ ~SubmitRequest /\ ~RefuseRequest /\ ~DeleteChecksOwner
        /\ ~MarkDeletePending /\ ~FinalizeChecksOwner /\ ~RemoveWorkspace
        /\ ~WorkspaceBusy /\ ~DeleteRow /\ ~ApiCrash
    BY <1>0, ApiAtFields
       DEF InsertRow, SubmitRequest, RefuseRequest, DeleteChecksOwner,
           MarkDeletePending, FinalizeChecksOwner, RemoveWorkspace,
           WorkspaceBusy, DeleteRow, ApiCrash
  <2>3. \A j \in Jobs : ~Request(j)
    BY DEF Request, CreateLayout, Dispatch, FinalizeDelete, Handler
  <2> QED
    BY <1>2, <2>1, <2>2, <2>3 DEF Frontstage, ApiStep
<1>4. api.job = wk[w].job
  BY <1>0, <1>3, ApiAtFields DEF DeleteChecksStatus, FinalizeChecksStatus
<1>5. w # None /\ Owns(w) /\ row[api.job].owner = w
  <2>1. Exists(api.job)
    BY <1>3 DEF DeleteChecksStatus, FinalizeChecksStatus, IInv, HandlerKnows
  <2> QED
    BY <1>4, <2>1, ParameterAssumption
       DEF HolderOwns, Owns, Exists, Statuses
<1>6. FinalizeChecksStatus
  BY <1>3, <1>5 DEF DeleteChecksStatus, CommandStands
<1>7. row[wk[w].job].status \in Terminal /\ wk[w].cmd # "cancel"
  BY <1>0, <1>4, <1>6, ApiAtFields DEF FinalizeChecksStatus, FinalizerRaces, ApiIdle
<1>8. wk[w].pc \in Ends
  BY <1>5, <1>7 DEF IInv, OwnedIsRunning, Ends, Terminal
<1> QED
  BY <1>3, <1>7, <1>8 DEF Ends, Quiet

\* A directory goes when a handler removes it.
LEMMA RemovedByHandler ==
    ASSUME IInv, Next, NEW j \in Jobs, ws[j], ~ws'[j]
    PROVE  api.pc = "cleanup" /\ api.job = j
<1>0. ws \in [Jobs -> BOOLEAN] /\ Shape /\ WaitingIsUnowned
  BY DEF IInv, Shape, TypeOK
<1>1. ~\E w \in Workers : Own(w)
  <2> SUFFICES ASSUME NEW w \in Workers, Own(w) PROVE FALSE
    OBVIOUS
  <2>1. ws' = ws \/ TouchWorkspace(w)
    BY <1>0, OwnEffect DEF WorkerEffect, SweepStale, ClaimNext
  <2> QED
    BY <1>0, <2>1 DEF TouchWorkspace
<1>2. ~\E i \in Jobs : Lapse(i)
  BY DEF Lapse
<1>3. Frontstage
  BY <1>1, <1>2 DEF Next, Own, Frontstage
<1>4. RemoveWorkspace
  BY <1>0, <1>3
     DEF Frontstage, Request, CreateLayout, Dispatch, FinalizeDelete, ApiCrash,
         ApiStep, InsertRow, SubmitRequest, RefuseRequest, DeleteChecksOwner,
         MarkDeletePending, DeleteChecksStatus, FinalizeChecksOwner,
         FinalizeChecksStatus, WorkspaceBusy, DeleteRow
<1> QED
  BY <1>0, <1>4 DEF RemoveWorkspace

\* A doomed job gets no new holder, and the one it has stays away from files.
LEMMA LateWorkersAreQuietStep ==
    ASSUME IInv, HolderOwns, CommandStands, FinalizerRaces, LateWorkersAreQuiet,
           Next
    PROVE  LateWorkersAreQuiet'
<1> SUFFICES ASSUME SingleInstance, NEW w \in Workers, wk'[w].job # 0,
                    \/ api'.pc \in {"cleanup", "delete"} /\ api'.job = wk'[w].job
                    \/ row'[wk'[w].job].status = "gone"
                    \/ row'[wk'[w].job].status # "absent" /\ ~ws'[wk'[w].job]
             PROVE  Quiet(w)'
  BY DEF LateWorkersAreQuiet, Doomed, Holds
<1> DEFINE j == wk'[w].job
<1>0. j \in Jobs /\ api \in ApiLocal
  <2>1. wk'[w] \in Local
    BY NextShape DEF IInv, Shape, TypeOK
  <2> QED
    BY <2>1 DEF Local, Jobs, IInv, Shape, TypeOK
<1>1. CASE Doomed(j)
  <2>1. ~Claimable(j)
    BY <1>0, <1>1, DoomedIsNotClaimable
  <2>2. wk[w].job = j
    BY <1>0, <2>1, ClaimStep DEF IInv, Claimed
  <2>3. Holds(w) /\ Quiet(w)
    BY <1>1, <2>2 DEF LateWorkersAreQuiet, Holds
  <2>4. CASE wk'[w] = wk[w]
    BY <2>3, <2>4 DEF Quiet
  <2>5. CASE Own(w)
    BY <2>3, <2>5, QuietSteps DEF Quiet, IInv
  <2> QED
    BY <2>4, <2>5, OthersKeepOwned DEF IInv
<1>2. CASE ~Doomed(j)
  <2>0. row[j].status # "absent"
    BY <1>0, ClaimStep DEF IInv, Claimed, Claimable, ClaimedWasInserted, Holds
  <2>1. row'[j].status # "gone" /\ ws'[j]
    BY <1>0, <1>2, <2>0, GoneByDelete, RemovedByHandler DEF Doomed
  <2>2. api'.pc = "cleanup" /\ api'.job = j
    <3>1. CASE api' = api
      BY <1>2, <2>1, <3>1 DEF Doomed
    <3>2. CASE api' # api
      <4>1. Frontstage
        BY <3>2, StepSplit, BackstageKeepsHandler DEF IInv
      <4>2. CASE RemoveWorkspace
        BY <1>0, <1>2, <2>1, <4>2, ApiAtFields DEF RemoveWorkspace, Doomed
      <4>3. CASE ~RemoveWorkspace
        <5>1. api'.pc # "delete"
          BY <1>0, <4>1, <4>3, ApiAtFields
             DEF Frontstage, Request, CreateLayout, Dispatch, FinalizeDelete,
                 Handler, ApiCrash, ApiStep, InsertRow, SubmitRequest,
                 RefuseRequest, DeleteChecksOwner, MarkDeletePending,
                 DeleteChecksStatus, FinalizeChecksOwner, FinalizeChecksStatus,
                 WorkspaceBusy, DeleteRow
        <5> QED
          BY <2>1, <5>1
      <4> QED
        BY <4>2, <4>3
    <3> QED
      BY <3>1, <3>2
  <2>3. wk' = wk
    BY <2>2, <1>2, StepSplit, BackstageKeepsHandler, FrontstageKeepsWorkers
       DEF IInv, Doomed
  <2> QED
    BY <1>2, <2>2, <2>3, CleanupBegins DEF Holds, Quiet
<1> QED
  BY <1>1, <1>2

\* Between the reads of the finalizer nobody posts a cancel, and a job that was
\* claimed has none, so its worker reads none.
LEMMA FinalizerRacesStep ==
    ASSUME IInv, HolderOwns, FinalizerRaces, Next
    PROVE  FinalizerRaces'
<1> SUFFICES ASSUME SingleInstance, api'.pc = "pendingStatus", NEW w \in Workers,
                    wk'[w].job = api'.job
             PROVE  row'[api'.job].cmd # "cancel" /\ wk'[w].cmd # "cancel"
  BY DEF FinalizerRaces
<1>0. api \in ApiLocal /\ w # None /\ IInv'
  BY ParameterAssumption, StepInvariant DEF IInv, Shape, TypeOK
<1>1. CASE Backstage
  <2> DEFINE j == api.job
  <2>1. api' = api /\ j \in Jobs /\ wk'[w].job = j /\ Exists(j)
    BY <1>0, <1>1, BackstageKeepsHandler
       DEF IInv, Shape, HandlersNameJobs, HandlerKnows, ApiLocal, Jobs
  <2>2. CASE Claimed(w, j)
    <3>1. row[j].cmd # "cancel" /\ row'[j].cmd = row[j].cmd
      BY <2>1, <2>2
         DEF Claimed, Claimable, PendingCommand, SameRequest, IInv,
             QueueWasNotCancelled
    <3>2. Own(w) /\ wk[w].job = 0
      BY <2>2 DEF Claimed, Own, WorkerStep, ClaimNext, IInv, Shape,
                  ClaimsNameJobs, Holds
    <3>3. ~LeaseBeat(w) /\ ~SafetyRead(w) /\ ~IngestCancelled(w) /\ ~SafetyBeat(w)
      BY <3>2
         DEF LeaseBeat, Owns, Holds, SafetyRead, IngestCancelled, SafetyBeat,
             IInv, Shape, ClaimsNameJobs
    <3>4. PICK i \in Jobs :
             Become(w, [Idle("start") EXCEPT !.job = i,
                                             !.attempt = ClaimedRow(w, i).attempt])
      BY <2>2 DEF Claimed, ClaimNext
    <3>5. wk'[w].cmd = "none"
      BY <3>4 DEF Become, Idle, IInv, Shape, TypeOK
    <3> QED
      BY <2>1, <3>1, <3>5
  <2>3. CASE wk[w].job = j /\ Holds(w)
    <3>1. row[j].cmd # "cancel" /\ wk[w].cmd # "cancel"
      BY <2>1, <2>3 DEF FinalizerRaces
    <3>2. row'[j].cmd = row[j].cmd
      BY <1>1, <2>1, BackstageRow
         DEF IInv, Swept, Claimed, Written, Aged, SameRequest
    <3>3. Owns(w)
      BY <2>1, <2>3 DEF HolderOwns, Exists, Statuses
    <3>4. ~IngestCancelled(w)
      <4>1. wk[w].pc = "stage" => row[j].status = "running"
        BY <2>3, <3>3 DEF IInv, OwnedIsRunning
      <4> QED
        BY <2>3, <3>1, <4>1 DEF IngestCancelled, CancelRequested, PendingCommand
    <3>5. SafetyRead(w) => wk'[w].cmd # "cancel"
      <4>1. At(w, "beat") \in Local /\ At(w, "failure").cmd = wk[w].cmd
        BY AtShape DEF IInv, Shape, TypeOK, WorkerPC
      <4>2. [At(w, "beat") EXCEPT !.cmd = PendingCommand(wk[w].job),
                                  !.ver = row[wk[w].job].ver].cmd
              = PendingCommand(wk[w].job)
        BY <4>1 DEF Local
      <4>3. PendingCommand(wk[w].job) # "cancel"
        BY <2>3, <3>1 DEF PendingCommand
      <4> QED
        BY <3>1, <4>1, <4>2, <4>3 DEF SafetyRead, Become, IInv, Shape, TypeOK
    <3>6. LeaseBeat(w) => wk'[w].cmd # "cancel"
      BY <3>1 DEF LeaseBeat
    <3>7. CASE Own(w)
      BY <2>1, <2>3, <3>1, <3>2, <3>4, <3>5, <3>6, <3>7, OwnReads DEF IInv, Holds
    <3>8. CASE wk'[w] = wk[w]
      BY <2>1, <3>1, <3>2, <3>8
    <3> QED
      BY <3>7, <3>8, OthersKeepOwned DEF IInv
  <2>4. j # 0
    BY <2>1 DEF Jobs
  <2> QED
    BY <2>1, <2>2, <2>3, <2>4, ClaimStep DEF IInv, Holds, Claimed
<1>2. CASE Frontstage /\ ~Backstage
  <2>1. FinalizeChecksOwner
    BY <1>0, <1>2, ApiAtFields
       DEF Frontstage, Request, CreateLayout, Dispatch, FinalizeDelete, Handler,
           ApiCrash, ApiStep, InsertRow, SubmitRequest, RefuseRequest,
           DeleteChecksOwner, MarkDeletePending, DeleteChecksStatus,
           FinalizeChecksStatus, RemoveWorkspace, WorkspaceBusy, DeleteRow
  <2>2. row[api.job].owner = None /\ Exists(api.job) /\ wk' = wk
        /\ api'.job = api.job /\ api.job # 0
    BY <1>0, <2>1, ApiAtFields
       DEF FinalizeChecksOwner, IInv, HandlerKnows, Shape, HandlersNameJobs
  <2>3. Holds(w) /\ wk[w].job = api.job
    BY <2>2 DEF Holds
  <2>4. Owns(w)
    BY <2>2, <2>3 DEF HolderOwns, Exists, Statuses
  <2> QED
    BY <1>0, <2>2, <2>3, <2>4 DEF Owns
<1> QED
  BY <1>1, <1>2, StepSplit DEF IInv

\* A directory that was removed comes back by the hand of a worker that still
\* holds the job and is not quiet, which leaves its log.
LEMMA ComesBackByLog ==
    ASSUME IInv, Deletion, SingleInstance, Next,
           NEW j \in Jobs, ~ws[j], ws'[j], row[j].status # "absent"
    PROVE  \E w \in Workers : wk[w].pc = "log" /\ wk[w].job = j
<1>0. ws \in [Jobs -> BOOLEAN] /\ Shape /\ WaitingIsUnowned /\ Doomed(j)
  BY DEF IInv, Shape, TypeOK, Doomed
<1>1. ASSUME NEW w \in Workers, Own(w)
      PROVE  wk[w].pc = "log" /\ wk[w].job = j
  <2>1. CASE Holds(w) /\ wk[w].job = j
    BY <1>0, <1>1, <2>1, QuietSteps DEF Deletion, LateWorkersAreQuiet
  <2>2. ws' # ws
    OBVIOUS
  <2>3. ~(TouchWorkspace(w) /\ wk[w].job # j)
    BY <1>0 DEF TouchWorkspace
  <2> QED
    BY <1>0, <1>1, <2>1, <2>2, <2>3, OwnEffect
       DEF WorkerEffect, SweepStale, ClaimNext
<1>2. ~\E i \in Jobs : Lapse(i)
  BY DEF Lapse
<1>3. ASSUME NEW i \in Jobs, CreateLayout(i)
      PROVE  FALSE
  BY <1>0, <1>3 DEF CreateLayout
<1>4. ~(Frontstage /\ \A i \in Jobs : ~CreateLayout(i))
  BY <1>0
     DEF Frontstage, Request, Dispatch, FinalizeDelete, ApiCrash, ApiStep,
         InsertRow, SubmitRequest, RefuseRequest, DeleteChecksOwner,
         MarkDeletePending, DeleteChecksStatus, FinalizeChecksOwner,
         FinalizeChecksStatus, RemoveWorkspace, WorkspaceBusy, DeleteRow
<1> QED
  BY <1>1, <1>2, <1>3, <1>4 DEF Next, Own, Frontstage

\* Initially no process runs and no job was deleted.
LEMMA InitDeletion == Init => Deletion
<1> SUFFICES ASSUME Init PROVE Deletion
  OBVIOUS
<1>1. \A w \in Workers : wk[w].job = 0 /\ wk[w].pc = "down"
  BY IdleShape DEF Init, WorkerPC
<1>2. api.pc = "idle"
  BY DEF Init, ApiIdle
<1> QED
  BY <1>1, <1>2
     DEF Deletion, OneProcess, HolderOwns, CommandStands, FinalizerRaces,
         LateWorkersAreQuiet, Holds

\* Every step keeps the invariant of the deletion.
LEMMA StepDeletion == IInv /\ Deletion /\ [Next]_vars => Deletion'
<1> SUFFICES ASSUME IInv, Deletion, [Next]_vars PROVE Deletion'
  OBVIOUS
<1>1. CASE Next
  BY <1>1, OneProcessStep, HolderOwnsStep, CommandStandsStep, FinalizerRacesStep,
     LateWorkersAreQuietStep DEF Deletion
<1>2. CASE UNCHANGED vars
  BY <1>2
     DEF vars, Deletion, OneProcess, HolderOwns, CommandStands, FinalizerRaces,
         LateWorkersAreQuiet, Holds, Owns, Quiet, Doomed
<1> QED
  BY <1>1, <1>2

\* With worker.lock held, nothing brings the directory of a job back that a
\* deletion removed but the log of a failure, however the delete, the finalizer
\* and the worker race (orchestrator.py:221 and 793, apps/api/service.py:2333).
THEOREM OnlyLogsComeLate ==
    ASSUME SingleInstance
    PROVE  Spec => OnlyLogsOutliveDeletion
<1> DEFINE ByLog == \A j \in Jobs : ~ws[j] /\ ws'[j] /\ row[j].status # "absent"
                      => \E w \in Workers : wk[w].pc = "log" /\ wk[w].job = j
<1>1. Init => IInv /\ Deletion
  BY InitInvariant, InitDeletion
<1>2. IInv /\ Deletion /\ [Next]_vars => (IInv /\ Deletion)'
  BY StepInvariant, StepDeletion
<1>3. IInv /\ Deletion /\ [Next]_vars => [ByLog]_vars
  BY ComesBackByLog
<1> QED
  BY <1>1, <1>2, <1>3, PTL DEF Spec, OnlyLogsOutliveDeletion

-----------------------------------------------------------------------------
(* A confirmed cancel: the invariant.                                      *)

\* Nobody confirms a request that was not made.
AckIsBehind == \A j \in Jobs : row[j].ack <= row[j].ver

\* The request that the owner of a row is about to confirm under its version
\* is the one in the row, or an older one.
ReadIsBehind ==
    \A w \in Workers :
        /\ wk[w].pc = "ack" => wk[w].cmd # "none"
        /\ Owns(w) /\ wk[w].pc \in {"beat", "ack"} /\ wk[w].cmd # "none"
              => /\ wk[w].ver <= row[wk[w].job].ver
                 /\ wk[w].ver = row[wk[w].job].ver
                       => wk[w].cmd = row[wk[w].job].cmd

Confirmed(j) == row[j].cmd = "cancel" /\ row[j].ver = row[j].ack

\* The owner that confirmed a cancel is about to write that outcome, or it
\* was written.
ConfirmedIsApplied ==
    \A w \in Workers :
        Owns(w) /\ Confirmed(wk[w].job) =>
            \/ wk[w].pc \in {"apply", "signal"} /\ wk[w].cmd = "cancel"
            \/ /\ wk[w].pc = "failure"
               /\ row[wk[w].job].status \notin {"queued", "running"}
            \/ wk[w].pc \in {"release", "quit"}

Confirmation == AckIsBehind /\ ReadIsBehind /\ ConfirmedIsApplied

-----------------------------------------------------------------------------
(* A confirmed cancel: each part is preserved.                             *)

\* A confirmation comes from the owner, for the version it read, from the
\* claim of a resumed job, or with a cancel that needs no owner.
LEMMA AckForms ==
    ASSUME IInv, Next, NEW i \in Jobs
    PROVE  \/ row'[i].ack = row[i].ack
           \/ \E w \in Workers : /\ AckControl(w) /\ wk[w].job = i
                                 /\ row[i].owner = w /\ row[i].ver = wk[w].ver
                                 /\ row'[i] = [row[i] EXCEPT !.ack = wk[w].ver]
           \/ row[i].cmd = "resume" /\ row'[i].cmd = "resume"
                 /\ row'[i].ver = row[i].ver /\ row'[i].ack = row[i].ver
           \/ row'[i].owner = None /\ row'[i].ack = row'[i].ver
<1>0. row \in [Jobs -> Row] /\ row[i] \in Row /\ Shape
  BY DEF IInv, Shape, TypeOK
<1>1. ASSUME NEW w \in Workers, Own(w), ~AckControl(w), ~ClaimNext(w)
      PROVE  row'[i].ack = row[i].ack
  <2> DEFINE j == wk[w].job
  <2>1. CASE row' = row
    BY <2>1
  <2>2. CASE SweepStale(w)
    BY <1>0, <2>2 DEF SweepStale, SweptRow, Row
  <2>3. CASE /\ Holds(w)
             /\ \/ row' = [row EXCEPT ![j].fresh = TRUE]
                \/ row' = [row EXCEPT ![j].sv = @ + 1]
                \/ row' = [row EXCEPT ![j].status = "failed", ![j].sv = @ + 1]
                \/ row' = [row EXCEPT ![j].owner = None, ![j].fresh = FALSE]
    <3>1. j \in Jobs
      BY <1>0, <2>3, ClaimedRowIsRow
    <3> QED
      BY <1>0, <2>3, <3>1 DEF Row
  <2>4. CASE \E t, done, lost : SetJobStatus(w, t, done, lost)
    <3>1. PICK t, done, lost : SetJobStatus(w, t, done, lost)
      BY <2>4
    <3>2. \/ row' = row
          \/ /\ Owns(w)
             /\ row' = [row EXCEPT ![j].status = t, ![j].sv = @ + 1]
      BY <3>1, SetJobStatusEffect
    <3>3. Owns(w) => j \in Jobs
      BY <1>0, ClaimedRowIsRow DEF Owns
    <3> QED
      BY <1>0, <3>2, <3>3 DEF Row
  <2>5. CASE LoadConfig(w) \/ ApplyControl(w) \/ HandleSignal(w) \/ BeginStage(w)
             \/ RecordFailure(w) \/ Succeed(w)
    BY <2>1, <2>4, <2>5
       DEF LoadConfig, ApplyControl, HandleSignal, BeginStage, RecordFailure, Succeed
  <2>6. CASE SafetyBeat(w) \/ PublishProgress(w) \/ HandleClaimFailure(w)
             \/ Release(w) \/ LeaseBeat(w)
    BY <2>1, <2>3, <2>6
       DEF SafetyBeat, PublishProgress, HandleClaimFailure, Release, LeaseBeat, Owns
  <2> QED
    BY <1>1, <2>1, <2>2, <2>5, <2>6
       DEF Own, WorkerStep, Launch, Crash, Interrupt, ClaimNothing, SafetyRead,
           StageSucceeds, StageRaises, IngestCancelled, LogFailure
<1>2. ASSUME NEW w \in Workers, AckControl(w), row'[i].ack # row[i].ack
      PROVE  /\ wk[w].job = i
             /\ row[i].owner = w /\ row[i].ver = wk[w].ver
             /\ row'[i] = [row[i] EXCEPT !.ack = wk[w].ver]
  BY <1>0, <1>2 DEF AckControl
<1>3. ASSUME NEW w \in Workers, ClaimNext(w)
      PROVE  \/ row'[i].ack = row[i].ack
             \/ /\ row[i].cmd = "resume" /\ row'[i].cmd = "resume"
                /\ row'[i].ver = row[i].ver /\ row'[i].ack = row[i].ver
  <2>1. row'[i] = row[i] \/ row'[i] = ClaimedRow(w, i)
    BY <1>0, <1>3 DEF ClaimNext
  <2> QED
    BY <1>0, <2>1 DEF ClaimedRow, PendingCommand, Row
<1>4. ASSUME NEW j \in Jobs, Lapse(j)
      PROVE  row'[i].ack = row[i].ack
  BY <1>0, <1>4 DEF Lapse, Row
<1>5. CASE Frontstage
  <2>1. CASE SubmitRequest
    <3>1. api.job \in Jobs
      BY <2>1 DEF SubmitRequest, IInv, Shape, HandlersNameJobs, TypeOK, ApiLocal, Jobs
    <3>2. CASE i # api.job
      BY <1>0, <2>1, <3>2 DEF SubmitRequest, PostControl, Recover
    <3>3. ASSUME i = api.job, Recover(i)
          PROVE  row'[i].ack = row[i].ack
      BY <1>0, <3>3 DEF Recover, Row
    <3>4. ASSUME i = api.job, NEW c, PostControl(i, c)
          PROVE  \/ row'[i].ack = row[i].ack
                 \/ row'[i].owner = None /\ row'[i].ack = row'[i].ver
      BY <1>0, <3>4 DEF PostControl, Row
    <3> QED
      BY <2>1, <3>2, <3>3, <3>4 DEF SubmitRequest
  <2>2. CASE row' = [row EXCEPT ![api.job].del = TRUE]
    BY <1>0, <2>2 DEF Row
  <2>3. CASE \E t : row' = [row EXCEPT ![api.job] = NewRow(t)]
    BY <1>0, <2>3, NewRowFields
  <2>4. CASE row' = row
    BY <2>4
  <2> QED
    BY <1>5, <2>1, <2>2, <2>3, <2>4
       DEF Frontstage, Request, CreateLayout, Dispatch, FinalizeDelete, ApiCrash,
           ApiStep, InsertRow, RefuseRequest, DeleteChecksOwner,
           MarkDeletePending, DeleteChecksStatus, FinalizeChecksOwner,
           FinalizeChecksStatus, RemoveWorkspace, WorkspaceBusy, DeleteRow
<1> QED
  BY <1>1, <1>2, <1>3, <1>4, <1>5 DEF Next, Own, Frontstage

\* The version of a request never falls while the row is there.
LEMMA VersionStep ==
    ASSUME IInv, Next, NEW i \in Jobs
    PROVE  \/ row'[i].ver \in {row[i].ver, row[i].ver + 1}
           \/ row'[i].ver = 0 /\ row'[i].ack = 0
<1>1. CASE Backstage
  BY <1>1, BackstageRow DEF IInv, Swept, Claimed, Written, Aged, SameRequest
<1>2. CASE Frontstage
  BY <1>2, FrontstageRow, NewRowFields
     DEF IInv, Inserted, Posted, Recovered, Deleted, Aged, SameRequest
<1> QED
  BY <1>1, <1>2, StepSplit DEF IInv

\* No acknowledgement overtakes the requests.
LEMMA AckIsBehindStep ==
    ASSUME IInv, AckIsBehind, Next
    PROVE  AckIsBehind'
<1> SUFFICES ASSUME NEW i \in Jobs PROVE row'[i].ack <= row'[i].ver
  BY DEF AckIsBehind
<1>1. /\ row[i] \in Row
      /\ row[i].ack \in Nat /\ row[i].ver \in Nat /\ row[i].ack <= row[i].ver
      /\ row'[i].ack \in Nat /\ row'[i].ver \in Nat
  BY NextShape DEF AckIsBehind, IInv, Shape, TypeOK, Row
<1>2. \/ row'[i].ack \in {row[i].ack, row[i].ver}
      \/ row'[i].ack = row'[i].ver
  BY <1>1, AckForms DEF Row
<1> QED
  BY <1>1, <1>2, VersionStep

\* The owner of a row that is not claimed in this step owned it before; its
\* request is as it was, or a handler posted a newer one.
LEMMA OwnedRequestStep ==
    ASSUME IInv, Next, NEW w \in Workers, ~ClaimNext(w),
           wk'[w].job # 0, row'[wk'[w].job].owner = w
    PROVE  /\ Owns(w) /\ wk'[w].job = wk[w].job /\ wk[w].job \in Jobs
           /\ \/ Own(w) /\ SameRequest(wk[w].job)
              \/ /\ wk'[w] = wk[w]
                 /\ row'[wk[w].job].status = row[wk[w].job].status
                 /\ row'[wk[w].job].ack = row[wk[w].job].ack
                 /\ SameRequest(wk[w].job) \/ Posted(wk[w].job)
<1>1. Owns(w) /\ wk'[w].job = wk[w].job /\ wk[w].job \in Jobs
  BY OwnsBefore DEF IInv
<1>2. CASE Own(w)
  BY <1>1, <1>2, OwnKeepsOwner DEF IInv, Owns, SameRequest
<1>3. CASE ~Own(w)
  BY <1>1, <1>3, OthersKeepOwned DEF IInv, Owns
<1> QED
  BY <1>1, <1>2, <1>3

\* An ingest that is told to stop raises the signal.
LEMMA IngestSignals ==
    ASSUME Shape, NEW w \in Workers, IngestCancelled(w)
    PROVE  wk'[w].pc = "signal"
<1>1. At(w, "signal") \in Local /\ At(w, "signal").pc = "signal"
  BY AtShape DEF Shape, TypeOK, WorkerPC
<1>2. [At(w, "signal") EXCEPT !.cmd = "cancel"].pc = "signal"
  BY <1>1 DEF Local
<1> QED
  BY <1>2 DEF IngestCancelled, Become, Shape, TypeOK

\* The version travels with the command: a newer request has a newer version.
LEMMA ReadIsBehindStep ==
    ASSUME IInv, ReadIsBehind, Next
    PROVE  ReadIsBehind'
<1>0. wk \in [Workers -> Local] /\ row \in [Jobs -> Row] /\ IInv'
  BY StepInvariant DEF IInv, Shape, TypeOK
<1>1. ASSUME NEW w \in Workers, wk'[w].pc = "ack"
      PROVE  wk'[w].cmd # "none"
  <2>1. CASE wk'[w] = wk[w]
    BY <1>1, <2>1 DEF ReadIsBehind
  <2>2. CASE Own(w) /\ wk'[w] # wk[w]
    <3>1. wk'[w].job # 0
      BY <1>0, <1>1 DEF IInv, Shape, ClaimsNameJobs, Holds
    <3>2. ~LeaseBeat(w)
      BY <2>2 DEF LeaseBeat
    <3>3. ~SafetyRead(w)
      <4>1. At(w, "beat") \in Local /\ At(w, "beat").pc = "beat"
            /\ At(w, "failure").pc = "failure"
        BY <1>0, AtShape DEF WorkerPC
      <4>2. [At(w, "beat") EXCEPT !.cmd = PendingCommand(wk[w].job),
                                  !.ver = row[wk[w].job].ver].pc = "beat"
        BY <4>1 DEF Local
      <4> QED
        BY <1>0, <1>1, <4>1, <4>2 DEF SafetyRead, Become
    <3>4. ~IngestCancelled(w)
      BY <1>1, IngestSignals DEF IInv
    <3>5. SafetyBeat(w) /\ wk'[w].cmd = wk[w].cmd
      BY <1>1, <2>2, <3>1, <3>2, <3>3, <3>4, OwnReads DEF IInv
    <3>6. Pass(w).pc # "ack" /\ Pass(w) \in Local /\ At(w, "release").pc = "release"
      BY <1>0, PassShape, AtShape DEF WorkerPC
    <3>7. [Pass(w) EXCEPT !.cmd = "none", !.ver = 0].pc = Pass(w).pc
      BY <3>6 DEF Local
    <3>8. wk[w].cmd \in {"pause", "cancel"}
      BY <1>0, <1>1, <3>5, <3>6, <3>7 DEF SafetyBeat, Become
    <3> QED
      BY <3>5, <3>8
  <2> QED
    BY <2>1, <2>2, OthersKeepOwned DEF IInv
<1>2. ASSUME NEW w \in Workers, wk'[w].pc \in {"beat", "ack"}, wk'[w].cmd # "none",
             wk'[w].job # 0, row'[wk'[w].job].owner = w
      PROVE  /\ wk'[w].ver <= row'[wk'[w].job].ver
             /\ wk'[w].ver = row'[wk'[w].job].ver
                   => wk'[w].cmd = row'[wk'[w].job].cmd
  <2> DEFINE j == wk[w].job
  <2>1. ~ClaimNext(w)
    <3>1. CASE ClaimNext(w)
      <4>1. Own(w) /\ ~LeaseBeat(w) /\ ~SafetyRead(w) /\ ~IngestCancelled(w)
            /\ ~SafetyBeat(w)
        BY <3>1 DEF Own, WorkerStep, ClaimNext, LeaseBeat, SafetyRead,
                    IngestCancelled, SafetyBeat
      <4> QED
        BY <1>2, <4>1, OwnReads DEF IInv
    <3> QED
      BY <3>1
  <2>2. /\ Owns(w) /\ wk'[w].job = j /\ j \in Jobs
        /\ \/ Own(w) /\ SameRequest(j)
           \/ wk'[w] = wk[w] /\ (SameRequest(j) \/ Posted(j))
    BY <1>2, <2>1, OwnedRequestStep
  <2>3. row[j].ver \in Nat /\ row'[j].ver \in Nat /\ wk[w].ver \in Nat
    BY <1>0, <2>2 DEF Row, Local, IInv, Shape, TypeOK
  <2>4. wk[w].pc \in {"beat", "ack"} /\ wk[w].cmd # "none"
          => /\ wk[w].ver <= row[j].ver
             /\ wk[w].ver = row[j].ver => wk[w].cmd = row[j].cmd
    BY <2>2 DEF ReadIsBehind
  <2>5. CASE wk'[w] = wk[w] /\ SameRequest(j)
    BY <1>2, <2>2, <2>4, <2>5 DEF SameRequest
  <2>6. CASE wk'[w] = wk[w] /\ Posted(j)
    <3>1. row'[j].ver = row[j].ver + 1
      BY <2>6 DEF Posted
    <3> QED
      BY <1>2, <2>2, <2>3, <2>4, <2>6, <3>1
  <2>7. CASE Own(w) /\ SameRequest(j) /\ wk'[w] # wk[w]
    <3>1. CASE SafetyRead(w)
      <4>1. At(w, "beat") \in Local /\ At(w, "failure").pc = "failure"
        BY <1>0, AtShape DEF WorkerPC
      <4> DEFINE l == [At(w, "beat") EXCEPT !.cmd = PendingCommand(j),
                                            !.ver = row[j].ver]
      <4>2. l.cmd = PendingCommand(j) /\ l.ver = row[j].ver
        BY <4>1 DEF Local
      <4>3. wk'[w] = l
        BY <1>0, <1>2, <3>1, <4>1 DEF SafetyRead, Become
      <4> HIDE DEF l
      <4>4. wk'[w].ver = row[j].ver /\ wk'[w].cmd = row[j].cmd
        BY <1>2, <4>2, <4>3 DEF PendingCommand
      <4> QED
        BY <2>2, <2>3, <2>7, <4>4 DEF SameRequest
    <3>2. ~LeaseBeat(w)
      BY <2>7 DEF LeaseBeat
    <3>3. ~IngestCancelled(w)
      BY <1>2, IngestSignals DEF IInv
    <3>4. CASE SafetyBeat(w) /\ wk'[w].cmd = wk[w].cmd /\ wk'[w].ver = wk[w].ver
      <4>1. wk[w].pc = "beat"
        BY <3>4 DEF SafetyBeat
      <4> QED
        BY <1>2, <2>2, <2>4, <2>7, <3>4, <4>1 DEF SameRequest
    <3> QED
      BY <1>2, <2>7, <3>1, <3>2, <3>3, <3>4, OwnReads DEF IInv
  <2> QED
    BY <2>2, <2>5, <2>6, <2>7
<1> QED
  BY <1>1, <1>2 DEF ReadIsBehind, Owns, Holds

\* What the owner that confirmed a cancel does next: it writes the outcome,
\* or cleans up behind it.
LEMMA ConfirmedOwnerMove ==
    ASSUME IInv, ConfirmedIsApplied, NEW w \in Workers, Own(w), Owns(w),
           Confirmed(wk[w].job)
    PROVE  /\ row'[wk[w].job].status \in {row[wk[w].job].status, "cancelled"}
           /\ \/ wk'[w].job = 0
              \/ wk'[w].pc = "signal" /\ wk'[w].cmd = "cancel"
              \/ /\ wk'[w].pc = "failure"
                 /\ row'[wk[w].job].status \notin {"queued", "running"}
              \/ wk'[w].pc \in {"release", "quit"}
              \/ wk'[w] = wk[w] /\ row'[wk[w].job].status = row[wk[w].job].status
<1> DEFINE j == wk[w].job
<1>0. /\ wk \in [Workers -> Local] /\ row \in [Jobs -> Row]
      /\ j \in Jobs /\ row[j] \in Row
  BY ClaimedRowIsRow DEF IInv, Shape, TypeOK, Owns
<1>1. \/ wk[w].pc \in {"apply", "signal"} /\ wk[w].cmd = "cancel"
      \/ wk[w].pc = "failure" /\ row[j].status \notin {"queued", "running"}
      \/ wk[w].pc \in {"release", "quit"}
  BY DEF ConfirmedIsApplied
<1>2. \A l : Become(w, l) => wk'[w] = l
  BY <1>0 DEF Become
<1>3. {"failure", "release", "quit", "poll", "down", "signal"} \subseteq WorkerPC
  BY DEF WorkerPC
<1>4. \A pc \in WorkerPC : /\ At(w, pc).pc = pc /\ At(w, pc).cmd = wk[w].cmd
                           /\ Idle(pc).job = 0
  BY <1>0, AtShape, IdleShape
<1>5. CASE ApplyControl(w)
  <2>1. wk[w].cmd = "cancel" /\ wk[w].pc = "apply"
    BY <1>1, <1>5 DEF ApplyControl
  <2>2. Legal(row[j].status, "cancelled")
    <3>1. row[j].status = "running"
      BY <2>1 DEF IInv, OwnedIsRunning
    <3> QED
      BY <3>1 DEF Legal, Allowed
  <2>3. /\ row' = [row EXCEPT ![j].status = "cancelled", ![j].sv = @ + 1]
        /\ Become(w, At(w, "signal"))
    BY <1>5, <2>1, <2>2 DEF ApplyControl, SetJobStatus, Target
  <2>4. row'[j].status = "cancelled"
    BY <1>0, <2>3 DEF Row
  <2> QED
    BY <1>2, <1>3, <1>4, <2>1, <2>3, <2>4
<1>6. CASE HandleSignal(w)
  <2>1. wk[w].cmd = "cancel"
    BY <1>1, <1>6 DEF HandleSignal
  <2>2. \/ /\ row' = [row EXCEPT ![j].status = "cancelled", ![j].sv = @ + 1]
           /\ Become(w, At(w, "release"))
        \/ /\ ~Legal(row[j].status, "cancelled")
           /\ row' = row /\ Become(w, At(w, "failure"))
    BY <1>6, <2>1 DEF HandleSignal, SetJobStatus, Target
  <2>3. ~Legal(row[j].status, "cancelled") => row[j].status \notin {"queued", "running"}
    BY DEF Legal, Allowed
  <2>4. row' = row \/ row'[j].status = "cancelled"
    BY <1>0, <2>2 DEF Row
  <2> QED
    BY <1>2, <1>3, <1>4, <2>2, <2>3, <2>4
<1>7. CASE HandleClaimFailure(w)
  <2>1. row' = row /\ Become(w, At(w, "release"))
    BY <1>1, <1>7 DEF HandleClaimFailure
  <2> QED
    BY <1>2, <1>3, <1>4, <2>1
<1>8. CASE Release(w)
  <2>1. row'[j].status = row[j].status
    BY <1>0, <1>8 DEF Release, Row
  <2>2. wk'[w].job = 0
    BY <1>2, <1>3, <1>4, <1>8 DEF Release
  <2> QED
    BY <2>1, <2>2
<1>9. CASE Crash(w) \/ Interrupt(w)
  BY <1>2, <1>3, <1>4, <1>9 DEF Crash, Interrupt
<1>10. CASE LeaseBeat(w)
  BY <1>0, <1>10 DEF LeaseBeat, Row
<1> QED
  BY <1>1, <1>5, <1>6, <1>7, <1>8, <1>9, <1>10, LateSteps DEF Ends, LogFailure

\* A cancel becomes confirmed in AckControl, for the command that was read; a
\* newer request is not confirmed yet.
LEMMA ConfirmedIsAppliedStep ==
    ASSUME IInv, Confirmation, Next
    PROVE  ConfirmedIsApplied'
<1>0. /\ wk \in [Workers -> Local] /\ row \in [Jobs -> Row] /\ IInv'
      /\ AckIsBehind /\ ReadIsBehind /\ ConfirmedIsApplied
  BY StepInvariant DEF IInv, Shape, TypeOK, Confirmation
<1> SUFFICES ASSUME NEW w \in Workers, wk'[w].job # 0,
                    row'[wk'[w].job].owner = w,
                    row'[wk'[w].job].cmd = "cancel",
                    row'[wk'[w].job].ver = row'[wk'[w].job].ack
             PROVE  \/ wk'[w].pc \in {"apply", "signal"} /\ wk'[w].cmd = "cancel"
                    \/ /\ wk'[w].pc = "failure"
                       /\ row'[wk'[w].job].status \notin {"queued", "running"}
                    \/ wk'[w].pc \in {"release", "quit"}
  BY DEF ConfirmedIsApplied, Confirmed, Owns, Holds
<1> DEFINE j == wk[w].job
<1>1. ~ClaimNext(w)
  <2>1. CASE ClaimNext(w)
    <3>1. PICK i \in Jobs : Claimed(w, i)
      <4>1. wk[w].job = 0
        BY <2>1 DEF ClaimNext, IInv, Shape, ClaimsNameJobs, Holds
      <4> QED
        BY <4>1, ClaimStep DEF IInv
    <3>2. row[i].cmd # "cancel" /\ row'[i].cmd = row[i].cmd /\ wk'[w].job = i
      BY <3>1 DEF Claimed, Claimable, PendingCommand, SameRequest, IInv,
                  QueueWasNotCancelled
    <3> QED
      BY <3>2
  <2> QED
    BY <2>1
<1>2. /\ Owns(w) /\ wk'[w].job = j /\ j \in Jobs
      /\ \/ Own(w) /\ SameRequest(j)
         \/ /\ wk'[w] = wk[w]
            /\ row'[j].status = row[j].status
            /\ row'[j].ack = row[j].ack
            /\ SameRequest(j) \/ Posted(j)
  BY <1>1, OwnedRequestStep
<1>3. row[j].ack <= row[j].ver /\ row[j].ack \in Nat /\ row[j].ver \in Nat
  BY <1>0, <1>2 DEF AckIsBehind, Row
<1>4. CASE Confirmed(j)
  <2>1. \/ wk[w].pc \in {"apply", "signal"} /\ wk[w].cmd = "cancel"
        \/ wk[w].pc = "failure" /\ row[j].status \notin {"queued", "running"}
        \/ wk[w].pc \in {"release", "quit"}
    BY <1>0, <1>2, <1>4 DEF ConfirmedIsApplied
  <2>2. CASE Own(w)
    BY <1>0, <1>2, <1>4, <2>1, <2>2, ConfirmedOwnerMove
  <2>3. CASE wk'[w] = wk[w] /\ row'[j].status = row[j].status
    BY <1>2, <2>1, <2>3
  <2> QED
    BY <1>2, <2>2, <2>3
<1>5. CASE ~Confirmed(j)
  <2>1. CASE Posted(j) /\ row'[j].ack = row[j].ack
    <3>1. row'[j].ver = row[j].ver + 1
      BY <2>1 DEF Posted
    <3> QED
      BY <1>2, <1>3, <2>1, <3>1
  <2>2. CASE SameRequest(j)
    <3>1. row'[j].ack # row[j].ack /\ row[j].cmd = "cancel"
      BY <1>2, <1>5, <2>2 DEF Confirmed, SameRequest
    <3>2. w # None
      BY ParameterAssumption
    <3>3. PICK v \in Workers : /\ AckControl(v) /\ wk[v].job = j
                               /\ row[j].owner = v /\ row[j].ver = wk[v].ver
      BY <1>2, <3>1, <3>2, AckForms
    <3>4. v = w
      BY <1>2, <3>3 DEF Owns
    <3>5. wk[w].pc = "ack" /\ wk'[w] = At(w, "apply")
      BY <1>0, <3>3, <3>4 DEF AckControl, Become
    <3>6. wk[w].cmd = "cancel"
      BY <1>0, <1>2, <3>1, <3>3, <3>4, <3>5 DEF ReadIsBehind
    <3>7. wk'[w].pc = "apply" /\ wk'[w].cmd = "cancel"
      BY <1>0, <3>5, <3>6, AtShape DEF WorkerPC
    <3> QED
      BY <3>7
  <2> QED
    BY <1>2, <2>1, <2>2
<1> QED
  BY <1>4, <1>5

\* No request was made initially, and no job is held.
LEMMA InitConfirmation == Init => Confirmation
<1> SUFFICES ASSUME Init PROVE Confirmation
  OBVIOUS
<1>1. \A j \in Jobs : row[j].ack = 0 /\ row[j].ver = 0
  BY NewRowFields DEF Init
<1>2. \A w \in Workers : wk[w].job = 0 /\ wk[w].pc = "down"
  BY IdleShape DEF Init, WorkerPC
<1> QED
  BY <1>1, <1>2
     DEF Confirmation, AckIsBehind, ReadIsBehind, ConfirmedIsApplied, Owns, Holds

\* Every step keeps the invariant of the confirmation.
LEMMA StepConfirmation == IInv /\ Confirmation /\ [Next]_vars => Confirmation'
<1> SUFFICES ASSUME IInv, Confirmation, [Next]_vars PROVE Confirmation'
  OBVIOUS
<1>1. CASE Next
  <2>1. AckIsBehind'
    BY <1>1, AckIsBehindStep DEF Confirmation
  <2>2. ReadIsBehind'
    BY <1>1, ReadIsBehindStep DEF Confirmation
  <2>3. ConfirmedIsApplied'
    BY <1>1, ConfirmedIsAppliedStep
  <2> QED
    BY <2>1, <2>2, <2>3 DEF Confirmation
<1>2. CASE UNCHANGED vars
  BY <1>2 DEF vars, Confirmation, AckIsBehind, ReadIsBehind, ConfirmedIsApplied,
              Confirmed, Owns, Holds
<1> QED
  BY <1>1, <1>2

\* After a cancel was confirmed no step of anybody gives the attempt another
\* outcome: the owner is on its way to write the cancel, a sweep may interrupt
\* it, and nobody else claims the job.
LEMMA ConfirmedCancelStep ==
    ASSUME IInv, Confirmation, Next, NEW j \in Jobs, Confirmed(j),
           row'[j].status # row[j].status
    PROVE  row'[j].status \in {"cancelled", "interrupted", "queued", "gone"}
<1>0. /\ IInv /\ ConfirmedIsApplied
      /\ row[j].cmd = "cancel" /\ row[j].ver = row[j].ack /\ row[j].ver \in Nat
  BY DEF Confirmation, Confirmed, IInv, Shape, TypeOK, Row
<1>1. CASE Frontstage
  BY <1>0, <1>1, FrontstageRow, NewRowFields
     DEF IInv, Inserted, Posted, Recovered, Deleted, Aged
<1>2. ASSUME NEW w \in Workers, Own(w)
      PROVE  row'[j].status \in {"cancelled", "interrupted", "queued", "gone"}
  <2>1. ~\E v \in Workers : Claimed(v, j)
    BY <1>0 DEF Claimed, Claimable, PendingCommand, Pending, IInv,
                QueueWasNotCancelled
  <2>2. CASE SweepStale(w) \/ ClaimNext(w)
    <3>1. row'[j] = row[j] \/ Swept(j) \/ Aged(j) \/ \E v \in Workers : Written(v, j)
      BY <2>1, <2>2, BackstageRow DEF Backstage, IInv
    <3>2. ASSUME NEW v \in Workers, Written(v, j)
          PROVE  FALSE
      <4>1. row[j].owner = v /\ row[j].status # row'[j].status
            /\ row'[j].status # "interrupted"
        BY <3>2 DEF Written
      <4>2. CASE SweepStale(w)
        <5>1. row'[j] = SweptRow(j) \/ row'[j] = row[j]
          BY <4>2 DEF SweepStale
        <5>2. SweptRow(j).status = "interrupted"
          BY DEF SweptRow, IInv, Shape, TypeOK, Row
        <5> QED
          BY <4>1, <5>1, <5>2
      <4>3. CASE ClaimNext(w)
        <5>1. PICK i \in Jobs : Claimable(i)
                                  /\ row' = [row EXCEPT ![i] = ClaimedRow(w, i)]
          BY <4>3 DEF ClaimNext
        <5>2. ~Claimable(j)
          BY <1>0 DEF Claimable, PendingCommand, Pending, IInv,
                      QueueWasNotCancelled
        <5> QED
          BY <4>1, <5>1, <5>2 DEF IInv, Shape, TypeOK
      <4> QED
        BY <2>2, <4>2, <4>3
    <3> QED
      BY <3>1, <3>2 DEF Swept, Aged
  <2>3. CASE WorkerEffect(w)
    <3>1. OwnedWrite(w) /\ wk[w].job = j
      BY <2>3 DEF WorkerEffect, OwnedWrite, IInv, Shape, TypeOK
    <3>2. Owns(w)
      BY <3>1 DEF OwnedWrite, IInv, OwnerIsCurrent, Owns
    <3> QED
      BY <1>0, <1>2, <3>1, <3>2, ConfirmedOwnerMove
  <2> QED
    BY <1>0, <1>2, <2>2, <2>3, OwnEffect DEF IInv
<1>3. ASSUME NEW i \in Jobs, Lapse(i)
      PROVE  FALSE
  BY <1>3 DEF Lapse, IInv, Shape, TypeOK, Row
<1> QED
  BY <1>1, <1>2, <1>3 DEF Next, Own, Frontstage

\* A cancel that is shown as applied is never followed by another outcome of
\* that attempt, with or without worker.lock.
THEOREM ConfirmedCancelsAreFinal == Spec => AppliedCancelIsFinal
<1> DEFINE Final == \A j \in Jobs :
              /\ row[j].cmd = "cancel" /\ row[j].ver = row[j].ack
              /\ row'[j].status # row[j].status
              => row'[j].status \in {"cancelled", "interrupted", "queued", "gone"}
<1>1. Init => IInv /\ Confirmation
  BY InitInvariant, InitConfirmation
<1>2. IInv /\ Confirmation /\ [Next]_vars => (IInv /\ Confirmation)'
  BY StepInvariant, StepConfirmation
<1>3. IInv /\ Confirmation /\ [Next]_vars => [Final]_vars
  BY ConfirmedCancelStep DEF Confirmed
<1> QED
  BY <1>1, <1>2, <1>3, PTL DEF Spec, AppliedCancelIsFinal
=============================================================================
