-------------------------- MODULE JobControl_proofs --------------------------
(***************************************************************************)
(* Proofs about JobControl, for every number of jobs, workers, stages,     *)
(* faults and requests, with and without worker.lock.                      *)
(***************************************************************************)
EXTENDS JobControl, TLAPS

-----------------------------------------------------------------------------
(* The inductive invariant.                                                *)

\* A worker holds a claim exactly while run_once works on one.
ClaimsNameJobs ==
    \A w \in Workers : Holds(w) <=> wk[w].pc \notin {"down", "poll", "claim"}

\* A handler that was entered works on a job.
HandlersNameJobs == api.pc # "idle" => api.job # 0

Shape == TypeOK /\ ClaimsNameJobs /\ HandlersNameJobs

\* The attempt under which a worker is the owner is the one it works under.
OwnerIsCurrent ==
    \A w \in Workers :
        Holds(w) /\ row[wk[w].job].owner = w
            => row[wk[w].job].attempt = wk[w].attempt

\* A claimed job was inserted.
ClaimedWasInserted ==
    \A w \in Workers : Holds(w) => row[wk[w].job].status # "absent"

\* What the handler's earlier reads still say about the row.
HandlerKnows ==
    /\ api.pc = "insert" => /\ row[api.job].status = "absent"
                            /\ ws[api.job]
    /\ api.pc = "request" => /\ api.status \in Active
                             /\ Decides(api.cmd, api.status)
    /\ api.pc \notin {"idle", "insert"} => Exists(api.job)
    /\ api.pc \in {"owner", "latest"} /\ api.status \in Terminal
          => row[api.job].status \in Terminal
    /\ api.pc \in {"cleanup", "delete"} => row[api.job].status \in Terminal

\* Before a worker wrote the outcome of its attempt the job it owns is running.
OwnedIsRunning ==
    \A w \in Workers :
        Owns(w)
          /\ wk[w].pc \notin {"signal", "log", "failure", "release", "quit"}
            => row[wk[w].job].status = "running"

\* The last request of a queued job is not a cancel, open or not.
QueueWasNotCancelled == \A j \in Jobs : row[j].status = "queued"
                                          => row[j].cmd # "cancel"

\* A stage that was stopped by a control request or a lost claim reaches a
\* safety point that finds one of the two.
ControlIsFound ==
    \A w \in Workers :
        /\ wk[w].pc = "read" /\ wk[w].point = "control" => ControlPending(w)
        /\ wk[w].pc = "beat" /\ wk[w].point = "control"
              => ~Owns(w) \/ wk[w].cmd \in {"pause", "cancel"}

IInv == /\ Shape
        /\ WaitingIsUnowned
        /\ OwnerIsCurrent
        /\ ClaimedWasInserted
        /\ ClaimsAreDistinct
        /\ HandlerKnows
        /\ QueueWasNotCancelled
        /\ ActiveHasWorkspace
        /\ OwnedIsRunning
        /\ ControlIsFound
        /\ ControlIsNoFailure
-----------------------------------------------------------------------------
(* The values that actions write.                                          *)

\* Changing one row by a row keeps the table's type.
LEMMA RowUpdate ==
    ASSUME row \in [Jobs -> Row], NEW j \in Jobs, NEW r \in Row
    PROVE  [row EXCEPT ![j] = r] \in [Jobs -> Row]
OBVIOUS

\* The rows that the transactions write are rows.
LEMMA RowForms ==
    ASSUME NEW r \in Row
    PROVE  /\ \A t \in RowStates : [r EXCEPT !.status = t, !.sv = @ + 1] \in Row
           /\ [r EXCEPT !.sv = @ + 1] \in Row
           /\ [r EXCEPT !.fresh = TRUE] \in Row
           /\ [r EXCEPT !.fresh = FALSE] \in Row
           /\ [r EXCEPT !.del = TRUE] \in Row
           /\ \A n \in Nat : [r EXCEPT !.ack = n] \in Row
           /\ [r EXCEPT !.owner = None, !.fresh = FALSE] \in Row
           /\ \A t \in RowStates : NewRow(t) \in Row
<1>1. ASSUME NEW n \in Nat
      PROVE  /\ [r EXCEPT !.sv = n] \in Row
             /\ \A t \in RowStates : [r EXCEPT !.status = t, !.sv = n] \in Row
  BY DEF Row
<1>1a. r.sv + 1 \in Nat
  BY DEF Row
<1>2. /\ [r EXCEPT !.fresh = TRUE] \in Row
      /\ [r EXCEPT !.fresh = FALSE] \in Row
      /\ [r EXCEPT !.del = TRUE] \in Row
  BY DEF Row
<1>3. /\ \A n \in Nat : [r EXCEPT !.ack = n] \in Row
      /\ [r EXCEPT !.owner = None, !.fresh = FALSE] \in Row
  BY DEF Row
<1>4. \A t \in RowStates : NewRow(t) \in Row
  BY DEF Row, NewRow, Commands
<1> QED
  BY <1>1, <1>1a, <1>2, <1>3, <1>4

\* At moves the program counter only.
LEMMA AtShape ==
    ASSUME wk \in [Workers -> Local], NEW w \in Workers, NEW pc \in WorkerPC
    PROVE  /\ At(w, pc) \in Local
           /\ At(w, pc).pc = pc
           /\ At(w, pc).job = wk[w].job
           /\ At(w, pc).attempt = wk[w].attempt
           /\ At(w, pc).point = wk[w].point
           /\ At(w, pc).cmd = wk[w].cmd
BY DEF At, Local

\* Safety enters a safety point of the same claim.
LEMMA SafetyShape ==
    ASSUME wk \in [Workers -> Local], NEW w \in Workers,
           NEW k \in 0..NumStages, NEW point \in SafetyPoints
    PROVE  /\ Safety(w, k, point) \in Local
           /\ Safety(w, k, point).pc = "read"
           /\ Safety(w, k, point).job = wk[w].job
           /\ Safety(w, k, point).attempt = wk[w].attempt
           /\ Safety(w, k, point).point = point
           /\ Safety(w, k, point).cmd = wk[w].cmd
BY DEF Safety, Local, WorkerPC

\* An idle worker is well formed and holds no claim.
LEMMA IdleShape ==
    ASSUME NEW pc \in WorkerPC
    PROVE  Idle(pc) \in Local /\ Idle(pc).pc = pc /\ Idle(pc).job = 0
BY ParameterAssumption DEF Idle, Local, SafetyPoints, Commands

\* A safety point that lets the worker pass keeps its claim, and control is
\* the point of a failure only if it was the point passed.
LEMMA PassShape ==
    ASSUME wk \in [Workers -> Local], NEW w \in Workers
    PROVE  /\ Pass(w) \in Local
           /\ Pass(w).pc \in {"begin", "read", "succeed", "fail"}
           /\ Pass(w).job = wk[w].job
           /\ Pass(w).attempt = wk[w].attempt
           /\ Pass(w).point = "control"
                 => wk[w].point = "control" /\ Pass(w).pc = "fail"
<1>1. wk[w].k \in 0..NumStages /\ wk[w].point \in SafetyPoints
  BY DEF Local
<1>2. wk[w].k < NumStages => wk[w].k + 1 \in 0..NumStages
  BY <1>1, ParameterAssumption
<1> QED
  BY <1>1, <1>2, AtShape, SafetyShape DEF Pass, SafetyPoints, WorkerPC

\* What SetJobStatus does: a legal transition of a row under the fence and
\* the program counter of success, or no change to the table.
LEMMA SetJobStatusEffect ==
    ASSUME NEW w \in Workers, NEW t, NEW done, NEW lost,
           SetJobStatus(w, t, done, lost)
    PROVE  \/ /\ Legal(row[wk[w].job].status, t)
              /\ Owns(w)
              /\ row' = [row EXCEPT ![wk[w].job].status = t,
                                    ![wk[w].job].sv = @ + 1]
              /\ Become(w, done)
           \/ /\ UNCHANGED row
              /\ Become(w, lost) \/ Become(w, At(w, "failure"))
BY DEF SetJobStatus

-----------------------------------------------------------------------------
(* Type correctness.                                                       *)

\* A local state names a job exactly while it works on a claim.
Coherent(l) == l.job # 0 <=> l.pc \notin {"down", "poll", "claim"}

\* A worker that moves to a coherent local state keeps the shape.
LEMMA WorkerMove ==
    ASSUME Shape, NEW w \in Workers, NEW l \in Local, Coherent(l),
           Become(w, l),
           row' \in [Jobs -> Row], ws' \in [Jobs -> BOOLEAN],
           faults' \in 0..MaxFaults, UNCHANGED api
    PROVE  Shape'
<1>1. wk' \in [Workers -> Local] /\ wk'[w] = l
      /\ \A v \in Workers : v # w => wk'[v] = wk[v]
  BY DEF Become, Shape, TypeOK
<1>2. TypeOK'
  BY <1>1 DEF Shape, TypeOK
<1>3. ClaimsNameJobs'
  BY <1>1 DEF Shape, ClaimsNameJobs, Holds, Coherent
<1> QED
  BY <1>2, <1>3 DEF Shape, HandlersNameJobs

\* A handler that moves to a local state with a job keeps the shape.
LEMMA HandlerMove ==
    ASSUME Shape, api' \in ApiLocal, api'.pc # "idle" => api'.job # 0,
           row' \in [Jobs -> Row], ws' \in [Jobs -> BOOLEAN],
           faults' \in 0..MaxFaults, UNCHANGED wk
    PROVE  Shape'
BY DEF Shape, TypeOK, ClaimsNameJobs, Holds, HandlersNameJobs

\* A claim, and so a working worker, names a row.
LEMMA ClaimedRowIsRow ==
    ASSUME Shape, NEW w \in Workers,
           Holds(w) \/ wk[w].pc \notin {"down", "poll", "claim"}
    PROVE  Holds(w) /\ wk[w].job \in Jobs /\ row[wk[w].job] \in Row
BY DEF Shape, TypeOK, ClaimsNameJobs, Local, Holds, Jobs

\* SetJobStatus keeps the shape, if both continuations do.
LEMMA SetJobStatusShape ==
    ASSUME Shape, NEW w \in Workers, Holds(w), NEW t \in Statuses,
           NEW done \in Local, Coherent(done),
           NEW lost \in Local, Coherent(lost),
           SetJobStatus(w, t, done, lost),
           ws' \in [Jobs -> BOOLEAN], UNCHANGED <<api, faults>>
    PROVE  Shape'
<1>1. wk[w].job \in Jobs /\ row[wk[w].job] \in Row
  BY ClaimedRowIsRow
<1>2. [row[wk[w].job] EXCEPT !.status = t, !.sv = @ + 1] \in Row
  BY <1>1, RowForms DEF RowStates
<1>3. row' \in [Jobs -> Row]
  <2>1. row \in [Jobs -> Row]
    BY DEF Shape, TypeOK
  <2>2. [row EXCEPT ![wk[w].job].status = t, ![wk[w].job].sv = @ + 1]
          = [row EXCEPT ![wk[w].job] =
                [row[wk[w].job] EXCEPT !.status = t, !.sv = @ + 1]]
    BY <1>1, <2>1
  <2> QED
    BY <1>1, <1>2, <2>1, <2>2, RowUpdate, SetJobStatusEffect
<1>4. At(w, "failure") \in Local /\ Coherent(At(w, "failure"))
  BY AtShape DEF Shape, TypeOK, WorkerPC, Coherent, Holds
<1>5. faults' \in 0..MaxFaults
  BY DEF Shape, TypeOK
<1>6. Become(w, done) \/ Become(w, lost) \/ Become(w, At(w, "failure"))
  BY SetJobStatusEffect
<1> QED
  BY <1>3, <1>4, <1>5, <1>6, WorkerMove

\* The continuations of a worker that holds a claim.
LEMMA ContinueShape ==
    ASSUME Shape, NEW w \in Workers, Holds(w)
    PROVE  /\ \A pc \in WorkerPC \ {"down", "poll", "claim"} :
                 At(w, pc) \in Local /\ Coherent(At(w, pc))
           /\ \A k \in 0..NumStages, point \in SafetyPoints :
                 Safety(w, k, point) \in Local /\ Coherent(Safety(w, k, point))
           /\ Pass(w) \in Local /\ Coherent(Pass(w))
<1>1. wk \in [Workers -> Local]
  BY DEF Shape, TypeOK
<1>2. wk[w].job # 0
  BY DEF Holds
<1> QED
  BY <1>1, <1>2, AtShape, SafetyShape, PassShape DEF Coherent

\* Writing a file leaves the type of ws.
LEMMA TouchShape ==
    ASSUME Shape, NEW w \in Workers, TouchWorkspace(w)
    PROVE  ws' \in [Jobs -> BOOLEAN]
BY DEF Shape, TypeOK, TouchWorkspace

\* Every step of a worker's main thread keeps the shape.
LEMMA WorkerStepShape ==
    ASSUME Shape, NEW w \in Workers, WorkerStep(w)
    PROVE  Shape'
<1> DEFINE Working == WorkerPC \ {"down", "poll", "claim"}
<1>1. row \in [Jobs -> Row] /\ ws \in [Jobs -> BOOLEAN]
      /\ wk \in [Workers -> Local] /\ faults \in 0..MaxFaults
  BY DEF Shape, TypeOK
<1>2. wk[w] \in Local
  BY <1>1
<1>3. ASSUME wk[w].pc \notin {"down", "poll", "claim"}
      PROVE  /\ Holds(w) /\ wk[w].job \in Jobs /\ row[wk[w].job] \in Row
             /\ \A pc \in Working : At(w, pc) \in Local /\ Coherent(At(w, pc))
             /\ \A k \in 0..NumStages, point \in SafetyPoints :
                   Safety(w, k, point) \in Local /\ Coherent(Safety(w, k, point))
             /\ Pass(w) \in Local /\ Coherent(Pass(w))
  BY <1>3, ClaimedRowIsRow, ContinueShape
<1>4. \A pc \in {"down", "poll", "claim"} : Idle(pc) \in Local /\ Coherent(Idle(pc))
  BY IdleShape DEF WorkerPC, Coherent
<1>5. {"start", "read", "beat", "ack", "apply", "signal", "begin", "stage",
       "progress", "fail", "log", "succeed", "failure", "release", "quit"}
         \subseteq Working
  BY DEF WorkerPC
<1>6. wk[w].k \in 0..NumStages /\ 1 \in 0..NumStages
  BY <1>2, ParameterAssumption DEF Local
<1>7. {"paused", "cancelled", "running", "succeeded", "failed"} \subseteq Statuses
  BY DEF Statuses
<1> HIDE DEF Working
<1>10. CASE SweepStale(w)
  <2>1. ASSUME NEW j \in Jobs PROVE SweptRow(j) \in Row
    <3>1. row[j] \in Row /\ row[j].sv + 1 \in Nat
      BY <1>1 DEF Row
    <3> QED
      BY <3>1 DEF SweptRow, Row, RowStates, Statuses
  <2>2. row' \in [Jobs -> Row]
    BY <1>1, <1>10, <2>1 DEF SweepStale
  <2> QED
    BY <1>1, <1>4, <1>10, <2>2, WorkerMove DEF SweepStale
<1>11. CASE ClaimNext(w)
  <2>1. PICK j \in Jobs :
          /\ row' = [row EXCEPT ![j] = ClaimedRow(w, j)]
          /\ Become(w, [Idle("start") EXCEPT !.job = j,
                                  !.attempt = ClaimedRow(w, j).attempt])
    BY <1>11 DEF ClaimNext
  <2>2. ClaimedRow(w, j) \in Row
    <3>1. row[j] \in Row /\ row[j].attempt + 1 \in Nat /\ row[j].sv + 1 \in Nat
      BY <1>1 DEF Row
    <3> QED
      BY <3>1 DEF ClaimedRow, Row, RowStates, Statuses
  <2>3. row' \in [Jobs -> Row]
    BY <1>1, <2>1, <2>2, RowUpdate
  <2>4. ClaimedRow(w, j).attempt \in Nat
    BY <2>2 DEF Row
  <2> DEFINE l == [Idle("start") EXCEPT !.job = j,
                                  !.attempt = ClaimedRow(w, j).attempt]
  <2>5. l \in Local /\ Coherent(l)
    <3>1. Idle("start") \in Local /\ Idle("start").pc = "start"
      BY IdleShape DEF WorkerPC
    <3>2. j \in 0..NumJobs /\ j # 0
      BY ParameterAssumption DEF Jobs
    <3> QED
      BY <2>4, <3>1, <3>2 DEF Local, Coherent
  <2> QED
    BY <1>1, <1>11, <2>1, <2>3, <2>5, WorkerMove DEF ClaimNext
<1>12. CASE ClaimNothing(w)
  BY <1>1, <1>4, <1>12, WorkerMove DEF ClaimNothing
<1>13. CASE LoadConfig(w)
  <2>1. wk[w].pc = "start" /\ UNCHANGED <<ws, api, faults>>
    BY <1>13 DEF LoadConfig
  <2>2. Holds(w) /\ At(w, "failure") \in Local /\ Coherent(At(w, "failure"))
        /\ Safety(w, 1, "before") \in Local /\ Coherent(Safety(w, 1, "before"))
    BY <1>3, <1>5, <1>6, <2>1 DEF SafetyPoints
  <2>3. CASE SetJobStatus(w, "running", Safety(w, 1, "before"), At(w, "failure"))
    BY <1>1, <1>7, <2>1, <2>2, <2>3, SetJobStatusShape
  <2>4. CASE Become(w, Safety(w, 1, "before")) /\ UNCHANGED row
    BY <1>1, <2>1, <2>2, <2>4, WorkerMove
  <2>5. CASE Become(w, At(w, "failure")) /\ UNCHANGED row
    BY <1>1, <2>1, <2>2, <2>5, WorkerMove
  <2> QED
    BY <1>13, <2>3, <2>4, <2>5 DEF LoadConfig
<1>14. CASE SafetyRead(w)
  <2>1. wk[w].pc = "read" /\ UNCHANGED <<row, ws, api, faults>>
    BY <1>14 DEF SafetyRead
  <2>2. /\ Holds(w) /\ row[wk[w].job] \in Row
        /\ At(w, "failure") \in Local /\ Coherent(At(w, "failure"))
        /\ At(w, "beat") \in Local /\ Coherent(At(w, "beat"))
    BY <1>3, <1>5, <2>1
  <2> DEFINE l == [At(w, "beat") EXCEPT !.cmd = PendingCommand(wk[w].job),
                                        !.ver = row[wk[w].job].ver]
  <2>3. PendingCommand(wk[w].job) \in Commands /\ row[wk[w].job].ver \in Nat
    BY <2>2 DEF PendingCommand, Row, Commands
  <2>4. l \in Local /\ Coherent(l)
    BY <2>2, <2>3 DEF Local, Coherent
  <2>5. Become(w, l) \/ Become(w, At(w, "failure"))
    BY <1>14 DEF SafetyRead
  <2> QED
    BY <1>1, <2>1, <2>2, <2>4, <2>5, WorkerMove
<1>15. CASE SafetyBeat(w)
  <2>1. wk[w].pc = "beat" /\ UNCHANGED <<ws, api, faults>>
    BY <1>15 DEF SafetyBeat
  <2>2. /\ Holds(w) /\ wk[w].job \in Jobs /\ row[wk[w].job] \in Row
        /\ At(w, "ack") \in Local /\ Coherent(At(w, "ack"))
        /\ At(w, "release") \in Local /\ Coherent(At(w, "release"))
        /\ Pass(w) \in Local /\ Coherent(Pass(w))
    BY <1>3, <1>5, <2>1
  <2> DEFINE l == [Pass(w) EXCEPT !.cmd = "none", !.ver = 0]
  <2>3. l \in Local /\ Coherent(l)
    BY <2>2 DEF Local, Coherent, Commands
  <2>4. row' \in [Jobs -> Row]
    <3>1. [row[wk[w].job] EXCEPT !.fresh = TRUE] \in Row
      BY <2>2, RowForms
    <3>2. CASE row' = [row EXCEPT ![wk[w].job].fresh = TRUE]
      <4>1. row' = [row EXCEPT ![wk[w].job] =
                        [row[wk[w].job] EXCEPT !.fresh = TRUE]]
        BY <3>2
      <4> QED
        BY <1>1, <2>2, <3>1, <4>1, RowUpdate
    <3> QED
      BY <1>1, <1>15, <3>2 DEF SafetyBeat
  <2>5. Become(w, l) \/ Become(w, At(w, "ack")) \/ Become(w, At(w, "release"))
    BY <1>15 DEF SafetyBeat
  <2> QED
    BY <1>1, <2>1, <2>2, <2>3, <2>4, <2>5, WorkerMove
<1>16. CASE AckControl(w)
  <2>1. wk[w].pc = "ack" /\ UNCHANGED <<ws, api, faults>> /\ Become(w, At(w, "apply"))
    BY <1>16 DEF AckControl
  <2>2. /\ wk[w].job \in Jobs /\ row[wk[w].job] \in Row
        /\ At(w, "apply") \in Local /\ Coherent(At(w, "apply"))
    BY <1>3, <1>5, <2>1
  <2>3. row' \in [Jobs -> Row]
    <3>1. wk[w].ver \in Nat
      BY <1>2 DEF Local
    <3>2. [row[wk[w].job] EXCEPT !.ack = wk[w].ver] \in Row
      BY <2>2, <3>1, RowForms
    <3>3. CASE row' = [row EXCEPT ![wk[w].job].ack = wk[w].ver]
      <4>1. row' = [row EXCEPT ![wk[w].job] =
                        [row[wk[w].job] EXCEPT !.ack = wk[w].ver]]
        BY <3>3
      <4> QED
        BY <1>1, <2>2, <3>2, <4>1, RowUpdate
    <3> QED
      BY <1>1, <1>16, <3>3 DEF AckControl
  <2> QED
    BY <1>1, <2>1, <2>2, <2>3, WorkerMove
<1>17. CASE ApplyControl(w)
  <2>1. wk[w].pc = "apply" /\ UNCHANGED <<ws, api, faults>>
    BY <1>17 DEF ApplyControl
  <2>2. Target(wk[w].cmd) \in Statuses
    BY <1>7 DEF Target
  <2> QED
    BY <1>1, <1>3, <1>5, <1>17, <2>1, <2>2, SetJobStatusShape DEF ApplyControl
<1>18. CASE HandleSignal(w)
  <2>1. wk[w].pc = "signal" /\ UNCHANGED <<api, faults>>
    BY <1>18 DEF HandleSignal
  <2>2. Target(wk[w].cmd) \in Statuses
    BY <1>7 DEF Target
  <2>3. ws' \in [Jobs -> BOOLEAN]
    BY <1>1, <1>18, TouchShape DEF HandleSignal
  <2> QED
    BY <1>3, <1>5, <1>18, <2>1, <2>2, <2>3, SetJobStatusShape DEF HandleSignal
<1>19. CASE BeginStage(w)
  <2>1. wk[w].pc = "begin" /\ UNCHANGED <<api, faults>>
    BY <1>19 DEF BeginStage
  <2>2. ws' \in [Jobs -> BOOLEAN]
    BY <1>19, TouchShape DEF BeginStage
  <2> QED
    BY <1>3, <1>5, <1>7, <1>19, <2>1, <2>2, SetJobStatusShape DEF BeginStage
<1>20. CASE StageSucceeds(w)
  <2>1. wk[w].pc = "stage" /\ UNCHANGED <<row, api, faults>>
    BY <1>20 DEF StageSucceeds
  <2>2. ws' \in [Jobs -> BOOLEAN]
    BY <1>20, TouchShape DEF StageSucceeds
  <2> QED
    BY <1>1, <1>3, <1>5, <1>20, <2>1, <2>2, WorkerMove DEF StageSucceeds
<1>21. CASE StageRaises(w)
  <2>1. wk[w].pc = "stage" /\ UNCHANGED <<row, ws, api, faults>>
    BY <1>21 DEF StageRaises
  <2>2. PICK point \in SafetyPoints : Become(w, Safety(w, wk[w].k, point))
    BY <1>21 DEF StageRaises, SafetyPoints
  <2> QED
    BY <1>1, <1>3, <1>6, <2>1, <2>2, WorkerMove
<1>22. CASE IngestCancelled(w)
  <2>1. wk[w].pc = "stage" /\ UNCHANGED <<row, ws, api, faults>>
    BY <1>22 DEF IngestCancelled
  <2> DEFINE l == [At(w, "signal") EXCEPT !.cmd = "cancel"]
  <2>2. At(w, "signal") \in Local /\ Coherent(At(w, "signal"))
    BY <1>3, <1>5, <2>1
  <2>3. l \in Local /\ Coherent(l)
    BY <2>2 DEF Local, Coherent, Commands
  <2> QED
    BY <1>1, <1>22, <2>1, <2>3, WorkerMove DEF IngestCancelled
<1>23. CASE PublishProgress(w)
  <2>1. wk[w].pc = "progress" /\ UNCHANGED <<ws, api, faults>>
    BY <1>23 DEF PublishProgress
  <2>2. /\ wk[w].job \in Jobs /\ row[wk[w].job] \in Row
        /\ At(w, "release") \in Local /\ Coherent(At(w, "release"))
        /\ Safety(w, wk[w].k, "after") \in Local
        /\ Coherent(Safety(w, wk[w].k, "after"))
    BY <1>3, <1>5, <1>6, <2>1 DEF SafetyPoints
  <2>3. row' \in [Jobs -> Row]
    <3>1. [row[wk[w].job] EXCEPT !.sv = @ + 1] \in Row
      BY <2>2, RowForms
    <3>2. CASE row' = [row EXCEPT ![wk[w].job].sv = @ + 1]
      <4>1. row' = [row EXCEPT ![wk[w].job] =
                        [row[wk[w].job] EXCEPT !.sv = @ + 1]]
        BY <1>1, <2>2, <3>2
      <4> QED
        BY <1>1, <2>2, <3>1, <4>1, RowUpdate
    <3> QED
      BY <1>1, <1>23, <3>2 DEF PublishProgress
  <2>4. Become(w, Safety(w, wk[w].k, "after")) \/ Become(w, At(w, "release"))
    BY <1>23 DEF PublishProgress
  <2> QED
    BY <1>1, <2>1, <2>2, <2>3, <2>4, WorkerMove
<1>24. CASE RecordFailure(w)
  <2>1. wk[w].pc = "fail" /\ UNCHANGED <<api, faults>>
    BY <1>24 DEF RecordFailure
  <2>2. ws' \in [Jobs -> BOOLEAN]
    BY <1>24, TouchShape DEF RecordFailure
  <2> QED
    BY <1>3, <1>5, <1>7, <1>24, <2>1, <2>2, SetJobStatusShape DEF RecordFailure
<1>29. CASE LogFailure(w)
  <2>1. wk[w].pc = "log" /\ UNCHANGED <<row, api, faults>>
    BY <1>29 DEF LogFailure
  <2>2. ws' \in [Jobs -> BOOLEAN]
    BY <1>29, TouchShape DEF LogFailure
  <2> QED
    BY <1>1, <1>3, <1>5, <1>29, <2>1, <2>2, WorkerMove DEF LogFailure
<1>25. CASE Succeed(w)
  <2>1. wk[w].pc = "succeed" /\ UNCHANGED <<api, faults>>
    BY <1>25 DEF Succeed
  <2>2. ws' \in [Jobs -> BOOLEAN]
    BY <1>25, TouchShape DEF Succeed
  <2> QED
    BY <1>3, <1>5, <1>7, <1>25, <2>1, <2>2, SetJobStatusShape DEF Succeed
<1>26. CASE HandleClaimFailure(w)
  <2>1. /\ wk[w].pc = "failure" /\ UNCHANGED <<ws, api, faults>>
        /\ Become(w, At(w, "release"))
    BY <1>26 DEF HandleClaimFailure
  <2>2. /\ wk[w].job \in Jobs /\ row[wk[w].job] \in Row
        /\ At(w, "release") \in Local /\ Coherent(At(w, "release"))
    BY <1>3, <1>5, <2>1
  <2>3. row' \in [Jobs -> Row]
    <3>1. [row[wk[w].job] EXCEPT !.status = "failed", !.sv = @ + 1] \in Row
      BY <2>2, <1>7, RowForms DEF RowStates
    <3>2. CASE row' = [row EXCEPT ![wk[w].job].status = "failed",
                                  ![wk[w].job].sv = @ + 1]
      <4>1. row' = [row EXCEPT ![wk[w].job] =
                        [row[wk[w].job] EXCEPT !.status = "failed", !.sv = @ + 1]]
        BY <1>1, <2>2, <3>2
      <4> QED
        BY <1>1, <2>2, <3>1, <4>1, RowUpdate
    <3> QED
      BY <1>1, <1>26, <3>2 DEF HandleClaimFailure
  <2> QED
    BY <1>1, <2>1, <2>2, <2>3, WorkerMove
<1>27. CASE Release(w)
  <2>1. wk[w].pc \in {"release", "quit"} /\ UNCHANGED <<ws, api, faults>>
    BY <1>27 DEF Release
  <2>2. /\ wk[w].job \in Jobs /\ row[wk[w].job] \in Row
    BY <1>3, <2>1
  <2>3. row' \in [Jobs -> Row]
    <3>1. [row[wk[w].job] EXCEPT !.owner = None, !.fresh = FALSE] \in Row
      BY <2>2, RowForms
    <3>2. CASE row' = [row EXCEPT ![wk[w].job].owner = None,
                                  ![wk[w].job].fresh = FALSE]
      <4>1. row' = [row EXCEPT ![wk[w].job] =
                        [row[wk[w].job] EXCEPT !.owner = None, !.fresh = FALSE]]
        BY <1>1, <2>2, <3>2
      <4> QED
        BY <1>1, <2>2, <3>1, <4>1, RowUpdate
    <3> QED
      BY <1>1, <1>27, <3>2 DEF Release
  <2>4. PICK pc \in {"down", "poll"} : Become(w, Idle(pc))
    BY <1>27 DEF Release
  <2> QED
    BY <1>1, <1>4, <2>1, <2>3, <2>4, WorkerMove
<1> QED
  BY <1>10, <1>11, <1>12, <1>13, <1>14, <1>15, <1>16, <1>17, <1>18, <1>19,
     <1>20, <1>21, <1>22, <1>23, <1>24, <1>25, <1>26, <1>27, <1>29
  DEF WorkerStep

\* Every transaction of a handler keeps the shape.
LEMMA ApiStepShape ==
    ASSUME Shape, ApiStep
    PROVE  Shape'
<1>1. row \in [Jobs -> Row] /\ ws \in [Jobs -> BOOLEAN]
      /\ api \in ApiLocal /\ faults \in 0..MaxFaults
  BY DEF Shape, TypeOK
<1>2. ApiIdle \in ApiLocal /\ ApiIdle.pc = "idle"
  BY ParameterAssumption DEF ApiIdle, ApiLocal, ApiPC, ApiCommands, RowStates
<1>3. ASSUME api.pc # "idle"
      PROVE  api.job \in Jobs /\ row[api.job] \in Row
  BY <1>1, <1>3 DEF Shape, HandlersNameJobs, ApiLocal, Jobs
<1>4. ASSUME NEW pc \in ApiPC, api.pc # "idle"
      PROVE  ApiAt(pc) \in ApiLocal /\ ApiAt(pc).job # 0
  BY <1>1, <1>3, <1>4, ParameterAssumption DEF ApiAt, ApiLocal, Jobs
<1>5. ASSUME NEW j \in Jobs, NEW r \in Row, row' = [row EXCEPT ![j] = r]
      PROVE  row' \in [Jobs -> Row]
  BY <1>1, <1>5, RowUpdate
<1>6. {"queued", "cancelled", "gone"} \subseteq RowStates
  BY DEF RowStates, Statuses
<1>7. {"owner", "mark", "latest", "cleanup", "delete", "pendingStatus"} \subseteq ApiPC
  BY DEF ApiPC
<1>10. CASE InsertRow
  <2>1. api.job \in Jobs /\ NewRow("queued") \in Row
    BY <1>3, <1>6, <1>10, RowForms DEF InsertRow
  <2>2. row' \in [Jobs -> Row]
    BY <1>5, <1>10, <2>1 DEF InsertRow
  <2> QED
    BY <1>1, <1>2, <1>10, <2>2, HandlerMove DEF InsertRow
<1>11. CASE SubmitRequest
  <2> DEFINE j == api.job
  <2>1. api.pc = "request" /\ j \in Jobs /\ row[j] \in Row
    BY <1>3, <1>11 DEF SubmitRequest
  <2>2. row[j].ver + 1 \in Nat /\ row[j].sv + 1 \in Nat
    BY <2>1 DEF Row
  <2>3. ASSUME NEW c \in Commands, PostControl(j, c)
        PROVE  row' \in [Jobs -> Row]
    <3> DEFINE n == IF c = "cancel" /\ row[j].owner = None
                          /\ row[j].status \in Active
                    THEN row[j].ver + 1 ELSE row[j].ack
               t == IF c = "cancel" /\ row[j].owner = None
                          /\ row[j].status \in Active
                    THEN "cancelled" ELSE row[j].status
               r == [row[j] EXCEPT !.cmd = c, !.ver = row[j].ver + 1,
                                   !.sv = row[j].sv + 1, !.ack = n,
                                   !.status = t]
    <3>1. n \in Nat /\ t \in RowStates
      BY <1>6, <2>1, <2>2 DEF Row
    <3>2. r \in Row
      <4> HIDE DEF n, t
      <4> QED
        BY <2>1, <2>2, <3>1 DEF Row
    <3>3. row' = [row EXCEPT ![j] = r]
      BY <1>1, <2>1, <2>3 DEF PostControl
    <3> QED
      BY <1>5, <2>1, <3>2, <3>3
  <2>4. ASSUME Recover(j) PROVE row' \in [Jobs -> Row]
    <3> DEFINE r == [row[j] EXCEPT !.status = "queued", !.owner = None,
                                   !.fresh = FALSE, !.cmd = "resume",
                                   !.ver = row[j].ver + 1, !.sv = row[j].sv + 1]
    <3>1. r \in Row
      BY <1>6, <2>1, <2>2 DEF Row, Commands
    <3>2. row' = [row EXCEPT ![j] = r]
      BY <1>1, <2>1, <2>4 DEF Recover
    <3> QED
      BY <1>5, <2>1, <3>1, <3>2
  <2>5. row' \in [Jobs -> Row]
    BY <1>11, <2>3, <2>4 DEF SubmitRequest, Commands
  <2>6. api' \in ApiLocal /\ (api'.pc # "idle" => api'.job # 0)
    BY <1>2, <1>4, <1>7, <1>11, <2>1 DEF SubmitRequest
  <2> QED
    BY <1>1, <1>11, <2>5, <2>6, HandlerMove DEF SubmitRequest
<1>12. CASE RefuseRequest
  BY <1>1, <1>2, <1>12, HandlerMove DEF RefuseRequest
<1>13. CASE DeleteChecksOwner
  <2>1. api' \in ApiLocal /\ (api'.pc # "idle" => api'.job # 0)
    BY <1>4, <1>7, <1>13 DEF DeleteChecksOwner
  <2> QED
    BY <1>1, <1>13, <2>1, HandlerMove DEF DeleteChecksOwner
<1>14. CASE MarkDeletePending
  <2>1. api.job \in Jobs /\ row[api.job] \in Row
    BY <1>3, <1>14 DEF MarkDeletePending
  <2>2. [row[api.job] EXCEPT !.del = TRUE] \in Row
    BY <2>1, RowForms
  <2>3. row' = [row EXCEPT ![api.job] = [row[api.job] EXCEPT !.del = TRUE]]
    BY <1>14 DEF MarkDeletePending
  <2>4. row' \in [Jobs -> Row]
    BY <1>5, <2>1, <2>2, <2>3
  <2> QED
    BY <1>1, <1>2, <1>14, <2>4, HandlerMove DEF MarkDeletePending
<1>15. CASE DeleteChecksStatus
  <2>1. api' \in ApiLocal /\ (api'.pc # "idle" => api'.job # 0)
    BY <1>2, <1>4, <1>7, <1>15 DEF DeleteChecksStatus
  <2> QED
    BY <1>1, <1>15, <2>1, HandlerMove DEF DeleteChecksStatus
<1>16. CASE FinalizeChecksOwner
  <2>1. api' \in ApiLocal /\ (api'.pc # "idle" => api'.job # 0)
    BY <1>2, <1>4, <1>7, <1>16 DEF FinalizeChecksOwner
  <2> QED
    BY <1>1, <1>16, <2>1, HandlerMove DEF FinalizeChecksOwner
<1>17. CASE FinalizeChecksStatus
  <2>1. api' \in ApiLocal /\ (api'.pc # "idle" => api'.job # 0)
    BY <1>2, <1>4, <1>7, <1>17 DEF FinalizeChecksStatus
  <2> QED
    BY <1>1, <1>17, <2>1, HandlerMove DEF FinalizeChecksStatus
<1>18. CASE RemoveWorkspace
  <2>1. api' \in ApiLocal /\ (api'.pc # "idle" => api'.job # 0)
    BY <1>4, <1>7, <1>18 DEF RemoveWorkspace
  <2>2. ws' \in [Jobs -> BOOLEAN]
    BY <1>1, <1>18 DEF RemoveWorkspace
  <2> QED
    BY <1>1, <1>18, <2>1, <2>2, HandlerMove DEF RemoveWorkspace
<1>19. CASE WorkspaceBusy
  <2>1. api' \in ApiLocal /\ (api'.pc # "idle" => api'.job # 0)
    BY <1>2, <1>4, <1>7, <1>19 DEF WorkspaceBusy
  <2> QED
    BY <1>1, <1>19, <2>1, HandlerMove DEF WorkspaceBusy
<1>20. CASE DeleteRow
  <2>1. api.job \in Jobs /\ NewRow("gone") \in Row
    <3>1. row[api.job] \in Row /\ api.job \in Jobs
      BY <1>3, <1>20 DEF DeleteRow
    <3> QED
      BY <1>6, <3>1, RowForms
  <2>2. row' \in [Jobs -> Row]
    BY <1>5, <1>20, <2>1 DEF DeleteRow
  <2> QED
    BY <1>1, <1>2, <1>20, <2>2, HandlerMove DEF DeleteRow
<1> QED
  BY <1>10, <1>11, <1>12, <1>13, <1>14, <1>15, <1>16, <1>17, <1>18, <1>19,
     <1>20 DEF ApiStep

\* The remaining actions keep the shape, and it holds initially.
LEMMA OtherShape ==
    ASSUME Shape,
           \/ \E w \in Workers : Launch(w) \/ LeaseBeat(w) \/ Crash(w) \/ Interrupt(w)
           \/ \E j \in Jobs : Lapse(j) \/ Request(j)
           \/ ApiCrash
    PROVE  Shape'
<1>1. row \in [Jobs -> Row] /\ ws \in [Jobs -> BOOLEAN]
      /\ wk \in [Workers -> Local] /\ api \in ApiLocal /\ faults \in 0..MaxFaults
  BY DEF Shape, TypeOK
<1>2. ASSUME NEW kind, Fault(kind) PROVE faults' \in 0..MaxFaults
  BY <1>1, <1>2, ParameterAssumption DEF Fault
<1>3. \A pc \in {"down", "poll"} : Idle(pc) \in Local /\ Coherent(Idle(pc))
  BY IdleShape DEF WorkerPC, Coherent
<1>4. ApiIdle \in ApiLocal /\ ApiIdle.pc = "idle"
  BY ParameterAssumption DEF ApiIdle, ApiLocal, ApiPC, ApiCommands, RowStates
<1>5. ASSUME NEW j \in Jobs, NEW f \in BOOLEAN,
             row' = [row EXCEPT ![j].fresh = f], UNCHANGED <<ws, wk, api, faults>>
      PROVE  Shape'
  <2>1. [row[j] EXCEPT !.fresh = f] \in Row
    BY <1>1, RowForms
  <2>2. row' = [row EXCEPT ![j] = [row[j] EXCEPT !.fresh = f]]
    BY <1>5
  <2>3. row' \in [Jobs -> Row]
    BY <1>1, <2>1, <2>2, RowUpdate
  <2> QED
    BY <1>5, <2>3 DEF Shape, TypeOK, ClaimsNameJobs, Holds, HandlersNameJobs
<1>6. ASSUME NEW j \in Jobs, NEW c \in ApiCommands, NEW pc \in ApiPC
      PROVE  Handler(pc, j, c) \in ApiLocal /\ Handler(pc, j, c).job # 0
  <2>1. row[j].status \in RowStates /\ row[j].sv \in Nat
    BY <1>1 DEF Row
  <2> QED
    BY <2>1, ParameterAssumption DEF Handler, ApiLocal, Jobs
<1>7. ASSUME NEW w \in Workers, Launch(w) PROVE Shape'
  BY <1>1, <1>3, <1>7, WorkerMove DEF Launch
<1>8. ASSUME NEW w \in Workers, LeaseBeat(w) PROVE Shape'
  <2>1. wk[w].job \in Jobs
    BY <1>8, ClaimedRowIsRow DEF LeaseBeat
  <2> QED
    BY <1>5, <1>8, <2>1 DEF LeaseBeat
<1>9. ASSUME NEW w \in Workers, Crash(w) PROVE Shape'
  BY <1>1, <1>2, <1>3, <1>9, WorkerMove DEF Crash
<1>10. ASSUME NEW w \in Workers, Interrupt(w) PROVE Shape'
  <2>1. At(w, "quit") \in Local /\ Coherent(At(w, "quit"))
    BY <1>10, ClaimedRowIsRow, ContinueShape DEF Interrupt, WorkerPC
  <2> QED
    BY <1>1, <1>2, <1>10, <2>1, WorkerMove DEF Interrupt
<1>11. ASSUME NEW j \in Jobs, Lapse(j) PROVE Shape'
  BY <1>5, <1>11 DEF Lapse
<1>12. ASSUME NEW j \in Jobs, CreateLayout(j) PROVE Shape'
  <2>1. ws' \in [Jobs -> BOOLEAN]
    BY <1>1, <1>12 DEF CreateLayout
  <2>2. api' \in ApiLocal /\ api'.job # 0
    BY <1>6, <1>12 DEF CreateLayout, ApiPC, ApiCommands
  <2> QED
    BY <1>1, <1>12, <2>1, <2>2, HandlerMove DEF CreateLayout
<1>13. ASSUME NEW j \in Jobs, NEW c \in {"pause", "resume", "cancel", "delete"},
              Dispatch(j, c)
       PROVE  Shape'
  <2>1. api' \in ApiLocal /\ api'.job # 0
    BY <1>6, <1>13 DEF Dispatch, ApiPC, ApiCommands
  <2> QED
    BY <1>1, <1>13, <2>1, HandlerMove DEF Dispatch
<1>14. ASSUME NEW j \in Jobs, FinalizeDelete(j) PROVE Shape'
  <2>1. api' \in ApiLocal /\ api'.job # 0
    BY <1>6, <1>14 DEF FinalizeDelete, ApiPC, ApiCommands
  <2> QED
    BY <1>1, <1>14, <2>1, HandlerMove DEF FinalizeDelete
<1>15. ASSUME ApiCrash PROVE Shape'
  <2>1. faults' \in 0..MaxFaults
    BY <1>2, <1>15 DEF ApiCrash
  <2> QED
    BY <1>1, <1>4, <1>15, <2>1, HandlerMove DEF ApiCrash
<1> QED
  BY <1>7, <1>8, <1>9, <1>10, <1>11, <1>12, <1>13, <1>14, <1>15 DEF Request

\* The initial state has the shape.
LEMMA InitShape == Init => Shape
<1> SUFFICES ASSUME Init PROVE Shape
  OBVIOUS
<1>1. \A j \in Jobs : NewRow("absent") \in Row
  BY DEF NewRow, Row, RowStates, Commands
<1>2. Idle("down") \in Local /\ Idle("down").pc = "down" /\ Idle("down").job = 0
  BY IdleShape DEF WorkerPC
<1>3. ApiIdle \in ApiLocal /\ ApiIdle.pc = "idle"
  BY ParameterAssumption DEF ApiIdle, ApiLocal, ApiPC, ApiCommands, RowStates
<1>4. row \in [Jobs -> Row] /\ ws \in [Jobs -> BOOLEAN] /\ faults \in 0..MaxFaults
  BY <1>1, ParameterAssumption DEF Init
<1>5. wk \in [Workers -> Local] /\ ClaimsNameJobs
  BY <1>2 DEF Init, ClaimsNameJobs, Holds
<1> QED
  BY <1>3, <1>4, <1>5 DEF Init, Shape, TypeOK, HandlersNameJobs

\* Every step keeps the shape.
LEMMA NextShape == Shape /\ [Next]_vars => Shape'
<1> SUFFICES ASSUME Shape, [Next]_vars PROVE Shape'
  OBVIOUS
<1>1. CASE Next
  BY <1>1, WorkerStepShape, ApiStepShape, OtherShape DEF Next
<1>2. CASE UNCHANGED vars
  BY <1>2 DEF vars, Shape, TypeOK, ClaimsNameJobs, Holds, HandlersNameJobs
<1> QED
  BY <1>1, <1>2

\* Every variable keeps its shape, whatever workers and handlers do.
THEOREM TypeCorrect == Spec => []TypeOK
<1>1. Shape => TypeOK
  BY DEF Shape
<1> QED
  BY <1>1, InitShape, NextShape, PTL DEF Spec

-----------------------------------------------------------------------------
(* What a step does to the table and to the claims.                        *)

\* The worker changes the row it is the owner of: it keeps it or gives it up,
\* and takes a legal transition out of running or paused at most.
OwnedWrite(w) ==
    LET j == wk[w].job
    IN  /\ Holds(w)
        /\ row[j].owner = w
        /\ \E r \in Row :
              /\ row' = [row EXCEPT ![j] = r]
              /\ r.owner \in {w, None}
              /\ r.attempt = row[j].attempt
              /\ r.cmd = row[j].cmd /\ r.ver = row[j].ver
              /\ \/ r.status = row[j].status
                 \/ /\ <<row[j].status, r.status>> \in Allowed
                    /\ r.status \in {"running", "paused", "succeeded", "failed",
                                     "cancelled"}

\* A step of one worker outside sweep and claim: it writes its own row at
\* most, and goes on with its claim or drops it.
WorkerEffect(w) ==
    /\ row' = row \/ OwnedWrite(w)
    /\ \/ wk'[w].job = wk[w].job /\ wk'[w].attempt = wk[w].attempt
       \/ wk'[w].job = 0
    /\ \A v \in Workers : v # w => wk'[v] = wk[v]
    /\ ws' = ws \/ (Holds(w) /\ TouchWorkspace(w))
    /\ UNCHANGED api

\* A queued row has no owner, so its owner never takes it to failed.
LEMMA OwnedIsNotQueued ==
    ASSUME Shape, WaitingIsUnowned, NEW w \in Workers, Holds(w),
           row[wk[w].job].owner = w
    PROVE  row[wk[w].job].status \notin {"queued", "interrupted", "absent", "gone"}
BY ClaimedRowIsRow, ParameterAssumption DEF WaitingIsUnowned

\* SetJobStatus is such a write, or none.
LEMMA SetJobStatusIsOwned ==
    ASSUME Shape, NEW w \in Workers, Holds(w), NEW done, NEW lost,
           NEW t \in {"running", "paused", "succeeded", "failed", "cancelled"},
           SetJobStatus(w, t, done, lost)
    PROVE  row' = row \/ OwnedWrite(w)
<1>1. wk[w].job \in Jobs /\ row[wk[w].job] \in Row /\ row \in [Jobs -> Row]
  BY ClaimedRowIsRow DEF Shape, TypeOK
<1>2. CASE UNCHANGED row
  BY <1>2
<1>3. CASE /\ Legal(row[wk[w].job].status, t)
           /\ Owns(w)
           /\ row' = [row EXCEPT ![wk[w].job].status = t, ![wk[w].job].sv = @ + 1]
  <2> DEFINE r == [row[wk[w].job] EXCEPT !.status = t, !.sv = @ + 1]
  <2>1. r \in Row
    BY <1>1, RowForms DEF RowStates, Statuses
  <2>2. row' = [row EXCEPT ![wk[w].job] = r]
    BY <1>1, <1>3
  <2>3. /\ r.owner = row[wk[w].job].owner /\ r.attempt = row[wk[w].job].attempt
        /\ r.cmd = row[wk[w].job].cmd /\ r.ver = row[wk[w].job].ver
        /\ r.status = t
    BY <1>1 DEF Row
  <2>4. row[wk[w].job].owner = w
    BY <1>3 DEF Owns
  <2> HIDE DEF r
  <2> QED
    BY <1>3, <2>1, <2>2, <2>3, <2>4 DEF OwnedWrite, Legal
<1> QED
  BY <1>2, <1>3, SetJobStatusEffect

\* A record update of the owner's row is such a write.
LEMMA RowWriteIsOwned ==
    ASSUME Shape, NEW w \in Workers, Holds(w), row[wk[w].job].owner = w,
           NEW r \in Row,
           row' = [row EXCEPT ![wk[w].job] = r],
           r.owner \in {w, None}, r.attempt = row[wk[w].job].attempt,
           r.cmd = row[wk[w].job].cmd, r.ver = row[wk[w].job].ver,
           \/ r.status = row[wk[w].job].status
           \/ r.status = "failed" /\ row[wk[w].job].status = "running"
    PROVE  OwnedWrite(w)
BY DEF OwnedWrite, Allowed

\* Where a worker goes on, it keeps its claim; an idle one dropped it.
LEMMA ClaimAfter ==
    ASSUME Shape, NEW w \in Workers, NEW l, Become(w, l),
           \/ l.job = wk[w].job /\ l.attempt = wk[w].attempt
           \/ l.job = 0
    PROVE  /\ \/ wk'[w].job = wk[w].job /\ wk'[w].attempt = wk[w].attempt
              \/ wk'[w].job = 0
           /\ \A v \in Workers : v # w => wk'[v] = wk[v]
BY DEF Become, Shape, TypeOK

\* Every step of a worker is a sweep, a claim or a WorkerEffect.
LEMMA WorkerStepEffect ==
    ASSUME Shape, WaitingIsUnowned, NEW w \in Workers, WorkerStep(w)
    PROVE  SweepStale(w) \/ ClaimNext(w) \/ WorkerEffect(w)
<1> DEFINE j == wk[w].job
           Goes(l) == l.job = j /\ l.attempt = wk[w].attempt
           Claims == /\ \/ wk'[w].job = wk[w].job /\ wk'[w].attempt = wk[w].attempt
                        \/ wk'[w].job = 0
                     /\ \A v \in Workers : v # w => wk'[v] = wk[v]
<1>1. wk \in [Workers -> Local] /\ wk[w] \in Local /\ row \in [Jobs -> Row]
  BY DEF Shape, TypeOK
<1>2. ASSUME wk[w].pc \notin {"down", "poll", "claim"}
      PROVE  Holds(w) /\ j \in Jobs /\ row[j] \in Row
  BY <1>2, ClaimedRowIsRow
<1>3. /\ \A pc \in WorkerPC : Goes(At(w, pc))
      /\ \A k \in 0..NumStages, point \in SafetyPoints : Goes(Safety(w, k, point))
      /\ Goes(Pass(w))
  BY <1>1, AtShape, SafetyShape, PassShape
<1>4. \A pc \in WorkerPC : Idle(pc).job = 0
  BY IdleShape
<1>5. {"down", "poll", "start", "read", "beat", "ack", "apply", "signal", "begin",
       "stage", "progress", "fail", "log", "succeed", "failure", "release"}
         \subseteq WorkerPC
  BY DEF WorkerPC
<1>6. wk[w].k \in 0..NumStages /\ 1 \in 0..NumStages
      /\ {"before", "after", "control", "error"} \subseteq SafetyPoints
  BY <1>1, ParameterAssumption DEF Local, SafetyPoints
<1>7. ASSUME NEW l, Become(w, l), Goes(l) \/ l.job = 0 PROVE Claims
  BY <1>7, ClaimAfter
<1>8. ASSUME Claims, row' = row \/ OwnedWrite(w),
             ws' = ws \/ (Holds(w) /\ TouchWorkspace(w)), api' = api
      PROVE  WorkerEffect(w)
  BY <1>8 DEF WorkerEffect
<1>9. ASSUME wk[w].pc \notin {"down", "poll", "claim"}, NEW done, NEW lost,
             NEW t \in {"running", "paused", "succeeded", "failed", "cancelled"},
             SetJobStatus(w, t, done, lost), Goes(done), Goes(lost)
      PROVE  Claims /\ (row' = row \/ OwnedWrite(w))
  <2>1. row' = row \/ OwnedWrite(w)
    BY <1>2, <1>9, SetJobStatusIsOwned
  <2>2. Become(w, done) \/ Become(w, lost) \/ Become(w, At(w, "failure"))
    BY <1>9, SetJobStatusEffect
  <2>3. Claims
    BY <1>3, <1>5, <1>7, <1>9, <2>2
  <2> QED
    BY <2>1, <2>3
<1> HIDE DEF Goes, Claims
<1>10. CASE ClaimNothing(w)
  BY <1>4, <1>5, <1>7, <1>8, <1>10 DEF ClaimNothing
<1>11. CASE LoadConfig(w)
  <2>1. wk[w].pc = "start" /\ UNCHANGED <<ws, api>>
    BY <1>11 DEF LoadConfig
  <2>2. \/ SetJobStatus(w, "running", Safety(w, 1, "before"), At(w, "failure"))
        \/ Become(w, Safety(w, 1, "before")) /\ UNCHANGED row
        \/ Become(w, At(w, "failure")) /\ UNCHANGED row
    BY <1>11 DEF LoadConfig
  <2>3. Goes(Safety(w, 1, "before")) /\ Goes(At(w, "failure"))
    BY <1>3, <1>5, <1>6
  <2> QED
    BY <1>7, <1>8, <1>9, <2>1, <2>2, <2>3
<1>12. CASE SafetyRead(w)
  <2>1. wk[w].pc = "read" /\ UNCHANGED <<row, ws, api>>
    BY <1>12 DEF SafetyRead
  <2> DEFINE l == [At(w, "beat") EXCEPT !.cmd = PendingCommand(wk[w].job),
                                        !.ver = row[wk[w].job].ver]
  <2>2. At(w, "beat") \in Local
    BY <1>1, <1>5, AtShape
  <2>3. Goes(l) /\ Goes(At(w, "failure"))
    BY <1>3, <1>5, <2>2 DEF Local, Goes
  <2>4. Become(w, l) \/ Become(w, At(w, "failure"))
    BY <1>12 DEF SafetyRead
  <2> QED
    BY <1>7, <1>8, <2>1, <2>3, <2>4
<1>13. CASE SafetyBeat(w)
  <2>1. wk[w].pc = "beat" /\ UNCHANGED <<ws, api>>
    BY <1>13 DEF SafetyBeat
  <2> DEFINE l == [Pass(w) EXCEPT !.cmd = "none", !.ver = 0]
  <2>2. Pass(w) \in Local
    BY <1>1, PassShape
  <2>3. Goes(l) /\ Goes(At(w, "ack")) /\ Goes(At(w, "release"))
    BY <1>3, <1>5, <2>2 DEF Local, Goes
  <2>4. Become(w, l) \/ Become(w, At(w, "ack")) \/ Become(w, At(w, "release"))
    BY <1>13 DEF SafetyBeat
  <2>5. row' = row \/ OwnedWrite(w)
    <3> DEFINE r == [row[j] EXCEPT !.fresh = TRUE]
    <3>1. ASSUME Owns(w), row' = [row EXCEPT ![j].fresh = TRUE]
          PROVE  OwnedWrite(w)
      <4>1. j \in Jobs /\ row[j] \in Row /\ Holds(w) /\ row[j].owner = w
        BY <1>2, <2>1, <3>1 DEF Owns
      <4>2. r \in Row /\ r.owner = w /\ r.attempt = row[j].attempt
            /\ r.cmd = row[j].cmd /\ r.ver = row[j].ver /\ r.status = row[j].status
        BY <4>1 DEF Row
      <4>3. row' = [row EXCEPT ![j] = r]
        BY <3>1
      <4> HIDE DEF r
      <4> QED
        BY <4>1, <4>2, <4>3, RowWriteIsOwned
    <3> QED
      BY <1>13, <3>1 DEF SafetyBeat
  <2> QED
    BY <1>7, <1>8, <2>1, <2>3, <2>4, <2>5
<1>14. CASE AckControl(w)
  <2>1. wk[w].pc = "ack" /\ UNCHANGED <<ws, api>> /\ Become(w, At(w, "apply"))
    BY <1>14 DEF AckControl
  <2>2. row' = row \/ OwnedWrite(w)
    <3> DEFINE r == [row[j] EXCEPT !.ack = wk[w].ver]
    <3>1. ASSUME row[j].owner = w, row' = [row EXCEPT ![j].ack = wk[w].ver]
          PROVE  OwnedWrite(w)
      <4>1. j \in Jobs /\ row[j] \in Row /\ Holds(w) /\ wk[w].ver \in Nat
        BY <1>1, <1>2, <2>1 DEF Local
      <4>2. r \in Row /\ r.owner = w /\ r.attempt = row[j].attempt
            /\ r.cmd = row[j].cmd /\ r.ver = row[j].ver /\ r.status = row[j].status
        BY <3>1, <4>1 DEF Row
      <4>3. row' = [row EXCEPT ![j] = r]
        BY <3>1
      <4> HIDE DEF r
      <4> QED
        BY <3>1, <4>1, <4>2, <4>3, RowWriteIsOwned
    <3> QED
      BY <1>14, <3>1 DEF AckControl
  <2> QED
    BY <1>3, <1>5, <1>7, <1>8, <2>1, <2>2
<1>15. CASE ApplyControl(w)
  <2>1. wk[w].pc = "apply" /\ UNCHANGED <<ws, api>>
    BY <1>15 DEF ApplyControl
  <2>2. Target(wk[w].cmd) \in {"paused", "cancelled"}
    BY DEF Target
  <2> QED
    BY <1>3, <1>5, <1>8, <1>9, <1>15, <2>1, <2>2 DEF ApplyControl
<1>16. CASE HandleSignal(w)
  <2>1. wk[w].pc = "signal" /\ UNCHANGED api
        /\ (ws' = ws \/ TouchWorkspace(w))
    BY <1>16 DEF HandleSignal
  <2>2. Target(wk[w].cmd) \in {"paused", "cancelled"}
    BY DEF Target
  <2> QED
    BY <1>2, <1>3, <1>5, <1>8, <1>9, <1>16, <2>1, <2>2 DEF HandleSignal
<1>17. CASE BeginStage(w)
  BY <1>2, <1>3, <1>5, <1>8, <1>9, <1>17 DEF BeginStage
<1>18. CASE StageSucceeds(w)
  BY <1>2, <1>3, <1>5, <1>7, <1>8, <1>18 DEF StageSucceeds
<1>19. CASE StageRaises(w)
  <2>1. UNCHANGED <<row, ws, api>>
    BY <1>19 DEF StageRaises
  <2>2. \/ Become(w, Safety(w, wk[w].k, "control"))
        \/ Become(w, Safety(w, wk[w].k, "error"))
    BY <1>19 DEF StageRaises
  <2> QED
    BY <1>3, <1>6, <1>7, <1>8, <2>1, <2>2
<1>20. CASE IngestCancelled(w)
  <2> DEFINE l == [At(w, "signal") EXCEPT !.cmd = "cancel"]
  <2>1. At(w, "signal") \in Local
    BY <1>1, <1>5, AtShape
  <2>2. Goes(l)
    BY <1>3, <1>5, <2>1 DEF Local, Goes
  <2> QED
    BY <1>7, <1>8, <1>20, <2>2 DEF IngestCancelled
<1>21. CASE PublishProgress(w)
  <2>1. wk[w].pc = "progress" /\ UNCHANGED <<ws, api>>
    BY <1>21 DEF PublishProgress
  <2>2. Become(w, Safety(w, wk[w].k, "after")) \/ Become(w, At(w, "release"))
    BY <1>21 DEF PublishProgress
  <2>3. row' = row \/ OwnedWrite(w)
    <3> DEFINE r == [row[j] EXCEPT !.sv = @ + 1]
    <3>1. ASSUME Owns(w), row' = [row EXCEPT ![j].sv = @ + 1]
          PROVE  OwnedWrite(w)
      <4>1. j \in Jobs /\ row[j] \in Row /\ Holds(w) /\ row[j].owner = w
        BY <1>2, <2>1, <3>1 DEF Owns
      <4>2. r \in Row
        BY <4>1, RowForms
      <4>2a. r.owner = w /\ r.attempt = row[j].attempt
            /\ r.cmd = row[j].cmd /\ r.ver = row[j].ver /\ r.status = row[j].status
        BY <4>1 DEF Row
      <4>3. row' = [row EXCEPT ![j] = r]
        BY <1>1, <3>1, <4>1
      <4> HIDE DEF r
      <4> QED
        BY <4>1, <4>2, <4>2a, <4>3, RowWriteIsOwned
    <3> QED
      BY <1>21, <3>1 DEF PublishProgress
  <2> QED
    BY <1>3, <1>5, <1>6, <1>7, <1>8, <2>1, <2>2, <2>3
<1>22. CASE RecordFailure(w)
  BY <1>2, <1>3, <1>5, <1>8, <1>9, <1>22 DEF RecordFailure
<1>30. CASE LogFailure(w)
  BY <1>2, <1>3, <1>5, <1>7, <1>8, <1>30 DEF LogFailure
<1>23. CASE Succeed(w)
  BY <1>2, <1>3, <1>5, <1>8, <1>9, <1>23 DEF Succeed
<1>24. CASE HandleClaimFailure(w)
  <2>1. /\ wk[w].pc = "failure" /\ UNCHANGED <<ws, api>>
        /\ Become(w, At(w, "release"))
    BY <1>24 DEF HandleClaimFailure
  <2>2. row' = row \/ OwnedWrite(w)
    <3> DEFINE r == [row[j] EXCEPT !.status = "failed", !.sv = @ + 1]
    <3>1. ASSUME Owns(w), row[j].status \in {"queued", "running"},
                 row' = [row EXCEPT ![j].status = "failed", ![j].sv = @ + 1]
          PROVE  OwnedWrite(w)
      <4>1. j \in Jobs /\ row[j] \in Row /\ Holds(w) /\ row[j].owner = w
        BY <1>2, <2>1, <3>1 DEF Owns
      <4>2. r \in Row
        BY <4>1, RowForms DEF RowStates, Statuses
      <4>3. r.owner = w /\ r.attempt = row[j].attempt
            /\ r.cmd = row[j].cmd /\ r.ver = row[j].ver /\ r.status = "failed"
        BY <4>1 DEF Row
      <4>4. row' = [row EXCEPT ![j] = r]
        BY <1>1, <3>1, <4>1
      <4>5. row[j].status = "running"
        BY <3>1, <4>1, OwnedIsNotQueued
      <4> HIDE DEF r
      <4> QED
        BY <4>1, <4>2, <4>3, <4>4, <4>5, RowWriteIsOwned
    <3> QED
      BY <1>24, <3>1 DEF HandleClaimFailure
  <2> QED
    BY <1>3, <1>5, <1>7, <1>8, <2>1, <2>2
<1>25. CASE Release(w)
  <2>1. wk[w].pc \in {"release", "quit"} /\ UNCHANGED <<ws, api>>
    BY <1>25 DEF Release
  <2>2. Become(w, Idle("down")) \/ Become(w, Idle("poll"))
    BY <1>25 DEF Release
  <2>3. row' = row \/ OwnedWrite(w)
    <3> DEFINE r == [row[j] EXCEPT !.owner = None, !.fresh = FALSE]
    <3>1. ASSUME Owns(w),
                 row' = [row EXCEPT ![j].owner = None, ![j].fresh = FALSE]
          PROVE  OwnedWrite(w)
      <4>1. j \in Jobs /\ row[j] \in Row /\ Holds(w) /\ row[j].owner = w
        BY <1>2, <2>1, <3>1 DEF Owns
      <4>2. r \in Row /\ r.owner = None /\ r.attempt = row[j].attempt
            /\ r.cmd = row[j].cmd /\ r.ver = row[j].ver /\ r.status = row[j].status
        BY <4>1 DEF Row
      <4>3. row' = [row EXCEPT ![j] = r]
        BY <1>1, <3>1, <4>1
      <4> HIDE DEF r
      <4> QED
        BY <4>1, <4>2, <4>3, RowWriteIsOwned
    <3> QED
      BY <1>25, <3>1 DEF Release
  <2> QED
    BY <1>4, <1>5, <1>7, <1>8, <2>1, <2>2, <2>3
<1> QED
  BY <1>10, <1>11, <1>12, <1>13, <1>14, <1>15, <1>16, <1>17, <1>18, <1>19,
     <1>20, <1>21, <1>22, <1>23, <1>24, <1>25, <1>30 DEF WorkerStep

-----------------------------------------------------------------------------
(* What a step does to one row.                                            *)

\* A step of a worker process or of time.
Backstage == \/ \E w \in Workers : SweepStale(w) \/ ClaimNext(w) \/ WorkerEffect(w)
             \/ \E j \in Jobs : Lapse(j)

\* A step of the API process.
Frontstage == (\E j \in Jobs : Request(j)) \/ ApiStep \/ ApiCrash

\* The same owner, attempt and request.
SameClaim(i) == /\ row'[i].owner = row[i].owner
                /\ row'[i].attempt = row[i].attempt
SameRequest(i) == /\ row'[i].cmd = row[i].cmd
                  /\ row'[i].ver = row[i].ver

Swept(i) == /\ row[i].status = "running" /\ row'[i].status = "interrupted"
            /\ row[i].owner # None /\ row'[i].owner = None
            /\ row'[i].attempt = row[i].attempt
            /\ SameRequest(i)

Claimed(w, i) == /\ ClaimNext(w)
                 /\ Claimable(i)
                 /\ row'[i].status = "running"
                 /\ row'[i].owner = w
                 /\ row'[i].attempt = row[i].attempt + 1
                 /\ wk'[w].job = i /\ wk'[w].attempt = row'[i].attempt
                 /\ SameRequest(i)

Written(w, i) == /\ OwnedWrite(w) /\ wk[w].job = i /\ row[i].owner = w
                 /\ row'[i].owner \in {w, None}
                 /\ row'[i].attempt = row[i].attempt
                 /\ SameRequest(i)
                 /\ \/ row'[i].status = row[i].status
                    \/ /\ <<row[i].status, row'[i].status>> \in Allowed
                       /\ row'[i].status \in {"running", "paused", "succeeded",
                                              "failed", "cancelled"}

Aged(i) == /\ SameClaim(i) /\ SameRequest(i)
           /\ row'[i].ack = row[i].ack
           /\ row'[i].status = row[i].status

\* A row of the table is a record with these fields.
LEMMA RowsAreRows ==
    ASSUME Shape, NEW i \in Jobs
    PROVE  /\ row[i] \in Row
           /\ row[i].status \in RowStates
           /\ row[i].owner \in Workers \cup {None}
           /\ row[i].attempt \in Nat /\ row[i].ver \in Nat
BY DEF Shape, TypeOK, Row

\* The sweep takes expired attempts from their owners.
LEMMA SweepRows ==
    ASSUME Shape, NEW w \in Workers, SweepStale(w), NEW i \in Jobs
    PROVE  row'[i] = row[i] \/ Swept(i)
<1>0. row \in [Jobs -> Row] /\ row[i] \in Row
  BY RowsAreRows DEF Shape, TypeOK
<1>1. row'[i] = IF Stale(i) THEN SweptRow(i) ELSE row[i]
  BY <1>0 DEF SweepStale
<1>2. SweptRow(i).status = "interrupted" /\ SweptRow(i).owner = None
      /\ SweptRow(i).attempt = row[i].attempt
      /\ SweptRow(i).cmd = row[i].cmd /\ SweptRow(i).ver = row[i].ver
  BY <1>0 DEF SweptRow, Row
<1> QED
  BY <1>1, <1>2 DEF Swept, SameRequest, Stale

\* A claim changes the row it claims.
LEMMA ClaimRows ==
    ASSUME Shape, NEW w \in Workers, ClaimNext(w), NEW i \in Jobs
    PROVE  row'[i] = row[i] \/ Claimed(w, i)
<1>0. row \in [Jobs -> Row] /\ row[i] \in Row
  BY RowsAreRows DEF Shape, TypeOK
<1>1. PICK j \in Jobs :
        /\ Claimable(j)
        /\ row' = [row EXCEPT ![j] = ClaimedRow(w, j)]
        /\ Become(w, [Idle("start") EXCEPT !.job = j,
                                !.attempt = ClaimedRow(w, j).attempt])
  BY DEF ClaimNext
<1>2. CASE i # j
  BY <1>0, <1>1, <1>2
<1>3. CASE i = j
  <2>1. row'[i] = ClaimedRow(w, i)
    BY <1>0, <1>1, <1>3
  <2>2. ClaimedRow(w, i).status = "running" /\ ClaimedRow(w, i).owner = w
        /\ ClaimedRow(w, i).attempt = row[i].attempt + 1
        /\ ClaimedRow(w, i).cmd = row[i].cmd /\ ClaimedRow(w, i).ver = row[i].ver
    BY <1>0 DEF ClaimedRow, Row
  <2>3. wk'[w] = [Idle("start") EXCEPT !.job = i,
                                !.attempt = ClaimedRow(w, i).attempt]
    BY <1>1, <1>3 DEF Become, Shape, TypeOK
  <2>4. Idle("start") \in Local
    BY IdleShape DEF WorkerPC
  <2>5. wk'[w].job = i /\ wk'[w].attempt = ClaimedRow(w, i).attempt
    BY <2>3, <2>4 DEF Local
  <2> QED
    BY <1>1, <1>3, <2>1, <2>2, <2>5 DEF Claimed, SameRequest
<1> QED
  BY <1>2, <1>3

\* Any other step of a worker process writes the row it owns at most.
LEMMA EffectRows ==
    ASSUME Shape, NEW w \in Workers, WorkerEffect(w), NEW i \in Jobs
    PROVE  row'[i] = row[i] \/ Written(w, i)
<1>0. row \in [Jobs -> Row] /\ row[i] \in Row
  BY RowsAreRows DEF Shape, TypeOK
<1>1. CASE row' = row
  BY <1>1
<1>2. CASE OwnedWrite(w)
  <2>1. PICK r \in Row :
            /\ row' = [row EXCEPT ![wk[w].job] = r]
            /\ r.owner \in {w, None}
            /\ r.attempt = row[wk[w].job].attempt
            /\ r.cmd = row[wk[w].job].cmd /\ r.ver = row[wk[w].job].ver
            /\ \/ r.status = row[wk[w].job].status
               \/ /\ <<row[wk[w].job].status, r.status>> \in Allowed
                  /\ r.status \in {"running", "paused", "succeeded", "failed",
                                   "cancelled"}
    BY <1>2 DEF OwnedWrite
  <2>2. CASE i # wk[w].job
    BY <1>0, <2>1, <2>2
  <2>3. CASE i = wk[w].job
    <3>1. row'[i] = r
      BY <1>0, <2>1, <2>3
    <3>2. row[i].owner = w
      BY <1>2, <2>3 DEF OwnedWrite
    <3> QED
      BY <1>2, <2>1, <2>3, <3>1, <3>2 DEF Written, SameRequest
  <2> QED
    BY <2>2, <2>3
<1> QED
  BY <1>1, <1>2 DEF WorkerEffect

\* What a worker process or time does to a row.
LEMMA BackstageRow ==
    ASSUME Shape, WaitingIsUnowned, Backstage, NEW i \in Jobs
    PROVE  \/ row'[i] = row[i]
           \/ Swept(i)
           \/ \E w \in Workers : Claimed(w, i) \/ Written(w, i)
           \/ Aged(i)
<1>1. row \in [Jobs -> Row] /\ row[i] \in Row
  BY RowsAreRows DEF Shape, TypeOK
<1>2. ASSUME NEW j \in Jobs, Lapse(j)
      PROVE  row'[i] = row[i] \/ Aged(i)
  <2>1. row' = [row EXCEPT ![j] = [row[j] EXCEPT !.fresh = FALSE]]
    BY <1>2 DEF Lapse
  <2>2. CASE i # j
    BY <1>1, <2>1, <2>2
  <2>3. CASE i = j
    <3>1. row'[i] = [row[i] EXCEPT !.fresh = FALSE]
      BY <1>1, <2>1, <2>3
    <3> QED
      BY <1>1, <3>1 DEF Aged, SameClaim, SameRequest, Row
  <2> QED
    BY <2>2, <2>3
<1> QED
  BY <1>2, SweepRows, ClaimRows, EffectRows DEF Backstage

Inserted(i) == /\ api.pc = "insert" /\ api.job = i
               /\ row[i].status = "absent" /\ row'[i] = NewRow("queued")

Posted(i) ==
    /\ api.pc = "request" /\ api.job = i
    /\ SameClaim(i)
    /\ row[i].status \in Active
    /\ row'[i].cmd \in {"pause", "resume", "cancel"}
    /\ row'[i].ver = row[i].ver + 1
    /\ row'[i].cmd = "pause" => row[i].status = "running"
    /\ row'[i].cmd = "resume" => row[i].status = "paused"
    /\ IF row'[i].cmd = "cancel" /\ row[i].owner = None
       THEN row'[i].status = "cancelled"
       ELSE row'[i].status = row[i].status /\ row'[i].ack = row[i].ack

Recovered(i) == /\ row[i].status = "interrupted" /\ row'[i].status = "queued"
                /\ row'[i].owner = None /\ row'[i].attempt = row[i].attempt
                /\ row'[i].cmd = "resume" /\ row'[i].ver = row[i].ver + 1

Deleted(i) == row[i].status \in Terminal /\ row'[i] = NewRow("gone")

\* What a handler does to a row.
LEMMA FrontstageRow ==
    ASSUME Shape, HandlerKnows, Frontstage, NEW i \in Jobs
    PROVE  row'[i] = row[i] \/ Inserted(i) \/ Posted(i) \/ Recovered(i)
              \/ Deleted(i) \/ Aged(i)
<1>1. row \in [Jobs -> Row] /\ row[i] \in Row
  BY RowsAreRows DEF Shape, TypeOK
<1>2. CASE InsertRow
  BY <1>1, <1>2 DEF InsertRow, HandlerKnows, Inserted
<1>3. CASE SubmitRequest
  <2>1. /\ api.pc = "request" /\ api.status = row[api.job].status
        /\ api.status \in Active /\ Decides(api.cmd, api.status)
    BY <1>3 DEF SubmitRequest, Unchanged, HandlerKnows
  <2>2. CASE i # api.job
    BY <1>1, <1>3, <2>2 DEF SubmitRequest, PostControl, Recover
  <2>3. CASE i = api.job
    <3>1. ASSUME NEW c \in {"pause", "resume", "cancel"}, PostControl(i, c),
                 c = "pause" => row[i].status = "running",
                 c = "resume" => row[i].status = "paused"
          PROVE  Posted(i)
      <4>1. /\ row'[i].cmd = c /\ row'[i].ver = row[i].ver + 1
            /\ row'[i].owner = row[i].owner /\ row'[i].attempt = row[i].attempt
            /\ IF c = "cancel" /\ row[i].owner = None /\ row[i].status \in Active
               THEN row'[i].status = "cancelled"
               ELSE row'[i].status = row[i].status /\ row'[i].ack = row[i].ack
        BY <1>1, <3>1 DEF PostControl, Row
      <4> QED
        BY <2>1, <2>3, <3>1, <4>1 DEF Posted, SameClaim
    <3>2. ASSUME Recover(i), row[i].status = "interrupted" PROVE Recovered(i)
      BY <1>1, <3>2 DEF Recover, Recovered, Row
    <3>3. \/ api.status = "interrupted" /\ Recover(i)
          \/ api.cmd = "pause" /\ PostControl(i, "pause")
          \/ api.status = "paused" /\ PostControl(i, "resume")
          \/ PostControl(i, "cancel")
      BY <1>3, <2>3 DEF SubmitRequest
    <3>4. api.cmd = "pause" => api.status = "running"
      BY <2>1 DEF Decides
    <3> QED
      BY <2>1, <2>3, <3>1, <3>2, <3>3, <3>4
  <2> QED
    BY <2>2, <2>3
<1>4. CASE MarkDeletePending
  <2>1. row' = [row EXCEPT ![api.job] = [row[api.job] EXCEPT !.del = TRUE]]
    BY <1>4 DEF MarkDeletePending
  <2>2. CASE i # api.job
    BY <1>1, <2>1, <2>2
  <2>3. CASE i = api.job
    <3>1. row'[i] = [row[i] EXCEPT !.del = TRUE]
      BY <1>1, <2>1, <2>3
    <3> QED
      BY <1>1, <3>1 DEF Aged, SameClaim, SameRequest, Row
  <2> QED
    BY <2>2, <2>3
<1>5. CASE DeleteRow
  BY <1>1, <1>5 DEF DeleteRow, HandlerKnows, Deleted
<1>6. CASE row' = row
  BY <1>6
<1> QED
  BY <1>2, <1>3, <1>4, <1>5, <1>6
     DEF Frontstage, Request, CreateLayout, Dispatch, FinalizeDelete, ApiCrash,
         ApiStep, RefuseRequest, DeleteChecksOwner, DeleteChecksStatus,
         FinalizeChecksOwner, FinalizeChecksStatus, RemoveWorkspace, WorkspaceBusy

\* A step of the process of w, with its heartbeat thread and its end.
Own(w) == Launch(w) \/ WorkerStep(w) \/ LeaseBeat(w) \/ Crash(w) \/ Interrupt(w)

\* Every step of a process is a sweep, a claim or a WorkerEffect.
LEMMA OwnEffect ==
    ASSUME Shape, WaitingIsUnowned, NEW w \in Workers, Own(w)
    PROVE  SweepStale(w) \/ ClaimNext(w) \/ WorkerEffect(w)
<1>1. CASE Launch(w)
  <2>1. Idle("poll").job = 0
    BY IdleShape DEF WorkerPC
  <2> QED
    BY <1>1, <2>1, ClaimAfter DEF Launch, WorkerEffect
<1>2. CASE Crash(w)
  <2>1. Idle("down").job = 0
    BY IdleShape DEF WorkerPC
  <2> QED
    BY <1>2, <2>1, ClaimAfter DEF Crash, WorkerEffect
<1>3. CASE Interrupt(w)
  <2>1. At(w, "quit").job = wk[w].job /\ At(w, "quit").attempt = wk[w].attempt
    BY AtShape DEF Shape, TypeOK, WorkerPC
  <2> QED
    BY <1>3, <2>1, ClaimAfter DEF Interrupt, WorkerEffect
<1>4. CASE LeaseBeat(w)
  <2> DEFINE j == wk[w].job
             r == [row[j] EXCEPT !.fresh = TRUE]
  <2>1. j \in Jobs /\ row[j] \in Row /\ Holds(w) /\ row[j].owner = w
    BY <1>4, ClaimedRowIsRow DEF LeaseBeat, Owns
  <2>2. r \in Row /\ r.owner = w /\ r.attempt = row[j].attempt
        /\ r.cmd = row[j].cmd /\ r.ver = row[j].ver /\ r.status = row[j].status
    BY <2>1 DEF Row
  <2>3. row' = [row EXCEPT ![j] = r]
    BY <1>4 DEF LeaseBeat
  <2> HIDE DEF r
  <2>4. OwnedWrite(w)
    BY <2>1, <2>2, <2>3, RowWriteIsOwned
  <2> QED
    BY <1>4, <2>4 DEF LeaseBeat, WorkerEffect
<1> QED
  BY <1>1, <1>2, <1>3, <1>4, WorkerStepEffect DEF Own

\* Every step is one or the other.
LEMMA StepSplit ==
    ASSUME Shape, WaitingIsUnowned, Next
    PROVE  Backstage \/ Frontstage
<1>1. CASE \E w \in Workers : Own(w)
  BY <1>1, OwnEffect DEF Backstage
<1> QED
  BY <1>1 DEF Next, Own, Backstage, Frontstage

\* Handlers leave the workers alone.
LEMMA FrontstageKeepsWorkers == Frontstage => UNCHANGED wk
BY DEF Frontstage, Request, CreateLayout, Dispatch, FinalizeDelete, ApiCrash,
       ApiStep, InsertRow, SubmitRequest, RefuseRequest, DeleteChecksOwner,
       MarkDeletePending, DeleteChecksStatus, FinalizeChecksOwner,
       FinalizeChecksStatus, RemoveWorkspace, WorkspaceBusy, DeleteRow

\* The columns of a fresh row.
LEMMA NewRowFields ==
    ASSUME NEW s
    PROVE  /\ NewRow(s).status = s /\ NewRow(s).owner = None
           /\ NewRow(s).attempt = 0 /\ NewRow(s).cmd = "none"
           /\ NewRow(s).ver = 0 /\ NewRow(s).ack = 0
BY DEF NewRow

-----------------------------------------------------------------------------
(* Each part of the invariant is preserved.                                *)

\* Whoever puts a job back into waiting also clears its owner, and only a claim
\* sets an owner again.
LEMMA WaitingIsUnownedStep ==
    ASSUME Shape, WaitingIsUnowned, HandlerKnows, Next
    PROVE  WaitingIsUnowned'
<1> SUFFICES ASSUME NEW i \in Jobs,
                    row'[i].status \in {"queued", "interrupted", "absent", "gone"}
             PROVE  row'[i].owner = None
  BY DEF WaitingIsUnowned
<1>1. row[i].status \in {"queued", "interrupted", "absent", "gone"}
         => row[i].owner = None
  BY DEF WaitingIsUnowned
<1>2. CASE Backstage
  <2>1. \A w \in Workers : w # None
    BY ParameterAssumption
  <2> QED
    BY <1>1, <1>2, <2>1, BackstageRow
       DEF Swept, Claimed, Written, Aged, SameClaim
<1>3. CASE Frontstage
  BY <1>1, <1>3, FrontstageRow, NewRowFields
     DEF Inserted, Posted, Recovered, Deleted, Aged, SameClaim
<1> QED
  BY <1>2, <1>3, StepSplit

\* The life of a row: it is inserted queued and deleted in a terminal status.
Edges == Allowed \cup {<<"absent", "queued">>} \cup (Terminal \X {"gone"})

\* What happens to a status: it stays, or takes an edge of the lifecycle; a
\* worker process or time only takes the transitions of the state machine.
LEMMA StatusStep ==
    ASSUME Shape, WaitingIsUnowned, HandlerKnows, Next, NEW i \in Jobs
    PROVE  /\ row'[i].status = row[i].status
              \/ <<row[i].status, row'[i].status>> \in Edges
           /\ Backstage => row'[i].status = row[i].status
                              \/ <<row[i].status, row'[i].status>> \in Allowed
<1>1. CASE Backstage
  <2>1. Claimable(i) => row[i].status \in {"queued", "paused"}
    BY DEF Claimable
  <2>2. row'[i].status = row[i].status
           \/ <<row[i].status, row'[i].status>> \in Allowed
    BY <1>1, <2>1, BackstageRow DEF Swept, Claimed, Written, Aged, Allowed
  <2> QED
    BY <2>2 DEF Edges
<1>2. CASE Frontstage /\ ~Backstage
  <2>1. ASSUME Posted(i)
        PROVE  row'[i].status = row[i].status
                  \/ <<row[i].status, row'[i].status>> \in Edges
    BY <2>1 DEF Posted, Active, Edges, Allowed
  <2>2. ASSUME Inserted(i) \/ Recovered(i) \/ Deleted(i)
        PROVE  <<row[i].status, row'[i].status>> \in Edges
    BY <2>2, NewRowFields DEF Inserted, Recovered, Deleted, Edges, Allowed
  <2> QED
    BY <1>2, <2>1, <2>2, FrontstageRow DEF Aged
<1> QED
  BY <1>1, <1>2, StepSplit

\* What happens to a claim: it is kept, dropped or new.
LEMMA ClaimStep ==
    ASSUME Shape, WaitingIsUnowned, Next, NEW w \in Workers
    PROVE  \/ wk'[w].job = wk[w].job /\ wk'[w].attempt = wk[w].attempt
           \/ wk'[w].job = 0
           \/ ~Holds(w) /\ \E i \in Jobs : Claimed(w, i)
<1>1. ASSUME NEW v \in Workers, SweepStale(v)
      PROVE  \/ wk'[w].job = wk[w].job /\ wk'[w].attempt = wk[w].attempt
             \/ wk'[w].job = 0
  BY <1>1, IdleShape DEF SweepStale, Become, Shape, TypeOK, WorkerPC
<1>2. ASSUME NEW v \in Workers, ClaimNext(v), v # w
      PROVE  wk'[w] = wk[w]
  BY <1>2 DEF ClaimNext, Become, Shape, TypeOK
<1>3. ASSUME ClaimNext(w)
      PROVE  ~Holds(w) /\ \E i \in Jobs : Claimed(w, i)
  <2>1. ~Holds(w)
    BY <1>3 DEF ClaimNext, Shape, ClaimsNameJobs
  <2>2. PICK i \in Jobs : /\ Claimable(i)
                          /\ row' = [row EXCEPT ![i] = ClaimedRow(w, i)]
                          /\ Become(w, [Idle("start") EXCEPT !.job = i,
                                          !.attempt = ClaimedRow(w, i).attempt])
    BY <1>3 DEF ClaimNext
  <2>3. row[i] \in Row /\ row'[i] = ClaimedRow(w, i)
    BY <2>2 DEF Shape, TypeOK
  <2>4. /\ ClaimedRow(w, i).status = "running" /\ ClaimedRow(w, i).owner = w
        /\ ClaimedRow(w, i).attempt = row[i].attempt + 1
        /\ ClaimedRow(w, i).cmd = row[i].cmd /\ ClaimedRow(w, i).ver = row[i].ver
    BY <2>3 DEF ClaimedRow, Row
  <2>5. wk'[w].job = i /\ wk'[w].attempt = ClaimedRow(w, i).attempt
    <3>1. Idle("start") \in Local
      BY IdleShape DEF WorkerPC
    <3>2. wk'[w] = [Idle("start") EXCEPT !.job = i,
                                !.attempt = ClaimedRow(w, i).attempt]
      BY <2>2 DEF Become, Shape, TypeOK
    <3> QED
      BY <3>1, <3>2 DEF Local
  <2>6. Claimed(w, i)
    BY <1>3, <2>2, <2>3, <2>4, <2>5 DEF Claimed, SameRequest
  <2> QED
    BY <2>1, <2>6
<1>4. ASSUME NEW v \in Workers, WorkerEffect(v)
      PROVE  \/ wk'[w].job = wk[w].job /\ wk'[w].attempt = wk[w].attempt
             \/ wk'[w].job = 0
  BY <1>4 DEF WorkerEffect
<1>5. ASSUME NEW j \in Jobs, Lapse(j) PROVE wk' = wk
  BY <1>5 DEF Lapse
<1>6. CASE Backstage
  BY <1>1, <1>2, <1>3, <1>4, <1>5, <1>6 DEF Backstage
<1>7. CASE Frontstage
  BY <1>7, FrontstageKeepsWorkers
<1> QED
  BY <1>6, <1>7, StepSplit

\* The attempt in the row of a job that is still there never falls, and the
\* owner changes only by giving up or by a claim, which counts the attempt.
LEMMA AttemptStep ==
    ASSUME Shape, WaitingIsUnowned, HandlerKnows, Next, NEW i \in Jobs
    PROVE  \/ /\ row'[i].attempt = row[i].attempt
              /\ row'[i].owner \in {row[i].owner, None}
           \/ /\ row[i].status \in {"absent"} \cup Terminal
              /\ row'[i].owner = None
           \/ \E w \in Workers : Claimed(w, i)
<1>1. CASE Backstage
  BY <1>1, BackstageRow DEF Swept, Written, Aged, SameClaim
<1>2. CASE Frontstage
  BY <1>2, FrontstageRow, NewRowFields
     DEF Inserted, Posted, Recovered, Deleted, Aged, SameClaim
<1> QED
  BY <1>1, <1>2, StepSplit

\* A claim writes the owner and counts the attempt in one transaction, so a
\* worker that reads its name in the row works under the attempt in the row.
LEMMA OwnerIsCurrentStep ==
    ASSUME Shape, WaitingIsUnowned, HandlerKnows, OwnerIsCurrent, Next
    PROVE  OwnerIsCurrent'
<1> SUFFICES ASSUME NEW w \in Workers, wk'[w].job # 0,
                    row'[wk'[w].job].owner = w
             PROVE  row'[wk'[w].job].attempt = wk'[w].attempt
  BY DEF OwnerIsCurrent, Holds
<1> DEFINE i == wk'[w].job
<1>0. i \in Jobs /\ w # None
  BY NextShape, ParameterAssumption DEF Shape, TypeOK, Local, Jobs
<1>1. CASE \E k \in Jobs : Claimed(w, k)
  BY <1>1 DEF Claimed
<1>2. CASE wk'[w].job = wk[w].job /\ wk'[w].attempt = wk[w].attempt
  <2>1. \A v \in Workers : Claimed(v, i) => row'[i].owner = v /\ wk'[v].attempt = row'[i].attempt
    BY DEF Claimed
  <2>2. \/ row'[i].attempt = row[i].attempt /\ row[i].owner = w
        \/ row'[i].attempt = wk'[w].attempt
    BY <1>0, <2>1, AttemptStep
  <2> QED
    BY <1>0, <1>2, <2>2 DEF OwnerIsCurrent, Holds
<1> QED
  BY <1>1, <1>2, ClaimStep

\* A row that was claimed may be deleted but never becomes uninserted.
LEMMA ClaimedWasInsertedStep ==
    ASSUME Shape, WaitingIsUnowned, HandlerKnows, ClaimedWasInserted, Next
    PROVE  ClaimedWasInserted'
<1> SUFFICES ASSUME NEW w \in Workers, wk'[w].job # 0
             PROVE  row'[wk'[w].job].status # "absent"
  BY DEF ClaimedWasInserted, Holds
<1>0. wk'[w].job \in Jobs
  BY NextShape DEF Shape, TypeOK, Local, Jobs
<1>1. CASE \E k \in Jobs : Claimed(w, k)
  BY <1>1 DEF Claimed
<1>2. CASE wk'[w].job = wk[w].job
  <2>1. row[wk[w].job].status # "absent"
    BY <1>2 DEF ClaimedWasInserted, Holds
  <2>2. \A s : <<s, "absent">> \notin Edges
    BY DEF Edges, Allowed, Terminal
  <2> QED
    BY <1>0, <1>2, <2>1, <2>2, StatusStep
<1> QED
  BY <1>1, <1>2, ClaimStep

\* A new claim takes an attempt above every attempt claimed before.
LEMMA ClaimsAreDistinctStep ==
    ASSUME Shape, WaitingIsUnowned, HandlerKnows, ClaimedWasInserted,
           ClaimsAreDistinct, Next
    PROVE  ClaimsAreDistinct'
<1>0. Shape'
  BY NextShape
<1>1. \A w \in Workers : wk[w].attempt \in Nat /\ wk'[w].attempt \in Nat
  BY <1>0 DEF Shape, TypeOK, Local
<1>2. \A i \in Jobs : row[i].attempt \in Nat /\ row'[i].attempt \in Nat
  BY <1>0 DEF Shape, TypeOK, Row
<1>3. ASSUME NEW w \in Workers, Holds(w)
      PROVE  wk[w].job \in Jobs
             /\ (wk[w].attempt <= row[wk[w].job].attempt
                    \/ row[wk[w].job].status = "gone")
  <2>1. wk[w].job \in Jobs
    BY <1>3 DEF Shape, TypeOK, Local, Holds, Jobs
  <2>2. row[wk[w].job].status \in RowStates \ {"absent"}
    BY <1>3, <2>1, RowsAreRows DEF ClaimedWasInserted
  <2> QED
    BY <1>3, <2>1, <2>2 DEF ClaimsAreDistinct, Exists, RowStates
<1>4. ASSUME NEW w \in Workers, wk'[w].job # 0
      PROVE  wk'[w].attempt <= row'[wk'[w].job].attempt
                \/ row'[wk'[w].job].status = "gone"
  <2> DEFINE i == wk'[w].job
  <2>0. i \in Jobs
    BY <1>0, <1>4 DEF Shape, TypeOK, Local, Jobs
  <2>1. CASE \E k \in Jobs : Claimed(w, k)
    BY <1>2, <2>0, <2>1 DEF Claimed
  <2>2. CASE wk'[w].job = wk[w].job /\ wk'[w].attempt = wk[w].attempt
    <3>1. Holds(w)
      BY <1>4, <2>2 DEF Holds
    <3>2. CASE row[i].status = "gone"
      <4>1. \A s : <<"gone", s>> \notin Edges
        BY DEF Edges, Allowed, Terminal
      <4> QED
        BY <2>0, <3>2, <4>1, StatusStep
    <3>3. CASE row'[i].attempt = row[i].attempt
      BY <1>3, <2>2, <3>1, <3>2, <3>3
    <3>4. CASE \E v \in Workers : Claimed(v, i)
      <4>1. row'[i].attempt = row[i].attempt + 1
        BY <3>4 DEF Claimed
      <4> QED
        BY <1>1, <1>2, <1>3, <2>0, <2>2, <3>1, <3>2, <4>1
    <3>5. CASE row[i].status \in Terminal /\ row'[i].attempt # row[i].attempt
      <4>1. CASE Frontstage
        <5>1. row'[i].status = "gone"
          BY <2>0, <3>5, <4>1, FrontstageRow, NewRowFields
             DEF Inserted, Posted, Recovered, Deleted, Aged, SameClaim, Terminal
        <5> QED
          BY <5>1
      <4>2. CASE Backstage
        BY <2>0, <3>4, <3>5, <4>2, BackstageRow
           DEF Swept, Written, Aged, SameClaim
      <4> QED
        BY <4>1, <4>2, StepSplit
    <3> QED
      BY <2>0, <2>2, <3>1, <3>3, <3>4, <3>5, AttemptStep DEF ClaimedWasInserted
  <2> QED
    BY <1>4, <2>1, <2>2, ClaimStep
<1>5. ASSUME NEW v \in Workers, NEW w \in Workers, v # w,
             wk'[w].job # 0, wk'[v].job = wk'[w].job
      PROVE  wk'[v].attempt # wk'[w].attempt
  <2> DEFINE i == wk'[w].job
  <2>1. i \in Jobs
    BY <1>0, <1>5 DEF Shape, TypeOK, Local, Jobs
  <2>2. ASSUME NEW x \in Workers, NEW y \in Workers, x # y,
               Claimed(x, i), wk'[x].job = i, wk'[y].job = i
        PROVE  wk'[y].attempt # wk'[x].attempt
    <3>1. ~Claimed(y, i)
      BY <2>2 DEF Claimed
    <3>2. \A k \in Jobs : Claimed(y, k) => k = i
      BY <2>2 DEF Claimed
    <3>3. wk'[y].job = wk[y].job /\ wk'[y].attempt = wk[y].attempt
      BY <1>5, <2>2, <3>1, <3>2, ClaimStep
    <3>4. row[i].status # "gone"
      BY <2>2 DEF Claimed, Claimable
    <3>5. wk[y].attempt <= row[i].attempt
      BY <1>3, <1>5, <2>2, <3>3, <3>4 DEF Holds
    <3>6. wk'[x].attempt = row[i].attempt + 1
      BY <2>2 DEF Claimed
    <3> QED
      BY <1>1, <1>2, <2>1, <3>3, <3>5, <3>6
  <2>3. \A x \in Workers, k \in Jobs : Claimed(x, k) => wk'[x].job = k
    BY DEF Claimed
  <2>4. CASE Claimed(w, i) \/ Claimed(v, i)
    BY <1>5, <2>2, <2>4
  <2>5. CASE ~Claimed(w, i) /\ ~Claimed(v, i)
    <3>1. /\ wk'[w].job = wk[w].job /\ wk'[w].attempt = wk[w].attempt
          /\ wk'[v].job = wk[v].job /\ wk'[v].attempt = wk[v].attempt
      BY <1>5, <2>3, <2>5, ClaimStep
    <3> QED
      BY <1>5, <3>1 DEF ClaimsAreDistinct, Holds
  <2> QED
    BY <2>4, <2>5
<1>6. ASSUME NEW w \in Workers, wk'[w].job # 0
      PROVE  wk'[w].attempt <= row'[wk'[w].job].attempt
                \/ row'[wk'[w].job].status \notin Statuses
  BY <1>4, <1>6 DEF Statuses
<1> QED
  BY <1>5, <1>6 DEF ClaimsAreDistinct, Holds, Exists

\* A job is queued by its insertion or by a recovery, whose command is a
\* resume; a cancel of a queued job makes it cancelled in the same commit.
LEMMA QueueWasNotCancelledStep ==
    ASSUME Shape, WaitingIsUnowned, HandlerKnows, QueueWasNotCancelled, Next
    PROVE  QueueWasNotCancelled'
<1> SUFFICES ASSUME NEW i \in Jobs, row'[i].status = "queued"
             PROVE  row'[i].cmd # "cancel"
  BY DEF QueueWasNotCancelled
<1>1. row[i].status = "queued" => row[i].cmd # "cancel" /\ row[i].owner = None
  BY DEF QueueWasNotCancelled, WaitingIsUnowned
<1>2. CASE Backstage
  BY <1>1, <1>2, BackstageRow
     DEF Swept, Claimed, Written, Aged, SameRequest, Allowed
<1>3. CASE Frontstage
  BY <1>1, <1>3, FrontstageRow, NewRowFields
     DEF Inserted, Posted, Recovered, Deleted, Aged, SameRequest
<1> QED
  BY <1>2, <1>3, StepSplit

\* The queue therefore holds no open cancel.
LEMMA QueueIsClaimable == QueueWasNotCancelled => QueueHasNoCancelled
BY DEF QueueWasNotCancelled, QueueHasNoCancelled, PendingCommand

\* Workers and time leave the handler alone and remove no directory.
LEMMA BackstageKeepsHandler ==
    ASSUME Shape, Backstage
    PROVE  UNCHANGED api /\ \A i \in Jobs : ws[i] => ws'[i]
<1>1. ASSUME NEW w \in Workers, WorkerEffect(w)
      PROVE  UNCHANGED api /\ \A i \in Jobs : ws[i] => ws'[i]
  BY <1>1 DEF WorkerEffect, TouchWorkspace, Shape, TypeOK
<1> QED
  BY <1>1 DEF Backstage, SweepStale, ClaimNext, Lapse

\* A handler that moves on keeps what it read.
LEMMA ApiAtFields ==
    ASSUME api \in ApiLocal, NEW pc
    PROVE  /\ ApiAt(pc).pc = pc /\ ApiAt(pc).job = api.job
           /\ ApiAt(pc).cmd = api.cmd /\ ApiAt(pc).status = api.status
           /\ ApiIdle.pc = "idle"
BY DEF ApiAt, ApiIdle, ApiLocal

\* Between two transactions of a handler the workers may change the row, but
\* what the handler relies on survives: a job that was not inserted stays so,
\* and a terminal status is left by nobody but the handler itself.
LEMMA HandlerKnowsStep ==
    ASSUME Shape, WaitingIsUnowned, HandlerKnows, Next
    PROVE  HandlerKnows'
<1>0. api \in ApiLocal /\ row \in [Jobs -> Row] /\ ws \in [Jobs -> BOOLEAN]
  BY DEF Shape, TypeOK
<1>1. CASE Backstage
  <2>1. api' = api /\ \A i \in Jobs : ws[i] => ws'[i]
    BY <1>1, BackstageKeepsHandler
  <2>2. CASE api.pc = "idle"
    BY <2>1, <2>2 DEF HandlerKnows
  <2>3. CASE api.pc # "idle"
    <3>1. api.job \in Jobs
      BY <1>0, <2>3 DEF Shape, HandlersNameJobs, ApiLocal, Jobs
    <3>2. row'[api.job].status = row[api.job].status
            \/ <<row[api.job].status, row'[api.job].status>> \in Allowed
      BY <1>1, <3>1, StatusStep
    <3>3. /\ row[api.job].status = "absent" => row'[api.job].status = "absent"
          /\ row[api.job].status \in Statuses => row'[api.job].status \in Statuses
          /\ row[api.job].status \in Terminal => row'[api.job].status \in Terminal
      BY <3>2 DEF Allowed, Statuses, Terminal
    <3> QED
      BY <2>1, <3>1, <3>3 DEF HandlerKnows, Exists
  <2> QED
    BY <2>2, <2>3
<1>2. CASE Frontstage
  <2>1. CASE api'.pc = "idle"
    BY <2>1 DEF HandlerKnows
  <2>2. ASSUME NEW j \in Jobs, CreateLayout(j)
        PROVE  HandlerKnows'
    BY <1>0, <2>2 DEF CreateLayout, Handler, HandlerKnows
  <2>3. ASSUME NEW j \in Jobs, NEW c, Dispatch(j, c)
        PROVE  HandlerKnows'
    <3>1. row' = row /\ api'.job = j /\ api'.cmd = c
          /\ api'.status = row[j].status /\ api'.pc \in {"request", "owner"}
          /\ (api'.pc = "request" => row[j].status \in Active)
          /\ Exists(j) /\ Decides(c, row[j].status)
      BY <2>3 DEF Dispatch, Handler
    <3> QED
      BY <3>1 DEF HandlerKnows, Exists, Decides
  <2>4. ASSUME NEW j \in Jobs, FinalizeDelete(j)
        PROVE  HandlerKnows'
    <3>1. row' = row /\ api'.job = j /\ api'.pc = "pendingOwner" /\ Exists(j)
      BY <2>4 DEF FinalizeDelete, Handler
    <3> QED
      BY <3>1 DEF HandlerKnows, Exists
  <2>5. CASE SubmitRequest /\ api'.pc # "idle"
    <3>1. api'.pc = "owner" /\ api'.job = api.job /\ api'.status = api.status
          /\ api.status \in Active /\ Exists(api.job) /\ api.job \in Jobs
      BY <1>0, <2>5, ApiAtFields
         DEF SubmitRequest, HandlerKnows, Shape, HandlersNameJobs, ApiLocal, Jobs
    <3>2. row[api.job].status \in Statuses
      BY <3>1 DEF Exists
    <3>3. row'[api.job].status \in Statuses
      BY <1>2, <2>5, <3>1, <3>2, FrontstageRow
         DEF Inserted, Posted, Recovered, Deleted, Aged, SubmitRequest,
             Statuses, Unchanged, Active, Terminal
    <3>4. api.status \notin Terminal
      BY <3>1 DEF Active, Terminal
    <3> QED
      BY <3>1, <3>3, <3>4 DEF HandlerKnows, Exists
  <2>6. CASE row' = row /\ api'.pc \in {"mark", "latest", "pendingStatus"}
             /\ api'.job = api.job /\ api'.status = api.status
             /\ api.pc \in {"owner", "pendingOwner", "cleanup"}
             /\ (api'.pc = "latest" => api.pc = "owner")
    BY <2>6 DEF HandlerKnows, Exists
  <2>7. CASE row' = row /\ api'.pc \in {"cleanup", "delete"}
             /\ api'.job = api.job
             /\ row[api.job].status \in Terminal
    BY <2>7 DEF HandlerKnows, Exists, Terminal, Statuses
  <2>8. CASE DeleteChecksOwner
    BY <1>0, <2>6, <2>8, ApiAtFields DEF DeleteChecksOwner
  <2>9. CASE DeleteChecksStatus
    <3>1. api.pc = "latest"
          /\ (api.status \in Terminal => row[api.job].status \in Terminal)
      BY <2>9 DEF DeleteChecksStatus, HandlerKnows
    <3>2. "cancelled" \in Terminal
      BY DEF Terminal
    <3> QED
      BY <1>0, <2>1, <2>7, <2>9, <3>1, <3>2, ApiAtFields DEF DeleteChecksStatus
  <2>10. CASE FinalizeChecksOwner
    BY <1>0, <2>1, <2>6, <2>10, ApiAtFields DEF FinalizeChecksOwner
  <2>11. CASE FinalizeChecksStatus
    BY <1>0, <2>1, <2>7, <2>11, ApiAtFields DEF FinalizeChecksStatus
  <2>12. CASE RemoveWorkspace
    BY <1>0, <2>7, <2>12, ApiAtFields DEF RemoveWorkspace, HandlerKnows
  <2>13. CASE WorkspaceBusy
    BY <1>0, <2>1, <2>6, <2>13, ApiAtFields DEF WorkspaceBusy
  <2>14. CASE InsertRow \/ RefuseRequest \/ MarkDeletePending \/ DeleteRow
              \/ ApiCrash
    BY <1>0, <2>1, <2>14, ApiAtFields
       DEF InsertRow, RefuseRequest, MarkDeletePending, DeleteRow, ApiCrash
  <2> QED
    BY <1>2, <2>1, <2>2, <2>3, <2>4, <2>5, <2>8, <2>9, <2>10, <2>11, <2>12,
       <2>13, <2>14 DEF Frontstage, Request, ApiStep
<1> QED
  BY <1>1, <1>2, StepSplit

\* The directory of an active job is there: the handler that removes it saw a
\* terminal status that nobody leaves, and the one that inserts the row made
\* the directory first.
LEMMA ActiveHasWorkspaceStep ==
    ASSUME Shape, WaitingIsUnowned, HandlerKnows, ActiveHasWorkspace, Next
    PROVE  ActiveHasWorkspace'
<1> SUFFICES ASSUME NEW i \in Jobs, row'[i].status \in Active
             PROVE  ws'[i]
  BY DEF ActiveHasWorkspace
<1>0. ws \in [Jobs -> BOOLEAN] /\ (row[i].status \in Active => ws[i])
  BY DEF Shape, TypeOK, ActiveHasWorkspace
<1>1. CASE Backstage
  <2>1. row'[i].status = row[i].status
          \/ <<row[i].status, row'[i].status>> \in Allowed
    BY <1>1, StatusStep
  <2>2. row[i].status \in Active
    BY <2>1 DEF Allowed, Active
  <2> QED
    BY <1>0, <1>1, <2>2, BackstageKeepsHandler
<1>2. CASE Frontstage
  <2>1. row[i].status \in Active \/ Inserted(i)
    BY <1>2, FrontstageRow, NewRowFields
       DEF Posted, Recovered, Deleted, Aged, Active
  <2>2. ws[i]
    BY <1>0, <2>1 DEF Inserted, HandlerKnows
  <2>3. CASE RemoveWorkspace
    <3>1. row[api.job].status \in Terminal /\ row' = row
          /\ ws' = [ws EXCEPT ![api.job] = FALSE]
      BY <2>3 DEF RemoveWorkspace, HandlerKnows
    <3>2. i # api.job
      BY <3>1 DEF Active, Terminal
    <3> QED
      BY <1>0, <2>2, <3>1, <3>2
  <2>4. CASE ~RemoveWorkspace
    BY <1>0, <1>2, <2>2, <2>4
       DEF Frontstage, Request, CreateLayout, Dispatch, FinalizeDelete, ApiCrash,
           ApiStep, InsertRow, SubmitRequest, RefuseRequest, DeleteChecksOwner,
           MarkDeletePending, DeleteChecksStatus, FinalizeChecksOwner,
           FinalizeChecksStatus, WorkspaceBusy, DeleteRow
  <2> QED
    BY <2>3, <2>4
<1> QED
  BY <1>1, <1>2, StepSplit

\* The program counters of an attempt whose outcome is written.
Ends == {"signal", "log", "failure", "release", "quit"}
Resting == {"down", "poll", "claim"}

\* What one process does to its row and where it goes: it rests, claims, ends
\* its attempt, or goes on with a row whose status is as it was or running.
LEMMA OwnMove ==
    ASSUME Shape, NEW w \in Workers, Own(w)
    PROVE  \/ wk'[w].pc \in Resting \cup Ends
           \/ ClaimNext(w) /\ wk'[w].pc = "start"
           \/ /\ wk[w].pc \notin Ends \cup Resting
              /\ row'[wk[w].job].status \in {row[wk[w].job].status, "running"}
              /\ \/ /\ wk'[w] = wk[w] /\ Owns(w)
                    /\ row'[wk[w].job] = [row[wk[w].job] EXCEPT !.fresh = TRUE]
                 \/ SafetyRead(w)
                 \/ StageRaises(w)
                 \/ /\ wk[w].pc = "beat" /\ Owns(w)
                    /\ wk[w].cmd \notin {"pause", "cancel"}
                    /\ wk'[w].pc = Pass(w).pc /\ wk'[w].point = Pass(w).point
                 \/ wk'[w].pc = "read" /\ wk'[w].point # "control"
                 \/ wk'[w].pc \notin {"read", "beat", "fail"}
<1> DEFINE j == wk[w].job
           Go(l) == wk'[w] = l
<1>1. wk \in [Workers -> Local] /\ row \in [Jobs -> Row]
  BY DEF Shape, TypeOK
<1>2. wk[w].pc \notin Resting => j \in Jobs /\ row[j] \in Row
  BY ClaimedRowIsRow DEF Resting
<1>3. \A l : Become(w, l) => Go(l)
  BY <1>1 DEF Become
<1>4. \A pc \in WorkerPC : At(w, pc).pc = pc
  BY <1>1, AtShape
<1>5. \A k \in 0..NumStages, point \in SafetyPoints :
         Safety(w, k, point).pc = "read" /\ Safety(w, k, point).point = point
  BY <1>1, SafetyShape
<1>6. \A pc \in WorkerPC : Idle(pc).pc = pc
  BY IdleShape
<1>7. WorkerPC = Resting \cup Ends \cup {"start", "read", "beat", "ack", "apply",
                  "begin", "stage", "progress", "fail", "succeed"}
  BY DEF WorkerPC, Resting, Ends
<1>8. wk[w].k \in 0..NumStages /\ 1 \in 0..NumStages
  BY <1>1, ParameterAssumption DEF Local
<1>9. {"before", "after", "control", "error"} \subseteq SafetyPoints
  BY DEF SafetyPoints
<1>10. CASE Launch(w) \/ SweepStale(w) \/ ClaimNothing(w) \/ Crash(w) \/ Release(w)
  BY <1>3, <1>6, <1>7, <1>10
     DEF Launch, SweepStale, ClaimNothing, Crash, Release, Resting
<1>11. CASE Interrupt(w)
  BY <1>3, <1>4, <1>7, <1>11 DEF Interrupt, Ends
<1>12. CASE LeaseBeat(w)
  <2>1. row' = [row EXCEPT ![j].fresh = TRUE] /\ wk' = wk /\ Owns(w)
        /\ wk[w].pc \notin Resting
    BY <1>12 DEF LeaseBeat, Resting
  <2>2. row'[j] = [row[j] EXCEPT !.fresh = TRUE]
    BY <1>1, <1>2, <2>1
  <2>3. row'[j].status = row[j].status
    BY <1>2, <2>1, <2>2 DEF Row
  <2> QED
    BY <2>1, <2>2, <2>3
<1>13. CASE ClaimNext(w)
  <2>1. PICK i \in Jobs :
           Become(w, [Idle("start") EXCEPT !.job = i,
                                           !.attempt = ClaimedRow(w, i).attempt])
    BY <1>13 DEF ClaimNext
  <2>2. Idle("start") \in Local /\ Idle("start").pc = "start"
    BY <1>7, IdleShape
  <2>3. [Idle("start") EXCEPT !.job = i,
                             !.attempt = ClaimedRow(w, i).attempt].pc = "start"
    BY <2>2 DEF Local
  <2> QED
    BY <1>3, <1>13, <2>1, <2>3
<1>14. ASSUME SetJobStatus(w, "running", Safety(w, 1, "before"), At(w, "failure"))
              \/ SetJobStatus(w, "running", At(w, "stage"), At(w, "release")),
              wk[w].pc \notin Resting \cup Ends
       PROVE  /\ row'[j].status \in {row[j].status, "running"}
              /\ \/ wk'[w].pc \in Ends \cup {"stage"}
                 \/ wk'[w].pc = "read" /\ wk'[w].point # "control"
  <2>1. row'[j].status \in {row[j].status, "running"}
    <3>1. row' = row \/ row' = [row EXCEPT ![j].status = "running", ![j].sv = @ + 1]
      BY <1>14, SetJobStatusEffect
    <3>2. j \in Jobs /\ row[j] \in Row
      BY <1>2, <1>14
    <3> QED
      BY <1>1, <3>1, <3>2 DEF Row
  <2>2. \/ Become(w, Safety(w, 1, "before")) \/ Become(w, At(w, "failure"))
        \/ Become(w, At(w, "stage")) \/ Become(w, At(w, "release"))
    BY <1>14, SetJobStatusEffect
  <2>3. {"failure", "release"} \subseteq Ends /\ {"failure", "release", "stage"} \subseteq WorkerPC
    BY DEF Ends, WorkerPC
  <2>4. Safety(w, 1, "before").pc = "read" /\ Safety(w, 1, "before").point = "before"
    BY <1>5, <1>8, <1>9
  <2> QED
    BY <1>3, <1>4, <2>1, <2>2, <2>3, <2>4
<1>15. CASE LoadConfig(w)
  <2>1. wk[w].pc \notin Resting \cup Ends
    BY <1>15 DEF LoadConfig, Resting, Ends
  <2>2. CASE SetJobStatus(w, "running", Safety(w, 1, "before"), At(w, "failure"))
    BY <1>14, <2>1, <2>2
  <2>3. CASE Become(w, Safety(w, 1, "before")) /\ UNCHANGED row
    BY <1>3, <1>5, <1>8, <1>9, <2>1, <2>3
  <2>4. CASE Become(w, At(w, "failure"))
    BY <1>3, <1>4, <1>7, <2>4 DEF Ends
  <2> QED
    BY <1>15, <2>2, <2>3, <2>4 DEF LoadConfig
<1>16. CASE SafetyRead(w)
  BY <1>16 DEF SafetyRead, Resting, Ends
<1>17. CASE SafetyBeat(w)
  <2>1. CASE Become(w, At(w, "ack")) \/ Become(w, At(w, "release"))
    <3>1. wk'[w].pc \in {"ack", "release"}
      BY <1>3, <1>4, <2>1 DEF WorkerPC
    <3>2. wk'[w].pc = "ack" => row'[j].status = row[j].status
      <4>1. row' = row \/ row' = [row EXCEPT ![j].fresh = TRUE]
        BY <1>17 DEF SafetyBeat
      <4> QED
        BY <1>1, <1>2, <1>17, <4>1 DEF Row, SafetyBeat, Resting
    <3> QED
      BY <1>17, <3>1, <3>2 DEF SafetyBeat, Resting, Ends
  <2>2. CASE /\ Owns(w) /\ wk[w].cmd \notin {"pause", "cancel"}
             /\ row' = [row EXCEPT ![j].fresh = TRUE]
             /\ Become(w, [Pass(w) EXCEPT !.cmd = "none", !.ver = 0])
    <3>1. wk[w].pc = "beat" /\ wk[w].pc \notin Resting \cup Ends
      BY <1>17 DEF SafetyBeat, Resting, Ends
    <3>2. row'[j].status = row[j].status
      BY <1>1, <1>2, <2>2, <3>1 DEF Row
    <3>3. Pass(w) \in Local
      BY <1>1, PassShape
    <3>4. wk'[w].pc = Pass(w).pc /\ wk'[w].point = Pass(w).point
      BY <1>3, <2>2, <3>3 DEF Local
    <3> QED
      BY <2>2, <3>1, <3>2, <3>4
  <2> QED
    BY <1>17, <2>1, <2>2 DEF SafetyBeat
<1>18. CASE AckControl(w)
  <2>1. wk[w].pc = "ack" /\ wk'[w].pc = "apply"
    BY <1>3, <1>4, <1>7, <1>18 DEF AckControl
  <2>2. row'[j].status = row[j].status
    <3>1. row' = row \/ row' = [row EXCEPT ![j].ack = wk[w].ver]
      BY <1>18 DEF AckControl
    <3>2. j \in Jobs /\ row[j] \in Row
      BY <1>2, <2>1 DEF Resting
    <3> QED
      BY <1>1, <3>1, <3>2 DEF Row
  <2> QED
    BY <2>1, <2>2 DEF Resting, Ends
<1>19. CASE ApplyControl(w) \/ HandleSignal(w) \/ RecordFailure(w)
            \/ LogFailure(w) \/ Succeed(w)
  <2>1. Become(w, At(w, "signal")) \/ Become(w, At(w, "release"))
        \/ Become(w, At(w, "log")) \/ Become(w, At(w, "failure"))
    BY <1>19, SetJobStatusEffect
       DEF ApplyControl, HandleSignal, RecordFailure, LogFailure, Succeed
  <2> QED
    BY <1>3, <1>4, <1>7, <2>1 DEF Ends
<1>20. CASE BeginStage(w)
  <2>1. wk[w].pc \notin Resting \cup Ends
    BY <1>20 DEF BeginStage, Resting, Ends
  <2>2. SetJobStatus(w, "running", At(w, "stage"), At(w, "release"))
    BY <1>20 DEF BeginStage
  <2> QED
    BY <1>14, <2>1, <2>2 DEF Ends
<1>21. CASE StageSucceeds(w)
  BY <1>3, <1>4, <1>7, <1>21 DEF StageSucceeds, Resting, Ends
<1>22. CASE StageRaises(w)
  BY <1>22 DEF StageRaises, Resting, Ends
<1>23. CASE IngestCancelled(w)
  <2>1. "signal" \in WorkerPC /\ At(w, "signal") \in Local
    BY <1>1, <1>7, AtShape DEF Ends
  <2>2. [At(w, "signal") EXCEPT !.cmd = "cancel"].pc = "signal"
    BY <1>4, <2>1 DEF Local
  <2> QED
    BY <1>3, <1>23, <2>2 DEF IngestCancelled, Ends
<1>24. CASE PublishProgress(w)
  <2>1. wk[w].pc = "progress" /\ wk[w].pc \notin Resting \cup Ends
    BY <1>24 DEF PublishProgress, Resting, Ends
  <2>2. row' = row \/ row' = [row EXCEPT ![j].sv = @ + 1]
    BY <1>24 DEF PublishProgress
  <2>3. row'[j].status = row[j].status
    BY <1>1, <1>2, <2>1, <2>2 DEF Row
  <2>4. Become(w, Safety(w, wk[w].k, "after")) \/ Become(w, At(w, "release"))
    BY <1>24 DEF PublishProgress
  <2>5. (wk'[w].pc = "read" /\ wk'[w].point = "after") \/ wk'[w].pc = "release"
    BY <1>3, <1>4, <1>5, <1>7, <1>8, <1>9, <2>4 DEF Ends
  <2> QED
    BY <2>1, <2>3, <2>5 DEF Ends
<1>25. CASE HandleClaimFailure(w)
  BY <1>3, <1>4, <1>7, <1>25 DEF HandleClaimFailure, Ends
<1> QED
  BY <1>10, <1>11, <1>12, <1>13, <1>15, <1>16, <1>17, <1>18, <1>19, <1>20, <1>21,
     <1>22, <1>23, <1>24, <1>25 DEF Own, WorkerStep

\* What others do behind the back of the owner of a row, if it stays the
\* owner: they may post a request.
LEMMA OthersKeepOwned ==
    ASSUME Shape, WaitingIsUnowned, HandlerKnows, Next,
           NEW w \in Workers, ~Own(w)
    PROVE  /\ wk'[w] = wk[w]
           /\ \A i \in Jobs :
                 row[i].owner = w /\ row'[i].owner = w =>
                    /\ row'[i].status = row[i].status
                    /\ row'[i].ack = row[i].ack
                    /\ SameRequest(i) \/ Posted(i)
<1>0. row \in [Jobs -> Row] /\ wk \in [Workers -> Local] /\ w # None
  BY ParameterAssumption DEF Shape, TypeOK
<1>1. ASSUME NEW v \in Workers, v # w, Own(v)
      PROVE  /\ wk'[w] = wk[w]
             /\ \A i \in Jobs : row[i].owner = w /\ row'[i].owner = w
                                   => row'[i] = row[i]
  <2>1. CASE SweepStale(v)
    <3>1. \A i \in Jobs : row'[i] = row[i] \/ row'[i] = SweptRow(i)
      BY <2>1 DEF SweepStale
    <3>2. \A i \in Jobs : SweptRow(i).owner = None
      BY <1>0 DEF SweptRow, Row
    <3> QED
      BY <1>0, <1>1, <2>1, <3>1, <3>2 DEF SweepStale, Become
  <2>2. CASE ClaimNext(v)
    <3>1. PICK j \in Jobs : row' = [row EXCEPT ![j] = ClaimedRow(v, j)]
      BY <2>2 DEF ClaimNext
    <3>2. ClaimedRow(v, j).owner = v
      BY <1>0 DEF ClaimedRow, Row
    <3> QED
      BY <1>0, <1>1, <2>2, <3>1, <3>2 DEF ClaimNext, Become
  <2>3. CASE WorkerEffect(v)
    BY <1>0, <1>1, <2>3 DEF WorkerEffect, OwnedWrite
  <2> QED
    BY <1>1, <2>1, <2>2, <2>3, OwnEffect
<1>2. ASSUME NEW j \in Jobs, Lapse(j)
      PROVE  /\ wk'[w] = wk[w]
             /\ \A i \in Jobs : /\ row'[i].status = row[i].status
                                /\ row'[i].ack = row[i].ack
                                /\ SameRequest(i)
  <2>1. row' = [row EXCEPT ![j].fresh = FALSE]
    BY <1>2 DEF Lapse
  <2>2. \A i \in Jobs : row'[i] = row[i] \/ row'[i] = [row[i] EXCEPT !.fresh = FALSE]
    BY <1>0, <2>1
  <2> QED
    BY <1>0, <1>2, <2>2 DEF Lapse, SameRequest, Row
<1>3. CASE Frontstage
  <2>1. wk' = wk
    BY <1>3, FrontstageKeepsWorkers
  <2>2. ASSUME NEW i \in Jobs, row[i].owner = w, row'[i].owner = w
        PROVE  /\ row'[i].status = row[i].status
               /\ row'[i].ack = row[i].ack
               /\ SameRequest(i) \/ Posted(i)
    BY <1>0, <1>3, <2>2, FrontstageRow, NewRowFields
       DEF Inserted, Recovered, Deleted, Aged, Posted, SameRequest
  <2> QED
    BY <2>1, <2>2
<1> QED
  BY <1>1, <1>2, <1>3 DEF Next, Own, Frontstage, SameRequest

\* The owner after a step that is no claim of w was the owner before it.
LEMMA OwnsBefore ==
    ASSUME Shape, WaitingIsUnowned, HandlerKnows, OwnerIsCurrent, Next,
           NEW w \in Workers, ~ClaimNext(w),
           wk'[w].job # 0, row'[wk'[w].job].owner = w
    PROVE  Owns(w) /\ wk'[w].job = wk[w].job /\ wk[w].job \in Jobs
<1>0. wk'[w].job \in Jobs /\ w # None
  BY NextShape, ParameterAssumption DEF Shape, TypeOK, Local, Jobs
<1>1. wk'[w].job = wk[w].job /\ Holds(w)
  BY ClaimStep DEF Claimed, Holds
<1>2. \A v \in Workers, i \in Jobs :
        Claimed(v, i) => ClaimNext(v) /\ row'[i].owner = v
  BY DEF Claimed
<1>3. row[wk[w].job].owner = w
  BY <1>0, <1>1, <1>2, AttemptStep
<1> QED
  BY <1>0, <1>1, <1>3 DEF Owns, OwnerIsCurrent

\* An owner finds its row running until it has written the outcome: nobody
\* else moves an owned row, except to take the ownership away.
LEMMA OwnedIsRunningStep ==
    ASSUME Shape, WaitingIsUnowned, HandlerKnows, OwnerIsCurrent,
           OwnedIsRunning, Next
    PROVE  OwnedIsRunning'
<1> SUFFICES ASSUME NEW w \in Workers, wk'[w].job # 0,
                    row'[wk'[w].job].owner = w, wk'[w].pc \notin Ends
             PROVE  row'[wk'[w].job].status = "running"
  BY DEF OwnedIsRunning, Owns, Holds, Ends
<1>0. Shape' /\ wk'[w].pc \notin Resting
  BY NextShape DEF Shape, ClaimsNameJobs, Holds, Resting
<1>1. CASE ClaimNext(w)
  <2>1. wk[w].job = 0
    BY <1>1 DEF ClaimNext, Shape, ClaimsNameJobs, Holds
  <2> QED
    BY <2>1, ClaimStep DEF Claimed
<1>2. CASE ~ClaimNext(w)
  <2>1. Owns(w) /\ wk'[w].job = wk[w].job /\ wk[w].job \in Jobs
    BY <1>2, OwnsBefore
  <2>2. CASE Own(w)
    <3>1. /\ wk[w].pc \notin Ends
          /\ row'[wk[w].job].status \in {row[wk[w].job].status, "running"}
      BY <1>0, <1>2, <2>2, OwnMove
    <3> QED
      BY <2>1, <3>1 DEF OwnedIsRunning, Ends
  <2>3. CASE ~Own(w)
    <3>1. wk'[w] = wk[w]
          /\ row'[wk[w].job].status = row[wk[w].job].status
      BY <2>1, <2>3, OthersKeepOwned DEF Owns
    <3> QED
      BY <2>1, <3>1 DEF OwnedIsRunning, Ends
  <2> QED
    BY <2>2, <2>3
<1> QED
  BY <1>1, <1>2

\* The request that stopped a stage is still there when the safety point reads
\* the row: only the owner acknowledges it, and a newer request replaces it by
\* a pause or a cancel, for resume is not accepted while the job is running.
LEMMA ControlIsFoundStep ==
    ASSUME Shape, WaitingIsUnowned, HandlerKnows, OwnerIsCurrent,
           OwnedIsRunning, ControlIsFound, Next
    PROVE  ControlIsFound'
<1> DEFINE Asks(i) == PendingCommand(i) \in {"pause", "cancel"}
<1>1. ASSUME NEW w \in Workers, wk'[w].point = "control",
             wk'[w].pc \in {"read", "beat"}, wk'[w].job # 0,
             row'[wk'[w].job].owner = w
      PROVE  /\ wk'[w].pc = "read"
                  => /\ row'[wk'[w].job].ver > row'[wk'[w].job].ack
                     /\ row'[wk'[w].job].cmd \in {"pause", "cancel"}
             /\ wk'[w].pc = "beat" => wk'[w].cmd \in {"pause", "cancel"}
  <2> DEFINE j == wk[w].job
  <2>0. wk[w] \in Local /\ wk \in [Workers -> Local] /\ row \in [Jobs -> Row]
    BY DEF Shape, TypeOK
  <2>1. ~ClaimNext(w)
    <3>1. CASE ClaimNext(w)
      <4>1. Own(w)
        BY <3>1 DEF Own, WorkerStep
      <4>2. PICK i \in Jobs :
               Become(w, [Idle("start") EXCEPT !.job = i,
                                           !.attempt = ClaimedRow(w, i).attempt])
        BY <3>1 DEF ClaimNext
      <4>3. Idle("start") \in Local /\ Idle("start").pc = "start"
        BY IdleShape DEF WorkerPC
      <4>4. wk'[w].pc = "start"
        BY <2>0, <4>2, <4>3 DEF Become, Local
      <4> QED
        BY <1>1, <4>4
    <3> QED
      BY <3>1
  <2>2. Owns(w) /\ wk'[w].job = j /\ j \in Jobs /\ row[j] \in Row
    BY <1>1, <2>0, <2>1, OwnsBefore
  <2>3. /\ wk[w].pc = "read" /\ wk[w].point = "control"
              => row[j].ver > row[j].ack /\ row[j].cmd \in {"pause", "cancel"}
        /\ wk[w].pc = "beat" /\ wk[w].point = "control"
              => wk[w].cmd \in {"pause", "cancel"}
    BY <2>2 DEF ControlIsFound, ControlPending, PendingCommand, Pending
  <2>4. CASE ~Own(w)
    <3>1. wk'[w] = wk[w] /\ row'[j].ack = row[j].ack
          /\ (SameRequest(j) \/ Posted(j))
      BY <1>1, <2>2, <2>4, OthersKeepOwned DEF Owns
    <3>2. CASE wk[w].pc = "beat"
      BY <1>1, <2>3, <3>1, <3>2
    <3>3. CASE wk[w].pc = "read" /\ SameRequest(j)
      BY <1>1, <2>2, <2>3, <3>1, <3>3 DEF SameRequest
    <3>4. CASE wk[w].pc = "read" /\ Posted(j)
      <4>1. row[j].status = "running"
        BY <2>2, <3>4 DEF OwnedIsRunning
      <4>2. row'[j].ver = row[j].ver + 1 /\ row'[j].cmd \in {"pause", "cancel"}
        BY <3>4, <4>1 DEF Posted
      <4>3. row[j].ver \in Nat /\ row[j].ack \in Nat
        BY <2>2 DEF Row
      <4> QED
        BY <1>1, <2>2, <2>3, <3>1, <3>4, <4>2, <4>3
    <3> QED
      BY <1>1, <3>1, <3>2, <3>3, <3>4
  <2>5. CASE Own(w)
    <3>1. CASE /\ wk'[w] = wk[w]
               /\ row'[j] = [row[j] EXCEPT !.fresh = TRUE]
      <4>1. /\ row'[j].ver = row[j].ver /\ row'[j].ack = row[j].ack
            /\ row'[j].cmd = row[j].cmd
        BY <2>2, <3>1 DEF Row
      <4> QED
        BY <1>1, <2>2, <2>3, <3>1, <4>1
    <3>2. CASE SafetyRead(w)
      <4>1. wk[w].pc = "read" /\ wk'[w] \in {At(w, "failure"),
               [At(w, "beat") EXCEPT !.cmd = PendingCommand(j),
                                     !.ver = row[j].ver]}
        BY <2>0, <3>2 DEF SafetyRead, Become
      <4>2. At(w, "failure").pc = "failure" /\ At(w, "beat") \in Local
            /\ At(w, "beat").pc = "beat" /\ At(w, "beat").point = wk[w].point
        BY <2>0, AtShape DEF WorkerPC
      <4>3. wk'[w] = [At(w, "beat") EXCEPT !.cmd = PendingCommand(j),
                                           !.ver = row[j].ver]
        BY <1>1, <4>1, <4>2
      <4>4. wk'[w].pc = "beat" /\ wk'[w].point = wk[w].point
            /\ wk'[w].cmd = PendingCommand(j)
        BY <4>2, <4>3 DEF Local
      <4>5. row[j].ver > row[j].ack /\ row[j].cmd \in {"pause", "cancel"}
        BY <1>1, <2>3, <4>1, <4>4
      <4>6. PendingCommand(j) = row[j].cmd
        BY <4>5 DEF PendingCommand, Pending
      <4> QED
        BY <4>4, <4>5, <4>6
    <3>3. CASE StageRaises(w)
      <4>1. row' = row
            /\ (Become(w, Safety(w, wk[w].k, "error"))
                  \/ (ControlPending(w) /\ Become(w, Safety(w, wk[w].k, "control"))))
        BY <3>3 DEF StageRaises
      <4>2. wk[w].k \in 0..NumStages /\ {"error", "control"} \subseteq SafetyPoints
        BY <2>0 DEF Local, SafetyPoints
      <4>3. /\ Safety(w, wk[w].k, "error").point = "error"
            /\ Safety(w, wk[w].k, "control").pc = "read"
        BY <2>0, <4>2, SafetyShape
      <4>4. ControlPending(w) /\ wk'[w].pc = "read"
        BY <1>1, <2>0, <4>1, <4>3 DEF Become
      <4> QED
        BY <2>2, <4>1, <4>4 DEF ControlPending, PendingCommand, Pending
    <3>4. CASE /\ wk[w].pc = "beat"
               /\ wk'[w].pc = Pass(w).pc /\ wk'[w].point = Pass(w).point
      BY <1>1, <2>0, <3>4, PassShape
    <3>5. wk'[w].pc \notin Resting \cup Ends
      BY <1>1 DEF Resting, Ends
    <3> QED
      BY <1>1, <2>1, <2>5, <3>1, <3>2, <3>3, <3>4, <3>5, OwnMove
  <2> QED
    BY <2>4, <2>5
<1>2. \A w \in Workers : wk'[w].pc \in {"read", "beat"} => wk'[w].job # 0
  BY NextShape DEF Shape, ClaimsNameJobs, Holds
<1> QED
  BY <1>1, <1>2 DEF ControlIsFound, ControlPending, Owns, PendingCommand, Pending

\* So the safety point never lets such an exception pass as a failure.
LEMMA ControlIsNoFailureStep ==
    ASSUME Shape, WaitingIsUnowned, HandlerKnows, ControlIsFound,
           ControlIsNoFailure, Next
    PROVE  ControlIsNoFailure'
<1> SUFFICES ASSUME NEW w \in Workers, wk'[w].pc = "fail"
             PROVE  wk'[w].point # "control"
  BY DEF ControlIsNoFailure
<1>0. wk[w] \in Local /\ wk \in [Workers -> Local]
  BY DEF Shape, TypeOK
<1>1. CASE wk'[w] = wk[w]
  BY <1>1 DEF ControlIsNoFailure
<1>2. CASE Own(w) /\ wk'[w] # wk[w]
  <2>1. CASE SafetyRead(w)
    <3>1. At(w, "beat") \in Local /\ At(w, "beat").pc = "beat"
          /\ At(w, "failure").pc = "failure"
      BY <1>0, AtShape DEF WorkerPC
    <3>2. wk'[w] \in {At(w, "failure"),
               [At(w, "beat") EXCEPT !.cmd = PendingCommand(wk[w].job),
                                     !.ver = row[wk[w].job].ver]}
      BY <1>0, <2>1 DEF SafetyRead, Become
    <3> QED
      BY <3>1, <3>2 DEF Local
  <2>2. CASE StageRaises(w)
    <3>1. wk[w].k \in 0..NumStages /\ {"error", "control"} \subseteq SafetyPoints
      BY <1>0 DEF Local, SafetyPoints
    <3>2. /\ Safety(w, wk[w].k, "error").pc = "read"
          /\ Safety(w, wk[w].k, "control").pc = "read"
      BY <1>0, <3>1, SafetyShape
    <3>3. wk'[w].pc = "read"
      BY <1>0, <2>2, <3>2 DEF StageRaises, Become
    <3> QED
      BY <3>3
  <2>3. CASE /\ wk[w].pc = "beat" /\ Owns(w)
             /\ wk[w].cmd \notin {"pause", "cancel"}
             /\ wk'[w].point = Pass(w).point
    BY <1>0, <2>3, PassShape DEF ControlIsFound
  <2>4. "fail" \notin Resting \cup Ends
    BY DEF Resting, Ends
  <2> QED
    BY <1>2, <2>1, <2>2, <2>3, <2>4, OwnMove
<1> QED
  BY <1>1, <1>2, OthersKeepOwned

-----------------------------------------------------------------------------
(* The inductive invariant and what it gives.                              *)

\* Nothing is queued and nobody works initially.
LEMMA InitInvariant == Init => IInv
<1> SUFFICES ASSUME Init PROVE IInv
  OBVIOUS
<1>1. Shape
  BY InitShape
<1>2. \A j \in Jobs : row[j].status = "absent" /\ row[j].owner = None
  BY NewRowFields DEF Init
<1>3. \A w \in Workers : wk[w].job = 0 /\ wk[w].pc = "down"
  BY IdleShape DEF Init, WorkerPC
<1>4. api.pc = "idle"
  BY DEF Init, ApiIdle
<1> QED
  BY <1>1, <1>2, <1>3, <1>4
     DEF IInv, WaitingIsUnowned, OwnerIsCurrent, ClaimedWasInserted,
         ClaimsAreDistinct, HandlerKnows, QueueWasNotCancelled,
         ActiveHasWorkspace, OwnedIsRunning, ControlIsFound, ControlIsNoFailure,
         Holds, Owns, Active

\* Every step keeps it.
LEMMA StepInvariant == IInv /\ [Next]_vars => IInv'
<1> SUFFICES ASSUME IInv, [Next]_vars PROVE IInv'
  OBVIOUS
<1>1. CASE Next
  <2>1. Shape'
    BY <1>1, NextShape DEF IInv
  <2>2. WaitingIsUnowned'
    BY <1>1, WaitingIsUnownedStep DEF IInv
  <2>3. OwnerIsCurrent'
    BY <1>1, OwnerIsCurrentStep DEF IInv
  <2>4. ClaimedWasInserted'
    BY <1>1, ClaimedWasInsertedStep DEF IInv
  <2>5. ClaimsAreDistinct'
    BY <1>1, ClaimsAreDistinctStep DEF IInv
  <2>6. HandlerKnows'
    BY <1>1, HandlerKnowsStep DEF IInv
  <2>7. QueueWasNotCancelled'
    BY <1>1, QueueWasNotCancelledStep DEF IInv
  <2>8. ActiveHasWorkspace'
    BY <1>1, ActiveHasWorkspaceStep DEF IInv
  <2>9. OwnedIsRunning'
    BY <1>1, OwnedIsRunningStep DEF IInv
  <2>10. ControlIsFound'
    BY <1>1, ControlIsFoundStep DEF IInv
  <2>11. ControlIsNoFailure'
    BY <1>1, ControlIsNoFailureStep DEF IInv
  <2> QED
    BY <2>1, <2>2, <2>3, <2>4, <2>5, <2>6, <2>7, <2>8, <2>9, <2>10, <2>11
       DEF IInv
<1>2. CASE UNCHANGED vars
  BY <1>2 DEF vars, IInv, Shape, TypeOK, ClaimsNameJobs, HandlersNameJobs,
              WaitingIsUnowned, OwnerIsCurrent, ClaimedWasInserted,
              ClaimsAreDistinct, HandlerKnows, QueueWasNotCancelled,
              ActiveHasWorkspace, OwnedIsRunning, ControlIsFound,
              ControlIsNoFailure, ControlPending, Owns, Holds, Exists,
              PendingCommand, Pending
<1> QED
  BY <1>1, <1>2

\* The inductive invariant holds in every reachable state.
THEOREM Invariance == Spec => []IInv
BY InitInvariant, StepInvariant, PTL DEF Spec

\* A queued or interrupted job is nobody's, whatever sweeps, releases,
\* recoveries and cancels interleave with.
THEOREM WaitingJobsAreUnowned == Spec => []WaitingIsUnowned
<1>1. IInv => WaitingIsUnowned
  BY DEF IInv
<1> QED
  BY <1>1, Invariance, PTL

\* No two worker processes ever work under the same attempt of a job, with or
\* without worker.lock and however many claims are lost.
THEOREM AttemptsAreExclusive == Spec => []ClaimsAreDistinct
<1>1. IInv => ClaimsAreDistinct
  BY DEF IInv
<1> QED
  BY <1>1, Invariance, PTL

\* No queued job carries an open cancel, which claim_next_job would skip for
\* ever.
THEOREM QueueIsNeverBlocked == Spec => []QueueHasNoCancelled
<1>1. IInv => QueueHasNoCancelled
  BY QueueIsClaimable DEF IInv
<1> QED
  BY <1>1, Invariance, PTL

\* The directory of a job that may still run exists, although handlers remove
\* directories in a transaction of their own.
THEOREM ActiveJobsKeepWorkspace == Spec => []ActiveHasWorkspace
<1>1. IInv => ActiveHasWorkspace
  BY DEF IInv
<1> QED
  BY <1>1, Invariance, PTL

\* An exception provoked by a control request or a lost claim never becomes
\* the failure of the job.
THEOREM ControlNeverFailsJobs == Spec => []ControlIsNoFailure
<1>1. IInv => ControlIsNoFailure
  BY DEF IInv
<1> QED
  BY <1>1, Invariance, PTL

\* A worker that lost its claim changes its former row no more.
THEOREM FencingHolds == Spec => LostClaimWritesNothing
<1> DEFINE Fenced == \A w \in Workers :
                        Holds(w) /\ ~Owns(w) /\ wk'[w] # wk[w]
                            => row'[wk[w].job] = row[wk[w].job]
<1>1. ASSUME IInv, Next, NEW w \in Workers, Holds(w), ~Owns(w), wk'[w] # wk[w]
      PROVE  row'[wk[w].job] = row[wk[w].job]
  <2>1. row[wk[w].job].owner # w
    BY <1>1 DEF IInv, OwnerIsCurrent, Owns
  <2>2. Own(w)
    BY <1>1, OthersKeepOwned DEF IInv
  <2>3. wk[w].pc \notin {"down", "poll", "claim"}
    BY <1>1 DEF IInv, Shape, ClaimsNameJobs
  <2>4. WorkerEffect(w)
    BY <1>1, <2>2, <2>3, OwnEffect DEF IInv, SweepStale, ClaimNext
  <2> QED
    BY <2>1, <2>4 DEF WorkerEffect, OwnedWrite
<1>2. IInv /\ [Next]_vars => [Fenced]_vars
  BY <1>1
<1> QED
  BY <1>2, Invariance, PTL DEF Spec, LostClaimWritesNothing

\* A control request is only committed to a job whose status allows it, though
\* the status was read in an earlier transaction.
THEOREM RequestsAreChecked == Spec => RequestsFitStatus
<1> DEFINE Fits == \A j \in Jobs : row'[j].ver > row[j].ver =>
          \/ row'[j].cmd = "pause" /\ row[j].status = "running"
          \/ row'[j].cmd = "resume" /\ row[j].status \in {"paused", "interrupted"}
          \/ row'[j].cmd = "cancel" /\ row[j].status \in Active
<1>1. ASSUME IInv, Next, NEW j \in Jobs, row'[j].ver > row[j].ver
      PROVE  \/ row'[j].cmd = "pause" /\ row[j].status = "running"
             \/ row'[j].cmd = "resume" /\ row[j].status \in {"paused", "interrupted"}
             \/ row'[j].cmd = "cancel" /\ row[j].status \in Active
  <2>1. row[j].ver \in Nat /\ row'[j].ver # row[j].ver /\ ~(0 > row[j].ver)
    BY <1>1 DEF IInv, Shape, TypeOK, Row
  <2>2. CASE Backstage
    BY <1>1, <2>1, <2>2, BackstageRow
       DEF IInv, Swept, Claimed, Written, Aged, SameRequest
  <2>3. CASE Frontstage
    <3>1. Posted(j) \/ Recovered(j)
      BY <1>1, <2>1, <2>3, FrontstageRow, NewRowFields
         DEF IInv, Inserted, Deleted, Aged, SameRequest
    <3> QED
      BY <3>1 DEF Posted, Recovered
  <2> QED
    BY <1>1, <2>2, <2>3, StepSplit DEF IInv
<1>2. ASSUME IInv, [Next]_vars PROVE [Fits]_vars
  BY <1>1, <1>2
<1> QED
  BY <1>2, Invariance, PTL DEF Spec, RequestsFitStatus

-----------------------------------------------------------------------------
(* The abstract lifecycle.                                                 *)

\* A safety signal that an owner handles was raised by a running row, or by the
\* status it asks for, which is then written already.
SignalFits ==
    \A w \in Workers :
        Owns(w) /\ wk[w].pc = "signal"
            => row[wk[w].job].status \in {"running", Target(wk[w].cmd)}

\* Once the outcome of an attempt is decided, the main thread only writes it
\* down, cleans up and gives the claim back.
LEMMA LateSteps ==
    ASSUME NEW w \in Workers, Own(w), wk[w].pc \in {"apply"} \cup Ends
    PROVE  \/ ApplyControl(w) \/ HandleSignal(w) \/ LogFailure(w)
           \/ HandleClaimFailure(w) \/ Release(w) \/ LeaseBeat(w) \/ Crash(w) \/ Interrupt(w)
BY DEF Ends, Own, WorkerStep, Launch, SweepStale, ClaimNext, ClaimNothing,
       LoadConfig, SafetyRead, SafetyBeat, AckControl, BeginStage,
       StageSucceeds, StageRaises, IngestCancelled, PublishProgress,
       RecordFailure, Succeed

\* The steps that lead to the handler of the signal.
LEMMA SignalSteps ==
    ASSUME Shape, NEW w \in Workers, Own(w), wk'[w].pc = "signal"
    PROVE  LeaseBeat(w) \/ ApplyControl(w) \/ IngestCancelled(w)
<1>1. wk \in [Workers -> Local] /\ wk[w] \in Local
  BY DEF Shape, TypeOK
<1>2. \A l : Become(w, l) => wk'[w] = l
  BY <1>1 DEF Become
<1>3. \A pc \in WorkerPC : Idle(pc).pc = pc /\ At(w, pc).pc = pc
  BY <1>1, IdleShape, AtShape
<1>4. \A k \in 0..NumStages, point \in SafetyPoints :
         Safety(w, k, point).pc = "read"
  BY <1>1, SafetyShape
<1>5. wk[w].k \in 0..NumStages /\ 1 \in 0..NumStages
      /\ {"before", "after", "error", "control"} \subseteq SafetyPoints
  BY <1>1, ParameterAssumption DEF Local, SafetyPoints
<1>6. WorkerPC \ {"signal"} = {"down", "poll", "claim", "start", "read", "beat",
         "ack", "apply", "begin", "stage", "progress", "fail", "log", "succeed",
         "failure", "release", "quit"}
  BY DEF WorkerPC
<1>7. ~Launch(w) /\ ~SweepStale(w) /\ ~ClaimNothing(w) /\ ~Crash(w)
      /\ ~Interrupt(w) /\ ~Release(w)
  BY <1>2, <1>3, <1>6
     DEF Launch, SweepStale, ClaimNothing, Crash, Interrupt, Release
<1>8. ~AckControl(w) /\ ~StageSucceeds(w) /\ ~HandleClaimFailure(w)
  BY <1>2, <1>3, <1>6 DEF AckControl, StageSucceeds, HandleClaimFailure
<1>9. ~ClaimNext(w)
  <2> SUFFICES ASSUME ClaimNext(w) PROVE FALSE  OBVIOUS
  <2>1. PICK i \in Jobs :
           Become(w, [Idle("start") EXCEPT !.job = i,
                                           !.attempt = ClaimedRow(w, i).attempt])
    BY DEF ClaimNext
  <2>2. [Idle("start") EXCEPT !.job = i,
                              !.attempt = ClaimedRow(w, i).attempt].pc = "start"
    BY DEF Idle
  <2> QED
    BY <1>2, <2>1, <2>2
<1>10. ~SafetyRead(w)
  <2> SUFFICES ASSUME SafetyRead(w) PROVE FALSE  OBVIOUS
  <2>1. At(w, "beat") \in Local /\ At(w, "beat").pc = "beat"
    BY <1>1, <1>6, AtShape
  <2>2. [At(w, "beat") EXCEPT !.cmd = PendingCommand(wk[w].job),
                              !.ver = row[wk[w].job].ver].pc = "beat"
    BY <2>1 DEF Local
  <2> QED
    BY <1>2, <1>3, <1>6, <2>2 DEF SafetyRead
<1>11. ~SafetyBeat(w)
  <2> SUFFICES ASSUME SafetyBeat(w) PROVE FALSE  OBVIOUS
  <2>1. Pass(w) \in Local /\ Pass(w).pc # "signal"
    BY <1>1, <1>3, <1>4, <1>5, <1>6, PassShape DEF Pass
  <2> DEFINE l == [Pass(w) EXCEPT !.cmd = "none", !.ver = 0]
  <2>2. l.pc # "signal"
    BY <2>1 DEF Local
  <2>3. \/ Become(w, At(w, "ack")) \/ Become(w, At(w, "release"))
        \/ Become(w, l)
    BY DEF SafetyBeat
  <2> HIDE DEF l
  <2>4. At(w, "ack").pc = "ack" /\ At(w, "release").pc = "release"
    BY <1>3, <1>6
  <2> QED
    BY <1>2, <2>2, <2>3, <2>4
<1>12. ~StageRaises(w) /\ ~PublishProgress(w)
  BY <1>2, <1>3, <1>4, <1>5, <1>6 DEF StageRaises, PublishProgress
<1>13. ASSUME NEW t, NEW done, NEW lost, SetJobStatus(w, t, done, lost),
              done.pc # "signal", lost.pc # "signal"
       PROVE  FALSE
  BY <1>2, <1>3, <1>6, <1>13, SetJobStatusEffect
<1>14. ~BeginStage(w) /\ ~RecordFailure(w) /\ ~LogFailure(w) /\ ~Succeed(w)
  BY <1>2, <1>3, <1>6, <1>13
     DEF BeginStage, RecordFailure, LogFailure, Succeed
<1>15. ~LoadConfig(w)
  BY <1>2, <1>3, <1>4, <1>5, <1>6, <1>13 DEF LoadConfig
<1>16. ~HandleSignal(w)
  BY <1>3, <1>6, <1>13 DEF HandleSignal
<1> QED
  BY <1>7, <1>8, <1>9, <1>10, <1>11, <1>12, <1>14, <1>15, <1>16
     DEF Own, WorkerStep

\* The status is written before the signal is raised, or, by an ingest that is
\* told to stop, while the row is running; nobody else moves an owned row.
LEMMA SignalFitsStep ==
    ASSUME IInv, SignalFits, Next
    PROVE  SignalFits'
<1> SUFFICES ASSUME NEW w \in Workers, wk'[w].job # 0,
                    row'[wk'[w].job].owner = w, wk'[w].pc = "signal"
             PROVE  row'[wk'[w].job].status \in {"running", Target(wk'[w].cmd)}
  BY DEF SignalFits, Owns, Holds, Target
<1>0. /\ Shape /\ WaitingIsUnowned /\ HandlerKnows /\ OwnerIsCurrent
      /\ OwnedIsRunning /\ row \in [Jobs -> Row] /\ wk \in [Workers -> Local]
  BY DEF IInv, Shape, TypeOK
<1>1. CASE ClaimNext(w)
  <2>1. wk[w].job = 0
    BY <1>0, <1>1 DEF ClaimNext, Shape, ClaimsNameJobs, Holds
  <2> QED
    BY <1>0, <2>1, ClaimStep DEF Claimed
<1>2. CASE ~ClaimNext(w) /\ ~Own(w)
  <2>1. Owns(w) /\ wk'[w].job = wk[w].job /\ wk[w].job \in Jobs
    BY <1>0, <1>2, OwnsBefore
  <2>2. wk'[w] = wk[w] /\ row'[wk[w].job].status = row[wk[w].job].status
    BY <1>0, <1>2, <2>1, OthersKeepOwned DEF Owns
  <2> QED
    BY <2>1, <2>2 DEF SignalFits
<1>3. CASE ~ClaimNext(w) /\ Own(w)
  <2>1. Owns(w) /\ wk'[w].job = wk[w].job /\ wk[w].job \in Jobs
        /\ row[wk[w].job] \in Row
    BY <1>0, <1>3, OwnsBefore
  <2>2. At(w, "signal") \in Local /\ At(w, "signal").cmd = wk[w].cmd
        /\ At(w, "release").pc = "release" /\ At(w, "failure").pc = "failure"
    BY <1>0, AtShape DEF WorkerPC
  <2>3. \A l : Become(w, l) => wk'[w] = l
    BY <1>0 DEF Become
  <2>4. CASE LeaseBeat(w)
    <3>1. wk' = wk /\ row' = [row EXCEPT ![wk[w].job].fresh = TRUE]
      BY <2>4 DEF LeaseBeat
    <3>2. row'[wk[w].job].status = row[wk[w].job].status
      BY <1>0, <2>1, <3>1 DEF Row
    <3> QED
      BY <2>1, <3>1, <3>2 DEF SignalFits
  <2>5. CASE ApplyControl(w)
    <3>1. /\ row' = [row EXCEPT ![wk[w].job].status = Target(wk[w].cmd),
                                ![wk[w].job].sv = @ + 1]
          /\ wk'[w] = At(w, "signal")
      BY <2>2, <2>3, <2>5, SetJobStatusEffect DEF ApplyControl
    <3>2. row'[wk[w].job].status = Target(wk[w].cmd)
      BY <1>0, <2>1, <3>1 DEF Row
    <3> QED
      BY <2>1, <2>2, <3>1, <3>2
  <2>6. CASE IngestCancelled(w)
    <3>1. wk[w].pc = "stage" /\ row' = row
      BY <2>6 DEF IngestCancelled
    <3>2. row[wk[w].job].status = "running"
      BY <1>0, <2>1, <3>1 DEF OwnedIsRunning
    <3> QED
      BY <2>1, <3>1, <3>2
  <2> QED
    BY <1>0, <1>3, <2>4, <2>5, <2>6, SignalSteps
<1> QED
  BY <1>1, <1>2, <1>3

\* An attempt is ended once: the owner of a row changes its status out of
\* running only.
LEMMA OwnerEndsOnce ==
    ASSUME IInv, SignalFits, NEW w \in Workers, Own(w), Owns(w),
           row'[wk[w].job].status # row[wk[w].job].status
    PROVE  row[wk[w].job].status = "running"
<1> DEFINE j == wk[w].job
<1>0. /\ Shape /\ WaitingIsUnowned /\ OwnedIsRunning /\ Holds(w)
      /\ row \in [Jobs -> Row] /\ j \in Jobs /\ row[j] \in Row
  BY ClaimedRowIsRow DEF IInv, Shape, TypeOK, Owns
<1>1. CASE wk[w].pc \notin Ends
  BY <1>0, <1>1 DEF OwnedIsRunning, Ends
<1>2. CASE HandleSignal(w)
  <2>1. row' = row \/ row' = [row EXCEPT ![j].status = Target(wk[w].cmd),
                                         ![j].sv = @ + 1]
    BY <1>2, SetJobStatusEffect DEF HandleSignal
  <2>2. row'[j].status = Target(wk[w].cmd)
    BY <1>0, <2>1 DEF Row
  <2>3. wk[w].pc = "signal"
    BY <1>2 DEF HandleSignal
  <2> QED
    BY <2>2, <2>3 DEF SignalFits
<1>3. CASE HandleClaimFailure(w)
  BY <1>0, <1>3, OwnedIsNotQueued DEF HandleClaimFailure, Owns
<1>4. CASE LogFailure(w) \/ Release(w) \/ LeaseBeat(w) \/ Crash(w) \/ Interrupt(w)
  <2>1. \/ row' = row
        \/ row' = [row EXCEPT ![j].owner = None, ![j].fresh = FALSE]
        \/ row' = [row EXCEPT ![j].fresh = TRUE]
    BY <1>4 DEF LogFailure, Release, LeaseBeat, Crash, Interrupt
  <2>2. row'[j].status = row[j].status
    BY <1>0, <2>1 DEF Row
  <2> QED
    BY <2>2
<1>5. ASSUME ApplyControl(w), wk[w].pc \in Ends PROVE FALSE
  BY <1>5 DEF ApplyControl, Ends
<1> QED
  BY <1>1, <1>2, <1>3, <1>4, <1>5, LateSteps

\* What readers see of a row.
Shown(i) == [status |-> row[i].status, owner |-> row[i].owner,
             attempt |-> row[i].attempt]

\* What a step does to a row is a step of the abstract table, or nothing.
LEMMA RowTakesStep ==
    ASSUME IInv, SignalFits, Next, NEW i \in Jobs
    PROVE  Shown(i)' = Shown(i) \/ Lifecycle!Step(Shown(i), Shown(i)')
<1> DEFINE Taken == Shown(i)' = Shown(i) \/ Lifecycle!Step(Shown(i), Shown(i)')
<1>0. /\ Shape /\ WaitingIsUnowned /\ HandlerKnows /\ None \notin Workers
      /\ row[i] \in Row /\ row'[i] \in Row
  BY NextShape, ParameterAssumption DEF IInv, Shape, TypeOK
<1>1. ASSUME /\ row'[i].status = row[i].status
             /\ row'[i].owner = row[i].owner
             /\ row'[i].attempt = row[i].attempt
      PROVE  Taken
  BY <1>1 DEF Shown
<1>2. ASSUME Swept(i) PROVE Taken
  <2>1. Lifecycle!Expire(Shown(i), Shown(i)')
    BY <1>2 DEF Swept, Shown, Lifecycle!Expire
  <2> QED
    BY <2>1 DEF Lifecycle!Step
<1>3. ASSUME NEW w \in Workers, Claimed(w, i) PROVE Taken
  <2>1. Lifecycle!Grant(Shown(i), Shown(i)')
    BY <1>3 DEF Claimed, Claimable, Shown, Lifecycle!Grant
  <2> QED
    BY <2>1 DEF Lifecycle!Step
<1>4. ASSUME NEW w \in Workers, Own(w), Written(w, i) PROVE Taken
  <2>1. wk[w].job = i /\ row[i].owner = w /\ Owns(w)
        /\ row'[i].owner \in {w, None} /\ row'[i].attempt = row[i].attempt
    BY <1>4 DEF Written, OwnedWrite, Owns, IInv, OwnerIsCurrent
  <2>2. \/ row'[i].status = row[i].status
        \/ /\ row[i].status = "running"
           /\ row'[i].status \in {"paused", "succeeded", "failed", "cancelled"}
    BY <1>4, <2>1, OwnerEndsOnce DEF Written
  <2>3. Lifecycle!Work(Shown(i), Shown(i)')
    BY <1>0, <2>1, <2>2 DEF Shown, Lifecycle!Work
  <2> QED
    BY <2>3 DEF Lifecycle!Step
<1>5. ASSUME NEW w \in Workers, Own(w) PROVE Taken
  <2>1. row'[i] = row[i] \/ Swept(i) \/ Claimed(w, i) \/ Written(w, i)
    BY <1>0, <1>5, OwnEffect, SweepRows, ClaimRows, EffectRows
  <2> QED
    BY <1>1, <1>2, <1>3, <1>4, <1>5, <2>1
<1>6. ASSUME Inserted(i) PROVE Taken
  <2>1. Lifecycle!Insert(Shown(i), Shown(i)')
    BY <1>6, NewRowFields
       DEF Inserted, Shown, Lifecycle!Insert, Lifecycle!Unclaimed
  <2> QED
    BY <2>1 DEF Lifecycle!Step
<1>7. ASSUME Posted(i) PROVE Taken
  <2>1. CASE row'[i].status = row[i].status
    BY <1>1, <1>7, <2>1 DEF Posted, SameClaim
  <2>2. CASE /\ row'[i].status = "cancelled" /\ row[i].owner = None
    <3>1. Lifecycle!Withdraw(Shown(i), Shown(i)')
      BY <1>7, <2>2 DEF Posted, SameClaim, Shown, Active, Lifecycle!Withdraw
    <3> QED
      BY <3>1 DEF Lifecycle!Step
  <2> QED
    BY <1>7, <2>1, <2>2 DEF Posted
<1>8. ASSUME Recovered(i) PROVE Taken
  <2>1. row[i].owner = None
    BY <1>0, <1>8 DEF Recovered, WaitingIsUnowned
  <2>2. Lifecycle!Requeue(Shown(i), Shown(i)')
    BY <1>8, <2>1 DEF Recovered, Shown, Lifecycle!Requeue
  <2> QED
    BY <2>2 DEF Lifecycle!Step
<1>9. ASSUME Deleted(i) PROVE Taken
  <2>1. Lifecycle!Delete(Shown(i), Shown(i)')
    BY <1>9, NewRowFields
       DEF Deleted, Shown, Lifecycle!Delete, Lifecycle!Unclaimed,
           Lifecycle!Terminal, Terminal
  <2> QED
    BY <2>1 DEF Lifecycle!Step
<1>10. ASSUME NEW j \in Jobs, Lapse(j) PROVE Taken
  <2>1. row' = [row EXCEPT ![j].fresh = FALSE]
    BY <1>10 DEF Lapse
  <2>2. row'[i] = row[i] \/ row'[i] = [row[i] EXCEPT !.fresh = FALSE]
    BY <2>1, <1>0 DEF Shape, TypeOK
  <2> QED
    BY <1>0, <1>1, <2>2 DEF Row
<1>11. ASSUME Frontstage PROVE Taken
  <2>1. ASSUME Aged(i) PROVE Taken
    BY <1>1, <2>1 DEF Aged, SameClaim
  <2> QED
    BY <1>0, <1>1, <1>6, <1>7, <1>8, <1>9, <1>11, <2>1, FrontstageRow
<1> QED
  BY <1>5, <1>10, <1>11 DEF Next, Own, Frontstage

\* The table, the workers and the handlers together implement the lifecycle:
\* every attempt is granted once and ended once, by its owner, by the sweep,
\* or by a cancel of a row that nobody owns.
THEOREM LifecycleRefinement == Spec => ImplementsLifecycle
<1> DEFINE abs == [j \in Jobs |-> [status |-> row[j].status,
                                   owner |-> row[j].owner,
                                   attempt |-> row[j].attempt]]
<1>1. Init => Lifecycle!Init
  BY NewRowFields DEF Init, Lifecycle!Init, Lifecycle!Unclaimed, Jobs
<1>2. Init => SignalFits
  BY IdleShape DEF Init, SignalFits, Owns, Holds, WorkerPC
<1>3. ASSUME IInv, SignalFits, [Next]_vars
      PROVE  SignalFits' /\ [Lifecycle!Next]_abs
  <2>1. CASE Next
    <3>1. SignalFits'
      BY <1>3, <2>1, SignalFitsStep
    <3>2. abs = [j \in Jobs |-> Shown(j)]
      BY DEF Shown
    <3>3. \A j \in Jobs : Shown(j)' \in Lifecycle!Entry
      <4>1. \A j \in Jobs : row'[j] \in Row
        BY <1>3, <2>1, NextShape DEF IInv, Shape, TypeOK
      <4> QED
        BY <4>1 DEF Shown, Row, Lifecycle!Entry, Lifecycle!RowStates,
                    Lifecycle!Statuses, RowStates, Statuses
    <3>4. \A j \in Jobs : Shown(j)' = Shown(j)
                            \/ Lifecycle!Step(Shown(j), Shown(j)')
      BY <1>3, <2>1, RowTakesStep
    <3>5. Lifecycle!Next
      BY <3>3, <3>4 DEF Shown, Lifecycle!Next, Jobs
    <3> QED
      BY <3>1, <3>5
  <2>2. CASE UNCHANGED vars
    BY <1>3, <2>2 DEF vars, SignalFits, Owns, Holds
  <2> QED
    BY <1>3, <2>1, <2>2
<1> QED
  BY <1>1, <1>2, <1>3, Invariance, PTL
     DEF Spec, ImplementsLifecycle, Lifecycle!Spec
=============================================================================
