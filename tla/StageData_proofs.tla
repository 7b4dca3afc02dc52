-------------------------- MODULE StageData_proofs ---------------------------
(***************************************************************************)
(* Proofs about the calls of a job to its provider and the data of its     *)
(* stages, for every set of keyframes, every size of the pool, every limit *)
(* and every number of retries.                                            *)
(*                                                                         *)
(* CallsInv is inductive.  That every request is accounted for needs to    *)
(* know that nothing is in flight between two stages (AtRest); that few    *)
(* leave after a control request needs the size of the pool and that the   *)
(* counter starts at zero (PoolIsBounded, LateIsBounded).                  *)
(* That the rate is kept needs to look back: an attempt that passed the    *)
(* limiter may be held by its thread for any time before it is sent, so    *)
(* that RateInv bounds what was held at every tick of the window.          *)
(***************************************************************************)
EXTENDS StageData, KeyframesAndChapters_proofs

InPool == {"gate", "send", "calling"}

\* No request is under way while no stage waits for it.
AtRest == stage \in {"off", "between"} => \A t \in Tasks : task[t].at = "idle"

\* No more requests are taken up than there are threads.
PoolIsBounded == Cardinality(Busy) <= Concurrency

\* Those already checked can still be sent after a control request.
LateIsBounded ==
    /\ asked = "none" => tally.late = 0
    /\ asked # "none" => tally.late + Cardinality(At("send")) <= Concurrency

CallsInv == /\ CallsTypeOK
            /\ AtRest
            /\ PoolIsBounded
            /\ LateIsBounded
            /\ CallsAreAccountedFor
            /\ UsageIsReconstructible

\* An attempt passed the limiter and its request is about to leave.
Leaving(a) == task[a[1]] = [at |-> "send", try |-> a[2]]

\* The attempts that k ticks ago had passed the limiter and were not sent.
Held(k) == {a \in Attempts : stamps[a] >= k /\ (sends[a] < k \/ Leaving(a))}

\* At no tick that the limiter remembers did the pool hold more than it has
\* threads; what was sent since then and is not held passed since then.
RateInv ==
    Rpm > 0 => /\ Cardinality(Recent(stamps)) <= Rpm
               /\ \A k \in 0..Window : Cardinality(Held(k)) <= Concurrency

\* The computation has a step, and a judged answer the outcome of the code.
WorkInv ==
    /\ "step" \in DOMAIN work
    /\ work.step \in Steps
    /\ work.step = "judged" => /\ work.answer \in Payload
                               /\ work.outcome = PayloadOutcome(work.answer)

\* What is reduced is all of the evidence, in its order, and never nothing.
Reduction ==
    work.step \in {"reducing", "summarised"} =>
        Evidence(work.sections, work.sources)

\* A fused timeline is what the fusion makes of its input.
Fusion ==
    work.step = "fused" =>
        /\ work.transcript \in Transcripts
        /\ work.times \in KeyframeTimes
        /\ work.chunks = BuildChunks(work.transcript, work.times, work.described)

\* A selection is what the algorithm makes of its frames.
Selection ==
    work.step = "selected" =>
        /\ work.frames \in FeatureInputs
        /\ work.candidates = Candidates(work.frames)
        /\ work.selected = SelectKeyframes(work.frames)

Inv == CallsInv /\ RateInv /\ WorkInv /\ Reduction /\ Fusion /\ Selection

-----------------------------------------------------------------------------
(* The requests that stand at one point of the code.                       *)

LEMMA TasksAreFinite == IsFiniteSet(Tasks)
<1>1. IsFiniteSet(Frames)
  BY CallsAssumption DEF CallsAssumption
<1>2. IsFiniteSet(Frames \cup {Overall})
  BY <1>1, FS_AddElement
<1> QED BY <1>2 DEF Tasks

\* Sets of requests are finite, and a smaller one has a smaller cardinality.
LEMMA SomeTasks ==
  ASSUME NEW S, NEW T, S \in SUBSET Tasks, T \in SUBSET S
  PROVE  /\ IsFiniteSet(S)
         /\ Cardinality(S) \in Nat
         /\ Cardinality(T) \in Nat
         /\ Cardinality(T) <= Cardinality(S)
<1>1. IsFiniteSet(S)
  BY TasksAreFinite, FS_Subset
<1>2. IsFiniteSet(T) /\ Cardinality(T) <= Cardinality(S)
  BY <1>1, FS_Subset
<1>3. Cardinality(S) \in Nat /\ Cardinality(T) \in Nat
  BY <1>1, <1>2, FS_CardinalityType
<1> QED BY <1>1, <1>2, <1>3

LEMMA BusyIsInPool == Busy = {t \in Tasks : task[t].at \in InPool}
BY DEF Busy, At, InPool

LEMMA Counts ==
  /\ Cardinality(At("calling")) \in Nat
  /\ Cardinality(At("send")) \in Nat
  /\ Cardinality(Busy) \in Nat
<1>1. /\ At("calling") \in SUBSET Tasks
      /\ At("send") \in SUBSET Tasks
      /\ Busy \in SUBSET Tasks
  BY DEF At, Busy
<1> QED BY <1>1, SomeTasks

LEMMA SendersAreBusy == Cardinality(At("send")) <= Cardinality(Busy)
<1>1. Busy \in SUBSET Tasks /\ At("send") \in SUBSET Busy
  BY DEF At, Busy
<1> QED BY <1>1, SomeTasks

\* A request that moves changes the counts of the points it leaves and
\* reaches, and no others.
LEMMA MovingSenders ==
  ASSUME task \in [Tasks -> [at: Positions, try: 0..MaxRetries]],
         NEW t \in Tasks, NEW e,
         task' = [task EXCEPT ![t] = e]
  PROVE  Cardinality(At("send")')
            = CASE task[t].at # "send" /\ e.at = "send"
                      -> Cardinality(At("send")) + 1
                [] task[t].at = "send" /\ e.at # "send"
                      -> Cardinality(At("send")) - 1
                [] OTHER -> Cardinality(At("send"))
<1> DEFINE S == At("send")
<1>1. S \in SUBSET Tasks /\ IsFiniteSet(S)
  <2>1. S \in SUBSET Tasks
    BY DEF At
  <2> QED BY <2>1, SomeTasks
<1>2. \A u \in Tasks : task'[u] = IF u = t THEN e ELSE task[u]
  OBVIOUS
<1>3. CASE task[t].at # "send" /\ e.at = "send"
  <2>1. S' = S \cup {t} /\ t \notin S
    BY <1>2, <1>3 DEF At
  <2>2. Cardinality(S') = Cardinality(S) + 1
    BY <1>1, <2>1, FS_AddElement
  <2> QED BY <1>3, <2>2
<1>4. CASE task[t].at = "send" /\ e.at # "send"
  <2>1. S' = S \ {t} /\ t \in S
    BY <1>2, <1>4 DEF At
  <2>2. Cardinality(S') = Cardinality(S) - 1
    BY <1>1, <2>1, FS_RemoveElement
  <2> QED BY <1>4, <2>2
<1>5. CASE (task[t].at = "send") = (e.at = "send")
  <2>1. S' = S
    BY <1>2, <1>5 DEF At
  <2> QED BY <1>5, <2>1
<1> QED BY <1>3, <1>4, <1>5

LEMMA MovingCallers ==
  ASSUME task \in [Tasks -> [at: Positions, try: 0..MaxRetries]],
         NEW t \in Tasks, NEW e,
         task' = [task EXCEPT ![t] = e]
  PROVE  Cardinality(At("calling")')
            = CASE task[t].at # "calling" /\ e.at = "calling"
                      -> Cardinality(At("calling")) + 1
                [] task[t].at = "calling" /\ e.at # "calling"
                      -> Cardinality(At("calling")) - 1
                [] OTHER -> Cardinality(At("calling"))
<1> DEFINE S == At("calling")
<1>1. S \in SUBSET Tasks /\ IsFiniteSet(S)
  <2>1. S \in SUBSET Tasks
    BY DEF At
  <2> QED BY <2>1, SomeTasks
<1>2. \A u \in Tasks : task'[u] = IF u = t THEN e ELSE task[u]
  OBVIOUS
<1>3. CASE task[t].at # "calling" /\ e.at = "calling"
  <2>1. S' = S \cup {t} /\ t \notin S
    BY <1>2, <1>3 DEF At
  <2>2. Cardinality(S') = Cardinality(S) + 1
    BY <1>1, <2>1, FS_AddElement
  <2> QED BY <1>3, <2>2
<1>4. CASE task[t].at = "calling" /\ e.at # "calling"
  <2>1. S' = S \ {t} /\ t \in S
    BY <1>2, <1>4 DEF At
  <2>2. Cardinality(S') = Cardinality(S) - 1
    BY <1>1, <2>1, FS_RemoveElement
  <2> QED BY <1>4, <2>2
<1>5. CASE (task[t].at = "calling") = (e.at = "calling")
  <2>1. S' = S
    BY <1>2, <1>5 DEF At
  <2> QED BY <1>5, <2>1
<1> QED BY <1>3, <1>4, <1>5

\* Only a request that was taken up makes the pool busier, by one.
LEMMA MovingPool ==
  ASSUME task \in [Tasks -> [at: Positions, try: 0..MaxRetries]],
         NEW t \in Tasks, NEW e,
         task' = [task EXCEPT ![t] = e]
  PROVE  /\ task[t].at \in InPool \/ e.at \notin InPool
               => Cardinality(Busy') <= Cardinality(Busy)
         /\ Cardinality(Busy') <= Cardinality(Busy) + 1
         /\ Cardinality(Busy') \in Nat
<1>1. Busy \in SUBSET Tasks /\ IsFiniteSet(Busy) /\ Cardinality(Busy) \in Nat
  <2>1. Busy \in SUBSET Tasks
    BY BusyIsInPool
  <2> QED BY <2>1, SomeTasks
<1>2. Busy' = {u \in Tasks : task'[u].at \in InPool}
  BY DEF Busy, At, InPool
<1>3. \A u \in Tasks : task'[u] = IF u = t THEN e ELSE task[u]
  OBVIOUS
<1>4. ASSUME task[t].at \in InPool \/ e.at \notin InPool
      PROVE  Busy' \in SUBSET Busy
  BY <1>2, <1>3, <1>4, BusyIsInPool
<1>5. /\ Busy' \in SUBSET (Busy \cup {t})
      /\ Busy \cup {t} \in SUBSET Tasks
  BY <1>1, <1>2, <1>3, BusyIsInPool
<1>6. Cardinality(Busy \cup {t}) <= Cardinality(Busy) + 1
  <2>1. CASE t \in Busy
    <3>1. Busy \cup {t} = Busy
      BY <2>1
    <3>2. Cardinality(Busy \cup {t}) = Cardinality(Busy)
      BY <3>1
    <3> QED BY <1>1, <3>2
  <2>2. CASE t \notin Busy
    <3>1. Cardinality(Busy \cup {t}) = Cardinality(Busy) + 1
      BY <1>1, <2>2, FS_AddElement
    <3> QED BY <1>1, <3>1
  <2> QED BY <2>1, <2>2
<1>7. task[t].at \in InPool \/ e.at \notin InPool
         => Cardinality(Busy') <= Cardinality(Busy)
  BY <1>1, <1>4, SomeTasks
<1>8. /\ Cardinality(Busy') <= Cardinality(Busy \cup {t})
      /\ Cardinality(Busy') \in Nat
      /\ Cardinality(Busy \cup {t}) \in Nat
  BY <1>5, SomeTasks
<1> QED BY <1>1, <1>6, <1>7, <1>8

\* A new pool has taken up nothing.
LEMMA SubmittedIsIdle ==
  ASSUME NEW ts, Submit(ts)
  PROVE  /\ task' \in [Tasks -> [at: Positions, try: 0..MaxRetries]]
         /\ ts = {} => \A t \in Tasks : task'[t].at = "idle"
         /\ Busy' = {}
         /\ At("send")' = {}
         /\ At("calling")' = {}
         /\ Cardinality(Busy') = 0
         /\ Cardinality(At("send")') = 0
         /\ Cardinality(At("calling")') = 0
<1>1. \A t \in Tasks : task'[t].at \in {"queued", "idle"}
  BY DEF Submit
<1>2. task' \in [Tasks -> [at: Positions, try: 0..MaxRetries]]
  BY CallsAssumption DEF Submit, CallsAssumption, Positions
<1>3. /\ At("gate")' = {}
      /\ At("send")' = {}
      /\ At("calling")' = {}
  BY <1>1 DEF At
<1>4. Busy' = {}
  BY <1>3 DEF Busy
<1>5. ts = {} => \A t \in Tasks : task'[t].at = "idle"
  BY DEF Submit
<1> QED BY <1>2, <1>3, <1>4, <1>5, FS_EmptySet

LEMMA NothingType == Nothing \in [Attempts -> 0..Window]
BY CallsAssumption DEF Nothing, CallsAssumption

LEMMA AgedType ==
  ASSUME NEW f \in [Attempts -> 0..Window]
  PROVE  Aged(f) \in [Attempts -> 0..Window]
BY CallsAssumption DEF Aged, CallsAssumption

\* An attempt passes or is sent.
LEMMA MarkedType ==
  ASSUME NEW f \in [Attempts -> 0..Window], NEW a \in Attempts
  PROVE  [f EXCEPT ![a] = 0] \in [Attempts -> 0..Window]
BY CallsAssumption DEF CallsAssumption

LEMMA AttemptType ==
  ASSUME CallsTypeOK, NEW t \in Tasks, Gated(t)
  PROVE  Attempt(t) \in Attempts
<1>1. task[t].try \in 0..MaxRetries
  BY DEF CallsTypeOK
<1> QED BY <1>1 DEF Attempt, Attempts, Gated

-----------------------------------------------------------------------------
(* The calls.                                                              *)

LEMMA CallsStart == CallsInit => CallsInv
<1> SUFFICES ASSUME CallsInit PROVE CallsInv
  OBVIOUS
<1> USE DEF CallsInit
<1>1. /\ task \in [Tasks -> [at: Positions, try: 0..MaxRetries]]
      /\ \A t \in Tasks : task[t].at = "idle"
  BY CallsAssumption DEF Idle, Positions, CallsAssumption
<1>2. At("gate") = {} /\ At("send") = {} /\ At("calling") = {}
  BY <1>1 DEF At
<1>3. /\ Busy = {}
      /\ Cardinality(Busy) = 0
      /\ Cardinality(At("calling")) = 0
  BY <1>2, FS_EmptySet DEF Busy
<1>4. CallsTypeOK
  BY <1>1, NothingType, CallsAssumption
  DEF CallsTypeOK, CallsAssumption, Stages, Requests
<1>5. AtRest /\ PoolIsBounded
  BY <1>1, <1>3, CallsAssumption DEF AtRest, PoolIsBounded, CallsAssumption
<1>6. LateIsBounded
  BY DEF LateIsBounded
<1>7. CallsAreAccountedFor /\ UsageIsReconstructible
  BY <1>3 DEF CallsAreAccountedFor, UsageIsReconstructible
<1> QED BY <1>4, <1>5, <1>6, <1>7 DEF CallsInv

\* The counts of one state, as numbers.
LEMMA Numbers ==
  ASSUME CallsInv
  PROVE  /\ Concurrency \in Nat
         /\ Cardinality(At("calling")) \in Nat
         /\ Cardinality(At("send")) \in Nat
         /\ Cardinality(Busy) \in Nat
         /\ Cardinality(At("send")) <= Concurrency
         /\ tally.sent \in Nat /\ tally.lost \in Nat /\ tally.late \in Nat
         /\ journal.rows \in Nat
<1>1. Cardinality(Busy) <= Concurrency /\ Concurrency \in Nat
  BY CallsAssumption DEF CallsInv, PoolIsBounded, CallsAssumption
<1>2. tally \in [sent: Nat, lost: Nat, late: Nat] /\ journal.rows \in Nat
  BY DEF CallsInv, CallsTypeOK
<1>3. /\ Cardinality(At("calling")) \in Nat
      /\ Cardinality(At("send")) \in Nat
      /\ Cardinality(Busy) \in Nat
  BY Counts
<1> QED BY <1>1, <1>2, <1>3, SendersAreBusy


\* A request under way moves to another point: what is left to show is what
\* the step did to the pool and to the counters.
LEMMA Moving ==
  ASSUME CallsInv, NEW t \in Tasks,
         NEW e \in [at: Positions, try: 0..MaxRetries],
         task' = [task EXCEPT ![t] = e], task[t].at # "idle",
         UNCHANGED <<stage, rowVars>>
  PROVE  /\ task' \in [Tasks -> [at: Positions, try: 0..MaxRetries]]
         /\ AtRest'
         /\ stage' \in Stages /\ runs' \in 0..MaxRuns
         /\ asked' \in Requests /\ owned' \in BOOLEAN
         /\ (task[t].at \in InPool \/ e.at \notin InPool) => PoolIsBounded'
<1>1. /\ CallsTypeOK /\ AtRest /\ PoolIsBounded
      /\ task \in [Tasks -> [at: Positions, try: 0..MaxRetries]]
  BY DEF CallsInv, CallsTypeOK
<1>2. task' \in [Tasks -> [at: Positions, try: 0..MaxRetries]]
  BY <1>1
<1>3. AtRest'
  BY <1>1 DEF AtRest
<1>4. /\ stage' \in Stages /\ runs' \in 0..MaxRuns
      /\ asked' \in Requests /\ owned' \in BOOLEAN
  BY <1>1 DEF CallsTypeOK, rowVars
<1>5. ASSUME task[t].at \in InPool \/ e.at \notin InPool
      PROVE  PoolIsBounded'
  <2>1. /\ Cardinality(Busy') <= Cardinality(Busy)
        /\ Cardinality(Busy') \in Nat
    BY <1>1, <1>5, MovingPool
  <2> QED BY <1>1, <2>1, Numbers DEF PoolIsBounded
<1> QED BY <1>2, <1>3, <1>4, <1>5

\* The pool takes a request up: the one step that makes it busier.
LEMMA TakingUp ==
  ASSUME CallsInv, NEW t \in Tasks, TakeUp(t)
  PROVE  CallsInv'
<1> DEFINE e == [task[t] EXCEPT !.at = "gate"]
<1>1. /\ task \in [Tasks -> [at: Positions, try: 0..MaxRetries]]
      /\ task' = [task EXCEPT ![t] = e]
      /\ task[t].at = "queued" /\ e.at = "gate"
      /\ e \in [at: Positions, try: 0..MaxRetries]
      /\ UNCHANGED <<stage, rowVars, stamps, journal, counted, sends, tally>>
  BY DEF CallsInv, CallsTypeOK, TakeUp, Move, Positions
<1> HIDE DEF e
<1>2. /\ Cardinality(At("calling")') = Cardinality(At("calling"))
      /\ Cardinality(At("send")') = Cardinality(At("send"))
  BY <1>1, MovingSenders, MovingCallers
<1>3. PoolIsBounded'
  <2>1. /\ Cardinality(Busy') <= Cardinality(Busy) + 1
        /\ Cardinality(Busy') \in Nat
    BY <1>1, MovingPool
  <2> QED BY <2>1, Numbers DEF PoolIsBounded, TakeUp
<1>4. CallsTypeOK' /\ AtRest'
  BY <1>1, Moving DEF CallsInv, CallsTypeOK
<1>5. LateIsBounded' /\ CallsAreAccountedFor' /\ UsageIsReconstructible'
  BY <1>1, <1>2
  DEF CallsInv, LateIsBounded, CallsAreAccountedFor, UsageIsReconstructible,
      rowVars
<1> QED BY <1>3, <1>4, <1>5 DEF CallsInv

\* A request passes the gate only if no control request waits.
LEMMA Passing ==
  ASSUME CallsInv, NEW t \in Tasks, PassGate(t)
  PROVE  CallsInv'
<1> DEFINE e == [task[t] EXCEPT !.at = "send"]
<1>1. /\ task \in [Tasks -> [at: Positions, try: 0..MaxRetries]]
      /\ task' = [task EXCEPT ![t] = e]
      /\ task[t].at = "gate" /\ e.at = "send"
      /\ e \in [at: Positions, try: 0..MaxRetries]
      /\ UNCHANGED <<stage, rowVars, journal, counted, sends, tally>>
  BY DEF CallsInv, CallsTypeOK, PassGate, Move, Positions
<1> HIDE DEF e
<1>2. Cardinality(At("calling")') = Cardinality(At("calling"))
  BY <1>1, MovingSenders, MovingCallers
<1>3. stamps' \in [Attempts -> 0..Window]
  <2>1. CallsTypeOK /\ stamps \in [Attempts -> 0..Window]
    BY DEF CallsInv, CallsTypeOK
  <2>2. CASE Gated(t) /\ Rpm > 0
    <3>1. stamps' = [stamps EXCEPT ![Attempt(t)] = 0]
      BY <2>2 DEF PassGate
    <3> QED BY <2>1, <2>2, <3>1, AttemptType, MarkedType
  <2>3. CASE ~(Gated(t) /\ Rpm > 0)
    BY <2>1, <2>3 DEF PassGate
  <2> QED BY <2>2, <2>3
<1>4. CallsTypeOK' /\ AtRest' /\ PoolIsBounded'
  BY <1>1, <1>3, Moving DEF CallsInv, CallsTypeOK, InPool
<1>5. LateIsBounded'
  BY <1>1 DEF CallsInv, LateIsBounded, PassGate, ControlPending, rowVars
<1>6. CallsAreAccountedFor' /\ UsageIsReconstructible'
  BY <1>1, <1>2
  DEF CallsInv, CallsAreAccountedFor, UsageIsReconstructible
<1> QED BY <1>4, <1>5, <1>6 DEF CallsInv

LEMMA Refusing ==
  ASSUME CallsInv, NEW t \in Tasks, Refuse(t)
  PROVE  CallsInv'
<1> DEFINE e == [task[t] EXCEPT !.at = "failed"]
<1>1. /\ task \in [Tasks -> [at: Positions, try: 0..MaxRetries]]
      /\ task' = [task EXCEPT ![t] = e]
      /\ task[t].at = "gate" /\ e.at = "failed"
      /\ e \in [at: Positions, try: 0..MaxRetries]
      /\ UNCHANGED <<stage, rowVars, stamps, journal, counted, sends, tally>>
  BY DEF CallsInv, CallsTypeOK, Refuse, Move, Positions
<1> HIDE DEF e
<1>2. /\ Cardinality(At("calling")') = Cardinality(At("calling"))
      /\ Cardinality(At("send")') = Cardinality(At("send"))
  BY <1>1, MovingSenders, MovingCallers
<1>3. CallsTypeOK' /\ AtRest' /\ PoolIsBounded'
  BY <1>1, Moving DEF CallsInv, CallsTypeOK, InPool
<1>4. LateIsBounded' /\ CallsAreAccountedFor' /\ UsageIsReconstructible'
  BY <1>1, <1>2
  DEF CallsInv, LateIsBounded, CallsAreAccountedFor, UsageIsReconstructible,
      rowVars
<1> QED BY <1>3, <1>4 DEF CallsInv

\* What is sent late was among the requests that could still be sent.
LEMMA Sending ==
  ASSUME CallsInv, NEW t \in Tasks, Send(t)
  PROVE  CallsInv'
<1> DEFINE e == [task[t] EXCEPT !.at = "calling"]
<1>1. /\ task \in [Tasks -> [at: Positions, try: 0..MaxRetries]]
      /\ task' = [task EXCEPT ![t] = e]
      /\ task[t].at = "send" /\ e.at = "calling"
      /\ e \in [at: Positions, try: 0..MaxRetries]
      /\ UNCHANGED <<stage, rowVars, stamps, journal, counted>>
  BY DEF CallsInv, CallsTypeOK, Send, Move, Positions
<1> HIDE DEF e
<1>2. /\ Cardinality(At("calling")') = Cardinality(At("calling")) + 1
      /\ Cardinality(At("send")') = Cardinality(At("send")) - 1
  BY <1>1, MovingSenders, MovingCallers
<1>3. /\ tally' \in [sent: Nat, lost: Nat, late: Nat]
      /\ tally'.sent = tally.sent + 1
      /\ tally'.lost = tally.lost
      /\ asked = "none" => tally'.late = tally.late
      /\ asked # "none" => tally'.late = tally.late + 1
  <2>1. tally \in [sent: Nat, lost: Nat, late: Nat]
    BY DEF CallsInv, CallsTypeOK
  <2>2. tally' = [tally EXCEPT
                    !.sent = tally.sent + 1,
                    !.late = IF asked = "none" THEN tally.late
                             ELSE tally.late + 1]
    BY DEF Send
  <2>3. /\ tally.sent \in Nat /\ tally.lost \in Nat /\ tally.late \in Nat
        /\ tally = [sent |-> tally.sent, lost |-> tally.lost,
                    late |-> tally.late]
    BY <2>1
  <2>4. tally' = [sent |-> tally.sent + 1, lost |-> tally.lost,
                  late |-> IF asked = "none" THEN tally.late
                           ELSE tally.late + 1]
    BY <2>2, <2>3
  <2>5. CASE asked = "none"
    BY <2>3, <2>4, <2>5
  <2>6. CASE asked # "none"
    BY <2>3, <2>4, <2>6
  <2> QED BY <2>5, <2>6
<1>4. sends' \in [Attempts -> 0..Window]
  <2>1. CallsTypeOK /\ sends \in [Attempts -> 0..Window]
    BY DEF CallsInv, CallsTypeOK
  <2>2. CASE Gated(t)
    <3>1. sends' = [sends EXCEPT ![Attempt(t)] = 0]
      BY <2>2 DEF Send
    <3> QED BY <2>1, <2>2, <3>1, AttemptType, MarkedType
  <2>3. CASE ~Gated(t)
    BY <2>1, <2>3 DEF Send
  <2> QED BY <2>2, <2>3
<1>5. CallsTypeOK' /\ AtRest' /\ PoolIsBounded'
  BY <1>1, <1>3, <1>4, Moving DEF CallsInv, CallsTypeOK, InPool
<1>6. LateIsBounded'
  BY <1>1, <1>2, <1>3, Numbers DEF CallsInv, LateIsBounded, rowVars
<1>7. CallsAreAccountedFor' /\ UsageIsReconstructible'
  BY <1>1, <1>2, <1>3, Numbers
  DEF CallsInv, CallsAreAccountedFor, UsageIsReconstructible
<1> QED BY <1>5, <1>6, <1>7 DEF CallsInv

\* Whatever an answer is, its request is journalled or lost with the claim.
LEMMA Answering ==
  ASSUME CallsInv, NEW t \in Tasks, Answer(t)
  PROVE  CallsInv'
<1>1. /\ task \in [Tasks -> [at: Positions, try: 0..MaxRetries]]
      /\ task[t].at = "calling"
      /\ tally \in [sent: Nat, lost: Nat, late: Nat]
      /\ journal \in [rows: Nat, tail: {"ended", "partial", "unended"}]
      /\ counted \in Nat
      /\ UNCHANGED <<stage, rowVars, stamps, sends>>
  BY DEF CallsInv, CallsTypeOK, Answer
<1>2. PICK e \in [at: Positions, try: 0..MaxRetries] :
         /\ task' = [task EXCEPT ![t] = e]
         /\ e.at \notin {"send", "calling"}
  <2>1. task[t] \in [at: Positions, try: 0..MaxRetries]
    BY <1>1
  <2>2. MaxRetries \in Nat
    BY CallsAssumption DEF CallsAssumption
  <2>3. CASE ControlPending
    <3> DEFINE f == [task[t] EXCEPT !.at = "failed"]
    <3>1. f \in [at: Positions, try: 0..MaxRetries] /\ f.at = "failed"
      BY <2>1 DEF Positions
    <3>2. task' = [task EXCEPT ![t] = f]
      BY <2>3 DEF Answer, Move
    <3> QED BY <3>1, <3>2
  <2>4. CASE ~ControlPending
    <3>1. PICK outcome \in Outcomes :
             task' = [task EXCEPT ![t] = AfterAnswer(t, outcome)]
      BY <2>4 DEF Answer
    <3> DEFINE f == AfterAnswer(t, outcome)
    <3>2. CASE outcome = "complete"
      <4>1. f = [task[t] EXCEPT !.at = "done"]
        BY <3>2 DEF AfterAnswer
      <4>2. f \in [at: Positions, try: 0..MaxRetries] /\ f.at = "done"
        BY <2>1, <4>1 DEF Positions
      <4> QED BY <3>1, <4>2
    <3>3. CASE outcome = "transient" /\ task[t].try < MaxRetries
      <4>1. f = [at |-> "gate", try |-> task[t].try + 1]
        BY <3>3 DEF AfterAnswer
      <4>2. f \in [at: Positions, try: 0..MaxRetries] /\ f.at = "gate"
        BY <2>1, <2>2, <3>3, <4>1 DEF Positions
      <4> QED BY <3>1, <4>2
    <3>4. CASE /\ outcome # "complete"
               /\ ~(outcome = "transient" /\ task[t].try < MaxRetries)
      <4>1. f = [task[t] EXCEPT !.at = "failed"]
        BY <3>4 DEF AfterAnswer
      <4>2. f \in [at: Positions, try: 0..MaxRetries] /\ f.at = "failed"
        BY <2>1, <4>1 DEF Positions
      <4> QED BY <3>1, <4>2
    <3> QED BY <3>2, <3>3, <3>4
  <2> QED BY <2>3, <2>4
<1>3. /\ Cardinality(At("calling")') = Cardinality(At("calling")) - 1
      /\ Cardinality(At("send")') = Cardinality(At("send"))
  BY <1>1, <1>2, MovingSenders, MovingCallers
<1>4. \/ /\ owned
         /\ journal' = [rows |-> journal.rows + 1, tail |-> "ended"]
         /\ counted' = counted + 1
         /\ tally' = tally
      \/ /\ journal' = journal /\ counted' = counted
         /\ tally' = [tally EXCEPT !.lost = tally.lost + 1]
  BY DEF Answer, Records, Appended
<1>5. /\ tally' \in [sent: Nat, lost: Nat, late: Nat]
      /\ journal' \in [rows: Nat, tail: {"ended", "partial", "unended"}]
      /\ counted' \in Nat
      /\ tally'.sent = tally.sent
      /\ tally'.late = tally.late
      /\ journal'.rows + tally'.lost = journal.rows + tally.lost + 1
      /\ counted' - journal'.rows = counted - journal.rows
  BY <1>1, <1>4
<1>6. CallsTypeOK' /\ AtRest' /\ PoolIsBounded'
  BY <1>1, <1>2, <1>5, Moving DEF CallsInv, CallsTypeOK, InPool
<1>7. LateIsBounded'
  BY <1>1, <1>3, <1>5 DEF CallsInv, LateIsBounded, rowVars
<1>8. CallsAreAccountedFor'
  BY <1>1, <1>3, <1>5, Numbers DEF CallsInv, CallsAreAccountedFor
<1>9. UsageIsReconstructible'
  BY <1>1, <1>5 DEF CallsInv, UsageIsReconstructible
<1> QED BY <1>6, <1>7, <1>8, <1>9 DEF CallsInv

\* A step that moves no request leaves the counts alone.
LEMMA StandingStill ==
  ASSUME UNCHANGED task
  PROVE  /\ Busy' = Busy
         /\ At("send")' = At("send")
         /\ At("calling")' = At("calling")
BY DEF Busy, At

LEMMA OthersMove ==
  ASSUME CallsInv, Ask \/ LoseClaim \/ Tick
  PROVE  CallsInv'
<1>1. /\ CallsTypeOK /\ UNCHANGED <<stage, runs, task, journal, counted, tally>>
  BY DEF CallsInv, Ask, LoseClaim, Tick, rowVars
<1>2. CallsTypeOK'
  <2>1. CASE Ask
    BY <1>1, <2>1 DEF CallsTypeOK, Ask, Requests
  <2>2. CASE LoseClaim
    BY <1>1, <2>2 DEF CallsTypeOK, LoseClaim
  <2>3. CASE Tick
    BY <1>1, <2>3, AgedType DEF CallsTypeOK, Tick, rowVars
  <2> QED BY <2>1, <2>2, <2>3
<1>3. AtRest' /\ PoolIsBounded'
  BY <1>1, StandingStill DEF CallsInv, AtRest, PoolIsBounded
<1>4. LateIsBounded'
  <2>1. CASE Ask
    <3>1. asked' # "none"
      BY <2>1 DEF Ask
    <3>2. tally.late = 0 \/ asked # "none"
      BY DEF CallsInv, LateIsBounded
    <3>3. tally.late + Cardinality(At("send")) <= Concurrency
      BY <3>2, Numbers DEF CallsInv, LateIsBounded
    <3> QED BY <1>1, <3>1, <3>3, StandingStill DEF LateIsBounded
  <2>2. CASE LoseClaim \/ Tick
    BY <1>1, <2>2, StandingStill
    DEF CallsInv, LateIsBounded, LoseClaim, Tick, rowVars
  <2> QED BY <2>1, <2>2
<1>5. CallsAreAccountedFor' /\ UsageIsReconstructible'
  BY <1>1, StandingStill
  DEF CallsInv, CallsAreAccountedFor, UsageIsReconstructible
<1> QED BY <1>2, <1>3, <1>4, <1>5 DEF CallsInv

\* Without a thread in the pool no request is in flight.
LEMMA NothingInFlight ==
  ASSUME Busy = {} \/ \A t \in Tasks : task[t].at = "idle"
  PROVE  Cardinality(At("calling")) = 0
<1>1. At("calling") = {}
  BY DEF Busy, At
<1> QED BY <1>1, FS_EmptySet

\* A stage that starts or ends, with nothing in flight.
LEMMA Staging ==
  ASSUME CallsInv, JoinFrames \/ AskOverall \/ EndCalls
  PROVE  CallsInv'
<1>1. PICK ts \in {{}, {Overall}} :
         /\ Submit(ts)
         /\ ts # {} => stage' = "overall"
  BY DEF JoinFrames, AskOverall, EndCalls
<1>2. /\ CallsTypeOK
      /\ stage' \in Stages
      /\ stage # "off"
      /\ UNCHANGED <<rowVars, journal, counted, tally>>
  BY DEF CallsInv, JoinFrames, AskOverall, EndCalls, Stages
<1>3. Cardinality(At("calling")) = 0
  BY NothingInFlight
  DEF CallsInv, AtRest, JoinFrames, AskOverall, EndCalls, Drained
<1>4. stamps' \in [Attempts -> 0..Window] /\ sends' \in [Attempts -> 0..Window]
  BY <1>1, NothingType DEF Submit
<1>5. CallsTypeOK'
  BY <1>1, <1>2, <1>4, SubmittedIsIdle DEF CallsTypeOK, rowVars
<1>6. AtRest'
  BY <1>1, SubmittedIsIdle DEF AtRest
<1>7. PoolIsBounded'
  BY <1>1, SubmittedIsIdle, Numbers DEF PoolIsBounded
<1>8. LateIsBounded'
  BY <1>1, <1>2, SubmittedIsIdle, Numbers DEF CallsInv, LateIsBounded, rowVars
<1>9. CallsAreAccountedFor' /\ UsageIsReconstructible'
  BY <1>1, <1>2, <1>3, SubmittedIsIdle
  DEF CallsInv, CallsAreAccountedFor, UsageIsReconstructible
<1> QED BY <1>5, <1>6, <1>7, <1>8, <1>9 DEF CallsInv

LEMMA Beginning ==
  ASSUME CallsInv, Begin
  PROVE  CallsInv'
<1>1. PICK ts : Submit(ts)
  BY DEF Begin
<1>2. /\ stage = "off" /\ stage' = "frames"
      /\ runs' \in 0..MaxRuns
      /\ asked' = "none"
      /\ counted' = journal.rows
      /\ tally' = [tally EXCEPT !.late = 0]
      /\ tally \in [sent: Nat, lost: Nat, late: Nat]
      /\ UNCHANGED <<owned, journal>>
  BY CallsAssumption DEF CallsInv, CallsTypeOK, Begin, CallsAssumption
<1>3. Cardinality(At("calling")) = 0
  BY <1>2, NothingInFlight DEF CallsInv, AtRest
<1>4. stamps' \in [Attempts -> 0..Window] /\ sends' \in [Attempts -> 0..Window]
  BY <1>1, NothingType DEF Submit
<1>5. /\ tally' \in [sent: Nat, lost: Nat, late: Nat]
      /\ tally'.sent = tally.sent /\ tally'.lost = tally.lost
      /\ tally'.late = 0
  BY <1>2
<1>6. CallsTypeOK'
  BY <1>1, <1>2, <1>4, <1>5, SubmittedIsIdle
  DEF CallsInv, CallsTypeOK, Stages, Requests
<1>7. AtRest' /\ LateIsBounded'
  BY <1>2, <1>5 DEF AtRest, LateIsBounded
<1>8. PoolIsBounded'
  BY <1>1, SubmittedIsIdle, Numbers DEF PoolIsBounded
<1>9. CallsAreAccountedFor' /\ UsageIsReconstructible'
  BY <1>1, <1>2, <1>3, <1>5, SubmittedIsIdle
  DEF CallsInv, CallsAreAccountedFor, UsageIsReconstructible
<1> QED BY <1>6, <1>7, <1>8, <1>9 DEF CallsInv

\* What a kill tears off is one row at most, and only if one was written.
LEMMA Killing ==
  ASSUME CallsInv, Kill
  PROVE  CallsInv'
<1>1. PICK torn \in IF At("calling") = {} \/ ~owned THEN {journal}
                    ELSE TornAppends :
         /\ journal' = torn
         /\ tally' = [tally EXCEPT
               !.lost = tally.lost + Cardinality(At("calling"))
                          - (torn.rows - journal.rows)]
  BY DEF Kill
<1>2. /\ CallsTypeOK
      /\ Submit({})
      /\ stage' = "off"
      /\ journal \in [rows: Nat, tail: {"ended", "partial", "unended"}]
      /\ tally \in [sent: Nat, lost: Nat, late: Nat]
      /\ UNCHANGED <<rowVars, counted>>
  BY DEF CallsInv, CallsTypeOK, Kill
<1>3. At("calling") # {} => Cardinality(At("calling")) > 0
  <2>1. IsFiniteSet(At("calling"))
    <3>1. At("calling") \in SUBSET Tasks
      BY DEF At
    <3> QED BY <3>1, SomeTasks
  <2>2. At("calling") # {} => Cardinality(At("calling")) # 0
    BY <2>1, FS_EmptySet
  <2> QED BY <2>2, Counts
<1>4. /\ torn \in [rows: Nat, tail: {"ended", "partial", "unended"}]
      /\ \/ torn.rows = journal.rows
         \/ torn.rows = journal.rows + 1 /\ At("calling") # {}
  <2>1. CASE At("calling") = {} \/ ~owned
    BY <1>1, <1>2, <2>1
  <2>2. CASE ~(At("calling") = {} \/ ~owned)
    <3>1. torn \in TornAppends
      BY <1>1, <2>2
    <3> QED BY <1>2, <2>2, <3>1 DEF TornAppends
  <2> QED BY <2>1, <2>2
<1>5. /\ tally' \in [sent: Nat, lost: Nat, late: Nat]
      /\ tally'.sent = tally.sent /\ tally'.late = tally.late
      /\ tally'.lost = tally.lost + Cardinality(At("calling"))
                          - (torn.rows - journal.rows)
  <2>1. tally.lost + Cardinality(At("calling")) - (torn.rows - journal.rows)
           \in Nat
    BY <1>2, <1>3, <1>4, Counts
  <2> QED BY <1>1, <1>2, <2>1
<1>6. stamps' \in [Attempts -> 0..Window] /\ sends' \in [Attempts -> 0..Window]
  BY <1>2, NothingType DEF Submit
<1>7. CallsTypeOK'
  BY <1>1, <1>2, <1>4, <1>5, <1>6, SubmittedIsIdle
  DEF CallsTypeOK, Stages, rowVars
<1>8. AtRest'
  BY <1>2, SubmittedIsIdle DEF AtRest
<1>9. PoolIsBounded'
  BY <1>2, SubmittedIsIdle, Numbers DEF PoolIsBounded
<1>10. LateIsBounded'
  BY <1>2, <1>5, SubmittedIsIdle, Numbers DEF CallsInv, LateIsBounded, rowVars
<1>11. CallsAreAccountedFor'
  BY <1>1, <1>2, <1>4, <1>5, SubmittedIsIdle, Numbers
  DEF CallsInv, CallsAreAccountedFor
<1>12. UsageIsReconstructible'
  BY <1>2 DEF UsageIsReconstructible
<1> QED BY <1>7, <1>8, <1>9, <1>10, <1>11, <1>12 DEF CallsInv

LEMMA CallsPreserved ==
  ASSUME CallsInv, CallsNext
  PROVE  CallsInv'
<1>1. CASE \E t \in Tasks : RequestStep(t)
  BY <1>1, TakingUp, Passing, Refusing, Sending, Answering DEF RequestStep
<1>2. CASE Begin
  BY <1>2, Beginning
<1>3. CASE Ask \/ LoseClaim \/ Tick
  BY <1>3, OthersMove
<1>4. CASE JoinFrames \/ AskOverall \/ EndCalls
  BY <1>4, Staging
<1>5. CASE Kill
  BY <1>5, Killing
<1> QED BY <1>1, <1>2, <1>3, <1>4, <1>5 DEF CallsNext, CallStep

LEMMA CallsStutter ==
  ASSUME CallsInv, UNCHANGED callVars
  PROVE  CallsInv'
BY StandingStill
DEF CallsInv, CallsTypeOK, AtRest, PoolIsBounded, LateIsBounded,
    CallsAreAccountedFor, UsageIsReconstructible, callVars, rowVars

-----------------------------------------------------------------------------
(* The limiter.                                                            *)

LEMMA AttemptsAreFinite == IsFiniteSet(Attempts)
<1>1. IsFiniteSet(Frames) /\ MaxRetries \in Nat
  BY CallsAssumption DEF CallsAssumption
<1>2. IsFiniteSet(0..MaxRetries)
  BY <1>1, FS_Interval
<1> QED BY <1>1, <1>2, FS_Product DEF Attempts

\* Sets of attempts are finite, and a smaller one has a smaller cardinality.
LEMMA SomeAttempts ==
  ASSUME NEW S, NEW T, S \in SUBSET Attempts, T \in SUBSET S
  PROVE  /\ IsFiniteSet(S)
         /\ Cardinality(S) \in Nat
         /\ Cardinality(T) \in Nat
         /\ Cardinality(T) <= Cardinality(S)
<1>1. IsFiniteSet(S)
  BY AttemptsAreFinite, FS_Subset
<1>2. IsFiniteSet(T) /\ Cardinality(T) <= Cardinality(S)
  BY <1>1, FS_Subset
<1>3. Cardinality(S) \in Nat /\ Cardinality(T) \in Nat
  BY <1>1, <1>2, FS_CardinalityType
<1> QED BY <1>1, <1>2, <1>3

LEMMA OneMore ==
  ASSUME NEW S, IsFiniteSet(S), NEW x
  PROVE  Cardinality(S \cup {x}) <= Cardinality(S) + 1
<1>1. Cardinality(S) \in Nat
  BY FS_CardinalityType
<1>2. CASE x \in S
  <2>1. S \cup {x} = S
    BY <1>2
  <2>2. Cardinality(S \cup {x}) = Cardinality(S)
    BY <2>1
  <2> QED BY <1>1, <2>2
<1>3. CASE x \notin S
  <2>1. Cardinality(S \cup {x}) = Cardinality(S) + 1
    BY <1>3, FS_AddElement
  <2> QED BY <1>1, <2>1
<1> QED BY <1>2, <1>3

\* What leaves after a step is then in the pool, one attempt for each thread.
LEMMA HeldNow ==
  ASSUME CallsTypeOK', PoolIsBounded'
  PROVE  Cardinality(Held(0)') <= Concurrency
<1> DEFINE L == {a \in Attempts : Leaving(a)'}
           S == At("send")'
           f == [a \in L |-> a[1]]
<1>1. Held(0)' \in SUBSET L /\ L \in SUBSET Attempts
  <2>1. \A a \in Attempts : ~ (sends'[a] < 0)
    BY CallsAssumption DEF CallsTypeOK, CallsAssumption
  <2> QED BY <2>1 DEF Held
<1>2. /\ \A a \in L : a[1] \in S
      /\ \A a, b \in L : a[1] = b[1] => a = b
  <2>1. \A a \in L : a[1] \in S
    BY DEF Leaving, At, Attempts, Tasks
  <2>2. ASSUME NEW a \in L, NEW b \in L, a[1] = b[1]
        PROVE  a = b
    <3>1. a = <<a[1], a[2]>> /\ b = <<b[1], b[2]>>
      BY DEF Attempts
    <3>2. a[2] = b[2]
      BY <2>2 DEF Leaving
    <3> QED BY <2>2, <3>1, <3>2
  <2> QED BY <2>1, <2>2
<1>3. S \in SUBSET Busy' /\ Busy' \in SUBSET Tasks
  BY DEF At, Busy
<1> HIDE DEF L, S
<1>4. f \in Injection(L, S)
  BY <1>2 DEF Injection, IsInjective
<1>5. /\ IsFiniteSet(S) /\ Cardinality(S) \in Nat
      /\ Cardinality(S) <= Concurrency
  <2>1. /\ Cardinality(S) <= Cardinality(Busy')
        /\ Cardinality(S) \in Nat /\ Cardinality(Busy') \in Nat
    BY <1>3, SomeTasks
  <2>2. IsFiniteSet(S)
    <3>1. S \in SUBSET Tasks
      BY <1>3
    <3> QED BY <3>1, SomeTasks
  <2> QED BY <2>1, <2>2, CallsAssumption DEF PoolIsBounded, CallsAssumption
<1> HIDE DEF f
<1>6. Cardinality(L) <= Cardinality(S)
  BY <1>4, <1>5, FS_Injection
<1>7. /\ Cardinality(Held(0)') <= Cardinality(L)
      /\ Cardinality(Held(0)') \in Nat /\ Cardinality(L) \in Nat
  BY <1>1, SomeAttempts
<1> QED BY <1>5, <1>6, <1>7, CallsAssumption DEF CallsAssumption

\* It is enough that no more were held at any earlier tick, and no more
\* stamps are in the window.
LEMMA RateFollows ==
  ASSUME CallsInv, RateInv, CallsInv',
         \A k \in 1..Window : \/ Held(k)' \subseteq Held(k)
                              \/ Held(k)' \subseteq Held(k - 1),
         Rpm > 0 => Cardinality(Recent(stamps)') <= Rpm
  PROVE  RateInv'
<1> SUFFICES ASSUME Rpm > 0, NEW k \in 0..Window
             PROVE  Cardinality(Held(k)') <= Concurrency
  BY DEF RateInv
<1>1. CASE k = 0
  <2>1. CallsTypeOK' /\ PoolIsBounded'
    BY DEF CallsInv
  <2> QED BY <1>1, <2>1, HeldNow
<1>2. CASE k # 0
  <2>1. k \in 1..Window /\ k - 1 \in 0..Window
    BY <1>2, CallsAssumption DEF CallsAssumption
  <2>2. PICK m \in 0..Window : Held(k)' \subseteq Held(m)
    BY <2>1
  <2>3. Held(m) \in SUBSET Attempts /\ Cardinality(Held(m)) <= Concurrency
    BY DEF Held, RateInv
  <2>4. /\ Cardinality(Held(k)') <= Cardinality(Held(m))
        /\ Cardinality(Held(k)') \in Nat /\ Cardinality(Held(m)) \in Nat
    BY <2>2, <2>3, SomeAttempts
  <2> QED BY <2>3, <2>4, CallsAssumption DEF CallsAssumption
<1> QED BY <1>1, <1>2

\* A request that moves to any point but the one before sending.
LEMMA HeldByOthers ==
  ASSUME task \in [Tasks -> [at: Positions, try: 0..MaxRetries]],
         NEW t \in Tasks, NEW e, task' = [task EXCEPT ![t] = e],
         e.at # "send", UNCHANGED <<stamps, sends>>
  PROVE  /\ \A k \in 1..Window : Held(k)' \subseteq Held(k)
         /\ Recent(stamps)' = Recent(stamps)
<1>1. \A u \in Tasks : task'[u] = IF u = t THEN e ELSE task[u]
  OBVIOUS
<1>2. ASSUME NEW a \in Attempts, Leaving(a)'
      PROVE  Leaving(a)
  <2>1. a[1] \in Tasks
    BY DEF Attempts, Tasks
  <2>2. task'[a[1]].at = "send"
    BY <1>2 DEF Leaving
  <2>3. a[1] # t
    BY <1>1, <2>1, <2>2
  <2> QED BY <1>1, <1>2, <2>1, <2>3 DEF Leaving
<1> QED BY <1>2 DEF Held, Recent

\* An attempt that passes is held from now on, in the window of its stamp.
LEMMA PassingIsHeld ==
  ASSUME CallsInv, RateInv, CallsInv', NEW t \in Tasks, PassGate(t)
  PROVE  RateInv'
<1> SUFFICES ASSUME Rpm > 0 PROVE RateInv'
  BY DEF RateInv
<1> DEFINE e == [task[t] EXCEPT !.at = "send"]
<1>1. /\ task \in [Tasks -> [at: Positions, try: 0..MaxRetries]]
      /\ stamps \in [Attempts -> 0..Window]
      /\ task' = [task EXCEPT ![t] = e] /\ e = [at |-> "send", try |-> task[t].try]
      /\ task[t].try \in 0..MaxRetries /\ sends' = sends /\ CallsTypeOK
  BY DEF CallsInv, CallsTypeOK, PassGate, Move, Positions
<1> HIDE DEF e
<1>2. \A u \in Tasks : task'[u] = IF u = t THEN e ELSE task[u]
  BY <1>1
<1>3. \A a \in Attempts : Leaving(a)' => Leaving(a) \/ a = Attempt(t)
  <2> SUFFICES ASSUME NEW a \in Attempts, Leaving(a)', ~Leaving(a)
               PROVE  a = Attempt(t)
    OBVIOUS
  <2>1. a[1] \in Tasks /\ a = <<a[1], a[2]>>
    BY DEF Attempts, Tasks
  <2>2. a[1] = t
    BY <1>2, <2>1 DEF Leaving
  <2>3. task'[t] = e /\ a[2] = e.try
    BY <1>1, <1>2, <2>2 DEF Leaving
  <2> QED BY <1>1, <2>1, <2>2, <2>3 DEF Attempt
<1>4. CASE Gated(t)
  <2> DEFINE p == Attempt(t)
  <2>1. p \in Attempts /\ stamps' = [stamps EXCEPT ![p] = 0]
    BY <1>1, <1>4, AttemptType DEF PassGate
  <2> HIDE DEF p
  <2>2. \A a \in Attempts : stamps'[a] = IF a = p THEN 0 ELSE stamps[a]
    BY <1>1, <2>1
  <2>3. \A k \in 1..Window : Held(k)' \subseteq Held(k)
    <3> TAKE k \in 1..Window
    <3>1. ~ (0 >= k)
      BY CallsAssumption DEF CallsAssumption
    <3>2. ASSUME NEW a \in Attempts,
                 stamps'[a] >= k, sends'[a] < k \/ Leaving(a)'
          PROVE  a \in Held(k)
      <4>1. a # p
        BY <2>2, <3>1, <3>2
      <4> QED BY <1>1, <1>3, <2>2, <3>2, <4>1 DEF Held, p
    <3> QED BY <3>2 DEF Held
  <2>4. Cardinality(Recent(stamps)') <= Rpm
    <3>1. Recent(stamps)' \in SUBSET (Recent(stamps) \cup {p})
      BY <2>2 DEF Recent
    <3>2. Recent(stamps) \in SUBSET Attempts
      BY DEF Recent
    <3>3. Recent(stamps) \cup {p} \in SUBSET Attempts
      BY <2>1, <3>2
    <3>4. IsFiniteSet(Recent(stamps)) /\ Cardinality(Recent(stamps)) \in Nat
      BY <3>2, SomeAttempts
    <3>5. Cardinality(Recent(stamps) \cup {p}) <= Cardinality(Recent(stamps)) + 1
      BY <3>4, OneMore
    <3>6. Cardinality(Recent(stamps)) < Rpm
      BY <1>4 DEF PassGate, MayPass
    <3>7. /\ Cardinality(Recent(stamps)') \in Nat
          /\ Cardinality(Recent(stamps) \cup {p}) \in Nat
          /\ Cardinality(Recent(stamps)') <= Cardinality(Recent(stamps) \cup {p})
      BY <3>1, <3>3, SomeAttempts
    <3> QED BY <3>4, <3>5, <3>6, <3>7, CallsAssumption DEF CallsAssumption
  <2> QED BY <2>3, <2>4, RateFollows
<1>5. CASE ~Gated(t)
  <2>1. stamps' = stamps
    BY <1>5 DEF PassGate
  <2>2. \A a \in Attempts : a # Attempt(t)
    BY <1>5 DEF Attempts, Attempt, Gated
  <2>3. \A k \in 1..Window : Held(k)' \subseteq Held(k)
    BY <1>1, <1>3, <2>1, <2>2 DEF Held
  <2>4. Recent(stamps)' = Recent(stamps)
    BY <2>1 DEF Recent
  <2> QED BY <2>3, <2>4, RateFollows DEF RateInv
<1> QED BY <1>4, <1>5

\* What is sent had been held since it passed, and is no longer.
LEMMA SendingReleases ==
  ASSUME CallsInv, RateInv, CallsInv', NEW t \in Tasks, Send(t)
  PROVE  RateInv'
<1> DEFINE e == [task[t] EXCEPT !.at = "calling"]
<1>1. /\ task \in [Tasks -> [at: Positions, try: 0..MaxRetries]]
      /\ sends \in [Attempts -> 0..Window]
      /\ task' = [task EXCEPT ![t] = e] /\ e.at = "calling"
      /\ task[t] = [at |-> "send", try |-> task[t].try]
      /\ stamps' = stamps /\ CallsTypeOK
  BY DEF CallsInv, CallsTypeOK, Send, Move, Positions
<1> HIDE DEF e
<1>2. \A u \in Tasks : task'[u] = IF u = t THEN e ELSE task[u]
  BY <1>1
<1>3. \A a \in Attempts : Leaving(a)' => Leaving(a)
  <2> SUFFICES ASSUME NEW a \in Attempts, Leaving(a)' PROVE Leaving(a)
    OBVIOUS
  <2>1. a[1] \in Tasks /\ task'[a[1]].at = "send"
    BY DEF Attempts, Tasks, Leaving
  <2>2. a[1] # t
    BY <1>1, <1>2, <2>1
  <2> QED BY <1>2, <2>1, <2>2 DEF Leaving
<1>4. \A a \in Attempts : sends'[a] = sends[a] \/ Leaving(a)
  <2>1. CASE Gated(t)
    <3> DEFINE p == Attempt(t)
    <3>1. p \in Attempts /\ sends' = [sends EXCEPT ![p] = 0]
      BY <1>1, <2>1, AttemptType DEF Send
    <3>2. Leaving(p)
      BY <1>1 DEF Leaving, Attempt
    <3> HIDE DEF p
    <3> QED BY <1>1, <3>1, <3>2
  <2>2. CASE ~Gated(t)
    BY <2>2 DEF Send
  <2> QED BY <2>1, <2>2
<1>5. \A k \in 1..Window : Held(k)' \subseteq Held(k)
  <2> TAKE k \in 1..Window
  <2>1. ASSUME NEW a \in Attempts,
               stamps'[a] >= k, sends'[a] < k \/ Leaving(a)'
        PROVE  a \in Held(k)
    BY <1>1, <1>3, <1>4, <2>1 DEF Held
  <2> QED BY <2>1 DEF Held
<1>6. Recent(stamps)' = Recent(stamps)
  BY <1>1 DEF Recent
<1> QED BY <1>5, <1>6, RateFollows DEF RateInv

\* A tick later it is one tick longer ago that they were held.
LEMMA TimePasses ==
  ASSUME CallsInv, RateInv, CallsInv', Tick
  PROVE  RateInv'
<1>1. /\ stamps \in [Attempts -> 0..Window] /\ sends \in [Attempts -> 0..Window]
      /\ stamps' = Aged(stamps) /\ sends' = Aged(sends) /\ task' = task
      /\ Window \in Nat
  BY CallsAssumption DEF CallsInv, CallsTypeOK, Tick, CallsAssumption
<1>2. \A a \in Attempts :
         /\ stamps'[a] = IF stamps[a] < Window THEN stamps[a] + 1 ELSE stamps[a]
         /\ sends'[a] = IF sends[a] < Window THEN sends[a] + 1 ELSE sends[a]
         /\ stamps[a] \in 0..Window /\ sends[a] \in 0..Window
  BY <1>1 DEF Aged
<1>3. \A k \in 1..Window : Held(k)' \subseteq Held(k - 1)
  <2> TAKE k \in 1..Window
  <2>1. ASSUME NEW a \in Attempts,
               stamps'[a] >= k, sends'[a] < k \/ Leaving(a)'
        PROVE  a \in Held(k - 1)
    <3>1. stamps[a] >= k - 1
      BY <1>1, <1>2, <2>1
    <3>2. sends'[a] < k => sends[a] < k - 1
      BY <1>1, <1>2
    <3>3. Leaving(a)' => Leaving(a)
      BY <1>1 DEF Leaving
    <3> QED BY <2>1, <3>1, <3>2, <3>3 DEF Held
  <2> QED BY <2>1 DEF Held
<1>4. Rpm > 0 => Cardinality(Recent(stamps)') <= Rpm
  <2>1. Recent(stamps)' \in SUBSET Recent(stamps)
    BY <1>1, <1>2 DEF Recent
  <2>2. Recent(stamps) \in SUBSET Attempts
    BY DEF Recent
  <2>3. /\ Cardinality(Recent(stamps)') <= Cardinality(Recent(stamps))
        /\ Cardinality(Recent(stamps)') \in Nat
        /\ Cardinality(Recent(stamps)) \in Nat
    BY <2>1, <2>2, SomeAttempts
  <2> QED BY <2>3, CallsAssumption DEF RateInv, CallsAssumption
<1> QED BY <1>3, <1>4, RateFollows

\* A new limiter has forgotten everything, and a new pool holds nothing.
LEMMA NothingIsHeld ==
  ASSUME CallsInv, RateInv, CallsInv', NEW ts, Submit(ts)
  PROVE  RateInv'
<1>1. /\ stamps' = Nothing /\ sends' = Nothing
      /\ \A t \in Tasks : task'[t].at # "send"
      /\ Window \in Nat
  BY CallsAssumption DEF Submit, CallsAssumption
<1>2. \A a \in Attempts : stamps'[a] = Window /\ sends'[a] = Window
  BY <1>1 DEF Nothing
<1>3. \A k \in 1..Window : Held(k)' \subseteq Held(k)
  <2> TAKE k \in 1..Window
  <2>1. \A a \in Attempts : ~ (sends'[a] < k) /\ ~Leaving(a)'
    BY <1>1, <1>2 DEF Leaving, Attempts, Tasks
  <2> QED BY <2>1 DEF Held
<1>4. Recent(stamps)' = {}
  BY <1>1, <1>2 DEF Recent
<1>5. Rpm > 0 => Cardinality(Recent(stamps)') <= Rpm
  BY <1>4, FS_EmptySet, CallsAssumption DEF CallsAssumption
<1> QED BY <1>3, <1>5, RateFollows

LEMMA NothingMoves ==
  ASSUME CallsInv, RateInv, CallsInv', UNCHANGED <<task, stamps, sends>>
  PROVE  RateInv'
<1>1. \A k \in 1..Window : Held(k)' \subseteq Held(k)
  BY DEF Held, Leaving
<1>2. Recent(stamps)' = Recent(stamps)
  BY DEF Recent
<1> QED BY <1>1, <1>2, RateFollows DEF RateInv

LEMMA RatePreserved ==
  ASSUME CallsInv, RateInv, CallsNext
  PROVE  RateInv'
<1>1. CallsInv' /\ task \in [Tasks -> [at: Positions, try: 0..MaxRetries]]
  BY CallsPreserved DEF CallsInv, CallsTypeOK
<1>2. ASSUME NEW t \in Tasks, RequestStep(t)
      PROVE  RateInv'
  <2>1. CASE PassGate(t)
    BY <1>1, <2>1, PassingIsHeld
  <2>2. CASE Send(t)
    BY <1>1, <2>2, SendingReleases
  <2>3. CASE TakeUp(t) \/ Refuse(t) \/ Answer(t)
    <3>1. PICK e : task' = [task EXCEPT ![t] = e] /\ e.at # "send"
      <4>1. CASE TakeUp(t) \/ Refuse(t)
        BY <1>1, <4>1 DEF TakeUp, Refuse, Move
      <4>2. CASE Answer(t)
        <5>1. CASE ControlPending
          BY <1>1, <4>2, <5>1 DEF Answer, Move
        <5>2. CASE ~ControlPending
          <6>1. PICK outcome \in Outcomes :
                   task' = [task EXCEPT ![t] = AfterAnswer(t, outcome)]
            BY <4>2, <5>2 DEF Answer
          <6>2. AfterAnswer(t, outcome).at # "send"
            BY <1>1 DEF AfterAnswer
          <6> QED BY <6>1, <6>2
        <5> QED BY <5>1, <5>2
      <4> QED BY <2>3, <4>1, <4>2
    <3>2. UNCHANGED <<stamps, sends>>
      BY <2>3 DEF TakeUp, Refuse, Answer
    <3>3. /\ \A k \in 1..Window : Held(k)' \subseteq Held(k)
          /\ Recent(stamps)' = Recent(stamps)
      BY <1>1, <3>1, <3>2, HeldByOthers
    <3> QED BY <1>1, <3>3, RateFollows DEF RateInv
  <2> QED BY <1>2, <2>1, <2>2, <2>3 DEF RequestStep
<1>3. CASE Tick
  BY <1>1, <1>3, TimePasses
<1>4. CASE Begin \/ JoinFrames \/ AskOverall \/ EndCalls \/ Kill
  <2>1. PICK ts : Submit(ts)
    BY <1>4 DEF Begin, JoinFrames, AskOverall, EndCalls, Kill
  <2> QED BY <1>1, <2>1, NothingIsHeld
<1>5. CASE Ask \/ LoseClaim
  BY <1>1, <1>5, NothingMoves DEF Ask, LoseClaim
<1> QED BY <1>2, <1>3, <1>4, <1>5 DEF CallsNext, CallStep

LEMMA RateStart == CallsInit => RateInv
<1> SUFFICES ASSUME CallsInit PROVE RateInv
  OBVIOUS
<1>1. /\ \A a \in Attempts : stamps[a] = Window /\ sends[a] = Window
      /\ \A t \in Tasks : task[t].at = "idle"
      /\ Window \in Nat /\ Rpm \in Nat /\ Concurrency \in Nat
  BY CallsAssumption DEF CallsInit, Nothing, Idle, CallsAssumption
<1>2. Recent(stamps) = {}
  BY <1>1 DEF Recent
<1>3. \A k \in 0..Window : Held(k) = {}
  <2> TAKE k \in 0..Window
  <2>1. \A a \in Attempts : ~ (sends[a] < k) /\ ~Leaving(a)
    BY <1>1 DEF Leaving, Attempts, Tasks
  <2> QED BY <2>1 DEF Held
<1> QED BY <1>1, <1>2, <1>3, FS_EmptySet DEF RateInv

\* Every recent send either passed recently or was held Window ticks ago.
LEMMA RateIsNear ==
  ASSUME CallsInv, RateInv
  PROVE  SendsStayNearRate
<1> SUFFICES ASSUME Rpm > 0
             PROVE  Cardinality(Recent(sends)) <= Rpm + Concurrency
  BY DEF SendsStayNearRate
<1>1. /\ stamps \in [Attempts -> 0..Window] /\ Window \in Nat
      /\ Rpm \in Nat /\ Concurrency \in Nat
  BY CallsAssumption DEF CallsInv, CallsTypeOK, CallsAssumption
<1> DEFINE P == Recent(stamps)
           H == Held(Window)
<1>2. /\ P \in SUBSET Attempts /\ H \in SUBSET Attempts
      /\ Cardinality(P) <= Rpm /\ Cardinality(H) <= Concurrency
  <2>1. Window \in 0..Window
    BY <1>1
  <2> QED BY <2>1 DEF Recent, Held, RateInv
<1>3. Recent(sends) \in SUBSET (P \cup H)
  BY <1>1 DEF Recent, Held
<1> HIDE DEF P, H
<1>4. /\ IsFiniteSet(P) /\ Cardinality(P) \in Nat
      /\ IsFiniteSet(H) /\ Cardinality(H) \in Nat
  BY <1>2, SomeAttempts
<1>5. Cardinality(P \cup H) <= Cardinality(P) + Cardinality(H)
  <2>1. P \cap H \in SUBSET P
    OBVIOUS
  <2>2. Cardinality(P \cap H) \in Nat
    BY <1>2, <2>1, SomeAttempts
  <2>3. Cardinality(P \cup H)
          = Cardinality(P) + Cardinality(H) - Cardinality(P \cap H)
    BY <1>4, FS_Union
  <2> QED BY <1>4, <2>2, <2>3
<1>6. /\ Cardinality(Recent(sends)) <= Cardinality(P \cup H)
      /\ Cardinality(Recent(sends)) \in Nat /\ Cardinality(P \cup H) \in Nat
  <2>1. P \cup H \in SUBSET Attempts
    BY <1>2
  <2> QED BY <1>3, <2>1, SomeAttempts
<1> QED BY <1>1, <1>2, <1>4, <1>5, <1>6

-----------------------------------------------------------------------------
(* The computations.                                                       *)

LEMMA WorkPreserved ==
  ASSUME WorkInv, DataStep
  PROVE  WorkInv'
<1> USE DEF WorkInv
<1>1. CASE JudgeAnswer
  BY <1>1 DEF JudgeAnswer, Steps
<1>2. CASE SelectFromFeatures
  BY <1>2 DEF SelectFromFeatures, Steps
<1>3. CASE FuseTimeline
  BY <1>3 DEF FuseTimeline, Steps
<1>4. CASE ReadEvidence
  <2>1. PICK v \in {"evidence", "rejected"} :
           work' = [work EXCEPT !.step = v]
    BY <1>4 DEF ReadEvidence
  <2>2. "step" \in DOMAIN work' /\ work'.step = v
    BY <2>1
  <2> QED BY <2>2 DEF Steps
<1>5. CASE RenderEvidence
  BY <1>5 DEF RenderEvidence, Steps
<1>6. CASE ReduceRound
  <2>1. /\ "step" \in DOMAIN work'
        /\ work'.step \in {"not_reduced", "limit", "reducing"}
    BY <1>6 DEF ReduceRound
  <2> QED BY <2>1 DEF Steps
<1>7. CASE SummariseFinally
  <2>1. "step" \in DOMAIN work' /\ work'.step = "summarised"
    BY <1>7 DEF SummariseFinally
  <2> QED BY <2>1 DEF Steps
<1> QED BY <1>1, <1>2, <1>3, <1>4, <1>5, <1>6, <1>7 DEF DataStep

\* A round takes evidence to evidence; nothing else writes the sections.
LEMMA ReductionPreserved ==
  ASSUME WorkInv, Reduction, DataStep
  PROVE  Reduction'
<1> USE DEF Reduction
<1>1. CASE JudgeAnswer
  BY <1>1 DEF JudgeAnswer
<1>2. CASE SelectFromFeatures
  BY <1>2 DEF SelectFromFeatures
<1>3. CASE FuseTimeline
  BY <1>3 DEF FuseTimeline
<1>4. CASE ReadEvidence
  <2>1. PICK v \in {"evidence", "rejected"} :
           work' = [work EXCEPT !.step = v]
    BY <1>4 DEF ReadEvidence
  <2>2. work'.step = v
    BY <2>1 DEF WorkInv
  <2> QED BY <2>2
<1>5. CASE RenderEvidence
  <2>1. PICK lengths \in EvidenceLengths :
           work' = [step |-> "reducing", round |-> 1, sources |-> Len(lengths),
                    sections |-> [i \in DOMAIN lengths |->
                                    [len |-> lengths[i], of |-> {i}]]]
    BY <1>5 DEF RenderEvidence
  <2>2. lengths \in Seq(Nat)  BY InputsAssumption
  <2>3. /\ work'.sources = Len(lengths)
        /\ work'.sections = [i \in DOMAIN lengths |->
                               [len |-> lengths[i], of |-> {i}]]
    BY <2>1
  <2>4. Evidence(work'.sections, Len(lengths))
    BY <2>2, <2>3, RenderedEvidence
  <2> QED BY <2>3, <2>4
<1>6. CASE ReduceRound
  <2>1. PICK lengths \in [DOMAIN Batches -> PartialLengths] :
           \/ /\ work'.step \in {"not_reduced", "limit"}
           \/ /\ work'.sections = NextSections(Batches, lengths, work.round)
              /\ work'.sources = work.sources
    BY <1>6 DEF ReduceRound, WorkInv
  <2>2. Evidence(work.sections, work.sources)
    BY <1>6 DEF ReduceRound
  <2>3. \A i \in DOMAIN Batches : lengths[i] \in Nat
    BY InputsAssumption
  <2>4. Evidence(NextSections(Batches, lengths, work.round), work.sources)
    BY <2>2, <2>3, NextRoundOfEvidence DEF Batches
  <2> QED BY <2>1, <2>4
<1>7. CASE SummariseFinally
  <2>1. work' = [work EXCEPT !.step = "summarised"] /\ work.step = "reducing"
    BY <1>7 DEF SummariseFinally
  <2>2. /\ work'.sections = work.sections
        /\ work'.sources = work.sources
    BY <2>1
  <2> QED BY <2>1, <2>2
<1> QED BY <1>1, <1>2, <1>3, <1>4, <1>5, <1>6, <1>7 DEF DataStep

\* Only the fusion writes a fused timeline.
LEMMA FusionPreserved ==
  ASSUME WorkInv, DataStep
  PROVE  Fusion'
<1> USE DEF Fusion
<1>1. CASE JudgeAnswer
  BY <1>1 DEF JudgeAnswer
<1>2. CASE SelectFromFeatures
  BY <1>2 DEF SelectFromFeatures
<1>3. CASE FuseTimeline
  <2>1. PICK transcript \in Transcripts, times \in KeyframeTimes :
           \E described \in {{}, DOMAIN times} :
              work' = [step |-> "fused", transcript |-> transcript,
                       times |-> times, described |-> described,
                       chunks |-> BuildChunks(transcript, times, described)]
    BY <1>3 DEF FuseTimeline
  <2> PICK described \in {{}, DOMAIN times} :
         work' = [step |-> "fused", transcript |-> transcript,
                  times |-> times, described |-> described,
                  chunks |-> BuildChunks(transcript, times, described)]
    BY <2>1
  <2>2. /\ work'.transcript = transcript /\ work'.times = times
        /\ work'.described = described
        /\ work'.chunks = BuildChunks(transcript, times, described)
    OBVIOUS
  <2> QED BY <2>2
<1>4. CASE ReadEvidence
  <2>1. PICK v \in {"evidence", "rejected"} :
           work' = [work EXCEPT !.step = v]
    BY <1>4 DEF ReadEvidence
  <2>2. work'.step = v
    BY <2>1 DEF WorkInv
  <2> QED BY <2>2
<1>5. CASE RenderEvidence
  BY <1>5 DEF RenderEvidence
<1>6. CASE ReduceRound
  <2>1. work'.step \in {"not_reduced", "limit", "reducing"}
    BY <1>6 DEF ReduceRound, WorkInv
  <2> QED BY <2>1
<1>7. CASE SummariseFinally
  <2>1. work'.step = "summarised"
    BY <1>7 DEF SummariseFinally, WorkInv
  <2> QED BY <2>1
<1> QED BY <1>1, <1>2, <1>3, <1>4, <1>5, <1>6, <1>7 DEF DataStep

\* Only the algorithm writes a selection.
LEMMA SelectionPreserved ==
  ASSUME WorkInv, DataStep
  PROVE  Selection'
<1> USE DEF Selection
<1>1. CASE JudgeAnswer
  BY <1>1 DEF JudgeAnswer
<1>2. CASE SelectFromFeatures
  <2>1. PICK frames \in FeatureInputs :
           work' = [step |-> "selected", frames |-> frames,
                    candidates |-> Candidates(frames),
                    selected |-> SelectKeyframes(frames)]
    BY <1>2 DEF SelectFromFeatures
  <2>2. /\ work'.frames = frames
        /\ work'.candidates = Candidates(frames)
        /\ work'.selected = SelectKeyframes(frames)
    BY <2>1
  <2> QED BY <2>2
<1>3. CASE FuseTimeline
  BY <1>3 DEF FuseTimeline
<1>4. CASE ReadEvidence
  <2>1. PICK v \in {"evidence", "rejected"} :
           work' = [work EXCEPT !.step = v]
    BY <1>4 DEF ReadEvidence
  <2>2. work'.step = v
    BY <2>1 DEF WorkInv
  <2> QED BY <2>2
<1>5. CASE RenderEvidence
  BY <1>5 DEF RenderEvidence
<1>6. CASE ReduceRound
  <2>1. work'.step \in {"not_reduced", "limit", "reducing"}
    BY <1>6 DEF ReduceRound, WorkInv
  <2> QED BY <2>1
<1>7. CASE SummariseFinally
  <2>1. work'.step = "summarised"
    BY <1>7 DEF SummariseFinally, WorkInv
  <2> QED BY <2>1
<1> QED BY <1>1, <1>2, <1>3, <1>4, <1>5, <1>6, <1>7 DEF DataStep

\* What _validate_completion and the reading of the text let through.
LEMMA OnlyWholeAnswers ==
  ASSUME NEW p \in Payload, PayloadOutcome(p) = "complete"
  PROVE  /\ p.text
         /\ p.reason \in Expected(p.protocol)
         /\ p.protocol = "openai_responses" => ~p.broken
         /\ p.protocol # "anthropic_messages" => ~p.refusal
<1>1. /\ Validated(p) = "complete"
      /\ p.text
  BY DEF PayloadOutcome
<1>2. /\ p.reason \notin Truncations
      /\ ~(p.protocol = "openai_responses" /\ p.broken)
      /\ ~(p.refusal /\ p.protocol # "anthropic_messages")
      /\ p.reason \in Expected(p.protocol)
  BY <1>1 DEF Validated
<1> QED BY <1>1, <1>2 DEF Payload

-----------------------------------------------------------------------------
(* The theorems.                                                           *)

\* The invariant holds of every behaviour of the stages' data and calls.
THEOREM Invariance == Spec => []Inv
<1>1. Init => Inv
  BY CallsStart, RateStart DEF Init, Inv, WorkInv, Reduction, Fusion, Selection, NoWork,
      Steps
<1>2. Inv /\ [Next]_allVars => Inv'
  <2> SUFFICES ASSUME Inv, [Next]_allVars PROVE Inv'
    OBVIOUS
  <2>1. CASE DataStep /\ UNCHANGED callVars
    <3>1. CallsInv' /\ RateInv'
      BY <2>1, CallsStutter, NothingMoves DEF Inv, callVars
    <3> QED BY <2>1, <3>1, WorkPreserved, ReductionPreserved, FusionPreserved,
       SelectionPreserved DEF Inv
  <2>2. CASE CallsNext /\ UNCHANGED work
    BY <2>2, CallsPreserved, RatePreserved
    DEF Inv, WorkInv, Reduction, Fusion, Selection
  <2>3. CASE UNCHANGED allVars
    <3>1. CallsInv' /\ RateInv'
      BY <2>3, CallsStutter, NothingMoves DEF Inv, allVars, callVars
    <3> QED BY <2>3, <3>1 DEF Inv, WorkInv, Reduction, Fusion, Selection, allVars
  <2> QED BY <2>1, <2>2, <2>3 DEF Next
<1> QED BY <1>1, <1>2, PTL DEF Spec

\* Every variable keeps its type.
THEOREM TypeCorrect == Spec => []TypeOK
<1>1. Inv => TypeOK
  BY DEF Inv, CallsInv, WorkInv, TypeOK
<1> QED BY <1>1, Invariance, PTL

\* No request is billed without being in flight, journalled or counted among
\* those a kill or a lost claim took, however many threads call at once
\* (client.py:169).
THEOREM NoCallIsForgotten == Spec => []CallsAreAccountedFor
<1>1. Inv => CallsAreAccountedFor
  BY DEF Inv, CallsInv
<1> QED BY <1>1, Invariance, PTL

\* The running totals are always what the file would give back
\* (telemetry.py:125).
THEOREM UsageSurvivesKills == Spec => []UsageIsReconstructible
<1>1. Inv => UsageIsReconstructible
  BY DEF Inv, CallsInv
<1> QED BY <1>1, Invariance, PTL

\* However large the pool, a control request is overtaken by at most one
\* request per thread (client.py:118, frame_summary/service.py:31).
THEOREM ControlStopsCalls == Spec => []LateCallsAreBounded
<1>1. Inv => LateCallsAreBounded
  BY Numbers, CallsAssumption
  DEF Inv, CallsInv, LateIsBounded, LateCallsAreBounded, CallsAssumption
<1> QED BY <1>1, Invariance, PTL

\* However many keyframes, threads and retries there are, in any minute not
\* more frame requests leave than the limiter lets pass and the pool's threads
\* can have held from before (frame_summary/service.py:31).
THEOREM FrameRateIsBounded == Spec => []SendsStayNearRate
<1>1. Inv => SendsStayNearRate
  BY RateIsNear DEF Inv
<1> QED BY <1>1, Invariance, PTL

\* Nothing but a whole answer that ended normally is taken for complete
\* (client.py:275).
THEOREM AnswersAreWhole == Spec => []CompletionIsStrict
<1>1. Inv => CompletionIsStrict
  <2> SUFFICES ASSUME Inv, work.step = "judged", work.outcome = "complete"
               PROVE  LET p == work.answer
                      IN  /\ p.text
                          /\ p.reason \in Expected(p.protocol)
                          /\ p.protocol = "openai_responses" => ~p.broken
                          /\ p.protocol # "anthropic_messages" => ~p.refusal
    BY DEF CompletionIsStrict
  <2>1. work.answer \in Payload /\ PayloadOutcome(work.answer) = "complete"
    BY DEF Inv, WorkInv
  <2> QED BY <2>1, OnlyWholeAnswers
<1> QED BY <1>1, Invariance, PTL

\* Of evidence of any number and length of sections, every section is in the
\* next request, in order, and no request is longer than the client lets
\* through (overall_summary/service.py:339).
THEOREM EvidenceIsNotLost == Spec => []ReductionIsFaithful
<1>1. Inv => ReductionIsFaithful
  <2> SUFFICES ASSUME Reduction, work.step \in {"reducing", "summarised"}
               PROVE  ReductionIsFaithful
    BY DEF Inv, ReductionIsFaithful
  <2>1. Evidence(work.sections, work.sources)
    BY DEF Reduction
  <2>2. /\ Covered(Batches) = 1..work.sources
        /\ \A i, j \in DOMAIN Batches :
              i < j => /\ Min(Batches[i].of) <= Min(Batches[j].of)
                       /\ Max(Batches[i].of) <= Max(Batches[j].of)
        /\ \A i \in DOMAIN Batches : PassesCheck(Batches[i])
    BY <2>1, BatchesAreFaithful DEF Batches
  <2> QED BY <2>2 DEF ReductionIsFaithful, Covered, PassesCheck
<1> QED BY <1>1, Invariance, PTL

\* Of a transcript of any length and any number of keyframes, every segment
\* is in the one chunk of the keyframe nearest to it, whose span covers it,
\* and no chunk swaps its segments (fusion/service.py:106).
THEOREM ChaptersAreNearest == Spec => []ChaptersFollowKeyframes
<1>1. Inv => ChaptersFollowKeyframes
  <2> SUFFICES ASSUME Fusion, work.step = "fused"
               PROVE  ChaptersFollowKeyframes
    BY DEF Inv, ChaptersFollowKeyframes
  <2> PICK transcript : transcript = work.transcript  OBVIOUS
  <2> PICK times : times = work.times  OBVIOUS
  <2> PICK chunks : chunks = work.chunks  OBVIOUS
  <2>1. /\ transcript \in Seq(Segment) /\ Distinct(transcript)
        /\ times \in Seq(Nat) /\ Increasing(times)
        /\ chunks = BuildChunks(transcript, times, work.described)
    BY InputsAssumption DEF Fusion, InputsAssumption, Distinct, Increasing
  <2>2. /\ \A i \in DOMAIN transcript : HeldByOne(chunks, times, transcript[i])
        /\ \A c \in DOMAIN chunks : InOrderOfStart(chunks[c].refs, transcript)
    BY <2>1, FusionFollows
  <2>3. \A i \in DOMAIN transcript :
           /\ Cardinality(Holding(chunks, transcript[i].id)) = 1
           /\ \A c \in Holding(chunks, transcript[i].id) :
                 /\ chunks[c].start <= transcript[i].start
                 /\ transcript[i].end <= chunks[c].end
                 /\ \A k \in chunks[c].frames : IsNearest(transcript[i], times, k)
                 /\ times # <<>> => chunks[c].frames # {}
    <3> TAKE i \in DOMAIN transcript
    <3>1. PICK c \in DOMAIN chunks :
             /\ Holding(chunks, transcript[i].id) = {c}
             /\ chunks[c].start <= transcript[i].start
             /\ transcript[i].end <= chunks[c].end
             /\ \A k \in chunks[c].frames : IsNearest(transcript[i], times, k)
             /\ times # <<>> => chunks[c].frames # {}
      BY <2>2 DEF HeldByOne
    <3>2. Cardinality({c}) = 1  BY FS_Singleton
    <3> QED BY <3>1, <3>2
  <2>4. \A i \in DOMAIN work.transcript :
           LET seg == work.transcript[i]
               holding == Holding(work.chunks, seg.id)
           IN  /\ Cardinality(holding) = 1
               /\ \A c \in holding :
                     /\ work.chunks[c].start <= seg.start
                     /\ seg.end <= work.chunks[c].end
                     /\ \A k \in work.chunks[c].frames :
                           IsNearest(seg, work.times, k)
                     /\ work.times # <<>> => work.chunks[c].frames # {}
    BY <2>3, Zenon
  <2>5. \A c \in DOMAIN work.chunks :
           InOrderOfStart(work.chunks[c].refs, work.transcript)
    BY <2>2, Zenon
  <2>6. \A c \in DOMAIN work.chunks, i, j \in DOMAIN work.transcript :
           LET refs == work.chunks[c].refs
           IN  \A a, b \in DOMAIN refs :
                  /\ a < b
                  /\ refs[a] = work.transcript[i].id
                  /\ refs[b] = work.transcript[j].id
                  => work.transcript[i].start <= work.transcript[j].start
    BY <2>5, Zenon DEF InOrderOfStart
  <2> QED BY <2>4, <2>6, Zenon
          DEF ChaptersFollowKeyframes, Holding, IsNearest, DistanceTo
<1> QED BY <1>1, Invariance, PTL

\* Of any frames, the selection is not empty; no two of it are too near or too
\* similar; and what fits and was left out is not worth it and has another
\* in its bucket of time (keyframes/algorithm.py:147).
THEOREM KeyframesAreSpread == Spec => []SelectionIsSound
<1>1. Inv => SelectionIsSound
  <2> SUFFICES ASSUME Selection, work.step = "selected"
               PROVE  SelectionIsSound
    BY DEF Inv, SelectionIsSound
  <2> PICK frames : frames = work.frames  OBVIOUS
  <2> PICK candidates : candidates = work.candidates  OBVIOUS
  <2> PICK selected : selected = work.selected  OBVIOUS
  <2>1. /\ frames \in Seq(FrameFeature)
        /\ candidates = Candidates(frames)
        /\ selected = SelectKeyframes(frames)
    BY InputsAssumption DEF Selection, InputsAssumption
  <2>2. CASE frames = <<>>
    <3>1. candidates = <<>> /\ selected = {}
      BY <2>1, <2>2 DEF Candidates, SelectKeyframes
    <3>2. ToSet(candidates) = {}  BY <3>1 DEF ToSet
    <3> QED BY <2>2, <3>1, <3>2 DEF SelectionIsSound
  <2>3. CASE frames # <<>>
    <3>1. /\ selected # {}
          /\ \A c, d \in selected : c # d => Separated(c, d)
          /\ \A c \in ToSet(candidates) \ selected :
                (\A d \in selected : Separated(c, d)) =>
                   /\ ~Worth(c, candidates, selected)
                   /\ \E d \in selected :
                         Bucket(d.frame.ts) = Bucket(c.frame.ts)
      BY <2>1, <2>3, SelectionIs
    <3> QED BY <3>1, Zenon DEF SelectionIsSound, Separated, Apart
  <2> QED BY <2>2, <2>3
<1> QED BY <1>1, Invariance, PTL
=============================================================================
