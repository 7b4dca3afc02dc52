----------------------------- MODULE ModelCalls -----------------------------
(***************************************************************************)
(* The calls of one job to a model provider: request_model of              *)
(* packages/model_api/client.py, run by the thread pool and behind the     *)
(* rate limiter of packages/frame_summary/service.py for the keyframes and *)
(* by the worker's own thread for the overall summary, with the journal of *)
(* packages/model_api/telemetry.py.                                        *)
(*                                                                         *)
(* A step is what one thread does between two points at which another      *)
(* thread, the API or the provider may come in between.  Time is counted   *)
(* in ticks; the limiter's minute has Window of them.                      *)
(***************************************************************************)
EXTENDS Naturals, FiniteSets, ModelProtocol

CONSTANTS
    Frames,        \* the keyframes that can be summarised
    Overall,       \* the request for the overall summary
    Concurrency,   \* max_workers of the thread pool
    Rpm,           \* calls per minute, 0 for no limit
    Window,        \* bound: ticks in the limiter's minute
    MaxRetries,    \* max_retries of the request options
    MaxRuns        \* bound: attempts at the job

Tasks == Frames \cup {Overall}

ASSUME CallsAssumption ==
    /\ IsFiniteSet(Frames)
    /\ Overall \notin Frames
    /\ Concurrency \in Nat \ {0}
    /\ Rpm \in Nat
    /\ Window \in Nat \ {0}
    /\ MaxRetries \in Nat
    /\ MaxRuns \in Nat

VARIABLES
    stage,      \* what the worker is waiting for, if it runs at all
    runs,       \* attempts at the job so far
    task,       \* where the thread of each request stands, and its retries
    stamps,     \* the limiter: ticks since each attempt at a request passed it
    asked,      \* the control request that waits in the job's row
    owned,      \* the row still names this worker and attempt
    journal,    \* meta/model_calls.jsonl: readable rows and how it ends
    counted,    \* calls in the running totals of ModelCallJournal
    sends,      \* ghost: ticks since each attempt at a frame request was sent
    tally       \* ghost: requests sent, lost, and sent after a control request

rowVars == <<runs, asked, owned>>
callVars == <<stage, rowVars, task, stamps, journal, counted, sends, tally>>

\* FRAME_SUMMARY or DELIVERABLES waits for answers; between the two; neither.
Stages == {"off", "frames", "between", "overall"}

Positions == {"idle", "queued", "gate", "send", "calling", "done", "failed"}
Requests == {"none", "pause", "cancel"}

\* What shares the limiter: an attempt at a keyframe's request.
Attempts == Frames \X (0..MaxRetries)
Attempt(t) == <<t, task[t].try>>

\* What is Window ticks old, or never was, is out of the limiter's minute.
Nothing == [a \in Attempts |-> Window]
Recent(f) == {a \in Attempts : f[a] < Window}

Idle == [t \in Tasks |-> [at |-> "idle", try |-> 0]]
At(pc) == {t \in Tasks : task[t].at = pc}
Move(t, pc) == task' = [task EXCEPT ![t].at = pc]

\* Threads of the pool that have taken a request and not finished it.
Busy == At("gate") \cup At("send") \cup At("calling")

CallsInit ==
    /\ stage = "off"
    /\ runs = 0
    /\ task = Idle
    /\ stamps = Nothing
    /\ asked = "none"
    /\ owned = TRUE
    /\ journal = [rows |-> 0, tail |-> "ended"]
    /\ counted = 0
    /\ sends = Nothing
    /\ tally = [sent |-> 0, lost |-> 0, late |-> 0]

-----------------------------------------------------------------------------
(* The control request, read from the database before every request.       *)

\* Mutant of ControlPending: only a lost claim stops the calls.
ClaimLost == ~owned

\* _check_model_control raises.
ControlPending == ~owned \/ asked # "none"

\* The API records a pause or a cancel; a cancel supersedes a pause.
Ask ==
    /\ stage # "off"
    /\ \/ asked = "none" /\ asked' \in {"pause", "cancel"}
       \/ asked = "pause" /\ asked' = "cancel"
    /\ UNCHANGED <<stage, runs, owned, task, stamps, journal, counted, sends,
                   tally>>

\* The claim is swept or the row deleted under the worker.
LoseClaim ==
    /\ stage # "off"
    /\ owned
    /\ owned' = FALSE
    /\ UNCHANGED <<stage, runs, asked, task, stamps, journal, counted, sends,
                   tally>>

-----------------------------------------------------------------------------
(* The journal of calls.                                                   *)

\* Mutant of Appended: the row is glued to whatever the last kill left.
AppendedAsIs == [rows |-> CASE journal.tail = "ended"   -> journal.rows + 1
                            [] journal.tail = "unended" -> journal.rows - 1
                            [] OTHER                    -> journal.rows,
                 tail |-> "ended"]

\* ModelCallJournal.record: a line that a kill left without its newline is
\* ended first, so that it is readable or garbage by itself.
Appended == [rows |-> journal.rows + 1, tail |-> "ended"]

\* What a kill can leave when a thread was writing a row: nothing of it, only
\* the newline before it, a part of it, or all of it but its own newline.
TornAppends == {journal, [journal EXCEPT !.tail = "ended"],
                [journal EXCEPT !.tail = "partial"],
                [rows |-> journal.rows + 1, tail |-> "unended"]}

-----------------------------------------------------------------------------
(* One request: the loop of request_model.                                 *)

\* The requests that share the limiter's gate.
Gated(t) == t \in Frames

\* The pool takes a submitted request as soon as one of its threads is free.
\* A failed one does not cancel those that wait.
TakeUp(t) ==
    /\ task[t].at = "queued"
    /\ Cardinality(Busy) < Concurrency
    /\ Move(t, "gate")
    /\ UNCHANGED <<stage, rowVars, stamps, journal, counted, sends, tally>>

\* _RpmLimiter.acquire lets the caller through.
MayPass(t) == Gated(t) /\ Rpm > 0 => Cardinality(Recent(stamps)) < Rpm

\* check_control, the limiter's loop, check_control again: all that happens
\* before the request is built.
PassGate(t) ==
    /\ task[t].at = "gate"
    /\ ~ControlPending
    /\ MayPass(t)
    /\ Move(t, "send")
    /\ stamps' = IF Gated(t) /\ Rpm > 0
                 THEN [stamps EXCEPT ![Attempt(t)] = 0] ELSE stamps
    /\ UNCHANGED <<stage, rowVars, journal, counted, sends, tally>>

\* MODEL_CONTROL_PENDING, also out of the limiter's and the backoff's wait.
Refuse(t) ==
    /\ task[t].at = "gate"
    /\ ControlPending
    /\ Move(t, "failed")
    /\ UNCHANGED <<stage, rowVars, stamps, journal, counted, sends, tally>>

\* The request leaves the process.
Send(t) ==
    /\ task[t].at = "send"
    /\ Move(t, "calling")
    /\ sends' = IF Gated(t) THEN [sends EXCEPT ![Attempt(t)] = 0] ELSE sends
    /\ tally' = [tally EXCEPT !.sent = @ + 1,
                              !.late = IF asked = "none" THEN @ ELSE @ + 1]
    /\ UNCHANGED <<stage, rowVars, stamps, journal, counted>>

\* Mutant of AfterAnswer: the retry goes out without the gate.
AfterAnswerUngated(t, outcome) ==
    CASE outcome = "complete" -> [task[t] EXCEPT !.at = "done"]
      [] outcome = "transient" /\ task[t].try < MaxRetries
            -> [at |-> "send", try |-> task[t].try + 1]
      [] OTHER -> [task[t] EXCEPT !.at = "failed"]

\* Mutant of AfterAnswer: there is one retry too many.
AfterAnswerOnceMore(t, outcome) ==
    CASE outcome = "complete" -> [task[t] EXCEPT !.at = "done"]
      [] outcome = "transient" /\ task[t].try <= MaxRetries
            -> [at |-> "gate", try |-> task[t].try + 1]
      [] OTHER -> [task[t] EXCEPT !.at = "failed"]

\* What the loop does with the outcome of an attempt.
AfterAnswer(t, outcome) ==
    CASE outcome = "complete" -> [task[t] EXCEPT !.at = "done"]
      [] outcome = "transient" /\ task[t].try < MaxRetries
            -> [at |-> "gate", try |-> task[t].try + 1]
      [] OTHER -> [task[t] EXCEPT !.at = "failed"]

\* Mutant of Records: control is looked at before the call is recorded.
RecordsUnlessAsked == ~ControlPending

\* _record_model_call raises without a row for a worker that lost its claim.
Records == owned

\* The answer arrives, or the client gives up: the attempt is recorded,
\* whatever it is, and only then is control checked again.
Answer(t) ==
    /\ task[t].at = "calling"
    /\ IF ControlPending
       THEN Move(t, "failed")
       ELSE \E outcome \in Outcomes :
               task' = [task EXCEPT ![t] = AfterAnswer(t, outcome)]
    /\ IF Records
       THEN /\ journal' = Appended
            /\ counted' = counted + 1
            /\ UNCHANGED tally
       ELSE /\ tally' = [tally EXCEPT !.lost = IF owned THEN @ ELSE @ + 1]
            /\ UNCHANGED <<journal, counted>>
    /\ UNCHANGED <<stage, rowVars, stamps, sends>>

RequestStep(t) == TakeUp(t) \/ PassGate(t) \/ Refuse(t) \/ Send(t) \/ Answer(t)

\* Mutant of Aged: acquisitions keep their age, so the window never slides.
Ageless(f) == f

Aged(f) == [a \in Attempts |-> IF f[a] < Window THEN f[a] + 1 ELSE f[a]]

\* Time passes; what is older than the window is forgotten.
Tick ==
    /\ Recent(stamps) \cup Recent(sends) # {}
    /\ stamps' = Aged(stamps)
    /\ sends' = Aged(sends)
    /\ UNCHANGED <<stage, rowVars, task, journal, counted, tally>>

-----------------------------------------------------------------------------
(* The stages that call.                                                   *)

\* A new pool with a new limiter.
Submit(ts) ==
    /\ task' = [t \in Tasks |-> [at |-> IF t \in ts THEN "queued" ELSE "idle",
                                 try |-> 0]]
    /\ stamps' = Nothing
    /\ sends' = Nothing

\* The pool has shut down: every future has a result or an exception.
Drained == At("queued") \cup Busy = {}

\* An attempt begins, ModelCallJournal reads the totals back from the file,
\* and FrameSummaryService.run submits a request for each keyframe.
Begin ==
    /\ stage = "off"
    /\ owned
    /\ asked # "cancel"
    /\ runs < MaxRuns
    /\ runs' = runs + 1
    /\ asked' = "none"
    /\ stage' = "frames"
    /\ counted' = journal.rows
    /\ \E ts \in SUBSET Frames : ts # {} /\ Submit(ts)
    /\ tally' = [tally EXCEPT !.late = 0]
    /\ UNCHANGED <<owned, journal>>

\* The pool is joined: without an exception the pipeline goes on.
JoinFrames ==
    /\ stage = "frames"
    /\ Drained
    /\ stage' = IF At("failed") = {} THEN "between" ELSE "off"
    /\ Submit({})
    /\ UNCHANGED <<rowVars, journal, counted, tally>>

\* OverallSummaryService asks for one summary after another; one is modelled.
AskOverall ==
    /\ stage = "between"
    /\ stage' = "overall"
    /\ Submit({Overall})
    /\ UNCHANGED <<rowVars, journal, counted, tally>>

\* Its answer, or a safety point or exception between the two stages, ends
\* the attempt as far as model calls go.
EndCalls ==
    /\ \/ stage = "between"
       \/ stage = "overall" /\ Drained
    /\ stage' = "off"
    /\ Submit({})
    /\ UNCHANGED <<rowVars, journal, counted, tally>>

\* SIGKILL: answers in flight are not recorded, except for a row that was
\* written up to its newline.
Kill ==
    /\ stage # "off"
    /\ stage' = "off"
    /\ \E torn \in IF At("calling") = {} \/ ~owned THEN {journal}
                   ELSE TornAppends :
          /\ journal' = torn
          /\ tally' = [tally EXCEPT
                !.lost = @ + Cardinality(At("calling"))
                           - (torn.rows - journal.rows)]
    /\ Submit({})
    /\ UNCHANGED <<rowVars, counted>>

CallStep == \/ \E t \in Tasks : RequestStep(t)
            \/ Tick \/ JoinFrames \/ AskOverall \/ EndCalls

CallsNext == Begin \/ CallStep \/ Ask \/ LoseClaim \/ Kill

-----------------------------------------------------------------------------
(* Properties.                                                             *)

CallsTypeOK ==
    /\ stage \in Stages
    /\ runs \in 0..MaxRuns
    /\ task \in [Tasks -> [at: Positions, try: 0..MaxRetries]]
    /\ stamps \in [Attempts -> 0..Window]
    /\ asked \in Requests
    /\ owned \in BOOLEAN
    /\ journal \in [rows: Nat, tail: {"ended", "partial", "unended"}]
    /\ counted \in Nat
    /\ sends \in [Attempts -> 0..Window]
    /\ tally \in [sent: Nat, lost: Nat, late: Nat]

\* Every request that left the process is in flight, in the journal or among
\* those that a kill or the loss of the claim took: a failed, truncated or
\* late answer (client.py:169, on_attempt before check_control) is billed and
\* must be journalled as well as a good one.
CallsAreAccountedFor ==
    tally.sent = journal.rows + Cardinality(At("calling")) + tally.lost

\* The totals that the running attempt publishes as model_usage are those
\* that the next attempt will read back from the journal, whatever a kill
\* left at its end (telemetry.py:125).
UsageIsReconstructible == stage # "off" => counted = journal.rows

\* At most Rpm acquisitions fit in the window, and each thread may have held
\* one from before it: retries included, no more frame requests than that
\* leave in a minute (frame_summary/service.py:20, 220).
SendsStayNearRate ==
    Rpm > 0 => Cardinality(Recent(sends)) <= Rpm + Concurrency

\* After a control request each thread sends at most the request it had
\* already checked: neither retries nor waiting requests go out any more.
LateCallsAreBounded == tally.late <= Concurrency
=============================================================================
