----------------------------- MODULE EventStream -----------------------------
(***************************************************************************)
(* How one job's state reaches a browser: the worker processes and the API *)
(* commit to the job row and append events to job_events in transactions   *)
(* of their own (packages/infra/sqlite_repository.py), the API process     *)
(* replays and forwards the events of a connection                         *)
(* (apps/api/ws_gateway.py, packages/infra/event_bus.py), and the page     *)
(* merges snapshot and events (apps/web/lib/hooks/useJobRealtime.ts,       *)
(* apps/web/lib/state/jobReducer.ts).                                      *)
(*                                                                         *)
(* The event with cursor n is log[n]: cursors of one channel are           *)
(* increasing, and other channels only leave gaps that nobody looks at.    *)
(* What JobControl says of the row is kept only as far as it decides who   *)
(* may commit next and what is announced.  Events without a status (logs,  *)
(* stages, errors, confirmations) are represented by those of              *)
(* _publish_progress and of handle_command.                                *)
(***************************************************************************)
EXTENDS JobStates, Naturals, FiniteSets, Sequences

CONSTANTS
    Workers,     \* worker identities
    MaxVersion,  \* bound: state_version of the job
    BatchLimit,  \* events read at a time (1000 in the code)
    MaxDrops,    \* bound: how often the connection breaks
    Crashes,     \* whether worker processes may be killed
    None         \* SQL NULL in worker_id

ASSUME StreamAssumption ==
    /\ MaxVersion \in Nat
    /\ BatchLimit \in Nat \ {0}
    /\ MaxDrops \in Nat
    /\ Crashes \in BOOLEAN
    /\ None \notin Workers

VARIABLES
    row,     \* the row of the job
    log,     \* job_events of the channel
    pub,     \* what each worker process does, and the event it will append
    ack,     \* the control_ack the API will append
    conn,    \* the connection as the gateway keeps it
    sub,     \* the polling thread of its subscription
    wire,    \* messages sent to the page and not yet received
    page,    \* the state of the page
    drops    \* broken connections so far

vars == <<row, log, pub, ack, conn, sub, wire, page, drops>>

-----------------------------------------------------------------------------
(* Types.                                                                  *)

\* at counts the commits that changed the status; it identifies the state a
\* status was read in and is no column of the row.
Row == [status: Statuses, at: Nat, sv: Nat, owner: Workers \cup {None},
        resume: BOOLEAN]

\* A job_state_changed event, or another one that carries no status.  late is
\* no column either: the status was no longer that of the row at the append.
Event == [kind: {"state", "other"}, status: Statuses, at: Nat, sv: Nat,
          late: BOOLEAN]

\* sv is the version append_job_event has read for the event.
Publisher == [pc: {"idle", "work", "publish", "append", "end", "latest"},
              next: {"idle", "work", "end"},
              kind: {"state", "other"}, status: Statuses, at: Nat, sv: Nat]

Connection == [pc: {"off", "catchup", "replay", "snapshot", "activate",
                    "ready"},
               sent: Nat, catchup: Nat, cursor: Nat, buffer: SUBSET Nat]
Subscription == [on: BOOLEAN, cursor: Nat, upto: Nat]

Message == [kind: {"snapshot", "state", "other"}, cursor: Nat,
            status: Statuses, at: Nat, sv: Nat]
Page == [on: BOOLEAN, cursor: Nat, sv: Nat, status: Statuses \cup {"unknown"},
         at: Nat]

-----------------------------------------------------------------------------
(* Commits of the worker processes.                                        *)

Publishing(kind, status, at, next) ==
    [pc |-> "publish", next |-> next, kind |-> kind, status |-> status,
     at |-> at, sv |-> 0]
Worker(pc) ==
    [pc |-> pc, next |-> "idle", kind |-> "other", status |-> "queued",
     at |-> 0, sv |-> 0]
Become(w, p) == pub' = [pub EXCEPT ![w] = p]
CanCommit == row.sv < MaxVersion

\* claim_next_job, then job_state_changed (run_once).
Claim(w) ==
    /\ pub[w].pc = "idle"
    /\ row.status = "queued" \/ (row.status = "paused" /\ row.resume)
    /\ CanCommit
    /\ row' = [row EXCEPT !.status = "running", !.at = @ + 1, !.sv = @ + 1,
                          !.owner = w, !.resume = FALSE]
    /\ Become(w, Publishing("state", "running", row.at + 1, "work"))
    /\ UNCHANGED <<log, ack, conn, sub, wire, page, drops>>

\* _set_job_status by the owner: it announces the status it wrote.  After a
\* safety signal the status is written twice.
SetStatus(w) ==
    /\ pub[w].pc = "work"
    /\ row.owner = w
    /\ CanCommit
    /\ \E t \in {"running", "paused", "succeeded", "failed", "cancelled"} :
          /\ t = row.status \/ row.status = "running"
          /\ row' = [row EXCEPT !.status = t, !.sv = @ + 1,
                                !.at = IF t = row.status THEN @ ELSE @ + 1]
          /\ \E next \in IF t = "running" THEN {"work"} ELSE {"work", "end"} :
                Become(w, Publishing("state", t, row'.at, next))
    /\ UNCHANGED <<log, ack, conn, sub, wire, page, drops>>

\* _publish_progress.
Progress(w) ==
    /\ pub[w].pc = "work"
    /\ row.owner = w /\ row.status = "running"
    /\ CanCommit
    /\ row' = [row EXCEPT !.sv = @ + 1]
    /\ Become(w, Publishing("other", row.status, row.at, "work"))
    /\ UNCHANGED <<log, ack, conn, sub, wire, page, drops>>

\* The fence fails: the attempt ends without a status.
LoseClaim(w) ==
    /\ pub[w].pc = "work"
    /\ row.owner # w
    /\ Become(w, Worker("end"))
    /\ UNCHANGED <<row, log, ack, conn, sub, wire, page, drops>>

\* release_job_claim ...
Release(w) ==
    /\ pub[w].pc = "end"
    /\ IF row.owner = w
       THEN row' = [row EXCEPT !.owner = None] /\ Become(w, Worker("latest"))
       ELSE UNCHANGED row /\ Become(w, Worker("idle"))
    /\ UNCHANGED <<log, ack, conn, sub, wire, page, drops>>

\* ... then read the row once more and announce its status.
ReadLatest(w) ==
    /\ pub[w].pc = "latest"
    /\ Become(w, Publishing("state", row.status, row.at, "idle"))
    /\ UNCHANGED <<row, log, ack, conn, sub, wire, page, drops>>

\* mark_stale_jobs_interrupted for an owner whose heartbeat is old.
SweepStale(w) ==
    /\ pub[w].pc = "idle"
    /\ row.status = "running" /\ row.owner # None
    /\ CanCommit
    /\ row' = [row EXCEPT !.status = "interrupted", !.at = @ + 1, !.sv = @ + 1,
                          !.owner = None]
    /\ Become(w, Publishing("state", "interrupted", row.at + 1, "idle"))
    /\ UNCHANGED <<log, ack, conn, sub, wire, page, drops>>

\* append_job_event reads the state_version that goes with the event when it
\* publishes, not when the status was written ...
ReadVersion(w) ==
    /\ pub[w].pc = "publish"
    /\ Become(w, [pub[w] EXCEPT !.pc = "append", !.sv = row.sv])
    /\ UNCHANGED <<row, log, ack, conn, sub, wire, page, drops>>

\* Mutant of Appended: an event that comes without a version is stored so.
AppendedUnversioned(kind, status, at, sv) ==
    Append(log, [kind |-> kind, status |-> status, at |-> at,
                 sv |-> IF kind = "state" THEN None ELSE sv,
                 late |-> at < row.at])

\* ... and inserts the event in a transaction that begins after that read.
Appended(kind, status, at, sv) ==
    Append(log, [kind |-> kind, status |-> status, at |-> at, sv |-> sv,
                 late |-> at < row.at])

AppendEvent(w) ==
    /\ pub[w].pc = "append"
    /\ log' = Appended(pub[w].kind, pub[w].status, pub[w].at, pub[w].sv)
    /\ Become(w, Worker(pub[w].next))
    /\ UNCHANGED <<row, ack, conn, sub, wire, page, drops>>

\* The process is killed: what it did not append is never announced.
Crash(w) ==
    /\ Crashes
    /\ pub[w].pc # "idle"
    /\ Become(w, Worker("idle"))
    /\ UNCHANGED <<row, log, ack, conn, sub, wire, page, drops>>

-----------------------------------------------------------------------------
(* Commits of the API process.  Its handlers, connect included, run one at *)
(* a time on the event loop.                                               *)

LoopIsFree == ~ack.due /\ conn.pc \in {"off", "ready"}

\* handle_command: a request for the owner is persisted, or the status of an
\* unowned job is changed at once; a rejected command changes nothing.
Command ==
    /\ LoopIsFree
    /\ CanCommit
    /\ \/ /\ row.status = "running"
          /\ row' = [row EXCEPT !.sv = @ + 1]
       \/ /\ row.status = "paused"
          /\ \E resume \in BOOLEAN :
                /\ resume \/ row.owner # None
                /\ row' = [row EXCEPT !.sv = @ + 1, !.resume = resume]
       \/ /\ row.status \in {"queued", "paused", "interrupted"}
          /\ row.owner = None
          /\ row' = [row EXCEPT !.sv = @ + 1, !.at = @ + 1,
                                !.status = "cancelled", !.resume = FALSE]
       \/ /\ row.status = "interrupted"
          /\ row' = [row EXCEPT !.sv = @ + 1, !.at = @ + 1, !.status = "queued"]
    /\ ack' = [due |-> TRUE, sv |-> row'.sv]
    /\ UNCHANGED <<log, pub, conn, sub, wire, page, drops>>

\* Then control_ack is appended with the state_version of a snapshot that was
\* read in between; no job_state_changed is.
AckCommand ==
    /\ ack.due
    /\ \E sv \in ack.sv..row.sv :
          log' = Appended("other", row.status, row.at, sv)
    /\ ack' = [due |-> FALSE, sv |-> 0]
    /\ UNCHANGED <<row, pub, conn, sub, wire, page, drops>>

-----------------------------------------------------------------------------
(* JobWebSocketGateway.connect.                                            *)

EventMessage(n) == [kind |-> log[n].kind, cursor |-> n,
                    status |-> log[n].status, at |-> log[n].at,
                    sv |-> log[n].sv]
SnapshotMessage(n) == [kind |-> "snapshot", cursor |-> n, status |-> row.status,
                       at |-> row.at, sv |-> row.sv]
EventMessages(m, n) == [i \in 1..(n - m) |-> EventMessage(m + i)]

Least(a, b) == IF a <= b THEN a ELSE b
Greatest(a, b) == IF a >= b THEN a ELSE b

NoConnection == [pc |-> "off", sent |-> 0, catchup |-> 0, cursor |-> 0,
                 buffer |-> {}]
NoSubscription == [on |-> FALSE, cursor |-> 0, upto |-> 0]

\* The page opens its socket.  The gateway reads the barrier and subscribes
\* from there; a page without cursor gets no history.
Connect ==
    /\ ~page.on
    /\ LoopIsFree
    /\ LET barrier == Len(log)
       IN  /\ conn' = [pc |-> "catchup", catchup |-> 0, cursor |-> barrier,
                       buffer |-> {},
                       sent |-> IF page.cursor > 0 THEN page.cursor
                                ELSE barrier]
           /\ sub' = [on |-> TRUE, cursor |-> barrier, upto |-> barrier]
    /\ page' = [page EXCEPT !.on = TRUE]
    /\ UNCHANGED <<row, log, pub, ack, wire, drops>>

\* The watermark up to which events are replayed.
ReadCatchup ==
    /\ conn.pc = "catchup"
    /\ conn' = [conn EXCEPT !.pc = "replay", !.catchup = Len(log)]
    /\ UNCHANGED <<row, log, pub, ack, sub, wire, page, drops>>

\* Mutant of Replay: it trusts one batch to hold everything.
ReplayOnce ==
    /\ conn.pc = "replay"
    /\ LET last == Least(conn.sent + BatchLimit, conn.catchup)
       IN  /\ wire' = wire \o EventMessages(conn.sent, last)
           /\ conn' = [conn EXCEPT !.pc = "snapshot", !.sent = last]
    /\ UNCHANGED <<row, log, pub, ack, sub, page, drops>>

\* _send_replay, one batch.
Replay ==
    /\ conn.pc = "replay"
    /\ LET last == Least(conn.sent + BatchLimit, conn.catchup)
       IN  /\ wire' = wire \o EventMessages(conn.sent, last)
           /\ conn' = [conn EXCEPT !.sent = last,
                          !.pc = IF last = conn.catchup THEN "snapshot" ELSE @]
    /\ UNCHANGED <<row, log, pub, ack, sub, page, drops>>

\* get_job_snapshot.
SendSnapshot ==
    /\ conn.pc = "snapshot"
    /\ wire' = Append(wire, SnapshotMessage(conn.catchup))
    /\ conn' = [conn EXCEPT !.pc = "activate"]
    /\ UNCHANGED <<row, log, pub, ack, sub, page, drops>>

\* The cursors of buffered events in their order.
Ascending(S) ==
    [i \in 1..Cardinality(S) |->
        CHOOSE n \in S : Cardinality({m \in S : m < n}) = i - 1]

\* _activate_connection: the lock keeps the delivering thread out while the
\* cursor is raised and the buffered events above it are sent in their order.
Activate ==
    LET cursor == Greatest(conn.cursor, conn.catchup)
        above == Ascending({n \in conn.buffer : n > cursor})
    IN  /\ conn.pc = "activate"
        /\ conn' = [conn EXCEPT !.pc = "ready", !.buffer = {},
                       !.cursor = IF above = <<>> THEN cursor
                                ELSE above[Len(above)]]
        /\ wire' = wire \o [i \in 1..Len(above) |-> EventMessage(above[i])]
        /\ UNCHANGED <<row, log, pub, ack, sub, page, drops>>

Setup == ReadCatchup \/ Replay \/ SendSnapshot \/ Activate

-----------------------------------------------------------------------------
(* The thread of _SQLiteSubscription.                                      *)

\* list_job_events.
Poll ==
    /\ sub.on
    /\ sub.cursor = sub.upto
    /\ Len(log) > sub.cursor
    /\ sub' = [sub EXCEPT !.upto = Least(sub.cursor + BatchLimit, Len(log))]
    /\ UNCHANGED <<row, log, pub, ack, conn, wire, page, drops>>

\* Mutant of Deliver: an event that arrives during the setup is not kept.
DeliverWhenReady ==
    LET n == sub.cursor + 1
    IN  /\ sub.on
        /\ sub.cursor < sub.upto
        /\ IF n <= conn.cursor \/ conn.pc # "ready"
           THEN UNCHANGED <<conn, wire>>
           ELSE /\ conn' = [conn EXCEPT !.cursor = n]
                /\ wire' = Append(wire, EventMessage(n))
        /\ sub' = [sub EXCEPT !.cursor = n]
        /\ UNCHANGED <<row, log, pub, ack, page, drops>>

\* _deliver_live_event for the next event of the batch; it takes the lock.
Deliver ==
    LET n == sub.cursor + 1
    IN  /\ sub.on
        /\ sub.cursor < sub.upto
        /\ \/ /\ n <= conn.cursor
              /\ UNCHANGED <<conn, wire>>
           \/ /\ n > conn.cursor /\ conn.pc # "ready"
              /\ conn' = [conn EXCEPT !.buffer = @ \cup {n}]
              /\ UNCHANGED wire
           \/ /\ n > conn.cursor /\ conn.pc = "ready"
              /\ conn' = [conn EXCEPT !.cursor = n]
              /\ wire' = Append(wire, EventMessage(n))
        /\ sub' = [sub EXCEPT !.cursor = n]
        /\ UNCHANGED <<row, log, pub, ack, page, drops>>

-----------------------------------------------------------------------------
(* The page.                                                               *)

\* Mutant of Merged: the reducer does not compare versions.
MergedByCursor(m) ==
    IF m.kind # "snapshot" /\ m.cursor <= page.cursor
    THEN page
    ELSE [page EXCEPT !.cursor = Greatest(@, m.cursor), !.sv = m.sv,
                      !.status = IF m.kind = "other" THEN @ ELSE m.status,
                      !.at = IF m.kind = "other" THEN @ ELSE m.at]

\* onmessage and jobReducer: a snapshot replaces the state, an event is taken
\* by its cursor and, for the state, by its version.
Merged(m) ==
    LET cursor == Greatest(page.cursor, m.cursor)
    IN  CASE m.kind = "snapshot" ->
               [page EXCEPT !.cursor = cursor, !.sv = m.sv, !.status = m.status,
                            !.at = m.at]
          [] m.kind # "snapshot" /\ m.cursor <= page.cursor -> page
          [] m.kind # "snapshot" /\ m.cursor > page.cursor /\ m.sv < page.sv ->
               [page EXCEPT !.cursor = cursor]
          [] m.kind = "state" /\ m.cursor > page.cursor /\ m.sv >= page.sv ->
               [page EXCEPT !.cursor = cursor, !.sv = m.sv, !.status = m.status,
                            !.at = m.at]
          [] m.kind = "other" /\ m.cursor > page.cursor /\ m.sv >= page.sv ->
               [page EXCEPT !.cursor = cursor, !.sv = m.sv]

\* The sender task starts after the setup of the connection.
Receive ==
    /\ conn.pc = "ready"
    /\ wire # <<>>
    /\ page' = Merged(Head(wire))
    /\ wire' = Tail(wire)
    /\ UNCHANGED <<row, log, pub, ack, conn, sub, drops>>

Break == /\ drops < MaxDrops
         /\ drops' = drops + 1
         /\ conn' = NoConnection
         /\ sub' = NoSubscription
         /\ wire' = <<>>
         /\ page' = [page EXCEPT !.on = FALSE]

\* The connection breaks: what is under way is lost, the page keeps its state.
Drop ==
    /\ page.on /\ conn.pc = "ready"
    /\ Break
    /\ UNCHANGED <<row, log, pub, ack>>

\* The API process is killed and restarted, perhaps inside a handler.
ApiRestart ==
    /\ page.on \/ ack.due
    /\ Break
    /\ ack' = [due |-> FALSE, sv |-> 0]
    /\ UNCHANGED <<row, log, pub>>

-----------------------------------------------------------------------------
Init ==
    /\ row = [status |-> "queued", at |-> 0, sv |-> 0, owner |-> None,
              resume |-> FALSE]
    /\ log = <<>>
    /\ pub = [w \in Workers |-> Worker("idle")]
    /\ ack = [due |-> FALSE, sv |-> 0]
    /\ conn = NoConnection
    /\ sub = NoSubscription
    /\ wire = <<>>
    /\ page = [on |-> FALSE, cursor |-> 0, sv |-> 0, status |-> "unknown",
                at |-> 0]
    /\ drops = 0

WorkerStep(w) ==
    \/ Claim(w) \/ SetStatus(w) \/ Progress(w) \/ LoseClaim(w) \/ Release(w)
    \/ ReadLatest(w) \/ SweepStale(w) \/ ReadVersion(w) \/ AppendEvent(w)

Next ==
    \/ \E w \in Workers : WorkerStep(w) \/ Crash(w)
    \/ Command \/ AckCommand
    \/ Connect \/ Setup \/ Poll \/ Deliver \/ Receive
    \/ Drop \/ ApiRestart

Spec == Init /\ [][Next]_vars

-----------------------------------------------------------------------------
(* Properties.                                                             *)

\* Every variable keeps its type.
TypeOK ==
    /\ row \in Row
    /\ \A n \in 1..Len(log) : log[n] \in Event
    /\ pub \in [Workers -> Publisher]
    /\ ack \in [due: BOOLEAN, sv: Nat]
    /\ conn \in Connection
    /\ sub \in Subscription
    /\ \A i \in 1..Len(wire) : wire[i] \in Message
    /\ page \in Page
    /\ drops \in 0..MaxDrops

\* A message with this cursor follows what was received up to cursor c.
Follows(m, c) == m.cursor = IF m.kind = "snapshot" THEN c ELSE c + 1

\* Replay, snapshot, buffered and live events form one sequence without gap,
\* repetition or exchange, also across a reconnection, though the thread that
\* delivers live events runs beside the setup.
DeliveryIsGapless ==
    /\ \A i \in 1..(Len(wire) - 1) : Follows(wire[i + 1], wire[i].cursor)
    /\ wire # <<>> /\ page.cursor > 0 => Follows(wire[1], page.cursor)

\* Whatever is sent on a ready connection ends at its cursor, and the thread
\* has skipped nothing above it: no event was lost between the barrier, the
\* replay, the buffer and the live stream.
NothingIsLost ==
    conn.pc = "ready" =>
        /\ sub.cursor <= conn.cursor
        /\ conn.cursor = IF wire = <<>> THEN page.cursor
                         ELSE wire[Len(wire)].cursor

\* The version the page shows never falls, though a snapshot replaces it
\* without a comparison.
VersionNeverFalls == [][page'.sv >= page.sv]_vars

\* What of the log the page can observe, and the promise it is made: JobFeed.
Feed == INSTANCE JobFeed WITH
            events <- [n \in 1..Len(log) |-> log[n].sv],
            newest <- row.sv,
            seen <- page.cursor,
            shown <- page.sv

\* Connections with their barrier, replay, snapshot, buffer and breaks, and the
\* page's reducer, are together a feed that skips nothing; also a snapshot is
\* never behind the event whose cursor it carries.
ImplementsFeed == Feed!Spec

\* A page only goes back to an earlier state by an event that announced a
\* status the row had already left; barrier, buffer and fences never do that.
OnlyLateEventsGoBack ==
    [][page'.at < page.at => Head(wire).kind = "state"
                             /\ log[Head(wire).cursor].late]_vars
=============================================================================
