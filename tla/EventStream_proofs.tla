-------------------------- MODULE EventStream_proofs -------------------------
(***************************************************************************)
(* Proofs about the event stream of one job, for every number of worker    *)
(* processes, every batch size and every number of commits, crashes and    *)
(* broken connections.                                                     *)
(*                                                                         *)
(* The invariant has two parts that do not need each other.  The first     *)
(* follows the cursors of a connection from the barrier to the live        *)
(* stream; the second compares versions: whoever knows of a later state    *)
(* than an event that was announced in time also has a later version.      *)
(* With a third fact, that a snapshot knows the events before its cursor,  *)
(* they show that the stream implements JobFeed.                           *)
(***************************************************************************)
EXTENDS EventStream, FiniteSetTheorems, SequenceTheorems, TLAPS

\* All variables, with the log and the messages under way as sequences.
Shape ==
    /\ row \in Row
    /\ log \in Seq(Event)
    /\ pub \in [Workers -> Publisher]
    /\ ack \in [due: BOOLEAN, sv: Nat]
    /\ conn \in Connection
    /\ sub \in Subscription
    /\ wire \in Seq(Message)
    /\ page \in Page
    /\ drops \in 0..MaxDrops

-----------------------------------------------------------------------------
(* The connection.                                                         *)

\* What was sent ends at cursor n.
EndsAt(n) ==
    IF wire = <<>> THEN page.cursor > 0 => page.cursor = n
                   ELSE wire[Len(wire)].cursor = n

\* No cursor is ahead of the log.
WithinLog ==
    /\ page.cursor <= Len(log)
    /\ sub.upto <= Len(log)
    /\ sub.cursor <= sub.upto
    /\ conn.sent <= Len(log)
    /\ conn.catchup <= Len(log)
    /\ conn.cursor <= Len(log)

\* Nor is a message under way.
WireInLog == \A i \in 1..Len(wire) : wire[i].cursor <= Len(log)

Setting == {"catchup", "replay", "snapshot", "activate"}

\* What a connection has sent, and how far its subscription is, at each point
\* of its setup and after it.
Connected ==
    /\ conn.pc = "off" => wire = <<>> /\ ~page.on /\ ~sub.on
    /\ conn.pc # "off" => page.on
    /\ conn.pc = "catchup" => wire = <<>>
    /\ conn.pc \in {"catchup", "replay", "snapshot"} => EndsAt(conn.sent)
    /\ conn.pc \in {"replay", "snapshot", "activate"} =>
          conn.cursor <= conn.catchup
    /\ conn.pc = "catchup" => conn.sent <= conn.cursor
    /\ conn.pc = "replay" => conn.sent <= conn.catchup
    /\ conn.pc = "snapshot" => conn.sent = conn.catchup
    /\ conn.pc = "activate" => wire # <<>> /\ EndsAt(conn.catchup)
    /\ conn.pc \in Setting =>
          /\ conn.buffer = (conn.cursor + 1)..sub.cursor
          /\ conn.cursor <= sub.cursor
    /\ conn.pc = "ready" =>
          /\ sub.cursor <= conn.cursor
          /\ IF wire = <<>> THEN page.cursor = conn.cursor
                            ELSE wire[Len(wire)].cursor = conn.cursor

-----------------------------------------------------------------------------
(* Versions and states.                                                    *)

\* Nothing that was read from the row is newer than the row.
ReadFromRow ==
    /\ \A n \in 1..Len(log) : log[n].sv <= row.sv /\ log[n].at <= row.at
    /\ \A w \in Workers : pub[w].sv <= row.sv /\ pub[w].at <= row.at
    /\ ack.sv <= row.sv
    /\ \A i \in 1..Len(wire) : wire[i].sv <= row.sv /\ wire[i].at <= row.at
    /\ page.sv <= row.sv /\ page.at <= row.at

\* Messages about events say what the log says.
WireIsLog ==
    \A i \in 1..Len(wire) :
        wire[i].kind # "snapshot" =>
            /\ wire[i].cursor \in 1..Len(log)
            /\ wire[i].kind = log[wire[i].cursor].kind
            /\ wire[i].sv = log[wire[i].cursor].sv
            /\ wire[i].at = log[wire[i].cursor].at

\* A snapshot is newer than the page and all that was sent before it.
SnapshotIsNewest ==
    \A i \in 1..Len(wire) :
        wire[i].kind = "snapshot" =>
            /\ page.sv <= wire[i].sv /\ page.at <= wire[i].at
            /\ \A j \in 1..(i - 1) : /\ wire[j].sv <= wire[i].sv
                                     /\ wire[j].at <= wire[i].at

\* Whoever knows of a later state than one that was announced in time has a
\* later version as well, so that the page does not take that event.
InTime(n) == log[n].kind = "state" /\ ~log[n].late
RowTells ==
    \A n \in 1..Len(log) :
        InTime(n) /\ row.at > log[n].at => row.sv > log[n].sv
PageTells ==
    \A n \in 1..Len(log) :
        InTime(n) /\ page.at > log[n].at => page.sv > log[n].sv
LogTells ==
    \A n, m \in 1..Len(log) :
        InTime(n) /\ log[m].kind = "state" /\ log[m].at > log[n].at
            => log[m].sv > log[n].sv
WireTells ==
    \A n \in 1..Len(log) : \A i \in 1..Len(wire) :
        InTime(n) /\ wire[i].kind # "other" /\ wire[i].at > log[n].at
            => wire[i].sv > log[n].sv
PubTells ==
    \A n \in 1..Len(log) : \A w \in Workers :
        InTime(n) /\ pub[w].pc = "append" /\ pub[w].kind = "state"
                  /\ pub[w].at > log[n].at
            => pub[w].sv > log[n].sv

CursorInv == Shape /\ WithinLog /\ Connected /\ DeliveryIsGapless

VersionInv == /\ ReadFromRow /\ WireIsLog /\ SnapshotIsNewest
              /\ RowTells /\ PageTells /\ LogTells /\ WireTells /\ PubTells

Inv == CursorInv /\ WireInLog /\ VersionInv

-----------------------------------------------------------------------------
(* The buffer holds an interval of cursors.                                *)

LEMMA AscendingInterval ==
  ASSUME NEW a \in Nat, NEW b \in Nat, a <= b
  PROVE  Ascending((a + 1)..b) = [i \in 1..(b - a) |-> a + i]
<1> DEFINE S == (a + 1)..b
<1>1. Cardinality(S) = b - a
  <2>1. a + 1 \in Int /\ b \in Int
    OBVIOUS
  <2>2. Cardinality((a + 1)..b) = IF a + 1 > b THEN 0 ELSE b - (a + 1) + 1
    BY <2>1, FS_Interval
  <2> QED BY <2>2
<1>2. ASSUME NEW n \in S
      PROVE  Cardinality({m \in S : m < n}) = n - 1 - a
  <2>1. {m \in S : m < n} = (a + 1)..(n - 1)
    OBVIOUS
  <2>2. Cardinality((a + 1)..(n - 1)) = n - 1 - a
    BY FS_Interval
  <2> QED BY <2>1, <2>2
<1>3. ASSUME NEW i \in 1..(b - a)
      PROVE  (CHOOSE n \in S : Cardinality({m \in S : m < n}) = i - 1) = a + i
  <2> DEFINE P(n) == Cardinality({m \in S : m < n}) = i - 1
  <2>1. a + i \in S
    OBVIOUS
  <2>2. \A n \in S : P(n) <=> n - 1 - a = i - 1
    BY <1>2
  <2>3. \A n \in S : P(n) <=> n = a + i
    BY <2>2
  <2> HIDE DEF P, S
  <2>4. (CHOOSE n \in S : P(n)) \in S /\ P(CHOOSE n \in S : P(n))
    BY <2>1, <2>3
  <2>5. (CHOOSE n \in S : P(n)) = a + i
    BY <2>3, <2>4
  <2> QED BY <2>5 DEF P
<1> HIDE DEF S
<1>4. Ascending(S) = [i \in 1..(b - a) |-> a + i]
  BY <1>1, <1>3 DEF Ascending
<1> QED BY <1>4 DEF S

-----------------------------------------------------------------------------
(* Types.                                                                  *)

LEMMA LeastType ==
  ASSUME NEW a \in Nat, NEW b \in Nat
  PROVE  /\ Least(a, b) \in Nat /\ Least(a, b) <= a /\ Least(a, b) <= b
         /\ Least(a, b) \in {a, b}
         /\ Greatest(a, b) \in Nat /\ a <= Greatest(a, b) /\ b <= Greatest(a, b)
         /\ Greatest(a, b) \in {a, b}
BY DEF Least, Greatest

LEMMA EventMessageType ==
  ASSUME Shape, NEW n \in 1..Len(log)
  PROVE  /\ EventMessage(n) \in Message
         /\ EventMessage(n).kind = log[n].kind
         /\ EventMessage(n).kind # "snapshot"
         /\ EventMessage(n).cursor = n
         /\ EventMessage(n).sv = log[n].sv
         /\ EventMessage(n).at = log[n].at
<1>1. log[n] \in Event /\ n \in Nat
  BY DEF Shape
<1> QED BY <1>1 DEF EventMessage, Event, Message

LEMMA SnapshotMessageType ==
  ASSUME Shape, NEW n \in Nat
  PROVE  /\ SnapshotMessage(n) \in Message
         /\ SnapshotMessage(n).kind = "snapshot"
         /\ SnapshotMessage(n).cursor = n
         /\ SnapshotMessage(n).sv = row.sv
         /\ SnapshotMessage(n).at = row.at
BY DEF Shape, Row, SnapshotMessage, Message

\* The messages of events m + 1 to n are sent.
EventsSent(m, n) ==
    /\ wire' \in Seq(Message)
    /\ Len(wire') = Len(wire) + (n - m)
    /\ \A i \in 1..Len(wire) : wire'[i] = wire[i]
    /\ \A i \in 1..(n - m) : wire'[Len(wire) + i] = EventMessage(m + i)

LEMMA ManySent ==
  ASSUME Shape, NEW m \in Nat, NEW n \in Nat, m <= n, n <= Len(log),
         wire' = wire \o EventMessages(m, n)
  PROVE  EventsSent(m, n)
<1> DEFINE s == EventMessages(m, n)
<1>1. \A i \in 1..(n - m) : m + i \in 1..Len(log)
  BY DEF Shape
<1>2. \A i \in 1..(n - m) : EventMessage(m + i) \in Message
  BY <1>1, EventMessageType
<1>3. /\ s \in Seq(Message)
      /\ Len(s) = n - m
      /\ \A i \in 1..(n - m) : s[i] = EventMessage(m + i)
  BY <1>2 DEF EventMessages
<1>4. wire \in Seq(Message)
  BY DEF Shape
<1> HIDE DEF s
<1>5. wire' = wire \o s
  BY DEF s
<1>6. /\ wire' \in Seq(Message)
      /\ Len(wire') = Len(wire) + Len(s)
      /\ \A i \in 1..(Len(wire) + Len(s)) :
            wire'[i] = IF i <= Len(wire) THEN wire[i] ELSE s[i - Len(wire)]
  <2>1. /\ wire \o s \in Seq(Message)
        /\ Len(wire \o s) = Len(wire) + Len(s)
        /\ \A i \in 1..(Len(wire) + Len(s)) :
              (wire \o s)[i] = IF i <= Len(wire) THEN wire[i]
                              ELSE s[i - Len(wire)]
    BY <1>3, <1>4, ConcatProperties
  <2> QED BY <1>5, <2>1
<1>7. Len(wire) \in Nat
  BY <1>4
<1>8. \A i \in 1..(n - m) : wire'[Len(wire) + i] = s[i]
  <2> SUFFICES ASSUME NEW i \in 1..(n - m)
               PROVE  wire'[Len(wire) + i] = s[i]
    OBVIOUS
  <2> DEFINE j == Len(wire) + i
  <2>1. /\ j \in 1..(Len(wire) + Len(s))
        /\ ~(j <= Len(wire))
        /\ j - Len(wire) = i
    BY <1>3, <1>7
  <2> HIDE DEF j
  <2>2. wire'[j] = s[j - Len(wire)]
    BY <1>6, <2>1
  <2>3. wire'[j] = s[i]
    BY <2>1, <2>2
  <2> QED BY <2>3 DEF j
<1> QED BY <1>3, <1>6, <1>7, <1>8 DEF EventsSent

LEMMA OneSent ==
  ASSUME Shape, NEW n \in Nat, n + 1 <= Len(log),
         wire' = Append(wire, EventMessage(n + 1))
  PROVE  EventsSent(n, n + 1)
<1>1. EventMessage(n + 1) \in Message
  BY EventMessageType DEF Shape
<1>2. wire \in Seq(Message)
  BY DEF Shape
<1> QED BY <1>1, <1>2 DEF EventsSent

-----------------------------------------------------------------------------
(* What the processes do to the row, their events and the log.             *)

\* A commit moves the row forward; a new status comes with a new version.
RowAdvances ==
    /\ row' \in Row
    /\ row.sv <= row'.sv /\ row.at <= row'.at
    /\ row.at < row'.at => row.sv < row'.sv

\* A commit or a read of a process; what it will append is not newer than the
\* row.
Commits ==
    /\ RowAdvances
    /\ pub' \in [Workers -> Publisher]
    /\ \A w \in Workers :
          pub'[w] # pub[w] =>
             /\ pub'[w].sv <= row'.sv /\ pub'[w].at <= row'.at
             /\ \/ pub'[w].pc # "append"
                \/ row' = row /\ pub'[w].sv = row.sv /\ pub'[w].at <= row.at
    /\ ack' \in [due: BOOLEAN, sv: Nat] /\ ack'.sv <= row'.sv
    /\ UNCHANGED <<log, conn, sub, wire, page, drops>>

\* An event is appended: that of a process, or a control_ack.
Appends ==
    /\ \E e \in Event :
          /\ log' = Append(log, e)
          /\ e.sv <= row.sv /\ e.at <= row.at
          /\ e.late = (e.at < row.at)
          /\ \/ e.kind = "other"
             \/ \E w \in Workers : /\ pub[w].pc = "append"
                                   /\ pub[w].kind = "state"
                                   /\ e.sv = pub[w].sv /\ e.at = pub[w].at
    /\ pub' \in [Workers -> Publisher]
    /\ \A w \in Workers :
          pub'[w] # pub[w] => /\ pub'[w].pc # "append"
                              /\ pub'[w].sv = 0 /\ pub'[w].at = 0
    /\ ack' \in [due: BOOLEAN, sv: Nat] /\ ack'.sv <= row.sv
    /\ UNCHANGED <<row, conn, sub, wire, page, drops>>

LEMMA WorkerType ==
  ASSUME NEW pc \in {"idle", "work", "end", "latest"}
  PROVE  /\ Worker(pc) \in Publisher
         /\ Worker(pc).pc # "append" /\ Worker(pc).sv = 0 /\ Worker(pc).at = 0
BY DEF Worker, Publisher, Statuses

LEMMA PublishingType ==
  ASSUME NEW kind \in {"state", "other"}, NEW status \in Statuses,
         NEW n \in Nat, NEW next \in {"idle", "work", "end"}
  PROVE  /\ Publishing(kind, status, n, next) \in Publisher
         /\ Publishing(kind, status, n, next).pc # "append"
         /\ Publishing(kind, status, n, next).sv = 0
         /\ Publishing(kind, status, n, next).at = n
BY DEF Publishing, Publisher

\* What a process that becomes p contributes to Commits.
LEMMA Becoming ==
  ASSUME Shape, ReadFromRow, RowAdvances, NEW w \in Workers,
         NEW p \in Publisher, Become(w, p), UNCHANGED <<log, ack, conn, sub>>,
         UNCHANGED <<wire, page, drops>>,
         p.sv <= row'.sv, p.at <= row'.at,
         p.pc # "append" \/ (row' = row /\ p.sv = row.sv)
  PROVE  Commits
<1>1. /\ pub \in [Workers -> Publisher]
      /\ pub' = [pub EXCEPT ![w] = p]
      /\ ack \in [due: BOOLEAN, sv: Nat] /\ ack.sv <= row.sv
      /\ row \in Row /\ row' \in Row
  BY DEF Shape, ReadFromRow, Become, RowAdvances
<1>2. /\ pub' \in [Workers -> Publisher]
      /\ pub'[w] = p
      /\ \A v \in Workers : v # w => pub'[v] = pub[v]
  BY <1>1
<1>3. ack'.sv <= row'.sv
  BY <1>1 DEF RowAdvances, Row
<1> QED BY <1>1, <1>2, <1>3 DEF Commits

LEMMA RowStays ==
  ASSUME Shape, UNCHANGED row
  PROVE  RowAdvances
BY DEF Shape, Row, RowAdvances

\* A commit writes every column that the model keeps.
LEMMA NewRow ==
  ASSUME Shape, NEW t \in Statuses, NEW a \in {row.at, row.at + 1},
         NEW o \in Workers \cup {None}, NEW r \in BOOLEAN,
         row' = [status |-> t, at |-> a, sv |-> row.sv + 1, owner |-> o,
                 resume |-> r]
  PROVE  /\ RowAdvances
         /\ row'.at = a /\ row'.at \in Nat
         /\ row'.sv = row.sv + 1 /\ row'.sv \in Nat
<1>1. row.sv \in Nat /\ row.at \in Nat
  BY DEF Shape, Row
<1>2. a \in Nat /\ row.at <= a
  BY <1>1
<1>3. row' \in Row /\ row'.at = a /\ row'.sv = row.sv + 1
  BY <1>1, <1>2 DEF Row
<1> QED BY <1>1, <1>2, <1>3 DEF RowAdvances

LEMMA RowForm ==
  ASSUME Shape
  PROVE  /\ row.status \in Statuses /\ row.at \in Nat /\ row.sv \in Nat
         /\ row.owner \in Workers \cup {None} /\ row.resume \in BOOLEAN
         /\ row = [status |-> row.status, at |-> row.at, sv |-> row.sv,
                   owner |-> row.owner, resume |-> row.resume]
BY DEF Shape, Row

\* The transactions of a worker process and its reads.
LEMMA WorkerCommits ==
  ASSUME Shape, ReadFromRow, NEW w \in Workers,
         \/ Claim(w) \/ SetStatus(w) \/ Progress(w) \/ LoseClaim(w)
         \/ Release(w) \/ ReadLatest(w) \/ SweepStale(w) \/ ReadVersion(w)
         \/ Crash(w)
  PROVE  Commits
<1>0. /\ row \in Row /\ row.sv \in Nat /\ row.at \in Nat
      /\ pub[w] \in Publisher
      /\ pub[w].sv <= row.sv /\ pub[w].at <= row.at
      /\ pub[w].sv \in Nat /\ pub[w].at \in Nat
      /\ Statuses = {"queued", "running", "paused", "succeeded", "failed",
                     "cancelled", "interrupted"}
  BY DEF Shape, ReadFromRow, Row, Publisher, Statuses
<1>1. CASE Claim(w)
  <2> DEFINE p == Publishing("state", "running", row.at + 1, "work")
  <2>1. row' = [status |-> "running", at |-> row.at + 1, sv |-> row.sv + 1,
                owner |-> w, resume |-> FALSE]
    BY <1>1, RowForm DEF Claim
  <2>2. RowAdvances /\ row'.at = row.at + 1 /\ row'.sv \in Nat
    BY <1>0, <2>1, NewRow
  <2>3. p \in Publisher /\ p.pc # "append" /\ p.sv = 0 /\ p.at = row.at + 1
    <3>1. /\ "state" \in {"state", "other"} /\ "running" \in Statuses
          /\ row.at + 1 \in Nat /\ "work" \in {"idle", "work", "end"}
      BY <1>0
    <3> QED BY <3>1, PublishingType, Zenon
  <2>4. Become(w, p)
    BY <1>1 DEF Claim
  <2> HIDE DEF p
  <2> QED BY <1>0, <1>1, <2>2, <2>3, <2>4, Becoming DEF Claim
<1>2. CASE SetStatus(w)
  <2>1. PICK t \in {"running", "paused", "succeeded", "failed", "cancelled"} :
           /\ row' = [row EXCEPT !.status = t, !.sv = @ + 1,
                                 !.at = IF t = row.status THEN @ ELSE @ + 1]
           /\ \E next \in IF t = "running" THEN {"work"} ELSE {"work", "end"} :
                 Become(w, Publishing("state", t, row'.at, next))
    BY <1>2 DEF SetStatus
  <2>2. PICK next \in {"work", "end"} :
           Become(w, Publishing("state", t, row'.at, next))
    BY <2>1
  <2> DEFINE a == IF t = row.status THEN row.at ELSE row.at + 1
  <2>3. row' = [status |-> t, at |-> a, sv |-> row.sv + 1,
                owner |-> row.owner, resume |-> row.resume]
    BY <2>1, RowForm
  <2>4. t \in Statuses /\ a \in {row.at, row.at + 1}
    BY <1>0
  <2> HIDE DEF a
  <2>5. RowAdvances /\ row'.at \in Nat /\ row'.sv \in Nat
    BY <2>3, <2>4, NewRow, RowForm
  <2> DEFINE p == Publishing("state", t, row'.at, next)
  <2>6. p \in Publisher /\ p.pc # "append" /\ p.sv = 0 /\ p.at = row'.at
    <3>1. /\ "state" \in {"state", "other"} /\ t \in Statuses
          /\ row'.at \in Nat /\ next \in {"idle", "work", "end"}
      BY <2>4, <2>5
    <3> QED BY <3>1, PublishingType, Zenon
  <2>7. Become(w, p)
    BY <2>2
  <2> HIDE DEF p
  <2> QED BY <1>2, <2>5, <2>6, <2>7, Becoming DEF SetStatus
<1>3. CASE Progress(w)
  <2> DEFINE p == Publishing("other", row.status, row.at, "work")
  <2>1. row' = [status |-> row.status, at |-> row.at, sv |-> row.sv + 1,
                owner |-> row.owner, resume |-> row.resume]
    BY <1>3, RowForm DEF Progress
  <2>2. RowAdvances /\ row'.at = row.at /\ row'.sv \in Nat
    BY <2>1, NewRow, RowForm
  <2>3. p \in Publisher /\ p.pc # "append" /\ p.sv = 0 /\ p.at = row.at
    <3>1. /\ "other" \in {"state", "other"} /\ row.status \in Statuses
          /\ row.at \in Nat /\ "work" \in {"idle", "work", "end"}
      BY RowForm
    <3> QED BY <3>1, PublishingType, Zenon
  <2>4. Become(w, p)
    BY <1>3 DEF Progress
  <2> HIDE DEF p
  <2> QED BY <1>0, <1>3, <2>2, <2>3, <2>4, Becoming DEF Progress
<1>4. CASE LoseClaim(w)
  BY <1>0, <1>4, RowStays, WorkerType, Becoming DEF LoseClaim
<1>5. CASE Release(w)
  <2>1. CASE row.owner = w
    <3>1. RowAdvances /\ row'.at \in Nat /\ row'.sv \in Nat
      BY <1>0, <1>5, <2>1 DEF Release, RowAdvances, Row
    <3> QED BY <1>5, <2>1, <3>1, WorkerType, Becoming DEF Release
  <2>2. CASE row.owner # w
    BY <1>0, <1>5, <2>2, RowStays, WorkerType, Becoming DEF Release
  <2> QED BY <2>1, <2>2
<1>6. CASE ReadLatest(w)
  <2> DEFINE p == Publishing("state", row.status, row.at, "idle")
  <2>1. p \in Publisher /\ p.pc # "append" /\ p.sv = 0 /\ p.at = row.at
    <3>1. /\ "state" \in {"state", "other"} /\ row.status \in Statuses
          /\ row.at \in Nat /\ "idle" \in {"idle", "work", "end"}
      BY RowForm
    <3> QED BY <3>1, PublishingType, Zenon
  <2>2. Become(w, p) /\ row' = row
    BY <1>6 DEF ReadLatest
  <2> HIDE DEF p
  <2> QED BY <1>0, <1>6, <2>1, <2>2, RowStays, Becoming DEF ReadLatest
<1>7. CASE SweepStale(w)
  <2> DEFINE p == Publishing("state", "interrupted", row.at + 1, "idle")
  <2>1. row' = [status |-> "interrupted", at |-> row.at + 1,
                sv |-> row.sv + 1, owner |-> None, resume |-> row.resume]
    BY <1>7, RowForm DEF SweepStale
  <2>2. RowAdvances /\ row'.at = row.at + 1 /\ row'.sv \in Nat
    BY <1>0, <2>1, NewRow, RowForm
  <2>3. p \in Publisher /\ p.pc # "append" /\ p.sv = 0 /\ p.at = row.at + 1
    <3>1. /\ "state" \in {"state", "other"} /\ "interrupted" \in Statuses
          /\ row.at + 1 \in Nat /\ "idle" \in {"idle", "work", "end"}
      BY <1>0
    <3> QED BY <3>1, PublishingType, Zenon
  <2>4. Become(w, p)
    BY <1>7 DEF SweepStale
  <2> HIDE DEF p
  <2> QED BY <1>0, <1>7, <2>2, <2>3, <2>4, Becoming DEF SweepStale
<1>8. CASE ReadVersion(w)
  <2> DEFINE p == [pub[w] EXCEPT !.pc = "append", !.sv = row.sv]
  <2>1. p \in Publisher /\ p.sv = row.sv /\ p.at = pub[w].at
    BY <1>0 DEF Publisher
  <2>2. Become(w, p) /\ row' = row
    BY <1>8 DEF ReadVersion
  <2> HIDE DEF p
  <2> QED BY <1>0, <1>8, <2>1, <2>2, RowStays, Becoming DEF ReadVersion
<1>9. CASE Crash(w)
  BY <1>0, <1>9, RowStays, WorkerType, Becoming DEF Crash
<1> QED BY <1>1, <1>2, <1>3, <1>4, <1>5, <1>6, <1>7, <1>8, <1>9

LEMMA ApiCommits ==
  ASSUME Shape, ReadFromRow, Command
  PROVE  Commits
<1>0. /\ row \in Row /\ row.sv \in Nat /\ row.at \in Nat
      /\ Statuses = {"queued", "running", "paused", "succeeded", "failed",
                     "cancelled", "interrupted"}
  BY DEF Shape, Row, Statuses
<1>1. RowAdvances
  <2>1. PICK t \in Statuses, a \in {row.at, row.at + 1}, r \in BOOLEAN :
           row' = [status |-> t, at |-> a, sv |-> row.sv + 1,
                   owner |-> row.owner, resume |-> r]
    <3>1. CASE row' = [row EXCEPT !.sv = @ + 1]
      BY <3>1, RowForm
    <3>2. ASSUME NEW resume \in BOOLEAN,
                 row' = [row EXCEPT !.sv = @ + 1, !.resume = resume]
          PROVE  row' = [status |-> row.status, at |-> row.at,
                         sv |-> row.sv + 1, owner |-> row.owner,
                         resume |-> resume]
      BY <3>2, RowForm
    <3>3. CASE row' = [row EXCEPT !.sv = @ + 1, !.at = @ + 1,
                                  !.status = "cancelled", !.resume = FALSE]
      <4>1. row' = [status |-> "cancelled", at |-> row.at + 1,
                    sv |-> row.sv + 1, owner |-> row.owner, resume |-> FALSE]
        BY <3>3, RowForm
      <4> QED BY <1>0, <4>1
    <3>4. CASE row' = [row EXCEPT !.sv = @ + 1, !.at = @ + 1,
                                  !.status = "queued"]
      <4>1. row' = [status |-> "queued", at |-> row.at + 1,
                    sv |-> row.sv + 1, owner |-> row.owner,
                    resume |-> row.resume]
        BY <3>4, RowForm
      <4> QED BY <1>0, <4>1, RowForm
    <3> QED BY <3>1, <3>2, <3>3, <3>4, RowForm DEF Command
  <2> QED BY <2>1, NewRow, RowForm
<1>2. ack' \in [due: BOOLEAN, sv: Nat] /\ ack'.sv = row'.sv /\ row'.sv \in Nat
  BY <1>1 DEF Command, RowAdvances, Row
<1>3. UNCHANGED <<log, pub, conn, sub, wire, page, drops>>
  BY DEF Command
<1> QED BY <1>1, <1>2, <1>3 DEF Commits, Shape

\* Both appends: at <= row.at, so that an event in time has the row's state.
LEMMA EventsAppended ==
  ASSUME Shape, ReadFromRow, AckCommand \/ \E w \in Workers : AppendEvent(w)
  PROVE  Appends
<1>0. row \in Row /\ row.sv \in Nat /\ row.at \in Nat
  BY DEF Shape, Row
<1>1. CASE AckCommand
  <2>1. PICK sv \in ack.sv..row.sv :
           log' = Appended("other", row.status, row.at, sv)
    BY <1>1 DEF AckCommand
  <2> DEFINE e == [kind |-> "other", status |-> row.status, at |-> row.at,
                   sv |-> sv, late |-> row.at < row.at]
  <2>2. /\ e \in Event /\ e.sv <= row.sv /\ e.at <= row.at
        /\ e.late = (e.at < row.at) /\ e.kind = "other"
    BY <1>0, <2>1 DEF Shape, Row, Event
  <2>3. log' = Append(log, e)
    BY <2>1 DEF Appended
  <2>4. ack' \in [due: BOOLEAN, sv: Nat] /\ ack'.sv = 0
    BY <1>1 DEF AckCommand
  <2> HIDE DEF e
  <2> QED BY <1>0, <1>1, <2>2, <2>3, <2>4 DEF AckCommand, Appends, Shape
<1>2. ASSUME NEW w \in Workers, AppendEvent(w)
      PROVE  Appends
  <2>0. /\ pub \in [Workers -> Publisher] /\ pub[w] \in Publisher
        /\ pub[w].sv <= row.sv /\ pub[w].at <= row.at
        /\ pub[w].pc = "append"
        /\ pub' = [pub EXCEPT ![w] = Worker(pub[w].next)]
        /\ UNCHANGED <<row, ack, conn, sub, wire, page, drops>>
    BY <1>2 DEF Shape, ReadFromRow, AppendEvent, Become
  <2> DEFINE e == [kind |-> pub[w].kind, status |-> pub[w].status,
                   at |-> pub[w].at, sv |-> pub[w].sv,
                   late |-> pub[w].at < row.at]
  <2>1. /\ e \in Event /\ e.sv <= row.sv /\ e.at <= row.at
        /\ e.late = (e.at < row.at)
        /\ e.sv = pub[w].sv /\ e.at = pub[w].at /\ e.kind = pub[w].kind
        /\ e.kind \in {"state", "other"}
    BY <1>0, <2>0 DEF Publisher, Event
  <2>2. log' = Append(log, e)
    BY <1>2 DEF AppendEvent, Appended
  <2>3. pub[w].next \in {"idle", "work", "end"}
    BY <2>0 DEF Publisher
  <2>4. /\ pub' \in [Workers -> Publisher]
        /\ \A v \in Workers :
              pub'[v] # pub[v] => /\ pub'[v].pc # "append"
                                  /\ pub'[v].sv = 0 /\ pub'[v].at = 0
    BY <2>0, <2>3, WorkerType
  <2>5. ack' \in [due: BOOLEAN, sv: Nat] /\ ack'.sv <= row.sv
    BY <2>0 DEF Shape, ReadFromRow
  <2> HIDE DEF e
  <2> QED BY <2>0, <2>1, <2>2, <2>4, <2>5 DEF Appends
<1> QED BY <1>1, <1>2

-----------------------------------------------------------------------------
(* Cursors.                                                                *)

\* A step of the processes leaves the connection alone.
LEMMA LogGrows ==
  ASSUME Shape, Commits \/ Appends
  PROVE  /\ Shape'
         /\ Len(log) \in Nat /\ Len(log') \in Nat /\ Len(log) <= Len(log')
         /\ \A n \in 1..Len(log) : log'[n] = log[n]
         /\ UNCHANGED <<conn, sub, wire, page>>
<1>1. CASE Commits
  BY <1>1 DEF Shape, Commits, RowAdvances
<1>2. CASE Appends
  <2>1. PICK e \in Event : log' = Append(log, e)
    BY <1>2 DEF Appends
  <2>2. /\ log' \in Seq(Event) /\ Len(log') = Len(log) + 1
        /\ \A n \in 1..Len(log) : log'[n] = log[n]
        /\ Len(log) \in Nat
    BY <2>1 DEF Shape
  <2> QED BY <1>2, <2>2 DEF Shape, Appends
<1> QED BY <1>1, <1>2

LEMMA CursorsStay ==
  ASSUME CursorInv, Shape', UNCHANGED <<conn, sub, wire, page>>,
         Len(log') \in Nat, Len(log) <= Len(log')
  PROVE  CursorInv'
<1>1. WithinLog'
  BY DEF CursorInv, WithinLog, Shape, Page, Subscription, Connection
<1>2. Connected' /\ DeliveryIsGapless'
  BY DEF CursorInv, Connected, EndsAt, DeliveryIsGapless, Follows
<1> QED BY <1>1, <1>2 DEF CursorInv

\* Events that continue what was sent keep it without a gap.
LEMMA EventsKeepOrder ==
  ASSUME Shape, DeliveryIsGapless, NEW m \in Nat, NEW n \in Nat, m <= n,
         n <= Len(log), EndsAt(m), EventsSent(m, n), UNCHANGED <<page, log>>
  PROVE  /\ wire' \in Seq(Message)
         /\ DeliveryIsGapless'
         /\ EndsAt(n)'
         /\ m < n \/ wire # <<>> => wire' # <<>>
<1> DEFINE L == Len(wire)
<1>1. /\ wire \in Seq(Message) /\ wire' \in Seq(Message) /\ L \in Nat
      /\ Len(wire') = L + (n - m) /\ Len(wire') \in Nat
      /\ page.cursor \in Nat
  BY DEF Shape, EventsSent, Page
<1>2. \A i \in 1..(n - m) : /\ wire'[L + i].cursor = m + i
                            /\ wire'[L + i].kind # "snapshot"
  <2>1. \A i \in 1..(n - m) : m + i \in 1..Len(log)
    BY DEF Shape
  <2> QED BY <2>1, EventMessageType DEF EventsSent
<1>3. \A i \in 1..L : wire'[i] = wire[i]
  BY DEF EventsSent
<1> HIDE DEF L
<1>4. (wire = <<>>) = (L = 0) /\ (wire' = <<>>) = (Len(wire') = 0)
  BY <1>1 DEF L
<1>5. EndsAt(n)'
  <2>1. CASE m = n
    <3>1. wire' = wire
      BY <1>1, <1>3, <2>1, SeqEqual DEF L
    <3> QED BY <2>1, <3>1 DEF EndsAt
  <2>2. CASE m < n
    <3>1. n - m \in 1..(n - m) /\ L + (n - m) = Len(wire')
      BY <1>1, <2>2
    <3>2. wire'[Len(wire')].cursor = n
      BY <1>2, <3>1
    <3> QED BY <1>1, <1>4, <2>2, <3>2 DEF EndsAt
  <2> QED BY <2>1, <2>2
<1>6. ASSUME NEW i \in 1..(Len(wire') - 1)
      PROVE  Follows(wire'[i + 1], wire'[i].cursor)
  <2>1. CASE i < L
    <3>1. i \in 1..(L - 1) /\ i \in 1..L /\ i + 1 \in 1..L
      BY <1>1, <2>1
    <3>2. Follows(wire[i + 1], wire[i].cursor)
      BY <3>1 DEF DeliveryIsGapless, L
    <3> QED BY <1>3, <3>1, <3>2
  <2>2. CASE i = L
    <3>1. L \in 1..L /\ 1 \in 1..(n - m)
      BY <1>1, <2>2
    <3>2. wire'[L + 1].cursor = m + 1 /\ wire'[L + 1].kind # "snapshot"
      BY <1>2, <3>1
    <3>3. wire'[L].cursor = m
      BY <1>1, <1>3, <1>4, <3>1 DEF EndsAt, L
    <3> QED BY <2>2, <3>2, <3>3 DEF Follows
  <2>3. CASE i > L
    <3> DEFINE k == i - L
    <3>1. k \in 1..(n - m) /\ k + 1 \in 1..(n - m) /\ i = L + k
          /\ i + 1 = L + (k + 1)
      BY <1>1, <2>3
    <3> HIDE DEF k
    <3>2. /\ wire'[i].cursor = m + k
          /\ wire'[i + 1].cursor = m + (k + 1)
          /\ wire'[i + 1].kind # "snapshot"
      BY <1>2, <3>1
    <3> QED BY <3>1, <3>2 DEF Follows
  <2> QED BY <1>1, <2>1, <2>2, <2>3
<1>7. ASSUME wire' # <<>>, page'.cursor > 0
      PROVE  Follows(wire'[1], page'.cursor)
  <2>1. CASE L > 0
    BY <1>1, <1>3, <1>4, <1>7, <2>1 DEF DeliveryIsGapless
  <2>2. CASE L = 0
    <3>1. 1 \in 1..(n - m) /\ L + 1 = 1
      BY <1>1, <1>4, <1>7, <2>2
    <3>2. wire'[1].cursor = m + 1 /\ wire'[1].kind # "snapshot"
      BY <1>2, <3>1
    <3>3. page.cursor = m
      BY <1>4, <1>7, <2>2 DEF EndsAt
    <3> QED BY <3>2, <3>3 DEF Follows
  <2> QED BY <1>1, <2>1, <2>2
<1>8. DeliveryIsGapless'
  BY <1>6, <1>7 DEF DeliveryIsGapless
<1>9. m < n \/ wire # <<>> => wire' # <<>>
  BY <1>1, <1>4
<1> QED BY <1>1, <1>5, <1>8, <1>9

\* The numbers a connection is made of.
LEMMA ConnectionType ==
  ASSUME Shape
  PROVE  /\ Len(log) \in Nat
         /\ conn.sent \in Nat /\ conn.catchup \in Nat /\ conn.cursor \in Nat
         /\ conn.buffer \in SUBSET Nat
         /\ conn.pc \in {"off", "catchup", "replay", "snapshot", "activate",
                         "ready"}
         /\ conn = [pc |-> conn.pc, sent |-> conn.sent,
                    catchup |-> conn.catchup, cursor |-> conn.cursor,
                    buffer |-> conn.buffer]
         /\ sub.cursor \in Nat /\ sub.upto \in Nat /\ sub.on \in BOOLEAN
         /\ page.cursor \in Nat /\ page.on \in BOOLEAN
         /\ Len(wire) \in Nat
         /\ wire # <<>> => Len(wire) \in 1..Len(wire)
BY DEF Shape, Connection, Subscription, Page

\* A page without connection gets one that has sent nothing.
LEMMA Connecting ==
  ASSUME CursorInv, Connect
  PROVE  CursorInv'
<1>0. Shape /\ WithinLog /\ Connected /\ DeliveryIsGapless
  BY DEF CursorInv
<1>1. /\ wire = <<>> /\ wire' = <<>> /\ log' = log
      /\ page' = [page EXCEPT !.on = TRUE]
      /\ UNCHANGED <<row, pub, ack, drops>>
  BY <1>0, ConnectionType DEF Connected, Connect, LoopIsFree
<1>2. /\ conn'.pc = "catchup" /\ conn'.catchup = 0
      /\ conn'.cursor = Len(log) /\ conn'.buffer = {}
      /\ conn'.sent = IF page.cursor > 0 THEN page.cursor ELSE Len(log)
      /\ conn' \in Connection
      /\ sub' = [on |-> TRUE, cursor |-> Len(log), upto |-> Len(log)]
  BY <1>0, ConnectionType DEF Connect, Connection
<1>3. page' \in Page /\ page'.on /\ page'.cursor = page.cursor
  BY <1>0, <1>1 DEF Shape, Page
<1>4. Shape'
  BY <1>0, <1>1, <1>2, <1>3, ConnectionType DEF Shape, Subscription
<1>5. WithinLog'
  BY <1>0, <1>1, <1>2, <1>3, ConnectionType DEF WithinLog
<1>6. Connected'
  <2>1. (Len(log) + 1)..Len(log) = {}
    BY <1>0, ConnectionType
  <2>2. EndsAt(conn.sent)'
    BY <1>1, <1>2, <1>3 DEF EndsAt
  <2>3. conn'.sent <= conn'.cursor
    BY <1>0, <1>2, ConnectionType DEF WithinLog
  <2> QED
    BY <1>0, <1>1, <1>2, <1>3, <2>1, <2>2, <2>3, ConnectionType
    DEF Connected, Setting
<1>7. DeliveryIsGapless'
  BY <1>1 DEF DeliveryIsGapless
<1> QED BY <1>4, <1>5, <1>6, <1>7 DEF CursorInv

LEMMA ReadingCatchup ==
  ASSUME CursorInv, ReadCatchup
  PROVE  CursorInv'
<1>0. Shape /\ WithinLog /\ Connected /\ DeliveryIsGapless
  BY DEF CursorInv
<1>1. /\ conn.pc = "catchup"
      /\ conn' = [pc |-> "replay", sent |-> conn.sent, catchup |-> Len(log),
                  cursor |-> conn.cursor, buffer |-> conn.buffer]
      /\ UNCHANGED <<row, log, pub, ack, sub, wire, page, drops>>
  BY <1>0, ConnectionType DEF ReadCatchup
<1>2. Shape'
  BY <1>0, <1>1, ConnectionType DEF Shape, Connection
<1>3. WithinLog'
  BY <1>0, <1>1, ConnectionType DEF WithinLog
<1>4. EndsAt(conn.sent)'
  BY <1>0, <1>1 DEF Connected, EndsAt
<1>5. Connected'
  BY <1>0, <1>1, <1>4, ConnectionType DEF Connected, Setting, WithinLog
<1>6. DeliveryIsGapless'
  BY <1>0, <1>1 DEF DeliveryIsGapless, Follows
<1> QED BY <1>2, <1>3, <1>5, <1>6 DEF CursorInv

LEMMA Replaying ==
  ASSUME CursorInv, Replay
  PROVE  CursorInv'
<1>0. Shape /\ WithinLog /\ Connected /\ DeliveryIsGapless
  BY DEF CursorInv
<1>1. PICK last \in Nat :
         /\ last = Least(conn.sent + BatchLimit, conn.catchup)
         /\ conn.sent <= last /\ last <= conn.catchup
         /\ last <= Len(log)
  <2>1. BatchLimit \in Nat
    BY StreamAssumption DEF StreamAssumption
  <2>2. conn.pc = "replay" /\ conn.sent <= conn.catchup
    BY <1>0 DEF Replay, Connected
  <2> QED BY <1>0, <2>1, <2>2, ConnectionType DEF WithinLog, Least
<1>2. /\ conn.pc = "replay"
      /\ wire' = wire \o EventMessages(conn.sent, last)
      /\ conn' = [pc |-> IF last = conn.catchup THEN "snapshot" ELSE "replay",
                  sent |-> last, catchup |-> conn.catchup,
                  cursor |-> conn.cursor, buffer |-> conn.buffer]
      /\ UNCHANGED <<row, log, pub, ack, sub, page, drops>>
  <2>1. conn' = [conn EXCEPT !.sent = last,
                    !.pc = IF last = conn.catchup THEN "snapshot" ELSE @]
    BY <1>1 DEF Replay
  <2>2. conn.pc = "replay"
    BY DEF Replay
  <2>3. conn' = [pc |-> IF last = conn.catchup THEN "snapshot" ELSE "replay",
                 sent |-> last, catchup |-> conn.catchup,
                 cursor |-> conn.cursor, buffer |-> conn.buffer]
    BY <1>0, <2>1, <2>2, ConnectionType
  <2> QED BY <1>1, <2>2, <2>3 DEF Replay
<1>3. EventsSent(conn.sent, last)
  BY <1>0, <1>1, <1>2, ManySent, ConnectionType
<1>4. EndsAt(conn.sent)
  BY <1>0, <1>2 DEF Connected
<1>5. wire' \in Seq(Message) /\ DeliveryIsGapless' /\ EndsAt(last)'
  BY <1>0, <1>1, <1>2, <1>3, <1>4, EventsKeepOrder, ConnectionType
<1>6. Shape'
  BY <1>0, <1>1, <1>2, <1>5, ConnectionType DEF Shape, Connection
<1>7. WithinLog'
  BY <1>0, <1>1, <1>2, ConnectionType DEF WithinLog
<1>8. EndsAt(conn.sent)'
  BY <1>2, <1>5 DEF EndsAt
<1>9. Connected'
  BY <1>0, <1>1, <1>2, <1>8, ConnectionType DEF Connected, Setting
<1> QED BY <1>5, <1>6, <1>7, <1>9 DEF CursorInv

LEMMA SendingSnapshot ==
  ASSUME CursorInv, SendSnapshot
  PROVE  CursorInv'
<1>0. Shape /\ WithinLog /\ Connected /\ DeliveryIsGapless
  BY DEF CursorInv
<1> DEFINE m == SnapshotMessage(conn.catchup)
<1>1. m \in Message /\ m.kind = "snapshot" /\ m.cursor = conn.catchup
  BY <1>0, SnapshotMessageType, ConnectionType
<1>2. /\ conn.pc = "snapshot"
      /\ wire' = Append(wire, m)
      /\ conn' = [pc |-> "activate", sent |-> conn.sent,
                  catchup |-> conn.catchup, cursor |-> conn.cursor,
                  buffer |-> conn.buffer]
      /\ UNCHANGED <<row, log, pub, ack, sub, page, drops>>
  BY <1>0, ConnectionType DEF SendSnapshot
<1> HIDE DEF m
<1>3. /\ wire' \in Seq(Message) /\ wire' # <<>>
      /\ Len(wire') = Len(wire) + 1
      /\ wire'[Len(wire')] = m
      /\ \A i \in 1..Len(wire) : wire'[i] = wire[i]
  <2>1. wire \in Seq(Message) /\ Len(wire) \in Nat
    BY <1>0 DEF Shape
  <2>2. /\ wire' \in Seq(Message)
        /\ Len(wire') = Len(wire) + 1
        /\ wire'[Len(wire) + 1] = m
        /\ \A i \in 1..Len(wire) : wire'[i] = wire[i]
    BY <1>1, <1>2, <2>1
  <2>3. wire' # <<>>
    BY <2>1, <2>2
  <2> QED BY <2>1, <2>2, <2>3
<1>4. EndsAt(conn.catchup)
  BY <1>0, <1>2 DEF Connected
<1>5. DeliveryIsGapless'
  <2>1. ASSUME NEW i \in 1..(Len(wire') - 1)
        PROVE  Follows(wire'[i + 1], wire'[i].cursor)
    <3>1. CASE i < Len(wire)
      <4>1. i \in 1..Len(wire) /\ i + 1 \in 1..Len(wire)
            /\ i \in 1..(Len(wire) - 1)
        BY <1>0, <1>3, <3>1, ConnectionType
      <4> QED BY <1>0, <1>3, <4>1 DEF DeliveryIsGapless
    <3>2. CASE i = Len(wire)
      <4>1. i \in 1..Len(wire) /\ wire # <<>> /\ i + 1 = Len(wire')
        BY <1>0, <1>3, <3>2, ConnectionType
      <4>2. wire'[i + 1] = m /\ wire'[i].cursor = conn.catchup
        BY <1>3, <1>4, <3>2, <4>1 DEF EndsAt
      <4> QED BY <1>1, <4>2 DEF Follows
    <3> QED BY <1>0, <1>3, <3>1, <3>2, ConnectionType
  <2>2. ASSUME page'.cursor > 0
        PROVE  Follows(wire'[1], page'.cursor)
    <3>1. CASE wire = <<>>
      <4>1. wire'[1] = m /\ page'.cursor = conn.catchup
        BY <1>2, <1>3, <1>4, <2>2, <3>1 DEF EndsAt
      <4> QED BY <1>1, <4>1 DEF Follows
    <3>2. CASE wire # <<>>
      <4>1. wire'[1] = wire[1] /\ page' = page
        BY <1>0, <1>2, <1>3, <3>2, ConnectionType
      <4> QED BY <1>0, <2>2, <3>2, <4>1 DEF DeliveryIsGapless
    <3> QED BY <3>1, <3>2
  <2> QED BY <2>1, <2>2 DEF DeliveryIsGapless
<1>6. Shape'
  BY <1>0, <1>2, <1>3, ConnectionType DEF Shape, Connection
<1>7. WithinLog'
  BY <1>0, <1>2, ConnectionType DEF WithinLog
<1>8. EndsAt(conn.catchup)'
  BY <1>1, <1>2, <1>3 DEF EndsAt
<1>9. Connected'
  BY <1>0, <1>2, <1>3, <1>8, ConnectionType DEF Connected, Setting
<1> QED BY <1>5, <1>6, <1>7, <1>9 DEF CursorInv

\* Events buffered above the replay continue it: the buffer is an interval.
LEMMA ActivateSends ==
  ASSUME CursorInv, Activate
  PROVE  \E last \in Nat :
            /\ conn.catchup <= last /\ last <= Len(log)
            /\ sub.cursor <= last
            /\ EventsSent(conn.catchup, last)
            /\ conn' = [pc |-> "ready", sent |-> conn.sent,
                        catchup |-> conn.catchup, cursor |-> last,
                        buffer |-> {}]
            /\ conn.pc = "activate"
            /\ UNCHANGED <<row, log, pub, ack, sub, page, drops>>
<1>0. Shape /\ WithinLog /\ Connected
  BY DEF CursorInv
<1> DEFINE cursor == Greatest(conn.cursor, conn.catchup)
           above == Ascending({n \in conn.buffer : n > cursor})
<1>1. /\ conn.pc = "activate"
      /\ conn.cursor <= conn.catchup /\ conn.catchup <= Len(log)
      /\ conn.buffer = (conn.cursor + 1)..sub.cursor
      /\ sub.cursor <= Len(log)
      /\ cursor = conn.catchup
  BY <1>0, ConnectionType
  DEF Activate, Connected, Setting, WithinLog, Greatest
<1>2. /\ conn' = [conn EXCEPT !.pc = "ready", !.buffer = {},
                    !.cursor = IF above = <<>> THEN cursor
                               ELSE above[Len(above)]]
      /\ wire' = wire \o [i \in 1..Len(above) |-> EventMessage(above[i])]
      /\ UNCHANGED <<row, log, pub, ack, sub, page, drops>>
  BY DEF Activate
<1>3. PICK last \in Nat :
         /\ conn.catchup <= last /\ last <= Len(log) /\ sub.cursor <= last
         /\ {n \in conn.buffer : n > cursor} = (conn.catchup + 1)..last
  <2>1. CASE sub.cursor <= conn.catchup
    <3>1. {n \in conn.buffer : n > cursor}
             = (conn.catchup + 1)..conn.catchup
      BY <1>0, <1>1, <2>1, ConnectionType
    <3> QED BY <1>0, <1>1, <2>1, <3>1, ConnectionType
  <2>2. CASE sub.cursor > conn.catchup
    <3>1. {n \in conn.buffer : n > cursor} = (conn.catchup + 1)..sub.cursor
      BY <1>0, <1>1, <2>2, ConnectionType
    <3>2. /\ sub.cursor \in Nat
          /\ conn.catchup <= sub.cursor /\ sub.cursor <= Len(log)
          /\ sub.cursor <= sub.cursor
      BY <1>0, <1>1, <2>2, ConnectionType
    <3> QED BY <3>1, <3>2
  <2> QED BY <1>0, <2>1, <2>2, ConnectionType
<1>4. above = [i \in 1..(last - conn.catchup) |-> conn.catchup + i]
  BY <1>0, <1>3, AscendingInterval, ConnectionType
<1> HIDE DEF above, cursor
<1>5. /\ Len(above) = last - conn.catchup
      /\ (above = <<>>) = (last = conn.catchup)
      /\ above # <<>> => above[Len(above)] = last
  <2>1. last - conn.catchup \in Nat
    BY <1>0, <1>3, ConnectionType
  <2>2. Len(above) = last - conn.catchup
    BY <1>4, <2>1
  <2>3. (above = <<>>) = (last = conn.catchup)
    <3>1. (above = <<>>) = (Len(above) = 0)
      BY <1>4, <2>1
    <3> QED BY <1>0, <1>3, <2>1, <2>2, <3>1, ConnectionType
  <2>4. last > conn.catchup => above[Len(above)] = last
    BY <1>0, <1>3, <1>4, <2>1, <2>2, ConnectionType
  <2> QED BY <1>0, <1>3, <2>2, <2>3, <2>4, ConnectionType
<1>6. [i \in 1..Len(above) |-> EventMessage(above[i])]
         = EventMessages(conn.catchup, last)
  BY <1>4, <1>5 DEF EventMessages
<1>7. EventsSent(conn.catchup, last)
  BY <1>0, <1>2, <1>3, <1>6, ManySent, ConnectionType
<1>8. conn' = [pc |-> "ready", sent |-> conn.sent, catchup |-> conn.catchup,
               cursor |-> last, buffer |-> {}]
  <2>1. (IF above = <<>> THEN cursor ELSE above[Len(above)]) = last
    BY <1>1, <1>5
  <2>2. conn' = [conn EXCEPT !.pc = "ready", !.buffer = {}, !.cursor = last]
    BY <1>2, <2>1
  <2> QED BY <1>0, <2>2, ConnectionType
<1> QED BY <1>1, <1>2, <1>3, <1>7, <1>8

LEMMA Activating ==
  ASSUME CursorInv, Activate
  PROVE  CursorInv'
<1>0. Shape /\ WithinLog /\ Connected /\ DeliveryIsGapless
  BY DEF CursorInv
<1>1. PICK last \in Nat :
            /\ conn.catchup <= last /\ last <= Len(log)
            /\ sub.cursor <= last
            /\ EventsSent(conn.catchup, last)
            /\ conn' = [pc |-> "ready", sent |-> conn.sent,
                        catchup |-> conn.catchup, cursor |-> last,
                        buffer |-> {}]
            /\ conn.pc = "activate"
            /\ UNCHANGED <<row, log, pub, ack, sub, page, drops>>
  BY ActivateSends
<1>2. EndsAt(conn.catchup) /\ wire # <<>>
  BY <1>0, <1>1 DEF Connected
<1>3. /\ wire' \in Seq(Message) /\ DeliveryIsGapless' /\ EndsAt(last)'
      /\ wire' # <<>>
  BY <1>0, <1>1, <1>2, EventsKeepOrder, ConnectionType
<1>4. Shape'
  BY <1>0, <1>1, <1>3, ConnectionType DEF Shape, Connection
<1>5. WithinLog'
  BY <1>0, <1>1, ConnectionType DEF WithinLog
<1>6. wire'[Len(wire')].cursor = conn'.cursor
  BY <1>1, <1>3 DEF EndsAt
<1>7. Connected'
  BY <1>0, <1>1, <1>3, <1>6, ConnectionType DEF Connected, Setting
<1> QED BY <1>3, <1>4, <1>5, <1>7 DEF CursorInv

LEMMA Polling ==
  ASSUME CursorInv, Poll
  PROVE  CursorInv'
<1>0. Shape /\ WithinLog /\ Connected /\ DeliveryIsGapless
  BY DEF CursorInv
<1>1. PICK n \in Nat : n = Least(sub.cursor + BatchLimit, Len(log))
                       /\ sub.cursor <= n /\ n <= Len(log)
  <2>1. BatchLimit \in Nat
    BY StreamAssumption DEF StreamAssumption
  <2> QED BY <1>0, <2>1, ConnectionType DEF WithinLog, Least
<1>2. /\ sub' \in Subscription
      /\ sub'.on = sub.on /\ sub'.cursor = sub.cursor /\ sub'.upto = n
      /\ UNCHANGED <<row, log, pub, ack, conn, wire, page, drops>>
  BY <1>0, <1>1 DEF Shape, Poll, Subscription
<1>3. Shape' /\ WithinLog'
  BY <1>0, <1>1, <1>2, ConnectionType DEF Shape, WithinLog
<1>4. Connected' /\ DeliveryIsGapless'
  BY <1>0, <1>2 DEF Connected, EndsAt, DeliveryIsGapless, Follows
<1> QED BY <1>3, <1>4 DEF CursorInv

\* The delivering thread is at the end of what was sent or behind it.
LEMMA DeliverSends ==
  ASSUME CursorInv, Deliver
  PROVE  LET n == sub.cursor + 1
         IN  /\ n <= sub.upto /\ n <= Len(log)
             /\ sub' = [on |-> sub.on, cursor |-> n, upto |-> sub.upto]
             /\ UNCHANGED <<row, log, pub, ack, page, drops>>
             /\ \/ /\ conn.pc = "ready" /\ n <= conn.cursor
                   /\ UNCHANGED <<conn, wire>>
                \/ /\ conn.pc \in Setting
                   /\ conn' = [conn EXCEPT !.buffer = @ \cup {n}]
                   /\ wire' = wire
                \/ /\ conn.pc = "ready" /\ n = conn.cursor + 1
                   /\ conn' = [conn EXCEPT !.cursor = n]
                   /\ EventsSent(conn.cursor, n)
<1>0. Shape /\ WithinLog /\ Connected
  BY DEF CursorInv
<1> DEFINE n == sub.cursor + 1
<1>1. /\ sub.on /\ n <= sub.upto /\ n <= Len(log)
      /\ sub' = [on |-> sub.on, cursor |-> n, upto |-> sub.upto]
      /\ UNCHANGED <<row, log, pub, ack, page, drops>>
  <2>1. sub.on /\ sub.cursor < sub.upto /\ sub' = [sub EXCEPT !.cursor = n]
    BY DEF Deliver
  <2>2. sub = [on |-> sub.on, cursor |-> sub.cursor, upto |-> sub.upto]
    BY <1>0 DEF Shape, Subscription
  <2>3. sub' = [on |-> sub.on, cursor |-> n, upto |-> sub.upto]
    BY <2>1, <2>2
  <2>4. n <= sub.upto /\ n <= Len(log)
    BY <1>0, <2>1, ConnectionType DEF WithinLog
  <2>5. UNCHANGED <<row, log, pub, ack, page, drops>>
    BY DEF Deliver
  <2> QED BY <2>1, <2>3, <2>4, <2>5
<1>2. conn.pc \in Setting \cup {"ready"}
  BY <1>0, <1>1, ConnectionType DEF Connected, Setting
<1>3. conn.pc \in Setting => conn.cursor < n
  BY <1>0, ConnectionType DEF Connected
<1>4. conn.pc = "ready" => sub.cursor <= conn.cursor
  BY <1>0 DEF Connected
<1>5. \/ /\ n <= conn.cursor
         /\ UNCHANGED <<conn, wire>>
      \/ /\ n > conn.cursor /\ conn.pc # "ready"
         /\ conn' = [conn EXCEPT !.buffer = @ \cup {n}]
         /\ UNCHANGED wire
      \/ /\ n > conn.cursor /\ conn.pc = "ready"
         /\ conn' = [conn EXCEPT !.cursor = n]
         /\ wire' = Append(wire, EventMessage(n))
  BY DEF Deliver
<1>6. CASE /\ n <= conn.cursor
           /\ UNCHANGED <<conn, wire>>
  BY <1>0, <1>1, <1>2, <1>3, <1>6, ConnectionType
<1>7. CASE /\ n > conn.cursor /\ conn.pc # "ready"
           /\ conn' = [conn EXCEPT !.buffer = @ \cup {n}]
           /\ UNCHANGED wire
  BY <1>1, <1>2, <1>7
<1>8. CASE /\ n > conn.cursor /\ conn.pc = "ready"
           /\ conn' = [conn EXCEPT !.cursor = n]
           /\ wire' = Append(wire, EventMessage(n))
  <2>1. n = conn.cursor + 1
    BY <1>0, <1>4, <1>8, ConnectionType
  <2>2. EventsSent(conn.cursor, conn.cursor + 1)
    BY <1>0, <1>1, <1>8, <2>1, OneSent, ConnectionType
  <2> QED BY <1>1, <1>8, <2>1, <2>2
<1> QED BY <1>5, <1>6, <1>7, <1>8

LEMMA Delivering ==
  ASSUME CursorInv, Deliver
  PROVE  CursorInv'
<1>0. Shape /\ WithinLog /\ Connected /\ DeliveryIsGapless
  BY DEF CursorInv
<1>1. PICK n \in Nat : n = sub.cursor + 1
  BY <1>0, ConnectionType
<1>2. /\ n <= sub.upto /\ n <= Len(log)
      /\ sub' = [on |-> sub.on, cursor |-> n, upto |-> sub.upto]
      /\ UNCHANGED <<row, log, pub, ack, page, drops>>
  BY <1>1, DeliverSends
<1>3. sub' \in Subscription
  BY <1>0, <1>2, ConnectionType DEF Subscription
<1>4. CASE /\ conn.pc = "ready" /\ n <= conn.cursor
           /\ UNCHANGED <<conn, wire>>
  <2>1. Shape' /\ WithinLog'
    BY <1>0, <1>2, <1>3, <1>4, ConnectionType DEF Shape, WithinLog
  <2>2. Connected' /\ DeliveryIsGapless'
    BY <1>0, <1>2, <1>4
    DEF Connected, EndsAt, DeliveryIsGapless, Follows, Setting
  <2> QED BY <2>1, <2>2 DEF CursorInv
<1>5. CASE /\ conn.pc \in Setting
           /\ conn' = [conn EXCEPT !.buffer = @ \cup {n}]
           /\ wire' = wire
  <2>1. conn' = [pc |-> conn.pc, sent |-> conn.sent, catchup |-> conn.catchup,
                 cursor |-> conn.cursor, buffer |-> conn.buffer \cup {n}]
    BY <1>0, <1>5, ConnectionType
  <2>2. Shape' /\ WithinLog'
    <3>1. conn' \in Connection
      BY <1>0, <2>1, ConnectionType DEF Connection
    <3>2. Shape'
      BY <1>0, <1>2, <1>3, <1>5, <3>1 DEF Shape
    <3>3. WithinLog'
      BY <1>0, <1>2, <2>1, ConnectionType DEF WithinLog
    <3> QED BY <3>2, <3>3
  <2>3. conn.buffer \cup {n} = (conn.cursor + 1)..n
    BY <1>0, <1>1, <1>5, ConnectionType DEF Connected
  <2>4. conn.cursor <= n
    BY <1>0, <1>1, <1>5, ConnectionType DEF Connected
  <2>5. Connected'
    BY <1>0, <1>2, <1>5, <2>1, <2>3, <2>4 DEF Connected, EndsAt, Setting
  <2>6. DeliveryIsGapless'
    BY <1>0, <1>2, <1>5 DEF DeliveryIsGapless, Follows
  <2> QED BY <2>2, <2>5, <2>6 DEF CursorInv
<1>6. CASE /\ conn.pc = "ready" /\ n = conn.cursor + 1
           /\ conn' = [conn EXCEPT !.cursor = n]
           /\ EventsSent(conn.cursor, n)
  <2>1. conn' = [pc |-> "ready", sent |-> conn.sent, catchup |-> conn.catchup,
                 cursor |-> n, buffer |-> conn.buffer]
    BY <1>0, <1>6, ConnectionType
  <2>2. EndsAt(conn.cursor)
    BY <1>0, <1>6 DEF Connected, EndsAt
  <2>3. /\ wire' \in Seq(Message) /\ DeliveryIsGapless' /\ EndsAt(n)'
        /\ wire' # <<>>
    BY <1>0, <1>2, <1>6, <2>2, EventsKeepOrder, ConnectionType
  <2>4. Shape' /\ WithinLog'
    BY <1>0, <1>2, <1>3, <2>1, <2>3, ConnectionType
    DEF Shape, Connection, WithinLog
  <2>5. wire'[Len(wire')].cursor = conn'.cursor
    BY <2>1, <2>3 DEF EndsAt
  <2>6. Connected'
    BY <1>0, <1>2, <2>1, <2>3, <2>5, <1>6, ConnectionType
    DEF Connected, Setting
  <2> QED BY <2>3, <2>4, <2>6 DEF CursorInv
<1> QED BY <1>1, <1>4, <1>5, <1>6, DeliverSends

\* The first message continues what the page has.
LEMMA HeadOfWire ==
  ASSUME Shape, wire # <<>>
  PROVE  /\ Head(wire) = wire[1] /\ wire[1] \in Message
         /\ Len(wire) \in Nat \ {0}
         /\ Tail(wire) \in Seq(Message)
         /\ Len(Tail(wire)) = Len(wire) - 1
         /\ \A i \in 1..(Len(wire) - 1) : Tail(wire)[i] = wire[i + 1]
         /\ (Tail(wire) = <<>>) = (Len(wire) = 1)
<1>1. wire \in Seq(Message)
  BY DEF Shape
<1>2. Len(wire) \in Nat \ {0}
  BY <1>1
<1>3. Head(wire) = wire[1] /\ wire[1] \in Message
  BY <1>1, <1>2
<1>4. /\ Tail(wire) \in Seq(Message)
      /\ Len(Tail(wire)) = Len(wire) - 1
      /\ \A i \in 1..(Len(wire) - 1) : Tail(wire)[i] = wire[i + 1]
  BY <1>1, <1>2
<1>5. (Tail(wire) = <<>>) = (Len(Tail(wire)) = 0)
  BY <1>4, EmptySeq
<1> QED BY <1>2, <1>3, <1>4, <1>5

LEMMA MergedType ==
  ASSUME Shape, NEW m \in Message
  PROVE  /\ Merged(m) \in Page
         /\ Merged(m).on = page.on
         /\ Merged(m).cursor = Greatest(page.cursor, m.cursor)
<1>1. /\ page \in Page /\ page.cursor \in Nat /\ m.cursor \in Nat
      /\ m.kind \in {"snapshot", "state", "other"}
      /\ m.status \in Statuses /\ m.at \in Nat /\ m.sv \in Nat
      /\ page.sv \in Nat
      /\ page = [on |-> page.on, cursor |-> page.cursor, sv |-> page.sv,
                 status |-> page.status, at |-> page.at]
  BY DEF Shape, Page, Message
<1>2. Greatest(page.cursor, m.cursor) \in Nat
  BY <1>1 DEF Greatest
<1>3. CASE m.kind = "snapshot"
  <2>1. Merged(m) = [on |-> page.on, sv |-> m.sv, status |-> m.status,
                     cursor |-> Greatest(page.cursor, m.cursor),
                     at |-> m.at]
    BY <1>1, <1>3 DEF Merged
  <2> QED BY <1>1, <1>2, <2>1 DEF Page
<1>4. CASE m.kind # "snapshot" /\ m.cursor <= page.cursor
  <2>1. Merged(m) = page
    BY <1>1, <1>4 DEF Merged
  <2> QED BY <1>1, <1>4, <2>1 DEF Greatest
<1>5. CASE m.kind # "snapshot" /\ m.cursor > page.cursor /\ m.sv < page.sv
  <2>1. Merged(m) = [on |-> page.on, sv |-> page.sv, status |-> page.status,
                     cursor |-> Greatest(page.cursor, m.cursor),
                     at |-> page.at]
    BY <1>1, <1>5 DEF Merged
  <2> QED BY <1>1, <1>2, <2>1 DEF Page
<1>6. CASE m.kind = "state" /\ m.cursor > page.cursor /\ m.sv >= page.sv
  <2>1. /\ ~(m.cursor <= page.cursor) /\ ~(m.sv < page.sv)
        /\ m.kind = "state"
    BY <1>1, <1>6
  <2>2. Merged(m) = [page EXCEPT !.cursor = Greatest(page.cursor, m.cursor),
                              !.sv = m.sv,
                              !.status = m.status, !.at = m.at]
    BY <1>1, <1>6, <2>1 DEF Merged
  <2>3. Merged(m) = [on |-> page.on, sv |-> m.sv, status |-> m.status,
                     cursor |-> Greatest(page.cursor, m.cursor),
                     at |-> m.at]
    BY <1>1, <2>2
  <2> QED BY <1>1, <1>2, <2>3 DEF Page
<1>7. CASE m.kind = "other" /\ m.cursor > page.cursor /\ m.sv >= page.sv
  <2>1. /\ ~(m.cursor <= page.cursor) /\ ~(m.sv < page.sv)
        /\ m.kind = "other"
    BY <1>1, <1>7
  <2>2. Merged(m) = [page EXCEPT !.cursor = Greatest(page.cursor, m.cursor),
                              !.sv = m.sv]
    BY <1>1, <1>7, <2>1 DEF Merged
  <2>3. Merged(m) = [on |-> page.on, sv |-> m.sv, status |-> page.status,
                     cursor |-> Greatest(page.cursor, m.cursor),
                     at |-> page.at]
    BY <1>1, <2>2
  <2> QED BY <1>1, <1>2, <2>3 DEF Page
<1> QED BY <1>1, <1>3, <1>4, <1>5, <1>6, <1>7

LEMMA Receiving ==
  ASSUME CursorInv, WireInLog, Receive
  PROVE  CursorInv'
<1>0. Shape /\ WithinLog /\ Connected /\ DeliveryIsGapless
  BY DEF CursorInv
<1>1. /\ conn.pc = "ready" /\ wire # <<>>
      /\ page' = Merged(wire[1]) /\ wire' = Tail(wire)
      /\ UNCHANGED <<row, log, pub, ack, conn, sub, drops>>
  BY <1>0, HeadOfWire DEF Receive
<1>2. wire[1].cursor \in Nat /\ wire[1] \in Message
  BY <1>0, <1>1, HeadOfWire DEF Message
<1>3. page' \in Page /\ page'.on = page.on /\ page'.cursor = wire[1].cursor
  <2>1. page.cursor <= wire[1].cursor
    BY <1>0, <1>1, <1>2, ConnectionType DEF DeliveryIsGapless, Follows
  <2>2. Greatest(page.cursor, wire[1].cursor) = wire[1].cursor
    BY <1>0, <1>2, <2>1, ConnectionType DEF Greatest
  <2> QED BY <1>0, <1>1, <1>2, <2>2, MergedType
<1>4. Shape'
  BY <1>0, <1>1, <1>3, HeadOfWire DEF Shape
<1>5. EndsAt(conn.cursor) /\ wire[Len(wire)].cursor = conn.cursor
  BY <1>0, <1>1 DEF Connected, EndsAt
<1>6. ASSUME NEW i \in 1..(Len(wire') - 1)
      PROVE  Follows(wire'[i + 1], wire'[i].cursor)
  <2>1. /\ i \in 1..(Len(wire) - 1) /\ i + 1 \in 1..(Len(wire) - 1)
    BY <1>0, <1>1, HeadOfWire
  <2>2. wire'[i] = wire[i + 1] /\ wire'[i + 1] = wire[(i + 1) + 1]
    BY <1>0, <1>1, <2>1, HeadOfWire
  <2> QED BY <1>0, <2>1, <2>2 DEF DeliveryIsGapless
<1>7. ASSUME wire' # <<>>
      PROVE  Follows(wire'[1], page'.cursor)
  <2>1. 1 \in 1..(Len(wire) - 1)
    BY <1>0, <1>1, <1>7, HeadOfWire
  <2>2. wire'[1] = wire[1 + 1]
    BY <1>0, <1>1, <2>1, HeadOfWire
  <2> QED BY <1>0, <1>3, <2>1, <2>2 DEF DeliveryIsGapless
<1>8. DeliveryIsGapless'
  BY <1>6, <1>7 DEF DeliveryIsGapless
<1>9. IF wire' = <<>> THEN page'.cursor = conn.cursor
                      ELSE wire'[Len(wire')].cursor = conn.cursor
  <2>1. CASE Len(wire) = 1
    BY <1>0, <1>1, <1>3, <1>5, <2>1, HeadOfWire
  <2>2. CASE Len(wire) # 1
    <3>1. Len(wire') \in 1..(Len(wire) - 1) /\ Len(wire') + 1 = Len(wire)
      BY <1>0, <1>1, <2>2, HeadOfWire
    <3>2. wire'[Len(wire')] = wire[Len(wire') + 1]
      BY <1>0, <1>1, <3>1, HeadOfWire
    <3> QED BY <1>0, <1>1, <1>5, <2>2, <3>1, <3>2, HeadOfWire
  <2> QED BY <2>1, <2>2
<1>10. WithinLog'
  <2>1. wire[1].cursor <= Len(log)
    BY <1>0, <1>1, HeadOfWire DEF WireInLog
  <2> QED BY <1>0, <1>1, <1>3, <2>1, ConnectionType DEF WithinLog
<1>11. Connected'
  BY <1>0, <1>1, <1>3, <1>9 DEF Connected, Setting
<1> QED BY <1>4, <1>8, <1>10, <1>11 DEF CursorInv

LEMMA Breaking ==
  ASSUME CursorInv, Drop \/ ApiRestart
  PROVE  CursorInv'
<1>0. Shape /\ WithinLog
  BY DEF CursorInv
<1>1. /\ conn' = NoConnection /\ sub' = NoSubscription /\ wire' = <<>>
      /\ page' = [page EXCEPT !.on = FALSE]
      /\ drops < MaxDrops /\ drops' = drops + 1
      /\ UNCHANGED <<row, log, pub>>
      /\ ack' = ack \/ ack' = [due |-> FALSE, sv |-> 0]
  BY DEF Drop, ApiRestart, Break
<1>2. page' \in Page /\ ~page'.on /\ page'.cursor = page.cursor
  BY <1>0, <1>1 DEF Shape, Page
<1>3. /\ conn' \in Connection /\ conn'.pc = "off" /\ conn'.sent = 0
      /\ conn'.catchup = 0 /\ conn'.cursor = 0
      /\ sub' \in Subscription /\ ~sub'.on /\ sub'.cursor = 0
      /\ sub'.upto = 0
  BY <1>1 DEF NoConnection, NoSubscription, Connection, Subscription
<1>4. drops' \in 0..MaxDrops
  BY <1>0, <1>1, StreamAssumption DEF Shape, StreamAssumption
<1>5. Shape'
  <2>1. ack' \in [due: BOOLEAN, sv: Nat]
    <3>1. ack \in [due: BOOLEAN, sv: Nat]
      BY <1>0 DEF Shape
    <3>2. [due |-> FALSE, sv |-> 0] \in [due: BOOLEAN, sv: Nat]
      OBVIOUS
    <3> QED BY <1>1, <3>1, <3>2
  <2>2. wire' \in Seq(Message)
    BY <1>1
  <2> QED BY <1>0, <1>1, <1>2, <1>3, <1>4, <2>1, <2>2 DEF Shape
<1>6. WithinLog' /\ Connected'
  BY <1>0, <1>1, <1>2, <1>3, ConnectionType
  DEF WithinLog, Connected, Setting
<1>7. DeliveryIsGapless'
  BY <1>1 DEF DeliveryIsGapless
<1> QED BY <1>5, <1>6, <1>7 DEF CursorInv

-----------------------------------------------------------------------------
(* Versions.                                                               *)

\* A step of the connection other than a receipt: what it sends is events of
\* the log or a snapshot of the row.
Transmits ==
    /\ UNCHANGED <<row, log, pub>>
    /\ ack'.sv <= row.sv
    /\ page'.sv = page.sv /\ page'.at = page.at
    /\ \/ wire' = wire
       \/ wire' = <<>>
       \/ \E m, n \in Nat : m <= n /\ n <= Len(log) /\ EventsSent(m, n)
       \/ /\ wire' = Append(wire, SnapshotMessage(conn.catchup))
          /\ conn.catchup <= Len(log)

LEMMA ConnectionTransmits ==
  ASSUME CursorInv, ReadFromRow,
         \/ Connect \/ Setup \/ Poll \/ Deliver \/ Drop \/ ApiRestart
  PROVE  Transmits
<1>0. /\ Shape /\ WithinLog /\ Connected
      /\ row.sv \in Nat /\ page \in Page /\ ack.sv <= row.sv
  BY DEF CursorInv, ReadFromRow, Shape, Row
<1>1. CASE Connect
  <2>1. page'.sv = page.sv /\ page'.at = page.at
    BY <1>0, <1>1 DEF Connect, Page
  <2> QED BY <1>0, <1>1, <2>1 DEF Connect, Transmits
<1>2. CASE ReadCatchup
  BY <1>0, <1>2 DEF ReadCatchup, Transmits
<1>3. CASE Replay
  <2>1. PICK last \in Nat :
           /\ last = Least(conn.sent + BatchLimit, conn.catchup)
           /\ conn.sent <= last /\ last <= Len(log)
    <3>1. BatchLimit \in Nat
      BY StreamAssumption DEF StreamAssumption
    <3>2. conn.sent <= conn.catchup
      BY <1>0, <1>3 DEF Replay, Connected
    <3> QED BY <1>0, <3>1, <3>2, ConnectionType DEF WithinLog, Least
  <2>2. wire' = wire \o EventMessages(conn.sent, last)
    BY <1>3, <2>1 DEF Replay
  <2>3. EventsSent(conn.sent, last)
    BY <1>0, <2>1, <2>2, ManySent, ConnectionType
  <2>4. \E m, n \in Nat : m <= n /\ n <= Len(log) /\ EventsSent(m, n)
    BY <1>0, <2>1, <2>3, ConnectionType
  <2> QED BY <1>0, <1>3, <2>4 DEF Replay, Transmits
<1>4. CASE SendSnapshot
  <2>1. conn.catchup <= Len(log)
    BY <1>0 DEF WithinLog
  <2> QED BY <1>0, <1>4, <2>1 DEF SendSnapshot, Transmits
<1>5. CASE Activate
  <2>1. PICK last \in Nat : /\ conn.catchup <= last /\ last <= Len(log)
                            /\ EventsSent(conn.catchup, last)
                            /\ UNCHANGED <<row, log, pub, ack, page>>
    BY <1>5, ActivateSends
  <2>2. \E m, n \in Nat : m <= n /\ n <= Len(log) /\ EventsSent(m, n)
    BY <1>0, <2>1, ConnectionType
  <2> QED BY <1>0, <2>1, <2>2 DEF Transmits
<1>6. CASE Poll
  BY <1>0, <1>6 DEF Poll, Transmits
<1>7. CASE Deliver
  <2>1. PICK n \in Nat : n = sub.cursor + 1
    BY <1>0, ConnectionType
  <2>2. /\ n <= Len(log)
        /\ UNCHANGED <<row, log, pub, ack, page>>
        /\ wire' = wire \/ (n = conn.cursor + 1 /\ EventsSent(conn.cursor, n))
    BY <1>7, <2>1, DeliverSends
  <2>3. CASE wire' = wire
    BY <1>0, <2>2, <2>3 DEF Transmits
  <2>4. CASE n = conn.cursor + 1 /\ EventsSent(conn.cursor, n)
    <3>1. \E m, k \in Nat : m <= k /\ k <= Len(log) /\ EventsSent(m, k)
      BY <1>0, <2>2, <2>4, ConnectionType
    <3> QED BY <1>0, <2>2, <3>1 DEF Transmits
  <2> QED BY <2>2, <2>3, <2>4
<1>8. CASE Drop \/ ApiRestart
  <2>1. page'.sv = page.sv /\ page'.at = page.at
    BY <1>0, <1>8 DEF Drop, ApiRestart, Break, Page
  <2>2. ack'.sv <= row.sv
    BY <1>0, <1>8 DEF Drop, ApiRestart
  <2> QED BY <1>8, <2>1, <2>2 DEF Drop, ApiRestart, Break, Transmits
<1> QED BY <1>1, <1>2, <1>3, <1>4, <1>5, <1>6, <1>7, <1>8 DEF Setup

\* The numbers the comparison of versions is about.
LEMMA Numbers ==
  ASSUME Shape
  PROVE  /\ row.sv \in Nat /\ row.at \in Nat
         /\ page.sv \in Nat /\ page.at \in Nat
         /\ \A n \in 1..Len(log) : log[n].sv \in Nat /\ log[n].at \in Nat
         /\ \A w \in Workers : pub[w].sv \in Nat /\ pub[w].at \in Nat
         /\ \A i \in 1..Len(wire) : /\ wire[i].sv \in Nat /\ wire[i].at \in Nat
                                    /\ wire[i].cursor \in Nat
         /\ Len(log) \in Nat /\ Len(wire) \in Nat
<1>1. /\ log \in Seq(Event) /\ wire \in Seq(Message)
      /\ pub \in [Workers -> Publisher] /\ row \in Row /\ page \in Page
  BY DEF Shape
<1>2. \A n \in 1..Len(log) : log[n] \in Event
  BY <1>1
<1>3. \A i \in 1..Len(wire) : wire[i] \in Message
  BY <1>1
<1>4. /\ row.sv \in Nat /\ row.at \in Nat
      /\ page.sv \in Nat /\ page.at \in Nat
      /\ Len(log) \in Nat /\ Len(wire) \in Nat
  BY <1>1 DEF Row, Page
<1>5. \A n \in 1..Len(log) : log[n].sv \in Nat /\ log[n].at \in Nat
  BY <1>2 DEF Event
<1>6. \A w \in Workers : pub[w].sv \in Nat /\ pub[w].at \in Nat
  BY <1>1 DEF Publisher
<1>7. \A i \in 1..Len(wire) : /\ wire[i].sv \in Nat /\ wire[i].at \in Nat
                              /\ wire[i].cursor \in Nat
  BY <1>3 DEF Message
<1> QED BY <1>4, <1>5, <1>6, <1>7

\* The row moves forward and the rest of what is compared stays.
LEMMA VersionsAfterCommit ==
  ASSUME Shape, Shape', WireInLog, VersionInv, Commits
  PROVE  WireInLog' /\ VersionInv'
<1>0. /\ ReadFromRow /\ WireIsLog /\ SnapshotIsNewest /\ RowTells /\ PageTells
      /\ LogTells /\ WireTells /\ PubTells
  BY DEF VersionInv
<1>1. /\ row'.sv \in Nat /\ row'.at \in Nat
      /\ row.sv <= row'.sv /\ row.at <= row'.at
      /\ row.at < row'.at => row.sv < row'.sv
      /\ \A w \in Workers : pub'[w].sv \in Nat /\ pub'[w].at \in Nat
      /\ ack'.sv <= row'.sv
      /\ UNCHANGED <<log, wire, page>>
  BY Numbers DEF Commits, RowAdvances, Shape, Row, Publisher
<1>2. \A w \in Workers :
         pub'[w] # pub[w] =>
            /\ pub'[w].sv <= row'.sv /\ pub'[w].at <= row'.at
            /\ \/ pub'[w].pc # "append"
               \/ row' = row /\ pub'[w].sv = row.sv /\ pub'[w].at <= row.at
  BY DEF Commits
<1>3. ReadFromRow'
  <2>1. ASSUME NEW w \in Workers
        PROVE  pub'[w].sv <= row'.sv /\ pub'[w].at <= row'.at
    <3>1. pub[w].sv <= row.sv /\ pub[w].at <= row.at
      BY <1>0 DEF ReadFromRow
    <3>2. CASE pub'[w] = pub[w]
      BY <1>1, <3>1, <3>2, Numbers
    <3> QED BY <1>2, <3>2
  <2> QED BY <1>0, <1>1, <2>1, Numbers DEF ReadFromRow
<1>4. RowTells'
  BY <1>0, <1>1, Numbers DEF RowTells, ReadFromRow, InTime
<1>5. PubTells'
  <2> SUFFICES ASSUME NEW n \in 1..Len(log), NEW w \in Workers,
                      InTime(n), pub'[w].pc = "append",
                      pub'[w].kind = "state", pub'[w].at > log[n].at
               PROVE  pub'[w].sv > log[n].sv
    BY <1>1 DEF PubTells, InTime
  <2>1. CASE pub'[w] = pub[w]
    BY <1>0, <2>1 DEF PubTells
  <2>2. CASE pub'[w] # pub[w]
    <3>1. row' = row /\ pub'[w].sv = row.sv /\ pub'[w].at <= row.at
      BY <1>2, <2>2
    <3>2. row.at > log[n].at
      BY <1>1, <3>1, Numbers
    <3> QED BY <1>0, <3>1, <3>2 DEF RowTells
  <2> QED BY <2>1, <2>2
<1>6. WireInLog' /\ WireIsLog' /\ SnapshotIsNewest'
  BY <1>0, <1>1 DEF WireInLog, WireIsLog, SnapshotIsNewest
<1>7. PageTells' /\ LogTells' /\ WireTells'
  BY <1>0, <1>1 DEF PageTells, LogTells, WireTells, InTime
<1> QED BY <1>3, <1>4, <1>5, <1>6, <1>7 DEF VersionInv

\* An event in time has the state of the row, which nothing has overtaken.
LEMMA VersionsAfterAppend ==
  ASSUME Shape, Shape', WireInLog, VersionInv, Appends
  PROVE  WireInLog' /\ VersionInv'
<1>0. /\ ReadFromRow /\ WireIsLog /\ SnapshotIsNewest /\ RowTells /\ PageTells
      /\ LogTells /\ WireTells /\ PubTells
  BY DEF VersionInv
<1>a. PICK N \in Nat : N = Len(log) + 1
  BY Numbers
<1>1. PICK e \in Event :
         /\ log' = Append(log, e)
         /\ e.sv <= row.sv /\ e.at <= row.at
         /\ e.late = (e.at < row.at)
         /\ \/ e.kind = "other"
            \/ \E w \in Workers : /\ pub[w].pc = "append"
                                  /\ pub[w].kind = "state"
                                  /\ e.sv = pub[w].sv /\ e.at = pub[w].at
  BY DEF Appends
<1>2. /\ Len(log) \in Nat /\ Len(log') = N
      /\ log'[N] = e
      /\ \A n \in 1..Len(log) : log'[n] = log[n]
      /\ \A n \in 1..Len(log') : n \in 1..Len(log) \/ n = N
      /\ N \notin 1..Len(log)
  BY <1>1, <1>a DEF Shape
<1>3. /\ UNCHANGED <<row, wire, page>>
      /\ ack'.sv <= row.sv
      /\ \A w \in Workers :
            pub'[w] # pub[w] => /\ pub'[w].pc # "append"
                                /\ pub'[w].sv = 0 /\ pub'[w].at = 0
  BY DEF Appends
<1>4. e.sv \in Nat /\ e.at \in Nat /\ row.sv \in Nat /\ row.at \in Nat
  BY Numbers DEF Event
<1>5. ReadFromRow'
  <2>1. \A w \in Workers : pub'[w].sv <= row'.sv /\ pub'[w].at <= row'.at
    <3> SUFFICES ASSUME NEW w \in Workers
                 PROVE  pub'[w].sv <= row'.sv /\ pub'[w].at <= row'.at
      OBVIOUS
    <3>1. CASE pub'[w] = pub[w]
      BY <1>0, <1>3, <3>1 DEF ReadFromRow
    <3>2. CASE pub'[w] # pub[w]
      BY <1>3, <1>4, <3>2
    <3> QED BY <3>1, <3>2
  <2>2. \A n \in 1..Len(log') : log'[n].sv <= row'.sv /\ log'[n].at <= row'.at
    BY <1>0, <1>1, <1>2, <1>3 DEF ReadFromRow
  <2> QED BY <1>0, <1>3, <2>1, <2>2 DEF ReadFromRow
<1>6. \A n \in 1..Len(log) : InTime(n)' = InTime(n)
  BY <1>2 DEF InTime
<1>7. InTime(N)' => e.at = row.at
  <2>1. ~e.late => ~(e.at < row.at)
    BY <1>1
  <2>2. InTime(N)' => ~e.late
    BY <1>2 DEF InTime
  <2>3. e.at <= row.at
    BY <1>1
  <2> QED BY <1>4, <2>1, <2>2, <2>3
<1>8. RowTells'
  BY <1>0, <1>2, <1>3, <1>4, <1>6, <1>7 DEF RowTells
<1>9. PageTells'
  <2>1. ~(page.at > row.at)
    BY <1>0, <1>4, Numbers DEF ReadFromRow
  <2> QED BY <1>0, <1>2, <1>3, <1>6, <1>7, <2>1 DEF PageTells
<1>10. WireTells'
  <2>1. \A i \in 1..Len(wire) : ~(wire[i].at > row.at)
    BY <1>0, <1>4, Numbers DEF ReadFromRow
  <2> QED BY <1>0, <1>2, <1>3, <1>6, <1>7, <2>1 DEF WireTells
<1>11. PubTells'
  <2> SUFFICES ASSUME NEW n \in 1..Len(log'), NEW w \in Workers,
                      InTime(n)', pub'[w].pc = "append",
                      pub'[w].kind = "state", pub'[w].at > log'[n].at
               PROVE  pub'[w].sv > log'[n].sv
    BY DEF PubTells
  <2>1. pub'[w] = pub[w]
    BY <1>3
  <2>2. CASE n \in 1..Len(log)
    BY <1>0, <1>2, <1>6, <2>1, <2>2 DEF PubTells
  <2>3. CASE n = N
    <3>1. pub[w].at <= row.at /\ pub[w].at \in Nat
      BY <1>0, Numbers DEF ReadFromRow
    <3> QED BY <1>2, <1>4, <1>7, <2>1, <2>3, <3>1
  <2> QED BY <1>2, <2>2, <2>3
<1>12. LogTells'
  <2> SUFFICES ASSUME NEW n \in 1..Len(log'), NEW m \in 1..Len(log'),
                      InTime(n)', log'[m].kind = "state",
                      log'[m].at > log'[n].at
               PROVE  log'[m].sv > log'[n].sv
    BY DEF LogTells
  <2>1. CASE n \in 1..Len(log) /\ m \in 1..Len(log)
    BY <1>0, <1>2, <1>6, <2>1 DEF LogTells
  <2>2. CASE n \in 1..Len(log) /\ m = N
    <3>1. PICK w \in Workers : /\ pub[w].pc = "append"
                               /\ pub[w].kind = "state"
                               /\ e.sv = pub[w].sv /\ e.at = pub[w].at
      BY <1>1, <1>2, <2>2
    <3>2. InTime(n) /\ pub[w].at > log[n].at
      BY <1>2, <1>6, <2>2, <3>1
    <3> QED BY <1>0, <1>2, <2>2, <3>1, <3>2 DEF PubTells
  <2>3. CASE n = N
    <3>1. log'[m].at <= row.at
      BY <1>3, <1>5 DEF ReadFromRow
    <3>2. log'[m].at \in Nat
      BY Numbers, <1>1, <1>2, <1>4
    <3> QED BY <1>2, <1>4, <1>7, <2>3, <3>1, <3>2
  <2> QED BY <1>2, <2>1, <2>2, <2>3
<1>13. WireIsLog'
  <2>1. 1..Len(log) \subseteq 1..Len(log')
    BY <1>2, <1>a
  <2> QED BY <1>0, <1>2, <1>3, <2>1 DEF WireIsLog
<1>14. SnapshotIsNewest'
  BY <1>0, <1>3 DEF SnapshotIsNewest
<1>15. WireInLog'
  BY <1>2, <1>3, <1>a, Numbers DEF WireInLog
<1> QED BY <1>5, <1>8, <1>9, <1>10, <1>11, <1>12, <1>13, <1>14, <1>15
        DEF VersionInv

\* What the versions of an extended wire depend on: each new message.
LEMMA VersionsAfterSending ==
  ASSUME Shape, Shape', WireInLog, VersionInv, NEW k \in Nat,
         UNCHANGED <<row, log, pub>>, ack'.sv <= row.sv,
         page'.sv = page.sv, page'.at = page.at,
         Len(wire') = Len(wire) + k,
         \A i \in 1..Len(wire) : wire'[i] = wire[i],
         \A i \in 1..Len(wire') : i \in 1..Len(wire) \/
            /\ wire'[i].cursor <= Len(log)
            /\ \/ /\ wire'[i].kind = "snapshot" /\ i = Len(wire')
                  /\ wire'[i].sv = row.sv /\ wire'[i].at = row.at
               \/ /\ wire'[i].kind # "snapshot"
                  /\ wire'[i].cursor \in 1..Len(log)
                  /\ wire'[i].kind = log[wire'[i].cursor].kind
                  /\ wire'[i].sv = log[wire'[i].cursor].sv
                  /\ wire'[i].at = log[wire'[i].cursor].at
  PROVE  WireInLog' /\ VersionInv'
<1>0. /\ ReadFromRow /\ WireIsLog /\ SnapshotIsNewest /\ RowTells /\ PageTells
      /\ LogTells /\ WireTells /\ PubTells
  BY DEF VersionInv
<1>1. /\ Len(wire) \in Nat /\ Len(wire') \in Nat
      /\ 1..Len(wire) \subseteq 1..Len(wire')
  BY Numbers
<1>2. ReadFromRow'
  <2>1. ASSUME NEW i \in 1..Len(wire')
        PROVE  wire'[i].sv <= row'.sv /\ wire'[i].at <= row'.at
    <3>1. CASE i \in 1..Len(wire)
      BY <1>0, <3>1 DEF ReadFromRow
    <3>2. CASE i \notin 1..Len(wire)
      <4>1. CASE wire'[i].kind = "snapshot"
        BY <3>2, <4>1, Numbers
      <4>2. CASE wire'[i].kind # "snapshot"
        <5>1. /\ wire'[i].cursor \in 1..Len(log)
              /\ wire'[i].sv = log[wire'[i].cursor].sv
              /\ wire'[i].at = log[wire'[i].cursor].at
          BY <3>2, <4>2
        <5> QED BY <1>0, <5>1 DEF ReadFromRow
      <4> QED BY <4>1, <4>2
    <3> QED BY <3>1, <3>2
  <2> QED BY <1>0, <2>1 DEF ReadFromRow
<1>3. WireIsLog'
  BY <1>0 DEF WireIsLog
<1>4. WireInLog'
  BY DEF WireInLog
<1>5. SnapshotIsNewest'
  <2> SUFFICES ASSUME NEW i \in 1..Len(wire'), wire'[i].kind = "snapshot"
               PROVE  /\ page'.sv <= wire'[i].sv /\ page'.at <= wire'[i].at
                      /\ \A j \in 1..(i - 1) : /\ wire'[j].sv <= wire'[i].sv
                                               /\ wire'[j].at <= wire'[i].at
    BY DEF SnapshotIsNewest
  <2>1. CASE i \in 1..Len(wire)
    <3>1. \A j \in 1..(i - 1) : j \in 1..Len(wire)
      BY <1>1, <2>1
    <3> QED BY <1>0, <2>1, <3>1 DEF SnapshotIsNewest
  <2>2. CASE i \notin 1..Len(wire)
    <3>1. wire'[i].sv = row.sv /\ wire'[i].at = row.at
      BY <2>2
    <3>2. \A j \in 1..(i - 1) : j \in 1..Len(wire')
      BY <1>1
    <3>3. \A j \in 1..(i - 1) : wire'[j].sv <= row.sv /\ wire'[j].at <= row.at
      BY <1>2, <3>2 DEF ReadFromRow
    <3>4. page'.sv <= row.sv /\ page'.at <= row.at
      BY <1>0 DEF ReadFromRow
    <3> QED BY <3>1, <3>3, <3>4
  <2> QED BY <2>1, <2>2
<1>6. RowTells' /\ PageTells' /\ LogTells' /\ PubTells'
  BY <1>0 DEF RowTells, PageTells, LogTells, PubTells, InTime
<1>7. WireTells'
  <2> SUFFICES ASSUME NEW n \in 1..Len(log), NEW i \in 1..Len(wire'),
                      InTime(n), wire'[i].kind # "other",
                      wire'[i].at > log[n].at
               PROVE  wire'[i].sv > log[n].sv
    BY DEF WireTells, InTime
  <2>1. CASE i \in 1..Len(wire)
    BY <1>0, <2>1 DEF WireTells
  <2>2. CASE i \notin 1..Len(wire)
    <3>1. CASE wire'[i].kind = "snapshot"
      BY <1>0, <2>2, <3>1 DEF RowTells
    <3>2. CASE wire'[i].kind # "snapshot"
      <4>1. /\ wire'[i].cursor \in 1..Len(log)
            /\ wire'[i].kind = log[wire'[i].cursor].kind
            /\ wire'[i].sv = log[wire'[i].cursor].sv
            /\ wire'[i].at = log[wire'[i].cursor].at
        BY <2>2, <3>2
      <4>2. log[wire'[i].cursor].kind = "state"
        <5>1. log[wire'[i].cursor] \in Event
          BY <4>1 DEF Shape
        <5> QED BY <4>1, <5>1 DEF Event
      <4> QED BY <1>0, <4>1, <4>2 DEF LogTells
    <3> QED BY <3>1, <3>2
  <2> QED BY <2>1, <2>2
<1> QED BY <1>2, <1>3, <1>4, <1>5, <1>6, <1>7 DEF VersionInv

LEMMA VersionsAfterTransmission ==
  ASSUME CursorInv, Shape', WireInLog, VersionInv, Transmits
  PROVE  WireInLog' /\ VersionInv'
<1>0. /\ Shape /\ WithinLog
      /\ UNCHANGED <<row, log, pub>>
      /\ ack'.sv <= row.sv
      /\ page'.sv = page.sv /\ page'.at = page.at
      /\ Len(wire) \in Nat
  BY Numbers DEF CursorInv, Transmits
<1>1. CASE wire' = wire
  BY <1>0, <1>1, VersionsAfterSending
<1>2. CASE wire' = <<>>
  BY <1>0, <1>2
  DEF VersionInv, WireInLog, ReadFromRow, WireIsLog, SnapshotIsNewest,
      RowTells, PageTells, LogTells, WireTells, PubTells, InTime
<1>3. ASSUME NEW m \in Nat, NEW n \in Nat, m <= n, n <= Len(log),
             EventsSent(m, n)
      PROVE  WireInLog' /\ VersionInv'
  <2>1. /\ n - m \in Nat
        /\ Len(wire') = Len(wire) + (n - m)
        /\ \A i \in 1..Len(wire) : wire'[i] = wire[i]
    BY <1>3 DEF EventsSent
  <2>2. ASSUME NEW i \in 1..Len(wire'), i \notin 1..Len(wire)
        PROVE  /\ wire'[i].kind # "snapshot"
               /\ wire'[i].cursor \in 1..Len(log)
               /\ wire'[i].kind = log[wire'[i].cursor].kind
               /\ wire'[i].sv = log[wire'[i].cursor].sv
               /\ wire'[i].at = log[wire'[i].cursor].at
    <3>1. PICK k \in 1..(n - m) : i = Len(wire) + k
      <4>1. i - Len(wire) \in 1..(n - m) /\ i = Len(wire) + (i - Len(wire))
        BY <1>0, <2>1, <2>2
      <4> QED BY <4>1
    <3>2. wire'[i] = EventMessage(m + k)
      BY <1>3, <3>1 DEF EventsSent
    <3>3. m + k \in 1..Len(log)
      BY <1>0, <1>3, Numbers
    <3> QED BY <1>0, <3>2, <3>3, EventMessageType
  <2>3. \A i \in 1..Len(wire') : i \notin 1..Len(wire)
           => wire'[i].cursor <= Len(log)
    BY <1>0, <2>2, Numbers
  <2> QED BY <1>0, <2>1, <2>2, <2>3, VersionsAfterSending
<1>4. CASE wire' = Append(wire, SnapshotMessage(conn.catchup))
           /\ conn.catchup <= Len(log)
  <2> DEFINE m == SnapshotMessage(conn.catchup)
  <2>1. /\ m \in Message /\ m.kind = "snapshot" /\ m.cursor <= Len(log)
        /\ m.sv = row.sv /\ m.at = row.at
    BY <1>0, <1>4, SnapshotMessageType, ConnectionType
  <2> HIDE DEF m
  <2>2. /\ Len(wire') = Len(wire) + 1
        /\ wire'[Len(wire')] = m
        /\ \A i \in 1..Len(wire) : wire'[i] = wire[i]
    <3>1. wire \in Seq(Message)
      BY <1>0 DEF Shape
    <3>2. wire' = Append(wire, m)
      BY <1>4 DEF m
    <3> QED BY <1>0, <2>1, <3>1, <3>2
  <2>3. \A i \in 1..Len(wire') : i \in 1..Len(wire) \/ i = Len(wire')
    BY <1>0, <2>2
  <2> QED BY <1>0, <2>1, <2>2, <2>3, VersionsAfterSending
<1> QED BY <1>1, <1>2, <1>3, <1>4 DEF Transmits

\* What the page takes from a message.
LEMMA MergedVersions ==
  ASSUME Shape, NEW m \in Message, m.kind = "snapshot" => page.sv <= m.sv
  PROVE  /\ page.sv <= Merged(m).sv
         /\ \/ Merged(m).sv = page.sv /\ Merged(m).at = page.at
            \/ Merged(m).sv = m.sv /\ Merged(m).at = page.at
            \/ /\ m.kind # "other"
               /\ m.kind = "state" => m.cursor > page.cursor
               /\ Merged(m).sv = m.sv /\ Merged(m).at = m.at
<1>1. /\ page \in Page /\ page.cursor \in Nat /\ m.cursor \in Nat
      /\ m.kind \in {"snapshot", "state", "other"}
      /\ m.sv \in Nat /\ page.sv \in Nat
      /\ page = [on |-> page.on, cursor |-> page.cursor, sv |-> page.sv,
                 status |-> page.status, at |-> page.at]
  BY DEF Shape, Page, Message
<1>2. CASE m.kind = "snapshot"
  BY <1>1, <1>2 DEF Merged
<1>3. CASE m.kind # "snapshot" /\ m.cursor <= page.cursor
  <2>1. Merged(m) = page
    BY <1>1, <1>3 DEF Merged
  <2> QED BY <1>1, <2>1
<1>4. CASE m.kind # "snapshot" /\ m.cursor > page.cursor /\ m.sv < page.sv
  <2>1. Merged(m) = [page EXCEPT !.cursor = Greatest(page.cursor, m.cursor)]
    BY <1>1, <1>4 DEF Merged
  <2> QED BY <1>1, <2>1
<1>5. CASE m.kind = "state" /\ m.cursor > page.cursor /\ m.sv >= page.sv
  <2>1. ~(m.cursor <= page.cursor) /\ ~(m.sv < page.sv) /\ m.kind = "state"
    BY <1>1, <1>5
  <2>2. Merged(m) = [page EXCEPT !.cursor = Greatest(page.cursor, m.cursor),
                              !.sv = m.sv, !.status = m.status, !.at = m.at]
    BY <1>5, <2>1 DEF Merged
  <2>3. Merged(m).sv = m.sv /\ Merged(m).at = m.at
    BY <1>1, <2>2
  <2> QED BY <1>1, <1>5, <2>3
<1>6. CASE m.kind = "other" /\ m.cursor > page.cursor /\ m.sv >= page.sv
  <2>1. ~(m.cursor <= page.cursor) /\ ~(m.sv < page.sv) /\ m.kind = "other"
    BY <1>1, <1>6
  <2>2. Merged(m) = [page EXCEPT !.cursor = Greatest(page.cursor, m.cursor),
                              !.sv = m.sv]
    BY <1>6, <2>1 DEF Merged
  <2>3. Merged(m).sv = m.sv /\ Merged(m).at = page.at
    BY <1>1, <2>2
  <2> QED BY <1>1, <1>6, <2>3
<1> QED BY <1>1, <1>2, <1>3, <1>4, <1>5, <1>6

LEMMA VersionsAfterReceipt ==
  ASSUME Shape, Shape', WireInLog, VersionInv, Receive
  PROVE  WireInLog' /\ VersionInv'
<1>0. /\ ReadFromRow /\ WireIsLog /\ SnapshotIsNewest /\ RowTells /\ PageTells
      /\ LogTells /\ WireTells /\ PubTells
  BY DEF VersionInv
<1>1. /\ wire # <<>> /\ page' = Merged(wire[1]) /\ wire' = Tail(wire)
      /\ UNCHANGED <<row, log, pub, ack>>
  BY HeadOfWire DEF Receive
<1>2. /\ Len(wire) \in Nat \ {0} /\ Len(wire') = Len(wire) - 1
      /\ wire[1] \in Message /\ 1 \in 1..Len(wire)
      /\ \A i \in 1..Len(wire') : /\ wire'[i] = wire[i + 1]
                                  /\ i + 1 \in 1..Len(wire)
  BY <1>1, HeadOfWire
<1>3. /\ page.sv <= page'.sv
      /\ \/ page'.sv = page.sv /\ page'.at = page.at
         \/ page'.sv = wire[1].sv /\ page'.at = page.at
         \/ /\ wire[1].kind # "other"
            /\ page'.sv = wire[1].sv /\ page'.at = wire[1].at
  BY <1>0, <1>1, <1>2, MergedVersions DEF SnapshotIsNewest
<1>4. /\ page.sv \in Nat /\ page.at \in Nat
      /\ wire[1].sv \in Nat /\ wire[1].at \in Nat
      /\ page'.sv \in Nat /\ page'.at \in Nat
      /\ row.sv \in Nat /\ row.at \in Nat
  BY <1>2, <1>3, Numbers
<1>5. ReadFromRow'
  <2>1. page'.sv <= row.sv /\ page'.at <= row.at
    BY <1>0, <1>2, <1>3, <1>4 DEF ReadFromRow
  <2> QED BY <1>0, <1>1, <1>2, <2>1 DEF ReadFromRow
<1>6. SnapshotIsNewest'
  <2> SUFFICES ASSUME NEW i \in 1..Len(wire'), wire'[i].kind = "snapshot"
               PROVE  /\ page'.sv <= wire'[i].sv /\ page'.at <= wire'[i].at
                      /\ \A j \in 1..(i - 1) : /\ wire'[j].sv <= wire'[i].sv
                                               /\ wire'[j].at <= wire'[i].at
    BY DEF SnapshotIsNewest
  <2>1. /\ i + 1 \in 1..Len(wire) /\ wire[i + 1].kind = "snapshot"
        /\ wire'[i] = wire[i + 1]
    BY <1>2
  <2>2. /\ page.sv <= wire[i + 1].sv /\ page.at <= wire[i + 1].at
        /\ \A j \in 1..((i + 1) - 1) : /\ wire[j].sv <= wire[i + 1].sv
                                       /\ wire[j].at <= wire[i + 1].at
    BY <1>0, <2>1 DEF SnapshotIsNewest
  <2>3. 1 \in 1..((i + 1) - 1)
    BY <1>2
  <2>4. page'.sv <= wire'[i].sv /\ page'.at <= wire'[i].at
    BY <1>3, <1>4, <2>1, <2>2, <2>3
  <2>5. ASSUME NEW j \in 1..(i - 1)
        PROVE  wire'[j].sv <= wire'[i].sv /\ wire'[j].at <= wire'[i].at
    <3>1. j \in 1..Len(wire') /\ j + 1 \in 1..((i + 1) - 1)
      BY <1>2
    <3> QED BY <1>2, <2>1, <2>2, <3>1
  <2> QED BY <2>4, <2>5
<1>7. PageTells'
  <2> SUFFICES ASSUME NEW n \in 1..Len(log), InTime(n), page'.at > log[n].at
               PROVE  page'.sv > log[n].sv
    BY <1>1 DEF PageTells, InTime
  <2>1. log[n].sv \in Nat /\ log[n].at \in Nat
    BY Numbers
  <2>2. CASE page'.at = page.at
    <3>1. page.sv > log[n].sv
      BY <1>0, <2>2 DEF PageTells
    <3> QED BY <1>3, <1>4, <2>1, <3>1
  <2>3. CASE /\ wire[1].kind # "other"
             /\ page'.sv = wire[1].sv /\ page'.at = wire[1].at
    BY <1>0, <1>2, <2>3 DEF WireTells
  <2> QED BY <1>3, <2>2, <2>3
<1>8. RowTells' /\ LogTells' /\ PubTells'
  BY <1>0, <1>1 DEF RowTells, LogTells, PubTells, InTime
<1>9. WireTells' /\ WireIsLog' /\ WireInLog'
  BY <1>0, <1>1, <1>2 DEF WireTells, WireIsLog, WireInLog, InTime
<1> QED BY <1>5, <1>6, <1>7, <1>8, <1>9 DEF VersionInv

-----------------------------------------------------------------------------
(* The theorems.                                                           *)

LEMMA Start == Init => Inv
<1> SUFFICES ASSUME Init PROVE Inv
  OBVIOUS
<1> USE DEF Init
<1>1. Shape
  <2>1. row \in Row
    BY DEF Row, Statuses
  <2>2. Worker("idle") \in Publisher
    BY WorkerType
  <2>3. pub \in [Workers -> Publisher]
    BY <2>2
  <2>4. conn \in Connection /\ sub \in Subscription
    BY DEF NoConnection, NoSubscription, Connection, Subscription
  <2>5. page \in Page
    BY DEF Page
  <2>6. drops \in 0..MaxDrops
    BY StreamAssumption DEF StreamAssumption
  <2>7. log \in Seq(Event) /\ wire \in Seq(Message)
    OBVIOUS
  <2>8. ack \in [due: BOOLEAN, sv: Nat]
    OBVIOUS
  <2> QED BY <2>1, <2>3, <2>4, <2>5, <2>6, <2>7, <2>8 DEF Shape
<1>2. WithinLog /\ WireInLog /\ Connected /\ DeliveryIsGapless
  BY DEF WithinLog, WireInLog, Connected, Setting, DeliveryIsGapless,
         NoConnection, NoSubscription
<1>3. \A w \in Workers : pub[w].sv = 0 /\ pub[w].at = 0
  BY WorkerType
<1>4. VersionInv
  BY <1>3
  DEF VersionInv, ReadFromRow, WireIsLog, SnapshotIsNewest, RowTells,
      PageTells, LogTells, WireTells, PubTells
<1> QED BY <1>1, <1>2, <1>4 DEF Inv, CursorInv

\* Every action either belongs to the processes or to the connection.
LEMMA Step == Inv /\ [Next]_vars => Inv'
<1> SUFFICES ASSUME Inv, [Next]_vars PROVE Inv'
  OBVIOUS
<1>0. CursorInv /\ WireInLog /\ VersionInv /\ Shape /\ ReadFromRow
  BY DEF Inv, CursorInv, VersionInv
<1>1. ASSUME Commits \/ Appends
      PROVE  Inv'
  <2>1. CursorInv'
    BY <1>0, <1>1, LogGrows, CursorsStay
  <2>2. Shape'
    BY <1>0, <1>1, LogGrows
  <2>3. WireInLog' /\ VersionInv'
    BY <1>0, <1>1, <2>2, VersionsAfterCommit, VersionsAfterAppend
  <2> QED BY <2>1, <2>3 DEF Inv
<1>2. ASSUME Connect \/ Setup \/ Poll \/ Deliver \/ Drop \/ ApiRestart
      PROVE  Inv'
  <2>1. CursorInv'
    BY <1>0, <1>2, Connecting, ReadingCatchup, Replaying, SendingSnapshot,
       Activating, Polling, Delivering, Breaking DEF Setup
  <2>2. Transmits
    BY <1>0, <1>2, ConnectionTransmits
  <2>3. Shape'
    BY <2>1 DEF CursorInv
  <2>4. WireInLog' /\ VersionInv'
    BY <1>0, <2>2, <2>3, VersionsAfterTransmission
  <2> QED BY <2>1, <2>4 DEF Inv
<1>3. CASE Receive
  <2>1. CursorInv'
    BY <1>0, <1>3, Receiving
  <2>2. Shape'
    BY <2>1 DEF CursorInv
  <2>3. WireInLog' /\ VersionInv'
    BY <1>0, <1>3, <2>2, VersionsAfterReceipt
  <2> QED BY <2>1, <2>3 DEF Inv
<1>4. ASSUME NEW w \in Workers, WorkerStep(w) \/ Crash(w)
      PROVE  Commits \/ Appends
  BY <1>0, <1>4, WorkerCommits, EventsAppended DEF WorkerStep
<1>5. CASE Command \/ AckCommand
  BY <1>0, <1>1, <1>5, ApiCommits, EventsAppended
<1>6. CASE UNCHANGED vars
  <2>1. Shape'
    BY <1>0, <1>6 DEF Shape, vars
  <2>2. CursorInv'
    BY <1>0, <1>6, <2>1, CursorsStay, Numbers DEF vars
  <2>3. Transmits
    BY <1>0, <1>6 DEF Transmits, ReadFromRow, vars
  <2>4. WireInLog' /\ VersionInv'
    BY <1>0, <2>1, <2>3, VersionsAfterTransmission
  <2> QED BY <2>2, <2>4 DEF Inv
<1> QED BY <1>1, <1>2, <1>3, <1>4, <1>5, <1>6 DEF Next

THEOREM Invariance == Spec => []Inv
<1> QED BY Start, Step, PTL DEF Spec

\* Every variable keeps its type.
THEOREM TypeCorrect == Spec => []TypeOK
<1>1. Inv => TypeOK
  BY DEF Inv, CursorInv, Shape, TypeOK
<1> QED BY <1>1, Invariance, PTL

\* Replay, snapshot, buffer and live stream are one sequence without gap or
\* repetition, whatever the sizes of the batches (ws_gateway.py:62).
THEOREM EventsArriveInOrder == Spec => []DeliveryIsGapless
<1>1. Inv => DeliveryIsGapless
  BY DEF Inv, CursorInv
<1> QED BY <1>1, Invariance, PTL

\* A ready connection has sent all that its subscription has passed
\* (ws_gateway.py:223).
THEOREM EventsAreNotLost == Spec => []NothingIsLost
<1>1. Inv => NothingIsLost
  BY DEF Inv, CursorInv, Connected, NothingIsLost
<1> QED BY <1>1, Invariance, PTL

\* No snapshot that replaces the page's state is older than it
\* (jobReducer.ts:67).
THEOREM VersionsGrow == Spec => VersionNeverFalls
<1>1. Inv /\ [Next]_vars => [page'.sv >= page.sv]_vars
  <2> SUFFICES ASSUME Inv, [Next]_vars PROVE page'.sv >= page.sv
    OBVIOUS
  <2>0. CursorInv /\ VersionInv /\ Shape /\ ReadFromRow /\ page.sv \in Nat
    BY Numbers DEF Inv, CursorInv, VersionInv
  <2>1. CASE Receive
    <3>1. wire # <<>> /\ page' = Merged(wire[1]) /\ wire[1] \in Message
          /\ 1 \in 1..Len(wire)
      BY <2>0, <2>1, HeadOfWire DEF Receive
    <3>2. page.sv <= page'.sv
      BY <2>0, <3>1, MergedVersions DEF VersionInv, SnapshotIsNewest
    <3>3. page'.sv \in Nat
      BY <2>0, <3>1, MergedType DEF Page
    <3> QED BY <2>0, <3>2, <3>3
  <2>2. CASE page'.sv = page.sv
    BY <2>0, <2>2
  <2>3. ASSUME Connect \/ Setup \/ Poll \/ Deliver \/ Drop \/ ApiRestart
        PROVE  page'.sv = page.sv
    BY <2>0, <2>3, ConnectionTransmits DEF Transmits
  <2>4. ASSUME \/ Command \/ AckCommand
               \/ \E w \in Workers : WorkerStep(w) \/ Crash(w)
               \/ UNCHANGED vars
        PROVE  page' = page
    BY <2>0, <2>4, WorkerCommits, ApiCommits, EventsAppended
    DEF WorkerStep, Commits, Appends, vars
  <2> QED BY <2>1, <2>2, <2>3, <2>4 DEF Next
<1> QED BY <1>1, Invariance, PTL DEF Spec, VersionNeverFalls

\* If the page goes back it is by an event that announced a status its row had
\* left: the fences, the barrier and the buffer never make it so.
THEOREM OnlyLateAnnouncementsMislead == Spec => OnlyLateEventsGoBack
<1>1. Inv /\ [Next]_vars
         => [page'.at < page.at => /\ Head(wire).kind = "state"
                                   /\ log[Head(wire).cursor].late]_vars
  <2> SUFFICES ASSUME Inv, [Next]_vars, page'.at < page.at
               PROVE  /\ Head(wire).kind = "state"
                      /\ log[Head(wire).cursor].late
    OBVIOUS
  <2>0. CursorInv /\ VersionInv /\ Shape /\ ReadFromRow /\ page.at \in Nat
    BY Numbers DEF Inv, CursorInv, VersionInv
  <2>1. CASE Receive
    <3> DEFINE m == wire[1]
    <3>1. /\ wire # <<>> /\ page' = Merged(m) /\ m \in Message
          /\ 1 \in 1..Len(wire) /\ Head(wire) = m
          /\ m.at \in Nat /\ m.sv \in Nat /\ page.sv \in Nat
      BY <2>0, <2>1, HeadOfWire, Numbers DEF Receive
    <3> HIDE DEF m
    <3>2. m.kind = "snapshot" => page.sv <= m.sv /\ page.at <= m.at
      BY <2>0, <3>1 DEF VersionInv, SnapshotIsNewest, m
    <3>3. /\ page.sv <= page'.sv
          /\ \/ page'.at = page.at
             \/ m.kind # "other" /\ page'.sv = m.sv /\ page'.at = m.at
      BY <2>0, <3>1, <3>2, MergedVersions
    <3>4. m.kind # "other" /\ page.sv <= m.sv /\ m.at < page.at
      BY <2>0, <3>3
    <3>5. m.kind # "snapshot"
      BY <2>0, <3>1, <3>2, <3>4
    <3>6. m.kind = "state"
      BY <3>1, <3>4, <3>5 DEF Message
    <3>7. /\ m.cursor \in 1..Len(log)
          /\ log[m.cursor].kind = "state"
          /\ log[m.cursor].sv = m.sv /\ log[m.cursor].at = m.at
      BY <2>0, <3>1, <3>5, <3>6 DEF VersionInv, WireIsLog, m
    <3>8. ~InTime(m.cursor)
      <4>1. SUFFICES ASSUME InTime(m.cursor) PROVE FALSE
        OBVIOUS
      <4>2. page.sv > log[m.cursor].sv
        BY <2>0, <3>4, <3>7, <4>1 DEF VersionInv, PageTells
      <4> QED BY <3>1, <3>4, <3>7, <4>2
    <3> QED BY <3>1, <3>6, <3>7, <3>8 DEF InTime
  <2>2. CASE page'.at = page.at
    BY <2>0, <2>2
  <2>3. ASSUME Connect \/ Setup \/ Poll \/ Deliver \/ Drop \/ ApiRestart
        PROVE  page'.at = page.at
    BY <2>0, <2>3, ConnectionTransmits DEF Transmits
  <2>4. ASSUME \/ Command \/ AckCommand
               \/ \E w \in Workers : WorkerStep(w) \/ Crash(w)
               \/ UNCHANGED vars
        PROVE  page' = page
    BY <2>0, <2>4, WorkerCommits, ApiCommits, EventsAppended
    DEF WorkerStep, Commits, Appends, vars
  <2> QED BY <2>1, <2>2, <2>3, <2>4 DEF Next
<1> QED BY <1>1, Invariance, PTL DEF Spec, OnlyLateEventsGoBack

-----------------------------------------------------------------------------
(* The feed.                                                               *)

\* A snapshot is at least as new as the event whose cursor it carries.
SnapshotKnowsLog ==
    \A i \in 1..Len(wire) :
        wire[i].kind = "snapshot" /\ wire[i].cursor > 0 =>
            log[wire[i].cursor].sv <= wire[i].sv

\* What is sent besides a snapshot has another kind.
LEMMA SnapshotsAfterTransmission ==
  ASSUME CursorInv, Shape', WireInLog, VersionInv, SnapshotKnowsLog, Transmits
  PROVE  SnapshotKnowsLog'
<1>0. /\ Shape /\ ReadFromRow /\ UNCHANGED <<row, log>>
      /\ Len(wire) \in Nat /\ Len(log) \in Nat
  BY Numbers DEF CursorInv, VersionInv, Transmits
<1>1. CASE wire' = wire
  BY <1>0, <1>1 DEF SnapshotKnowsLog
<1>2. CASE wire' = <<>>
  BY <1>0, <1>2 DEF SnapshotKnowsLog
<1>3. ASSUME NEW m \in Nat, NEW n \in Nat, m <= n, n <= Len(log),
             EventsSent(m, n)
      PROVE  SnapshotKnowsLog'
  <2>1. /\ Len(wire') = Len(wire) + (n - m)
        /\ \A i \in 1..Len(wire) : wire'[i] = wire[i]
    BY <1>3 DEF EventsSent
  <2>2. ASSUME NEW i \in 1..Len(wire'), i \notin 1..Len(wire)
        PROVE  wire'[i].kind # "snapshot"
    <3>1. PICK k \in 1..(n - m) : i = Len(wire) + k
      <4>1. i - Len(wire) \in 1..(n - m) /\ i = Len(wire) + (i - Len(wire))
        BY <1>0, <2>1, <2>2
      <4> QED BY <4>1
    <3>2. wire'[i] = EventMessage(m + k)
      BY <1>3, <3>1 DEF EventsSent
    <3>3. m + k \in 1..Len(log)
      BY <1>0, <1>3
    <3> QED BY <1>0, <3>2, <3>3, EventMessageType
  <2> QED BY <1>0, <2>1, <2>2 DEF SnapshotKnowsLog
<1>4. CASE /\ wire' = Append(wire, SnapshotMessage(conn.catchup))
           /\ conn.catchup <= Len(log)
  <2> PICK m : m = SnapshotMessage(conn.catchup)
    OBVIOUS
  <2>1. /\ m \in Message /\ m.cursor <= Len(log) /\ m.cursor \in Nat
        /\ m.sv = row.sv
    BY <1>0, <1>4, SnapshotMessageType, ConnectionType
  <2>2. /\ wire' \in Seq(Message) /\ Len(wire') = Len(wire) + 1
        /\ wire'[Len(wire) + 1] = m
        /\ \A i \in 1..Len(wire) : wire'[i] = wire[i]
    <3>1. wire \in Seq(Message) /\ wire' = Append(wire, m)
      BY <1>0, <1>4 DEF Shape
    <3> QED BY <1>0, <2>1, <3>1
  <2>3. m.cursor > 0 => log[m.cursor].sv <= m.sv
    BY <1>0, <2>1 DEF ReadFromRow
  <2>4. \A i \in 1..Len(wire') : i \in 1..Len(wire) \/ i = Len(wire) + 1
    BY <1>0, <2>2
  <2>5. ASSUME NEW i \in 1..Len(wire'), wire'[i].kind = "snapshot",
               wire'[i].cursor > 0
        PROVE  log[wire'[i].cursor].sv <= wire'[i].sv
    <3>1. CASE i \in 1..Len(wire)
      BY <2>2, <2>5, <3>1 DEF SnapshotKnowsLog
    <3>2. CASE i = Len(wire) + 1
      BY <2>2, <2>3, <2>5, <3>2
    <3> QED BY <2>4, <3>1, <3>2
  <2> QED BY <1>0, <2>5 DEF SnapshotKnowsLog
<1> QED BY <1>1, <1>2, <1>3, <1>4 DEF Transmits

LEMMA SnapshotStep ==
    Inv /\ SnapshotKnowsLog /\ [Next]_vars => SnapshotKnowsLog'
<1> SUFFICES ASSUME Inv, SnapshotKnowsLog, [Next]_vars
             PROVE  SnapshotKnowsLog'
  OBVIOUS
<1>0. /\ CursorInv /\ WireInLog /\ VersionInv /\ Shape /\ ReadFromRow
      /\ Len(log) \in Nat /\ \A i \in 1..Len(wire) : wire[i].cursor \in Nat
  BY Numbers DEF Inv, CursorInv, VersionInv
<1>1. CASE Commits
  BY <1>1 DEF Commits, SnapshotKnowsLog
<1>2. CASE Appends
  <2>1. /\ wire' = wire
        /\ \A n \in 1..Len(log) : log'[n] = log[n]
    BY <1>0, <1>2 DEF Appends, Shape
  <2>2. ASSUME NEW i \in 1..Len(wire), wire[i].kind = "snapshot",
               wire[i].cursor > 0
        PROVE  log'[wire[i].cursor].sv <= wire[i].sv
    <3>1. wire[i].cursor \in 1..Len(log)
      BY <1>0, <2>2 DEF WireInLog
    <3>2. log[wire[i].cursor].sv <= wire[i].sv
      BY <2>2 DEF SnapshotKnowsLog
    <3> QED BY <2>1, <3>1, <3>2
  <2> QED BY <2>1, <2>2 DEF SnapshotKnowsLog
<1>3. ASSUME Connect \/ Setup \/ Poll \/ Deliver \/ Drop \/ ApiRestart
      PROVE  SnapshotKnowsLog'
  BY <1>0, <1>3, Step, ConnectionTransmits, SnapshotsAfterTransmission
  DEF Inv, CursorInv
<1>4. CASE Receive
  <2>1. /\ log' = log /\ Len(wire) \in Nat /\ Len(wire') = Len(wire) - 1
        /\ \A i \in 1..(Len(wire) - 1) : wire'[i] = wire[i + 1]
    BY <1>0, <1>4, HeadOfWire DEF Receive
  <2>2. ASSUME NEW i \in 1..Len(wire')
        PROVE  i + 1 \in 1..Len(wire) /\ wire'[i] = wire[i + 1]
    BY <2>1
  <2> QED BY <2>1, <2>2 DEF SnapshotKnowsLog
<1>5. ASSUME NEW w \in Workers, WorkerStep(w) \/ Crash(w)
      PROVE  Commits \/ Appends
  BY <1>0, <1>5, WorkerCommits, EventsAppended DEF WorkerStep
<1>6. ASSUME Command \/ AckCommand
      PROVE  Commits \/ Appends
  BY <1>0, <1>6, ApiCommits, EventsAppended
<1>7. CASE UNCHANGED vars
  BY <1>7 DEF vars, SnapshotKnowsLog
<1> QED BY <1>1, <1>2, <1>3, <1>4, <1>5, <1>6, <1>7 DEF Next

LEMMA SnapshotsAreCurrent == Spec => []SnapshotKnowsLog
<1>1. Init => SnapshotKnowsLog
  BY DEF Init, SnapshotKnowsLog
<1> QED BY <1>1, SnapshotStep, Invariance, PTL DEF Spec

\* A commit raises the version by one, or leaves it.
LEMMA OneVersionAtATime ==
  ASSUME Shape, Command \/ \E w \in Workers : WorkerStep(w) \/ Crash(w)
  PROVE  row'.sv = row.sv \/ row'.sv = row.sv + 1
<1>0. /\ row.sv \in Nat
      /\ row = [status |-> row.status, at |-> row.at, sv |-> row.sv,
                owner |-> row.owner, resume |-> row.resume]
  BY DEF Shape, Row
<1>1. CASE Command
  BY <1>0, <1>1 DEF Command
<1>2. ASSUME NEW w \in Workers, WorkerStep(w) \/ Crash(w)
      PROVE  row'.sv = row.sv \/ row'.sv = row.sv + 1
  <2>1. CASE Claim(w)
    BY <1>0, <2>1 DEF Claim
  <2>2. CASE SetStatus(w)
    BY <1>0, <2>2 DEF SetStatus
  <2>3. CASE Progress(w)
    BY <1>0, <2>3 DEF Progress
  <2>4. CASE Release(w)
    BY <1>0, <2>4 DEF Release
  <2>5. CASE SweepStale(w)
    BY <1>0, <2>5 DEF SweepStale
  <2>6. CASE \/ LoseClaim(w) \/ ReadLatest(w) \/ ReadVersion(w)
             \/ AppendEvent(w) \/ Crash(w)
    BY <2>6 DEF LoseClaim, ReadLatest, ReadVersion, AppendEvent, Crash
  <2> QED BY <1>2, <2>1, <2>2, <2>3, <2>4, <2>5, <2>6 DEF WorkerStep
<1> QED BY <1>1, <1>2

\* The page is at least as new as what it has come to.
LEMMA MergedCovers ==
  ASSUME Shape, NEW m \in Message, page.cursor <= m.cursor,
         m.kind = "snapshot" => page.sv <= m.sv,
         m.kind # "snapshot" => page.cursor < m.cursor
  PROVE  /\ m.sv <= Merged(m).sv
         /\ Merged(m).cursor = m.cursor
<1>1. /\ page \in Page /\ page.cursor \in Nat /\ m.cursor \in Nat
      /\ m.kind \in {"snapshot", "state", "other"}
      /\ m.sv \in Nat /\ page.sv \in Nat
      /\ page = [on |-> page.on, cursor |-> page.cursor, sv |-> page.sv,
                 status |-> page.status, at |-> page.at]
  BY DEF Shape, Page, Message
<1>2. Greatest(page.cursor, m.cursor) = m.cursor
  BY <1>1 DEF Greatest
<1>3. CASE m.kind = "snapshot"
  <2>1. Merged(m) = [page EXCEPT !.cursor = m.cursor, !.sv = m.sv,
                              !.status = m.status, !.at = m.at]
    BY <1>1, <1>2, <1>3 DEF Merged
  <2> QED BY <1>1, <2>1
<1>4. CASE m.kind # "snapshot" /\ m.sv < page.sv
  <2>1. Merged(m) = [page EXCEPT !.cursor = m.cursor]
    BY <1>1, <1>2, <1>4 DEF Merged
  <2> QED BY <1>1, <1>4, <2>1
<1>5. CASE m.kind = "state" /\ m.sv >= page.sv
  <2>1. ~(m.cursor <= page.cursor) /\ ~(m.sv < page.sv)
    BY <1>1, <1>5
  <2>2. Merged(m) = [page EXCEPT !.cursor = m.cursor, !.sv = m.sv,
                              !.status = m.status, !.at = m.at]
    BY <1>1, <1>2, <1>5, <2>1 DEF Merged
  <2> QED BY <1>1, <2>2
<1>6. CASE m.kind = "other" /\ m.sv >= page.sv
  <2>1. ~(m.cursor <= page.cursor) /\ ~(m.sv < page.sv)
    BY <1>1, <1>6
  <2>2. Merged(m) = [page EXCEPT !.cursor = m.cursor, !.sv = m.sv]
    BY <1>1, <1>2, <1>6, <2>1 DEF Merged
  <2> QED BY <1>1, <2>2
<1> QED BY <1>1, <1>3, <1>4, <1>5, <1>6

\* The versions that go with the events of a log.
Versions(events) == [n \in 1..Len(events) |-> events[n].sv]

LEMMA VersionsType ==
  ASSUME NEW events \in Seq(Event)
  PROVE  /\ Versions(events) \in Seq(Nat)
         /\ Len(Versions(events)) = Len(events) /\ Len(events) \in Nat
         /\ \A n \in 1..Len(events) : Versions(events)[n] = events[n].sv
<1>1. PICK N \in Nat : N = Len(events)
  OBVIOUS
<1>2. \A n \in 1..N : events[n].sv \in Nat
  <2>1. \A n \in 1..N : events[n] \in Event
    BY <1>1
  <2> QED BY <2>1 DEF Event
<1>3. PICK t : t = Versions(events)
  OBVIOUS
<1>4. t = [n \in 1..N |-> events[n].sv]
  BY <1>1, <1>3 DEF Versions
<1>5. t \in [1..N -> Nat]
  BY <1>2, <1>4
<1>6. t \in Seq(Nat) /\ Len(t) = N
  BY <1>5
<1>7. \A n \in 1..N : t[n] = events[n].sv
  BY <1>4
<1> QED BY <1>1, <1>3, <1>6, <1>7

LEMMA AppendedVersion ==
  ASSUME NEW events \in Seq(Event), NEW e \in Event
  PROVE  Versions(Append(events, e)) = Append(Versions(events), e.sv)
<1> PICK N \in Nat : N = Len(events)
  OBVIOUS
<1>1. PICK s \in Seq(Nat) :
         /\ s = Versions(events) /\ Len(s) = N
         /\ \A n \in 1..N : s[n] = events[n].sv
  BY VersionsType
<1>2. PICK more : more = Append(events, e)
  OBVIOUS
<1>3. /\ more \in Seq(Event) /\ Len(more) = N + 1 /\ more[N + 1] = e
      /\ \A n \in 1..N : more[n] = events[n]
  BY <1>2, AppendProperties
<1>4. PICK u \in Seq(Nat) :
         /\ u = Versions(more) /\ Len(u) = N + 1
         /\ \A n \in 1..(N + 1) : u[n] = more[n].sv
  BY <1>3, VersionsType
<1>5. e.sv \in Nat
  BY DEF Event
<1>6. PICK t : t = Append(s, e.sv)
  OBVIOUS
<1>7. /\ t \in Seq(Nat) /\ Len(t) = N + 1 /\ t[N + 1] = e.sv
      /\ \A n \in 1..N : t[n] = s[n]
  BY <1>1, <1>5, <1>6, AppendProperties
<1>8. \A n \in 1..(N + 1) : u[n] = t[n]
  <2> TAKE n \in 1..(N + 1)
  <2>1. n \in 1..N \/ n = N + 1
    OBVIOUS
  <2> QED BY <1>1, <1>3, <1>4, <1>7, <2>1
<1>9. u = t
  BY <1>4, <1>7, <1>8, SeqEqual
<1> QED BY <1>1, <1>2, <1>4, <1>6, <1>9

\* Every receipt takes the page where the feed may take it.
LEMMA ReceiptOfFeed ==
  ASSUME Inv, SnapshotKnowsLog, Receive
  PROVE  /\ page'.cursor \in 0..Len(log)
         /\ page.cursor > 0 => page'.cursor \in {page.cursor, page.cursor + 1}
         /\ page'.sv \in page.sv..row.sv
         /\ page'.cursor > 0 => log[page'.cursor].sv <= page'.sv
         /\ UNCHANGED <<row, log>>
<1>0. /\ Shape /\ WireInLog /\ ReadFromRow /\ WireIsLog /\ SnapshotIsNewest
      /\ DeliveryIsGapless
  BY DEF Inv, CursorInv, VersionInv
<1>1. PICK m \in Message :
         /\ m = wire[1] /\ wire # <<>> /\ 1 \in 1..Len(wire)
         /\ page' = Merged(m) /\ UNCHANGED <<row, log>>
  BY <1>0, HeadOfWire DEF Receive
<1>2. /\ m.cursor \in Nat /\ m.sv \in Nat /\ page.sv \in Nat
      /\ page.cursor \in Nat /\ Len(log) \in Nat /\ row.sv \in Nat
      /\ m.cursor <= Len(log) /\ m.sv <= row.sv /\ page.sv <= row.sv
      /\ m.kind \in {"snapshot", "state", "other"}
  BY <1>0, <1>1, Numbers, ConnectionType
  DEF WireInLog, ReadFromRow, Message
<1>3. m.kind = "snapshot" => page.sv <= m.sv
  BY <1>0, <1>1 DEF SnapshotIsNewest
<1>4. page.cursor > 0 =>
         m.cursor = IF m.kind = "snapshot" THEN page.cursor ELSE page.cursor + 1
  BY <1>0, <1>1 DEF DeliveryIsGapless, Follows
<1>5. m.kind # "snapshot" =>
         /\ m.cursor \in 1..Len(log) /\ m.sv = log[m.cursor].sv
  BY <1>0, <1>1 DEF WireIsLog
<1>6. /\ page.cursor <= m.cursor
      /\ m.kind # "snapshot" => page.cursor < m.cursor
  BY <1>2, <1>4, <1>5
<1>7. m.sv <= page'.sv /\ page'.cursor = m.cursor
  BY <1>0, <1>1, <1>3, <1>6, MergedCovers
<1>8. /\ page.sv <= page'.sv
      /\ page'.sv = page.sv \/ page'.sv = m.sv
  BY <1>0, <1>1, <1>3, MergedVersions
<1>9. m.cursor > 0 => log[m.cursor].sv <= m.sv
  <2>1. CASE m.kind = "snapshot"
    BY <1>1, <2>1 DEF SnapshotKnowsLog
  <2>2. CASE m.kind # "snapshot"
    BY <1>2, <1>5, <2>2
  <2> QED BY <2>1, <2>2
<1>10. m.cursor > 0 => log[m.cursor].sv \in Nat
  BY <1>0, <1>2, Numbers
<1>11. page'.sv \in page.sv..row.sv
  BY <1>2, <1>8
<1>12. page'.cursor > 0 => log[page'.cursor].sv <= page'.sv
  BY <1>2, <1>7, <1>9, <1>10, <1>11
<1> QED BY <1>1, <1>2, <1>4, <1>7, <1>11, <1>12

\* The page is a reader of a feed that skips nothing, through the barrier, the
\* replay, the snapshot, the buffer and any number of breaks
\* (ws_gateway.py:62).
THEOREM FeedRefinement == Spec => ImplementsFeed
<1> DEFINE events == [n \in 1..Len(log) |-> log[n].sv]
           abs == <<events, row.sv, page.cursor, page.sv>>
<1>1. Init => Feed!Init
  <2> SUFFICES ASSUME Init PROVE Feed!Init
    OBVIOUS
  <2>1. Len(log) = 0
    BY DEF Init
  <2>2. events = <<>>
    BY <2>1
  <2> QED BY <2>2 DEF Init, Feed!Init
<1>2. ASSUME Inv, SnapshotKnowsLog, [Next]_vars PROVE [Feed!Next]_abs
  <2>0. /\ CursorInv /\ VersionInv /\ Shape /\ ReadFromRow
        /\ row.sv \in Nat /\ Len(log) \in Nat /\ page.cursor \in Nat
    BY <1>2, Numbers, ConnectionType DEF Inv, CursorInv, VersionInv
  <2>1. ASSUME Commits, row'.sv = row.sv \/ row'.sv = row.sv + 1
        PROVE  [Feed!Next]_abs
    <3>1. UNCHANGED <<log, page>>
      BY <2>1 DEF Commits
    <3>2. events' = events
      BY <3>1
    <3>3. CASE row'.sv = row.sv + 1
      BY <3>1, <3>2, <3>3 DEF Feed!Next, Feed!Change
    <3>4. CASE row'.sv = row.sv
      BY <3>1, <3>2, <3>4
    <3> QED BY <2>1, <3>3, <3>4
  <2>2. ASSUME Appends PROVE [Feed!Next]_abs
    <3>1. PICK e \in Event : log' = Append(log, e) /\ e.sv <= row.sv
      BY <2>2 DEF Appends
    <3>2. UNCHANGED <<row, page>>
      BY <2>2 DEF Appends
    <3>3. e.sv \in 0..row.sv
      BY <2>0, <3>1 DEF Event
    <3>4. events' = Append(events, e.sv)
      BY <2>0, <3>1, AppendedVersion DEF Versions, Shape
    <3> HIDE DEF events
    <3>5. Feed!Publish
      BY <3>2, <3>3, <3>4 DEF Feed!Publish, events
    <3> QED BY <3>5 DEF Feed!Next
  <2>3. CASE Receive
    <3>1. /\ page'.cursor \in 0..Len(log)
          /\ page.cursor > 0 => page'.cursor \in {page.cursor, page.cursor + 1}
          /\ page'.sv \in page.sv..row.sv
          /\ page'.cursor > 0 => log[page'.cursor].sv <= page'.sv
          /\ UNCHANGED <<row, log>>
      BY <1>2, <2>3, ReceiptOfFeed
    <3>2. Len(events) = Len(log) /\ UNCHANGED events
      BY <2>0, <3>1
    <3>3. page'.cursor \in Feed!Reachable
      BY <2>0, <3>1, <3>2 DEF Feed!Reachable
    <3>4. page'.cursor > 0 => events[page'.cursor] <= page'.sv
      BY <2>0, <3>1
    <3>5. Feed!Receive
      BY <3>1, <3>2, <3>3, <3>4 DEF Feed!Receive
    <3> QED BY <3>5 DEF Feed!Next
  <2>4. ASSUME UNCHANGED <<log, row>>, page'.sv = page.sv,
               page'.cursor = page.cursor
        PROVE  [Feed!Next]_abs
    BY <2>4
  <2>5. ASSUME Connect \/ Setup \/ Poll \/ Deliver \/ Drop \/ ApiRestart
        PROVE  /\ UNCHANGED <<log, row>> /\ page'.sv = page.sv
               /\ page'.cursor = page.cursor
    <3>1. page'.cursor = page.cursor
      BY <2>0, <2>5 DEF Connect, Setup, ReadCatchup, Replay, SendSnapshot,
         Activate, Poll, Deliver, Drop, ApiRestart, Break, Shape, Page
    <3> QED BY <2>0, <2>5, <3>1, ConnectionTransmits DEF Transmits
  <2>6. ASSUME \/ Command \/ AckCommand
               \/ \E w \in Workers : WorkerStep(w) \/ Crash(w)
        PROVE  \/ Appends
               \/ Commits /\ (row'.sv = row.sv \/ row'.sv = row.sv + 1)
    BY <2>0, <2>6, WorkerCommits, ApiCommits, EventsAppended,
       OneVersionAtATime DEF WorkerStep
  <2>7. CASE UNCHANGED vars
    BY <2>4, <2>7 DEF vars
  <2> QED BY <1>2, <2>1, <2>2, <2>3, <2>4, <2>5, <2>6, <2>7 DEF Next
<1> QED BY <1>1, <1>2, Invariance, SnapshotsAreCurrent, PTL
        DEF Spec, ImplementsFeed, Feed!Spec
=============================================================================
