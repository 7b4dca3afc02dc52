------------------------------- MODULE JobFeed -------------------------------
(***************************************************************************)
(* What the gateway promises a page that follows a job: it comes to every  *)
(* event after the one it began with, one after the other, through any     *)
(* number of connections; the version it shows never falls, never runs     *)
(* ahead of the job, and is at least that of the event it has come to.     *)
(* Events may carry older versions than those before them.                 *)
(***************************************************************************)
EXTENDS Naturals, Sequences

VARIABLES
    events,  \* the version that goes with each event, in the order of cursors
    newest,  \* the version of the job
    seen,    \* the cursor the page has come to, 0 before it has any
    shown    \* the version it shows

Init == events = <<>> /\ newest = 0 /\ seen = 0 /\ shown = 0

Change == /\ newest' = newest + 1
          /\ UNCHANGED <<events, seen, shown>>

Publish == /\ \E version \in 0..newest : events' = Append(events, version)
           /\ UNCHANGED <<newest, seen, shown>>

\* A page without a cursor may begin anywhere; after that it skips nothing.
Reachable == (IF seen = 0 THEN 0..Len(events) ELSE {seen, seen + 1})
                \cap 0..Len(events)

Receive == /\ \E cursor \in Reachable, version \in shown..newest :
                 /\ cursor > 0 => events[cursor] <= version
                 /\ seen' = cursor
                 /\ shown' = version
           /\ UNCHANGED <<events, newest>>

Next == Change \/ Publish \/ Receive

Spec == Init /\ [][Next]_<<events, newest, seen, shown>>
=============================================================================
