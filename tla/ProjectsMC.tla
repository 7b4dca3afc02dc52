----------------------------- MODULE ProjectsMC -----------------------------
(***************************************************************************)
(* Projects for model checking: behaviours are not followed into states    *)
(* that combine what has nothing in common, or too much of it.             *)
(***************************************************************************)
EXTENDS Projects

Writing(puts) == \E i \in DOMAIN todo : todo[i].put \in puts

CookiesAsAtFirst == cookies = <<>> /\ ~Writing({"cookies"})
ConfigurationAsAtFirst ==
    /\ CookiesAsAtFirst
    /\ made = 0 /\ secrets = <<>> /\ profiles \in {None, <<>>}
    /\ ~Writing({"secret", "clear", "profiles"})

NoneHasEnded ==
    \A j \in DOMAIN jobs : jobs[j].status \in Pending \cup {"unborn"}
NoneIsAskedToEnd == \A j \in DOMAIN jobs : ~jobs[j].cancel /\ ~jobs[j].delete

\* Cookies share nothing with projects, and a job that has ended nothing with
\* the configuration.  Two jobs share a project, its status and perhaps a
\* video, of which nothing is configured; with them the kill and a request
\* that waits for the worker exclude each other.
Apart ==
    /\ CookiesAsAtFirst \/ \A p \in ProjectIds : projects[p] = None
    /\ ConfigurationAsAtFirst \/ NoneHasEnded
    /\ Len(jobs) > 1 \/ Len(uploads) > 1 =>
          /\ ConfigurationAsAtFirst
          /\ changes <= 2
          /\ kills = 0 \/ NoneIsAskedToEnd
=============================================================================
