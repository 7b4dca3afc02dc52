---------------------------- MODULE JobLifecycle ----------------------------
(***************************************************************************)
(* What the job table promises its readers, however workers and the API    *)
(* interleave, crash or lose their claim.  An attempt at a job is granted  *)
(* once, to one worker; only this worker says how it ended, and it says so *)
(* once; from others it can only be taken away.  What no worker holds is   *)
(* the API's to cancel, and a row is deleted behind a terminal status.     *)
(* One transaction may move several rows (the stale-claim sweep does).     *)
(***************************************************************************)
EXTENDS JobStates, Naturals

CONSTANTS NumJobs, Workers, None

VARIABLE job

Entry == [status: RowStates, owner: Workers \cup {None}, attempt: Nat]
Unclaimed(s) == [status |-> s, owner |-> None, attempt |-> 0]

Init == job = [j \in 1..NumJobs |-> Unclaimed("absent")]

Insert(r, s) == r.status = "absent" /\ s = Unclaimed("queued")

\* The next attempt, to a job that waits in the queue or in a pause.
Grant(r, s) == /\ r.status \in {"queued", "paused"}
               /\ s.status = "running"
               /\ s.owner \in Workers
               /\ s.attempt = r.attempt + 1

\* Its owner ends the attempt, or gives up the row, or both.
Work(r, s) == /\ r.owner # None
              /\ s.owner \in {r.owner, None}
              /\ s.attempt = r.attempt
              /\ \/ s.status = r.status
                 \/ /\ r.status = "running"
                    /\ s.status \in {"paused", "succeeded", "failed", "cancelled"}

Expire(r, s) == /\ r.status = "running" /\ r.owner # None
                /\ s.status = "interrupted" /\ s.owner = None
                /\ s.attempt = r.attempt

Requeue(r, s) == r.status = "interrupted" /\ s = [r EXCEPT !.status = "queued"]

Withdraw(r, s) == /\ r.owner = None
                  /\ r.status \in {"queued", "running", "paused", "interrupted"}
                  /\ s = [r EXCEPT !.status = "cancelled"]

Delete(r, s) == r.status \in Terminal /\ s = Unclaimed("gone")

Step(r, s) == \/ Insert(r, s) \/ Grant(r, s) \/ Work(r, s) \/ Expire(r, s)
              \/ Requeue(r, s) \/ Withdraw(r, s) \/ Delete(r, s)

Next == /\ job' \in [1..NumJobs -> Entry]
        /\ \A j \in 1..NumJobs : job'[j] = job[j] \/ Step(job[j], job'[j])

Spec == Init /\ [][Next]_job
=============================================================================
