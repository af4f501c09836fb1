---------------------------- MODULE JobLifecycle ----------------------------
(***************************************************************************)
(* What a row of the table indexing_jobs promises to whoever reads it (the *)
(* API, the backoffice, the reapers): a job is created queued, is claimed  *)
(* at most once, and reaches one of two final statuses exactly once.  The  *)
(* detailed specification IndexJobs implements this one.                   *)
(***************************************************************************)
CONSTANT Jobs          \* the jobs that requests may create

VARIABLE status        \* indexing_jobs.status; "absent" before the INSERT

Statuses == {"absent", "queued", "running", "completed", "failed"}
Terminal == {"completed", "failed"}

Init == status = [j \in Jobs |-> "absent"]

Move(j, from, to) ==
  /\ status[j] = from
  /\ status' = [status EXCEPT ![j] = to]

\* A request inserts the row.
Create(j)   == Move(j, "absent", "queued")

\* The request could not hand the job to the queue and gives it up.
GiveUp(j)   == Move(j, "queued", "failed")

\* One delivery of the task claims the job.
Claim(j)    == Move(j, "queued", "running")

\* The claimed job ends, by its handler or by a reaper.
Complete(j) == Move(j, "running", "completed")
Fail(j)     == Move(j, "running", "failed")

Next == \E j \in Jobs :
          Create(j) \/ GiveUp(j) \/ Claim(j) \/ Complete(j) \/ Fail(j)

Spec == Init /\ [][Next]_status
=============================================================================
