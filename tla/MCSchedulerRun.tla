--------------------------- MODULE MCSchedulerRun ---------------------------
(* Two processes, one follow-up with the higher row id and one other job.   *)
EXTENDS SchedulerRun

MCJobs == 1..2
MCFollowupJobs == {2}

(* A second death or an intrusion after the first death, not both. *)
TwoMishaps == crashes + intrusions <= 2
=============================================================================
