---------------------------- MODULE SchedulerRun ----------------------------
(***************************************************************************)
(* One campaign day of the bounded scheduler, step14_scheduler.py: the     *)
(* lease, the single run row, its job rows, and the processes that call    *)
(* run_fixture_scheduled_window, resume_fixture_interrupted_run and        *)
(* cancel_or_hold_fixture_run against the same SQLite file.                *)
(*                                                                         *)
(* Every `with database.connection:` block of the code commits on its own, *)
(* so every block is a step here, and a process may die between two steps. *)
(* What a call read before a step and uses after it is kept in a local of  *)
(* the process (now, held, todo, cur, tries).                              *)
(***************************************************************************)
EXTENDS Naturals

CONSTANTS
  Procs,         \* processes (or operators) that share the database file
  Jobs,          \* the caller's job_specs, numbered in row-id order
  FollowupJobs,  \* those with priority FOLLOWUP_FIRST
  NoJob,         \* the local that names no job
  MaxAttempts,   \* SCHEDULER_MAX_ATTEMPTS
  TTL,           \* ttl_seconds of _acquire_lease, in ticks of the clock
  MaxTime,       \* bound: the clock stops here
  MaxCrashes,    \* bound: process deaths in one behaviour
  MaxTries,      \* bound: no resume once a job has been started this often
  MaxIntrusions  \* bound: resumes and cancels while somebody is inside

ASSUME SchedulerAssumption ==
  /\ Jobs \subseteq Nat
  /\ FollowupJobs \subseteq Jobs
  /\ NoJob \notin Jobs
  /\ MaxAttempts \in Nat /\ TTL \in Nat /\ MaxTime \in Nat
  /\ MaxCrashes \in Nat /\ MaxTries \in Nat /\ MaxIntrusions \in Nat

VARIABLES
  run,         \* scheduler_runs.state of the schedule key, "NONE" without row
  runLease,    \* scheduler_runs.lease_id
  leaseState,  \* scheduler_leases.state by row id
  expires,     \* scheduler_leases.expires_at_utc by row id
  jobState,    \* scheduler_jobs.state
  attempts,    \* scheduler_jobs.attempt_count
  calls,       \* how often the executor was really invoked for the job
  pc, now, held, todo, cur, tries,   \* the locals of each process
  clock, crashes,
  intruders,   \* history: inside by a resume or cancel begun beside another call
  intrusions   \* history: how many such calls there have been

rows   == <<run, runLease, leaseState, expires, jobState, attempts>>
locals == <<now, held, todo, cur, tries, intruders>>
env    == <<clock, crashes, intrusions>>
vars   == <<rows, calls, pc, locals, env>>

(* UNIQUE (campaign_id, local_date, state) allows one lease row per state, *)
(* and only three states are ever written: three row ids are enough.       *)
LeaseIds  == 1..3
NoLease   == 0

RunStates == {"NONE", "PLANNED", "CAPACITY_PLANNED", "EXECUTING", "COMPLETED",
              "BLOCKED", "HOLD_FOR_REVIEW", "RECOVERY_REQUIRED",
              "ERROR_RETRYABLE", "ERROR_TERMINAL", "CANCELLED"}
JobStates == {"NONE", "QUEUED", "EXECUTING", "COMPLETED", "HELD",
              "RECOVERY_REQUIRED", "ERROR_RETRYABLE", "ERROR_TERMINAL"}
LeaseStates == {"NONE", "ACTIVE", "RELEASED", "STALE"}

(* Where a process stands: before the run row is its own, or inside it.    *)
Outside == {"idle", "find_lease", "mark_stale", "acquire", "insert_run"}
Inside  == {"plan", "create", "next", "start", "invoke", "record", "release"}

Live(p) == pc[p] \in Inside
Quiet   == \A p \in Procs : ~Live(p)

ActiveLeases == {l \in LeaseIds : leaseState[l] = "ACTIVE"}
StaleLeases  == {l \in LeaseIds : leaseState[l] = "STALE"}

(* jobs.sort(key=...): follow-ups first, then by row id. *)
Precedes(j, k) ==
  \/ j \in FollowupJobs /\ k \notin FollowupJobs
  \/ (j \in FollowupJobs <=> k \in FollowupJobs) /\ j < k

(* Rows a resume takes up again.  Seeded fault: a job the crash left in     *)
(* EXECUTING is forgotten.                                                 *)
ResumableButNotStarted(j) ==
  jobState[j] \in {"QUEUED", "HELD", "ERROR_RETRYABLE", "ERROR_TERMINAL",
                   "RECOVERY_REQUIRED"}
Resumable(j) == jobState[j] \notin {"NONE", "COMPLETED"}

(* A job whose outcome nobody knows stops the loop. *)
Unresolved(j) == jobState[j] = "RECOVERY_REQUIRED"

(* The attempt number of the next try. *)
NextAttempt(j) == attempts[j] + 1

(* UNIQUE (schedule_key).  Seeded fault: no such constraint. *)
RunKeyUnchecked == TRUE
RunKeyFree == run = "NONE"

(* The lease's expires_at_utc against the call's own `now`.  Seeded fault:  *)
(* leases never expire.                                                    *)
NeverExpired(l, p) == FALSE
Expired(l, p) == expires[l] <= now[p]

(* A retryable error on the last allowed attempt is terminal. *)
RetryState(p) == IF tries[p] >= MaxAttempts THEN "ERROR_TERMINAL"
                                            ELSE "ERROR_RETRYABLE"

Goto(p, label) == pc' = [pc EXCEPT ![p] = label]
SetJob(p, s)   == jobState' = [jobState EXCEPT ![cur[p]] = s]

(* A call ends: its locals are gone. *)
Return(p) == /\ Goto(p, "idle")
             /\ now'   = [now EXCEPT ![p] = 0]
             /\ held'  = [held EXCEPT ![p] = NoLease]
             /\ todo'  = [todo EXCEPT ![p] = {}]
             /\ cur'   = [cur EXCEPT ![p] = NoJob]
             /\ tries' = [tries EXCEPT ![p] = 0]
             /\ intruders' = intruders \ {p}

Init ==
  /\ run = "NONE" /\ runLease = NoLease
  /\ leaseState = [l \in LeaseIds |-> "NONE"]
  /\ expires    = [l \in LeaseIds |-> 0]
  /\ jobState   = [j \in Jobs |-> "NONE"]
  /\ attempts   = [j \in Jobs |-> 0]
  /\ calls      = [j \in Jobs |-> 0]
  /\ pc    = [p \in Procs |-> "idle"]
  /\ now   = [p \in Procs |-> 0]
  /\ held  = [p \in Procs |-> NoLease]
  /\ todo  = [p \in Procs |-> {}]
  /\ cur   = [p \in Procs |-> NoJob]
  /\ tries = [p \in Procs |-> 0]
  /\ clock = 0 /\ crashes = 0
  /\ intruders = {} /\ intrusions = 0

-----------------------------------------------------------------------------
(* run_fixture_scheduled_window: _prepare_run *)

(* The call takes its `now` and finds no run row.  With a row it returns   *)
(* (reused, or RUN_ALREADY_EXISTS_REQUIRES_RESUME) and changes nothing.    *)
BeginWindow(p) ==
  /\ pc[p] = "idle" /\ run = "NONE"
  /\ now' = [now EXCEPT ![p] = clock]
  /\ Goto(p, "find_lease")
  /\ UNCHANGED <<rows, calls, held, todo, cur, tries, intruders, env>>

(* _acquire_lease reads the ACTIVE lease of the day. *)
FindLease(p) ==
  /\ pc[p] = "find_lease"
  /\ \/ /\ ActiveLeases = {}
        /\ Goto(p, "acquire")
        /\ UNCHANGED locals
     \/ /\ \E l \in ActiveLeases : ~Expired(l, p)   \* CONCURRENT_RUN_ACTIVE
        /\ Return(p)
     \/ \E l \in ActiveLeases :
          /\ Expired(l, p)
          /\ held' = [held EXCEPT ![p] = l]
          /\ Goto(p, "mark_stale")
          /\ UNCHANGED <<now, todo, cur, tries, intruders>>
  /\ UNCHANGED <<rows, calls, env>>

(* The expired lease becomes STALE and the call returns                    *)
(* STALE_LEASE_RECOVERY_REQUIRED; a second STALE row of the day breaks     *)
(* UNIQUE (campaign_id, local_date, state) and the update is rolled back.  *)
MarkStale(p) ==
  /\ pc[p] = "mark_stale"
  /\ leaseState' = IF StaleLeases \subseteq {held[p]}
                   THEN [leaseState EXCEPT ![held[p]] = "STALE"]
                   ELSE leaseState
  /\ Return(p)
  /\ UNCHANGED <<run, runLease, expires, jobState, attempts, calls, env>>

(* INSERT of an ACTIVE lease; the same UNIQUE stops a second one. *)
Acquire(p) ==
  /\ pc[p] = "acquire"
  /\ \/ /\ ActiveLeases # {}
        /\ Return(p)
        /\ UNCHANGED <<leaseState, expires>>
     \/ /\ ActiveLeases = {}
        /\ \E l \in LeaseIds :
             /\ leaseState[l] = "NONE"
             /\ \A k \in LeaseIds : k < l => leaseState[k] # "NONE"
             /\ leaseState' = [leaseState EXCEPT ![l] = "ACTIVE"]
             /\ expires' = [expires EXCEPT ![l] = now[p] + TTL]
             /\ held' = [held EXCEPT ![p] = l]
        /\ Goto(p, "insert_run")
        /\ UNCHANGED <<now, todo, cur, tries, intruders>>
  /\ UNCHANGED <<run, runLease, jobState, attempts, calls, env>>

(* INSERT of the run row: schedule_key is UNIQUE, so only one process gets *)
(* past this step; the other call fails and leaves its lease behind.       *)
InsertRun(p) ==
  /\ pc[p] = "insert_run"
  /\ \/ /\ RunKeyFree
        /\ run' = "PLANNED" /\ runLease' = held[p]
        /\ Goto(p, "plan")
        /\ UNCHANGED locals
     \/ /\ ~RunKeyFree
        /\ Return(p)
        /\ UNCHANGED <<run, runLease>>
  /\ UNCHANGED <<leaseState, expires, jobState, attempts, calls, env>>

-----------------------------------------------------------------------------
(* run_fixture_scheduled_window: capacity, job rows; _execute_jobs *)

(* plan_shared_daily_capacity answers ok or blocked (SchedulerCapacity      *)
(* says when); blocked ends the run, and its lease is released.             *)
Plan(p) ==
  /\ pc[p] = "plan"
  /\ \/ run' = "CAPACITY_PLANNED" /\ Goto(p, "create")
     \/ run' = "BLOCKED" /\ Goto(p, "release")
  /\ UNCHANGED <<runLease, leaseState, expires, jobState, attempts, calls,
                 locals, env>>

(* _create_job, in the caller's order; an existing row is kept. *)
CreateJob(p) ==
  /\ pc[p] = "create"
  /\ \E j \in Jobs \ todo[p] :
       /\ \A k \in Jobs : k < j => k \in todo[p]
       /\ jobState' = [jobState EXCEPT ![j] = IF @ = "NONE" THEN "QUEUED" ELSE @]
       /\ todo' = [todo EXCEPT ![p] = @ \union {j}]
  /\ UNCHANGED <<run, runLease, leaseState, expires, attempts, calls, pc, now,
                 held, cur, tries, intruders, env>>

JobsQueued(p) ==
  /\ pc[p] = "create" /\ todo[p] = Jobs
  /\ Goto(p, "next")
  /\ UNCHANGED <<rows, calls, locals, env>>

(* The loop reads the next job row: a COMPLETED one is skipped, one whose  *)
(* outcome is unknown stops the run, any other one is tried (again).       *)
LoadJob(p) ==
  /\ pc[p] = "next"
  /\ \E j \in todo[p] :
       /\ \A k \in todo[p] \ {j} : Precedes(j, k)
       /\ \/ /\ jobState[j] = "COMPLETED"
             /\ todo' = [todo EXCEPT ![p] = @ \ {j}]
             /\ UNCHANGED <<run, pc, now, held, cur, tries, intruders>>
          \/ /\ Unresolved(j)
             /\ run' = "RECOVERY_REQUIRED"
             /\ Return(p)
          \/ /\ jobState[j] # "COMPLETED" /\ ~Unresolved(j)
             /\ cur' = [cur EXCEPT ![p] = j]
             /\ tries' = [tries EXCEPT ![p] = NextAttempt(j)]
             /\ Goto(p, "start")
             /\ UNCHANGED <<run, now, held, todo, intruders>>
  /\ UNCHANGED <<runLease, leaseState, expires, jobState, attempts, calls, env>>

(* EXECUTING and the attempt number are committed before the executor runs. *)
StartJob(p) ==
  /\ pc[p] = "start"
  /\ SetJob(p, "EXECUTING")
  /\ attempts' = [attempts EXCEPT ![cur[p]] = tries[p]]
  /\ run' = "EXECUTING"
  /\ Goto(p, "invoke")
  /\ UNCHANGED <<runLease, leaseState, expires, calls, locals, env>>

Invoke(p) ==
  /\ pc[p] = "invoke"
  /\ calls' = [calls EXCEPT ![cur[p]] = @ + 1]
  /\ Goto(p, "record")
  /\ UNCHANGED <<rows, locals, env>>

(* The executor's answer is committed: success moves on to the next job... *)
JobCompleted(p) ==
  /\ pc[p] = "record"
  /\ SetJob(p, "COMPLETED")
  /\ todo' = [todo EXCEPT ![p] = @ \ {cur[p]}]
  /\ cur' = [cur EXCEPT ![p] = NoJob]
  /\ tries' = [tries EXCEPT ![p] = 0]
  /\ Goto(p, "next")
  /\ UNCHANGED <<run, runLease, leaseState, expires, attempts, calls, now,
                 held, intruders, env>>

(* ... every other answer ends the call with a state for job and run. *)
Outcomes(p) ==
  {<<"RECOVERY_REQUIRED", "RECOVERY_REQUIRED">>,  \* unknown external state
   <<"HELD", "HOLD_FOR_REVIEW">>,                 \* not ok, human review
   <<"ERROR_TERMINAL", "ERROR_TERMINAL">>,        \* not ok, SENT, exception
   <<RetryState(p), RetryState(p)>>}              \* retryable error

JobStopped(p) ==
  /\ pc[p] = "record"
  /\ \E o \in Outcomes(p) : SetJob(p, o[1]) /\ run' = o[2]
  /\ Return(p)
  /\ UNCHANGED <<runLease, leaseState, expires, attempts, calls, env>>

Finalize(p) ==
  /\ pc[p] = "next" /\ todo[p] = {}
  /\ run' = "COMPLETED"
  /\ Goto(p, "release")
  /\ UNCHANGED <<runLease, leaseState, expires, jobState, attempts, calls,
                 locals, env>>

(* _release_lease updates the run's lease row by id, whatever its state; a *)
(* RELEASED row of another lease would break UNIQUE and roll it back.      *)
ReleaseLease(p) ==
  /\ pc[p] = "release"
  /\ leaseState' =
       IF \E l \in LeaseIds \ {runLease} : leaseState[l] = "RELEASED"
       THEN leaseState
       ELSE [leaseState EXCEPT ![runLease] = "RELEASED"]
  /\ Return(p)
  /\ UNCHANGED <<run, runLease, expires, jobState, attempts, calls, env>>

-----------------------------------------------------------------------------
(* The operator's calls.  Neither looks at the lease or asks whether a     *)
(* process is inside the run; one that comes while somebody is intrudes.   *)
Enter(p) ==
  \/ Quiet /\ UNCHANGED <<intruders, intrusions>>
  \/ /\ ~Quiet /\ intrusions < MaxIntrusions
     /\ intruders' = intruders \union {p}
     /\ intrusions' = intrusions + 1

(* resume_fixture_interrupted_run: every row not COMPLETED is loaded again. *)
Resume(p) ==
  /\ pc[p] = "idle" /\ Enter(p)
  /\ run \notin {"NONE", "COMPLETED", "CANCELLED", "RECOVERY_REQUIRED"}
  /\ \A j \in Jobs : attempts[j] < MaxTries
  /\ todo' = [todo EXCEPT ![p] = {j \in Jobs : Resumable(j)}]
  /\ Goto(p, "next")
  /\ UNCHANGED <<rows, calls, now, held, cur, tries, clock, crashes>>

(* cancel_or_hold_fixture_run: any run state is overwritten. *)
CancelOrHold(p) ==
  /\ pc[p] = "idle" /\ Enter(p) /\ run # "NONE"
  /\ \E s \in {"CANCELLED", "HOLD_FOR_REVIEW"} : run' = s
  /\ Goto(p, "release")
  /\ UNCHANGED <<runLease, leaseState, expires, jobState, attempts, calls,
                 now, held, todo, cur, tries, clock, crashes>>

-----------------------------------------------------------------------------
Tick ==
  /\ clock < MaxTime
  /\ clock' = clock + 1
  /\ UNCHANGED <<rows, calls, pc, locals, crashes, intrusions>>

(* A process dies between two commits.  Bound: early enough for the lease  *)
(* it leaves to expire before the clock stops.                             *)
Crash(p) ==
  /\ pc[p] # "idle" /\ crashes < MaxCrashes /\ clock + TTL <= MaxTime
  /\ crashes' = crashes + 1
  /\ Return(p)
  /\ UNCHANGED <<rows, calls, clock, intrusions>>

(* The steps a call takes once it has begun. *)
CallStep(p) ==
  \/ FindLease(p) \/ MarkStale(p) \/ Acquire(p) \/ InsertRun(p)
  \/ Plan(p) \/ CreateJob(p) \/ JobsQueued(p) \/ LoadJob(p) \/ StartJob(p)
  \/ Invoke(p) \/ JobCompleted(p) \/ JobStopped(p) \/ Finalize(p)
  \/ ReleaseLease(p)

Next ==
  \/ Tick
  \/ \E p \in Procs : \/ BeginWindow(p) \/ Resume(p) \/ CancelOrHold(p)
                      \/ CallStep(p) \/ Crash(p)

Spec == Init /\ [][Next]_vars

(* A living process runs its call to the end, time passes, and whoever     *)
(* triggers the day's window keeps asking until there is a run; nobody     *)
(* owes a resume, a cancel or a crash.                                     *)
Fairness ==
  /\ WF_vars(Tick)
  /\ \A p \in Procs : WF_vars(CallStep(p)) /\ WF_vars(BeginWindow(p))

FairSpec == Spec /\ Fairness
-----------------------------------------------------------------------------
(* Properties *)

Pcs == Outside \union Inside

(* Type invariant of the lease, run and job rows and of the locals. *)
TypeOK ==
  /\ run \in RunStates
  /\ runLease \in LeaseIds \union {NoLease}
  /\ leaseState \in [LeaseIds -> LeaseStates]
  /\ expires \in [LeaseIds -> Nat]
  /\ jobState \in [Jobs -> JobStates]
  /\ attempts \in [Jobs -> Nat]
  /\ calls \in [Jobs -> Nat]
  /\ pc \in [Procs -> Pcs]
  /\ now \in [Procs -> Nat]
  /\ held \in [Procs -> LeaseIds \union {NoLease}]
  /\ todo \in [Procs -> SUBSET Jobs]
  /\ cur \in [Procs -> Jobs \union {NoJob}]
  /\ tries \in [Procs -> Nat]
  /\ clock \in Nat /\ crashes \in Nat
  /\ intruders \subseteq Procs /\ intrusions \in Nat

(* SCHEDULER_MAX_CONCURRENT_RUNS = 1: however windows, expired leases and  *)
(* crashes interleave, they bring one process at most into the day's run;  *)
(* every other one inside was let in by a resume or cancel that came while *)
(* somebody was.                                                           *)
OneExecutor == \A p, q \in Procs \ intruders : Live(p) /\ Live(q) => p = q

(* A day reported COMPLETED hides no job row that still needs work, also   *)
(* after crashes in the middle of queueing and any number of resumes.      *)
CompletedMeansDone ==
  run = "COMPLETED" => \A j \in Jobs : jobState[j] \in {"NONE", "COMPLETED"}

(* FOLLOWUP_FIRST: no other job is started while a follow-up that was      *)
(* queued is not complete, on the first pass and on every resumed one.     *)
FollowupsFirst ==
  \A f \in FollowupJobs, n \in Jobs \ FollowupJobs :
     attempts[n] > 0 => jobState[f] \in {"NONE", "COMPLETED"}

(* Every call of an executor was announced by a committed attempt: after a *)
(* crash the attempt count never understates what really happened.         *)
AttemptRecordedFirst == \A j \in Jobs : calls[j] <= attempts[j]

(* The day's jobs are run in order, announced before they are called, and  *)
(* complete when the day is: over queueing that died, holds and resumes,   *)
(* as long as none of them intrudes.                                       *)
JobsInOrder ==
  intrusions = 0 => CompletedMeansDone /\ FollowupsFirst /\ AttemptRecordedFirst

(* A job whose executor answered "unknown" is neither called again nor     *)
(* given another state, whatever is held, cancelled or resumed afterwards, *)
(* until a call intrudes.                                                  *)
UnknownNotRepeated ==
  [][intrusions' = 0 => \A j \in Jobs : jobState[j] = "RECOVERY_REQUIRED" =>
        jobState'[j] = "RECOVERY_REQUIRED" /\ calls'[j] = calls[j]]_vars

(* A crash between taking the lease and writing the run does not lose the  *)
(* day: the orphaned lease expires, is set aside and a later call gets its *)
(* run.  With a second such crash it would (see README, hazards).          *)
DayRecovers == [](crashes <= 1) => <>(run # "NONE")

(* The refinement mapping: the jobs of the day as DayLedger sees them.     *)
Entry == [j \in Jobs |->
            CASE jobState[j] = "NONE" -> "absent"
              [] jobState[j] = "COMPLETED" -> "done"
              [] jobState[j] = "RECOVERY_REQUIRED" -> "unknown"
              [] OTHER -> "open"]
DayClosed == run = "COMPLETED"
Ledger == INSTANCE DayLedger WITH entry <- Entry, closed <- DayClosed

(* Refinement, until a call intrudes: every step of lease, run and job     *)
(* rows is a step of the ledger or leaves it alone.                        *)
ImplementsLedger ==
  Ledger!LedgerInit /\ [][intrusions' = 0 => [Ledger!LedgerNext]_(Ledger!ledger)]_vars
=============================================================================
