-------------------------- MODULE SchedulerProofs --------------------------
(***************************************************************************)
(* The scheduled day, for every number of processes and jobs, every lease  *)
(* time and every number of crashes; and the day's shared capacity, for    *)
(* every set of planners and items and every cap.                          *)
(*                                                                         *)
(* The properties of SchedulerRun are not inductive one by one: that a job *)
(* is called only after its attempt was committed rests on nobody else     *)
(* being inside the run, and that a completed day hides no open job rests  *)
(* on the list of jobs the executor still has.  ExecInv is the conjunction *)
(* of the named parts below; it is inductive until a resume or a cancel    *)
(* intrudes.  That only intruders join an executor needs no such premise   *)
(* (EntryInv).                                                             *)
(* CapacityInv, in the second half, is the one for SchedulerCapacity.      *)
(***************************************************************************)
EXTENDS SchedulerRun, SchedulerCapacity, FiniteSetTheorems, TLAPS


Working == {"start", "invoke", "record"}
Looping == {"next"} \union Working

(* Before the run row exists nobody is inside and no job has been touched. *)
NothingBeforeRun ==
  run = "NONE" => /\ Quiet
                  /\ \A j \in Jobs : jobState[j] = "NONE" /\ attempts[j] = 0

(* A call that is not yet inside the run has no job list. *)
NoListOutside == \A p \in Procs : pc[p] \in Outside => todo[p] = {}

(* While the job rows are being inserted, the list is what is inserted.    *)
Queueing ==
  \A p \in Procs : pc[p] \in {"plan", "create"} =>
    \A j \in Jobs : /\ attempts[j] = 0
                    /\ jobState[j] # "NONE" <=> j \in todo[p]

(* The executor's list misses no job that needs work, and has only rows    *)
(* that exist.                                                             *)
ListComplete ==
  \A p \in Procs : pc[p] \in Looping =>
    /\ \A j \in Jobs : jobState[j] \notin {"NONE", "COMPLETED"} => j \in todo[p]
    /\ \A j \in todo[p] : jobState[j] # "NONE"

(* The job the executor works on: where it stands at each label. *)
CurrentJob ==
  \A p \in Procs :
    /\ pc[p] \in Working => cur[p] \in Jobs
    /\ pc[p] = "start" =>
         /\ jobState[cur[p]] \notin {"NONE", "COMPLETED", "RECOVERY_REQUIRED"}
         /\ tries[p] = attempts[cur[p]] + 1
         /\ cur[p] \notin FollowupJobs =>
              \A f \in FollowupJobs : jobState[f] \in {"NONE", "COMPLETED"}
    /\ pc[p] \in {"invoke", "record"} => jobState[cur[p]] = "EXECUTING"
    /\ pc[p] = "invoke" => calls[cur[p]] < attempts[cur[p]]

(* Once the day is COMPLETED only the lease is left to release. *)
NothingAfterCompleted ==
  run = "COMPLETED" => \A p \in Procs : Live(p) => pc[p] = "release"

(* Nobody has intruded: whoever is inside is alone. *)
LoneExecutor == \A p, q \in Procs : Live(p) /\ Live(q) => p = q

ExecInv ==
  /\ intrusions = 0
  /\ TypeOK
  /\ LoneExecutor
  /\ NothingBeforeRun
  /\ NoListOutside
  /\ Queueing
  /\ ListComplete
  /\ CurrentJob
  /\ NothingAfterCompleted
  /\ CompletedMeansDone
  /\ FollowupsFirst
  /\ AttemptRecordedFirst
-----------------------------------------------------------------------------
(* The type invariant. *)

LEMMA InitTyped == Init => TypeOK
BY SchedulerAssumption
DEF Init, TypeOK, RunStates, JobStates, LeaseStates, LeaseIds, NoLease, Pcs,
    Outside, Inside

LEMMA StepTyped == TypeOK /\ [Next]_vars => TypeOK'
<1> SUFFICES ASSUME TypeOK, [Next]_vars
             PROVE  TypeOK'
  OBVIOUS
<1> USE SchedulerAssumption
    DEF TypeOK, RunStates, JobStates, LeaseStates, NoLease, Pcs, Outside,
        Inside, Goto, rows, locals, env
<1>1. CASE Tick
  BY <1>1 DEF Tick
<1>2. ASSUME NEW p \in Procs, BeginWindow(p) \/ Resume(p) \/ CancelOrHold(p)
      PROVE  TypeOK'
  <2>1. CASE BeginWindow(p)
    BY <2>1 DEF BeginWindow
  <2>2. CASE Resume(p)
    BY <2>2 DEF Resume, Enter
  <2>3. CASE CancelOrHold(p)
    BY <2>3 DEF CancelOrHold, Enter
  <2> QED
    BY <1>2, <2>1, <2>2, <2>3
<1>3. ASSUME NEW p \in Procs, Crash(p)
      PROVE  TypeOK'
  BY <1>3 DEF Crash, Return
<1>4. ASSUME NEW p \in Procs, CallStep(p)
      PROVE  TypeOK'
  <2>1. CASE FindLease(p)
    BY <2>1 DEF FindLease, Return, ActiveLeases
  <2>2. CASE MarkStale(p)
    BY <2>2 DEF MarkStale, Return
  <2>3. CASE Acquire(p)
    BY SMTT(40), <2>3 DEF Acquire, Return
  <2>4. CASE InsertRun(p)
    BY SMTT(40), <2>4 DEF InsertRun, Return
  <2>5. CASE Plan(p)
    BY <2>5 DEF Plan
  <2>6. CASE CreateJob(p)
    BY <2>6 DEF CreateJob
  <2>7. CASE JobsQueued(p)
    BY <2>7 DEF JobsQueued
  <2>8. CASE LoadJob(p)
    BY SMTT(40), <2>8 DEF LoadJob, Return, NextAttempt
  <2>9. CASE StartJob(p)
    BY <2>9 DEF StartJob, SetJob
  <2>10. CASE Invoke(p)
    <3>1. calls' \in [Jobs -> Nat]
      <4>1. CASE cur[p] \in Jobs
        <5>1. calls[cur[p]] \in Nat
          BY <4>1
        <5>2. calls[cur[p]] + 1 \in Nat
          BY <5>1
        <5> QED
          BY <2>10, <5>2 DEF Invoke
      <4>2. CASE cur[p] \notin Jobs
        BY <2>10, <4>2 DEF Invoke
      <4> QED
        BY <4>1, <4>2
    <3> QED
      BY <2>10, <3>1 DEF Invoke
  <2>11. CASE JobCompleted(p)
    BY <2>11 DEF JobCompleted, SetJob
  <2>12. CASE JobStopped(p)
    <3>1. PICK o \in Outcomes(p) : SetJob(p, o[1]) /\ run' = o[2]
      BY <2>12 DEF JobStopped
    <3>2. o[1] \in JobStates /\ o[2] \in RunStates
      BY <3>1 DEF Outcomes, RetryState
    <3> QED
      BY <2>12, <3>1, <3>2 DEF JobStopped, SetJob, Return
  <2>13. CASE Finalize(p)
    BY <2>13 DEF Finalize
  <2>14. CASE ReleaseLease(p)
    BY <2>14 DEF ReleaseLease, Return
  <2> QED
    BY <1>4, <2>1, <2>2, <2>3, <2>4, <2>5, <2>6, <2>7, <2>8, <2>9, <2>10,
       <2>11, <2>12, <2>13, <2>14
    DEF CallStep
<1>5. CASE UNCHANGED vars
  BY <1>5 DEF vars
<1> QED
  BY <1>1, <1>2, <1>3, <1>4, <1>5 DEF Next

(* The rows and locals of _prepare_run, _execute_jobs and the leases keep  *)
(* their types.                                                            *)
THEOREM TypesHold == Spec => []TypeOK
BY InitTyped, StepTyped, PTL DEF Spec
-----------------------------------------------------------------------------
(* Who is inside, with and without intruders. *)
EntryInv ==
  /\ TypeOK
  /\ OneExecutor
  /\ run = "NONE" => Quiet

LEMMA InitEntry == Init => EntryInv
BY InitTyped DEF Init, EntryInv, OneExecutor, Quiet, Live, Inside

LEMMA StepEntry == EntryInv /\ [Next]_vars => EntryInv'
<1> SUFFICES ASSUME EntryInv, [Next]_vars
             PROVE  EntryInv'
  OBVIOUS
<1>0. TypeOK /\ TypeOK'
  BY StepTyped DEF EntryInv
<1> USE <1>0 DEF EntryInv, OneExecutor, Quiet, Live, Inside, Outside, TypeOK, Pcs, Goto,
                 rows, locals, env
<1>1. ASSUME NEW p \in Procs, BeginWindow(p) \/ FindLease(p) \/ MarkStale(p) \/ Acquire(p)
      PROVE  EntryInv'
  BY <1>1 DEF BeginWindow, FindLease, MarkStale, Acquire, Return
<1>2. ASSUME NEW p \in Procs, InsertRun(p)
      PROVE  EntryInv'
  <2>1. CASE RunKeyFree
    BY <1>2, <2>1 DEF InsertRun, RunKeyFree
  <2>2. CASE ~RunKeyFree
    BY <1>2, <2>2 DEF InsertRun, RunKeyFree, Return
  <2> QED
    BY <2>1, <2>2
<1>3. ASSUME NEW p \in Procs, Plan(p) \/ CreateJob(p) \/ JobsQueued(p) \/ LoadJob(p)
      PROVE  EntryInv'
  <2>1. CASE Plan(p) \/ CreateJob(p) \/ JobsQueued(p)
    BY <2>1 DEF Plan, CreateJob, JobsQueued
  <2>2. CASE LoadJob(p)
    <3>1. run' = run \/ run' = "RECOVERY_REQUIRED"
      BY <2>2 DEF LoadJob
    <3>2. /\ pc[p] = "next" /\ intruders' \subseteq intruders
          /\ \A q \in Procs \ {p} : pc'[q] = pc[q] /\ (q \in intruders => q \in intruders')
          /\ p \in intruders => p \in intruders' \/ pc'[p] = "idle"
      BY <2>2 DEF LoadJob, Return
    <3> QED
      BY <3>1, <3>2
  <2> QED
    BY <1>3, <2>1, <2>2
<1>4. ASSUME NEW p \in Procs, StartJob(p) \/ Invoke(p) \/ JobCompleted(p) \/ Finalize(p)
      PROVE  EntryInv'
  BY SMTT(40), <1>4 DEF StartJob, Invoke, JobCompleted, Finalize, SetJob
<1>5. ASSUME NEW p \in Procs, JobStopped(p)
      PROVE  EntryInv'
  BY <1>5 DEF JobStopped, Outcomes, RetryState, SetJob, Return
<1>6. ASSUME NEW p \in Procs, ReleaseLease(p) \/ Crash(p)
      PROVE  EntryInv'
  BY SMTT(40), <1>6 DEF ReleaseLease, Crash, Return
<1>7. ASSUME NEW p \in Procs, Resume(p) \/ CancelOrHold(p)
      PROVE  EntryInv'
  BY <1>7 DEF Resume, CancelOrHold, Enter
<1>8. CASE Tick \/ UNCHANGED vars
  BY <1>8 DEF Tick, vars
<1> QED
  BY <1>1, <1>2, <1>3, <1>4, <1>5, <1>6, <1>7, <1>8 DEF Next, CallStep

(* However windows, expired leases, resumes and crashes interleave, the    *)
(* code itself brings one process at most into the day's run: the lease    *)
(* alone would not do it, the UNIQUE schedule key of _prepare_run does.    *)
(* Any other one inside came with a resume or cancel beside it.            *)
THEOREM OneExecutorHolds == Spec => []OneExecutor
BY InitEntry, StepEntry, PTL DEF Spec, EntryInv
-----------------------------------------------------------------------------
(* ExecInv is inductive. *)

LEMMA InitExec == Init => ExecInv
BY InitTyped
DEF Init, ExecInv, LoneExecutor, NothingBeforeRun, NoListOutside, Queueing,
    ListComplete, CurrentJob, NothingAfterCompleted, CompletedMeansDone,
    FollowupsFirst, AttemptRecordedFirst, Live, Quiet, Inside, Outside,
    Looping, Working

(* A step of a call that ends outside the run and writes no run or job row *)
(* disturbs no part of ExecInv.                                            *)
LEMMA StepOutside ==
  ASSUME ExecInv, TypeOK', intrusions' = 0, NEW p \in Procs,
         UNCHANGED <<run, jobState, attempts, calls>>,
         pc'[p] \in Outside, todo'[p] = {},
         \A q \in Procs \ {p} : /\ pc'[q] = pc[q] /\ todo'[q] = todo[q]
                                /\ cur'[q] = cur[q] /\ tries'[q] = tries[q]
  PROVE  ExecInv'
<1>1. \A q \in Procs : Live(q)' => q # p /\ Live(q)
  BY DEF Live, Outside, Inside
<1>2. LoneExecutor' /\ NoListOutside'
  BY <1>1 DEF ExecInv, LoneExecutor, NoListOutside
<1>3. NothingBeforeRun' /\ NothingAfterCompleted'
  BY <1>1 DEF ExecInv, NothingBeforeRun, NothingAfterCompleted, Quiet
<1>4. Queueing' /\ ListComplete'
  BY DEF ExecInv, Queueing, ListComplete, Outside, Looping, Working
<1>5. CurrentJob'
  BY DEF ExecInv, CurrentJob, Outside, Working
<1>6. CompletedMeansDone' /\ FollowupsFirst' /\ AttemptRecordedFirst'
  BY DEF ExecInv, CompletedMeansDone, FollowupsFirst, AttemptRecordedFirst
<1> QED
  BY <1>2, <1>3, <1>4, <1>5, <1>6 DEF ExecInv

LEMMA StepsOutside ==
  ASSUME ExecInv, TypeOK', intrusions' = 0, NEW p \in Procs,
         \/ BeginWindow(p) \/ FindLease(p) \/ MarkStale(p) \/ Acquire(p)
         \/ ReleaseLease(p) \/ Crash(p)
  PROVE  ExecInv'
<1>1. /\ UNCHANGED <<run, jobState, attempts, calls>>
      /\ pc'[p] \in Outside /\ todo'[p] = {}
      /\ \A q \in Procs \ {p} : /\ pc'[q] = pc[q] /\ todo'[q] = todo[q]
                                 /\ cur'[q] = cur[q] /\ tries'[q] = tries[q]
  <2> USE DEF ExecInv, TypeOK, NoListOutside, Outside, Goto, Return, rows, locals
  <2>1. CASE BeginWindow(p)
    BY <2>1 DEF BeginWindow
  <2>2. CASE FindLease(p)
    BY <2>2 DEF FindLease
  <2>3. CASE MarkStale(p)
    BY <2>3 DEF MarkStale
  <2>4. CASE Acquire(p)
    BY <2>4 DEF Acquire
  <2>5. CASE ReleaseLease(p)
    BY <2>5 DEF ReleaseLease
  <2>6. CASE Crash(p)
    BY <2>6 DEF Crash
  <2> QED
    BY <2>1, <2>2, <2>3, <2>4, <2>5, <2>6
<1> QED
  BY <1>1, StepOutside

LEMMA CountersAreNumbers ==
  ASSUME NEW j \in Jobs, calls \in [Jobs -> Nat], attempts \in [Jobs -> Nat]
  PROVE  calls[j] \in Nat /\ attempts[j] \in Nat
BY SMTT(40)

LEMMA StepExec == ExecInv /\ [Next]_vars /\ intrusions' = 0 => ExecInv'
<1> SUFFICES ASSUME ExecInv, [Next]_vars, intrusions' = 0
             PROVE  ExecInv'
  OBVIOUS
<1>0. TypeOK /\ TypeOK'
  BY StepTyped DEF ExecInv
<1>1. ASSUME NEW p \in Procs,
             \/ BeginWindow(p) \/ FindLease(p) \/ MarkStale(p) \/ Acquire(p)
             \/ ReleaseLease(p) \/ Crash(p)
      PROVE  ExecInv'
  BY <1>0, <1>1, StepsOutside
<1> USE SchedulerAssumption, <1>0
    DEF ExecInv, LoneExecutor, NothingBeforeRun, NoListOutside, Queueing,
        ListComplete, CurrentJob, NothingAfterCompleted, CompletedMeansDone,
        FollowupsFirst, AttemptRecordedFirst, Live, Quiet, Inside, Outside,
        Looping, Working, TypeOK, Pcs, Goto, rows, locals, env
<1>2. ASSUME NEW p \in Procs, InsertRun(p)
     PROVE  ExecInv'
  <2>1. CASE RunKeyFree
    <3>1. \A q \in Procs : pc[q] \in Outside
      BY <2>1 DEF RunKeyFree
    <3>2. pc' = [pc EXCEPT ![p] = "plan"] /\ run' = "PLANNED"
      BY <1>2, <2>1 DEF InsertRun
    <3>3. UNCHANGED <<jobState, attempts, calls, todo, cur, tries>>
      BY <1>2, <2>1 DEF InsertRun
    <3> QED
      BY <2>1, <3>1, <3>2, <3>3 DEF RunKeyFree
  <2>2. CASE ~RunKeyFree
    <3>1. Return(p) /\ UNCHANGED <<run, jobState, attempts, calls>>
      BY <1>2, <2>2 DEF InsertRun
    <3> QED
      BY <3>1 DEF Return
  <2> QED
    BY <2>1, <2>2
<1>3. ASSUME NEW p \in Procs, Plan(p)
     PROVE  ExecInv'
  BY <1>3 DEF Plan
<1>4. ASSUME NEW p \in Procs, CreateJob(p)
     PROVE  ExecInv'
  BY <1>4 DEF CreateJob
<1>5. ASSUME NEW p \in Procs, JobsQueued(p)
     PROVE  ExecInv'
  BY <1>5 DEF JobsQueued
<1>6. ASSUME NEW p \in Procs, LoadJob(p)
     PROVE  ExecInv'
  <2>1. UNCHANGED <<jobState, attempts, calls>> /\ pc[p] = "next"
    BY <1>6 DEF LoadJob
  <2>2. PICK j \in todo[p] :
          /\ \A k \in todo[p] \ {j} : Precedes(j, k)
          /\ \/ /\ jobState[j] = "COMPLETED"
                /\ todo' = [todo EXCEPT ![p] = @ \ {j}]
                /\ UNCHANGED <<run, pc, now, held, cur, tries, intruders>>
             \/ /\ Unresolved(j)
                /\ run' = "RECOVERY_REQUIRED"
                /\ Return(p)
             \/ /\ jobState[j] # "COMPLETED" /\ ~Unresolved(j)
                /\ cur' = [cur EXCEPT ![p] = j]
                /\ tries' = [tries EXCEPT ![p] = NextAttempt(j)]
                /\ Goto(p, "start")
                /\ UNCHANGED <<run, now, held, todo, intruders>>
    BY <1>6 DEF LoadJob
  <2>3. CASE jobState[j] = "COMPLETED" /\ todo' = [todo EXCEPT ![p] = @ \ {j}]
             /\ UNCHANGED <<run, pc, now, held, cur, tries, intruders>>
    BY <2>1, <2>3
  <2>4. CASE Unresolved(j) /\ run' = "RECOVERY_REQUIRED" /\ Return(p)
    BY <2>1, <2>4 DEF Return
  <2>5. CASE /\ jobState[j] # "COMPLETED" /\ ~Unresolved(j)
             /\ cur' = [cur EXCEPT ![p] = j]
             /\ tries' = [tries EXCEPT ![p] = NextAttempt(j)]
             /\ Goto(p, "start")
             /\ UNCHANGED <<run, now, held, todo, intruders>>
    <3>1. j \in Jobs /\ jobState[j] # "NONE"
      BY <2>1
    <3>2. j \notin FollowupJobs =>
            \A f \in FollowupJobs : jobState[f] \in {"NONE", "COMPLETED"}
      BY <2>1, <2>2 DEF Precedes
    <3>3. CurrentJob'
      BY <2>1, <2>5, <3>1, <3>2 DEF Unresolved, NextAttempt
    <3> QED
      BY <2>1, <2>5, <3>3
  <2> QED
    BY <2>2, <2>3, <2>4, <2>5
<1>7. ASSUME NEW p \in Procs, StartJob(p)
     PROVE  ExecInv'
  <2>1. /\ pc[p] = "start" /\ pc' = [pc EXCEPT ![p] = "invoke"]
        /\ jobState' = [jobState EXCEPT ![cur[p]] = "EXECUTING"]
        /\ attempts' = [attempts EXCEPT ![cur[p]] = tries[p]]
        /\ run' = "EXECUTING"
        /\ UNCHANGED <<calls, todo, cur, tries>>
    BY <1>7 DEF StartJob, SetJob
  <2>2. \A q \in Procs \ {p} : pc[q] \in Outside
    BY <2>1
  <2>3. /\ cur[p] \in Jobs /\ attempts'[cur[p]] = attempts[cur[p]] + 1
        /\ calls[cur[p]] < attempts[cur[p]] + 1
    <3>1. /\ cur[p] \in Jobs /\ attempts'[cur[p]] = attempts[cur[p]] + 1
          /\ calls[cur[p]] <= attempts[cur[p]]
      BY <2>1
    <3>2. calls[cur[p]] \in Nat /\ attempts[cur[p]] \in Nat
      <4>1. calls \in [Jobs -> Nat] /\ attempts \in [Jobs -> Nat]
        OBVIOUS
      <4>2. QED
        BY ONLY <3>1, <4>1, CountersAreNumbers
    <3> QED
      BY <3>1, <3>2
  <2>4. LoneExecutor' /\ NothingBeforeRun' /\ NoListOutside' /\ Queueing'
    BY <2>1, <2>2
  <2>5. ListComplete'
    BY <2>1, <2>2
  <2>6. CurrentJob'
    <3>1. ASSUME NEW q \in Procs, q # p
          PROVE  pc'[q] \in Outside
      BY <2>1, <2>2, <3>1
    <3>2. /\ pc'[p] = "invoke" /\ cur'[p] = cur[p]
          /\ jobState'[cur[p]] = "EXECUTING"
          /\ calls'[cur[p]] < attempts'[cur[p]]
      BY <2>1, <2>3
    <3>3. SUFFICES ASSUME NEW q \in Procs, pc'[q] \in Working
                   PROVE  q = p
      BY <2>3, <3>2
    <3> QED
      BY <3>1, <3>3
  <2>7. FollowupsFirst'
    <3>1. CASE cur[p] \in FollowupJobs
      BY <2>1, <3>1
    <3>2. CASE cur[p] \notin FollowupJobs
      BY <2>1, <3>2
    <3> QED
      BY <3>1, <3>2
  <2>8. AttemptRecordedFirst'
    BY <2>1, <2>3
  <2> QED
    BY <2>1, <2>4, <2>5, <2>6, <2>7, <2>8
<1>8. ASSUME NEW p \in Procs, Invoke(p)
     PROVE  ExecInv'
  BY <1>8 DEF Invoke
<1>9. ASSUME NEW p \in Procs, JobCompleted(p)
     PROVE  ExecInv'
  BY <1>9 DEF JobCompleted, SetJob
<1>10. ASSUME NEW p \in Procs, JobStopped(p)
     PROVE  ExecInv'
  BY <1>10 DEF JobStopped, SetJob, Return, Outcomes, RetryState
<1>11. ASSUME NEW p \in Procs, Finalize(p)
     PROVE  ExecInv'
  BY <1>11 DEF Finalize
<1>12. ASSUME NEW p \in Procs, Resume(p)
     PROVE  ExecInv'
  BY <1>12 DEF Resume, Resumable, Enter
<1>13. ASSUME NEW p \in Procs, CancelOrHold(p)
     PROVE  ExecInv'
  BY <1>13 DEF CancelOrHold, Enter
<1>14. CASE Tick
  BY <1>14 DEF Tick
<1>15. CASE UNCHANGED vars
  BY <1>15 DEF vars
<1> QED
  BY <1>1, <1>2, <1>3, <1>4, <1>5, <1>6, <1>7, <1>8, <1>9, <1>10, <1>11,
     <1>12, <1>13, <1>14, <1>15
  DEF Next, CallStep

(* An intrusion is never taken back. *)
LEMMA IntrusionsStay ==
  ASSUME TypeOK, [Next]_vars, intrusions' = 0
  PROVE  intrusions = 0
<1>1. intrusions' = intrusions \/ intrusions' = intrusions + 1
  BY DEF Next, CallStep, vars, env, Tick, BeginWindow, Resume, CancelOrHold, Enter, FindLease,
         MarkStale, Acquire, InsertRun, Plan, CreateJob, JobsQueued, LoadJob, StartJob, Invoke,
         JobCompleted, JobStopped, Finalize, ReleaseLease, Crash
<1> QED
  BY <1>1 DEF TypeOK

LEMMA ExecInvariant == Spec => [](TypeOK /\ (intrusions = 0 => ExecInv))
<1>1. TypeOK /\ (intrusions = 0 => ExecInv) /\ [Next]_vars
        => (TypeOK /\ (intrusions = 0 => ExecInv))'
  BY StepTyped, IntrusionsStay, StepExec
<1> QED
  BY <1>1, InitTyped, InitExec, PTL DEF Spec

-----------------------------------------------------------------------------
(* The properties of SchedulerRun. *)

(* _execute_jobs reports COMPLETED only over finished job rows. *)
THEOREM CompletedMeansDoneHolds == Spec => [](intrusions = 0 => CompletedMeansDone)
BY ExecInvariant, PTL DEF ExecInv

(* The sort of _execute_jobs starts no other job before a queued follow-up *)
(* is complete, on the first pass and on any resumed one.                  *)
THEOREM FollowupsFirstHolds == Spec => [](intrusions = 0 => FollowupsFirst)
BY ExecInvariant, PTL DEF ExecInv

(* Every executor call was announced by a committed attempt. *)
THEOREM AttemptRecordedFirstHolds == Spec => [](intrusions = 0 => AttemptRecordedFirst)
BY ExecInvariant, PTL DEF ExecInv

(* Queueing that died, holds and resumes included, the day's jobs are run  *)
(* in order, announced first, and complete when the day is, until a call   *)
(* intrudes.                                                               *)
THEOREM JobsInOrderHolds == Spec => []JobsInOrder
BY ExecInvariant, PTL DEF ExecInv, JobsInOrder

(* No step takes a job out of RECOVERY_REQUIRED or calls it again. *)
LEMMA StepUnknown ==
  ExecInv /\ [Next]_vars =>
    \A j \in Jobs : jobState[j] = "RECOVERY_REQUIRED" =>
       jobState'[j] = "RECOVERY_REQUIRED" /\ calls'[j] = calls[j]
<1> SUFFICES ASSUME ExecInv, [Next]_vars, NEW j \in Jobs,
                    jobState[j] = "RECOVERY_REQUIRED"
             PROVE  jobState'[j] = "RECOVERY_REQUIRED" /\ calls'[j] = calls[j]
  OBVIOUS
<1> USE DEF ExecInv, TypeOK, rows, locals, env
<1>1. ASSUME NEW p \in Procs, StartJob(p) \/ Invoke(p) \/ JobCompleted(p)
                              \/ JobStopped(p)
      PROVE  cur[p] \in Jobs /\ cur[p] # j
  BY <1>1 DEF StartJob, Invoke, JobCompleted, JobStopped, CurrentJob, Working
<1>2. ASSUME NEW p \in Procs, StartJob(p) \/ Invoke(p) \/ JobCompleted(p)
                              \/ JobStopped(p)
      PROVE  jobState'[j] = jobState[j] /\ calls'[j] = calls[j]
  <2>1. cur[p] # j
    BY <1>1, <1>2
  <2> QED
    BY <1>2, <2>1 DEF StartJob, Invoke, JobCompleted, JobStopped, SetJob
<1>3. ASSUME NEW p \in Procs, CreateJob(p)
      PROVE  jobState'[j] = jobState[j] /\ calls'[j] = calls[j]
  BY <1>3 DEF CreateJob
<1>4. CASE UNCHANGED <<jobState, calls>>
  BY <1>4
<1> QED
  BY <1>2, <1>3, <1>4
  DEF Next, CallStep, vars, Tick, BeginWindow, Resume, CancelOrHold, FindLease,
      MarkStale, Acquire, InsertRun, Plan, JobsQueued, LoadJob, Finalize,
      ReleaseLease, Crash

(* A job whose executor answered "unknown" is left to a person: no resume, *)
(* hold, cancel or window of any process repeats or reinterprets it, until *)
(* a call intrudes.                                                        *)
THEOREM UnknownNotRepeatedHolds == Spec => UnknownNotRepeated
<1>1. TypeOK /\ (intrusions = 0 => ExecInv) /\ [Next]_vars =>
        [intrusions' = 0 => \A j \in Jobs : jobState[j] = "RECOVERY_REQUIRED" =>
           jobState'[j] = "RECOVERY_REQUIRED" /\ calls'[j] = calls[j]]_vars
  BY StepUnknown, IntrusionsStay
<1> QED
  BY <1>1, ExecInvariant, PTL DEF Spec, UnknownNotRepeated

-----------------------------------------------------------------------------
(* SchedulerRun implements DayLedger. *)

LEMMA InitLedger == Init => Ledger!LedgerInit
BY DEF Init, Ledger!LedgerInit, Entry, DayClosed

LEMMA StepLedger ==
  ExecInv /\ [Next]_vars => [Ledger!LedgerNext]_(Ledger!ledger)
<1> SUFFICES ASSUME ExecInv, [Next]_vars
             PROVE  \/ Ledger!LedgerNext
                    \/ Entry' = Entry /\ DayClosed' = DayClosed
  BY DEF Ledger!ledger
<1> USE DEF ExecInv, TypeOK, rows, locals, env, Goto, SetJob, DayClosed
<1>1. ASSUME NEW p \in Procs, CreateJob(p)
      PROVE  \/ \E j \in Jobs : Ledger!Admit(j)
             \/ Entry' = Entry /\ DayClosed' = DayClosed
  <2>1. PICK j \in Jobs :
          jobState' = [jobState EXCEPT ![j] = IF @ = "NONE" THEN "QUEUED" ELSE @]
    BY <1>1 DEF CreateJob
  <2>2. ~DayClosed /\ DayClosed' = DayClosed
    BY <1>1 DEF CreateJob, NothingAfterCompleted, Live, Inside
  <2>3. CASE jobState[j] = "NONE"
    <3>1. Entry[j] = "absent" /\ Entry' = [Entry EXCEPT ![j] = "open"]
      BY <2>1, <2>3 DEF Entry
    <3> QED
      BY <2>2, <3>1 DEF Ledger!Admit
  <2>4. CASE jobState[j] # "NONE"
    BY <2>1, <2>2, <2>4 DEF Entry
  <2> QED
    BY <2>3, <2>4
<1>2. ASSUME NEW p \in Procs, StartJob(p)
      PROVE  Entry' = Entry /\ DayClosed' = DayClosed
  <2>1. jobState[cur[p]] \notin {"NONE", "COMPLETED", "RECOVERY_REQUIRED"}
    BY <1>2 DEF StartJob, CurrentJob
  <2>2. Entry' = Entry
    BY <1>2, <2>1 DEF StartJob, Entry
  <2>3. DayClosed' = DayClosed
    BY <1>2 DEF StartJob, NothingAfterCompleted, Live, Inside
  <2> QED
    BY <2>2, <2>3
<1>3. ASSUME NEW p \in Procs, JobCompleted(p)
      PROVE  \E j \in Jobs : Ledger!Settle(j)
  <2>1. cur[p] \in Jobs /\ jobState[cur[p]] = "EXECUTING"
    BY <1>3 DEF JobCompleted, CurrentJob, Working
  <2>2. ~DayClosed /\ DayClosed' = DayClosed
    BY <1>3 DEF JobCompleted, NothingAfterCompleted, Live, Inside
  <2>3. Entry[cur[p]] = "open" /\ Entry' = [Entry EXCEPT ![cur[p]] = "done"]
    BY <1>3, <2>1 DEF JobCompleted, Entry
  <2> QED
    BY <2>1, <2>2, <2>3 DEF Ledger!Settle
<1>4. ASSUME NEW p \in Procs, JobStopped(p)
      PROVE  \/ \E j \in Jobs : Ledger!Settle(j)
             \/ Entry' = Entry /\ DayClosed' = DayClosed
  <2>1. cur[p] \in Jobs /\ jobState[cur[p]] = "EXECUTING"
    BY <1>4 DEF JobStopped, CurrentJob, Working
  <2>2. PICK o \in Outcomes(p) :
          jobState' = [jobState EXCEPT ![cur[p]] = o[1]] /\ run' = o[2]
    BY <1>4 DEF JobStopped
  <2>3. ~DayClosed /\ DayClosed' = DayClosed
    <3>1. run # "COMPLETED"
      BY <1>4 DEF JobStopped, NothingAfterCompleted, Live, Inside
    <3> QED
      BY <2>2, <3>1 DEF Outcomes, RetryState
  <2>4. CASE o[1] = "RECOVERY_REQUIRED"
    <3>1. Entry[cur[p]] = "open"
          /\ Entry' = [Entry EXCEPT ![cur[p]] = "unknown"]
      BY <2>1, <2>2, <2>4 DEF Entry
    <3> QED
      BY <2>1, <2>3, <3>1 DEF Ledger!Settle
  <2>5. CASE o[1] # "RECOVERY_REQUIRED"
    <3>1. o[1] \notin {"NONE", "COMPLETED", "RECOVERY_REQUIRED"}
      BY <2>5 DEF Outcomes, RetryState
    <3>2. Entry' = Entry
      BY <2>1, <2>2, <3>1 DEF Entry
    <3> QED
      BY <2>3, <3>2
  <2> QED
    BY <2>4, <2>5
<1>5. ASSUME NEW p \in Procs, Finalize(p)
      PROVE  Ledger!Close
  <2>1. \A j \in Jobs : Entry[j] \in {"absent", "done"}
    BY <1>5 DEF Finalize, ListComplete, Looping, Entry
  <2>2. ~DayClosed /\ DayClosed' = TRUE /\ Entry' = Entry
    BY <1>5 DEF Finalize, NothingAfterCompleted, Live, Inside, Entry
  <2> QED
    BY <2>1, <2>2 DEF Ledger!Close
<1>6. ASSUME NEW p \in Procs, CancelOrHold(p)
      PROVE  Ledger!Reopen \/ (Entry' = Entry /\ DayClosed' = DayClosed)
  <2>1. Entry' = Entry /\ DayClosed' = FALSE
    BY <1>6 DEF CancelOrHold, Entry
  <2> QED
    BY <2>1 DEF Ledger!Reopen
<1>7. ASSUME NEW p \in Procs, InsertRun(p) \/ Plan(p) \/ LoadJob(p)
      PROVE  Entry' = Entry /\ DayClosed' = DayClosed
  <2>1. Entry' = Entry
    BY <1>7 DEF InsertRun, Plan, LoadJob, Entry
  <2>2. CASE InsertRun(p)
    BY <2>1, <2>2 DEF InsertRun, RunKeyFree
  <2>3. CASE Plan(p) \/ LoadJob(p)
    BY <2>1, <2>3 DEF Plan, LoadJob, NothingAfterCompleted, Live, Inside
  <2> QED
    BY <1>7, <2>1, <2>2, <2>3
<1>8. CASE UNCHANGED <<run, jobState>>
  BY <1>8 DEF Entry
<1> QED
  BY <1>1, <1>2, <1>3, <1>4, <1>5, <1>6, <1>7, <1>8
  DEF Next, CallStep, vars, Tick, BeginWindow, Resume, FindLease, MarkStale,
      Acquire, JobsQueued, Invoke, ReleaseLease, Crash, Ledger!LedgerNext

(* Until a call intrudes, every step of the day, whoever takes it and      *)
(* whoever dies, is one that DayLedger allows: a job is admitted and       *)
(* settled only while the day is not closed, what is done or unknown stays *)
(* so, the day closes only over jobs that are done or were never admitted, *)
(* and a closed day changes only when an operator holds or cancels it.     *)
THEOREM ImplementsLedgerHolds == Spec => ImplementsLedger
<1>1. TypeOK /\ (intrusions = 0 => ExecInv) /\ [Next]_vars =>
        [intrusions' = 0 => [Ledger!LedgerNext]_(Ledger!ledger)]_vars
  BY StepLedger, IntrusionsStay
<1> QED
  BY <1>1, InitLedger, ExecInvariant, PTL DEF Spec, ImplementsLedger

-----------------------------------------------------------------------------
(* The shared daily capacity.  That plans which do not overlap stay within *)
(* the caps rests on the totals a plan carries: they cover what is held,   *)
(* and a plan adds a row only where its totals leave room.  What renewals  *)
(* may still reopen is counted with what is held (Reach).  Plans that      *)
(* overlap divide both into shares (SharesInv).                            *)
-----------------------------------------------------------------------------
(* A planner outside a call has no flagged items. *)
NothingFlaggedOutside == \A p \in Planners : p \notin busy => bad[p] = {}

(* Without overlap one call is in progress at most. *)
LonePlanner == ~overlapped => \A p, q \in busy : p = q

(* As long as no renewal raced, a renewal is alone and its row is still    *)
(* RESERVED, as it was when the renewal read it.                           *)
RenewalsFresh ==
  ~raced => \A u \in Renewing : res[renewal[u]] = "RESERVED" /\ busy = {}

(* Without overlap the totals of a plan cover what is held. *)
TotalsCover ==
  ~overlapped /\ ~raced => \A p \in busy, t \in CapTypes :
                             Cardinality(Holding(t)) <= used[p][t]

(* No candidate is inserted while a follow-up of the call is waiting, and  *)
(* a follow-up was refused for one of the two types it claims.             *)
FollowupsBeforeCandidates ==
  \A p \in Planners :
    left[p] \intersect Followups # {} => fresh[p] \intersect Candidates = {}
RefusedForCapacity ==
  \A p \in Planners : blocked[p] \intersect Followups # {} =>
    \E t \in {"followup", "message_touch"} : used[p][t] >= Cap[t]

CapacityInv ==
  /\ CapacityTypeOK
  /\ NothingFlaggedOutside
  /\ LonePlanner
  /\ RenewalsFresh
  /\ TotalsCover
  /\ FollowupsBeforeCandidates
  /\ RefusedForCapacity
  /\ WithinCaps
  /\ SuppressedHoldNothing
  /\ FollowupsServedFirst

-----------------------------------------------------------------------------
(* What is held is a finite set of rows. *)

LEMMA HoldingFinite ==
  ASSUME NEW t \in CapTypes
  PROVE  /\ IsFiniteSet(Holding(t)) /\ Cardinality(Holding(t)) \in Nat
         /\ IsFiniteSet(Holding(t)') /\ Cardinality(Holding(t)') \in Nat
<1>1. IsFiniteSet(Items)
  BY CapacityAssumption
<1>2. Holding(t) \in SUBSET Items /\ Holding(t)' \in SUBSET Items
  BY DEF Holding
<1> QED
  BY <1>1, <1>2, FS_Subset, FS_CardinalityType

(* A step that reserves nothing does not raise what is held. *)
LEMMA HoldingShrinks ==
  ASSUME \A i \in Items : res'[i] = "RESERVED" => res[i] = "RESERVED",
         NEW t \in CapTypes
  PROVE  Cardinality(Holding(t)') <= Cardinality(Holding(t))
<1>1. Holding(t)' \in SUBSET Holding(t)
  BY DEF Holding
<1> QED
  BY <1>1, HoldingFinite, FS_Subset

(* One new reservation raises the types it claims by one and no other. *)
LEMMA HoldingGrows ==
  ASSUME CapacityTypeOK, NEW i \in Items, res[i] = "NONE",
         res' = [res EXCEPT ![i] = "RESERVED"], NEW t \in CapTypes
  PROVE  Cardinality(Holding(t)') =
           IF t \in Claim(i) THEN Cardinality(Holding(t)) + 1
                             ELSE Cardinality(Holding(t))
<1>0. Claim(i)' = Claim(i)
  BY DEF Claim
<1>1. CASE t \in Claim(i)
  <2>1. Holding(t)' = Holding(t) \cup {i} /\ i \notin Holding(t)
    BY <1>1 DEF Holding, CapacityTypeOK, Claim
  <2> QED
    BY <1>1, <2>1, HoldingFinite, FS_AddElement
<1>2. CASE t \notin Claim(i)
  <2>1. Holding(t)' = Holding(t)
    BY <1>2 DEF Holding, CapacityTypeOK, Claim
  <2> QED
    BY <1>2, <2>1
<1> QED
  BY <1>1, <1>2
-----------------------------------------------------------------------------
(* The type invariant. *)

LEMMA CapacityInitTyped == CapacityInit => CapacityTypeOK
<1> SUFFICES ASSUME CapacityInit
             PROVE  CapacityTypeOK
  OBVIOUS
<1>1. ZeroUse \in [CapTypes -> Nat]
  BY DEF ZeroUse
<1>2. used \in [Planners -> [CapTypes -> Nat]]
  BY <1>1 DEF CapacityInit
<1>3. overlapped \in BOOLEAN /\ raced \in BOOLEAN
  BY DEF CapacityInit
<1> QED
  BY <1>2, <1>3 DEF CapacityInit, CapacityTypeOK, ReservationStates

LEMMA CapacityStepTyped == CapacityTypeOK /\ [CapacityNext]_capacityVars => CapacityTypeOK'
<1> SUFFICES ASSUME CapacityTypeOK, [CapacityNext]_capacityVars
             PROVE  CapacityTypeOK'
  OBVIOUS
<1> USE DEF CapacityTypeOK, ReservationStates, call
<1>1. ASSUME NEW p \in Planners, BeginPlan(p)
      PROVE  CapacityTypeOK'
  <2>1. \A t \in CapTypes : ClaimTotal(t) \in Nat
    BY HoldingFinite DEF ClaimTotal
  <2>2. left' \in [Planners -> SUBSET Items] /\ bad' \in [Planners -> SUBSET Items]
    BY <1>1, CapacityAssumption DEF BeginPlan
  <2> QED
    BY <1>1, <2>1, <2>2 DEF BeginPlan
<1>2. ASSUME NEW p \in Planners, EndPlan(p)
      PROVE  CapacityTypeOK'
  BY <1>2 DEF EndPlan, ZeroUse
<1>3. ASSUME NEW p \in Planners, NEW i \in Items,
             ReserveRefused(p, i) \/ ReserveExisting(p, i)
             \/ ReserveBlocked(p, i)
      PROVE  CapacityTypeOK'
  <2>1. CASE ReserveRefused(p, i)
    BY <2>1 DEF ReserveRefused, Take, Invalidated
  <2>2. CASE ReserveExisting(p, i)
    BY <2>2 DEF ReserveExisting, Take
  <2>3. CASE ReserveBlocked(p, i)
    BY <2>3 DEF ReserveBlocked, Take
  <2> QED
    BY <1>3, <2>1, <2>2, <2>3
<1>4. ASSUME NEW p \in Planners, NEW i \in Items, ReserveNew(p, i)
      PROVE  CapacityTypeOK'
  <2>1. [t \in CapTypes |-> IF t \in Claim(i) THEN used[p][t] + 1
                                             ELSE used[p][t]]
          \in [CapTypes -> Nat]
    OBVIOUS
  <2> QED
    BY <1>4, <2>1 DEF ReserveNew, Take
<1>5. ASSUME NEW i \in Items, NEW s \in Updates, Settle(i, s)
      PROVE  CapacityTypeOK'
  BY <1>5, CapacityAssumption DEF Settle
<1>6. ASSUME NEW u \in Updaters, NEW i \in Items, BeginRenewal(u, i)
      PROVE  CapacityTypeOK'
  BY <1>6 DEF BeginRenewal
<1>7. ASSUME NEW u \in Updaters, WriteRenewal(u) \/ LoseRenewal(u)
      PROVE  CapacityTypeOK'
  BY <1>7 DEF WriteRenewal, LoseRenewal
<1>8. CASE UNCHANGED capacityVars
  BY <1>8 DEF capacityVars
<1> QED
  BY <1>1, <1>2, <1>3, <1>4, <1>5, <1>6, <1>7, <1>8 DEF CapacityNext

(* The reservation rows and the planners' totals keep their types. *)
THEOREM CapacityTypesHold == CapacitySpec => []CapacityTypeOK
BY CapacityInitTyped, CapacityStepTyped, PTL DEF CapacitySpec

-----------------------------------------------------------------------------
(* A renewal that nothing raced finds what it read. *)
LEMMA InitFresh == CapacityInit => RenewalsFresh
BY DEF CapacityInit, RenewalsFresh, Renewing

LEMMA StepFresh ==
  CapacityTypeOK /\ RenewalsFresh /\ [CapacityNext]_capacityVars => RenewalsFresh'
<1> SUFFICES ASSUME CapacityTypeOK, RenewalsFresh, [CapacityNext]_capacityVars
             PROVE  RenewalsFresh'
  OBVIOUS
<1> USE DEF CapacityTypeOK, RenewalsFresh, Renewing, call
<1>1. ASSUME NEW p \in Planners, BeginPlan(p) \/ EndPlan(p)
      PROVE  RenewalsFresh'
  BY <1>1 DEF BeginPlan, EndPlan
<1>2. ASSUME NEW p \in Planners, NEW i \in Items,
             ReserveRefused(p, i) \/ ReserveExisting(p, i) \/ ReserveBlocked(p, i)
             \/ ReserveNew(p, i)
      PROVE  RenewalsFresh'
  <2>1. p \in busy /\ UNCHANGED <<busy, renewal, raced>>
    BY <1>2 DEF ReserveRefused, ReserveExisting, ReserveBlocked, ReserveNew, Take
  <2> QED
    BY <2>1
<1>3. ASSUME NEW i \in Items, NEW s \in Updates, Settle(i, s)
      PROVE  RenewalsFresh'
  BY <1>3 DEF Settle
<1>4. ASSUME NEW u \in Updaters, NEW i \in Items, BeginRenewal(u, i)
      PROVE  RenewalsFresh'
  BY <1>4 DEF BeginRenewal, MayRenew
<1>5. ASSUME NEW u \in Updaters, WriteRenewal(u) \/ LoseRenewal(u)
      PROVE  RenewalsFresh'
  BY <1>5 DEF WriteRenewal, LoseRenewal
<1>6. CASE UNCHANGED capacityVars
  BY <1>6 DEF capacityVars
<1> QED
  BY <1>1, <1>2, <1>3, <1>4, <1>5, <1>6 DEF CapacityNext

(* Only a renewal that raced puts a row back to RESERVED. *)
LEMMA StepNeverReopens ==
  CapacityTypeOK /\ RenewalsFresh /\ [CapacityNext]_capacityVars =>
    \A i \in Items : res[i] \notin {"NONE", "RESERVED"} /\ res'[i] = "RESERVED"
                     => raced /\ \E u \in Updaters : renewal[u] = i
<1> SUFFICES ASSUME CapacityTypeOK, RenewalsFresh, [CapacityNext]_capacityVars, NEW i \in Items,
                    res[i] \notin {"NONE", "RESERVED"}, res'[i] = "RESERVED"
             PROVE  raced /\ \E u \in Updaters : renewal[u] = i
  OBVIOUS
<1>1. ASSUME NEW p \in Planners, NEW k \in Items, ReserveNew(p, k)
      PROVE  FALSE
  BY <1>1 DEF ReserveNew, NoRow, CapacityTypeOK
<1>2. ASSUME NEW p \in Planners, NEW k \in Items, ReserveRefused(p, k)
      PROVE  FALSE
  BY <1>2 DEF ReserveRefused, Invalidated, CapacityTypeOK
<1>3. ASSUME NEW k \in Items, NEW s \in Updates, Settle(k, s)
      PROVE  FALSE
  BY <1>3, CapacityAssumption DEF Settle, CapacityTypeOK
<1>4. ASSUME NEW u \in Updaters, WriteRenewal(u)
      PROVE  raced /\ renewal[u] = i
  BY <1>4 DEF WriteRenewal, CapacityTypeOK, RenewalsFresh, Renewing
<1>5. CASE UNCHANGED res
  BY <1>5
<1> QED
  BY <1>1, <1>2, <1>3, <1>4, <1>5
  DEF CapacityNext, capacityVars, BeginPlan, EndPlan, ReserveExisting, ReserveBlocked,
      BeginRenewal, LoseRenewal

(* What was released, expired, consumed or invalidated holds capacity      *)
(* again only when an update asked for RESERVED had read the row before    *)
(* and another call came in between: no plan of any planner reopens it.    *)
THEOREM NeverReopenedHolds == CapacitySpec => NeverReopened
<1>1. CapacityInit => CapacityTypeOK /\ RenewalsFresh
  BY CapacityInitTyped, InitFresh
<1>2. CapacityTypeOK /\ RenewalsFresh /\ [CapacityNext]_capacityVars
        => CapacityTypeOK' /\ RenewalsFresh'
  BY CapacityStepTyped, StepFresh
<1> QED
  BY <1>1, <1>2, StepNeverReopens, PTL DEF CapacitySpec, NeverReopened

-----------------------------------------------------------------------------
(* CapacityInv is inductive. *)

LEMMA InitCapacity == CapacityInit => CapacityInv
<1> SUFFICES ASSUME CapacityInit
             PROVE  CapacityInv
  OBVIOUS
<1>1. CapacityTypeOK
  BY CapacityInitTyped
<1>2. WithinCaps
  <2>1. \A t \in CapTypes : Holding(t) = {}
    BY DEF CapacityInit, Holding
  <2>2. \A t \in CapTypes : 0 <= Cap[t]
    BY CapacityAssumption
  <2> QED
    BY <2>1, <2>2, FS_EmptySet DEF WithinCaps
<1>3. \A p \in Planners : /\ bad[p] = {} /\ left[p] = {}
                          /\ fresh[p] = {} /\ blocked[p] = {}
  BY DEF CapacityInit
<1>4. busy = {} /\ RenewalsFresh
  BY InitFresh DEF CapacityInit
<1> QED
  BY <1>1, <1>2, <1>3, <1>4
  DEF CapacityInv, NothingFlaggedOutside, LonePlanner, TotalsCover,
      FollowupsBeforeCandidates, RefusedForCapacity, SuppressedHoldNothing,
      FollowupsServedFirst

(* The parts about follow-ups and candidates, one step at a time. *)
LEMMA StepFollowups ==
  CapacityInv /\ [CapacityNext]_capacityVars =>
    /\ FollowupsBeforeCandidates' /\ RefusedForCapacity'
    /\ FollowupsServedFirst'
<1> SUFFICES ASSUME CapacityInv, [CapacityNext]_capacityVars
             PROVE  /\ FollowupsBeforeCandidates' /\ RefusedForCapacity'
                    /\ FollowupsServedFirst'
  OBVIOUS
<1> USE CapacityAssumption
    DEF CapacityInv, CapacityTypeOK, FollowupsBeforeCandidates, RefusedForCapacity,
        FollowupsServedFirst, call
<1>1. ASSUME NEW p \in Planners, BeginPlan(p) \/ EndPlan(p)
      PROVE  /\ FollowupsBeforeCandidates' /\ RefusedForCapacity'
             /\ FollowupsServedFirst'
  <2>1. /\ fresh'[p] = {} /\ blocked'[p] = {}
        /\ \A q \in Planners \ {p} :
             /\ fresh'[q] = fresh[q] /\ blocked'[q] = blocked[q]
             /\ left'[q] = left[q] /\ used'[q] = used[q]
    BY <1>1 DEF BeginPlan, EndPlan
  <2> QED
    BY <2>1
<1>2. ASSUME NEW p \in Planners, NEW i \in Items,
             ReserveRefused(p, i) \/ ReserveExisting(p, i)
      PROVE  /\ FollowupsBeforeCandidates' /\ RefusedForCapacity'
             /\ FollowupsServedFirst'
  BY ZenonT(60), <1>2 DEF ReserveRefused, ReserveExisting, Take
<1>3. ASSUME NEW p \in Planners, NEW i \in Items, ReserveBlocked(p, i)
      PROVE  /\ FollowupsBeforeCandidates' /\ RefusedForCapacity'
             /\ FollowupsServedFirst'
  <2>1. /\ i \in left[p] /\ UNCHANGED <<used, fresh>>
        /\ left' = [left EXCEPT ![p] = @ \ {i}]
        /\ blocked' = [blocked EXCEPT ![p] = @ \union {i}]
    BY <1>3 DEF ReserveBlocked, Take, IsNext
  <2>2. ASSUME i \in Followups
        PROVE  \E t \in {"followup", "message_touch"} : used[p][t] >= Cap[t]
    <3>1. PICK t \in Claim(i) : Cap[t] < used[p][t] + 1
      BY <1>3 DEF ReserveBlocked, Missing
    <3>2. t \in {"followup", "message_touch"}
      BY <2>2, <3>1 DEF Claim
    <3>3. used[p][t] \in Nat /\ Cap[t] \in Nat
      BY <3>2 DEF CapTypes
    <3> QED
      BY <3>1, <3>2, <3>3
  <2>3. i \in Followups => fresh[p] \intersect Candidates = {}
    BY <2>1
  <2>4. FollowupsBeforeCandidates'
    BY <2>1
  <2>5. RefusedForCapacity'
    BY <2>1, <2>2
  <2>6. FollowupsServedFirst'
    BY <2>1, <2>3
  <2> QED
    BY <2>4, <2>5, <2>6
<1>4. ASSUME NEW p \in Planners, NEW i \in Items, ReserveNew(p, i)
      PROVE  /\ FollowupsBeforeCandidates' /\ RefusedForCapacity'
             /\ FollowupsServedFirst'
  <2>1. /\ i \in left[p] /\ UNCHANGED blocked
        /\ left' = [left EXCEPT ![p] = @ \ {i}]
        /\ fresh' = [fresh EXCEPT ![p] = @ \union {i}]
        /\ \A q \in Planners \ {p} : used'[q] = used[q]
    BY <1>4 DEF ReserveNew, Take, IsNext
  <2>2. \A t \in CapTypes : used'[p][t] >= used[p][t]
    <3>1. ASSUME NEW t \in CapTypes
          PROVE  used'[p][t] = IF t \in Claim(i) THEN used[p][t] + 1
                                                 ELSE used[p][t]
      BY <1>4 DEF ReserveNew
    <3>2. \A t \in CapTypes : used[p][t] \in Nat
      OBVIOUS
    <3> QED
      BY <3>1, <3>2
  <2>3. i \notin Followups => left[p] \intersect Followups = {}
    BY <1>4 DEF ReserveNew, Take, IsNext
  <2>4. FollowupsBeforeCandidates'
    BY <2>1, <2>3
  <2>5. RefusedForCapacity'
    <3>1. ASSUME NEW t \in {"followup", "message_touch"}, used[p][t] >= Cap[t]
          PROVE  used'[p][t] >= Cap[t]
      <4>1. t \in CapTypes
        BY DEF CapTypes
      <4>2. used[p][t] \in Nat /\ used'[p][t] \in Nat /\ Cap[t] \in Nat
        BY <4>1, CapacityStepTyped
      <4> QED
        BY <2>2, <3>1, <4>1, <4>2
    <3> QED
      BY <2>1, <3>1
  <2>6. FollowupsServedFirst'
    <3>1. ASSUME i \in Candidates, blocked[p] \intersect Followups # {}
          PROVE  used[p]["followup"] >= Cap["followup"]
      <4>1. "message_touch" \in Claim(i) /\ Missing(p, i) = {}
        BY <1>4, <3>1 DEF ReserveNew, Claim
      <4>2. ~(Cap["message_touch"] < used[p]["message_touch"] + 1)
        BY <4>1 DEF Missing
      <4>3. used[p]["message_touch"] \in Nat /\ Cap["message_touch"] \in Nat
        BY DEF CapTypes
      <4>4. ~(used[p]["message_touch"] >= Cap["message_touch"])
        BY <4>2, <4>3
      <4> QED
        BY <3>1, <4>4
    <3>2. used[p]["followup"] >= Cap["followup"]
            => used'[p]["followup"] >= Cap["followup"]
      <4>1. /\ used[p]["followup"] \in Nat /\ used'[p]["followup"] \in Nat
            /\ Cap["followup"] \in Nat
        BY CapacityStepTyped DEF CapTypes
      <4>2. used'[p]["followup"] >= used[p]["followup"]
        BY <2>2 DEF CapTypes
      <4> QED
        BY <4>1, <4>2
    <3> QED
      BY <2>1, <3>1, <3>2
  <2> QED
    BY <2>4, <2>5, <2>6
<1>5. CASE UNCHANGED call
  BY <1>5
<1> QED
  BY <1>1, <1>2, <1>3, <1>4, <1>5
  DEF CapacityNext, Settle, BeginRenewal, WriteRenewal, LoseRenewal, capacityVars

(* The parts about one call at a time.  A step that reserves nothing keeps *)
(* them because what is held shrinks; a new reservation because the plan's *)
(* totals left room for it.                                                *)
LEMMA StepLone ==
  CapacityInv /\ [CapacityNext]_capacityVars =>
    /\ NothingFlaggedOutside' /\ LonePlanner' /\ TotalsCover'
    /\ WithinCaps' /\ SuppressedHoldNothing'
<1> SUFFICES ASSUME CapacityInv, [CapacityNext]_capacityVars
             PROVE  /\ NothingFlaggedOutside' /\ LonePlanner' /\ TotalsCover'
                    /\ WithinCaps' /\ SuppressedHoldNothing'
  OBVIOUS
<1>0. CapacityTypeOK /\ CapacityTypeOK'
  BY CapacityStepTyped DEF CapacityInv
<1> USE CapacityAssumption, <1>0
    DEF CapacityInv, CapacityTypeOK, NothingFlaggedOutside, LonePlanner, TotalsCover,
        WithinCaps, SuppressedHoldNothing, call
<1> DEFINE Held(t) == Cardinality(Holding(t))
<1>1. ASSUME NEW p \in Planners, BeginPlan(p)
      PROVE  /\ NothingFlaggedOutside' /\ LonePlanner' /\ TotalsCover'
             /\ WithinCaps' /\ SuppressedHoldNothing'
  <2>1. /\ res' = res /\ busy' = busy \union {p} /\ p \notin busy
        /\ bad'[p] \subseteq left'[p]
        /\ \A q \in Planners \ {p} : bad'[q] = bad[q] /\ left'[q] = left[q]
        /\ ~overlapped' => ~overlapped /\ busy = {}
        /\ ~raced' => ~raced
    <3>1. PICK asked \in SUBSET Items : \E flagged \in SUBSET asked :
                 /\ left' = [left EXCEPT ![p] = asked]
                 /\ bad' = [bad EXCEPT ![p] = flagged]
      BY <1>1 DEF BeginPlan
    <3>2. overlapped' = (overlapped \/ busy # {}) /\ raced' = (raced \/ Renewing # {})
      BY <1>1 DEF BeginPlan
    <3>3. (~overlapped' => ~overlapped /\ busy = {}) /\ (~raced' => ~raced)
      BY <3>2
    <3>4. res' = res /\ busy' = busy \union {p} /\ p \notin busy
      BY <1>1 DEF BeginPlan
    <3> QED
      BY <3>1, <3>3, <3>4
  <2>2. \A t \in CapTypes : used'[p][t] = Held(t) /\ Held(t)' = Held(t)
    BY <1>1, <2>1 DEF BeginPlan, ClaimTotal, Holding
  <2>3. \A t \in CapTypes : Held(t) \in Nat
    BY HoldingFinite
  <2>4. TotalsCover'
    BY <2>1, <2>2, <2>3
  <2>5. NothingFlaggedOutside' /\ LonePlanner' /\ SuppressedHoldNothing'
    BY <2>1
  <2> QED
    BY <2>1, <2>2, <2>4, <2>5
<1>2. ASSUME NEW p \in Planners, EndPlan(p)
      PROVE  /\ NothingFlaggedOutside' /\ LonePlanner' /\ TotalsCover'
             /\ WithinCaps' /\ SuppressedHoldNothing'
  <2>1. /\ res' = res /\ busy' = busy \ {p} /\ overlapped' = overlapped /\ raced' = raced
        /\ bad'[p] = {}
        /\ \A q \in Planners \ {p} : /\ bad'[q] = bad[q] /\ left'[q] = left[q]
                                     /\ used'[q] = used[q]
    BY <1>2 DEF EndPlan
  <2>2. \A t \in CapTypes : Held(t)' = Held(t)
    BY <2>1 DEF Holding
  <2> QED
    BY <2>1, <2>2
<1>3. ASSUME ~raced' => /\ ~raced
                        /\ \A i \in Items : res'[i] = "RESERVED" => res[i] = "RESERVED",
             UNCHANGED <<busy, used, bad, overlapped>>,
             \A p \in Planners : \A i \in bad[p] :
               i \in left[p] \ left'[p] => res'[i] # "RESERVED"
      PROVE  /\ NothingFlaggedOutside' /\ LonePlanner' /\ TotalsCover'
             /\ WithinCaps' /\ SuppressedHoldNothing'
  <2>1. ASSUME NEW t \in CapTypes
        PROVE  /\ Held(t) \in Nat /\ Held(t)' \in Nat
               /\ ~raced' => Held(t)' <= Held(t)
    BY <1>3, HoldingFinite, HoldingShrinks
  <2>2. TotalsCover' /\ WithinCaps'
    <3>1. ASSUME ~overlapped, ~raced', NEW p \in busy, NEW t \in CapTypes
          PROVE  Held(t)' <= used[p][t]
      <4>1. Held(t) <= used[p][t] /\ used[p][t] \in Nat
        BY <1>3, <3>1
      <4> HIDE DEF Held
      <4> QED
        BY <2>1, <3>1, <4>1
    <3>2. ASSUME ~overlapped, ~raced', NEW t \in CapTypes
          PROVE  Held(t)' <= Cap[t]
      <4>1. Held(t) <= Cap[t] /\ Cap[t] \in Nat
        BY <1>3, <3>2
      <4> HIDE DEF Held
      <4> QED
        BY <2>1, <3>2, <4>1
    <3> QED
      BY <1>3, <3>1, <3>2
  <2>3. NothingFlaggedOutside' /\ LonePlanner' /\ SuppressedHoldNothing'
    BY <1>3
  <2> QED
    BY <2>2, <2>3
<1>4. ASSUME NEW p \in Planners, NEW i \in Items, ReserveRefused(p, i)
      PROVE  /\ NothingFlaggedOutside' /\ LonePlanner' /\ TotalsCover'
             /\ WithinCaps' /\ SuppressedHoldNothing'
  <2>1. /\ \A k \in Items : res'[k] = "RESERVED" => res[k] = "RESERVED"
        /\ UNCHANGED <<busy, used, bad, overlapped, raced>>
        /\ \A q \in Planners : \A k \in bad[q] :
             k \in left[q] \ left'[q] => res'[k] # "RESERVED"
    BY <1>4 DEF ReserveRefused, Take, Invalidated
  <2> QED
    BY <1>3, <2>1
<1>5. ASSUME NEW p \in Planners, NEW i \in Items,
             ReserveExisting(p, i) \/ ReserveBlocked(p, i)
      PROVE  /\ NothingFlaggedOutside' /\ LonePlanner' /\ TotalsCover'
             /\ WithinCaps' /\ SuppressedHoldNothing'
  <2>1. /\ UNCHANGED <<res, busy, used, bad, overlapped, raced>>
        /\ i \notin bad[p] /\ left' = [left EXCEPT ![p] = @ \ {i}]
    BY <1>5 DEF ReserveExisting, ReserveBlocked, Take
  <2> QED
    BY <1>3, <2>1
<1>6. CASE UNCHANGED call /\ [CapacityNext]_capacityVars
  <2>1. ASSUME ~raced', NEW i \in Items, res'[i] = "RESERVED"
        PROVE  ~raced /\ res[i] = "RESERVED"
    <3>1. ASSUME NEW k \in Items, NEW s \in Updates, Settle(k, s)
          PROVE  ~raced /\ res[i] = "RESERVED"
      BY <2>1, <3>1 DEF Settle
    <3>2. ASSUME NEW u \in Updaters, NEW k \in Items, BeginRenewal(u, k)
          PROVE  ~raced /\ res[i] = "RESERVED"
      BY <2>1, <3>2 DEF BeginRenewal
    <3>3. ASSUME NEW u \in Updaters, WriteRenewal(u) \/ LoseRenewal(u)
          PROVE  ~raced /\ res[i] = "RESERVED"
      BY <2>1, <3>3 DEF WriteRenewal, LoseRenewal, RenewalsFresh, Renewing
    <3>4. ASSUME NEW p \in Planners, NEW k \in Items,
                 ReserveRefused(p, k) \/ ReserveExisting(p, k) \/ ReserveBlocked(p, k)
                 \/ ReserveNew(p, k)
          PROVE  FALSE
      <4>1. k \in left[p] /\ left'[p] = left[p] \ {k}
        BY <3>4 DEF ReserveRefused, ReserveExisting, ReserveBlocked, ReserveNew, Take, IsNext
      <4> QED
        BY <1>6, <4>1
    <3>5. ASSUME NEW p \in Planners, BeginPlan(p) \/ EndPlan(p)
          PROVE  FALSE
      BY <1>6, <3>5 DEF BeginPlan, EndPlan
    <3>6. CASE UNCHANGED capacityVars
      BY <2>1, <3>6 DEF capacityVars
    <3> QED
      BY <1>6, <3>1, <3>2, <3>3, <3>4, <3>5, <3>6 DEF CapacityNext
  <2>2. overlapped' = overlapped
    BY <1>6 DEF CapacityNext, capacityVars, Settle, BeginRenewal, WriteRenewal, LoseRenewal,
                BeginPlan, EndPlan, ReserveRefused, ReserveExisting, ReserveBlocked, ReserveNew
  <2>3. UNCHANGED <<busy, used, bad, overlapped>> /\ left' = left
    BY <1>6, <2>2
  <2>4. ~raced' => /\ ~raced
                  /\ \A i \in Items : res'[i] = "RESERVED" => res[i] = "RESERVED"
    <3>1. CASE \E i \in Items : res'[i] = "RESERVED"
      BY <2>1, <3>1
    <3>2. CASE ~\E i \in Items : res'[i] = "RESERVED"
      <4>1. ~raced' => ~raced
        BY <1>6 DEF CapacityNext, capacityVars, Settle, BeginRenewal, WriteRenewal,
                    LoseRenewal, BeginPlan, EndPlan, ReserveRefused, ReserveExisting,
                    ReserveBlocked, ReserveNew
      <4> QED
        BY <3>2, <4>1
    <3> QED
      BY <3>1, <3>2
  <2>5. \A p \in Planners : \A i \in bad[p] :
          i \in left[p] \ left'[p] => res'[i] # "RESERVED"
    BY <2>3
  <2> QED
    BY <1>3, <2>3, <2>4, <2>5
<1>7. ASSUME NEW p \in Planners, NEW i \in Items, ReserveNew(p, i)
      PROVE  /\ NothingFlaggedOutside' /\ LonePlanner' /\ TotalsCover'
             /\ WithinCaps' /\ SuppressedHoldNothing'
  <2>1. /\ p \in busy /\ i \notin bad[p] /\ res[i] = "NONE"
        /\ res' = [res EXCEPT ![i] = "RESERVED"]
        /\ UNCHANGED <<busy, bad, overlapped, raced>>
        /\ left' = [left EXCEPT ![p] = @ \ {i}]
        /\ \A t \in CapTypes : used'[p][t] = IF t \in Claim(i) THEN used[p][t] + 1
                                                              ELSE used[p][t]
    BY <1>7 DEF ReserveNew, Take, NoRow
  <2>2. ASSUME NEW t \in CapTypes
        PROVE  /\ Held(t)' = IF t \in Claim(i) THEN Held(t) + 1 ELSE Held(t)
               /\ Held(t) \in Nat /\ Held(t)' \in Nat
               /\ used[p][t] \in Nat /\ Cap[t] \in Nat
    <3>1. Held(t)' = IF t \in Claim(i) THEN Held(t) + 1 ELSE Held(t)
      BY <2>1, HoldingGrows
    <3>2. Held(t) \in Nat /\ Held(t)' \in Nat
      BY HoldingFinite
    <3>3. used[p][t] \in Nat /\ Cap[t] \in Nat
      OBVIOUS
    <3> QED
      BY <3>1, <3>2, <3>3
  <2>3. TotalsCover'
    <3>1. ASSUME ~overlapped, ~raced, NEW t \in CapTypes
          PROVE  Held(t)' <= used'[p][t]
      <4>1. Held(t) <= used[p][t]
        BY <2>1, <3>1
      <4>2. used'[p][t] = IF t \in Claim(i) THEN used[p][t] + 1 ELSE used[p][t]
        BY <2>1
      <4> HIDE DEF Held
      <4> QED
        BY <2>2, <4>1, <4>2
    <3> QED
      BY <2>1, <3>1
  <2>4. WithinCaps'
    <3>1. ASSUME ~overlapped, ~raced, NEW t \in CapTypes
          PROVE  Held(t)' <= Cap[t]
      <4>1. Held(t) <= used[p][t] /\ Held(t) <= Cap[t]
        BY <2>1, <3>1
      <4>2. t \in Claim(i) => ~(Cap[t] < used[p][t] + 1)
        BY <1>7 DEF ReserveNew, Missing
      <4> QED
        BY <2>2, <4>1, <4>2
    <3> QED
      BY <2>1, <3>1
  <2>5. SuppressedHoldNothing'
    <3>1. ASSUME ~overlapped, ~raced, NEW q \in Planners, NEW k \in bad[q] \ left'[q]
          PROVE  res'[k] # "RESERVED"
      <4>1. q = p
        BY <2>1, <3>1
      <4> QED
        BY <2>1, <3>1, <4>1
    <3> QED
      BY <2>1, <3>1
  <2> QED
    BY <2>1, <2>3, <2>4, <2>5
<1> QED
  BY <1>1, <1>2, <1>4, <1>5, <1>6, <1>7
  DEF CapacityNext, capacityVars, Settle, BeginRenewal, WriteRenewal, LoseRenewal

LEMMA CapacityInvariant == CapacitySpec => []CapacityInv
<1>1. CapacityInv /\ [CapacityNext]_capacityVars => CapacityInv'
  BY CapacityStepTyped, StepFresh, StepFollowups, StepLone DEF CapacityInv
<1> QED
  BY <1>1, InitCapacity, PTL DEF CapacitySpec

(* Any sequence of plans, deaths and updates stays within every cap of the *)
(* day, as long as two plans are never in progress at once and a renewal   *)
(* is never beside another call.                                           *)
THEOREM WithinCapsHolds == CapacitySpec => []WithinCaps
BY CapacityInvariant, PTL DEF CapacityInv

(* A plan that inserts new outreach has refused a follow-up only at the    *)
(* follow-up cap, also when plans overlap.                                 *)
THEOREM FollowupsServedFirstHolds == CapacitySpec => []FollowupsServedFirst
BY CapacityInvariant, PTL DEF CapacityInv

(* What a lone plan was told is suppressed or stale holds no capacity once *)
(* the plan has passed it, as long as no renewal has raced another call.   *)
THEOREM SuppressedHoldNothingHolds == CapacitySpec => []SuppressedHoldNothing
BY CapacityInvariant, PTL DEF CapacityInv

(* Capacity goes to follow-ups before new outreach and to nothing that a   *)
(* lone plan was told is suppressed or stale.                              *)
THEOREM ItemsServedHolds == CapacitySpec => []ItemsServed
BY CapacityInvariant, PTL DEF CapacityInv, ItemsServed
-----------------------------------------------------------------------------
(* What is held together with what a renewal may still reopen. *)
Reach(t) == {i \in Items : /\ t \in Claim(i)
                           /\ res[i] = "RESERVED" \/ \E u \in Updaters : renewal[u] = i}
Pending(t) == {i \in Items : t \in Claim(i) /\ \E u \in Updaters : renewal[u] = i}

LEMMA ReachFinite ==
  ASSUME NEW t \in CapTypes
  PROVE  /\ IsFiniteSet(Reach(t)) /\ Cardinality(Reach(t)) \in Nat
         /\ IsFiniteSet(Reach(t)') /\ Cardinality(Reach(t)') \in Nat
         /\ IsFiniteSet(Pending(t)) /\ Cardinality(Pending(t)) \in Nat
         /\ Cardinality(Holding(t)) <= Cardinality(Reach(t))
<1>1. IsFiniteSet(Items)
  BY CapacityAssumption
<1>2. /\ Reach(t) \in SUBSET Items /\ Reach(t)' \in SUBSET Items
      /\ Pending(t) \in SUBSET Items
  BY DEF Reach, Pending
<1>3. Holding(t) \in SUBSET Reach(t)
  BY DEF Holding, Reach
<1> QED
  BY <1>1, <1>2, <1>3, FS_Subset, FS_CardinalityType

(* There are no more pending renewals than processes that renew. *)
LEMMA PendingBound ==
  ASSUME NEW t \in CapTypes
  PROVE  Cardinality(Pending(t)) <= Cardinality(Updaters)
<1> DEFINE who == [i \in Pending(t) |-> CHOOSE u \in Updaters : renewal[u] = i]
<1>1. ASSUME NEW i \in Pending(t) PROVE who[i] \in Updaters /\ renewal[who[i]] = i
  BY DEF Pending
<1>2. who \in [Pending(t) -> Updaters]
  BY <1>1
<1> HIDE DEF who
<1>3. who \in Injection(Pending(t), Updaters)
  BY <1>1, <1>2 DEF Injection, IsInjective
<1>4. IsFiniteSet(Updaters)
  BY CapacityAssumption
<1> QED
  BY <1>3, <1>4, FS_Injection

(* Two sets together. *)
LEMMA UnionBound ==
  ASSUME NEW S, NEW T, IsFiniteSet(S), IsFiniteSet(T)
  PROVE  /\ IsFiniteSet(S \union T)
         /\ Cardinality(S) \in Nat /\ Cardinality(T) \in Nat /\ Cardinality(S \union T) \in Nat
         /\ Cardinality(S \union T) <= Cardinality(S) + Cardinality(T)
<1>1. /\ IsFiniteSet(S \union T)
      /\ Cardinality(S \union T) = Cardinality(S) + Cardinality(T) - Cardinality(S \intersect T)
  BY FS_Union
<1>2. IsFiniteSet(S \intersect T)
  BY FS_Intersection
<1>3. /\ Cardinality(S) \in Nat /\ Cardinality(T) \in Nat
      /\ Cardinality(S \intersect T) \in Nat /\ Cardinality(S \union T) \in Nat
  BY <1>1, <1>2, FS_CardinalityType
<1> QED
  BY <1>1, <1>3

(* What is within reach is what is held and what is pending. *)
LEMMA ReachBound ==
  ASSUME NEW t \in CapTypes
  PROVE  Cardinality(Reach(t)) <= Cardinality(Holding(t)) + Cardinality(Updaters)
<1>1. Reach(t) = Holding(t) \union Pending(t)
  BY DEF Reach, Holding, Pending
<1>2. IsFiniteSet(Holding(t)) /\ IsFiniteSet(Pending(t))
  BY HoldingFinite, ReachFinite
<1>3. Cardinality(Updaters) \in Nat
  BY CapacityAssumption, FS_CardinalityType
<1>4. Cardinality(Reach(t)) <= Cardinality(Holding(t)) + Cardinality(Pending(t))
  BY <1>1, <1>2, UnionBound
<1>5. /\ Cardinality(Holding(t)) \in Nat /\ Cardinality(Pending(t)) \in Nat
      /\ Cardinality(Reach(t)) \in Nat
  BY HoldingFinite, ReachFinite
<1> QED
  BY <1>3, <1>4, <1>5, PendingBound

(* One more item at most. *)
LEMMA OneMore ==
  ASSUME NEW S, NEW T, NEW x, IsFiniteSet(S), T \subseteq S \union {x}
  PROVE  IsFiniteSet(T) /\ Cardinality(T) \in Nat /\ Cardinality(T) <= Cardinality(S) + 1
<1>1. IsFiniteSet({x}) /\ Cardinality({x}) = 1
  BY FS_Singleton
<1>2. /\ IsFiniteSet(S \union {x}) /\ Cardinality(S \union {x}) \in Nat /\ Cardinality(S) \in Nat
      /\ Cardinality(S \union {x}) <= Cardinality(S) + 1
  BY <1>1, UnionBound
<1>3. /\ IsFiniteSet(T) /\ Cardinality(T) \in Nat
      /\ Cardinality(T) <= Cardinality(S \union {x})
  BY <1>2, FS_Subset, FS_CardinalityType
<1> QED
  BY <1>2, <1>3

(* Whatever comes within reach was reserved by a plan in this step. *)
LEMMA ReachStep ==
  ASSUME CapacityTypeOK, [CapacityNext]_capacityVars
  PROVE  \/ \E p \in Planners, i \in Items : ReserveNew(p, i)
         \/ \A t \in CapTypes : Reach(t)' \subseteq Reach(t)
<1> SUFFICES ASSUME ~\E p \in Planners, i \in Items : ReserveNew(p, i), NEW t \in CapTypes
             PROVE  Reach(t)' \subseteq Reach(t)
  OBVIOUS
<1> USE DEF CapacityTypeOK, call, Reach, Claim
<1>1. ASSUME NEW p \in Planners, BeginPlan(p) \/ EndPlan(p)
      PROVE  Reach(t)' \subseteq Reach(t)
  BY <1>1 DEF BeginPlan, EndPlan
<1>2. ASSUME NEW p \in Planners, NEW i \in Items, ReserveRefused(p, i)
      PROVE  Reach(t)' \subseteq Reach(t)
  BY <1>2 DEF ReserveRefused, Invalidated
<1>3. ASSUME NEW p \in Planners, NEW i \in Items, ReserveExisting(p, i) \/ ReserveBlocked(p, i)
      PROVE  Reach(t)' \subseteq Reach(t)
  BY <1>3 DEF ReserveExisting, ReserveBlocked
<1>4. ASSUME NEW i \in Items, NEW s \in Updates, Settle(i, s)
      PROVE  Reach(t)' \subseteq Reach(t)
  BY <1>4, CapacityAssumption DEF Settle
<1>5. ASSUME NEW u \in Updaters, NEW i \in Items, BeginRenewal(u, i)
      PROVE  Reach(t)' \subseteq Reach(t)
  BY <1>5 DEF BeginRenewal, MayRenew
<1>6. ASSUME NEW u \in Updaters, WriteRenewal(u)
      PROVE  Reach(t)' \subseteq Reach(t)
  <2>1. NoItem \notin Items
    BY CapacityAssumption
  <2> QED
    BY <1>6, <2>1 DEF WriteRenewal
<1>7. ASSUME NEW u \in Updaters, LoseRenewal(u)
      PROVE  Reach(t)' \subseteq Reach(t)
  <2>1. NoItem \notin Items
    BY CapacityAssumption
  <2> QED
    BY <1>7, <2>1 DEF LoseRenewal
<1>8. CASE UNCHANGED capacityVars
  BY <1>8 DEF capacityVars
<1> QED
  BY <1>1, <1>2, <1>3, <1>4, <1>5, <1>6, <1>7, <1>8 DEF CapacityNext

(* A new reservation adds itself, and its plan's totals had room for it. *)
LEMMA ReachReserve ==
  ASSUME CapacityTypeOK, NEW p \in Planners, NEW i \in Items, ReserveNew(p, i), NEW t \in CapTypes
  PROVE  /\ Reach(t)' \subseteq Reach(t) \union {i}
         /\ t \notin Claim(i) => Reach(t)' \subseteq Reach(t)
         /\ t \in Claim(i) => used[p][t] + 1 <= Cap[t]
         /\ p \in busy /\ busy' = busy
         /\ \A q \in Planners :
              used'[q][t] = IF q = p /\ t \in Claim(i) THEN used[q][t] + 1 ELSE used[q][t]
<1>1. t \in Claim(i) => used[p][t] + 1 <= Cap[t]
  <2>1. used[p][t] \in Nat /\ Cap[t] \in Nat
    BY CapacityAssumption DEF CapacityTypeOK
  <2>2. t \in Claim(i) => ~(Cap[t] < used[p][t] + 1)
    BY DEF ReserveNew, Missing
  <2> QED
    BY <2>1, <2>2
<1>2. \A j \in Items : res'[j] = IF j = i THEN "RESERVED" ELSE res[j]
  BY DEF ReserveNew, CapacityTypeOK
<1>3. renewal' = renewal /\ p \in busy /\ busy' = busy
  BY DEF ReserveNew, Take
<1>4. \A q \in Planners :
        used'[q][t] = IF q = p /\ t \in Claim(i) THEN used[q][t] + 1 ELSE used[q][t]
  BY DEF ReserveNew, CapacityTypeOK
<1> QED
  BY <1>1, <1>2, <1>3, <1>4 DEF Reach, Claim

-----------------------------------------------------------------------------
(* Plans that do not overlap, and renewals that do. *)
ReachFits ==
  ~overlapped => \A t \in CapTypes :
    /\ Cardinality(Reach(t)) <= Cap[t] + Cardinality(Updaters)
    /\ \A p \in busy : Cardinality(Reach(t)) <= used[p][t] + Cardinality(Updaters)

LoneInv == CapacityTypeOK /\ LonePlanner /\ ReachFits

LEMMA InitReach == CapacityInit => LoneInv
<1> SUFFICES ASSUME CapacityInit PROVE LoneInv
  OBVIOUS
<1>1. CapacityTypeOK
  BY CapacityInitTyped
<1>2. busy = {} /\ NoItem \notin Items
  BY CapacityAssumption DEF CapacityInit
<1>3. ASSUME NEW t \in CapTypes
      PROVE  Cardinality(Reach(t)) <= Cap[t] + Cardinality(Updaters)
  <2>1. Reach(t) = {}
    BY <1>2 DEF CapacityInit, Reach
  <2>2. Cardinality({}) = 0
    BY FS_EmptySet
  <2>3. Cap[t] \in Nat /\ Cardinality(Updaters) \in Nat
    BY CapacityAssumption, FS_CardinalityType
  <2> QED
    BY <2>1, <2>2, <2>3
<1> QED
  BY <1>1, <1>2, <1>3 DEF LoneInv, LonePlanner, ReachFits

(* Who is planning, step by step. *)
LEMMA StepLonePlanner ==
  CapacityTypeOK /\ LonePlanner /\ [CapacityNext]_capacityVars
    => /\ LonePlanner'
       /\ overlapped => overlapped'
<1> SUFFICES ASSUME CapacityTypeOK, LonePlanner, [CapacityNext]_capacityVars
             PROVE  LonePlanner' /\ (overlapped => overlapped')
  OBVIOUS
<1>1. ASSUME NEW p \in Planners, BeginPlan(p)
      PROVE  LonePlanner' /\ (overlapped => overlapped')
  BY <1>1 DEF BeginPlan, LonePlanner, CapacityTypeOK
<1>2. ASSUME busy' \subseteq busy, overlapped' = overlapped
      PROVE  LonePlanner' /\ (overlapped => overlapped')
  BY <1>2 DEF LonePlanner
<1> QED
  BY <1>1, <1>2
  DEF CapacityNext, capacityVars, call, EndPlan, ReserveRefused, ReserveExisting,
      ReserveBlocked, ReserveNew, Settle, BeginRenewal, WriteRenewal, LoseRenewal

LEMMA StepReach == LoneInv /\ [CapacityNext]_capacityVars => LoneInv'
<1> SUFFICES ASSUME LoneInv, [CapacityNext]_capacityVars
             PROVE  LoneInv'
  OBVIOUS
<1>1. CapacityTypeOK /\ CapacityTypeOK' /\ LonePlanner' /\ (overlapped => overlapped')
  BY CapacityStepTyped, StepLonePlanner DEF LoneInv
<1>2. SUFFICES ASSUME ~overlapped', NEW t \in CapTypes
               PROVE  /\ Cardinality(Reach(t)') <= Cap[t] + Cardinality(Updaters)
                      /\ \A p \in busy' :
                           Cardinality(Reach(t)') <= used'[p][t] + Cardinality(Updaters)
  BY <1>1 DEF LoneInv, ReachFits
<1>3. /\ Cap[t] \in Nat /\ Cardinality(Updaters) \in Nat
      /\ Cardinality(Reach(t)) \in Nat /\ Cardinality(Reach(t)') \in Nat
      /\ IsFiniteSet(Reach(t))
  BY CapacityAssumption, ReachFinite, FS_CardinalityType
<1>4. /\ Cardinality(Reach(t)) <= Cap[t] + Cardinality(Updaters)
      /\ \A p \in busy : Cardinality(Reach(t)) <= used[p][t] + Cardinality(Updaters)
  BY <1>1, <1>2 DEF LoneInv, ReachFits
<1>5. ASSUME NEW p \in Planners, NEW i \in Items, ReserveNew(p, i)
      PROVE  /\ Cardinality(Reach(t)') <= Cap[t] + Cardinality(Updaters)
             /\ \A q \in busy' :
                  Cardinality(Reach(t)') <= used'[q][t] + Cardinality(Updaters)
  <2>1. /\ Reach(t)' \subseteq Reach(t) \union {i}
        /\ t \notin Claim(i) => Reach(t)' \subseteq Reach(t)
        /\ t \in Claim(i) => used[p][t] + 1 <= Cap[t]
        /\ p \in busy /\ busy' = busy
        /\ \A q \in Planners :
             used'[q][t] = IF q = p /\ t \in Claim(i) THEN used[q][t] + 1 ELSE used[q][t]
    BY <1>1, <1>5, ReachReserve
  <2>2. used[p][t] \in Nat /\ Cardinality(Reach(t)) <= used[p][t] + Cardinality(Updaters)
    BY <1>1, <1>4, <2>1 DEF CapacityTypeOK
  <2>3. \A q \in busy' : q = p
    BY <1>1, <1>2, <2>1 DEF LonePlanner
  <2>4. CASE t \in Claim(i)
    <3>1. Cardinality(Reach(t)') <= Cardinality(Reach(t)) + 1
      BY <1>3, <2>1, OneMore
    <3>2. used'[p][t] = used[p][t] + 1 /\ used[p][t] + 1 <= Cap[t]
      BY <2>1, <2>4
    <3>3. /\ Cardinality(Reach(t)') <= used[p][t] + 1 + Cardinality(Updaters)
          /\ Cardinality(Reach(t)') <= Cap[t] + Cardinality(Updaters)
      BY <1>3, <2>2, <3>1, <3>2
    <3> QED
      BY <2>3, <3>2, <3>3
  <2>5. CASE t \notin Claim(i)
    <3>1. Cardinality(Reach(t)') <= Cardinality(Reach(t))
      BY <1>3, <2>1, <2>5, FS_Subset
    <3>2. used'[p][t] = used[p][t]
      BY <2>1, <2>5
    <3>3. /\ Cardinality(Reach(t)') <= used[p][t] + Cardinality(Updaters)
          /\ Cardinality(Reach(t)') <= Cap[t] + Cardinality(Updaters)
      BY <1>3, <1>4, <2>2, <3>1
    <3> QED
      BY <2>3, <3>2, <3>3
  <2> QED
    BY <2>4, <2>5
<1>6. ASSUME NEW p \in Planners, BeginPlan(p)
      PROVE  /\ Cardinality(Reach(t)') <= Cap[t] + Cardinality(Updaters)
             /\ \A q \in busy' :
                  Cardinality(Reach(t)') <= used'[q][t] + Cardinality(Updaters)
  <2>1. busy = {} /\ busy' = {p} /\ UNCHANGED <<res, renewal>>
    BY <1>1, <1>2, <1>6 DEF BeginPlan
  <2>2. used'[p][t] = Cardinality(Holding(t))
    BY <1>1, <1>6 DEF BeginPlan, ClaimTotal, CapacityTypeOK
  <2>3. Reach(t)' = Reach(t)
    BY <2>1 DEF Reach, Claim
  <2>4. Cardinality(Reach(t)) <= Cardinality(Holding(t)) + Cardinality(Updaters)
    BY ReachBound
  <2> QED
    BY <1>4, <2>1, <2>2, <2>3, <2>4
<1>7. ASSUME Reach(t)' \subseteq Reach(t), busy' \subseteq busy,
             \A p \in busy' : used'[p] = used[p]
      PROVE  /\ Cardinality(Reach(t)') <= Cap[t] + Cardinality(Updaters)
             /\ \A q \in busy' :
                  Cardinality(Reach(t)') <= used'[q][t] + Cardinality(Updaters)
  <2>1. Cardinality(Reach(t)') <= Cardinality(Reach(t))
    BY <1>3, <1>7, FS_Subset
  <2>2. \A q \in busy' : /\ used'[q][t] = used[q][t] /\ used[q][t] \in Nat
                         /\ Cardinality(Reach(t)) <= used[q][t] + Cardinality(Updaters)
    BY <1>1, <1>4, <1>7 DEF CapacityTypeOK
  <2>3. ASSUME NEW q \in busy'
        PROVE  Cardinality(Reach(t)') <= used'[q][t] + Cardinality(Updaters)
    <3>1. /\ used'[q][t] = used[q][t] /\ used[q][t] \in Nat
          /\ Cardinality(Reach(t)) <= used[q][t] + Cardinality(Updaters)
      BY <2>2
    <3> QED
      BY <1>3, <2>1, <3>1
  <2> QED
    BY <1>3, <1>4, <2>1, <2>3
<1>8. \/ \E p \in Planners : BeginPlan(p)
      \/ \E p \in Planners, i \in Items : ReserveNew(p, i)
      \/ busy' \subseteq busy /\ \A p \in busy' : used'[p] = used[p]
  BY <1>1
  DEF CapacityNext, capacityVars, call, CapacityTypeOK, EndPlan, ReserveRefused,
      ReserveExisting, ReserveBlocked, Settle, BeginRenewal, WriteRenewal, LoseRenewal
<1> QED
  BY <1>1, <1>5, <1>6, <1>7, <1>8, ReachStep

(* As long as plans do not overlap, renewals that come too late take the   *)
(* day past a cap by no more than the number of processes that renew,      *)
(* however many of them there have been.                                   *)
THEOREM ReopeningsBoundedHolds == CapacitySpec => []ReopeningsBounded
<1>1. LoneInv => ReopeningsBounded
  <2> SUFFICES ASSUME LoneInv, ~overlapped, NEW t \in CapTypes
               PROVE  Cardinality(Holding(t)) <= Cap[t] + Cardinality(Updaters)
    BY DEF ReopeningsBounded
  <2>1. Cardinality(Reach(t)) <= Cap[t] + Cardinality(Updaters)
    BY DEF LoneInv, ReachFits
  <2>2. Cardinality(Holding(t)) <= Cardinality(Reach(t))
    BY ReachFinite
  <2>3. /\ Cardinality(Reach(t)) \in Nat /\ Cardinality(Holding(t)) \in Nat
        /\ Cap[t] \in Nat /\ Cardinality(Updaters) \in Nat
    BY ReachFinite, HoldingFinite, CapacityAssumption, FS_CardinalityType
  <2> QED
    BY <2>1, <2>2, <2>3
<1> QED
  BY <1>1, InitReach, StepReach, PTL DEF CapacitySpec
-----------------------------------------------------------------------------
(* Plans that overlap.  For each type, what is within reach is divided     *)
(* into a share of each planner, which stays within the planner's own      *)
(* totals, however stale they are for what the others hold, and into what  *)
(* the pending renewals may reopen.                                        *)
SharesFit(t, share, extra) ==
  /\ \A i \in Reach(t) : i \in extra \/ \E p \in Planners : i \in share[p]
  /\ Cardinality(extra) <= Cardinality(Updaters)
  /\ \A p \in Planners :
       /\ Cardinality(share[p]) <= Cap[t]
       /\ p \in busy => Cardinality(share[p]) <= used[p][t]
SharesInv ==
  \A t \in CapTypes :
    \E share \in [Planners -> SUBSET Items], extra \in SUBSET Items : SharesFit(t, share, extra)

(* Sets of items are finite. *)
LEMMA ItemsFinite ==
  ASSUME NEW S \in SUBSET Items
  PROVE  IsFiniteSet(S) /\ Cardinality(S) \in Nat
BY CapacityAssumption, FS_Subset, FS_CardinalityType

(* There are n numbers from 1 to n. *)
LEMMA FirstNumbers ==
  ASSUME NEW n \in Nat PROVE IsFiniteSet(1..n) /\ Cardinality(1..n) = n
BY FS_Interval

(* Numbers within each share tell apart the items that are in a share. *)
LEMMA SharedBound ==
  ASSUME NEW share \in [Planners -> SUBSET Items], NEW c \in Nat,
         \A p \in Planners : Cardinality(share[p]) <= c,
         NEW H \in SUBSET Items, \A i \in H : \E p \in Planners : i \in share[p]
  PROVE  Cardinality(H) <= Cardinality(Planners) * c
<1> DEFINE Nums == 1..c
           Numbering(p) == {f \in [share[p] -> Nums] :
                              \A i, j \in share[p] : f[i] = f[j] => i = j}
           num == [p \in Planners |-> CHOOSE f \in Numbering(p) : TRUE]
           owner == [i \in H |-> CHOOSE p \in Planners : i \in share[p]]
           place == [i \in H |-> <<owner[i], num[owner[i]][i]>>]
<1>2. ASSUME NEW p \in Planners PROVE num[p] \in Numbering(p)
  <2> DEFINE k == Cardinality(share[p])
  <2>1. IsFiniteSet(share[p]) /\ k \in Nat /\ k <= c
    BY ItemsFinite
  <2>2. IsFiniteSet(1..k) /\ Cardinality(1..k) = k
    BY <2>1, FirstNumbers
  <2>3. PICK f : f \in Bijection(share[p], 1..k)
    BY <2>1, <2>2, FS_SameCardinalityBij DEF ExistsBijection
  <2>4. f \in [share[p] -> 1..k] /\ \A i, j \in share[p] : f[i] = f[j] => i = j
    BY <2>3 DEF Bijection, Injection, IsInjective
  <2>5. 1..k \subseteq Nums
    BY <2>1
  <2>6. f \in Numbering(p)
    BY <2>4, <2>5
  <2> QED
    BY <2>6
<1>3. ASSUME NEW i \in H
      PROVE  owner[i] \in Planners /\ i \in share[owner[i]]
  OBVIOUS
<1> HIDE DEF num, owner
<1>4. ASSUME NEW i \in H PROVE place[i] \in Planners \X Nums
  <2>1. num[owner[i]] \in Numbering(owner[i])
    BY <1>2, <1>3
  <2>2. num[owner[i]][i] \in Nums
    BY <1>3, <2>1
  <2> QED
    BY <1>3, <2>2
<1>5. ASSUME NEW i \in H, NEW j \in H, place[i] = place[j]
      PROVE  i = j
  <2>1. owner[i] = owner[j] /\ num[owner[i]][i] = num[owner[i]][j]
    BY <1>5
  <2>2. num[owner[i]] \in Numbering(owner[i])
    BY <1>2, <1>3
  <2>3. i \in share[owner[i]] /\ j \in share[owner[i]]
    BY <1>3, <2>1
  <2> QED
    BY <2>1, <2>2, <2>3
<1>6. place \in Injection(H, Planners \X Nums)
  <2>1. place \in [H -> Planners \X Nums]
    BY <1>4
  <2> QED
    BY <2>1, <1>5 DEF Injection, IsInjective
<1> HIDE DEF place
<1>7. IsFiniteSet(Nums) /\ Cardinality(Nums) = c
  BY FirstNumbers
<1> HIDE DEF Nums
<1>8. /\ IsFiniteSet(Planners \X Nums)
      /\ Cardinality(Planners \X Nums) = Cardinality(Planners) * c
  <2>1. IsFiniteSet(Planners)
    BY CapacityAssumption
  <2> QED
    BY <1>7, <2>1, FS_Product
<1> QED
  BY <1>6, <1>8, FS_Injection

(* The shares and what is left over bound what is within reach. *)
LEMMA SharesBound ==
  ASSUME NEW t \in CapTypes, NEW share \in [Planners -> SUBSET Items], NEW extra \in SUBSET Items,
         SharesFit(t, share, extra)
  PROVE  Cardinality(Holding(t)) <= Cardinality(Planners) * Cap[t] + Cardinality(Updaters)
<1> DEFINE H == {i \in Reach(t) : \E p \in Planners : i \in share[p]}
<1>1. H \in SUBSET Items
  BY DEF Reach
<1>2. Cap[t] \in Nat /\ Cardinality(Updaters) \in Nat /\ Cardinality(Planners) \in Nat
  BY CapacityAssumption, FS_CardinalityType
<1>3. \A p \in Planners : Cardinality(share[p]) <= Cap[t]
  BY DEF SharesFit
<1>4. \A i \in H : \E p \in Planners : i \in share[p]
  OBVIOUS
<1>5. Reach(t) \subseteq H \union extra
  BY DEF SharesFit
<1> HIDE DEF H
<1>6. Cardinality(H) <= Cardinality(Planners) * Cap[t]
  BY <1>1, <1>2, <1>3, <1>4, SharedBound
<1>7. /\ IsFiniteSet(H) /\ Cardinality(H) \in Nat
      /\ IsFiniteSet(extra) /\ Cardinality(extra) \in Nat
  BY <1>1, ItemsFinite
<1>8. /\ IsFiniteSet(H \union extra) /\ Cardinality(H \union extra) \in Nat
      /\ Cardinality(H \union extra) <= Cardinality(H) + Cardinality(extra)
  BY <1>7, UnionBound
<1>9. Cardinality(Reach(t)) <= Cardinality(H \union extra)
  BY <1>5, <1>8, FS_Subset
<1>10. Cardinality(extra) <= Cardinality(Updaters)
  BY DEF SharesFit
<1>11. /\ Cardinality(Holding(t)) <= Cardinality(Reach(t))
       /\ Cardinality(Holding(t)) \in Nat /\ Cardinality(Reach(t)) \in Nat
  BY ReachFinite, HoldingFinite
<1> DEFINE most == Cardinality(Planners) * Cap[t]
<1>12. most \in Nat /\ Cardinality(H) <= most
  BY <1>2, <1>6
<1> HIDE DEF most
<1>13. Cardinality(Holding(t)) <= most + Cardinality(Updaters)
  BY <1>2, <1>7, <1>8, <1>9, <1>10, <1>11, <1>12
<1> QED
  BY <1>13 DEF most

(* A plan that starts with room left has totals for all that is held, and  *)
(* only the pending renewals are left over; one that starts without any    *)
(* has totals that cover its old share.                                    *)
LEMMA SharesBegin ==
  ASSUME CapacityTypeOK, NEW p \in Planners, BeginPlan(p), NEW t \in CapTypes,
         NEW share \in [Planners -> SUBSET Items], NEW extra \in SUBSET Items,
         SharesFit(t, share, extra)
  PROVE  \E s \in [Planners -> SUBSET Items], e \in SUBSET Items : SharesFit(t, s, e)'
<1> DEFINE total == Cardinality(Holding(t))
<1>1. /\ total \in Nat /\ Cap[t] \in Nat /\ Cardinality(Updaters) \in Nat
  BY HoldingFinite, CapacityAssumption, FS_CardinalityType
<1>2. /\ used'[p][t] = total
      /\ \A q \in Planners \ {p} : used'[q] = used[q]
      /\ busy' = busy \union {p}
  BY DEF BeginPlan, ClaimTotal, CapacityTypeOK
<1>3. Reach(t)' = Reach(t)
  BY DEF BeginPlan, Reach, Claim
<1>4. CASE total < Cap[t]
  <2> DEFINE s == [q \in Planners |-> IF q = p THEN Holding(t) ELSE {}]
  <2>1. /\ s \in [Planners -> SUBSET Items] /\ Pending(t) \in SUBSET Items
        /\ s[p] = Holding(t) /\ \A q \in Planners \ {p} : s[q] = {}
    BY DEF Holding, Pending
  <2>2. \A i \in Reach(t) : i \in Pending(t) \/ i \in s[p]
    BY <2>1 DEF Reach, Holding, Pending
  <2> HIDE DEF s
  <2>3. Cardinality(Pending(t)) <= Cardinality(Updaters)
    BY PendingBound
  <2>4. ASSUME NEW q \in Planners
        PROVE  /\ Cardinality(s[q]) <= Cap[t]
               /\ q \in busy' => Cardinality(s[q]) <= used'[q][t]
    <3>1. CASE q = p
      BY <1>1, <1>2, <1>4, <2>1, <3>1
    <3>2. CASE q # p
      <4>1. Cardinality(s[q]) = 0
        BY <2>1, <3>2, FS_EmptySet
      <4>2. used'[q][t] \in Nat
        BY <1>2, <3>2 DEF CapacityTypeOK
      <4> QED
        BY <1>1, <4>1, <4>2
    <3> QED
      BY <3>1, <3>2
  <2> DEFINE e == Pending(t)
  <2>5. /\ \A i \in Reach(t)' : i \in e \/ \E q \in Planners : i \in s[q]
        /\ Cardinality(e) <= Cardinality(Updaters) /\ e \in SUBSET Items
    BY <1>3, <2>1, <2>2, <2>3
  <2> HIDE DEF e
  <2>6. PICK x \in SUBSET Items : x = e
    BY <2>5
  <2>7. PICK y \in [Planners -> SUBSET Items] : y = s
    BY <2>1
  <2>8. SharesFit(t, y, x)'
    BY <2>4, <2>5, <2>6, <2>7 DEF SharesFit
  <2> QED
    BY <2>8
<1>5. CASE ~(total < Cap[t])
  <2>1. ASSUME NEW q \in Planners
        PROVE  /\ Cardinality(share[q]) <= Cap[t]
               /\ q \in busy' => Cardinality(share[q]) <= used'[q][t]
    <3>1. Cardinality(share[q]) <= Cap[t] /\ Cardinality(share[q]) \in Nat
      BY ItemsFinite DEF SharesFit
    <3>2. CASE q = p
      BY <1>1, <1>2, <1>5, <3>1, <3>2
    <3>3. CASE q # p
      BY <1>2, <3>1, <3>3 DEF SharesFit
    <3> QED
      BY <3>2, <3>3
  <2>2. SharesFit(t, share, extra)'
    BY <1>3, <2>1 DEF SharesFit
  <2> QED
    BY <2>2
<1> QED
  BY <1>4, <1>5

(* A new reservation joins the share of its planner, whose totals had room *)
(* for it and grow with it.                                                *)
LEMMA SharesReserve ==
  ASSUME CapacityTypeOK, NEW p \in Planners, NEW i \in Items, ReserveNew(p, i), NEW t \in CapTypes,
         NEW share \in [Planners -> SUBSET Items], NEW extra \in SUBSET Items,
         SharesFit(t, share, extra)
  PROVE  \E s \in [Planners -> SUBSET Items], e \in SUBSET Items : SharesFit(t, s, e)'
<1>1. /\ Reach(t)' \subseteq Reach(t) \union {i}
      /\ t \notin Claim(i) => Reach(t)' \subseteq Reach(t)
      /\ t \in Claim(i) => used[p][t] + 1 <= Cap[t]
      /\ p \in busy /\ busy' = busy
      /\ \A q \in Planners :
           used'[q][t] = IF q = p /\ t \in Claim(i) THEN used[q][t] + 1 ELSE used[q][t]
  BY ReachReserve
<1>2. CASE t \in Claim(i)
  <2> DEFINE s == [share EXCEPT ![p] = share[p] \union {i}]
  <2>1. /\ s \in [Planners -> SUBSET Items] /\ s[p] = share[p] \union {i}
        /\ \A q \in Planners \ {p} : s[q] = share[q]
    OBVIOUS
  <2> HIDE DEF s
  <2>2. PICK y \in [Planners -> SUBSET Items] : y = s
    BY <2>1
  <2>3. ASSUME NEW q \in Planners
        PROVE  /\ Cardinality(y[q]) <= Cap[t]
               /\ q \in busy' => Cardinality(y[q]) <= used'[q][t]
    <3>1. CASE q = p
      <4>1. /\ IsFiniteSet(share[p]) /\ Cardinality(share[p]) \in Nat
            /\ Cardinality(share[p]) <= used[p][t]
        BY <1>1, ItemsFinite DEF SharesFit
      <4>2. Cardinality(y[p]) \in Nat /\ Cardinality(y[p]) <= Cardinality(share[p]) + 1
        BY <2>1, <2>2, <4>1, OneMore
      <4>3. /\ used[p][t] \in Nat /\ Cap[t] \in Nat /\ used'[p][t] = used[p][t] + 1
            /\ used[p][t] + 1 <= Cap[t]
        BY <1>1, <1>2, CapacityAssumption DEF CapacityTypeOK
      <4> QED
        BY <3>1, <4>1, <4>2, <4>3
    <3>2. CASE q # p
      BY <1>1, <2>1, <2>2, <3>2 DEF SharesFit
    <3> QED
      BY <3>1, <3>2
  <2>4. \A j \in Reach(t)' : j \in extra \/ \E q \in Planners : j \in y[q]
    BY <1>1, <2>1, <2>2 DEF SharesFit
  <2>5. SharesFit(t, y, extra)'
    BY <2>3, <2>4 DEF SharesFit
  <2> QED
    BY <2>5
<1>3. CASE t \notin Claim(i)
  <2>1. SharesFit(t, share, extra)'
    BY <1>1, <1>3 DEF SharesFit
  <2> QED
    BY <2>1
<1> QED
  BY <1>2, <1>3

(* One step of any planner or update keeps the shares. *)
LEMMA StepShares == CapacityTypeOK /\ SharesInv /\ [CapacityNext]_capacityVars => SharesInv'
<1> SUFFICES ASSUME CapacityTypeOK, SharesInv, [CapacityNext]_capacityVars, NEW t \in CapTypes
             PROVE  \E s \in [Planners -> SUBSET Items], e \in SUBSET Items : SharesFit(t, s, e)'
  BY DEF SharesInv
<1>1. PICK share \in [Planners -> SUBSET Items], extra \in SUBSET Items :
        SharesFit(t, share, extra)
  BY DEF SharesInv
<1>2. ASSUME NEW p \in Planners, BeginPlan(p)
      PROVE  \E s \in [Planners -> SUBSET Items], e \in SUBSET Items : SharesFit(t, s, e)'
  BY <1>1, <1>2, SharesBegin
<1>3. ASSUME NEW p \in Planners, NEW i \in Items, ReserveNew(p, i)
      PROVE  \E s \in [Planners -> SUBSET Items], e \in SUBSET Items : SharesFit(t, s, e)'
  BY <1>1, <1>3, SharesReserve
<1>4. ASSUME Reach(t)' \subseteq Reach(t), busy' \subseteq busy,
             \A p \in busy' : used'[p] = used[p]
      PROVE  \E s \in [Planners -> SUBSET Items], e \in SUBSET Items : SharesFit(t, s, e)'
  <2>1. SharesFit(t, share, extra)'
    BY <1>1, <1>4 DEF SharesFit
  <2> QED
    BY <2>1
<1>5. \/ \E p \in Planners : BeginPlan(p)
      \/ \E p \in Planners, i \in Items : ReserveNew(p, i)
      \/ busy' \subseteq busy /\ \A p \in busy' : used'[p] = used[p]
  BY DEF CapacityNext, capacityVars, call, CapacityTypeOK, EndPlan, ReserveRefused,
         ReserveExisting, ReserveBlocked, Settle, BeginRenewal, WriteRenewal, LoseRenewal
<1> QED
  BY <1>2, <1>3, <1>4, <1>5, ReachStep

(* Nothing is held at first. *)
LEMMA InitShares == CapacityInit => SharesInv
<1> SUFFICES ASSUME CapacityInit, NEW t \in CapTypes
             PROVE  \E s \in [Planners -> SUBSET Items], e \in SUBSET Items : SharesFit(t, s, e)
  BY DEF SharesInv
<1> DEFINE none == [p \in Planners |-> {}]
<1>1. none \in [Planners -> SUBSET Items] /\ busy = {} /\ \A p \in Planners : none[p] = {}
  BY DEF CapacityInit
<1>2. Reach(t) = {}
  BY CapacityAssumption DEF CapacityInit, Reach
<1>3. Cardinality({}) = 0 /\ Cap[t] \in Nat /\ Cardinality(Updaters) \in Nat
  BY CapacityAssumption, FS_EmptySet, FS_CardinalityType
<1> HIDE DEF none
<1>4. SharesFit(t, none, {})
  BY <1>1, <1>2, <1>3 DEF SharesFit
<1> QED
  BY <1>1, <1>4

(* Plans that overlap hold one cap each at most, and renewals that come    *)
(* too late one item each, never more.                                     *)
THEOREM OvershootBoundedHolds == CapacitySpec => []OvershootBounded
<1>1. CapacityInit => CapacityTypeOK /\ SharesInv
  BY CapacityInitTyped, InitShares
<1>2. CapacityTypeOK /\ SharesInv /\ [CapacityNext]_capacityVars => (CapacityTypeOK /\ SharesInv)'
  BY CapacityStepTyped, StepShares
<1>3. SharesInv => OvershootBounded
  BY SharesBound DEF SharesInv, OvershootBounded
<1> QED
  BY <1>1, <1>2, <1>3, PTL DEF CapacitySpec

(* The caps of a day under any calls: kept by calls that follow one        *)
(* another, passed by no more than the number of the calls that race by    *)
(* the others.                                                             *)
THEOREM CapsKeptHolds == CapacitySpec => []CapsKept
BY WithinCapsHolds, ReopeningsBoundedHolds, OvershootBoundedHolds, PTL DEF CapsKept
=============================================================================
