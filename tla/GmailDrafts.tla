---------------------------- MODULE GmailDrafts ----------------------------
(***************************************************************************)
(* The Gmail draft boundary, step11_gmail_drafts.py: approving, creating,  *)
(* verifying and reconciling external drafts, by processes that share one  *)
(* database file and may die between two commits.  There is at most one    *)
(* run per draft version, so a draft stands for its run.                   *)
(***************************************************************************)
EXTENDS Naturals, Sequences, FiniteSets

CONSTANTS
  Procs,
  Drafts,       \* personalized drafts, each with its own recipient and text
  None,         \* the local that names no draft
  Cap,          \* gmail_draft_daily_cap
  MaxDay,       \* bound: UTC days
  MaxAttempts,  \* bound: CREATE_DRAFT attempts per run
  MaxCrashes    \* bound: process deaths in one behaviour

ASSUME GmailAssumption ==
  /\ None \notin Drafts /\ IsFiniteSet(Drafts)
  /\ Cap \in Nat \ {0} /\ MaxDay \in Nat \ {0}
  /\ MaxAttempts \in Nat /\ MaxCrashes \in Nat

VARIABLES
  approval,   \* gmail_draft_creation_approvals.status
  run,        \* gmail_draft_creation_runs.state
  idKnown,    \* the run's external_draft_id is not NULL
  attempts,   \* statuses of the CREATE_DRAFT attempts, by number
  mapping,    \* gmail_external_draft_mappings.state
  mappedOn,   \* day of mapped_at, 0 without a mapping
  mailbox,    \* external drafts that exist; the id follows from the content
  creations,  \* how often the provider was asked and did create
  day,
  pc, op, draft, sawState, number, answer, now,  \* a process's locals
  crashes,
  overlapped  \* history: two calls have been in progress at once

runRow   == <<approval, run, idKnown>>
mapRow   == <<mapping, mappedOn>>
table    == <<runRow, attempts, mapRow>>
provider == <<mailbox, creations>>
call     == <<op, draft, sawState, number, answer, now>>
history  == <<crashes, overlapped>>
vars     == <<table, provider, day, pc, call, history>>

Approvals  == {"NONE", "APPROVED", "INVALIDATED"}
MapStates  == {"NONE", "EXTERNAL_DRAFT_CREATED", "READY_FOR_MANUAL_SEND",
               "HOLD_FOR_RECONCILIATION"}
RunStates  == MapStates \union
              {"APPROVED_FOR_DRAFT_CREATION", "DRAFT_CREATION_PENDING", "BLOCKED"}
Statuses   == {"STARTED", "SUCCEEDED", "FAILED", "UNKNOWN_EXTERNAL_STATE"}
Operations == {"none", "create", "verify", "reconcile"}

(* What the provider may answer.  To create_draft: the record; a record    *)
(* without an id; an exception that carries the id, or none.  To           *)
(* get_draft: a record that is as approved, or differs; None; an exception.*)
CreateAnswers == {"ok", "malformed", "unknown_with_id", "unknown"}
GetAnswers    == {"match", "mismatch", "not_found", "error"}

-----------------------------------------------------------------------------
MappedSince(d) == {x \in Drafts : mappedOn[x] >= d}

(* GMAIL_DRAFT_DAILY_CAP_REACHED. *)
CapReached(d) == Cardinality(MappedSince(d)) >= Cap

(* UNIQUE (run_id, action, attempt_number).  Seeded fault: it is gone, and *)
(* an insert of a taken number replaces the row.                           *)
AnyNumber(x, n) == n <= Len(attempts[x]) + 1
NumberFree(x, n) == n = Len(attempts[x]) + 1

(* What a create call still goes on with.  Seeded fault: a mapped draft is *)
(* not returned as it is.                                                  *)
RunOpen(x) == run[x] \notin {"HOLD_FOR_RECONCILIATION", "BLOCKED"}
Creatable(x) == mapping[x] = "NONE" /\ RunOpen(x)

(* The draft is known not to exist.  Seeded fault: so it is when the       *)
(* provider cannot be asked.                                               *)
NotFoundOrError(a) == a \in {"not_found", "error"}
NotFound(a) == a = "not_found"

(* What a creation attempt becomes. *)
AttemptStatus(a) ==
  IF a \in {"unknown", "unknown_with_id"} THEN "UNKNOWN_EXTERNAL_STATE"
  ELSE "SUCCEEDED"

Goto(p, label) == pc' = [pc EXCEPT ![p] = label]

Return(p) ==
  /\ Goto(p, "idle")
  /\ op'       = [op EXCEPT ![p] = "none"]
  /\ draft'    = [draft EXCEPT ![p] = None]
  /\ sawState' = [sawState EXCEPT ![p] = "NONE"]
  /\ number'   = [number EXCEPT ![p] = 0]
  /\ answer'   = [answer EXCEPT ![p] = "none"]
  /\ now'      = [now EXCEPT ![p] = 0]

(* Every operation fixes the current time and reads its run first. *)
Begins(p, o, x, label) ==
  /\ pc[p] = "idle"
  /\ Goto(p, label)
  /\ op'       = [op EXCEPT ![p] = o]
  /\ draft'    = [draft EXCEPT ![p] = x]
  /\ sawState' = [sawState EXCEPT ![p] = run[x]]
  /\ now'      = [now EXCEPT ![p] = day]
  /\ overlapped' = (overlapped \/ \E q \in Procs : pc[q] # "idle")
  /\ UNCHANGED <<table, provider, day, number, answer, crashes>>

SetRun(x, s) == run' = [run EXCEPT ![x] = s]
SetBoth(x, s) == SetRun(x, s) /\ mapping' = [mapping EXCEPT ![x] = s]

Init ==
  /\ approval = [x \in Drafts |-> "NONE"]
  /\ run = [x \in Drafts |-> "NONE"]
  /\ idKnown = [x \in Drafts |-> FALSE]
  /\ attempts = [x \in Drafts |-> << >>]
  /\ mapping = [x \in Drafts |-> "NONE"]
  /\ mappedOn = [x \in Drafts |-> 0]
  /\ mailbox = {} /\ creations = [x \in Drafts |-> 0]
  /\ day = 1
  /\ pc = [p \in Procs |-> "idle"]
  /\ op = [p \in Procs |-> "none"]
  /\ draft = [p \in Procs |-> None]
  /\ sawState = [p \in Procs |-> "NONE"]
  /\ number = [p \in Procs |-> 0]
  /\ answer = [p \in Procs |-> "none"]
  /\ now = [p \in Procs |-> 0]
  /\ crashes = 0 /\ overlapped = FALSE

-----------------------------------------------------------------------------
(* approve_gmail_draft_creation: approval and run in one commit.  A draft  *)
(* that has a run is never approved anew: an APPROVED approval is reused,  *)
(* after an INVALIDATED one the insert violates UNIQUE (draft, version).   *)
(* Reads and commit are one action: a mapping recorded between them might  *)
(* as well have been recorded after it.                                    *)
Approve(x) ==
  /\ run[x] = "NONE" /\ ~CapReached(day)
  /\ approval' = [approval EXCEPT ![x] = "APPROVED"]
  /\ SetRun(x, "APPROVED_FOR_DRAFT_CREATION")
  /\ UNCHANGED <<idKnown, attempts, mapRow, provider, day, pc, call, history>>

-----------------------------------------------------------------------------
(* create_fixture_gmail_draft *)

BeginCreate(p, x) ==
  run[x] # "NONE" /\ Creatable(x) /\ Begins(p, "create", x, "check")

(* preview_gmail_draft_payload and _invalidate_if_changed.  Suppressions,  *)
(* evidence, campaign and configuration may have changed in any way; the   *)
(* cap depends on the mappings.  A preview that is not ready has no        *)
(* content hash, so it differs from the approved one: the approval is      *)
(* invalidated, also when only the cap is reached.  A payload that fails   *)
(* its own validation has one, and blocks the run alone.                   *)
CheckReadiness(p) ==
  /\ pc[p] = "check"
  /\ LET x == draft[p] IN
     \E preview \in {"ready", "invalid_payload", "not_ready"} :
       /\ CapReached(now[p]) => preview = "not_ready"
       /\ \/ /\ preview = "not_ready" \/ approval[x] # "APPROVED"
             /\ approval' = [approval EXCEPT ![x] = "INVALIDATED"]
             /\ SetRun(x, "BLOCKED") /\ Return(p)
          \/ /\ preview = "invalid_payload" /\ approval[x] = "APPROVED"
             /\ SetRun(x, "BLOCKED") /\ Return(p) /\ UNCHANGED approval
          \/ /\ preview = "ready" /\ approval[x] = "APPROVED"
             /\ \/ /\ sawState[p] = "APPROVED_FOR_DRAFT_CREATION"
                   /\ Goto(p, "count") /\ UNCHANGED call
                \/ /\ sawState[p] # "APPROVED_FOR_DRAFT_CREATION"
                   /\ Return(p)
             /\ UNCHANGED <<approval, run>>
  /\ UNCHANGED <<idKnown, attempts, mapRow, provider, day, history>>

(* _start_attempt reads the highest number ... *)
CountAttempts(p) ==
  /\ pc[p] = "count" /\ Len(attempts[draft[p]]) < MaxAttempts
  /\ number' = [number EXCEPT ![p] = Len(attempts[draft[p]]) + 1]
  /\ Goto(p, "start")
  /\ UNCHANGED <<table, provider, day, op, draft, sawState, answer, now, history>>

(* ... and inserts the next; a taken one ends the call: IntegrityError. *)
StartAttempt(p) ==
  /\ pc[p] = "start"
  /\ LET x == draft[p]  n == number[p] IN
     \/ /\ NumberFree(x, n)
        /\ attempts' = [attempts EXCEPT ![x] =
             IF n > Len(@) THEN Append(@, "STARTED") ELSE [@ EXCEPT ![n] = "STARTED"]]
        /\ Goto(p, "pending") /\ UNCHANGED call
     \/ ~NumberFree(x, n) /\ Return(p) /\ UNCHANGED attempts
  /\ UNCHANGED <<runRow, mapRow, provider, day, history>>

MarkPending(p) ==
  /\ pc[p] = "pending"
  /\ SetRun(draft[p], "DRAFT_CREATION_PENDING")
  /\ Goto(p, "call")
  /\ UNCHANGED <<approval, idKnown, attempts, mapRow, provider, day, call, history>>

(* Without an id it is open whether the draft exists. *)
CallCreate(p) ==
  /\ pc[p] = "call"
  /\ \E a \in CreateAnswers, made \in {0, 1} :
       /\ a \in {"ok", "unknown_with_id"} => made = 1
       /\ answer' = [answer EXCEPT ![p] = a]
       /\ creations' = [creations EXCEPT ![draft[p]] = @ + made]
       /\ mailbox' = IF made = 1 THEN mailbox \union {draft[p]} ELSE mailbox
  /\ Goto(p, "finish")
  /\ UNCHANGED <<table, day, op, draft, sawState, number, now, history>>

(* _finish_attempt, a commit of its own. *)
FinishAttempt(p) ==
  /\ pc[p] = "finish"
  /\ attempts' = [attempts EXCEPT ![draft[p]][number[p]] = AttemptStatus(answer[p])]
  /\ Goto(p, "record")
  /\ UNCHANGED <<runRow, mapRow, provider, day, call, history>>

(* _record_mapping; the mapping's idempotency_key is UNIQUE. *)
RecordMapping(x, d) ==
  /\ mapping[x] = "NONE"
  /\ SetBoth(x, "EXTERNAL_DRAFT_CREATED")
  /\ mappedOn' = [mappedOn EXCEPT ![x] = d]
  /\ idKnown' = [idKnown EXCEPT ![x] = TRUE]

RecordCreated(p) ==
  /\ pc[p] = "record" /\ answer[p] = "ok"
  /\ RecordMapping(draft[p], now[p])
  /\ Return(p)
  /\ UNCHANGED <<approval, attempts, provider, day, history>>

(* The outcome is unknown, or the mapping was refused.  Only the exception *)
(* that carries an id leaves one on the run.                               *)
HoldCreated(p) ==
  /\ pc[p] = "record"
  /\ LET x == draft[p] IN
     /\ answer[p] = "ok" => mapping[x] # "NONE"
     /\ SetRun(x, "HOLD_FOR_RECONCILIATION")
     /\ idKnown' = [idKnown EXCEPT ![x] =
          IF answer[p] \in {"unknown", "unknown_with_id"}
          THEN answer[p] = "unknown_with_id" ELSE @]
  /\ Return(p)
  /\ UNCHANGED <<approval, attempts, mapRow, provider, day, history>>

-----------------------------------------------------------------------------
(* verify_fixture_gmail_draft *)

BeginVerify(p, x) ==
  mapping[x] = "EXTERNAL_DRAFT_CREATED" /\ Begins(p, "verify", x, "get")

(* The GET_DRAFT attempt is announced before and finished after the call;  *)
(* nothing reads it.  Where its number is taken by an overlapping call,    *)
(* this one ends as if it had not been made.                               *)
CallGet(p) ==
  /\ pc[p] = "get"
  /\ \E a \in GetAnswers :
       /\ a \in {"match", "mismatch"} => draft[p] \in mailbox
       /\ a = "not_found" => draft[p] \notin mailbox
       /\ answer' = [answer EXCEPT ![p] = a]
  /\ Goto(p, op[p])
  /\ UNCHANGED <<table, provider, day, op, draft, sawState, number, now, history>>

(* _verify_record, or the hold after an exception: run and mapping go      *)
(* together.                                                               *)
Conclude(x, a) ==
  SetBoth(x, IF a = "match" THEN "READY_FOR_MANUAL_SEND"
             ELSE "HOLD_FOR_RECONCILIATION")

Verdict(p) ==
  /\ pc[p] \in {"verify", "verdict"}
  /\ Conclude(draft[p], answer[p])
  /\ Return(p)
  /\ UNCHANGED <<approval, idKnown, attempts, mappedOn, provider, day, history>>

-----------------------------------------------------------------------------
(* reconcile_unknown_gmail_draft: only a held run without a mapping.       *)
(* Without an id it adds an event that nothing reads.                      *)

BeginReconcile(p, x) ==
  /\ mapping[x] = "NONE" /\ run[x] = "HOLD_FOR_RECONCILIATION" /\ idKnown[x]
  /\ Begins(p, "reconcile", x, "get")

(* Nothing is there: creation is permitted again. *)
PermitRetry(p) ==
  /\ pc[p] = "reconcile" /\ NotFound(answer[p])
  /\ SetRun(draft[p], "APPROVED_FOR_DRAFT_CREATION")
  /\ idKnown' = [idKnown EXCEPT ![draft[p]] = FALSE]
  /\ Return(p)
  /\ UNCHANGED <<approval, attempts, mapRow, provider, day, history>>

GetFailed(p) ==
  /\ pc[p] = "reconcile" /\ answer[p] = "error" /\ ~NotFound(answer[p])
  /\ Return(p)
  /\ UNCHANGED <<table, provider, day, history>>

(* The mapping is recorded whatever the cap, then judged; a mapping        *)
(* somebody else recorded ends the call.                                   *)
RecordFound(p) ==
  /\ pc[p] = "reconcile" /\ answer[p] \in {"match", "mismatch"}
  /\ \/ /\ RecordMapping(draft[p], now[p])
        /\ Goto(p, "verdict") /\ UNCHANGED call
     \/ /\ mapping[draft[p]] # "NONE"
        /\ Return(p) /\ UNCHANGED <<run, idKnown, mapRow>>
  /\ UNCHANGED <<approval, attempts, provider, day, history>>

-----------------------------------------------------------------------------
(* The owner deletes a draft, or the provider's memory is gone. *)
Disappears(x) ==
  /\ x \in mailbox
  /\ mailbox' = mailbox \ {x}
  /\ UNCHANGED <<table, creations, day, pc, call, history>>

NextDay ==
  /\ day < MaxDay
  /\ day' = day + 1
  /\ UNCHANGED <<table, provider, pc, call, history>>

Crash(p) ==
  /\ pc[p] # "idle" /\ crashes < MaxCrashes
  /\ crashes' = crashes + 1
  /\ Return(p)
  /\ UNCHANGED <<table, provider, day, overlapped>>

Next ==
  \/ \E x \in Drafts : Approve(x) \/ Disappears(x)
  \/ \E p \in Procs, x \in Drafts :
       BeginCreate(p, x) \/ BeginVerify(p, x) \/ BeginReconcile(p, x)
  \/ \E p \in Procs :
       \/ CheckReadiness(p) \/ CountAttempts(p) \/ StartAttempt(p)
       \/ MarkPending(p) \/ CallCreate(p) \/ FinishAttempt(p)
       \/ RecordCreated(p) \/ HoldCreated(p) \/ CallGet(p) \/ Verdict(p)
       \/ PermitRetry(p) \/ GetFailed(p) \/ RecordFound(p) \/ Crash(p)
  \/ NextDay

Spec == Init /\ [][Next]_vars
-----------------------------------------------------------------------------
(* Properties *)

Labels == {"idle", "check", "count", "start", "pending", "call", "finish",
           "record", "get", "verify", "reconcile", "verdict"}

(* Type invariant of the tables, the mailbox and the locals. *)
TypeOK ==
  /\ approval \in [Drafts -> Approvals]
  /\ run \in [Drafts -> RunStates]
  /\ idKnown \in [Drafts -> BOOLEAN]
  /\ attempts \in [Drafts -> Seq(Statuses)]
  /\ \A x \in Drafts : Len(attempts[x]) <= MaxAttempts
  /\ mapping \in [Drafts -> MapStates]
  /\ mappedOn \in [Drafts -> 0..MaxDay]
  /\ mailbox \subseteq Drafts /\ creations \in [Drafts -> Nat]
  /\ day \in 1..MaxDay
  /\ pc \in [Procs -> Labels] /\ op \in [Procs -> Operations]
  /\ draft \in [Procs -> Drafts \union {None}]
  /\ sawState \in [Procs -> RunStates]
  /\ number \in [Procs -> 0..MaxAttempts]
  /\ answer \in [Procs -> CreateAnswers \union GetAnswers \union {"none"}]
  /\ now \in [Procs -> 0..MaxDay]
  /\ crashes \in Nat /\ overlapped \in BOOLEAN

(* Every draft the provider ever made has an attempt row of its own that   *)
(* does not call it failed, however calls overlap and die: the table is    *)
(* enough to find drafts the runs do not know of.                          *)
CreationsTraced ==
  \A x \in Drafts :
    creations[x] <= Cardinality({i \in 1..Len(attempts[x]) :
                                   attempts[x][i] # "FAILED"})

(* A run is ready for the manual send only while its mapping is, whoever   *)
(* verifies, creates or reconciles at the same time.                       *)
ReadyIsVerified ==
  \A x \in Drafts : run[x] = "READY_FOR_MANUAL_SEND" =>
                       mapping[x] = "READY_FOR_MANUAL_SEND"

(* Without overlapping calls run, mapping and approval tell one story: a   *)
(* mapped run has its mapping's state, a run without one is not past       *)
(* creation, and nothing is created under an invalidated approval.         *)
TablesAgree ==
  ~overlapped => \A x \in Drafts :
    /\ mapping[x] # "NONE" => run[x] = mapping[x]
    /\ mapping[x] = "NONE" =>
         run[x] \notin {"EXTERNAL_DRAFT_CREATED", "READY_FOR_MANUAL_SEND"}
    /\ approval[x] = "INVALIDATED" => run[x] = "BLOCKED"

(* Without overlapping calls the provider is never asked for a second      *)
(* draft while the first exists: not after a death at any commit, not      *)
(* after an unknown outcome, not after a reconciliation that found out     *)
(* nothing.                                                                *)
NoSecondDraft ==
  [][~overlapped' => \A x \in Drafts :
       creations'[x] > creations[x] => x \notin mailbox]_vars

(* Without overlapping calls the drafts of one day whose creation was      *)
(* confirmed keep the daily cap.  Those found by a reconciliation come on  *)
(* top: it does not ask for the cap.                                       *)
CapKept ==
  ~overlapped => \A d \in 1..MaxDay :
    Cardinality({x \in Drafts : mappedOn[x] = d /\
      \E i \in 1..Len(attempts[x]) : attempts[x][i] = "SUCCEEDED"}) <= Cap

(* No draft is lost from the attempts and none is called ready that is not *)
(* verified, whoever overlaps; without overlaps the tables agree and the   *)
(* daily cap is kept, wherever a process dies.                             *)
DraftsAccounted == CreationsTraced /\ ReadyIsVerified /\ TablesAgree /\ CapKept
=============================================================================
