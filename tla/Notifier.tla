------------------------------ MODULE Notifier ------------------------------
(***************************************************************************)
(* The notification outbox, notifier.py: queue_notification and            *)
(* reconcile_notification_outcome, run by processes that share one         *)
(* database file and may die between two commits.  Only calls that pass    *)
(* the configuration, route and text checks are modelled; the others       *)
(* return before the first write.                                          *)
(***************************************************************************)
EXTENDS Naturals, FiniteSets

CONSTANTS
  Procs,
  Sends, Edits,  \* message fingerprints, by action
  ExternalIds,   \* message ids of the chat platform
  ExternalId,    \* the id _message_result answers with for a fingerprint
  None,          \* the local that names no message or id
  MaxAttempts,   \* deliveries queue_notification grants: 2
  MaxCrashes,    \* bound: process deaths in one behaviour
  MaxBreaks      \* bound: attempts that fail after the message was shown

Messages == Sends \union Edits

ASSUME NotifierAssumption ==
  /\ Sends \intersect Edits = {}
  /\ ExternalId \in [Messages -> ExternalIds]
  /\ None \notin Messages \union ExternalIds
  /\ MaxAttempts \in Nat /\ MaxCrashes \in Nat /\ MaxBreaks \in Nat

VARIABLES
  row,        \* notification_outbox.state, "NONE" without a row
  attempts,   \* highest notification_attempts.attempt_number
  status,     \* notification_attempts.status by number
  mappings,   \* notification_message_mappings: <<message, external id>>
  delivered,  \* how often the platform really showed the message
  broken,     \* history: <<message, number>> that failed after showing it
  pc, msg, number, answer,  \* the locals of each process
  crashes,
  overlapped  \* history: two calls have been in progress at once

table  == <<row, attempts, status, mappings>>
locals == <<msg, number, answer>>
vars   == <<table, delivered, broken, pc, locals, crashes, overlapped>>

Settled  == {"SENT", "EDITED"}
States   == {"NONE", "QUEUED", "FAILED", "UNKNOWN"} \union Settled
Statuses == {"NONE", "STARTED", "SUCCEEDED", "FAILED", "UNKNOWN_EXTERNAL_STATE"}
Answers  == {"none", "ok", "unknown", "failed"}

(* Existing rows that are returned as they are.  Seeded fault: an unknown  *)
(* outcome is tried again.                                                 *)
SettledOnly(m) == row[m] \in Settled
Reused(m) == row[m] \in Settled \union {"UNKNOWN"}

(* UNIQUE (outbox_id, action, attempt_number) *)
NumberFree(m, n) == status[m][n] = "NONE"

(* UNIQUE (external_message_id) *)
IdFree(id) == \A m \in Messages : <<m, id>> \notin mappings

(* What an attempt without a verified answer becomes.  Seeded fault: the   *)
(* unknown outcome is recorded as a failure.                               *)
NeverKnown(a) == "FAILED"
AttemptStatus(a) == IF a = "unknown" THEN "UNKNOWN_EXTERNAL_STATE" ELSE "FAILED"

(* Rows whose outcome an operator's evidence may settle. *)
Reconcilable(m) == row[m] = "UNKNOWN"

Done(m) == IF m \in Sends THEN "SENT" ELSE "EDITED"

Goto(p, label) == pc' = [pc EXCEPT ![p] = label]
Return(p) == /\ Goto(p, "idle")
             /\ msg'    = [msg EXCEPT ![p] = None]
             /\ number' = [number EXCEPT ![p] = 0]
             /\ answer' = [answer EXCEPT ![p] = "none"]

Begins(p, m) ==
  /\ pc[p] = "idle"
  /\ msg' = [msg EXCEPT ![p] = m]
  /\ overlapped' = (overlapped \/ \E q \in Procs : pc[q] # "idle")

Init ==
  /\ row = [m \in Messages |-> "NONE"]
  /\ attempts = [m \in Messages |-> 0]
  /\ status = [m \in Messages |-> [n \in 1..MaxAttempts |-> "NONE"]]
  /\ mappings = {}
  /\ delivered = [m \in Messages |-> 0]
  /\ pc = [p \in Procs |-> "idle"]
  /\ msg = [p \in Procs |-> None]
  /\ number = [p \in Procs |-> 0]
  /\ answer = [p \in Procs |-> "none"]
  /\ broken = {} /\ crashes = 0 /\ overlapped = FALSE

-----------------------------------------------------------------------------
(* queue_notification *)

(* The id an edit names is one that was handed to the caller: by the call  *)
(* that sent the message, or by a send that passed no outbox.              *)
KnownId(m) ==
  m \in Edits =>
    \/ \E x \in mappings : x[2] = ExternalId[m]
    \/ \A k \in Sends : ExternalId[k] # ExternalId[m]

(* The row is looked up by fingerprint; a settled or unknown one ends the  *)
(* call (OUTBOX_REUSED) with nothing changed.                              *)
BeginQueue(p, m) ==
  /\ Begins(p, m) /\ ~Reused(m) /\ KnownId(m)
  /\ Goto(p, IF row[m] = "NONE" THEN "insert" ELSE "count")
  /\ UNCHANGED <<table, delivered, broken, number, answer, crashes>>

(* INSERT of the row; message_fingerprint is UNIQUE. *)
InsertRow(p) ==
  /\ pc[p] = "insert"
  /\ \/ /\ row[msg[p]] = "NONE"
        /\ row' = [row EXCEPT ![msg[p]] = "QUEUED"]
        /\ Goto(p, "count")
        /\ UNCHANGED locals
     \/ row[msg[p]] # "NONE" /\ Return(p) /\ UNCHANGED row
  /\ UNCHANGED <<attempts, status, mappings, delivered, broken, crashes, overlapped>>

(* MAX(attempt_number); at the limit the call ends: OUTBOX_RETRY_LIMIT. *)
CountAttempts(p) ==
  /\ pc[p] = "count"
  /\ \/ /\ attempts[msg[p]] < MaxAttempts
        /\ number' = [number EXCEPT ![p] = attempts[msg[p]] + 1]
        /\ Goto(p, "announce")
        /\ UNCHANGED <<msg, answer>>
     \/ attempts[msg[p]] >= MaxAttempts /\ Return(p)
  /\ UNCHANGED <<table, delivered, broken, crashes, overlapped>>

(* The attempt is committed before the backend is called, and the row goes *)
(* (back) to QUEUED, whatever it has become since it was read.             *)
Announce(p) ==
  /\ pc[p] = "announce"
  /\ LET m == msg[p]  n == number[p] IN
     \/ /\ NumberFree(m, n)
        /\ attempts' = [attempts EXCEPT ![m] = IF @ < n THEN n ELSE @]
        /\ status' = [status EXCEPT ![m][n] = "STARTED"]
        /\ row' = [row EXCEPT ![m] = "QUEUED"]
        /\ Goto(p, "deliver")
        /\ UNCHANGED locals
     \/ ~NumberFree(m, n) /\ Return(p) /\ UNCHANGED <<attempts, status, row>>
  /\ UNCHANGED <<mappings, delivered, broken, crashes, overlapped>>

(* The backend's answer.  "unknown": NotifierExternalStateUnknown, or an   *)
(* answer _verify_external_message rejects; "failed": any other exception, *)
(* or no such method.  In both cases the message may have been shown: a    *)
(* backend can also raise after it showed it, in flush() behind print() or *)
(* while it records the answer.                                            *)
Deliver(p) ==
  /\ pc[p] = "deliver"
  /\ \E shown \in {0, 1}, a \in Answers \ {"none"} :
       /\ a = "ok" => shown = 1
       /\ \/ /\ a = "failed" /\ shown = 1 /\ Cardinality(broken) < MaxBreaks
             /\ broken' = broken \union {<<msg[p], number[p]>>}
          \/ (a = "failed" => shown = 0) /\ UNCHANGED broken
       /\ delivered' = [delivered EXCEPT ![msg[p]] = @ + shown]
       /\ answer' = [answer EXCEPT ![p] = a]
  /\ Goto(p, "record")
  /\ UNCHANGED <<table, msg, number, crashes, overlapped>>

RecordUnsettled(p) ==
  /\ pc[p] = "record" /\ answer[p] \in {"unknown", "failed"}
  /\ status' = [status EXCEPT ![msg[p]][number[p]] = AttemptStatus(answer[p])]
  /\ row' = [row EXCEPT ![msg[p]] =
               IF answer[p] = "unknown" THEN "UNKNOWN" ELSE "FAILED"]
  /\ Return(p)
  /\ UNCHANGED <<attempts, mappings, delivered, broken, crashes, overlapped>>

(* Attempt, row and mapping are one transaction: a taken external id rolls *)
(* all three back and the call ends with an IntegrityError.                *)
RecordSuccess(p) ==
  /\ pc[p] = "record" /\ answer[p] = "ok"
  /\ LET m == msg[p]  id == ExternalId[m] IN
     \/ /\ IdFree(id)
        /\ status' = [status EXCEPT ![m][number[p]] = "SUCCEEDED"]
        /\ row' = [row EXCEPT ![m] = Done(m)]
        /\ mappings' = mappings \union {<<m, id>>}
     \/ ~IdFree(id) /\ UNCHANGED <<status, row, mappings>>
  /\ Return(p)
  /\ UNCHANGED <<attempts, delivered, broken, crashes, overlapped>>

-----------------------------------------------------------------------------
(* reconcile_notification_outcome: the row is read, then settled from the  *)
(* operator's evidence.  Evidence is honest (the message was shown), but   *)
(* its id is not checked; mismatching evidence leaves the outbox alone.    *)

BeginReconcile(p, m) ==
  /\ Begins(p, m) /\ Reconcilable(m) /\ delivered[m] > 0
  /\ Goto(p, "settle")
  /\ UNCHANGED <<table, delivered, broken, number, answer, crashes>>

SettleByEvidence(p) ==
  /\ pc[p] = "settle"
  /\ \E id \in ExternalIds :
       \/ /\ IdFree(id)
          /\ row' = [row EXCEPT ![msg[p]] = Done(msg[p])]
          /\ mappings' = mappings \union {<<msg[p], id>>}
       \/ ~IdFree(id) /\ UNCHANGED <<row, mappings>>
  /\ Return(p)
  /\ UNCHANGED <<attempts, status, delivered, broken, crashes, overlapped>>

-----------------------------------------------------------------------------
Crash(p) ==
  /\ pc[p] # "idle" /\ crashes < MaxCrashes
  /\ crashes' = crashes + 1
  /\ Return(p)
  /\ UNCHANGED <<table, delivered, broken, overlapped>>

Next ==
  \/ \E p \in Procs, m \in Messages : BeginQueue(p, m) \/ BeginReconcile(p, m)
  \/ \E p \in Procs :
       \/ InsertRow(p) \/ CountAttempts(p) \/ Announce(p) \/ Deliver(p)
       \/ RecordUnsettled(p) \/ RecordSuccess(p) \/ SettleByEvidence(p)
       \/ Crash(p)

Spec == Init /\ [][Next]_vars
-----------------------------------------------------------------------------
(* Properties *)

Labels == {"idle", "insert", "count", "announce", "deliver", "record", "settle"}

(* Type invariant of the outbox tables and of the locals. *)
TypeOK ==
  /\ row \in [Messages -> States]
  /\ attempts \in [Messages -> 0..MaxAttempts]
  /\ status \in [Messages -> [1..MaxAttempts -> Statuses]]
  /\ mappings \subseteq Messages \X ExternalIds
  /\ delivered \in [Messages -> Nat]
  /\ broken \subseteq Messages \X (1..MaxAttempts)
  /\ pc \in [Procs -> Labels]
  /\ msg \in [Procs -> Messages \union {None}]
  /\ number \in [Procs -> 0..MaxAttempts]
  /\ answer \in [Procs -> Answers]
  /\ crashes \in Nat /\ overlapped \in BOOLEAN

(* However calls for one fingerprint interleave and die, the platform      *)
(* shows the message no more often than attempts are granted.              *)
DeliveriesBounded == \A m \in Messages : delivered[m] <= MaxAttempts

(* Every time a message was shown is an attempt of its own, also the times *)
(* whose answer a crash, an unknown outcome or a refused mapping kept from *)
(* the outbox row, and only an attempt whose backend raised after it had   *)
(* shown the message denies that it did (FAILED).                          *)
DeliveriesTraced ==
  \A m \in Messages :
    delivered[m] <= Cardinality({n \in 1..MaxAttempts :
                                   \/ status[m][n] \notin {"NONE", "FAILED"}
                                   \/ <<m, n>> \in broken})

(* Two overlapping calls may both show a message, but only one of them can *)
(* be recorded as its delivery.                                            *)
OneSuccess ==
  \A m \in Messages :
    Cardinality({n \in 1..MaxAttempts : status[m][n] = "SUCCEEDED"}) <= 1

(* Without overlapping calls an outcome stands: a settled or unknown       *)
(* message is not shown again, and an unknown one is settled only together *)
(* with its mapping.                                                       *)
OutcomeStands ==
  [][~overlapped' => \A m \in Messages :
       row[m] \in Settled \union {"UNKNOWN"} =>
       /\ delivered'[m] = delivered[m]
       /\ \/ row'[m] = row[m]
          \/ /\ row[m] = "UNKNOWN" /\ row'[m] \in Settled
             /\ \E id \in ExternalIds : <<m, id>> \in mappings' \ mappings]_vars

(* Without overlapping calls a message is settled exactly when it has a    *)
(* mapping, and then it has one.                                           *)
SettledIffMapped ==
  ~overlapped => \A m \in Messages :
    Cardinality({x \in mappings : x[1] = m}) =
      IF row[m] \in Settled THEN 1 ELSE 0

(* The tables account for what the platform showed: how often, under which *)
(* attempt, and under which mapping once it is settled.                    *)
DeliveriesAccounted ==
  TypeOK /\ DeliveriesBounded /\ DeliveriesTraced /\ OneSuccess /\ SettledIffMapped

(* README.md and the module's docstring: a retried stage never delivers    *)
(* the same message twice.                                                 *)
NeverDoubleDelivers == \A m \in Messages : delivered[m] <= 1
=============================================================================
