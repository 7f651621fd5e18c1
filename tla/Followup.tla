------------------------------ MODULE Followup ------------------------------
(***************************************************************************)
(* The lifecycle of one follow-up sequence, step12_followup.py: manual     *)
(* sends, due follow-ups, replies and the operator's decisions.            *)
(*                                                                         *)
(* A call reads the sequence and then makes a list of separate commits;    *)
(* the list is decided by what was read.  So a process is the list of      *)
(* commits it still has to make (plan), and a crash forgets the list.      *)
(* Calls the configuration or the daily cap turns away change nothing and  *)
(* are left out; the sequence has a cadence (without one nothing is due).  *)
(***************************************************************************)
EXTENDS Naturals, Sequences, FiniteSets

CONSTANTS
  Procs,
  Replies,    \* provider_event_id of the replies that may arrive
  Kinds,      \* what a reply is: [cat |-> category, explicit |-> BOOLEAN]
  NoReply,
  MaxTouches, \* FOLLOWUP_MAX_TOTAL_TOUCHES
  MaxCrashes  \* bound: process deaths in one behaviour

Categories == {"POSITIVE_INTEREST", "QUESTION_OR_NEUTRAL", "NOT_INTERESTED",
               "OPT_OUT", "OUT_OF_OFFICE", "SOFT_BOUNCE", "HARD_BOUNCE", "UNKNOWN"}

ASSUME FollowupAssumption ==
  /\ Kinds \subseteq [cat : Categories, explicit : BOOLEAN]
  /\ NoReply \notin [cat : Categories, explicit : BOOLEAN]
  /\ MaxTouches \in Nat \ {0} /\ MaxCrashes \in Nat

VARIABLES
  state, count, due,  \* followup_sequences: state, current_touch_count and
                      \* next_due_at ("none", "future" or "past")
  touches,     \* followup_sent_touches: rows by touch number
  action,      \* followup_actions.state by touch number, "NONE" without row
  reservation, \* followup_capacity_reservations.reservation_state
  reply,       \* followup_reply_events: category and explicit_opt_out
  suppressed,  \* is_suppressed for the lead and its address
  audited,     \* to_state of the last followup_lifecycle_transitions row
  plan,        \* process -> the commits its call still has to make
  crashes,
  overlapped   \* history: two calls have been in progress at once

sequence == <<state, count, due>>
actions  == <<action, reservation>>
events   == <<reply, suppressed>>
tables   == <<sequence, touches, actions, events, audited>>
vars     == <<tables, plan, crashes, overlapped>>

Terminal == {"CLOSED_POSITIVE", "CLOSED_NOT_INTERESTED", "CLOSED_NO_RESPONSE",
             "SUPPRESSED"}
States == Terminal \union
  {"NONE", "AWAITING_MANUAL_SEND", "WAITING_FOR_REPLY",
   "FOLLOWUP_ELIGIBILITY_PENDING", "FOLLOWUP_DUE", "FOLLOWUP_DRAFT_REQUESTED",
   "FOLLOWUP_REVIEW_PENDING", "HUMAN_ACTION_REQUIRED", "BOUNCE_HOLD",
   "OUT_OF_OFFICE_HOLD", "HOLD_FOR_REVIEW"}
ActionStates == {"NONE", "DUE", "REQUESTED", "READY", "CONSUMED", "CANCELLED",
                 "INVALIDATED"}
ReservationStates == {"NONE", "RESERVED", "CONSUMED", "CANCELLED"}
Pending == {"DUE", "REQUESTED", "READY"}
Followups == 2..MaxTouches

-----------------------------------------------------------------------------
(* The commits of a call. *)

Write(to, newDue) == [do |-> "state", to |-> to, due |-> newDue]
Log(to)           == [do |-> "log", to |-> to]
OnTouch(what, n)  == [do |-> what, n |-> n]
OnReply(what, r, k) == [do |-> what, reply |-> r, kind |-> k]
Plain(what)       == [do |-> what]

(* _set_state: the row, then the audit row unless the state is the same.   *)
(* Seeded fault: the first is taken for both.                              *)
WriteOnly(to, newDue) == <<Write(to, newDue)>>
SetState(to, newDue) ==
  <<Write(to, newDue)>> \o IF state = to THEN <<>> ELSE <<Log(to)>>

(* The rows _cancel_actions selects.  Seeded fault: READY is forgotten. *)
NotYetReady(n) == action[n] \in {"DUE", "REQUESTED"}
Cancellable(n) == action[n] \in Pending

(* Its second UPDATE. *)
Freed(r) == IF r = "RESERVED" THEN "CANCELLED" ELSE r

(* is_suppressed before a send is recorded.  Seeded fault: not asked. *)
NeverBlocked == FALSE
SendBlocked == suppressed

(* UNIQUE (sequence_id, touch_number) *)
NewTouch(n) == touches[n] = 0

(* A closed sequence is not due and cannot be closed again. *)
Open == state \notin Terminal

(* Categories that count even when the sequence is over.  Seeded fault: a  *)
(* hard bounce alone.                                                      *)
OverridesBounce(k) == k.cat = "HARD_BOUNCE"
Overrides(k) == k.cat \in {"OPT_OUT", "HARD_BOUNCE"}

Suppresses(k) ==
  \/ k.cat \in {"OPT_OUT", "HARD_BOUNCE"}
  \/ k.cat = "NOT_INTERESTED" /\ k.explicit

(* The sequence's state after a reply. *)
StateAfter(k) ==
  CASE Suppresses(k) -> "SUPPRESSED"
    [] k.cat = "NOT_INTERESTED" /\ ~k.explicit -> "CLOSED_NOT_INTERESTED"
    [] k.cat \in {"POSITIVE_INTEREST", "QUESTION_OR_NEUTRAL"} ->
         "HUMAN_ACTION_REQUIRED"
    [] k.cat = "OUT_OF_OFFICE" -> "OUT_OF_OFFICE_HOLD"
    [] k.cat = "SOFT_BOUNCE" -> "BOUNCE_HOLD"
    [] k.cat = "UNKNOWN" -> "HOLD_FOR_REVIEW"

(* _apply_reply_category *)
ApplyReply(k) ==
  <<Plain("cancel")>> \o
    IF ~Open /\ ~Overrides(k) THEN <<>>
    ELSE (IF Suppresses(k) THEN <<Plain("suppress")>> ELSE <<>>)
           \o SetState(StateAfter(k), "none")

-----------------------------------------------------------------------------
Idle(p) == plan[p] = <<>>
Quiet   == \A p \in Procs : Idle(p)

Begin(p, commits) ==
  /\ Idle(p)
  /\ plan' = [plan EXCEPT ![p] = commits]
  /\ overlapped' = (overlapped \/ ~Quiet)
  /\ UNCHANGED <<tables, crashes>>

Init ==
  /\ state = "NONE" /\ count = 0 /\ due = "none"
  /\ touches = [n \in 1..MaxTouches |-> 0]
  /\ action = [n \in Followups |-> "NONE"]
  /\ reservation = [n \in Followups |-> "NONE"]
  /\ reply = [r \in Replies |-> NoReply]
  /\ suppressed = FALSE
  /\ audited = "NONE"
  /\ plan = [p \in Procs |-> <<>>]
  /\ crashes = 0 /\ overlapped = FALSE

(* initialize_followup_sequence; UNIQUE (source_gmail_run_id). *)
Initialize(p) ==
  state = "NONE" /\ Begin(p, <<Plain("initialize"), Log("AWAITING_MANUAL_SEND")>>)

(* record_manual_send with a new idempotency key (a used one changes       *)
(* nothing): suppression is looked at before the state is, and a stale     *)
(* source, another state or the third touch end the call.                  *)
RecordManualSend(p) ==
  /\ state # "NONE"
  /\ \/ SendBlocked /\ Begin(p, SetState("SUPPRESSED", due))
     \/ /\ ~SendBlocked
        /\ state = "AWAITING_MANUAL_SEND" /\ count < MaxTouches
        /\ Begin(p, <<OnTouch("touch", count + 1),
                      Log(IF count + 1 = MaxTouches THEN "CLOSED_NO_RESPONSE"
                                                    ELSE "WAITING_FOR_REPLY")>>
                    \o IF count = 0 THEN <<>>
                       ELSE <<OnTouch("consume", count + 1)>>)

(* process_due_followups, up to its second look at the row. *)
ProcessDue(p) ==
  /\ state # "NONE" /\ Open
  /\ \/ suppressed /\ Begin(p, <<Plain("cancel")>> \o SetState("SUPPRESSED", due))
     \/ /\ ~suppressed /\ count > 0 /\ due = "past"
        /\ Begin(p, SetState("FOLLOWUP_ELIGIBILITY_PENDING", due)
                      \o <<Plain("recheck")>>)

(* request_followup_draft: the source may have gone stale. *)
RequestDraft(p, n) ==
  /\ action[n] = "DUE"
  /\ \/ Begin(p, <<OnTouch("invalidate", n)>> \o SetState("HOLD_FOR_REVIEW", due))
     \/ /\ ~suppressed
        /\ Begin(p, SetState("FOLLOWUP_DRAFT_REQUESTED", due)
                      \o <<OnTouch("request", n), Log("FOLLOWUP_REVIEW_PENDING")>>)

(* mark_followup_ready_for_manual_send *)
MarkReady(p, n) ==
  /\ action[n] = "REQUESTED"
  /\ Begin(p, <<OnTouch("ready", n), Log("AWAITING_MANUAL_SEND")>>)

(* ingest_fixture_reply and record_manual_reply_event: a known event id is *)
(* returned as it is; what to do is decided by the sequence as it was read *)
(* before the event was written.                                           *)
IngestReply(p, r, k) ==
  /\ state # "NONE" /\ reply[r] = NoReply
  /\ Begin(p, <<OnReply("event", r, k)>> \o ApplyReply(k))

(* classify_fixture_reply: the operator names the category of an UNKNOWN   *)
(* reply; its explicit_opt_out stays as it was.                            *)
Classify(p, r, cat) ==
  /\ reply[r] # NoReply /\ reply[r].cat = "UNKNOWN" /\ cat # "UNKNOWN"
  /\ LET k == [cat |-> cat, explicit |-> reply[r].explicit] IN
     Begin(p, <<OnReply("classify", r, k), OnReply("apply", r, k)>>)

(* cancel_pending_followup_actions *)
CancelPending(p) ==
  /\ state # "NONE"
  /\ Begin(p, <<Plain("cancel")>> \o
                IF Open THEN SetState("HOLD_FOR_REVIEW", due) ELSE <<>>)

(* close_no_response_sequence *)
CloseNoResponse(p) ==
  /\ state # "NONE" /\ Open
  /\ Begin(p, <<Plain("cancel")>> \o SetState("CLOSED_NO_RESPONSE", due))
-----------------------------------------------------------------------------
(* The commits themselves. *)

Next1(p, what) == ~Idle(p) /\ Head(plan[p]).do = what
Step(p)  == plan' = [plan EXCEPT ![p] = Tail(@)]
Abort(p) == plan' = [plan EXCEPT ![p] = <<>>]
Commit(p) == Head(plan[p])

CommitInitialize(p) ==
  /\ Next1(p, "initialize")
  /\ \/ state = "NONE" /\ state' = "AWAITING_MANUAL_SEND" /\ Step(p)
     \/ state # "NONE" /\ Abort(p) /\ UNCHANGED state
  /\ UNCHANGED <<count, due, touches, actions, events, audited, crashes,
                 overlapped>>

(* The UPDATE of the state, whatever the row has become since it was read; *)
(* only a reply writes next_due_at.                                        *)
CommitState(p) ==
  /\ Next1(p, "state")
  /\ state' = Commit(p).to
  /\ due' = IF Commit(p).due = "none" THEN "none" ELSE due
  /\ Step(p)
  /\ UNCHANGED <<count, touches, actions, events, audited, crashes, overlapped>>

CommitLog(p) ==
  /\ Next1(p, "log")
  /\ audited' = Commit(p).to
  /\ Step(p)
  /\ UNCHANGED <<sequence, touches, actions, events, crashes, overlapped>>

(* Touch row and sequence in one transaction. *)
CommitTouch(p) ==
  /\ Next1(p, "touch")
  /\ LET n == Commit(p).n IN
     \/ /\ NewTouch(n)
        /\ touches' = [touches EXCEPT ![n] = @ + 1]
        /\ count' = n
        /\ due' = IF n = MaxTouches THEN "none" ELSE "future"
        /\ state' = IF n = MaxTouches THEN "CLOSED_NO_RESPONSE"
                                      ELSE "WAITING_FOR_REPLY"
        /\ Step(p)
     \/ ~NewTouch(n) /\ Abort(p) /\ UNCHANGED <<sequence, touches>>
  /\ UNCHANGED <<actions, events, audited, crashes, overlapped>>

CommitConsume(p) ==
  /\ Next1(p, "consume")
  /\ LET n == Commit(p).n IN
     IF action[n] = "NONE" THEN UNCHANGED actions
     ELSE /\ action' = [action EXCEPT ![n] = "CONSUMED"]
          /\ reservation' = [reservation EXCEPT ![n] = "CONSUMED"]
  /\ Step(p)
  /\ UNCHANGED <<sequence, touches, events, audited, crashes, overlapped>>

(* _cancel_actions *)
CommitCancel(p) ==
  /\ Next1(p, "cancel")
  /\ action' = [n \in Followups |->
                  IF Cancellable(n) THEN "CANCELLED" ELSE action[n]]
  /\ reservation' = [n \in Followups |->
                  IF Cancellable(n) THEN Freed(reservation[n]) ELSE reservation[n]]
  /\ Step(p)
  /\ UNCHANGED <<sequence, touches, events, audited, crashes, overlapped>>

(* process_due_followups reads the row again and decides the rest. *)
Recheck(p) ==
  /\ Next1(p, "recheck")
  /\ \/ plan' = [plan EXCEPT ![p] =
                   <<Plain("cancel")>> \o SetState("HOLD_FOR_REVIEW", due)]
     \/ /\ ~suppressed
        /\ IF count + 1 \in Followups /\ action[count + 1] = "NONE"
           THEN plan' = [plan EXCEPT ![p] =
                           <<OnTouch("reserve", count + 1), Log("FOLLOWUP_DUE")>>]
           ELSE Abort(p)
  /\ UNCHANGED <<tables, crashes, overlapped>>

(* Action, reservation and state in one; UNIQUE (sequence_id, touch_number) *)
CommitReserve(p) ==
  /\ Next1(p, "reserve")
  /\ LET n == Commit(p).n IN
     \/ /\ action[n] = "NONE"
        /\ action' = [action EXCEPT ![n] = "DUE"]
        /\ reservation' = [reservation EXCEPT ![n] = "RESERVED"]
        /\ state' = "FOLLOWUP_DUE"
        /\ Step(p)
     \/ action[n] # "NONE" /\ Abort(p) /\ UNCHANGED <<actions, state>>
  /\ UNCHANGED <<count, due, touches, events, audited, crashes, overlapped>>

(* These three update the action by its id, whatever its state is by now. *)
CommitInvalidate(p) ==
  /\ Next1(p, "invalidate")
  /\ action' = [action EXCEPT ![Commit(p).n] = "INVALIDATED"]
  /\ reservation' = [reservation EXCEPT ![Commit(p).n] = "CANCELLED"]
  /\ Step(p)
  /\ UNCHANGED <<sequence, touches, events, audited, crashes, overlapped>>

CommitRequest(p) ==
  /\ Next1(p, "request")
  /\ action' = [action EXCEPT ![Commit(p).n] = "REQUESTED"]
  /\ state' = "FOLLOWUP_REVIEW_PENDING"
  /\ Step(p)
  /\ UNCHANGED <<count, due, touches, reservation, events, audited, crashes,
                 overlapped>>

CommitReady(p) ==
  /\ Next1(p, "ready")
  /\ action' = [action EXCEPT ![Commit(p).n] = "READY"]
  /\ state' = "AWAITING_MANUAL_SEND"
  /\ Step(p)
  /\ UNCHANGED <<count, due, touches, reservation, events, audited, crashes,
                 overlapped>>

(* provider_event_id is UNIQUE. *)
CommitEvent(p) ==
  /\ Next1(p, "event")
  /\ LET r == Commit(p).reply IN
     \/ /\ reply[r] = NoReply
        /\ reply' = [reply EXCEPT ![r] = Commit(p).kind]
        /\ Step(p)
     \/ reply[r] # NoReply /\ Abort(p) /\ UNCHANGED reply
  /\ UNCHANGED <<sequence, touches, actions, suppressed, audited, crashes,
                 overlapped>>

CommitClassify(p) ==
  /\ Next1(p, "classify")
  /\ reply' = [reply EXCEPT ![Commit(p).reply] = Commit(p).kind]
  /\ Step(p)
  /\ UNCHANGED <<sequence, touches, actions, suppressed, audited, crashes,
                 overlapped>>

(* classify_fixture_reply reads the sequence and the reply again. *)
Apply(p) ==
  /\ Next1(p, "apply")
  /\ plan' = [plan EXCEPT ![p] = ApplyReply(reply[Commit(p).reply])]
  /\ UNCHANGED <<tables, crashes, overlapped>>

CommitSuppress(p) ==
  /\ Next1(p, "suppress")
  /\ suppressed' = TRUE
  /\ Step(p)
  /\ UNCHANGED <<sequence, touches, actions, reply, audited, crashes, overlapped>>
-----------------------------------------------------------------------------
(* add_suppression by another part of the pipeline. *)
SuppressElsewhere ==
  /\ ~suppressed /\ suppressed' = TRUE
  /\ UNCHANGED <<sequence, touches, actions, reply, audited, plan, crashes,
                 overlapped>>

TimePasses ==
  /\ due = "future" /\ due' = "past"
  /\ UNCHANGED <<state, count, touches, actions, events, audited, plan, crashes,
                 overlapped>>

Crash(p) ==
  /\ ~Idle(p) /\ crashes < MaxCrashes
  /\ crashes' = crashes + 1
  /\ Abort(p)
  /\ UNCHANGED <<tables, overlapped>>

Call(p) ==
  \/ Initialize(p) \/ RecordManualSend(p) \/ ProcessDue(p)
  \/ CancelPending(p) \/ CloseNoResponse(p)
  \/ \E n \in Followups : RequestDraft(p, n) \/ MarkReady(p, n)
  \/ \E r \in Replies, k \in Kinds : IngestReply(p, r, k)
  \/ \E r \in Replies, k \in Kinds : Classify(p, r, k.cat)

CommitStep(p) ==
  \/ CommitInitialize(p) \/ CommitState(p) \/ CommitLog(p) \/ CommitTouch(p)
  \/ CommitConsume(p) \/ CommitCancel(p) \/ Recheck(p) \/ CommitReserve(p)
  \/ CommitInvalidate(p) \/ CommitRequest(p) \/ CommitReady(p)
  \/ CommitEvent(p) \/ CommitClassify(p) \/ Apply(p) \/ CommitSuppress(p)

Next ==
  \/ SuppressElsewhere \/ TimePasses
  \/ \E p \in Procs : Call(p) \/ CommitStep(p) \/ Crash(p)

Spec == Init /\ [][Next]_vars
-----------------------------------------------------------------------------
(* Properties *)

(* Type invariant of the sequence and the rows around it. *)
TypeOK ==
  /\ state \in States /\ audited \in States
  /\ count \in 0..MaxTouches /\ due \in {"none", "future", "past"}
  /\ touches \in [1..MaxTouches -> Nat]
  /\ action \in [Followups -> ActionStates]
  /\ reservation \in [Followups -> ReservationStates]
  /\ \A r \in Replies : reply[r] = NoReply \/ reply[r].cat \in Categories
  /\ suppressed \in BOOLEAN /\ overlapped \in BOOLEAN /\ crashes \in Nat

(* The touch count is the number of audited touches, one row per number    *)
(* and none skipped, however sends overlap with anything and die.          *)
TouchesCounted ==
  \A n \in 1..MaxTouches : touches[n] = IF n <= count THEN 1 ELSE 0

(* Once the lead is suppressed and the send that was under way is over, no *)
(* touch is recorded any more, however the sequence's state moves on.      *)
TouchUnderWay ==
  \E p \in Procs : \E i \in DOMAIN plan[p] : plan[p][i].do = "touch"
NoTouchAfterSuppression ==
  [][suppressed /\ ~TouchUnderWay => count' = count /\ ~TouchUnderWay']_vars

(* A sequence stopped by a reply has nothing pending and holds no          *)
(* follow-up capacity, whatever was due, requested or ready before.        *)
StoppedMeansNothingPending ==
  ~overlapped /\ state \in {"HUMAN_ACTION_REQUIRED", "BOUNCE_HOLD",
                            "OUT_OF_OFFICE_HOLD", "CLOSED_NOT_INTERESTED"}
    => \A n \in Followups : /\ action[n] \notin Pending
                            /\ reservation[n] # "RESERVED"

(* A slot of the daily capacity is held exactly for a pending action, also *)
(* after a crash between any two commits.                                  *)
SlotsForPending ==
  ~overlapped => \A n \in Followups :
    reservation[n] = "RESERVED" <=> action[n] \in Pending

(* An opt-out or hard bounce suppresses the lead also when the sequence is *)
(* already over, and however other calls overlap with it.                  *)
OptOutSuppresses ==
  Quiet /\ crashes = 0 => \A r \in Replies :
    reply[r] # NoReply /\ reply[r].cat \in {"OPT_OUT", "HARD_BOUNCE"} => suppressed

(* The audit trail ends in the state the sequence has, whenever no call is *)
(* under way, none overlapped and none died.                               *)
AuditComplete == Quiet /\ crashes = 0 /\ ~overlapped => audited = state

(* What the tables say of a sequence is what happened to it: its actions,  *)
(* its slots and its touches are in step, also around a crash.             *)
RowsInStep == TypeOK /\ StoppedMeansNothingPending /\ SlotsForPending /\ TouchesCounted
=============================================================================
