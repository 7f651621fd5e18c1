------------------------------ MODULE Drafting ------------------------------
(***************************************************************************)
(* Drafting, step10_drafting.py, on the packets and offers of              *)
(* ContextPackets: one lead of one campaign, whose runs are keyed by the   *)
(* fingerprint of what the provider is given.  A run calls the provider at *)
(* most MaxAttempts times, and each call commits before and after: a death *)
(* between two commits, a second caller on the same run, and a packet that *)
(* goes away are all steps of their own.                                   *)
(***************************************************************************)
EXTENDS ContextPackets

CONSTANTS
  Evidence,     \* ids of the evidence a message needs
  Outputs,      \* what the provider may answer
  Procs,        \* callers of generate_fictional_draft and resume_drafting
  MaxAttempts,  \* drafting_max_attempts
  DailyCap,     \* drafting_daily_cap
  MaxRuns,      \* bound on the runs
  MaxRequests,  \* bound on the redraft requests
  MaxCrashes    \* bound on the deaths

ClaimKinds == {"OBSERVATION", "INFERENCE", "OFFER", "CTA"}

ASSUME DraftingAssumption ==
  /\ MaxAttempts \in Nat \ {0} /\ DailyCap \in Nat
  /\ \A o \in Outputs : /\ DOMAIN o = {"worded", "used", "claims"}
                        /\ \A c \in o.claims : c.kind \in ClaimKinds

VARIABLES
  fit,      \* neither the lead, the campaign nor a switch stands against drafting
  evidence, \* ids of the current evidence of the lead
  runs,     \* drafting_runs with their attempts and draft, by fingerprint
  redraft,  \* draft_redraft_requests, in the order of their ids
  at,       \* where each caller is
  shared,   \* history: the runs two callers have been busy with at once
  calls,    \* history: calls of the provider, by fingerprint
  crashes   \* history: deaths so far

drafting == <<fit, evidence, runs, redraft, at, shared, calls, crashes>>
vars == <<papers, drafting>>

-----------------------------------------------------------------------------
Idle == [pc |-> "idle", run |-> None, seen |-> 0, version |-> 0]

(* _fingerprint: the packet, the offer, the evidence and the redraft       *)
(* request; the run keeps the same as its provider's input.                *)
Fingerprint(i, request) ==
  [packet |-> IF i = 0 THEN None ELSE Hash(packets[i]), evidence |-> evidence,
   offered |-> offer["immediate"] = "ACTIVE", request |-> request]

(* _ready_packet: the newest READY one, or the one asked for; 0 is none.   *)
(* One whose time has passed is marked, and there is none.                 *)
Found(i) == {j \in Ready : i # 0 => j = i}
Chosen(i) == IF Found(i) = {} THEN 0 ELSE Newest(Found(i))
Fresh(i) ==
  IF Chosen(i) # 0 /\ packets[Chosen(i)].fresh /\ Ready = {Chosen(i)} THEN Chosen(i) ELSE 0
MarkExpired(i) ==
  packets' = [j \in DOMAIN packets |->
    IF j = Chosen(i) /\ ~packets[j].fresh
    THEN [packets[j] EXCEPT !.state = "EXPIRED"] ELSE packets[j]]

(* _daily_cap_reached: every run of the day counts, the blocked ones too. *)
CapReached == Cardinality(DOMAIN runs) >= DailyCap

(* _current_evidence, which leaves out what is superseded, expired or      *)
(* malformed, has to hold every piece the message needs.                   *)
Backed == evidence = Evidence

(* _eligibility *)
Eligible(i) ==
  fit /\ Backed /\ offer["immediate"] = "ACTIVE" /\ Fresh(i) # 0 /\ ~CapReached

Drafted == {f \in DOMAIN runs : runs[f].draft # 0}
NextVersion == 1 + Cardinality(Drafted)

(* resume_drafting looks for an attempt without an outcome.  Seeded fault: *)
(* for one without a success.                                              *)
Unsuccessful(f) == \E n \in DOMAIN runs[f].tries : runs[f].tries[n] # "SUCCEEDED"
Unresolved(f) == \E n \in DOMAIN runs[f].tries : runs[f].tries[n] = "STARTED"

NewRun(i) ==
  [state |-> IF Eligible(i) THEN "READY_FOR_GENERATION" ELSE "BLOCKED",
   tries |-> <<>>, draft |-> 0]

(* The run as _insert_run leaves it. *)
RunOf(f, i) == IF f \in DOMAIN runs THEN runs[f] ELSE NewRun(i)

(* generate_fictional_draft answers with what is there. *)
Answers(r) == \/ r.state = "REVIEW_PENDING" /\ r.draft # 0
              \/ r.state \in {"BLOCKED", "ERROR_TERMINAL", "HOLD_FOR_REVIEW"}

(* A caller turns to a run, with the attempts it sees there. *)
Enter(p, label, f) ==
  /\ at' = [at EXCEPT ![p] = [pc |-> label, run |-> f, seen |-> Len(runs'[f].tries),
                              version |-> 0]]
  /\ shared' = shared \union {g \in {f} : \E q \in Procs \ {p} : at[q].run = f}

(* generate_fictional_draft up to the loop of _provider_call, for the      *)
(* packet asked for (0 is any) and a redraft request (0 is none), which    *)
(* has to be pending.                                                      *)
Generate(p, i, request) ==
  /\ at[p] = Idle
  /\ request # 0 => redraft[request].status = "REQUESTED"
  /\ LET f == Fingerprint(Fresh(i), request)
         r == RunOf(f, i)
     IN /\ Cardinality(DOMAIN runs \union {f}) <= MaxRuns
        /\ runs' = [g \in DOMAIN runs \union {f} |-> IF g = f THEN r ELSE runs[g]]
        /\ calls' = [g \in DOMAIN runs' |-> IF g \in DOMAIN calls THEN calls[g] ELSE 0]
        /\ IF Answers(r) \/ ~Eligible(i) THEN UNCHANGED <<at, shared>>
           ELSE Enter(p, "start", f)
  /\ MarkExpired(i)
  /\ UNCHANGED <<offer, fit, evidence, redraft, crashes>>

(* resume_drafting looks for an attempt without an outcome, and only then  *)
(* at the state.                                                           *)
Resume(p, f) ==
  /\ at[p] = Idle /\ f \in DOMAIN runs
  /\ UNCHANGED runs
  /\ \/ Unresolved(f) /\ Enter(p, "hold", f)
     \/ /\ ~Unresolved(f)
        /\ runs[f].state \in {"ERROR_RETRYABLE", "READY_FOR_GENERATION", "GENERATED"}
        /\ Enter(p, "start", f)
  /\ UNCHANGED <<papers, fit, evidence, redraft, calls, crashes>>

(* Having found one it puts the run on hold, whatever the attempt and the  *)
(* run have become since.                                                  *)
Hold(p) ==
  /\ at[p].pc = "hold"
  /\ runs' = [runs EXCEPT ![at[p].run].state = "HOLD_FOR_REVIEW"]
  /\ at' = [at EXCEPT ![p] = Idle]
  /\ UNCHANGED <<papers, fit, evidence, redraft, shared, calls, crashes>>

(* UNIQUE (run_id, attempt_number): another caller has taken the number.   *)
(* Seeded fault: no such index.                                            *)
NeverTaken(f, n) == FALSE
Taken(f, n) == n \in DOMAIN runs[f].tries

(* _provider_call, one round: the attempt is committed as STARTED, then    *)
(* the provider is called.                                                 *)
Start(p) ==
  LET f == at[p].run
      n == at[p].seen + 1
  IN /\ at[p].pc = "start"
     /\ IF n > MaxAttempts \/ Taken(f, n)
        THEN at' = [at EXCEPT ![p] = Idle] /\ UNCHANGED <<runs, calls>>
        ELSE /\ runs' = [runs EXCEPT ![f].state = "GENERATED",
                                     ![f].tries = Append(@, "STARTED")]
             /\ calls' = [calls EXCEPT ![f] = @ + 1]
             /\ at' = [at EXCEPT ![p].pc = "called", ![p].seen = n]
     /\ UNCHANGED <<papers, fit, evidence, redraft, shared, crashes>>

(* validate_provider_output against the input of the run: worded as        *)
(* subject, body and claims have to be; claims of fact with current        *)
(* evidence; one call to action; and no evidence named that no claim uses. *)
Valid(o, f) ==
  /\ o.worded
  /\ \A c \in o.claims : /\ c.cites \subseteq f.evidence
                         /\ c.kind \in {"OBSERVATION", "INFERENCE"} => c.cites # {}
  /\ Cardinality({c \in o.claims : c.kind = "CTA"}) = 1
  /\ o.used = UNION {c.cites : c \in o.claims}

(* _finish_attempt, after an output or an exception (None), which differs  *)
(* from a refused output in nothing that is read again.  The version of a  *)
(* draft is read before the transaction that stores it.                    *)
Finish(p, o) ==
  LET f == at[p].run
      valid == o # None /\ Valid(o, f)
  IN
  /\ at[p].pc = "called"
  /\ runs' = [runs EXCEPT ![f].tries[at[p].seen] = IF valid THEN "SUCCEEDED" ELSE "FAILED"]
  /\ at' = [at EXCEPT ![p].pc = IF valid THEN "store" ELSE "fail",
                      ![p].version = IF valid THEN NextVersion ELSE 0]
  /\ UNCHANGED <<papers, fit, evidence, redraft, shared, calls, crashes>>

(* The run's state after an attempt that failed, and the next round. *)
Fail(p) ==
  LET f == at[p].run
      terminal == at[p].seen >= MaxAttempts
  IN /\ at[p].pc = "fail"
     /\ runs' = [runs EXCEPT ![f].state =
                   IF terminal THEN "ERROR_TERMINAL" ELSE "ERROR_RETRYABLE"]
     /\ IF terminal THEN at' = [at EXCEPT ![p] = Idle] /\ UNCHANGED shared
        ELSE Enter(p, "start", f)
     /\ UNCHANGED <<papers, fit, evidence, redraft, calls, crashes>>

(* The unique indexes of personalized_drafts: one draft of an input, one   *)
(* draft of a version.                                                    *)
Refused(f, v) == runs[f].draft # 0 \/ \E g \in Drafted : runs[g].draft = v

(* _persist_success: draft, validation, run and redraft request in one     *)
(* transaction, which an index may refuse.  Seeded fault: every request is *)
(* completed.                                                              *)
CloseAll(f) ==
  redraft' = [k \in DOMAIN redraft |-> [redraft[k] EXCEPT !.status = "COMPLETED", !.run = f]]
Close(f) ==
  IF f.request = 0 THEN UNCHANGED redraft
  ELSE redraft' = [redraft EXCEPT ![f.request].status = "COMPLETED", ![f.request].run = f]

Persist(p) ==
  LET f == at[p].run IN
  /\ at[p].pc = "store"
  /\ IF Refused(f, at[p].version) THEN UNCHANGED <<runs, redraft>>
     ELSE /\ runs' = [runs EXCEPT ![f].state = "REVIEW_PENDING",
                                  ![f].draft = at[p].version]
          /\ Close(f)
  /\ at' = [at EXCEPT ![p] = Idle]
  /\ UNCHANGED <<papers, fit, evidence, shared, calls, crashes>>

(* request_audited_redraft: a pending request for the draft is returned.   *)
Pending(f) == \E k \in DOMAIN redraft :
                 redraft[k].source = f /\ redraft[k].status = "REQUESTED"
Request(f) ==
  /\ f \in Drafted /\ ~Pending(f) /\ Len(redraft) < MaxRequests
  /\ redraft' = Append(redraft, [source |-> f, status |-> "REQUESTED", run |-> None])
  /\ UNCHANGED <<papers, fit, evidence, runs, at, shared, calls, crashes>>

(* The lead's qualification and suppression, the campaign and the switches *)
(* change elsewhere.                                                       *)
Turn ==
  fit' = ~fit /\ UNCHANGED <<papers, evidence, runs, redraft, at, shared, calls, crashes>>

(* So does the evidence: collected, superseded, expired. *)
Collect(E) ==
  /\ evidence' = E
  /\ UNCHANGED <<papers, fit, runs, redraft, at, shared, calls, crashes>>

Crash(p) ==
  /\ at[p] # Idle /\ crashes < MaxCrashes
  /\ at' = [at EXCEPT ![p] = Idle]
  /\ crashes' = crashes + 1
  /\ UNCHANGED <<papers, fit, evidence, runs, redraft, shared, calls>>

-----------------------------------------------------------------------------
Init ==
  /\ PapersInit
  /\ fit = TRUE /\ evidence = Evidence /\ runs = [f \in {} |-> None] /\ redraft = <<>>
  /\ at = [p \in Procs |-> Idle] /\ shared = {} /\ calls = [f \in {} |-> 0] /\ crashes = 0

Call(p) ==
  \/ \E i \in 0..Len(packets), q \in 0..Len(redraft) : Generate(p, i, q)
  \/ \E f \in DOMAIN runs : Resume(p, f)
  \/ Hold(p) \/ Start(p) \/ Fail(p) \/ Persist(p) \/ Crash(p)
  \/ \E o \in Outputs \union {None} : Finish(p, o)

Next ==
  \/ \E p \in Procs : Call(p)
  \/ \E f \in Drafted : Request(f)
  \/ Turn
  \/ \E E \in SUBSET Evidence : Collect(E)
  \/ PapersNext /\ UNCHANGED drafting

Spec == Init /\ [][Next]_vars

-----------------------------------------------------------------------------
(* Type invariant of the runs, the requests and the callers. *)
TypeOK ==
  /\ \A f \in DOMAIN runs :
       /\ runs[f].state \in {"READY_FOR_GENERATION", "BLOCKED", "GENERATED", "REVIEW_PENDING",
                             "HOLD_FOR_REVIEW", "ERROR_RETRYABLE", "ERROR_TERMINAL"}
       /\ \A n \in DOMAIN runs[f].tries : runs[f].tries[n] \in {"STARTED", "SUCCEEDED", "FAILED"}
       /\ runs[f].draft \in Nat /\ f.request \in 0..Len(redraft)
  /\ \A k \in DOMAIN redraft : /\ redraft[k].source \in DOMAIN runs
                                /\ redraft[k].status \in {"REQUESTED", "COMPLETED"}
  /\ \A p \in Procs : /\ at[p].pc \in {"idle", "hold", "start", "called", "fail", "store"}
                      /\ at[p] # Idle => at[p].run \in DOMAIN runs
  /\ shared \subseteq DOMAIN runs
  /\ DOMAIN calls = DOMAIN runs /\ fit \in BOOLEAN /\ evidence \subseteq Evidence

(* At most one packet of the campaign is usable, so that drafting never    *)
(* has to choose between two snapshots (CONFLICTING_GOLD_CONTEXT).         *)
OneReadyPacket == Cardinality(Ready) <= 1

(* Whatever deaths and second callers do, a run calls its provider at most *)
(* MaxAttempts times.                                                      *)
CallsBounded == \A f \in DOMAIN calls : calls[f] <= MaxAttempts

(* Drafts are numbered without a gap or a repetition, and each comes from  *)
(* an attempt of its own run that succeeded.                               *)
DraftsNumbered ==
  /\ {runs[f].draft : f \in Drafted} = 1..Cardinality(Drafted)
  /\ \A f \in Drafted : \E n \in DOMAIN runs[f].tries : runs[f].tries[n] = "SUCCEEDED"

(* A redraft request is completed only by a run made for it that has a     *)
(* draft newer than the one it was to replace.                             *)
RedraftIsNewer ==
  \A k \in DOMAIN redraft : redraft[k].status = "COMPLETED" =>
    LET f == redraft[k].run IN
    f.request = k /\ runs[f].draft > runs[redraft[k].source].draft

(* Versions are in order: none is given twice, and a redraft gets a newer  *)
(* one than the draft it replaces.                                         *)
VersionsInOrder == TypeOK /\ DraftsNumbered /\ RedraftIsNewer

(* A draft stays with its run for good.  While callers are busy with a run *)
(* one after the other, it awaits review until it is resumed with an       *)
(* attempt that never had an outcome, which is so only after a death; two  *)
(* callers at once may take it out of review without one.                  *)
ReviewKept ==
  [][\A f \in DOMAIN runs :
       /\ runs[f].draft # 0 => runs'[f].draft = runs[f].draft
       /\ runs[f].state = "REVIEW_PENDING" /\ runs'[f].state # "REVIEW_PENDING" =>
            \/ f \in shared
            \/ /\ runs'[f].state = "HOLD_FOR_REVIEW" /\ crashes > 0
               /\ \E n \in DOMAIN runs[f].tries : runs[f].tries[n] = "STARTED"]_vars
=============================================================================
