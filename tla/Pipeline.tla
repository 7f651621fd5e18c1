------------------------------ MODULE Pipeline ------------------------------
(***************************************************************************)
(* The resumable pipeline, step7_pipeline.py, over the ingestion of        *)
(* Discovery: one campaign, one worker that carries one run at a time and  *)
(* may die between any two commits, while imports and suppressions come    *)
(* from elsewhere.  A run is known by its candidate; it has a lead when    *)
(* the candidate has one.                                                  *)
(***************************************************************************)
EXTENDS Discovery, Sequences, FiniteSetsExt

CONSTANTS
  Signals,      \* evidence signals
  Weight,       \* points a signal earns
  Exclusions,   \* signals that exclude a business
  Gates,        \* mandatory gates; each is derived from the signal it names
  Items,        \* the evidence there may be: [id, sig, val, str]
  Raw,          \* records of Imports the fixture is run on
  Fixtures,     \* what a fixture brings with a record
  Updates,      \* what a requalification brings
  EmailItem,    \* the evidence a candidate's e-mail address is
  SiteFinds,    \* the evidence a crawl may find
  Reviews,      \* items an operator may add
  Quota,        \* website_enrichment_daily_quota
  MaxAttempts,  \* pipeline_runs.max_attempts
  MaxReviews,   \* bound: operator reviews and requalifications
  MaxRaised,    \* bound: crawls that end in an exception nobody catches
  MaxCrashes    \* bound: deaths of the worker

TriState == {"YES", "NO", "UNCLEAR"}
RunStates ==
  {"DISCOVERED", "INGESTION_ACCEPTED", "ENRICHMENT_PENDING", "ENRICHMENT_COMPLETE",
   "QUALIFICATION_PENDING", "QUALIFIED", "STRONG", "REJECTED", "HOLD", "SUPPRESSED",
   "ERROR_RETRYABLE", "ERROR_TERMINAL"}
Marks == {"discovery_ingestion", "enrichment", "evidence_consolidation",
          "lead_creation", "qualification"}

(* What is left of evidence once it is normalised: a supported signal,     *)
(* identified by its content, of a strength that orders it; words for some *)
(* of the mandatory gates may come with it.                                *)
IsEvidence(item) ==
  item \in [id : {item.id}, sig : Signals, val : TriState, str : Nat]
GateWords == [Gates -> TriState \union {None}]
Brings    == [items : Seq(Items), gate : GateWords]

RunRows ==
  [state : RunStates, open : BOOLEAN, outcome : Outcomes, marks : SUBSET Marks,
   attempts : Nat, items : Seq(Items), found : Seq(Items), gate : GateWords,
   review : GateWords]

ASSUME PipelineAssumption ==
  /\ Gates \union Exclusions \subseteq Signals /\ Weight \in [Signals -> Nat]
  /\ {Quota, MaxReviews, MaxRaised, MaxCrashes} \subseteq Nat /\ MaxAttempts \in Nat \ {0}
  /\ Raw \subseteq Imports /\ None \notin RunRows
  /\ \A item \in Items : IsEvidence(item)
  /\ EmailItem \in Items /\ Reviews \subseteq Items /\ SiteFinds \subseteq Seq(Items)
  /\ Fixtures \union Updates \subseteq Brings

VARIABLES
  run,       \* pipeline_runs with its checkpoints, None where there is none
  trail,     \* pipeline_evidence of a lead, in insertion order
  evidence,  \* evidence of a lead, in insertion order
  results,   \* pipeline_qualification_results of a run, by version
  crawls,    \* website_enrichment_runs of the day
  pc, cur, brought, outcome, todo, after, verdict,  \* the worker's locals
  reviews, raised, crashes

tables == <<run, trail, evidence, results, crawls>>
locals == <<cur, brought, outcome, todo, after, verdict>>
bounds == <<reviews, raised, crashes>>
vars   == <<filed, blocked, tables, pc, locals, bounds>>

NoVerdict == [state |-> "none", mark |-> "none", open |-> FALSE]
NoGates   == [g \in Gates |-> None]
Nothing   == [items |-> << >>, gate |-> NoGates]

-----------------------------------------------------------------------------
(* _run_is_suppressed: the lead, or the identity its row has now.  Seeded  *)
(* fault: the lead is not asked for.                                       *)
IdentitySuppressed(k) == {cand[k].email, cand[k].domain} \intersect blocked # {}
RunSuppressed(k) == {k, cand[k].email, cand[k].domain} \intersect blocked # {}

(* _combine_signal_values over the current evidence of the lead. *)
Status(k, s) ==
  LET values == {evidence[k][i].val : i \in {j \in DOMAIN evidence[k] :
                   evidence[k][j].sig = s /\ evidence[k][j].current}}
  IN IF {"YES", "NO"} \subseteq values THEN "UNCLEAR"
     ELSE IF "YES" \in values THEN "YES"
     ELSE IF "NO" \in values THEN "NO" ELSE "UNCLEAR"

(* Derived, overlaid by the fixture's word, then by the reviewer's. *)
Overlay(old, new) == [g \in Gates |-> IF new[g] # None THEN new[g] ELSE old[g]]
GateStatus(k) ==
  Overlay(Overlay([g \in Gates |-> Status(k, g)], run[k].gate), run[k].review)

Score(k) ==
  MapThenSumSet(LAMBDA s : Weight[s], {s \in Signals : Status(k, s) = "YES"})

(* qualify_lead and _qualification_final_state; thresholds 70 and 80. *)
Final(k) ==
  LET gates == {GateStatus(k)[g] : g \in Gates} IN
  IF k \in blocked \/ \E s \in Exclusions : Status(k, s) = "YES" THEN "REJECTED"
  ELSE IF "NO" \in gates THEN "REJECTED"
  ELSE IF "UNCLEAR" \in gates THEN "HOLD"
  ELSE IF Score(k) < 70 THEN "REJECTED"
  ELSE IF Score(k) >= 80 THEN "STRONG" ELSE "QUALIFIED"

Currents(k) == {i \in DOMAIN trail[k] : trail[k][i].current}
Fingerprint(k) == <<GateStatus(k), {trail[k][i].id : i \in Currents(k)}>>

(* completion_state is RUNNING. *)
IsOpen(k) == run[k] # None /\ run[k].open

(* The verdict for what is known now is on file already, so the call ends. *)
(* Seeded fault: any earlier verdict will do.                              *)
Answered(k) == \E i \in DOMAIN results[k] : results[k][i].print = Fingerprint(k)
AnyAnswer(k) == results[k] # << >>
Repeated(k) == Answered(k)

(* What a verdict makes of the lead.  Seeded fault: HOLD passes. *)
HoldPasses(state) ==
  CASE state \in {"QUALIFIED", "STRONG", "HOLD"} -> "QUALIFIED"
    [] state = "REJECTED"   -> "REJECTED"
    [] state = "SUPPRESSED" -> "DO_NOT_CONTACT"
    [] OTHER -> "unchanged"
LeadStatus(state) ==
  CASE state \in {"QUALIFIED", "STRONG"} -> "QUALIFIED"
    [] state = "REJECTED"   -> "REJECTED"
    [] state = "HOLD"       -> "REVIEW_PENDING"
    [] state = "SUPPRESSED" -> "DO_NOT_CONTACT"
    [] OTHER -> "unchanged"

(* Where a run with this ingestion outcome goes; SOURCE_ERROR belongs to   *)
(* no candidate, so no run has it.                                         *)
Route(o) ==
  CASE o = "SUPPRESSED" -> "SUPPRESSED"
    [] o \in {"INVALID", "INACTIVE_BUSINESS", "DUPLICATE"} -> "REJECTED"
    [] o \in {"POSSIBLE_DUPLICATE_HOLD", "INSUFFICIENT_IDENTITY"} -> "HOLD"
    [] OTHER -> "go"

(* The evidence a candidate row is, and what the crawl found. *)
CandidateEvidence(k) == IF cand[k].email # None THEN <<EmailItem>> ELSE << >>
WebsiteEvidence(k) == run[k].found

(* _has_alternative_evidence: two routes to the business. *)
Alternatives(k) == cand[k].email # None /\ cand[k].phone # None

Marked(k, mark) == mark \in run[k].marks

(* A source error is worth another attempt.  Seeded fault: always. *)
AlwaysRetry(k) == TRUE
RetryLeft(k) == run[k].attempts < MaxAttempts

(* New evidence replaces the current row it is not weaker than.  Seeded    *)
(* fault: the replaced row stays current.                                  *)
Supersedes(new, old) == new.str >= old.str
KeepBoth(rows, S) == rows
Retire(rows, S) ==
  [i \in DOMAIN rows |-> [rows[i] EXCEPT !.current = @ /\ i \notin S]]

-----------------------------------------------------------------------------
Set(k, f, value) == run' = [run EXCEPT ![k][f] = value]

(* _checkpoint: kept once, however often it is written. *)
Checkpoint(k, mark) == Set(k, "marks", (run[k].marks \union {mark}) \intersect Marks)

Finish ==
  /\ pc' = "idle" /\ cur' = None /\ brought' = Nothing /\ outcome' = "none"
  /\ todo' = << >> /\ after' = "none" /\ verdict' = NoVerdict

Goto(label) == pc' = label /\ UNCHANGED locals

(* _process_run starts on run k. *)
Carry(k) ==
  /\ pc' = "process" /\ cur' = k /\ brought' = Nothing /\ outcome' = "none"
  /\ UNCHANGED <<todo, after, verdict>>

Conclude(state, mark, open) ==
  /\ verdict' = [state |-> state, mark |-> mark, open |-> open]
  /\ pc' = "final"
  /\ UNCHANGED <<cur, brought, outcome, todo, after>>

Init ==
  /\ DiscoveryInit
  /\ run = [k \in Keys |-> None]
  /\ trail = [k \in Keys |-> << >>]
  /\ evidence = [k \in Keys |-> << >>]
  /\ results = [k \in Keys |-> << >>]
  /\ crawls = 0
  /\ pc = "idle" /\ cur = None /\ brought = Nothing /\ outcome = "none"
  /\ todo = << >> /\ after = "none" /\ verdict = NoVerdict
  /\ reviews = 0 /\ raised = 0 /\ crashes = 0

(* run_fictional_pipeline_fixture, per record: ingest, then find or create *)
(* the run.  An ingestion that fails ends the call.                        *)
Fixture(raw, fixture) ==
  LET c == Normalize(raw) IN
  /\ pc = "idle" /\ ~Collides(c)
  /\ Ingest(c)
  /\ pc' = "ingested" /\ cur' = c.key /\ brought' = fixture /\ outcome' = Outcome(c)
  /\ UNCHANGED <<blocked, tables, todo, after, verdict, bounds>>

(* A run keeps the outcome and the fixture it was created with. *)
FindRun ==
  /\ pc = "ingested"
  /\ IF run[cur] = None
     THEN /\ run' = [run EXCEPT ![cur] =
               [state |-> "DISCOVERED", open |-> TRUE, outcome |-> outcome,
                marks |-> {}, attempts |-> 0, items |-> brought.items,
                found |-> << >>, gate |-> brought.gate, review |-> NoGates]]
          /\ Carry(cur)
     ELSE /\ UNCHANGED run
          /\ IF run[cur].open THEN Carry(cur) ELSE Finish
  /\ UNCHANGED <<filed, blocked, trail, evidence, results, crawls, bounds>>

Resume(k) ==
  /\ pc = "idle" /\ IsOpen(k)
  /\ Carry(k)
  /\ UNCHANGED <<filed, blocked, tables, bounds>>

Process ==
  /\ pc = "process"
  /\ LET route == IF RunSuppressed(cur) THEN "SUPPRESSED" ELSE Route(run[cur].outcome) IN
     IF route # "go"
     THEN Conclude(route, "discovery_ingestion", FALSE) /\ UNCHANGED run
     ELSE /\ run' = IF Marked(cur, "discovery_ingestion") THEN run
                    ELSE [run EXCEPT ![cur].state = "INGESTION_ACCEPTED",
                                     ![cur].marks = @ \union {"discovery_ingestion"}]
          /\ IF lead[cur] = None THEN Conclude("HOLD", "none", FALSE) ELSE Goto("enrich")
  /\ UNCHANGED <<filed, blocked, trail, evidence, results, crawls, bounds>>

(* The attempt is charged in a commit of its own, before the gate. *)
Enrich ==
  /\ pc = "enrich"
  /\ IF Marked(cur, "enrichment") THEN Goto("evidence") /\ UNCHANGED run
     ELSE IF cand[cur].site # None
     THEN /\ run' = [run EXCEPT ![cur].state = "ENRICHMENT_PENDING",
                                ![cur].attempts = @ + 1]
          /\ Goto("gate")
     ELSE IF Alternatives(cur)
     THEN Set(cur, "state", "ENRICHMENT_PENDING") /\ Goto("enriched")
     ELSE /\ Set(cur, "state", "ENRICHMENT_PENDING")
          /\ Conclude("HOLD", "enrichment", FALSE)
  /\ UNCHANGED <<filed, blocked, trail, evidence, results, crawls, bounds>>

(* _gate_enrichment: quota, ingestion status, a website that is safe. *)
Gate(safe) ==
  /\ pc = "gate"
  /\ IF /\ crawls < Quota /\ safe /\ cand[cur].site # None
        /\ cand[cur].outcome \in {"ACCEPTED", "UPDATED", "POSSIBLE_DUPLICATE_HOLD",
                                  "INSUFFICIENT_IDENTITY"}
     THEN crawls' = crawls + 1 /\ Goto("crawl")
     ELSE Conclude("ERROR_TERMINAL", "none", FALSE) /\ UNCHANGED crawls
  /\ UNCHANGED <<filed, blocked, run, trail, evidence, results, bounds>>

Crawl(state, found) ==
  /\ pc = "crawl"
  /\ Set(cur, "found", found)
  /\ IF state = "COMPLETED" THEN Goto("enriched")
     ELSE IF state = "SOURCE_ERROR" /\ RetryLeft(cur)
     THEN Conclude("ERROR_RETRYABLE", "none", TRUE)
     ELSE Conclude("ERROR_TERMINAL", "none", FALSE)
  /\ UNCHANGED <<filed, blocked, trail, evidence, results, crawls, bounds>>

(* Only WebsiteEnrichmentBlockedError is caught: any other exception of    *)
(* the crawl ends the call, with the attempt charged and the run open.     *)
CrawlRaises ==
  /\ pc = "crawl" /\ raised < MaxRaised
  /\ raised' = raised + 1
  /\ Finish
  /\ UNCHANGED <<filed, blocked, tables, reviews, crashes>>

Enriched ==
  /\ pc = "enriched"
  /\ run' = [run EXCEPT ![cur].state = "ENRICHMENT_COMPLETE",
                        ![cur].marks = @ \union {"enrichment"}]
  /\ Goto("evidence")
  /\ UNCHANGED <<filed, blocked, trail, evidence, results, crawls, bounds>>

(* _consolidate_evidence: the candidate's, the fixture's, the website's. *)
Consolidate ==
  /\ pc = "evidence"
  /\ IF Marked(cur, "evidence_consolidation")
     THEN pc' = "lead" /\ UNCHANGED <<todo, after>>
     ELSE /\ pc' = "store" /\ after' = "evidence"
          /\ todo' = CandidateEvidence(cur) \o run[cur].items \o WebsiteEvidence(cur)
  /\ UNCHANGED <<filed, blocked, tables, cur, brought, outcome, verdict, bounds>>

(* _store_pipeline_evidence: the evidence row in one commit, its place in  *)
(* the trail in another; known content is skipped.                         *)
Known(k, item) == \E i \in DOMAIN trail[k] :
                    trail[k][i].id = item.id /\ trail[k][i].sig = item.sig

Observe ==
  /\ pc = "store" /\ todo # << >>
  /\ LET item == Head(todo) IN
     IF Known(cur, item)
     THEN todo' = Tail(todo) /\ UNCHANGED <<pc, evidence>>
     ELSE /\ evidence' = [evidence EXCEPT ![cur] =
                Append(@, [sig |-> item.sig, val |-> item.val, current |-> TRUE])]
          /\ pc' = "link" /\ UNCHANGED todo
  /\ UNCHANGED <<filed, blocked, run, trail, results, crawls, cur, brought, outcome,
                 after, verdict, bounds>>

Link ==
  /\ pc = "link"
  /\ LET item  == Head(todo)
         rival == {i \in Currents(cur) : trail[cur][i].sig = item.sig}
         wins  == \A i \in rival : Supersedes(item, trail[cur][i])
         row   == Len(evidence[cur])
         lost  == IF wins THEN {trail[cur][i].row : i \in rival} ELSE {row}
     IN /\ evidence' = [evidence EXCEPT ![cur] = Retire(@, lost)]
        /\ trail' = [trail EXCEPT ![cur] =
             Append(IF wins THEN Retire(@, rival) ELSE @,
                    [id |-> item.id, sig |-> item.sig, str |-> item.str,
                     row |-> row, current |-> wins])]
  /\ todo' = Tail(todo) /\ pc' = "store"
  /\ UNCHANGED <<filed, blocked, run, results, crawls, cur, brought, outcome,
                 after, verdict, bounds>>

Stored ==
  /\ pc = "store" /\ todo = << >>
  /\ \/ /\ after = "evidence"
        /\ Checkpoint(cur, "evidence_consolidation")
        /\ pc' = "lead" /\ after' = "none"
        /\ UNCHANGED <<cur, brought, outcome, todo, verdict>>
     \/ /\ after = "requalify"
        /\ run' = [run EXCEPT ![cur].gate = Overlay(@, brought.gate),
                              ![cur].open = TRUE, ![cur].state = "QUALIFICATION_PENDING"]
        /\ pc' = "qualify" /\ brought' = Nothing /\ after' = "none"
        /\ UNCHANGED <<cur, outcome, todo, verdict>>
     \/ after = "review" /\ Finish /\ UNCHANGED run
  /\ UNCHANGED <<filed, blocked, trail, evidence, results, crawls, bounds>>

LeadCreation ==
  /\ pc = "lead"
  /\ Checkpoint(cur, "lead_creation")
  /\ Goto("qualify")
  /\ UNCHANGED <<filed, blocked, trail, evidence, results, crawls, bounds>>

(* _qualify_and_finalize up to the verdict: a fingerprint that has been    *)
(* answered ends the call.                                                 *)
Qualify ==
  /\ pc = "qualify"
  /\ IF RunSuppressed(cur) THEN Conclude("SUPPRESSED", "qualification", FALSE) /\ UNCHANGED run
     ELSE IF Repeated(cur) THEN Finish /\ UNCHANGED run
     ELSE Set(cur, "state", "QUALIFICATION_PENDING") /\ Goto("score")
  /\ UNCHANGED <<filed, blocked, trail, evidence, results, crawls, bounds>>

Judge ==
  /\ pc = "score"
  /\ results' = [results EXCEPT ![cur] =
                   Append(@, [print |-> Fingerprint(cur), final |-> Final(cur)])]
  /\ Conclude(Final(cur), "qualification", FALSE)
  /\ UNCHANGED <<filed, blocked, run, trail, evidence, crawls, bounds>>

(* _finalize: the run, the lead's status and the checkpoint, each in a     *)
(* commit of its own.                                                      *)
FinalRun ==
  /\ pc = "final"
  /\ run' = [run EXCEPT ![cur].state = verdict.state, ![cur].open = verdict.open]
  /\ Goto("status")
  /\ UNCHANGED <<filed, blocked, trail, evidence, results, crawls, bounds>>

FinalLead ==
  /\ pc = "status"
  /\ lead' = IF lead[cur] = None \/ LeadStatus(verdict.state) = "unchanged" THEN lead
             ELSE [lead EXCEPT ![cur].status = LeadStatus(verdict.state)]
  /\ Goto("mark")
  /\ UNCHANGED <<cand, blocked, tables, bounds>>

FinalMark ==
  /\ pc = "mark"
  /\ Checkpoint(cur, verdict.mark)
  /\ Finish
  /\ UNCHANGED <<filed, blocked, trail, evidence, results, crawls, bounds>>

-----------------------------------------------------------------------------
(* apply_operator_review of a gate, or of a signal; never of a suppressed  *)
(* run.  Neither qualifies the run again.                                  *)
Reviewable(k) ==
  /\ pc = "idle" /\ reviews < MaxReviews
  /\ run[k] # None /\ lead[k] # None
  /\ reviews' = reviews + 1

ReviewGate(k, g, decision) ==
  /\ Reviewable(k) /\ ~RunSuppressed(k)
  /\ run' = [run EXCEPT ![k].review[g] = decision]
  /\ UNCHANGED <<filed, blocked, trail, evidence, results, crawls, pc, locals, raised, crashes>>

ReviewSignal(k, item) ==
  /\ Reviewable(k) /\ ~RunSuppressed(k)
  /\ pc' = "store" /\ cur' = k /\ todo' = <<item>> /\ after' = "review"
  /\ UNCHANGED <<filed, blocked, tables, brought, outcome, verdict, raised, crashes>>

(* requalify_after_new_evidence *)
Requalify(k, update) ==
  /\ Reviewable(k)
  /\ cur' = k
  /\ IF RunSuppressed(k)
     THEN /\ verdict' = [state |-> "SUPPRESSED", mark |-> "none", open |-> FALSE]
          /\ pc' = "final" /\ UNCHANGED <<brought, todo, after>>
     ELSE /\ pc' = "store" /\ todo' = update.items /\ after' = "requalify"
          /\ brought' = update /\ UNCHANGED verdict
  /\ UNCHANGED <<filed, blocked, tables, outcome, raised, crashes>>

Crash ==
  /\ pc # "idle" /\ crashes < MaxCrashes
  /\ crashes' = crashes + 1
  /\ Finish
  /\ UNCHANGED <<filed, blocked, tables, reviews, raised>>

Elsewhere ==
  /\ \/ \E raw \in Imports : Import(raw)
     \/ \E d \in Domains : SuppressDomain(d)
     \/ \E k \in Keys : SuppressLead(k)
  /\ UNCHANGED <<tables, pc, locals, bounds>>

Work ==
  \/ FindRun \/ Process \/ Enrich \/ Enriched \/ Consolidate \/ Observe \/ Link
  \/ CrawlRaises \/ Stored \/ LeadCreation \/ Qualify \/ Judge \/ FinalRun \/ FinalLead \/ FinalMark
  \/ \E safe \in BOOLEAN : Gate(safe)
  \/ \E found \in SiteFinds : Crawl("COMPLETED", found)
  \/ \E state \in {"SOURCE_ERROR", "BLOCKED"} : Crawl(state, << >>)

Next ==
  \/ \E raw \in Raw, fixture \in Fixtures : Fixture(raw, fixture)
  \/ \E k \in Keys : Resume(k)
  \/ Work
  \/ \E k \in Keys, g \in Gates, d \in TriState : ReviewGate(k, g, d)
  \/ \E k \in Keys, item \in Reviews : ReviewSignal(k, item)
  \/ \E k \in Keys, update \in Updates : Requalify(k, update)
  \/ Crash
  \/ Elsewhere

(* A worker that is up goes on, and an open run is resumed again and again.*)
Spec == /\ Init /\ [][Next]_vars
        /\ WF_vars(Work) /\ \A k \in Keys : SF_vars(Resume(k))

-----------------------------------------------------------------------------
(* Type invariant of the tables and of the worker. *)
Ids == {item.id : item \in Items}
TypeOK ==
  /\ run \in [Keys -> RunRows \union {None}]
  /\ \A k \in Keys :
       /\ \A i \in DOMAIN trail[k] :
            /\ trail[k][i] \in [id : Ids, sig : Signals, str : Nat, row : Nat, current : BOOLEAN]
            /\ trail[k][i].row \in DOMAIN evidence[k]
       /\ \A i \in DOMAIN evidence[k] :
            evidence[k][i] \in [sig : Signals, val : TriState, current : BOOLEAN]
       /\ \A i \in DOMAIN results[k] :
            results[k][i] \in [print : GateWords \X SUBSET Ids, final : RunStates]
  /\ crawls \in 0..Quota /\ reviews \in 0..MaxReviews
  /\ raised \in 0..MaxRaised /\ crashes \in 0..MaxCrashes
  /\ cur \in Keys \union {None} /\ (pc = "idle" <=> cur = None)
  /\ todo \in Seq(Items) /\ brought \in Brings

(* Of the evidence a lead has for a signal exactly one row is current, and *)
(* none in the trail is stronger, whatever was stored again after a death  *)
(* and in whatever order the sources answered (_store_pipeline_evidence).  *)
CurrentIsStrongest ==
  \A k \in Keys : \A i \in DOMAIN trail[k] :
    LET rivals == {j \in Currents(k) : trail[k][j].sig = trail[k][i].sig} IN
    /\ Cardinality(rivals) = 1
    /\ \A j \in rivals : trail[k][j].str >= trail[k][i].str

(* The evidence qualification reads and the trail agree, but for one row   *)
(* that a death left unlinked (insert_structured_evidence commits first).  *)
EvidenceLinked ==
  \A k \in Keys :
    LET linked == {trail[k][i].row : i \in DOMAIN trail[k]} IN
    /\ \A i \in Currents(k) : evidence[k][trail[k][i].row].current
    /\ \A i \in linked : evidence[k][i].current =>
         \E j \in Currents(k) : trail[k][j].row = i
    /\ Cardinality(DOMAIN evidence[k] \ linked)
         <= crashes + (IF pc = "link" THEN 1 ELSE 0)

(* What is stored of a lead's evidence can be relied on: strongest current,*)
(* and qualification reads what the trail says.                            *)
EvidenceSound == TypeOK /\ CurrentIsStrongest /\ EvidenceLinked

(* A lead is QUALIFIED only if a stored result says so: no order of        *)
(* commits, deaths and reviews lets a lead pass without one.               *)
QualifiedHasResult ==
  \A k \in Keys : lead[k] # None /\ lead[k].status = "QUALIFIED" =>
    \E i \in DOMAIN results[k] : results[k][i].final \in {"QUALIFIED", "STRONG"}

(* The website is tried at most MaxAttempts times, and once more for every *)
(* death that lost an answer, for every crawl that raised (an attempt is   *)
(* charged without a look at max_attempts) and for every requalification:  *)
(* one with nothing new leaves a run open that had used up its attempts.   *)
RetriesBounded ==
  \A k \in Keys :
    run[k] # None => run[k].attempts <= MaxAttempts + crashes + raised + reviews

(* A suppressed lead that is marked DO_NOT_CONTACT, with no call in        *)
(* progress, stays so: through newer records with another identity,        *)
(* reviews, requalification, resumes and deaths.                           *)
DoNotContact(k) == lead[k] # None /\ lead[k].status = "DO_NOT_CONTACT"
DoNotContactStands ==
  \A k \in Keys :
    [](DoNotContact(k) /\ k \in blocked /\ pc = "idle" => []DoNotContact(k))

(* A run that is resumed settles once its crawls raise no more, unless the *)
(* verdict for what is known now was stored by a call that did not live to *)
(* apply it.                                                               *)
Open(k) == IsOpen(k) /\ ~Answered(k)
RunSettles == \A k \in Keys : Open(k) ~> ~Open(k)
=============================================================================
