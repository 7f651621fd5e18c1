---------------------------- MODULE LiveSources ----------------------------
(***************************************************************************)
(* The live sources of candidates, step3_discovery.py: searches of Google  *)
(* Places under a daily cap of requests, and runs of an Apify actor that   *)
(* are started, polled and fetched.  Both ingest what they get as          *)
(* Discovery does.  A process serves one of the two and may die; the       *)
(* remote side answers, fails, or its answer is lost.  The query plan and  *)
(* the suppressions do not change meanwhile.                               *)
(***************************************************************************)
EXTENDS Discovery, Sequences, SequencesExt

CONSTANTS
  Procs,
  Plan,        \* max_pages of each query of the plan, in order
  Places,      \* records a page of a query gives
  Data,        \* records in the dataset of a run: a sequence
  RequestCap,  \* google_places_daily_request_cap
  MaxRetries,
  RunCap, MaxConcurrent,   \* apify_daily_run_cap, apify_max_concurrent_runs
  MaxClock,    \* bound: searches and fetches begun
  MaxRemote,   \* bound: actor runs
  MaxDeaths    \* bound: deaths

(* set_google_query_plan takes a plan with a query in it, and a page or    *)
(* more of each.                                                           *)
IsPlan(plan) == plan # << >> /\ plan \in Seq(Nat \ {0})

(* States of an actor run, and a row of apify_runs.                        *)
Terminal == {"SUCCEEDED", "FAILED"}
ActorStates == {"RUNNING"} \union Terminal
ActorRows == [state : ActorStates, fetched : BOOLEAN, items : Nat]

ASSUME LiveSourcesAssumption ==
  /\ IsPlan(Plan) /\ IsFiniteSet(Procs) /\ None \notin ActorRows
  /\ Places \in [DOMAIN Plan -> Seq(Imports)] /\ Data \in Seq(Imports)
  /\ {RequestCap, MaxRetries, RunCap, MaxConcurrent, MaxClock, MaxRemote, MaxDeaths}
       \subseteq Nat

VARIABLES
  live,     \* system running, discovery LIVE, campaign ACTIVE, keys present
  log,      \* google_places_request_log of the day; equal rows are numbered
  druns,    \* discovery_runs of searches
  remote,   \* actor runs at Apify, by the order they were started
  rowOf,    \* apify_runs, None for a run nobody recorded
  unheard,  \* actor starts whose answer did not arrive
  serves, where, job,  \* a process: its source, where it is, its locals
  clock, deaths

google     == <<log, druns>>
apify      == <<remote, rowOf, unheard>>
sourceVars == <<filed, blocked, live, google, apify, serves, where, job, clock, deaths>>

NoJob == [left |-> 0, total |-> 0, query |-> 1, page |-> 0, attempts |-> 0, spent |-> 0,
          found |-> << >>, failed |-> FALSE, at |-> 0, id |-> 0, got |-> "none", items |-> 0]

SourcesInit ==
  /\ DiscoveryInit
  /\ live = TRUE /\ log = {} /\ druns = << >>
  /\ remote = << >> /\ rowOf = << >> /\ unheard = 0
  /\ serves \in [Procs -> {"google", "apify"}]
  /\ where = [p \in Procs |-> "idle"] /\ job = [p \in Procs |-> NoJob]
  /\ clock = 0 /\ deaths = 0

Move(p, label, j) == where' = [where EXCEPT ![p] = label] /\ job' = [job EXCEPT ![p] = j]
Stop(p) == Move(p, "idle", NoJob)
Static == UNCHANGED <<live, serves, deaths, blocked>>

(* ingest_candidate of the next record found.  One that collides raises    *)
(* and ends the batch.                                                     *)
IngestNext(p) ==
  LET c == Normalize([Head(job[p].found) EXCEPT !.at = job[p].at]) IN
  /\ job[p].found # << >>
  /\ Ingest(c)
  /\ IF Collides(c) THEN Stop(p)
     ELSE Move(p, where[p], [job[p] EXCEPT !.found = Tail(@)])

-----------------------------------------------------------------------------
(* Google Places.  Every attempt of a request has its row in the log.  The *)
(* pages the plan may ask for, whose number is the sum of max_pages.       *)
Planned == UNION {{q} \X (1..Plan[q]) : q \in DOMAIN Plan}

(* estimate_google_request_count; execute_google_live refuses a plan that  *)
(* does not fit.  Seeded fault: the requests of the day are not counted.   *)
WholeCap == RequestCap
Remaining == IF Cardinality(log) > RequestCap THEN 0
             ELSE RequestCap - Cardinality(log)

(* check_live_guard *)
LiveAllowed == live /\ RequestCap > 0

Search(p) ==
  /\ serves[p] = "google" /\ where[p] = "idle" /\ clock < MaxClock
  /\ LiveAllowed /\ Cardinality(Planned) <= Remaining
  /\ clock' = clock + 1
  /\ Move(p, "open", [NoJob EXCEPT !.left = Remaining, !.at = clock + 1])
  /\ UNCHANGED <<filed, google, apify>> /\ Static

OpenSearch(p) ==
  /\ where[p] = "open"
  /\ druns' = Append(druns, "RUNNING")
  /\ Move(p, "query", [job[p] EXCEPT !.id = Len(druns) + 1])
  /\ UNCHANGED <<filed, log, apify, clock>> /\ Static

(* search_text of the next query; without quota the plan is broken off.    *)
NextQuery(p) ==
  /\ where[p] = "query"
  /\ IF job[p].query > Len(Plan) THEN Move(p, "finish", job[p])
     ELSE Move(p, "page", [job[p] EXCEPT !.page = 1, !.attempts = 0, !.spent = 0,
                                         !.found = << >>])
  /\ UNCHANGED <<filed, google, apify, clock>> /\ Static

QuotaLeft(j) == j.left - j.total - j.spent

(* The retry of a page compares its attempts with one more than the quota. *)
Retry(j, answer) ==
  /\ answer = "transient" /\ j.attempts + 1 <= MaxRetries
  /\ j.attempts + 1 < QuotaLeft(j) + 1

(* A query that fails is given up with the pages it already had.  Seeded   *)
(* fault: the failure is forgotten.                                        *)
Forget(j) == [j EXCEPT !.query = @ + 1, !.found = << >>]
GiveUp(j) == [j EXCEPT !.query = @ + 1, !.found = << >>, !.failed = TRUE]

OutOfQuota(p) ==
  /\ where[p] = "page" /\ job[p].attempts = 0 /\ QuotaLeft(job[p]) <= 0
  /\ Move(p, "finish", [job[p] EXCEPT !.failed = TRUE])
  /\ UNCHANGED <<filed, google, apify, clock>> /\ Static

(* What Google's status and body come to: a page with another after it or  *)
(* not, a failure worth a retry or not.                                    *)
Pages == {"more", "last"}
PageAnswers == Pages \union {"transient", "fatal"}

LogRow(j, answer) ==
  LET ok    == answer \in Pages
      equal == {r \in log : r.run = j.id /\ r.query = j.query /\ r.ok = ok}
  IN [run |-> j.id, query |-> j.query, ok |-> ok, number |-> Cardinality(equal) + 1]

(* _request_page: one attempt, with the log row its observer commits. *)
Request(p, answer) ==
  LET j == job[p] IN
  /\ where[p] = "page" /\ (j.attempts > 0 \/ QuotaLeft(j) > 0)
  /\ log' = log \union {LogRow(j, answer)}
  /\ IF answer \in Pages
     THEN LET k == [j EXCEPT !.spent = @ + j.attempts + 1, !.attempts = 0,
                             !.found = @ \o Places[j.query], !.page = @ + 1]
          IN IF answer = "more" /\ j.page < Plan[j.query] THEN Move(p, "page", k)
             ELSE Move(p, "ingest", [k EXCEPT !.total = @ + k.spent, !.spent = 0])
     ELSE IF Retry(j, answer) THEN Move(p, "page", [j EXCEPT !.attempts = @ + 1])
     ELSE Move(p, "query", GiveUp(j))
  /\ UNCHANGED <<filed, druns, apify, clock>> /\ Static

(* An ingestion that fails takes execute_google_live with it: the          *)
(* discovery run stays RUNNING.                                            *)
IngestPlace(p) ==
  /\ where[p] = "ingest"
  /\ \/ IngestNext(p)
     \/ /\ job[p].found = << >>
        /\ Move(p, "query", [job[p] EXCEPT !.query = @ + 1])
        /\ UNCHANGED filed
  /\ UNCHANGED <<google, apify, clock>> /\ Static

FinishSearch(p) ==
  /\ where[p] = "finish"
  /\ druns' = [druns EXCEPT ![job[p].id] =
                 IF job[p].failed THEN "SOURCE_ERROR" ELSE "COMPLETED"]
  /\ Stop(p)
  /\ UNCHANGED <<filed, log, apify, clock>> /\ Static

-----------------------------------------------------------------------------
(* Apify.  _apify_run_count_today and _apify_in_progress_count read rows.  *)
Recorded == {i \in DOMAIN rowOf : rowOf[i] # None}
InProgress == {i \in Recorded : rowOf[i].state = "RUNNING"}

(* _apify_live_gate.  Seeded fault: one run too many passes. *)
LateGate == Cardinality(Recorded) <= RunCap /\ Cardinality(InProgress) <= MaxConcurrent
RunGate == Cardinality(Recorded) < RunCap /\ Cardinality(InProgress) < MaxConcurrent

Start(p) ==
  /\ serves[p] = "apify" /\ where[p] = "idle" /\ Len(remote) < MaxRemote
  /\ live /\ RunGate
  /\ Move(p, "start", NoJob)
  /\ UNCHANGED <<filed, google, apify, clock>> /\ Static

(* ApifyClient.start_actor: refused; started, with the state the run has   *)
(* by then; or started, with an answer that is lost or unreadable.         *)
StartAnswers == {"refused", "lost"} \union ActorStates

StartActor(p, answer) ==
  /\ where[p] = "start"
  /\ CASE answer = "refused" -> Stop(p) /\ UNCHANGED apify
       [] answer = "lost" ->
            /\ remote' = Append(remote, "RUNNING") /\ rowOf' = Append(rowOf, None)
            /\ unheard' = unheard + 1 /\ Stop(p)
       [] OTHER ->
            /\ remote' = Append(remote, answer) /\ rowOf' = Append(rowOf, None)
            /\ Move(p, "record", [NoJob EXCEPT !.id = Len(remote) + 1, !.got = answer])
            /\ UNCHANGED unheard
  /\ UNCHANGED <<filed, google, clock>> /\ Static

Record(p) ==
  /\ where[p] = "record"
  /\ rowOf' = [rowOf EXCEPT ![job[p].id] = [state |-> job[p].got, fetched |-> FALSE,
                                         items |-> 0]]
  /\ Stop(p)
  /\ UNCHANGED <<filed, google, remote, unheard, clock>> /\ Static

(* poll_apify_run, resume_apify_run: the row is RUNNING, Apify answers; a  *)
(* later step writes it.  A body that cannot be read is a run without a    *)
(* status, which counts as RUNNING.  A poll that fails leaves an error     *)
(* category, which nothing reads.                                          *)
Poll(p, i) ==
  /\ serves[p] = "apify" /\ where[p] = "idle" /\ i \in InProgress
  /\ \E state \in {remote[i], "RUNNING"} :
       Move(p, "write", [NoJob EXCEPT !.id = i, !.got = state])
  /\ UNCHANGED <<filed, google, apify, clock>> /\ Static

WritePoll(p) ==
  /\ where[p] = "write"
  /\ rowOf' = [rowOf EXCEPT ![job[p].id].state = job[p].got]
  /\ Stop(p)
  /\ UNCHANGED <<filed, google, remote, unheard, clock>> /\ Static

(* fetch_apify_dataset, of a run that SUCCEEDED; nothing stops a second    *)
(* fetch.  A body that cannot be read, or that holds no list, is a dataset *)
(* without records.  Seeded fault: of any run that ended.                  *)
AnyEnded(i) == rowOf[i].state \in Terminal
Fetchable(i) == rowOf[i].state = "SUCCEEDED"

Fetch(p, i) ==
  /\ serves[p] = "apify" /\ where[p] = "idle" /\ i \in Recorded /\ Fetchable(i)
  /\ clock < MaxClock /\ clock' = clock + 1
  /\ \E records \in {Data, << >>} :
       Move(p, "fetch", [NoJob EXCEPT !.id = i, !.found = records, !.at = clock + 1,
                                      !.items = Len(records)])
  /\ UNCHANGED <<filed, google, apify>> /\ Static

(* Each record in its commit; the row last, with how many there were. *)
IngestRecord(p) ==
  /\ where[p] = "fetch"
  /\ \/ IngestNext(p) /\ UNCHANGED rowOf
     \/ /\ job[p].found = << >>
        /\ rowOf' = [rowOf EXCEPT ![job[p].id].fetched = TRUE,
                                  ![job[p].id].items = job[p].items]
        /\ Stop(p) /\ UNCHANGED filed
  /\ UNCHANGED <<google, remote, unheard, clock>> /\ Static

-----------------------------------------------------------------------------
RemoteEnds(i, state) ==
  /\ remote[i] = "RUNNING"
  /\ remote' = [remote EXCEPT ![i] = state]
  /\ UNCHANGED <<filed, blocked, live, google, rowOf, unheard, serves, where, job, clock, deaths>>

Die(p) ==
  /\ where[p] # "idle" /\ deaths < MaxDeaths
  /\ deaths' = deaths + 1 /\ Stop(p)
  /\ UNCHANGED <<filed, blocked, live, google, apify, serves, clock>>

(* The operator pauses the system, discovery or the campaign.  What he lets *)
(* go on again might as well not have been paused: only starts ask.        *)
Pause ==
  /\ live /\ live' = FALSE
  /\ UNCHANGED <<filed, blocked, google, apify, serves, where, job, clock, deaths>>

SourcesNext ==
  \/ \E p \in Procs :
       \/ Search(p) \/ OpenSearch(p) \/ NextQuery(p) \/ OutOfQuota(p)
       \/ \E a \in PageAnswers : Request(p, a)
       \/ IngestPlace(p) \/ FinishSearch(p)
       \/ Start(p) \/ Record(p) \/ WritePoll(p) \/ IngestRecord(p) \/ Die(p)
       \/ \E a \in StartAnswers : StartActor(p, a)
       \/ \E i \in DOMAIN remote : Poll(p, i) \/ Fetch(p, i)
  \/ \E i \in DOMAIN remote, state \in Terminal : RemoteEnds(i, state)
  \/ Pause

SourcesSpec == SourcesInit /\ [][SourcesNext]_sourceVars

-----------------------------------------------------------------------------
(* Type invariant of the logs, the runs and the processes' locals. *)
SourcesTypeOK ==
  /\ \A r \in log : r.run \in DOMAIN druns /\ r.query \in DOMAIN Plan
  /\ \A r \in DOMAIN druns : druns[r] \in {"RUNNING", "COMPLETED", "SOURCE_ERROR"}
  /\ Len(remote) = Len(rowOf) /\ unheard \in 0..Len(remote)
  /\ \A i \in DOMAIN rowOf : remote[i] \in ActorStates /\ rowOf[i] \in ActorRows \union {None}
  /\ \A p \in Procs : /\ job[p].left \in 0..RequestCap /\ job[p].attempts \in 0..MaxRetries
                      /\ job[p].id \in 0..(Len(druns) + Len(remote))
  /\ live \in BOOLEAN /\ clock \in 0..MaxClock /\ deaths \in 0..MaxDeaths

Serving(source) == {p \in Procs : serves[p] = source}

(* Requests that bring a page stay within the day's cap, however many      *)
(* failed and were tried again; processes that estimated at the same time  *)
(* have a cap each (estimate_google_request_count, search_text).           *)
SucceededWithinCap ==
  Cardinality({r \in log : r.ok}) <= Cardinality(Serving("google")) * RequestCap

(* A search that is COMPLETED asked every query of the plan and filed what *)
(* it got: no death, failure or lack of quota on the way makes it so.      *)
CompletedMeansWholePlan ==
  \A r \in DOMAIN druns : druns[r] = "COMPLETED" =>
    \A q \in DOMAIN Plan :
      /\ \E a \in log : a.run = r /\ a.query = q /\ a.ok
      /\ \A raw \in ToSet(Places[q]) : cand[raw.key] # None

(* A dataset is marked fetched only when its run succeeded at Apify, and   *)
(* with a count of items other than 0 only when every record is on file,   *)
(* whatever polls, fetches and deaths came between.  With 0 it may have    *)
(* been lost on the way (fetch_dataset).                                   *)
FetchedIsIngested ==
  /\ SourcesTypeOK
  /\ \A i \in Recorded : rowOf[i].fetched =>
       /\ remote[i] = "SUCCEEDED"
       /\ rowOf[i].items # 0 => \A raw \in ToSet(Data) : cand[raw.key] # None

(* More actor runs than the daily cap, or than may run at once, are the    *)
(* work of overlapping starts, and of starts nobody could record.          *)
RunsBounded ==
  LET slack == Cardinality(Serving("apify")) + unheard + deaths IN
  Serving("apify") # {} =>
    /\ Len(remote) < RunCap + slack
    /\ Cardinality({i \in DOMAIN remote : remote[i] = "RUNNING"}) < MaxConcurrent + slack
=============================================================================
