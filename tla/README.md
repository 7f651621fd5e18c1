# A TLA+ model of the outbound agent

This directory holds TLA+ modules, TLC configurations and TLAPS proofs about the
program in `src/`: a lead-generation pipeline written as flat Python modules over
one SQLite file. There is no server. "Concurrency" here is several processes (a
scheduled job, an operator's shell, a research agent) that open the same database
file, and "failure" is a process that dies between two commits, an executor or a
message platform that answers *unknown*, and a call that is simply made again.
`PROJECT.json` maps every definition to the source lines it stands for.

## 1. Inventory

### Parts and their state

| Part | State | Operations |
| --- | --- | --- |
| Scheduler run (`step14_scheduler.py`) | `scheduler_runs` (one row per campaign and local day), `scheduler_leases`, `scheduler_jobs` | `run_fixture_scheduled_window`, `resume_fixture_interrupted_run`, `cancel_or_hold_fixture_run` |
| Shared capacity (same file) | `scheduler_capacity_reservations` | `plan_shared_daily_capacity`, `preview_fixture_campaign_day`, `update_fixture_reservation_state` |
| Notifier (`notifier.py`) | `notification_outbox`, `notification_attempts`, `notification_message_mappings`; the platform behind the backend | `queue_notification`, `reconcile_notification_outcome` |
| Follow-ups (`step12_followup.py`) | `followup_sequences`, `_sent_touches`, `_actions`, `_capacity_reservations`, `_reply_events`, `_lifecycle_transitions`; `suppressions` | initialise, record a manual send, process due, request, approve, ingest or record a reply, classify, cancel, close |
| Research queue (`paldo_research_queue.py`) | `candidate_research_progress`, `discovery_candidates.research_state` | `reserve_research_batch`, `commit_candidate_research`, `record_decision_maker_evidence` |
| Recovery import (`paldo_recovery.py`) | `production_recovery_runs`, its stage checkpoints, `discovery_candidates` | `commit_upstream` and its stages |
| Storage, suppression (`paldo_os_outbound.py`) | leads, configuration, events, `suppressions` | `add_suppression`, `is_suppressed`, CRUD, scoring |
| Gmail drafts (`step11_gmail_drafts.py`) | draft runs, attempts, external mappings | approve, create, verify, reconcile |
| Discovery (`step3_discovery.py`) | `discovery_candidates`, `leads`, `discovery_runs`, the request log of Google Places, `apify_runs` | ingest a candidate, search live, start, poll and fetch an actor run |
| Website enrichment (`step6_website_enrichment.py`) | `website_enrichment_runs` with pages, contacts and evidence | `enrich_website_candidate` |
| Pipeline (`step7_pipeline.py`) | `pipeline_runs` and checkpoints, `pipeline_evidence`, `evidence`, qualification results | run fixtures, resume, operator review, requalify |
| Knowledge packets, offers (`step8`, `step9`) | `kb_context_packets`, `audit_offer_versions` | build, inspect, get, invalidate; create and move a version |
| Drafting (`step10_drafting.py`) | `drafting_runs`, their attempts and drafts, redraft requests | generate, resume, request a redraft |
| Production cycle (`step22_integration.py`, `paldo_production_entrypoint.py`) | candidates, leads, `outreach`, campaigns, `system_state`, the event log, a file lock | `run_production_cycle`; pause, stop, resume, configure |
| Identity, personalisation, expansion (`step15` .. `step17b`, `step23`, `paldo_revision.py`, `paldo_social_handoff.py`, `paldo_linkedin_manual_match.py`) | packets, opportunities, LinkedIn matches, revisions | one insert per record |
| Pollers and scripts (`reddit_*`, `paldo_apify_discovery.py`, `_analytics_probe.py`) | files, subprocesses | command lines |

### How they interact

All through the database. The scheduler reserves capacity for due follow-ups and
new outreach, then calls injected executors, which would call the follow-up,
pipeline, drafting and notifier operations. The follow-up operations read the
Gmail run they start from and read and write `suppressions`. The recovery import
writes the candidates the research queue hands out. Ingestion decides on candidates,
leads and suppressions; the pipeline, the live sources and the production cycle all
call it. Drafting reads packets and offers. No operation holds a
transaction over more than a few statements: the unit of atomicity is one
`with connection:` block, and between two of them another process may do
anything, or this one may die.

### What is hard

* Values read before a commit and used after it: capacity totals, a sequence
  row, a candidate's state.
* Death between commits, followed by a call that finds half of the work done:
  an orphaned lease, an attempt without outcome, a reply without its effect.
* Outcomes nobody knows: an executor or a platform that did it, perhaps.
* Priorities that must hold over several passes: follow-ups first, oldest first.
* Counters and limits under retry: attempts, touches, daily caps.
* A remote side whose answer is lost: a mailbox, an actor run, a web site.
* A verdict, a version or a snapshot that was right when it was read.

`PROJECT.json` lists these under `hazards`, each at its line.

### What makes each part correct

* Scheduler run: one executor per day; nothing executed that was not announced;
  nothing unknown repeated; COMPLETED hides no work; the day survives a crash.
* Capacity: caps hold; a settled reservation stays settled; follow-ups first.
* Notifier: deliveries are bounded and accounted for; a recorded outcome stands.
* Follow-ups: the touch count is the audited touches; a stopped sequence has
  nothing pending; opt-out and suppression win over everything that overlaps.
* Research queue: cap per local day, oldest first, first result stands.
* Gmail drafts: one external draft per run, none unaccounted for, ready only when
  verified, a daily cap.
* Pipeline: the strongest evidence counts, no lead passes without a result, retries
  end, a suppressed lead stays so, a run that is resumed settles.
* Website: quota, robots.txt, one new address once, a state that tells what came.
* Live sources: caps on what was requested; COMPLETED and fetched hide no loss.
* Drafting: one usable packet, bounded provider calls, versions without a gap, a
  draft under review stays there.
* Production cycle: one verdict per candidate, one row per message, no campaign left
  on, COMPLETED passes nobody over.

## 2. Modules

| Module | Models | How |
| --- | --- | --- |
| `SchedulerRun` | run, lease and jobs of one campaign day | one action per commit or executor call; `pc`, `now`, `held`, `todo`, `cur`, `tries` are a call's locals |
| `DayLedger` | what a day promises | abstract specification, implemented by `SchedulerRun` |
| `SchedulerCapacity` | reservations of one day | one action per branch of `reserve`; `used` is the planner's in-memory total |
| `SchedulerProofs` | | theorems on `SchedulerRun` and `SchedulerCapacity` |
| `Notifier` | outbox, attempts, mappings, platform | one action per commit and for the backend call |
| `NotifierProofs` | | theorems on `Notifier` |
| `Followup` | one sequence and its rows | a call computes the list of commits it will make from the row it read; each commit is an action |
| `FollowupProofs` | | theorems on `Followup` |
| `GmailDrafts` | approvals, draft runs, mappings, mailbox | one action per commit and for each provider call |
| `GmailDraftsProofs` | | theorems on `GmailDrafts`: with overlapping calls, and while calls follow one another |
| `ResearchQueue` | queue, ledger, decision-maker evidence and the recovery import | one action per read, write and commit |
| `ResearchProofs` | | theorems on `ResearchQueue` (ledger and evidence, then order and caps of the batches) and on `Website` |
| `Discovery` | ingestion of one record: duplicates, updates, leads, suppression | operators and one-commit steps that other modules compose |
| `Pipeline` | the resumable pipeline, over `Discovery` | one action per commit of one worker; imports and suppressions from elsewhere |
| `DiscoveryProofs` | | theorems on `Pipeline` and `LiveSources` |
| `LiveSources` | Google Places and Apify, over `Discovery` | one action per request, per commit and per answer of the remote side |
| `Website` | website enrichment | one action per request and commit; robots.txt read line by line |
| `ContextPackets` | knowledge packets and offers | one action per operation, each one transaction |
| `Drafting` | drafting runs, over `ContextPackets` | one action per commit and around each provider call |
| `DraftingProofs` | | theorems on `Drafting` |
| `ProductionCycle` | the production cycle and its switches, over `Discovery` | one action per commit |
| `ProductionCycleProofs` | | theorems on `ProductionCycle` |

Each `MC...` module only gives values to constants and a symmetry set.

**SchedulerRun.** `BeginWindow` is `_prepare_run` up to the lease, `FindLease`,
`MarkStale` and `Acquire` are `_acquire_lease` split where another process can
come in, `InsertRun` the run row, `Plan` the capacity phase (it may end BLOCKED),
`CreateJob` one job of the caller's specs, `LoadJob`, `StartJob`, `Invoke` and
`JobCompleted`/`JobStopped` one turn of `_execute_jobs`, with `Outcomes` the six
ways it ends. `Crash` ends a call anywhere. The clock a call uses is the one it
read when it began (`now`), as in the code. `Resume` and `CancelOrHold` come at any
time, as in the code: although it names `SCHEDULER_MAX_CONCURRENT_RUNS = 1`, neither looks
at the lease (856, 875) or asks whether somebody is inside. `Enter` records the caller
that comes while somebody is among the `intruders`; `intrusions` counts such calls. So
there can be two executors in one run, and `OneExecutor` says that one of them is then
an intruder: windows, expired leases and deaths alone never bring a second one in. The
other promises of a day (`JobsInOrder`, `UnknownNotRepeated`, the ledger) are lost to an
intruder, whose writes overwrite those of the executor it joined, and are stated for the
time before the first one. Lease ids are 1..3: the schema's
`UNIQUE (campaign_id, local_date, state)` leaves room for no more than one ACTIVE,
one RELEASED and one STALE row per day, so three is exact.

**SchedulerCapacity.** The claim of an item is the set of capacity types it takes
one unit of. Which items are suppressed or stale is chosen per plan (`bad`). A
planner handles follow-ups, then candidates, then notices; within a class the
caller's order is arbitrary, so any order is taken. `update_fixture_reservation_state`
looks at the row's state (563) only to refuse RESERVED, and writes `WHERE id=?` later
(568). Asked for a final state it is `Settle`, since nothing it read matters; asked for
RESERVED it is `BeginRenewal` and `WriteRenewal`, with anything in between: the row may
be consumed or invalidated, and its capacity given to another item, before it is
RESERVED again. `raced` remembers that a renewal had another call beside it. The caps of
calls that follow one another (`WithinCaps`) do not survive it; `ReopeningsBounded` says
what does.

**Notifier.** A message is one fingerprint; `Sends` and `Edits` are its two
actions. The backend may show the message and say so, show it and answer
*unknown*, answer *unknown* or fail without showing it, show it and then raise (a print
before its flush, 126; a call before what records it, 223), or die after showing it. An
exception is recorded as FAILED in every case (600), and a FAILED row is delivered again.
`delivered` counts what the platform showed, `broken` remembers the attempts that raised
after the display, and `DeliveriesTraced` counts deliveries by attempts that are not
FAILED or are among those. A message is shown at most `MaxAttempts` times, for the limit
counts FAILED attempts too.

**Followup.** `plan[p]` is the rest of a call: the list of commits computed from
the row as it was read. This is how the code works (`sequence` is fetched once,
`_set_state` writes from it), and it is what lets the model overlap calls at every
commit. `due` abstracts `next_due_at` to none, future and past. A reply is its
category and its `explicit_opt_out` flag. `audited` is the `to_state` of the last
lifecycle transition. Configuration gates and identity checks of the arguments are
preconditions: a call that fails them changes nothing. Three behaviours of the code
that the model has and no property forbids: a NOT_INTERESTED reply with
`explicit_opt_out` on a sequence that is over suppresses nobody (712); processing a
due sequence a second time takes an approved follow-up out of AWAITING_MANUAL_SEND,
and nothing returns it there (630); a death between a reply's row and its suppression
loses the opt-out, because the retry is answered as reused.

**ResearchQueue.** Candidates are numbered in `created_at, id` order, so `FirstRows`
is the `ORDER BY`. Handoffs arrive through `CommitDiscovery` and
`CommitQualification`, the two commits of `commit_upstream` that touch what the
queue reads, and in the queue's order; any number of research calls may happen
between them, as after a crash between the two. A rerun overwrites what the queue
completed meanwhile (`paldo_recovery.py:619`), which is why `ResearchStands` excepts
these stages. As committed, `commit_upstream` cannot get that far: it calls
`_load_inputs` with five arguments where seven are required (718), and `main` reads
`args.northfield` and `args.us`, which its parser does not define. The stages are
modelled as they run when their inputs are loaded. Evidence on a decision maker is
the set of agents whose sources are in it.

**GmailDrafts.** A draft stands for its run: the schema allows one per draft version.
`CheckReadiness` is the preview of the payload with everything it reads: what the
environment may change (suppressions, evidence, configuration) is one free choice of
three outcomes, the daily cap is computed. `mailbox` and `creations` are the provider:
the drafts that exist and how often one was made; `Disappears` is the owner deleting
one, or a provider whose memory is gone. GET_DRAFT attempts are written and never
read: they are left out, and a call that ends because the number of its own is taken
is a call that was not made. Two behaviours of the code
that the model has and no property forbids: a run whose process died around the
provider call stays DRAFT_CREATION_PENDING, which no operation leaves; and a preview
that is not ready, be it only because the day's cap is reached, has no content hash,
so the approval is invalidated and the draft version can never be approved again.

**Discovery.** A record is known by its source id; website, e-mail and phone are
model values, absent or *bad* (not normalizable), and an address is known by its
domain, because suppressing one suppresses the other. `Outcome` is the decision,
`Store` the transaction that writes row and lead, `Collides` the unique columns of
`leads` that take the transaction back.

**Pipeline.** One worker carries one run at a time: `Fixture` and `FindRun` are the
loop of `run_fictional_pipeline_fixture`, `Resume` an operator or a scheduler,
`Process` to `Judge` the stages of `_process_run` in commits, `Observe` and `Link`
the two commits of `_store_pipeline_evidence`, `FinalRun`, `FinalLead`, `FinalMark`
those of `_finalize`. Evidence has a signal, a value and a strength. A fixture that
runs again after a death finds its own row and ingests a DUPLICATE, but its run keeps
the outcome it was created with; if the death came before the run was created, the
run is created with DUPLICATE and rejected, and so is a record that is simply sent
twice. The worker is alone: two workers on one run are not modelled.
`CrawlRaises` is an exception of the crawl other than `WebsiteEnrichmentBlockedError`,
the only one that is caught (921): the attempt is charged, the run stays open, and the
next resume charges another whatever `max_attempts` says (918). `RetriesBounded` allows
one attempt for each of these, and `RunSettles` speaks of runs whose crawls stop raising:
a site that always raises keeps its run open for ever.
`RetriesBounded` counts requalifications, too: `requalify_after_new_evidence` (1126)
sets a run RUNNING before it asks whether there is anything new, and if there is not
(812) it returns with the run left open, so that a resume charges another attempt to a
run that had used up its `max_attempts`.

**LiveSources.** `log` is the set of the day's logged requests, equal ones numbered. A
process serves one of the two sources. For Apify, `remote` is what runs there and
`rowOf` what is on file; `StartActor` may lose the answer (`unheard` counts those).
The daily cap of Google requests is not kept by the code when requests are tried again
(1810, and failed attempts of a query are not subtracted): `SucceededWithinCap` says
what is left of it. The answer for a dataset may be one that cannot be read: the client
makes `{}` of it (2597) and `fetch_dataset` no items (2576), and the dataset is
marked fetched with none. So may a poll's: it leaves the row RUNNING, as does one that
asked earlier than another that saw the run succeed. `FetchedIsIngested` therefore says
that a dataset of which any item was counted is on file as a whole, and the row tells
the others apart by `items = 0`.

**Website.** A request is answered by a record: safe or not, in time or not,
redirected or not, HTML or not. `markup` and a
malformed redirect are what the crawl raises on: an `aria-hidden` without value (289), a
link or a redirect that `urljoin` refuses (792, 759). Nothing handles these exceptions
(1048), so `Raise` ends the call and leaves the run RUNNING. `Links`, `Published` and
`Facts` say what a page shows. robots.txt is a sequence of lines and `Reading` the code's loop over them, as a recursive
function of the lines read; the
property `RobotsRespected` has a declarative reading of the same file. `UrlTwice` is
the unique index that makes the closing transaction of a site that links to its own
robots.txt fail, for good: the run stays RUNNING.

**ContextPackets and Drafting.** Of a recalled record the model keeps snapshot,
section, approval and text. `Drafting` has one lead and one campaign; `fit` gathers
what may stand against drafting, `evidence` the ids that are current. A run is its
fingerprint. What the provider answers is a set of claims, judged by `Valid`. A run
that was BLOCKED when it was inserted stays so for its fingerprint, and a redraft
request whose run is blocked stays REQUESTED: no property forbids it. `Resume` reads
the run and looks for an attempt without outcome (1253-1262); `Hold` writes
HOLD_FOR_REVIEW when it found one (1263), whatever another caller has stored since.
`shared` remembers the runs that two callers have been busy with at once: such a run may
be taken out of review with every attempt decided, and `ReviewKept` promises for it only
that the draft itself stays.

**ProductionCycle.** A candidate of a handoff has a `case`: what its payload amounts
to on its way through `_production_commit_*`. `Take` is ingestion, `Judge` the
branches after it, `Assign` the second check of the research and the campaign that
`qualify_lead` gives the lead, `Work` qualification and decision maker, `Message` and
`Commit` the outreach. A lead that a run gave to one campaign and a handoff brings in the
other lane raises in `Assign` and ends every run of that handoff there
(`paldo_os_outbound.py:1228`). A candidate may have any number of messages, each with the
flaw a check finds in it: only the first three are looked at (696), a later one is
dropped without a word; one without an idempotency key has that of its candidate,
channel and stage (728), so that a second message of one channel and stage counts as
written. `MessagesOnce` is about keys for that reason. The code's own exception handler
is `Undo`; it also runs when a second invocation is refused the lock, and then switches
the campaign of the running one off. A candidate whose source gave no collection time is collected *now*, so that a
re-run after a death UPDATES its row and REJECTS it (929); a decision maker that does
not stand up ends every re-run of its handoff in the same place (564).

Definitions whose comment says *seeded fault* (`AnyRenewed`, `MissingLate`,
`NeverKnown`, ...) are not part of the specifications: each is a plausible mistake
in the definition after it, and `PROJECT.json` pairs it with the property that
notices.

## 3. Runs

| Run | Size | What it shows |
| --- | --- | --- |
| `scheduler_run` | 2 processes, 2 jobs (one follow-up), TTL 1, time to 2, 2 crashes, or 1 and an intrusion, 2 tries; 1.2M states | one executor but for intruders, jobs in order, recovery of the day (`DayRecovers`) and the refinement of `DayLedger` |
| `scheduler_capacity` | 2 planners, 1 updater, 1 follow-up, 2 candidates; 1.3M states | caps, bounded overshoot by overlap and late renewals, who is served, what reopens |
| `notifier` | 2 processes, a send and an edit, 2 crashes, 2 failures after the display; 473k states | deliveries bounded and traced, outcomes stand |
| `notifier_twice` | 1 process, no crash | violated: an edit of a mapped message is shown twice |
| `followup` | 2 processes, a reply of any category, 3 touches, 1 crash; 2.7M states | pending work, slots, touches, audit trail; opt-out and suppression win |
| `research_queue` | 2 agents, 3 candidates in 2 handoffs, cap 2, 2 days; 1.5M states | cap, order, ledger, first packet, evidence |
| `gmail_drafts` | 2 processes, 2 drafts, cap 1, 2 days, 1 crash; 223k states | one draft per run, accounted for and verified; the daily cap |
| `pipeline` | 1 worker, 2 businesses, 2 attempts, 1 review, 1 crash or 1 crawl that raises; 244k states | evidence, verdict, retries, suppression, and that a resumed run settles |
| `website` | 2 enrichers, 2 sites of 4 pages, quota 1, 3 runs, 7 answers, 1 crash; 418k states | quota, duplicates, robots.txt, states |
| `live_sources` | 2 processes, 2 queries, 3 actor runs, 1 crash; 1.5M states | caps, whole plans, fetched datasets |
| `drafting` | 2 callers, 2 packets, 2 runs, 1 redraft, 1 crash; 262k states | packets, calls, versions, reviews |
| `production_cycle` | 2 processes, 2 handoffs that share a candidate, every case, messages flawed, doubled or too many, 1 crash; 1.7M states | verdicts, messages, campaigns, completion |

The violated run is the finding in `PROJECT.json`, which quotes the line of the
repository that says otherwise. A property of a run is often a conjunction of named
parts; each part has its comment in the module.

**Why the bounds are enough.** Two processes exhibit every pairwise overlap, and
no row is written by more than one call of a kind whose third instance would meet
anything new. One crash puts a death between any two commits, and everything after
it meets what it left; `scheduler_run` and `notifier` have two, for a death during the
recovery from a death. Every bound is a constant named in its module:

* `scheduler_run`: two jobs are enough for an order, one follow-up and one other for
  the priority. `MaxTries` stops a resume once a job has been started this often,
  `MaxTime` bounds the clock at two lease lives, so that both orphans expire. One
  intrusion (`MaxIntrusions`) lets a resume or a cancel in beside an executor at any of
  its commits; the constraint `TwoMishaps` leaves one death beside it. It cuts off no
  behaviour `DayRecovers` speaks of.
* `notifier`: `MaxBreaks` bounds the failures after the display, at the number of attempts.
* `scheduler_capacity`: every cap is 1 (`MCCap`), so that one follow-up and two
  candidates compete for one message touch and one of each candidate unit. A window asks
  for all items, a preview for the candidates (`Requests`); one process renews
  (`Updaters`), the bound per updater being proved for any number.
* `followup`: three touches are the code's own `FOLLOWUP_MAX_TOTAL_TOUCHES`, so the
  first, the follow-up and the closing touch exist. The constraint `OverlapEarly` lets
  calls overlap on the first two touches and with one kind of reply for each way a
  reply is handled; what follows one another is explored for all of them.
* `research_queue`: a cap of two with three candidates lets a day end in the middle of
  a backlog, two days let a batch straddle midnight, two handoffs let a recovery
  import arrive late. Evidence is merged on one candidate (`Sought`): the operation
  touches one row and nothing that orders the queue.
* `gmail_drafts`: two drafts while calls follow one another, which the cap needs, and
  one draft once they overlap (`OverlapOnOneDraft`).
* `pipeline`: two businesses that share a phone and a newer record of one of them make
  every duplicate decision; fixture, crawl, review and requalification each bring
  evidence of a strength of its own, in conflict with one another. `MaxRaised` bounds the
  crawls that end in an exception; with `OneMishap` a behaviour has one of these or a death.
* `website`: a site whose pages link in a circle and one that links to its
  robots.txt; two pages of four, a quota of one and three runs leave a page, a site and
  a run too many. The two robots.txt files differ in whether the rules belong to the
  agent named last or to both.
* `live_sources`: three requests for three pages of two queries, with one retry, end
  in the middle of the plan; at most one run per day and three at Apify, over two
  ticks of the clock.
* `drafting`: a sound answer of the provider and five with one fault each; two
  attempts; two packets of two snapshots. Constraints keep apart what is interesting
  apart: `FewCalls` bounds the provider calls of two runs together, `OffersFirst`
  and `PartsFirst` make the odd offers and packets before anything is drafted,
  `OneObstacle` lets a gate or missing evidence meet one caller only, and `OneRunShared`
  leaves two callers on one run with one packet or without a redraft.
* `production_cycle`: each case of a payload in the first and in the second place of
  the first handoff, while the other candidates are good; the second handoff has the
  first candidate again, in the other lane, unchanged or moved to the domain of the other,
  and once the two of one handoff share a domain. Messages: none, one with each flaw, two
  with one key, four, and one that has the key of the other candidate's.

Processes that are interchangeable are a symmetry set, where no run asks for
liveness. With these bounds every behaviour ends, so deadlock is not checked.

**Fairness.** Two runs need it. `scheduler_run` (`FairSpec`): a call that has begun
continues (a Python call runs until it returns or dies), whoever triggers the
day's window keeps asking for it, and time passes. Nothing is assumed of crashes, resume or
cancel. `DayRecovers` is the promise under it: with at most one crash the day gets
its run. With a second crash in the same window it may not: the first orphan is
already STALE, the schema allows one, and `MarkStale` fails on every later call.
`pipeline` (`Spec`): the worker goes on with its run, and an open run is
resumed again and again, as a scheduled job does; strong fairness, because a resume
is not possible while the worker is busy with another run. Fixtures, reviews,
requalifications, imports, suppressions and deaths are owed by nobody. `RunSettles`
says that every run then reaches a state that waits for nobody but a person, or that a
death left it where no resume helps; crawls that raise come to an end (`MaxRaised`).

**Overlap.** Some parts of the properties are stated for histories without overlapping
calls (`~overlapped`), because the code keeps them only there: the caps of
`CapsKept` and `BatchesInBounds`, that only an exclusive call's outcome is final
(`SettledIffMapped`, `OutcomeStands`), that tables and mailbox agree (`TablesAgree`,
`NoSecondDraft`, `CapKept`), that slots belong to pending follow-ups
(`SlotsForPending`), the audit trail (`AuditComplete`) and merged evidence
(`EvidenceKept`). Of calls that an operator makes beside
a running executor (`intrusions`) and of renewals beside another call (`raced`) the same
is true, and `NeverReopened` and `OneExecutor` name them as the one cause of what they
otherwise forbid. What survives overlap is stated without the condition:
`ReopeningsBounded` and `OvershootBounded`, `DeliveriesBounded`, `DeliveriesTraced`,
`OneSuccess`, `CreationsTraced`, `ReadyIsVerified`, `TouchesCounted`,
`OptOutSuppresses`, `NoTouchAfterSuppression`, `FirstPacketStands`,
`LedgerMatchesAnswers`, `OldestFirst`, and every property of `website`, `live_sources`,
`drafting` and `production_cycle`; where overlap makes a limit soft, as for the quota
of enrichments or the calls of a draft, the property says by how much.

## 4. Proofs

The proof modules are checked by TLAPS for every value of the constants that
satisfies the module's assumption.

* `SchedulerProofs`, on `SchedulerRun`: `TypesHold` for `Spec`; `OneExecutorHolds`,
  `CompletedMeansDoneHolds`, `FollowupsFirstHolds`, `AttemptRecordedFirstHolds`,
  `UnknownNotRepeatedHolds` and `ImplementsLedgerHolds`, all for `Spec`, with resumes and
  cancels at any time. `JobsInOrderHolds` joins some of them as the run checks them.
  `OneExecutorHolds` rests on `EntryInv`, which knows of intruders: a run is inserted
  once, and a process inside that is no intruder came when nobody was. The others
  are stated until the first intrusion, because a second executor breaks them, and rest
  on `ExecInv` for that time. Of the ledger, every step of the rows is one it allows;
  its `Reopen` is the operator's hold or cancel of a completed day (875), which the code
  allows.
  None of the properties is inductive. `ExecInv` joins them with what the code
  relies on without saying: no job row exists before the run does, a process
  outside the run has an empty list, `todo` and `cur` of the one process inside
  describe exactly the rows that are not complete yet (split by phase: queueing,
  list complete, current job), and after COMPLETED nothing executes. The proof
  that a step preserves it has one lemma per action; the refinement maps each job
  state to one of four and each step to a ledger step or a stutter.
* `SchedulerProofs`, on `SchedulerCapacity`: `CapacityTypesHold`, `WithinCapsHolds`,
  `FollowupsServedFirstHolds`, `SuppressedHoldNothingHolds`, `ItemsServedHolds`,
  `NeverReopenedHolds` for `CapacitySpec`, renewals reading and writing apart.
  `RenewalsFresh` says that a renewal nothing has raced still finds what it read;
  `CapacityInv` adds
  that a lone planner's in-memory total is at least what the table holds, that
  classes are finished in order, and that refused items are remembered; it rests on
  lemmas on the cardinality of the held set when one item enters or leaves it.
  `ReopeningsBoundedHolds` counts, with what is held, what a renewal may still reopen
  (`ReachFits`): a lone plan sees all that is held, and what it does not see is one item
  for each process that renews.
  `CapsKeptHolds` adds `OvershootBounded`, for finitely many planners: `SharesInv` says
  that what is held can be divided into shares, one per planner, each within a cap and
  within its planner's totals however stale those are for what the others hold; an item
  inserted anew moves to the share of who inserted it. Numbers within each share then
  count what is held.
* `GmailDraftsProofs`: `TypesHold`, `ReadyHolds` and `CreationsTracedHolds` for
  `Spec`, overlapping calls included. That every draft has its row is not inductive:
  the provider answers in one step and the row is finished in another. `TracedInv`
  adds that no two calls work on one attempt (the insert of a taken number fails)
  and that a draft has at most as many creations as attempts whose provider call is
  over (`MadeBehind`); an attempt is announced ahead of its call and falls behind
  with it, and in all other steps nothing comes back (`Calm`).
  Its second half proves `TablesAgreeHolds`, `NoSecondDraftHolds` and `CapKeptHolds`, and `DraftsAccountedHolds`, which joins the parts of the run's
  invariant, for `Spec`; the properties speak of behaviours whose calls follow
  one another. `LoneInv` says what the rows of a draft say of each other and of the
  mailbox (`RowsFit`: the run whose id is known and whose outcome is open has no
  confirmed attempt, an approved run has nothing in the mailbox, ...) and what the
  call in progress has made sure of at each label (`CreateFits`, `GetFits`: the
  approval, the missing mapping, the room under the cap). The cap adds that only a
  recorded creation extends a day.

* `ResearchProofs`: `TypesHold`, `LedgerMatchesAnswersHolds` and
  `ResearchStandsHolds` for `Spec`. `QueueInv` joins the ledger with what the calls in
  progress know (`CallsKnow`: a call that commits has a candidate, one that merges
  names an agent), that without overlap one process is not idle (`LoneAgent`), and
  that the evidence it is about to write then misses nothing that is in the row
  (`NothingMissed`). The action property follows from it step by step.
  Its second half proves `BatchesInBoundsHolds` for `Spec`. Order holds whatever
  overlaps: `OrderInv` says that candidates appear handoff by handoff (`NoGap`) and
  that rows which were read leave nobody older behind (`RowsClosed`); an older
  candidate then shares every batch with a younger one, because `Before` ranks them
  and the cut keeps the lower ranks. The cap holds while calls follow one another:
  `Balance` keeps what a day has completed, plus all that may still be committed,
  within the cap, and says that no later day has any; a commit moves one candidate
  from the second to the first. Both invariants were checked with TLC before the proof.
  Its third part is on `Website`: `QuotaOvershootBoundedHolds`, `OneFirstContactHolds`,
  `RobotsRespectedHolds`, `OnlyDeathsLeaveRunningHolds` and `StateTellsPagesHolds` for
  `WebsiteSpec`, for every number of enrichers, every site and every robots.txt. `WebInv`
  says which run a call works on, and that it is a run of the call's site (`Owns`);
  what a call knows of its site when it asks for a page, that no page is asked for twice (robots.txt only
  where a page links to it), and that no page is asked for under a robots.txt that was
  read and does not allow the start page (`Sound`, `Cleared`); of runs that are
  over, what their state tells (`Closes`); that the runs kept, together with the calls
  between gate and insert, exceed the quota by less than the number of enrichers
  (`QuotaInv`); and that the runs nobody works on (`Orphans`), those that raised apart, are no more than the deaths.
  `ForbiddenIsDenied` is about the reader of robots.txt (`step6_website_enrichment.py`,
  `_robots_allows`) for files of any length. It goes by induction over the lines without
  an induction theorem: were some number of lines read wrongly, there would be a least
  one (`LeastOf`, from `WFMin`), and the line before it refutes that. Assumed of the
  constants: there are enrichers and finitely many, a robots.txt is a finite sequence of
  lines, links lead to pages, `Home` is not the robots.txt, and a crawl reads a page at
  least.
* `NotifierProofs`: `DeliveriesAccountedHolds` and `OutcomeStandsHolds` for `Spec`.
  `FlightInv` holds with overlapping calls: an attempt belongs to one call
  (`NumbersDiffer`; the insert of a taken number fails), and a message was shown at
  most as often as it has attempts that are neither failed nor undecided
  (`ShownBehind`). An attempt counts as undecided until the platform has answered, and
  after that while its call holds a refusal; so the step that shows the message is the
  one that moves its attempt over. A recorded success has its mapping, whose primary
  key leaves no room for a second. `LoneInv` adds for calls that follow one another
  what a row says of the call in progress (`RowAwaits`) and of its mapping
  (`MappingsFit`).

* `FollowupProofs`: `TypesHold`, `RowsInStepHolds`, `AuditCompleteHolds`,
  `OptOutSuppressesHolds` and `NoTouchAfterSuppressionHolds` for `Spec`. A call is the
  list of commits it will still make, so `SequenceInv` speaks of lists. `Shape` says
  which commits may follow which whatever of the list is done (a touch comes first, an
  audit entry follows the state it reports, a suppression follows its reply); the rest
  says what a list supposes of the tables: the touch it will record is at most the next
  one (`Counted`), what it keeps pending is pending and a stop comes after a
  cancellation (`KeepsPending`, `StopsClear`, while calls follow one another). Each
  commit takes the head of one list; each beginning call makes a list that is `Fresh`.
  The assumption gained that `NoReply` is not a reply.
* `DraftingProofs`: `TypesHold`, `OneReadyPacketHolds`, `CallsBoundedHolds`,
  `VersionsInOrderHolds` and `ReviewKeptHolds` for `Spec`. That calls are bounded rests
  on `AttemptInv`: an attempt is committed before its call, under a number its caller
  alone has, because the row of a taken number is refused; so a run has as many attempts
  as calls (`CallInv`). `VersionInv` says of a version that was read before the
  transaction which uses it that it is free or the index refuses it. For `ReviewKept`,
  a run that was never shared has one caller at most, so what that caller read of it
  still holds when it writes, and an attempt it found without outcome was left by a death. The
  assumption on the required sections says that there are some
  (`REQUIRED_GOLD_SECTIONS` is a literal, `step8_knowledge_context.py:24`).
* `ProductionCycleProofs`: `OneVerdictHolds`, `MessagesOnceHolds`, `ActiveInLaneHolds` and
  `CompletedIsWholeHolds` for `Spec`. The lock makes the processes take turns
  (`LockInv`), but it dies with its holder, so what matters is in the log. `WorkInv`
  says of the process in a cycle that the candidate at hand has no verdict yet but an
  exclusion by name (`Decides`; it is read once, before the ingestion, and used up to
  three commits later), that the messages it has counted are written, and that every
  candidate it has passed is dealt with (`Passes`). Nothing that is dealt with ever
  ceases to be (`DealtStays`): rows of leads are never removed and the log only grows. The
  last lane closed, all candidates have been passed. What is assumed of the constants:
  records of an import have the fields the normalisation reads and their keys, a status
  is one of the schema's (`paldo_os_outbound.py:326`), and a handoff passes the checks made
  before anything is written (836-867). Nothing is assumed of the number of messages or
  of their keys. `MessagesOnce` speaks of the handoff that was run, because two handoffs
  may give one candidate different messages.

* `DiscoveryProofs`: `EvidenceSoundHolds`, `QualifiedHasResultHolds`,
  `RetriesBoundedHolds` and `DoNotContactStandsHolds` for `Spec`, over every set of
  records, evidence and fixtures. Since the worker may die anywhere, each invariant says
  what a place in the call relies on. `LinkInv`: places in the trail and evidence rows
  say alike which is current, one row per place, of a signal's places exactly one is
  current and it is the strongest; the row stored last has no place while a call waits to
  link it, and each further row without a place is owed to a death. That the row a lost
  rival has is nobody else's is what makes the two updates of `Link` agree. `VerdictInv`:
  a verdict that passes has its result on file, which stays. `AttemptsInv`: a run to which
  an attempt may still be charged without a death or a review (`Chargeable`) is below its
  bound, any other at most at it; a crawl that raises raises the bound by one. `Standing` is an invariant of one lead from the moment
  it is DO_NOT_CONTACT and suppressed with no call in progress: whatever call takes up
  its run is before the suppression check, or has the verdict SUPPRESSED; an import
  leaves every lead its status. Assumed of the constants: `Raw` is part of
  `Imports` (a fixture's records are ingested by the operation imports use), evidence has
  a supported signal and a value of the three, and `MaxAttempts` is at least one
  (`CHECK (max_attempts >= 1)`, `step7_pipeline.py:131`).
  The proof corrected `RetriesBounded`, which did not count requalifications and is false
  once there are two of them.
  Its second half proves `SucceededWithinCapHolds`, `CompletedMeansWholePlanHolds`,
  `FetchedIsIngestedHolds` and `RunsBoundedHolds` for `SourcesSpec`, over every plan, cap,
  number of retries and of processes. `SourcesInv` says of a process what its call has
  done so far (`CallsSound`): the search it works on is open and its own, every query
  before the one at hand was answered and its records are on file or still to be ingested,
  the run it polls or fetches ended the way it saw, what it fetched is all of the dataset
  or nothing. `CapInv` holds the cap in a form that
  steps keep: the requests that brought a page, with the pages each open search may still
  ask for, stay within the cap once per process searching. A retry that fails changes
  neither, and a search that begins brings in no more than the cap. `RunsInv` counts
  actor runs by where they are: on file, being started, started without a row; each of
  the last is owed to an answer not heard, to a death, or to a process about to write it
  down. A row says RUNNING or what became of the run at Apify (`ActorRowsSound`), since a
  run that has ended stays as it is; so a row polled late is not wrong. Assumed of the
  constants: a plan has a query and each a page or more (`set_google_query_plan`),
  finitely many processes, pages and datasets are finite sequences of records that
  ingestion takes, caps are natural numbers.

The invariants of these six were checked with TLC, on the instances of section 3
(that of the pipeline also with two reviews), before they were proved.

**Only model-checked.** `DayRecovers` and `RunSettles`: they are liveness under
fairness, which the prover does not reason about (nor about ENABLED). Every safety
invariant and action property of the runs is stated by a theorem. What the recursive
definitions compute is proved only where a least counterexample could be made of it
(`ForbiddenIsDenied`).

## 5. Not modelled

* Checkpoints of the scheduler, weekly reviews, provenance summaries, readiness
  inspection: they read, or append to logs nothing reads back.
* Configuration gates (caps of zero, fixture override, canonical path): a call
  they refuse changes nothing.
* Text: fingerprints, normalisation, message formats, HTML, e-mail patterns. Where the
  outcome matters it is a constant or a free choice.
* Audit requests and their intake (step 9); ledger, lock, proposals and cards of the
  recovery import; the fictional integration, the pilot and the manual outcome events
  (step 22); identity, personalisation, revisions, expansion and the pollers: one insert
  per record, files or subprocesses. `PROJECT.json` gives the reason of each.
* Two workers on one pipeline run, several follow-up sequences under one daily cap,
  several leads in drafting: one instance of each is modelled.
* Behaviours the models have and no property speaks of, because nothing in the
  repository says otherwise: a job's attempts grow past `SCHEDULER_MAX_ATTEMPTS` on every
  resume (`step14_scheduler.py:701`); jobs not created before a death are unknown to a
  resume (689); a BLOCKED run can be resumed and becomes COMPLETED without jobs (789);
  an outbox row left QUEUED by two attempts that died can be neither retried nor
  reconciled (`notifier.py:577`); a sequence on hold keeps its `next_due_at` and is
  processed again (`step12_followup.py:886`).
* Two defects met while reading that no model is needed for:
  `step22_integration.py:474` passes `provider=` to `queue_notification`, whose
  parameter is `notifier`; the command line of `paldo_research_queue.py` uses
  `DEFAULT_DB_PATH` without importing it.

## 6. Plan

Done, in this order: scheduler run with its ledger and proofs, capacity with its
proofs, notifier, follow-ups, research queue with the recovery import, Gmail drafts with
their proofs; then ingestion and the pipeline over it, the live sources, website
enrichment, packets and drafting, the production cycle, and the proofs on the
research queue, the notifier, follow-ups, drafting, the production cycle, the
pipeline, website enrichment and the live sources.

1. Compositions: `GmailDrafts` and `Followup`, whose sequences start from a verified
   draft; `SchedulerRun` and `SchedulerCapacity`, for what becomes of the reservations
   of a BLOCKED run that is resumed.
2. Two workers in `Pipeline`; several sequences in `Followup` under the daily cap.
3. The rest of the recovery import: lock, ledger of production runs, proposals. The
   LinkedIn match and the opportunity queue (step 23). Audit requests (step 9).
4. Abstract specifications for the notifier and the research queue, and the proof that
   the detailed ones implement them.
