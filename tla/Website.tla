------------------------------ MODULE Website ------------------------------
(***************************************************************************)
(* Website enrichment, step6_website_enrichment.py: enrichers that pass    *)
(* the gate, open a run, crawl the candidate's site page by page and keep  *)
(* what they found in one transaction.  An enricher is a process of its    *)
(* own (the pipeline, an operator's call) and may die at any point.  Each  *)
(* request may be answered anyhow.  The pause between two requests and the *)
(* text of pages are left out.                                             *)
(***************************************************************************)
EXTENDS Naturals, Sequences, FiniteSets, SequencesExt

CONSTANTS
  Enrichers,
  Sites,      \* websites of candidates
  Urls, Home, Robots, \* pages of a site, its start and its /robots.txt
  Links,      \* per site: anchors of a page to the site, in document order
  Rank,       \* _link_priority, then the URL: the order links are taken in
  Addresses,  \* e-mail addresses
  Published,  \* of a page: [addr, mailto, excluded]
  Facts,      \* of a page: [signal, value]
  Signals, Channels, \* workflow signals; those that are ways to book
  Answers,    \* what a request may meet (see PageStatus)
  RobotsFiles,\* contents of robots.txt: sequences of lines
  MaxPages, Quota,
  MaxRuns,    \* bound: enrichments started
  MaxCrashes, \* bound: deaths
  None

(* What SafeWebsiteHTTPClient or an injected client may come back with.     *)
IsAnswer(a) ==
  /\ a.result \in {"ok", "TIMEOUT", "SOURCE_ERROR"} /\ a.code \in Nat
  /\ a.hops \in {"few", "many", "away", "malformed"}
  /\ a.markup \in {"fine", "attribute", "href"}
  /\ \A f \in {"safe", "html", "large", "shell"} : a[f] \in BOOLEAN

(* A line of robots.txt: a user-agent, ours is only ever "*", or a rule    *)
(* with the length of its path and whether that is a prefix of ours.       *)
Lines == [field : {"user-agent"}, agent : STRING]
           \union [field : {"allow", "disallow"}, length : Nat, hit : BOOLEAN]

ASSUME WebsiteAssumption ==
  /\ IsFiniteSet(Enrichers) /\ Enrichers # {} /\ None \notin Sites
  /\ \A a \in Answers : IsAnswer(a)
  /\ RobotsFiles \subseteq Seq(Lines)
  /\ Links \in [Sites -> [Urls -> Seq(Urls)]] /\ Rank \in [Urls -> Nat]
  /\ \A u \in Urls : \A p \in Published[u] : p.addr \in Addresses
  /\ Home \in Urls /\ Robots \in Urls \ {Home} /\ Channels \subseteq Signals
  /\ {MaxPages, Quota, MaxRuns, MaxCrashes} \subseteq Nat /\ MaxPages > 0

VARIABLES
  run,      \* website_enrichment_runs with pages, contacts and evidence
  leads,    \* addresses of leads
  blocked,  \* suppressed addresses
  paused,   \* the system is PAUSED, or discovery or the campaign is not live
  where, job,  \* of an enricher: where it is, and the crawl it holds
  raised,   \* history: runs whose crawl ended in an exception
  crashes

websiteVars == <<run, leads, blocked, paused, where, job, raised, crashes>>

NoJob == [site |-> None, run |-> 0, queue |-> << >>, seen |-> {}, pages |-> << >>,
          file |-> << >>, state |-> "none"]

-----------------------------------------------------------------------------
(* robots.txt.                                                             *)
(***************************************************************************)
(* A user-agent after rules closes the group before it.  Seeded fault: it  *)
(* joins that group.                                                       *)
Closed(g) == IF g.agents # {} /\ g.rules # << >>
             THEN [groups |-> Append(g.groups, [agents |-> g.agents, rules |-> g.rules]),
                   agents |-> {}, rules |-> << >>]
             ELSE g
JoinLine(g, line) ==
  IF line.field = "user-agent" THEN [g EXCEPT !.agents = @ \union {line.agent}]
  ELSE IF g.agents # {} THEN [g EXCEPT !.rules = Append(@, line)] ELSE g
ReadLine(g, line) ==
  IF line.field = "user-agent" THEN [Closed(g) EXCEPT !.agents = @ \union {line.agent}]
  ELSE IF g.agents # {} THEN [g EXCEPT !.rules = Append(@, line)] ELSE g

(* What has been read of the file, line by line. *)
NothingRead == [groups |-> << >>, agents |-> {}, rules |-> << >>]
Reading(file) ==
  LET read[i \in 0..Len(file)] ==
        IF i = 0 THEN NothingRead ELSE ReadLine(read[i - 1], file[i])
  IN read
Groups(file) == Closed(Reading(file)[Len(file)]).groups

(* The longest matching rule decides, the first of equals. *)
RobotsAllows(file) ==
  LET groups == Groups(file)
      Rule(m) == groups[m[1]].rules[m[2]]
      mine == {m \in (1..Len(groups)) \X (1..Len(file)) :
                 /\ "*" \in groups[m[1]].agents /\ m[2] <= Len(groups[m[1]].rules)
                 /\ Rule(m).length > 0 /\ Rule(m).hit}
      Before(m, n) ==
        \/ Rule(m).length > Rule(n).length
        \/ /\ Rule(m).length = Rule(n).length
           /\ (m[1] < n[1] \/ (m[1] = n[1] /\ m[2] <= n[2]))
  IN mine = {} \/ \E m \in mine : (\A n \in mine : Before(m, n))
                                  /\ Rule(m).field = "allow"

-----------------------------------------------------------------------------
(* validate_website_url: resolved anew each time it is asked. *)
SafeDestination(a) == a.safe

(* request_page: what an answer makes of a page, in the order of its       *)
(* checks.  An answer says whether the URL resolved to a safe address, how *)
(* the request ended, whether it was redirected too often, away from the   *)
(* site or to no URL at all, whether it is HTML, too large, or a shell     *)
(* that wants JavaScript.  What cannot be read raises, and nobody catches  *)
(* it: a redirect or a link that is no URL, an aria-hidden without value.  *)
PageStatus(a, robots) ==
  IF ~SafeDestination(a) THEN IF robots THEN "ROBOTS_UNAVAILABLE" ELSE "UNSAFE_DESTINATION"
  ELSE IF a.result # "ok" THEN a.result
  ELSE IF a.hops = "many" THEN "REDIRECT_LIMIT"
  ELSE IF a.hops = "away" THEN "UNSAFE_REDIRECT"
  ELSE IF a.hops = "malformed" THEN "RAISED"
  ELSE IF ~robots /\ ~a.html THEN "NON_HTML"
  ELSE IF a.large THEN "PAGE_TOO_LARGE"
  ELSE IF robots THEN "ROBOTS_FETCHED"
  ELSE IF a.markup = "attribute" THEN "RAISED"
  ELSE IF a.shell THEN "RENDER_REQUIRED"
  ELSE IF a.markup = "href" THEN "RAISED" ELSE "FETCHED"

(* What robots.txt makes of the crawl. *)
RobotsVerdict(status, code, file) ==
  IF status \in {"ROBOTS_UNAVAILABLE", "TIMEOUT", "SOURCE_ERROR"} THEN "BLOCKED"
  ELSE IF status = "ROBOTS_FETCHED"
  THEN IF code = 200 /\ ~RobotsAllows(file) THEN "ROBOTS_DENIED" ELSE "go"
  ELSE IF code = 404 THEN "go" ELSE "BLOCKED"

Fetched(pages) == {pages[i].url : i \in {j \in DOMAIN pages : pages[j].status = "FETCHED"}}
FetchCount(pages) == Cardinality({i \in DOMAIN pages : pages[i].status = "FETCHED"})

(* Anchors of a page that lead to the site itself. *)
Anchors(site, url) == Links[site][url]

(* _link_priority: booking first, then contact, then the rest, and of the  *)
(* same priority by URL.                                                   *)
GoesFirst(links, k, i) ==
  Rank[links[k]] < Rank[links[i]] \/ (Rank[links[k]] = Rank[links[i]] /\ k < i)

(* New links of a page, as they are queued: one that is there twice twice. *)
New(j, links) == {i \in DOMAIN links : links[i] \notin j.seen \union ToSet(j.queue)}
Place(new, links, i) == Cardinality({k \in new : k = i \/ GoesFirst(links, k, i)})
NewLinks(j, url) ==
  LET links == Anchors(j.site, url)
      new   == New(j, links)
  IN [n \in 1..Cardinality(new) |-> links[CHOOSE i \in new : Place(new, links, i) = n]]

(* A crawl fails only if no page came.  Seeded fault: any error fails it.  *)
Errors == {"TIMEOUT", "SOURCE_ERROR", "PAGE_TOO_LARGE", "NON_HTML", "REDIRECT_LIMIT"}
AnyErrorFails(pages) ==
  IF \E i \in DOMAIN pages : pages[i].status \in Errors THEN "SOURCE_ERROR" ELSE "COMPLETED"
CrawlState(pages) ==
  IF Fetched(pages) = {} /\ \E i \in DOMAIN pages : pages[i].status \in Errors
  THEN "SOURCE_ERROR" ELSE "COMPLETED"

(* A page that has been taken is not taken again.  Seeded fault: it is. *)
NeverVisited(j, url) == FALSE
Visited(j, url) == url \in j.seen

-----------------------------------------------------------------------------
(* What the fetched pages show a reader; scripts and styles show nothing.  *)
Shown(pages, of) == UNION {of[u] : u \in Fetched(pages)}

(* Neither malformed nor a placeholder, nor of somebody else's. *)
Usable(p) == ~p.excluded

(* extract_public_email_candidates over the pages fetched: a visible       *)
(* address, or one behind mailto that was not accepted already.            *)
Contacts(pages) == {p.addr : p \in {q \in Shown(pages, Published) : Usable(q)}}

(* _stored_email_duplicate.  Seeded fault: only leads count. *)
LeadHas(e) == e \in leads
OnFile(e) ==
  e \in leads \/ \E i \in DOMAIN run : \E c \in run[i].contacts : c.addr = e

(* validate_public_email; mx is the answer of the name server. *)
Validated(e, mx) ==
  [addr |-> e,
   state |-> IF e \in blocked THEN "SUPPRESSED"
             ELSE IF mx = "yes" THEN "VALID_SYNTAX_AND_MX"
             ELSE IF mx = "no" THEN "VALID_SYNTAX_NO_MX" ELSE "VALID_SYNTAX_MX_UNKNOWN",
   duplicate |-> e \notin blocked /\ OnFile(e)]

(* extract_workflow_evidence: a denial anywhere outweighs any mention.     *)
(* Booking by any way is derived from the other signals.                   *)
SignalValue(pages, s) ==
  LET values == {f.value : f \in {g \in Shown(pages, Facts) : g.signal = s}}
  IN IF "NO" \in values THEN "NO" ELSE IF "YES" \in values THEN "YES" ELSE "UNCLEAR"
Evidence(pages) ==
  [s \in Signals \union {"appointment_channels"} |->
     IF s # "appointment_channels" THEN SignalValue(pages, s)
     ELSE IF \E c \in Channels : SignalValue(pages, c) = "YES" THEN "YES" ELSE "UNCLEAR"]

-----------------------------------------------------------------------------
WebsiteInit ==
  /\ run = << >> /\ leads = {} /\ blocked = {} /\ paused = FALSE
  /\ where = [e \in Enrichers |-> "idle"] /\ job = [e \in Enrichers |-> NoJob]
  /\ raised = {} /\ crashes = 0

Move(e, label, j) ==
  /\ where' = [where EXCEPT ![e] = label] /\ job' = [job EXCEPT ![e] = j]
  /\ UNCHANGED <<leads, blocked, paused, raised, crashes>>

(* The exception leaves enrich_website_candidate, and the run RUNNING. *)
Raise(e) ==
  /\ where' = [where EXCEPT ![e] = "idle"] /\ job' = [job EXCEPT ![e] = NoJob]
  /\ raised' = raised \union {job[e].run}
  /\ UNCHANGED <<leads, blocked, paused, crashes>>

(* _gate_enrichment: the switches, then the quota.  Seeded fault: one run  *)
(* more than the quota.                                                    *)
QuotaReached == Len(run) <= Quota
QuotaLeft == Len(run) < Quota
Gate(e, site) ==
  /\ where[e] = "idle" /\ Len(run) < MaxRuns
  /\ ~paused /\ QuotaLeft
  /\ Move(e, "open", [NoJob EXCEPT !.site = site]) /\ UNCHANGED run

(* The run is opened in a commit of its own, after the gate was read. *)
OpenRun(e) ==
  /\ where[e] = "open"
  /\ run' = Append(run, [site |-> job[e].site, state |-> "RUNNING", pages |-> << >>,
                         contacts |-> {}, evidence |-> None])
  /\ Move(e, "robots", [job[e] EXCEPT !.run = Len(run) + 1])

(* The site may have become unsafe since the gate looked. *)
Unsafe(e) ==
  /\ where[e] = "robots"
  /\ Move(e, "keep", [job[e] EXCEPT !.state = "BLOCKED",
                        !.pages = <<[url |-> Home, status |-> "UNSAFE_DESTINATION"]>>])
  /\ UNCHANGED run

AskRobots(e, a, file) ==
  /\ where[e] = "robots"
  /\ LET status  == PageStatus(a, TRUE)
         verdict == RobotsVerdict(status, a.code, file)
         page    == [url |-> Robots,
                     status |-> IF verdict = "ROBOTS_DENIED" THEN verdict ELSE status]
         read    == status = "ROBOTS_FETCHED" /\ a.code = 200
         j       == [job[e] EXCEPT !.pages = <<page>>, !.file = IF read THEN file ELSE @]
     IN IF status = "RAISED" THEN Raise(e)
        ELSE IF verdict = "go" THEN Move(e, "crawl", [j EXCEPT !.queue = <<Home>>])
        ELSE Move(e, "keep", [j EXCEPT !.state = verdict])
  /\ UNCHANGED run

MayFetch(j) == j.queue # << >> /\ FetchCount(j.pages) < MaxPages

Visit(e, a) ==
  /\ where[e] = "crawl" /\ MayFetch(job[e])
  /\ LET j      == job[e]
         url    == Head(j.queue)
         status == PageStatus(a, FALSE)
         next   == [j EXCEPT !.queue = Tail(@), !.seen = @ \union {url},
                             !.pages = Append(@, [url |-> url, status |-> status])]
     IN \/ /\ Visited(j, url)
           /\ Move(e, "crawl", [j EXCEPT !.queue = Tail(@)])
        \/ /\ ~Visited(j, url) /\ status = "FETCHED"
           /\ Move(e, "crawl", [next EXCEPT !.queue = @ \o NewLinks(next, url)])
        \/ /\ ~Visited(j, url) /\ status = "RENDER_REQUIRED"
           /\ Move(e, "keep", [next EXCEPT !.state = status])
        \/ /\ ~Visited(j, url) /\ status \in {"UNSAFE_REDIRECT", "UNSAFE_DESTINATION"}
           /\ Move(e, "keep", [next EXCEPT !.state = "BLOCKED"])
        \/ /\ ~Visited(j, url) /\ status \in Errors
           /\ Move(e, "crawl", next)
        \/ /\ ~Visited(j, url) /\ status = "RAISED"
           /\ Raise(e)
  /\ UNCHANGED run

Crawled(e) ==
  /\ where[e] = "crawl" /\ ~MayFetch(job[e])
  /\ Move(e, "keep", [job[e] EXCEPT !.state = CrawlState(job[e].pages)])
  /\ UNCHANGED run

(* UNIQUE (run_id, url) of the pages: a URL that was requested twice fails *)
(* the transaction that would close the run.                               *)
UrlTwice(pages) ==
  \E i, j \in DOMAIN pages : i # j /\ pages[i].url = pages[j].url

Keep(e, mx) ==
  /\ where[e] = "keep"
  /\ LET j == job[e] IN
     IF UrlTwice(j.pages) THEN UNCHANGED run
     ELSE run' = [run EXCEPT ![j.run] =
            [site |-> j.site, state |-> j.state, pages |-> j.pages,
             contacts |-> {Validated(c, mx) : c \in Contacts(j.pages)},
             evidence |-> Evidence(j.pages)]]
  /\ Move(e, "idle", NoJob)

Die(e) ==
  /\ where[e] # "idle" /\ crashes < MaxCrashes
  /\ crashes' = crashes + 1
  /\ where' = [where EXCEPT ![e] = "idle"] /\ job' = [job EXCEPT ![e] = NoJob]
  /\ UNCHANGED <<run, leads, blocked, paused, raised>>

(* A lead, a suppression or a switch of the operator, from elsewhere. *)
Elsewhere ==
  /\ \/ \E a \in Addresses : leads' = leads \union {a} /\ UNCHANGED <<blocked, paused>>
     \/ \E a \in Addresses : blocked' = blocked \union {a} /\ UNCHANGED <<leads, paused>>
     \/ paused' = ~paused /\ UNCHANGED <<leads, blocked>>
  /\ UNCHANGED <<run, where, job, raised, crashes>>

Work(e) ==
  \/ OpenRun(e) \/ Unsafe(e) \/ Crawled(e)
  \/ \E a \in Answers, file \in RobotsFiles : AskRobots(e, a, file)
  \/ \E a \in Answers : Visit(e, a)
  \/ \E mx \in {"yes", "no", "unknown"} : Keep(e, mx)

WebsiteNext ==
  \/ \E e \in Enrichers, site \in Sites : Gate(e, site)
  \/ \E e \in Enrichers : Work(e) \/ Die(e)
  \/ Elsewhere

WebsiteSpec == WebsiteInit /\ [][WebsiteNext]_websiteVars

-----------------------------------------------------------------------------
(* Type invariant of the runs and of the crawl an enricher holds. *)
WebsiteTypeOK ==
  /\ \A i \in DOMAIN run :
       /\ run[i].site \in Sites
       /\ run[i].state \in {"RUNNING", "COMPLETED", "SOURCE_ERROR", "RENDER_REQUIRED",
                            "BLOCKED", "ROBOTS_DENIED"}
       /\ \A c \in run[i].contacts : c.addr \in Addresses /\ c.duplicate \in BOOLEAN
  /\ leads \union blocked \subseteq Addresses /\ paused \in BOOLEAN
  /\ raised \subseteq DOMAIN run /\ crashes \in 0..MaxCrashes
  /\ where \in [Enrichers -> {"idle", "open", "robots", "crawl", "keep"}]
  /\ \A e \in Enrichers : /\ job[e].site \in Sites \union {None}
                          /\ job[e].run \in 0..Len(run) /\ job[e].seen \subseteq Urls

(* The quota is exceeded only by enrichers that read it before one of them *)
(* opened its run (_gate_enrichment, enrich_website_candidate).            *)
QuotaOvershootBounded == Len(run) <= Quota + Cardinality(Enrichers) - 1

(* One run at most offers an address as new, whichever enrichers found it  *)
(* and in whatever order they kept it (_stored_email_duplicate).           *)
OneFirstContact ==
  \A i, j \in DOMAIN run : \A c \in run[i].contacts, d \in run[j].contacts :
    c.addr = d.addr /\ i # j /\ c.state # "SUPPRESSED" /\ d.state # "SUPPRESSED"
      => c.duplicate \/ d.duplicate

(* A site whose robots.txt forbids its start page to every robot is left   *)
(* alone.  A rule applies to the user-agents named last before it; the     *)
(* longest rule decides.                                                   *)
Applies(file, i) ==
  /\ file[i].field # "user-agent" /\ file[i].hit /\ file[i].length > 0
  /\ \E k \in 1..(i - 1) :
       /\ file[k].field = "user-agent" /\ file[k].agent = "*"
       /\ \A l \in k..i, m \in k..i : l < m /\ file[l].field # "user-agent"
                                      => file[m].field # "user-agent"
Forbids(file) ==
  \E i \in DOMAIN file :
    /\ Applies(file, i) /\ file[i].field = "disallow"
    /\ \A j \in DOMAIN file : Applies(file, j) /\ j # i => file[j].length < file[i].length
RobotsRespected ==
  \A e \in Enrichers : (\E i \in DOMAIN job[e].pages : job[e].pages[i].url # Robots)
    => ~Forbids(job[e].file)

(* A run is left RUNNING only by a death, by a redirect or a markup that   *)
(* raises in the crawl, or by a site that links to its own robots.txt,     *)
(* whose URL would be kept twice; every other ending is recorded.          *)
LinksRobots(site) == \E u \in Urls : Robots \in ToSet(Links[site][u])
OnlyDeathsLeaveRunning ==
  Cardinality({i \in DOMAIN run \ raised : run[i].state = "RUNNING" /\ ~LinksRobots(run[i].site)
                                   /\ \A e \in Enrichers : job[e].run # i}) <= crashes

(* A COMPLETED run fetched a page, a run in SOURCE_ERROR none; what any    *)
(* run keeps was on a page it fetched, the blocked ones included.          *)
StateTellsPages ==
  /\ WebsiteTypeOK
  /\ \A i \in DOMAIN run : run[i].state # "RUNNING" =>
       LET pages == Fetched(run[i].pages) IN
       /\ run[i].state = "COMPLETED" => pages # {}
       /\ run[i].state \in {"SOURCE_ERROR", "ROBOTS_DENIED"} => pages = {}
       /\ pages = {} => run[i].contacts = {}
       /\ \A s \in Signals : run[i].evidence[s] # "UNCLEAR" => pages # {}
=============================================================================
