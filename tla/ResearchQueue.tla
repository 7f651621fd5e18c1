---------------------------- MODULE ResearchQueue ----------------------------
(***************************************************************************)
(* The daily research queue, paldo_research_queue.py: reserve_research_    *)
(* batch, commit_candidate_research and record_decision_maker_evidence,    *)
(* called by research agents that share one database file, and the two     *)
(* commits of paldo_recovery.py that bring candidates in: nothing else in  *)
(* the code makes one NOT_PROCESSED.                                       *)
(* An agent commits only candidates of a batch it was given (the code does *)
(* not check that), and all use one daily cap.                             *)
(***************************************************************************)
EXTENDS Naturals, FiniteSets

CONSTANTS
  Procs,
  Candidates,  \* accepted discovery candidates, numbered by created_at, id
  Handoffs,    \* saved production handoffs, each a run id of paldo_recovery
  HandoffOf,   \* the handoff a candidate came with
  Researched,  \* candidates their handoff had researched (research_by_key)
  Sought,      \* bound: candidates whose decision maker is looked for
  Saved,       \* whose packet it is, when it came with the handoff
  Nobody,
  Cap,         \* daily_cap
  MaxDay       \* bound: the last local date

ASSUME QueueAssumption ==
  /\ Candidates \subseteq Nat \ {0} /\ IsFiniteSet(Candidates)
  /\ HandoffOf \in [Candidates -> Handoffs] /\ Researched \subseteq Candidates
  /\ Sought \subseteq Candidates
  /\ Saved \notin Procs /\ Nobody \notin Procs \union {Saved}
  /\ Cap \in Nat /\ MaxDay \in Nat \ {0}

VARIABLES
  research,   \* discovery_candidates.research_state; "ABSENT" before ingestion
  progress,   \* candidate_research_progress.status, "NONE" without a row
  doneOn,     \* local date of completed_at, 0 without one
  packet,     \* whose research_packet_json the candidate has
  makers,     \* agents whose sources are in decision_maker_json
  stage,      \* last of the handoff's production_recovery_stages
  today,
  pc, day, left, rows, batch, cur, found, \* the locals of each agent
  answered,   \* history: candidates an agent was told are COMPLETED by it
  overlapped  \* history: two calls have been in progress at once

tables == <<research, progress, doneOn, packet, makers, stage>>
locals == <<day, left, rows, batch, cur, found>>
vars   == <<tables, today, pc, locals, answered, overlapped>>

NoCandidate == 0
NoEvidence == [merged |-> {}, replaces |-> FALSE]
Days == 1..MaxDay

(* _waiting_rows, with the order of its ORDER BY. *)
Waiting == {c \in Candidates : /\ research[c] = "NOT_PROCESSED"
                               /\ progress[c] \in {"NONE", "IN_PROGRESS"}}
Before(c, d) ==
  \/ progress[c] = "IN_PROGRESS" /\ progress[d] = "NONE"
  \/ (progress[c] = "IN_PROGRESS" <=> progress[d] = "IN_PROGRESS") /\ c < d

(* _waiting_rows(...)[:n] *)
FirstRows(n) ==
  {c \in Waiting : Cardinality({d \in Waiting : Before(d, c)}) < n}

(* _completed_today, and what is left of the cap.  Seeded fault: every     *)
(* rerun is given the whole cap.                                           *)
CompletedOn(d) == {c \in Candidates : doneOn[c] = d}
WholeCap(d) == Cap
Remaining(d) == Cap - Cardinality(CompletedOn(d))

(* The CASE of reserve's ON CONFLICT. *)
Opened(c) == IF progress[c] = "COMPLETED" THEN "COMPLETED" ELSE "IN_PROGRESS"

(* WHERE research_state='NOT_PROCESSED', and a row must have been changed. *)
(* Seeded fault: not checked.                                              *)
AlwaysCommittable(c) == TRUE
Committable(c) == research[c] = "NOT_PROCESSED"

(* The ledger row of a commit that fails.  Seeded fault: it is kept. *)
NotRolledBack(c) == "COMPLETED"
RolledBack(c) == progress[c]

Goto(p, label) == pc' = [pc EXCEPT ![p] = label]
EndCall(p) == /\ Goto(p, "idle")
              /\ day'  = [day EXCEPT ![p] = 0]
              /\ left' = [left EXCEPT ![p] = 0]
              /\ rows' = [rows EXCEPT ![p] = {}]
              /\ cur'  = [cur EXCEPT ![p] = NoCandidate]
              /\ found' = [found EXCEPT ![p] = NoEvidence]

Begins(p) ==
  /\ pc[p] = "idle"
  /\ day' = [day EXCEPT ![p] = today]
  /\ overlapped' = (overlapped \/ \E q \in Procs : pc[q] # "idle")

Init ==
  /\ research = [c \in Candidates |-> "ABSENT"]
  /\ progress = [c \in Candidates |-> "NONE"]
  /\ doneOn = [c \in Candidates |-> 0]
  /\ packet = [c \in Candidates |-> Nobody]
  /\ makers = [c \in Candidates |-> {}]
  /\ stage = [h \in Handoffs |-> "none"]
  /\ today = 1
  /\ pc = [p \in Procs |-> "idle"]
  /\ day = [p \in Procs |-> 0]
  /\ left = [p \in Procs |-> 0]
  /\ rows = [p \in Procs |-> {}]
  /\ batch = [p \in Procs |-> {}]
  /\ cur = [p \in Procs |-> NoCandidate]
  /\ found = [p \in Procs |-> NoEvidence]
  /\ answered = {} /\ overlapped = FALSE

-----------------------------------------------------------------------------
(* reserve_research_batch: the plan, the rows (read again), the write. *)

ReadPlan(p) ==
  /\ Begins(p)
  /\ Remaining(today) > 0
  /\ left' = [left EXCEPT ![p] = Remaining(today)]
  /\ Goto(p, "read")
  /\ UNCHANGED <<tables, today, rows, batch, cur, found, answered>>

ReadRows(p) ==
  /\ pc[p] = "read"
  /\ rows' = [rows EXCEPT ![p] = FirstRows(left[p])]
  /\ Goto(p, "write")
  /\ UNCHANGED <<tables, today, day, left, batch, cur, found, answered, overlapped>>

WriteRows(p) ==
  /\ pc[p] = "write"
  /\ progress' = [c \in Candidates |->
                    IF c \in rows[p] THEN Opened(c) ELSE progress[c]]
  /\ batch' = [batch EXCEPT ![p] = rows[p]]
  /\ EndCall(p)
  /\ UNCHANGED <<research, doneOn, packet, makers, stage, today, answered, overlapped>>

-----------------------------------------------------------------------------
(* commit_candidate_research: a completed candidate is returned as it is. *)

BeginCommit(p, c) ==
  /\ Begins(p) /\ c \in batch[p]
  /\ research[c] = "NOT_PROCESSED" /\ progress[c] # "COMPLETED"
  /\ cur' = [cur EXCEPT ![p] = c]
  /\ Goto(p, "commit")
  /\ UNCHANGED <<tables, today, left, rows, batch, found, answered>>

(* Ledger and candidate in one transaction: if the candidate has changed,  *)
(* the ledger row is rolled back.                                          *)
CommitResearch(p) ==
  /\ pc[p] = "commit"
  /\ LET c == cur[p] IN
     \/ /\ Committable(c)
        /\ progress' = [progress EXCEPT ![c] = "COMPLETED"]
        /\ doneOn' = [doneOn EXCEPT ![c] = day[p]]
        /\ research' = [research EXCEPT ![c] = "RESEARCHED"]
        /\ packet' = [packet EXCEPT ![c] = p]
        /\ answered' = answered \union {c}
     \/ /\ ~Committable(c)
        /\ progress' = [progress EXCEPT ![c] = RolledBack(c)]
        /\ UNCHANGED <<research, doneOn, packet, answered>>
  /\ EndCall(p)
  /\ UNCHANGED <<makers, stage, today, batch, overlapped>>

-----------------------------------------------------------------------------
(* record_decision_maker_evidence for a researched candidate: what is      *)
(* recorded is read and merged in memory with the agent's own sources, or  *)
(* replaced by them on demand (_replace_sources_attempted).  Evidence that *)
(* is all there already is not written again.                              *)
ReadEvidence(p, c, replaces) ==
  /\ Begins(p) /\ research[c] = "RESEARCHED"
  /\ LET merged == {p} \union (IF replaces THEN {} ELSE makers[c]) IN
     /\ merged # makers[c]
     /\ found' = [found EXCEPT ![p] = [merged |-> merged, replaces |-> replaces]]
  /\ cur' = [cur EXCEPT ![p] = c]
  /\ Goto(p, "evidence")
  /\ UNCHANGED <<tables, today, left, rows, batch, answered>>

(* The merged packet is written over the recorded one; that the candidate  *)
(* is no longer researched is not noticed.                                 *)
WriteEvidence(p) ==
  /\ pc[p] = "evidence"
  /\ makers' = IF research[cur[p]] = "RESEARCHED"
               THEN [makers EXCEPT ![cur[p]] = found[p].merged] ELSE makers
  /\ EndCall(p)
  /\ UNCHANGED <<research, progress, doneOn, packet, stage, today, batch, answered, overlapped>>

-----------------------------------------------------------------------------
(* A call or the agent itself dies; what was reserved stays reserved. *)
Crash(p) ==
  /\ pc[p] # "idle" \/ batch[p] # {}
  /\ EndCall(p)
  /\ batch' = [batch EXCEPT ![p] = {}]
  /\ UNCHANGED <<tables, today, answered, overlapped>>

(* paldo_recovery: commit_upstream.  Its stages commit one after another,  *)
(* and a rerun after a death takes up the first stage that is missing.     *)

(* _commit_discovery inserts all candidates of the handoff.  Candidates    *)
(* are numbered by created_at, so those that came before are all there.    *)
CommitDiscovery(h) ==
  /\ stage[h] = "none"
  /\ \A c, d \in Candidates :
       HandoffOf[c] = h /\ HandoffOf[d] # h /\ d < c => research[d] # "ABSENT"
  /\ research' = [c \in Candidates |->
                    IF HandoffOf[c] = h THEN "NOT_PROCESSED" ELSE research[c]]
  /\ stage' = [stage EXCEPT ![h] = "discovery"]
  /\ UNCHANGED <<progress, doneOn, packet, makers, today, pc, locals, answered, overlapped>>

(* _commit_research_and_qualification: researched and queued candidates    *)
(* are set to what the handoff says, whatever the queue has made of them.  *)
CommitQualification(h) ==
  /\ stage[h] = "discovery"
  /\ research' = [c \in Candidates |->
                    IF HandoffOf[c] # h THEN research[c]
                    ELSE IF c \in Researched THEN "RESEARCHED" ELSE "NOT_PROCESSED"]
  /\ packet' = [c \in Candidates |->
                  IF HandoffOf[c] = h /\ c \in Researched THEN Saved ELSE packet[c]]
  /\ makers' = [c \in Candidates |->
                  IF HandoffOf[c] = h /\ c \in Researched THEN {} ELSE makers[c]]
  /\ stage' = [stage EXCEPT ![h] = "research"]
  /\ UNCHANGED <<progress, doneOn, today, pc, locals, answered, overlapped>>

Midnight ==
  /\ today < MaxDay /\ today' = today + 1
  /\ UNCHANGED <<tables, pc, locals, answered, overlapped>>

Next ==
  \/ Midnight
  \/ \E h \in Handoffs : CommitDiscovery(h) \/ CommitQualification(h)
  \/ \E p \in Procs :
       \/ ReadPlan(p) \/ ReadRows(p) \/ WriteRows(p)
       \/ CommitResearch(p) \/ WriteEvidence(p) \/ Crash(p)
       \/ \E c \in Candidates : BeginCommit(p, c)
       \/ \E c \in Sought, replaces \in BOOLEAN : ReadEvidence(p, c, replaces)

Spec == Init /\ [][Next]_vars
-----------------------------------------------------------------------------
(* Properties *)

(* Type invariant of the ledger and of the agents' locals. *)
TypeOK ==
  /\ research \in [Candidates -> {"ABSENT", "NOT_PROCESSED", "RESEARCHED"}]
  /\ progress \in [Candidates -> {"NONE", "IN_PROGRESS", "COMPLETED"}]
  /\ doneOn \in [Candidates -> 0..MaxDay]
  /\ packet \in [Candidates -> Procs \union {Nobody, Saved}]
  /\ makers \in [Candidates -> SUBSET Procs]
  /\ stage \in [Handoffs -> {"none", "discovery", "research"}]
  /\ today \in Days
  /\ pc \in [Procs -> {"idle", "read", "write", "commit", "evidence"}]
  /\ day \in [Procs -> 0..MaxDay] /\ left \in [Procs -> 0..Cap]
  /\ rows \in [Procs -> SUBSET Candidates]
  /\ batch \in [Procs -> SUBSET Candidates]
  /\ cur \in [Procs -> Candidates \union {NoCandidate}]
  /\ found \in [Procs -> [merged : SUBSET Procs, replaces : BOOLEAN]]
  /\ answered \subseteq Candidates /\ overlapped \in BOOLEAN

(* No local day completes more candidates than its cap, over reruns,       *)
(* interrupted batches and calls that straddle midnight, as long as calls  *)
(* do not overlap.                                                         *)
DailyCapKept ==
  ~overlapped => \A d \in Days : Cardinality(CompletedOn(d)) <= Cap

(* Two agents may hold the same candidate: the packet and the date that    *)
(* were committed first stand, whichever agent commits or reserves later.  *)
(* Only a recovery stage takes a researched candidate back, and even then  *)
(* its ledger entry stays.                                                 *)
FirstPacketStands ==
  [][\A c \in Candidates :
       /\ research[c] = "RESEARCHED" /\ stage' = stage =>
            /\ research'[c] = "RESEARCHED" /\ packet'[c] = packet[c]
            /\ doneOn'[c] = doneOn[c]
       /\ progress[c] = "COMPLETED" => progress'[c] = "COMPLETED"]_vars

(* What agents found out about a decision maker only grows, unless one     *)
(* asks for it to be replaced or a recovery stage overwrites it, as long   *)
(* as calls do not overlap: each writes what it merged from its own read.  *)
Replacing(c) ==
  \E p \in Procs : pc[p] = "evidence" /\ cur[p] = c /\ found[p].replaces
EvidenceKept ==
  [][\A c \in Candidates :
       ~overlapped /\ stage' = stage /\ ~Replacing(c) => makers[c] \subseteq makers'[c]]_vars

(* What agents have committed on a candidate stands. *)
ResearchStands == FirstPacketStands /\ EvidenceKept

(* The ledger, and so the daily count, is exactly what agents were told is *)
(* completed: a commit that lost its candidate leaves no entry, a recovery *)
(* stage that overwrites the candidate takes none away.                    *)
LedgerMatchesAnswers ==
  \A c \in Candidates :
    /\ progress[c] = "COMPLETED" <=> c \in answered
    /\ doneOn[c] # 0 <=> c \in answered
    /\ packet[c] \in Procs => c \in answered

(* Nothing waits behind a younger candidate: whatever is taken up, every   *)
(* older candidate still waiting has been taken up too.                    *)
OldestFirst ==
  \A c, d \in Candidates :
    /\ d < c /\ progress[c] # "NONE" /\ research[d] = "NOT_PROCESSED"
    => progress[d] # "NONE"

(* Batches take up what is due and no more, over interrupted batches, the  *)
(* day's remainder and calls that straddle midnight.                       *)
BatchesInBounds == DailyCapKept /\ OldestFirst
=============================================================================
