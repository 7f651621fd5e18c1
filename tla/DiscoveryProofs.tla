--------------------------- MODULE DiscoveryProofs --------------------------
(***************************************************************************)
(* Candidates on their way to a lead.  First the resumable pipeline, for   *)
(* every set of businesses, records, evidence and fixtures, every number   *)
(* of reviews, deaths and attempts.  The worker may die between any two    *)
(* commits, so the invariant says what each place in the call relies on:   *)
(* a run row to carry (WorkerInv), an attempt that may still be charged    *)
(* (AttemptsInv), a stored result behind a verdict that passes             *)
(* (VerdictInv), and an evidence row that waits for its place in the trail *)
(* (LinkInv).  Then the live sources, for every plan, cap and number of    *)
(* processes: SourcesInv says what a call has done so far (CallsSound),    *)
(* counts the pages searches may yet ask for (CapInv) and the actor runs   *)
(* that are started but have no row (RunsInv).                             *)
(***************************************************************************)
EXTENDS Pipeline, LiveSources, FiniteSetTheorems, SequenceTheorems, TLAPS

Pcs ==
  {"idle", "ingested", "process", "enrich", "gate", "crawl", "enriched", "evidence", "store",
   "link", "lead", "qualify", "score", "final", "status", "mark"}
Verdicts == [state : RunStates \union {"none"}, mark : Marks \union {"none"}, open : BOOLEAN]
TrailRows == [id : Ids, sig : Signals, str : Nat, row : Nat, current : BOOLEAN]
EvidenceRows == [sig : Signals, val : TriState, current : BOOLEAN]
ResultRows == [print : GateWords \X SUBSET Ids, final : RunStates]

(* Tables and worker have their types; who carries a run has a run row.    *)
TablesInv ==
  /\ run \in [Keys -> RunRows \union {None}]
  /\ trail \in [Keys -> Seq(TrailRows)]
  /\ evidence \in [Keys -> Seq(EvidenceRows)]
  /\ results \in [Keys -> Seq(ResultRows)]
BoundsInv ==
  /\ crawls \in 0..Quota /\ reviews \in 0..MaxReviews
  /\ raised \in 0..MaxRaised /\ crashes \in 0..MaxCrashes
WorkerInv ==
  /\ pc \in Pcs /\ cur \in Keys \union {None} /\ (pc = "idle" <=> cur = None)
  /\ brought \in Brings /\ outcome \in Outcomes \union {"none"} /\ todo \in Seq(Items)
  /\ after \in {"none", "evidence", "requalify", "review"} /\ verdict \in Verdicts
  /\ pc \notin {"idle", "ingested"} => run[cur] # None
  /\ pc = "ingested" => outcome \in Outcomes
  /\ pc = "link" => todo # << >>
  /\ pc = "final" => verdict.state \in RunStates

(* An attempt may still be charged to the run without a death or a review: *)
(* it is open and not past its charge, a requalification will open it, or  *)
(* a source error is about to leave it open.                               *)
Charged == pc \in {"gate", "crawl", "enriched"} \/ (pc = "final" /\ ~verdict.open)
Chargeable(k) ==
  \/ run[k].open /\ ~Marked(k, "enrichment") /\ ~(cur = k /\ Charged)
  \/ cur = k /\ pc \in {"store", "link"} /\ after = "requalify"
  \/ cur = k /\ pc = "final" /\ verdict.open
Budget == MaxAttempts + crashes + raised + reviews
AttemptsInv ==
  /\ pc \in {"process", "enrich"} => run[cur].open
  /\ \A k \in Keys : run[k] # None =>
       run[k].attempts <= Budget /\ (Chargeable(k) => run[k].attempts < Budget)

(* A verdict that lets a lead pass has its result on file.                 *)
Passing == {"QUALIFIED", "STRONG"}
HasResult(k) == \E i \in DOMAIN results[k] : results[k][i].final \in Passing
VerdictInv ==
  /\ pc \in {"final", "status"} /\ verdict.state \in Passing => HasResult(cur)
  /\ QualifiedHasResult

(* Evidence row and place in the trail: one row per place, and both say    *)
(* alike which is current; of a signal's rows one is, the strongest.  The  *)
(* row that a call has just stored is the last and has no place.           *)
Linked(k) == {trail[k][i].row : i \in DOMAIN trail[k]}
Waiting(k) == IF pc = "link" /\ cur = k THEN 1 ELSE 0
PlacedOnce(k) ==
  /\ \A i \in DOMAIN trail[k] : trail[k][i].row \in DOMAIN evidence[k]
  /\ \A i, j \in DOMAIN trail[k] : trail[k][i].row = trail[k][j].row => i = j
Alike(k) ==
  \A i \in DOMAIN trail[k] : trail[k][i].current <=> evidence[k][trail[k][i].row].current
OneCurrent(k) ==
  \A i \in DOMAIN trail[k] :
    /\ \E j \in Currents(k) : trail[k][j].sig = trail[k][i].sig
    /\ \A j \in Currents(k) : trail[k][j].sig = trail[k][i].sig =>
         /\ trail[k][j].str >= trail[k][i].str
         /\ i \in Currents(k) => i = j
FewLost(k) ==
  /\ IsFiniteSet(DOMAIN evidence[k] \ Linked(k))
  /\ Cardinality(DOMAIN evidence[k] \ Linked(k)) <= crashes + Waiting(k)
LinkInv ==
  /\ \A k \in Keys : PlacedOnce(k) /\ Alike(k) /\ OneCurrent(k) /\ FewLost(k)
  /\ pc = "link" => /\ Len(evidence[cur]) \in DOMAIN evidence[cur] \ Linked(cur)
                    /\ evidence[cur][Len(evidence[cur])].current

(* A lead has the candidate row that created it.                           *)
RowsInv ==
  /\ cand \in [Keys -> CandRows \union {None}]
  /\ lead \in [Keys -> LeadRows \union {None}]
  /\ \A k \in Keys : lead[k] # None => cand[k] # None

(* A lead that is to stay DO_NOT_CONTACT: a call that has its run is going *)
(* to find it suppressed, or has.                                          *)
Standing(k) ==
  /\ DoNotContact(k) /\ k \in blocked
  /\ cur = k => \/ pc \in {"ingested", "process"}
                \/ pc \in {"final", "status", "mark"} /\ verdict.state = "SUPPRESSED"

TypesInv == TablesInv /\ BoundsInv /\ WorkerInv

-----------------------------------------------------------------------------
(* Sequences and constants. *)

(* A function on the domain of a sequence is a sequence of that length.    *)
LEMMA SameDomainSeq ==
  ASSUME NEW S, NEW T, NEW s \in Seq(S), NEW t, DOMAIN t = DOMAIN s,
         t = [i \in DOMAIN t |-> t[i]], \A i \in DOMAIN s : t[i] \in T
  PROVE  t \in Seq(T) /\ Len(t) = Len(s)
<1>1. DOMAIN s = 1..Len(s) /\ Len(s) \in Nat
  BY LenProperties
<1>2. t \in [1..Len(s) -> T]
  BY <1>1
<1>3. t \in Seq(T)
  BY <1>1, <1>2, SeqDef
<1> QED BY <1>1, <1>2, <1>3, LenProperties

(* Content, supported signal and strength of an item.                      *)
LEMMA ItemIs ==
  ASSUME NEW item \in Items
  PROVE  /\ item.id \in Ids /\ item.sig \in Signals /\ item.val \in TriState
         /\ item.str \in Nat
<1>1. item \in [id : {item.id}, sig : Signals, val : TriState, str : Nat]
  BY PipelineAssumption DEF PipelineAssumption, IsEvidence
<1> QED BY <1>1 DEF Ids

(* Nothing brings no words and no items.                                   *)
LEMMA NothingIs ==
  NoGates \in GateWords /\ Nothing \in Brings /\ Nothing.items = << >>
<1>1. NoGates \in GateWords
  BY DEF NoGates, GateWords
<1>2. << >> \in Seq(Items)
  OBVIOUS
<1> QED BY <1>1, <1>2 DEF Nothing, Brings

(* A newer word for a gate is a word for a gate.                           *)
LEMMA OverlayIs ==
  ASSUME NEW old \in GateWords, NEW new \in GateWords
  PROVE  Overlay(old, new) \in GateWords
BY DEF Overlay, GateWords

(* The words of a gate and the verdicts of qualify_lead.                   *)
LEMMA JudgedIs ==
  ASSUME TablesInv, NEW k \in Keys, run[k] # None
  PROVE  GateStatus(k) \in GateWords /\ Final(k) \in {"QUALIFIED", "STRONG", "REJECTED", "HOLD"}
<1>1. run[k] \in RunRows
  BY DEF TablesInv
<1>2. run[k].gate \in GateWords /\ run[k].review \in GateWords
  BY <1>1 DEF RunRows
<1> DEFINE derived == [g \in Gates |-> Status(k, g)]
<1>3. \A g \in Gates : Status(k, g) \in TriState
  BY DEF Status, TriState
<1>4. derived \in GateWords
  BY <1>3 DEF GateWords
<1>5. GateStatus(k) = Overlay(Overlay(derived, run[k].gate), run[k].review)
  BY DEF GateStatus
<1> HIDE DEF derived
<1>6. GateStatus(k) \in GateWords
  BY <1>2, <1>4, <1>5, OverlayIs
<1>7. Final(k) \in {"QUALIFIED", "STRONG", "REJECTED", "HOLD"}
  BY DEF Final
<1> QED BY <1>6, <1>7

(* What is known of a lead has one fingerprint.                            *)
LEMMA FingerprintIs ==
  ASSUME TablesInv, NEW k \in Keys, run[k] # None
  PROVE  Fingerprint(k) \in GateWords \X SUBSET Ids
<1>1. trail[k] \in Seq(TrailRows)
  BY DEF TablesInv
<1>2. ASSUME NEW i \in DOMAIN trail[k]
      PROVE  trail[k][i].id \in Ids
  <2>1. trail[k][i] \in TrailRows
    BY <1>1, LenProperties, ElementOfSeq
  <2> QED BY <2>1 DEF TrailRows
<1>3. {trail[k][i].id : i \in Currents(k)} \subseteq Ids
  BY <1>2 DEF Currents
<1> QED BY <1>3, JudgedIs DEF Fingerprint

-----------------------------------------------------------------------------
(* Steps on the run row. *)

(* The run row of k becomes r, which has the fields of a row.              *)
RunBecomes(k, r) == k \in Keys /\ r \in RunRows /\ run' = [run EXCEPT ![k] = r]

(* Runs have their type and stay on file.                                  *)
RunsStay ==
  /\ run' \in [Keys -> RunRows \union {None}]
  /\ \A k \in Keys : run[k] # None => run'[k] # None

LEMMA BecomesStays ==
  ASSUME TablesInv, NEW k, NEW r, RunBecomes(k, r)
  PROVE  RunsStay
<1>1. None \notin RunRows
  BY PipelineAssumption DEF PipelineAssumption
<1> QED BY <1>1 DEF TablesInv, RunBecomes, RunsStay

(* Every step leaves the run rows or writes one.                           *)
LEMMA RunStep ==
  ASSUME TypesInv, Next
  PROVE  RunsStay
<1>1. ASSUME UNCHANGED run
      PROVE  RunsStay
  BY <1>1 DEF TypesInv, TablesInv, RunsStay
<1>2. ASSUME pc \notin {"idle", "ingested"}
      PROVE  cur \in Keys /\ run[cur] \in RunRows
  BY <1>2 DEF TypesInv, TablesInv, WorkerInv
<1>3. CASE FindRun
  <2>1. CASE run[cur] = None
    <3> DEFINE r == [state |-> "DISCOVERED", open |-> TRUE, outcome |-> outcome,
                     marks |-> {}, attempts |-> 0, items |-> brought.items,
                     found |-> << >>, gate |-> brought.gate, review |-> NoGates]
    <3>1. r \in RunRows /\ cur \in Keys
      BY <1>3, NothingIs DEF FindRun, TypesInv, WorkerInv, RunRows, RunStates, Brings
    <3>2. run' = [run EXCEPT ![cur] = r]
      BY <1>3, <2>1 DEF FindRun
    <3> HIDE DEF r
    <3> QED BY <3>1, <3>2, BecomesStays DEF RunBecomes, TypesInv
  <2> QED BY <1>1, <1>3, <2>1 DEF FindRun
<1>4. CASE Process
  <2> DEFINE r == [run[cur] EXCEPT !.state = "INGESTION_ACCEPTED",
                                   !.marks = @ \union {"discovery_ingestion"}]
  <2>1. r \in RunRows
    BY <1>2, <1>4 DEF Process, RunRows, RunStates, Marks
  <2>2. run' = [run EXCEPT ![cur] = r] \/ UNCHANGED run
    BY <1>2, <1>4 DEF Process, TypesInv, TablesInv
  <2> HIDE DEF r
  <2> QED BY <1>1, <1>2, <1>4, <2>1, <2>2, BecomesStays DEF RunBecomes, TypesInv, Process
<1>5. CASE Enrich
  <2>1. PICK r \in RunRows : run' = [run EXCEPT ![cur] = r]
    <3> DEFINE s == [run[cur] EXCEPT !.state = "ENRICHMENT_PENDING"]
               more == run[cur].attempts + 1
               t == [run[cur] EXCEPT !.state = "ENRICHMENT_PENDING", !.attempts = more]
    <3>1. run[cur] \in RunRows /\ more \in Nat
      BY <1>2, <1>5 DEF Enrich, RunRows
    <3> HIDE DEF more
    <3>2. s \in RunRows /\ t \in RunRows
      BY <3>1 DEF RunRows, RunStates
    <3>3. \/ run' = [run EXCEPT ![cur] = run[cur]]
          \/ run' = [run EXCEPT ![cur] = s]
          \/ run' = [run EXCEPT ![cur] = t]
      BY <1>2, <1>5 DEF Enrich, Set, TypesInv, TablesInv, more
    <3> QED BY <3>1, <3>2, <3>3
  <2> QED BY <1>2, <1>5, <2>1, BecomesStays DEF RunBecomes, TypesInv, Enrich
<1>6. CASE Enriched
  <2> DEFINE r == [run[cur] EXCEPT !.state = "ENRICHMENT_COMPLETE",
                                   !.marks = @ \union {"enrichment"}]
  <2>1. r \in RunRows
    BY <1>2, <1>6 DEF Enriched, RunRows, RunStates, Marks
  <2>2. run' = [run EXCEPT ![cur] = r]
    BY <1>2, <1>6 DEF Enriched, TypesInv, TablesInv
  <2> HIDE DEF r
  <2> QED BY <1>2, <1>6, <2>1, <2>2, BecomesStays DEF RunBecomes, TypesInv, Enriched
<1>7. ASSUME NEW mark, Checkpoint(cur, mark), pc \notin {"idle", "ingested"}
      PROVE  RunsStay
  <2> DEFINE r == [run[cur] EXCEPT !.marks = (run[cur].marks \union {mark}) \intersect Marks]
  <2>1. r \in RunRows
    BY <1>2, <1>7 DEF RunRows
  <2>2. run' = [run EXCEPT ![cur] = r]
    BY <1>2, <1>7 DEF Checkpoint, Set, TypesInv, TablesInv
  <2> HIDE DEF r
  <2> QED BY <1>2, <1>7, <2>1, <2>2, BecomesStays DEF RunBecomes, TypesInv
<1>8. CASE Stored
  <2>1. CASE after = "requalify"
    <3> DEFINE word == Overlay(run[cur].gate, brought.gate)
               r == [run[cur] EXCEPT !.gate = word, !.open = TRUE,
                                     !.state = "QUALIFICATION_PENDING"]
    <3>1. run[cur] \in RunRows /\ word \in GateWords
      BY <1>2, <1>8, OverlayIs DEF Stored, RunRows, TypesInv, WorkerInv, Brings
    <3>2. run' = [run EXCEPT ![cur] = r]
      BY <1>2, <1>8, <2>1 DEF Stored, TypesInv, TablesInv
    <3> HIDE DEF word
    <3>3. r \in RunRows
      BY <3>1 DEF RunRows, RunStates
    <3> HIDE DEF r
    <3> QED BY <1>2, <1>8, <3>2, <3>3, BecomesStays DEF RunBecomes, TypesInv, Stored
  <2> QED BY <1>1, <1>7, <1>8, <2>1 DEF Stored
<1>9. ASSUME NEW safe \in BOOLEAN, Gate(safe)
      PROVE  RunsStay
  BY <1>1, <1>9 DEF Gate
<1>10. ASSUME NEW found \in Seq(Items), NEW state, Crawl(state, found)
       PROVE  RunsStay
  <2> DEFINE r == [run[cur] EXCEPT !.found = found]
  <2>1. r \in RunRows
    BY <1>2, <1>10 DEF Crawl, RunRows
  <2>2. run' = [run EXCEPT ![cur] = r]
    BY <1>2, <1>10 DEF Crawl, Set, TypesInv, TablesInv
  <2> HIDE DEF r
  <2> QED BY <1>2, <1>10, <2>1, <2>2, BecomesStays DEF RunBecomes, TypesInv, Crawl
<1>11. CASE Qualify
  <2> DEFINE r == [run[cur] EXCEPT !.state = "QUALIFICATION_PENDING"]
  <2>1. r \in RunRows
    BY <1>2, <1>11 DEF Qualify, RunRows, RunStates
  <2>2. run' = [run EXCEPT ![cur] = r] \/ UNCHANGED run
    BY <1>2, <1>11 DEF Qualify, Set, TypesInv, TablesInv
  <2> HIDE DEF r
  <2> QED BY <1>1, <1>2, <1>11, <2>1, <2>2, BecomesStays DEF RunBecomes, TypesInv, Qualify
<1>12. CASE FinalRun
  <2> DEFINE r == [run[cur] EXCEPT !.state = verdict.state, !.open = verdict.open]
  <2>1. verdict.state \in RunStates /\ verdict.open \in BOOLEAN
    BY <1>12 DEF FinalRun, TypesInv, WorkerInv, Verdicts
  <2>2. r \in RunRows
    BY <1>2, <1>12, <2>1 DEF FinalRun, RunRows
  <2>3. run' = [run EXCEPT ![cur] = r]
    BY <1>2, <1>12 DEF FinalRun, TypesInv, TablesInv
  <2> HIDE DEF r
  <2> QED BY <1>2, <1>12, <2>2, <2>3, BecomesStays DEF RunBecomes, TypesInv, FinalRun
<1>13. ASSUME NEW k \in Keys, NEW g \in Gates, NEW d \in TriState, ReviewGate(k, g, d)
       PROVE  RunsStay
  <2> DEFINE word == [run[k].review EXCEPT ![g] = d]
             r == [run[k] EXCEPT !.review = word]
  <2>1. run[k] \in RunRows
    BY <1>13 DEF ReviewGate, Reviewable, TypesInv, TablesInv
  <2>2. word \in GateWords
    BY <2>1 DEF RunRows, GateWords
  <2>3. run' = [run EXCEPT ![k] = r]
    BY <1>13, <2>1 DEF ReviewGate, TypesInv, TablesInv
  <2> HIDE DEF word
  <2>4. r \in RunRows
    BY SMTT(40), <2>1, <2>2 DEF RunRows
  <2> HIDE DEF r
  <2> QED BY <2>3, <2>4, BecomesStays DEF RunBecomes, TypesInv
<1>14. ASSUME \/ \E raw \in Raw, fixture \in Fixtures : Fixture(raw, fixture)
              \/ \E k \in Keys : Resume(k)
              \/ Consolidate \/ Observe \/ Link \/ Judge \/ FinalLead
              \/ \E k \in Keys, item \in Reviews : ReviewSignal(k, item)
              \/ \E k \in Keys, update \in Updates : Requalify(k, update)
              \/ Crash \/ CrawlRaises \/ Elsewhere
       PROVE  RunsStay
  BY <1>1, <1>14 DEF Fixture, Resume, Consolidate, Observe, Link, Judge, FinalLead, ReviewSignal,
    Requalify, Crash, CrawlRaises, Elsewhere, tables
<1>15. CASE LeadCreation
  BY <1>7, <1>15 DEF LeadCreation
<1>16. CASE FinalMark
  BY <1>7, <1>16 DEF FinalMark
<1>17. SiteFinds \subseteq Seq(Items) /\ << >> \in Seq(Items)
  BY PipelineAssumption DEF PipelineAssumption
<1> QED BY <1>3, <1>4, <1>5, <1>6, <1>8, <1>9, <1>10, <1>11, <1>12, <1>13, <1>14, <1>15, <1>16,
          <1>17 DEF Next, Work

-----------------------------------------------------------------------------
(* Types. *)

(* Retiring places changes nothing but which are current.                  *)
LEMMA RetireTrail ==
  ASSUME NEW rows \in Seq(TrailRows), NEW S
  PROVE  /\ Retire(rows, S) \in Seq(TrailRows) /\ Len(Retire(rows, S)) = Len(rows)
         /\ DOMAIN Retire(rows, S) = DOMAIN rows
         /\ \A i \in DOMAIN rows :
              /\ Retire(rows, S)[i].sig = rows[i].sig
              /\ Retire(rows, S)[i].str = rows[i].str
              /\ Retire(rows, S)[i].row = rows[i].row
              /\ Retire(rows, S)[i].current <=> rows[i].current /\ i \notin S
<1> DEFINE t == Retire(rows, S)
<1>1. DOMAIN t = DOMAIN rows /\ t = [i \in DOMAIN t |-> t[i]]
  BY DEF Retire
<1>2. ASSUME NEW i \in DOMAIN rows
      PROVE  /\ t[i] \in TrailRows
             /\ t[i].sig = rows[i].sig
             /\ t[i].str = rows[i].str
             /\ t[i].row = rows[i].row
             /\ t[i].current <=> rows[i].current /\ i \notin S
  <2> DEFINE b == rows[i].current /\ i \notin S
  <2>1. rows[i] \in TrailRows
    BY LenProperties, ElementOfSeq
  <2>2. t[i] = [rows[i] EXCEPT !.current = b] /\ b \in BOOLEAN
    BY DEF Retire
  <2>3. b <=> rows[i].current /\ i \notin S
    OBVIOUS
  <2> HIDE DEF b, t
  <2>4. /\ t[i] \in TrailRows /\ t[i].current = b
        /\ t[i].sig = rows[i].sig /\ t[i].str = rows[i].str /\ t[i].row = rows[i].row
    BY <2>1, <2>2 DEF TrailRows
  <2> QED BY <2>3, <2>4
<1> HIDE DEF t
<1>3. t \in Seq(TrailRows) /\ Len(t) = Len(rows)
  BY <1>1, <1>2, SameDomainSeq
<1> QED BY <1>1, <1>2, <1>3 DEF t

(* So it does to rows of evidence.                                         *)
LEMMA RetireEvidence ==
  ASSUME NEW rows \in Seq(EvidenceRows), NEW S
  PROVE  /\ Retire(rows, S) \in Seq(EvidenceRows) /\ Len(Retire(rows, S)) = Len(rows)
         /\ DOMAIN Retire(rows, S) = DOMAIN rows
         /\ \A i \in DOMAIN rows :
              /\ Retire(rows, S)[i].sig = rows[i].sig
              /\ Retire(rows, S)[i].current <=> rows[i].current /\ i \notin S
<1> DEFINE t == Retire(rows, S)
<1>1. DOMAIN t = DOMAIN rows /\ t = [i \in DOMAIN t |-> t[i]]
  BY DEF Retire
<1>2. ASSUME NEW i \in DOMAIN rows
      PROVE  /\ t[i] \in EvidenceRows
             /\ t[i].sig = rows[i].sig
             /\ t[i].current <=> rows[i].current /\ i \notin S
  <2> DEFINE b == rows[i].current /\ i \notin S
  <2>1. rows[i] \in EvidenceRows
    BY LenProperties, ElementOfSeq
  <2>2. t[i] = [rows[i] EXCEPT !.current = b] /\ b \in BOOLEAN
    BY DEF Retire
  <2>3. b <=> rows[i].current /\ i \notin S
    OBVIOUS
  <2> HIDE DEF b, t
  <2>4. /\ t[i] \in EvidenceRows /\ t[i].current = b
        /\ t[i].sig = rows[i].sig
    BY <2>1, <2>2 DEF EvidenceRows
  <2> QED BY <2>3, <2>4
<1> HIDE DEF t
<1>3. t \in Seq(EvidenceRows) /\ Len(t) = Len(rows)
  BY <1>1, <1>2, SameDomainSeq
<1> QED BY <1>1, <1>2, <1>3 DEF t

(* What Observe writes: one row at the end.                                *)
LEMMA ObserveIs ==
  ASSUME TypesInv, Observe, ~Known(cur, Head(todo))
  PROVE  /\ cur \in Keys /\ evidence' \in [Keys -> Seq(EvidenceRows)]
         /\ \A k \in Keys \ {cur} : evidence'[k] = evidence[k]
         /\ Len(evidence[cur]) \in Nat /\ DOMAIN evidence[cur] = 1..Len(evidence[cur])
         /\ DOMAIN evidence'[cur] = 1..(Len(evidence[cur]) + 1)
         /\ Len(evidence'[cur]) = Len(evidence[cur]) + 1
         /\ evidence'[cur][Len(evidence[cur]) + 1].current
         /\ \A i \in DOMAIN evidence[cur] : evidence'[cur][i] = evidence[cur][i]
<1> DEFINE item == Head(todo)
           row == [sig |-> item.sig, val |-> item.val, current |-> TRUE]
           new == Append(evidence[cur], row)
<1>1. cur \in Keys /\ evidence[cur] \in Seq(EvidenceRows) /\ item \in Items
  BY HeadTailProperties DEF Observe, TypesInv, TablesInv, WorkerInv
<1>2. row \in EvidenceRows /\ row.current
  BY <1>1, ItemIs DEF EvidenceRows
<1>3. evidence' = [evidence EXCEPT ![cur] = new]
  BY DEF Observe
<1> HIDE DEF row
<1>4. /\ new \in Seq(EvidenceRows) /\ Len(new) = Len(evidence[cur]) + 1
      /\ new[Len(evidence[cur]) + 1] = row
      /\ \A i \in 1..Len(evidence[cur]) : new[i] = evidence[cur][i]
  BY <1>1, <1>2, AppendProperties
<1>5. Len(evidence[cur]) \in Nat /\ DOMAIN evidence[cur] = 1..Len(evidence[cur])
  BY <1>1, LenProperties
<1>6. DOMAIN new = 1..(Len(evidence[cur]) + 1)
  BY <1>4, LenProperties
<1> HIDE DEF new
<1>7. /\ evidence' \in [Keys -> Seq(EvidenceRows)] /\ evidence'[cur] = new
      /\ \A k \in Keys \ {cur} : evidence'[k] = evidence[k]
  BY <1>1, <1>3, <1>4 DEF TypesInv, TablesInv
<1> QED BY <1>1, <1>2, <1>4, <1>5, <1>6, <1>7

(* What Link writes: a place at the end of the trail, rows that are        *)
(* current no more.                                                        *)
Rivals(sig) == {i \in Currents(cur) : trail[cur][i].sig = sig}
Wins(item) == \A i \in Rivals(item.sig) : Supersedes(item, trail[cur][i])
Lost(item) ==
  IF Wins(item) THEN {trail[cur][i].row : i \in Rivals(item.sig)} ELSE {Len(evidence[cur])}
Place(item) ==
  [id |-> item.id, sig |-> item.sig, str |-> item.str, row |-> Len(evidence[cur]),
   current |-> Wins(item)]
Linking(item) ==
  /\ item \in Items /\ cur \in Keys
  /\ trail' \in [Keys -> Seq(TrailRows)] /\ evidence' \in [Keys -> Seq(EvidenceRows)]
  /\ \A k \in Keys \ {cur} : trail'[k] = trail[k] /\ evidence'[k] = evidence[k]
  /\ Len(trail[cur]) \in Nat /\ DOMAIN trail[cur] = 1..Len(trail[cur])
  /\ DOMAIN trail'[cur] = 1..(Len(trail[cur]) + 1)
  /\ trail'[cur][Len(trail[cur]) + 1] = Place(item)
  /\ \A i \in DOMAIN trail[cur] :
       /\ trail'[cur][i].sig = trail[cur][i].sig /\ trail'[cur][i].str = trail[cur][i].str
       /\ trail'[cur][i].row = trail[cur][i].row
       /\ trail'[cur][i].current <=>
            trail[cur][i].current /\ ~(Wins(item) /\ i \in Rivals(item.sig))
  /\ DOMAIN evidence'[cur] = DOMAIN evidence[cur]
  /\ \A i \in DOMAIN evidence[cur] :
       evidence'[cur][i].current <=> evidence[cur][i].current /\ i \notin Lost(item)

LEMMA LinkIs ==
  ASSUME TypesInv, Link
  PROVE  Linking(Head(todo))
<1> DEFINE item == Head(todo)
           rows == evidence[cur]
           more == Retire(rows, Lost(item))
           kept == IF Wins(item) THEN Retire(trail[cur], Rivals(item.sig)) ELSE trail[cur]
           t == Append(kept, Place(item))
<1>1. /\ cur \in Keys /\ item \in Items
      /\ trail[cur] \in Seq(TrailRows) /\ rows \in Seq(EvidenceRows)
  BY HeadTailProperties DEF Link, TypesInv, TablesInv, WorkerInv
<1>2. Len(rows) \in Nat /\ Len(trail[cur]) \in Nat /\ DOMAIN trail[cur] = 1..Len(trail[cur])
  BY <1>1, LenProperties
<1>3. Place(item) \in TrailRows
  <2>1. /\ item.id \in Ids /\ item.sig \in Signals /\ item.str \in Nat
        /\ Wins(item) \in BOOLEAN /\ Len(evidence[cur]) \in Nat
    BY <1>1, <1>2, ItemIs DEF Wins
  <2> HIDE DEF item
  <2> QED BY <2>1 DEF Place, TrailRows
<1>4. /\ kept \in Seq(TrailRows) /\ Len(kept) = Len(trail[cur]) /\ DOMAIN kept = DOMAIN trail[cur]
      /\ \A i \in DOMAIN trail[cur] :
           /\ kept[i].sig = trail[cur][i].sig /\ kept[i].str = trail[cur][i].str
           /\ kept[i].row = trail[cur][i].row
           /\ kept[i].current <=>
                trail[cur][i].current /\ ~(Wins(item) /\ i \in Rivals(item.sig))
  <2>1. CASE ~Wins(item)
    BY <1>1, <2>1
  <2>2. CASE Wins(item)
    <3>1. kept = Retire(trail[cur], Rivals(item.sig))
      BY <2>2
    <3>2. /\ kept \in Seq(TrailRows) /\ Len(kept) = Len(trail[cur])
          /\ DOMAIN kept = DOMAIN trail[cur]
          /\ \A i \in DOMAIN trail[cur] :
               /\ kept[i].sig = trail[cur][i].sig
               /\ kept[i].str = trail[cur][i].str
               /\ kept[i].row = trail[cur][i].row
               /\ kept[i].current <=> trail[cur][i].current /\ i \notin Rivals(item.sig)
      BY <1>1, <3>1, RetireTrail
    <3> QED BY <2>2, <3>2
  <2> QED BY <2>1, <2>2
<1> HIDE DEF kept
<1>5. /\ t \in Seq(TrailRows) /\ Len(t) = Len(trail[cur]) + 1
      /\ t[Len(trail[cur]) + 1] = Place(item)
      /\ \A i \in 1..Len(trail[cur]) : t[i] = kept[i]
  BY <1>3, <1>4, AppendProperties
<1>6. DOMAIN t = 1..(Len(trail[cur]) + 1)
  BY <1>5, LenProperties
<1> HIDE DEF t
<1>7. /\ more \in Seq(EvidenceRows) /\ DOMAIN more = DOMAIN rows
      /\ \A i \in DOMAIN rows : more[i].current <=> rows[i].current /\ i \notin Lost(item)
  BY <1>1, RetireEvidence
<1>8. trail' = [trail EXCEPT ![cur] = t]
  BY DEF Link, t, kept, Wins, Rivals, Place
<1>9. evidence' = [evidence EXCEPT ![cur] = more]
  BY DEF Link, Lost, Wins, Rivals
<1> HIDE DEF more
<1>10. /\ trail' \in [Keys -> Seq(TrailRows)] /\ evidence' \in [Keys -> Seq(EvidenceRows)]
       /\ trail'[cur] = t /\ evidence'[cur] = more
       /\ \A k \in Keys \ {cur} : trail'[k] = trail[k] /\ evidence'[k] = evidence[k]
  BY <1>1, <1>5, <1>7, <1>8, <1>9 DEF TypesInv, TablesInv
<1> HIDE DEF item, rows
<1>11. \A i \in DOMAIN trail[cur] : t[i] = kept[i]
  BY <1>2, <1>5
<1>12. \A i \in DOMAIN trail[cur] :
         /\ t[i].sig = trail[cur][i].sig /\ t[i].str = trail[cur][i].str
         /\ t[i].row = trail[cur][i].row
         /\ t[i].current <=> trail[cur][i].current /\ ~(Wins(item) /\ i \in Rivals(item.sig))
  BY <1>4, <1>11
<1> QED BY <1>1, <1>2, <1>5, <1>6, <1>7, <1>10, <1>12 DEF Linking, item, rows

(* A verdict is stored with what was known, at the end.                    *)
LEMMA JudgeIs ==
  ASSUME TypesInv, Judge
  PROVE  /\ cur \in Keys /\ results' \in [Keys -> Seq(ResultRows)]
         /\ verdict'.state = Final(cur) /\ Final(cur) \in {"QUALIFIED", "STRONG", "REJECTED", "HOLD"}
         /\ \A k \in Keys : \A i \in DOMAIN results[k] :
              i \in DOMAIN results'[k] /\ results'[k][i] = results[k][i]
         /\ \E i \in DOMAIN results'[cur] : results'[cur][i].final = Final(cur)
<1> DEFINE row == [print |-> Fingerprint(cur), final |-> Final(cur)]
           new == Append(results[cur], row)
<1>1. cur \in Keys /\ run[cur] # None /\ results[cur] \in Seq(ResultRows)
  BY DEF Judge, TypesInv, TablesInv, WorkerInv
<1>2. row \in ResultRows /\ Final(cur) \in {"QUALIFIED", "STRONG", "REJECTED", "HOLD"}
  BY <1>1, JudgedIs, FingerprintIs DEF TypesInv, ResultRows, RunStates
<1>3. results' = [results EXCEPT ![cur] = new] /\ verdict'.state = Final(cur)
  BY DEF Judge, Conclude
<1>4. row.final = Final(cur)
  OBVIOUS
<1> HIDE DEF row
<1>5. /\ new \in Seq(ResultRows) /\ Len(new) = Len(results[cur]) + 1
      /\ new[Len(results[cur]) + 1] = row
      /\ \A i \in 1..Len(results[cur]) : new[i] = results[cur][i]
  BY <1>1, <1>2, AppendProperties
<1>6. /\ Len(results[cur]) \in Nat /\ DOMAIN results[cur] = 1..Len(results[cur])
      /\ DOMAIN new = 1..(Len(results[cur]) + 1)
  BY <1>1, <1>5, LenProperties
<1> HIDE DEF new
<1>7. /\ results' \in [Keys -> Seq(ResultRows)] /\ results'[cur] = new
      /\ \A k \in Keys \ {cur} : results'[k] = results[k]
  BY <1>1, <1>3, <1>5 DEF TypesInv, TablesInv
<1>8. Len(results[cur]) + 1 \in DOMAIN new /\ new[Len(results[cur]) + 1].final = Final(cur)
  BY <1>4, <1>5, <1>6
<1>9. \A i \in DOMAIN results[cur] : i \in DOMAIN new /\ new[i] = results[cur][i]
  BY <1>5, <1>6
<1> QED BY <1>1, <1>2, <1>3, <1>7, <1>8, <1>9

(* Tables keep their types.                                                *)
LEMMA TablesStep ==
  ASSUME TypesInv, Next
  PROVE  TablesInv'
<1>1. run' \in [Keys -> RunRows \union {None}]
  BY RunStep DEF RunsStay
<1>2. CASE Observe
  <2>1. CASE Known(cur, Head(todo))
    BY <1>1, <1>2, <2>1 DEF Observe, TypesInv, TablesInv
  <2>2. CASE ~Known(cur, Head(todo))
    BY SMTT(30), <1>1, <1>2, <2>2, ObserveIs DEF Observe, TypesInv, TablesInv
  <2> QED BY <2>1, <2>2
<1>3. CASE Link
  BY <1>1, <1>3, LinkIs DEF Linking, Link, TypesInv, TablesInv
<1>4. CASE Judge
  BY <1>1, <1>4, JudgeIs DEF Judge, TypesInv, TablesInv
<1>5. CASE UNCHANGED <<trail, evidence, results>>
  BY <1>1, <1>5 DEF TypesInv, TablesInv
<1>6. UNCHANGED <<trail, evidence, results>> \/ Observe \/ Link \/ Judge
  BY DEF Next, Work, Fixture, Resume, FindRun, Process, Enrich, Enriched, Consolidate, Stored,
    LeadCreation, Qualify, FinalRun, FinalLead, FinalMark, Gate, Crawl, ReviewGate, ReviewSignal,
    Requalify, Crash, CrawlRaises, Elsewhere, tables
<1> QED BY <1>2, <1>3, <1>4, <1>5, <1>6

(* Bounds are kept.                                                        *)
LEMMA BoundsStep ==
  ASSUME TypesInv, Next
  PROVE  BoundsInv'
<1>0. {Quota, MaxReviews, MaxRaised, MaxCrashes} \subseteq Nat
  BY PipelineAssumption DEF PipelineAssumption
<1>1. ASSUME NEW safe \in BOOLEAN, Gate(safe)
      PROVE  BoundsInv'
  <2>1. /\ UNCHANGED <<reviews, raised, crashes>>
        /\ crawls' = crawls \/ (crawls < Quota /\ crawls' = crawls + 1)
    BY <1>1 DEF Gate, bounds
  <2> QED BY <1>0, <2>1 DEF TypesInv, BoundsInv
<1>2. CASE Crash \/ CrawlRaises
  BY <1>0, <1>2 DEF Crash, CrawlRaises, TypesInv, BoundsInv, tables
<1>3. ASSUME NEW k \in Keys, Reviewable(k), UNCHANGED <<crawls, raised, crashes>>
      PROVE  BoundsInv'
  BY <1>0, <1>3 DEF Reviewable, TypesInv, BoundsInv
<1>4. CASE UNCHANGED <<crawls, reviews, raised, crashes>>
  BY <1>4 DEF TypesInv, BoundsInv
<1>5. \/ \E safe \in BOOLEAN : Gate(safe)
      \/ Crash \/ CrawlRaises
      \/ \E k \in Keys : Reviewable(k) /\ UNCHANGED <<crawls, raised, crashes>>
      \/ UNCHANGED <<crawls, reviews, raised, crashes>>
  BY DEF Next, Work, Fixture, Resume, FindRun, Process, Enrich, Enriched, Consolidate, Observe,
    Link, Stored, LeadCreation, Qualify, Judge, FinalRun, FinalLead, FinalMark, Crawl,
    ReviewGate, ReviewSignal, Requalify, Elsewhere, tables, bounds
<1> QED BY <1>1, <1>2, <1>3, <1>4, <1>5

(* _process_run or a settling call ends; a call starts on a run.           *)
LEMMA Finished ==
  ASSUME TypesInv, RunsStay, Finish
  PROVE  WorkerInv'
<1>1. None \notin Keys /\ << >> \in Seq(Items)
  BY DiscoveryAssumption DEF DiscoveryAssumption
<1>2. NoVerdict \in Verdicts
  BY DEF NoVerdict, Verdicts
<1> QED BY <1>1, <1>2, NothingIs DEF Finish, WorkerInv, Pcs

LEMMA Carried ==
  ASSUME TypesInv, NEW k \in Keys, run'[k] # None, Carry(k)
  PROVE  WorkerInv'
<1>1. None \notin Keys
  BY DiscoveryAssumption DEF DiscoveryAssumption
<1> QED BY <1>1, NothingIs DEF Carry, TypesInv, WorkerInv, Pcs

(* A call goes on, on the same run.                                        *)
LEMMA WentOn ==
  ASSUME TypesInv, RunsStay, NEW label \in Pcs \ {"idle", "ingested", "link", "final"},
         pc \notin {"idle", "ingested"}, Goto(label)
  PROVE  WorkerInv'
BY DEF Goto, TypesInv, WorkerInv, RunsStay, locals

(* A call has come to its verdict.                                         *)
LEMMA Concluded ==
  ASSUME TypesInv, RunsStay, pc \notin {"idle", "ingested"}, NEW state \in RunStates,
         NEW mark \in Marks \union {"none"}, NEW open \in BOOLEAN, Conclude(state, mark, open)
  PROVE  WorkerInv'
<1>1. verdict' \in Verdicts /\ verdict'.state \in RunStates
  BY DEF Conclude, Verdicts
<1> QED BY <1>1 DEF Conclude, TypesInv, WorkerInv, RunsStay, Pcs

(* The outcome of an ingestion is one of the outcomes.                     *)
LEMMA OutcomeIs ==
  ASSUME NEW raw
  PROVE  Outcome(Normalize(raw)) \in Outcomes
<1> DEFINE c == Normalize(raw)
<1>1. c.fault \in {"INACTIVE_BUSINESS", "INVALID", "none"}
  BY DEF Normalize
<1> HIDE DEF c
<1>2. Outcome(c) \in Outcomes
  BY <1>1 DEF Outcome, NewOutcome, Intrinsic, Outcomes
<1> QED BY <1>2 DEF c

(* The worker keeps its types.                                             *)
LEMMA WorkerStep ==
  ASSUME TypesInv, Next
  PROVE  WorkerInv'
<1>0. RunsStay
  BY RunStep
<1>1. ASSUME NEW raw \in Raw, NEW fixture \in Fixtures, Fixture(raw, fixture)
      PROVE  WorkerInv'
  <2>1. raw.key \in Keys /\ None \notin Keys /\ fixture \in Brings
    BY <1>1, PipelineAssumption, DiscoveryAssumption DEF PipelineAssumption, DiscoveryAssumption
  <2>2. Normalize(raw).key = raw.key
    BY DEF Normalize
  <2>3. /\ pc' = "ingested" /\ cur' = Normalize(raw).key /\ brought' = fixture
        /\ outcome' = Outcome(Normalize(raw)) /\ UNCHANGED <<todo, after, verdict>>
    BY <1>1 DEF Fixture
  <2> QED BY <2>1, <2>2, <2>3, OutcomeIs DEF TypesInv, WorkerInv, Pcs
<1>2. ASSUME NEW k \in Keys, Resume(k)
      PROVE  WorkerInv'
  BY <1>0, <1>2, Carried DEF Resume, IsOpen, RunsStay
<1>3. CASE FindRun
  <2>1. cur \in Keys
    BY <1>3 DEF FindRun, TypesInv, WorkerInv
  <2>2. CASE run[cur] = None
    <3> DEFINE r == [state |-> "DISCOVERED", open |-> TRUE, outcome |-> outcome,
                     marks |-> {}, attempts |-> 0, items |-> brought.items,
                     found |-> << >>, gate |-> brought.gate, review |-> NoGates]
    <3>1. r \in RunRows /\ None \notin RunRows
      BY <1>3, NothingIs, PipelineAssumption
         DEF FindRun, TypesInv, WorkerInv, RunRows, RunStates, Brings, PipelineAssumption
    <3>2. run' = [run EXCEPT ![cur] = r] /\ Carry(cur)
      BY <1>3, <2>2 DEF FindRun
    <3> HIDE DEF r
    <3>3. run'[cur] # None
      BY <2>1, <3>1, <3>2 DEF TypesInv, TablesInv
    <3> QED BY <2>1, <3>2, <3>3, Carried
  <2>3. CASE run[cur] # None
    <3>1. Carry(cur) \/ Finish
      BY <1>3, <2>3 DEF FindRun
    <3>2. run'[cur] # None
      BY <1>0, <2>1, <2>3 DEF RunsStay
    <3> QED BY <1>0, <2>1, <3>1, <3>2, Carried, Finished
  <2> QED BY <2>2, <2>3
<1>4. CASE Process
  <2>1. cur \in Keys /\ run[cur] \in RunRows
    BY <1>4 DEF Process, TypesInv, TablesInv, WorkerInv
  <2>2. Route(run[cur].outcome) \in {"SUPPRESSED", "REJECTED", "HOLD", "go"}
    BY DEF Route
  <2>3. \/ \E state \in {"SUPPRESSED", "REJECTED", "HOLD"} :
             \E mark \in {"discovery_ingestion", "none"} : Conclude(state, mark, FALSE)
        \/ Goto("enrich")
    BY <1>4, <2>2 DEF Process
  <2>4. pc \notin {"idle", "ingested"}
    BY <1>4 DEF Process
  <2>5. {"SUPPRESSED", "REJECTED", "HOLD"} \subseteq RunStates
        /\ {"discovery_ingestion", "none"} \subseteq Marks \union {"none"}
        /\ "enrich" \in Pcs \ {"idle", "ingested", "link", "final"}
    BY DEF RunStates, Marks, Pcs
  <2> QED BY <1>0, <2>3, <2>4, <2>5, Concluded, WentOn
<1>5. ASSUME NEW label \in Pcs \ {"idle", "ingested", "link", "final"},
             pc \notin {"idle", "ingested"}, Goto(label)
      PROVE  WorkerInv'
  BY <1>0, <1>5, WentOn
<1>6. ASSUME pc \notin {"idle", "ingested"}, NEW state \in RunStates,
             NEW mark \in Marks \union {"none"}, NEW open \in BOOLEAN,
             Conclude(state, mark, open)
      PROVE  WorkerInv'
  BY <1>0, <1>6, Concluded
<1>7. CASE Enrich
  <2>1. pc \notin {"idle", "ingested"}
        /\ (Goto("evidence") \/ Goto("gate") \/ Goto("enriched") \/ Conclude("HOLD", "enrichment", FALSE))
    BY <1>7 DEF Enrich
  <2> QED BY <1>5, <1>6, <2>1 DEF Pcs, RunStates, Marks
<1>8. ASSUME NEW safe \in BOOLEAN, Gate(safe)
      PROVE  WorkerInv'
  <2>1. pc \notin {"idle", "ingested"}
        /\ (Goto("crawl") \/ Conclude("ERROR_TERMINAL", "none", FALSE))
    BY <1>8 DEF Gate
  <2> QED BY <1>5, <1>6, <2>1 DEF Pcs, RunStates
<1>9. ASSUME NEW state, NEW found, Crawl(state, found)
      PROVE  WorkerInv'
  <2>1. /\ pc \notin {"idle", "ingested"}
        /\ \/ Goto("enriched") \/ Conclude("ERROR_RETRYABLE", "none", TRUE)
           \/ Conclude("ERROR_TERMINAL", "none", FALSE)
    BY <1>9 DEF Crawl
  <2> QED BY <1>5, <1>6, <2>1 DEF Pcs, RunStates
<1>10. ASSUME Enriched \/ LeadCreation \/ FinalRun \/ FinalLead
       PROVE  WorkerInv'
  <2>1. /\ pc \notin {"idle", "ingested"}
        /\ Goto("evidence") \/ Goto("qualify") \/ Goto("status") \/ Goto("mark")
    BY <1>10 DEF Enriched, LeadCreation, FinalRun, FinalLead
  <2> QED BY <1>5, <2>1 DEF Pcs
<1>11. CASE Qualify
  <2>1. /\ pc \notin {"idle", "ingested"}
        /\ Conclude("SUPPRESSED", "qualification", FALSE) \/ Finish \/ Goto("score")
    BY <1>11 DEF Qualify
  <2> QED BY <1>0, <1>5, <1>6, <2>1, Finished DEF Pcs, RunStates, Marks
<1>12. CASE Judge
  <2>1. Final(cur) \in RunStates
    BY <1>12, JudgedIs DEF Judge, TypesInv, WorkerInv, RunStates
  <2>2. pc \notin {"idle", "ingested"} /\ Conclude(Final(cur), "qualification", FALSE)
    BY <1>12 DEF Judge
  <2> QED BY <1>6, <2>1, <2>2 DEF Marks
<1>13. CASE FinalMark
  BY <1>0, <1>13, Finished DEF FinalMark
<1>14. CASE Crash \/ CrawlRaises
  BY <1>0, <1>14, Finished DEF Crash, CrawlRaises
<1>15. CASE Consolidate
  <2>1. cur \in Keys /\ run[cur] \in RunRows /\ pc = "evidence"
    BY <1>15 DEF Consolidate, TypesInv, TablesInv, WorkerInv
  <2>2. run[cur].items \in Seq(Items) /\ run[cur].found \in Seq(Items)
    BY <2>1 DEF RunRows
  <2>3. CandidateEvidence(cur) \in Seq(Items)
    BY PipelineAssumption DEF PipelineAssumption, CandidateEvidence
  <2>4. CandidateEvidence(cur) \o run[cur].items \o WebsiteEvidence(cur) \in Seq(Items)
    BY <2>2, <2>3, ConcatProperties DEF WebsiteEvidence
  <2>5. /\ UNCHANGED <<cur, brought, outcome, verdict>>
        /\ \/ pc' = "lead" /\ UNCHANGED <<todo, after>>
           \/ /\ pc' = "store" /\ after' = "evidence"
              /\ todo' = CandidateEvidence(cur) \o run[cur].items \o WebsiteEvidence(cur)
    BY <1>15 DEF Consolidate
  <2> QED BY <1>0, <2>1, <2>4, <2>5 DEF TypesInv, WorkerInv, RunsStay, Pcs
<1>16. ASSUME pc \in {"store", "link"}, todo # << >>, pc' = "store", todo' = Tail(todo),
              UNCHANGED <<cur, brought, outcome, after, verdict>>
       PROVE  WorkerInv'
  <2>1. todo \in Seq(Items) /\ Tail(todo) \in Seq(Items)
    BY <1>16, HeadTailProperties DEF TypesInv, WorkerInv
  <2> QED BY <1>0, <1>16, <2>1 DEF TypesInv, WorkerInv, RunsStay, Pcs
<1>17. CASE Observe
  <2>1. CASE Known(cur, Head(todo))
    BY <1>16, <1>17, <2>1 DEF Observe
  <2>2. CASE ~Known(cur, Head(todo))
    <3>1. /\ pc = "store" /\ pc' = "link" /\ todo # << >>
          /\ UNCHANGED <<todo, cur, brought, outcome, after, verdict>>
      BY <1>17, <2>2 DEF Observe
    <3> QED BY <1>0, <3>1 DEF TypesInv, WorkerInv, RunsStay, Pcs
  <2> QED BY <2>1, <2>2
<1>18. CASE Link
  BY <1>16, <1>18 DEF Link, TypesInv, WorkerInv
<1>19. CASE Stored
  <2>1. CASE after = "evidence"
    <3>1. pc = "store" /\ pc' = "lead" /\ after' = "none" /\ UNCHANGED <<cur, brought, outcome, todo, verdict>>
      BY <1>19, <2>1 DEF Stored
    <3> QED BY <1>0, <3>1 DEF TypesInv, WorkerInv, RunsStay, Pcs
  <2>2. CASE after = "requalify"
    <3>1. /\ pc = "store" /\ pc' = "qualify" /\ after' = "none" /\ brought' = Nothing
          /\ UNCHANGED <<cur, outcome, todo, verdict>>
      BY <1>19, <2>2 DEF Stored
    <3> QED BY <1>0, <3>1, NothingIs DEF TypesInv, WorkerInv, RunsStay, Pcs
  <2> QED BY <1>0, <1>19, <2>1, <2>2, Finished DEF Stored
<1>20. ASSUME NEW k \in Keys, NEW g \in Gates, NEW d \in TriState, ReviewGate(k, g, d)
       PROVE  WorkerInv'
  BY <1>0, <1>20 DEF ReviewGate, Reviewable, locals, TypesInv, WorkerInv
<1>21. ASSUME NEW k \in Keys, NEW item \in Reviews, ReviewSignal(k, item)
       PROVE  WorkerInv'
  <2>1. None \notin Keys /\ <<item>> \in Seq(Items)
    BY PipelineAssumption, DiscoveryAssumption DEF PipelineAssumption, DiscoveryAssumption
  <2>2. /\ pc' = "store" /\ cur' = k /\ todo' = <<item>> /\ after' = "review"
        /\ run[k] # None /\ UNCHANGED <<run, brought, outcome, verdict>>
    BY <1>21 DEF ReviewSignal, Reviewable, tables
  <2> QED BY <2>1, <2>2 DEF TypesInv, WorkerInv, Pcs
<1>22. ASSUME NEW k \in Keys, NEW update \in Updates, Requalify(k, update)
       PROVE  WorkerInv'
  <2>1. None \notin Keys /\ update \in Brings /\ update.items \in Seq(Items)
    BY PipelineAssumption, DiscoveryAssumption DEF PipelineAssumption, DiscoveryAssumption, Brings
  <2> DEFINE v == [state |-> "SUPPRESSED", mark |-> "none", open |-> FALSE]
  <2>2. v \in Verdicts /\ v.state \in RunStates
    BY DEF Verdicts, RunStates
  <2>3. /\ cur' = k /\ run[k] # None /\ UNCHANGED <<run, outcome>>
        /\ \/ verdict' = v /\ pc' = "final" /\ UNCHANGED <<brought, todo, after>>
           \/ /\ pc' = "store" /\ todo' = update.items /\ after' = "requalify"
              /\ brought' = update /\ UNCHANGED verdict
    BY <1>22 DEF Requalify, Reviewable, tables
  <2> HIDE DEF v
  <2> QED BY <2>1, <2>2, <2>3 DEF TypesInv, WorkerInv, Pcs
<1>23. CASE Elsewhere
  BY <1>23 DEF Elsewhere, tables, locals, TypesInv, WorkerInv
<1> QED BY <1>1, <1>2, <1>3, <1>4, <1>7, <1>8, <1>9, <1>10, <1>11, <1>12, <1>13, <1>14, <1>15,
          <1>17, <1>18, <1>19, <1>20, <1>21, <1>22, <1>23 DEF Next, Work

LEMMA TypesInit == Init => TypesInv
<1> SUFFICES ASSUME Init
             PROVE  TypesInv
  OBVIOUS
<1>1. << >> \in Seq(TrailRows) /\ << >> \in Seq(EvidenceRows) /\ << >> \in Seq(ResultRows)
      /\ << >> \in Seq(Items)
  OBVIOUS
<1>2. TablesInv
  BY <1>1 DEF Init, TablesInv
<1>3. BoundsInv
  BY PipelineAssumption DEF Init, BoundsInv, PipelineAssumption
<1>4. NoVerdict \in Verdicts
  BY DEF NoVerdict, Verdicts
<1>5. WorkerInv
  BY <1>1, <1>4, NothingIs DEF Init, WorkerInv, Pcs
<1> QED BY <1>2, <1>3, <1>5 DEF TypesInv

LEMMA TypesStep == TypesInv /\ [Next]_vars => TypesInv'
<1>1. CASE UNCHANGED vars
  BY <1>1 DEF vars, tables, locals, bounds, TypesInv, TablesInv, BoundsInv, WorkerInv
<1> QED BY <1>1, TablesStep, BoundsStep, WorkerStep DEF TypesInv

-----------------------------------------------------------------------------
(* Attempts. *)

(* No attempt is charged, no run is opened or closed, no mark is lost.     *)
Calm ==
  \A k \in Keys : run'[k] # None =>
    /\ run[k] # None
    /\ run'[k].attempts = run[k].attempts /\ run'[k].open = run[k].open
    /\ run[k].marks \subseteq run'[k].marks

(* A run row that is written without touching attempts and openness.       *)
LEMMA CalmRow ==
  ASSUME TypesInv, NEW c \in Keys, run[c] # None, NEW r, run' = [run EXCEPT ![c] = r],
         r.attempts = run[c].attempts, r.open = run[c].open, run[c].marks \subseteq r.marks
  PROVE  Calm
BY DEF TypesInv, TablesInv, Calm

(* The steps that are calm.                                                *)
LEMMA CalmStep ==
  ASSUME TypesInv,
         \/ UNCHANGED run
         \/ Process \/ Enriched \/ LeadCreation \/ Qualify \/ FinalMark
         \/ Stored /\ after # "requalify"
         \/ \E state \in {"COMPLETED", "SOURCE_ERROR", "BLOCKED"}, found \in Seq(Items) : Crawl(state, found)
         \/ \E k \in Keys, g \in Gates, d \in TriState : ReviewGate(k, g, d)
  PROVE  Calm
<1>0. ASSUME pc \notin {"idle", "ingested"}
      PROVE  cur \in Keys /\ run[cur] # None /\ run[cur] \in RunRows
  BY <1>0 DEF TypesInv, TablesInv, WorkerInv
<1>1. ASSUME UNCHANGED run
      PROVE  Calm
  BY <1>1 DEF Calm
<1>2. CASE Process
  <2> DEFINE r == [run[cur] EXCEPT !.state = "INGESTION_ACCEPTED",
                                   !.marks = @ \union {"discovery_ingestion"}]
  <2>1. cur \in Keys /\ run[cur] # None /\ run[cur] \in RunRows
    BY <1>0, <1>2 DEF Process
  <2>2. /\ r.attempts = run[cur].attempts /\ r.open = run[cur].open
        /\ run[cur].marks \subseteq r.marks
    BY <2>1 DEF RunRows
  <2>3. run' = [run EXCEPT ![cur] = r] \/ UNCHANGED run
    BY <1>2, <2>1 DEF Process, TypesInv, TablesInv
  <2> HIDE DEF r
  <2> QED BY <1>1, <2>1, <2>2, <2>3, CalmRow
<1>3. CASE Enriched
  <2> DEFINE r == [run[cur] EXCEPT !.state = "ENRICHMENT_COMPLETE",
                                   !.marks = @ \union {"enrichment"}]
  <2>1. cur \in Keys /\ run[cur] # None /\ run[cur] \in RunRows
    BY <1>0, <1>3 DEF Enriched
  <2>2. /\ r.attempts = run[cur].attempts /\ r.open = run[cur].open
        /\ run[cur].marks \subseteq r.marks
    BY <2>1 DEF RunRows
  <2>3. run' = [run EXCEPT ![cur] = r]
    BY <1>3, <2>1 DEF Enriched, TypesInv, TablesInv
  <2> HIDE DEF r
  <2> QED BY <2>1, <2>2, <2>3, CalmRow
<1>4. ASSUME NEW mark, Checkpoint(cur, mark), pc \notin {"idle", "ingested"}
      PROVE  Calm
  <2> DEFINE r == [run[cur] EXCEPT !.marks = (run[cur].marks \union {mark}) \intersect Marks]
  <2>1. cur \in Keys /\ run[cur] # None /\ run[cur] \in RunRows
    BY <1>0, <1>4
  <2>2. /\ r.attempts = run[cur].attempts /\ r.open = run[cur].open
        /\ run[cur].marks \subseteq r.marks
    BY <2>1 DEF RunRows
  <2>3. run' = [run EXCEPT ![cur] = r]
    BY <1>4, <2>1 DEF Checkpoint, Set, TypesInv, TablesInv
  <2> HIDE DEF r
  <2> QED BY <2>1, <2>2, <2>3, CalmRow
<1>5. CASE Qualify
  <2> DEFINE r == [run[cur] EXCEPT !.state = "QUALIFICATION_PENDING"]
  <2>1. cur \in Keys /\ run[cur] # None /\ run[cur] \in RunRows
    BY <1>0, <1>5 DEF Qualify
  <2>2. /\ r.attempts = run[cur].attempts /\ r.open = run[cur].open
        /\ run[cur].marks \subseteq r.marks
    BY <2>1 DEF RunRows
  <2>3. run' = [run EXCEPT ![cur] = r] \/ UNCHANGED run
    BY <1>5, <2>1 DEF Qualify, Set, TypesInv, TablesInv
  <2> HIDE DEF r
  <2> QED BY <1>1, <2>1, <2>2, <2>3, CalmRow
<1>6. ASSUME NEW found \in Seq(Items), NEW state, Crawl(state, found)
      PROVE  Calm
  <2> DEFINE r == [run[cur] EXCEPT !.found = found]
  <2>1. cur \in Keys /\ run[cur] # None /\ run[cur] \in RunRows
    BY <1>0, <1>6 DEF Crawl
  <2>2. /\ r.attempts = run[cur].attempts /\ r.open = run[cur].open
        /\ run[cur].marks \subseteq r.marks
    BY <2>1 DEF RunRows
  <2>3. run' = [run EXCEPT ![cur] = r]
    BY <1>6, <2>1 DEF Crawl, Set, TypesInv, TablesInv
  <2> HIDE DEF r
  <2> QED BY <2>1, <2>2, <2>3, CalmRow
<1>7. ASSUME NEW k \in Keys, NEW g \in Gates, NEW d \in TriState, ReviewGate(k, g, d)
      PROVE  Calm
  <2> DEFINE r == [run[k] EXCEPT !.review = [run[k].review EXCEPT ![g] = d]]
  <2>1. run[k] # None /\ run[k] \in RunRows
    BY <1>7 DEF ReviewGate, Reviewable, TypesInv, TablesInv
  <2>2. /\ r.attempts = run[k].attempts /\ r.open = run[k].open
        /\ run[k].marks \subseteq r.marks
    BY <2>1 DEF RunRows
  <2>3. run' = [run EXCEPT ![k] = r]
    BY <1>7, <2>1 DEF ReviewGate, TypesInv, TablesInv
  <2> HIDE DEF r
  <2> QED BY <2>1, <2>2, <2>3, CalmRow
<1>8. ASSUME Stored, after # "requalify"
      PROVE  Calm
  BY <1>1, <1>4, <1>8 DEF Stored
<1> QED BY <1>1, <1>2, <1>3, <1>4, <1>5, <1>6, <1>7, <1>8 DEF LeadCreation, FinalMark

(* A calm step that makes no run chargeable keeps the attempts in bounds.  *)
LEMMA CalmAttempts ==
  ASSUME TypesInv, AttemptsInv, Calm, UNCHANGED <<crashes, raised, reviews>>,
         pc' \in {"process", "enrich"} => run'[cur'].open,
         \A k \in Keys : run'[k] # None /\ Chargeable(k)' => Chargeable(k)
  PROVE  AttemptsInv'
BY DEF AttemptsInv, Calm, Budget

(* A death, a crawl that raised and a review each leave room for one       *)
(* attempt.                                                                *)
LEMMA RaisedAttempts ==
  ASSUME TypesInv, AttemptsInv, Calm, Budget' = Budget + 1, pc' \notin {"process", "enrich"}
  PROVE  AttemptsInv'
<1>1. ASSUME NEW k \in Keys, run'[k] # None
      PROVE  run'[k].attempts < Budget'
  <2>1. run[k] # None /\ run'[k].attempts = run[k].attempts
    BY <1>1 DEF Calm
  <2>2. run[k].attempts <= Budget /\ run[k] \in RunRows
    BY <2>1 DEF AttemptsInv, TypesInv, TablesInv
  <2>3. run[k].attempts \in Nat
    BY <2>2 DEF RunRows
  <2>4. Budget \in Nat
    BY PipelineAssumption DEF PipelineAssumption, TypesInv, BoundsInv, Budget
  <2> QED BY <2>1, <2>2, <2>3, <2>4
<1>2. ASSUME NEW k \in Keys, run'[k] # None
      PROVE  run'[k].attempts <= Budget'
  <2>1. run'[k].attempts < Budget'
    BY <1>1, <1>2
  <2>2. run'[k].attempts \in Nat
    <3>1. run[k] # None /\ run'[k].attempts = run[k].attempts
      BY <1>2 DEF Calm
    <3> QED BY <3>1 DEF TypesInv, TablesInv, RunRows
  <2>3. Budget' \in Nat
    BY PipelineAssumption DEF PipelineAssumption, TypesInv, BoundsInv, Budget
  <2> QED BY <2>1, <2>2, <2>3
<1> QED BY <1>1, <1>2 DEF AttemptsInv

(* Where a calm step may take the worker without making a run chargeable.  *)
LEMMA CalmChargeable ==
  ASSUME Calm, NEW k \in Keys, run'[k] # None, Chargeable(k)',
         ~Charged \/ (Charged' /\ cur' = cur),
         pc' \in {"store", "link"} /\ after' = "requalify" =>
           pc \in {"store", "link"} /\ after = "requalify" /\ cur' = cur,
         pc' = "final" => ~verdict'.open
  PROVE  Chargeable(k)
<1>1. /\ run[k] # None /\ run'[k].open = run[k].open
      /\ "enrichment" \in run[k].marks => "enrichment" \in run'[k].marks
  BY DEF Calm
<1>2. CASE run'[k].open /\ "enrichment" \notin run'[k].marks /\ ~(cur' = k /\ Charged')
  BY <1>1, <1>2 DEF Chargeable, Marked
<1>3. CASE cur' = k /\ pc' \in {"store", "link"} /\ after' = "requalify"
  BY <1>3 DEF Chargeable
<1>4. CASE cur' = k /\ pc' = "final" /\ verdict'.open
  BY <1>4
<1> QED BY <1>2, <1>3, <1>4 DEF Chargeable, Marked

(* What the steps of a call on one run do, but for those that charge, open *)
(* or close it.                                                            *)
LEMMA AttemptsMost ==
  ASSUME TypesInv, AttemptsInv,
         \/ \E raw \in Raw, fixture \in Fixtures : Fixture(raw, fixture)
         \/ \E k \in Keys : Resume(k)
         \/ Process \/ Consolidate \/ Observe \/ Link \/ LeadCreation \/ Qualify \/ Judge
         \/ FinalLead \/ FinalMark \/ Elsewhere
         \/ \E safe \in BOOLEAN : Gate(safe)
         \/ Stored /\ after # "requalify"
         \/ FindRun /\ run[cur] # None
  PROVE  AttemptsInv'
<1>1. ASSUME Calm, UNCHANGED <<crashes, raised, reviews>>,
             pc' \in {"process", "enrich"} => run'[cur'].open,
             ~Charged \/ (Charged' /\ cur' = cur),
             pc' \in {"store", "link"} /\ after' = "requalify" =>
               pc \in {"store", "link"} /\ after = "requalify" /\ cur' = cur,
             pc' = "final" => ~verdict'.open
      PROVE  AttemptsInv'
  BY <1>1, CalmChargeable, CalmAttempts
<1>2. ASSUME UNCHANGED run
      PROVE  Calm
  BY <1>2, CalmStep
<1>3. ASSUME NEW raw \in Raw, NEW fixture \in Fixtures, Fixture(raw, fixture)
      PROVE  AttemptsInv'
  <2>1. /\ UNCHANGED <<run, crashes, raised, reviews>> /\ pc = "idle" /\ pc' = "ingested"
    BY <1>3 DEF Fixture, tables, bounds
  <2> QED BY <1>1, <1>2, <2>1 DEF Charged
<1>4. ASSUME NEW k \in Keys, Resume(k)
      PROVE  AttemptsInv'
  <2>1. /\ UNCHANGED <<run, crashes, raised, reviews>> /\ pc = "idle" /\ pc' = "process"
        /\ cur' = k /\ run[k].open
    BY <1>4 DEF Resume, Carry, IsOpen, tables, bounds
  <2> QED BY <1>1, <1>2, <2>1 DEF Charged
<1>5. CASE Process
  <2>1. Calm /\ UNCHANGED <<crashes, raised, reviews, cur>> /\ pc = "process" /\ cur \in Keys
    BY <1>5, CalmStep DEF Process, bounds, Conclude, Goto, locals, TypesInv, WorkerInv
  <2>2. pc' = "enrich" \/ (pc' = "final" /\ ~verdict'.open)
    BY <1>5 DEF Process, Conclude, Goto
  <2>3. run[cur].open /\ run'[cur] # None
    BY <1>5, <2>1, RunStep DEF AttemptsInv, RunsStay, TypesInv, WorkerInv, Next, Work
  <2> QED BY <1>1, <2>1, <2>2, <2>3 DEF Charged, Calm
<1>6. CASE Consolidate
  <2>1. /\ UNCHANGED <<run, crashes, raised, reviews>> /\ pc = "evidence"
        /\ pc' = "lead" \/ (pc' = "store" /\ after' = "evidence")
    BY <1>6 DEF Consolidate, tables, bounds
  <2> QED BY <1>1, <1>2, <2>1 DEF Charged
<1>7. CASE Observe \/ Link
  <2>1. /\ UNCHANGED <<run, crashes, raised, reviews, cur, after>> /\ pc \in {"store", "link"}
        /\ pc' \in {"store", "link"}
    BY <1>7 DEF Observe, Link, bounds
  <2> QED BY SMTT(30), <1>1, <1>2, <2>1 DEF Charged
<1>8. CASE LeadCreation \/ FinalLead \/ FinalMark
  <2>1. /\ UNCHANGED <<crashes, raised, reviews>> /\ pc \in {"lead", "status", "mark"}
        /\ pc' \in {"qualify", "mark", "idle"}
    BY <1>8 DEF LeadCreation, FinalLead, FinalMark, Goto, Finish, bounds
  <2>2. Calm
    BY <1>8, CalmStep DEF FinalLead, tables
  <2> QED BY <1>1, <2>1, <2>2 DEF Charged
<1>9. CASE Qualify
  <2>1. /\ UNCHANGED <<crashes, raised, reviews>> /\ pc = "qualify"
        /\ pc' \in {"score", "idle"} \/ (pc' = "final" /\ ~verdict'.open)
    BY <1>9 DEF Qualify, Goto, Finish, Conclude, bounds
  <2>2. Calm
    BY <1>9, CalmStep
  <2> QED BY <1>1, <2>1, <2>2 DEF Charged
<1>10. CASE Judge
  <2>1. /\ UNCHANGED <<run, crashes, raised, reviews>> /\ pc = "score" /\ pc' = "final"
        /\ ~verdict'.open
    BY <1>10 DEF Judge, Conclude, bounds
  <2> QED BY <1>1, <1>2, <2>1 DEF Charged
<1>11. CASE Elsewhere
  <2>1. UNCHANGED <<run, crashes, raised, reviews, pc, cur, after, verdict>>
    BY <1>11 DEF Elsewhere, tables, locals, bounds
  <2>2. pc \in {"process", "enrich"} => run'[cur'].open
    BY <2>1 DEF AttemptsInv
  <2>3. \A k \in Keys : Chargeable(k)' <=> Chargeable(k)
    BY <2>1 DEF Chargeable, Charged, Marked
  <2> QED BY <1>2, <2>1, <2>2, <2>3, CalmAttempts
<1>12. ASSUME NEW safe \in BOOLEAN, Gate(safe)
       PROVE  AttemptsInv'
  <2>1. /\ UNCHANGED <<run, crashes, raised, reviews, cur>> /\ pc = "gate"
        /\ pc' = "crawl" \/ (pc' = "final" /\ ~verdict'.open)
    BY <1>12 DEF Gate, Goto, Conclude, locals, bounds
  <2> QED BY <1>1, <1>2, <2>1 DEF Charged
<1>13. ASSUME Stored, after # "requalify"
       PROVE  AttemptsInv'
  <2>1. /\ UNCHANGED <<crashes, raised, reviews>> /\ pc = "store" /\ pc' \in {"lead", "idle"}
    BY <1>13 DEF Stored, Finish, bounds
  <2>2. Calm
    BY <1>13, CalmStep
  <2> QED BY <1>1, <2>1, <2>2 DEF Charged
<1>14. ASSUME FindRun, run[cur] # None
       PROVE  AttemptsInv'
  <2>1. /\ UNCHANGED <<run, crashes, raised, reviews>> /\ pc = "ingested"
        /\ pc' = "idle" \/ (pc' = "process" /\ cur' = cur /\ run[cur].open)
    BY <1>14 DEF FindRun, Finish, Carry, bounds
  <2> QED BY <1>1, <1>2, <2>1 DEF Charged
<1> QED BY <1>3, <1>4, <1>5, <1>6, <1>7, <1>8, <1>9, <1>10, <1>11, <1>12, <1>13, <1>14

(* A row's attempts and openness when only k's row changes.                *)
LEMMA OneRow ==
  ASSUME TypesInv, AttemptsInv, NEW c \in Keys, NEW r, r \in RunRows,
         run' = [run EXCEPT ![c] = r], UNCHANGED <<crashes, raised, reviews>>, cur' = cur, cur = c,
         ~(pc \in {"store", "link"} /\ after = "requalify") =>
           ~(pc' \in {"store", "link"} /\ after' = "requalify"),
         r.attempts <= Budget, Chargeable(c)' => r.attempts < Budget,
         pc' \notin {"process", "enrich"} \/ r.open
  PROVE  AttemptsInv'
<1>1. ASSUME NEW k \in Keys, run'[k] # None, k # c
      PROVE  run'[k].attempts <= Budget' /\ (Chargeable(k)' => run'[k].attempts < Budget')
  <2>1. run'[k] = run[k] /\ run[k] # None
    BY <1>1 DEF TypesInv, TablesInv
  <2>2. Chargeable(k)' => Chargeable(k)
    BY <1>1, <2>1 DEF Chargeable, Marked
  <2> QED BY <2>1, <2>2 DEF AttemptsInv, Budget
<1>2. run'[c] = r
  BY DEF TypesInv, TablesInv
<1> QED BY <1>1, <1>2 DEF AttemptsInv, Budget

(* Attempts stay in bounds.                                                *)
LEMMA AttemptsNext ==
  ASSUME TypesInv, AttemptsInv, Next
  PROVE  AttemptsInv'
<1>1. Budget \in Nat /\ Budget >= MaxAttempts /\ MaxAttempts \in Nat \ {0}
  BY PipelineAssumption DEF PipelineAssumption, TypesInv, BoundsInv, Budget
<1>2. ASSUME pc \notin {"idle", "ingested"}
      PROVE  /\ cur \in Keys /\ run[cur] # None /\ run[cur] \in RunRows
             /\ run[cur].attempts \in Nat /\ run[cur].attempts <= Budget
             /\ Chargeable(cur) => run[cur].attempts < Budget
  BY <1>2 DEF TypesInv, TablesInv, WorkerInv, AttemptsInv, RunRows
<1>3. ASSUME FindRun, run[cur] = None
      PROVE  AttemptsInv'
  <2> DEFINE r == [state |-> "DISCOVERED", open |-> TRUE, outcome |-> outcome,
                   marks |-> {}, attempts |-> 0, items |-> brought.items,
                   found |-> << >>, gate |-> brought.gate, review |-> NoGates]
  <2>1. /\ run' = [run EXCEPT ![cur] = r] /\ pc = "ingested" /\ pc' = "process" /\ cur' = cur
        /\ UNCHANGED <<crashes, raised, reviews>> /\ cur \in Keys
    BY <1>3 DEF FindRun, Carry, TypesInv, WorkerInv, bounds
  <2>2. r \in RunRows /\ r.attempts = 0 /\ r.open
    BY <1>3, NothingIs DEF FindRun, TypesInv, WorkerInv, RunRows, RunStates, Brings
  <2> HIDE DEF r
  <2>3. r.attempts <= Budget /\ r.attempts < Budget
    BY <1>1, <2>2
  <2>4. pc' \notin {"store", "link"}
    BY <2>1
  <2> QED BY <2>1, <2>2, <2>3, <2>4, OneRow
<1>4. CASE Enrich
  <2> DEFINE s == [run[cur] EXCEPT !.state = "ENRICHMENT_PENDING"]
             more == run[cur].attempts + 1
             t == [run[cur] EXCEPT !.state = "ENRICHMENT_PENDING", !.attempts = more]
  <2>1. /\ pc = "enrich" /\ cur \in Keys /\ run[cur] \in RunRows /\ run[cur] # None
        /\ UNCHANGED <<crashes, raised, reviews, cur>> /\ run[cur].open
    BY <1>2, <1>4 DEF Enrich, Goto, Conclude, locals, bounds, AttemptsInv
  <2>2. CASE UNCHANGED run
    <3>1. pc' = "evidence" \/ pc' = "enriched" \/ (pc' = "final" /\ ~verdict'.open) \/ pc' = "gate"
      BY <1>4 DEF Enrich, Goto, Conclude
    <3>2. Calm
      BY <2>2, CalmStep
    <3>3. \A k \in Keys : run'[k] # None /\ Chargeable(k)' => Chargeable(k)
      BY <2>1, <3>1, <3>2, CalmChargeable DEF Charged
    <3> QED BY <2>1, <3>1, <3>2, <3>3, CalmAttempts
  <2>3. CASE run' = [run EXCEPT ![cur] = s] /\ (pc' = "enriched" \/ (pc' = "final" /\ ~verdict'.open))
    <3>1. /\ s.attempts = run[cur].attempts /\ s.open = run[cur].open
          /\ run[cur].marks \subseteq s.marks
      BY <2>1 DEF RunRows
    <3> HIDE DEF s
    <3>2. Calm
      BY <2>1, <2>3, <3>1, CalmRow
    <3>3. \A k \in Keys : run'[k] # None /\ Chargeable(k)' => Chargeable(k)
      BY <2>1, <2>3, <3>2, CalmChargeable DEF Charged
    <3> QED BY <2>1, <2>3, <3>2, <3>3, CalmAttempts
  <2>4. CASE run' = [run EXCEPT ![cur] = t] /\ pc' = "gate" /\ ~Marked(cur, "enrichment")
    <3>1. Chargeable(cur)
      BY <2>1, <2>4 DEF Chargeable, Charged
    <3>2. more \in Nat /\ more <= Budget
      BY <1>1, <1>2, <2>1, <3>1
    <3> HIDE DEF more
    <3>3. t \in RunRows /\ t.attempts = more
      BY <2>1, <3>2 DEF RunRows, RunStates
    <3> HIDE DEF t
    <3>4. ~Chargeable(cur)'
      BY <2>1, <2>4 DEF Chargeable, Charged
    <3> QED BY <2>1, <2>4, <3>2, <3>3, <3>4, OneRow
  <2>5. \/ UNCHANGED run
        \/ run' = [run EXCEPT ![cur] = s] /\ (pc' = "enriched" \/ (pc' = "final" /\ ~verdict'.open))
        \/ run' = [run EXCEPT ![cur] = t] /\ pc' = "gate" /\ ~Marked(cur, "enrichment")
    <3>1. s = [run[cur] EXCEPT !["state"] = "ENRICHMENT_PENDING"]
      OBVIOUS
    <3>2. t = [run[cur] EXCEPT !.state = "ENRICHMENT_PENDING",
                               !.attempts = run[cur].attempts + 1]
      OBVIOUS
    <3>3. run' = [run EXCEPT ![cur].state = "ENRICHMENT_PENDING", ![cur].attempts = @ + 1] =>
            run' = [run EXCEPT ![cur] = t]
      BY <2>1, <3>2 DEF TypesInv, TablesInv
    <3>4. run' = [run EXCEPT ![cur]["state"] = "ENRICHMENT_PENDING"] =>
            run' = [run EXCEPT ![cur] = s]
      BY <2>1, <3>1 DEF TypesInv, TablesInv
    <3> HIDE DEF s, t, more
    <3> QED BY <1>4, <3>3, <3>4 DEF Enrich, Set, Goto, Conclude
  <2> QED BY <2>2, <2>3, <2>4, <2>5
<1>5. CASE Enriched
  <2>1. /\ pc = "enriched" /\ pc' = "evidence" /\ UNCHANGED <<crashes, raised, reviews, cur>>
        /\ cur \in Keys /\ run[cur] \in RunRows
    BY <1>2, <1>5 DEF Enriched, Goto, locals, bounds
  <2>2. Calm
    BY <1>5, CalmStep
  <2>3. "enrichment" \in run'[cur].marks
    BY <1>5, <2>1 DEF Enriched, TypesInv, TablesInv, RunRows
  <2>4. ASSUME NEW k \in Keys, run'[k] # None, Chargeable(k)'
        PROVE  Chargeable(k)
    <3>1. k # cur
      BY <2>1, <2>3, <2>4 DEF Chargeable, Marked
    <3> QED BY <2>1, <2>2, <2>4, <3>1 DEF Chargeable, Marked, Calm
  <2> QED BY <2>1, <2>2, <2>4, CalmAttempts
<1>6. ASSUME NEW state \in {"COMPLETED", "SOURCE_ERROR", "BLOCKED"}, NEW found \in Seq(Items),
             Crawl(state, found)
      PROVE  AttemptsInv'
  <2>1. /\ pc = "crawl" /\ UNCHANGED <<crashes, raised, reviews, cur>> /\ cur \in Keys /\ Calm
    BY <1>2, <1>6, CalmStep DEF Crawl, Goto, Conclude, locals, bounds
  <2>2. CASE pc' = "enriched" \/ (pc' = "final" /\ ~verdict'.open)
    BY <2>1, <2>2, CalmChargeable, CalmAttempts DEF Charged
  <2>3. CASE pc' = "final" /\ run[cur].attempts < MaxAttempts
    <3>1. ASSUME NEW k \in Keys, run'[k] # None, Chargeable(k)', k # cur
          PROVE  Chargeable(k)
      BY <2>1, <2>3, <3>1 DEF Chargeable, Marked, Calm
    <3>2. run[cur].attempts < Budget
      BY <1>1, <1>2, <2>1, <2>3
    <3> QED BY <2>1, <2>3, <3>1, <3>2 DEF AttemptsInv, Calm, Budget
  <2> QED BY <1>6, <2>2, <2>3 DEF Crawl, Goto, Conclude, RetryLeft
<1>7. ASSUME Stored, after = "requalify"
      PROVE  AttemptsInv'
  <2> DEFINE word == Overlay(run[cur].gate, brought.gate)
             r == [run[cur] EXCEPT !.gate = word, !.open = TRUE,
                                   !.state = "QUALIFICATION_PENDING"]
  <2>1. /\ pc = "store" /\ pc' = "qualify" /\ UNCHANGED <<crashes, raised, reviews, cur>>
        /\ cur \in Keys /\ run[cur] \in RunRows /\ word \in GateWords
    BY <1>2, <1>7, OverlayIs DEF Stored, bounds, RunRows, TypesInv, WorkerInv, Brings
  <2>2. run' = [run EXCEPT ![cur] = r]
    BY <1>7, <2>1 DEF Stored, TypesInv, TablesInv
  <2> HIDE DEF word
  <2>3. r \in RunRows /\ r.attempts = run[cur].attempts
    BY <2>1 DEF RunRows, RunStates
  <2> HIDE DEF r
  <2>4. Chargeable(cur) /\ run[cur].attempts < Budget
    BY <1>2, <1>7, <2>1 DEF Chargeable
  <2> QED BY <1>2, <2>1, <2>2, <2>3, <2>4, OneRow
<1>8. CASE FinalRun
  <2> DEFINE r == [run[cur] EXCEPT !.state = verdict.state, !.open = verdict.open]
  <2>1. /\ pc = "final" /\ pc' = "status" /\ UNCHANGED <<crashes, raised, reviews, cur>>
        /\ cur \in Keys /\ run[cur] \in RunRows
        /\ verdict.state \in RunStates /\ verdict.open \in BOOLEAN
    BY <1>2, <1>8 DEF FinalRun, Goto, locals, bounds, TypesInv, WorkerInv, Verdicts
  <2>2. run' = [run EXCEPT ![cur] = r]
    BY <1>8, <2>1 DEF FinalRun, TypesInv, TablesInv
  <2>3. r \in RunRows /\ r.attempts = run[cur].attempts /\ r.open = verdict.open
    BY <2>1 DEF RunRows
  <2> HIDE DEF r
  <2>4. run'[cur] = r
    BY <2>1, <2>2 DEF TypesInv, TablesInv
  <2>5. Chargeable(cur)' => Chargeable(cur)
    BY <2>1, <2>3, <2>4 DEF Chargeable
  <2> QED BY <1>2, <2>1, <2>2, <2>3, <2>5, OneRow
<1>9. ASSUME NEW k \in Keys, NEW g \in Gates, NEW d \in TriState, ReviewGate(k, g, d)
      PROVE  AttemptsInv'
  <2>1. Calm /\ pc' = "idle" /\ reviews' = reviews + 1 /\ UNCHANGED <<raised, crashes>>
    BY <1>9, CalmStep DEF ReviewGate, Reviewable
  <2>2. Budget' = Budget + 1
    BY <2>1, <1>1 DEF Budget, TypesInv, BoundsInv
  <2>3. pc' \notin {"process", "enrich"} /\ Calm
    BY <2>1
  <2> QED BY <2>2, <2>3, RaisedAttempts
<1>10. ASSUME \/ \E k \in Keys, item \in Reviews : ReviewSignal(k, item)
              \/ \E k \in Keys, update \in Updates : Requalify(k, update)
       PROVE  AttemptsInv'
  <2>1. /\ UNCHANGED <<run, raised, crashes>> /\ reviews' = reviews + 1
        /\ pc' \in {"store", "final"}
    BY <1>10 DEF ReviewSignal, Requalify, Reviewable, tables
  <2> QED BY <2>1, CalmStep, RaisedAttempts, PipelineAssumption
          DEF Budget, TypesInv, BoundsInv, PipelineAssumption
<1>11. CASE Crash \/ CrawlRaises
  <2>1. /\ UNCHANGED <<run, reviews>> /\ pc' = "idle"
        /\ \/ crashes' = crashes + 1 /\ raised' = raised
           \/ raised' = raised + 1 /\ crashes' = crashes
    BY <1>11 DEF Crash, CrawlRaises, Finish, tables
  <2> QED BY SMTT(40), <2>1, CalmStep, RaisedAttempts, PipelineAssumption
          DEF Budget, TypesInv, BoundsInv, PipelineAssumption
<1>12. SiteFinds \subseteq Seq(Items) /\ << >> \in Seq(Items)
  BY PipelineAssumption DEF PipelineAssumption
<1>13. ASSUME \E found \in SiteFinds : Crawl("COMPLETED", found)
       PROVE  AttemptsInv'
  BY <1>6, <1>12, <1>13
<1>14. ASSUME \E state \in {"SOURCE_ERROR", "BLOCKED"} : Crawl(state, << >>)
       PROVE  AttemptsInv'
  BY <1>6, <1>12, <1>14
<1> QED BY <1>3, <1>4, <1>5, <1>7, <1>8, <1>9, <1>10, <1>11, <1>13, <1>14, AttemptsMost
        DEF Next, Work

LEMMA AttemptsStep == TypesInv /\ AttemptsInv /\ [Next]_vars => AttemptsInv'
<1>1. ASSUME TypesInv, AttemptsInv, UNCHANGED vars
      PROVE  AttemptsInv'
  <2>1. UNCHANGED <<run, pc, cur, after, verdict, crashes, raised, reviews>>
    BY <1>1 DEF vars, tables, locals, bounds
  <2>2. Budget' = Budget
    BY <2>1 DEF Budget
  <2>3. ASSUME NEW k \in Keys
        PROVE  Chargeable(k)' <=> Chargeable(k)
    BY <2>1 DEF Chargeable, Charged, Marked
  <2> QED BY <1>1, <2>1, <2>2, <2>3 DEF AttemptsInv
<1> QED BY <1>1, AttemptsNext

LEMMA AttemptsInit == Init => AttemptsInv
BY DEF Init, AttemptsInv

-----------------------------------------------------------------------------
(* Candidates and leads. *)

(* A lead keeps its status, or is new.                                     *)
LeadKept(k) == lead[k] # None => lead'[k] # None /\ lead'[k].status = lead[k].status
LeadNew(k) == lead[k] = None /\ lead'[k] # None => lead'[k].status = "DISCOVERED"
LeadsKept == \A k \in Keys : LeadKept(k) /\ LeadNew(k)

IsRecord(c) ==
  /\ c.key \in Keys /\ c.at \in Nat
  /\ c.site \in Values /\ c.email \in Values /\ c.phone \in Values /\ c.domain \in Values
  /\ c.fault \in {"INACTIVE_BUSINESS", "INVALID", "none"}

(* What the normalisation makes of an import is a record.                  *)
LEMMA RecordIs ==
  ASSUME NEW raw \in Imports
  PROVE  IsRecord(Normalize(raw))
<1>1. raw.key \in Keys /\ raw.at \in Nat
  BY DiscoveryAssumption DEF DiscoveryAssumption
<1>2. raw.site \in Values /\ raw.email \in Values /\ raw.phone \in Values /\ None \in Values
  BY DEF Values
<1>3. Clean(raw.site) \in Values /\ Clean(raw.email) \in Values
  BY <1>2 DEF Clean
<1>4. Normalize(raw).fault \in {"INACTIVE_BUSINESS", "INVALID", "none"}
  BY DEF Normalize
<1> QED BY <1>1, <1>2, <1>3, <1>4 DEF Normalize, IsRecord

(* An ingestion writes rows of the schema and leaves every lead its status.*)
LEMMA StoreRows ==
  ASSUME RowsInv, NEW c, IsRecord(c), Outcome(c) \in Outcomes, Store(c)
  PROVE  RowsInv' /\ LeadsKept
<1> DEFINE o == Outcome(c)
           row == IF cand[c.key] = None THEN Row(c, c, o)
                  ELSE IF o = "SUPPRESSED" THEN [cand[c.key] EXCEPT !.outcome = o]
                  ELSE IF o = "UPDATED" THEN Row(c, Merged(c), o) ELSE cand[c.key]
           new == IF o = "ACCEPTED" THEN LeadOf(c, "DISCOVERED")
                  ELSE IF o = "UPDATED" /\ lead[c.key] # None
                       THEN LeadOf(Merged(c), lead[c.key].status) ELSE lead[c.key]
<1>1. /\ cand[c.key] \in CandRows \union {None} /\ lead[c.key] \in LeadRows \union {None}
      /\ None \notin LeadRows /\ None \notin CandRows /\ c.key \in Keys
      /\ lead[c.key] # None => cand[c.key] # None
  BY DiscoveryAssumption DEF RowsInv, IsRecord, DiscoveryAssumption
<1>2. cand' = [cand EXCEPT ![c.key] = row] /\ lead' = [lead EXCEPT ![c.key] = new]
  BY DEF Store
<1>3. /\ o \in Outcomes /\ (o = "UPDATED" => cand[c.key] # None)
      /\ (o = "ACCEPTED" => cand[c.key] = None)
  BY DEF Outcome, NewOutcome, Intrinsic, IsRecord
<1> HIDE DEF o
<1>4. Row(c, c, o) \in CandRows
  BY <1>3 DEF Row, CandRows, IsRecord
<1>5. ASSUME cand[c.key] # None
      PROVE  /\ Merged(c).site \in Values /\ Merged(c).email \in Values
             /\ Merged(c).phone \in Values /\ Merged(c).domain \in Values
             /\ Row(c, Merged(c), o) \in CandRows
             /\ [cand[c.key] EXCEPT !.outcome = o] \in CandRows
  <2>1. cand[c.key] \in CandRows
    BY <1>1, <1>5
  <2>2. /\ Merged(c).site \in Values /\ Merged(c).email \in Values
        /\ Merged(c).phone \in Values /\ Merged(c).domain \in Values
    BY <2>1 DEF Merged, IsRecord, CandRows
  <2>3. Row(c, Merged(c), o) \in CandRows
    BY <1>3, <2>2 DEF Row, CandRows, IsRecord
  <2>4. [cand[c.key] EXCEPT !.outcome = o] \in CandRows
    BY <1>3, <2>1 DEF CandRows
  <2> QED BY <2>2, <2>3, <2>4
<1>6. row \in CandRows
  BY <1>1, <1>4, <1>5
<1>7. LeadOf(c, "DISCOVERED") \in LeadRows /\ LeadOf(c, "DISCOVERED").status = "DISCOVERED"
  BY DEF LeadOf, LeadRows, IsRecord
<1>8. ASSUME o = "UPDATED", lead[c.key] # None
      PROVE  /\ LeadOf(Merged(c), lead[c.key].status) \in LeadRows
             /\ LeadOf(Merged(c), lead[c.key].status).status = lead[c.key].status
  <2>1. lead[c.key] \in LeadRows
    BY <1>1, <1>8
  <2> QED BY <1>3, <1>5, <1>8, <2>1 DEF LeadOf, LeadRows
<1>9. /\ new \in LeadRows \union {None}
      /\ lead[c.key] # None => new # None /\ new.status = lead[c.key].status
      /\ lead[c.key] = None /\ new # None => new.status = "DISCOVERED"
  BY <1>1, <1>3, <1>7, <1>8
<1> HIDE DEF row, new
<1>10. RowsInv'
  BY <1>1, <1>2, <1>6, <1>9 DEF RowsInv
<1> QED BY <1>1, <1>2, <1>9, <1>10 DEF RowsInv, LeadsKept, LeadKept, LeadNew

(* Every step but FinalLead.                                               *)
LEMMA LeadsStep ==
  ASSUME RowsInv, Next, ~FinalLead
  PROVE  RowsInv' /\ LeadsKept
<1>1. ASSUME UNCHANGED filed
      PROVE  RowsInv' /\ LeadsKept
  BY <1>1 DEF filed, RowsInv, LeadsKept, LeadKept, LeadNew
<1>2. ASSUME NEW raw \in Imports, Ingest(Normalize(raw))
      PROVE  RowsInv' /\ LeadsKept
  BY <1>1, <1>2, RecordIs, OutcomeIs, StoreRows DEF Ingest
<1>3. ASSUME \E raw \in Raw, fixture \in Fixtures : Fixture(raw, fixture)
      PROVE  RowsInv' /\ LeadsKept
  BY <1>2, <1>3, PipelineAssumption DEF Fixture, PipelineAssumption
<1>4. CASE Elsewhere
  BY SMTT(30), <1>1, <1>2, <1>4 DEF Elsewhere, Import, SuppressDomain, SuppressLead
<1>5. \/ \E raw \in Raw, fixture \in Fixtures : Fixture(raw, fixture)
      \/ Elsewhere
      \/ UNCHANGED filed
  BY DEF Next, Work, Resume, FindRun, Process, Enrich, Enriched, Consolidate, Observe, Link,
    Stored, LeadCreation, Qualify, Judge, FinalRun, FinalMark, Gate, Crawl, ReviewGate,
    ReviewSignal, Requalify, Crash, CrawlRaises
<1> QED BY <1>1, <1>3, <1>4, <1>5

(* FinalLead gives the lead of the run the status of the verdict.          *)
LEMMA FinalLeadIs ==
  ASSUME TypesInv, RowsInv, FinalLead
  PROVE  /\ RowsInv' /\ cur \in Keys
         /\ \A k \in Keys : lead'[k] # None <=> lead[k] # None
         /\ \A k \in Keys \ {cur} : lead'[k] = lead[k]
         /\ lead'[cur] = lead[cur] \/ lead'[cur].status = LeadStatus(verdict.state)
         /\ lead[cur] # None /\ verdict.state = "SUPPRESSED" =>
              lead'[cur].status = "DO_NOT_CONTACT"
<1> DEFINE s == LeadStatus(verdict.state)
           new == [lead[cur] EXCEPT !.status = s]
<1>1. cur \in Keys /\ None \notin LeadRows /\ lead[cur] \in LeadRows \union {None}
  BY DiscoveryAssumption DEF FinalLead, TypesInv, WorkerInv, RowsInv, DiscoveryAssumption
<1>2. UNCHANGED lead \/ (lead[cur] # None /\ s # "unchanged" /\ lead' = [lead EXCEPT ![cur] = new])
  BY <1>1 DEF FinalLead, RowsInv
<1>3. s \in {"QUALIFIED", "REJECTED", "REVIEW_PENDING", "DO_NOT_CONTACT", "unchanged"}
  BY DEF LeadStatus
<1>4. verdict.state = "SUPPRESSED" =>
        s = "DO_NOT_CONTACT" /\ (lead[cur] # None => lead' = [lead EXCEPT ![cur] = new])
  BY <1>1 DEF FinalLead, LeadStatus, RowsInv
<1> HIDE DEF s
<1>5. lead[cur] # None /\ s # "unchanged" => new \in LeadRows /\ new.status = s
  BY <1>1, <1>3 DEF LeadRows
<1> HIDE DEF new
<1>6. UNCHANGED cand
  BY DEF FinalLead
<1>7. RowsInv'
  BY <1>1, <1>2, <1>5, <1>6 DEF RowsInv
<1>8. s = LeadStatus(verdict.state)
  BY DEF s
<1> QED BY <1>1, <1>2, <1>4, <1>5, <1>7, <1>8 DEF RowsInv

LEMMA RowsStep == TypesInv /\ RowsInv /\ [Next]_vars => RowsInv'
BY LeadsStep, FinalLeadIs DEF vars, filed, RowsInv

LEMMA RowsInit == Init => RowsInv
BY DEF Init, DiscoveryInit, RowsInv

-----------------------------------------------------------------------------
(* Verdicts. *)

(* Results are appended to.                                                *)
LEMMA ResultsStay ==
  ASSUME TypesInv, Next, NEW k \in Keys, HasResult(k)
  PROVE  HasResult(k)'
<1>1. CASE Judge
  BY <1>1, JudgeIs DEF HasResult
<1>2. CASE UNCHANGED results
  BY SMTT(30), <1>2 DEF HasResult
<1>3. UNCHANGED results \/ Judge
  BY DEF Next, Work, Fixture, Resume, FindRun, Process, Enrich, Enriched, Consolidate, Observe,
    Link, Stored, LeadCreation, Qualify, FinalRun, FinalLead, FinalMark, Gate, Crawl, ReviewGate,
    ReviewSignal, Requalify, Crash, CrawlRaises, Elsewhere, tables
<1> QED BY <1>1, <1>2, <1>3

(* A verdict that passes is the result that was just stored, or the one    *)
(* that is being applied.                                                  *)
LEMMA VerdictIs ==
  ASSUME TypesInv, Next, pc' \in {"final", "status"}, verdict'.state \in Passing
  PROVE  \/ Judge
         \/ pc \in {"final", "status"} /\ UNCHANGED <<cur, verdict>>
<1>1. ASSUME NEW state \in RunStates \ Passing, NEW mark, NEW open
      PROVE  ~Conclude(state, mark, open)
  BY DEF Conclude
<1>0. {"SUPPRESSED", "REJECTED", "HOLD", "ERROR_TERMINAL", "ERROR_RETRYABLE"}
        \subseteq RunStates \ Passing
  BY DEF RunStates, Passing
<1>2. CASE Process
  <2>1. Route(run[cur].outcome) \in {"SUPPRESSED", "REJECTED", "HOLD", "go"}
    BY DEF Route
  <2>2. \/ \E state \in {"SUPPRESSED", "REJECTED", "HOLD"} :
             \E mark \in {"discovery_ingestion", "none"} : Conclude(state, mark, FALSE)
        \/ pc' = "enrich"
    BY <1>2, <2>1 DEF Process, Goto
  <2> QED BY <1>0, <1>1, <2>2
<1>3. CASE Enrich
  <2>1. pc' \in {"evidence", "gate", "enriched"} \/ Conclude("HOLD", "enrichment", FALSE)
    BY <1>3 DEF Enrich, Goto
  <2> QED BY <1>0, <1>1, <2>1
<1>4. CASE Qualify
  <2>1. Conclude("SUPPRESSED", "qualification", FALSE) \/ pc' \in {"idle", "score"}
    BY <1>4 DEF Qualify, Finish, Goto
  <2> QED BY <1>0, <1>1, <2>1
<1>5. ASSUME NEW safe \in BOOLEAN, Gate(safe)
      PROVE  FALSE
  <2>1. pc' = "crawl" \/ Conclude("ERROR_TERMINAL", "none", FALSE)
    BY <1>5 DEF Gate, Goto
  <2> QED BY <1>0, <1>1, <2>1
<1>6. ASSUME NEW state, NEW found, Crawl(state, found)
      PROVE  FALSE
  <2>1. \/ pc' = "enriched" \/ Conclude("ERROR_RETRYABLE", "none", TRUE)
        \/ Conclude("ERROR_TERMINAL", "none", FALSE)
    BY <1>6 DEF Crawl, Goto
  <2> QED BY <1>0, <1>1, <2>1
<1>7. ASSUME NEW k \in Keys, NEW update \in Updates, Requalify(k, update)
      PROVE  FALSE
  <2>1. pc' = "store" \/ verdict'.state = "SUPPRESSED"
    BY <1>7 DEF Requalify
  <2> QED BY <2>1 DEF Passing
<1>8. ASSUME FinalRun \/ FinalLead
      PROVE  pc \in {"final", "status"} /\ UNCHANGED <<cur, verdict>>
  BY <1>8 DEF FinalRun, FinalLead, Goto, locals
<1>9. ASSUME Elsewhere \/ \E k \in Keys, g \in Gates, d \in TriState : ReviewGate(k, g, d)
      PROVE  pc \in {"final", "status"} /\ UNCHANGED <<cur, verdict>>
  BY SMTT(30), <1>9 DEF Elsewhere, ReviewGate, locals
<1>10. ASSUME \/ \E raw \in Raw, fixture \in Fixtures : Fixture(raw, fixture)
              \/ \E k \in Keys : Resume(k)
              \/ FindRun \/ Enriched \/ Consolidate \/ Observe \/ Link \/ Stored \/ LeadCreation
              \/ FinalMark \/ Crash \/ CrawlRaises
              \/ \E k \in Keys, item \in Reviews : ReviewSignal(k, item)
       PROVE  FALSE
  BY <1>10 DEF Fixture, Resume, FindRun, Enriched, Consolidate, Observe, Link, Stored,
    LeadCreation, FinalMark, Crash, CrawlRaises, ReviewSignal, Carry, Finish, Goto
<1> QED BY <1>2, <1>3, <1>4, <1>5, <1>6, <1>7, <1>8, <1>9, <1>10 DEF Next, Work

LEMMA VerdictNext ==
  ASSUME TypesInv, RowsInv, VerdictInv, Next
  PROVE  VerdictInv'
<1>1. ASSUME pc' \in {"final", "status"}, verdict'.state \in Passing
      PROVE  HasResult(cur)'
  <2>1. CASE Judge
    <3>1. UNCHANGED cur
      BY <2>1 DEF Judge, Conclude
    <3> QED BY <1>1, <2>1, <3>1, JudgeIs DEF HasResult
  <2>2. CASE pc \in {"final", "status"} /\ UNCHANGED <<cur, verdict>>
    <3>1. HasResult(cur) /\ cur \in Keys
      BY <1>1, <2>2 DEF VerdictInv, TypesInv, WorkerInv
    <3>2. HasResult(cur)' /\ cur' = cur
      BY <2>2, <3>1, ResultsStay DEF HasResult
    <3> QED BY <3>2 DEF HasResult
  <2> QED BY <1>1, <2>1, <2>2, VerdictIs
<1>2. ASSUME NEW k \in Keys, lead'[k] # None, lead'[k].status = "QUALIFIED"
      PROVE  HasResult(k)'
  <2>1. ASSUME lead[k] # None, lead[k].status = "QUALIFIED"
        PROVE  HasResult(k)'
    BY <2>1, ResultsStay DEF VerdictInv, QualifiedHasResult, HasResult, Passing
  <2>2. CASE ~FinalLead
    <3>1. LeadKept(k) /\ LeadNew(k)
      BY <2>2, LeadsStep DEF LeadsKept
    <3> QED BY <1>2, <2>1, <3>1 DEF LeadKept, LeadNew
  <2>3. CASE FinalLead
    <3>1. CASE lead'[k] = lead[k]
      BY <1>2, <2>1, <3>1
    <3>2. CASE k = cur /\ lead'[k].status = LeadStatus(verdict.state)
      <4>1. verdict.state \in Passing
        BY <1>2, <3>2 DEF LeadStatus, Passing
      <4>2. pc = "status"
        BY <2>3 DEF FinalLead
      <4>3. HasResult(k)
        BY <3>2, <4>1, <4>2 DEF VerdictInv
      <4> QED BY <4>3, ResultsStay
    <3> QED BY <2>3, <3>1, <3>2, FinalLeadIs
  <2> QED BY <2>2, <2>3
<1> QED BY <1>1, <1>2 DEF VerdictInv, QualifiedHasResult, HasResult, Passing

LEMMA VerdictStep == TypesInv /\ RowsInv /\ VerdictInv /\ [Next]_vars => VerdictInv'
<1>1. ASSUME VerdictInv, UNCHANGED vars
      PROVE  VerdictInv'
  BY <1>1 DEF vars, tables, locals, filed, VerdictInv, QualifiedHasResult, HasResult
<1> QED BY <1>1, VerdictNext

LEMMA VerdictInit == Init => VerdictInv
BY DEF Init, DiscoveryInit, VerdictInv, QualifiedHasResult

-----------------------------------------------------------------------------
(* Evidence rows and the trail. *)

(* Nothing is stored, and nobody waits for a place who did not before.     *)
LEMMA LinkCalm ==
  ASSUME TypesInv, LinkInv, UNCHANGED <<trail, evidence>>,
         \/ UNCHANGED <<pc, cur, crashes>>
         \/ pc # "link" /\ pc' # "link" /\ UNCHANGED crashes
         \/ pc' # "link" /\ crashes' = crashes + 1
  PROVE  LinkInv'
<1>1. ASSUME NEW k \in Keys
      PROVE  PlacedOnce(k)' /\ Alike(k)' /\ OneCurrent(k)'
  BY <1>1 DEF LinkInv, PlacedOnce, Alike, OneCurrent, Currents
<1>2. ASSUME NEW k \in Keys
      PROVE  FewLost(k)'
  <2> DEFINE lost == DOMAIN evidence[k] \ Linked(k)
  <2>1. lost' = lost
    BY DEF Linked
  <2>2. IsFiniteSet(lost) /\ Cardinality(lost) <= crashes + Waiting(k)
    BY DEF LinkInv, FewLost
  <2>3. Cardinality(lost) \in Nat /\ crashes \in Nat /\ crashes' \in Nat
    BY <2>2, FS_CardinalityType DEF TypesInv, BoundsInv
  <2>4. crashes + Waiting(k) <= crashes' + Waiting(k)'
    <3>1. CASE UNCHANGED <<pc, cur, crashes>>
      BY <2>3, <3>1 DEF Waiting
    <3>2. CASE pc # "link" /\ pc' # "link" /\ UNCHANGED crashes
      BY <2>3, <3>2 DEF Waiting
    <3>3. CASE pc' # "link" /\ crashes' = crashes + 1
      BY <2>3, <3>3 DEF Waiting
    <3> QED BY <3>1, <3>2, <3>3
  <2>5. Waiting(k) \in 0..1 /\ Waiting(k)' \in 0..1
    BY DEF Waiting
  <2>6. FewLost(k)' <=> IsFiniteSet(lost') /\ Cardinality(lost') <= crashes' + Waiting(k)'
    BY DEF FewLost
  <2> HIDE DEF lost
  <2>7. Cardinality(lost) <= crashes' + Waiting(k)'
    BY <2>2, <2>3, <2>4, <2>5
  <2> QED BY <2>1, <2>2, <2>6, <2>7
<1>3. ASSUME pc' = "link"
      PROVE  /\ Len(evidence[cur])' \in DOMAIN evidence'[cur'] \ Linked(cur)'
             /\ evidence'[cur'][Len(evidence[cur])'].current
  BY <1>3 DEF LinkInv, Linked
<1> QED BY <1>1, <1>2, <1>3 DEF LinkInv

(* A row that is stored waits for its place.                               *)
LEMMA ObserveLinks ==
  ASSUME TypesInv, LinkInv, Observe, ~Known(cur, Head(todo))
  PROVE  LinkInv'
<1> DEFINE n == Len(evidence[cur])
<1>1. pc = "store" /\ pc' = "link" /\ UNCHANGED <<cur, trail, crashes>> /\ cur \in Keys
  BY ObserveIs DEF Observe, bounds
<1>2. /\ n \in Nat /\ DOMAIN evidence[cur] = 1..n /\ DOMAIN evidence'[cur] = 1..(n + 1)
      /\ Len(evidence'[cur]) = n + 1 /\ evidence'[cur][n + 1].current
      /\ \A i \in DOMAIN evidence[cur] : evidence'[cur][i] = evidence[cur][i]
      /\ \A k \in Keys \ {cur} : evidence'[k] = evidence[k]
  BY ObserveIs
<1> HIDE DEF n
<1>3. ASSUME NEW k \in Keys
      PROVE  /\ DOMAIN evidence[k] \subseteq DOMAIN evidence'[k]
             /\ \A i \in DOMAIN evidence[k] : evidence'[k][i] = evidence[k][i]
  BY <1>2
<1>4. ASSUME NEW k \in Keys
      PROVE  PlacedOnce(k)' /\ Alike(k)' /\ OneCurrent(k)'
  <2>1. PlacedOnce(k) /\ Alike(k) /\ OneCurrent(k)
    BY DEF LinkInv
  <2> QED BY <1>1, <1>3, <2>1 DEF PlacedOnce, Alike, OneCurrent, Currents
<1>5. Linked(cur)' = Linked(cur) /\ Linked(cur) \subseteq 1..n /\ n + 1 \notin Linked(cur)
  <2>1. PlacedOnce(cur)
    BY <1>1 DEF LinkInv
  <2>2. Linked(cur) \subseteq 1..n
    BY <1>2, <2>1 DEF PlacedOnce, Linked
  <2>3. n + 1 \notin 1..n
    BY <1>2
  <2> QED BY <1>1, <2>2, <2>3 DEF Linked
<1>6. ASSUME NEW k \in Keys
      PROVE  FewLost(k)'
  <2> DEFINE lost == DOMAIN evidence[k] \ Linked(k)
  <2>1. IsFiniteSet(lost) /\ Cardinality(lost) <= crashes + Waiting(k) /\ Waiting(k) = 0
    BY <1>1 DEF LinkInv, FewLost, Waiting
  <2>2. crashes \in Nat /\ Cardinality(lost) \in Nat
    BY <2>1, FS_CardinalityType DEF TypesInv, BoundsInv
  <2>3. FewLost(k)' <=> IsFiniteSet(lost') /\ Cardinality(lost') <= crashes' + Waiting(k)'
    BY DEF FewLost
  <2>4. CASE k # cur
    <3>1. lost' = lost /\ Waiting(k)' = 0
      BY <1>1, <1>2, <2>4 DEF Linked, Waiting
    <3> HIDE DEF lost
    <3> QED BY <1>1, <2>1, <2>2, <2>3, <3>1
  <2>5. CASE k = cur
    <3>1. DOMAIN evidence'[k] = DOMAIN evidence[k] \union {n + 1} /\ n + 1 \notin DOMAIN evidence[k]
      BY <1>2, <2>5
    <3>2. lost' = lost \union {n + 1} /\ n + 1 \notin lost /\ Waiting(k)' = 1
      BY <1>1, <1>5, <2>5, <3>1 DEF Waiting
    <3> HIDE DEF lost
    <3>3. IsFiniteSet(lost') /\ Cardinality(lost') = Cardinality(lost) + 1
      BY <2>1, <3>2, FS_AddElement
    <3> QED BY <1>1, <2>1, <2>2, <2>3, <3>2, <3>3
  <2> QED BY <2>4, <2>5
<1>7. /\ Len(evidence[cur])' \in DOMAIN evidence'[cur'] \ Linked(cur)'
      /\ evidence'[cur'][Len(evidence[cur])'].current
  BY <1>1, <1>2, <1>5
<1> QED BY <1>4, <1>6, <1>7 DEF LinkInv

(* The row that waits gets its place: the trail and the rows say alike     *)
(* which is current, and the current one is the strongest.                 *)
LEMMA LinkPlaces ==
  ASSUME TypesInv, LinkInv, pc = "link", NEW item, Linking(item)
  PROVE  /\ Linked(cur)' = Linked(cur) \union {Len(evidence[cur])} \/ cur' # cur
         /\ cur' = cur => PlacedOnce(cur)' /\ Alike(cur)' /\ OneCurrent(cur)'
<1> DEFINE c == cur
           m == Len(trail[cur])
           n == Len(evidence[cur])
<1> SUFFICES ASSUME cur' = cur
             PROVE  /\ Linked(cur)' = Linked(cur) \union {n}
                    /\ PlacedOnce(cur)' /\ Alike(cur)' /\ OneCurrent(cur)'
  OBVIOUS
<1>1. /\ cur \in Keys /\ item \in Items /\ item.str \in Nat /\ item.sig \in Signals
      /\ m \in Nat /\ DOMAIN trail[cur] = 1..m /\ DOMAIN trail'[cur] = 1..(m + 1)
      /\ DOMAIN evidence'[cur] = DOMAIN evidence[cur]
  BY ItemIs DEF Linking
<1>2. /\ PlacedOnce(cur) /\ Alike(cur) /\ OneCurrent(cur)
      /\ n \in DOMAIN evidence[cur] /\ n \notin Linked(cur) /\ evidence[cur][n].current
  BY <1>1 DEF LinkInv
<1>3. /\ trail'[cur][m + 1].sig = item.sig /\ trail'[cur][m + 1].str = item.str
      /\ trail'[cur][m + 1].row = n /\ (trail'[cur][m + 1].current <=> Wins(item))
  <2>1. trail'[cur][m + 1] = Place(item)
    BY DEF Linking
  <2> QED BY <2>1 DEF Place
<1>4. \A i \in DOMAIN trail[cur] :
        /\ trail'[cur][i].sig = trail[cur][i].sig /\ trail'[cur][i].str = trail[cur][i].str
        /\ trail'[cur][i].row = trail[cur][i].row
        /\ trail'[cur][i].current <=>
             trail[cur][i].current /\ ~(Wins(item) /\ i \in Rivals(item.sig))
  BY DEF Linking
<1>5. \A i \in DOMAIN evidence[cur] :
        evidence'[cur][i].current <=> evidence[cur][i].current /\ i \notin Lost(item)
  BY DEF Linking
<1>6. /\ \A i \in DOMAIN trail'[cur] : i \in DOMAIN trail[cur] \/ i = m + 1
      /\ DOMAIN trail[cur] \subseteq DOMAIN trail'[cur] /\ m + 1 \in DOMAIN trail'[cur]
      /\ m + 1 \notin DOMAIN trail[cur]
  BY SMTT(40), <1>1
<1>7. \A i \in DOMAIN trail[cur] : trail[cur][i].row \in DOMAIN evidence[cur] /\ trail[cur][i].row # n
  BY <1>2 DEF PlacedOnce, Linked
<1> HIDE DEF m, n
<1>8. Linked(cur)' = Linked(cur) \union {n}
  BY <1>3, <1>4, <1>6 DEF Linked
<1>9. PlacedOnce(cur)'
  BY <1>1, <1>2, <1>3, <1>4, <1>6, <1>7 DEF PlacedOnce
<1>10. ASSUME NEW i \in DOMAIN trail[cur]
       PROVE  trail[cur][i].row \in Lost(item) <=> Wins(item) /\ i \in Rivals(item.sig)
  <2>1. \A j \in Rivals(item.sig) : j \in DOMAIN trail[cur]
    BY DEF Rivals, Currents
  <2>2. Lost(item) = IF Wins(item) THEN {trail[cur][j].row : j \in Rivals(item.sig)} ELSE {n}
    BY DEF Lost, n
  <2> QED BY <1>2, <1>7, <2>1, <2>2 DEF PlacedOnce
<1>11. n \in Lost(item) <=> ~Wins(item)
  <2>1. \A j \in Rivals(item.sig) : j \in DOMAIN trail[cur]
    BY DEF Rivals, Currents
  <2>2. Lost(item) = IF Wins(item) THEN {trail[cur][j].row : j \in Rivals(item.sig)} ELSE {n}
    BY DEF Lost, n
  <2> QED BY <1>7, <2>1, <2>2
<1>12. Alike(cur)'
  <2>1. ASSUME NEW i \in DOMAIN trail[cur]
        PROVE  trail'[cur][i].current <=> evidence'[cur][trail'[cur][i].row].current
    BY <1>2, <1>4, <1>5, <1>7, <1>10 DEF Alike
  <2>2. trail'[cur][m + 1].current <=> evidence'[cur][trail'[cur][m + 1].row].current
    BY <1>2, <1>3, <1>5, <1>11
  <2> QED BY <1>6, <2>1, <2>2 DEF Alike
<1>13. \A i \in DOMAIN trail[cur] : i \in Rivals(item.sig) <=> i \in Currents(cur) /\ trail[cur][i].sig = item.sig
  BY DEF Rivals
<1>14. \A i \in DOMAIN trail[cur] : trail[cur][i].str \in Nat
  <2>1. trail[cur] \in Seq(TrailRows)
    BY <1>1 DEF TypesInv, TablesInv
  <2>2. \A i \in DOMAIN trail[cur] : trail[cur][i] \in TrailRows
    BY <2>1, LenProperties, ElementOfSeq
  <2> QED BY <2>2 DEF TrailRows
<1>15. /\ \A i \in DOMAIN trail[cur] :
            i \in Currents(cur)' <=> i \in Currents(cur) /\ ~(Wins(item) /\ i \in Rivals(item.sig))
       /\ m + 1 \in Currents(cur)' <=> Wins(item)
       /\ \A i \in Currents(cur)' : i \in DOMAIN trail[cur] \/ i = m + 1
  BY <1>3, <1>4, <1>6 DEF Currents
<1>16. ASSUME Wins(item)
       PROVE  OneCurrent(cur)'
  <2>1. \A j \in Rivals(item.sig) : item.str >= trail[cur][j].str
    BY <1>16 DEF Wins, Supersedes
  <2>2. ASSUME NEW i \in DOMAIN trail[cur], trail[cur][i].sig = item.sig
        PROVE  item.str >= trail[cur][i].str /\ i \notin Currents(cur)'
    <3>1. PICK j \in Currents(cur) : trail[cur][j].sig = item.sig /\ trail[cur][j].str >= trail[cur][i].str
      BY <1>2, <2>2 DEF OneCurrent
    <3>2. j \in DOMAIN trail[cur] /\ item.str >= trail[cur][j].str
      BY <1>13, <2>1, <3>1 DEF Currents
    <3> QED BY <1>1, <1>13, <1>14, <1>15, <1>16, <2>2, <3>1, <3>2
  <2>3. ASSUME NEW i \in DOMAIN trail[cur], trail[cur][i].sig # item.sig
        PROVE  i \in Currents(cur)' <=> i \in Currents(cur)
    BY <1>13, <1>15, <2>3
  <2>4. ASSUME NEW i \in DOMAIN trail'[cur], trail'[cur][i].sig = item.sig
        PROVE  /\ \E j \in Currents(cur)' : trail'[cur][j].sig = trail'[cur][i].sig
               /\ \A j \in Currents(cur)' : trail'[cur][j].sig = trail'[cur][i].sig =>
                    /\ trail'[cur][j].str >= trail'[cur][i].str
                    /\ i \in Currents(cur)' => i = j
    <3>1. m + 1 \in Currents(cur)' /\ trail'[cur][m + 1].sig = item.sig
      BY <1>3, <1>15, <1>16
    <3>2. \A j \in Currents(cur)' : trail'[cur][j].sig = item.sig => j = m + 1
      BY <1>4, <1>15, <2>2
    <3>3. trail'[cur][m + 1].str >= trail'[cur][i].str
      BY <1>1, <1>3, <1>4, <1>6, <2>2, <2>4
    <3> QED BY <2>4, <3>1, <3>2, <3>3
  <2>5. ASSUME NEW i \in DOMAIN trail'[cur], trail'[cur][i].sig # item.sig
        PROVE  /\ \E j \in Currents(cur)' : trail'[cur][j].sig = trail'[cur][i].sig
               /\ \A j \in Currents(cur)' : trail'[cur][j].sig = trail'[cur][i].sig =>
                    /\ trail'[cur][j].str >= trail'[cur][i].str
                    /\ i \in Currents(cur)' => i = j
    <3>1. i \in DOMAIN trail[cur] /\ trail[cur][i].sig # item.sig
      BY <1>3, <1>4, <1>6, <2>5
    <3>2. \A j \in Currents(cur)' : trail'[cur][j].sig = trail'[cur][i].sig =>
            j \in DOMAIN trail[cur] /\ trail[cur][j].sig = trail[cur][i].sig /\ j \in Currents(cur)
      BY <1>3, <1>4, <1>15, <2>3, <2>5, <3>1
    <3>3. \A j \in Currents(cur) : trail[cur][j].sig = trail[cur][i].sig =>
            j \in DOMAIN trail[cur] /\ j \in Currents(cur)' /\ trail'[cur][j].sig = trail'[cur][i].sig
      BY <1>4, <2>3, <3>1 DEF Currents
    <3>4. /\ \E j \in Currents(cur) : trail[cur][j].sig = trail[cur][i].sig
          /\ \A j \in Currents(cur) : trail[cur][j].sig = trail[cur][i].sig =>
               trail[cur][j].str >= trail[cur][i].str /\ (i \in Currents(cur) => i = j)
      BY <1>2, <3>1 DEF OneCurrent
    <3>5. \E j \in Currents(cur)' : trail'[cur][j].sig = trail'[cur][i].sig
      BY <1>4, <3>1, <3>3, <3>4
    <3>6. ASSUME NEW j \in Currents(cur)', trail'[cur][j].sig = trail'[cur][i].sig
          PROVE  /\ trail'[cur][j].str >= trail'[cur][i].str
                 /\ i \in Currents(cur)' => i = j
      <4>1. /\ j \in DOMAIN trail[cur] /\ trail[cur][j].sig = trail[cur][i].sig
            /\ j \in Currents(cur)
        BY <3>2, <3>6
      <4>2. trail'[cur][j].str = trail[cur][j].str /\ trail'[cur][i].str = trail[cur][i].str
        BY <1>4, <3>1, <4>1
      <4> QED BY <2>3, <3>1, <3>4, <4>1, <4>2
    <3> QED BY <3>5, <3>6
  <2> QED BY <2>4, <2>5 DEF OneCurrent
<1>17. ASSUME ~Wins(item)
       PROVE  OneCurrent(cur)'
  <2>1. PICK r \in Rivals(item.sig) : ~(item.str >= trail[cur][r].str)
    BY <1>17 DEF Wins, Supersedes
  <2>2. r \in DOMAIN trail[cur] /\ r \in Currents(cur) /\ trail[cur][r].sig = item.sig
    BY <2>1 DEF Rivals, Currents
  <2>3. trail[cur][r].str >= item.str
    BY <1>1, <1>14, <2>1, <2>2
  <2>4. /\ \A i \in Currents(cur)' : i \in DOMAIN trail[cur] /\ i \in Currents(cur)
        /\ \A i \in Currents(cur) : i \in DOMAIN trail[cur] /\ i \in Currents(cur)'
    BY <1>15, <1>17 DEF Currents
  <2>5. \A i \in DOMAIN trail[cur] :
          trail'[cur][i].sig = trail[cur][i].sig /\ trail'[cur][i].str = trail[cur][i].str
    BY <1>4
  <2>6. ASSUME NEW i \in DOMAIN trail[cur]
        PROVE  /\ \E j \in Currents(cur)' : trail'[cur][j].sig = trail'[cur][i].sig
               /\ \A j \in Currents(cur)' : trail'[cur][j].sig = trail'[cur][i].sig =>
                    /\ trail'[cur][j].str >= trail'[cur][i].str
                    /\ i \in Currents(cur)' => i = j
    BY <1>2, <2>4, <2>5 DEF OneCurrent
  <2>7. /\ \E j \in Currents(cur)' : trail'[cur][j].sig = trail'[cur][m + 1].sig
        /\ \A j \in Currents(cur)' : trail'[cur][j].sig = trail'[cur][m + 1].sig =>
             trail'[cur][j].str >= trail'[cur][m + 1].str
        /\ m + 1 \notin Currents(cur)'
    <3>1. \A j \in Currents(cur) : trail[cur][j].sig = item.sig => j = r
      BY <1>2, <2>2 DEF OneCurrent
    <3>2. /\ r \in Currents(cur)' /\ trail'[cur][r].sig = item.sig
          /\ trail'[cur][r].str >= item.str
      BY <2>2, <2>3, <2>4, <2>5
    <3>3. ASSUME NEW j \in Currents(cur)', trail'[cur][j].sig = item.sig
          PROVE  j = r
      BY <2>4, <2>5, <3>1, <3>3
    <3>4. m + 1 \notin Currents(cur)'
      BY <1>15, <1>17
    <3> QED BY <1>3, <3>2, <3>3, <3>4
  <2> QED BY <1>6, <2>6, <2>7 DEF OneCurrent
<1> QED BY <1>8, <1>9, <1>12, <1>16, <1>17 DEF n

LEMMA LinkLinks ==
  ASSUME TypesInv, LinkInv, Link
  PROVE  LinkInv'
<1> DEFINE item == Head(todo)
           n == Len(evidence[cur])
<1>1. Linking(item)
  BY LinkIs
<1>2. pc = "link" /\ pc' = "store" /\ UNCHANGED <<cur, crashes>>
  BY DEF Link, bounds
<1> HIDE DEF item
<1>3. /\ Linked(cur)' = Linked(cur) \union {n}
      /\ PlacedOnce(cur)' /\ Alike(cur)' /\ OneCurrent(cur)'
  BY <1>1, <1>2, LinkPlaces
<1>4. /\ cur \in Keys /\ DOMAIN evidence'[cur] = DOMAIN evidence[cur]
      /\ \A k \in Keys \ {cur} : trail'[k] = trail[k] /\ evidence'[k] = evidence[k]
  BY <1>1 DEF Linking
<1>5. n \in DOMAIN evidence[cur] \ Linked(cur)
  BY <1>2 DEF LinkInv
<1> HIDE DEF n
<1>6. ASSUME NEW k \in Keys
      PROVE  PlacedOnce(k)' /\ Alike(k)' /\ OneCurrent(k)'
  <2>1. CASE k = cur
    BY <1>2, <1>3, <2>1 DEF PlacedOnce, Alike, OneCurrent, Currents
  <2>2. CASE k # cur
    <3>1. trail'[k] = trail[k] /\ evidence'[k] = evidence[k]
      BY <1>4, <2>2
    <3>2. PlacedOnce(k) /\ Alike(k) /\ OneCurrent(k)
      BY DEF LinkInv
    <3> QED BY <3>1, <3>2 DEF PlacedOnce, Alike, OneCurrent, Currents
  <2> QED BY <2>1, <2>2
<1>7. ASSUME NEW k \in Keys
      PROVE  FewLost(k)'
  <2> DEFINE lost == DOMAIN evidence[k] \ Linked(k)
  <2>1. IsFiniteSet(lost) /\ Cardinality(lost) <= crashes + Waiting(k)
    BY DEF LinkInv, FewLost
  <2>2. crashes \in Nat /\ Cardinality(lost) \in Nat
    BY <2>1, FS_CardinalityType DEF TypesInv, BoundsInv
  <2>3. FewLost(k)' <=> IsFiniteSet(lost') /\ Cardinality(lost') <= crashes' + Waiting(k)'
    BY DEF FewLost
  <2>4. Waiting(k)' = 0
    BY <1>2 DEF Waiting
  <2>5. CASE k # cur
    <3>1. lost' = lost /\ Waiting(k) = 0
      BY <1>4, <2>5 DEF Linked, Waiting
    <3> HIDE DEF lost
    <3> QED BY <1>2, <2>1, <2>2, <2>3, <2>4, <3>1
  <2>6. CASE k = cur
    <3>1. Linked(k)' = Linked(k) \union {n}
      BY <1>2, <1>3, <2>6 DEF Linked
    <3>2. lost' = lost \ {n} /\ n \in lost /\ Waiting(k) = 1
      BY <1>2, <1>4, <1>5, <2>6, <3>1 DEF Waiting
    <3> HIDE DEF lost
    <3>3. IsFiniteSet(lost') /\ Cardinality(lost') = Cardinality(lost) - 1
      BY <2>1, <3>2, FS_RemoveElement
    <3> QED BY <1>2, <2>1, <2>2, <2>3, <2>4, <3>2, <3>3
  <2> QED BY <2>5, <2>6
<1> QED BY <1>2, <1>6, <1>7 DEF LinkInv

LEMMA LinkNext ==
  ASSUME TypesInv, LinkInv, Next
  PROVE  LinkInv'
<1>1. CASE Observe
  <2>1. CASE Known(cur, Head(todo))
    BY <1>1, <2>1, LinkCalm DEF Observe, bounds
  <2>2. CASE ~Known(cur, Head(todo))
    BY <1>1, <2>2, ObserveLinks
  <2> QED BY <2>1, <2>2
<1>2. CASE Link
  BY <1>2, LinkLinks
<1>3. CASE Crash
  BY <1>3, LinkCalm DEF Crash, Finish, tables
<1>4. CASE Elsewhere
  BY <1>4, LinkCalm DEF Elsewhere, tables, locals, bounds
<1>5. ASSUME UNCHANGED <<trail, evidence, crashes>>, pc # "link", pc' # "link"
      PROVE  LinkInv'
  BY <1>5, LinkCalm
<1>6. CASE Stored
  BY <1>5, <1>6 DEF Stored, Finish, bounds
<1>7. ASSUME \/ \E raw \in Raw, fixture \in Fixtures : Fixture(raw, fixture)
             \/ \E k \in Keys : Resume(k)
             \/ FindRun
             \/ \E k \in Keys, g \in Gates, d \in TriState : ReviewGate(k, g, d)
             \/ \E k \in Keys, item \in Reviews : ReviewSignal(k, item)
             \/ \E k \in Keys, update \in Updates : Requalify(k, update)
      PROVE  LinkInv'
  BY <1>5, <1>7 DEF Fixture, Resume, FindRun, ReviewGate, ReviewSignal, Requalify, Reviewable,
    Carry, Finish, tables, locals, bounds
<1>8. ASSUME \/ Process \/ Enrich \/ Enriched \/ Consolidate \/ LeadCreation \/ Qualify \/ Judge
             \/ FinalRun \/ FinalLead \/ FinalMark
             \/ \E safe \in BOOLEAN : Gate(safe)
             \/ \E state, found : Crawl(state, found)
             \/ CrawlRaises
      PROVE  LinkInv'
  <2>1. UNCHANGED <<trail, evidence, crashes>> /\ pc # "link"
    BY <1>8 DEF Process, Enrich, Enriched, Consolidate, LeadCreation, Qualify, Judge, FinalRun,
      FinalLead, FinalMark, Gate, Crawl, CrawlRaises, tables, bounds
  <2>2. pc' # "link"
    BY <1>8 DEF Process, Enrich, Enriched, Consolidate, LeadCreation, Qualify, Judge, FinalRun,
      FinalLead, FinalMark, Gate, Crawl, CrawlRaises, Goto, Conclude, Finish
  <2> QED BY <1>5, <2>1, <2>2
<1> QED BY <1>1, <1>2, <1>3, <1>4, <1>6, <1>7, <1>8 DEF Next, Work

LEMMA LinkStep == TypesInv /\ LinkInv /\ [Next]_vars => LinkInv'
<1>1. ASSUME TypesInv, LinkInv, UNCHANGED vars
      PROVE  LinkInv'
  BY <1>1, LinkCalm DEF vars, tables, locals, bounds
<1> QED BY <1>1, LinkNext

LEMMA LinkInit == Init => LinkInv
<1> SUFFICES ASSUME Init
             PROVE  LinkInv
  OBVIOUS
<1>1. ASSUME NEW k \in Keys
      PROVE  /\ DOMAIN trail[k] = {} /\ DOMAIN evidence[k] \ Linked(k) = {}
             /\ Waiting(k) = 0 /\ crashes = 0
  BY DEF Init, Waiting
<1>2. ASSUME NEW k \in Keys
      PROVE  PlacedOnce(k) /\ Alike(k) /\ OneCurrent(k) /\ FewLost(k)
  BY <1>1, FS_EmptySet DEF PlacedOnce, Alike, OneCurrent, FewLost
<1> QED BY <1>2 DEF Init, LinkInv

-----------------------------------------------------------------------------
(* DO_NOT_CONTACT. *)

(* Who finds the lead suppressed has no other verdict.                     *)
LEMMA StandingNext ==
  ASSUME TypesInv, RowsInv, Next, NEW k \in Keys, Standing(k)
  PROVE  Standing(k)'
<1>1. k \in blocked'
  BY DEF Standing, Next, Work, Fixture, Resume, FindRun, Process, Enrich, Enriched, Consolidate,
    Observe, Link, Stored, LeadCreation, Qualify, Judge, FinalRun, FinalLead, FinalMark, Gate,
    Crawl, ReviewGate, ReviewSignal, Requalify, Crash, CrawlRaises, Elsewhere, Import,
    SuppressDomain, SuppressLead
<1>2. DoNotContact(k)'
  <2>1. CASE FinalLead
    <3>1. CASE k = cur
      <4>1. verdict.state = "SUPPRESSED" /\ lead[k] # None
        BY <2>1, <3>1 DEF Standing, DoNotContact, FinalLead
      <4> QED BY <2>1, <3>1, <4>1, FinalLeadIs DEF DoNotContact
    <3>2. CASE k # cur
      BY <2>1, <3>2, FinalLeadIs DEF Standing, DoNotContact
    <3> QED BY <3>1, <3>2
  <2>2. CASE ~FinalLead
    BY <2>2, LeadsStep DEF LeadsKept, LeadKept, Standing, DoNotContact
  <2> QED BY <2>1, <2>2
<1>3. RunSuppressed(k)
  BY DEF RunSuppressed, Standing
<1>4. ASSUME cur' = k
      PROVE  \/ pc' \in {"ingested", "process"}
             \/ pc' \in {"final", "status", "mark"} /\ verdict'.state = "SUPPRESSED"
  <2>1. None \notin Keys
    BY DiscoveryAssumption DEF DiscoveryAssumption
  <2>2. ASSUME cur = k
        PROVE  \/ pc \in {"ingested", "process"}
               \/ pc \in {"final", "status", "mark"} /\ verdict.state = "SUPPRESSED"
    BY <2>2 DEF Standing
  <2>3. CASE Process
    <3>1. cur = k
      BY <1>4, <2>3 DEF Process, Conclude, Goto, locals
    <3> QED BY <1>3, <2>3, <3>1 DEF Process, Conclude
  <2>4. CASE FindRun \/ FinalRun \/ FinalLead \/ FinalMark
    BY <1>4, <2>1, <2>2, <2>4 DEF FindRun, FinalRun, FinalLead, FinalMark, Carry, Finish, Goto, locals
  <2>5. ASSUME \/ \E raw \in Raw, fixture \in Fixtures : Fixture(raw, fixture)
               \/ \E j \in Keys : Resume(j)
               \/ Crash \/ Elsewhere
        PROVE  \/ pc' \in {"ingested", "process"}
               \/ pc' \in {"final", "status", "mark"} /\ verdict'.state = "SUPPRESSED"
    BY <1>4, <2>1, <2>2, <2>5 DEF Fixture, Resume, Crash, Elsewhere, Carry, Finish, locals
  <2>6. ASSUME NEW j \in Keys, NEW g \in Gates, NEW d \in TriState, ReviewGate(j, g, d)
        PROVE  FALSE
    BY <1>4, <2>1, <2>6 DEF ReviewGate, Reviewable, locals, TypesInv, WorkerInv
  <2>7. ASSUME NEW j \in Keys, NEW item \in Reviews, ReviewSignal(j, item)
        PROVE  FALSE
    BY <1>3, <1>4, <2>7 DEF ReviewSignal
  <2>8. ASSUME NEW j \in Keys, NEW update \in Updates, Requalify(j, update)
        PROVE  pc' = "final" /\ verdict'.state = "SUPPRESSED"
    BY <1>3, <1>4, <2>8 DEF Requalify
  <2>9. ASSUME \/ Enrich \/ Enriched \/ Consolidate \/ Observe \/ Link \/ Stored \/ LeadCreation
               \/ Qualify \/ Judge
               \/ \E safe \in BOOLEAN : Gate(safe)
               \/ \E state, found : Crawl(state, found)
               \/ CrawlRaises
        PROVE  FALSE
    <3>1. pc \notin {"idle", "ingested", "process", "final", "status", "mark"}
      BY <2>9 DEF Enrich, Enriched, Consolidate, Observe, Link, Stored, LeadCreation, Qualify,
        Judge, Gate, Crawl, CrawlRaises
    <3>2. cur' = cur \/ cur' = None
      BY <2>9 DEF Enrich, Enriched, Consolidate, Observe, Link, Stored, LeadCreation, Qualify,
        Judge, Gate, Crawl, CrawlRaises, Goto, Conclude, Finish, locals
    <3> QED BY SMTT(30), <1>4, <2>1, <2>2, <3>1, <3>2
  <2> QED BY <2>3, <2>4, <2>5, <2>6, <2>7, <2>8, <2>9 DEF Next, Work
<1> QED BY SMTT(30), <1>1, <1>2, <1>4 DEF Standing

LEMMA StandingStep ==
  ASSUME NEW k \in Keys
  PROVE  TypesInv /\ RowsInv /\ Standing(k) /\ [Next]_vars => Standing(k)'
<1>1. ASSUME Standing(k), UNCHANGED vars
      PROVE  Standing(k)'
  BY <1>1 DEF vars, filed, locals, Standing, DoNotContact
<1> QED BY <1>1, StandingNext

-----------------------------------------------------------------------------
(* What every state and every step satisfies. *)

LEMMA TypesHold == Spec => []TypesInv
BY TypesInit, TypesStep, PTL DEF Spec

LEMMA RowsHold == Spec => []RowsInv
<1>1. TypesInv /\ RowsInv /\ [Next]_vars => RowsInv'
  BY RowsStep
<1> QED BY <1>1, RowsInit, TypesHold, PTL DEF Spec

LEMMA LinkHolds == Spec => []LinkInv
BY LinkInit, LinkStep, TypesHold, PTL DEF Spec

(* The evidence stored for a lead can be relied on: tables and worker have *)
(* their types, of each signal exactly one row of the trail is current and *)
(* none is stronger, and what qualification reads agrees with the trail but*)
(* for one row for each death (_store_pipeline_evidence,                   *)
(* insert_structured_evidence).                                            *)
THEOREM EvidenceSoundHolds == Spec => []EvidenceSound
<1>1. TypesInv /\ LinkInv => EvidenceSound
  <2> SUFFICES ASSUME TypesInv, LinkInv
               PROVE  EvidenceSound
    OBVIOUS
  <2>1. TypeOK
    <3>1. ASSUME NEW k \in Keys
          PROVE  /\ \A i \in DOMAIN trail[k] :
                      trail[k][i] \in TrailRows /\ trail[k][i].row \in DOMAIN evidence[k]
                 /\ \A i \in DOMAIN evidence[k] : evidence[k][i] \in EvidenceRows
                 /\ \A i \in DOMAIN results[k] : results[k][i] \in ResultRows
      <4>1. /\ trail[k] \in Seq(TrailRows) /\ evidence[k] \in Seq(EvidenceRows)
            /\ results[k] \in Seq(ResultRows) /\ PlacedOnce(k)
        BY DEF TypesInv, TablesInv, LinkInv
      <4> QED BY <4>1, LenProperties, ElementOfSeq DEF PlacedOnce
    <3> QED BY <3>1 DEF TypeOK, TypesInv, TablesInv, BoundsInv, WorkerInv, TrailRows,
              EvidenceRows, ResultRows
  <2>2. CurrentIsStrongest
    <3> SUFFICES ASSUME NEW k \in Keys, NEW i \in DOMAIN trail[k]
                 PROVE  LET rivals == {j \in Currents(k) : trail[k][j].sig = trail[k][i].sig} IN
                        /\ Cardinality(rivals) = 1
                        /\ \A j \in rivals : trail[k][j].str >= trail[k][i].str
      BY DEF CurrentIsStrongest
    <3> DEFINE rivals == {j \in Currents(k) : trail[k][j].sig = trail[k][i].sig}
    <3>1. OneCurrent(k)
      BY DEF LinkInv
    <3>2. PICK j \in Currents(k) : trail[k][j].sig = trail[k][i].sig
      BY <3>1 DEF OneCurrent
    <3>3. j \in DOMAIN trail[k]
      BY <3>2 DEF Currents
    <3>4. rivals = {j}
      BY <3>1, <3>2, <3>3 DEF OneCurrent
    <3>5. Cardinality(rivals) = 1
      BY <3>4, FS_Singleton
    <3>6. \A n \in rivals : trail[k][n].str >= trail[k][i].str
      BY <3>1 DEF OneCurrent
    <3> QED BY <3>5, <3>6
  <2>3. EvidenceLinked
    <3> SUFFICES ASSUME NEW k \in Keys
                 PROVE  /\ \A i \in Currents(k) : evidence[k][trail[k][i].row].current
                        /\ \A i \in Linked(k) : evidence[k][i].current =>
                             \E j \in Currents(k) : trail[k][j].row = i
                        /\ Cardinality(DOMAIN evidence[k] \ Linked(k))
                             <= crashes + (IF pc = "link" THEN 1 ELSE 0)
      BY DEF EvidenceLinked, Linked
    <3>1. Alike(k) /\ FewLost(k)
      BY DEF LinkInv
    <3>2. \A i \in Currents(k) : evidence[k][trail[k][i].row].current
      BY <3>1 DEF Alike, Currents
    <3>3. \A i \in Linked(k) : evidence[k][i].current => \E j \in Currents(k) : trail[k][j].row = i
      BY <3>1 DEF Alike, Currents, Linked
    <3> DEFINE lost == Cardinality(DOMAIN evidence[k] \ Linked(k))
    <3>4. lost \in Nat /\ crashes \in Nat /\ lost <= crashes + Waiting(k)
      BY <3>1, FS_CardinalityType DEF FewLost, TypesInv, BoundsInv
    <3> HIDE DEF lost
    <3>5. lost <= crashes + (IF pc = "link" THEN 1 ELSE 0)
      BY <3>4 DEF Waiting
    <3> QED BY <3>2, <3>3, <3>5 DEF lost
  <2> QED BY <2>1, <2>2, <2>3 DEF EvidenceSound
<1> QED BY <1>1, TypesHold, LinkHolds, PTL

(* A lead is QUALIFIED only with a stored result that says so, whatever    *)
(* the order of commits, deaths, reviews and imports (_finalize after      *)
(* save_pipeline_qualification_result).                                    *)
THEOREM QualifiedHasResultHolds == Spec => []QualifiedHasResult
<1>1. VerdictInv => QualifiedHasResult
  BY DEF VerdictInv
<1>2. Spec => []VerdictInv
  BY VerdictInit, VerdictStep, TypesHold, RowsHold, PTL DEF Spec
<1> QED BY <1>1, <1>2, PTL

(* The website is tried no more often than the run's attempts, the deaths  *)
(* and the requalifications allow (_enrich_run, pipeline_runs.max_attempts).*)
THEOREM RetriesBoundedHolds == Spec => []RetriesBounded
<1>1. AttemptsInv => RetriesBounded
  BY DEF AttemptsInv, RetriesBounded, Budget
<1>2. Spec => []AttemptsInv
  BY AttemptsInit, AttemptsStep, TypesHold, PTL DEF Spec
<1> QED BY <1>1, <1>2, PTL

(* A suppressed lead that is DO_NOT_CONTACT while no call is in progress   *)
(* is so for ever: no import, review, requalification, resume or death     *)
(* takes it back (_run_is_suppressed, ingest_candidate).                   *)
THEOREM DoNotContactStandsHolds == Spec => DoNotContactStands
<1>1. ASSUME NEW k \in Keys
      PROVE  Spec => [](DoNotContact(k) /\ k \in blocked /\ pc = "idle" => []DoNotContact(k))
  <2>1. TypesInv /\ RowsInv /\ Standing(k) /\ [Next]_vars => Standing(k)'
    BY StandingStep
  <2>2. TypesInv /\ DoNotContact(k) /\ k \in blocked /\ pc = "idle" => Standing(k)
    BY DiscoveryAssumption DEF DiscoveryAssumption, TypesInv, WorkerInv, Standing
  <2>3. Standing(k) => DoNotContact(k)
    BY DEF Standing
  <2> QED BY <2>1, <2>2, <2>3, TypesHold, RowsHold, PTL DEF Spec
<1> QED BY <1>1 DEF DoNotContactStands

-----------------------------------------------------------------------------
(* The live sources.  First the types of their state.                      *)
SearchPcs == {"query", "page", "ingest", "finish"}
SourcePcs == {"idle", "open", "start", "record", "write", "fetch"} \union SearchPcs
SearchStates == {"RUNNING", "COMPLETED", "SOURCE_ERROR"}
RequestRows == [run : Nat, query : Nat, ok : BOOLEAN, number : Nat]
SourceJobs ==
  [left : 0..RequestCap, total : Nat, query : Nat, page : Nat, attempts : 0..MaxRetries,
   spent : Nat, found : Seq(Imports), failed : BOOLEAN, at : Nat, id : Nat,
   got : ActorStates \union {"none"}, items : Nat]

SourceTypes ==
  /\ log \subseteq RequestRows /\ IsFiniteSet(log)
  /\ druns \in Seq(SearchStates)
  /\ remote \in Seq(ActorStates) /\ rowOf \in Seq(ActorRows \union {None})
  /\ Len(remote) = Len(rowOf) /\ unheard \in 0..Len(remote)
  /\ live \in BOOLEAN /\ clock \in 0..MaxClock /\ deaths \in 0..MaxDeaths
  /\ serves \in [Procs -> {"google", "apify"}]
  /\ where \in [Procs -> SourcePcs] /\ job \in [Procs -> SourceJobs]

(* A query of a search brought a page, and its records are on file.        *)
Asked(r, q) == \E a \in log : a.run = r /\ a.query = q /\ a.ok
AllFiled(records) == \A raw \in ToSet(records) : cand[raw.key] # None
Underway(records, found) ==
  \A raw \in ToSet(records) : cand[raw.key] # None \/ raw \in ToSet(found)
WholePlan(r, n) == \A q \in DOMAIN Plan : q < n => Asked(r, q) /\ AllFiled(Places[q])

(* What a search relies on: unless it has failed, all queries before the   *)
(* one at hand are done.                                                   *)
SearchSound(w, j) ==
  w \in SearchPcs =>
    /\ j.id \in DOMAIN druns /\ j.query \in 1..(Len(Plan) + 1)
    /\ w \in {"page", "ingest"} => j.query \in DOMAIN Plan
    /\ w = "page" => j.page \in 1..Plan[j.query]
    /\ ~j.failed => WholePlan(j.id, j.query)
    /\ w = "ingest" => Asked(j.id, j.query) /\ Underway(Places[j.query], j.found)
    /\ w = "finish" /\ ~j.failed => j.query = Len(Plan) + 1

(* What a row or an answer says of an actor run: its state, or the one it  *)
(* had.                                                                    *)
Behind(state, i) == state = remote[i] \/ state = "RUNNING"
ActorSound(w, j) ==
  /\ w \in {"record", "write"} => j.id \in DOMAIN rowOf /\ Behind(j.got, j.id)
  /\ w = "record" => rowOf[j.id] = None
  /\ w \in {"write", "fetch"} => j.id \in Recorded
  /\ w = "fetch" => remote[j.id] = "SUCCEEDED"
  /\ w = "fetch" /\ j.items # 0 => Underway(Data, j.found)

LogSound == \A a \in log : a.run \in DOMAIN druns /\ a.query \in DOMAIN Plan
ActorRowsSound == \A i \in Recorded : Behind(rowOf[i].state, i)
CallsSound ==
  \A p \in Procs :
    /\ SearchSound(where[p], job[p]) /\ ActorSound(where[p], job[p])
    /\ where[p] \in SearchPcs \union {"open"} => serves[p] = "google"
    /\ where[p] \in {"start", "record", "write", "fetch"} => serves[p] = "apify"
    /\ where[p] \in {"idle", "open", "start"} => job[p].id = 0
    /\ where[p] = "open" => job[p].query = 1
OwnRuns ==
  \A p, q \in Procs :
    where[p] = "record" /\ where[q] = "record" /\ p # q => job[p].id # job[q].id
FetchedInv ==
  \A i \in Recorded :
    rowOf[i].fetched =>
      /\ remote[i] = "SUCCEEDED"
      /\ rowOf[i].items # 0 => AllFiled(Data)

(* The pages of the plan a search may still ask for.                       *)
Ahead(w, j, x) ==
  \/ w = "open"
  \/ w = "query" /\ x[1] >= j.query
  \/ w = "page" /\ (x[1] > j.query \/ (x[1] = j.query /\ x[2] >= j.page))
  \/ w = "ingest" /\ x[1] > j.query
Owed == {y \in Serving("google") \X Planned : Ahead(where[y[1]], job[y[1]], y[2])}
Succeeded == {r \in log : r.ok}
CapInv == Cardinality(Succeeded) + Cardinality(Owed) <= Cardinality(Serving("google")) * RequestCap

(* Actor runs that passed the gate, and those that have no row yet.        *)
Starting == {p \in Procs : where[p] \in {"start", "record"}}
Recording == {p \in Procs : where[p] = "record"}
Unrecorded == DOMAIN rowOf \ Recorded
LiveRuns == {i \in Recorded : remote[i] = "RUNNING"}
RunsInv ==
  /\ Cardinality(Unrecorded) <= unheard + deaths + Cardinality(Recording)
  /\ Serving("apify") # {} =>
       /\ Cardinality(Recorded) + Cardinality(Starting) < RunCap + Cardinality(Serving("apify"))
       /\ Cardinality(LiveRuns) + Cardinality(Starting)
            < MaxConcurrent + Cardinality(Serving("apify"))

SourcesInv ==
  /\ SourceTypes /\ RowsInv /\ LogSound /\ ActorRowsSound /\ CallsSound /\ OwnRuns /\ FetchedInv
  /\ CompletedMeansWholePlan /\ CapInv /\ RunsInv

-----------------------------------------------------------------------------
(* Ingestion. *)

(* Rows of candidates stay.                                                *)
CandKept == \A k \in Keys : cand[k] # None => cand'[k] # None

(* A record of an import, collected at another time.                       *)
LEMMA CollectedIs ==
  ASSUME NEW raw \in Imports, NEW t \in Nat
  PROVE  LET c == Normalize([raw EXCEPT !.at = t])
         IN IsRecord(c) /\ c.key = raw.key
<1> DEFINE r == [raw EXCEPT !.at = t]
<1>1. /\ DOMAIN raw = {"key", "named", "site", "email", "phone", "closed", "at"}
      /\ raw.key \in Keys
  BY DiscoveryAssumption DEF DiscoveryAssumption
<1>2. /\ r.key = raw.key /\ r.site = raw.site /\ r.email = raw.email /\ r.phone = raw.phone
      /\ r.at = t
  BY <1>1
<1>3. r.site \in Values /\ r.email \in Values /\ r.phone \in Values /\ None \in Values
  BY <1>2 DEF Values
<1> HIDE DEF r
<1>4. Clean(r.site) \in Values /\ Clean(r.email) \in Values
  BY <1>3 DEF Clean
<1>5. Normalize(r).fault \in {"INACTIVE_BUSINESS", "INVALID", "none"}
  BY DEF Normalize
<1>6. IsRecord(Normalize(r)) /\ Normalize(r).key = raw.key
  BY <1>1, <1>2, <1>3, <1>4, <1>5 DEF Normalize, IsRecord
<1> QED BY <1>6 DEF r

(* An ingestion takes no row away; one that does not collide leaves a row. *)
LEMMA IngestFiles ==
  ASSUME RowsInv, NEW raw \in Imports, NEW t \in Nat,
         Ingest(Normalize([raw EXCEPT !.at = t]))
  PROVE  /\ RowsInv' /\ CandKept
         /\ ~Collides(Normalize([raw EXCEPT !.at = t])) => cand'[raw.key] # None
<1> DEFINE r == [raw EXCEPT !.at = t]
           c == Normalize(r)
<1>1. IsRecord(c) /\ c.key = raw.key /\ Outcome(c) \in Outcomes
  BY CollectedIs, OutcomeIs
<1>2. CASE Collides(c)
  BY <1>2 DEF Ingest, filed, RowsInv, CandKept
<1>3. CASE ~Collides(c)
  <2>1. Store(c) /\ c.key \in Keys
    BY <1>1, <1>3 DEF Ingest, IsRecord
  <2> HIDE DEF c
  <2>2. RowsInv'
    BY <1>1, <2>1, StoreRows
  <2>3. \A k \in Keys : k # c.key => cand'[k] = cand[k]
    BY <2>1 DEF Store, RowsInv
  <2>4. cand'[c.key] # None
    <3> DEFINE o == Outcome(c)
    <3>1. cand'[c.key] =
            IF cand[c.key] = None THEN Row(c, c, o)
            ELSE IF o = "SUPPRESSED" THEN [cand[c.key] EXCEPT !.outcome = o]
            ELSE IF o = "UPDATED" THEN Row(c, Merged(c), o) ELSE cand[c.key]
      BY <2>1 DEF Store, RowsInv
    <3>2. None \notin CandRows
      BY DiscoveryAssumption DEF DiscoveryAssumption
    <3>3. Row(c, c, o) \in CandRows
      BY <1>1 DEF Row, CandRows, IsRecord
    <3>4. ASSUME cand[c.key] # None
          PROVE  [cand[c.key] EXCEPT !.outcome = o] \in CandRows
                 /\ Row(c, Merged(c), o) \in CandRows
      <4>1. cand[c.key] \in CandRows
        BY <2>1, <3>4 DEF RowsInv
      <4>2. /\ Merged(c).site \in Values /\ Merged(c).email \in Values
            /\ Merged(c).phone \in Values /\ Merged(c).domain \in Values
        BY <1>1, <4>1 DEF Merged, IsRecord, CandRows
      <4>3. Row(c, Merged(c), o) \in CandRows
        BY <1>1, <4>2 DEF Row, CandRows, IsRecord
      <4>4. [cand[c.key] EXCEPT !.outcome = o] \in CandRows
        BY <1>1, <4>1 DEF CandRows
      <4> QED BY <4>3, <4>4
    <3> QED BY <3>1, <3>2, <3>3, <3>4
  <2> QED BY <1>1, <2>2, <2>3, <2>4 DEF CandKept, c
<1> QED BY <1>2, <1>3

-----------------------------------------------------------------------------
(* Steps of a process. *)

(* A process moves, the others stay where they are.                        *)
LEMMA MoveIs ==
  ASSUME SourceTypes, NEW p \in Procs, NEW label \in SourcePcs, NEW j \in SourceJobs,
         Move(p, label, j)
  PROVE  /\ where' \in [Procs -> SourcePcs] /\ job' \in [Procs -> SourceJobs]
         /\ where'[p] = label /\ job'[p] = j
         /\ \A q \in Procs : q # p => where'[q] = where[q] /\ job'[q] = job[q]
BY DEF SourceTypes, Move

LEMMA NoSourceJob ==
  NoJob \in SourceJobs
<1>1. RequestCap \in Nat /\ MaxRetries \in Nat /\ << >> \in Seq(Imports)
  BY LiveSourcesAssumption, EmptySeq DEF LiveSourcesAssumption
<1> QED BY <1>1 DEF NoJob, SourceJobs

(* The records found after the first is ingested.                          *)
LEMMA TailFound ==
  ASSUME NEW found \in Seq(Imports), found # << >>
  PROVE  /\ Head(found) \in Imports /\ Tail(found) \in Seq(Imports)
         /\ \A raw \in ToSet(found) : raw = Head(found) \/ raw \in ToSet(Tail(found))
<1> DEFINE n == Len(found)
           rest == Tail(found)
<1>1. /\ Head(found) \in Imports /\ rest \in Seq(Imports) /\ n \in Nat /\ n # 0
      /\ DOMAIN found = 1..n /\ Len(rest) = n - 1 /\ DOMAIN rest = 1..(n - 1)
      /\ Head(found) = found[1] /\ \A i \in 1..(n - 1) : rest[i] = found[i + 1]
  BY HeadTailProperties, LenProperties, EmptySeq
<1> HIDE DEF n, rest
<1>2. ASSUME NEW i \in DOMAIN found
      PROVE  found[i] = Head(found) \/ \E k \in DOMAIN rest : rest[k] = found[i]
  <2>1. CASE i = 1
    BY <1>1, <2>1
  <2>2. CASE i # 1
    <3>1. i - 1 \in 1..(n - 1) /\ (i - 1) + 1 = i
      BY <1>1, <1>2, <2>2
    <3>2. rest[i - 1] = found[i]
      BY <1>1, <3>1
    <3> QED BY <1>1, <3>1, <3>2
  <2> QED BY <2>1, <2>2
<1> QED BY <1>1, <1>2 DEF ToSet, rest

(* Ingesting the next record: the batch stops, or goes on with the rest,   *)
(* and the record is on file.                                              *)
LEMMA IngestNextIs ==
  ASSUME SourceTypes, RowsInv, NEW p \in Procs, IngestNext(p)
  PROVE  /\ RowsInv' /\ CandKept /\ job[p].found # << >>
         /\ \/ Stop(p)
            \/ \E k \in SourceJobs :
                 /\ Move(p, where[p], k)
                 /\ k.id = job[p].id /\ k.query = job[p].query /\ k.failed = job[p].failed
                 /\ k.page = job[p].page /\ k.items = job[p].items
                 /\ \A raw \in ToSet(job[p].found) :
                      raw.key \in Keys /\ (cand'[raw.key] # None \/ raw \in ToSet(k.found))
<1> DEFINE found == job[p].found
           raw0 == Head(found)
           t == job[p].at
           rest == Tail(found)
           k == [job[p] EXCEPT !.found = rest]
           c == Normalize([raw0 EXCEPT !.at = t])
<1>1. job[p] \in SourceJobs /\ found \in Seq(Imports) /\ t \in Nat /\ found # << >>
  BY DEF SourceTypes, SourceJobs, IngestNext
<1>2. /\ Ingest(c)
      /\ IF Collides(c) THEN Stop(p) ELSE Move(p, where[p], k)
  BY DEF IngestNext
<1>3. /\ raw0 \in Imports /\ rest \in Seq(Imports)
      /\ \A raw \in ToSet(found) : raw = raw0 \/ raw \in ToSet(rest)
  BY <1>1, TailFound
<1> HIDE DEF raw0, rest, t
<1>4. RowsInv' /\ CandKept /\ (~Collides(c) => cand'[raw0.key] # None)
  BY <1>1, <1>2, <1>3, IngestFiles
<1>5. /\ k \in SourceJobs /\ k.found = rest /\ k.id = job[p].id /\ k.query = job[p].query
      /\ k.failed = job[p].failed /\ k.page = job[p].page /\ k.items = job[p].items
  BY <1>1, <1>3 DEF SourceJobs
<1>6. \A raw \in ToSet(found) : raw.key \in Keys
  <2>1. DOMAIN found = 1..Len(found) /\ \A i \in 1..Len(found) : found[i] \in Imports
    BY <1>1, LenProperties, ElementOfSeq
  <2> QED BY <2>1, DiscoveryAssumption DEF DiscoveryAssumption, ToSet
<1> HIDE DEF k, c, found
<1> QED BY <1>1, <1>2, <1>3, <1>4, <1>5, <1>6 DEF found

(* The constants. *)
LEMMA SourceConstants ==
  /\ DOMAIN Plan = 1..Len(Plan) /\ Len(Plan) \in Nat /\ Len(Plan) # 0
  /\ \A q \in DOMAIN Plan : Plan[q] \in Nat \ {0} /\ Places[q] \in Seq(Imports)
  /\ Data \in Seq(Imports) /\ IsFiniteSet(Procs) /\ None \notin ActorRows
  /\ RequestCap \in Nat /\ MaxRetries \in Nat /\ RunCap \in Nat /\ MaxConcurrent \in Nat
  /\ MaxClock \in Nat /\ MaxRemote \in Nat /\ MaxDeaths \in Nat
<1>1. Plan \in Seq(Nat \ {0}) /\ Plan # << >>
  BY LiveSourcesAssumption DEF LiveSourcesAssumption, IsPlan
<1>2. Len(Plan) \in Nat /\ DOMAIN Plan = 1..Len(Plan) /\ Len(Plan) # 0
      /\ \A q \in 1..Len(Plan) : Plan[q] \in Nat \ {0}
  BY <1>1, EmptySeq, LenProperties, ElementOfSeq
<1>3. Places \in [DOMAIN Plan -> Seq(Imports)]
  BY LiveSourcesAssumption DEF LiveSourcesAssumption
<1> QED BY <1>2, <1>3, LiveSourcesAssumption DEF LiveSourcesAssumption

LEMMA RecordKeys ==
  ASSUME NEW records \in Seq(Imports)
  PROVE  \A raw \in ToSet(records) : raw.key \in Keys
<1>1. DOMAIN records = 1..Len(records) /\ \A i \in 1..Len(records) : records[i] \in Imports
  BY LenProperties, ElementOfSeq
<1> QED BY <1>1, DiscoveryAssumption DEF DiscoveryAssumption, ToSet

(* What a step does to the others and to what they rely on.                *)
Others(p) == \A q \in Procs : q # p => where'[q] = where[q] /\ job'[q] = job[q]
Evolves ==
  /\ CandKept /\ log \subseteq log' /\ DOMAIN druns \subseteq DOMAIN druns'
  /\ DOMAIN remote \subseteq DOMAIN remote'
  /\ \A i \in DOMAIN remote : remote'[i] = remote[i] \/ remote[i] = "RUNNING"
  /\ DOMAIN rowOf \subseteq DOMAIN rowOf' /\ Recorded \subseteq Recorded'

(* Records stay on file.                                                   *)
LEMMA FiledKept ==
  ASSUME NEW records \in Seq(Imports), CandKept
  PROVE  /\ AllFiled(records) => AllFiled(records)'
         /\ \A found : Underway(records, found) => Underway(records, found)'
BY RecordKeys DEF CandKept, AllFiled, Underway

(* What a search has done stays done, ...                                  *)
LEMMA SearchKept ==
  ASSUME Evolves, NEW CONSTANT w, NEW CONSTANT j, SearchSound(w, j)
  PROVE  SearchSound(w, j)'
<1> SUFFICES ASSUME w \in SearchPcs PROVE SearchSound(w, j)'
  BY DEF SearchSound
<1>1. /\ j.id \in DOMAIN druns /\ j.query \in 1..(Len(Plan) + 1)
      /\ w \in {"page", "ingest"} => j.query \in DOMAIN Plan
      /\ w = "page" => j.page \in 1..Plan[j.query]
      /\ ~j.failed => WholePlan(j.id, j.query)
      /\ w = "ingest" => Asked(j.id, j.query) /\ Underway(Places[j.query], j.found)
      /\ w = "finish" /\ ~j.failed => j.query = Len(Plan) + 1
  BY DEF SearchSound
<1>2. \A r, q : Asked(r, q) => Asked(r, q)'
  BY DEF Evolves, Asked
<1>3. ~j.failed => WholePlan(j.id, j.query)'
  BY <1>1, <1>2, FiledKept, SourceConstants DEF WholePlan, Evolves
<1>4. w = "ingest" => Asked(j.id, j.query)' /\ Underway(Places[j.query], j.found)'
  BY <1>1, <1>2, FiledKept, SourceConstants DEF Evolves
<1>5. j.id \in DOMAIN druns'
  BY <1>1 DEF Evolves
<1> QED BY <1>1, <1>3, <1>4, <1>5 DEF SearchSound

(* ... and so does what was said of an actor run.                          *)
LEMMA ActorKept ==
  ASSUME Evolves, SourceTypes, NEW CONSTANT w, NEW CONSTANT j, ActorSound(w, j),
         w = "record" => rowOf'[j.id] = None
  PROVE  ActorSound(w, j)'
<1>1. DOMAIN rowOf = 1..Len(rowOf) /\ DOMAIN remote = 1..Len(remote)
      /\ Len(remote) = Len(rowOf)
  BY LenProperties DEF SourceTypes
<1>2. Recorded \subseteq DOMAIN rowOf
  BY DEF Recorded
<1>3. w \in {"record", "write"} => j.id \in DOMAIN rowOf' /\ Behind(j.got, j.id)'
  BY <1>1, <1>2 DEF ActorSound, Evolves, Behind
<1>4. w \in {"write", "fetch"} => j.id \in Recorded'
  BY DEF ActorSound, Evolves
<1>5. /\ w = "fetch" => remote'[j.id] = "SUCCEEDED"
      /\ w = "fetch" /\ j.items # 0 => Underway(Data, j.found)'
  BY <1>1, <1>2, FiledKept, SourceConstants DEF ActorSound, Evolves
<1> QED BY <1>3, <1>4, <1>5 DEF ActorSound

(* A step of one process keeps what all rely on, if it leaves that process *)
(* where it should be and nobody else's row is written.                    *)
Located(w, j, s) ==
  /\ w \in SearchPcs \union {"open"} => s = "google"
  /\ w \in {"start", "record", "write", "fetch"} => s = "apify"
  /\ w \in {"idle", "open", "start"} => j.id = 0
  /\ w = "open" => j.query = 1

LEMMA CallsKept ==
  ASSUME SourceTypes, SourceTypes', CallsSound, Evolves, NEW p \in Procs, Others(p),
         serves' = serves,
         \A q \in Procs : q # p /\ where[q] = "record" => rowOf'[job[q].id] = None,
         NEW w, NEW k, where'[p] = w, job'[p] = k,
         SearchSound(w, k)', ActorSound(w, k)', Located(w, k, serves[p])
  PROVE  CallsSound'
<1> SUFFICES ASSUME NEW q \in Procs
    PROVE  SearchSound(where[q], job[q])' /\ ActorSound(where[q], job[q])'
           /\ Located(where'[q], job'[q], serves'[q])
  BY DEF CallsSound, Located
<1>1. CASE q = p
  BY <1>1 DEF SearchSound, ActorSound, WholePlan, Asked, AllFiled, Underway, Behind
<1>2. CASE q # p
  <2>1. PICK u \in SourcePcs, j \in SourceJobs : u = where[q] /\ j = job[q]
    BY DEF SourceTypes
  <2>2. SearchSound(u, j) /\ ActorSound(u, j) /\ Located(u, j, serves[q])
    BY <2>1 DEF CallsSound, Located
  <2>3. u = "record" => rowOf'[j.id] = None
    BY <1>2, <2>1
  <2>4. SearchSound(u, j)' /\ ActorSound(u, j)'
    BY <2>2, <2>3, SearchKept, ActorKept
  <2>5. u = where'[q] /\ j = job'[q]
    BY <1>2, <2>1 DEF Others
  <2> QED BY <2>2, <2>4, <2>5
      DEF SearchSound, ActorSound, WholePlan, Asked, AllFiled, Underway, Behind
<1> QED BY <1>1, <1>2

-----------------------------------------------------------------------------
(* What a step leaves as it was. *)

(* The pages of the plan, and those still owed, are finitely many.         *)
LEMMA PlannedFinite ==
  /\ IsFiniteSet(Planned) /\ Planned # {} /\ Cardinality(Planned) \in Nat
  /\ \A x \in Planned : x[1] \in DOMAIN Plan /\ x[2] \in 1..Plan[x[1]]
  /\ \A q \in DOMAIN Plan : \A n \in 1..Plan[q] : <<q, n>> \in Planned
<1> DEFINE f == [q \in DOMAIN Plan |-> {q} \X (1..Plan[q])]
           T == {{q} \X (1..Plan[q]) : q \in DOMAIN Plan}
<1>1. f \in Surjection(DOMAIN Plan, T)
  BY DEF Surjection
<1>2. IsFiniteSet(DOMAIN Plan)
  BY SourceConstants, FS_Interval
<1>3. IsFiniteSet(T)
  BY <1>1, <1>2, FS_Surjection
<1>4. \A S \in T : IsFiniteSet(S)
  <2> SUFFICES ASSUME NEW q \in DOMAIN Plan PROVE IsFiniteSet({q} \X (1..Plan[q]))
    OBVIOUS
  <2>1. 1 \in Int /\ Plan[q] \in Int
    BY SourceConstants
  <2>2. IsFiniteSet({q}) /\ IsFiniteSet(1..Plan[q])
    BY <2>1, FS_Singleton, FS_Interval
  <2> QED BY <2>2, FS_Product
<1>5. IsFiniteSet(Planned)
  BY <1>3, <1>4, FS_UNION DEF Planned
<1>6. \A q \in DOMAIN Plan : \A n \in 1..Plan[q] : <<q, n>> \in Planned
  BY DEF Planned
<1>7. <<1, 1>> \in Planned
  <2>1. 1 \in DOMAIN Plan
    BY SourceConstants
  <2>2. 1 \in 1..Plan[1]
    BY <2>1, SourceConstants
  <2> QED BY <1>6, <2>1, <2>2
<1>8. \A x \in Planned : x[1] \in DOMAIN Plan /\ x[2] \in 1..Plan[x[1]]
  BY DEF Planned
<1>9. Cardinality(Planned) \in Nat
  BY <1>5, FS_CardinalityType
<1> QED BY <1>5, <1>6, <1>7, <1>8, <1>9

LEMMA ServingFinite ==
  \A s : IsFiniteSet(Serving(s)) /\ Cardinality(Serving(s)) \in Nat
<1> SUFFICES ASSUME NEW s PROVE IsFiniteSet(Serving(s)) /\ Cardinality(Serving(s)) \in Nat
  OBVIOUS
<1>1. Serving(s) \in SUBSET Procs
  BY DEF Serving
<1> QED BY <1>1, SourceConstants, FS_Subset, FS_CardinalityType

LEMMA OwedFinite ==
  IsFiniteSet(Owed) /\ Cardinality(Owed) \in Nat
<1>1. IsFiniteSet(Serving("google") \X Planned)
  BY ServingFinite, PlannedFinite, FS_Product
<1>2. Owed \in SUBSET (Serving("google") \X Planned)
  BY DEF Owed
<1> QED BY <1>1, <1>2, FS_Subset, FS_CardinalityType

(* Subsets count no more.                                                  *)
LEMMA CountKept ==
  ASSUME NEW S, NEW T, IsFiniteSet(T), S \subseteq T
  PROVE  /\ IsFiniteSet(S) /\ Cardinality(S) \in Nat /\ Cardinality(T) \in Nat
         /\ Cardinality(S) <= Cardinality(T)
BY FS_Subset, FS_CardinalityType

(* A process that looks at no page it did not look at before.              *)
LEMMA OwedKept ==
  ASSUME SourceTypes, NEW p \in Procs, Others(p), serves' = serves,
         \A x \in Planned : Ahead(where'[p], job'[p], x) => Ahead(where[p], job[p], x)
  PROVE  Owed' \subseteq Owed
<1> SUFFICES ASSUME NEW y \in Serving("google") \X Planned,
                    Ahead(where'[y[1]], job'[y[1]], y[2])
             PROVE  Ahead(where[y[1]], job[y[1]], y[2])
  BY DEF Owed, Serving
<1>1. y[1] \in Procs /\ y[2] \in Planned
  BY DEF Serving
<1>2. CASE y[1] = p
  BY <1>1, <1>2
<1>3. CASE y[1] # p
  BY <1>1, <1>3 DEF Others
<1> QED BY <1>2, <1>3

LEMMA CapKept ==
  ASSUME SourceTypes, CapInv, log' = log, serves' = serves, Owed' \subseteq Owed
  PROVE  CapInv'
<1>1. Succeeded' = Succeeded /\ Serving("google")' = Serving("google")
  BY DEF Succeeded, Serving
<1>2. IsFiniteSet(Succeeded) /\ Cardinality(Succeeded) \in Nat
  <2>1. Succeeded \subseteq log /\ IsFiniteSet(log)
    BY DEF Succeeded, SourceTypes
  <2> QED BY <2>1, CountKept
<1>3. Cardinality(Owed') \in Nat /\ Cardinality(Owed) \in Nat
      /\ Cardinality(Owed') <= Cardinality(Owed)
  BY OwedFinite, CountKept
<1>4. Cardinality(Serving("google")) * RequestCap \in Nat
  BY ServingFinite, SourceConstants
<1> QED BY <1>1, <1>2, <1>3, <1>4 DEF CapInv

(* Searches that were COMPLETED before.                                    *)
LEMMA CompletedIs ==
  CompletedMeansWholePlan <=>
    \A r \in DOMAIN druns : druns[r] = "COMPLETED" =>
      \A q \in DOMAIN Plan : Asked(r, q) /\ AllFiled(Places[q])
BY DEF CompletedMeansWholePlan, Asked, AllFiled

LEMMA CompletedKept ==
  ASSUME CompletedMeansWholePlan, CandKept, log \subseteq log',
         \A r \in DOMAIN druns' :
           druns'[r] = "COMPLETED" => r \in DOMAIN druns /\ druns[r] = "COMPLETED"
  PROVE  CompletedMeansWholePlan'
<1>1. \A r, q : Asked(r, q) => Asked(r, q)'
  BY DEF Asked
<1>2. \A q \in DOMAIN Plan : AllFiled(Places[q]) => AllFiled(Places[q])'
  BY FiledKept, SourceConstants
<1>3. \A r \in DOMAIN druns' : druns'[r] = "COMPLETED" =>
        \A q \in DOMAIN Plan : Asked(r, q)' /\ AllFiled(Places[q])'
  BY CompletedIs, <1>1, <1>2
<1> QED BY <1>3 DEF CompletedMeansWholePlan, Asked, AllFiled

(* The sets RunsInv counts. *)
LEMMA RunSets ==
  ASSUME SourceTypes
  PROVE  /\ \A S \in {Starting, Recording, Recorded, Unrecorded, LiveRuns} :
              IsFiniteSet(S) /\ Cardinality(S) \in Nat
         /\ DOMAIN rowOf = 1..Len(rowOf) /\ Len(rowOf) \in Nat /\ DOMAIN remote = DOMAIN rowOf
         /\ Recorded \subseteq DOMAIN rowOf /\ unheard \in Nat /\ deaths \in Nat
<1>1. /\ DOMAIN rowOf = 1..Len(rowOf) /\ Len(rowOf) \in Nat
      /\ DOMAIN remote = 1..Len(remote) /\ Len(remote) = Len(rowOf)
  BY LenProperties DEF SourceTypes
<1>2. unheard \in Nat /\ deaths \in Nat
  BY <1>1, SourceConstants DEF SourceTypes
<1>3. IsFiniteSet(DOMAIN rowOf)
  BY <1>1, FS_Interval
<1>4. /\ Recorded \subseteq DOMAIN rowOf /\ Unrecorded \subseteq DOMAIN rowOf
      /\ LiveRuns \subseteq DOMAIN rowOf
      /\ Starting \subseteq Procs /\ Recording \subseteq Procs
  BY DEF Recorded, Unrecorded, LiveRuns, Starting, Recording
<1> QED BY <1>1, <1>2, <1>3, <1>4, CountKept, SourceConstants

LEMMA RunsKept ==
  ASSUME SourceTypes, RunsInv, serves' = serves, unheard' = unheard, deaths' = deaths,
         Starting' \subseteq Starting, Recording' = Recording, Recorded' = Recorded,
         DOMAIN rowOf' = DOMAIN rowOf, LiveRuns' \subseteq LiveRuns
  PROVE  RunsInv'
<1>1. Unrecorded' = Unrecorded /\ Serving("apify")' = Serving("apify")
  BY DEF Unrecorded, Serving
<1>2. Cardinality(LiveRuns') \in Nat /\ Cardinality(LiveRuns) \in Nat
      /\ Cardinality(LiveRuns') <= Cardinality(LiveRuns)
  BY RunSets, CountKept
<1>3. /\ Cardinality(Starting') \in Nat /\ Cardinality(Starting) \in Nat
      /\ Cardinality(Starting') <= Cardinality(Starting)
  BY RunSets, CountKept
<1>4. /\ Cardinality(Recorded) \in Nat /\ Cardinality(Serving("apify")) \in Nat
      /\ RunCap \in Nat /\ MaxConcurrent \in Nat
  BY RunSets, ServingFinite, SourceConstants
<1> QED BY <1>1, <1>2, <1>3, <1>4 DEF RunsInv

(* A process that starts nothing and records nothing.                      *)
LEMMA StartingKept ==
  ASSUME NEW p \in Procs, Others(p),
         where[p] \notin {"start", "record"}, where'[p] \notin {"start", "record"}
  PROVE  Starting' = Starting /\ Recording' = Recording
<1>1. \A q \in Procs : /\ where'[q] \in {"start", "record"} <=> where[q] \in {"start", "record"}
                       /\ where'[q] = "record" <=> where[q] = "record"
  BY DEF Others
<1> QED BY <1>1 DEF Starting, Recording

(* A step of a search: actor runs are left alone.                          *)
ApifyPcs == {"start", "record", "write", "fetch"}

LEMMA SearchKeeps ==
  ASSUME SourcesInv, SourceTypes', NEW p \in Procs, Others(p),
         UNCHANGED <<apify, serves, deaths>>,
         where[p] \notin ApifyPcs, where'[p] \notin ApifyPcs,
         CandKept, log \subseteq log', DOMAIN druns \subseteq DOMAIN druns'
  PROVE  /\ Evolves /\ OwnRuns' /\ FetchedInv' /\ RunsInv' /\ serves' = serves
         /\ ActorRowsSound'
         /\ \A q \in Procs : q # p /\ where[q] = "record" => rowOf'[job[q].id] = None
<1>1. remote' = remote /\ rowOf' = rowOf /\ unheard' = unheard /\ serves' = serves
      /\ deaths' = deaths
  BY DEF apify
<1>2. Recorded' = Recorded /\ LiveRuns' = LiveRuns
  BY <1>1 DEF Recorded, LiveRuns
<1>3. Starting' = Starting /\ Recording' = Recording
  BY StartingKept DEF ApifyPcs
<1>4. RunsInv'
  BY <1>1, <1>2, <1>3, RunsKept DEF SourcesInv
<1>5. Evolves
  BY <1>1, <1>2 DEF Evolves
<1>6. OwnRuns'
  <2>1. \A q \in Procs : where'[q] = "record" =>
          q # p /\ where[q] = "record" /\ job'[q] = job[q]
    BY DEF Others, ApifyPcs
  <2> QED BY <2>1 DEF OwnRuns, SourcesInv
<1>7. AllFiled(Data) => AllFiled(Data)'
  BY FiledKept, SourceConstants
<1>8. FetchedInv'
  BY <1>1, <1>2, <1>7 DEF FetchedInv, SourcesInv
<1>9. ActorRowsSound'
  BY <1>1, <1>2 DEF SourcesInv, ActorRowsSound, Behind
<1>10. \A q \in Procs : q # p /\ where[q] = "record" => rowOf'[job[q].id] = None
  BY <1>1 DEF SourcesInv, CallsSound, ActorSound
<1> QED BY <1>1, <1>4, <1>5, <1>6, <1>8, <1>9, <1>10

(* A step of an actor's process: the log and the searches are left alone.  *)
LEMMA ActorKeeps ==
  ASSUME SourcesInv, SourceTypes', NEW p \in Procs, Others(p),
         UNCHANGED <<google, serves>>,
         where[p] \notin SearchPcs \union {"open"}, where'[p] \notin SearchPcs \union {"open"},
         CandKept
  PROVE  /\ CapInv' /\ CompletedMeansWholePlan'
         /\ LogSound' /\ serves' = serves
         /\ log \subseteq log' /\ DOMAIN druns \subseteq DOMAIN druns'
<1>1. log' = log /\ druns' = druns /\ serves' = serves
  BY DEF google
<1>2. CompletedMeansWholePlan'
  BY <1>1, CompletedKept DEF SourcesInv
<1>3. Owed' \subseteq Owed
  <2>1. \A x : ~Ahead(where'[p], job'[p], x)
    BY DEF Ahead, SearchPcs
  <2> QED BY <1>1, <2>1, OwedKept DEF SourcesInv
<1>4. CapInv'
  BY <1>1, <1>3, CapKept DEF SourcesInv
<1> QED BY <1>1, <1>2, <1>4 DEF SourcesInv, LogSound

-----------------------------------------------------------------------------
(* Searches. *)

LEMMA FiledStays ==
  ASSUME RowsInv, UNCHANGED filed
  PROVE  RowsInv' /\ CandKept
BY DEF RowsInv, CandKept, filed

(* What a search that goes on, or ends, keeps of the invariant: all but    *)
(* what is said of the log and of COMPLETED searches.                      *)
SearchKeepsInv ==
  /\ SourceTypes' /\ RowsInv' /\ ActorRowsSound' /\ CallsSound' /\ OwnRuns' /\ FetchedInv'
  /\ RunsInv'

LEMMA SearchMoves ==
  ASSUME SourcesInv, NEW p \in Procs, where[p] \notin ApifyPcs,
         NEW w \in {"idle", "open"} \union SearchPcs, NEW k \in SourceJobs,
         Move(p, w, k), UNCHANGED apify, Static,
         log' \subseteq RequestRows, IsFiniteSet(log'), log \subseteq log',
         druns' \in Seq(SearchStates), DOMAIN druns \subseteq DOMAIN druns',
         clock' \in 0..MaxClock, RowsInv', CandKept,
         SearchSound(w, k)', Located(w, k, serves[p])
  PROVE  /\ SearchKeepsInv
         /\ Others(p) /\ where'[p] = w /\ job'[p] = k /\ serves' = serves
<1>1. w \in SourcePcs /\ SourceTypes
  BY DEF SourcePcs, SourcesInv
<1>2. /\ where' \in [Procs -> SourcePcs] /\ job' \in [Procs -> SourceJobs]
      /\ where'[p] = w /\ job'[p] = k /\ Others(p)
  BY <1>1, MoveIs DEF Others
<1>3. /\ remote' = remote /\ rowOf' = rowOf /\ unheard' = unheard /\ live' = live
      /\ serves' = serves /\ deaths' = deaths
  BY DEF apify, Static
<1>4. SourceTypes'
  BY <1>1, <1>2, <1>3 DEF SourceTypes
<1>5. w \notin ApifyPcs
  BY DEF ApifyPcs, SearchPcs
<1>6. /\ Evolves /\ OwnRuns' /\ FetchedInv' /\ RunsInv' /\ ActorRowsSound'
      /\ \A q \in Procs : q # p /\ where[q] = "record" => rowOf'[job[q].id] = None
  BY <1>2, <1>3, <1>4, <1>5, SearchKeeps
<1>7. ActorSound(w, k)'
  BY <1>5 DEF ActorSound, ApifyPcs
<1>8. CallsSound'
  BY <1>1, <1>2, <1>3, <1>4, <1>6, <1>7, CallsKept DEF SourcesInv
<1> QED BY <1>2, <1>3, <1>4, <1>6, <1>8 DEF SearchKeepsInv

(* A step that neither asks nor ends a search.                             *)
LEMMA SearchGoesOn ==
  ASSUME SourcesInv, NEW p \in Procs, where[p] \notin ApifyPcs,
         NEW w \in {"idle", "open"} \union SearchPcs, NEW k \in SourceJobs,
         Move(p, w, k), UNCHANGED <<google, apify, clock>>, Static, RowsInv', CandKept,
         SearchSound(w, k)', Located(w, k, serves[p]),
         \A x \in Planned : Ahead(w, k, x) => Ahead(where[p], job[p], x)
  PROVE  SourcesInv'
<1>1. log' = log /\ druns' = druns /\ clock' = clock
  BY DEF google
<1>2. SourceTypes /\ CapInv /\ CompletedMeansWholePlan /\ LogSound
  BY DEF SourcesInv
<1>3. /\ SearchKeepsInv
      /\ Others(p) /\ where'[p] = w /\ job'[p] = k /\ serves' = serves
  BY <1>1, <1>2, SearchMoves DEF SourceTypes
<1>4. Owed' \subseteq Owed
  BY <1>2, <1>3, OwedKept
<1>5. CapInv'
  BY <1>1, <1>2, <1>3, <1>4, CapKept
<1>6. CompletedMeansWholePlan' /\ LogSound'
  BY <1>1, <1>2, CompletedKept DEF LogSound
<1> QED BY <1>3, <1>5, <1>6 DEF SearchKeepsInv, SourcesInv

(* What a process that has a search under way knows.                       *)
LEMMA SearchIs ==
  ASSUME SourcesInv, NEW p \in Procs, where[p] \in SearchPcs \union {"open"}
  PROVE  /\ serves[p] = "google" /\ where[p] \notin ApifyPcs /\ job[p] \in SourceJobs
         /\ where[p] \in SourcePcs /\ SearchSound(where[p], job[p])
         /\ SourceTypes /\ RowsInv
         /\ Located(where[p], job[p], serves[p])
BY DEF SourcesInv, SourceTypes, CallsSound, Located, ApifyPcs, SearchPcs

LEMMA NextQueryStep ==
  ASSUME SourcesInv, NEW p \in Procs, NextQuery(p)
  PROVE  SourcesInv'
<1> DEFINE j == job[p]
           k2 == [j EXCEPT !.page = 1, !.attempts = 0, !.spent = 0, !.found = << >>]
<1>1. /\ where[p] = "query" /\ UNCHANGED <<google, apify, clock>> /\ Static
      /\ UNCHANGED filed
      /\ IF j.query > Len(Plan) THEN Move(p, "finish", j) ELSE Move(p, "page", k2)
  BY DEF NextQuery
<1>2. /\ serves[p] = "google" /\ where[p] \notin ApifyPcs /\ j \in SourceJobs
      /\ SearchSound("query", j)
  BY <1>1, SearchIs DEF SearchPcs
<1>3. RowsInv' /\ CandKept
  BY <1>1, FiledStays DEF SourcesInv
<1>4. /\ j.id \in DOMAIN druns /\ j.query \in 1..(Len(Plan) + 1)
      /\ ~j.failed => WholePlan(j.id, j.query)
  BY <1>2 DEF SearchSound, SearchPcs
<1>5. cand' = cand /\ log' = log /\ druns' = druns
  BY <1>1 DEF filed, google
<1>6. CASE j.query > Len(Plan)
  <2>1. j.query = Len(Plan) + 1
    BY <1>4, <1>6, SourceConstants
  <2>2. PICK k \in SourceJobs : k = j
    BY <1>2
  <2>3. SearchSound("finish", k)'
    BY <1>4, <1>5, <2>1, <2>2 DEF SearchSound, SearchPcs, WholePlan, Asked, AllFiled
  <2>4. Located("finish", k, serves[p]) /\ "finish" \in SearchPcs
    BY <1>2 DEF Located, SearchPcs
  <2>5. \A x \in Planned : ~Ahead("finish", k, x)
    BY DEF Ahead
  <2> QED BY <1>1, <1>2, <1>3, <1>6, <2>2, <2>3, <2>4, <2>5, SearchGoesOn
<1>7. CASE ~(j.query > Len(Plan))
  <2>1. j.query \in DOMAIN Plan /\ 1 \in 1..Plan[j.query]
    BY SMTT(40), <1>4, <1>7, SourceConstants
  <2>2. k2 \in SourceJobs /\ k2.query = j.query /\ k2.id = j.id /\ k2.failed = j.failed
        /\ k2.page = 1
    <3>1. << >> \in Seq(Imports) /\ 0 \in 0..MaxRetries
      BY EmptySeq, SourceConstants
    <3> QED BY <1>2, <3>1 DEF SourceJobs
  <2> HIDE DEF k2
  <2>3. PICK k \in SourceJobs : k = k2
    BY <2>2
  <2>4. SearchSound("page", k)'
    BY <1>4, <1>5, <2>1, <2>2, <2>3 DEF SearchSound, SearchPcs, WholePlan, Asked, AllFiled
  <2>5. Located("page", k, serves[p]) /\ "page" \in SearchPcs
    BY <1>2 DEF Located, SearchPcs
  <2>6. ASSUME NEW x \in Planned, Ahead("page", k, x)
        PROVE  Ahead(where[p], job[p], x)
    <3>1. x[1] \in Nat /\ j.query \in Nat
      BY PlannedFinite, SourceConstants, <1>4
    <3> QED BY <1>1, <2>2, <2>3, <2>6, <3>1 DEF Ahead
  <2> QED BY <1>1, <1>2, <1>3, <1>7, <2>3, <2>4, <2>5, <2>6, SearchGoesOn
<1> QED BY <1>6, <1>7

LEMMA OutOfQuotaStep ==
  ASSUME SourcesInv, NEW p \in Procs, OutOfQuota(p)
  PROVE  SourcesInv'
<1> DEFINE j == job[p]
           k1 == [j EXCEPT !.failed = TRUE]
<1>1. /\ where[p] = "page" /\ UNCHANGED <<google, apify, clock>> /\ Static
      /\ UNCHANGED filed /\ Move(p, "finish", k1)
  BY DEF OutOfQuota
<1>2. /\ serves[p] = "google" /\ where[p] \notin ApifyPcs /\ j \in SourceJobs
      /\ SearchSound("page", j)
  BY <1>1, SearchIs DEF SearchPcs
<1>3. RowsInv' /\ CandKept
  BY <1>1, FiledStays DEF SourcesInv
<1>4. j.id \in DOMAIN druns /\ j.query \in 1..(Len(Plan) + 1)
  BY <1>2 DEF SearchSound, SearchPcs
<1>5. k1 \in SourceJobs /\ k1.query = j.query /\ k1.id = j.id /\ k1.failed
  BY <1>2 DEF SourceJobs
<1> HIDE DEF k1
<1>6. PICK k \in SourceJobs : k = k1
  BY <1>5
<1>7. druns' = druns
  BY <1>1 DEF google
<1>8. SearchSound("finish", k)'
  BY <1>4, <1>5, <1>6, <1>7 DEF SearchSound, SearchPcs
<1>9. Located("finish", k, serves[p]) /\ "finish" \in SearchPcs
  BY <1>2 DEF Located, SearchPcs
<1>10. \A x \in Planned : ~Ahead("finish", k, x)
  BY DEF Ahead
<1> QED BY <1>1, <1>2, <1>3, <1>6, <1>8, <1>9, <1>10, SearchGoesOn

LEMMA IngestPlaceStep ==
  ASSUME SourcesInv, NEW p \in Procs, IngestPlace(p)
  PROVE  SourcesInv'
<1> DEFINE j == job[p]
           m == j.query + 1
           kq == [j EXCEPT !.query = m]
<1>1. /\ where[p] = "ingest" /\ UNCHANGED <<google, apify, clock>> /\ Static
      /\ \/ IngestNext(p)
         \/ j.found = << >> /\ Move(p, "query", kq) /\ UNCHANGED filed
  BY DEF IngestPlace
<1>2. /\ serves[p] = "google" /\ where[p] \notin ApifyPcs /\ j \in SourceJobs
      /\ SearchSound("ingest", j) /\ SourceTypes /\ RowsInv
  BY <1>1, SearchIs DEF SearchPcs
<1>3. /\ j.id \in DOMAIN druns /\ j.query \in 1..(Len(Plan) + 1) /\ j.query \in DOMAIN Plan
      /\ ~j.failed => WholePlan(j.id, j.query)
      /\ Asked(j.id, j.query) /\ Underway(Places[j.query], j.found)
  BY <1>2 DEF SearchSound, SearchPcs
<1>4. log' = log /\ druns' = druns
  BY <1>1 DEF google
<1>5. j.query \in Nat /\ \A x \in Planned : x[1] \in Nat
  BY <1>3, PlannedFinite, SourceConstants
<1>6. CASE IngestNext(p)
  <2>1. /\ RowsInv' /\ CandKept
        /\ \/ Stop(p)
           \/ \E k \in SourceJobs :
                /\ Move(p, where[p], k)
                /\ k.id = j.id /\ k.query = j.query /\ k.failed = j.failed
                /\ k.page = j.page /\ k.items = j.items
                /\ \A raw \in ToSet(j.found) :
                     raw.key \in Keys /\ (cand'[raw.key] # None \/ raw \in ToSet(k.found))
    BY <1>2, <1>6, IngestNextIs
  <2>2. CASE Stop(p)
    <3>1. NoJob \in SourceJobs /\ Move(p, "idle", NoJob)
      BY <2>2, NoSourceJob DEF Stop
    <3>2. SearchSound("idle", NoJob)' /\ Located("idle", NoJob, serves[p])
      BY DEF SearchSound, SearchPcs, Located, NoJob
    <3>3. \A x \in Planned : ~Ahead("idle", NoJob, x)
      BY DEF Ahead
    <3> QED BY <1>1, <1>2, <2>1, <3>1, <3>2, <3>3, SearchGoesOn
  <2>3. ASSUME NEW k \in SourceJobs, Move(p, where[p], k),
               k.id = j.id, k.query = j.query, k.failed = j.failed, k.page = j.page,
               \A raw \in ToSet(j.found) :
                 raw.key \in Keys /\ (cand'[raw.key] # None \/ raw \in ToSet(k.found))
        PROVE  SourcesInv'
    <3>1. \A q \in DOMAIN Plan : AllFiled(Places[q]) => AllFiled(Places[q])'
      BY <2>1, FiledKept, SourceConstants
    <3>2. \A r, q : Asked(r, q) => Asked(r, q)'
      BY <1>4 DEF Asked
    <3>3. ~k.failed => WholePlan(k.id, k.query)'
      BY <1>3, <2>3, <3>1, <3>2 DEF WholePlan
    <3>4. Underway(Places[k.query], k.found)'
      <4>1. \A raw \in ToSet(Places[k.query]) : raw.key \in Keys
        BY <1>3, <2>3, RecordKeys, SourceConstants
      <4> QED BY <1>3, <2>1, <2>3, <4>1 DEF Underway, CandKept
    <3>5. Asked(k.id, k.query)'
      BY <1>3, <2>3, <3>2
    <3>6. SearchSound("ingest", k)'
      BY <1>3, <1>4, <2>3, <3>3, <3>4, <3>5 DEF SearchSound, SearchPcs
    <3>7. Located("ingest", k, serves[p]) /\ "ingest" \in SearchPcs
      BY <1>2 DEF Located, SearchPcs
    <3>8. \A x \in Planned : Ahead("ingest", k, x) => Ahead(where[p], job[p], x)
      BY <1>1, <2>3 DEF Ahead
    <3> QED BY <1>1, <1>2, <2>1, <2>3, <3>6, <3>7, <3>8, SearchGoesOn
  <2> QED BY <2>1, <2>2, <2>3
<1>7. CASE j.found = << >> /\ Move(p, "query", kq) /\ UNCHANGED filed
  <2>1. RowsInv' /\ CandKept /\ cand' = cand
    BY <1>2, <1>7, FiledStays DEF filed
  <2>2. kq \in SourceJobs /\ kq.query = j.query + 1 /\ kq.id = j.id /\ kq.failed = j.failed
    <3>1. m \in Nat
      BY <1>5
    <3> HIDE DEF m
    <3>2. kq \in SourceJobs /\ kq.query = m /\ kq.id = j.id /\ kq.failed = j.failed
      BY <1>2, <3>1 DEF SourceJobs
    <3> QED BY <3>2 DEF m
  <2>3. AllFiled(Places[j.query])
    <3>1. ToSet(<< >>) = {}
      BY DEF ToSet
    <3> QED BY <1>3, <1>7, <3>1 DEF Underway, AllFiled
  <2> HIDE DEF kq
  <2>4. ~j.failed => WholePlan(j.id, j.query + 1)
    <3>1. \A q \in DOMAIN Plan : q < j.query + 1 => q < j.query \/ q = j.query
      BY <1>5, SourceConstants
    <3> QED BY <1>3, <2>3, <3>1 DEF WholePlan
  <2>5. PICK k \in SourceJobs : k = kq
    BY <2>2
  <2>6. kq.query \in 1..(Len(Plan) + 1)
    BY <1>3, <2>2, SourceConstants
  <2>7. SearchSound("query", k)'
    BY <1>3, <1>4, <2>1, <2>2, <2>4, <2>5, <2>6
    DEF SearchSound, SearchPcs, WholePlan, Asked, AllFiled
  <2>8. Located("query", k, serves[p]) /\ "query" \in SearchPcs
    BY <1>2 DEF Located, SearchPcs
  <2>9. ASSUME NEW x \in Planned, Ahead("query", k, x)
        PROVE  Ahead(where[p], job[p], x)
    BY <1>1, <1>5, <2>2, <2>5, <2>9 DEF Ahead
  <2> QED BY <1>1, <1>2, <1>7, <2>1, <2>5, <2>7, <2>8, <2>9, SearchGoesOn
<1> QED BY <1>1, <1>6, <1>7

LEMMA OpenSearchStep ==
  ASSUME SourcesInv, NEW p \in Procs, OpenSearch(p)
  PROVE  SourcesInv'
<1> DEFINE j == job[p]
           n == Len(druns) + 1
           k1 == [j EXCEPT !.id = n]
<1>1. /\ where[p] = "open" /\ UNCHANGED <<apify, clock>> /\ Static /\ log' = log
      /\ UNCHANGED filed /\ Move(p, "query", k1) /\ druns' = Append(druns, "RUNNING")
  BY DEF OpenSearch
<1>2. /\ serves[p] = "google" /\ where[p] \notin ApifyPcs /\ j \in SourceJobs
      /\ j.query = 1 /\ SourceTypes
  BY <1>1, SearchIs DEF Located
<1>3. RowsInv' /\ CandKept
  BY <1>1, FiledStays DEF SourcesInv
<1>4. /\ druns \in Seq(SearchStates) /\ "RUNNING" \in SearchStates /\ Len(druns) \in Nat
      /\ DOMAIN druns = 1..Len(druns)
  BY <1>2, LenProperties DEF SourceTypes, SearchStates
<1>5. /\ druns' \in Seq(SearchStates) /\ DOMAIN druns' = 1..n
      /\ \A r \in 1..Len(druns) : druns'[r] = druns[r]
      /\ druns'[n] = "RUNNING"
  <2>1. /\ druns' \in Seq(SearchStates) /\ Len(druns') = n
        /\ \A r \in 1..Len(druns) : druns'[r] = druns[r]
        /\ druns'[n] = "RUNNING"
    BY <1>1, <1>4, AppendProperties
  <2>2. DOMAIN druns' = 1..Len(druns')
    BY <2>1, LenProperties
  <2> QED BY <2>1, <2>2
<1>6. /\ n \in Nat /\ DOMAIN druns \subseteq DOMAIN druns' /\ n \in DOMAIN druns'
      /\ \A r \in DOMAIN druns' : druns'[r] = "COMPLETED" =>
           r \in DOMAIN druns /\ druns[r] = "COMPLETED"
  BY <1>4, <1>5
<1> HIDE DEF n
<1>7. k1 \in SourceJobs /\ k1.query = 1 /\ k1.id = n
  BY <1>2, <1>6 DEF SourceJobs
<1> HIDE DEF k1
<1>8. PICK k \in SourceJobs : k = k1
  BY <1>7
<1>9. SearchSound("query", k)'
  <2>1. 1 \in 1..(Len(Plan) + 1) /\ \A q \in DOMAIN Plan : ~(q < 1)
    BY SourceConstants
  <2> QED BY <1>6, <1>7, <1>8, <2>1 DEF SearchSound, SearchPcs, WholePlan
<1>10. Located("query", k, serves[p]) /\ "query" \in SearchPcs
  BY <1>2 DEF Located, SearchPcs
<1>11. log' \subseteq RequestRows /\ IsFiniteSet(log') /\ log \subseteq log'
       /\ clock' \in 0..MaxClock
  BY <1>1, <1>2 DEF SourceTypes
<1>12. /\ SearchKeepsInv
       /\ Others(p) /\ where'[p] = "query" /\ job'[p] = k /\ serves' = serves
  BY <1>1, <1>2, <1>3, <1>5, <1>6, <1>8, <1>9, <1>10, <1>11, SearchMoves
<1>13. CapInv'
  <2>1. \A x \in Planned : Ahead(where[p], job[p], x)
    BY <1>1 DEF Ahead
  <2>2. Owed' \subseteq Owed
    BY <1>2, <1>12, <2>1, OwedKept
  <2> QED BY <1>1, <1>2, <1>12, <2>2, CapKept DEF SourcesInv
<1>14. CompletedMeansWholePlan'
  BY <1>1, <1>3, <1>6, CompletedKept DEF SourcesInv
<1>15. LogSound'
  BY <1>1, <1>6 DEF SourcesInv, LogSound
<1> QED BY <1>12, <1>13, <1>14, <1>15 DEF SearchKeepsInv, SourcesInv

LEMMA FinishSearchStep ==
  ASSUME SourcesInv, NEW p \in Procs, FinishSearch(p)
  PROVE  SourcesInv'
<1> DEFINE j == job[p]
           st == IF j.failed THEN "SOURCE_ERROR" ELSE "COMPLETED"
<1>1. /\ where[p] = "finish" /\ UNCHANGED <<apify, clock>> /\ Static /\ log' = log
      /\ UNCHANGED filed /\ Move(p, "idle", NoJob) /\ druns' = [druns EXCEPT ![j.id] = st]
  BY DEF FinishSearch, Stop
<1>2. /\ serves[p] = "google" /\ where[p] \notin ApifyPcs
      /\ SearchSound("finish", j) /\ SourceTypes
  BY <1>1, SearchIs DEF SearchPcs
<1>3. RowsInv' /\ CandKept /\ cand' = cand
  BY <1>1, FiledStays DEF SourcesInv, filed
<1>4. /\ j.id \in DOMAIN druns
      /\ ~j.failed => WholePlan(j.id, j.query) /\ j.query = Len(Plan) + 1
  BY <1>2 DEF SearchSound, SearchPcs
<1>5. /\ druns \in Seq(SearchStates) /\ DOMAIN druns = 1..Len(druns)
      /\ st \in SearchStates
  BY <1>2, LenProperties DEF SourceTypes, SearchStates
<1>6. /\ druns' \in Seq(SearchStates) /\ DOMAIN druns' = DOMAIN druns
      /\ \A r \in DOMAIN druns : r # j.id => druns'[r] = druns[r]
      /\ druns'[j.id] = st
  BY <1>1, <1>4, <1>5, ExceptSeq
<1>7. SearchSound("idle", NoJob)' /\ Located("idle", NoJob, serves[p]) /\ NoJob \in SourceJobs
  BY NoSourceJob DEF SearchSound, SearchPcs, Located, NoJob
<1>8. log' \subseteq RequestRows /\ IsFiniteSet(log') /\ log \subseteq log'
      /\ clock' \in 0..MaxClock
  BY <1>1, <1>2 DEF SourceTypes
<1>9. /\ SearchKeepsInv
      /\ Others(p) /\ where'[p] = "idle" /\ serves' = serves
  BY <1>1, <1>2, <1>3, <1>6, <1>7, <1>8, SearchMoves
<1>10. CapInv'
  <2>1. \A x \in Planned : ~Ahead(where'[p], job'[p], x)
    BY <1>9 DEF Ahead
  <2>2. Owed' \subseteq Owed
    BY <1>2, <1>9, <2>1, OwedKept
  <2> QED BY <1>1, <1>2, <1>9, <2>2, CapKept DEF SourcesInv
<1>11. ~j.failed => \A q \in DOMAIN Plan : Asked(j.id, q) /\ AllFiled(Places[q])
  <2>1. j.query = Len(Plan) + 1 => \A q \in DOMAIN Plan : q < j.query
    BY SourceConstants
  <2> QED BY <1>4, <2>1 DEF WholePlan
<1>12. CompletedMeansWholePlan'
  <2> SUFFICES ASSUME NEW r \in DOMAIN druns', druns'[r] = "COMPLETED",
                      NEW q \in DOMAIN Plan
               PROVE  Asked(r, q)' /\ AllFiled(Places[q])'
    BY DEF CompletedMeansWholePlan, Asked, AllFiled
  <2>1. Asked(r, q) /\ AllFiled(Places[q])
    BY <1>6, <1>11, CompletedIs DEF SourcesInv
  <2> QED BY <1>1, <1>3, <2>1 DEF Asked, AllFiled
<1>13. LogSound'
  BY <1>1, <1>6 DEF SourcesInv, LogSound
<1> QED BY <1>9, <1>10, <1>12, <1>13 DEF SearchKeepsInv, SourcesInv

(* A request that brings a page is one owed less.                          *)
LEMMA CapAsked ==
  ASSUME SourceTypes, CapInv, NEW r, log' = log \union {r}, serves' = serves,
         Owed' \subseteq Owed, r.ok => \E y \in Owed : y \notin Owed'
  PROVE  CapInv'
<1>1. Serving("google")' = Serving("google")
  BY DEF Serving
<1>2. IsFiniteSet(Succeeded) /\ Cardinality(Succeeded) \in Nat
  <2>1. Succeeded \subseteq log /\ IsFiniteSet(log)
    BY DEF Succeeded, SourceTypes
  <2> QED BY <2>1, CountKept
<1>3. /\ IsFiniteSet(Owed) /\ Cardinality(Owed') \in Nat /\ Cardinality(Owed) \in Nat
      /\ Cardinality(Owed') <= Cardinality(Owed)
  BY OwedFinite, CountKept
<1>4. Cardinality(Serving("google")) * RequestCap \in Nat
  BY ServingFinite, SourceConstants
<1>5. CASE ~r.ok
  <2>1. Succeeded' = Succeeded
    BY <1>5 DEF Succeeded
  <2> QED BY <1>1, <1>2, <1>3, <1>4, <2>1 DEF CapInv
<1>6. CASE r.ok
  <2>1. /\ Cardinality(Succeeded') \in Nat
        /\ Cardinality(Succeeded') <= Cardinality(Succeeded) + 1
    <3>1. Succeeded' \subseteq Succeeded \union {r}
      BY DEF Succeeded
    <3>2. /\ IsFiniteSet(Succeeded \union {r})
          /\ Cardinality(Succeeded \union {r}) <= Cardinality(Succeeded) + 1
      BY <1>2, FS_AddElement
    <3>3. /\ Cardinality(Succeeded') \in Nat /\ Cardinality(Succeeded \union {r}) \in Nat
          /\ Cardinality(Succeeded') <= Cardinality(Succeeded \union {r})
      BY <3>1, <3>2, CountKept
    <3> QED BY <1>2, <3>2, <3>3
  <2>2. PICK y \in Owed : y \notin Owed'
    BY <1>6
  <2>3. IsFiniteSet(Owed \ {y}) /\ Cardinality(Owed \ {y}) = Cardinality(Owed) - 1
    BY <1>3, <2>2, FS_RemoveElement
  <2>4. Cardinality(Owed') <= Cardinality(Owed \ {y})
    <3>1. Owed' \subseteq Owed \ {y}
      BY <2>2
    <3> QED BY <2>3, <3>1, CountKept
  <2> QED BY <1>1, <1>2, <1>3, <1>4, <2>1, <2>3, <2>4 DEF CapInv
<1> QED BY <1>5, <1>6

(* Searches share the cap: a plan fits in what one of them found left.     *)
LEMMA ShareOfCap ==
  ASSUME NEW l \in Nat, NEW n \in Nat, NEW g \in Nat \ {0}, NEW c \in Nat, l + n <= c
  PROVE  l + g * n <= g * c
<1>1. g * n = n + (g - 1) * n /\ g * c = c + (g - 1) * c
  OBVIOUS
<1>2. (g - 1) * n <= (g - 1) * c
  <2>1. (g - 1) * (c - n) \in Nat
    <3>1. g - 1 \in Nat /\ c - n \in Nat
      OBVIOUS
    <3>2. \A a, b \in Nat : a * b \in Nat
      OBVIOUS
    <3> QED BY <3>1, <3>2
  <2>2. (g - 1) * c = (g - 1) * n + (g - 1) * (c - n)
    OBVIOUS
  <2>3. (g - 1) * c \in Int /\ (g - 1) * n \in Int
    OBVIOUS
  <2> QED BY <2>1, <2>2, <2>3
<1>3. (g - 1) * n \in Int /\ (g - 1) * c \in Int
  OBVIOUS
<1> QED BY <1>1, <1>2, <1>3

LEMMA SearchStep ==
  ASSUME SourcesInv, NEW p \in Procs, Search(p)
  PROVE  SourcesInv'
<1> DEFINE t == clock + 1
           k1 == [NoJob EXCEPT !.left = Remaining, !.at = t]
<1>1. /\ where[p] = "idle" /\ serves[p] = "google" /\ UNCHANGED <<google, apify>> /\ Static
      /\ UNCHANGED filed /\ Move(p, "open", k1) /\ clock' = t /\ clock < MaxClock
      /\ Cardinality(Planned) <= Remaining
  BY DEF Search
<1>2. log' = log /\ druns' = druns /\ SourceTypes
  BY <1>1 DEF google, SourcesInv
<1>3. RowsInv' /\ CandKept
  BY <1>1, FiledStays DEF SourcesInv
<1>4. IsFiniteSet(log) /\ Cardinality(log) \in Nat
  BY <1>2, CountKept DEF SourceTypes
<1>5. /\ Remaining \in 0..RequestCap
      /\ Cardinality(log) + Cardinality(Planned) <= RequestCap
  <2>1. Cardinality(Planned) \in Nat /\ Cardinality(Planned) # 0
    BY PlannedFinite, FS_EmptySet
  <2> QED BY SMTT(40), <1>1, <1>4, <2>1, SourceConstants DEF Remaining
<1>6. t \in Nat /\ t \in 0..MaxClock
  BY SMTT(40), <1>1, <1>2, SourceConstants DEF SourceTypes
<1> HIDE DEF t
<1>7. k1 \in SourceJobs /\ k1.id = 0 /\ k1.query = 1
  BY <1>5, <1>6, NoSourceJob DEF SourceJobs, NoJob
<1> HIDE DEF k1
<1>8. PICK k \in SourceJobs : k = k1
  BY <1>7
<1>9. SearchSound("open", k)' /\ Located("open", k, serves[p])
  BY <1>1, <1>7, <1>8 DEF SearchSound, SearchPcs, Located
<1>10. log' \subseteq RequestRows /\ IsFiniteSet(log') /\ clock' \in 0..MaxClock
       /\ druns' \in Seq(SearchStates)
  BY <1>1, <1>2, <1>6 DEF SourceTypes
<1>11. where[p] \notin ApifyPcs
  BY <1>1 DEF ApifyPcs
<1>12. SearchKeepsInv /\ serves' = serves
  BY <1>1, <1>2, <1>3, <1>8, <1>9, <1>10, <1>11, SearchMoves
<1>13. CapInv'
  <2> DEFINE G == Cardinality(Serving("google"))
             N == Cardinality(Planned)
  <2>1. Serving("google")' = Serving("google") /\ Succeeded' = Succeeded
    BY <1>2, <1>12 DEF Serving, Succeeded
  <2>2. G \in Nat \ {0}
    <3>1. p \in Serving("google")
      BY <1>1 DEF Serving
    <3> QED BY <3>1, ServingFinite, FS_EmptySet
  <2>3. Cardinality(Owed') \in Nat /\ Cardinality(Owed') <= G * N
    <3>1. Owed' \subseteq Serving("google") \X Planned
      BY <2>1 DEF Owed
    <3>2. /\ IsFiniteSet(Serving("google") \X Planned)
          /\ Cardinality(Serving("google") \X Planned) = G * N
      BY ServingFinite, PlannedFinite, FS_Product
    <3> QED BY <3>1, <3>2, CountKept
  <2>4. Cardinality(Succeeded) \in Nat /\ Cardinality(Succeeded) <= Cardinality(log)
    <3>1. Succeeded \subseteq log
      BY DEF Succeeded
    <3> QED BY <1>4, <3>1, CountKept
  <2>5. N \in Nat /\ RequestCap \in Nat
    BY PlannedFinite, SourceConstants
  <2> HIDE DEF G, N
  <2>6. Cardinality(log) + G * N <= G * RequestCap
    BY <1>4, <1>5, <2>2, <2>5, ShareOfCap DEF N
  <2>7. G * N \in Nat /\ G * RequestCap \in Nat
    BY <2>2, <2>5
  <2>8. Cardinality(Succeeded) + Cardinality(Owed') <= G * RequestCap
    BY <1>4, <2>3, <2>4, <2>6, <2>7
  <2> QED BY <2>1, <2>8 DEF CapInv, G
<1>14. CompletedMeansWholePlan' /\ LogSound'
  BY <1>2, <1>3, CompletedKept DEF SourcesInv, LogSound
<1> QED BY <1>12, <1>13, <1>14 DEF SearchKeepsInv, SourcesInv

(* A request, whatever comes of it: its row is in the log, and a page that *)
(* came is not asked for again.                                            *)
LEMMA AskKeeps ==
  ASSUME SourcesInv, NEW p \in Procs, where[p] = "page", NEW r \in RequestRows,
         r.run = job[p].id, r.query = job[p].query, log' = log \union {r},
         UNCHANGED <<filed, druns, apify, clock>>, Static,
         NEW w \in SearchPcs, NEW k \in SourceJobs, Move(p, w, k),
         SearchSound(w, k)',
         \A x \in Planned : Ahead(w, k, x) => Ahead("page", job[p], x),
         r.ok => \A x \in Planned :
                   x[1] = job[p].query /\ x[2] = job[p].page => ~Ahead(w, k, x)
  PROVE  SourcesInv'
<1> DEFINE j == job[p]
<1>1. /\ serves[p] = "google" /\ where[p] \notin ApifyPcs /\ j \in SourceJobs
      /\ SearchSound("page", j) /\ SourceTypes
  BY SearchIs DEF SearchPcs
<1>2. /\ j.id \in DOMAIN druns /\ j.query \in DOMAIN Plan /\ j.page \in 1..Plan[j.query]
  BY <1>1 DEF SearchSound, SearchPcs
<1>3. RowsInv' /\ CandKept
  BY FiledStays DEF SourcesInv
<1>4. log' \subseteq RequestRows /\ IsFiniteSet(log') /\ log \subseteq log'
      /\ druns' = druns /\ druns' \in Seq(SearchStates) /\ clock' \in 0..MaxClock
  BY <1>1, FS_AddElement DEF SourceTypes
<1>5. Located(w, k, serves[p]) /\ w \in {"idle", "open"} \union SearchPcs
  BY <1>1 DEF Located, SearchPcs
<1>6. /\ SearchKeepsInv
      /\ Others(p) /\ where'[p] = w /\ job'[p] = k /\ serves' = serves
  BY <1>1, <1>3, <1>4, <1>5, SearchMoves
<1>7. Owed' \subseteq Owed
  BY <1>1, <1>6, OwedKept
<1>8. r.ok => \E y \in Owed : y \notin Owed'
  <2> SUFFICES ASSUME r.ok PROVE \E y \in Owed : y \notin Owed'
    OBVIOUS
  <2> DEFINE x == <<j.query, j.page>>
  <2>1. x \in Planned /\ x[1] = j.query /\ x[2] = j.page
    BY <1>2, PlannedFinite
  <2>2. j.page >= j.page
    <3>1. j.page \in Nat
      BY <1>1 DEF SourceJobs
    <3> QED BY <3>1
  <2>3. Ahead("page", j, x) /\ ~Ahead(w, k, x)
    BY <2>1, <2>2 DEF Ahead
  <2> HIDE DEF x
  <2>4. <<p, x>> \in Owed
    BY <1>1, <2>1, <2>3 DEF Owed, Serving
  <2>5. <<p, x>> \notin Owed'
    BY <1>6, <2>1, <2>3 DEF Owed
  <2> QED BY <2>4, <2>5
<1>9. CapInv'
  BY <1>1, <1>6, <1>7, <1>8, CapAsked DEF SourcesInv
<1>10. CompletedMeansWholePlan'
  BY <1>3, <1>4, CompletedKept DEF SourcesInv
<1>11. LogSound'
  BY <1>2, <1>4 DEF SourcesInv, LogSound
<1> QED BY <1>6, <1>9, <1>10, <1>11 DEF SearchKeepsInv, SourcesInv

(* The records of a page come after those found so far.                    *)
LEMMA PageFound ==
  ASSUME NEW found \in Seq(Imports), NEW new \in Seq(Imports)
  PROVE  found \o new \in Seq(Imports) /\ ToSet(new) \subseteq ToSet(found \o new)
<1> DEFINE all == found \o new
           l == Len(found)
           n == Len(new)
<1>1. /\ all \in Seq(Imports) /\ Len(all) = l + n
      /\ \A i \in 1..(l + n) : all[i] = IF i <= l THEN found[i] ELSE new[i - l]
  BY ConcatProperties
<1>2. l \in Nat /\ n \in Nat /\ DOMAIN new = 1..n /\ DOMAIN all = 1..(l + n)
  BY <1>1, LenProperties
<1> HIDE DEF all, l, n
<1>3. ASSUME NEW i \in DOMAIN new PROVE \E m \in DOMAIN all : all[m] = new[i]
  <2>1. l + i \in 1..(l + n) /\ ~(l + i <= l) /\ (l + i) - l = i
    BY <1>2, <1>3
  <2>2. all[l + i] = new[i]
    BY <1>1, <2>1
  <2> QED BY <1>2, <2>1, <2>2
<1>4. ToSet(new) \subseteq ToSet(all)
  BY <1>3 DEF ToSet
<1> QED BY <1>1, <1>4 DEF all

LEMMA RequestStep ==
  ASSUME SourcesInv, NEW p \in Procs, NEW answer \in PageAnswers, Request(p, answer)
  PROVE  SourcesInv'
<1> DEFINE j == job[p]
           r == LogRow(j, answer)
           s == j.spent + j.attempts + 1
           found == j.found \o Places[j.query]
           next == j.page + 1
           kp == [j EXCEPT !.spent = s, !.attempts = 0, !.found = found, !.page = next]
<1>1. /\ where[p] = "page" /\ log' = log \union {r}
      /\ UNCHANGED <<filed, druns, apify, clock>> /\ Static
  BY DEF Request
<1>2. /\ j \in SourceJobs /\ SearchSound("page", j) /\ SourceTypes
  BY <1>1, SearchIs DEF SearchPcs
<1>3. /\ j.id \in DOMAIN druns /\ j.query \in DOMAIN Plan /\ j.page \in 1..Plan[j.query]
      /\ ~j.failed => WholePlan(j.id, j.query)
      /\ j.query \in 1..(Len(Plan) + 1)
  BY <1>2 DEF SearchSound, SearchPcs
<1>4. /\ j.id \in Nat /\ j.query \in Nat /\ j.page \in Nat /\ j.spent \in Nat
      /\ j.attempts \in Nat /\ j.total \in Nat /\ j.found \in Seq(Imports)
      /\ Plan[j.query] \in Nat /\ Places[j.query] \in Seq(Imports)
  <2>1. /\ j.id \in Nat /\ j.query \in Nat /\ j.page \in Nat /\ j.spent \in Nat
        /\ j.attempts \in 0..MaxRetries /\ j.total \in Nat /\ j.found \in Seq(Imports)
    BY <1>2 DEF SourceJobs
  <2>2. Plan[j.query] \in Nat /\ Places[j.query] \in Seq(Imports)
    BY <1>3, SourceConstants
  <2> QED BY <2>1, <2>2, SourceConstants
<1>5. /\ r \in RequestRows /\ r.run = j.id /\ r.query = j.query
      /\ r.ok <=> answer \in Pages
  <2> DEFINE ok == answer \in Pages
             equal == {a \in log : a.run = j.id /\ a.query = j.query /\ a.ok = ok}
  <2>1. Cardinality(equal) + 1 \in Nat
    <3>1. equal \subseteq log /\ IsFiniteSet(log)
      BY <1>2 DEF SourceTypes
    <3>2. Cardinality(equal) \in Nat
      BY <3>1, CountKept
    <3> QED BY <3>2
  <2>2. r = [run |-> j.id, query |-> j.query, ok |-> ok, number |-> Cardinality(equal) + 1]
    BY DEF LogRow
  <2> HIDE DEF equal, r
  <2>3. ok \in BOOLEAN
    OBVIOUS
  <2> QED BY <1>4, <2>1, <2>2, <2>3 DEF RequestRows
<1> HIDE DEF r
<1>6. /\ cand' = cand /\ druns' = druns /\ \A b, q : Asked(b, q) => Asked(b, q)'
  BY <1>1 DEF filed, Asked
<1>7. \A b, q : WholePlan(b, q) => WholePlan(b, q)'
  BY <1>6 DEF WholePlan, AllFiled
<1>8. \A x \in Planned : x[1] \in Nat /\ x[2] \in Nat
  BY PlannedFinite, SourceConstants
<1>9. {"page", "ingest", "query"} \subseteq SearchPcs
  BY DEF SearchPcs
<1>10. CASE answer \in Pages
  <2>1. /\ found \in Seq(Imports) /\ ToSet(Places[j.query]) \subseteq ToSet(found)
        /\ s \in Nat /\ next \in Nat /\ 0 \in 0..MaxRetries
    <3>1. found \in Seq(Imports) /\ ToSet(Places[j.query]) \subseteq ToSet(found)
      BY <1>4, PageFound
    <3>2. j.spent \in Nat /\ j.attempts \in Nat /\ j.page \in Nat
      BY <1>4
    <3>3. s \in Nat /\ next \in Nat
      BY <3>2
    <3>4. 0 \in 0..MaxRetries
      BY SourceConstants
    <3> QED BY <3>1, <3>3, <3>4
  <2>2. IF answer = "more" /\ j.page < Plan[j.query] THEN Move(p, "page", kp)
        ELSE Move(p, "ingest", [kp EXCEPT !.total = @ + kp.spent, !.spent = 0])
    BY <1>10 DEF Request
  <2>3. next > j.page /\ (j.page < Plan[j.query] => next \in 1..Plan[j.query])
    BY <1>4
  <2> HIDE DEF found, s, next
  <2>4. /\ kp \in SourceJobs /\ kp.id = j.id /\ kp.query = j.query /\ kp.failed = j.failed
        /\ kp.page = next /\ kp.found = found /\ kp.total \in Nat /\ kp.spent \in Nat
    BY <1>2, <2>1 DEF SourceJobs
  <2> HIDE DEF kp
  <2>5. CASE answer = "more" /\ j.page < Plan[j.query]
    <3>1. PICK k \in SourceJobs : k = kp
      BY <2>4
    <3>2. SearchSound("page", k)'
      BY <1>3, <1>6, <1>7, <2>3, <2>4, <2>5, <3>1 DEF SearchSound
    <3>3. ASSUME NEW x \in Planned
          PROVE  /\ Ahead("page", k, x) => Ahead("page", j, x)
                 /\ x[1] = j.query /\ x[2] = j.page => ~Ahead("page", k, x)
      <4>1. x[1] \in Nat /\ x[2] \in Nat /\ k.page = next /\ k.query = j.query /\ next \in Nat
        BY <1>8, <2>1, <2>4, <3>1
      <4> QED BY <1>4, <2>3, <4>1 DEF Ahead
    <3>4. Move(p, "page", k)
      BY <2>2, <2>5, <3>1
    <3> QED BY <1>1, <1>5, <1>9, <3>2, <3>3, <3>4, AskKeeps
  <2>6. CASE ~(answer = "more" /\ j.page < Plan[j.query])
    <3> DEFINE m == kp.total + kp.spent
               ki == [kp EXCEPT !.total = m, !.spent = 0]
    <3>1. m \in Nat
      BY <2>4
    <3>2. Move(p, "ingest", ki)
      BY <2>2, <2>6
    <3> HIDE DEF m
    <3>3. /\ ki \in SourceJobs /\ ki.id = j.id /\ ki.query = j.query /\ ki.failed = j.failed
          /\ ki.found = found
      BY <2>4, <3>1 DEF SourceJobs
    <3> HIDE DEF ki
    <3>4. PICK k \in SourceJobs : k = ki
      BY <3>3
    <3>5. Asked(k.id, k.query)'
      BY <1>1, <1>5, <1>10, <3>3, <3>4 DEF Asked
    <3>6. Underway(Places[k.query], k.found)'
      BY <2>1, <3>3, <3>4 DEF Underway
    <3>7. ~k.failed => WholePlan(k.id, k.query)'
      BY <1>3, <1>7, <3>3, <3>4, <2>4
    <3>8. SearchSound("ingest", k)'
      BY <1>3, <1>6, <3>3, <3>4, <3>5, <3>6, <3>7 DEF SearchSound
    <3>9. ASSUME NEW x \in Planned
          PROVE  /\ Ahead("ingest", k, x) => Ahead("page", j, x)
                 /\ x[1] = j.query /\ x[2] = j.page => ~Ahead("ingest", k, x)
      BY <1>4, <1>8, <3>3, <3>4 DEF Ahead
    <3> QED BY <1>1, <1>5, <1>9, <3>2, <3>4, <3>8, <3>9, AskKeeps
  <2> QED BY <2>5, <2>6
<1>11. CASE answer \notin Pages /\ Retry(j, answer)
  <2> DEFINE m == j.attempts + 1
             kr == [j EXCEPT !.attempts = m]
  <2>1. m \in 0..MaxRetries
    BY SMTT(40), <1>4, <1>11, SourceConstants DEF Retry
  <2>2. Move(p, "page", kr)
    BY <1>11 DEF Request
  <2> HIDE DEF m
  <2>3. /\ kr \in SourceJobs /\ kr.id = j.id /\ kr.query = j.query /\ kr.failed = j.failed
        /\ kr.page = j.page
    BY <1>2, <2>1 DEF SourceJobs
  <2> HIDE DEF kr
  <2>4. PICK k \in SourceJobs : k = kr
    BY <2>3
  <2>5. SearchSound("page", k)'
    BY <1>3, <1>6, <1>7, <2>3, <2>4 DEF SearchSound
  <2>6. \A x \in Planned : Ahead("page", k, x) => Ahead("page", j, x)
    BY <2>3, <2>4 DEF Ahead
  <2> QED BY <1>1, <1>5, <1>9, <1>11, <2>2, <2>4, <2>5, <2>6, AskKeeps
<1>12. CASE answer \notin Pages /\ ~Retry(j, answer)
  <2> DEFINE m == j.query + 1
             kg == [j EXCEPT !.query = m, !.found = << >>, !.failed = TRUE]
  <2>1. m \in Nat /\ m \in 1..(Len(Plan) + 1) /\ << >> \in Seq(Imports)
    BY SMTT(40), <1>3, <1>4, SourceConstants, EmptySeq
  <2>2. Move(p, "query", kg)
    BY <1>12 DEF Request, GiveUp
  <2>3. \A x \in Planned : x[1] >= m => x[1] > j.query
    BY <1>4, <1>8
  <2> HIDE DEF m
  <2>4. /\ kg \in SourceJobs /\ kg.id = j.id /\ kg.query = m /\ kg.failed
    BY <1>2, <2>1 DEF SourceJobs
  <2> HIDE DEF kg
  <2>5. PICK k \in SourceJobs : k = kg
    BY <2>4
  <2>6. SearchSound("query", k)'
    BY <1>3, <1>6, <2>1, <2>4, <2>5 DEF SearchSound
  <2>7. \A x \in Planned : Ahead("query", k, x) => Ahead("page", j, x)
    BY <2>3, <2>4, <2>5 DEF Ahead
  <2> QED BY <1>1, <1>5, <1>9, <1>12, <2>2, <2>5, <2>6, <2>7, AskKeeps
<1> QED BY <1>10, <1>11, <1>12

-----------------------------------------------------------------------------
(* Actor runs. *)

(* What a step of an actor's process keeps of the invariant: all but what  *)
(* is said of the rows of actor runs and of their number.                  *)
LEMMA ActorMoves ==
  ASSUME SourcesInv, NEW p \in Procs, where[p] \notin SearchPcs \union {"open"},
         NEW w \in {"idle"} \union ApifyPcs, NEW k \in SourceJobs,
         Move(p, w, k), UNCHANGED google, Static, clock' \in 0..MaxClock,
         RowsInv', CandKept,
         remote' \in Seq(ActorStates), rowOf' \in Seq(ActorRows \union {None}),
         Len(remote') = Len(rowOf'), unheard' \in 0..Len(remote'),
         DOMAIN rowOf \subseteq DOMAIN rowOf', Recorded \subseteq Recorded',
         \A i \in DOMAIN remote : remote'[i] = remote[i],
         \A q \in Procs : q # p /\ where[q] = "record" => rowOf'[job[q].id] = None,
         ActorSound(w, k)', Located(w, k, serves[p])
  PROVE  /\ SourceTypes' /\ LogSound' /\ CallsSound' /\ CompletedMeansWholePlan' /\ CapInv'
         /\ Others(p) /\ where'[p] = w /\ job'[p] = k /\ serves' = serves
         /\ w # "record" => OwnRuns'
<1>1. w \in SourcePcs /\ SourceTypes /\ w \notin SearchPcs \union {"open"}
  BY DEF SourcePcs, SourcesInv, ApifyPcs, SearchPcs
<1>2. /\ where' \in [Procs -> SourcePcs] /\ job' \in [Procs -> SourceJobs]
      /\ where'[p] = w /\ job'[p] = k /\ Others(p)
  BY <1>1, MoveIs DEF Others
<1>3. /\ log' = log /\ druns' = druns /\ live' = live /\ serves' = serves /\ deaths' = deaths
  BY DEF google, Static
<1>4. SourceTypes'
  BY <1>1, <1>2, <1>3 DEF SourceTypes
<1>5. /\ CapInv' /\ CompletedMeansWholePlan' /\ LogSound'
  BY <1>1, <1>2, <1>3, <1>4, ActorKeeps
<1>6. Evolves
  <2>1. DOMAIN remote \subseteq DOMAIN remote'
    <3>1. /\ DOMAIN remote = 1..Len(remote) /\ DOMAIN rowOf = 1..Len(rowOf)
          /\ Len(remote) = Len(rowOf)
      BY <1>1, LenProperties DEF SourceTypes
    <3>2. /\ DOMAIN remote' = 1..Len(remote') /\ DOMAIN rowOf' = 1..Len(rowOf')
      BY LenProperties
    <3> QED BY <3>1, <3>2
  <2> QED BY <1>3, <2>1 DEF Evolves
<1>7. SearchSound(w, k)'
  BY <1>1 DEF SearchSound
<1>8. CallsSound'
  BY <1>1, <1>2, <1>3, <1>4, <1>6, <1>7, CallsKept DEF SourcesInv
<1>9. w # "record" => OwnRuns'
  <2> SUFFICES ASSUME w # "record" PROVE OwnRuns'
    OBVIOUS
  <2>1. \A q \in Procs : where'[q] = "record" =>
          q # p /\ where[q] = "record" /\ job'[q] = job[q]
    BY <1>2 DEF Others
  <2> QED BY <2>1 DEF OwnRuns, SourcesInv
<1> QED BY <1>2, <1>3, <1>4, <1>5, <1>8, <1>9

(* A step that leaves the runs and their rows as they are.                 *)
LEMMA ActorGoesOn ==
  ASSUME SourcesInv, NEW p \in Procs, where[p] \notin SearchPcs \union {"open"},
         NEW w \in {"idle"} \union ApifyPcs, w # "record", NEW k \in SourceJobs,
         Move(p, w, k), UNCHANGED <<google, apify>>, Static, clock' \in 0..MaxClock,
         RowsInv', CandKept, ActorSound(w, k)', Located(w, k, serves[p])
  PROVE  /\ SourceTypes' /\ Others(p) /\ where'[p] = w /\ serves' = serves /\ deaths' = deaths
         /\ RunsInv' => SourcesInv'
<1>1. SourceTypes
  BY DEF SourcesInv
<1>2. /\ remote' = remote /\ rowOf' = rowOf /\ unheard' = unheard /\ Recorded' = Recorded
      /\ deaths' = deaths
  BY DEF apify, Recorded, Static
<1>3. /\ remote \in Seq(ActorStates) /\ rowOf \in Seq(ActorRows \union {None})
      /\ Len(remote) = Len(rowOf) /\ unheard \in 0..Len(remote)
  BY <1>1 DEF SourceTypes
<1>4. \A q \in Procs : q # p /\ where[q] = "record" => rowOf'[job[q].id] = None
  BY <1>2 DEF SourcesInv, CallsSound, ActorSound
<1>5. /\ SourceTypes' /\ LogSound' /\ CallsSound' /\ CompletedMeansWholePlan' /\ CapInv'
      /\ Others(p) /\ where'[p] = w /\ serves' = serves /\ OwnRuns'
  BY <1>2, <1>3, <1>4, ActorMoves
<1>6. ActorRowsSound'
  BY <1>2 DEF SourcesInv, ActorRowsSound, Behind
<1>7. FetchedInv'
  <2>1. AllFiled(Data) => AllFiled(Data)'
    BY FiledKept, SourceConstants
  <2> QED BY <1>2, <2>1 DEF FetchedInv, SourcesInv
<1> QED BY <1>2, <1>5, <1>6, <1>7 DEF SourcesInv

(* ... by a process that is not about to start a run.                      *)
LEMMA NoStart ==
  ASSUME SourcesInv, SourceTypes', NEW p \in Procs, Others(p),
         UNCHANGED <<serves, unheard, deaths>>,
         remote' = remote, Recorded' = Recorded, DOMAIN rowOf' = DOMAIN rowOf,
         where[p] # "record", where'[p] \notin {"start", "record"}
  PROVE  RunsInv'
<1>1. Starting' \subseteq Starting /\ Recording' = Recording
  <2>1. \A q \in Procs :
          /\ where'[q] \in {"start", "record"} => where[q] \in {"start", "record"}
          /\ where'[q] = "record" <=> where[q] = "record"
    BY DEF Others
  <2> QED BY <2>1 DEF Starting, Recording
<1>2. LiveRuns' \subseteq LiveRuns
  BY DEF LiveRuns
<1> QED BY <1>1, <1>2, RunsKept DEF SourcesInv

LEMMA IdleActor ==
  ASSUME SourcesInv, NEW p \in Procs
  PROVE  /\ where[p] = "idle" => where[p] \notin SearchPcs \union {"open"}
         /\ where[p] \in ApifyPcs =>
              where[p] \notin SearchPcs \union {"open"} /\ serves[p] = "apify"
         /\ job[p] \in SourceJobs /\ ActorSound(where[p], job[p])
         /\ SourceTypes /\ RowsInv /\ clock \in 0..MaxClock
         /\ DOMAIN rowOf = 1..Len(rowOf) /\ DOMAIN remote = DOMAIN rowOf
         /\ Recorded \subseteq DOMAIN rowOf
         /\ \A i \in DOMAIN remote : remote[i] \in ActorStates
         /\ \A i \in Recorded : rowOf[i] \in ActorRows
<1>1. SourceTypes /\ RowsInv /\ CallsSound
  BY DEF SourcesInv
<1>2. /\ DOMAIN rowOf = 1..Len(rowOf) /\ DOMAIN remote = DOMAIN rowOf
      /\ \A i \in 1..Len(remote) : remote[i] \in ActorStates
      /\ \A i \in 1..Len(rowOf) : rowOf[i] \in ActorRows \union {None}
      /\ Len(remote) = Len(rowOf)
  BY <1>1, LenProperties, ElementOfSeq DEF SourceTypes
<1>3. \A i \in Recorded : i \in DOMAIN rowOf /\ rowOf[i] \in ActorRows
  BY <1>2 DEF Recorded
<1>4. /\ job[p] \in SourceJobs /\ ActorSound(where[p], job[p]) /\ clock \in 0..MaxClock
      /\ where[p] \in ApifyPcs => serves[p] = "apify"
  BY <1>1 DEF SourceTypes, CallsSound, ApifyPcs
<1> QED BY <1>1, <1>2, <1>3, <1>4 DEF ApifyPcs, SearchPcs

LEMMA PollStep ==
  ASSUME SourcesInv, NEW p \in Procs, NEW i \in DOMAIN remote, Poll(p, i)
  PROVE  SourcesInv'
<1>0. PICK state \in {remote[i], "RUNNING"} :
        Move(p, "write", [NoJob EXCEPT !.id = i, !.got = state])
  BY DEF Poll
<1> DEFINE k1 == [NoJob EXCEPT !.id = i, !.got = state]
<1>1. /\ serves[p] = "apify" /\ where[p] = "idle" /\ i \in Recorded
      /\ Move(p, "write", k1) /\ UNCHANGED <<filed, google, apify, clock>> /\ Static
  BY <1>0 DEF Poll, InProgress
<1>2. RowsInv' /\ CandKept
  BY <1>1, FiledStays DEF SourcesInv
<1>3. /\ where[p] \notin SearchPcs \union {"open"} /\ i \in DOMAIN rowOf /\ i \in Nat
      /\ state \in ActorStates /\ clock' \in 0..MaxClock /\ "write" \in ApifyPcs
  BY <1>0, <1>1, IdleActor DEF ApifyPcs, ActorStates
<1>4. k1 \in SourceJobs /\ k1.id = i /\ k1.got = state
  BY <1>3, NoSourceJob DEF SourceJobs, NoJob
<1> HIDE DEF k1
<1>5. PICK k \in SourceJobs : k = k1
  BY <1>4
<1>6. remote' = remote /\ rowOf' = rowOf /\ Recorded' = Recorded /\ unheard' = unheard
  BY <1>1 DEF apify, Recorded
<1>7. ActorSound("write", k)' /\ Located("write", k, serves[p])
  BY <1>0, <1>1, <1>3, <1>4, <1>5, <1>6 DEF ActorSound, Behind, Located, SearchPcs
<1>8. /\ SourceTypes' /\ Others(p) /\ where'[p] = "write" /\ serves' = serves
      /\ deaths' = deaths
      /\ RunsInv' => SourcesInv'
  BY <1>1, <1>2, <1>3, <1>5, <1>7, ActorGoesOn
<1> QED BY <1>1, <1>6, <1>8, NoStart

LEMMA FetchStep ==
  ASSUME SourcesInv, NEW p \in Procs, NEW i \in DOMAIN remote, Fetch(p, i)
  PROVE  SourcesInv'
<1>0. PICK records \in {Data, << >>} :
        Move(p, "fetch", [NoJob EXCEPT !.id = i, !.found = records, !.at = clock + 1,
                                       !.items = Len(records)])
  BY DEF Fetch
<1> DEFINE t == clock + 1
           m == Len(records)
           k1 == [NoJob EXCEPT !.id = i, !.found = records, !.at = t, !.items = m]
<1>1. /\ serves[p] = "apify" /\ where[p] = "idle" /\ i \in Recorded
      /\ rowOf[i].state = "SUCCEEDED" /\ clock < MaxClock /\ clock' = t
      /\ Move(p, "fetch", k1) /\ UNCHANGED <<filed, google, apify>> /\ Static
  BY <1>0 DEF Fetch, Fetchable
<1>2. RowsInv' /\ CandKept
  BY <1>1, FiledStays DEF SourcesInv
<1>3. /\ where[p] \notin SearchPcs \union {"open"} /\ i \in DOMAIN rowOf /\ i \in Nat
      /\ clock \in 0..MaxClock /\ "fetch" \in ApifyPcs
  BY <1>1, IdleActor DEF ApifyPcs
<1>4. t \in Nat /\ t \in 0..MaxClock
  BY <1>1, <1>3, SourceConstants
<1>13. records \in Seq(Imports) /\ m \in Nat /\ (m # 0 => records = Data)
  <2>1. CASE records = Data
    <3>1. Data \in Seq(Imports) /\ Len(Data) \in Nat
      BY SourceConstants, LenProperties
    <3> QED BY <2>1, <3>1
  <2>2. CASE records = << >>
    BY <2>2, EmptySeq
  <2> QED BY <1>0, <2>1, <2>2
<1> HIDE DEF t, m
<1>5. k1 \in SourceJobs /\ k1.id = i /\ k1.found = records /\ k1.items = m
  <2>1. records \in Seq(Imports) /\ m \in Nat
    BY <1>13
  <2> QED BY <1>3, <1>4, <2>1, NoSourceJob DEF SourceJobs, NoJob
<1> HIDE DEF k1
<1>6. PICK k \in SourceJobs : k = k1
  BY <1>5
<1>7. remote' = remote /\ rowOf' = rowOf /\ Recorded' = Recorded /\ unheard' = unheard
  BY <1>1 DEF apify, Recorded
<1>8. remote[i] = "SUCCEEDED"
  BY <1>1 DEF SourcesInv, ActorRowsSound, Behind
<1>9. ActorSound("fetch", k)' /\ Located("fetch", k, serves[p])
  BY <1>1, <1>5, <1>13, <1>6, <1>7, <1>8 DEF ActorSound, Located, SearchPcs, Underway
<1>10. /\ SourceTypes' /\ Others(p) /\ where'[p] = "fetch" /\ serves' = serves
       /\ deaths' = deaths
       /\ RunsInv' => SourcesInv'
  BY <1>1, <1>2, <1>3, <1>4, <1>6, <1>9, ActorGoesOn
<1>11. /\ remote' = remote /\ Recorded' = Recorded /\ DOMAIN rowOf' = DOMAIN rowOf
       /\ UNCHANGED <<serves, unheard, deaths>> /\ where[p] # "record"
       /\ where'[p] \notin {"start", "record"}
  BY <1>1, <1>7, <1>10
<1>12. RunsInv'
  BY <1>10, <1>11, NoStart
<1> QED BY <1>10, <1>12

LEMMA StartStep ==
  ASSUME SourcesInv, NEW p \in Procs, Start(p)
  PROVE  SourcesInv'
<1>1. /\ serves[p] = "apify" /\ where[p] = "idle" /\ RunGate
      /\ Move(p, "start", NoJob) /\ UNCHANGED <<filed, google, apify, clock>> /\ Static
  BY DEF Start
<1>2. RowsInv' /\ CandKept
  BY <1>1, FiledStays DEF SourcesInv
<1>3. /\ where[p] \notin SearchPcs \union {"open"} /\ clock' \in 0..MaxClock
      /\ "start" \in ApifyPcs /\ NoJob \in SourceJobs
  BY <1>1, IdleActor, NoSourceJob DEF ApifyPcs
<1>4. remote' = remote /\ rowOf' = rowOf /\ Recorded' = Recorded /\ unheard' = unheard
  BY <1>1 DEF apify, Recorded
<1>5. ActorSound("start", NoJob)' /\ Located("start", NoJob, serves[p])
  BY <1>1 DEF ActorSound, Located, SearchPcs, NoJob
<1>6. /\ SourceTypes' /\ Others(p) /\ where'[p] = "start" /\ serves' = serves
      /\ deaths' = deaths
      /\ RunsInv' => SourcesInv'
  BY <1>1, <1>2, <1>3, <1>5, ActorGoesOn
<1>7. SourceTypes /\ RunsInv /\ CallsSound /\ ActorRowsSound
  BY DEF SourcesInv
<1>8. /\ Recording' = Recording /\ LiveRuns' = LiveRuns /\ Unrecorded' = Unrecorded
      /\ Serving("apify")' = Serving("apify")
  <2>1. \A q \in Procs : where'[q] = "record" <=> where[q] = "record"
    BY <1>1, <1>6 DEF Others
  <2> QED BY <1>4, <1>6, <2>1 DEF Recording, LiveRuns, Unrecorded, Serving
<1>9. /\ Cardinality(Starting') \in Nat /\ Cardinality(Serving("apify")) \in Nat
      /\ Cardinality(Starting') <= Cardinality(Serving("apify"))
  <2>1. Starting' \subseteq Serving("apify")
    BY <1>1, <1>6, <1>7 DEF Starting, Serving, CallsSound, Others
  <2> QED BY <2>1, ServingFinite, CountKept
<1>10. /\ Cardinality(LiveRuns) \in Nat /\ Cardinality(InProgress) \in Nat
       /\ Cardinality(LiveRuns) <= Cardinality(InProgress)
  <2>1. LiveRuns \subseteq InProgress /\ InProgress \subseteq Recorded
    BY <1>7 DEF LiveRuns, InProgress, ActorRowsSound, Behind
  <2>2. IsFiniteSet(Recorded)
    BY <1>7, RunSets
  <2>3. IsFiniteSet(InProgress)
    BY <2>1, <2>2, CountKept
  <2> QED BY <2>1, <2>3, CountKept
<1>11. Cardinality(Recorded) \in Nat /\ RunCap \in Nat /\ MaxConcurrent \in Nat
  BY <1>7, RunSets, SourceConstants
<1>12. /\ Cardinality(Recorded) + Cardinality(Starting') < RunCap + Cardinality(Serving("apify"))
       /\ Cardinality(LiveRuns) + Cardinality(Starting')
            < MaxConcurrent + Cardinality(Serving("apify"))
  BY <1>1, <1>9, <1>10, <1>11 DEF RunGate
<1>13. RunsInv'
  BY <1>4, <1>6, <1>7, <1>8, <1>12 DEF RunsInv
<1> QED BY <1>6, <1>13

LEMMA WritePollStep ==
  ASSUME SourcesInv, NEW p \in Procs, WritePoll(p)
  PROVE  SourcesInv'
<1> DEFINE n == job[p].id
           got == job[p].got
           row == [rowOf[n] EXCEPT !.state = got]
<1>1. /\ where[p] = "write" /\ rowOf' = [rowOf EXCEPT ![n].state = got]
      /\ Move(p, "idle", NoJob) /\ UNCHANGED <<filed, google, remote, unheard, clock>> /\ Static
  BY DEF WritePoll, Stop
<1>2. RowsInv' /\ CandKept /\ cand' = cand
  BY <1>1, FiledStays DEF SourcesInv, filed
<1>3. /\ where[p] \notin SearchPcs \union {"open"} /\ clock' \in 0..MaxClock
      /\ SourceTypes /\ n \in Recorded /\ Behind(got, n) /\ NoJob \in SourceJobs
      /\ DOMAIN rowOf = 1..Len(rowOf) /\ DOMAIN remote = DOMAIN rowOf
      /\ Recorded \subseteq DOMAIN rowOf
  BY <1>1, IdleActor, NoSourceJob DEF ApifyPcs, ActorSound
<1>4. /\ got \in ActorStates /\ rowOf[n] \in ActorRows /\ None \notin ActorRows
  BY <1>3, IdleActor, SourceConstants DEF Behind, ActorStates
<1>5. /\ row \in ActorRows /\ row.state = got /\ row.fetched = rowOf[n].fetched /\ row # None
      /\ row.items = rowOf[n].items
  BY <1>4 DEF ActorRows
<1>6. rowOf' = [rowOf EXCEPT ![n] = row]
  BY <1>1
<1> HIDE DEF row
<1>7. /\ rowOf' \in Seq(ActorRows \union {None}) /\ Len(rowOf') = Len(rowOf)
      /\ DOMAIN rowOf' = DOMAIN rowOf /\ rowOf'[n] = row
      /\ \A i \in DOMAIN rowOf : i # n => rowOf'[i] = rowOf[i]
  <2>1. rowOf \in Seq(ActorRows \union {None}) /\ n \in 1..Len(rowOf)
        /\ row \in ActorRows \union {None}
    BY <1>3, <1>5 DEF SourceTypes
  <2> QED BY <1>3, <1>6, <2>1, ExceptSeq
<1>8. Recorded' = Recorded
  BY <1>3, <1>5, <1>7 DEF Recorded
<1>9. \A q \in Procs : q # p /\ where[q] = "record" => rowOf'[job[q].id] = None
  <2> SUFFICES ASSUME NEW q \in Procs, where[q] = "record"
               PROVE  rowOf'[job[q].id] = None
    OBVIOUS
  <2>1. job[q].id \in DOMAIN rowOf /\ rowOf[job[q].id] = None
    BY DEF SourcesInv, CallsSound, ActorSound
  <2>2. job[q].id # n
    BY <1>3, <2>1 DEF Recorded
  <2> QED BY <1>7, <2>1, <2>2
<1>10. ActorSound("idle", NoJob)' /\ Located("idle", NoJob, serves[p])
  BY DEF ActorSound, Located, SearchPcs, NoJob
<1>11. /\ remote \in Seq(ActorStates) /\ Len(remote) = Len(rowOf)
       /\ unheard \in 0..Len(remote) /\ remote' = remote /\ unheard' = unheard
       /\ UNCHANGED google
  BY <1>1, <1>3 DEF SourceTypes
<1>12. /\ SourceTypes' /\ LogSound' /\ CallsSound' /\ CompletedMeansWholePlan' /\ CapInv'
       /\ Others(p) /\ where'[p] = "idle" /\ serves' = serves /\ OwnRuns'
  BY SMTT(30), <1>1, <1>2, <1>3, <1>7, <1>8, <1>9, <1>10, <1>11, ActorMoves
<1>13. ActorRowsSound'
  <2> SUFFICES ASSUME NEW i \in Recorded
               PROVE  rowOf'[i].state = remote[i] \/ rowOf'[i].state = "RUNNING"
    BY <1>8, <1>11 DEF ActorRowsSound, Behind
  <2>1. i = n \/ rowOf'[i] = rowOf[i]
    BY <1>3, <1>7
  <2> QED BY <1>3, <1>5, <1>7, <1>11, <2>1 DEF SourcesInv, ActorRowsSound, Behind
<1>14. FetchedInv'
  <2> SUFFICES ASSUME NEW i \in Recorded, rowOf'[i].fetched
               PROVE  /\ remote'[i] = "SUCCEEDED"
                      /\ rowOf'[i].items # 0 => AllFiled(Data)'
    BY <1>8 DEF FetchedInv
  <2>1. rowOf[i].fetched /\ rowOf'[i].items = rowOf[i].items
    BY <1>3, <1>5, <1>7
  <2> QED BY <1>2, <1>11, <2>1 DEF SourcesInv, FetchedInv, AllFiled
<1>15. deaths' = deaths
  BY <1>1 DEF Static
<1>16. RunsInv'
  BY <1>1, <1>7, <1>8, <1>11, <1>12, <1>15, NoStart
<1> QED BY <1>2, <1>12, <1>13, <1>14, <1>16 DEF SourcesInv

LEMMA RowIs ==
  ASSUME SourceTypes, NEW n \in DOMAIN rowOf, NEW row \in ActorRows,
         rowOf' = [rowOf EXCEPT ![n] = row]
  PROVE  /\ rowOf' \in Seq(ActorRows \union {None}) /\ Len(rowOf') = Len(rowOf)
         /\ DOMAIN rowOf' = DOMAIN rowOf /\ rowOf'[n] = row
         /\ \A i \in DOMAIN rowOf : i # n => rowOf'[i] = rowOf[i]
<1>1. /\ rowOf \in Seq(ActorRows \union {None}) /\ DOMAIN rowOf = 1..Len(rowOf)
      /\ row \in ActorRows \union {None}
  BY LenProperties DEF SourceTypes
<1> QED BY <1>1, ExceptSeq

(* A row of a run is written: nobody else's row, and a run of which        *)
(* nothing false is said.                                                  *)
LEMMA RowWritten ==
  ASSUME SourcesInv, NEW p \in Procs, where[p] \in ApifyPcs,
         NEW n \in DOMAIN rowOf, NEW row \in ActorRows,
         rowOf' \in Seq(ActorRows \union {None}), Len(rowOf') = Len(rowOf),
         DOMAIN rowOf' = DOMAIN rowOf, rowOf'[n] = row,
         \A i \in DOMAIN rowOf : i # n => rowOf'[i] = rowOf[i],
         Move(p, "idle", NoJob), UNCHANGED <<google, remote, unheard, clock>>, Static,
         RowsInv', CandKept, Behind(row.state, n),
         row.fetched => remote[n] = "SUCCEEDED",
         row.fetched /\ row.items # 0 => AllFiled(Data)',
         \A q \in Procs : q # p /\ where[q] = "record" => job[q].id # n
  PROVE  /\ RunsInv' => SourcesInv'
         /\ SourceTypes' /\ Others(p) /\ where'[p] = "idle"
         /\ Recorded' = Recorded \union {n} /\ DOMAIN rowOf' = DOMAIN rowOf
         /\ remote' = remote /\ UNCHANGED <<serves, unheard, deaths>>
<1>1. /\ where[p] \notin SearchPcs \union {"open"} /\ clock' \in 0..MaxClock
      /\ SourceTypes /\ NoJob \in SourceJobs /\ None \notin ActorRows
      /\ DOMAIN rowOf = 1..Len(rowOf) /\ Recorded \subseteq DOMAIN rowOf
  BY IdleActor, NoSourceJob, SourceConstants
<1>2. /\ rowOf' \in Seq(ActorRows \union {None}) /\ Len(rowOf') = Len(rowOf)
      /\ DOMAIN rowOf' = DOMAIN rowOf /\ rowOf'[n] = row
      /\ \A i \in DOMAIN rowOf : i # n => rowOf'[i] = rowOf[i]
  OBVIOUS
<1>3. Recorded' = Recorded \union {n}
  BY <1>1, <1>2 DEF Recorded
<1>4. \A q \in Procs : q # p /\ where[q] = "record" => rowOf'[job[q].id] = None
  <2> SUFFICES ASSUME NEW q \in Procs, q # p, where[q] = "record"
               PROVE  rowOf'[job[q].id] = None
    OBVIOUS
  <2>1. job[q].id \in DOMAIN rowOf /\ rowOf[job[q].id] = None
    BY DEF SourcesInv, CallsSound, ActorSound
  <2> QED BY <1>2, <2>1
<1>5. ActorSound("idle", NoJob)' /\ Located("idle", NoJob, serves[p])
  BY DEF ActorSound, Located, SearchPcs, NoJob
<1>6. /\ remote \in Seq(ActorStates) /\ Len(remote) = Len(rowOf)
      /\ unheard \in 0..Len(remote) /\ remote' = remote /\ unheard' = unheard
      /\ UNCHANGED google /\ deaths' = deaths
  BY <1>1 DEF SourceTypes, Static
<1>7. /\ SourceTypes' /\ LogSound' /\ CallsSound' /\ CompletedMeansWholePlan' /\ CapInv'
      /\ Others(p) /\ where'[p] = "idle" /\ serves' = serves /\ OwnRuns'
  <2>1. /\ DOMAIN rowOf \subseteq DOMAIN rowOf' /\ Recorded \subseteq Recorded'
        /\ \A i \in DOMAIN remote : remote'[i] = remote[i]
        /\ remote' \in Seq(ActorStates) /\ Len(remote') = Len(rowOf')
        /\ unheard' \in 0..Len(remote')
    BY <1>2, <1>3, <1>6
  <2>2. "idle" \in {"idle"} \union ApifyPcs /\ "idle" # "record"
    OBVIOUS
  <2> QED BY <1>1, <1>2, <1>4, <1>5, <1>6, <2>1, <2>2, ActorMoves
<1>8. ActorRowsSound'
  <2> SUFFICES ASSUME NEW i \in Recorded \union {n}
               PROVE  rowOf'[i].state = remote[i] \/ rowOf'[i].state = "RUNNING"
    BY <1>3, <1>6 DEF ActorRowsSound, Behind
  <2>1. CASE i = n
    BY <1>2, <2>1 DEF Behind
  <2>2. CASE i # n
    BY <1>1, <1>2, <2>2 DEF SourcesInv, ActorRowsSound, Behind
  <2> QED BY <2>1, <2>2
<1>9. FetchedInv'
  <2> SUFFICES ASSUME NEW i \in Recorded \union {n}, rowOf'[i].fetched
               PROVE  /\ remote'[i] = "SUCCEEDED"
                      /\ rowOf'[i].items # 0 => AllFiled(Data)'
    BY <1>3 DEF FetchedInv
  <2>1. CASE i = n
    BY <1>2, <1>6, <2>1
  <2>2. CASE i # n
    <3>1. i \in Recorded /\ rowOf[i].fetched /\ rowOf'[i] = rowOf[i]
      BY <1>1, <1>2, <2>2
    <3>2. remote[i] = "SUCCEEDED" /\ (rowOf[i].items # 0 => AllFiled(Data))
      BY <3>1 DEF SourcesInv, FetchedInv
    <3> QED BY <1>6, <3>1, <3>2, FiledKept, SourceConstants
  <2> QED BY <2>1, <2>2
<1> QED BY <1>2, <1>3, <1>6, <1>7, <1>8, <1>9 DEF SourcesInv

LEMMA IngestRecordStep ==
  ASSUME SourcesInv, NEW p \in Procs, IngestRecord(p)
  PROVE  SourcesInv'
<1> DEFINE j == job[p]
           n == j.id
           row == [rowOf[n] EXCEPT !.fetched = TRUE, !.items = j.items]
<1>1. /\ where[p] = "fetch" /\ UNCHANGED <<google, remote, unheard, clock>> /\ Static
      /\ \/ IngestNext(p) /\ UNCHANGED rowOf
         \/ /\ j.found = << >>
            /\ rowOf' = [rowOf EXCEPT ![n].fetched = TRUE, ![n].items = j.items]
            /\ Move(p, "idle", NoJob) /\ UNCHANGED filed
  BY DEF IngestRecord, Stop
<1>2. /\ where[p] \notin SearchPcs \union {"open"} /\ serves[p] = "apify"
      /\ clock' \in 0..MaxClock /\ SourceTypes /\ RowsInv /\ j \in SourceJobs
      /\ n \in Recorded /\ remote[n] = "SUCCEEDED" /\ (j.items # 0 => Underway(Data, j.found))
      /\ Recorded \subseteq DOMAIN rowOf /\ rowOf[n] \in ActorRows
      /\ where[p] \in ApifyPcs /\ NoJob \in SourceJobs
  BY <1>1, IdleActor, NoSourceJob DEF ApifyPcs, ActorSound
<1>3. CASE IngestNext(p) /\ UNCHANGED rowOf
  <2>1. /\ remote' = remote /\ rowOf' = rowOf /\ unheard' = unheard /\ Recorded' = Recorded
        /\ UNCHANGED <<google, apify>>
    BY <1>1, <1>3 DEF apify, Recorded
  <2>2. /\ RowsInv' /\ CandKept
        /\ \/ Stop(p)
           \/ \E k \in SourceJobs :
                /\ Move(p, where[p], k)
                /\ k.id = j.id /\ k.query = j.query /\ k.failed = j.failed
                /\ k.page = j.page /\ k.items = j.items
                /\ \A raw \in ToSet(j.found) :
                     raw.key \in Keys /\ (cand'[raw.key] # None \/ raw \in ToSet(k.found))
    BY <1>2, <1>3, IngestNextIs
  <2>3. ASSUME NEW w \in {"idle", "fetch"}, NEW k \in SourceJobs, Move(p, w, k),
               ActorSound(w, k)', Located(w, k, serves[p])
        PROVE  SourcesInv'
    <3>1. /\ SourceTypes' /\ Others(p) /\ where'[p] = w /\ serves' = serves
          /\ deaths' = deaths
          /\ RunsInv' => SourcesInv'
      BY <1>1, <1>2, <2>1, <2>2, <2>3, ActorGoesOn DEF ApifyPcs
    <3>2. DOMAIN rowOf' = DOMAIN rowOf /\ where[p] # "record"
          /\ where'[p] \notin {"start", "record"} /\ UNCHANGED <<serves, unheard, deaths>>
      BY <1>1, <2>1, <3>1
    <3>3. RunsInv'
      BY <2>1, <3>1, <3>2, NoStart
    <3> QED BY <3>1, <3>3
  <2>4. CASE Stop(p)
    <3>1. Move(p, "idle", NoJob)
      BY <2>4 DEF Stop
    <3>2. ActorSound("idle", NoJob)' /\ Located("idle", NoJob, serves[p])
      BY DEF ActorSound, Located, SearchPcs, NoJob
    <3> QED BY <1>2, <2>3, <3>1, <3>2
  <2>5. ASSUME NEW k \in SourceJobs, Move(p, where[p], k), k.id = j.id, k.items = j.items,
               \A raw \in ToSet(j.found) :
                 raw.key \in Keys /\ (cand'[raw.key] # None \/ raw \in ToSet(k.found))
        PROVE  SourcesInv'
    <3>1. k.items # 0 => Underway(Data, k.found)'
      <4>1. \A raw \in ToSet(Data) : raw.key \in Keys
        BY RecordKeys, SourceConstants
      <4> QED BY <1>2, <2>2, <2>5, <4>1 DEF Underway, CandKept
    <3>2. ActorSound("fetch", k)' /\ Located("fetch", k, serves[p])
      BY <1>2, <2>1, <2>5, <3>1 DEF ActorSound, Located, SearchPcs
    <3> QED BY <1>1, <2>3, <2>5, <3>2
  <2> QED BY <2>2, <2>4, <2>5
<1>4. CASE /\ j.found = << >>
           /\ rowOf' = [rowOf EXCEPT ![n].fetched = TRUE, ![n].items = j.items]
           /\ Move(p, "idle", NoJob) /\ UNCHANGED filed
  <2>1. RowsInv' /\ CandKept /\ cand' = cand
    BY <1>2, <1>4, FiledStays DEF filed
  <2>2. row \in ActorRows /\ row.state = rowOf[n].state /\ row.items = j.items
    BY <1>2 DEF ActorRows, SourceJobs
  <2>3. rowOf' = [rowOf EXCEPT ![n] = row]
    BY <1>4
  <2>4. Behind(row.state, n)
    BY <1>2, <2>2 DEF SourcesInv, ActorRowsSound
  <2>5. j.items # 0 => AllFiled(Data)'
    <3>1. ToSet(<< >>) = {}
      BY DEF ToSet
    <3> QED BY <1>2, <1>4, <2>1, <3>1 DEF Underway, AllFiled
  <2> HIDE DEF row
  <2>6. \A q \in Procs : q # p /\ where[q] = "record" => job[q].id # n
    BY <1>2 DEF SourcesInv, CallsSound, ActorSound, Recorded
  <2>7. PICK i \in DOMAIN rowOf, b \in ActorRows : i = n /\ b = row
    BY <1>2, <2>2
  <2>8. /\ RunsInv' => SourcesInv'
        /\ SourceTypes' /\ Others(p) /\ where'[p] = "idle"
        /\ Recorded' = Recorded \union {i} /\ DOMAIN rowOf' = DOMAIN rowOf
        /\ remote' = remote /\ UNCHANGED <<serves, unheard, deaths>>
    <3>1. /\ rowOf' = [rowOf EXCEPT ![i] = b] /\ Behind(b.state, i)
          /\ remote[i] = "SUCCEEDED" /\ (b.items # 0 => AllFiled(Data)')
          /\ \A q \in Procs : q # p /\ where[q] = "record" => job[q].id # i
      BY <1>2, <2>2, <2>3, <2>4, <2>5, <2>6, <2>7
    <3>2. where[p] \in ApifyPcs /\ Move(p, "idle", NoJob) /\ Static
          /\ UNCHANGED <<google, remote, unheard, clock>>
      BY <1>1, <1>2, <1>4
    <3>3. /\ rowOf' \in Seq(ActorRows \union {None}) /\ Len(rowOf') = Len(rowOf)
          /\ DOMAIN rowOf' = DOMAIN rowOf /\ rowOf'[i] = b
          /\ \A m \in DOMAIN rowOf : m # i => rowOf'[m] = rowOf[m]
      BY <1>2, <3>1, RowIs
    <3> QED BY <2>1, <3>1, <3>2, <3>3, RowWritten
  <2>9. Recorded' = Recorded
    BY <1>2, <2>7, <2>8
  <2>10. RunsInv'
    BY <1>1, <2>8, <2>9, NoStart
  <2> QED BY <2>8, <2>10
<1> QED BY <1>1, <1>3, <1>4

LEMMA RecordStep ==
  ASSUME SourcesInv, NEW p \in Procs, Record(p)
  PROVE  SourcesInv'
<1> DEFINE n == job[p].id
           got == job[p].got
           row == [state |-> got, fetched |-> FALSE, items |-> 0]
<1>1. /\ where[p] = "record" /\ rowOf' = [rowOf EXCEPT ![n] = row]
      /\ Move(p, "idle", NoJob) /\ UNCHANGED <<filed, google, remote, unheard, clock>> /\ Static
  BY DEF Record, Stop
<1>2. RowsInv' /\ CandKept
  BY <1>1, FiledStays DEF SourcesInv
<1>3. /\ where[p] \in ApifyPcs /\ SourceTypes /\ RunsInv /\ OwnRuns
      /\ n \in DOMAIN rowOf /\ rowOf[n] = None /\ Behind(got, n)
      /\ DOMAIN remote = DOMAIN rowOf
  BY <1>1, IdleActor DEF ApifyPcs, ActorSound, SourcesInv
<1>4. got \in ActorStates
  BY <1>3, IdleActor DEF Behind, ActorStates
<1>5. row \in ActorRows /\ row.state = got /\ row.fetched = FALSE
  BY <1>4 DEF ActorRows
<1> HIDE DEF row
<1>6. \A q \in Procs : q # p /\ where[q] = "record" => job[q].id # n
  BY <1>1, <1>3 DEF OwnRuns
<1>7. PICK i \in DOMAIN rowOf, b \in ActorRows : i = n /\ b = row
  BY <1>3, <1>5
<1>8. /\ RunsInv' => SourcesInv'
      /\ SourceTypes' /\ Others(p) /\ where'[p] = "idle"
      /\ Recorded' = Recorded \union {i} /\ DOMAIN rowOf' = DOMAIN rowOf
      /\ remote' = remote /\ UNCHANGED <<serves, unheard, deaths>>
  <2>1. /\ rowOf' = [rowOf EXCEPT ![i] = b] /\ Behind(b.state, i) /\ ~b.fetched
        /\ \A q \in Procs : q # p /\ where[q] = "record" => job[q].id # i
    BY <1>1, <1>3, <1>5, <1>6, <1>7
  <2>2. where[p] \in ApifyPcs /\ Move(p, "idle", NoJob) /\ Static
        /\ UNCHANGED <<google, remote, unheard, clock>>
    BY <1>1, <1>3
  <2>3. /\ rowOf' \in Seq(ActorRows \union {None}) /\ Len(rowOf') = Len(rowOf)
        /\ DOMAIN rowOf' = DOMAIN rowOf /\ rowOf'[i] = b
        /\ \A m \in DOMAIN rowOf : m # i => rowOf'[m] = rowOf[m]
    BY <1>3, <2>1, RowIs
  <2> QED BY <1>2, <2>1, <2>2, <2>3, RowWritten
<1>9. /\ Starting' = Starting \ {p} /\ Recording' = Recording \ {p}
      /\ p \in Starting /\ p \in Recording
      /\ Unrecorded' = Unrecorded \ {i} /\ i \in Unrecorded /\ i \notin Recorded
      /\ LiveRuns' \subseteq LiveRuns \union {i} /\ Serving("apify")' = Serving("apify")
  <2>1. Starting' = Starting \ {p} /\ Recording' = Recording \ {p}
    BY <1>8 DEF Starting, Recording, Others
  <2>2. p \in Starting /\ p \in Recording
    BY <1>1 DEF Starting, Recording
  <2>3. i \notin Recorded /\ i \in Unrecorded
    BY <1>3, <1>7 DEF Recorded, Unrecorded
  <2>4. Unrecorded' = Unrecorded \ {i}
    BY <1>8, <2>3 DEF Unrecorded
  <2>5. LiveRuns' \subseteq LiveRuns \union {i} /\ Serving("apify")' = Serving("apify")
    BY <1>8 DEF LiveRuns, Serving
  <2> QED BY <2>1, <2>2, <2>3, <2>4, <2>5
<1>10. /\ IsFiniteSet(Starting) /\ IsFiniteSet(Recording) /\ IsFiniteSet(Recorded)
       /\ IsFiniteSet(Unrecorded) /\ IsFiniteSet(LiveRuns)
       /\ unheard \in Nat /\ deaths \in Nat
       /\ Cardinality(Starting) \in Nat /\ Cardinality(Recording) \in Nat
       /\ Cardinality(Recorded) \in Nat /\ Cardinality(Unrecorded) \in Nat
       /\ Cardinality(LiveRuns) \in Nat
  BY <1>3, RunSets
<1>11. /\ Cardinality(Starting') = Cardinality(Starting) - 1
       /\ Cardinality(Recording') = Cardinality(Recording) - 1
       /\ Cardinality(Unrecorded') = Cardinality(Unrecorded) - 1
       /\ Cardinality(Recorded') = Cardinality(Recorded) + 1
  BY <1>8, <1>9, <1>10, FS_AddElement, FS_RemoveElement
<1>12. Cardinality(LiveRuns') \in Nat /\ Cardinality(LiveRuns') <= Cardinality(LiveRuns) + 1
  <2>1. /\ IsFiniteSet(LiveRuns \union {i})
        /\ Cardinality(LiveRuns \union {i}) <= Cardinality(LiveRuns) + 1
    <3>1. IsFiniteSet(LiveRuns) /\ Cardinality(LiveRuns) \in Nat
      BY <1>10
    <3> DEFINE S == LiveRuns \union {i}
    <3>2. IsFiniteSet(S) /\ Cardinality(S) = IF i \in LiveRuns THEN Cardinality(LiveRuns)
                                            ELSE Cardinality(LiveRuns) + 1
      BY <3>1, FS_AddElement
    <3> HIDE DEF S
    <3>3. IsFiniteSet(S) /\ Cardinality(S) <= Cardinality(LiveRuns) + 1
      BY <3>1, <3>2
    <3> QED BY <3>3 DEF S
  <2>2. /\ Cardinality(LiveRuns') \in Nat /\ Cardinality(LiveRuns \union {i}) \in Nat
        /\ Cardinality(LiveRuns') <= Cardinality(LiveRuns \union {i})
    BY <1>9, <2>1, CountKept
  <2> QED BY <1>10, <2>1, <2>2
<1>13. /\ Cardinality(Serving("apify")) \in Nat /\ RunCap \in Nat /\ MaxConcurrent \in Nat
  BY ServingFinite, SourceConstants
<1>14. RunsInv'
  <2>1. Cardinality(Unrecorded') <= unheard' + deaths' + Cardinality(Recording')
    BY <1>3, <1>8, <1>10, <1>11 DEF RunsInv
  <2>2. Serving("apify") # {} =>
          /\ Cardinality(Recorded') + Cardinality(Starting')
               < RunCap + Cardinality(Serving("apify"))
          /\ Cardinality(LiveRuns') + Cardinality(Starting')
               < MaxConcurrent + Cardinality(Serving("apify"))
    BY <1>3, <1>10, <1>11, <1>12, <1>13 DEF RunsInv
  <2> QED BY <1>9, <2>1, <2>2 DEF RunsInv
<1> QED BY <1>8, <1>14

(* A run that Apify started: it has no row yet.                            *)
LEMMA RunAppended ==
  ASSUME SourceTypes, NEW state \in ActorStates,
         remote' = Append(remote, state), rowOf' = Append(rowOf, None)
  PROVE  LET n == Len(remote) + 1 IN
         /\ remote' \in Seq(ActorStates) /\ rowOf' \in Seq(ActorRows \union {None})
         /\ Len(remote') = n /\ Len(rowOf') = n /\ n \in Nat /\ n \notin DOMAIN rowOf
         /\ DOMAIN rowOf' = DOMAIN rowOf \union {n} /\ DOMAIN remote = DOMAIN rowOf
         /\ rowOf'[n] = None /\ remote'[n] = state
         /\ \A i \in DOMAIN rowOf : rowOf'[i] = rowOf[i] /\ remote'[i] = remote[i]
<1> DEFINE n == Len(remote) + 1
<1>1. /\ remote \in Seq(ActorStates) /\ rowOf \in Seq(ActorRows \union {None})
      /\ Len(remote) = Len(rowOf) /\ Len(remote) \in Nat
      /\ DOMAIN remote = 1..Len(remote) /\ DOMAIN rowOf = 1..Len(rowOf)
      /\ None \in ActorRows \union {None}
  BY LenProperties DEF SourceTypes
<1>2. /\ remote' \in Seq(ActorStates) /\ Len(remote') = n
      /\ remote'[n] = state /\ \A i \in 1..Len(remote) : remote'[i] = remote[i]
  BY <1>1, AppendProperties
<1>3. /\ rowOf' \in Seq(ActorRows \union {None}) /\ Len(rowOf') = n
      /\ rowOf'[n] = None /\ \A i \in 1..Len(rowOf) : rowOf'[i] = rowOf[i]
  BY <1>1, AppendProperties
<1>4. DOMAIN rowOf' = 1..n
  BY <1>3, LenProperties
<1>5. n \in Nat /\ n \notin 1..Len(rowOf) /\ 1..n = 1..Len(rowOf) \union {n}
  BY <1>1
<1> QED BY <1>1, <1>2, <1>3, <1>4, <1>5

(* What such a start keeps; its process then has nothing to do, or the row *)
(* to write.                                                               *)
LEMMA RunStarted ==
  ASSUME SourcesInv, NEW p \in Procs, where[p] = "start", NEW state \in ActorStates,
         NEW n, n = Len(remote) + 1,
         remote' = Append(remote, state), rowOf' = Append(rowOf, None),
         unheard' \in {unheard, unheard + 1},
         NEW w \in {"idle", "record"}, NEW k \in SourceJobs, Move(p, w, k),
         UNCHANGED <<filed, google, clock>>, Static,
         w = "record" => k.id = n /\ Behind(k.got, n)',
         w = "idle" => k.id = 0
  PROVE  /\ SourceTypes' /\ Others(p) /\ where'[p] = w /\ serves' = serves /\ deaths' = deaths
         /\ Recorded' = Recorded /\ Unrecorded' = Unrecorded \union {n}
         /\ LiveRuns' = LiveRuns
         /\ RunsInv' => SourcesInv'
<1>1. /\ where[p] \notin SearchPcs \union {"open"} /\ clock' \in 0..MaxClock
      /\ SourceTypes /\ serves[p] = "apify" /\ Recorded \subseteq DOMAIN rowOf
  BY IdleActor DEF ApifyPcs
<1>2. RowsInv' /\ CandKept /\ cand' = cand
  BY FiledStays DEF SourcesInv, filed
<1>3. /\ remote' \in Seq(ActorStates) /\ rowOf' \in Seq(ActorRows \union {None})
      /\ Len(remote') = n /\ Len(rowOf') = n /\ n \in Nat /\ n \notin DOMAIN rowOf
      /\ DOMAIN rowOf' = DOMAIN rowOf \union {n} /\ DOMAIN remote = DOMAIN rowOf
      /\ rowOf'[n] = None /\ remote'[n] = state
      /\ \A i \in DOMAIN rowOf : rowOf'[i] = rowOf[i] /\ remote'[i] = remote[i]
  BY <1>1, RunAppended
<1>4. Recorded' = Recorded
  BY <1>1, <1>3 DEF Recorded
<1>5. Unrecorded' = Unrecorded \union {n} /\ LiveRuns' = LiveRuns
  <2>1. Unrecorded' = Unrecorded \union {n}
    BY <1>1, <1>3, <1>4 DEF Unrecorded
  <2>2. LiveRuns' = LiveRuns
    BY <1>1, <1>3, <1>4 DEF LiveRuns
  <2> QED BY <2>1, <2>2
<1>6. unheard' \in 0..Len(remote') /\ Len(remote') = Len(rowOf')
  <2>1. Len(remote) \in Nat /\ unheard \in 0..Len(remote)
    BY <1>1, LenProperties DEF SourceTypes
  <2> QED BY <1>3, <2>1
<1>7. \A q \in Procs : where[q] = "record" =>
        job[q].id \in DOMAIN rowOf /\ rowOf[job[q].id] = None
  BY DEF SourcesInv, CallsSound, ActorSound
<1>8. \A q \in Procs : q # p /\ where[q] = "record" => rowOf'[job[q].id] = None
  BY <1>3, <1>7
<1>9. ActorSound(w, k)' /\ Located(w, k, serves[p]) /\ w \in {"idle"} \union ApifyPcs
  BY <1>1, <1>3 DEF ActorSound, Located, SearchPcs, ApifyPcs
<1>10. DOMAIN rowOf \subseteq DOMAIN rowOf' /\ Recorded \subseteq Recorded' /\ UNCHANGED google
       /\ \A i \in DOMAIN remote : remote'[i] = remote[i]
  BY <1>3, <1>4
<1>11. /\ SourceTypes' /\ LogSound' /\ CallsSound' /\ CompletedMeansWholePlan' /\ CapInv'
       /\ Others(p) /\ where'[p] = w /\ job'[p] = k /\ serves' = serves
       /\ w # "record" => OwnRuns'
  BY <1>1, <1>2, <1>3, <1>6, <1>8, <1>9, <1>10, ActorMoves
<1>12. OwnRuns'
  <2>1. CASE w # "record"
    BY <1>11, <2>1
  <2>2. CASE w = "record"
    <3>1. \A q \in Procs \ {p} : where'[q] = "record" =>
            where[q] = "record" /\ job'[q] = job[q] /\ job[q].id # n
      BY <1>3, <1>7, <1>11 DEF Others
    <3>2. job'[p].id = n
      BY <1>11, <2>2
    <3> QED BY <3>1, <3>2 DEF OwnRuns, SourcesInv
  <2> QED BY <2>1, <2>2
<1>13. ActorRowsSound'
  BY <1>1, <1>3, <1>4 DEF SourcesInv, ActorRowsSound, Behind
<1>14. FetchedInv'
  BY <1>1, <1>2, <1>3, <1>4 DEF SourcesInv, FetchedInv, AllFiled
<1>15. deaths' = deaths
  BY DEF Static
<1> QED BY <1>2, <1>4, <1>5, <1>11, <1>12, <1>13, <1>14, <1>15 DEF SourcesInv

LEMMA StartActorStep ==
  ASSUME SourcesInv, NEW p \in Procs, NEW answer \in StartAnswers, StartActor(p, answer)
  PROVE  SourcesInv'
<1> DEFINE n0 == Len(remote) + 1
<1>1. /\ where[p] = "start" /\ UNCHANGED <<filed, google, clock>> /\ Static
  BY DEF StartActor
<1>2. SourceTypes /\ RunsInv /\ NoJob \in SourceJobs
  BY NoSourceJob DEF SourcesInv
<1>3. n0 \in Nat
  BY <1>2, LenProperties DEF SourceTypes
<1> HIDE DEF n0
<1>4. PICK n \in Nat : n = n0
  BY <1>3
<1>5. /\ \A S \in {Starting, Recording, Recorded, Unrecorded, LiveRuns} :
           IsFiniteSet(S) /\ Cardinality(S) \in Nat
      /\ unheard \in Nat /\ deaths \in Nat
      /\ Cardinality(Serving("apify")) \in Nat /\ RunCap \in Nat /\ MaxConcurrent \in Nat
  BY <1>2, RunSets, ServingFinite, SourceConstants
<1>6. CASE answer = "refused"
  <2>1. Move(p, "idle", NoJob) /\ UNCHANGED apify
    BY <1>6 DEF StartActor, Stop
  <2>2. RowsInv' /\ CandKept
    BY <1>1, FiledStays DEF SourcesInv
  <2>3. /\ where[p] \notin SearchPcs \union {"open"} /\ clock' \in 0..MaxClock
    BY <1>1, IdleActor DEF ApifyPcs
  <2>4. ActorSound("idle", NoJob)' /\ Located("idle", NoJob, serves[p])
    BY DEF ActorSound, Located, SearchPcs, NoJob
  <2>5. /\ SourceTypes' /\ Others(p) /\ where'[p] = "idle" /\ serves' = serves
        /\ deaths' = deaths
        /\ RunsInv' => SourcesInv'
    BY <1>1, <1>2, <2>1, <2>2, <2>3, <2>4, ActorGoesOn
  <2>6. remote' = remote /\ rowOf' = rowOf /\ Recorded' = Recorded /\ unheard' = unheard
    BY <2>1 DEF apify, Recorded
  <2>7. RunsInv'
    <3>1. UNCHANGED <<serves, unheard, deaths>> /\ where[p] # "record"
          /\ where'[p] \notin {"start", "record"} /\ DOMAIN rowOf' = DOMAIN rowOf
      BY <1>1, <2>5, <2>6
    <3> QED BY <2>5, <2>6, <3>1, NoStart
  <2> QED BY <2>5, <2>7
<1>7. CASE answer = "lost"
  <2>1. /\ remote' = Append(remote, "RUNNING") /\ rowOf' = Append(rowOf, None)
        /\ unheard' = unheard + 1 /\ Move(p, "idle", NoJob)
    BY <1>7 DEF StartActor, Stop
  <2>2. "RUNNING" \in ActorStates /\ NoJob.id = 0
    BY DEF ActorStates, NoJob
  <2>3. /\ SourceTypes' /\ Others(p) /\ where'[p] = "idle" /\ serves' = serves
        /\ deaths' = deaths
        /\ Recorded' = Recorded /\ Unrecorded' = Unrecorded \union {n}
        /\ LiveRuns' = LiveRuns
        /\ RunsInv' => SourcesInv'
    BY <1>1, <1>2, <1>4, <2>1, <2>2, RunStarted DEF n0
  <2>4. /\ Starting' \subseteq Starting /\ Recording' = Recording
        /\ Serving("apify")' = Serving("apify")
    <3>1. Starting' \subseteq Starting
      BY <2>3 DEF Starting, Others
    <3>2. Recording' = Recording
      BY <1>1, <2>3 DEF Recording, Others
    <3> QED BY <2>3, <3>1, <3>2 DEF Serving
  <2>5. /\ Cardinality(Starting') \in Nat /\ Cardinality(Starting') <= Cardinality(Starting)
    BY <1>5, <2>4, CountKept
  <2>6. Cardinality(Unrecorded') \in Nat /\ Cardinality(Unrecorded') <= Cardinality(Unrecorded) + 1
    <3>1. IsFiniteSet(Unrecorded) /\ Cardinality(Unrecorded) \in Nat
      BY <1>5
    <3>2. Cardinality(Unrecorded') =
            IF n \in Unrecorded THEN Cardinality(Unrecorded) ELSE Cardinality(Unrecorded) + 1
      BY <2>3, <3>1, FS_AddElement
    <3> QED BY <3>1, <3>2
  <2>7. RunsInv'
    <3>1. /\ Cardinality(Starting) \in Nat /\ Cardinality(Recording) \in Nat
          /\ Cardinality(Recorded) \in Nat /\ Cardinality(Unrecorded) \in Nat
          /\ Cardinality(LiveRuns) \in Nat
      BY <1>5
    <3>2. Cardinality(Unrecorded') <= unheard' + deaths' + Cardinality(Recording')
      <4>1. Cardinality(Unrecorded) <= unheard + deaths + Cardinality(Recording)
        BY <1>2 DEF RunsInv
      <4>2. unheard \in Nat /\ deaths \in Nat
        BY <1>2, SourceConstants DEF SourceTypes
      <4>3. unheard' = unheard + 1 /\ deaths' = deaths
            /\ Cardinality(Recording') = Cardinality(Recording)
        BY <2>1, <2>3, <2>4
      <4> QED BY <2>6, <3>1, <4>1, <4>2, <4>3
    <3>3. Serving("apify") # {} =>
            /\ Cardinality(Recorded') + Cardinality(Starting')
                 < RunCap + Cardinality(Serving("apify"))
            /\ Cardinality(LiveRuns') + Cardinality(Starting')
                 < MaxConcurrent + Cardinality(Serving("apify"))
      BY <1>2, <1>5, <2>3, <2>5, <3>1 DEF RunsInv
    <3> QED BY <2>4, <3>2, <3>3 DEF RunsInv
  <2> QED BY <2>3, <2>7
<1>8. CASE answer \in ActorStates /\ answer \notin {"refused", "lost"}
  <2> DEFINE k1 == [NoJob EXCEPT !.id = n, !.got = answer]
  <2>1. /\ remote' = Append(remote, answer) /\ rowOf' = Append(rowOf, None)
        /\ unheard' = unheard /\ Move(p, "record", k1)
    BY <1>4, <1>8 DEF StartActor, n0
  <2>2. k1 \in SourceJobs /\ k1.id = n /\ k1.got = answer
    BY <1>2, <1>8 DEF SourceJobs, NoJob
  <2>3. remote'[n] = answer
    BY <1>2, <1>4, <1>8, <2>1, RunAppended DEF n0
  <2> HIDE DEF k1
  <2>4. PICK k \in SourceJobs : k = k1
    BY <2>2
  <2>5. /\ SourceTypes' /\ Others(p) /\ where'[p] = "record" /\ serves' = serves
        /\ deaths' = deaths
        /\ Recorded' = Recorded /\ Unrecorded' = Unrecorded \union {n}
        /\ LiveRuns' = LiveRuns
        /\ RunsInv' => SourcesInv'
    <3>1. k.id = n /\ Behind(k.got, n)'
      BY <2>2, <2>3, <2>4 DEF Behind
    <3>2. Move(p, "record", k) /\ n = Len(remote) + 1
      BY <1>4, <2>1, <2>4 DEF n0
    <3> QED BY <1>1, <1>8, <2>1, <3>1, <3>2, RunStarted
  <2>6. /\ Starting' = Starting /\ Recording' = Recording \union {p} /\ p \notin Recording
        /\ Serving("apify")' = Serving("apify")
    <3>1. Starting' = Starting
      BY <1>1, <2>5 DEF Starting, Others
    <3>2. Recording' = Recording \union {p} /\ p \notin Recording
      BY <1>1, <2>5 DEF Recording, Others
    <3> QED BY <2>5, <3>1, <3>2 DEF Serving
  <2>7. Cardinality(Recording') = Cardinality(Recording) + 1
    <3>1. IsFiniteSet(Recording)
      BY <1>5
    <3> QED BY <2>6, <3>1, FS_AddElement
  <2>8. Cardinality(Unrecorded') \in Nat /\ Cardinality(Unrecorded') <= Cardinality(Unrecorded) + 1
    <3>1. IsFiniteSet(Unrecorded) /\ Cardinality(Unrecorded) \in Nat
      BY <1>5
    <3>2. Cardinality(Unrecorded') =
            IF n \in Unrecorded THEN Cardinality(Unrecorded) ELSE Cardinality(Unrecorded) + 1
      BY <2>5, <3>1, FS_AddElement
    <3> QED BY <3>1, <3>2
  <2>9. RunsInv'
    <3>1. /\ Cardinality(Starting) \in Nat /\ Cardinality(Recording) \in Nat
          /\ Cardinality(Recorded) \in Nat /\ Cardinality(Unrecorded) \in Nat
          /\ Cardinality(LiveRuns) \in Nat
      BY <1>5
    <3>2. Cardinality(Unrecorded') <= unheard' + deaths' + Cardinality(Recording')
      <4>1. Cardinality(Unrecorded) <= unheard + deaths + Cardinality(Recording)
        BY <1>2 DEF RunsInv
      <4>2. unheard \in Nat /\ deaths \in Nat
        BY <1>2, SourceConstants DEF SourceTypes
      <4>3. unheard' = unheard /\ deaths' = deaths
        BY <2>1, <2>5
      <4> QED BY <2>7, <2>8, <3>1, <4>1, <4>2, <4>3
    <3>3. Serving("apify") # {} =>
            /\ Cardinality(Recorded') + Cardinality(Starting')
                 < RunCap + Cardinality(Serving("apify"))
            /\ Cardinality(LiveRuns') + Cardinality(Starting')
                 < MaxConcurrent + Cardinality(Serving("apify"))
      BY <1>2, <1>5, <2>5, <2>6, <3>1 DEF RunsInv
    <3> QED BY <2>6, <3>2, <3>3 DEF RunsInv
  <2> QED BY <2>5, <2>9
<1> QED BY <1>6, <1>7, <1>8 DEF StartAnswers, ActorStates, Terminal

-----------------------------------------------------------------------------
(* A process dies wherever it is. *)
LEMMA DieStep ==
  ASSUME SourcesInv, NEW p \in Procs, Die(p)
  PROVE  SourcesInv'
<1>1. /\ where[p] # "idle" /\ deaths < MaxDeaths /\ deaths' = deaths + 1
      /\ Move(p, "idle", NoJob)
      /\ UNCHANGED <<filed, blocked, live, google, apify, serves, clock>>
  BY DEF Die, Stop
<1>2. /\ SourceTypes /\ RowsInv /\ LogSound /\ ActorRowsSound /\ CallsSound /\ OwnRuns
      /\ FetchedInv /\ CompletedMeansWholePlan /\ CapInv /\ RunsInv
      /\ NoJob \in SourceJobs /\ "idle" \in SourcePcs
  BY NoSourceJob DEF SourcesInv, SourcePcs
<1>3. /\ where' \in [Procs -> SourcePcs] /\ job' \in [Procs -> SourceJobs]
      /\ where'[p] = "idle" /\ job'[p] = NoJob /\ Others(p)
  BY <1>1, <1>2, MoveIs DEF Others
<1>4. /\ log' = log /\ druns' = druns /\ live' = live /\ serves' = serves /\ cand' = cand
      /\ remote' = remote /\ rowOf' = rowOf /\ unheard' = unheard /\ clock' = clock
  BY <1>1 DEF google, apify, filed
<1>5. RowsInv' /\ CandKept
  BY <1>1, <1>2, FiledStays
<1>6. deaths \in Nat /\ deaths' \in 0..MaxDeaths
  BY <1>1, <1>2, SourceConstants DEF SourceTypes
<1>7. SourceTypes'
  BY <1>2, <1>3, <1>4, <1>6 DEF SourceTypes
<1>8. Recorded' = Recorded /\ Unrecorded' = Unrecorded /\ LiveRuns' = LiveRuns
  BY <1>4 DEF Recorded, Unrecorded, LiveRuns
<1>9. Evolves
  BY <1>4, <1>5, <1>8 DEF Evolves
<1>10. \A q \in Procs : q # p /\ where[q] = "record" => rowOf'[job[q].id] = None
  BY <1>2, <1>4 DEF CallsSound, ActorSound
<1>11. /\ SearchSound("idle", NoJob)' /\ ActorSound("idle", NoJob)'
       /\ Located("idle", NoJob, serves[p])
  BY DEF SearchSound, ActorSound, Located, SearchPcs, NoJob
<1>12. CallsSound'
  BY <1>2, <1>3, <1>4, <1>7, <1>9, <1>10, <1>11, CallsKept
<1>13. OwnRuns'
  <2>1. \A q \in Procs : where'[q] = "record" =>
          q # p /\ where[q] = "record" /\ job'[q] = job[q]
    BY <1>3 DEF Others
  <2> QED BY <1>2, <2>1 DEF OwnRuns
<1>14. FetchedInv' /\ LogSound' /\ ActorRowsSound'
  BY <1>2, <1>4, <1>8 DEF FetchedInv, LogSound, ActorRowsSound, AllFiled, Behind
<1>15. CompletedMeansWholePlan'
  BY <1>2, <1>4, <1>5, CompletedKept
<1>16. CapInv'
  <2>1. \A x : ~Ahead("idle", NoJob, x)
    BY DEF Ahead
  <2>2. Owed' \subseteq Owed
    BY <1>2, <1>3, <1>4, <2>1, OwedKept
  <2> QED BY <1>2, <1>4, <2>2, CapKept
<1>17. RunsInv'
  <2>1. /\ Starting' \subseteq Starting /\ Recording \subseteq Recording' \union {p}
        /\ Serving("apify")' = Serving("apify")
    <3>1. Starting' \subseteq Starting
      BY <1>3 DEF Starting, Others
    <3>2. Recording \subseteq Recording' \union {p}
      BY <1>3 DEF Recording, Others
    <3> QED BY <1>4, <3>1, <3>2 DEF Serving
  <2>2. /\ IsFiniteSet(Starting) /\ Cardinality(Starting) \in Nat
        /\ Cardinality(Recording) \in Nat /\ Cardinality(Unrecorded) \in Nat
        /\ Cardinality(Recorded) \in Nat /\ Cardinality(LiveRuns) \in Nat
        /\ unheard \in Nat
    BY <1>2, RunSets
  <2>3. Cardinality(Starting') \in Nat /\ Cardinality(Starting') <= Cardinality(Starting)
    BY <2>1, <2>2, CountKept
  <2>4. /\ Cardinality(Recording') \in Nat
        /\ Cardinality(Recording) <= Cardinality(Recording') + 1
    <3>1. Recording' \subseteq Procs /\ IsFiniteSet(Procs)
      BY SourceConstants DEF Recording
    <3>2. IsFiniteSet(Recording') /\ Cardinality(Recording') \in Nat
      BY <3>1, CountKept
    <3>3. /\ IsFiniteSet(Recording' \union {p})
          /\ Cardinality(Recording' \union {p}) =
               IF p \in Recording' THEN Cardinality(Recording') ELSE Cardinality(Recording') + 1
      BY <3>2, FS_AddElement
    <3>4. /\ Cardinality(Recording' \union {p}) \in Nat
          /\ Cardinality(Recording) <= Cardinality(Recording' \union {p})
      BY <2>1, <3>3, CountKept
    <3> QED BY <2>2, <3>2, <3>3, <3>4
  <2>5. Cardinality(Unrecorded') <= unheard' + deaths' + Cardinality(Recording')
    BY <1>1, <1>2, <1>4, <1>6, <1>8, <2>2, <2>4 DEF RunsInv
  <2>6. RunCap \in Nat /\ MaxConcurrent \in Nat /\ Cardinality(Serving("apify")) \in Nat
    BY SourceConstants, ServingFinite
  <2>7. Serving("apify") # {} =>
          /\ Cardinality(Recorded') + Cardinality(Starting')
               < RunCap + Cardinality(Serving("apify"))
          /\ Cardinality(LiveRuns') + Cardinality(Starting')
               < MaxConcurrent + Cardinality(Serving("apify"))
    BY <1>2, <1>8, <2>2, <2>3, <2>6 DEF RunsInv
  <2> QED BY <2>1, <2>5, <2>7 DEF RunsInv
<1> QED BY <1>5, <1>7, <1>12, <1>13, <1>14, <1>15, <1>16, <1>17 DEF SourcesInv

(* Apify ends a run, or the operator pauses: no process moves, and a run   *)
(* that has ended stays as it is.                                          *)
LEMMA NobodyMoves ==
  ASSUME SourcesInv, live' \in BOOLEAN,
         UNCHANGED <<filed, google, rowOf, unheard, serves, where, job, clock, deaths>>,
         remote' \in Seq(ActorStates), Len(remote') = Len(remote),
         \A i \in DOMAIN remote : remote'[i] = remote[i] \/ remote[i] = "RUNNING"
  PROVE  SourcesInv'
<1>1. /\ SourceTypes /\ RowsInv /\ LogSound /\ ActorRowsSound /\ CallsSound /\ OwnRuns
      /\ FetchedInv /\ CompletedMeansWholePlan /\ CapInv /\ RunsInv
  BY DEF SourcesInv
<1>2. /\ log' = log /\ druns' = druns /\ serves' = serves /\ cand' = cand
      /\ rowOf' = rowOf /\ unheard' = unheard /\ clock' = clock /\ deaths' = deaths
      /\ where' = where /\ job' = job
  BY DEF google, filed
<1>3. RowsInv' /\ CandKept
  BY <1>1, FiledStays
<1>4. SourceTypes'
  BY <1>1, <1>2 DEF SourceTypes
<1>5. /\ Recorded' = Recorded /\ Unrecorded' = Unrecorded /\ Starting' = Starting
      /\ Recording' = Recording
  BY <1>2 DEF Recorded, Unrecorded, Starting, Recording
<1>6. /\ DOMAIN remote = DOMAIN rowOf /\ Recorded \subseteq DOMAIN rowOf
      /\ DOMAIN remote = 1..Len(remote)
      /\ DOMAIN remote' = 1..Len(remote')
  BY <1>1, RunSets, LenProperties DEF SourceTypes
<1>7. Evolves
  BY <1>2, <1>3, <1>5, <1>6 DEF Evolves
<1>8. CallsSound'
  <2> SUFFICES ASSUME NEW q \in Procs
      PROVE  SearchSound(where[q], job[q])' /\ ActorSound(where[q], job[q])'
             /\ Located(where'[q], job'[q], serves'[q])
    BY DEF CallsSound, Located
  <2>1. PICK u \in SourcePcs, j \in SourceJobs : u = where[q] /\ j = job[q]
    BY <1>1 DEF SourceTypes
  <2>2. SearchSound(u, j) /\ ActorSound(u, j) /\ Located(u, j, serves[q])
    BY <1>1, <2>1 DEF CallsSound, Located
  <2>3. u = "record" => rowOf'[j.id] = None
    BY <1>2, <2>2 DEF ActorSound
  <2>4. SearchSound(u, j)' /\ ActorSound(u, j)'
    BY <1>1, <1>7, <2>2, <2>3, SearchKept, ActorKept
  <2>5. u = where'[q] /\ j = job'[q]
    BY <1>2, <2>1
  <2> QED BY <1>2, <2>2, <2>4, <2>5
      DEF SearchSound, ActorSound, WholePlan, Asked, AllFiled, Underway, Behind
<1>9. OwnRuns' /\ LogSound'
  BY <1>1, <1>2 DEF OwnRuns, LogSound
<1>10. ActorRowsSound' /\ FetchedInv'
  <2>1. \A i \in Recorded : remote'[i] = remote[i] \/ remote[i] = "RUNNING"
    BY <1>6
  <2>2. ActorRowsSound'
    BY <1>1, <1>2, <1>5, <2>1 DEF ActorRowsSound, Behind
  <2>3. FetchedInv'
    BY <1>1, <1>2, <1>5, <2>1 DEF FetchedInv, AllFiled
  <2> QED BY <2>2, <2>3
<1>11. CompletedMeansWholePlan'
  BY <1>1, <1>2, <1>3, CompletedKept
<1>12. CapInv'
  <2>1. Owed' = Owed
    BY <1>2 DEF Owed, Serving
  <2> QED BY <1>1, <1>2, <2>1, CapKept
<1>13. RunsInv'
  <2>1. LiveRuns' \subseteq LiveRuns
    BY <1>5, <1>6 DEF LiveRuns
  <2> QED BY <1>1, <1>2, <1>5, <2>1, RunsKept
<1> QED BY <1>3, <1>4, <1>8, <1>9, <1>10, <1>11, <1>12, <1>13 DEF SourcesInv

LEMMA RemoteEndsStep ==
  ASSUME SourcesInv, NEW i \in DOMAIN remote, NEW state \in Terminal, RemoteEnds(i, state)
  PROVE  SourcesInv'
<1>1. /\ remote[i] = "RUNNING" /\ remote' = [remote EXCEPT ![i] = state]
      /\ UNCHANGED <<filed, google, rowOf, unheard, serves, where, job, clock, deaths>>
      /\ live' = live
  BY DEF RemoteEnds
<1>2. remote \in Seq(ActorStates) /\ DOMAIN remote = 1..Len(remote) /\ live \in BOOLEAN
      /\ state \in ActorStates
  BY LenProperties DEF SourcesInv, SourceTypes, ActorStates
<1>3. /\ remote' \in Seq(ActorStates) /\ Len(remote') = Len(remote)
      /\ \A k \in DOMAIN remote : remote'[k] = remote[k] \/ remote[k] = "RUNNING"
  BY <1>1, <1>2, ExceptSeq
<1> QED BY <1>1, <1>2, <1>3, NobodyMoves

LEMMA PauseStep ==
  ASSUME SourcesInv, Pause \/ UNCHANGED sourceVars
  PROVE  SourcesInv'
<1>1. /\ UNCHANGED <<filed, google, rowOf, unheard, serves, where, job, clock, deaths>>
      /\ remote' = remote /\ live' \in {FALSE, live}
  BY DEF Pause, sourceVars, apify
<1>2. remote \in Seq(ActorStates) /\ live \in BOOLEAN
  BY DEF SourcesInv, SourceTypes
<1> QED BY <1>1, <1>2, NobodyMoves

-----------------------------------------------------------------------------
LEMMA SourcesInitInv ==
  SourcesInit => SourcesInv
<1> SUFFICES ASSUME SourcesInit PROVE SourcesInv
  OBVIOUS
<1>1. /\ cand = [k \in Keys |-> None] /\ lead = [k \in Keys |-> None]
      /\ live = TRUE /\ log = {} /\ druns = << >> /\ remote = << >> /\ rowOf = << >>
      /\ unheard = 0 /\ clock = 0 /\ deaths = 0
      /\ serves \in [Procs -> {"google", "apify"}]
      /\ where = [p \in Procs |-> "idle"] /\ job = [p \in Procs |-> NoJob]
  BY DEF SourcesInit, DiscoveryInit
<1>2. NoJob \in SourceJobs /\ "idle" \in SourcePcs
  BY NoSourceJob DEF SourcePcs
<1>3. SourceTypes
  <2>1. /\ druns \in Seq(SearchStates) /\ remote \in Seq(ActorStates)
        /\ rowOf \in Seq(ActorRows \union {None}) /\ Len(remote) = 0 /\ Len(rowOf) = 0
    BY <1>1, EmptySeq
  <2>2. log \subseteq RequestRows /\ IsFiniteSet(log)
    BY <1>1, FS_EmptySet
  <2>3. /\ unheard \in 0..Len(remote) /\ clock \in 0..MaxClock /\ deaths \in 0..MaxDeaths
        /\ live \in BOOLEAN
    BY <1>1, <2>1, SourceConstants
  <2>4. where \in [Procs -> SourcePcs] /\ job \in [Procs -> SourceJobs]
    BY <1>1, <1>2
  <2> QED BY <1>1, <2>1, <2>2, <2>3, <2>4 DEF SourceTypes
<1>4. RowsInv
  BY <1>1 DEF RowsInv
<1>5. DOMAIN rowOf = {} /\ DOMAIN druns = {} /\ Recorded = {} /\ Unrecorded = {}
      /\ LiveRuns = {} /\ Starting = {} /\ Recording = {} /\ Succeeded = {}
  <2>1. DOMAIN rowOf = {} /\ DOMAIN druns = {}
    BY <1>1
  <2> QED BY <1>1, <2>1 DEF Recorded, Unrecorded, LiveRuns, Starting, Recording, Succeeded
<1>6. Owed = {}
  BY <1>1 DEF Owed, Ahead, Serving
<1>7. LogSound /\ ActorRowsSound /\ OwnRuns /\ FetchedInv /\ CompletedMeansWholePlan
  BY <1>1, <1>5 DEF LogSound, ActorRowsSound, OwnRuns, FetchedInv, CompletedMeansWholePlan
<1>8. CallsSound
  BY <1>1 DEF CallsSound, SearchSound, ActorSound, SearchPcs, NoJob
<1>9. Cardinality({}) = 0
  BY FS_EmptySet
<1>10. CapInv
  <2>1. Cardinality(Serving("google")) * RequestCap \in Nat
    BY ServingFinite, SourceConstants
  <2> QED BY <1>5, <1>6, <1>9, <2>1 DEF CapInv
<1>11. RunsInv
  <2>1. Serving("apify") # {} => Cardinality(Serving("apify")) \in Nat \ {0}
    BY ServingFinite, FS_EmptySet
  <2> QED BY <1>1, <1>5, <1>9, <2>1, SourceConstants DEF RunsInv
<1> QED BY <1>3, <1>4, <1>7, <1>8, <1>10, <1>11 DEF SourcesInv

LEMMA SourcesNextInv ==
  SourcesInv /\ [SourcesNext]_sourceVars => SourcesInv'
<1> SUFFICES ASSUME SourcesInv, [SourcesNext]_sourceVars PROVE SourcesInv'
  OBVIOUS
<1>1. CASE \E p \in Procs :
             \/ Search(p) \/ OpenSearch(p) \/ NextQuery(p) \/ OutOfQuota(p)
             \/ \E a \in PageAnswers : Request(p, a)
             \/ IngestPlace(p) \/ FinishSearch(p)
  BY <1>1, SearchStep, OpenSearchStep, NextQueryStep, OutOfQuotaStep, RequestStep,
     IngestPlaceStep, FinishSearchStep
<1>2. CASE \E p \in Procs :
             \/ Start(p) \/ Record(p) \/ WritePoll(p) \/ IngestRecord(p) \/ Die(p)
             \/ \E a \in StartAnswers : StartActor(p, a)
             \/ \E i \in DOMAIN remote : Poll(p, i) \/ Fetch(p, i)
  BY <1>2, StartStep, RecordStep, WritePollStep, IngestRecordStep, DieStep, StartActorStep,
     PollStep, FetchStep
<1>3. CASE \E i \in DOMAIN remote, state \in Terminal : RemoteEnds(i, state)
  BY <1>3, RemoteEndsStep
<1>4. CASE Pause \/ UNCHANGED sourceVars
  BY <1>4, PauseStep
<1> QED BY <1>1, <1>2, <1>3, <1>4 DEF SourcesNext

LEMMA SourcesInvariant ==
  SourcesSpec => []SourcesInv
BY SourcesInitInv, SourcesNextInv, PTL DEF SourcesSpec

(* Within the cap: what is owed counts too.                                *)
LEMMA WithinCap ==
  SourcesInv => SucceededWithinCap
<1> SUFFICES ASSUME SourcesInv PROVE SucceededWithinCap
  OBVIOUS
<1>1. Cardinality(Succeeded) + Cardinality(Owed)
        <= Cardinality(Serving("google")) * RequestCap
  BY DEF SourcesInv, CapInv
<1>2. Cardinality(Succeeded) \in Nat
  <2>1. Succeeded \subseteq log /\ IsFiniteSet(log)
    BY DEF Succeeded, SourcesInv, SourceTypes
  <2> QED BY <2>1, CountKept
<1>3. Cardinality(Serving("google")) * RequestCap \in Nat
  BY ServingFinite, SourceConstants
<1>4. Cardinality(Succeeded) <= Cardinality(Serving("google")) * RequestCap
  BY <1>1, <1>2, <1>3, OwedFinite
<1> QED BY <1>4 DEF SucceededWithinCap, Succeeded

LEMMA SourcesTyped ==
  SourcesInv => SourcesTypeOK
<1> SUFFICES ASSUME SourcesInv PROVE SourcesTypeOK
  OBVIOUS
<1>1. SourceTypes /\ LogSound /\ CallsSound
  BY DEF SourcesInv
<1>2. /\ DOMAIN druns = 1..Len(druns) /\ Len(druns) \in Nat
      /\ DOMAIN remote = 1..Len(remote) /\ Len(remote) \in Nat
      /\ DOMAIN rowOf = 1..Len(rowOf) /\ Len(remote) = Len(rowOf)
  BY <1>1, LenProperties DEF SourceTypes
<1>3. /\ \A r \in 1..Len(druns) : druns[r] \in SearchStates
      /\ \A i \in 1..Len(remote) : remote[i] \in ActorStates
      /\ \A i \in 1..Len(rowOf) : rowOf[i] \in ActorRows \union {None}
  BY <1>1, ElementOfSeq DEF SourceTypes
<1>4. ASSUME NEW p \in Procs
      PROVE  /\ job[p].left \in 0..RequestCap /\ job[p].attempts \in 0..MaxRetries
             /\ job[p].id \in 0..(Len(druns) + Len(remote))
  <2>1. job[p].left \in 0..RequestCap /\ job[p].attempts \in 0..MaxRetries
        /\ where[p] \in SourcePcs
    BY <1>1 DEF SourceTypes, SourceJobs
  <2>2. CASE where[p] \in SearchPcs
    <3>1. job[p].id \in DOMAIN druns
      BY <1>1, <2>2 DEF CallsSound, SearchSound
    <3> QED BY <1>2, <2>1, <3>1
  <2>3. CASE where[p] \in {"record", "write", "fetch"}
    <3>1. job[p].id \in DOMAIN rowOf
      BY <1>1, <2>3 DEF CallsSound, ActorSound, Recorded
    <3> QED BY <1>2, <2>1, <3>1
  <2>4. CASE where[p] \in {"idle", "open", "start"}
    <3>1. job[p].id = 0
      BY <1>1, <2>4 DEF CallsSound
    <3> QED BY <1>2, <2>1, <3>1
  <2> QED BY <2>1, <2>2, <2>3, <2>4 DEF SourcePcs
<1>5. \A r \in log : r.run \in DOMAIN druns /\ r.query \in DOMAIN Plan
  BY <1>1 DEF LogSound
<1>6. live \in BOOLEAN /\ clock \in 0..MaxClock /\ deaths \in 0..MaxDeaths
      /\ unheard \in 0..Len(remote)
  BY <1>1 DEF SourceTypes
<1> QED BY <1>2, <1>3, <1>4, <1>5, <1>6 DEF SourcesTypeOK, SearchStates

(* Every run at Apify has its row, or went unheard, or was nobody's once   *)
(* its process died, or is about to be recorded.                           *)
LEMMA RunsWithin ==
  SourcesInv => RunsBounded
<1> SUFFICES ASSUME SourcesInv, Serving("apify") # {}
    PROVE  LET slack == Cardinality(Serving("apify")) + unheard + deaths IN
           /\ Len(remote) < RunCap + slack
           /\ Cardinality({i \in DOMAIN remote : remote[i] = "RUNNING"}) < MaxConcurrent + slack
  BY DEF RunsBounded
<1> DEFINE running == {i \in DOMAIN remote : remote[i] = "RUNNING"}
           s == Cardinality(Serving("apify"))
<1>1. SourceTypes /\ RunsInv
  BY DEF SourcesInv
<1>2. /\ \A S \in {Starting, Recording, Recorded, Unrecorded, LiveRuns} :
           IsFiniteSet(S) /\ Cardinality(S) \in Nat
      /\ DOMAIN rowOf = 1..Len(rowOf) /\ Len(rowOf) \in Nat /\ DOMAIN remote = DOMAIN rowOf
      /\ Recorded \subseteq DOMAIN rowOf /\ unheard \in Nat /\ deaths \in Nat
  BY <1>1, RunSets
<1>3. s \in Nat /\ RunCap \in Nat /\ MaxConcurrent \in Nat
  BY ServingFinite, SourceConstants
<1> HIDE DEF s
<1>4. Cardinality(Recording) <= Cardinality(Starting)
  <2>1. Recording \subseteq Starting
    BY DEF Recording, Starting
  <2> QED BY <1>2, <2>1, CountKept
<1>5. Len(remote) = Cardinality(Recorded) + Cardinality(Unrecorded)
  <2>1. IsFiniteSet(DOMAIN rowOf) /\ Cardinality(DOMAIN rowOf) = Len(rowOf)
    <3> DEFINE n == Len(rowOf)
    <3>1. n \in Nat /\ DOMAIN rowOf = 1..n
      BY <1>2
    <3> HIDE DEF n
    <3>2. IsFiniteSet(1..n) /\ Cardinality(1..n) = IF 1 > n THEN 0 ELSE n - 1 + 1
      BY <3>1, FS_Interval
    <3>3. Cardinality(1..n) = n
      BY <3>1, <3>2
    <3> QED BY <3>1, <3>2, <3>3 DEF n
  <2>2. DOMAIN rowOf \intersect Recorded = Recorded
    BY <1>2
  <2>3. Cardinality(Unrecorded) = Len(rowOf) - Cardinality(Recorded)
    <3>1. Cardinality(DOMAIN rowOf \ Recorded)
            = Cardinality(DOMAIN rowOf) - Cardinality(DOMAIN rowOf \intersect Recorded)
      BY <2>1, FS_Difference
    <3> QED BY <2>1, <2>2, <3>1 DEF Unrecorded
  <2>4. Len(remote) = Len(rowOf) /\ Cardinality(Recorded) \in Nat
    BY <1>1, <1>2 DEF SourceTypes
  <2> QED BY <1>2, <2>3, <2>4
<1>6. /\ Cardinality(running) \in Nat
      /\ Cardinality(running) <= Cardinality(LiveRuns) + Cardinality(Unrecorded)
  <2>1. running \subseteq LiveRuns \union Unrecorded
    BY <1>2 DEF LiveRuns, Unrecorded
  <2>2. /\ IsFiniteSet(LiveRuns) /\ IsFiniteSet(Unrecorded)
        /\ Cardinality(LiveRuns) \in Nat /\ Cardinality(Unrecorded) \in Nat
    BY <1>2
  <2>3. /\ IsFiniteSet(LiveRuns \union Unrecorded)
        /\ Cardinality(LiveRuns \union Unrecorded) =
             Cardinality(LiveRuns) + Cardinality(Unrecorded)
               - Cardinality(LiveRuns \intersect Unrecorded)
    BY <2>2, FS_Union
  <2>4. Cardinality(LiveRuns \intersect Unrecorded) \in Nat
    <3>1. LiveRuns \intersect Unrecorded \subseteq LiveRuns
      OBVIOUS
    <3> QED BY <2>2, <3>1, CountKept
  <2>5. /\ Cardinality(running) \in Nat
        /\ Cardinality(running) <= Cardinality(LiveRuns \union Unrecorded)
    BY <2>1, <2>3, CountKept
  <2> QED BY <2>2, <2>3, <2>4, <2>5
<1> HIDE DEF running
<1>7. /\ Cardinality(Unrecorded) <= unheard + deaths + Cardinality(Recording)
      /\ Cardinality(Recorded) + Cardinality(Starting) < RunCap + s
      /\ Cardinality(LiveRuns) + Cardinality(Starting) < MaxConcurrent + s
  BY <1>1 DEF RunsInv, s
<1>8. /\ Cardinality(Starting) \in Nat /\ Cardinality(Recording) \in Nat
      /\ Cardinality(Recorded) \in Nat /\ Cardinality(Unrecorded) \in Nat
      /\ Cardinality(LiveRuns) \in Nat
  BY <1>2
<1>9. /\ Len(remote) < RunCap + (s + unheard + deaths)
      /\ Cardinality(running) < MaxConcurrent + (s + unheard + deaths)
  BY SMTT(40), <1>2, <1>3, <1>4, <1>5, <1>6, <1>7, <1>8
<1> QED BY <1>9 DEF running, s

(* Requests that bring a page stay within the daily cap, or within a cap   *)
(* for each process searching at a time: a search counts the pages it may  *)
(* yet ask for against what the log left it (estimate_google_request_count,*)
(* search_text), whatever fails, is retried, or dies.                      *)
THEOREM SucceededWithinCapHolds ==
  SourcesSpec => []SucceededWithinCap
BY SourcesInvariant, WithinCap, PTL

(* Only a search that asked every query of its plan and filed every record *)
(* it got is COMPLETED (execute_google_live).                              *)
THEOREM CompletedMeansWholePlanHolds ==
  SourcesSpec => []CompletedMeansWholePlan
<1>1. SourcesInv => CompletedMeansWholePlan
  BY DEF SourcesInv
<1> QED BY <1>1, SourcesInvariant, PTL

(* A dataset is marked fetched only when its run succeeded at Apify, and   *)
(* with a count of items other than 0 only when all its records are on     *)
(* file, whichever polls, fetches, deaths and unreadable answers came      *)
(* between (poll_apify_run, fetch_apify_dataset).                          *)
THEOREM FetchedIsIngestedHolds ==
  SourcesSpec => []FetchedIsIngested
<1>1. SourcesInv => FetchedIsIngested
  BY SourcesTyped DEF SourcesInv, FetchedInv, FetchedIsIngested, AllFiled
<1> QED BY <1>1, SourcesInvariant, PTL

(* Actor runs beyond the daily cap, or beyond those that may run at once,  *)
(* come of processes between the gate and the row, of answers that did not *)
(* arrive and of deaths, one each (_apify_live_gate).                      *)
THEOREM RunsBoundedHolds ==
  SourcesSpec => []RunsBounded
BY SourcesInvariant, RunsWithin, PTL
=============================================================================
