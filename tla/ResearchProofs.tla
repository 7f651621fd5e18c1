--------------------------- MODULE ResearchProofs ---------------------------
(***************************************************************************)
(* Two parts of the research on candidates.  First the research queue, for *)
(* every set of agents, candidates and handoffs, every cap and every       *)
(* number of days: that the ledger is what agents were told rests on the   *)
(* one transaction of a commit; that evidence is not lost rests on what a  *)
(* merge holds while no other call is in progress.  QueueInv is inductive. *)
(* Then website enrichment, for every set of enrichers, every site and     *)
(* every robots.txt: WebInv is inductive, and what _robots_allows makes of *)
(* a file is proved for files of any length.                               *)
(***************************************************************************)
EXTENDS ResearchQueue, Website, FiniteSetTheorems, SequenceTheorems, WellFoundedInduction, TLAPS

(* A call in progress knows its day, and one on a candidate the candidate. *)
CallsKnow ==
  \A p \in Procs :
    /\ pc[p] # "idle" => day[p] \in Days
    /\ pc[p] \in {"commit", "evidence"} => cur[p] \in Candidates

(* Without overlap one call is in progress at most. *)
LoneAgent ==
  ~overlapped => \A p, q \in Procs : pc[p] # "idle" /\ pc[q] # "idle" => p = q

(* Without overlap a merge holds everything recorded so far. *)
NothingMissed ==
  \A p \in Procs : ~overlapped /\ pc[p] = "evidence" /\ ~found[p].replaces =>
    makers[cur[p]] \subseteq found[p].merged

QueueInv == TypeOK /\ CallsKnow /\ LoneAgent /\ NothingMissed /\ LedgerMatchesAnswers

-----------------------------------------------------------------------------
(* What is left of a day's cap is at most the cap. *)
LEMMA RemainingBounded ==
  ASSUME NEW d PROVE Remaining(d) \in Int /\ Remaining(d) <= Cap
<1>1. IsFiniteSet(CompletedOn(d))
  BY QueueAssumption, FS_Subset DEF CompletedOn
<1> QED
  BY <1>1, FS_CardinalityType, QueueAssumption DEF Remaining

LEMMA InitInv == Init => QueueInv
<1> SUFFICES ASSUME Init PROVE QueueInv
  OBVIOUS
<1> USE QueueAssumption DEF Init
<1>1. TypeOK
  <2>1. /\ research \in [Candidates -> {"ABSENT", "NOT_PROCESSED", "RESEARCHED"}]
        /\ progress \in [Candidates -> {"NONE", "IN_PROGRESS", "COMPLETED"}]
        /\ packet \in [Candidates -> Procs \union {Nobody, Saved}]
        /\ makers \in [Candidates -> SUBSET Procs]
        /\ stage \in [Handoffs -> {"none", "discovery", "research"}]
    OBVIOUS
  <2>2. /\ doneOn \in [Candidates -> 0..MaxDay] /\ today \in Days
        /\ day \in [Procs -> 0..MaxDay] /\ left \in [Procs -> 0..Cap]
    BY DEF Days
  <2>3. /\ pc \in [Procs -> {"idle", "read", "write", "commit", "evidence"}]
        /\ rows \in [Procs -> SUBSET Candidates] /\ batch \in [Procs -> SUBSET Candidates]
        /\ cur \in [Procs -> Candidates \union {NoCandidate}]
    OBVIOUS
  <2>4. found \in [Procs -> [merged : SUBSET Procs, replaces : BOOLEAN]]
    BY DEF NoEvidence
  <2> QED
    BY <2>1, <2>2, <2>3, <2>4 DEF TypeOK
<1>2. CallsKnow /\ LoneAgent /\ NothingMissed
  BY DEF CallsKnow, LoneAgent, NothingMissed
<1>3. LedgerMatchesAnswers
  BY DEF LedgerMatchesAnswers
<1> QED
  BY <1>1, <1>2, <1>3 DEF QueueInv

-----------------------------------------------------------------------------
(* A step that begins a call keeps the ledger and is the only one then     *)
(* unless calls overlap; one that ends a call leaves no new one.           *)

LEMMA ReadPlanInv ==
  ASSUME QueueInv, NEW p \in Procs, ReadPlan(p) PROVE QueueInv'
<1> USE DEF QueueInv, ReadPlan, Begins, Goto, tables
<1>1. TypeOK'
  <2>1. Remaining(today) \in 0..Cap
    BY RemainingBounded, QueueAssumption
  <2>2. left' \in [Procs -> 0..Cap]
    BY <2>1 DEF TypeOK
  <2>3. today \in 0..MaxDay
    BY QueueAssumption DEF TypeOK, Days
  <2>4. day' \in [Procs -> 0..MaxDay]
    BY <2>3 DEF TypeOK
  <2> QED
    BY <2>2, <2>4 DEF TypeOK
<1>2. CallsKnow' /\ LoneAgent'
  <2>1. /\ pc' = [pc EXCEPT ![p] = "read"] /\ day' = [day EXCEPT ![p] = today]
        /\ cur' = cur /\ overlapped' = (overlapped \/ \E q \in Procs : pc[q] # "idle")
    OBVIOUS
  <2>2. CallsKnow'
    BY <2>1 DEF TypeOK, CallsKnow
  <2>3. ASSUME ~overlapped', NEW q \in Procs, pc'[q] # "idle" PROVE q = p
    BY <2>1, <2>3 DEF TypeOK
  <2> QED
    BY <2>2, <2>3 DEF LoneAgent
<1>3. NothingMissed'
  BY DEF TypeOK, NothingMissed
<1>4. LedgerMatchesAnswers'
  BY DEF LedgerMatchesAnswers
<1> QED
  BY <1>1, <1>2, <1>3, <1>4

LEMMA ReadRowsInv ==
  ASSUME QueueInv, NEW p \in Procs, ReadRows(p) PROVE QueueInv'
<1> USE DEF QueueInv, ReadRows, Goto, tables
<1>1. TypeOK'
  BY DEF TypeOK, FirstRows, Waiting
<1>2. CallsKnow' /\ LoneAgent'
  BY DEF TypeOK, CallsKnow, LoneAgent, Days
<1>3. NothingMissed'
  BY DEF TypeOK, NothingMissed
<1>4. LedgerMatchesAnswers'
  BY DEF LedgerMatchesAnswers
<1> QED
  BY <1>1, <1>2, <1>3, <1>4

LEMMA WriteRowsInv ==
  ASSUME QueueInv, NEW p \in Procs, WriteRows(p) PROVE QueueInv'
<1> USE DEF QueueInv, WriteRows, EndCall, Goto
<1>1. TypeOK'
  BY QueueAssumption DEF TypeOK, Opened, NoCandidate, NoEvidence
<1>2. CallsKnow' /\ LoneAgent'
  BY DEF TypeOK, CallsKnow, LoneAgent, Days
<1>3. NothingMissed'
  BY DEF TypeOK, NothingMissed
<1>4. LedgerMatchesAnswers'
  BY DEF TypeOK, LedgerMatchesAnswers, Opened
<1> QED
  BY <1>1, <1>2, <1>3, <1>4

LEMMA BeginCommitInv ==
  ASSUME QueueInv, NEW p \in Procs, NEW c \in Candidates, BeginCommit(p, c)
  PROVE  QueueInv'
<1> USE DEF QueueInv, BeginCommit, Begins, Goto, tables
<1>1. TypeOK'
  BY QueueAssumption DEF TypeOK, Days
<1>2. CallsKnow' /\ LoneAgent'
  BY ZenonT(60) DEF TypeOK, CallsKnow, LoneAgent, Days
<1>3. NothingMissed'
  BY DEF TypeOK, NothingMissed
<1>4. LedgerMatchesAnswers'
  BY DEF LedgerMatchesAnswers
<1> QED
  BY <1>1, <1>2, <1>3, <1>4

LEMMA CommitResearchInv ==
  ASSUME QueueInv, NEW p \in Procs, CommitResearch(p) PROVE QueueInv'
<1> DEFINE c == cur[p]
<1>0. c \in Candidates /\ day[p] \in Days
  BY DEF QueueInv, CommitResearch, CallsKnow
<1> USE DEF QueueInv, CommitResearch, EndCall, Goto
<1>1. TypeOK'
  <2>1. day[p] \in 0..MaxDay /\ 0 \in 0..MaxDay /\ 0 \in 0..Cap
    BY <1>0, QueueAssumption DEF Days
  <2>2. /\ research' \in [Candidates -> {"ABSENT", "NOT_PROCESSED", "RESEARCHED"}]
        /\ progress' \in [Candidates -> {"NONE", "IN_PROGRESS", "COMPLETED"}]
        /\ doneOn' \in [Candidates -> 0..MaxDay]
        /\ packet' \in [Candidates -> Procs \union {Nobody, Saved}]
        /\ answered' \subseteq Candidates
    <3>1. CASE Committable(c)
      <4>1. /\ progress' = [progress EXCEPT ![c] = "COMPLETED"]
            /\ doneOn' = [doneOn EXCEPT ![c] = day[p]]
            /\ research' = [research EXCEPT ![c] = "RESEARCHED"]
            /\ packet' = [packet EXCEPT ![c] = p]
            /\ answered' = answered \union {c}
        BY <3>1
      <4> QED
        BY <1>0, <2>1, <4>1 DEF TypeOK
    <3>2. CASE ~Committable(c)
      <4>1. /\ progress' = [progress EXCEPT ![c] = progress[c]]
            /\ UNCHANGED <<research, doneOn, packet, answered>>
        BY <3>2 DEF RolledBack
      <4> QED
        BY <1>0, <4>1 DEF TypeOK
    <3> QED
      BY <3>1, <3>2
  <2>3. /\ pc' \in [Procs -> {"idle", "read", "write", "commit", "evidence"}]
        /\ day' \in [Procs -> 0..MaxDay] /\ left' \in [Procs -> 0..Cap]
        /\ rows' \in [Procs -> SUBSET Candidates]
        /\ cur' \in [Procs -> Candidates \union {NoCandidate}]
    BY <2>1 DEF TypeOK, NoCandidate
  <2>4. found' \in [Procs -> [merged : SUBSET Procs, replaces : BOOLEAN]]
    BY DEF TypeOK, NoEvidence
  <2> QED
    BY <2>2, <2>3, <2>4 DEF TypeOK
<1>2. CallsKnow' /\ LoneAgent'
  BY DEF TypeOK, CallsKnow, LoneAgent, Days
<1>3. NothingMissed'
  BY DEF TypeOK, NothingMissed
<1>4. LedgerMatchesAnswers'
  BY <1>0, QueueAssumption DEF TypeOK, LedgerMatchesAnswers, RolledBack, Days
<1> QED
  BY <1>1, <1>2, <1>3, <1>4

LEMMA ReadEvidenceInv ==
  ASSUME QueueInv, NEW p \in Procs, NEW c \in Sought, NEW replaces \in BOOLEAN,
         ReadEvidence(p, c, replaces)
  PROVE  QueueInv'
<1> DEFINE merged == {p} \union (IF replaces THEN {} ELSE makers[c])
<1>0. c \in Candidates /\ merged \in SUBSET Procs
  BY QueueAssumption DEF QueueInv, TypeOK
<1>f. found' = [found EXCEPT ![p] = [merged |-> merged, replaces |-> replaces]]
  BY DEF ReadEvidence
<1> USE DEF QueueInv, ReadEvidence, Begins, Goto, tables
<1>1. TypeOK'
  BY <1>0, <1>f, QueueAssumption DEF TypeOK, Days
<1>2. CallsKnow' /\ LoneAgent'
  BY ZenonT(60), <1>0 DEF TypeOK, CallsKnow, LoneAgent, Days
<1>3. NothingMissed'
  BY <1>0, <1>f DEF TypeOK, NothingMissed
<1>4. LedgerMatchesAnswers'
  BY DEF LedgerMatchesAnswers
<1> QED
  BY <1>1, <1>2, <1>3, <1>4

LEMMA WriteEvidenceInv ==
  ASSUME QueueInv, NEW p \in Procs, WriteEvidence(p) PROVE QueueInv'
<1> USE DEF QueueInv, WriteEvidence, EndCall, Goto
<1>0. cur[p] \in Candidates /\ found[p].merged \in SUBSET Procs
  BY DEF CallsKnow, TypeOK
<1>1. TypeOK'
  BY <1>0, QueueAssumption DEF TypeOK, NoCandidate, NoEvidence
<1>2. CallsKnow' /\ LoneAgent'
  BY DEF TypeOK, CallsKnow, LoneAgent, Days
<1>3. NothingMissed'
  BY SMTT(40) DEF TypeOK, NothingMissed, LoneAgent
<1>4. LedgerMatchesAnswers'
  BY DEF LedgerMatchesAnswers
<1> QED
  BY <1>1, <1>2, <1>3, <1>4

LEMMA CrashInv ==
  ASSUME QueueInv, NEW p \in Procs, Crash(p) PROVE QueueInv'
<1> USE DEF QueueInv, Crash, EndCall, Goto, tables
<1>1. TypeOK'
  BY QueueAssumption DEF TypeOK, NoCandidate, NoEvidence
<1>2. CallsKnow' /\ LoneAgent'
  BY DEF TypeOK, CallsKnow, LoneAgent, Days
<1>3. NothingMissed'
  BY DEF TypeOK, NothingMissed
<1>4. LedgerMatchesAnswers'
  BY DEF LedgerMatchesAnswers
<1> QED
  BY <1>1, <1>2, <1>3, <1>4

(* A recovery stage puts no agent's packet and no agent's evidence in.     *)
LEMMA RecoveryInv ==
  ASSUME QueueInv, NEW h \in Handoffs, CommitDiscovery(h) \/ CommitQualification(h)
  PROVE  QueueInv'
<1> USE DEF QueueInv, locals
<1>1. CASE CommitDiscovery(h)
  <2> USE <1>1 DEF CommitDiscovery
  <2>1. TypeOK'
    BY DEF TypeOK
  <2>2. CallsKnow' /\ LoneAgent'
    BY DEF CallsKnow, LoneAgent
  <2>3. NothingMissed' /\ LedgerMatchesAnswers'
    BY DEF NothingMissed, LedgerMatchesAnswers
  <2> QED
    BY <2>1, <2>2, <2>3
<1>2. CASE CommitQualification(h)
  <2> USE <1>2 DEF CommitQualification
  <2>1. TypeOK'
    BY DEF TypeOK
  <2>2. CallsKnow' /\ LoneAgent'
    BY DEF CallsKnow, LoneAgent
  <2>3. NothingMissed'
    BY DEF TypeOK, NothingMissed, CallsKnow
  <2>4. LedgerMatchesAnswers'
    BY QueueAssumption DEF TypeOK, LedgerMatchesAnswers
  <2> QED
    BY <2>1, <2>2, <2>3, <2>4
<1> QED
  BY <1>1, <1>2

LEMMA MidnightInv == QueueInv /\ Midnight => QueueInv'
<1> SUFFICES ASSUME QueueInv, Midnight PROVE QueueInv'
  OBVIOUS
<1> USE DEF QueueInv, Midnight, tables, locals
<1>1. TypeOK'
  BY QueueAssumption DEF TypeOK, Days
<1>2. CallsKnow' /\ LoneAgent' /\ NothingMissed' /\ LedgerMatchesAnswers'
  BY DEF CallsKnow, LoneAgent, NothingMissed, LedgerMatchesAnswers
<1> QED
  BY <1>1, <1>2

LEMMA NextInv == QueueInv /\ [Next]_vars => QueueInv'
<1> SUFFICES ASSUME QueueInv, [Next]_vars PROVE QueueInv'
  OBVIOUS
<1>1. CASE UNCHANGED vars
  BY <1>1 DEF QueueInv, TypeOK, CallsKnow, LoneAgent, NothingMissed,
              LedgerMatchesAnswers, vars, tables, locals
<1>2. CASE Next
  BY <1>2, MidnightInv, RecoveryInv, ReadPlanInv, ReadRowsInv, WriteRowsInv,
     BeginCommitInv, CommitResearchInv, ReadEvidenceInv, WriteEvidenceInv, CrashInv
     DEF Next
<1> QED
  BY <1>1, <1>2

LEMMA SpecInv == Spec => []QueueInv
  BY InitInv, NextInv, PTL DEF Spec
-----------------------------------------------------------------------------
(* The ledger and the agents' locals are typed. *)
THEOREM TypesHold == Spec => []TypeOK
<1>1. QueueInv => TypeOK
  BY DEF QueueInv
<1> QED
  BY <1>1, SpecInv, PTL

(* The ledger, and so the daily count, is exactly what agents were told is *)
(* completed, whatever handoffs are imported and whichever agents die.     *)
THEOREM LedgerMatchesAnswersHolds == Spec => []LedgerMatchesAnswers
<1>1. QueueInv => LedgerMatchesAnswers
  BY DEF QueueInv
<1> QED
  BY <1>1, SpecInv, PTL

-----------------------------------------------------------------------------
(* Of the steps that leave the stages alone, only a commit writes packet   *)
(* or date, and only on a candidate that is still waiting.                 *)
LEMMA PacketStep ==
  ASSUME QueueInv, [Next]_vars, NEW c \in Candidates
  PROVE  /\ research[c] = "RESEARCHED" /\ stage' = stage =>
              /\ research'[c] = "RESEARCHED" /\ packet'[c] = packet[c]
              /\ doneOn'[c] = doneOn[c]
         /\ progress[c] = "COMPLETED" => progress'[c] = "COMPLETED"
<1> USE DEF QueueInv, TypeOK
<1>1. CASE UNCHANGED vars
  BY <1>1 DEF vars, tables
<1>2. CASE Midnight
  BY <1>2 DEF Midnight, tables
<1>3. CASE \E h \in Handoffs : CommitDiscovery(h) \/ CommitQualification(h)
  BY <1>3 DEF CommitDiscovery, CommitQualification
<1>4. ASSUME NEW p \in Procs,
             \/ ReadPlan(p) \/ ReadRows(p) \/ WriteEvidence(p) \/ Crash(p)
             \/ \E d \in Candidates : BeginCommit(p, d)
             \/ \E d \in Sought, replaces \in BOOLEAN : ReadEvidence(p, d, replaces)
      PROVE  UNCHANGED <<research, progress, doneOn, packet>>
  BY <1>4 DEF ReadPlan, ReadRows, WriteEvidence, Crash, BeginCommit, ReadEvidence, tables
<1>5. ASSUME NEW p \in Procs, WriteRows(p)
      PROVE  /\ UNCHANGED <<research, doneOn, packet>>
             /\ progress[c] = "COMPLETED" => progress'[c] = "COMPLETED"
  BY <1>5 DEF WriteRows, Opened
<1>6. ASSUME NEW p \in Procs, CommitResearch(p)
      PROVE  /\ research[c] = "RESEARCHED" =>
                  /\ research'[c] = "RESEARCHED" /\ packet'[c] = packet[c]
                  /\ doneOn'[c] = doneOn[c]
             /\ progress[c] = "COMPLETED" => progress'[c] = "COMPLETED"
  BY <1>6 DEF CommitResearch, Committable, RolledBack
<1> QED
  BY <1>1, <1>2, <1>3, <1>4, <1>5, <1>6 DEF Next

(* The only step that writes evidence and leaves the stages alone writes   *)
(* a merge, which misses nothing while calls do not overlap.               *)
LEMMA EvidenceStep ==
  ASSUME QueueInv, [Next]_vars, NEW c \in Candidates,
         ~overlapped, stage' = stage, ~Replacing(c)
  PROVE  makers[c] \subseteq makers'[c]
<1> USE DEF QueueInv, TypeOK
<1>1. CASE UNCHANGED makers
  BY <1>1
<1>2. ASSUME NEW p \in Procs, WriteEvidence(p) PROVE makers[c] \subseteq makers'[c]
  BY <1>2 DEF WriteEvidence, NothingMissed, Replacing, CallsKnow
<1>3. ASSUME NEW h \in Handoffs PROVE ~CommitDiscovery(h) /\ ~CommitQualification(h)
  BY <1>3 DEF CommitDiscovery, CommitQualification
<1> QED
  BY <1>1, <1>2, <1>3 DEF Next, vars, tables, Midnight, ReadPlan, ReadRows, WriteRows,
     BeginCommit, CommitResearch, ReadEvidence, Crash

(* What agents have committed on a candidate stands: the first packet and  *)
(* its date, and, while calls do not overlap, all evidence on its decision *)
(* maker that nobody asked to replace.                                     *)
THEOREM ResearchStandsHolds == Spec => ResearchStands
<1> DEFINE Kept ==
      \A c \in Candidates :
        /\ research[c] = "RESEARCHED" /\ stage' = stage =>
             /\ research'[c] = "RESEARCHED" /\ packet'[c] = packet[c]
             /\ doneOn'[c] = doneOn[c]
        /\ progress[c] = "COMPLETED" => progress'[c] = "COMPLETED"
<1> DEFINE Grown ==
      \A c \in Candidates :
        ~overlapped /\ stage' = stage /\ ~Replacing(c) => makers[c] \subseteq makers'[c]
<1>1. QueueInv /\ [Next]_vars => [Kept]_vars
  BY PacketStep
<1>2. QueueInv /\ [Next]_vars => [Grown]_vars
  BY EvidenceStep
<1>3. Spec => [][Kept]_vars
  BY <1>1, SpecInv, PTL DEF Spec
<1>4. Spec => [][Grown]_vars
  BY <1>2, SpecInv, PTL DEF Spec
<1> QED
  BY <1>3, <1>4 DEF ResearchStands, FirstPacketStands, EvidenceKept

-----------------------------------------------------------------------------
(* The batches, for every set of agents, candidates and handoffs and every *)
(* cap: they are taken up in order, whatever overlaps (OrderInv), and a    *)
(* day completes no more than its cap, while calls follow one another      *)
(* (CapInv).                                                               *)

(* A candidate is there from the first stage of its handoff on, and those  *)
(* created before it too; only known ones are in ledger and batches.       *)
PresentByStage ==
  \A c \in Candidates : research[c] = "ABSENT" <=> stage[HandoffOf[c]] = "none"
NoGap ==
  \A c, d \in Candidates : d < c /\ research[c] # "ABSENT" => research[d] # "ABSENT"
KnownPresent ==
  /\ \A c \in Candidates : progress[c] # "NONE" => research[c] # "ABSENT"
  /\ \A p \in Procs : \A c \in rows[p] : research[c] # "ABSENT"

(* Before the second stage only the queue has researched anything. *)
ResearchedHere ==
  \A c \in Candidates :
    research[c] = "RESEARCHED" /\ stage[HandoffOf[c]] = "discovery" =>
      progress[c] = "COMPLETED"

(* Rows that were read leave nobody older behind. *)
RowsClosed ==
  \A p \in Procs : \A c \in rows[p], d \in Candidates :
    d < c /\ research[d] = "NOT_PROCESSED" => d \in rows[p] \/ progress[d] # "NONE"

OrderInv == /\ QueueInv /\ PresentByStage /\ NoGap /\ KnownPresent /\ ResearchedHere
            /\ RowsClosed /\ OldestFirst

(* What waits with a ledger entry may be committed any time, and after the *)
(* write also what that call has read; both count against a day's cap.     *)
Active == {c \in Candidates : progress[c] = "IN_PROGRESS" /\ research[c] = "NOT_PROCESSED"}
Coming(p) ==
  Active \union {c \in rows[p] : progress[c] = "NONE" /\ research[c] = "NOT_PROCESSED"}
Fits(d, S) == Cardinality(CompletedOn(d)) + Cardinality(S) <= Cap
EmptyAfter(d) == \A e \in Days : e > d => CompletedOn(e) = {}

(* What a call knows about the day it began on. *)
DayFits(p) ==
  /\ day[p] <= today /\ Fits(day[p], Active) /\ EmptyAfter(day[p])
  /\ pc[p] = "read" => left[p] = Remaining(day[p])
  /\ pc[p] = "write" => Fits(day[p], Coming(p))
  /\ pc[p] = "commit" => progress[cur[p]] = "IN_PROGRESS"

(* An agent holds only what is in the ledger, and works on nothing else. *)
BatchesOpened ==
  \A p \in Procs :
    /\ \A c \in batch[p] : progress[c] # "NONE"
    /\ pc[p] = "commit" => progress[cur[p]] # "NONE"

Balance ==
  /\ \A d \in Days : Cardinality(CompletedOn(d)) <= Cap
  /\ Fits(today, Active) /\ EmptyAfter(today)
  /\ \A p \in Procs : pc[p] # "idle" => DayFits(p)
CapInv == ~overlapped => Balance
-----------------------------------------------------------------------------
(* The order of _waiting_rows, and a batch as a beginning of it. *)

Earlier(c) == {d \in Waiting : Before(d, c)}

(* Only finitely many candidates wait ahead of one. *)
LEMMA EarlierFinite ==
  ASSUME NEW c \in Candidates
  PROVE  IsFiniteSet(Earlier(c)) /\ Cardinality(Earlier(c)) \in Nat
<1>1. Earlier(c) \subseteq Candidates
  BY DEF Earlier, Waiting
<1> QED
  BY <1>1, QueueAssumption, FS_Subset, FS_CardinalityType

(* Who comes before has fewer before it. *)
LEMMA EarlierFewer ==
  ASSUME NEW c \in Waiting, NEW d \in Waiting, Before(d, c)
  PROVE  Cardinality(Earlier(d)) < Cardinality(Earlier(c))
<1>0. c \in Nat /\ d \in Nat /\ c \in Candidates /\ d \in Candidates /\ Waiting \subseteq Nat
  BY QueueAssumption DEF Waiting
<1>1. Earlier(d) \subseteq Earlier(c)
  BY <1>0 DEF Earlier, Waiting, Before
<1>2. d \in Earlier(c) /\ d \notin Earlier(d)
  BY <1>0 DEF Earlier, Before
<1>3. IsFiniteSet(Earlier(c)) /\ Cardinality(Earlier(c)) \in Nat
      /\ Cardinality(Earlier(d)) \in Nat
  BY <1>0, EarlierFinite
<1>4. Cardinality(Earlier(d)) <= Cardinality(Earlier(c))
      /\ (Cardinality(Earlier(d)) = Cardinality(Earlier(c)) => Earlier(d) = Earlier(c))
  BY <1>1, <1>3, FS_Subset
<1> QED
  BY <1>2, <1>3, <1>4

(* Of two waiting candidates one comes before the other. *)
LEMMA BeforeTotal ==
  ASSUME NEW c \in Waiting, NEW d \in Waiting, c # d PROVE Before(c, d) \/ Before(d, c)
  BY QueueAssumption DEF Waiting, Before

(* A batch is no longer than asked for: ranks tell its members apart. *)
LEMMA FirstRowsBounded ==
  ASSUME NEW n \in Nat
  PROVE  FirstRows(n) \subseteq Candidates /\ Cardinality(FirstRows(n)) <= n
<1> DEFINE rank == [c \in FirstRows(n) |-> Cardinality(Earlier(c))]
<1>1. FirstRows(n) = {c \in Waiting : Cardinality(Earlier(c)) < n}
  BY DEF FirstRows, Earlier
<1>2. FirstRows(n) \subseteq Candidates
  BY DEF FirstRows, Waiting
<1>3. \A c \in FirstRows(n) : rank[c] \in 0..(n - 1)
  BY <1>1, <1>2, EarlierFinite
<1>4. \A c, d \in FirstRows(n) : c # d => rank[c] # rank[d]
  <2> SUFFICES ASSUME NEW c \in FirstRows(n), NEW d \in FirstRows(n), c # d
               PROVE  Cardinality(Earlier(c)) # Cardinality(Earlier(d))
    OBVIOUS
  <2>1. c \in Waiting /\ d \in Waiting
    BY <1>1
  <2>2. Cardinality(Earlier(c)) \in Nat /\ Cardinality(Earlier(d)) \in Nat
    BY <1>2, EarlierFinite
  <2> QED
    BY <2>1, <2>2, BeforeTotal, EarlierFewer
<1>5. rank \in Injection(FirstRows(n), 0..(n - 1))
  BY <1>3, <1>4 DEF Injection, IsInjective
<1>6. IsFiniteSet(0..(n - 1)) /\ Cardinality(0..(n - 1)) = n
  BY FS_Interval
<1>7. Cardinality(FirstRows(n)) <= Cardinality(0..(n - 1))
  BY <1>5, <1>6, FS_Injection
<1> QED
  BY <1>2, <1>6, <1>7

(* It leaves out nobody older. *)
LEMMA FirstRowsClosed ==
  ASSUME OldestFirst, NEW n \in Nat, NEW c \in FirstRows(n), NEW d \in Candidates,
         d < c, research[d] = "NOT_PROCESSED", progress[d] = "NONE"
  PROVE  d \in FirstRows(n)
<1>1. c \in Waiting /\ d \in Waiting /\ c \in Candidates /\ c # d
  BY QueueAssumption DEF FirstRows, Waiting
<1>2. progress[c] = "NONE"
  BY <1>1 DEF OldestFirst
<1>3. Before(d, c)
  BY <1>2 DEF Before
<1>4. Cardinality(Earlier(d)) < Cardinality(Earlier(c)) /\ Cardinality(Earlier(c)) < n
  BY <1>1, <1>3, EarlierFewer DEF FirstRows, Earlier
<1>5. Cardinality(Earlier(d)) \in Nat /\ Cardinality(Earlier(c)) \in Nat
  BY <1>1, EarlierFinite
<1> QED
  BY <1>1, <1>4, <1>5 DEF FirstRows, Earlier

(* It takes what is in the ledger before anything new. *)
LEMMA FirstRowsTakeActive ==
  ASSUME NEW n \in Nat
  PROVE  Active \subseteq FirstRows(n) \/ FirstRows(n) \subseteq Active
<1> SUFFICES ASSUME NEW a \in Active, a \notin FirstRows(n), NEW c \in FirstRows(n)
             PROVE  c \in Active
  OBVIOUS
<1>1. a \in Waiting /\ c \in Waiting /\ a \in Candidates /\ c \in Candidates
  BY DEF Active, FirstRows, Waiting
<1> SUFFICES ASSUME progress[c] # "IN_PROGRESS" PROVE FALSE
  BY <1>1 DEF Active, Waiting
<1>2. Before(a, c)
  BY <1>1 DEF Active, Before, Waiting
<1>3. Cardinality(Earlier(a)) < Cardinality(Earlier(c)) /\ Cardinality(Earlier(c)) < n
  BY <1>1, <1>2, EarlierFewer DEF FirstRows, Earlier
<1>4. Cardinality(Earlier(a)) \in Nat /\ Cardinality(Earlier(c)) \in Nat
  BY <1>1, EarlierFinite
<1> QED
  BY <1>1, <1>3, <1>4 DEF FirstRows, Earlier
-----------------------------------------------------------------------------
(* OrderInv is inductive. *)

(* An empty queue is in order. *)
LEMMA OrderInit == Init => OrderInv
<1> SUFFICES ASSUME Init PROVE OrderInv
  OBVIOUS
<1>1. QueueInv
  BY InitInv
<1>2. \A c \in Candidates : research[c] = "ABSENT" /\ progress[c] = "NONE"
  BY DEF Init
<1>3. \A c \in Candidates : stage[HandoffOf[c]] = "none"
  BY QueueAssumption DEF Init
<1>4. \A p \in Procs : rows[p] = {}
  BY DEF Init
<1> QED
  BY <1>1, <1>2, <1>3, <1>4
  DEF OrderInv, PresentByStage, NoGap, KnownPresent, ResearchedHere, RowsClosed, OldestFirst

(* What does not touch the queue leaves its order alone. *)
LEMMA OrderCalm ==
  ASSUME OrderInv, QueueInv', UNCHANGED <<research, progress, stage>>,
         \A p \in Procs : rows'[p] = rows[p] \/ rows'[p] = {}
  PROVE  OrderInv'
BY DEF OrderInv, PresentByStage, NoGap, KnownPresent, ResearchedHere, RowsClosed, OldestFirst

(* A batch is read from the oldest on, so it leaves nobody older behind. *)
LEMMA OrderReadRows ==
  ASSUME OrderInv, QueueInv', NEW p \in Procs, ReadRows(p)
  PROVE  OrderInv'
<1>1. /\ left[p] \in Nat /\ rows' = [rows EXCEPT ![p] = FirstRows(left[p])]
      /\ UNCHANGED <<research, progress, stage>>
  BY QueueAssumption DEF OrderInv, QueueInv, TypeOK, ReadRows, tables
<1>2. \A c \in FirstRows(left[p]) : c \in Candidates /\ research[c] # "ABSENT"
  BY DEF FirstRows, Waiting
<1>3. KnownPresent'
  BY <1>1, <1>2 DEF OrderInv, QueueInv, TypeOK, KnownPresent
<1>4. RowsClosed'
  BY <1>1, FirstRowsClosed DEF OrderInv, QueueInv, TypeOK, RowsClosed
<1> QED
  BY <1>1, <1>3, <1>4
  DEF OrderInv, PresentByStage, NoGap, ResearchedHere, OldestFirst

(* Writing a batch opens an entry for every row that was read. *)
LEMMA OrderWriteRows ==
  ASSUME OrderInv, QueueInv', NEW p \in Procs, WriteRows(p)
  PROVE  OrderInv'
<1>1. /\ progress' = [c \in Candidates |-> IF c \in rows[p] THEN Opened(c) ELSE progress[c]]
      /\ rows' = [rows EXCEPT ![p] = {}] /\ UNCHANGED <<research, stage>>
  BY DEF WriteRows, EndCall
<1>2. \A c \in Candidates :
        /\ progress'[c] # "NONE" <=> progress[c] # "NONE" \/ c \in rows[p]
        /\ progress[c] = "COMPLETED" => progress'[c] = "COMPLETED"
  BY <1>1 DEF Opened
<1>3. \A q \in Procs : rows'[q] \subseteq rows[q] /\ rows[q] \subseteq Candidates
  BY <1>1 DEF OrderInv, QueueInv, TypeOK
<1>4. PresentByStage' /\ NoGap' /\ ResearchedHere'
  BY <1>1, <1>2 DEF OrderInv, PresentByStage, NoGap, ResearchedHere
<1>5. KnownPresent'
  BY <1>1, <1>2, <1>3 DEF OrderInv, KnownPresent
<1>6. RowsClosed'
  <2> SUFFICES ASSUME NEW q \in Procs, NEW c \in rows'[q], NEW d \in Candidates,
                      d < c, research[d] = "NOT_PROCESSED"
               PROVE  d \in rows'[q] \/ progress'[d] # "NONE"
    BY <1>1 DEF RowsClosed
  <2>1. rows'[q] = rows[q]
    BY <1>1 DEF OrderInv, QueueInv, TypeOK
  <2> QED
    BY <2>1, <1>2 DEF OrderInv, RowsClosed
<1>7. OldestFirst'
  BY <1>1, <1>2 DEF OrderInv, OldestFirst, RowsClosed
<1> QED
  BY <1>4, <1>5, <1>6, <1>7 DEF OrderInv

(* A commit researches what the ledger has opened. *)
LEMMA OrderCommitResearch ==
  ASSUME OrderInv, BatchesOpened, QueueInv', NEW p \in Procs, CommitResearch(p)
  PROVE  OrderInv'
<1>1. cur[p] \in Candidates /\ rows' = [rows EXCEPT ![p] = {}] /\ UNCHANGED stage
  BY DEF OrderInv, QueueInv, CallsKnow, CommitResearch, EndCall
<1>2. CASE ~Committable(cur[p])
  <2>1. UNCHANGED <<research, progress>>
    BY <1>1, <1>2 DEF CommitResearch, RolledBack, OrderInv, QueueInv, TypeOK
  <2> QED
    BY <1>1, <2>1, OrderCalm DEF OrderInv, QueueInv, TypeOK
<1>3. CASE Committable(cur[p])
  <2>1. /\ progress' = [progress EXCEPT ![cur[p]] = "COMPLETED"]
        /\ research' = [research EXCEPT ![cur[p]] = "RESEARCHED"]
        /\ research[cur[p]] = "NOT_PROCESSED"
    BY <1>3 DEF CommitResearch, Committable
  <2>2. \A c \in Candidates :
          /\ research'[c] = "ABSENT" <=> research[c] = "ABSENT"
          /\ research'[c] = "NOT_PROCESSED" => research[c] = "NOT_PROCESSED"
          /\ c # cur[p] => research'[c] = research[c] /\ progress'[c] = progress[c]
          /\ progress[c] # "NONE" => progress'[c] # "NONE"
    BY <1>1, <2>1 DEF OrderInv, QueueInv, TypeOK
  <2>3. progress'[cur[p]] = "COMPLETED"
    BY <1>1, <2>1 DEF OrderInv, QueueInv, TypeOK
  <2>4. \A q \in Procs : rows'[q] \subseteq rows[q] /\ rows[q] \subseteq Candidates
    BY <1>1 DEF OrderInv, QueueInv, TypeOK
  <2>5. PresentByStage' /\ NoGap' /\ ResearchedHere'
    BY <1>1, <2>2, <2>3 DEF OrderInv, PresentByStage, NoGap, ResearchedHere
  <2>6. KnownPresent'
    BY <1>1, <2>1, <2>2, <2>4 DEF OrderInv, KnownPresent
  <2>7. RowsClosed'
    <3> SUFFICES ASSUME NEW q \in Procs, NEW c \in rows'[q], NEW d \in Candidates,
                        d < c, research'[d] = "NOT_PROCESSED"
                 PROVE  d \in rows'[q] \/ progress'[d] # "NONE"
      BY DEF RowsClosed
    <3>1. rows'[q] = rows[q]
      BY <1>1 DEF OrderInv, QueueInv, TypeOK
    <3> QED
      BY <3>1, <2>2 DEF OrderInv, RowsClosed
  <2>8. OldestFirst'
    <3> SUFFICES ASSUME NEW c \in Candidates, NEW d \in Candidates, d < c,
                        progress'[c] # "NONE", research'[d] = "NOT_PROCESSED"
                 PROVE  progress'[d] # "NONE"
      BY DEF OldestFirst
    <3>1. CASE c # cur[p]
      BY <3>1, <2>2 DEF OrderInv, OldestFirst
    <3>2. CASE c = cur[p]
      <4>1. progress[c] # "NONE"
        BY <3>2 DEF BatchesOpened, CommitResearch
      <4> QED
        BY <4>1, <2>2 DEF OrderInv, OldestFirst
    <3> QED
      BY <3>1, <3>2
  <2> QED
    BY <2>5, <2>6, <2>7, <2>8 DEF OrderInv
<1> QED
  BY <1>2, <1>3

(* The first stage brings in what nobody knew. *)
LEMMA OrderDiscovery ==
  ASSUME OrderInv, QueueInv', NEW h \in Handoffs, CommitDiscovery(h)
  PROVE  OrderInv'
<1>1. /\ stage[h] = "none" /\ stage' = [stage EXCEPT ![h] = "discovery"]
      /\ \A c \in Candidates :
           research'[c] = IF HandoffOf[c] = h THEN "NOT_PROCESSED" ELSE research[c]
      /\ UNCHANGED <<progress, rows>>
  BY DEF CommitDiscovery, locals
<1>2. \A g \in Handoffs : stage'[g] = IF g = h THEN "discovery" ELSE stage[g]
  BY <1>1 DEF OrderInv, QueueInv, TypeOK
<1>3. \A c \in Candidates : HandoffOf[c] \in Handoffs
  BY QueueAssumption
<1>4. \A c \in Candidates :
        /\ research[c] = "ABSENT" /\ research'[c] # "ABSENT" <=> HandoffOf[c] = h
        /\ research[c] # "ABSENT" => research'[c] = research[c]
  BY <1>1, <1>3 DEF OrderInv, PresentByStage
<1>5. PresentByStage'
  BY <1>1, <1>2, <1>3 DEF OrderInv, PresentByStage
<1>6. NoGap'
  <2> SUFFICES ASSUME NEW c \in Candidates, NEW d \in Candidates, d < c,
                      research'[c] # "ABSENT"
               PROVE  research'[d] # "ABSENT"
    BY DEF NoGap
  <2>1. CASE research[c] # "ABSENT"
    BY <2>1, <1>4 DEF OrderInv, NoGap
  <2>2. CASE HandoffOf[c] = h /\ HandoffOf[d] # h
    BY <2>2, <1>4 DEF CommitDiscovery
  <2>3. CASE HandoffOf[d] = h
    BY <2>3, <1>1
  <2> QED
    BY <2>1, <2>2, <2>3, <1>4
<1>7. KnownPresent'
  BY <1>1, <1>4 DEF OrderInv, KnownPresent, QueueInv, TypeOK
<1>8. ResearchedHere'
  BY <1>1, <1>2, <1>3 DEF OrderInv, ResearchedHere
<1>9. RowsClosed'
  <2> SUFFICES ASSUME NEW q \in Procs, NEW c \in rows[q], NEW d \in Candidates,
                      d < c, research'[d] = "NOT_PROCESSED"
               PROVE  d \in rows[q] \/ progress[d] # "NONE"
    BY <1>1 DEF RowsClosed
  <2>1. c \in Candidates /\ research[c] # "ABSENT"
    BY DEF OrderInv, QueueInv, TypeOK, KnownPresent
  <2>2. research[d] # "ABSENT"
    BY <2>1 DEF OrderInv, NoGap
  <2> QED
    BY <2>2, <1>4 DEF OrderInv, RowsClosed
<1>10. OldestFirst'
  <2> SUFFICES ASSUME NEW c \in Candidates, NEW d \in Candidates, d < c,
                      progress[c] # "NONE", research'[d] = "NOT_PROCESSED"
               PROVE  progress[d] # "NONE"
    BY <1>1 DEF OldestFirst
  <2>1. research[d] # "ABSENT"
    BY DEF OrderInv, NoGap, KnownPresent
  <2> QED
    BY <2>1, <1>4 DEF OrderInv, OldestFirst
<1> QED
  BY <1>5, <1>6, <1>7, <1>8, <1>9, <1>10 DEF OrderInv

(* The second stage takes back only what is in the ledger. *)
LEMMA OrderQualification ==
  ASSUME OrderInv, QueueInv', NEW h \in Handoffs, CommitQualification(h)
  PROVE  OrderInv'
<1>1. /\ stage[h] = "discovery" /\ stage' = [stage EXCEPT ![h] = "research"]
      /\ \A c \in Candidates :
           research'[c] = IF HandoffOf[c] # h THEN research[c]
                          ELSE IF c \in Researched THEN "RESEARCHED" ELSE "NOT_PROCESSED"
      /\ UNCHANGED <<progress, rows>>
  BY DEF CommitQualification, locals
<1>2. \A g \in Handoffs : stage'[g] = IF g = h THEN "research" ELSE stage[g]
  BY <1>1 DEF OrderInv, QueueInv, TypeOK
<1>3. \A c \in Candidates : HandoffOf[c] \in Handoffs
  BY QueueAssumption
<1>4. \A c \in Candidates :
        /\ research'[c] = "ABSENT" <=> research[c] = "ABSENT"
        /\ research'[c] = "NOT_PROCESSED" =>
             research[c] = "NOT_PROCESSED" \/ progress[c] = "COMPLETED"
  <2> SUFFICES ASSUME NEW c \in Candidates
               PROVE  /\ research'[c] = "ABSENT" <=> research[c] = "ABSENT"
                      /\ research'[c] = "NOT_PROCESSED" =>
                           research[c] = "NOT_PROCESSED" \/ progress[c] = "COMPLETED"
    OBVIOUS
  <2>1. research[c] \in {"ABSENT", "NOT_PROCESSED", "RESEARCHED"}
    BY DEF OrderInv, QueueInv, TypeOK
  <2>2. CASE HandoffOf[c] # h
    BY <2>2, <1>1
  <2>3. CASE HandoffOf[c] = h
    <3>1. research[c] # "ABSENT" /\ research'[c] # "ABSENT"
      BY <2>3, <1>1 DEF OrderInv, PresentByStage
    <3>2. research[c] = "RESEARCHED" => progress[c] = "COMPLETED"
      BY <2>3, <1>1 DEF OrderInv, ResearchedHere
    <3> QED
      BY <2>1, <3>1, <3>2
  <2> QED
    BY <2>2, <2>3
<1>5. PresentByStage' /\ NoGap'
  BY <1>1, <1>2, <1>3, <1>4 DEF OrderInv, PresentByStage, NoGap
<1>6. KnownPresent'
  BY <1>1, <1>4 DEF OrderInv, KnownPresent, QueueInv, TypeOK
<1>7. ResearchedHere'
  BY <1>1, <1>2, <1>3 DEF OrderInv, ResearchedHere
<1>8. RowsClosed'
  BY <1>1, <1>4 DEF OrderInv, RowsClosed
<1>9. OldestFirst'
  BY <1>1, <1>4 DEF OrderInv, OldestFirst
<1> QED
  BY <1>5, <1>6, <1>7, <1>8, <1>9 DEF OrderInv

(* Every step keeps the order. *)
LEMMA OrderStep ==
  OrderInv /\ BatchesOpened /\ [Next]_vars => OrderInv'
<1> SUFFICES ASSUME OrderInv, BatchesOpened, [Next]_vars PROVE OrderInv'
  OBVIOUS
<1>1. QueueInv'
  BY NextInv DEF OrderInv
<1>2. CASE UNCHANGED vars \/ Midnight
  BY <1>1, <1>2, OrderCalm DEF vars, tables, locals, Midnight
<1>3. ASSUME NEW p \in Procs,
             \/ ReadPlan(p) \/ WriteEvidence(p) \/ Crash(p)
             \/ \E c \in Candidates : BeginCommit(p, c)
             \/ \E c \in Sought, replaces \in BOOLEAN : ReadEvidence(p, c, replaces)
      PROVE  OrderInv'
  <2>1. /\ UNCHANGED <<research, progress, stage>>
        /\ UNCHANGED rows \/ rows' = [rows EXCEPT ![p] = {}]
    BY <1>3 DEF ReadPlan, BeginCommit, ReadEvidence, WriteEvidence, Crash, EndCall, tables
  <2>2. \A q \in Procs : rows'[q] = rows[q] \/ rows'[q] = {}
    BY <2>1 DEF OrderInv, QueueInv, TypeOK
  <2> QED
    BY <1>1, <2>1, <2>2, OrderCalm
<1> QED
  BY <1>1, <1>2, <1>3, OrderReadRows, OrderWriteRows, OrderCommitResearch, OrderDiscovery,
     OrderQualification DEF Next

(* The ledger forgets nothing, and a batch is what was written to it. *)
LEMMA LedgerGrows ==
  ASSUME OrderInv, [Next]_vars, NEW c \in Candidates, progress[c] # "NONE"
  PROVE  progress'[c] # "NONE"
<1> USE DEF OrderInv, QueueInv, TypeOK
<1>1. CASE UNCHANGED progress
  BY <1>1
<1>2. ASSUME NEW p \in Procs, WriteRows(p) PROVE progress'[c] # "NONE"
  BY <1>2 DEF WriteRows, Opened
<1>3. ASSUME NEW p \in Procs, CommitResearch(p) PROVE progress'[c] # "NONE"
  BY <1>3 DEF CommitResearch, RolledBack
<1> QED
  BY <1>1, <1>2, <1>3 DEF Next, vars, tables, Midnight, CommitDiscovery,
     CommitQualification, ReadPlan, ReadRows, BeginCommit, ReadEvidence, WriteEvidence, Crash

(* What an agent holds has its ledger entry, which is never removed. *)
LEMMA OpenedStep ==
  OrderInv /\ BatchesOpened /\ [Next]_vars => BatchesOpened'
<1> SUFFICES ASSUME OrderInv, BatchesOpened, [Next]_vars PROVE BatchesOpened'
  OBVIOUS
<1>1. TypeOK /\ CallsKnow
  BY DEF OrderInv, QueueInv
<1>2. ASSUME \A p \in Procs :
               /\ batch'[p] \subseteq batch[p]
               /\ pc'[p] = "commit" => pc[p] = "commit" /\ cur'[p] = cur[p]
      PROVE  BatchesOpened'
  BY <1>1, <1>2, LedgerGrows DEF BatchesOpened, TypeOK, CallsKnow
<1>3. ASSUME NEW p \in Procs, WriteRows(p) PROVE BatchesOpened'
  <2>1. /\ batch' = [batch EXCEPT ![p] = rows[p]] /\ pc' = [pc EXCEPT ![p] = "idle"]
        /\ cur' = [cur EXCEPT ![p] = NoCandidate]
        /\ \A c \in rows[p] : c \in Candidates /\ progress'[c] # "NONE"
    BY <1>1, <1>3 DEF WriteRows, EndCall, Goto, TypeOK, Opened
  <2> QED
    BY <1>1, <2>1, LedgerGrows DEF BatchesOpened, TypeOK, CallsKnow
<1>4. ASSUME NEW p \in Procs, NEW c \in Candidates, BeginCommit(p, c) PROVE BatchesOpened'
  <2>1. /\ pc' = [pc EXCEPT ![p] = "commit"] /\ cur' = [cur EXCEPT ![p] = c]
        /\ UNCHANGED <<batch, progress>> /\ c \in batch[p]
    BY <1>4 DEF BeginCommit, Goto, tables
  <2> QED
    BY <1>1, <2>1 DEF BatchesOpened, TypeOK
<1>5. ASSUME NEW p \in Procs, EndCall(p),
             UNCHANGED batch \/ batch' = [batch EXCEPT ![p] = {}]
      PROVE  BatchesOpened'
  BY <1>1, <1>2, <1>5 DEF EndCall, Goto, TypeOK
<1>6. ASSUME NEW p \in Procs, NEW label \in {"read", "write", "evidence"}, Goto(p, label),
             UNCHANGED batch, \A q \in Procs : q # p => cur'[q] = cur[q]
      PROVE  BatchesOpened'
  BY <1>1, <1>2, <1>6 DEF Goto, TypeOK
<1>7. ASSUME NEW p \in Procs,
             \/ ReadPlan(p) \/ ReadRows(p)
             \/ \E c \in Sought, replaces \in BOOLEAN : ReadEvidence(p, c, replaces)
      PROVE  BatchesOpened'
  BY <1>1, <1>6, <1>7 DEF ReadPlan, ReadRows, ReadEvidence, TypeOK
<1>8. ASSUME NEW p \in Procs, CommitResearch(p) \/ WriteEvidence(p) \/ Crash(p)
      PROVE  BatchesOpened'
  BY <1>5, <1>8 DEF CommitResearch, WriteEvidence, Crash
<1>9. CASE UNCHANGED <<batch, pc, cur>>
  BY <1>2, <1>9
<1> QED
  BY <1>3, <1>4, <1>7, <1>8, <1>9
  DEF Next, vars, locals, Midnight, CommitDiscovery, CommitQualification

-----------------------------------------------------------------------------
(* Counting against the cap. *)

(* Candidates and all their subsets are finite. *)
LEMMA SetsFinite ==
  ASSUME NEW S \in SUBSET Candidates
  PROVE  IsFiniteSet(S) /\ Cardinality(S) \in Nat
BY QueueAssumption, FS_Subset, FS_CardinalityType

(* So is what a day completed. *)
LEMMA CompletedFinite ==
  ASSUME NEW d PROVE CompletedOn(d) \in SUBSET Candidates /\ Cardinality(CompletedOn(d)) \in Nat
BY SetsFinite DEF CompletedOn

(* A smaller set fits where a larger one did, also on an emptier day. *)
LEMMA FitsLess ==
  ASSUME NEW d, NEW e, NEW T \in SUBSET Candidates, NEW S \in SUBSET T, Fits(d, T),
         e = d \/ CompletedOn(e) = {}
  PROVE  Fits(e, S)
<1>1. Cardinality(S) <= Cardinality(T) /\ Cardinality(S) \in Nat /\ Cardinality(T) \in Nat
  BY SetsFinite, FS_Subset
<1>2. Cardinality(CompletedOn(d)) \in Nat
  BY CompletedFinite
<1>3. Cardinality({}) = 0
  BY FS_EmptySet
<1>4. CASE e = d
  BY <1>1, <1>2, <1>4, QueueAssumption DEF Fits
<1>5. CASE CompletedOn(e) = {}
  BY <1>1, <1>2, <1>3, <1>5, QueueAssumption DEF Fits
<1> QED
  BY <1>4, <1>5

(* What is left of a day leaves room for a batch of its size. *)
LEMMA FirstRowsFit ==
  ASSUME NEW d, NEW n \in Nat, n = Remaining(d), Fits(d, Active)
  PROVE  Fits(d, Active \union FirstRows(n))
<1>1. FirstRows(n) \subseteq Candidates /\ Cardinality(FirstRows(n)) <= n
  BY FirstRowsBounded
<1>2. Cardinality(FirstRows(n)) \in Nat /\ Cardinality(CompletedOn(d)) \in Nat
  BY <1>1, SetsFinite, CompletedFinite
<1>3. Fits(d, FirstRows(n))
  BY <1>1, <1>2, QueueAssumption DEF Fits, Remaining
<1>4. Active \union FirstRows(n) = FirstRows(n) \/ Active \union FirstRows(n) = Active
  BY FirstRowsTakeActive
<1> QED
  BY <1>3, <1>4

(* A call that begins without overlap finds everybody idle; no other step  *)
(* ends a history without overlap.                                         *)
LEMMA BeginsAlone ==
  ASSUME NEW p \in Procs, Begins(p), ~overlapped'
  PROVE  ~overlapped /\ \A q \in Procs : pc[q] = "idle"
BY Zenon DEF Begins

(* What has overlapped stays recorded as overlapped. *)
LEMMA HistoryKept ==
  ASSUME [Next]_vars, ~overlapped' PROVE ~overlapped
BY BeginsAlone, Zenon DEF Next, vars, Midnight, CommitDiscovery, CommitQualification,
   ReadPlan, ReadRows, WriteRows, BeginCommit, CommitResearch, ReadEvidence, WriteEvidence,
   Crash

Solo == \A p, q \in Procs : pc[p] # "idle" /\ pc[q] # "idle" => p = q
SoloInv == OrderInv /\ BatchesOpened /\ Solo /\ Balance

(* What waits is a finite set of candidates. *)
LEMMA ActiveTyped ==
  /\ Active \in SUBSET Candidates
  /\ OrderInv => \A p \in Procs : Coming(p) \in SUBSET Candidates
BY DEF Active, Coming, OrderInv, QueueInv, TypeOK

(* A call that ends leaves nobody inside: the day it ends on is enough. *)
LEMMA EndsBalanced ==
  ASSUME SoloInv, NEW p \in Procs, pc[p] # "idle", EndCall(p), today' = today,
         UNCHANGED doneOn, Fits(today, Active')
  PROVE  Balance'
<1>1. \A q \in Procs : pc'[q] = "idle"
  BY DEF SoloInv, OrderInv, QueueInv, TypeOK, Solo, EndCall, Goto
<1>2. \A d \in Days : CompletedOn(d)' = CompletedOn(d)
  BY DEF CompletedOn
<1>3. CompletedOn(today)' = CompletedOn(today)
  BY DEF CompletedOn
<1>4. Fits(today, Active)' /\ EmptyAfter(today)'
  BY <1>2, <1>3 DEF SoloInv, Balance, Fits, EmptyAfter
<1> QED
  BY <1>1, <1>2, <1>4 DEF SoloInv, Balance

(* A call that begins knows the day as it is. *)
LEMMA BeginsBalanced ==
  ASSUME SoloInv, NEW p \in Procs, \A q \in Procs : pc[q] = "idle",
         NEW label \in {"read", "commit", "evidence"}, Goto(p, label),
         day' = [day EXCEPT ![p] = today],
         UNCHANGED <<tables, today>>,
         label = "read" => left'[p] = Remaining(today),
         label = "commit" => progress[cur'[p]] = "IN_PROGRESS"
  PROVE  Balance'
<1>1. \A q \in Procs : pc'[q] # "idle" => q = p
  BY DEF SoloInv, OrderInv, QueueInv, TypeOK, Goto
<1>2. pc'[p] = label /\ day'[p] = today
  BY DEF SoloInv, OrderInv, QueueInv, TypeOK, Goto
<1>3. /\ \A d : CompletedOn(d)' = CompletedOn(d) /\ Remaining(d)' = Remaining(d)
      /\ Active' = Active /\ UNCHANGED <<today, progress>>
  BY DEF tables, CompletedOn, Remaining, Active
<1>4. Fits(today, Active)' /\ EmptyAfter(today)'
  BY <1>3 DEF SoloInv, Balance, Fits, EmptyAfter
<1>5. Fits(day[p], Active)' /\ EmptyAfter(day[p])' /\ day'[p] <= today'
  <2>1. today \in Nat
    BY DEF SoloInv, OrderInv, QueueInv, TypeOK, Days
  <2> QED
    BY <1>2, <1>3, <1>4, <2>1 DEF Fits, EmptyAfter, CompletedOn
<1>6. DayFits(p)'
  BY <1>2, <1>3, <1>5 DEF DayFits
<1> QED
  BY <1>1, <1>3, <1>4, <1>6 DEF SoloInv, Balance

(* Whatever leaves the ledger alone, takes nobody's call further and adds  *)
(* no candidate to those counted keeps the balance.                        *)
LEMMA CalmBalanced ==
  ASSUME SoloInv, UNCHANGED <<progress, doneOn>>, today' \in Days, today <= today',
         Active' \subseteq Active,
         \A p \in Procs : pc'[p] # "idle" =>
           /\ pc'[p] = pc[p] /\ day'[p] = day[p] /\ left'[p] = left[p] /\ cur'[p] = cur[p]
           /\ Coming(p)' \subseteq Coming(p)
  PROVE  Balance'
<1>0. /\ today \in Nat /\ today' \in Nat /\ Days \subseteq Nat /\ today \in Days
      /\ OrderInv /\ Balance
  BY QueueAssumption DEF SoloInv, OrderInv, QueueInv, TypeOK, Days
<1>1. \A d : CompletedOn(d)' = CompletedOn(d) /\ Remaining(d)' = Remaining(d)
  BY DEF CompletedOn, Remaining
<1>2. \A d, S : Fits(d, S)' <=> Cardinality(CompletedOn(d')) + Cardinality(S') <= Cap
  BY <1>1 DEF Fits, CompletedOn
<1>3. today' = today \/ CompletedOn(today') = {}
  BY <1>0 DEF Balance, EmptyAfter
<1>4. Fits(today', Active')
  BY <1>0, <1>3, ActiveTyped, FitsLess DEF Balance
<1>5. Fits(today, Active)' /\ EmptyAfter(today)'
  <2>1. Fits(today, Active)'
    BY <1>4 DEF Fits, CompletedOn
  <2>2. ASSUME NEW d \in Days, d > today' PROVE CompletedOn(d)' = {}
    <3>1. d > today
      BY <1>0, <2>2
    <3>2. CompletedOn(d) = {}
      BY <1>0, <3>1 DEF Balance, EmptyAfter
    <3> QED
      BY <1>1, <3>2
  <2>3. EmptyAfter(today)'
    BY <2>2 DEF EmptyAfter
  <2> QED
    BY <2>1, <2>3
<1>6. ASSUME NEW p \in Procs, pc'[p] # "idle" PROVE DayFits(p)'
  <2>1. /\ pc[p] # "idle" /\ pc'[p] = pc[p] /\ day'[p] = day[p] /\ left'[p] = left[p]
        /\ cur'[p] = cur[p] /\ Coming(p)' \subseteq Coming(p) /\ day[p] \in Days
    BY <1>6 DEF SoloInv, OrderInv, QueueInv, CallsKnow
  <2>2. DayFits(p)
    BY <1>0, <2>1 DEF Balance
  <2>3. Fits(day[p], Active')
    BY <2>2, ActiveTyped, FitsLess DEF DayFits
  <2>4. Fits(day[p], Active)' /\ EmptyAfter(day[p])' /\ day'[p] <= today'
    <3>1. CompletedOn(day[p])' = CompletedOn(day[p])
      BY <2>1 DEF CompletedOn
    <3>2. Fits(day[p], Active)'
      BY <2>3, <3>1 DEF Fits
    <3>3. EmptyAfter(day[p])'
      BY <2>1, <2>2 DEF DayFits, EmptyAfter, CompletedOn
    <3>4. day[p] <= today /\ day[p] \in Nat
      BY <1>0, <2>1, <2>2 DEF DayFits
    <3> QED
      BY <1>0, <2>1, <3>2, <3>3, <3>4
  <2>5. ASSUME pc[p] = "write" PROVE Fits(day[p], Coming(p)')
    <3>1. Coming(p) \in SUBSET Candidates /\ Coming(p)' \in SUBSET Coming(p)
      BY <1>0, <2>1, ActiveTyped
    <3>2. Fits(day[p], Coming(p))
      BY <2>2, <2>5 DEF DayFits
    <3> HIDE DEF Coming
    <3> QED
      BY <2>1, <3>1, <3>2, FitsLess
  <2>6. pc'[p] = "write" => Fits(day[p], Coming(p))'
    BY <2>1, <2>5 DEF Fits, CompletedOn
  <2>7. pc'[p] = "read" => left'[p] = Remaining(day[p])'
    BY <2>1, <2>2 DEF DayFits, Remaining, CompletedOn
  <2> QED
    BY <2>1, <2>2, <2>4, <2>6, <2>7 DEF DayFits
<1> QED
  BY <1>0, <1>1, <1>5, <1>6 DEF Balance

(* Midnight and the recovery stages. *)
LEMMA WorldBalanced ==
  ASSUME SoloInv, Midnight \/ \E h \in Handoffs : CommitDiscovery(h) \/ CommitQualification(h)
  PROVE  Balance'
<1>1. /\ UNCHANGED <<progress, doneOn, pc, day, left, rows, cur>>
      /\ today' \in Days /\ today <= today'
  BY QueueAssumption DEF Midnight, CommitDiscovery, CommitQualification, tables, locals,
     SoloInv, OrderInv, QueueInv, TypeOK, Days
<1>2. \A c \in Candidates :
        /\ research'[c] = "NOT_PROCESSED" /\ progress[c] # "COMPLETED"
        /\ research[c] # "ABSENT"
        => research[c] = "NOT_PROCESSED"
  <2>1. CASE Midnight
    BY <2>1 DEF Midnight, tables
  <2>2. ASSUME NEW h \in Handoffs, CommitDiscovery(h), NEW c \in Candidates,
               research[c] # "ABSENT"
        PROVE  research'[c] = research[c]
    BY <2>2 DEF CommitDiscovery, SoloInv, OrderInv, PresentByStage
  <2>3. ASSUME NEW h \in Handoffs, CommitQualification(h), NEW c \in Candidates,
               research'[c] = "NOT_PROCESSED", progress[c] # "COMPLETED",
               research[c] # "ABSENT"
        PROVE  research[c] = "NOT_PROCESSED"
    BY <2>3 DEF CommitQualification, SoloInv, OrderInv, QueueInv, TypeOK, ResearchedHere
  <2> QED
    BY <2>1, <2>2, <2>3
<1>3. Active' \subseteq Active
  BY <1>1, <1>2 DEF Active, SoloInv, OrderInv, KnownPresent
<1>4. \A p \in Procs : Coming(p)' \subseteq Coming(p)
  <2> SUFFICES ASSUME NEW p \in Procs, NEW c \in Coming(p)' PROVE c \in Coming(p)
    OBVIOUS
  <2>1. CASE c \in Active'
    BY <2>1, <1>3 DEF Coming
  <2>2. CASE /\ c \in rows[p] /\ progress[c] = "NONE" /\ research'[c] = "NOT_PROCESSED"
    <3>1. c \in Candidates /\ research[c] # "ABSENT"
      BY <2>2 DEF SoloInv, OrderInv, QueueInv, TypeOK, KnownPresent
    <3> QED
      BY <2>2, <3>1, <1>2 DEF Coming
  <2> QED
    BY <2>1, <2>2, <1>1 DEF Coming
<1> QED
  BY <1>1, <1>3, <1>4, CalmBalanced

(* A call that has read its rows has room for them. *)
LEMMA ReadRowsBalanced ==
  ASSUME SoloInv, NEW p \in Procs, ReadRows(p)
  PROVE  Balance'
<1>1. /\ pc[p] = "read" /\ pc' = [pc EXCEPT ![p] = "write"]
      /\ rows' = [rows EXCEPT ![p] = FirstRows(left[p])]
      /\ UNCHANGED <<research, progress, doneOn, today, day, left, cur>>
  BY DEF ReadRows, Goto, tables
<1>2. \A q \in Procs : pc'[q] # "idle" => q = p
  BY <1>1 DEF SoloInv, OrderInv, QueueInv, TypeOK, Solo
<1>3. DayFits(p) /\ left[p] \in Nat /\ left[p] = Remaining(day[p]) /\ Balance
  BY <1>1, QueueAssumption DEF SoloInv, Balance, DayFits, OrderInv, QueueInv, TypeOK
<1>4. Fits(day[p], Active \union FirstRows(left[p]))
  BY <1>3, FirstRowsFit DEF DayFits
<1>5. /\ Coming(p)' \subseteq Active \union FirstRows(left[p])
      /\ Active \union FirstRows(left[p]) \in SUBSET Candidates
  BY <1>1, <1>3, FirstRowsBounded
  DEF Coming, Active, SoloInv, OrderInv, QueueInv, TypeOK
<1>6. Fits(day[p], Coming(p)')
  BY <1>4, <1>5, FitsLess
<1>7. /\ \A d : CompletedOn(d)' = CompletedOn(d)
      /\ Active' = Active /\ pc'[p] = "write"
  BY <1>1 DEF CompletedOn, Active, SoloInv, OrderInv, QueueInv, TypeOK
<1>8. Fits(today, Active)' /\ EmptyAfter(today)'
  BY <1>1, <1>3, <1>7 DEF Balance, Fits, EmptyAfter, CompletedOn
<1>9. Fits(day[p], Active)' /\ EmptyAfter(day[p])' /\ day'[p] <= today'
  BY <1>1, <1>3, <1>7 DEF DayFits, Fits, EmptyAfter, CompletedOn
<1>10. Fits(day[p], Coming(p))'
  BY <1>1, <1>6 DEF Fits, CompletedOn
<1>11. DayFits(p)'
  BY <1>7, <1>9, <1>10 DEF DayFits
<1> QED
  BY <1>2, <1>3, <1>7, <1>8, <1>11 DEF Balance

(* What it writes becomes active, and fits the day it is written on. *)
LEMMA WriteRowsBalanced ==
  ASSUME SoloInv, NEW p \in Procs, WriteRows(p)
  PROVE  Balance'
<1>1. /\ pc[p] = "write" /\ EndCall(p) /\ UNCHANGED <<research, doneOn, today>>
      /\ progress' = [c \in Candidates |-> IF c \in rows[p] THEN Opened(c) ELSE progress[c]]
  BY DEF WriteRows
<1>2. Active' \subseteq Coming(p)
  BY <1>1 DEF Active, Coming, Opened, SoloInv, OrderInv, QueueInv, TypeOK
<1>3. DayFits(p) /\ today \in Days
  BY <1>1 DEF SoloInv, Balance, OrderInv, QueueInv, TypeOK
<1>4. today = day[p] \/ CompletedOn(today) = {}
  <2>1. day[p] \in Nat /\ today \in Nat
    BY QueueAssumption DEF SoloInv, OrderInv, QueueInv, TypeOK, Days
  <2> QED
    BY <1>3, <2>1 DEF DayFits, EmptyAfter
<1>5. Fits(today, Active')
  BY <1>1, <1>2, <1>3, <1>4, ActiveTyped, FitsLess DEF DayFits, SoloInv
<1> QED
  BY <1>1, <1>5, EndsBalanced

(* A candidate that is committed moves from the active to the completed.   *)
LEMMA CommitBalanced ==
  ASSUME SoloInv, NEW p \in Procs, CommitResearch(p), Committable(cur[p])
  PROVE  Balance'
<1> DEFINE c == cur[p]
<1>1. /\ pc[p] = "commit" /\ EndCall(p) /\ UNCHANGED today /\ research[c] = "NOT_PROCESSED"
      /\ progress' = [progress EXCEPT ![c] = "COMPLETED"]
      /\ doneOn' = [doneOn EXCEPT ![c] = day[p]]
      /\ research' = [research EXCEPT ![c] = "RESEARCHED"]
  BY DEF CommitResearch, Committable
<1>2. /\ c \in Candidates /\ day[p] \in Days /\ DayFits(p) /\ Balance /\ TypeOK
      /\ LedgerMatchesAnswers /\ progress[c] = "IN_PROGRESS"
  BY <1>1 DEF SoloInv, Balance, OrderInv, QueueInv, CallsKnow, DayFits
<1>3. /\ c \in Active /\ c \notin Active' /\ Active = Active' \union {c}
      /\ doneOn[c] = 0
  BY <1>1, <1>2 DEF Active, LedgerMatchesAnswers, TypeOK
<1>4. /\ c \notin CompletedOn(day[p])
      /\ \A d \in Days : d # day[p] => {b \in Candidates : doneOn'[b] = d} = CompletedOn(d)
  <2>1. day[p] # 0 /\ \A d \in Days : d # 0
    BY <1>2, QueueAssumption DEF Days
  <2> QED
    BY <1>1, <1>2, <1>3, <2>1 DEF CompletedOn, TypeOK
<1> DEFINE Now(d) == {b \in Candidates : doneOn'[b] = d}
<1>5. Now(day[p]) = CompletedOn(day[p]) \union {c}
  BY <1>1, <1>2 DEF CompletedOn, TypeOK
<1>6. /\ Cardinality(Now(day[p])) = Cardinality(CompletedOn(day[p])) + 1
      /\ Cardinality(Active) = Cardinality(Active') + 1
      /\ Cardinality(CompletedOn(day[p])) \in Nat /\ Cardinality(Active') \in Nat
  <2>1. IsFiniteSet(CompletedOn(day[p])) /\ IsFiniteSet(Active')
        /\ Cardinality(CompletedOn(day[p])) \in Nat /\ Cardinality(Active') \in Nat
    <3>1. Active' \in SUBSET Candidates
      BY DEF Active
    <3> QED
      BY <3>1, CompletedFinite, SetsFinite
  <2>2. Cardinality(CompletedOn(day[p]) \union {c}) = Cardinality(CompletedOn(day[p])) + 1
    BY <1>4, <2>1, FS_AddElement
  <2>3. Cardinality(Active' \union {c}) = Cardinality(Active') + 1
    BY <1>3, <2>1, FS_AddElement
  <2> QED
    BY <1>3, <1>5, <2>1, <2>2, <2>3
<1>7. Cardinality(Now(day[p])) + Cardinality(Active') <= Cap
  BY <1>2, <1>6, QueueAssumption DEF DayFits, Fits
<1>8. \A d \in Days : Cardinality(Now(d)) <= Cap
  <2> SUFFICES ASSUME NEW d \in Days PROVE Cardinality(Now(d)) <= Cap
    OBVIOUS
  <2>1. CASE d = day[p]
    BY <1>6, <1>7, <2>1, QueueAssumption
  <2>2. CASE d # day[p]
    BY <1>2, <1>4, <2>2 DEF Balance
  <2> QED
    BY <2>1, <2>2
<1>9. /\ today \in Days /\ day[p] \in Nat /\ today \in Nat /\ day[p] <= today
      /\ Days \subseteq Nat
  BY <1>2, QueueAssumption DEF TypeOK, Days, DayFits
<1>10. Cardinality(Now(today)) + Cardinality(Active') <= Cap
  <2>1. CASE today = day[p]
    BY <2>1, <1>7
  <2>2. CASE today # day[p]
    <3>1. Now(today) = {}
      BY <2>2, <1>2, <1>4, <1>9 DEF DayFits, EmptyAfter
    <3>2. Cardinality(Now(today)) = 0
      BY <3>1, FS_EmptySet
    <3>3. Cardinality(Now(day[p])) \in Nat
      BY <1>6
    <3> QED
      BY <3>2, <3>3, <1>6, <1>7, QueueAssumption
  <2> QED
    BY <2>1, <2>2
<1>11. \A e \in Days : e > today => Now(e) = {}
  <2> SUFFICES ASSUME NEW e \in Days, e > today PROVE Now(e) = {}
    OBVIOUS
  <2>1. e # day[p]
    BY <1>9
  <2>2. CompletedOn(e) = {}
    BY <1>2 DEF Balance, EmptyAfter
  <2> QED
    BY <1>4, <2>1, <2>2
<1>12. \A q \in Procs : pc'[q] = "idle"
  BY <1>1 DEF SoloInv, OrderInv, QueueInv, TypeOK, Solo, EndCall, Goto
<1>13. \A d \in Days : CompletedOn(d)' = Now(d)
  BY DEF CompletedOn
<1>14. Fits(today, Active)' /\ EmptyAfter(today)'
  BY <1>1, <1>10, <1>11 DEF Fits, EmptyAfter, CompletedOn
<1> QED
  BY <1>8, <1>12, <1>13, <1>14 DEF Balance

(* Every step of a history without overlap keeps the balance. *)
LEMMA BalanceStep ==
  ASSUME SoloInv, [Next]_vars, ~overlapped'
  PROVE  Balance'
<1>1. TypeOK /\ BatchesOpened
  BY DEF SoloInv, OrderInv, QueueInv
<1>2. CASE UNCHANGED vars
  BY <1>2, <1>1, CalmBalanced DEF vars, tables, locals, TypeOK, Days, Active, Coming
<1>3. CASE Midnight \/ \E h \in Handoffs : CommitDiscovery(h) \/ CommitQualification(h)
  BY <1>3, WorldBalanced
<1>4. ASSUME NEW p \in Procs, ReadPlan(p) PROVE Balance'
  <2>1. \A q \in Procs : pc[q] = "idle"
    BY <1>4, BeginsAlone DEF ReadPlan
  <2>2. left'[p] = Remaining(today)
    BY <1>1, <1>4 DEF ReadPlan, TypeOK
  <2> QED
    BY <1>4, <2>1, <2>2, BeginsBalanced DEF ReadPlan, Begins
<1>5. ASSUME NEW p \in Procs, NEW c \in Candidates, BeginCommit(p, c) PROVE Balance'
  <2>1. \A q \in Procs : pc[q] = "idle"
    BY <1>5, BeginsAlone DEF BeginCommit
  <2>2. progress[cur'[p]] = "IN_PROGRESS"
    BY <1>1, <1>5 DEF BeginCommit, TypeOK, BatchesOpened
  <2> QED
    BY <1>5, <2>1, <2>2, BeginsBalanced DEF BeginCommit, Begins
<1>6. ASSUME NEW p \in Procs, NEW c \in Sought, NEW replaces \in BOOLEAN,
             ReadEvidence(p, c, replaces)
      PROVE  Balance'
  <2>1. \A q \in Procs : pc[q] = "idle"
    BY <1>6, BeginsAlone DEF ReadEvidence
  <2> QED
    BY <1>6, <2>1, BeginsBalanced DEF ReadEvidence, Begins
<1>7. ASSUME NEW p \in Procs, EndCall(p), UNCHANGED <<research, progress, doneOn, today>>
      PROVE  Balance'
  <2>1. \A q \in Procs : pc'[q] # "idle" =>
          /\ pc'[q] = pc[q] /\ day'[q] = day[q] /\ left'[q] = left[q] /\ cur'[q] = cur[q]
          /\ rows'[q] = rows[q]
    BY <1>1, <1>7 DEF EndCall, Goto, TypeOK
  <2>2. today' \in Days /\ today <= today' /\ Active' = Active
    BY <1>1, <1>7, QueueAssumption DEF TypeOK, Days, Active
  <2>3. \A q \in Procs : pc'[q] # "idle" => Coming(q)' = Coming(q)
    BY <1>7, <2>1, <2>2 DEF Coming
  <2> QED
    BY <1>7, <2>1, <2>2, <2>3, CalmBalanced
<1>8. ASSUME NEW p \in Procs, WriteEvidence(p) \/ Crash(p) PROVE Balance'
  BY <1>7, <1>8 DEF WriteEvidence, Crash, tables
<1>9. ASSUME NEW p \in Procs, CommitResearch(p) PROVE Balance'
  <2>1. CASE Committable(cur[p])
    BY <2>1, <1>9, CommitBalanced
  <2>2. CASE ~Committable(cur[p])
    <3>1. UNCHANGED <<research, progress, doneOn, today>> /\ EndCall(p)
      BY <2>2, <1>1, <1>9 DEF CommitResearch, RolledBack, TypeOK
    <3> QED
      BY <3>1, <1>7
  <2> QED
    BY <2>1, <2>2
<1> QED
  BY <1>2, <1>3, <1>4, <1>5, <1>6, <1>8, <1>9, ReadRowsBalanced, WriteRowsBalanced DEF Next

-----------------------------------------------------------------------------
BoundsInv == OrderInv /\ BatchesOpened /\ CapInv

(* Nothing is completed at first. *)
LEMMA BoundsInit == Init => BoundsInv
<1> SUFFICES ASSUME Init PROVE BoundsInv
  OBVIOUS
<1>1. OrderInv
  BY OrderInit
<1>2. BatchesOpened
  BY DEF Init, BatchesOpened
<1>3. \A d \in Days : CompletedOn(d) = {}
  BY QueueAssumption DEF Init, CompletedOn, Days
<1>4. Active = {} /\ today \in Days
  BY QueueAssumption DEF Init, Active, Days
<1>5. Cardinality({}) = 0
  BY FS_EmptySet
<1>6. Fits(today, Active)
  BY <1>3, <1>4, <1>5, QueueAssumption DEF Fits
<1>7. Balance
  <2>1. \A d \in Days : Cardinality(CompletedOn(d)) <= Cap
    BY <1>3, <1>5, QueueAssumption
  <2>2. \A p \in Procs : pc[p] = "idle"
    BY DEF Init
  <2> QED
    BY <1>3, <1>6, <2>1, <2>2 DEF Balance, EmptyAfter
<1> QED
  BY <1>1, <1>2, <1>7 DEF BoundsInv, CapInv

(* Every step keeps order and balance, or overlaps. *)
LEMMA BoundsNext == BoundsInv /\ [Next]_vars => BoundsInv'
<1> SUFFICES ASSUME BoundsInv, [Next]_vars PROVE BoundsInv'
  OBVIOUS
<1>1. OrderInv' /\ BatchesOpened'
  BY OrderStep, OpenedStep DEF BoundsInv
<1>2. ASSUME ~overlapped' PROVE Balance'
  <2>1. ~overlapped
    BY <1>2, HistoryKept
  <2>2. Solo
    BY <2>1, Zenon DEF BoundsInv, OrderInv, QueueInv, LoneAgent, Solo
  <2>3. SoloInv
    BY <2>1, <2>2, Zenon DEF BoundsInv, CapInv, SoloInv
  <2> QED
    BY <1>2, <2>3, BalanceStep
<1> QED
  BY <1>1, <1>2 DEF BoundsInv, CapInv

(* Batches take up what is due and no more: nothing waits behind a younger *)
(* candidate, whatever overlaps, and no day completes more than its cap,   *)
(* over interrupted batches and calls that straddle midnight, while calls  *)
(* follow one another.                                                     *)
THEOREM BatchesInBoundsHolds == Spec => []BatchesInBounds
<1>1. BoundsInv => BatchesInBounds
  BY Zenon DEF BoundsInv, OrderInv, CapInv, Balance, BatchesInBounds, DailyCapKept
<1> QED
  BY <1>1, BoundsInit, BoundsNext, PTL DEF Spec

-----------------------------------------------------------------------------
(* Website enrichment.  First the types of its state. *)

RunStates == {"RUNNING", "COMPLETED", "SOURCE_ERROR", "RENDER_REQUIRED", "BLOCKED",
              "ROBOTS_DENIED"}
(* What a request comes to.                                                *)
Statuses == {"ROBOTS_UNAVAILABLE", "UNSAFE_DESTINATION", "TIMEOUT", "SOURCE_ERROR",
             "REDIRECT_LIMIT", "UNSAFE_REDIRECT", "NON_HTML", "PAGE_TOO_LARGE",
             "ROBOTS_FETCHED", "ROBOTS_DENIED", "RENDER_REQUIRED", "FETCHED", "RAISED"}
PageRows == [url : Urls, status : Statuses]
Words == {"YES", "NO", "UNCLEAR"}
ContactRows ==
  [addr : Addresses, duplicate : BOOLEAN,
   state : {"SUPPRESSED", "VALID_SYNTAX_AND_MX", "VALID_SYNTAX_NO_MX", "VALID_SYNTAX_MX_UNKNOWN"}]
RunRows ==
  [site : Sites, state : RunStates, pages : Seq(PageRows), contacts : SUBSET ContactRows,
   evidence : {None} \union [Signals \union {"appointment_channels"} -> Words]]
Crawls ==
  [site : Sites \union {None}, run : Nat, queue : Seq(Urls), seen : SUBSET Urls,
   pages : Seq(PageRows), file : Seq(Lines), state : RunStates \union {"none"}]

Wheres == {"idle", "open", "robots", "crawl", "keep"}

WebTypes ==
  /\ run \in Seq(RunRows) /\ leads \subseteq Addresses /\ blocked \subseteq Addresses
  /\ paused \in BOOLEAN /\ crashes \in 0..MaxCrashes /\ raised \subseteq DOMAIN run
  /\ where \in [Enrichers -> Wheres]
  /\ job \in [Enrichers -> Crawls]

(* An enricher past the opening of its run works on the site of that run;  *)
(* before it asks for robots.txt it has asked for nothing.                 *)
Inside == {"robots", "crawl", "keep"}
Owns(w, j) ==
  /\ w = "idle" => j = NoJob
  /\ w = "open" => j.site \in Sites /\ j.run = 0
  /\ w \in Inside => j.run \in DOMAIN run /\ j.site \in Sites /\ run[j.run].site = j.site
  /\ w \in {"open", "robots"} => j.pages = << >> /\ j.file = << >> /\ j.seen = {}

(* A page is asked for once: what has been asked for has been taken, and   *)
(* robots.txt is asked for again only where a page links to it.            *)
AsksOnce(j) ==
  /\ j.pages # << >> /\ j.pages[1].url = Robots
  /\ \A i \in DOMAIN j.pages : i # 1 => j.pages[i].url \in j.seen
  /\ Robots \in j.seen \union ToSet(j.queue) => LinksRobots(j.site)

(* A crawl that brought no page has an error to show for it, or has yet to *)
(* ask for the start page.                                                 *)
Failed(pages) == \E i \in DOMAIN pages : pages[i].status \in Errors
SoFar(j) ==
  Fetched(j.pages) # {} \/ Failed(j.pages) \/ (j.seen = {} /\ j.queue # << >>)

(* robots.txt was not read, or lets the crawl in.                          *)
Cleared(file) == file = << >> \/ (file \in RobotsFiles /\ RobotsAllows(file))

Ended(state, pages) ==
  /\ state = "COMPLETED" => Fetched(pages) # {}
  /\ state \in {"SOURCE_ERROR", "ROBOTS_DENIED"} => Fetched(pages) = {}

Sound(w, j) ==
  /\ w = "crawl" => AsksOnce(j) /\ SoFar(j) /\ Cleared(j.file)
  /\ w = "keep" => j.state \in RunStates \ {"RUNNING"} /\ Ended(j.state, j.pages)
  /\ UrlTwice(j.pages) => LinksRobots(j.site)
  /\ (\E i \in DOMAIN j.pages : j.pages[i].url # Robots) => Cleared(j.file)

Opening == {e \in Enrichers : where[e] = "open"}
QuotaInv == Len(run) + Cardinality(Opening) < Quota + Cardinality(Enrichers)

(* Runs nobody works on and nobody closed, whose crawl did not raise.      *)
Orphans ==
  {i \in DOMAIN run \ raised : run[i].state = "RUNNING" /\ ~LinksRobots(run[i].site)
                               /\ \A e \in Enrichers : job[e].run # i}

Closes(r) ==
  r.state # "RUNNING" =>
    LET pages == Fetched(r.pages) IN
    /\ Ended(r.state, r.pages)
    /\ pages = {} => r.contacts = {}
    /\ \A s \in Signals : r.evidence[s] # "UNCLEAR" => pages # {}

WebInv ==
  /\ WebTypes
  /\ \A e \in Enrichers : Owns(where[e], job[e]) /\ Sound(where[e], job[e])
  /\ QuotaInv
  /\ Cardinality(Orphans) <= crashes
  /\ OneFirstContact
  /\ \A i \in DOMAIN run : Closes(run[i])

(* A set of naturals has a least element, from which an induction over     *)
(* data can start.                                                         *)
LEMMA LeastOf ==
  ASSUME NEW T \in SUBSET Nat, T # {}
  PROVE  \E x \in T : \A y \in T : x <= y
<1>1. PICK x \in T : \A y \in T : <<y, x>> \notin OpToRel(<, Nat)
  BY NatLessThanWellFounded, WFMin
<1>2. \A y \in T : ~ (y < x)
  BY <1>1 DEF OpToRel
<1> QED BY <1>2

(* Where two new links differ one goes first, so the places of the new     *)
(* links of a page are 1, 2, and so on: what is queued are links of it.    *)
LEMMA PlaceIs ==
  ASSUME NEW links \in Seq(Urls), NEW new \in SUBSET DOMAIN links
  PROVE  /\ Cardinality(new) \in Nat
         /\ \A n \in 1..Cardinality(new) : \E i \in new : Place(new, links, i) = n
<1> DEFINE Upto(i) == {k \in new : k = i \/ GoesFirst(links, k, i)}
           F == [i \in new |-> Place(new, links, i)]
<1>1. /\ DOMAIN links \subseteq Nat
      /\ \A i \in new : i \in Nat /\ Rank[links[i]] \in Nat
      /\ IsFiniteSet(new) /\ Cardinality(new) \in Nat
  <2>1. DOMAIN links = 1..Len(links) /\ Len(links) \in Nat
    BY LenProperties
  <2>2. \A i \in DOMAIN links : links[i] \in Urls
    BY <2>1, ElementOfSeq
  <2>3. IsFiniteSet(new)
    <3>1. IsFiniteSet(DOMAIN links)
      BY <2>1, FS_Interval
    <3> QED BY <3>1, FS_Subset
  <2>4. Rank \in [Urls -> Nat]
    BY WebsiteAssumption DEF WebsiteAssumption
  <2>5. \A i \in DOMAIN links : i \in Nat /\ Rank[links[i]] \in Nat
    BY <2>1, <2>2, <2>4
  <2>6. DOMAIN links \subseteq Nat
    BY <2>1
  <2> QED BY <2>3, <2>5, <2>6, FS_CardinalityType
<1>2. \A i \in new : Place(new, links, i) = Cardinality(Upto(i))
  BY DEF Place
<1>3. ASSUME NEW i \in new
      PROVE  IsFiniteSet(Upto(i)) /\ Cardinality(Upto(i)) \in 1..Cardinality(new)
  <2>1. Upto(i) \subseteq new /\ i \in Upto(i)
    OBVIOUS
  <2>2. /\ IsFiniteSet(Upto(i)) /\ Cardinality(Upto(i)) <= Cardinality(new)
        /\ Cardinality(Upto(i)) \in Nat /\ Cardinality(Upto(i)) # 0
    <3> HIDE DEF Upto
    <3> QED BY <1>1, <2>1, FS_Subset, FS_CardinalityType, FS_EmptySet
  <2> QED BY <1>1, <2>2
<1>4. ASSUME NEW i \in new, NEW k \in new, i # k
      PROVE  Cardinality(Upto(i)) # Cardinality(Upto(k))
  <2>1. ASSUME NEW a \in new, NEW b \in new, a # b, GoesFirst(links, a, b)
        PROVE  Cardinality(Upto(a)) # Cardinality(Upto(b))
    <3>1. Upto(a) \subseteq Upto(b) /\ b \in Upto(b) /\ b \notin Upto(a)
      <4>1. ASSUME NEW c \in new, GoesFirst(links, c, a)
            PROVE  GoesFirst(links, c, b)
        BY <1>1, <2>1, <4>1 DEF GoesFirst
      <4>2. ~GoesFirst(links, b, a)
        BY <1>1, <2>1 DEF GoesFirst
      <4> QED BY <2>1, <4>1, <4>2
    <3>2. Upto(a) # Upto(b)
      BY <3>1
    <3> HIDE DEF Upto
    <3> QED BY <1>3, <3>1, <3>2, FS_Subset
  <2>2. GoesFirst(links, i, k) \/ GoesFirst(links, k, i)
    BY <1>1, <1>4 DEF GoesFirst
  <2> QED BY <1>4, <2>1, <2>2
<1>5. F \in Injection(new, 1..Cardinality(new))
  <2>1. F \in [new -> 1..Cardinality(new)]
    BY <1>2, <1>3
  <2>2. \A i, k \in new : F[i] = F[k] => i = k
    BY <1>2, <1>4
  <2> HIDE DEF F
  <2> QED BY <2>1, <2>2 DEF Injection, IsInjective
<1> HIDE DEF F
<1>6. IsFiniteSet(1..Cardinality(new)) /\ Cardinality(1..Cardinality(new)) = Cardinality(new)
  BY <1>1, FS_Interval
<1>7. F \in Surjection(new, 1..Cardinality(new))
  BY <1>5, <1>6, FS_Injection
<1>8. \A n \in 1..Cardinality(new) : \E i \in new : F[i] = n
  BY <1>7 DEF Surjection
<1> QED BY <1>1, <1>8 DEF F

(* New links are pages of the site that this page links to.                *)
LEMMA NewLinksAre ==
  ASSUME NEW j \in Crawls, j.site \in Sites, NEW url \in Urls
  PROVE  /\ NewLinks(j, url) \in Seq(Urls)
         /\ ToSet(NewLinks(j, url)) \subseteq ToSet(Links[j.site][url])
<1> DEFINE links == Links[j.site][url]
           new == New(j, links)
           s == NewLinks(j, url)
<1>1. links \in Seq(Urls)
  BY WebsiteAssumption DEF WebsiteAssumption
<1>2. new \in SUBSET DOMAIN links
  BY DEF New
<1>3. s = [n \in 1..Cardinality(new) |-> links[CHOOSE i \in new : Place(new, links, i) = n]]
  BY DEF NewLinks, Anchors
<1> HIDE DEF new, links, s
<1>4. /\ Cardinality(new) \in Nat
      /\ \A n \in 1..Cardinality(new) : \E i \in new : Place(new, links, i) = n
  BY <1>1, <1>2, PlaceIs
<1>5. ASSUME NEW n \in 1..Cardinality(new)
      PROVE  \E i \in DOMAIN links : s[n] = links[i]
  <2>1. PICK i \in new : Place(new, links, i) = n
    BY <1>4
  <2>2. (CHOOSE k \in new : Place(new, links, k) = n) \in new
    BY <2>1
  <2> QED BY <1>2, <1>3, <2>2
<1>6. \A i \in DOMAIN links : links[i] \in Urls
  BY <1>1, LenProperties, ElementOfSeq
<1>7. s \in Seq(Urls) /\ DOMAIN s = 1..Cardinality(new)
  BY <1>3, <1>4, <1>5, <1>6, IsASeq
<1>8. ToSet(s) \subseteq ToSet(links)
  BY <1>5, <1>7 DEF ToSet
<1> QED BY <1>7, <1>8 DEF s, links

-----------------------------------------------------------------------------
(* robots.txt. *)

(* What holds before the first of n lines, and after a line if it held     *)
(* before it, holds after all.                                             *)
LEMMA LineByLine ==
  ASSUME NEW n \in Nat, NEW S \in SUBSET (0..n), 0 \in S, \A i \in 1..n : i - 1 \in S => i \in S
  PROVE  S = 0..n
<1>1. ASSUME (0..n) \ S # {}
      PROVE  FALSE
  <2>1. PICK x \in (0..n) \ S : \A y \in (0..n) \ S : x <= y
    <3>1. (0..n) \ S \in SUBSET Nat
      OBVIOUS
    <3> QED BY <1>1, <3>1, LeastOf
  <2>2. x \in 1..n /\ x - 1 \in 0..n /\ ~ (x <= x - 1)
    <3>1. x \in Nat /\ x <= n /\ x # 0
      OBVIOUS
    <3> QED BY <3>1
  <2>3. x - 1 \in S
    BY <2>1, <2>2
  <2> QED BY <2>1, <2>2, <2>3
<1> QED BY <1>1

(* The reading of a file is the recursion it is written as.                *)
LEMMA ReadingIs ==
  ASSUME NEW file \in Seq(Lines)
  PROVE  /\ Reading(file)[0] = NothingRead
         /\ \A i \in 1..Len(file) : Reading(file)[i] = ReadLine(Reading(file)[i - 1], file[i])
<1> DEFINE n == Len(file)
           Step(f, i) == f[i] = ReadLine(f[i - 1], file[i])
           Reads(f, i) == /\ DOMAIN f = 0..i /\ f = [k \in 0..i |-> f[k]]
                          /\ f[0] = NothingRead /\ \A k \in 1..i : Step(f, k)
           S == {i \in 0..n : \E f : Reads(f, i)}
           Def(f) == f = [i \in 0..n |-> IF i = 0 THEN NothingRead
                                         ELSE ReadLine(f[i - 1], file[i])]
<1>1. n \in Nat
  BY LenProperties
<1>2. 0 \in S
  <2> DEFINE f == [k \in 0..0 |-> NothingRead]
  <2>1. /\ DOMAIN f = 0..0 /\ f = [k \in 0..0 |-> f[k]] /\ f[0] = NothingRead
        /\ \A k \in 1..0 : Step(f, k)
    OBVIOUS
  <2>2. Reads(f, 0) /\ 0 \in 0..n
    BY <1>1, <2>1
  <2> HIDE DEF f, Reads, n
  <2> QED BY <2>2
<1>3. ASSUME NEW i \in 1..n, i - 1 \in S
      PROVE  i \in S
  <2>1. PICK f : Reads(f, i - 1)
    BY <1>3
  <2> DEFINE g == [k \in 0..i |-> IF k = i THEN ReadLine(f[i - 1], file[i]) ELSE f[k]]
  <2>2. \A k \in 0..(i - 1) : g[k] = f[k]
    BY <1>1
  <2>3. g[i] = ReadLine(f[i - 1], file[i]) /\ DOMAIN g = 0..i /\ g = [k \in 0..i |-> g[k]]
    BY <1>1
  <2> HIDE DEF g
  <2>4. \A k \in 1..i : Step(g, k)
    <3>1. ASSUME NEW k \in 1..(i - 1)
          PROVE  Step(g, k)
      <4>1. k \in 0..(i - 1) /\ k - 1 \in 0..(i - 1)
        BY <1>1
      <4>2. Step(f, k)
        BY <2>1
      <4>3. g[k] = f[k] /\ g[k - 1] = f[k - 1]
        BY <2>2, <4>1
      <4> QED BY <4>2, <4>3
    <3>2. Step(g, i)
      BY SMTT(40), <1>1, <2>2, <2>3
    <3> QED BY <1>1, <3>1, <3>2
  <2>5. g[0] = NothingRead
    BY <1>1, <2>1, <2>2
  <2>6. Reads(g, i)
    BY <2>3, <2>4, <2>5
  <2>7. i \in 0..n
    BY <1>1
  <2> HIDE DEF Reads, n
  <2> QED BY <2>6, <2>7
<1>4. n \in S
  <2> HIDE DEF S, n
  <2>1. S = 0..n
    <3>1. S \in SUBSET (0..n)
      BY DEF S
    <3> QED BY <1>1, <1>2, <1>3, <3>1, LineByLine
  <2>2. n \in 0..n
    BY <1>1
  <2> QED BY <2>1, <2>2
<1>5. PICK f : Reads(f, n)
  BY <1>4
<1>6. Def(f)
  <2>1. \A i \in 0..n : f[i] = IF i = 0 THEN NothingRead ELSE ReadLine(f[i - 1], file[i])
    BY SMTT(40), <1>1, <1>5
  <2> QED BY <1>5, <2>1
<1>7. Reading(file) = CHOOSE g : Def(g)
  BY DEF Reading
<1>8. Def(Reading(file))
  <2> HIDE DEF Def
  <2> QED BY <1>6, <1>7
<1> QED BY <1>1, <1>8

(* The user-agents named last before the end of line i have ours among     *)
(* them: no rule stands between ours and another that came after it.       *)
IsRule(line) == line.field # "user-agent"
Ours(file, i) ==
  \E k \in 1..i :
    /\ ~IsRule(file[k]) /\ file[k].agent = "*"
    /\ \A l, m \in k..i : l < m /\ IsRule(file[l]) => IsRule(file[m])

Groupings == [agents : SUBSET STRING, rules : Seq(Lines)]
Readers == [groups : Seq(Groupings), agents : SUBSET STRING, rules : Seq(Lines)]

(* The reader holds a rule that is for us. *)
Holds(g, rule) ==
  \/ "*" \in g.agents /\ rule \in ToSet(g.rules)
  \/ \E n \in DOMAIN g.groups : "*" \in g.groups[n].agents /\ rule \in ToSet(g.groups[n].rules)

(* After i lines the reader has ours among its agents when the file has,   *)
(* and holds exactly the rules that are for us.                            *)
Short(g, i) == /\ Len(g.rules) <= i
               /\ \A n \in DOMAIN g.groups : Len(g.groups[n].rules) <= i
ReadInv(file, i, g) ==
  /\ g \in Readers /\ Short(g, i)
  /\ g.agents = {} => g.rules = << >>
  /\ g.agents # {} => i > 0 /\ (g.rules # << >> <=> IsRule(file[i]))
  /\ "*" \in g.agents <=> Ours(file, i)
  /\ \A rule \in Lines :
       Holds(g, rule) <=> \E k \in 1..i : IsRule(file[k]) /\ Ours(file, k) /\ rule = file[k]

(* A rule changes nothing about whose turn it is; a user-agent that comes  *)
(* after a rule starts over.                                               *)
LEMMA OursAfterRule ==
  ASSUME NEW file \in Seq(Lines), NEW i \in 1..Len(file), IsRule(file[i])
  PROVE  Ours(file, i) <=> Ours(file, i - 1)
<1>1. i \in Nat /\ i - 1 \in Nat /\ 1..(i - 1) \subseteq 1..i /\ i # 0
  OBVIOUS
<1>2. ASSUME Ours(file, i)
      PROVE  Ours(file, i - 1)
  <2>1. PICK k \in 1..i :
          /\ ~IsRule(file[k]) /\ file[k].agent = "*"
          /\ \A l, m \in k..i : l < m /\ IsRule(file[l]) => IsRule(file[m])
    BY <1>2 DEF Ours
  <2>2. k \in 1..(i - 1) /\ k..(i - 1) \subseteq k..i
    BY <1>1, <2>1
  <2> QED BY <2>1, <2>2 DEF Ours
<1>3. ASSUME Ours(file, i - 1)
      PROVE  Ours(file, i)
  <2>1. PICK k \in 1..(i - 1) :
          /\ ~IsRule(file[k]) /\ file[k].agent = "*"
          /\ \A l, m \in k..(i - 1) : l < m /\ IsRule(file[l]) => IsRule(file[m])
    BY <1>3 DEF Ours
  <2>2. ASSUME NEW l \in k..i, NEW m \in k..i, l < m, IsRule(file[l])
        PROVE  IsRule(file[m])
    <3>1. CASE m = i
      BY <3>1
    <3>2. CASE m # i
      <4>1. l \in k..(i - 1) /\ m \in k..(i - 1)
        BY <1>1, <2>2, <3>2
      <4> QED BY <2>1, <2>2, <4>1
    <3> QED BY <3>1, <3>2
  <2> QED BY <1>1, <2>1, <2>2 DEF Ours
<1> QED BY <1>2, <1>3

(* A user-agent is about us if it names us, or joins others that do.       *)
LEMMA OursAfterAgent ==
  ASSUME NEW file \in Seq(Lines), NEW i \in 1..Len(file), ~IsRule(file[i])
  PROVE  Ours(file, i) <=>
           file[i].agent = "*" \/ (Ours(file, i - 1) /\ ~IsRule(file[i - 1]))
<1>1. i \in Nat /\ i - 1 \in Nat /\ 1..(i - 1) \subseteq 1..i /\ i # 0
  OBVIOUS
<1>2. ASSUME Ours(file, i), file[i].agent # "*"
      PROVE  Ours(file, i - 1) /\ ~IsRule(file[i - 1])
  <2>1. PICK k \in 1..i :
          /\ ~IsRule(file[k]) /\ file[k].agent = "*"
          /\ \A l, m \in k..i : l < m /\ IsRule(file[l]) => IsRule(file[m])
    BY <1>2 DEF Ours
  <2>2. k \in 1..(i - 1) /\ k..(i - 1) \subseteq k..i
    BY <1>1, <1>2, <2>1
  <2>3. i - 1 \in k..i /\ i \in k..i /\ i - 1 < i
    BY <1>1, <2>2
  <2>4. ~IsRule(file[i - 1])
    BY <2>1, <2>3
  <2> QED BY <2>1, <2>2, <2>4 DEF Ours
<1>3. ASSUME file[i].agent = "*"
      PROVE  Ours(file, i)
  <2>1. i \in 1..i /\ \A l, m \in i..i : ~(l < m)
    BY <1>1
  <2> QED BY <1>3, <2>1 DEF Ours
<1>4. ASSUME Ours(file, i - 1), ~IsRule(file[i - 1])
      PROVE  Ours(file, i)
  <2>1. PICK k \in 1..(i - 1) :
          /\ ~IsRule(file[k]) /\ file[k].agent = "*"
          /\ \A l, m \in k..(i - 1) : l < m /\ IsRule(file[l]) => IsRule(file[m])
    BY <1>4 DEF Ours
  <2>2. ASSUME NEW l \in k..i, NEW m \in k..i, l < m, IsRule(file[l])
        PROVE  IsRule(file[m])
    <3>1. l \in k..(i - 1) /\ i - 1 \in k..(i - 1) /\ (l = i - 1 \/ l < i - 1)
      BY <1>1, <2>1, <2>2
    <3>2. IsRule(file[i - 1])
      BY <2>1, <2>2, <3>1
    <3> QED BY <1>4, <3>2
  <2> QED BY <1>1, <2>1, <2>2 DEF Ours
<1> QED BY <1>2, <1>3, <1>4

(* What a line does to what has been read. *)
LEMMA ReadLineIs ==
  ASSUME NEW g \in Readers, NEW line \in Lines
  PROVE  LET h == ReadLine(g, line) IN
         /\ h \in Readers
         /\ IsRule(line) /\ g.agents = {} => h = g
         /\ IsRule(line) /\ g.agents # {} =>
              h.groups = g.groups /\ h.agents = g.agents /\ h.rules = Append(g.rules, line)
         /\ ~IsRule(line) /\ g.agents # {} /\ g.rules # << >> =>
              /\ h.groups = Append(g.groups, [agents |-> g.agents, rules |-> g.rules])
              /\ h.agents = {line.agent} /\ h.rules = << >>
         /\ ~IsRule(line) /\ (g.agents = {} \/ g.rules = << >>) =>
              h.groups = g.groups /\ h.agents = g.agents \union {line.agent} /\ h.rules = g.rules
<1> SUFFICES ASSUME NEW h, h = ReadLine(g, line)
             PROVE  /\ h \in Readers
                    /\ IsRule(line) /\ g.agents = {} => h = g
                    /\ IsRule(line) /\ g.agents # {} =>
                         /\ h.groups = g.groups /\ h.agents = g.agents
                         /\ h.rules = Append(g.rules, line)
                    /\ ~IsRule(line) /\ g.agents # {} /\ g.rules # << >> =>
                         /\ h.groups = Append(g.groups, [agents |-> g.agents, rules |-> g.rules])
                         /\ h.agents = {line.agent} /\ h.rules = << >>
                    /\ ~IsRule(line) /\ (g.agents = {} \/ g.rules = << >>) =>
                         /\ h.groups = g.groups /\ h.agents = g.agents \union {line.agent}
                         /\ h.rules = g.rules
  OBVIOUS
<1>1. g.groups \in Seq(Groupings) /\ g.agents \in SUBSET STRING /\ g.rules \in Seq(Lines)
  BY DEF Readers
<1>2. CASE IsRule(line)
  <2>1. Append(g.rules, line) \in Seq(Lines)
    BY <1>1, AppendProperties
  <2>2. h = IF g.agents # {} THEN [g EXCEPT !.rules = Append(@, line)] ELSE g
    BY <1>2 DEF ReadLine, IsRule
  <2> QED BY <1>1, <1>2, <2>1, <2>2 DEF Readers
<1>3. CASE ~IsRule(line)
  <2>1. h = [Closed(g) EXCEPT !.agents = @ \union {line.agent}]
    BY <1>3 DEF ReadLine, IsRule
  <2>2. line.agent \in STRING
    BY <1>3 DEF Lines, IsRule
  <2> DEFINE group == [agents |-> g.agents, rules |-> g.rules]
  <2>3. group \in Groupings
    BY <1>1 DEF Groupings
  <2> HIDE DEF group
  <2>4. Append(g.groups, group) \in Seq(Groupings) /\ << >> \in Seq(Lines)
    BY <1>1, <2>3, AppendProperties, EmptySeq
  <2>5. CASE g.agents # {} /\ g.rules # << >>
    <3> DEFINE groups == Append(g.groups, group)
               none == << >>
    <3>1. Closed(g) = [groups |-> groups, agents |-> {}, rules |-> none]
      BY <2>5 DEF Closed, group
    <3>2. groups \in Seq(Groupings) /\ none \in Seq(Lines)
      BY <2>4
    <3> HIDE DEF groups, none
    <3>3. PICK c : c = Closed(g)
      OBVIOUS
    <3>4. c \in Readers /\ c.groups = groups /\ c.agents = {} /\ c.rules = none
      BY <3>1, <3>2, <3>3 DEF Readers
    <3>5. h = [c EXCEPT !.agents = @ \union {line.agent}]
      BY <2>1, <3>3
    <3>6. /\ h.groups = groups /\ h.agents = {line.agent} /\ h.rules = none
          /\ h \in Readers
      BY <2>2, <3>4, <3>5 DEF Readers
    <3> QED BY <1>3, <2>5, <3>6 DEF group, groups, none
  <2>6. CASE ~ (g.agents # {} /\ g.rules # << >>)
    <3>1. Closed(g) = g
      BY <2>6 DEF Closed
    <3>2. /\ h.groups = g.groups /\ h.agents = g.agents \union {line.agent}
          /\ h.rules = g.rules /\ h \in Readers
      BY <1>1, <2>1, <2>2, <3>1 DEF Readers
    <3> QED BY <1>3, <2>6, <3>2
  <2> QED BY <2>5, <2>6
<1> QED BY <1>2, <1>3

(* What is in a sequence after one more. *)
LEMMA InAppended ==
  ASSUME NEW T, NEW s \in Seq(T), NEW x \in T
  PROVE  /\ Append(s, x) \in Seq(T) /\ Len(Append(s, x)) = Len(s) + 1 /\ Len(s) \in Nat
         /\ DOMAIN s = 1..Len(s) /\ DOMAIN Append(s, x) = 1..(Len(s) + 1)
         /\ \A i \in DOMAIN s : s[i] \in T /\ Append(s, x)[i] = s[i]
         /\ Append(s, x)[Len(s) + 1] = x
         /\ ToSet(Append(s, x)) = ToSet(s) \union {x}
<1>1. /\ Append(s, x) \in Seq(T) /\ Len(Append(s, x)) = Len(s) + 1 /\ Len(s) \in Nat
      /\ DOMAIN s = 1..Len(s) /\ DOMAIN Append(s, x) = 1..(Len(s) + 1)
      /\ \A i \in 1..Len(s) : s[i] \in T /\ Append(s, x)[i] = s[i]
      /\ Append(s, x)[Len(s) + 1] = x
  BY AppendProperties, LenProperties, ElementOfSeq
<1>2. ToSet(Append(s, x)) = ToSet(s) \union {x}
  <2>1. 1..(Len(s) + 1) = (1..Len(s)) \union {Len(s) + 1}
    BY <1>1
  <2> QED BY <1>1, <2>1 DEF ToSet
<1> QED BY <1>1, <1>2

(* Each line keeps what the reader holds in step with what is for us.      *)
LEMMA ReadStep ==
  ASSUME NEW file \in Seq(Lines), NEW i \in 1..Len(file), NEW g, ReadInv(file, i - 1, g)
  PROVE  ReadInv(file, i, ReadLine(g, file[i]))
<1> DEFINE line == file[i]
           Here(rule) == IsRule(line) /\ Ours(file, i) /\ rule = line
<1>1. PICK h : h = ReadLine(g, line)
  OBVIOUS
<1>2. /\ i \in Nat /\ i - 1 \in Nat /\ i > 0 /\ line \in Lines /\ g \in Readers
      /\ 1..i = (1..(i - 1)) \union {i}
  BY LenProperties, ElementOfSeq DEF ReadInv
<1>3. /\ g.groups \in Seq(Groupings) /\ g.agents \in SUBSET STRING /\ g.rules \in Seq(Lines)
      /\ [agents |-> g.agents, rules |-> g.rules] \in Groupings
  BY <1>2 DEF Readers, Groupings
<1>4. /\ h \in Readers
      /\ IsRule(line) /\ g.agents = {} => h = g
      /\ IsRule(line) /\ g.agents # {} =>
           h.groups = g.groups /\ h.agents = g.agents /\ h.rules = Append(g.rules, line)
      /\ ~IsRule(line) /\ g.agents # {} /\ g.rules # << >> =>
           /\ h.groups = Append(g.groups, [agents |-> g.agents, rules |-> g.rules])
           /\ h.agents = {line.agent} /\ h.rules = << >>
      /\ ~IsRule(line) /\ (g.agents = {} \/ g.rules = << >>) =>
           h.groups = g.groups /\ h.agents = g.agents \union {line.agent} /\ h.rules = g.rules
  BY <1>1, <1>2, ReadLineIs
<1>5. \A rule \in Lines :
        (\E k \in 1..i : IsRule(file[k]) /\ Ours(file, k) /\ rule = file[k])
          <=> Holds(g, rule) \/ Here(rule)
  BY <1>2 DEF ReadInv
<1>6. IsRule(line) => (Ours(file, i) <=> "*" \in g.agents)
  BY OursAfterRule DEF ReadInv
<1>7. ~IsRule(line) =>
        (Ours(file, i) <=> line.agent = "*" \/ ("*" \in g.agents /\ ~IsRule(file[i - 1])))
  BY OursAfterAgent DEF ReadInv
<1>8. /\ g.agents = {} => g.rules = << >>
      /\ g.agents # {} => (g.rules # << >> <=> IsRule(file[i - 1]))
      /\ Short(g, i - 1)
  BY DEF ReadInv
<1> HIDE DEF line
<1> SUFFICES /\ Short(h, i)
             /\ h.agents = {} => h.rules = << >>
             /\ h.agents # {} => (h.rules # << >> <=> IsRule(line))
             /\ "*" \in h.agents <=> Ours(file, i)
             /\ \A rule \in Lines : Holds(h, rule) <=> Holds(g, rule) \/ Here(rule)
  <2>1. /\ h \in Readers /\ Short(h, i)
        /\ h.agents = {} => h.rules = << >>
        /\ h.agents # {} => i > 0 /\ (h.rules # << >> <=> IsRule(file[i]))
        /\ "*" \in h.agents <=> Ours(file, i)
    BY <1>2, <1>4 DEF line
  <2>2. \A rule \in Lines :
          Holds(h, rule) <=> \E k \in 1..i : IsRule(file[k]) /\ Ours(file, k) /\ rule = file[k]
    BY <1>5
  <2>3. ReadInv(file, i, h)
    BY <2>1, <2>2 DEF ReadInv
  <2> QED BY <1>1, <2>3 DEF line
<1>9. Len(g.rules) \in Nat /\ Len(g.rules) <= i /\ Short(g, i)
  <2>1. \A n \in DOMAIN g.groups : Len(g.groups[n].rules) \in Nat
    <3>1. \A n \in DOMAIN g.groups : g.groups[n] \in Groupings
      BY <1>3, LenProperties, ElementOfSeq
    <3> QED BY <3>1, LenProperties DEF Groupings
  <2> QED BY <1>2, <1>3, <1>8, <2>1, LenProperties DEF Short
<1>10. CASE IsRule(line) /\ g.agents = {}
  BY <1>4, <1>6, <1>8, <1>9, <1>10
<1>11. CASE IsRule(line) /\ g.agents # {}
  <2>1. /\ h.groups = g.groups /\ h.agents = g.agents /\ h.rules = Append(g.rules, line)
    BY <1>4, <1>11
  <2>2. /\ Len(h.rules) = Len(g.rules) + 1 /\ h.rules # << >>
        /\ ToSet(h.rules) = ToSet(g.rules) \union {line}
    <3>1. /\ Len(h.rules) = Len(g.rules) + 1 /\ ToSet(h.rules) = ToSet(g.rules) \union {line}
      BY <1>2, <1>3, <2>1, InAppended
    <3>2. h.rules # << >>
      BY <1>9, <3>1
    <3> QED BY <3>1, <3>2
  <2>3. Short(h, i)
    BY <1>2, <1>8, <1>9, <2>1, <2>2 DEF Short
  <2>4. \A rule \in Lines : Holds(h, rule) <=> Holds(g, rule) \/ Here(rule)
    BY <1>6, <1>11, <2>1, <2>2 DEF Holds
  <2> QED BY <1>6, <1>11, <2>1, <2>2, <2>3, <2>4
<1>12. CASE ~IsRule(line) /\ g.agents # {} /\ g.rules # << >>
  <2> DEFINE group == [agents |-> g.agents, rules |-> g.rules]
  <2>1. /\ h.groups = Append(g.groups, group) /\ h.agents = {line.agent} /\ h.rules = << >>
    BY <1>4, <1>12
  <2>2. group \in Groupings /\ group.agents = g.agents /\ group.rules = g.rules
    BY <1>3
  <2> HIDE DEF group
  <2>3. /\ DOMAIN h.groups = DOMAIN g.groups \union {Len(g.groups) + 1}
        /\ \A n \in DOMAIN g.groups : h.groups[n] = g.groups[n]
        /\ h.groups[Len(g.groups) + 1] = group
    <3>1. /\ Len(g.groups) \in Nat
          /\ DOMAIN g.groups = 1..Len(g.groups) /\ DOMAIN h.groups = 1..(Len(g.groups) + 1)
          /\ \A n \in DOMAIN g.groups : h.groups[n] = g.groups[n]
          /\ h.groups[Len(g.groups) + 1] = group
      BY <1>3, <2>1, <2>2, InAppended
    <3> QED BY <3>1
  <2>4. ToSet(h.rules) = {} /\ Len(h.rules) = 0
    BY <2>1 DEF ToSet
  <2>5. Short(h, i)
    BY <1>2, <1>9, <2>2, <2>3, <2>4 DEF Short
  <2>6. \A rule \in Lines : Holds(h, rule) <=> Holds(g, rule)
    BY <2>2, <2>3, <2>4 DEF Holds
  <2>7. Ours(file, i) <=> line.agent = "*"
    BY <1>7, <1>8, <1>12
  <2> QED BY <1>12, <2>1, <2>5, <2>6, <2>7
<1>13. CASE ~IsRule(line) /\ (g.agents = {} \/ g.rules = << >>)
  <2>1. /\ h.groups = g.groups /\ h.agents = g.agents \union {line.agent} /\ h.rules = g.rules
        /\ g.rules = << >>
    BY <1>4, <1>8, <1>13
  <2>2. ToSet(h.rules) = {} /\ ToSet(g.rules) = {}
    BY <2>1 DEF ToSet
  <2>3. Short(h, i)
    BY <1>9, <2>1 DEF Short
  <2>4. \A rule \in Lines : Holds(h, rule) <=> Holds(g, rule)
    BY <2>1, <2>2 DEF Holds
  <2>5. g.agents # {} => ~IsRule(file[i - 1])
    BY <1>8, <2>1
  <2>6. "*" \in g.agents => g.agents # {}
    OBVIOUS
  <2>7. Ours(file, i) <=> line.agent = "*" \/ "*" \in g.agents
    BY <1>7, <1>13, <2>5, <2>6
  <2> QED BY <1>13, <2>1, <2>3, <2>4, <2>7
<1> QED BY <1>10, <1>11, <1>12, <1>13

(* The whole file, by the least line that would be read wrongly.           *)
LEMMA ReadAll ==
  ASSUME NEW file \in Seq(Lines)
  PROVE  ReadInv(file, Len(file), Reading(file)[Len(file)])
<1> DEFINE n == Len(file)
           S == {i \in 0..n : ReadInv(file, i, Reading(file)[i])}
<1>1. n \in Nat
  BY LenProperties
<1>2. ReadInv(file, 0, NothingRead)
  <2>1. << >> \in Seq(Lines) /\ << >> \in Seq(Groupings)
    BY EmptySeq
  <2>2. NothingRead \in Readers
    BY <2>1 DEF NothingRead, Readers
  <2>3. /\ NothingRead.groups = << >> /\ NothingRead.agents = {} /\ NothingRead.rules = << >>
        /\ Len(<< >>) = 0 /\ DOMAIN << >> = {}
    BY DEF NothingRead
  <2>4. Short(NothingRead, 0)
    BY <2>3 DEF Short
  <2>5. 1..0 = {} /\ ~Ours(file, 0)
    BY DEF Ours
  <2>6. \A rule : ~Holds(NothingRead, rule)
    <3>1. ToSet(NothingRead.rules) = {}
      BY <2>3 DEF ToSet
    <3> QED BY <2>3, <3>1 DEF Holds
  <2> QED BY <2>2, <2>3, <2>4, <2>5, <2>6 DEF ReadInv
<1>3. 0 \in S
  BY <1>1, <1>2, ReadingIs
<1>4. ASSUME NEW i \in 1..n, i - 1 \in S
      PROVE  i \in S
  <2>1. i \in 0..n /\ ReadInv(file, i - 1, Reading(file)[i - 1])
    BY <1>1, <1>4
  <2>2. Reading(file)[i] = ReadLine(Reading(file)[i - 1], file[i])
    BY ReadingIs
  <2> QED BY <2>1, <2>2, ReadStep
<1>5. n \in S
  <2> HIDE DEF S, n
  <2>1. S \in SUBSET (0..n)
    BY DEF S
  <2>2. S = 0..n
    BY <1>1, <1>3, <1>4, <2>1, LineByLine
  <2>3. n \in 0..n
    BY <1>1
  <2> QED BY <2>2, <2>3
<1> QED BY <1>5

(* What the groups hold of rules for us, at last, is what Applies says.    *)
LEMMA GroupsHold ==
  ASSUME NEW file \in Seq(Lines)
  PROVE  LET groups == Groups(file) IN
         /\ groups \in Seq(Groupings)
         /\ \A a \in DOMAIN groups : Len(groups[a].rules) <= Len(file)
         /\ \A rule \in Lines :
              (\E a \in DOMAIN groups : "*" \in groups[a].agents /\ rule \in ToSet(groups[a].rules))
                <=> \E k \in 1..Len(file) : IsRule(file[k]) /\ Ours(file, k) /\ rule = file[k]
<1> DEFINE n == Len(file)
<1>1. PICK g : g = Reading(file)[n] /\ ReadInv(file, n, g)
  BY ReadAll
<1>2. PICK groups : groups = Groups(file)
  OBVIOUS
<1>3. groups = Closed(g).groups
  BY <1>1, <1>2 DEF Groups
<1>4. /\ g.groups \in Seq(Groupings) /\ g.agents \in SUBSET STRING /\ g.rules \in Seq(Lines)
      /\ [agents |-> g.agents, rules |-> g.rules] \in Groupings
      /\ Short(g, n) /\ (g.agents = {} => g.rules = << >>)
  BY <1>1 DEF Readers, Groupings, ReadInv
<1>5. \A rule \in Lines :
        Holds(g, rule) <=> \E k \in 1..n : IsRule(file[k]) /\ Ours(file, k) /\ rule = file[k]
  BY <1>1 DEF ReadInv
<1> HIDE DEF n
<1> DEFINE ByGroups(rule) ==
             \E a \in DOMAIN groups : "*" \in groups[a].agents /\ rule \in ToSet(groups[a].rules)
           Fit == \A a \in DOMAIN groups : Len(groups[a].rules) <= n
<1>6. groups \in Seq(Groupings) /\ Fit /\ \A rule \in Lines : ByGroups(rule) <=> Holds(g, rule)
  <2>1. CASE g.agents # {} /\ g.rules # << >>
    <3> DEFINE group == [agents |-> g.agents, rules |-> g.rules]
    <3>1. groups = Append(g.groups, group)
      BY <1>3, <2>1 DEF Closed
    <3>2. group \in Groupings /\ group.agents = g.agents /\ group.rules = g.rules
      BY <1>4
    <3> HIDE DEF group
    <3>3. /\ groups \in Seq(Groupings)
          /\ DOMAIN groups = DOMAIN g.groups \union {Len(g.groups) + 1}
          /\ \A a \in DOMAIN g.groups : groups[a] = g.groups[a]
          /\ groups[Len(g.groups) + 1] = group
      <4>1. /\ Len(g.groups) \in Nat /\ groups \in Seq(Groupings)
            /\ DOMAIN g.groups = 1..Len(g.groups) /\ DOMAIN groups = 1..(Len(g.groups) + 1)
            /\ \A a \in DOMAIN g.groups : groups[a] = g.groups[a]
            /\ groups[Len(g.groups) + 1] = group
        BY <1>4, <3>1, <3>2, InAppended
      <4> QED BY <4>1
    <3>4. Fit
      BY <1>4, <3>2, <3>3 DEF Short
    <3>5. \A rule \in Lines : ByGroups(rule) <=> Holds(g, rule)
      BY <3>2, <3>3 DEF Holds
    <3> QED BY <3>3, <3>4, <3>5
  <2>2. CASE ~ (g.agents # {} /\ g.rules # << >>)
    <3>1. groups = g.groups /\ g.rules = << >>
      BY <1>3, <1>4, <2>2 DEF Closed
    <3>2. ToSet(g.rules) = {}
      BY <3>1 DEF ToSet
    <3> QED BY <1>4, <3>1, <3>2 DEF Holds, Short
  <2> QED BY <2>1, <2>2
<1> QED BY <1>2, <1>5, <1>6 DEF n

(* A rule applies when it is for us and matches.                           *)
LEMMA AppliesIs ==
  ASSUME NEW file \in Seq(Lines), NEW i \in 1..Len(file)
  PROVE  Applies(file, i) <=>
           IsRule(file[i]) /\ Ours(file, i) /\ file[i].hit /\ file[i].length > 0
<1>1. i \in Nat /\ 1..(i - 1) \subseteq 1..i /\ \A k \in 1..i : k = i \/ k \in 1..(i - 1)
  OBVIOUS
<1>2. ASSUME IsRule(file[i]), Ours(file, i)
      PROVE  \E k \in 1..(i - 1) :
               /\ file[k].field = "user-agent" /\ file[k].agent = "*"
               /\ \A l \in k..i, m \in k..i : l < m /\ file[l].field # "user-agent"
                                              => file[m].field # "user-agent"
  <2>1. PICK k \in 1..i :
          /\ ~IsRule(file[k]) /\ file[k].agent = "*"
          /\ \A l, m \in k..i : l < m /\ IsRule(file[l]) => IsRule(file[m])
    BY <1>2 DEF Ours
  <2>2. k \in 1..(i - 1)
    BY <1>1, <1>2, <2>1
  <2> QED BY <2>1, <2>2 DEF IsRule
<1>3. Applies(file, i) => IsRule(file[i]) /\ Ours(file, i)
  BY <1>1 DEF Applies, IsRule, Ours
<1> QED BY <1>2, <1>3 DEF Applies, IsRule

(* What a file forbids by its longest rule, the reader does not allow: for *)
(* every file, however its user-agents and rules are interleaved.          *)
THEOREM ForbiddenIsDenied ==
  ASSUME NEW file \in Seq(Lines), Forbids(file)
  PROVE  ~RobotsAllows(file)
<1>1. PICK i \in DOMAIN file :
        /\ Applies(file, i) /\ file[i].field = "disallow"
        /\ \A j \in DOMAIN file : Applies(file, j) /\ j # i => file[j].length < file[i].length
  BY DEF Forbids
<1>2. DOMAIN file = 1..Len(file) /\ Len(file) \in Nat /\ \A j \in DOMAIN file : file[j] \in Lines
  BY LenProperties, ElementOfSeq
<1> DEFINE groups == Groups(file)
           Rule(m) == groups[m[1]].rules[m[2]]
           mine == {m \in (1..Len(groups)) \X (1..Len(file)) :
                      /\ "*" \in groups[m[1]].agents /\ m[2] <= Len(groups[m[1]].rules)
                      /\ Rule(m).length > 0 /\ Rule(m).hit}
           Outranks(m, o) ==
             \/ Rule(m).length > Rule(o).length
             \/ /\ Rule(m).length = Rule(o).length
                /\ (m[1] < o[1] \/ (m[1] = o[1] /\ m[2] <= o[2]))
<1>3. RobotsAllows(file) =>
        mine = {} \/ \E m \in mine : (\A o \in mine : Outranks(m, o)) /\ Rule(m).field = "allow"
  BY DEF RobotsAllows
<1>4. /\ groups \in Seq(Groupings)
      /\ \A a \in DOMAIN groups : Len(groups[a].rules) <= Len(file)
      /\ \A rule \in Lines :
           (\E a \in DOMAIN groups : "*" \in groups[a].agents /\ rule \in ToSet(groups[a].rules))
             <=> \E k \in 1..Len(file) : IsRule(file[k]) /\ Ours(file, k) /\ rule = file[k]
  BY GroupsHold
<1> HIDE DEF groups
<1>5. /\ DOMAIN groups = 1..Len(groups)
      /\ \A a \in DOMAIN groups : /\ groups[a].rules \in Seq(Lines)
                                  /\ DOMAIN groups[a].rules = 1..Len(groups[a].rules)
                                  /\ Len(groups[a].rules) \in Nat
  <2>1. DOMAIN groups = 1..Len(groups) /\ \A a \in DOMAIN groups : groups[a] \in Groupings
    BY <1>4, LenProperties, ElementOfSeq
  <2>2. \A a \in DOMAIN groups : groups[a].rules \in Seq(Lines)
    BY <2>1 DEF Groupings
  <2> QED BY <2>1, <2>2, LenProperties
<1>7. \E m \in mine : Rule(m) = file[i]
  <2>1. IsRule(file[i]) /\ Ours(file, i) /\ file[i].hit /\ file[i].length > 0
    BY <1>1, <1>2, AppliesIs
  <2>2. PICK a \in DOMAIN groups : "*" \in groups[a].agents /\ file[i] \in ToSet(groups[a].rules)
    BY <1>2, <1>4, <2>1
  <2>3. PICK b \in DOMAIN groups[a].rules : groups[a].rules[b] = file[i]
    BY <2>2 DEF ToSet
  <2>4. b \in 1..Len(file) /\ b <= Len(groups[a].rules) /\ a \in 1..Len(groups)
    BY <1>2, <1>4, <1>5, <2>3
  <2> DEFINE m == <<a, b>>
  <2>5. m[1] = a /\ m[2] = b /\ m \in (1..Len(groups)) \X (1..Len(file))
    BY <2>4
  <2> HIDE DEF m
  <2>6. Rule(m) = file[i]
    BY <2>3, <2>5
  <2>7. m \in mine
    BY <2>1, <2>2, <2>4, <2>5, <2>6
  <2> QED BY <2>6, <2>7
<1>8. ASSUME NEW m \in mine
      PROVE  \E k \in DOMAIN file : Applies(file, k) /\ Rule(m) = file[k]
  <2>1. /\ m[1] \in DOMAIN groups /\ m[2] \in DOMAIN groups[m[1]].rules
        /\ "*" \in groups[m[1]].agents /\ Rule(m).length > 0 /\ Rule(m).hit
    BY <1>5
  <2>2. Rule(m) \in Lines /\ Rule(m) \in ToSet(groups[m[1]].rules)
    BY <1>5, <2>1, ElementOfSeq DEF ToSet
  <2>3. PICK k \in 1..Len(file) : IsRule(file[k]) /\ Ours(file, k) /\ Rule(m) = file[k]
    BY SMTT(40), <1>4, <2>1, <2>2
  <2> QED BY <1>2, <2>1, <2>3, AppliesIs
<1> SUFFICES ASSUME RobotsAllows(file) PROVE FALSE
  OBVIOUS
<1>9. PICK m \in mine : (\A o \in mine : Outranks(m, o)) /\ Rule(m).field = "allow"
  BY <1>3, <1>7
<1>10. PICK k \in DOMAIN file : Applies(file, k) /\ Rule(m) = file[k]
  BY <1>8
<1>11. k # i /\ file[k].length < file[i].length
  BY <1>1, <1>9, <1>10
<1>12. PICK o \in mine : Rule(o) = file[i]
  BY <1>7
<1>13. Outranks(m, o)
  BY <1>9, <1>12
<1>14. file[k].length \in Nat /\ file[i].length \in Nat
  BY <1>1, <1>2, <1>10 DEF Applies, Lines
<1>15. file[k].length > file[i].length \/ file[k].length = file[i].length
  BY <1>10, <1>12, <1>13
<1> QED BY SMTT(40), <1>11, <1>14, <1>15

-----------------------------------------------------------------------------
(* Pages. *)

(* What a request comes to: robots.txt is never a page, and a page that    *)
(* does not come, is not refused and wants no rendering is an error.       *)
LEMMA PageStatusIs ==
  ASSUME NEW a \in Answers
  PROVE  /\ PageStatus(a, TRUE) \in Statuses \ {"FETCHED"}
         /\ PageStatus(a, FALSE) \in Statuses
         /\ PageStatus(a, FALSE) \in
              {"FETCHED", "RENDER_REQUIRED", "UNSAFE_REDIRECT", "UNSAFE_DESTINATION", "RAISED"}
                \union Errors
<1>1. a.result \in {"ok", "TIMEOUT", "SOURCE_ERROR"}
  BY WebsiteAssumption DEF WebsiteAssumption, IsAnswer
<1> QED BY <1>1 DEF PageStatus, Statuses, Errors

(* The pages fetched and failed when one more has been asked for.          *)
LEMMA PagesThen ==
  ASSUME NEW pages \in Seq(PageRows), NEW row \in PageRows
  PROVE  /\ Append(pages, row) \in Seq(PageRows)
         /\ DOMAIN Append(pages, row) = DOMAIN pages \union {Len(pages) + 1}
         /\ DOMAIN pages = 1..Len(pages) /\ Len(pages) \in Nat
         /\ \A i \in DOMAIN pages : Append(pages, row)[i] = pages[i]
         /\ Append(pages, row)[Len(pages) + 1] = row
         /\ Fetched(Append(pages, row))
              = Fetched(pages) \union (IF row.status = "FETCHED" THEN {row.url} ELSE {})
         /\ Failed(Append(pages, row)) <=> Failed(pages) \/ row.status \in Errors
<1> DEFINE more == Append(pages, row)
           n == Len(pages)
<1>1. /\ more \in Seq(PageRows) /\ DOMAIN more = 1..(n + 1)
      /\ DOMAIN pages = 1..n /\ n \in Nat
      /\ \A i \in DOMAIN pages : more[i] = pages[i]
      /\ more[n + 1] = row
  BY InAppended
<1>2. DOMAIN more = DOMAIN pages \union {n + 1} /\ n + 1 \notin DOMAIN pages
  BY <1>1
<1> HIDE DEF more, n
<1>3. Fetched(more) = Fetched(pages) \union (IF row.status = "FETCHED" THEN {row.url} ELSE {})
  BY <1>1, <1>2 DEF Fetched
<1>4. Failed(more) <=> Failed(pages) \/ row.status \in Errors
  BY <1>1, <1>2 DEF Failed
<1> QED BY <1>1, <1>2, <1>3, <1>4 DEF more, n

(* A crawl whose only page is robots.txt, or the refused start page.       *)
LEMMA FirstPage ==
  ASSUME NEW row \in PageRows
  PROVE  /\ <<row>> \in Seq(PageRows) /\ DOMAIN <<row>> = {1} /\ <<row>>[1] = row
         /\ <<row>> # << >> /\ ~UrlTwice(<<row>>)
         /\ row.status # "FETCHED" => Fetched(<<row>>) = {}
<1>1. DOMAIN <<row>> = {1} /\ <<row>>[1] = row /\ <<row>> \in Seq(PageRows) /\ <<row>> # << >>
  OBVIOUS
<1> QED BY <1>1 DEF UrlTwice, Fetched

(* Before anything was asked for.                                          *)
LEMMA NoPages ==
  Fetched(<< >>) = {} /\ ~Failed(<< >>) /\ ~UrlTwice(<< >>) /\ DOMAIN << >> = {}
BY DEF Fetched, Failed, UrlTwice

(* Pages are pages of the site.                                            *)
LEMMA FetchedInUrls ==
  ASSUME NEW pages \in Seq(PageRows)
  PROVE  Fetched(pages) \subseteq Urls
<1>1. DOMAIN pages = 1..Len(pages) /\ \A i \in 1..Len(pages) : pages[i] \in PageRows
  BY LenProperties, ElementOfSeq
<1>2. \A row \in PageRows : row.url \in Urls
  BY DEF PageRows
<1> QED BY <1>1, <1>2 DEF Fetched

(* What an idle enricher holds.                                            *)
LEMMA NoJobIs ==
  /\ NoJob \in Crawls /\ NoJob.run = 0 /\ NoJob.pages = << >> /\ NoJob.file = << >>
  /\ NoJob.seen = {}
<1>1. << >> \in Seq(Urls) /\ << >> \in Seq(PageRows) /\ << >> \in Seq(Lines)
  BY EmptySeq
<1> QED BY <1>1 DEF NoJob, Crawls

-----------------------------------------------------------------------------
(* Steps. *)

(* A step of an enricher that leaves the runs alone, and carries its run   *)
(* on: only the gate lets one more of them open a run.                     *)
LEMMA MoveInv ==
  ASSUME WebInv, NEW e \in Enrichers, NEW label \in Wheres, NEW j \in Crawls,
         Move(e, label, j), UNCHANGED run, j.run = job[e].run,
         Owns(label, j), Sound(label, j), label = "open" => Len(run) < Quota
  PROVE  WebInv'
<1>1. /\ where' = [where EXCEPT ![e] = label] /\ job' = [job EXCEPT ![e] = j]
      /\ where \in [Enrichers -> Wheres] /\ job \in [Enrichers -> Crawls]
  BY DEF WebInv, WebTypes, Move
<1>2. WebTypes'
  <2>1. where' \in [Enrichers -> Wheres] /\ job' \in [Enrichers -> Crawls]
    BY <1>1
  <2> QED BY <2>1 DEF WebInv, WebTypes, Move
<1>3. ASSUME NEW f \in Enrichers
      PROVE  Owns(where[f], job[f])' /\ Sound(where[f], job[f])'
  <2>1. CASE f = e
    <3>1. where'[f] = label /\ job'[f] = j
      BY <1>1, <2>1
    <3> QED BY <3>1 DEF Owns, Sound
  <2>2. CASE f # e
    <3>1. where'[f] = where[f] /\ job'[f] = job[f]
      BY <1>1, <2>2
    <3>2. Owns(where[f], job[f]) /\ Sound(where[f], job[f])
      BY DEF WebInv
    <3> QED BY <3>1, <3>2 DEF Owns, Sound
  <2> QED BY <2>1, <2>2
<1>4. QuotaInv'
  <2>1. IsFiniteSet(Enrichers) /\ Cardinality(Enrichers) \in Nat /\ Quota \in Nat
    BY WebsiteAssumption, FS_CardinalityType DEF WebsiteAssumption
  <2>2. /\ Opening \subseteq Enrichers /\ Opening' \subseteq Enrichers
        /\ label # "open" => Opening' \subseteq Opening
    BY <1>1 DEF Opening
  <2>3. /\ IsFiniteSet(Opening) /\ IsFiniteSet(Opening')
        /\ Cardinality(Opening) \in Nat /\ Cardinality(Opening') \in Nat
        /\ Cardinality(Opening') <= Cardinality(Enrichers)
    BY <2>1, <2>2, FS_Subset, FS_CardinalityType
  <2>4. label # "open" => Cardinality(Opening') <= Cardinality(Opening)
    BY <2>2, <2>3, FS_Subset
  <2>5. Len(run) \in Nat
    BY LenProperties DEF WebInv, WebTypes
  <2>6. Len(run) + Cardinality(Opening) < Quota + Cardinality(Enrichers)
    BY DEF WebInv, QuotaInv
  <2>7. Len(run) + Cardinality(Opening') < Quota + Cardinality(Enrichers)
    BY <2>1, <2>3, <2>4, <2>5, <2>6
  <2> QED BY <2>7 DEF QuotaInv
<1>5. Orphans' = Orphans
  <2>1. \A f \in Enrichers : job'[f].run = job[f].run
    BY <1>1
  <2> QED BY <2>1 DEF Orphans, Move
<1>6. UNCHANGED <<run, crashes>>
  BY DEF Move
<1> QED BY <1>2, <1>3, <1>4, <1>5, <1>6 DEF WebInv, OneFirstContact

(* A crawl that raises leaves its run behind, on record as such.           *)
LEMMA RaiseInv ==
  ASSUME WebInv, NEW e \in Enrichers, where[e] \in Inside, Raise(e), UNCHANGED run
  PROVE  WebInv'
<1>1. /\ where' = [where EXCEPT ![e] = "idle"] /\ job' = [job EXCEPT ![e] = NoJob]
      /\ where \in [Enrichers -> Wheres] /\ job \in [Enrichers -> Crawls]
      /\ UNCHANGED <<run, leads, blocked, paused, crashes>>
      /\ raised' = raised \union {job[e].run}
  BY DEF WebInv, WebTypes, Raise
<1>2. WebTypes'
  <2>1. where' \in [Enrichers -> Wheres] /\ job' \in [Enrichers -> Crawls]
    BY <1>1, NoJobIs DEF Wheres
  <2>2. raised' \subseteq DOMAIN run
    BY <1>1 DEF WebInv, WebTypes, Owns
  <2> QED BY <1>1, <2>1, <2>2 DEF WebInv, WebTypes
<1>3. ASSUME NEW f \in Enrichers
      PROVE  Owns(where[f], job[f])' /\ Sound(where[f], job[f])'
  <2>1. CASE f = e
    <3>1. where'[f] = "idle" /\ job'[f] = NoJob
      BY <1>1, <2>1
    <3> QED BY <3>1, NoJobIs, NoPages DEF Owns, Sound, Inside
  <2>2. CASE f # e
    <3>1. where'[f] = where[f] /\ job'[f] = job[f]
      BY <1>1, <2>2
    <3>2. Owns(where[f], job[f]) /\ Sound(where[f], job[f])
      BY DEF WebInv
    <3> QED BY <1>1, <3>1, <3>2 DEF Owns, Sound
  <2> QED BY <2>1, <2>2
<1>4. QuotaInv'
  <2>1. Opening' = Opening
    BY <1>1 DEF Opening, Inside
  <2> QED BY <1>1, <2>1 DEF WebInv, QuotaInv
<1>5. Cardinality(Orphans') <= crashes'
  <2>1. Orphans' \subseteq Orphans
    <3>1. \A f \in Enrichers : f # e => job'[f].run = job[f].run
      BY <1>1
    <3> QED BY <1>1, <3>1 DEF Orphans
  <2>2. DOMAIN run = 1..Len(run) /\ Len(run) \in Nat
    BY LenProperties DEF WebInv, WebTypes
  <2>3. IsFiniteSet(1..Len(run)) /\ Orphans \subseteq 1..Len(run)
    <3>1. Orphans \subseteq DOMAIN run
      BY DEF Orphans
    <3> QED BY <2>2, <3>1, FS_Interval
  <2>4. IsFiniteSet(Orphans) /\ Cardinality(Orphans) \in Nat
    BY <2>3, FS_Subset, FS_CardinalityType
  <2>5. Cardinality(Orphans') <= Cardinality(Orphans) /\ Cardinality(Orphans') \in Nat
    BY <2>1, <2>4, FS_Subset, FS_CardinalityType
  <2>6. crashes \in Nat /\ Cardinality(Orphans) <= crashes /\ crashes' = crashes
    BY <1>1, WebsiteAssumption DEF WebsiteAssumption, WebInv, WebTypes
  <2> QED BY <2>4, <2>5, <2>6
<1>6. OneFirstContact' /\ \A i \in DOMAIN run' : Closes(run'[i])
  BY <1>1 DEF WebInv, OneFirstContact
<1> QED BY <1>2, <1>3, <1>4, <1>5, <1>6 DEF WebInv

(* Whoever passed the gate counts against the quota until it opens a run. *)
LEMMA GateInv ==
  ASSUME WebInv, NEW e \in Enrichers, NEW site \in Sites, Gate(e, site)
  PROVE  WebInv'
<1> DEFINE j == [NoJob EXCEPT !.site = site]
<1>1. job[e] = NoJob
  BY DEF WebInv, Owns, Gate
<1>2. /\ j \in Crawls /\ j.run = 0 /\ j.site \in Sites /\ j.pages = << >> /\ j.file = << >>
      /\ j.seen = {}
  BY NoJobIs DEF Crawls
<1>3. Move(e, "open", j) /\ UNCHANGED run /\ Len(run) < Quota
  BY DEF Gate, QuotaLeft
<1> HIDE DEF j
<1>4. Owns("open", j) /\ Sound("open", j)
  BY <1>2, NoPages DEF Owns, Sound, Inside
<1>5. j.run = job[e].run
  BY <1>1, <1>2, NoJobIs
<1> QED BY <1>2, <1>3, <1>4, <1>5, MoveInv DEF Wheres

(* An unsafe start page ends the crawl before it began.                    *)
LEMMA UnsafeInv ==
  ASSUME WebInv, NEW e \in Enrichers, Unsafe(e)
  PROVE  WebInv'
<1> DEFINE row == [url |-> Home, status |-> "UNSAFE_DESTINATION"]
           pages == <<row>>
           j == [job[e] EXCEPT !.state = "BLOCKED", !.pages = pages]
<1>1. job[e] \in Crawls /\ Owns("robots", job[e]) /\ where[e] = "robots"
  BY DEF WebInv, WebTypes, Unsafe
<1>2. row \in PageRows /\ row.status # "FETCHED"
  BY WebsiteAssumption DEF WebsiteAssumption, PageRows, Statuses
<1>3. Move(e, "keep", j) /\ UNCHANGED run
  BY DEF Unsafe
<1> HIDE DEF row
<1>4. pages \in Seq(PageRows) /\ ~UrlTwice(pages) /\ Fetched(pages) = {}
  BY <1>2, FirstPage
<1> HIDE DEF pages
<1>5. /\ j \in Crawls /\ j.run = job[e].run /\ j.pages = pages /\ j.state = "BLOCKED"
      /\ j.site = job[e].site /\ j.file = << >>
  BY <1>1, <1>4 DEF Crawls, RunStates, Owns
<1> HIDE DEF j
<1>6. Owns("keep", j) /\ Sound("keep", j)
  BY <1>1, <1>4, <1>5 DEF Owns, Sound, Inside, RunStates, Ended, Cleared
<1> QED BY <1>3, <1>5, <1>6, MoveInv DEF Wheres

(* robots.txt lets the crawl in or ends it.                                *)
LEMMA AskRobotsInv ==
  ASSUME WebInv, NEW e \in Enrichers, NEW a \in Answers, NEW file \in RobotsFiles,
         AskRobots(e, a, file)
  PROVE  WebInv'
<1> DEFINE status  == PageStatus(a, TRUE)
           verdict == RobotsVerdict(status, a.code, file)
           page    == [url |-> Robots,
                       status |-> IF verdict = "ROBOTS_DENIED" THEN verdict ELSE status]
           read    == status = "ROBOTS_FETCHED" /\ a.code = 200
           pages   == <<page>>
           kept    == IF read THEN file ELSE job[e].file
           j       == [job[e] EXCEPT !.pages = pages, !.file = kept]
           home    == <<Home>>
<1>1. job[e] \in Crawls /\ Owns("robots", job[e]) /\ where[e] = "robots"
  BY DEF WebInv, WebTypes, AskRobots
<1>2. /\ UNCHANGED run
      /\ IF status = "RAISED" THEN Raise(e)
         ELSE IF verdict = "go" THEN Move(e, "crawl", [j EXCEPT !.queue = home])
         ELSE Move(e, "keep", [j EXCEPT !.state = verdict])
  BY DEF AskRobots
<1> SUFFICES ASSUME status # "RAISED" PROVE WebInv'
  BY <1>1, <1>2, RaiseInv DEF Inside
<1>3. /\ verdict \in {"go", "BLOCKED", "ROBOTS_DENIED"} /\ status \in Statuses \ {"FETCHED"}
      /\ verdict = "go" /\ read => RobotsAllows(file)
  BY PageStatusIs DEF RobotsVerdict
<1> HIDE DEF status, verdict
<1>4. page \in PageRows /\ page.status # "FETCHED" /\ page.url = Robots
  BY <1>3, WebsiteAssumption DEF WebsiteAssumption, PageRows, Statuses
<1> HIDE DEF page
<1>5. /\ pages \in Seq(PageRows) /\ DOMAIN pages = {1} /\ pages[1].url = Robots
      /\ pages # << >> /\ ~UrlTwice(pages) /\ Fetched(pages) = {}
  BY <1>4, FirstPage
<1>6. kept \in Seq(Lines) /\ (verdict = "go" => Cleared(kept))
  <2>1. file \in Seq(Lines) /\ job[e].file = << >> /\ << >> \in Seq(Lines)
    BY <1>1, WebsiteAssumption, EmptySeq DEF WebsiteAssumption, Owns
  <2> QED BY <1>3, <2>1 DEF Cleared
<1> HIDE DEF pages, kept, read
<1>7. /\ j \in Crawls /\ j.run = job[e].run /\ j.site = job[e].site /\ j.pages = pages
      /\ j.file = kept /\ j.seen = {}
  BY <1>1, <1>5, <1>6 DEF Crawls, Owns
<1> HIDE DEF j
<1>8. CASE verdict = "go"
  <2> DEFINE k == [j EXCEPT !.queue = home]
  <2>1. home \in Seq(Urls) /\ ToSet(home) = {Home} /\ home # << >>
    BY WebsiteAssumption DEF WebsiteAssumption, ToSet
  <2> HIDE DEF home
  <2>2. /\ k \in Crawls /\ k.run = job[e].run /\ k.site = job[e].site /\ k.pages = pages
        /\ k.file = kept /\ k.seen = {} /\ k.queue = home
    BY <1>7, <2>1 DEF Crawls
  <2>3. Move(e, "crawl", k)
    BY <1>2, <1>8
  <2> HIDE DEF k
  <2>4. AsksOnce(k)
    BY <1>5, <2>1, <2>2, WebsiteAssumption DEF WebsiteAssumption, AsksOnce
  <2>5. Owns("crawl", k) /\ Sound("crawl", k)
    BY <1>1, <1>5, <1>6, <1>8, <2>1, <2>2, <2>4 DEF Owns, Inside, Sound, SoFar
  <2> QED BY <1>2, <2>2, <2>3, <2>5, MoveInv DEF Wheres
<1>9. CASE verdict # "go"
  <2> DEFINE k == [j EXCEPT !.state = verdict]
  <2>1. /\ k \in Crawls /\ k.run = job[e].run /\ k.site = job[e].site /\ k.pages = pages
        /\ k.file = kept /\ k.state = verdict
    BY <1>3, <1>7, <1>9 DEF Crawls, RunStates
  <2>2. Move(e, "keep", k)
    BY <1>2, <1>9
  <2> HIDE DEF k
  <2>3. Owns("keep", k) /\ Sound("keep", k)
    BY <1>1, <1>3, <1>5, <1>9, <2>1 DEF Owns, Inside, Sound, RunStates, Ended
  <2> QED BY <1>2, <2>1, <2>2, <2>3, MoveInv DEF Wheres
<1> QED BY <1>8, <1>9

(* Taking the next link: it is passed over when it was taken before, and   *)
(* otherwise asked for once.                                               *)
LEMMA VisitInv ==
  ASSUME WebInv, NEW e \in Enrichers, NEW a \in Answers, Visit(e, a)
  PROVE  WebInv'
<1> DEFINE j      == job[e]
           url    == Head(j.queue)
           status == PageStatus(a, FALSE)
           rest   == Tail(j.queue)
           row    == [url |-> url, status |-> status]
           pages  == Append(j.pages, row)
           seen   == j.seen \union {url}
           next   == [j EXCEPT !.queue = rest, !.seen = seen, !.pages = pages]
           links  == NewLinks(next, url)
           queue  == rest \o links
<1>1. /\ j \in Crawls /\ where[e] = "crawl" /\ Owns("crawl", j) /\ Sound("crawl", j)
      /\ UNCHANGED run /\ j.queue # << >>
  BY DEF WebInv, WebTypes, Visit, MayFetch
<1>2. \/ url \in j.seen /\ Move(e, "crawl", [j EXCEPT !.queue = rest])
      \/ /\ url \notin j.seen /\ status = "FETCHED"
         /\ Move(e, "crawl", [next EXCEPT !.queue = queue])
      \/ /\ url \notin j.seen /\ status = "RENDER_REQUIRED"
         /\ Move(e, "keep", [next EXCEPT !.state = status])
      \/ /\ url \notin j.seen /\ status \in {"UNSAFE_REDIRECT", "UNSAFE_DESTINATION"}
         /\ Move(e, "keep", [next EXCEPT !.state = "BLOCKED"])
      \/ url \notin j.seen /\ status \in Errors /\ Move(e, "crawl", next)
      \/ status = "RAISED" /\ Raise(e)
  BY DEF Visit, Visited
<1>3. status \in Statuses
      /\ status \in {"FETCHED", "RENDER_REQUIRED", "UNSAFE_REDIRECT", "UNSAFE_DESTINATION",
                     "RAISED"} \union Errors
  BY PageStatusIs
<1>4. /\ j.queue \in Seq(Urls) /\ j.pages \in Seq(PageRows) /\ j.site \in Sites
      /\ j.seen \subseteq Urls /\ j.file \in Seq(Lines) /\ j.run \in DOMAIN run
      /\ run[j.run].site = j.site
  BY <1>1 DEF Crawls, Owns, Inside
<1>5. /\ url \in Urls /\ rest \in Seq(Urls) /\ url \in ToSet(j.queue)
      /\ ToSet(rest) \subseteq ToSet(j.queue)
  <2>1. /\ url \in Urls /\ rest \in Seq(Urls) /\ Len(j.queue) \in Nat /\ Len(j.queue) # 0
        /\ DOMAIN j.queue = 1..Len(j.queue) /\ DOMAIN rest = 1..Len(rest)
        /\ Len(rest) = Len(j.queue) - 1 /\ url = j.queue[1]
        /\ \A i \in 1..Len(rest) : rest[i] = j.queue[i + 1]
    BY <1>1, <1>4, HeadTailProperties, LenProperties, EmptySeq
  <2> HIDE DEF url, rest
  <2>2. 1 \in DOMAIN j.queue /\ \A i \in DOMAIN rest : i + 1 \in DOMAIN j.queue
    BY <2>1
  <2> QED BY <2>1, <2>2 DEF ToSet
<1> SUFFICES ASSUME ~Raise(e) PROVE WebInv'
  BY <1>1, RaiseInv DEF Inside
<1> HIDE DEF url, rest, status
<1>6. row \in PageRows /\ row.url = url /\ row.status = status
  BY <1>3, <1>5 DEF PageRows
<1> HIDE DEF row
<1>7. /\ pages \in Seq(PageRows)
      /\ DOMAIN pages = DOMAIN j.pages \union {Len(j.pages) + 1}
      /\ DOMAIN j.pages = 1..Len(j.pages) /\ Len(j.pages) \in Nat
      /\ \A i \in DOMAIN j.pages : pages[i] = j.pages[i]
      /\ pages[Len(j.pages) + 1] = row
      /\ Fetched(pages) = Fetched(j.pages) \union (IF status = "FETCHED" THEN {url} ELSE {})
      /\ Failed(pages) <=> Failed(j.pages) \/ status \in Errors
  BY <1>4, <1>6, PagesThen
<1> HIDE DEF pages
<1>8. seen \subseteq Urls
  BY <1>4, <1>5
<1>9. /\ AsksOnce(j) /\ SoFar(j) /\ Cleared(j.file)
      /\ UrlTwice(j.pages) => LinksRobots(j.site)
  BY <1>1 DEF Sound
<1>10. ASSUME NEW k, k \in Crawls, k.queue = rest, k.seen = j.seen, k.pages = j.pages,
              k.file = j.file, k.site = j.site, k.run = j.run, url \in j.seen
       PROVE  Owns("crawl", k) /\ Sound("crawl", k)
  <2>1. AsksOnce(k)
    BY <1>5, <1>9, <1>10 DEF AsksOnce
  <2>2. SoFar(k)
    BY <1>9, <1>10 DEF SoFar
  <2> QED BY <1>4, <1>9, <1>10, <2>1, <2>2 DEF Owns, Inside, Sound
<1>11. CASE url \in j.seen
  <2> DEFINE k == [j EXCEPT !.queue = rest]
  <2>1. /\ k \in Crawls /\ k.queue = rest /\ k.seen = j.seen /\ k.pages = j.pages
        /\ k.file = j.file /\ k.site = j.site /\ k.run = j.run
    BY <1>1, <1>5 DEF Crawls
  <2>2. Move(e, "crawl", k)
    BY <1>2, <1>11
  <2> HIDE DEF k
  <2>3. Owns("crawl", k) /\ Sound("crawl", k)
    BY <1>10, <1>11, <2>1
  <2> QED BY <1>1, <2>1, <2>2, <2>3, MoveInv DEF Wheres
<1>12. CASE url \notin j.seen
  <2> HIDE DEF seen
  <2>1. /\ next \in Crawls /\ next.queue = rest /\ next.seen = seen /\ next.pages = pages
        /\ next.file = j.file /\ next.site = j.site /\ next.run = j.run
    BY <1>1, <1>5, <1>7, <1>8 DEF Crawls
  <2> HIDE DEF next
  <2>2. /\ pages # << >> /\ pages[1].url = Robots
        /\ \A i \in DOMAIN pages : i # 1 => pages[i].url \in seen
    <3>1. /\ j.pages # << >> /\ j.pages[1].url = Robots
          /\ \A i \in DOMAIN j.pages : i # 1 => j.pages[i].url \in j.seen
      BY <1>9 DEF AsksOnce
    <3>2. 1 \in DOMAIN j.pages /\ DOMAIN pages # {}
      BY <1>4, <1>7, <3>1, EmptySeq
    <3>3. pages[1].url = Robots /\ pages # << >>
      BY <1>7, <3>1, <3>2, NoPages
    <3>4. ASSUME NEW i \in DOMAIN pages, i # 1
          PROVE  pages[i].url \in seen
      <4>1. CASE i \in DOMAIN j.pages
        BY <1>7, <3>1, <3>4, <4>1 DEF seen
      <4>2. CASE i = Len(j.pages) + 1
        BY <1>6, <1>7, <4>2 DEF seen
      <4> QED BY <1>7, <4>1, <4>2
    <3> QED BY <3>3, <3>4
  <2>3. Robots \in seen \union ToSet(rest) => LinksRobots(j.site)
    BY <1>5, <1>9 DEF AsksOnce, seen
  <2>4. UrlTwice(pages) => LinksRobots(j.site)
    <3>1. SUFFICES ASSUME NEW i \in DOMAIN pages, NEW k \in DOMAIN pages, i # k,
                          pages[i].url = pages[k].url
                   PROVE  LinksRobots(j.site)
      BY DEF UrlTwice
    <3>2. CASE i \in DOMAIN j.pages /\ k \in DOMAIN j.pages
      BY <1>7, <1>9, <3>1, <3>2 DEF UrlTwice
    <3>3. ASSUME NEW l \in DOMAIN j.pages, pages[l].url = url
          PROVE  LinksRobots(j.site)
      <4>1. j.pages[l].url = url
        BY <1>7, <3>3
      <4>2. l = 1
        BY <1>9, <1>12, <4>1 DEF AsksOnce
      <4>3. url = Robots
        BY <1>9, <4>1, <4>2 DEF AsksOnce
      <4> QED BY <1>5, <1>9, <4>3 DEF AsksOnce
    <3> QED BY <1>6, <1>7, <3>1, <3>2, <3>3
  <2>5. Cleared(j.file)
    BY <1>9
  <2>6. ASSUME NEW k, k \in Crawls, k.seen = seen, k.pages = pages, k.file = j.file,
               k.site = j.site, k.run = j.run,
               ToSet(k.queue) \subseteq ToSet(rest) \union ToSet(Links[j.site][url]),
               status \in {"FETCHED"} \union Errors
        PROVE  Owns("crawl", k) /\ Sound("crawl", k)
    <3>1. Robots \in ToSet(Links[j.site][url]) => LinksRobots(j.site)
      BY <1>5 DEF LinksRobots
    <3>2. AsksOnce(k)
      BY <2>2, <2>3, <2>6, <3>1 DEF AsksOnce
    <3>3. SoFar(k)
      BY <1>7, <2>6 DEF SoFar
    <3> QED BY <1>4, <2>4, <2>5, <2>6, <3>2, <3>3 DEF Owns, Inside, Sound
  <2>7. ASSUME NEW k, k \in Crawls, k.pages = pages, k.file = j.file, k.site = j.site,
               k.run = j.run, k.state \in {"RENDER_REQUIRED", "BLOCKED"}
        PROVE  Owns("keep", k) /\ Sound("keep", k)
    <3>1. k.state \in RunStates \ {"RUNNING"} /\ Ended(k.state, pages)
      BY <2>7 DEF RunStates, Ended
    <3> QED BY <1>4, <2>4, <2>5, <2>7, <3>1 DEF Owns, Inside, Sound
  <2>8. CASE status = "FETCHED"
    <3>1. links \in Seq(Urls) /\ ToSet(links) \subseteq ToSet(Links[j.site][url])
      BY <1>4, <1>5, <2>1, NewLinksAre
    <3> HIDE DEF links
    <3>2. queue \in Seq(Urls) /\ ToSet(queue) \subseteq ToSet(rest) \union ToSet(links)
      <4>1. /\ queue \in Seq(Urls) /\ Len(queue) = Len(rest) + Len(links)
            /\ DOMAIN queue = 1..Len(queue) /\ Len(rest) \in Nat /\ Len(links) \in Nat
            /\ DOMAIN rest = 1..Len(rest) /\ DOMAIN links = 1..Len(links)
            /\ \A i \in 1..(Len(rest) + Len(links)) :
                 queue[i] = IF i <= Len(rest) THEN rest[i] ELSE links[i - Len(rest)]
        BY <1>5, <3>1, ConcatProperties, LenProperties
      <4> HIDE DEF queue
      <4>2. \A i \in DOMAIN queue : \/ i \in DOMAIN rest /\ queue[i] = rest[i]
                                    \/ \E n \in DOMAIN links : queue[i] = links[n]
        <5>1. ASSUME NEW i \in DOMAIN queue, ~(i <= Len(rest))
              PROVE  i - Len(rest) \in DOMAIN links /\ queue[i] = links[i - Len(rest)]
          BY <4>1, <5>1
        <5>2. ASSUME NEW i \in DOMAIN queue, i <= Len(rest)
              PROVE  i \in DOMAIN rest /\ queue[i] = rest[i]
          BY <4>1, <5>2
        <5> QED BY <5>1, <5>2
      <4> QED BY <4>1, <4>2 DEF ToSet
    <3> HIDE DEF queue
    <3> DEFINE k == [next EXCEPT !.queue = queue]
    <3>3. /\ k \in Crawls /\ k.queue = queue /\ k.seen = seen /\ k.pages = pages
          /\ k.file = j.file /\ k.site = j.site /\ k.run = j.run
      BY <2>1, <3>2 DEF Crawls
    <3>4. Move(e, "crawl", k)
      BY <1>2, <1>12, <2>8 DEF Errors
    <3> HIDE DEF k
    <3>5. ToSet(k.queue) \subseteq ToSet(rest) \union ToSet(Links[j.site][url])
      BY <3>1, <3>2, <3>3
    <3>6. Owns("crawl", k) /\ Sound("crawl", k)
      BY <2>6, <2>8, <3>3, <3>5
    <3> QED BY <1>1, <3>3, <3>4, <3>6, MoveInv DEF Wheres
  <2>9. CASE status \in {"RENDER_REQUIRED", "UNSAFE_REDIRECT", "UNSAFE_DESTINATION"}
    <3> DEFINE end == IF status = "RENDER_REQUIRED" THEN status ELSE "BLOCKED"
               k == [next EXCEPT !.state = end]
    <3>1. end \in {"RENDER_REQUIRED", "BLOCKED"}
      BY <2>9
    <3>2. Move(e, "keep", k)
      BY <1>2, <1>12, <2>9 DEF Errors
    <3> HIDE DEF end
    <3>3. /\ k \in Crawls /\ k.state = end /\ k.pages = pages
          /\ k.file = j.file /\ k.site = j.site /\ k.run = j.run
      BY <2>1, <3>1 DEF Crawls, RunStates
    <3> HIDE DEF k
    <3>4. Owns("keep", k) /\ Sound("keep", k)
      BY <2>7, <3>1, <3>3
    <3> QED BY <1>1, <3>2, <3>3, <3>4, MoveInv DEF Wheres
  <2>10. CASE status \notin {"FETCHED", "RENDER_REQUIRED", "UNSAFE_REDIRECT",
                             "UNSAFE_DESTINATION", "RAISED"}
    <3>1. Move(e, "crawl", next)
      BY <1>2, <1>12, <2>10
    <3>2. status \in Errors
      BY <1>3, <2>10
    <3>3. Owns("crawl", next) /\ Sound("crawl", next)
      BY <2>1, <2>6, <3>2
    <3> QED BY <1>1, <2>1, <3>1, <3>3, MoveInv DEF Wheres
  <2>11. CASE status = "RAISED"
    BY <1>2, <1>12, <2>11 DEF Errors
  <2> QED BY <2>8, <2>9, <2>10, <2>11
<1> QED BY <1>11, <1>12

(* A crawl that ends without a page has an error to show for it.           *)
LEMMA CrawledInv ==
  ASSUME WebInv, NEW e \in Enrichers, Crawled(e)
  PROVE  WebInv'
<1> DEFINE j == job[e]
           end == CrawlState(j.pages)
           k == [j EXCEPT !.state = end]
<1>1. /\ j \in Crawls /\ where[e] = "crawl" /\ Owns("crawl", j) /\ Sound("crawl", j)
      /\ UNCHANGED run /\ ~MayFetch(j) /\ Move(e, "keep", k)
  BY DEF WebInv, WebTypes, Crawled
<1>2. /\ end = IF Fetched(j.pages) = {} /\ Failed(j.pages) THEN "SOURCE_ERROR" ELSE "COMPLETED"
  BY DEF CrawlState, Failed
<1>3. j.queue = << >> \/ Fetched(j.pages) # {}
  <2>1. SUFFICES ASSUME ~(FetchCount(j.pages) < MaxPages)
                 PROVE  Fetched(j.pages) # {}
    BY <1>1 DEF MayFetch
  <2>2. MaxPages \in Nat /\ MaxPages > 0
    BY WebsiteAssumption DEF WebsiteAssumption
  <2> DEFINE S == {i \in DOMAIN j.pages : j.pages[i].status = "FETCHED"}
  <2>3. Cardinality(S) # 0
    BY <2>1, <2>2 DEF FetchCount
  <2>4. S # {}
    BY <2>3, FS_EmptySet
  <2> QED BY <2>4 DEF Fetched
<1>4. Ended(end, j.pages)
  BY <1>1, <1>2, <1>3 DEF Sound, SoFar, Ended
<1>5. end \in RunStates \ {"RUNNING"}
  BY <1>2 DEF RunStates
<1> HIDE DEF end
<1>6. /\ k \in Crawls /\ k.state = end /\ k.pages = j.pages /\ k.file = j.file
      /\ k.site = j.site /\ k.run = j.run
  BY <1>1, <1>5 DEF Crawls
<1> HIDE DEF k
<1>7. Owns("keep", k) /\ Sound("keep", k)
  BY <1>1, <1>4, <1>5, <1>6 DEF Owns, Inside, Sound
<1> QED BY <1>1, <1>6, <1>7, MoveInv DEF Wheres

(* The run is opened for the enricher, which is then one fewer that may    *)
(* still open one.                                                         *)
LEMMA OpenRunInv ==
  ASSUME WebInv, NEW e \in Enrichers, OpenRun(e)
  PROVE  WebInv'
<1> DEFINE row == [site |-> job[e].site, state |-> "RUNNING", pages |-> << >>,
                   contacts |-> {}, evidence |-> None]
           n == Len(run)
           at == n + 1
           j == [job[e] EXCEPT !.run = at]
<1>1. /\ job[e] \in Crawls /\ where[e] = "open" /\ Owns("open", job[e])
      /\ UrlTwice(job[e].pages) => LinksRobots(job[e].site)
      /\ run' = Append(run, row) /\ Move(e, "robots", j) /\ run \in Seq(RunRows)
  BY DEF WebInv, WebTypes, OpenRun, Sound
<1>2. row \in RunRows /\ row.state = "RUNNING" /\ row.contacts = {} /\ row.site = job[e].site
  BY <1>1, EmptySeq DEF RunRows, RunStates, Owns
<1> HIDE DEF row
<1>3. /\ run' \in Seq(RunRows) /\ DOMAIN run' = 1..(n + 1) /\ DOMAIN run = 1..n /\ n \in Nat
      /\ Len(run') = n + 1 /\ \A i \in DOMAIN run : run'[i] = run[i]
      /\ run'[n + 1] = row
  BY <1>1, <1>2, InAppended, AppendProperties
<1>4. /\ at \in Nat /\ at \notin DOMAIN run /\ DOMAIN run' = DOMAIN run \union {at}
      /\ run'[at] = row /\ at # 0 /\ 0 \notin DOMAIN run
  BY <1>3
<1>5. /\ j \in Crawls /\ j.run = at /\ j.site = job[e].site /\ j.pages = << >>
      /\ j.file = << >> /\ j.seen = {}
  BY <1>1, <1>4 DEF Crawls, Owns
<1> HIDE DEF j, n, at
<1>6. /\ where' = [where EXCEPT ![e] = "robots"] /\ job' = [job EXCEPT ![e] = j]
      /\ where \in [Enrichers -> Wheres] /\ job \in [Enrichers -> Crawls]
      /\ UNCHANGED <<leads, blocked, paused, raised, crashes>> /\ raised \subseteq DOMAIN run
  BY <1>1 DEF WebInv, WebTypes, Move
<1>7. WebTypes'
  <2>1. where' \in [Enrichers -> Wheres] /\ job' \in [Enrichers -> Crawls]
    BY <1>5, <1>6 DEF Wheres
  <2>2. raised' \subseteq DOMAIN run'
    BY <1>4, <1>6
  <2> QED BY <1>3, <1>6, <2>1, <2>2 DEF WebInv, WebTypes
<1>8. ASSUME NEW f \in Enrichers
      PROVE  Owns(where[f], job[f])' /\ Sound(where[f], job[f])'
  <2>1. CASE f = e
    <3>1. where'[f] = "robots" /\ job'[f] = j
      BY <1>6, <2>1
    <3>2. job[e].site \in Sites
      BY <1>1 DEF Owns
    <3> QED BY <1>2, <1>4, <1>5, <3>1, <3>2, NoPages DEF Owns, Sound, Inside
  <2>2. CASE f # e
    <3>1. where'[f] = where[f] /\ job'[f] = job[f]
      BY <1>6, <2>2
    <3>2. Owns(where[f], job[f]) /\ Sound(where[f], job[f])
      BY DEF WebInv
    <3> QED BY <1>3, <1>4, <3>1, <3>2 DEF Owns, Sound
  <2> QED BY <2>1, <2>2
<1>9. QuotaInv'
  <2>1. IsFiniteSet(Enrichers) /\ Cardinality(Enrichers) \in Nat /\ Quota \in Nat
    BY WebsiteAssumption, FS_CardinalityType DEF WebsiteAssumption
  <2>2. Opening \subseteq Enrichers /\ Opening' = Opening \ {e} /\ e \in Opening
    BY <1>1, <1>6 DEF Opening
  <2>3. IsFiniteSet(Opening) /\ Cardinality(Opening) \in Nat
    BY <2>1, <2>2, FS_Subset, FS_CardinalityType
  <2>4. Cardinality(Opening') = Cardinality(Opening) - 1
    BY <2>2, <2>3, FS_RemoveElement
  <2>5. Len(run) + Cardinality(Opening) < Quota + Cardinality(Enrichers)
    BY DEF WebInv, QuotaInv
  <2>6. Len(run') + Cardinality(Opening') < Quota + Cardinality(Enrichers)
    BY <1>3, <2>1, <2>3, <2>4, <2>5 DEF n
  <2> QED BY <2>6 DEF QuotaInv
<1>10. Orphans' = Orphans
  <2>1. job'[e].run = at /\ job[e].run = 0
    BY <1>1, <1>5, <1>6 DEF Owns
  <2>2. \A f \in Enrichers : f # e => job'[f].run = job[f].run
    BY <1>6
  <2>3. \A i \in DOMAIN run : i # at /\ i # 0
    BY <1>4
  <2>4. \A i \in DOMAIN run :
          (\A f \in Enrichers : job'[f].run # i) <=> (\A f \in Enrichers : job[f].run # i)
    BY <2>1, <2>2, <2>3
  <2>5. ~(\A f \in Enrichers : job'[f].run # at)
    BY <2>1
  <2>6. ASSUME NEW i
        PROVE  i \in Orphans' <=> i \in Orphans
    <3>1. CASE i \in DOMAIN run
      <4>1. i \in DOMAIN run' /\ run'[i] = run[i]
        BY <1>3, <1>4, <3>1
      <4> QED BY <1>6, <2>4, <3>1, <4>1 DEF Orphans
    <3>2. CASE i = at
      <4>1. i \notin DOMAIN run
        BY <1>4, <3>2
      <4> QED BY <2>5, <3>2, <4>1 DEF Orphans
    <3>3. CASE i \notin DOMAIN run /\ i # at
      BY <1>4, <3>3 DEF Orphans
    <3> QED BY <3>1, <3>2, <3>3
  <2> QED BY <2>6
<1>11. OneFirstContact'
  <2>1. \A i \in DOMAIN run' : i \in DOMAIN run \/ run'[i].contacts = {}
    BY <1>2, <1>4
  <2>2. OneFirstContact
    BY DEF WebInv
  <2>3. \A i \in DOMAIN run' : run'[i].contacts # {} => i \in DOMAIN run /\ run'[i] = run[i]
    BY <1>3, <2>1
  <2> QED BY <2>2, <2>3 DEF OneFirstContact
<1>12. ASSUME NEW i \in DOMAIN run'
       PROVE  Closes(run'[i])
  <2>1. \A k \in DOMAIN run : Closes(run[k])
    BY DEF WebInv
  <2> QED BY <1>2, <1>3, <1>4, <2>1 DEF Closes
<1>13. Cardinality(Orphans') <= crashes'
  BY <1>6, <1>10 DEF WebInv
<1> QED BY <1>7, <1>8, <1>9, <1>11, <1>12, <1>13 DEF WebInv

(* A death leaves one run more without anybody who would close it.         *)
LEMMA DieInv ==
  ASSUME WebInv, NEW e \in Enrichers, Die(e)
  PROVE  WebInv'
<1>1. /\ where' = [where EXCEPT ![e] = "idle"] /\ job' = [job EXCEPT ![e] = NoJob]
      /\ where \in [Enrichers -> Wheres] /\ job \in [Enrichers -> Crawls]
      /\ UNCHANGED <<run, leads, blocked, paused, raised>> /\ crashes' = crashes + 1
      /\ crashes \in 0..MaxCrashes /\ crashes < MaxCrashes /\ MaxCrashes \in Nat
  BY WebsiteAssumption DEF WebsiteAssumption, WebInv, WebTypes, Die
<1>2. WebTypes'
  <2>1. where' \in [Enrichers -> Wheres] /\ job' \in [Enrichers -> Crawls]
    BY <1>1, NoJobIs DEF Wheres
  <2>2. crashes' \in 0..MaxCrashes
    BY <1>1
  <2> QED BY <1>1, <2>1, <2>2 DEF WebInv, WebTypes
<1>3. ASSUME NEW f \in Enrichers
      PROVE  Owns(where[f], job[f])' /\ Sound(where[f], job[f])'
  <2>1. CASE f = e
    <3>1. where'[f] = "idle" /\ job'[f] = NoJob
      BY <1>1, <2>1
    <3> QED BY <3>1, NoJobIs, NoPages DEF Owns, Sound, Inside
  <2>2. CASE f # e
    <3>1. where'[f] = where[f] /\ job'[f] = job[f]
      BY <1>1, <2>2
    <3>2. Owns(where[f], job[f]) /\ Sound(where[f], job[f])
      BY DEF WebInv
    <3> QED BY <1>1, <3>1, <3>2 DEF Owns, Sound
  <2> QED BY <2>1, <2>2
<1>4. QuotaInv'
  <2>1. IsFiniteSet(Enrichers) /\ Cardinality(Enrichers) \in Nat /\ Quota \in Nat
    BY WebsiteAssumption, FS_CardinalityType DEF WebsiteAssumption
  <2>2. Opening \subseteq Enrichers /\ Opening' \subseteq Opening
    BY <1>1 DEF Opening
  <2>3. /\ Cardinality(Opening) \in Nat /\ Cardinality(Opening') \in Nat
        /\ Cardinality(Opening') <= Cardinality(Opening)
    BY <2>1, <2>2, FS_Subset, FS_CardinalityType
  <2>4. Len(run) \in Nat /\ Len(run) + Cardinality(Opening) < Quota + Cardinality(Enrichers)
    BY LenProperties DEF WebInv, WebTypes, QuotaInv
  <2>5. Len(run) + Cardinality(Opening') < Quota + Cardinality(Enrichers)
    BY <2>1, <2>3, <2>4
  <2> QED BY <1>1, <2>5 DEF QuotaInv
<1>5. Cardinality(Orphans') <= crashes'
  <2>1. Orphans' \subseteq Orphans \union {job[e].run}
    <3>1. \A f \in Enrichers : f # e => job'[f].run = job[f].run
      BY <1>1
    <3> QED BY <1>1, <3>1 DEF Orphans
  <2>2. IsFiniteSet(Orphans) /\ Cardinality(Orphans) <= crashes
    <3>1. DOMAIN run = 1..Len(run) /\ Len(run) \in Nat
      BY LenProperties DEF WebInv, WebTypes
    <3>2. IsFiniteSet(1..Len(run))
      BY <3>1, FS_Interval
    <3>3. Orphans \subseteq 1..Len(run)
      BY <3>1 DEF Orphans
    <3> QED BY <3>2, <3>3, FS_Subset DEF WebInv
  <2>3. /\ IsFiniteSet(Orphans \union {job[e].run})
        /\ Cardinality(Orphans \union {job[e].run}) <= Cardinality(Orphans) + 1
        /\ Cardinality(Orphans) \in Nat /\ Cardinality(Orphans \union {job[e].run}) \in Nat
    <3>1. IsFiniteSet(Orphans \union {job[e].run}) /\ Cardinality(Orphans) \in Nat
      BY <2>2, FS_AddElement, FS_CardinalityType
    <3>2. Cardinality(Orphans \union {job[e].run}) =
            IF job[e].run \in Orphans THEN Cardinality(Orphans) ELSE Cardinality(Orphans) + 1
      BY <2>2, FS_AddElement
    <3> QED BY <3>1, <3>2
  <2>4. Cardinality(Orphans') \in Nat
        /\ Cardinality(Orphans') <= Cardinality(Orphans \union {job[e].run})
    BY <2>1, <2>3, FS_Subset, FS_CardinalityType
  <2>5. crashes \in Nat
    BY <1>1
  <2> QED BY <1>1, <2>2, <2>3, <2>4, <2>5
<1>6. OneFirstContact' /\ \A i \in DOMAIN run' : Closes(run'[i])
  BY <1>1 DEF WebInv, OneFirstContact
<1> QED BY <1>2, <1>3, <1>4, <1>5, <1>6 DEF WebInv

(* Leads, suppressions and switches change nothing of what runs hold.      *)
LEMMA ElsewhereInv ==
  ASSUME WebInv, Elsewhere
  PROVE  WebInv'
<1>1. UNCHANGED <<run, where, job, raised, crashes>>
  BY DEF Elsewhere
<1>2. WebTypes'
  BY <1>1 DEF WebInv, WebTypes, Elsewhere
<1>3. /\ \A e \in Enrichers : Owns(where[e], job[e])' /\ Sound(where[e], job[e])'
      /\ QuotaInv' /\ Cardinality(Orphans') <= crashes'
      /\ OneFirstContact' /\ \A i \in DOMAIN run' : Closes(run'[i])
  BY <1>1 DEF WebInv, Owns, Sound, QuotaInv, Opening, Orphans, OneFirstContact
<1> QED BY <1>2, <1>3 DEF WebInv

-----------------------------------------------------------------------------
(* What is kept. *)

(* What the fetched pages show, and nothing of any other page.             *)
LEMMA KeptIs ==
  ASSUME NEW pages \in Seq(PageRows), NEW mx
  PROVE  /\ {Validated(c, mx) : c \in Contacts(pages)} \subseteq ContactRows
         /\ Evidence(pages) \in [Signals \union {"appointment_channels"} -> Words]
         /\ Fetched(pages) = {} => /\ Contacts(pages) = {}
                                   /\ \A s \in Signals : Evidence(pages)[s] = "UNCLEAR"
<1>1. Fetched(pages) \subseteq Urls
  BY FetchedInUrls
<1>2. Contacts(pages) \subseteq Addresses
  BY <1>1, WebsiteAssumption DEF WebsiteAssumption, Contacts, Shown
<1>3. \A c \in Addresses : Validated(c, mx) \in ContactRows
  BY DEF Validated, ContactRows
<1>4. \A s : SignalValue(pages, s) \in Words
  BY DEF SignalValue, Words
<1>5. Evidence(pages) \in [Signals \union {"appointment_channels"} -> Words]
  BY <1>4 DEF Evidence, Words
<1>6. ASSUME Fetched(pages) = {}
      PROVE  /\ Contacts(pages) = {} /\ \A s \in Signals : Evidence(pages)[s] = "UNCLEAR"
  <2>1. Shown(pages, Published) = {} /\ Shown(pages, Facts) = {}
    BY <1>6 DEF Shown
  <2>2. Contacts(pages) = {}
    BY <2>1 DEF Contacts
  <2>3. \A s : SignalValue(pages, s) = "UNCLEAR"
    BY <2>1 DEF SignalValue
  <2>4. \A s \in Signals : Evidence(pages)[s] = "UNCLEAR"
    BY <2>3, WebsiteAssumption DEF WebsiteAssumption, Evidence
  <2> QED BY <2>2, <2>4
<1> QED BY <1>2, <1>3, <1>5, <1>6

(* An address some run has on file is a duplicate from then on, unless it  *)
(* is suppressed.                                                          *)
LEMMA LaterOnesDuplicate ==
  ASSUME NEW i \in DOMAIN run, NEW c \in run[i].contacts, NEW mx,
         Validated(c.addr, mx).state # "SUPPRESSED"
  PROVE  Validated(c.addr, mx).duplicate
<1>1. OnFile(c.addr)
  BY DEF OnFile
<1>2. c.addr \notin blocked
  BY DEF Validated
<1> QED BY <1>1, <1>2 DEF Validated

(* The transaction that closes the run, or fails for a URL kept twice.     *)
LEMMA KeepInv ==
  ASSUME WebInv, NEW e \in Enrichers, NEW mx, Keep(e, mx)
  PROVE  WebInv'
<1> DEFINE j == job[e]
           contacts == {Validated(c, mx) : c \in Contacts(j.pages)}
           evidence == Evidence(j.pages)
           row == [site |-> j.site, state |-> j.state, pages |-> j.pages,
                   contacts |-> contacts, evidence |-> evidence]
<1>1. /\ j \in Crawls /\ where[e] = "keep" /\ Owns("keep", j) /\ Sound("keep", j)
      /\ IF UrlTwice(j.pages) THEN UNCHANGED run ELSE run' = [run EXCEPT ![j.run] = row]
      /\ Move(e, "idle", NoJob) /\ run \in Seq(RunRows)
  BY DEF WebInv, WebTypes, Keep
<1>2. /\ j.run \in DOMAIN run /\ j.site \in Sites /\ run[j.run].site = j.site
      /\ j.state \in RunStates \ {"RUNNING"} /\ Ended(j.state, j.pages)
      /\ UrlTwice(j.pages) => LinksRobots(j.site)
      /\ j.pages \in Seq(PageRows)
  BY <1>1 DEF Owns, Inside, Sound, Crawls
<1>3. /\ contacts \subseteq ContactRows
      /\ evidence \in [Signals \union {"appointment_channels"} -> Words]
      /\ Fetched(j.pages) = {} => contacts = {} /\ \A s \in Signals : evidence[s] = "UNCLEAR"
  <2>1. j.pages \in Seq(PageRows)
    BY <1>2
  <2> HIDE DEF j
  <2>2. contacts \subseteq ContactRows
    BY <2>1, KeptIs
  <2>3. evidence \in [Signals \union {"appointment_channels"} -> Words]
    BY <2>1, KeptIs
  <2>4. ASSUME Fetched(j.pages) = {}
        PROVE  contacts = {} /\ \A s \in Signals : evidence[s] = "UNCLEAR"
    <3>1. Contacts(j.pages) = {} /\ \A s \in Signals : Evidence(j.pages)[s] = "UNCLEAR"
      BY <2>1, <2>4, KeptIs
    <3> QED BY <3>1
  <2> QED BY <2>2, <2>3, <2>4
<1>4. \A c \in contacts : \E a \in Contacts(j.pages) : c = Validated(a, mx) /\ c.addr = a
  BY DEF Validated
<1>5. \A i \in DOMAIN run : \A c \in run[i].contacts, d \in contacts :
        c.addr = d.addr /\ d.state # "SUPPRESSED" => d.duplicate
  <2>1. SUFFICES ASSUME NEW i \in DOMAIN run, NEW c \in run[i].contacts, NEW d \in contacts,
                        c.addr = d.addr, d.state # "SUPPRESSED"
                 PROVE  d.duplicate
    OBVIOUS
  <2>2. d = Validated(c.addr, mx)
    BY <1>4, <2>1
  <2> QED BY <2>1, <2>2, LaterOnesDuplicate
<1> HIDE DEF contacts, evidence
<1>6. /\ row \in RunRows /\ row.state # "RUNNING" /\ row.site = j.site
      /\ row.contacts = contacts
  BY <1>1, <1>2, <1>3 DEF RunRows, Crawls
<1>7. Closes(row)
  BY <1>2, <1>3 DEF Closes
<1> HIDE DEF row
<1>8. /\ run' \in Seq(RunRows) /\ DOMAIN run' = DOMAIN run /\ Len(run') = Len(run)
      /\ \A i \in DOMAIN run : i # j.run => run'[i] = run[i]
      /\ run'[j.run] = IF UrlTwice(j.pages) THEN run[j.run] ELSE row
  <2>1. CASE UrlTwice(j.pages)
    BY <1>1, <2>1
  <2>2. CASE ~UrlTwice(j.pages)
    <3>1. DOMAIN run = 1..Len(run) /\ Len(run) \in Nat /\ run \in [1..Len(run) -> RunRows]
      BY <1>1, LenProperties
    <3>2. run' = [run EXCEPT ![j.run] = row]
      BY <1>1, <2>2
    <3>3. run' \in [1..Len(run) -> RunRows]
      BY <1>2, <1>6, <3>1, <3>2
    <3>4. run' \in Seq(RunRows) /\ Len(run') = Len(run)
      BY <3>1, <3>3, IsASeq, LenProperties
    <3> QED BY <1>2, <2>2, <3>1, <3>2, <3>3, <3>4
  <2> QED BY <2>1, <2>2
<1>9. \A i \in DOMAIN run : run'[i].site = run[i].site
  BY <1>2, <1>6, <1>8
<1>10. /\ where' = [where EXCEPT ![e] = "idle"] /\ job' = [job EXCEPT ![e] = NoJob]
       /\ where \in [Enrichers -> Wheres] /\ job \in [Enrichers -> Crawls]
       /\ UNCHANGED <<leads, blocked, paused, raised, crashes>>
  BY <1>1 DEF WebInv, WebTypes, Move
<1>11. WebTypes'
  <2>1. where' \in [Enrichers -> Wheres] /\ job' \in [Enrichers -> Crawls]
    BY <1>10, NoJobIs DEF Wheres
  <2> QED BY <1>8, <1>10, <2>1 DEF WebInv, WebTypes
<1>12. ASSUME NEW f \in Enrichers
       PROVE  Owns(where[f], job[f])' /\ Sound(where[f], job[f])'
  <2>1. CASE f = e
    <3>1. where'[f] = "idle" /\ job'[f] = NoJob
      BY <1>10, <2>1
    <3> QED BY <3>1, NoJobIs, NoPages DEF Owns, Sound, Inside
  <2>2. CASE f # e
    <3>1. where'[f] = where[f] /\ job'[f] = job[f]
      BY <1>10, <2>2
    <3>2. Owns(where[f], job[f]) /\ Sound(where[f], job[f])
      BY DEF WebInv
    <3> QED BY <1>8, <1>9, <3>1, <3>2 DEF Owns, Sound
  <2> QED BY <2>1, <2>2
<1>13. QuotaInv'
  <2>1. Opening' = Opening
    BY <1>1, <1>10 DEF Opening
  <2> QED BY <1>8, <2>1 DEF WebInv, QuotaInv
<1>14. Orphans' \subseteq Orphans
  <2>1. ASSUME NEW i \in Orphans'
        PROVE  i \in Orphans
    <3>1. /\ i \in DOMAIN run' /\ run'[i].state = "RUNNING" /\ ~LinksRobots(run'[i].site)
          /\ \A f \in Enrichers : job'[f].run # i
      BY <2>1 DEF Orphans
    <3>2. i \in DOMAIN run /\ ~LinksRobots(run[i].site)
      BY <1>8, <1>9, <3>1
    <3>3. i # j.run
      BY <1>2, <1>6, <1>8, <3>1, <3>2
    <3>4. \A f \in Enrichers : f # e => job'[f].run = job[f].run
      BY <1>10
    <3>5. \A f \in Enrichers : job[f].run # i
      BY <3>1, <3>3, <3>4
    <3>6. i \notin raised
      BY <1>10, <2>1 DEF Orphans
    <3> QED BY <1>8, <3>1, <3>2, <3>3, <3>5, <3>6 DEF Orphans
  <2> QED BY <2>1
<1>15. Cardinality(Orphans') <= crashes'
  <2>1. DOMAIN run = 1..Len(run) /\ Len(run) \in Nat
    BY <1>1, LenProperties
  <2>2. IsFiniteSet(1..Len(run)) /\ Orphans \subseteq 1..Len(run)
    BY <2>1, FS_Interval DEF Orphans
  <2>3. IsFiniteSet(Orphans) /\ Cardinality(Orphans) \in Nat
    BY <2>2, FS_Subset, FS_CardinalityType
  <2>4. Cardinality(Orphans') <= Cardinality(Orphans) /\ Cardinality(Orphans') \in Nat
    BY <1>14, <2>3, FS_Subset, FS_CardinalityType
  <2>5. crashes \in Nat /\ Cardinality(Orphans) <= crashes /\ crashes' = crashes
    BY <1>10, WebsiteAssumption DEF WebsiteAssumption, WebInv, WebTypes
  <2> QED BY <2>3, <2>4, <2>5
<1>16. OneFirstContact'
  <2>1. SUFFICES ASSUME NEW i \in DOMAIN run, NEW k \in DOMAIN run,
                        NEW c \in run'[i].contacts, NEW d \in run'[k].contacts,
                        c.addr = d.addr, i # k, c.state # "SUPPRESSED", d.state # "SUPPRESSED"
                 PROVE  c.duplicate \/ d.duplicate
    BY <1>8 DEF OneFirstContact
  <2>2. \A l \in DOMAIN run : run'[l] = run[l] \/ (l = j.run /\ run'[l].contacts = contacts)
    BY <1>6, <1>8
  <2>3. CASE run'[i] = run[i] /\ run'[k] = run[k]
    BY <2>1, <2>3 DEF WebInv, OneFirstContact
  <2>4. CASE run'[i] # run[i]
    <3>1. run'[k] = run[k] /\ run'[i].contacts = contacts
      BY <2>1, <2>2, <2>4
    <3> QED BY <1>5, <2>1, <3>1
  <2>5. CASE run'[k] # run[k]
    <3>1. run'[i] = run[i] /\ run'[k].contacts = contacts
      BY <2>1, <2>2, <2>5
    <3> QED BY <1>5, <2>1, <3>1
  <2> QED BY <2>3, <2>4, <2>5
<1>17. ASSUME NEW i \in DOMAIN run'
       PROVE  Closes(run'[i])
  <2>1. \A k \in DOMAIN run : Closes(run[k])
    BY DEF WebInv
  <2> QED BY <1>7, <1>8, <2>1
<1> QED BY <1>11, <1>12, <1>13, <1>15, <1>16, <1>17 DEF WebInv

-----------------------------------------------------------------------------
(* The invariant and what it says. *)

(* Nothing has been enriched.                                              *)
LEMMA WebInitInv ==
  ASSUME WebsiteInit
  PROVE  WebInv
<1>1. WebTypes
  <2>1. << >> \in Seq(RunRows)
    BY EmptySeq
  <2>2. /\ run = << >> /\ leads = {} /\ blocked = {} /\ paused = FALSE /\ crashes = 0
        /\ raised = {}
    BY DEF WebsiteInit
  <2>3. where \in [Enrichers -> Wheres] /\ job \in [Enrichers -> Crawls]
    BY NoJobIs DEF WebsiteInit, Wheres
  <2>4. MaxCrashes \in Nat
    BY WebsiteAssumption DEF WebsiteAssumption
  <2>5. crashes \in 0..MaxCrashes
    BY <2>2, <2>4
  <2>6. run \in Seq(RunRows)
    BY <2>1, <2>2
  <2> QED BY <2>2, <2>3, <2>5, <2>6 DEF WebTypes
<1>2. \A e \in Enrichers : Owns(where[e], job[e]) /\ Sound(where[e], job[e])
  BY NoJobIs, NoPages DEF WebsiteInit, Owns, Sound, Inside
<1>3. QuotaInv
  <2>1. Opening = {} /\ Len(run) = 0 /\ Quota \in Nat
    BY WebsiteAssumption, EmptySeq DEF WebsiteInit, Opening, WebsiteAssumption
  <2>2. Cardinality(Enrichers) \in Nat /\ Cardinality(Enrichers) # 0
    BY WebsiteAssumption, FS_CardinalityType, FS_EmptySet DEF WebsiteAssumption
  <2> QED BY <2>1, <2>2, FS_EmptySet DEF QuotaInv
<1>4. DOMAIN run = {}
  BY DEF WebsiteInit
<1>5. Cardinality(Orphans) <= crashes
  <2>1. Orphans = {}
    BY <1>4 DEF Orphans
  <2> QED BY <2>1, FS_EmptySet DEF WebsiteInit
<1> QED BY <1>1, <1>2, <1>3, <1>4, <1>5 DEF WebInv, OneFirstContact

(* Every step of every enricher.                                           *)
LEMMA WebStepInv ==
  ASSUME WebInv, [WebsiteNext]_websiteVars
  PROVE  WebInv'
<1>1. CASE UNCHANGED websiteVars
  BY <1>1 DEF websiteVars, WebInv, WebTypes, Owns, Sound, QuotaInv, Opening, Orphans,
              OneFirstContact
<1>2. CASE Elsewhere
  BY <1>2, ElsewhereInv
<1>3. ASSUME NEW e \in Enrichers, NEW site \in Sites, Gate(e, site)
      PROVE  WebInv'
  BY <1>3, GateInv
<1>4. ASSUME NEW e \in Enrichers, Die(e)
      PROVE  WebInv'
  BY <1>4, DieInv
<1>5. ASSUME NEW e \in Enrichers, Work(e)
      PROVE  WebInv'
  <2>1. CASE OpenRun(e)
    BY <2>1, OpenRunInv
  <2>2. CASE Unsafe(e)
    BY <2>2, UnsafeInv
  <2>3. CASE Crawled(e)
    BY <2>3, CrawledInv
  <2>4. CASE \E a \in Answers, file \in RobotsFiles : AskRobots(e, a, file)
    BY <2>4, AskRobotsInv
  <2>5. CASE \E a \in Answers : Visit(e, a)
    BY <2>5, VisitInv
  <2>6. CASE \E mx \in {"yes", "no", "unknown"} : Keep(e, mx)
    BY <2>6, KeepInv
  <2> QED BY <1>5, <2>1, <2>2, <2>3, <2>4, <2>5, <2>6 DEF Work
<1> QED BY <1>1, <1>2, <1>3, <1>4, <1>5 DEF WebsiteNext

(* What enrichers keep true between any two of their commits.              *)
LEMMA WebInvHolds ==
  WebsiteSpec => []WebInv
BY WebInitInv, WebStepInv, PTL DEF WebsiteSpec

(* _gate_enrichment reads the quota before enrich_website_candidate opens  *)
(* the run: at most one run for each enricher but one goes beyond it.      *)
THEOREM QuotaOvershootBoundedHolds ==
  WebsiteSpec => []QuotaOvershootBounded
<1>1. WebInv => QuotaOvershootBounded
  <2>1. SUFFICES ASSUME WebInv PROVE QuotaOvershootBounded
    OBVIOUS
  <2>2. IsFiniteSet(Enrichers) /\ Opening \subseteq Enrichers /\ Quota \in Nat
    BY WebsiteAssumption DEF WebsiteAssumption, Opening
  <2>3. Cardinality(Opening) \in Nat /\ Cardinality(Enrichers) \in Nat
    BY <2>2, FS_Subset, FS_CardinalityType
  <2>4. Len(run) \in Nat
    BY <2>1, LenProperties DEF WebInv, WebTypes
  <2>5. Len(run) + Cardinality(Opening) < Quota + Cardinality(Enrichers)
    BY <2>1 DEF WebInv, QuotaInv
  <2>6. Len(run) <= Quota + Cardinality(Enrichers) - 1
    BY <2>2, <2>3, <2>4, <2>5
  <2> QED BY <2>6 DEF QuotaOvershootBounded
<1> QED BY <1>1, WebInvHolds, PTL

(* Whichever enrichers found an address and in whatever order they kept    *)
(* it, _stored_email_duplicate lets one run at most offer it as new.       *)
THEOREM OneFirstContactHolds ==
  WebsiteSpec => []OneFirstContact
<1>1. WebInv => OneFirstContact
  BY DEF WebInv
<1> QED BY <1>1, WebInvHolds, PTL

(* No page but robots.txt was asked for of a site whose robots.txt, read   *)
(* to its end by _robots_allows, forbids its start page to every robot.    *)
THEOREM RobotsRespectedHolds ==
  WebsiteSpec => []RobotsRespected
<1>1. WebInv => RobotsRespected
  <2>1. SUFFICES ASSUME WebInv, NEW e \in Enrichers,
                        \E i \in DOMAIN job[e].pages : job[e].pages[i].url # Robots
                 PROVE  ~Forbids(job[e].file)
    BY DEF RobotsRespected
  <2>2. Cleared(job[e].file)
    BY <2>1 DEF WebInv, Sound
  <2>3. CASE job[e].file = << >>
    <3>1. DOMAIN job[e].file = {}
      BY <2>3
    <3> QED BY <3>1 DEF Forbids
  <2>4. CASE job[e].file \in RobotsFiles /\ RobotsAllows(job[e].file)
    <3>1. job[e].file \in Seq(Lines)
      BY <2>4, WebsiteAssumption DEF WebsiteAssumption
    <3> QED BY <2>4, <3>1, ForbiddenIsDenied
  <2> QED BY <2>2, <2>3, <2>4 DEF Cleared
<1> QED BY <1>1, WebInvHolds, PTL

(* Besides the runs of dead enrichers, only those whose crawl met a        *)
(* redirect or a markup that raises (crawl_website), and those of sites    *)
(* that link to their own robots.txt, stay RUNNING with nobody at work on  *)
(* them.                                                                   *)
THEOREM OnlyDeathsLeaveRunningHolds ==
  WebsiteSpec => []OnlyDeathsLeaveRunning
<1>1. WebInv => OnlyDeathsLeaveRunning
  BY DEF WebInv, OnlyDeathsLeaveRunning, Orphans
<1> QED BY <1>1, WebInvHolds, PTL

(* The state a run is closed with, its contacts and its evidence agree     *)
(* with the pages it fetched.                                              *)
THEOREM StateTellsPagesHolds ==
  WebsiteSpec => []StateTellsPages
<1>1. WebInv => StateTellsPages
  <2>1. SUFFICES ASSUME WebInv PROVE StateTellsPages
    OBVIOUS
  <2>2. /\ DOMAIN run = 1..Len(run) /\ Len(run) \in Nat
        /\ \A i \in DOMAIN run : run[i] \in RunRows
    BY <2>1, LenProperties, ElementOfSeq DEF WebInv, WebTypes
  <2>3. ASSUME NEW i \in DOMAIN run
        PROVE  /\ run[i].site \in Sites
               /\ run[i].state \in {"RUNNING", "COMPLETED", "SOURCE_ERROR", "RENDER_REQUIRED",
                                    "BLOCKED", "ROBOTS_DENIED"}
               /\ \A c \in run[i].contacts : c.addr \in Addresses /\ c.duplicate \in BOOLEAN
    BY <2>2 DEF RunRows, RunStates, ContactRows
  <2>4. ASSUME NEW e \in Enrichers
        PROVE  /\ job[e].site \in Sites \union {None}
               /\ job[e].run \in 0..Len(run) /\ job[e].seen \subseteq Urls
    <3>1. job[e] \in Crawls /\ Owns(where[e], job[e]) /\ where[e] \in Wheres
      BY <2>1 DEF WebInv, WebTypes
    <3>2. job[e].run = 0 \/ job[e].run \in DOMAIN run
      BY <3>1, NoJobIs DEF Owns, Inside, Wheres
    <3> QED BY <2>2, <3>1, <3>2 DEF Crawls
  <2>5. WebsiteTypeOK
    BY <2>1, <2>3, <2>4 DEF WebInv, WebTypes, WebsiteTypeOK, Wheres
  <2>6. ASSUME NEW i \in DOMAIN run, run[i].state # "RUNNING"
        PROVE  /\ run[i].state = "COMPLETED" => Fetched(run[i].pages) # {}
               /\ run[i].state \in {"SOURCE_ERROR", "ROBOTS_DENIED"}
                    => Fetched(run[i].pages) = {}
               /\ Fetched(run[i].pages) = {} => run[i].contacts = {}
               /\ \A s \in Signals : run[i].evidence[s] # "UNCLEAR"
                                       => Fetched(run[i].pages) # {}
    BY <2>1, <2>6 DEF WebInv, Closes, Ended
  <2> QED BY <2>5, <2>6 DEF StateTellsPages
<1> QED BY <1>1, WebInvHolds, PTL
=============================================================================
