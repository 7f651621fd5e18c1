------------------------ MODULE ProductionCycleProofs ------------------------
(***************************************************************************)
(* The production cycle for every set of processes and run ids, every      *)
(* handoff the checks let through, every number of deaths.  The lock makes *)
(* the processes take turns, but it dies with its holder: what a cycle     *)
(* leaves behind is in the log, so the invariant says of a process what it *)
(* has dealt with (Passes), what the log holds of the candidate at hand    *)
(* (Decides), and of the log that no verdict contradicts another.          *)
(***************************************************************************)
EXTENDS ProductionCycle, FiniteSetTheorems, WellFoundedInduction, TLAPS

Pcs == {"idle", "lane", "item", "judge", "assign", "work", "messages", "complete"}
Callers ==
  [pc : Pcs, run : Runs \union {None}, lane : 0..3, item : Nat, taken : BOOLEAN,
   researched : Nat, message : Nat]

(* What the proofs need to know of what a handoff holds. *)
IsCandidate(x) ==
  /\ x.raw \in Imports /\ x.case \in Cases /\ Considered(x) \in Nat
  /\ x.lane \in {"PRIMARY", "SECONDARY"}

(* Rows, log and processes have their types. *)
RowsInv ==
  /\ cand \in [Keys -> CandRows \union {None}]
  /\ lead \in [Keys -> LeadRows \union {None}]
AssignedInv == assigned \in [Keys -> {"PRIMARY", "SECONDARY", None}]
LogInv ==
  /\ \A v \in verdicts : v[2] \in {"COMMITTED", "HELD", "REJECTED", "EXCLUDED"}
  /\ completed \union failed \subseteq Runs
  /\ lock \in Procs \union {None} /\ active \in {"PRIMARY", "SECONDARY", None}
  /\ paused \in BOOLEAN /\ clock \in 1..MaxClock /\ crashes \in 0..MaxCrashes
  /\ handoff \in Handoffs

(* Whoever is in a cycle holds the lock, so there is one.                  *)
LockInv ==
  /\ at \in [Procs -> Callers]
  /\ \A p \in Procs : IF at[p].pc = "idle" THEN at[p] = Idle ELSE lock = p

Dealt(x) ==
  \/ x.case = "unsourced" \/ Judged(x.key) \/ x.key \in queued \/ lead[x.raw.key] # None

(* The candidates that a process at c has passed.                          *)
Passed(c, i) ==
  LET lane == handoff[c.run][i].lane IN
  \/ \E l \in 1..2 : l < c.lane /\ lane = Lanes[l]
  \/ /\ c.pc # "lane" /\ c.lane \in 1..2 /\ lane = Lanes[c.lane]
     /\ c.item = 0 \/ i < c.item

Undecided(k) == \A v \in verdicts : v[1] = k => v[2] = "EXCLUDED"
Written(x, m) == \E o \in outreach : o.key = MessageKey(x, m)

(* What is so of a process at c. *)
Placed(c) ==
  /\ c.run \in Runs /\ c.item \in 0..Len(handoff[c.run]) /\ c.researched <= ResearchCap
  /\ c.lane = 3 <=> c.pc = "complete"
  /\ c.lane # 0 /\ (c.pc = "messages" \/ c.message = 0)
  /\ c.pc \in {"judge", "assign", "work", "messages"} => c.item # 0
Decides(c) ==
  LET x == handoff[c.run][c.item] IN
  /\ c.pc \in {"judge", "assign", "work", "messages"} => Undecided(x.key)
  /\ c.pc \in {"assign", "work", "messages"} \/ (c.pc = "judge" /\ c.taken)
       => lead[x.raw.key] # None
  /\ c.pc = "messages" => /\ c.message <= Considered(x)
                         /\ \A m \in 1..c.message : Written(x, m)
Passes(c) ==
  \A i \in DOMAIN handoff[c.run] : Passed(c, i) => Dealt(handoff[c.run][i])
Sound(c) == Placed(c) /\ Decides(c) /\ Passes(c)

WorkInv == \A p \in Procs : at[p].pc # "idle" => Sound(at[p])
ActiveInv ==
  active # None /\ crashes = 0 =>
    \E p \in Procs : /\ at[p].pc \in {"item", "judge", "assign", "work", "messages"}
                     /\ at[p].lane \in 1..2 /\ Lanes[at[p].lane] = active
WholeInv == \A r \in completed : \A i \in DOMAIN handoff[r] : Dealt(handoff[r][i])

CycleInv ==
  /\ RowsInv /\ LogInv /\ LockInv /\ WorkInv /\ ActiveInv /\ WholeInv /\ OneVerdict /\ MessagesOnce

-----------------------------------------------------------------------------
(* Handoffs. *)

(* The next candidate is the first one of the lane that has not come yet.  *)
LEMMA Least ==
  ASSUME NEW N \in Nat, NEW S, S \subseteq 1..N, S # {}
  PROVE  \E j \in S : \A n \in S : j <= n
<1> DEFINE R == StrictSubsetOrdering(1..N)
           T == {1..j : j \in S}
<1>1. IsWellFoundedOn(R, FiniteSubsetsOf(1..N))
  BY FS_StrictSubsetOrderingWellFounded
<1>2. T \subseteq FiniteSubsetsOf(1..N) /\ T # {}
  <2>1. ASSUME NEW j \in S
        PROVE  1..j \in FiniteSubsetsOf(1..N)
    <3>1. j \in Nat /\ 1..j \subseteq 1..N
      OBVIOUS
    <3>2. IsFiniteSet(1..j)
      BY <3>1, FS_Interval
    <3> QED BY <3>1, <3>2 DEF FiniteSubsetsOf
  <2>2. \A t \in T : t \in FiniteSubsetsOf(1..N)
    BY <2>1, Zenon
  <2>3. T # {}
    BY Zenon
  <2> QED BY <2>2, <2>3
<1> HIDE DEF R, T
<1>3. PICK x \in T : \A y \in T : <<y, x>> \notin R
  BY <1>1, <1>2, WFMin
<1>4. PICK j \in S : x = 1..j
  BY DEF T
<1>5. ASSUME NEW n \in S
      PROVE  j <= n
  <2>1. 1..n \in T
    BY DEF T
  <2>2. <<1..n, 1..j>> \notin R
    BY <1>3, <1>4, <2>1
  <2>3. ~(1..n \subseteq 1..j /\ 1..n # 1..j)
    <3> HIDE DEF T
    <3>1. 1..n \in SUBSET (1..N) /\ 1..j \in SUBSET (1..N)
      OBVIOUS
    <3> QED BY <2>2, <3>1 DEF R, StrictSubsetOrdering
  <2>4. n < j => 1..n \subseteq 1..j /\ j \in 1..j /\ j \notin 1..n
    OBVIOUS
  <2> QED BY <2>3, <2>4
<1> QED BY <1>4, <1>5

(* A handoff is one that got past the checks, and holds candidates.        *)
LEMMA HandoffIs ==
  ASSUME LogInv, NEW r \in Runs
  PROVE  /\ Len(handoff[r]) \in Nat /\ DOMAIN handoff[r] = 1..Len(handoff[r])
         /\ \A i \in DOMAIN handoff[r] : IsCandidate(handoff[r][i])
<1>1. IsHandoff(handoff)
  BY CycleAssumption DEF LogInv, CycleAssumption
<1>2. Len(handoff[r]) \in Nat /\ DOMAIN handoff[r] = 1..Len(handoff[r])
  BY <1>1 DEF IsHandoff
<1>3. \A i \in DOMAIN handoff[r] : IsCandidate(handoff[r][i])
  <2>1. ASSUME NEW i \in DOMAIN handoff[r]
        PROVE  IsCandidate(handoff[r][i])
    <3>1. /\ handoff[r][i].lane \in {"PRIMARY", "SECONDARY"} /\ handoff[r][i].raw \in Imports
          /\ handoff[r][i].case \in Cases /\ Len(handoff[r][i].messages) \in Nat
      BY <1>1 DEF IsHandoff
    <3>2. Considered(handoff[r][i]) \in Nat
      BY <3>1 DEF Considered
    <3> QED BY <3>1, <3>2 DEF IsCandidate
  <2> QED BY <2>1
<1> QED BY <1>2, <1>3

(* NextItem is the least of the lane from i on, or 0.                      *)
LEMMA NextItemIs ==
  ASSUME LogInv, NEW p \in Procs, at[p].run \in Runs, NEW i \in Nat
  PROVE  /\ NextItem(p, i) \in 0..Len(Here(p))
         /\ \A n \in DOMAIN Here(p) : n >= i /\ Here(p)[n].lane = Lanes[at[p].lane]
              => NextItem(p, i) # 0 /\ NextItem(p, i) <= n
<1> DEFINE S == {j \in DOMAIN Here(p) : j >= i /\ Here(p)[j].lane = Lanes[at[p].lane]}
<1>1. DOMAIN Here(p) = 1..Len(Here(p)) /\ Len(Here(p)) \in Nat
  BY HandoffIs DEF Here
<1>2. NextItem(p, i) = IF S = {} THEN 0 ELSE CHOOSE j \in S : \A n \in S : j <= n
  BY DEF NextItem
<1>3. S \subseteq 1..Len(Here(p))
  BY <1>1
<1>4. CASE S = {}
  BY <1>1, <1>2, <1>4
<1>5. CASE S # {}
  <2> HIDE DEF S
  <2>1. \E j \in S : \A n \in S : j <= n
    BY <1>1, <1>3, <1>5, Least
  <2>2. NextItem(p, i) \in S /\ \A n \in S : NextItem(p, i) <= n
    BY <1>2, <1>5, <2>1
  <2>3. NextItem(p, i) \in 1..Len(Here(p))
    BY <1>3, <2>2
  <2> QED BY <1>1, <2>2, <2>3 DEF S
<1> QED BY <1>4, <1>5

-----------------------------------------------------------------------------
(* Rows. *)

IsRecord(c) ==
  /\ c.key \in Keys /\ c.at \in Nat
  /\ c.site \in Values /\ c.email \in Values /\ c.phone \in Values /\ c.domain \in Values
  /\ c.fault \in {"INACTIVE_BUSINESS", "INVALID", "none"}

(* What _candidate and the normalisation make of a payload is a record of  *)
(* the same source record id.                                              *)
LEMMA RecordIs ==
  ASSUME LogInv, NEW x, x.raw \in Imports
  PROVE  IsRecord(Record(x)) /\ Record(x).key = x.raw.key
<1> DEFINE raw == [x.raw EXCEPT !.at = IF @ = 0 THEN clock ELSE @]
<1>1. /\ DOMAIN x.raw = {"key", "named", "site", "email", "phone", "closed", "at"}
      /\ x.raw.key \in Keys /\ x.raw.at \in Nat
  BY DiscoveryAssumption DEF DiscoveryAssumption
<1>2. clock \in Nat
  BY CycleAssumption DEF LogInv, CycleAssumption
<1>3. /\ raw.key = x.raw.key /\ raw.site = x.raw.site /\ raw.email = x.raw.email
      /\ raw.phone = x.raw.phone
  BY <1>1
<1>4. raw.at \in Nat
  BY <1>1, <1>2
<1>5. raw.site \in Values /\ raw.email \in Values /\ raw.phone \in Values /\ None \in Values
  BY <1>3 DEF Values
<1>6. Record(x) = Normalize(raw)
  BY DEF Record
<1> HIDE DEF raw
<1>7. Clean(raw.site) \in Values /\ Clean(raw.email) \in Values
  BY <1>5 DEF Clean
<1>8. Normalize(raw).fault \in {"INACTIVE_BUSINESS", "INVALID", "none"}
  BY DEF Normalize
<1> QED BY <1>1, <1>3, <1>4, <1>5, <1>6, <1>7, <1>8 DEF Normalize, IsRecord

(* The outcomes of an ingestion.                                           *)
LEMMA OutcomeIs ==
  ASSUME NEW c, IsRecord(c)
  PROVE  Outcome(c) \in Outcomes
BY DEF Outcome, NewOutcome, Intrinsic, IsRecord, Outcomes

(* An ingestion takes no lead away.                                        *)
LeadsStay == \A k \in Keys : lead[k] # None => lead'[k] # None

(* ingest_candidate writes rows of the schema, and takes no lead away.     *)
LEMMA StoreRows ==
  ASSUME RowsInv, NEW c, IsRecord(c), Store(c)
  PROVE  RowsInv' /\ LeadsStay
<1> DEFINE o == Outcome(c)
           row == IF cand[c.key] = None THEN Row(c, c, o)
                  ELSE IF o = "SUPPRESSED" THEN [cand[c.key] EXCEPT !.outcome = o]
                  ELSE IF o = "UPDATED" THEN Row(c, Merged(c), o) ELSE cand[c.key]
           new == IF o = "ACCEPTED" THEN LeadOf(c, "DISCOVERED")
                  ELSE IF o = "UPDATED" /\ lead[c.key] # None
                       THEN LeadOf(Merged(c), lead[c.key].status) ELSE lead[c.key]
<1>1. /\ cand[c.key] \in CandRows \union {None} /\ lead[c.key] \in LeadRows \union {None}
      /\ None \notin LeadRows /\ c.key \in Keys
  BY DiscoveryAssumption DEF RowsInv, IsRecord
<1>2. cand' = [cand EXCEPT ![c.key] = row] /\ lead' = [lead EXCEPT ![c.key] = new]
  BY DEF Store
<1>3. o \in Outcomes
  BY OutcomeIs
<1>4. o = "UPDATED" => cand[c.key] # None
  BY DEF Outcome, NewOutcome, Intrinsic, IsRecord
<1> HIDE DEF o
<1>5. Row(c, c, o) \in CandRows
  BY <1>3 DEF Row, CandRows, IsRecord
<1>6. ASSUME cand[c.key] # None
      PROVE  /\ Merged(c).site \in Values /\ Merged(c).email \in Values
             /\ Merged(c).phone \in Values /\ Merged(c).domain \in Values
             /\ Row(c, Merged(c), o) \in CandRows
             /\ [cand[c.key] EXCEPT !.outcome = o] \in CandRows
  <2>1. cand[c.key] \in CandRows
    BY <1>1, <1>6
  <2>2. /\ Merged(c).site \in Values /\ Merged(c).email \in Values
        /\ Merged(c).phone \in Values /\ Merged(c).domain \in Values
    BY <2>1 DEF Merged, IsRecord, CandRows
  <2>3. Row(c, Merged(c), o) \in CandRows
    BY <1>3, <2>2 DEF Row, CandRows, IsRecord
  <2>4. [cand[c.key] EXCEPT !.outcome = o] \in CandRows
    BY <1>3, <2>1 DEF CandRows
  <2> QED BY <2>2, <2>3, <2>4
<1>7. row \in CandRows \union {None}
  BY <1>1, <1>5, <1>6
<1>8. LeadOf(c, "DISCOVERED") \in LeadRows
  BY DEF LeadOf, LeadRows, IsRecord
<1>9. ASSUME o = "UPDATED", lead[c.key] # None
      PROVE  LeadOf(Merged(c), lead[c.key].status) \in LeadRows
  <2>1. lead[c.key] \in LeadRows
    BY <1>1, <1>9
  <2> QED BY <1>4, <1>6, <1>9, <2>1 DEF LeadOf, LeadRows
<1>10. new \in LeadRows \union {None} /\ (lead[c.key] # None => new # None)
  BY <1>1, <1>8, <1>9
<1> HIDE DEF row, new
<1> QED BY <1>1, <1>2, <1>7, <1>10 DEF RowsInv, LeadsStay

(* So does a new status of a lead there is.                                *)
LEMMA StatusRows ==
  ASSUME RowsInv, NEW k \in Keys, NEW s \in {"REJECTED", "DISCOVERED", "REVIEW_PENDING"},
         lead[k] # None, lead' = [lead EXCEPT ![k].status = s], UNCHANGED cand
  PROVE  RowsInv' /\ LeadsStay
<1> DEFINE new == [lead[k] EXCEPT !.status = s]
<1>1. lead[k] \in LeadRows /\ None \notin LeadRows
  BY DiscoveryAssumption DEF RowsInv
<1>2. new \in LeadRows
  BY <1>1 DEF LeadRows
<1>3. lead' = [lead EXCEPT ![k] = new]
  OBVIOUS
<1> HIDE DEF new
<1> QED BY <1>1, <1>2, <1>3 DEF RowsInv, LeadsStay

-----------------------------------------------------------------------------
(* Steps, by what they do to the process and to the log. *)

Moved(p, c) == c \in Callers /\ at' = [at EXCEPT ![p] = c]
Onward(p, c) ==
  /\ Moved(p, c) /\ c.run = at[p].run /\ c.lane = at[p].lane /\ c.researched = at[p].researched
  /\ c.pc = "item" /\ c.item = NextItem(p, at[p].item + 1) /\ c.message = 0
Stays(p, c) ==
  Moved(p, c) /\ c.run = at[p].run /\ c.lane = at[p].lane /\ c.item = at[p].item

TypesInv == RowsInv /\ LogInv /\ LockInv /\ WorkInv

(* Idle is a place a process may be in.                                    *)
LEMMA IdleIs ==
  Idle \in Callers /\ Idle.pc = "idle"
BY DEF Idle, Callers, Pcs

(* A process in a cycle, and what it works on.                             *)
LEMMA WorkerIs ==
  ASSUME TypesInv, NEW p \in Procs, at[p].pc # "idle"
  PROVE  /\ at[p] \in Callers /\ at[p].run \in Runs /\ lock = p /\ Sound(at[p]) /\ at[p] # Idle
         /\ at[p].item \in 0..Len(Here(p)) /\ Len(Here(p)) \in Nat
         /\ DOMAIN Here(p) = 1..Len(Here(p)) /\ at[p].researched \in 0..ResearchCap
         /\ at[p].lane \in 1..3
<1>1. at[p] \in Callers /\ lock = p /\ Sound(at[p]) /\ at[p] # Idle
  BY IdleIs DEF TypesInv, LockInv, WorkInv
<1>2. Placed(at[p])
  BY <1>1 DEF Sound
<1>3. at[p].run \in Runs
  BY <1>2 DEF Placed
<1>4. at[p].item \in 0..Len(Here(p))
  BY <1>2 DEF Placed, Here
<1>5. at[p].researched \in 0..ResearchCap
  BY <1>1, <1>2, CycleAssumption DEF Placed, Callers, CycleAssumption
<1>6. at[p].lane \in 1..3
  <2>1. at[p].lane \in 0..3
    BY <1>1 DEF Callers
  <2>2. at[p].lane # 0
    BY <1>2 DEF Placed
  <2> QED BY <2>1, <2>2
<1>7. Len(Here(p)) \in Nat /\ DOMAIN Here(p) = 1..Len(Here(p))
  BY <1>3, HandoffIs DEF Here, TypesInv
<1> QED BY <1>1, <1>3, <1>4, <1>5, <1>6, <1>7

(* What a process works on is a candidate of its handoff.                  *)
LEMMA ItemIs ==
  ASSUME TypesInv, NEW p \in Procs, at[p].pc # "idle", at[p].item # 0
  PROVE  /\ at[p].item \in DOMAIN Here(p) /\ IsCandidate(Item(p)) /\ Item(p).raw.key \in Keys
         /\ Item(p) = handoff[at[p].run][at[p].item]
<1>1. /\ at[p].run \in Runs /\ at[p].item \in 0..Len(Here(p)) /\ Len(Here(p)) \in Nat
      /\ DOMAIN Here(p) = 1..Len(Here(p))
  BY WorkerIs
<1>2. at[p].item \in DOMAIN Here(p)
  BY <1>1
<1>3. IsCandidate(Item(p))
  BY <1>1, <1>2, HandoffIs DEF Here, Item, TypesInv
<1>4. Item(p).raw.key \in Keys
  BY <1>3, DiscoveryAssumption DEF IsCandidate, DiscoveryAssumption
<1> QED BY <1>2, <1>3, <1>4 DEF Item, Here

(* Between ingestion and verdict there is a candidate.                     *)
LEMMA AtWork ==
  ASSUME TypesInv, NEW p \in Procs, at[p].pc \in {"judge", "assign", "work", "messages"}
  PROVE  /\ at[p].item # 0 /\ Undecided(Item(p).key)
         /\ (at[p].pc # "judge") \/ at[p].taken => lead[Item(p).raw.key] # None
         /\ at[p].pc = "messages" => /\ at[p].message <= Considered(Item(p))
                                     /\ \A m \in 1..at[p].message : Written(Item(p), m)
<1>1. Placed(at[p]) /\ Decides(at[p])
  BY WorkerIs DEF Sound
<1>2. Item(p) = handoff[at[p].run][at[p].item]
  BY DEF Item, Here
<1> QED BY <1>1, <1>2 DEF Placed, Decides

(* Done moves the process on to the next candidate.                        *)
LEMMA DoneIs ==
  ASSUME TypesInv, NEW p \in Procs, at[p].pc # "idle", Done(p)
  PROVE  \E c : Onward(p, c)
<1> DEFINE n == NextItem(p, at[p].item + 1)
           c == [at[p] EXCEPT !.pc = "item", !.item = n, !.message = 0]
<1>1. at[p] \in Callers /\ at[p].item \in Nat /\ at[p].run \in Runs
  BY WorkerIs DEF Callers
<1>2. n \in Nat
  <2>1. at[p].item + 1 \in Nat /\ Len(Here(p)) \in Nat /\ LogInv
    BY <1>1, WorkerIs DEF TypesInv
  <2>2. n \in 0..Len(Here(p))
    BY <1>1, <2>1, NextItemIs
  <2> QED BY <2>1, <2>2
<1>3. at' = [at EXCEPT ![p] = c]
  BY DEF Done
<1> HIDE DEF n
<1>4. /\ c \in Callers /\ c.run = at[p].run /\ c.lane = at[p].lane /\ c.pc = "item" /\ c.item = n
      /\ c.researched = at[p].researched /\ c.message = 0
  BY <1>1, <1>2 DEF Callers, Pcs
<1> HIDE DEF c
<1> QED BY <1>3, <1>4 DEF Onward, Moved, n

(* What a candidate comes to, and what that leaves of the log.             *)
TakeEnds(p) ==
  /\ \E c : Onward(p, c)
  /\ UNCHANGED <<filed, active, failed, lock, queued, outreach, completed>>
  /\ \/ verdicts' = verdicts \union {<<Item(p).key, "EXCLUDED">>}
     \/ UNCHANGED verdicts /\ (Item(p).case = "unsourced" \/ Judged(Item(p).key))
Raises(p) ==
  /\ at' = [at EXCEPT ![p] = Idle] /\ lock' = None /\ active' = None
  /\ failed' = failed \union {at[p].run}
  /\ UNCHANGED <<filed, verdicts, queued, outreach, completed>>
TakeStores(p) ==
  /\ Store(Record(Item(p))) /\ ~Judged(Item(p).key)
  /\ \E c : /\ Stays(p, c) /\ c.pc = "judge" /\ c.researched = at[p].researched
            /\ c.message = at[p].message
            /\ c.taken => lead'[Item(p).raw.key] # None
  /\ UNCHANGED <<verdicts, active, failed, lock, queued, outreach, completed>>

(* Take, by what it does.                                                  *)
LEMMA TakeIs ==
  ASSUME TypesInv, NEW p \in Procs, Take(p)
  PROVE  /\ at[p].pc = "item" /\ at[p].item # 0 /\ UNCHANGED <<handoff, paused, clock, crashes>>
         /\ TakeEnds(p) \/ Raises(p) \/ TakeStores(p)
<1> DEFINE x == Item(p)
           c == Record(x)
<1>1. /\ at[p].pc = "item" /\ at[p].item # 0 /\ UNCHANGED <<handoff, paused, clock, crashes>>
      /\ UNCHANGED <<queued, outreach, completed>>
  BY DEF Take
<1>2. CASE x.case = "excluded"
  <2>1. /\ verdicts' = verdicts \union {<<x.key, "EXCLUDED">>}
        /\ Done(p) /\ UNCHANGED <<filed, active, failed, lock>>
    BY <1>2 DEF Take
  <2> QED BY <1>1, <2>1, DoneIs DEF TakeEnds
<1>3. CASE x.case # "excluded" /\ (x.case = "unsourced" \/ Judged(x.key))
  <2>1. Done(p) /\ UNCHANGED <<filed, verdicts, active, failed, lock>>
    BY <1>3 DEF Take
  <2> QED BY <1>1, <1>3, <2>1, DoneIs DEF TakeEnds
<1>4. CASE x.case # "excluded" /\ ~(x.case = "unsourced" \/ Judged(x.key)) /\ Collides(c)
  <2>1. Raise(p) /\ UNCHANGED <<filed, verdicts>>
    BY <1>4 DEF Take
  <2> QED BY <1>1, <2>1 DEF Raises, Raise, Undo
<1>5. CASE x.case # "excluded" /\ ~(x.case = "unsourced" \/ Judged(x.key)) /\ ~Collides(c)
  <2> DEFINE t == Taken(c) /\ lead'[c.key] # None
             b == [at[p] EXCEPT !.pc = "judge", !.taken = t]
  <2>1. /\ Store(c) /\ at' = [at EXCEPT ![p].pc = "judge", ![p].taken = t]
        /\ UNCHANGED <<verdicts, active, failed, lock>>
    BY <1>5 DEF Take
  <2>2. at' = [at EXCEPT ![p] = b]
    BY <2>1
  <2>3. t => lead'[x.raw.key] # None
    <3>1. x.raw \in Imports
      BY <1>1, ItemIs DEF IsCandidate
    <3>2. c.key = x.raw.key
      BY <3>1, RecordIs DEF TypesInv
    <3> QED BY <3>2
  <2>4. at[p] \in Callers /\ t \in BOOLEAN
    BY <1>1, WorkerIs
  <2> HIDE DEF t
  <2>5. /\ b \in Callers /\ b.run = at[p].run /\ b.lane = at[p].lane /\ b.pc = "judge"
        /\ b.item = at[p].item /\ b.researched = at[p].researched /\ b.taken = t
        /\ b.message = at[p].message
    BY <2>4 DEF Callers, Pcs
  <2> HIDE DEF b
  <2> QED BY <1>1, <1>5, <2>1, <2>2, <2>3, <2>5 DEF TakeStores, Stays, Moved
<1> QED BY <1>1, <1>2, <1>3, <1>4, <1>5

JudgeEnds(p) ==
  /\ \E c : Onward(p, c)
  /\ \/ verdicts' = verdicts \union {<<Item(p).key, "REJECTED">>}
     \/ verdicts' = verdicts \union {<<Item(p).key, "HELD">>}
     \/ verdicts' = verdicts /\ Item(p).key \in queued'
  /\ queued \subseteq queued'
JudgeGoes(p) ==
  /\ \E c : /\ Stays(p, c) /\ c.pc = "assign" /\ c.researched = at[p].researched + 1
            /\ c.message = at[p].message /\ at[p].researched < ResearchCap
  /\ at[p].taken /\ UNCHANGED <<verdicts, queued>>

(* Judge, by what it does.                                                 *)
LEMMA JudgeIs ==
  ASSUME TypesInv, NEW p \in Procs, Judge(p)
  PROVE  /\ at[p].pc = "judge" /\ UNCHANGED <<handoff, paused, clock, crashes>>
         /\ UNCHANGED <<filed, outreach, completed, failed, lock, active>>
         /\ JudgeEnds(p) \/ JudgeGoes(p)
<1> DEFINE x == Item(p)
           late == at[p].researched >= ResearchCap
           goes == at[p].taken /\ ~late /\ x.case # "no_research"
<1>1. /\ at[p].pc = "judge" /\ UNCHANGED <<handoff, paused, clock, crashes>>
      /\ UNCHANGED <<filed, outreach, completed, failed, lock, active>>
  BY DEF Judge
<1>2. CASE goes
  <2> DEFINE more == at[p].researched + 1
             b == [at[p] EXCEPT !.pc = "assign", !.researched = more]
  <2>1. /\ at' = [at EXCEPT ![p].pc = "assign", ![p].researched = @ + 1]
        /\ UNCHANGED <<verdicts, queued>>
    BY <1>2 DEF Judge
  <2>2. at[p] \in Callers /\ at[p].researched \in Nat
    BY <1>1, WorkerIs DEF Callers
  <2>3. at' = [at EXCEPT ![p] = b]
    <3>1. at \in [Procs -> Callers]
      BY DEF TypesInv, LockInv
    <3>2. [at EXCEPT ![p].pc = "assign", ![p].researched = @ + 1] = [at EXCEPT ![p] = b]
      BY <2>2, <3>1 DEF Callers
    <3> QED BY <2>1, <3>2
  <2>4. /\ b \in Callers /\ b.run = at[p].run /\ b.lane = at[p].lane /\ b.pc = "assign"
        /\ b.item = at[p].item /\ b.researched = at[p].researched + 1
        /\ b.message = at[p].message
    <3>1. more \in Nat
      BY <2>2
    <3> HIDE DEF more
    <3>2. /\ b \in Callers /\ b.run = at[p].run /\ b.lane = at[p].lane /\ b.pc = "assign"
          /\ b.item = at[p].item /\ b.researched = more /\ b.message = at[p].message
      BY <2>2, <3>1 DEF Callers, Pcs
    <3> QED BY <3>2 DEF more
  <2>5. at[p].researched < ResearchCap
    <3> DEFINE n == at[p].researched
    <3>1. ~(n >= ResearchCap) /\ n \in Nat
      BY <1>2, <2>2, Zenon
    <3>2. ResearchCap \in Nat
      BY CycleAssumption DEF CycleAssumption
    <3> HIDE DEF n
    <3>3. n < ResearchCap
      BY <3>1, <3>2
    <3> QED BY <3>3 DEF n
  <2> HIDE DEF b
  <2> QED BY <1>1, <1>2, <2>1, <2>3, <2>4, <2>5 DEF JudgeGoes, Stays, Moved
<1>3. CASE ~goes
  <2>1. /\ Done(p)
        /\ queued' = IF at[p].taken /\ late THEN queued \union {x.key} ELSE queued
        /\ verdicts' =
             IF ~at[p].taken THEN verdicts \union {<<x.key, "REJECTED">>}
             ELSE IF ~late THEN verdicts \union {<<x.key, "HELD">>} ELSE verdicts
    BY <1>3 DEF Judge
  <2>2. \E c : Onward(p, c)
    BY <1>1, <2>1, DoneIs
  <2> HIDE DEF late
  <2> QED BY <1>1, <2>1, <2>2 DEF JudgeEnds
<1> QED BY <1>2, <1>3

AssignEnds(p) ==
  /\ \E c : Onward(p, c)
  /\ verdicts' = verdicts \union {<<Item(p).key, "HELD">>}
  /\ UNCHANGED <<filed, active, failed, lock, queued, outreach, completed>>
AssignGoes(p) ==
  /\ \E c : /\ Stays(p, c) /\ c.pc = "work" /\ c.researched = at[p].researched
            /\ c.message = at[p].message
  /\ UNCHANGED <<filed, verdicts, active, failed, lock, queued, outreach, completed>>

(* Assign, by what it does.                                                *)
LEMMA AssignIs ==
  ASSUME TypesInv, NEW p \in Procs, Assign(p)
  PROVE  /\ at[p].pc = "assign" /\ UNCHANGED <<handoff, paused, clock, crashes>>
         /\ AssignEnds(p) \/ Raises(p) \/ AssignGoes(p)
<1> DEFINE x == Item(p)
           other == assigned[x.raw.key] \notin {None, Lanes[at[p].lane]}
<1>1. /\ at[p].pc = "assign" /\ UNCHANGED <<handoff, paused, clock, crashes>>
      /\ UNCHANGED <<filed, queued, outreach, completed>>
  BY DEF Assign
<1>2. CASE x.case = "invalid"
  <2>1. /\ verdicts' = verdicts \union {<<x.key, "HELD">>}
        /\ Done(p) /\ UNCHANGED <<active, failed, lock>>
    BY <1>2 DEF Assign
  <2> QED BY <1>1, <2>1, DoneIs DEF AssignEnds
<1>3. CASE x.case # "invalid" /\ other
  <2>1. Raise(p) /\ UNCHANGED verdicts
    BY <1>3 DEF Assign
  <2> QED BY <1>1, <2>1 DEF Raises, Raise, Undo
<1>4. CASE x.case # "invalid" /\ ~other
  <2> DEFINE b == [at[p] EXCEPT !.pc = "work"]
  <2>1. GoTo(p, "work") /\ UNCHANGED <<verdicts, active, failed, lock>>
    BY <1>4 DEF Assign
  <2>2. at' = [at EXCEPT ![p] = b]
    BY <2>1 DEF GoTo
  <2>3. at[p] \in Callers
    BY <1>1, WorkerIs
  <2>4. /\ b \in Callers /\ b.run = at[p].run /\ b.lane = at[p].lane /\ b.pc = "work"
        /\ b.item = at[p].item /\ b.researched = at[p].researched /\ b.message = at[p].message
    BY <2>3 DEF Callers, Pcs
  <2> HIDE DEF b
  <2> QED BY <1>1, <2>1, <2>2, <2>4 DEF AssignGoes, Stays, Moved
<1> QED BY <1>1, <1>2, <1>3, <1>4

WorkEnds(p) ==
  /\ \E c : Onward(p, c)
  /\ \/ /\ UNCHANGED verdicts
        /\ \E s \in {"REJECTED", "DISCOVERED"} : lead' = [lead EXCEPT ![Item(p).raw.key].status = s]
     \/ UNCHANGED lead /\ verdicts' = verdicts \union {<<Item(p).key, "HELD">>}
  /\ UNCHANGED <<cand, active, failed, lock, queued, outreach, completed>>
WorkGoes(p) ==
  /\ \E c : /\ Stays(p, c) /\ c.pc = "messages" /\ c.researched = at[p].researched
            /\ c.message = at[p].message
  /\ UNCHANGED <<filed, verdicts, active, failed, lock, queued, outreach, completed>>

(* Work, by what it does.                                                  *)
LEMMA WorkIs ==
  ASSUME TypesInv, NEW p \in Procs, Work(p)
  PROVE  /\ at[p].pc = "work" /\ UNCHANGED <<handoff, paused, clock, crashes>>
         /\ WorkEnds(p) \/ Raises(p) \/ WorkGoes(p)
<1> DEFINE x == Item(p)
           k == x.raw.key
           out == LeadBlocked(k) \/ x.case = "rejected"
<1>1. /\ at[p].pc = "work" /\ UNCHANGED <<handoff, paused, clock, crashes>>
      /\ UNCHANGED <<cand, queued, outreach, completed>>
  BY DEF Work
<1>2. CASE out \/ x.case = "held"
  <2>1. /\ lead' = [lead EXCEPT ![k].status = IF out THEN "REJECTED" ELSE "DISCOVERED"]
        /\ Done(p) /\ UNCHANGED <<verdicts, active, failed, lock>>
    BY <1>2 DEF Work
  <2> HIDE DEF out
  <2>2. \E s \in {"REJECTED", "DISCOVERED"} : lead' = [lead EXCEPT ![k].status = s]
    BY <2>1
  <2> QED BY <1>1, <2>1, <2>2, DoneIs DEF WorkEnds
<1>3. CASE ~(out \/ x.case = "held") /\ x.case = "no_decision_maker"
  <2>1. Raise(p) /\ UNCHANGED <<lead, verdicts>>
    BY <1>3 DEF Work
  <2> QED BY <1>1, <2>1 DEF Raises, Raise, Undo, filed
<1>4. CASE ~(out \/ x.case = "held") /\ x.case # "no_decision_maker" /\ Considered(x) = 0
  <2>1. /\ verdicts' = verdicts \union {<<x.key, "HELD">>}
        /\ Done(p) /\ UNCHANGED <<lead, active, failed, lock>>
    BY <1>4 DEF Work
  <2> QED BY <1>1, <2>1, DoneIs DEF WorkEnds
<1>5. CASE /\ ~(out \/ x.case = "held") /\ x.case # "no_decision_maker"
             /\ Considered(x) # 0
  <2> DEFINE b == [at[p] EXCEPT !.pc = "messages"]
  <2>1. GoTo(p, "messages") /\ UNCHANGED <<lead, verdicts, active, failed, lock>>
    BY <1>5 DEF Work
  <2>2. at' = [at EXCEPT ![p] = b]
    BY <2>1 DEF GoTo
  <2>3. at[p] \in Callers
    BY <1>1, WorkerIs
  <2>4. /\ b \in Callers /\ b.run = at[p].run /\ b.lane = at[p].lane /\ b.pc = "messages"
        /\ b.item = at[p].item /\ b.researched = at[p].researched /\ b.message = at[p].message
    BY <2>3 DEF Callers, Pcs
  <2> HIDE DEF b
  <2> QED BY <1>1, <2>1, <2>2, <2>4 DEF WorkGoes, Stays, Moved, filed
<1> QED BY <1>1, <1>2, <1>3, <1>4, <1>5

(* Messages.                                                               *)
MessageEnds(p) ==
  /\ \E c : Onward(p, c)
  /\ UNCHANGED <<outreach, failed, lock, active>>
MessageGoes(p) ==
  LET key == MessageKey(Item(p), at[p].message + 1) IN
  /\ \E c : /\ Stays(p, c) /\ c.pc = "messages" /\ c.researched = at[p].researched
            /\ c.message = at[p].message + 1 /\ c.message <= Considered(Item(p))
  /\ \/ UNCHANGED outreach /\ Committed(key)
     \/ ~Committed(key) /\ \E o : o.key = key /\ outreach' = outreach \union {o}
  /\ UNCHANGED <<failed, lock, active>>

(* Message, by what it does: a row more only under a message key that has  *)
(* none.                                                                   *)
LEMMA MessageIs ==
  ASSUME TypesInv, NEW p \in Procs, Message(p)
  PROVE  /\ at[p].pc = "messages" /\ UNCHANGED <<handoff, paused, clock, crashes>>
         /\ UNCHANGED <<filed, verdicts, queued, completed>>
         /\ MessageEnds(p) \/ Raises(p) \/ MessageGoes(p)
<1> DEFINE x == Item(p)
           m == at[p].message + 1
           key == MessageKey(x, m)
           flaw == x.messages[m].flaw
           refused == flaw = "review" \/ (flaw = "touch" /\ ~Committed(key))
           breaks == flaw = "number" /\ ~Committed(key)
<1>1. /\ at[p].pc = "messages" /\ UNCHANGED <<handoff, paused, clock, crashes>>
      /\ UNCHANGED <<filed, verdicts, queued, completed>>
      /\ at[p].message < Considered(x)
  BY DEF Message
<1>2. CASE refused
  <2>1. Done(p) /\ UNCHANGED <<outreach, active, failed, lock>>
    BY <1>2 DEF Message
  <2> QED BY <1>1, <2>1, DoneIs DEF MessageEnds
<1>3. CASE ~refused /\ breaks
  <2>1. Raise(p) /\ UNCHANGED outreach
    BY <1>3 DEF Message
  <2> QED BY <1>1, <2>1 DEF Raises, Raise, Undo
<1>4. CASE ~refused /\ ~breaks
  <2> DEFINE b == [at[p] EXCEPT !.message = m]
             new == [key |-> key, lead |-> x.raw.key, id |-> Cardinality(outreach)]
  <2>1. /\ outreach' = IF Committed(key) THEN outreach ELSE outreach \union {new}
        /\ at' = [at EXCEPT ![p].message = m] /\ UNCHANGED <<active, failed, lock>>
    BY <1>4 DEF Message
  <2>2. at[p] \in Callers /\ at[p].message \in Nat /\ at[p].item # 0
    BY <1>1, WorkerIs, AtWork DEF Callers
  <2>3. Considered(x) \in Nat
    BY <1>1, <2>2, ItemIs DEF IsCandidate
  <2>4. m \in Nat /\ m <= Considered(x)
    <3> DEFINE all == Considered(x)
    <3>1. at[p].message < all /\ all \in Nat
      BY <1>1, <2>3
    <3> HIDE DEF all
    <3>2. m \in Nat /\ m <= all
      BY <2>2, <3>1
    <3> QED BY <3>2 DEF all
  <2>5. at' = [at EXCEPT ![p] = b]
    BY <2>1
  <2>6. new.key = key
    OBVIOUS
  <2> HIDE DEF m
  <2>7. /\ b \in Callers /\ b.run = at[p].run /\ b.lane = at[p].lane /\ b.pc = "messages"
        /\ b.item = at[p].item /\ b.researched = at[p].researched /\ b.message = m
    BY <1>1, <2>2, <2>4 DEF Callers, Pcs
  <2>8. /\ Stays(p, b) /\ b.pc = "messages" /\ b.researched = at[p].researched
        /\ b.message = m /\ b.message <= Considered(x)
    BY <2>4, <2>5, <2>7 DEF Stays, Moved
  <2> HIDE DEF b, new, key, x
  <2>9. \/ UNCHANGED outreach /\ Committed(key)
        \/ ~Committed(key) /\ \E o : o.key = key /\ outreach' = outreach \union {o}
    BY <2>1, <2>6
  <2> QED BY <1>1, <2>1, <2>8, <2>9 DEF MessageGoes, m, key, x
<1> QED BY <1>1, <1>2, <1>3, <1>4

(* Commit, by what it does.                                                *)
LEMMA CommitIs ==
  ASSUME TypesInv, NEW p \in Procs, Commit(p)
  PROVE  /\ at[p].pc = "messages" /\ UNCHANGED <<handoff, paused, clock, crashes>>
         /\ at[p].message = Considered(Item(p))
         /\ UNCHANGED <<cand, queued, outreach, completed, failed, lock, active>>
         /\ lead' = [lead EXCEPT ![Item(p).raw.key].status = "REVIEW_PENDING"]
         /\ verdicts' = verdicts \union {<<Item(p).key, "COMMITTED">>}
         /\ \E c : Onward(p, c)
<1>1. at[p].pc = "messages" /\ Done(p)
  BY DEF Commit
<1>2. \E c : Onward(p, c)
  BY <1>1, DoneIs
<1> QED BY <1>2 DEF Commit

-----------------------------------------------------------------------------
(* What every step leaves, and where a process may go. *)

Grows ==
  /\ handoff' = handoff /\ LeadsStay
  /\ verdicts \subseteq verdicts' /\ queued \subseteq queued' /\ outreach \subseteq outreach'

(* What has been dealt with stays so.                                      *)
LEMMA DealtStays ==
  ASSUME Grows, NEW x, x.raw.key \in Keys, Dealt(x)
  PROVE  Dealt(x)'
BY DEF Grows, LeadsStay, Dealt, Judged

(* So a completed run stays whole.                                         *)
LEMMA WholeStays ==
  ASSUME LogInv, WholeInv, Grows, completed' = completed
  PROVE  WholeInv'
<1>1. ASSUME NEW r \in completed, NEW i \in DOMAIN handoff[r]
      PROVE  Dealt(handoff[r][i])'
  <2>1. r \in Runs
    BY DEF LogInv
  <2>2. IsCandidate(handoff[r][i])
    BY <2>1, HandoffIs
  <2> DEFINE x == handoff[r][i]
  <2>3. x.raw.key \in Keys
    BY <2>2, DiscoveryAssumption DEF IsCandidate, DiscoveryAssumption
  <2>4. Dealt(x)
    BY DEF WholeInv
  <2>5. x' = x
    BY DEF Grows
  <2> HIDE DEF x
  <2>6. \/ x.case = "unsourced" \/ x.key \in queued'
        \/ \E v \in verdicts' : v[1] = x.key
        \/ lead'[x.raw.key] # None
    BY <2>3, <2>4 DEF Grows, LeadsStay, Dealt, Judged
  <2>7. Dealt(x)'
    BY <2>5, <2>6 DEF Dealt, Judged
  <2> QED BY <2>7 DEF x
<1>2. \A r \in completed' : \A i \in DOMAIN handoff'[r] : Dealt(handoff[r][i])'
  BY <1>1 DEF Grows
<1> QED BY <1>2 DEF WholeInv

(* A move within a lane, or outside of one, leaves an ACTIVE campaign its  *)
(* cycle.                                                                  *)
LEMMA ActiveStays ==
  ASSUME LockInv, ActiveInv, NEW p \in Procs, NEW c, at' = [at EXCEPT ![p] = c],
         active' = active, crashes' = crashes,
         at[p].pc \in {"item", "judge", "assign", "work", "messages"} =>
           c.pc \in {"item", "judge", "assign", "work", "messages"} /\ c.lane = at[p].lane
  PROVE  ActiveInv'
<1>1. SUFFICES ASSUME active # None, crashes = 0
      PROVE  \E q \in Procs : /\ at'[q].pc \in {"item", "judge", "assign", "work", "messages"}
                              /\ at'[q].lane \in 1..2 /\ Lanes[at'[q].lane] = active
  BY DEF ActiveInv, Lanes
<1>2. PICK q \in Procs : /\ at[q].pc \in {"item", "judge", "assign", "work", "messages"}
                         /\ at[q].lane \in 1..2 /\ Lanes[at[q].lane] = active
  BY <1>1 DEF ActiveInv
<1>3. at'[q].pc \in {"item", "judge", "assign", "work", "messages"} /\ at'[q].lane = at[q].lane
  BY <1>2 DEF LockInv
<1> QED BY <1>2, <1>3

(* One process moves: to idle, or to a sound place with the lock.          *)
LEMMA Moves ==
  ASSUME LockInv, WorkInv, NEW p \in Procs, (at[p].pc # "idle") \/ lock = None,
         NEW c \in Callers, at' = [at EXCEPT ![p] = c],
         c = Idle \/ (c.pc # "idle" /\ lock' = p /\ Sound(c)')
  PROVE  LockInv' /\ WorkInv'
<1>1. \A q \in Procs \ {p} : at[q] = Idle /\ at'[q] = Idle
  BY CycleAssumption DEF LockInv, CycleAssumption
<1>2. at'[p] = c /\ at' \in [Procs -> Callers]
  BY DEF LockInv
<1>3. ASSUME NEW q \in Procs
      PROVE  IF at'[q].pc = "idle" THEN at'[q] = Idle ELSE lock' = q
  BY <1>1, <1>2, IdleIs
<1>4. LockInv'
  BY <1>2, <1>3 DEF LockInv, Callers, Idle
<1>5. ASSUME NEW q \in Procs, at'[q].pc # "idle"
      PROVE  Sound(at[q])'
  <2>1. q = p /\ at'[q] = c /\ Sound(c)'
    BY <1>1, <1>2, <1>5, IdleIs
  <2>2. Placed(c)' /\ Decides(c)' /\ Passes(c)'
    BY <2>1 DEF Sound
  <2>3. Placed(at[q])'
    BY <2>1, <2>2 DEF Placed
  <2>4. Decides(at[q])'
    BY <2>1, <2>2 DEF Decides
  <2>5. Passes(at[q])'
    BY <2>1, <2>2 DEF Passes
  <2> QED BY <2>3, <2>4, <2>5 DEF Sound
<1>6. WorkInv'
  BY <1>5 DEF WorkInv
<1> QED BY <1>4, <1>6

-----------------------------------------------------------------------------
(* A candidate is done with. *)

ItemPcs == {"item", "judge", "assign", "work", "messages"}
DealtNow(p) ==
  \/ Item(p).case = "unsourced" \/ Item(p).key \in queued'
  \/ \E v \in verdicts' : v[1] = Item(p).key
  \/ lead'[Item(p).raw.key] # None

(* Between one candidate and the next one of the lane there is none of the *)
(* lane.                                                                   *)
LEMMA OnwardPasses ==
  ASSUME TypesInv, Grows, NEW p \in Procs, at[p].pc \in ItemPcs, at[p].item # 0,
         DealtNow(p), NEW c, Onward(p, c)
  PROVE  Passes(c)'
<1>1. /\ at[p].run \in Runs /\ at[p].item \in Nat /\ DOMAIN Here(p) = 1..Len(Here(p))
      /\ Len(Here(p)) \in Nat /\ at[p].lane \in 1..3 /\ LogInv /\ Sound(at[p])
  <2>1. at[p].pc # "idle"
    BY DEF ItemPcs
  <2> QED BY <2>1, WorkerIs DEF TypesInv
<1>2. at[p].lane \in 1..2
  BY <1>1 DEF Sound, Placed, ItemPcs
<1>3. c.run = at[p].run /\ c.lane = at[p].lane /\ c.pc = "item"
      /\ c.item = NextItem(p, at[p].item + 1)
  BY DEF Onward
<1>4. handoff' = handoff /\ Here(p) = handoff[at[p].run]
  BY DEF Grows, Here
<1>5. ASSUME NEW i \in DOMAIN handoff[c.run], Passed(c, i)'
      PROVE  Dealt(handoff[c.run][i])'
  <2> DEFINE x == handoff[c.run][i]
  <2>1. i \in DOMAIN Here(p) /\ x = Here(p)[i] /\ i \in Nat
    BY <1>1, <1>3, <1>4
  <2>2. Passed(c, i)
    BY <1>4, <1>5 DEF Passed
  <2>3. CASE Passed(at[p], i)
    <3>1. Dealt(x)
      BY <1>1, <1>3, <2>3 DEF Sound, Passes
    <3>2. x.raw.key \in Keys
      <4>1. IsCandidate(x)
        BY <1>1, <1>3, HandoffIs
      <4> QED BY <4>1, DiscoveryAssumption DEF IsCandidate, DiscoveryAssumption
    <3> HIDE DEF x
    <3>3. \/ x.case = "unsourced" \/ x.key \in queued'
          \/ \E v \in verdicts' : v[1] = x.key
          \/ lead'[x.raw.key] # None
      BY <3>1, <3>2 DEF Grows, LeadsStay, Dealt, Judged
    <3> QED BY <1>4, <3>3 DEF Dealt, Judged, x
  <2>4. CASE i = at[p].item
    <3>1. x = Item(p)
      BY <1>3, <2>4 DEF Item, Here
    <3> HIDE DEF x
    <3>2. \/ x.case = "unsourced" \/ x.key \in queued'
          \/ \E v \in verdicts' : v[1] = x.key
          \/ lead'[x.raw.key] # None
      BY <3>1 DEF DealtNow
    <3> QED BY <1>4, <3>2 DEF Dealt, Judged, x
  <2>5. CASE ~Passed(at[p], i) /\ i # at[p].item
    <3>1. /\ Here(p)[i].lane = Lanes[at[p].lane]
          /\ c.item = 0 \/ i < c.item
      BY <1>2, <1>3, <1>4, <2>2, <2>5 DEF Passed
    <3>2. ~(i < at[p].item)
      BY <1>2, <1>4, <2>5, <3>1 DEF Passed, ItemPcs
    <3>3. i >= at[p].item + 1 /\ at[p].item + 1 \in Nat
      BY <1>1, <2>1, <2>5, <3>2
    <3>4. NextItem(p, at[p].item + 1) \in 0..Len(Here(p))
      BY <1>1, <3>3, NextItemIs
    <3>5. c.item # 0 /\ c.item <= i
      BY <1>1, <1>3, <2>1, <3>1, <3>3, NextItemIs
    <3>6. c.item \in Nat
      BY <1>1, <1>3, <3>4
    <3> QED BY <2>1, <3>1, <3>5, <3>6
  <2> QED BY <2>3, <2>4, <2>5
<1> QED BY <1>4, <1>5 DEF Passes

(* So the next place is sound.                                             *)
LEMMA OnwardSound ==
  ASSUME TypesInv, Grows, NEW p \in Procs, at[p].pc \in ItemPcs, at[p].item # 0,
         DealtNow(p), NEW c, Onward(p, c)
  PROVE  Sound(c)'
<1>1. Passes(c)'
  BY OnwardPasses
<1>2. /\ at[p].run \in Runs /\ at[p].item \in Nat
      /\ Len(Here(p)) \in Nat /\ LogInv /\ Placed(at[p])
  <2>1. at[p].pc # "idle"
    BY DEF ItemPcs
  <2> QED BY <2>1, WorkerIs DEF TypesInv, Sound
<1>3. at[p].item + 1 \in Nat
  BY <1>2
<1>4. c.item \in 0..Len(handoff[c.run])
  BY <1>2, <1>3, NextItemIs DEF Onward, Here
<1>5. c.pc = "item" /\ c.run = at[p].run /\ c.lane = at[p].lane /\ c.message = 0
      /\ c.researched = at[p].researched /\ handoff' = handoff
  BY DEF Onward, Grows
<1>6. Placed(c)'
  BY <1>2, <1>4, <1>5 DEF Placed, ItemPcs
<1>7. Decides(c)'
  BY <1>5 DEF Decides
<1> QED BY <1>1, <1>6, <1>7 DEF Sound

(* The log when one verdict at most is added.                              *)
Verdict(p) ==
  \/ UNCHANGED verdicts
  \/ \E w \in {"COMMITTED", "HELD", "REJECTED", "EXCLUDED"} :
       /\ verdicts' = verdicts \union {<<Item(p).key, w>>}
       /\ (w = "EXCLUDED") \/ Undecided(Item(p).key)
       /\ w = "COMMITTED" => \A m \in 1..Considered(Item(p)) : Written(Item(p), m)

(* A verdict on a candidate without one contradicts none.                  *)
LEMMA VerdictOnce ==
  ASSUME OneVerdict, NEW p, Verdict(p)
  PROVE  OneVerdict'
<1> DEFINE k == Item(p).key
<1>1. CASE UNCHANGED verdicts
  BY <1>1 DEF OneVerdict
<1>2. CASE ~UNCHANGED verdicts
  <2>1. PICK w \in {"COMMITTED", "HELD", "REJECTED", "EXCLUDED"} :
          /\ verdicts' = verdicts \union {<<k, w>>}
          /\ (w = "EXCLUDED") \/ Undecided(k)
    BY <1>2 DEF Verdict
  <2> HIDE DEF k
  <2> DEFINE new == <<k, w>>
  <2>2. new[1] = k /\ new[2] = w
    OBVIOUS
  <2>3. verdicts' = verdicts \union {new}
    BY <2>1
  <2> HIDE DEF new
  <2>4. ASSUME NEW v \in verdicts, v[1] = k, "EXCLUDED" \notin {v[2], w}
        PROVE  FALSE
    BY <2>1, <2>4 DEF Undecided
  <2>5. ASSUME NEW u \in verdicts', NEW v \in verdicts', u[1] = v[1],
               "EXCLUDED" \notin {u[2], v[2]}
        PROVE  u = v
    BY <2>2, <2>3, <2>4, <2>5 DEF OneVerdict
  <2> QED BY <2>5 DEF OneVerdict
<1> QED BY <1>1, <1>2

(* A COMMITTED verdict finds its messages written.                         *)
LEMMA VerdictWritten ==
  ASSUME TypesInv, MessagesOnce, Grows, UNCHANGED outreach, NEW p \in Procs,
         at[p].pc \in ItemPcs, at[p].item # 0, Verdict(p)
  PROVE  MessagesOnce'
<1> DEFINE k == Item(p).key
<1>1. handoff' = handoff /\ outreach' = outreach
  BY DEF Grows
<1>2. \A o, q \in outreach' : o.key = q.key => o = q
  BY <1>1 DEF MessagesOnce
<1>3. ASSUME NEW v \in verdicts', v[2] = "COMMITTED"
      PROVE  \E r \in Runs : \E i \in DOMAIN handoff[r] :
               /\ handoff[r][i].key = v[1]
               /\ \A m \in 1..Considered(handoff[r][i]) :
                    \E o \in outreach : o.key = MessageKey(handoff[r][i], m)
  <2>1. CASE v \in verdicts
    BY <1>3, <2>1 DEF MessagesOnce
  <2>2. CASE v \notin verdicts
    <3>1. v[1] = k /\ \A m \in 1..Considered(Item(p)) : Written(Item(p), m)
      BY <1>3, <2>2 DEF Verdict
    <3>2. at[p].run \in Runs /\ at[p].item \in DOMAIN handoff[at[p].run]
      <4>1. at[p].pc # "idle"
        BY DEF ItemPcs
      <4> QED BY <4>1, WorkerIs, ItemIs DEF Here
    <3>3. Item(p) = handoff[at[p].run][at[p].item]
      BY DEF Item, Here
    <3> HIDE DEF k
    <3>4. \A m \in 1..Considered(handoff[at[p].run][at[p].item]) :
            \E o \in outreach : o.key = MessageKey(handoff[at[p].run][at[p].item], m)
      BY <3>1, <3>3 DEF Written
    <3>5. handoff[at[p].run][at[p].item].key = v[1]
      BY <3>1, <3>3 DEF k
    <3> QED BY <3>2, <3>4, <3>5
  <2> QED BY <2>1, <2>2
<1> QED BY <1>1, <1>2, <1>3 DEF MessagesOnce

(* The candidate at hand is done with, and the process goes on to the next *)
(* one.                                                                    *)
LEMMA EndsStep ==
  ASSUME CycleInv, RowsInv', LeadsStay, NEW p \in Procs, at[p].pc \in ItemPcs, at[p].item # 0,
         NEW c, Onward(p, c), Verdict(p), queued \subseteq queued', DealtNow(p),
         UNCHANGED <<outreach, completed, failed, lock, active, handoff, paused, clock, crashes>>
  PROVE  CycleInv'
<1>1. TypesInv /\ at[p].pc # "idle"
  BY DEF CycleInv, TypesInv, ItemPcs
<1>2. verdicts \subseteq verdicts'
  BY DEF Verdict
<1>3. Grows
  BY <1>2 DEF Grows
<1>4. LogInv'
  <2>1. \A v \in verdicts' : v[2] \in {"COMMITTED", "HELD", "REJECTED", "EXCLUDED"}
    BY <1>1 DEF Verdict, TypesInv, LogInv
  <2> QED BY <1>1, <2>1 DEF TypesInv, LogInv
<1>5. c \in Callers /\ at' = [at EXCEPT ![p] = c] /\ c.pc = "item" /\ c.lane = at[p].lane
  BY DEF Onward, Moved
<1>6. Sound(c)' /\ lock' = p
  BY <1>1, <1>3, OnwardSound, WorkerIs
<1>7. LockInv' /\ WorkInv'
  BY <1>1, <1>5, <1>6, Moves DEF TypesInv
<1>8. ActiveInv'
  BY <1>5, ActiveStays DEF CycleInv
<1>9. WholeInv'
  BY <1>1, <1>3, WholeStays DEF CycleInv, TypesInv
<1>10. OneVerdict' /\ MessagesOnce'
  BY <1>1, <1>3, VerdictOnce, VerdictWritten DEF CycleInv
<1> QED BY <1>4, <1>7, <1>8, <1>9, <1>10 DEF CycleInv

(* The process goes on with the candidate at hand.                         *)
Goes(p, c) ==
  /\ at[p].pc \in ItemPcs /\ at[p].item # 0
  /\ Stays(p, c) /\ c.pc \in {"judge", "assign", "work", "messages"}
  /\ c.researched <= ResearchCap /\ (c.pc = "messages" \/ c.message = 0)
  /\ Undecided(Item(p).key)
  /\ (c.pc # "judge") \/ c.taken => lead'[Item(p).raw.key] # None
  /\ c.pc = "messages" =>
       /\ c.message <= Considered(Item(p))
       /\ \A m \in 1..c.message : \E o \in outreach' : o.key = MessageKey(Item(p), m)
GoesRecords ==
  /\ UNCHANGED outreach \/ \E o : ~Committed(o.key) /\ outreach' = outreach \union {o}
  /\ UNCHANGED <<verdicts, queued, completed, failed, lock, active, handoff, paused, clock,
                 crashes>>

(* The place a process goes to with its candidate is sound.                *)
LEMMA GoesSound ==
  ASSUME TypesInv, Grows, verdicts' = verdicts, NEW p \in Procs, NEW c, Goes(p, c)
  PROVE  Sound(c)'
<1>1. at[p].pc # "idle" /\ at[p].pc \in ItemPcs
  BY DEF ItemPcs, Goes
<1>2. c \in Callers /\ c.lane = at[p].lane /\ c.run = at[p].run /\ c.item = at[p].item
  BY DEF Goes, Stays, Moved
<1>3. Sound(at[p]) /\ at[p].run \in Runs /\ LogInv
  BY <1>1, WorkerIs DEF TypesInv
<1>4. Item(p) = handoff[c.run][c.item] /\ handoff' = handoff
  <2>1. Item(p) = handoff[c.run][c.item]
    BY <1>2, Zenon DEF Item, Here
  <2>2. handoff' = handoff
    BY SMTT(40) DEF Grows
  <2> QED BY <2>1, <2>2
<1>5. Placed(c)'
  BY <1>2, <1>3, <1>4 DEF Goes, Sound, Placed, ItemPcs
<1>6. Decides(c)'
  <2> DEFINE x == Item(p)
  <2>1. \A v \in verdicts' : v[1] = x.key => v[2] = "EXCLUDED"
    BY DEF Goes, Undecided
  <2>2. /\ (c.pc # "judge") \/ c.taken => lead'[x.raw.key] # None
        /\ c.pc = "messages" =>
             /\ c.message <= Considered(x)
             /\ \A m \in 1..c.message : \E o \in outreach' : o.key = MessageKey(x, m)
    BY DEF Goes
  <2>3. x = handoff'[c.run][c.item]
    BY <1>4
  <2> HIDE DEF x
  <2> QED BY <2>1, <2>2, <2>3 DEF Decides, Undecided, Written
<1>7. Passes(c)'
  <2>1. ASSUME NEW i \in DOMAIN handoff[c.run], Passed(c, i)'
        PROVE  Dealt(handoff[c.run][i])'
    <3> DEFINE x == handoff[c.run][i]
    <3>1. Passed(c, i)
      BY <1>4, <2>1 DEF Passed
    <3>2. Passed(at[p], i)
      BY <1>1, <1>2, <3>1 DEF Passed, ItemPcs
    <3>3. Dealt(x)
      BY <1>2, <1>3, <3>2 DEF Sound, Passes
    <3>4. x.raw.key \in Keys
      <4>1. IsCandidate(x)
        BY <1>2, <1>3, HandoffIs
      <4> QED BY <4>1, DiscoveryAssumption DEF IsCandidate, DiscoveryAssumption
    <3> HIDE DEF x
    <3>5. \/ x.case = "unsourced" \/ x.key \in queued'
          \/ \E v \in verdicts' : v[1] = x.key
          \/ lead'[x.raw.key] # None
      BY <3>3, <3>4 DEF Grows, LeadsStay, Dealt, Judged
    <3> QED BY <1>4, <3>5 DEF Dealt, Judged, x
  <2> QED BY <1>4, <2>1 DEF Passes
<1> QED BY <1>5, <1>6, <1>7 DEF Sound

(* So the step keeps the invariant.                                        *)
LEMMA GoesStep ==
  ASSUME CycleInv, RowsInv', LeadsStay, NEW p \in Procs, NEW c, Goes(p, c), GoesRecords
  PROVE  CycleInv'
<1>1. TypesInv /\ at[p].pc # "idle"
  BY DEF CycleInv, TypesInv, ItemPcs, Goes
<1>2. Grows /\ verdicts' = verdicts
  BY DEF Grows, GoesRecords
<1>3. LogInv'
  BY <1>1 DEF TypesInv, LogInv, GoesRecords
<1>4. c \in Callers /\ at' = [at EXCEPT ![p] = c] /\ c.lane = at[p].lane
      /\ c.pc \in {"judge", "assign", "work", "messages"}
  BY DEF Goes, Stays, Moved
<1>5. lock' = p
  BY <1>1, WorkerIs DEF GoesRecords
<1>6. LockInv' /\ WorkInv'
  <2>1. Sound(c)'
    BY <1>1, <1>2, GoesSound
  <2> QED BY <1>1, <1>4, <1>5, <2>1, Moves DEF TypesInv
<1>7. ActiveInv'
  <2>1. c.pc \in {"item", "judge", "assign", "work", "messages"}
    BY <1>4
  <2>2. active' = active /\ crashes' = crashes
    BY DEF GoesRecords
  <2> QED BY <1>4, <2>1, <2>2, ActiveStays DEF CycleInv
<1>8. WholeInv'
  <2>1. completed' = completed
    BY DEF GoesRecords
  <2> QED BY <1>1, <1>2, <2>1, WholeStays DEF CycleInv, TypesInv
<1>9. OneVerdict'
  BY <1>2 DEF CycleInv, OneVerdict
<1>10. MessagesOnce'
  <2>1. MessagesOnce /\ outreach \subseteq outreach' /\ verdicts' = verdicts /\ handoff' = handoff
    BY <1>2 DEF CycleInv, Grows
  <2>2. \A o, q \in outreach' : o.key = q.key => o = q
    BY <2>1 DEF MessagesOnce, Committed, GoesRecords
  <2>3. \A v \in verdicts' : v[2] = "COMMITTED" =>
          \E r \in Runs : \E i \in DOMAIN handoff[r] :
            /\ handoff[r][i].key = v[1]
            /\ \A m \in 1..Considered(handoff[r][i]) :
                 \E o \in outreach' : o.key = MessageKey(handoff[r][i], m)
    <3>1. ASSUME NEW v \in verdicts, v[2] = "COMMITTED"
          PROVE  \E r \in Runs : \E i \in DOMAIN handoff[r] :
                   /\ handoff[r][i].key = v[1]
                   /\ \A m \in 1..Considered(handoff[r][i]) :
                        \E o \in outreach' : o.key = MessageKey(handoff[r][i], m)
      <4>1. PICK r \in Runs : \E i \in DOMAIN handoff[r] :
              /\ handoff[r][i].key = v[1]
              /\ \A m \in 1..Considered(handoff[r][i]) :
                   \E o \in outreach : o.key = MessageKey(handoff[r][i], m)
        BY <2>1, <3>1, Zenon DEF MessagesOnce
      <4>2. PICK i \in DOMAIN handoff[r] :
              /\ handoff[r][i].key = v[1]
              /\ \A m \in 1..Considered(handoff[r][i]) :
                   \E o \in outreach : o.key = MessageKey(handoff[r][i], m)
        BY <4>1, Zenon
      <4>3. \A m \in 1..Considered(handoff[r][i]) :
              \E o \in outreach' : o.key = MessageKey(handoff[r][i], m)
        BY <2>1, <4>2, Zenon
      <4> QED BY <4>2, <4>3, Zenon
    <3> QED BY <2>1, <3>1, Zenon
  <2>4. \A v \in verdicts' : v[2] = "COMMITTED" =>
          \E r \in Runs : \E i \in DOMAIN handoff'[r] :
            /\ handoff'[r][i].key = v[1]
            /\ \A m \in 1..Considered(handoff'[r][i]) :
                 \E o \in outreach' : o.key = MessageKey(handoff'[r][i], m)
    <3>1. verdicts' = verdicts /\ handoff' = handoff
      BY <2>1
    <3> QED BY <2>3, <3>1
  <2> QED BY <2>2, <2>4, Zenon DEF MessagesOnce
<1> QED BY <1>3, <1>6, <1>7, <1>8, <1>9, <1>10 DEF CycleInv

(* The two properties of the log speak of nothing else.                    *)
LEMMA RecordsSame ==
  ASSUME OneVerdict, MessagesOnce, verdicts' = verdicts, outreach' = outreach, handoff' = handoff
  PROVE  OneVerdict' /\ MessagesOnce'
<1>1. OneVerdict'
  BY DEF OneVerdict
<1>2. \A o, q \in outreach' : o.key = q.key => o = q
  BY DEF MessagesOnce
<1>3. \A v \in verdicts : v[2] = "COMMITTED" =>
        \E r \in Runs : \E i \in DOMAIN handoff[r] :
          /\ handoff[r][i].key = v[1]
          /\ \A m \in 1..Considered(handoff[r][i]) :
               \E o \in outreach : o.key = MessageKey(handoff[r][i], m)
  BY DEF MessagesOnce
<1>4. \A v \in verdicts' : v[2] = "COMMITTED" =>
        \E r \in Runs : \E i \in DOMAIN handoff'[r] :
          /\ handoff'[r][i].key = v[1]
          /\ \A m \in 1..Considered(handoff'[r][i]) :
               \E o \in outreach' : o.key = MessageKey(handoff'[r][i], m)
  BY <1>3, Zenon
<1> QED BY <1>1, <1>2, <1>4, Zenon DEF MessagesOnce

(* The cycle ends with an exception.                                       *)
LEMMA RaisesStep ==
  ASSUME CycleInv, NEW p \in Procs, at[p].pc # "idle", Raises(p),
         UNCHANGED <<handoff, paused, clock, crashes>>
  PROVE  CycleInv'
<1>1. TypesInv /\ at[p].run \in Runs
  BY WorkerIs DEF CycleInv, TypesInv
<1>2. RowsInv'
  BY <1>1 DEF TypesInv, RowsInv, Raises, filed
<1>3. LogInv'
  BY <1>1 DEF TypesInv, LogInv, Raises
<1>4. LockInv' /\ WorkInv'
  <2>1. at' = [at EXCEPT ![p] = Idle]
    BY DEF Raises
  <2> QED BY <1>1, <2>1, IdleIs, Moves DEF TypesInv
<1>5. ActiveInv'
  BY DEF ActiveInv, Raises
<1>6. WholeInv'
  <2>1. Grows /\ completed' = completed
    BY DEF Grows, Raises, LeadsStay, filed
  <2> QED BY <1>1, <2>1, WholeStays DEF CycleInv, TypesInv
<1>7. OneVerdict' /\ MessagesOnce'
  <2>1. verdicts' = verdicts /\ outreach' = outreach /\ handoff' = handoff
    BY DEF Raises
  <2>2. OneVerdict /\ MessagesOnce
    BY DEF CycleInv
  <2> QED BY <2>1, <2>2, RecordsSame
<1> QED BY <1>2, <1>3, <1>4, <1>5, <1>6, <1>7 DEF CycleInv

-----------------------------------------------------------------------------
(* The steps on a candidate. *)

(* Take keeps the invariant.                                               *)
LEMMA TakeStep ==
  ASSUME CycleInv, NEW p \in Procs, Take(p)
  PROVE  CycleInv'
<1>1. TypesInv
  BY DEF CycleInv, TypesInv
<1>2. /\ at[p].pc = "item" /\ at[p].item # 0 /\ UNCHANGED <<handoff, paused, clock, crashes>>
      /\ TakeEnds(p) \/ Raises(p) \/ TakeStores(p)
  BY <1>1, TakeIs
<1>3. at[p].pc \in ItemPcs /\ at[p].pc # "idle"
  BY <1>2 DEF ItemPcs
<1>4. CASE TakeEnds(p)
  <2>1. PICK c : Onward(p, c)
    BY <1>4 DEF TakeEnds
  <2>2. RowsInv' /\ LeadsStay
    BY <1>1, <1>4 DEF TakeEnds, TypesInv, RowsInv, LeadsStay, filed
  <2>3. Verdict(p)
    BY <1>4 DEF TakeEnds, Verdict
  <2>4. DealtNow(p)
    <3>1. <<Item(p).key, "EXCLUDED">>[1] = Item(p).key
      OBVIOUS
    <3> QED BY <1>4, <3>1 DEF TakeEnds, DealtNow, Judged
  <2>5. UNCHANGED <<outreach, completed, failed, lock, active, queued>>
    BY <1>4 DEF TakeEnds
  <2> QED BY <1>2, <1>3, <2>1, <2>2, <2>3, <2>4, <2>5, EndsStep
<1>5. CASE Raises(p)
  BY <1>2, <1>3, <1>5, RaisesStep
<1>6. CASE TakeStores(p)
  <2>1. PICK c : /\ Stays(p, c) /\ c.pc = "judge" /\ c.researched = at[p].researched
                 /\ c.message = at[p].message
                 /\ c.taken => lead'[Item(p).raw.key] # None
    BY <1>6 DEF TakeStores
  <2>2. RowsInv' /\ LeadsStay
    <3>1. Item(p).raw \in Imports
      BY <1>1, <1>2, <1>3, ItemIs DEF IsCandidate
    <3>2. IsRecord(Record(Item(p)))
      BY <1>1, <3>1, RecordIs DEF TypesInv
    <3> QED BY <1>1, <1>6, <3>2, StoreRows DEF TakeStores, TypesInv
  <2>3. Undecided(Item(p).key)
    BY <1>6 DEF TakeStores, Judged, Undecided
  <2>4. c.researched <= ResearchCap /\ c.message = 0
    BY <1>1, <1>2, <1>3, <2>1, WorkerIs DEF Sound, Placed
  <2>5. UNCHANGED <<verdicts, queued, completed, failed, lock, active, outreach>>
    BY <1>6 DEF TakeStores
  <2>6. Goes(p, c) /\ GoesRecords
    BY <1>2, <1>3, <2>1, <2>3, <2>4, <2>5 DEF Goes, GoesRecords
  <2> QED BY <2>2, <2>6, GoesStep
<1> QED BY <1>2, <1>4, <1>5, <1>6

(* Judge keeps the invariant.                                              *)
LEMMA JudgeStep ==
  ASSUME CycleInv, NEW p \in Procs, Judge(p)
  PROVE  CycleInv'
<1>1. TypesInv
  BY DEF CycleInv, TypesInv
<1>2. /\ at[p].pc = "judge" /\ UNCHANGED <<handoff, paused, clock, crashes>>
      /\ UNCHANGED <<filed, outreach, completed, failed, lock, active>>
      /\ JudgeEnds(p) \/ JudgeGoes(p)
  BY <1>1, JudgeIs
<1>3. /\ at[p].pc \in ItemPcs /\ at[p].pc # "idle"
      /\ at[p].pc \in {"judge", "assign", "work", "messages"}
  BY <1>2 DEF ItemPcs
<1>4. /\ at[p].item # 0 /\ Undecided(Item(p).key)
      /\ at[p].taken => lead[Item(p).raw.key] # None
  BY <1>1, <1>3, AtWork
<1>5. RowsInv' /\ LeadsStay
  BY <1>1, <1>2 DEF TypesInv, RowsInv, LeadsStay, filed
<1>6. CASE JudgeEnds(p)
  <2>1. PICK c : Onward(p, c)
    BY <1>6 DEF JudgeEnds
  <2>2. Verdict(p) /\ queued \subseteq queued'
    BY <1>4, <1>6 DEF JudgeEnds, Verdict
  <2>3. DealtNow(p)
    <3>1. /\ <<Item(p).key, "REJECTED">>[1] = Item(p).key
          /\ <<Item(p).key, "HELD">>[1] = Item(p).key
      OBVIOUS
    <3> QED BY <1>6, <3>1 DEF JudgeEnds, DealtNow
  <2> QED BY <1>2, <1>3, <1>4, <1>5, <2>1, <2>2, <2>3, EndsStep
<1>7. CASE JudgeGoes(p)
  <2>1. PICK c : /\ Stays(p, c) /\ c.pc = "assign" /\ c.researched = at[p].researched + 1
                 /\ c.message = at[p].message /\ at[p].researched < ResearchCap
    BY <1>7 DEF JudgeGoes
  <2>2. at[p].researched \in Nat /\ ResearchCap \in Nat /\ at[p].message = 0
    BY <1>1, <1>2, <1>3, WorkerIs, CycleAssumption DEF Sound, Placed, Callers, CycleAssumption
  <2>3. c.researched <= ResearchCap
    BY <2>1, <2>2
  <2>4. lead'[Item(p).raw.key] # None /\ UNCHANGED <<verdicts, queued>>
    BY <1>2, <1>4, <1>7 DEF JudgeGoes, filed
  <2>5. Goes(p, c) /\ GoesRecords
    BY <1>2, <1>3, <1>4, <2>1, <2>2, <2>3, <2>4 DEF Goes, GoesRecords
  <2> QED BY <1>5, <2>5, GoesStep
<1> QED BY <1>2, <1>6, <1>7

(* Assign keeps the invariant.                                             *)
LEMMA AssignStep ==
  ASSUME CycleInv, NEW p \in Procs, Assign(p)
  PROVE  CycleInv'
<1>1. TypesInv
  BY DEF CycleInv, TypesInv
<1>2. /\ at[p].pc = "assign" /\ UNCHANGED <<handoff, paused, clock, crashes>>
      /\ AssignEnds(p) \/ Raises(p) \/ AssignGoes(p)
  BY <1>1, AssignIs
<1>3. /\ at[p].pc \in ItemPcs /\ at[p].pc # "idle"
      /\ at[p].pc \in {"judge", "assign", "work", "messages"}
  BY <1>2 DEF ItemPcs
<1>4. /\ at[p].item # 0 /\ Undecided(Item(p).key) /\ lead[Item(p).raw.key] # None
  BY <1>1, <1>2, <1>3, AtWork
<1>5. CASE AssignEnds(p)
  <2>1. PICK c : Onward(p, c)
    BY <1>5 DEF AssignEnds
  <2>2. RowsInv' /\ LeadsStay
    BY <1>1, <1>5 DEF AssignEnds, TypesInv, RowsInv, LeadsStay, filed
  <2>3. Verdict(p)
    BY <1>4, <1>5 DEF AssignEnds, Verdict
  <2>4. DealtNow(p)
    BY <1>4, <1>5 DEF AssignEnds, DealtNow, filed
  <2>5. UNCHANGED <<outreach, completed, failed, lock, active, queued>>
    BY <1>5 DEF AssignEnds
  <2> QED BY <1>2, <1>3, <1>4, <2>1, <2>2, <2>3, <2>4, <2>5, EndsStep
<1>6. CASE Raises(p)
  BY <1>2, <1>3, <1>6, RaisesStep
<1>7. CASE AssignGoes(p)
  <2>1. PICK c : /\ Stays(p, c) /\ c.pc = "work" /\ c.researched = at[p].researched
                 /\ c.message = at[p].message
    BY <1>7 DEF AssignGoes
  <2>2. UNCHANGED <<verdicts, queued, completed, failed, lock, active, outreach, filed>>
    BY <1>7 DEF AssignGoes
  <2>3. RowsInv' /\ LeadsStay /\ lead'[Item(p).raw.key] # None
    BY <1>1, <1>4, <2>2 DEF TypesInv, RowsInv, LeadsStay, filed
  <2>4. c.researched <= ResearchCap /\ c.message = 0
    BY <1>1, <1>2, <1>3, <2>1, WorkerIs DEF Sound, Placed
  <2>5. Goes(p, c) /\ GoesRecords
    BY <1>2, <1>3, <1>4, <2>1, <2>2, <2>3, <2>4 DEF Goes, GoesRecords
  <2> QED BY <2>3, <2>5, GoesStep
<1> QED BY <1>2, <1>5, <1>6, <1>7

(* Work keeps the invariant.                                               *)
LEMMA WorkStep ==
  ASSUME CycleInv, NEW p \in Procs, Work(p)
  PROVE  CycleInv'
<1>1. TypesInv
  BY DEF CycleInv, TypesInv
<1>2. /\ at[p].pc = "work" /\ UNCHANGED <<handoff, paused, clock, crashes>>
      /\ WorkEnds(p) \/ Raises(p) \/ WorkGoes(p)
  BY <1>1, WorkIs
<1>3. /\ at[p].pc \in ItemPcs /\ at[p].pc # "idle"
      /\ at[p].pc \in {"judge", "assign", "work", "messages"}
  BY <1>2 DEF ItemPcs
<1>4. /\ at[p].item # 0 /\ Undecided(Item(p).key) /\ lead[Item(p).raw.key] # None
  BY <1>1, <1>2, <1>3, AtWork
<1>5. Item(p).raw.key \in Keys
  BY <1>1, <1>3, <1>4, ItemIs
<1>6. CASE WorkEnds(p)
  <2>1. PICK c : Onward(p, c)
    BY <1>6 DEF WorkEnds
  <2>2. RowsInv' /\ LeadsStay
    <3>1. CASE UNCHANGED lead
      BY <1>1, <1>6, <3>1 DEF WorkEnds, TypesInv, RowsInv, LeadsStay
    <3>2. CASE \E s \in {"REJECTED", "DISCOVERED"} :
                 lead' = [lead EXCEPT ![Item(p).raw.key].status = s]
      <4>1. PICK s \in {"REJECTED", "DISCOVERED"} :
              lead' = [lead EXCEPT ![Item(p).raw.key].status = s]
        BY <3>2
      <4>2. UNCHANGED cand
        BY <1>6 DEF WorkEnds
      <4> QED BY <1>1, <1>4, <1>5, <4>1, <4>2, StatusRows DEF TypesInv
    <3> QED BY <1>6, <3>1, <3>2 DEF WorkEnds
  <2>3. Verdict(p)
    BY <1>4, <1>6 DEF WorkEnds, Verdict
  <2>4. DealtNow(p)
    BY <1>4, <1>5, <2>2 DEF LeadsStay, DealtNow
  <2>5. UNCHANGED <<outreach, completed, failed, lock, active, queued>>
    BY <1>6 DEF WorkEnds
  <2> QED BY <1>2, <1>3, <1>4, <2>1, <2>2, <2>3, <2>4, <2>5, EndsStep
<1>7. CASE Raises(p)
  BY <1>2, <1>3, <1>7, RaisesStep
<1>8. CASE WorkGoes(p)
  <2>1. PICK c : /\ Stays(p, c) /\ c.pc = "messages" /\ c.researched = at[p].researched
                 /\ c.message = at[p].message
    BY <1>8 DEF WorkGoes
  <2>2. UNCHANGED <<verdicts, queued, completed, failed, lock, active, outreach, filed>>
    BY <1>8 DEF WorkGoes
  <2>3. RowsInv' /\ LeadsStay /\ lead'[Item(p).raw.key] # None
    BY <1>1, <1>4, <2>2 DEF TypesInv, RowsInv, LeadsStay, filed
  <2>4. c.researched <= ResearchCap /\ c.message = 0
    BY <1>1, <1>2, <1>3, <2>1, WorkerIs DEF Sound, Placed
  <2>5. Considered(Item(p)) \in Nat
    BY <1>1, <1>3, <1>4, ItemIs DEF IsCandidate
  <2>6. /\ c.message <= Considered(Item(p))
        /\ \A m \in 1..c.message : \E o \in outreach' : o.key = MessageKey(Item(p), m)
    BY <2>4, <2>5
  <2>7. Goes(p, c) /\ GoesRecords
    BY <1>2, <1>3, <1>4, <2>1, <2>2, <2>3, <2>4, <2>6 DEF Goes, GoesRecords
  <2> QED BY <2>3, <2>7, GoesStep
<1> QED BY <1>2, <1>6, <1>7, <1>8

(* Message keeps the invariant.                                            *)
LEMMA MessageStep ==
  ASSUME CycleInv, NEW p \in Procs, Message(p)
  PROVE  CycleInv'
<1>1. TypesInv
  BY DEF CycleInv, TypesInv
<1>2. /\ at[p].pc = "messages" /\ UNCHANGED <<handoff, paused, clock, crashes>>
      /\ UNCHANGED <<filed, verdicts, queued, completed>>
      /\ MessageEnds(p) \/ Raises(p) \/ MessageGoes(p)
  BY <1>1, MessageIs
<1>3. /\ at[p].pc \in ItemPcs /\ at[p].pc # "idle"
      /\ at[p].pc \in {"judge", "assign", "work", "messages"}
  BY <1>2 DEF ItemPcs
<1>4. /\ at[p].item # 0 /\ Undecided(Item(p).key) /\ lead[Item(p).raw.key] # None
      /\ \A m \in 1..at[p].message : Written(Item(p), m)
  BY <1>1, <1>2, <1>3, AtWork
<1>5. RowsInv' /\ LeadsStay /\ lead'[Item(p).raw.key] # None
  BY <1>1, <1>2, <1>4 DEF TypesInv, RowsInv, LeadsStay, filed
<1>6. CASE MessageEnds(p)
  <2>1. PICK c : Onward(p, c)
    BY <1>6 DEF MessageEnds
  <2>2. UNCHANGED <<outreach, failed, lock, active>>
    BY <1>6 DEF MessageEnds
  <2>3. Verdict(p) /\ DealtNow(p)
    BY <1>2, <1>5 DEF Verdict, DealtNow
  <2> QED BY <1>2, <1>3, <1>4, <1>5, <2>1, <2>2, <2>3, EndsStep
<1>7. CASE MessageGoes(p)
  <2> DEFINE key == MessageKey(Item(p), at[p].message + 1)
  <2>1. PICK c : /\ Stays(p, c) /\ c.pc = "messages" /\ c.researched = at[p].researched
                 /\ c.message = at[p].message + 1 /\ c.message <= Considered(Item(p))
    BY <1>7 DEF MessageGoes
  <2>2. \/ UNCHANGED outreach /\ Committed(key)
        \/ ~Committed(key) /\ \E o : o.key = key /\ outreach' = outreach \union {o}
    BY <1>7 DEF MessageGoes
  <2>3. c.researched <= ResearchCap
    BY <1>1, <1>2, <1>3, <2>1, WorkerIs DEF Sound, Placed
  <2> HIDE DEF key
  <2>4. outreach \subseteq outreach' /\ \E o \in outreach' : o.key = key
    BY <2>2 DEF Committed
  <2>5. UNCHANGED outreach \/ \E o : ~Committed(o.key) /\ outreach' = outreach \union {o}
    BY <2>2
  <2>6. \A m \in 1..c.message : \E o \in outreach' : o.key = MessageKey(Item(p), m)
    <3>1. at[p].message \in Nat
      BY <1>1, <1>3, WorkerIs DEF Callers
    <3>2. \A m \in 1..c.message : m \in 1..at[p].message \/ m = at[p].message + 1
      BY <2>1, <3>1
    <3>3. \A m \in 1..at[p].message : \E o \in outreach' : o.key = MessageKey(Item(p), m)
      BY <1>4, <2>4 DEF Written
    <3>4. \E o \in outreach' : o.key = MessageKey(Item(p), at[p].message + 1)
      BY <2>4 DEF key
    <3> QED BY <3>2, <3>3, <3>4
  <2>7. UNCHANGED <<failed, lock, active>>
    BY <1>7 DEF MessageGoes
  <2>8. Goes(p, c) /\ GoesRecords
    BY <1>2, <1>3, <1>4, <1>5, <2>1, <2>3, <2>5, <2>6, <2>7 DEF Goes, GoesRecords
  <2> QED BY <1>5, <2>8, GoesStep
<1>8. CASE Raises(p)
  BY <1>2, <1>3, <1>8, RaisesStep
<1> QED BY <1>2, <1>6, <1>7, <1>8

(* Commit keeps the invariant.                                             *)
LEMMA CommitStep ==
  ASSUME CycleInv, NEW p \in Procs, Commit(p)
  PROVE  CycleInv'
<1>1. TypesInv
  BY DEF CycleInv, TypesInv
<1>2. /\ at[p].pc = "messages" /\ UNCHANGED <<handoff, paused, clock, crashes>>
      /\ at[p].message = Considered(Item(p))
      /\ UNCHANGED <<cand, queued, outreach, completed, failed, lock, active>>
      /\ lead' = [lead EXCEPT ![Item(p).raw.key].status = "REVIEW_PENDING"]
      /\ verdicts' = verdicts \union {<<Item(p).key, "COMMITTED">>}
      /\ \E c : Onward(p, c)
  BY <1>1, CommitIs
<1>3. /\ at[p].pc \in ItemPcs /\ at[p].pc # "idle"
      /\ at[p].pc \in {"judge", "assign", "work", "messages"}
  BY <1>2 DEF ItemPcs
<1>4. /\ at[p].item # 0 /\ Undecided(Item(p).key) /\ lead[Item(p).raw.key] # None
      /\ \A m \in 1..Considered(Item(p)) : Written(Item(p), m)
  BY <1>1, <1>2, <1>3, AtWork
<1>5. Item(p).raw.key \in Keys
  BY <1>1, <1>3, <1>4, ItemIs
<1>6. RowsInv' /\ LeadsStay
  BY <1>1, <1>2, <1>4, <1>5, StatusRows DEF TypesInv
<1>7. PICK c : Onward(p, c)
  BY <1>2
<1>8. Verdict(p)
  BY <1>2, <1>4 DEF Verdict
<1>9. DealtNow(p)
  BY <1>4, <1>5, <1>6 DEF LeadsStay, DealtNow
<1> QED BY <1>2, <1>3, <1>4, <1>6, <1>7, <1>8, <1>9, EndsStep

-----------------------------------------------------------------------------
(* The steps of a cycle between candidates. *)

(* What leaves the records of a run alone leaves their invariants.         *)
LEMMA LogStays ==
  ASSUME CycleInv, UNCHANGED <<filed, records, handoff>>
  PROVE  RowsInv' /\ Grows /\ WholeInv' /\ OneVerdict' /\ MessagesOnce'
<1>1. /\ RowsInv /\ LogInv /\ WholeInv /\ OneVerdict /\ MessagesOnce
      /\ UNCHANGED <<cand, lead, verdicts, queued, outreach, completed, handoff>>
  BY DEF CycleInv, filed, records
<1>2. RowsInv' /\ Grows
  BY <1>1 DEF RowsInv, Grows, LeadsStay
<1>3. WholeInv'
  BY <1>1, <1>2, WholeStays
<1>4. OneVerdict' /\ MessagesOnce'
  BY <1>1, RecordsSame
<1> QED BY <1>2, <1>3, <1>4

(* Where no process moves.                                                 *)
LEMMA StaysStep ==
  ASSUME CycleInv, UNCHANGED <<filed, verdicts, queued, outreach, completed, handoff, at, lock>>
  PROVE  RowsInv' /\ LockInv' /\ WorkInv' /\ WholeInv' /\ OneVerdict' /\ MessagesOnce'
<1>1. /\ RowsInv /\ LogInv /\ LockInv /\ WorkInv /\ WholeInv /\ OneVerdict /\ MessagesOnce
      /\ UNCHANGED <<cand, lead, verdicts, queued, outreach, completed, handoff, at, lock>>
  BY DEF CycleInv, filed
<1>2. RowsInv' /\ Grows
  BY <1>1 DEF RowsInv, Grows, LeadsStay
<1>3. WholeInv'
  BY <1>1, <1>2, WholeStays
<1>4. OneVerdict' /\ MessagesOnce'
  BY <1>1, RecordsSame
<1>5. LockInv'
  BY <1>1 DEF LockInv
<1>6. WorkInv'
  <2>1. ASSUME NEW p \in Procs, at'[p].pc # "idle"
        PROVE  Sound(at[p])'
    <3> DEFINE c == at[p]
    <3>1. Sound(c)
      BY <1>1, <2>1 DEF WorkInv
    <3>2. c' = c
      BY <1>1
    <3> HIDE DEF c
    <3>3. Placed(c)'
      BY <1>1, <3>1, <3>2 DEF Sound, Placed
    <3>4. Decides(c)'
      BY <1>1, <3>1, <3>2 DEF Sound, Decides, Undecided, Written
    <3>5. Passes(c)'
      BY <1>1, <3>1, <3>2 DEF Sound, Passes, Passed, Dealt, Judged
    <3>6. Sound(c)'
      BY <3>3, <3>4, <3>5 DEF Sound
    <3> QED BY <3>6 DEF c
  <2> QED BY <2>1 DEF WorkInv
<1> QED BY <1>2, <1>3, <1>4, <1>5, <1>6

(* Begin keeps the invariant: it is refused the lock, or starts at the     *)
(* first lane.                                                             *)
LEMMA BeginStep ==
  ASSUME CycleInv, NEW p \in Procs, NEW r \in Runs, Begin(p, r)
  PROVE  CycleInv'
<1>1. /\ at[p] = Idle
      /\ UNCHANGED <<filed, blocked, verdicts, queued, outreach, completed, handoff, paused,
                     clock, crashes>>
  BY DEF Begin
<1>2. LogInv /\ LockInv /\ WorkInv /\ ActiveInv
  BY DEF CycleInv
<1>3. CASE ~Admitted
  <2>1. active' = None /\ failed' = failed \union {r} /\ UNCHANGED <<at, lock>>
    BY <1>3 DEF Begin, Undo
  <2>2. LogInv'
    BY <1>1, <1>2, <2>1 DEF LogInv
  <2>3. RowsInv' /\ LockInv' /\ WorkInv' /\ WholeInv' /\ OneVerdict' /\ MessagesOnce'
    BY <1>1, <2>1, StaysStep
  <2>4. ActiveInv'
    BY <2>1 DEF ActiveInv
  <2> QED BY <2>2, <2>3, <2>4 DEF CycleInv
<1>4. CASE Admitted
  <2> DEFINE b == [Idle EXCEPT !.pc = "lane", !.run = r, !.lane = 1]
  <2>1. /\ lock = None /\ lock' = p /\ at' = [at EXCEPT ![p] = b]
        /\ UNCHANGED <<active, failed>>
    BY <1>4 DEF Begin, Admitted
  <2>2. UNCHANGED <<filed, records, handoff>>
    BY <1>1, <2>1 DEF records
  <2>3. LogInv'
    BY <1>1, <1>2, <2>1 DEF LogInv
  <2>4. RowsInv' /\ Grows /\ WholeInv' /\ OneVerdict' /\ MessagesOnce'
    BY <2>2, LogStays
  <2>5. PICK c : /\ c \in Callers /\ at' = [at EXCEPT ![p] = c] /\ c.pc = "lane" /\ c.run = r
                 /\ c.lane = 1 /\ c.item = 0 /\ c.researched = 0 /\ c.message = 0
    <3>1. Idle \in Callers /\ Idle.item = 0 /\ Idle.researched = 0 /\ Idle.message = 0
      BY IdleIs DEF Idle
    <3>2. b \in Callers
      <4>1. "lane" \in Pcs /\ r \in Runs \union {None} /\ 1 \in 0..3
        BY DEF Pcs
      <4> QED BY <3>1, <4>1 DEF Callers
    <3>3. /\ b.pc = "lane" /\ b.run = r /\ b.lane = 1 /\ b.item = 0
          /\ b.researched = 0 /\ b.message = 0
      BY <3>1 DEF Callers
    <3> QED BY <2>1, <3>2, <3>3
  <2> HIDE DEF b
  <2>6. Sound(c)'
    <3>1. Len(handoff[r]) \in Nat /\ handoff' = handoff
      BY <1>1, <1>2, HandoffIs
    <3>2. Placed(c)'
      BY <2>5, <3>1, CycleAssumption DEF Placed, CycleAssumption
    <3>3. Decides(c)'
      BY <2>5 DEF Decides
    <3>4. Passes(c)'
      BY <2>5 DEF Passes, Passed
    <3> QED BY <3>2, <3>3, <3>4 DEF Sound
  <2>7. LockInv' /\ WorkInv'
    BY <1>2, <2>1, <2>5, <2>6, Moves
  <2>8. ActiveInv'
    <3>1. at[p].pc = "idle" /\ active' = active /\ crashes' = crashes
      BY <1>1, <2>1, IdleIs
    <3> QED BY <1>2, <2>5, <3>1, ActiveStays
  <2> QED BY <2>3, <2>4, <2>7, <2>8 DEF CycleInv
<1> QED BY <1>3, <1>4

(* OpenLane keeps the invariant: what comes before the first candidate of  *)
(* a lane is of another lane.                                              *)
LEMMA OpenLaneStep ==
  ASSUME CycleInv, NEW p \in Procs, OpenLane(p)
  PROVE  CycleInv'
<1> DEFINE n == NextItem(p, 1)
           b == [at[p] EXCEPT !.pc = "item", !.item = n]
<1>1. /\ at[p].pc = "lane" /\ active' = Lanes[at[p].lane]
      /\ at' = [at EXCEPT ![p].pc = "item", ![p].item = n]
      /\ UNCHANGED <<filed, blocked, records, handoff, lock, paused, clock, crashes>>
  BY DEF OpenLane
<1>2. TypesInv /\ at[p].pc # "idle"
  BY <1>1 DEF CycleInv, TypesInv
<1>3. /\ at[p] \in Callers /\ at[p].run \in Runs /\ lock = p /\ Sound(at[p])
      /\ Len(Here(p)) \in Nat /\ at[p].lane \in 1..3 /\ DOMAIN Here(p) = 1..Len(Here(p))
  BY <1>2, WorkerIs
<1>4. at[p].lane \in 1..2 /\ at[p].message = 0
  BY <1>1, <1>3 DEF Sound, Placed
<1>5. n \in 0..Len(Here(p))
  BY <1>2, <1>3, NextItemIs DEF TypesInv
<1>6. n \in Nat
  BY <1>3, <1>5
<1>7. at' = [at EXCEPT ![p] = b]
  BY <1>1
<1>8. RowsInv' /\ Grows /\ WholeInv' /\ OneVerdict' /\ MessagesOnce'
  BY <1>1, LogStays
<1>9. \A i \in DOMAIN Here(p) : Here(p)[i].lane = Lanes[at[p].lane] => n # 0 /\ n <= i
  <2>1. \A i \in DOMAIN Here(p) : i >= 1
    BY <1>3
  <2>2. 1 \in Nat /\ LogInv
    BY <1>2 DEF TypesInv
  <2> QED BY <1>3, <2>1, <2>2, NextItemIs
<1>10. handoff' = handoff /\ Here(p) = handoff[at[p].run]
  BY <1>1 DEF Here
<1> HIDE DEF n
<1>11. PICK c : /\ c \in Callers /\ at' = [at EXCEPT ![p] = c] /\ c.run = at[p].run
                /\ c.lane = at[p].lane /\ c.pc = "item" /\ c.item = n
                /\ c.researched = at[p].researched /\ c.message = 0
  <2>1. /\ b \in Callers /\ b.run = at[p].run /\ b.lane = at[p].lane /\ b.pc = "item"
        /\ b.item = n /\ b.researched = at[p].researched /\ b.message = 0
    BY <1>3, <1>4, <1>6 DEF Callers, Pcs
  <2> HIDE DEF b
  <2> QED BY <1>7, <2>1
<1> HIDE DEF b
<1>12. Sound(c)'
  <2>1. Placed(c)'
    BY <1>1, <1>3, <1>4, <1>5, <1>10, <1>11 DEF Sound, Placed
  <2>2. Decides(c)'
    BY <1>11 DEF Decides
  <2>3. ASSUME NEW i \in DOMAIN handoff[c.run], Passed(c, i)'
        PROVE  Dealt(handoff[c.run][i])'
    <3> DEFINE x == handoff[c.run][i]
    <3>1. i \in DOMAIN Here(p) /\ x = Here(p)[i] /\ i \in Nat
      BY <1>3, <1>10, <1>11
    <3>2. ~(x.lane = Lanes[c.lane] /\ (c.item = 0 \/ i < c.item))
      BY <1>6, <1>9, <1>11, <3>1
    <3>3. \E l \in 1..2 : l < c.lane /\ x.lane = Lanes[l]
      BY <1>10, <2>3, <3>2 DEF Passed
    <3>4. Passed(at[p], i)
      BY <1>11, <3>3 DEF Passed
    <3>5. Dealt(x)
      BY <1>3, <1>11, <3>4 DEF Sound, Passes
    <3>6. \/ x.case = "unsourced" \/ x.key \in queued'
          \/ \E v \in verdicts' : v[1] = x.key
          \/ lead'[x.raw.key] # None
      BY <1>1, <3>5 DEF records, filed, Dealt, Judged
    <3> QED BY <1>10, <3>6 DEF Dealt, Judged
  <2>4. Passes(c)'
    BY <1>10, <2>3 DEF Passes
  <2> QED BY <2>1, <2>2, <2>4 DEF Sound
<1>13. LockInv' /\ WorkInv'
  <2>1. lock' = p /\ c.pc # "idle"
    BY <1>1, <1>3, <1>11
  <2> QED BY <1>2, <1>11, <1>12, <2>1, Moves DEF TypesInv
<1>14. ActiveInv'
  <2>1. at'[p] = c
    BY <1>2, <1>11 DEF TypesInv, LockInv
  <2> QED BY <1>1, <1>4, <1>11, <2>1 DEF ActiveInv, Lanes
<1>15. LogInv'
  <2>1. active' \in {"PRIMARY", "SECONDARY", None}
    BY <1>1, <1>4 DEF Lanes
  <2> QED BY <1>1, <1>2, <2>1 DEF TypesInv, LogInv, records
<1> QED BY <1>8, <1>13, <1>14, <1>15 DEF CycleInv

(* CloseLane keeps the invariant: the lane has no candidate left.          *)
LEMMA CloseLaneStep ==
  ASSUME CycleInv, NEW p \in Procs, CloseLane(p)
  PROVE  CycleInv'
<1> DEFINE pc == IF at[p].lane < Len(Lanes) THEN "lane" ELSE "complete"
           n == at[p].lane + 1
           b == [at[p] EXCEPT !.pc = pc, !.lane = n]
<1>1. /\ at[p].pc = "item" /\ at[p].item = 0 /\ active' = None
      /\ at' = [at EXCEPT ![p].pc = pc, ![p].lane = @ + 1]
      /\ UNCHANGED <<filed, blocked, records, handoff, lock, paused, clock, crashes>>
  BY DEF CloseLane
<1>2. TypesInv /\ at[p].pc # "idle"
  BY <1>1 DEF CycleInv, TypesInv
<1>3. /\ at[p] \in Callers /\ at[p].run \in Runs /\ lock = p /\ Sound(at[p])
      /\ Len(Here(p)) \in Nat /\ at[p].lane \in 1..3
  BY <1>2, WorkerIs
<1>4. at[p].lane \in 1..2 /\ at[p].message = 0 /\ Len(Lanes) = 2
  BY <1>1, <1>3 DEF Sound, Placed, Lanes
<1>5. n \in 2..3 /\ (n = 3 <=> pc = "complete") /\ pc \in {"lane", "complete"}
  BY <1>4
<1>6. at' = [at EXCEPT ![p] = b]
  <2>1. at \in [Procs -> Callers]
    BY <1>2 DEF TypesInv, LockInv
  <2> HIDE DEF pc
  <2>2. [at EXCEPT ![p].pc = pc, ![p].lane = @ + 1] = [at EXCEPT ![p] = b]
    BY <1>3, <2>1 DEF Callers
  <2> QED BY <1>1, <2>2
<1>7. RowsInv' /\ Grows /\ WholeInv' /\ OneVerdict' /\ MessagesOnce'
  BY <1>1, LogStays
<1> HIDE DEF pc, n
<1>8. PICK c : /\ c \in Callers /\ at' = [at EXCEPT ![p] = c] /\ c.run = at[p].run /\ c.lane = n
               /\ c.pc = pc /\ c.item = 0 /\ c.researched = at[p].researched /\ c.message = 0
  <2>1. n \in 0..3 /\ pc \in Pcs
    BY <1>5 DEF Pcs
  <2>2. b \in Callers
    BY <1>3, <2>1 DEF Callers
  <2>3. /\ b.run = at[p].run /\ b.lane = n /\ b.pc = pc /\ b.item = at[p].item
        /\ b.researched = at[p].researched /\ b.message = at[p].message
    BY <1>3 DEF Callers
  <2> HIDE DEF b
  <2> QED BY <1>1, <1>4, <1>6, <2>2, <2>3
<1> HIDE DEF b
<1>9. Sound(c)'
  <2>1. handoff' = handoff
    BY <1>1
  <2>2. Placed(c)'
    BY <1>1, <1>3, <1>5, <1>8, <2>1 DEF Sound, Placed
  <2>3. Decides(c)'
    BY <1>5, <1>8 DEF Decides
  <2>4. ASSUME NEW i \in DOMAIN handoff[c.run], Passed(c, i)'
        PROVE  Dealt(handoff[c.run][i])'
    <3> DEFINE x == handoff[c.run][i]
    <3>1. PICK l \in 1..2 : l < c.lane /\ x.lane = Lanes[l]
      BY <1>5, <1>8, <2>1, <2>4 DEF Passed
    <3>2. l < at[p].lane \/ l = at[p].lane
      BY <1>4, <1>8, <3>1 DEF n
    <3>3. Passed(at[p], i)
      BY <1>1, <1>4, <1>8, <3>1, <3>2 DEF Passed
    <3>4. Dealt(x)
      BY <1>3, <1>8, <3>3 DEF Sound, Passes
    <3>5. \/ x.case = "unsourced" \/ x.key \in queued'
          \/ \E v \in verdicts' : v[1] = x.key
          \/ lead'[x.raw.key] # None
      BY <1>1, <3>4 DEF records, filed, Dealt, Judged
    <3> QED BY <2>1, <3>5 DEF Dealt, Judged
  <2>5. Passes(c)'
    BY <2>1, <2>4 DEF Passes
  <2> QED BY <2>2, <2>3, <2>5 DEF Sound
<1>10. LockInv' /\ WorkInv'
  <2>1. lock' = p /\ c.pc # "idle"
    BY <1>1, <1>3, <1>5, <1>8
  <2> QED BY <1>2, <1>8, <1>9, <2>1, Moves DEF TypesInv
<1>11. ActiveInv'
  BY <1>1 DEF ActiveInv
<1>12. LogInv'
  BY <1>1, <1>2 DEF TypesInv, LogInv, records
<1> QED BY <1>7, <1>10, <1>11, <1>12 DEF CycleInv

(* Complete keeps the invariant: both lanes have been passed.              *)
LEMMA CompleteStep ==
  ASSUME CycleInv, NEW p \in Procs, Complete(p)
  PROVE  CycleInv'
<1>1. /\ at[p].pc = "complete" /\ at' = [at EXCEPT ![p] = Idle] /\ lock' = None
      /\ completed' = completed \union {at[p].run}
      /\ UNCHANGED <<filed, blocked, verdicts, queued, outreach, failed, handoff, active, paused,
                     clock, crashes>>
  BY DEF Complete
<1>2. TypesInv /\ at[p].pc # "idle"
  BY <1>1 DEF CycleInv, TypesInv
<1>3. /\ at[p].run \in Runs /\ Sound(at[p])
  BY <1>2, WorkerIs
<1>4. RowsInv'
  BY <1>1, <1>2 DEF TypesInv, RowsInv, filed
<1>5. LogInv'
  BY <1>1, <1>2, <1>3 DEF TypesInv, LogInv
<1>6. LockInv' /\ WorkInv'
  BY <1>1, <1>2, IdleIs, Moves DEF TypesInv
<1>7. ActiveInv'
  <2>1. /\ active' = active /\ crashes' = crashes
        /\ at[p].pc \notin {"item", "judge", "assign", "work", "messages"}
    BY <1>1
  <2> QED BY <1>1, <2>1, ActiveStays DEF CycleInv
<1>8. WholeInv'
  <2>1. handoff' = handoff /\ LogInv /\ WholeInv
    BY <1>1 DEF CycleInv
  <2>2. ASSUME NEW r \in completed', NEW i \in DOMAIN handoff[r]
        PROVE  Dealt(handoff[r][i])
    <3>1. CASE r \in completed
      BY <2>1, <3>1 DEF WholeInv
    <3>2. CASE r = at[p].run
      <4>1. handoff[r][i].lane \in {"PRIMARY", "SECONDARY"}
        BY <1>3, <2>1, <3>2, HandoffIs DEF IsCandidate
      <4>2. at[p].lane = 3
        BY <1>1, <1>3 DEF Sound, Placed
      <4>3. \E l \in 1..2 : l < 3 /\ handoff[r][i].lane = Lanes[l]
        BY <4>1 DEF Lanes
      <4>4. Passed(at[p], i)
        BY <3>2, <4>2, <4>3 DEF Passed
      <4> QED BY <1>3, <3>2, <4>4 DEF Sound, Passes
    <3> QED BY <1>1, <3>1, <3>2
  <2>3. ASSUME NEW r \in completed', NEW i \in DOMAIN handoff[r]
        PROVE  Dealt(handoff[r][i])'
    <3> DEFINE x == handoff[r][i]
    <3>1. Dealt(x)
      BY <2>2
    <3> HIDE DEF x
    <3>2. \/ x.case = "unsourced" \/ x.key \in queued'
          \/ \E v \in verdicts' : v[1] = x.key
          \/ lead'[x.raw.key] # None
      BY <1>1, <3>1 DEF filed, Dealt, Judged
    <3> QED BY <2>1, <3>2 DEF Dealt, Judged, x
  <2> QED BY <2>1, <2>3 DEF WholeInv
<1>9. OneVerdict' /\ MessagesOnce'
  BY <1>1, RecordsSame DEF CycleInv
<1> QED BY <1>4, <1>5, <1>6, <1>7, <1>8, <1>9 DEF CycleInv

(* Die keeps the invariant: the lock goes with its holder.                 *)
LEMMA DieStep ==
  ASSUME CycleInv, NEW p \in Procs, Die(p)
  PROVE  CycleInv'
<1>1. /\ at[p] # Idle /\ crashes < MaxCrashes
      /\ at' = [at EXCEPT ![p] = Idle] /\ crashes' = crashes + 1
      /\ UNCHANGED <<filed, blocked, records, handoff, active, paused, clock>>
      /\ lock' = IF lock = p THEN None ELSE lock
  BY DEF Die
<1>2. LogInv /\ LockInv /\ WorkInv
  BY DEF CycleInv
<1>3. at[p].pc # "idle" /\ lock = p
  BY <1>1, <1>2 DEF LockInv
<1>4. crashes' \in 0..MaxCrashes /\ crashes' # 0
  BY <1>1, <1>2, CycleAssumption DEF LogInv, CycleAssumption
<1>5. LogInv'
  BY <1>1, <1>2, <1>3, <1>4 DEF LogInv, records
<1>6. RowsInv' /\ Grows /\ WholeInv' /\ OneVerdict' /\ MessagesOnce'
  BY <1>1, LogStays
<1>7. LockInv' /\ WorkInv'
  BY <1>1, <1>2, <1>3, IdleIs, Moves
<1>8. ActiveInv'
  BY <1>4 DEF ActiveInv
<1> QED BY <1>5, <1>6, <1>7, <1>8 DEF CycleInv

-----------------------------------------------------------------------------
(* The operator, the clock, and the whole.                                 *)

(* pause, stop, resume, configure, the clock, a suppression and a stutter  *)
(* keep the invariant.                                                     *)
LEMMA OtherSteps ==
  ASSUME CycleInv,
         \/ \E pause \in BOOLEAN : SetState(pause)
         \/ Configure \/ Tick
         \/ \E k \in Keys : Suppress(k)
         \/ UNCHANGED vars
  PROVE  CycleInv'
<1>1. LogInv /\ ActiveInv
  BY DEF CycleInv
<1>2. UNCHANGED <<filed, records, handoff, at, lock, crashes>>
  BY DEF SetState, Configure, Tick, Suppress, SuppressLead, vars, control
<1>3. RowsInv' /\ LockInv' /\ WorkInv' /\ WholeInv' /\ OneVerdict' /\ MessagesOnce'
  BY <1>2, StaysStep DEF records
<1>4. active' \in {active, None} /\ paused' \in BOOLEAN \union {paused} /\ clock' \in 1..MaxClock
  <2>1. CASE \E pause \in BOOLEAN : SetState(pause)
    BY <1>1, <2>1 DEF SetState, LogInv
  <2>2. CASE Configure
    BY <1>1, <2>2 DEF Configure, LogInv
  <2>3. CASE Tick
    BY <1>1, <2>3, CycleAssumption DEF Tick, LogInv, CycleAssumption
  <2>4. CASE (\E k \in Keys : Suppress(k)) \/ UNCHANGED vars
    BY <1>1, <2>4 DEF Suppress, vars, control, LogInv
  <2> QED BY <2>1, <2>2, <2>3, <2>4
<1>5. LogInv'
  BY <1>1, <1>2, <1>4 DEF LogInv, records
<1>6. ActiveInv'
  BY <1>1, <1>2, <1>4 DEF ActiveInv
<1> QED BY <1>3, <1>5, <1>6 DEF CycleInv

(* The first state.                                                        *)
LEMMA CycleInit ==
  Init => CycleInv
<1> SUFFICES ASSUME Init
             PROVE  CycleInv
  OBVIOUS
<1>1. RowsInv
  BY DEF Init, DiscoveryInit, RowsInv
<1>2. LogInv
  <2>1. 1 \in 1..MaxClock /\ 0 \in 0..MaxCrashes
    BY CycleAssumption DEF CycleAssumption
  <2> QED BY <2>1 DEF Init, LogInv
<1>3. LockInv /\ \A p \in Procs : at[p].pc = "idle"
  <2>1. at = [p \in Procs |-> Idle]
    BY DEF Init
  <2>2. at \in [Procs -> Callers] /\ \A p \in Procs : at[p] = Idle
    BY <2>1, IdleIs
  <2> QED BY <2>2, IdleIs, Zenon DEF LockInv
<1>4. WorkInv
  BY <1>3 DEF WorkInv
<1>5. ActiveInv /\ WholeInv /\ OneVerdict /\ MessagesOnce
  BY DEF Init, ActiveInv, WholeInv, OneVerdict, MessagesOnce
<1> QED BY <1>1, <1>2, <1>3, <1>4, <1>5 DEF CycleInv

(* CycleInv is inductive.                                                  *)
LEMMA CycleNext ==
  CycleInv /\ [Next]_vars => CycleInv'
<1> SUFFICES ASSUME CycleInv, [Next]_vars
             PROVE  CycleInv'
  OBVIOUS
<1>1. ASSUME NEW p \in Procs, Step(p)
      PROVE  CycleInv'
  <2>1. CASE \E r \in Runs : Begin(p, r)
    BY <2>1, BeginStep
  <2>2. CASE OpenLane(p)
    BY <2>2, OpenLaneStep
  <2>3. CASE Take(p)
    BY <2>3, TakeStep
  <2>4. CASE Judge(p)
    BY <2>4, JudgeStep
  <2>5. CASE Work(p)
    BY <2>5, WorkStep
  <2>6. CASE Message(p)
    BY <2>6, MessageStep
  <2>7. CASE Commit(p)
    BY <2>7, CommitStep
  <2>8. CASE CloseLane(p)
    BY <2>8, CloseLaneStep
  <2>9. CASE Complete(p)
    BY <2>9, CompleteStep
  <2>10. CASE Die(p)
    BY <2>10, DieStep
  <2>11. CASE Assign(p)
    BY <2>11, AssignStep
  <2> QED BY <1>1, <2>1, <2>2, <2>3, <2>4, <2>5, <2>6, <2>7, <2>8, <2>9, <2>10, <2>11 DEF Step
<1>2. CASE ~\E p \in Procs : Step(p)
  BY <1>2, OtherSteps DEF Next
<1> QED BY <1>1, <1>2

(* The inductive invariant: rows, log and processes have their types,      *)
(* whoever is in a cycle holds the lock, and has dealt with every          *)
(* candidate it has passed.                                                *)
THEOREM CycleHolds == Spec => []CycleInv
BY CycleInit, CycleNext, PTL DEF Spec

(* A lead has the campaign of a lane or none.                              *)
LEMMA AssignedHolds == Spec => []AssignedInv
<1>1. Init => AssignedInv
  BY DEF Init, AssignedInv
<1>2. CycleInv /\ AssignedInv /\ [Next]_vars => AssignedInv'
  <2> SUFFICES ASSUME CycleInv, AssignedInv, [Next]_vars
               PROVE  AssignedInv'
    OBVIOUS
  <2>1. ASSUME NEW p \in Procs, Assign(p)
        PROVE  AssignedInv'
    <3>1. /\ at[p].pc = "assign"
          /\ \/ assigned' = assigned
             \/ assigned' = [assigned EXCEPT ![Item(p).raw.key] = Lanes[at[p].lane]]
      BY <2>1 DEF Assign
    <3>2. TypesInv /\ at[p].pc # "idle"
      BY <3>1 DEF CycleInv, TypesInv
    <3>3. at[p].lane \in 1..3 /\ Sound(at[p])
      BY <3>2, WorkerIs
    <3>4. at[p].lane \in 1..2
      BY <3>1, <3>3 DEF Sound, Placed
    <3>5. Lanes[at[p].lane] \in {"PRIMARY", "SECONDARY"}
      BY <3>4 DEF Lanes
    <3> QED BY <3>1, <3>5 DEF AssignedInv
  <2>2. CASE ~\E p \in Procs : Assign(p)
    <3>1. ASSUME NEW p \in Procs, Step(p)
          PROVE  assigned' = assigned
      <4>1. CASE (\E r \in Runs : Begin(p, r)) \/ OpenLane(p) \/ CloseLane(p) \/ Complete(p)
        BY <4>1 DEF Begin, OpenLane, CloseLane, Complete
      <4>2. CASE Take(p) \/ Judge(p)
        BY <4>2 DEF Take, Judge
      <4>3. CASE Work(p) \/ Message(p) \/ Commit(p) \/ Die(p)
        BY <4>3 DEF Work, Message, Commit, Die
      <4> QED BY <2>2, <3>1, <4>1, <4>2, <4>3 DEF Step
    <3>2. CASE ~\E p \in Procs : Step(p)
      <4>1. assigned' = assigned
        BY <3>2 DEF Next, SetState, Configure, Tick, Suppress, vars
      <4> QED BY <4>1 DEF AssignedInv
    <3>3. CASE \E p \in Procs : Step(p)
      <4>1. assigned' = assigned
        BY <3>1, <3>3
      <4> QED BY <4>1 DEF AssignedInv
    <3> QED BY <3>2, <3>3
  <2> QED BY <2>1, <2>2
<1> QED BY <1>1, <1>2, CycleHolds, PTL DEF Spec

(* A candidate is judged once, however often its handoff is run, by whom,  *)
(* and whoever dies between two commits.                                   *)
THEOREM OneVerdictHolds == Spec => []OneVerdict
<1>1. CycleInv => OneVerdict
  BY DEF CycleInv
<1> QED BY <1>1, CycleHolds, PTL

(* A message key has one outreach row, and a COMMITTED candidate a row for *)
(* the key of each of the first three messages of a handoff that brought   *)
(* it, whatever keys its messages share and whoever wrote the row.         *)
THEOREM MessagesOnceHolds == Spec => []MessagesOnce
<1>1. CycleInv => MessagesOnce
  BY DEF CycleInv
<1> QED BY <1>1, CycleHolds, PTL

(* A campaign that is ACTIVE has a cycle in its lane, unless a process     *)
(* died.                                                                   *)
THEOREM ActiveInLaneHolds == Spec => []ActiveInLane
<1>1. CycleInv => ActiveInLane
  <2> SUFFICES ASSUME CycleInv, active # None, crashes = 0
               PROVE  \E p \in Procs : /\ at[p].pc # "idle" /\ at[p].lane \in DOMAIN Lanes
                                       /\ Lanes[at[p].lane] = active
    BY DEF ActiveInLane
  <2>1. PICK p \in Procs : /\ at[p].pc \in {"item", "judge", "assign", "work", "messages"}
                           /\ at[p].lane \in 1..2 /\ Lanes[at[p].lane] = active
    BY DEF CycleInv, ActiveInv
  <2>2. DOMAIN Lanes = 1..2
    BY DEF Lanes
  <2> QED BY <2>1, <2>2
<1> QED BY <1>1, CycleHolds, PTL

(* A COMPLETED cycle has dealt with every candidate of its handoff.        *)
THEOREM CompletedIsWholeHolds == Spec => []CompletedIsWhole
<1>1. CycleInv /\ AssignedInv => CompletedIsWhole
  <2> SUFFICES ASSUME CycleInv, AssignedInv
               PROVE  CompletedIsWhole
    OBVIOUS
  <2>1. TypesInv
    BY DEF CycleInv, TypesInv
  <2>2. ASSUME NEW p \in Procs, at[p] # Idle
        PROVE  /\ lock = p /\ at[p].run \in Runs
               /\ at[p].pc \in {"lane", "item", "judge", "assign", "work", "messages", "complete"}
               /\ at[p].item \in 0..Len(Here(p)) /\ at[p].researched \in 0..ResearchCap
    <3>1. at[p].pc # "idle" /\ at[p].pc \in Pcs
      BY <2>1, <2>2 DEF TypesInv, LockInv, Callers
    <3> QED BY <2>1, <3>1, WorkerIs DEF Pcs
  <2>3. TypeOK
    BY <2>1, <2>2 DEF TypesInv, LogInv, TypeOK, AssignedInv
  <2>4. \A r \in completed : \A i \in DOMAIN handoff[r] :
          LET x == handoff[r][i] IN
          \/ x.case = "unsourced" \/ Judged(x.key) \/ x.key \in queued
          \/ lead[x.raw.key] # None
    BY DEF CycleInv, WholeInv, Dealt
  <2> QED BY <2>3, <2>4 DEF CompletedIsWhole
<1> QED BY <1>1, CycleHolds, AssignedHolds, PTL
=============================================================================
