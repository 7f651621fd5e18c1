-------------------------- MODULE ProductionCycle --------------------------
(***************************************************************************)
(* The production cycle, step22_integration.py, and its entry point,       *)
(* paldo_production_entrypoint.py, on the candidates of Discovery: a cycle *)
(* commits what one handoff brings, lane by lane, behind a file lock that  *)
(* dies with its holder.  Every commit is a step, so that a process may    *)
(* die, or the operator pause the system, between any two of them.         *)
(* A candidate of a handoff has a case: what its payload amounts to.       *)
(***************************************************************************)
EXTENDS Discovery, Sequences

CONSTANTS
  Procs,       \* processes that run the entry point
  Runs,        \* run ids
  Handoffs,    \* handoffs there may be: a sequence of candidates by run id
  ResearchCap, \* candidates one invocation researches at most
  MaxClock,    \* bound on the clock
  MaxCrashes   \* bound on the deaths

Lanes == <<"PRIMARY", "SECONDARY">>

(* What the payload of a candidate amounts to, and what the checks of one  *)
(* of its messages find: "review" stands for all that are made before the  *)
(* message's key is looked up, "touch" for a touch number out of bounds    *)
(* and "number" for one that is none, which raises.                        *)
Cases == {"excluded", "unsourced", "no_research", "invalid", "held", "rejected",
          "no_decision_maker", "good"}
Flaws == {"none", "review", "touch", "number"}

(* The messages that are looked at: the first three. *)
Considered(x) == IF Len(x.messages) < 3 THEN Len(x.messages) ELSE 3

(* The key of the m-th message: its own, or the candidate's with the       *)
(* channel and stage of the message, which other messages may share.       *)
MessageKey(x, m) ==
  IF x.messages[m].own # None THEN x.messages[m].own ELSE <<x.key, x.messages[m].slot>>

(* The handoffs that get past the checks made before anything is written.  *)
IsHandoff(h) ==
  \A r \in Runs :
    /\ Len(h[r]) \in 0..50 /\ DOMAIN h[r] = 1..Len(h[r])
    /\ \A l \in {"PRIMARY", "SECONDARY"} :
         Cardinality({i \in DOMAIN h[r] : h[r][i].lane = l}) <= 25
    /\ \A i \in DOMAIN h[r] : /\ h[r][i].lane \in {"PRIMARY", "SECONDARY"}
                             /\ h[r][i].raw \in Imports /\ h[r][i].case \in Cases
                             /\ Len(h[r][i].messages) \in Nat
                             /\ DOMAIN h[r][i].messages = 1..Len(h[r][i].messages)
                             /\ \A m \in DOMAIN h[r][i].messages :
                                  h[r][i].messages[m].flaw \in Flaws

ASSUME CycleAssumption ==
  /\ ResearchCap \in Nat /\ MaxClock \in Nat \ {0} /\ MaxCrashes \in Nat
  /\ None \notin Procs /\ \A h \in Handoffs : IsHandoff(h)

VARIABLES
  handoff,   \* the handoffs, by run id
  assigned,  \* the campaign of a lead, by key, None when it has none yet
  at,        \* where each process is
  lock,      \* who holds the file lock
  active,    \* the campaign that is ACTIVE
  paused,    \* system_state is PAUSED
  clock,     \* the time a cycle takes for now
  verdicts,  \* PRODUCTION_CANDIDATE_COMMITTED, _HELD and _REJECTED, with their key;
             \* EXCLUDED is a rejection by name
  queued,    \* PRODUCTION_CANDIDATE_QUEUED
  outreach,  \* outreach rows, with the message key they were written for
  completed, \* PRODUCTION_CYCLE_COMPLETED
  failed,    \* PRODUCTION_CYCLE_FAILED
  crashes    \* history: deaths so far

records == <<verdicts, queued, outreach, completed, failed>>
control == <<handoff, at, lock, active, paused, clock, crashes>>
vars == <<filed, assigned, blocked, records, control>>

-----------------------------------------------------------------------------
Idle == [pc |-> "idle", run |-> None, lane |-> 0, item |-> 0, taken |-> FALSE,
         researched |-> 0, message |-> 0]

Here(p)  == handoff[at[p].run]
Item(p)  == Here(p)[at[p].item]
Judged(k) == \E v \in verdicts : v[1] = k

(* The next candidate of the lane from the i-th on, 0 when there is none.  *)
(* Seeded fault: one is passed over.                                       *)
PastItem(p, i) ==
  LET S == {j \in DOMAIN Here(p) : j > i /\ Here(p)[j].lane = Lanes[at[p].lane]} IN
  IF S = {} THEN 0 ELSE CHOOSE j \in S : \A n \in S : j <= n
NextItem(p, i) ==
  LET S == {j \in DOMAIN Here(p) : j >= i /\ Here(p)[j].lane = Lanes[at[p].lane]} IN
  IF S = {} THEN 0 ELSE CHOOSE j \in S : \A n \in S : j <= n

GoTo(p, pc) == at' = [at EXCEPT ![p].pc = pc]
Done(p) ==
  at' = [at EXCEPT ![p].pc = "item", ![p].item = NextItem(p, @ + 1), ![p].message = 0]

(* _candidate normalised with its own collection time, or with now.        *)
Record(x) == Normalize([x.raw EXCEPT !.at = IF @ = 0 THEN clock ELSE @])

(* The handler of every exception: all campaigns INACTIVE, FAILED once.    *)
(* It does so as well when the lock was refused.  Seeded fault: the        *)
(* campaigns are left.                                                     *)
NoteFailure(r) == UNCHANGED active /\ failed' = failed \union {r}
Undo(r) == active' = None /\ failed' = failed \union {r}

(* Seeded fault: the lock is not taken. *)
Open == ~paused
Admitted == ~paused /\ lock = None

(* run_production_cycle up to its first lane.  A run that has completed is *)
(* answered from its record.                                               *)
Begin(p, r) ==
  /\ at[p] = Idle
  /\ IF ~Admitted
     THEN Undo(r) /\ UNCHANGED <<at, lock>>
     ELSE /\ r \notin completed
          /\ lock' = p
          /\ at' = [at EXCEPT ![p] = [Idle EXCEPT !.pc = "lane", !.run = r, !.lane = 1]]
          /\ UNCHANGED <<active, failed>>
  /\ UNCHANGED <<filed, assigned, blocked, verdicts, queued, outreach, completed,
                 handoff, paused, clock, crashes>>

OpenLane(p) ==
  /\ at[p].pc = "lane"
  /\ active' = Lanes[at[p].lane]
  /\ at' = [at EXCEPT ![p].pc = "item", ![p].item = NextItem(p, 1)]
  /\ UNCHANGED <<filed, assigned, blocked, records, handoff, lock, paused, clock, crashes>>

(* The process ends with an exception. *)
Raise(p) ==
  /\ Undo(at[p].run)
  /\ at' = [at EXCEPT ![p] = Idle] /\ lock' = None

(* One candidate up to its ingestion, unless it was judged before.  An     *)
(* ingestion that UPDATED the row of an earlier one is not taken.          *)
Taken(c) == Outcome(c) \in {"ACCEPTED", "DUPLICATE"}

Take(p) ==
  LET x == Item(p)
      c == Record(x)
  IN /\ at[p].pc = "item" /\ at[p].item # 0
     /\ IF x.case = "excluded"
        THEN /\ verdicts' = verdicts \union {<<x.key, "EXCLUDED">>}
             /\ Done(p) /\ UNCHANGED <<filed, active, failed, lock>>
        ELSE IF x.case = "unsourced" \/ Judged(x.key)
        THEN Done(p) /\ UNCHANGED <<filed, verdicts, active, failed, lock>>
        ELSE IF Collides(c)
        THEN Raise(p) /\ UNCHANGED <<filed, verdicts>>
        ELSE /\ Store(c)
             /\ at' = [at EXCEPT ![p].pc = "judge",
                         ![p].taken = Taken(c) /\ lead'[c.key] # None]
             /\ UNCHANGED <<verdicts, active, failed, lock>>
     /\ UNCHANGED <<assigned, blocked, queued, outreach, completed, handoff, paused, clock,
                    crashes>>

(* What the ingestion led to: rejected, left for another day by the cap,   *)
(* held without research, or researched.                                   *)
Judge(p) ==
  LET x == Item(p)
      late == at[p].researched >= ResearchCap
  IN /\ at[p].pc = "judge"
     /\ IF at[p].taken /\ ~late /\ x.case # "no_research"
        THEN /\ at' = [at EXCEPT ![p].pc = "assign", ![p].researched = @ + 1]
             /\ UNCHANGED <<verdicts, queued>>
        ELSE /\ Done(p)
             /\ queued' = IF at[p].taken /\ late THEN queued \union {x.key} ELSE queued
             /\ verdicts' =
                  IF ~at[p].taken THEN verdicts \union {<<x.key, "REJECTED">>}
                  ELSE IF ~late THEN verdicts \union {<<x.key, "HELD">>} ELSE verdicts
     /\ UNCHANGED <<filed, assigned, blocked, outreach, completed, failed, handoff, lock, active,
                    paused, clock, crashes>>

LeadBlocked(k) == {k, lead[k].email, lead[k].domain} \intersect blocked # {}

(* The research is checked again, then qualify_lead gives the lead the     *)
(* campaign of the lane.  A lead of another campaign ends the cycle.       *)
Assign(p) ==
  LET x == Item(p)
      k == x.raw.key
      lane == Lanes[at[p].lane]
  IN /\ at[p].pc = "assign"
     /\ IF x.case = "invalid"
        THEN /\ verdicts' = verdicts \union {<<x.key, "HELD">>}
             /\ Done(p) /\ UNCHANGED <<assigned, active, failed, lock>>
        ELSE IF assigned[k] \notin {None, lane}
        THEN Raise(p) /\ UNCHANGED <<assigned, verdicts>>
        ELSE /\ assigned' = [assigned EXCEPT ![k] = lane]
             /\ GoTo(p, "work") /\ UNCHANGED <<verdicts, active, failed, lock>>
     /\ UNCHANGED <<filed, blocked, queued, outreach, completed, handoff, paused, clock, crashes>>

(* The qualification and the decision maker.  A lead that does not qualify *)
(* goes back or is rejected, with no verdict on the candidate; a decision  *)
(* maker that does not stand up ends the whole cycle.                      *)
Work(p) ==
  LET x == Item(p)
      k == x.raw.key
      out == LeadBlocked(k) \/ x.case = "rejected"
  IN /\ at[p].pc = "work"
     /\ IF out \/ x.case = "held"
        THEN /\ lead' = [lead EXCEPT ![k].status = IF out THEN "REJECTED" ELSE "DISCOVERED"]
             /\ Done(p) /\ UNCHANGED <<verdicts, active, failed, lock>>
        ELSE IF x.case = "no_decision_maker"
        THEN Raise(p) /\ UNCHANGED <<lead, verdicts>>
        ELSE IF Considered(x) = 0
        THEN /\ verdicts' = verdicts \union {<<x.key, "HELD">>}
             /\ Done(p) /\ UNCHANGED <<lead, active, failed, lock>>
        ELSE GoTo(p, "messages") /\ UNCHANGED <<lead, verdicts, active, failed, lock>>
     /\ UNCHANGED <<cand, assigned, blocked, queued, outreach, completed, handoff, paused, clock,
                    crashes>>

(* PRODUCTION_MESSAGE_COMMITTED is written with its outreach row, and read *)
(* before the row is written.  Seeded fault: it is not read.               *)
NoSuch(key) == FALSE
Committed(key) == \E o \in outreach : o.key = key

(* One message.  One that is refused ends the candidate without a verdict. *)
(* A key that is on record counts as this message, whoever it was written  *)
(* for; the touch number is looked at only when it is not.                 *)
Message(p) ==
  LET x == Item(p)
      m == at[p].message + 1
      key == MessageKey(x, m)
      flaw == x.messages[m].flaw
  IN /\ at[p].pc = "messages" /\ at[p].message < Considered(x)
     /\ IF flaw = "review" \/ (flaw = "touch" /\ ~Committed(key))
        THEN Done(p) /\ UNCHANGED <<outreach, active, failed, lock>>
        ELSE IF flaw = "number" /\ ~Committed(key)
        THEN Raise(p) /\ UNCHANGED outreach
        ELSE /\ outreach' = IF Committed(key) THEN outreach
               ELSE outreach \union
                      {[key |-> key, lead |-> x.raw.key, id |-> Cardinality(outreach)]}
             /\ at' = [at EXCEPT ![p].message = m] /\ UNCHANGED <<active, failed, lock>>
     /\ UNCHANGED <<filed, assigned, blocked, verdicts, queued, completed, handoff, paused, clock,
                    crashes>>

(* The lead awaits review and the candidate is COMMITTED. *)
Commit(p) ==
  LET x == Item(p) IN
  /\ at[p].pc = "messages" /\ at[p].message = Considered(x)
  /\ lead' = [lead EXCEPT ![x.raw.key].status = "REVIEW_PENDING"]
  /\ verdicts' = verdicts \union {<<x.key, "COMMITTED">>}
  /\ Done(p)
  /\ UNCHANGED <<cand, assigned, blocked, queued, outreach, completed, failed, handoff, lock,
                 active, paused, clock, crashes>>

CloseLane(p) ==
  /\ at[p].pc = "item" /\ at[p].item = 0
  /\ active' = None
  /\ at' = [at EXCEPT ![p].pc = IF at[p].lane < Len(Lanes) THEN "lane" ELSE "complete",
                      ![p].lane = @ + 1]
  /\ UNCHANGED <<filed, assigned, blocked, records, handoff, lock, paused, clock, crashes>>

Complete(p) ==
  /\ at[p].pc = "complete"
  /\ completed' = completed \union {at[p].run}
  /\ at' = [at EXCEPT ![p] = Idle] /\ lock' = None
  /\ UNCHANGED <<filed, assigned, blocked, verdicts, queued, outreach, failed, handoff, active,
                 paused, clock, crashes>>

(* The lock goes with the process, the campaign stays as it is. *)
Die(p) ==
  /\ at[p] # Idle /\ crashes < MaxCrashes
  /\ at' = [at EXCEPT ![p] = Idle] /\ crashes' = crashes + 1
  /\ lock' = IF lock = p THEN None ELSE lock
  /\ UNCHANGED <<filed, assigned, blocked, records, handoff, active, paused, clock>>

(* pause, stop and resume of the entry point: no lock is asked for. *)
SetState(pause) ==
  /\ active' = None /\ paused' = pause
  /\ UNCHANGED <<filed, assigned, blocked, records, handoff, at, lock, clock, crashes>>

(* configure_production_runtime makes the system ACTIVE too, and leaves    *)
(* the campaigns.                                                          *)
Configure ==
  /\ paused' = FALSE
  /\ UNCHANGED <<filed, assigned, blocked, records, handoff, at, lock, active, clock, crashes>>

Tick ==
  /\ clock < MaxClock /\ clock' = clock + 1
  /\ UNCHANGED <<filed, assigned, blocked, records, handoff, at, lock, active, paused, crashes>>

Suppress(k) ==
  SuppressLead(k) /\ UNCHANGED <<assigned, records, control>>

-----------------------------------------------------------------------------
Init ==
  /\ DiscoveryInit
  /\ handoff \in Handoffs /\ assigned = [k \in Keys |-> None]
  /\ at = [p \in Procs |-> Idle] /\ lock = None /\ active = None /\ paused = FALSE
  /\ clock = 1 /\ crashes = 0
  /\ verdicts = {} /\ queued = {} /\ outreach = {} /\ completed = {} /\ failed = {}

Step(p) ==
  \/ \E r \in Runs : Begin(p, r)
  \/ OpenLane(p) \/ Take(p) \/ Judge(p) \/ Assign(p) \/ Work(p)
  \/ Message(p) \/ Commit(p) \/ CloseLane(p) \/ Complete(p) \/ Die(p)

Next ==
  \/ \E p \in Procs : Step(p)
  \/ \E pause \in BOOLEAN : SetState(pause)
  \/ Configure
  \/ Tick
  \/ \E k \in Keys : Suppress(k)

Spec == Init /\ [][Next]_vars

-----------------------------------------------------------------------------
(* Type invariant of the log's entries, the lock and the processes. *)
TypeOK ==
  /\ \A v \in verdicts : v[2] \in {"COMMITTED", "HELD", "REJECTED", "EXCLUDED"}
  /\ completed \union failed \subseteq Runs
  /\ assigned \in [Keys -> {"PRIMARY", "SECONDARY", None}]
  /\ lock \in Procs \union {None} /\ active \in {"PRIMARY", "SECONDARY", None}
  /\ paused \in BOOLEAN /\ clock \in 1..MaxClock /\ crashes \in 0..MaxCrashes
  /\ \A p \in Procs :
       at[p] # Idle => /\ lock = p /\ at[p].run \in Runs
                       /\ at[p].pc \in {"lane", "item", "judge", "assign", "work", "messages",
                                         "complete"}
                       /\ at[p].item \in 0..Len(Here(p)) /\ at[p].researched \in 0..ResearchCap

(* A candidate is judged once: it is never COMMITTED and also HELD or      *)
(* REJECTED, however often its handoff is run, by whom, and whoever dies.  *)
(* Only a name excluded later adds a second verdict.                       *)
OneVerdict ==
  \A v, w \in verdicts : v[1] = w[1] /\ "EXCLUDED" \notin {v[2], w[2]} => v = w

(* A message key leaves one outreach row, and a candidate is COMMITTED     *)
(* only with a row for the key of each of the first three messages it has  *)
(* in a handoff that brought it.  A message that shares its key with an    *)
(* earlier one has no row of its own, and a fourth message has none.       *)
MessagesOnce ==
  /\ \A o, q \in outreach : o.key = q.key => o = q
  /\ \A v \in verdicts : v[2] = "COMMITTED" =>
       \E r \in Runs : \E i \in DOMAIN handoff[r] :
         /\ handoff[r][i].key = v[1]
         /\ \A m \in 1..Considered(handoff[r][i]) :
              \E o \in outreach : o.key = MessageKey(handoff[r][i], m)

(* A campaign is ACTIVE only while a cycle is in its lane, unless a        *)
(* process has died.                                                       *)
ActiveInLane ==
  active # None /\ crashes = 0 =>
    \E p \in Procs : at[p].pc # "idle" /\ at[p].lane \in DOMAIN Lanes /\ Lanes[at[p].lane] = active

(* A cycle that has COMPLETED has dealt with every candidate of its        *)
(* handoff: it was judged or queued, or it has a lead.                     *)
CompletedIsWhole ==
  /\ TypeOK
  /\ \A r \in completed : \A i \in DOMAIN handoff[r] :
       LET x == handoff[r][i] IN
       \/ x.case = "unsourced" \/ Judged(x.key) \/ x.key \in queued
       \/ lead[x.raw.key] # None
=============================================================================
