--------------------------- MODULE NotifierProofs ---------------------------
(***************************************************************************)
(* The outbox for every number of processes and messages and every bound,  *)
(* while calls overlap and die anywhere: types, and the account the        *)
(* attempts give of what the platform showed, which rests on each attempt  *)
(* belonging to one call (NumbersDiffer) and on the attempts that may      *)
(* still turn out to have shown nothing (Open).  For calls that follow one *)
(* another, also the agreement of rows and mappings.                       *)
(***************************************************************************)
EXTENDS Notifier, FiniteSetTheorems, TLAPS

InFlight   == {"deliver", "record"}
QueueCalls == {"insert", "count", "announce"} \union InFlight

(* Where a call stands decides what its locals hold. *)
LocalsFit ==
  \A p \in Procs :
    /\ pc[p] # "idle" => msg[p] \in Messages
    /\ pc[p] \in {"announce"} \union InFlight => number[p] \in 1..MaxAttempts

TypedInv == TypeOK /\ LocalsFit

(* A call whose attempt is announced and not recorded is the only one that *)
(* works on it.                                                            *)
AttemptsStarted ==
  \A p \in Procs : pc[p] \in InFlight => status[msg[p]][number[p]] = "STARTED"
NumbersDiffer ==
  \A p, q \in Procs :
    /\ pc[p] \in InFlight /\ pc[q] \in InFlight /\ p # q /\ msg[p] = msg[q]
    => number[p] # number[q]

(* The attempts that have shown nothing yet, or nothing at all, although   *)
(* they are not recorded as failed; the others account for what was shown. *)
Broke(p) == <<msg[p], number[p]>> \in broken
Undecided(p) == \/ pc[p] = "deliver"
                \/ pc[p] = "record" /\ answer[p] = "failed" /\ ~Broke(p)
Open(m) == {n \in 1..MaxAttempts :
              \E p \in Procs : Undecided(p) /\ msg[p] = m /\ number[p] = n}
Traces(m) == {n \in 1..MaxAttempts : \/ status[m][n] \notin {"NONE", "FAILED"}
                                      \/ <<m, n>> \in broken}
Behind(m) == Traces(m) \ Open(m)
BrokenStarted == \A x \in broken : status[x[1]][x[2]] # "NONE"
ShownBehind == \A m \in Messages : delivered[m] <= Cardinality(Behind(m))

(* A success has its mapping, which leaves no room for another. *)
SuccessMapped ==
  \A m \in Messages, n \in 1..MaxAttempts :
    status[m][n] = "SUCCEEDED" => <<m, ExternalId[m]>> \in mappings
SingleSuccess ==
  \A m \in Messages, i, j \in 1..MaxAttempts :
    status[m][i] = "SUCCEEDED" /\ status[m][j] = "SUCCEEDED" => i = j

FlightInv == /\ TypedInv /\ AttemptsStarted /\ NumbersDiffer
             /\ BrokenStarted /\ ShownBehind
             /\ SuccessMapped /\ SingleSuccess
-----------------------------------------------------------------------------
(* Empty tables and idle processes are typed. *)
LEMMA InitTyped == Init => TypedInv
<1> SUFFICES ASSUME Init PROVE TypedInv
  OBVIOUS
<1>1. overlapped \in BOOLEAN
  BY Zenon DEF Init
<1>2. TypeOK
  BY <1>1, NotifierAssumption
  DEF Init, TypeOK, States, Settled, Statuses, Labels, Answers
<1>3. LocalsFit
  BY DEF Init, LocalsFit, InFlight
<1> QED
  BY <1>2, <1>3 DEF TypedInv

(* A call that returns leaves its locals empty. *)
LEMMA ReturnTyped ==
  ASSUME TypedInv, NEW p \in Procs, Return(p)
  PROVE  /\ pc' \in [Procs -> Labels] /\ msg' \in [Procs -> Messages \union {None}]
         /\ number' \in [Procs -> 0..MaxAttempts] /\ answer' \in [Procs -> Answers]
         /\ LocalsFit'
  BY NotifierAssumption
  DEF TypedInv, TypeOK, Return, Goto, Labels, Answers, LocalsFit, InFlight

(* An attempt's status can be rewritten. *)
LEMMA StatusTyped ==
  ASSUME TypedInv, NEW m \in Messages, NEW n \in 1..MaxAttempts, NEW s \in Statuses
  PROVE  [status EXCEPT ![m][n] = s] \in [Messages -> [1..MaxAttempts -> Statuses]]
<1>1. status[m] \in [1..MaxAttempts -> Statuses]
  BY DEF TypedInv, TypeOK
<1>2. [status[m] EXCEPT ![n] = s] \in [1..MaxAttempts -> Statuses]
  BY <1>1
<1> QED
  BY <1>2 DEF TypedInv, TypeOK

(* Every step of a call and every call that begins keeps the types. *)
LEMMA NextTyped == TypedInv /\ [Next]_vars => TypedInv'
<1> SUFFICES ASSUME TypedInv, [Next]_vars PROVE TypedInv'
  OBVIOUS
<1> USE DEF TypedInv, TypeOK
<1>1. CASE UNCHANGED vars
  BY <1>1 DEF vars, table, locals, LocalsFit
<1>2. ASSUME NEW p \in Procs, NEW m \in Messages, BeginQueue(p, m) \/ BeginReconcile(p, m)
      PROVE  TypedInv'
  <2>1. overlapped' \in BOOLEAN
    BY <1>2, Zenon DEF BeginQueue, BeginReconcile, Begins
  <2> QED
    BY ZenonT(60), <2>1, <1>2 DEF BeginQueue, BeginReconcile, Begins, Goto, table, Labels,
       LocalsFit, InFlight
<1>3. ASSUME NEW p \in Procs, InsertRow(p) PROVE TypedInv'
  <2>1. CASE row[msg[p]] # "NONE"
    BY <2>1, <1>3, ReturnTyped DEF InsertRow
  <2>2. CASE row[msg[p]] = "NONE"
    BY ZenonT(60), <2>2, <1>3 DEF InsertRow, Goto, locals, LocalsFit, InFlight, States, Labels
  <2> QED
    BY <2>1, <2>2
<1>4. ASSUME NEW p \in Procs, CountAttempts(p) PROVE TypedInv'
  <2>1. msg[p] \in Messages
    BY <1>4 DEF CountAttempts, LocalsFit
  <2>2. CASE attempts[msg[p]] >= MaxAttempts
    <3>1. Return(p) /\ UNCHANGED <<table, delivered, broken, crashes, overlapped>>
      BY <2>1, <2>2, <1>4, NotifierAssumption DEF CountAttempts
    <3> QED
      BY <3>1, ReturnTyped DEF table
  <2>3. CASE attempts[msg[p]] < MaxAttempts
    <3>1. attempts[msg[p]] + 1 \in 1..MaxAttempts
      BY <2>1, <2>3, NotifierAssumption
    <3>2. /\ number' = [number EXCEPT ![p] = attempts[msg[p]] + 1]
          /\ pc' = [pc EXCEPT ![p] = "announce"]
          /\ UNCHANGED <<table, delivered, broken, msg, answer, crashes, overlapped>>
      BY <2>1, <2>3, <1>4, NotifierAssumption DEF CountAttempts, Goto
    <3>3. "announce" \in Labels
      BY DEF Labels
    <3>4. TypeOK'
      BY <3>1, <3>2, <3>3, NotifierAssumption DEF table
    <3>5. LocalsFit'
      BY <2>1, <3>1, <3>2 DEF LocalsFit, InFlight
    <3> QED
      BY <3>4, <3>5
  <2>4. attempts[msg[p]] \in Nat /\ MaxAttempts \in Nat
    BY <2>1, NotifierAssumption
  <2> HIDE DEF TypedInv, TypeOK
  <2> QED
    BY <2>2, <2>3, <2>4
<1>5. ASSUME NEW p \in Procs, Announce(p) PROVE TypedInv'
  <2>1. msg[p] \in Messages /\ number[p] \in 1..MaxAttempts
    BY <1>5 DEF Announce, LocalsFit, InFlight
  <2>2. CASE ~NumberFree(msg[p], number[p])
    BY <2>2, <1>5, ReturnTyped DEF Announce
  <2>3. CASE NumberFree(msg[p], number[p])
    <3>1. status' \in [Messages -> [1..MaxAttempts -> Statuses]]
      <4>1. "STARTED" \in Statuses
        BY DEF Statuses
      <4>2. status' = [status EXCEPT ![msg[p]][number[p]] = "STARTED"]
        BY <2>3, <1>5 DEF Announce
      <4> QED
        BY <2>1, <4>1, <4>2, StatusTyped, Zenon DEF TypedInv
    <3>2. attempts' \in [Messages -> 0..MaxAttempts]
      BY <2>1, <2>3, <1>5, NotifierAssumption DEF Announce
    <3> QED
      BY <2>1, <2>3, <3>1, <3>2, <1>5
      DEF Announce, Goto, locals, LocalsFit, InFlight, Labels, States
  <2> QED
    BY <2>2, <2>3
<1>6. ASSUME NEW p \in Procs, Deliver(p) PROVE TypedInv'
  <2>1. msg[p] \in Messages /\ number[p] \in 1..MaxAttempts
    BY <1>6 DEF Deliver, LocalsFit, InFlight
  <2>2. /\ delivered' \in [Messages -> Nat] /\ answer' \in [Procs -> Answers]
        /\ broken' \subseteq Messages \X (1..MaxAttempts)
    BY <1>6, <2>1 DEF Deliver
  <2> QED
    BY <1>6, <2>2 DEF Deliver, Goto, table, Labels, LocalsFit, InFlight
<1>7. ASSUME NEW p \in Procs, RecordUnsettled(p) PROVE TypedInv'
  <2>1. msg[p] \in Messages /\ number[p] \in 1..MaxAttempts
    BY <1>7 DEF RecordUnsettled, LocalsFit, InFlight
  <2>2. status' \in [Messages -> [1..MaxAttempts -> Statuses]]
    <3>1. AttemptStatus(answer[p]) \in Statuses
      BY DEF AttemptStatus, Statuses
    <3>2. status' = [status EXCEPT ![msg[p]][number[p]] = AttemptStatus(answer[p])]
      BY <1>7 DEF RecordUnsettled
    <3> QED
      BY <2>1, <3>1, <3>2, StatusTyped, Zenon
  <2>3. row' \in [Messages -> States]
    <3>1. (IF answer[p] = "unknown" THEN "UNKNOWN" ELSE "FAILED") \in States
      BY DEF States
    <3> QED
      BY <1>7, <2>1, <3>1 DEF RecordUnsettled
  <2> QED
    BY <1>7, <2>2, <2>3, ReturnTyped DEF RecordUnsettled
<1>8. ASSUME NEW p \in Procs, RecordSuccess(p) PROVE TypedInv'
  <2>1. msg[p] \in Messages /\ number[p] \in 1..MaxAttempts
    BY <1>8 DEF RecordSuccess, LocalsFit, InFlight
  <2>2. ExternalId[msg[p]] \in ExternalIds /\ Done(msg[p]) \in States
    BY <2>1, NotifierAssumption DEF Done, States, Settled
  <2>3. CASE IdFree(ExternalId[msg[p]])
    <3>1. /\ status' = [status EXCEPT ![msg[p]][number[p]] = "SUCCEEDED"]
          /\ row' = [row EXCEPT ![msg[p]] = Done(msg[p])]
          /\ mappings' = mappings \union {<<msg[p], ExternalId[msg[p]]>>}
      BY <1>8, <2>3 DEF RecordSuccess
    <3>2. "SUCCEEDED" \in Statuses
      BY DEF Statuses
    <3>3. status' \in [Messages -> [1..MaxAttempts -> Statuses]]
      BY <2>1, <3>1, <3>2, StatusTyped, Zenon
    <3>4. row' \in [Messages -> States] /\ mappings' \subseteq Messages \X ExternalIds
      BY <2>1, <2>2, <3>1
    <3> QED
      BY <1>8, <3>3, <3>4, ReturnTyped DEF RecordSuccess
  <2>4. CASE ~IdFree(ExternalId[msg[p]])
    BY <1>8, <2>4, ReturnTyped DEF RecordSuccess
  <2> QED
    BY <2>3, <2>4
<1>9. ASSUME NEW p \in Procs, SettleByEvidence(p) PROVE TypedInv'
  <2>1. msg[p] \in Messages
    BY <1>9 DEF SettleByEvidence, LocalsFit
  <2>2. Done(msg[p]) \in States
    BY DEF Done, States, Settled
  <2>3. row' \in [Messages -> States] /\ mappings' \subseteq Messages \X ExternalIds
    <3>1. PICK id \in ExternalIds :
            \/ /\ row' = [row EXCEPT ![msg[p]] = Done(msg[p])]
               /\ mappings' = mappings \union {<<msg[p], id>>}
            \/ UNCHANGED <<row, mappings>>
      BY <1>9 DEF SettleByEvidence
    <3>2. CASE UNCHANGED <<row, mappings>>
      BY <3>2
    <3>3. CASE /\ row' = [row EXCEPT ![msg[p]] = Done(msg[p])]
               /\ mappings' = mappings \union {<<msg[p], id>>}
      BY <2>1, <2>2, <3>3
    <3> QED
      BY <3>1, <3>2, <3>3
  <2> QED
    BY <1>9, <2>3, ReturnTyped DEF SettleByEvidence
<1>10. ASSUME NEW p \in Procs, Crash(p) PROVE TypedInv'
  BY <1>10, ReturnTyped DEF Crash, table
<1> QED
  BY <1>1, <1>2, <1>3, <1>4, <1>5, <1>6, <1>7, <1>8, <1>9, <1>10 DEF Next

-----------------------------------------------------------------------------
(* Which steps can disturb an attempt that is in flight. *)

(* Announcing takes a number nobody has in flight. *)
LEMMA StartedStep ==
  FlightInv /\ [Next]_vars => AttemptsStarted' /\ NumbersDiffer'
<1> SUFFICES ASSUME FlightInv, [Next]_vars PROVE AttemptsStarted' /\ NumbersDiffer'
  OBVIOUS
<1> USE DEF FlightInv, TypedInv, TypeOK
<1>1. CASE /\ UNCHANGED <<status, msg, number>>
           /\ \A q \in Procs : pc'[q] \in InFlight => pc[q] \in InFlight
  BY <1>1 DEF AttemptsStarted, NumbersDiffer
<1>2. ASSUME NEW p \in Procs, Return(p), UNCHANGED status
      PROVE  AttemptsStarted' /\ NumbersDiffer'
  BY <1>2 DEF Return, Goto, AttemptsStarted, NumbersDiffer, InFlight
<1>3. ASSUME NEW p \in Procs, NEW m \in Messages, BeginQueue(p, m) \/ BeginReconcile(p, m)
      PROVE  AttemptsStarted' /\ NumbersDiffer'
  <2>1. PICK label \in {"insert", "count", "settle"} : Goto(p, label)
    BY <1>3 DEF BeginQueue, BeginReconcile
  <2>2. msg' = [msg EXCEPT ![p] = m] /\ UNCHANGED <<status, number>>
    BY <1>3 DEF BeginQueue, BeginReconcile, Begins, table
  <2>3. \A q \in Procs : pc'[q] \in InFlight => q # p /\ pc[q] \in InFlight
    BY <2>1 DEF Goto, InFlight
  <2> QED
    BY <2>2, <2>3 DEF AttemptsStarted, NumbersDiffer
<1>4. ASSUME NEW p \in Procs, InsertRow(p) PROVE AttemptsStarted' /\ NumbersDiffer'
  BY <1>1, <1>2, <1>4 DEF InsertRow, Goto, locals, InFlight
<1>5. ASSUME NEW p \in Procs, CountAttempts(p) PROVE AttemptsStarted' /\ NumbersDiffer'
  <2>1. CASE Return(p)
    BY <2>1, <1>2, <1>5 DEF CountAttempts, table
  <2>2. CASE pc' = [pc EXCEPT ![p] = "announce"]
    BY <2>2, <1>5 DEF CountAttempts, Return, Goto, table, InFlight, AttemptsStarted,
       NumbersDiffer
  <2> QED
    BY <2>1, <2>2, <1>5 DEF CountAttempts, Goto
<1>6. ASSUME NEW p \in Procs, Announce(p) PROVE AttemptsStarted' /\ NumbersDiffer'
  <2>1. msg[p] \in Messages /\ number[p] \in 1..MaxAttempts
    BY <1>6 DEF Announce, LocalsFit, InFlight
  <2>2. CASE ~NumberFree(msg[p], number[p])
    BY <2>2, <1>2, <1>6 DEF Announce
  <2>3. CASE NumberFree(msg[p], number[p])
    <3>1. /\ status' = [status EXCEPT ![msg[p]][number[p]] = "STARTED"]
          /\ pc' = [pc EXCEPT ![p] = "deliver"] /\ UNCHANGED <<msg, number>>
          /\ status[msg[p]][number[p]] = "NONE"
      BY <2>3, <1>6 DEF Announce, Goto, NumberFree, locals
    <3>2. \A q \in Procs : pc'[q] \in InFlight => q = p \/ pc[q] \in InFlight
      BY <3>1
    <3>3. \A q \in Procs :
            q # p /\ pc[q] \in InFlight => msg[q] # msg[p] \/ number[q] # number[p]
      BY <3>1 DEF AttemptsStarted
    <3>4. AttemptsStarted'
      BY ZenonT(60), <2>1, <3>1, <3>2, <3>3 DEF AttemptsStarted, LocalsFit, InFlight
    <3>5. NumbersDiffer'
      BY <3>1, <3>2, <3>3 DEF NumbersDiffer
    <3> QED
      BY <3>4, <3>5
  <2> QED
    BY <2>2, <2>3
<1>7. ASSUME NEW p \in Procs, Deliver(p) PROVE AttemptsStarted' /\ NumbersDiffer'
  BY <1>1, <1>7 DEF Deliver, Goto, table, InFlight
<1>8. ASSUME NEW p \in Procs, NEW s \in Statuses, pc[p] \in InFlight, Return(p),
             status' = [status EXCEPT ![msg[p]][number[p]] = s]
      PROVE  AttemptsStarted' /\ NumbersDiffer'
  <2>1. \A q \in Procs :
          pc'[q] \in InFlight =>
            /\ q # p /\ pc[q] \in InFlight /\ msg'[q] = msg[q] /\ number'[q] = number[q]
            /\ msg[q] # msg[p] \/ number[q] # number[p]
    BY <1>8 DEF Return, Goto, InFlight, NumbersDiffer
  <2>2. msg[p] \in Messages /\ number[p] \in 1..MaxAttempts
    BY <1>8 DEF LocalsFit, InFlight
  <2>3. AttemptsStarted'
    BY <1>8, <2>1, <2>2 DEF AttemptsStarted, LocalsFit, InFlight
  <2>4. NumbersDiffer'
    BY <2>1 DEF NumbersDiffer
  <2> QED
    BY <2>3, <2>4
<1>9. ASSUME NEW p \in Procs, RecordUnsettled(p) \/ RecordSuccess(p)
      PROVE  AttemptsStarted' /\ NumbersDiffer'
  <2>1. "SUCCEEDED" \in Statuses /\ AttemptStatus(answer[p]) \in Statuses
    BY DEF Statuses, AttemptStatus
  <2>2. CASE UNCHANGED status
    BY <2>2, <1>2, <1>9 DEF RecordUnsettled, RecordSuccess
  <2>3. CASE \E s \in Statuses : status' = [status EXCEPT ![msg[p]][number[p]] = s]
    BY <2>3, <1>8, <1>9 DEF RecordUnsettled, RecordSuccess, InFlight
  <2> QED
    BY <2>1, <2>2, <2>3, <1>9 DEF RecordUnsettled, RecordSuccess
<1>10. ASSUME NEW p \in Procs, SettleByEvidence(p) \/ Crash(p)
       PROVE  AttemptsStarted' /\ NumbersDiffer'
  BY <1>2, <1>10 DEF SettleByEvidence, Crash, table
<1>11. CASE UNCHANGED vars
  BY <1>1, <1>11 DEF vars, table, locals
<1> QED
  BY <1>3, <1>4, <1>5, <1>6, <1>7, <1>9, <1>10, <1>11 DEF Next

(* Mappings are only added. *)
LEMMA MappingsGrow == [Next]_vars => mappings \subseteq mappings'
BY DEF Next, vars, table, BeginQueue, BeginReconcile, InsertRow, CountAttempts, Announce,
   Deliver, RecordUnsettled, RecordSuccess, SettleByEvidence, Crash

(* A success is recorded together with a mapping that was free. *)
LEMMA SuccessStep ==
  FlightInv /\ [Next]_vars => SuccessMapped' /\ SingleSuccess'
<1> SUFFICES ASSUME FlightInv, [Next]_vars PROVE SuccessMapped' /\ SingleSuccess'
  OBVIOUS
<1> USE DEF FlightInv, TypedInv, TypeOK
<1>1. CASE \A m \in Messages, n \in 1..MaxAttempts :
             status'[m][n] = "SUCCEEDED" => status[m][n] = "SUCCEEDED"
  BY <1>1, MappingsGrow DEF SuccessMapped, SingleSuccess
<1>2. CASE UNCHANGED status
  BY <1>1, <1>2
<1>3. ASSUME NEW p \in Procs, Announce(p) PROVE SuccessMapped' /\ SingleSuccess'
  <2>1. msg[p] \in Messages /\ number[p] \in 1..MaxAttempts
    BY <1>3 DEF Announce, LocalsFit, InFlight
  <2>2. \/ UNCHANGED status
        \/ status' = [status EXCEPT ![msg[p]][number[p]] = "STARTED"]
    BY <1>3 DEF Announce
  <2>3. CASE status' = [status EXCEPT ![msg[p]][number[p]] = "STARTED"]
    <3>1. \A m \in Messages, n \in 1..MaxAttempts :
            status'[m][n] = "SUCCEEDED" => status[m][n] = "SUCCEEDED"
      BY <2>1, <2>3
    <3> QED
      BY <3>1, <1>1
  <2> QED
    BY <2>2, <2>3, <1>2
<1>4. ASSUME NEW p \in Procs, RecordUnsettled(p) PROVE SuccessMapped' /\ SingleSuccess'
  <2>1. msg[p] \in Messages /\ number[p] \in 1..MaxAttempts
    BY <1>4 DEF RecordUnsettled, LocalsFit, InFlight
  <2>2. status' = [status EXCEPT ![msg[p]][number[p]] = AttemptStatus(answer[p])]
    BY <1>4 DEF RecordUnsettled
  <2>3. AttemptStatus(answer[p]) # "SUCCEEDED"
    BY DEF AttemptStatus
  <2> QED
    BY <2>1, <2>2, <2>3, <1>1
<1>5. ASSUME NEW p \in Procs, RecordSuccess(p) PROVE SuccessMapped' /\ SingleSuccess'
  <2>1. msg[p] \in Messages /\ number[p] \in 1..MaxAttempts
    BY <1>5 DEF RecordSuccess, LocalsFit, InFlight
  <2>2. CASE ~IdFree(ExternalId[msg[p]])
    <3>1. UNCHANGED status
      BY <2>2, <1>5 DEF RecordSuccess
    <3> QED
      BY <3>1, <1>2
  <2>3. CASE IdFree(ExternalId[msg[p]])
    <3>1. /\ status' = [status EXCEPT ![msg[p]][number[p]] = "SUCCEEDED"]
          /\ <<msg[p], ExternalId[msg[p]]>> \in mappings'
      BY <1>5, <2>3 DEF RecordSuccess
    <3>2. \A n \in 1..MaxAttempts : status[msg[p]][n] # "SUCCEEDED"
      BY <2>1, <2>3 DEF IdFree, SuccessMapped
    <3>3. SuccessMapped'
      BY <2>1, <3>1, MappingsGrow DEF SuccessMapped
    <3>4. SingleSuccess'
      BY <2>1, <3>1, <3>2 DEF SingleSuccess
    <3> QED
      BY <3>3, <3>4
  <2> QED
    BY <2>2, <2>3
<1> QED
  BY <1>3, <1>4, <1>5, <1>2 DEF Next, vars, table, BeginQueue, BeginReconcile, InsertRow,
     CountAttempts, Deliver, SettleByEvidence, Crash

(* An attempt that accounts for what was shown does so for good: only one  *)
(* that is still open becomes a failure.                                   *)
LEMMA BehindKept ==
  ASSUME FlightInv, [Next]_vars, NEW m \in Messages
  PROVE  Behind(m) \subseteq Behind(m)'
<1> SUFFICES ASSUME NEW n \in 1..MaxAttempts, n \in Behind(m) PROVE n \in Behind(m)'
  BY DEF Behind, Traces
<1> USE DEF FlightInv, TypedInv, TypeOK
<1>a. /\ status[m][n] \notin {"NONE", "FAILED"} \/ <<m, n>> \in broken
      /\ \A q \in Procs : Undecided(q) => msg[q] # m \/ number[q] # n
  BY DEF Behind, Traces, Open
<1> DEFINE Kept ==
      /\ status'[m][n] \notin {"NONE", "FAILED"} \/ <<m, n>> \in broken'
      /\ \A q \in Procs : Undecided(q)' => msg'[q] # m \/ number'[q] # n
<1>1. ASSUME UNCHANGED vars PROVE Kept
  BY <1>1, <1>a DEF vars, table, locals, Undecided, Broke
<1>2. ASSUME NEW p \in Procs, NEW k \in Messages, BeginQueue(p, k) \/ BeginReconcile(p, k)
      PROVE  Kept
  <2>1. PICK label \in {"insert", "count", "settle"} : Goto(p, label)
    BY <1>2 DEF BeginQueue, BeginReconcile
  <2>2. msg' = [msg EXCEPT ![p] = k] /\ UNCHANGED <<status, broken, number, answer>>
    BY <1>2 DEF BeginQueue, BeginReconcile, Begins, table
  <2> QED
    BY <2>1, <2>2, <1>a DEF Goto, Undecided, Broke
<1>3. ASSUME NEW p \in Procs, Return(p), UNCHANGED <<status, broken>> PROVE Kept
  BY <1>3, <1>a DEF Return, Goto, Undecided, Broke
<1>4. ASSUME NEW p \in Procs, NEW label \in Labels \ InFlight, Goto(p, label),
             UNCHANGED <<status, broken, msg, answer>>,
             \A q \in Procs : q # p => number'[q] = number[q]
      PROVE  Kept
  BY <1>4, <1>a DEF Goto, Undecided, Broke, InFlight
<1>5. ASSUME NEW p \in Procs, InsertRow(p) PROVE Kept
  BY <1>3, <1>4, <1>5 DEF InsertRow, locals, Labels, InFlight
<1>6. ASSUME NEW p \in Procs, CountAttempts(p) PROVE Kept
  BY <1>3, <1>4, <1>6 DEF CountAttempts, table, Labels, InFlight
<1>7. ASSUME NEW p \in Procs, Announce(p) PROVE Kept
  <2>1. msg[p] \in Messages /\ number[p] \in 1..MaxAttempts
    BY <1>7 DEF Announce, LocalsFit, InFlight
  <2>2. CASE ~NumberFree(msg[p], number[p])
    BY <2>2, <1>3, <1>7 DEF Announce
  <2>3. CASE NumberFree(msg[p], number[p])
    <3>1. /\ status' = [status EXCEPT ![msg[p]][number[p]] = "STARTED"]
          /\ pc' = [pc EXCEPT ![p] = "deliver"] /\ UNCHANGED <<broken, msg, number, answer>>
          /\ status[msg[p]][number[p]] = "NONE"
      BY <2>3, <1>7 DEF Announce, Goto, NumberFree, locals
    <3>2. msg[p] # m \/ number[p] # n
      BY <1>a, <3>1, <<m, n>> \in broken => status[m][n] # "NONE" DEF BrokenStarted
    <3> QED
      BY <2>1, <3>1, <3>2, <1>a DEF Undecided, Broke
  <2> QED
    BY <2>2, <2>3
<1>8. ASSUME NEW p \in Procs, Deliver(p) PROVE Kept
  <2>1. /\ pc[p] = "deliver" /\ pc' = [pc EXCEPT ![p] = "record"]
        /\ UNCHANGED <<status, msg, number>> /\ broken \subseteq broken'
        /\ \A q \in Procs : q # p => answer'[q] = answer[q]
    BY <1>8 DEF Deliver, Goto, table
  <2> QED
    BY <2>1, <1>a DEF Undecided, Broke
<1>9. ASSUME NEW p \in Procs, RecordUnsettled(p) PROVE Kept
  <2>1. msg[p] \in Messages /\ number[p] \in 1..MaxAttempts
    BY <1>9 DEF RecordUnsettled, LocalsFit, InFlight
  <2>2. /\ status' = [status EXCEPT ![msg[p]][number[p]] = AttemptStatus(answer[p])]
        /\ Return(p) /\ pc[p] = "record" /\ answer[p] \in {"unknown", "failed"}
        /\ UNCHANGED broken
    BY <1>9 DEF RecordUnsettled
  <2>3. CASE answer[p] = "failed"
    <3>1. msg[p] # m \/ number[p] # n \/ <<m, n>> \in broken'
      BY <2>2, <2>3, <1>a DEF Undecided, Broke
    <3> QED
      BY <2>1, <2>2, <3>1, <1>a DEF Return, Goto, Undecided, Broke
  <2>4. CASE answer[p] = "unknown"
    BY <2>1, <2>2, <2>4, <1>a DEF Return, Goto, Undecided, Broke, AttemptStatus
  <2> QED
    BY <2>2, <2>3, <2>4
<1>10. ASSUME NEW p \in Procs, RecordSuccess(p) PROVE Kept
  <2>1. msg[p] \in Messages /\ number[p] \in 1..MaxAttempts
    BY <1>10 DEF RecordSuccess, LocalsFit, InFlight
  <2>2. CASE UNCHANGED status
    BY <2>2, <1>3, <1>10 DEF RecordSuccess
  <2>3. CASE status' = [status EXCEPT ![msg[p]][number[p]] = "SUCCEEDED"]
    BY <2>1, <2>3, <1>10, <1>a DEF RecordSuccess, Return, Goto, Undecided, Broke
  <2> QED
    BY <2>2, <2>3, <1>10 DEF RecordSuccess
<1>11. ASSUME NEW p \in Procs, SettleByEvidence(p) \/ Crash(p) PROVE Kept
  BY <1>3, <1>11 DEF SettleByEvidence, Crash, table
<1> QED
  BY <1>1, <1>2, <1>5, <1>6, <1>7, <1>8, <1>9, <1>10, <1>11 DEF Next, Behind, Traces, Open

(* An attempt that broke was announced, and stays so. *)
LEMMA BrokenStep == FlightInv /\ [Next]_vars => BrokenStarted'
<1> SUFFICES ASSUME FlightInv, [Next]_vars PROVE BrokenStarted'
  OBVIOUS
<1>a. broken' \subseteq Messages \X (1..MaxAttempts)
  <2>1. TypedInv'
    BY NextTyped DEF FlightInv
  <2> QED
    BY <2>1 DEF TypedInv, TypeOK
<1> SUFFICES ASSUME NEW m \in Messages, NEW n \in 1..MaxAttempts, <<m, n>> \in broken'
             PROVE  status'[m][n] # "NONE"
  <2>1. ASSUME NEW x \in broken' PROVE status'[x[1]][x[2]] # "NONE"
    <3>1. PICK m \in Messages, n \in 1..MaxAttempts : x = <<m, n>>
      BY <1>a
    <3> QED
      BY <3>1
  <2> QED
    BY <2>1 DEF BrokenStarted
<1> USE DEF FlightInv, TypedInv, TypeOK
<1>1. CASE status[m][n] # "NONE"
  <2>1. CASE UNCHANGED status
    BY <1>1, <2>1
  <2>2. ASSUME NEW p \in Procs, NEW s \in Statuses \ {"NONE"}, msg[p] \in Messages,
               number[p] \in 1..MaxAttempts,
               status' = [status EXCEPT ![msg[p]][number[p]] = s]
        PROVE  status'[m][n] # "NONE"
    BY <1>1, <2>2
  <2>3. ASSUME NEW p \in Procs, Announce(p) \/ RecordUnsettled(p) \/ RecordSuccess(p)
        PROVE  status'[m][n] # "NONE"
    <3>1. msg[p] \in Messages /\ number[p] \in 1..MaxAttempts
      BY <2>3 DEF Announce, RecordUnsettled, RecordSuccess, LocalsFit, InFlight
    <3>2. {"STARTED", "SUCCEEDED", AttemptStatus(answer[p])} \subseteq Statuses \ {"NONE"}
      BY DEF AttemptStatus, Statuses
    <3>3. \/ UNCHANGED status
          \/ \E s \in {"STARTED", "SUCCEEDED", AttemptStatus(answer[p])} :
                status' = [status EXCEPT ![msg[p]][number[p]] = s]
      BY <2>3 DEF Announce, RecordUnsettled, RecordSuccess
    <3> QED
      BY <2>1, <2>2, <3>1, <3>2, <3>3
  <2> QED
    BY <2>1, <2>3 DEF Next, vars, table, BeginQueue, BeginReconcile, InsertRow, CountAttempts,
       Deliver, SettleByEvidence, Crash
<1>2. CASE <<m, n>> \notin broken
  <2>1. PICK p \in Procs : Deliver(p) /\ <<m, n>> = <<msg[p], number[p]>>
    BY ZenonT(60), <1>2 DEF Next, vars, BeginQueue, BeginReconcile, InsertRow, CountAttempts,
       Announce, Deliver, RecordUnsettled, RecordSuccess, SettleByEvidence, Crash
  <2> QED
    BY <2>1 DEF Deliver, AttemptsStarted, InFlight, table
<1>3. CASE <<m, n>> \in broken
  BY <1>1, <1>3, status[m][n] # "NONE" DEF BrokenStarted
<1> QED
  BY <1>2, <1>3

(* The attempts of a message are finitely many. *)
LEMMA BehindFinite ==
  ASSUME NEW m \in Messages
  PROVE  /\ IsFiniteSet(Traces(m)) /\ Cardinality(Traces(m)) \in 0..MaxAttempts
         /\ IsFiniteSet(Behind(m)) /\ Cardinality(Behind(m)) <= Cardinality(Traces(m))
<1>1. IsFiniteSet(1..MaxAttempts) /\ Cardinality(1..MaxAttempts) = MaxAttempts
  BY NotifierAssumption, FS_Interval
<1>2. Traces(m) \subseteq 1..MaxAttempts /\ Behind(m) \subseteq Traces(m)
  BY DEF Traces, Behind
<1>3. /\ IsFiniteSet(Traces(m)) /\ Cardinality(Traces(m)) <= MaxAttempts
  BY ZenonT(60), <1>1, <1>2, FS_Subset
<1>4. /\ IsFiniteSet(Behind(m)) /\ Cardinality(Behind(m)) <= Cardinality(Traces(m))
  BY <1>2, <1>3, FS_Subset
<1>5. Cardinality(Traces(m)) \in Nat
  BY <1>3, FS_CardinalityType
<1> QED
  BY <1>3, <1>4, <1>5, NotifierAssumption

(* Attempt numbers are finitely many. *)
LEMMA NumbersFinite == IsFiniteSet(1..MaxAttempts)
BY NotifierAssumption, FS_Interval

(* What is shown is shown by an attempt that was open. *)
LEMMA ShownStep == FlightInv /\ [Next]_vars => ShownBehind'
<1> SUFFICES ASSUME FlightInv, [Next]_vars, NEW m \in Messages
             PROVE  delivered'[m] <= Cardinality(Behind(m)')
  BY DEF ShownBehind
<1> USE DEF FlightInv, TypedInv, TypeOK
<1>1. TypedInv' /\ AttemptsStarted' /\ NumbersDiffer'
  BY NextTyped, StartedStep
<1>2. Behind(m) \subseteq Behind(m)' /\ IsFiniteSet(Behind(m)')
  <2>1. IsFiniteSet(1..MaxAttempts) /\ Behind(m)' \subseteq 1..MaxAttempts
    BY NumbersFinite DEF Behind, Traces
  <2> QED
    BY <2>1, BehindKept, FS_Subset
<1>3. /\ Cardinality(Behind(m)) <= Cardinality(Behind(m)')
      /\ Cardinality(Behind(m)) \in Nat /\ Cardinality(Behind(m)') \in Nat
      /\ IsFiniteSet(Behind(m))
  BY <1>2, FS_Subset, FS_CardinalityType
<1>4. CASE delivered'[m] = delivered[m]
  BY <1>3, <1>4 DEF ShownBehind
<1>5. CASE delivered'[m] # delivered[m]
  <2>1. PICK p \in Procs : Deliver(p)
    BY <1>5 DEF Next, vars, table, BeginQueue, BeginReconcile, InsertRow, CountAttempts,
       Announce, RecordUnsettled, RecordSuccess, SettleByEvidence, Crash
  <2>2. msg[p] \in Messages /\ number[p] \in 1..MaxAttempts /\ pc[p] = "deliver"
    BY <2>1 DEF Deliver, LocalsFit, InFlight
  <2>3. /\ msg[p] = m /\ delivered'[m] = delivered[m] + 1
        /\ answer'[p] = "failed" => <<m, number[p]>> \in broken'
        /\ broken \subseteq broken'
        /\ pc' = [pc EXCEPT ![p] = "record"] /\ UNCHANGED <<status, msg, number>>
        /\ \A q \in Procs : q # p => answer'[q] = answer[q]
    BY <1>5, <2>1, <2>2 DEF Deliver, Goto, table
  <2>4. number[p] \notin Behind(m)
    <3>1. Undecided(p) /\ msg[p] = m
      BY <2>2, <2>3 DEF Undecided, Broke
    <3> QED
      BY <2>2, <3>1 DEF Behind, Open
  <2>5. number[p] \in Behind(m)'
    <3>1. status'[m][number[p]] = "STARTED"
      BY <2>2, <2>3 DEF AttemptsStarted, InFlight
    <3>2. ~Undecided(p)'
      BY <2>3 DEF Undecided, Broke
    <3>3. \A q \in Procs \ {p} : Undecided(q)' => msg'[q] # m \/ number'[q] # number[p]
      BY <2>2, <2>3 DEF Undecided, Broke, NumbersDiffer, InFlight
    <3> QED
      BY <2>2, <3>1, <3>2, <3>3 DEF Behind, Traces, Open
  <2>6. Cardinality(Behind(m) \union {number[p]}) = Cardinality(Behind(m)) + 1
    BY <1>3, <2>4, FS_AddElement
  <2>7. Cardinality(Behind(m) \union {number[p]}) <= Cardinality(Behind(m)')
    BY <1>2, <2>5, FS_Subset
  <2> QED
    BY <1>3, <2>2, <2>3, <2>6, <2>7 DEF ShownBehind
<1> QED
  BY <1>4, <1>5

-----------------------------------------------------------------------------
(* Calls that follow one another: only one process is inside, and until it *)
(* returns its message has neither outcome nor mapping; every other        *)
(* message has a mapping exactly when it is settled.                       *)

Alone == \A p, q \in Procs : pc[p] # "idle" /\ pc[q] # "idle" => p = q
RowAwaits ==
  \A p \in Procs :
    /\ pc[p] \in QueueCalls => row[msg[p]] \notin Settled \union {"UNKNOWN"}
    /\ pc[p] = "settle" => row[msg[p]] = "UNKNOWN"
Mapped(m) == {x \in mappings : x[1] = m}
MappingsFit ==
  \A m \in Messages :
    IF row[m] \in Settled THEN \E id \in ExternalIds : Mapped(m) = {<<m, id>>}
                          ELSE Mapped(m) = {}
Agreement == Alone /\ RowAwaits /\ MappingsFit
LoneInv == ~overlapped => Agreement

(* A call that begins without overlap finds everybody idle. *)
LEMMA BeginsAlone ==
  ASSUME NEW p \in Procs, NEW m \in Messages, BeginQueue(p, m) \/ BeginReconcile(p, m),
         ~overlapped'
  PROVE  ~overlapped /\ \A q \in Procs : pc[q] = "idle"
BY Zenon DEF BeginQueue, BeginReconcile, Begins

(* The other steps leave the history alone. *)
LEMMA HistoryKept ==
  ASSUME [Next]_vars, ~overlapped'
  PROVE  ~overlapped
BY BeginsAlone, Zenon DEF Next, vars, InsertRow, CountAttempts, Announce, Deliver,
   RecordUnsettled, RecordSuccess, SettleByEvidence, Crash

(* Closing a message that has no mapping gives it its one. *)
LEMMA OneMapping ==
  ASSUME TypedInv, NEW m \in Messages, NEW id \in ExternalIds, MappingsFit,
         row[m] \notin Settled, row' = [row EXCEPT ![m] = Done(m)],
         mappings' = mappings \union {<<m, id>>}
  PROVE  MappingsFit'
<1>1. Done(m) \in Settled
  BY DEF Done, Settled
<1>2. row'[m] \in Settled /\ Mapped(m)' = {<<m, id>>}
  BY <1>1 DEF TypedInv, TypeOK, MappingsFit, Mapped
<1>3. \A k \in Messages \ {m} : row'[k] = row[k] /\ Mapped(k)' = Mapped(k)
  BY DEF TypedInv, TypeOK, Mapped
<1> QED
  BY <1>2, <1>3 DEF MappingsFit

(* Opening or failing a message that is not settled changes no mapping. *)
LEMMA SameMapping ==
  ASSUME TypedInv, NEW m \in Messages, MappingsFit, row[m] \notin Settled,
         NEW s \in States \ Settled, row' = [row EXCEPT ![m] = s], mappings' = mappings
  PROVE  MappingsFit'
<1>1. row'[m] \notin Settled /\ \A k \in Messages \ {m} : row'[k] = row[k]
  BY DEF TypedInv, TypeOK
<1> QED
  BY <1>1 DEF MappingsFit, Mapped

(* A call that returns leaves nobody inside. *)
LEMMA ReturnAlone ==
  ASSUME TypedInv, Alone, NEW p \in Procs, pc[p] # "idle", Return(p)
  PROVE  Alone' /\ RowAwaits'
<1>1. \A q \in Procs : pc'[q] = "idle"
  BY DEF TypedInv, TypeOK, Alone, Return, Goto
<1> QED
  BY <1>1 DEF Alone, RowAwaits, QueueCalls, InFlight

(* A call that goes on stays the only one. *)
LEMMA GoesOnAlone ==
  ASSUME TypedInv, Alone, NEW p \in Procs, pc[p] # "idle",
         NEW label \in QueueCalls, Goto(p, label), msg' = msg,
         row'[msg[p]] \notin Settled \union {"UNKNOWN"}
  PROVE  Alone' /\ RowAwaits'
<1>1. \A q \in Procs : pc'[q] = IF q = p THEN label ELSE "idle"
  BY DEF TypedInv, TypeOK, Alone, Goto
<1> QED
  BY <1>1 DEF Alone, RowAwaits, QueueCalls, InFlight

(* Rows and mappings agree while calls follow one another. *)
LEMMA LoneStep == FlightInv /\ LoneInv /\ [Next]_vars => LoneInv'
<1> SUFFICES ASSUME TypedInv, Agreement, [Next]_vars, ~overlapped' PROVE Agreement'
  BY HistoryKept, Zenon DEF LoneInv, FlightInv
<1>a. TypedInv /\ TypeOK /\ LocalsFit /\ Alone /\ RowAwaits /\ MappingsFit
  BY DEF TypedInv, Agreement
<1>1. CASE UNCHANGED vars
  BY <1>1, <1>a DEF vars, table, locals, Agreement, Alone, RowAwaits, MappingsFit, Mapped
<1>2. ASSUME NEW p \in Procs, NEW m \in Messages, BeginQueue(p, m) \/ BeginReconcile(p, m)
      PROVE  Agreement'
  <2>1. \A q \in Procs : pc[q] = "idle"
    BY <1>2, BeginsAlone
  <2>2. PICK label \in {"insert", "count", "settle"} :
          /\ Goto(p, label) /\ msg'[p] = m
          /\ label = "settle" => row[m] = "UNKNOWN"
          /\ label # "settle" => row[m] \notin Settled \union {"UNKNOWN"}
    BY <1>2, <1>a DEF BeginQueue, BeginReconcile, Begins, TypeOK, Reused, Reconcilable
  <2>3. \A q \in Procs : pc'[q] = IF q = p THEN label ELSE "idle"
    BY <2>1, <2>2, <1>a DEF TypeOK, Goto
  <2>4. UNCHANGED <<row, mappings>>
    BY <1>2 DEF BeginQueue, BeginReconcile, table
  <2>5. Alone' /\ RowAwaits'
    BY <2>2, <2>3, <2>4 DEF Alone, RowAwaits, QueueCalls, InFlight
  <2> QED
    BY <2>4, <2>5, <1>a DEF Agreement, MappingsFit, Mapped
<1>3. ASSUME NEW p \in Procs, pc[p] # "idle", Return(p), UNCHANGED <<row, mappings>>
      PROVE  Agreement'
  BY <1>3, <1>a, ReturnAlone DEF Agreement, MappingsFit, Mapped
<1>4. ASSUME NEW p \in Procs, pc[p] \in QueueCalls, NEW label \in QueueCalls,
             Goto(p, label), UNCHANGED <<row, mappings, msg>>
      PROVE  Agreement'
  <2>1. pc[p] # "idle" /\ row'[msg[p]] \notin Settled \union {"UNKNOWN"}
    BY <1>4, <1>a DEF RowAwaits, QueueCalls, InFlight
  <2> QED
    BY <2>1, <1>4, <1>a, GoesOnAlone DEF Agreement, MappingsFit, Mapped
<1>5. ASSUME NEW p \in Procs, NEW label \in QueueCalls, pc[p] \in QueueCalls,
             Goto(p, label), row' = [row EXCEPT ![msg[p]] = "QUEUED"],
             UNCHANGED <<mappings, msg>>
      PROVE  Agreement'
  <2>1. /\ pc[p] # "idle" /\ msg[p] \in Messages /\ row[msg[p]] \notin Settled
    BY <1>5, <1>a DEF RowAwaits, LocalsFit, QueueCalls, InFlight
  <2>2. "QUEUED" \in States \ Settled
    BY DEF States, Settled
  <2>3. MappingsFit'
    BY <2>1, <2>2, <1>5, <1>a, SameMapping
  <2>4. row'[msg[p]] \notin Settled \union {"UNKNOWN"}
    BY <2>1, <1>5, <1>a DEF TypeOK, Settled
  <2> QED
    BY <2>1, <2>3, <2>4, <1>5, <1>a, GoesOnAlone DEF Agreement
<1>6. ASSUME NEW p \in Procs, InsertRow(p) PROVE Agreement'
  BY <1>3, <1>5, <1>6 DEF InsertRow, locals, QueueCalls, InFlight
<1>7. ASSUME NEW p \in Procs, CountAttempts(p) PROVE Agreement'
  BY <1>3, <1>4, <1>7 DEF CountAttempts, table, QueueCalls, InFlight
<1>8. ASSUME NEW p \in Procs, Announce(p) PROVE Agreement'
  BY <1>3, <1>5, <1>8 DEF Announce, locals, QueueCalls, InFlight
<1>9. ASSUME NEW p \in Procs, Deliver(p) PROVE Agreement'
  BY <1>4, <1>9 DEF Deliver, table, QueueCalls, InFlight
<1>10. ASSUME NEW p \in Procs, RecordUnsettled(p) PROVE Agreement'
  <2>1. /\ pc[p] # "idle" /\ msg[p] \in Messages /\ row[msg[p]] \notin Settled
    BY <1>10, <1>a DEF RecordUnsettled, RowAwaits, LocalsFit, QueueCalls, InFlight
  <2>2. (IF answer[p] = "unknown" THEN "UNKNOWN" ELSE "FAILED") \in States \ Settled
    BY DEF States, Settled
  <2>3. MappingsFit'
    BY <2>1, <2>2, <1>10, <1>a, SameMapping DEF RecordUnsettled
  <2> QED
    BY <2>1, <2>3, <1>10, <1>a, ReturnAlone DEF RecordUnsettled, Agreement
<1>11. ASSUME NEW p \in Procs, RecordSuccess(p) \/ SettleByEvidence(p) PROVE Agreement'
  <2>1. /\ pc[p] # "idle" /\ msg[p] \in Messages /\ row[msg[p]] \notin Settled
    BY <1>11, <1>a DEF RecordSuccess, SettleByEvidence, RowAwaits, LocalsFit, QueueCalls,
       InFlight, Settled
  <2>2. Return(p)
    BY <1>11 DEF RecordSuccess, SettleByEvidence
  <2>3. CASE UNCHANGED <<row, mappings>>
    BY <2>1, <2>2, <2>3, <1>3
  <2>4. CASE \E id \in ExternalIds :
               /\ row' = [row EXCEPT ![msg[p]] = Done(msg[p])]
               /\ mappings' = mappings \union {<<msg[p], id>>}
    BY <2>1, <2>2, <2>4, <1>a, OneMapping, ReturnAlone DEF Agreement
  <2>5. ExternalId[msg[p]] \in ExternalIds
    BY <2>1, NotifierAssumption
  <2> QED
    BY <2>3, <2>4, <2>5, <1>11 DEF RecordSuccess, SettleByEvidence
<1>12. ASSUME NEW p \in Procs, Crash(p) PROVE Agreement'
  BY <1>3, <1>12 DEF Crash, table
<1> QED
  BY <1>1, <1>2, <1>6, <1>7, <1>8, <1>9, <1>10, <1>11, <1>12 DEF Next

-----------------------------------------------------------------------------
(* Both invariants hold at the start, and every step preserves them. *)

OutboxInv == FlightInv /\ LoneInv

(* The tables start empty. *)
LEMMA InitInv == Init => OutboxInv
<1> SUFFICES ASSUME Init PROVE OutboxInv
  OBVIOUS
<1>1. TypedInv
  BY InitTyped
<1>2. AttemptsStarted /\ NumbersDiffer
  BY DEF Init, AttemptsStarted, NumbersDiffer, InFlight
<1>3. BrokenStarted
  BY DEF Init, BrokenStarted
<1>7. ShownBehind
  <2> SUFFICES ASSUME NEW m \in Messages PROVE delivered[m] <= Cardinality(Behind(m))
    BY DEF ShownBehind
  <2>1. Cardinality(Behind(m)) \in Nat
    BY BehindFinite, FS_CardinalityType
  <2> QED
    BY <2>1 DEF Init
<1>4. SuccessMapped /\ SingleSuccess
  BY DEF Init, SuccessMapped, SingleSuccess
<1>5. Agreement
  BY DEF Init, Agreement, Alone, RowAwaits, MappingsFit, Mapped, QueueCalls, InFlight, Settled
<1>6. LoneInv
  BY <1>5 DEF LoneInv
<1> QED
  BY <1>1, <1>2, <1>3, <1>4, <1>6, <1>7 DEF OutboxInv, FlightInv

(* Each step keeps what the lemmas above show of it. *)
LEMMA NextInv == OutboxInv /\ [Next]_vars => OutboxInv'
BY NextTyped, StartedStep, SuccessStep, BrokenStep, ShownStep, LoneStep DEF OutboxInv, FlightInv

(* Hence it holds always. *)
LEMMA SpecInv == Spec => []OutboxInv
BY InitInv, NextInv, PTL DEF Spec

(* The attempts table accounts for every time a message was shown, and     *)
(* grants no more than the limit; at most one attempt succeeds.            *)
LEMMA Accounts == FlightInv => DeliveriesBounded /\ DeliveriesTraced /\ OneSuccess
<1> SUFFICES ASSUME FlightInv PROVE DeliveriesBounded /\ DeliveriesTraced /\ OneSuccess
  OBVIOUS
<1>1. \A m \in Messages :
        /\ delivered[m] \in Nat
        /\ delivered[m] <= Cardinality(Traces(m)) /\ delivered[m] <= MaxAttempts
  <2> SUFFICES ASSUME NEW m \in Messages
               PROVE  /\ delivered[m] \in Nat
                      /\ delivered[m] <= Cardinality(Traces(m))
                      /\ delivered[m] <= MaxAttempts
    OBVIOUS
  <2>1. delivered[m] \in Nat /\ delivered[m] <= Cardinality(Behind(m))
    BY DEF FlightInv, TypedInv, TypeOK, ShownBehind
  <2>2. Cardinality(Behind(m)) \in Nat
    BY BehindFinite, FS_CardinalityType
  <2> QED
    BY <2>1, <2>2, BehindFinite, NotifierAssumption
<1>2. OneSuccess
  <2> SUFFICES ASSUME NEW m \in Messages
               PROVE  Cardinality({n \in 1..MaxAttempts : status[m][n] = "SUCCEEDED"}) <= 1
    BY DEF OneSuccess
  <2> DEFINE Won == {n \in 1..MaxAttempts : status[m][n] = "SUCCEEDED"}
  <2>1. CASE Won = {}
    BY <2>1, FS_EmptySet
  <2>2. CASE Won # {}
    <3>1. PICK n \in Won : TRUE
      BY <2>2
    <3>2. Won = {n}
      BY <3>1 DEF FlightInv, SingleSuccess
    <3>3. Cardinality({n}) = 1
      BY FS_Singleton
    <3>4. Cardinality(Won) <= 1
      <4> HIDE DEF Won
      <4> QED
        BY <3>2, <3>3
    <3> QED
      BY <3>4
  <2> QED
    BY <2>1, <2>2
<1> QED
  BY <1>1, <1>2 DEF DeliveriesBounded, DeliveriesTraced, Traces

(* While calls follow one another, one mapping for every settled message. *)
LEMMA Mappings == LoneInv => SettledIffMapped
<1> SUFFICES ASSUME MappingsFit PROVE
      \A m \in Messages :
        Cardinality({x \in mappings : x[1] = m}) = IF row[m] \in Settled THEN 1 ELSE 0
  BY Zenon DEF LoneInv, Agreement, SettledIffMapped
<1> TAKE m \in Messages
<1>1. CASE row[m] \in Settled
  BY <1>1, FS_Singleton DEF MappingsFit, Mapped
<1>2. CASE row[m] \notin Settled
  BY <1>2, FS_EmptySet DEF MappingsFit, Mapped
<1> QED
  BY <1>1, <1>2

(* The tables account for what the platform showed: how often, under which *)
(* attempt, and under which mapping once it is settled.                    *)
THEOREM DeliveriesAccountedHolds == Spec => []DeliveriesAccounted
<1>1. OutboxInv => DeliveriesAccounted
  BY Accounts, Mappings DEF OutboxInv, FlightInv, TypedInv, DeliveriesAccounted
<1> QED
  BY <1>1, SpecInv, PTL

(* Without overlapping calls an outcome stands: whoever acts is busy with  *)
(* a message that has none, or settles an unknown one with a new mapping.  *)
THEOREM OutcomeStandsHolds == Spec => OutcomeStands
<1> DEFINE Stands(m) ==
      /\ delivered'[m] = delivered[m]
      /\ \/ row'[m] = row[m]
         \/ /\ row[m] = "UNKNOWN" /\ row'[m] \in Settled
            /\ \E id \in ExternalIds : <<m, id>> \in mappings' \ mappings
<1> DEFINE Kept == ~overlapped' => \A m \in Messages :
                     row[m] \in Settled \union {"UNKNOWN"} => Stands(m)
<1>1. OutboxInv /\ [Next]_vars => [Kept]_vars
  <2> SUFFICES ASSUME TypedInv, Agreement, Next, NEW m \in Messages,
                      row[m] \in Settled \union {"UNKNOWN"}
               PROVE  Stands(m)
    BY HistoryKept, Zenon DEF OutboxInv, LoneInv, FlightInv
  <2>a. TypeOK /\ LocalsFit /\ RowAwaits
    BY DEF TypedInv, Agreement
  <2>1. CASE UNCHANGED <<row, delivered>>
    BY <2>1
  <2>2. ASSUME NEW p \in Procs, pc[p] \in QueueCalls, NEW s \in States,
               \/ row' = [row EXCEPT ![msg[p]] = s] /\ UNCHANGED delivered
               \/ \E n \in Nat :
                    delivered' = [delivered EXCEPT ![msg[p]] = n] /\ UNCHANGED row
        PROVE  Stands(m)
    <3>1. msg[p] # m /\ msg[p] \in Messages
      BY <2>2, <2>a DEF RowAwaits, LocalsFit, QueueCalls, InFlight
    <3> QED
      BY <2>2, <3>1, <2>a DEF TypeOK
  <2>3. ASSUME NEW p \in Procs, InsertRow(p) \/ Announce(p) PROVE Stands(m)
    <3>1. "QUEUED" \in States
      BY DEF States
    <3> QED
      BY <2>1, <2>2, <2>3, <3>1 DEF InsertRow, Announce, QueueCalls, InFlight
  <2>4. ASSUME NEW p \in Procs, Deliver(p) PROVE Stands(m)
    <3>1. msg[p] \in Messages /\ pc[p] \in QueueCalls /\ UNCHANGED row
      BY <2>4, <2>a DEF Deliver, LocalsFit, QueueCalls, InFlight, table
    <3>2. \E n \in Nat : delivered' = [delivered EXCEPT ![msg[p]] = n]
      <4>1. PICK shown \in {0, 1} :
              delivered' = [delivered EXCEPT ![msg[p]] = @ + shown]
        BY <2>4 DEF Deliver
      <4>2. delivered[msg[p]] + shown \in Nat
        BY <3>1, <2>a DEF TypeOK
      <4> QED
        BY <4>1, <4>2
    <3>3. "QUEUED" \in States
      BY DEF States
    <3> QED
      BY <2>2, <3>1, <3>2, <3>3
  <2>5. ASSUME NEW p \in Procs, RecordUnsettled(p) \/ RecordSuccess(p) PROVE Stands(m)
    <3>1. /\ (IF answer[p] = "unknown" THEN "UNKNOWN" ELSE "FAILED") \in States
          /\ Done(msg[p]) \in States
      BY DEF States, Settled, Done
    <3> QED
      BY <2>1, <2>2, <2>5, <3>1 DEF RecordUnsettled, RecordSuccess, QueueCalls, InFlight
  <2>6. ASSUME NEW p \in Procs, SettleByEvidence(p) PROVE Stands(m)
    <3>1. msg[p] \in Messages /\ row[msg[p]] = "UNKNOWN" /\ UNCHANGED delivered
      BY <2>6, <2>a DEF SettleByEvidence, RowAwaits, LocalsFit
    <3>2. Done(msg[p]) \in Settled
      BY DEF Done, Settled
    <3>3. PICK id \in ExternalIds :
            \/ /\ IdFree(id) /\ row' = [row EXCEPT ![msg[p]] = Done(msg[p])]
               /\ mappings' = mappings \union {<<msg[p], id>>}
            \/ UNCHANGED row
      BY <2>6 DEF SettleByEvidence
    <3>4. CASE msg[p] # m
      BY <3>1, <3>3, <3>4, <2>a DEF TypeOK
    <3>5. CASE msg[p] = m
      BY <3>1, <3>2, <3>3, <3>5, <2>a DEF TypeOK, IdFree
    <3> QED
      BY <3>4, <3>5
  <2> QED
    BY <2>1, <2>3, <2>4, <2>5, <2>6 DEF Next, BeginQueue, BeginReconcile, CountAttempts,
       Crash, table
<1>2. Spec => [][Kept]_vars
  BY <1>1, SpecInv, PTL DEF Spec
<1> QED
  BY <1>2 DEF OutcomeStands
=============================================================================
