-------------------------- MODULE GmailDraftsProofs --------------------------
(***************************************************************************)
(* The draft boundary for every number of processes and drafts, every cap  *)
(* and every bound, while calls overlap and die anywhere: types, ready     *)
(* runs and the account the attempt rows give of the drafts that were      *)
(* made.  The last rests on each attempt belonging to one call             *)
(* (NumbersDiffer) and on the attempts whose provider call is over         *)
(* (MadeBehind).                                                           *)
(***************************************************************************)
EXTENDS GmailDrafts, FiniteSetTheorems, SequenceTheorems, TLAPS

Announced == {"pending", "call", "finish", "record"}

(* Where a call stands decides what its locals hold. *)
LocalsFit ==
  \A p \in Procs :
    /\ pc[p] # "idle" => draft[p] \in Drafts /\ now[p] \in 1..MaxDay
    /\ pc[p] = "start" => number[p] \in 1..MaxAttempts
    /\ pc[p] \in Announced => number[p] \in 1..Len(attempts[draft[p]])
    /\ pc[p] \in {"finish", "record"} => answer[p] \in CreateAnswers
    /\ pc[p] = "get" => op[p] \in {"verify", "reconcile"}

(* No creation attempt is called failed, and no two calls work on one. *)
NoneFailed ==
  \A x \in Drafts : \A i \in 1..Len(attempts[x]) : attempts[x][i] # "FAILED"
NumbersDiffer ==
  \A p, q \in Procs :
    /\ pc[p] \in Announced /\ pc[q] \in Announced /\ p # q
    /\ draft[p] = draft[q]
    => number[p] # number[q]

(* The attempts whose provider call is still to come made no draft yet. *)
Ahead(x)  == {n \in 1..Len(attempts[x]) :
                \E p \in Procs : /\ pc[p] \in {"pending", "call"}
                                 /\ draft[p] = x /\ number[p] = n}
Behind(x) == (1..Len(attempts[x])) \ Ahead(x)
MadeBehind ==
  \A x \in Drafts : creations[x] <= Cardinality(Behind(x))


-----------------------------------------------------------------------------
(* The type invariant, in parts. *)

RowsTyped ==
  /\ approval \in [Drafts -> Approvals]
  /\ run \in [Drafts -> RunStates]
  /\ idKnown \in [Drafts -> BOOLEAN]
  /\ mapping \in [Drafts -> MapStates]
  /\ mappedOn \in [Drafts -> 0..MaxDay]
AttemptsTyped ==
  /\ attempts \in [Drafts -> Seq(Statuses)]
  /\ \A x \in Drafts : Len(attempts[x]) <= MaxAttempts
WorldTyped ==
  /\ mailbox \subseteq Drafts /\ creations \in [Drafts -> Nat]
  /\ day \in 1..MaxDay /\ crashes \in Nat /\ overlapped \in BOOLEAN
CallsTyped ==
  /\ pc \in [Procs -> Labels] /\ op \in [Procs -> Operations]
  /\ draft \in [Procs -> Drafts \union {None}]
  /\ sawState \in [Procs -> RunStates]
  /\ number \in [Procs -> 0..MaxAttempts]
  /\ answer \in [Procs -> CreateAnswers \union GetAnswers \union {"none"}]
  /\ now \in [Procs -> 0..MaxDay]
TypedInv == RowsTyped /\ AttemptsTyped /\ WorldTyped /\ CallsTyped /\ LocalsFit

(* The type invariant and what it needs. *)
LEMMA TypedParts == TypedInv <=> TypeOK /\ LocalsFit
BY DEF TypedInv, TypeOK, RowsTyped, AttemptsTyped, WorldTyped, CallsTyped

(* Empty tables and idle processes are typed. *)
LEMMA InitTyped == Init => TypedInv
<1> SUFFICES ASSUME Init PROVE TypedInv
  OBVIOUS
<1>1. RowsTyped
  BY GmailAssumption DEF Init, RowsTyped, Approvals, RunStates, MapStates
<1>2. AttemptsTyped
  BY GmailAssumption, EmptySeq DEF Init, AttemptsTyped
<1>3. WorldTyped
  <2>1. overlapped \in BOOLEAN
    BY Zenon DEF Init
  <2>2. mailbox \subseteq Drafts /\ creations \in [Drafts -> Nat]
    BY DEF Init
  <2>3. day \in 1..MaxDay /\ crashes \in Nat
    BY GmailAssumption DEF Init
  <2> QED
    BY <2>1, <2>2, <2>3 DEF WorldTyped
<1>4. CallsTyped
  BY GmailAssumption
  DEF Init, CallsTyped, Labels, Operations, RunStates, MapStates
<1>5. LocalsFit
  BY DEF Init, LocalsFit, Announced
<1> QED
  BY <1>1, <1>2, <1>3, <1>4, <1>5 DEF TypedInv

(* A call that returns leaves its locals empty. *)
LEMMA ReturnTyped ==
  ASSUME TypedInv, NEW p \in Procs, Return(p),
         \A x \in Drafts : Len(attempts'[x]) = Len(attempts[x])
  PROVE  CallsTyped' /\ LocalsFit'
<1> USE GmailAssumption DEF Return, Goto, TypedInv
<1>1. CallsTyped'
  BY DEF CallsTyped, Labels, Operations, RunStates, MapStates
<1>2. LocalsFit'
  <2> SUFFICES ASSUME NEW q \in Procs, pc'[q] # "idle"
               PROVE  /\ q # p /\ pc'[q] = pc[q] /\ draft'[q] = draft[q]
                      /\ now'[q] = now[q] /\ number'[q] = number[q]
                      /\ answer'[q] = answer[q] /\ op'[q] = op[q]
    BY DEF LocalsFit, Announced
  <2> QED
    BY DEF CallsTyped
<1> QED
  BY <1>1, <1>2

(* A call that begins has its draft and its day. *)
LEMMA BeginsTyped ==
  ASSUME TypedInv, NEW p \in Procs, NEW x \in Drafts,
         NEW o \in {"create", "verify", "reconcile"}, NEW l \in {"check", "get"},
         o = "create" <=> l = "check", Begins(p, o, x, l)
  PROVE  TypedInv'
<1> USE GmailAssumption DEF Begins, Goto, TypedInv, table, runRow, mapRow, provider
<1>1. RowsTyped' /\ AttemptsTyped'
  BY DEF RowsTyped, AttemptsTyped
<1>2. WorldTyped'
  <2>1. overlapped' \in BOOLEAN
    BY Zenon DEF WorldTyped
  <2>2. mailbox' \subseteq Drafts /\ creations' \in [Drafts -> Nat] /\ day' \in 1..MaxDay /\ crashes' \in Nat
    BY DEF WorldTyped
  <2> QED
    BY <2>1, <2>2 DEF WorldTyped
<1>3. run[x] \in RunStates /\ day \in 0..MaxDay /\ day \in 1..MaxDay
  BY DEF RowsTyped, WorldTyped
<1>4. CallsTyped'
  <2>1. pc' \in [Procs -> Labels] /\ op' \in [Procs -> Operations]
    BY DEF CallsTyped, Labels, Operations
  <2>2. draft' \in [Procs -> Drafts \union {None}] /\ sawState' \in [Procs -> RunStates]
    BY <1>3 DEF CallsTyped
  <2>3. now' \in [Procs -> 0..MaxDay]
    BY <1>3 DEF CallsTyped
  <2>4. UNCHANGED <<number, answer>>
    OBVIOUS
  <2> QED
    BY <2>1, <2>2, <2>3, <2>4 DEF CallsTyped
<1>5. LocalsFit'
  <2> SUFFICES ASSUME NEW q \in Procs, pc'[q] # "idle"
               PROVE  \/ /\ q # p /\ pc'[q] = pc[q] /\ draft'[q] = draft[q]
                         /\ now'[q] = now[q] /\ op'[q] = op[q]
                      \/ /\ q = p /\ pc'[q] = l /\ draft'[q] = x
                         /\ now'[q] = day /\ op'[q] = o
    BY <1>3 DEF LocalsFit, Announced
  <2> QED
    BY DEF CallsTyped
<1> QED
  BY <1>1, <1>2, <1>4, <1>5

(* Every step keeps the parts. *)
LEMMA StepTyped == TypedInv /\ [Next]_vars => TypedInv'
<1> SUFFICES ASSUME TypedInv, [Next]_vars
             PROVE  TypedInv'
  OBVIOUS
<1> USE DEF Goto, SetRun, SetBoth, runRow, mapRow, table, provider, call, history
<1>1. ASSUME NEW x \in Drafts, Approve(x)
      PROVE  TypedInv'
  <2>1. RowsTyped'
    BY <1>1 DEF TypedInv, Approve, RowsTyped, Approvals, RunStates, MapStates
  <2>2. AttemptsTyped' /\ WorldTyped'
    BY <1>1 DEF TypedInv, Approve, AttemptsTyped, WorldTyped
  <2>3. CallsTyped' /\ LocalsFit'
    BY <1>1 DEF TypedInv, Approve, CallsTyped, LocalsFit
  <2> QED
    BY <2>1, <2>2, <2>3 DEF TypedInv
<1>2. ASSUME NEW x \in Drafts, Disappears(x)
      PROVE  TypedInv'
  <2>1. RowsTyped'
    BY <1>2 DEF TypedInv, Disappears, RowsTyped
  <2>2. AttemptsTyped' /\ WorldTyped'
    BY <1>2 DEF TypedInv, Disappears, AttemptsTyped, WorldTyped
  <2>3. CallsTyped' /\ LocalsFit'
    BY <1>2 DEF TypedInv, Disappears, CallsTyped, LocalsFit
  <2> QED
    BY <2>1, <2>2, <2>3 DEF TypedInv
<1>3. ASSUME NEW p \in Procs, NEW x \in Drafts,
             BeginCreate(p, x) \/ BeginVerify(p, x) \/ BeginReconcile(p, x)
      PROVE  TypedInv'
  BY <1>3, BeginsTyped DEF BeginCreate, BeginVerify, BeginReconcile
<1>4. ASSUME NEW p \in Procs, CheckReadiness(p)
      PROVE  TypedInv'
  <2>1. RowsTyped'
    BY <1>4 DEF TypedInv, LocalsFit, CheckReadiness,
      RowsTyped, Approvals, RunStates, MapStates
  <2>2. AttemptsTyped'
    BY <1>4 DEF TypedInv, CheckReadiness, AttemptsTyped
  <2>3. WorldTyped'
    BY <1>4 DEF TypedInv, CheckReadiness, WorldTyped
  <2>4. CallsTyped' /\ LocalsFit'
    <3>1. CASE Return(p)
      <4>1. \A x \in Drafts : Len(attempts'[x]) = Len(attempts[x])
        BY <1>4 DEF CheckReadiness
      <4> QED
        BY <3>1, <4>1, ReturnTyped
    <3>2. CASE ~Return(p)
      <4>1. pc[p] = "check" /\ Goto(p, "count") /\ UNCHANGED <<call, attempts>>
        BY <1>4, <3>2 DEF CheckReadiness
      <4>2. CallsTyped'
        BY <4>1 DEF TypedInv, CallsTyped, Labels
      <4>3. LocalsFit'
        BY <4>1 DEF TypedInv, CallsTyped, LocalsFit, Announced
      <4> QED
        BY <4>2, <4>3
    <3> QED
      BY <3>1, <3>2
  <2> QED
    BY <2>1, <2>2, <2>3, <2>4 DEF TypedInv
<1>5. ASSUME NEW p \in Procs, CountAttempts(p)
      PROVE  TypedInv'
  <2>1. RowsTyped'
    BY <1>5 DEF TypedInv, CountAttempts, RowsTyped
  <2>2. AttemptsTyped' /\ WorldTyped'
    BY <1>5 DEF TypedInv, CountAttempts, AttemptsTyped, WorldTyped
  <2>3. CallsTyped'
    BY <1>5, GmailAssumption DEF TypedInv, LocalsFit, CountAttempts, AttemptsTyped, CallsTyped,
      Labels, CreateAnswers, GetAnswers
  <2>4. LocalsFit'
    BY <1>5, GmailAssumption DEF TypedInv, CountAttempts, LocalsFit, Announced, CallsTyped,
      AttemptsTyped
  <2> QED
    BY <2>1, <2>2, <2>3, <2>4 DEF TypedInv
<1>6. ASSUME NEW p \in Procs, MarkPending(p)
      PROVE  TypedInv'
  <2>1. RowsTyped'
    BY <1>6 DEF TypedInv, LocalsFit, MarkPending, RowsTyped, RunStates, MapStates
  <2>2. AttemptsTyped' /\ WorldTyped'
    BY <1>6 DEF TypedInv, MarkPending, AttemptsTyped, WorldTyped
  <2>3. CallsTyped'
    BY <1>6, GmailAssumption DEF TypedInv, LocalsFit, MarkPending, AttemptsTyped, CallsTyped,
      Labels, CreateAnswers, GetAnswers
  <2>4. LocalsFit'
    BY <1>6, GmailAssumption DEF TypedInv, MarkPending, LocalsFit, Announced, CallsTyped,
      AttemptsTyped
  <2> QED
    BY <2>1, <2>2, <2>3, <2>4 DEF TypedInv
<1>7. ASSUME NEW p \in Procs, CallCreate(p)
      PROVE  TypedInv'
  <2>1. RowsTyped'
    BY <1>7 DEF TypedInv, LocalsFit, CallCreate, RowsTyped
  <2>2. AttemptsTyped' /\ WorldTyped'
    BY <1>7 DEF TypedInv, LocalsFit, CallCreate, AttemptsTyped, WorldTyped
  <2>3. CallsTyped'
    BY <1>7, GmailAssumption DEF TypedInv, LocalsFit, CallCreate, AttemptsTyped, CallsTyped,
      Labels, CreateAnswers, GetAnswers
  <2>4. LocalsFit'
    BY <1>7, GmailAssumption DEF TypedInv, CallCreate, LocalsFit, Announced, CallsTyped,
      AttemptsTyped
  <2> QED
    BY <2>1, <2>2, <2>3, <2>4 DEF TypedInv
<1>8. ASSUME NEW p \in Procs, RecordCreated(p)
      PROVE  TypedInv'
  <2>1. RowsTyped'
    BY <1>8 DEF TypedInv, LocalsFit, RecordCreated, RecordMapping, RowsTyped, RunStates, MapStates
  <2>2. AttemptsTyped' /\ WorldTyped'
    BY <1>8 DEF TypedInv, RecordCreated, RecordMapping, AttemptsTyped, WorldTyped
  <2>3. CallsTyped' /\ LocalsFit'
    BY <1>8, ReturnTyped DEF RecordCreated, RecordMapping
  <2> QED
    BY <2>1, <2>2, <2>3 DEF TypedInv
<1>9. ASSUME NEW p \in Procs, HoldCreated(p)
      PROVE  TypedInv'
  <2>1. RowsTyped'
    BY <1>9 DEF TypedInv, LocalsFit, HoldCreated, RowsTyped, RunStates, MapStates
  <2>2. AttemptsTyped' /\ WorldTyped'
    BY <1>9 DEF TypedInv, HoldCreated, AttemptsTyped, WorldTyped
  <2>3. CallsTyped' /\ LocalsFit'
    BY <1>9, ReturnTyped DEF HoldCreated
  <2> QED
    BY <2>1, <2>2, <2>3 DEF TypedInv
<1>10. ASSUME NEW p \in Procs, CallGet(p)
      PROVE  TypedInv'
  <2>1. RowsTyped'
    BY <1>10 DEF TypedInv, CallGet, RowsTyped
  <2>2. AttemptsTyped' /\ WorldTyped'
    BY <1>10 DEF TypedInv, CallGet, AttemptsTyped, WorldTyped
  <2>3. CallsTyped'
    BY <1>10, GmailAssumption DEF TypedInv, LocalsFit, CallGet, AttemptsTyped, CallsTyped,
      Labels, CreateAnswers, GetAnswers
  <2>4. LocalsFit'
    BY <1>10, GmailAssumption DEF TypedInv, CallGet, LocalsFit, Announced, CallsTyped,
      AttemptsTyped
  <2> QED
    BY <2>1, <2>2, <2>3, <2>4 DEF TypedInv
<1>11. ASSUME NEW p \in Procs, Verdict(p)
      PROVE  TypedInv'
  <2>1. RowsTyped'
    BY <1>11 DEF TypedInv, LocalsFit, Verdict, Conclude, RowsTyped, RunStates, MapStates
  <2>2. AttemptsTyped' /\ WorldTyped'
    BY <1>11 DEF TypedInv, Verdict, Conclude, AttemptsTyped, WorldTyped
  <2>3. CallsTyped' /\ LocalsFit'
    BY <1>11, ReturnTyped DEF Verdict, Conclude
  <2> QED
    BY <2>1, <2>2, <2>3 DEF TypedInv
<1>12. ASSUME NEW p \in Procs, PermitRetry(p)
      PROVE  TypedInv'
  <2>1. RowsTyped'
    BY <1>12 DEF TypedInv, LocalsFit, PermitRetry, RowsTyped, RunStates, MapStates
  <2>2. AttemptsTyped' /\ WorldTyped'
    BY <1>12 DEF TypedInv, PermitRetry, AttemptsTyped, WorldTyped
  <2>3. CallsTyped' /\ LocalsFit'
    BY <1>12, ReturnTyped DEF PermitRetry
  <2> QED
    BY <2>1, <2>2, <2>3 DEF TypedInv
<1>13. ASSUME NEW p \in Procs, GetFailed(p)
      PROVE  TypedInv'
  <2>1. RowsTyped'
    BY <1>13 DEF TypedInv, GetFailed, RowsTyped
  <2>2. AttemptsTyped' /\ WorldTyped'
    BY <1>13 DEF TypedInv, GetFailed, AttemptsTyped, WorldTyped
  <2>3. CallsTyped' /\ LocalsFit'
    BY <1>13, ReturnTyped DEF GetFailed
  <2> QED
    BY <2>1, <2>2, <2>3 DEF TypedInv
<1>14. ASSUME NEW p \in Procs, RecordFound(p)
      PROVE  TypedInv'
  <2>1. draft[p] \in Drafts /\ now[p] \in 0..MaxDay /\ UNCHANGED <<approval, attempts, provider, day, history>>
    BY <1>14 DEF RecordFound, TypedInv, LocalsFit, CallsTyped
  <2>2. AttemptsTyped' /\ WorldTyped'
    BY <2>1 DEF TypedInv, AttemptsTyped, WorldTyped
  <2>3. CASE RecordMapping(draft[p], now[p]) /\ Goto(p, "verdict") /\ UNCHANGED call
    <3>1. RowsTyped'
      BY <2>1, <2>3 DEF RecordMapping, TypedInv, RowsTyped, RunStates, MapStates
    <3>2. CallsTyped'
      BY <2>3 DEF TypedInv, CallsTyped, Labels
    <3>3. LocalsFit'
      BY <1>14, <2>1, <2>3 DEF RecordFound, TypedInv, CallsTyped, LocalsFit, Announced
    <3> QED
      BY <2>2, <3>1, <3>2, <3>3 DEF TypedInv
  <2>4. CASE Return(p) /\ UNCHANGED <<run, idKnown, mapRow>>
    <3>1. RowsTyped'
      BY <2>1, <2>4 DEF TypedInv, RowsTyped
    <3> QED
      BY <2>1, <2>2, <2>4, <3>1, ReturnTyped DEF TypedInv
  <2> QED
    BY <1>14, <2>3, <2>4 DEF RecordFound
<1>15. ASSUME NEW p \in Procs, Crash(p)
      PROVE  TypedInv'
  <2>1. RowsTyped'
    BY <1>15 DEF TypedInv, Crash, RowsTyped
  <2>2. AttemptsTyped' /\ WorldTyped'
    BY <1>15 DEF TypedInv, Crash, AttemptsTyped, WorldTyped
  <2>3. CallsTyped' /\ LocalsFit'
    BY <1>15, ReturnTyped DEF Crash
  <2> QED
    BY <2>1, <2>2, <2>3 DEF TypedInv
<1>16. ASSUME NextDay
      PROVE  TypedInv'
  <2>1. RowsTyped'
    BY <1>16 DEF TypedInv, NextDay, RowsTyped
  <2>2. AttemptsTyped' /\ WorldTyped'
    BY <1>16, GmailAssumption DEF TypedInv, NextDay, AttemptsTyped, WorldTyped
  <2>3. CallsTyped' /\ LocalsFit'
    BY <1>16 DEF TypedInv, NextDay, CallsTyped, LocalsFit
  <2> QED
    BY <2>1, <2>2, <2>3 DEF TypedInv
<1>17. ASSUME NEW p \in Procs, StartAttempt(p)
       PROVE  TypedInv'
  <2> DEFINE x == draft[p]
  <2>1. x \in Drafts /\ number[p] \in 1..MaxAttempts
    BY <1>17 DEF StartAttempt, TypedInv, LocalsFit
  <2>2. attempts[x] \in Seq(Statuses) /\ Len(attempts[x]) \in Nat /\ "STARTED" \in Statuses
    BY <2>1, LenProperties DEF TypedInv, AttemptsTyped, Statuses
  <2>3. CASE NumberFree(x, number[p])
    <3>1. number[p] = Len(attempts[x]) + 1 /\ number[p] > Len(attempts[x])
      BY <2>2, <2>3 DEF NumberFree
    <3>2. attempts' = [attempts EXCEPT ![x] = Append(attempts[x], "STARTED")]
      BY <1>17, <2>1, <2>3, <3>1 DEF StartAttempt
    <3>3. /\ Append(attempts[x], "STARTED") \in Seq(Statuses)
          /\ Len(Append(attempts[x], "STARTED")) = Len(attempts[x]) + 1
      BY <2>2, AppendProperties
    <3>4. \A y \in Drafts : Len(attempts'[y]) =
               IF y = x THEN number[p] ELSE Len(attempts[y])
      BY <2>1, <3>1, <3>2, <3>3 DEF TypedInv, AttemptsTyped
    <3>5. AttemptsTyped'
      BY <2>1, <3>1, <3>2, <3>3, <3>4 DEF TypedInv, AttemptsTyped
    <3>6. RowsTyped' /\ WorldTyped'
      BY <1>17 DEF StartAttempt, TypedInv, RowsTyped, WorldTyped
    <3>7. CallsTyped'
      BY <1>17, <2>3 DEF StartAttempt, TypedInv, CallsTyped, Labels
    <3>8. LocalsFit'
      <4>1. ASSUME NEW q \in Procs
            PROVE  \/ q = p /\ pc'[q] = "pending" /\ number'[q] \in 1..Len(attempts'[draft'[q]])
                   \/ q # p /\ pc'[q] = pc[q]
        BY <1>17, <2>1, <2>3, <3>1, <3>4 DEF StartAttempt, TypedInv, CallsTyped
      <4>2. \A y \in Drafts : Len(attempts'[y]) \in Nat /\ Len(attempts[y]) \in Nat
                              /\ Len(attempts[y]) <= Len(attempts'[y])
        BY <2>1, <3>1, <3>4, LenProperties DEF TypedInv, AttemptsTyped
      <4> QED
        BY <1>17, <2>3, <4>1, <4>2 DEF StartAttempt, TypedInv, LocalsFit, Announced
    <3> QED
      BY <3>5, <3>6, <3>7, <3>8 DEF TypedInv
  <2>4. CASE ~NumberFree(x, number[p])
    <3>1. Return(p) /\ UNCHANGED <<attempts, runRow, mapRow, provider, day, history>>
      BY <1>17, <2>4 DEF StartAttempt
    <3>2. RowsTyped' /\ AttemptsTyped' /\ WorldTyped'
      BY <3>1 DEF TypedInv, RowsTyped, AttemptsTyped, WorldTyped
    <3> QED
      BY <3>1, <3>2, ReturnTyped DEF TypedInv
  <2> QED
    BY <2>3, <2>4
<1>18. ASSUME NEW p \in Procs, FinishAttempt(p)
       PROVE  TypedInv'
  <2> DEFINE x == draft[p]
             s == AttemptStatus(answer[p])
  <2>1. /\ x \in Drafts /\ number[p] \in 1..Len(attempts[x])
    BY <1>18 DEF FinishAttempt, TypedInv, LocalsFit, Announced
  <2>2. attempts[x] \in Seq(Statuses) /\ s \in Statuses
    BY <2>1 DEF TypedInv, AttemptsTyped, Statuses, AttemptStatus
  <2>3. attempts' = [attempts EXCEPT ![x] = [attempts[x] EXCEPT ![number[p]] = s]]
    BY <1>18 DEF FinishAttempt
  <2>4. /\ [attempts[x] EXCEPT ![number[p]] = s] \in Seq(Statuses)
        /\ Len([attempts[x] EXCEPT ![number[p]] = s]) = Len(attempts[x])
    BY <2>1, <2>2, ExceptSeq
  <2>5. \A y \in Drafts : Len(attempts'[y]) = Len(attempts[y])
    BY <2>1, <2>3, <2>4 DEF TypedInv, AttemptsTyped
  <2>6. AttemptsTyped'
    BY <2>1, <2>3, <2>4, <2>5 DEF TypedInv, AttemptsTyped
  <2>7. RowsTyped' /\ WorldTyped'
    BY <1>18 DEF FinishAttempt, TypedInv, RowsTyped, WorldTyped
  <2>8. CallsTyped'
    BY <1>18 DEF FinishAttempt, TypedInv, CallsTyped, Labels
  <2>9. LocalsFit'
    BY <1>18, <2>5 DEF FinishAttempt, TypedInv, CallsTyped, LocalsFit, Announced
  <2> QED
    BY <2>6, <2>7, <2>8, <2>9 DEF TypedInv
<1>19. CASE UNCHANGED vars
  BY <1>19 DEF vars, TypedInv, RowsTyped, AttemptsTyped, WorldTyped, CallsTyped,
    LocalsFit
<1> QED
  BY <1>1, <1>2, <1>3, <1>4, <1>5, <1>6, <1>7, <1>8, <1>9, <1>10, <1>11, <1>12,
     <1>13, <1>14, <1>15, <1>16, <1>17, <1>18, <1>19 DEF Next

(* The parts hold in every behaviour. *)
LEMMA Typed == Spec => []TypedInv
BY InitTyped, StepTyped, PTL DEF Spec

(* Every step of every operation keeps the tables and the locals typed. *)
THEOREM TypesHold == Spec => []TypeOK
BY Typed, TypedParts, PTL

-----------------------------------------------------------------------------
(* A verdict sets the run and its mapping together, and only a verdict     *)
(* makes a run ready or takes a mapping out of readiness.                  *)
LEMMA StepReady == TypedInv /\ ReadyIsVerified /\ [Next]_vars => ReadyIsVerified'
<1> SUFFICES ASSUME TypedInv, ReadyIsVerified, [Next]_vars
             PROVE  ReadyIsVerified'
  OBVIOUS
<1> USE DEF ReadyIsVerified, TypedInv, RowsTyped, SetRun, SetBoth, runRow, mapRow, table
<1>1. ASSUME NEW x \in Drafts, Approve(x) \/ Disappears(x)
      PROVE  ReadyIsVerified'
  BY <1>1 DEF Approve, Disappears
<1>2. ASSUME NEW p \in Procs, NEW x \in Drafts,
             BeginCreate(p, x) \/ BeginVerify(p, x) \/ BeginReconcile(p, x)
      PROVE  ReadyIsVerified'
  BY <1>2 DEF BeginCreate, BeginVerify, BeginReconcile, Begins
<1>3. ASSUME NEW p \in Procs, CheckReadiness(p) \/ MarkPending(p)
      PROVE  ReadyIsVerified'
  BY <1>3 DEF CheckReadiness, MarkPending
<1>4. ASSUME NEW p \in Procs,
             \/ CountAttempts(p) \/ StartAttempt(p) \/ CallCreate(p)
             \/ FinishAttempt(p) \/ CallGet(p) \/ GetFailed(p) \/ Crash(p)
      PROVE  ReadyIsVerified'
  BY <1>4 DEF CountAttempts, StartAttempt, CallCreate, FinishAttempt, CallGet,
    GetFailed, Crash
<1>5. ASSUME NEW p \in Procs,
             RecordCreated(p) \/ HoldCreated(p) \/ PermitRetry(p) \/ RecordFound(p)
      PROVE  ReadyIsVerified'
  BY <1>5 DEF RecordCreated, HoldCreated, PermitRetry, RecordFound, RecordMapping
<1>6. ASSUME NEW p \in Procs, Verdict(p)
      PROVE  ReadyIsVerified'
  BY <1>6 DEF Verdict, Conclude
<1>7. CASE NextDay \/ UNCHANGED vars
  BY <1>7 DEF NextDay, vars
<1> QED
  BY <1>1, <1>2, <1>3, <1>4, <1>5, <1>6, <1>7 DEF Next

(* No interleaving of verification, creation and reconciliation, and no    *)
(* death between two commits, leaves a run ready whose mapping is not.     *)
THEOREM ReadyHolds == Spec => []ReadyIsVerified
<1>1. Init => ReadyIsVerified
  BY DEF Init, ReadyIsVerified
<1>2. TypedInv /\ ReadyIsVerified /\ [Next]_vars => ReadyIsVerified'
  BY StepReady
<1> QED
  BY <1>1, <1>2, Typed, PTL DEF Spec

-----------------------------------------------------------------------------
(* The attempt rows account for the drafts that were made. *)

Pledged == {"pending", "call"}
TracedInv == NoneFailed /\ NumbersDiffer /\ MadeBehind

(* No call announces an attempt or goes back before its provider call. *)
Calm ==
  \A q \in Procs :
    /\ pc'[q] \in Announced =>
         pc[q] \in Announced /\ draft'[q] = draft[q] /\ number'[q] = number[q]
    /\ pc'[q] \in Pledged => pc[q] \in Pledged

(* Attempts that fell behind stay there in a calm step. *)
LEMMA CalmBehind ==
  ASSUME TypedInv, Calm, NEW x \in Drafts, Len(attempts'[x]) = Len(attempts[x])
  PROVE  Behind(x) \subseteq Behind(x)'
BY DEF Calm, Behind, Ahead, Announced, Pledged

(* A calm step that makes no draft keeps the account. *)
LEMMA CalmTraced ==
  ASSUME TypedInv, TypedInv', TracedInv, Calm, NoneFailed',
         \A x \in Drafts : Len(attempts'[x]) = Len(attempts[x]),
         UNCHANGED creations
  PROVE  TracedInv'
<1>1. NumbersDiffer'
  BY DEF TracedInv, NumbersDiffer, Calm
<1>2. ASSUME NEW x \in Drafts
      PROVE  creations'[x] <= Cardinality(Behind(x)')
  <2>1. Behind(x) \subseteq Behind(x)'
    BY CalmBehind
  <2>2. IsFiniteSet(Behind(x)')
    <3>1. IsFiniteSet(1..Len(attempts'[x]))
      BY FS_Interval, LenProperties DEF TypedInv, AttemptsTyped
    <3> QED
      BY <3>1, FS_Subset DEF Behind
  <2>3. /\ Cardinality(Behind(x)) <= Cardinality(Behind(x)')
        /\ Cardinality(Behind(x)) \in Nat /\ Cardinality(Behind(x)') \in Nat
    BY <2>1, <2>2, FS_Subset, FS_CardinalityType
  <2>4. creations[x] \in Nat /\ creations[x] <= Cardinality(Behind(x))
    BY DEF TypedInv, WorldTyped, TracedInv, MadeBehind
  <2> QED
    BY <2>3, <2>4
<1> QED
  BY <1>1, <1>2 DEF TracedInv, MadeBehind

(* The announced attempt is the last one, and no other call has it. *)
LEMMA StartTraced ==
  ASSUME TypedInv, TypedInv', TracedInv, NEW p \in Procs, StartAttempt(p)
  PROVE  TracedInv'
<1> DEFINE x == draft[p]
           n == Len(attempts[x]) + 1
<1>1. x \in Drafts /\ Len(attempts[x]) \in Nat /\ attempts[x] \in Seq(Statuses)
  BY LenProperties DEF TypedInv, AttemptsTyped, LocalsFit, StartAttempt
<1>2. CASE ~NumberFree(x, number[p])
  <2>1. Return(p) /\ UNCHANGED <<attempts, creations>>
    BY <1>2 DEF StartAttempt, provider
  <2>2. Calm
    BY <2>1 DEF Return, Goto, Calm, Announced, Pledged, TypedInv, CallsTyped
  <2> QED
    BY <2>1, <2>2, CalmTraced DEF TracedInv, NoneFailed
<1>3. CASE NumberFree(x, number[p])
  <2>1. number[p] = n /\ number[p] > Len(attempts[x])
    BY <1>1, <1>3 DEF NumberFree
  <2>2. attempts' = [attempts EXCEPT ![x] = Append(attempts[x], "STARTED")]
    BY <1>1, <1>3, <2>1 DEF StartAttempt
  <2>3. /\ Len(attempts'[x]) = n
        /\ \A i \in 1..Len(attempts[x]) : attempts'[x][i] = attempts[x][i]
        /\ attempts'[x][n] = "STARTED"
    BY <1>1, <2>2, AppendProperties DEF TypedInv, AttemptsTyped, Statuses
  <2>4. \A y \in Drafts : y # x => attempts'[y] = attempts[y]
    BY <2>2 DEF TypedInv, AttemptsTyped
  <2>5. /\ pc[p] = "start" /\ pc'[p] = "pending" /\ creations' = creations
        /\ \A q \in Procs : q # p => pc'[q] = pc[q]
        /\ draft' = draft /\ number' = number
    BY <1>3 DEF StartAttempt, Goto, call, provider, TypedInv, CallsTyped
  <2>6. NoneFailed'
    <3>1. ASSUME NEW i \in 1..n PROVE attempts'[x][i] # "FAILED"
      <4>1. i = n \/ i \in 1..Len(attempts[x])
        BY <1>1
      <4> QED
        BY <1>1, <2>3, <4>1 DEF TracedInv, NoneFailed
    <3> QED
      BY <2>3, <2>4, <3>1 DEF TracedInv, NoneFailed
  <2>7. NumbersDiffer'
    <3>1. \A q \in Procs : q # p /\ pc[q] \in Announced /\ draft[q] = x => number[q] # n
      BY <1>1 DEF TypedInv, LocalsFit
    <3> QED
      BY <2>1, <2>5, <3>1 DEF TracedInv, NumbersDiffer
  <2>8. ASSUME NEW y \in Drafts
        PROVE  creations'[y] <= Cardinality(Behind(y)')
    <3>1. Behind(y) \subseteq Behind(y)'
      <4>1. Len(attempts[y]) \in Nat /\ 1..Len(attempts[y]) \subseteq 1..Len(attempts'[y])
        BY <1>1, <2>3, <2>4, LenProperties DEF TypedInv, AttemptsTyped
      <4>2. ASSUME NEW i \in 1..Len(attempts[y]), i \in Ahead(y)'
            PROVE  i \in Ahead(y)
        <5>1. PICK q \in Procs : /\ pc'[q] \in {"pending", "call"}
                                /\ draft'[q] = y /\ number'[q] = i
          BY <4>2 DEF Ahead
        <5>2. q # p
          BY <1>1, <2>1, <2>5, <5>1
        <5> QED
          BY <2>5, <5>1, <5>2 DEF Ahead
      <4> QED
        BY <4>1, <4>2 DEF Behind
    <3>2. IsFiniteSet(Behind(y)')
      <4>1. IsFiniteSet(1..Len(attempts'[y]))
        BY FS_Interval, LenProperties DEF TypedInv, AttemptsTyped
      <4> QED
        BY <4>1, FS_Subset DEF Behind
    <3>3. /\ Cardinality(Behind(y)) <= Cardinality(Behind(y)')
          /\ Cardinality(Behind(y)) \in Nat /\ Cardinality(Behind(y)') \in Nat
      BY <3>1, <3>2, FS_Subset, FS_CardinalityType
    <3>4. creations[y] \in Nat /\ creations[y] <= Cardinality(Behind(y))
      BY DEF TypedInv, WorldTyped, TracedInv, MadeBehind
    <3> QED
      BY <2>5, <3>3, <3>4
  <2> QED
    BY <2>6, <2>7, <2>8 DEF TracedInv, MadeBehind
<1> QED
  BY <1>2, <1>3

(* The attempt whose provider call is made falls behind. *)
LEMMA CallTraced ==
  ASSUME TypedInv, TypedInv', TracedInv, NEW p \in Procs, CallCreate(p)
  PROVE  TracedInv'
<1> DEFINE x == draft[p]
           n == number[p]
<1>1. /\ x \in Drafts /\ Len(attempts[x]) \in Nat
      /\ n \in 1..Len(attempts[x])
  BY LenProperties DEF TypedInv, AttemptsTyped, LocalsFit, CallCreate, Announced
<1>2. /\ pc[p] = "call" /\ pc'[p] = "finish"
      /\ \A q \in Procs : q # p => pc'[q] = pc[q]
      /\ draft' = draft /\ number' = number /\ attempts' = attempts
  BY DEF CallCreate, Goto, table, TypedInv, CallsTyped
<1>3. Calm
  BY <1>2 DEF Calm, Announced, Pledged
<1>4. PICK made \in {0, 1} : creations' = [creations EXCEPT ![x] = @ + made]
  BY DEF CallCreate
<1>5. NoneFailed' /\ NumbersDiffer'
  BY <1>2, <1>3 DEF TracedInv, NoneFailed, NumbersDiffer, Calm
<1>6. ASSUME NEW y \in Drafts
      PROVE  creations'[y] <= Cardinality(Behind(y)')
  <2>1. Behind(y) \subseteq Behind(y)'
    BY <1>2, <1>3, CalmBehind
  <2>2. IsFiniteSet(Behind(y)') /\ IsFiniteSet(Behind(y))
    <3>1. IsFiniteSet(1..Len(attempts'[y]))
      BY FS_Interval, LenProperties DEF TypedInv, AttemptsTyped
    <3> QED
      BY <2>1, <3>1, FS_Subset DEF Behind
  <2>3. /\ Cardinality(Behind(y)) <= Cardinality(Behind(y)')
        /\ Cardinality(Behind(y)) \in Nat /\ Cardinality(Behind(y)') \in Nat
    BY <2>1, <2>2, FS_Subset, FS_CardinalityType
  <2>4. creations[y] \in Nat /\ creations[y] <= Cardinality(Behind(y))
    BY DEF TypedInv, WorldTyped, TracedInv, MadeBehind
  <2>5. CASE y # x
    <3>1. creations'[y] = creations[y]
      BY <1>4, <2>5 DEF TypedInv, WorldTyped
    <3> QED
      BY <2>3, <2>4, <3>1
  <2>6. CASE y = x
    <3>1. n \notin Behind(y)
      BY <1>1, <1>2, <2>6 DEF Behind, Ahead
    <3>2. n \in Behind(y)'
      BY <1>1, <1>2, <2>6 DEF Behind, Ahead, TracedInv, NumbersDiffer, Announced
    <3>3. (Behind(y) \union {n}) \subseteq Behind(y)'
      BY <2>1, <3>2
    <3>4. /\ Cardinality(Behind(y) \union {n}) = Cardinality(Behind(y)) + 1
          /\ Cardinality(Behind(y) \union {n}) <= Cardinality(Behind(y)')
      BY <2>2, <3>1, <3>3, FS_AddElement, FS_Subset
    <3>5. creations'[y] = creations[y] + made
      BY <1>1, <1>4, <2>6 DEF TypedInv, WorldTyped
    <3> QED
      BY <2>3, <2>4, <3>4, <3>5
  <2> QED
    BY <2>5, <2>6
<1> QED
  BY <1>5, <1>6 DEF TracedInv, MadeBehind

(* Every other step is calm. *)
LEMMA StepTraced == TypedInv /\ TypedInv' /\ TracedInv /\ [Next]_vars => TracedInv'
<1> SUFFICES ASSUME TypedInv, TypedInv', TracedInv, [Next]_vars
             PROVE  TracedInv'
  OBVIOUS
<1> USE DEF Goto, runRow, mapRow, table, provider, call, history
<1> DEFINE Quiet == Calm /\ UNCHANGED <<attempts, creations>>
<1>1. ASSUME Quiet PROVE TracedInv'
  BY <1>1, CalmTraced DEF TracedInv, NoneFailed
<1>2. ASSUME NEW p \in Procs, Return(p), UNCHANGED <<attempts, creations>>
      PROVE  TracedInv'
  BY <1>1, <1>2 DEF Return, Calm, Announced, Pledged, TypedInv, CallsTyped
<1>3. ASSUME NEW x \in Drafts, Approve(x) \/ Disappears(x)
      PROVE  TracedInv'
  BY <1>1, <1>3 DEF Approve, Disappears, Calm
<1>4. ASSUME NEW p \in Procs, NEW x \in Drafts,
             BeginCreate(p, x) \/ BeginVerify(p, x) \/ BeginReconcile(p, x)
      PROVE  TracedInv'
  <2>1. PICK l \in {"check", "get"}, o \in {"create", "verify", "reconcile"} :
          Begins(p, o, x, l)
    BY <1>4 DEF BeginCreate, BeginVerify, BeginReconcile
  <2>2. Calm
    BY <2>1 DEF Begins, Calm, Announced, Pledged, TypedInv, CallsTyped
  <2> QED
    BY <1>1, <2>1, <2>2 DEF Begins
<1>5. ASSUME NEW p \in Procs, CheckReadiness(p)
      PROVE  TracedInv'
  <2>1. CASE Return(p)
    BY <1>2, <1>5, <2>1 DEF CheckReadiness
  <2>2. CASE ~Return(p)
    <3>1. Goto(p, "count") /\ UNCHANGED <<call, attempts, creations>>
      BY <1>5, <2>2 DEF CheckReadiness
    <3> QED
      BY <1>1, <3>1 DEF Calm, Announced, Pledged, TypedInv, CallsTyped
  <2> QED
    BY <2>1, <2>2
<1>6. ASSUME NEW p \in Procs, CountAttempts(p)
      PROVE  TracedInv'
  BY <1>1, <1>6 DEF CountAttempts, Calm, Announced, Pledged, TypedInv, CallsTyped
<1>7. ASSUME NEW p \in Procs, StartAttempt(p)
      PROVE  TracedInv'
  BY <1>7, StartTraced
<1>8. ASSUME NEW p \in Procs, MarkPending(p)
      PROVE  TracedInv'
  BY <1>1, <1>8 DEF MarkPending, Calm, Announced, Pledged, TypedInv, CallsTyped
<1>9. ASSUME NEW p \in Procs, CallCreate(p)
      PROVE  TracedInv'
  BY <1>9, CallTraced
<1>10. ASSUME NEW p \in Procs, FinishAttempt(p)
       PROVE  TracedInv'
  <2>1. Calm /\ UNCHANGED creations
    BY <1>10 DEF FinishAttempt, Calm, Announced, Pledged, TypedInv, CallsTyped
  <2>2. /\ attempts' = [attempts EXCEPT ![draft[p]] =
             [attempts[draft[p]] EXCEPT ![number[p]] = AttemptStatus(answer[p])]]
        /\ draft[p] \in Drafts /\ number[p] \in 1..Len(attempts[draft[p]])
    BY <1>10 DEF FinishAttempt, TypedInv, LocalsFit, Announced
  <2>3. \A x \in Drafts : Len(attempts'[x]) = Len(attempts[x])
    BY <2>2, ExceptSeq DEF TypedInv, AttemptsTyped
  <2>4. AttemptStatus(answer[p]) # "FAILED"
    BY DEF AttemptStatus
  <2>5. NoneFailed'
    BY <2>2, <2>3, <2>4 DEF TracedInv, NoneFailed, TypedInv, AttemptsTyped
  <2> QED
    BY <2>1, <2>3, <2>5, CalmTraced
<1>11. ASSUME NEW p \in Procs, CallGet(p)
       PROVE  TracedInv'
  <2>1. pc[p] = "get" /\ op[p] \notin Announced
    BY <1>11 DEF CallGet, TypedInv, LocalsFit, Announced
  <2> QED
    BY <1>1, <1>11, <2>1 DEF CallGet, Calm, Announced, Pledged, TypedInv, CallsTyped
<1>12. ASSUME NEW p \in Procs,
              \/ RecordCreated(p) \/ HoldCreated(p) \/ Verdict(p)
              \/ PermitRetry(p) \/ GetFailed(p) \/ Crash(p)
       PROVE  TracedInv'
  BY <1>2, <1>12
  DEF RecordCreated, HoldCreated, Verdict, PermitRetry, GetFailed, Crash
<1>13. ASSUME NEW p \in Procs, RecordFound(p)
       PROVE  TracedInv'
  <2>1. UNCHANGED <<attempts, creations>>
    BY <1>13 DEF RecordFound
  <2>2. CASE Goto(p, "verdict") /\ UNCHANGED call
    BY <1>1, <2>1, <2>2 DEF Calm, Announced, Pledged, TypedInv, CallsTyped
  <2> QED
    BY <1>2, <1>13, <2>1, <2>2 DEF RecordFound
<1>14. CASE NextDay \/ UNCHANGED vars
  BY <1>1, <1>14 DEF NextDay, vars, Calm
<1> QED
  BY <1>3, <1>4, <1>5, <1>6, <1>7, <1>8, <1>9, <1>10, <1>11, <1>12, <1>13, <1>14
  DEF Next

(* What fell behind is among the attempts not called failed. *)
LEMMA TracedCounts == TypedInv /\ TracedInv => CreationsTraced
<1> SUFFICES ASSUME TypedInv, TracedInv, NEW x \in Drafts
             PROVE  creations[x] <= Cardinality({i \in 1..Len(attempts[x]) :
                                                   attempts[x][i] # "FAILED"})
  BY DEF CreationsTraced
<1> DEFINE kept == {i \in 1..Len(attempts[x]) : attempts[x][i] # "FAILED"}
<1>1. IsFiniteSet(1..Len(attempts[x]))
  BY FS_Interval, LenProperties DEF TypedInv, AttemptsTyped
<1>2. IsFiniteSet(kept) /\ Behind(x) \subseteq kept
  BY <1>1, FS_Subset DEF TracedInv, NoneFailed, Behind
<1>3. /\ Cardinality(Behind(x)) <= Cardinality(kept)
      /\ Cardinality(Behind(x)) \in Nat /\ Cardinality(kept) \in Nat
  BY <1>2, FS_Subset, FS_CardinalityType
<1>4. creations[x] \in Nat /\ creations[x] <= Cardinality(Behind(x))
  BY DEF TypedInv, WorldTyped, TracedInv, MadeBehind
<1> QED
  BY <1>3, <1>4

(* Nothing is made, nothing is announced. *)
LEMMA InitTraced == Init => TracedInv
<1> SUFFICES ASSUME Init PROVE TracedInv
  OBVIOUS
<1>1. NoneFailed /\ NumbersDiffer
  BY DEF Init, NoneFailed, NumbersDiffer, Announced
<1>2. ASSUME NEW x \in Drafts PROVE creations[x] <= Cardinality(Behind(x))
  <2>1. Behind(x) = {} /\ creations[x] = 0
    BY EmptySeq DEF Init, Behind
  <2> QED
    BY <2>1, FS_EmptySet
<1> QED
  BY <1>1, <1>2 DEF TracedInv, MadeBehind

(* However calls overlap and die, every draft the provider made has an     *)
(* attempt row of its own that does not call it failed.                    *)
THEOREM CreationsTracedHolds == Spec => []CreationsTraced
<1>1. Init => TracedInv
  BY InitTraced
<1>2. TypedInv /\ TypedInv' /\ TracedInv /\ [Next]_vars => TracedInv'
  BY StepTraced
<1>3. TypedInv /\ TracedInv => CreationsTraced
  BY TracedCounts
<1> QED
  BY <1>1, <1>2, <1>3, Typed, PTL DEF Spec

-----------------------------------------------------------------------------
(* While calls follow one another, whatever dies and whatever the provider *)
(* answers: LoneInv says what the rows of a draft say of each other and of *)
(* the mailbox (RowsFit) and what the one call in progress has made sure   *)
(* of where it stands (CreateFits, GetFits).                               *)

(* Without overlap at most one call is in progress. *)
LoneCall == \A p, q \in Procs : pc[p] # "idle" /\ pc[q] # "idle" => p = q

Confirmed(x) == \E i \in 1..Len(attempts[x]) : attempts[x][i] = "SUCCEEDED"

(* What the rows of a draft say of each other and of the mailbox. *)
RowsFit(x) ==
  /\ mapping[x] # "NONE" => run[x] = mapping[x]
  /\ mapping[x] = "NONE" =>
       /\ mappedOn[x] = 0
       /\ run[x] \notin {"EXTERNAL_DRAFT_CREATED", "READY_FOR_MANUAL_SEND"}
  /\ approval[x] = "INVALIDATED" => run[x] = "BLOCKED"
  /\ run[x] \in {"NONE", "APPROVED_FOR_DRAFT_CREATION"} => x \notin mailbox
  /\ run[x] \in {"NONE", "APPROVED_FOR_DRAFT_CREATION",
                 "DRAFT_CREATION_PENDING"} => ~idKnown[x]
  /\ Confirmed(x) /\ mapping[x] = "NONE" =>
       \/ run[x] \in {"DRAFT_CREATION_PENDING", "BLOCKED"}
       \/ (run[x] = "HOLD_FOR_RECONCILIATION" /\ ~idKnown[x])

(* A create call that goes on has met an approved run, no mapping and room *)
(* under the cap.                                                          *)
Room(d) == Cardinality(MappedSince(d)) < Cap
CreateFits(p) ==
  /\ pc[p] = "check" =>
       /\ mapping[draft[p]] = "NONE" /\ sawState[p] = run[draft[p]]
       /\ run[draft[p]] \notin {"NONE", "HOLD_FOR_RECONCILIATION", "BLOCKED"}
  /\ pc[p] \in {"count", "start"} \union Announced =>
       /\ mapping[draft[p]] = "NONE" /\ approval[draft[p]] = "APPROVED"
       /\ Room(now[p])
  /\ pc[p] \in {"count", "start", "pending"} =>
       run[draft[p]] = "APPROVED_FOR_DRAFT_CREATION"
  /\ pc[p] \in {"call", "finish", "record"} =>
       run[draft[p]] = "DRAFT_CREATION_PENDING"
  /\ pc[p] = "call" => draft[p] \notin mailbox
  /\ pc[p] \in {"call", "finish"} => ~Confirmed(draft[p])
  /\ pc[p] = "record" /\ answer[p] = "unknown_with_id" => ~Confirmed(draft[p])

(* The same for a call that asks for the draft. *)
GetFits(p) ==
  /\ (pc[p] = "get" /\ op[p] = "verify") \/ pc[p] \in {"verify", "verdict"} =>
       mapping[draft[p]] = "EXTERNAL_DRAFT_CREATED"
  /\ (pc[p] = "get" /\ op[p] = "reconcile") \/ pc[p] = "reconcile" =>
       /\ mapping[draft[p]] = "NONE" /\ idKnown[draft[p]]
       /\ run[draft[p]] = "HOLD_FOR_RECONCILIATION"
  /\ pc[p] = "reconcile" /\ answer[p] = "not_found" => draft[p] \notin mailbox

Lone ==
  /\ LoneCall
  /\ \A x \in Drafts : RowsFit(x)
  /\ \A p \in Procs : CreateFits(p) /\ GetFits(p)
LoneInv == ~overlapped => Lone

-----------------------------------------------------------------------------
(* Calls that follow one another.  A step of the one call in progress      *)
(* works on one draft and leaves the other rows alone.                     *)

OthersKept(x) ==
  \A y \in Drafts \ {x} :
    /\ approval'[y] = approval[y] /\ run'[y] = run[y] /\ idKnown'[y] = idKnown[y]
    /\ attempts'[y] = attempts[y]
    /\ mapping'[y] = mapping[y] /\ mappedOn'[y] = mappedOn[y]
    /\ y \in mailbox' => y \in mailbox

(* Rows that are kept still fit. *)
LEMMA KeptFits ==
  ASSUME NEW x \in Drafts, OthersKept(x), NEW y \in Drafts, y # x, RowsFit(y)
  PROVE  RowsFit(y)'
<1>1. Confirmed(y)' <=> Confirmed(y)
  BY DEF OthersKept, Confirmed
<1> QED
  BY <1>1 DEF OthersKept, RowsFit

(* Nothing is asked of an idle process. *)
LEMMA IdleFits ==
  ASSUME NEW p \in Procs, pc'[p] = "idle"
  PROVE  CreateFits(p)' /\ GetFits(p)'
BY DEF CreateFits, GetFits, Announced

(* It is enough to look at the draft and the process of the step. *)
LEMMA LoneStep ==
  ASSUME Lone, NEW p \in Procs, NEW x \in Drafts,
         \A q \in Procs : q # p => pc'[q] = "idle",
         OthersKept(x), RowsFit(x)', CreateFits(p)', GetFits(p)'
  PROVE  Lone'
<1>1. LoneCall'
  BY DEF LoneCall
<1>2. \A y \in Drafts : RowsFit(y)'
  BY KeptFits DEF Lone
<1>3. \A q \in Procs : CreateFits(q)' /\ GetFits(q)'
  BY IdleFits
<1> QED
  BY <1>1, <1>2, <1>3 DEF Lone

(* What holds when the one call in progress takes a step. *)
LEMMA Alone ==
  ASSUME TypedInv, Lone, NEW p \in Procs, pc[p] # "idle"
  PROVE  /\ draft[p] \in Drafts /\ RowsFit(draft[p])
         /\ CreateFits(p) /\ GetFits(p)
         /\ \A q \in Procs : q # p => pc[q] = "idle"
         /\ run[draft[p]] # "NONE"
<1>1. /\ draft[p] \in Drafts /\ RowsFit(draft[p]) /\ CreateFits(p) /\ GetFits(p)
      /\ \A q \in Procs : q # p => pc[q] = "idle"
  BY DEF TypedInv, LocalsFit, Lone, LoneCall
<1>2. pc[p] \in Labels /\ (pc[p] = "get" => op[p] \in {"verify", "reconcile"})
  BY DEF TypedInv, CallsTyped, LocalsFit
<1>3. run[draft[p]] # "NONE"
  BY <1>1, <1>2 DEF RowsFit, CreateFits, GetFits, Labels, Announced
<1> QED
  BY <1>1, <1>3

(* A step outside the calls touches no draft that a call is working on. *)
LEMMA RestLone ==
  ASSUME TypedInv, Lone, ~overlapped',
         \/ \E x \in Drafts : Approve(x) \/ Disappears(x)
         \/ NextDay \/ UNCHANGED vars
  PROVE  Lone'
<1> USE DEF runRow, mapRow, table, provider, call, history
<1>1. UNCHANGED <<pc, call, attempts, idKnown, mapRow>>
  BY DEF Approve, Disappears, NextDay, vars
<1>2. LoneCall'
  BY <1>1 DEF Lone, LoneCall
<1>3. \A y \in Drafts : (y \in mailbox' => y \in mailbox) /\ (Confirmed(y)' <=> Confirmed(y))
  BY <1>1 DEF Approve, Disappears, NextDay, vars, Confirmed
<1>4. \A d : Room(d)' <=> Room(d)
  BY <1>1 DEF Room, MappedSince
<1>5. CASE UNCHANGED <<run, approval>>
  <2>1. \A y \in Drafts : RowsFit(y)'
    BY <1>1, <1>3, <1>5 DEF Lone, RowsFit
  <2>2. ASSUME NEW q \in Procs
        PROVE  CreateFits(q)' /\ GetFits(q)'
    <3>1. CASE pc[q] = "idle"
      BY <1>1, <3>1, IdleFits
    <3>2. CASE pc[q] # "idle"
      <4>1. draft[q] \in Drafts /\ CreateFits(q) /\ GetFits(q)
        BY <3>2, Alone
      <4>2. CreateFits(q)'
        BY <1>1, <1>3, <1>4, <1>5, <4>1 DEF CreateFits
      <4>3. GetFits(q)'
        BY <1>1, <1>3, <1>5, <4>1 DEF GetFits
      <4> QED
        BY <4>2, <4>3
    <3> QED
      BY <3>1, <3>2
  <2> QED
    BY <1>2, <2>1, <2>2 DEF Lone
<1>6. ASSUME NEW x \in Drafts, Approve(x)
      PROVE  Lone'
  <2>1. /\ run[x] = "NONE" /\ run'[x] = "APPROVED_FOR_DRAFT_CREATION"
        /\ approval'[x] = "APPROVED"
        /\ \A y \in Drafts : y # x => run'[y] = run[y] /\ approval'[y] = approval[y]
        /\ mailbox' = mailbox
    BY <1>6 DEF Approve, SetRun, TypedInv, RowsTyped
  <2>2. RowsFit(x)'
    BY <1>1, <1>3, <2>1 DEF Lone, RowsFit
  <2>3. \A y \in Drafts : y # x => RowsFit(y)'
    BY <1>1, <1>3, <2>1 DEF Lone, RowsFit
  <2>4. ASSUME NEW q \in Procs
        PROVE  CreateFits(q)' /\ GetFits(q)'
    <3>1. CASE pc[q] = "idle"
      BY <1>1, <3>1, IdleFits
    <3>2. CASE pc[q] # "idle"
      <4>1. /\ draft[q] \in Drafts /\ CreateFits(q) /\ GetFits(q)
            /\ run[draft[q]] # "NONE"
        BY <3>2, Alone
      <4>2. run'[draft[q]] = run[draft[q]] /\ approval'[draft[q]] = approval[draft[q]]
        BY <2>1, <4>1
      <4>3. CreateFits(q)'
        BY <1>1, <1>3, <1>4, <2>1, <4>1, <4>2 DEF CreateFits
      <4>4. GetFits(q)'
        BY <1>1, <1>3, <2>1, <4>1, <4>2 DEF GetFits
      <4> QED
        BY <4>3, <4>4
    <3> QED
      BY <3>1, <3>2
  <2> QED
    BY <1>2, <2>2, <2>3, <2>4 DEF Lone
<1> QED
  BY <1>5, <1>6 DEF Disappears, NextDay, vars, Approve

(* Without overlap a call begins when no other is in progress, and its *)
(* guard is what the rows of its draft say.                            *)
LEMMA BeginLone ==
  ASSUME TypedInv, Lone, ~overlapped', NEW p \in Procs, NEW x \in Drafts,
         BeginCreate(p, x) \/ BeginVerify(p, x) \/ BeginReconcile(p, x)
  PROVE  Lone'
<1> USE DEF Begins, Goto, runRow, mapRow, table, provider
<1>1. \A q \in Procs : pc[q] = "idle"
  BY DEF BeginCreate, BeginVerify, BeginReconcile
<1>2. /\ \A q \in Procs : q # p => pc'[q] = "idle"
      /\ draft'[p] = x /\ sawState'[p] = run[x]
      /\ UNCHANGED <<table, provider>>
  BY <1>1 DEF BeginCreate, BeginVerify, BeginReconcile, TypedInv, CallsTyped
<1>3. OthersKept(x) /\ (Confirmed(x)' <=> Confirmed(x))
  BY <1>2 DEF OthersKept, Confirmed
<1>4. RowsFit(x)'
  BY <1>2, <1>3 DEF Lone, RowsFit
<1>5. CASE BeginCreate(p, x)
  <2>1. /\ pc'[p] = "check" /\ mapping[x] = "NONE"
        /\ run[x] \notin {"NONE", "HOLD_FOR_RECONCILIATION", "BLOCKED"}
    BY <1>5 DEF BeginCreate, Creatable, RunOpen, TypedInv, CallsTyped
  <2>2. CreateFits(p)' /\ GetFits(p)'
    BY <1>2, <2>1 DEF CreateFits, GetFits, Announced
  <2> QED
    BY <1>2, <1>3, <1>4, <2>2, LoneStep
<1>6. CASE BeginVerify(p, x)
  <2>1. /\ pc'[p] = "get" /\ op'[p] = "verify"
        /\ mapping[x] = "EXTERNAL_DRAFT_CREATED"
    BY <1>6 DEF BeginVerify, TypedInv, CallsTyped
  <2>2. CreateFits(p)' /\ GetFits(p)'
    BY <1>2, <2>1 DEF CreateFits, GetFits, Announced
  <2> QED
    BY <1>2, <1>3, <1>4, <2>2, LoneStep
<1>7. CASE BeginReconcile(p, x)
  <2>1. /\ pc'[p] = "get" /\ op'[p] = "reconcile"
        /\ mapping[x] = "NONE" /\ run[x] = "HOLD_FOR_RECONCILIATION" /\ idKnown[x]
    BY <1>7 DEF BeginReconcile, TypedInv, CallsTyped
  <2>2. CreateFits(p)' /\ GetFits(p)'
    BY <1>2, <2>1 DEF CreateFits, GetFits, Announced
  <2> QED
    BY <1>2, <1>3, <1>4, <2>2, LoneStep
<1> QED
  BY <1>5, <1>6, <1>7

(* A call that returns leaves the rows of its draft consistent. *)
LEMMA ReturnLone ==
  ASSUME TypedInv, Lone, NEW p \in Procs, pc[p] # "idle", Return(p),
         OthersKept(draft[p]),
         \A x \in Drafts : x = draft[p] => RowsFit(x)'
  PROVE  Lone'
<1>1. PICK x \in Drafts : x = draft[p]
  BY Alone
<1>2. pc'[p] = "idle" /\ \A q \in Procs : q # p => pc'[q] = "idle"
  BY Alone DEF Return, Goto, TypedInv, CallsTyped
<1> QED
  BY <1>1, <1>2, IdleFits, LoneStep

(* A call that goes on to another label and keeps draft and day. *)
LEMMA GoOnLone ==
  ASSUME TypedInv, Lone, NEW p \in Procs, pc[p] # "idle",
         NEW l \in Labels, Goto(p, l), OthersKept(draft[p]),
         \A x \in Drafts : x = draft[p] => RowsFit(x)',
         CreateFits(p)', GetFits(p)'
  PROVE  Lone'
<1>1. PICK x \in Drafts : x = draft[p]
  BY Alone
<1>2. \A q \in Procs : q # p => pc'[q] = "idle"
  BY Alone DEF Goto, TypedInv, CallsTyped
<1> QED
  BY <1>1, <1>2, LoneStep

(* The readiness check blocks the run, or has met room under the cap. *)
LEMMA CheckLone ==
  ASSUME TypedInv, Lone, NEW p \in Procs, CheckReadiness(p)
  PROVE  Lone'
<1> USE DEF Goto, SetRun, mapRow, provider, history, call
<1>1. PICK x \in Drafts : x = draft[p]
  BY Alone DEF CheckReadiness
<1>2. pc[p] = "check" /\ RowsFit(x) /\ CreateFits(p)
  BY <1>1, Alone DEF CheckReadiness
<1>3. OthersKept(x) /\ UNCHANGED <<attempts, mapRow, provider, idKnown>>
  BY <1>1 DEF CheckReadiness, OthersKept, TypedInv, RowsTyped
<1>4. Confirmed(x)' <=> Confirmed(x)
  BY <1>3 DEF Confirmed
<1>5. CASE Return(p)
  <2>1. \/ run'[x] = "BLOCKED"
        \/ run' = run /\ approval' = approval
    BY <1>1 DEF CheckReadiness, TypedInv, RowsTyped
  <2>2. RowsFit(x)'
    BY <1>1, <1>2, <1>3, <1>4, <2>1 DEF RowsFit, CreateFits
  <2> QED
    BY <1>1, <1>2, <1>3, <1>5, <2>2, ReturnLone
<1>6. CASE ~Return(p)
  <2>1. /\ ~CapReached(now[p]) /\ approval[x] = "APPROVED"
        /\ sawState[p] = "APPROVED_FOR_DRAFT_CREATION"
        /\ Goto(p, "count") /\ UNCHANGED <<call, approval, run>>
    BY <1>1, <1>6 DEF CheckReadiness
  <2>2. RowsFit(x)'
    BY <1>2, <1>3, <1>4, <2>1 DEF RowsFit
  <2>3. pc'[p] = "count" /\ draft'[p] = x /\ now'[p] = now[p]
    BY <1>1, <2>1 DEF TypedInv, CallsTyped
  <2>4. Room(now[p]) /\ (Room(now[p])' <=> Room(now[p]))
    <3>1. IsFiniteSet(MappedSince(now[p]))
      BY GmailAssumption, FS_Subset DEF MappedSince
    <3>2. Room(now[p])
      BY <2>1, <3>1, FS_CardinalityType, GmailAssumption DEF CapReached, Room
    <3> QED
      BY <1>3, <2>3, <3>2 DEF Room, MappedSince
  <2>5. CreateFits(p)'
    BY <1>1, <1>2, <1>3, <2>1, <2>3, <2>4 DEF CreateFits, Announced
  <2>6. GetFits(p)'
    BY <2>3 DEF GetFits
  <2> QED
    BY <1>1, <1>2, <1>3, <2>1, <2>2, <2>5, <2>6, GoOnLone DEF Labels
<1> QED
  BY <1>5, <1>6

(* Between the count and the provider call only the run moves on. *)
LEMMA AnnounceLone ==
  ASSUME TypedInv, Lone, NEW p \in Procs,
         CountAttempts(p) \/ StartAttempt(p) \/ MarkPending(p)
  PROVE  Lone'
<1> USE DEF Goto, SetRun, runRow, mapRow, table, provider, call, history
<1>1. PICK x \in Drafts : x = draft[p]
  BY Alone DEF CountAttempts, StartAttempt, MarkPending
<1>2. /\ RowsFit(x) /\ CreateFits(p) /\ pc[p] \in {"count", "start", "pending"}
  BY <1>1, Alone DEF CountAttempts, StartAttempt, MarkPending
<1>3. /\ mapping[x] = "NONE" /\ approval[x] = "APPROVED" /\ Room(now[p])
      /\ run[x] = "APPROVED_FOR_DRAFT_CREATION" /\ x \notin mailbox /\ ~idKnown[x]
      /\ ~Confirmed(x) /\ mappedOn[x] = 0
  BY <1>1, <1>2 DEF RowsFit, CreateFits, Announced
<1>4. UNCHANGED <<approval, idKnown, mapRow, provider>>
  BY DEF CountAttempts, StartAttempt, MarkPending
<1>5. \A d : Room(d)' <=> Room(d)
  BY <1>4 DEF Room, MappedSince
<1>6. CASE CountAttempts(p)
  <2>1. /\ pc'[p] = "start" /\ draft'[p] = x /\ now'[p] = now[p]
        /\ UNCHANGED <<attempts, run>> /\ Goto(p, "start")
    BY <1>1, <1>6 DEF CountAttempts, TypedInv, CallsTyped
  <2>2. OthersKept(x) /\ (Confirmed(x)' <=> Confirmed(x))
    BY <1>4, <2>1 DEF OthersKept, Confirmed
  <2>3. RowsFit(x)'
    BY <1>2, <1>4, <2>1, <2>2 DEF RowsFit
  <2>4. CreateFits(p)' /\ GetFits(p)'
    BY <1>3, <1>4, <1>5, <2>1 DEF CreateFits, GetFits, Announced
  <2> QED
    BY <1>1, <1>2, <2>1, <2>2, <2>3, <2>4, GoOnLone DEF Labels
<1>7. CASE StartAttempt(p)
  <2>1. /\ UNCHANGED run
        /\ \A y \in Drafts : y # x => attempts'[y] = attempts[y]
    BY <1>1, <1>7 DEF StartAttempt, TypedInv, AttemptsTyped
  <2>2. OthersKept(x)
    BY <1>4, <2>1 DEF OthersKept
  <2>3. RowsFit(x)'
    <3>1. ~Confirmed(x)'
      <4>1. CASE UNCHANGED attempts
        BY <1>3, <4>1 DEF Confirmed
      <4>2. CASE NumberFree(x, number[p]) /\ ~ UNCHANGED attempts
        <5>1. attempts[x] \in Seq(Statuses) /\ Len(attempts[x]) \in Nat
          BY LenProperties DEF TypedInv, AttemptsTyped
        <5>2. number[p] = Len(attempts[x]) + 1 /\ number[p] > Len(attempts[x])
          BY <4>2, <5>1 DEF NumberFree
        <5>3. attempts' = [attempts EXCEPT ![x] = Append(attempts[x], "STARTED")]
          BY <1>1, <1>7, <4>2, <5>2 DEF StartAttempt
        <5>4. attempts'[x] = Append(attempts[x], "STARTED")
          BY <5>3 DEF TypedInv, AttemptsTyped
        <5>5. ASSUME NEW i \in 1..Len(attempts'[x]) PROVE attempts'[x][i] # "SUCCEEDED"
          <6>1. i = Len(attempts[x]) + 1 \/ i \in 1..Len(attempts[x])
            BY <5>1, <5>4, AppendProperties DEF Statuses
          <6> QED
            BY <1>3, <5>1, <5>4, <6>1, AppendProperties DEF Confirmed, Statuses
        <5> QED
          BY <5>5 DEF Confirmed
      <4> QED
        BY <1>1, <1>7, <4>1, <4>2 DEF StartAttempt
    <3> QED
      BY <1>2, <1>3, <1>4, <2>1, <3>1 DEF RowsFit
  <2>4. CASE Return(p)
    BY <1>1, <1>2, <2>2, <2>3, <2>4, ReturnLone
  <2>5. CASE Goto(p, "pending") /\ UNCHANGED call
    <3>1. pc'[p] = "pending" /\ draft'[p] = x /\ now'[p] = now[p]
      BY <1>1, <2>5 DEF TypedInv, CallsTyped
    <3>2. CreateFits(p)' /\ GetFits(p)'
      BY <1>3, <1>4, <1>5, <2>1, <3>1 DEF CreateFits, GetFits, Announced
    <3> QED
      BY <1>1, <1>2, <2>2, <2>3, <2>5, <3>2, GoOnLone DEF Labels
  <2> QED
    BY <1>7, <2>4, <2>5 DEF StartAttempt
<1>8. CASE MarkPending(p)
  <2>1. /\ pc'[p] = "call" /\ draft'[p] = x /\ now'[p] = now[p] /\ Goto(p, "call")
        /\ UNCHANGED attempts /\ run'[x] = "DRAFT_CREATION_PENDING"
        /\ \A y \in Drafts : y # x => run'[y] = run[y]
    BY <1>1, <1>8 DEF MarkPending, TypedInv, CallsTyped, RowsTyped
  <2>2. OthersKept(x) /\ (Confirmed(x)' <=> Confirmed(x))
    BY <1>4, <2>1 DEF OthersKept, Confirmed
  <2>3. RowsFit(x)'
    BY <1>3, <1>4, <2>1, <2>2 DEF RowsFit
  <2>4. CreateFits(p)' /\ GetFits(p)'
    BY <1>3, <1>4, <1>5, <2>1, <2>2 DEF CreateFits, GetFits, Announced
  <2> QED
    BY <1>1, <1>2, <2>1, <2>2, <2>3, <2>4, GoOnLone DEF Labels
<1> QED
  BY <1>6, <1>7, <1>8

(* The provider call and what is recorded of it. *)
LEMMA CreateLone ==
  ASSUME TypedInv, Lone, NEW p \in Procs,
         CallCreate(p) \/ FinishAttempt(p) \/ RecordCreated(p) \/ HoldCreated(p)
  PROVE  Lone'
<1> USE DEF Goto, SetRun, runRow, mapRow, table, provider, call, history
<1>1. PICK x \in Drafts : x = draft[p]
  BY Alone DEF CallCreate, FinishAttempt, RecordCreated, HoldCreated
<1>2. RowsFit(x) /\ CreateFits(p) /\ pc[p] \in {"call", "finish", "record"}
  BY <1>1, Alone DEF CallCreate, FinishAttempt, RecordCreated, HoldCreated
<1>3. /\ mapping[x] = "NONE" /\ approval[x] = "APPROVED" /\ Room(now[p])
      /\ run[x] = "DRAFT_CREATION_PENDING" /\ ~idKnown[x] /\ mappedOn[x] = 0
  BY <1>1, <1>2 DEF RowsFit, CreateFits, Announced
<1>4. CASE CallCreate(p)
  <2>1. /\ pc'[p] = "finish" /\ draft'[p] = x /\ now'[p] = now[p]
        /\ Goto(p, "finish") /\ UNCHANGED <<table, now>>
        /\ \A y \in Drafts : y # x => (y \in mailbox' => y \in mailbox)
    BY <1>1, <1>4 DEF CallCreate, TypedInv, CallsTyped
  <2>2. OthersKept(x) /\ (Confirmed(x)' <=> Confirmed(x)) /\ ~Confirmed(x)
    BY <1>1, <1>2, <1>4, <2>1 DEF OthersKept, Confirmed, CreateFits, CallCreate
  <2>3. RowsFit(x)'
    BY <1>3, <2>1, <2>2 DEF RowsFit
  <2>4. Room(now[p])' <=> Room(now[p])
    BY <2>1 DEF Room, MappedSince
  <2>5. CreateFits(p)' /\ GetFits(p)'
    BY <1>3, <2>1, <2>2, <2>4 DEF CreateFits, GetFits, Announced
  <2> QED
    BY <1>1, <1>2, <2>1, <2>2, <2>3, <2>5, GoOnLone DEF Labels
<1>5. CASE FinishAttempt(p)
  <2>1. /\ pc'[p] = "record" /\ draft'[p] = x /\ now'[p] = now[p]
        /\ answer'[p] = answer[p] /\ Goto(p, "record")
        /\ UNCHANGED <<runRow, mapRow, provider, now>>
        /\ \A y \in Drafts : y # x => attempts'[y] = attempts[y]
        /\ attempts'[x] = [attempts[x] EXCEPT ![number[p]] = AttemptStatus(answer[p])]
    BY <1>1, <1>5 DEF FinishAttempt, TypedInv, CallsTyped, AttemptsTyped
  <2>2. OthersKept(x)
    BY <2>1 DEF OthersKept
  <2>3. RowsFit(x)'
    BY <1>3, <2>1 DEF RowsFit
  <2>4. Room(now[p])' <=> Room(now[p])
    BY <2>1 DEF Room, MappedSince
  <2>5. ASSUME answer[p] = "unknown_with_id" PROVE ~Confirmed(x)'
    <3>1. ~Confirmed(x) /\ AttemptStatus(answer[p]) # "SUCCEEDED"
      BY <1>1, <1>2, <1>5, <2>5 DEF CreateFits, FinishAttempt, AttemptStatus
    <3>2. /\ number[p] \in 1..Len(attempts[x]) /\ attempts[x] \in Seq(Statuses)
          /\ AttemptStatus(answer[p]) \in Statuses
      BY <1>1, <1>5 DEF FinishAttempt, TypedInv, LocalsFit, AttemptsTyped,
        Announced, AttemptStatus, Statuses
    <3>3. /\ Len(attempts'[x]) = Len(attempts[x])
          /\ \A i \in 1..Len(attempts[x]) :
               attempts'[x][i] \in {attempts[x][i], AttemptStatus(answer[p])}
      BY <2>1, <3>2, ExceptSeq
    <3> QED
      BY <3>1, <3>3 DEF Confirmed
  <2>6. CreateFits(p)' /\ GetFits(p)'
    BY <1>3, <2>1, <2>4, <2>5 DEF CreateFits, GetFits, Announced
  <2> QED
    BY <1>1, <1>2, <2>1, <2>2, <2>3, <2>6, GoOnLone DEF Labels
<1>6. CASE RecordCreated(p)
  <2>1. /\ Return(p) /\ UNCHANGED <<approval, attempts, provider>>
        /\ run'[x] = "EXTERNAL_DRAFT_CREATED" /\ mapping'[x] = "EXTERNAL_DRAFT_CREATED"
        /\ \A y \in Drafts : y # x =>
             /\ run'[y] = run[y] /\ mapping'[y] = mapping[y]
             /\ mappedOn'[y] = mappedOn[y] /\ idKnown'[y] = idKnown[y]
    BY <1>1, <1>6 DEF RecordCreated, RecordMapping, SetBoth, TypedInv, RowsTyped
  <2>2. OthersKept(x) /\ RowsFit(x)'
    BY <1>3, <2>1 DEF OthersKept, RowsFit
  <2> QED
    BY <1>1, <1>2, <2>1, <2>2, ReturnLone
<1>7. CASE HoldCreated(p)
  <2>1. /\ Return(p) /\ UNCHANGED <<approval, attempts, mapRow, provider>>
        /\ run'[x] = "HOLD_FOR_RECONCILIATION"
        /\ idKnown'[x] => answer[p] = "unknown_with_id"
        /\ \A y \in Drafts : y # x => run'[y] = run[y] /\ idKnown'[y] = idKnown[y]
    BY <1>1, <1>3, <1>7 DEF HoldCreated, TypedInv, RowsTyped
  <2>2. OthersKept(x) /\ (Confirmed(x)' <=> Confirmed(x))
    BY <2>1 DEF OthersKept, Confirmed
  <2>3. answer[p] = "unknown_with_id" => ~Confirmed(x)
    BY <1>1, <1>2, <1>7 DEF CreateFits, HoldCreated
  <2>4. RowsFit(x)'
    BY <1>3, <2>1, <2>2, <2>3 DEF RowsFit
  <2> QED
    BY <1>1, <1>2, <2>1, <2>2, <2>4, ReturnLone
<1> QED
  BY <1>4, <1>5, <1>6, <1>7

(* Verification and reconciliation. *)
LEMMA GetLone ==
  ASSUME TypedInv, Lone, NEW p \in Procs,
         CallGet(p) \/ Verdict(p) \/ PermitRetry(p) \/ GetFailed(p) \/ RecordFound(p)
  PROVE  Lone'
<1> USE DEF Goto, SetRun, SetBoth, runRow, mapRow, table, provider, call, history
<1>1. PICK x \in Drafts : x = draft[p]
  BY Alone DEF CallGet, Verdict, PermitRetry, GetFailed, RecordFound
<1>2. RowsFit(x) /\ GetFits(p) /\ pc[p] \in {"get", "verify", "verdict", "reconcile"}
  BY <1>1, Alone DEF CallGet, Verdict, PermitRetry, GetFailed, RecordFound
<1>3. UNCHANGED <<approval, attempts, provider>> /\ (Confirmed(x)' <=> Confirmed(x))
  BY DEF CallGet, Verdict, PermitRetry, GetFailed, RecordFound, Confirmed
<1>4. CASE CallGet(p)
  <2>1. /\ pc[p] = "get" /\ pc'[p] = op[p] /\ draft'[p] = x /\ Goto(p, op[p])
        /\ UNCHANGED table /\ op[p] \in {"verify", "reconcile"}
        /\ answer'[p] = "not_found" => x \notin mailbox
    BY <1>1, <1>4 DEF CallGet, TypedInv, CallsTyped, LocalsFit
  <2>2. OthersKept(x) /\ RowsFit(x)'
    BY <1>2, <1>3, <2>1 DEF OthersKept, RowsFit
  <2>3. CreateFits(p)'
    BY <2>1 DEF CreateFits, Announced
  <2>4. GetFits(p)'
    BY <1>1, <1>2, <1>3, <2>1 DEF GetFits
  <2> QED
    BY <1>1, <1>2, <2>1, <2>2, <2>3, <2>4, GoOnLone DEF Labels
<1>5. CASE Verdict(p)
  <2>1. /\ Return(p) /\ UNCHANGED <<idKnown, mappedOn>>
        /\ run'[x] = mapping'[x]
        /\ mapping'[x] \in {"READY_FOR_MANUAL_SEND", "HOLD_FOR_RECONCILIATION"}
        /\ \A y \in Drafts : y # x => run'[y] = run[y] /\ mapping'[y] = mapping[y]
    BY <1>1, <1>5 DEF Verdict, Conclude, TypedInv, RowsTyped
  <2>2. mapping[x] = "EXTERNAL_DRAFT_CREATED"
    BY <1>1, <1>2, <1>5 DEF GetFits, Verdict
  <2>3. OthersKept(x) /\ RowsFit(x)'
    BY <1>2, <1>3, <2>1, <2>2 DEF OthersKept, RowsFit
  <2> QED
    BY <1>1, <1>2, <2>1, <2>3, ReturnLone
<1>6. CASE PermitRetry(p)
  <2>1. /\ Return(p) /\ UNCHANGED mapRow
        /\ run'[x] = "APPROVED_FOR_DRAFT_CREATION" /\ ~idKnown'[x]
        /\ \A y \in Drafts : y # x => run'[y] = run[y] /\ idKnown'[y] = idKnown[y]
        /\ pc[p] = "reconcile" /\ answer[p] = "not_found"
    BY <1>1, <1>6 DEF PermitRetry, NotFound, TypedInv, RowsTyped
  <2>2. /\ mapping[x] = "NONE" /\ idKnown[x] /\ x \notin mailbox
        /\ run[x] = "HOLD_FOR_RECONCILIATION"
    BY <1>1, <1>2, <2>1 DEF GetFits
  <2>3. OthersKept(x)
    BY <1>3, <2>1 DEF OthersKept
  <2>4. RowsFit(x)'
    BY <1>2, <1>3, <2>1, <2>2 DEF RowsFit
  <2> QED
    BY <1>1, <1>2, <2>1, <2>3, <2>4, ReturnLone
<1>7. CASE GetFailed(p)
  <2>1. Return(p) /\ UNCHANGED table
    BY <1>7 DEF GetFailed
  <2>2. OthersKept(x) /\ RowsFit(x)'
    BY <1>2, <1>3, <2>1 DEF OthersKept, RowsFit
  <2> QED
    BY <1>1, <1>2, <2>1, <2>2, ReturnLone
<1>8. CASE RecordFound(p)
  <2>1. mapping[x] = "NONE" /\ run[x] = "HOLD_FOR_RECONCILIATION"
    BY <1>1, <1>2, <1>8 DEF GetFits, RecordFound
  <2>2. RecordMapping(x, now[p]) /\ Goto(p, "verdict") /\ UNCHANGED call
    BY <1>1, <1>8, <2>1 DEF RecordFound
  <2>3. /\ run'[x] = "EXTERNAL_DRAFT_CREATED" /\ mapping'[x] = "EXTERNAL_DRAFT_CREATED"
        /\ \A y \in Drafts : y # x =>
             /\ run'[y] = run[y] /\ mapping'[y] = mapping[y]
             /\ mappedOn'[y] = mappedOn[y] /\ idKnown'[y] = idKnown[y]
    BY <2>2 DEF RecordMapping, TypedInv, RowsTyped
  <2>4. pc'[p] = "verdict" /\ draft'[p] = x
    BY <1>1, <2>2 DEF TypedInv, CallsTyped
  <2>5. OthersKept(x)
    BY <1>3, <2>3 DEF OthersKept
  <2>6. RowsFit(x)'
    BY <1>2, <1>3, <2>1, <2>3 DEF RowsFit
  <2>7. CreateFits(p)' /\ GetFits(p)'
    BY <2>3, <2>4 DEF CreateFits, GetFits, Announced
  <2> QED
    BY <1>1, <1>2, <2>2, <2>5, <2>6, <2>7, GoOnLone DEF Labels
<1> QED
  BY <1>4, <1>5, <1>6, <1>7, <1>8

(* The rows fit at every commit a process can die after. *)
LEMMA CrashLone ==
  ASSUME TypedInv, Lone, NEW p \in Procs, Crash(p)
  PROVE  Lone'
<1>1. PICK x \in Drafts : x = draft[p]
  BY Alone DEF Crash
<1>2. Return(p) /\ pc[p] # "idle" /\ UNCHANGED <<table, provider>>
  BY DEF Crash
<1>3. OthersKept(x) /\ (Confirmed(x)' <=> Confirmed(x)) /\ RowsFit(x)
  BY <1>1, <1>2, Alone DEF OthersKept, Confirmed, table, runRow, mapRow, provider
<1>4. RowsFit(x)'
  BY <1>2, <1>3 DEF RowsFit, table, runRow, mapRow, provider
<1> QED
  BY <1>1, <1>2, <1>3, <1>4, ReturnLone

(* Overlap is remembered. *)
LEMMA OverlapStays == TypedInv /\ [Next]_vars /\ ~overlapped' => ~overlapped
<1> SUFFICES ASSUME [Next]_vars, ~overlapped' PROVE ~overlapped
  OBVIOUS
<1> USE DEF history
<1>1. ASSUME NEW x \in Drafts, Approve(x) \/ Disappears(x)
      PROVE  ~overlapped
  BY <1>1 DEF Approve, Disappears
<1>2. ASSUME NEW p \in Procs, NEW x \in Drafts,
             BeginCreate(p, x) \/ BeginVerify(p, x) \/ BeginReconcile(p, x)
      PROVE  ~overlapped
  BY <1>2, Zenon DEF BeginCreate, BeginVerify, BeginReconcile, Begins
<1>3. ASSUME NEW p \in Procs,
             \/ CheckReadiness(p) \/ CountAttempts(p) \/ StartAttempt(p)
             \/ MarkPending(p) \/ CallCreate(p) \/ FinishAttempt(p)
             \/ RecordCreated(p) \/ HoldCreated(p) \/ CallGet(p) \/ Verdict(p)
             \/ PermitRetry(p) \/ GetFailed(p) \/ RecordFound(p) \/ Crash(p)
      PROVE  ~overlapped
  BY <1>3 DEF CheckReadiness, CountAttempts, StartAttempt, MarkPending, CallCreate,
    FinishAttempt, RecordCreated, HoldCreated, CallGet, Verdict, PermitRetry,
    GetFailed, RecordFound, Crash
<1>4. CASE NextDay \/ UNCHANGED vars
  BY <1>4 DEF NextDay, vars
<1> QED
  BY <1>1, <1>2, <1>3, <1>4 DEF Next

(* Every step that does not overlap another call keeps the invariant. *)
LEMMA StepLone == TypedInv /\ LoneInv /\ [Next]_vars => LoneInv'
<1> SUFFICES ASSUME TypedInv, Lone, [Next]_vars, ~overlapped'
             PROVE  Lone'
  BY OverlapStays DEF LoneInv
<1>1. ASSUME NEW p \in Procs, CheckReadiness(p) PROVE Lone'
  BY <1>1, CheckLone
<1>2. ASSUME NEW p \in Procs, CountAttempts(p) \/ StartAttempt(p) \/ MarkPending(p)
      PROVE  Lone'
  BY <1>2, AnnounceLone
<1>3. ASSUME NEW p \in Procs,
             CallCreate(p) \/ FinishAttempt(p) \/ RecordCreated(p) \/ HoldCreated(p)
      PROVE  Lone'
  BY <1>3, CreateLone
<1>4. ASSUME NEW p \in Procs,
             CallGet(p) \/ Verdict(p) \/ PermitRetry(p) \/ GetFailed(p) \/ RecordFound(p)
      PROVE  Lone'
  BY <1>4, GetLone
<1>5. ASSUME NEW p \in Procs, Crash(p) PROVE Lone'
  BY <1>5, CrashLone
<1>6. ASSUME NEW p \in Procs, NEW x \in Drafts,
             BeginCreate(p, x) \/ BeginVerify(p, x) \/ BeginReconcile(p, x)
      PROVE  Lone'
  BY <1>6, BeginLone
<1>7. CASE (\E x \in Drafts : Approve(x) \/ Disappears(x)) \/ NextDay \/ UNCHANGED vars
  BY <1>7, RestLone
<1> QED
  BY <1>1, <1>2, <1>3, <1>4, <1>5, <1>6, <1>7 DEF Next

(* No rows, no calls. *)
LEMMA InitLone == Init => LoneInv
<1> SUFFICES ASSUME Init PROVE Lone
  BY DEF LoneInv
<1>1. \A x \in Drafts : ~Confirmed(x)
  BY EmptySeq DEF Init, Confirmed
<1>2. \A x \in Drafts : RowsFit(x)
  BY <1>1 DEF Init, RowsFit
<1>3. LoneCall /\ \A p \in Procs : CreateFits(p) /\ GetFits(p)
  BY DEF Init, LoneCall, CreateFits, GetFits, Announced
<1> QED
  BY <1>2, <1>3 DEF Lone

(* The invariant holds in every behaviour. *)
LEMMA LoneHolds == Spec => []LoneInv
BY InitLone, StepLone, Typed, PTL DEF Spec

(* Calls that follow one another, whatever dies and whatever the provider  *)
(* answers, leave run, mapping and approval telling one story.             *)
THEOREM TablesAgreeHolds == Spec => []TablesAgree
<1>1. LoneInv => TablesAgree
  BY DEF LoneInv, Lone, RowsFit, TablesAgree
<1> QED
  BY <1>1, LoneHolds, PTL

(* Calls that follow one another never ask for a second draft while the    *)
(* first exists.                                                           *)
THEOREM NoSecondDraftHolds == Spec => NoSecondDraft
<1> DEFINE Asked == ~overlapped' => \A x \in Drafts :
                      creations'[x] > creations[x] => x \notin mailbox
<1>1. ASSUME TypedInv, LoneInv, [Next]_vars PROVE Asked
  <2> SUFFICES ASSUME Lone, NEW x \in Drafts, creations'[x] > creations[x]
               PROVE  x \notin mailbox
    BY <1>1, OverlapStays DEF LoneInv
  <2>1. creations' # creations
    BY <1>1 DEF TypedInv, WorldTyped
  <2>2. PICK p \in Procs : CallCreate(p)
    BY <1>1, <2>1 DEF Next, vars, provider, Approve, Disappears, BeginCreate,
      BeginVerify, BeginReconcile, Begins, CheckReadiness, CountAttempts,
      StartAttempt, MarkPending, FinishAttempt, RecordCreated, HoldCreated,
      CallGet, Verdict, PermitRetry, GetFailed, RecordFound, Crash, NextDay
  <2>3. x = draft[p]
    <3>1. PICK made \in {0, 1} : creations' = [creations EXCEPT ![draft[p]] = @ + made]
      BY <2>2 DEF CallCreate
    <3> QED
      BY <1>1, <3>1 DEF TypedInv, WorldTyped
  <2> QED
    BY <2>2, <2>3 DEF Lone, CreateFits, CallCreate
<1> QED
  BY <1>1, Typed, LoneHolds, PTL DEF Spec, NoSecondDraft

-----------------------------------------------------------------------------
(* The cap.  A step that leaves a draft out of a day's confirmed mappings  *)
(* keeps it out, but for the one step that has met room under the cap.     *)
Kept(d) == {x \in Drafts : mappedOn[x] = d /\ Confirmed(x)}

(* The property in terms of Kept. *)
LEMMA CapKeptIs ==
  CapKept <=>
    (~overlapped => \A d \in 1..MaxDay : Cardinality(Kept(d)) <= Cap)
BY DEF CapKept, Kept, Confirmed

(* A step that adds no draft to any day keeps the cap. *)
LEMMA KeptShrinks ==
  ASSUME CapKept, ~overlapped, \A d \in 1..MaxDay : Kept(d)' \subseteq Kept(d)
  PROVE  CapKept'
<1> SUFFICES ASSUME NEW d \in 1..MaxDay PROVE Cardinality(Kept(d)') <= Cap
  BY DEF CapKept, Kept, Confirmed
<1>1. IsFiniteSet(Kept(d)) /\ Cardinality(Kept(d)) <= Cap
  BY CapKeptIs, GmailAssumption, FS_Subset DEF Kept
<1>2. Cardinality(Kept(d)') <= Cardinality(Kept(d)) /\ IsFiniteSet(Kept(d)')
  BY <1>1, FS_Subset
<1> QED
  BY <1>1, <1>2, FS_CardinalityType, GmailAssumption

(* A recorded creation has met room; the mappings have not changed since. *)
LEMMA RecordCap ==
  ASSUME TypedInv, Lone, CapKept, ~overlapped, NEW p \in Procs, RecordCreated(p)
  PROVE  CapKept'
<1> SUFFICES ASSUME NEW d \in 1..MaxDay PROVE Cardinality(Kept(d)') <= Cap
  BY DEF CapKept, Kept, Confirmed
<1>1. PICK x \in Drafts : x = draft[p]
  BY Alone DEF RecordCreated
<1>2. Room(now[p]) /\ now[p] \in 1..MaxDay
  BY Alone DEF RecordCreated, CreateFits, Announced, TypedInv, LocalsFit
<1>3. /\ attempts' = attempts /\ mappedOn'[x] = now[p]
      /\ \A y \in Drafts : y # x => mappedOn'[y] = mappedOn[y]
  BY <1>1 DEF RecordCreated, RecordMapping, TypedInv, RowsTyped
<1>4. \A y : Confirmed(y)' <=> Confirmed(y)
  BY <1>3 DEF Confirmed
<1>5. CASE d # now[p]
  <2>1. Kept(d)' \subseteq Kept(d)
    BY <1>3, <1>4, <1>5 DEF Kept
  <2>2. IsFiniteSet(Kept(d)) /\ Cardinality(Kept(d)) <= Cap
    BY CapKeptIs, GmailAssumption, FS_Subset DEF Kept
  <2>3. Cardinality(Kept(d)') <= Cardinality(Kept(d)) /\ IsFiniteSet(Kept(d)')
    BY <2>1, <2>2, FS_Subset
  <2> QED
    BY <2>2, <2>3, FS_CardinalityType, GmailAssumption
<1>6. CASE d = now[p]
  <2> DEFINE since == MappedSince(d)
  <2>1. IsFiniteSet(since) /\ Cardinality(since) \in Nat /\ Cardinality(since) < Cap
    BY <1>2, <1>6, GmailAssumption, FS_Subset, FS_CardinalityType DEF MappedSince, Room
  <2>2. Kept(d)' \subseteq since \union {x}
    BY <1>2, <1>3, <1>4, <1>6 DEF Kept, MappedSince
  <2>3. /\ IsFiniteSet(since \union {x})
        /\ Cardinality(since \union {x}) <= Cardinality(since) + 1
    BY <2>1, FS_AddElement
  <2>4. /\ IsFiniteSet(Kept(d)')
        /\ Cardinality(Kept(d)') <= Cardinality(since \union {x})
    BY <2>2, <2>3, FS_Subset
  <2> QED
    BY <2>1, <2>3, <2>4, FS_CardinalityType, GmailAssumption
<1> QED
  BY <1>5, <1>6

(* Only a recorded creation adds to a day. *)
LEMMA StepCap ==
  TypedInv /\ LoneInv /\ CapKept /\ [Next]_vars => CapKept'
<1> SUFFICES ASSUME TypedInv, Lone, ~overlapped, CapKept, [Next]_vars
             PROVE  CapKept'
  <2>1. overlapped' => CapKept'
    BY DEF CapKept
  <2> QED
    BY <2>1, OverlapStays DEF LoneInv
<1> USE DEF mapRow, table
<1>1. ASSUME UNCHANGED <<attempts, mappedOn>> PROVE CapKept'
  BY <1>1, KeptShrinks DEF Kept, Confirmed
<1>2. ASSUME NEW p \in Procs, StartAttempt(p)
      PROVE  CapKept'
  <2>1. PICK x \in Drafts : x = draft[p]
    BY <1>2, Alone DEF StartAttempt
  <2>2. mappedOn[x] = 0 /\ UNCHANGED mappedOn
    BY <1>2, <2>1, Alone DEF StartAttempt, CreateFits, RowsFit
  <2>3. \A y \in Drafts : y # x => attempts'[y] = attempts[y]
    BY <1>2, <2>1 DEF StartAttempt, TypedInv, AttemptsTyped
  <2>4. \A d \in 1..MaxDay : Kept(d)' \subseteq Kept(d)
    BY <2>2, <2>3 DEF Kept, Confirmed
  <2> QED
    BY <2>4, KeptShrinks
<1>3. ASSUME NEW p \in Procs, FinishAttempt(p)
      PROVE  CapKept'
  <2>1. PICK x \in Drafts : x = draft[p]
    BY <1>3, Alone DEF FinishAttempt
  <2>2. mappedOn[x] = 0 /\ UNCHANGED mappedOn
    BY <1>3, <2>1, Alone DEF FinishAttempt, CreateFits, RowsFit, Announced
  <2>3. \A y \in Drafts : y # x => attempts'[y] = attempts[y]
    BY <1>3, <2>1 DEF FinishAttempt, TypedInv, AttemptsTyped
  <2>4. \A d \in 1..MaxDay : Kept(d)' \subseteq Kept(d)
    BY <2>2, <2>3 DEF Kept, Confirmed
  <2> QED
    BY <2>4, KeptShrinks
<1>4. ASSUME NEW p \in Procs, RecordCreated(p)
      PROVE  CapKept'
  BY <1>4, RecordCap
<1>5. ASSUME NEW p \in Procs, RecordFound(p)
      PROVE  CapKept'
  <2>1. PICK x \in Drafts : x = draft[p]
    BY <1>5, Alone DEF RecordFound
  <2>2. ~Confirmed(x)
    BY <1>5, <2>1, Alone DEF RecordFound, GetFits, RowsFit
  <2>3. /\ UNCHANGED attempts
        /\ \A y \in Drafts : y # x => mappedOn'[y] = mappedOn[y]
    BY <1>5, <2>1 DEF RecordFound, RecordMapping, TypedInv, RowsTyped
  <2>4. \A d \in 1..MaxDay : Kept(d)' \subseteq Kept(d)
    BY <2>2, <2>3 DEF Kept, Confirmed
  <2> QED
    BY <2>4, KeptShrinks
<1>6. ASSUME NEW p \in Procs,
             \/ CheckReadiness(p) \/ CountAttempts(p) \/ MarkPending(p)
             \/ CallCreate(p) \/ HoldCreated(p) \/ CallGet(p) \/ Verdict(p)
             \/ PermitRetry(p) \/ GetFailed(p) \/ Crash(p)
      PROVE  CapKept'
  BY <1>1, <1>6 DEF CheckReadiness, CountAttempts, MarkPending, CallCreate,
    HoldCreated, CallGet, Verdict, PermitRetry, GetFailed, Crash
<1>7. ASSUME NEW p \in Procs, NEW x \in Drafts,
             BeginCreate(p, x) \/ BeginVerify(p, x) \/ BeginReconcile(p, x)
      PROVE  CapKept'
  BY <1>1, <1>7 DEF BeginCreate, BeginVerify, BeginReconcile, Begins
<1>8. CASE \/ \E x \in Drafts : Approve(x) \/ Disappears(x)
           \/ NextDay \/ UNCHANGED vars
  BY <1>1, <1>8 DEF Approve, Disappears, NextDay, vars
<1> QED
  BY <1>2, <1>3, <1>4, <1>5, <1>6, <1>7, <1>8 DEF Next

(* Calls that follow one another confirm no more creations in a day than   *)
(* the cap allows.                                                         *)
THEOREM CapKeptHolds == Spec => []CapKept
<1>1. Init => CapKept
  <2> SUFFICES ASSUME Init, NEW d \in 1..MaxDay PROVE Cardinality(Kept(d)) <= Cap
    BY CapKeptIs
  <2>1. Kept(d) = {}
    BY DEF Init, Kept
  <2> QED
    BY <2>1, FS_EmptySet, GmailAssumption
<1>2. TypedInv /\ LoneInv /\ CapKept /\ [Next]_vars => CapKept'
  BY StepCap
<1> QED
  BY <1>1, <1>2, Typed, LoneHolds, PTL DEF Spec

(* What the attempts, the runs, the mappings and the cap promise together, *)
(* over overlaps and deaths.                                               *)
THEOREM DraftsAccountedHolds == Spec => []DraftsAccounted
BY CreationsTracedHolds, ReadyHolds, TablesAgreeHolds, CapKeptHolds, PTL
DEF DraftsAccounted
=============================================================================
