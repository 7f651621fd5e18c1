----------------------------- MODULE DayLedger -----------------------------
(***************************************************************************)
(* What the scheduler promises about the jobs of one campaign day, whatever *)
(* processes, leases and crashes are behind it: a job is admitted while the *)
(* day is open, its work counts once, an unknown outcome is left for a      *)
(* person, and the day closes only over finished jobs.                      *)
(***************************************************************************)
CONSTANT Jobs

VARIABLES
  entry,   \* job -> "absent", "open", "done", "unknown"
  closed   \* the day is reported complete

ledger == <<entry, closed>>

LedgerInit == entry = [j \in Jobs |-> "absent"] /\ closed = FALSE

Admit(j)  == /\ entry[j] = "absent" /\ ~closed
             /\ entry' = [entry EXCEPT ![j] = "open"]
             /\ UNCHANGED closed

(* An open job is done, or its outcome is lost; neither is ever taken back. *)
Settle(j) == /\ entry[j] = "open" /\ ~closed
             /\ \E e \in {"done", "unknown"} : entry' = [entry EXCEPT ![j] = e]
             /\ UNCHANGED closed

Close  == /\ ~closed
          /\ \A j \in Jobs : entry[j] \in {"absent", "done"}
          /\ closed' = TRUE
          /\ UNCHANGED entry

(* An operator may hold or cancel a completed day. *)
Reopen == closed /\ closed' = FALSE /\ UNCHANGED entry

LedgerNext == (\E j \in Jobs : Admit(j) \/ Settle(j)) \/ Close \/ Reopen

LedgerSpec == LedgerInit /\ [][LedgerNext]_ledger
=============================================================================
