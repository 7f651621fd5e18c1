------------------------- MODULE SchedulerCapacity -------------------------
(***************************************************************************)
(* The shared daily capacity of one campaign day, step14_scheduler.py:     *)
(* plan_shared_daily_capacity (called by the scheduled window and by       *)
(* preview_fixture_campaign_day), its inner reserve, _claim_total and      *)
(* update_fixture_reservation_state.                                       *)
(*                                                                         *)
(* A plan reads the claimed totals once and then inserts one reservation   *)
(* per item, each in a transaction of its own; other plans and reservation *)
(* updates may come in between.  The totals a plan works with are a local. *)
(* An update reads the state of the row and then writes the new one        *)
(* whatever the row holds by then.  A change to a final state is one step: *)
(* what it read cannot refuse it, as rows are never removed.  A renewal,   *)
(* which asks for RESERVED, is two.                                        *)
(***************************************************************************)
EXTENDS Naturals, FiniteSets

CONSTANTS
  Planners,    \* processes that may be planning the day
  Followups,   \* due follow-up items
  Candidates,  \* new-outreach items
  Notices,     \* notification items
  Cap,         \* normalized_caps, by capacity type
  Requests,    \* the sets of items a plan may be asked for
  Updaters,    \* processes that may be renewing a reservation
  Updates,     \* final states update_fixture_reservation_state is asked for
  NoItem       \* not an item

CapTypes == {"candidate_processing", "drafting", "gmail_draft_creation",
             "followup", "message_touch", "notification_delivery"}
ReservationStates == {"RESERVED", "RELEASED", "EXPIRED", "CONSUMED", "INVALIDATED"}
Items == Followups \union Candidates \union Notices

ASSUME CapacityAssumption ==
  /\ IsFiniteSet(Planners)
  /\ IsFiniteSet(Items)
  /\ Followups \intersect Candidates = {}
  /\ (Followups \union Candidates) \intersect Notices = {}
  /\ Cap \in [CapTypes -> Nat]
  /\ Requests \subseteq SUBSET Items
  /\ IsFiniteSet(Updaters)
  /\ Updates \subseteq ReservationStates \ {"RESERVED"}
  /\ NoItem \notin Items

VARIABLES
  res,     \* reservation_state of the item's row, "NONE" without one
  busy,    \* the planners inside a call
  used,    \* planner -> its running totals by capacity type
  left,    \* planner -> items of the call not yet looked at
  bad,     \* planner -> items of the call passed as suppressed or stale
  fresh,   \* planner -> items it inserted in this call
  blocked, \* planner -> items refused for capacity in this call
  renewal, \* updater -> the row it found RESERVED and is to renew, or NoItem
  overlapped, \* history: two plans have been in progress at once
  raced       \* history: a renewal has been in progress beside another call

call == <<busy, used, left, bad, fresh, blocked>>
capacityVars == <<res, call, renewal, overlapped, raced>>

(* One unit of each type an item claims. *)
Claim(i) ==
  IF i \in Followups THEN {"followup", "message_touch"}
  ELSE IF i \in Candidates
       THEN {"candidate_processing", "drafting", "gmail_draft_creation",
             "message_touch"}
       ELSE {"notification_delivery"}

Holding(t) == {i \in Items : res[i] = "RESERVED" /\ t \in Claim(i)}

(* _claim_total: only RESERVED rows count. *)
ClaimTotal(t) == Cardinality(Holding(t))

(* The types the item's claim would take past its cap.  Seeded fault: off  *)
(* by one, a claim is refused only when the cap is already passed.         *)
MissingLate(p, i) == {t \in Claim(i) : Cap[t] < used[p][t]}
Missing(p, i) == {t \in Claim(i) : Cap[t] < used[p][t] + 1}

(* The three loops: follow-ups, then candidates, then notifications; the   *)
(* order within a loop is the caller's.  Seeded fault: candidates first.   *)
CandidatesFirst(p, i) ==
  i \in left[p] /\ (i \notin Candidates => left[p] \intersect Candidates = {})
IsNext(p, i) ==
  /\ i \in left[p]
  /\ i \notin Followups => left[p] \intersect Followups = {}
  /\ i \in Notices => left[p] \intersect Candidates = {}

(* A row that exists, in whatever state, is not inserted again. *)
NoRow(i) == res[i] = "NONE"

(* _invalidate_item_reservation for an item passed as suppressed or stale. *)
Invalidated(s) == IF s = "RESERVED" THEN "INVALIDATED" ELSE s

ZeroUse == [t \in CapTypes |-> 0]

CapacityInit ==
  /\ res = [i \in Items |-> "NONE"]
  /\ busy = {}
  /\ used = [p \in Planners |-> ZeroUse]
  /\ left = [p \in Planners |-> {}]
  /\ bad = [p \in Planners |-> {}]
  /\ fresh = [p \in Planners |-> {}]
  /\ blocked = [p \in Planners |-> {}]
  /\ renewal = [u \in Updaters |-> NoItem]
  /\ overlapped = FALSE
  /\ raced = FALSE

Renewing == {u \in Updaters : renewal[u] # NoItem}

BeginPlan(p) ==
  /\ p \notin busy
  /\ \E asked \in Requests : \E flagged \in SUBSET asked :
       /\ left' = [left EXCEPT ![p] = asked]
       /\ bad' = [bad EXCEPT ![p] = flagged]
  /\ busy' = busy \union {p}
  /\ used' = [used EXCEPT ![p] = [t \in CapTypes |-> ClaimTotal(t)]]
  /\ fresh' = [fresh EXCEPT ![p] = {}]
  /\ blocked' = [blocked EXCEPT ![p] = {}]
  /\ overlapped' = (overlapped \/ busy # {})
  /\ raced' = (raced \/ Renewing # {})
  /\ UNCHANGED <<res, renewal>>

Take(p, i) == p \in busy /\ IsNext(p, i) /\ left' = [left EXCEPT ![p] = @ \ {i}]

(* The item is suppressed or stale: nothing is reserved for it. *)
ReserveRefused(p, i) ==
  /\ Take(p, i) /\ i \in bad[p]
  /\ res' = [res EXCEPT ![i] = Invalidated(@)]
  /\ UNCHANGED <<busy, used, bad, fresh, blocked, renewal, overlapped, raced>>

(* A row is there already: RESERVED is reused, any other state is final. *)
ReserveExisting(p, i) ==
  /\ Take(p, i) /\ i \notin bad[p] /\ ~NoRow(i)
  /\ UNCHANGED <<res, busy, used, bad, fresh, blocked, renewal, overlapped, raced>>

ReserveBlocked(p, i) ==
  /\ Take(p, i) /\ i \notin bad[p] /\ NoRow(i) /\ Missing(p, i) # {}
  /\ blocked' = [blocked EXCEPT ![p] = @ \union {i}]
  /\ UNCHANGED <<res, busy, used, bad, fresh, renewal, overlapped, raced>>

ReserveNew(p, i) ==
  /\ Take(p, i) /\ i \notin bad[p] /\ NoRow(i) /\ Missing(p, i) = {}
  /\ res' = [res EXCEPT ![i] = "RESERVED"]
  /\ used' = [used EXCEPT ![p] =
                [t \in CapTypes |-> IF t \in Claim(i) THEN @[t] + 1 ELSE @[t]]]
  /\ fresh' = [fresh EXCEPT ![p] = @ \union {i}]
  /\ UNCHANGED <<busy, bad, blocked, renewal, overlapped, raced>>

(* The call returns; or it dies, or its INSERT loses a race for the UNIQUE *)
(* fingerprint: what it has reserved stays reserved.                       *)
EndPlan(p) ==
  /\ p \in busy
  /\ busy' = busy \ {p}
  /\ used' = [used EXCEPT ![p] = ZeroUse]
  /\ left' = [left EXCEPT ![p] = {}]
  /\ bad' = [bad EXCEPT ![p] = {}]
  /\ fresh' = [fresh EXCEPT ![p] = {}]
  /\ blocked' = [blocked EXCEPT ![p] = {}]
  /\ UNCHANGED <<res, renewal, overlapped, raced>>

(* update_fixture_reservation_state asked for a final state. *)
Settle(i, s) ==
  /\ ~NoRow(i)
  /\ res' = [res EXCEPT ![i] = s]
  /\ raced' = (raced \/ Renewing # {})
  /\ UNCHANGED <<call, renewal, overlapped>>

(* Asked for RESERVED it refuses a row it finds in another state.  Seeded  *)
(* fault: it does not.                                                     *)
AnyRenewed(i) == ~NoRow(i)
MayRenew(i) == res[i] = "RESERVED"

BeginRenewal(u, i) ==
  /\ renewal[u] = NoItem /\ MayRenew(i)
  /\ renewal' = [renewal EXCEPT ![u] = i]
  /\ raced' = (raced \/ busy # {} \/ Renewing # {})
  /\ UNCHANGED <<res, call, overlapped>>

(* UPDATE ... WHERE id=?: it does not ask again what the row holds. *)
WriteRenewal(u) ==
  /\ renewal[u] # NoItem
  /\ res' = [res EXCEPT ![renewal[u]] = "RESERVED"]
  /\ renewal' = [renewal EXCEPT ![u] = NoItem]
  /\ UNCHANGED <<call, overlapped, raced>>

(* The process dies between the two. *)
LoseRenewal(u) ==
  /\ renewal[u] # NoItem
  /\ renewal' = [renewal EXCEPT ![u] = NoItem]
  /\ UNCHANGED <<res, call, overlapped, raced>>

CapacityNext ==
  \/ \E p \in Planners : BeginPlan(p) \/ EndPlan(p)
  \/ \E p \in Planners, i \in Items :
       ReserveRefused(p, i) \/ ReserveExisting(p, i) \/ ReserveBlocked(p, i)
       \/ ReserveNew(p, i)
  \/ \E i \in Items, s \in Updates : Settle(i, s)
  \/ \E u \in Updaters, i \in Items : BeginRenewal(u, i)
  \/ \E u \in Updaters : WriteRenewal(u) \/ LoseRenewal(u)

CapacitySpec == CapacityInit /\ [][CapacityNext]_capacityVars
-----------------------------------------------------------------------------
(* Properties *)

(* Type invariant of the rows and of the locals of the calls. *)
CapacityTypeOK ==
  /\ res \in [Items -> ReservationStates \union {"NONE"}]
  /\ busy \subseteq Planners
  /\ used \in [Planners -> [CapTypes -> Nat]]
  /\ left \in [Planners -> SUBSET Items]
  /\ bad \in [Planners -> SUBSET Items]
  /\ fresh \in [Planners -> SUBSET Items]
  /\ blocked \in [Planners -> SUBSET Items]
  /\ renewal \in [Updaters -> Items \union {NoItem}]
  /\ overlapped \in BOOLEAN
  /\ raced \in BOOLEAN

(* Calls that do not overlap never hold more reservations than a cap       *)
(* allows, over any sequence of plans, deaths and reservation updates.     *)
WithinCaps ==
  ~overlapped /\ ~raced => \A t \in CapTypes : Cardinality(Holding(t)) <= Cap[t]

(* A renewal that read its row before a final state was written reopens    *)
(* it, perhaps after a later plan has given its capacity away: each        *)
(* process that renews adds one at most, however often it does.            *)
ReopeningsBounded ==
  ~overlapped => \A t \in CapTypes :
                   Cardinality(Holding(t)) <= Cap[t] + Cardinality(Updaters)

(* Overlapping plans (a preview beside a window) each trust totals that    *)
(* have gone stale, but together they cannot claim more than one cap each. *)
OvershootBounded ==
  \A t \in CapTypes :
    Cardinality(Holding(t)) <= Cardinality(Planners) * Cap[t] + Cardinality(Updaters)

(* The caps under calls that follow one another and under calls that       *)
(* overlap.                                                                *)
CapsKept == WithinCaps /\ ReopeningsBounded /\ OvershootBounded

(* "Reserving due follow-ups first": a call that inserts new outreach has  *)
(* refused a follow-up only because the follow-up cap itself was reached,  *)
(* never because the shared message touches had gone to new work.          *)
FollowupsServedFirst ==
  \A p \in Planners :
    fresh[p] \intersect Candidates # {} /\ blocked[p] \intersect Followups # {}
      => used[p]["followup"] >= Cap["followup"]

(* What a lone plan was told is suppressed or stale holds no capacity once *)
(* the plan has come to it, and no later step of the plan or of an update  *)
(* that began after it gives it back.                                      *)
SuppressedHoldNothing ==
  ~overlapped /\ ~raced => \A p \in Planners : \A i \in bad[p] \ left[p] :
                             res[i] # "RESERVED"

(* Capacity goes to the items that should have it: to follow-ups before    *)
(* new outreach, and to nothing that is suppressed or stale.               *)
ItemsServed == FollowupsServedFirst /\ SuppressedHoldNothing

(* A reservation that was released, expired, consumed or invalidated stays *)
(* out of the day's capacity: no plan of the same item reopens it, and an  *)
(* update only when it found the row RESERVED and another call came        *)
(* between its reading and its writing.                                    *)
NeverReopened ==
  [][\A i \in Items : res[i] \notin {"NONE", "RESERVED"} /\ res'[i] = "RESERVED"
                       => raced /\ \E u \in Updaters : renewal[u] = i]_capacityVars
=============================================================================
