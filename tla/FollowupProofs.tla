---------------------------- MODULE FollowupProofs ----------------------------
(***************************************************************************)
(* A follow-up sequence for every set of processes, replies and kinds of   *)
(* reply, every number of touches and of deaths.  What a call is going to  *)
(* do is its plan, so the invariants speak of the commits that are still   *)
(* to come: which may follow which (Shape), and what they suppose of the   *)
(* tables while nothing else is in progress.                               *)
(***************************************************************************)
EXTENDS Followup, SequenceTheorems, TLAPS

Dues == {"none", "future", "past"}
AnyKind == [cat : Categories, explicit : BOOLEAN]

(* The commits there are. *)
Commits ==
  [do : {"state"}, to : States, due : Dues] \union [do : {"log"}, to : States]
    \union [do : {"touch"}, n : 1..MaxTouches]
    \union [do : {"consume", "reserve", "invalidate", "request", "ready"}, n : Followups]
    \union [do : {"event", "classify", "apply"}, reply : Replies, kind : AnyKind]
    \union [do : {"initialize", "cancel", "recheck", "suppress"}]

(* What is classified and applied has arrived. *)
Known(s) ==
  \A i \in 1..Len(s) : s[i].do \in {"classify", "apply"} => reply[s[i].reply] # NoReply

TypeInv ==
  /\ TypeOK
  /\ reply \in [Replies -> AnyKind \union {NoReply}]
  /\ plan \in [Procs -> Seq(Commits)]
  /\ \A p \in Procs : Known(plan[p])

(* The commits that write the state of the sequence, and what they write. *)
Setters == {"initialize", "state", "touch", "reserve", "request", "ready"}
SetTo(c) ==
  CASE c.do = "state" -> c.to
    [] c.do = "touch" -> IF c.n = MaxTouches THEN "CLOSED_NO_RESPONSE" ELSE "WAITING_FOR_REPLY"
    [] c.do = "reserve" -> "FOLLOWUP_DUE"
    [] c.do = "request" -> "FOLLOWUP_REVIEW_PENDING"
    [] OTHER -> "AWAITING_MANUAL_SEND"

Stopped == {"HUMAN_ACTION_REQUIRED", "BOUNCE_HOLD", "OUT_OF_OFFICE_HOLD",
            "CLOSED_NOT_INTERESTED"}

(* Commits that make an action pending, and those that keep it so. *)
Makers  == {"reserve", "request", "ready"}
Keepers == {"request", "ready"}

(* Which commits may follow which, whatever of the plan is done. *)
TouchFirst(s) == \A i \in 1..Len(s) : s[i].do = "touch" => i = 1
KeepersEarly(s) ==
  \A i \in 1..Len(s) : s[i].do \in Keepers =>
    \A j \in 1..(i - 1) : s[j].do \in {"state", "log"}
StopsLast(s) ==
  \A i \in 1..Len(s) : s[i].do = "state" /\ s[i].to \in Stopped =>
    \A j \in 1..(i - 1) : s[j].do \notin Makers
LogsFollow(s) ==
  \A i \in 1..Len(s) : s[i].do = "log" /\ i > 1 =>
    s[i - 1].do \in Setters /\ s[i].to = SetTo(s[i - 1])
EventsLead(s) ==
  \A i \in 1..Len(s) : s[i].do = "event" /\ Overrides(s[i].kind) =>
    i + 2 <= Len(s) /\ s[i + 1].do = "cancel" /\ s[i + 2].do = "suppress"
ApplyFollows(s) ==
  \A i \in 1..Len(s) : s[i].do = "classify" =>
    i + 1 <= Len(s) /\ s[i + 1].do = "apply" /\ s[i + 1].reply = s[i].reply
Shape(s) ==
  /\ TouchFirst(s) /\ KeepersEarly(s) /\ StopsLast(s)
  /\ LogsFollow(s) /\ EventsLead(s) /\ ApplyFollows(s)

(* What a plan supposes of the tables: the next touch is its own, what it  *)
(* keeps pending is pending, a stop comes after a cancellation or finds    *)
(* nothing pending, and a state not logged is the present one.             *)
Counted(s) == \A i \in 1..Len(s) : s[i].do = "touch" => s[i].n <= count + 1
KeepsPending(s) == \A i \in 1..Len(s) : s[i].do \in Keepers => action[s[i].n] \in Pending
NothingPending == \A n \in Followups : action[n] \notin Pending
StopsClear(s) ==
  \A i \in 1..Len(s) : s[i].do = "state" /\ s[i].to \in Stopped =>
    NothingPending \/ \E j \in 1..(i - 1) : s[j].do = "cancel"
Logged(s) ==
  \A i \in 1..Len(s) : s[i].do \in Setters =>
    \/ i + 1 <= Len(s) /\ s[i + 1].do = "log"
    \/ /\ s[i].do = "state" /\ s[i].to = state
       /\ \A j \in 1..(i - 1) : s[j].do \notin Setters
LogDue(s) == s # <<>> /\ s[1].do = "log"

(* A plan as a call makes it; one made for a suppressed lead has no touch. *)
NoLateTouch(s) == \A i \in 1..Len(s) : s[i].do = "touch" => ~suppressed
Fresh(s) ==
  /\ s \in Seq(Commits) /\ Shape(s) /\ Known(s) /\ NoLateTouch(s)
  /\ Counted(s) /\ KeepsPending(s) /\ StopsClear(s) /\ Logged(s) /\ ~LogDue(s)

(* The suppression an overriding reply asks for is on its way. *)
Suppressing(s) ==
  /\ s # <<>>
  /\ \/ s[1].do = "suppress"
     \/ s[1].do = "cancel" /\ 2 <= Len(s) /\ s[2].do = "suppress"
Applying(s, r) == s # <<>> /\ s[1].do = "apply" /\ s[1].reply = r

(* The invariants, each with what it rests on. *)
ShapeInv == \A p \in Procs : Shape(plan[p])
TouchInv == TouchesCounted /\ \A p \in Procs : Counted(plan[p])
LoneInv ==
  ~overlapped => \A p, q \in Procs : plan[p] # <<>> /\ plan[q] # <<>> => p = q
SlotInv ==
  ~overlapped =>
    /\ \A n \in Followups : reservation[n] = "RESERVED" <=> action[n] \in Pending
    /\ \A p \in Procs : KeepsPending(plan[p])
StopInv ==
  ~overlapped =>
    /\ state \in Stopped => NothingPending
    /\ \A p \in Procs : StopsClear(plan[p])
AuditInv ==
  crashes = 0 /\ ~overlapped =>
    /\ Quiet => audited = state
    /\ \A p \in Procs : plan[p] # <<>> =>
         /\ Logged(plan[p])
         /\ IF LogDue(plan[p]) THEN plan[p][1].to = state ELSE audited = state
SuppressInv ==
  crashes = 0 => \A r \in Replies :
    reply[r] # NoReply /\ Overrides(reply[r]) =>
      suppressed \/ \E p \in Procs : Suppressing(plan[p]) \/ Applying(plan[p], r)
SequenceInv ==
  /\ TypeInv /\ ShapeInv /\ TouchInv /\ LoneInv /\ SlotInv /\ StopInv /\ AuditInv /\ SuppressInv

-----------------------------------------------------------------------------
(* Commits and plans. *)

(* What a commit is tells what it carries. *)
LEMMA CommitFields ==
  ASSUME NEW c \in Commits
  PROVE  /\ c.do = "state" => c.to \in States /\ c.due \in Dues
         /\ c.do = "log" => c.to \in States
         /\ c.do = "touch" => c.n \in 1..MaxTouches
         /\ c.do \in {"consume", "reserve", "invalidate", "request", "ready"} => c.n \in Followups
         /\ c.do \in {"event", "classify", "apply"} => c.reply \in Replies /\ c.kind \in AnyKind
BY DEF Commits

(* The commits that calls plan are commits. *)
LEMMA WriteIsCommit ==
  ASSUME NEW to \in States, NEW d \in Dues
  PROVE  Write(to, d) \in Commits /\ Log(to) \in Commits
BY DEF Commits, Write, Log

(* The touch of a send.                                                    *)
LEMMA TouchIsCommit ==
  ASSUME NEW n \in 1..MaxTouches
  PROVE  OnTouch("touch", n) \in Commits
BY DEF Commits, OnTouch

(* What is done to a follow-up action.                                     *)
LEMMA OnFollowupIsCommit ==
  ASSUME NEW n \in Followups, NEW w \in {"consume", "reserve", "invalidate", "request", "ready"}
  PROVE  OnTouch(w, n) \in Commits
BY DEF Commits, OnTouch

(* What is done to a reply.                                                *)
LEMMA OnReplyIsCommit ==
  ASSUME NEW r \in Replies, NEW k \in AnyKind, NEW w \in {"event", "classify", "apply"}
  PROVE  OnReply(w, r, k) \in Commits
BY DEF Commits, OnReply

(* What needs nothing but its name.                                        *)
LEMMA PlainIsCommit ==
  ASSUME NEW w \in {"initialize", "cancel", "recheck", "suppress"}
  PROVE  Plain(w) \in Commits
BY DEF Commits, Plain

(* Plans are put together from short lists. *)
LEMMA One ==
  ASSUME NEW a \in Commits, NEW s, s = <<a>>
  PROVE  s \in Seq(Commits) /\ Len(s) = 1 /\ s # <<>> /\ s[1] = a
OBVIOUS

(* Two commits.                                                            *)
LEMMA Two ==
  ASSUME NEW a \in Commits, NEW b \in Commits, NEW s, s = <<a, b>>
  PROVE  s \in Seq(Commits) /\ Len(s) = 2 /\ s # <<>> /\ s[1] = a /\ s[2] = b
OBVIOUS

(* A commit before a list.                                                 *)
LEMMA Before ==
  ASSUME NEW a \in Commits, NEW t \in Seq(Commits), NEW s, s = <<a>> \o t
  PROVE  /\ s \in Seq(Commits) /\ Len(s) = Len(t) + 1 /\ s # <<>> /\ s[1] = a
         /\ \A i \in 1..Len(t) : s[i + 1] = t[i]
OBVIOUS

(* A list after a list.                                                    *)
LEMMA After ==
  ASSUME NEW t \in Seq(Commits), NEW u \in Seq(Commits), NEW s, s = t \o u
  PROVE  /\ s \in Seq(Commits) /\ Len(s) = Len(t) + Len(u)
         /\ \A i \in 1..Len(t) : s[i] = t[i]
         /\ \A i \in 1..Len(u) : s[Len(t) + i] = u[i]
OBVIOUS

(* The i-th commit of s writes a state, and the last one logs it unless it *)
(* is the present one.                                                     *)
EndsIn(s, i, to, d) ==
  /\ s[i] = Write(to, d)
  /\ \/ Len(s) = i /\ to = state
     \/ Len(s) = i + 1 /\ s[i + 1] = Log(to)

(* Two commits and a third.                                                *)
LEMMA TwoAndOne ==
  ASSUME NEW a \in Commits, NEW b \in Commits, NEW c \in Commits
  PROVE  <<a, b>> \o <<c>> = <<a, b, c>>
<1> DEFINE s == <<a, b>> \o <<c>>
           t == <<a, b, c>>
<1>1. s \in Seq(Commits) /\ Len(s) = 3 /\ s[1] = a /\ s[2] = b /\ s[3] = c
  OBVIOUS
<1>2. t \in Seq(Commits) /\ Len(t) = 3 /\ t[1] = a /\ t[2] = b /\ t[3] = c
  OBVIOUS
<1> HIDE DEF s, t
<1>3. \A i \in 1..3 : s[i] = t[i]
  BY <1>1, <1>2
<1>4. s = t
  BY <1>1, <1>2, <1>3, SeqEqual
<1> QED BY <1>4 DEF s, t

(* _set_state writes the state and logs it unless it is the present one.   *)
LEMMA SetStateIs ==
  ASSUME NEW to \in States, NEW d \in Dues, NEW s, s = SetState(to, d)
  PROVE  s \in Seq(Commits) /\ s # <<>> /\ EndsIn(s, 1, to, d)
<1> USE DEF EndsIn
<1>1. CASE state = to
  <2>1. s = <<Write(to, d)>> \o <<>>
    BY <1>1 DEF SetState
  <2>2. Write(to, d) \in Commits /\ <<>> \in Seq(Commits) /\ Len(<<>>) = 0
    BY WriteIsCommit, EmptySeq
  <2>3. s \in Seq(Commits) /\ Len(s) = 0 + 1 /\ s # <<>> /\ s[1] = Write(to, d)
    BY <2>1, <2>2, Before
  <2> QED BY <1>1, <2>3
<1>2. CASE state # to
  BY <1>2, WriteIsCommit DEF SetState
<1> QED BY <1>1, <1>2

(* What apply_reply_category plans: nothing more than the cancellation, a  *)
(* state, or a suppression and the state.                                  *)
LEMMA ApplyReplyIs ==
  ASSUME NEW k \in AnyKind, NEW s, s = ApplyReply(k)
  PROVE  /\ s \in Seq(Commits) /\ s # <<>> /\ s[1] = Plain("cancel")
         /\ \/ Len(s) = 1 /\ ~Overrides(k)
            \/ \E to \in States : ~Suppresses(k) /\ EndsIn(s, 2, to, "none")
            \/ \E to \in States \ Stopped : Suppresses(k) /\ s[2] = Plain("suppress") /\ EndsIn(s, 3, to, "none")
<1> DEFINE to == StateAfter(k)
           t == SetState(to, "none")
<1>1. to \in States /\ (Suppresses(k) => to \notin Stopped) /\ "none" \in Dues
  BY DEF AnyKind, Categories, StateAfter, Suppresses, States, Terminal, Stopped, Dues
<1>2. Overrides(k) => Suppresses(k)
  BY DEF Overrides, Suppresses
<1>3. /\ t \in Seq(Commits) /\ t # <<>> /\ EndsIn(t, 1, to, "none")
  BY <1>1, SetStateIs
<1>4. Plain("cancel") \in Commits /\ Plain("suppress") \in Commits
  BY PlainIsCommit
<1> HIDE DEF to
<1>5. CASE ~Open /\ ~Overrides(k)
  <2>1. s = <<Plain("cancel")>> \o <<>>
    BY <1>5 DEF ApplyReply
  <2> QED BY <1>4, <1>5, <2>1
<1>6. CASE ~(~Open /\ ~Overrides(k)) /\ ~Suppresses(k)
  <2>1. s = <<Plain("cancel")>> \o (<<>> \o t)
    BY <1>6 DEF ApplyReply, to
  <2> HIDE DEF t
  <2>2. <<>> \o t = t
    BY <1>3, ConcatEmptySeq
  <2>3. s = <<Plain("cancel")>> \o t
    BY <2>1, <2>2
  <2>4. /\ s \in Seq(Commits) /\ Len(s) = Len(t) + 1 /\ s # <<>> /\ s[1] = Plain("cancel")
        /\ \A i \in 1..Len(t) : s[i + 1] = t[i]
    BY <1>3, <1>4, <2>3, Before
  <2>5. s[1 + 1] = t[1] /\ (Len(t) = 2 => s[2 + 1] = t[2])
    BY <1>3, <2>4 DEF EndsIn
  <2> QED BY <1>1, <1>3, <1>6, <2>4, <2>5 DEF EndsIn
<1>7. CASE ~(~Open /\ ~Overrides(k)) /\ Suppresses(k)
  <2> DEFINE u == <<Plain("suppress")>> \o t
  <2>1. s = <<Plain("cancel")>> \o u
    BY <1>7 DEF ApplyReply, to
  <2> HIDE DEF t
  <2>2. /\ u \in Seq(Commits) /\ Len(u) = Len(t) + 1 /\ u[1] = Plain("suppress")
        /\ \A i \in 1..Len(t) : u[i + 1] = t[i]
    BY <1>3, <1>4, Before
  <2> HIDE DEF u
  <2>3. /\ s \in Seq(Commits) /\ Len(s) = Len(u) + 1 /\ s # <<>> /\ s[1] = Plain("cancel")
        /\ \A i \in 1..Len(u) : s[i + 1] = u[i]
    BY <1>4, <2>1, <2>2, Before
  <2>4. u[1 + 1] = t[1] /\ (Len(t) = 2 => u[2 + 1] = t[2])
    BY <1>3, <2>2 DEF EndsIn
  <2>5. s[1 + 1] = u[1] /\ s[2 + 1] = u[2] /\ (Len(t) = 2 => s[3 + 1] = u[3])
    BY <1>3, <2>2, <2>3 DEF EndsIn
  <2> QED BY <1>1, <1>3, <1>7, <2>2, <2>3, <2>4, <2>5 DEF EndsIn
<1> QED BY <1>2, <1>5, <1>6, <1>7

(* Each plan a call makes is Fresh. *)
LEMMA FreshEmpty == Fresh(<<>>)
BY EmptySeq
DEF Fresh, Shape, TouchFirst, KeepersEarly, StopsLast, LogsFollow, EventsLead,
    ApplyFollows, Counted, NoLateTouch, Known, KeepsPending, StopsClear, Logged,
    LogDue, Setters, SetTo, Keepers, Makers, Stopped

(* A cancellation alone.                                                   *)
LEMMA FreshCancel == Fresh(<<Plain("cancel")>>)
<1> DEFINE s == <<Plain("cancel")>>
<1>1. s \in Seq(Commits) /\ Len(s) = 1 /\ s # <<>> /\ s[1] = Plain("cancel")
  BY PlainIsCommit, One
<1> HIDE DEF s
<1>2. Fresh(s)
  BY <1>1
  DEF Fresh, Shape, TouchFirst, KeepersEarly, StopsLast, LogsFollow, EventsLead,
      ApplyFollows, Counted, NoLateTouch, Known, KeepsPending, StopsClear, Logged,
      LogDue, Setters, SetTo, Keepers, Makers, Stopped, Plain
<1> QED BY <1>2 DEF s

(* What applies a reply suppresses for one that overrides.                 *)
LEMMA FreshApply ==
  ASSUME NEW k \in AnyKind
  PROVE  Fresh(ApplyReply(k)) /\ (Overrides(k) => Suppressing(ApplyReply(k)))
<1> DEFINE s == ApplyReply(k)
<1>1. /\ s \in Seq(Commits) /\ s # <<>> /\ s[1] = Plain("cancel")
      /\ \/ Len(s) = 1 /\ ~Overrides(k)
         \/ \E to \in States : ~Suppresses(k) /\ EndsIn(s, 2, to, "none")
         \/ \E to \in States \ Stopped :
              Suppresses(k) /\ s[2] = Plain("suppress") /\ EndsIn(s, 3, to, "none")
  BY ApplyReplyIs
<1>2. Overrides(k) => Suppresses(k)
  BY DEF Overrides, Suppresses
<1> SUFFICES Fresh(s) /\ (Overrides(k) => Suppressing(s))
  OBVIOUS
<1> HIDE DEF s
<1>3. s \in Seq(Commits) /\ s # <<>> /\ s[1].do = "cancel"
  BY <1>1 DEF Plain
<1>4. CASE Len(s) = 1 /\ ~Overrides(k)
  BY <1>3, <1>4
  DEF Fresh, Shape, TouchFirst, KeepersEarly, StopsLast, LogsFollow, EventsLead,
      ApplyFollows, Counted, NoLateTouch, Known, KeepsPending, StopsClear, Logged,
      LogDue, Setters, SetTo, Keepers, Makers, Stopped
<1>5. ASSUME NEW to \in States, ~Suppresses(k) /\ EndsIn(s, 2, to, "none")
      PROVE  Fresh(s) /\ (Overrides(k) => Suppressing(s))
  <2>1. /\ s[2].do = "state" /\ s[2].to = to
        /\ \/ Len(s) = 2 /\ to = state
           \/ Len(s) = 3 /\ s[3].do = "log" /\ s[3].to = to
    BY <1>5 DEF EndsIn, Write, Log
  <2>2. ASSUME Len(s) = 2 PROVE Fresh(s)
    BY <1>3, <2>1, <2>2
    DEF Fresh, Shape, TouchFirst, KeepersEarly, StopsLast, LogsFollow, EventsLead,
        ApplyFollows, Counted, NoLateTouch, Known, KeepsPending, StopsClear, Logged,
        LogDue, Setters, SetTo, Keepers, Makers, Stopped
  <2>3. ASSUME Len(s) = 3 PROVE Fresh(s)
    BY <1>3, <2>1, <2>3
    DEF Fresh, Shape, TouchFirst, KeepersEarly, StopsLast, LogsFollow, EventsLead,
        ApplyFollows, Counted, NoLateTouch, Known, KeepsPending, StopsClear, Logged,
        LogDue, Setters, SetTo, Keepers, Makers, Stopped
  <2> QED BY <1>2, <1>5, <2>1, <2>2, <2>3
<1>6. ASSUME NEW to \in States \ Stopped,
             Suppresses(k) /\ s[2] = Plain("suppress") /\ EndsIn(s, 3, to, "none")
      PROVE  Fresh(s) /\ (Overrides(k) => Suppressing(s))
  <2>1. /\ s[3].do = "state" /\ s[3].to = to
        /\ \/ Len(s) = 3 /\ to = state
           \/ Len(s) = 4 /\ s[4].do = "log" /\ s[4].to = to
    BY <1>6 DEF EndsIn, Write, Log
  <2>2. s[2].do = "suppress" /\ 2 <= Len(s)
    BY <1>6, <2>1 DEF Plain
  <2>3. ASSUME Len(s) = 3 PROVE Fresh(s)
    BY <1>3, <2>1, <2>2, <2>3
    DEF Fresh, Shape, TouchFirst, KeepersEarly, StopsLast, LogsFollow, EventsLead,
        ApplyFollows, Counted, NoLateTouch, Known, KeepsPending, StopsClear, Logged,
        LogDue, Setters, SetTo, Keepers, Makers, Stopped
  <2>4. ASSUME Len(s) = 4 PROVE Fresh(s)
    BY <1>3, <2>1, <2>2, <2>4
    DEF Fresh, Shape, TouchFirst, KeepersEarly, StopsLast, LogsFollow, EventsLead,
        ApplyFollows, Counted, NoLateTouch, Known, KeepsPending, StopsClear, Logged,
        LogDue, Setters, SetTo, Keepers, Makers, Stopped
  <2> QED BY <1>3, <2>1, <2>2, <2>3, <2>4 DEF Suppressing
<1> QED BY <1>1, <1>4, <1>5, <1>6

(* A reply with what is done about it.                                     *)
LEMMA FreshEvent ==
  ASSUME NEW r \in Replies, NEW k \in AnyKind
  PROVE  Fresh(<<OnReply("event", r, k)>> \o ApplyReply(k))
<1> DEFINE t == ApplyReply(k)
           c == OnReply("event", r, k)
           s == <<c>> \o t
<1>1. /\ t \in Seq(Commits) /\ t # <<>> /\ t[1] = Plain("cancel")
      /\ \/ Len(t) = 1 /\ ~Overrides(k)
         \/ \E to \in States : ~Suppresses(k) /\ EndsIn(t, 2, to, "none")
         \/ \E to \in States \ Stopped :
              Suppresses(k) /\ t[2] = Plain("suppress") /\ EndsIn(t, 3, to, "none")
  BY ApplyReplyIs
<1>2. Overrides(k) => Suppresses(k)
  BY DEF Overrides, Suppresses
<1>3. c \in Commits /\ c.do = "event" /\ c.kind = k
  BY OnReplyIsCommit DEF OnReply
<1> SUFFICES Fresh(s)
  OBVIOUS
<1> HIDE DEF t, c
<1>4. /\ s \in Seq(Commits) /\ Len(s) = Len(t) + 1 /\ s # <<>> /\ s[1] = c
      /\ \A i \in 1..Len(t) : s[i + 1] = t[i]
  BY <1>1, <1>3, Before
<1> HIDE DEF s
<1>5. s[1 + 1] = t[1]
  BY <1>1, <1>4 DEF EndsIn
<1>6. s \in Seq(Commits) /\ s # <<>>
  BY <1>4
<1>7. s[1].do = "event" /\ s[1].kind = k /\ s[2].do = "cancel"
  BY <1>1, <1>3, <1>4, <1>5 DEF Plain
<1>8. ASSUME Len(t) = 1 /\ ~Overrides(k)
      PROVE  Fresh(s)
  <2>1. Len(s) = 2
    BY <1>4, <1>8
  <2> QED
    BY <1>6, <1>7, <1>8, <2>1
  DEF Fresh, Shape, TouchFirst, KeepersEarly, StopsLast, LogsFollow, EventsLead,
      ApplyFollows, Counted, NoLateTouch, Known, KeepsPending, StopsClear, Logged,
      LogDue, Setters, SetTo, Keepers, Makers, Stopped
<1>9. ASSUME NEW to \in States, ~Suppresses(k) /\ EndsIn(t, 2, to, "none")
      PROVE  Fresh(s)
  <2>1. /\ t[2].do = "state" /\ t[2].to = to
        /\ \/ Len(t) = 2 /\ to = state
           \/ Len(t) = 3 /\ t[3].do = "log" /\ t[3].to = to
    BY <1>9 DEF EndsIn, Write, Log
  <2>2. s[2 + 1] = t[2] /\ (Len(t) = 3 => s[3 + 1] = t[3])
    BY <1>4, <2>1
  <2>3. /\ s[3].do = "state" /\ s[3].to = to
        /\ \/ Len(s) = 3 /\ to = state
           \/ Len(s) = 4 /\ s[4].do = "log" /\ s[4].to = to
    BY <1>4, <2>1, <2>2
  <2>4. ~Overrides(k)
    BY <1>2, <1>9
  <2>5. CASE Len(s) = 3
    BY <1>6, <1>7, <2>3, <2>4, <2>5
    DEF Fresh, Shape, TouchFirst, KeepersEarly, StopsLast, LogsFollow, EventsLead,
        ApplyFollows, Counted, NoLateTouch, Known, KeepsPending, StopsClear, Logged,
        LogDue, Setters, SetTo, Keepers, Makers, Stopped
  <2>6. CASE Len(s) = 4
    BY <1>6, <1>7, <2>3, <2>4, <2>6
    DEF Fresh, Shape, TouchFirst, KeepersEarly, StopsLast, LogsFollow, EventsLead,
        ApplyFollows, Counted, NoLateTouch, Known, KeepsPending, StopsClear, Logged,
        LogDue, Setters, SetTo, Keepers, Makers, Stopped
  <2> QED BY <2>3, <2>5, <2>6
<1>10. ASSUME NEW to \in States \ Stopped,
             Suppresses(k) /\ t[2] = Plain("suppress") /\ EndsIn(t, 3, to, "none")
      PROVE  Fresh(s)
  <2>1. /\ t[3].do = "state" /\ t[3].to = to
        /\ \/ Len(t) = 3 /\ to = state
           \/ Len(t) = 4 /\ t[4].do = "log" /\ t[4].to = to
    BY <1>10 DEF EndsIn, Write, Log
  <2>2. s[2 + 1] = t[2] /\ s[3 + 1] = t[3] /\ (Len(t) = 4 => s[4 + 1] = t[4])
    BY <1>4, <2>1
  <2>3. s[3].do = "suppress"
    BY <1>10, <2>2 DEF Plain
  <2>4. /\ s[4].do = "state" /\ s[4].to = to
        /\ \/ Len(s) = 4 /\ to = state
           \/ Len(s) = 5 /\ s[5].do = "log" /\ s[5].to = to
    BY <1>4, <2>1, <2>2
  <2>5. CASE Len(s) = 4
    BY <1>6, <1>7, <2>3, <2>4, <2>5
    DEF Fresh, Shape, TouchFirst, KeepersEarly, StopsLast, LogsFollow, EventsLead,
        ApplyFollows, Counted, NoLateTouch, Known, KeepsPending, StopsClear, Logged,
        LogDue, Setters, SetTo, Keepers, Makers, Stopped
  <2>6. CASE Len(s) = 5
    BY <1>6, <1>7, <2>3, <2>4, <2>6
    DEF Fresh, Shape, TouchFirst, KeepersEarly, StopsLast, LogsFollow, EventsLead,
        ApplyFollows, Counted, NoLateTouch, Known, KeepsPending, StopsClear, Logged,
        LogDue, Setters, SetTo, Keepers, Makers, Stopped
  <2> QED BY <2>4, <2>5, <2>6
<1> QED BY <1>1, <1>8, <1>9, <1>10

(* _set_state alone.                                                       *)
LEMMA FreshState ==
  ASSUME NEW to \in States \ Stopped, NEW d \in Dues
  PROVE  Fresh(SetState(to, d))
<1> DEFINE s == SetState(to, d)
<1> SUFFICES Fresh(s)
  OBVIOUS
<1>1. s \in Seq(Commits) /\ s # <<>> /\ EndsIn(s, 1, to, d)
  BY SetStateIs
<1> HIDE DEF s
<1>2. s[1].do = "state" /\ s[1].to = to
  BY <1>1 DEF EndsIn, Write
<1>3. \/ Len(s) = 1 /\ to = state
      \/ Len(s) = 2 /\ s[2].do = "log" /\ s[2].to = to
  BY <1>1 DEF EndsIn, Log
<1>4. s \in Seq(Commits) /\ s # <<>>
  BY <1>1
<1>5. CASE Len(s) = 1
  BY <1>2, <1>3, <1>4, <1>5
  DEF Fresh, Shape, TouchFirst, KeepersEarly, StopsLast, LogsFollow, EventsLead,
      ApplyFollows, Counted, NoLateTouch, Known, KeepsPending, StopsClear, Logged,
      LogDue, Setters, SetTo, Keepers, Makers, Stopped
<1>6. CASE Len(s) = 2
  BY <1>2, <1>3, <1>4, <1>6
  DEF Fresh, Shape, TouchFirst, KeepersEarly, StopsLast, LogsFollow, EventsLead,
      ApplyFollows, Counted, NoLateTouch, Known, KeepsPending, StopsClear, Logged,
      LogDue, Setters, SetTo, Keepers, Makers, Stopped
<1> QED BY <1>3, <1>5, <1>6

(* A cancellation before any state, also one that stops the sequence.       *)
LEMMA FreshCancelState ==
  ASSUME NEW to \in States, NEW d \in Dues
  PROVE  Fresh(<<Plain("cancel")>> \o SetState(to, d))
<1> DEFINE c == Plain("cancel")
           t == SetState(to, d)
           s == <<c>> \o t
<1> SUFFICES Fresh(s)
  OBVIOUS
<1>1. c \in Commits /\ c.do = "cancel"
  BY PlainIsCommit DEF Plain
<1>2. t \in Seq(Commits) /\ EndsIn(t, 1, to, d)
  BY SetStateIs
<1> HIDE DEF c, t
<1>3. /\ s \in Seq(Commits) /\ Len(s) = Len(t) + 1 /\ s # <<>> /\ s[1] = c
      /\ \A i \in 1..Len(t) : s[i + 1] = t[i]
  BY <1>1, <1>2, Before
<1> HIDE DEF s
<1>4. s[1 + 1] = t[1] /\ (Len(t) = 2 => s[2 + 1] = t[2])
  BY <1>2, <1>3 DEF EndsIn
<1>5. /\ s \in Seq(Commits) /\ s # <<>>
      /\ s[1].do = "cancel" /\ s[2].do = "state" /\ s[2].to = to
  BY <1>1, <1>2, <1>3, <1>4 DEF EndsIn, Write
<1>6. \/ Len(s) = 2 /\ to = state
      \/ Len(s) = 3 /\ s[3].do = "log" /\ s[3].to = to
  BY <1>2, <1>3, <1>4 DEF EndsIn, Log
<1>7. CASE Len(s) = 2
  BY <1>5, <1>6, <1>7
  DEF Fresh, Shape, TouchFirst, KeepersEarly, StopsLast, LogsFollow, EventsLead,
      ApplyFollows, Counted, NoLateTouch, Known, KeepsPending, StopsClear, Logged,
      LogDue, Setters, SetTo, Keepers, Makers, Stopped
<1>8. CASE Len(s) = 3
  BY <1>5, <1>6, <1>8
  DEF Fresh, Shape, TouchFirst, KeepersEarly, StopsLast, LogsFollow, EventsLead,
      ApplyFollows, Counted, NoLateTouch, Known, KeepsPending, StopsClear, Logged,
      LogDue, Setters, SetTo, Keepers, Makers, Stopped
<1> QED BY <1>6, <1>7, <1>8

(* request_followup_draft with a stale source.                              *)
LEMMA FreshInvalidate ==
  ASSUME NEW to \in States \ Stopped, NEW d \in Dues, NEW n \in Followups
  PROVE  Fresh(<<OnTouch("invalidate", n)>> \o SetState(to, d))
<1> DEFINE c == OnTouch("invalidate", n)
           t == SetState(to, d)
           s == <<c>> \o t
<1> SUFFICES Fresh(s)
  OBVIOUS
<1>1. c \in Commits /\ c.do = "invalidate"
  BY OnFollowupIsCommit DEF OnTouch
<1>2. t \in Seq(Commits) /\ EndsIn(t, 1, to, d)
  BY SetStateIs
<1> HIDE DEF c, t
<1>3. /\ s \in Seq(Commits) /\ Len(s) = Len(t) + 1 /\ s # <<>> /\ s[1] = c
      /\ \A i \in 1..Len(t) : s[i + 1] = t[i]
  BY <1>1, <1>2, Before
<1> HIDE DEF s
<1>4. s[1 + 1] = t[1] /\ (Len(t) = 2 => s[2 + 1] = t[2])
  BY <1>2, <1>3 DEF EndsIn
<1>5. /\ s \in Seq(Commits) /\ s # <<>>
      /\ s[1].do = "invalidate" /\ s[2].do = "state" /\ s[2].to = to
  BY <1>1, <1>2, <1>3, <1>4 DEF EndsIn, Write
<1>6. \/ Len(s) = 2 /\ to = state
      \/ Len(s) = 3 /\ s[3].do = "log" /\ s[3].to = to
  BY <1>2, <1>3, <1>4 DEF EndsIn, Log
<1>7. CASE Len(s) = 2
  BY <1>5, <1>6, <1>7
  DEF Fresh, Shape, TouchFirst, KeepersEarly, StopsLast, LogsFollow, EventsLead,
      ApplyFollows, Counted, NoLateTouch, Known, KeepsPending, StopsClear, Logged,
      LogDue, Setters, SetTo, Keepers, Makers, Stopped
<1>8. CASE Len(s) = 3
  BY <1>5, <1>6, <1>8
  DEF Fresh, Shape, TouchFirst, KeepersEarly, StopsLast, LogsFollow, EventsLead,
      ApplyFollows, Counted, NoLateTouch, Known, KeepsPending, StopsClear, Logged,
      LogDue, Setters, SetTo, Keepers, Makers, Stopped
<1> QED BY <1>6, <1>7, <1>8

(* process_due_followups up to its second look.                             *)
LEMMA FreshRecheck ==
  ASSUME NEW to \in States \ Stopped, NEW d \in Dues
  PROVE  Fresh(SetState(to, d) \o <<Plain("recheck")>>)
<1> DEFINE t == SetState(to, d)
           u == <<Plain("recheck")>>
           s == t \o u
<1> SUFFICES Fresh(s)
  OBVIOUS
<1>1. u \in Seq(Commits) /\ Len(u) = 1 /\ u[1].do = "recheck"
  BY PlainIsCommit, One DEF Plain
<1>2. t \in Seq(Commits) /\ EndsIn(t, 1, to, d)
  BY SetStateIs
<1> HIDE DEF u, t
<1>a. t \in Seq(Commits) /\ u \in Seq(Commits)
  BY <1>1, <1>2
<1>3. /\ s \in Seq(Commits) /\ Len(s) = Len(t) + Len(u)
      /\ \A i \in 1..Len(t) : s[i] = t[i]
      /\ \A i \in 1..Len(u) : s[Len(t) + i] = u[i]
  BY <1>a, After
<1> HIDE DEF s
<1>4. s \in Seq(Commits) /\ s # <<>> /\ s[1].do = "state" /\ s[1].to = to
  BY <1>1, <1>2, <1>3, EmptySeq DEF EndsIn, Write
<1>5. CASE Len(t) = 1
  <2>1. Len(s) = 2 /\ to = state
    BY <1>1, <1>2, <1>3, <1>5 DEF EndsIn
  <2>2. s[1 + 1] = u[1]
    BY <1>1, <1>3, <1>5
  <2>3. s[2].do = "recheck"
    BY <1>1, <2>2
  <2> QED
    BY <1>4, <2>1, <2>3
    DEF Fresh, Shape, TouchFirst, KeepersEarly, StopsLast, LogsFollow, EventsLead,
        ApplyFollows, Counted, NoLateTouch, Known, KeepsPending, StopsClear, Logged,
        LogDue, Setters, SetTo, Keepers, Makers, Stopped
<1>6. CASE Len(t) = 2
  <2>1. Len(s) = 3 /\ s[2].do = "log" /\ s[2].to = to
    BY <1>1, <1>2, <1>3, <1>6 DEF EndsIn, Log
  <2>2. s[2 + 1] = u[1]
    BY <1>1, <1>3, <1>6
  <2>3. s[3].do = "recheck"
    BY <1>1, <2>2
  <2> QED
    BY <1>4, <2>1, <2>3
    DEF Fresh, Shape, TouchFirst, KeepersEarly, StopsLast, LogsFollow, EventsLead,
        ApplyFollows, Counted, NoLateTouch, Known, KeepsPending, StopsClear, Logged,
        LogDue, Setters, SetTo, Keepers, Makers, Stopped
<1> QED BY <1>2, <1>5, <1>6 DEF EndsIn

(* request_followup_draft.                                                  *)
LEMMA FreshRequest ==
  ASSUME NEW to \in States \ Stopped, NEW d \in Dues, NEW n \in Followups, action[n] \in Pending
  PROVE  Fresh(SetState(to, d) \o <<OnTouch("request", n), Log("FOLLOWUP_REVIEW_PENDING")>>)
<1> DEFINE t == SetState(to, d)
           u == <<OnTouch("request", n), Log("FOLLOWUP_REVIEW_PENDING")>>
           s == t \o u
<1> SUFFICES Fresh(s)
  OBVIOUS
<1>1. u \in Seq(Commits) /\ Len(u) = 2 /\ u[1].do = "request" /\ u[1].n = n
      /\ u[2].do = "log" /\ u[2].to = "FOLLOWUP_REVIEW_PENDING"
  <2>1. OnTouch("request", n) \in Commits /\ Log("FOLLOWUP_REVIEW_PENDING") \in Commits
    BY "FOLLOWUP_REVIEW_PENDING" \in States, "none" \in Dues, OnFollowupIsCommit,
       WriteIsCommit DEF States, Dues
  <2>2. /\ u \in Seq(Commits) /\ Len(u) = 2
        /\ u[1] = OnTouch("request", n) /\ u[2] = Log("FOLLOWUP_REVIEW_PENDING")
    BY <2>1
  <2> HIDE DEF u
  <2> QED BY <2>2 DEF OnTouch, Log
<1>2. t \in Seq(Commits) /\ EndsIn(t, 1, to, d)
  BY SetStateIs
<1> HIDE DEF u, t
<1>a. t \in Seq(Commits) /\ u \in Seq(Commits)
  BY <1>1, <1>2
<1>3. /\ s \in Seq(Commits) /\ Len(s) = Len(t) + Len(u)
      /\ \A i \in 1..Len(t) : s[i] = t[i]
      /\ \A i \in 1..Len(u) : s[Len(t) + i] = u[i]
  BY <1>a, After
<1> HIDE DEF s
<1>4. s \in Seq(Commits) /\ s # <<>> /\ s[1].do = "state" /\ s[1].to = to
  BY <1>1, <1>2, <1>3, EmptySeq DEF EndsIn, Write
<1>5. CASE Len(t) = 1
  <2>1. Len(s) = 3 /\ to = state
    BY <1>1, <1>2, <1>3, <1>5 DEF EndsIn
  <2>2. s[1 + 1] = u[1] /\ s[1 + 2] = u[2]
    BY <1>1, <1>3, <1>5
  <2>3. s[2].do = "request" /\ s[2].n = n /\ s[3].do = "log" /\ s[3].to = "FOLLOWUP_REVIEW_PENDING"
    BY <1>1, <2>2
  <2> QED
    BY <1>4, <2>1, <2>3
    DEF Fresh, Shape, TouchFirst, KeepersEarly, StopsLast, LogsFollow, EventsLead,
        ApplyFollows, Counted, NoLateTouch, Known, KeepsPending, StopsClear, Logged,
        LogDue, Setters, SetTo, Keepers, Makers, Stopped
<1>6. CASE Len(t) = 2
  <2>1. Len(s) = 4 /\ s[2].do = "log" /\ s[2].to = to
    BY <1>1, <1>2, <1>3, <1>6 DEF EndsIn, Log
  <2>2. s[2 + 1] = u[1] /\ s[2 + 2] = u[2]
    BY <1>1, <1>3, <1>6
  <2>3. s[3].do = "request" /\ s[3].n = n /\ s[4].do = "log" /\ s[4].to = "FOLLOWUP_REVIEW_PENDING"
    BY <1>1, <2>2
  <2> QED
    BY <1>4, <2>1, <2>3
    DEF Fresh, Shape, TouchFirst, KeepersEarly, StopsLast, LogsFollow, EventsLead,
        ApplyFollows, Counted, NoLateTouch, Known, KeepsPending, StopsClear, Logged,
        LogDue, Setters, SetTo, Keepers, Makers, Stopped
<1> QED BY <1>2, <1>5, <1>6 DEF EndsIn

(* One commit that writes a state, and its log.                            *)
LEMMA FreshPair ==
  ASSUME NEW c \in Commits, c.do \in Setters \ {"state"}, SetTo(c) \in States,
         c.do = "touch" => c.n <= count + 1 /\ ~suppressed,
         c.do \in Keepers => action[c.n] \in Pending
  PROVE  Fresh(<<c, Log(SetTo(c))>>)
<1> DEFINE s == <<c, Log(SetTo(c))>>
<1> SUFFICES Fresh(s)
  OBVIOUS
<1>1. s \in Seq(Commits) /\ Len(s) = 2 /\ s # <<>> /\ s[1] = c /\ s[2] = Log(SetTo(c))
  BY "none" \in Dues, WriteIsCommit, Two DEF Dues
<1>2. s[2].do = "log" /\ s[2].to = SetTo(s[1])
  BY <1>1 DEF Log
<1> HIDE DEF s
<1>3. Shape(s)
  BY <1>1, <1>2
  DEF Shape, TouchFirst, KeepersEarly, StopsLast, LogsFollow, EventsLead, ApplyFollows,
      Setters, Keepers, Makers
<1> QED
  BY <1>1, <1>2, <1>3
  DEF Fresh, Counted, NoLateTouch, Known, KeepsPending, StopsClear, Logged, LogDue, Setters, Keepers

(* record_manual_send of a follow-up.                                      *)
LEMMA FreshSend ==
  ASSUME NEW n \in Followups, n <= count + 1, ~suppressed, MaxTouches \in Nat
  PROVE  Fresh(<<OnTouch("touch", n), Log(SetTo(OnTouch("touch", n))), OnTouch("consume", n)>>)
<1> DEFINE c == OnTouch("touch", n)
           u == OnTouch("consume", n)
           s == <<c, Log(SetTo(c)), u>>
<1> SUFFICES Fresh(s)
  OBVIOUS
<1>1. n \in 1..MaxTouches
  BY DEF Followups
<1>2. c.do = "touch" /\ c.n = n /\ u.do = "consume" /\ c \in Commits /\ u \in Commits
  BY <1>1, TouchIsCommit, OnFollowupIsCommit DEF OnTouch
<1> HIDE DEF c, u
<1>a. SetTo(c) \in States
  BY <1>2 DEF SetTo, States, Terminal
<1>3. /\ s \in Seq(Commits) /\ Len(s) = 3 /\ s # <<>>
      /\ s[1] = c /\ s[2] = Log(SetTo(c)) /\ s[3] = u
  BY <1>2, <1>a, "none" \in Dues, WriteIsCommit DEF Dues
<1> HIDE DEF s
<1>4. s[2].do = "log" /\ s[2].to = SetTo(s[1])
  BY <1>3 DEF Log
<1>5. Shape(s)
  BY <1>2, <1>3, <1>4
  DEF Shape, TouchFirst, KeepersEarly, StopsLast, LogsFollow, EventsLead, ApplyFollows,
      Setters, Keepers
<1> QED
  BY <1>2, <1>3, <1>4, <1>5
  DEF Fresh, Counted, NoLateTouch, Known, KeepsPending, StopsClear, Logged, LogDue, Setters, Keepers

(* classify_fixture_reply.                                                 *)
LEMMA FreshClassify ==
  ASSUME NEW r \in Replies, NEW k \in AnyKind, reply[r] # NoReply
  PROVE  Fresh(<<OnReply("classify", r, k), OnReply("apply", r, k)>>)
<1> DEFINE a == OnReply("classify", r, k)
           b == OnReply("apply", r, k)
           s == <<a, b>>
<1> SUFFICES Fresh(s)
  OBVIOUS
<1>1. s \in Seq(Commits) /\ Len(s) = 2 /\ s # <<>> /\ s[1] = a /\ s[2] = b
  BY OnReplyIsCommit, Two
<1>2. a.do = "classify" /\ a.reply = r /\ b.do = "apply" /\ b.reply = r
  BY DEF OnReply
<1> HIDE DEF s, a, b
<1> QED
  BY <1>1, <1>2
  DEF Fresh, Shape, TouchFirst, KeepersEarly, StopsLast, LogsFollow, EventsLead,
      ApplyFollows, Counted, NoLateTouch, Known, KeepsPending, StopsClear, Logged,
      LogDue, Setters, SetTo, Keepers, Makers, Stopped

(* What is left of a plan. *)
LEMMA Rest ==
  ASSUME NEW s \in Seq(Commits), s # <<>>
  PROVE  /\ Head(s) = s[1] /\ s[1] \in Commits
         /\ Tail(s) \in Seq(Commits) /\ Len(s) \in Nat \ {0} /\ Len(Tail(s)) = Len(s) - 1
         /\ \A i \in 1..Len(Tail(s)) : Tail(s)[i] = s[i + 1] /\ i + 1 \in 1..Len(s)
<1>1. Len(s) \in Nat \ {0}
  BY EmptySeq
<1>2. Head(s) = s[1] /\ s[1] \in Commits
  BY <1>1, ElementOfSeq
<1>3. /\ Tail(s) \in Seq(Commits) /\ Len(Tail(s)) = Len(s) - 1
      /\ \A i \in 1..Len(Tail(s)) : Tail(s)[i] = s[i + 1]
  BY HeadTailProperties
<1> QED BY <1>1, <1>2, <1>3

(* What may follow what holds of the rest of a plan too.                   *)
LEMMA RestShape ==
  ASSUME NEW s \in Seq(Commits), s # <<>>, Shape(s)
  PROVE  Shape(Tail(s))
<1> DEFINE t == Tail(s)
<1>1. /\ t \in Seq(Commits) /\ Len(s) \in Nat \ {0} /\ Len(t) = Len(s) - 1
      /\ \A i \in 1..Len(t) : t[i] = s[i + 1] /\ i + 1 \in 1..Len(s)
  BY Rest
<1> HIDE DEF t
<1>2. TouchFirst(t)
  <2> SUFFICES ASSUME NEW i \in 1..Len(t), t[i].do = "touch"
               PROVE  FALSE
    BY DEF TouchFirst
  <2>1. s[i + 1].do = "touch" /\ i + 1 \in 1..Len(s)
    BY <1>1
  <2>2. i + 1 = 1
    BY <2>1 DEF Shape, TouchFirst
  <2> QED BY <2>2
<1>3. KeepersEarly(t)
  <2> SUFFICES ASSUME NEW i \in 1..Len(t), t[i].do \in Keepers, NEW j \in 1..(i - 1)
               PROVE  t[j].do \in {"state", "log"}
    BY DEF KeepersEarly
  <2>1. j \in 1..Len(t) /\ j + 1 \in 1..((i + 1) - 1)
    BY <1>1
  <2> QED BY <1>1, <2>1 DEF Shape, KeepersEarly
<1>4. StopsLast(t)
  <2> SUFFICES ASSUME NEW i \in 1..Len(t), t[i].do = "state", t[i].to \in Stopped,
                      NEW j \in 1..(i - 1)
               PROVE  t[j].do \notin Makers
    BY DEF StopsLast
  <2>1. j \in 1..Len(t) /\ j + 1 \in 1..((i + 1) - 1)
    BY <1>1
  <2> QED BY <1>1, <2>1 DEF Shape, StopsLast
<1>5. LogsFollow(t)
  <2> SUFFICES ASSUME NEW i \in 1..Len(t), t[i].do = "log", i > 1
               PROVE  t[i - 1].do \in Setters /\ t[i].to = SetTo(t[i - 1])
    BY DEF LogsFollow
  <2>1. i - 1 \in 1..Len(t) /\ t[i - 1] = s[i] /\ t[i] = s[i + 1] /\ i + 1 > 1
    BY <1>1
  <2>2. s[(i + 1) - 1].do \in Setters /\ s[i + 1].to = SetTo(s[(i + 1) - 1])
    BY <1>1, <2>1 DEF Shape, LogsFollow
  <2> QED BY <2>1, <2>2
<1>6. EventsLead(t)
  <2> SUFFICES ASSUME NEW i \in 1..Len(t), t[i].do = "event", Overrides(t[i].kind)
               PROVE  i + 2 <= Len(t) /\ t[i + 1].do = "cancel" /\ t[i + 2].do = "suppress"
    BY DEF EventsLead
  <2>0. s[i + 1].do = "event" /\ Overrides(s[i + 1].kind) /\ i + 1 \in 1..Len(s)
    BY <1>1
  <2>1. (i + 1) + 2 <= Len(s) /\ s[(i + 1) + 1].do = "cancel" /\ s[(i + 1) + 2].do = "suppress"
    BY <2>0 DEF Shape, EventsLead
  <2>2. i + 2 <= Len(t) /\ t[i + 1] = s[(i + 1) + 1] /\ t[i + 2] = s[(i + 2) + 1]
    BY <1>1, <2>1
  <2> QED BY <2>1, <2>2
<1>7. ApplyFollows(t)
  <2> SUFFICES ASSUME NEW i \in 1..Len(t), t[i].do = "classify"
               PROVE  /\ i + 1 <= Len(t) /\ t[i + 1].do = "apply"
                      /\ t[i + 1].reply = t[i].reply
    BY DEF ApplyFollows
  <2>1. /\ (i + 1) + 1 <= Len(s) /\ s[(i + 1) + 1].do = "apply"
        /\ s[(i + 1) + 1].reply = s[i + 1].reply
    BY <1>1 DEF Shape, ApplyFollows
  <2>2. i + 1 <= Len(t) /\ t[i + 1] = s[(i + 1) + 1] /\ t[i] = s[i + 1]
    BY <1>1, <2>1
  <2> QED BY <2>1, <2>2
<1> QED BY <1>2, <1>3, <1>4, <1>5, <1>6, <1>7 DEF Shape, t

-----------------------------------------------------------------------------
(* Steps. *)

(* Every call begins with a fresh plan. *)
LEMMA CallBegins ==
  ASSUME TypeInv, FollowupAssumption, NEW p \in Procs, Call(p)
  PROVE  \E s : Fresh(s) /\ Begin(p, s)
<1>1. /\ state \in States /\ due \in Dues /\ count \in 0..MaxTouches /\ MaxTouches \in Nat \ {0}
      /\ reply \in [Replies -> AnyKind \union {NoReply}] /\ Kinds \subseteq AnyKind
      /\ action \in [Followups -> ActionStates]
  BY DEF TypeInv, TypeOK, Dues, FollowupAssumption, AnyKind
<1>2. \A x \in {"SUPPRESSED", "FOLLOWUP_ELIGIBILITY_PENDING", "HOLD_FOR_REVIEW",
               "FOLLOWUP_DRAFT_REQUESTED", "CLOSED_NO_RESPONSE"} : x \in States \ Stopped
  BY DEF States, Terminal, Stopped
<1>3. CASE Initialize(p)
  <2> DEFINE c == Plain("initialize")
  <2>1. c \in Commits /\ c.do = "initialize"
    BY PlainIsCommit DEF Plain
  <2> HIDE DEF c
  <2>2. SetTo(c) = "AWAITING_MANUAL_SEND" /\ SetTo(c) \in States
    BY <2>1 DEF SetTo, States
  <2>3. Fresh(<<c, Log(SetTo(c))>>)
    BY <2>1, <2>2, FreshPair DEF Setters, Keepers
  <2> QED BY <1>3, <2>2, <2>3 DEF Initialize, c
<1>4. CASE RecordManualSend(p)
  <2>1. CASE Begin(p, SetState("SUPPRESSED", due))
    BY <1>1, <1>2, <2>1, FreshState
  <2>2. ASSUME ~suppressed, count < MaxTouches,
               Begin(p, <<OnTouch("touch", count + 1),
                          Log(IF count + 1 = MaxTouches THEN "CLOSED_NO_RESPONSE"
                                                        ELSE "WAITING_FOR_REPLY")>>
                        \o IF count = 0 THEN <<>> ELSE <<OnTouch("consume", count + 1)>>)
        PROVE  \E s : Fresh(s) /\ Begin(p, s)
    <3> DEFINE n == count + 1
               c == OnTouch("touch", n)
               u == OnTouch("consume", n)
               l == Log(SetTo(c))
    <3>1. n \in 1..MaxTouches /\ (count # 0 => n \in Followups) /\ n <= count + 1
      BY <1>1, <2>2 DEF Followups
    <3> HIDE DEF n
    <3>2. c.do = "touch" /\ c.n = n /\ c \in Commits
      BY <3>1, TouchIsCommit DEF OnTouch
    <3>3. SetTo(c) = IF n = MaxTouches THEN "CLOSED_NO_RESPONSE" ELSE "WAITING_FOR_REPLY"
      BY <3>2 DEF SetTo
    <3>4. Begin(p, <<c, l>> \o IF count = 0 THEN <<>> ELSE <<u>>)
      BY <2>2, <3>3 DEF n
    <3>5. SetTo(c) \in States
      BY <3>3 DEF States, Terminal
    <3>6. l \in Commits
      BY <3>5, "none" \in Dues, WriteIsCommit DEF Dues
    <3>7. CASE count = 0
      <4>1. <<c, l>> \o <<>> = <<c, l>>
        BY <3>2, <3>6, Two, ConcatEmptySeq
      <4>2. Fresh(<<c, l>>)
        BY <2>2, <3>1, <3>2, <3>5, FreshPair DEF Setters, Keepers
      <4> QED BY <3>4, <3>7, <4>1, <4>2
    <3>8. CASE count # 0
      <4>1. u \in Commits
        BY <3>1, <3>8, OnFollowupIsCommit
      <4>2. <<c, l>> \o <<u>> = <<c, l, u>>
        BY <3>2, <3>6, <4>1, TwoAndOne
      <4>3. Fresh(<<c, l, u>>)
        BY <1>1, <2>2, <3>1, <3>8, FreshSend
      <4> QED BY <3>4, <3>8, <4>2, <4>3
    <3> QED BY <3>7, <3>8
  <2> QED BY <1>4, <2>1, <2>2 DEF RecordManualSend, SendBlocked
<1>5. CASE ProcessDue(p)
  BY <1>1, <1>2, <1>5, FreshCancelState, FreshRecheck DEF ProcessDue
<1>6. CASE CancelPending(p)
  <2>1. CASE Open
    BY <1>1, <1>2, <1>6, <2>1, FreshCancelState DEF CancelPending
  <2>2. CASE ~Open
    <3>1. <<Plain("cancel")>> \o <<>> = <<Plain("cancel")>>
      BY PlainIsCommit, One, ConcatEmptySeq
    <3> QED BY <1>6, <2>2, <3>1, FreshCancel DEF CancelPending
  <2> QED BY <2>1, <2>2
<1>7. CASE CloseNoResponse(p)
  BY <1>1, <1>2, <1>7, FreshCancelState DEF CloseNoResponse
<1>8. ASSUME NEW n \in Followups, RequestDraft(p, n)
      PROVE  \E s : Fresh(s) /\ Begin(p, s)
  <2>1. action[n] \in Pending
    BY <1>8 DEF RequestDraft, Pending
  <2> QED BY <1>1, <1>2, <1>8, <2>1, FreshInvalidate, FreshRequest DEF RequestDraft
<1>9. ASSUME NEW n \in Followups, MarkReady(p, n)
      PROVE  \E s : Fresh(s) /\ Begin(p, s)
  <2> DEFINE c == OnTouch("ready", n)
  <2>1. action[n] \in Pending
    BY <1>9 DEF MarkReady, Pending
  <2>2. c \in Commits /\ c.do = "ready" /\ c.n = n
    BY OnFollowupIsCommit DEF OnTouch
  <2> HIDE DEF c
  <2>3. SetTo(c) = "AWAITING_MANUAL_SEND" /\ SetTo(c) \in States
    BY <2>2 DEF SetTo, States
  <2>4. Fresh(<<c, Log(SetTo(c))>>)
    BY <2>1, <2>2, <2>3, FreshPair DEF Setters
  <2> QED BY <1>9, <2>3, <2>4 DEF MarkReady, c
<1>10. ASSUME NEW r \in Replies, NEW k \in Kinds, IngestReply(p, r, k)
       PROVE  \E s : Fresh(s) /\ Begin(p, s)
  BY <1>1, <1>10, FreshEvent DEF IngestReply
<1>11. ASSUME NEW r \in Replies, NEW k \in Kinds, Classify(p, r, k.cat)
       PROVE  \E s : Fresh(s) /\ Begin(p, s)
  <2> DEFINE m == [cat |-> k.cat, explicit |-> reply[r].explicit]
  <2>1. reply[r] # NoReply /\ reply[r] \in AnyKind /\ k \in AnyKind
    BY <1>1, <1>11 DEF Classify
  <2>2. m \in AnyKind
    BY <2>1 DEF AnyKind
  <2>3. Begin(p, <<OnReply("classify", r, m), OnReply("apply", r, m)>>)
    BY <1>11 DEF Classify
  <2> HIDE DEF m
  <2> QED BY <2>1, <2>2, <2>3, FreshClassify
<1> QED BY <1>3, <1>4, <1>5, <1>6, <1>7, <1>8, <1>9, <1>10, <1>11 DEF Call

(* The second half of process_due_followups and of classify_fixture_reply  *)
(* replaces the plan, and touches no table.                                *)
Rewrites(p, s) ==
  /\ ~Idle(p) /\ plan[p][1].do \in {"recheck", "apply"}
  /\ plan' = [plan EXCEPT ![p] = s]
  /\ plan[p][1].do = "apply" /\ Overrides(reply[plan[p][1].reply]) => Suppressing(s)
  /\ UNCHANGED <<tables, crashes, overlapped>>

(* The commit that is next.                                                *)
LEMMA FirstCommit ==
  ASSUME TypeInv, NEW p \in Procs, ~Idle(p)
  PROVE  /\ Commit(p) = plan[p][1] /\ Commit(p) \in Commits /\ plan[p][1] \in Commits
         /\ plan[p] \in Seq(Commits) /\ plan[p] # <<>> /\ 1 \in 1..Len(plan[p])
<1>1. plan[p] \in Seq(Commits) /\ plan[p] # <<>>
  BY DEF TypeInv, Idle
<1> QED BY <1>1, Rest DEF Commit

(* process_due_followups, from its second look at the row.                 *)
LEMMA RecheckRewrites ==
  ASSUME TypeInv, FollowupAssumption, NEW p \in Procs, Recheck(p)
  PROVE  \E s : Fresh(s) /\ Rewrites(p, s)
<1>1. /\ ~Idle(p) /\ plan[p][1].do = "recheck" /\ UNCHANGED <<tables, crashes, overlapped>>
  BY FirstCommit DEF Recheck, Next1, Commit
<1>2. \A s : plan' = [plan EXCEPT ![p] = s] => Rewrites(p, s)
  BY <1>1 DEF Rewrites
<1>3. due \in Dues /\ "HOLD_FOR_REVIEW" \in States
  BY DEF TypeInv, TypeOK, Dues, States
<1>4. CASE plan' = [plan EXCEPT ![p] = <<Plain("cancel")>> \o SetState("HOLD_FOR_REVIEW", due)]
  BY <1>2, <1>3, <1>4, FreshCancelState
<1>5. ASSUME count + 1 \in Followups,
             plan' = [plan EXCEPT ![p] = <<OnTouch("reserve", count + 1), Log("FOLLOWUP_DUE")>>]
      PROVE  \E s : Fresh(s) /\ Rewrites(p, s)
  <2> DEFINE c == OnTouch("reserve", count + 1)
  <2>1. c \in Commits /\ c.do = "reserve"
    BY <1>5, OnFollowupIsCommit DEF OnTouch
  <2>2. plan' = [plan EXCEPT ![p] = <<c, Log("FOLLOWUP_DUE")>>]
    BY <1>5
  <2> HIDE DEF c
  <2>3. SetTo(c) = "FOLLOWUP_DUE" /\ SetTo(c) \in States
    BY <2>1 DEF SetTo, States
  <2>4. Fresh(<<c, Log(SetTo(c))>>)
    BY <2>1, <2>3, FreshPair DEF Setters, Keepers
  <2> QED BY <1>2, <2>2, <2>3, <2>4
<1>6. CASE Abort(p)
  BY <1>2, <1>6, FreshEmpty DEF Abort
<1> QED BY <1>4, <1>5, <1>6 DEF Recheck

(* classify_fixture_reply, from its second look at the reply.              *)
LEMMA ApplyRewrites ==
  ASSUME TypeInv, NEW p \in Procs, Apply(p)
  PROVE  \E s : Fresh(s) /\ Rewrites(p, s)
<1> DEFINE r == plan[p][1].reply
<1>1. /\ ~Idle(p) /\ plan[p][1].do = "apply" /\ UNCHANGED <<tables, crashes, overlapped>>
      /\ plan' = [plan EXCEPT ![p] = ApplyReply(reply[r])]
  BY FirstCommit DEF Apply, Next1, Commit
<1>2. reply[r] # NoReply /\ r \in Replies
  BY <1>1, FirstCommit, CommitFields DEF TypeInv, Known
<1>3. reply[r] \in AnyKind
  BY <1>2 DEF TypeInv
<1>4. Fresh(ApplyReply(reply[r])) /\ (Overrides(reply[r]) => Suppressing(ApplyReply(reply[r])))
  BY <1>3, FreshApply
<1> QED BY <1>1, <1>4 DEF Rewrites

(* What a commit does to its plan. *)
Commits1(p) ==
  \/ CommitInitialize(p) \/ CommitState(p) \/ CommitLog(p) \/ CommitTouch(p)
  \/ CommitConsume(p) \/ CommitCancel(p) \/ CommitReserve(p)
  \/ CommitInvalidate(p) \/ CommitRequest(p) \/ CommitReady(p)
  \/ CommitEvent(p) \/ CommitClassify(p) \/ CommitSuppress(p)

(* A commit is taken off its plan, or the plan is given up.                *)
LEMMA CommitMoves ==
  ASSUME TypeInv, NEW p \in Procs, Commits1(p)
  PROVE  /\ ~Idle(p) /\ plan[p] # <<>> /\ plan[p] \in Seq(Commits)
         /\ plan'[p] = Tail(plan[p]) \/ plan'[p] = <<>>
         /\ \A q \in Procs : q # p => plan'[q] = plan[q]
         /\ plan' \in [Procs -> Seq(Commits)]
         /\ crashes' = crashes /\ overlapped' = overlapped
<1>1. plan \in [Procs -> Seq(Commits)]
  BY DEF TypeInv
<1>2. ~Idle(p) /\ (Step(p) \/ Abort(p)) /\ crashes' = crashes /\ overlapped' = overlapped
  BY DEF Commits1, CommitInitialize, CommitState, CommitLog, CommitTouch, CommitConsume,
    CommitCancel, CommitReserve, CommitInvalidate, CommitRequest, CommitReady, CommitEvent,
    CommitClassify, CommitSuppress, Next1
<1>3. Tail(plan[p]) \in Seq(Commits) /\ <<>> \in Seq(Commits) /\ plan[p] # <<>>
  BY <1>1, <1>2, Rest, EmptySeq DEF Idle
<1>4. \/ plan' = [plan EXCEPT ![p] = Tail(plan[p])]
      \/ plan' = [plan EXCEPT ![p] = <<>>]
  BY <1>2 DEF Step, Abort
<1> QED BY <1>1, <1>2, <1>3, <1>4

(* Steps of the whole.                                                     *)
LEMMA NextKinds ==
  ASSUME TypeInv, FollowupAssumption, Next
  PROVE  \/ \E p \in Procs : \E s : Fresh(s) /\ Begin(p, s)
         \/ \E p \in Procs : \E s : Fresh(s) /\ Rewrites(p, s)
         \/ \E p \in Procs : Commits1(p)
         \/ \E p \in Procs : Crash(p)
         \/ SuppressElsewhere \/ TimePasses
<1>1. ASSUME NEW p \in Procs, CommitStep(p)
      PROVE  Commits1(p) \/ \E s : Fresh(s) /\ Rewrites(p, s)
  BY <1>1, RecheckRewrites, ApplyRewrites DEF CommitStep, Commits1
<1> QED BY <1>1, CallBegins DEF Next

(* A plan stays, loses its first commit, is given up or is made anew.      *)
LEMMA PlansMove ==
  ASSUME TypeInv, FollowupAssumption, [Next]_vars, NEW q \in Procs
  PROVE  \/ plan'[q] = plan[q] \/ plan'[q] = <<>> \/ Fresh(plan'[q])
         \/ plan[q] # <<>> /\ plan'[q] = Tail(plan[q])
<1>1. plan \in [Procs -> Seq(Commits)]
  BY DEF TypeInv
<1>2. ASSUME NEW p \in Procs, NEW s, Fresh(s), Begin(p, s) \/ Rewrites(p, s)
      PROVE  plan'[q] = plan[q] \/ Fresh(plan'[q])
  BY <1>1, <1>2 DEF Begin, Rewrites
<1>3. ASSUME NEW p \in Procs, Commits1(p)
      PROVE  \/ plan'[q] = plan[q] \/ plan'[q] = <<>>
             \/ plan[q] # <<>> /\ plan'[q] = Tail(plan[q])
  BY <1>3, CommitMoves
<1>4. ASSUME NEW p \in Procs, Crash(p)
      PROVE  plan'[q] = plan[q] \/ plan'[q] = <<>>
  BY <1>1, <1>4 DEF Crash, Abort
<1>5. CASE SuppressElsewhere \/ TimePasses \/ UNCHANGED vars
  BY <1>5 DEF SuppressElsewhere, TimePasses, vars
<1> QED BY <1>2, <1>3, <1>4, <1>5, NextKinds

(* What holds of every plan and goes from a plan to what is left of it.    *)
LEMMA ShapeStep ==
  ASSUME TypeInv, FollowupAssumption, ShapeInv, [Next]_vars
  PROVE  ShapeInv'
<1> SUFFICES ASSUME NEW q \in Procs PROVE Shape(plan'[q])
  BY DEF ShapeInv
<1>1. Shape(<<>>)
  BY FreshEmpty DEF Fresh
<1>2. plan[q] \in Seq(Commits) /\ Shape(plan[q])
  BY DEF TypeInv, ShapeInv
<1>3. plan[q] # <<>> => Shape(Tail(plan[q]))
  BY <1>2, RestShape
<1> QED BY <1>1, <1>2, <1>3, PlansMove DEF Fresh

-----------------------------------------------------------------------------
(* Types. *)

(* The commits that write a table, with what they carry.                   *)
LEMMA TablesTyped ==
  ASSUME TypeInv, FollowupAssumption, NEW p \in Procs, Commits1(p)
  PROVE  /\ TypeOK' /\ reply' \in [Replies -> AnyKind \union {NoReply}]
         /\ \A r \in Replies : reply[r] # NoReply => reply'[r] # NoReply
<1> DEFINE c == Commit(p)
<1>1. c \in Commits /\ crashes' = crashes /\ overlapped' = overlapped
  BY CommitMoves, FirstCommit
<1>2. /\ c.do = "state" => c.to \in States /\ c.due \in Dues
      /\ c.do = "log" => c.to \in States
      /\ c.do = "touch" => c.n \in 1..MaxTouches
      /\ c.do \in {"consume", "reserve", "invalidate", "request", "ready"} => c.n \in Followups
      /\ c.do \in {"event", "classify", "apply"} => c.reply \in Replies /\ c.kind \in AnyKind
  BY <1>1, CommitFields
<1>3. /\ TypeOK /\ reply \in [Replies -> AnyKind \union {NoReply}] /\ NoReply \notin AnyKind
      /\ MaxTouches \in Nat \ {0}
  BY DEF TypeInv, FollowupAssumption, AnyKind
<1>4. CASE CommitInitialize(p)
  BY <1>1, <1>3, <1>4 DEF CommitInitialize, TypeOK, States, actions, events
<1>5. CASE CommitState(p)
  BY <1>1, <1>2, <1>3, <1>5 DEF CommitState, Next1, Commit, TypeOK, actions, events
<1>6. CASE CommitLog(p)
  BY <1>1, <1>2, <1>3, <1>6 DEF CommitLog, Next1, Commit, TypeOK, sequence, actions, events
<1>7. CASE CommitTouch(p)
  <2>1. c.do = "touch" /\ c.n \in 1..MaxTouches
    BY <1>2, <1>7 DEF CommitTouch, Next1, Commit
  <2>2. UNCHANGED <<actions, events, audited>>
    BY <1>7 DEF CommitTouch
  <2>3. CASE NewTouch(c.n)
    <3>1. /\ touches' = [touches EXCEPT ![c.n] = @ + 1] /\ count' = c.n
          /\ due' = IF c.n = MaxTouches THEN "none" ELSE "future"
          /\ state' = IF c.n = MaxTouches THEN "CLOSED_NO_RESPONSE" ELSE "WAITING_FOR_REPLY"
      BY <1>7, <2>3 DEF CommitTouch
    <3>2. touches' \in [1..MaxTouches -> Nat]
      BY <1>3, <2>1, <3>1 DEF TypeOK
    <3>3. count' \in 0..MaxTouches
      BY <1>3, <2>1, <3>1
    <3> HIDE DEF c
    <3>4. state' \in States /\ due' \in {"none", "future", "past"}
      BY <3>1 DEF States, Terminal
    <3> QED BY <1>1, <1>3, <2>2, <3>2, <3>3, <3>4 DEF TypeOK, actions, events
  <2>4. CASE ~NewTouch(c.n)
    <3>1. UNCHANGED <<sequence, touches>>
      BY <1>7, <2>4 DEF CommitTouch
    <3> QED BY <1>1, <1>3, <2>2, <3>1 DEF TypeOK, sequence, actions, events
  <2> QED BY <2>3, <2>4
<1>8. CASE CommitConsume(p)
  BY <1>1, <1>3, <1>8
  DEF CommitConsume, TypeOK, sequence, events, actions, ActionStates, ReservationStates
<1>9. CASE CommitCancel(p)
  BY <1>1, <1>3, <1>9
  DEF CommitCancel, Freed, TypeOK, sequence, events, ActionStates, ReservationStates
<1>10. CASE CommitReserve(p)
  BY <1>1, <1>3, <1>10
  DEF CommitReserve, TypeOK, events, actions, ActionStates, ReservationStates, States
<1>11. CASE CommitInvalidate(p)
  BY <1>1, <1>3, <1>11
  DEF CommitInvalidate, TypeOK, sequence, events, ActionStates, ReservationStates
<1>12. CASE CommitRequest(p)
  BY <1>1, <1>3, <1>12 DEF CommitRequest, TypeOK, events, ActionStates, States
<1>13. CASE CommitReady(p)
  BY <1>1, <1>3, <1>13 DEF CommitReady, TypeOK, events, ActionStates, States
<1>14. CASE CommitEvent(p)
  BY <1>1, <1>2, <1>3, <1>14
  DEF CommitEvent, Next1, Commit, TypeOK, sequence, actions, AnyKind
<1>15. CASE CommitClassify(p)
  BY <1>1, <1>2, <1>3, <1>15
  DEF CommitClassify, Next1, Commit, TypeOK, sequence, actions, AnyKind
<1>16. CASE CommitSuppress(p)
  BY <1>1, <1>3, <1>16 DEF CommitSuppress, TypeOK, sequence, actions
<1> QED BY <1>4, <1>5, <1>6, <1>7, <1>8, <1>9, <1>10, <1>11, <1>12, <1>13, <1>14, <1>15, <1>16
        DEF Commits1

(* Where the commits of a plan after a step come from.                     *)
LEMMA CommitsMove ==
  ASSUME TypeInv, FollowupAssumption, [Next]_vars, NEW q \in Procs, NEW i \in 1..Len(plan'[q])
  PROVE  \/ Fresh(plan'[q])
         \/ \E j \in 1..Len(plan[q]) : plan'[q][i] = plan[q][j]
<1>1. plan[q] \in Seq(Commits)
  BY DEF TypeInv
<1>2. CASE plan'[q] = plan[q] \/ plan'[q] = <<>>
  <2>1. plan'[q] = plan[q]
    BY <1>2, <1>1
  <2> QED BY <2>1
<1>3. CASE plan[q] # <<>> /\ plan'[q] = Tail(plan[q])
  <2>1. plan'[q][i] = plan[q][i + 1] /\ i + 1 \in 1..Len(plan[q])
    BY <1>1, <1>3, Rest
  <2> QED BY <2>1
<1> QED BY <1>2, <1>3, PlansMove

(* Every step keeps the types.                                             *)
LEMMA TypesStep ==
  ASSUME TypeInv, FollowupAssumption, [Next]_vars
  PROVE  TypeInv'
<1>0. plan \in [Procs -> Seq(Commits)] /\ <<>> \in Seq(Commits)
  BY EmptySeq DEF TypeInv
<1>1. /\ TypeOK' /\ reply' \in [Replies -> AnyKind \union {NoReply}]
      /\ \A r \in Replies : reply[r] # NoReply => reply'[r] # NoReply
      /\ plan' \in [Procs -> Seq(Commits)]
  <2>1. ASSUME NEW p \in Procs, NEW s, Fresh(s), Begin(p, s) \/ Rewrites(p, s)
        PROVE  <1>1!:
    <3>1. UNCHANGED tables /\ crashes' = crashes /\ overlapped' \in BOOLEAN
      BY <2>1 DEF Begin, Rewrites, TypeInv, TypeOK
    <3>2. plan' = [plan EXCEPT ![p] = s] /\ s \in Seq(Commits)
      BY <2>1 DEF Begin, Rewrites, Fresh
    <3>3. plan' \in [Procs -> Seq(Commits)]
      BY <1>0, <3>2
    <3> QED
      BY <3>1, <3>3 DEF TypeInv, TypeOK, tables, sequence, actions, events
  <2>2. ASSUME NEW p \in Procs, Commits1(p)
        PROVE  <1>1!:
    BY <2>2, TablesTyped, CommitMoves
  <2>3. ASSUME NEW p \in Procs, Crash(p)
        PROVE  <1>1!:
    BY <1>0, <2>3
    DEF Crash, Abort, TypeInv, TypeOK, tables, sequence, actions, events
  <2>4. CASE SuppressElsewhere
    BY <2>4 DEF SuppressElsewhere, TypeInv, TypeOK, sequence, actions
  <2>5. CASE TimePasses
    BY <2>5 DEF TimePasses, TypeInv, TypeOK, actions, events
  <2>6. CASE UNCHANGED vars
    BY <2>6 DEF vars, TypeInv, TypeOK, tables, sequence, actions, events
  <2> QED BY <2>1, <2>2, <2>3, <2>4, <2>5, <2>6, NextKinds
<1>2. ASSUME NEW q \in Procs, NEW i \in 1..Len(plan'[q]),
             plan'[q][i].do \in {"classify", "apply"}
      PROVE  reply'[plan'[q][i].reply] # NoReply
  <2>1. plan'[q][i].reply \in Replies
    <3>1. plan'[q][i] \in Commits
      BY <1>1, ElementOfSeq
    <3> QED BY <1>2, <3>1, CommitFields
  <2>2. reply[plan'[q][i].reply] # NoReply
    <3>1. CASE Fresh(plan'[q])
      BY <1>2, <3>1 DEF Fresh, Known
    <3>2. ASSUME NEW j \in 1..Len(plan[q]), plan'[q][i] = plan[q][j]
          PROVE  reply[plan'[q][i].reply] # NoReply
      BY <1>2, <3>2 DEF TypeInv, Known
    <3> QED BY <3>1, <3>2, CommitsMove
  <2> QED BY <1>1, <2>1, <2>2
<1> QED BY <1>1, <1>2 DEF TypeInv, Known

-----------------------------------------------------------------------------
(* Touches. *)

(* Only the commit of a send changes the count and the touches.            *)
LEMMA CountMoves ==
  ASSUME TypeInv, FollowupAssumption, [Next]_vars
  PROVE  \/ count' = count /\ touches' = touches
         \/ \E p \in Procs : CommitTouch(p)
<1>1. ASSUME NEW p \in Procs, Commits1(p), ~CommitTouch(p)
      PROVE  count' = count /\ touches' = touches
  BY <1>1 DEF Commits1, CommitInitialize, CommitState, CommitLog, CommitConsume,
    CommitCancel, CommitReserve, CommitInvalidate, CommitRequest, CommitReady, CommitEvent,
    CommitClassify, CommitSuppress, sequence
<1>2. CASE UNCHANGED tables
  BY <1>2 DEF tables, sequence
<1>3. CASE SuppressElsewhere \/ TimePasses
  BY <1>3 DEF SuppressElsewhere, TimePasses, sequence
<1>4. UNCHANGED vars => UNCHANGED tables
  BY DEF vars
<1> QED BY <1>1, <1>2, <1>3, <1>4, NextKinds DEF Begin, Rewrites, Crash

(* The next touch is the only one that finds its number unused.            *)
LEMMA TouchStep ==
  ASSUME TypeInv, FollowupAssumption, TouchInv, [Next]_vars
  PROVE  TouchInv'
<1>0. count \in Nat /\ count <= MaxTouches /\ MaxTouches \in Nat /\ touches \in [1..MaxTouches -> Nat]
  BY DEF TypeInv, TypeOK, FollowupAssumption
<1>1. TouchesCounted' /\ count' \in Nat /\ count <= count'
  <2>1. CASE count' = count /\ touches' = touches
    BY <1>0, <2>1 DEF TouchInv, TouchesCounted
  <2>2. ASSUME NEW p \in Procs, CommitTouch(p)
        PROVE  TouchesCounted' /\ count' \in Nat /\ count <= count'
    <3> DEFINE n == Commit(p).n
    <3>1. /\ ~Idle(p) /\ Commit(p).do = "touch"
      BY <2>2 DEF CommitTouch, Next1, Commit
    <3>2. n \in 1..MaxTouches /\ n <= count + 1
      BY <3>1, FirstCommit, CommitFields DEF TouchInv, Counted
    <3>3. CASE NewTouch(n)
      <4>1. touches' = [touches EXCEPT ![n] = @ + 1] /\ count' = n
        BY <2>2, <3>3 DEF CommitTouch
      <4>2. touches[n] = 0
        BY <3>3 DEF NewTouch
      <4> HIDE DEF n
      <4>3. n = count + 1
        BY <1>0, <3>2, <4>2 DEF TouchInv, TouchesCounted
      <4> QED BY <1>0, <3>2, <4>1, <4>3 DEF TouchInv, TouchesCounted
    <3>4. CASE ~NewTouch(n)
      <4>1. count' = count /\ touches' = touches
        BY <2>2, <3>4 DEF CommitTouch, sequence
      <4> QED BY <1>0, <4>1 DEF TouchInv, TouchesCounted
    <3> QED BY <3>3, <3>4
  <2> QED BY <2>1, <2>2, CountMoves
<1>2. ASSUME NEW q \in Procs, NEW i \in 1..Len(plan'[q]), plan'[q][i].do = "touch"
      PROVE  plan'[q][i].n <= count' + 1
  <2>1. plan'[q][i].n \in 1..MaxTouches
    <3>1. plan'[q] \in Seq(Commits)
      BY TypesStep DEF TypeInv
    <3> QED BY <1>2, <3>1, ElementOfSeq, CommitFields
  <2>2. plan'[q][i].n <= count + 1
    <3>1. CASE Fresh(plan'[q])
      BY <1>2, <3>1 DEF Fresh, Counted
    <3>2. ASSUME NEW j \in 1..Len(plan[q]), plan'[q][i] = plan[q][j]
          PROVE  plan'[q][i].n <= count + 1
      BY <1>2, <3>2 DEF TouchInv, Counted
    <3> QED BY <3>1, <3>2, CommitsMove
  <2> QED BY <1>0, <1>1, <2>1, <2>2
<1> QED BY <1>1, <1>2 DEF TouchInv, Counted

-----------------------------------------------------------------------------
(* One call at a time. *)

(* Only a call that begins beside another sets overlapped.                 *)
LEMMA LoneStep ==
  ASSUME TypeInv, FollowupAssumption, LoneInv, [Next]_vars
  PROVE  LoneInv'
<1> SUFFICES ASSUME ~overlapped', NEW a \in Procs, NEW b \in Procs,
                    plan'[a] # <<>>, plan'[b] # <<>>
             PROVE  a = b
  BY DEF LoneInv
<1>0. plan \in [Procs -> Seq(Commits)]
  BY DEF TypeInv
<1>1. ASSUME NEW p \in Procs, NEW s, Begin(p, s)
      PROVE  a = b
  <2>1. \A q \in Procs : plan[q] = <<>>
    BY <1>1 DEF Begin, Quiet, Idle
  <2>2. \A q \in Procs : q # p => plan'[q] = plan[q]
    BY <1>0, <1>1 DEF Begin
  <2> QED BY <2>1, <2>2
<1>2. CASE ~overlapped /\ \A q \in Procs : plan[q] = <<>> => plan'[q] = <<>>
  BY <1>2 DEF LoneInv
<1>3. ASSUME NEW p \in Procs, NEW s, Rewrites(p, s)
      PROVE  a = b
  BY <1>0, <1>2, <1>3 DEF Rewrites, Idle
<1>4. ASSUME NEW p \in Procs, Commits1(p)
      PROVE  a = b
  BY <1>2, <1>4, CommitMoves
<1>5. ASSUME NEW p \in Procs, Crash(p)
      PROVE  a = b
  BY <1>0, <1>2, <1>5 DEF Crash, Abort
<1>6. CASE SuppressElsewhere \/ TimePasses \/ UNCHANGED vars
  BY <1>2, <1>6 DEF SuppressElsewhere, TimePasses, vars
<1> QED BY <1>1, <1>3, <1>4, <1>5, <1>6, NextKinds

(* While no calls overlap, a step is that of the only call.                *)
LEMMA LoneKinds ==
  ASSUME TypeInv, FollowupAssumption, LoneInv, Next, ~overlapped'
  PROVE  /\ ~overlapped
         /\ \/ \E p \in Procs : \E s : Fresh(s) /\ Begin(p, s) /\ Quiet
            \/ \E p \in Procs : /\ \A q \in Procs : q # p => plan[q] = <<>>
                                /\ \/ \E s : Fresh(s) /\ Rewrites(p, s)
                                   \/ Commits1(p) \/ Crash(p)
            \/ SuppressElsewhere \/ TimePasses
<1>1. ASSUME NEW p \in Procs, NEW s, Begin(p, s)
      PROVE  ~overlapped /\ Quiet
  BY <1>1 DEF Begin
<1>2. ASSUME NEW p \in Procs, (\E s : Rewrites(p, s)) \/ Commits1(p) \/ Crash(p)
      PROVE  ~overlapped /\ \A q \in Procs : q # p => plan[q] = <<>>
  <2>1. plan[p] # <<>> /\ overlapped' = overlapped
    BY <1>2, CommitMoves DEF Rewrites, Crash, Idle
  <2> QED BY <2>1 DEF LoneInv
<1>3. SuppressElsewhere \/ TimePasses => ~overlapped
  BY DEF SuppressElsewhere, TimePasses
<1> QED BY <1>1, <1>2, <1>3, NextKinds

-----------------------------------------------------------------------------
(* Actions and their slots. *)

(* A plan that still keeps an action pending has only written the state.   *)
LEMMA KeepersWait ==
  ASSUME NEW s \in Seq(Commits), s # <<>>, KeepersEarly(s), KeepsPending(s),
         s[1].do \notin {"state", "log"}
  PROVE  \A i \in 1..Len(Tail(s)) : Tail(s)[i].do \notin Keepers
<1> SUFFICES ASSUME NEW i \in 1..Len(Tail(s)), Tail(s)[i].do \in Keepers
             PROVE  FALSE
  OBVIOUS
<1>1. s[i + 1].do \in Keepers /\ i + 1 \in 1..Len(s) /\ 1 \in 1..((i + 1) - 1)
  BY Rest
<1> QED BY <1>1 DEF KeepersEarly

(* What a commit does to the actions.                                      *)
LEMMA ActionsMove ==
  ASSUME TypeInv, FollowupAssumption, NEW p \in Procs, Commits1(p)
  PROVE  /\ plan[p][1].do \notin {"cancel", "consume", "invalidate"} \union Makers => UNCHANGED actions
         /\ plan[p][1].do \notin Makers /\ NothingPending => NothingPending'
         /\ plan[p][1].do = "cancel" => NothingPending'
<1> DEFINE c == Commit(p)
<1>1. c = plan[p][1] /\ c \in Commits
  BY CommitMoves, FirstCommit
<1>2. c.do \in {"consume", "invalidate"} => c.n \in Followups
  BY <1>1, CommitFields
<1>3. action \in [Followups -> ActionStates]
  BY DEF TypeInv, TypeOK
<1>4. CASE UNCHANGED actions /\ c.do # "cancel"
  BY <1>1, <1>4 DEF actions, NothingPending
<1>5. CASE CommitCancel(p)
  <2>1. NothingPending' /\ c.do = "cancel"
    BY <1>5 DEF CommitCancel, Next1, Commit, NothingPending, Cancellable, Pending
  <2> QED BY <1>1, <2>1
<1>6. CASE CommitConsume(p)
  <2>1. c.do = "consume"
    BY <1>6 DEF CommitConsume, Next1, Commit
  <2>2. NothingPending => NothingPending'
    BY <1>3, <1>6 DEF CommitConsume, NothingPending, Pending, actions
  <2> QED BY <1>1, <2>1, <2>2
<1>7. CASE CommitInvalidate(p)
  <2>1. c.do = "invalidate"
    BY <1>7 DEF CommitInvalidate, Next1, Commit
  <2>2. NothingPending => NothingPending'
    BY <1>3, <1>7 DEF CommitInvalidate, NothingPending, Pending
  <2> QED BY <1>1, <2>1, <2>2
<1>8. CASE c.do \in Makers
  BY <1>1, <1>8 DEF Makers
<1>9. CommitReserve(p) \/ CommitRequest(p) \/ CommitReady(p) => c.do \in Makers
  BY DEF CommitReserve, CommitRequest, CommitReady, Next1, Commit, Makers
<1>10. \/ CommitInitialize(p) \/ CommitState(p) \/ CommitLog(p) \/ CommitTouch(p)
       \/ CommitEvent(p) \/ CommitClassify(p) \/ CommitSuppress(p)
       => UNCHANGED actions /\ c.do # "cancel"
  BY DEF CommitInitialize, CommitState, CommitLog, CommitTouch, CommitEvent, CommitClassify,
    CommitSuppress, Next1, Commit
<1> HIDE DEF c
<1> QED BY <1>4, <1>5, <1>6, <1>7, <1>8, <1>9, <1>10 DEF Commits1

(* A slot is held exactly for a pending action.                            *)
InStep == \A n \in Followups : reservation[n] = "RESERVED" <=> action[n] \in Pending

(* A commit moves the action and its reservation together.                 *)
LEMMA InStepKept ==
  ASSUME TypeInv, FollowupAssumption, InStep, NEW p \in Procs, Commits1(p), KeepsPending(plan[p])
  PROVE  InStep'
<1> DEFINE c == Commit(p)
<1>1. c = plan[p][1] /\ c \in Commits /\ 1 \in 1..Len(plan[p])
  BY CommitMoves, FirstCommit
<1>2. /\ c.do \in {"consume", "reserve", "invalidate", "request", "ready"} => c.n \in Followups
  BY <1>1, CommitFields
<1>3. action \in [Followups -> ActionStates] /\ reservation \in [Followups -> ReservationStates]
  BY DEF TypeInv, TypeOK
<1>4. c.do \in Keepers => action[c.n] \in Pending
  BY <1>1 DEF KeepsPending
<1>5. CASE UNCHANGED actions
  BY <1>5 DEF actions, InStep
<1>6. CASE CommitConsume(p)
  BY <1>3, <1>6 DEF CommitConsume, InStep, actions, Pending
<1>7. CASE CommitCancel(p)
  BY <1>7 DEF CommitCancel, InStep, Cancellable, Freed, Pending
<1>8. CASE CommitReserve(p)
  BY <1>3, <1>8 DEF CommitReserve, InStep, actions, Pending
<1>9. CASE CommitInvalidate(p)
  BY <1>3, <1>9 DEF CommitInvalidate, InStep, Pending
<1>10. CASE CommitRequest(p)
  <2>1. c.do = "request"
    BY <1>10 DEF CommitRequest, Next1, Commit
  <2> QED BY <1>3, <1>4, <1>10, <2>1 DEF CommitRequest, InStep, Pending, Keepers
<1>11. CASE CommitReady(p)
  <2>1. c.do = "ready"
    BY <1>11 DEF CommitReady, Next1, Commit
  <2> QED BY <1>3, <1>4, <1>11, <2>1 DEF CommitReady, InStep, Pending, Keepers
<1>12. \/ CommitInitialize(p) \/ CommitState(p) \/ CommitLog(p) \/ CommitTouch(p)
       \/ CommitEvent(p) \/ CommitClassify(p) \/ CommitSuppress(p)
       => UNCHANGED actions
  BY DEF CommitInitialize, CommitState, CommitLog, CommitTouch, CommitEvent, CommitClassify,
    CommitSuppress
<1> QED BY <1>5, <1>6, <1>7, <1>8, <1>9, <1>10, <1>11, <1>12 DEF Commits1

(* Every step keeps slots and actions in step.                             *)
LEMMA SlotStep ==
  ASSUME TypeInv, FollowupAssumption, ShapeInv, LoneInv, SlotInv, [Next]_vars
  PROVE  SlotInv'
<1> SUFFICES ASSUME ~overlapped'
             PROVE  InStep' /\ \A q \in Procs : KeepsPending(plan[q])'
  BY DEF SlotInv, InStep
<1>0. plan \in [Procs -> Seq(Commits)] /\ Len(<<>>) = 0
  BY EmptySeq DEF TypeInv
<1>1. CASE UNCHANGED vars
  BY <1>1 DEF vars, tables, actions, SlotInv, InStep, KeepsPending
<1> SUFFICES ASSUME Next
             PROVE  InStep' /\ \A q \in Procs : KeepsPending(plan[q])'
  BY <1>1
<1>2. InStep /\ \A q \in Procs : KeepsPending(plan[q])
  BY LoneKinds DEF SlotInv, InStep
<1>3. ASSUME NEW p \in Procs, NEW s, Fresh(s), Begin(p, s) \/ Rewrites(p, s)
      PROVE  InStep' /\ \A q \in Procs : KeepsPending(plan[q])'
  <2>1. UNCHANGED <<action, reservation>> /\ plan' = [plan EXCEPT ![p] = s] /\ KeepsPending(s)
    BY <1>3 DEF Begin, Rewrites, tables, actions, Fresh
  <2>2. \A q \in Procs : plan'[q] = plan[q] \/ plan'[q] = s
    BY <1>0, <2>1
  <2> QED BY <1>2, <2>1, <2>2 DEF InStep, KeepsPending
<1>4. ASSUME NEW p \in Procs, Commits1(p), \A q \in Procs : q # p => plan[q] = <<>>
      PROVE  InStep' /\ \A q \in Procs : KeepsPending(plan[q])'
  <2>1. InStep'
    BY <1>2, <1>4, InStepKept
  <2>2. ASSUME NEW q \in Procs, plan'[q] = <<>>
        PROVE  KeepsPending(plan[q])'
    BY <1>0, <2>2 DEF KeepsPending
  <2>3. CASE plan'[p] = Tail(plan[p])
    <3> DEFINE s == plan[p]
               t == Tail(s)
    <3>1. /\ s \in Seq(Commits) /\ s # <<>> /\ KeepersEarly(s) /\ KeepsPending(s)
      BY <1>2, <1>4, CommitMoves DEF ShapeInv, Shape
    <3>2. ASSUME NEW i \in 1..Len(t), t[i].do \in Keepers
          PROVE  action'[t[i].n] \in Pending
      <4>1. t[i] = s[i + 1] /\ i + 1 \in 1..Len(s)
        BY <3>1, Rest
      <4>2. s[1].do \in {"state", "log"}
        BY <3>1, <3>2, KeepersWait
      <4>3. action' = action
        BY <1>4, <4>2, ActionsMove DEF Makers, actions
      <4> HIDE DEF s, t
      <4> QED BY <3>1, <3>2, <4>1, <4>3 DEF KeepsPending
    <3>3. plan'[p] = t
      BY <2>3
    <3> HIDE DEF t
    <3>4. KeepsPending(plan[p])'
      BY <3>2, <3>3 DEF KeepsPending
    <3> QED BY <1>4, <2>1, <2>2, <3>4, CommitMoves
  <2> QED BY <1>4, <2>1, <2>2, <2>3, CommitMoves
<1>5. ASSUME NEW p \in Procs, Crash(p)
      PROVE  InStep' /\ \A q \in Procs : KeepsPending(plan[q])'
  <2>1. UNCHANGED <<action, reservation>>
    BY <1>5 DEF Crash, tables, actions
  <2>2. \A q \in Procs : plan'[q] = plan[q] \/ plan'[q] = <<>>
    BY <1>0, <1>5 DEF Crash, Abort
  <2> QED BY <1>0, <1>2, <2>1, <2>2 DEF InStep, KeepsPending
<1>6. CASE SuppressElsewhere \/ TimePasses
  BY <1>2, <1>6 DEF SuppressElsewhere, TimePasses, actions, InStep, KeepsPending
<1> QED BY <1>3, <1>4, <1>5, <1>6, LoneKinds

-----------------------------------------------------------------------------
(* Stops. *)

(* What a commit does to the state.                                        *)
LEMMA StateMoves ==
  ASSUME TypeInv, FollowupAssumption, NEW p \in Procs, Commits1(p)
  PROVE  \/ /\ state' = state
            /\ plan[p][1].do \in {"initialize", "touch", "reserve"} => plan'[p] = <<>> /\ UNCHANGED actions
            /\ plan[p][1].do \notin {"state", "request", "ready"}
         \/ /\ plan[p][1].do \in Setters /\ state' = SetTo(plan[p][1])
            /\ plan'[p] = Tail(plan[p])
<1> DEFINE c == Commit(p)
<1>1. c = plan[p][1] /\ plan \in [Procs -> Seq(Commits)]
  BY CommitMoves, FirstCommit DEF TypeInv
<1>2. Step(p) => plan'[p] = Tail(plan[p])
  BY <1>1 DEF Step
<1>3. Abort(p) => plan'[p] = <<>>
  BY <1>1 DEF Abort
<1> USE DEF Next1, Commit
<1>4. CASE CommitInitialize(p)
  <2>1. c.do = "initialize"
    BY <1>4 DEF CommitInitialize
  <2> HIDE DEF Commit, Next1
  <2>2. \/ state' = "AWAITING_MANUAL_SEND" /\ Step(p)
        \/ state' = state /\ Abort(p) /\ UNCHANGED actions
    BY <1>4 DEF CommitInitialize
  <2> QED BY <1>1, <1>2, <1>3, <2>1, <2>2 DEF Setters, SetTo
<1>5. CASE CommitState(p)
  BY <1>1, <1>2, <1>5 DEF CommitState, Setters, SetTo
<1>6. CASE CommitTouch(p)
  <2>1. c.do = "touch" /\ UNCHANGED actions
    BY <1>6 DEF CommitTouch
  <2> HIDE DEF Commit, Next1
  <2>2. \/ state' = (IF c.n = MaxTouches THEN "CLOSED_NO_RESPONSE" ELSE "WAITING_FOR_REPLY") /\ Step(p)
        \/ state' = state /\ Abort(p)
    BY <1>6 DEF CommitTouch, sequence
  <2> HIDE DEF c
  <2> QED BY <1>1, <1>2, <1>3, <2>1, <2>2 DEF Setters, SetTo
<1>7. CASE CommitReserve(p)
  <2>1. c.do = "reserve"
    BY <1>7 DEF CommitReserve
  <2> HIDE DEF Commit, Next1
  <2>2. \/ state' = "FOLLOWUP_DUE" /\ Step(p)
        \/ state' = state /\ Abort(p) /\ UNCHANGED actions
    BY <1>7 DEF CommitReserve
  <2> QED BY <1>1, <1>2, <1>3, <2>1, <2>2 DEF Setters, SetTo
<1>8. CASE CommitRequest(p)
  BY <1>1, <1>2, <1>8 DEF CommitRequest, Setters, SetTo
<1>9. CASE CommitReady(p)
  BY <1>1, <1>2, <1>9 DEF CommitReady, Setters, SetTo
<1>10. \/ CommitLog(p) \/ CommitConsume(p) \/ CommitCancel(p) \/ CommitInvalidate(p)
       \/ CommitEvent(p) \/ CommitClassify(p) \/ CommitSuppress(p)
       => state' = state /\ c.do \notin Setters
  BY DEF CommitLog, CommitConsume, CommitCancel, CommitInvalidate, CommitEvent, CommitClassify,
    CommitSuppress, sequence, Setters
<1> HIDE DEF Next1, Commit
<1> QED BY <1>1, <1>4, <1>5, <1>6, <1>7, <1>8, <1>9, <1>10 DEF Commits1, Setters

(* Only a written state stops a sequence.                                  *)
LEMMA SetStops ==
  ASSUME NEW c \in Commits, c.do \in Setters, SetTo(c) \in Stopped
  PROVE  c.do = "state" /\ c.to = SetTo(c)
BY DEF Setters, SetTo, Stopped

(* Every step keeps a stopped sequence without anything pending.           *)
LEMMA StopStep ==
  ASSUME TypeInv, FollowupAssumption, ShapeInv, LoneInv, StopInv, [Next]_vars
  PROVE  StopInv'
<1> DEFINE Goal == /\ (state \in Stopped => NothingPending)'
                   /\ \A q \in Procs : StopsClear(plan[q])'
<1> SUFFICES ASSUME ~overlapped'
             PROVE  Goal
  BY DEF StopInv
<1>0. plan \in [Procs -> Seq(Commits)] /\ Len(<<>>) = 0
  BY EmptySeq DEF TypeInv
<1>1. CASE UNCHANGED vars
  BY <1>1 DEF vars, tables, actions, sequence, StopInv, NothingPending, StopsClear
<1> SUFFICES ASSUME Next
             PROVE  Goal
  BY <1>1
<1>2. /\ state \in Stopped => NothingPending
      /\ \A q \in Procs : StopsClear(plan[q])
  BY LoneKinds DEF StopInv
<1>3. ASSUME NEW p \in Procs, NEW s, Fresh(s), Begin(p, s) \/ Rewrites(p, s)
      PROVE  Goal
  <2>1. UNCHANGED <<action, state>> /\ plan' = [plan EXCEPT ![p] = s] /\ StopsClear(s)
    BY <1>3 DEF Begin, Rewrites, tables, actions, sequence, Fresh
  <2>2. \A q \in Procs : plan'[q] = plan[q] \/ plan'[q] = s
    BY <1>0, <2>1
  <2> QED BY <1>2, <2>1, <2>2 DEF NothingPending, StopsClear
<1>4. ASSUME NEW p \in Procs, Commits1(p), \A q \in Procs : q # p => plan[q] = <<>>
      PROVE  Goal
  <2> DEFINE s == plan[p]
  <2>1. /\ s \in Seq(Commits) /\ s # <<>> /\ StopsLast(s) /\ StopsClear(s)
        /\ s[1] \in Commits /\ 1 \in 1..Len(s)
    BY <1>2, <1>4, CommitMoves, FirstCommit DEF ShapeInv, Shape
  <2>2. /\ s[1].do \notin Makers /\ NothingPending => NothingPending'
        /\ s[1].do = "cancel" => NothingPending'
    BY <1>4, ActionsMove
  <2>3. ASSUME state' \in Stopped
        PROVE  NothingPending'
    <3>1. CASE state' = state /\ s[1].do \notin Makers
      BY <1>2, <2>2, <2>3, <3>1
    <3>2. CASE state' = state /\ UNCHANGED actions
      BY <1>2, <2>3, <3>2 DEF actions, NothingPending
    <3>3. CASE s[1].do \in Setters /\ state' = SetTo(s[1])
      <4>1. s[1].do = "state" /\ s[1].to \in Stopped
        BY <2>1, <2>3, <3>3, SetStops
      <4>2. NothingPending
        BY <2>1, <4>1 DEF StopsClear
      <4> QED BY <2>2, <4>1, <4>2 DEF Makers
    <3> QED BY <1>4, <3>1, <3>2, <3>3, StateMoves DEF Makers
  <2>4. ASSUME NEW q \in Procs, plan'[q] = <<>>
        PROVE  StopsClear(plan[q])'
    BY <1>0, <2>4 DEF StopsClear
  <2>5. ASSUME plan'[p] = Tail(s), NEW i \in 1..Len(Tail(s)),
               Tail(s)[i].do = "state", Tail(s)[i].to \in Stopped
        PROVE  NothingPending' \/ \E j \in 1..(i - 1) : Tail(s)[j].do = "cancel"
    <3> DEFINE t == Tail(s)
    <3>1. /\ Len(t) \in Nat /\ \A j \in 1..Len(t) : t[j] = s[j + 1] /\ j + 1 \in 1..Len(s)
      BY <2>1, Rest
    <3>2. s[i + 1].do = "state" /\ s[i + 1].to \in Stopped /\ i + 1 \in 1..Len(s)
      BY <2>5, <3>1
    <3> HIDE DEF s, t
    <3>3. CASE NothingPending
      <4>1. 1 \in 1..((i + 1) - 1)
        OBVIOUS
      <4>2. s[1].do \notin Makers
        BY <2>1, <3>2, <4>1 DEF StopsLast
      <4> QED BY <2>2, <3>3, <4>2
    <3>4. ASSUME NEW j \in 1..((i + 1) - 1), s[j].do = "cancel"
          PROVE  NothingPending' \/ \E k \in 1..(i - 1) : t[k].do = "cancel"
      <4>1. CASE j = 1
        BY <2>2, <3>4, <4>1
      <4>2. CASE j # 1
        <5>1. i <= Len(t)
          BY DEF t
        <5>2. j - 1 \in 1..(i - 1) /\ j - 1 \in 1..Len(t)
          BY <3>1, <4>2, <5>1
        <5>3. t[j - 1] = s[(j - 1) + 1]
          BY <3>1, <5>2
        <5> QED BY <3>4, <5>2, <5>3
      <4> QED BY <4>1, <4>2
    <3> QED BY <2>1, <3>2, <3>3, <3>4 DEF StopsClear, t
  <2>6. ASSUME plan'[p] = Tail(s)
        PROVE  StopsClear(plan[p])'
    BY <2>5, <2>6 DEF StopsClear
  <2> QED BY <1>4, <2>3, <2>4, <2>6, CommitMoves
<1>5. ASSUME NEW p \in Procs, Crash(p)
      PROVE  Goal
  <2>1. UNCHANGED <<action, state>>
    BY <1>5 DEF Crash, tables, actions, sequence
  <2>2. \A q \in Procs : plan'[q] = plan[q] \/ plan'[q] = <<>>
    BY <1>0, <1>5 DEF Crash, Abort
  <2>3. (state \in Stopped => NothingPending)'
    BY <1>2, <2>1 DEF NothingPending
  <2>4. ASSUME NEW q \in Procs
        PROVE  StopsClear(plan[q])'
    <3>1. CASE plan'[q] = plan[q]
      BY <1>2, <2>1, <3>1 DEF NothingPending, StopsClear
    <3>2. CASE plan'[q] = <<>>
      BY <1>0, <3>2 DEF StopsClear
    <3> QED BY <2>2, <3>1, <3>2
  <2> QED BY <2>3, <2>4
<1>6. CASE SuppressElsewhere \/ TimePasses
  BY <1>2, <1>6 DEF SuppressElsewhere, TimePasses, actions, sequence, NothingPending, StopsClear
<1> HIDE DEF Goal
<1> QED BY <1>3, <1>4, <1>5, <1>6, LoneKinds

-----------------------------------------------------------------------------
(* The audit trail. *)

(* A log follows what it logs.                                             *)
LEMMA LogNext ==
  ASSUME NEW s \in Seq(Commits), s # <<>>, LogsFollow(s), LogDue(Tail(s))
  PROVE  s[1].do \in Setters /\ Tail(s)[1].to = SetTo(s[1])
<1> DEFINE t == Tail(s)
<1>1. t \in Seq(Commits) /\ \A i \in 1..Len(t) : t[i] = s[i + 1] /\ i + 1 \in 1..Len(s)
  BY Rest
<1>2. t # <<>> /\ t[1].do = "log"
  BY DEF LogDue
<1>3. 1 \in 1..Len(t)
  BY <1>1, <1>2, Rest
<1> HIDE DEF t
<1>4. t[1] = s[1 + 1] /\ 1 + 1 \in 1..Len(s)
  BY <1>1, <1>3
<1>5. s[(1 + 1) - 1].do \in Setters /\ s[1 + 1].to = SetTo(s[(1 + 1) - 1])
  BY <1>2, <1>4 DEF LogsFollow
<1> QED BY <1>4, <1>5 DEF t

(* What is left of a plan still logs what it writes, in whatever state it  *)
(* is left: a state unlogged for being the present one is written first.   *)
LEMMA RestLogged ==
  ASSUME NEW s \in Seq(Commits), s # <<>>, Logged(s),
         s[1].do \notin Setters => state' = state
  PROVE  \A i \in 1..Len(Tail(s)) : Tail(s)[i].do \in Setters =>
           \/ i + 1 <= Len(Tail(s)) /\ Tail(s)[i + 1].do = "log"
           \/ /\ Tail(s)[i].do = "state" /\ Tail(s)[i].to = state'
              /\ \A j \in 1..(i - 1) : Tail(s)[j].do \notin Setters
<1> DEFINE t == Tail(s)
<1>1. /\ Len(s) \in Nat \ {0} /\ Len(t) = Len(s) - 1
      /\ \A i \in 1..Len(t) : t[i] = s[i + 1] /\ i + 1 \in 1..Len(s)
  BY Rest
<1> SUFFICES ASSUME NEW i \in 1..Len(t), t[i].do \in Setters
             PROVE  \/ i + 1 <= Len(t) /\ t[i + 1].do = "log"
                    \/ /\ t[i].do = "state" /\ t[i].to = state'
                       /\ \A j \in 1..(i - 1) : t[j].do \notin Setters
  OBVIOUS
<1> HIDE DEF t
<1>2. s[i + 1].do \in Setters /\ t[i] = s[i + 1] /\ i + 1 \in 1..Len(s)
  BY <1>1
<1>3. \/ (i + 1) + 1 <= Len(s) /\ s[(i + 1) + 1].do = "log"
      \/ /\ s[i + 1].do = "state" /\ s[i + 1].to = state
         /\ \A j \in 1..((i + 1) - 1) : s[j].do \notin Setters
  BY <1>2 DEF Logged
<1>4. CASE (i + 1) + 1 <= Len(s) /\ s[(i + 1) + 1].do = "log"
  <2>1. i + 1 \in 1..Len(t)
    BY <1>1, <1>4
  <2> QED BY <1>1, <1>4, <2>1
<1>5. CASE /\ s[i + 1].do = "state" /\ s[i + 1].to = state
           /\ \A j \in 1..((i + 1) - 1) : s[j].do \notin Setters
  <2>1. s[1].do \notin Setters
    BY <1>5
  <2>2. ASSUME NEW j \in 1..(i - 1)
        PROVE  t[j].do \notin Setters
    <3>1. j \in 1..Len(t) /\ j + 1 \in 1..((i + 1) - 1)
      BY <1>1
    <3> QED BY <1>1, <1>5, <3>1
  <2> QED BY <1>2, <1>5, <2>1, <2>2
<1> QED BY <1>3, <1>4, <1>5

(* What a commit does to the audit trail.                                  *)
LEMMA AuditMoves ==
  ASSUME TypeInv, FollowupAssumption, NEW p \in Procs, Commits1(p)
  PROVE  IF plan[p][1].do = "log" THEN audited' = plan[p][1].to /\ plan'[p] = Tail(plan[p])
                                  ELSE audited' = audited
<1> DEFINE c == Commit(p)
<1>1. c = plan[p][1] /\ plan \in [Procs -> Seq(Commits)]
  BY CommitMoves, FirstCommit DEF TypeInv
<1>2. CASE CommitLog(p)
  BY <1>1, <1>2 DEF CommitLog, Next1, Commit, Step
<1>3. CASE ~CommitLog(p)
  <2>1. audited' = audited /\ c.do # "log"
    BY <1>3 DEF Commits1, CommitInitialize, CommitState, CommitTouch, CommitConsume,
      CommitCancel, CommitReserve, CommitInvalidate, CommitRequest, CommitReady, CommitEvent,
      CommitClassify, CommitSuppress, Next1, Commit
  <2> QED BY <1>1, <2>1
<1> QED BY <1>2, <1>3

(* The audit trail and a plan: nothing is left to log but what it will.    *)
Trail(s) ==
  s # <<>> =>
    /\ Logged(s)
    /\ IF LogDue(s) THEN s[1].to = state ELSE audited = state

(* Every step keeps the audit trail.                                       *)
LEMMA AuditStep ==
  ASSUME TypeInv, FollowupAssumption, ShapeInv, LoneInv, AuditInv, [Next]_vars
  PROVE  AuditInv'
<1> DEFINE Goal == /\ (Quiet => audited = state)'
                   /\ \A q \in Procs : Trail(plan[q])'
<1> SUFFICES ASSUME crashes' = 0, ~overlapped'
             PROVE  Goal
  BY DEF AuditInv, Trail
<1>0. plan \in [Procs -> Seq(Commits)] /\ crashes \in Nat
  BY DEF TypeInv, TypeOK
<1>1. CASE UNCHANGED vars
  BY <1>1 DEF vars, tables, sequence, AuditInv, Quiet, Idle, Trail, Logged, LogDue
<1> SUFFICES ASSUME Next
             PROVE  Goal
  BY <1>1
<1>a. ~overlapped
  BY LoneKinds
<1>2. ASSUME crashes = 0
      PROVE  (Quiet => audited = state) /\ \A q \in Procs : Trail(plan[q])
  BY <1>2, <1>a DEF AuditInv, Trail
<1>3. ASSUME NEW p \in Procs, NEW s, Fresh(s), Begin(p, s), Quiet
      PROVE  Goal
  <2>1. /\ UNCHANGED <<state, audited>> /\ crashes = 0
        /\ plan' = [plan EXCEPT ![p] = s] /\ Logged(s) /\ ~LogDue(s)
    BY <1>3 DEF Begin, tables, sequence, Fresh
  <2>2. audited = state
    BY <1>2, <1>3, <2>1
  <2>3. \A q \in Procs : plan'[q] = <<>> \/ plan'[q] = s
    BY <1>0, <1>3, <2>1 DEF Quiet, Idle
  <2>4. ASSUME NEW q \in Procs, plan'[q] = s
        PROVE  Trail(plan[q])'
    BY <2>1, <2>2, <2>4 DEF Trail, Logged, LogDue
  <2> QED BY <2>1, <2>2, <2>3, <2>4 DEF Trail
<1>4. ASSUME NEW p \in Procs, NEW s, Fresh(s), Rewrites(p, s), \A q \in Procs : q # p => plan[q] = <<>>
      PROVE  Goal
  <2>1. /\ UNCHANGED <<state, audited>> /\ crashes = 0 /\ plan[p] # <<>>
        /\ plan[p][1].do \in {"recheck", "apply"}
        /\ plan' = [plan EXCEPT ![p] = s] /\ Logged(s) /\ ~LogDue(s)
    BY <1>4 DEF Rewrites, tables, sequence, Fresh, Idle
  <2>2. audited = state
    BY <1>2, <2>1 DEF Trail, LogDue
  <2>3. \A q \in Procs : plan'[q] = <<>> \/ plan'[q] = s
    BY <1>0, <1>4, <2>1
  <2>4. ASSUME NEW q \in Procs, plan'[q] = s
        PROVE  Trail(plan[q])'
    BY <2>1, <2>2, <2>4 DEF Trail, Logged, LogDue
  <2> QED BY <2>1, <2>2, <2>3, <2>4 DEF Trail
<1>5. ASSUME NEW p \in Procs, Commits1(p), \A q \in Procs : q # p => plan[q] = <<>>
      PROVE  Goal
  <2> DEFINE s == plan[p]
             t == Tail(s)
  <2>1. s \in Seq(Commits) /\ s # <<>> /\ LogsFollow(s) /\ s[1] \in Commits /\ 1 \in 1..Len(s)
    BY <1>5, CommitMoves, FirstCommit DEF ShapeInv, Shape
  <2>2. Logged(s) /\ IF s[1].do = "log" THEN s[1].to = state ELSE audited = state
    <3>1. crashes = 0
      BY <1>5, CommitMoves
    <3> QED BY <1>2, <2>1, <3>1 DEF Trail, LogDue
  <2>3. \A q \in Procs : q # p => plan'[q] = <<>>
    BY <1>5, CommitMoves
  <2>4. CASE plan'[p] = <<>> /\ t # <<>>
    <3>1. audited' = audited /\ state' = state /\ s[1].do # "log"
      BY <1>5, <2>4, AuditMoves, StateMoves
    <3> QED BY <2>2, <2>3, <2>4, <3>1 DEF Trail
  <2>5. CASE plan'[p] = t
    <3>1. /\ s[1].do = "log" => audited' = state /\ state' = state
          /\ s[1].do # "log" => audited' = audited
          /\ s[1].do \notin Setters => state' = state
      BY <1>5, <2>2, AuditMoves, StateMoves DEF Setters
    <3>2. LogDue(t) => s[1].do \in Setters /\ t[1].to = SetTo(s[1])
      BY <2>1, LogNext
    <3>3. s[1].do \in Setters /\ LogDue(t) => state' = SetTo(s[1])
      BY <1>5, <2>5, StateMoves DEF LogDue, Setters
    <3>4. ASSUME s[1].do \in Setters, ~LogDue(t)
          PROVE  state' = state
      <4>1. s[1].do = "state" /\ s[1].to = state
        <5>1. CASE 1 + 1 <= Len(s) /\ s[1 + 1].do = "log"
          <6>1. Len(t) = Len(s) - 1 /\ Len(s) \in Nat /\ \A i \in 1..Len(t) : t[i] = s[i + 1]
            BY <2>1, Rest
          <6>2. t[1] = s[1 + 1] /\ Len(t) # 0
            BY <5>1, <6>1
          <6>3. t # <<>>
            <7> HIDE DEF t
            <7> QED BY <6>2, EmptySeq
          <6> QED BY <3>4, <5>1, <6>2, <6>3 DEF LogDue
        <5>2. \/ 1 + 1 <= Len(s) /\ s[1 + 1].do = "log"
              \/ s[1].do = "state" /\ s[1].to = state
          <6> HIDE DEF s
          <6> QED BY <2>1, <2>2, <3>4 DEF Logged
        <5> QED BY <5>1, <5>2
      <4> QED BY <1>5, <4>1, StateMoves DEF SetTo
    <3>5. IF LogDue(t) THEN t[1].to = state' ELSE audited' = state'
      <4>1. CASE LogDue(t)
        BY <3>2, <3>3, <4>1
      <4>2. CASE ~LogDue(t) /\ s[1].do = "log"
        BY <3>1, <4>2
      <4>3. CASE ~LogDue(t) /\ s[1].do # "log"
        BY <2>2, <3>1, <3>4, <4>3
      <4> QED BY <4>1, <4>2, <4>3
    <3>6. \A i \in 1..Len(t) : t[i].do \in Setters =>
            \/ i + 1 <= Len(t) /\ t[i + 1].do = "log"
            \/ /\ t[i].do = "state" /\ t[i].to = state'
               /\ \A j \in 1..(i - 1) : t[j].do \notin Setters
      BY <2>1, <2>2, <3>1, RestLogged
    <3>7. t = <<>> => ~LogDue(t)
      BY DEF LogDue
    <3>8. plan'[p] = t
      BY <2>5
    <3> HIDE DEF s, t
    <3>9. Trail(plan[p])'
      BY <3>5, <3>6, <3>8 DEF Trail, Logged, LogDue
    <3>10. (Quiet => audited = state)'
      BY <3>5, <3>7, <3>8 DEF Quiet, Idle
    <3>11. \A q \in Procs : Trail(plan[q])'
      BY <2>3, <3>9 DEF Trail
    <3> QED BY <3>10, <3>11
  <2> QED BY <1>5, <2>4, <2>5, CommitMoves
<1>6. CASE \E p \in Procs : Crash(p)
  BY <1>0, <1>6 DEF Crash
<1>7. CASE SuppressElsewhere \/ TimePasses
  <2>1. UNCHANGED <<state, audited, plan>> /\ crashes = 0
    BY <1>7 DEF SuppressElsewhere, TimePasses, sequence
  <2> QED BY <1>2, <2>1 DEF Quiet, Idle, Trail, Logged, LogDue
<1> HIDE DEF Goal
<1> QED BY <1>3, <1>4, <1>5, <1>6, <1>7, LoneKinds

-----------------------------------------------------------------------------
(* Opt-outs and hard bounces. *)

(* What a commit does to the replies and the suppression.                  *)
LEMMA RepliesMove ==
  ASSUME TypeInv, NEW p \in Procs, Commits1(p)
  PROVE  /\ suppressed => suppressed'
         /\ plan[p][1].do = "suppress" => suppressed'
         /\ plan[p][1].do \notin {"event", "classify"} => reply' = reply
         /\ plan[p][1].do \in {"event", "classify"} =>
              \/ reply' = reply
              \/ /\ plan'[p] = Tail(plan[p])
                 /\ reply' = [reply EXCEPT ![plan[p][1].reply] = plan[p][1].kind]
         /\ plan[p][1].do \in {"cancel", "classify"} => plan'[p] = Tail(plan[p])
<1> DEFINE c == Commit(p)
<1>1. c = plan[p][1] /\ plan \in [Procs -> Seq(Commits)]
  BY CommitMoves, FirstCommit DEF TypeInv
<1>2. Step(p) => plan'[p] = Tail(plan[p])
  BY <1>1 DEF Step
<1>3. CASE CommitEvent(p)
  BY <1>1, <1>2, <1>3 DEF CommitEvent, Next1, Commit
<1>4. CASE CommitClassify(p)
  BY <1>1, <1>2, <1>4 DEF CommitClassify, Next1, Commit
<1>5. CASE CommitSuppress(p)
  BY <1>1, <1>5 DEF CommitSuppress, Next1, Commit
<1>6. CASE CommitCancel(p)
  BY <1>1, <1>2, <1>6 DEF CommitCancel, Next1, Commit, events
<1>7. CASE ~(CommitEvent(p) \/ CommitClassify(p) \/ CommitSuppress(p) \/ CommitCancel(p))
  <2>1. UNCHANGED events /\ c.do \notin {"event", "classify", "suppress", "cancel"}
    BY <1>7 DEF Commits1, CommitInitialize, CommitState, CommitLog, CommitTouch, CommitConsume,
      CommitReserve, CommitInvalidate, CommitRequest, CommitReady, Next1, Commit
  <2> QED BY <1>1, <2>1 DEF events
<1> QED BY <1>3, <1>4, <1>5, <1>6, <1>7

(* A reply that overrides is answered for: the lead is suppressed, or a    *)
(* call is about to suppress it or to apply the reply.                     *)
Answered(r) == suppressed \/ \E q \in Procs : Suppressing(plan[q]) \/ Applying(plan[q], r)

(* Every step keeps the overriding replies answered.                       *)
LEMMA SuppressStep ==
  ASSUME TypeInv, FollowupAssumption, ShapeInv, SuppressInv, [Next]_vars
  PROVE  SuppressInv'
<1> SUFFICES ASSUME crashes' = 0, NEW r \in Replies, reply'[r] # NoReply, Overrides(reply'[r])
             PROVE  Answered(r)'
  BY DEF SuppressInv, Answered
<1>0. /\ plan \in [Procs -> Seq(Commits)] /\ crashes \in Nat
      /\ reply \in [Replies -> AnyKind \union {NoReply}]
  BY DEF TypeInv, TypeOK
<1>1. ASSUME crashes = 0, reply'[r] = reply[r]
      PROVE  Answered(r)
  BY <1>1 DEF SuppressInv, Answered
<1>2. ASSUME NEW p \in Procs, NEW s, Begin(p, s)
      PROVE  Answered(r)'
  <2>1. /\ crashes = 0 /\ reply' = reply /\ suppressed' = suppressed
        /\ plan[p] = <<>> /\ \A q \in Procs : q # p => plan'[q] = plan[q]
    BY <1>0, <1>2 DEF Begin, Idle, tables, events
  <2>2. Answered(r)
    BY <1>1, <2>1
  <2> QED BY <2>1, <2>2 DEF Answered, Suppressing, Applying
<1>3. ASSUME NEW p \in Procs, NEW s, Rewrites(p, s)
      PROVE  Answered(r)'
  <2>1. /\ crashes = 0 /\ reply' = reply /\ suppressed' = suppressed
        /\ plan'[p] = s /\ \A q \in Procs : q # p => plan'[q] = plan[q]
        /\ plan[p][1].do \in {"recheck", "apply"}
        /\ plan[p][1].do = "apply" /\ Overrides(reply[plan[p][1].reply]) => Suppressing(s)
    BY <1>0, <1>3 DEF Rewrites, tables, events
  <2>2. Answered(r)
    BY <1>1, <2>1
  <2>3. CASE Applying(plan[p], r)
    BY <2>1, <2>3 DEF Answered, Applying
  <2> QED BY <2>1, <2>2, <2>3 DEF Answered, Suppressing
<1>4. ASSUME NEW p \in Procs, Commits1(p)
      PROVE  Answered(r)'
  <2> DEFINE s == plan[p]
             t == Tail(s)
  <2>1. /\ crashes = 0 /\ s \in Seq(Commits) /\ s # <<>> /\ s[1] \in Commits
        /\ EventsLead(s) /\ ApplyFollows(s) /\ 1 \in 1..Len(s)
        /\ \A q \in Procs : q # p => plan'[q] = plan[q]
    BY <1>4, CommitMoves, FirstCommit DEF ShapeInv, Shape
  <2>2. /\ suppressed => suppressed'
        /\ s[1].do = "suppress" => suppressed'
        /\ s[1].do \notin {"event", "classify"} => reply' = reply
        /\ s[1].do \in {"event", "classify"} =>
             \/ reply' = reply
             \/ plan'[p] = t /\ reply' = [reply EXCEPT ![s[1].reply] = s[1].kind]
        /\ s[1].do \in {"cancel", "classify"} => plan'[p] = t
    BY <1>4, RepliesMove
  <2>3. /\ Len(s) \in Nat \ {0} /\ Len(t) = Len(s) - 1
        /\ \A i \in 1..Len(t) : t[i] = s[i + 1]
    BY <2>1, Rest
  <2>4. CASE reply'[r] # reply[r]
    <3>1. s[1].do \in {"event", "classify"} /\ s[1].reply = r /\ reply'[r] = s[1].kind /\ plan'[p] = t
      BY <1>0, <2>1, <2>2, <2>4, CommitFields
    <3>2. CASE s[1].do = "event"
      <4>1. 1 + 2 <= Len(s) /\ s[1 + 1].do = "cancel" /\ s[1 + 2].do = "suppress"
        BY <2>1, <3>1, <3>2 DEF EventsLead
      <4>2. 2 <= Len(t) /\ t[1].do = "cancel" /\ t[2].do = "suppress"
        BY <2>3, <4>1
      <4>3. t # <<>>
        <5> HIDE DEF t
        <5> QED BY <4>2, EmptySeq
      <4> HIDE DEF s, t
      <4> QED BY <3>1, <4>2, <4>3 DEF Answered, Suppressing
    <3>3. CASE s[1].do = "classify"
      <4>1. 1 + 1 <= Len(s) /\ s[1 + 1].do = "apply" /\ s[1 + 1].reply = s[1].reply
        BY <2>1, <3>3 DEF ApplyFollows
      <4>2. 1 <= Len(t) /\ t[1].do = "apply" /\ t[1].reply = r
        BY <2>3, <3>1, <4>1
      <4>3. t # <<>>
        <5> HIDE DEF t
        <5> QED BY <4>2, EmptySeq
      <4> HIDE DEF s, t
      <4> QED BY <3>1, <4>2, <4>3 DEF Answered, Applying
    <3> QED BY <3>1, <3>2, <3>3
  <2>5. CASE reply'[r] = reply[r]
    <3>1. Answered(r)
      BY <1>1, <2>1, <2>5
    <3>2. CASE suppressed
      BY <2>2, <3>2 DEF Answered
    <3>3. ASSUME NEW q \in Procs, q # p, Suppressing(plan[q]) \/ Applying(plan[q], r)
          PROVE  Answered(r)'
      BY <2>1, <3>3 DEF Answered
    <3>4. CASE Suppressing(s)
      <4>1. CASE s[1].do = "suppress"
        BY <2>2, <4>1 DEF Answered
      <4>2. CASE s[1].do = "cancel" /\ 2 <= Len(s) /\ s[2].do = "suppress"
        <5>1. 1 <= Len(t) /\ t[1].do = "suppress" /\ plan'[p] = t
          BY <2>2, <2>3, <4>2
        <5>2. t # <<>>
          <6> HIDE DEF t
          <6> QED BY <5>1, EmptySeq
        <5> HIDE DEF s, t
        <5> QED BY <5>1, <5>2 DEF Answered, Suppressing
      <4> QED BY <3>4, <4>1, <4>2 DEF Suppressing
    <3>5. ~Applying(s, r)
      BY <1>4 DEF Commits1, CommitInitialize, CommitState, CommitLog, CommitTouch, CommitConsume,
        CommitCancel, CommitReserve, CommitInvalidate, CommitRequest, CommitReady, CommitEvent,
        CommitClassify, CommitSuppress, Next1, Applying
    <3> QED BY <3>1, <3>2, <3>3, <3>4, <3>5 DEF Answered
  <2> QED BY <2>4, <2>5
<1>5. CASE \E p \in Procs : Crash(p)
  BY <1>0, <1>5 DEF Crash
<1>6. CASE SuppressElsewhere
  BY <1>6 DEF SuppressElsewhere, Answered
<1>7. CASE TimePasses \/ UNCHANGED vars
  <2>1. reply' = reply /\ suppressed' = suppressed /\ plan' = plan /\ crashes = 0
    BY <1>7 DEF TimePasses, vars, tables, events
  <2> QED BY <1>1, <2>1 DEF Answered
<1> QED BY <1>2, <1>3, <1>4, <1>5, <1>6, <1>7, NextKinds

-----------------------------------------------------------------------------
(* The theorems. *)

(* The invariant holds at the start.                                       *)
LEMMA InitInv == Init /\ FollowupAssumption => SequenceInv
<1> SUFFICES ASSUME Init, FollowupAssumption
             PROVE  SequenceInv
  OBVIOUS
<1>1. \A p \in Procs : plan[p] = <<>>
  BY DEF Init
<1>2. Fresh(<<>>) /\ Len(<<>>) = 0 /\ <<>> \in Seq(Commits)
  BY FreshEmpty, EmptySeq
<1>3. TypeInv
  <2>1. TypeOK
    <3>1. touches \in [1..MaxTouches -> Nat] /\ count \in 0..MaxTouches
      BY DEF Init, FollowupAssumption
    <3>2. action \in [Followups -> ActionStates] /\ reservation \in [Followups -> ReservationStates]
      BY DEF Init, ActionStates, ReservationStates
    <3> QED BY <3>1, <3>2 DEF Init, TypeOK, States
  <2>2. reply \in [Replies -> AnyKind \union {NoReply}] /\ plan \in [Procs -> Seq(Commits)]
    BY <1>2 DEF Init
  <2> QED BY <1>1, <1>2, <2>1, <2>2 DEF TypeInv, Fresh
<1>4. ShapeInv
  BY <1>1, <1>2 DEF ShapeInv, Fresh
<1>5. TouchInv
  <2>1. \A p \in Procs : Counted(plan[p])
    BY <1>1, <1>2 DEF Fresh
  <2>2. TouchesCounted
    BY DEF Init, TouchesCounted
  <2> QED BY <2>1, <2>2 DEF TouchInv
<1>6. LoneInv
  BY <1>1 DEF LoneInv
<1>7. SlotInv
  <2>1. \A n \in Followups : reservation[n] = "RESERVED" <=> action[n] \in Pending
    BY DEF Init, Pending
  <2> QED BY <1>1, <1>2, <2>1 DEF SlotInv, Fresh
<1>8. StopInv
  BY <1>1, <1>2 DEF StopInv, Fresh, Init, Stopped
<1>9. AuditInv
  BY <1>1 DEF AuditInv, Init
<1>10. SuppressInv
  BY DEF SuppressInv, Init
<1> QED BY <1>3, <1>4, <1>5, <1>6, <1>7, <1>8, <1>9, <1>10 DEF SequenceInv

(* Every step keeps it.                                                    *)
LEMMA InvStep == FollowupAssumption /\ SequenceInv /\ [Next]_vars => SequenceInv'
BY TypesStep, ShapeStep, TouchStep, LoneStep, SlotStep, StopStep, AuditStep, SuppressStep
DEF SequenceInv

(* In every behaviour of the follow-ups, with any calls in any order and   *)
(* with deaths between any two commits, the inductive invariant holds.     *)
THEOREM SequenceHolds == Spec => []SequenceInv
BY InitInv, InvStep, FollowupAssumption, PTL DEF Spec

(* The sequence's row, its touches, actions, reservations and replies have *)
(* their types: each commit writes what its call could have read.          *)
THEOREM TypesHold == Spec => []TypeOK
<1>1. SequenceInv => TypeOK
  BY DEF SequenceInv, TypeInv
<1> QED BY <1>1, SequenceHolds, PTL

(* The rows of a sequence are in step: touches are numbered without a gap  *)
(* however calls overlap; without overlap a slot of the daily capacity is  *)
(* held exactly for a pending action, and a sequence that a reply stopped  *)
(* has none, also when a call dies between two commits.                    *)
THEOREM RowsInStepHolds == Spec => []RowsInStep
<1>1. SequenceInv => RowsInStep
  BY DEF SequenceInv, TypeInv, TouchInv, SlotInv, StopInv, RowsInStep,
    StoppedMeansNothingPending, SlotsForPending, Stopped, NothingPending, Pending
<1> QED BY <1>1, SequenceHolds, PTL

(* When calls do not overlap and none dies, the last row of the audit      *)
(* trail tells the state the sequence is in whenever no call is under way. *)
THEOREM AuditCompleteHolds == Spec => []AuditComplete
<1>1. SequenceInv => AuditComplete
  BY DEF SequenceInv, AuditInv, AuditComplete
<1> QED BY <1>1, SequenceHolds, PTL

(* A reply that opts out, or a hard bounce, suppresses the lead however    *)
(* calls overlap and whatever state the sequence is in, unless one dies.   *)
THEOREM OptOutSuppressesHolds == Spec => []OptOutSuppresses
<1>1. ASSUME SequenceInv, Quiet, crashes = 0, NEW r \in Replies,
             reply[r] # NoReply, reply[r].cat \in {"OPT_OUT", "HARD_BOUNCE"}
      PROVE  suppressed
  BY <1>1 DEF SequenceInv, SuppressInv, Overrides, Quiet, Idle, Suppressing, Applying
<1>2. SequenceInv => OptOutSuppresses
  BY <1>1 DEF OptOutSuppresses
<1> QED BY <1>2, SequenceHolds, PTL

(* Once the lead is suppressed and the send that was under way is over, no *)
(* step records a touch or begins a call that will.                        *)
THEOREM NoTouchAfterSuppressionHolds == Spec => NoTouchAfterSuppression
<1>1. ASSUME TypeInv, FollowupAssumption, [Next]_vars, suppressed, ~TouchUnderWay
      PROVE  count' = count /\ ~TouchUnderWay'
  <2>1. \A p \in Procs : plan[p] \in Seq(Commits) /\ plan'[p] \in Seq(Commits)
    BY <1>1, TypesStep DEF TypeInv
  <2>2. \A p \in Procs : \A i \in 1..Len(plan[p]) : plan[p][i].do # "touch"
    BY <1>1, <2>1, LenProperties DEF TouchUnderWay
  <2>3. ASSUME NEW p \in Procs
        PROVE  ~CommitTouch(p)
    BY <1>1, <2>2, FirstCommit DEF CommitTouch, Next1, Commit
  <2>4. ASSUME NEW p \in Procs, NEW i \in 1..Len(plan'[p]), plan'[p][i].do = "touch"
        PROVE  FALSE
    <3>1. ~Fresh(plan'[p])
      BY <1>1, <2>4 DEF Fresh, NoLateTouch
    <3>2. PICK j \in 1..Len(plan[p]) : plan'[p][i] = plan[p][j]
      BY <1>1, <3>1, CommitsMove
    <3> QED BY <2>2, <2>4, <3>2
  <2>5. ~TouchUnderWay'
    BY <2>1, <2>4, LenProperties DEF TouchUnderWay
  <2> QED BY <1>1, <2>3, <2>5, CountMoves
<1>2. SequenceInv => TypeInv
  BY DEF SequenceInv
<1>3. FollowupAssumption /\ TypeInv /\ [Next]_vars
      => [suppressed /\ ~TouchUnderWay => count' = count /\ ~TouchUnderWay']_vars
  BY <1>1
<1> QED BY <1>2, <1>3, SequenceHolds, FollowupAssumption, PTL DEF Spec, NoTouchAfterSuppression
=============================================================================
