---------------------------- MODULE DraftingProofs ----------------------------
(***************************************************************************)
(* Drafting for every set of packets, providers' answers and callers, and  *)
(* every bound.  Calls of the provider are bounded because an attempt is   *)
(* committed before its call under a number nobody else has (AttemptInv),  *)
(* so that a run has as many attempts as calls (CallInv); the versions are *)
(* in order because one that is read early is either refused by the index  *)
(* or still the next (VersionInv).                                         *)
(***************************************************************************)
EXTENDS Drafting, SequenceTheorems, FiniteSetTheorems, TLAPS

PacketStates == {"READY", "NOT_READY", "INVALIDATED", "EXPIRED"}
Packets ==
  [rev : {Snapshot(q) : q \in Recalls},
   texts : {{r.text : r \in Records(q, Snapshot(q))} : q \in Recalls},
   fresh : BOOLEAN, state : PacketStates]

Fingerprints ==
  [packet : {Hash(q) : q \in Packets} \union {None}, evidence : SUBSET Evidence,
   offered : BOOLEAN, request : Nat]
RunStates ==
  {"READY_FOR_GENERATION", "BLOCKED", "GENERATED", "REVIEW_PENDING", "HOLD_FOR_REVIEW",
   "ERROR_RETRYABLE", "ERROR_TERMINAL"}
Outcomes == {"STARTED", "SUCCEEDED", "FAILED"}
RunRows  == [state : RunStates, tries : Seq(Outcomes), draft : Nat]
Requests ==
  [source : Fingerprints, status : {"REQUESTED", "COMPLETED"},
   run : Fingerprints \union {None}]
Callers ==
  [pc : {"idle", "hold", "start", "called", "fail", "store"}, run : Fingerprints \union {None},
   seen : Nat, version : Nat]

(* The rows and the callers have their types, and refer to rows there are. *)
PacketInv == packets \in Seq(Packets) /\ \A i, j \in Ready : i = j
RunInv ==
  /\ DOMAIN runs \subseteq Fingerprints /\ IsFiniteSet(DOMAIN runs)
  /\ runs \in [DOMAIN runs -> RunRows]
  /\ evidence \subseteq Evidence /\ fit \in BOOLEAN
RequestInv ==
  /\ redraft \in Seq(Requests)
  /\ \A f \in DOMAIN runs : f.request <= Len(redraft)
  /\ \A k \in 1..Len(redraft) :
       /\ redraft[k].source \in Drafted
       /\ redraft[k].status = "COMPLETED" => redraft[k].run \in Drafted
CallerInv ==
  /\ at \in [Procs -> Callers]
  /\ \A p \in Procs : IF at[p].pc = "idle" THEN at[p] = Idle ELSE at[p].run \in DOMAIN runs

(* An attempt is a call; nobody knows of an attempt that was not made, and *)
(* an attempt that is under way has no outcome and one caller.             *)
Tries(p) == runs[at[p].run].tries
CallInv ==
  /\ calls \in [DOMAIN runs -> Nat]
  /\ \A f \in DOMAIN runs : calls[f] = Len(runs[f].tries) /\ calls[f] <= MaxAttempts
  /\ \A p \in Procs : at[p].pc # "idle" => at[p].seen <= Len(Tries(p))
AttemptInv ==
  /\ \A p \in Procs :
       /\ at[p].pc \in {"called", "store"} => at[p].seen # 0
       /\ at[p].pc = "called" => Tries(p)[at[p].seen] = "STARTED"
       /\ at[p].pc = "store" => Tries(p)[at[p].seen] = "SUCCEEDED"
  /\ \A p, q \in Procs :
       at[p].pc = "called" /\ at[q].pc = "called" /\ at[p].run = at[q].run
         /\ at[p].seen = at[q].seen => p = q

(* A version that is about to be given was free or the next when read.     *)
VersionInv ==
  /\ DraftsNumbered /\ RedraftIsNewer
  /\ \A p \in Procs : at[p].pc = "store" => at[p].version \in 1..NextVersion

DraftingInv ==
  /\ PacketInv /\ RunInv /\ RequestInv /\ CallerInv /\ CallInv /\ AttemptInv /\ VersionInv

-----------------------------------------------------------------------------
(* Sequences and functions. *)

(* A sequence rewritten in place is a sequence of the same length.         *)
LEMMA Rewritten ==
  ASSUME NEW S, NEW s \in Seq(S), NEW t, t = [i \in DOMAIN s |-> t[i]],
         \A i \in DOMAIN s : t[i] \in S
  PROVE  t \in Seq(S) /\ Len(t) = Len(s) /\ DOMAIN t = DOMAIN s
<1>1. Len(s) \in Nat /\ DOMAIN s = 1..Len(s)
  BY LenProperties
<1>2. t \in [1..Len(s) -> S]
  BY <1>1
<1> QED BY <1>1, <1>2, IsASeq, LenProperties

(* Append leaves what there was.                                           *)
LEMMA Appended ==
  ASSUME NEW S, NEW s \in Seq(S), NEW e \in S, NEW t, t = Append(s, e)
  PROVE  /\ t \in Seq(S) /\ Len(t) = Len(s) + 1 /\ t[Len(s) + 1] = e
         /\ \A i \in 1..Len(s) : t[i] = s[i]
BY AppendProperties

-----------------------------------------------------------------------------
(* Packets. *)

(* Every packet stays or loses its force, and one may be added, which is   *)
(* ready only when none else stays so.                                     *)
PacketsKept ==
  /\ packets' = [i \in DOMAIN packets |-> packets'[i]]
  /\ \A i \in DOMAIN packets : packets'[i] \in Packets /\ (packets'[i].state = "READY" => i \in Ready)
PacketAdded ==
  \E gone \in Seq(Packets), new \in Packets :
    /\ packets' = Append(gone, new) /\ Len(gone) = Len(packets)
    /\ \A i \in 1..Len(gone) : gone[i].state = "READY" => i \in Ready /\ new.state # "READY"

(* A packet that is marked in any of the ways the code marks one is a      *)
(* packet, and no mark makes one READY.                                    *)
LEMMA PacketFields ==
  ASSUME NEW q \in Packets
  PROVE  /\ q.rev \in {Snapshot(r) : r \in Recalls} /\ q.fresh \in BOOLEAN /\ q.state \in PacketStates
         /\ Invalid(q) \in Packets /\ Invalid(q).state # "READY"
         /\ [q EXCEPT !.state = "EXPIRED"] \in Packets
         /\ [q EXCEPT !.state = "EXPIRED"].state # "READY"
         /\ Expired(q) \in Packets /\ (Expired(q).state = "READY" => q.state = "READY")
         /\ [q EXCEPT !.fresh = FALSE] \in Packets /\ [q EXCEPT !.fresh = FALSE].state = q.state
         /\ Invalid(q).rev = q.rev /\ Invalid(q).texts = q.texts
BY DEF Packets, PacketStates, Invalid, Expired

(* build_context_packet invalidates what could be READY beside the packet  *)
(* it adds.                                                                *)
LEMMA BuildMoves ==
  ASSUME PacketsAssumption, PacketInv, NEW q \in Recalls, BuildPacket(q)
  PROVE  PacketsKept \/ PacketAdded
<1> DEFINE rev  == Snapshot(q)
           new  == [rev |-> rev, texts |-> {r.text : r \in Records(q, rev)}, fresh |-> TRUE,
                    state |-> IF Whole(Records(q, rev)) THEN "READY" ELSE "NOT_READY"]
           rest == [i \in DOMAIN packets |->
                      IF Supersedes(packets[i], new) THEN Invalid(packets[i]) ELSE packets[i]]
           gone == [i \in DOMAIN rest |->
                      IF rest[i].rev = rev /\ Live(rest[i]) THEN Invalid(rest[i]) ELSE rest[i]]
<1>1. packets \in Seq(Packets)
  BY DEF PacketInv
<1>2. packets' = rest \/ packets' = Append(gone, new)
  BY DEF BuildPacket
<1>3. new \in Packets /\ new.rev = rev
  BY DEF Packets, PacketStates
<1>4. new.state = "READY" => rev # None
  <2>1. rev = None => Records(q, rev) = {}
    BY DEF Records, Accepted
  <2>2. ~Whole({})
    BY DEF Whole, PacketsAssumption
  <2> QED BY <2>1, <2>2
<1> HIDE DEF new
<1>5. \A i \in DOMAIN packets : packets[i] \in Packets
  BY <1>1, ElementOfSeq, LenProperties
<1>6. ASSUME NEW i \in DOMAIN packets
      PROVE  /\ rest[i] \in Packets /\ (rest[i].state = "READY" => rest[i] = packets[i])
             /\ rest[i].state = "READY" => ~Supersedes(packets[i], new)
  BY <1>5, <1>6, PacketFields
<1>7. rest \in Seq(Packets) /\ Len(rest) = Len(packets) /\ DOMAIN rest = DOMAIN packets
  BY <1>1, <1>6, Rewritten
<1> HIDE DEF rest
<1>8. ASSUME NEW i \in DOMAIN packets
      PROVE  /\ gone[i] \in Packets
             /\ gone[i].state = "READY" => rest[i].state = "READY" /\ rest[i].rev # rev
  BY <1>6, <1>7, <1>8, PacketFields DEF Live
<1>9. gone \in Seq(Packets) /\ Len(gone) = Len(packets)
  BY <1>7, <1>8, Rewritten
<1> HIDE DEF gone
<1>10. CASE packets' = rest
  <2>1. packets' = [i \in DOMAIN packets |-> packets'[i]]
    BY <1>10 DEF rest
  <2> QED BY <1>6, <1>10, <2>1 DEF PacketsKept, Ready
<1>11. CASE packets' = Append(gone, new)
  <2>1. ASSUME NEW i \in 1..Len(gone), gone[i].state = "READY"
        PROVE  i \in Ready /\ new.state # "READY"
    <3>1. i \in DOMAIN packets
      BY <1>1, <1>9, LenProperties
    <3>2. packets[i].state = "READY" /\ packets[i].rev # rev /\ ~Supersedes(packets[i], new)
      BY <1>6, <1>8, <2>1, <3>1
    <3> QED BY <1>3, <1>4, <3>1, <3>2 DEF Supersedes, Live, Ready
  <2> QED BY <1>3, <1>9, <1>11, <2>1 DEF PacketAdded
<1> QED BY <1>2, <1>10, <1>11

(* Whatever else happens to packets and offers makes no packet READY.      *)
LEMMA PapersMove ==
  ASSUME PacketsAssumption, PacketInv, PapersNext
  PROVE  PacketsKept \/ PacketAdded
<1>1. packets \in Seq(Packets) /\ \A i \in DOMAIN packets : packets[i] \in Packets
  BY ElementOfSeq, LenProperties DEF PacketInv
<1>2. packets = [i \in DOMAIN packets |-> packets[i]]
  BY <1>1, LenProperties
<1>3. ASSUME NEW i, NEW r, packets' = [packets EXCEPT ![i] = r],
             i \in DOMAIN packets => r \in Packets /\ (r.state = "READY" => packets[i].state = "READY")
      PROVE  PacketsKept
  <2>1. packets' = [j \in DOMAIN packets |-> IF j = i THEN r ELSE packets[j]]
    BY <1>2, <1>3
  <2> QED BY <1>1, <1>3, <2>1 DEF PacketsKept, Ready
<1>4. CASE UNCHANGED packets
  BY <1>1, <1>2, <1>4 DEF PacketsKept, Ready
<1>5. ASSUME NEW i \in DOMAIN packets, PassTtl(i) \/ InspectPacket(i) \/ InvalidatePacket(i)
      PROVE  PacketsKept
  <2>1. CASE PassTtl(i)
    <3> DEFINE r == [packets[i] EXCEPT !.fresh = FALSE]
    <3>1. packets' = [packets EXCEPT ![i] = r]
      BY <2>1 DEF PassTtl
    <3>2. r \in Packets /\ r.state = packets[i].state
      BY <1>1, <1>5, PacketFields
    <3> HIDE DEF r
    <3> QED BY <1>3, <3>1, <3>2
  <2>2. CASE InspectPacket(i)
    BY <1>1, <1>3, <1>5, <2>2, PacketFields DEF InspectPacket
  <2>3. CASE InvalidatePacket(i)
    BY <1>1, <1>3, <1>5, <2>3, PacketFields DEF InvalidatePacket
  <2> QED BY <1>5, <2>1, <2>2, <2>3
<1>6. ASSUME NEW rev, GetCurrent(rev)
      PROVE  PacketsKept
  <2> DEFINE i == Newest(Ready)
             r == IF rev # None /\ packets[i].rev # rev THEN Invalid(packets[i])
                                                        ELSE Expired(packets[i])
  <2>1. packets' = [packets EXCEPT ![i] = r]
    BY <1>6 DEF GetCurrent
  <2>2. i \in DOMAIN packets => r \in Packets /\ (r.state = "READY" => packets[i].state = "READY")
    BY <1>1, PacketFields
  <2> HIDE DEF i, r
  <2> QED BY <1>3, <2>1, <2>2
<1> QED BY <1>4, <1>5, <1>6, BuildMoves DEF PapersNext, MoveOffer, CreateOffer

(* _ready_packet marks packets, at most.                                   *)
LEMMA ExpiryMoves ==
  ASSUME PacketInv, NEW i, MarkExpired(i)
  PROVE  PacketsKept
<1>1. \A j \in DOMAIN packets : packets[j] \in Packets
  BY ElementOfSeq, LenProperties DEF PacketInv
<1>2. ASSUME NEW j \in DOMAIN packets
      PROVE  packets'[j] \in Packets /\ (packets'[j].state = "READY" => j \in Ready)
  BY <1>1, PacketFields DEF MarkExpired, Ready
<1>3. packets' = [j \in DOMAIN packets |-> packets'[j]]
  BY DEF MarkExpired
<1> QED BY <1>2, <1>3 DEF PacketsKept

(* Whatever is kept or added, one packet is usable.                        *)
LEMMA OneReady ==
  ASSUME PacketInv, PacketsKept \/ PacketAdded
  PROVE  PacketInv'
<1>1. packets \in Seq(Packets) /\ DOMAIN packets = 1..Len(packets) /\ Len(packets) \in Nat
  BY LenProperties DEF PacketInv
<1>2. CASE PacketsKept
  <2>1. packets' \in Seq(Packets) /\ DOMAIN packets' = DOMAIN packets
    BY <1>1, <1>2, Rewritten DEF PacketsKept
  <2>2. \A i \in Ready' : i \in Ready
    BY <1>2, <2>1 DEF PacketsKept, Ready
  <2> QED BY <2>1, <2>2 DEF PacketInv
<1>3. ASSUME NEW gone \in Seq(Packets), NEW new \in Packets,
             packets' = Append(gone, new) /\ Len(gone) = Len(packets),
             \A i \in 1..Len(gone) : gone[i].state = "READY" => i \in Ready /\ new.state # "READY"
      PROVE  PacketInv'
  <2>1. /\ packets' \in Seq(Packets) /\ Len(packets') = Len(gone) + 1
        /\ packets'[Len(gone) + 1] = new /\ \A i \in 1..Len(gone) : packets'[i] = gone[i]
    BY <1>3, Appended
  <2>2. DOMAIN packets' = 1..(Len(packets) + 1)
    BY <1>3, <2>1, LenProperties
  <2>3. ASSUME NEW i \in Ready'
        PROVE  \/ i \in Ready /\ new.state # "READY"
               \/ i = Len(packets) + 1 /\ new.state = "READY"
    <3>1. i \in 1..(Len(packets) + 1) /\ packets'[i].state = "READY"
      BY <2>2 DEF Ready
    <3>2. CASE i = Len(packets) + 1
      BY <1>3, <2>1, <3>1, <3>2
    <3>3. CASE i \in 1..Len(gone)
      BY <1>3, <2>1, <3>1, <3>3
    <3> QED BY <1>1, <1>3, <3>1, <3>2, <3>3
  <2>4. \A i, j \in Ready' : i = j
    BY <2>3 DEF PacketInv
  <2> QED BY <2>1, <2>4 DEF PacketInv
<1> QED BY <1>2, <1>3 DEF PacketAdded

(* No step leaves two READY packets.                                       *)
LEMMA PacketStep ==
  ASSUME PacketsAssumption, PacketInv, [Next]_vars
  PROVE  PacketInv'
<1>1. CASE PapersNext
  BY <1>1, PapersMove, OneReady
<1>2. ASSUME NEW p, NEW i, NEW q, Generate(p, i, q)
      PROVE  PacketInv'
  BY <1>2, ExpiryMoves, OneReady DEF Generate
<1>3. CASE UNCHANGED packets
  BY <1>3 DEF PacketInv, Ready
<1>4. UNCHANGED vars => UNCHANGED packets
  BY DEF vars, papers
<1>5. ASSUME NEW p \in Procs, Call(p), \A i, q : ~Generate(p, i, q)
      PROVE  UNCHANGED packets
  <2>1. (\E f \in DOMAIN runs : Resume(p, f)) \/ Hold(p) => UNCHANGED papers
    BY DEF Resume, Hold
  <2>2. Start(p) => UNCHANGED papers
    BY DEF Start
  <2>3. Fail(p) => UNCHANGED papers
    BY DEF Fail
  <2>4. Persist(p) => UNCHANGED papers
    BY DEF Persist
  <2>5. Crash(p) => UNCHANGED papers
    BY DEF Crash
  <2>6. ASSUME NEW o, Finish(p, o) PROVE UNCHANGED papers
    BY <2>6 DEF Finish
  <2> QED BY <1>5, <2>1, <2>2, <2>3, <2>4, <2>5, <2>6 DEF Call, papers
<1>6. (\E f \in Drafted : Request(f)) \/ Turn \/ (\E E \in SUBSET Evidence : Collect(E))
        => UNCHANGED packets
  BY DEF Request, Turn, Collect, papers
<1> QED BY <1>1, <1>2, <1>3, <1>4, <1>5, <1>6 DEF Next

-----------------------------------------------------------------------------
(* Steps, by what they do to the runs and to the caller. *)

Labels == {"start", "hold"}
Entering(l, f, n) == [pc |-> l, run |-> f, seen |-> n, version |-> 0]
Moved(p, c) == c \in Callers /\ at' = [at EXCEPT ![p] = c]
Changed(f, r) == f \in DOMAIN runs /\ r \in RunRows /\ runs' = [runs EXCEPT ![f] = r]

(* A run is made, or found. *)
Grows(p) ==
  \E f \in Fingerprints, r \in RunRows :
    /\ r.tries = <<>> /\ r.draft = 0 /\ f.request <= Len(redraft)
    /\ runs' = [g \in DOMAIN runs \union {f} |-> IF g \in DOMAIN runs THEN runs[g] ELSE r]
    /\ calls' = [g \in DOMAIN runs \union {f} |-> IF g \in DOMAIN runs THEN calls[g] ELSE 0]
    /\ UNCHANGED redraft
    /\ at[p] = Idle
    /\ UNCHANGED at \/ at' = [at EXCEPT ![p] = Entering("start", f, Len(runs'[f].tries))]

(* A caller gives up or begins a round, and the state of a run may change. *)
Turns(p) ==
  /\ \/ UNCHANGED runs
     \/ \E f, r : Changed(f, r) /\ r.tries = runs[f].tries /\ r.draft = runs[f].draft
  /\ UNCHANGED <<calls, redraft>>
  /\ \E c : /\ Moved(p, c)
            /\ \/ c \in {at[p], Idle}
               \/ \E l \in Labels, f \in DOMAIN runs : c = Entering(l, f, Len(runs[f].tries))

(* The provider is called. *)
Starts(p) ==
  LET f == at[p].run
      n == at[p].seen + 1
  IN /\ at[p].pc = "start" /\ n <= MaxAttempts /\ n = Len(Tries(p)) + 1
     /\ \E r : Changed(f, r) /\ r.tries = Append(Tries(p), "STARTED") /\ r.draft = runs[f].draft
     /\ \E c : Moved(p, c) /\ c.pc = "called" /\ c.run = f /\ c.seen = n
     /\ calls' = [calls EXCEPT ![f] = @ + 1] /\ UNCHANGED redraft

(* The provider has answered. *)
Finishes(p) ==
  LET f == at[p].run
      n == at[p].seen
  IN \E o \in {"SUCCEEDED", "FAILED"} :
     /\ at[p].pc = "called" /\ n \in 1..Len(Tries(p))
     /\ \E r : Changed(f, r) /\ r.tries = [Tries(p) EXCEPT ![n] = o] /\ r.draft = runs[f].draft
     /\ \E c : /\ Moved(p, c) /\ c.run = f /\ c.seen = n
               /\ IF o = "SUCCEEDED" THEN c.pc = "store" /\ c.version = NextVersion ELSE c.pc = "fail"
     /\ UNCHANGED <<calls, redraft>>

(* A draft is stored. *)
Stores(p) ==
  LET f == at[p].run IN
  /\ at[p].pc = "store" /\ ~Refused(f, at[p].version)
  /\ \E r : Changed(f, r) /\ r.tries = runs[f].tries /\ r.draft = at[p].version
  /\ Moved(p, Idle) /\ Close(f) /\ UNCHANGED calls

TypesInv == PacketInv /\ RunInv /\ RequestInv /\ CallerInv

(* Callers. *)
LEMMA IdleCaller ==
  /\ Idle \in Callers /\ Idle.pc = "idle"
BY DEF Idle, Callers

(* A caller that begins a round.                                           *)
LEMMA EnteringCaller ==
  ASSUME NEW l \in Labels, NEW f \in Fingerprints, NEW n \in Nat
  PROVE  Entering(l, f, n) \in Callers
BY DEF Entering, Callers, Labels

(* It does so by Enter.                                                    *)
LEMMA EnterMoves ==
  ASSUME NEW p, NEW l, NEW f, Enter(p, l, f)
  PROVE  at' = [at EXCEPT ![p] = Entering(l, f, Len(runs'[f].tries))]
BY DEF Enter, Entering

(* The run of a caller that is not idle. *)
LEMMA RunOfCaller ==
  ASSUME RunInv, CallerInv, NEW p \in Procs, at[p].pc # "idle"
  PROVE  /\ at[p] \in Callers /\ at[p].run \in DOMAIN runs /\ at[p].run \in Fingerprints
         /\ runs[at[p].run] \in RunRows /\ Tries(p) \in Seq(Outcomes) /\ Len(Tries(p)) \in Nat
         /\ at[p].seen \in Nat /\ at[p].version \in Nat
<1>1. at[p] \in Callers /\ at[p].run \in DOMAIN runs
  BY DEF CallerInv
<1>2. at[p].run \in Fingerprints /\ runs[at[p].run] \in RunRows
  BY <1>1 DEF RunInv
<1>3. Tries(p) \in Seq(Outcomes)
  BY <1>2 DEF RunRows, Tries
<1> QED BY <1>1, <1>2, <1>3, LenProperties DEF Callers

(* What a call is keyed by. *)
LEMMA FingerprintType ==
  ASSUME PacketInv, RunInv, NEW i, NEW q \in Nat
  PROVE  Fingerprint(Fresh(i), q) \in Fingerprints /\ Fingerprint(Fresh(i), q).request = q
<1>1. packets \in Seq(Packets)
  BY DEF PacketInv
<1>2. Fresh(i) # 0 => Fresh(i) \in Ready
  BY DEF Fresh
<1>3. Fresh(i) # 0 => packets[Fresh(i)] \in Packets
  BY <1>1, <1>2, ElementOfSeq, LenProperties DEF Ready
<1>4. evidence \in SUBSET Evidence
  BY DEF RunInv
<1> QED BY <1>3, <1>4 DEF Fingerprint, Fingerprints

(* generate_fictional_draft finds its run or makes it.                     *)
LEMMA GenerateGrows ==
  ASSUME TypesInv, NEW p \in Procs, NEW i, NEW q \in 0..Len(redraft), Generate(p, i, q),
         DOMAIN calls = DOMAIN runs
  PROVE  Grows(p)
<1> DEFINE f == Fingerprint(Fresh(i), q)
           r == NewRun(i)
<1>1. Len(redraft) \in Nat
  BY LenProperties DEF TypesInv, RequestInv
<1>2. f \in Fingerprints /\ f.request <= Len(redraft)
  BY <1>1, FingerprintType DEF TypesInv
<1>3. r \in RunRows /\ r.tries = <<>> /\ r.draft = 0
  BY EmptySeq DEF NewRun, RunRows, RunStates
<1>4. at[p] = Idle /\ UNCHANGED redraft
  BY DEF Generate
<1>a. runs' = [g \in DOMAIN runs \union {f} |-> IF g = f THEN RunOf(f, i) ELSE runs[g]]
  BY DEF Generate
<1>b. calls' = [g \in DOMAIN runs' |-> IF g \in DOMAIN calls THEN calls[g] ELSE 0]
  BY DEF Generate
<1>c. UNCHANGED at \/ Enter(p, "start", f)
  BY DEF Generate
<1> HIDE DEF f
<1>5. runs' = [g \in DOMAIN runs \union {f} |-> IF g \in DOMAIN runs THEN runs[g] ELSE r]
  BY <1>a DEF RunOf
<1>6. calls' = [g \in DOMAIN runs \union {f} |-> IF g \in DOMAIN runs THEN calls[g] ELSE 0]
  BY <1>b, <1>5
<1>8. UNCHANGED at \/ at' = [at EXCEPT ![p] = Entering("start", f, Len(runs'[f].tries))]
  BY <1>c, EnterMoves
<1> HIDE DEF r
<1> QED BY <1>2, <1>3, <1>4, <1>5, <1>6, <1>8 DEF Grows

(* A change of one run.                                                    *)
LEMMA ChangedRuns ==
  ASSUME RunInv, NEW f, NEW r, Changed(f, r)
  PROVE  /\ DOMAIN runs' = DOMAIN runs /\ runs'[f] = r /\ f \in DOMAIN runs
         /\ \A g \in DOMAIN runs : g # f => runs'[g] = runs[g]
         /\ runs' \in [DOMAIN runs -> RunRows]
BY DEF RunInv, Changed

(* resume_drafting, its hold, a failed attempt and a death change a run's state at   *)
(* most.                                                                   *)
LEMMA CallTurns ==
  ASSUME TypesInv, NEW p \in Procs,
         \/ \E f \in DOMAIN runs : Resume(p, f)
         \/ Hold(p) \/ Fail(p) \/ Crash(p)
  PROVE  Turns(p)
<1>1. /\ \A f \in DOMAIN runs : /\ runs[f] \in RunRows /\ f \in Fingerprints
                                /\ Len(runs[f].tries) \in Nat
      /\ \A l \in Labels, f \in DOMAIN runs : Entering(l, f, Len(runs[f].tries)) \in Callers
      /\ at \in [Procs -> Callers]
  <2>1. \A f \in DOMAIN runs : runs[f] \in RunRows /\ f \in Fingerprints
    BY DEF TypesInv, RunInv
  <2>2. \A f \in DOMAIN runs : Len(runs[f].tries) \in Nat
    BY <2>1, LenProperties DEF RunRows
  <2>3. \A l \in Labels, f \in DOMAIN runs : Entering(l, f, Len(runs[f].tries)) \in Callers
    BY <2>1, <2>2, EnteringCaller
  <2> QED BY <2>1, <2>2, <2>3 DEF TypesInv, CallerInv
<1>2. Idle \in Callers /\ at[p] \in Callers
  BY <1>1, IdleCaller
<1>3. ASSUME NEW f \in DOMAIN runs, NEW s \in RunStates, runs' = [runs EXCEPT ![f].state = s]
      PROVE  \E r : Changed(f, r) /\ r.tries = runs[f].tries /\ r.draft = runs[f].draft
  <2> DEFINE r == [runs[f] EXCEPT !.state = s]
  <2>1. runs' = [runs EXCEPT ![f] = r]
    BY <1>3
  <2>2. r \in RunRows /\ r.tries = runs[f].tries /\ r.draft = runs[f].draft
    BY <1>1 DEF RunRows
  <2> HIDE DEF r
  <2> QED BY <2>1, <2>2 DEF Changed
<1>4. ASSUME NEW l \in Labels, NEW f \in DOMAIN runs, Enter(p, l, f),
             runs'[f].tries = runs[f].tries
      PROVE  Moved(p, Entering(l, f, Len(runs[f].tries)))
  <2>1. at' = [at EXCEPT ![p] = Entering(l, f, Len(runs[f].tries))]
    BY <1>4, EnterMoves
  <2> QED BY <1>1, <2>1 DEF Moved
<1>5. at' = [at EXCEPT ![p] = Idle] => Moved(p, Idle)
  BY <1>2 DEF Moved
<1>6. UNCHANGED at => Moved(p, at[p])
  BY <1>1, <1>2 DEF Moved
<1>7. ASSUME NEW f \in DOMAIN runs, Resume(p, f)
      PROVE  Turns(p)
  <2>1. UNCHANGED <<calls, redraft>>
    BY <1>7 DEF Resume
  <2>2. UNCHANGED runs /\ \E l \in Labels : Enter(p, l, f)
    BY <1>7 DEF Resume, Labels
  <2> QED BY <1>4, <2>1, <2>2 DEF Turns
<1>h. CASE Hold(p)
  <2> DEFINE f == at[p].run
  <2>1. f \in DOMAIN runs
    BY <1>h, RunOfCaller DEF Hold, TypesInv
  <2>2. /\ runs' = [runs EXCEPT ![f].state = "HOLD_FOR_REVIEW"]
        /\ at' = [at EXCEPT ![p] = Idle] /\ UNCHANGED <<calls, redraft>>
    BY <1>h DEF Hold
  <2> HIDE DEF f
  <2>3. \E r : Changed(f, r) /\ r.tries = runs[f].tries /\ r.draft = runs[f].draft
    BY <1>3, <2>1, <2>2 DEF RunStates
  <2> QED BY <1>5, <2>2, <2>3 DEF Turns
<1>8. CASE Fail(p)
  <2> DEFINE f == at[p].run
  <2>1. f \in DOMAIN runs
    BY <1>8, RunOfCaller DEF Fail, TypesInv
  <2>2. /\ \E s \in {"ERROR_TERMINAL", "ERROR_RETRYABLE"} : runs' = [runs EXCEPT ![f].state = s]
        /\ at' = [at EXCEPT ![p] = Idle] \/ Enter(p, "start", f)
        /\ UNCHANGED <<calls, redraft>>
    BY <1>8 DEF Fail
  <2> HIDE DEF f
  <2>3. \E r : Changed(f, r) /\ r.tries = runs[f].tries /\ r.draft = runs[f].draft
    BY <1>3, <2>1, <2>2 DEF RunStates
  <2>4. runs'[f].tries = runs[f].tries
    BY <2>3, ChangedRuns DEF TypesInv
  <2> QED BY <1>4, <1>5, <2>1, <2>2, <2>3, <2>4 DEF Turns, Labels
<1>9. CASE Crash(p)
  BY <1>5, <1>9 DEF Crash, Turns
<1> QED BY <1>7, <1>8, <1>9, <1>h

(* An attempt takes the number after the last, or the caller gives up:     *)
(* that number was taken.                                                  *)
LEMMA CallStarts ==
  ASSUME TypesInv, CallInv, NEW p \in Procs, Start(p)
  PROVE  Starts(p) \/ Turns(p)
<1> DEFINE f == at[p].run
           n == at[p].seen + 1
           r == [runs[f] EXCEPT !.state = "GENERATED", !.tries = Append(@, "STARTED")]
           c == [at[p] EXCEPT !.pc = "called", !.seen = n]
<1>0. at[p].pc = "start" /\ UNCHANGED redraft
  BY DEF Start
<1>1. /\ at[p] \in Callers /\ f \in DOMAIN runs /\ runs[f] \in RunRows
      /\ runs[f].tries \in Seq(Outcomes) /\ Len(runs[f].tries) \in Nat /\ at[p].seen \in Nat
  BY <1>0, RunOfCaller DEF TypesInv, Tries
<1>2. at[p].seen <= Len(runs[f].tries) /\ at \in [Procs -> Callers]
  BY <1>0 DEF CallInv, Tries, TypesInv, CallerInv
<1>3. CASE n > MaxAttempts \/ Taken(f, n)
  <2>1. at' = [at EXCEPT ![p] = Idle] /\ UNCHANGED <<runs, calls>>
    BY <1>3 DEF Start
  <2> QED BY <1>0, <2>1, IdleCaller DEF Turns, Moved
<1>4. CASE ~(n > MaxAttempts \/ Taken(f, n))
  <2>1. /\ runs' = [runs EXCEPT ![f].state = "GENERATED", ![f].tries = Append(@, "STARTED")]
        /\ calls' = [calls EXCEPT ![f] = @ + 1]
        /\ at' = [at EXCEPT ![p].pc = "called", ![p].seen = n]
    BY <1>4 DEF Start
  <2>2. DOMAIN runs[f].tries = 1..Len(runs[f].tries)
    BY <1>1, LenProperties
  <2>3. n = Len(runs[f].tries) + 1 /\ n <= MaxAttempts
    BY <1>1, <1>2, <1>4, <2>2, DraftingAssumption DEF Taken, DraftingAssumption
  <2>4. Append(runs[f].tries, "STARTED") \in Seq(Outcomes)
    BY <1>1 DEF Outcomes
  <2>5. r \in RunRows /\ r.tries = Append(runs[f].tries, "STARTED") /\ r.draft = runs[f].draft
    BY <1>1, <2>4 DEF RunRows, RunStates
  <2>6. c \in Callers /\ c.pc = "called" /\ c.run = f /\ c.seen = n
    <3>1. n \in Nat
      BY <1>1
    <3> HIDE DEF n
    <3> QED BY <1>1, <3>1 DEF Callers
  <2>7. runs' = [runs EXCEPT ![f] = r]
    BY <2>1
  <2>8. at' = [at EXCEPT ![p] = c]
    BY <2>1
  <2> HIDE DEF r, c
  <2>9. Changed(f, r) /\ Moved(p, c)
    BY <1>1, <2>5, <2>6, <2>7, <2>8 DEF Changed, Moved
  <2>10. Starts(p)
    BY <1>0, <2>1, <2>3, <2>5, <2>6, <2>9 DEF Starts, Tries
  <2> QED BY <2>10
<1> QED BY <1>3, <1>4

(* _finish_attempt writes the outcome of the attempt its caller made.      *)
LEMMA CallFinishes ==
  ASSUME TypesInv, CallInv, AttemptInv, NEW p \in Procs, NEW o, Finish(p, o)
  PROVE  Finishes(p)
<1> DEFINE f == at[p].run
           n == at[p].seen
           valid == o # None /\ Valid(o, f)
           w == IF valid THEN "SUCCEEDED" ELSE "FAILED"
           t == [runs[f].tries EXCEPT ![n] = w]
           r == [runs[f] EXCEPT !.tries = t]
           c == [at[p] EXCEPT !.pc = IF valid THEN "store" ELSE "fail",
                              !.version = IF valid THEN NextVersion ELSE 0]
<1>0. at[p].pc = "called" /\ UNCHANGED <<calls, redraft>>
  BY DEF Finish
<1>1. /\ at[p] \in Callers /\ f \in DOMAIN runs /\ runs[f] \in RunRows
      /\ runs[f].tries \in Seq(Outcomes) /\ Len(runs[f].tries) \in Nat /\ n \in Nat
      /\ at \in [Procs -> Callers]
  BY <1>0, RunOfCaller DEF TypesInv, Tries, CallerInv
<1>2. n \in 1..Len(runs[f].tries)
  BY <1>0, <1>1 DEF CallInv, AttemptInv, Tries
<1>3. /\ runs' = [runs EXCEPT ![f].tries[n] = w]
      /\ at' = [at EXCEPT ![p].pc = IF valid THEN "store" ELSE "fail",
                          ![p].version = IF valid THEN NextVersion ELSE 0]
  BY DEF Finish
<1>4. runs' = [runs EXCEPT ![f] = r] /\ at' = [at EXCEPT ![p] = c]
  BY <1>3
<1>5. NextVersion \in Nat
  <2>1. IsFiniteSet(Drafted)
    BY FS_Subset DEF TypesInv, RunInv, Drafted
  <2> QED BY <2>1, FS_CardinalityType DEF NextVersion
<1>6. w \in {"SUCCEEDED", "FAILED"} /\ (valid <=> w = "SUCCEEDED")
  OBVIOUS
<1> HIDE DEF w, valid
<1>7. t \in Seq(Outcomes)
  BY <1>1, <1>2, <1>6, ExceptSeq DEF Outcomes
<1> HIDE DEF t
<1>8. r \in RunRows /\ r.tries = t /\ r.draft = runs[f].draft
  BY <1>1, <1>7 DEF RunRows
<1>9. c \in Callers /\ c.run = f /\ c.seen = n
  BY <1>1, <1>5 DEF Callers
<1>10. IF w = "SUCCEEDED" THEN c.pc = "store" /\ c.version = NextVersion ELSE c.pc = "fail"
  BY <1>1, <1>6 DEF Callers
<1> HIDE DEF r, c
<1>11. Changed(f, r) /\ Moved(p, c)
  BY <1>1, <1>4, <1>8, <1>9 DEF Changed, Moved
<1> QED BY <1>0, <1>2, <1>6, <1>8, <1>9, <1>10, <1>11 DEF Finishes, Tries, t

(* _persist_success stores a draft, or an index refuses it.                *)
LEMMA CallStores ==
  ASSUME TypesInv, NEW p \in Procs, Persist(p)
  PROVE  Stores(p) \/ Turns(p)
<1> DEFINE f == at[p].run
           r == [runs[f] EXCEPT !.state = "REVIEW_PENDING", !.draft = at[p].version]
<1>0. at[p].pc = "store" /\ at' = [at EXCEPT ![p] = Idle] /\ UNCHANGED calls
  BY DEF Persist
<1>1. Moved(p, Idle)
  BY <1>0, IdleCaller DEF Moved
<1>2. f \in DOMAIN runs /\ runs[f] \in RunRows /\ at[p].version \in Nat
  BY <1>0, RunOfCaller DEF TypesInv
<1>3. CASE Refused(f, at[p].version)
  BY <1>0, <1>1, <1>3 DEF Persist, Turns
<1>4. CASE ~Refused(f, at[p].version)
  <2>1. runs' = [runs EXCEPT ![f].state = "REVIEW_PENDING", ![f].draft = at[p].version] /\ Close(f)
    BY <1>4 DEF Persist
  <2>2. runs' = [runs EXCEPT ![f] = r]
    BY <2>1
  <2>3. r \in RunRows /\ r.tries = runs[f].tries /\ r.draft = at[p].version
    BY <1>2 DEF RunRows, RunStates
  <2> HIDE DEF r
  <2>4. Changed(f, r)
    BY <1>2, <2>2, <2>3 DEF Changed
  <2> QED BY <1>0, <1>1, <1>4, <2>1, <2>3, <2>4 DEF Stores
<1> QED BY <1>3, <1>4

(* The kinds are all there is.                                             *)
LEMMA StepKinds ==
  ASSUME TypesInv, CallInv, AttemptInv, [Next]_vars
  PROVE  \/ \E p \in Procs : Grows(p) \/ Turns(p) \/ Starts(p) \/ Finishes(p) \/ Stores(p)
         \/ \E f \in Drafted : Request(f)
         \/ UNCHANGED <<runs, redraft, at, calls>>
<1>1. DOMAIN calls = DOMAIN runs
  BY DEF CallInv
<1>2. ASSUME NEW p \in Procs, Call(p)
      PROVE  Grows(p) \/ Turns(p) \/ Starts(p) \/ Finishes(p) \/ Stores(p)
  BY <1>1, <1>2, GenerateGrows, CallTurns, CallStarts, CallFinishes, CallStores DEF Call
<1>3. UNCHANGED vars \/ Turn \/ (\E E \in SUBSET Evidence : Collect(E))
        \/ (PapersNext /\ UNCHANGED drafting) => UNCHANGED <<runs, redraft, at, calls>>
  BY DEF vars, Turn, Collect, drafting
<1> QED BY <1>2, <1>3 DEF Next

-----------------------------------------------------------------------------
(* Rows, requests and callers. *)

(* A run once made is there; only the one that gets a draft becomes one    *)
(* with a draft.                                                           *)
DraftsStand ==
  /\ DOMAIN runs \subseteq DOMAIN runs' /\ Drafted' = Drafted
  /\ \A f \in Drafted : runs'[f].draft = runs[f].draft

(* A run more.                                                             *)
LEMMA GrownRuns ==
  ASSUME RunInv, NEW f \in Fingerprints, NEW r \in RunRows,
         runs' = [g \in DOMAIN runs \union {f} |-> IF g \in DOMAIN runs THEN runs[g] ELSE r]
  PROVE  /\ DOMAIN runs' = DOMAIN runs \union {f}
         /\ \A g \in DOMAIN runs : runs'[g] = runs[g]
         /\ f \notin DOMAIN runs => runs'[f] = r
         /\ runs' \in [DOMAIN runs' -> RunRows]
BY DEF RunInv

(* Only a stored draft changes which runs have one.                        *)
LEMMA Stand ==
  ASSUME TypesInv, NEW p \in Procs, Grows(p) \/ Turns(p) \/ Starts(p) \/ Finishes(p)
  PROVE  DraftsStand
<1>1. CASE Grows(p)
  <2>1. PICK f \in Fingerprints, r \in RunRows :
          /\ r.draft = 0
          /\ runs' = [g \in DOMAIN runs \union {f} |-> IF g \in DOMAIN runs THEN runs[g] ELSE r]
    BY <1>1 DEF Grows
  <2>2. /\ DOMAIN runs' = DOMAIN runs \union {f}
        /\ \A g \in DOMAIN runs : runs'[g] = runs[g]
        /\ f \notin DOMAIN runs => runs'[f] = r
    BY <2>1, GrownRuns DEF TypesInv
  <2> QED BY <2>1, <2>2 DEF DraftsStand, Drafted
<1>2. ASSUME NEW f, NEW r, Changed(f, r), r.draft = runs[f].draft
      PROVE  DraftsStand
  <2>1. /\ DOMAIN runs' = DOMAIN runs /\ runs'[f] = r
        /\ \A g \in DOMAIN runs : g # f => runs'[g] = runs[g]
    BY <1>2, ChangedRuns DEF TypesInv
  <2>2. \A g \in DOMAIN runs : runs'[g].draft = runs[g].draft
    BY <1>2, <2>1
  <2> QED BY <2>1, <2>2 DEF DraftsStand, Drafted
<1>3. UNCHANGED runs => DraftsStand
  BY DEF DraftsStand, Drafted
<1> QED BY <1>1, <1>2, <1>3 DEF Turns, Starts, Finishes

(* A draft gets a version that no other has.                               *)
LEMMA Stored ==
  ASSUME TypesInv, NEW p \in Procs, Stores(p), at[p].version # 0
  PROVE  LET f == at[p].run IN
         /\ DOMAIN runs' = DOMAIN runs /\ f \notin Drafted /\ Drafted' = Drafted \union {f}
         /\ runs'[f].draft = at[p].version /\ runs'[f].tries = runs[f].tries
         /\ \A g \in Drafted : g # f /\ runs'[g] = runs[g] /\ runs[g].draft # at[p].version
<1> DEFINE f == at[p].run
<1>1. PICK r : Changed(f, r) /\ r.tries = runs[f].tries /\ r.draft = at[p].version
  BY DEF Stores
<1>2. /\ DOMAIN runs' = DOMAIN runs /\ runs'[f] = r /\ f \in DOMAIN runs
      /\ \A g \in DOMAIN runs : g # f => runs'[g] = runs[g]
  BY <1>1, ChangedRuns DEF TypesInv
<1>3. f \notin Drafted /\ \A g \in Drafted : runs[g].draft # at[p].version
  BY DEF Stores, Refused, Drafted
<1> HIDE DEF f
<1>4. Drafted' = Drafted \union {f}
  BY <1>1, <1>2 DEF Drafted
<1> QED BY <1>1, <1>2, <1>3, <1>4 DEF f, Drafted

(* Runs keep their types.                                                  *)
LEMMA RunStep ==
  ASSUME TypesInv, CallInv, AttemptInv, [Next]_vars
  PROVE  RunInv'
<1>1. evidence' \subseteq Evidence /\ fit' \in BOOLEAN
  <2>1. UNCHANGED <<fit, evidence>> => <1>1
    BY DEF TypesInv, RunInv
  <2>2. UNCHANGED vars => UNCHANGED <<fit, evidence>>
    BY DEF vars, drafting
  <2>3. ASSUME NEW p \in Procs, Call(p)
        PROVE  UNCHANGED <<fit, evidence>>
    <3>1. (\E f \in DOMAIN runs : Resume(p, f)) \/ Hold(p) \/ Crash(p)
            => UNCHANGED <<fit, evidence>>
      BY DEF Resume, Hold, Crash
    <3>2. Start(p) => UNCHANGED <<fit, evidence>>
      BY DEF Start
    <3>3. Fail(p) => UNCHANGED <<fit, evidence>>
      BY DEF Fail
    <3>4. Persist(p) => UNCHANGED <<fit, evidence>>
      BY DEF Persist
    <3>5. ASSUME NEW o, Finish(p, o) PROVE UNCHANGED <<fit, evidence>>
      BY <3>5 DEF Finish
    <3>6. ASSUME NEW i, NEW q, Generate(p, i, q) PROVE UNCHANGED <<fit, evidence>>
      BY <3>6 DEF Generate
    <3> QED BY <2>3, <3>1, <3>2, <3>3, <3>4, <3>5, <3>6 DEF Call
  <2>4. CASE Turn \/ (\E E \in SUBSET Evidence : Collect(E))
    BY <2>4 DEF Turn, Collect, TypesInv, RunInv
  <2>5. (\E f \in Drafted : Request(f)) \/ (PapersNext /\ UNCHANGED drafting)
          => UNCHANGED <<fit, evidence>>
    BY DEF Request, drafting
  <2> QED BY <2>1, <2>2, <2>3, <2>4, <2>5 DEF Next
<1>2. CASE UNCHANGED runs
  BY <1>1, <1>2 DEF TypesInv, RunInv
<1>3. ASSUME NEW f, NEW r, Changed(f, r)
      PROVE  RunInv'
  <2>1. DOMAIN runs' = DOMAIN runs /\ runs' \in [DOMAIN runs -> RunRows]
    BY <1>3, ChangedRuns DEF TypesInv
  <2> QED BY <1>1, <2>1 DEF TypesInv, RunInv
<1>4. ASSUME NEW p \in Procs, Grows(p)
      PROVE  RunInv'
  <2>1. PICK f \in Fingerprints, r \in RunRows :
          runs' = [g \in DOMAIN runs \union {f} |-> IF g \in DOMAIN runs THEN runs[g] ELSE r]
    BY <1>4 DEF Grows
  <2>2. DOMAIN runs' = DOMAIN runs \union {f} /\ runs' \in [DOMAIN runs' -> RunRows]
    BY <2>1, GrownRuns DEF TypesInv
  <2>3. IsFiniteSet(DOMAIN runs')
    BY <2>2, FS_AddElement DEF TypesInv, RunInv
  <2> QED BY <1>1, <2>2, <2>3 DEF TypesInv, RunInv
<1> QED BY <1>2, <1>3, <1>4, StepKinds DEF Turns, Starts, Finishes, Stores, Request

(* Requests keep theirs, and what they refer to is there.                  *)
LEMMA RequestStep ==
  ASSUME TypesInv, CallInv, AttemptInv, VersionInv, [Next]_vars
  PROVE  RequestInv'
<1>0. /\ redraft \in Seq(Requests) /\ Len(redraft) \in Nat /\ DOMAIN redraft = 1..Len(redraft)
      /\ \A f \in DOMAIN runs : f.request <= Len(redraft) /\ f \in Fingerprints /\ f.request \in Nat
      /\ \A k \in 1..Len(redraft) : redraft[k] \in Requests
  <2>1. \A f \in Fingerprints : f.request \in Nat
    BY DEF Fingerprints
  <2> QED BY <2>1, LenProperties, ElementOfSeq DEF TypesInv, RequestInv, RunInv
<1>1. ASSUME DraftsStand, UNCHANGED redraft,
             \A f \in DOMAIN runs' : f \in DOMAIN runs \/ f.request <= Len(redraft)
      PROVE  RequestInv'
  BY <1>1 DEF DraftsStand, TypesInv, RequestInv
<1>2. ASSUME NEW p \in Procs, Grows(p)
      PROVE  RequestInv'
  <2>1. PICK f \in Fingerprints, r \in RunRows :
          /\ f.request <= Len(redraft) /\ UNCHANGED redraft
          /\ runs' = [g \in DOMAIN runs \union {f} |-> IF g \in DOMAIN runs THEN runs[g] ELSE r]
    BY <1>2 DEF Grows
  <2>2. DOMAIN runs' = DOMAIN runs \union {f}
    BY <2>1
  <2> QED BY <1>1, <1>2, <2>1, <2>2, Stand
<1>3. ASSUME NEW p \in Procs, Turns(p) \/ Starts(p) \/ Finishes(p)
      PROVE  RequestInv'
  <2>1. DOMAIN runs' = DOMAIN runs /\ UNCHANGED redraft
    BY <1>3, ChangedRuns DEF Turns, Starts, Finishes, TypesInv
  <2> QED BY <1>1, <1>3, <2>1, Stand
<1>4. ASSUME NEW p \in Procs, Stores(p)
      PROVE  RequestInv'
  <2> DEFINE f == at[p].run
  <2>1. at[p].version # 0 /\ f \in DOMAIN runs
    BY <1>4, RunOfCaller DEF Stores, VersionInv, TypesInv
  <2>2. DOMAIN runs' = DOMAIN runs /\ Drafted' = Drafted \union {f}
    BY <1>4, <2>1, Stored
  <2>3. Close(f)
    BY <1>4 DEF Stores
  <2>4. CASE f.request = 0
    BY <2>2, <2>3, <2>4 DEF Close, TypesInv, RequestInv
  <2>5. CASE f.request # 0
    <3> DEFINE k == f.request
               c == [redraft[k] EXCEPT !.status = "COMPLETED", !.run = f]
    <3>1. k \in 1..Len(redraft) /\ f \in Fingerprints
      BY <1>0, <2>1, <2>5
    <3>2. redraft' = [redraft EXCEPT ![k].status = "COMPLETED", ![k].run = f]
      BY <2>3, <2>5 DEF Close
    <3>3. redraft' = [redraft EXCEPT ![k] = c]
      BY <3>2
    <3>4. c \in Requests /\ c.source = redraft[k].source /\ c.run = f
      BY <1>0, <3>1 DEF Requests
    <3> HIDE DEF c, k
    <3>5. redraft' \in Seq(Requests) /\ Len(redraft') = Len(redraft)
      BY <1>0, <3>1, <3>3, <3>4, ExceptSeq
    <3>6. \A j \in 1..Len(redraft) : redraft'[j] = IF j = k THEN c ELSE redraft[j]
      BY <1>0, <3>3
    <3> HIDE DEF f
    <3> QED BY <1>0, <2>2, <3>1, <3>4, <3>5, <3>6 DEF TypesInv, RequestInv
  <2> QED BY <2>4, <2>5
<1>5. ASSUME NEW f \in Drafted, Request(f)
      PROVE  RequestInv'
  <2> DEFINE c == [source |-> f, status |-> "REQUESTED", run |-> None]
  <2>1. redraft' = Append(redraft, c) /\ UNCHANGED runs
    BY <1>5 DEF Request
  <2>2. c \in Requests /\ c.source = f /\ c.status = "REQUESTED"
    BY <1>0 DEF Requests, Drafted
  <2> HIDE DEF c
  <2>3. /\ redraft' \in Seq(Requests) /\ Len(redraft') = Len(redraft) + 1
        /\ redraft'[Len(redraft) + 1] = c /\ \A k \in 1..Len(redraft) : redraft'[k] = redraft[k]
    BY <1>0, <2>1, <2>2, Appended
  <2>4. Drafted' = Drafted
    BY <2>1 DEF Drafted
  <2>5. ASSUME NEW k \in 1..Len(redraft')
        PROVE  /\ redraft'[k].source \in Drafted'
               /\ redraft'[k].status = "COMPLETED" => redraft'[k].run \in Drafted'
    <3>1. CASE k \in 1..Len(redraft)
      BY <2>3, <2>4, <3>1 DEF TypesInv, RequestInv
    <3>2. CASE k = Len(redraft) + 1
      BY <2>2, <2>3, <2>4, <3>2
    <3> QED BY <1>0, <2>3, <3>1, <3>2
  <2>6. \A g \in DOMAIN runs' : g.request <= Len(redraft')
    BY <1>0, <2>1, <2>3
  <2> QED BY <2>3, <2>5, <2>6 DEF RequestInv
<1>6. CASE UNCHANGED <<runs, redraft, at, calls>>
  BY <1>6 DEF TypesInv, RequestInv, Drafted
<1> QED BY <1>2, <1>3, <1>4, <1>5, <1>6, StepKinds

(* Callers keep theirs, and their runs are there.                          *)
LEMMA CallerStep ==
  ASSUME TypesInv, CallInv, AttemptInv, VersionInv, [Next]_vars
  PROVE  CallerInv'
<1>0. at \in [Procs -> Callers] /\ Idle.pc = "idle" /\ Idle \in Callers
  BY IdleCaller DEF TypesInv, CallerInv
<1>1. ASSUME NEW p \in Procs, NEW c \in Callers, at' = [at EXCEPT ![p] = c],
             DOMAIN runs \subseteq DOMAIN runs',
             IF c.pc = "idle" THEN c = Idle ELSE c.run \in DOMAIN runs'
      PROVE  CallerInv'
  BY <1>0, <1>1 DEF TypesInv, CallerInv
<1>2. ASSUME UNCHANGED at, DOMAIN runs \subseteq DOMAIN runs'
      PROVE  CallerInv'
  BY <1>2 DEF TypesInv, CallerInv
<1>3. ASSUME NEW p \in Procs, Grows(p)
      PROVE  CallerInv'
  <2>1. PICK f \in Fingerprints, r \in RunRows :
          /\ runs' = [g \in DOMAIN runs \union {f} |-> IF g \in DOMAIN runs THEN runs[g] ELSE r]
          /\ UNCHANGED at \/ at' = [at EXCEPT ![p] = Entering("start", f, Len(runs'[f].tries))]
    BY <1>3 DEF Grows
  <2>2. DOMAIN runs' = DOMAIN runs \union {f} /\ runs'[f] \in RunRows
    BY <2>1, GrownRuns DEF TypesInv
  <2>3. Len(runs'[f].tries) \in Nat
    BY <2>2, LenProperties DEF RunRows
  <2>4. Entering("start", f, Len(runs'[f].tries)) \in Callers
    BY <2>3, "start" \in Labels, EnteringCaller DEF Labels
  <2>5. /\ Entering("start", f, Len(runs'[f].tries)).pc = "start"
        /\ Entering("start", f, Len(runs'[f].tries)).run = f
    BY DEF Entering
  <2> QED BY <1>1, <1>2, <2>1, <2>2, <2>4, <2>5
<1>4. ASSUME NEW p \in Procs, Turns(p)
      PROVE  CallerInv'
  <2>1. PICK c : /\ Moved(p, c)
                 /\ \/ c \in {at[p], Idle}
                    \/ \E l \in Labels, f \in DOMAIN runs :
                         c = Entering(l, f, Len(runs[f].tries))
    BY <1>4 DEF Turns
  <2>2. DOMAIN runs' = DOMAIN runs
    BY <1>4, ChangedRuns DEF Turns, TypesInv
  <2>3. IF c.pc = "idle" THEN c = Idle ELSE c.run \in DOMAIN runs
    BY <1>0, <2>1 DEF TypesInv, CallerInv, Entering, Labels
  <2> QED BY <1>1, <2>1, <2>2, <2>3 DEF Moved
<1>5. ASSUME NEW p \in Procs, Starts(p) \/ Finishes(p)
      PROVE  CallerInv'
  <2>1. at[p].pc # "idle"
    BY <1>5 DEF Starts, Finishes
  <2>2. PICK c : Moved(p, c) /\ c.pc \in {"called", "store", "fail"} /\ c.run = at[p].run
    BY <1>5 DEF Starts, Finishes
  <2>3. DOMAIN runs' = DOMAIN runs
    BY <1>5, ChangedRuns DEF Starts, Finishes, TypesInv
  <2>4. at[p].run \in DOMAIN runs
    BY <2>1 DEF TypesInv, CallerInv
  <2> QED BY <1>1, <2>2, <2>3, <2>4 DEF Moved
<1>6. ASSUME NEW p \in Procs, Stores(p)
      PROVE  CallerInv'
  <2>1. DOMAIN runs' = DOMAIN runs /\ Moved(p, Idle)
    BY <1>6, ChangedRuns DEF Stores, TypesInv
  <2> QED BY <1>0, <1>1, <2>1 DEF Moved
<1>7. ASSUME NEW f, Request(f)
      PROVE  CallerInv'
  BY <1>2, <1>7 DEF Request
<1>8. CASE UNCHANGED <<runs, redraft, at, calls>>
  BY <1>2, <1>8
<1> QED BY <1>3, <1>4, <1>5, <1>6, <1>7, <1>8, StepKinds

-----------------------------------------------------------------------------
(* Attempts. *)

Steps(p) == Grows(p) \/ Turns(p) \/ Starts(p) \/ Finishes(p) \/ Stores(p)

(* The attempts of a run.                                                  *)
LEMMA TriesType ==
  ASSUME RunInv, NEW f \in DOMAIN runs
  PROVE  /\ runs[f] \in RunRows /\ runs[f].tries \in Seq(Outcomes) /\ Len(runs[f].tries) \in Nat
         /\ DOMAIN runs[f].tries = 1..Len(runs[f].tries)
<1>1. runs[f] \in RunRows
  BY DEF RunInv
<1> QED BY <1>1, LenProperties DEF RunRows

TriesKept(p, g) ==
  /\ g \in DOMAIN runs' /\ Len(runs[g].tries) <= Len(runs'[g].tries)
  /\ \A n \in 1..Len(runs[g].tries) :
       \/ runs'[g].tries[n] = runs[g].tries[n]
       \/ at[p].pc = "called" /\ at[p].run = g /\ at[p].seen = n
  /\ (Len(runs'[g].tries) = Len(runs[g].tries)) \/ (Starts(p) /\ g = at[p].run)

(* Attempts are only added, and keep their outcome: only the caller of one *)
(* that is under way changes it.                                           *)
LEMMA TriesGrow ==
  ASSUME TypesInv, NEW p \in Procs, Steps(p), NEW g \in DOMAIN runs
  PROVE  TriesKept(p, g)
<1>0. runs[g].tries \in Seq(Outcomes) /\ Len(runs[g].tries) \in Nat
  BY TriesType DEF TypesInv
<1>n. Len(runs[g].tries) \in Nat
  BY <1>0
<1>1. ASSUME g \in DOMAIN runs', runs'[g].tries = runs[g].tries
      PROVE  TriesKept(p, g)
  BY <1>0, <1>1 DEF TriesKept
<1>2. CASE Grows(p)
  <2>1. PICK f \in Fingerprints, r \in RunRows :
          runs' = [h \in DOMAIN runs \union {f} |-> IF h \in DOMAIN runs THEN runs[h] ELSE r]
    BY <1>2 DEF Grows
  <2>2. g \in DOMAIN runs' /\ runs'[g] = runs[g]
    BY <2>1
  <2> QED BY <1>1, <2>2
<1>3. ASSUME NEW f, NEW r, Changed(f, r), g = f => r.tries = runs[f].tries
      PROVE  TriesKept(p, g)
  <2>1. g \in DOMAIN runs' /\ runs'[g].tries = runs[g].tries
    BY <1>3, ChangedRuns DEF TypesInv
  <2> QED BY <1>1, <2>1
<1>4. UNCHANGED runs => g \in DOMAIN runs' /\ runs'[g].tries = runs[g].tries
  OBVIOUS
<1>5. CASE Turns(p) \/ Stores(p)
  BY <1>1, <1>3, <1>4, <1>5 DEF Turns, Stores
<1>6. CASE Starts(p)
  <2>1. PICK r : Changed(at[p].run, r) /\ r.tries = Append(Tries(p), "STARTED")
    BY <1>6 DEF Starts
  <2>2. CASE g = at[p].run
    <3>1. g \in DOMAIN runs' /\ runs'[g].tries = Append(runs[g].tries, "STARTED")
      BY <2>1, <2>2, ChangedRuns DEF TypesInv, Tries
    <3>4. g \in DOMAIN runs'
      BY <3>1
    <3> DEFINE s == runs[g].tries
               t == runs'[g].tries
    <3>2. t = Append(s, "STARTED") /\ "STARTED" \in Outcomes
      BY <3>1 DEF Outcomes
    <3> HIDE DEF s, t
    <3>3. Len(t) = Len(s) + 1 /\ \A n \in 1..Len(s) : t[n] = s[n]
      BY <1>0, <3>2, Appended DEF s
    <3>5. Len(s) <= Len(t)
      BY <1>n, <3>3 DEF s
    <3> QED BY <1>6, <2>2, <3>3, <3>4, <3>5, Zenon DEF TriesKept, s, t
  <2> QED BY <1>3, <2>1, <2>2
<1>7. CASE Finishes(p)
  <2>0. PICK o \in {"SUCCEEDED", "FAILED"} :
          /\ \E r : Changed(at[p].run, r) /\ r.tries = [Tries(p) EXCEPT ![at[p].seen] = o]
          /\ at[p].pc = "called" /\ at[p].seen \in 1..Len(Tries(p))
    BY <1>7 DEF Finishes
  <2>1. PICK r : /\ Changed(at[p].run, r) /\ r.tries = [Tries(p) EXCEPT ![at[p].seen] = o]
                 /\ at[p].pc = "called" /\ at[p].seen \in 1..Len(Tries(p))
    BY <2>0
  <2>2. CASE g = at[p].run
    <3>1. g \in DOMAIN runs' /\ runs'[g].tries = [runs[g].tries EXCEPT ![at[p].seen] = o]
      BY <2>1, <2>2, ChangedRuns DEF TypesInv, Tries
    <3>2. at[p].seen \in 1..Len(runs[g].tries) /\ o \in Outcomes
      BY <2>1, <2>2 DEF Tries, Outcomes
    <3>3. Len(runs'[g].tries) = Len(runs[g].tries)
      BY <1>0, <3>1, <3>2, ExceptSeq
    <3>4. ASSUME NEW n \in 1..Len(runs[g].tries), n # at[p].seen
          PROVE  runs'[g].tries[n] = runs[g].tries[n]
      BY <1>0, <3>1, <3>4, LenProperties
    <3> QED BY <1>0, <2>1, <2>2, <3>1, <3>3, <3>4 DEF TriesKept
  <2> QED BY <1>3, <2>1, <2>2
<1> QED BY <1>2, <1>5, <1>6, <1>7 DEF Steps

(* Callers besides the one that moves stay.                                *)
LEMMA OthersStay ==
  ASSUME TypesInv, NEW p \in Procs, Steps(p), NEW q \in Procs, q # p
  PROVE  at'[q] = at[q]
<1>1. at \in [Procs -> Callers]
  BY DEF TypesInv, CallerInv
<1> QED BY <1>1 DEF Steps, Grows, Turns, Starts, Finishes, Stores, Moved

(* Where the one that moves may come to.                                   *)
LEMMA MoverGoes ==
  ASSUME TypesInv, NEW p \in Procs, Steps(p)
  PROVE  \/ at'[p] = at[p] /\ (Turns(p) \/ at[p] = Idle)
         \/ at'[p] = Idle
         \/ \E f \in DOMAIN runs' : /\ at'[p].pc \in Labels /\ at'[p].run = f
                                    /\ at'[p].seen = Len(runs'[f].tries)
         \/ Starts(p) /\ at'[p].pc = "called" /\ at'[p].run = at[p].run /\ at'[p].seen = at[p].seen + 1
         \/ Finishes(p) /\ at'[p].pc \in {"store", "fail"} /\ at'[p].run = at[p].run /\ at'[p].seen = at[p].seen
<1>0. at \in [Procs -> Callers]
  BY DEF TypesInv, CallerInv
<1>1. CASE Grows(p)
  <2>1. PICK f \in Fingerprints, r \in RunRows :
          /\ runs' = [h \in DOMAIN runs \union {f} |-> IF h \in DOMAIN runs THEN runs[h] ELSE r]
          /\ at[p] = Idle
          /\ UNCHANGED at \/ at' = [at EXCEPT ![p] = Entering("start", f, Len(runs'[f].tries))]
    BY <1>1 DEF Grows
  <2>2. f \in DOMAIN runs'
    BY <2>1
  <2> QED BY <1>0, <2>1, <2>2 DEF Entering, Labels
<1>2. CASE Turns(p)
  <2>1. PICK c : /\ Moved(p, c)
                 /\ \/ c \in {at[p], Idle}
                    \/ \E l \in Labels, f \in DOMAIN runs :
                         c = Entering(l, f, Len(runs[f].tries))
    BY <1>2 DEF Turns
  <2>2. at'[p] = c
    BY <1>0, <2>1 DEF Moved
  <2>3. ASSUME NEW l \in Labels, NEW f \in DOMAIN runs, c = Entering(l, f, Len(runs[f].tries))
        PROVE  /\ f \in DOMAIN runs' /\ at'[p].pc \in Labels /\ at'[p].run = f
               /\ at'[p].seen = Len(runs'[f].tries)
    <3>1. f \in DOMAIN runs' /\ runs'[f].tries = runs[f].tries
      BY <1>2, ChangedRuns DEF Turns, TypesInv
    <3> QED BY <2>2, <2>3, <3>1 DEF Entering
  <2> QED BY <1>2, <2>1, <2>2, <2>3
<1>3. CASE Starts(p)
  BY <1>0, <1>3 DEF Starts, Moved
<1>4. CASE Finishes(p)
  <2>1. PICK c : /\ Moved(p, c) /\ c.run = at[p].run /\ c.seen = at[p].seen
                 /\ c.pc \in {"store", "fail"}
    BY <1>4 DEF Finishes
  <2>2. at'[p] = c
    BY <1>0, <2>1 DEF Moved
  <2> QED BY <1>4, <2>1, <2>2
<1>5. CASE Stores(p)
  BY <1>0, <1>5 DEF Stores, Moved
<1> QED BY <1>1, <1>2, <1>3, <1>4, <1>5 DEF Steps

(* Calls stay counted by attempts, whoever makes them.                     *)
LEMMA CallStep ==
  ASSUME TypesInv, CallInv, AttemptInv, RunInv', CallerInv', [Next]_vars
  PROVE  CallInv'
<1>0. /\ calls \in [DOMAIN runs -> Nat] /\ Idle.pc = "idle"
      /\ \A f \in DOMAIN runs : calls[f] = Len(runs[f].tries) /\ calls[f] <= MaxAttempts
      /\ MaxAttempts \in Nat
  BY DraftingAssumption, IdleCaller DEF CallInv, DraftingAssumption
<1>1. ASSUME NEW p \in Procs, Steps(p)
      PROVE  CallInv'
  <2>1. ASSUME NEW q \in Procs, at'[q].pc # "idle"
        PROVE  at'[q].seen <= Len(runs'[at'[q].run].tries)
    <3>0. at'[q].run \in DOMAIN runs' /\ at'[q].seen \in Nat
      BY <2>1 DEF CallerInv, Callers
    <3>1. Len(runs'[at'[q].run].tries) \in Nat
      <4>1. runs'[at'[q].run] \in RunRows
        BY <3>0 DEF RunInv
      <4> QED BY <4>1, LenProperties DEF RunRows
    <3>2. CASE at'[q] = at[q]
      <4>1. at[q].run \in DOMAIN runs /\ at[q].seen <= Len(runs[at[q].run].tries)
        BY <2>1, <3>2 DEF TypesInv, CallerInv, CallInv, Tries
      <4>2. Len(runs[at[q].run].tries) <= Len(runs'[at[q].run].tries)
        BY <1>1, <4>1, TriesGrow DEF TriesKept
      <4>3. Len(runs[at[q].run].tries) \in Nat
        BY <4>1, TriesType DEF TypesInv
      <4> QED BY <3>0, <3>1, <3>2, <4>1, <4>2, <4>3
    <3>3. CASE q = p /\ Starts(p) /\ at'[p].run = at[p].run /\ at'[p].seen = at[p].seen + 1
      <4>1. PICK r : Changed(at[p].run, r) /\ r.tries = Append(Tries(p), "STARTED")
        BY <3>3 DEF Starts
      <4>2. runs'[at[p].run].tries = Append(Tries(p), "STARTED") /\ at[p].seen + 1 = Len(Tries(p)) + 1
        BY <3>3, <4>1, ChangedRuns DEF Starts, TypesInv
      <4>3. Tries(p) \in Seq(Outcomes)
        BY <3>3, RunOfCaller DEF Starts, TypesInv
      <4>4. Len(Append(Tries(p), "STARTED")) = Len(Tries(p)) + 1
        BY <4>3, AppendProperties DEF Outcomes
      <4> QED BY <3>0, <3>3, <4>2, <4>4
    <3>4. CASE q = p /\ Finishes(p) /\ at'[p].run = at[p].run /\ at'[p].seen = at[p].seen
      <4>1. at[p].pc = "called"
        BY <3>4 DEF Finishes
      <4>2. at[p].run \in DOMAIN runs /\ at[p].seen <= Len(runs[at[p].run].tries)
        BY <4>1 DEF TypesInv, CallerInv, CallInv, Tries
      <4>3. Len(runs[at[p].run].tries) <= Len(runs'[at[p].run].tries)
        BY <1>1, <4>2, TriesGrow DEF TriesKept
      <4>4. Len(runs[at[p].run].tries) \in Nat
        BY <4>2, TriesType DEF TypesInv
      <4> QED BY SMTT(40), <3>0, <3>1, <3>4, <4>2, <4>3, <4>4
    <3>5. CASE q = p /\ \E f \in DOMAIN runs' : at'[p].run = f /\ at'[p].seen = Len(runs'[f].tries)
      BY <3>1, <3>5
    <3> QED BY <1>0, <1>1, <2>1, <3>2, <3>3, <3>4, <3>5, OthersStay, MoverGoes
  <2>2. /\ calls' \in [DOMAIN runs' -> Nat]
        /\ \A f \in DOMAIN runs' : calls'[f] = Len(runs'[f].tries) /\ calls'[f] <= MaxAttempts
    <3>1. CASE Grows(p)
      <4>1. PICK f \in Fingerprints, r \in RunRows :
              /\ r.tries = <<>>
              /\ runs' = [g \in DOMAIN runs \union {f} |-> IF g \in DOMAIN runs THEN runs[g] ELSE r]
              /\ calls' = [g \in DOMAIN runs \union {f} |-> IF g \in DOMAIN runs THEN calls[g] ELSE 0]
        BY <3>1 DEF Grows
      <4>2. Len(r.tries) = 0
        BY <4>1, EmptySeq
      <4> QED BY <1>0, <4>1, <4>2
    <3>2. CASE Starts(p)
      <4> DEFINE f == at[p].run
      <4>1. PICK r : Changed(f, r) /\ r.tries = Append(Tries(p), "STARTED")
        BY <3>2 DEF Starts
      <4>2. /\ DOMAIN runs' = DOMAIN runs /\ runs'[f] = r /\ f \in DOMAIN runs
            /\ \A g \in DOMAIN runs : g # f => runs'[g] = runs[g]
        BY <4>1, ChangedRuns DEF TypesInv
      <4>3. calls' = [calls EXCEPT ![f] = @ + 1] /\ Len(Tries(p)) + 1 <= MaxAttempts
        BY <3>2 DEF Starts
      <4>4. Len(runs'[f].tries) = Len(runs[f].tries) + 1
        <5>1. Tries(p) \in Seq(Outcomes) /\ Tries(p) = runs[f].tries
          BY <3>2, RunOfCaller DEF Starts, TypesInv, Tries
        <5> QED BY <4>1, <4>2, <5>1, AppendProperties DEF Outcomes
      <4>5. calls'[f] = Len(runs'[f].tries) /\ calls'[f] <= MaxAttempts
        BY <1>0, <4>2, <4>3, <4>4 DEF Tries
      <4>6. \A g \in DOMAIN runs : g # f => calls'[g] = calls[g]
        BY <1>0, <4>3
      <4>7. calls' \in [DOMAIN runs -> Nat]
        BY <1>0, <4>2, <4>3
      <4> HIDE DEF f
      <4> QED BY <1>0, <4>2, <4>5, <4>6, <4>7
    <3>3. CASE Turns(p) \/ Finishes(p) \/ Stores(p)
      <4>1. DOMAIN runs' = DOMAIN runs /\ calls' = calls
        BY <3>3, ChangedRuns DEF Turns, Finishes, Stores, TypesInv
      <4>2. \A g \in DOMAIN runs : Len(runs'[g].tries) = Len(runs[g].tries)
        <5>1. ASSUME Starts(p) PROVE at[p].pc = "start"
          BY <5>1 DEF Starts
        <5>2. ASSUME NEW g \in DOMAIN runs, NEW f, NEW r, Changed(f, r), r.tries = runs[f].tries
              PROVE  Len(runs'[g].tries) = Len(runs[g].tries)
          BY <5>2, ChangedRuns DEF TypesInv
        <5>3. CASE Turns(p) \/ Stores(p)
          BY <5>2, <5>3 DEF Turns, Stores
        <5>4. CASE Finishes(p)
          BY <1>1, <5>1, <5>4, TriesGrow DEF Finishes, TriesKept
        <5> QED BY <3>3, <5>3, <5>4
      <4> QED BY <1>0, <4>1, <4>2
    <3> QED BY <1>1, <3>1, <3>2, <3>3 DEF Steps
  <2> QED BY <2>1, <2>2 DEF CallInv, Tries
<1>2. CASE UNCHANGED <<runs, at, calls>>
  BY <1>2 DEF CallInv, Tries
<1> QED BY <1>1, <1>2, StepKinds DEF Steps, Request

(* An attempt that is under way stays STARTED until its one caller         *)
(* finishes it.                                                            *)
LEMMA AttemptStep ==
  ASSUME TypesInv, CallInv, AttemptInv, RunInv', CallerInv', [Next]_vars
  PROVE  AttemptInv'
<1>1. ASSUME NEW p \in Procs, Steps(p)
      PROVE  AttemptInv'
  <2>0. /\ \A q \in Procs : q # p => at'[q] = at[q]
        /\ Idle.pc = "idle"
    BY <1>1, OthersStay, IdleCaller
  <2>1. ASSUME NEW q \in Procs, at[q].pc \in {"called", "store"}
        PROVE  /\ at[q].run \in DOMAIN runs /\ at[q].seen \in 1..Len(runs[at[q].run].tries)
               /\ at[q].seen \in Nat /\ at[q].seen # 0 /\ Len(runs[at[q].run].tries) \in Nat
    <3>1. at[q].run \in DOMAIN runs /\ at[q].seen \in Nat /\ at[q].seen # 0
      BY <2>1 DEF TypesInv, CallerInv, Callers, AttemptInv
    <3>2. at[q].seen <= Len(runs[at[q].run].tries)
      BY <2>1 DEF CallInv, Tries
    <3> QED BY <3>1, <3>2, TriesType DEF TypesInv
  <2>2. ASSUME NEW q \in Procs, at[q].pc \in {"called", "store"}, q # p \/ ~Finishes(p)
        PROVE  runs'[at[q].run].tries[at[q].seen] = runs[at[q].run].tries[at[q].seen]
    <3>1. CASE at[p].pc = "called" /\ at[p].run = at[q].run /\ at[p].seen = at[q].seen
      <4>1. CASE Finishes(p)
        BY <2>2, <3>1, <4>1 DEF AttemptInv, Tries
      <4>2. CASE Turns(p)
        <5>1. CASE UNCHANGED runs
          BY <5>1
        <5>2. ASSUME NEW f, NEW r, Changed(f, r), r.tries = runs[f].tries
              PROVE  runs'[at[q].run].tries = runs[at[q].run].tries
          BY <2>1, <2>2, <5>2, ChangedRuns DEF TypesInv
        <5> QED BY <4>2, <5>1, <5>2 DEF Turns
      <4>3. CASE Grows(p) \/ Starts(p) \/ Stores(p)
        BY <3>1, <4>3, IdleCaller DEF Grows, Starts, Stores
      <4> QED BY <1>1, <4>1, <4>2, <4>3 DEF Steps
    <3>2. CASE ~(at[p].pc = "called" /\ at[p].run = at[q].run /\ at[p].seen = at[q].seen)
      BY <1>1, <2>1, <2>2, <3>2, TriesGrow DEF TriesKept
    <3> QED BY <3>1, <3>2
  <2>3. ASSUME NEW q \in Procs, at'[q] = at[q], q # p \/ ~Finishes(p)
        PROVE  /\ at'[q].pc \in {"called", "store"} => at'[q].seen # 0
               /\ at'[q].pc = "called" => runs'[at'[q].run].tries[at'[q].seen] = "STARTED"
               /\ at'[q].pc = "store" => runs'[at'[q].run].tries[at'[q].seen] = "SUCCEEDED"
    BY <2>2, <2>3 DEF AttemptInv, Tries
  <2>4. ASSUME Starts(p)
        PROVE  /\ at[p].seen + 1 # 0 /\ runs'[at[p].run].tries[at[p].seen + 1] = "STARTED"
               /\ at[p].seen + 1 = Len(runs[at[p].run].tries) + 1
    <3>1. PICK r : Changed(at[p].run, r) /\ r.tries = Append(Tries(p), "STARTED")
      BY <2>4 DEF Starts
    <3>2. at[p].seen + 1 = Len(Tries(p)) + 1 /\ Tries(p) \in Seq(Outcomes) /\ at[p].seen \in Nat
      BY <2>4, RunOfCaller DEF Starts, TypesInv
    <3>3. runs'[at[p].run].tries = Append(Tries(p), "STARTED")
      BY <3>1, ChangedRuns DEF TypesInv
    <3>4. Append(Tries(p), "STARTED")[Len(Tries(p)) + 1] = "STARTED"
      BY <3>2, AppendProperties DEF Outcomes
    <3>5. runs'[at[p].run].tries[at[p].seen + 1] = "STARTED"
      BY <3>2, <3>3, <3>4, Zenon
    <3>6. at[p].seen + 1 # 0
      BY <3>2
    <3> QED BY <3>2, <3>5, <3>6, Zenon DEF Tries
  <2>5. ASSUME Finishes(p), at'[p].pc = "store"
        PROVE  at[p].seen # 0 /\ runs'[at[p].run].tries[at[p].seen] = "SUCCEEDED"
    <3> DEFINE f == at[p].run
               n == at[p].seen
    <3>p. PICK o \in {"SUCCEEDED", "FAILED"} :
            /\ at[p].pc = "called" /\ n \in 1..Len(Tries(p))
            /\ \E r : /\ Changed(f, r) /\ r.tries = [Tries(p) EXCEPT ![n] = o]
                      /\ r.draft = runs[f].draft
            /\ \E c : /\ Moved(p, c) /\ c.run = f /\ c.seen = n
                      /\ IF o = "SUCCEEDED" THEN c.pc = "store" /\ c.version = NextVersion
                                            ELSE c.pc = "fail"
      BY <2>5, Zenon DEF Finishes
    <3>0. /\ at[p].pc = "called" /\ at[p].seen \in 1..Len(Tries(p))
          /\ \E r : Changed(at[p].run, r) /\ r.tries = [Tries(p) EXCEPT ![at[p].seen] = o]
          /\ \E c : Moved(p, c) /\ (o # "SUCCEEDED" => c.pc = "fail")
      BY <3>p, Zenon
    <3>1. PICK r : Changed(at[p].run, r) /\ r.tries = [Tries(p) EXCEPT ![at[p].seen] = o]
      BY <3>0
    <3>2. o = "SUCCEEDED"
      <4>1. ASSUME NEW c, Moved(p, c), c.pc = "fail"
            PROVE  FALSE
        <5>1. at'[p] = c
          BY <4>1 DEF Moved, TypesInv, CallerInv
        <5> QED BY <2>5, <4>1, <5>1
      <4> QED BY <3>0, <4>1
    <3>3. runs'[at[p].run].tries = [Tries(p) EXCEPT ![at[p].seen] = "SUCCEEDED"]
      BY <3>1, <3>2, ChangedRuns DEF TypesInv
    <3>4. Tries(p) \in Seq(Outcomes) /\ at[p].seen \in DOMAIN Tries(p)
      BY <3>0, RunOfCaller, LenProperties DEF TypesInv
    <3>5. at[p].seen # 0
      BY <2>1, <3>0
    <3> QED BY <3>3, <3>4, <3>5
  <2>6. ASSUME NEW q \in Procs
        PROVE  /\ at'[q].pc \in {"called", "store"} => at'[q].seen # 0
               /\ at'[q].pc = "called" => runs'[at'[q].run].tries[at'[q].seen] = "STARTED"
               /\ at'[q].pc = "store" => runs'[at'[q].run].tries[at'[q].seen] = "SUCCEEDED"
    <3>1. CASE q # p
      BY <2>0, <2>3, <3>1
    <3>2. CASE q = p /\ Finishes(p) /\ at'[p].run = at[p].run /\ at'[p].seen = at[p].seen
            /\ at'[p].pc \in {"store", "fail"}
      BY <2>5, <3>2
    <3>3. CASE q = p /\ Starts(p) /\ at'[p].pc = "called" /\ at'[p].run = at[p].run
            /\ at'[p].seen = at[p].seen + 1
      BY <2>4, <3>3
    <3>4. CASE q = p /\ at'[p].pc \in {"idle"} \union Labels
      BY <3>4 DEF Labels
    <3>5. CASE q = p /\ at'[p] = at[p] /\ ~Finishes(p)
      BY <2>3, <3>5
    <3>6. CASE q = p /\ at'[p] = at[p] /\ Finishes(p)
      <4>1. at'[p].pc # "called" /\ at[p].pc = "called"
        BY <3>6 DEF Finishes, Moved, TypesInv, CallerInv
      <4> QED BY <3>6, <4>1
    <3> QED BY <1>1, <2>0, <3>1, <3>2, <3>3, <3>4, <3>5, <3>6, MoverGoes
  <2>7. ASSUME NEW a \in Procs, NEW b \in Procs, at'[a].pc = "called", at'[b].pc = "called",
               at'[a].run = at'[b].run, at'[a].seen = at'[b].seen
        PROVE  a = b
    <3>1. CASE at'[p].pc = "called" /\ ~Starts(p)
      <4>1. at'[p] = at[p]
        BY <1>1, <2>0, <3>1, MoverGoes DEF Labels
      <4> QED BY <2>0, <2>7, <4>1 DEF AttemptInv
    <3>2. CASE at'[p].pc # "called"
      BY <2>0, <2>7, <3>2 DEF AttemptInv
    <3>3. CASE at'[p].pc = "called" /\ Starts(p)
      <4>1. at'[p].run = at[p].run /\ at'[p].seen = Len(runs[at[p].run].tries) + 1
        BY <2>4, <3>3 DEF Starts, Moved, TypesInv, CallerInv
      <4>2. ASSUME NEW q \in Procs, q # p, at'[q].pc = "called", at'[q].run = at'[p].run
            PROVE  at'[q].seen # at'[p].seen
        <5>1. at'[q] = at[q]
          BY <2>0, <4>2
        <5> QED BY <2>1, <4>1, <4>2, <5>1
      <4> QED BY <2>0, <2>7, <4>2 DEF AttemptInv
    <3> QED BY <3>1, <3>2, <3>3
  <2> QED BY <2>6, <2>7 DEF AttemptInv, Tries
<1>2. CASE UNCHANGED <<runs, at, calls>>
  BY <1>2 DEF AttemptInv, Tries
<1> QED BY <1>1, <1>2, StepKinds DEF Steps, Request

-----------------------------------------------------------------------------
(* Versions. *)

(* n things numbered 1 to n, and one more with a free number up to n + 1.  *)
LEMMA NumberedOneMore ==
  ASSUME NEW D, NEW E, NEW f, NEW v, NEW d, NEW e, IsFiniteSet(D), f \notin D,
         {d[g] : g \in D} = 1..Cardinality(D), E = D \union {f},
         \A g \in D : e[g] = d[g] /\ d[g] # v, e[f] = v, v \in 1..(1 + Cardinality(D))
  PROVE  /\ v = 1 + Cardinality(D) /\ Cardinality(E) = 1 + Cardinality(D)
         /\ {e[g] : g \in E} = 1..Cardinality(E)
<1>1. Cardinality(D) \in Nat /\ Cardinality(E) = Cardinality(D) + 1
  BY FS_CardinalityType, FS_AddElement
<1>2. v \notin 1..Cardinality(D)
  <2>1. v \notin {d[g] : g \in D}
    OBVIOUS
  <2> QED BY <2>1
<1>3. v = 1 + Cardinality(D)
  BY <1>1, <1>2
<1>4. {e[g] : g \in E} = {d[g] : g \in D} \union {v}
  OBVIOUS
<1>5. 1..(Cardinality(D) + 1) = 1..Cardinality(D) \union {1 + Cardinality(D)}
  BY <1>1
<1> QED BY <1>1, <1>3, <1>4, <1>5

(* There are finitely many drafts.                                         *)
LEMMA DraftedFinite ==
  ASSUME RunInv
  PROVE  IsFiniteSet(Drafted) /\ Cardinality(Drafted) \in Nat
<1>1. Drafted \subseteq DOMAIN runs /\ IsFiniteSet(DOMAIN runs)
  BY DEF Drafted, RunInv
<1> QED BY <1>1, FS_Subset, FS_CardinalityType

(* An attempt that succeeded is never changed.                             *)
LEMMA SuccessStays ==
  ASSUME TypesInv, CallInv, AttemptInv, RunInv', NEW p \in Procs, Steps(p), NEW f \in DOMAIN runs,
         \E n \in DOMAIN runs[f].tries : runs[f].tries[n] = "SUCCEEDED"
  PROVE  \E n \in DOMAIN runs'[f].tries : runs'[f].tries[n] = "SUCCEEDED"
<1>1. PICK n \in DOMAIN runs[f].tries : runs[f].tries[n] = "SUCCEEDED"
  OBVIOUS
<1>2. TriesKept(p, f)
  BY TriesGrow
<1>3. n \in 1..Len(runs[f].tries) /\ Len(runs[f].tries) \in Nat
  BY <1>1, TriesType DEF TypesInv
<1>4. f \in DOMAIN runs' /\ Len(runs[f].tries) <= Len(runs'[f].tries)
  BY <1>2 DEF TriesKept
<1>5. DOMAIN runs'[f].tries = 1..Len(runs'[f].tries) /\ Len(runs'[f].tries) \in Nat
  <2>1. runs'[f] \in RunRows
    BY <1>4 DEF RunInv
  <2> QED BY <2>1, LenProperties DEF RunRows
<1>6. runs'[f].tries[n] = runs[f].tries[n]
  BY <1>1, <1>2, <1>3 DEF TriesKept, AttemptInv, Tries
<1> QED BY <1>1, <1>3, <1>4, <1>5, <1>6

(* What a draft that is stored does to the numbers.                        *)
LEMMA StoredNumber ==
  ASSUME TypesInv, VersionInv, NEW p \in Procs, Stores(p)
  PROVE  LET f == at[p].run IN
         /\ DOMAIN runs' = DOMAIN runs /\ f \notin Drafted /\ Drafted' = Drafted \union {f}
         /\ runs'[f].draft = 1 + Cardinality(Drafted) /\ runs'[f].tries = runs[f].tries
         /\ Cardinality(Drafted') = 1 + Cardinality(Drafted)
         /\ {runs'[g].draft : g \in Drafted'} = 1..Cardinality(Drafted')
         /\ \A g \in Drafted : /\ runs'[g] = runs[g]
                               /\ runs[g].draft \in 1..Cardinality(Drafted)
<1> DEFINE f == at[p].run
           v == at[p].version
           d == [g \in Drafted |-> runs[g].draft]
           e == [g \in Drafted' |-> runs'[g].draft]
<1>1. v \in 1..NextVersion /\ v # 0
  BY DraftedFinite DEF Stores, VersionInv, TypesInv, NextVersion
<1>2. /\ DOMAIN runs' = DOMAIN runs /\ f \notin Drafted /\ Drafted' = Drafted \union {f}
      /\ runs'[f].draft = v /\ runs'[f].tries = runs[f].tries
      /\ \A g \in Drafted : g # f /\ runs'[g] = runs[g] /\ runs[g].draft # v
  BY <1>1, Stored
<1>3. {runs[g].draft : g \in Drafted} = 1..Cardinality(Drafted)
  BY DEF VersionInv, DraftsNumbered
<1>4. {d[g] : g \in Drafted} = 1..Cardinality(Drafted)
  BY <1>3
<1>5. e[f] = v /\ \A g \in Drafted : e[g] = d[g] /\ d[g] # v
  BY <1>2
<1>6. \A g \in Drafted : runs[g].draft \in 1..Cardinality(Drafted)
  BY <1>3
<1>7. IsFiniteSet(Drafted) /\ v \in 1..(1 + Cardinality(Drafted))
  BY <1>1, DraftedFinite DEF TypesInv, NextVersion
<1>8. {e[g] : g \in Drafted'} = {runs'[g].draft : g \in Drafted'}
  OBVIOUS
<1> HIDE DEF d, e, v, f
<1>9. /\ v = 1 + Cardinality(Drafted) /\ Cardinality(Drafted') = 1 + Cardinality(Drafted)
      /\ {e[g] : g \in Drafted'} = 1..Cardinality(Drafted')
  BY <1>2, <1>4, <1>5, <1>7, NumberedOneMore
<1> QED BY <1>2, <1>6, <1>8, <1>9 DEF f

(* Drafts stay numbered, each with an attempt that succeeded.              *)
LEMMA NumberedStep ==
  ASSUME TypesInv, CallInv, AttemptInv, VersionInv, RunInv', [Next]_vars
  PROVE  DraftsNumbered' /\ NextVersion <= NextVersion'
<1>0. NextVersion \in Nat
  BY DraftedFinite DEF NextVersion, TypesInv
<1>1. ASSUME DraftsStand
      PROVE  /\ {runs'[f].draft : f \in Drafted'} = 1..Cardinality(Drafted')
             /\ NextVersion' = NextVersion
  BY <1>1 DEF DraftsStand, VersionInv, DraftsNumbered, NextVersion
<1>2. ASSUME NEW p \in Procs, Steps(p)
      PROVE  DraftsNumbered' /\ NextVersion <= NextVersion'
  <2>1. \A f \in Drafted : \E n \in DOMAIN runs'[f].tries : runs'[f].tries[n] = "SUCCEEDED"
    BY <1>2, SuccessStays DEF VersionInv, DraftsNumbered, Drafted
  <2>2. CASE ~Stores(p)
    <3>1. DraftsStand
      BY <1>2, <2>2, Stand DEF Steps
    <3> QED BY <1>0, <1>1, <2>1, <3>1 DEF DraftsStand, DraftsNumbered
  <2>3. CASE Stores(p)
    <3> DEFINE f == at[p].run
    <3>1. /\ Drafted' = Drafted \union {f} /\ Cardinality(Drafted') = 1 + Cardinality(Drafted)
          /\ {runs'[g].draft : g \in Drafted'} = 1..Cardinality(Drafted')
      BY <2>3, StoredNumber
    <3>2. f \in DOMAIN runs /\ at[p].seen \in Nat
      BY <2>3, RunOfCaller DEF Stores, TypesInv
    <3>3. \E n \in DOMAIN runs[f].tries : runs[f].tries[n] = "SUCCEEDED"
      <4>1. Tries(p)[at[p].seen] = "SUCCEEDED" /\ at[p].seen # 0 /\ at[p].seen <= Len(Tries(p))
        BY <2>3 DEF Stores, AttemptInv, CallInv
      <4>2. DOMAIN Tries(p) = 1..Len(Tries(p)) /\ Len(Tries(p)) \in Nat
        BY <3>2, TriesType DEF TypesInv, Tries
      <4>3. at[p].seen \in DOMAIN Tries(p)
        BY <3>2, <4>1, <4>2
      <4> QED BY <4>1, <4>3 DEF Tries
    <3>4. \E n \in DOMAIN runs'[f].tries : runs'[f].tries[n] = "SUCCEEDED"
      BY <1>2, <3>2, <3>3, SuccessStays
    <3>5. NextVersion <= NextVersion'
      BY <1>0, <3>1, DraftedFinite DEF NextVersion, TypesInv
    <3> HIDE DEF f
    <3> QED BY <2>1, <3>1, <3>4, <3>5 DEF DraftsNumbered
  <2> QED BY <2>2, <2>3
<1>3. CASE UNCHANGED runs
  <2>1. Drafted' = Drafted
    BY <1>3 DEF Drafted
  <2> QED BY <1>0, <1>3, <2>1 DEF VersionInv, DraftsNumbered, NextVersion
<1> QED BY <1>2, <1>3, StepKinds DEF Steps, Request

(* A completed redraft request stays one with a newer draft.               *)
LEMMA NewerStep ==
  ASSUME TypesInv, CallInv, AttemptInv, VersionInv, [Next]_vars
  PROVE  RedraftIsNewer'
<1>0. /\ redraft \in Seq(Requests) /\ Len(redraft) \in Nat /\ DOMAIN redraft = 1..Len(redraft)
      /\ \A k \in 1..Len(redraft) : redraft[k] \in Requests
      /\ \A k \in DOMAIN redraft : /\ redraft[k].source \in Drafted
                                   /\ redraft[k].status = "COMPLETED" => redraft[k].run \in Drafted
  BY LenProperties, ElementOfSeq DEF TypesInv, RequestInv
<1>1. ASSUME \A f \in Drafted : runs'[f].draft = runs[f].draft, UNCHANGED redraft
      PROVE  RedraftIsNewer'
  BY <1>0, <1>1 DEF VersionInv, RedraftIsNewer
<1>2. ASSUME NEW p \in Procs, Grows(p) \/ Turns(p) \/ Starts(p) \/ Finishes(p)
      PROVE  RedraftIsNewer'
  <2>1. UNCHANGED redraft
    BY <1>2 DEF Grows, Turns, Starts, Finishes
  <2> QED BY <1>1, <1>2, <2>1, Stand DEF DraftsStand
<1>3. ASSUME NEW p \in Procs, Stores(p)
      PROVE  RedraftIsNewer'
  <2> DEFINE f == at[p].run
             k == f.request
  <2>1. /\ f \notin Drafted /\ runs'[f].draft = 1 + Cardinality(Drafted)
        /\ \A g \in Drafted : runs'[g] = runs[g] /\ runs[g].draft \in 1..Cardinality(Drafted)
    BY <1>3, StoredNumber
  <2>2. Close(f)
    BY <1>3 DEF Stores
  <2>3. CASE k = 0
    BY <1>1, <2>1, <2>2, <2>3 DEF Close
  <2>4. CASE k # 0
    <3>1. redraft' = [redraft EXCEPT ![k].status = "COMPLETED", ![k].run = f]
      BY SMTT(40), <2>2, <2>4 DEF Close
    <3>2. /\ DOMAIN redraft' = DOMAIN redraft
          /\ \A j \in DOMAIN redraft : j # k => redraft'[j] = redraft[j]
          /\ k \in DOMAIN redraft => redraft'[k].source = redraft[k].source /\ redraft'[k].run = f
      BY <1>0, <3>1 DEF Requests
    <3>3. Cardinality(Drafted) \in Nat
      BY DraftedFinite DEF TypesInv
    <3>4. ASSUME NEW j \in DOMAIN redraft', redraft'[j].status = "COMPLETED"
          PROVE  /\ redraft'[j].run.request = j
                 /\ runs'[redraft'[j].run].draft > runs'[redraft'[j].source].draft
      <4>1. CASE j = k
        <5>1. k \in DOMAIN redraft /\ redraft'[j].run = f /\ redraft'[j].source = redraft[k].source
          BY <3>2, <4>1
        <5>2. redraft[k].source \in Drafted
          BY <1>0, <5>1
        <5> DEFINE g == redraft[k].source
        <5>3. runs'[g].draft \in 1..Cardinality(Drafted)
          BY <2>1, <5>2
        <5>4. runs'[f].draft > runs'[g].draft
          BY <2>1, <3>3, <5>3
        <5> QED BY <4>1, <5>1, <5>4
      <4>2. CASE j # k
        <5>1. j \in DOMAIN redraft /\ redraft'[j] = redraft[j] /\ redraft[j].status = "COMPLETED"
          BY <3>2, <3>4, <4>2
        <5>2. redraft[j].run \in Drafted /\ redraft[j].source \in Drafted
          BY <1>0, <5>1
        <5>3. /\ redraft[j].run.request = j
              /\ runs[redraft[j].run].draft > runs[redraft[j].source].draft
          BY <5>1 DEF VersionInv, RedraftIsNewer
        <5>4. /\ runs'[redraft[j].run] = runs[redraft[j].run]
              /\ runs'[redraft[j].source] = runs[redraft[j].source]
          BY <2>1, <5>2
        <5> QED BY <5>1, <5>3, <5>4
      <4> QED BY <4>1, <4>2
    <3> QED BY <3>4 DEF RedraftIsNewer
  <2> QED BY <2>3, <2>4
<1>4. ASSUME NEW f \in Drafted, Request(f)
      PROVE  RedraftIsNewer'
  <2> DEFINE c == [source |-> f, status |-> "REQUESTED", run |-> None]
  <2>1. redraft' = Append(redraft, c) /\ UNCHANGED runs
    BY <1>4 DEF Request
  <2>2. c \in Requests /\ c.status = "REQUESTED"
    BY DEF Requests, Drafted, TypesInv, RunInv
  <2> HIDE DEF c
  <2>3. /\ redraft' \in Seq(Requests) /\ Len(redraft') = Len(redraft) + 1
        /\ redraft'[Len(redraft) + 1] = c /\ \A k \in 1..Len(redraft) : redraft'[k] = redraft[k]
    BY <1>0, <2>1, <2>2, Appended
  <2>4. DOMAIN redraft' = 1..(Len(redraft) + 1)
    BY <2>3, LenProperties
  <2>5. \A k \in DOMAIN redraft' : redraft'[k].status = "COMPLETED" =>
          k \in DOMAIN redraft /\ redraft'[k] = redraft[k]
    BY <1>0, <2>2, <2>3, <2>4
  <2> QED BY <2>1, <2>5 DEF VersionInv, RedraftIsNewer
<1>5. CASE UNCHANGED <<runs, redraft, at, calls>>
  BY <1>1, <1>5
<1> QED BY <1>2, <1>3, <1>4, <1>5, StepKinds

(* A version read before the transaction that uses it is free, or taken,   *)
(* when it does.                                                           *)
LEMMA VersionStep ==
  ASSUME TypesInv, CallInv, AttemptInv, VersionInv, RunInv', [Next]_vars
  PROVE  VersionInv'
<1>1. DraftsNumbered' /\ RedraftIsNewer' /\ NextVersion <= NextVersion'
  BY NumberedStep, NewerStep
<1>2. NextVersion \in Nat \ {0} /\ NextVersion' \in Nat
  <2>1. Drafted' \subseteq DOMAIN runs' /\ IsFiniteSet(DOMAIN runs')
    BY DEF Drafted, RunInv
  <2>2. Cardinality(Drafted') \in Nat
    BY <2>1, FS_Subset, FS_CardinalityType
  <2>3. NextVersion' = 1 + Cardinality(Drafted') /\ NextVersion = 1 + Cardinality(Drafted)
    BY DEF NextVersion
  <2> QED BY <2>2, <2>3, DraftedFinite DEF TypesInv
<1>3. ASSUME NEW q \in Procs, at[q].pc = "store"
      PROVE  at[q].version \in 1..NextVersion'
  BY <1>1, <1>2, <1>3 DEF VersionInv
<1>4. ASSUME NEW p \in Procs, Steps(p), NEW q \in Procs, at'[q].pc = "store"
      PROVE  at'[q].version \in 1..NextVersion'
  <2>1. CASE at'[q] = at[q]
    BY <1>3, <1>4, <2>1
  <2>2. CASE q = p /\ Finishes(p)
    <3>1. PICK c : Moved(p, c) /\ (c.pc = "store" => c.version = NextVersion)
      BY <2>2 DEF Finishes
    <3>2. at'[p] = c
      BY <3>1 DEF Moved, TypesInv, CallerInv
    <3> QED BY <1>1, <1>2, <1>4, <2>2, <3>1, <3>2
  <2> QED BY <1>4, <2>1, <2>2, OthersStay, MoverGoes, IdleCaller DEF Labels
<1>5. UNCHANGED at => \A q \in Procs : at'[q].pc = "store" => at'[q].version \in 1..NextVersion'
  BY <1>3
<1>6. \A q \in Procs : at'[q].pc = "store" => at'[q].version \in 1..NextVersion'
  BY <1>4, <1>5, StepKinds DEF Steps, Request
<1> QED BY <1>1, <1>6 DEF VersionInv

-----------------------------------------------------------------------------
(* The invariant. *)

(* The first state.                                                        *)
LEMMA InitInv ==
  ASSUME Init
  PROVE  DraftingInv
<1>1. /\ packets = <<>> /\ DOMAIN runs = {} /\ runs = [f \in {} |-> None] /\ redraft = <<>>
      /\ at = [p \in Procs |-> Idle] /\ calls = [f \in {} |-> 0] /\ fit = TRUE
      /\ evidence = Evidence
  BY DEF Init, PapersInit
<1>2. Ready = {} /\ Drafted = {}
  BY <1>1, EmptySeq DEF Ready, Drafted
<1>3. PacketInv
  BY <1>1, <1>2, EmptySeq DEF PacketInv
<1>4. RunInv
  BY <1>1, FS_EmptySet DEF RunInv
<1>5. RequestInv
  BY <1>1, EmptySeq DEF RequestInv
<1>6. \A p \in Procs : at[p] = Idle /\ Idle.pc = "idle"
  BY <1>1, IdleCaller
<1>7. CallerInv /\ CallInv /\ AttemptInv
  BY <1>1, <1>6, IdleCaller DEF CallerInv, CallInv, AttemptInv
<1>8. VersionInv
  <2>1. Cardinality(Drafted) = 0
    BY <1>2, FS_EmptySet
  <2>2. DraftsNumbered
    BY <1>2, <2>1 DEF DraftsNumbered
  <2>3. RedraftIsNewer
    BY <1>1, EmptySeq DEF RedraftIsNewer
  <2> QED BY <1>6, <2>2, <2>3 DEF VersionInv
<1> QED BY <1>3, <1>4, <1>5, <1>7, <1>8 DEF DraftingInv

(* DraftingInv is inductive.                                               *)
LEMMA InvStep ==
  ASSUME DraftingInv, [Next]_vars
  PROVE  DraftingInv'
<1>1. TypesInv /\ CallInv /\ AttemptInv /\ VersionInv /\ PacketInv
  BY DEF DraftingInv, TypesInv
<1>2. PacketInv' /\ RunInv' /\ RequestInv' /\ CallerInv'
  BY <1>1, PacketStep, PacketsAssumption, RunStep, RequestStep, CallerStep
<1>3. CallInv' /\ AttemptInv' /\ VersionInv'
  BY <1>1, <1>2, CallStep, AttemptStep, VersionStep
<1> QED BY <1>2, <1>3 DEF DraftingInv

(* The inductive invariant: rows and callers have their types, an attempt  *)
(* is a call, and drafts are numbered.                                     *)
THEOREM DraftingHolds == Spec => []DraftingInv
<1>1. Init => DraftingInv
  BY InitInv
<1>2. DraftingInv /\ [Next]_vars => DraftingInv'
  BY InvStep
<1> QED BY <1>1, <1>2, PTL DEF Spec

(* At most one packet of the campaign is usable, whatever is recalled,     *)
(* expires or is invalidated.                                              *)
THEOREM OneReadyPacketHolds == Spec => []OneReadyPacket
<1>1. ASSUME DraftingInv
      PROVE  OneReadyPacket
  <2>1. \A i, j \in Ready : i = j
    BY <1>1 DEF DraftingInv, PacketInv
  <2>2. CASE Ready = {}
    BY <2>2, FS_EmptySet DEF OneReadyPacket
  <2>3. ASSUME NEW i \in Ready
        PROVE  OneReadyPacket
    <3>1. Ready = {i}
      BY <2>1, <2>3
    <3> QED BY <3>1, FS_Singleton DEF OneReadyPacket
  <2> QED BY <2>2, <2>3
<1> QED BY <1>1, DraftingHolds, PTL

(* Whatever deaths and second callers do, a run calls its provider at most *)
(* MaxAttempts times.                                                      *)
THEOREM CallsBoundedHolds == Spec => []CallsBounded
<1>1. DraftingInv => CallsBounded
  BY DEF DraftingInv, CallInv, CallsBounded
<1> QED BY <1>1, DraftingHolds, PTL

-----------------------------------------------------------------------------
(* What awaits review.  A caller that has a run for itself works on one    *)
(* that awaits nothing, or found an attempt without an outcome that only a *)
(* death can have left.                                                    *)

LoneInv ==
  \A p, q \in Procs :
    at[p].pc # "idle" /\ at[q].pc # "idle" /\ at[p].run = at[q].run /\ at[p].run \notin shared
      => p = q
Working == {"start", "called", "fail"}
WorkFit(p) ==
  /\ at[p].pc \in Working /\ at[p].run \notin shared
       => runs[at[p].run].state # "REVIEW_PENDING"
  /\ at[p].pc = "hold" /\ at[p].run \notin shared => Unresolved(at[p].run)
WorkInv == \A p \in Procs : WorkFit(p)
PendingInv == \A f \in DOMAIN runs : runs[f].state = "REVIEW_PENDING" => runs[f].draft # 0
OrphanInv ==
  /\ crashes \in Nat
  /\ \A f \in DOMAIN runs : \A n \in DOMAIN runs[f].tries :
       runs[f].tries[n] = "STARTED" /\ crashes = 0 =>
         \E p \in Procs : at[p].pc = "called" /\ at[p].run = f /\ at[p].seen = n
ReviewInv == LoneInv /\ WorkInv /\ PendingInv /\ OrphanInv

(* Where a caller's step takes it: to a run, or on with the one it has.    *)
Goes(p) ==
  \/ \E l \in Labels, f \in DOMAIN runs' :
       /\ at'[p].pc = l /\ at'[p].run = f
       /\ shared' = shared \union {g \in {f} : \E q \in Procs \ {p} : at[q].run = f}
  \/ /\ UNCHANGED shared
     /\ \/ at'[p] = at[p] \/ at'[p] = Idle
        \/ at[p].pc # "idle" /\ at'[p].pc # "idle" /\ at'[p].run = at[p].run
OthersWait(p) == \A q \in Procs \ {p} : at'[q] = at[q]

LEMMA CallerGoes ==
  ASSUME DraftingInv, NEW p \in Procs, Call(p)
  PROVE  Goes(p) /\ OthersWait(p)
<1>0. at \in [Procs -> Callers] /\ RunInv /\ CallerInv
  BY DEF DraftingInv, CallerInv
<1>1. ASSUME NEW l \in Labels, NEW f \in DOMAIN runs', Enter(p, l, f)
      PROVE  Goes(p) /\ OthersWait(p)
  BY <1>0, <1>1 DEF Enter, Goes, OthersWait
<1>2. ASSUME NEW i, NEW q, Generate(p, i, q) PROVE Goes(p) /\ OthersWait(p)
  <2> DEFINE f == Fingerprint(Fresh(i), q)
  <2>1. f \in DOMAIN runs' /\ (UNCHANGED <<at, shared>> \/ Enter(p, "start", f))
    BY <1>2 DEF Generate
  <2> HIDE DEF f
  <2>2. "start" \in Labels
    BY DEF Labels
  <2>3. UNCHANGED <<at, shared>> => Goes(p) /\ OthersWait(p)
    BY DEF Goes, OthersWait
  <2> QED BY <1>1, <2>1, <2>2, <2>3
<1>3. ASSUME NEW f \in DOMAIN runs, Resume(p, f) PROVE Goes(p) /\ OthersWait(p)
  <2>1. \E l \in Labels : Enter(p, l, f) /\ f \in DOMAIN runs'
    BY <1>3 DEF Resume, Labels
  <2> QED BY <1>1, <2>1
<1>4. ASSUME at' = [at EXCEPT ![p] = Idle], UNCHANGED shared
      PROVE  Goes(p) /\ OthersWait(p)
  BY <1>0, <1>4 DEF Goes, OthersWait
<1>5. CASE Hold(p) \/ Persist(p) \/ Crash(p)
  BY <1>4, <1>5 DEF Hold, Persist, Crash
<1>6. CASE Start(p)
  <2>1. \/ at' = [at EXCEPT ![p] = Idle]
        \/ \E n : at' = [at EXCEPT ![p].pc = "called", ![p].seen = n]
    BY <1>6 DEF Start
  <2>2. at[p].pc = "start" /\ UNCHANGED shared
    BY <1>6 DEF Start
  <2>3. ASSUME NEW n, at' = [at EXCEPT ![p].pc = "called", ![p].seen = n]
        PROVE  Goes(p) /\ OthersWait(p)
    BY <1>0, <2>2, <2>3 DEF Goes, OthersWait, Callers
  <2> QED BY <1>4, <2>1, <2>2, <2>3
<1>7. CASE Fail(p)
  <2>1. at[p].run \in DOMAIN runs
    BY <1>0, <1>7 DEF Fail, CallerInv
  <2>2. "start" \in Labels
    BY DEF Labels
  <2>3. \/ at' = [at EXCEPT ![p] = Idle] /\ UNCHANGED shared
        \/ Enter(p, "start", at[p].run)
    BY <1>7 DEF Fail
  <2>4. at[p].run \in DOMAIN runs'
    BY <1>7, <2>1 DEF Fail
  <2> QED BY <1>1, <1>4, <2>2, <2>3, <2>4
<1>8. ASSUME NEW o, Finish(p, o) PROVE Goes(p) /\ OthersWait(p)
  <2>1. /\ at[p].pc = "called" /\ UNCHANGED shared
        /\ \E l \in {"store", "fail"} :
             \E v : at' = [at EXCEPT ![p].pc = l, ![p].version = v]
    BY <1>8 DEF Finish
  <2>2. PICK l \in {"store", "fail"} :
          \E v : at' = [at EXCEPT ![p].pc = l, ![p].version = v]
    BY <2>1
  <2>3. PICK v : at' = [at EXCEPT ![p].pc = l, ![p].version = v]
    BY <2>2
  <2> QED BY <1>0, <2>1, <2>2, <2>3 DEF Goes, OthersWait, Callers
<1> QED BY <1>2, <1>3, <1>5, <1>6, <1>7, <1>8 DEF Call

(* Callers share runs that exist.                                          *)
SharedInv == shared \subseteq DOMAIN runs

LEMMA SharedInit == Init => SharedInv
BY DEF Init, SharedInv

LEMMA SharedStep == DraftingInv /\ SharedInv /\ [Next]_vars => SharedInv'
<1> SUFFICES ASSUME DraftingInv, SharedInv, [Next]_vars PROVE SharedInv'
  OBVIOUS
<1>2. ASSUME NEW p \in Procs, Call(p) PROVE SharedInv'
  <2>1. Goes(p)
    BY <1>2, CallerGoes
  <2>2. ASSUME NEW i, NEW q, Generate(p, i, q) PROVE DOMAIN runs \subseteq DOMAIN runs'
    BY <2>2 DEF Generate
  <2>3. ASSUME NEW f, Resume(p, f) PROVE DOMAIN runs \subseteq DOMAIN runs'
    BY <2>3 DEF Resume
  <2>4. ASSUME NEW o, Finish(p, o) PROVE DOMAIN runs \subseteq DOMAIN runs'
    BY <2>4 DEF Finish
  <2>5. Hold(p) \/ Start(p) \/ Fail(p) \/ Persist(p) \/ Crash(p)
          => DOMAIN runs \subseteq DOMAIN runs'
    BY DEF Hold, Start, Fail, Persist, Crash
  <2>6. DOMAIN runs \subseteq DOMAIN runs'
    BY <1>2, <2>2, <2>3, <2>4, <2>5 DEF Call
  <2> QED BY <2>1, <2>6 DEF Goes, SharedInv
<1>3. UNCHANGED vars \/ (\E g \in Drafted : Request(g)) \/ Turn
        \/ (\E E \in SUBSET Evidence : Collect(E)) \/ UNCHANGED drafting
      => UNCHANGED <<runs, shared>>
  BY DEF vars, Request, Turn, Collect, drafting
<1> QED BY <1>2, <1>3 DEF Next, SharedInv

(* The type invariant of the runs, the requests and the callers.           *)
THEOREM TypesHold == Spec => []TypeOK
<1>1. ASSUME DraftingInv, SharedInv
      PROVE  TypeOK
  <2>0. RunInv /\ RequestInv /\ CallerInv /\ CallInv
    BY <1>1 DEF DraftingInv
  <2>1. ASSUME NEW f \in DOMAIN runs
        PROVE  /\ runs[f].state \in RunStates /\ runs[f].draft \in Nat
               /\ \A n \in DOMAIN runs[f].tries : runs[f].tries[n] \in Outcomes
               /\ f.request \in 0..Len(redraft)
    <3>1. runs[f] \in RunRows /\ f \in Fingerprints
      BY <2>0 DEF RunInv
    <3>2. f.request \in Nat /\ f.request <= Len(redraft)
      BY <2>0, <3>1 DEF RequestInv, Fingerprints
    <3>3. Len(redraft) \in Nat
      BY <2>0, LenProperties DEF RequestInv
    <3>4. \A n \in DOMAIN runs[f].tries : runs[f].tries[n] \in Outcomes
      BY <3>1, ElementOfSeq, LenProperties DEF RunRows
    <3> QED BY <3>1, <3>2, <3>3, <3>4 DEF RunRows
  <2>2. ASSUME NEW k \in DOMAIN redraft
        PROVE  redraft[k].source \in DOMAIN runs /\ redraft[k].status \in {"REQUESTED", "COMPLETED"}
    <3>1. redraft \in Seq(Requests) /\ k \in 1..Len(redraft)
      BY <2>0, LenProperties DEF RequestInv
    <3>2. redraft[k] \in Requests
      BY <3>1, ElementOfSeq
    <3> QED BY <2>0, <3>1, <3>2 DEF RequestInv, Drafted, Requests
  <2>3. \A p \in Procs : /\ at[p].pc \in {"idle", "hold", "start", "called", "fail", "store"}
                         /\ at[p] # Idle => at[p].run \in DOMAIN runs
    BY <2>0 DEF CallerInv, Callers
  <2>4. DOMAIN calls = DOMAIN runs /\ fit \in BOOLEAN /\ evidence \subseteq Evidence
    BY <2>0 DEF CallInv, RunInv
  <2> QED BY <1>1, <2>1, <2>2, <2>3, <2>4 DEF TypeOK, RunStates, Outcomes, SharedInv
<1> QED BY <1>1, DraftingHolds, SharedInit, SharedStep, PTL DEF Spec

(* Drafts are numbered without a gap or a repetition though a version is   *)
(* read before the transaction that stores it, and a redraft gets a newer  *)
(* one than the draft it replaces.                                         *)
THEOREM VersionsInOrderHolds == Spec => []VersionsInOrder
<1>1. DraftingInv /\ TypeOK => VersionsInOrder
  BY DEF DraftingInv, VersionInv, VersionsInOrder
<1> QED BY <1>1, DraftingHolds, TypesHold, PTL

(* Two callers on one run are noticed.                                     *)
LEMMA LoneStep ==
  ASSUME DraftingInv, LoneInv, CallerInv', NEW p \in Procs, Call(p)
  PROVE  LoneInv'
<1>1. Goes(p) /\ OthersWait(p) /\ Idle.pc = "idle"
  BY CallerGoes, IdleCaller
<1>2. shared \subseteq shared'
  BY <1>1 DEF Goes
<1>3. SUFFICES ASSUME NEW a \in Procs, NEW b \in Procs, at'[a].pc # "idle", at'[b].pc # "idle",
                      at'[a].run = at'[b].run, at'[a].run \notin shared'
               PROVE  a = b
  BY DEF LoneInv
<1>4. ASSUME NEW q \in Procs, q # p, at'[q].pc # "idle", at'[q].run \notin shared',
             at'[p].pc # "idle", at'[p].run = at'[q].run
      PROVE  FALSE
  <2>1. at'[q] = at[q]
    BY <1>1, <1>4 DEF OthersWait
  <2>2. CASE at[p].pc # "idle" /\ at'[p].run = at[p].run
    BY <1>2, <1>4, <2>1, <2>2 DEF LoneInv
  <2>3. CASE \E f \in DOMAIN runs' :
               /\ at'[p].run = f
               /\ shared' = shared \union {g \in {f} : \E c \in Procs \ {p} : at[c].run = f}
    BY <1>4, <2>1, <2>3
  <2>4. CASE at'[p] = at[p] \/ at'[p] = Idle
    BY <1>1, <1>4, <2>2, <2>4
  <2>5. Goes(p)
    BY <1>1
  <2> QED BY <2>2, <2>3, <2>4, <2>5 DEF Goes
<1>5. ASSUME a # p, b # p PROVE a = b
  BY <1>1, <1>2, <1>3, <1>5 DEF LoneInv, OthersWait
<1> QED BY <1>3, <1>4, <1>5

(* The run a caller has for itself, nobody else touches.                   *)
LEMMA OthersRuns ==
  ASSUME DraftingInv, LoneInv, NEW p \in Procs, Call(p), NEW q \in Procs \ {p},
         at[q].pc # "idle", at[q].run \notin shared
  PROVE  runs'[at[q].run] = runs[at[q].run]
<1> DEFINE g == at[q].run
<1>0. RunInv /\ g \in DOMAIN runs
  BY DEF DraftingInv, CallerInv
<1>1. at[p].pc # "idle" => g # at[p].run
  BY DEF LoneInv
<1>2. UNCHANGED runs => runs'[g] = runs[g]
  OBVIOUS
<1>3. ASSUME NEW i, NEW c, Generate(p, i, c) PROVE runs'[g] = runs[g]
  <2>1. PICK f : runs' = [h \in DOMAIN runs \union {f} |->
                            IF h = f THEN RunOf(f, i) ELSE runs[h]]
    BY <1>3 DEF Generate
  <2> HIDE DEF g
  <2> QED BY <1>0, <2>1 DEF RunOf
<1>4. ASSUME NEW f, Resume(p, f) PROVE runs'[g] = runs[g]
  BY <1>2, <1>4 DEF Resume
<1>5. CASE Hold(p) \/ Start(p) \/ Fail(p) \/ Persist(p) \/ \E o : Finish(p, o)
  <2>1. at[p].pc # "idle"
    BY ZenonT(60), <1>5 DEF Hold, Start, Fail, Persist, Finish
  <2>2. \/ UNCHANGED runs
        \/ \E x : runs' = [runs EXCEPT ![at[p].run] = x]
    BY <1>5 DEF Hold, Start, Fail, Persist, Finish
  <2> QED BY SMTT(40), <1>0, <1>1, <2>1, <2>2
<1>6. CASE Crash(p)
  BY <1>2, <1>6 DEF Crash
<1> QED BY <1>3, <1>4, <1>5, <1>6 DEF Call

(* A run awaits review only with a draft.                                  *)
LEMMA PendingStep ==
  ASSUME DraftingInv, PendingInv, RunInv', NEW p \in Procs, Call(p)
  PROVE  PendingInv'
<1>0. RunInv
  BY DEF DraftingInv
<1>1. UNCHANGED runs => PendingInv'
  BY DEF PendingInv
<1>2. ASSUME NEW f \in DOMAIN runs, NEW r, runs' = [runs EXCEPT ![f] = r],
             r.state = "REVIEW_PENDING" => r.draft # 0
      PROVE  PendingInv'
  BY <1>0, <1>2 DEF PendingInv, RunInv
<1>3. ASSUME NEW i, NEW q, Generate(p, i, q) PROVE PendingInv'
  <2>1. PICK f : runs' = [h \in DOMAIN runs \union {f} |->
                            IF h = f THEN RunOf(f, i) ELSE runs[h]]
    BY <1>3 DEF Generate
  <2>2. NewRun(i).state # "REVIEW_PENDING"
    BY DEF NewRun
  <2> QED BY <2>1, <2>2 DEF RunOf, PendingInv
<1>4. ASSUME NEW f, Resume(p, f) PROVE PendingInv'
  BY <1>1, <1>4 DEF Resume
<1>5. CASE Hold(p) \/ Start(p) \/ Fail(p)
  <2>1. at[p].run \in DOMAIN runs /\ runs[at[p].run] \in RunRows
    BY <1>5, RunOfCaller DEF Hold, Start, Fail, DraftingInv
  <2>2. CASE UNCHANGED runs
    BY <1>1, <2>2
  <2>3. CASE Hold(p) \/ Fail(p)
    <3>1. PICK l \in {"HOLD_FOR_REVIEW", "ERROR_TERMINAL", "ERROR_RETRYABLE"} :
            runs' = [runs EXCEPT ![at[p].run].state = l]
      BY <2>3 DEF Hold, Fail
    <3>2. [runs[at[p].run] EXCEPT !.state = l].state = l
      BY <2>1 DEF RunRows
    <3> QED BY <1>2, <2>1, <3>1, <3>2
  <2>4. CASE Start(p) /\ runs' # runs
    <3>1. runs' = [runs EXCEPT ![at[p].run].state = "GENERATED",
                               ![at[p].run].tries = Append(@, "STARTED")]
      BY <2>4 DEF Start
    <3> DEFINE r == [runs[at[p].run] EXCEPT !.state = "GENERATED",
                                            !.tries = Append(@, "STARTED")]
    <3>2. runs' = [runs EXCEPT ![at[p].run] = r] /\ r.state = "GENERATED"
      BY <2>1, <3>1 DEF RunRows
    <3> HIDE DEF r
    <3> QED BY <1>2, <2>1, <3>2
  <2> QED BY <1>5, <2>2, <2>3, <2>4
<1>6. ASSUME NEW o, Finish(p, o) PROVE PendingInv'
  <2>1. at[p].run \in DOMAIN runs /\ runs[at[p].run] \in RunRows
    BY <1>6, RunOfCaller DEF Finish, DraftingInv
  <2>2. PICK t : runs' = [runs EXCEPT ![at[p].run].tries = t]
    BY <1>6 DEF Finish
  <2> DEFINE r == [runs[at[p].run] EXCEPT !.tries = t]
  <2>3. r.state = runs[at[p].run].state /\ r.draft = runs[at[p].run].draft
    BY <2>1 DEF RunRows
  <2>4. runs' = [runs EXCEPT ![at[p].run] = r]
    BY <2>2
  <2> HIDE DEF r
  <2> QED BY <1>2, <2>1, <2>3, <2>4 DEF PendingInv
<1>7. CASE Persist(p)
  <2>1. /\ at[p].run \in DOMAIN runs /\ runs[at[p].run] \in RunRows
        /\ at[p].version \in 1..NextVersion
    BY <1>7, RunOfCaller DEF Persist, DraftingInv, VersionInv
  <2>2. CASE UNCHANGED runs
    BY <1>1, <2>2
  <2>3. CASE runs' = [runs EXCEPT ![at[p].run].state = "REVIEW_PENDING",
                                  ![at[p].run].draft = at[p].version]
    <3> DEFINE r == [runs[at[p].run] EXCEPT !.state = "REVIEW_PENDING", !.draft = at[p].version]
    <3>1. r.draft = at[p].version /\ at[p].version # 0
      BY <2>1 DEF RunRows
    <3>2. runs' = [runs EXCEPT ![at[p].run] = r]
      BY <2>3
    <3> HIDE DEF r
    <3> QED BY <1>2, <2>1, <3>1, <3>2
  <2> QED BY <1>7, <2>2, <2>3 DEF Persist
<1>8. CASE Crash(p)
  BY <1>1, <1>8 DEF Crash
<1> QED BY <1>3, <1>4, <1>5, <1>6, <1>7, <1>8 DEF Call

(* A caller that has its run for itself finds it as it left it.            *)
LEMMA WorkStep ==
  ASSUME DraftingInv, LoneInv, WorkInv, PendingInv, RunInv', CallerInv', PendingInv',
         NEW p \in Procs, Call(p)
  PROVE  WorkInv'
<1>0. /\ at \in [Procs -> Callers] /\ RunInv /\ CallerInv
      /\ Goes(p) /\ OthersWait(p) /\ shared \subseteq shared' /\ Idle.pc = "idle"
  BY CallerGoes, IdleCaller DEF DraftingInv, CallerInv, Goes
<1>1. ASSUME NEW q \in Procs \ {p} PROVE WorkFit(q)'
  <2>1. at'[q] = at[q]
    BY <1>0 DEF OthersWait
  <2>2. CASE at[q].pc = "idle" \/ at[q].run \in shared
    BY <1>0, <2>1, <2>2 DEF WorkFit, Working
  <2>3. CASE at[q].pc # "idle" /\ at[q].run \notin shared
    <3>1. runs'[at[q].run] = runs[at[q].run]
      BY <2>3, OthersRuns
    <3> QED BY <2>1, <2>3, <3>1 DEF WorkInv, WorkFit, Unresolved
  <2> QED BY <2>2, <2>3
<1>2. WorkFit(p)'
  <2>1. ASSUME at'[p].pc = "idle" PROVE WorkFit(p)'
    BY <2>1 DEF WorkFit, Working
  <2>2. ASSUME NEW i, NEW q, Generate(p, i, q) PROVE WorkFit(p)'
    <3> DEFINE f == Fingerprint(Fresh(i), q)
    <3>1. /\ f \in DOMAIN runs' /\ runs'[f] = RunOf(f, i) /\ at[p] = Idle
          /\ UNCHANGED <<at, shared>> \/ (Enter(p, "start", f) /\ ~Answers(RunOf(f, i)))
      BY <2>2 DEF Generate
    <3> HIDE DEF f
    <3>2. CASE UNCHANGED <<at, shared>>
      BY <1>0, <2>1, <3>1, <3>2
    <3>3. CASE Enter(p, "start", f) /\ ~Answers(runs'[f])
      <4>1. runs'[f].state # "REVIEW_PENDING"
        BY <3>1, <3>3 DEF Answers, PendingInv
      <4>2. at'[p].pc = "start" /\ at'[p].run = f
        BY <1>0, <3>3 DEF Enter
      <4> QED BY <4>1, <4>2 DEF WorkFit
    <3> QED BY <3>1, <3>2, <3>3
  <2>3. ASSUME NEW f \in DOMAIN runs, Resume(p, f) PROVE WorkFit(p)'
    <3>1. UNCHANGED runs
      BY <2>3 DEF Resume
    <3>2. CASE Unresolved(f) /\ Enter(p, "hold", f)
      <4>1. at'[p].pc = "hold" /\ at'[p].run = f
        BY <1>0, <3>2 DEF Enter
      <4> QED BY <3>1, <3>2, <4>1 DEF WorkFit, Working, Unresolved
    <3>3. CASE runs[f].state # "REVIEW_PENDING" /\ Enter(p, "start", f)
      <4>1. at'[p].pc = "start" /\ at'[p].run = f
        BY <1>0, <3>3 DEF Enter
      <4> QED BY <3>1, <3>3, <4>1 DEF WorkFit
    <3> QED BY <2>3, <3>2, <3>3 DEF Resume
  <2>4. CASE Hold(p) \/ Persist(p) \/ Crash(p)
    BY <1>0, <2>1, <2>4 DEF Hold, Persist, Crash
  <2>5. CASE Start(p) \/ Fail(p)
    <3>1. at[p].run \in DOMAIN runs /\ runs[at[p].run] \in RunRows
      BY <2>5, RunOfCaller DEF Start, Fail, DraftingInv
    <3>2. CASE at' = [at EXCEPT ![p] = Idle]
      BY <1>0, <2>1, <3>2
    <3>3. CASE at' # [at EXCEPT ![p] = Idle]
      <4>1. runs'[at[p].run].state \in {"GENERATED", "ERROR_TERMINAL", "ERROR_RETRYABLE"}
        BY <2>5, <3>1, <3>3 DEF Start, Fail, RunRows
      <4>2. at'[p].pc \in {"called", "start"} /\ at'[p].run = at[p].run
        BY <1>0, <2>5, <3>3 DEF Start, Fail, Enter, Callers
      <4> QED BY <4>1, <4>2 DEF WorkFit
    <3> QED BY <3>2, <3>3
  <2>6. ASSUME NEW o, Finish(p, o) PROVE WorkFit(p)'
    <3>1. at[p].run \in DOMAIN runs /\ runs[at[p].run] \in RunRows
      BY <2>6, RunOfCaller DEF Finish, DraftingInv
    <3>1a. PICK l \in {"store", "fail"} :
             \E v, t : /\ at' = [at EXCEPT ![p].pc = l, ![p].version = v]
                      /\ runs' = [runs EXCEPT ![at[p].run].tries = t]
      BY <2>6 DEF Finish
    <3>2. PICK v, t : /\ at' = [at EXCEPT ![p].pc = l, ![p].version = v]
                      /\ runs' = [runs EXCEPT ![at[p].run].tries = t]
      BY <3>1a
    <3>3. at[p].pc = "called" /\ at[p] \in Callers /\ UNCHANGED shared
      BY <1>0, <2>6 DEF Finish
    <3>4. runs'[at[p].run].state = runs[at[p].run].state
      BY <1>0, <3>1, <3>2 DEF RunRows
    <3>5. at'[p].pc = l /\ at'[p].run = at[p].run
      BY <1>0, <3>2, <3>3 DEF Callers
    <3>6. at[p].run \notin shared => runs[at[p].run].state # "REVIEW_PENDING"
      BY <3>3 DEF WorkInv, WorkFit, Working
    <3> QED BY <3>3, <3>4, <3>5, <3>6 DEF WorkFit
  <2> QED BY <2>2, <2>3, <2>4, <2>5, <2>6 DEF Call
<1> QED BY <1>1, <1>2 DEF WorkInv

(* The number an attempt gets is the one its caller then works on.         *)
LEMMA StartedHere ==
  ASSUME DraftingInv, NEW p \in Procs, Starts(p)
  PROVE  /\ at'[p].pc = "called" /\ at'[p].run = at[p].run
         /\ at'[p].seen = Len(runs[at[p].run].tries) + 1
         /\ Len(runs'[at[p].run].tries) = Len(runs[at[p].run].tries) + 1
<1> DEFINE f == at[p].run
<1>1. PICK r : Changed(f, r) /\ r.tries = Append(Tries(p), "STARTED")
  BY DEF Starts
<1>2. PICK c : Moved(p, c) /\ c.pc = "called" /\ c.run = f /\ c.seen = at[p].seen + 1
  BY DEF Starts
<1>3. at'[p] = c
  BY <1>2 DEF Moved, DraftingInv, CallerInv
<1>4. runs'[f].tries = Append(Tries(p), "STARTED")
  BY <1>1, ChangedRuns DEF DraftingInv
<1>5. Tries(p) \in Seq(Outcomes)
  BY RunOfCaller DEF Starts, DraftingInv
<1>6. Len(Append(Tries(p), "STARTED")) = Len(Tries(p)) + 1
  BY <1>5, AppendProperties DEF Outcomes
<1>7. at[p].seen + 1 = Len(Tries(p)) + 1
  BY DEF Starts
<1> HIDE DEF f
<1> QED BY <1>2, <1>3, <1>4, <1>6, <1>7 DEF Tries, f

(* The attempt its caller finishes has an outcome.                         *)
LEMMA FinishedHere ==
  ASSUME DraftingInv, NEW p \in Procs, Finishes(p)
  PROVE  runs'[at[p].run].tries[at[p].seen] # "STARTED"
<1> DEFINE f == at[p].run
           n == at[p].seen
<1>1. PICK o \in {"SUCCEEDED", "FAILED"} :
        /\ at[p].pc = "called" /\ n \in 1..Len(Tries(p))
        /\ \E r : /\ Changed(f, r) /\ r.tries = [Tries(p) EXCEPT ![n] = o]
                  /\ r.draft = runs[f].draft
        /\ \E c : /\ Moved(p, c) /\ c.run = f /\ c.seen = n
                  /\ IF o = "SUCCEEDED" THEN c.pc = "store" /\ c.version = NextVersion
                                        ELSE c.pc = "fail"
  BY Zenon DEF Finishes
<1>2. PICK r : Changed(f, r) /\ r.tries = [Tries(p) EXCEPT ![n] = o]
  BY <1>1
<1>3. runs'[f].tries = [Tries(p) EXCEPT ![n] = o]
  BY <1>2, ChangedRuns DEF DraftingInv
<1>4. n \in DOMAIN Tries(p)
  BY <1>1, RunOfCaller, LenProperties DEF DraftingInv
<1> HIDE DEF f, n
<1>5. runs'[f].tries[n] = o
  BY <1>3, <1>4
<1> QED BY <1>5 DEF f, n

(* An attempt that nobody is at, and has no outcome, is left by a death.   *)
LEMMA OrphanStep ==
  ASSUME DraftingInv, DraftingInv', OrphanInv, NEW p \in Procs, Call(p)
  PROVE  OrphanInv'
<1>0. TypesInv /\ CallInv /\ AttemptInv
  BY DEF DraftingInv, TypesInv
<1>1. CASE Crash(p)
  BY <1>1 DEF Crash, OrphanInv
<1>2. CASE ~Crash(p)
  <2>1. UNCHANGED crashes
    <3>1. (\E f \in DOMAIN runs : Resume(p, f)) \/ Hold(p) \/ Start(p) => UNCHANGED crashes
      BY DEF Resume, Hold, Start
    <3>2. Fail(p) \/ Persist(p) => UNCHANGED crashes
      BY DEF Fail, Persist
    <3>3. ASSUME NEW o, Finish(p, o) PROVE UNCHANGED crashes
      BY <3>3 DEF Finish
    <3>4. ASSUME NEW i, NEW q, Generate(p, i, q) PROVE UNCHANGED crashes
      BY <3>4 DEF Generate
    <3> QED BY <1>2, <3>1, <3>2, <3>3, <3>4 DEF Call
  <2>2. at[p].pc = "called" => Finishes(p)
    <3>1. Idle.pc = "idle"
      BY IdleCaller
    <3>2. at[p].pc = "called" => \E o \in Outputs \union {None} : Finish(p, o)
      BY <1>2, <3>1 DEF Call, Generate, Resume, Hold, Start, Fail, Persist
    <3> QED BY <1>0, <3>2, CallFinishes
  <2>3. Steps(p)
    BY <1>0, GenerateGrows, CallTurns, CallStarts, CallFinishes, CallStores
    DEF Call, CallInv, Steps
  <2>4. SUFFICES ASSUME NEW f \in DOMAIN runs', NEW n \in DOMAIN runs'[f].tries,
                        runs'[f].tries[n] = "STARTED", crashes = 0
                 PROVE  \E w \in Procs : at'[w].pc = "called" /\ at'[w].run = f /\ at'[w].seen = n
    BY <2>1 DEF OrphanInv
  <2>5. n \in 1..Len(runs'[f].tries) /\ Len(runs'[f].tries) \in Nat
    <3>1. runs'[f] \in RunRows
      BY DEF DraftingInv, RunInv
    <3> QED BY <2>4, <3>1, LenProperties DEF RunRows
  <2>6. CASE f \notin DOMAIN runs
    <3>1. Grows(p)
      BY <2>3, <2>6, <1>0, ChangedRuns
      DEF Steps, Turns, Starts, Finishes, Stores, TypesInv
    <3>2. PICK g \in Fingerprints, r \in RunRows :
            /\ r.tries = <<>>
            /\ runs' = [h \in DOMAIN runs \union {g} |-> IF h \in DOMAIN runs THEN runs[h] ELSE r]
      BY <3>1 DEF Grows
    <3>3. runs'[f].tries = <<>>
      BY <2>6, <3>2
    <3> QED BY <2>5, <3>3, EmptySeq
  <2>7. CASE f \in DOMAIN runs
    <3>1. TriesKept(p, f) /\ Len(runs[f].tries) \in Nat
            /\ DOMAIN runs[f].tries = 1..Len(runs[f].tries)
      BY <1>0, <2>3, <2>7, TriesGrow, TriesType DEF TypesInv
    <3>2. CASE n \in 1..Len(runs[f].tries)
      <4>1. ~(at[p].pc = "called" /\ at[p].run = f /\ at[p].seen = n)
        BY <2>2, <2>4, FinishedHere
      <4>2. runs[f].tries[n] = "STARTED"
        BY <2>4, <3>1, <3>2, <4>1 DEF TriesKept
      <4>3. PICK w \in Procs : at[w].pc = "called" /\ at[w].run = f /\ at[w].seen = n
        BY <2>4, <2>7, <3>1, <3>2, <4>2 DEF OrphanInv
      <4>4. w # p /\ at'[w] = at[w]
        BY <1>0, <2>3, <4>1, <4>3, OthersStay
      <4> QED BY <4>3, <4>4
    <3>3. CASE n \notin 1..Len(runs[f].tries)
      <4>1. Len(runs'[f].tries) # Len(runs[f].tries)
        BY <2>5, <3>3
      <4>2. Starts(p) /\ f = at[p].run
        BY <3>1, <4>1 DEF TriesKept
      <4>3. n = Len(runs[f].tries) + 1
        BY <2>5, <3>1, <3>3, <4>2, StartedHere
      <4> QED BY <4>2, <4>3, StartedHere
    <3> QED BY <3>2, <3>3
  <2> QED BY <2>6, <2>7
<1> QED BY <1>1, <1>2

(* Nothing is drafted at first. *)
LEMMA InitReview == Init => ReviewInv
<1> SUFFICES ASSUME Init PROVE ReviewInv
  OBVIOUS
<1>1. /\ DOMAIN runs = {} /\ at = [p \in Procs |-> Idle] /\ crashes = 0
  BY DEF Init
<1>2. \A p \in Procs : at[p].pc = "idle"
  BY <1>1, IdleCaller
<1> QED BY <1>1, <1>2
        DEF ReviewInv, LoneInv, WorkInv, WorkFit, Working, PendingInv, OrphanInv

(* ReviewInv is inductive beside DraftingInv.                              *)
LEMMA ReviewInvStep == DraftingInv /\ ReviewInv /\ [Next]_vars => ReviewInv'
<1> SUFFICES ASSUME DraftingInv, ReviewInv, [Next]_vars PROVE ReviewInv'
  OBVIOUS
<1>1. DraftingInv' /\ RunInv' /\ CallerInv'
  BY InvStep DEF DraftingInv
<1>2. ASSUME NEW p \in Procs, Call(p) PROVE ReviewInv'
  <2>1. PendingInv'
    BY <1>1, <1>2, PendingStep DEF ReviewInv
  <2>2. LoneInv' /\ WorkInv' /\ OrphanInv'
    BY <1>1, <1>2, <2>1, LoneStep, WorkStep, OrphanStep DEF ReviewInv
  <2> QED BY <2>1, <2>2 DEF ReviewInv
<1>3. CASE UNCHANGED <<runs, at, shared, crashes>>
  <2>1. LoneInv' /\ PendingInv' /\ OrphanInv'
    BY <1>3 DEF ReviewInv, LoneInv, PendingInv, OrphanInv
  <2>2. WorkInv'
    BY <1>3 DEF ReviewInv, WorkInv, WorkFit, Unresolved
  <2> QED BY <2>1, <2>2 DEF ReviewInv
<1>4. UNCHANGED vars \/ (\E g \in Drafted : Request(g)) \/ Turn
        \/ (\E E \in SUBSET Evidence : Collect(E)) \/ UNCHANGED drafting
      => UNCHANGED <<runs, at, shared, crashes>>
  BY DEF vars, Request, Turn, Collect, drafting
<1> QED BY <1>2, <1>3, <1>4 DEF Next

(* How the row of a run may change, step by step.                          *)
RowKept(f) ==
  /\ runs[f].draft # 0 => runs'[f].draft = runs[f].draft
  /\ runs[f].state = "REVIEW_PENDING" /\ runs'[f].state # "REVIEW_PENDING" =>
       \/ f \in shared
       \/ /\ runs'[f].state = "HOLD_FOR_REVIEW" /\ crashes > 0
          /\ \E n \in DOMAIN runs[f].tries : runs[f].tries[n] = "STARTED"

LEMMA ReviewStep ==
  ASSUME DraftingInv, ReviewInv, [Next]_vars, NEW f \in DOMAIN runs
  PROVE  RowKept(f)
<1>1. /\ RunInv /\ runs[f] \in RunRows /\ crashes \in Nat
  BY DEF DraftingInv, RunInv, ReviewInv, OrphanInv
<1>2. runs'[f] = runs[f] => RowKept(f)
  BY DEF RowKept
<1>3. ASSUME NEW p \in Procs, NEW i, NEW q, Generate(p, i, q)
      PROVE  RowKept(f)
  <2>1. PICK g : runs' = [h \in DOMAIN runs \union {g} |-> IF h = g THEN RunOf(g, i) ELSE runs[h]]
    BY <1>3 DEF Generate
  <2> QED BY <1>2, <2>1 DEF RunOf
<1>4. ASSUME NEW p \in Procs, NEW g, Resume(p, g)
      PROVE  RowKept(f)
  BY <1>2, <1>4 DEF Resume
<1>5. ASSUME NEW p \in Procs, Hold(p)
      PROVE  RowKept(f)
  <2>1. at[p].pc = "hold" /\ runs' = [runs EXCEPT ![at[p].run].state = "HOLD_FOR_REVIEW"]
    BY <1>5 DEF Hold
  <2>2. CASE f # at[p].run
    BY <1>1, <1>2, <2>1, <2>2 DEF RunInv
  <2>3. CASE f = at[p].run
    <3>1. runs'[f].state = "HOLD_FOR_REVIEW" /\ runs'[f].draft = runs[f].draft
      BY <1>1, <2>1, <2>3 DEF RunInv, RunRows
    <3>2. ASSUME f \notin shared
          PROVE  crashes > 0 /\ \E n \in DOMAIN runs[f].tries : runs[f].tries[n] = "STARTED"
      <4>1. PICK n \in DOMAIN runs[f].tries : runs[f].tries[n] = "STARTED"
        BY <2>1, <2>3, <3>2 DEF ReviewInv, WorkInv, WorkFit, Unresolved
      <4>2. crashes # 0
        <5>1. ASSUME NEW w \in Procs, at[w].pc = "called", at[w].run = f PROVE FALSE
          BY <2>1, <2>3, <3>2, <5>1 DEF ReviewInv, LoneInv
        <5> QED BY <4>1, <5>1 DEF ReviewInv, OrphanInv
      <4> QED BY <1>1, <4>1, <4>2
    <3> QED BY <3>1, <3>2 DEF RowKept
  <2> QED BY <2>2, <2>3
<1>6. ASSUME NEW p \in Procs, Start(p) \/ Fail(p)
      PROVE  RowKept(f)
  <2>1. CASE f # at[p].run
    BY <1>2, <1>6, <2>1 DEF Start, Fail
  <2>2. CASE f = at[p].run
    <3>1. f \notin shared => runs[f].state # "REVIEW_PENDING"
      BY <1>6, <2>2 DEF Start, Fail, ReviewInv, WorkInv, WorkFit, Working
    <3>2. runs'[f].draft = runs[f].draft
      BY <1>1, <1>6, <2>2 DEF Start, Fail, RunInv, RunRows
    <3> QED BY <3>1, <3>2 DEF RowKept
  <2> QED BY <2>1, <2>2
<1>7. ASSUME NEW p \in Procs, NEW o, Finish(p, o)
      PROVE  RowKept(f)
  <2>1. PICK t : runs' = [runs EXCEPT ![at[p].run].tries = t]
    BY <1>7 DEF Finish
  <2>2. runs'[f].state = runs[f].state /\ runs'[f].draft = runs[f].draft
    BY <1>1, <2>1 DEF RunInv, RunRows
  <2> QED BY <2>2 DEF RowKept
<1>8. ASSUME NEW p \in Procs, Persist(p)
      PROVE  RowKept(f)
  <2>1. CASE runs'[f] = runs[f]
    BY <1>2, <2>1
  <2>2. CASE runs'[f] # runs[f]
    <3>1. /\ runs' = [runs EXCEPT ![at[p].run].state = "REVIEW_PENDING",
                                  ![at[p].run].draft = at[p].version]
          /\ runs[at[p].run].draft = 0
      BY <1>8, <2>2 DEF Persist, Refused
    <3>2. f = at[p].run
      BY <1>1, <2>2, <3>1 DEF RunInv
    <3> QED BY <1>1, <3>1, <3>2 DEF RunInv, RunRows, RowKept
  <2> QED BY <2>1, <2>2
<1>9. ASSUME NEW p \in Procs, Crash(p)
      PROVE  RowKept(f)
  BY <1>2, <1>9 DEF Crash
<1>10. ASSUME NEW p \in Procs, Call(p)
       PROVE  RowKept(f)
  BY <1>3, <1>4, <1>5, <1>6, <1>7, <1>8, <1>9, <1>10 DEF Call
<1>11. CASE UNCHANGED vars \/ (\E g \in Drafted : Request(g)) \/ Turn
              \/ (\E E \in SUBSET Evidence : Collect(E)) \/ UNCHANGED drafting
  <2>1. UNCHANGED runs
    BY <1>11 DEF vars, Request, Turn, Collect, drafting
  <2> QED BY <1>2, <2>1
<1> QED BY <1>10, <1>11 DEF Next

(* A draft stays with its run, and while callers are busy with a run one   *)
(* after the other, only a death's attempt without an outcome takes it out *)
(* of review.                                                              *)
THEOREM ReviewKeptHolds == Spec => ReviewKept
<1>1. DraftingInv /\ ReviewInv /\ [Next]_vars =>
        [\A f \in DOMAIN runs :
           /\ runs[f].draft # 0 => runs'[f].draft = runs[f].draft
           /\ runs[f].state = "REVIEW_PENDING" /\ runs'[f].state # "REVIEW_PENDING" =>
                \/ f \in shared
                \/ /\ runs'[f].state = "HOLD_FOR_REVIEW" /\ crashes > 0
                   /\ \E n \in DOMAIN runs[f].tries : runs[f].tries[n] = "STARTED"]_vars
  BY ReviewStep DEF RowKept
<1>2. Init => DraftingInv /\ ReviewInv
  BY InitInv, InitReview
<1>3. DraftingInv /\ ReviewInv /\ [Next]_vars => (DraftingInv /\ ReviewInv)'
  BY InvStep, ReviewInvStep
<1> QED BY <1>1, <1>2, <1>3, PTL DEF Spec, ReviewKept
=============================================================================
