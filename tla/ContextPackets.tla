--------------------------- MODULE ContextPackets ---------------------------
(***************************************************************************)
(* Knowledge context packets and the offer, step8_knowledge_context.py and *)
(* step9_audit_offer.py: what drafting needs to be READY and ACTIVE before *)
(* it may start.  One campaign.  A recalled record is known by the         *)
(* snapshot it comes from, its section, whether it is approved Gold with   *)
(* nothing missing, and its text, which stands for source and hash.        *)
(***************************************************************************)
EXTENDS Naturals, Sequences, FiniteSets

CONSTANTS
  Revisions,   \* snapshot revisions
  Sections,    \* REQUIRED_GOLD_SECTIONS
  Recalls,     \* what a recall may bring: sequences of records
  Offers,      \* offer versions in play, "immediate" among them
  MaxPackets,  \* bound on the packets built
  None         \* NULL: no revision, no offer, no packet

ASSUME PacketsAssumption ==
  /\ "immediate" \in Offers /\ None \notin Revisions /\ Sections # {}
  /\ \A q \in Recalls : \A k \in DOMAIN q :
       /\ DOMAIN q[k] = {"rev", "section", "gold", "text"}
       /\ q[k].rev \in Revisions \union {None} /\ q[k].gold \in BOOLEAN

VARIABLES
  packets,  \* kb_context_packets, in the order of their ids
  offer     \* audit_offer_versions.status, None for a version not created

papers == <<packets, offer>>

-----------------------------------------------------------------------------
(* validate_recalled_gold_records: the snapshot is the one the first       *)
(* record to name one names, be it accepted or not (that a caller may ask  *)
(* for a snapshot adds no outcome); the records of another are rejected.   *)
Snapshot(q) ==
  LET named == {k \in DOMAIN q : q[k].rev # None}
  IN IF named = {} THEN None ELSE q[CHOOSE k \in named : \A j \in named : k <= j].rev

(* _normalise_record lets through what is Gold, approved by the operator,  *)
(* complete, unexpired, and of the snapshot.                               *)
Accepted(q, rev) == {k \in DOMAIN q : q[k].gold /\ q[k].rev # None /\ q[k].rev = rev}

Records(q, rev) == {q[k] : k \in Accepted(q, rev)}

(* _contradictions *)
Contradictory(S) ==
  \E a, b \in S : a.section = b.section /\ a.section \in Sections /\ a.text # b.text

(* _compact_section: the protected lines of an "unsafe" text exceed the    *)
(* section's budget.                                                       *)
Unsafe(S) == \E r \in S : r.section \in Sections /\ r.text = "unsafe"

Whole(S) == Sections \subseteq {r.section : r \in S} /\ ~Contradictory(S) /\ ~Unsafe(S)

(* UNIQUE (packet_id, source_id, content_hash) refuses a packet with a     *)
(* record recalled twice, and the transaction with it.                     *)
Twice(q, rev) ==
  \E j, k \in Accepted(q, rev) : j # k /\ q[j].text = q[k].text

Hash(q) == <<q.rev, q.texts>>

Live(q)   == q.state \in {"READY", "NOT_READY"}
Ready     == {i \in DOMAIN packets : packets[i].state = "READY"}
Newest(S) == CHOOSE i \in S : \A j \in S : j <= i

Invalid(q) == [q EXCEPT !.state = "INVALIDATED", !.fresh = FALSE]

(* Live packets have no invalidation_reason, which is left out.  That a    *)
(* NOT_READY one has had its time only matters when it is built again, and *)
(* is left out too.                                                        *)
(*                                                                         *)
(* The packets of another snapshot, when there is one to speak of.  Seeded *)
(* fault: another snapshot's packets stay.                                 *)
SupersedesNone(q, r) == FALSE
Supersedes(q, r) == r.rev # None /\ q.rev # r.rev /\ Live(q)

(* build_context_packet: other snapshots lose their packets; a packet of   *)
(* the same content that still has time is used again; otherwise this      *)
(* snapshot's packets give way to a new one.  One transaction.             *)
BuildPacket(q) ==
  LET rev  == Snapshot(q)
      new  == [rev |-> rev, texts |-> {r.text : r \in Records(q, rev)}, fresh |-> TRUE,
               state |-> IF Whole(Records(q, rev)) THEN "READY" ELSE "NOT_READY"]
      rest == [i \in DOMAIN packets |->
                 IF Supersedes(packets[i], new) THEN Invalid(packets[i]) ELSE packets[i]]
      same == {i \in DOMAIN rest : Hash(rest[i]) = Hash(new) /\ Live(rest[i])
                                     /\ rest[i].fresh}
      gone == [i \in DOMAIN rest |->
                 IF rest[i].rev = rev /\ Live(rest[i]) THEN Invalid(rest[i]) ELSE rest[i]]
  IN /\ IF same # {} THEN packets' = rest
        ELSE /\ Len(packets) < MaxPackets /\ ~Twice(q, rev)
             /\ packets' = Append(gone, new)
     /\ UNCHANGED offer

(* The clock passes expires_at. *)
PassTtl(i) ==
  /\ packets[i].state = "READY" /\ packets[i].fresh
  /\ packets' = [packets EXCEPT ![i].fresh = FALSE]
  /\ UNCHANGED offer

(* _mark_expired, from inspect_packet_readiness. *)
Expired(q) == IF q.state = "READY" /\ ~q.fresh THEN [q EXCEPT !.state = "EXPIRED"] ELSE q
InspectPacket(i) ==
  packets' = [packets EXCEPT ![i] = Expired(@)] /\ UNCHANGED offer

(* get_current_context_packet, for a caller that expects a revision or     *)
(* None.  A packet of another revision loses its force, an expired one     *)
(* too.                                                                    *)
GetCurrent(rev) ==
  /\ Ready # {}
  /\ LET i == Newest(Ready) IN
     packets' = [packets EXCEPT ![i] =
       IF rev # None /\ @.rev # rev THEN Invalid(@) ELSE Expired(@)]
  /\ UNCHANGED offer

(* invalidate_context_packet: in whatever state the packet is. *)
InvalidatePacket(i) ==
  packets' = [packets EXCEPT ![i] = Invalid(@)] /\ UNCHANGED offer

-----------------------------------------------------------------------------
Allowed ==
  {<<"DRAFT", "PROPOSED">>, <<"DRAFT", "RETIRED">>, <<"PROPOSED", "APPROVED">>,
   <<"PROPOSED", "RETIRED">>, <<"APPROVED", "ACTIVE">>, <<"APPROVED", "RETIRED">>,
   <<"ACTIVE", "RETIRED">>}

OtherActive(o) == \E x \in Offers \ {o} : offer[x] = "ACTIVE"

(* transition_audit_offer by the operator, the AI may only propose. *)
MoveOffer(o, target, actor) ==
  /\ <<offer[o], target>> \in Allowed
  /\ target \in {"APPROVED", "ACTIVE", "RETIRED"} => actor = "OPERATOR"
  /\ target = "ACTIVE" => ~OtherActive(o)
  /\ offer' = [offer EXCEPT ![o] = target]
  /\ UNCHANGED packets

(* create_audit_offer_version *)
CreateOffer(o, state) ==
  /\ offer[o] = None
  /\ state \in {"DRAFT", "PROPOSED"}
  /\ offer' = [offer EXCEPT ![o] = state]
  /\ UNCHANGED packets

PapersInit ==
  /\ packets = <<>>
  /\ offer = [o \in Offers |-> IF o = "immediate" THEN "PROPOSED" ELSE None]

PapersNext ==
  \/ \E q \in Recalls : BuildPacket(q)
  \/ \E i \in DOMAIN packets : PassTtl(i) \/ InspectPacket(i) \/ InvalidatePacket(i)
  \/ \E rev \in Revisions \union {None} : GetCurrent(rev)
  \/ \E o \in Offers, t \in {"PROPOSED", "APPROVED", "ACTIVE", "RETIRED"},
       a \in {"AI", "OPERATOR"} : MoveOffer(o, t, a)
  \/ \E o \in Offers, s \in {"DRAFT", "PROPOSED"} : CreateOffer(o, s)
=============================================================================
