----------------------------- MODULE MCDrafting -----------------------------
(* One lead, two callers, two packets and one redraft request. *)
EXTENDS Drafting, TLC

CONSTANTS p1, p2, v1, v2

Same == Permutations(Procs) \union Permutations(Revisions)

Page(v, s, g) == [rev |-> v, section |-> s, gold |-> g, text |-> s]

(* Both sections of a snapshot; one, after an unapproved record of another *)
(* snapshot; one record twice.                                             *)
SomeRecalls ==
  UNION {{<<Page(v, "icp", TRUE), Page(v, "offer", TRUE)>>,
          <<Page(v, "voice", FALSE), Page(w, "icp", TRUE)>>,
          <<Page(v, "icp", TRUE), Page(v, "icp", TRUE)>>} :
            <<v, w>> \in {<<v1, v2>>, <<v2, v1>>}}

Claim(k, c) == [kind |-> k, cites |-> c]
Said(w, u, cs) == [worded |-> w, used |-> u, claims |-> cs]

(* A sound answer, and answers with one fault each. *)
SomeOutputs ==
  LET fact == Claim("OBSERVATION", {"e"})
      cta  == Claim("CTA", {})
  IN {Said(TRUE, {"e"}, {fact, cta}), Said(FALSE, {"e"}, {fact, cta}),
      Said(TRUE, {}, {Claim("INFERENCE", {}), cta}), Said(TRUE, {"e"}, {fact}),
      Said(TRUE, {"x"}, {Claim("OBSERVATION", {"x"}), cta}), Said(TRUE, {}, {fact, cta})}

FewCalls == \A f, g \in DOMAIN calls : f # g => calls[f] + calls[g] <= 2

(* The second version of the offer is moved, and the packets that are not  *)
(* whole are built, before anything is drafted.                            *)
OffersFirst == offer["later"] # None => DOMAIN runs = {} /\ Len(packets) < 2
PartsFirst ==
  (\E i \in DOMAIN packets : Cardinality(packets[i].texts) < 2) => DOMAIN runs = {}

(* One obstacle at a time, and then no more than one caller; evidence goes *)
(* short on the first packet, without a redraft.                           *)
OneObstacle ==
  /\ ~fit \/ ~Backed => fit # Backed /\ Cardinality({p \in Procs : at[p] # Idle}) < 2
  /\ ~Backed \/ (\E f \in DOMAIN runs : f.evidence # Evidence) =>
       Len(packets) < 2 /\ redraft = <<>>

(* Two callers at once on one run: no obstacle, and one packet or request. *)
OneRunShared ==
  shared # {} => fit /\ Backed /\ (Len(packets) < 2 \/ redraft = <<>>)
=============================================================================
