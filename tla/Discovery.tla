----------------------------- MODULE Discovery -----------------------------
(***************************************************************************)
(* Candidate ingestion, step3_discovery.py: what becomes of a record a     *)
(* source sends, given the candidates, leads and suppressions on file.     *)
(* A candidate row is known by its source record id, a lead by the row     *)
(* that created it.  An e-mail address is known by its domain: suppressing *)
(* one suppresses the other (add_suppression).  Runs and events, which no  *)
(* decision reads, are left out.                                           *)
(***************************************************************************)
EXTENDS Naturals, FiniteSets

CONSTANTS
  Keys,     \* source record ids
  Domains,  \* domains somebody may suppress
  None,     \* NULL
  Imports   \* records an import may bring

(* What a row of leads may hold: status is checked by the schema. *)
Values == {None} \union {raw.site : raw \in Imports} \union {raw.email : raw \in Imports}
            \union {raw.phone : raw \in Imports}
LeadRows ==
  [email : Values, phone : Values, domain : Values,
   status : {"DISCOVERED", "ENRICHED", "QUALIFIED", "DRAFT_READY", "REVIEW_PENDING", "APPROVED",
             "SENT", "FOLLOWUP_DUE", "REPLIED", "INTERESTED", "CALL_BOOKED", "PROPOSAL", "WON",
             "LOST", "REJECTED", "DO_NOT_CONTACT", "BOUNCED", "UNSUBSCRIBED", "DUPLICATE"}]

(* What becomes of a record, and what a row of discovery_candidates holds. *)
Outcomes ==
  {"INACTIVE_BUSINESS", "INVALID", "INSUFFICIENT_IDENTITY", "DUPLICATE",
   "POSSIBLE_DUPLICATE_HOLD", "ACCEPTED", "SUPPRESSED", "UPDATED"}
CandRows ==
  [site : Values, email : Values, phone : Values, domain : Values, at : Nat, outcome : Outcomes]

ASSUME DiscoveryAssumption ==
  /\ None \notin Domains \union Keys \union LeadRows \union CandRows
  /\ \A raw \in Imports :
       /\ DOMAIN raw = {"key", "named", "site", "email", "phone", "closed", "at"}
       /\ raw.key \in Keys /\ raw.at \in Nat

VARIABLES
  cand,     \* discovery_candidates, None where there is no row
  lead,     \* leads, by the candidate that created them, None without
  blocked   \* suppressions: domains, and leads named by their key

filed == <<cand, lead>>

-----------------------------------------------------------------------------
(* A raw record has a key, a name or none, a website, e-mail and phone     *)
(* ("bad" when they cannot be normalized), the word that the business is   *)
(* closed, and the time it was collected.                                  *)
(***************************************************************************)
Clean(x) == IF x = "bad" THEN None ELSE x

Normalize(raw) ==
  LET site  == IF raw.named THEN Clean(raw.site) ELSE None
      email == IF raw.named THEN Clean(raw.email) ELSE None
  IN [key |-> raw.key, at |-> raw.at, site |-> site, email |-> email,
      phone |-> IF raw.named THEN raw.phone ELSE None,
      domain |-> IF site # None THEN site ELSE email,
      fault |-> IF raw.named /\ raw.closed THEN "INACTIVE_BUSINESS"
                ELSE IF ~raw.named \/ "bad" \in {raw.site, raw.email} THEN "INVALID"
                ELSE "none"]

(* _safe_outcome_reason *)
Intrinsic(c) ==
  IF c.fault # "none" THEN c.fault
  ELSE IF c.email = None /\ c.domain = None THEN "INSUFFICIENT_IDENTITY" ELSE "none"

Suppressed(c) == {c.email, c.domain} \intersect blocked # {}

Strength(c) == Cardinality({f \in {"site", "email", "phone", "domain"} : c[f] # None})

(* What may update a row: evidence that is newer and not weaker. *)
NewerAndAsStrong(c) ==
  c.at > cand[c.key].at /\ Strength(c) >= Strength(cand[c.key])

Rows  == {cand[k] : k \in {j \in Keys : cand[j] # None}}
Leads == {lead[k] : k \in {j \in Keys : lead[j] # None}}

Shares(f, c, held) == c[f] # None /\ \E h \in held : h[f] = c[f]

(* An address or domain of any row on file, the rejected ones included, or *)
(* of a lead.                                                              *)
StrongDuplicate(c) == \E f \in {"email", "domain"} : Shares(f, c, Rows \union Leads)
PossibleDuplicate(c) == Shares("phone", c, Rows \union Leads)

NewOutcome(c) ==
  IF Intrinsic(c) # "none" THEN Intrinsic(c)
  ELSE IF StrongDuplicate(c) THEN "DUPLICATE"
  ELSE IF PossibleDuplicate(c) THEN "POSSIBLE_DUPLICATE_HOLD"
  ELSE "ACCEPTED"

Outcome(c) ==
  IF Suppressed(c) THEN "SUPPRESSED"
  ELSE IF cand[c.key] = None THEN NewOutcome(c)
  ELSE IF ~NewerAndAsStrong(c) THEN "DUPLICATE"
  ELSE IF Intrinsic(c) # "none" THEN Intrinsic(c) ELSE "UPDATED"

(* Identity fields of the row after an update: what is given replaces what *)
(* was there.                                                              *)
Merged(c) ==
  [f \in {"site", "email", "phone", "domain"} |->
     IF c[f] # None THEN c[f] ELSE cand[c.key][f]]

Row(c, fields, outcome) ==
  [site |-> fields.site, email |-> fields.email, phone |-> fields.phone,
   domain |-> fields.domain, at |-> c.at, outcome |-> outcome]

LeadOf(fields, status) ==
  [email |-> fields.email, phone |-> fields.phone, status |-> status,
   domain |-> IF fields.domain # None THEN fields.domain ELSE fields.email]

(* UNIQUE (email), UNIQUE (domain) of leads: an update that would give a   *)
(* lead what another one has fails and takes the ingestion back.           *)
Collides(c) ==
  /\ Outcome(c) = "UPDATED" /\ lead[c.key] # None
  /\ \E j \in Keys \ {c.key} : lead[j] # None
       /\ \E f \in {"email", "domain"} :
            LET new == LeadOf(Merged(c), "any")[f] IN new # None /\ lead[j][f] = new

(* ingest_candidate, in the one transaction that writes row and lead. *)
Store(c) ==
  LET o == Outcome(c) IN
  /\ cand' = [cand EXCEPT ![c.key] =
       IF @ = None THEN Row(c, c, o)
       ELSE IF o = "SUPPRESSED" THEN [@ EXCEPT !.outcome = o]
       ELSE IF o = "UPDATED" THEN Row(c, Merged(c), o) ELSE @]
  /\ lead' = [lead EXCEPT ![c.key] =
       IF o = "ACCEPTED" THEN LeadOf(c, "DISCOVERED")
       ELSE IF o = "UPDATED" /\ @ # None
            THEN LeadOf(Merged(c), @.status) ELSE @]

Ingest(c) == IF Collides(c) THEN UNCHANGED filed ELSE Store(c)

(* run_discovery, import_fictional_fixtures: one commit per record. *)
Import(raw) == Ingest(Normalize(raw)) /\ UNCHANGED blocked

(* add_suppression for a domain or address, and for a lead. *)
SuppressDomain(d) == blocked' = blocked \union {d} /\ UNCHANGED filed
SuppressLead(k) ==
  /\ lead[k] # None
  /\ blocked' = blocked \union ({k, lead[k].email, lead[k].domain} \ {None})
  /\ UNCHANGED filed

DiscoveryInit ==
  /\ cand = [k \in Keys |-> None]
  /\ lead = [k \in Keys |-> None]
  /\ blocked = {}
=============================================================================
