----------------------------- MODULE MCPipeline -----------------------------
(* Two businesses that share a phone, and a newer record of the first.     *)
EXTENDS Pipeline, TLC

CONSTANTS k1, k2, d1, d2, ph, fit, owner

Record(k, site, email, at) ==
  [key |-> k, named |-> TRUE, site |-> site, email |-> email, phone |-> ph,
   closed |-> FALSE, at |-> at]
MCRaw == {Record(k1, d1, None, 1)}
MCImports == MCRaw \union {Record(k1, d2, None, 2), Record(k2, None, d2, 1)}

Item(id, sig, val, str) == [id |-> id, sig |-> sig, val |-> val, str |-> str]
MCEmail == Item("email", owner, "UNCLEAR", 1)
MCFixtures == {[items |-> <<Item("a", fit, "YES", 2)>>, gate |-> [g \in Gates |-> None]]}
MCUpdates == {[items |-> << >>, gate |-> [g \in Gates |-> "YES"]]}
MCFinds == {<<Item("b", fit, "NO", 3)>>}
MCReviews == {Item("c", fit, "YES", 4)}
MCItems == {MCEmail, Item("a", fit, "YES", 2), Item("b", fit, "NO", 3)} \union MCReviews
MCWeight == [s \in {fit, owner} |-> IF s = fit THEN 70 ELSE 10]

(* A death or a crawl that raises, not both. *)
OneMishap == crashes + raised <= 1
=============================================================================
