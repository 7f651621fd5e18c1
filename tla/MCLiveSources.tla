--------------------------- MODULE MCLiveSources ---------------------------
(* Two queries, the first of up to two pages, and a dataset; a record of   *)
(* each source shares its domain with one of the other.                    *)
EXTENDS LiveSources

CONSTANTS k1, k2, d1

Symmetry == Permutations(Procs)

Record0(k, site) ==
  [key |-> k, named |-> TRUE, site |-> site, email |-> None, phone |-> None,
   closed |-> FALSE, at |-> 0]
MCPlan == <<2, 1>>
MCPlaces == <<<<Record0(k1, d1)>>, << >>>>
MCImports == {Record0(k1, d1), Record0(k2, d1)}
MCData == <<Record0(k2, d1), Record0(k1, d1)>>
=============================================================================
