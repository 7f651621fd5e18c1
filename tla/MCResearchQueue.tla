-------------------------- MODULE MCResearchQueue --------------------------
(* Two handoffs of two and one candidates, against a cap of two, over two  *)
(* days; the first candidate was researched before the handoff was saved,  *)
(* and is the one whose decision maker is looked for.                      *)
EXTENDS ResearchQueue, TLC

MCCandidates == 1..3
MCHandoffOf == [c \in MCCandidates |-> IF c = 3 THEN 2 ELSE 1]
MCHandoffs == 1..2
MCResearched == {1}
MCSought == {1}
Symmetric == Permutations(Procs)
=============================================================================
