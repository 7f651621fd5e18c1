------------------------ MODULE MCSchedulerCapacity ------------------------
(* One follow-up and two candidates compete for one message touch.          *)
EXTENDS SchedulerCapacity, TLC

MCCap == [t \in CapTypes |-> 1]
MCRequests == {Items, Candidates}
Symmetric == Permutations(Planners) \union Permutations(Candidates)
=============================================================================
