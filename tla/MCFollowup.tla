----------------------------- MODULE MCFollowup -----------------------------
(* Two calls, one reply of any category, three touches.  Calls overlap on  *)
(* the first two touches, with a reply of four kinds: later touches and    *)
(* the other kinds are reached by calls that follow one another, because   *)
(* the overlapped histories are too many.                                  *)
EXTENDS Followup, TLC

Kind(cat, explicit) == [cat |-> cat, explicit |-> explicit]
MCKinds == {Kind(cat, cat = "OPT_OUT") : cat \in Categories}
             \union {Kind("NOT_INTERESTED", TRUE)}
Overlapping == {Kind("QUESTION_OR_NEUTRAL", FALSE), Kind("NOT_INTERESTED", FALSE),
                Kind("OPT_OUT", TRUE), Kind("UNKNOWN", FALSE)}
Symmetric == Permutations(Procs)
OverlapEarly ==
  overlapped =>
    /\ count < 2
    /\ \A r \in Replies : reply[r] \in Overlapping \union {NoReply}
=============================================================================
