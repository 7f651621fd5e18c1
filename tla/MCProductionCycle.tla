------------------------- MODULE MCProductionCycle -------------------------
(* Two run ids whose handoffs share a candidate, two processes. *)
EXTENDS ProductionCycle, TLC

CONSTANTS p1, p2

Same == Permutations(Procs)

Raw(k, domain, t) ==
  [key |-> k, named |-> TRUE, site |-> domain, email |-> domain, phone |-> None,
   closed |-> FALSE, at |-> t]

SomeImports == {Raw(k, d, t) : k \in Keys, d \in Domains, t \in 0..2}

X(k, d, t, lane, case, messages) ==
  [raw |-> Raw(k, d, t), key |-> k, lane |-> lane, case |-> case, messages |-> messages]

M(own, slot, flaw) == [own |-> own, slot |-> slot, flaw |-> flaw]
Email == M(None, "EMAIL:INITIAL", "none")
Note  == M(None, "LINKEDIN:CONNECTION_NOTE", "none")

(* Two messages of which the second may be flawed, two with one key, four, *)
(* and one whose own key is the other candidate's.                         *)
Second == {<<Email, M(None, "LINKEDIN:CONNECTION_NOTE", f)>> : f \in Flaws \ {"none"}}
Shared == {<<Email, M(None, "EMAIL:INITIAL", f)>> : f \in {"none", "touch"}}
Odd == Second \union Shared
         \union {<< >>, <<Email, Note, Email, M("own", "EMAIL:INITIAL", "none")>>,
                 <<M(<<"k2", "EMAIL:INITIAL">>, "EMAIL:INITIAL", "none")>>}

(* The first candidate is collected with the cycle's own time in one run   *)
(* and has its own time in the other, where it may have moved, to another  *)
(* lane too.                                                               *)
Pair(a, b, d, moved, messages) ==
  [r1 |-> <<X("k1", "d1", 0, "PRIMARY", a, messages), X("k2", d, 1, "SECONDARY", b, <<Email>>)>>,
   r2 |-> <<X("k1", moved, 2, "SECONDARY", "good", <<Email, Note>>)>>]

Two == <<Email, Note>>
SomeHandoffs ==
  {Pair("good", b, "d2", "d1", Two) : b \in Cases}
    \union {Pair(a, "good", "d2", "d1", Two) : a \in Cases}
    \union {Pair("good", "good", "d1", "d1", Two), Pair("good", "good", "d2", "d2", Two)}
    \union {Pair("good", "good", "d2", "d1", ms) : ms \in Odd}
=============================================================================
