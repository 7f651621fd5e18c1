----------------------------- MODULE MCWebsite -----------------------------
(* A site whose pages link to each other and one that links to its own     *)
(* robots.txt; two enrichers and one quota.                                *)
EXTENDS Website

CONSTANTS home, book, about, robots, plain, odd, mail, form

MCLinks ==
  [s \in {plain, odd} |-> [u \in Urls |->
     CASE u = home  -> IF s = odd THEN <<robots, book>> ELSE <<about, book, about>>
       [] u = book  -> <<home>>
       [] OTHER     -> << >>]]
MCRank == [u \in Urls |->
  CASE u = book -> 0 [] u = home -> 2 [] u = about -> 1 [] OTHER -> 3]
MCPublished == [u \in Urls |->
  IF u = book THEN {[addr |-> mail, mailto |-> FALSE, excluded |-> TRUE],
                    [addr |-> mail, mailto |-> TRUE, excluded |-> FALSE]} ELSE {}]
MCFacts == [u \in Urls |->
  CASE u = home -> {[signal |-> form, value |-> "YES"]}
    [] u = about -> {[signal |-> form, value |-> "NO"]} [] OTHER -> {}]

Good == [safe |-> TRUE, result |-> "ok", hops |-> "few", html |-> TRUE, large |-> FALSE,
         markup |-> "fine", shell |-> FALSE, code |-> 200]
MCAnswers == {Good, [Good EXCEPT !.code = 404], [Good EXCEPT !.result = "TIMEOUT"],
              [Good EXCEPT !.hops = "away"], [Good EXCEPT !.shell = TRUE],
              [Good EXCEPT !.hops = "malformed"], [Good EXCEPT !.markup = "href"],
              [Good EXCEPT !.markup = "attribute", !.shell = TRUE]}

Agent(a) == [field |-> "user-agent", agent |-> a]
Rule(f, n, hit) == [field |-> f, length |-> n, hit |-> hit]
MCFiles ==
  {<<Agent("*"), Rule("disallow", 1, TRUE), Agent("x"), Rule("allow", 2, TRUE)>>,
   <<Agent("x"), Agent("*"), Rule("disallow", 1, TRUE), Rule("allow", 2, TRUE)>>}
=============================================================================
