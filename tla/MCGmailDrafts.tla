--------------------------- MODULE MCGmailDrafts ---------------------------
(* Two drafts while calls follow one another, one draft once they overlap. *)
EXTENDS GmailDrafts, TLC

OverlapOnOneDraft == overlapped => \E x \in Drafts : run[x] = "NONE"

(* Processes and drafts are each interchangeable. *)
MCSymmetry == Permutations(Procs) \union Permutations(Drafts)
=============================================================================
