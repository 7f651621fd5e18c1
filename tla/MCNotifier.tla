----------------------------- MODULE MCNotifier -----------------------------
(* One message and an edit of it; an operator may also name a third id.     *)
EXTENDS Notifier

CONSTANTS s, e, other

MCExternalIds == {s, other}
MCExternalId == [m \in {s, e} |-> s]
=============================================================================
