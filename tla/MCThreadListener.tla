-------------------------- MODULE MCThreadListener --------------------------
(***************************************************************************)
(* Small instances of ThreadListener for TLC.                              *)
(***************************************************************************)
EXTENDS ThreadListener

Give(bounds, n) == [b \in Bounds |-> IF b \in bounds THEN n ELSE 0]

\* Reviews, with lost events and a Reviewer at work; two pods, with posts of two
\* kinds, with one; a ticket that is tried again; edits; commands that two pods
\* find, that fail, that are cut off; two /restarts; days that pass.
Reviews == [Give({"losses", "failures", "stops", "touches"}, 1) EXCEPT !["review"] = 2]
Deploys == Give({"review", "ask", "deploys", "losses", "failures"}, 1)
Review == [Give({"review", "deploys", "losses"}, 1) EXCEPT !["failures"] = 3]
Tickets == [Give({"ask", "stops", "deploys", "duplicates"}, 1) EXCEPT !["failures"] = 3]
Edits == [Give({"losses", "failures", "stops"}, 1) EXCEPT !["ask"] = 2]
Commands == Give({"reset", "restart", "losses", "deploys", "failures"}, 1)
Reset == [Give({"reset", "stops", "deploys"}, 1) EXCEPT !["failures"] = 2]
CutOff == Give({"reset", "restart", "losses", "failures", "stops"}, 1)
Pair == [Give({"losses", "deploys", "failures"}, 1) EXCEPT !["restart"] = 2]
Days == [Give({"losses", "days"}, 1) EXCEPT !["ask"] = 2]
Weeks == Give({"review", "restart", "losses", "days", "failures"}, 1)
SomeBudgets == {Reviews, Deploys, Review, Tickets, Edits, Commands, Reset, CutOff, Pair,
                Days, Weeks}
=============================================================================
