--------------------------- MODULE MCMergeRequest ---------------------------
(***************************************************************************)
(* Small instances of MergeRequest for TLC.                                *)
(***************************************************************************)
EXTENDS MergeRequest

Give(bounds, n) == [b \in Bounds |-> IF b \in bounds THEN n ELSE 0]

\* Two pods and a question; two comments for one pod that fails or stops; red
\* pipelines; a question, a red pipeline and an iteration in chat; approvals that
\* come and go; remarks, one of them deleted, and a red pipeline.
TwoPods == Give({"ticks", "asks", "deploys", "failures"}, 1)
Threads == [Give({"ticks", "remarks", "deletions", "failures"}, 1) EXCEPT !["asks"] = 2]
Builds == [Give({"ticks", "watches", "stops", "pushes"}, 1)
           EXCEPT !["pipelines"] = 2]
Refusals == [Give({"ticks", "watches", "failures", "pipelines", "commands", "closings"}, 1) EXCEPT !["reds"] = 2]
Pair == [Give({"deploys", "watches", "pipelines", "commands"}, 1) EXCEPT !["reds"] = 2]
Mixed == Give({"ticks", "watches", "asks", "reds", "chats", "pushes", "pipelines"}, 1)
Talk == [Give({"ticks", "stops", "remarks", "deletions"}, 1) EXCEPT !["asks"] = 2]
Votes == [Give({"ticks", "failures", "stops", "asks"}, 1) EXCEPT !["approvals"] = 3]
Acks == Give({"ticks", "chats", "pushes", "failures"}, 1)
Deleted == [Give({"ticks", "watches", "reds", "pipelines", "deletions"}, 1)
            EXCEPT !["remarks"] = 2]
Unlisted == Give({"ticks", "watches", "reds", "pipelines", "asks", "failures"}, 1)

SomeBudgets == {TwoPods, Threads, Builds, Refusals, Pair, Mixed, Talk, Votes, Acks, Deleted,
                Unlisted}

\* Two comments in a discussion, and nothing else that goes wrong.
Remark == Give({"ticks", "asks", "remarks"}, 1)
OnlyRemark == {Remark}
=============================================================================
