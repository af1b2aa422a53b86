---------------------------- MODULE HandledOnce ----------------------------
(***************************************************************************)
(* What the claim tables promise (processed_thread_posts,                  *)
(* processed_review_comments): somebody takes an item, answers it at most  *)
(* once while it is theirs, and either gives it back, for another try, or  *)
(* is through with it for good.                                            *)
(***************************************************************************)
EXTENDS Naturals

CONSTANT Items

VARIABLES
    status,  \* "free", "taken" or "done"
    answers  \* answers since the item was last taken

Init == status = [i \in Items |-> "free"] /\ answers = [i \in Items |-> 0]

\* An item that asks for nothing is done with at once.
Take(i) ==
    /\ status[i] = "free"
    /\ status' \in {[status EXCEPT ![i] = s] : s \in {"taken", "done"}}
    /\ UNCHANGED answers

Answer(i) ==
    /\ status[i] = "taken" /\ answers[i] = 0
    /\ answers' = [answers EXCEPT ![i] = 1]
    /\ status' \in {status, [status EXCEPT ![i] = "done"]}

GiveBack(i) ==
    /\ status[i] = "taken"
    /\ status' = [status EXCEPT ![i] = "free"] /\ answers' = [answers EXCEPT ![i] = 0]

Finish(i) ==
    /\ status[i] = "taken"
    /\ status' = [status EXCEPT ![i] = "done"] /\ UNCHANGED answers

\* A process may stop with one item of each kind of work in its hands.
FinishAll(items) ==
    /\ \A i \in items : status[i] = "taken"
    /\ status' = [i \in Items |-> IF i \in items THEN "done" ELSE status[i]]
    /\ UNCHANGED answers

Next ==
    \/ \E i \in Items : Take(i) \/ Answer(i) \/ GiveBack(i) \/ Finish(i)
    \/ \E items \in SUBSET Items : FinishAll(items)

Spec == Init /\ [][Next]_<<status, answers>>
=============================================================================
