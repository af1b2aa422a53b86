---------------------------- MODULE AtLeastOnce ----------------------------
(***************************************************************************)
(* What the message-bus port promises its users, with neither leases nor   *)
(* clocks: a published message is handed out, possibly several times and   *)
(* to several consumers, until one of them has handled it and it is        *)
(* acknowledged; from then on it is never handed out again.                *)
(***************************************************************************)
CONSTANTS Consumers, Messages

VARIABLES
    status,   \* status[m]: "absent", "queued", "consumed" or "wiped"
    holders,  \* holders[m]: the consumers that were handed m and work on it
    done      \* the messages that some consumer handled to the end

vars == <<status, holders, done>>

Statuses == {"absent", "queued", "consumed", "wiped"}

TypeOK ==
    /\ status \in [Messages -> Statuses]
    /\ holders \in [Messages -> SUBSET Consumers]
    /\ done \in SUBSET Messages

Init ==
    /\ status = [m \in Messages |-> "absent"]
    /\ holders = [m \in Messages |-> {}]
    /\ done = {}

Publish(m) ==
    /\ status[m] = "absent"
    /\ status' = [status EXCEPT ![m] = "queued"]
    /\ UNCHANGED <<holders, done>>

\* The ticket of m is reset before m is acknowledged.
Wipe(m) ==
    /\ status[m] = "queued"
    /\ status' = [status EXCEPT ![m] = "wiped"]
    /\ UNCHANGED <<holders, done>>

\* A consumer gets one message at a time.
Deliver(c, m) ==
    /\ status[m] = "queued"
    /\ \A n \in Messages : c \notin holders[n]
    /\ holders' = [holders EXCEPT ![m] = @ \cup {c}]
    /\ UNCHANGED <<status, done>>

GiveUp(c, m) ==
    /\ c \in holders[m]
    /\ holders' = [holders EXCEPT ![m] = @ \ {c}]
    /\ UNCHANGED <<status, done>>

Finish(c, m) ==
    /\ c \in holders[m]
    /\ holders' = [holders EXCEPT ![m] = @ \ {c}]
    /\ done' = done \cup {m}
    /\ UNCHANGED status

Acknowledge(m) ==
    /\ status[m] = "queued"
    /\ m \in done
    /\ status' = [status EXCEPT ![m] = "consumed"]
    /\ UNCHANGED <<holders, done>>

Next ==
    \E m \in Messages :
        \/ Publish(m) \/ Wipe(m) \/ Acknowledge(m)
        \/ \E c \in Consumers : Deliver(c, m) \/ GiveUp(c, m) \/ Finish(c, m)

Spec == Init /\ [][Next]_vars

\* A message is not finished before somebody handled it: a crash, a raise or a
\* shutdown between the claim and the end of the handler never loses it.
NothingLost == \A m \in Messages : status[m] = "consumed" => m \in done

=============================================================================
