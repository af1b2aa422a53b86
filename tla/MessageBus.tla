----------------------------- MODULE MessageBus -----------------------------
(***************************************************************************)
(* The durable inter-agent queue and the runners that consume it:          *)
(*                                                                         *)
(*   SqlAlchemyMessageBus  rows of agent_messages, leased by               *)
(*                         claimed_until, finished by consumed_at          *)
(*   AgentRunner           one subscribe-and-dispatch loop per agent key,  *)
(*                         with a heartbeat that renews the lease          *)
(*                                                                         *)
(* One inbox (one agent key) and several Consumers of it: the runner of    *)
(* this pod, the runner of the pod a rolling deploy starts before the old  *)
(* one is gone, the runner a restart brings back.                          *)
(*                                                                         *)
(* Time is relative.  left[m] is claimed_until - now of row m, so that     *)
(* the row is free at the instant `now' iff left[m] <= 0; a transaction    *)
(* that read the clock k ticks ago compares with its own stale instant,    *)
(* and the row is free for it iff left[m] <= -k.  Below -MaxTxn no         *)
(* transaction can tell the difference, and NULL (never claimed) is that   *)
(* floor: it satisfies every such comparison too.                          *)
(***************************************************************************)
EXTENDS Integers, FiniteSets

CONSTANTS
    Consumers,   \* runners subscribed to the inbox
    Messages,    \* rows, numbered by created_at
    Unhandled,   \* rows whose topic has no handler in the runner
    Lease,       \* lease_seconds of the bus, in ticks
    RenewEvery,  \* lease_renew_interval_seconds of the runner, in ticks
    MaxTxn,      \* longest time from reading the clock to the commit
    MaxStall,    \* longest time the event loop delays a step that is due
    Tolerated    \* missed renewals in a row the settings leave room for

\* One heartbeat: the sleep, the delay of the loop, the transaction.
Cycle == RenewEvery + MaxStall + MaxTxn

\* A consumer silent for that long may find its message handed to another.
Lapse == Lease - MaxTxn

ASSUME BusAssumption ==
    /\ Messages \subseteq Nat \ {0}
    /\ Unhandled \subseteq Messages
    /\ Lease \in Nat /\ RenewEvery \in Nat \ {0}
    /\ MaxTxn \in Nat /\ MaxStall \in Nat /\ Tolerated \in Nat

\* "Keep the renew interval well under the lease (a few missed renewals in a
\* row should not cost the claim)", of the settings, as an inequality.
ASSUME RenewAssumption ==
    MaxTxn + MaxStall + (Tolerated + 1) * Cycle < Lapse

NoMessage == 0

VARIABLES
    row,     \* row[m]: "absent", "queued", "consumed" or "wiped"
    left,    \* left[m]: claimed_until - now, from -MaxTxn up to Lease
    pc,      \* pc[c]: where the runner stands
    msg,     \* msg[c]: the message it holds, or NoMessage
    beat,    \* beat[c]: heartbeat "off", "asleep" or in its "txn"
    timer,   \* timer[c]: age of the clock reading, or sleep left
    stop,    \* stop[c]: the runner's _stop_event is set
    \* observers: no step of the program reads them
    silent,  \* silent[c]: ticks since its last clock reading that reached the row
    lapsed,  \* lapsed[c]: silent[c] got to Lapse during this delivery
    missed,  \* missed[c]: renewals failed in a row, capped at Tolerated + 1
    handled  \* messages some handler returned from without raising

rowVars == <<row, left>>
runVars == <<pc, msg, beat, timer, stop>>
obsVars == <<silent, lapsed, missed, handled>>
vars == <<row, left, pc, msg, beat, timer, stop, silent, lapsed, missed, handled>>

RowStates == {"absent", "queued", "consumed", "wiped"}
PCs == {"down", "idle", "claiming", "claimed", "handling", "acking", "backoff"}

TypeOK ==
    /\ row \in [Messages -> RowStates]
    /\ left \in [Messages -> -MaxTxn .. Lease]
    /\ pc \in [Consumers -> PCs]
    /\ msg \in [Consumers -> Messages \cup {NoMessage}]
    /\ beat \in [Consumers -> {"off", "asleep", "txn"}]
    /\ timer \in [Consumers -> Int]
    /\ stop \in [Consumers -> BOOLEAN]
    /\ silent \in [Consumers -> 0 .. Lease]
    /\ lapsed \in [Consumers -> BOOLEAN]
    /\ missed \in [Consumers -> 0 .. Tolerated + 1]
    /\ handled \in SUBSET Messages

\* The message is c's to work on: claimed, or with its handler running.
Holds(c) == pc[c] \in {"claimed", "handling"}
InTxn(c) == pc[c] = "claiming" \/ (pc[c] = "handling" /\ beat[c] = "txn")

\* The rows a transaction sees as free when its clock reading is `age' old.
Free(age) == {m \in Messages : row[m] = "queued" /\ left[m] <= -age}

\* Mutants: a claiming UPDATE that looks at one of the two columns only, a
\* heartbeat that ends with its first failure.
StillFreeIgnoringLease(c) == row[msg[c]] = "queued"
StillFreeIgnoringAck(c) == left[msg[c]] <= -timer[c]
GivesUpAfterMiss == "off"

\* The WHERE clause of the claiming UPDATE, under the clock reading of the SELECT.
StillFree(c) == msg[c] \in Free(timer[c])

\* What claim and renewal write to claimed_until: a lease from their clock reading.
NewLease(c) == Lease - timer[c]

\* Where the heartbeat stands after a failed renewal.
AfterMiss == "asleep"

-----------------------------------------------------------------------------

Init ==
    /\ row = [m \in Messages |-> "absent"]
    /\ left = [m \in Messages |-> -MaxTxn]
    /\ pc = [c \in Consumers |-> "down"]
    /\ msg = [c \in Consumers |-> NoMessage]
    /\ beat = [c \in Consumers |-> "off"]
    /\ timer = [c \in Consumers |-> 0]
    /\ stop = [c \in Consumers |-> FALSE]
    /\ silent = [c \in Consumers |-> 0]
    /\ lapsed = [c \in Consumers |-> FALSE]
    /\ missed = [c \in Consumers |-> 0]
    /\ handled = {}

\* c lets go of what it held and stands at `where'.
Release(c, where) ==
    /\ pc' = [pc EXCEPT ![c] = where]
    /\ msg' = [msg EXCEPT ![c] = NoMessage]
    /\ beat' = [beat EXCEPT ![c] = "off"]
    /\ timer' = [timer EXCEPT ![c] = 0]
    /\ silent' = [silent EXCEPT ![c] = 0]
    /\ lapsed' = [lapsed EXCEPT ![c] = FALSE]
    /\ missed' = [missed EXCEPT ![c] = 0]

\* publish to one agent: a row that nobody has claimed.
Publish(m) ==
    /\ row[m] = "absent"
    /\ row' = [row EXCEPT ![m] = "queued"]
    /\ UNCHANGED <<left, runVars, obsVars>>

\* ticket_reset deletes the unconsumed rows of the ticket.
Wipe(m) ==
    /\ row[m] = "queued"
    /\ row' = [row EXCEPT ![m] = "wiped"]
    /\ UNCHANGED <<left, runVars, obsVars>>

\* A fresh runner subscribes: run_forever, or the retry after a backoff.
Start(c) ==
    /\ pc[c] = "down"
    /\ pc' = [pc EXCEPT ![c] = "idle"]
    /\ stop' = [stop EXCEPT ![c] = FALSE]
    /\ UNCHANGED <<rowVars, msg, beat, timer, obsVars>>

Resubscribe(c) ==
    /\ pc[c] = "backoff"
    /\ ~stop[c]
    /\ pc' = [pc EXCEPT ![c] = "idle"]
    /\ UNCHANGED <<rowVars, msg, beat, timer, stop, obsVars>>

\* _claim_within reads the clock once, then selects the oldest free row.  The
\* poll that finds none leaves the runner idle.
ClaimSelect(c) ==
    /\ pc[c] = "idle"
    /\ ~stop[c]
    /\ \E m \in Free(0) :
        /\ \A n \in Free(0) : m <= n
        /\ msg' = [msg EXCEPT ![c] = m]
    /\ pc' = [pc EXCEPT ![c] = "claiming"]
    /\ timer' = [timer EXCEPT ![c] = 0]
    /\ UNCHANGED <<rowVars, beat, stop, obsVars>>

\* The conditional UPDATE wins: the row is free still, at the instant read by
\* the SELECT, and its lease counts from that instant.
ClaimCommit(c) ==
    /\ pc[c] = "claiming"
    /\ StillFree(c)
    /\ left' = [left EXCEPT ![msg[c]] = NewLease(c)]
    /\ pc' = [pc EXCEPT ![c] = "claimed"]
    /\ silent' = [silent EXCEPT ![c] = timer[c]]
    /\ timer' = [timer EXCEPT ![c] = MaxStall]
    /\ UNCHANGED <<row, msg, beat, stop, lapsed, missed, handled>>

\* rowcount is 0: somebody else was faster, nothing is yielded.
ClaimLost(c) ==
    /\ pc[c] = "claiming"
    /\ ~StillFree(c)
    /\ Release(c, "idle")
    /\ UNCHANGED <<rowVars, stop, handled>>

\* The database fails the claim, before or after its commit took effect.
ClaimError(c) ==
    /\ pc[c] = "claiming"
    /\ \/ UNCHANGED left
       \/ /\ StillFree(c)
          /\ left' = [left EXCEPT ![msg[c]] = NewLease(c)]
    /\ Release(c, "backoff")
    /\ UNCHANGED <<row, stop, handled>>

\* The loop sees the claimed message and no stop: _dispatch starts the
\* heartbeat and the handler, or acks at once a topic without handler.
Dispatch(c) ==
    /\ pc[c] = "claimed"
    /\ ~stop[c]
    /\ \/ /\ msg[c] \notin Unhandled
          /\ pc' = [pc EXCEPT ![c] = "handling"]
          /\ beat' = [beat EXCEPT ![c] = "asleep"]
          /\ timer' = [timer EXCEPT ![c] = RenewEvery]
          /\ UNCHANGED <<msg, silent, lapsed, missed, handled>>
       \/ /\ msg[c] \in Unhandled
          /\ pc' = [pc EXCEPT ![c] = "acking"]
          /\ handled' = handled \cup {msg[c]}
          /\ UNCHANGED <<msg, beat, timer, silent, lapsed, missed>>
    /\ UNCHANGED <<rowVars, stop>>

\* _renew_until_done wakes up and reads the clock ...
RenewStart(c) ==
    /\ pc[c] = "handling"
    /\ beat[c] = "asleep"
    /\ timer[c] <= 0
    /\ beat' = [beat EXCEPT ![c] = "txn"]
    /\ timer' = [timer EXCEPT ![c] = 0]
    /\ UNCHANGED <<rowVars, pc, msg, stop, obsVars>>

\* ... and its UPDATE moves the lease of any unconsumed row, whoever holds it;
\* on a row that is consumed or gone the heartbeat ends.
RenewCommit(c) ==
    /\ pc[c] = "handling"
    /\ beat[c] = "txn"
    /\ \/ /\ row[msg[c]] = "queued"
          /\ left' = [left EXCEPT ![msg[c]] = NewLease(c)]
          /\ silent' = [silent EXCEPT ![c] = timer[c]]
          /\ missed' = [missed EXCEPT ![c] = 0]
          /\ beat' = [beat EXCEPT ![c] = "asleep"]
          /\ timer' = [timer EXCEPT ![c] = RenewEvery]
       \/ /\ row[msg[c]] # "queued"
          /\ beat' = [beat EXCEPT ![c] = "off"]
          /\ timer' = [timer EXCEPT ![c] = 0]
          /\ UNCHANGED <<left, silent, missed>>
    /\ UNCHANGED <<row, pc, msg, stop, lapsed, handled>>

\* A failed renewal is logged and the next one comes a full interval later;
\* its UPDATE may have been applied all the same.
RenewError(c) ==
    /\ pc[c] = "handling"
    /\ beat[c] = "txn"
    /\ \/ UNCHANGED left
       \/ /\ row[msg[c]] = "queued"
          /\ left' = [left EXCEPT ![msg[c]] = NewLease(c)]
    /\ missed' = [missed EXCEPT ![c] = IF @ > Tolerated THEN @ ELSE @ + 1]
    /\ beat' = [beat EXCEPT ![c] = AfterMiss]
    /\ timer' = [timer EXCEPT ![c] = RenewEvery]
    /\ UNCHANGED <<row, pc, msg, stop, silent, lapsed, handled>>

\* The handler returns: the heartbeat is cancelled, the ack is next.
HandlerReturns(c) ==
    /\ pc[c] = "handling"
    /\ pc' = [pc EXCEPT ![c] = "acking"]
    /\ beat' = [beat EXCEPT ![c] = "off"]
    /\ timer' = [timer EXCEPT ![c] = 0]
    /\ handled' = handled \cup {msg[c]}
    /\ UNCHANGED <<rowVars, msg, stop, silent, lapsed, missed>>

\* Mutant: the runner acknowledges however the handler ended.
HandlerRaisesAcked(c) ==
    /\ pc[c] = "handling"
    /\ pc' = [pc EXCEPT ![c] = "acking"]
    /\ beat' = [beat EXCEPT ![c] = "off"]
    /\ timer' = [timer EXCEPT ![c] = 0]
    /\ UNCHANGED <<rowVars, msg, stop, obsVars>>

\* The handler raises: no ack, the lease is left to lapse.
HandlerRaises(c) ==
    /\ pc[c] = "handling"
    /\ Release(c, "idle")
    /\ UNCHANGED <<rowVars, stop, handled>>

\* Mutant: the stamp is never committed.
AckUncommitted(c) ==
    /\ pc[c] = "acking"
    /\ Release(c, "idle")
    /\ UNCHANGED <<rowVars, stop, handled>>

\* ack stamps consumed_at on the row, whoever holds its lease by now.
Ack(c) ==
    /\ pc[c] = "acking"
    /\ row' = [row EXCEPT ![msg[c]] = IF @ = "queued" THEN "consumed" ELSE @]
    /\ Release(c, "idle")
    /\ UNCHANGED <<left, stop, handled>>

\* The database fails the ack, before or after it took effect; the exception
\* ends the subscription.
AckError(c) ==
    /\ pc[c] = "acking"
    /\ \/ UNCHANGED row
       \/ row' = [row EXCEPT ![msg[c]] = IF @ = "queued" THEN "consumed" ELSE @]
    /\ Release(c, "backoff")
    /\ UNCHANGED <<left, stop, handled>>

\* stop() only sets the event.  A running handler is waited for and acked; a
\* runner in any other place leaves, a message just claimed stays leased.
Stop(c) ==
    /\ pc[c] # "down"
    /\ ~stop[c]
    /\ stop' = [stop EXCEPT ![c] = TRUE]
    /\ UNCHANGED <<rowVars, pc, msg, beat, timer, obsVars>>

StopExit(c) ==
    /\ stop[c]
    /\ pc[c] \in {"idle", "claiming", "claimed", "backoff"}
    /\ Release(c, "down")
    /\ UNCHANGED <<rowVars, stop, handled>>

\* The pod is killed, or the shutdown's drain runs out and cancels the task.
Crash(c) ==
    /\ pc[c] # "down"
    /\ Release(c, "down")
    /\ UNCHANGED <<rowVars, stop, handled>>

\* Time passes.  A transaction ends within MaxTxn of its clock reading, and a
\* step that is due (a wake-up, a dispatch) is taken within MaxStall.
Tick ==
    /\ \A c \in Consumers :
        /\ InTxn(c) => timer[c] < MaxTxn
        /\ pc[c] = "handling" /\ beat[c] = "asleep" => timer[c] > -MaxStall
        /\ pc[c] = "claimed" => timer[c] > 0
    /\ left' = [m \in Messages |-> IF left[m] > -MaxTxn THEN left[m] - 1 ELSE left[m]]
    /\ timer' = [c \in Consumers |->
                    IF InTxn(c) THEN timer[c] + 1
                    ELSE IF pc[c] = "claimed" \/ (pc[c] = "handling" /\ beat[c] = "asleep")
                         THEN timer[c] - 1 ELSE timer[c]]
    /\ silent' = [c \in Consumers |->
                    IF Holds(c) /\ silent[c] < Lease THEN silent[c] + 1 ELSE silent[c]]
    /\ lapsed' = [c \in Consumers |-> lapsed[c] \/ (Holds(c) /\ silent[c] + 1 >= Lapse)]
    /\ UNCHANGED <<row, pc, msg, beat, stop, missed, handled>>

\* What one runner and the database do for it.
Runner(c) ==
    \/ Start(c) \/ Resubscribe(c)
    \/ ClaimSelect(c) \/ ClaimCommit(c) \/ ClaimLost(c) \/ ClaimError(c)
    \/ Dispatch(c)
    \/ RenewStart(c) \/ RenewCommit(c) \/ RenewError(c)
    \/ HandlerReturns(c) \/ HandlerRaises(c)
    \/ Ack(c) \/ AckError(c)
    \/ Stop(c) \/ StopExit(c) \/ Crash(c)

Next ==
    \/ \E m \in Messages : Publish(m) \/ Wipe(m)
    \/ \E c \in Consumers : Runner(c)
    \/ Tick

Spec == Init /\ [][Next]_vars

\* From some time on no pod is stopped or killed any more.
QuietPods == <>[][\A c \in Consumers : ~Stop(c) /\ ~Crash(c)]_vars

\* The loops keep turning and time passes.  What an exception or a failing
\* database can cut short succeeds for those who retry: a claim that is
\* attempted again and again is committed once, a handler that is started again
\* and again for one message returns once, and so does its ack.
Fairness ==
    /\ QuietPods
    /\ WF_vars(Tick)
    /\ \A c \in Consumers :
        /\ WF_vars(Start(c)) /\ WF_vars(Resubscribe(c)) /\ WF_vars(StopExit(c))
        /\ WF_vars(ClaimSelect(c)) /\ WF_vars(ClaimLost(c))
        /\ WF_vars(RenewStart(c)) /\ WF_vars(RenewCommit(c))
        /\ \A m \in Messages :
            /\ SF_vars(msg[c] = m /\ ClaimCommit(c))
            /\ WF_vars(msg[c] = m /\ Dispatch(c))
            /\ SF_vars(msg[c] = m /\ HandlerReturns(c))
            /\ SF_vars(msg[c] = m /\ Ack(c))

FairSpec == Spec /\ Fairness

-----------------------------------------------------------------------------

\* Two runners work on one message only after one of them fell silent for (all
\* but a transaction of) a whole lease: a slow handler alone never brings a
\* second one.  AgentRunner._dispatch: "a lease that expires mid-run gets the
\* SAME message delivered to a second consumer while this one is still working".
ExclusiveUnlessLapsed ==
    \A c, d \in Consumers :
        c # d /\ Holds(c) /\ Holds(d) /\ msg[c] = msg[d] => lapsed[c] \/ lapsed[d]

\* A runner whose loop turns is not silent for a lease before more than
\* Tolerated of its renewals in a row failed.  _renew_until_done: "one failed
\* renewal doesn't cost the lease, several in a row legitimately do".
HeartbeatTolerance ==
    \A c \in Consumers :
        Holds(c) /\ row[msg[c]] = "queued" /\ missed[c] <= Tolerated
            => silent[c] < Lapse

\* The promise of the port: bus and runners implement the at-least-once queue.
Port == INSTANCE AtLeastOnce WITH
    status <- row,
    holders <- [m \in Messages |-> {c \in Consumers : Holds(c) /\ msg[c] = m}],
    done <- handled

ImplementsPort == Port!Spec

\* An acknowledged message is one that some handler returned from.
NothingLost == Port!NothingLost

\* Whatever crashes, stops and fails in between, a published message is handled
\* and acknowledged, or wiped by a reset.
EventuallyFinished ==
    \A m \in Messages : row[m] = "queued" ~> row[m] \in {"consumed", "wiped"}

=============================================================================
