------------------------- MODULE MessageBus_proofs -------------------------
(***************************************************************************)
(* Proofs about MessageBus, for every set of consumers and messages and    *)
(* every setting of the lease and the heartbeat that RenewAssumption       *)
(* admits.                                                                 *)
(***************************************************************************)
EXTENDS MessageBus, TLAPS

\* The message a runner names exists, and it names one iff it works for it.
MsgOk(c) ==
    /\ pc[c] \in {"down", "idle", "backoff"} => msg[c] = NoMessage
    /\ pc[c] \in {"claiming", "claimed", "handling", "acking"}
         => msg[c] \in Messages /\ row[msg[c]] # "absent"

\* Where its timer stands.
TimerOk(c) ==
    /\ InTxn(c) => timer[c] \in 0 .. MaxTxn
    /\ pc[c] = "claimed" => timer[c] \in 0 .. MaxStall
    /\ pc[c] = "handling" /\ beat[c] = "asleep" => timer[c] \in -MaxStall .. RenewEvery

\* What is left of a lease covers what its holder has not been silent for.
LeaseOk(c) ==
    Holds(c) /\ row[msg[c]] = "queued" => left[msg[c]] + silent[c] >= Lapse

LapsedOk(c) == Holds(c) /\ silent[c] >= Lapse => lapsed[c]

\* How silent a runner can be after the renewals it missed.
Spent(c) == MaxTxn + MaxStall + missed[c] * Cycle

BeatOk(c) ==
    Holds(c) /\ row[msg[c]] = "queued" /\ missed[c] <= Tolerated =>
        /\ pc[c] = "claimed" => silent[c] + timer[c] <= Spent(c)
        /\ pc[c] = "handling" =>
            \/ beat[c] = "asleep" /\ silent[c] + timer[c] <= Spent(c) + RenewEvery
            \/ beat[c] = "txn" /\ silent[c] <= Spent(c) + RenewEvery + MaxStall + timer[c]

AckOk(c) == pc[c] = "acking" => msg[c] \in handled

RunnerInv(c) ==
    MsgOk(c) /\ TimerOk(c) /\ LeaseOk(c) /\ LapsedOk(c) /\ BeatOk(c) /\ AckOk(c)

ConsumedInv == \A m \in Messages : row[m] = "consumed" => m \in handled

\* The inductive invariant.  The safety properties alone are not inductive:
\* that a second claim finds the first holder lapsed follows from LeaseOk, and
\* LeaseOk survives a late renewal only because TimerOk bounds its age.
IInv ==
    /\ TypeOK
    /\ \A c \in Consumers : RunnerInv(c)
    /\ ExclusiveUnlessLapsed
    /\ ConsumedInv

-----------------------------------------------------------------------------

\* The arithmetic of the settings.
LEMMA Settings ==
    /\ Cycle \in Nat /\ Lapse \in Nat
    /\ MaxTxn + MaxStall < Lapse
    /\ Lease = Lapse + MaxTxn
    /\ \A k \in Nat : k * Cycle \in Nat /\ (k + 1) * Cycle = k * Cycle + Cycle
<1>1. Cycle \in Nat /\ Lapse \in Int /\ Lease = Lapse + MaxTxn
  BY BusAssumption DEF Cycle, Lapse
<1>2. \A k \in Nat, n \in Nat : k * n \in Nat /\ (k + 1) * n = k * n + n
  BY SMT
<1>3. (Tolerated + 1) * Cycle \in Nat
  BY <1>1, <1>2, BusAssumption
<1>4. MaxTxn + MaxStall < Lapse
  BY <1>1, <1>3, BusAssumption, RenewAssumption
<1>. QED
  BY <1>1, <1>2, <1>4, BusAssumption

LEMMA InitTypeOK == Init => TypeOK
  BY Settings, BusAssumption DEF Init, TypeOK, RowStates, PCs, NoMessage

LEMMA ReleaseTypeOK ==
    ASSUME TypeOK, NEW c \in Consumers, NEW where \in PCs, Release(c, where)
    PROVE  /\ pc' \in [Consumers -> PCs]
           /\ msg' \in [Consumers -> Messages \cup {NoMessage}]
           /\ beat' \in [Consumers -> {"off", "asleep", "txn"}]
           /\ timer' \in [Consumers -> Int]
           /\ silent' \in [Consumers -> 0 .. Lease]
           /\ lapsed' \in [Consumers -> BOOLEAN]
           /\ missed' \in [Consumers -> 0 .. Tolerated + 1]
  BY BusAssumption DEF Release, TypeOK

\* Type correctness is inductive together with the range of the timers: a lease
\* is written Lease minus the age of a clock reading.
LEMMA NextTypeOK ==
    ASSUME TypeOK, \A c \in Consumers : MsgOk(c) /\ TimerOk(c), [Next]_vars
    PROVE  TypeOK'
<1>. USE Settings, BusAssumption DEF TypeOK, TimerOk, MsgOk, NewLease
<1>1. ASSUME NEW m \in Messages, Publish(m) PROVE TypeOK'
  BY <1>1 DEF Publish, runVars, obsVars, RowStates
<1>2. ASSUME NEW m \in Messages, Wipe(m) PROVE TypeOK'
  BY <1>2 DEF Wipe, runVars, obsVars, RowStates
<1>3. ASSUME NEW c \in Consumers, Start(c) PROVE TypeOK'
  BY <1>3 DEF Start, rowVars, obsVars, PCs, RowStates
<1>4. ASSUME NEW c \in Consumers, Resubscribe(c) PROVE TypeOK'
  BY <1>4 DEF Resubscribe, rowVars, obsVars, PCs, RowStates
<1>5. ASSUME NEW c \in Consumers, ClaimSelect(c) PROVE TypeOK'
  BY <1>5 DEF ClaimSelect, Free, rowVars, obsVars, PCs, RowStates
<1>6. ASSUME NEW c \in Consumers, ClaimCommit(c) PROVE TypeOK'
  BY <1>6 DEF ClaimCommit, StillFree, Free, InTxn, PCs, RowStates
<1>7. ASSUME NEW c \in Consumers, ClaimLost(c) PROVE TypeOK'
  <2>1. Release(c, "idle") /\ "idle" \in PCs
    BY <1>7 DEF ClaimLost, PCs
  <2>2. row' \in [Messages -> RowStates] /\ left' \in [Messages -> -MaxTxn .. Lease]
        /\ stop' \in [Consumers -> BOOLEAN] /\ handled' \in SUBSET Messages
    BY <1>7 DEF ClaimLost, rowVars
  <2>. QED
    BY <2>1, <2>2, ReleaseTypeOK
<1>8. ASSUME NEW c \in Consumers, ClaimError(c) PROVE TypeOK'
  <2>1. Release(c, "backoff") /\ "backoff" \in PCs
    BY <1>8 DEF ClaimError, PCs
  <2>2. row' \in [Messages -> RowStates] /\ left' \in [Messages -> -MaxTxn .. Lease]
        /\ stop' \in [Consumers -> BOOLEAN] /\ handled' \in SUBSET Messages
    BY <1>8 DEF ClaimError, StillFree, Free, InTxn, rowVars
  <2>. QED
    BY <2>1, <2>2, ReleaseTypeOK
<1>9. ASSUME NEW c \in Consumers, Dispatch(c) PROVE TypeOK'
  <2>1. handled' \in SUBSET Messages
    BY <1>9 DEF Dispatch
  <2>2. /\ row' \in [Messages -> RowStates] /\ left' \in [Messages -> -MaxTxn .. Lease]
        /\ stop' \in [Consumers -> BOOLEAN] /\ lapsed' \in [Consumers -> BOOLEAN]
        /\ msg' \in [Consumers -> Messages \cup {NoMessage}]
        /\ silent' \in [Consumers -> 0 .. Lease]
        /\ missed' \in [Consumers -> 0 .. Tolerated + 1]
    BY <1>9 DEF Dispatch, rowVars
  <2>3. /\ pc' \in [Consumers -> PCs] /\ timer' \in [Consumers -> Int]
        /\ beat' \in [Consumers -> {"off", "asleep", "txn"}]
    BY <1>9 DEF Dispatch, PCs
  <2>. QED
    BY <2>1, <2>2, <2>3
<1>10. ASSUME NEW c \in Consumers, RenewStart(c) PROVE TypeOK'
  BY <1>10 DEF RenewStart, rowVars, obsVars, PCs, RowStates
<1>11. ASSUME NEW c \in Consumers, RenewCommit(c) PROVE TypeOK'
  <2>1. /\ row' \in [Messages -> RowStates] /\ stop' \in [Consumers -> BOOLEAN]
        /\ pc' \in [Consumers -> PCs] /\ msg' \in [Consumers -> Messages \cup {NoMessage}]
        /\ lapsed' \in [Consumers -> BOOLEAN] /\ handled' \in SUBSET Messages
    BY <1>11 DEF RenewCommit
  <2>2. left' \in [Messages -> -MaxTxn .. Lease] /\ silent' \in [Consumers -> 0 .. Lease]
    BY <1>11 DEF RenewCommit, InTxn
  <2>3. beat' \in [Consumers -> {"off", "asleep", "txn"}] /\ timer' \in [Consumers -> Int]
        /\ missed' \in [Consumers -> 0 .. Tolerated + 1]
    BY <1>11 DEF RenewCommit
  <2>. QED
    BY <2>1, <2>2, <2>3
<1>12. ASSUME NEW c \in Consumers, RenewError(c) PROVE TypeOK'
  <2>1. /\ row' \in [Messages -> RowStates] /\ stop' \in [Consumers -> BOOLEAN]
        /\ pc' \in [Consumers -> PCs] /\ msg' \in [Consumers -> Messages \cup {NoMessage}]
        /\ lapsed' \in [Consumers -> BOOLEAN] /\ handled' \in SUBSET Messages
    BY <1>12 DEF RenewError
  <2>2. left' \in [Messages -> -MaxTxn .. Lease] /\ silent' \in [Consumers -> 0 .. Lease]
    BY <1>12 DEF RenewError, InTxn
  <2>3. beat' \in [Consumers -> {"off", "asleep", "txn"}] /\ timer' \in [Consumers -> Int]
        /\ missed' \in [Consumers -> 0 .. Tolerated + 1]
    BY <1>12 DEF RenewError, AfterMiss
  <2>. QED
    BY <2>1, <2>2, <2>3
<1>13. ASSUME NEW c \in Consumers, HandlerReturns(c) PROVE TypeOK'
  <2>1. handled' \in SUBSET Messages
    BY <1>13 DEF HandlerReturns
  <2>2. /\ row' \in [Messages -> RowStates] /\ left' \in [Messages -> -MaxTxn .. Lease]
        /\ stop' \in [Consumers -> BOOLEAN] /\ lapsed' \in [Consumers -> BOOLEAN]
        /\ msg' \in [Consumers -> Messages \cup {NoMessage}]
        /\ silent' \in [Consumers -> 0 .. Lease]
        /\ missed' \in [Consumers -> 0 .. Tolerated + 1]
    BY <1>13 DEF HandlerReturns, rowVars
  <2>3. /\ pc' \in [Consumers -> PCs] /\ timer' \in [Consumers -> Int]
        /\ beat' \in [Consumers -> {"off", "asleep", "txn"}]
    BY <1>13 DEF HandlerReturns, PCs
  <2>. QED
    BY <2>1, <2>2, <2>3
<1>14. ASSUME NEW c \in Consumers, HandlerRaises(c) PROVE TypeOK'
  <2>1. Release(c, "idle") /\ "idle" \in PCs
    BY <1>14 DEF HandlerRaises, PCs
  <2>2. row' \in [Messages -> RowStates] /\ left' \in [Messages -> -MaxTxn .. Lease]
        /\ stop' \in [Consumers -> BOOLEAN] /\ handled' \in SUBSET Messages
    BY <1>14 DEF HandlerRaises, rowVars
  <2>. QED
    BY <2>1, <2>2, ReleaseTypeOK
<1>15. ASSUME NEW c \in Consumers, Ack(c) PROVE TypeOK'
  <2>1. Release(c, "idle") /\ "idle" \in PCs
    BY <1>15 DEF Ack, PCs
  <2>2. row' \in [Messages -> RowStates] /\ left' \in [Messages -> -MaxTxn .. Lease]
        /\ stop' \in [Consumers -> BOOLEAN] /\ handled' \in SUBSET Messages
    BY <1>15 DEF Ack, RowStates
  <2>. QED
    BY <2>1, <2>2, ReleaseTypeOK
<1>16. ASSUME NEW c \in Consumers, AckError(c) PROVE TypeOK'
  <2>1. Release(c, "backoff") /\ "backoff" \in PCs
    BY <1>16 DEF AckError, PCs
  <2>2. row' \in [Messages -> RowStates] /\ left' \in [Messages -> -MaxTxn .. Lease]
        /\ stop' \in [Consumers -> BOOLEAN] /\ handled' \in SUBSET Messages
    BY <1>16 DEF AckError, RowStates
  <2>. QED
    BY <2>1, <2>2, ReleaseTypeOK
<1>17. ASSUME NEW c \in Consumers, Stop(c) PROVE TypeOK'
  BY <1>17 DEF Stop, rowVars, obsVars, PCs, RowStates
<1>18. ASSUME NEW c \in Consumers, StopExit(c) PROVE TypeOK'
  <2>1. Release(c, "down") /\ "down" \in PCs
    BY <1>18 DEF StopExit, PCs
  <2>2. row' \in [Messages -> RowStates] /\ left' \in [Messages -> -MaxTxn .. Lease]
        /\ stop' \in [Consumers -> BOOLEAN] /\ handled' \in SUBSET Messages
    BY <1>18 DEF StopExit, rowVars
  <2>. QED
    BY <2>1, <2>2, ReleaseTypeOK
<1>19. ASSUME NEW c \in Consumers, Crash(c) PROVE TypeOK'
  <2>1. Release(c, "down") /\ "down" \in PCs
    BY <1>19 DEF Crash, PCs
  <2>2. row' \in [Messages -> RowStates] /\ left' \in [Messages -> -MaxTxn .. Lease]
        /\ stop' \in [Consumers -> BOOLEAN] /\ handled' \in SUBSET Messages
    BY <1>19 DEF Crash, rowVars
  <2>. QED
    BY <2>1, <2>2, ReleaseTypeOK
<1>20. ASSUME Tick PROVE TypeOK'
  BY <1>20 DEF Tick, Holds
<1>21. ASSUME UNCHANGED vars PROVE TypeOK'
  BY <1>21 DEF vars
<1>. QED
  BY <1>1, <1>2, <1>3, <1>4, <1>5, <1>6, <1>7, <1>8, <1>9, <1>10, <1>11, <1>12, <1>13, <1>14, <1>15, <1>16, <1>17, <1>18, <1>19, <1>20, <1>21 DEF Next, Runner

\* What a step of runner c does to the rest of the state.
Effect(c) ==
    /\ \A d \in Consumers \ {c} :
        /\ pc'[d] = pc[d] /\ msg'[d] = msg[d] /\ beat'[d] = beat[d] /\ timer'[d] = timer[d]
        /\ silent'[d] = silent[d] /\ lapsed'[d] = lapsed[d] /\ missed'[d] = missed[d]
    /\ \A m \in Messages : row'[m] = row[m] \/ (row'[m] = "consumed" /\ m \in handled)
    /\ \A m \in Messages : left'[m] = left[m] \/ left'[m] >= Lapse
    /\ handled \subseteq handled'

LEMMA RunnerEffect ==
    ASSUME IInv, NEW c \in Consumers, Runner(c)
    PROVE  Effect(c)
<1>. USE Settings, BusAssumption DEF IInv, RunnerInv, TypeOK, Effect, Release, NewLease
<1>1. CASE Start(c)
  BY <1>1 DEF Start, rowVars, obsVars
<1>2. CASE Resubscribe(c)
  BY <1>2 DEF Resubscribe, rowVars, obsVars
<1>3. CASE ClaimSelect(c)
  BY <1>3 DEF ClaimSelect, rowVars, obsVars
<1>4. CASE ClaimCommit(c)
  BY <1>4 DEF ClaimCommit, InTxn, TimerOk
<1>5. CASE ClaimLost(c)
  BY <1>5 DEF ClaimLost, rowVars
<1>6. CASE ClaimError(c)
  BY <1>6 DEF ClaimError, InTxn, TimerOk
<1>7. CASE Dispatch(c)
  BY <1>7 DEF Dispatch, rowVars
<1>8. CASE RenewStart(c)
  BY <1>8 DEF RenewStart, rowVars, obsVars
<1>9. CASE RenewCommit(c)
  BY <1>9 DEF RenewCommit, InTxn, TimerOk
<1>10. CASE RenewError(c)
  BY <1>10 DEF RenewError, InTxn, TimerOk
<1>11. CASE HandlerReturns(c)
  BY <1>11 DEF HandlerReturns, rowVars
<1>12. CASE HandlerRaises(c)
  BY <1>12 DEF HandlerRaises, rowVars
<1>13. CASE Ack(c)
  BY <1>13 DEF Ack, AckOk
<1>14. CASE AckError(c)
  BY <1>14 DEF AckError, AckOk
<1>15. CASE Stop(c)
  BY <1>15 DEF Stop, rowVars, obsVars
<1>16. CASE StopExit(c)
  BY <1>16 DEF StopExit, rowVars
<1>17. CASE Crash(c)
  BY <1>17 DEF Crash, rowVars
<1>. QED
  BY <1>1, <1>2, <1>3, <1>4, <1>5, <1>6, <1>7, <1>8, <1>9, <1>10, <1>11, <1>12, <1>13, <1>14, <1>15, <1>16, <1>17 DEF Runner

LEMMA OthersKeepInv ==
    ASSUME IInv, TypeOK', NEW c \in Consumers, Runner(c), NEW d \in Consumers, d # c
    PROVE  RunnerInv(d)'
<1>. USE Settings, BusAssumption DEF IInv, RunnerInv, TypeOK
<1>1. /\ pc'[d] = pc[d] /\ msg'[d] = msg[d] /\ beat'[d] = beat[d] /\ timer'[d] = timer[d]
      /\ silent'[d] = silent[d] /\ lapsed'[d] = lapsed[d] /\ missed'[d] = missed[d]
  BY RunnerEffect DEF Effect
<1>2. /\ \A m \in Messages : row'[m] = row[m] \/ (row'[m] = "consumed" /\ m \in handled)
      /\ \A m \in Messages : left'[m] = left[m] \/ left'[m] >= Lapse
      /\ handled \subseteq handled'
  BY RunnerEffect DEF Effect
<1>3. MsgOk(d)'
  BY <1>1, <1>2 DEF MsgOk
<1>4. TimerOk(d)'
  BY <1>1 DEF TimerOk, InTxn
<1>5. LeaseOk(d)'
  <2>. SUFFICES ASSUME Holds(d)', row'[msg'[d]] = "queued"
                PROVE  left'[msg'[d]] + silent'[d] >= Lapse
    BY DEF LeaseOk
  <2>1. Holds(d) /\ msg[d] \in Messages /\ row[msg[d]] = "queued"
    BY <1>1, <1>2 DEF Holds, MsgOk
  <2>2. left[msg[d]] + silent[d] >= Lapse
    BY <2>1 DEF LeaseOk
  <2>3. left'[msg[d]] = left[msg[d]] \/ left'[msg[d]] >= Lapse
    BY <2>1, <1>2
  <2>4. left' \in [Messages -> -MaxTxn .. Lease] /\ silent[d] \in 0 .. Lease
    OBVIOUS
  <2>5. left'[msg[d]] \in -MaxTxn .. Lease
    BY <2>1, <2>4
  <2>. QED
    BY <1>1, <2>2, <2>3, <2>4, <2>5
<1>6. LapsedOk(d)'
  BY <1>1 DEF LapsedOk, Holds
<1>7. BeatOk(d)'
  BY <1>1, <1>2 DEF BeatOk, Holds, MsgOk, Spent
<1>8. AckOk(d)'
  BY <1>1, <1>2 DEF AckOk
<1>. QED
  BY <1>3, <1>4, <1>5, <1>6, <1>7, <1>8

LEMMA ReleasedInv ==
    ASSUME IInv, NEW c \in Consumers, NEW where \in {"idle", "down", "backoff"}, Release(c, where)
    PROVE  RunnerInv(c)'
  BY DEF Release, IInv, TypeOK, RunnerInv, MsgOk, TimerOk, LeaseOk, LapsedOk, BeatOk, AckOk, Holds, InTxn

LEMMA OwnInv ==
    ASSUME IInv, TypeOK', NEW c \in Consumers, Runner(c)
    PROVE  RunnerInv(c)'
<1>. USE Settings, BusAssumption DEF IInv, RunnerInv, TypeOK
<1>. USE DEF MsgOk, TimerOk, LeaseOk, LapsedOk, BeatOk, AckOk, Holds, InTxn, NewLease
<1>1. CASE Start(c)
  BY <1>1 DEF Start, rowVars, obsVars
<1>2. CASE Resubscribe(c)
  BY <1>2 DEF Resubscribe, rowVars, obsVars
<1>3. CASE ClaimSelect(c)
  BY <1>3 DEF ClaimSelect, Free, rowVars, obsVars
<1>4. CASE ClaimCommit(c)
  BY <1>4 DEF ClaimCommit, StillFree, Free, Spent
<1>5. CASE ClaimLost(c)
  BY <1>5, ReleasedInv DEF ClaimLost
<1>6. CASE ClaimError(c)
  BY <1>6, ReleasedInv DEF ClaimError
<1>7. CASE Dispatch(c)
  BY <1>7 DEF Dispatch, Spent, rowVars
<1>8. CASE RenewStart(c)
  <2>1. MsgOk(c)' /\ TimerOk(c)' /\ LapsedOk(c)' /\ AckOk(c)'
    BY <1>8 DEF RenewStart, rowVars, obsVars
  <2>2. LeaseOk(c)'
    BY <1>8 DEF RenewStart, rowVars, obsVars
  <2>3. Spent(c)' = Spent(c) /\ Spent(c) \in Int
    BY <1>8 DEF RenewStart, Spent, obsVars
  <2>4. BeatOk(c)'
    BY <1>8, <2>3 DEF RenewStart, rowVars, obsVars
  <2>. QED
    BY <2>1, <2>2, <2>4
<1>9. CASE RenewCommit(c)
  BY <1>9 DEF RenewCommit, Spent
<1>10. CASE RenewError(c)
  <2>1. MsgOk(c)' /\ TimerOk(c)' /\ LapsedOk(c)' /\ AckOk(c)'
    BY <1>10 DEF RenewError, AfterMiss
  <2>2. LeaseOk(c)'
    BY <1>10 DEF RenewError
  <2>3. BeatOk(c)'
    <3>. SUFFICES ASSUME Holds(c)', row'[msg'[c]] = "queued", missed'[c] <= Tolerated
                  PROVE  beat'[c] = "asleep" /\ silent'[c] + timer'[c] <= Spent(c)' + RenewEvery
      BY <1>10 DEF RenewError
    <3>1. missed[c] \in Nat /\ missed'[c] = missed[c] + 1 /\ timer[c] <= MaxTxn
      BY <1>10 DEF RenewError
    <3>2. Spent(c)' = Spent(c) + Cycle /\ Spent(c) \in Int
      <4>1. missed[c] * Cycle \in Nat /\ (missed[c] + 1) * Cycle = missed[c] * Cycle + Cycle
        BY <3>1, Settings
      <4>. QED
        BY <3>1, <4>1 DEF Spent
    <3>3. silent[c] <= Spent(c) + RenewEvery + MaxStall + timer[c]
      BY <1>10, <3>1 DEF RenewError
    <3>4. silent'[c] = silent[c] /\ timer'[c] = RenewEvery /\ beat'[c] = "asleep"
      BY <1>10 DEF RenewError, AfterMiss
    <3>. QED
      BY <3>1, <3>2, <3>3, <3>4 DEF Cycle
  <2>. QED
    BY <2>1, <2>2, <2>3
<1>11. CASE HandlerReturns(c)
  BY <1>11 DEF HandlerReturns, rowVars
<1>12. CASE HandlerRaises(c)
  BY <1>12, ReleasedInv DEF HandlerRaises
<1>13. CASE Ack(c)
  BY <1>13, ReleasedInv DEF Ack
<1>14. CASE AckError(c)
  BY <1>14, ReleasedInv DEF AckError
<1>15. CASE Stop(c)
  BY <1>15 DEF Stop, Spent, rowVars, obsVars
<1>16. CASE StopExit(c)
  BY <1>16, ReleasedInv DEF StopExit
<1>17. CASE Crash(c)
  BY <1>17, ReleasedInv DEF Crash
<1>. QED
  BY <1>1, <1>2, <1>3, <1>4, <1>5, <1>6, <1>7, <1>8, <1>9, <1>10, <1>11, <1>12, <1>13, <1>14, <1>15, <1>16, <1>17 DEF Runner

\* A runner starts to hold a message by a committed claim only.
LEMMA HoldsByClaim ==
    ASSUME IInv, NEW c \in Consumers, Runner(c), Holds(c)'
    PROVE  \/ Holds(c) /\ msg'[c] = msg[c] /\ lapsed'[c] = lapsed[c]
           \/ ClaimCommit(c)
<1>. USE DEF IInv, TypeOK, Holds
<1>1. CASE Start(c) \/ Resubscribe(c) \/ ClaimSelect(c) \/ HandlerReturns(c)
  BY <1>1 DEF Start, Resubscribe, ClaimSelect, HandlerReturns
<1>2. CASE ClaimLost(c) \/ ClaimError(c) \/ HandlerRaises(c) \/ Ack(c) \/ AckError(c)
  BY <1>2 DEF ClaimLost, ClaimError, HandlerRaises, Ack, AckError, Release
<1>3. CASE StopExit(c) \/ Crash(c)
  BY <1>3 DEF StopExit, Crash, Release
<1>4. CASE Dispatch(c) \/ RenewStart(c) \/ RenewCommit(c) \/ RenewError(c) \/ Stop(c)
  BY <1>4 DEF Dispatch, RenewStart, RenewCommit, RenewError, Stop, obsVars
<1>. QED
  BY <1>1, <1>2, <1>3, <1>4 DEF Runner

\* A claim that commits finds every other holder of the message lapsed.
LEMMA ClaimFindsLapsed ==
    ASSUME IInv, NEW c \in Consumers, ClaimCommit(c),
           NEW d \in Consumers, Holds(d), msg[d] = msg[c]
    PROVE  lapsed[d]
<1>1. msg[c] \in Messages /\ row[msg[c]] = "queued" /\ left[msg[c]] <= -timer[c]
  BY DEF ClaimCommit, StillFree, Free
<1>2. timer[c] \in 0 .. MaxTxn
  BY DEF ClaimCommit, IInv, RunnerInv, TimerOk, InTxn
<1>3. left[msg[d]] + silent[d] >= Lapse
  BY <1>1 DEF IInv, RunnerInv, LeaseOk
<1>4. silent[d] \in 0 .. Lease /\ left[msg[c]] \in -MaxTxn .. Lease
  BY <1>1 DEF IInv, TypeOK
<1>5. silent[d] >= Lapse
  BY <1>1, <1>2, <1>3, <1>4, Settings, BusAssumption
<1>. QED
  BY <1>5 DEF IInv, RunnerInv, LapsedOk

LEMMA RunnerKeepsExclusive ==
    ASSUME IInv, TypeOK', NEW r \in Consumers, Runner(r)
    PROVE  ExclusiveUnlessLapsed'
<1>. SUFFICES ASSUME NEW c \in Consumers, NEW d \in Consumers, c # d,
                     Holds(c)', Holds(d)', msg'[c] = msg'[d]
              PROVE  lapsed'[c] \/ lapsed'[d]
  BY DEF ExclusiveUnlessLapsed
<1>1. \A o \in Consumers \ {r} :
        (Holds(o)' <=> Holds(o)) /\ msg'[o] = msg[o] /\ lapsed'[o] = lapsed[o]
  BY RunnerEffect DEF Effect, Holds
<1>2. \A o \in Consumers : o # r /\ Holds(o)' /\ Holds(r)' /\ msg'[o] = msg'[r]
                           => lapsed'[o] \/ lapsed'[r]
  <2>. SUFFICES ASSUME NEW o \in Consumers, o # r, Holds(o)', Holds(r)', msg'[o] = msg'[r]
                PROVE  lapsed'[o] \/ lapsed'[r]
    OBVIOUS
  <2>1. CASE Holds(r) /\ msg'[r] = msg[r] /\ lapsed'[r] = lapsed[r]
    BY <2>1, <1>1 DEF IInv, ExclusiveUnlessLapsed
  <2>2. CASE ClaimCommit(r)
    <3>1. msg'[r] = msg[r]
      BY <2>2 DEF ClaimCommit
    <3>. QED
      BY <2>2, <3>1, <1>1, ClaimFindsLapsed
  <2>. QED
    BY <2>1, <2>2, HoldsByClaim
<1>. QED
  BY <1>1, <1>2 DEF IInv, ExclusiveUnlessLapsed

LEMMA TickKeepsInv ==
    ASSUME IInv, TypeOK', Tick
    PROVE  IInv'
<1>. USE Settings, BusAssumption DEF IInv, RunnerInv, TypeOK, Tick
<1>1. ASSUME NEW c \in Consumers PROVE RunnerInv(c)'
  <2>1. MsgOk(c)' /\ AckOk(c)'
    BY DEF MsgOk, AckOk
  <2>2. TimerOk(c)'
    BY DEF TimerOk, InTxn
  <2>3. LeaseOk(c)'
    <3>. SUFFICES ASSUME Holds(c), row[msg[c]] = "queued"
                  PROVE  left'[msg[c]] + silent'[c] >= Lapse
      BY DEF LeaseOk, Holds
    <3>1. msg[c] \in Messages /\ left[msg[c]] + silent[c] >= Lapse
      BY DEF Holds, MsgOk, LeaseOk
    <3>2. left[msg[c]] \in -MaxTxn .. Lease /\ silent[c] \in 0 .. Lease
      BY <3>1
    <3>3. left'[msg[c]] = IF left[msg[c]] > -MaxTxn THEN left[msg[c]] - 1 ELSE left[msg[c]]
      BY <3>1
    <3>4. silent'[c] = IF silent[c] < Lease THEN silent[c] + 1 ELSE silent[c]
      OBVIOUS
    <3>. QED
      BY <3>1, <3>2, <3>3, <3>4
  <2>4. LapsedOk(c)'
    BY DEF LapsedOk, Holds
  <2>5. BeatOk(c)'
    <3>1. Spent(c)' = Spent(c)
      BY DEF Spent
    <3>2. Spent(c) \in Int
      BY DEF Spent
    <3>. QED
      BY <3>1, <3>2 DEF BeatOk, Holds, InTxn
  <2>. QED
    BY <2>1, <2>2, <2>3, <2>4, <2>5
<1>2. ExclusiveUnlessLapsed'
  BY DEF ExclusiveUnlessLapsed, Holds
<1>3. ConsumedInv'
  BY DEF ConsumedInv
<1>. QED
  BY <1>1, <1>2, <1>3

LEMMA RowStepKeepsInv ==
    ASSUME IInv, TypeOK', NEW m \in Messages, Publish(m) \/ Wipe(m)
    PROVE  IInv'
<1>. USE DEF IInv, RunnerInv, TypeOK, Publish, Wipe, runVars, obsVars
<1>1. ASSUME NEW c \in Consumers PROVE RunnerInv(c)'
  <2>1. MsgOk(c)' /\ AckOk(c)' /\ TimerOk(c)' /\ LapsedOk(c)'
    BY DEF MsgOk, AckOk, TimerOk, InTxn, LapsedOk, Holds
  <2>2. Holds(c) => msg[c] \in Messages /\ row[msg[c]] # "absent"
    BY DEF Holds, MsgOk
  <2>3. LeaseOk(c)' /\ BeatOk(c)'
    BY <2>2 DEF LeaseOk, BeatOk, Holds, Spent
  <2>. QED
    BY <2>1, <2>3
<1>2. ExclusiveUnlessLapsed'
  BY DEF ExclusiveUnlessLapsed, Holds
<1>3. ConsumedInv'
  BY DEF ConsumedInv
<1>. QED
  BY <1>1, <1>2, <1>3

LEMMA InitIInv == Init => IInv
<1>. SUFFICES ASSUME Init PROVE IInv
  OBVIOUS
<1>1. TypeOK
  BY InitTypeOK
<1>2. ASSUME NEW c \in Consumers PROVE RunnerInv(c)
  BY DEF Init, RunnerInv, MsgOk, TimerOk, LeaseOk, LapsedOk, BeatOk, AckOk, Holds, InTxn
<1>3. ExclusiveUnlessLapsed /\ ConsumedInv
  BY DEF Init, ExclusiveUnlessLapsed, ConsumedInv, Holds
<1>. QED
  BY <1>1, <1>2, <1>3 DEF IInv

LEMMA NextIInv == IInv /\ [Next]_vars => IInv'
<1>. SUFFICES ASSUME IInv, [Next]_vars PROVE IInv'
  OBVIOUS
<1>1. TypeOK'
  BY NextTypeOK DEF IInv, RunnerInv
<1>2. ASSUME NEW m \in Messages, Publish(m) \/ Wipe(m) PROVE IInv'
  BY <1>1, <1>2, RowStepKeepsInv
<1>3. ASSUME NEW c \in Consumers, Runner(c) PROVE IInv'
  <2>1. \A d \in Consumers : RunnerInv(d)'
    BY <1>1, <1>3, OthersKeepInv, OwnInv
  <2>2. ExclusiveUnlessLapsed'
    BY <1>1, <1>3, RunnerKeepsExclusive
  <2>3. ConsumedInv'
    BY <1>3, RunnerEffect DEF Effect, IInv, ConsumedInv
  <2>. QED
    BY <1>1, <2>1, <2>2, <2>3 DEF IInv
<1>4. CASE Tick
  BY <1>1, <1>4, TickKeepsInv
<1>5. CASE UNCHANGED vars
  BY <1>5 DEF vars, IInv, TypeOK, RunnerInv, MsgOk, TimerOk, LeaseOk, LapsedOk, BeatOk, AckOk,
              Holds, InTxn, Spent, ExclusiveUnlessLapsed, ConsumedInv
<1>. QED
  BY <1>2, <1>3, <1>4, <1>5 DEF Next

LEMMA SpecIInv == Spec => []IInv
  BY InitIInv, NextIInv, PTL DEF Spec

-----------------------------------------------------------------------------

\* Every reachable state of bus and runners is well typed: no lease is written
\* beyond Lease, no counter leaves its range.
THEOREM TypeCorrect == Spec => []TypeOK
<1>1. IInv => TypeOK
  BY DEF IInv
<1>. QED
  BY <1>1, SpecIInv, PTL

\* Two runners hold one message only if one of them was silent for a lease: the
\* lease of SqlAlchemyMessageBus, renewed by AgentRunner's heartbeat, is a
\* liveness signal and not a deadline.
THEOREM LeaseIsLivenessSignal == Spec => []ExclusiveUnlessLapsed
<1>1. IInv => ExclusiveUnlessLapsed
  BY DEF IInv
<1>. QED
  BY <1>1, SpecIInv, PTL

\* An acknowledged message was handled: no crash, raise, stop or database failure
\* between the claim and the end of the handler loses it.
THEOREM NoMessageLost == Spec => []NothingLost
<1>1. IInv => NothingLost
  BY DEF IInv, ConsumedInv, NothingLost, Port!NothingLost
<1>. QED
  BY <1>1, SpecIInv, PTL

\* The settings' promise: a few missed renewals in a row do not cost the claim.
THEOREM MissesAreTolerated == Spec => []HeartbeatTolerance
<1>1. IInv => HeartbeatTolerance
  <2>. SUFFICES ASSUME IInv, NEW c \in Consumers,
                       Holds(c), row[msg[c]] = "queued", missed[c] <= Tolerated
                PROVE  silent[c] < Lapse
    BY DEF HeartbeatTolerance
  <2>1. missed[c] \in Nat /\ silent[c] \in Int /\ timer[c] \in Int
    BY BusAssumption DEF IInv, TypeOK
  <2>2. missed[c] * Cycle \in Nat /\ missed[c] * Cycle <= Tolerated * Cycle
    <3>1. \A i, j, n \in Nat : i <= j => i * n \in Nat /\ i * n <= j * n
      BY SMT
    <3>. QED
      BY <2>1, <3>1, Settings, BusAssumption
  <2>3. Spent(c) \in Int /\ Spent(c) + Cycle < Lapse
    BY <2>1, <2>2, Settings, BusAssumption, RenewAssumption DEF Spent
  <2>4. TimerOk(c) /\ BeatOk(c)
    BY DEF IInv, RunnerInv
  <2>5. silent[c] <= Spent(c) + Cycle
    BY <2>1, <2>3, <2>4, BusAssumption DEF TimerOk, BeatOk, Holds, InTxn, Cycle
  <2>. QED
    BY <2>1, <2>3, <2>5, Settings
<1>. QED
  BY <1>1, SpecIInv, PTL

-----------------------------------------------------------------------------

\* The refinement mapping of Port: who holds a message.
Held == [m \in Messages |-> {c \in Consumers : Holds(c) /\ msg[c] = m}]

\* How Held changes when at most one runner starts or ceases to hold.
LEMMA HeldChange ==
    ASSUME NEW c \in Consumers,
           \A d \in Consumers \ {c} : (Holds(d)' <=> Holds(d)) /\ msg'[d] = msg[d]
    PROVE  /\ (Holds(c)' <=> Holds(c)) /\ (Holds(c) => msg'[c] = msg[c]) => Held' = Held
           /\ ~Holds(c) /\ Holds(c)' /\ msg'[c] \in Messages
                => Held' = [Held EXCEPT ![msg'[c]] = @ \cup {c}]
           /\ Holds(c) /\ ~Holds(c)' /\ msg[c] \in Messages
                => Held' = [Held EXCEPT ![msg[c]] = @ \ {c}]
<1>1. (Holds(c)' <=> Holds(c)) /\ (Holds(c) => msg'[c] = msg[c]) => Held' = Held
  BY DEF Held
<1>2. ASSUME ~Holds(c), Holds(c)', msg'[c] \in Messages
      PROVE  Held' = [Held EXCEPT ![msg'[c]] = @ \cup {c}]
  <2>1. \A m \in Messages : Held'[m] = [Held EXCEPT ![msg'[c]] = @ \cup {c}][m]
    BY <1>2 DEF Held
  <2>. QED
    BY <2>1 DEF Held
<1>3. ASSUME Holds(c), ~Holds(c)', msg[c] \in Messages
      PROVE  Held' = [Held EXCEPT ![msg[c]] = @ \ {c}]
  <2>1. \A m \in Messages : Held'[m] = [Held EXCEPT ![msg[c]] = @ \ {c}][m]
    BY <1>3 DEF Held
  <2>. QED
    BY <2>1 DEF Held
<1>. QED
  BY <1>1, <1>2, <1>3

\* A step of the port, in the terms of this module.
PortStep ==
    \/ \E m \in Messages :
        \/ /\ row[m] = "absent" /\ row' = [row EXCEPT ![m] = "queued"]
           /\ Held' = Held /\ handled' = handled
        \/ /\ row[m] = "queued" /\ row' = [row EXCEPT ![m] = "wiped"]
           /\ Held' = Held /\ handled' = handled
        \/ /\ row[m] = "queued" /\ m \in handled /\ row' = [row EXCEPT ![m] = "consumed"]
           /\ Held' = Held /\ handled' = handled
        \/ \E c \in Consumers :
            \/ /\ row[m] = "queued" /\ \A n \in Messages : c \notin Held[n]
               /\ Held' = [Held EXCEPT ![m] = @ \cup {c}]
               /\ row' = row /\ handled' = handled
            \/ /\ c \in Held[m] /\ Held' = [Held EXCEPT ![m] = @ \ {c}]
               /\ row' = row /\ handled' = handled
            \/ /\ c \in Held[m] /\ Held' = [Held EXCEPT ![m] = @ \ {c}]
               /\ row' = row /\ handled' = handled \cup {m}
    \/ row' = row /\ Held' = Held /\ handled' = handled

LEMMA PortStepIsPort == PortStep => [Port!Next]_(Port!vars)
  BY DEF PortStep, Held, Port!Next, Port!vars, Port!Publish, Port!Wipe, Port!Acknowledge,
         Port!Deliver, Port!GiveUp, Port!Finish

LEMMA RunnerPortStep ==
    ASSUME IInv, NEW c \in Consumers, Runner(c)
    PROVE  PortStep
<1>. USE DEF IInv, TypeOK, RunnerInv, Holds
<1>1. \A d \in Consumers \ {c} : (Holds(d)' <=> Holds(d)) /\ msg'[d] = msg[d]
  BY RunnerEffect DEF Effect
<1>2. Holds(c) => msg[c] \in Messages /\ c \in Held[msg[c]]
  BY DEF MsgOk, Held
<1>3. ~Holds(c) => \A n \in Messages : c \notin Held[n]
  BY DEF Held
<1>4. CASE Start(c) \/ Resubscribe(c) \/ ClaimSelect(c) \/ ClaimLost(c) \/ ClaimError(c)
  <2>1. ~Holds(c) /\ ~Holds(c)' /\ row' = row /\ handled' = handled
    BY <1>4 DEF Start, Resubscribe, ClaimSelect, ClaimLost, ClaimError, Release, rowVars, obsVars
  <2>. QED
    BY <2>1, <1>1, HeldChange DEF PortStep
<1>5. CASE RenewStart(c) \/ RenewCommit(c) \/ RenewError(c) \/ Stop(c)
  <2>1. (Holds(c)' <=> Holds(c)) /\ msg'[c] = msg[c] /\ row' = row /\ handled' = handled
    BY <1>5 DEF RenewStart, RenewCommit, RenewError, Stop, rowVars, obsVars
  <2>. QED
    BY <2>1, <1>1, HeldChange DEF PortStep
<1>6. CASE ClaimCommit(c)
  <2>1. /\ ~Holds(c) /\ Holds(c)' /\ msg'[c] = msg[c] /\ msg[c] \in Messages
        /\ row[msg[c]] = "queued" /\ row' = row /\ handled' = handled
    BY <1>6 DEF ClaimCommit, StillFree, Free
  <2>. QED
    BY <2>1, <1>1, <1>3, HeldChange DEF PortStep
<1>7. CASE Dispatch(c) \/ HandlerReturns(c)
  <2>1. Holds(c) /\ msg'[c] = msg[c] /\ row' = row
    BY <1>7 DEF Dispatch, HandlerReturns, rowVars
  <2>2. \/ Holds(c)' /\ handled' = handled
        \/ ~Holds(c)' /\ handled' = handled \cup {msg[c]}
    BY <1>7 DEF Dispatch, HandlerReturns
  <2>. QED
    BY <2>1, <2>2, <1>1, <1>2, HeldChange DEF PortStep
<1>8. CASE HandlerRaises(c) \/ StopExit(c) \/ Crash(c)
  <2>1. ~Holds(c)' /\ row' = row /\ handled' = handled
    BY <1>8 DEF HandlerRaises, StopExit, Crash, Release, rowVars
  <2>. QED
    BY <2>1, <1>1, <1>2, HeldChange DEF PortStep
<1>9. CASE Ack(c) \/ AckError(c)
  <2>1. /\ ~Holds(c) /\ ~Holds(c)' /\ handled' = handled
        /\ msg[c] \in Messages /\ msg[c] \in handled
    BY <1>9 DEF Ack, AckError, Release, MsgOk, AckOk
  <2>2. \/ row' = row
        \/ row[msg[c]] = "queued" /\ row' = [row EXCEPT ![msg[c]] = "consumed"]
    BY <1>9, <2>1 DEF Ack, AckError
  <2>. QED
    BY <2>1, <2>2, <1>1, HeldChange DEF PortStep
<1>. QED
  BY <1>4, <1>5, <1>6, <1>7, <1>8, <1>9 DEF Runner

\* The message bus and its runners implement the at-least-once queue of the port:
\* nothing is handed out once it is acknowledged or wiped, nothing is acknowledged
\* that no handler returned from.
THEOREM BusImplementsPort == Spec => ImplementsPort
<1>1. Init => Port!Init
  BY DEF Init, Port!Init, Holds
<1>2. IInv /\ [Next]_vars => [Port!Next]_(Port!vars)
  <2>. SUFFICES ASSUME IInv, [Next]_vars PROVE PortStep
    BY PortStepIsPort
  <2>1. ASSUME NEW m \in Messages, Publish(m) \/ Wipe(m) PROVE PortStep
    <3>1. Held' = Held
      BY <2>1 DEF Publish, Wipe, runVars, Held, Holds
    <3>. QED
      BY <2>1, <3>1 DEF Publish, Wipe, obsVars, PortStep
  <2>2. ASSUME NEW c \in Consumers, Runner(c) PROVE PortStep
    BY <2>2, RunnerPortStep
  <2>3. CASE Tick
    BY <2>3 DEF Tick, PortStep, Held, Holds
  <2>4. CASE UNCHANGED vars
    BY <2>4 DEF vars, PortStep, Held, Holds
  <2>. QED
    BY <2>1, <2>2, <2>3, <2>4 DEF Next
<1>. QED
  BY <1>1, <1>2, SpecIInv, PTL DEF Spec, ImplementsPort, Port!Spec

=============================================================================
