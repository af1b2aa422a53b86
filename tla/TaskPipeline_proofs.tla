------------------------ MODULE TaskPipeline_proofs ------------------------
(***************************************************************************)
(* Proofs about TaskPipeline, for every set of messages, every cap and     *)
(* every number of resets, faults and rows: one open merge request, the    *)
(* status backed by its records, the reset check, the budget of runs, the  *)
(* merge requests that a fault leaves without a record, and the reasons    *)
(* why a ticket is at READY.                                               *)
(***************************************************************************)
EXTENDS TaskPipeline, FiniteSetTheorems, TLAPS

-----------------------------------------------------------------------------
(* The inductive invariant.                                                *)

\* Only the latest row of the ticket is there; what a run or the sweep loaded
\* is that row or one that a reset deleted.
IdInv ==
    /\ task # NoTask => task.id = rows
    /\ dev.id <= rows /\ sweep.id <= rows
    /\ \A p \in Planners : planner[p].id <= rows

\* p will count a step on the row as it is, which it read with budget left.
Unspent(p) ==
    /\ planner[p].pc \in {"loaded", "enter"} /\ ~planner[p].spent
    /\ task # NoTask /\ planner[p].id = task.id

\* Two planners may each have read the last step of the budget as still there.
StepInv ==
    /\ \A p \in Planners : Unspent(p) => task.steps <= MaxSteps
    /\ (\A p \in Planners : Unspent(p)) => task.steps < MaxSteps

\* Where the Dev-agent is between its precheck and the row of its merge request.
Prepared == {"prep", "coding", "gate", "push", "create", "persist"}
Checked == {"push", "create", "persist", "open"}

\* The Dev-agent handles a plan.ready that was published, the inbox no such.
HandlerInv ==
    /\ dev.pc # "idle" => dev.msg \in PlanReady
    /\ \A p \in Planners : planner[p].msg \in Discovered \cup {NoMessage}
    /\ \A r \in {dev, planner["inbox"], planner["coalescer"]} :
        r.msg # NoMessage => status[r.msg] # "absent"
    /\ \A m \in done : status[m] # "absent"

\* The row the Dev-agent works on has its plan, and once it is to be MR_OPEN,
\* its merge request.
BackedInv ==
    /\ StatusIsBacked
    /\ dev.pc \in Prepared \cup {"open"} /\ HasRow(dev.id) => plan.saved
    /\ dev.pc = "open" /\ HasRow(dev.id) => \E i \in 1 .. MaxMRs : mrs[i].row # "none"
    /\ \A i \in 1 .. MaxMRs : mrs[i].vcs = "none" => mrs[i].row = "none"

\* One open merge request at most, and none before the Dev-agent records its own.
OneInv ==
    /\ \A i, j \in 1 .. MaxMRs : mrs[i].row = "open" /\ mrs[j].row = "open" => i = j
    /\ dev.pc \in Prepared => ~OpenRow

\* The plan.ready messages there ever were.
Published == {m \in PlanReady : status[m] # "absent"}

\* The plan.ready messages the model ran for, except where a crash ended a run.
AfterRun == {"gate", "push", "create", "persist", "open"}
Answered == (done \cap PlanReady) \cup (IF dev.pc \in AfterRun THEN {dev.msg} ELSE {})

\* The run that is about to start is for a message handled before: its fault is
\* counted already.
Repeated == IF dev.pc \in {"start", "prep", "coding"} /\ dev.msg \in done THEN 1 ELSE 0

\* Messages that are paid for and still to be published.
Owed(p) == IF planner[p].pc \in {"ready", "publish"} THEN 1 ELSE 0
OwedBySweep == IF sweep.pc = "publish" /\ sweep.topic = "plan" THEN 1 ELSE 0

\* Attempts of all task rows so far.
Attempts == IF task = NoTask THEN rows * MaxAttempts ELSE (rows - 1) * MaxAttempts + task.attempts

\* Every run of the model has its message or its fault, every message its plan
\* or its attempt.
BudgetInv ==
    /\ IsFiniteSet(Published)
    /\ runs + Repeated <= Cardinality(Answered) + faults
    /\ Cardinality(Published) + Owed("inbox") + Owed("coalescer") + OwedBySweep <= plans + Attempts

IInv ==
    /\ TypeOK /\ IdInv /\ StepInv /\ HandlerInv /\ BackedInv /\ OneInv
    /\ BudgetInv

-----------------------------------------------------------------------------
(* Constants, rows and runs.                                               *)

LEMMA Naturals ==
    /\ MaxAttempts \in Nat /\ MaxSteps \in Nat /\ MaxRows \in Nat /\ MaxMRs \in Nat
    /\ MaxResets \in Nat /\ MaxFaults \in Nat /\ MaxTouches \in Nat
    /\ NoMessage \notin Messages
BY PipelineAssumption DEF NoMessage, Messages

LEMMA Records ==
    /\ \A pcs : "idle" \in pcs => Idle \in RunsAt(pcs)
    /\ Idle.pc = "idle" /\ Idle.msg = NoMessage /\ Idle.id = 0 /\ Idle.spent = FALSE
    /\ Idle.from = 0
    /\ NoSweep \in Sweeps /\ NoSweep.pc = "idle" /\ NoSweep.id = 0
    /\ NoPlan \in ReadyPlans /\ NoPlan.saved = FALSE
    /\ NoMR \in MergeRequests /\ NoMR.row = "none" /\ NoMR.vcs = "none"
    /\ NoTask \notin Tasks
BY Naturals DEF Idle, RunsAt, NoSweep, Sweeps, NoPlan, ReadyPlans, NoMR, MergeRequests, NoTask, Tasks

LEMMA NewTaskIsTask ==
    ASSUME rows \in 0 .. MaxRows, rows < MaxRows
    PROVE  /\ NewTask(rows + 1) \in Tasks
           /\ NewTask(rows + 1).id = rows + 1 /\ NewTask(rows + 1).status = "DISCOVERED"
           /\ NewTask(rows + 1).attempts = 0 /\ NewTask(rows + 1).steps = 0
BY Naturals DEF NewTask, Tasks, TaskStatuses

\* A status is written to the loaded row or to none.
LEMMA StatusWrites ==
    ASSUME TypeOK, NEW id, NEW s \in TaskStatuses
    PROVE  /\ task = NoTask => SetStatus(id, s) = NoTask
           /\ task \in Tasks =>
                /\ SetStatus(id, s) \in Tasks /\ SetStatus(id, s).id = task.id
                /\ SetStatus(id, s).attempts = task.attempts
                /\ SetStatus(id, s).steps = task.steps
                /\ SetStatus(id, s).status = IF HasRow(id) THEN s ELSE task.status
BY Records DEF TypeOK, SetStatus, HasRow, Tasks, TaskStatuses

-----------------------------------------------------------------------------
(* What a step does to the runs of the analyst.                            *)

\* The run of p goes on, for the same message and the same row.
GoesOn(p, where) ==
    /\ planner'[p].pc = where
    /\ planner'[p].msg = planner[p].msg
    /\ planner'[p].id = planner[p].id
    /\ planner'[p].spent = planner[p].spent

\* The run of p reads the row.
Reads(p) ==
    /\ task # NoTask
    /\ planner'[p].id = task.id
    /\ planner'[p].spent = (task.steps >= MaxSteps)
    /\ planner'[p].msg \in {planner[p].msg, NoMessage}

PlannerMoves(p) ==
    \/ planner'[p] = planner[p]
    \/ planner'[p] = Idle
    \/ /\ Handle /\ p = "inbox"
       /\ planner'[p].pc = "start" /\ planner'[p].msg \in Discovered /\ planner'[p].id = 0
    \/ Load /\ p = "inbox" /\ Reads(p) /\ planner'[p].pc \in {"loaded", "closed"}
    \/ Resume /\ p = "coalescer" /\ Reads(p) /\ planner'[p].pc = "enter"
    \/ FindOverdue /\ p = "coalescer" /\ planner'[p].pc = "overdue"
       /\ task # NoTask /\ planner'[p].id = task.id /\ planner'[p].msg = NoMessage
    \/ SetPlanning /\ planner[p].pc = "loaded" /\ GoesOn(p, "enter")
    \/ Enter(p) /\ GoesOn(p, "fresh")
    \/ StartRun(p) /\ GoesOn(p, "running")
    \/ Submit(p) /\ GoesOn(p, "save") /\ planner'[p].from = epoch
    \/ SavePlan(p) /\ GoesOn(p, "ready")
    \/ SetReady(p) /\ GoesOn(p, "publish")
    \/ PublishPlan(p) /\ GoesOn(p, "told")

\* Only the run of p moves.
Alone(p) == \A q \in Planners : q # p => planner'[q] = planner[q]

LEMMA RunUpdates ==
    ASSUME NEW pcs, NEW r \in RunsAt(pcs), NEW x \in pcs, NEW e \in 0 .. MaxResets
    PROVE  /\ [r EXCEPT !.pc = x] \in RunsAt(pcs)
           /\ [r EXCEPT !.pc = x, !.from = e] \in RunsAt(pcs)
           /\ \A m \in Messages : [r EXCEPT !.pc = x, !.msg = m] \in RunsAt(pcs)
           /\ \A m \in Messages : [r EXCEPT !.pc = x, !.msg = m, !.from = e] \in RunsAt(pcs)
           /\ \A id \in 0 .. MaxRows : [r EXCEPT !.pc = x, !.id = id] \in RunsAt(pcs)
           /\ \A id \in 0 .. MaxRows, b \in BOOLEAN :
                [r EXCEPT !.pc = x, !.id = id, !.spent = b] \in RunsAt(pcs)
BY DEF RunsAt

\* The end of a run.
LEMMA RunEnds ==
    ASSUME TypeOK, NEW p \in Planners, planner' = [planner EXCEPT ![p] = Idle]
    PROVE  planner' \in [Planners -> RunsAt(PlannerPCs)] /\ planner'[p] = Idle /\ Alone(p)
BY Records DEF TypeOK, Alone, PlannerPCs

LEMMA RunStep ==
    ASSUME TypeOK, NEW p \in Planners, NEW x \in PlannerPCs, Step(p, x)
    PROVE  planner' \in [Planners -> RunsAt(PlannerPCs)] /\ GoesOn(p, x) /\ Alone(p)
<1>1. [planner[p] EXCEPT !.pc = x] \in RunsAt(PlannerPCs)
  BY Naturals, RunUpdates DEF TypeOK
<1>2. planner' = [planner EXCEPT ![p] = [planner[p] EXCEPT !.pc = x]]
  BY DEF Step
<1>. QED
  BY <1>1, <1>2 DEF TypeOK, GoesOn, Alone, RunsAt

LEMMA InboxMoves ==
    ASSUME TypeOK, Handle \/ Load \/ SetPlanning
    PROVE  /\ planner' \in [Planners -> RunsAt(PlannerPCs)] /\ Alone("inbox")
           /\ PlannerMoves("inbox")
<1>. USE DEF TypeOK
<1>0. "inbox" \in Planners
  BY DEF Planners
<1>1. CASE Handle
  <2>1. PICK m \in Discovered :
           planner' = [planner EXCEPT !["inbox"] = [Idle EXCEPT !.pc = "start", !.msg = m]]
    BY <1>1 DEF Handle
  <2>2. [Idle EXCEPT !.pc = "start", !.msg = m] \in RunsAt(PlannerPCs)
    BY Naturals, Records, RunUpdates DEF PlannerPCs, Messages
  <2>. QED
    BY <1>0, <1>1, <2>1, <2>2, Records DEF PlannerMoves, Alone, RunsAt
<1>2. CASE Load
  <2>1. CASE End("inbox")
    BY <1>0, <2>1, RunEnds DEF End, PlannerMoves
  <2>2. CASE ~End("inbox")
    <3>. DEFINE x == IF InStatus({"READY", "FAILED"}) THEN "closed" ELSE "loaded"
                b == task.steps >= MaxSteps
                r == [planner["inbox"] EXCEPT !.pc = x, !.id = task.id, !.spent = b]
    <3>1. task # NoTask /\ planner' = [planner EXCEPT !["inbox"] = r]
      BY <1>0, <1>2, <2>2 DEF Load
    <3>2. task.id \in 0 .. MaxRows /\ b \in BOOLEAN /\ x \in {"loaded", "closed"}
      BY <3>1, Naturals DEF Tasks
    <3>3. r \in RunsAt(PlannerPCs) /\ planner["inbox"] \in RunsAt(PlannerPCs)
      BY <1>0, <3>2, Naturals, RunUpdates DEF PlannerPCs
    <3>4. r.pc = x /\ r.id = task.id /\ r.spent = b /\ r.msg = planner["inbox"].msg
      BY <3>3 DEF RunsAt
    <3>. HIDE DEF r, x, b
    <3>5. planner'["inbox"] = r /\ Alone("inbox") /\ planner' \in [Planners -> RunsAt(PlannerPCs)]
      BY <1>0, <3>1, <3>3 DEF Alone
    <3>6. Reads("inbox")
      BY <3>1, <3>4, <3>5 DEF Reads, b
    <3>. QED
      BY <1>2, <3>2, <3>4, <3>5, <3>6 DEF PlannerMoves
  <2>. QED
    BY <2>1, <2>2
<1>3. CASE SetPlanning
  BY <1>0, <1>3, RunStep, RunEnds DEF SetPlanning, End, PlannerMoves, PlannerPCs
<1>. QED
  BY <1>1, <1>2, <1>3

LEMMA CoalescerMoves ==
    ASSUME TypeOK, Resume \/ FindOverdue
    PROVE  /\ planner' \in [Planners -> RunsAt(PlannerPCs)] /\ Alone("coalescer")
           /\ PlannerMoves("coalescer")
<1>. USE DEF TypeOK
<1>0. "coalescer" \in Planners
  BY DEF Planners
<1>1. CASE UNCHANGED planner
  BY <1>0, <1>1 DEF Alone, PlannerMoves
<1>2. CASE Resume /\ ~UNCHANGED planner
  <2>. DEFINE b == task.steps >= MaxSteps
              r == [Idle EXCEPT !.pc = "enter", !.id = task.id, !.spent = b]
  <2>1. task # NoTask /\ planner' = [planner EXCEPT !["coalescer"] = r]
    BY <1>2 DEF Resume
  <2>2. task.id \in 0 .. MaxRows /\ b \in BOOLEAN
    BY <2>1, Naturals DEF Tasks
  <2>3. r \in RunsAt(PlannerPCs) /\ Idle \in RunsAt(PlannerPCs)
    BY <2>2, Naturals, Records, RunUpdates DEF PlannerPCs
  <2>4. r.pc = "enter" /\ r.id = task.id /\ r.spent = b /\ r.msg = NoMessage
    BY <2>3, Records DEF RunsAt
  <2>. HIDE DEF r, b
  <2>5. planner'["coalescer"] = r /\ Alone("coalescer") /\ planner' \in [Planners -> RunsAt(PlannerPCs)]
    BY <1>0, <2>1, <2>3 DEF Alone
  <2>6. Reads("coalescer")
    BY <2>1, <2>4, <2>5 DEF Reads, b
  <2>. QED
    BY <1>2, <2>4, <2>5, <2>6 DEF PlannerMoves
<1>3. CASE FindOverdue
  <2>. DEFINE r == [Idle EXCEPT !.pc = "overdue", !.id = task.id]
  <2>1. task # NoTask /\ planner' = [planner EXCEPT !["coalescer"] = r]
    BY <1>3 DEF FindOverdue, InStatus
  <2>2. task.id \in 0 .. MaxRows
    BY <2>1, Naturals DEF Tasks
  <2>3. r \in RunsAt(PlannerPCs) /\ Idle \in RunsAt(PlannerPCs)
    BY <2>2, Naturals, Records, RunUpdates DEF PlannerPCs
  <2>4. r.pc = "overdue" /\ r.id = task.id /\ r.msg = NoMessage
    BY <2>3, Records DEF RunsAt
  <2>. HIDE DEF r
  <2>5. planner'["coalescer"] = r /\ Alone("coalescer") /\ planner' \in [Planners -> RunsAt(PlannerPCs)]
    BY <1>0, <2>1, <2>3 DEF Alone
  <2>. QED
    BY <1>3, <2>1, <2>4, <2>5 DEF PlannerMoves
<1>. QED
  BY <1>1, <1>2, <1>3

LEMMA EitherMoves ==
    ASSUME TypeOK, NEW p \in Planners, Planner(p)
    PROVE  /\ planner' \in [Planners -> RunsAt(PlannerPCs)] /\ Alone(p)
           /\ PlannerMoves(p)
<1>. USE DEF TypeOK
<1>1. CASE Enter(p)
  BY <1>1, RunStep, RunEnds DEF Enter, End, PlannerMoves, PlannerPCs
<1>2. CASE StartRun(p) \/ Submit(p)
  <2>. DEFINE r == IF StartRun(p) THEN [planner[p] EXCEPT !.pc = "running", !.from = epoch]
                   ELSE [planner[p] EXCEPT !.pc = "save"]
  <2>1. planner' = [planner EXCEPT ![p] = r]
    BY <1>2 DEF StartRun, Submit, Step
  <2>2. r \in RunsAt(PlannerPCs) /\ planner[p] \in RunsAt(PlannerPCs)
    BY Naturals, RunUpdates DEF PlannerPCs
  <2>3. /\ StartRun(p) => r.pc = "running"
        /\ ~StartRun(p) => r.pc = "save" /\ r.from = planner[p].from
        /\ r.id = planner[p].id /\ r.spent = planner[p].spent /\ r.msg = planner[p].msg
    BY <2>2 DEF RunsAt
  <2>. HIDE DEF r
  <2>4. planner'[p] = r /\ Alone(p) /\ planner' \in [Planners -> RunsAt(PlannerPCs)]
    BY <2>1, <2>2 DEF Alone
  <2>5. CASE StartRun(p)
    BY <2>3, <2>4, <2>5 DEF PlannerMoves, GoesOn
  <2>6. CASE Submit(p) /\ ~StartRun(p)
    BY <2>3, <2>4, <2>6 DEF PlannerMoves, GoesOn, Submit, NotReset
  <2>. QED
    BY <1>2, <2>4, <2>5, <2>6
<1>3. CASE Discard(p) \/ Ask(p) \/ Terminate(p) \/ Told(p) \/ GiveUp(p)
  BY <1>3, RunEnds DEF Discard, Ask, Terminate, Told, GiveUp, End, PlannerMoves
<1>4. CASE SavePlan(p)
  BY <1>4, RunStep DEF SavePlan, PlannerMoves, PlannerPCs
<1>5. CASE SetReady(p)
  BY <1>5, RunStep DEF SetReady, PlannerMoves, PlannerPCs
<1>6. CASE PublishPlan(p)
  BY <1>6, RunStep, RunEnds DEF PublishPlan, PlannerMoves, PlannerPCs
<1>. QED
  BY <1>1, <1>2, <1>3, <1>4, <1>5, <1>6 DEF Planner

LEMMA AnyPlannerMoves ==
    ASSUME TypeOK, [Next]_vars
    PROVE  /\ planner' \in [Planners -> RunsAt(PlannerPCs)]
           /\ \A p \in Planners : PlannerMoves(p)
<1>1. CASE UNCHANGED planner
  BY <1>1 DEF TypeOK, PlannerMoves
<1>2. CASE Handle \/ Load \/ SetPlanning
  BY <1>2, InboxMoves DEF Alone, PlannerMoves
<1>3. CASE Resume \/ FindOverdue
  BY <1>3, CoalescerMoves DEF Alone, PlannerMoves
<1>4. ASSUME NEW p \in Planners, Planner(p)
      PROVE  /\ planner' \in [Planners -> RunsAt(PlannerPCs)]
             /\ \A q \in Planners : PlannerMoves(q)
  BY <1>4, EitherMoves DEF Alone, PlannerMoves
<1>5. CASE Crash
  BY <1>5, Records DEF Crash, PlannerMoves, PlannerPCs
<1>. QED
  BY <1>1, <1>2, <1>3, <1>4, <1>5 DEF Next, vars, Insert, Touch, Dispatch, HandlePlan, WikiDown, Dev,
     Precheck, PrepareBranch, CallModel, ResetGate, Push, CreateMergeRequest, PersistMR, OpenMR,
     Age, Recovery, FindStuck, CheckPlan, ClaimAttempt, Republish, Ack, Reset, CloseMR, SeeClosed

-----------------------------------------------------------------------------
(* What a step does to the run of the Dev-agent.                           *)

DevGoesOn(from, where) ==
    dev.pc = from /\ dev'.pc = where /\ dev'.msg = dev.msg /\ dev'.id = dev.id

DevMoves ==
    \/ dev' = dev
    \/ dev' = Idle
    \/ /\ HandlePlan /\ dev.pc = "idle" /\ dev'.pc = "start" /\ dev'.id = 0
       /\ dev'.msg \in PlanReady /\ status[dev'.msg] = "queued"
       /\ faults' = IF dev'.msg \in done THEN faults + 1 ELSE faults
    \/ /\ Precheck /\ Actionable /\ dev.pc = "start"
       /\ dev'.pc = "prep" /\ dev'.id = task.id /\ dev'.msg = dev.msg
    \/ PrepareBranch /\ DevGoesOn("prep", "coding")
    \/ CallModel /\ DevGoesOn("coding", "gate")
    \/ ResetGate /\ DevGoesOn("gate", "push") /\ dev'.from = epoch
    \/ Push /\ DevGoesOn("push", "create") /\ dev'.from = dev.from
    \/ CreateMergeRequest /\ DevGoesOn("create", "persist") /\ dev'.from = dev.from
    \/ PersistMR /\ DevGoesOn("persist", "open") /\ dev'.from = dev.from

LEMMA DevGoes ==
    ASSUME TypeOK, NEW x \in DevPCs, Go(x)
    PROVE  /\ dev' \in RunsAt(DevPCs) /\ dev'.pc = x
           /\ dev'.msg = dev.msg /\ dev'.id = dev.id /\ dev'.from = dev.from
BY DEF TypeOK, Go, RunsAt

LEMMA DevIsIdle == Idle \in RunsAt(DevPCs)
BY Records DEF DevPCs

\* The runs of the model are counted where they are made.
LEMMA DevStep ==
    ASSUME TypeOK, HandlePlan \/ WikiDown \/ Dev
    PROVE  dev' \in RunsAt(DevPCs) /\ DevMoves
<1>. USE DEF TypeOK, At
<1>1. CASE HandlePlan
  <2>1. PICK m \in PlanReady :
           /\ Take("dev", PlanReady, m)
           /\ dev' = [Idle EXCEPT !.pc = "start", !.msg = m, !.from = epoch]
    BY <1>1 DEF HandlePlan
  <2>. DEFINE r == [Idle EXCEPT !.pc = "start", !.msg = m, !.from = epoch]
  <2>2. r \in RunsAt(DevPCs) /\ Idle \in RunsAt(DevPCs)
    BY Naturals, DevIsIdle, RunUpdates DEF DevPCs, Messages
  <2>3. r.pc = "start" /\ r.msg = m /\ r.id = 0
    BY <2>2, Records DEF RunsAt
  <2>4. dev' = r
    BY <2>1
  <2>. HIDE DEF r
  <2>5. status[m] = "queued" /\ faults' = IF m \in done THEN faults + 1 ELSE faults
    BY <2>1 DEF Take
  <2>. QED
    BY <1>1, <2>2, <2>3, <2>4, <2>5 DEF DevMoves, HandlePlan
<1>2. CASE WikiDown
  BY <1>2, DevIsIdle DEF WikiDown, DevMoves
<1>3. CASE Dev /\ DevReturns
  BY <1>3, DevIsIdle DEF DevReturns, DevMoves
<1>4. CASE Precheck /\ ~DevReturns
  <2>. DEFINE r == [dev EXCEPT !.pc = "prep", !.id = task.id]
  <2>1. Actionable /\ task # NoTask /\ dev' = r /\ dev.pc = "start"
    BY <1>4 DEF Precheck, Actionable
  <2>2. task.id \in 0 .. MaxRows
    BY <2>1, Naturals DEF Tasks
  <2>3. r \in RunsAt(DevPCs)
    BY <2>2, Naturals, RunUpdates DEF DevPCs
  <2>4. r.pc = "prep" /\ r.id = task.id /\ r.msg = dev.msg
    BY DEF RunsAt
  <2>. HIDE DEF r
  <2>. QED
    BY <1>4, <2>1, <2>3, <2>4 DEF DevMoves
<1>5. CASE ResetGate /\ ~DevReturns
  BY <1>5, DevGoes DEF ResetGate, NotReset, DevMoves, DevGoesOn, DevPCs
<1>6. CASE PrepareBranch /\ ~DevReturns
  BY <1>6, DevGoes DEF PrepareBranch, DevMoves, DevGoesOn, DevPCs
<1>7. CASE CallModel /\ ~DevReturns
  BY <1>7, DevGoes DEF CallModel, DevMoves, DevGoesOn, DevPCs
<1>8. CASE Push /\ ~DevReturns
  BY <1>8, DevGoes DEF Push, DevMoves, DevGoesOn, DevPCs
<1>9. CASE CreateMergeRequest /\ ~DevReturns
  BY <1>9, DevGoes DEF CreateMergeRequest, DevMoves, DevGoesOn, DevPCs
<1>10. CASE (PersistMR \/ OpenMR) /\ ~DevReturns
  BY <1>10, DevGoes DEF PersistMR, OpenMR, DevMoves, DevGoesOn, DevPCs
<1>. QED
  BY <1>1, <1>2, <1>3, <1>4, <1>5, <1>6, <1>7, <1>8, <1>9, <1>10 DEF Dev

LEMMA AnyDevMoves ==
    ASSUME TypeOK, [Next]_vars
    PROVE  dev' \in RunsAt(DevPCs) /\ DevMoves
<1>1. CASE UNCHANGED dev
  BY <1>1 DEF TypeOK, DevMoves
<1>2. CASE HandlePlan \/ WikiDown \/ Dev
  BY <1>2, DevStep
<1>3. CASE Crash
  BY <1>3, DevIsIdle DEF Crash, DevMoves
<1>. QED
  BY <1>1, <1>2, <1>3 DEF Next, vars, Insert, Touch, Dispatch, Handle, Load, SetPlanning, Resume,
     FindOverdue, Planner, Enter, StartRun, Discard, Ask, Terminate, Submit, SavePlan, SetReady,
     PublishPlan, Told, GiveUp, Age, Recovery, FindStuck, CheckPlan, ClaimAttempt, Republish, Ack,
     Reset, CloseMR, SeeClosed

-----------------------------------------------------------------------------
(* What a step does to the sweep.                                          *)

SweepMoves ==
    \/ sweep' = sweep
    \/ sweep' = NoSweep
    \/ FindStuck /\ task # NoTask /\ sweep'.id = task.id /\ sweep'.pc \in {"check", "claim"}
    \/ CheckPlan /\ sweep'.pc = "claim" /\ sweep'.id = sweep.id
    \/ /\ ClaimAttempt /\ task \in Tasks /\ sweep'.pc = "publish" /\ sweep'.id = sweep.id
       /\ task.attempts < MaxAttempts /\ task' = [task EXCEPT !.attempts = @ + 1, !.stale = FALSE]

LEMMA AnySweepMoves ==
    ASSUME TypeOK, [Next]_vars
    PROVE  sweep' \in Sweeps /\ SweepMoves
<1>. USE DEF TypeOK
<1>1. CASE UNCHANGED sweep
  BY <1>1 DEF SweepMoves
<1>2. CASE sweep' = NoSweep
  BY <1>2, Records DEF SweepMoves
<1>3. CASE FindStuck
  <2>1. task \in Tasks
    BY <1>3 DEF FindStuck
  <2>2. PICK x \in {"check", "claim"}, t \in {"discovered", "plan"} :
           sweep' = [pc |-> x, topic |-> t, id |-> task.id]
    BY <1>3 DEF FindStuck
  <2>3. task.id \in 0 .. MaxRows
    BY <2>1, Naturals DEF Tasks
  <2>. QED
    BY <1>3, <2>2, <2>3 DEF FindStuck, SweepMoves, Sweeps
<1>4. CASE CheckPlan /\ sweep' # NoSweep
  BY <1>4 DEF CheckPlan, SweepMoves, Sweeps
<1>5. CASE ClaimAttempt /\ sweep' # NoSweep
  <2>1. /\ HasRow(sweep.id) /\ task.attempts < MaxAttempts
        /\ task' = [task EXCEPT !.attempts = @ + 1, !.stale = FALSE]
        /\ sweep' = [sweep EXCEPT !.pc = "publish"]
    BY <1>5 DEF ClaimAttempt
  <2>2. task \in Tasks
    BY <2>1 DEF HasRow
  <2>3. sweep' \in Sweeps /\ sweep'.pc = "publish" /\ sweep'.id = sweep.id
    BY <2>1 DEF Sweeps
  <2>. QED
    BY <1>5, <2>1, <2>2, <2>3 DEF SweepMoves
<1>. QED
  BY <1>1, <1>2, <1>3, <1>4, <1>5 DEF Next, vars, Insert, Touch, Dispatch, Handle, Load, SetPlanning,
     Resume, FindOverdue, Planner, Enter, StartRun, Discard, Ask, Terminate, Submit, SavePlan,
     SetReady, PublishPlan, Told, GiveUp, HandlePlan, WikiDown, Dev, Precheck, PrepareBranch,
     CallModel, ResetGate, Push, CreateMergeRequest, PersistMR, OpenMR, Age, Recovery, Republish,
     Ack, Reset, CloseMR, SeeClosed, Crash

-----------------------------------------------------------------------------
(* What a step does to the task row.                                       *)

\* A step of the budget is counted by a planner that read the row unspent.
Counts(p) ==
    /\ Enter(p) /\ Unspent(p)
    /\ planner[p].pc = "enter" /\ planner'[p].pc = "fresh"
    /\ task'.steps = task.steps + 1

\* The row stays the row of its ticket.
SameRow ==
    /\ task \in Tasks /\ task' \in Tasks /\ task'.id = task.id /\ rows' = rows
    /\ \/ task'.attempts = task.attempts
       \/ ClaimAttempt /\ task'.attempts = task.attempts + 1
    /\ \/ task'.steps = task.steps
       \/ \E p \in Planners : Counts(p)
    /\ \/ task'.status = task.status
       \/ task'.status \notin {"CODING", "MR_OPEN"}
       \/ task'.status = "CODING" /\ dev.pc = "prep" /\ HasRow(dev.id)
       \/ task'.status = "MR_OPEN" /\ dev.pc = "open" /\ HasRow(dev.id)

TaskMoves ==
    \/ task' = task /\ rows' = rows
    \/ Insert /\ task = NoTask /\ task' = NewTask(rows + 1) /\ task' \in Tasks /\ rows' = rows + 1
    \/ Reset /\ task' = NoTask /\ rows' = rows
    \/ SameRow

\* Every action that writes a status, with the other columns it sets.
LEMMA StatusOnly ==
    ASSUME TypeOK, NEW id, NEW s \in TaskStatuses, rows' = rows,
           s = "CODING" => id = dev.id /\ dev.pc = "prep",
           s = "MR_OPEN" => id = dev.id /\ dev.pc = "open",
           \/ task' = SetStatus(id, s)
           \/ task # NoTask /\ task' = [SetStatus(id, s) EXCEPT !.awaiting = FALSE]
           \/ task # NoTask /\ task' = [SetStatus(id, s) EXCEPT !.awaiting = FALSE, !.deadline = FALSE]
    PROVE  TaskMoves
<1>1. CASE task = NoTask
  BY <1>1, StatusWrites DEF TaskMoves
<1>2. CASE task # NoTask
  <2>. DEFINE r == SetStatus(id, s)
  <2>1. task \in Tasks
    BY <1>2 DEF TypeOK
  <2>2. /\ r \in Tasks /\ r.id = task.id /\ r.attempts = task.attempts /\ r.steps = task.steps
        /\ r.status = IF HasRow(id) THEN s ELSE task.status
    BY <2>1, StatusWrites
  <2>. HIDE DEF r
  <2>3. \/ task' = r \/ task' = [r EXCEPT !.awaiting = FALSE]
        \/ task' = [r EXCEPT !.awaiting = FALSE, !.deadline = FALSE]
    BY <1>2 DEF r
  <2>4. task' \in Tasks /\ task'.id = r.id /\ task'.attempts = r.attempts /\ task'.steps = r.steps
        /\ task'.status = r.status
    BY <2>2, <2>3 DEF Tasks
  <2>. QED
    BY <2>1, <2>2, <2>4 DEF TaskMoves, SameRow
<1>. QED
  BY <1>1, <1>2

\* Every action that writes columns other than these.
LEMMA FlagsOnly ==
    ASSUME TypeOK, task # NoTask, rows' = rows,
           \/ task' = [task EXCEPT !.stale = FALSE]
           \/ task' = [task EXCEPT !.stale = TRUE]
           \/ task' = [task EXCEPT !.awaiting = TRUE, !.stale = FALSE]
           \/ task' = [task EXCEPT !.awaiting = FALSE, !.stale = FALSE]
    PROVE  TaskMoves
<1>1. task \in Tasks
  BY DEF TypeOK
<1>2. task' \in Tasks /\ task'.id = task.id /\ task'.attempts = task.attempts
      /\ task'.steps = task.steps /\ task'.status = task.status
  BY <1>1 DEF Tasks
<1>. QED
  BY <1>1, <1>2 DEF TaskMoves, SameRow

LEMMA PlannerWrites ==
    ASSUME TypeOK, StepInv, NEW p \in Planners, Planner(p)
    PROVE  TaskMoves
<1>0. rows' = rows
  BY DEF Planner, Enter, StartRun, Discard, Ask, Terminate, Submit, SavePlan, SetReady, PublishPlan,
     Told, GiveUp, envVars
<1>1. CASE UNCHANGED task
  BY <1>0, <1>1 DEF TaskMoves
<1>2. CASE Enter(p) /\ ~UNCHANGED task
  <2>1. HasRow(planner[p].id) /\ planner[p].pc = "enter"
    BY <1>2 DEF Enter
  <2>2. CASE planner[p].spent
    <3>1. task' = [SetStatus(planner[p].id, "FAILED") EXCEPT !.awaiting = FALSE]
      BY <1>2, <2>1, <2>2 DEF Enter
    <3>. QED
      BY <1>0, <2>1, <3>1, StatusOnly DEF HasRow, TaskStatuses
  <2>3. CASE ~planner[p].spent
    <3>1. task' = [task EXCEPT !.steps = @ + 1, !.deadline = TRUE, !.stale = FALSE] /\ Step(p, "fresh")
      BY <1>2, <2>1, <2>3 DEF Enter
    <3>2. task \in Tasks /\ Unspent(p)
      BY <2>1, <2>3 DEF HasRow, TypeOK, Unspent
    <3>3. task.steps <= MaxSteps /\ task.steps \in Nat
      BY <3>2 DEF StepInv, Tasks
    <3>4. task.steps + 1 \in 0 .. MaxSteps + 1
      BY <3>3, Naturals
    <3>5. /\ task' \in Tasks /\ task'.id = task.id /\ task'.attempts = task.attempts
          /\ task'.steps = task.steps + 1 /\ task'.status = task.status
      BY <3>1, <3>2, <3>4 DEF Tasks
    <3>6. planner'[p].pc = "fresh"
      BY <3>1, RunStep DEF PlannerPCs, GoesOn
    <3>. QED
      BY <1>0, <1>2, <2>1, <3>2, <3>5, <3>6 DEF TaskMoves, SameRow, Counts
  <2>. QED
    BY <2>2, <2>3
<1>3. CASE Ask(p) /\ ~UNCHANGED task
  BY <1>0, <1>3, FlagsOnly DEF Ask, HasRow
<1>4. CASE (Terminate(p) \/ GiveUp(p) \/ SetReady(p)) /\ ~UNCHANGED task
  <2>1. /\ task # NoTask
        /\ \/ task' = [SetStatus(planner[p].id, "FAILED") EXCEPT !.awaiting = FALSE]
           \/ task' = [SetStatus(planner[p].id, "READY") EXCEPT !.awaiting = FALSE, !.deadline = FALSE]
    BY <1>4 DEF Terminate, GiveUp, SetReady, HasRow
  <2>. QED
    BY <1>0, <2>1, StatusOnly DEF TaskStatuses
<1>. QED
  BY <1>1, <1>2, <1>3, <1>4 DEF Planner, StartRun, Discard, Submit, SavePlan, PublishPlan, Told, rowVars

LEMMA DevWrites ==
    ASSUME TypeOK, HandlePlan \/ WikiDown \/ Dev
    PROVE  TaskMoves
<1>0. rows' = rows
  BY DEF Dev, HandlePlan, WikiDown, Precheck, PrepareBranch, CallModel, ResetGate, Push,
     CreateMergeRequest, PersistMR, OpenMR, envVars
<1>1. CASE UNCHANGED task
  BY <1>0, <1>1 DEF TaskMoves
<1>2. CASE task' = SetStatus(dev.id, "FAILED")
  BY <1>0, <1>2, StatusOnly DEF TaskStatuses
<1>3. CASE PrepareBranch /\ task' = SetStatus(dev.id, "CODING")
  BY <1>0, <1>3, StatusOnly DEF TaskStatuses, PrepareBranch, At
<1>4. CASE OpenMR /\ task' = SetStatus(dev.id, "MR_OPEN")
  BY <1>0, <1>4, StatusOnly DEF TaskStatuses, OpenMR, At
<1>. QED
  BY <1>1, <1>2, <1>3, <1>4 DEF Dev, HandlePlan, WikiDown, Precheck, PrepareBranch, CallModel,
     ResetGate, Push, CreateMergeRequest, PersistMR, OpenMR, rowVars

LEMMA SweepWrites ==
    ASSUME TypeOK, Age \/ Recovery
    PROVE  TaskMoves
<1>0. rows' = rows
  BY DEF Age, Recovery, FindStuck, CheckPlan, ClaimAttempt, Republish, envVars
<1>1. CASE UNCHANGED task
  BY <1>0, <1>1 DEF TaskMoves
<1>2. CASE Age
  BY <1>0, <1>2, FlagsOnly DEF Age, InStatus
<1>3. CASE ClaimAttempt /\ ~UNCHANGED task
  <2>1. CASE task' = SetStatus(sweep.id, "FAILED")
    BY <1>0, <2>1, StatusOnly DEF TaskStatuses
  <2>2. CASE task' # SetStatus(sweep.id, "FAILED")
    <3>1. /\ HasRow(sweep.id) /\ task.attempts < MaxAttempts
          /\ task' = [task EXCEPT !.attempts = @ + 1, !.stale = FALSE]
      BY <1>3, <2>2 DEF ClaimAttempt
    <3>2. task \in Tasks
      BY <3>1 DEF HasRow, TypeOK
    <3>3. task.attempts + 1 \in 0 .. MaxAttempts
      BY <3>1, <3>2, Naturals DEF Tasks
    <3>4. /\ task' \in Tasks /\ task'.id = task.id /\ task'.attempts = task.attempts + 1
          /\ task'.steps = task.steps /\ task'.status = task.status
      BY <3>1, <3>2, <3>3 DEF Tasks
    <3>. QED
      BY <1>0, <1>3, <3>2, <3>4 DEF TaskMoves, SameRow
  <2>. QED
    BY <2>1, <2>2
<1>. QED
  BY <1>1, <1>2, <1>3 DEF Recovery, FindStuck, CheckPlan, Republish, rowVars

LEMMA AnyTaskMoves ==
    ASSUME TypeOK, StepInv, [Next]_vars
    PROVE  TaskMoves
<1>1. CASE UNCHANGED vars
  BY <1>1 DEF vars, TaskMoves
<1>2. CASE Insert
  BY <1>2, NewTaskIsTask DEF Insert, TaskMoves, TypeOK
<1>3. CASE Touch
  BY <1>3, FlagsOnly DEF Touch
<1>4. CASE SetPlanning
  BY <1>4, StatusOnly DEF SetPlanning, TaskStatuses, envVars
<1>5. CASE Resume
  BY <1>5, FlagsOnly DEF Resume, envVars
<1>6. CASE Reset
  BY <1>6 DEF Reset, TaskMoves
<1>7. CASE Dispatch \/ Handle \/ Load \/ FindOverdue \/ Ack \/ CloseMR \/ SeeClosed \/ Crash
  BY <1>7 DEF Dispatch, Handle, Load, FindOverdue, Ack, CloseMR, SeeClosed, Crash, TaskMoves,
     rowVars, envVars
<1>. QED
  BY <1>1, <1>2, <1>3, <1>4, <1>5, <1>6, <1>7, PlannerWrites, DevWrites, SweepWrites DEF Next

-----------------------------------------------------------------------------
(* What a step does to the plan and the merge requests.                    *)

PlanMoves ==
    \/ plan' = plan
    \/ plan'.saved = plan.saved /\ plan'.from = plan.from
    \/ Reset /\ plan'.saved = FALSE
    \/ \E p \in Planners :
        /\ planner[p].pc = "save" /\ plan'.saved
        /\ plan'.from = planner[p].from

LEMMA AnyPlanMoves ==
    ASSUME TypeOK, [Next]_vars
    PROVE  plan' \in ReadyPlans /\ PlanMoves
<1>. USE DEF TypeOK
<1>1. CASE UNCHANGED plan
  BY <1>1 DEF PlanMoves
<1>2. CASE Touch
  BY <1>2 DEF Touch, ReadyPlans, PlanMoves
<1>3. ASSUME NEW p \in Planners, SavePlan(p) PROVE plan' \in ReadyPlans /\ PlanMoves
  <2>1. planner[p].from \in 0 .. MaxResets
    BY DEF RunsAt
  <2>. QED
    BY <1>3, <2>1 DEF SavePlan, ReadyPlans, PlanMoves
<1>4. CASE Reset
  BY <1>4, Records DEF Reset, PlanMoves
<1>. QED
  BY <1>1, <1>2, <1>3, <1>4 DEF Next, vars, rowVars, Insert, Dispatch, Handle, Load, SetPlanning, Resume,
     FindOverdue, Planner, Enter, StartRun, Discard, Ask, Terminate, Submit,
     SetReady, PublishPlan, Told, GiveUp, HandlePlan, WikiDown, Dev, Precheck, PrepareBranch,
     CallModel, ResetGate, Push, CreateMergeRequest, PersistMR, OpenMR, Age, Recovery, FindStuck,
     CheckPlan, ClaimAttempt, Republish, Ack, CloseMR, SeeClosed, Crash

SameMR(i) == mrs'[i].vcs = mrs[i].vcs /\ mrs'[i].from = mrs[i].from

MRMoves(i) ==
    \/ mrs'[i] = mrs[i]
    \/ Reset /\ SameMR(i) /\ mrs'[i].row = "none"
    \/ /\ dev.pc = "create" /\ mrs[i].vcs = "none" /\ mrs'[i].row = "none" /\ mrs'[i].vcs = "open"
       /\ mrs'[i].from = dev.from
    \/ /\ PersistMR /\ SameMR(i) /\ mrs[i].vcs # "none" /\ mrs'[i].row = "open"
       /\ \A j \in 1 .. MaxMRs : j # i => mrs'[j] = mrs[j]
    \/ /\ mrs[i].vcs = "open" /\ mrs'[i].vcs = "closed" /\ mrs'[i].row = mrs[i].row
       /\ mrs'[i].from = mrs[i].from
    \/ mrs[i].row = "open" /\ SameMR(i) /\ mrs'[i].row = "closed"

LEMMA AnyMRMoves ==
    ASSUME TypeOK, [Next]_vars
    PROVE  /\ mrs' \in [1 .. MaxMRs -> MergeRequests]
           /\ \A i \in 1 .. MaxMRs : MRMoves(i)
<1>. USE DEF TypeOK
<1>1. CASE UNCHANGED mrs
  BY <1>1 DEF MRMoves
<1>2. CASE Reset
  <2>1. mrs' = [i \in 1 .. MaxMRs |-> [mrs[i] EXCEPT !.row = "none"]]
    BY <1>2 DEF Reset
  <2>2. \A i \in 1 .. MaxMRs : /\ mrs'[i] = [mrs[i] EXCEPT !.row = "none"]
                               /\ mrs'[i] \in MergeRequests
    BY <2>1 DEF MergeRequests
  <2>. QED
    BY <1>2, <2>1, <2>2 DEF MRMoves, SameMR, MergeRequests
<1>3. CASE CreateMergeRequest /\ ~UNCHANGED mrs
  <2>. DEFINE r == [row |-> "none", vcs |-> "open", from |-> dev.from]
  <2>1. PICK i \in 1 .. MaxMRs : mrs[i].vcs = "none" /\ mrs' = [mrs EXCEPT ![i] = r]
    BY <1>3 DEF CreateMergeRequest
  <2>2. r \in MergeRequests /\ r.row = "none" /\ r.vcs = "open" /\ r.from = dev.from
    BY DEF RunsAt, MergeRequests
  <2>3. dev.pc = "create"
    BY <1>3 DEF CreateMergeRequest, At
  <2>. HIDE DEF r
  <2>. QED
    BY <2>1, <2>2, <2>3 DEF MRMoves
<1>4. CASE PersistMR /\ ~UNCHANGED mrs
  <2>1. PICK i \in 1 .. MaxMRs : mrs[i].vcs # "none" /\ mrs' = [mrs EXCEPT ![i].row = "open"]
    BY <1>4 DEF PersistMR
  <2>2. mrs'[i] = [mrs[i] EXCEPT !.row = "open"] /\ mrs' \in [1 .. MaxMRs -> MergeRequests]
    BY <2>1 DEF MergeRequests
  <2>. QED
    BY <1>4, <2>1, <2>2 DEF MRMoves, SameMR, MergeRequests
<1>5. CASE CloseMR
  <2>1. PICK i \in 1 .. MaxMRs : mrs[i].vcs = "open" /\ mrs' = [mrs EXCEPT ![i].vcs = "closed"]
    BY <1>5 DEF CloseMR
  <2>2. mrs'[i] = [mrs[i] EXCEPT !.vcs = "closed"] /\ mrs' \in [1 .. MaxMRs -> MergeRequests]
    BY <2>1 DEF MergeRequests
  <2>. QED
    BY <2>1, <2>2 DEF MRMoves, MergeRequests
<1>6. CASE SeeClosed
  <2>1. PICK i \in 1 .. MaxMRs : mrs[i].row = "open" /\ mrs' = [mrs EXCEPT ![i].row = "closed"]
    BY <1>6 DEF SeeClosed
  <2>2. mrs'[i] = [mrs[i] EXCEPT !.row = "closed"] /\ mrs' \in [1 .. MaxMRs -> MergeRequests]
    BY <2>1 DEF MergeRequests
  <2>. QED
    BY <2>1, <2>2 DEF MRMoves, SameMR, MergeRequests
<1>. QED
  BY <1>1, <1>2, <1>3, <1>4, <1>5, <1>6 DEF Next, vars, rowVars, Insert, Touch, Dispatch, Handle, Load,
     SetPlanning, Resume, FindOverdue, Planner, Enter, StartRun, Discard, Ask, Terminate, Submit,
     SavePlan, SetReady, PublishPlan, Told, GiveUp, HandlePlan, WikiDown, Dev, Precheck,
     PrepareBranch, CallModel, ResetGate, Push, OpenMR, Age, Recovery, FindStuck,
     CheckPlan, ClaimAttempt, Republish, Ack, Crash

-----------------------------------------------------------------------------
(* What a step does to the bus.                                            *)

\* The messages that were published stay so, and who publishes a plan.ready
\* owes it.
PublishedMoves ==
    \/ \A m \in Messages : status'[m] = "absent" <=> status[m] = "absent"
    \/ \E x \in Messages :
        /\ status[x] = "absent" /\ status' = [status EXCEPT ![x] = "queued"]
        /\ \/ x \in Discovered
           \/ x \in PlanReady /\ \E p \in Planners : PublishPlan(p) /\ planner[p].pc = "publish"
                                                     /\ GoesOn(p, "told") /\ Alone(p) /\ sweep' = sweep
           \/ x \in PlanReady /\ sweep.pc = "publish" /\ sweep.topic = "plan" /\ sweep' = NoSweep
              /\ planner' = planner

DoneMoves ==
    \/ done' = done
    \/ \E p \in Planners : /\ planner[p].msg \in Messages /\ done' = done \cup {planner[p].msg}
                           /\ dev' = dev
    \/ dev.msg \in Messages /\ done' = done \cup {dev.msg} /\ dev' = Idle

LEMMA HandlerEnds ==
    ASSUME TypeOK, NEW c, NEW r, r.msg \in Messages \cup {NoMessage}, Return(c, r) \/ Raise(c, r)
    PROVE  /\ status' = status
           /\ Bus!TypeOK'
           /\ done' = done \/ (Return(c, r) /\ r.msg \in Messages /\ done' = done \cup {r.msg})
BY Naturals DEF TypeOK, Return, Raise, busVars, Bus!Finish, Bus!GiveUp, Bus!TypeOK

LEMMA BusPublishes ==
    ASSUME TypeOK, NEW inbox \in SUBSET Messages, Publish(inbox)
    PROVE  /\ Bus!TypeOK' /\ done' = done
           /\ \E x \in inbox : status[x] = "absent" /\ status' = [status EXCEPT ![x] = "queued"]
BY DEF TypeOK, Publish, Bus!Publish, Bus!TypeOK, Bus!Statuses

LEMMA BusDelivers ==
    ASSUME TypeOK, NEW c \in Consumers, NEW inbox, NEW m \in Messages, Take(c, inbox, m)
    PROVE  status' = status /\ done' = done /\ Bus!TypeOK'
<1>1. status' = status /\ done' = done /\ holders' = [holders EXCEPT ![m] = @ \cup {c}]
  BY DEF Take, Bus!Deliver
<1>2. holders[m] \cup {c} \in SUBSET Consumers
  BY DEF TypeOK, Bus!TypeOK
<1>. QED
  BY <1>1, <1>2 DEF TypeOK, Bus!TypeOK

LEMMA PlannerOnBus ==
    ASSUME TypeOK, NEW p \in Planners, Planner(p)
    PROVE  Bus!TypeOK' /\ PublishedMoves /\ DoneMoves
<1>1. planner[p].msg \in Messages \cup {NoMessage}
  BY DEF TypeOK, RunsAt
<1>2. dev' = dev /\ sweep' = sweep
  BY DEF Planner, Enter, StartRun, Discard, Ask, Terminate, Submit, SavePlan, SetReady, PublishPlan,
     Told, GiveUp
<1>3. CASE UNCHANGED busVars
  BY <1>3 DEF busVars, TypeOK, Bus!TypeOK, PublishedMoves, DoneMoves
<1>4. CASE End(p)
  <2>1. Return("inbox", planner[p])
    BY <1>4 DEF End
  <2>2. /\ status' = status /\ Bus!TypeOK'
        /\ done' = done \/ (planner[p].msg \in Messages /\ done' = done \cup {planner[p].msg})
    BY <1>1, <2>1, HandlerEnds
  <2>. QED
    BY <1>2, <2>2 DEF PublishedMoves, DoneMoves
<1>5. CASE Raise("inbox", planner[p])
  <2>1. /\ status' = status /\ Bus!TypeOK'
        /\ done' = done \/ (planner[p].msg \in Messages /\ done' = done \cup {planner[p].msg})
    BY <1>1, <1>5, HandlerEnds
  <2>. QED
    BY <1>2, <2>1 DEF PublishedMoves, DoneMoves
<1>6. CASE PublishPlan(p) /\ Publish(PlanReady) /\ Step(p, "told")
  <2>1. GoesOn(p, "told") /\ Alone(p)
    BY <1>6, RunStep DEF PlannerPCs
  <2>2. planner[p].pc = "publish"
    BY <1>6 DEF PublishPlan
  <2>3. /\ Bus!TypeOK' /\ done' = done
        /\ \E x \in PlanReady : status[x] = "absent" /\ status' = [status EXCEPT ![x] = "queued"]
    BY <1>6, BusPublishes DEF Messages
  <2>. QED
    BY <1>2, <1>6, <2>1, <2>2, <2>3 DEF PublishedMoves, DoneMoves, Messages
<1>. QED
  BY <1>3, <1>4, <1>5, <1>6 DEF Planner, Enter, StartRun, Discard, Ask, Terminate, Submit, SavePlan,
     SetReady, PublishPlan, Told, GiveUp

LEMMA DevOnBus ==
    ASSUME TypeOK, HandlePlan \/ WikiDown \/ Dev
    PROVE  Bus!TypeOK' /\ PublishedMoves /\ DoneMoves
<1>1. dev.msg \in Messages \cup {NoMessage}
  BY DEF TypeOK, RunsAt
<1>2. CASE UNCHANGED busVars
  BY <1>2 DEF busVars, TypeOK, Bus!TypeOK, PublishedMoves, DoneMoves
<1>3. CASE DevReturns
  <2>1. /\ status' = status /\ Bus!TypeOK'
        /\ done' = done \/ (dev.msg \in Messages /\ done' = done \cup {dev.msg})
    BY <1>1, <1>3, HandlerEnds DEF DevReturns
  <2>. QED
    BY <1>3, <2>1 DEF PublishedMoves, DoneMoves, DevReturns
<1>4. CASE WikiDown
  <2>1. status' = status /\ Bus!TypeOK' /\ done' = done
    BY <1>4, Naturals DEF WikiDown, Raise, TypeOK, busVars, Bus!GiveUp, Bus!TypeOK
  <2>. QED
    BY <2>1 DEF PublishedMoves, DoneMoves
<1>5. CASE HandlePlan
  <2>1. status' = status /\ Bus!TypeOK' /\ done' = done
    BY <1>5, BusDelivers DEF HandlePlan, Consumers, Messages
  <2>. QED
    BY <2>1 DEF PublishedMoves, DoneMoves
<1>. QED
  BY <1>2, <1>3, <1>4, <1>5 DEF Dev, Precheck, PrepareBranch, CallModel, ResetGate, Push,
     CreateMergeRequest, PersistMR, OpenMR

LEMMA AnyBusMoves ==
    ASSUME TypeOK, [Next]_vars
    PROVE  Bus!TypeOK' /\ PublishedMoves /\ DoneMoves
<1>1. CASE UNCHANGED busVars
  BY <1>1 DEF busVars, TypeOK, Bus!TypeOK, PublishedMoves, DoneMoves
<1>2. CASE Dispatch /\ ~UNCHANGED busVars
  <2>1. /\ Bus!TypeOK' /\ done' = done
        /\ \E x \in Discovered : status[x] = "absent" /\ status' = [status EXCEPT ![x] = "queued"]
    BY <1>2, BusPublishes DEF Dispatch, Messages
  <2>. QED
    BY <2>1 DEF PublishedMoves, DoneMoves, Messages
<1>3. CASE Republish /\ ~UNCHANGED busVars
  <2>1. sweep.pc = "publish" /\ sweep' = NoSweep /\ planner' = planner
    BY <1>3 DEF Republish
  <2>2. CASE sweep.topic = "plan"
    <3>1. /\ Bus!TypeOK' /\ done' = done
          /\ \E x \in PlanReady : status[x] = "absent" /\ status' = [status EXCEPT ![x] = "queued"]
      BY <1>3, <2>2, BusPublishes DEF Republish, Messages
    <3>. QED
      BY <2>1, <2>2, <3>1 DEF PublishedMoves, DoneMoves, Messages
  <2>3. CASE sweep.topic # "plan"
    <3>1. /\ Bus!TypeOK' /\ done' = done
          /\ \E x \in Discovered : status[x] = "absent" /\ status' = [status EXCEPT ![x] = "queued"]
      BY <1>3, <2>3, BusPublishes DEF Republish, Messages
    <3>. QED
      BY <3>1 DEF PublishedMoves, DoneMoves, Messages
  <2>. QED
    BY <2>2, <2>3
<1>4. CASE Handle
  <2>1. status' = status /\ Bus!TypeOK' /\ done' = done
    BY <1>4, BusDelivers DEF Handle, Consumers, Messages
  <2>. QED
    BY <2>1 DEF PublishedMoves, DoneMoves
<1>5. CASE Load \/ SetPlanning
  <2>1. dev' = dev /\ planner["inbox"].msg \in Messages \cup {NoMessage} /\ "inbox" \in Planners
    BY <1>5 DEF Load, SetPlanning, TypeOK, RunsAt, Planners
  <2>2. CASE End("inbox")
    <3>1. /\ status' = status /\ Bus!TypeOK'
          /\ \/ done' = done
             \/ planner["inbox"].msg \in Messages /\ done' = done \cup {planner["inbox"].msg}
      BY <2>1, <2>2, HandlerEnds DEF End
    <3>. QED
      BY <2>1, <3>1 DEF PublishedMoves, DoneMoves
  <2>. QED
    BY <1>1, <1>5, <2>2 DEF Load, SetPlanning
<1>6. CASE Ack
  <2>1. PICK m \in Messages : Bus!Acknowledge(m)
    BY <1>6 DEF Ack
  <2>. QED
    BY <2>1 DEF TypeOK, Bus!Acknowledge, Bus!TypeOK, Bus!Statuses, PublishedMoves, DoneMoves
<1>7. CASE Reset
  <2>1. /\ status' = [m \in Messages |-> IF status[m] = "queued" THEN "wiped" ELSE status[m]]
        /\ holders' = holders /\ done' = done
    BY <1>7 DEF Reset
  <2>. QED
    BY <2>1 DEF TypeOK, Bus!TypeOK, Bus!Statuses, PublishedMoves, DoneMoves
<1>8. CASE Crash
  BY <1>8 DEF Crash, TypeOK, Bus!TypeOK, PublishedMoves, DoneMoves
<1>. QED
  BY <1>1, <1>2, <1>3, <1>4, <1>5, <1>6, <1>7, <1>8, PlannerOnBus, DevOnBus DEF Next, vars, busVars,
     Insert, Touch, Resume, FindOverdue, Age, Recovery, FindStuck, CheckPlan, ClaimAttempt, CloseMR,
     SeeClosed

-----------------------------------------------------------------------------
(* The invariant is kept, part by part.                                    *)

\* Who moves the observers.
LEMMA Observed ==
    ASSUME [Next]_vars
    PROVE  /\ runs' = runs \/ (CallModel /\ runs' = runs + 1)
           /\ plans' = plans \/ (\E p \in Planners : SavePlan(p) /\ plans' = plans + 1)
           /\ cut \subseteq cut' \/ cut' = {}
           /\ cut' \in {cut, cut \cup {"publish"}, cut \cup {"prepare"}, {}}
           /\ late' = late \/ (Reset /\ late' = PastCheck)
BY DEF obsVars, Cut, Next, vars, Insert, Touch, Dispatch, Handle, Load, SetPlanning, Resume, FindOverdue, Planner,
     Enter, StartRun, Discard, Ask, Terminate, Submit, SavePlan, SetReady, PublishPlan, Told, GiveUp,
     HandlePlan, WikiDown, Dev, Precheck, PrepareBranch, CallModel, ResetGate, Push,
     CreateMergeRequest, PersistMR, OpenMR, Age, Recovery, FindStuck, CheckPlan, ClaimAttempt,
     Republish, Ack, Reset, CloseMR, SeeClosed, Crash

\* Bounds and observers.
LEMMA Counters ==
    ASSUME TypeOK, [Next]_vars
    PROVE  /\ rows' \in 0 .. MaxRows /\ epoch' \in 0 .. MaxResets
           /\ faults' \in 0 .. MaxFaults /\ touches' \in 0 .. MaxTouches
           /\ orch' \in {"poll", "dispatch"} /\ runs' \in Nat /\ plans' \in Nat
           /\ cut' \subseteq {"publish", "prepare"} /\ late' \subseteq Planners \cup {"dev"}
<1>. USE Naturals DEF TypeOK, envVars, obsVars
<1>1. rows' \in 0 .. MaxRows
  <2>1. CASE Insert
    BY <2>1 DEF Insert
  <2>2. CASE rows' = rows
    BY <2>2
  <2>. QED
    BY <2>1, <2>2 DEF Next, vars, Touch, Dispatch, Handle, Load, SetPlanning, Resume, FindOverdue, Planner, Enter,
     StartRun, Discard, Ask, Terminate, Submit, SavePlan, SetReady, PublishPlan, Told, GiveUp,
     HandlePlan, WikiDown, Dev, Precheck, PrepareBranch, CallModel, ResetGate, Push,
     CreateMergeRequest, PersistMR, OpenMR, Age, Recovery, FindStuck, CheckPlan, ClaimAttempt,
     Republish, Ack, Reset, CloseMR, SeeClosed, Crash
<1>2. epoch' \in 0 .. MaxResets
  <2>1. CASE Reset
    BY <2>1 DEF Reset
  <2>2. CASE epoch' = epoch
    BY <2>2
  <2>. QED
    BY <2>1, <2>2 DEF Next, vars, Insert, Touch, Dispatch, Handle, Load, SetPlanning, Resume, FindOverdue, Planner,
     Enter, StartRun, Discard, Ask, Terminate, Submit, SavePlan, SetReady, PublishPlan, Told, GiveUp,
     HandlePlan, WikiDown, Dev, Precheck, PrepareBranch, CallModel, ResetGate, Push,
     CreateMergeRequest, PersistMR, OpenMR, Age, Recovery, FindStuck, CheckPlan, ClaimAttempt,
     Republish, Ack, CloseMR, SeeClosed, Crash
<1>3. faults' \in 0 .. MaxFaults
  <2>1. CASE Handle \/ HandlePlan \/ CreateMergeRequest \/ PersistMR \/ Crash
    <3>1. faults' = faults \/ (faults < MaxFaults /\ faults' = faults + 1)
      BY <2>1 DEF Handle, HandlePlan, Take, CreateMergeRequest, PersistMR, Crash
    <3>. QED
      BY <3>1
  <2>2. CASE faults' = faults
    BY <2>2
  <2>. QED
    BY <2>1, <2>2 DEF Next, vars, Insert, Touch, Dispatch, Load, SetPlanning, Resume, FindOverdue, Planner, Enter,
     StartRun, Discard, Ask, Terminate, Submit, SavePlan, SetReady, PublishPlan, Told, GiveUp,
     WikiDown, Dev, Precheck, PrepareBranch, CallModel, ResetGate, Push,
     OpenMR, Age, Recovery, FindStuck, CheckPlan, ClaimAttempt,
     Republish, Ack, Reset, CloseMR, SeeClosed
<1>4. touches' \in 0 .. MaxTouches
  <2>1. CASE Touch
    BY <2>1 DEF Touch
  <2>2. CASE touches' = touches
    BY <2>2
  <2>. QED
    BY <2>1, <2>2 DEF Next, vars, Insert, Dispatch, Handle, Load, SetPlanning, Resume, FindOverdue, Planner,
     Enter, StartRun, Discard, Ask, Terminate, Submit, SavePlan, SetReady, PublishPlan, Told, GiveUp,
     HandlePlan, WikiDown, Dev, Precheck, PrepareBranch, CallModel, ResetGate, Push,
     CreateMergeRequest, PersistMR, OpenMR, Age, Recovery, FindStuck, CheckPlan, ClaimAttempt,
     Republish, Ack, Reset, CloseMR, SeeClosed, Crash
<1>5. orch' \in {"poll", "dispatch"}
  BY DEF Next, vars, Insert, Touch, Dispatch, Handle, Load, SetPlanning, Resume, FindOverdue, Planner,
     Enter, StartRun, Discard, Ask, Terminate, Submit, SavePlan, SetReady, PublishPlan, Told, GiveUp,
     HandlePlan, WikiDown, Dev, Precheck, PrepareBranch, CallModel, ResetGate, Push,
     CreateMergeRequest, PersistMR, OpenMR, Age, Recovery, FindStuck, CheckPlan, ClaimAttempt,
     Republish, Ack, Reset, CloseMR, SeeClosed, Crash
<1>6. /\ runs' = runs \/ (CallModel /\ runs' = runs + 1)
      /\ plans' = plans \/ (\E p \in Planners : SavePlan(p) /\ plans' = plans + 1)
      /\ cut' \in {cut, cut \cup {"publish"}, cut \cup {"prepare"}, {}}
  BY Observed
<1>7. runs' \in Nat /\ plans' \in Nat
  BY <1>6
<1>8. cut' \subseteq {"publish", "prepare"}
  BY <1>6
<1>9. late' \subseteq Planners \cup {"dev"}
  BY Observed DEF PastCheck
<1>. QED
  BY <1>1, <1>2, <1>3, <1>4, <1>5, <1>7, <1>8, <1>9

LEMMA NextTypeOK == ASSUME IInv, [Next]_vars PROVE TypeOK'
<1>1. TypeOK /\ StepInv
  BY DEF IInv
<1>2. task' = NoTask \/ task' \in Tasks
  BY <1>1, AnyTaskMoves DEF TaskMoves, SameRow, Reset, TypeOK
<1>. QED
  BY <1>1, <1>2, AnyBusMoves, AnyPlanMoves, AnyMRMoves, AnyPlannerMoves, AnyDevMoves, AnySweepMoves,
     Counters DEF TypeOK

\* Rows do not come back under an old id.
LEMMA NextIdInv == ASSUME IInv, [Next]_vars PROVE IdInv'
<1>0. TypeOK /\ StepInv /\ IdInv /\ rows \in Nat
  BY Naturals DEF IInv, TypeOK
<1>1. TaskMoves /\ rows' \in Nat /\ rows <= rows'
  BY <1>0, AnyTaskMoves, Counters, Naturals DEF TaskMoves, SameRow
<1>2. (task # NoTask)' => task'.id = rows'
  BY <1>0, <1>1, NewTaskIsTask DEF TaskMoves, SameRow, IdInv, TypeOK, NewTask, Insert, Reset, Tasks, NoTask
<1>3. task # NoTask => task.id = rows /\ task.id \in Nat
  BY <1>0 DEF IdInv
<1>4. ASSUME NEW p \in Planners PROVE planner'[p].id <= rows'
  <2>1. PlannerMoves(p) /\ planner[p].id \in Nat /\ planner'[p].id \in Nat
    BY <1>0, AnyPlannerMoves, Naturals DEF TypeOK, RunsAt
  <2>2. planner'[p].id = planner[p].id \/ planner'[p].id = 0
        \/ (task # NoTask /\ planner'[p].id = task.id)
    BY <2>1, Records DEF PlannerMoves, GoesOn, Reads
  <2>3. planner[p].id <= rows
    BY <1>0 DEF IdInv
  <2>. QED
    BY <1>0, <1>1, <1>3, <2>1, <2>2, <2>3
<1>5. dev'.id <= rows'
  <2>1. DevMoves /\ dev.id \in Nat /\ dev'.id \in Nat /\ dev.id <= rows
    BY <1>0, AnyDevMoves, Naturals DEF TypeOK, RunsAt, IdInv
  <2>2. dev'.id = dev.id \/ dev'.id = 0 \/ (task # NoTask /\ dev'.id = task.id)
    BY <2>1, Records DEF DevMoves, DevGoesOn, Actionable
  <2>. QED
    BY <1>0, <1>1, <1>3, <2>1, <2>2
<1>6. sweep'.id <= rows'
  <2>1. SweepMoves /\ sweep.id \in Nat /\ sweep'.id \in Nat /\ sweep.id <= rows
    BY <1>0, AnySweepMoves, Naturals DEF TypeOK, Sweeps, IdInv
  <2>2. sweep'.id = sweep.id \/ sweep'.id = 0 \/ (task # NoTask /\ sweep'.id = task.id)
    BY <2>1, Records DEF SweepMoves
  <2>. QED
    BY <1>0, <1>1, <1>3, <2>1, <2>2
<1>. QED
  BY <1>2, <1>4, <1>5, <1>6 DEF IdInv

\* A planner that holds the row unspent held it so before, or reads it now.
LEMMA UnspentMoves ==
    ASSUME IInv, [Next]_vars, NEW p \in Planners, Unspent(p)'
    PROVE  \/ Unspent(p) /\ ~Enter(p)
           \/ task # NoTask /\ task.steps < MaxSteps /\ (Load \/ Resume)
<1>0. TypeOK /\ StepInv /\ IdInv /\ PlannerMoves(p) /\ TaskMoves
  BY AnyPlannerMoves, AnyTaskMoves DEF IInv
<1>1. task' # NoTask /\ planner'[p].id = task'.id /\ planner'[p].pc \in {"loaded", "enter"}
      /\ ~planner'[p].spent
  BY DEF Unspent
<1>2. planner'[p].id <= rows /\ planner'[p].id # 0 /\ rows \in Nat
  <2>1. planner'[p].id = planner[p].id \/ planner'[p].id = 0
        \/ (task # NoTask /\ planner'[p].id = task.id)
    BY <1>0, Records DEF PlannerMoves, GoesOn, Reads
  <2>2. task' \in Tasks
    BY <1>0, <1>1 DEF TaskMoves, SameRow, TypeOK, Reset
  <2>3. planner'[p].id # 0 /\ rows \in Nat
    BY <1>0, <1>1, <2>2, Naturals DEF Tasks, TypeOK
  <2>. QED
    BY <1>0, <2>1, <2>3 DEF IdInv, TypeOK
<1>3. task # NoTask /\ task'.id = task.id
  <2>1. ~Insert
    BY <1>0, <1>1, <1>2, NewTaskIsTask DEF Insert, TypeOK
  <2>. QED
    BY <1>0, <1>1, <2>1 DEF TaskMoves, SameRow, Reset, TypeOK, Tasks, NoTask
<1>4. CASE planner'[p] = planner[p]
  <2>1. Unspent(p)
    BY <1>1, <1>3, <1>4 DEF Unspent
  <2>2. ~Enter(p)
    BY <1>0, <1>4, <2>1, RunStep, RunEnds, Records DEF Enter, End, Unspent, HasRow, GoesOn, PlannerPCs
  <2>. QED
    BY <2>1, <2>2
<1>5. CASE Reads(p) /\ (Load \/ Resume)
  <2>1. ~(task.steps >= MaxSteps)
    BY <1>1, <1>5 DEF Reads
  <2>2. task.steps \in Nat
    BY <1>0, <1>3, Naturals DEF TypeOK, Tasks
  <2>. QED
    BY <1>3, <1>5, <2>1, <2>2, Naturals
<1>6. CASE SetPlanning /\ planner[p].pc = "loaded" /\ GoesOn(p, "enter")
  <2>1. Unspent(p)
    BY <1>1, <1>3, <1>6 DEF Unspent, GoesOn
  <2>. QED
    BY <1>6, <2>1 DEF Enter
<1>. QED
  BY <1>0, <1>1, <1>4, <1>5, <1>6, Records DEF PlannerMoves, GoesOn

LEMMA NextStepInv == ASSUME IInv, [Next]_vars PROVE StepInv'
<1>0. TypeOK /\ StepInv /\ TaskMoves
  BY AnyTaskMoves DEF IInv
<1>1. CASE \A p \in Planners : ~Unspent(p)'
  <2>1. "inbox" \in Planners
    BY DEF Planners
  <2>. QED
    BY <1>1, <2>1 DEF StepInv
<1>2. ASSUME NEW p \in Planners, Unspent(p)' PROVE StepInv'
  <2>1. task # NoTask /\ (Unspent(p) \/ task.steps < MaxSteps)
    BY <1>2, UnspentMoves DEF Unspent
  <2>2. task.steps \in Nat /\ task.steps <= MaxSteps
    BY <1>0, <2>1, Naturals DEF TypeOK, Tasks, StepInv
  <2>3. CASE task'.steps = task.steps
    <3>1. (\A q \in Planners : Unspent(q)') => task.steps < MaxSteps
      <4>1. (\A q \in Planners : Unspent(q)') => (\A q \in Planners : Unspent(q)) \/ task.steps < MaxSteps
        BY UnspentMoves
      <4>. QED
        BY <1>0, <4>1 DEF StepInv
    <3>. QED
      BY <2>2, <2>3, <3>1 DEF StepInv
  <2>4. ASSUME NEW q \in Planners, Counts(q) PROVE StepInv'
    <3>1. ~Unspent(q)'
      BY <2>4 DEF Counts, Unspent
    <3>2. task.steps < MaxSteps
      <4>1. CASE Unspent(p)
        <5>1. p # q
          BY <1>2, <3>1
        <5>2. \A x \in Planners : x = p \/ x = q
          BY <5>1 DEF Planners
        <5>. QED
          BY <1>0, <2>4, <4>1, <5>2 DEF Counts, StepInv
      <4>. QED
        BY <2>1, <4>1
    <3>3. task'.steps = task.steps + 1 /\ task'.steps <= MaxSteps
      BY <2>2, <2>4, <3>2, Naturals DEF Counts
    <3>. QED
      BY <3>1, <3>3 DEF StepInv
  <2>. QED
    BY <1>0, <1>2, <2>1, <2>3, <2>4 DEF TaskMoves, SameRow, Reset, Unspent
<1>. QED
  BY <1>1, <1>2

\* Nothing that was published is absent again.
LEMMA StaysPublished ==
    ASSUME TypeOK, [Next]_vars, NEW m \in Messages, status[m] # "absent"
    PROVE  status'[m] # "absent"
BY AnyBusMoves DEF PublishedMoves, TypeOK, Bus!TypeOK

LEMMA NextHandlerInv == ASSUME IInv, [Next]_vars PROVE HandlerInv'
<1>0. TypeOK /\ HandlerInv
  BY DEF IInv
<1>1. (dev.pc # "idle")' => dev'.msg \in PlanReady
  BY <1>0, AnyDevMoves, Records DEF DevMoves, DevGoesOn, HandlerInv
<1>2. ASSUME NEW p \in Planners PROVE planner'[p].msg \in Discovered \cup {NoMessage}
  <2>1. PlannerMoves(p) /\ planner[p].msg \in Discovered \cup {NoMessage}
    BY <1>0, AnyPlannerMoves DEF HandlerInv
  <2>. QED
    BY <2>1, Records DEF PlannerMoves, GoesOn, Reads
<1>3. dev'.msg # NoMessage => status'[dev'.msg] # "absent"
  <2>1. DevMoves /\ dev'.msg \in Messages \cup {NoMessage} /\ dev.msg \in Messages \cup {NoMessage}
    BY <1>0, AnyDevMoves DEF TypeOK, RunsAt
  <2>2. CASE status[dev'.msg] = "queued"
    BY <1>0, <2>1, <2>2, StaysPublished
  <2>3. CASE dev'.msg = NoMessage
    BY <2>3
  <2>4. CASE dev'.msg = dev.msg
    BY <1>0, <2>1, <2>4, StaysPublished DEF HandlerInv
  <2>. QED
    BY <2>1, <2>2, <2>3, <2>4, Records DEF DevMoves, DevGoesOn
<1>4. ASSUME NEW p \in Planners, planner'[p].msg # NoMessage PROVE status'[planner'[p].msg] # "absent"
  <2>1. PlannerMoves(p) /\ planner'[p].msg \in Messages
    BY <1>0, <1>2, <1>4, AnyPlannerMoves DEF Messages
  <2>2. CASE Handle /\ p = "inbox" /\ planner'[p].pc = "start"
    <3>1. PICK m \in Discovered :
            /\ status[m] = "queued"
            /\ planner' = [planner EXCEPT !["inbox"] = [Idle EXCEPT !.pc = "start", !.msg = m]]
      BY <2>2 DEF Handle, Take
    <3>2. [Idle EXCEPT !.pc = "start", !.msg = m].msg = m
      BY Naturals, Records, RunUpdates DEF RunsAt
    <3>3. planner'[p].msg = m
      BY <1>0, <2>2, <3>1, <3>2 DEF TypeOK
    <3>. QED
      BY <1>0, <2>1, <3>1, <3>3, StaysPublished
  <2>3. CASE planner'[p].msg = planner[p].msg
    <3>1. status[planner[p].msg] # "absent"
      BY <1>0, <1>4, <2>3 DEF HandlerInv, Planners
    <3>. QED
      BY <1>0, <2>1, <2>3, <3>1, StaysPublished
  <2>. QED
    BY <1>4, <2>1, <2>2, <2>3, Records DEF PlannerMoves, GoesOn, Reads
<1>5. ASSUME NEW m \in done' PROVE status'[m] # "absent"
  <2>1. m \in Messages /\ NoMessage \notin Messages
    BY <1>0, AnyBusMoves, Naturals DEF Bus!TypeOK
  <2>2. DoneMoves
    BY <1>0, AnyBusMoves
  <2>3. status[m] # "absent"
    BY <1>0, <1>5, <2>1, <2>2 DEF DoneMoves, HandlerInv, Planners
  <2>. QED
    BY <1>0, <2>1, <2>3, StaysPublished
<1>6. "inbox" \in Planners /\ "coalescer" \in Planners
  BY DEF Planners
<1>. QED
  BY <1>1, <1>2, <1>3, <1>4, <1>5, <1>6 DEF HandlerInv

LEMMA NextOneInv == ASSUME IInv, [Next]_vars PROVE OneInv'
<1>0. TypeOK /\ OneInv
  BY DEF IInv
<1>1. CASE ~PersistMR \/ UNCHANGED mrs
  <2>1. \A i \in 1 .. MaxMRs : mrs'[i].row = "open" => mrs[i].row = "open"
    BY <1>0, <1>1, AnyMRMoves DEF MRMoves
  <2>2. OpenRow' => OpenRow
    BY <2>1 DEF OpenRow
  <2>3. dev'.pc \in Prepared => dev.pc \in Prepared \/ Actionable
    BY <1>0, AnyDevMoves, Records DEF DevMoves, DevGoesOn, Prepared
  <2>. QED
    BY <1>0, <2>1, <2>2, <2>3 DEF OneInv, Actionable
<1>2. CASE PersistMR /\ ~UNCHANGED mrs
  <2>1. dev.pc = "persist" /\ dev'.pc = "open"
    BY <1>0, <1>2, DevGoes DEF PersistMR, At, DevPCs
  <2>2. \A i \in 1 .. MaxMRs : mrs[i].row # "open"
    BY <1>0, <2>1 DEF OneInv, Prepared, OpenRow
  <2>3. \A i, j \in 1 .. MaxMRs : mrs'[i].row = "open" /\ mrs'[j].row = "open" => i = j
    <3>1. SUFFICES ASSUME NEW i \in 1 .. MaxMRs, NEW j \in 1 .. MaxMRs, i # j,
                          mrs'[i].row = "open", mrs'[j].row = "open"
                   PROVE  FALSE
      OBVIOUS
    <3>2. MRMoves(i)
      BY <1>0, AnyMRMoves
    <3>3. mrs'[j] = mrs[j] \/ mrs[i].row = "open"
      BY <2>1, <2>2, <3>1, <3>2 DEF MRMoves
    <3>. QED
      BY <2>2, <3>1, <3>3
  <2>. QED
    BY <2>1, <2>3 DEF OneInv, Prepared
<1>. QED
  BY <1>1, <1>2

\* A row that an earlier id names was there before the step.
LEMMA OldRow ==
    ASSUME IInv, [Next]_vars, NEW id \in Nat, id <= rows, HasRow(id)'
    PROVE  HasRow(id) /\ ~Reset /\ (task' = task \/ SameRow)
<1>0. TypeOK /\ StepInv /\ rows \in Nat /\ TaskMoves
  BY AnyTaskMoves, Naturals DEF IInv, TypeOK
<1>1. ~Insert
  <2>1. Insert => task'.id = rows + 1
    BY <1>0, NewTaskIsTask DEF Insert, TypeOK
  <2>. QED
    BY <1>0, <2>1 DEF HasRow
<1>2. ~Reset
  BY DEF Reset, HasRow
<1>. QED
  BY <1>0, <1>1, <1>2 DEF TaskMoves, SameRow, HasRow, NoTask, Tasks

LEMMA NextBackedInv == ASSUME IInv, [Next]_vars PROVE BackedInv'
<1>0. TypeOK /\ BackedInv /\ IdInv /\ StepInv /\ rows \in Nat
  BY Naturals DEF IInv, TypeOK
<1>. DEFINE Recorded == \E i \in 1 .. MaxMRs : mrs[i].row # "none"
<1>1. \A i \in 1 .. MaxMRs : mrs'[i].vcs = "none" => mrs'[i].row = "none"
  BY <1>0, AnyMRMoves DEF MRMoves, SameMR, BackedInv
<1>2. Recorded /\ ~Reset => Recorded'
  <2>1. ASSUME NEW i \in 1 .. MaxMRs, mrs[i].row # "none", ~Reset PROVE mrs'[i].row # "none"
    BY <1>0, <2>1, AnyMRMoves DEF MRMoves, SameMR, BackedInv
  <2>. QED
    BY <2>1
<1>3. plan.saved /\ ~Reset => plan'.saved
  BY <1>0, AnyPlanMoves DEF PlanMoves
<1>4. dev.id \in Nat /\ dev.id <= rows
  BY <1>0, Naturals DEF TypeOK, RunsAt, IdInv
<1>5. ASSUME dev'.pc \in Prepared \cup {"open"}, HasRow(dev.id)' PROVE plan'.saved
  <2>1. CASE dev.pc \in Prepared \cup {"open"} /\ dev'.id = dev.id
    <3>1. HasRow(dev.id) /\ ~Reset
      BY <1>4, <1>5, <2>1, OldRow DEF HasRow
    <3>. QED
      BY <1>0, <1>3, <2>1, <3>1 DEF BackedInv
  <2>2. CASE Precheck /\ Actionable
    BY <1>3, <2>2 DEF Precheck, Actionable, rowVars
  <2>. QED
    BY <1>0, <1>5, <2>1, <2>2, AnyDevMoves, Records DEF DevMoves, DevGoesOn, Prepared
<1>6. ASSUME dev'.pc = "open", HasRow(dev.id)' PROVE Recorded'
  <2>1. CASE dev' = dev
    <3>1. HasRow(dev.id) /\ ~Reset
      BY <1>4, <1>6, <2>1, OldRow DEF HasRow
    <3>. QED
      BY <1>0, <1>2, <1>6, <2>1, <3>1 DEF BackedInv
  <2>2. CASE PersistMR
    <3>1. PICK i \in 1 .. MaxMRs : mrs' = [mrs EXCEPT ![i].row = "open"]
      BY <1>6, <2>2, Records DEF PersistMR, DevReturns
    <3>2. mrs'[i].row = "open"
      BY <1>0, <3>1 DEF TypeOK, MergeRequests
    <3>. QED
      BY <3>2
  <2>. QED
    BY <1>0, <1>6, <2>1, <2>2, AnyDevMoves, Records DEF DevMoves, DevGoesOn
<1>7. ASSUME task' # NoTask, task'.status \in {"CODING", "MR_OPEN"}
      PROVE  plan'.saved /\ (task'.status = "MR_OPEN" => Recorded')
  <2>1. TaskMoves
    BY <1>0, AnyTaskMoves
  <2>2. task # NoTask /\ ~Reset /\ (task' = task \/ SameRow)
    BY <1>7, <2>1, NewTaskIsTask, <1>0 DEF TaskMoves, Insert, Reset, SameRow, TypeOK, Tasks, NoTask
  <2>3. CASE task'.status = task.status
    BY <1>0, <1>2, <1>3, <1>7, <2>2, <2>3
       DEF BackedInv, StatusIsBacked, MROpenIsRecorded, CodingHasPlan, InStatus
  <2>4. CASE dev.pc = "prep" /\ HasRow(dev.id) /\ task'.status = "CODING"
    BY <1>0, <1>3, <2>2, <2>4 DEF BackedInv, Prepared
  <2>5. CASE dev.pc = "open" /\ HasRow(dev.id)
    BY <1>0, <1>2, <1>3, <2>2, <2>5 DEF BackedInv
  <2>. QED
    BY <1>7, <2>2, <2>3, <2>4, <2>5 DEF SameRow
<1>. QED
  BY <1>1, <1>5, <1>6, <1>7
     DEF BackedInv, StatusIsBacked, MROpenIsRecorded, CodingHasPlan, InStatus

-----------------------------------------------------------------------------
(* The budget: every run has its message or its fault ...                  *)

LEMMA AnsweredIsPublished ==
    ASSUME TypeOK, HandlerInv
    PROVE  Answered \subseteq Published
<1>1. dev.pc \in AfterRun => dev.msg \in PlanReady /\ dev.msg # NoMessage
  BY Naturals DEF HandlerInv, AfterRun, Messages
<1>. QED
  BY <1>1 DEF Answered, Published, HandlerInv

\* The messages grow one by one, and each was owed.
LEMMA PublishedGrows ==
    ASSUME TypeOK, [Next]_vars
    PROVE  \/ Published' = Published
           \/ \E x \in PlanReady \ Published :
                /\ Published' = Published \cup {x}
                /\ \/ \E p \in Planners : /\ PublishPlan(p) /\ planner[p].pc = "publish"
                                          /\ GoesOn(p, "told") /\ Alone(p) /\ sweep' = sweep
                   \/ sweep.pc = "publish" /\ sweep.topic = "plan" /\ sweep' = NoSweep
                      /\ planner' = planner
<1>1. PublishedMoves
  BY AnyBusMoves
<1>2. CASE \A m \in Messages : status'[m] = "absent" <=> status[m] = "absent"
  BY <1>2 DEF Published, Messages
<1>3. ASSUME NEW x \in Messages, status[x] = "absent", status' = [status EXCEPT ![x] = "queued"]
      PROVE  IF x \in PlanReady THEN x \notin Published /\ Published' = Published \cup {x}
             ELSE Published' = Published
  BY <1>3 DEF Published, Messages, TypeOK, Bus!TypeOK
<1>4. CASE ~(\A m \in Messages : status'[m] = "absent" <=> status[m] = "absent")
  <2>1. PICK x \in Messages :
            /\ status[x] = "absent" /\ status' = [status EXCEPT ![x] = "queued"]
            /\ \/ x \in Discovered
               \/ x \in PlanReady /\ \E p \in Planners : PublishPlan(p) /\ planner[p].pc = "publish"
                                                         /\ GoesOn(p, "told") /\ Alone(p) /\ sweep' = sweep
               \/ x \in PlanReady /\ sweep.pc = "publish" /\ sweep.topic = "plan" /\ sweep' = NoSweep
                  /\ planner' = planner
    BY <1>1, <1>4 DEF PublishedMoves
  <2>2. CASE x \in Discovered
    BY <1>3, <2>1, <2>2, PipelineAssumption
  <2>3. CASE x \notin Discovered
    BY <1>3, <2>1, <2>3
  <2>. QED
    BY <2>2, <2>3
<1>. QED
  BY <1>2, <1>4

LEMMA PublishedIsFinite ==
    ASSUME IInv, [Next]_vars
    PROVE  IsFiniteSet(Published)' /\ Cardinality(Published)' \in Nat
<1>1. TypeOK /\ IsFiniteSet(Published)
  BY DEF IInv, BudgetInv
<1>2. IsFiniteSet(Published')
  BY <1>1, PublishedGrows, FS_AddElement
<1>. QED
  BY <1>2, FS_CardinalityType

\* A run of the Dev-agent ends with its message handled, unless it crashes or
\* gives its message back before it came to the model.
LEMMA DevEnds ==
    ASSUME IInv, [Next]_vars, dev' = Idle, dev # Idle, dev.pc # "idle"
    PROVE  Crash \/ (dev.pc = "prep" /\ done' = done) \/ done' = done \cup {dev.msg}
<1>0. TypeOK /\ HandlerInv
  BY DEF IInv
<1>1. CASE WikiDown
  BY <1>1, Naturals DEF WikiDown, At, Raise, busVars, Bus!GiveUp
<1>2. CASE DevReturns
  <2>1. dev.msg \in PlanReady /\ dev.msg # NoMessage
    BY <1>0, Naturals DEF HandlerInv, Messages
  <2>. QED
    BY <1>2, <2>1 DEF DevReturns, Return, Bus!Finish
<1>3. CASE HandlePlan
  BY <1>3 DEF HandlePlan, At
<1>4. CASE Dev
  <2>1. \/ DevReturns
        \/ \E x \in DevPCs \ {"idle"} : Go(x)
        \/ dev' = [dev EXCEPT !.pc = "prep", !.id = task.id]
        \/ dev' = [dev EXCEPT !.pc = "push"]
    BY <1>4 DEF Dev, Precheck, PrepareBranch, CallModel, ResetGate, Push, CreateMergeRequest,
       PersistMR, OpenMR, DevPCs
  <2>2. dev \in RunsAt(DevPCs)
    BY <1>0 DEF TypeOK
  <2>3. DevReturns
    BY <1>0, <2>1, <2>2, DevGoes, Records DEF RunsAt
  <2>. QED
    BY <1>2, <2>3
<1>. QED
  BY <1>1, <1>3, <1>4 DEF Next, vars, Insert, Touch, Dispatch, Handle, Load, SetPlanning, Resume,
     FindOverdue, Planner, Enter, StartRun, Discard, Ask, Terminate, Submit, SavePlan, SetReady,
     PublishPlan, Told, GiveUp, Age, Recovery, FindStuck, CheckPlan, ClaimAttempt, Republish, Ack,
     Reset, CloseMR, SeeClosed

LEMMA RunsCount ==
    ASSUME TypeOK, [Next]_vars
    PROVE  /\ runs' = runs \/ (CallModel /\ runs' = runs + 1)
           /\ faults <= faults'
           /\ CallModel => dev.pc = "coding" /\ faults' = faults
           /\ Crash => runs' = runs /\ faults' = faults + 1
<1>1. runs' = runs \/ (CallModel /\ runs' = runs + 1)
  BY Observed
<1>2. faults' = faults \/ faults' = faults + 1
  <2>1. \A c, inbox, m : Take(c, inbox, m) => faults' = faults \/ faults' = faults + 1
    BY DEF Take
  <2>. QED
    BY <2>1 DEF Next, vars, envVars, Insert, Touch, Dispatch, Handle, Load, SetPlanning, Resume,
     FindOverdue, Planner, Enter, StartRun, Discard, Ask, Terminate, Submit, SavePlan, SetReady,
     PublishPlan, Told, GiveUp, HandlePlan, WikiDown, Dev, Precheck, PrepareBranch, CallModel,
     ResetGate, Push, CreateMergeRequest, PersistMR, OpenMR, Age, Recovery, FindStuck, CheckPlan,
     ClaimAttempt, Republish, Ack, Reset, CloseMR, SeeClosed, Crash
<1>3. faults <= faults'
  <2>1. faults \in Nat
    BY Naturals DEF TypeOK
  <2>. QED
    BY <1>2, <2>1
<1>. QED
  BY <1>1, <1>3 DEF CallModel, Crash, At, envVars, obsVars

\* Except in a crash, nothing that was answered is forgotten.
LEMMA AnsweredGrows ==
    ASSUME IInv, [Next]_vars, ~Crash
    PROVE  Answered \subseteq Answered'
<1>0. TypeOK /\ HandlerInv /\ DoneMoves /\ DevMoves
  BY AnyBusMoves, AnyDevMoves DEF IInv
<1>1. done \subseteq done'
  BY <1>0 DEF DoneMoves
<1>2. ASSUME dev.pc \in AfterRun PROVE dev.msg \in Answered'
  <2>1. dev.msg \in PlanReady /\ dev # Idle
    BY <1>0, <1>2, Records DEF HandlerInv, AfterRun
  <2>2. CASE dev'.pc \in AfterRun /\ dev'.msg = dev.msg
    BY <2>2 DEF Answered
  <2>3. CASE dev' = Idle
    <3>1. done' = done \cup {dev.msg}
      BY <1>2, <2>1, <2>3, DevEnds DEF AfterRun
    <3>. QED
      BY <2>1, <3>1 DEF Answered
  <2>. QED
    BY <1>0, <1>2, <2>2, <2>3 DEF DevMoves, DevGoesOn, AfterRun
<1>. QED
  BY <1>1, <1>2 DEF Answered

\* The run that starts is for a new message, or repeats one.
LEMMA ModelAnswers ==
    ASSUME IInv, [Next]_vars, CallModel
    PROVE  /\ Repeated' = 0
           /\ \/ Repeated = 1
              \/ dev.msg \notin Answered /\ dev.msg \in Answered'
<1>0. TypeOK /\ HandlerInv /\ dev.pc = "coding" /\ DevMoves
  BY AnyDevMoves DEF IInv, CallModel, At
<1>1. dev.msg \in PlanReady
  BY <1>0 DEF HandlerInv
<1>2. CASE Go("gate") /\ UNCHANGED busVars
  <2>1. dev'.pc = "gate" /\ dev'.msg = dev.msg /\ done' = done
    BY <1>0, <1>2, DevGoes DEF DevPCs, busVars
  <2>. QED
    BY <1>0, <2>1 DEF Repeated, Answered, AfterRun
<1>3. CASE DevReturns
  <2>1. dev'.pc = "idle" /\ done' = done \cup {dev.msg}
    <3>1. dev.msg # NoMessage
      BY <1>1, Naturals DEF Messages
    <3>. QED
      BY <1>3, <3>1, Records DEF DevReturns, Return, Bus!Finish
  <2>. QED
    BY <1>0, <1>1, <2>1 DEF Repeated, Answered, AfterRun
<1>. QED
  BY <1>2, <1>3 DEF CallModel

\* A message that was handled before is taken up again for a fault.
LEMMA RepeatedMoves ==
    ASSUME IInv, [Next]_vars, ~CallModel
    PROVE  Repeated' <= Repeated \/ (Repeated = 0 /\ Repeated' = 1 /\ faults' = faults + 1)
<1>0. TypeOK /\ HandlerInv /\ DoneMoves /\ DevMoves
  BY AnyBusMoves, AnyDevMoves DEF IInv
<1>1. Repeated \in {0, 1} /\ Repeated' \in {0, 1}
  BY DEF Repeated
<1>2. CASE dev' = Idle
  BY <1>1, <1>2, Records DEF Repeated
<1>3. CASE HandlePlan /\ dev.pc = "idle" /\ faults' = IF dev'.msg \in done THEN faults + 1 ELSE faults
  <2>1. Repeated = 0
    BY <1>3 DEF Repeated
  <2>2. done' = done
    BY <1>3 DEF HandlePlan, Take, Bus!Deliver
  <2>. QED
    BY <1>1, <1>3, <2>1, <2>2 DEF Repeated
<1>4. CASE /\ dev'.msg = dev.msg /\ ~(dev' = Idle)
           /\ dev'.pc \in {"start", "prep", "coding"} => dev.pc \in {"start", "prep", "coding"}
  <2>1. dev.pc \in {"start", "prep", "coding"} => dev.msg \in PlanReady
    BY <1>0 DEF HandlerInv
  <2>2. dev.pc \in {"start", "prep", "coding"} /\ dev.msg \in done' => dev.msg \in done
    <3>1. \A p \in Planners : planner[p].msg \notin PlanReady
      BY <1>0, Naturals, PipelineAssumption DEF HandlerInv, Messages
    <3>. QED
      BY <1>0, <1>4, <2>1, <3>1 DEF DoneMoves
  <2>. QED
    BY <1>1, <1>4, <2>2 DEF Repeated
<1>. QED
  BY <1>0, <1>2, <1>3, <1>4 DEF DevMoves, DevGoesOn

LEMMA NextRunsInv ==
    ASSUME IInv, [Next]_vars
    PROVE  runs' + Repeated' <= Cardinality(Answered') + faults'
<1>0. /\ TypeOK /\ TypeOK' /\ HandlerInv /\ HandlerInv'
      /\ runs + Repeated <= Cardinality(Answered) + faults
      /\ IsFiniteSet(Published) /\ IsFiniteSet(Published')
  BY NextTypeOK, NextHandlerInv, PublishedIsFinite DEF IInv, BudgetInv
<1>1. /\ Answered \subseteq Published /\ Answered' \subseteq Published'
  <2>1. dev'.pc \in AfterRun => dev'.msg \in PlanReady /\ dev'.msg # NoMessage
    BY <1>0, Naturals DEF HandlerInv, AfterRun, Messages
  <2>2. Answered' \subseteq Published'
    BY <1>0, <2>1 DEF Answered, Published, HandlerInv
  <2>. QED
    BY <1>0, <2>2, AnsweredIsPublished
<1>2. /\ IsFiniteSet(Answered) /\ IsFiniteSet(Answered')
      /\ Cardinality(Answered) \in Nat /\ Cardinality(Answered') \in Nat
  BY <1>0, <1>1, FS_Subset, FS_CardinalityType
<1>3. /\ runs \in Nat /\ runs' \in Nat /\ faults \in Nat /\ faults' \in Nat
      /\ Repeated \in {0, 1} /\ Repeated' \in {0, 1} /\ faults <= faults'
  BY <1>0, Naturals, RunsCount DEF TypeOK, Repeated
<1>4. CASE Crash
  <2>1. Answered \ {dev.msg} \subseteq Answered' /\ Repeated' = 0
    BY <1>4, Records DEF Crash, Answered, Repeated
  <2>2. Cardinality(Answered) <= Cardinality(Answered \ {dev.msg}) + 1
        /\ Cardinality(Answered \ {dev.msg}) \in Nat
    <3>. DEFINE rest == Answered \ {dev.msg}
    <3>1. IsFiniteSet(rest) /\ Cardinality(rest) \in Nat
      BY <1>2, FS_RemoveElement, FS_CardinalityType
    <3>2. CASE dev.msg \in Answered
      BY <1>2, <3>1, <3>2, FS_RemoveElement
    <3>3. CASE dev.msg \notin Answered
      <4>1. rest = Answered
        BY <3>3
      <4>. QED
        BY <1>2, <3>1, <4>1
    <3>. QED
      BY <3>2, <3>3
  <2>3. Cardinality(Answered \ {dev.msg}) <= Cardinality(Answered')
    BY <1>2, <2>1, FS_Subset
  <2>4. runs' = runs /\ faults' = faults + 1
    BY <1>0, <1>4, RunsCount
  <2>. QED
    BY <1>0, <1>2, <1>3, <2>1, <2>2, <2>3, <2>4
<1>5. CASE ~Crash /\ CallModel
  <2>1. runs' <= runs + 1
    BY <1>0, <1>3, RunsCount
  <2>2. Repeated' = 0
    BY <1>5, ModelAnswers
  <2>3. CASE Repeated = 1
    <3>1. Cardinality(Answered) <= Cardinality(Answered')
      BY <1>2, <1>5, AnsweredGrows, FS_Subset
    <3>. QED
      BY <1>0, <1>2, <1>3, <2>1, <2>2, <2>3, <3>1
  <2>4. CASE dev.msg \notin Answered /\ dev.msg \in Answered'
    <3>1. Answered \cup {dev.msg} \subseteq Answered'
      BY <1>5, <2>4, AnsweredGrows
    <3>2. Cardinality(Answered \cup {dev.msg}) = Cardinality(Answered) + 1
      BY <1>2, <2>4, FS_AddElement
    <3>3. Cardinality(Answered) + 1 <= Cardinality(Answered')
      BY <1>2, <3>1, <3>2, FS_Subset
    <3>. QED
      BY <1>0, <1>2, <1>3, <2>1, <2>2, <3>3
  <2>. QED
    BY <1>5, <2>3, <2>4, ModelAnswers
<1>6. CASE ~Crash /\ ~CallModel
  <2>1. runs' = runs
    BY <1>0, <1>6, RunsCount
  <2>2. Cardinality(Answered) <= Cardinality(Answered')
    BY <1>2, <1>6, AnsweredGrows, FS_Subset
  <2>3. Repeated' <= Repeated \/ (Repeated = 0 /\ Repeated' = 1 /\ faults' = faults + 1)
    BY <1>6, RepeatedMoves
  <2>4. CASE Repeated' <= Repeated
    BY <1>0, <1>2, <1>3, <2>1, <2>2, <2>4
  <2>5. CASE Repeated = 0 /\ Repeated' = 1 /\ faults' = faults + 1
    BY <1>0, <1>2, <1>3, <2>1, <2>2, <2>5
  <2>. QED
    BY <2>3, <2>4, <2>5
<1>. QED
  BY <1>4, <1>5, <1>6

-----------------------------------------------------------------------------
(* ... and every message its plan or its attempt.                          *)

LEMMA OneRowMore ==
    ASSUME NEW n \in Nat, NEW a \in Nat
    PROVE  /\ n * a \in Nat
           /\ n # 0 => (n - 1) * a \in Nat /\ (n - 1) * a + a = n * a
BY Z3

LEMMA AttemptsGrow ==
    ASSUME IInv, [Next]_vars
    PROVE  /\ Attempts \in Nat /\ Attempts' \in Nat /\ Attempts <= Attempts'
           /\ OwedBySweep' <= OwedBySweep \/ Attempts' = Attempts + 1
<1>0. TypeOK /\ TypeOK' /\ IdInv /\ IdInv' /\ rows \in Nat /\ rows' \in Nat /\ MaxAttempts \in Nat
      /\ TaskMoves
  BY NextTypeOK, NextIdInv, AnyTaskMoves, Naturals DEF IInv, TypeOK
<1>1. /\ task = NoTask => Attempts = rows * MaxAttempts /\ Attempts \in Nat
      /\ task # NoTask => /\ task.attempts \in Nat /\ task.attempts <= MaxAttempts /\ rows # 0
                          /\ Attempts = (rows - 1) * MaxAttempts + task.attempts
                          /\ Attempts \in Nat /\ Attempts <= rows * MaxAttempts
  <2>1. CASE task = NoTask
    BY <1>0, <2>1, OneRowMore DEF Attempts
  <2>2. CASE task # NoTask
    <3>1. task.attempts \in Nat /\ task.attempts <= MaxAttempts /\ rows # 0
      BY <1>0, <2>2 DEF TypeOK, Tasks, IdInv
    <3>2. (rows - 1) * MaxAttempts \in Nat /\ (rows - 1) * MaxAttempts + MaxAttempts = rows * MaxAttempts
      BY <1>0, <3>1, OneRowMore
    <3>3. Attempts = (rows - 1) * MaxAttempts + task.attempts
      BY <2>2 DEF Attempts
    <3>. QED
      BY <1>0, <2>2, <3>1, <3>2, <3>3
  <2>. QED
    BY <2>1, <2>2
<1>2. /\ task' = NoTask => Attempts' = rows' * MaxAttempts /\ Attempts' \in Nat
      /\ task' # NoTask => /\ task'.attempts \in Nat /\ rows' # 0
                           /\ Attempts' = (rows' - 1) * MaxAttempts + task'.attempts
                           /\ Attempts' \in Nat
  <2>1. CASE task' = NoTask
    BY <1>0, <2>1, OneRowMore DEF Attempts
  <2>2. CASE task' # NoTask
    <3>1. task'.attempts \in Nat /\ rows' # 0
      BY <1>0, <2>2 DEF TypeOK, Tasks, IdInv
    <3>2. (rows' - 1) * MaxAttempts \in Nat
      BY <1>0, <3>1, OneRowMore
    <3>3. Attempts' = (rows' - 1) * MaxAttempts + task'.attempts
      BY <2>2 DEF Attempts
    <3>. QED
      BY <1>0, <2>2, <3>1, <3>2, <3>3
  <2>. QED
    BY <2>1, <2>2
<1>3. Attempts <= Attempts'
  <2>1. CASE task' = task /\ rows' = rows
    BY <1>1, <1>2, <2>1
  <2>2. CASE Insert /\ task = NoTask /\ task' = NewTask(rows + 1) /\ rows' = rows + 1
    <3>1. task' # NoTask /\ task'.attempts = 0
      BY <1>0, <2>2, NewTaskIsTask, Records DEF Insert, TypeOK
    <3>2. rows' - 1 = rows
      BY <1>0, <2>2
    <3>3. Attempts' = rows * MaxAttempts + 0
      BY <1>2, <3>1, <3>2
    <3>. QED
      BY <1>1, <2>2, <3>3
  <2>3. CASE Reset /\ task' = NoTask /\ rows' = rows
    <3>1. Attempts' = rows * MaxAttempts
      BY <1>2, <2>3
    <3>. QED
      BY <1>1, <3>1
  <2>4. CASE SameRow
    <3>1. /\ task # NoTask /\ task' # NoTask /\ rows' = rows
          /\ task'.attempts = task.attempts \/ task'.attempts = task.attempts + 1
      BY <2>4, Records DEF SameRow
    <3>2. (rows - 1) * MaxAttempts \in Nat
      BY <1>0, <1>1, <3>1, OneRowMore
    <3>. QED
      BY <1>1, <1>2, <3>1, <3>2
  <2>. QED
    BY <1>0, <2>1, <2>2, <2>3, <2>4 DEF TaskMoves
<1>4. OwedBySweep' <= OwedBySweep \/ Attempts' = Attempts + 1
  <2>1. SweepMoves
    BY <1>0, AnySweepMoves
  <2>2. OwedBySweep \in {0, 1}
    BY DEF OwedBySweep
  <2>3. CASE sweep' = sweep
    BY <2>2, <2>3 DEF OwedBySweep
  <2>4. CASE sweep'.pc # "publish"
    BY <2>2, <2>4 DEF OwedBySweep
  <2>5. CASE task \in Tasks /\ ClaimAttempt /\ task' = [task EXCEPT !.attempts = @ + 1, !.stale = FALSE]
    <3>1. task # NoTask /\ task'.attempts = task.attempts + 1 /\ rows' = rows
      BY <2>5, Records DEF Tasks, ClaimAttempt, envVars
    <3>2. task' # NoTask
      BY <2>5 DEF Tasks, NoTask
    <3>3. (rows - 1) * MaxAttempts \in Nat
      BY <1>0, <1>1, <3>1, OneRowMore
    <3>. QED
      BY <1>1, <1>2, <3>1, <3>2, <3>3
  <2>. QED
    BY <2>1, <2>3, <2>4, <2>5, Records DEF SweepMoves
<1>. QED
  BY <1>1, <1>2, <1>3, <1>4

\* A planner owes a message from the moment it saved its plan.
LEMMA OwedMoves ==
    ASSUME TypeOK, [Next]_vars, NEW p \in Planners
    PROVE  /\ Owed(p) \in {0, 1} /\ Owed(p)' \in {0, 1}
           /\ \/ Owed(p)' <= Owed(p)
              \/ plans' = plans + 1 /\ sweep' = sweep /\ Alone(p)
<1>1. Owed(p) \in {0, 1} /\ Owed(p)' \in {0, 1}
  BY DEF Owed
<1>2. CASE SavePlan(p)
  <2>1. plans' = plans + 1 /\ sweep' = sweep
    BY <1>2 DEF SavePlan, envVars
  <2>2. Alone(p)
    BY <1>2, RunStep DEF SavePlan, PlannerPCs
  <2>. QED
    BY <1>1, <2>1, <2>2
<1>3. CASE ~SavePlan(p)
  <2>1. PlannerMoves(p)
    BY AnyPlannerMoves
  <2>2. CASE SetReady(p)
    BY <1>1, <2>2 DEF SetReady, Owed
  <2>3. CASE planner'[p] = planner[p]
    BY <1>1, <2>3 DEF Owed
  <2>4. CASE planner'[p].pc \notin {"ready", "publish"}
    BY <1>1, <2>4 DEF Owed
  <2>. QED
    BY <1>3, <2>1, <2>2, <2>3, <2>4, Records DEF PlannerMoves, GoesOn
<1>. QED
  BY <1>2, <1>3

LEMMA NextPublishedInv ==
    ASSUME IInv, [Next]_vars
    PROVE  Cardinality(Published') + Owed("inbox")' + Owed("coalescer")' + OwedBySweep'
             <= plans' + Attempts'
<1>0. /\ TypeOK /\ IsFiniteSet(Published) /\ "inbox" \in Planners /\ "coalescer" \in Planners
      /\ Cardinality(Published) + Owed("inbox") + Owed("coalescer") + OwedBySweep <= plans + Attempts
  BY DEF IInv, BudgetInv, Planners
<1>1. /\ Cardinality(Published) \in Nat /\ Cardinality(Published') \in Nat
      /\ plans \in Nat /\ plans' \in Nat /\ Attempts \in Nat /\ Attempts' \in Nat
      /\ OwedBySweep \in {0, 1} /\ OwedBySweep' \in {0, 1}
  BY <1>0, PublishedIsFinite, FS_CardinalityType, NextTypeOK, AttemptsGrow DEF TypeOK, OwedBySweep
<1>2. plans <= plans' /\ Attempts <= Attempts'
  <2>1. plans' = plans \/ plans' = plans + 1
    BY Observed
  <2>. QED
    BY <1>1, <2>1, AttemptsGrow
<1>3. /\ Owed("inbox") \in {0, 1} /\ Owed("inbox")' \in {0, 1}
      /\ Owed("coalescer") \in {0, 1} /\ Owed("coalescer")' \in {0, 1}
  BY <1>0, OwedMoves
<1>4. CASE Published' = Published
  <2>1. CASE /\ Owed("inbox")' <= Owed("inbox") /\ Owed("coalescer")' <= Owed("coalescer")
             /\ OwedBySweep' <= OwedBySweep
    BY <1>0, <1>1, <1>2, <1>3, <1>4, <2>1
  <2>2. CASE /\ Owed("inbox")' <= Owed("inbox") /\ Owed("coalescer")' <= Owed("coalescer")
             /\ Attempts' = Attempts + 1
    BY <1>0, <1>1, <1>2, <1>3, <1>4, <2>2
  <2>3. CASE plans' = plans + 1 /\ sweep' = sweep /\ Alone("inbox")
    <3>1. Owed("coalescer")' = Owed("coalescer") /\ OwedBySweep' = OwedBySweep
      BY <1>0, <2>3 DEF Alone, Owed, OwedBySweep
    <3>. QED
      BY <1>0, <1>1, <1>2, <1>3, <1>4, <2>3, <3>1
  <2>4. CASE plans' = plans + 1 /\ sweep' = sweep /\ Alone("coalescer")
    <3>1. Owed("inbox")' = Owed("inbox") /\ OwedBySweep' = OwedBySweep
      BY <1>0, <2>4 DEF Alone, Owed, OwedBySweep
    <3>. QED
      BY <1>0, <1>1, <1>2, <1>3, <1>4, <2>4, <3>1
  <2>. QED
    BY <1>0, <2>1, <2>2, <2>3, <2>4, OwedMoves, AttemptsGrow
<1>5. ASSUME NEW x \in PlanReady \ Published, Published' = Published \cup {x}
      PROVE  Cardinality(Published') = Cardinality(Published) + 1
  BY <1>0, <1>5, FS_AddElement
<1>6. ASSUME NEW p \in Planners, planner[p].pc = "publish", GoesOn(p, "told"), Alone(p),
             sweep' = sweep, Cardinality(Published') = Cardinality(Published) + 1
      PROVE  Cardinality(Published') + Owed("inbox")' + Owed("coalescer")' + OwedBySweep'
               <= plans' + Attempts'
  <2>1. Owed(p) = 1 /\ Owed(p)' = 0 /\ OwedBySweep' = OwedBySweep
    BY <1>6 DEF Owed, GoesOn, OwedBySweep
  <2>2. CASE p = "inbox"
    <3>1. Owed("coalescer")' = Owed("coalescer")
      BY <1>0, <1>6, <2>2 DEF Alone, Owed
    <3>. QED
      BY <1>0, <1>1, <1>2, <1>3, <1>6, <2>1, <2>2, <3>1
  <2>3. CASE p = "coalescer"
    <3>1. Owed("inbox")' = Owed("inbox")
      BY <1>0, <1>6, <2>3 DEF Alone, Owed
    <3>. QED
      BY <1>0, <1>1, <1>2, <1>3, <1>6, <2>1, <2>3, <3>1
  <2>. QED
    BY <2>2, <2>3 DEF Planners
<1>7. ASSUME sweep.pc = "publish", sweep.topic = "plan", sweep' = NoSweep, planner' = planner,
             Cardinality(Published') = Cardinality(Published) + 1
      PROVE  Cardinality(Published') + Owed("inbox")' + Owed("coalescer")' + OwedBySweep'
               <= plans' + Attempts'
  <2>1. OwedBySweep = 1 /\ OwedBySweep' = 0
    BY <1>7, Records DEF OwedBySweep
  <2>2. Owed("inbox")' = Owed("inbox") /\ Owed("coalescer")' = Owed("coalescer")
    BY <1>7 DEF Owed
  <2>. QED
    BY <1>0, <1>1, <1>2, <1>3, <1>7, <2>1, <2>2
<1>. QED
  BY <1>0, <1>4, <1>5, <1>6, <1>7, PublishedGrows

LEMMA NextBudgetInv == ASSUME IInv, [Next]_vars PROVE BudgetInv'
BY PublishedIsFinite, NextRunsInv, NextPublishedInv DEF BudgetInv

-----------------------------------------------------------------------------
(* Theorems.                                                               *)

LEMMA InitIInv == ASSUME Init PROVE IInv
<1>. USE Naturals, Records DEF Init
<1>1. TypeOK
  <2>1. Idle \in RunsAt(PlannerPCs) /\ Idle \in RunsAt(DevPCs)
    BY DEF PlannerPCs, DevPCs
  <2>2. Bus!TypeOK
    BY DEF Bus!Init, Bus!TypeOK, Bus!Statuses
  <2>3. /\ planner \in [Planners -> RunsAt(PlannerPCs)] /\ dev \in RunsAt(DevPCs)
        /\ mrs \in [1 .. MaxMRs -> MergeRequests]
    BY <2>1
  <2>4. /\ rows \in 0 .. MaxRows /\ epoch \in 0 .. MaxResets
        /\ faults \in 0 .. MaxFaults /\ touches \in 0 .. MaxTouches
    OBVIOUS
  <2>. QED
    BY <2>2, <2>3, <2>4 DEF TypeOK
<1>2. IdInv /\ StepInv
  <2>1. IdInv
    BY DEF IdInv
  <2>2. "inbox" \in Planners /\ \A p \in Planners : ~Unspent(p)
    BY DEF Planners, Unspent
  <2>. QED
    BY <2>1, <2>2 DEF StepInv
<1>3. HandlerInv
  BY DEF HandlerInv, Bus!Init, Planners
<1>4. BackedInv
  BY DEF BackedInv, StatusIsBacked, MROpenIsRecorded, CodingHasPlan, InStatus, Prepared, HasRow
<1>5. OneInv
  BY DEF OneInv, OpenRow, Prepared
<1>6. BudgetInv
  <2>1. Published = {} /\ Answered = {}
    BY DEF Published, Answered, AfterRun, Bus!Init, Messages
  <2>2. IsFiniteSet({}) /\ Cardinality({}) = 0
    BY FS_EmptySet
  <2>3. Repeated = 0 /\ OwedBySweep = 0 /\ Attempts = 0
    <3>1. 0 * MaxAttempts = 0
      BY Z3
    <3>. QED
      BY <3>1 DEF Repeated, OwedBySweep, Attempts
  <2>4. Owed("inbox") = 0 /\ Owed("coalescer") = 0
    BY DEF Owed, Planners
  <2>. QED
    BY <2>1, <2>2, <2>3, <2>4 DEF BudgetInv
<1>. QED
  BY <1>1, <1>2, <1>3, <1>4, <1>5, <1>6 DEF IInv

\* The invariant holds of every behaviour of the code, by induction over its
\* steps.
THEOREM Inductive == Spec => []IInv
<1>1. Init => IInv
  BY InitIInv
<1>2. IInv /\ [Next]_vars => IInv'
  BY NextTypeOK, NextIdInv, NextStepInv, NextHandlerInv, NextBackedInv, NextOneInv,
     NextBudgetInv DEF IInv
<1>. QED
  BY <1>1, <1>2, PTL DEF Spec

\* Every variable keeps its type; a task row's steps stay below the budget and
\* the one more that two planners with a stale row may count.
THEOREM TypeCorrect == Spec => []TypeOK
<1>1. IInv => TypeOK
  BY DEF IInv
<1>. QED
  BY <1>1, Inductive, PTL

\* A ticket never has two open merge requests on record, however often
\* plan.ready is published and delivered, in _handle_plan_locked.
THEOREM NoSecondMR == Spec => []OneOpenMR
<1>1. IInv => OneOpenMR
  <2>1. SUFFICES ASSUME IInv PROVE OneOpenMR
    OBVIOUS
  <2>. DEFINE open == {i \in 1 .. MaxMRs : mrs[i].row = "open"}
  <2>2. \A i, j \in open : i = j
    BY <2>1 DEF IInv, OneInv
  <2>3. CASE open = {}
    BY <2>3, FS_EmptySet DEF OneOpenMR
  <2>4. ASSUME NEW i \in open PROVE OneOpenMR
    <3>1. open = {i}
      BY <2>2
    <3>2. Cardinality({i}) = 1
      BY FS_Singleton
    <3>. QED
      BY <3>1, <3>2 DEF OneOpenMR
  <2>. QED
    BY <2>3, <2>4
<1>. QED
  BY <1>1, Inductive, PTL

\* A ticket that says CODING or MR_OPEN has its plan, and one that says MR_OPEN
\* its merge request, whatever stale runs write after a reset or a crash.
THEOREM StatusHasBacking == Spec => []StatusIsBacked
<1>1. IInv => StatusIsBacked
  BY DEF IInv, BackedInv
<1>. QED
  BY <1>1, Inductive, PTL

\* The model runs of the Dev-agent are paid for by a plan, by an attempt of a
\* task row, or by a fault: the sweep runs no ticket for ever.
THEOREM BudgetHolds == Spec => []RunsAreBudgeted
<1>1. IInv => RunsAreBudgeted
  <2>1. SUFFICES ASSUME IInv PROVE RunsAreBudgeted
    OBVIOUS
  <2>2. /\ TypeOK /\ HandlerInv /\ IdInv /\ IsFiniteSet(Published)
        /\ runs + Repeated <= Cardinality(Answered) + faults
        /\ Cardinality(Published) + Owed("inbox") + Owed("coalescer") + OwedBySweep <= plans + Attempts
    BY <2>1 DEF IInv, BudgetInv
  <2>3. /\ Cardinality(Answered) <= Cardinality(Published)
        /\ Cardinality(Answered) \in Nat /\ Cardinality(Published) \in Nat
    BY <2>2, AnsweredIsPublished, FS_Subset, FS_CardinalityType
  <2>4. Repeated \in {0, 1} /\ Owed("inbox") \in {0, 1} /\ Owed("coalescer") \in {0, 1}
        /\ OwedBySweep \in {0, 1}
    BY DEF Repeated, Owed, OwedBySweep
  <2>5. rows \in Nat /\ MaxAttempts \in Nat /\ rows * MaxAttempts \in Nat
    BY <2>2, Naturals, OneRowMore DEF TypeOK
  <2>6. Attempts \in Nat /\ Attempts <= rows * MaxAttempts
    <3>1. CASE task = NoTask
      BY <2>5, <3>1 DEF Attempts
    <3>2. CASE task # NoTask
      <4>1. rows # 0 /\ task.attempts \in Nat /\ task.attempts <= MaxAttempts
        BY <2>2, <2>5, <3>2 DEF TypeOK, Tasks, IdInv
      <4>2. (rows - 1) * MaxAttempts \in Nat /\ (rows - 1) * MaxAttempts + MaxAttempts = rows * MaxAttempts
        BY <2>5, <4>1, OneRowMore
      <4>3. Attempts = (rows - 1) * MaxAttempts + task.attempts
        BY <3>2 DEF Attempts
      <4>. QED
        BY <2>5, <4>1, <4>2, <4>3
    <3>. QED
      BY <3>1, <3>2
  <2>7. runs \in Nat /\ faults \in Nat /\ plans \in Nat
    BY <2>2, Naturals DEF TypeOK
  <2>. QED
    BY <2>2, <2>3, <2>4, <2>5, <2>6, <2>7 DEF RunsAreBudgeted
<1>. QED
  BY <1>1, Inductive, PTL

-----------------------------------------------------------------------------
(* Merge requests without a record.                                        *)

\* The merge requests are numbered in the order in which they were made.
Latest(i) == mrs[i].vcs # "none" /\ \A j \in i + 1 .. MaxMRs : mrs[j].vcs = "none"

\* The run that is about to record its merge request made it, and it is the latest.
Making == dev.pc = "persist" /\ dev.from = epoch

\* Every merge request was made in this epoch or an earlier one, and whoever is
\* about to record one finds it the latest and without a record.
OrphanInv ==
    /\ OrphansAreFaults
    /\ \A i, j \in 1 .. MaxMRs : i < j /\ mrs[i].vcs = "none" => mrs[j].vcs = "none"
    /\ \A i \in 1 .. MaxMRs : mrs[i].vcs # "none" => mrs[i].from <= epoch
    /\ dev.pc \in Checked => dev.from <= epoch
    /\ dev.pc = "persist" =>
         \E i \in 1 .. MaxMRs : Latest(i) /\ mrs[i].row = "none" /\ mrs[i].from = dev.from

LEMMA OrphansFinite ==
    ASSUME TypeOK
    PROVE  IsFiniteSet(Orphans) /\ Cardinality(Orphans) \in Nat
<1>1. IsFiniteSet(1 .. MaxMRs)
  BY Naturals, FS_Interval
<1>2. Orphans \in SUBSET (1 .. MaxMRs)
  BY DEF Orphans
<1>. QED
  BY <1>1, <1>2, FS_Subset, FS_CardinalityType

\* There is one latest merge request.
LEMMA LatestIsOne ==
    ASSUME NEW i \in 1 .. MaxMRs, NEW j \in 1 .. MaxMRs, Latest(i), Latest(j)
    PROVE  i = j
<1>1. MaxMRs \in Nat
  BY Naturals
<1>2. ~(i < j) /\ ~(j < i)
  BY <1>1 DEF Latest
<1>. QED
  BY <1>1, <1>2

\* Faults only grow, and an epoch begins with a reset.
LEMMA FaultsGrow ==
    ASSUME TypeOK, [Next]_vars
    PROVE  /\ faults \in Nat /\ faults' \in Nat /\ faults <= faults'
           /\ epoch' = epoch \/ (Reset /\ epoch' = epoch + 1)
           /\ Crash => faults' = faults + 1
<1>1. faults' = faults \/ faults' = faults + 1
  BY DEF Next, vars, envVars, Insert, Touch, Dispatch, Handle, Load, SetPlanning, Resume, FindOverdue, Planner,
     Enter, StartRun, Discard, Ask, Terminate, Submit, SavePlan, SetReady, PublishPlan, Told, GiveUp,
     HandlePlan, Take, WikiDown, Dev, Precheck, PrepareBranch, CallModel, ResetGate, Push,
     CreateMergeRequest, PersistMR, OpenMR, Age, Recovery, FindStuck, CheckPlan, ClaimAttempt,
     Republish, Ack, Reset, CloseMR, SeeClosed, Crash
<1>2. epoch' = epoch \/ (Reset /\ epoch' = epoch + 1)
  BY DEF Next, vars, envVars, Insert, Touch, Dispatch, Handle, Load, SetPlanning, Resume, FindOverdue, Planner,
     Enter, StartRun, Discard, Ask, Terminate, Submit, SavePlan, SetReady, PublishPlan, Told, GiveUp,
     HandlePlan, WikiDown, Dev, Precheck, PrepareBranch, CallModel, ResetGate, Push,
     CreateMergeRequest, PersistMR, OpenMR, Age, Recovery, FindStuck, CheckPlan, ClaimAttempt,
     Republish, Ack, Reset, CloseMR, SeeClosed, Crash
<1>3. faults \in Nat
  BY Naturals DEF TypeOK
<1>. QED
  BY <1>1, <1>2, <1>3 DEF Crash

\* What is not the creation, the recording or a reset leaves the orphans as they are.
LEMMA OrphansStay ==
    ASSUME TypeOK, BackedInv, [Next]_vars, ~Reset, ~CreateMergeRequest, ~PersistMR
    PROVE  /\ Orphans' = Orphans
           /\ \A i \in 1 .. MaxMRs :
                /\ mrs'[i].vcs = "none" <=> mrs[i].vcs = "none"
                /\ mrs'[i].from = mrs[i].from /\ (mrs'[i].row = "none" <=> mrs[i].row = "none")
<1>1. UNCHANGED mrs \/ CloseMR \/ SeeClosed
  BY DEF Next, vars, rowVars, Insert, Touch, Dispatch, Handle, Load, SetPlanning, Resume, FindOverdue,
     Planner, Enter, StartRun, Discard, Ask, Terminate, Submit, SavePlan, SetReady, PublishPlan, Told,
     GiveUp, HandlePlan, WikiDown, Dev, Precheck, PrepareBranch, CallModel, ResetGate, Push, OpenMR,
     Age, Recovery, FindStuck, CheckPlan, ClaimAttempt, Republish, Ack, Crash
<1>2. ASSUME NEW i \in 1 .. MaxMRs
      PROVE  /\ mrs'[i].vcs = "none" <=> mrs[i].vcs = "none"
             /\ mrs'[i].from = mrs[i].from /\ (mrs'[i].row = "none" <=> mrs[i].row = "none")
  <2>1. CASE UNCHANGED mrs
    BY <2>1
  <2>2. CASE CloseMR
    BY <2>2 DEF CloseMR, TypeOK, MergeRequests
  <2>3. CASE SeeClosed
    BY <2>3 DEF SeeClosed, TypeOK, MergeRequests
  <2>. QED
    BY <1>1, <2>1, <2>2, <2>3
<1>3. epoch' = epoch
  BY FaultsGrow
<1>. QED
  BY <1>2, <1>3 DEF Orphans

\* The run that is about to record its merge request accounts for one.
Unrecorded == IF Making THEN 1 ELSE 0

LEMMA OrphanCount == OrphansAreFaults <=> Cardinality(Orphans) <= faults + Unrecorded
BY DEF OrphansAreFaults, Unrecorded, Making, At

\* A merge request more is an orphan more, of this epoch or of none.
LEMMA CreateMakesOne ==
    ASSUME IInv, OrphanInv, [Next]_vars, CreateMergeRequest, ~UNCHANGED mrs
    PROVE  /\ dev.pc = "create" /\ epoch' = epoch
           /\ Cardinality(Orphans') <= Cardinality(Orphans) + (IF dev.from = epoch THEN 1 ELSE 0)
           /\ \E i \in 1 .. MaxMRs : Latest(i)' /\ mrs'[i].row = "none" /\ mrs'[i].from = dev.from
<1>0. TypeOK /\ MaxMRs \in Nat /\ dev.pc = "create" /\ epoch' = epoch
  BY Naturals DEF IInv, CreateMergeRequest, At
<1>. DEFINE r == [row |-> "none", vcs |-> "open", from |-> dev.from]
<1>1. PICK i \in 1 .. MaxMRs :
         mrs[i].vcs = "none" /\ (\A j \in 1 .. i - 1 : mrs[j].vcs # "none") /\ mrs' = [mrs EXCEPT ![i] = r]
  BY DEF CreateMergeRequest
<1>2. r.row = "none" /\ r.vcs = "open" /\ r.from = dev.from
  OBVIOUS
<1>. HIDE DEF r
<1>3. mrs'[i] = r /\ \A j \in 1 .. MaxMRs : j # i => mrs'[j] = mrs[j]
  BY <1>0, <1>1 DEF TypeOK
<1>4. Orphans' = IF dev.from = epoch THEN Orphans \cup {i} ELSE Orphans
  BY <1>0, <1>1, <1>2, <1>3 DEF Orphans
<1>5. Cardinality(Orphans') <= Cardinality(Orphans) + (IF dev.from = epoch THEN 1 ELSE 0)
  <2>1. IsFiniteSet(Orphans) /\ Cardinality(Orphans) \in Nat
    BY <1>0, OrphansFinite
  <2>2. i \notin Orphans
    BY <1>1 DEF Orphans
  <2>3. Cardinality(Orphans \cup {i}) = Cardinality(Orphans) + 1
    BY <2>1, <2>2, FS_AddElement
  <2>. QED
    BY <1>4, <2>1, <2>3
<1>6. \A j \in i + 1 .. MaxMRs : mrs'[j].vcs = "none"
  BY <1>0, <1>1, <1>3 DEF OrphanInv
<1>. QED
  BY <1>0, <1>2, <1>3, <1>5, <1>6 DEF Latest

\* The row takes the one that the Dev-agent made off the orphans.
LEMMA PersistRecordsOne ==
    ASSUME IInv, OrphanInv, [Next]_vars, PersistMR, Go("open")
    PROVE  /\ dev.pc = "persist" /\ epoch' = epoch
           /\ Cardinality(Orphans') + Unrecorded <= Cardinality(Orphans)
<1>0. /\ TypeOK /\ MaxMRs \in Nat /\ dev.pc = "persist" /\ epoch' = epoch
      /\ IsFiniteSet(Orphans) /\ Cardinality(Orphans) \in Nat
  BY Naturals, OrphansFinite DEF IInv, PersistMR, At, envVars
<1>1. PICK i \in 1 .. MaxMRs : Latest(i) /\ mrs' = [mrs EXCEPT ![i].row = "open"]
  <2>1. dev'.pc = "open"
    BY <1>0, DevGoes DEF DevPCs
  <2>. QED
    BY <2>1, Records DEF PersistMR, DevReturns, Latest
<1>2. PICK k \in 1 .. MaxMRs : Latest(k) /\ mrs[k].row = "none" /\ mrs[k].from = dev.from
  BY <1>0 DEF OrphanInv
<1>3. k = i
  BY <1>1, <1>2, LatestIsOne
<1>4. /\ mrs'[i].row = "open"
      /\ \A j \in 1 .. MaxMRs : j # i => mrs'[j] = mrs[j]
  BY <1>0, <1>1 DEF TypeOK, MergeRequests
<1>5. Orphans' = Orphans \ {i}
  BY <1>0, <1>4 DEF Orphans
<1>6. CASE dev.from = epoch
  <2>1. i \in Orphans
    BY <1>2, <1>3, <1>6 DEF Orphans, Latest
  <2>2. Cardinality(Orphans \ {i}) = Cardinality(Orphans) - 1
    BY <1>0, <2>1, FS_RemoveElement
  <2>. QED
    BY <1>0, <1>5, <2>2 DEF Unrecorded
<1>7. CASE dev.from # epoch
  <2>1. i \notin Orphans
    BY <1>2, <1>3, <1>7 DEF Orphans
  <2>2. Orphans' = Orphans
    BY <1>5, <2>1
  <2>. QED
    BY <1>0, <1>7, <2>2 DEF Unrecorded, Making
<1>. QED
  BY <1>0, <1>6, <1>7

\* A reset leaves nothing of its own time line behind.
LEMMA ResetHasNone ==
    ASSUME IInv, OrphanInv, [Next]_vars, Reset
    PROVE  /\ Orphans' = {} /\ dev' = dev /\ epoch' = epoch + 1
           /\ \A i \in 1 .. MaxMRs :
                mrs'[i].vcs = mrs[i].vcs /\ mrs'[i].from = mrs[i].from /\ mrs'[i].row = "none"
<1>0. TypeOK /\ dev' = dev /\ epoch' = epoch + 1 /\ epoch \in Nat
  BY Naturals DEF IInv, TypeOK, Reset
<1>1. mrs' = [i \in 1 .. MaxMRs |-> [mrs[i] EXCEPT !.row = "none"]]
  BY DEF Reset
<1>2. \A i \in 1 .. MaxMRs :
         mrs'[i].vcs = mrs[i].vcs /\ mrs'[i].from = mrs[i].from /\ mrs'[i].row = "none"
  BY <1>0, <1>1 DEF TypeOK, MergeRequests
<1>3. \A i \in 1 .. MaxMRs : mrs[i].from \in Nat
  BY <1>0, Naturals DEF TypeOK, MergeRequests
<1>4. Orphans' = {}
  <2>1. \A i \in 1 .. MaxMRs : mrs[i].vcs # "none" => mrs[i].from # epoch + 1
    BY <1>0, <1>3 DEF OrphanInv
  <2>. QED
    BY <1>0, <1>2, <2>1 DEF Orphans
<1>. QED
  BY <1>0, <1>2, <1>4

\* The merge requests of a time line are made one after the other.
LEMMA NextInARow ==
    ASSUME IInv, OrphanInv, [Next]_vars,
           NEW i \in 1 .. MaxMRs, NEW j \in 1 .. MaxMRs, i < j, mrs'[i].vcs = "none"
    PROVE  mrs'[j].vcs = "none"
<1>0. TypeOK /\ mrs[i].vcs = "none" /\ i \in Nat /\ j \in Nat
  BY AnyMRMoves, Naturals DEF IInv, MRMoves, SameMR
<1>1. mrs[j].vcs = "none"
  BY <1>0 DEF OrphanInv
<1>2. CASE CreateMergeRequest /\ ~UNCHANGED mrs
  <2>1. PICK k \in 1 .. MaxMRs :
           /\ \A l \in 1 .. k - 1 : mrs[l].vcs # "none"
           /\ mrs' = [mrs EXCEPT ![k] = [row |-> "none", vcs |-> "open",
                                         from |-> dev.from]]
    BY <1>2 DEF CreateMergeRequest
  <2>2. j # k
    BY <1>0, <2>1, Naturals
  <2>. QED
    BY <1>0, <1>1, <2>1, <2>2 DEF TypeOK
<1>3. CASE UNCHANGED mrs
  BY <1>1, <1>3
<1>4. CASE Reset
  BY <1>1, <1>4, ResetHasNone
<1>5. CASE PersistMR /\ ~UNCHANGED mrs
  <2>1. PICK k \in 1 .. MaxMRs : mrs[k].vcs # "none" /\ mrs' = [mrs EXCEPT ![k].row = "open"]
    BY <1>5 DEF PersistMR
  <2>. QED
    BY <1>0, <1>1, <2>1 DEF TypeOK
<1>. QED
  BY <1>0, <1>1, <1>2, <1>3, <1>4, <1>5, OrphansStay DEF IInv

\* Where the Dev-agent's run comes to record its merge request, and what it does then.
LEMMA RecordSteps ==
    ASSUME IInv, OrphanInv, [Next]_vars
    PROVE  /\ dev'.pc \in Checked => dev'.from <= epoch'
           /\ dev'.pc = "persist" =>
                \E i \in 1 .. MaxMRs : Latest(i)' /\ mrs'[i].row = "none" /\ mrs'[i].from = dev'.from
<1>0. TypeOK /\ DevMoves /\ epoch \in Nat /\ (epoch' = epoch \/ epoch' = epoch + 1)
  BY AnyDevMoves, FaultsGrow, Naturals DEF IInv, TypeOK
<1>1. ASSUME dev'.pc \in Checked PROVE dev'.from <= epoch'
  <2>1. CASE dev' = dev \/ (dev.pc \in Checked /\ dev'.from = dev.from)
    <3>1. dev.from <= epoch /\ dev'.from = dev.from /\ dev.from \in Nat
      BY <1>0, <1>1, <2>1, Naturals DEF OrphanInv, TypeOK, RunsAt
    <3>. QED
      BY <1>0, <3>1
  <2>2. CASE dev'.from = epoch
    BY <1>0, <2>2
  <2>. QED
    BY <1>0, <1>1, <2>1, <2>2, Records DEF DevMoves, DevGoesOn, Checked
<1>2. ASSUME dev'.pc = "persist"
      PROVE  \E i \in 1 .. MaxMRs : Latest(i)' /\ mrs'[i].row = "none" /\ mrs'[i].from = dev'.from
  <2>1. (dev' = dev /\ dev.pc = "persist") \/ (CreateMergeRequest /\ DevGoesOn("create", "persist")
                                               /\ dev'.from = dev.from)
    BY <1>0, <1>2, Records DEF DevMoves, DevGoesOn
  <2>2. CASE dev' = dev /\ dev.pc = "persist"
    <3>1. PICK i \in 1 .. MaxMRs : Latest(i) /\ mrs[i].row = "none" /\ mrs[i].from = dev.from
      BY <2>2 DEF OrphanInv
    <3>2. ~CreateMergeRequest
      BY <2>2 DEF CreateMergeRequest, At
    <3>3. ~PersistMR
      BY <1>0, <2>2, DevGoes, Records DEF PersistMR, DevReturns, DevPCs
    <3>4. /\ mrs'[i].from = mrs[i].from /\ mrs'[i].row = "none"
          /\ \A j \in 1 .. MaxMRs : mrs'[j].vcs = "none" <=> mrs[j].vcs = "none"
      BY <1>0, <3>1, <3>2, <3>3, OrphansStay, ResetHasNone DEF IInv
    <3>5. \A j \in i + 1 .. MaxMRs : j \in 1 .. MaxMRs
      BY Naturals
    <3>6. Latest(i)'
      BY <3>1, <3>4, <3>5 DEF Latest
    <3>. QED
      BY <2>2, <3>1, <3>4, <3>6
  <2>3. CASE CreateMergeRequest /\ DevGoesOn("create", "persist") /\ dev'.from = dev.from
    <3>1. ~UNCHANGED mrs
      BY <1>0, <1>2, <2>3, Records DEF CreateMergeRequest, DevReturns, TypeOK, MergeRequests
    <3>. QED
      BY <2>3, <3>1, CreateMakesOne
  <2>. QED
    BY <2>1, <2>2, <2>3
<1>. QED
  BY <1>1, <1>2

\* The count, action by action.
LEMMA OrphansArePaid ==
    ASSUME IInv, OrphanInv, [Next]_vars
    PROVE  OrphansAreFaults'
<1>0. /\ TypeOK /\ BackedInv /\ DevMoves
      /\ faults \in Nat /\ faults' \in Nat /\ faults <= faults'
      /\ Cardinality(Orphans) \in Nat /\ Cardinality(Orphans') \in Nat
      /\ Cardinality(Orphans) <= faults + Unrecorded
      /\ Unrecorded \in {0, 1} /\ Unrecorded' \in {0, 1}
  <2>1. TypeOK /\ BackedInv /\ OrphansAreFaults
    BY DEF IInv, OrphanInv
  <2>2. Cardinality(Orphans') \in Nat
    <3>1. IsFiniteSet(1 .. MaxMRs) /\ Orphans' \in SUBSET (1 .. MaxMRs)
      BY Naturals, FS_Interval DEF Orphans
    <3>. QED
      BY <3>1, FS_Subset, FS_CardinalityType
  <2>. QED
    BY <2>1, <2>2, AnyDevMoves, FaultsGrow, OrphansFinite, OrphanCount DEF Unrecorded
<1>1. SUFFICES Cardinality(Orphans') <= faults' + Unrecorded'
  BY DEF OrphansAreFaults, Unrecorded, Making, At
<1>2. CASE Reset
  <2>1. Cardinality(Orphans') = 0
    BY <1>2, ResetHasNone, FS_EmptySet
  <2>2. Unrecorded' = 0 \/ Unrecorded' = 1
    BY DEF Unrecorded
  <2>3. faults' \in Nat
    BY <1>0
  <2>. QED
    BY <2>1, <2>2, <2>3
<1>3. CASE PersistMR
  <2>1. CASE Go("open")
    BY <1>0, <1>3, <2>1, PersistRecordsOne
  <2>2. CASE UNCHANGED mrs /\ faults' = faults + 1
    <3>1. Orphans' = Orphans
      BY <1>3, <2>2 DEF Orphans, PersistMR
    <3>. QED
      BY <1>0, <2>2, <3>1
  <2>. QED
    BY <1>3, <2>1, <2>2 DEF PersistMR
<1>4. CASE CreateMergeRequest
  <2>1. dev.pc = "create" /\ Unrecorded = 0 /\ epoch' = epoch
    BY <1>4 DEF CreateMergeRequest, At, Unrecorded, Making
  <2>2. CASE UNCHANGED mrs
    BY <1>0, <2>1, <2>2 DEF Orphans
  <2>3. CASE ~UNCHANGED mrs
    <3>1. Cardinality(Orphans') <= Cardinality(Orphans) + (IF dev.from = epoch THEN 1 ELSE 0)
      BY <1>4, <2>3, CreateMakesOne
    <3>2. Go("persist") \/ faults' = faults + 1
      BY <1>4, <2>3 DEF CreateMergeRequest
    <3>3. CASE Go("persist")
      <4>1. dev'.pc = "persist" /\ dev'.from = dev.from
        BY <1>0, <3>3, DevGoes DEF DevPCs
      <4>2. Unrecorded' = IF dev.from = epoch THEN 1 ELSE 0
        BY <2>1, <4>1 DEF Unrecorded, Making
      <4>. QED
        BY <1>0, <2>1, <3>1, <4>2
    <3>4. CASE faults' = faults + 1
      BY <1>0, <2>1, <3>1, <3>4
    <3>. QED
      BY <3>2, <3>3, <3>4
  <2>. QED
    BY <2>2, <2>3
<1>5. CASE ~Reset /\ ~PersistMR /\ ~CreateMergeRequest
  <2>1. Orphans' = Orphans /\ epoch' = epoch
    BY <1>0, <1>5, OrphansStay, FaultsGrow
  <2>2. Crash => faults' = faults + 1
    BY FaultsGrow, <1>0
  <2>3. CASE Crash
    BY <1>0, <2>1, <2>2, <2>3
  <2>4. CASE ~Crash
    <3>1. dev.pc = "persist" => dev' = dev
      BY <1>5, <2>4 DEF Next, vars, Insert, Touch, Dispatch, Handle, Load, SetPlanning, Resume,
         FindOverdue, Planner, Enter, StartRun, Discard, Ask, Terminate, Submit, SavePlan, SetReady,
         PublishPlan, Told, GiveUp, HandlePlan, WikiDown, Dev, Precheck, PrepareBranch, CallModel,
         ResetGate, Push, OpenMR, At, Age, Recovery, FindStuck, CheckPlan, ClaimAttempt, Republish,
         Ack, CloseMR, SeeClosed
    <3>2. Unrecorded <= Unrecorded'
      BY <1>0, <2>1, <3>1 DEF Unrecorded, Making
    <3>. QED
      BY <1>0, <2>1, <3>2
  <2>. QED
    BY <2>3, <2>4
<1>. QED
  BY <1>2, <1>3, <1>4, <1>5

LEMMA OrphansAreKept == Spec => []OrphanInv
<1>1. Init => OrphanInv
  <2>1. SUFFICES ASSUME Init PROVE OrphanInv
    OBVIOUS
  <2>2. \A i \in 1 .. MaxMRs : mrs[i].vcs = "none"
    BY <2>1, Records DEF Init
  <2>3. Orphans = {} /\ dev.pc = "idle" /\ faults = 0
    BY <2>1, <2>2, Records DEF Orphans, Init
  <2>. QED
    BY <2>2, <2>3, FS_EmptySet DEF OrphanInv, OrphansAreFaults, At, Checked
<1>2. IInv /\ OrphanInv /\ [Next]_vars => OrphanInv'
  <2>1. SUFFICES ASSUME IInv, OrphanInv, [Next]_vars PROVE OrphanInv'
    OBVIOUS
  <2>2. ASSUME NEW i \in 1 .. MaxMRs, mrs'[i].vcs # "none" PROVE mrs'[i].from <= epoch'
    <3>1. /\ MRMoves(i) /\ epoch \in Nat /\ (epoch' = epoch \/ epoch' = epoch + 1)
          /\ mrs[i].from \in Nat /\ dev.from \in Nat
      BY <2>1, AnyMRMoves, FaultsGrow, Naturals DEF IInv, TypeOK, MergeRequests, RunsAt
    <3>2. mrs'[i].from <= epoch
      <4>1. CASE mrs[i].vcs # "none" /\ mrs'[i].from = mrs[i].from
        BY <2>1, <4>1 DEF OrphanInv
      <4>2. CASE dev.pc = "create" /\ mrs'[i].from = dev.from
        BY <2>1, <4>2 DEF OrphanInv, Checked
      <4>. QED
        BY <2>2, <3>1, <4>1, <4>2 DEF MRMoves, SameMR
    <3>3. mrs'[i].from \in Nat
      BY <2>1, NextTypeOK, Naturals DEF TypeOK, MergeRequests
    <3>. QED
      BY <3>1, <3>2, <3>3
  <2>. QED
    BY <2>1, <2>2, NextInARow, RecordSteps, OrphansArePaid DEF OrphanInv
<1>. QED
  BY <1>1, <1>2, Inductive, PTL DEF Spec

\* A merge request that no Reviewer will look at is the price of a fault: a
\* crash between GitLab's answer and the row, the loss of that answer, or a row
\* that could not be written.  No interleaving of runs, resets and re-dispatches leaves one behind for free.
THEOREM OrphansArePaidFor == Spec => []OrphansAreFaults
<1>1. OrphanInv => OrphansAreFaults
  BY DEF OrphanInv
<1>. QED
  BY <1>1, OrphansAreKept, PTL

-----------------------------------------------------------------------------
(* What a reset leaves behind.                                             *)

\* A run of an earlier time line that is past its check was there when the last
\* reset came, and the Dev-agent's has not recorded its merge request yet.
LateInv ==
    /\ LateWritesAreFew
    /\ \A p \in Planners : planner[p].pc = "save" /\ planner[p].from # epoch => p \in late
    /\ dev.pc \in {"push", "create", "persist"} /\ dev.from # epoch => "dev" \in late /\ Stale = {}

\* A reset takes the records, and notes who is past the check.
LEMMA LateReset ==
    ASSUME IInv, OrphanInv, [Next]_vars, Reset
    PROVE  LateInv'
<1>1. /\ \A i \in 1 .. MaxMRs : mrs'[i].row = "none"
      /\ dev' = dev /\ planner' = planner /\ plan' = NoPlan /\ late' = PastCheck
  BY ResetHasNone DEF Reset
<1>2. Stale' = {} /\ plan'.saved = FALSE
  BY <1>1, Records DEF Stale
<1>3. \A p \in Planners : planner'[p].pc = "save" => p \in late'
  BY <1>1 DEF PastCheck
<1>4. dev'.pc \in {"push", "create", "persist"} => "dev" \in late'
  BY <1>1 DEF PastCheck
<1>. QED
  BY <1>2, <1>3, <1>4 DEF LateInv, LateWritesAreFew

\* Only the Dev-agent makes a record.
LEMMA StaleStays ==
    ASSUME IInv, [Next]_vars, ~Reset, ~PersistMR \/ UNCHANGED mrs
    PROVE  Stale' = Stale
<1>1. TypeOK /\ BackedInv /\ epoch' = epoch
  BY FaultsGrow DEF IInv
<1>2. ASSUME NEW i \in 1 .. MaxMRs
      PROVE  (mrs'[i].row # "none" /\ mrs'[i].from # epoch)
             <=> (mrs[i].row # "none" /\ mrs[i].from # epoch)
  BY <1>1, AnyMRMoves DEF MRMoves, SameMR, BackedInv
<1>. QED
  BY <1>1, <1>2 DEF Stale

\* The record that the Dev-agent makes is of the epoch its run began in.
LEMMA StaleIsRecorded ==
    ASSUME IInv, OrphanInv, [Next]_vars, PersistMR, Go("open")
    PROVE  \/ Stale' = Stale /\ dev.from = epoch
           \/ (\E i \in 1 .. MaxMRs : Stale' = Stale \cup {i}) /\ dev.from # epoch
<1>0. TypeOK /\ dev.pc = "persist" /\ epoch' = epoch
  BY DEF IInv, PersistMR, At, envVars
<1>1. PICK i \in 1 .. MaxMRs : Latest(i) /\ mrs' = [mrs EXCEPT ![i].row = "open"]
  <2>1. dev'.pc = "open"
    BY <1>0, DevGoes DEF DevPCs
  <2>. QED
    BY <2>1, Records DEF PersistMR, DevReturns, Latest
<1>2. PICK k \in 1 .. MaxMRs : Latest(k) /\ mrs[k].row = "none" /\ mrs[k].from = dev.from
  BY <1>0 DEF OrphanInv
<1>3. k = i
  BY <1>1, <1>2, LatestIsOne
<1>4. /\ mrs'[i].row = "open" /\ mrs'[i].from = dev.from
      /\ \A j \in 1 .. MaxMRs : j # i => mrs'[j] = mrs[j]
  BY <1>0, <1>1, <1>2, <1>3 DEF TypeOK, MergeRequests
<1>5. i \notin Stale
  BY <1>2, <1>3 DEF Stale
<1>6. Stale' = IF dev.from = epoch THEN Stale ELSE Stale \cup {i}
  BY <1>0, <1>4, <1>5 DEF Stale
<1>. QED
  BY <1>6

LEMMA LateSteps ==
    ASSUME IInv, OrphanInv, LateInv, [Next]_vars, ~Reset
    PROVE  LateInv'
<1>0. /\ TypeOK /\ DevMoves /\ PlanMoves /\ \A p \in Planners : PlannerMoves(p)
      /\ epoch' = epoch /\ late' = late
  BY AnyDevMoves, AnyPlanMoves, AnyPlannerMoves, FaultsGrow, Observed DEF IInv
<1>1. \A p \in Planners : planner'[p].pc = "save" /\ planner'[p].from # epoch => p \in late
  BY <1>0, Records DEF LateInv, PlannerMoves, GoesOn
<1>2. plan'.saved /\ plan'.from # epoch => late \cap Planners # {}
  BY <1>0, Records DEF LateInv, LateWritesAreFew, PlanMoves, SavePlan
<1>3. CASE ~PersistMR \/ UNCHANGED mrs
  <2>1. Stale' = Stale
    BY <1>3, StaleStays
  <2>2. dev'.pc \in {"push", "create", "persist"} /\ dev'.from # epoch =>
          dev.pc \in {"push", "create", "persist"} /\ dev.from # epoch
    BY <1>0, Records DEF DevMoves, DevGoesOn
  <2>. QED
    BY <1>0, <1>1, <1>2, <2>1, <2>2 DEF LateInv, LateWritesAreFew
<1>4. CASE PersistMR /\ ~UNCHANGED mrs
  <2>1. Go("open") /\ dev.pc = "persist" /\ dev'.pc = "open"
    BY <1>0, <1>4, DevGoes DEF PersistMR, At, DevPCs
  <2>2. CASE Stale' = Stale
    BY <1>0, <1>1, <1>2, <2>1, <2>2 DEF LateInv, LateWritesAreFew
  <2>3. CASE dev.from # epoch
    <3>1. Stale = {} /\ "dev" \in late
      BY <2>1, <2>3 DEF LateInv
    <3>2. PICK i \in 1 .. MaxMRs : Stale' = Stale \cup {i}
      BY <1>4, <2>1, <2>3, StaleIsRecorded
    <3>. QED
      BY <1>0, <1>1, <1>2, <2>1, <3>1, <3>2 DEF LateInv, LateWritesAreFew
  <2>. QED
    BY <1>4, <2>1, <2>2, <2>3, StaleIsRecorded
<1>. QED
  BY <1>3, <1>4

\* A reset cannot stop a run between its check and its write: what is on record
\* of an earlier time line is from the runs that stood there when it came, one
\* merge request at most, and the plan - whatever else is run, reset, delivered
\* again or cut short.
THEOREM LateWritesAreBounded == Spec => []LateWritesAreFew
<1>1. Init => LateInv
  <2>1. SUFFICES ASSUME Init PROVE LateInv
    OBVIOUS
  <2>2. Stale = {} /\ plan.saved = FALSE /\ dev.pc = "idle"
    BY <2>1, Records DEF Stale, Init
  <2>3. \A p \in Planners : planner[p].pc = "idle"
    BY <2>1, Records DEF Init
  <2>. QED
    BY <2>2, <2>3 DEF LateInv, LateWritesAreFew
<1>2. IInv /\ OrphanInv /\ LateInv /\ [Next]_vars => LateInv'
  BY LateReset, LateSteps
<1>3. LateInv => LateWritesAreFew
  BY DEF LateInv
<1>. QED
  BY <1>1, <1>2, <1>3, Inductive, OrphansAreKept, PTL DEF Spec

-----------------------------------------------------------------------------
(* What becomes of a READY ticket.                                         *)

\* The plan.ready m will get the ticket out of READY: nobody handled it yet, or
\* the Dev-agent is about to take up the row as it is.
Waits(m) ==
    /\ status[m] = "queued" /\ m \notin done
    /\ m = dev.msg => dev.pc = "start" \/ (dev.pc = "prep" /\ HasRow(dev.id))

Recorded == \E i \in 1 .. MaxMRs : mrs[i].row # "none"

ReadyInv ==
    /\ InStatus({"READY"}) => plan.saved
    /\ \A p \in Planners : planner[p].pc = "ready" /\ HasRow(planner[p].id) => plan.saved
    /\ InStatus({"READY"}) =>
        \/ \E p \in Planners : ToPublish(p)
        \/ \E m \in PlanReady : Waits(m)
        \/ cut # {}
        \/ Recorded

\* Every other status than READY leaves a row that was not READY as such.
LEMMA OtherStatus ==
    ASSUME TypeOK, NEW id, NEW s \in TaskStatuses, s # "READY",
           task' # NoTask, task'.status = "READY",
           \/ task' = SetStatus(id, s)
           \/ task # NoTask /\ task' = [SetStatus(id, s) EXCEPT !.awaiting = FALSE]
    PROVE  task # NoTask /\ task.status = "READY" /\ ~HasRow(id)
<1>1. task # NoTask /\ task \in Tasks
  BY StatusWrites DEF TypeOK
<1>. DEFINE r == SetStatus(id, s)
<1>2. r \in Tasks /\ r.status = IF HasRow(id) THEN s ELSE task.status
  BY <1>1, StatusWrites
<1>3. task' = r \/ task' = [r EXCEPT !.awaiting = FALSE]
  OBVIOUS
<1>. HIDE DEF r
<1>4. task'.status = r.status
  BY <1>2, <1>3 DEF Tasks
<1>. QED
  BY <1>1, <1>2, <1>4

\* Every action that writes columns other than the status.
LEMMA FlagsAlone ==
    ASSUME TypeOK, task' # NoTask, task'.status = "READY", task # NoTask,
           \/ task' = task
           \/ task' = [task EXCEPT !.stale = FALSE]
           \/ task' = [task EXCEPT !.stale = TRUE]
           \/ task' = [task EXCEPT !.awaiting = TRUE, !.stale = FALSE]
           \/ task' = [task EXCEPT !.awaiting = FALSE, !.stale = FALSE]
           \/ task' = [task EXCEPT !.steps = @ + 1, !.deadline = TRUE, !.stale = FALSE]
           \/ task' = [task EXCEPT !.attempts = @ + 1, !.stale = FALSE]
    PROVE  task.status = "READY"
BY DEF TypeOK, Tasks

\* Only _on_plan makes a ticket READY.
LEMMA BecomesReady ==
    ASSUME TypeOK, [Next]_vars, InStatus({"READY"})'
    PROVE  \/ InStatus({"READY"})
           \/ \E p \in Planners : SetReady(p) /\ HasRow(planner[p].id)
<1>0. task' # NoTask /\ task'.status = "READY"
  BY DEF InStatus
<1>. SUFFICES ASSUME ~InStatus({"READY"})
              PROVE  \E p \in Planners : SetReady(p) /\ HasRow(planner[p].id)
  OBVIOUS
<1>1. ~(task # NoTask /\ task.status = "READY")
  BY DEF InStatus
<1>2. task' # task
  BY <1>0, <1>1
<1>3. ~Insert
  BY <1>0, NewTaskIsTask DEF Insert, TypeOK
<1>4. ~Touch /\ ~Resume /\ ~Age /\ ~Reset
  BY <1>0, <1>1, FlagsAlone DEF Touch, Resume, Age, InStatus, Reset
<1>5. ~SetPlanning
  BY <1>0, <1>1, OtherStatus DEF SetPlanning, TaskStatuses
<1>6. ~ClaimAttempt
  BY <1>0, <1>1, <1>2, OtherStatus, FlagsAlone DEF ClaimAttempt, TaskStatuses, HasRow
<1>7. ~PrepareBranch /\ ~CallModel /\ ~Push /\ ~OpenMR
  BY <1>0, <1>1, <1>2, OtherStatus DEF PrepareBranch, CallModel, Push, OpenMR, TaskStatuses
<1>8. ASSUME NEW p \in Planners, Enter(p) \/ Ask(p) \/ Terminate(p) \/ GiveUp(p) PROVE FALSE
  <2>1. CASE Enter(p)
    BY <1>0, <1>1, <1>2, <2>1, OtherStatus, FlagsAlone DEF Enter, TaskStatuses, HasRow
  <2>2. CASE Ask(p)
    BY <1>0, <1>1, <1>2, <2>2, FlagsAlone DEF Ask, HasRow
  <2>3. CASE Terminate(p) \/ GiveUp(p)
    BY <1>0, <1>1, <1>2, <2>3, OtherStatus DEF Terminate, GiveUp, TaskStatuses, HasRow
  <2>. QED
    BY <1>8, <2>1, <2>2, <2>3
<1>9. \E p \in Planners : SetReady(p)
  BY <1>2, <1>3, <1>4, <1>5, <1>6, <1>7, <1>8 DEF Next, vars, rowVars, Dispatch, Handle, Load,
     FindOverdue, Planner, StartRun, Discard, Submit, SavePlan, PublishPlan, Told, HandlePlan,
     WikiDown, Dev, Precheck, ResetGate, CreateMergeRequest, PersistMR, Recovery, FindStuck,
     CheckPlan, Republish, Ack, CloseMR, SeeClosed, Crash
<1>. QED
  BY <1>2, <1>9 DEF SetReady

\* A message that nobody handled stays in the queue until a reset.
LEMMA StaysQueued ==
    ASSUME TypeOK, [Next]_vars, ~Reset, NEW m \in Messages, status[m] = "queued", m \notin done
    PROVE  status'[m] = "queued"
<1>1. ASSUME NEW c, NEW r, Return(c, r) \/ Raise(c, r) PROVE status' = status
  BY <1>1 DEF Return, Raise, busVars, Bus!Finish, Bus!GiveUp
<1>2. ASSUME NEW c, NEW inbox, NEW x, Take(c, inbox, x) PROVE status' = status
  BY <1>2 DEF Take, Bus!Deliver
<1>3. ASSUME NEW inbox \in SUBSET Messages, Publish(inbox) PROVE status'[m] = "queued"
  BY <1>3, BusPublishes DEF TypeOK, Bus!TypeOK
<1>4. CASE Ack
  BY <1>4 DEF Ack, Bus!Acknowledge, TypeOK, Bus!TypeOK
<1>5. CASE Dispatch \/ Republish
  BY <1>3, <1>5 DEF Dispatch, Republish, busVars, Messages
<1>6. CASE Handle \/ HandlePlan
  BY <1>2, <1>6 DEF Handle, HandlePlan
<1>7. ASSUME NEW p \in Planners, PublishPlan(p) PROVE status'[m] = "queued"
  BY <1>1, <1>3, <1>7 DEF PublishPlan, busVars, Messages
<1>8. CASE UNCHANGED status
  BY <1>8
<1>. QED
  BY <1>1, <1>4, <1>5, <1>6, <1>7, <1>8 DEF Next, vars, busVars, Insert, Touch, Load, SetPlanning,
     Resume, FindOverdue, Planner, Enter, StartRun, Discard, Ask, Terminate, Submit, SavePlan,
     SetReady, Told, GiveUp, End, WikiDown, Dev, Precheck, PrepareBranch, CallModel, ResetGate, Push,
     CreateMergeRequest, PersistMR, OpenMR, DevReturns, Age, Recovery, FindStuck, CheckPlan,
     ClaimAttempt, CloseMR, SeeClosed, Crash

\* Who moves a run of the Dev-agent that did not take up the row yet.
LEMMA BeforeCoding ==
    ASSUME TypeOK, [Next]_vars, dev.pc \in {"start", "prep"}
    PROVE  dev' = dev \/ Precheck \/ WikiDown \/ PrepareBranch \/ Crash
BY DEF Next, vars, Insert, Touch, Dispatch, Handle, Load, SetPlanning, Resume, FindOverdue, Planner,
     Enter, StartRun, Discard, Ask, Terminate, Submit, SavePlan, SetReady, PublishPlan, Told, GiveUp,
     HandlePlan, Dev, CallModel, ResetGate, Push, CreateMergeRequest, PersistMR, OpenMR, At, Age,
     Recovery, FindStuck, CheckPlan, ClaimAttempt, Republish, Ack, Reset, CloseMR, SeeClosed

\* Who moves a planner that is about to publish.
LEMMA LeavesPublish ==
    ASSUME TypeOK, [Next]_vars, NEW p \in Planners, planner[p].pc = "publish"
    PROVE  planner'[p] = planner[p] \/ PublishPlan(p) \/ Crash
<1>1. CASE Handle \/ Load \/ SetPlanning
  <2>1. p # "inbox"
    BY <1>1 DEF Handle, Load, SetPlanning
  <2>. QED
    BY <1>1, <2>1, InboxMoves DEF Alone
<1>2. CASE Resume \/ FindOverdue
  <2>1. p # "coalescer"
    BY <1>2 DEF Resume, FindOverdue
  <2>. QED
    BY <1>2, <2>1, CoalescerMoves DEF Alone
<1>3. ASSUME NEW q \in Planners, Planner(q), ~PublishPlan(q) PROVE planner'[p] = planner[p]
  <2>1. p # q
    BY <1>3 DEF Planner, Enter, StartRun, Discard, Ask, Terminate, Submit, SavePlan, SetReady, Told,
       GiveUp
  <2>. QED
    BY <1>3, <2>1, EitherMoves DEF Alone
<1>4. ASSUME NEW q \in Planners, PublishPlan(q) PROVE planner'[p] = planner[p] \/ PublishPlan(p)
  BY <1>4, EitherMoves DEF Alone, Planner
<1>. QED
  BY <1>1, <1>2, <1>3, <1>4 DEF Next, vars, Insert, Touch, Dispatch, HandlePlan, WikiDown, Dev,
     Precheck, PrepareBranch, CallModel, ResetGate, Push, CreateMergeRequest, PersistMR, OpenMR, Age,
     Recovery, FindStuck, CheckPlan, ClaimAttempt, Republish, Ack, Reset, CloseMR, SeeClosed

\* What was cut short is forgotten with the row, or when it is READY anew.
LEMMA StaysCut ==
    ASSUME [Next]_vars, ~Reset, cut # {}
    PROVE  cut' # {} \/ \E p \in Planners : SetReady(p) /\ HasRow(planner[p].id)
<1>1. cut \subseteq cut' => cut' # {}
  OBVIOUS
<1>. QED
  BY <1>1 DEF obsVars, Cut, Next, vars, Insert, Touch, Dispatch, Handle, Load, SetPlanning, Resume,
     FindOverdue, Planner, Enter, StartRun, Discard, Ask, Terminate, Submit, SavePlan, SetReady,
     PublishPlan, Told, GiveUp, HandlePlan, WikiDown, Dev, Precheck, PrepareBranch, CallModel,
     ResetGate, Push, CreateMergeRequest, PersistMR, OpenMR, Age, Recovery, FindStuck, CheckPlan,
     ClaimAttempt, Republish, Ack, CloseMR, SeeClosed, Crash

LEMMA StaysRecorded ==
    ASSUME TypeOK, BackedInv, [Next]_vars, ~Reset, Recorded
    PROVE  Recorded'
<1>1. PICK i \in 1 .. MaxMRs : mrs[i].row # "none"
  BY DEF Recorded
<1>2. MRMoves(i)
  BY AnyMRMoves
<1>3. mrs'[i].row # "none"
  BY <1>1, <1>2 DEF MRMoves, SameMR, BackedInv
<1>. QED
  BY <1>3 DEF Recorded

\* The ticket was READY and is still the same row.
LEMMA StaysReady ==
    ASSUME IInv, [Next]_vars, InStatus({"READY"}), InStatus({"READY"})'
    PROVE  ~Reset /\ \A id \in Nat : HasRow(id) => HasRow(id)'
<1>0. TypeOK /\ StepInv /\ TaskMoves /\ task # NoTask /\ task' # NoTask
  BY AnyTaskMoves DEF IInv, InStatus
<1>. QED
  BY <1>0 DEF TaskMoves, SameRow, Reset, HasRow

\* A plan.ready that waits for the Dev-agent keeps waiting, is taken up, or is
\* handled for one of two reasons: the ticket has its merge request, or the
\* database or git failed just now.
LEMMA KeepsWaiting ==
    ASSUME IInv, [Next]_vars, InStatus({"READY"}), InStatus({"READY"})', plan.saved,
           NEW m \in PlanReady, Waits(m)
    PROVE  Waits(m)' \/ cut' # {} \/ Recorded'
<1>0. /\ TypeOK /\ BackedInv /\ HandlerInv /\ ~Reset /\ m \in Messages /\ m \notin Discovered
      /\ m # NoMessage /\ DevMoves /\ DoneMoves /\ dev.id \in Nat
      /\ dev.pc = "idle" \/ dev.msg \in PlanReady
      /\ status[m] = "queued" /\ m \notin done /\ status'[m] = "queued"
  <2>1. TypeOK /\ BackedInv /\ HandlerInv
    BY DEF IInv
  <2>2. m \in Messages /\ m # NoMessage /\ m \notin Discovered
    BY PipelineAssumption, Naturals DEF Messages
  <2>3. dev.id \in Nat
    BY <2>1, Naturals DEF TypeOK, RunsAt
  <2>4. ~Reset /\ DevMoves /\ DoneMoves
    BY <2>1, StaysReady, AnyDevMoves, AnyBusMoves
  <2>. QED
    BY <2>1, <2>2, <2>3, <2>4, StaysQueued DEF HandlerInv, Waits
<1>1. CASE m # dev.msg
  <2>1. m \notin done'
    <3>1. \A p \in Planners : planner[p].msg # m
      BY <1>0 DEF HandlerInv
    <3>. QED
      BY <1>0, <1>1, <3>1 DEF DoneMoves
  <2>2. m = dev'.msg => dev'.pc = "start"
    BY <1>0, <1>1, Records DEF DevMoves, DevGoesOn
  <2>. QED
    BY <1>0, <2>1, <2>2 DEF Waits
<1>2. CASE m = dev.msg /\ dev.pc \in {"start", "prep"}
  <2>1. CASE dev' = dev
    <3>1. m \notin done'
      <4>1. dev # Idle /\ \A p \in Planners : planner[p].msg # m
        BY <1>0, <1>2, Records DEF HandlerInv
      <4>. QED
        BY <1>0, <2>1, <4>1 DEF DoneMoves
    <3>. QED
      BY <1>0, <1>2, <2>1, <3>1, StaysReady DEF Waits
  <2>2. CASE WikiDown \/ Crash
    <3>1. dev' = Idle /\ done' = done
      BY <2>2 DEF WikiDown, Raise, busVars, Bus!GiveUp, Crash
    <3>. QED
      BY <1>0, <3>1, Records DEF Waits
  <2>3. CASE Precheck
    <3>1. task # NoTask /\ UNCHANGED rowVars
      BY <2>3 DEF Precheck, InStatus
    <3>2. CASE UNCHANGED busVars /\ dev' = [dev EXCEPT !.pc = "prep", !.id = task.id]
      <4>1. UNCHANGED busVars /\ dev' = [dev EXCEPT !.pc = "prep", !.id = task.id]
        BY <3>2
      <4>2. dev'.pc = "prep" /\ dev'.id = task.id
        BY <1>0, <4>1 DEF TypeOK, RunsAt
      <4>3. HasRow(dev.id)'
        BY <3>1, <4>2 DEF HasRow, rowVars
      <4>4. done' = done
        BY <4>1 DEF busVars
      <4>. QED
        BY <1>0, <4>2, <4>3, <4>4 DEF Waits
    <3>3. CASE ~Actionable
      <4>1. Recorded
        BY <3>1, <3>3 DEF Actionable, OpenRow, Recorded
      <4>. QED
        BY <1>0, <4>1, StaysRecorded
    <3>4. CASE Cut(task.id, "prepare")
      BY <3>1, <3>4 DEF Cut, HasRow
    <3>. QED
      BY <2>3, <3>2, <3>3, <3>4 DEF Precheck
  <2>4. CASE PrepareBranch
    <3>1. dev.pc = "prep" /\ HasRow(dev.id)
      BY <1>2, <2>4 DEF PrepareBranch, At, Waits
    <3>2. ~(task' = SetStatus(dev.id, "CODING")) /\ ~(task' = SetStatus(dev.id, "FAILED"))
      BY <1>0, <3>1, OtherStatus DEF InStatus, TaskStatuses
    <3>3. Cut(dev.id, "prepare")
      BY <2>4, <3>2 DEF PrepareBranch
    <3>. QED
      BY <3>1, <3>3 DEF Cut
  <2>. QED
    BY <1>0, <1>2, <2>1, <2>2, <2>3, <2>4, BeforeCoding
<1>. QED
  BY <1>1, <1>2 DEF Waits

\* A planner that is about to publish still is, has published, or was cut short.
LEMMA PublishesOrCuts ==
    ASSUME IInv, [Next]_vars, InStatus({"READY"}), InStatus({"READY"})',
           NEW p \in Planners, ToPublish(p)
    PROVE  ToPublish(p)' \/ (\E m \in PlanReady : Waits(m)') \/ cut' # {}
<1>0. /\ TypeOK /\ HandlerInv /\ planner[p].id \in Nat
      /\ planner[p].pc = "publish" /\ HasRow(planner[p].id)
  BY Naturals DEF IInv, TypeOK, RunsAt, ToPublish
<1>1. CASE planner'[p] = planner[p]
  BY <1>0, <1>1, StaysReady DEF ToPublish
<1>2. CASE Crash
  BY <1>2 DEF Crash
<1>3. CASE PublishPlan(p) /\ Cut(planner[p].id, "publish")
  BY <1>0, <1>3 DEF Cut
<1>4. CASE PublishPlan(p) /\ Publish(PlanReady)
  <2>1. /\ done' = done /\ dev' = dev
        /\ \E x \in PlanReady : status[x] = "absent" /\ status' = [status EXCEPT ![x] = "queued"]
    BY <1>0, <1>4, BusPublishes DEF Messages, PublishPlan
  <2>2. PICK x \in PlanReady : status[x] = "absent" /\ status' = [status EXCEPT ![x] = "queued"]
    BY <2>1
  <2>3. x \in Messages /\ x # NoMessage /\ x \notin done /\ x # dev.msg
    BY <1>0, <2>2, Naturals DEF HandlerInv, Messages
  <2>4. status'[x] = "queued"
    BY <1>0, <2>2, <2>3 DEF TypeOK, Bus!TypeOK
  <2>. QED
    BY <2>1, <2>3, <2>4 DEF Waits
<1>. QED
  BY <1>0, <1>1, <1>2, <1>3, <1>4, LeavesPublish DEF PublishPlan

\* A row that is READY, or about to be, has its plan.
LEMMA ReadyHasPlan ==
    ASSUME IInv, ReadyInv, [Next]_vars
    PROVE  /\ InStatus({"READY"})' => plan'.saved
           /\ \A p \in Planners : planner'[p].pc = "ready" /\ HasRow(planner[p].id)' => plan'.saved
<1>0. /\ TypeOK /\ IdInv /\ (plan.saved /\ ~Reset => plan'.saved)
      /\ \A p \in Planners : planner[p].id \in Nat /\ planner[p].id <= rows
  <2>1. TypeOK /\ IdInv
    BY DEF IInv
  <2>2. \A p \in Planners : planner[p].id \in Nat
    BY <2>1, Naturals DEF TypeOK, RunsAt
  <2>3. PlanMoves
    BY <2>1, AnyPlanMoves
  <2>. QED
    BY <2>1, <2>2, <2>3 DEF PlanMoves, IdInv
<1>1. ASSUME InStatus({"READY"})' PROVE plan'.saved
  <2>1. CASE InStatus({"READY"})
    BY <1>0, <1>1, <2>1, StaysReady DEF ReadyInv
  <2>2. ASSUME NEW p \in Planners, SetReady(p), HasRow(planner[p].id) PROVE plan'.saved
    BY <2>2 DEF SetReady, ReadyInv
  <2>. QED
    BY <1>0, <1>1, <2>1, <2>2, BecomesReady
<1>2. ASSUME NEW p \in Planners, planner'[p].pc = "ready", HasRow(planner[p].id)' PROVE plan'.saved
  <2>1. PlannerMoves(p)
    BY <1>0, AnyPlannerMoves
  <2>2. CASE SavePlan(p)
    BY <2>2 DEF SavePlan
  <2>3. CASE planner'[p] = planner[p]
    <3>1. HasRow(planner[p].id)'
      BY <1>2, <2>3
    <3>2. HasRow(planner[p].id) /\ ~Reset
      <4>. DEFINE id == planner[p].id
      <4>1. id \in Nat /\ id <= rows /\ task' # NoTask /\ task'.id = id
        BY <1>0, <1>2, <2>3 DEF HasRow
      <4>. HIDE DEF id
      <4>2. HasRow(id) /\ ~Reset
        BY <4>1, OldRow DEF HasRow
      <4>. QED
        BY <4>2 DEF id
    <3>. QED
      BY <1>0, <1>2, <2>3, <3>2 DEF ReadyInv
  <2>. QED
    BY <1>2, <2>1, <2>2, <2>3, Records DEF PlannerMoves, GoesOn
<1>. QED
  BY <1>1, <1>2

LEMMA ReadySteps ==
    ASSUME IInv, ReadyInv, [Next]_vars
    PROVE  ReadyInv'
<1>1. ASSUME InStatus({"READY"})'
      PROVE  \/ \E p \in Planners : ToPublish(p)'
             \/ \E m \in PlanReady : Waits(m)'
             \/ cut' # {}
             \/ Recorded'
  <2>0. TypeOK /\ BackedInv
    BY DEF IInv
  <2>1. ASSUME NEW p \in Planners, SetReady(p), HasRow(planner[p].id) PROVE ToPublish(p)'
    <3>1. GoesOn(p, "publish")
      BY <2>0, <2>1, RunStep DEF SetReady, PlannerPCs
    <3>2. task # NoTask /\ task'.id = task.id /\ task' # NoTask
      <4>. DEFINE r == SetStatus(planner[p].id, "READY")
      <4>1. task # NoTask /\ r \in Tasks /\ r.id = task.id
        BY <2>0, <2>1, StatusWrites DEF HasRow, TypeOK, TaskStatuses
      <4>2. task' = [r EXCEPT !.awaiting = FALSE, !.deadline = FALSE]
        BY <2>1 DEF SetReady
      <4>. HIDE DEF r
      <4>3. task'.id = r.id
        BY <4>1, <4>2 DEF Tasks
      <4>. QED
        BY <1>1, <4>1, <4>3 DEF InStatus
    <3>. QED
      BY <2>1, <3>1, <3>2 DEF GoesOn, ToPublish, HasRow
  <2>2. CASE InStatus({"READY"}) /\ ~(\E p \in Planners : SetReady(p) /\ HasRow(planner[p].id))
    <3>1. ~Reset /\ plan.saved
      BY <2>2, <1>1, StaysReady DEF ReadyInv
    <3>2. CASE \E p \in Planners : ToPublish(p)
      BY <1>1, <2>2, <3>2, PublishesOrCuts
    <3>3. CASE \E m \in PlanReady : Waits(m)
      BY <1>1, <2>2, <3>1, <3>3, KeepsWaiting
    <3>4. CASE cut # {}
      BY <2>2, <3>1, <3>4, StaysCut
    <3>5. CASE Recorded
      BY <2>0, <3>1, <3>5, StaysRecorded
    <3>. QED
      BY <2>2, <3>2, <3>3, <3>4, <3>5 DEF ReadyInv
  <2>. QED
    BY <1>1, <2>0, <2>1, <2>2, BecomesReady
<1>. QED
  BY <1>1, ReadyHasPlan DEF ReadyInv

\* A ticket is at READY for one of four reasons: its plan.ready is about to be
\* published, it is published and not handled, it was not published or failed
\* to be prepared, or there is a merge request of it on record.  No race of the
\* two planners, a re-dispatch, a reset or a redelivery is a fifth.
THEOREM ReadyHasItsReason == Spec => []ReadyIsUnderWay
<1>1. Init => ReadyInv
  BY Records, DevIsIdle DEF Init, ReadyInv, InStatus
<1>2. IInv /\ ReadyInv /\ [Next]_vars => ReadyInv'
  BY ReadySteps
<1>3. ReadyInv => ReadyIsUnderWay
  BY DEF ReadyInv, ReadyIsUnderWay, Waits, Recorded
<1>. QED
  BY <1>1, <1>2, <1>3, Inductive, PTL DEF Spec
=============================================================================
