---------------------------- MODULE TaskPipeline ----------------------------
(***************************************************************************)
(* The way of one ticket from the tracker to an open merge request, and    *)
(* everything that starts it again:                                        *)
(*                                                                         *)
(*   Orchestrator     inserts the task row, then publishes task.discovered *)
(*   AnalystInbox     plans, or asks and is resumed; publishes plan.ready  *)
(*   DevInbox/Dev     one model run per plan.ready, then push, MR, rows    *)
(*   RecoveryService  re-dispatches what stays DISCOVERED or CODING        *)
(*   /reset           deletes every row of the ticket in one transaction   *)
(*                                                                         *)
(* They share the database and the bus and nothing else.  The bus is the   *)
(* port's contract, AtLeastOnce: what MessageBus implements.  An action is *)
(* the code between two awaits that matter: one transaction, or one call   *)
(* to the model, to git or to GitLab.  The handlers of one inbox run one   *)
(* after the other: one process, and the Dev-agent under its lock.         *)
(***************************************************************************)
EXTENDS Naturals, FiniteSets

CONSTANTS
    Discovered,   \* ids of the task.discovered messages, in order of creation
    PlanReady,    \* ids of the plan.ready messages, in order of creation
    MaxAttempts,  \* recovery attempts per task row
    MaxSteps,     \* max_planner_calls_per_goal of a task row
    MaxRows,      \* bound: task rows inserted
    MaxMRs,       \* bound: merge requests created
    MaxResets,    \* bound: /reset commands
    MaxFaults,    \* bound: crashes of the process, lost acks, lost answers of GitLab,
                  \* merge requests that could not be recorded
    MaxTouches    \* bound: edits of the ticket seen by the poll

Messages == Discovered \cup PlanReady

ASSUME PipelineAssumption ==
    /\ Discovered \subseteq Nat \ {0} /\ PlanReady \subseteq Nat \ {0}
    /\ Discovered \cap PlanReady = {}
    /\ {MaxAttempts, MaxSteps, MaxRows, MaxMRs, MaxResets, MaxFaults, MaxTouches} \subseteq Nat

Planners == {"inbox", "coalescer"}   \* both run AnalystInbox._run_step
Consumers == {"inbox", "dev"}        \* the two AgentRunners

VARIABLES
    status, holders, done,  \* the bus
    task,     \* the TaskRow, or NoTask
    plan,     \* the READY PlanRow, or NoPlan
    mrs,      \* mrs[i]: the i-th merge request and its MergeRequestRow
    rows,     \* task rows inserted so far: the sequence of their ids
    epoch,    \* resets so far: the time line of reset_at and run_started
    orch,     \* the orchestrator: "poll" or "dispatch"
    planner,  \* planner[p]: a run of the analyst
    dev,      \* the Dev-agent, under its workspace lock
    sweep,    \* the recovery poller
    faults,   \* of these so far
    touches,  \* edits so far
    \* observers: no step of the program reads them
    runs,     \* model runs of the Dev-agent
    plans,    \* plans saved
    cut,      \* what may have kept the READY ticket from Dev: its plan was not
              \* published, the database or git failed before a dev run took it up
    late      \* the runs that had passed their reset check when the last reset came

busVars == <<status, holders, done>>
rowVars == <<task, plan, mrs>>
envVars == <<rows, epoch, faults, touches>>
obsVars == <<runs, plans, cut, late>>
vars == <<status, holders, done, task, plan, mrs, rows, epoch, orch, planner,
          dev, sweep, faults, touches, runs, plans, cut, late>>

Bus == INSTANCE AtLeastOnce

NoTask == [id |-> 0]
NewTask(id) == [id |-> id, status |-> "DISCOVERED", attempts |-> 0, steps |-> 0,
                stale |-> FALSE, awaiting |-> FALSE, deadline |-> FALSE]
NoPlan == [saved |-> FALSE, fresh |-> FALSE, from |-> 0]
NoMR == [row |-> "none", vcs |-> "none", from |-> 0]
NoMessage == 0

\* A run: where it stands, the message it handles, the task row it loaded and
\* whether that had spent its iteration budget, the epoch in which it read its
\* start time.
Idle == [pc |-> "idle", msg |-> NoMessage, id |-> 0, spent |-> FALSE, from |-> 0]
NoSweep == [pc |-> "idle", topic |-> "none", id |-> 0]

TaskStatuses == {"DISCOVERED", "PLANNING", "READY", "CODING", "MR_OPEN", "FAILED"}
PlannerPCs == {"idle", "start", "loaded", "closed", "enter", "fresh", "running",
               "save", "ready", "publish", "told", "overdue"}
BeforeStep == {"loaded", "closed", "enter"}
DevPCs == {"idle", "start", "prep", "coding", "gate", "push", "create", "persist", "open"}

RunsAt(pcs) == [pc : pcs, msg : Messages \cup {NoMessage}, id : 0 .. MaxRows,
                spent : BOOLEAN, from : 0 .. MaxResets]

Tasks == [id : 1 .. MaxRows, status : TaskStatuses, attempts : 0 .. MaxAttempts,
          steps : 0 .. MaxSteps + 1, stale : BOOLEAN, awaiting : BOOLEAN, deadline : BOOLEAN]
ReadyPlans == [saved : BOOLEAN, fresh : BOOLEAN, from : 0 .. MaxResets]
MergeRequests == [row : {"none", "open", "closed"}, vcs : {"none", "open", "closed"},
                  from : 0 .. MaxResets]
Sweeps == [pc : {"idle", "check", "claim", "publish"},
           topic : {"none", "discovered", "plan"}, id : 0 .. MaxRows]

TypeOK ==
    /\ Bus!TypeOK
    /\ task = NoTask \/ task \in Tasks
    /\ plan \in ReadyPlans
    /\ mrs \in [1 .. MaxMRs -> MergeRequests]
    /\ rows \in 0 .. MaxRows /\ epoch \in 0 .. MaxResets
    /\ faults \in 0 .. MaxFaults /\ touches \in 0 .. MaxTouches
    /\ orch \in {"poll", "dispatch"}
    /\ planner \in [Planners -> RunsAt(PlannerPCs)]
    /\ dev \in RunsAt(DevPCs)
    /\ sweep \in Sweeps
    /\ runs \in Nat /\ plans \in Nat /\ cut \subseteq {"publish", "prepare"}
    /\ late \subseteq Planners \cup {"dev"}

-----------------------------------------------------------------------------
(* Rows, messages and runs.                                                *)

HasRow(id) == task # NoTask /\ task.id = id
InStatus(s) == task # NoTask /\ task.status \in s
OpenRow == \E i \in 1 .. MaxMRs : mrs[i].row = "open"

\* Mutant: the write goes to whatever row the ticket has now.
SetStatusByKey(id, s) ==
    IF task # NoTask /\ id # 0 THEN [task EXCEPT !.status = s, !.stale = FALSE] ELSE task

\* _set_internal_status writes by primary key: nothing when the row is gone,
\* and a write that changes nothing does not refresh updated_at.
SetStatus(id, s) ==
    IF HasRow(id) /\ task.status # s
    THEN [task EXCEPT !.status = s, !.stale = FALSE] ELSE task

\* The next message of an inbox.
Publish(inbox) ==
    \E m \in inbox :
        /\ \A n \in inbox : status[n] = "absent" => m <= n
        /\ Bus!Publish(m)

\* The runner of c gets the oldest message of its inbox, one whose ack was
\* lost included.
Take(c, inbox, m) ==
    /\ status[m] = "queued"
    /\ \A n \in inbox : status[n] = "queued" => m <= n
    /\ Bus!Deliver(c, m)
    /\ IF m \in done THEN faults < MaxFaults /\ faults' = faults + 1 ELSE UNCHANGED faults

\* The handler returns, the message is the runner's to acknowledge; a step that
\* the coalescer's poller started has none.
Return(c, r) == IF r.msg = NoMessage THEN UNCHANGED busVars ELSE Bus!Finish(c, r.msg)

\* The handler raises.
Raise(c, r) == IF r.msg = NoMessage THEN UNCHANGED busVars ELSE Bus!GiveUp(c, r.msg)

Init ==
    /\ Bus!Init
    /\ task = NoTask
    /\ plan = NoPlan
    /\ mrs = [i \in 1 .. MaxMRs |-> NoMR]
    /\ rows = 0 /\ epoch = 0 /\ faults = 0 /\ touches = 0
    /\ orch = "poll"
    /\ planner = [p \in Planners |-> Idle]
    /\ dev = Idle
    /\ sweep = NoSweep
    /\ runs = 0 /\ plans = 0 /\ cut = {} /\ late = {}

-----------------------------------------------------------------------------
(* Orchestrator.run_once                                                   *)

\* The upsert transaction inserts a ticket it has no row for ...
Insert ==
    /\ orch = "poll"
    /\ task = NoTask
    /\ rows < MaxRows
    /\ rows' = rows + 1
    /\ task' = NewTask(rows + 1)
    /\ orch' = "dispatch"
    /\ UNCHANGED <<busVars, plan, mrs, epoch, planner, dev, sweep, faults, touches, obsVars>>

\* ... and refreshes the payload, never the status, of one it has: the ticket
\* was edited after the plan was made.
Touch ==
    /\ orch = "poll"
    /\ task # NoTask
    /\ touches < MaxTouches
    /\ touches' = touches + 1
    /\ task' = [task EXCEPT !.stale = FALSE]
    /\ plan' = [plan EXCEPT !.fresh = FALSE]
    /\ UNCHANGED <<busVars, mrs, rows, epoch, orch, planner, dev, sweep, faults, obsVars>>

\* After the commit; a failure is logged and forgotten.
Dispatch ==
    /\ orch = "dispatch"
    /\ Publish(Discovered) \/ UNCHANGED busVars
    /\ orch' = "poll"
    /\ UNCHANGED <<rowVars, envVars, planner, dev, sweep, obsVars>>

-----------------------------------------------------------------------------
(* AnalystInbox.handle and _run_step                                       *)

\* The run of p goes on to pc, and nothing else moves.
Step(p, where) == planner' = [planner EXCEPT ![p].pc = where]

\* The run of p is over and its handler returns.
End(p) ==
    /\ planner' = [planner EXCEPT ![p] = Idle]
    /\ Return("inbox", planner[p])

Handle ==
    /\ planner["inbox"].pc = "idle"
    /\ \E m \in Discovered :
        /\ Take("inbox", Discovered, m)
        /\ planner' = [planner EXCEPT !["inbox"] = [Idle EXCEPT !.pc = "start", !.msg = m]]
    /\ UNCHANGED <<rowVars, rows, epoch, touches, orch, dev, sweep, obsVars>>

\* load_task and has_fresh_plan: no row, or a plan newer than the last edit of
\* the ticket, and there is nothing to do.  The loaded row keeps the status it
\* had: _run_step looks at that one.
Load ==
    /\ planner["inbox"].pc = "start"
    /\ \/ /\ task = NoTask \/ (plan.saved /\ plan.fresh)
          /\ End("inbox")
       \/ /\ task # NoTask /\ ~(plan.saved /\ plan.fresh)
          /\ planner' = [planner EXCEPT
                !["inbox"].id = task.id, !["inbox"].spent = task.steps >= MaxSteps,
                !["inbox"].pc = IF InStatus({"READY", "FAILED"}) THEN "closed" ELSE "loaded"]
          /\ UNCHANGED busVars
    /\ UNCHANGED <<rowVars, envVars, orch, dev, sweep, obsVars>>

\* The row goes to PLANNING; the step begins unless the loaded row was final.
SetPlanning ==
    /\ task' = SetStatus(planner["inbox"].id, "PLANNING")
    /\ \/ /\ planner["inbox"].pc = "loaded"
          /\ Step("inbox", "enter")
          /\ UNCHANGED busVars
       \/ /\ planner["inbox"].pc = "closed"
          /\ End("inbox")
    /\ UNCHANGED <<plan, mrs, envVars, orch, dev, sweep, obsVars>>

\* The coalescer's poller resumes the analyst on a reply, or on silence for
\* consent: the wait is over, the step begins unless the row is final.
Resume ==
    /\ planner["coalescer"].pc = "idle"
    /\ task # NoTask /\ task.awaiting
    /\ task' = [task EXCEPT !.awaiting = FALSE, !.stale = FALSE]
    /\ IF InStatus({"READY", "FAILED"})
       THEN UNCHANGED planner
       ELSE planner' = [planner EXCEPT !["coalescer"] =
                [Idle EXCEPT !.pc = "enter", !.id = task.id, !.spent = task.steps >= MaxSteps]]
    /\ UNCHANGED <<busVars, plan, mrs, envVars, orch, dev, sweep, obsVars>>

\* A loaded row with a spent iteration budget ends the session; else increment_iteration counts
\* the step and moves the deadline.  A row that a reset deleted ends the step.
Enter(p) ==
    /\ planner[p].pc = "enter"
    /\ \/ /\ ~HasRow(planner[p].id)
          /\ End(p)
          /\ UNCHANGED task
       \/ /\ HasRow(planner[p].id) /\ ~planner[p].spent
          /\ task' = [task EXCEPT !.steps = @ + 1, !.deadline = TRUE, !.stale = FALSE]
          /\ Step(p, "fresh")
          /\ UNCHANGED busVars
       \/ /\ HasRow(planner[p].id) /\ planner[p].spent
          /\ task' = [SetStatus(planner[p].id, "FAILED") EXCEPT !.awaiting = FALSE]
          /\ End(p)
    /\ UNCHANGED <<plan, mrs, envVars, orch, dev, sweep, obsVars>>

\* run_started is read and the model starts.
StartRun(p) ==
    /\ planner[p].pc = "fresh"
    /\ planner' = [planner EXCEPT ![p].pc = "running", ![p].from = epoch]
    /\ UNCHANGED <<busVars, rowVars, envVars, orch, dev, sweep, obsVars>>

\* The run crashed, or was_reset_since discards its results.
Discard(p) ==
    /\ planner[p].pc = "running"
    /\ End(p)
    /\ UNCHANGED <<rowVars, envVars, orch, dev, sweep, obsVars>>

\* Mutant: the analyst's reset check is gone.
AnyRunCounts(r) == TRUE

\* was_reset_since: the marker is not newer than the start of the run.
NotReset(r) == r.from = epoch

\* _on_ask: the row awaits an answer.
Ask(p) ==
    /\ planner[p].pc = "running" /\ NotReset(planner[p])
    /\ task' = IF HasRow(planner[p].id) THEN [task EXCEPT !.awaiting = TRUE, !.stale = FALSE] ELSE task
    /\ End(p)
    /\ UNCHANGED <<plan, mrs, envVars, orch, dev, sweep, obsVars>>

\* _terminate, or a plan that says FAILED: stuck, blocked, no effect, no plan.
Terminate(p) ==
    /\ planner[p].pc = "running" /\ NotReset(planner[p])
    /\ task' = IF HasRow(planner[p].id)
               THEN [SetStatus(planner[p].id, "FAILED") EXCEPT !.awaiting = FALSE] ELSE task
    /\ End(p)
    /\ UNCHANGED <<plan, mrs, envVars, orch, dev, sweep, obsVars>>

Submit(p) ==
    /\ planner[p].pc = "running" /\ NotReset(planner[p])
    /\ Step(p, "save")
    /\ UNCHANGED <<busVars, rowVars, envVars, orch, dev, sweep, obsVars>>

\* save_plan supersedes and inserts in one transaction, by the ticket's key.
SavePlan(p) ==
    /\ planner[p].pc = "save"
    /\ plan' = [saved |-> TRUE, fresh |-> TRUE, from |-> planner[p].from]
    /\ plans' = plans + 1
    /\ Step(p, "ready")
    /\ UNCHANGED <<busVars, task, mrs, envVars, orch, dev, sweep, runs, cut, late>>

\* The row is READY, waits for nobody and has no deadline any more.
SetReady(p) ==
    /\ planner[p].pc = "ready"
    /\ task' = IF HasRow(planner[p].id)
               THEN [SetStatus(planner[p].id, "READY") EXCEPT !.awaiting = FALSE, !.deadline = FALSE]
               ELSE task
    /\ cut' = IF HasRow(planner[p].id) THEN {} ELSE cut
    /\ Step(p, "publish")
    /\ UNCHANGED <<busVars, plan, mrs, envVars, orch, dev, sweep, runs, plans, late>>

\* The plan of the ticket's row is p's to publish.
ToPublish(p) == planner[p].pc = "publish" /\ HasRow(planner[p].id)

\* Something of the row with this id was cut short.
Cut(id, what) == cut' = IF HasRow(id) THEN cut \cup {what} ELSE cut

\* plan.ready is published, unless the plan names no repository; when that
\* fails the handler raises.
PublishPlan(p) ==
    /\ planner[p].pc = "publish"
    /\ \/ Publish(PlanReady) /\ Step(p, "told") /\ UNCHANGED cut
       \/ UNCHANGED busVars /\ Step(p, "told") /\ Cut(planner[p].id, "publish")
       \/ /\ Raise("inbox", planner[p])
          /\ planner' = [planner EXCEPT ![p] = Idle]
          /\ Cut(planner[p].id, "publish")
    /\ UNCHANGED <<rowVars, envVars, orch, dev, sweep, runs, plans, late>>

Told(p) ==
    /\ planner[p].pc = "told"
    /\ End(p)
    /\ UNCHANGED <<rowVars, envVars, orch, dev, sweep, obsVars>>

\* Mutant: the sweep gives up on those who wait and passes over the others.
OverdueWaiting ==
    /\ planner["coalescer"].pc = "idle"
    /\ InStatus({"PLANNING"}) /\ task.deadline /\ task.awaiting
    /\ \A p \in Planners : planner[p].id = task.id => planner[p].pc \in BeforeStep
    /\ planner' = [planner EXCEPT !["coalescer"] = [Idle EXCEPT !.pc = "overdue", !.id = task.id]]
    /\ UNCHANGED <<busVars, rowVars, envVars, orch, dev, sweep, obsVars>>

\* sweep_deadlines reads the planning tickets whose deadline has passed and
\* that wait for nobody.  The deadline is counted from the latest step and
\* longer than any: it does not pass during one.
FindOverdue ==
    /\ planner["coalescer"].pc = "idle"
    /\ InStatus({"PLANNING"}) /\ task.deadline /\ ~task.awaiting
    /\ \A p \in Planners : planner[p].id = task.id => planner[p].pc \in BeforeStep
    /\ planner' = [planner EXCEPT !["coalescer"] = [Idle EXCEPT !.pc = "overdue", !.id = task.id]]
    /\ UNCHANGED <<busVars, rowVars, envVars, orch, dev, sweep, obsVars>>

\* _terminate of what was overdue then, whatever the row says by now.
GiveUp(p) ==
    /\ planner[p].pc = "overdue"
    /\ task' = IF HasRow(planner[p].id)
               THEN [SetStatus(planner[p].id, "FAILED") EXCEPT !.awaiting = FALSE] ELSE task
    /\ End(p)
    /\ UNCHANGED <<plan, mrs, envVars, orch, dev, sweep, obsVars>>

Planner(p) ==
    \/ Enter(p) \/ StartRun(p) \/ Discard(p)
    \/ Ask(p) \/ Terminate(p)
    \/ Submit(p) \/ SavePlan(p) \/ SetReady(p) \/ PublishPlan(p) \/ Told(p)
    \/ GiveUp(p)

-----------------------------------------------------------------------------
(* DevInbox.handle and DevAgent._handle_plan_locked                        *)

At(where) == dev.pc = where
Go(where) == dev' = [dev EXCEPT !.pc = where]

\* The run is over and DevInbox.handle returns: the message will be acked.
DevReturns == dev' = Idle /\ Return("dev", dev)

\* run_started is read under the workspace lock.
HandlePlan ==
    /\ At("idle")
    /\ \E m \in PlanReady :
        /\ Take("dev", PlanReady, m)
        /\ dev' = [Idle EXCEPT !.pc = "start", !.msg = m, !.from = epoch]
    /\ UNCHANGED <<rowVars, rows, epoch, touches, orch, planner, sweep, obsVars>>

\* Mutant: the precheck does not look for a merge request.
ReadyPlan == task # NoTask /\ plan.saved

\* _precheck: the row, a READY plan, no open merge request.
Actionable == task # NoTask /\ plan.saved /\ ~OpenRow

\* _load and _precheck; DevInbox logs and swallows an error of the database.
Precheck ==
    /\ At("start")
    /\ \/ ~Actionable /\ DevReturns /\ UNCHANGED cut
       \/ /\ Actionable
          /\ dev' = [dev EXCEPT !.pc = "prep", !.id = task.id]
          /\ UNCHANGED <<busVars, cut>>
       \/ DevReturns /\ Cut(task.id, "prepare")
    /\ UNCHANGED <<rowVars, envVars, orch, planner, sweep, runs, plans, late>>

\* Mutant: DevInbox swallows it like any other error.
WikiSwallowed ==
    /\ At("prep")
    /\ DevReturns
    /\ UNCHANGED <<rowVars, envVars, orch, planner, sweep, obsVars>>

\* WikiUnavailableError: the handler raises before the run touched anything.
WikiDown ==
    /\ At("prep")
    /\ dev' = Idle
    /\ Raise("dev", dev)
    /\ UNCHANGED <<rowVars, envVars, orch, planner, sweep, obsVars>>

\* Clone and branch: CODING, FAILED on a permanent error.  A transient one
\* becomes a CodeAgentInfraError, which DevInbox logs and swallows, like a write
\* of the status that fails.
PrepareBranch ==
    /\ At("prep")
    /\ \/ /\ task' = SetStatus(dev.id, "CODING")
          /\ Go("coding")
          /\ UNCHANGED <<busVars, cut>>
       \/ /\ task' = SetStatus(dev.id, "FAILED")
          /\ DevReturns
          /\ UNCHANGED cut
       \/ /\ Cut(dev.id, "prepare")
          /\ DevReturns
          /\ UNCHANGED task
    /\ UNCHANGED <<plan, mrs, envVars, orch, planner, sweep, runs, plans, late>>

\* The model ran: it submitted work that was committed; it or the SDK failed,
\* which leaves CODING; it gave up, raised or changed nothing, which is FAILED.
CallModel ==
    /\ At("coding")
    /\ \/ /\ Go("gate")
          /\ UNCHANGED <<busVars, task>>
       \/ /\ task' \in {task, SetStatus(dev.id, "FAILED")}
          /\ DevReturns
    /\ runs' = runs + 1
    /\ UNCHANGED <<plan, mrs, envVars, orch, planner, sweep, plans, cut, late>>

\* The last gate before the push: a reset discards the run, and so does a
\* database that cannot be asked.
ResetGate ==
    /\ At("gate")
    /\ \/ DevReturns
       \/ /\ NotReset(dev)
          /\ Go("push")
          /\ UNCHANGED busVars
    /\ UNCHANGED <<rowVars, envVars, orch, planner, sweep, obsVars>>

\* A transient error leaves CODING, any other is FAILED.
Push ==
    /\ At("push")
    /\ \/ /\ Go("create")
          /\ UNCHANGED <<busVars, task>>
       \/ /\ task' \in {task, SetStatus(dev.id, "FAILED")}
          /\ DevReturns
    /\ UNCHANGED <<plan, mrs, envVars, orch, planner, sweep, obsVars>>

\* GitLab creates the merge request, or raises and DevInbox swallows it; also
\* when only the answer was lost.  The title of the ticket is part of the branch
\* name, so that an earlier merge request need not stand in the way.
CreateMergeRequest ==
    /\ At("create")
    /\ \/ /\ \E i \in 1 .. MaxMRs :
                /\ mrs[i].vcs = "none"
                /\ \A j \in 1 .. i - 1 : mrs[j].vcs # "none"
                /\ mrs' = [mrs EXCEPT ![i] = [row |-> "none", vcs |-> "open", from |-> dev.from]]
          /\ \/ Go("persist") /\ UNCHANGED <<busVars, faults>>
             \/ DevReturns /\ faults < MaxFaults /\ faults' = faults + 1
       \/ DevReturns /\ UNCHANGED <<mrs, faults>>
    /\ UNCHANGED <<task, plan, rows, epoch, touches, orch, planner, sweep, obsVars>>

\* Mutant: a write that fails is logged and forgotten.
PersistOrNot ==
    /\ At("persist")
    /\ \E i \in 1 .. MaxMRs :
        /\ mrs[i].vcs # "none"
        /\ \A j \in i + 1 .. MaxMRs : mrs[j].vcs = "none"
        /\ mrs' \in {mrs, [mrs EXCEPT ![i].row = "open"]}
    /\ Go("open")
    /\ UNCHANGED <<busVars, task, plan, envVars, orch, planner, sweep, obsVars>>

\* The latest merge request gets its row, or the transaction raises and DevInbox
\* swallows that.
PersistMR ==
    /\ At("persist")
    /\ \/ /\ \E i \in 1 .. MaxMRs :
                /\ mrs[i].vcs # "none"
                /\ \A j \in i + 1 .. MaxMRs : mrs[j].vcs = "none"
                /\ mrs' = [mrs EXCEPT ![i].row = "open"]
          /\ Go("open")
          /\ UNCHANGED <<busVars, faults>>
       \/ /\ faults < MaxFaults /\ faults' = faults + 1
          /\ DevReturns
          /\ UNCHANGED mrs
    /\ UNCHANGED <<task, plan, rows, epoch, touches, orch, planner, sweep, obsVars>>

\* A write that fails leaves CODING.
OpenMR ==
    /\ At("open")
    /\ task' \in {task, SetStatus(dev.id, "MR_OPEN")}
    /\ DevReturns
    /\ UNCHANGED <<plan, mrs, envVars, orch, planner, sweep, obsVars>>

Dev ==
    \/ Precheck \/ PrepareBranch \/ CallModel \/ ResetGate \/ Push
    \/ CreateMergeRequest \/ PersistMR \/ OpenMR

-----------------------------------------------------------------------------
(* RecoveryService                                                         *)

\* stuck_after passes without a write to the row.
Age ==
    /\ InStatus({"DISCOVERED", "CODING"}) /\ ~task.stale
    /\ task' = [task EXCEPT !.stale = TRUE]
    /\ UNCHANGED <<busVars, plan, mrs, envVars, orch, planner, dev, sweep, obsVars>>

\* Mutant: only tickets of the Dev-agent are looked for.
FindCoding ==
    /\ sweep.pc = "idle"
    /\ InStatus({"CODING"}) /\ task.stale
    /\ sweep' = [pc |-> "check", topic |-> "plan", id |-> task.id]
    /\ UNCHANGED <<busVars, rowVars, envVars, orch, planner, dev, obsVars>>

\* A snapshot of the stale rows; the two sweeps run one after the other.
FindStuck ==
    /\ sweep.pc = "idle"
    /\ task # NoTask /\ task.stale
    /\ \/ /\ InStatus({"CODING"})
          /\ sweep' = [pc |-> "check", topic |-> "plan", id |-> task.id]
       \/ /\ InStatus({"DISCOVERED"})
          /\ sweep' = [pc |-> "claim", topic |-> "discovered", id |-> task.id]
    /\ UNCHANGED <<busVars, rowVars, envVars, orch, planner, dev, obsVars>>

\* A CODING ticket is re-dispatched when it has a plan and no merge request.
CheckPlan ==
    /\ sweep.pc = "check"
    /\ sweep' = IF plan.saved /\ ~OpenRow THEN [sweep EXCEPT !.pc = "claim"] ELSE NoSweep
    /\ UNCHANGED <<busVars, rowVars, envVars, orch, planner, dev, obsVars>>

\* Mutant: the attempt is not counted.
ClaimUncounted ==
    /\ sweep.pc = "claim"
    /\ task' = IF HasRow(sweep.id) /\ task.attempts >= MaxAttempts
               THEN SetStatus(sweep.id, "FAILED")
               ELSE IF HasRow(sweep.id) THEN [task EXCEPT !.stale = FALSE] ELSE task
    /\ sweep' = IF HasRow(sweep.id) /\ task.attempts < MaxAttempts
                THEN [sweep EXCEPT !.pc = "publish"] ELSE NoSweep
    /\ UNCHANGED <<busVars, plan, mrs, envVars, orch, planner, dev, obsVars>>

\* Mutant: nothing happens to a row whose attempts are spent.
ClaimNoFlip ==
    /\ sweep.pc = "claim"
    /\ IF HasRow(sweep.id) /\ task.attempts < MaxAttempts
       THEN /\ task' = [task EXCEPT !.attempts = @ + 1, !.stale = FALSE]
            /\ sweep' = [sweep EXCEPT !.pc = "publish"]
       ELSE /\ sweep' = NoSweep
            /\ UNCHANGED task
    /\ UNCHANGED <<busVars, plan, mrs, envVars, orch, planner, dev, obsVars>>

\* _claim_attempt counts the attempt on the row, whatever became of the row's
\* status meanwhile; a row whose attempts are spent is FAILED.
ClaimAttempt ==
    /\ sweep.pc = "claim"
    /\ \/ /\ ~HasRow(sweep.id)
          /\ sweep' = NoSweep
          /\ UNCHANGED task
       \/ /\ HasRow(sweep.id) /\ task.attempts >= MaxAttempts
          /\ task' = SetStatus(sweep.id, "FAILED")
          /\ sweep' = NoSweep
       \/ /\ HasRow(sweep.id) /\ task.attempts < MaxAttempts
          /\ task' = [task EXCEPT !.attempts = @ + 1, !.stale = FALSE]
          /\ sweep' = [sweep EXCEPT !.pc = "publish"]
    /\ UNCHANGED <<busVars, plan, mrs, envVars, orch, planner, dev, obsVars>>

\* The message again; a failure is logged, the attempt stays spent.
Republish ==
    /\ sweep.pc = "publish"
    /\ \/ Publish(IF sweep.topic = "plan" THEN PlanReady ELSE Discovered)
       \/ UNCHANGED busVars
    /\ sweep' = NoSweep
    /\ UNCHANGED <<rowVars, envVars, orch, planner, dev, obsVars>>

Recovery == FindStuck \/ CheckPlan \/ ClaimAttempt \/ Republish

-----------------------------------------------------------------------------
(* Everything around them.                                                 *)

\* The runner acknowledges what its handler returned from.
Ack ==
    /\ \E m \in Messages : Bus!Acknowledge(m)
    /\ UNCHANGED <<rowVars, envVars, orch, planner, dev, sweep, obsVars>>

\* The runs between their reset check and what they write.
PastCheck == {p \in Planners : planner[p].pc = "save"}
             \cup (IF dev.pc \in {"push", "create", "persist"} THEN {"dev"} ELSE {})

\* /reset: the rows of the ticket and its unconsumed messages go, the marker
\* is written, in one transaction.  GitLab keeps its merge requests.
Reset ==
    /\ epoch < MaxResets
    /\ epoch' = epoch + 1
    /\ task' = NoTask
    /\ plan' = NoPlan
    /\ mrs' = [i \in 1 .. MaxMRs |-> [mrs[i] EXCEPT !.row = "none"]]
    /\ status' = [m \in Messages |-> IF status[m] = "queued" THEN "wiped" ELSE status[m]]
    /\ cut' = {} /\ late' = PastCheck
    /\ UNCHANGED <<holders, done, rows, faults, touches, orch, planner, dev, sweep, runs, plans>>

\* A human, or --with-mr, closes or merges a merge request ...
CloseMR ==
    /\ \E i \in 1 .. MaxMRs :
        /\ mrs[i].vcs = "open"
        /\ mrs' = [mrs EXCEPT ![i].vcs = "closed"]
    /\ UNCHANGED <<busVars, task, plan, envVars, orch, planner, dev, sweep, obsVars>>

\* ... and the Reviewer's next tick writes that to the row.
SeeClosed ==
    /\ \E i \in 1 .. MaxMRs :
        /\ mrs[i].vcs = "closed" /\ mrs[i].row = "open"
        /\ mrs' = [mrs EXCEPT ![i].row = "closed"]
    /\ UNCHANGED <<busVars, task, plan, envVars, orch, planner, dev, sweep, obsVars>>

\* The process dies and is started again: every run is gone, its message is
\* the bus's to deliver again.
Crash ==
    /\ faults < MaxFaults
    /\ faults' = faults + 1
    /\ holders' = [m \in Messages |-> {}]
    /\ orch' = "poll"
    /\ planner' = [p \in Planners |-> Idle]
    /\ dev' = Idle
    /\ sweep' = NoSweep
    /\ cut' = IF \E p \in Planners : ToPublish(p) THEN cut \cup {"publish"} ELSE cut
    /\ UNCHANGED <<status, done, rowVars, rows, epoch, touches, runs, plans, late>>

Next ==
    \/ Insert \/ Touch \/ Dispatch
    \/ Handle \/ Load \/ SetPlanning \/ Resume \/ FindOverdue
    \/ \E p \in Planners : Planner(p)
    \/ HandlePlan \/ WikiDown \/ Dev
    \/ Age \/ Recovery
    \/ Ack \/ Reset \/ CloseMR \/ SeeClosed \/ Crash

Spec == Init /\ [][Next]_vars

\* The loops of the process keep turning, the bus delivers and a handler that
\* is delivered ends (a model run has a wall-clock limit); faults are few.
Fairness ==
    /\ WF_vars(Insert \/ Dispatch)
    /\ WF_vars(Handle \/ Load \/ SetPlanning \/ Planner("inbox"))
    /\ WF_vars(Resume) /\ WF_vars(FindOverdue) /\ WF_vars(Planner("coalescer"))
    /\ WF_vars(HandlePlan \/ Dev)
    /\ WF_vars(Age) /\ WF_vars(Recovery) /\ WF_vars(Ack)

FairSpec == Spec /\ Fairness

-----------------------------------------------------------------------------

\* However often plan.ready is published and delivered, a ticket never has two
\* open merge requests in the bot's records.  DevAgent._precheck: "guards
\* against a re-published plan.ready ... opening a second branch + MR".
OneOpenMR == Cardinality({i \in 1 .. MaxMRs : mrs[i].row = "open"}) <= 1

\* The ticket that says MR_OPEN has its merge request in the records the
\* Reviewer and DevOps work from, whatever crashed or was reset in between.
MROpenIsRecorded == InStatus({"MR_OPEN"}) => \E i \in 1 .. MaxMRs : mrs[i].row # "none"

\* A ticket that Dev took up keeps a READY plan: without one RecoveryService
\* would never touch it again.
CodingHasPlan == InStatus({"CODING", "MR_OPEN"}) => plan.saved

\* Nobody has to look for what the status of a ticket promises, whatever stale
\* runs still write after a reset or a crash.
StatusIsBacked == MROpenIsRecorded /\ CodingHasPlan

\* The merge requests that a run of this time line made, and nobody has on record.
Orphans == {i \in 1 .. MaxMRs : mrs[i].vcs # "none" /\ mrs[i].row = "none" /\ mrs[i].from = epoch}

\* A merge request that no Reviewer will ever look at is the price of a fault
\* between GitLab and its row, one for each: a crash, a lost answer, a row that
\* could not be written.  The next run of the ticket makes another one.
OrphansAreFaults ==
    Cardinality(Orphans) <= faults + IF At("persist") /\ dev.from = epoch THEN 1 ELSE 0

\* The model runs of the Dev-agent are paid for by a plan, by one of the few
\* attempts of a task row, or by a fault.  RecoveryService: a task whose runs
\* keep dying "must NOT be re-run forever".
RunsAreBudgeted == runs <= plans + rows * MaxAttempts + faults

\* A READY ticket is on its way to Dev: its plan.ready is about to be published
\* or not handled yet.  Otherwise it was not published, for want of a repository
\* or by a fault, or the run that took it met a failure of the database or of git
\* before CODING, or the ticket has its merge request on record; there is no
\* other way to be left at READY, where no sweep looks.
ReadyIsUnderWay ==
    InStatus({"READY"}) =>
        \/ \E p \in Planners : ToPublish(p)
        \/ \E m \in PlanReady : status[m] = "queued" /\ m \notin done
        \/ cut # {}
        \/ \E i \in 1 .. MaxMRs : mrs[i].row # "none"

\* The records that a run of an earlier time line made.
Stale == {i \in 1 .. MaxMRs : mrs[i].row # "none" /\ mrs[i].from # epoch}

\* A reset cannot stop a run that has passed its check.  What is on record of an
\* earlier time line is from runs that stood between check and write when the
\* last reset came: one merge request at most, and the plan.
LateWritesAreFew ==
    /\ plan.saved /\ plan.from # epoch => late \cap Planners # {}
    /\ Stale # {} => "dev" \in late
    /\ \A i, j \in Stale : i = j

\* A ticket does not stay DISCOVERED: the poll's message, a re-dispatch or the
\* end of its attempts gets it out, whichever of commit, publish, delivery and
\* handling was cut short.
DiscoveredMovesOn == InStatus({"DISCOVERED"}) ~> ~InStatus({"DISCOVERED"})

\* Nor CODING without a merge request on record.
CodingMovesOn ==
    InStatus({"CODING"}) ~> ~InStatus({"CODING"}) \/ \E i \in 1 .. MaxMRs : mrs[i].row # "none"

\* Nor PLANNING with nobody to wait for, once its session has begun.
SessionMovesOn ==
    InStatus({"PLANNING"}) /\ task.deadline ~> ~InStatus({"PLANNING"}) \/ task.awaiting

-----------------------------------------------------------------------------
(* What a comment of the code says and the code does not keep.  No run has   *)
(* these; README, section 5, has the behaviours that violate them.           *)

\* "A network hiccup ... is transient: leave the task in place and raise infra
\* so the capped recovery sweep retries it", of the branch preparation.
TransientPrepIsRetried == "prepare" \in cut /\ InStatus({"READY"}) ~> ~InStatus({"READY"})

\* "Handlers must therefore be idempotent", of the port: whatever is delivered
\* once more, a ticket in PLANNING has a run, a message, an awaited answer or a
\* deadline that gets it out.
PlanningIsAttended ==
    InStatus({"PLANNING"}) =>
        \/ task.awaiting \/ task.deadline
        \/ \E p \in Planners : planner[p].pc # "idle"
        \/ \E m \in Discovered : status[m] = "queued" /\ m \notin done

\* ticket_reset: "a run in flight during this reset ... discards its late
\* writes (save_plan / dev push+MR ...)": the plan and the merge requests on
\* record are from runs that started after the last reset.
ResetDiscardsLateWrites ==
    /\ plan.saved => plan.from = epoch
    /\ \A i \in 1 .. MaxMRs : mrs[i].row # "none" => mrs[i].from = epoch

=============================================================================
