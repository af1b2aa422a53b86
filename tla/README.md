# Virtual Dev: a verification project

TLA+ models, TLC runs and TLAPS proofs for Virtual Dev, the AI developer in
`src/src/virtual_dev` (paths below are relative to that directory). A ticket
that carries the bot's label is found in the tracker, planned by an
Analyst-agent that may ask people, coded by a Dev-agent, and followed as a
merge request by a Reviewer and a DevOps-agent.

## 1. The system

One asyncio process (the lifespan of the FastAPI application, `presentation/web/app.py`)
runs every part as a task; they share a PostgreSQL database and a durable
message bus kept in it, and nothing else. Two processes overlap during a rolling
deploy. A shutdown sets every worker's stop event, waits ten seconds and
cancels what is left.

| Component | State | Operations | Talks to |
|---|---|---|---|
| Message bus, `adapters/message_bus/sqlalchemy_bus.py` | `agent_messages` rows: `claimed_until`, `consumed_at` | publish, claim (SELECT, then conditional UPDATE), renew, ack | database |
| AgentRunner, `runtime/workers/agent_runner.py` | the message it holds, heartbeat, stop event | subscribe, dispatch, renew, ack, back off, stop | bus, one inbox |
| Orchestrator, `application/agents/orchestrator.py` | none | poll: upsert tasks, commit, publish `task.discovered` | tracker, bus |
| AnalystInbox, `runtime/workers/analyst_inbox.py`, with the session repository and the Analyst-agent | `TaskRow`: internal status, `awaiting_*`, iterations, deadline; conversation steps and fragments; `PlanRow` | handle `task.discovered`, buffer replies, flush idle sessions, sweep deadlines, run the model, apply its effect | bus, chat, tracker |
| Dev-agent and DevInbox, `application/agents/dev.py`, `runtime/workers/dev_inbox.py` | the clone (under a lock), `MergeRequestRow` | plan to merge request, iterate on review, fix a pipeline | bus, git, GitLab |
| RecoveryService, `application/services/recovery_service.py` | `recovery_attempts` | re-dispatch what stays CODING or DISCOVERED, give up after three attempts | bus |
| Ticket reset, `application/services/ticket_reset.py` | `TicketResetRow` | delete every row of a ticket, leave a marker; runs ask whether they were reset | database |
| MmThreadListener, `runtime/workers/mm_thread_listener.py` | processed-post rows, cursors, posts in flight | route a chat post: `/reset`, `/restart`, intake, analyst reply, review thread; catch up after a gap | everything |
| TaskIntakeInbox, `runtime/workers/intake_inbox.py` | `IntakeRequestRow` | claim a post, draft a ticket, create it once | tracker, chat |
| Reviewer, `application/agents/reviewer.py` | `MergeRequestRow`: watermark, pending comments, pings; `ProcessedReviewCommentRow` | tick: refresh, classify comments, claim and answer, iterate, ping, ack, remind, persist | GitLab, Dev-agent, chat |
| DevOps, `application/agents/devops.py` | `MergeRequestRow` autofix columns | tick: failing pipeline, fix attempts, escalation | GitLab, Dev-agent |
| Communicator, `application/services/communicator.py` | `EventRow` | send a message within working hours, limits and dedupe | chat |
| GitLab adapter, `adapters/vcs/gitlab.py` | one checkout per repository (clone lock, leftovers, tracking refs) | clone, check out, push, rewrite with a backup and a lease, merge requests, comments, pipelines | git, GitLab |
| Adapters, tools, support services, configuration, CLI, dashboard | clients and formatting | | external services |

What makes each of them correct, and what is hard about it:

* **Bus and runner.** A message is not lost whatever crashes; it is not worked
  on by two runners because one is slow, only because one is silent. Hard:
  claims are two statements, leases are wall-clock times, renewals fail, acks
  fail after they took effect, two pods share an inbox.
* **Pipeline** (orchestrator, analyst, dev, recovery, reset). A ticket ends
  somewhere a human or a worker sees it; work is done once; a wiped ticket stays
  wiped. Hard: publication is not part of the transaction before it; handlers
  are repeated; every run reads rows minutes before it writes them.
* **Analyst session.** A reply of a person reaches the analyst exactly once; a
  session ends by a plan, a person or a deadline. Hard: replies arrive during
  coalescing and during runs, and the poller races the inbox.
* **Listener and intake.** A chat post is handled once although the WebSocket and
  the catch-up sweep of every pod deliver it; what is given back is tried again; a
  post becomes one ticket; a command is carried out once. Hard: the claim is looked
  at before the model decides and made afterwards, claims of two tables overlap,
  every call to chat and tracker may fail with or without its effect.
* **Reviewer and DevOps.** Each comment is answered once and none is passed over, each
  red pipeline is retried a bounded number of times and taken up in the end. Hard: a
  tick reads a row, acts for minutes and writes it back, beside the ticks of another
  pod, the fix task, the listener and people.
* **Workspace.** Iterations that share a checkout do not see each other's work, and no
  commit of a merge request vanishes from origin. Hard: kills in the middle of a clone,
  pushes of people, pushes that fail after they took effect.
* **Communicator.** Nobody is flooded; silence counts as consent only after working time.

## 2. The modules

| Module | Models | Role |
|---|---|---|
| `AtLeastOnce` | `domain/ports/message_bus.py` | abstract: what the port promises |
| `MessageBus` | SqlAlchemyMessageBus and AgentRunner | detailed: rows, leases, clocks; refines `AtLeastOnce` |
| `TaskPipeline` | orchestrator, AnalystInbox, Dev-agent, RecoveryService, reset, composed over `AtLeastOnce` | one ticket from the tracker to a merge request |
| `AnalystSession` | AnalystInbox, the session repository, the Analyst-agent's late-reply check and the listener's route to it | the conversation about one ticket, zoomed in from `TaskPipeline` |
| `Workspace` | GitLabVcs's checkout and branches, `DevAgent.handle_iteration`, `run_iteration_with_retry` | iterations that share one clone |
| `MergeRequest` | ReviewerAgent, DevOpsAgent, the listener's iterations and `/restart`, `ci_state` | one merge request from draft to its end; refines `HandledOnce` |
| `HandledOnce` | `processed_thread_posts`, `processed_review_comments` | abstract: what a claim table promises; refined by `ThreadListener` and `MergeRequest` |
| `ThreadListener` | MmThreadListener, TaskIntakeInbox, the calls of Mattermost and Jira that they make | posts in the chat; refines `HandledOnce` |
| `Communicator` | CommunicatorService, `ask_team`, the deadline of a proposal | when the bot may speak |
| `MCMessageBus`, `MCTaskPipeline`, `MCAnalystSession`, `MCWorkspace`, `MCMergeRequest`, `MCThreadListener`, `MCCommunicator` | | small instances |
| `MessageBus_proofs`, `TaskPipeline_proofs`, `AnalystSession_proofs`, `Workspace_proofs`, `MergeRequest_proofs`, `ThreadListener_proofs`, `Communicator_proofs` | | TLAPS proofs about the module they are named for, for all values of its constants (section 4) |

### MessageBus

`row[m]` and `left[m]` are a row of `agent_messages`: whether it is consumed
(`consumed_at`) or deleted, and `claimed_until - now`. `pc[c]`, `msg[c]`,
`beat[c]`, `timer[c]` and `stop[c]` are an AgentRunner. The claim is two
actions, `ClaimSelect` (`_claim_within` reads the clock and selects) and
`ClaimCommit`/`ClaimLost`/`ClaimError` (the UPDATE with the same clock reading);
so is a renewal. `Tick` advances time by one unit and keeps each transaction
within `MaxTxn` of its clock reading and each due wake-up within `MaxStall`: the
event loop and the database are slow, not stopped; a runner that stops
altogether is `Crash`. A database error may come before or after the commit. Time is
relative, so that the state space is finite without a bound on time.
`silent`, `lapsed`, `missed` and `handled` are observers.

The lease is compared with `<=`: a row whose `claimed_until` is now is free. A
renewal that is cancelled together with its handler is taken as not applied; a
renewal that was applied only lengthens the lease of a message that is about to
be acknowledged.

### TaskPipeline

One ticket; every action is the code between two awaits that matter (one
transaction, or one call to the model, git or GitLab).

* `task` is the `TaskRow` (id, status, `recovery_attempts`, iterations, whether
  `updated_at` is older than `stuck_after`, whether it awaits an answer, whether
  it has a deadline). A reset deletes it and the next poll inserts a row with a new id.
* `plan` is the READY `PlanRow` and whether it is newer than the ticket's last edit.
* `mrs[i]` is a merge request in GitLab (`vcs`) and in the database (`row`).
* `planner["inbox"]` and `planner["coalescer"]` are the two places that run
  `AnalystInbox._run_step`: the handler of `task.discovered`, and the
  answer-coalescer's poller. They are concurrent; each is sequential.
* `dev` is the Dev-agent, `sweep` the recovery poller, `orch` the gap between the
  orchestrator's commit and its publish.
* `epoch` counts resets. A run carries the epoch in which it read its start time
  (`from`): comparing `reset_at >= run_started` is comparing epochs.
* `status`, `holders`, `done` are the bus, an instance of `AtLeastOnce`.

What the model and the database do with the inputs that matter is
nondeterministic: the analyst asks, plans, ends without a plan or crashes; git
succeeds, fails for good or for now; the model submits, gives up or dies. GitLab's answer to
the creation of a merge request may be lost, which costs a fault as a crash does.

A database error in the Dev-agent's handler is swallowed by its inbox
(`runtime/workers/dev_inbox.py:139`) and the message acknowledged, so it is no redelivery: `Precheck`, `ResetGate`,
`PersistMR` and `OpenMR` each have a branch on which the run is given up where it stands. In
`PersistMR` it costs a fault, since it leaves a merge request without a record. In the Analyst
the error goes through, and the message is delivered again.

`runs`, `plans`, `cut` and `late` are observers. `cut` tells what may have kept the READY ticket from
the Dev-agent: its plan was not published, or a failure of the database or of git came before a run took the row up;
it is forgotten with the row and when the row becomes READY anew. `late` are the runs that had passed their reset check,
and not yet written what it guards, when the last reset came.

Abstractions: replies of people are the action `Resume` (any time); how their
posts are buffered, merged and handed over is `AnalystSession`. The iteration
budget is the one of the row as the run loaded it (`spent`), while the count goes
up on the row as it is, so that two overlapping runs may make one step too many. `stuck_after` and the
deadline are nondeterministic instants; the deadline is counted from the latest
step and is hours longer than the longest run, so it does not pass during one.
`_terminate`'s two writes (status, `awaiting_*`) are one action. Merge requests
are one repository's. A ticket that was FAILED and is revived from its team thread
is `AnalystSession`'s.

### AnalystSession

One ticket's conversation, with posts as numbers (a post's number is its time).

* `status`, `waits` (from `awaiting_user_id` and `awaiting_post_id`: the team
  thread, a direct message, or nobody), `steps`, `deadline` and `stamp`
  (`last_fragment_at`) are columns of `TaskRow`.
* `fragment[p]` is the row of `analyst_conversation_fragments`; `heard` are the posts
  whose text a HUMAN_REPLIED step of the history has, `note` the kind of its last
  NOTE, `signs` the steps that sign a proposal off (`_proposal_confirmed`).
* `thread` is the ticket's thread in the channel: none, sent by a run whose effect is not
  recorded yet, or in the history; `strays` are replies under a question that was sent
  and then forgotten, because its run crashed or its process died.
* `written` are the posts in the chat, `inflight` those the listener has routed and
  not yet appended (`_inflight_posts`); between the two, anything may run.
* `run["inbox"]` and `run["coalescer"]` are the two workers. The coalescer's poller
  goes through `FlushIdle` (snapshot), `Merge` (history), `Flush`, `ClearAndResume`, each
  a transaction, then a run; or `FindOverdue` and one of `ConsentBySilence`,
  `PingLead`, `GiveUp`.
* A run is its tools: `ShowLateReplies`, then `AskTeam`, `AskUser`, `SubmitPlan`, `ReportStuck`,
  `ReportBlocked`, one of which sets the effect that is applied afterwards in the
  transactions of `_apply_effects` (`Ask` and `Await`, `SavePlan` and `SetReady`,
  `EndWithoutPlan`); a tool may refuse, the run may crash. The inbox's message is
  acknowledged in a step of its own (`Acknowledge`).
* `runs`, `answered`, `decided`, `revivals` and `lost` (faults that lost the reading of replies) are
  observers.

Abstractions: loading the ticket and writing PLANNING are one action here
(`TaskPipeline` has them apart); the writes of `_terminate` (status, `awaiting_*`,
note) are one, so are the revival of a stuck ticket and its route, and a run's history
steps. The coalescing window is "at some time later". Every reply has a text and
direct replies are unthreaded: a wordless reply in the thread (an attachment) is
filtered by `unseen_replies` and flushed without a run, which the model does not show.
There is no reset.

### Workspace

The checkout of one repository without `local_path`, two branches on origin (the merge
request's and the staged one that is shown before it replaces it), and iterations.

* A commit is a number; `past[c]` are the commits reachable from it. `remote` and
  `tracking` are the branches on origin and `origin/<branch>` in the clone, `backups` the
  `backup/<branch>-<sha8>` branches.
* `disk`, `tmps`, `verified`, `cloner` are the checkout (absent, a half-clone without HEAD, complete),
  the `.<repo>.cloning.<pid>` directories, `_clone_verified` and the clone lock; `lock` and
  `queued` are the Dev-agent's `_workspace_lock` and its queue.
* `dirt` are the iterations whose uncommitted edits are in the tree. Nothing removes them: `checkout -B` keeps them,
  and `git add -A` commits them under whatever iteration comes next; `carries` are the ones in the
  commit that an iteration built.
* `run[r]` is `handle_iteration`: `Acquire`, `Clone` or `Checkout`, `Edit`, `Build` (a commit on top,
  a rebuilt history, the staged one) or `BuildNothing`, then `Push`, `Stage`, or `Backup`
  and `ForceWithLease`, then `Tidy`; `Retry` is `run_iteration_with_retry`. Each push, the staged and
  the forced one included, may fail before or after it took effect at origin; it then leaves the tracking
  ref where it was.
* `Reaped` keeps any of the leftovers of clones, as the reaper passes over a directory whose pid is
  alive (it may be another process's by now) and one that cannot be removed.
* `warm` is the pre-warm at startup, `Restart` a kill and a new process on the same disk,
  `HumanPush` somebody else. `published` is an observer.

Abstractions: the checkout's three git commands (fetch, checkout, remote sha) are one action;
what the model edits is nondeterministic (whose edits, not which); one process has the disk.

### MergeRequest

One merge request: GitLab's side in `vcs` and `comments`, the bot's in `row` and `claims`.

* `tick[p]` is the Reviewer's tick of pod `p` with what it loaded and worked out so far:
  `Load`, `Fetch`, then per discussion `Look`, the minutes of the model, `Claim` or
  `DecideOtherwise`, `Post`, `Iterate`, `MarkPending`; then `Ping`, `Ack` or `Remind`, and
  `Persist`. `LeaveAlone` and `Break` are the ways out before it.
* `watch[p]` is the snapshot of a DevOps tick: `SeesGreen`, `SeesOther`, `RetryPipeline`,
  `GiveUp`, `StartFix`; `fix[p]` is the task that `StartFix` leaves behind.
* `ChatIterates`, `ChatMarks` and `RestartCommand` are the listener's writes to the row.
* `Comment`, `Delete`, `ChangeStatus`, `Approve`, `PipelineStarts`, `PipelineEnds` are people and
  GitLab; pods come with `Deploy` and go with `Stop`.
* A listing of the discussions may fail and reads as an empty one then (`Listings`): the tick takes it for the
  truth, forgets what was pending and goes on. `Comment` and `Delete` change what it has.
* `Push` takes the branch forward and its pipeline follows some time later: `vcs.of` is the
  commit that the latest pipeline is of, and the code does not ask for it.
* `left` is what is left of the run's budget of events; `seen` are observers: answers, pings,
  fixes since the last reset, fixes that a stop ended before they counted (`lost`), ticks cut off
  before they persisted, approvals misread, comments that were pending when a listing failed (`unread`), and whether
  two pods' ticks overlapped.
* `Claimed` maps a comment without a claim to free, one that a tick answers to taken and any other
  to done: the Reviewer's claims promise what the listener's do, `HandledOnce`.

Abstractions: a comment asks for something or does not, for the classifier's
verdict; a reminder is due whenever the row allows it. There is one watermark for all
discussions, as in the code. How an iteration gets its commit pushed is `Workspace`. Left out: the second
note that is tried when a reply to a discussion fails (`adapters/vcs/gitlab.py:880`), the increments that
DevOps makes without a Dev-agent, and the lost update of a counter that two pods read and write at once,
which only lowers it.

### ThreadListener and HandledOnce

Posts that address the bot: replies in a review thread, requests for a ticket, the lead's
`/restart` and `/reset`, each kind with its claim and its cursor.

* `work[w]` is one of the two tasks of a pod that dispatch, the WebSocket's and the
  sweep's; `Delivered` has `_inflight_posts` and the cursors (`Swept`). An event that was
  lost is in no pod's `inbox`.
* `past` is what the lookbacks of the sweep have left behind. `past.day`: posts older than 24 hours, which are swept neither as
  asks nor as commands; `past.rows`: intake rows of that age, and without a younger row no thread is searched for asks;
  `past.week`: posts older than seven days, where the anchor of a review ends. `PassDays` moves them on.
* `lead[p]` is pod `p`'s lookup of the lead's direct channel, made once: found, or `FindNobody`, when the lookup
  failed. The pod then sweeps no commands until the process is replaced. `/reset` looks the lead up again, and
  `Wipe` may find nobody: it refuses, and the command is marked as handled.
* A review reply: `RouteReview` (look), `Decide` (the model, then the insert that
  may lose), `Reply`, `Iterate`, `Release`. A request: `RouteAsk` (insert first),
  then the intake's own `LookUp` with the drop of abandoned claims, `Draft`, `ClaimRow`, `Create`,
  `Undo` or `Store`, `Tell` or `TellFailure`, each a transaction or a call. Commands:
  `RouteRestart` (the conditional UPDATE), `RouteReset` and `Wipe`, and `Mark`, the reaction.
* `claims` are `processed_thread_posts`, `requests` are `intake_requests`, `marked` are posts
  with the reaction, `restart` is `autofix_restart_processed_at`, `anchor` is
  `last_activity_at` of the merge request.
* `HandledOnce` knows items that are free, taken or done, and answers; `Claimed` maps a post without a
  row to free, one that a worker has in hand to taken, and any other to done.

Abstractions: the requests are asked for in one thread, the reviews are one merge
request's. The row that makes a thread be searched and the ask that is found there age apart, as they may. An answer
is the first message of a reply; that `_run_iteration` posts a second one when it is through or fails
(`runtime/workers/mm_thread_listener.py:824`, `:866`) is not counted. For `/reset`
`CommandsRunOnce` allows one execution more for each pod that was at the command when another began, whether or not
that one carries it out, which is generous.
Deleted posts, the cooldown of forbidden channels, `/reset --with-mr` and the search
for a ticket by its thread are left out; a reply to the analyst is `AnalystSession`'s.

### Communicator

`buckets` are the sliding windows of one person or channel, unprompted posts and replies
apart; `proposal` is a question to the team with its deadline; `log` and `restarts` are observers: `log`
has each post of the last window with its time, a number and the process that sent it.
`Recent` drops from a bucket what `_evict_old` drops, from the left.
`WorkingTimeAfter` is the walk in five-minute steps, in closed form: it ends after the least number of
steps of which those that begin in working hours (`StepsWorked`) make up the time, or which reach the cap of two
weeks. `SilenceIsWorkingTime` counts the working minutes one by one, its reference definition.
Charging a bucket and delivering the post are one step (the code awaits the chat between the two; what is counted is the
time of trying). The cap of two weeks is out of the run's reach, and the theorem's matter.
Time zones and daylight saving, the look-up of users and reads are left out.

## 3. Runs

| Run | Question | Instance |
|---|---|---|
| `bus_safety` | Is a message worked on by two runners only after a silent lease? Do tolerated misses keep the claim? Is the port implemented? | 2 runners, 1 message, lease 10, renewal every 1, transactions up to 1, stalls up to 1, 1 tolerated miss |
| `bus_liveness` | Is every published message handled in the end? | 1 runner, 2 messages, one without a handler, lease 5 |
| `pipeline_restarts` | After one crash, lost ack, lost answer or failed publish anywhere: bounded runs, no abandoned ticket? | 1 row, 2 + 3 messages, 1 recovery attempt, 2 steps, 1 merge request, 1 fault |
| `pipeline_resets` | A reset with a fault or an edit: at most one open merge request on record, each one without a record paid for by a fault; is a status backed by plan and merge request, is a READY ticket on its way, what may a run write after a reset? | 2 rows, 2 + 2 messages, 1 recovery attempt, 1 step, 2 merge requests, 1 reset, 1 fault or 1 edit |
| `session` | Is a plan with decisions signed off, is no reply swallowed, does no replay wake a ticket twice, is the budget kept? | replies 1 and 3 in the thread, 2 direct, 2 steps, 1 crash or failed append |
| `session_answers` | Is a buffered reply handed over, does silence end the wait? | reply 1 direct, 2 in the thread, 2 steps, 1 crash or failed append |
| `session_stranded` | violation, section 5 | 1 reply in the thread, 1 direct, no fault |
| `workspace` | Does origin keep every commit of the merge request, is the checkout whole and its head one iteration's, whose edits are committed, does each iteration end? | 2 iterations, 4 commits, 1 push of a person, 1 restart, 3 failing git commands |
| `review` | Is each comment answered once and none passed over, is nobody pinged twice, are fixes bounded, do claims do what `HandledOnce` says, does the watermark only advance, are the last ask and a red pipeline taken up? | 2 pods, 2 comments, 2 commits, 1 attempt, 1 retry, 11 budgets |
| `review_moved_on` | violation, section 5 | 2 comments, 1 pod, nothing fails |
| `chat` | Does a claim do what `HandledOnce` says, does a post become one ticket, are commands carried out once, and at all if they are not too old, is what the cursors cover taken up before it is too old? | 2 pods, 2 posts, 4 rows, 11 budgets |
| `posting` | Is no hour above the limit, is silence consent only after working time? | days of 4 hours of 7 minutes, steps of 3, a limit of 1 and 2 for replies, from a Thursday or a Friday |

Bounds. In the bus, the ratio of lease to renewal and delay is what matters;
`RenewAssumption` is the settings' "well under the lease" as an inequality and
the instance satisfies it with one miss to spare, so that both one miss
(nothing may happen) and two (the lease is lost, a second runner gets the message)
occur. Two runners are enough for every property: each is about a pair. Beyond
these instances, and those of the other runs, the safety properties are proved (section 4). In the pipeline, `MaxRows` = 2
lets a stale run meet its ticket's second row, `MaxMRs` = 2 lets a second merge
request be opened, three `plan.ready` messages are the plan's own, the one that
recovery publishes and one more from a second plan. `pipeline_restarts` has one merge request
only, since its liveness ends with the first one on record; what a second one takes is in
`pipeline_resets`. `MaxFaults` bounds crashes, lost acks and
lost answers of GitLab together, `MaxTouches` edits of the ticket; in `pipeline_resets` the constraint `FaultOrEdit` of
the MC module lets each of them meet the reset, but not both in one behaviour. In the session, two replies
in the thread are what a late fragment takes, the direct one comes between them, two
steps let a run follow an answer and a third one meet the spent budget; `MaxFaults`
bounds crashes and failed appends together. Its liveness has one reply less: what
may hang is one reply, beside another that clears the wait.

In the workspace, four commits are the default branch, the merge request and two more, of a person and an iteration or of
the two iterations; three faults use up the attempts of an iteration, or the tries of a push.
In `review`, `chat` and `posting` a *budget* says which events may happen and how often, and a
behaviour starts with one of the budgets of the MC module: each of them combines
the events that bear on each other (two pods and a comment; two comments in a
discussion, a deletion and a failure; stops, pushes and pipelines; an iteration out of the
chat, its ack and a push; a ticket with three failures, a stop and a duplicate; two
`/restart`s and a deploy; two remarks, a deletion and a red pipeline; an ask, a red pipeline and a listing that fails; two
asks, a lost event and days that pass; ...), because all of them at once are out of TLC's reach. A budget
bounds the environment only: ticks, handlers and sweeps go on as long as they have
something to do (a lookup of the lead that fails is one of the failures), but for a Reviewer or DevOps that a budget leaves out altogether. Two comments are
enough for a discussion with an older and a newer one, two pods for an overlap.
In `posting` a working day is fourteen minutes and a step three, so that steps and windows do not
end together, as five-minute steps from an odd minute do not.

Deadlock checking is off in all runs but those of the bus: a ticket that is FAILED,
planned or has its merge request, an iteration that ended, a closed merge request, with every
bound spent, rests.

Every passing property has a mutant, defined next to the definition it replaces:
a plausible bug in that code (a dropped guard of the claiming UPDATE, a
heartbeat that ends with its first failure, an ack of a handler that raised, a
recovery sweep that does not count, a write by the ticket's key instead of the
row's id, `--force` instead of `--force-with-lease`, a claim that is not looked at,
a lock that an exception keeps, ...), with which the run finds the property violated.

### Fairness

*Bus.* Time passes, the loops keep turning, a stopped runner is started again
(`WF`). From some time on nobody is stopped or killed (`QuietPods`): under
unlimited crashes nothing can be promised. A database that fails and a handler that
raises do not do so for ever: a claim, a return and an ack that are attempted
again and again succeed once (`SF`). The poll of the runner is
`bus_poll_interval`, the backoff is a sleep, neither depends on an event.

*Pipeline.* `WF` of the loops and of every handler: each model run is cut off by
the SDK's wall-clock limit, each poller ticks at an interval, whatever a tick raised
(`runtime/workers/poller.py`). `Resume` is fair since the coalescer's sweep
resumes on silence. There is none for people (`CloseMR`), edits, resets or crashes.
Outcomes (success or failure of a call) have none: liveness holds for every
sequence of outcomes.

*Session.* `WF` of the workers and of the deadline; `SF` of `FlushIdle` and
`FindOverdue`, since each tick of the poller tries both, one after the other, and
neither keeps the other from its turn (`runtime/workers/poller.py`). A post is dispatched fairly only
while the catch-up sweep's cursor covers it (`Swept`), and an append that was begun
ends. People write or do not.

*Workspace.* `WF` of the steps of an iteration and of the pre-warm (each git command has a
timeout, each model run a limit); `SF` of `Acquire`, for an `asyncio.Lock` wakes its waiters
in turn.

*MergeRequest.* `WF` of the ticks, of the fix task and of the listener's mark, as the pollers
tick at intervals and runs are limited; `WF` of GitLab's pipelines, which start after
a push and end. There is none for people, deploys, stops or outcomes.

*ThreadListener.* `WF` of what a worker is at; `SF` of a post's route by a sweep, because each
tick hands over every post the cursors cover, one after the other, and the in-flight set
excludes it only for a while. `PassDays` is not fair and a post it passes is excused: the fairness says something only of a
post that stays within its lookback, where the code has a tick a minute for a day or a week. `RestartIsObeyed`
excuses a command that a day went by (the sweep "deliberately" does not replay older ones, the comment at
`runtime/workers/mm_thread_listener.py:126`) and one while no process that runs knows the lead.

## 4. Proofs

Every safety invariant that a passing run checks is a theorem about `Spec`, and so are the
refinements (`AtLeastOnce` once, `HandledOnce` twice) and the action property of the watermark. A theorem
holds for all values of the constants that satisfy the module's `...Assumption`: any number of runners,
pods, posts, comments, commits and rows, any limit, cap and budget. The assumptions say what the
code gives: numbers are natural numbers, the sets of runners, pods and requests are finite where they are counted, kinds of
messages do not mix, the two values that stand for "nobody" and the pre-warm in
`Workspace` are no requests, and the lengths of hours, days and steps are not zero.

The type invariants are proved (`TypeCorrect`, or as a part of `IInv`), which includes their bounds: the cap on attempts, the
length of a lease, the tries of an iteration. One run checks its own, `review`, where `TypeOK` bounds the retries of a
pipeline over all pods.

Each module has an inductive invariant `IInv`, a conjunction of named parts at the head of its
`_proofs` module, and a theorem `Inductive == Spec => []IInv`; the others follow from it, or from it and an
invariant of their own (`OrphanInv`, `ReadyInv`, `LateInv`, `AheadInv`, `ProposalInv`). TLC
finds each `IInv` to hold on the instance of the run. Each module takes the
same course: what the records are (lemmas about updates), what each action does to each group of
variables (`SeenSteps`, `TickMoves`, `StepMoves`, ...), then one lemma for each part of `IInv`.

### MessageBus

* `TypeCorrect`: `TypeOK`.
* `LeaseIsLivenessSignal`: `ExclusiveUnlessLapsed`.
* `MissesAreTolerated`: `HeartbeatTolerance`; needs `RenewAssumption`.
* `NoMessageLost`: `NothingLost`.
* `BusImplementsPort`: `ImplementsPort`, every step is a step of `AtLeastOnce` or a stutter.

Exclusion is not inductive as it stands: two runners may be *claiming* one
message, and that is where it is decided. The inductive invariant relates each
holder's silence to the row's lease: whoever holds an unconsumed message without
having lapsed has `left[m] + silent[c] >= Lease` (its own lease, or a longer one
that somebody else wrote), and `silent[c] < Lapse`; hence `left[m] > MaxTxn`, while a
claimer's clock reading is at most `MaxTxn` old, so that its conditional UPDATE
fails. For the heartbeat the invariant bounds silence by the renewals missed so
far: `(missed + 1) * Cycle` plus where the runner stands in the present cycle.

### TaskPipeline

* `TypeCorrect` (`TypeOK`, with the cap on a row's attempts), `NoSecondMR` (`OneOpenMR`),
  `StatusHasBacking` (`StatusIsBacked`), `LateWritesAreBounded` (`LateWritesAreFew`), `BudgetHolds` (`RunsAreBudgeted`),
  `OrphansArePaidFor` (`OrphansAreFaults`), `ReadyHasItsReason` (`ReadyIsUnderWay`).

`IdInv` is what makes writes by the row's id safe: nobody holds an id that is still to be given, so an id that is
not the row's is a deleted one's. `StepInv` allows the overlap of two planners one step more, and no more. `OneInv`
says that no merge request is open on record while the Dev-agent is on its way to record one,
from its precheck on. For the budget, every run of the model is charged to a message that is
done or being handled, or to a fault (a redelivery); every message that was published, or is owed by a planner or
the sweep, to a plan or an attempt; and the attempts of deleted rows were at most `MaxAttempts` each.

Three invariants of their own stand on `IInv`. `OrphanInv` needs that merge requests are made in a row, so that the
latest one is the one that `PersistMR` records, and that no run is ahead of the epoch, so that a
reset leaves no orphan of its own time line; then a creation adds one orphan, which the Dev-agent has in hand or a fault
has paid for, a record takes one away, a record that fails is paid for as it is left, and nothing else moves the count.
`LateInv` follows a run that a reset found past its check up to its write: it is in `late`, and while the Dev-agent
is on its way there is no stale record yet, so that its own is the only one. `ReadyInv` is sharper than
`ReadyIsUnderWay` where the Dev-agent holds the message: a `plan.ready` in its hands gets the
ticket out of READY only while the run has not looked, or holds the row as it is (`Waits`). It needs that a READY
row has its plan, so that a precheck which turns the run away, with nothing failing, has found a merge request on record.

### AnalystSession

* `NoReplySwallowed` (`NothingSwallowed`), `PlansAreSignedOff` (`DecisionsAreSignedOff`),
  `NoRevivalByReplay` (`RevivalsAreEarned`), `BudgetHolds` (`IterationsAreBudgeted`).

`HeardInv` needs the place of each reply of the team in the coalescer's five steps: what is marked was merged first.
`ThreadInv` says that a reply which got past the listener belongs to the thread the history has. `SignInv` carries the
sign-off through a run: a proposal that a run holds for signed off is backed by an answer or
by the silence of a known thread, and it stays so. The budget is the hardest: a run reads `steps` and
counts later, so that the inbox's and the coalescer's may both read the last step. `FirstInv` says
that this takes a fault (a redelivery: before it, the coalescer has nothing to resume until the inbox is
through), and `BudgetInv` keeps one fault in reserve for the handler that may still overrun.

### Workspace

* `TypeCorrect` (`TypeOK`), `TreeIsOwn` (`WorkspaceIsOwn`), `NoPartialClones` (`ClonesAreWhole`), `NothingLost`
  (`HistoryKept`).

`LockInv` ties both locks to who works: one who has the tree holds the workspace lock. `CloneInv` says that
while anybody clones there is no checkout, and that a verified one is complete; neither needs the reaper to remove
anything. `DirtInv` says whose edits are in the tree and in a commit: those of the iteration at work, and of iterations
that broke off, which an iteration that runs to its end never does (`RetryBreaksOff`). `HistoryKept` needs
`PastInv`, that descent is transitive (a push that is a fast forward keeps what was reachable), and
`TreeInv`, that whoever replaces the branch made a backup of the head that its lease names; a push whose answer
is lost moves origin and not the tracking ref, and the retry meets it as somebody else's.

### MergeRequest

* `TypeCorrect` (`TypeOK`, with the bound on a pipeline's retries), `OneAnswer` (`AnsweredOnce`), `NoGhosts`
  (`NothingGhosted`), `OnePing` (`PingedOnce`), `AutofixBudget` (`AutofixIsBounded`), `NoStepBack`
  (`WatermarkAdvances`), `ClaimsImplementHandledOnce` (`ImplementsHandledOnce`).

`AnswerInv` says that a claim in hand belongs to one tick and its comment has no answer yet; a stopped
tick leaves a claim in nobody's hands, which nobody answers any more. `CoverInv` is the strengthening of
`NothingGhosted`, for the row as well as for the watermark each tick is going to leave: an ask below it, or a newer
comment of its discussion, is pending, or still in the tick's work, or *settled*. A claim in hand does
not settle, since it may be given back. A comment that was pending when a listing failed is settled as `unread`, which is the one way it
may be forgotten (`FetchSees`: a tick that lists sees all there is; `UnreadStays`). It needs `AloneInv` (a tick without overlap knows the row as it
is), which is why `seen.overlap` is in the properties. `PingInv` counts what a tick has sent and
not yet saved, and the merge ping that is due for an approval which the row does not have
yet. `FixInv` counts the fixes in flight and the DevOps ticks that may still start one by the counter they read:
together one less than two for each pod.

`AheadInv`, beside `IInv`, says that the watermark which a tick fetched is not behind the row's, for as long as ticks do
not overlap; so the row's never goes back. For the refinement, each step of a tick takes, answers, gives
back or lets go the one comment that `AnswerInv` says is its own, or stutters.

### ThreadListener

* `TypeCorrect` (`TypeOK`), `NoDuplicateTickets` (`OneTicketPerPost`), `NoDuplicateCommands` (`CommandsRunOnce`),
  `ClaimsImplementHandledOnce` (`ImplementsHandledOnce`: each step takes, answers, gives back or finishes a post, or
  stutters).

`ClaimInv` says that the claim on a post has one owner among all workers, `AnswerInv` that it has no answer before it is
claimed, nor while its owner is still to answer, `TicketInv` that an owner who is still to create a ticket finds
none but unseen ones. For commands, `restart` orders `/restart`s by time; for `/reset` the executions so far and those about to
happen are charged to marks that were not set, seen or set in time. The theorems say *one*, and one more for each ticket that Jira made
unseen, or each execution of `/reset` that stayed unmarked; where no ticket is unseen (no failure after the create,
no stop during it) that is at most one.

### Communicator

* `NoBurst` (`HourIsBounded`), `ConsentTakesWorkingTime` (`SilenceIsWorkingTime`).

The invariant is a matching: every post of the running process within the window has a place of its own in its bucket
(`Booked`, an injection), which holds since eviction is from the left and `RecentIs` shows that it
drops nothing within the window; a bucket is no longer than its limit. Posts of earlier
processes, whose buckets are gone, are within the limit of each.

`ProposalInv` says that a deadline is the walk from some moment between the post and the end of the run. What the walk
returns is the lemma `WalkEnds`, over the lemmas about the calendar: a step that begins in working hours is worked
to its end, or is the last one of its day (`WindowIsConvex`, `OneBreakADay`), so that the steps counted
exceed the minutes worked by less than a step for each day (`CountsAlways`, for any number of steps: the least
number of steps that refuted it would be refuted by the step before, `CountsOneMore`).

### What the attempts changed

* `RevivalsAreEarned` bounded the revivals by the replies and *all* faults; the proof showed that only the
  faults that take replies from the listener matter, and the property now says so (`lost`).
* `AutofixIsBounded` and `PingedOnce` counted with observers that stopped at a bound: true in the run, false
  (the first) or empty (the second) for many stops. The observers count without a bound now, and the environment's
  budgets keep the run finite.
* `SilenceIsWorkingTime` did not hold for a window longer than the walk's cap; it names the cap now. The walk was
  a recursion, about which nothing can be proved, and is a closed form.
* `OrphansAreFaults` cannot hold where the answer of GitLab gets lost for free: `CreateMergeRequest`
  charges the loss to the faults now. It also takes that merge requests are made in a row, which
  `CreateMergeRequest` says.
* An observer of `TaskPipeline` noted the failed preparation of a branch for one property only; `cut` replaces
  it, and notes a publication that did not happen as well.
* `ResetBeforeCheckDiscards` looked at what only a guarded branch could set; `LateWritesAreFew` replaces it and is about
  the window after the check.
* The errors that the Dev inbox swallows, an empty listing of discussions, uncommitted edits, leftovers that stay, pushes that
  fail after their effect and the lookbacks of the sweep were not in the models at first. What was proved or checked without them was in part
  false of the code; `OrphansAreFaults`, `ReadyIsUnderWay`, `NothingGhosted`, `WorkspaceIsOwn`, `ClonesAreWhole`,
  `LastAskIsAnswered`, `RedIsTakenUp` and `RestartIsObeyed` now say what is left, and section 5 what is not.
* The mutants of these properties were checked again.

### Only model-checked

Liveness: `EventuallyFinished`, `DiscoveredMovesOn`, `CodingMovesOn`, `SessionMovesOn`, `ReplyIsHandedOver`,
`SilenceIsConsent`, `IterationsEnd`, `LastAskIsAnswered`, `RedIsTakenUp`, `RestartIsObeyed`, `SweptIsTaken`. It is out of
the prover's reach: `WF` and `SF` are about `ENABLED`. The inductive invariants above are proved for every value of
the constants; that the events they bound do happen is what the mutants and the fired actions of the runs show.

## 5. Where the code and its texts disagree

Two runs show a disagreement as a violated property:

* `session_stranded`: a reply in the team thread that is buffered during a run is not
  handed over when that run ends with another question: `install_awaiting` nulls
  `last_fragment_at` (`application/services/analyst_session_repo.py:242`), `flush_idle`
  passes over the ticket, and `_consent_by_silence` postpones itself every quarter of an hour, with
  the comment that `flush_idle` hands it over shortly. The next reply frees it.
  `ReplyIsHandedOver` is what does hold: a reply that finds the session waiting, with no
  run under way.
* `review_moved_on`: a question, and below it a remark that asks for nothing. The tick's
  candidate of the discussion is the question, the newest comment that asks; the
  answer is decided, found to be overtaken by the remark (`_discussion_moved_on` counts any human
  comment), withheld, and pending for the next tick, which does the same, with a
  model run each time. The comment at `application/agents/reviewer.py:599` counts on the next
  tick to answer "the true latest". `LastAskIsAnswered` is what does hold.

Eleven more are stated as properties at the end of their modules. They are in no run, because each
would take one of its own; a run with the property alone finds the behaviour.

* `TransientPrepIsRetried` (`TaskPipeline`, `FairSpec`, one ticket, no fault): a transient git
  error while the branch is prepared leaves the ticket READY, the inbox swallows the
  error and the message is acknowledged. The comment at `application/agents/dev.py:366` counts on the
  recovery sweep, which looks at CODING and DISCOVERED only. `ReadyIsUnderWay` lists what leaves a ticket there.
* `PlanningIsAttended` (`TaskPipeline`, one ticket, one edit): `AnalystInbox.handle` writes PLANNING before
  `_run_step` refuses a final snapshot. The port (`domain/ports/message_bus.py:8`) asks for
  idempotent handlers; this one turns a READY or FAILED ticket into a PLANNING one that nobody attends.
* `ResetDiscardsLateWrites` (`TaskPipeline`, one reset): the reset check and the write it guards are
  separate transactions; a reset in between is undone by the write
  (`application/services/ticket_reset.py:114`). `LateWritesAreFew` is what does hold: only runs caught in that gap do so,
  and they leave one merge request at most, and the plan.
* `CheckoutAtTip` (`Workspace`, the instance of the run): `_ensure_origin_ref` promises that
  `origin/<branch>` points "at the remote's tip" (`adapters/vcs/gitlab.py:306`) but fetches the
  branch only when the ref does not exist yet. After somebody else's push an iteration starts from the
  old head and its push is refused, at each of its attempts. `HistoryKept` is what does hold.
* `OwnEditsOnly` (`Workspace`, the instance of the run): `checkout -B` is "`reset --hard origin/...` effectively", says the
  comment at `adapters/vcs/gitlab.py:343`; it keeps the edits of an iteration that was killed or raised before its commit,
  and the next one's `git add -A` commits and pushes them. `WorkspaceIsOwn` is what does hold: the head is
  the iteration's own, and foreign edits come from iterations that broke off.
* `StaysPending` (`MergeRequest`, the budget `Threads`): "the comment id stays pending until its thread's reply is
  actually delivered" (`application/agents/reviewer.py`, `_resolve_actionable_threads`), but a listing
  that failed comes back empty (`adapters/vcs/gitlab.py:838`), the pending id is in no discussion, and the tick persists
  none, behind a watermark that has passed it. `NothingGhosted` and `LastAskIsAnswered` except what was pending then.
* `RedIsAlwaysTakenUp` (`MergeRequest`, the budget `Deleted`): "if the comment turns out to be chatter, the Reviewer
  advances its watermark and the next DevOps tick auto-fixes as usual" (`application/agents/devops.py:190`); when the
  comment at the watermark was deleted and an older one stands, the newest comment is never the one at the watermark
  (`devops.py:308`), the Reviewer sees nothing new, and DevOps defers for ever. `RedIsTakenUp` excepts that (`Blinded`).
* `AckIsKept` (`MergeRequest`, the budget `Acks`): `_persist_tick_state` clears the commit that waits
  for a green pipeline by what the tick loaded; one that an iteration out of the chat stored
  meanwhile is cleared too, and never announced (`infrastructure/db/models.py`, on the column). So is one
  whose ack the Communicator suppressed: whether it was sent is not looked at.
* `DroppedIsRetried` (`ThreadListener`, the budget `Reviews`): a reply that was dropped gives its claim back
  "so the catch-up sweep retries it" (`runtime/workers/mm_thread_listener.py:697`), but the sweep
  starts at the merge request's `last_activity_at`, which a tick of the Reviewer moves past the post.
* `LookupIsRetried` (`ThreadListener`, the budget `CutOff`): "Failures are NOT cached — the next catch-up tick retries"
  (`runtime/workers/mm_thread_listener.py:1174`), but the chat adapter swallows a failed lookup of the lead and answers
  nobody, which the listener keeps for the life of the process. No command is swept then. (A `/reset` that comes over the
  WebSocket looks the lead up again; if that fails, it is refused and marked as handled, line 1205.)
* `MissedIsReplayed` (`AnalystSession`, `FairSpec`, the instance `session`, no fault): "even if the WS dies for an hour, a
  single catch-up sweep restores state" (`runtime/workers/mm_thread_listener.py:320`), but a reply that was
  appended moves the cursor past an earlier one that was missed. The reply comes to the analyst only with a
  later flush or run that reads the thread.

Further texts that the models show to be wrong, without a property of their own:

* *Reviewer.* An ask that wants an iteration, where there is no Dev-agent for the repository or no ticket, ends with no
  answer, no claim and no pending mark (`application/agents/reviewer.py:639`): the properties count it as ignored.
* *Listener.* `/reset` counts as carried out once it is marked (`_dispatch_inner`, "Idempotency"): it is
  executed again, against the ticket's new life, when `get_post` answers nothing or the
  reactions cannot be read, when `add_reaction` failed, or when two pods look before
  either has marked (`CommandsRunOnce` counts these).
* *Intake.* An abandoned claim "no longer blocks a redelivery — otherwise the ask is swallowed for
  good" (`runtime/workers/intake_inbox.py:60`): but a process that dies during the create also leaves
  the row of `processed_thread_posts`, which nobody removes, and the redelivery is
  passed over. "Nothing was created, so a retry is safe" (`mm_thread_listener.py:1117`): `create_task`
  may raise after Jira made the ticket, and its POST is sent again after a lost answer
  (`OneTicketPerPost` allows these).
* *Intake and analyst.* A post that answers the analyst goes through the intake first; a crash between
  the "busy" reply and the fragment loses the answer, since the claim stays.
* *Reviewer.* Two pods overwrite each other's `pending_comment_ids` and `review_ping_sent` (`seen.overlap`
  takes these out of `NothingGhosted` and `PingedOnce`); approvals that cannot be read
  are persisted as none, and the team is told again to merge (`seen.misread`); a suppressed
  merge ping or ack counts as sent; right after a push the old commit's green pipeline is taken
  for the new one's. A merge request that is closed while it is a draft reads as a
  draft and stays tracked, although the tick means to "Stop tracking MRs that are merged/closed"
  (`application/agents/reviewer.py:193`).
* *DevOps.* The gate is `max_autofix_attempts` *failed* attempts (`infrastructure/config/schema.py:104`); a tick
  that loaded the row before the fix in flight had counted starts one more, as does
  each further pod (`AutofixIsBounded` has the sum).
* *Workspace.* A staged history is offered again when the deletion of its branch failed or
  the tracking ref stayed (`application/agents/dev.py:826`: a stale one "would be" offered again).
* *Communicator.* `working_time_after` counts a whole step that begins inside a window and ends outside
  of it, and starts when the run has ended, not when the proposal was posted;
  `SilenceIsWorkingTime` says what is left: less by under a step on every working day, and no more than the two
  weeks the walk is capped at, however long the window is set.
* *Session.* A question that a run sent before it crashed or was killed is in no row: its replies
  reach nobody. A direct answer that is flushed as the thread's, because the thread could not be
  read, signs a proposal off, although only the team's thread counts; `DecisionsAreSignedOff` asks for
  some human answer. The inbox's and the coalescer's run of one ticket at once are taken to
  open one thread.

Also reachable in the session, and kept out of the passing properties by name: an
answer to a direct message that is appended after its wait was cleared (a reply in
the thread came first) is later flushed as the thread's and is in no history
(`NothingSwallowed` is about the team's replies); a stuck ticket that is revived by
a reply already in the history waits without a deadline, for `revive_stuck` clears it
(`SilenceIsConsent` is about tickets that were not revived). The flush re-reads the whole
thread, so the history may have a reply whose fragment comes a moment later: that fragment makes
`clear_awaiting` refuse, the run is deferred to the next tick, and there the reply counts as already
shown "mid-run": flushed, no run, until the deadline takes the silence for consent.

Reachable in the pipeline and worth knowing, without a text that promises
otherwise: the recovery cap flips a ticket to FAILED while its last `plan.ready`
is queued, and the Dev-agent then carries it out; `_claim_attempt` may flip a
ticket that has moved on since the snapshot, and two pods may count one attempt; a crash between READY and
`plan.ready` strands the ticket, since the redelivered `task.discovered` finds a
fresh plan (as do a publish that raises, and a plan without a repository, which has nobody to go to;
`ReadyIsUnderWay` says that only these do, and a failure of git or of the database before CODING, which the inbox swallows, as
at `application/agents/dev.py:343`); a crash, a lost answer or a database error between GitLab's merge request and its
row (`dev.py:531`) leaves one that nobody reviews (`OrphansAreFaults` says that nothing else does, and that each leaves
one); a crash between the merge request's row and MR_OPEN leaves CODING
for ever, with the merge request on record; `/reset --with-mr` closes merge requests only after their
rows are gone, so that a failure leaves some that nobody tracks. In the workspace, the leftovers of clones may stay on the disk for ever
(`adapters/vcs/gitlab.py:271`), beside a complete checkout.

## 6. Plan

1. `MessageBus`, `AtLeastOnce`, their proofs; `TaskPipeline`; `AnalystSession` (done).
2. `ThreadListener` with `HandledOnce`, `Workspace`, `MergeRequest`, `Communicator`; the tools of an
   analyst's run (done).
3. Proofs of the safety invariants and of both refinements, for all values of the constants (done,
   section 4).
4. A form of `SilenceIsWorkingTime` that can be proved; that watermarks do not go back; that the
   Reviewer's claims implement `HandledOnce`; what a fault costs, in merge requests without a record and in tickets
   left at READY (done, section 4).
5. The failures that the code swallows: database errors in the Dev-agent, listings, pushes, leftovers and
   edits of a checkout, lookups; the lookbacks of the sweep (done; sections 2 and 5).

Not modelled and not planned: the request building and parsing of the adapters (their outcomes are
nondeterministic where they matter), tools that only fetch, prompts, rendering of comments and
messages, the order and the sequence numbers of an analyst's history (`append_step` of two pods may
collide and retries), the dashboard, the CLI, configuration and migrations, the bus
adapters that the container does not wire.
