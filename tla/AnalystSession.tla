--------------------------- MODULE AnalystSession ---------------------------
(***************************************************************************)
(* The conversation of the Analyst-agent with people about one ticket:     *)
(*                                                                         *)
(*   MmThreadListener   stores each post under a question as a fragment    *)
(*   AnalystInbox       flush_idle puts the fragments into the history     *)
(*                      and resumes the analyst; sweep_deadlines takes     *)
(*                      silence for consent, pings the lead, gives up      *)
(*   AnalystInbox       _run_step: one run of the model and its effect     *)
(*                                                                         *)
(* TaskPipeline has the ticket's way around this session.  Here the row's  *)
(* awaiting_* columns, last_fragment_at and analyst_deadline_at, the       *)
(* fragments and the history are taken apart, there is no /reset and the   *)
(* ticket's only message is its first task.discovered.                     *)
(***************************************************************************)
EXTENDS Naturals, FiniteSets

CONSTANTS
    TeamPosts,  \* replies in the ticket's thread of the team channel
    DmPosts,    \* replies to direct messages, outside of threads
    MaxSteps,   \* max_planner_calls_per_goal
    MaxFaults   \* bound: crashes of the process and failed writes

Posts == TeamPosts \cup DmPosts

\* A post's number is its time.
ASSUME SessionAssumption ==
    /\ TeamPosts \subseteq Nat \ {0} /\ DmPosts \subseteq Nat \ {0}
    /\ TeamPosts \cap DmPosts = {}
    /\ MaxSteps \in Nat \ {0} /\ MaxFaults \in Nat

VARIABLES
    status,    \* internal_status
    waits,     \* who is awaited: "nobody", "team", or "dm"
    steps,     \* analyst_iteration_count
    deadline,  \* analyst_deadline_at: "none", "set" or "due"
    stamp,     \* last_fragment_at: the time of a post, or Never
    fragment,  \* fragment[p]: "none", "unflushed" or "flushed"
    heard,     \* the replies in the conversation's history
    note,      \* the kind of the history's last NOTE step
    signs,     \* steps of the history that sign a proposal off: "reply", "silence"
    thread,    \* the thread in the channel: "none", "sent", or in the history
    strays,    \* replies under a question that the bot forgot
    planned,   \* a plan was saved
    queued,    \* task.discovered is not acknowledged
    written,   \* posts in the chat
    inflight,  \* posts that the listener is dispatching
    run,       \* run[w]: what the inbox and the coalescer's poller are at
    faults,    \* crashes and failed writes so far
    \* observers
    runs,      \* runs of the model
    answered,  \* a run of the model was shown a reply
    decided,   \* a plan was saved that rests on decisions
    revivals,  \* stuck tickets brought back
    lost       \* replies of the team that a fault took from the listener

rowVars == <<status, waits, steps, deadline, stamp>>
logVars == <<fragment, heard, note, signs, planned>>
threadVars == <<thread, strays>>
chatVars == <<written, inflight>>
obsVars == <<runs, answered, decided, revivals, lost>>
vars == <<status, waits, steps, deadline, stamp, fragment, heard, note, signs, thread,
          strays, planned, queued, written, inflight, run, faults, runs, answered, decided,
          revivals, lost>>

Workers == {"inbox", "coalescer"}
Never == 0
Planning == {"PLANNING", "CLARIFYING"}
Final == {"READY", "FAILED"}
Outcomes == {"team", "dm", "plan", "decisions", "failed", "stuck", "blocked"}

\* The run that w is in the middle of: the fragments and the awaited ones it
\* read, whether the row it read had spent its budget; the state its tools
\* share: whether the history had a thread, the replies of the team it knows,
\* whether the proposal is signed off, and the effect there is by now.
Idle == [pc |-> "idle", frags |-> {}, waits |-> "nobody", spent |-> FALSE,
         thread |-> FALSE, known |-> {}, signed |-> FALSE, effect |-> "none"]

PCs == {"idle", "merge", "mark", "flush", "clear", "overdue", "enter", "run", "ready",
        "asked", "done"} \cup Outcomes

Runs == [pc : PCs, frags : SUBSET Posts, waits : {"nobody", "team", "dm"}, spent : BOOLEAN,
         thread : BOOLEAN, known : SUBSET Posts, signed : BOOLEAN, effect : Outcomes \cup {"none"}]

TypeOK ==
    /\ status \in {"DISCOVERED"} \cup Planning \cup Final
    /\ waits \in {"nobody", "team", "dm"}
    /\ steps \in 0 .. MaxSteps + MaxFaults
    /\ deadline \in {"none", "set", "due"}
    /\ stamp \in Posts \cup {Never}
    /\ fragment \in [Posts -> {"none", "unflushed", "flushed"}]
    /\ heard \in SUBSET Posts /\ written \in SUBSET Posts /\ inflight \in SUBSET written
    /\ note \in {"stuck", "other"}
    /\ signs \subseteq {"reply", "silence"} /\ thread \in {"none", "sent", "known"}
    /\ strays \subseteq written \cap TeamPosts
    /\ planned \in BOOLEAN /\ queued \in BOOLEAN
    /\ run \in [Workers -> Runs]
    /\ faults \in 0 .. MaxFaults
    /\ runs \in Nat /\ answered \in BOOLEAN /\ decided \in BOOLEAN
    /\ revivals \in Nat /\ lost \in Nat

Init ==
    /\ status = "DISCOVERED" /\ waits = "nobody" /\ steps = 0
    /\ deadline = "none" /\ stamp = Never
    /\ fragment = [p \in Posts |-> "none"]
    /\ heard = {} /\ note = "other" /\ signs = {} /\ planned = FALSE
    /\ thread = "none" /\ strays = {}
    /\ queued = TRUE
    /\ written = {} /\ inflight = {}
    /\ run = [w \in Workers |-> Idle]
    /\ faults = 0 /\ runs = 0 /\ answered = FALSE /\ decided = FALSE
    /\ revivals = 0 /\ lost = 0

-----------------------------------------------------------------------------
(* The session repository.                                                 *)

Unflushed == {p \in Posts : fragment[p] = "unflushed"}

\* append_fragment: the row is unique for its post, last_fragment_at is the
\* time of the post.
AppendFragment(p) ==
    IF fragment[p] = "none"
    THEN fragment' = [fragment EXCEPT ![p] = "unflushed"] /\ stamp' = p
    ELSE UNCHANGED <<fragment, stamp>>

\* revive_stuck: a stuck ticket waits for its thread again, with a budget of
\* its own and without a deadline; any other is left alone.
ReviveStuck ==
    IF status = "FAILED"
    THEN /\ status' = "CLARIFYING" /\ waits' = "team" /\ steps' = 0 /\ deadline' = "none"
         /\ note' = "other"
         /\ revivals' = revivals + 1
    ELSE UNCHANGED <<status, waits, steps, deadline, note, revivals>>

\* Mutant: awaiting_* goes, whatever came in meanwhile.
ClearAnyway ==
    waits' = "nobody" /\ stamp' = Never

\* clear_awaiting refuses while there are unflushed fragments.
ClearAwaiting ==
    IF Unflushed # {} THEN UNCHANGED <<waits, stamp>>
    ELSE waits' = "nobody" /\ stamp' = Never

\* install_awaiting, on whatever the row awaited.
InstallAwaiting(audience) == waits' = audience /\ stamp' = Never

\* _terminate, or a plan that says FAILED (which leaves no note).
Terminate(kind) ==
    /\ status' = "FAILED"
    /\ ClearAwaiting
    /\ note' = CASE kind = "stuck" -> "stuck" [] kind = "blocked" -> "other" [] OTHER -> note
    /\ UNCHANGED <<steps, deadline>>

-----------------------------------------------------------------------------
(* People and the listener.                                                *)

\* Somebody writes a post, or never does; one in the thread once it is there.
Write(p) ==
    /\ p \in TeamPosts => thread # "none"
    /\ \A q \in written : q < p
    /\ written' = written \cup {p}
    /\ UNCHANGED <<rowVars, logVars, threadVars, queued, inflight, run, faults, obsVars>>

\* read_thread: what people wrote in the thread the history has.
InThread == (written \cap TeamPosts) \ strays

\* find_task_by_thread and find_task_by_channel: the awaited thread or person,
\* or the thread the team discusses a planned or stuck ticket in.
Routed(p) ==
    IF p \in DmPosts THEN waits = "dm"
    ELSE /\ p \notin strays /\ thread = "known"
         /\ \/ waits = "team"
            \/ status \in Planning
            \/ status = "FAILED" /\ note = "stuck"

\* Mutant: the listener does not ask whether the post is known.
AnyPost(p) == TRUE

\* fragment_known: a replayed post is not new.
New(p) == fragment[p] = "none"

\* The WebSocket or the catch-up sweep hands over a post; a reply in the thread
\* brings a stuck ticket back, with a budget of its own and without a deadline.
Dispatch(p) ==
    /\ p \in written \ inflight
    /\ New(p) /\ Routed(p)
    /\ inflight' = inflight \cup {p}
    /\ IF p \in TeamPosts THEN ReviveStuck
       ELSE UNCHANGED <<status, waits, steps, deadline, note, revivals>>
    /\ UNCHANGED <<stamp, fragment, heard, signs, threadVars, planned, queued, written, run,
                   faults, runs, answered, decided, lost>>

Append(p) ==
    /\ p \in inflight
    /\ inflight' = inflight \ {p}
    /\ AppendFragment(p)
    /\ UNCHANGED <<status, waits, steps, deadline, heard, note, signs, threadVars, planned,
                   queued, written, run, faults, obsVars>>

Lose(posts) == lost' = lost + Cardinality(posts \cap TeamPosts)

\* The database fails it: logged, and left to the next catch-up.
AppendFails(p) ==
    /\ p \in inflight
    /\ faults < MaxFaults
    /\ faults' = faults + 1
    /\ inflight' = inflight \ {p} /\ Lose({p})
    /\ UNCHANGED <<rowVars, logVars, threadVars, queued, written, run, runs, answered, decided,
                   revivals>>

\* What a catch-up sweep replays: the awaited channel since the cursor.
Swept(p) == waits = (IF p \in DmPosts THEN "dm" ELSE "team") /\ stamp <= p

-----------------------------------------------------------------------------
(* AnalystInbox.handle and _run_step                                       *)

Go(w, where) == run' = [run EXCEPT ![w].pc = where]

\* The run of w is over; the handler's message is acknowledged.
End(w) ==
    /\ run' = [run EXCEPT ![w] = Idle]
    /\ queued' = (queued /\ w # "inbox")

\* Nothing is left to do but, for the inbox, to acknowledge the message.
Finish(w) ==
    IF w = "inbox" THEN run' = [run EXCEPT ![w] = [Idle EXCEPT !.pc = "done"]] /\ UNCHANGED queued ELSE End(w)

Acknowledge ==
    /\ run["inbox"].pc = "done"
    /\ End("inbox")
    /\ UNCHANGED <<rowVars, logVars, threadVars, chatVars, faults, obsVars>>

\* _run_step of w with a row just read.
Resume(w, row) ==
    IF row \in Final THEN End(w)
    ELSE /\ run' = [run EXCEPT ![w] = [Idle EXCEPT !.pc = "enter", !.spent = steps >= MaxSteps]]
         /\ UNCHANGED queued

\* task.discovered, delivered again when the process died before its end.
Handle ==
    /\ queued
    /\ run["inbox"].pc = "idle"
    /\ Resume("inbox", IF planned THEN "READY" ELSE status)
    /\ status' = IF planned THEN status ELSE "PLANNING"
    /\ UNCHANGED <<waits, steps, deadline, stamp, logVars, threadVars, chatVars, faults, obsVars>>

\* _proposal_confirmed, by the history: a reply in the thread, or its silence.
ProposalConfirmed == signs # {}

\* AnalystAgent.run: what the tools of the new run know from the history.
NewRun == [Idle EXCEPT !.pc = "run", !.thread = (thread = "known"),
                       !.known = heard \cap TeamPosts, !.signed = ProposalConfirmed]

\* The step counts on the row as it is, and the deadline counts from here.
StartRun(w) ==
    /\ steps' = steps + 1 /\ deadline' = "set"
    /\ run' = [run EXCEPT ![w] = NewRun]
    /\ runs' = runs + 1 /\ answered' = (answered \/ heard # {})
    /\ UNCHANGED <<status, waits, stamp, note, queued>>

\* Mutant: one step more than the budget has.
EnterOnceMore(w) ==
    /\ run[w].pc = "enter"
    /\ IF run[w].spent /\ steps > MaxSteps
       THEN Terminate("stuck") /\ Finish(w) /\ UNCHANGED <<runs, answered>>
       ELSE StartRun(w)
    /\ UNCHANGED <<fragment, heard, signs, threadVars, planned, chatVars, faults, decided, revivals, lost>>

\* The budget is the one of the row as it was read.
Enter(w) ==
    /\ run[w].pc = "enter"
    /\ \/ run[w].spent /\ Terminate("stuck") /\ Finish(w) /\ UNCHANGED <<runs, answered>>
       \/ ~run[w].spent /\ StartRun(w)
    /\ UNCHANGED <<fragment, heard, signs, threadVars, planned, chatVars, faults, decided, revivals, lost>>

-----------------------------------------------------------------------------
(* The tools of a run: each refuses once there is an effect.               *)

Acting(w) == run[w].pc = "run" /\ run[w].effect = "none"
Effect(w, o) == run' = [run EXCEPT ![w].effect = o]

\* collect_late_replies: before a question or a plan goes out, the tool shows
\* the model what the team wrote meanwhile.  A thread that cannot be read does
\* not hold the model up.
ShowLateReplies(w) ==
    /\ Acting(w) /\ run[w].thread
    /\ ~(InThread \subseteq run[w].known)
    /\ run' = [run EXCEPT ![w].known = @ \cup InThread, ![w].signed = TRUE]
    /\ answered' = TRUE
    /\ UNCHANGED <<rowVars, logVars, threadVars, queued, chatVars, faults, runs, decided, revivals, lost>>

\* ask_team: the first question opens the thread in the channel.  (Two runs at
\* once that both do so are taken to open one.)
AskTeam(w) ==
    /\ Acting(w) /\ Effect(w, "team")
    /\ thread' = IF thread = "none" THEN "sent" ELSE thread
    /\ UNCHANGED <<rowVars, logVars, strays, queued, chatVars, faults, obsVars>>

\* dm_user, to somebody on the whitelist.
AskUser(w) ==
    /\ Acting(w) /\ Effect(w, "dm")
    /\ UNCHANGED <<rowVars, logVars, threadVars, queued, chatVars, faults, obsVars>>

\* Mutant: decisions need no confirmation.
SubmitUnsigned(w) ==
    /\ Acting(w) /\ \E o \in {"plan", "failed", "decisions"} : Effect(w, o)
    /\ UNCHANGED <<rowVars, logVars, threadVars, queued, chatVars, faults, obsVars>>

\* submit_plan; a plan that rests on decisions, or on little confidence, is
\* refused until it is signed off.
SubmitPlan(w) ==
    /\ Acting(w)
    /\ Effect(w, "plan") \/ Effect(w, "failed") \/ (run[w].signed /\ Effect(w, "decisions"))
    /\ UNCHANGED <<rowVars, logVars, threadVars, queued, chatVars, faults, obsVars>>

\* stuck and blocked.
ReportStuck(w) == Acting(w) /\ Effect(w, "stuck")
ReportBlocked(w) == Acting(w) /\ Effect(w, "blocked")

UseTool(w) ==
    \/ ShowLateReplies(w) \/ AskTeam(w) \/ AskUser(w) \/ SubmitPlan(w)
    \/ /\ ReportStuck(w) \/ ReportBlocked(w)
       /\ UNCHANGED <<rowVars, logVars, threadVars, queued, chatVars, faults, obsVars>>

-----------------------------------------------------------------------------
(* The end of a run and its effect.                                        *)

\* Nobody recorded the thread that some run opened: its replies go nowhere.
Forget(over) ==
    IF thread = "sent" /\ \A w \in Workers \ over : run[w].effect # "team"
    THEN thread' = "none" /\ strays' = written \cap TeamPosts
    ELSE UNCHANGED threadVars

\* The run crashes, or runs into its wall-clock limit: its effects are lost,
\* the question it may have sent included.
RunCrashes(w) ==
    /\ run[w].pc = "run"
    /\ Finish(w) /\ Forget({w})
    /\ UNCHANGED <<rowVars, logVars, chatVars, faults, obsVars>>

\* The run ends.  Late replies go into the history; no effect is a stuck run.
Record(w) ==
    /\ run[w].pc = "run"
    /\ heard' = heard \cup run[w].known
    /\ signs' = IF run[w].known \subseteq heard THEN signs ELSE signs \cup {"reply"}
    /\ Go(w, IF run[w].effect = "none" THEN "stuck" ELSE run[w].effect)
    /\ UNCHANGED <<rowVars, fragment, note, threadVars, planned, queued, chatVars, faults, obsVars>>

\* _on_ask: the question goes into the history ...
Ask(w) ==
    /\ run[w].pc \in {"team", "dm"}
    /\ thread' = IF run[w].pc = "team" THEN "known" ELSE thread
    /\ run' = [run EXCEPT ![w].pc = "asked", ![w].waits = run[w].pc]
    /\ UNCHANGED <<rowVars, logVars, strays, queued, chatVars, faults, obsVars>>

\* Mutant: while the bot waits for people there is no deadline.
AwaitForEver(w) ==
    /\ run[w].pc = "asked"
    /\ InstallAwaiting(run[w].waits)
    /\ deadline' = "none"
    /\ Finish(w)
    /\ UNCHANGED <<status, steps, logVars, threadVars, chatVars, faults, obsVars>>

\* ... and the row waits; the deadline of a question to the team is for its
\* silence.
Await(w) ==
    /\ run[w].pc = "asked"
    /\ InstallAwaiting(run[w].waits)
    /\ deadline' = IF run[w].waits = "team" THEN "set" ELSE deadline
    /\ Finish(w)
    /\ UNCHANGED <<status, steps, logVars, threadVars, chatVars, faults, obsVars>>

\* _on_plan saves the plan ...
SavePlan(w) ==
    /\ run[w].pc \in {"plan", "decisions"}
    /\ planned' = TRUE /\ decided' = (decided \/ run[w].pc = "decisions")
    /\ Go(w, "ready")
    /\ UNCHANGED <<rowVars, fragment, heard, note, signs, threadVars, queued, chatVars, faults,
                   runs, answered, revivals, lost>>

\* ... and ends the session.
SetReady(w) ==
    /\ run[w].pc = "ready"
    /\ status' = "READY" /\ deadline' = "none"
    /\ ClearAwaiting
    /\ Finish(w)
    /\ UNCHANGED <<steps, logVars, threadVars, chatVars, faults, obsVars>>

\* The model is stuck, blocked, or its plan says FAILED.
EndWithoutPlan(w) ==
    /\ run[w].pc \in {"failed", "stuck", "blocked"}
    /\ Terminate(run[w].pc)
    /\ Finish(w)
    /\ UNCHANGED <<fragment, heard, signs, threadVars, planned, chatVars, faults, obsVars>>

\* A run of the model is under way, or may be repeated.
Running == queued \/ \E w \in Workers : run[w].pc \in {"enter", "run", "ready", "asked", "done"} \cup Outcomes

RunStep(w) ==
    \/ Enter(w) \/ UseTool(w) \/ RunCrashes(w) \/ Record(w)
    \/ Ask(w) \/ Await(w) \/ SavePlan(w) \/ SetReady(w) \/ EndWithoutPlan(w)

-----------------------------------------------------------------------------
(* The coalescer's poller: flush_idle, then sweep_deadlines                *)

Coalescer == run["coalescer"]

\* find_idle_awaiting, after a window without further posts.
FlushIdle ==
    /\ Coalescer.pc = "idle"
    /\ waits # "nobody" /\ stamp # Never /\ Unflushed # {}
    /\ run' = [run EXCEPT !["coalescer"] =
                [Idle EXCEPT !.pc = "merge", !.frags = Unflushed, !.waits = waits]]
    /\ UNCHANGED <<rowVars, logVars, threadVars, queued, chatVars, faults, obsVars>>

\* A session that waits for the team takes every fragment for the team's.
TeamFragments == IF Coalescer.waits = "team" THEN Coalescer.frags ELSE Coalescer.frags \cap TeamPosts

\* HUMAN_REPLIED: what is new in the thread, of the buffered ones when it cannot
\* be read, and the direct replies.
Merge ==
    /\ Coalescer.pc = "merge"
    /\ \E team \in IF TeamFragments = {} THEN {{}}
                   ELSE {InThread \ heard, TeamFragments \ heard} :
        LET fresh == team \cup (Coalescer.frags \ TeamFragments)
        IN  /\ heard' = heard \cup fresh
            /\ signs' = IF team = {} THEN signs ELSE signs \cup {"reply"}
            /\ Go("coalescer", IF fresh = {} THEN "mark" ELSE "flush")
    /\ UNCHANGED <<rowVars, fragment, note, threadVars, planned, queued, chatVars, faults, obsVars>>

\* Mutant: whatever is unflushed by now is marked.
FlushAll ==
    /\ Coalescer.pc \in {"mark", "flush"}
    /\ fragment' = [p \in Posts |-> IF fragment[p] = "unflushed" THEN "flushed" ELSE fragment[p]]
    /\ IF Coalescer.pc = "flush" THEN Go("coalescer", "clear") /\ UNCHANGED queued ELSE End("coalescer")
    /\ UNCHANGED <<rowVars, heard, note, signs, threadVars, planned, chatVars, faults, obsVars>>

\* mark_fragments_flushed: those of the snapshot.  When every one of them was
\* shown before there is nothing to resume on.
Flush ==
    /\ Coalescer.pc \in {"mark", "flush"}
    /\ fragment' = [p \in Posts |-> IF p \in Coalescer.frags THEN "flushed" ELSE fragment[p]]
    /\ IF Coalescer.pc = "flush" THEN Go("coalescer", "clear") /\ UNCHANGED queued ELSE End("coalescer")
    /\ UNCHANGED <<rowVars, heard, note, signs, threadVars, planned, chatVars, faults, obsVars>>

\* A late fragment defers the run; else the analyst is resumed.
ClearAndResume ==
    /\ Coalescer.pc = "clear"
    /\ ClearAwaiting
    /\ IF Unflushed # {} THEN End("coalescer") ELSE Resume("coalescer", status)
    /\ UNCHANGED <<status, steps, deadline, logVars, threadVars, chatVars, faults, obsVars>>

\* find_overdue.
FindOverdue ==
    /\ Coalescer.pc = "idle"
    /\ status \in Planning /\ deadline = "due"
    /\ run' = [run EXCEPT !["coalescer"] = [Idle EXCEPT !.pc = "overdue", !.waits = waits]]
    /\ UNCHANGED <<rowVars, logVars, threadVars, queued, chatVars, faults, obsVars>>

\* Nobody objected: the analyst is resumed with a NOTE.  Somebody did: later.
ConsentBySilence ==
    /\ Coalescer.pc = "overdue" /\ Coalescer.waits = "team"
    /\ ClearAwaiting
    /\ \/ /\ Unflushed # {}
          /\ deadline' = "set"
          /\ End("coalescer")
          /\ UNCHANGED <<note, signs>>
       \/ /\ Unflushed = {}
          /\ note' = "other" /\ signs' = signs \cup {"silence"}
          /\ Resume("coalescer", status)
          /\ UNCHANGED deadline
    /\ UNCHANGED <<status, steps, fragment, heard, threadVars, planned, chatVars, faults, obsVars>>

\* The lead is told that somebody does not answer.
PingLead ==
    /\ Coalescer.pc = "overdue" /\ Coalescer.waits = "dm"
    /\ deadline' = "set"
    /\ End("coalescer")
    /\ UNCHANGED <<status, waits, steps, stamp, logVars, threadVars, chatVars, faults, obsVars>>

GiveUp ==
    /\ Coalescer.pc = "overdue" /\ Coalescer.waits = "nobody"
    /\ Terminate("stuck")
    /\ End("coalescer")
    /\ UNCHANGED <<fragment, heard, signs, threadVars, planned, chatVars, faults, obsVars>>

Coalesce == Merge \/ Flush \/ ClearAndResume \/ ConsentBySilence \/ PingLead \/ GiveUp

\* The deadline is counted from the latest step and longer than any run.
DeadlinePasses ==
    /\ deadline = "set"
    /\ \A w \in Workers : run[w].pc \notin {"run", "ready", "asked", "done"} \cup Outcomes
    /\ deadline' = "due"
    /\ UNCHANGED <<status, waits, steps, stamp, logVars, threadVars, queued, chatVars, run, faults, obsVars>>

\* The process dies and is started again.
Crash ==
    /\ faults < MaxFaults
    /\ faults' = faults + 1
    /\ run' = [w \in Workers |-> Idle] /\ Forget(Workers)
    /\ inflight' = {} /\ Lose(inflight)
    /\ UNCHANGED <<rowVars, logVars, queued, written, runs, answered, decided, revivals>>

Next ==
    \/ \E p \in Posts : Write(p) \/ Dispatch(p) \/ Append(p) \/ AppendFails(p)
    \/ Handle \/ Acknowledge
    \/ \E w \in Workers : RunStep(w)
    \/ FlushIdle \/ FindOverdue \/ Coalesce
    \/ DeadlinePasses
    \/ Crash

Spec == Init /\ [][Next]_vars

\* The loops keep turning, a run of the model has a limit, the catch-up sweep
\* replays what its cursors cover.
Fairness ==
    /\ WF_vars(Handle) /\ WF_vars(Acknowledge) /\ SF_vars(FlushIdle) /\ SF_vars(FindOverdue) /\ WF_vars(Coalesce)
    /\ WF_vars(DeadlinePasses)
    /\ \A w \in Workers : WF_vars(RunStep(w))
    /\ \A p \in Posts : WF_vars(Swept(p) /\ Dispatch(p)) /\ WF_vars(Append(p))

FairSpec == Spec /\ Fairness

-----------------------------------------------------------------------------

\* A reply of the team that is marked flushed is in the history the analyst is
\* resumed with.  mark_fragments_flushed: "flushing `everything unflushed' would
\* swallow a fragment that arrived after the snapshot".
NothingSwallowed == \A p \in TeamPosts : fragment[p] = "flushed" => p \in heard

\* A plan that rests on decisions is saved only when the model was shown a human
\* answer, or the silence of a thread was taken for consent.  _proposal_confirmed:
\* "Has a human answered the analyst, or let the proposal stand by staying silent?"
DecisionsAreSignedOff == decided => answered \/ ("silence" \in signs /\ thread = "known")

\* A stuck ticket comes back once for a reply, not once for every replay of it;
\* a reply that a fault lost on its way to the database may do so again.
\* _handle_task_fragment: "A replay must not revive a stuck task either".
RevivalsAreEarned ==
    revivals <= Cardinality({p \in TeamPosts : p \in inflight \/ fragment[p] # "none"}) + lost

\* The model runs of a session stay within max_planner_calls_per_goal, counted
\* anew only when a person brought the ticket back.
IterationsAreBudgeted == runs <= (revivals + 1) * MaxSteps + faults

\* A reply that was buffered for a session that waits and does not run is handed
\* over, however it falls between snapshot, merge, flush and clear_awaiting.
ReplyIsHandedOver ==
    \A p \in Posts :
        fragment[p] = "unflushed" /\ waits # "nobody" /\ stamp # Never /\ ~Running
            ~> fragment[p] = "flushed"

\* _consent_by_silence, "Nobody objected ... that's a yes": a question to the
\* team is answered, or its silence ends the wait; the ticket does not hang.  A
\* revived ticket (CLARIFYING) waits without a deadline.
SilenceIsConsent ==
    waits = "team" /\ status = "PLANNING" ~> waits # "team" \/ status # "PLANNING" \/ Unflushed # {}

\* _consent_by_silence: "Someone did answer; flush_idle hands it over shortly".
AnswerIsHandedOver ==
    \A p \in TeamPosts :
        fragment[p] = "unflushed" /\ waits = "team" ~> p \in heard \/ status \in Final

-----------------------------------------------------------------------------
(* What a comment of the code says and the code does not keep.  No run has   *)
(* it; README, section 5, has the behaviour that violates it.                *)

\* catch_up, "even if the WS dies for an hour, a single catch-up sweep restores
\* state": a reply that the WebSocket missed is appended while the team is
\* awaited.  A later reply that was appended has moved the cursor past it.
MissedIsReplayed ==
    \A p \in TeamPosts :
        p \in written /\ fragment[p] = "none" /\ waits = "team" /\ Routed(p)
            ~> fragment[p] # "none" \/ waits # "team" \/ ~Routed(p)

=============================================================================
