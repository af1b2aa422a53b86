---------------------------- MODULE MergeRequest ----------------------------
(***************************************************************************)
(* One merge request in review: its MergeRequestRow, GitLab, and the       *)
(* workers that read the row, act for minutes and write it back.           *)
(*                                                                         *)
(*   ReviewerAgent  a tick: load the row, fetch the merge request, answer  *)
(*                  the comments (decide, claim, post, iterate), ping, ack *)
(*                  and remind, persist                                    *)
(*   DevOpsAgent    a tick: read the pipeline, retry it, fix it in a task  *)
(*                  of its own, or escalate                                *)
(*   MmThreadListener  an iteration out of the review thread; /restart     *)
(*                                                                         *)
(* Each pod has a Reviewer and a DevOps; pods overlap in a rolling deploy. *)
(* A comment is a number, in the order of writing; so is a commit.         *)
(***************************************************************************)
EXTENDS Naturals, FiniteSets, FiniteSetsExt

Bounds == {"asks", "remarks", "deletions", "deploys", "stops", "failures",
           "pushes", "pipelines", "reds", "approvals", "chats", "commands", "closings",
           "ticks", "watches"}  \* 0: no Reviewer, no DevOps

CONSTANTS
    Pods,         \* processes
    First,        \* the pod that runs at first; the others come with deploys
    MaxComments,  \* the comments there may be
    MaxCommits,   \* the commits there may be, the first one included
    MaxAutofix,   \* max_autofix_attempts
    MaxInfra,     \* max_infra_retries
    Budgets       \* bounds: what may happen, and how often; a run has one of them

ASSUME MergeRequestAssumption ==
    /\ IsFiniteSet(Pods) /\ First \in Pods
    /\ MaxCommits \in Nat \ {0} /\ MaxComments \in Nat
    /\ MaxAutofix \in Nat /\ MaxInfra \in Nat
    /\ Budgets \subseteq [Bounds -> Nat]

VARIABLES
    row,        \* the MergeRequestRow
    claims,     \* ProcessedReviewCommentRow: comments somebody answers
    vcs,        \* GitLab: status, head, latest pipeline, enough approvals
    comments,   \* GitLab: the human comments there are or were
    up,         \* the pods that run
    tick,       \* tick[p]: the Reviewer's tick
    watch,      \* watch[p]: what the DevOps tick loaded, or nothing
    fix,        \* fix[p]: the auto-fix task, _inflight_autofix
    chat,       \* the commit of an iteration that the listener runs
    left,       \* what is left of the budget
    seen        \* observers, see Observers

vars == <<row, claims, vcs, comments, up, tick, watch, fix, chat, left, seen>>

None == 0
Waiting == {"manual"}           \* every job waits for a click
Checking == {"running", "manual"}
Passed == {"success", "manual"}
Broken == {"failed", "success"}

NoTick == [at |-> "idle"]
NoWatch == [at |-> "idle"]

Observers == [answers : [1..MaxComments -> 0..2],  \* since the last release
              ignored : SUBSET (1..MaxComments),   \* decided to say nothing
              unread : SUBSET (1..MaxComments),    \* pending, and not listed
              pings : Nat, nags : Nat,    \* "please review", "still waiting"
              merges : Nat,               \* "ready to merge"
              approvals : Nat,            \* times the approvals became enough
              cut : Nat,                  \* ticks that did not persist
              misread : Nat,              \* approvals taken for none
              fixes : Nat,                \* auto-fixes since the last reset
              lost : Nat,                 \* auto-fixes that a stop ended
              told : 0..MaxCommits,       \* the newest commit announced as green
              overlap : BOOLEAN]          \* two pods worked on the row at once

Rows == [status : {"draft", "open", "closed"}, seen : 0..MaxComments,
         pending : SUBSET (1..MaxComments), pinged : BOOLEAN, thread : BOOLEAN,
         nagged : BOOLEAN, approved : BOOLEAN, sha : 0..MaxCommits, attempts : Nat, infra : Nat,
         gaveUp : BOOLEAN, lead : BOOLEAN]
GitLab == [status : {"open", "closed"}, draft : BOOLEAN, head : 1..MaxCommits, of : 0..MaxCommits,
           jobs : {{}, Waiting, Checking, Passed, Broken}, infra : BOOLEAN, approved : BOOLEAN]
Comments == [id : 1..MaxComments, discussion : 1..MaxComments, ask : BOOLEAN, gone : BOOLEAN]

\* A tick: the snapshot of the row; the threads, and the comment in hand; what
\* is still to be persisted.
Loaded == [at : {"loaded"}, seen : 0..MaxComments, pending : SUBSET (1..MaxComments),
           pinged : BOOLEAN, approved : BOOLEAN, sha : 0..MaxCommits, nag : BOOLEAN]
InThreads == {"threads", "deciding", "replying", "announcing", "iterating", "pushed"}
Threading == [at : InThreads, cur : 0..MaxComments, todo : SUBSET (1..MaxComments),
              still : SUBSET (1..MaxComments), seen : 0..MaxComments, live : {"draft", "open"},
              approved : BOOLEAN, merge : BOOLEAN, touched : BOOLEAN, pinged : BOOLEAN,
              sha : 0..MaxCommits, nag : BOOLEAN]
Savings == [at : {"saving"}, seen : 0..MaxComments, still : SUBSET (1..MaxComments),
            live : {"draft", "open"}, approved : BOOLEAN, pinged : BOOLEAN, clear : BOOLEAN,
            nagged : BOOLEAN]
Watches == [at : {"loaded"}, attempts : Nat, infra : Nat, gaveUp : BOOLEAN, owes : BOOLEAN,
            seen : 0..MaxComments]

TypeOK ==
    /\ row \in Rows /\ row.infra <= MaxInfra + Cardinality(Pods) - 1
    /\ claims \subseteq 1..MaxComments
    /\ vcs \in GitLab /\ vcs.of <= vcs.head
    /\ comments \subseteq Comments /\ \A c \in comments : c.discussion <= c.id
    /\ up \subseteq Pods
    /\ tick \in [Pods -> {NoTick} \cup Loaded \cup Threading \cup Savings]
    /\ watch \in [Pods -> {NoWatch} \cup Watches]
    /\ fix \in [Pods -> {"idle", "running", "pushed", "failed"}]
    /\ \A p \in Pods \ up : tick[p] = NoTick /\ watch[p] = NoWatch /\ fix[p] = "idle"
    /\ chat \in 0..MaxCommits
    /\ left \in [Bounds -> Nat] /\ seen \in Observers

Init ==
    /\ row = [status |-> "draft", seen |-> 0, pending |-> {}, pinged |-> FALSE,
              thread |-> FALSE, nagged |-> FALSE, approved |-> FALSE, sha |-> None, attempts |-> 0,
              infra |-> 0, gaveUp |-> FALSE, lead |-> FALSE]
    /\ claims = {} /\ comments = {}
    /\ vcs = [status |-> "open", draft |-> TRUE, head |-> 1, of |-> 0, jobs |-> {}, infra |-> FALSE,
              approved |-> FALSE]
    /\ up = {First}
    /\ tick = [p \in Pods |-> NoTick] /\ watch = [p \in Pods |-> NoWatch]
    /\ fix = [p \in Pods |-> "idle"] /\ chat = None /\ left \in Budgets
    /\ seen = [answers |-> [c \in 1..MaxComments |-> 0], ignored |-> {}, unread |-> {},
               pings |-> 0, nags |-> 0, merges |-> 0, approvals |-> 0, cut |-> 0, misread |-> 0, fixes |-> 0,
               lost |-> 0, told |-> None, overlap |-> FALSE]

Spend(what) == left[what] > 0 /\ left' = [left EXCEPT ![what] = @ - 1]
Calm == UNCHANGED left
Tracked == row.status \in {"open", "draft"}  \* _load_open_mrs

----------------------------------------------------------------------------
(* What the CI says                                                        *)

\* _collapse_status: nothing ran, something failed, all that ran passed.
CollapseStatus(jobs) ==
    IF jobs = {} THEN "unknown"
    ELSE IF "failed" \in jobs THEN "failed"
    ELSE IF jobs \subseteq {"success", "skipped", "manual", "created"}
         THEN (IF "success" \in jobs THEN "success" ELSE "manual")
    ELSE IF jobs \cap {"running", "pending", "preparing", "scheduled"} # {}
         THEN "running" ELSE "unknown"

\* get_latest_pipeline_jobs: the newest pipeline, of whatever commit.
LatestJobs == vcs.jobs
Status == CollapseStatus(LatestJobs)

\* read_ci; a pipeline whose jobs all wait is a running one.
ReadCi == IF LatestJobs = {} THEN "no-ci" ELSE IF Status = "manual" THEN "running" ELSE Status
Green == ReadCi \in {"success", "no-ci"}

\* play_manual_triggers: what waits is started by its triggers.
Started == [vcs EXCEPT !.jobs = IF @ = Waiting THEN Checking ELSE @]

\* _looks_like_infra_failure: the log says so, not the code.
LooksLikeInfra == vcs.infra

\* retry_latest_pipeline: the failed jobs run again, or GitLab refuses.
RetryInGitLab ==
    \/ Calm /\ vcs' = [vcs EXCEPT !.jobs = Checking, !.infra = FALSE]
    \/ Spend("failures") /\ UNCHANGED vcs

\* A push to the branch; GitLab makes its pipeline some time later.
Push ==
    /\ vcs.head < MaxCommits /\ Spend("pushes")
    /\ vcs' = [vcs EXCEPT !.head = @ + 1]

----------------------------------------------------------------------------
(* The Reviewer's tick                                                     *)

\* list_review_comments: what people wrote and did not delete; nothing, when
\* the discussions cannot be listed.
Ids == {c.id : c \in {d \in comments : ~d.gone}}
Listings == {Ids, {}}
The(i) == CHOOSE c \in comments : c.id = i
Newer(i) == {j \in Ids : j > i /\ The(j).discussion = The(i).discussion}

\* tick: the rows of all merge requests are loaded before the first is checked.
Load(p) ==
    /\ p \in up /\ tick[p].at = "idle" /\ Tracked /\ left.ticks > 0
    /\ tick' = [tick EXCEPT ![p] =
         [at |-> "loaded", seen |-> row.seen, pending |-> row.pending,
          pinged |-> row.pinged, approved |-> row.approved, sha |-> IF row.thread THEN row.sha ELSE None,
          nag |-> row.pending = {} /\ row.sha = None /\ ~row.nagged]]
    /\ seen' = [seen EXCEPT !.overlap = @ \/ \E q \in Pods \ {p} : tick[q].at # "idle"]
    /\ UNCHANGED <<row, claims, vcs, comments, up, watch, fix, chat, left>>

EndTick(p) == tick' = [tick EXCEPT ![p] = NoTick]

\* _mr_from_gitlab: a draft reads as a draft, also when it was closed.
LiveStatus == IF vcs.draft THEN "draft" ELSE vcs.status

\* _check_one cannot read the merge request, or finds it merged or closed
\* (_persist_final_state).
LeaveAlone(p) ==
    /\ tick[p].at = "loaded" /\ EndTick(p)
    /\ \/ Spend("failures") /\ UNCHANGED row
       \/ LiveStatus = "closed" /\ row' = [row EXCEPT !.status = "closed"] /\ Calm
    /\ UNCHANGED <<claims, vcs, comments, up, watch, fix, chat, seen>>

\* The classifier: a question or a request, not a remark.
Actionable(i) == The(i).ask

\* Mutant: when the comment at the watermark was deleted, all are new.
NewCommentsAgain(listed, watermark) ==
    {i \in listed : i > watermark \/ watermark \notin {None} \cup Ids}

\* _new_comments: what comes after the watermark, also when the comment at
\* the watermark was deleted.
NewComments(listed, watermark) == {i \in listed : i > watermark}

\* Mutant: what is pending is forgotten.
CandidatesNewOnly(listed, t) ==
    LET asked == {i \in NewComments(listed, t.seen) : Actionable(i)}
    IN  {i \in asked : Newer(i) \cap asked = {}}

\* _resolve_actionable_threads: the newest of the new asks and of those an
\* earlier tick left pending, per discussion; what is pending and not listed is
\* dropped.
Candidates(listed, t) ==
    LET asked == (listed \cap t.pending) \cup {i \in NewComments(listed, t.seen) : Actionable(i)}
    IN  {i \in asked : Newer(i) \cap asked = {}}

\* The comments and the approvals (get_mr_approvals) are read; comments that
\* cannot be read are no comments, and approvals are none.
Fetch(p) ==
    /\ tick[p].at = "loaded" /\ LiveStatus # "closed"
    /\ \E listed \in Listings, approved \in {vcs.approved, FALSE} :
        LET t == tick[p]
            new == NewComments(listed, t.seen)
            merge == approved /\ ~t.approved
        IN  /\ IF listed = Ids /\ approved = vcs.approved THEN Calm ELSE Spend("failures")
            /\ seen' = [seen EXCEPT
                 !.misread = IF approved = vcs.approved THEN @ ELSE @ + 1,
                 !.unread = IF listed = Ids THEN @ \ t.pending ELSE @ \cup t.pending]
            /\ tick' = [tick EXCEPT ![p] =
                [at |-> "threads", cur |-> None, todo |-> Candidates(listed, t), still |-> {},
                 seen |-> IF new = {} THEN None ELSE Max(new), live |-> LiveStatus,
                 approved |-> approved, merge |-> merge, touched |-> new # {} \/ merge,
                 pinged |-> t.pinged, sha |-> t.sha, nag |-> t.nag]]
    /\ UNCHANGED <<row, claims, vcs, comments, up, watch, fix, chat>>

\* The claims table: one row for each comment.
IsClaimed(i) == i \in claims
TakeClaim(i) == claims' = claims \cup {i}

\* One thread is dealt with; its comment stays pending or not.
Dealt(p, i, pending) ==
    tick' = [tick EXCEPT ![p].at = "threads", ![p].cur = None, ![p].todo = @ \ {i},
                         ![p].still = IF pending THEN @ \cup {i} ELSE @]

\* _handle_gitlab_actionable: a claimed comment is somebody else's; else the
\* model decides, for minutes.
Look(p) ==
    /\ tick[p].at = "threads"
    /\ \E i \in tick[p].todo :
         IF IsClaimed(i) THEN Dealt(p, i, FALSE)
         ELSE tick' = [tick EXCEPT ![p].at = "deciding", ![p].cur = i]
    /\ UNCHANGED <<row, claims, vcs, comments, up, watch, fix, chat, left, seen>>

\* _discussion_moved_on: a newer comment in the discussion, or this one gone.
\* When GitLab cannot be asked, it has not; a listing that fails is in
\* DecideOtherwise.
MovedOn(i) == i \notin Ids \/ Newer(i) # {}
SeemsMovedOn(i, moved) ==
    \/ moved = MovedOn(i) /\ Calm
    \/ MovedOn(i) /\ ~moved /\ Spend("failures")

\* Mutant: the claim is made without looking whether it is taken.
ClaimUnseen(p, answer) ==
    LET i == tick[p].cur
    IN  /\ tick[p].at = "deciding"
        /\ \E moved \in BOOLEAN :
             /\ SeemsMovedOn(i, moved)
             /\ IF moved THEN Dealt(p, i, TRUE) /\ UNCHANGED claims
                ELSE TakeClaim(i) /\ tick' = [tick EXCEPT ![p].at = answer]
        /\ UNCHANGED <<row, vcs, comments, up, watch, fix, chat, seen>>

\* ThreadResponder.decide: REPLY with a text, or ITERATE with a brief; what
\* else it may say is in DecideOtherwise.
Answers == {"replying", "announcing"}

\* REPLY or ITERATE: look again, claim, and only then post.
Claim(p, answer) ==
    LET i == tick[p].cur
    IN  /\ tick[p].at = "deciding"
        /\ \E moved \in BOOLEAN :
             /\ SeemsMovedOn(i, moved)
             /\ IF moved THEN Dealt(p, i, TRUE) /\ UNCHANGED claims
                ELSE IF IsClaimed(i) THEN Dealt(p, i, FALSE) /\ UNCHANGED claims
                ELSE TakeClaim(i) /\ tick' = [tick EXCEPT ![p].at = answer]
        /\ UNCHANGED <<row, vcs, comments, up, watch, fix, chat, seen>>

\* IGNORE, or an ITERATE that no Dev agent can take; an answer without a text,
\* or no look at the discussion; no wiki, which ends the whole tick.
DecideOtherwise(p) ==
    LET i == tick[p].cur
    IN  /\ tick[p].at = "deciding"
        /\ \/ Dealt(p, i, FALSE) /\ Calm /\ seen' = [seen EXCEPT !.ignored = @ \cup {i}]
           \/ Dealt(p, i, TRUE) /\ Spend("failures") /\ UNCHANGED seen
           \/ EndTick(p) /\ Spend("failures") /\ seen' = [seen EXCEPT !.cut = @ + 1]
        /\ UNCHANGED <<row, claims, vcs, comments, up, watch, fix, chat>>

\* The claim goes back, for the next tick to try again.
Released(p, i) ==
    /\ claims' = claims \ {i} /\ seen' = [seen EXCEPT !.answers[i] = 0]
    /\ Dealt(p, i, TRUE)

\* _post_comment_reply: the reply, or the ack before an iteration; below a
\* comment that is gone, too, or at the top level.
Post(p) ==
    LET i == tick[p].cur
    IN  /\ tick[p].at \in {"replying", "announcing"}
        /\ \/ /\ Calm /\ UNCHANGED claims
              /\ seen' = [seen EXCEPT !.answers[i] = @ + 1]
              /\ IF tick[p].at = "replying" THEN Dealt(p, i, FALSE)
                 ELSE tick' = [tick EXCEPT ![p].at = "iterating"]
           \/ Spend("failures") /\ Released(p, i)
        /\ UNCHANGED <<row, vcs, comments, up, watch, fix, chat>>

\* The iteration ends: a pushed commit, nothing to push or a blocker (the
\* follow-up is best effort), or no wiki.
Iterate(p) ==
    LET i == tick[p].cur
    IN  /\ tick[p].at = "iterating"
        /\ \/ /\ Push /\ UNCHANGED <<claims, seen>>
              /\ tick' = [tick EXCEPT ![p].at = "pushed"]
           \/ Dealt(p, i, FALSE) /\ Calm /\ UNCHANGED <<vcs, claims, seen>>
           \/ Released(p, i) /\ Spend("failures") /\ UNCHANGED vcs
        /\ UNCHANGED <<row, comments, up, watch, fix, chat>>

\* _mark_iteration_pending
MarkPending(p) ==
    /\ tick[p].at = "pushed" /\ row' = [row EXCEPT !.sha = vcs.head]
    /\ Dealt(p, tick[p].cur, FALSE)
    /\ UNCHANGED <<claims, vcs, comments, up, watch, fix, chat, left, seen>>

\* The messages of the tick come after one look at the CI.
Answered(p) == tick[p].at = "threads" /\ tick[p].todo = {}
WantsPing(p) == ~tick[p].pinged /\ tick[p].live = "open"
WantsAck(p) == tick[p].sha # None

Saving(p, pinged, clear, nagged) ==
    tick' = [tick EXCEPT ![p] =
        [at |-> "saving", seen |-> @.seen, still |-> @.still, live |-> @.live,
         approved |-> @.approved, pinged |-> @.pinged \/ pinged, clear |-> clear, nagged |-> nagged]]

\* _notify_ready_to_merge, when the approvals have become enough.
MergePing(p, n) == IF tick[p].merge THEN n + 1 ELSE n

\* "Please review", once, when the merge request is ready and green; the
\* thread is recorded at once.  It stands for the ack as well.
Ping(p) ==
    /\ Answered(p) /\ WantsPing(p) /\ Green
    /\ row' = [row EXCEPT !.thread = TRUE] /\ Saving(p, TRUE, TRUE, FALSE)
    /\ seen' = [seen EXCEPT !.pings = @ + 1, !.told = vcs.head,
                            !.merges = MergePing(p, @)]
    /\ UNCHANGED <<claims, vcs, comments, up, watch, fix, chat, left>>

\* _announce_iteration_done: whether it was sent is not looked at.
Ack(p) ==
    /\ Answered(p) /\ WantsAck(p) /\ Green
    /\ Saving(p, FALSE, TRUE, FALSE)
    /\ \/ /\ IF WantsPing(p) THEN Spend("failures") ELSE Calm
          /\ seen' = [seen EXCEPT !.told = tick[p].sha, !.merges = MergePing(p, @)]
       \/ Spend("failures") /\ seen' = [seen EXCEPT !.merges = MergePing(p, @)]
    /\ UNCHANGED <<row, claims, vcs, comments, up, watch, fix, chat>>

\* Nothing to say, or not sent; if nothing happened, one reminder, by the hour.
Remind(p) ==
    /\ Answered(p) /\ ~(WantsAck(p) /\ Green)
    /\ vcs' = IF WantsPing(p) \/ WantsAck(p) THEN Started ELSE vcs
    /\ IF WantsPing(p) /\ Green THEN Spend("failures") ELSE Calm
    /\ \/ /\ Saving(p, FALSE, FALSE, FALSE)
          /\ seen' = [seen EXCEPT !.merges = MergePing(p, @)]
       \/ /\ tick[p].nag /\ ~tick[p].touched /\ Saving(p, FALSE, FALSE, TRUE)
          /\ seen' = [seen EXCEPT !.nags = @ + 1]
    /\ UNCHANGED <<row, claims, comments, up, watch, fix, chat>>

\* The publication of an approval, or another call of the tick, raises.
Break(p) ==
    /\ tick[p].at = "saving" /\ Spend("failures") /\ EndTick(p)
    /\ seen' = [seen EXCEPT !.cut = @ + 1]
    /\ UNCHANGED <<row, claims, vcs, comments, up, watch, fix, chat>>

\* Mutants: the ping, or what is pending, is not saved.
SavedUnpinged(r, t) ==
    [r EXCEPT !.status = t.live, !.pending = t.still, !.nagged = @ \/ t.nagged,
              !.seen = IF t.seen = None THEN @ ELSE t.seen, !.approved = t.approved,
              !.sha = IF t.clear THEN None ELSE @]

SavedWatermark(r, t) ==
    [r EXCEPT !.status = t.live, !.pinged = t.pinged, !.nagged = @ \/ t.nagged,
              !.seen = IF t.seen = None THEN @ ELSE t.seen, !.approved = t.approved,
              !.sha = IF t.clear THEN None ELSE @]

\* _persist_tick_state: what the tick worked out goes over the row as it is.
Saved(r, t) ==
    [r EXCEPT !.status = t.live, !.pending = t.still, !.pinged = t.pinged,
              !.nagged = @ \/ t.nagged,
              !.seen = IF t.seen = None THEN @ ELSE t.seen, !.approved = t.approved,
              !.sha = IF t.clear THEN None ELSE @]

Persist(p) ==
    /\ tick[p].at = "saving" /\ EndTick(p) /\ row' = Saved(row, tick[p])
    /\ UNCHANGED <<claims, vcs, comments, up, watch, fix, chat, left, seen>>

----------------------------------------------------------------------------
(* The DevOps tick and the auto-fix                                        *)

Watch(p) ==
    /\ p \in up /\ watch[p].at = "idle" /\ Tracked /\ left.watches > 0
    /\ watch' = [watch EXCEPT ![p] =
         [at |-> "loaded", attempts |-> row.attempts, infra |-> row.infra,
          gaveUp |-> row.gaveUp, owes |-> row.pending # {}, seen |-> row.seen]]
    /\ UNCHANGED <<row, claims, vcs, comments, up, tick, fix, chat, left, seen>>

Sees(p, status) ==
    watch[p].at = "loaded" /\ Status = status /\ watch' = [watch EXCEPT ![p] = NoWatch]

ResetCounters(r) == [r EXCEPT !.attempts = 0, !.infra = 0, !.gaveUp = FALSE]

\* Green: a later failure starts with fresh counters.
SeesGreen(p) ==
    LET reset == watch[p].attempts # 0 \/ watch[p].infra # 0 \/ watch[p].gaveUp
    IN  /\ Sees(p, "success")
        /\ row' = IF reset THEN ResetCounters(row) ELSE row
        /\ seen' = IF reset THEN [seen EXCEPT !.fixes = 0] ELSE seen
        /\ UNCHANGED <<claims, vcs, comments, up, tick, fix, chat, left>>

SeesOther(p) ==
    /\ \E s \in {"manual", "running", "unknown"} : Sees(p, s)
    /\ UNCHANGED <<row, claims, vcs, comments, up, tick, fix, chat, left, seen>>

\* Mutant: without the limit.
RetryForEver(p) ==
    /\ Sees(p, "failed") /\ LooksLikeInfra
    /\ row' = [row EXCEPT !.infra = @ + 1]
    /\ RetryInGitLab
    /\ UNCHANGED <<claims, comments, up, tick, fix, chat, seen>>

\* _handle_infra_failure: the pipeline is retried; a retry that GitLab refuses
\* is counted, too.
RetryPipeline(p) ==
    /\ Sees(p, "failed") /\ LooksLikeInfra /\ watch[p].infra < MaxInfra
    /\ row' = [row EXCEPT !.infra = @ + 1]
    /\ RetryInGitLab
    /\ UNCHANGED <<claims, comments, up, tick, fix, chat, seen>>

UsedUp(p) ==
    IF LooksLikeInfra THEN watch[p].infra >= MaxInfra ELSE watch[p].attempts >= MaxAutofix

\* _escalate_via_dm, once; a suppressed message does not count.
GiveUp(p) ==
    /\ Sees(p, "failed") /\ UsedUp(p)
    /\ \/ watch[p].gaveUp /\ Calm /\ UNCHANGED row
       \/ ~watch[p].gaveUp /\ Calm /\ row' = [row EXCEPT !.gaveUp = TRUE, !.lead = TRUE]
       \/ ~watch[p].gaveUp /\ Spend("failures") /\ UNCHANGED row
    /\ UNCHANGED <<claims, vcs, comments, up, tick, fix, chat, seen>>

\* Mutant: any comment holds the fix up, answered or not.
UnhandledAny(p, listed) == watch[p].owes \/ listed # {}

\* _has_unhandled_review_comments: something is pending, or the newest comment
\* is not the one at the watermark of the snapshot.
Unhandled(p, listed) == watch[p].owes \/ (listed # {} /\ Max(listed) # watch[p].seen)

\* The auto-fix is a task of its own, started unless the Reviewer owes an
\* answer or one is in flight.
StartFix(p) ==
    /\ Sees(p, "failed") /\ ~LooksLikeInfra /\ ~UsedUp(p)
    /\ \E listed \in Listings :
         /\ IF listed = Ids THEN Calm ELSE Spend("failures")
         /\ IF Unhandled(p, listed) \/ fix[p] # "idle" THEN UNCHANGED <<fix, seen>>
            ELSE /\ fix' = [fix EXCEPT ![p] = "running"]
                 /\ seen' = [seen EXCEPT !.fixes = @ + 1]
    /\ UNCHANGED <<row, claims, vcs, comments, up, tick, chat>>

\* handle_iteration with the logs of the failed jobs; a crash is an attempt.
FixRuns(p) ==
    /\ fix[p] = "running"
    /\ \/ Push /\ fix' = [fix EXCEPT ![p] = "pushed"]
       \/ UNCHANGED <<vcs, left>> /\ fix' = [fix EXCEPT ![p] = "failed"]
    /\ UNCHANGED <<row, claims, comments, up, tick, watch, chat, seen>>

\* Mutant: an attempt that pushed nothing is not counted.
FixEndsUncounted(p) ==
    /\ fix[p] \in {"pushed", "failed"} /\ fix' = [fix EXCEPT ![p] = "idle"]
    /\ row' = IF fix[p] = "failed" THEN row
              ELSE [row EXCEPT !.attempts = @ + 1, !.sha = vcs.head]
    /\ UNCHANGED <<claims, vcs, comments, up, tick, watch, chat, left, seen>>

\* _post_iteration_state
FixEnds(p) ==
    /\ fix[p] \in {"pushed", "failed"} /\ fix' = [fix EXCEPT ![p] = "idle"]
    /\ row' = [row EXCEPT !.attempts = @ + 1,
                          !.sha = IF fix[p] = "pushed" THEN vcs.head ELSE @]
    /\ UNCHANGED <<claims, vcs, comments, up, tick, watch, chat, left, seen>>

----------------------------------------------------------------------------
(* The listener                                                            *)

\* MmThreadListener._run_iteration for a reply in the review thread ...
ChatIterates ==
    /\ row.thread /\ chat = None /\ left.chats > 0
    /\ Push /\ chat' = vcs.head + 1
    /\ UNCHANGED <<row, claims, comments, up, tick, watch, fix, seen>>

\* ... and its _mark_iteration_pending, with reset_autofix.
ChatMarks ==
    /\ chat # None /\ chat' = None
    /\ row' = [ResetCounters(row) EXCEPT !.sha = chat]
    /\ seen' = [seen EXCEPT !.fixes = 0]
    /\ UNCHANGED <<claims, vcs, comments, up, tick, watch, fix, left>>

\* _handle_autofix_restart: the lead answers the escalation.
RestartCommand ==
    /\ row.lead /\ Spend("commands")
    /\ row' = ResetCounters(row) /\ seen' = [seen EXCEPT !.fixes = 0]
    /\ UNCHANGED <<claims, vcs, comments, up, tick, watch, fix, chat>>

----------------------------------------------------------------------------
(* GitLab, people and deploys                                              *)

Comment ==
    LET i == Cardinality(comments) + 1
    IN  /\ vcs.status # "closed" /\ i <= MaxComments
        /\ \E d \in {c.discussion : c \in comments} \cup {i}, ask \in BOOLEAN :
             /\ IF ask THEN Spend("asks") ELSE Spend("remarks")
             /\ comments' = comments \cup
                    {[id |-> i, discussion |-> d, ask |-> ask, gone |-> FALSE]}
        /\ UNCHANGED <<row, claims, vcs, up, tick, watch, fix, chat, seen>>

Delete ==
    /\ Spend("deletions")
    /\ \E c \in comments : comments' = (comments \ {c}) \cup {[c EXCEPT !.gone = TRUE]}
    /\ UNCHANGED <<row, claims, vcs, up, tick, watch, fix, chat, seen>>

\* Out of draft; merged or closed.
ChangeStatus ==
    /\ \/ vcs.draft /\ vcs' = [vcs EXCEPT !.draft = FALSE] /\ Calm
       \/ vcs.status # "closed" /\ vcs' = [vcs EXCEPT !.status = "closed"] /\ Spend("closings")
    /\ UNCHANGED <<row, claims, comments, up, tick, watch, fix, chat, seen>>

\* One more approval, or one taken back.
Approve ==
    /\ vcs.status # "closed" /\ Spend("approvals")
    /\ vcs' = [vcs EXCEPT !.approved = ~@]
    /\ seen' = [seen EXCEPT !.approvals = IF vcs.approved THEN @ ELSE @ + 1]
    /\ UNCHANGED <<row, claims, comments, up, tick, watch, fix, chat>>

PipelineStarts ==
    /\ vcs.of # vcs.head /\ Spend("pipelines")
    /\ \E jobs \in {Waiting, Checking} :
         vcs' = [vcs EXCEPT !.of = vcs.head, !.jobs = jobs, !.infra = FALSE]
    /\ UNCHANGED <<row, claims, comments, up, tick, watch, fix, chat, seen>>

PipelineEnds ==
    /\ vcs.jobs = Checking
    /\ \/ vcs' = [vcs EXCEPT !.jobs = Passed]
          /\ Calm
       \/ \E infra \in BOOLEAN : vcs' = [vcs EXCEPT !.jobs = Broken, !.infra = infra]
          /\ Spend("reds")
    /\ UNCHANGED <<row, claims, comments, up, tick, watch, fix, chat, seen>>

Deploy(p) ==
    /\ p \notin up /\ Spend("deploys") /\ up' = up \cup {p}
    /\ UNCHANGED <<row, claims, vcs, comments, tick, watch, fix, chat, seen>>

\* A pod is stopped or killed; another one runs, or it starts again.
Stop(p) ==
    /\ p \in up /\ Spend("stops")
    /\ up' \in {up, up \ {p}} \ {{}}
    /\ EndTick(p) /\ watch' = [watch EXCEPT ![p] = NoWatch]
    /\ fix' = [fix EXCEPT ![p] = "idle"]
    /\ seen' = [seen EXCEPT !.cut = IF tick[p].at = "idle" THEN @ ELSE @ + 1,
                            !.lost = IF fix[p] = "idle" THEN @ ELSE @ + 1]
    /\ UNCHANGED <<row, claims, vcs, comments, chat>>

ReviewerStep(p) ==
    \/ Load(p) \/ LeaveAlone(p) \/ Fetch(p) \/ Look(p)
    \/ (\E answer \in Answers : Claim(p, answer)) \/ DecideOtherwise(p)
    \/ Post(p) \/ Iterate(p) \/ MarkPending(p)
    \/ Ping(p) \/ Ack(p) \/ Remind(p) \/ Break(p) \/ Persist(p)

DevOpsStep(p) ==
    \/ Watch(p) \/ SeesGreen(p) \/ SeesOther(p) \/ RetryPipeline(p) \/ GiveUp(p)
    \/ StartFix(p)

Next ==
    \/ \E p \in Pods : \/ ReviewerStep(p) \/ DevOpsStep(p) \/ FixRuns(p) \/ FixEnds(p)
                       \/ Deploy(p) \/ Stop(p)
    \/ ChatIterates \/ ChatMarks \/ RestartCommand
    \/ Comment \/ Delete \/ ChangeStatus \/ Approve \/ PipelineStarts \/ PipelineEnds

Spec == Init /\ [][Next]_vars

\* The pollers go on, an iteration ends, GitLab runs its pipelines.
Fairness ==
    /\ \A p \in Pods : /\ WF_vars(ReviewerStep(p)) /\ WF_vars(DevOpsStep(p))
                       /\ WF_vars(FixRuns(p)) /\ WF_vars(FixEnds(p))
    /\ WF_vars(ChatMarks) /\ WF_vars(PipelineStarts) /\ WF_vars(PipelineEnds)

FairSpec == Spec /\ Fairness

----------------------------------------------------------------------------
(* Properties                                                              *)

\* A comment gets one answer, whatever pods overlap or stop: another one only
\* after the claim on it was given back.
AnsweredOnce == \A i \in 1..MaxComments : seen.answers[i] <= 1

\* p answers the comment that it claimed; the comments that somebody answers.
Owner(p) == tick[p].at \in {"replying", "announcing", "iterating", "pushed"}
InHand == {tick[p].cur : p \in {q \in Pods : Owner(q)}}

\* What the claims promise: whoever takes a comment answers it once at most, and
\* gives it back, with its answer forgotten, or is through with it.
Claimed == INSTANCE HandledOnce WITH
    Items <- 1..MaxComments, answers <- seen.answers,
    status <- [i \in 1..MaxComments |-> IF i \notin claims THEN "free"
                                        ELSE IF i \in InHand THEN "taken" ELSE "done"]

ImplementsHandledOnce == Claimed!Spec

\* last_seen_comment_id never goes back, to comments that were dealt with,
\* whichever of them was deleted meanwhile - unless two ticks overlapped.
WatermarkAdvances == [][~seen'.overlap => row.seen <= row'.seen]_vars

\* The watermark passes no ask unanswered: it, or a newer comment of its
\* discussion, is pending, claimed, ignored or deleted - unless it was pending
\* when the discussions could not be listed, or two ticks overlapped.
NothingGhosted ==
    \A c \in comments :
        (c.ask /\ c.id <= row.seen /\ ~seen.overlap) =>
            \E d \in comments :
                /\ d.discussion = c.discussion /\ d.id >= c.id
                /\ d.gone \/ d.id \in row.pending \cup claims \cup seen.ignored \cup seen.unread

\* The team is asked for a review, and reminded, once, and told to merge once
\* for every time the approvals became enough; again only because a tick did
\* not come to persist the first, took approvals it could not read for none, or
\* overlapped with another.
PingedOnce ==
    ~seen.overlap =>
        /\ seen.pings <= 1 + seen.cut /\ seen.nags <= 1 + seen.cut
        /\ seen.merges <= seen.approvals + seen.cut + seen.misread

\* A red pipeline costs max_autofix_attempts runs of the model, one more
\* because a tick reads the counter before the run in flight has counted.
AutofixIsBounded == seen.fixes <= MaxAutofix + 2 * Cardinality(Pods) - 1 + seen.lost

\* A question or a request on an open merge request is answered in the end.
AskIsAnswered ==
    \A i \in 1..MaxComments :
        (i \in Ids /\ Actionable(i)) ~>
            (i \in claims \cup seen.ignored \/ i \notin Ids \/ vcs.status = "closed")

\* ... if nobody wrote a remark below it, the discussions could be listed while
\* it was pending, and no two ticks overlapped.
LastAskIsAnswered ==
    \A i \in 1..MaxComments :
        (i \in Ids /\ Actionable(i)) ~>
            (i \in claims \cup seen.ignored \cup seen.unread \/ i \notin Ids
             \/ vcs.status = "closed" \/ seen.overlap
             \/ \E c, d \in comments : c.id = i /\ d.id > i /\ d.discussion = c.discussion)

\* The comment at the watermark was deleted, and only older ones stand.
Blinded == Ids # {} /\ Max(Ids) < row.seen

\* A red pipeline is fixed, retried, or on the lead's desk in the end - unless
\* the Reviewer owes an answer, or DevOps takes it to owe one.
RedIsTakenUp ==
    Status = "failed" ~>
        (Status # "failed" \/ row.gaveUp \/ vcs.status = "closed" \/ row.pending # {}
         \/ Blinded)

-----------------------------------------------------------------------------
(* What a comment of the code says and the code does not keep.  No run has   *)
(* these; README, section 5, has the behaviours that violate them.           *)

\* "The Reviewer poll ack-posts to the thread when CI for this sha turns
\* green, then clears the field."
AckIsKept == [][row.sha # None /\ row'.sha = None => row.sha <= seen.told]_vars

\* "The comment id stays pending until its thread's reply is actually
\* delivered": _resolve_actionable_threads, when no discussion is listed.
StaysPending ==
    ~seen.overlap => \A i \in seen.unread : i \in row.pending \cup claims \/ i \notin Ids

\* "If the comment turns out to be chatter, the Reviewer advances its watermark
\* and the next DevOps tick auto-fixes as usual": not below a deleted one.
RedIsAlwaysTakenUp ==
    Status = "failed" ~>
        (Status # "failed" \/ row.gaveUp \/ vcs.status = "closed" \/ row.pending # {})

=============================================================================
