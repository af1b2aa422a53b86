--------------------------- MODULE ThreadListener ---------------------------
(***************************************************************************)
(* Posts that address the bot in the chat, delivered by the WebSocket and  *)
(* by the catch-up sweep of every pod:                                     *)
(*                                                                         *)
(*   MmThreadListener  _dispatch with its in-flight set, the routes of a   *)
(*                     post, claims and their release, catch-up cursors    *)
(*   TaskIntakeInbox   one ticket per post: its own claim, create, key,    *)
(*                     release, the drop of abandoned claims               *)
(*   JiraTaskTracker, MattermostChat   what their calls may do             *)
(*                                                                         *)
(* A post is a number, in the order of writing.  The tickets are asked for *)
(* in one thread, the reviews are one merge request's, the commands come   *)
(* from the lead.                                                          *)
(***************************************************************************)
EXTENDS Naturals, FiniteSets, FiniteSetsExt

Bounds == {"review", "ask", "restart", "reset",  \* posts of a kind
           "losses", "failures", "duplicates", "deploys", "stops", "touches", "days"}

CONSTANTS
    Pods,      \* processes
    First,     \* the pod that runs at first
    MaxPosts,  \* bound: posts
    MaxRows,   \* bound: rows of intake_requests ever inserted
    Budgets    \* bounds: what may happen, and how often; a run has one of them

ASSUME ListenerAssumption ==
    /\ IsFiniteSet(Pods) /\ First \in Pods
    /\ MaxPosts \in Nat /\ MaxRows \in Nat
    /\ Budgets \subseteq [Bounds -> Nat]

VARIABLES
    kind,      \* kind[p]: what a post is, or "none"
    inbox,     \* inbox[pod]: posts on their way through the WebSocket
    work,      \* work[w]: what a worker does
    claims,    \* processed_thread_posts
    requests,  \* intake_requests
    lastRow,   \* their id sequence
    fragments, \* posts appended for the analyst
    marked,    \* posts with the reaction of a processed command
    restart,   \* autofix_restart_processed_at: the newest /restart, or 0
    anchor,    \* last_activity_at of the merge request: the newest post by then
    lead,      \* lead[pod]: whom its process looked up, once, as the lead
    past,      \* what is too old for the sweep: posts and rows of a day, posts of a week
    up,        \* pods that run
    left,      \* what is left of the budget
    seen       \* observers, see Observers

dbVars == <<claims, requests, lastRow, fragments, restart, anchor>>
vars == <<kind, past, lead, inbox, work, dbVars, marked, up, left, seen>>

None == 0
Posts == 1..MaxPosts
Kinds == {"review", "ask", "restart", "reset"}
Workers == Pods \X {"ws", "sweep"}  \* the two tasks of a pod that dispatch posts

Busy(at, p) == [at |-> at, post |-> p, row |-> None, known |-> FALSE]
Idle == Busy("idle", None)

Observers == [answers : [Posts -> Nat],  \* since the post was last claimed
              tickets : [Posts -> Nat],  \* made in Jira
              unseen : [Posts -> Nat],   \* of these, made by a call that does not tell
              ran : [Posts -> Nat],      \* a command was carried out
              unmarked : [Posts -> Nat], \* ... unmarked, or looked for too early or in vain
              dropped : SUBSET Posts]    \* given back for another try

Jobs ==
    [at : {"idle", "deciding", "replying", "announcing", "iterating", "releasing", "intake",
           "drafting", "declining", "updating", "claiming", "creating", "undoing", "storing",
           "telling", "failing", "appending", "wiping", "marking"},
     post : Posts \cup {None}, row : 0..MaxRows, known : BOOLEAN]

TypeOK ==
    /\ kind \in [Posts -> Kinds \cup {"none"}]
    /\ inbox \in [Pods -> SUBSET Posts]
    /\ work \in [Workers -> Jobs]
    /\ \A w \in Workers : work[w].at = "idle" <=> work[w].post = None
    /\ claims \subseteq Posts /\ fragments \subseteq Posts /\ marked \subseteq Posts
    /\ requests \subseteq [id : 1..MaxRows, post : Posts, key : BOOLEAN, old : BOOLEAN]
    /\ \A r, s \in requests : r.post = s.post => r = s
    /\ lastRow \in 0..MaxRows /\ restart \in 0..MaxPosts /\ anchor \in 0..MaxPosts
    /\ lead \in [Pods -> {"unknown", "found", "nobody"}]
    /\ past \in [day : 0..MaxPosts, rows : 0..MaxRows, week : 0..MaxPosts]
    /\ up \subseteq Pods /\ left \in [Bounds -> Nat] /\ seen \in Observers

Init ==
    /\ kind = [p \in Posts |-> "none"] /\ inbox = [pod \in Pods |-> {}]
    /\ work = [w \in Workers |-> Idle]
    /\ claims = {} /\ requests = {} /\ lastRow = 0 /\ fragments = {} /\ marked = {}
    /\ restart = None /\ anchor = None /\ up = {First} /\ left \in Budgets
    /\ lead = [pod \in Pods |-> "unknown"] /\ past = [day |-> 0, rows |-> 0, week |-> 0]
    /\ LET zero == [p \in Posts |-> 0]
       IN seen = [answers |-> zero, tickets |-> zero, unseen |-> zero, ran |-> zero,
                  unmarked |-> zero, dropped |-> {}]

Spend(what) == left[what] > 0 /\ left' = [left EXCEPT ![what] = @ - 1]
Calm == UNCHANGED left
Written == {p \in Posts : kind[p] # "none"}

----------------------------------------------------------------------------
(* Delivery                                                                *)

\* _inflight_posts: what the workers of a pod have in their hands.
Inflight(pod) == {work[w].post : w \in {pod} \X {"ws", "sweep"}}

\* read_channel_since: the posts after a cursor.
Since(p, cursor) == p > cursor

\* Mutant: a cursor for the threads of reviews and the channel of tickets only.
SweptThreads(p) ==
    /\ kind[p] \in {"review", "ask"}
    /\ IF kind[p] = "review" THEN Since(p, anchor) ELSE \E r \in requests : r.id > past.rows

\* _gather_channel_cursors: the review thread since the last activity on the
\* merge request, a week back at most; the channel of the tickets while
\* intake_requests has a row of the last day; the lead's direct messages; the
\* latter two a day back.
Swept(p) ==
    \/ kind[p] = "review" /\ Since(p, anchor) /\ Since(p, past.week)
    \/ kind[p] = "ask" /\ Since(p, past.day) /\ \E r \in requests : r.id > past.rows
    \/ kind[p] \in {"restart", "reset"} /\ Since(p, past.day)

\* _consume_subscription: every event once.
FromSocket(w, p) ==
    /\ w[2] = "ws" /\ p \in inbox[w[1]] /\ inbox' = [inbox EXCEPT ![w[1]] = @ \ {p}]
    /\ UNCHANGED lead

\* catch_up: every post under the cursors, at every tick; the lead's direct
\* messages if the process knows the lead.
FromSweep(w, p) ==
    /\ w[2] = "sweep" /\ Swept(p) /\ UNCHANGED inbox
    /\ \/ kind[p] \in {"review", "ask"} /\ UNCHANGED lead
       \/ /\ kind[p] \in {"restart", "reset"} /\ lead[w[1]] # "nobody"
          /\ lead' = [lead EXCEPT ![w[1]] = "found"]

\* _lead_dm_channel_id: a lookup that failed found nobody, and is kept for the
\* life of the process like one that succeeded.
FindNobody(pod) ==
    /\ pod \in up /\ lead[pod] = "unknown" /\ Spend("failures")
    /\ lead' = [lead EXCEPT ![pod] = "nobody"]
    /\ UNCHANGED <<kind, past, inbox, work, dbVars, marked, up, seen>>

\* _dispatch: nothing that another worker of the pod has in its hands.
Delivered(w, p) ==
    /\ w[1] \in up /\ work[w].at = "idle" /\ p \notin Inflight(w[1])
    /\ FromSocket(w, p) \/ FromSweep(w, p)

At(w, at) == work' = [work EXCEPT ![w].at = at]

\* Mutant: the post stays in the in-flight set.
DoneHeld(w) == work' = [work EXCEPT ![w] = Busy("idle", work[w].post)]

\* The post leaves the in-flight set, whatever came of it.
Done(w) == work' = [work EXCEPT ![w] = Idle]

\* A worker takes a post.
Begin(w, at, p) == work' = [work EXCEPT ![w] = Busy(at, p)]

\* The post is claimed, the command is marked, or a call fails before anything
\* is done: the event is spent.
PassOver(w, p) ==
    /\ Delivered(w, p) /\ w[2] = "ws"
    /\ \/ p \in claims \cup marked /\ Calm /\ UNCHANGED seen
       \/ Spend("failures") /\ UNCHANGED seen
    /\ UNCHANGED <<kind, past, work, dbVars, marked, up>>

----------------------------------------------------------------------------
(* A reply in the review thread                                            *)

\* The claim is looked at before the model decides, for minutes ...
RouteReview(w, p) ==
    /\ kind[p] = "review" /\ p \notin claims /\ Delivered(w, p)
    /\ Begin(w, "deciding", p)
    /\ UNCHANGED <<kind, past, dbVars, marked, up, left, seen>>

\* Mutant: whether the insert won is not looked at.
WinsAnyway(w) == TRUE

\* _claim_post: the insert is atomic, and tells whether it was the first.
Wins(w) == work[w].post \notin claims

Claim(w) ==
    /\ claims' = claims \cup {work[w].post}
    /\ seen' = [seen EXCEPT !.dropped = @ \ {work[w].post}]

\* The responder's model: a reply or an alternative, an iteration announced or
\* not; IGNORE has nothing to send.
Decision(w) ==
    \/ \E at \in {"replying", "announcing", "iterating"} : At(w, at)
    \/ Done(w)

\* ... and inserted when it has.  No text, or a failure, leaves the post as it
\* was.
Decide(w) ==
    /\ work[w].at = "deciding"
    /\ \/ Wins(w) /\ Claim(w) /\ Calm /\ Decision(w)
       \/ ~Wins(w) /\ Done(w) /\ Calm /\ UNCHANGED <<claims, seen>>
       \/ Done(w) /\ Spend("failures") /\ UNCHANGED <<claims, seen>>
    /\ UNCHANGED <<kind, past, lead, inbox, requests, lastRow, fragments, marked, restart,
                   anchor, up>>

\* _post_reply: sent, or dropped by the rate limit or an error.
Answer(w) == seen' = [seen EXCEPT !.answers[work[w].post] = @ + 1]

Reply(w) ==
    /\ work[w].at \in {"replying", "announcing"}
    /\ \/ Answer(w) /\ Calm
          /\ IF work[w].at = "replying" THEN Done(w) ELSE At(w, "iterating")
       \/ At(w, "releasing") /\ Spend("failures") /\ UNCHANGED seen
    /\ UNCHANGED <<kind, past, lead, inbox, dbVars, marked, up>>

\* _run_iteration: its end, or no wiki.
Iterate(w) ==
    /\ work[w].at = "iterating"
    /\ \/ Done(w) /\ Calm
       \/ At(w, "releasing") /\ Spend("failures")
    /\ UNCHANGED <<kind, past, lead, inbox, dbVars, marked, up, seen>>

\* _release_post_claim, for another try.
Release(w) ==
    LET p == work[w].post
    IN  /\ work[w].at = "releasing" /\ Done(w)
        /\ claims' = claims \ {p}
        /\ seen' = [seen EXCEPT !.answers[p] = 0, !.dropped = @ \cup {p}]
        /\ UNCHANGED <<kind, past, lead, inbox, requests, lastRow, fragments, marked,
                       restart, anchor, up, left>>

----------------------------------------------------------------------------
(* A ticket is asked for                                                   *)

\* Mutant: the intake relies on the rows of intake_requests only.
RouteAskUnclaimed(w, p) ==
    /\ kind[p] = "ask" /\ Delivered(w, p) /\ Begin(w, "intake", p)
    /\ UNCHANGED <<kind, past, dbVars, marked, up, left, seen>>

\* _handle_intake: the claim comes first.
RouteAsk(w, p) ==
    /\ kind[p] = "ask" /\ p \notin claims /\ Delivered(w, p)
    /\ Begin(w, "intake", p) /\ claims' = claims \cup {p}
    /\ seen' = [seen EXCEPT !.dropped = @ \ {p}]
    /\ UNCHANGED <<kind, past, requests, lastRow, fragments, marked, restart, anchor, up,
                   left>>

Requested(p) == \E r \in requests : r.post = p

\* _drop_abandoned_claim: a row of the post without a ticket, ten minutes old.
Abandoned(p) == {r \in requests : r.post = p /\ ~r.key /\ r.old}

\* _existing_ticket of the thread.
Known(rows) == \E r \in rows : r.key

\* _already_claimed: an abandoned row is dropped; another one ends it.
LookUp(w) ==
    LET p == work[w].post
        kept == requests \ Abandoned(p)
    IN  /\ work[w].at = "intake" /\ requests' = kept
        /\ IF \E r \in kept : r.post = p THEN Done(w)
           ELSE work' = [work EXCEPT ![w].at = "drafting", ![w].known = Known(kept)]
        /\ UNCHANGED <<kind, past, lead, inbox, claims, lastRow, fragments, marked, restart,
                       anchor, up, left, seen>>

\* submit_task_intake: busy, an edit of the thread's ticket, or a new ticket.
Verdicts(w) == {"declining", IF work[w].known THEN "updating" ELSE "failing", "claiming"}

\* The model gives a verdict, or crashes.
Draft(w) ==
    /\ work[w].at = "drafting"
    /\ \/ Calm /\ \E verdict \in Verdicts(w) : At(w, verdict)
       \/ At(w, "releasing") /\ Spend("failures")
    /\ UNCHANGED <<kind, past, lead, inbox, dbVars, marked, up, seen>>

\* _analyst_awaits_post: the post is the answer of a person the analyst asked.
Awaited(w) == At(w, "appending")

\* "Busy"; an answer for the analyst goes on to it, and the claim stays; else
\* an undelivered reply gives the post back.
Decline(w) ==
    /\ work[w].at = "declining"
    /\ \/ Answer(w) /\ Calm /\ (Done(w) \/ Awaited(w))
       \/ Spend("failures") /\ UNCHANGED seen /\ (At(w, "releasing") \/ Awaited(w))
    /\ UNCHANGED <<kind, past, lead, inbox, dbVars, marked, up>>

\* _handle_task_fragment
Append(w) ==
    /\ work[w].at = "appending" /\ Done(w)
    /\ \/ fragments' = fragments \cup {work[w].post} /\ Calm
       \/ UNCHANGED fragments /\ Spend("failures")
    /\ UNCHANGED <<kind, past, lead, inbox, claims, requests, lastRow, marked, restart,
                   anchor, up, seen>>

\* The tracker's update_task: done, or an error.
UpdateTask == {"telling", "failing"}

\* _update: the edit is told; one that names no change, or fails, as well.
Update(w) ==
    /\ work[w].at = "updating" /\ \E at \in UpdateTask : At(w, at)
    /\ UNCHANGED <<kind, past, lead, inbox, dbVars, marked, up, left, seen>>

NewRow(id, p) == [id |-> id, post |-> p, key |-> FALSE, old |-> FALSE]

\* _claim: the row, with a unique post; the insert may fail otherwise.
ClaimRow(w) ==
    LET p == work[w].post
    IN  /\ work[w].at = "claiming"
        /\ \/ /\ ~Requested(p) /\ lastRow < MaxRows /\ Calm
              /\ lastRow' = lastRow + 1
              /\ requests' = requests \cup {NewRow(lastRow + 1, p)}
              /\ work' = [work EXCEPT ![w].at = "creating", ![w].row = lastRow + 1]
           \/ Requested(p) /\ Done(w) /\ Calm /\ UNCHANGED <<requests, lastRow>>
           \/ At(w, "failing") /\ Spend("failures") /\ UNCHANGED <<requests, lastRow>>
        /\ UNCHANGED <<kind, past, lead, inbox, claims, fragments, marked, restart, anchor,
                       up, seen>>

\* The HTTP session sends a POST again after 502, 503, 504 or a read error,
\* although the first may have made the ticket.
SentAgain == [made |-> 2, unseen |-> 1]

\* create_task may raise after the ticket was made, in a call that follows.
MadeAndRaised == [made |-> 1, unseen |-> 1]

Create(w) ==
    LET p == work[w].post
        Makes(n) == seen' = [seen EXCEPT !.tickets[p] = @ + n.made, !.unseen[p] = @ + n.unseen]
    IN  /\ work[w].at = "creating"
        /\ \/ At(w, "storing") /\ Makes([made |-> 1, unseen |-> 0]) /\ Calm
           \/ At(w, "storing") /\ Makes(SentAgain) /\ Spend("duplicates")
           \/ At(w, "undoing") /\ Makes(MadeAndRaised) /\ Spend("duplicates")
           \/ At(w, "undoing") /\ Spend("failures") /\ UNCHANGED seen
        /\ UNCHANGED <<kind, past, lead, inbox, dbVars, marked, up>>

\* _release by the row's id; it may raise in its turn, out of handle.
Undo(w) ==
    /\ work[w].at = "undoing"
    /\ \/ At(w, "failing") /\ requests' = {r \in requests : r.id # work[w].row} /\ Calm
       \/ At(w, "releasing") /\ UNCHANGED requests /\ Spend("failures")
    /\ UNCHANGED <<kind, past, lead, inbox, claims, lastRow, fragments, marked, restart,
                   anchor, up, seen>>

\* _store_key by the row's id; a failure is logged.
Store(w) ==
    /\ work[w].at = "storing" /\ At(w, "telling")
    /\ \/ requests' = {[r EXCEPT !.key = @ \/ r.id = work[w].row] : r \in requests} /\ Calm
       \/ UNCHANGED requests /\ Spend("failures")
    /\ UNCHANGED <<kind, past, lead, inbox, claims, lastRow, fragments, marked, restart,
                   anchor, up, seen>>

\* The ticket, or the edit, is announced; the claim stays either way.
Tell(w) ==
    /\ work[w].at = "telling" /\ Done(w)
    /\ \/ Answer(w) /\ Calm
       \/ UNCHANGED seen /\ Spend("failures")
    /\ UNCHANGED <<kind, past, lead, inbox, dbVars, marked, up>>

\* The failure is told; if it cannot be, the post is given back.
TellFailure(w) ==
    /\ work[w].at = "failing"
    /\ \/ Answer(w) /\ Done(w) /\ Calm
       \/ At(w, "releasing") /\ Spend("failures") /\ UNCHANGED seen
    /\ UNCHANGED <<kind, past, lead, inbox, dbVars, marked, up>>

\* Ten minutes pass.
Age ==
    /\ \E r \in requests : ~r.old /\ ~r.key
    /\ requests' = {[r EXCEPT !.old = TRUE] : r \in requests}
    /\ UNCHANGED <<kind, past, lead, inbox, work, claims, lastRow, fragments, marked,
                   restart, anchor, up, left, seen>>

----------------------------------------------------------------------------
(* Commands of the lead                                                    *)

\* get_post answers nothing, or a post without its reactions, when it fails.
Overlooked(p) == p \in marked /\ Spend("failures")

\* The fast path: a marked command was carried out.
Fresh(p) ==
    \/ p \notin marked /\ Calm
       /\ seen' = [seen EXCEPT !.unmarked[p] = @ + Cardinality({w \in Workers : work[w].post = p})]
    \/ Overlooked(p) /\ seen' = [seen EXCEPT !.unmarked[p] = @ + 1]

\* _handle_reset_command runs ...
RouteReset(w, p) ==
    /\ kind[p] = "reset" /\ Delivered(w, p) /\ Fresh(p)
    /\ Begin(w, "wiping", p)
    /\ UNCHANGED <<kind, past, dbVars, marked, up>>

\* ... reset_ticket_state in a transaction; or it refuses, the lead being looked
\* up anew and not found; or it raises.
Wipe(w) ==
    LET p == work[w].post
    IN  /\ work[w].at = "wiping"
        /\ \/ At(w, "marking") /\ Calm /\ seen' = [seen EXCEPT !.ran[p] = @ + 1]
           \/ At(w, "marking") /\ Spend("failures") /\ UNCHANGED seen
           \/ Done(w) /\ Spend("failures") /\ UNCHANGED seen
        /\ UNCHANGED <<kind, past, lead, inbox, dbVars, marked, up>>

\* Mutant: the same command counts as newer.
RouteRestartAgain(w, p) ==
    /\ kind[p] = "restart" /\ restart <= p /\ Delivered(w, p)
    /\ restart' = p /\ seen' = [seen EXCEPT !.ran[p] = @ + 1]
    /\ Begin(w, "marking", p)
    /\ UNCHANGED <<kind, past, claims, requests, lastRow, fragments, marked, anchor, up,
                   left>>

\* The UPDATE carries the condition, and tells whether it was the first.
IsNewer(p) == restart < p

\* _handle_autofix_restart: a command that is not newer was carried out.
RouteRestart(w, p) ==
    /\ kind[p] = "restart" /\ IsNewer(p) /\ Delivered(w, p)
    /\ restart' = p /\ seen' = [seen EXCEPT !.ran[p] = @ + 1]
    /\ Begin(w, "marking", p)
    /\ UNCHANGED <<kind, past, claims, requests, lastRow, fragments, marked, anchor, up,
                   left>>

\* add_reaction of the chat.
AddReaction(p) == marked' = marked \cup {p}

\* _reply_in_dm: the reply, then the reaction, both best effort.
Mark(w) ==
    LET p == work[w].post
    IN  /\ work[w].at = "marking" /\ Done(w)
        /\ \/ AddReaction(p) /\ Calm /\ UNCHANGED seen
           \/ UNCHANGED marked /\ Spend("failures")
              /\ seen' = [seen EXCEPT !.unmarked[p] = @ + 1]
        /\ UNCHANGED <<kind, past, lead, inbox, dbVars, up>>

----------------------------------------------------------------------------
(* People, deploys, the Reviewer                                           *)

\* The WebSocket events of a post: one for each pod that is connected.
Broadcast(p) == [pod \in Pods |-> IF pod \in up THEN inbox[pod] \cup {p} ELSE {}]

Write ==
    LET p == Cardinality(Written) + 1
    IN  /\ p \in Posts
        /\ \E k \in Kinds : kind' = [kind EXCEPT ![p] = k] /\ left[k] > 0
             /\ \/ /\ left' = [left EXCEPT ![k] = @ - 1]
                   /\ inbox' = Broadcast(p)
                \/ /\ left.losses > 0 /\ UNCHANGED inbox
                   /\ left' = [left EXCEPT ![k] = @ - 1, !["losses"] = @ - 1]
        /\ UNCHANGED <<past, lead, work, dbVars, marked, up, seen>>

\* Time passes: posts and rows get older than a day or a week, in their order,
\* a row after its post.
PassDays ==
    /\ Spend("days")
    /\ past' \in [day : past.day..Cardinality(Written), rows : past.rows..lastRow,
                  week : past.week..MaxPosts] \ {past}
    /\ past'.week <= past'.day
    /\ \A r \in requests : r.id <= past'.rows => r.post <= past'.day /\ (r.old \/ r.key)
    /\ UNCHANGED <<kind, lead, inbox, work, dbVars, marked, up, seen>>

\* The Reviewer's tick saw something happen: last_activity_at is now.
Touch ==
    /\ Spend("touches") /\ anchor' = Cardinality(Written)
    /\ UNCHANGED <<kind, past, lead, inbox, work, claims, requests, lastRow, fragments,
                   marked, restart, up, seen>>

Deploy(pod) ==
    /\ pod \notin up /\ Spend("deploys") /\ up' = up \cup {pod}
    /\ UNCHANGED <<kind, past, lead, inbox, work, dbVars, marked, seen>>

\* A pod is stopped or killed; what it had in its hands stays as it is.
Stop(pod) ==
    /\ pod \in up /\ Spend("stops")
    /\ up' \in {up, up \ {pod}} \ {{}}
    /\ work' = [w \in Workers |-> IF w[1] = pod THEN Idle ELSE work[w]]
    /\ inbox' = [inbox EXCEPT ![pod] = {}] /\ lead' = [lead EXCEPT ![pod] = "unknown"]
    /\ seen' = [seen EXCEPT !.unmarked = [p \in Posts |->
         @[p] + Cardinality({w \in Workers :
                  w[1] = pod /\ work[w].post = p /\ work[w].at = "marking"})]]
    /\ UNCHANGED <<kind, past, dbVars, marked>>

Step(w) ==
    \/ Decide(w) \/ Reply(w) \/ Iterate(w) \/ Release(w)
    \/ LookUp(w) \/ Draft(w) \/ Decline(w) \/ Append(w) \/ Update(w) \/ ClaimRow(w)
    \/ Create(w) \/ Undo(w) \/ Store(w) \/ Tell(w) \/ TellFailure(w)
    \/ Wipe(w) \/ Mark(w)

Route(w, p) == RouteReview(w, p) \/ RouteAsk(w, p) \/ RouteReset(w, p) \/ RouteRestart(w, p)

Next ==
    \/ \E w \in Workers : Step(w) \/ \E p \in Posts : Route(w, p) \/ PassOver(w, p)
    \/ Write \/ Touch \/ Age \/ PassDays
    \/ \E pod \in Pods : Deploy(pod) \/ Stop(pod) \/ FindNobody(pod)

Spec == Init /\ [][Next]_vars

\* The event loop goes on; each tick of the sweep hands over every post that the
\* cursors cover at that time.
Fairness ==
    /\ \A w \in Workers : WF_vars(Step(w))
    /\ \A p \in Posts : SF_vars(\E pod \in Pods : Route(<<pod, "sweep">>, p))

FairSpec == Spec /\ Fairness

----------------------------------------------------------------------------
(* Properties                                                              *)

Working(p) == \E w \in Workers : work[w].post = p /\ work[w].at \notin {"idle", "deciding"}

\* A claim does what it is for: whoever has a post answers it once, and nobody
\* answers, or gives back, a post that is another's or done with.
Claimed == INSTANCE HandledOnce WITH
    Items <- Posts, answers <- seen.answers,
    status <- [p \in Posts |-> IF p \notin claims THEN "free"
                               ELSE IF Working(p) THEN "taken" ELSE "done"]

ImplementsHandledOnce == Claimed!Spec

\* A post becomes one ticket, whatever is delivered again, released, or dropped
\* as abandoned; others only where Jira made one and did not say so.
OneTicketPerPost == \A p \in Posts : seen.tickets[p] <= 1 + seen.unseen[p]

\* A command is carried out once: /restart always; /reset again only if its
\* mark was not set, not seen, or not set yet when another pod looked.
CommandsRunOnce ==
    \A p \in Posts : seen.ran[p] <= IF kind[p] = "restart" THEN 1 ELSE 1 + seen.unmarked[p]

\* A /restart is obeyed although the event was lost, its handling failed or the
\* pod went down, at the latest by a newer one: unless a day went by first, or no
\* process that runs knows the lead.
Deaf == \A pod \in up : lead[pod] = "nobody"

RestartIsObeyed ==
    \A p \in Posts : (kind[p] = "restart") ~> (restart >= p \/ p <= past.day \/ Deaf)

\* What a cursor covers is taken up before it gets too old for it: lost events,
\* and posts that were given back, included.
SweptIsTaken ==
    \A p \in Posts :
        (kind[p] \in {"review", "ask"} /\ p \notin claims) ~> (p \in claims \/ ~Swept(p))

-----------------------------------------------------------------------------
(* What a comment of the code says and the code does not keep.  No run has   *)
(* these; README, section 5, has the behaviours that violate them.           *)

\* "A dropped reply releases the claim so the catch-up sweep retries it rather
\* than silently swallowing it."
DroppedIsRetried == \A p \in Posts : (p \in seen.dropped) ~> (p \notin seen.dropped)

\* "Failures are NOT cached - the next catch-up tick retries"
LookupIsRetried == \A pod \in Pods : (lead[pod] = "nobody") ~> (lead[pod] # "nobody")

=============================================================================
