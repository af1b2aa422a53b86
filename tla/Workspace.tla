----------------------------- MODULE Workspace -----------------------------
(***************************************************************************)
(* The checkout of one repository, its branches on GitLab, and the         *)
(* iterations of the Dev-agent that share it:                              *)
(*                                                                         *)
(*   GitLabVcs   ensure_clone with its lock, the clone next to the         *)
(*               checkout and the leftovers of killed processes; the       *)
(*               remote-tracking refs of a --single-branch clone; the      *)
(*               working tree, which checkout carries over and commit_all  *)
(*               commits whole; push, push_rewritten with its backup and   *)
(*               lease, staged branches                                    *)
(*   DevAgent    handle_iteration: the queue behind the workspace lock and *)
(*               the way from a checkout to a push                         *)
(*   run_iteration_with_retry   the three attempts of an iteration         *)
(*                                                                         *)
(* A commit is a number, past[c] the commits that are reachable from c.    *)
(* Commit 1 is the default branch, commit 2 the merge request as the plan  *)
(* left it.  The repository is one without local_path.                     *)
(***************************************************************************)
EXTENDS Naturals, FiniteSets

CONSTANTS
    Requests,    \* iterations that reviewers and DevOps ask for
    MaxCommits,  \* bound: commits in all
    MaxHuman,    \* bound: commits that people push to the merge request
    MaxCrashes,  \* bound: restarts of the process
    MaxFaults    \* bound: git commands that fail on their way

Nobody == "nobody"
Prewarm == "prewarm"

ASSUME WorkspaceAssumption ==
    /\ IsFiniteSet(Requests) /\ {Nobody, Prewarm} \cap Requests = {}
    /\ MaxCommits \in Nat \ {0, 1}
    /\ MaxHuman \in Nat /\ MaxCrashes \in Nat /\ MaxFaults \in Nat

VARIABLES
    past,      \* the commits there are, and what each is built on
    remote,    \* origin: the commit of each branch, or None
    backups,   \* origin: the commits that have a backup/... branch
    tracking,  \* origin/<branch> in the checkout
    disk,      \* the checkout: "absent", "half" (no HEAD) or "full"
    tmps,      \* processes that left a .<repo>.cloning.<pid> directory
    verified,  \* _clone_verified
    cloner,    \* who holds the clone lock
    head,      \* HEAD of the checkout
    dirt,      \* iterations that have uncommitted edits in the working tree
    lock,      \* who holds _workspace_lock
    queued,    \* _queued[branch]
    run,       \* run[r]: an iteration
    warm,      \* the pre-warm of the checkout at startup
    human, crashes, faults,  \* counters behind the bounds
    published  \* observer: commits that were part of the merge request

gitVars == <<past, remote, backups, tracking, published>>
cloneVars == <<disk, tmps, verified, cloner>>
treeVars == <<head, dirt>>
countVars == <<human, crashes, faults>>
vars == <<past, remote, backups, tracking, disk, tmps, verified, cloner, head,
          dirt, lock, queued, run, warm, human, crashes, faults, published>>

None == 0
Branches == {"mr", "staged"}
Commits == DOMAIN past
MaxAttempts == 3  \* MAX_ATTEMPTS of an iteration
MaxTries == 3     \* git push commands of one push

\* An iteration that knows nothing of the checkout yet.
Fresh(at, attempt) ==
    [at |-> at, attempt |-> attempt, old |-> None, tip |-> None, mine |-> None,
     staged |-> None, hold |-> FALSE, tries |-> 0, carries |-> {}, outcome |-> "none"]

Idle == Fresh("idle", 0)

Iterations ==
    [at : {"idle", "queued", "preparing", "cloning", "thinking", "built", "backedup",
           "tidying", "done"},
     attempt : 0..MaxAttempts, old : Commits \cup {None}, tip : Commits \cup {None},
     mine : Commits \cup {None}, staged : Commits \cup {None},
     hold : BOOLEAN, tries : 0..MaxTries, carries : SUBSET Requests,
     outcome : {"none", "pushed", "staged", "nothing", "blocked", "lost"}]

TypeOK ==
    /\ DOMAIN past \subseteq 1..MaxCommits
    /\ \A c \in DOMAIN past : c \in past[c] /\ past[c] \subseteq 1..c
    /\ remote \in [Branches -> Commits \cup {None}]
    /\ tracking \in [Branches -> Commits \cup {None}]
    /\ backups \subseteq Commits /\ published \subseteq Commits
    /\ disk \in {"absent", "half", "full"} /\ tmps \subseteq 0..MaxCrashes
    /\ verified \in BOOLEAN /\ head \in Commits \cup {None} /\ dirt \subseteq Requests
    /\ cloner \in Requests \cup {Nobody, Prewarm} /\ lock \in Requests \cup {Nobody}
    /\ queued \in 0..Cardinality(Requests)
    /\ warm \in {"asked", "cloning", "done"}
    /\ run \in [Requests -> Iterations]
    /\ human \in 0..MaxHuman /\ crashes \in 0..MaxCrashes /\ faults \in 0..MaxFaults

Init ==
    /\ past = [c \in 1..2 |-> 1..c]
    /\ remote = [mr |-> 2, staged |-> None] /\ backups = {} /\ published = {1, 2}
    /\ \/ disk = "full" /\ tracking = [mr |-> 2, staged |-> None] /\ head = 2
       \/ disk \in {"absent", "half"} /\ head = None
          /\ tracking = [b \in Branches |-> None]
    /\ tmps = {} /\ verified = FALSE /\ cloner = Nobody /\ dirt = {}
    /\ lock = Nobody /\ queued = 0 /\ warm = "asked"
    /\ run = [r \in Requests |-> Idle]
    /\ human = 0 /\ crashes = 0 /\ faults = 0

Fault == faults < MaxFaults /\ faults' = faults + 1

----------------------------------------------------------------------------
(* ensure_clone, called at startup and by every command on the checkout    *)

\* _reap_stale_clone_tmps, and the rmtree of our own directory, at which the
\* clone starts anew.  A leftover stays when its pid is in use again, or when
\* rmtree cannot remove it.
Reaped == {kept \cup {crashes} : kept \in SUBSET tmps}

\* The clone lock is ours and the checkout is not there, or is a half-clone
\* that rmtree takes away with its refs.
BeginClone(u) ==
    /\ cloner = Nobody /\ disk # "full"
    /\ disk' = "absent" /\ tracking' = [b \in Branches |-> None]
    /\ head' = None /\ dirt' = {}
    /\ tmps' \in Reaped /\ cloner' = u
    /\ UNCHANGED verified

\* tmp.rename(dest)
FinishClone(u) ==
    /\ cloner = u
    /\ disk' = "full" /\ head' = 1 /\ tmps' = tmps \ {crashes}
    /\ verified' = TRUE /\ cloner' = Nobody
    /\ UNCHANGED <<tracking, dirt>>

\* git clone failed or timed out: its directory may stay.
FailClone(u) ==
    /\ cloner = u /\ Fault
    /\ cloner' = Nobody /\ tmps' \in {tmps, tmps \ {crashes}}
    /\ UNCHANGED <<disk, verified, treeVars, tracking>>

PrewarmClone ==
    /\ \/ warm = "asked" /\ BeginClone(Prewarm) /\ warm' = "cloning" /\ UNCHANGED faults
       \/ warm = "cloning" /\ FinishClone(Prewarm) /\ warm' = "done" /\ UNCHANGED faults
       \/ warm = "cloning" /\ FailClone(Prewarm) /\ warm' = "done"
    /\ UNCHANGED <<past, remote, backups, published, lock, queued, run, human, crashes>>

\* Mutant: a directory counts as a checkout.
PrewarmFindsAny ==
    /\ warm = "asked" /\ cloner = Nobody /\ disk # "absent"
    /\ warm' = "done" /\ verified' = TRUE
    /\ UNCHANGED <<gitVars, disk, tmps, cloner, treeVars, lock, queued, run, countVars>>

PrewarmFinds ==
    /\ warm = "asked" /\ cloner = Nobody /\ disk = "full"
    /\ warm' = "done" /\ verified' = TRUE
    /\ UNCHANGED <<gitVars, disk, tmps, cloner, treeVars, lock, queued, run, countVars>>

\* _ensure_origin_ref: git fetch of a --single-branch clone covers the default
\* branch; the branch itself is fetched when it has no ref yet.
EnsureOriginRef(refs, b) == [refs EXCEPT ![b] = IF @ = None THEN remote[b] ELSE @]

----------------------------------------------------------------------------
(* One iteration                                                           *)

\* handle_iteration: the caller is counted and waits for the lock.
Ask(r) ==
    /\ run[r].at = "idle"
    /\ run' = [run EXCEPT ![r] = Fresh("queued", 1)]
    /\ queued' = queued + 1
    /\ UNCHANGED <<gitVars, cloneVars, treeVars, lock, warm, countVars>>

\* Mutant: without the lock.
AcquireAnyway(r) ==
    /\ run[r].at = "queued"
    /\ lock' = r /\ queued' = queued - 1
    /\ run' = [run EXCEPT ![r].at = "preparing"]
    /\ UNCHANGED <<gitVars, cloneVars, treeVars, warm, countVars>>

Acquire(r) ==
    /\ run[r].at = "queued" /\ lock = Nobody
    /\ lock' = r /\ queued' = queued - 1
    /\ run' = [run EXCEPT ![r].at = "preparing"]
    /\ UNCHANGED <<gitVars, cloneVars, treeVars, warm, countVars>>

\* Mutant: the lock is kept.
ReleaseNot == UNCHANGED lock

Release == lock' = Nobody

\* The iteration is over.
End(r, outcome) ==
    /\ run' = [run EXCEPT ![r].at = "done", ![r].outcome = outcome] /\ Release
    /\ UNCHANGED queued

\* A failure that run_iteration_with_retry tries again: another iteration
\* may have the workspace in between.
Retry(r) ==
    IF run[r].attempt < MaxAttempts
    THEN /\ run' = [run EXCEPT ![r] = Fresh("queued", run[r].attempt + 1)]
         /\ queued' = queued + 1 /\ Release
    ELSE End(r, "blocked")

\* ensure_clone has to clone.
Clone(r) ==
    /\ \/ /\ run[r].at = "preparing" /\ BeginClone(r)
          /\ run' = [run EXCEPT ![r].at = "cloning"] /\ UNCHANGED <<faults, lock, queued>>
       \/ /\ run[r].at = "cloning" /\ FinishClone(r)
          /\ run' = [run EXCEPT ![r].at = "preparing"] /\ UNCHANGED <<faults, lock, queued>>
       \/ run[r].at = "cloning" /\ FailClone(r) /\ Retry(r)
    /\ UNCHANGED <<past, remote, backups, published, warm, human, crashes>>

\* ensure_clone finds the checkout; checkout_existing_branch, head_sha, and
\* remote_branch_sha of the staged branch.  checkout -B moves HEAD and keeps
\* the uncommitted edits that are in the working tree.
Checkout(r) ==
    LET mr == EnsureOriginRef(tracking, "mr")
        refs == EnsureOriginRef(mr, "staged")
    IN  /\ run[r].at = "preparing" /\ cloner = Nobody /\ disk = "full"
        /\ verified' = TRUE /\ tracking' = refs /\ head' = refs["mr"]
        /\ run' = [run EXCEPT ![r].at = "thinking", ![r].old = refs["mr"],
                              ![r].tip = remote["mr"], ![r].staged = refs["staged"],
                              ![r].mine = refs["mr"]]
        /\ UNCHANGED <<past, remote, backups, published, disk, tmps, cloner, dirt,
                       lock, queued, warm, countVars>>

\* A git command fails or times out before the model runs.
CheckoutFails(r) ==
    /\ run[r].at = "preparing" /\ cloner = Nobody /\ disk = "full"
    /\ Fault /\ Retry(r) /\ verified' = TRUE
    /\ UNCHANGED <<gitVars, disk, tmps, cloner, treeVars, warm, human, crashes>>

\* The model edits files.
Edit(r) ==
    /\ run[r].at = "thinking" /\ r \notin dirt
    /\ dirt' = dirt \cup {r}
    /\ UNCHANGED <<gitVars, cloneVars, head, lock, queued, run, warm, countVars>>

NewCommit(before) ==
    /\ Cardinality(Commits) < MaxCommits
    /\ LET c == Cardinality(Commits) + 1
       IN past' = [d \in 1..c |-> IF d = c THEN before \cup {c} ELSE past[d]]

Latest == Cardinality(Commits) + 1

\* HEAD is what the iteration is going to push, with edits of these iterations.
Built(r, c, hold, edits) ==
    /\ head' = c
    /\ run' = [run EXCEPT ![r].at = "built", ![r].mine = c, ![r].hold = hold,
                          ![r].carries = edits]

\* commit_all: whatever is in the working tree, in a commit on top.
CommitOnTop(r) ==
    dirt # {} /\ NewCommit(past[run[r].mine]) /\ Built(r, Latest, FALSE, dirt)

\* result_sha: it rebuilt the history, and the branch moves there, to be
\* published or, with hold_push, shown first.  reset --hard leaves files that
\* git does not know, and commit_all adds them.
Rebuild(r) ==
    \E hold \in BOOLEAN, left \in SUBSET dirt :
        NewCommit({1}) /\ Built(r, Latest, hold, left \cup {r})

\* The prompt offers the history that was shown: the model takes that one,
\* with what reset --hard leaves on top.
TakeStaged(r) ==
    /\ run[r].staged \notin {None, head}
    /\ \/ UNCHANGED past /\ Built(r, run[r].staged, FALSE, {})
       \/ \E left \in SUBSET dirt \ {{}} :
             NewCommit(past[run[r].staged]) /\ Built(r, Latest, FALSE, left)

Build(r) ==
    /\ run[r].at = "thinking" /\ dirt' = {}
    /\ CommitOnTop(r) \/ Rebuild(r) \/ TakeStaged(r)
    /\ UNCHANGED <<remote, backups, tracking, published, cloneVars, lock, queued, warm,
                   countVars>>

\* NO_CHANGES or METADATA_UPDATED in a clean tree; the model says that it
\* failed, a result_sha nobody has, commits of another author; a run that broke
\* off.  The edits stay where they are.
BuildNothing(r) ==
    /\ run[r].at = "thinking"
    /\ \/ dirt = {} /\ End(r, "nothing") /\ UNCHANGED faults
       \/ End(r, "blocked") /\ UNCHANGED faults
       \/ Retry(r) /\ Fault
    /\ UNCHANGED <<gitVars, cloneVars, treeVars, warm, human, crashes>>

Rewritten(r) == run[r].old \notin past[head]

Publish(b, c) ==
    /\ remote' = [remote EXCEPT ![b] = c]
    /\ published' = IF b = "mr" THEN published \cup past[c] ELSE published

\* push of a history that descends from the old one: GitLab takes a fast
\* forward only.  A transient error comes with or without the effect.
Push(r) ==
    /\ run[r].at = "built" /\ ~Rewritten(r)
    /\ \/ /\ remote["mr"] \in past[head] /\ Publish("mr", head)
          /\ tracking' = [tracking EXCEPT !["mr"] = head]
          /\ run' = [run EXCEPT ![r].at = "tidying"]
          /\ UNCHANGED <<lock, queued, faults>>
       \/ /\ remote["mr"] \notin past[head] /\ Retry(r)
          /\ UNCHANGED <<remote, published, tracking, faults>>
       \/ /\ remote["mr"] \in past[head] /\ Fault
          /\ Publish("mr", head) \/ UNCHANGED <<remote, published>>
          /\ IF run[r].tries + 1 < MaxTries
             THEN /\ run' = [run EXCEPT ![r].tries = @ + 1]
                  /\ UNCHANGED <<lock, queued>>
             ELSE Retry(r)
          /\ UNCHANGED tracking
    /\ UNCHANGED <<past, backups, cloneVars, treeVars, warm, human, crashes>>

\* push_head_to the staged branch, by force; it may fail or time out, with or
\* without the effect.
Stage(r) ==
    /\ run[r].at = "built" /\ Rewritten(r) /\ run[r].hold
    /\ \/ /\ Publish("staged", head) /\ tracking' = [tracking EXCEPT !["staged"] = head]
          /\ End(r, "staged") /\ UNCHANGED faults
       \/ /\ Publish("staged", head) \/ UNCHANGED <<remote, published>>
          /\ Fault /\ Retry(r) /\ UNCHANGED tracking
    /\ UNCHANGED <<past, backups, cloneVars, treeVars, warm, human, crashes>>

\* push_rewritten: the old head gets its backup branch ...
Backup(r) ==
    /\ run[r].at = "built" /\ Rewritten(r) /\ ~run[r].hold
    /\ \/ /\ backups' = backups \cup {run[r].old}
          /\ run' = [run EXCEPT ![r].at = "backedup"]
          /\ UNCHANGED <<lock, queued, faults>>
       \/ Fault /\ Retry(r) /\ UNCHANGED backups
    /\ UNCHANGED <<past, remote, tracking, published, cloneVars, treeVars, warm, human, crashes>>

\* Mutant: --force instead of --force-with-lease.
ForcePush(r) ==
    /\ run[r].at = "backedup"
    /\ Publish("mr", head) /\ tracking' = [tracking EXCEPT !["mr"] = head]
    /\ run' = [run EXCEPT ![r].at = "tidying"]
    /\ UNCHANGED <<past, backups, cloneVars, treeVars, lock, queued, warm, countVars>>

\* ... and the branch is moved if it is still at that head.  This push too may
\* fail or time out, with or without the effect.
ForceWithLease(r) ==
    /\ run[r].at = "backedup"
    /\ \/ /\ remote["mr"] = run[r].old
          /\ Publish("mr", head) /\ tracking' = [tracking EXCEPT !["mr"] = head]
          /\ run' = [run EXCEPT ![r].at = "tidying"] /\ UNCHANGED <<lock, queued, faults>>
       \/ /\ remote["mr"] # run[r].old
          /\ Retry(r) /\ UNCHANGED <<remote, published, tracking, faults>>
       \/ /\ remote["mr"] = run[r].old
          /\ Publish("mr", head) \/ UNCHANGED <<remote, published>>
          /\ Fault /\ Retry(r) /\ UNCHANGED tracking
    /\ UNCHANGED <<past, backups, cloneVars, treeVars, warm, human, crashes>>

\* delete_remote_branch of the staged history: the ref in the checkout stays,
\* and a failure is logged only.
Tidy(r) ==
    /\ run[r].at = "tidying"
    /\ \/ remote' = [remote EXCEPT !["staged"] = IF run[r].staged = None THEN @ ELSE None]
          /\ UNCHANGED faults
       \/ run[r].staged # None /\ Fault /\ UNCHANGED remote
    /\ End(r, "pushed")
    /\ UNCHANGED <<past, backups, tracking, published, cloneVars, treeVars, warm, human, crashes>>

----------------------------------------------------------------------------
(* The environment                                                         *)

HumanPush ==
    /\ human < MaxHuman /\ human' = human + 1
    /\ NewCommit(past[remote["mr"]])
    /\ remote' = [remote EXCEPT !["mr"] = Latest]
    /\ published' = published \cup {Latest}
    /\ UNCHANGED <<backups, tracking, cloneVars, treeVars, lock, queued, run, warm, crashes,
                   faults>>

\* The process is killed and started again, with the disk as it is.  Whoever
\* asked has its claim and does not ask again.
Restart ==
    /\ crashes < MaxCrashes /\ crashes' = crashes + 1
    /\ verified' = FALSE /\ cloner' = Nobody /\ lock' = Nobody /\ queued' = 0
    /\ warm' = "asked"
    /\ run' = [r \in Requests |->
         IF run[r].at \in {"idle", "done"} THEN run[r]
         ELSE [run[r] EXCEPT !.at = "done", !.outcome = "lost"]]
    /\ UNCHANGED <<gitVars, disk, tmps, treeVars, human, faults>>

Step(r) ==
    \/ Acquire(r) \/ Clone(r) \/ Checkout(r) \/ CheckoutFails(r) \/ Edit(r) \/ Build(r) \/ BuildNothing(r)
    \/ Push(r) \/ Stage(r) \/ Backup(r) \/ ForceWithLease(r) \/ Tidy(r)

Next ==
    \/ PrewarmClone \/ PrewarmFinds \/ HumanPush \/ Restart
    \/ \E r \in Requests : Ask(r) \/ Step(r)

Spec == Init /\ [][Next]_vars

\* The event loop goes on, a model run ends, and asyncio.Lock wakes the
\* waiters in turn.
Fairness ==
    /\ WF_vars(PrewarmClone \/ PrewarmFinds)
    /\ \A r \in Requests : WF_vars(Step(r)) /\ SF_vars(Acquire(r))

FairSpec == Spec /\ Fairness

----------------------------------------------------------------------------
(* Properties                                                              *)

\* A commit that was part of the merge request stays reachable on origin, in
\* the branch or in a backup, whatever histories the iterations rebuild and
\* whoever else pushes meanwhile.
HistoryKept ==
    published \subseteq UNION {past[c] : c \in backups \cup {remote["mr"]}}

\* It has its checkout.
HasTree(r) == run[r].at \in {"thinking", "built", "backedup", "tidying"}

\* A run of it came to an end before its work was pushed.
BrokeOff(s) ==
    ~HasTree(s) /\ (run[s].attempt > 1 \/ run[s].outcome \in {"blocked", "lost"})

\* From its checkout to its push an iteration has the workspace to itself: HEAD
\* is what it built, and the edits in the tree and in its commit are its own, or
\* leftovers of an iteration that broke off, never of one that is still at work
\* or has pushed.
WorkspaceIsOwn ==
    \A r \in Requests : HasTree(r) =>
        /\ head = run[r].mine
        /\ \A s \in (dirt \cup run[r].carries) \ {r} : BrokeOff(s)

\* Nobody works in a half-clone: an iteration that has its checkout has a
\* complete one, the pre-warm reports complete ones only, and what is being
\* cloned stays in a directory of its own until it is complete.
ClonesAreWhole ==
    /\ verified => disk = "full"
    /\ cloner # Nobody => disk = "absent" /\ crashes \in tmps
    /\ \A r \in Requests : HasTree(r) => disk = "full"

\* An iteration somebody asked for comes to its end.
IterationsEnd == \A r \in Requests : (run[r].at = "queued") ~> (run[r].at = "done")

-----------------------------------------------------------------------------
(* What a comment of the code says and the code does not keep.  No run has   *)
(* these; README, section 5, has the behaviours that violate them.           *)

\* "Make origin/<branch> exist and point at the remote's tip": an iteration
\* starts from the merge request as it is on GitLab.
CheckoutAtTip == \A r \in Requests : run[r].at = "thinking" => run[r].old = run[r].tip

\* checkout -B is "reset --hard origin/... effectively": what an iteration
\* commits is what it changed.
OwnEditsOnly == \A r \in Requests : HasTree(r) => run[r].carries \subseteq {r}

=============================================================================
