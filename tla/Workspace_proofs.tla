-------------------------- MODULE Workspace_proofs --------------------------
(***************************************************************************)
(* Proofs about Workspace, for every number of iterations, of commits, of  *)
(* restarts and of failing commands.                                       *)
(***************************************************************************)
EXTENDS Workspace, FiniteSetTheorems, TLAPS

Holding(r) ==
    run[r].at \in {"preparing", "cloning", "thinking", "built", "backedup", "tidying"}

\* Commits are numbered as they come, and what is reachable from a commit is
\* reachable from its descendants.
PastInv ==
    /\ \E n \in 2..MaxCommits : DOMAIN past = 1..n
    /\ \A c \in Commits : \A d \in past[c] : past[d] \subseteq past[c]

\* The merge request has a branch.
RemoteInv == remote["mr"] \in Commits

\* The workspace lock is held from the checkout to the end, the clone lock for
\* a clone.
LockInv ==
    /\ \A r \in Requests : lock = r <=> Holding(r)
    /\ \A r \in Requests : cloner = r => run[r].at = "cloning"
    /\ cloner = Prewarm => warm = "cloning"

\* While somebody clones there is no checkout, and the directory of this
\* process is there.
CloneInv ==
    /\ cloner # Nobody => disk = "absent" /\ crashes \in tmps
    /\ verified => disk = "full"

\* What an iteration is going to push, and what it lets the lease check.
TreeInv ==
    \A r \in Requests : HasTree(r) =>
        /\ head = run[r].mine /\ head # None /\ run[r].old # None /\ disk = "full"
        /\ run[r].at = "backedup" => run[r].old \in backups

\* Whose edits are in the tree: those of the iteration that is at work, and of
\* iterations that broke off.
DirtInv ==
    /\ \A s \in dirt : run[s].at = "thinking" \/ BrokeOff(s)
    /\ \A r \in Requests : HasTree(r) => \A s \in run[r].carries \ {r} : BrokeOff(s)
    /\ \A r \in Requests :
         /\ run[r].at \in {"queued", "preparing", "cloning", "thinking"} => run[r].carries = {}
         /\ IF run[r].at = "idle" THEN run[r] = Idle ELSE run[r].attempt \in 1..MaxAttempts

QueueInv == queued = Cardinality({r \in Requests : run[r].at = "queued"})

\* The inductive invariant.  WorkspaceIsOwn needs the locks: who has the tree
\* holds the workspace lock, and nobody clones beside a complete checkout.
\* HistoryKept needs that descent is transitive, for a fast forward, and that
\* the backup of the head that the lease names was made.
IInv ==
    /\ TypeOK /\ PastInv /\ RemoteInv /\ LockInv /\ CloneInv /\ TreeInv /\ DirtInv
    /\ QueueInv /\ HistoryKept

-----------------------------------------------------------------------------

\* A new commit gets the next number.
LEMMA CommitNumbers ==
    ASSUME PastInv
    PROVE  \E n \in 2..MaxCommits : Commits = 1..n /\ Cardinality(Commits) = n /\ Latest = n + 1
<1>1. PICK n \in 2..MaxCommits : DOMAIN past = 1..n
  BY DEF PastInv
<1>2. Cardinality(1..n) = n
  BY <1>1, FS_Interval, WorkspaceAssumption
<1>. QED
  BY <1>1, <1>2 DEF Commits, Latest

\* What NewCommit does to the history: it extends it.
Grown ==
    /\ Commits \subseteq Commits' /\ Commits' \subseteq 1..MaxCommits
    /\ \A c \in Commits : past'[c] = past[c]
    /\ \A c \in Commits' : c \in past'[c] /\ past'[c] \subseteq 1..c

LEMMA NewCommitGrows ==
    ASSUME TypeOK, PastInv, NEW before \in SUBSET Commits, NewCommit(before),
           \A d \in before : past[d] \subseteq before
    PROVE  /\ Grown /\ PastInv'
           /\ Latest \in Commits' /\ past'[Latest] = before \cup {Latest}
<1>1. PICK n \in 2..MaxCommits : Commits = 1..n /\ Cardinality(Commits) = n /\ Latest = n + 1
  BY CommitNumbers
<1>2. n + 1 \in 2..MaxCommits
  BY <1>1, WorkspaceAssumption DEF NewCommit
<1>3. past' = [d \in 1..(n + 1) |-> IF d = n + 1 THEN before \cup {n + 1} ELSE past[d]]
  BY <1>1 DEF NewCommit
<1>4. Commits' = 1..(n + 1) /\ Commits' = Commits \cup {n + 1} /\ n + 1 \notin Commits
  BY <1>1, <1>3, WorkspaceAssumption DEF Commits
<1>5. /\ past'[n + 1] = before \cup {n + 1}
      /\ \A c \in Commits : past'[c] = past[c]
  BY <1>3, <1>4
<1>6. \A c \in Commits : c \in past[c] /\ past[c] \subseteq 1..c /\ past[c] \subseteq Commits
  BY <1>1, WorkspaceAssumption DEF TypeOK, Commits
<1>7. \A c \in Commits' : c \in past'[c] /\ past'[c] \subseteq 1..c
  BY <1>1, <1>4, <1>5, <1>6
<1>8. \A c \in Commits' : \A d \in past'[c] : past'[d] \subseteq past'[c]
  <2>1. ASSUME NEW c \in Commits, NEW d \in past'[c] PROVE past'[d] \subseteq past'[c]
    BY <2>1, <1>5, <1>6 DEF PastInv
  <2>2. ASSUME NEW d \in past'[n + 1] PROVE past'[d] \subseteq past'[n + 1]
    BY <2>2, <1>5
  <2>. QED
    BY <2>1, <2>2, <1>4
<1>9. PastInv'
  BY <1>2, <1>4, <1>8 DEF PastInv, Commits
<1>. QED
  BY <1>1, <1>2, <1>4, <1>5, <1>7, <1>9, WorkspaceAssumption DEF Grown

\* Whatever happens, the history grows.
LEMMA HistoryGrows ==
    ASSUME IInv, [Next]_vars
    PROVE  Grown /\ PastInv'
<1>1. ASSUME UNCHANGED past PROVE Grown /\ PastInv'
  BY <1>1 DEF Grown, IInv, TypeOK, PastInv, Commits
<1>2. \A c \in Commits : past[c] \subseteq Commits
  <2>1. PICK n \in 2..MaxCommits : Commits = 1..n
    BY CommitNumbers DEF IInv
  <2>. QED
    BY <2>1, WorkspaceAssumption DEF IInv, TypeOK, Commits
<1>3. past[1] = {1} /\ 1 \in Commits
  BY CommitNumbers, WorkspaceAssumption DEF IInv, TypeOK, Commits
<1>4. CASE HumanPush
  BY <1>2, <1>4, NewCommitGrows DEF HumanPush, IInv, RemoteInv, PastInv
<1>5. ASSUME NEW r \in Requests, Build(r) PROVE Grown /\ PastInv'
  <2>1. CASE CommitOnTop(r)
    <3>1. run[r].mine \in Commits
      BY <1>5 DEF Build, IInv, TreeInv, HasTree, TypeOK, Iterations, None
    <3>. QED
      BY <1>2, <2>1, <3>1, NewCommitGrows DEF CommitOnTop, IInv, PastInv
  <2>2. CASE Rebuild(r)
    BY <1>3, <2>2, NewCommitGrows DEF Rebuild, IInv
  <2>3. CASE TakeStaged(r)
    <3>1. run[r].staged \in Commits
      BY <1>5, <2>3 DEF TakeStaged, IInv, TypeOK, Iterations
    <3>. QED
      BY <1>1, <1>2, <2>3, <3>1, NewCommitGrows DEF TakeStaged, IInv, PastInv
  <2>. QED
    BY <1>5, <2>1, <2>2, <2>3 DEF Build
<1>6. CASE UNCHANGED vars
  BY <1>6, <1>1 DEF vars
<1>7. ASSUME NEW r \in Requests, Ask(r) \/ (Step(r) /\ ~Build(r)) PROVE UNCHANGED past
  BY <1>7 DEF Ask, Step, Acquire, Clone, Checkout, CheckoutFails, Edit, BuildNothing, Push, Stage,
     Backup, ForceWithLease, Tidy, gitVars
<1>8. ASSUME PrewarmClone \/ PrewarmFinds \/ Restart PROVE UNCHANGED past
  BY <1>8 DEF PrewarmClone, PrewarmFinds, Restart, gitVars
<1>. QED
  BY <1>1, <1>4, <1>5, <1>6, <1>7, <1>8 DEF Next, Step

\* What an iteration builds is a commit, with edits that were in the tree.
BuildsOne(r) ==
    /\ head' \in Commits' /\ run' \in [Requests -> Iterations']
    /\ \A s \in Requests : s # r => run'[s] = run[s]
    /\ run'[r].at = "built" /\ run'[r].mine = head' /\ run'[r].carries \subseteq dirt \cup {r}
    /\ run'[r].old = run[r].old /\ run'[r].attempt = run[r].attempt

LEMMA BuildStep ==
    ASSUME IInv, NEW r \in Requests, Build(r)
    PROVE  run[r].at = "thinking" /\ dirt' = {} /\ BuildsOne(r)
<1>. SUFFICES BuildsOne(r)
  BY DEF Build
<1>1. TypeOK /\ run \in [Requests -> Iterations] /\ dirt \subseteq Requests /\ Commits \subseteq Commits'
  BY HistoryGrows DEF IInv, TypeOK, Grown, Next, Step
<1>2. run \in [Requests -> Iterations']
  <2>. SUFFICES ASSUME NEW one \in Iterations PROVE one \in Iterations'
    BY <1>1
  <2>. QED
    BY <1>1 DEF Iterations, MaxAttempts, MaxTries, None
<1>3. ASSUME NEW c \in Commits', NEW hold \in BOOLEAN, NEW edits \in SUBSET (dirt \cup {r}),
             head' = c,
             run' = [run EXCEPT ![r].at = "built", ![r].mine = c, ![r].hold = hold,
                               ![r].carries = edits]
      PROVE  BuildsOne(r)
  <2>. DEFINE one == [run[r] EXCEPT !.at = "built", !.mine = c, !.hold = hold, !.carries = edits]
  <2>1. run' = [run EXCEPT ![r] = one]
    BY <1>1, <1>3
  <2>2. run[r] \in Iterations' /\ edits \in SUBSET Requests
    BY <1>1, <1>2
  <2>3. one \in Iterations'
    <3>1. "built" \in {"idle", "queued", "preparing", "cloning", "thinking", "built", "backedup",
                      "tidying", "done"} /\ c \in Commits' \cup {None}
      OBVIOUS
    <3>. QED
      BY <2>2, <3>1 DEF Iterations
  <2>4. /\ one.at = "built" /\ one.mine = c /\ one.carries = edits
        /\ one.old = run[r].old /\ one.attempt = run[r].attempt
    BY <2>2 DEF Iterations
  <2>. HIDE DEF one
  <2>5. run' \in [Requests -> Iterations'] /\ run'[r] = one
    BY <1>2, <2>1, <2>3
  <2>6. head' = c /\ \A s \in Requests : s # r => run'[s] = run[s]
    BY <1>1, <1>3, <2>1
  <2>. QED
    BY <2>4, <2>5, <2>6 DEF BuildsOne
<1>4. ASSUME NEW before, NewCommit(before) PROVE Latest \in Commits'
  BY <1>4, CommitNumbers DEF NewCommit, Latest, Commits, IInv
<1>5. CASE CommitOnTop(r)
  <2>1. Latest \in Commits' /\ Built(r, Latest, FALSE, dirt)
    BY <1>4, <1>5 DEF CommitOnTop
  <2>2. dirt \in SUBSET (dirt \cup {r})
    OBVIOUS
  <2>. QED
    BY <1>3, <2>1, <2>2 DEF Built
<1>6. CASE Rebuild(r)
  <2>1. PICK hold \in BOOLEAN, left \in SUBSET dirt : NewCommit({1}) /\ Built(r, Latest, hold, left \cup {r})
    BY <1>6 DEF Rebuild
  <2>2. left \cup {r} \in SUBSET (dirt \cup {r}) /\ Latest \in Commits'
    BY <1>4, <2>1
  <2>. QED
    BY <1>3, <2>1, <2>2 DEF Built
<1>7. CASE TakeStaged(r)
  <2>1. CASE UNCHANGED past /\ Built(r, run[r].staged, FALSE, {})
    <3>1. run[r].staged \in Commits' /\ {} \in SUBSET (dirt \cup {r})
      BY <1>1, <1>7 DEF TakeStaged, Iterations
    <3>. QED
      BY <1>3, <2>1, <3>1 DEF Built
  <2>2. CASE \E left \in SUBSET dirt \ {{}} :
               NewCommit(past[run[r].staged]) /\ Built(r, Latest, FALSE, left)
    <3>1. PICK left \in SUBSET dirt \ {{}} :
             NewCommit(past[run[r].staged]) /\ Built(r, Latest, FALSE, left)
      BY <2>2
    <3>2. left \in SUBSET (dirt \cup {r}) /\ Latest \in Commits'
      BY <1>4, <3>1
    <3>. QED
      BY <1>3, <3>1, <3>2 DEF Built
  <2>. QED
    BY <1>7, <2>1, <2>2 DEF TakeStaged
<1>. QED
  BY <1>5, <1>6, <1>7 DEF Build

LEMMA InitIInv == Init => IInv
<1>. SUFFICES ASSUME Init PROVE IInv
  OBVIOUS
<1>1. Commits = 1..2 /\ past[1] = 1..1 /\ past[2] = 1..2
  BY DEF Init, Commits
<1>2. /\ run = [r \in Requests |-> Idle]
      /\ Cardinality(Requests) \in Nat
  BY FS_CardinalityType, WorkspaceAssumption DEF Init
<1>3. TypeOK
  <2>1. remote \in [Branches -> Commits \cup {None}]
    BY <1>1 DEF Init, Branches, None
  <2>2. tracking \in [Branches -> Commits \cup {None}]
    BY <1>1 DEF Init, Branches, None
  <2>3. run \in [Requests -> Iterations]
    BY <1>2 DEF Iterations, Idle, Fresh, MaxAttempts, MaxTries, None
  <2>. QED
    <3>1. DOMAIN past \subseteq 1..MaxCommits /\ \A c \in Commits : c \in past[c] /\ past[c] \subseteq 1..c
      BY <1>1, WorkspaceAssumption DEF Commits
    <3>2. head \in Commits \cup {None} /\ queued \in 0..Cardinality(Requests)
      BY <1>1, <1>2 DEF Init
    <3>6. dirt \subseteq Requests
      BY DEF Init
    <3>3. backups \subseteq Commits /\ published \subseteq Commits /\ tmps \subseteq 0..MaxCrashes
      BY <1>1 DEF Init
    <3>4. /\ human \in 0..MaxHuman /\ crashes \in 0..MaxCrashes /\ faults \in 0..MaxFaults
      BY WorkspaceAssumption DEF Init
    <3>5. /\ verified \in BOOLEAN /\ disk \in {"absent", "half", "full"}
          /\ warm \in {"asked", "cloning", "done"}
          /\ cloner \in Requests \cup {Nobody, Prewarm} /\ lock \in Requests \cup {Nobody}
      BY DEF Init
    <3>. QED
      BY <2>1, <2>2, <2>3, <3>1, <3>2, <3>3, <3>4, <3>5, <3>6 DEF TypeOK, Commits
<1>4. PastInv
  BY <1>1, WorkspaceAssumption DEF PastInv, Commits
<1>5. RemoteInv /\ LockInv /\ CloneInv /\ TreeInv /\ DirtInv
  BY <1>1, <1>2, WorkspaceAssumption
  DEF Init, RemoteInv, LockInv, CloneInv, TreeInv, DirtInv, HasTree, Holding, Idle, Fresh, Nobody, Prewarm
<1>6. QueueInv
  <2>1. {r \in Requests : run[r].at = "queued"} = {}
    BY <1>2 DEF Idle, Fresh
  <2>. QED
    BY <2>1, FS_EmptySet DEF QueueInv, Init
<1>7. HistoryKept
  BY <1>1 DEF Init, HistoryKept
<1>. QED
  BY <1>3, <1>4, <1>5, <1>6, <1>7 DEF IInv

\* An iteration that is tried again, or given up, lets go of the workspace.
LEMMA RetryOk ==
    ASSUME TypeOK, NEW r \in Requests, Retry(r)
    PROVE  /\ lock' = Nobody
           /\ \A s \in Requests : s # r => run'[s] = run[s]
           /\ \/ run'[r].at = "queued" /\ queued' = queued + 1
              \/ run'[r].at = "done" /\ queued' = queued
           /\ run' \in [Requests -> Iterations]
<1>1. CASE run[r].attempt < MaxAttempts
  <2>1. run[r].attempt + 1 \in 0..MaxAttempts
    BY <1>1 DEF TypeOK, Iterations, MaxAttempts
  <2>2. /\ run' = [run EXCEPT ![r] = Fresh("queued", run[r].attempt + 1)]
        /\ queued' = queued + 1 /\ lock' = Nobody
    BY <1>1 DEF Retry, Release
  <2>3. Fresh("queued", run[r].attempt + 1) \in
         [at : {"queued"}, attempt : 0..MaxAttempts, old : {None}, tip : {None},
          mine : {None}, staged : {None}, hold : BOOLEAN, tries : 0..MaxTries, carries : {{}},
          outcome : {"none"}]
    BY <2>1 DEF Fresh, MaxTries
  <2>. QED
    BY <2>2, <2>3 DEF TypeOK, Iterations
<1>2. CASE ~(run[r].attempt < MaxAttempts)
  BY <1>2 DEF Retry, End, Release, TypeOK, Iterations
<1>. QED
  BY <1>1, <1>2

-----------------------------------------------------------------------------

\* The queue is counted right.
LEMMA QueueStep ==
    ASSUME IInv, NEW r \in Requests, run' \in [Requests -> Iterations'],
           \A s \in Requests : s # r => run'[s].at = run[s].at,
           \/ (run'[r].at = "queued" <=> run[r].at = "queued") /\ queued' = queued
           \/ run'[r].at = "queued" /\ run[r].at # "queued" /\ queued' = queued + 1
           \/ run'[r].at # "queued" /\ run[r].at = "queued" /\ queued' = queued - 1
    PROVE  QueueInv'
<1>. DEFINE Q == {s \in Requests : run[s].at = "queued"}
            R == {s \in Requests : run'[s].at = "queued"}
<1>1. IsFiniteSet(Q) /\ queued = Cardinality(Q) /\ Cardinality(Q) \in Nat
  BY FS_Subset, FS_CardinalityType, WorkspaceAssumption DEF IInv, QueueInv
<1>2. CASE (run'[r].at = "queued" <=> run[r].at = "queued") /\ queued' = queued
  <2>1. R = Q
    BY <1>2
  <2>. QED
    BY <1>1, <1>2, <2>1 DEF QueueInv
<1>3. CASE run'[r].at = "queued" /\ run[r].at # "queued" /\ queued' = queued + 1
  <2>1. R = Q \cup {r} /\ r \notin Q
    BY <1>3
  <2>2. Cardinality(R) = Cardinality(Q) + 1
    BY <1>1, <2>1, FS_AddElement
  <2>. QED
    BY <1>1, <1>3, <2>2 DEF QueueInv
<1>4. CASE run'[r].at # "queued" /\ run[r].at = "queued" /\ queued' = queued - 1
  <2>1. R = Q \ {r} /\ r \in Q
    BY <1>4
  <2>2. Cardinality(R) = Cardinality(Q) - 1
    BY <1>1, <2>1, FS_RemoveElement
  <2>. QED
    BY <1>1, <1>4, <2>2 DEF QueueInv
<1>. QED
  BY <1>2, <1>3, <1>4

\* What each step of an iteration does to the iterations: its own goes on, ends
\* or is tried again, the others stay as they are.
LEMMA RunStep ==
    ASSUME IInv, NEW r \in Requests, Ask(r) \/ Step(r)
    PROVE  /\ run' \in [Requests -> Iterations']
           /\ \A s \in Requests : s # r => run'[s] = run[s]
           /\ \/ run'[r].at # "queued" /\ run[r].at # "queued" /\ queued' = queued
              \/ run'[r].at = "queued" /\ run[r].at # "queued" /\ queued' = queued + 1
              \/ run'[r].at # "queued" /\ run[r].at = "queued" /\ queued' = queued - 1
<1>. DEFINE Goal ==
           /\ run' \in [Requests -> Iterations']
           /\ \A s \in Requests : s # r => run'[s] = run[s]
           /\ \/ run'[r].at # "queued" /\ run[r].at # "queued" /\ queued' = queued
              \/ run'[r].at = "queued" /\ run[r].at # "queued" /\ queued' = queued + 1
              \/ run'[r].at # "queued" /\ run[r].at = "queued" /\ queued' = queued - 1
<1>1. TypeOK /\ run \in [Requests -> Iterations]
  BY DEF IInv, TypeOK
<1>2. Commits \subseteq Commits'
  BY HistoryGrows DEF Next, Grown
<1>3. ASSUME NEW old \in Iterations PROVE old \in Iterations'
  BY <1>2, <1>3 DEF Iterations, MaxAttempts, MaxTries, None
<1>4. ASSUME Retry(r), run[r].at # "queued" PROVE Goal
  BY <1>1, <1>3, <1>4, RetryOk
<1>5. ASSUME NEW outcome \in {"pushed", "staged", "nothing", "blocked"}, End(r, outcome),
             run[r].at # "queued"
      PROVE  Goal
  <2>1. ASSUME NEW one \in Iterations PROVE [one EXCEPT !.at = "done", !.outcome = outcome] \in Iterations
    BY <1>5, <2>1 DEF Iterations
  <2>2. run' = [run EXCEPT ![r] = [run[r] EXCEPT !.at = "done", !.outcome = outcome]]
    BY <1>1, <1>5 DEF End
  <2>3. run' \in [Requests -> Iterations]
    BY <1>1, <2>1, <2>2
  <2>. QED
    BY <1>1, <1>3, <1>5, <2>3 DEF End
<1>6. ASSUME NEW at \in {"preparing", "cloning", "tidying", "backedup"},
             run' = [run EXCEPT ![r].at = at], run[r].at # "queued", queued' = queued
      PROVE  Goal
  <2>1. run' \in [Requests -> Iterations]
    BY <1>1, <1>6 DEF Iterations
  <2>. QED
    BY <1>1, <1>3, <1>6, <2>1
<1>. SUFFICES Goal
  OBVIOUS
<1>. HIDE DEF Goal
<1>7. CASE Ask(r)
  <2>1. Fresh("queued", 1) \in Iterations
    BY DEF Fresh, Iterations, MaxAttempts, MaxTries
  <2>2. run' \in [Requests -> Iterations]
    BY <1>1, <1>7, <2>1 DEF Ask
  <2>. QED
    BY <1>1, <1>3, <1>7, <2>2 DEF Ask, Goal, Fresh
<1>8. CASE Acquire(r)
  <2>1. run' \in [Requests -> Iterations]
    BY <1>1, <1>8 DEF Acquire, Iterations
  <2>. QED
    BY <1>1, <1>3, <1>8, <2>1 DEF Acquire, Goal
<1>9. CASE Clone(r)
  BY <1>4, <1>6, <1>9 DEF Clone
<1>10. CASE Checkout(r)
  <2>. DEFINE old == EnsureOriginRef(tracking, "mr")["mr"]
  <2>. DEFINE staged == EnsureOriginRef(EnsureOriginRef(tracking, "mr"), "staged")["staged"]
  <2>. DEFINE mine == EnsureOriginRef(EnsureOriginRef(tracking, "mr"), "staged")["mr"]
  <2>1. mine \in Commits \cup {None} /\ staged \in Commits \cup {None} /\ remote["mr"] \in Commits \cup {None}
    BY <1>1 DEF EnsureOriginRef, TypeOK, Branches
  <2>2. run' = [run EXCEPT ![r].at = "thinking", ![r].old = mine, ![r].tip = remote["mr"],
                           ![r].staged = staged, ![r].mine = mine]
        /\ run[r].at = "preparing" /\ queued' = queued
    BY <1>10 DEF Checkout
  <2>. HIDE DEF mine, staged
  <2>3. ASSUME NEW one \in Iterations
        PROVE  [one EXCEPT !.at = "thinking", !.old = mine, !.tip = remote["mr"],
                           !.staged = staged, !.mine = mine] \in Iterations
    BY <2>1, <2>3 DEF Iterations
  <2>4. run' = [run EXCEPT ![r] = [run[r] EXCEPT !.at = "thinking", !.old = mine,
                           !.tip = remote["mr"], !.staged = staged, !.mine = mine]]
    BY <1>1, <2>2
  <2>5. run' \in [Requests -> Iterations]
    BY <1>1, <2>3, <2>4
  <2>. QED
    BY <1>1, <1>3, <2>2, <2>5 DEF Goal
<1>11. CASE CheckoutFails(r)
  BY <1>4, <1>11 DEF CheckoutFails
<1>19. CASE Edit(r)
  <2>1. run \in [Requests -> Iterations']
    BY <1>1, <1>3
  <2>. QED
    BY <1>19, <2>1 DEF Edit, Goal
<1>12. CASE Build(r)
  BY <1>12, BuildStep DEF BuildsOne, Build, Goal
<1>13. CASE BuildNothing(r)
  BY <1>4, <1>5, <1>13 DEF BuildNothing
<1>14. CASE Push(r)
  <2>1. ASSUME run[r].tries + 1 < MaxTries, run' = [run EXCEPT ![r].tries = @ + 1] PROVE run' \in [Requests -> Iterations]
    BY <1>1, <2>1 DEF Iterations, MaxTries
  <2>2. run[r].at = "built"
    BY <1>14 DEF Push
  <2>3. \/ Retry(r)
        \/ run' = [run EXCEPT ![r].at = "tidying"] /\ queued' = queued
        \/ /\ run[r].tries + 1 < MaxTries /\ run' = [run EXCEPT ![r].tries = @ + 1]
           /\ queued' = queued
    BY <1>14 DEF Push
  <2>4. ASSUME run[r].tries + 1 < MaxTries, run' = [run EXCEPT ![r].tries = @ + 1],
               queued' = queued
        PROVE  Goal
    BY <1>1, <1>3, <2>1, <2>2, <2>4 DEF Goal
  <2>. QED
    BY <1>4, <1>6, <2>2, <2>3, <2>4
<1>15. CASE Stage(r)
  BY <1>4, <1>5, <1>15 DEF Stage
<1>16. CASE Backup(r)
  BY <1>4, <1>6, <1>16 DEF Backup
<1>17. CASE ForceWithLease(r)
  BY <1>4, <1>6, <1>17 DEF ForceWithLease
<1>18. CASE Tidy(r)
  BY <1>5, <1>18 DEF Tidy
<1>. QED
  BY <1>7, <1>8, <1>9, <1>10, <1>11, <1>12, <1>13, <1>14, <1>15, <1>16, <1>17, <1>18,
     <1>19
  DEF Step, Goal

-----------------------------------------------------------------------------

\* The parts of TypeOK that are not about the history and the iterations.
GitOK ==
    /\ remote \in [Branches -> Commits \cup {None}]
    /\ tracking \in [Branches -> Commits \cup {None}]
    /\ backups \subseteq Commits /\ published \subseteq Commits /\ head \in Commits \cup {None}

CloneOK ==
    /\ disk \in {"absent", "half", "full"} /\ tmps \subseteq 0..MaxCrashes /\ verified \in BOOLEAN
    /\ cloner \in Requests \cup {Nobody, Prewarm} /\ lock \in Requests \cup {Nobody}
    /\ warm \in {"asked", "cloning", "done"}
    /\ human \in 0..MaxHuman /\ crashes \in 0..MaxCrashes /\ faults \in 0..MaxFaults
    /\ dirt \subseteq Requests

LEMMA CommitsAreReachable ==
    ASSUME IInv
    PROVE  1 \in Commits /\ \A c \in Commits : past[c] \subseteq Commits
BY CommitNumbers, WorkspaceAssumption DEF IInv, TypeOK, Commits

LEMMA TreeFacts ==
    ASSUME IInv, NEW r \in Requests, HasTree(r)
    PROVE  head \in Commits /\ run[r].old \in Commits /\ run[r].mine = head /\ disk = "full"
BY DEF IInv, TypeOK, TreeInv, Iterations

LEMMA NextGitOK ==
    ASSUME IInv, [Next]_vars
    PROVE  GitOK'
<1>1. GitOK
  BY DEF IInv, TypeOK, GitOK, Commits
<1>2. Commits \subseteq Commits' /\ 1 \in Commits
  BY HistoryGrows, CommitsAreReachable DEF Grown
<1>3. \A c \in Commits : past[c] \subseteq Commits
  BY CommitsAreReachable
<1>4. ASSUME UNCHANGED <<remote, tracking, backups, published, head>> PROVE GitOK'
  BY <1>1, <1>2, <1>4 DEF GitOK
<1>5. ASSUME NEW u, BeginClone(u) \/ FinishClone(u) \/ FailClone(u),
             UNCHANGED <<remote, backups, published>>
      PROVE  GitOK'
  BY <1>1, <1>2, <1>5 DEF GitOK, BeginClone, FinishClone, FailClone, treeVars
<1>6. ASSUME NEW b \in Branches, NEW c \in Commits, Publish(b, c)
      PROVE  /\ remote' \in [Branches -> Commits' \cup {None}] /\ published' \subseteq Commits'
  BY <1>1, <1>2, <1>3, <1>6 DEF GitOK, Publish
<1>7. CASE PrewarmClone
  BY <1>5, <1>7 DEF PrewarmClone
<1>8. CASE PrewarmFinds \/ Restart
  BY <1>4, <1>8 DEF PrewarmFinds, Restart, gitVars, treeVars
<1>9. CASE HumanPush
  <2>1. Latest \in Commits'
    BY <1>9, CommitNumbers DEF HumanPush, NewCommit, Latest, Commits, IInv
  <2>. QED
    BY <1>1, <1>2, <1>9, <2>1 DEF HumanPush, GitOK, Branches, treeVars
<1>10. ASSUME NEW r \in Requests, Ask(r) \/ Acquire(r) \/ CheckoutFails(r) \/ Edit(r) \/ BuildNothing(r)
       PROVE  GitOK'
  BY <1>4, <1>10 DEF Ask, Acquire, CheckoutFails, Edit, BuildNothing, gitVars, treeVars
<1>11. ASSUME NEW r \in Requests, Clone(r) PROVE GitOK'
  BY <1>5, <1>11 DEF Clone
<1>12. ASSUME NEW r \in Requests, Checkout(r) PROVE GitOK'
  <2>1. ASSUME NEW refs \in [Branches -> Commits \cup {None}], NEW b \in Branches
        PROVE  EnsureOriginRef(refs, b) \in [Branches -> Commits \cup {None}]
    BY <1>1 DEF GitOK, EnsureOriginRef
  <2>2. EnsureOriginRef(EnsureOriginRef(tracking, "mr"), "staged") \in [Branches -> Commits \cup {None}]
    BY <1>1, <2>1 DEF GitOK, Branches
  <2>3. UNCHANGED <<remote, backups, published>>
        /\ tracking' = EnsureOriginRef(EnsureOriginRef(tracking, "mr"), "staged")
        /\ head' = EnsureOriginRef(EnsureOriginRef(tracking, "mr"), "staged")["mr"]
    BY <1>12 DEF Checkout
  <2>. QED
    BY <1>1, <1>2, <2>2, <2>3 DEF GitOK, Branches
<1>13. ASSUME NEW r \in Requests, Build(r) PROVE GitOK'
  <2>1. head' \in Commits'
    BY <1>13, BuildStep DEF BuildsOne
  <2>. QED
    BY <1>1, <1>2, <1>13, <2>1 DEF Build, GitOK
<1>14. ASSUME NEW r \in Requests, Push(r) PROVE GitOK'
  <2>1. head \in Commits
    BY <1>14, TreeFacts DEF Push, HasTree
  <2>2. remote' \in [Branches -> Commits' \cup {None}] /\ published' \subseteq Commits'
    BY <1>1, <1>2, <1>6, <1>14, <2>1 DEF Push, GitOK, Branches
  <2>3. tracking' \in [Branches -> Commits \cup {None}] /\ UNCHANGED <<backups, head>>
    BY <1>1, <1>14, <2>1 DEF Push, GitOK, treeVars
  <2>. QED
    BY <1>1, <1>2, <2>2, <2>3 DEF GitOK
<1>15. ASSUME NEW r \in Requests, Stage(r) PROVE GitOK'
  BY <1>1, <1>2, <1>6, <1>15, TreeFacts DEF Stage, GitOK, HasTree, Branches, treeVars
<1>16. ASSUME NEW r \in Requests, Backup(r) PROVE GitOK'
  BY <1>1, <1>2, <1>16, TreeFacts DEF Backup, GitOK, HasTree, treeVars
<1>17. ASSUME NEW r \in Requests, ForceWithLease(r) PROVE GitOK'
  BY <1>1, <1>2, <1>6, <1>17, TreeFacts DEF ForceWithLease, GitOK, HasTree, Branches, treeVars
<1>18. ASSUME NEW r \in Requests, Tidy(r) PROVE GitOK'
  BY <1>1, <1>2, <1>18 DEF Tidy, GitOK, treeVars
<1>. QED
  BY <1>4, <1>7, <1>8, <1>9, <1>10, <1>11, <1>12, <1>13, <1>14, <1>15, <1>16, <1>17, <1>18
  DEF Next, Step, vars

LEMMA NextCloneOK ==
    ASSUME IInv, [Next]_vars
    PROVE  CloneOK'
<1>1. CloneOK
  BY DEF IInv, TypeOK, CloneOK
<1>2. ASSUME Fault PROVE faults' \in 0..MaxFaults
  BY <1>1, <1>2, WorkspaceAssumption DEF Fault, CloneOK
<1>3. ASSUME NEW u \in Requests \cup {Prewarm}, BeginClone(u) \/ FinishClone(u) \/ FailClone(u)
      PROVE  /\ disk' \in {"absent", "half", "full"} /\ tmps' \subseteq 0..MaxCrashes
             /\ verified' \in BOOLEAN /\ cloner' \in Requests \cup {Nobody, Prewarm}
             /\ dirt' \subseteq Requests
  BY <1>1, <1>3, WorkspaceAssumption DEF CloneOK, BeginClone, FinishClone, FailClone, Reaped, treeVars
<1>4. ASSUME NEW r \in Requests, Retry(r) \/ \E o \in {"pushed", "staged", "nothing", "blocked"} : End(r, o)
      PROVE  lock' \in Requests \cup {Nobody}
  BY <1>4 DEF Retry, End, Release
<1>5. CASE PrewarmClone
  <2>1. faults' \in 0..MaxFaults
    BY <1>1, <1>2, <1>5 DEF PrewarmClone, CloneOK, FailClone
  <2>. QED
    BY <1>1, <1>3, <1>5, <2>1 DEF PrewarmClone, CloneOK
<1>6. CASE PrewarmFinds
  BY <1>1, <1>6 DEF PrewarmFinds, CloneOK, countVars, treeVars
<1>7. CASE HumanPush
  BY <1>1, <1>7, WorkspaceAssumption DEF HumanPush, CloneOK, cloneVars, treeVars
<1>8. CASE Restart
  <2>1. crashes' \in 0..MaxCrashes
    <3>1. crashes < MaxCrashes /\ crashes' = crashes + 1
      BY <1>8 DEF Restart
    <3>. QED
      BY <1>1, <3>1, WorkspaceAssumption DEF CloneOK
  <2>2. /\ verified' = FALSE /\ cloner' = Nobody /\ lock' = Nobody /\ warm' = "asked"
        /\ UNCHANGED <<disk, tmps, human, faults, dirt>>
    BY <1>8 DEF Restart, treeVars
  <2>. QED
    BY <1>1, <2>1, <2>2 DEF CloneOK
<1>9. ASSUME NEW r \in Requests, Ask(r) \/ Acquire(r) \/ Edit(r) \/ Build(r) PROVE CloneOK'
  BY <1>1, <1>9 DEF Ask, Acquire, Edit, Build, CloneOK, cloneVars, countVars, treeVars
<1>10. ASSUME NEW r \in Requests, Clone(r) PROVE CloneOK'
  <2>1. lock' \in Requests \cup {Nobody} /\ faults' \in 0..MaxFaults
    BY <1>1, <1>2, <1>4, <1>10 DEF Clone, FailClone, CloneOK
  <2>. QED
    BY <1>1, <1>3, <1>10, <2>1 DEF Clone, CloneOK
<1>11. ASSUME NEW r \in Requests, Checkout(r) \/ CheckoutFails(r) PROVE CloneOK'
  BY <1>1, <1>2, <1>4, <1>11 DEF Checkout, CheckoutFails, CloneOK, countVars, treeVars
<1>12. ASSUME NEW r \in Requests, BuildNothing(r) \/ Backup(r) \/ Stage(r) PROVE CloneOK'
  BY <1>1, <1>2, <1>4, <1>12 DEF BuildNothing, Backup, Stage, CloneOK, cloneVars, countVars, treeVars
<1>13. ASSUME NEW r \in Requests, Push(r) PROVE CloneOK'
  BY <1>1, <1>2, <1>4, <1>13 DEF Push, CloneOK, cloneVars, treeVars
<1>14. ASSUME NEW r \in Requests, ForceWithLease(r) \/ Tidy(r) PROVE CloneOK'
  BY <1>1, <1>2, <1>4, <1>14 DEF ForceWithLease, Tidy, CloneOK, cloneVars, countVars, treeVars
<1>15. CASE UNCHANGED vars
  BY <1>1, <1>15 DEF vars, CloneOK
<1>. QED
  BY <1>5, <1>6, <1>7, <1>8, <1>9, <1>10, <1>11, <1>12, <1>13, <1>14, <1>15 DEF Next, Step

\* The queue, and with it TypeOK.
LEMMA NextTypeOK ==
    ASSUME IInv, [Next]_vars
    PROVE  TypeOK' /\ QueueInv'
<1>1. Commits \subseteq Commits' /\ run \in [Requests -> Iterations]
  BY HistoryGrows DEF Grown, IInv, TypeOK
<1>2. run \in [Requests -> Iterations']
  <2>. SUFFICES ASSUME NEW one \in Iterations PROVE one \in Iterations'
    BY <1>1
  <2>. QED
    BY <1>1 DEF Iterations, MaxAttempts, MaxTries, None
<1>3. run' \in [Requests -> Iterations'] /\ QueueInv'
  <2>1. CASE UNCHANGED <<run, queued>>
    BY <1>2, <2>1 DEF QueueInv, IInv
  <2>2. CASE Restart
    <3>1. run' \in [Requests -> Iterations] /\ UNCHANGED Commits
      <4>1. ASSUME NEW one \in Iterations
            PROVE  [one EXCEPT !.at = "done", !.outcome = "lost"] \in Iterations
        BY <4>1 DEF Iterations
      <4>. QED
        BY <1>1, <2>2, <4>1 DEF Restart, gitVars, Commits
    <3>2. {r \in Requests : run'[r].at = "queued"} = {} /\ queued' = 0
      BY <1>1, <2>2 DEF Restart, Iterations
    <3>3. UNCHANGED Iterations
      BY <3>1 DEF Iterations, MaxAttempts, MaxTries, None
    <3>. QED
      BY <3>1, <3>2, <3>3, FS_EmptySet DEF QueueInv
  <2>3. ASSUME NEW r \in Requests, Ask(r) \/ Step(r)
        PROVE  run' \in [Requests -> Iterations'] /\ QueueInv'
    BY <2>3, RunStep, QueueStep
  <2>. QED
    BY <2>1, <2>2, <2>3 DEF Next, PrewarmClone, PrewarmFinds, HumanPush, vars
<1>4. queued' \in 0..Cardinality(Requests)
  <2>1. Cardinality({r \in Requests : run'[r].at = "queued"}) \in 0..Cardinality(Requests)
    BY FS_Subset, FS_CardinalityType, WorkspaceAssumption
  <2>. QED
    BY <1>3, <2>1 DEF QueueInv
<1>. QED
  BY <1>3, <1>4, HistoryGrows, NextGitOK, NextCloneOK DEF TypeOK, Grown, GitOK, CloneOK, Commits

-----------------------------------------------------------------------------

\* What a step of an iteration does to the locks.
LEMMA LockStep ==
    ASSUME IInv, NEW r \in Requests, Ask(r) \/ Step(r)
    PROVE  /\ \/ lock' = lock /\ Holding(r)' = Holding(r)
              \/ lock = Nobody /\ lock' = r /\ Holding(r)'
              \/ Holding(r) /\ lock' = Nobody /\ ~Holding(r)'
           /\ \/ cloner' = cloner /\ (run[r].at = "cloning" => run'[r].at = "cloning")
              \/ cloner' = Nobody
              \/ cloner' = r /\ run'[r].at = "cloning"
           /\ UNCHANGED warm
<1>1. TypeOK /\ run \in [Requests -> Iterations] /\ (cloner = r => run[r].at = "cloning")
  BY DEF IInv, TypeOK, LockInv
<1>2. ASSUME Retry(r) PROVE lock' = Nobody /\ run'[r].at \in {"queued", "done"}
  BY <1>1, <1>2, RetryOk
<1>3. ASSUME NEW outcome, End(r, outcome) PROVE lock' = Nobody /\ run'[r].at = "done"
  BY <1>1, <1>3 DEF End, Release, Iterations
<1>4. CASE Ask(r)
  BY <1>1, <1>4 DEF Ask, Holding, cloneVars, Fresh
<1>5. CASE Acquire(r)
  BY <1>1, <1>5 DEF Acquire, Holding, cloneVars, Iterations
<1>6. CASE Clone(r)
  <2>1. CASE run[r].at = "preparing" /\ BeginClone(r) /\ run' = [run EXCEPT ![r].at = "cloning"]
             /\ UNCHANGED lock
    BY <1>1, <1>6, <2>1 DEF BeginClone, Clone, Holding, Iterations
  <2>2. CASE run[r].at = "cloning" /\ FinishClone(r) /\ run' = [run EXCEPT ![r].at = "preparing"]
             /\ UNCHANGED lock
    BY <1>1, <1>6, <2>2 DEF FinishClone, Clone, Holding, Iterations
  <2>3. CASE run[r].at = "cloning" /\ FailClone(r) /\ Retry(r)
    BY <1>2, <1>6, <2>3 DEF FailClone, Clone, Holding
  <2>. QED
    BY <1>6, <2>1, <2>2, <2>3 DEF Clone
<1>7. CASE Checkout(r)
  <2>1. run[r].at = "preparing" /\ run'[r].at = "thinking" /\ UNCHANGED <<lock, cloner, warm>>
    BY <1>1, <1>7 DEF Checkout, Iterations
  <2>. QED
    BY <2>1 DEF Holding
<1>8. CASE CheckoutFails(r)
  BY <1>2, <1>8 DEF CheckoutFails, Holding
<1>16. CASE Edit(r)
  BY <1>1, <1>16 DEF Edit, Holding, cloneVars
<1>9. CASE Build(r)
  <2>1. run[r].at = "thinking" /\ run'[r].at = "built" /\ UNCHANGED <<lock, cloner, warm>>
    <3>1. run[r].at = "thinking" /\ run'[r].at = "built"
      BY <1>1, <1>9, BuildStep DEF BuildsOne
    <3>. QED
      BY <1>9, <3>1 DEF Build, cloneVars
  <2>. QED
    BY <2>1 DEF Holding
<1>10. CASE BuildNothing(r)
  BY <1>2, <1>3, <1>10 DEF BuildNothing, Holding, cloneVars
<1>11. CASE Push(r)
  <2>1. run[r].at = "built" /\ UNCHANGED <<cloner, warm>>
    BY <1>11 DEF Push, cloneVars
  <2>2. Retry(r) \/ (run'[r].at \in {"tidying", "built"} /\ lock' = lock)
    BY <1>1, <1>11 DEF Push, Iterations
  <2>. QED
    BY <1>2, <2>1, <2>2 DEF Holding
<1>12. CASE Stage(r)
  BY <1>2, <1>3, <1>12 DEF Stage, Holding, cloneVars
<1>13. CASE Backup(r)
  <2>1. Retry(r) \/ (run'[r].at = "backedup" /\ lock' = lock)
    BY <1>1, <1>13 DEF Backup, Iterations
  <2>. QED
    BY <1>2, <1>13, <2>1 DEF Backup, Holding, cloneVars
<1>14. CASE ForceWithLease(r)
  <2>1. Retry(r) \/ (run'[r].at = "tidying" /\ lock' = lock)
    BY <1>1, <1>14 DEF ForceWithLease, Iterations
  <2>. QED
    BY <1>2, <1>14, <2>1 DEF ForceWithLease, Holding, cloneVars
<1>15. CASE Tidy(r)
  BY <1>3, <1>15 DEF Tidy, Holding, cloneVars
<1>. QED
  BY <1>4, <1>5, <1>6, <1>7, <1>8, <1>9, <1>10, <1>11, <1>12, <1>13, <1>14, <1>15, <1>16 DEF Step

LEMMA NextLockInv ==
    ASSUME IInv, [Next]_vars
    PROVE  LockInv'
<1>1. LockInv /\ run \in [Requests -> Iterations] /\ {Nobody, Prewarm} \cap Requests = {}
  BY WorkspaceAssumption DEF IInv, TypeOK
<1>2. ASSUME NEW r \in Requests, Ask(r) \/ Step(r) PROVE LockInv'
  <2>1. \A s \in Requests : s # r => run'[s] = run[s]
    BY <1>2, RunStep
  <2>2. \A s \in Requests : s # r => Holding(s)' = Holding(s)
    BY <2>1 DEF Holding
  <2>3. \/ lock' = lock /\ Holding(r)' = Holding(r)
        \/ lock = Nobody /\ lock' = r /\ Holding(r)'
        \/ Holding(r) /\ lock' = Nobody /\ ~Holding(r)'
    BY <1>2, LockStep
  <2>4. \A s \in Requests : lock' = s <=> Holding(s)'
    BY <1>1, <2>2, <2>3 DEF LockInv
  <2>5. /\ \/ cloner' = cloner /\ (run[r].at = "cloning" => run'[r].at = "cloning")
           \/ cloner' = Nobody
           \/ cloner' = r /\ run'[r].at = "cloning"
        /\ UNCHANGED warm
    BY <1>2, LockStep
  <2>6. \A s \in Requests : cloner' = s => run'[s].at = "cloning"
    BY <1>1, <2>1, <2>5 DEF LockInv
  <2>7. cloner' = Prewarm => warm' = "cloning"
    BY <1>1, <2>5 DEF LockInv, Nobody, Prewarm
  <2>. QED
    BY <2>4, <2>6, <2>7 DEF LockInv, Holding
<1>3. CASE PrewarmClone
  BY <1>1, <1>3 DEF PrewarmClone, LockInv, Holding, BeginClone, FinishClone, FailClone, Nobody, Prewarm
<1>4. CASE PrewarmFinds
  BY <1>1, <1>4 DEF PrewarmFinds, LockInv, Holding, Nobody, Prewarm
<1>5. CASE Restart
  <2>1. \A r \in Requests : run'[r].at \in {"idle", "done"}
    BY <1>1, <1>5 DEF Restart, Iterations
  <2>2. lock' = Nobody /\ cloner' = Nobody
    BY <1>5 DEF Restart
  <2>. QED
    BY <1>1, <2>1, <2>2 DEF LockInv, Holding, Nobody, Prewarm
<1>6. CASE HumanPush
  BY <1>1, <1>6 DEF HumanPush, LockInv, Holding, cloneVars
<1>7. CASE UNCHANGED vars
  BY <1>1, <1>7 DEF vars, LockInv, Holding
<1>. QED
  BY <1>2, <1>3, <1>4, <1>5, <1>6, <1>7 DEF Next

-----------------------------------------------------------------------------

LEMMA NextCloneInv ==
    ASSUME IInv, [Next]_vars
    PROVE  CloneInv'
<1>1. CloneInv /\ disk \in {"absent", "half", "full"} /\ {Nobody, Prewarm} \cap Requests = {}
      /\ Nobody # Prewarm
  BY WorkspaceAssumption DEF IInv, TypeOK, Nobody, Prewarm
<1>2. ASSUME UNCHANGED <<disk, tmps, cloner, crashes>>,
             verified' = verified \/ verified' = FALSE \/ disk = "full"
      PROVE  CloneInv'
  BY <1>1, <1>2 DEF CloneInv
<1>3. ASSUME NEW u \in Requests \cup {Prewarm}, BeginClone(u) \/ FinishClone(u) \/ FailClone(u),
             UNCHANGED crashes
      PROVE  CloneInv'
  <2>1. CASE BeginClone(u)
    BY <1>1, <1>3, <2>1 DEF BeginClone, CloneInv, Reaped
  <2>2. CASE FinishClone(u)
    BY <1>1, <1>3, <2>2 DEF FinishClone, CloneInv
  <2>3. CASE FailClone(u)
    BY <1>1, <1>3, <2>3 DEF FailClone, CloneInv
  <2>. QED
    BY <1>3, <2>1, <2>2, <2>3
<1>4. CASE PrewarmClone
  BY <1>3, <1>4 DEF PrewarmClone
<1>5. CASE PrewarmFinds \/ HumanPush \/ UNCHANGED vars
  BY <1>2, <1>5 DEF PrewarmFinds, HumanPush, vars, cloneVars, countVars
<1>6. CASE Restart
  <2>1. cloner' = Nobody /\ verified' = FALSE /\ UNCHANGED <<disk, tmps>>
    BY <1>6 DEF Restart
  <2>. QED
    BY <1>1, <2>1 DEF CloneInv
<1>7. ASSUME NEW r \in Requests, Clone(r) PROVE CloneInv'
  BY <1>3, <1>7 DEF Clone
<1>8. ASSUME NEW r \in Requests, Checkout(r) \/ CheckoutFails(r) PROVE CloneInv'
  BY <1>2, <1>8 DEF Checkout, CheckoutFails, countVars
<1>9. ASSUME NEW r \in Requests,
             Ask(r) \/ Acquire(r) \/ Edit(r) \/ Build(r) \/ BuildNothing(r) \/ Push(r) \/ Stage(r) \/ Backup(r)
               \/ ForceWithLease(r) \/ Tidy(r)
      PROVE  CloneInv'
  <2>1. UNCHANGED <<cloneVars, crashes>>
    BY <1>9 DEF Ask, Acquire, Edit, Build, BuildNothing, Push, Stage, Backup, ForceWithLease, Tidy, countVars
  <2>. QED
    BY <1>2, <2>1 DEF cloneVars
<1>. QED
  BY <1>4, <1>5, <1>6, <1>7, <1>8, <1>9 DEF Next, Step

\* Nobody works in the tree while another iteration takes a step in it.
LEMMA OneInTheTree ==
    ASSUME IInv, NEW r \in Requests, Step(r), NEW s \in Requests, s # r
    PROVE  ~HasTree(s)
<1>1. LockInv /\ {Nobody, Prewarm} \cap Requests = {}
  BY WorkspaceAssumption DEF IInv
<1>2. Holding(r) \/ lock = Nobody
  BY DEF Step, Acquire, Clone, Checkout, CheckoutFails, Edit, Build, BuildNothing, Push, Stage, Backup,
     ForceWithLease, Tidy, Holding
<1>. QED
  BY <1>1, <1>2 DEF LockInv, Holding, HasTree

\* What an iteration did before it has its checkout, and after.
LEMMA NextTreeInv ==
    ASSUME IInv, [Next]_vars
    PROVE  TreeInv'
<1>. DEFINE TreeOf(r) ==
       HasTree(r) => /\ head = run[r].mine /\ head # None /\ run[r].old # None /\ disk = "full"
                     /\ run[r].at = "backedup" => run[r].old \in backups
<1>1. /\ run \in [Requests -> Iterations] /\ TypeOK /\ RemoteInv /\ LockInv /\ CloneInv
      /\ {Nobody, Prewarm} \cap Requests = {} /\ Nobody # Prewarm
      /\ \A r \in Requests : TreeOf(r)
  BY WorkspaceAssumption DEF IInv, TypeOK, TreeInv, Nobody, Prewarm
<1>2. ASSUME UNCHANGED <<run, head, disk, backups>> PROVE TreeInv'
  BY <1>1, <1>2 DEF TreeInv, HasTree
<1>3. ASSUME \A r \in Requests : ~HasTree(r)' PROVE TreeInv'
  BY <1>3 DEF TreeInv, HasTree
<1>4. CASE PrewarmClone
  <2>1. disk # "full" /\ UNCHANGED run
    BY <1>1, <1>4 DEF PrewarmClone, BeginClone, FinishClone, FailClone, CloneInv
  <2>. QED
    BY <1>1, <1>3, <2>1 DEF HasTree
<1>5. CASE PrewarmFinds \/ HumanPush \/ UNCHANGED vars
  BY <1>2, <1>5 DEF PrewarmFinds, HumanPush, vars, gitVars, cloneVars, treeVars
<1>6. CASE Restart
  <2>1. \A r \in Requests : run'[r].at \in {"idle", "done"}
    BY <1>1, <1>6 DEF Restart, Iterations
  <2>. QED
    BY <1>3, <2>1 DEF HasTree
<1>7. ASSUME NEW r \in Requests, Ask(r) PROVE TreeInv'
  <2>1. run'[r].at = "queued" /\ UNCHANGED <<head, disk, backups>>
    BY <1>1, <1>7 DEF Ask, gitVars, cloneVars, Fresh, treeVars
  <2>2. \A s \in Requests : s # r => run'[s] = run[s]
    BY <1>7, RunStep
  <2>. QED
    BY <1>1, <2>1, <2>2 DEF TreeInv, HasTree
<1>8. ASSUME NEW r \in Requests, Step(r) PROVE TreeInv'
  <2>1. \A s \in Requests : s # r => ~HasTree(s)'
    BY <1>8, RunStep, OneInTheTree DEF HasTree
  <2>2. SUFFICES TreeOf(r)'
    BY <2>1 DEF TreeInv
  <2>3. ASSUME Retry(r) \/ \E o \in {"pushed", "staged", "nothing", "blocked"} : End(r, o)
        PROVE  ~HasTree(r)'
    BY <1>1, <2>3, RetryOk DEF End, HasTree, Iterations
  <2>4. CASE Acquire(r)
    BY <1>1, <2>4 DEF Acquire, HasTree, Iterations
  <2>5. CASE Clone(r)
    <3>1. Retry(r) \/ run'[r].at \in {"cloning", "preparing"}
      BY <1>1, <2>5 DEF Clone, Iterations
    <3>. QED
      BY <2>3, <3>1 DEF HasTree
  <2>6. CASE Checkout(r)
    <3>. DEFINE refs == EnsureOriginRef(EnsureOriginRef(tracking, "mr"), "staged")
    <3>1. refs["mr"] # None
      BY <1>1 DEF EnsureOriginRef, TypeOK, Branches, RemoteInv, Commits, None
    <3>2. head' = refs["mr"] /\ disk = "full" /\ UNCHANGED disk /\ run'[r].at = "thinking"
          /\ run'[r].old = refs["mr"] /\ run'[r].mine = refs["mr"]
      BY <1>1, <2>6 DEF Checkout, Iterations
    <3>. HIDE DEF refs
    <3>. QED
      BY <3>1, <3>2 DEF HasTree
  <2>7. CASE CheckoutFails(r)
    BY <2>3, <2>7 DEF CheckoutFails
  <2>15. CASE Edit(r)
    BY <1>2, <2>15 DEF Edit, gitVars, cloneVars, TreeInv
  <2>8. CASE Build(r)
    <3>1. HasTree(r) /\ run[r].old # None /\ disk = "full" /\ UNCHANGED disk
      BY <1>1, <2>8 DEF Build, HasTree, cloneVars
    <3>2. head' = run'[r].mine /\ run'[r].at = "built" /\ run'[r].old = run[r].old
      BY <1>1, <2>8, BuildStep DEF BuildsOne
    <3>3. head' # None
      <4>1. head' \in Commits' /\ TypeOK'
        BY <2>8, BuildStep, NextTypeOK DEF BuildsOne, Next, Step
      <4>. QED
        BY <4>1 DEF TypeOK, Commits, None
    <3>. QED
      BY <3>1, <3>2, <3>3
  <2>9. CASE BuildNothing(r)
    BY <2>3, <2>9 DEF BuildNothing
  <2>10. CASE Push(r)
    <3>1. Retry(r) \/ (run'[r].at \in {"tidying", "built"} /\ run'[r].mine = run[r].mine
                         /\ run'[r].old = run[r].old)
      BY <1>1, <2>10 DEF Push, Iterations
    <3>2. HasTree(r) /\ UNCHANGED <<head, disk, backups>>
      BY <2>10 DEF Push, HasTree, cloneVars, treeVars
    <3>. QED
      BY <1>1, <2>3, <3>1, <3>2
  <2>11. CASE Stage(r)
    BY <2>3, <2>11 DEF Stage
  <2>12. CASE Backup(r)
    <3>1. Retry(r) \/ (run'[r].at = "backedup" /\ run'[r].mine = run[r].mine
                         /\ run'[r].old = run[r].old /\ run[r].old \in backups')
      BY <1>1, <2>12 DEF Backup, Iterations
    <3>2. HasTree(r) /\ UNCHANGED <<head, disk>>
      BY <2>12 DEF Backup, HasTree, cloneVars, treeVars
    <3>. QED
      BY <1>1, <2>3, <3>1, <3>2
  <2>13. CASE ForceWithLease(r)
    <3>1. Retry(r) \/ (run'[r].at = "tidying" /\ run'[r].mine = run[r].mine
                         /\ run'[r].old = run[r].old)
      BY <1>1, <2>13 DEF ForceWithLease, Iterations
    <3>2. HasTree(r) /\ UNCHANGED <<head, disk, backups>>
      BY <2>13 DEF ForceWithLease, HasTree, cloneVars, treeVars
    <3>. QED
      BY <1>1, <2>3, <3>1, <3>2
  <2>14. CASE Tidy(r)
    BY <2>3, <2>14 DEF Tidy
  <2>. QED
    BY <1>8, <2>4, <2>5, <2>6, <2>7, <2>8, <2>9, <2>10, <2>11, <2>12, <2>13, <2>14, <2>15 DEF Step
<1>. QED
  BY <1>4, <1>5, <1>6, <1>7, <1>8 DEF Next

-----------------------------------------------------------------------------

\* What is tried again, or given up, broke off.
LEMMA RetryBreaksOff ==
    ASSUME TypeOK, NEW r \in Requests, Retry(r), run[r].attempt \in 1..MaxAttempts
    PROVE  /\ BrokeOff(r)' /\ run'[r].attempt \in 1..MaxAttempts
           /\ (run'[r].at = "queued" /\ run'[r].carries = {}) \/ run'[r].at = "done"
<1>1. CASE run[r].attempt < MaxAttempts
  <2>1. run'[r] = Fresh("queued", run[r].attempt + 1)
    BY <1>1 DEF Retry, TypeOK
  <2>. QED
    BY <1>1, <2>1 DEF Fresh, BrokeOff, HasTree, MaxAttempts
<1>2. CASE ~(run[r].attempt < MaxAttempts)
  BY <1>2 DEF Retry, End, BrokeOff, HasTree, TypeOK, Iterations
<1>. QED
  BY <1>1, <1>2

\* Edits go into the commit of the iteration that made them, or stay behind
\* when it breaks off.
LEMMA NextDirtInv ==
    ASSUME IInv, [Next]_vars
    PROVE  DirtInv'
<1>1. /\ DirtInv /\ TypeOK /\ run \in [Requests -> Iterations] /\ dirt \subseteq Requests
      /\ {Nobody, Prewarm} \cap Requests = {}
  BY WorkspaceAssumption DEF IInv, TypeOK
<1>2. ASSUME dirt' \subseteq dirt, UNCHANGED run PROVE DirtInv'
  BY <1>1, <1>2 DEF DirtInv, BrokeOff, HasTree, Idle, Fresh
<1>3. CASE PrewarmClone \/ PrewarmFinds \/ HumanPush \/ UNCHANGED vars
  <2>1. UNCHANGED run /\ dirt' \subseteq dirt
    BY <1>3 DEF PrewarmClone, PrewarmFinds, HumanPush, vars, treeVars, BeginClone, FinishClone, FailClone
  <2>. QED
    BY <1>2, <2>1
<1>4. CASE Restart
  <2>1. dirt' = dirt
    BY <1>4 DEF Restart, treeVars
  <2>2. ASSUME NEW r \in Requests
        PROVE  \/ run[r].at \in {"idle", "done"} /\ run'[r] = run[r]
               \/ run[r].at \notin {"idle", "done"} /\ run'[r].at = "done" /\ run'[r].outcome = "lost"
                   /\ run'[r].attempt = run[r].attempt
    BY <1>1, <1>4 DEF Restart, Iterations
  <2>3. ASSUME NEW r \in Requests PROVE ~HasTree(r)'
    BY <2>2, <2>3 DEF HasTree
  <2>4. ASSUME NEW s \in dirt PROVE BrokeOff(s)'
    BY <1>1, <2>2, <2>3, <2>4 DEF DirtInv, BrokeOff, HasTree
  <2>5. ASSUME NEW r \in Requests
        PROVE  /\ run'[r].at \in {"queued", "preparing", "cloning", "thinking"} => run'[r].carries = {}
               /\ IF run'[r].at = "idle" THEN run'[r] = Idle ELSE run'[r].attempt \in 1..MaxAttempts
    BY <1>1, <2>2, <2>5 DEF DirtInv
  <2>. QED
    BY <2>1, <2>3, <2>4, <2>5 DEF DirtInv, Idle, Fresh
<1>5. ASSUME NEW r \in Requests, Ask(r) \/ Step(r),
             dirt' \subseteq dirt \cup {r},
             r \in dirt' => run'[r].at = "thinking" \/ BrokeOff(r)',
             HasTree(r)' => \A s \in run'[r].carries \ {r} : s \in dirt \/ (s \in run[r].carries /\ HasTree(r)),
             run'[r].at \in {"queued", "preparing", "cloning", "thinking"} => run'[r].carries = {},
             run'[r].at # "idle" /\ run'[r].attempt \in 1..MaxAttempts
      PROVE  DirtInv'
  <2>1. \A s \in Requests : s # r => run'[s] = run[s] /\ BrokeOff(s)' = BrokeOff(s) /\ HasTree(s)' = HasTree(s)
    BY <1>5, RunStep DEF BrokeOff, HasTree
  <2>2. ASSUME NEW s \in dirt' PROVE run'[s].at = "thinking" \/ BrokeOff(s)'
    BY <1>1, <1>5, <2>1, <2>2 DEF DirtInv
  <2>3. ASSUME NEW q \in Requests, HasTree(q)', NEW s \in run'[q].carries \ {q} PROVE BrokeOff(s)'
    <3>1. CASE q = r
      <4>1. s \in dirt \/ (s \in run[r].carries /\ HasTree(r))
        BY <1>5, <2>3, <3>1
      <4>2. Step(r)
        BY <1>5, <2>3, <3>1, <1>1 DEF Ask, HasTree, Fresh
      <4>3. s \in Requests /\ ~HasTree(s)
        BY <1>1, <2>3, <3>1, <4>1, <4>2, OneInTheTree DEF Iterations
      <4>4. BrokeOff(s)
        BY <1>1, <4>1, <4>3, <3>1, <2>3 DEF DirtInv, HasTree
      <4>. QED
        BY <2>1, <2>3, <3>1, <4>3, <4>4
    <3>2. CASE q # r
      <4>1. HasTree(q) /\ s \in run[q].carries /\ s \in Requests
        BY <1>1, <2>1, <2>3, <3>2 DEF Iterations
      <4>2. Ask(r)
        BY <1>5, <3>2, <4>1, OneInTheTree
      <4>3. BrokeOff(s) /\ ~BrokeOff(r)
        BY <1>1, <2>3, <4>1, <4>2 DEF DirtInv, Ask, BrokeOff, Idle, Fresh
      <4>. QED
        BY <2>1, <4>1, <4>3
    <3>. QED
      BY <3>1, <3>2
  <2>. QED
    BY <1>1, <1>5, <2>1, <2>2, <2>3 DEF DirtInv, Idle, Fresh
<1>6. ASSUME NEW r \in Requests, Ask(r) PROVE DirtInv'
  <2>1. run[r] = Idle /\ r \notin dirt /\ dirt' = dirt /\ run'[r] = Fresh("queued", 1)
    BY <1>1, <1>6 DEF Ask, DirtInv, BrokeOff, Idle, Fresh, treeVars
  <2>. QED
    BY <1>5, <1>6, <2>1 DEF Fresh, HasTree, MaxAttempts
<1>7. ASSUME NEW r \in Requests, Step(r) PROVE DirtInv'
  <2>1. run[r].at # "idle" /\ run[r].attempt \in 1..MaxAttempts
    <3>1. run[r].at # "idle"
      BY <1>7 DEF Step, Acquire, Clone, Checkout, CheckoutFails, Edit, Build, BuildNothing, Push, Stage,
         Backup, ForceWithLease, Tidy
    <3>. QED
      BY <1>1, <3>1 DEF DirtInv
  <2>2. ASSUME Retry(r), dirt' \subseteq dirt PROVE DirtInv'
    <3>1. BrokeOff(r)' /\ run'[r].attempt \in 1..MaxAttempts
          /\ \/ run'[r].at = "queued" /\ run'[r].carries = {}
             \/ run'[r].at = "done"
      BY <1>1, <2>1, <2>2, RetryBreaksOff
    <3>. QED
      BY <1>5, <1>7, <2>2, <3>1 DEF HasTree
  <2>3. ASSUME NEW outcome \in {"pushed", "staged", "nothing", "blocked"}, End(r, outcome),
               dirt' = dirt, r \in dirt => outcome = "blocked"
        PROVE  DirtInv'
    <3>1. run'[r].at = "done" /\ run'[r].outcome = outcome /\ run'[r].attempt = run[r].attempt
      BY <1>1, <2>3 DEF End, Iterations
    <3>. QED
      BY <1>5, <1>7, <2>1, <2>3, <3>1 DEF HasTree, BrokeOff
  <2>4. ASSUME NEW at \in {"preparing", "cloning", "tidying", "backedup", "built"},
               run'[r].at = at, run'[r].carries = run[r].carries,
               run'[r].attempt = run[r].attempt, run'[r].outcome = run[r].outcome,
               HasTree(r)' <=> HasTree(r), run[r].at # "thinking", dirt' \subseteq dirt,
               at \in {"preparing", "cloning"} => run[r].at \in {"queued", "preparing", "cloning"}
        PROVE  DirtInv'
    <3>1. r \in dirt => BrokeOff(r)
      BY <1>1, <2>4 DEF DirtInv
    <3>2. BrokeOff(r)' <=> BrokeOff(r)
      BY <2>4 DEF BrokeOff
    <3>3. at \in {"preparing", "cloning"} => run[r].carries = {}
      BY <1>1, <2>4 DEF DirtInv
    <3>. QED
      BY <1>5, <1>7, <2>1, <2>4, <3>1, <3>2, <3>3 DEF HasTree
  <2>5. ASSUME HasTree(r), run[r].at # "thinking" PROVE r \notin dirt
    BY <1>1, <2>5 DEF DirtInv, BrokeOff
  <2>. DEFINE Kept(at) == run'[r].at = at /\ run'[r].carries = run[r].carries
                            /\ run'[r].attempt = run[r].attempt /\ run'[r].outcome = run[r].outcome
  <2>6. CASE Acquire(r)
    <3>1. Kept("preparing") /\ run[r].at = "queued" /\ dirt' = dirt
      BY <1>1, <2>6 DEF Acquire, Iterations, treeVars
    <3>. QED
      BY <2>4, <3>1 DEF HasTree
  <2>7. CASE Clone(r)
    <3>1. dirt' \subseteq dirt
      BY <2>7 DEF Clone, BeginClone, FinishClone, FailClone, treeVars
    <3>2. \/ Retry(r)
          \/ \E at \in {"preparing", "cloning"} : Kept(at) /\ run[r].at \in {"preparing", "cloning"}
      BY <1>1, <2>7 DEF Clone, Iterations
    <3>. QED
      BY <2>2, <2>4, <3>1, <3>2 DEF HasTree
  <2>8. CASE Checkout(r)
    <3>1. run'[r].at = "thinking" /\ run'[r].carries = run[r].carries /\ run'[r].attempt = run[r].attempt
          /\ run[r].at = "preparing" /\ dirt' = dirt
      BY <1>1, <2>8 DEF Checkout, Iterations
    <3>2. run[r].carries = {}
      BY <1>1, <3>1 DEF DirtInv
    <3>. QED
      BY <1>5, <1>7, <2>1, <3>1, <3>2
  <2>9. CASE CheckoutFails(r)
    BY <2>2, <2>9 DEF CheckoutFails, treeVars
  <2>10. CASE Edit(r)
    <3>1. run' = run /\ run[r].at = "thinking" /\ run[r].carries = {} /\ dirt' = dirt \cup {r}
      BY <1>1, <2>10 DEF Edit, DirtInv
    <3>. QED
      BY <1>5, <1>7, <2>1, <3>1
  <2>11. CASE Build(r)
    <3>1. dirt' = {} /\ run'[r].at = "built" /\ run'[r].attempt = run[r].attempt
          /\ run'[r].carries \subseteq dirt \cup {r} \cup run[r].carries /\ HasTree(r)
      BY <1>1, <2>11, BuildStep DEF BuildsOne, HasTree
    <3>. QED
      BY <1>5, <1>7, <2>1, <3>1
  <2>12. CASE BuildNothing(r)
    <3>1. dirt' = dirt
      BY <2>12 DEF BuildNothing, treeVars
    <3>. QED
      BY <2>2, <2>3, <2>12, <3>1 DEF BuildNothing
  <2>13. CASE Push(r)
    <3>1. Retry(r) \/ (\E at \in {"tidying", "built"} : Kept(at))
      BY <1>1, <2>13 DEF Push, Iterations
    <3>2. HasTree(r) /\ run[r].at = "built" /\ dirt' = dirt
      BY <2>13 DEF Push, HasTree, treeVars
    <3>. QED
      BY <2>2, <2>4, <3>1, <3>2 DEF HasTree
  <2>14. CASE Stage(r)
    <3>1. Retry(r) \/ End(r, "staged")
      BY <2>14 DEF Stage
    <3>2. HasTree(r) /\ run[r].at = "built" /\ dirt' = dirt
      BY <2>14 DEF Stage, HasTree, treeVars
    <3>. QED
      BY <2>2, <2>3, <2>5, <3>1, <3>2
  <2>15. CASE Backup(r)
    <3>1. Retry(r) \/ Kept("backedup")
      BY <1>1, <2>15 DEF Backup, Iterations
    <3>2. HasTree(r) /\ run[r].at = "built" /\ dirt' = dirt
      BY <2>15 DEF Backup, HasTree, treeVars
    <3>. QED
      BY <2>2, <2>4, <3>1, <3>2 DEF HasTree
  <2>16. CASE ForceWithLease(r)
    <3>1. Retry(r) \/ Kept("tidying")
      BY <1>1, <2>16 DEF ForceWithLease, Iterations
    <3>2. HasTree(r) /\ run[r].at = "backedup" /\ dirt' = dirt
      BY <2>16 DEF ForceWithLease, HasTree, treeVars
    <3>. QED
      BY <2>2, <2>4, <3>1, <3>2 DEF HasTree
  <2>17. CASE Tidy(r)
    <3>1. HasTree(r) /\ run[r].at = "tidying" /\ dirt' = dirt /\ End(r, "pushed")
      BY <2>17 DEF Tidy, HasTree, treeVars
    <3>. QED
      BY <2>3, <2>5, <3>1
  <2>. QED
    BY <1>7, <2>6, <2>7, <2>8, <2>9, <2>10, <2>11, <2>12, <2>13, <2>14, <2>15, <2>16, <2>17 DEF Step
<1>. QED
  BY <1>3, <1>4, <1>6, <1>7 DEF Next

-----------------------------------------------------------------------------

\* The merge request moves to a descendant, by a fast forward or a commit on
\* top, or under the lease to another history when the old one has its backup.
LEMMA NextHistoryKept ==
    ASSUME IInv, [Next]_vars
    PROVE  RemoteInv' /\ HistoryKept'
<1>1. /\ HistoryKept /\ RemoteInv /\ TypeOK
      /\ \A c \in Commits : c \in past[c] /\ \A d \in past[c] : past[d] \subseteq past[c]
  BY DEF IInv, TypeOK, PastInv, Commits
<1>2. Commits \subseteq Commits' /\ \A c \in Commits : past'[c] = past[c]
  BY HistoryGrows DEF Grown
<1>3. backups \subseteq Commits /\ remote["mr"] \in Commits
  BY <1>1 DEF TypeOK, RemoteInv, Commits
<1>4. ASSUME backups \subseteq backups', remote'["mr"] = remote["mr"], UNCHANGED published
      PROVE  RemoteInv' /\ HistoryKept'
  BY <1>1, <1>2, <1>3, <1>4 DEF RemoteInv, HistoryKept
<1>5. ASSUME NEW c \in Commits, backups' = backups, remote'["mr"] = c,
             published' = published \cup past[c],
             remote["mr"] \in past[c] \/ remote["mr"] \in backups
      PROVE  RemoteInv' /\ HistoryKept'
  <2>1. past'[c] = past[c] /\ \A d \in backups : past'[d] = past[d]
    BY <1>2, <1>3
  <2>2. ASSUME NEW p \in past[remote["mr"]]
        PROVE  p \in past'[c] \/ \E d \in backups : p \in past'[d]
    BY <1>1, <1>5, <2>1
  <2>. QED
    BY <1>1, <1>2, <1>5, <2>1, <2>2 DEF RemoteInv, HistoryKept
<1>6. CASE HumanPush
  <2>1. /\ Latest \in Commits' /\ past'[Latest] = past[remote["mr"]] \cup {Latest}
    <3>1. past[remote["mr"]] \in SUBSET Commits
      BY <1>3, CommitsAreReachable
    <3>. QED
      BY <1>1, <1>3, <1>6, <3>1, NewCommitGrows DEF HumanPush, IInv
  <2>2. remote'["mr"] = Latest /\ published' = published \cup {Latest} /\ backups' = backups
    BY <1>1, <1>6 DEF HumanPush, TypeOK, Branches
  <2>. QED
    BY <1>1, <1>2, <1>3, <2>1, <2>2 DEF RemoteInv, HistoryKept
<1>7. CASE PrewarmClone \/ PrewarmFinds \/ Restart \/ UNCHANGED vars
  <2>1. UNCHANGED <<remote, backups, published>>
    BY <1>7 DEF PrewarmClone, PrewarmFinds, Restart, gitVars, vars
  <2>. QED
    BY <1>4, <2>1
<1>8. ASSUME NEW r \in Requests,
             Ask(r) \/ Acquire(r) \/ Clone(r) \/ Checkout(r) \/ CheckoutFails(r) \/ Edit(r) \/ Build(r)
               \/ BuildNothing(r) \/ Backup(r)
      PROVE  RemoteInv' /\ HistoryKept'
  <2>1. UNCHANGED <<remote, published>> /\ backups \subseteq backups'
    BY <1>8 DEF Ask, Acquire, Clone, Checkout, CheckoutFails, Edit, Build, BuildNothing, Backup, gitVars
  <2>. QED
    BY <1>4, <2>1
<1>9. ASSUME NEW r \in Requests, Push(r) PROVE RemoteInv' /\ HistoryKept'
  <2>1. head \in Commits
    BY <1>9, TreeFacts DEF Push, HasTree
  <2>2. /\ backups' = backups
        /\ \/ UNCHANGED <<remote, published>>
           \/ remote["mr"] \in past[head] /\ Publish("mr", head)
    BY <1>9 DEF Push
  <2>3. CASE remote["mr"] \in past[head] /\ Publish("mr", head)
    BY <1>1, <1>5, <2>1, <2>2, <2>3 DEF Publish, TypeOK, Branches
  <2>. QED
    BY <1>4, <2>2, <2>3
<1>10. ASSUME NEW r \in Requests, Stage(r) PROVE RemoteInv' /\ HistoryKept'
  BY <1>1, <1>4, <1>10 DEF Stage, Publish, TypeOK, Branches
<1>11. ASSUME NEW r \in Requests, ForceWithLease(r) PROVE RemoteInv' /\ HistoryKept'
  <2>1. head \in Commits /\ run[r].old \in backups
    BY <1>11, TreeFacts DEF ForceWithLease, HasTree, IInv, TreeInv
  <2>2. /\ backups' = backups
        /\ \/ UNCHANGED <<remote, published>>
           \/ remote["mr"] = run[r].old /\ Publish("mr", head)
    BY <1>11 DEF ForceWithLease
  <2>3. CASE remote["mr"] = run[r].old /\ Publish("mr", head)
    BY <1>1, <1>5, <2>1, <2>2, <2>3 DEF Publish, TypeOK, Branches
  <2>. QED
    BY <1>4, <2>2, <2>3
<1>12. ASSUME NEW r \in Requests, Tidy(r) PROVE RemoteInv' /\ HistoryKept'
  BY <1>1, <1>4, <1>12 DEF Tidy, TypeOK, Branches
<1>. QED
  BY <1>6, <1>7, <1>8, <1>9, <1>10, <1>11, <1>12 DEF Next, Step

-----------------------------------------------------------------------------

\* The inductive invariant holds in every reachable state.
THEOREM Inductive == Spec => []IInv
<1>1. IInv /\ [Next]_vars => IInv'
  BY HistoryGrows, NextTypeOK, NextLockInv, NextCloneInv, NextTreeInv, NextDirtInv, NextHistoryKept DEF IInv
<1>. QED
  BY <1>1, InitIInv, PTL DEF Spec

\* Every variable keeps its type, and the queue never counts more iterations
\* than there are.
THEOREM TypeCorrect == Spec => []TypeOK
BY Inductive, PTL DEF IInv

\* From its checkout to its push an iteration has the workspace to itself, but
\* for the edits that iterations left which broke off (_workspace_lock in
\* dev.py, the clone lock, checkout -B and add -A in gitlab.py).
THEOREM TreeIsOwn == Spec => []WorkspaceIsOwn
<1>1. IInv => WorkspaceIsOwn
  <2>. SUFFICES ASSUME IInv, NEW r \in Requests, HasTree(r)
                PROVE  /\ head = run[r].mine
                       /\ \A s \in (dirt \cup run[r].carries) \ {r} : BrokeOff(s)
    BY DEF WorkspaceIsOwn
  <2>1. head = run[r].mine
    BY DEF IInv, TreeInv
  <2>2. ASSUME NEW s \in dirt \ {r} PROVE BrokeOff(s)
    <3>1. s \in Requests /\ (run[s].at = "thinking" \/ BrokeOff(s))
      BY DEF IInv, TypeOK, DirtInv
    <3>2. lock = r /\ (run[s].at = "thinking" => lock = s)
      BY <3>1 DEF IInv, LockInv, Holding, HasTree
    <3>. QED
      BY <3>1, <3>2
  <2>. QED
    BY <2>1, <2>2 DEF IInv, DirtInv
<1>. QED
  BY <1>1, Inductive, PTL

\* Nobody works in what a killed clone left, and a checkout comes into being
\* complete (ensure_clone, whatever _reap_stale_clone_tmps leaves beside it).
THEOREM NoPartialClones == Spec => []ClonesAreWhole
<1>1. IInv => ClonesAreWhole
  BY DEF IInv, TreeInv, CloneInv, HasTree, ClonesAreWhole
<1>. QED
  BY <1>1, Inductive, PTL

\* Whatever histories the iterations rebuild and whoever pushes meanwhile, a
\* commit that was in the merge request stays reachable from its branch or from
\* a backup (push, push_rewritten with its backup and its lease).
THEOREM NothingLost == Spec => []HistoryKept
BY Inductive, PTL DEF IInv
=============================================================================
