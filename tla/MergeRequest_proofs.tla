------------------------ MODULE MergeRequest_proofs ------------------------
(***************************************************************************)
(* Proofs about MergeRequest, for every set of pods, every number of       *)
(* comments and commits, every cap and every budget of events: one answer  *)
(* for a comment, no ask that the watermark passes, one ping, and the      *)
(* bound on auto-fixes.                                                    *)
(***************************************************************************)
EXTENDS MergeRequest, FiniteSetTheorems, WellFoundedInduction, TLAPS

-----------------------------------------------------------------------------
(* The inductive invariant.                                                *)

\* Comments are numbered as they come; a deleted one stays numbered.
CommentInv ==
    /\ IsFiniteSet(comments)
    /\ \A c \in comments : c.id <= Cardinality(comments)
    /\ \A c, d \in comments : c.id = d.id => c = d

\* Where a tick is once it has fetched the comments.
Fetched == InThreads \cup {"saving"}

\* The watermark that the tick of p leaves behind.
Watermark(p) == IF tick[p].seen = None THEN row.seen ELSE tick[p].seen

\* No watermark is past the comments there are.
WatermarkInv ==
    /\ row.seen <= Cardinality(comments)
    /\ \A p \in Pods : tick[p].at \in Fetched => Watermark(p) <= Cardinality(comments)

\* An answered comment is claimed, a claim in hand belongs to one tick, and the
\* comment was not answered while its answer is still to come.
AnswerInv ==
    /\ \A i \in 1..MaxComments : seen.answers[i] <= 1 /\ (seen.answers[i] # 0 => i \in claims)
    /\ \A p \in Pods : /\ tick[p].at \in InThreads \ {"threads"} => tick[p].cur \in tick[p].todo
                       /\ Owner(p) => tick[p].cur \in claims
                       /\ tick[p].at \in Answers => seen.answers[tick[p].cur] = 0
    /\ \A p, q \in Pods : Owner(p) /\ Owner(q) /\ tick[p].cur = tick[q].cur => p = q

Busy(p) == tick[p].at # "idle"

\* One tick at a time, unless it was observed otherwise, and the tick knows the
\* row as it is.
AloneInv ==
    ~seen.overlap =>
        /\ \A p, q \in Pods : Busy(p) /\ Busy(q) => p = q
        /\ \A p \in Pods :
            /\ tick[p].at = "loaded" =>
                /\ tick[p].seen = row.seen /\ tick[p].pending = row.pending
                /\ tick[p].pinged = row.pinged /\ tick[p].approved = row.approved
                /\ tick[p].nag => ~row.nagged
            /\ tick[p].at \in InThreads =>
                tick[p].pinged = row.pinged /\ (tick[p].nag => ~row.nagged)
            /\ tick[p].at = "saving" => (row.pinged => tick[p].pinged)

\* Answered for good, or ignored.
Settled == (claims \ InHand) \cup seen.ignored

\* The ask c, or a newer comment of its discussion, is among those in S,
\* settled, deleted, or was dropped when the discussions could not be listed.
Covered(c, S) ==
    \E d \in comments :
        /\ d.discussion = c.discussion /\ d.id >= c.id
        /\ d.gone \/ d.id \in S \cup Settled \cup seen.unread

\* What the tick of p has not settled.
Open(p) == IF tick[p].at = "saving" THEN tick[p].still ELSE tick[p].still \cup tick[p].todo

CoverInv ==
    ~seen.overlap =>
        \A c \in comments : c.ask =>
            /\ c.id <= row.seen => Covered(c, row.pending)
            /\ \A p \in Pods :
                tick[p].at \in Fetched /\ c.id <= Watermark(p) => Covered(c, Open(p))

One(b) == IF b THEN 1 ELSE 0

\* Pings and reminders on their way to the row.
PingDue == \E p \in Pods : tick[p].at = "saving" /\ tick[p].pinged
NagDue == \E p \in Pods : tick[p].at = "saving" /\ tick[p].nagged

\* The approval that will be on the row, and the merge ping that is due for it.
Approved ==
    IF \E p \in Pods : tick[p].at \in Fetched
    THEN \E p \in Pods : tick[p].at \in Fetched /\ tick[p].approved
    ELSE row.approved
MergeDue == \E p \in Pods : tick[p].at \in InThreads /\ tick[p].merge

PingInv ==
    /\ \A p \in Pods : tick[p].at \in InThreads /\ tick[p].merge => tick[p].touched
    /\ ~seen.overlap =>
        /\ seen.pings <= seen.cut + One(row.pinged \/ PingDue)
        /\ seen.nags <= seen.cut + One(row.nagged \/ NagDue)
        /\ seen.merges + One(MergeDue) + One(vcs.approved /\ ~Approved)
             <= seen.approvals + seen.cut + seen.misread

\* Fixes in flight, and DevOps ticks that may still start one, or a retry.
InFlight == {p \in Pods : fix[p] # "idle"}
MayFix == {p \in Pods : watch[p].at = "loaded" /\ watch[p].attempts < MaxAutofix}
MayRetry == {p \in Pods : watch[p].at = "loaded" /\ watch[p].infra < MaxInfra}

FixInv ==
    /\ seen.fixes <= row.attempts + Cardinality(InFlight) + seen.lost
    /\ row.attempts + Cardinality(InFlight) + Cardinality(MayFix)
         <= MaxAutofix + 2 * Cardinality(Pods) - 1
    /\ row.infra + Cardinality(MayRetry) <= MaxInfra + Cardinality(Pods) - 1

IInv ==
    /\ TypeOK /\ CommentInv /\ WatermarkInv /\ AnswerInv /\ AloneInv /\ CoverInv
    /\ PingInv /\ FixInv

-----------------------------------------------------------------------------
(* Constants, numbers and records.                                         *)

LEMMA Naturals ==
    /\ IsFiniteSet(Pods) /\ Cardinality(Pods) \in Nat \ {0}
    /\ MaxCommits \in Nat \ {0} /\ MaxComments \in Nat
    /\ MaxAutofix \in Nat /\ MaxInfra \in Nat
<1>1. Cardinality(Pods) \in Nat /\ Pods # {}
  BY MergeRequestAssumption, FS_CardinalityType
<1>. QED
  BY <1>1, MergeRequestAssumption, FS_EmptySet

NatLess == OpToRel(<, Nat)

LEMMA NatLessIs ==
    /\ IsWellFoundedOn(NatLess, Nat)
    /\ \A x, y \in Nat : <<y, x>> \in NatLess <=> y < x
<1>1. IsWellFoundedOn(NatLess, Nat)
  BY NatLessThanWellFounded DEF NatLess
<1>2. \A x, y \in Nat : <<y, x>> \in NatLess <=> y < x
  BY DEF NatLess, OpToRel
<1>. QED
  BY <1>1, <1>2

\* A set of naturals has a least element, one with a bound a greatest.
LEMMA Least ==
    ASSUME NEW T \in SUBSET Nat, T # {}
    PROVE  \E x \in T : \A y \in T : x <= y
<1>1. PICK x \in T : \A y \in T : <<y, x>> \notin NatLess
  BY NatLessIs, WFMin
<1>2. \A y \in T : ~(y < x)
  BY <1>1, NatLessIs
<1>. QED
  BY <1>2

LEMMA Greatest ==
    ASSUME NEW n \in Nat, NEW S \in SUBSET (1 .. n), S # {}
    PROVE  \E x \in S : \A y \in S : y <= x
<1>. DEFINE T == {n - s : s \in S}
<1>0. \A s \in S : n - s \in Nat
  OBVIOUS
<1>1. T \in SUBSET Nat /\ T # {}
  BY <1>0
<1>. HIDE DEF T
<1>2. PICK t \in T : \A y \in T : t <= y
  BY <1>1, Least
<1>3. PICK x \in S : t = n - x
  BY DEF T
<1>4. ASSUME NEW y \in S PROVE y <= x
  <2>1. n - y \in T
    BY DEF T
  <2>2. n - x <= n - y
    BY <1>2, <1>3, <2>1
  <2>3. x \in Int /\ y \in Int
    OBVIOUS
  <2>. QED
    BY <2>2, <2>3
<1>. QED
  BY <1>4

LEMMA MaxIs ==
    ASSUME NEW n \in Nat, NEW S \in SUBSET (1 .. n), S # {}
    PROVE  Max(S) \in S /\ \A y \in S : y <= Max(S)
<1>1. \E x \in S : \A y \in S : x >= y
  BY Greatest
<1>. QED
  BY <1>1 DEF Max

LEMMA Ticks ==
    /\ NoTick.at = "idle" /\ NoWatch.at = "idle"
    /\ \A t \in {NoTick} \cup Loaded \cup Threading \cup Savings :
        /\ t.at = "idle" => t = NoTick
        /\ t.at = "loaded" => t \in Loaded
        /\ t.at \in InThreads => t \in Threading
        /\ t.at = "saving" => t \in Savings
    /\ \A w \in {NoWatch} \cup Watches : w.at = "loaded" => w \in Watches
BY DEF NoTick, NoWatch, Loaded, Threading, Savings, InThreads, Watches

-----------------------------------------------------------------------------
(* What a step does to a tick of the Reviewer.                             *)

AllTicks == {NoTick} \cup Loaded \cup Threading \cup Savings

\* Only the tick of p moves, and it stays one.
Alone(p) ==
    /\ tick' \in [Pods -> AllTicks]
    /\ \A q \in Pods : q # p => tick'[q] = tick[q]

Loads(p) ==
    LET t == tick'[p]
    IN  /\ t.at = "loaded" /\ t.seen = row.seen /\ t.pending = row.pending
        /\ t.pinged = row.pinged /\ t.approved = row.approved
        /\ t.nag => ~row.nagged

\* The tick goes on with its threads; what it fetched stays.
Keeps(p) ==
    LET t == tick[p]
        u == tick'[p]
    IN  /\ t \in Threading /\ u \in Threading
        /\ u.seen = t.seen /\ u.live = t.live /\ u.approved = t.approved
        /\ u.merge = t.merge /\ u.touched = t.touched /\ u.pinged = t.pinged
        /\ u.sha = t.sha /\ u.nag = t.nag

GoesOn(p, at) ==
    /\ Keeps(p) /\ tick'[p].at = at /\ tick'[p].cur = tick[p].cur
    /\ tick'[p].todo = tick[p].todo /\ tick'[p].still = tick[p].still

Settles(p, i, pending) ==
    /\ Keeps(p) /\ tick'[p].at = "threads"
    /\ tick'[p].todo = tick[p].todo \ {i}
    /\ tick'[p].still = IF pending THEN tick[p].still \cup {i} ELSE tick[p].still

Fetches(p) ==
    LET t == tick[p]
        u == tick'[p]
    IN  /\ t \in Loaded /\ u \in Threading /\ u.at = "threads"
        /\ \E listed \in Listings :
            /\ u.todo = Candidates(listed, t)
            /\ u.seen = IF NewComments(listed, t.seen) = {} THEN None
                        ELSE Max(NewComments(listed, t.seen))
            /\ seen'.unread = IF listed = Ids THEN seen.unread \ t.pending
                              ELSE seen.unread \cup t.pending
        /\ u.still = {}
        /\ u.merge = (u.approved /\ ~t.approved) /\ (u.merge => u.touched)
        /\ u.pinged = t.pinged /\ u.nag = t.nag

Saves(p, pinged, nagged) ==
    LET t == tick[p]
        u == tick'[p]
    IN  /\ t \in Threading /\ t.at = "threads" /\ t.todo = {} /\ u \in Savings
        /\ u.at = "saving" /\ u.seen = t.seen /\ u.still = t.still /\ u.approved = t.approved
        /\ u.pinged = (t.pinged \/ pinged) /\ u.nagged = nagged

LEMMA TickIsOne ==
    ASSUME TypeOK, NEW p \in Pods, NEW t \in AllTicks, tick' = [tick EXCEPT ![p] = t]
    PROVE  Alone(p) /\ tick'[p] = t
BY DEF TypeOK, Alone, AllTicks

LEMMA Ended ==
    ASSUME TypeOK, NEW p \in Pods, EndTick(p)
    PROVE  Alone(p) /\ tick'[p] = NoTick
BY TickIsOne DEF EndTick, AllTicks

\* A change of one record of a tick.
LEMMA ThreadUpdates ==
    ASSUME NEW t \in Threading, NEW at \in InThreads, NEW cur \in 0 .. MaxComments
    PROVE  /\ [t EXCEPT !.at = at] \in Threading
           /\ [t EXCEPT !.at = at, !.cur = cur] \in Threading
           /\ \A todo, still \in SUBSET (1 .. MaxComments) :
                [t EXCEPT !.at = at, !.cur = cur, !.todo = todo, !.still = still] \in Threading
BY DEF Threading

LEMMA DealtIs ==
    ASSUME TypeOK, NEW p \in Pods, tick[p].at \in InThreads, NEW i \in 1 .. MaxComments,
           NEW pending \in BOOLEAN, Dealt(p, i, pending)
    PROVE  Alone(p) /\ Settles(p, i, pending)
<1>. DEFINE t == tick[p]
            still == IF pending THEN t.still \cup {i} ELSE t.still
            u == [t EXCEPT !.at = "threads", !.cur = None, !.todo = t.todo \ {i}, !.still = still]
<1>1. t \in Threading
  BY Ticks DEF TypeOK
<1>2. tick' = [tick EXCEPT ![p] = u]
  BY DEF Dealt, TypeOK
<1>3. t.todo \ {i} \in SUBSET (1 .. MaxComments) /\ still \in SUBSET (1 .. MaxComments)
  BY <1>1 DEF Threading
<1>4. u \in Threading
  <2>1. "threads" \in InThreads /\ None \in 0 .. MaxComments
    BY Naturals DEF InThreads, None
  <2>2. \A a, b \in SUBSET (1 .. MaxComments) :
           [t EXCEPT !.at = "threads", !.cur = None, !.todo = a, !.still = b] \in Threading
    BY <1>1, <2>1, ThreadUpdates
  <2>. QED
    BY <1>3, <2>2
<1>5. Alone(p) /\ tick'[p] = u
  BY <1>2, <1>4, TickIsOne DEF AllTicks
<1>6. /\ u.at = "threads" /\ u.todo = t.todo \ {i} /\ u.still = still
      /\ u.seen = t.seen /\ u.live = t.live /\ u.approved = t.approved
      /\ u.merge = t.merge /\ u.touched = t.touched /\ u.pinged = t.pinged
      /\ u.sha = t.sha /\ u.nag = t.nag
  BY <1>1 DEF Threading
<1>. HIDE DEF u, t
<1>. QED
  BY <1>1, <1>4, <1>5, <1>6 DEF Settles, Keeps, t

LEMMA Advances ==
    ASSUME TypeOK, NEW p \in Pods, tick[p].at \in InThreads, NEW at \in InThreads,
           tick' = [tick EXCEPT ![p].at = at]
    PROVE  Alone(p) /\ GoesOn(p, at)
<1>. DEFINE t == tick[p]
            u == [t EXCEPT !.at = at]
<1>1. t \in Threading
  BY Ticks DEF TypeOK
<1>2. t.cur \in 0 .. MaxComments
  BY <1>1 DEF Threading
<1>3. u \in Threading /\ tick' = [tick EXCEPT ![p] = u]
  BY <1>1, <1>2, ThreadUpdates DEF TypeOK
<1>4. Alone(p) /\ tick'[p] = u
  BY <1>3, TickIsOne DEF AllTicks
<1>5. /\ u.at = at /\ u.todo = t.todo /\ u.still = t.still /\ u.cur = t.cur
      /\ u.seen = t.seen /\ u.live = t.live /\ u.approved = t.approved
      /\ u.merge = t.merge /\ u.touched = t.touched /\ u.pinged = t.pinged
      /\ u.sha = t.sha /\ u.nag = t.nag
  BY <1>1 DEF Threading
<1>. HIDE DEF u, t
<1>. QED
  BY <1>1, <1>3, <1>4, <1>5 DEF GoesOn, Keeps, t

LEMMA SavingIs ==
    ASSUME TypeOK, NEW p \in Pods, Answered(p), NEW pinged \in BOOLEAN, NEW clear \in BOOLEAN,
           NEW nagged \in BOOLEAN, Saving(p, pinged, clear, nagged)
    PROVE  Alone(p) /\ Saves(p, pinged, nagged)
<1>. DEFINE t == tick[p]
            u == [at |-> "saving", seen |-> t.seen, still |-> t.still, live |-> t.live,
                  approved |-> t.approved, pinged |-> t.pinged \/ pinged, clear |-> clear,
                  nagged |-> nagged]
<1>1. t \in Threading /\ t.at = "threads" /\ t.todo = {}
  BY Ticks DEF TypeOK, Answered, InThreads
<1>2. u \in Savings
  BY <1>1 DEF Threading, Savings
<1>3. tick' = [tick EXCEPT ![p] = u]
  BY DEF Saving, TypeOK
<1>4. Alone(p) /\ tick'[p] = u
  BY <1>2, <1>3, TickIsOne DEF AllTicks
<1>5. /\ u.at = "saving" /\ u.seen = t.seen /\ u.still = t.still /\ u.approved = t.approved
      /\ u.pinged = (t.pinged \/ pinged) /\ u.nagged = nagged
  OBVIOUS
<1>. HIDE DEF u, t
<1>. QED
  BY <1>1, <1>2, <1>4, <1>5 DEF Saves, t

\* The tick takes up the comment j.
TakesUp(p, j) ==
    /\ Keeps(p) /\ tick'[p].at = "deciding" /\ tick'[p].cur = j
    /\ tick'[p].todo = tick[p].todo /\ tick'[p].still = tick[p].still

Claims(p) == \E answer \in Answers : Claim(p, answer)

\* The comment in hand.
Hand(p) == tick[p].cur

\* The answer is posted, or the claim goes back; the iteration ends.
Replies(p) ==
    \/ Post(p) /\ tick[p].at \in Answers /\ UNCHANGED claims
       /\ seen' = [seen EXCEPT !.answers[Hand(p)] = @ + 1]
       /\ IF tick[p].at = "replying" THEN Settles(p, Hand(p), FALSE) ELSE GoesOn(p, "iterating")
    \/ (Post(p) \/ Iterate(p)) /\ tick[p].at \in Answers \cup {"iterating"}
       /\ Released(p, Hand(p)) /\ Settles(p, Hand(p), TRUE)
    \/ Iterate(p) /\ tick[p].at = "iterating" /\ UNCHANGED <<claims, seen>>
       /\ (GoesOn(p, "pushed") \/ Settles(p, Hand(p), FALSE))

Moves(p) ==
    \/ Load(p) /\ Loads(p)
    \/ (LeaveAlone(p) \/ Break(p) \/ Persist(p)) /\ tick'[p] = NoTick
    \/ Fetch(p) /\ Fetches(p)
    \/ Look(p) /\ tick[p].at = "threads"
       /\ \E j \in tick[p].todo : IF j \in claims THEN Settles(p, j, FALSE) ELSE TakesUp(p, j)
    \/ Claims(p) /\ tick[p].at = "deciding" /\ UNCHANGED claims
       /\ (Settles(p, Hand(p), TRUE) \/ (Hand(p) \in claims /\ Settles(p, Hand(p), FALSE)))
    \/ Claims(p) /\ tick[p].at = "deciding" /\ Hand(p) \notin claims /\ claims' = claims \cup {Hand(p)}
       /\ \E answer \in Answers : GoesOn(p, answer)
    \/ DecideOtherwise(p) /\ tick[p].at = "deciding" /\ Settles(p, Hand(p), FALSE)
       /\ seen' = [seen EXCEPT !.ignored = @ \cup {Hand(p)}]
    \/ DecideOtherwise(p) /\ tick[p].at = "deciding" /\ Settles(p, Hand(p), TRUE) /\ UNCHANGED seen
    \/ DecideOtherwise(p) /\ tick[p].at = "deciding" /\ tick'[p] = NoTick
       /\ seen' = [seen EXCEPT !.cut = @ + 1]
    \/ Replies(p)
    \/ MarkPending(p) /\ tick[p].at = "pushed" /\ Settles(p, Hand(p), FALSE)
    \/ Ping(p) /\ Saves(p, TRUE, FALSE)
    \/ Ack(p) /\ Saves(p, FALSE, FALSE)
    \/ Remind(p) /\ Saves(p, FALSE, FALSE) /\ seen' = [seen EXCEPT !.merges = MergePing(p, @)]
    \/ Remind(p) /\ Saves(p, FALSE, TRUE) /\ tick[p].nag /\ ~tick[p].touched
       /\ seen' = [seen EXCEPT !.nags = @ + 1]

LEMMA IdsAreNumbers ==
    ASSUME TypeOK
    PROVE  /\ Ids \in SUBSET (1 .. MaxComments)
           /\ \A listed \in Listings : listed \subseteq Ids
           /\ \A listed, w : NewComments(listed, w) \subseteq listed
           /\ \A listed, t : Candidates(listed, t) \subseteq listed
BY DEF TypeOK, Comments, Ids, Listings, NewComments, Candidates

LEMMA LoadMoves ==
    ASSUME TypeOK, NEW p \in Pods, Load(p)
    PROVE  Alone(p) /\ Loads(p)
<1>. DEFINE sha == IF row.thread THEN row.sha ELSE None
            nag == row.pending = {} /\ row.sha = None /\ ~row.nagged
            t == [at |-> "loaded", seen |-> row.seen, pending |-> row.pending,
                  pinged |-> row.pinged, approved |-> row.approved, sha |-> sha, nag |-> nag]
<1>1. tick' = [tick EXCEPT ![p] = t]
  BY DEF Load
<1>2. sha \in 0 .. MaxCommits /\ nag \in BOOLEAN /\ (nag => ~row.nagged)
  BY Naturals DEF TypeOK, Rows, None
<1>3. t.at = "loaded" /\ t.seen = row.seen /\ t.pending = row.pending
      /\ t.pinged = row.pinged /\ t.approved = row.approved /\ t.nag = nag
  OBVIOUS
<1>. HIDE DEF nag, sha
<1>4. t \in Loaded
  BY <1>2 DEF TypeOK, Rows, Loaded
<1>. HIDE DEF t
<1>. QED
  BY <1>1, <1>2, <1>3, <1>4, TickIsOne DEF Loads, AllTicks

\* What Fetch tells the observers, and what it takes the approvals for.
LEMMA FetchSees ==
    ASSUME TypeOK, NEW p \in Pods, Fetch(p)
    PROVE  \E listed \in Listings, approved \in {vcs.approved, FALSE} :
             /\ seen' = [seen EXCEPT
                  !.misread = IF approved = vcs.approved THEN @ ELSE @ + 1,
                  !.unread = IF listed = Ids THEN @ \ tick[p].pending ELSE @ \cup tick[p].pending]
             /\ tick'[p].approved = approved
<1>1. PICK listed \in Listings, approved \in {vcs.approved, FALSE} :
        LET t == tick[p]
            new == NewComments(listed, t.seen)
            merge == approved /\ ~t.approved
        IN  /\ IF listed = Ids /\ approved = vcs.approved THEN Calm ELSE Spend("failures")
            /\ seen' = [seen EXCEPT
                 !.misread = IF approved = vcs.approved THEN @ ELSE @ + 1,
                 !.unread = IF listed = Ids THEN @ \ t.pending ELSE @ \cup t.pending]
            /\ tick' = [tick EXCEPT ![p] =
                [at |-> "threads", cur |-> None, todo |-> Candidates(listed, t), still |-> {},
                 seen |-> IF new = {} THEN None ELSE Max(new), live |-> LiveStatus,
                 approved |-> approved, merge |-> merge, touched |-> new # {} \/ merge,
                 pinged |-> t.pinged, sha |-> t.sha, nag |-> t.nag]]
  BY DEF Fetch
<1>2. tick'[p].approved = approved
  BY <1>1 DEF TypeOK
<1>. QED
  BY <1>1, <1>2

LEMMA FetchMoves ==
    ASSUME TypeOK, NEW p \in Pods, Fetch(p)
    PROVE  Alone(p) /\ Fetches(p)
<1>1. PICK listed \in Listings, approved \in {vcs.approved, FALSE} :
        LET t == tick[p]
            new == NewComments(listed, t.seen)
            merge == approved /\ ~t.approved
        IN  /\ IF listed = Ids /\ approved = vcs.approved THEN Calm ELSE Spend("failures")
            /\ seen' = [seen EXCEPT
                 !.misread = IF approved = vcs.approved THEN @ ELSE @ + 1,
                 !.unread = IF listed = Ids THEN @ \ t.pending ELSE @ \cup t.pending]
            /\ tick' = [tick EXCEPT ![p] =
                [at |-> "threads", cur |-> None, todo |-> Candidates(listed, t), still |-> {},
                 seen |-> IF new = {} THEN None ELSE Max(new), live |-> LiveStatus,
                 approved |-> approved, merge |-> merge, touched |-> new # {} \/ merge,
                 pinged |-> t.pinged, sha |-> t.sha, nag |-> t.nag]]
  BY DEF Fetch
<1>. DEFINE t == tick[p]
<1>0. seen'.unread = IF listed = Ids THEN seen.unread \ t.pending ELSE seen.unread \cup t.pending
  <2>. DEFINE m == IF approved = vcs.approved THEN seen.misread ELSE seen.misread + 1
              n == IF listed = Ids THEN seen.unread \ t.pending ELSE seen.unread \cup t.pending
  <2>1. seen' = [seen EXCEPT !.misread = m, !.unread = n]
    BY <1>1
  <2>. HIDE DEF m, n
  <2>2. seen'.unread = n
    BY <2>1 DEF TypeOK, Observers
  <2>. QED
    BY <2>2 DEF n
<1>. DEFINE new == NewComments(listed, t.seen)
            max == IF new = {} THEN None ELSE Max(new)
            merge == approved /\ ~t.approved
            touched == new # {} \/ merge
            todo == Candidates(listed, t)
            live == LiveStatus
            u == [at |-> "threads", cur |-> None, todo |-> todo, still |-> {},
                  seen |-> max, live |-> live, approved |-> approved, merge |-> merge,
                  touched |-> touched, pinged |-> t.pinged, sha |-> t.sha, nag |-> t.nag]
<1>2. t \in Loaded /\ approved \in BOOLEAN
  BY Ticks DEF TypeOK, Fetch, GitLab
<1>3. live \in {"draft", "open"}
  BY DEF Fetch, LiveStatus, TypeOK, GitLab
<1>4. max \in 0 .. MaxComments
  <2>1. new \in SUBSET (1 .. MaxComments)
    BY IdsAreNumbers
  <2>2. new # {} => Max(new) \in 1 .. MaxComments
    <3>. HIDE DEF new
    <3>. QED
      BY <2>1, MaxIs, Naturals
  <2>. QED
    BY <2>2, Naturals DEF None
<1>5. todo \in SUBSET (1 .. MaxComments) /\ merge \in BOOLEAN /\ touched \in BOOLEAN
  BY IdsAreNumbers, <1>2 DEF Loaded
<1>6. None \in 0 .. MaxComments
  BY Naturals DEF None
<1>7. merge => touched
  OBVIOUS
<1>. HIDE DEF max, merge, touched, todo, live
<1>8. u \in Threading
  BY <1>2, <1>3, <1>4, <1>5, <1>6 DEF Threading, Loaded, InThreads
<1>9. /\ u.at = "threads" /\ u.todo = todo /\ u.still = {} /\ u.seen = max /\ u.approved = approved
      /\ u.merge = merge /\ u.touched = touched /\ u.pinged = t.pinged /\ u.nag = t.nag
  OBVIOUS
<1>10. tick' = [tick EXCEPT ![p] = u]
  BY <1>1 DEF max, merge, touched, todo, live
<1>. HIDE DEF u
<1>11. Alone(p) /\ tick'[p] = u
  BY <1>8, <1>10, TickIsOne DEF AllTicks
<1>. QED
  <2>1. t \in Loaded /\ tick'[p] \in Threading /\ tick'[p].at = "threads"
        /\ tick'[p].still = {} /\ tick'[p].todo = todo /\ tick'[p].seen = max
    BY <1>2, <1>8, <1>9, <1>11
  <2>2. /\ tick'[p].merge = (tick'[p].approved /\ ~t.approved)
        /\ (tick'[p].merge => tick'[p].touched)
        /\ tick'[p].pinged = t.pinged /\ tick'[p].nag = t.nag
    BY <1>7, <1>9, <1>11 DEF merge
  <2>3. \E l \in Listings :
           /\ tick'[p].todo = Candidates(l, t)
           /\ tick'[p].seen = IF NewComments(l, t.seen) = {} THEN None
                              ELSE Max(NewComments(l, t.seen))
           /\ seen'.unread = IF l = Ids THEN seen.unread \ t.pending
                             ELSE seen.unread \cup t.pending
    BY <1>0, <2>1 DEF max, todo
  <2>. QED
    BY <1>11, <2>1, <2>2, <2>3 DEF Fetches

LEMMA LookMoves ==
    ASSUME TypeOK, NEW p \in Pods, Look(p)
    PROVE  Alone(p) /\ \E j \in tick[p].todo :
                          IF j \in claims THEN Settles(p, j, FALSE) ELSE TakesUp(p, j)
<1>1. PICK j \in tick[p].todo :
         IF j \in claims THEN Dealt(p, j, FALSE)
         ELSE tick' = [tick EXCEPT ![p].at = "deciding", ![p].cur = j]
  BY DEF Look, IsClaimed
<1>. DEFINE t == tick[p]
<1>2. t \in Threading /\ t.at \in InThreads /\ j \in 1 .. MaxComments
  BY <1>1, Ticks DEF TypeOK, Look, InThreads, Threading
<1>3. CASE j \in claims
  BY <1>1, <1>2, <1>3, DealtIs
<1>4. CASE j \notin claims
  <2>. DEFINE u == [t EXCEPT !.at = "deciding", !.cur = j]
  <2>0. "deciding" \in InThreads /\ j \in 0 .. MaxComments
    BY <1>2 DEF InThreads
  <2>1. u \in Threading /\ tick' = [tick EXCEPT ![p] = u]
    BY <1>1, <1>2, <1>4, <2>0, ThreadUpdates DEF TypeOK
  <2>2. Alone(p) /\ tick'[p] = u
    BY <2>1, TickIsOne DEF AllTicks
  <2>3. /\ u.at = "deciding" /\ u.cur = j /\ u.todo = t.todo /\ u.still = t.still
        /\ u.seen = t.seen /\ u.live = t.live /\ u.approved = t.approved
        /\ u.merge = t.merge /\ u.touched = t.touched /\ u.pinged = t.pinged
        /\ u.sha = t.sha /\ u.nag = t.nag
    BY <1>2 DEF Threading
  <2>. HIDE DEF u, t
  <2>. QED
    BY <1>1, <1>2, <1>4, <2>1, <2>2, <2>3 DEF TakesUp, Keeps, t
<1>. QED
  BY <1>3, <1>4

\* The comment in hand, or None, is a number.
LEMMA HandIs ==
    ASSUME TypeOK, AnswerInv, NEW p \in Pods, tick[p].at \in InThreads \ {"threads"}
    PROVE  Hand(p) \in 1 .. MaxComments /\ Hand(p) \in tick[p].todo /\ tick[p] \in Threading
<1>1. tick[p] \in Threading /\ tick[p].cur \in tick[p].todo
  BY Ticks DEF TypeOK, AnswerInv
<1>. QED
  BY <1>1 DEF Hand, Threading

LEMMA ReviewerMoves ==
    ASSUME TypeOK, AnswerInv, NEW p \in Pods, ReviewerStep(p)
    PROVE  Alone(p) /\ Moves(p)
<1>. USE DEF InThreads
<1>1. CASE Load(p)
  BY <1>1, LoadMoves DEF Moves
<1>2. CASE LeaveAlone(p) \/ Break(p) \/ Persist(p)
  BY <1>2, Ended DEF LeaveAlone, Break, Persist, Moves
<1>3. CASE Fetch(p)
  BY <1>3, FetchMoves DEF Moves
<1>4. CASE Look(p)
  <2>1. tick[p].at = "threads"
    BY <1>4 DEF Look
  <2>. QED
    BY <1>4, <2>1, LookMoves DEF Moves
<1>5. ASSUME NEW answer \in Answers, Claim(p, answer)
      PROVE  Alone(p) /\ Moves(p)
  <2>1. tick[p].at = "deciding" /\ Hand(p) \in 1 .. MaxComments /\ answer \in InThreads
    BY <1>5, HandIs DEF Claim, Answers
  <2>2. \/ Dealt(p, Hand(p), TRUE) /\ UNCHANGED claims
        \/ Hand(p) \in claims /\ Dealt(p, Hand(p), FALSE) /\ UNCHANGED claims
        \/ /\ Hand(p) \notin claims /\ claims' = claims \cup {Hand(p)}
           /\ tick' = [tick EXCEPT ![p].at = answer]
    BY <1>5 DEF Claim, Hand, IsClaimed, TakeClaim
  <2>3. CASE Dealt(p, Hand(p), TRUE) /\ UNCHANGED claims
    <3>1. Alone(p) /\ Settles(p, Hand(p), TRUE)
      BY <2>1, <2>3, DealtIs
    <3>2. Claims(p)
      BY <1>5 DEF Claims
    <3>. QED
      BY <2>1, <2>3, <3>1, <3>2 DEF Moves
  <2>4. CASE Hand(p) \in claims /\ Dealt(p, Hand(p), FALSE) /\ UNCHANGED claims
    BY <1>5, <2>1, <2>4, DealtIs DEF Moves, Claims
  <2>5. CASE /\ Hand(p) \notin claims /\ claims' = claims \cup {Hand(p)}
             /\ tick' = [tick EXCEPT ![p].at = answer]
    BY <1>5, <2>1, <2>5, Advances DEF Moves, Claims
  <2>. QED
    BY <2>2, <2>3, <2>4, <2>5
<1>6. CASE DecideOtherwise(p)
  <2>1. tick[p].at = "deciding" /\ Hand(p) \in 1 .. MaxComments
    BY <1>6, HandIs DEF DecideOtherwise
  <2>2. \/ Dealt(p, Hand(p), FALSE) /\ seen' = [seen EXCEPT !.ignored = @ \cup {Hand(p)}]
        \/ Dealt(p, Hand(p), TRUE) /\ UNCHANGED seen
        \/ EndTick(p) /\ seen' = [seen EXCEPT !.cut = @ + 1]
    BY <1>6 DEF DecideOtherwise, Hand
  <2>. QED
    BY <1>6, <2>1, <2>2, DealtIs, Ended DEF Moves
<1>7. CASE Post(p)
  <2>1. tick[p].at \in Answers /\ Hand(p) \in 1 .. MaxComments /\ tick[p].at \in InThreads
    BY <1>7, HandIs DEF Post, Answers
  <2>2. \/ /\ UNCHANGED claims /\ seen' = [seen EXCEPT !.answers[Hand(p)] = @ + 1]
           /\ IF tick[p].at = "replying" THEN Dealt(p, Hand(p), FALSE)
              ELSE tick' = [tick EXCEPT ![p].at = "iterating"]
        \/ Released(p, Hand(p))
    BY <1>7 DEF Post, Hand
  <2>3. CASE Released(p, Hand(p))
    <3>1. Dealt(p, Hand(p), TRUE)
      BY <2>3 DEF Released
    <3>. QED
      BY <1>7, <2>1, <2>3, <3>1, DealtIs DEF Moves, Replies
  <2>4. CASE /\ UNCHANGED claims /\ seen' = [seen EXCEPT !.answers[Hand(p)] = @ + 1]
             /\ tick[p].at = "replying" /\ Dealt(p, Hand(p), FALSE)
    BY <1>7, <2>1, <2>4, DealtIs DEF Moves, Replies
  <2>5. CASE /\ UNCHANGED claims /\ seen' = [seen EXCEPT !.answers[Hand(p)] = @ + 1]
             /\ tick[p].at # "replying" /\ tick' = [tick EXCEPT ![p].at = "iterating"]
    BY <1>7, <2>1, <2>5, Advances DEF Moves, Replies
  <2>. QED
    BY <2>2, <2>3, <2>4, <2>5
<1>8. CASE Iterate(p)
  <2>1. tick[p].at = "iterating" /\ Hand(p) \in 1 .. MaxComments
    BY <1>8, HandIs DEF Iterate
  <2>2. \/ tick' = [tick EXCEPT ![p].at = "pushed"] /\ UNCHANGED <<claims, seen>>
        \/ Dealt(p, Hand(p), FALSE) /\ UNCHANGED <<claims, seen>>
        \/ Released(p, Hand(p))
    BY <1>8 DEF Iterate, Hand
  <2>3. CASE Released(p, Hand(p))
    <3>1. Dealt(p, Hand(p), TRUE)
      BY <2>3 DEF Released
    <3>. QED
      BY <1>8, <2>1, <2>3, <3>1, DealtIs DEF Moves, Replies
  <2>4. CASE Dealt(p, Hand(p), FALSE) /\ UNCHANGED <<claims, seen>>
    BY <1>8, <2>1, <2>4, DealtIs DEF Moves, Replies
  <2>5. CASE tick' = [tick EXCEPT ![p].at = "pushed"] /\ UNCHANGED <<claims, seen>>
    BY <1>8, <2>1, <2>5, Advances DEF Moves, Replies
  <2>. QED
    BY <2>2, <2>3, <2>4, <2>5
<1>9. CASE MarkPending(p)
  <2>1. tick[p].at = "pushed" /\ Hand(p) \in 1 .. MaxComments /\ Dealt(p, Hand(p), FALSE)
    BY <1>9, HandIs DEF MarkPending, Hand
  <2>. QED
    BY <1>9, <2>1, DealtIs DEF Moves
<1>10. CASE Ping(p)
  <2>1. Answered(p) /\ Saving(p, TRUE, TRUE, FALSE)
    BY <1>10 DEF Ping
  <2>. QED
    BY <1>10, <2>1, SavingIs DEF Moves
<1>11. CASE Ack(p)
  <2>1. Answered(p) /\ Saving(p, FALSE, TRUE, FALSE)
    BY <1>11 DEF Ack
  <2>. QED
    BY <1>11, <2>1, SavingIs DEF Moves
<1>12. CASE Remind(p)
  <2>1. /\ Answered(p)
        /\ \/ Saving(p, FALSE, FALSE, FALSE) /\ seen' = [seen EXCEPT !.merges = MergePing(p, @)]
           \/ /\ tick[p].nag /\ ~tick[p].touched /\ Saving(p, FALSE, FALSE, TRUE)
              /\ seen' = [seen EXCEPT !.nags = @ + 1]
    BY <1>12 DEF Remind
  <2>. QED
    BY <1>12, <2>1, SavingIs DEF Moves
<1>. QED
  BY <1>1, <1>2, <1>3, <1>4, <1>5, <1>6, <1>7, <1>8, <1>9, <1>10, <1>11, <1>12 DEF ReviewerStep

\* The pod p goes away, or comes back without its tick, its watch and its fix.
LEMMA TickMoves ==
    ASSUME TypeOK, AnswerInv, [Next]_vars
    PROVE  \/ UNCHANGED tick
           \/ \E p \in Pods : Alone(p) /\ ReviewerStep(p) /\ Moves(p)
           \/ \E p \in Pods : Alone(p) /\ Stop(p) /\ tick'[p] = NoTick
<1>1. ASSUME NEW p \in Pods, ReviewerStep(p)
      PROVE  Alone(p) /\ Moves(p)
  BY <1>1, ReviewerMoves
<1>2. ASSUME NEW p \in Pods, Stop(p)
      PROVE  Alone(p) /\ tick'[p] = NoTick
  BY <1>2, Ended DEF Stop
<1>3. CASE UNCHANGED vars \/ ChatIterates \/ ChatMarks \/ RestartCommand \/ Comment \/ Delete
           \/ ChangeStatus \/ Approve \/ PipelineStarts \/ PipelineEnds
  BY <1>3 DEF vars, ChatIterates, ChatMarks, RestartCommand, Comment, Delete, ChangeStatus,
     Approve, PipelineStarts, PipelineEnds
<1>4. ASSUME NEW p \in Pods, DevOpsStep(p) \/ FixRuns(p) \/ FixEnds(p) \/ Deploy(p)
      PROVE  UNCHANGED tick
  BY <1>4 DEF DevOpsStep, Watch, SeesGreen, SeesOther, RetryPipeline, GiveUp, StartFix, FixRuns,
     FixEnds, Deploy
<1>. QED
  BY <1>1, <1>2, <1>3, <1>4 DEF Next

-----------------------------------------------------------------------------
(* What a step does to the row.                                            *)

\* What the Reviewer persists is left alone.
RowKept ==
    /\ row'.seen = row.seen /\ row'.pending = row.pending /\ row'.pinged = row.pinged
    /\ row'.nagged = row.nagged /\ row'.approved = row.approved

CountersKept == row'.attempts = row.attempts /\ row'.infra = row.infra

Persisted(p) ==
    /\ row'.seen = Watermark(p) /\ row'.pending = tick[p].still /\ row'.pinged = tick[p].pinged
    /\ row'.nagged = (row.nagged \/ tick[p].nagged) /\ row'.approved = tick[p].approved

\* The counters start afresh.
Afresh == row'.attempts = 0 /\ row'.infra = 0 /\ seen'.fixes = 0

RowMoves ==
    \/ RowKept /\ CountersKept
    \/ RowKept /\ Afresh
       /\ (ChatMarks \/ RestartCommand \/ \E p \in Pods : SeesGreen(p))
    \/ \E p \in Pods : RetryPipeline(p) /\ RowKept
                       /\ row'.attempts = row.attempts /\ row'.infra = row.infra + 1
    \/ \E p \in Pods : FixEnds(p) /\ RowKept
                       /\ row'.attempts = row.attempts + 1 /\ row'.infra = row.infra
    \/ \E p \in Pods : Persist(p) /\ tick[p] \in Savings /\ Persisted(p) /\ CountersKept

LEMMA RowUpdates ==
    ASSUME NEW r \in Rows
    PROVE  /\ [r EXCEPT !.status = "closed"] \in Rows
           /\ [r EXCEPT !.thread = TRUE] \in Rows
           /\ [r EXCEPT !.gaveUp = TRUE, !.lead = TRUE] \in Rows
           /\ [r EXCEPT !.infra = @ + 1] \in Rows
           /\ ResetCounters(r) \in Rows
           /\ \A c \in 0 .. MaxCommits :
                /\ [r EXCEPT !.sha = c] \in Rows
                /\ [r EXCEPT !.attempts = @ + 1, !.sha = c] \in Rows
                /\ [ResetCounters(r) EXCEPT !.sha = c] \in Rows
<1>1. ResetCounters(r) \in Rows
  BY DEF Rows, ResetCounters
<1>2. \A x \in Rows : \A c \in 0 .. MaxCommits : [x EXCEPT !.sha = c] \in Rows
  BY DEF Rows
<1>3. r.attempts + 1 \in Nat /\ r.infra + 1 \in Nat
  BY DEF Rows
<1>4. \A n \in Nat : [r EXCEPT !.attempts = n] \in Rows /\ [r EXCEPT !.infra = n] \in Rows
  BY DEF Rows
<1>5. \A c \in 0 .. MaxCommits : [r EXCEPT !.attempts = @ + 1, !.sha = c] \in Rows
  <2>1. \A c : [r EXCEPT !.attempts = @ + 1, !.sha = c]
                 = [[r EXCEPT !.attempts = r.attempts + 1] EXCEPT !.sha = c]
    OBVIOUS
  <2>. QED
    BY <1>2, <1>3, <1>4, <2>1
<1>6. /\ [r EXCEPT !.status = "closed"] \in Rows
      /\ [r EXCEPT !.thread = TRUE] \in Rows
      /\ [r EXCEPT !.gaveUp = TRUE, !.lead = TRUE] \in Rows
  BY DEF Rows
<1>7. [r EXCEPT !.infra = @ + 1] \in Rows
  BY <1>3, <1>4
<1>. QED
  BY <1>1, <1>2, <1>5, <1>6, <1>7

LEMMA SavedIs ==
    ASSUME TypeOK, NEW t \in Savings
    PROVE  /\ Saved(row, t) \in Rows
           /\ Saved(row, t).pending = t.still /\ Saved(row, t).pinged = t.pinged
           /\ Saved(row, t).nagged = (row.nagged \/ t.nagged)
           /\ Saved(row, t).approved = t.approved
           /\ Saved(row, t).seen = (IF t.seen = None THEN row.seen ELSE t.seen)
           /\ Saved(row, t).attempts = row.attempts /\ Saved(row, t).infra = row.infra
<1>1. row \in Rows /\ None \in 0 .. MaxCommits
  BY Naturals DEF TypeOK, None
<1>. DEFINE seen1 == IF t.seen = None THEN row.seen ELSE t.seen
            sha == IF t.clear THEN None ELSE row.sha
            nagged == row.nagged \/ t.nagged
            r == [row EXCEPT !.status = t.live, !.pending = t.still, !.pinged = t.pinged,
                             !.nagged = nagged, !.seen = seen1, !.approved = t.approved, !.sha = sha]
<1>2. r = Saved(row, t)
  BY DEF Saved
<1>3. /\ seen1 \in 0 .. MaxComments /\ sha \in 0 .. MaxCommits /\ nagged \in BOOLEAN
      /\ t.live \in {"draft", "open", "closed"} /\ t.still \in SUBSET (1 .. MaxComments)
      /\ t.pinged \in BOOLEAN /\ t.approved \in BOOLEAN
  BY <1>1 DEF Rows, Savings
<1>. HIDE DEF seen1, sha, nagged
<1>4. r \in Rows
  BY <1>1, <1>3 DEF Rows
<1>5. /\ r.pending = t.still /\ r.pinged = t.pinged /\ r.nagged = nagged
      /\ r.approved = t.approved /\ r.seen = seen1
      /\ r.attempts = row.attempts /\ r.infra = row.infra
  BY <1>1 DEF Rows
<1>. HIDE DEF r
<1>. QED
  BY <1>2, <1>4, <1>5 DEF seen1, nagged

\* The head is one of the commits.
LEMMA HeadIs == ASSUME TypeOK PROVE vcs.head \in 0 .. MaxCommits
BY Naturals DEF TypeOK, GitLab

LEMMA RowSteps ==
    ASSUME TypeOK, [Next]_vars
    PROVE  row' \in Rows /\ RowMoves
<1>. DEFINE Kept == RowKept /\ CountersKept
<1>0. row \in Rows
  BY DEF TypeOK
<1>1. CASE UNCHANGED row
  BY <1>0, <1>1 DEF RowMoves, RowKept, CountersKept
<1>2. ASSUME NEW p \in Pods, LeaveAlone(p) \/ Ping(p) \/ GiveUp(p), row' # row
      PROVE  row' \in Rows /\ RowMoves
  <2>1. \/ row' = [row EXCEPT !.status = "closed"] \/ row' = [row EXCEPT !.thread = TRUE]
        \/ row' = [row EXCEPT !.gaveUp = TRUE, !.lead = TRUE]
    BY <1>2 DEF LeaveAlone, Ping, GiveUp
  <2>2. Kept
    BY <1>0, <2>1 DEF Rows, RowKept, CountersKept
  <2>. QED
    BY <1>0, <2>1, <2>2, RowUpdates DEF RowMoves
<1>3. ASSUME NEW p \in Pods, MarkPending(p)
      PROVE  row' \in Rows /\ RowMoves
  <2>1. row' = [row EXCEPT !.sha = vcs.head]
    BY <1>3 DEF MarkPending
  <2>2. Kept
    BY <1>0, <2>1 DEF Rows, RowKept, CountersKept
  <2>. QED
    BY <1>0, <2>1, <2>2, HeadIs, RowUpdates DEF RowMoves
<1>4. ASSUME NEW p \in Pods, Persist(p)
      PROVE  row' \in Rows /\ RowMoves
  <2>1. tick[p] \in Savings /\ row' = Saved(row, tick[p])
    BY <1>4, Ticks DEF Persist, TypeOK
  <2>2. row' \in Rows /\ Persisted(p) /\ CountersKept
    BY <2>1, SavedIs DEF Persisted, CountersKept, Watermark
  <2>. QED
    BY <1>4, <2>1, <2>2 DEF RowMoves
<1>5. ASSUME NEW p \in Pods, RetryPipeline(p)
      PROVE  row' \in Rows /\ RowMoves
  <2>1. row' = [row EXCEPT !.infra = @ + 1]
    BY <1>5 DEF RetryPipeline
  <2>2. RowKept /\ row'.attempts = row.attempts /\ row'.infra = row.infra + 1
    BY <1>0, <2>1 DEF Rows, RowKept
  <2>. QED
    BY <1>0, <1>5, <2>1, <2>2, RowUpdates DEF RowMoves
<1>6. ASSUME NEW p \in Pods, FixEnds(p)
      PROVE  row' \in Rows /\ RowMoves
  <2>. DEFINE sha == IF fix[p] = "pushed" THEN vcs.head ELSE row.sha
  <2>1. row' = [row EXCEPT !.attempts = @ + 1, !.sha = sha]
    BY <1>6 DEF FixEnds
  <2>2. sha \in 0 .. MaxCommits
    BY <1>0, HeadIs DEF Rows
  <2>. HIDE DEF sha
  <2>3. RowKept /\ row'.attempts = row.attempts + 1 /\ row'.infra = row.infra
    BY <1>0, <2>1 DEF Rows, RowKept
  <2>. QED
    BY <1>0, <1>6, <2>1, <2>2, <2>3, RowUpdates DEF RowMoves
<1>7. CASE RestartCommand \/ \E p \in Pods : SeesGreen(p) /\ row' # row
  <2>1. row' = ResetCounters(row) /\ seen' = [seen EXCEPT !.fixes = 0]
    BY <1>7 DEF RestartCommand, SeesGreen
  <2>2. RowKept /\ Afresh
    BY <1>0, <2>1 DEF Rows, ResetCounters, RowKept, Afresh, TypeOK, Observers
  <2>. QED
    BY <1>0, <1>7, <2>1, <2>2, RowUpdates DEF RowMoves
<1>8. CASE ChatMarks
  <2>1. row' = [ResetCounters(row) EXCEPT !.sha = chat] /\ seen' = [seen EXCEPT !.fixes = 0]
    BY <1>8 DEF ChatMarks
  <2>2. RowKept /\ Afresh
    BY <1>0, <2>1 DEF Rows, ResetCounters, RowKept, Afresh, TypeOK, Observers
  <2>3. chat \in 0 .. MaxCommits
    BY DEF TypeOK
  <2>. QED
    BY <1>0, <1>8, <2>1, <2>2, <2>3, RowUpdates DEF RowMoves
<1>9. \/ UNCHANGED row \/ RestartCommand \/ ChatMarks
      \/ \E p \in Pods : \/ (LeaveAlone(p) \/ Ping(p) \/ GiveUp(p)) /\ row' # row
                         \/ MarkPending(p) \/ Persist(p) \/ RetryPipeline(p) \/ FixEnds(p)
                         \/ SeesGreen(p) /\ row' # row
  BY DEF Next, vars, ReviewerStep, DevOpsStep, Load, Fetch, Look, Claim, DecideOtherwise, Post, Iterate,
     Ack, Remind, Break, Watch, SeesOther, StartFix, FixRuns, Deploy, Stop, ChatIterates, Comment,
     Delete, ChangeStatus, Approve, PipelineStarts, PipelineEnds
<1>. QED
  BY <1>1, <1>2, <1>3, <1>4, <1>5, <1>6, <1>7, <1>8, <1>9

-----------------------------------------------------------------------------
(* What a step does to the observers.                                      *)

Observed == {"answers", "ignored", "unread", "pings", "nags", "merges", "approvals", "cut", "misread",
             "fixes", "lost", "told", "overlap"}

\* Nothing changes but the observers in S.
AllBut(S) == seen' \in Observers /\ \A f \in Observed \ S : seen'[f] = seen[f]

Overlaps(p) == seen'.overlap = (seen.overlap \/ \E q \in Pods \ {p} : tick[q].at # "idle")

SeenMoves ==
    \/ AllBut({})
    \/ \E p \in Pods : Load(p) /\ AllBut({"overlap"}) /\ Overlaps(p)
    \/ \E p \in Pods : Fetch(p) /\ AllBut({"misread", "unread"})
                       /\ seen'.unread \in {seen.unread \ tick[p].pending,
                                           seen.unread \cup tick[p].pending}
    \/ \E p \in Pods : DecideOtherwise(p) /\ AllBut({"ignored"})
                       /\ seen'.ignored = seen.ignored \cup {Hand(p)}
    \/ \E p \in Pods : (DecideOtherwise(p) \/ Break(p)) /\ AllBut({"cut"})
                       /\ seen'.cut = seen.cut + 1
    \/ \E p \in Pods : Post(p) /\ AllBut({"answers"})
                       /\ seen'.answers = [seen.answers EXCEPT ![Hand(p)] = 1]
    \/ \E p \in Pods : (Post(p) \/ Iterate(p)) /\ AllBut({"answers"})
                       /\ seen'.answers = [seen.answers EXCEPT ![Hand(p)] = 0]
    \/ \E p \in Pods : Ping(p) /\ AllBut({"pings", "told", "merges"})
                       /\ seen'.pings = seen.pings + 1 /\ seen'.merges = MergePing(p, seen.merges)
    \/ \E p \in Pods : (Ack(p) \/ Remind(p)) /\ AllBut({"told", "merges"})
                       /\ seen'.merges = MergePing(p, seen.merges)
    \/ \E p \in Pods : Remind(p) /\ AllBut({"nags"}) /\ seen'.nags = seen.nags + 1
    \/ (ChatMarks \/ RestartCommand \/ \E p \in Pods : SeesGreen(p))
       /\ AllBut({"fixes"}) /\ seen'.fixes = 0
    \/ \E p \in Pods : StartFix(p) /\ AllBut({"fixes"}) /\ seen'.fixes = seen.fixes + 1
    \/ Approve /\ AllBut({"approvals"})
       /\ seen'.approvals = IF vcs.approved THEN seen.approvals ELSE seen.approvals + 1
    \/ \E p \in Pods : Stop(p) /\ AllBut({"cut", "lost"})
                       /\ seen'.cut = (IF tick[p].at = "idle" THEN seen.cut ELSE seen.cut + 1)
                       /\ seen'.lost = (IF fix[p] = "idle" THEN seen.lost ELSE seen.lost + 1)

LEMMA SeenUpdates ==
    ASSUME NEW s \in Observers
    PROVE  /\ \A b \in BOOLEAN : [s EXCEPT !.overlap = b] \in Observers
           /\ \A n \in Nat : /\ [s EXCEPT !.misread = n] \in Observers
                                       /\ [s EXCEPT !.cut = n] \in Observers
                                       /\ [s EXCEPT !.nags = n] \in Observers
                                       /\ [s EXCEPT !.pings = n] \in Observers
                                       /\ [s EXCEPT !.merges = n] \in Observers
                                       /\ [s EXCEPT !.approvals = n] \in Observers
           /\ \A n \in Nat : [s EXCEPT !.fixes = n] \in Observers /\ [s EXCEPT !.lost = n] \in Observers
           /\ \A c \in 0 .. MaxCommits : [s EXCEPT !.told = c] \in Observers
           /\ \A i \in 1 .. MaxComments : [s EXCEPT !.ignored = @ \cup {i}] \in Observers
           /\ \A u \in SUBSET (1 .. MaxComments) : [s EXCEPT !.unread = u] \in Observers
           /\ \A a \in [1 .. MaxComments -> 0 .. 2] : [s EXCEPT !.answers = a] \in Observers
<1>1. /\ \A b \in BOOLEAN : [s EXCEPT !.overlap = b] \in Observers
      /\ \A n \in Nat : /\ [s EXCEPT !.misread = n] \in Observers
                                  /\ [s EXCEPT !.cut = n] \in Observers
                                  /\ [s EXCEPT !.nags = n] \in Observers
  BY DEF Observers
<1>2. \A n \in Nat : /\ [s EXCEPT !.pings = n] \in Observers
                               /\ [s EXCEPT !.merges = n] \in Observers
                               /\ [s EXCEPT !.approvals = n] \in Observers
  BY DEF Observers
<1>3. /\ \A n \in Nat : [s EXCEPT !.fixes = n] \in Observers /\ [s EXCEPT !.lost = n] \in Observers
      /\ \A c \in 0 .. MaxCommits : [s EXCEPT !.told = c] \in Observers
  BY DEF Observers
<1>4. /\ \A i \in 1 .. MaxComments : [s EXCEPT !.ignored = @ \cup {i}] \in Observers
      /\ \A u \in SUBSET (1 .. MaxComments) : [s EXCEPT !.unread = u] \in Observers
  BY DEF Observers
<1>5. \A a \in [1 .. MaxComments -> 0 .. 2] : [s EXCEPT !.answers = a] \in Observers
  BY DEF Observers
<1>. QED
  BY <1>1, <1>2, <1>3, <1>4, <1>5

\* The fields of the observers, and their domain.
LEMMA SeenFields ==
    ASSUME NEW s \in Observers
    PROVE  /\ DOMAIN s = Observed
           /\ s.answers \in [1 .. MaxComments -> 0 .. 2]
           /\ s.pings \in Nat /\ s.nags \in Nat /\ s.merges \in Nat
           /\ s.approvals \in Nat /\ s.cut \in Nat
           /\ s.misread \in Nat /\ s.fixes \in Nat /\ s.lost \in Nat
           /\ s.overlap \in BOOLEAN /\ s.ignored \in SUBSET (1 .. MaxComments)
           /\ s.unread \in SUBSET (1 .. MaxComments)
BY DEF Observers, Observed

LEMMA MergePingIs ==
    ASSUME NEW p, NEW n \in Nat
    PROVE  MergePing(p, n) \in Nat
BY DEF MergePing

LEMMA OneChanges ==
    ASSUME TypeOK, NEW f \in Observed, NEW v, seen' = [seen EXCEPT ![f] = v], seen' \in Observers
    PROVE  AllBut({f}) /\ seen'[f] = v
<1>1. DOMAIN seen = Observed
  BY SeenFields DEF TypeOK
<1>. QED
  BY <1>1 DEF AllBut

LEMMA SeenSteps ==
    ASSUME TypeOK, AnswerInv, [Next]_vars
    PROVE  SeenMoves /\ seen' \in Observers
<1>0. seen \in Observers
  BY DEF TypeOK
<1>. USE SeenFields, <1>0
<1>14. /\ seen.misread + 1 \in Nat /\ seen.cut + 1 \in Nat /\ seen.pings + 1 \in Nat
       /\ seen.nags + 1 \in Nat
  OBVIOUS
<1>1. CASE UNCHANGED seen
  BY <1>1 DEF SeenMoves, AllBut
<1>2. ASSUME NEW p \in Pods, Load(p)
      PROVE  SeenMoves /\ seen' \in Observers
  <2>. DEFINE b == seen.overlap \/ \E q \in Pods \ {p} : tick[q].at # "idle"
  <2>1. seen' = [seen EXCEPT !.overlap = b] /\ b \in BOOLEAN
    BY <1>2 DEF Load
  <2>. HIDE DEF b
  <2>2. seen' \in Observers
    BY <2>1, SeenUpdates
  <2>3. AllBut({"overlap"}) /\ seen'.overlap = b
    BY <2>1, <2>2, OneChanges DEF Observed
  <2>. QED
    BY <1>2, <2>2, <2>3 DEF SeenMoves, Overlaps, b
<1>3. ASSUME NEW p \in Pods, Fetch(p), seen' # seen
      PROVE  SeenMoves /\ seen' \in Observers
  <2>1. PICK n \in {seen.misread, seen.misread + 1},
             u \in {seen.unread \ tick[p].pending, seen.unread \cup tick[p].pending} :
           seen' = [[seen EXCEPT !.misread = n] EXCEPT !.unread = u]
    <3>1. PICK listed \in Listings, approved \in {vcs.approved, FALSE} :
             seen' = [seen EXCEPT
               !.misread = IF approved = vcs.approved THEN @ ELSE @ + 1,
               !.unread = IF listed = Ids THEN @ \ tick[p].pending ELSE @ \cup tick[p].pending]
      BY <1>3 DEF Fetch
    <3>. QED
      BY <3>1
  <2>2. n \in Nat /\ u \in SUBSET (1 .. MaxComments)
    <3>1. tick[p].at = "loaded"
      BY <1>3 DEF Fetch
    <3>2. tick[p].pending \in SUBSET (1 .. MaxComments)
      BY <3>1, Ticks DEF TypeOK, Loaded
    <3>3. /\ seen.misread \in Nat /\ seen.misread + 1 \in Nat
          /\ seen.unread \in SUBSET (1 .. MaxComments)
      BY SeenFields, <1>0, <1>14
    <3>. QED
      BY <2>1, <3>2, <3>3
  <2>4. [seen EXCEPT !.misread = n] \in Observers
    BY <2>2, SeenUpdates
  <2>5. seen' \in Observers
    BY <2>1, <2>2, <2>4, SeenUpdates
  <2>3. AllBut({"misread", "unread"}) /\ seen'.unread = u
    BY <2>1, <2>5 DEF AllBut, Observed
  <2>. QED
    BY <1>3, <2>1, <2>3, <2>5 DEF SeenMoves
<1>4. ASSUME NEW p \in Pods, DecideOtherwise(p) \/ Break(p), seen' # seen
      PROVE  SeenMoves /\ seen' \in Observers
  <2>1. CASE DecideOtherwise(p) /\ seen' = [seen EXCEPT !.ignored = seen.ignored \cup {Hand(p)}]
    <3>1. Hand(p) \in 1 .. MaxComments
      BY <2>1, HandIs DEF DecideOtherwise, InThreads
    <3>2. seen' \in Observers
      BY <2>1, <3>1, SeenUpdates
    <3>3. AllBut({"ignored"}) /\ seen'.ignored = seen.ignored \cup {Hand(p)}
      BY <2>1, <3>2, OneChanges DEF Observed
    <3>. QED
      BY <2>1, <3>2, <3>3 DEF SeenMoves
  <2>2. CASE seen' = [seen EXCEPT !.cut = seen.cut + 1]
    <3>2. seen' \in Observers
      BY <1>14, <2>2, SeenUpdates
    <3>3. AllBut({"cut"}) /\ seen'.cut = seen.cut + 1
      BY <2>2, <3>2, OneChanges DEF Observed
    <3>. QED
      BY <1>4, <3>2, <3>3 DEF SeenMoves
  <2>. QED
    BY <1>4, <2>1, <2>2 DEF DecideOtherwise, Break, Hand
<1>5. ASSUME NEW p \in Pods, Post(p) \/ Iterate(p), seen' # seen
      PROVE  SeenMoves /\ seen' \in Observers
  <2>. DEFINE i == Hand(p)
  <2>1. i \in 1 .. MaxComments /\ (tick[p].at \in Answers => seen.answers[i] = 0)
    BY <1>5, HandIs DEF Post, Iterate, InThreads, AnswerInv, Hand
  <2>2. \/ Post(p) /\ seen' = [seen EXCEPT !.answers[i] = @ + 1]
        \/ seen' = [seen EXCEPT !.answers[i] = 0]
    BY <1>5 DEF Post, Iterate, Released, Hand
  <2>3. CASE Post(p) /\ seen' = [seen EXCEPT !.answers[i] = @ + 1]
    <3>. DEFINE a == [seen.answers EXCEPT ![i] = 1]
    <3>1. seen.answers[i] = 0
      BY <2>1, <2>3 DEF Post, Answers
    <3>2. seen' = [seen EXCEPT !.answers = a] /\ a \in [1 .. MaxComments -> 0 .. 2]
      BY <2>1, <2>3, <3>1
    <3>3. seen' \in Observers
      BY <3>2, SeenUpdates
    <3>4. AllBut({"answers"}) /\ seen'.answers = a
      BY <3>2, <3>3, OneChanges DEF Observed
    <3>. QED
      BY <2>3, <3>3, <3>4 DEF SeenMoves
  <2>4. CASE seen' = [seen EXCEPT !.answers[i] = 0]
    <3>. DEFINE a == [seen.answers EXCEPT ![i] = 0]
    <3>2. seen' = [seen EXCEPT !.answers = a] /\ a \in [1 .. MaxComments -> 0 .. 2]
      BY <2>1, <2>4
    <3>3. seen' \in Observers
      BY <3>2, SeenUpdates
    <3>4. AllBut({"answers"}) /\ seen'.answers = a
      BY <3>2, <3>3, OneChanges DEF Observed
    <3>. QED
      BY <1>5, <3>3, <3>4 DEF SeenMoves
  <2>. QED
    BY <2>2, <2>3, <2>4
<1>6. ASSUME NEW p \in Pods, Ping(p)
      PROVE  SeenMoves /\ seen' \in Observers
  <2>. DEFINE s == [seen EXCEPT !.pings = seen.pings + 1]
              u == [s EXCEPT !.told = vcs.head]
  <2>1. seen' = [u EXCEPT !.merges = MergePing(p, seen.merges)]
    BY <1>6 DEF Ping
  <2>2. s \in Observers
    BY <1>14, SeenUpdates
  <2>3. u \in Observers
    BY <2>2, SeenUpdates, HeadIs
  <2>4. seen' \in Observers
    BY <2>1, <2>3, SeenUpdates, MergePingIs
  <2>5. /\ AllBut({"pings", "told", "merges"})
        /\ seen'.pings = seen.pings + 1 /\ seen'.merges = MergePing(p, seen.merges)
    BY <2>1, <2>4 DEF AllBut, Observed
  <2>. QED
    BY <1>6, <2>4, <2>5 DEF SeenMoves
<1>7. ASSUME NEW p \in Pods, Ack(p)
      PROVE  SeenMoves /\ seen' \in Observers
  <2>0. tick[p].sha \in 0 .. MaxCommits /\ seen.told \in 0 .. MaxCommits
    BY <1>7, Ticks DEF Ack, Answered, TypeOK, InThreads, Threading, Observers
  <2>1. PICK told \in 0 .. MaxCommits :
           seen' = [[seen EXCEPT !.told = told] EXCEPT !.merges = MergePing(p, seen.merges)]
    <3>1. CASE seen' = [seen EXCEPT !.told = tick[p].sha, !.merges = MergePing(p, @)]
      BY <2>0, <3>1
    <3>2. CASE seen' = [seen EXCEPT !.merges = MergePing(p, @)]
      <4>1. [seen EXCEPT !.told = seen.told] = seen
        BY DEF Observers
      <4>. QED
        BY <2>0, <3>2, <4>1
    <3>. QED
      BY <1>7, <3>1, <3>2 DEF Ack
  <2>2. [seen EXCEPT !.told = told] \in Observers
    BY SeenUpdates
  <2>3. seen' \in Observers
    BY <2>1, <2>2, SeenUpdates, MergePingIs
  <2>4. AllBut({"told", "merges"}) /\ seen'.merges = MergePing(p, seen.merges)
    BY <2>1, <2>3 DEF AllBut, Observed
  <2>. QED
    BY <1>7, <2>3, <2>4 DEF SeenMoves
<1>8. ASSUME NEW p \in Pods, Remind(p)
      PROVE  SeenMoves /\ seen' \in Observers
  <2>1. CASE seen' = [seen EXCEPT !.merges = MergePing(p, seen.merges)]
    <3>1. seen' \in Observers
      BY <2>1, SeenUpdates, MergePingIs
    <3>2. AllBut({"told", "merges"}) /\ seen'.merges = MergePing(p, seen.merges)
      BY <2>1, <3>1 DEF AllBut, Observed
    <3>. QED
      BY <1>8, <3>1, <3>2 DEF SeenMoves
  <2>2. CASE seen' = [seen EXCEPT !.nags = seen.nags + 1]
    <3>1. seen' \in Observers
      BY <1>14, <2>2, SeenUpdates
    <3>2. AllBut({"nags"}) /\ seen'.nags = seen.nags + 1
      BY <2>2, <3>1, OneChanges DEF Observed
    <3>. QED
      BY <1>8, <3>1, <3>2 DEF SeenMoves
  <2>. QED
    BY <1>8, <2>1, <2>2 DEF Remind
<1>9. CASE ChatMarks \/ RestartCommand \/ \E p \in Pods : SeesGreen(p) /\ seen' # seen
  <2>1. seen' = [seen EXCEPT !.fixes = 0]
    BY <1>9 DEF ChatMarks, RestartCommand, SeesGreen
  <2>2. seen' \in Observers
    BY <2>1, SeenUpdates
  <2>3. AllBut({"fixes"}) /\ seen'.fixes = 0
    BY <2>1, <2>2, OneChanges DEF Observed
  <2>. QED
    BY <1>9, <2>2, <2>3 DEF SeenMoves
<1>10. ASSUME NEW p \in Pods, StartFix(p), seen' # seen
       PROVE  SeenMoves /\ seen' \in Observers
  <2>1. seen' = [seen EXCEPT !.fixes = seen.fixes + 1] /\ seen.fixes + 1 \in Nat
    BY <1>10 DEF StartFix
  <2>2. seen' \in Observers
    BY <2>1, SeenUpdates
  <2>3. AllBut({"fixes"}) /\ seen'.fixes = seen.fixes + 1
    BY <2>1, <2>2, OneChanges DEF Observed
  <2>. QED
    BY <1>10, <2>2, <2>3 DEF SeenMoves
<1>11. CASE Approve
  <2>. DEFINE n == IF vcs.approved THEN seen.approvals ELSE seen.approvals + 1
  <2>1. seen' = [seen EXCEPT !.approvals = n] /\ n \in Nat
    BY <1>11 DEF Approve
  <2>. HIDE DEF n
  <2>2. seen' \in Observers
    BY <2>1, SeenUpdates
  <2>3. AllBut({"approvals"}) /\ seen'.approvals = n
    BY <2>1, <2>2, OneChanges DEF Observed
  <2>. QED
    BY <1>11, <2>2, <2>3 DEF SeenMoves, n
<1>12. ASSUME NEW p \in Pods, Stop(p)
       PROVE  SeenMoves /\ seen' \in Observers
  <2>. DEFINE n == IF tick[p].at = "idle" THEN seen.cut ELSE seen.cut + 1
              l == IF fix[p] = "idle" THEN seen.lost ELSE seen.lost + 1
  <2>1. seen' = [[seen EXCEPT !.cut = n] EXCEPT !.lost = l]
    BY <1>12 DEF Stop
  <2>2. n \in Nat /\ l \in Nat
    OBVIOUS
  <2>. HIDE DEF n, l
  <2>3. [seen EXCEPT !.cut = n] \in Observers
    BY <2>2, SeenUpdates
  <2>4. seen' \in Observers
    BY <2>1, <2>2, <2>3, SeenUpdates
  <2>5. AllBut({"cut", "lost"}) /\ seen'.cut = n /\ seen'.lost = l
    BY <2>1, <2>4 DEF AllBut, Observed
  <2>. QED
    BY <1>12, <2>4, <2>5 DEF SeenMoves, n, l
<1>13. \/ UNCHANGED seen \/ ChatMarks \/ RestartCommand \/ Approve
       \/ \E p \in Pods : \/ Load(p) \/ Ping(p) \/ Ack(p) \/ Remind(p) \/ Stop(p)
                          \/ (Fetch(p) \/ DecideOtherwise(p) \/ Break(p) \/ Post(p) \/ Iterate(p)
                              \/ SeesGreen(p) \/ StartFix(p)) /\ seen' # seen
  BY DEF Next, vars, ReviewerStep, DevOpsStep, LeaveAlone, Look, Claim, MarkPending, Persist,
     Watch, SeesOther, RetryPipeline, GiveUp, FixRuns, FixEnds, Deploy, ChatIterates, Comment,
     Delete, ChangeStatus, PipelineStarts, PipelineEnds
<1>. QED
  BY <1>1, <1>2, <1>3, <1>4, <1>5, <1>6, <1>7, <1>8, <1>9, <1>10, <1>11, <1>12, <1>13

-----------------------------------------------------------------------------
(* What a step does to GitLab and to the comments.                         *)

LEMMA VcsUpdates ==
    ASSUME NEW v \in GitLab
    PROVE  /\ \A j \in {{}, Waiting, Checking, Passed, Broken} :
                /\ [v EXCEPT !.jobs = j] \in GitLab
                /\ \A b \in BOOLEAN : [v EXCEPT !.jobs = j, !.infra = b] \in GitLab
                /\ [v EXCEPT !.of = v.head, !.jobs = j, !.infra = FALSE] \in GitLab
           /\ v.head < MaxCommits => [v EXCEPT !.head = @ + 1] \in GitLab
           /\ [v EXCEPT !.draft = FALSE] \in GitLab /\ [v EXCEPT !.status = "closed"] \in GitLab
           /\ [v EXCEPT !.approved = ~@] \in GitLab
<1>1. v.head \in 0 .. MaxCommits /\ (v.head < MaxCommits => v.head + 1 \in 1 .. MaxCommits)
  BY Naturals DEF GitLab
<1>2. \A j \in {{}, Waiting, Checking, Passed, Broken} :
                /\ [v EXCEPT !.jobs = j] \in GitLab
                /\ \A b \in BOOLEAN : [v EXCEPT !.jobs = j, !.infra = b] \in GitLab
  BY DEF GitLab
<1>3. \A j \in {{}, Waiting, Checking, Passed, Broken} :
                [v EXCEPT !.of = v.head, !.jobs = j, !.infra = FALSE] \in GitLab
  BY <1>1 DEF GitLab
<1>4. v.head < MaxCommits => [v EXCEPT !.head = @ + 1] \in GitLab
  BY <1>1 DEF GitLab
<1>5. /\ [v EXCEPT !.draft = FALSE] \in GitLab /\ [v EXCEPT !.status = "closed"] \in GitLab
      /\ [v EXCEPT !.approved = ~@] \in GitLab
  BY DEF GitLab
<1>. QED
  BY <1>2, <1>3, <1>4, <1>5

VcsKept == vcs' \in GitLab /\ vcs'.of <= vcs'.head /\ vcs'.approved = vcs.approved

LEMMA Pushed ==
    ASSUME TypeOK, Push
    PROVE  VcsKept
<1>1. vcs \in GitLab /\ vcs.of <= vcs.head /\ vcs' = [vcs EXCEPT !.head = @ + 1] /\ vcs.head < MaxCommits
  BY DEF TypeOK, Push
<1>2. vcs' \in GitLab
  BY <1>1, VcsUpdates
<1>3. vcs'.head = vcs.head + 1 /\ vcs'.of = vcs.of /\ vcs'.approved = vcs.approved
      /\ vcs.head \in Nat /\ vcs.of \in Nat
  BY <1>1 DEF GitLab
<1>. QED
  BY <1>1, <1>2, <1>3 DEF VcsKept

LEMMA VcsSteps ==
    ASSUME TypeOK, [Next]_vars
    PROVE  /\ vcs' \in GitLab /\ vcs'.of <= vcs'.head
           /\ vcs'.approved = vcs.approved \/ Approve
<1>0. vcs \in GitLab /\ vcs.of <= vcs.head /\ vcs.head \in Nat
  BY DEF TypeOK, GitLab
<1>1. CASE UNCHANGED vcs
  BY <1>0, <1>1
<1>2. CASE ChatIterates \/ \E p \in Pods : (Iterate(p) \/ FixRuns(p)) /\ vcs' # vcs
  <2>1. Push
    BY <1>2 DEF ChatIterates, Iterate, FixRuns
  <2>. QED
    BY <2>1, Pushed DEF VcsKept
<1>3. CASE \E p \in Pods : (Remind(p) \/ RetryPipeline(p)) /\ vcs' # vcs
  <2>1. \/ vcs' = [vcs EXCEPT !.jobs = IF @ = Waiting THEN Checking ELSE @]
        \/ vcs' = [vcs EXCEPT !.jobs = Checking, !.infra = FALSE]
    BY <1>3 DEF Remind, Started, RetryPipeline, RetryInGitLab
  <2>2. CASE vcs' = [vcs EXCEPT !.jobs = IF @ = Waiting THEN Checking ELSE @]
    <3>1. (IF vcs.jobs = Waiting THEN Checking ELSE vcs.jobs) \in {{}, Waiting, Checking, Passed, Broken}
      BY <1>0 DEF GitLab
    <3>2. vcs' \in GitLab
      BY <1>0, <2>2, <3>1, VcsUpdates
    <3>. QED
      BY <1>0, <2>2, <3>2 DEF GitLab
  <2>3. CASE vcs' = [vcs EXCEPT !.jobs = Checking, !.infra = FALSE]
    <3>2. vcs' \in GitLab
      BY <1>0, <2>3, VcsUpdates
    <3>. QED
      BY <1>0, <2>3, <3>2 DEF GitLab
  <2>. QED
    BY <2>1, <2>2, <2>3
<1>4. CASE ChangeStatus
  <2>1. vcs' = [vcs EXCEPT !.draft = FALSE] \/ vcs' = [vcs EXCEPT !.status = "closed"]
    BY <1>4 DEF ChangeStatus
  <2>2. vcs' \in GitLab
    BY <1>0, <2>1, VcsUpdates
  <2>. QED
    BY <1>0, <2>1, <2>2 DEF GitLab
<1>5. CASE Approve
  <2>1. vcs' = [vcs EXCEPT !.approved = ~@]
    BY <1>5 DEF Approve
  <2>2. vcs' \in GitLab
    BY <1>0, <2>1, VcsUpdates
  <2>. QED
    BY <1>0, <1>5, <2>1, <2>2 DEF GitLab
<1>6. CASE PipelineStarts
  <2>1. PICK jobs \in {Waiting, Checking} :
           vcs' = [vcs EXCEPT !.of = vcs.head, !.jobs = jobs, !.infra = FALSE]
    BY <1>6 DEF PipelineStarts
  <2>2. vcs' \in GitLab
    BY <1>0, <2>1, VcsUpdates
  <2>. QED
    BY <1>0, <2>1, <2>2 DEF GitLab
<1>7. CASE PipelineEnds
  <2>1. vcs' = [vcs EXCEPT !.jobs = Passed]
        \/ \E infra \in BOOLEAN : vcs' = [vcs EXCEPT !.jobs = Broken, !.infra = infra]
    BY <1>7 DEF PipelineEnds
  <2>2. vcs' \in GitLab
    BY <1>0, <2>1, VcsUpdates
  <2>. QED
    BY <1>0, <2>1, <2>2 DEF GitLab
<1>8. \/ UNCHANGED vcs \/ ChatIterates \/ ChangeStatus \/ Approve \/ PipelineStarts \/ PipelineEnds
      \/ \E p \in Pods : (Iterate(p) \/ FixRuns(p) \/ Remind(p) \/ RetryPipeline(p)) /\ vcs' # vcs
  BY DEF Next, vars, ReviewerStep, DevOpsStep, Load, LeaveAlone, Fetch, Look, Claim, DecideOtherwise,
     Post, MarkPending, Ping, Ack, Break, Persist, Watch, SeesGreen, SeesOther, GiveUp, StartFix,
     FixEnds, Deploy, Stop, ChatMarks, RestartCommand, Comment, Delete
<1>. QED
  BY <1>1, <1>2, <1>3, <1>4, <1>5, <1>6, <1>7, <1>8

CommentsTyped == comments \subseteq Comments /\ \A c \in comments : c.discussion <= c.id

\* A comment is added, with the next number; or one is deleted.
CommentMoves ==
    \/ UNCHANGED comments
    \/ Comment /\ comments \subseteq comments'
       /\ Cardinality(comments') = Cardinality(comments) + 1
       /\ \A c \in comments' \ comments : c.id = Cardinality(comments')
    \/ /\ Delete /\ Cardinality(comments') = Cardinality(comments)
       /\ \E c \in comments, d \in Comments :
            /\ comments' = (comments \ {c}) \cup {d}
            /\ d.gone /\ d.id = c.id /\ d.discussion = c.discussion /\ d.ask = c.ask

LEMMA CommentSteps ==
    ASSUME TypeOK, CommentInv, [Next]_vars
    PROVE  CommentMoves /\ CommentInv' /\ CommentsTyped'
<1>0. /\ comments \subseteq Comments /\ \A c \in comments : c.discussion <= c.id
      /\ IsFiniteSet(comments) /\ Cardinality(comments) \in Nat
      /\ \A c \in comments : c.id \in Nat /\ c.discussion \in Nat /\ c.id <= Cardinality(comments)
      /\ \A c, d \in comments : c.id = d.id => c = d
  BY FS_CardinalityType DEF TypeOK, CommentInv, Comments
<1>1. CASE UNCHANGED comments
  BY <1>0, <1>1 DEF CommentMoves, CommentInv, CommentsTyped
<1>2. CASE Comment
  <2>. DEFINE i == Cardinality(comments) + 1
  <2>1. i \in 1 .. MaxComments
    BY <1>0, <1>2, Naturals DEF Comment
  <2>2. PICK d \in {c.discussion : c \in comments} \cup {i}, ask \in BOOLEAN :
           comments' = comments \cup {[id |-> i, discussion |-> d, ask |-> ask, gone |-> FALSE]}
    BY <1>2 DEF Comment
  <2>. DEFINE new == [id |-> i, discussion |-> d, ask |-> ask, gone |-> FALSE]
  <2>3. d \in 1 .. MaxComments /\ d <= i
    BY <1>0, <2>1, <2>2 DEF Comments
  <2>4. new \in Comments /\ new.id = i /\ new.discussion = d
    BY <2>1, <2>3 DEF Comments
  <2>. HIDE DEF new
  <2>5. new \notin comments
    BY <1>0, <2>4
  <2>6. comments' = comments \cup {new}
    BY <2>2 DEF new
  <2>7. IsFiniteSet(comments') /\ Cardinality(comments') = i
    BY <1>0, <2>5, <2>6, FS_AddElement
  <2>8. CommentMoves
    BY <1>2, <2>4, <2>5, <2>6, <2>7 DEF CommentMoves
  <2>9. CommentsTyped'
    BY <1>0, <2>3, <2>4, <2>6 DEF CommentsTyped
  <2>10. CommentInv'
    <3>1. \A c \in comments' : c.id <= i
      BY <1>0, <2>1, <2>4, <2>6
    <3>2. \A c, e \in comments' : c.id = e.id => c = e
      BY <1>0, <2>4, <2>6
    <3>. QED
      BY <2>7, <3>1, <3>2 DEF CommentInv
  <2>. QED
    BY <2>8, <2>9, <2>10
<1>3. CASE Delete
  <2>1. PICK c \in comments : comments' = (comments \ {c}) \cup {[c EXCEPT !.gone = TRUE]}
    BY <1>3 DEF Delete
  <2>. DEFINE d == [c EXCEPT !.gone = TRUE]
  <2>2. d \in Comments /\ d.gone /\ d.id = c.id /\ d.discussion = c.discussion /\ d.ask = c.ask
    BY <1>0, <2>1 DEF Comments
  <2>. HIDE DEF d
  <2>3. comments' = (comments \ {c}) \cup {d}
    BY <2>1 DEF d
  <2>4. d \notin comments \ {c}
    BY <1>0, <2>2
  <2>5. IsFiniteSet(comments \ {c}) /\ Cardinality(comments \ {c}) = Cardinality(comments) - 1
    BY <1>0, FS_RemoveElement
  <2>6. IsFiniteSet(comments') /\ Cardinality(comments') = Cardinality(comments)
    <3>. DEFINE rest == comments \ {c}
    <3>1. IsFiniteSet(rest) /\ d \notin rest /\ comments' = rest \cup {d}
      BY <2>3, <2>4, <2>5
    <3>2. Cardinality(rest) = Cardinality(comments) - 1
      BY <2>5
    <3>. HIDE DEF rest
    <3>3. IsFiniteSet(comments') /\ Cardinality(comments') = Cardinality(rest) + 1
      BY <3>1, FS_AddElement
    <3>. QED
      BY <1>0, <3>2, <3>3
  <2>7. CommentMoves
    BY <1>3, <2>2, <2>3, <2>6 DEF CommentMoves
  <2>8. CommentsTyped'
    BY <1>0, <2>2, <2>3 DEF CommentsTyped
  <2>9. CommentInv'
    <3>1. \A e \in comments' : e.id <= Cardinality(comments)
      BY <1>0, <2>2, <2>3
    <3>2. \A e, f \in comments' : e.id = f.id => e = f
      BY <1>0, <2>2, <2>3
    <3>. QED
      BY <2>6, <3>1, <3>2 DEF CommentInv
  <2>. QED
    BY <2>7, <2>8, <2>9
<1>4. UNCHANGED comments \/ Comment \/ Delete
  BY DEF Next, vars, ReviewerStep, DevOpsStep, Load, LeaveAlone, Fetch, Look, Claim, DecideOtherwise,
     Post, Iterate, MarkPending, Ping, Ack, Remind, Break, Persist, Watch, SeesGreen, SeesOther,
     RetryPipeline, GiveUp, StartFix, FixRuns, FixEnds, Deploy, Stop, ChatIterates, ChatMarks,
     RestartCommand, ChangeStatus, Approve, PipelineStarts, PipelineEnds
<1>. QED
  BY <1>1, <1>2, <1>3, <1>4

-----------------------------------------------------------------------------
(* What a step does to the ticks and the fixes of the DevOps agents.       *)

AllWatches == {NoWatch} \cup Watches
Fixes == {"idle", "running", "pushed", "failed"}

DropsWatch(p) == watch'[p] = NoWatch /\ \A q \in Pods : q # p => watch'[q] = watch[q]

Sights(p) ==
    SeesGreen(p) \/ SeesOther(p) \/ RetryPipeline(p) \/ GiveUp(p) \/ StartFix(p)

WatchMoves ==
    \/ UNCHANGED watch
    \/ \E p \in Pods :
        /\ Watch(p) /\ watch[p] = NoWatch
        /\ watch'[p].at = "loaded" /\ watch'[p].attempts = row.attempts /\ watch'[p].infra = row.infra
        /\ \A q \in Pods : q # p => watch'[q] = watch[q]
    \/ \E p \in Pods : (Sights(p) \/ Stop(p)) /\ DropsWatch(p)

LEMMA WatchSteps ==
    ASSUME TypeOK, [Next]_vars
    PROVE  watch' \in [Pods -> AllWatches] /\ WatchMoves
<1>0. watch \in [Pods -> AllWatches] /\ NoWatch \in AllWatches
  BY DEF TypeOK, AllWatches
<1>1. CASE UNCHANGED watch
  BY <1>0, <1>1 DEF WatchMoves
<1>2. ASSUME NEW p \in Pods, Watch(p)
      PROVE  watch' \in [Pods -> AllWatches] /\ WatchMoves
  <2>. DEFINE owes == row.pending # {}
              w == [at |-> "loaded", attempts |-> row.attempts, infra |-> row.infra,
                    gaveUp |-> row.gaveUp, owes |-> owes, seen |-> row.seen]
  <2>1. watch' = [watch EXCEPT ![p] = w] /\ watch[p].at = "idle"
    BY <1>2 DEF Watch
  <2>2. w \in Watches /\ w.at = "loaded" /\ w.attempts = row.attempts /\ w.infra = row.infra
    BY DEF TypeOK, Rows, Watches
  <2>3. watch[p] = NoWatch
    BY <1>0, <2>1 DEF AllWatches, Watches
  <2>. HIDE DEF w
  <2>. QED
    BY <1>0, <1>2, <2>1, <2>2, <2>3 DEF WatchMoves, AllWatches
<1>3. ASSUME NEW p \in Pods, Sights(p) \/ Stop(p)
      PROVE  watch' \in [Pods -> AllWatches] /\ WatchMoves
  <2>1. watch' = [watch EXCEPT ![p] = NoWatch]
    BY <1>3 DEF Sights, SeesGreen, SeesOther, RetryPipeline, GiveUp, StartFix, Stop, Sees
  <2>. QED
    BY <1>0, <1>3, <2>1 DEF WatchMoves, DropsWatch
<1>4. UNCHANGED watch \/ \E p \in Pods : Watch(p) \/ Sights(p) \/ Stop(p)
  BY DEF Next, vars, ReviewerStep, DevOpsStep, Sights, Load, LeaveAlone, Fetch, Look, Claim,
     DecideOtherwise, Post, Iterate, MarkPending, Ping, Ack, Remind, Break, Persist, FixRuns, FixEnds,
     Deploy, ChatIterates, ChatMarks, RestartCommand, Comment, Delete, ChangeStatus, Approve,
     PipelineStarts, PipelineEnds
<1>. QED
  BY <1>1, <1>2, <1>3, <1>4

FixMoves ==
    \/ UNCHANGED fix
    \/ \E p \in Pods : StartFix(p) /\ fix' = [fix EXCEPT ![p] = "running"] /\ fix[p] = "idle"
                       /\ seen'.fixes = seen.fixes + 1
    \/ \E p \in Pods : FixRuns(p) /\ fix[p] = "running"
                       /\ \E s \in {"pushed", "failed"} : fix' = [fix EXCEPT ![p] = s]
    \/ \E p \in Pods : FixEnds(p) /\ fix[p] # "idle" /\ fix' = [fix EXCEPT ![p] = "idle"]
    \/ \E p \in Pods : Stop(p) /\ fix' = [fix EXCEPT ![p] = "idle"]

LEMMA FixSteps ==
    ASSUME TypeOK, [Next]_vars
    PROVE  fix' \in [Pods -> Fixes] /\ FixMoves
<1>0. fix \in [Pods -> Fixes] /\ seen \in Observers
  BY DEF TypeOK, Fixes
<1>1. CASE UNCHANGED fix
  BY <1>0, <1>1 DEF FixMoves
<1>2. ASSUME NEW p \in Pods, StartFix(p), fix' # fix
      PROVE  fix' \in [Pods -> Fixes] /\ FixMoves
  <2>1. fix' = [fix EXCEPT ![p] = "running"] /\ fix[p] = "idle" /\ seen' = [seen EXCEPT !.fixes = @ + 1]
    BY <1>2 DEF StartFix
  <2>2. seen'.fixes = seen.fixes + 1
    BY <1>0, <2>1 DEF Observers
  <2>. QED
    BY <1>0, <1>2, <2>1, <2>2 DEF FixMoves, Fixes
<1>3. ASSUME NEW p \in Pods, FixRuns(p)
      PROVE  fix' \in [Pods -> Fixes] /\ FixMoves
  <2>1. fix[p] = "running" /\ \E s \in {"pushed", "failed"} : fix' = [fix EXCEPT ![p] = s]
    BY <1>3 DEF FixRuns
  <2>. QED
    BY <1>0, <1>3, <2>1 DEF FixMoves, Fixes
<1>4. ASSUME NEW p \in Pods, FixEnds(p) \/ Stop(p)
      PROVE  fix' \in [Pods -> Fixes] /\ FixMoves
  BY <1>0, <1>4 DEF FixEnds, Stop, FixMoves, Fixes
<1>5. UNCHANGED fix \/ \E p \in Pods : (StartFix(p) /\ fix' # fix) \/ FixRuns(p) \/ FixEnds(p) \/ Stop(p)
  BY DEF Next, vars, ReviewerStep, DevOpsStep, Load, LeaveAlone, Fetch, Look, Claim,
     DecideOtherwise, Post, Iterate, MarkPending, Ping, Ack, Remind, Break, Persist, Watch, SeesGreen,
     SeesOther, RetryPipeline, GiveUp, Deploy, ChatIterates, ChatMarks, RestartCommand, Comment,
     Delete, ChangeStatus, Approve, PipelineStarts, PipelineEnds
<1>. QED
  BY <1>1, <1>2, <1>3, <1>4, <1>5

-----------------------------------------------------------------------------
(* The budget of auto-fixes and of retries.                                *)

LEMMA PodSets ==
    ASSUME NEW S \in SUBSET Pods
    PROVE  /\ IsFiniteSet(S) /\ Cardinality(S) \in Nat /\ Cardinality(S) <= Cardinality(Pods)
           /\ \A p : /\ Cardinality(S \cup {p}) = IF p \in S THEN Cardinality(S) ELSE Cardinality(S) + 1
                     /\ Cardinality(S \ {p}) = IF p \in S THEN Cardinality(S) - 1 ELSE Cardinality(S)
BY Naturals, FS_Subset, FS_CardinalityType, FS_AddElement, FS_RemoveElement

LEMMA FixSets ==
    InFlight \in SUBSET Pods /\ MayFix \in SUBSET Pods /\ MayRetry \in SUBSET Pods
BY DEF InFlight, MayFix, MayRetry

LEMMA Watched ==
    ASSUME TypeOK, NEW p \in Pods, Watch(p)
    PROVE  /\ MayFix' = IF row.attempts < MaxAutofix THEN MayFix \cup {p} ELSE MayFix
           /\ MayRetry' = IF row.infra < MaxInfra THEN MayRetry \cup {p} ELSE MayRetry
<1>1. /\ watch[p] = NoWatch
      /\ watch'[p].at = "loaded" /\ watch'[p].attempts = row.attempts /\ watch'[p].infra = row.infra
      /\ \A q \in Pods : q # p => watch'[q] = watch[q]
  BY DEF Watch, TypeOK, Watches
<1>2. p \notin MayFix /\ p \notin MayRetry
  BY <1>1 DEF MayFix, MayRetry, NoWatch
<1>3. /\ \A q \in Pods \ {p} : (q \in MayFix' <=> q \in MayFix) /\ (q \in MayRetry' <=> q \in MayRetry)
      /\ p \in MayFix' <=> row.attempts < MaxAutofix
      /\ p \in MayRetry' <=> row.infra < MaxInfra
  BY <1>1 DEF MayFix, MayRetry
<1>4. MayFix' \in SUBSET Pods /\ MayRetry' \in SUBSET Pods
  BY DEF MayFix, MayRetry
<1>. QED
  BY <1>2, <1>3, <1>4, FixSets

LEMMA Dropped ==
    ASSUME TypeOK, NEW p \in Pods, Sights(p) \/ Stop(p)
    PROVE  MayFix' = MayFix \ {p} /\ MayRetry' = MayRetry \ {p}
<1>1. DropsWatch(p)
  BY DEF TypeOK, DropsWatch, Sights, SeesGreen, SeesOther, RetryPipeline, GiveUp, StartFix, Stop, Sees
<1>2. /\ \A q \in Pods \ {p} : (q \in MayFix' <=> q \in MayFix) /\ (q \in MayRetry' <=> q \in MayRetry)
      /\ p \notin MayFix' /\ p \notin MayRetry'
  BY <1>1 DEF MayFix, MayRetry, DropsWatch, NoWatch
<1>3. MayFix' \in SUBSET Pods /\ MayRetry' \in SUBSET Pods
  BY DEF MayFix, MayRetry
<1>. QED
  BY <1>2, <1>3, FixSets

FixNumbers ==
    /\ seen.fixes \in Nat /\ seen.lost \in Nat /\ row.attempts \in Nat /\ row.infra \in Nat
    /\ \A S \in {InFlight, MayFix, MayRetry} :
        Cardinality(S) \in Nat /\ Cardinality(S) <= Cardinality(Pods)

LEMMA FixNumbersAre == ASSUME TypeOK PROVE FixNumbers
<1>1. seen.fixes \in Nat /\ seen.lost \in Nat /\ row.attempts \in Nat /\ row.infra \in Nat
  BY DEF TypeOK, Observers, Rows
<1>2. \A S \in {InFlight, MayFix, MayRetry} :
        Cardinality(S) \in Nat /\ Cardinality(S) <= Cardinality(Pods)
  BY FixSets, PodSets
<1>. QED
  BY <1>1, <1>2 DEF FixNumbers

LEMMA DropCounts ==
    ASSUME TypeOK, NEW p \in Pods, Sights(p) \/ Stop(p)
    PROVE  /\ Cardinality(MayFix') \in {Cardinality(MayFix), Cardinality(MayFix) - 1}
           /\ Cardinality(MayRetry') \in {Cardinality(MayRetry), Cardinality(MayRetry) - 1}
           /\ p \in MayFix => Cardinality(MayFix') = Cardinality(MayFix) - 1
           /\ p \in MayRetry => Cardinality(MayRetry') = Cardinality(MayRetry) - 1
<1>1. MayFix' = MayFix \ {p} /\ MayRetry' = MayRetry \ {p}
  BY Dropped
<1>2. Cardinality(MayFix \ {p}) = IF p \in MayFix THEN Cardinality(MayFix) - 1 ELSE Cardinality(MayFix)
  BY FixSets, PodSets
<1>3. Cardinality(MayRetry \ {p}) = IF p \in MayRetry THEN Cardinality(MayRetry) - 1 ELSE Cardinality(MayRetry)
  BY FixSets, PodSets
<1>. QED
  BY <1>1, <1>2, <1>3

LEMMA FixInvSteps ==
    ASSUME TypeOK, AnswerInv, FixInv, [Next]_vars
    PROVE  FixInv'
<1>. DEFINE a == row.attempts
            n == row.infra
            f == Cardinality(InFlight)
            m == Cardinality(MayFix)
            r == Cardinality(MayRetry)
<1>0. /\ seen.fixes \in Nat /\ seen.lost \in Nat /\ a \in Nat /\ n \in Nat
      /\ f \in Nat /\ m \in Nat /\ r \in Nat
      /\ f <= Cardinality(Pods) /\ m <= Cardinality(Pods) /\ r <= Cardinality(Pods)
  BY FixNumbersAre DEF FixNumbers
<1>. USE Naturals, <1>0
<1>01. /\ seen.fixes <= a + f + seen.lost
       /\ a + f + m <= MaxAutofix + 2 * Cardinality(Pods) - 1
       /\ n + r <= MaxInfra + Cardinality(Pods) - 1
  BY DEF FixInv
<1>02. row \in Rows /\ seen \in Observers
  BY DEF TypeOK
<1>1. ASSUME NEW p \in Pods, FixEnds(p)
      PROVE  FixInv'
  <2>1. p \in InFlight /\ InFlight' = InFlight \ {p} /\ MayFix' = MayFix /\ MayRetry' = MayRetry
        /\ seen' = seen /\ row'.attempts = a + 1 /\ row'.infra = n
    BY <1>1, <1>02 DEF FixEnds, TypeOK, InFlight, MayFix, MayRetry, Rows
  <2>2. Cardinality(InFlight') = f - 1
    BY <2>1, FixSets, PodSets
  <2>. HIDE DEF a, n, f, m, r
  <2>. QED
    BY <1>01, <2>1, <2>2 DEF FixInv, m, r
<1>2. ASSUME NEW p \in Pods, StartFix(p)
      PROVE  FixInv'
  <2>1. p \in MayFix /\ row' = row
    <3>1. watch[p].at = "loaded" /\ ~(watch[p].attempts >= MaxAutofix) /\ row' = row
      BY <1>2 DEF StartFix, Sees, UsedUp
    <3>2. watch[p].attempts \in Nat
      BY <3>1, Ticks DEF TypeOK, Watches
    <3>. QED
      BY <3>1, <3>2 DEF MayFix
  <2>2. Cardinality(MayFix') = m - 1 /\ Cardinality(MayRetry') \in {r, r - 1}
    BY <1>2, <2>1, DropCounts DEF Sights
  <2>3. CASE UNCHANGED <<fix, seen>>
    <3>1. InFlight' = InFlight /\ seen' = seen
      BY <2>3 DEF InFlight
    <3>. HIDE DEF a, n, m, r
    <3>. QED
      BY <1>01, <2>1, <2>2, <3>1 DEF FixInv, a, n
  <2>4. CASE ~UNCHANGED <<fix, seen>>
    <3>1. fix[p] = "idle" /\ fix' = [fix EXCEPT ![p] = "running"] /\ seen' = [seen EXCEPT !.fixes = @ + 1]
      BY <1>2, <2>4 DEF StartFix
    <3>2. p \notin InFlight /\ InFlight' = InFlight \cup {p}
      BY <3>1 DEF InFlight, TypeOK
    <3>3. Cardinality(InFlight') = f + 1
      BY <3>2, FixSets, PodSets
    <3>4. seen'.fixes = seen.fixes + 1 /\ seen'.lost = seen.lost
      BY <1>02, <3>1 DEF Observers
    <3>. HIDE DEF a, n, f, m, r
    <3>. QED
      BY <1>01, <2>1, <2>2, <3>3, <3>4 DEF FixInv, a, n
  <2>. QED
    BY <2>3, <2>4
<1>3. ASSUME NEW p \in Pods, RetryPipeline(p)
      PROVE  FixInv'
  <2>1. p \in MayRetry /\ row'.attempts = a /\ row'.infra = n + 1 /\ seen' = seen /\ InFlight' = InFlight
    BY <1>3, <1>02 DEF RetryPipeline, Sees, MayRetry, TypeOK, InFlight, Rows
  <2>2. Cardinality(MayRetry') = r - 1 /\ Cardinality(MayFix') \in {m, m - 1}
    BY <1>3, <2>1, DropCounts DEF Sights
  <2>. HIDE DEF a, n, m, r
  <2>. QED
    BY <1>01, <2>1, <2>2 DEF FixInv
\* The counters are kept or start afresh.
<1>4. ASSUME \/ row' = row /\ seen' = seen
             \/ row'.attempts = a /\ row'.infra = n /\ seen' = seen
             \/ Afresh,
             Cardinality(InFlight') = f,
             Cardinality(MayFix') \in {m, m - 1}, Cardinality(MayRetry') \in {r, r - 1}
      PROVE  FixInv'
  <2>1. seen'.fixes <= row'.attempts + f + seen'.lost /\ row'.attempts <= a /\ row'.infra <= n
        /\ row'.attempts \in Nat /\ row'.infra \in Nat
    <3>1. CASE Afresh
      <4>1. SeenMoves => seen'.lost \in Nat
        BY <1>02, SeenFields DEF SeenMoves, AllBut
      <4>2. seen' \in Observers
        BY SeenSteps
      <4>. QED
        BY <3>1, <4>2, SeenFields DEF Afresh
    <3>2. CASE ~Afresh
      BY <1>4, <1>01, <3>2
    <3>. QED
      BY <3>1, <3>2
  <2>. HIDE DEF a, n, f, m, r
  <2>. QED
    BY <1>01, <1>4, <2>1 DEF FixInv
<1>5. ASSUME NEW p \in Pods, SeesGreen(p) \/ SeesOther(p) \/ GiveUp(p)
      PROVE  FixInv'
  <2>1. InFlight' = InFlight
    BY <1>5 DEF SeesGreen, SeesOther, GiveUp, InFlight
  <2>2. Cardinality(MayFix') \in {m, m - 1} /\ Cardinality(MayRetry') \in {r, r - 1}
    BY <1>5, DropCounts DEF Sights
  <2>3. \/ row' = row /\ seen' = seen
        \/ row'.attempts = a /\ row'.infra = n /\ seen' = seen
        \/ Afresh
    BY <1>5, <1>02 DEF SeesGreen, SeesOther, GiveUp, Afresh, Rows, ResetCounters, Observers
  <2>. QED
    BY <1>4, <2>1, <2>2, <2>3
<1>6. CASE ChatMarks \/ RestartCommand
  <2>1. InFlight' = InFlight /\ MayFix' = MayFix /\ MayRetry' = MayRetry
    BY <1>6 DEF ChatMarks, RestartCommand, InFlight, MayFix, MayRetry
  <2>2. Afresh
    BY <1>6, <1>02 DEF ChatMarks, RestartCommand, Afresh, Rows, ResetCounters, Observers
  <2>. QED
    BY <1>4, <2>1, <2>2
<1>7. ASSUME NEW p \in Pods, Watch(p)
      PROVE  FixInv'
  <2>1. row' = row /\ seen' = seen /\ InFlight' = InFlight
    BY <1>7 DEF Watch, InFlight
  <2>2. /\ MayFix' = IF a < MaxAutofix THEN MayFix \cup {p} ELSE MayFix
        /\ MayRetry' = IF n < MaxInfra THEN MayRetry \cup {p} ELSE MayRetry
    BY <1>7, Watched
  <2>3. /\ Cardinality(MayFix') = m \/ a < MaxAutofix
        /\ Cardinality(MayRetry') = r \/ n < MaxInfra
    BY <2>2
  <2>4. /\ Cardinality(MayFix') \in Nat /\ Cardinality(MayFix') <= Cardinality(Pods)
        /\ Cardinality(MayRetry') \in Nat /\ Cardinality(MayRetry') <= Cardinality(Pods)
    <3>1. MayFix' \in SUBSET Pods /\ MayRetry' \in SUBSET Pods
      BY DEF MayFix, MayRetry
    <3>. QED
      BY <3>1, PodSets
  <2>5. a + f + Cardinality(MayFix') <= MaxAutofix + 2 * Cardinality(Pods) - 1
    <3>. HIDE DEF a, f, m
    <3>. QED
      BY <1>01, <2>3, <2>4
  <2>6. n + Cardinality(MayRetry') <= MaxInfra + Cardinality(Pods) - 1
    <3>. HIDE DEF n, r
    <3>. QED
      BY <1>01, <2>3, <2>4
  <2>. QED
    BY <1>01, <2>1, <2>5, <2>6 DEF FixInv
<1>8. ASSUME NEW p \in Pods, Stop(p)
      PROVE  FixInv'
  <2>1. /\ row' = row /\ InFlight' = InFlight \ {p} /\ seen'.fixes = seen.fixes
        /\ seen'.lost = IF p \in InFlight THEN seen.lost + 1 ELSE seen.lost
    <3>1. /\ row' = row /\ fix' = [fix EXCEPT ![p] = "idle"]
          /\ p \in InFlight <=> fix[p] # "idle"
      BY <1>8 DEF Stop, InFlight
    <3>2. InFlight' = InFlight \ {p}
      <4>1. fix'[p] = "idle" /\ \A q \in Pods : q # p => fix'[q] = fix[q]
        BY <3>1 DEF TypeOK
      <4>. QED
        BY <4>1 DEF InFlight
    <3>3. /\ seen'.fixes = seen.fixes
          /\ seen'.lost = IF fix[p] = "idle" THEN seen.lost ELSE seen.lost + 1
      <4>. DEFINE c == IF tick[p].at = "idle" THEN seen.cut ELSE seen.cut + 1
                  l == IF fix[p] = "idle" THEN seen.lost ELSE seen.lost + 1
      <4>1. seen' = [seen EXCEPT !.cut = c, !.lost = l]
        BY <1>8 DEF Stop
      <4>. HIDE DEF c, l
      <4>2. seen'.fixes = seen.fixes /\ seen'.lost = l
        BY <1>02, <4>1 DEF Observers
      <4>. QED
        BY <4>2 DEF l
    <3>. QED
      BY <3>1, <3>2, <3>3
  <2>2. Cardinality(MayFix') \in {m, m - 1} /\ Cardinality(MayRetry') \in {r, r - 1}
    BY <1>8, DropCounts
  <2>3. Cardinality(InFlight') = IF p \in InFlight THEN f - 1 ELSE f
    BY <2>1, FixSets, PodSets
  <2>. HIDE DEF a, n, f, m, r
  <2>. QED
    BY <1>01, <2>1, <2>2, <2>3 DEF FixInv, a, n
<1>9. CASE \/ UNCHANGED vars \/ ChatIterates \/ Comment \/ Delete \/ ChangeStatus \/ Approve
           \/ PipelineStarts \/ PipelineEnds
           \/ \E p \in Pods : ReviewerStep(p) \/ FixRuns(p) \/ Deploy(p)
  <2>1. MayFix' = MayFix /\ MayRetry' = MayRetry
    BY <1>9 DEF MayFix, MayRetry, vars, ChatIterates, Comment, Delete, ChangeStatus, Approve,
       PipelineStarts, PipelineEnds, ReviewerStep, Load, LeaveAlone, Fetch, Look, Claim,
       DecideOtherwise, Post, Iterate, MarkPending, Ping, Ack, Remind, Break, Persist, FixRuns, Deploy
  <2>2. InFlight' = InFlight
    <3>1. CASE \E p \in Pods : FixRuns(p)
      BY <3>1 DEF FixRuns, InFlight, TypeOK
    <3>2. CASE UNCHANGED fix
      BY <3>2 DEF InFlight
    <3>. QED
      BY <1>9, <3>1, <3>2 DEF vars, ChatIterates, Comment, Delete, ChangeStatus, Approve,
         PipelineStarts, PipelineEnds, ReviewerStep, Load, LeaveAlone, Fetch, Look, Claim,
         DecideOtherwise, Post, Iterate, MarkPending, Ping, Ack, Remind, Break, Persist, Deploy
  <2>3. seen'.fixes = seen.fixes /\ seen'.lost = seen.lost
    <3>1. UNCHANGED seen \/ Approve \/ \E p \in Pods : ReviewerStep(p)
      BY <1>9 DEF vars, ChatIterates, Comment, Delete, ChangeStatus, PipelineStarts, PipelineEnds,
         FixRuns, Deploy
    <3>2. ASSUME NEW p \in Pods, Fetch(p)
          PROVE  seen'.fixes = seen.fixes /\ seen'.lost = seen.lost
      <4>1. PICK m2, u2 : seen' = [seen EXCEPT !.misread = m2, !.unread = u2]
        BY <3>2, FetchSees
      <4>. QED
        BY <1>02, <4>1 DEF Observers
    <3>. QED
      BY <1>02, <3>1, <3>2 DEF Approve, Observers, ReviewerStep, Load, LeaveAlone, Look,
         Claim, DecideOtherwise, Post, Released, Iterate, MarkPending, Ping, Ack, Remind, Break, Persist
  <2>4. row'.attempts = a /\ row'.infra = n
    <3>1. UNCHANGED row \/ \E p \in Pods : ReviewerStep(p)
      BY <1>9 DEF vars, ChatIterates, Comment, Delete, ChangeStatus, Approve, PipelineStarts,
         PipelineEnds, FixRuns, Deploy
    <3>2. ASSUME NEW p \in Pods, ReviewerStep(p)
          PROVE  row'.attempts = a /\ row'.infra = n
      <4>1. CASE Persist(p)
        BY <4>1, Ticks, SavedIs DEF Persist, TypeOK
      <4>. QED
        BY <1>02, <3>2, <4>1 DEF Rows, ReviewerStep, Load, LeaveAlone, Fetch, Look, Claim,
           DecideOtherwise, Post, Iterate, MarkPending, Ping, Ack, Remind, Break
    <3>. QED
      BY <3>1, <3>2
  <2>. QED
    BY <1>01, <2>1, <2>2, <2>3, <2>4 DEF FixInv
<1>. QED
  BY <1>1, <1>2, <1>3, <1>5, <1>6, <1>7, <1>8, <1>9 DEF Next, DevOpsStep

-----------------------------------------------------------------------------
(* Type correctness.                                                       *)

LEMMA Spent ==
    ASSUME TypeOK, NEW what \in Bounds, Spend(what)
    PROVE  left' \in [Bounds -> Nat]
<1>1. left[what] \in Nat /\ left[what] > 0 /\ left' = [left EXCEPT ![what] = left[what] - 1]
  BY DEF Spend, TypeOK
<1>2. left[what] - 1 \in Nat
  BY <1>1
<1>. QED
  BY <1>1, <1>2 DEF TypeOK

LEMMA LeftSteps ==
    ASSUME TypeOK, [Next]_vars
    PROVE  left' \in [Bounds -> Nat]
<1>1. CASE UNCHANGED left
  BY <1>1 DEF TypeOK
<1>2. CASE \E what \in Bounds : Spend(what)
  BY <1>2, Spent
<1>. DEFINE Spends == UNCHANGED left \/ \E what \in Bounds : Spend(what)
<1>3. ASSUME NEW p \in Pods, Fetch(p) \/ StartFix(p)
      PROVE  Spends
  BY <1>3 DEF Fetch, StartFix, Calm, Bounds
<1>4. ASSUME NEW p \in Pods, NEW answer \in Answers, Claim(p, answer)
      PROVE  Spends
  BY <1>4 DEF Claim, SeemsMovedOn, Calm, Bounds
<1>5. ASSUME Comment
      PROVE  Spends
  BY <1>5 DEF Comment, Bounds
<1>6. ASSUME NEW p \in Pods,
             \/ Load(p) \/ LeaveAlone(p) \/ Look(p) \/ DecideOtherwise(p) \/ Post(p) \/ Iterate(p)
             \/ MarkPending(p) \/ Ping(p) \/ Ack(p) \/ Remind(p) \/ Break(p) \/ Persist(p)
      PROVE  Spends
  BY <1>6 DEF Load, LeaveAlone, Look, DecideOtherwise, Post, Iterate, MarkPending, Ping, Ack,
     Remind, Break, Persist, Push, Calm, Bounds
<1>7. ASSUME NEW p \in Pods,
             \/ Watch(p) \/ SeesGreen(p) \/ SeesOther(p) \/ RetryPipeline(p) \/ GiveUp(p)
             \/ FixRuns(p) \/ FixEnds(p) \/ Deploy(p) \/ Stop(p)
      PROVE  Spends
  BY <1>7 DEF Watch, SeesGreen, SeesOther, RetryPipeline, RetryInGitLab, GiveUp, FixRuns, Push,
     FixEnds, Deploy, Stop, Calm, Bounds
<1>8. ASSUME \/ ChatIterates \/ ChatMarks \/ RestartCommand \/ Delete \/ ChangeStatus \/ Approve
             \/ PipelineStarts \/ PipelineEnds \/ UNCHANGED vars
      PROVE  Spends
  BY <1>8 DEF vars, ChatIterates, Push, ChatMarks, RestartCommand, Delete, ChangeStatus, Approve,
     PipelineStarts, PipelineEnds, Calm, Bounds
<1>9. Spends
  <2>. HIDE DEF Spends
  <2>. QED
    BY <1>3, <1>4, <1>5, <1>6, <1>7, <1>8 DEF Next, ReviewerStep, DevOpsStep
<1>. QED
  BY <1>1, <1>2, <1>9

\* A claim is made for the comment in hand, or given back.
LEMMA ClaimSteps ==
    ASSUME TypeOK, AnswerInv, [Next]_vars
    PROVE  claims' \subseteq 1 .. MaxComments
<1>1. CASE UNCHANGED claims
  BY <1>1 DEF TypeOK
<1>2. ASSUME NEW p \in Pods, Claims(p) \/ Post(p) \/ Iterate(p)
      PROVE  claims' \subseteq 1 .. MaxComments
  <2>1. Hand(p) \in 1 .. MaxComments
    BY <1>2, HandIs DEF Claims, Claim, Post, Iterate, InThreads
  <2>2. claims' \in {claims, claims \cup {Hand(p)}, claims \ {Hand(p)}}
    BY <1>2 DEF Claims, Claim, TakeClaim, Post, Iterate, Released, Hand
  <2>. QED
    BY <2>1, <2>2 DEF TypeOK
<1>3. UNCHANGED claims \/ \E p \in Pods : Claims(p) \/ Post(p) \/ Iterate(p)
  BY DEF Claims, Next, vars, ReviewerStep, DevOpsStep, Load, LeaveAlone, Fetch, Look,
     DecideOtherwise, MarkPending, Ping, Ack, Remind, Break, Persist, Watch, SeesGreen,
     SeesOther, RetryPipeline, GiveUp, StartFix, FixRuns, FixEnds, Deploy, Stop,
     ChatIterates, ChatMarks, RestartCommand, Comment, Delete, ChangeStatus, Approve, PipelineStarts,
     PipelineEnds
<1>. QED
  BY <1>1, <1>2, <1>3

LEMMA ChatSteps ==
    ASSUME TypeOK, [Next]_vars
    PROVE  chat' \in 0 .. MaxCommits
<1>0. chat \in 0 .. MaxCommits /\ None \in 0 .. MaxCommits /\ vcs.head \in 1 .. MaxCommits
  BY Naturals DEF TypeOK, None, GitLab
<1>1. CASE ChatIterates
  <2>1. vcs.head < MaxCommits /\ chat' = vcs.head + 1
    BY <1>1 DEF ChatIterates, Push
  <2>. QED
    BY <1>0, <2>1, Naturals
<1>2. UNCHANGED chat \/ chat' = None \/ ChatIterates
  BY DEF Next, vars, ReviewerStep, DevOpsStep, Load, LeaveAlone, Fetch, Look, Claim,
     DecideOtherwise, Post, Iterate, MarkPending, Ping, Ack, Remind, Break, Persist, Watch, SeesGreen,
     SeesOther, RetryPipeline, GiveUp, StartFix, FixRuns, FixEnds, Deploy, Stop,
     ChatMarks, RestartCommand, Comment, Delete, ChangeStatus, Approve, PipelineStarts, PipelineEnds
<1>. QED
  BY <1>0, <1>1, <1>2

\* A pod that does not run does nothing.
Down(p) == tick[p] = NoTick /\ watch[p] = NoWatch /\ fix[p] = "idle"

LEMMA UpSteps ==
    ASSUME TypeOK, AnswerInv, [Next]_vars
    PROVE  up' \subseteq Pods /\ \A p \in Pods \ up' : Down(p)'
<1>0. up \subseteq Pods /\ \A p \in Pods \ up : Down(p)
  BY DEF TypeOK, Down
<1>1. ASSUME NEW p \in Pods, Deploy(p)
      PROVE  up' \subseteq Pods /\ \A q \in Pods \ up' : Down(q)'
  <2>1. up' = up \cup {p} /\ UNCHANGED <<tick, watch, fix>>
    BY <1>1 DEF Deploy
  <2>. QED
    BY <1>0, <2>1 DEF Down
<1>2. ASSUME NEW p \in Pods, Stop(p)
      PROVE  up' \subseteq Pods /\ \A q \in Pods \ up' : Down(q)'
  <2>1. /\ up' \in {up, up \ {p}} /\ tick' = [tick EXCEPT ![p] = NoTick]
        /\ watch' = [watch EXCEPT ![p] = NoWatch] /\ fix' = [fix EXCEPT ![p] = "idle"]
    BY <1>2 DEF Stop, EndTick
  <2>2. Down(p)' /\ \A q \in Pods : q # p => (Down(q) => Down(q)')
    BY <2>1 DEF Down, TypeOK
  <2>. QED
    BY <1>0, <2>1, <2>2
\* A step of p finds p up, and moves p only.
<1>3. ASSUME NEW p \in Pods, ReviewerStep(p) \/ DevOpsStep(p) \/ FixRuns(p) \/ FixEnds(p)
      PROVE  up' \subseteq Pods /\ \A q \in Pods \ up' : Down(q)'
  <2>1. p \in up
    <3>1. CASE Load(p) \/ Watch(p)
      BY <3>1 DEF Load, Watch
    <3>2. CASE tick[p].at # "idle" \/ watch[p].at # "idle" \/ fix[p] # "idle"
      BY <1>0, <3>2, Ticks DEF Down
    <3>. QED
      BY <1>3, <3>1, <3>2 DEF ReviewerStep, DevOpsStep, LeaveAlone, Fetch, Look, Claim, DecideOtherwise,
         Post, Iterate, MarkPending, Ping, Ack, Remind, Answered, Break, Persist, SeesGreen, SeesOther,
         RetryPipeline, GiveUp, StartFix, Sees, FixRuns, FixEnds
  <2>2. up' = up
    BY <1>3 DEF ReviewerStep, DevOpsStep, Load, LeaveAlone, Fetch, Look, Claim,
       DecideOtherwise, Post, Iterate, MarkPending, Ping, Ack, Remind, Break, Persist, Watch, SeesGreen,
       SeesOther, RetryPipeline, GiveUp, StartFix, FixRuns, FixEnds
  <2>3. \A q \in Pods : q # p => tick'[q] = tick[q]
    <3>1. CASE ReviewerStep(p)
      BY <3>1, ReviewerMoves DEF Alone
    <3>2. CASE ~ReviewerStep(p)
      BY <1>3, <3>2 DEF DevOpsStep, Watch, SeesGreen, SeesOther, RetryPipeline, GiveUp, StartFix,
         FixRuns, FixEnds
    <3>. QED
      BY <3>1, <3>2
  <2>4. \A q \in Pods : q # p => watch'[q] = watch[q] /\ fix'[q] = fix[q]
    <3>1. CASE ReviewerStep(p)
      BY <3>1 DEF ReviewerStep, Load, LeaveAlone, Fetch, Look, Claim, DecideOtherwise, Post, Iterate,
         MarkPending, Ping, Ack, Remind, Break, Persist
    <3>2. CASE ~ReviewerStep(p)
      <4>1. UNCHANGED watch \/ \E w : watch' = [watch EXCEPT ![p] = w]
        BY <1>3, <3>2 DEF DevOpsStep, Watch, SeesGreen, SeesOther, RetryPipeline, GiveUp, StartFix,
           Sees, FixRuns, FixEnds
      <4>2. UNCHANGED fix \/ \E f : fix' = [fix EXCEPT ![p] = f]
        BY <1>3, <3>2 DEF DevOpsStep, Watch, SeesGreen, SeesOther, RetryPipeline, GiveUp, StartFix,
           Sees, FixRuns, FixEnds
      <4>. QED
        BY <4>1, <4>2 DEF TypeOK
    <3>. QED
      BY <3>1, <3>2
  <2>. QED
    BY <1>0, <2>1, <2>2, <2>3, <2>4 DEF Down
<1>4. CASE UNCHANGED <<up, tick, watch, fix>>
  BY <1>0, <1>4 DEF Down
<1>. QED
  BY <1>1, <1>2, <1>3, <1>4 DEF Next, vars, ChatIterates, ChatMarks, RestartCommand, Comment, Delete,
     ChangeStatus, Approve, PipelineStarts, PipelineEnds

LEMMA TypeSteps ==
    ASSUME TypeOK, CommentInv, AnswerInv, FixInv, [Next]_vars
    PROVE  TypeOK'
<1>1. row' \in Rows
  BY RowSteps
<1>2. row'.infra <= MaxInfra + Cardinality(Pods) - 1
  <2>1. Cardinality(MayRetry') \in Nat
    <3>1. MayRetry' \in SUBSET Pods
      BY DEF MayRetry
    <3>. QED
      BY <3>1, PodSets
  <2>2. row'.infra \in Nat
    BY <1>1 DEF Rows
  <2>3. row'.infra + Cardinality(MayRetry') <= MaxInfra + Cardinality(Pods) - 1
    BY FixInvSteps DEF FixInv
  <2>. QED
    BY <2>1, <2>2, <2>3, Naturals
<1>3. claims' \subseteq 1 .. MaxComments /\ vcs' \in GitLab /\ vcs'.of <= vcs'.head
  BY ClaimSteps, VcsSteps
<1>4. comments' \subseteq Comments /\ \A c \in comments' : c.discussion <= c.id
  BY CommentSteps DEF CommentsTyped
<1>5. tick' \in [Pods -> {NoTick} \cup Loaded \cup Threading \cup Savings]
  BY TickMoves DEF Alone, AllTicks, TypeOK
<1>6. watch' \in [Pods -> {NoWatch} \cup Watches]
  BY WatchSteps DEF AllWatches
<1>7. fix' \in [Pods -> {"idle", "running", "pushed", "failed"}]
  BY FixSteps DEF Fixes
<1>8. up' \subseteq Pods /\ \A p \in Pods \ up' : tick'[p] = NoTick /\ watch'[p] = NoWatch /\ fix'[p] = "idle"
  BY UpSteps DEF Down
<1>9. chat' \in 0 .. MaxCommits /\ left' \in [Bounds -> Nat] /\ seen' \in Observers
  BY ChatSteps, LeftSteps, SeenSteps
<1>. QED
  BY <1>1, <1>2, <1>3, <1>4, <1>5, <1>6, <1>7, <1>8, <1>9 DEF TypeOK

-----------------------------------------------------------------------------
(* One answer for a comment.                                               *)

AnswersKept == claims' = claims /\ seen'.answers = seen.answers

LEMMA Quiet ==
    ASSUME TypeOK, NEW p \in Pods,
           \/ Load(p) \/ LeaveAlone(p) \/ Fetch(p) \/ Look(p) \/ DecideOtherwise(p) \/ MarkPending(p)
           \/ Ping(p) \/ Ack(p) \/ Remind(p) \/ Break(p) \/ Persist(p) \/ DevOpsStep(p) \/ FixRuns(p)
           \/ FixEnds(p) \/ Deploy(p) \/ Stop(p)
    PROVE  AnswersKept
<1>1. seen \in Observers
  BY DEF TypeOK
<1>2. claims' = claims
  BY DEF Load, LeaveAlone, Fetch, Look, DecideOtherwise, MarkPending, Ping, Ack, Remind, Break, Persist,
     DevOpsStep, Watch, SeesGreen, SeesOther, RetryPipeline, GiveUp, StartFix, FixRuns, FixEnds,
     Deploy, Stop
<1>3. CASE Stop(p)
  <2>. DEFINE c == IF tick[p].at = "idle" THEN seen.cut ELSE seen.cut + 1
              l == IF fix[p] = "idle" THEN seen.lost ELSE seen.lost + 1
  <2>1. seen' = [seen EXCEPT !.cut = c, !.lost = l]
    BY <1>3 DEF Stop
  <2>. HIDE DEF c, l
  <2>. QED
    BY <1>1, <1>2, <2>1 DEF AnswersKept, Observers
<1>4. CASE Load(p) \/ Fetch(p) \/ DecideOtherwise(p) \/ Ping(p) \/ Ack(p) \/ Remind(p) \/ Break(p)
           \/ SeesGreen(p) \/ StartFix(p)
  BY <1>1, <1>2, <1>4 DEF AnswersKept, Observers, Load, Fetch, DecideOtherwise, Ping, Ack,
     Remind, Break, SeesGreen, StartFix
<1>5. seen' = seen \/ Stop(p) \/ Load(p) \/ Fetch(p) \/ DecideOtherwise(p) \/ Ping(p) \/ Ack(p)
      \/ Remind(p) \/ Break(p) \/ SeesGreen(p) \/ StartFix(p)
  BY DEF LeaveAlone, Look, MarkPending, Persist, DevOpsStep, Watch, SeesOther, RetryPipeline, GiveUp,
     FixRuns, FixEnds, Deploy
<1>. QED
  BY <1>2, <1>3, <1>4, <1>5 DEF AnswersKept

LEMMA QuietElse ==
    ASSUME TypeOK, \/ UNCHANGED vars \/ ChatIterates \/ ChatMarks \/ RestartCommand \/ Comment \/ Delete
                   \/ ChangeStatus \/ Approve \/ PipelineStarts \/ PipelineEnds
    PROVE  AnswersKept
<1>1. seen \in Observers
  BY DEF TypeOK
<1>. QED
  BY <1>1 DEF AnswersKept, Observers, vars, ChatIterates, ChatMarks, RestartCommand, Comment, Delete,
     ChangeStatus, Approve, PipelineStarts, PipelineEnds

\* A tick that is not answering owns no claim.
LEMMA NoClaimNeeded ==
    ASSUME TypeOK, AnswerInv, NEW p \in Pods, Alone(p), AnswersKept,
           \/ tick'[p].at \notin InThreads \ {"threads"}
           \/ tick'[p].at = "deciding" /\ tick'[p].cur \in tick'[p].todo
    PROVE  AnswerInv'
BY DEF AnswerInv, AnswersKept, Alone, InThreads, Answers, Owner

LEMMA AnswerSteps ==
    ASSUME TypeOK, AnswerInv, [Next]_vars
    PROVE  AnswerInv'
<1>. DEFINE Idle(p) == tick'[p].at \notin InThreads \ {"threads"}
<1>1. ASSUME NEW p \in Pods, Alone(p), ReviewerStep(p), Moves(p)
      PROVE  AnswerInv'
  <2>. DEFINE i == Hand(p)
  <2>0. /\ tick[p].at \in InThreads \ {"threads"} => i \in 1 .. MaxComments /\ i \in tick[p].todo
        /\ seen.answers \in [1 .. MaxComments -> 0 .. 2]
    BY HandIs, SeenFields DEF TypeOK
  <2>1. CASE \/ Load(p) /\ Loads(p)
             \/ (LeaveAlone(p) \/ Break(p) \/ Persist(p)) /\ tick'[p] = NoTick
             \/ Fetch(p) /\ Fetches(p)
             \/ Ping(p) /\ Saves(p, TRUE, FALSE)
             \/ Ack(p) /\ Saves(p, FALSE, FALSE)
             \/ Remind(p) /\ (Saves(p, FALSE, FALSE) \/ Saves(p, FALSE, TRUE))
    <3>1. Idle(p)
      BY <2>1, Ticks DEF Loads, Fetches, Saves, InThreads
    <3>2. AnswersKept
      BY <2>1, Quiet
    <3>. QED
      BY <1>1, <3>1, <3>2, NoClaimNeeded
  <2>2. CASE Look(p)
    <3>1. PICK j \in tick[p].todo : IF j \in claims THEN Settles(p, j, FALSE) ELSE TakesUp(p, j)
      BY <1>1, <2>2, LookMoves
    <3>2. Idle(p) \/ (tick'[p].at = "deciding" /\ tick'[p].cur \in tick'[p].todo)
      BY <3>1 DEF Settles, TakesUp
    <3>3. AnswersKept
      BY <2>2, Quiet
    <3>. QED
      BY <1>1, <3>2, <3>3, NoClaimNeeded
  <2>3. CASE \/ DecideOtherwise(p) /\ (Settles(p, i, FALSE) \/ Settles(p, i, TRUE) \/ tick'[p] = NoTick)
             \/ MarkPending(p) /\ Settles(p, i, FALSE)
    <3>1. Idle(p)
      BY <2>3, Ticks DEF Settles, InThreads
    <3>2. AnswersKept
      BY <2>3, Quiet
    <3>. QED
      BY <1>1, <3>1, <3>2, NoClaimNeeded
  <2>4. CASE Claims(p) /\ UNCHANGED claims /\ (Settles(p, i, TRUE) \/ Settles(p, i, FALSE))
    <3>1. Idle(p)
      BY <2>4 DEF Settles
    <3>2. AnswersKept
      BY <2>4 DEF AnswersKept, Claims, Claim
    <3>. QED
      BY <1>1, <3>1, <3>2, NoClaimNeeded
  <2>5. CASE Iterate(p) /\ UNCHANGED <<claims, seen>> /\ Settles(p, i, FALSE)
    <3>1. Idle(p) /\ AnswersKept
      BY <2>5 DEF Settles, AnswersKept
    <3>. QED
      BY <1>1, <3>1, NoClaimNeeded
  <2>6. CASE /\ Claims(p) /\ tick[p].at = "deciding" /\ i \notin claims /\ claims' = claims \cup {i}
             /\ \E answer \in Answers : GoesOn(p, answer)
    <3>1. seen' = seen /\ tick'[p].at \in Answers /\ tick'[p].cur = i /\ tick'[p].todo = tick[p].todo
      BY <2>6 DEF Claims, Claim, GoesOn, Hand
    <3>2. seen.answers[i] = 0 /\ i \in tick[p].todo
      BY <2>0, <2>6 DEF AnswerInv, InThreads
    <3>3. \A q \in Pods : q # p => (Owner(q) => tick[q].cur # i)
      BY <2>6 DEF AnswerInv
    <3>. QED
      BY <1>1, <2>6, <3>1, <3>2, <3>3 DEF AnswerInv, Alone, Owner, Answers, InThreads
  <2>7. CASE /\ tick[p].at \in Answers /\ UNCHANGED claims
             /\ seen' = [seen EXCEPT !.answers[i] = @ + 1]
             /\ IF tick[p].at = "replying" THEN Settles(p, i, FALSE) ELSE GoesOn(p, "iterating")
    <3>1. i \in claims /\ seen.answers[i] = 0 /\ i \in tick[p].todo /\ i \in 1 .. MaxComments
      BY <2>0, <2>7 DEF AnswerInv, Hand, Answers, Owner, InThreads
    <3>2. seen'.answers = [seen.answers EXCEPT ![i] = 1]
      BY <2>0, <2>7, <3>1 DEF TypeOK, Observers
    <3>3. \A q \in Pods : q # p /\ Owner(q) => tick[q].cur # i
      BY <2>7 DEF AnswerInv, Owner, Answers, Hand
    <3>4. \/ tick'[p].at = "threads"
          \/ tick'[p].at = "iterating" /\ tick'[p].cur = i /\ tick'[p].todo = tick[p].todo
      BY <2>7 DEF Settles, GoesOn, Hand
    <3>5. \A q \in Pods : tick[q].at \in Answers => tick[q].cur \in 1 .. MaxComments /\ Owner(q)
      BY HandIs DEF Answers, InThreads, Hand, Owner
    <3>6. \A j \in 1 .. MaxComments : seen'.answers[j] = IF j = i THEN 1 ELSE seen.answers[j]
      BY <2>0, <3>2
    <3>7. \A p0 \in Pods :
            /\ tick'[p0].at \in InThreads \ {"threads"} => tick'[p0].cur \in tick'[p0].todo
            /\ Owner(p0)' => tick'[p0].cur \in claims'
            /\ tick'[p0].at \in Answers => seen'.answers[tick'[p0].cur] = 0
      <4>1. ASSUME NEW q \in Pods, q # p
            PROVE  /\ tick'[q].at \in InThreads \ {"threads"} => tick'[q].cur \in tick'[q].todo
                   /\ Owner(q)' => tick'[q].cur \in claims'
                   /\ tick'[q].at \in Answers => seen'.answers[tick'[q].cur] = 0
        BY <1>1, <2>7, <3>3, <3>5, <3>6, <4>1 DEF AnswerInv, Alone, Owner
      <4>2. /\ tick'[p].at \in InThreads \ {"threads"} => tick'[p].cur \in tick'[p].todo
            /\ Owner(p)' => tick'[p].cur \in claims'
            /\ tick'[p].at \in Answers => seen'.answers[tick'[p].cur] = 0
        BY <2>7, <3>1, <3>4 DEF Owner, Answers
      <4>. QED
        BY <4>1, <4>2
    <3>8. \A p0, q \in Pods : Owner(p0)' /\ Owner(q)' /\ tick'[p0].cur = tick'[q].cur => p0 = q
      BY <1>1, <2>7, <3>3, <3>4 DEF AnswerInv, Alone, Owner
    <3>9. \A j \in 1 .. MaxComments : seen'.answers[j] <= 1 /\ (seen'.answers[j] # 0 => j \in claims')
      BY <2>7, <3>1, <3>6 DEF AnswerInv
    <3>. QED
      BY <3>7, <3>8, <3>9 DEF AnswerInv
  <2>8. CASE /\ tick[p].at \in Answers \cup {"iterating"}
             /\ Released(p, i) /\ Settles(p, i, TRUE)
    <3>1. claims' = claims \ {i} /\ i \in 1 .. MaxComments
      BY <2>0, <2>8 DEF Released, Answers, InThreads
    <3>2. seen'.answers = [seen.answers EXCEPT ![i] = 0]
      BY <2>0, <2>8 DEF Released, TypeOK, Observers
    <3>3. \A q \in Pods : q # p /\ Owner(q) => tick[q].cur # i
      BY <2>8 DEF AnswerInv, Owner, Answers, Hand
    <3>4. tick'[p].at = "threads"
      BY <2>8 DEF Settles
    <3>5. \A q \in Pods : tick[q].at \in Answers => tick[q].cur \in 1 .. MaxComments /\ Owner(q)
      BY HandIs DEF Answers, InThreads, Hand, Owner
    <3>6. \A j \in 1 .. MaxComments : seen'.answers[j] = IF j = i THEN 0 ELSE seen.answers[j]
      BY <2>0, <3>2
    <3>7. ASSUME NEW q \in Pods
          PROVE  /\ tick'[q].at \in InThreads \ {"threads"} => tick'[q].cur \in tick'[q].todo
                 /\ Owner(q)' => tick'[q].cur \in claims'
                 /\ tick'[q].at \in Answers => seen'.answers[tick'[q].cur] = 0
      <4>1. CASE q # p
        BY <1>1, <3>1, <3>3, <3>5, <3>6, <4>1 DEF AnswerInv, Alone, Owner
      <4>2. CASE q = p
        BY <3>4, <4>2 DEF Owner, Answers
      <4>. QED
        BY <4>1, <4>2
    <3>8. \A p0, q \in Pods : Owner(p0)' /\ Owner(q)' /\ tick'[p0].cur = tick'[q].cur => p0 = q
      BY <1>1, <3>4 DEF AnswerInv, Alone, Owner
    <3>9. \A j \in 1 .. MaxComments : seen'.answers[j] <= 1 /\ (seen'.answers[j] # 0 => j \in claims')
      BY <3>1, <3>6 DEF AnswerInv
    <3>. QED
      BY <3>7, <3>8, <3>9 DEF AnswerInv
  <2>9. CASE tick[p].at = "iterating" /\ UNCHANGED <<claims, seen>> /\ GoesOn(p, "pushed")
    <3>1. /\ tick'[p].at = "pushed" /\ tick'[p].cur = tick[p].cur
          /\ tick'[p].todo = tick[p].todo /\ claims' = claims /\ seen' = seen
      BY <2>9 DEF GoesOn
    <3>2. Owner(p) /\ tick[p].at \in InThreads \ {"threads"}
      BY <2>9 DEF Owner, InThreads
    <3>. QED
      BY <1>1, <3>1, <3>2 DEF AnswerInv, Alone, Owner, Answers
  <2>10. CASE Replies(p)
    BY <1>1, <2>5, <2>7, <2>8, <2>9, <2>10 DEF Replies
  <2>. QED
    BY <1>1, <2>1, <2>2, <2>3, <2>4, <2>6, <2>10 DEF Moves
<1>2. ASSUME NEW p \in Pods, Alone(p), Stop(p), tick'[p] = NoTick
      PROVE  AnswerInv'
  BY <1>2, Quiet, NoClaimNeeded, Ticks DEF InThreads
<1>3. CASE UNCHANGED tick /\ AnswersKept
  BY <1>3 DEF AnswerInv, AnswersKept, Owner
<1>4. UNCHANGED tick => AnswersKept \/ \E p \in Pods : ReviewerStep(p)
  BY Quiet, QuietElse DEF Next
<1>5. \A p \in Pods : ReviewerStep(p) => Alone(p) /\ Moves(p)
  BY ReviewerMoves
<1>. QED
  BY <1>1, <1>2, <1>3, <1>4, <1>5, TickMoves

-----------------------------------------------------------------------------
(* The watermark.                                                          *)

\* What a step does to what a tick has fetched.
LEMMA FetchedMoves ==
    ASSUME TypeOK, AnswerInv, [Next]_vars, NEW p \in Pods, tick'[p].at \in Fetched
    PROVE  \/ tick[p].at \in Fetched /\ tick'[p].seen = tick[p].seen
           \/ Fetch(p) /\ Alone(p) /\ Fetches(p)
<1>1. CASE tick'[p] = tick[p]
  BY <1>1
<1>2. CASE tick'[p] = NoTick
  BY <1>2, Ticks DEF Fetched, InThreads
<1>3. ASSUME Alone(p), ReviewerStep(p), Moves(p)
      PROVE  \/ tick[p].at \in Fetched /\ tick'[p].seen = tick[p].seen
             \/ Fetch(p) /\ Alone(p) /\ Fetches(p)
  <2>1. ~Loads(p)
    BY DEF Loads, Fetched, InThreads
  <2>2. Keeps(p) => tick[p].at \in Fetched /\ tick'[p].seen = tick[p].seen
    BY DEF Keeps, Fetched, Threading
  <2>3. \A a, b : Saves(p, a, b) => tick[p].at \in Fetched /\ tick'[p].seen = tick[p].seen
    BY DEF Saves, Fetched, InThreads
  <2>4. \A i, b : Settles(p, i, b) => Keeps(p)
    BY DEF Settles
  <2>5. \A i : (GoesOn(p, i) => Keeps(p)) /\ (TakesUp(p, i) => Keeps(p))
    BY DEF GoesOn, TakesUp
  <2>. QED
    BY <1>2, <1>3, <2>1, <2>2, <2>3, <2>4, <2>5 DEF Moves, Replies
<1>. QED
  BY <1>1, <1>2, <1>3, TickMoves DEF Alone

LEMMA WatermarkSteps ==
    ASSUME TypeOK, CommentInv, AnswerInv, WatermarkInv, [Next]_vars
    PROVE  WatermarkInv'
<1>1. /\ Cardinality(comments) \in Nat /\ Cardinality(comments') \in Nat
      /\ Cardinality(comments) <= Cardinality(comments')
  BY CommentSteps, FS_CardinalityType DEF CommentInv, CommentMoves
<1>2. row.seen \in Nat /\ row'.seen \in Nat
  BY RowSteps DEF TypeOK, Rows
<1>3. row'.seen <= Cardinality(comments)
  BY RowSteps DEF RowMoves, RowKept, Persisted, WatermarkInv, Persist, Fetched
<1>4. ASSUME NEW p \in Pods, tick[p].at \in Fetched
      PROVE  tick[p].seen \in Nat /\ tick[p].seen <= Cardinality(comments)
  <2>1. tick[p].seen \in Nat
    BY <1>4, Ticks DEF TypeOK, Fetched, Threading, Savings
  <2>. QED
    BY <1>1, <1>4, <2>1 DEF WatermarkInv, Watermark, None
<1>5. ASSUME NEW p \in Pods, Fetch(p), Fetches(p)
      PROVE  tick'[p].seen \in Nat /\ tick'[p].seen <= Cardinality(comments)
  <2>0. PICK listed \in Listings :
           tick'[p].seen = IF NewComments(listed, tick[p].seen) = {} THEN None
                           ELSE Max(NewComments(listed, tick[p].seen))
    BY <1>5 DEF Fetches
  <2>. DEFINE new == NewComments(listed, tick[p].seen)
  <2>1. new \in SUBSET (1 .. MaxComments) /\ new \subseteq Ids
    BY IdsAreNumbers
  <2>2. \A i \in Ids : i <= Cardinality(comments)
    BY DEF Ids, CommentInv
  <2>3. tick'[p].seen = IF new = {} THEN None ELSE Max(new)
    BY <2>0
  <2>. HIDE DEF new
  <2>4. new # {} => Max(new) \in new
    BY <2>1, Naturals, MaxIs
  <2>5. new # {} => Max(new) \in Ids /\ Max(new) \in Nat
    <3>1. \A x \in new : x \in Ids /\ x \in Nat
      BY <2>1
    <3>. QED
      BY <2>4, <3>1
  <2>6. CASE new = {}
    BY <1>1, <2>3, <2>6 DEF None
  <2>7. CASE new # {}
    BY <2>2, <2>3, <2>5, <2>7
  <2>. QED
    BY <2>6, <2>7
<1>6. ASSUME NEW p \in Pods, tick'[p].at \in Fetched
      PROVE  tick'[p].seen \in Nat /\ tick'[p].seen <= Cardinality(comments)
  BY <1>4, <1>5, <1>6, FetchedMoves
<1>. QED
  BY <1>1, <1>2, <1>3, <1>6 DEF WatermarkInv, Watermark

-----------------------------------------------------------------------------
(* One tick at a time.                                                     *)

\* What overlaps stays observed.
LEMMA OverlapStays ==
    ASSUME TypeOK, AnswerInv, [Next]_vars, ~seen'.overlap
    PROVE  /\ ~seen.overlap
           /\ \A p \in Pods : Load(p) => \A q \in Pods : q # p => tick[q] = NoTick
<1>1. seen \in Observers /\ "overlap" \in Observed
  BY DEF TypeOK, Observed
<1>2. ~seen.overlap
  BY <1>1, SeenSteps DEF SeenMoves, AllBut, Overlaps
<1>3. ASSUME NEW p \in Pods, Load(p), NEW q \in Pods, q # p
      PROVE  tick[q] = NoTick
  <2>1. seen'.overlap = (seen.overlap \/ \E r \in Pods \ {p} : tick[r].at # "idle")
    BY <1>1, <1>3 DEF Load, Observers
  <2>2. tick[q].at = "idle"
    BY <1>3, <2>1
  <2>. QED
    BY <2>2, Ticks DEF TypeOK
<1>. QED
  BY <1>2, <1>3

\* A busy tick is the only one, and it began as it is or by a load.
LEMMA BusyMoves ==
    ASSUME TypeOK, AnswerInv, AloneInv, [Next]_vars, ~seen'.overlap, NEW p \in Pods, Busy(p)'
    PROVE  \A q \in Pods : q # p => tick[q] = NoTick /\ tick'[q] = NoTick
<1>1. /\ ~seen.overlap
      /\ \A r \in Pods : Load(r) => \A q \in Pods : q # r => tick[q] = NoTick
  BY OverlapStays
<1>2. \A r, q \in Pods : Busy(r) /\ Busy(q) => r = q
  BY <1>1 DEF AloneInv
<1>3. \A q \in Pods : ~Busy(q) => tick[q] = NoTick
  BY Ticks DEF TypeOK, Busy
<1>4. ASSUME NEW r \in Pods, Alone(r), ReviewerStep(r)
      PROVE  \A q \in Pods : q # p => tick[q] = NoTick /\ tick'[q] = NoTick
  <2>1. \A q \in Pods : q # r => tick[q] = NoTick
    <3>1. CASE Load(r)
      BY <1>1, <3>1
    <3>2. CASE Busy(r)
      BY <1>2, <1>3, <3>2
    <3>. QED
      BY <1>4, <3>1, <3>2 DEF ReviewerStep, LeaveAlone, Fetch, Look, Claim, DecideOtherwise, Post, Iterate,
         MarkPending, Ping, Ack, Remind, Answered, Break, Persist, Busy, Answers
  <2>2. \A q \in Pods : q # r => tick'[q] = NoTick
    BY <1>4, <2>1 DEF Alone
  <2>3. p = r
    BY <2>2, Ticks DEF Busy
  <2>. QED
    BY <2>1, <2>2, <2>3
<1>5. ASSUME NEW r \in Pods, Alone(r), tick'[r] = NoTick
      PROVE  \A q \in Pods : q # p => tick[q] = NoTick /\ tick'[q] = NoTick
  <2>1. p # r /\ Busy(p)
    BY <1>5, Ticks DEF Busy, Alone
  <2>. QED
    BY <1>2, <1>3, <1>5, <2>1 DEF Alone
<1>6. CASE UNCHANGED tick
  BY <1>2, <1>3, <1>6 DEF Busy
<1>. QED
  BY <1>4, <1>5, <1>6, TickMoves

\* What a step does to a tick that is not over.
LEMMA PodMoves ==
    ASSUME TypeOK, AnswerInv, [Next]_vars, NEW p \in Pods, Busy(p)'
    PROVE  \/ tick'[p] = tick[p]
           \/ Load(p) /\ Loads(p)
           \/ Fetch(p) /\ Fetches(p)
           \/ Keeps(p)
           \/ \E pinged, nagged \in BOOLEAN : Saves(p, pinged, nagged)
<1>1. ASSUME NEW r \in Pods, Alone(r), Moves(r), r = p
      PROVE  \/ Load(p) /\ Loads(p)
             \/ Fetch(p) /\ Fetches(p)
             \/ Keeps(p)
             \/ \E pinged, nagged \in BOOLEAN : Saves(p, pinged, nagged)
  <2>1. \A i, b : Settles(p, i, b) => Keeps(p)
    BY DEF Settles
  <2>2. \A i : (GoesOn(p, i) => Keeps(p)) /\ (TakesUp(p, i) => Keeps(p))
    BY DEF GoesOn, TakesUp
  <2>3. tick'[p] # NoTick
    BY Ticks DEF Busy
  <2>. QED
    BY <1>1, <2>1, <2>2, <2>3 DEF Moves, Replies
<1>. QED
  BY <1>1, TickMoves, Ticks DEF Alone, Busy

\* While a tick goes on alone, nobody persists.
LEMMA RowKeptMeanwhile ==
    ASSUME TypeOK, AnswerInv, AloneInv, [Next]_vars, ~seen'.overlap, NEW p \in Pods, Busy(p)'
    PROVE  RowKept
<1>1. ASSUME NEW r \in Pods, Persist(r) PROVE FALSE
  <2>1. tick[r].at = "saving" /\ tick'[r] = NoTick
    BY <1>1, Ended DEF Persist
  <2>2. r = p
    BY <2>1, BusyMoves, Ticks
  <2>. QED
    BY <2>1, <2>2, Ticks DEF Busy
<1>. QED
  BY <1>1, RowSteps DEF RowMoves

LEMMA AloneSteps ==
    ASSUME TypeOK, AnswerInv, AloneInv, [Next]_vars
    PROVE  AloneInv'
<1>. SUFFICES ASSUME ~seen'.overlap PROVE AloneInv'
  BY DEF AloneInv
<1>0. ~seen.overlap
  BY OverlapStays
<1>1. \A p, q \in Pods : Busy(p)' /\ Busy(q)' => p = q
  <2>1. ASSUME NEW p \in Pods, NEW q \in Pods, Busy(p)', Busy(q)', p # q PROVE FALSE
    BY <2>1, BusyMoves, Ticks DEF Busy
  <2>. QED
    BY <2>1
<1>2. ASSUME NEW p \in Pods, Busy(p)'
      PROVE  /\ tick'[p].at = "loaded" =>
                /\ tick'[p].seen = row'.seen /\ tick'[p].pending = row'.pending
                /\ tick'[p].pinged = row'.pinged /\ tick'[p].approved = row'.approved
                /\ tick'[p].nag => ~row'.nagged
             /\ tick'[p].at \in InThreads =>
                tick'[p].pinged = row'.pinged /\ (tick'[p].nag => ~row'.nagged)
             /\ tick'[p].at = "saving" => (row'.pinged => tick'[p].pinged)
  <2>1. RowKept
    BY <1>2, RowKeptMeanwhile
  <2>2. CASE tick'[p] = tick[p]
    BY <1>0, <2>1, <2>2 DEF AloneInv, RowKept
  <2>3. CASE Load(p) /\ Loads(p)
    BY <2>1, <2>3 DEF Loads, RowKept, InThreads
  <2>4. CASE Fetch(p) /\ Fetches(p)
    BY <1>0, <2>1, <2>4 DEF AloneInv, Fetch, Fetches, RowKept
  <2>5. CASE Keeps(p)
    <3>1. tick[p].at \in InThreads /\ tick'[p].at \in InThreads
      BY <2>5 DEF Keeps, Threading
    <3>. QED
      BY <1>0, <2>1, <2>5, <3>1 DEF AloneInv, Keeps, RowKept, InThreads
  <2>6. ASSUME NEW pinged \in BOOLEAN, NEW nagged \in BOOLEAN, Saves(p, pinged, nagged)
        PROVE  tick'[p].at = "saving" /\ (row'.pinged => tick'[p].pinged)
    <3>1. tick[p].at \in InThreads /\ tick'[p].at = "saving"
          /\ (tick[p].pinged => tick'[p].pinged)
      BY <2>6 DEF Saves, InThreads
    <3>. QED
      BY <1>0, <2>1, <3>1 DEF AloneInv, RowKept
  <2>. QED
    BY <1>2, <2>2, <2>3, <2>4, <2>5, <2>6, PodMoves DEF InThreads
<1>3. \A p \in Pods : tick'[p].at \in {"loaded", "saving"} \cup InThreads => Busy(p)'
  BY DEF Busy, InThreads
<1>. QED
  BY <1>1, <1>2, <1>3 DEF AloneInv

-----------------------------------------------------------------------------
(* The pings of a tick.                                                    *)

\* While p takes a step of its tick, no other tick is under way.
LEMMA OthersIdle ==
    ASSUME TypeOK, AnswerInv, AloneInv, [Next]_vars, ~seen'.overlap, NEW p \in Pods,
           ReviewerStep(p) \/ (Stop(p) /\ Busy(p))
    PROVE  \A q \in Pods : q # p => tick[q] = NoTick /\ tick'[q] = NoTick
<1>1. Alone(p)
  BY ReviewerMoves, Ended DEF Stop
<1>2. \A q \in Pods : q # p => tick[q] = NoTick
  <2>1. CASE Load(p)
    BY <2>1, OverlapStays
  <2>2. CASE Busy(p)
    BY <2>2, OverlapStays, Ticks DEF AloneInv, Busy, TypeOK
  <2>. QED
    BY <2>1, <2>2 DEF ReviewerStep, LeaveAlone, Fetch, Look, Claim, DecideOtherwise, Post, Iterate,
       MarkPending, Ping, Ack, Remind, Answered, Break, Persist, Busy, Answers
<1>. QED
  BY <1>1, <1>2 DEF Alone

\* With one tick, that of p, what is due is due to it.
LEMMA DueIs ==
    ASSUME NEW p \in Pods, \A q \in Pods : q # p => tick[q] = NoTick /\ tick'[q] = NoTick
    PROVE  /\ PingDue <=> tick[p].at = "saving" /\ tick[p].pinged
           /\ PingDue' <=> tick'[p].at = "saving" /\ tick'[p].pinged
           /\ NagDue <=> tick[p].at = "saving" /\ tick[p].nagged
           /\ NagDue' <=> tick'[p].at = "saving" /\ tick'[p].nagged
           /\ MergeDue <=> tick[p].at \in InThreads /\ tick[p].merge
           /\ MergeDue' <=> tick'[p].at \in InThreads /\ tick'[p].merge
           /\ tick[p].at \in Fetched => (Approved <=> tick[p].approved)
           /\ tick'[p].at \in Fetched => (Approved' <=> tick'[p].approved)
           /\ tick[p].at \notin Fetched => (Approved <=> row.approved)
           /\ tick'[p].at \notin Fetched => (Approved' <=> row'.approved)
<1>1. NoTick.at # "saving" /\ NoTick.at \notin InThreads /\ NoTick.at \notin Fetched
  BY Ticks DEF InThreads, Fetched
<1>2. /\ PingDue <=> tick[p].at = "saving" /\ tick[p].pinged
      /\ NagDue <=> tick[p].at = "saving" /\ tick[p].nagged
      /\ MergeDue <=> tick[p].at \in InThreads /\ tick[p].merge
  BY <1>1 DEF PingDue, NagDue, MergeDue
<1>3. /\ PingDue' <=> tick'[p].at = "saving" /\ tick'[p].pinged
      /\ NagDue' <=> tick'[p].at = "saving" /\ tick'[p].nagged
      /\ MergeDue' <=> tick'[p].at \in InThreads /\ tick'[p].merge
  BY <1>1 DEF PingDue, NagDue, MergeDue
<1>4. /\ tick[p].at \in Fetched => (Approved <=> tick[p].approved)
      /\ tick[p].at \notin Fetched => (Approved <=> row.approved)
  BY <1>1 DEF Approved
<1>5. /\ tick'[p].at \in Fetched => (Approved' <=> tick'[p].approved)
      /\ tick'[p].at \notin Fetched => (Approved' <=> row'.approved)
  BY <1>1 DEF Approved
<1>. QED
  BY <1>2, <1>3, <1>4, <1>5

\* The observers of the pings but those in S.
PingsBut(S) ==
    \A f \in {"pings", "nags", "merges", "approvals", "cut", "misread"} \ S : seen'[f] = seen[f]

VotesKept == vcs'.approved = vcs.approved

LEMMA ReviewerVotes ==
    ASSUME TypeOK, NEW p \in Pods, ReviewerStep(p)
    PROVE  VotesKept
<1>1. CASE Iterate(p)
  BY <1>1, Pushed DEF Iterate, VotesKept, VcsKept
<1>2. CASE Remind(p)
  BY <1>2 DEF Remind, Started, VotesKept, TypeOK, GitLab
<1>. QED
  BY <1>1, <1>2 DEF ReviewerStep, VotesKept, Load, LeaveAlone, Fetch, Look, Claim, DecideOtherwise, Post,
     MarkPending, Ping, Ack, Break, Persist

\* The part of the invariant that holds without overlap.
PingsCounted ==
    /\ seen.pings <= seen.cut + One(row.pinged \/ PingDue)
    /\ seen.nags <= seen.cut + One(row.nagged \/ NagDue)
    /\ seen.merges + One(MergeDue) + One(vcs.approved /\ ~Approved)
         <= seen.approvals + seen.cut + seen.misread

SeenNumbers ==
    /\ seen.pings \in Nat /\ seen.nags \in Nat /\ seen.merges \in Nat
    /\ seen.approvals \in Nat /\ seen.cut \in Nat /\ seen.misread \in Nat

\* Nothing of it changes.
LEMMA PingsStay ==
    ASSUME PingsCounted, PingsBut({}), VotesKept,
           (row'.pinged \/ PingDue') <=> (row.pinged \/ PingDue),
           (row'.nagged \/ NagDue') <=> (row.nagged \/ NagDue),
           MergeDue' <=> MergeDue, Approved' <=> Approved
    PROVE  PingsCounted'
<1>1. /\ One(row.pinged \/ PingDue)' = One(row.pinged \/ PingDue)
      /\ One(row.nagged \/ NagDue)' = One(row.nagged \/ NagDue)
      /\ One(MergeDue)' = One(MergeDue)
      /\ One(vcs.approved /\ ~Approved)' = One(vcs.approved /\ ~Approved)
  BY DEF One, VotesKept
<1>2. /\ seen'.pings = seen.pings /\ seen'.nags = seen.nags /\ seen'.merges = seen.merges
      /\ seen'.approvals = seen.approvals /\ seen'.cut = seen.cut /\ seen'.misread = seen.misread
  BY DEF PingsBut
<1>. QED
  BY <1>1, <1>2 DEF PingsCounted

\* A tick that does not come to persist is counted, and owes nothing any more.
LEMMA PingsCut ==
    ASSUME PingsCounted, PingsBut({"cut"}), VotesKept, SeenNumbers, RowKept,
           seen'.cut = seen.cut + 1, ~MergeDue'
    PROVE  PingsCounted'
<1>1. /\ \A b \in BOOLEAN : One(b) \in {0, 1}
      /\ One(FALSE) = 0
  BY DEF One
<1>2. /\ One(row.pinged \/ PingDue) \in {0, 1} /\ One(row.pinged \/ PingDue)' \in {0, 1}
      /\ One(row.nagged \/ NagDue) \in {0, 1} /\ One(row.nagged \/ NagDue)' \in {0, 1}
      /\ One(MergeDue) \in {0, 1} /\ One(MergeDue)' = 0
      /\ One(vcs.approved /\ ~Approved) \in {0, 1} /\ One(vcs.approved /\ ~Approved)' \in {0, 1}
  BY DEF One
<1>3. /\ seen'.pings = seen.pings /\ seen'.nags = seen.nags /\ seen'.merges = seen.merges
      /\ seen'.approvals = seen.approvals /\ seen'.misread = seen.misread
  BY DEF PingsBut
<1>6. seen'.pings <= seen'.cut + One(row.pinged \/ PingDue)'
  BY <1>2, <1>3 DEF PingsCounted, SeenNumbers
<1>7. seen'.nags <= seen'.cut + One(row.nagged \/ NagDue)'
  BY <1>2, <1>3 DEF PingsCounted, SeenNumbers
<1>8. seen'.merges + One(MergeDue)' + One(vcs.approved /\ ~Approved)'
        <= seen'.approvals + seen'.cut + seen'.misread
  BY <1>2, <1>3 DEF PingsCounted, SeenNumbers
<1>. QED
  BY <1>6, <1>7, <1>8 DEF PingsCounted

\* The merge ping is sent as it was due.
LEMMA MergeSent ==
    ASSUME NEW p \in Pods, SeenNumbers, tick[p].at \in InThreads
    PROVE  /\ MergePing(p, seen.merges) \in Nat
           /\ MergePing(p, seen.merges) <= seen.merges + One(tick[p].merge)
BY DEF MergePing, SeenNumbers, One

LEMMA PingsSent ==
    ASSUME PingsCounted, VotesKept, SeenNumbers, RowKept, NEW p \in Pods,
           \A q \in Pods : q # p => tick[q] = NoTick /\ tick'[q] = NoTick,
           NEW pinged \in BOOLEAN, NEW nagged \in BOOLEAN, Saves(p, pinged, nagged),
           TypeOK, AloneInv, ~seen.overlap,
           PingsBut({"pings", "nags", "merges"}),
           seen'.pings = IF pinged THEN seen.pings + 1 ELSE seen.pings,
           seen'.nags = IF nagged THEN seen.nags + 1 ELSE seen.nags,
           \/ seen'.merges = MergePing(p, seen.merges)
           \/ seen'.merges = seen.merges /\ ~tick[p].merge,
           pinged => ~tick[p].pinged,
           nagged => tick[p].nag
    PROVE  PingsCounted'
<1>1. /\ tick[p].at \in InThreads /\ tick[p].at \in Fetched /\ tick[p].at # "saving"
      /\ tick'[p].at = "saving" /\ tick'[p].at \in Fetched /\ tick'[p].at \notin InThreads
  BY DEF Saves, InThreads, Fetched
<1>2. /\ ~PingDue /\ (PingDue' <=> tick[p].pinged \/ pinged)
      /\ ~NagDue /\ (NagDue' <=> nagged)
      /\ (MergeDue <=> tick[p].merge) /\ ~MergeDue'
      /\ (Approved' <=> Approved)
  BY <1>1, DueIs DEF Saves
<1>3. tick[p].pinged = row.pinged /\ (tick[p].nag => ~row.nagged)
  BY <1>1 DEF AloneInv
<1>4. /\ row'.pinged = row.pinged /\ row'.nagged = row.nagged
      /\ row.pinged \in BOOLEAN /\ row.nagged \in BOOLEAN
  BY DEF RowKept, TypeOK, Rows
<1>5. seen'.approvals = seen.approvals /\ seen'.cut = seen.cut /\ seen'.misread = seen.misread
  BY DEF PingsBut
<1>6. seen'.pings <= seen'.cut + One(row.pinged \/ PingDue)'
  <2>1. CASE pinged
    <3>1. One(row.pinged \/ PingDue) = 0 /\ One(row.pinged \/ PingDue)' = 1
      BY <1>2, <1>3, <1>4, <2>1 DEF One
    <3>2. seen'.pings \in Nat /\ seen'.pings <= seen.pings + 1
      BY <2>1 DEF SeenNumbers
    <3>. QED
      BY <1>5, <3>1, <3>2 DEF PingsCounted, SeenNumbers
  <2>2. CASE ~pinged
    <3>1. One(row.pinged \/ PingDue)' \in {0, 1}
          /\ (One(row.pinged \/ PingDue) = 1 => One(row.pinged \/ PingDue)' = 1)
          /\ One(row.pinged \/ PingDue) \in {0, 1}
      BY <1>2, <1>4 DEF One
    <3>2. seen'.pings = seen.pings
      BY <2>2
    <3>. QED
      BY <1>5, <3>1, <3>2 DEF PingsCounted, SeenNumbers
  <2>. QED
    BY <2>1, <2>2
<1>7. seen'.nags <= seen'.cut + One(row.nagged \/ NagDue)'
  <2>1. CASE nagged
    <3>1. One(row.nagged \/ NagDue) = 0 /\ One(row.nagged \/ NagDue)' = 1
      BY <1>2, <1>3, <1>4, <2>1 DEF One
    <3>2. seen'.nags \in Nat /\ seen'.nags <= seen.nags + 1
      BY <2>1 DEF SeenNumbers
    <3>. QED
      BY <1>5, <3>1, <3>2 DEF PingsCounted, SeenNumbers
  <2>2. CASE ~nagged
    <3>1. One(row.nagged \/ NagDue)' = One(row.nagged \/ NagDue)
      BY <1>2, <1>4, <2>2 DEF One
    <3>2. seen'.nags = seen.nags
      BY <2>2
    <3>. QED
      BY <1>5, <3>1, <3>2 DEF PingsCounted
  <2>. QED
    BY <2>1, <2>2
<1>8. seen'.merges + One(MergeDue)' + One(vcs.approved /\ ~Approved)'
        <= seen'.approvals + seen'.cut + seen'.misread
  <2>1. seen.merges + One(MergeDue) + One(vcs.approved /\ ~Approved)
          <= seen.approvals + seen.cut + seen.misread
    BY DEF PingsCounted
  <2>2. /\ One(MergeDue)' = 0 /\ One(MergeDue) = One(tick[p].merge)
        /\ One(vcs.approved /\ ~Approved)' = One(vcs.approved /\ ~Approved)
    BY <1>2 DEF One, VotesKept
  <2>3. One(tick[p].merge) \in {0, 1} /\ One(vcs.approved /\ ~Approved) \in {0, 1}
    BY DEF One
  <2>4. seen'.merges \in Nat /\ seen'.merges <= seen.merges + One(tick[p].merge)
    BY <1>1, <2>3, MergeSent DEF SeenNumbers
  <2>. QED
    BY <1>5, <2>1, <2>2, <2>3, <2>4 DEF SeenNumbers
<1>. QED
  BY <1>6, <1>7, <1>8 DEF PingsCounted

LEMMA PingsFetched ==
    ASSUME PingsCounted, VotesKept, SeenNumbers, RowKept, NEW p \in Pods,
           \A q \in Pods : q # p => tick[q] = NoTick /\ tick'[q] = NoTick,
           TypeOK, AloneInv, ~seen.overlap, Fetch(p), Fetches(p)
    PROVE  PingsCounted'
<1>1. /\ tick[p].at = "loaded" /\ tick[p].at \notin InThreads /\ tick[p].at \notin Fetched
      /\ tick'[p].at = "threads" /\ tick'[p].at \in Fetched /\ tick'[p].at \in InThreads
  BY DEF Fetch, Fetches, InThreads, Fetched
<1>2. /\ ~PingDue /\ ~PingDue' /\ ~NagDue /\ ~NagDue' /\ ~MergeDue
      /\ (MergeDue' <=> tick'[p].merge)
      /\ (Approved <=> row.approved) /\ (Approved' <=> tick'[p].approved)
  BY <1>1, DueIs
<1>3. tick'[p].merge <=> (tick'[p].approved /\ ~row.approved)
  BY <1>1 DEF AloneInv, Fetches
<1>4. /\ seen'.pings = seen.pings /\ seen'.nags = seen.nags /\ seen'.merges = seen.merges
      /\ seen'.approvals = seen.approvals /\ seen'.cut = seen.cut
      /\ \/ tick'[p].approved = vcs.approved /\ seen'.misread = seen.misread
         \/ vcs.approved /\ ~tick'[p].approved /\ seen'.misread = seen.misread + 1
  <2>1. PICK listed \in Listings, approved \in {vcs.approved, FALSE} :
          /\ seen' = [seen EXCEPT
               !.misread = IF approved = vcs.approved THEN @ ELSE @ + 1,
               !.unread = IF listed = Ids THEN @ \ tick[p].pending ELSE @ \cup tick[p].pending]
          /\ tick'[p].approved = approved
    BY FetchSees
  <2>. DEFINE m == IF approved = vcs.approved THEN seen.misread ELSE seen.misread + 1
              n == IF listed = Ids THEN seen.unread \ tick[p].pending
                   ELSE seen.unread \cup tick[p].pending
  <2>2. seen \in Observers /\ seen' = [seen EXCEPT !.misread = m, !.unread = n]
    BY <2>1 DEF TypeOK
  <2>. HIDE DEF m, n
  <2>3. /\ seen'.pings = seen.pings /\ seen'.nags = seen.nags /\ seen'.merges = seen.merges
        /\ seen'.approvals = seen.approvals /\ seen'.cut = seen.cut /\ seen'.misread = m
    BY <2>2 DEF Observers
  <2>4. vcs.approved \in BOOLEAN
    BY DEF TypeOK, GitLab
  <2>. QED
    BY <2>1, <2>3, <2>4 DEF m
<1>5. /\ One(row.pinged \/ PingDue)' = One(row.pinged \/ PingDue)
      /\ One(row.nagged \/ NagDue)' = One(row.nagged \/ NagDue)
  BY <1>2 DEF One, RowKept
<1>6. seen'.merges + One(MergeDue)' + One(vcs.approved /\ ~Approved)'
        <= seen'.approvals + seen'.cut + seen'.misread
  <2>1. seen.merges + One(MergeDue) + One(vcs.approved /\ ~Approved)
          <= seen.approvals + seen.cut + seen.misread
    BY DEF PingsCounted
  <2>2. One(MergeDue) = 0 /\ One(vcs.approved /\ ~Approved) = One(vcs.approved /\ ~row.approved)
    BY <1>2 DEF One
  <2>3. /\ One(MergeDue)' = One(tick'[p].approved /\ ~row.approved)
        /\ One(vcs.approved /\ ~Approved)' = One(vcs.approved /\ ~tick'[p].approved)
    BY <1>2, <1>3 DEF One, VotesKept
  <2>4. CASE tick'[p].approved = vcs.approved /\ seen'.misread = seen.misread
    <3>1. One(MergeDue)' = One(vcs.approved /\ ~row.approved)
          /\ One(vcs.approved /\ ~Approved)' = 0
          /\ One(vcs.approved /\ ~row.approved) \in {0, 1}
      BY <2>3, <2>4 DEF One
    <3>. QED
      BY <1>4, <2>1, <2>2, <2>4, <3>1 DEF SeenNumbers
  <2>5. CASE vcs.approved /\ ~tick'[p].approved /\ seen'.misread = seen.misread + 1
    <3>1. One(MergeDue)' = 0 /\ One(vcs.approved /\ ~Approved)' = 1
          /\ One(vcs.approved /\ ~row.approved) \in {0, 1}
      BY <2>3, <2>5 DEF One
    <3>. QED
      BY <1>4, <2>1, <2>2, <2>5, <3>1 DEF SeenNumbers
  <2>. QED
    BY <1>4, <2>4, <2>5
<1>. QED
  BY <1>4, <1>5, <1>6 DEF PingsCounted

LEMMA PingsSaved ==
    ASSUME PingsCounted, VotesKept, NEW p \in Pods,
           \A q \in Pods : q # p => tick[q] = NoTick /\ tick'[q] = NoTick,
           TypeOK, AloneInv, ~seen.overlap, tick[p].at = "saving", tick'[p] = NoTick, Persisted(p),
           PingsBut({})
    PROVE  PingsCounted'
<1>1. /\ tick[p].at \in Fetched /\ tick[p].at \notin InThreads
      /\ tick'[p].at # "saving" /\ tick'[p].at \notin Fetched /\ tick'[p].at \notin InThreads
  BY Ticks DEF InThreads, Fetched
<1>2. /\ (PingDue <=> tick[p].pinged) /\ ~PingDue'
      /\ (NagDue <=> tick[p].nagged) /\ ~NagDue' /\ ~MergeDue /\ ~MergeDue'
      /\ (Approved <=> tick[p].approved) /\ (Approved' <=> row'.approved)
  BY <1>1, DueIs
<1>3. row.pinged => tick[p].pinged
  BY DEF AloneInv
<1>. QED
  BY <1>2, <1>3, PingsStay DEF Persisted

LEMMA PingsQuiet ==
    ASSUME TypeOK, NEW p \in Pods,
           \/ Load(p) \/ LeaveAlone(p) \/ Look(p) \/ Claims(p) \/ Replies(p) \/ MarkPending(p)
           \/ Persist(p) \/ (DecideOtherwise(p) /\ tick'[p] # NoTick)
    PROVE  PingsBut({})
<1>1. seen \in Observers
  BY DEF TypeOK
<1>2. CASE DecideOtherwise(p) /\ tick'[p] # NoTick
  <2>1. ~EndTick(p)
    BY <1>2 DEF EndTick, TypeOK
  <2>. QED
    BY <1>1, <1>2, <2>1 DEF PingsBut, Observers, DecideOtherwise
<1>3. CASE Load(p) \/ LeaveAlone(p) \/ Look(p) \/ Claims(p) \/ MarkPending(p) \/ Persist(p)
  BY <1>1, <1>3 DEF PingsBut, Observers, Load, LeaveAlone, Look, Claims, Claim, MarkPending, Persist
<1>4. CASE Replies(p)
  BY <1>1, <1>4 DEF PingsBut, Observers, Replies, Released
<1>. QED
  BY <1>2, <1>3, <1>4

\* A tick goes on, and what is due stays due.
LEMMA PingsKept ==
    ASSUME PingsCounted, VotesKept, RowKept, NEW p \in Pods,
           \A q \in Pods : q # p => tick[q] = NoTick /\ tick'[q] = NoTick,
           PingsBut({}),
           \/ Keeps(p)
           \/ tick[p].at \notin Fetched /\ tick'[p].at \notin Fetched
    PROVE  PingsCounted'
<1>1. CASE Keeps(p)
  <2>1. /\ tick[p].at \in Fetched /\ tick[p].at \in InThreads /\ tick[p].at # "saving"
        /\ tick'[p].at \in Fetched /\ tick'[p].at \in InThreads /\ tick'[p].at # "saving"
        /\ tick'[p].merge = tick[p].merge /\ tick'[p].approved = tick[p].approved
    BY <1>1 DEF Keeps, Threading, InThreads, Fetched
  <2>. QED
    BY <2>1, DueIs, PingsStay DEF RowKept
<1>2. CASE tick[p].at \notin Fetched /\ tick'[p].at \notin Fetched
  <2>1. /\ tick[p].at \notin InThreads /\ tick[p].at # "saving"
        /\ tick'[p].at \notin InThreads /\ tick'[p].at # "saving"
    BY <1>2 DEF Fetched
  <2>. QED
    BY <1>2, <2>1, DueIs, PingsStay DEF RowKept
<1>. QED
  BY <1>1, <1>2

LEMMA TicksTouched ==
    ASSUME TypeOK, AnswerInv, PingInv, [Next]_vars
    PROVE  \A p \in Pods : tick'[p].at \in InThreads /\ tick'[p].merge => tick'[p].touched
<1>. SUFFICES ASSUME NEW p \in Pods, tick'[p].at \in InThreads, tick'[p].merge
              PROVE  tick'[p].touched
  OBVIOUS
<1>1. Busy(p)'
  BY DEF Busy, InThreads
<1>2. CASE Keeps(p)
  BY <1>2 DEF Keeps, Threading, PingInv
<1>3. CASE Fetch(p) /\ Fetches(p)
  BY <1>3 DEF Fetches
<1>4. CASE tick'[p] = tick[p]
  BY <1>4 DEF PingInv
<1>5. ~Loads(p) /\ ~\E pinged, nagged \in BOOLEAN : Saves(p, pinged, nagged)
  BY DEF Loads, Saves, InThreads
<1>. QED
  BY <1>1, <1>2, <1>3, <1>4, <1>5, PodMoves

LEMMA ReviewerPings ==
    ASSUME TypeOK, AnswerInv, AloneInv, PingInv, [Next]_vars, ~seen'.overlap,
           NEW p \in Pods, Alone(p), ReviewerStep(p), Moves(p)
    PROVE  PingsCounted'
<1>1. ~seen.overlap /\ PingsCounted /\ VotesKept
  BY OverlapStays, ReviewerVotes DEF PingInv, PingsCounted
<1>2. SeenNumbers
  BY SeenFields DEF SeenNumbers, TypeOK
<1>3. \A q \in Pods : q # p => tick[q] = NoTick /\ tick'[q] = NoTick
  BY OthersIdle
<1>4. tick'[p] # NoTick => RowKept
  <2>1. tick'[p] # NoTick => Busy(p)'
    BY Ticks DEF Alone, AllTicks, Busy
  <2>. QED
    BY <2>1, RowKeptMeanwhile
<1>5. seen \in Observers /\ row \in Rows
  BY DEF TypeOK
<1>6. CASE Load(p) /\ Loads(p)
  <2>1. tick[p].at \notin Fetched /\ tick'[p].at \notin Fetched /\ tick'[p] # NoTick
    BY <1>6, Ticks DEF Load, Loads, Fetched, InThreads
  <2>. QED
    BY <1>1, <1>3, <1>4, <1>6, <2>1, PingsQuiet, PingsKept
<1>7. CASE LeaveAlone(p) /\ tick'[p] = NoTick
  <2>1. tick[p].at \notin Fetched /\ tick'[p].at \notin Fetched
    BY <1>7, Ticks DEF LeaveAlone, Fetched, InThreads
  <2>2. RowKept
    BY <1>5, <1>7 DEF LeaveAlone, RowKept, Rows
  <2>. QED
    BY <1>1, <1>3, <1>7, <2>1, <2>2, PingsQuiet, PingsKept
<1>8. CASE \/ Break(p) /\ tick'[p] = NoTick
           \/ DecideOtherwise(p) /\ tick'[p] = NoTick /\ seen' = [seen EXCEPT !.cut = @ + 1]
  <2>1. RowKept /\ seen' = [seen EXCEPT !.cut = @ + 1]
    BY <1>8 DEF Break, DecideOtherwise, RowKept
  <2>2. PingsBut({"cut"}) /\ seen'.cut = seen.cut + 1
    BY <1>5, <2>1 DEF PingsBut, Observers
  <2>3. ~MergeDue'
    BY <1>3, <1>8, DueIs, Ticks DEF InThreads
  <2>. QED
    BY <1>1, <1>2, <2>1, <2>2, <2>3, PingsCut
<1>9. CASE Persist(p) /\ tick'[p] = NoTick
  <2>1. tick[p].at = "saving" /\ tick[p] \in Savings /\ row' = Saved(row, tick[p])
    BY <1>9, Ticks DEF Persist, TypeOK
  <2>2. Persisted(p)
    BY <2>1, SavedIs DEF Persisted, Watermark
  <2>. QED
    BY <1>1, <1>3, <1>9, <2>1, <2>2, PingsQuiet, PingsSaved
<1>10. CASE Fetch(p) /\ Fetches(p)
  <2>1. tick'[p] # NoTick
    BY <1>10, Ticks DEF Fetches
  <2>. QED
    BY <1>1, <1>2, <1>3, <1>4, <1>10, <2>1, PingsFetched
<1>11. ASSUME Keeps(p), Look(p) \/ Claims(p) \/ Replies(p) \/ MarkPending(p) \/ DecideOtherwise(p)
       PROVE  PingsCounted'
  <2>1. tick'[p] # NoTick
    BY <1>11, Ticks DEF Keeps, Threading, InThreads
  <2>2. PingsBut({})
    BY <1>11, <2>1, PingsQuiet
  <2>. QED
    BY <1>1, <1>3, <1>4, <1>11, <2>1, <2>2, PingsKept
<1>12. ASSUME NEW pinged \in BOOLEAN, NEW nagged \in BOOLEAN, Saves(p, pinged, nagged),
              \/ Ping(p) /\ pinged /\ ~nagged
              \/ Ack(p) /\ ~pinged /\ ~nagged
              \/ Remind(p) /\ ~pinged /\ ~nagged /\ seen' = [seen EXCEPT !.merges = MergePing(p, @)]
              \/ Remind(p) /\ ~pinged /\ nagged /\ tick[p].nag /\ ~tick[p].touched
                 /\ seen' = [seen EXCEPT !.nags = @ + 1]
       PROVE  PingsCounted'
  <2>1. tick'[p] # NoTick
    BY <1>12, Ticks DEF Saves
  <2>2. tick[p].touched = FALSE => tick[p].merge = FALSE
    BY <1>12 DEF Saves, Threading, PingInv, InThreads
  <2>3. tick[p].merge \in BOOLEAN /\ tick[p].touched \in BOOLEAN
    BY <1>12 DEF Saves, Threading
  <2>4. /\ PingsBut({"pings", "nags", "merges"})
        /\ seen'.pings = IF pinged THEN seen.pings + 1 ELSE seen.pings
        /\ seen'.nags = IF nagged THEN seen.nags + 1 ELSE seen.nags
        /\ \/ seen'.merges = MergePing(p, seen.merges)
           \/ seen'.merges = seen.merges /\ ~tick[p].merge
    <3>1. CASE Ping(p) /\ pinged /\ ~nagged
      BY <1>5, <3>1 DEF Ping, PingsBut, Observers
    <3>2. CASE Ack(p) /\ ~pinged /\ ~nagged
      BY <1>5, <3>2 DEF Ack, PingsBut, Observers
    <3>3. CASE ~pinged /\ ~nagged /\ seen' = [seen EXCEPT !.merges = MergePing(p, @)]
      BY <1>5, <3>3 DEF PingsBut, Observers
    <3>4. CASE ~pinged /\ nagged /\ ~tick[p].touched /\ seen' = [seen EXCEPT !.nags = @ + 1]
      BY <1>5, <2>2, <2>3, <3>4 DEF PingsBut, Observers
    <3>. QED
      BY <1>12, <3>1, <3>2, <3>3, <3>4
  <2>5. (pinged => ~tick[p].pinged) /\ (nagged => tick[p].nag)
    BY <1>12 DEF Ping, WantsPing
  <2>. QED
    BY <1>1, <1>2, <1>3, <1>4, <1>12, <2>1, <2>4, <2>5, PingsSent
<1>13. \A i, b : Settles(p, i, b) => Keeps(p)
  BY DEF Settles
<1>14. \A i : (GoesOn(p, i) => Keeps(p)) /\ (TakesUp(p, i) => Keeps(p))
  BY DEF GoesOn, TakesUp
<1>15. CASE Replies(p)
  BY <1>11, <1>13, <1>14, <1>15 DEF Replies
<1>16. CASE \/ Ping(p) /\ Saves(p, TRUE, FALSE)
            \/ Ack(p) /\ Saves(p, FALSE, FALSE)
            \/ (Remind(p) /\ Saves(p, FALSE, FALSE) /\ seen' = [seen EXCEPT !.merges = MergePing(p, @)])
            \/ (Remind(p) /\ Saves(p, FALSE, TRUE) /\ tick[p].nag /\ ~tick[p].touched
                /\ seen' = [seen EXCEPT !.nags = @ + 1])
  BY <1>12, <1>16
<1>. QED
  BY <1>6, <1>7, <1>8, <1>9, <1>10, <1>11, <1>13, <1>14, <1>15, <1>16 DEF Moves

\* Outside the Reviewer's ticks, only approvals and stops are observed.
LEMMA OthersPings ==
    ASSUME TypeOK, [Next]_vars, UNCHANGED tick, ~Approve, ~\E p \in Pods : ReviewerStep(p) \/ Stop(p)
    PROVE  PingsBut({}) /\ RowKept /\ VotesKept
<1>1. seen \in Observers
  BY DEF TypeOK
<1>2. RowKept
  BY RowSteps DEF RowMoves, ReviewerStep
<1>3. VotesKept
  BY VcsSteps DEF VotesKept
<1>4. CASE seen' = seen
  BY <1>2, <1>3, <1>4 DEF PingsBut
<1>5. CASE ChatMarks \/ RestartCommand \/ \E p \in Pods : SeesGreen(p) \/ StartFix(p)
  BY <1>1, <1>2, <1>3, <1>5 DEF PingsBut, Observers, ChatMarks, RestartCommand, SeesGreen, StartFix
<1>6. seen' = seen \/ ChatMarks \/ RestartCommand \/ \E p \in Pods : SeesGreen(p) \/ StartFix(p)
  BY DEF Next, vars, DevOpsStep, Watch, SeesOther, RetryPipeline, GiveUp, FixRuns, FixEnds,
     Deploy, ChatIterates, Comment, Delete, ChangeStatus, PipelineStarts, PipelineEnds
<1>. QED
  BY <1>4, <1>5, <1>6

LEMMA PingSteps ==
    ASSUME TypeOK, AnswerInv, AloneInv, PingInv, [Next]_vars
    PROVE  PingInv'
<1>. SUFFICES ASSUME ~seen'.overlap PROVE PingsCounted'
  BY TicksTouched DEF PingInv, PingsCounted
<1>1. ~seen.overlap /\ PingsCounted
  BY OverlapStays DEF PingInv, PingsCounted
<1>2. SeenNumbers /\ seen \in Observers
  BY SeenFields DEF SeenNumbers, TypeOK
<1>3. ASSUME NEW p \in Pods, ReviewerStep(p)
      PROVE  PingsCounted'
  BY <1>3, ReviewerMoves, ReviewerPings
<1>4. ASSUME UNCHANGED tick, RowKept
      PROVE  /\ PingDue' = PingDue /\ NagDue' = NagDue /\ MergeDue' = MergeDue
             /\ Approved' = Approved
  BY <1>4 DEF PingDue, NagDue, MergeDue, Approved, RowKept
<1>5. ASSUME NEW p \in Pods, Stop(p)
      PROVE  PingsCounted'
  <2>. DEFINE c == IF tick[p].at = "idle" THEN seen.cut ELSE seen.cut + 1
              l == IF fix[p] = "idle" THEN seen.lost ELSE seen.lost + 1
  <2>1. seen' = [seen EXCEPT !.cut = c, !.lost = l]
    BY <1>5 DEF Stop
  <2>2. PingsBut({"cut"}) /\ seen'.cut = c
    <3>. HIDE DEF c, l
    <3>. QED
      BY <1>2, <2>1 DEF PingsBut, Observers
  <2>3. RowKept /\ VotesKept
    BY <1>5 DEF Stop, RowKept, VotesKept
  <2>4. CASE Busy(p)
    <3>1. \A q \in Pods : q # p => tick[q] = NoTick /\ tick'[q] = NoTick
      BY <1>5, <2>4, OthersIdle
    <3>2. tick'[p] = NoTick
      BY <1>5, Ended DEF Stop
    <3>3. ~MergeDue'
      BY <3>1, <3>2, DueIs, Ticks DEF InThreads
    <3>4. seen'.cut = seen.cut + 1
      BY <2>2, <2>4 DEF Busy
    <3>. QED
      BY <1>1, <1>2, <2>2, <2>3, <3>3, <3>4, PingsCut
  <2>5. CASE ~Busy(p)
    <3>1. tick[p] = NoTick
      BY <2>5, Ticks DEF Busy, TypeOK
    <3>2. UNCHANGED tick
      BY <1>5, <3>1 DEF Stop, EndTick, TypeOK
    <3>3. PingsBut({})
      BY <2>2, <2>5 DEF PingsBut, Busy
    <3>. QED
      BY <1>1, <1>4, <2>3, <3>2, <3>3, PingsStay DEF RowKept
  <2>. QED
    BY <2>4, <2>5
<1>6. CASE Approve
  <2>1. UNCHANGED <<row, tick>>
    BY <1>6 DEF Approve
  <2>2. RowKept
    BY <2>1 DEF RowKept
  <2>3. /\ PingDue' = PingDue /\ NagDue' = NagDue /\ MergeDue' = MergeDue /\ Approved' = Approved
    BY <1>4, <2>1, <2>2
  <2>. DEFINE n == IF vcs.approved THEN seen.approvals ELSE seen.approvals + 1
  <2>4. seen' = [seen EXCEPT !.approvals = n]
    BY <1>6 DEF Approve
  <2>5. /\ seen'.pings = seen.pings /\ seen'.nags = seen.nags /\ seen'.merges = seen.merges
        /\ seen'.cut = seen.cut /\ seen'.misread = seen.misread /\ seen'.approvals = n
    <3>. HIDE DEF n
    <3>. QED
      BY <1>2, <2>4 DEF Observers
  <2>6. vcs'.approved = ~vcs.approved /\ vcs.approved \in BOOLEAN
    BY <1>6 DEF Approve, TypeOK, GitLab
  <2>7. /\ One(row.pinged \/ PingDue)' = One(row.pinged \/ PingDue)
        /\ One(row.nagged \/ NagDue)' = One(row.nagged \/ NagDue)
        /\ One(MergeDue)' = One(MergeDue)
    BY <2>2, <2>3 DEF One, RowKept
  <2>8. /\ One(vcs.approved /\ ~Approved) \in {0, 1} /\ One(vcs.approved /\ ~Approved)' \in {0, 1}
        /\ vcs.approved => One(vcs.approved /\ ~Approved)' = 0
        /\ One(MergeDue) \in {0, 1}
    BY <2>6 DEF One
  <2>9. /\ n \in Nat /\ n >= seen.approvals
        /\ ~vcs.approved => n = seen.approvals + 1
    BY <1>2 DEF SeenNumbers
  <2>10. seen'.merges + One(MergeDue)' + One(vcs.approved /\ ~Approved)'
           <= seen'.approvals + seen'.cut + seen'.misread
    <3>. HIDE DEF n
    <3>1. seen.merges + One(MergeDue) + One(vcs.approved /\ ~Approved)
            <= seen.approvals + seen.cut + seen.misread
      BY <1>1 DEF PingsCounted
    <3>2. CASE vcs.approved
      BY <1>2, <2>5, <2>7, <2>8, <2>9, <3>1, <3>2 DEF SeenNumbers
    <3>3. CASE ~vcs.approved
      BY <1>2, <2>5, <2>7, <2>8, <2>9, <3>1, <3>3 DEF SeenNumbers
    <3>. QED
      BY <3>2, <3>3
  <2>. QED
    BY <1>1, <2>5, <2>7, <2>10 DEF PingsCounted
<1>7. CASE UNCHANGED tick /\ ~Approve /\ ~\E p \in Pods : ReviewerStep(p) \/ Stop(p)
  <2>1. PingsBut({}) /\ RowKept /\ VotesKept
    BY <1>7, OthersPings
  <2>. QED
    BY <1>1, <1>4, <1>7, <2>1, PingsStay DEF RowKept
<1>. QED
  BY <1>3, <1>5, <1>6, <1>7, TickMoves

-----------------------------------------------------------------------------
(* No ask is ghosted.                                                      *)

\* Covered after the step.
CoveredNext(c, T) ==
    \E d \in comments' :
        /\ d.discussion = c.discussion /\ d.id >= c.id
        /\ d.gone \/ d.id \in T \cup Settled' \cup seen'.unread

LEMMA CoverKept ==
    ASSUME UNCHANGED comments, NEW c \in comments, NEW S, NEW T,
           S \cup Settled \cup seen.unread \subseteq T \cup Settled' \cup seen'.unread,
           Covered(c, S)
    PROVE  CoveredNext(c, T)
BY DEF Covered, CoveredNext

LEMMA TheIs ==
    ASSUME CommentInv, NEW c \in comments
    PROVE  The(c.id) = c
BY DEF CommentInv, The

\* A set of comments of which j is one has a newest one in the discussion of j.
LEMMA Newest ==
    ASSUME TypeOK, NEW asked \in SUBSET Ids, NEW j \in asked
    PROVE  \E e \in asked : /\ e >= j /\ The(e).discussion = The(j).discussion
                            /\ Newer(e) \cap asked = {}
<1>. DEFINE T == {x \in asked : x >= j /\ The(x).discussion = The(j).discussion}
<1>1. T \in SUBSET (1 .. MaxComments) /\ \A x \in asked : x \in Nat
  BY IdsAreNumbers
<1>2. j \in T
  BY <1>1
<1>3. PICK e \in T : \A y \in T : y <= e
  <2>. HIDE DEF T
  <2>. QED
    BY <1>1, <1>2, Greatest, Naturals
<1>4. ASSUME NEW k \in Newer(e) \cap asked PROVE FALSE
  <2>1. k > e /\ The(k).discussion = The(e).discussion
    BY <1>4 DEF Newer
  <2>2. k \in T
    BY <1>1, <1>3, <2>1
  <2>. QED
    BY <1>1, <1>3, <2>1, <2>2
<1>. QED
  BY <1>3, <1>4

\* The newest ask of the discussion is a candidate.
LEMMA CandidateIs ==
    ASSUME TypeOK, CommentInv, NEW t, NEW c \in comments, ~c.gone,
           c.id \in t.pending \/ (c.id > t.seen /\ c.ask)
    PROVE  \E d \in comments : /\ d.discussion = c.discussion /\ d.id >= c.id
                               /\ d.id \in Candidates(Ids, t)
<1>. DEFINE asked == (Ids \cap t.pending) \cup {i \in NewComments(Ids, t.seen) : Actionable(i)}
<1>1. c.id \in Ids /\ The(c.id) = c
  BY TheIs DEF Ids
<1>2. asked \in SUBSET Ids /\ c.id \in asked
  BY <1>1, IdsAreNumbers DEF NewComments, Actionable
<1>3. PICK e \in asked : /\ e >= c.id /\ The(e).discussion = The(c.id).discussion
                         /\ Newer(e) \cap asked = {}
  <2>. HIDE DEF asked
  <2>. QED
    BY <1>2, Newest
<1>4. e \in Candidates(Ids, t)
  BY <1>3 DEF Candidates
<1>5. PICK d \in comments : d.id = e
  BY <1>2, <1>3 DEF Ids
<1>6. The(e) = d
  BY <1>5, TheIs
<1>. QED
  BY <1>1, <1>3, <1>4, <1>5, <1>6

\* With one tick, that of p, its claim is the one in hand.
LEMMA InHandIs ==
    ASSUME NEW p \in Pods, \A q \in Pods : q # p => tick[q] = NoTick /\ tick'[q] = NoTick
    PROVE  /\ InHand = IF Owner(p) THEN {Hand(p)} ELSE {}
           /\ InHand' = IF Owner(p)' THEN {Hand(p)'} ELSE {}
<1>1. NoTick.at \notin {"replying", "announcing", "iterating", "pushed"}
  BY Ticks
<1>2. {q \in Pods : Owner(q)} = IF Owner(p) THEN {p} ELSE {}
  BY <1>1 DEF Owner
<1>3. {q \in Pods : Owner(q)}' = IF Owner(p)' THEN {p} ELSE {}
  BY <1>1 DEF Owner
<1>. QED
  BY <1>2, <1>3 DEF InHand, Hand

\* What was ignored stays ignored.
LEMMA IgnoredStays ==
    ASSUME TypeOK, AnswerInv, [Next]_vars
    PROVE  seen.ignored \subseteq seen'.ignored
<1>1. "ignored" \in Observed
  BY DEF Observed
<1>. QED
  BY <1>1, SeenSteps DEF SeenMoves, AllBut

\* What was dropped stays dropped, unless a tick of its own takes it up again.
LEMMA UnreadStays ==
    ASSUME TypeOK, AnswerInv, AloneInv, [Next]_vars, ~seen.overlap
    PROVE  /\ seen.unread \subseteq seen'.unread \cup row.pending
           /\ \A p \in Pods : Busy(p)' /\ ~Fetch(p) => seen'.unread = seen.unread
<1>1. "unread" \in Observed
  BY DEF Observed
<1>2. \/ seen'.unread = seen.unread
      \/ \E q \in Pods : Fetch(q) /\ seen'.unread \in {seen.unread \ tick[q].pending,
                                                       seen.unread \cup tick[q].pending}
  BY <1>1, SeenSteps DEF SeenMoves, AllBut
<1>3. ASSUME NEW q \in Pods, Fetch(q)
      PROVE  tick[q].pending = row.pending /\ \A p \in Pods : Busy(p)' => p = q
  <2>1. tick[q].at = "loaded" /\ Busy(q) /\ Alone(q)
    BY <1>3, FetchMoves DEF Fetch, Busy
  <2>. QED
    BY <2>1 DEF AloneInv, Alone, Busy
<1>. QED
  BY <1>2, <1>3

\* What a step of a tick settles stays settled; what the tick lets go of it
\* settled or left pending.
LEMMA SettledMoves ==
    ASSUME TypeOK, AnswerInv, [Next]_vars, NEW p \in Pods, ReviewerStep(p), Moves(p),
           \A q \in Pods : q # p => tick[q] = NoTick /\ tick'[q] = NoTick
    PROVE  /\ Settled \subseteq Settled'
           /\ Keeps(p) => Open(p) \cup Settled \subseteq Open(p)' \cup Settled'
<1>. DEFINE i == Hand(p)
            Goal == /\ Settled \subseteq Settled'
                    /\ Keeps(p) => Open(p) \cup Settled \subseteq Open(p)' \cup Settled'
<1>0. /\ InHand = IF Owner(p) THEN {i} ELSE {}
      /\ InHand' = IF Owner(p)' THEN {i'} ELSE {}
      /\ Owner(p) => i \in claims
  BY InHandIs DEF AnswerInv, Hand
<1>1. ASSUME claims \ InHand \subseteq claims' \ InHand'
      PROVE  Settled \subseteq Settled'
  BY <1>1, IgnoredStays DEF Settled
<1>2. claims' \ InHand' \subseteq Settled' /\ seen'.ignored \subseteq Settled'
  BY DEF Settled
<1>3. ASSUME Keeps(p)
      PROVE  /\ Open(p) = tick[p].still \cup tick[p].todo
             /\ Open(p)' = tick'[p].still \cup tick'[p].todo
  BY <1>3 DEF Keeps, Threading, InThreads, Open
<1>4. ASSUME NEW j, Settles(p, j, TRUE), Owner(p) => j = i, claims' = claims \/ (Owner(p) /\ claims' = claims \ {j})
      PROVE  Goal
  <2>1. InHand' = {} /\ Open(p) \subseteq Open(p)'
    BY <1>0, <1>3, <1>4 DEF Settles, Owner
  <2>2. claims \ InHand \subseteq claims' \ InHand'
    BY <1>0, <1>4, <2>1
  <2>. QED
    BY <1>1, <2>1, <2>2
<1>5. ASSUME NEW j, Settles(p, j, FALSE), claims' = claims, j \in claims \cup seen'.ignored
      PROVE  Goal
  <2>1. InHand' = {} /\ Open(p) \subseteq Open(p)' \cup {j}
    BY <1>0, <1>3, <1>5 DEF Settles, Owner
  <2>2. claims \ InHand \subseteq claims' \ InHand' /\ j \in Settled'
    BY <1>2, <1>5, <2>1
  <2>. QED
    BY <1>1, <2>1, <2>2
<1>6. ASSUME NEW at, GoesOn(p, at) \/ (TakesUp(p, i') /\ ~Owner(p)'), claims \ InHand \subseteq claims' \ InHand'
      PROVE  Goal
  <2>1. Keeps(p) /\ Open(p)' = Open(p)
    BY <1>3, <1>6 DEF GoesOn, TakesUp
  <2>. QED
    BY <1>1, <1>6, <2>1
<1>7. CASE \/ Load(p) /\ Loads(p)
           \/ (LeaveAlone(p) \/ Break(p) \/ Persist(p)) /\ tick'[p] = NoTick
           \/ DecideOtherwise(p) /\ tick'[p] = NoTick
           \/ Fetch(p) /\ Fetches(p)
           \/ (Ping(p) \/ Ack(p) \/ Remind(p)) /\ \E nagged, pinged \in BOOLEAN : Saves(p, pinged, nagged)
  <2>1. claims' = claims
    BY <1>7 DEF Load, LeaveAlone, Break, Persist, Fetch, Ping, Ack, Remind, DecideOtherwise
  <2>2. ~Owner(p)' /\ tick'[p].at \in {"loaded", "idle", "threads", "saving"}
    BY <1>7, Ticks DEF Loads, Fetches, Saves, Owner
  <2>3. claims \ InHand \subseteq claims' \ InHand'
    BY <1>0, <2>1, <2>2
  <2>4. ~Keeps(p)
    BY <1>7, Ticks DEF Load, Fetch, Loads, Saves, Savings, Keeps, Threading, InThreads, LeaveAlone, Break, Persist
  <2>. QED
    BY <1>1, <2>3, <2>4
<1>8. CASE Look(p)
  <2>1. claims' = claims /\ ~Owner(p)
    BY <1>8 DEF Look, Owner
  <2>2. PICK j \in tick[p].todo : IF j \in claims THEN Settles(p, j, FALSE) ELSE TakesUp(p, j)
    BY <1>8, LookMoves
  <2>3. CASE j \in claims
    BY <1>5, <2>1, <2>2, <2>3
  <2>4. CASE j \notin claims
    <3>1. TakesUp(p, i') /\ ~Owner(p)'
      BY <2>2, <2>4 DEF TakesUp, Hand, Owner
    <3>. QED
      BY <1>0, <1>6, <2>1, <3>1
  <2>. QED
    BY <2>3, <2>4
<1>9. CASE /\ Claims(p) /\ tick[p].at = "deciding" /\ UNCHANGED claims
           /\ (Settles(p, i, TRUE) \/ (i \in claims /\ Settles(p, i, FALSE)))
  BY <1>4, <1>5, <1>9
<1>10. CASE /\ Claims(p) /\ tick[p].at = "deciding" /\ i \notin claims /\ claims' = claims \cup {i}
            /\ \E answer \in Answers : GoesOn(p, answer)
  <2>1. PICK answer \in Answers : GoesOn(p, answer)
    BY <1>10
  <2>2. ~Owner(p) /\ Owner(p)' /\ i' = i
    BY <1>10, <2>1 DEF Owner, GoesOn, Answers, Hand
  <2>3. claims \ InHand \subseteq claims' \ InHand'
    BY <1>0, <1>10, <2>2
  <2>. QED
    BY <1>6, <2>1, <2>3
<1>11. CASE /\ DecideOtherwise(p) /\ tick[p].at = "deciding"
            /\ \/ Settles(p, i, FALSE) /\ seen' = [seen EXCEPT !.ignored = @ \cup {i}]
               \/ Settles(p, i, TRUE) /\ UNCHANGED seen
  <2>1. claims' = claims
    BY <1>11 DEF DecideOtherwise
  <2>2. CASE Settles(p, i, TRUE)
    BY <1>4, <2>1, <2>2
  <2>3. CASE Settles(p, i, FALSE) /\ seen' = [seen EXCEPT !.ignored = @ \cup {i}]
    <3>1. i \in seen'.ignored
      BY <2>3 DEF TypeOK, Observers
    <3>. QED
      BY <1>5, <2>1, <2>3, <3>1
  <2>. QED
    BY <1>11, <2>2, <2>3
<1>12. CASE Replies(p)
  <2>1. tick[p].at \in Answers \cup {"iterating"} /\ Owner(p) /\ i \in claims
    BY <1>0, <1>12 DEF Replies, Owner, Answers
  <2>2. CASE Released(p, i) /\ Settles(p, i, TRUE)
    BY <1>4, <2>1, <2>2 DEF Released
  <2>3. CASE UNCHANGED claims /\ Settles(p, i, FALSE)
    BY <1>5, <2>1, <2>3
  <2>4. CASE UNCHANGED claims /\ (GoesOn(p, "iterating") \/ GoesOn(p, "pushed"))
    <3>1. Owner(p)' /\ i' = i
      BY <2>4 DEF GoesOn, Owner, Hand
    <3>. QED
      BY <1>0, <1>6, <2>1, <2>4, <3>1
  <2>. QED
    BY <1>12, <2>2, <2>3, <2>4 DEF Replies
<1>13. CASE MarkPending(p) /\ tick[p].at = "pushed" /\ Settles(p, i, FALSE)
  <2>1. claims' = claims /\ i \in claims
    BY <1>0, <1>13 DEF MarkPending, Owner
  <2>. QED
    BY <1>5, <1>13, <2>1
<1>. QED
  BY <1>7, <1>8, <1>9, <1>10, <1>11, <1>12, <1>13 DEF Moves

\* What is settled stays settled, whatever happens.
LEMMA SettledStays ==
    ASSUME TypeOK, AnswerInv, AloneInv, [Next]_vars, ~seen'.overlap
    PROVE  Settled \subseteq Settled'
<1>1. ASSUME NEW p \in Pods, ReviewerStep(p)
      PROVE  Settled \subseteq Settled'
  BY <1>1, ReviewerMoves, OthersIdle, SettledMoves
<1>2. ASSUME AnswersKept, InHand' \subseteq InHand
      PROVE  Settled \subseteq Settled'
  BY <1>2, IgnoredStays DEF Settled, AnswersKept
<1>3. ASSUME NEW p \in Pods, Stop(p)
      PROVE  Settled \subseteq Settled'
  <2>1. Alone(p) /\ tick'[p] = NoTick
    BY <1>3, Ended DEF Stop
  <2>2. \A q \in Pods : Owner(q)' => q # p /\ Owner(q) /\ tick'[q] = tick[q]
    BY <2>1, Ticks DEF Owner, Alone
  <2>3. InHand' \subseteq InHand
    BY <2>2 DEF InHand
  <2>. QED
    BY <1>2, <1>3, <2>3, Quiet
<1>4. CASE UNCHANGED tick /\ ~\E p \in Pods : ReviewerStep(p)
  <2>1. AnswersKept
    BY <1>4, Quiet, QuietElse DEF Next
  <2>2. InHand' = InHand
    BY <1>4 DEF InHand, Owner
  <2>. QED
    BY <1>2, <2>1, <2>2
<1>. QED
  BY <1>1, <1>3, <1>4, TickMoves

\* The tick that p has after the step, if it has fetched the comments.
LEMMA OpenMoves ==
    ASSUME TypeOK, AnswerInv, AloneInv, [Next]_vars, ~seen'.overlap, NEW p \in Pods,
           tick'[p].at \in Fetched
    PROVE  \/ /\ tick[p].at \in Fetched /\ Watermark(p)' = Watermark(p)
              /\ Open(p) \cup Settled \subseteq Open(p)' \cup Settled'
           \/ Fetch(p) /\ Fetches(p)
<1>0. Busy(p)' /\ RowKept /\ Settled \subseteq Settled'
  BY RowKeptMeanwhile, SettledStays DEF Busy, Fetched, InThreads
<1>1. CASE tick'[p] = tick[p]
  BY <1>0, <1>1 DEF Open, Watermark, RowKept
<1>2. CASE Load(p) /\ Loads(p)
  BY <1>2 DEF Loads, Fetched, InThreads
<1>3. ASSUME NEW pinged, NEW nagged, Saves(p, pinged, nagged)
      PROVE  /\ tick[p].at \in Fetched /\ Watermark(p)' = Watermark(p)
             /\ Open(p) \cup Settled \subseteq Open(p)' \cup Settled'
  BY <1>0, <1>3 DEF Saves, Open, Watermark, RowKept, Fetched, InThreads
<1>4. CASE Keeps(p) /\ tick'[p] # tick[p]
  <2>1. ReviewerStep(p) /\ Moves(p)
    BY <1>0, <1>4, TickMoves, Ticks DEF Alone, Busy
  <2>2. Open(p) \cup Settled \subseteq Open(p)' \cup Settled'
    BY <1>4, <2>1, OthersIdle, SettledMoves
  <2>3. tick[p].at \in Fetched /\ Watermark(p)' = Watermark(p)
    BY <1>0, <1>4 DEF Keeps, Threading, Fetched, Watermark, RowKept
  <2>. QED
    BY <2>2, <2>3
<1>. QED
  BY <1>0, <1>1, <1>2, <1>3, <1>4, PodMoves

\* Every ask up to the watermark of what p fetched is among its candidates, or
\* covered.
LEMMA FetchCovers ==
    ASSUME TypeOK, CommentInv, AnswerInv, AloneInv, CoverInv, [Next]_vars, ~seen'.overlap,
           NEW p \in Pods, Fetch(p), Fetches(p), NEW c \in comments, c.ask, c.id <= Watermark(p)'
    PROVE  CoveredNext(c, Open(p)')
<1>. DEFINE t == tick[p]
<1>0. /\ ~seen.overlap /\ Settled \subseteq Settled' /\ UNCHANGED <<comments, row>>
      /\ comments \subseteq Comments
  BY OverlapStays, SettledStays DEF Fetch, TypeOK
<1>1. t.seen = row.seen /\ t.pending = row.pending /\ row.seen \in Nat /\ c.id \in Nat
  BY <1>0 DEF Fetch, AloneInv, TypeOK, Rows, Comments
<1>2. PICK listed \in Listings :
         /\ Open(p)' = Candidates(listed, t)
         /\ tick'[p].seen = IF NewComments(listed, t.seen) = {} THEN None
                            ELSE Max(NewComments(listed, t.seen))
         /\ seen'.unread = IF listed = Ids THEN seen.unread \ t.pending
                           ELSE seen.unread \cup t.pending
  BY DEF Fetches, Open
<1>7. ASSUME c.id <= row.seen
      PROVE  \E d \in comments : /\ d.discussion = c.discussion /\ d.id >= c.id
                                 /\ d.gone \/ d.id \in row.pending \cup Settled \cup seen.unread
  BY <1>0, <1>7 DEF CoverInv, Covered
<1>8. CASE listed # Ids
  <2>1. NewComments(listed, t.seen) = {}
    BY <1>2, <1>8 DEF Listings, NewComments
  <2>2. c.id <= row.seen
    BY <1>0, <1>2, <2>1 DEF Watermark
  <2>. QED
    BY <1>0, <1>1, <1>2, <1>7, <1>8, <2>2 DEF CoveredNext
<1>9. CASE listed = Ids
  <2>3. ASSUME NEW d \in comments, d.discussion = c.discussion, d.id >= c.id,
               d.id \in t.pending \/ (d.id > t.seen /\ d.ask), ~d.gone
        PROVE  CoveredNext(c, Open(p)')
    <3>1. PICK e \in comments : /\ e.discussion = d.discussion /\ e.id >= d.id
                                /\ e.id \in Candidates(Ids, t)
      BY <2>3, CandidateIs
    <3>2. e.id \in Nat /\ d.id \in Nat
      BY <1>0 DEF Comments
    <3>3. e.discussion = c.discussion /\ e.id >= c.id
      BY <1>1, <2>3, <3>1, <3>2
    <3>. QED
      BY <1>0, <1>2, <1>9, <3>1, <3>3 DEF CoveredNext
  <2>4. CASE c.gone
    BY <1>0, <1>1, <2>4 DEF CoveredNext
  <2>5. CASE ~c.gone /\ c.id > t.seen
    BY <1>1, <2>3, <2>5
  <2>6. CASE c.id <= row.seen
    <3>1. PICK d \in comments : /\ d.discussion = c.discussion /\ d.id >= c.id
                                /\ d.gone \/ d.id \in row.pending \cup Settled \cup seen.unread
      BY <1>7, <2>6
    <3>2. CASE d.gone \/ d.id \in Settled \/ d.id \in seen'.unread
      BY <1>0, <3>1, <3>2 DEF CoveredNext
    <3>3. CASE ~d.gone /\ d.id \in t.pending
      BY <2>3, <3>1, <3>3
    <3>4. d.id \in seen.unread => d.id \in seen'.unread \cup t.pending
      BY <1>2, <1>9
    <3>. QED
      BY <1>1, <3>1, <3>2, <3>3, <3>4
  <2>. QED
    BY <1>1, <2>4, <2>5, <2>6
<1>. QED
  BY <1>8, <1>9

\* The invariant after the step, comment by comment.
CoversNext(c) ==
    /\ c.id <= row'.seen => CoveredNext(c, row'.pending)
    /\ \A p \in Pods :
        tick'[p].at \in Fetched /\ c.id <= Watermark(p)' => CoveredNext(c, Open(p)')

LEMMA CoverSteps ==
    ASSUME TypeOK, CommentInv, WatermarkInv, AnswerInv, AloneInv, CoverInv, [Next]_vars
    PROVE  CoverInv'
<1>. SUFFICES ASSUME ~seen'.overlap, NEW c \in comments', c.ask
              PROVE  CoversNext(c)
  BY DEF CoverInv, CoversNext, CoveredNext, Covered
<1>0. /\ ~seen.overlap /\ Settled \subseteq Settled' /\ CommentMoves /\ comments \subseteq Comments
      /\ Cardinality(comments) \in Nat /\ comments' \subseteq Comments
  BY OverlapStays, SettledStays, CommentSteps, FS_CardinalityType DEF TypeOK, CommentInv, CommentsTyped
<1>1. CASE UNCHANGED comments
  <2>0. c \in comments
    BY <1>1
  <2>1. ASSUME c.id <= row'.seen
        PROVE  CoveredNext(c, row'.pending)
    <3>1. CASE RowKept
      <4>1. seen.unread \subseteq seen'.unread \cup row.pending
        BY <1>0, UnreadStays
      <4>2. Covered(c, row.pending) /\ row'.pending = row.pending
        BY <1>0, <2>0, <2>1, <3>1 DEF RowKept, CoverInv
      <4>. QED
        BY <1>0, <1>1, <2>0, <4>1, <4>2, CoverKept
    <3>2. ASSUME NEW p \in Pods, Persist(p), tick[p] \in Savings, Persisted(p)
          PROVE  CoveredNext(c, row'.pending)
      <4>1. tick[p].at \in Fetched /\ c.id <= Watermark(p) /\ row'.pending = Open(p)
        BY <2>1, <3>2 DEF Persist, Persisted, Fetched, Open
      <4>2. Covered(c, Open(p)) /\ seen' = seen
        BY <1>0, <2>0, <3>2, <4>1 DEF CoverInv, Persist
      <4>. QED
        BY <1>0, <1>1, <2>0, <4>1, <4>2, CoverKept
    <3>. QED
      BY <3>1, <3>2, RowSteps DEF RowMoves
  <2>2. ASSUME NEW p \in Pods, tick'[p].at \in Fetched, c.id <= Watermark(p)'
        PROVE  CoveredNext(c, Open(p)')
    <3>1. CASE Fetch(p) /\ Fetches(p)
      BY <2>0, <2>2, <3>1, FetchCovers
    <3>2. CASE /\ tick[p].at \in Fetched /\ Watermark(p)' = Watermark(p)
               /\ Open(p) \cup Settled \subseteq Open(p)' \cup Settled' /\ ~Fetch(p)
      <4>1. Covered(c, Open(p))
        BY <1>0, <2>0, <2>2, <3>2 DEF CoverInv
      <4>2. seen'.unread = seen.unread
        BY <1>0, <2>2, <3>2, UnreadStays DEF Busy, Fetched, InThreads
      <4>. QED
        BY <1>1, <2>0, <3>2, <4>1, <4>2, CoverKept
    <3>3. Fetch(p) => Fetches(p)
      BY FetchMoves
    <3>. QED
      BY <2>2, <3>1, <3>2, <3>3, OpenMoves
  <2>. QED
    BY <2>1, <2>2 DEF CoversNext
<1>2. CASE Comment \/ Delete
  <2>1. row' = row /\ tick' = tick /\ seen' = seen
    BY <1>2 DEF Comment, Delete
  <2>2. \A p \in Pods : Watermark(p)' = Watermark(p) /\ Open(p)' = Open(p)
    BY <2>1 DEF Watermark, Open
  <2>3. ASSUME \/ c \notin comments /\ c.id = Cardinality(comments')
                  /\ Cardinality(comments') = Cardinality(comments) + 1
        PROVE  CoversNext(c)
    <3>1. c.id > row.seen
      BY <1>0, <2>3 DEF WatermarkInv, TypeOK, Rows
    <3>2. ASSUME NEW p \in Pods, tick[p].at \in Fetched PROVE ~(c.id <= Watermark(p))
      <4>1. Watermark(p) <= Cardinality(comments) /\ Watermark(p) \in Nat
        BY <3>2, Ticks DEF WatermarkInv, Watermark, TypeOK, Rows, Fetched, Threading, Savings
      <4>. QED
        BY <1>0, <2>3, <4>1
    <3>. QED
      BY <1>0, <2>1, <2>2, <2>3, <3>1, <3>2 DEF CoversNext, TypeOK, Rows
  <2>4. ASSUME c \in comments, NEW S, Covered(c, S), comments \subseteq comments'
        PROVE  CoveredNext(c, S)
    BY <1>0, <2>1, <2>4 DEF Covered, CoveredNext
  <2>5. ASSUME NEW c0 \in comments, NEW d0 \in Comments, comments' = (comments \ {c0}) \cup {d0},
               d0.gone, d0.id = c0.id, d0.discussion = c0.discussion, c \in comments, NEW S,
               Covered(c, S)
        PROVE  CoveredNext(c, S)
    BY <1>0, <2>1, <2>5 DEF Covered, CoveredNext
  <2>6. CASE c.gone
    <3>1. \A S : CoveredNext(c, S)
      BY <1>0, <2>6 DEF CoveredNext, Comments
    <3>. QED
      BY <3>1 DEF CoversNext
  <2>7. ASSUME c \in comments, \A S : Covered(c, S) => CoveredNext(c, S)
        PROVE  CoversNext(c)
    BY <1>0, <2>1, <2>2, <2>7 DEF CoversNext, CoverInv
  <2>8. CASE UNCHANGED comments
    BY <1>1, <2>8
  <2>. QED
    BY <1>0, <2>3, <2>4, <2>5, <2>6, <2>7, <2>8 DEF CommentMoves
<1>. QED
  BY <1>0, <1>1, <1>2 DEF CommentMoves

-----------------------------------------------------------------------------
(* The theorems.                                                           *)

LEMMA InitHolds == ASSUME Init PROVE IInv
<1>. USE Naturals
<1>1. row \in Rows /\ vcs \in GitLab /\ seen \in Observers
  BY DEF Init, Rows, GitLab, Observers, None
<1>2. /\ \A p \in Pods : tick[p] = NoTick /\ watch[p] = NoWatch /\ fix[p] = "idle"
      /\ NoTick.at = "idle" /\ NoWatch.at = "idle"
  BY Ticks DEF Init
<1>3. TypeOK
  <2>1. left \in [Bounds -> Nat] /\ up \subseteq Pods
    BY MergeRequestAssumption DEF Init
  <2>2. /\ row.infra <= MaxInfra + Cardinality(Pods) - 1 /\ vcs.of <= vcs.head
        /\ claims = {} /\ comments = {} /\ chat \in 0 .. MaxCommits
    BY DEF Init, None
  <2>3. /\ tick \in [Pods -> {NoTick} \cup Loaded \cup Threading \cup Savings]
        /\ watch \in [Pods -> {NoWatch} \cup Watches]
        /\ fix \in [Pods -> {"idle", "running", "pushed", "failed"}]
    BY DEF Init
  <2>. QED
    BY <1>1, <1>2, <2>1, <2>2, <2>3 DEF TypeOK
<1>4. CommentInv /\ WatermarkInv /\ CoverInv
  <2>1. comments = {} /\ IsFiniteSet({}) /\ Cardinality({}) = 0 /\ row.seen = 0
    BY FS_EmptySet DEF Init
  <2>. QED
    BY <1>2, <2>1 DEF CommentInv, WatermarkInv, CoverInv, Fetched, InThreads
<1>5. AnswerInv
  <2>1. \A i \in 1 .. MaxComments : seen.answers[i] = 0
    BY DEF Init
  <2>. QED
    BY <1>2, <2>1 DEF AnswerInv, InThreads, Owner, Answers
<1>6. AloneInv
  BY <1>2 DEF AloneInv, Busy, InThreads
<1>7. PingInv
  <2>1. seen.pings = 0 /\ seen.nags = 0 /\ seen.merges = 0 /\ seen.approvals = 0 /\ seen.cut = 0
        /\ seen.misread = 0 /\ vcs.approved = FALSE
    BY DEF Init
  <2>2. ~MergeDue
    BY <1>2 DEF MergeDue, InThreads
  <2>. QED
    BY <1>2, <2>1, <2>2 DEF PingInv, InThreads, One
<1>8. FixInv
  <2>1. InFlight = {} /\ MayFix = {} /\ MayRetry = {}
    BY <1>2 DEF InFlight, MayFix, MayRetry
  <2>2. Cardinality(InFlight) = 0 /\ Cardinality(MayFix) = 0 /\ Cardinality(MayRetry) = 0
    BY <2>1, FS_EmptySet
  <2>3. seen.fixes = 0 /\ seen.lost = 0 /\ row.attempts = 0 /\ row.infra = 0
    BY DEF Init
  <2>. QED
    BY <2>2, <2>3 DEF FixInv
<1>. QED
  BY <1>3, <1>4, <1>5, <1>6, <1>7, <1>8 DEF IInv

\* The inductive invariant: comments and watermarks, the claim in hand, one tick
\* at a time, what a tick has settled, pings on their way to the row, and the
\* auto-fixes under way.
THEOREM Inductive == Spec => []IInv
<1>1. Init => IInv
  BY InitHolds
<1>2. IInv /\ [Next]_vars => IInv'
  <2>. SUFFICES ASSUME IInv, [Next]_vars PROVE IInv'
    OBVIOUS
  <2>1. /\ TypeOK /\ CommentInv /\ WatermarkInv /\ AnswerInv /\ AloneInv /\ CoverInv
        /\ PingInv /\ FixInv
    BY DEF IInv
  <2>2. TypeOK' /\ CommentInv' /\ WatermarkInv' /\ AnswerInv' /\ AloneInv'
    BY <2>1, TypeSteps, CommentSteps, WatermarkSteps, AnswerSteps, AloneSteps
  <2>3. CoverInv' /\ PingInv' /\ FixInv'
    BY <2>1, CoverSteps, PingSteps, FixInvSteps
  <2>. QED
    BY <2>2, <2>3 DEF IInv
<1>. QED
  BY <1>1, <1>2, PTL DEF Spec

\* The row, GitLab's side and every tick have their types, a pod that does not
\* run works on nothing, and the retries of a pipeline stay within
\* max_infra_retries and one stale tick of each other pod.
THEOREM TypeCorrect == Spec => []TypeOK
<1>1. IInv => TypeOK
  BY DEF IInv
<1>. QED
  BY <1>1, Inductive, PTL

\* A comment gets one answer: try_claim of the claims table decides, whatever
\* pods overlap, stop or give claims back.
THEOREM OneAnswer == Spec => []AnsweredOnce
<1>1. IInv => AnsweredOnce
  BY DEF IInv, AnswerInv, AnsweredOnce
<1>. QED
  BY <1>1, Inductive, PTL

\* The watermark that _persist_tick_state writes passes no ask that is neither
\* pending nor claimed, ignored or deleted, unless two ticks overlapped.
THEOREM NoGhosts == Spec => []NothingGhosted
<1>1. IInv => NothingGhosted
  <2>. SUFFICES ASSUME IInv, NEW c \in comments, c.ask, c.id <= row.seen, ~seen.overlap
                PROVE  \E d \in comments :
                         /\ d.discussion = c.discussion /\ d.id >= c.id
                         /\ \/ d.gone
                            \/ d.id \in row.pending \cup claims \cup seen.ignored \cup seen.unread
    BY DEF NothingGhosted
  <2>1. Covered(c, row.pending)
    BY DEF IInv, CoverInv
  <2>. QED
    BY <2>1 DEF Covered, Settled
<1>. QED
  BY <1>1, Inductive, PTL

\* "Please review", the reminder and "ready to merge" go out once, but for ticks
\* that were cut before they persisted and approvals that could not be read,
\* unless two ticks overlapped.
THEOREM OnePing == Spec => []PingedOnce
<1>1. IInv => PingedOnce
  <2>. SUFFICES ASSUME IInv, ~seen.overlap
                PROVE  /\ seen.pings <= 1 + seen.cut /\ seen.nags <= 1 + seen.cut
                       /\ seen.merges <= seen.approvals + seen.cut + seen.misread
    BY DEF PingedOnce
  <2>1. /\ seen.pings <= seen.cut + One(row.pinged \/ PingDue)
        /\ seen.nags <= seen.cut + One(row.nagged \/ NagDue)
        /\ seen.merges + One(MergeDue) + One(vcs.approved /\ ~Approved)
             <= seen.approvals + seen.cut + seen.misread
    BY DEF IInv, PingInv
  <2>2. /\ seen.pings \in Nat /\ seen.nags \in Nat /\ seen.merges \in Nat
        /\ seen.approvals \in Nat /\ seen.cut \in Nat
        /\ seen.misread \in Nat
    BY SeenFields DEF IInv, TypeOK
  <2>3. \A b : One(b) \in {0, 1}
    BY DEF One
  <2>. QED
    BY <2>1, <2>2, <2>3
<1>. QED
  BY <1>1, Inductive, PTL

\* A red pipeline costs at most max_autofix_attempts auto-fixes, but for what a
\* pod may start by a counter that it read too early, and for the fixes that a
\* stop ended before they were counted.
THEOREM AutofixBudget == Spec => []AutofixIsBounded
<1>1. IInv => AutofixIsBounded
  <2>. SUFFICES ASSUME IInv PROVE AutofixIsBounded
    OBVIOUS
  <2>1. FixNumbers /\ FixInv
    BY FixNumbersAre DEF IInv
  <2>. QED
    BY <2>1, Naturals DEF FixNumbers, FixInv, AutofixIsBounded
<1>. QED
  BY <1>1, Inductive, PTL

-----------------------------------------------------------------------------
(* The watermark does not go back.                                         *)

\* What a tick has fetched is ahead of the row.
AheadInv ==
    ~seen.overlap => \A p \in Pods : tick[p].at \in Fetched => row.seen <= Watermark(p)

LEMMA AheadSteps ==
    ASSUME IInv, AheadInv, [Next]_vars
    PROVE  AheadInv'
<1>. SUFFICES ASSUME ~seen'.overlap, NEW p \in Pods, tick'[p].at \in Fetched
              PROVE  row'.seen <= Watermark(p)'
  BY DEF AheadInv
<1>0. TypeOK /\ AnswerInv /\ AloneInv /\ ~seen.overlap
  BY OverlapStays DEF IInv
<1>1. Busy(p)'
  BY DEF Busy, Fetched, InThreads
<1>2. row'.seen = row.seen /\ row.seen \in Nat
  BY <1>0, <1>1, RowKeptMeanwhile DEF RowKept, TypeOK, Rows
<1>3. CASE tick[p].at \in Fetched /\ tick'[p].seen = tick[p].seen
  BY <1>0, <1>2, <1>3 DEF AheadInv, Watermark
<1>4. CASE Fetch(p) /\ Fetches(p)
  <2>0. PICK listed \in Listings :
           tick'[p].seen = IF NewComments(listed, tick[p].seen) = {} THEN None
                           ELSE Max(NewComments(listed, tick[p].seen))
    BY <1>4 DEF Fetches
  <2>. DEFINE new == NewComments(listed, tick[p].seen)
  <2>1. tick[p].seen = row.seen
    BY <1>0, <1>4 DEF AloneInv, Fetch
  <2>2. tick'[p].seen = IF new = {} THEN None ELSE Max(new)
    BY <2>0
  <2>3. CASE new = {}
    BY <1>2, <2>2, <2>3 DEF Watermark
  <2>4. CASE new # {}
    <3>1. new \in SUBSET (1 .. MaxComments)
      BY <1>0, IdsAreNumbers
    <3>. HIDE DEF new
    <3>2. Max(new) \in new
      BY <2>4, <3>1, Naturals, MaxIs
    <3>3. Max(new) > row.seen
      BY <2>1, <3>2 DEF new, NewComments
    <3>4. Max(new) \in Nat /\ Max(new) # None
      <4>1. Max(new) \in 1 .. MaxComments
        BY <3>1, <3>2
      <4>. QED
        BY <4>1, Naturals DEF None
    <3>. QED
      BY <1>2, <2>2, <2>4, <3>3, <3>4 DEF Watermark
  <2>. QED
    BY <2>3, <2>4
<1>. QED
  BY <1>0, <1>3, <1>4, FetchedMoves

\* last_seen_comment_id only advances while one tick at a time is under way,
\* although a tick writes the watermark of what it fetched minutes before, and
\* the comment at it may have been deleted.
THEOREM NoStepBack == Spec => WatermarkAdvances
<1>1. Init => AheadInv
  BY Ticks DEF Init, AheadInv, Fetched, InThreads
<1>2. IInv /\ AheadInv /\ [Next]_vars => AheadInv'
  BY AheadSteps
<1>3. IInv /\ AheadInv /\ [Next]_vars => [~seen'.overlap => row.seen <= row'.seen]_vars
  <2>. SUFFICES ASSUME IInv, AheadInv, [Next]_vars, ~seen'.overlap
                PROVE  row.seen <= row'.seen
    OBVIOUS
  <2>0. TypeOK /\ ~seen.overlap /\ row.seen \in Nat
    BY OverlapStays DEF IInv, TypeOK, Rows
  <2>1. CASE RowKept
    BY <2>0, <2>1 DEF RowKept
  <2>2. ASSUME NEW p \in Pods, Persist(p), Persisted(p)
        PROVE  row.seen <= row'.seen
    BY <2>0, <2>2 DEF AheadInv, Persist, Persisted, Fetched
  <2>. QED
    BY <2>0, <2>1, <2>2, RowSteps DEF RowMoves
<1>. QED
  BY <1>1, <1>2, <1>3, Inductive, PTL DEF Spec, WatermarkAdvances

-----------------------------------------------------------------------------
(* The claims implement HandledOnce.                                       *)

Held == [i \in 1 .. MaxComments |-> IF i \notin claims THEN "free"
                                    ELSE IF i \in InHand THEN "taken" ELSE "done"]

\* A step of p changes only what p has in hand.
LEMMA HandMoves ==
    ASSUME AnswerInv, NEW p \in Pods, Alone(p), NEW i
    PROVE  i \in InHand' <=> \/ Owner(p)' /\ Hand(p)' = i
                             \/ i \in InHand /\ ~(Owner(p) /\ Hand(p) = i)
<1>1. \A q \in Pods : q # p => (Owner(q)' <=> Owner(q)) /\ tick'[q] = tick[q]
  BY DEF Alone, Owner
<1>2. i \in InHand <=> \E q \in Pods : Owner(q) /\ tick[q].cur = i
  BY DEF InHand
<1>3. i \in InHand' <=> \E q \in Pods : Owner(q)' /\ tick'[q].cur = i
  BY DEF InHand
<1>4. ASSUME NEW q \in Pods, q # p, Owner(q), tick[q].cur = i
      PROVE  ~(Owner(p) /\ Hand(p) = i)
  BY <1>4 DEF AnswerInv, Hand
<1>. QED
  BY <1>1, <1>2, <1>3, <1>4 DEF Hand

ClaimStep ==
    \/ Held' = Held /\ seen'.answers = seen.answers
    \/ \E i \in 1 .. MaxComments :
        \/ Held[i] = "free" /\ Held' = [Held EXCEPT ![i] = "taken"] /\ seen'.answers = seen.answers
        \/ /\ Held[i] = "taken" /\ seen.answers[i] = 0 /\ seen'.answers = [seen.answers EXCEPT ![i] = 1]
           /\ Held' = Held \/ Held' = [Held EXCEPT ![i] = "done"]
        \/ /\ Held[i] = "taken" /\ Held' = [Held EXCEPT ![i] = "free"]
           /\ seen'.answers = [seen.answers EXCEPT ![i] = 0]
        \/ Held[i] = "taken" /\ Held' = [Held EXCEPT ![i] = "done"] /\ seen'.answers = seen.answers

\* What p has in hand is taken, and done when p lets it go without giving back the claim.
LEMMA TakenIs ==
    ASSUME TypeOK, AnswerInv, NEW p \in Pods, Owner(p)
    PROVE  /\ Hand(p) \in 1 .. MaxComments /\ Hand(p) \in claims /\ Hand(p) \in InHand
           /\ Held[Hand(p)] = "taken"
<1>1. tick[p].at \in InThreads \ {"threads"}
  BY DEF Owner, InThreads
<1>2. Hand(p) \in 1 .. MaxComments
  BY <1>1, HandIs
<1>3. Hand(p) \in claims /\ Hand(p) \in InHand
  BY DEF AnswerInv, InHand, Hand
<1>. QED
  BY <1>2, <1>3 DEF Held

LEMMA LetsGo ==
    ASSUME TypeOK, AnswerInv, NEW p \in Pods, Alone(p), Owner(p), ~Owner(p)'
    PROVE  /\ claims' = claims => Held' = [Held EXCEPT ![Hand(p)] = "done"]
           /\ claims' = claims \ {Hand(p)} => Held' = [Held EXCEPT ![Hand(p)] = "free"]
<1>1. \A i : i \in InHand' <=> i \in InHand /\ Hand(p) # i
  BY HandMoves
<1>2. Hand(p) \in 1 .. MaxComments /\ Hand(p) \in claims
  BY TakenIs
<1>. QED
  BY <1>1, <1>2 DEF Held

LEMMA StatusKept ==
    ASSUME AnswerInv, NEW p \in Pods, Alone(p), claims' = claims,
           \/ ~Owner(p) /\ ~Owner(p)'
           \/ Owner(p) /\ Owner(p)' /\ Hand(p)' = Hand(p)
    PROVE  Held' = Held
<1>1. \A i : i \in InHand' <=> i \in InHand
  <2>1. Owner(p) => Hand(p) \in InHand
    BY DEF InHand, Hand
  <2>. QED
    BY <2>1, HandMoves
<1>. QED
  BY <1>1 DEF Held

\* The steps of a tick.
LEMMA TickClaims ==
    ASSUME TypeOK, AnswerInv, NEW p \in Pods, Alone(p), ReviewerStep(p), Moves(p)
    PROVE  ClaimStep
<1>. DEFINE i == Hand(p)
<1>0. seen.answers \in [1 .. MaxComments -> 0 .. 2]
  BY SeenFields DEF TypeOK
<1>1. CASE \/ Load(p) /\ Loads(p)
           \/ (LeaveAlone(p) \/ Break(p) \/ Persist(p)) /\ tick'[p] = NoTick
           \/ Fetch(p) /\ Fetches(p)
           \/ Look(p) /\ \E j \in tick[p].todo : Settles(p, j, FALSE) \/ TakesUp(p, j)
           \/ DecideOtherwise(p) /\ (Settles(p, i, FALSE) \/ Settles(p, i, TRUE) \/ tick'[p] = NoTick)
           \/ Ping(p) /\ Saves(p, TRUE, FALSE)
           \/ Ack(p) /\ Saves(p, FALSE, FALSE)
           \/ Remind(p) /\ (Saves(p, FALSE, FALSE) \/ Saves(p, FALSE, TRUE))
  <2>1. AnswersKept
    BY <1>1, Quiet
  <2>2. ~Owner(p)
    BY <1>1 DEF Owner, Load, LeaveAlone, Break, Persist, DecideOtherwise, Fetch, Ping, Ack, Remind,
       Answered, Look
  <2>3. ~Owner(p)'
    BY <1>1, Ticks DEF Owner, Loads, Fetches, Settles, TakesUp, Saves
  <2>. QED
    BY <2>1, <2>2, <2>3, StatusKept DEF ClaimStep, AnswersKept
<1>2. CASE Claims(p) /\ UNCHANGED claims /\ (Settles(p, i, TRUE) \/ Settles(p, i, FALSE))
  <2>1. ~Owner(p) /\ ~Owner(p)' /\ seen' = seen
    BY <1>2 DEF Owner, Settles, Claims, Claim
  <2>. QED
    BY <1>2, <2>1, StatusKept DEF ClaimStep
<1>3. CASE /\ Claims(p) /\ tick[p].at = "deciding" /\ i \notin claims /\ claims' = claims \cup {i}
           /\ \E answer \in Answers : GoesOn(p, answer)
  <2>1. seen' = seen /\ Owner(p)' /\ Hand(p)' = i /\ ~Owner(p)
    BY <1>3 DEF Claims, Claim, GoesOn, Hand, Owner, Answers
  <2>2. i \in 1 .. MaxComments
    BY <1>3, HandIs DEF InThreads
  <2>3. \A j : j \in InHand' <=> j = i \/ j \in InHand
    BY <2>1, HandMoves
  <2>4. Held' = [Held EXCEPT ![i] = "taken"] /\ Held[i] = "free"
    BY <1>3, <2>2, <2>3 DEF Held
  <2>. QED
    BY <2>1, <2>2, <2>4 DEF ClaimStep
<1>4. CASE /\ Post(p) /\ tick[p].at \in Answers /\ UNCHANGED claims
           /\ seen' = [seen EXCEPT !.answers[i] = @ + 1]
           /\ IF tick[p].at = "replying" THEN Settles(p, i, FALSE) ELSE GoesOn(p, "iterating")
  <2>1. Owner(p) /\ seen.answers[i] = 0
    BY <1>4 DEF Owner, Answers, AnswerInv, Hand
  <2>2. i \in 1 .. MaxComments /\ Held[i] = "taken"
    BY <2>1, TakenIs
  <2>3. seen'.answers = [seen.answers EXCEPT ![i] = 1]
    BY <1>0, <1>4, <2>1, <2>2 DEF TypeOK, Observers
  <2>4. Held' = Held \/ Held' = [Held EXCEPT ![i] = "done"]
    <3>1. CASE Settles(p, i, FALSE)
      BY <1>4, <2>1, <3>1, LetsGo DEF Settles, Owner
    <3>2. CASE GoesOn(p, "iterating")
      BY <1>4, <2>1, <3>2, StatusKept DEF GoesOn, Owner, Hand
    <3>. QED
      BY <1>4, <3>1, <3>2
  <2>. QED
    BY <2>1, <2>2, <2>3, <2>4 DEF ClaimStep
<1>5. CASE tick[p].at \in Answers \cup {"iterating"} /\ Released(p, i) /\ Settles(p, i, TRUE)
  <2>1. Owner(p) /\ ~Owner(p)'
    BY <1>5 DEF Owner, Answers, Settles
  <2>2. i \in 1 .. MaxComments /\ Held[i] = "taken"
    BY <2>1, TakenIs
  <2>3. seen'.answers = [seen.answers EXCEPT ![i] = 0]
    BY <1>0, <1>5, <2>2 DEF Released, TypeOK, Observers
  <2>4. Held' = [Held EXCEPT ![i] = "free"]
    BY <1>5, <2>1, LetsGo DEF Released
  <2>. QED
    BY <2>2, <2>3, <2>4 DEF ClaimStep
<1>6. CASE tick[p].at = "iterating" /\ UNCHANGED <<claims, seen>> /\ GoesOn(p, "pushed")
  BY <1>6, StatusKept DEF GoesOn, Owner, Hand, ClaimStep
<1>7. CASE \/ tick[p].at = "iterating" /\ UNCHANGED <<claims, seen>> /\ Settles(p, i, FALSE)
           \/ MarkPending(p) /\ tick[p].at = "pushed" /\ Settles(p, i, FALSE)
  <2>1. Owner(p) /\ ~Owner(p)' /\ claims' = claims /\ seen' = seen
    BY <1>7 DEF Owner, Settles, MarkPending
  <2>. QED
    BY <2>1, TakenIs, LetsGo DEF ClaimStep
<1>8. CASE Replies(p)
  BY <1>4, <1>5, <1>6, <1>7, <1>8 DEF Replies
<1>9. Look(p) => \A j : (IF j \in claims THEN Settles(p, j, FALSE) ELSE TakesUp(p, j))
                        => Settles(p, j, FALSE) \/ TakesUp(p, j)
  OBVIOUS
<1>. QED
  BY <1>1, <1>2, <1>3, <1>7, <1>8, <1>9 DEF Moves

LEMMA NextClaims ==
    ASSUME TypeOK, AnswerInv, [Next]_vars
    PROVE  ClaimStep
<1>1. ASSUME NEW p \in Pods, Alone(p), Stop(p), tick'[p] = NoTick
      PROVE  ClaimStep
  <2>1. ~Owner(p)' /\ AnswersKept
    BY <1>1, Quiet, Ticks DEF Owner
  <2>2. CASE Owner(p)
    BY <1>1, <2>1, <2>2, TakenIs, LetsGo DEF ClaimStep, AnswersKept
  <2>3. CASE ~Owner(p)
    BY <1>1, <2>1, <2>3, StatusKept DEF ClaimStep, AnswersKept
  <2>. QED
    BY <2>2, <2>3
<1>2. CASE UNCHANGED tick /\ AnswersKept
  BY <1>2 DEF ClaimStep, AnswersKept, Held, InHand, Owner
<1>3. UNCHANGED tick => AnswersKept \/ \E p \in Pods : ReviewerStep(p)
  BY Quiet, QuietElse DEF Next
<1>4. \A p \in Pods : ReviewerStep(p) => Alone(p) /\ Moves(p)
  BY ReviewerMoves
<1>. QED
  BY <1>1, <1>2, <1>3, <1>4, TickClaims, TickMoves

\* What the claims on comments promise is what HandledOnce says: one tick has a
\* comment, answers it once at most, and gives it back or is through with it.
THEOREM ClaimsImplementHandledOnce == Spec => ImplementsHandledOnce
<1>. DEFINE status == [i \in 1 .. MaxComments |-> IF i \notin claims THEN "free"
                                                  ELSE IF i \in InHand THEN "taken" ELSE "done"]
<1>1. Init => Claimed!Init
  BY DEF Init, Claimed!Init
<1>2. ASSUME IInv, [Next]_vars PROVE [Claimed!Next]_<<status, seen.answers>>
  <2>1. ClaimStep
    BY <1>2, NextClaims DEF IInv
  <2>2. Held = status /\ Held' = status'
    BY DEF Held
  <2>3. ASSUME NEW i \in 1 .. MaxComments, Held[i] = "free",
               Held' = [Held EXCEPT ![i] = "taken"], seen'.answers = seen.answers
        PROVE  Claimed!Next
    BY <2>2, <2>3 DEF Claimed!Next, Claimed!Take
  <2>4. ASSUME NEW i \in 1 .. MaxComments, Held[i] = "taken", seen.answers[i] = 0,
               seen'.answers = [seen.answers EXCEPT ![i] = 1],
               Held' = Held \/ Held' = [Held EXCEPT ![i] = "done"]
        PROVE  Claimed!Next
    BY <2>2, <2>4 DEF Claimed!Next, Claimed!Answer
  <2>5. ASSUME NEW i \in 1 .. MaxComments, Held[i] = "taken",
               Held' = [Held EXCEPT ![i] = "free"], seen'.answers = [seen.answers EXCEPT ![i] = 0]
        PROVE  Claimed!Next
    BY <2>2, <2>5 DEF Claimed!Next, Claimed!GiveBack
  <2>6. ASSUME NEW i \in 1 .. MaxComments, Held[i] = "taken",
               Held' = [Held EXCEPT ![i] = "done"], seen'.answers = seen.answers
        PROVE  Claimed!Next
    BY <2>2, <2>6 DEF Claimed!Next, Claimed!Finish
  <2>. QED
    BY <2>1, <2>2, <2>3, <2>4, <2>5, <2>6 DEF ClaimStep
<1>. QED
  BY <1>1, <1>2, Inductive, PTL DEF Spec, ImplementsHandledOnce, Claimed!Spec
=============================================================================
