----------------------- MODULE ThreadListener_proofs -----------------------
(***************************************************************************)
(* Proofs about ThreadListener, for every set of pods, every number of     *)
(* posts and every budget.                                                 *)
(***************************************************************************)
EXTENDS ThreadListener, FiniteSetTheorems, TLAPS

ReviewStates == {"replying", "announcing", "iterating"}
IntakeStates == {"intake", "drafting", "declining", "updating", "claiming", "creating",
                 "undoing", "storing", "telling", "failing", "appending"}
OwnStates == ReviewStates \cup IntakeStates \cup {"releasing"}

\* The worker has the post to itself: it won the claim.
Owns(w, p) == work[w].post = p /\ work[w].at \in OwnStates

\* Posts are numbered as they are written, and their kind tells what a worker
\* can be doing with them.  Commands are not claimed.
KindInv ==
    /\ \E n \in 0..MaxPosts : Written = 1..n
    /\ \A pod \in Pods : inbox[pod] \subseteq Written
    /\ \A p \in claims : kind[p] \in {"review", "ask"}
    /\ \A w \in Workers :
        /\ work[w].at \in {"deciding"} \cup ReviewStates => kind[work[w].post] = "review"
        /\ work[w].at \in IntakeStates => kind[work[w].post] = "ask"
        /\ work[w].at = "wiping" => kind[work[w].post] = "reset"
        /\ work[w].at = "marking" => kind[work[w].post] \in {"reset", "restart"}

\* A claim has one owner at most, and an owner its claim.
ClaimInv ==
    /\ \A w \in Workers, p \in Posts : Owns(w, p) => p \in claims
    /\ \A v, w \in Workers, p \in Posts : Owns(v, p) /\ Owns(w, p) => v = w

\* A post is not answered before it is claimed, nor by an owner that is still
\* going to answer it.
AnswerInv ==
    /\ \A p \in Posts \ claims : seen.answers[p] = 0
    /\ \A w \in Workers :
        work[w].at \in {"replying", "announcing"} \cup (IntakeStates \ {"appending"}) =>
            seen.answers[work[w].post] = 0

\* Unless its ticket is stored or told, an owner has made none that was seen; and
\* whoever did keeps its claim.
TicketInv ==
    /\ OneTicketPerPost
    /\ \A p \in Posts \ claims : seen.tickets[p] <= seen.unseen[p]
    /\ \A w \in Workers :
        work[w].at \in OwnStates \ {"storing", "telling"} =>
            seen.tickets[work[w].post] <= seen.unseen[work[w].post]

\* The workers that hold a post, and those that are about to carry it out.
Holders(p) == {w \in Workers : work[w].post = p}
Wipers(p) == {w \in Workers : work[w].post = p /\ work[w].at = "wiping"}

\* A /restart ran once at most, and not yet if a newer one can still overtake
\* it.  What ran of a /reset, or is about to, was not marked each time, but for
\* the one that is marked or in somebody's hands.
CommandInv ==
    \A p \in Posts :
        /\ kind[p] = "restart" => seen.ran[p] <= 1 /\ (restart < p => seen.ran[p] = 0)
        /\ kind[p] = "reset" =>
             seen.ran[p] + Cardinality(Wipers(p))
               <= seen.unmarked[p] + (IF p \in marked \/ Holders(p) # {} THEN 1 ELSE 0)
        /\ kind[p] \notin {"restart", "reset"} => seen.ran[p] = 0

\* The inductive invariant.
IInv == TypeOK /\ KindInv /\ ClaimInv /\ AnswerInv /\ TicketInv /\ CommandInv

-----------------------------------------------------------------------------

Workable == \A w \in Workers : work[w].at = "idle" <=> work[w].post = None

\* The two ways a worker gets on: to something else with the post it has, or done
\* with it.
Moved(w, at) ==
    /\ work' \in [Workers -> Jobs] /\ Workable'
    /\ \A v \in Workers : v # w => work'[v] = work[v]
    /\ work'[w].at = at
    /\ work'[w].post = IF at = "idle" THEN None ELSE work[w].post

LEMMA AtMoves ==
    ASSUME TypeOK, NEW w \in Workers, work[w].at # "idle",
           NEW at \in OwnStates \cup {"wiping", "marking"}, At(w, at)
    PROVE  Moved(w, at)
BY DEF TypeOK, Jobs, At, Moved, Workable, OwnStates, ReviewStates, IntakeStates

LEMMA DoneMoves ==
    ASSUME TypeOK, NEW w \in Workers, Done(w)
    PROVE  Moved(w, "idle") /\ work'[w] = Idle
<1>1. Idle \in Jobs /\ Idle.at = "idle" /\ Idle.post = None
  <2>1. 0 \in 0..MaxRows
    BY ListenerAssumption
  <2>. QED
    BY <2>1 DEF Idle, Busy, Jobs, None
<1>. QED
  BY <1>1 DEF TypeOK, Done, Moved, Workable

LEMMA BeginMoves ==
    ASSUME TypeOK, NEW w \in Workers, NEW p \in Posts,
           NEW at \in {"deciding", "intake", "wiping", "marking"}, Begin(w, at, p)
    PROVE  /\ work' \in [Workers -> Jobs] /\ Workable'
           /\ \A v \in Workers : v # w => work'[v] = work[v]
           /\ work'[w] = Busy(at, p)
<1>1. Busy(at, p) \in Jobs /\ Busy(at, p).at = at /\ Busy(at, p).post = p
  <2>1. 0 \in 0..MaxRows
    BY ListenerAssumption
  <2>. QED
    BY <2>1 DEF Busy, Jobs, None
<1>2. at # "idle" /\ p # None
  BY DEF Posts, None
<1>. QED
  BY <1>1, <1>2 DEF TypeOK, Begin, Workable

\* Where each step of a worker leads.
LEMMA StepMoves ==
    ASSUME TypeOK, NEW w \in Workers, Step(w)
    PROVE  /\ work[w].at # "idle"
           /\ \E at \in OwnStates \cup {"marking", "idle"} : Moved(w, at)
<1>. DEFINE Goal == \E at \in OwnStates \cup {"marking", "idle"} : Moved(w, at)
<1>1. work[w].at # "idle"
  BY DEF Step, Decide, Reply, Iterate, Release, LookUp, Draft, Decline, Append, Update, ClaimRow,
     Create, Undo, Store, Tell, TellFailure, Wipe, Mark
<1>2. ASSUME Done(w) \/ \E at \in OwnStates \cup {"marking"} : At(w, at) PROVE Goal
  BY <1>1, <1>2, AtMoves, DoneMoves
<1>3. ReviewStates \cup IntakeStates \cup {"releasing"} = OwnStates
  BY DEF OwnStates
<1>. HIDE DEF Goal
<1>. SUFFICES Goal
  BY <1>1 DEF Goal
<1>4. CASE Decide(w)
  BY <1>2, <1>4 DEF Decide, Decision, OwnStates, ReviewStates
<1>5. CASE Reply(w) \/ Iterate(w) \/ Release(w)
  BY <1>2, <1>5 DEF Reply, Iterate, Release, OwnStates, ReviewStates
<1>6. CASE LookUp(w)
  <2>1. CASE Done(w)
    BY <1>2, <2>1
  <2>2. ASSUME NEW known \in BOOLEAN,
               work' = [work EXCEPT ![w].at = "drafting", ![w].known = known]
        PROVE  Goal
    <3>1. ASSUME NEW job \in Jobs
          PROVE  [job EXCEPT !.at = "drafting", !.known = known] \in Jobs
      BY <3>1 DEF Jobs
    <3>2. work' = [work EXCEPT ![w] = [work[w] EXCEPT !.at = "drafting", !.known = known]]
      BY <2>2 DEF TypeOK
    <3>3. Moved(w, "drafting")
      BY <1>1, <3>1, <3>2 DEF TypeOK, Moved, Workable, Jobs
    <3>. QED
      BY <3>3 DEF Goal, OwnStates, IntakeStates
  <2>3. \A rows : Known(rows) \in BOOLEAN
    BY DEF Known
  <2>. QED
    BY <1>6, <2>1, <2>2, <2>3 DEF LookUp
<1>7. CASE Draft(w)
  BY <1>2, <1>7 DEF Draft, Verdicts, OwnStates, IntakeStates
<1>8. CASE Decline(w) \/ Append(w) \/ Update(w)
  BY <1>2, <1>8 DEF Decline, Awaited, Append, Update, UpdateTask, OwnStates, IntakeStates
<1>9. CASE ClaimRow(w)
  <2>1. ASSUME work' = [work EXCEPT ![w].at = "creating", ![w].row = lastRow + 1],
               lastRow < MaxRows
        PROVE  Goal
    <3>1. ASSUME NEW job \in Jobs
          PROVE  [job EXCEPT !.at = "creating", !.row = lastRow + 1] \in Jobs
      <4>1. lastRow + 1 \in 0..MaxRows
        BY <2>1, ListenerAssumption DEF TypeOK
      <4>. QED
        BY <3>1, <4>1 DEF Jobs
    <3>2. work' = [work EXCEPT ![w] = [work[w] EXCEPT !.at = "creating", !.row = lastRow + 1]]
      BY <2>1 DEF TypeOK
    <3>3. Moved(w, "creating")
      BY <1>1, <3>1, <3>2 DEF TypeOK, Moved, Workable, Jobs
    <3>. QED
      BY <3>3 DEF Goal, OwnStates, IntakeStates
  <2>. QED
    BY <1>2, <1>9, <2>1 DEF ClaimRow, OwnStates, IntakeStates
<1>10. CASE Create(w) \/ Undo(w) \/ Store(w) \/ Tell(w) \/ TellFailure(w)
  BY <1>2, <1>10 DEF Create, Undo, Store, Tell, TellFailure, OwnStates, IntakeStates
<1>11. CASE Wipe(w) \/ Mark(w)
  BY <1>2, <1>11 DEF Wipe, Mark
<1>. QED
  BY <1>4, <1>5, <1>6, <1>7, <1>8, <1>9, <1>10, <1>11 DEF Step

-----------------------------------------------------------------------------

RowsOK ==
    /\ requests \subseteq [id : 1..MaxRows, post : Posts, key : BOOLEAN, old : BOOLEAN]
    /\ \A r, s \in requests : r.post = s.post => r = s
    /\ lastRow \in 0..MaxRows

RestOK ==
    /\ kind \in [Posts -> Kinds \cup {"none"}] /\ inbox \in [Pods -> SUBSET Posts]
    /\ claims \subseteq Posts /\ fragments \subseteq Posts /\ marked \subseteq Posts
    /\ restart \in 0..MaxPosts /\ anchor \in 0..MaxPosts /\ up \subseteq Pods
    /\ lead \in [Pods -> {"unknown", "found", "nobody"}]
    /\ past \in [day : 0..MaxPosts, rows : 0..MaxRows, week : 0..MaxPosts]

\* A worker that is not idle has a post.
LEMMA HasPost ==
    ASSUME TypeOK, NEW w \in Workers, work[w].at # "idle"
    PROVE  work[w].post \in Posts
BY DEF TypeOK, Jobs

LEMMA SpendOK ==
    ASSUME TypeOK, NEW what \in Bounds, Spend(what)
    PROVE  left' \in [Bounds -> Nat]
BY DEF TypeOK, Spend

\* What is observed of a step.
LEMMA SeenTypes ==
    ASSUME TypeOK
    PROVE  /\ \A p \in Posts : [seen EXCEPT !.answers[p] = @ + 1] \in Observers
           /\ \A p \in Posts, n, m \in Nat :
                [seen EXCEPT !.tickets[p] = @ + n, !.unseen[p] = @ + m] \in Observers
           /\ \A p \in Posts : [seen EXCEPT !.ran[p] = @ + 1] \in Observers
           /\ \A p \in Posts, n \in Nat : [seen EXCEPT !.unmarked[p] = @ + n] \in Observers
           /\ \A D \in SUBSET Posts : [seen EXCEPT !.dropped = D] \in Observers
           /\ \A p \in Posts, D \in SUBSET Posts :
                [seen EXCEPT !.answers[p] = 0, !.dropped = D] \in Observers
<1>0. seen \in Observers
  BY DEF TypeOK
<1>. USE <1>0 DEF Observers
<1>1. \A p \in Posts : [seen EXCEPT !.answers[p] = @ + 1] \in Observers
  OBVIOUS
<1>2. ASSUME NEW p \in Posts, NEW n \in Nat, NEW m \in Nat
      PROVE  [seen EXCEPT !.tickets[p] = @ + n, !.unseen[p] = @ + m] \in Observers
  <2>1. ASSUME NEW s \in Observers PROVE [s EXCEPT !.tickets[p] = @ + n] \in Observers
    BY <2>1
  <2>2. ASSUME NEW s \in Observers PROVE [s EXCEPT !.unseen[p] = @ + m] \in Observers
    <3>1. s.unseen \in [Posts -> Nat] /\ [s.unseen EXCEPT ![p] = @ + m] \in [Posts -> Nat]
      BY <2>2
    <3>. QED
      BY <2>2, <3>1
  <2>3. [[seen EXCEPT !.tickets[p] = @ + n] EXCEPT !.unseen[p] = @ + m] \in Observers
    BY <2>1, <2>2
  <2>. QED
    BY <2>3
<1>3. \A p \in Posts : [seen EXCEPT !.ran[p] = @ + 1] \in Observers
  OBVIOUS
<1>4. \A p \in Posts, n \in Nat : [seen EXCEPT !.unmarked[p] = @ + n] \in Observers
  OBVIOUS
<1>5. \A D \in SUBSET Posts : [seen EXCEPT !.dropped = D] \in Observers
  OBVIOUS
<1>6. \A p \in Posts, D \in SUBSET Posts :
        [seen EXCEPT !.answers[p] = 0, !.dropped = D] \in Observers
  OBVIOUS
<1>. QED
  BY <1>1, <1>2, <1>3, <1>4, <1>5, <1>6

LEMMA WorkersAreFinite ==
    ASSUME NEW W \in SUBSET Workers
    PROVE  IsFiniteSet(W) /\ Cardinality(W) \in Nat
<1>1. IsFiniteSet(Workers)
  <2>1. IsFiniteSet({"ws", "sweep"})
    <3>1. {"ws", "sweep"} = ({} \cup {"ws"}) \cup {"sweep"}
      OBVIOUS
    <3>2. IsFiniteSet({} \cup {"ws"})
      BY FS_EmptySet, FS_AddElement
    <3>3. IsFiniteSet(({} \cup {"ws"}) \cup {"sweep"})
      BY <3>2, FS_AddElement
    <3>. QED
      BY <3>1, <3>3
  <2>. QED
    BY <2>1, FS_Product, ListenerAssumption DEF Workers
<1>. QED
  BY <1>1, FS_Subset, FS_CardinalityType

LEMMA StepTypeOK ==
    ASSUME TypeOK, NEW w \in Workers, Step(w)
    PROVE  TypeOK'
<1>. DEFINE p == work[w].post
<1>1. work' \in [Workers -> Jobs] /\ Workable'
  BY StepMoves DEF Moved
<1>2. p \in Posts /\ TypeOK
  BY StepMoves, HasPost
<1>3. RestOK'
  <2>1. UNCHANGED <<kind, past, lead, inbox, restart, anchor, up>>
    BY DEF Step, Decide, Reply, Iterate, Release, LookUp, Draft, Decline, Append, Update,
       ClaimRow, Create, Undo, Store, Tell, TellFailure, Wipe, Mark, dbVars, Claim
  <2>2. claims' \subseteq claims \cup {p} /\ fragments' \subseteq fragments \cup {p}
        /\ marked' \subseteq marked \cup {p}
    BY DEF Step, Decide, Reply, Iterate, Release, LookUp, Draft, Decline, Append, Update,
       ClaimRow, Create, Undo, Store, Tell, TellFailure, Wipe, Mark, dbVars, Claim, AddReaction
  <2>. QED
    BY <1>2, <2>1, <2>2 DEF TypeOK, RestOK
<1>4. RowsOK'
  <2>1. CASE UNCHANGED <<requests, lastRow>>
    BY <2>1 DEF RowsOK, TypeOK
  <2>2. CASE requests' \subseteq requests /\ UNCHANGED lastRow
    BY <2>2 DEF RowsOK, TypeOK
  <2>3. CASE Store(w) /\ requests' = {[r EXCEPT !.key = @ \/ r.id = work[w].row] : r \in requests}
    <3>1. UNCHANGED lastRow
      BY <2>3 DEF Store
    <3>2. ASSUME NEW r \in [id : 1..MaxRows, post : Posts, key : BOOLEAN, old : BOOLEAN]
          PROVE  [r EXCEPT !.key = @ \/ r.id = work[w].row] \in
                   [id : 1..MaxRows, post : Posts, key : BOOLEAN, old : BOOLEAN]
      BY <3>2
    <3>. QED
      BY <2>3, <3>1, <3>2 DEF RowsOK, TypeOK
  <2>4. CASE /\ ~Requested(p) /\ lastRow < MaxRows /\ lastRow' = lastRow + 1
             /\ requests' = requests \cup {NewRow(lastRow + 1, p)}
    <3>1. lastRow + 1 \in 1..MaxRows
      BY <2>4, ListenerAssumption DEF TypeOK
    <3>2. NewRow(lastRow + 1, p) \in
            [id : 1..MaxRows, post : Posts, key : BOOLEAN, old : BOOLEAN]
          /\ NewRow(lastRow + 1, p).post = p
      BY <1>2, <3>1 DEF NewRow
    <3>. HIDE DEF p
    <3>. QED
      BY <2>4, <3>1, <3>2 DEF RowsOK, TypeOK, Requested
  <2>. QED
    <3>1. CASE LookUp(w) \/ Undo(w)
      BY <3>1, <2>2 DEF LookUp, Undo
    <3>2. CASE Store(w)
      BY <3>2, <2>1, <2>3 DEF Store
    <3>3. CASE ClaimRow(w)
      BY <3>3, <2>1, <2>4 DEF ClaimRow
    <3>4. CASE ~(LookUp(w) \/ Undo(w) \/ Store(w) \/ ClaimRow(w))
      BY <3>4, <2>1 DEF Step, Decide, Reply, Iterate, Release, Draft, Decline, Append, Update,
         Create, Tell, TellFailure, Wipe, Mark, dbVars
    <3>. QED
      BY <3>1, <3>2, <3>3, <3>4
<1>5. left' \in [Bounds -> Nat]
  <2>1. UNCHANGED left \/ Spend("failures") \/ Spend("duplicates")
    BY DEF Step, Decide, Reply, Iterate, Release, LookUp, Draft, Decline, Append, Update,
       ClaimRow, Create, Undo, Store, Tell, TellFailure, Wipe, Mark, Calm
  <2>. QED
    BY <2>1, SpendOK DEF TypeOK, Bounds
<1>6. seen' \in Observers
  <2>. HIDE DEF p
  <2>1. CASE UNCHANGED seen
    BY <2>1 DEF TypeOK
  <2>2. CASE Decide(w)
    <3>1. seen' = [seen EXCEPT !.dropped = seen.dropped \ {p}] \/ UNCHANGED seen
      BY <2>2 DEF Decide, Claim, p
    <3>2. seen.dropped \ {p} \in SUBSET Posts
      BY DEF TypeOK, Observers
    <3>. QED
      BY <2>1, <3>1, <3>2, SeenTypes
  <2>3. CASE Reply(w) \/ Decline(w) \/ Tell(w) \/ TellFailure(w)
    BY <1>2, <2>1, <2>3, SeenTypes DEF Reply, Decline, Tell, TellFailure, Answer, p
  <2>4. CASE Release(w)
    <3>1. seen' = [seen EXCEPT !.answers[p] = 0, !.dropped = seen.dropped \cup {p}]
      BY <2>4 DEF Release, p
    <3>2. seen.dropped \cup {p} \in SUBSET Posts
      BY <1>2 DEF TypeOK, Observers
    <3>. QED
      BY <1>2, <3>1, <3>2, SeenTypes
  <2>5. CASE Create(w)
    <3>1. ASSUME NEW n \in Nat, NEW m \in Nat,
                 seen' = [seen EXCEPT !.tickets[p] = @ + n, !.unseen[p] = @ + m]
          PROVE  seen' \in Observers
      BY <1>2, <3>1, SeenTypes
    <3>2. \/ seen' = [seen EXCEPT !.tickets[p] = @ + 1, !.unseen[p] = @ + 0]
          \/ seen' = [seen EXCEPT !.tickets[p] = @ + 2, !.unseen[p] = @ + 1]
          \/ seen' = [seen EXCEPT !.tickets[p] = @ + 1, !.unseen[p] = @ + 1]
          \/ UNCHANGED seen
      BY <2>5 DEF Create, SentAgain, MadeAndRaised, p
    <3>. QED
      BY <2>1, <3>1, <3>2
  <2>6. CASE Wipe(w)
    <3>1. seen' = [seen EXCEPT !.ran[p] = @ + 1] \/ UNCHANGED seen
      BY <2>6 DEF Wipe, p
    <3>. QED
      BY <1>2, <2>1, <3>1, SeenTypes
  <2>7. CASE Mark(w)
    <3>1. seen' = [seen EXCEPT !.unmarked[p] = @ + 1] \/ UNCHANGED seen
      BY <2>7 DEF Mark, p
    <3>. QED
      BY <1>2, <2>1, <3>1 DEF TypeOK, Observers
  <2>. QED
    BY <2>1, <2>2, <2>3, <2>4, <2>5, <2>6, <2>7
    DEF Step, Iterate, LookUp, Draft, Append, Update, ClaimRow, Undo, Store
<1>. QED
  BY <1>1, <1>3, <1>4, <1>5, <1>6 DEF TypeOK, Workable, RestOK, RowsOK

LEMMA PostNumbers ==
    ASSUME KindInv
    PROVE  \E n \in 0..MaxPosts : Written = 1..n /\ Cardinality(Written) = n
<1>1. PICK n \in 0..MaxPosts : Written = 1..n
  BY DEF KindInv
<1>2. Cardinality(1..n) = n
  BY <1>1, FS_Interval, ListenerAssumption
<1>. QED
  BY <1>1, <1>2

\* What a route leads to, and from where.
LEMMA RouteMoves ==
    ASSUME TypeOK, NEW w \in Workers, NEW p \in Posts, Route(w, p)
    PROVE  /\ work[w].at = "idle" /\ work[w].post = None
           /\ work' \in [Workers -> Jobs] /\ Workable'
           /\ \A v \in Workers : v # w => work'[v] = work[v]
           /\ \E at \in {"deciding", "intake", "wiping", "marking"} : work'[w] = Busy(at, p)
<1>1. work[w].at = "idle"
  BY DEF Route, RouteReview, RouteAsk, RouteReset, RouteRestart, Delivered
<1>2. \E at \in {"deciding", "intake", "wiping", "marking"} : Begin(w, at, p)
  BY DEF Route, RouteReview, RouteAsk, RouteReset, RouteRestart
<1>. QED
  BY <1>1, <1>2, BeginMoves DEF TypeOK

LEMMA DeliveryOK ==
    ASSUME TypeOK, NEW w \in Workers, NEW p \in Posts, Delivered(w, p)
    PROVE  /\ inbox' \in [Pods -> SUBSET Posts]
           /\ lead' \in [Pods -> {"unknown", "found", "nobody"}]
BY DEF Delivered, FromSocket, FromSweep, TypeOK

LEMMA RouteTypeOK ==
    ASSUME TypeOK, NEW w \in Workers, NEW p \in Posts, Route(w, p)
    PROVE  TypeOK'
<1>1. work' \in [Workers -> Jobs] /\ Workable'
  BY RouteMoves
<1>2. inbox' \in [Pods -> SUBSET Posts] /\ lead' \in [Pods -> {"unknown", "found", "nobody"}]
  BY DeliveryOK DEF Route, RouteReview, RouteAsk, RouteReset, RouteRestart
<1>3. /\ UNCHANGED <<kind, past, requests, lastRow, fragments, marked, anchor, up>>
      /\ claims' \subseteq claims \cup {p} /\ restart' \in {restart, p}
  BY DEF Route, RouteReview, RouteAsk, RouteReset, RouteRestart, dbVars
<1>4. left' \in [Bounds -> Nat]
  <2>1. UNCHANGED left \/ Spend("failures")
    BY DEF Route, RouteReview, RouteAsk, RouteReset, RouteRestart, Fresh, Overlooked, Calm
  <2>. QED
    BY <2>1, SpendOK DEF TypeOK, Bounds
<1>5. seen' \in Observers
  <2>1. CASE RouteReview(w, p)
    BY <2>1 DEF RouteReview, TypeOK
  <2>2. CASE RouteAsk(w, p)
    <3>1. seen' = [seen EXCEPT !.dropped = seen.dropped \ {p}]
      BY <2>2 DEF RouteAsk
    <3>2. seen.dropped \ {p} \in SUBSET Posts
      BY DEF TypeOK, Observers
    <3>. QED
      BY <3>1, <3>2, SeenTypes
  <2>3. CASE RouteReset(w, p)
    <3>1. \/ seen' = [seen EXCEPT !.unmarked[p] = @ + Cardinality({v \in Workers : work[v].post = p})]
          \/ seen' = [seen EXCEPT !.unmarked[p] = @ + 1]
      BY <2>3 DEF RouteReset, Fresh
    <3>2. Cardinality({v \in Workers : work[v].post = p}) \in Nat
      BY WorkersAreFinite
    <3>3. [seen EXCEPT !.unmarked[p] = @ + 1] \in Observers
      BY DEF TypeOK, Observers
    <3>. QED
      BY <3>1, <3>2, <3>3, SeenTypes
  <2>4. CASE RouteRestart(w, p)
    BY <2>4, SeenTypes DEF RouteRestart
  <2>. QED
    BY <2>1, <2>2, <2>3, <2>4 DEF Route
<1>. QED
  BY <1>1, <1>2, <1>3, <1>4, <1>5, ListenerAssumption DEF TypeOK, Workable, Posts

LEMMA NextTypeOK ==
    ASSUME TypeOK, KindInv, [Next]_vars
    PROVE  TypeOK'
<1>1. CASE UNCHANGED vars
  BY <1>1 DEF vars, dbVars, TypeOK
<1>2. ASSUME NEW w \in Workers, NEW p \in Posts, PassOver(w, p) PROVE TypeOK'
  <2>1. /\ inbox' \in [Pods -> SUBSET Posts]
        /\ lead' \in [Pods -> {"unknown", "found", "nobody"}]
        /\ UNCHANGED <<kind, past, work, dbVars, marked, up, seen>>
    BY <1>2, DeliveryOK DEF PassOver
  <2>2. left' \in [Bounds -> Nat]
    BY <1>2, SpendOK DEF PassOver, Calm, TypeOK, Bounds
  <2>. QED
    BY <2>1, <2>2 DEF TypeOK, dbVars
<1>3. CASE Write
  <2>. DEFINE p == Cardinality(Written) + 1
  <2>1. PICK k \in Kinds :
           /\ p \in Posts /\ kind' = [kind EXCEPT ![p] = k]
           /\ inbox' = inbox \/ inbox' = Broadcast(p)
           /\ \/ left[k] > 0 /\ left' = [left EXCEPT ![k] = @ - 1]
              \/ left[k] > 0 /\ left.losses > 0
                 /\ left' = [left EXCEPT ![k] = @ - 1, !["losses"] = @ - 1]
    BY <1>3 DEF Write
  <2>. HIDE DEF p
  <2>2. kind' \in [Posts -> Kinds \cup {"none"}] /\ inbox' \in [Pods -> SUBSET Posts]
    BY <2>1 DEF TypeOK, Broadcast
  <2>3. left' \in [Bounds -> Nat]
    BY <2>1 DEF TypeOK, Bounds, Kinds
  <2>. QED
    BY <1>3, <2>2, <2>3 DEF Write, TypeOK, dbVars
<1>4. CASE Touch
  <2>1. anchor' \in 0..MaxPosts
    BY <1>4, PostNumbers DEF Touch
  <2>. QED
    BY <1>4, <2>1, SpendOK DEF Touch, TypeOK, Bounds
<1>5. CASE Age
  <2>1. ASSUME NEW r \in [id : 1..MaxRows, post : Posts, key : BOOLEAN, old : BOOLEAN]
        PROVE  [r EXCEPT !.old = TRUE] \in
                 [id : 1..MaxRows, post : Posts, key : BOOLEAN, old : BOOLEAN]
    BY <2>1
  <2>2. RowsOK'
    BY <1>5, <2>1 DEF Age, TypeOK, RowsOK
  <2>. QED
    BY <1>5, <2>2 DEF Age, TypeOK, RowsOK
<1>6. ASSUME NEW pod \in Pods, Deploy(pod) PROVE TypeOK'
  BY <1>6, SpendOK DEF Deploy, TypeOK, Bounds, dbVars
<1>7. ASSUME NEW pod \in Pods, FindNobody(pod) PROVE TypeOK'
  BY <1>7, SpendOK DEF FindNobody, TypeOK, Bounds, dbVars
<1>8. CASE PassDays
  <2>1. PICK n \in 0..MaxPosts : Written = 1..n /\ Cardinality(Written) = n
    BY PostNumbers
  <2>2. past' \in [day : 0..MaxPosts, rows : 0..MaxRows, week : 0..MaxPosts]
    BY <1>8, <2>1, ListenerAssumption DEF PassDays, TypeOK
  <2>. QED
    BY <1>8, <2>2, SpendOK DEF PassDays, TypeOK, Bounds, dbVars
<1>9. ASSUME NEW pod \in Pods, Stop(pod) PROVE TypeOK'
  <2>1. Idle \in Jobs /\ Idle.at = "idle" /\ Idle.post = None
    <3>1. 0 \in 0..MaxRows
      BY ListenerAssumption
    <3>. QED
      BY <3>1 DEF Idle, Busy, Jobs, None
  <2>2. work' \in [Workers -> Jobs] /\ Workable'
    BY <1>9, <2>1 DEF Stop, TypeOK, Workable
  <2>3. seen' \in Observers
    <3>. DEFINE more == [p \in Posts |->
           seen.unmarked[p] + Cardinality({w \in Workers :
             w[1] = pod /\ work[w].post = p /\ work[w].at = "marking"})]
    <3>1. seen' = [seen EXCEPT !.unmarked = more]
      BY <1>9 DEF Stop
    <3>2. more \in [Posts -> Nat]
      BY WorkersAreFinite DEF TypeOK, Observers
    <3>. HIDE DEF more
    <3>. QED
      BY <3>1, <3>2 DEF TypeOK, Observers
  <2>4. /\ inbox' \in [Pods -> SUBSET Posts] /\ up' \subseteq Pods /\ left' \in [Bounds -> Nat]
        /\ lead' \in [Pods -> {"unknown", "found", "nobody"}]
    BY <1>9, SpendOK DEF Stop, TypeOK, Bounds
  <2>. QED
    BY <1>9, <2>2, <2>3, <2>4 DEF Stop, TypeOK, Workable, dbVars
<1>. QED
  BY <1>1, <1>2, <1>3, <1>4, <1>5, <1>6, <1>7, <1>8, <1>9, StepTypeOK, RouteTypeOK DEF Next

-----------------------------------------------------------------------------

\* The ways through a worker.
Leads(from, to) ==
    \/ from = "deciding" /\ to \in {"replying", "announcing", "iterating", "idle"}
    \/ from = "replying" /\ to \in {"idle", "releasing"}
    \/ from = "announcing" /\ to \in {"iterating", "releasing"}
    \/ from = "iterating" /\ to \in {"idle", "releasing"}
    \/ from = "releasing" /\ to = "idle"
    \/ from = "intake" /\ to \in {"drafting", "idle"}
    \/ from = "drafting" /\ to \in {"declining", "updating", "failing", "claiming", "releasing"}
    \/ from = "declining" /\ to \in {"idle", "appending", "releasing"}
    \/ from = "appending" /\ to = "idle"
    \/ from = "updating" /\ to \in {"telling", "failing"}
    \/ from = "claiming" /\ to \in {"creating", "failing", "idle"}
    \/ from = "creating" /\ to \in {"storing", "undoing"}
    \/ from = "undoing" /\ to \in {"failing", "releasing"}
    \/ from = "storing" /\ to = "telling"
    \/ from = "telling" /\ to = "idle"
    \/ from = "failing" /\ to \in {"idle", "releasing"}
    \/ from = "wiping" /\ to \in {"marking", "idle"}
    \/ from = "marking" /\ to = "idle"

LEMMA StepLeads ==
    ASSUME TypeOK, NEW w \in Workers, Step(w)
    PROVE  /\ Moved(w, work'[w].at) /\ Leads(work[w].at, work'[w].at)
           /\ work[w].post \in Posts
<1>1. Moved(w, work'[w].at) /\ work[w].post \in Posts
  BY StepMoves, HasPost DEF Moved
<1>2. ASSUME NEW at, At(w, at) PROVE work'[w].at = at
  BY <1>2 DEF At, TypeOK, Jobs
<1>3. ASSUME Done(w) PROVE work'[w].at = "idle"
  BY <1>3, DoneMoves DEF Moved
<1>4. CASE Decide(w)
  BY <1>1, <1>2, <1>3, <1>4 DEF Decide, Decision, Leads
<1>5. CASE Reply(w) \/ Iterate(w) \/ Release(w)
  BY <1>1, <1>2, <1>3, <1>5 DEF Reply, Iterate, Release, Leads
<1>6. CASE LookUp(w)
  <2>1. work'[w].at \in {"idle", "drafting"}
    BY <1>3, <1>6 DEF LookUp, TypeOK, Jobs
  <2>. QED
    BY <1>1, <1>6, <2>1 DEF LookUp, Leads
<1>7. CASE Draft(w)
  <2>1. Verdicts(w) \subseteq {"declining", "updating", "failing", "claiming"}
    BY DEF Verdicts
  <2>. QED
    BY <1>1, <1>2, <1>7, <2>1 DEF Draft, Leads
<1>8. CASE Decline(w) \/ Append(w) \/ Update(w)
  BY <1>1, <1>2, <1>3, <1>8 DEF Decline, Awaited, Append, Update, UpdateTask, Leads
<1>9. CASE ClaimRow(w)
  <2>1. work'[w].at \in {"idle", "creating", "failing"}
    BY <1>2, <1>3, <1>9 DEF ClaimRow, TypeOK, Jobs
  <2>. QED
    BY <1>1, <1>9, <2>1 DEF ClaimRow, Leads
<1>10. CASE Create(w) \/ Undo(w) \/ Store(w) \/ Tell(w) \/ TellFailure(w)
  BY <1>1, <1>2, <1>3, <1>10 DEF Create, Undo, Store, Tell, TellFailure, Leads
<1>11. CASE Wipe(w) \/ Mark(w)
  BY <1>1, <1>2, <1>3, <1>11 DEF Wipe, Mark, Leads
<1>. QED
  BY <1>4, <1>5, <1>6, <1>7, <1>8, <1>9, <1>10, <1>11 DEF Step

\* What a step of a worker does to the claims: a decision takes one, if it is
\* free, and a release gives one back.
LEMMA StepClaims ==
    ASSUME TypeOK, NEW w \in Workers, Step(w)
    PROVE  \/ /\ work[w].at = "deciding" /\ work[w].post \notin claims
              /\ claims' = claims \cup {work[w].post}
           \/ /\ work[w].at = "releasing" /\ claims' = claims \ {work[w].post}
           \/ /\ work[w].at = "deciding" /\ work'[w].at = "idle" /\ claims' = claims
           \/ /\ work[w].at \notin {"deciding", "releasing"} /\ claims' = claims
<1>1. CASE Decide(w)
  BY <1>1, DoneMoves DEF Decide, Wins, Claim, Moved
<1>2. CASE Release(w)
  BY <1>2 DEF Release
<1>3. CASE ~Decide(w) /\ ~Release(w)
  BY <1>3 DEF Step, Reply, Iterate, LookUp, Draft, Decline, Append, Update,
     ClaimRow, Create, Undo, Store, Tell, TellFailure, Wipe, Mark, dbVars
<1>. QED
  BY <1>1, <1>2, <1>3

\* Which route starts what.
LEMMA RouteStarts ==
    ASSUME TypeOK, NEW w \in Workers, NEW p \in Posts, Route(w, p)
    PROVE  /\ work'[w].at \in {"deciding", "intake", "wiping", "marking"}
           /\ work'[w].post = p
           /\ work'[w].at = "deciding" => kind[p] = "review"
           /\ work'[w].at = "intake" => kind[p] = "ask"
           /\ work'[w].at = "wiping" => kind[p] = "reset"
           /\ work'[w].at = "marking" => kind[p] = "restart"
           /\ \/ work'[w].at = "intake" /\ p \notin claims /\ claims' = claims \cup {p}
              \/ work'[w].at # "intake" /\ claims' = claims
<1>1. ASSUME NEW at \in {"deciding", "intake", "wiping", "marking"}, Begin(w, at, p)
      PROVE  work'[w].at = at /\ work'[w].post = p
  <2>1. work'[w] = Busy(at, p)
    BY <1>1, BeginMoves
  <2>. QED
    BY <2>1 DEF Busy
<1>. QED
  BY <1>1 DEF Route, RouteReview, RouteAsk, RouteReset, RouteRestart, dbVars

\* What the steps of the environment leave alone.
LEMMA Elsewhere ==
    ASSUME TypeOK, [Next]_vars,
           \A w \in Workers : ~Step(w) /\ \A p \in Posts : ~Route(w, p)
    PROVE  /\ claims' = claims /\ marked' = marked /\ restart' = restart
           /\ seen'.answers = seen.answers /\ seen'.tickets = seen.tickets
           /\ seen'.unseen = seen.unseen /\ seen'.ran = seen.ran
           /\ \/ work' = work /\ seen' = seen
              \/ \E pod \in Pods : Stop(pod) /\ kind' = kind
                   /\ \A w \in Workers : work'[w] = IF w[1] = pod THEN Idle ELSE work[w]
<1>1. CASE UNCHANGED vars
  BY <1>1 DEF vars, dbVars
<1>2. ASSUME NEW w \in Workers, NEW p \in Posts, PassOver(w, p)
      PROVE  UNCHANGED <<dbVars, marked, seen, work>>
  BY <1>2 DEF PassOver
<1>3. CASE Write \/ Touch \/ Age \/ PassDays \/ \E pod \in Pods : Deploy(pod) \/ FindNobody(pod)
  BY <1>3 DEF Write, Touch, Age, PassDays, Deploy, FindNobody, dbVars
<1>4. ASSUME NEW pod \in Pods, Stop(pod)
      PROVE  /\ UNCHANGED <<kind, dbVars, marked>>
             /\ seen'.answers = seen.answers /\ seen'.tickets = seen.tickets
             /\ seen'.unseen = seen.unseen /\ seen'.ran = seen.ran
             /\ \A w \in Workers : work'[w] = IF w[1] = pod THEN Idle ELSE work[w]
  BY <1>4 DEF Stop, TypeOK, Observers
<1>. QED
  BY <1>1, <1>2, <1>3, <1>4 DEF Next, dbVars

-----------------------------------------------------------------------------

\* Only posts that were written are handed to a worker.
LEMMA DeliveredIsWritten ==
    ASSUME TypeOK, KindInv, NEW w \in Workers, NEW p \in Posts, Delivered(w, p)
    PROVE  /\ \A pod \in Pods : inbox'[pod] \subseteq Written
           /\ p \in Written
<1>1. w[1] \in Pods
  BY DEF Workers
<1>. QED
  BY <1>1 DEF Delivered, FromSocket, FromSweep, Swept, Since, TypeOK, KindInv, Written

LEMMA NextKindInv ==
    ASSUME IInv, [Next]_vars
    PROVE  KindInv'
<1>. DEFINE Doing(w) ==
        /\ work[w].at \in {"deciding"} \cup ReviewStates => kind[work[w].post] = "review"
        /\ work[w].at \in IntakeStates => kind[work[w].post] = "ask"
        /\ work[w].at = "wiping" => kind[work[w].post] = "reset"
        /\ work[w].at = "marking" => kind[work[w].post] \in {"reset", "restart"}
<1>1. TypeOK /\ KindInv /\ ClaimInv /\ \A w \in Workers : Doing(w)
  BY DEF IInv, KindInv
<1>2. ASSUME NEW w \in Workers, Step(w) PROVE KindInv'
  <2>1. UNCHANGED <<kind, inbox>> /\ Written' = Written
    BY <1>2 DEF Step, Decide, Reply, Iterate, Release, LookUp, Draft, Decline, Append, Update,
       ClaimRow, Create, Undo, Store, Tell, TellFailure, Wipe, Mark, Written
  <2>2. \A p \in claims' : kind[p] \in {"review", "ask"}
    BY <1>1, <1>2, StepClaims DEF KindInv
  <2>3. Leads(work[w].at, work'[w].at) /\ Moved(w, work'[w].at)
    BY <1>1, <1>2, StepLeads
  <2>4. Doing(w)'
    BY <1>1, <2>1, <2>3 DEF Moved, Leads, ReviewStates, IntakeStates
  <2>5. \A v \in Workers : Doing(v)'
    BY <1>1, <2>1, <2>3, <2>4 DEF Moved
  <2>. QED
    BY <1>1, <2>1, <2>2, <2>5 DEF KindInv
<1>3. ASSUME NEW w \in Workers, NEW p \in Posts, Route(w, p) PROVE KindInv'
  <2>1. UNCHANGED kind /\ Written' = Written /\ \A pod \in Pods : inbox'[pod] \subseteq Written
    BY <1>1, <1>3, DeliveredIsWritten
    DEF Route, RouteReview, RouteAsk, RouteReset, RouteRestart, Written
  <2>2. Doing(w)' /\ \A q \in claims' : kind[q] \in {"review", "ask"}
    BY <1>1, <1>3, <2>1, RouteStarts DEF ReviewStates, IntakeStates, KindInv
  <2>3. \A v \in Workers : Doing(v)'
    BY <1>1, <1>3, <2>1, <2>2, RouteMoves
  <2>. QED
    BY <1>1, <2>1, <2>2, <2>3 DEF KindInv
<1>4. ASSUME NEW w \in Workers, NEW p \in Posts, PassOver(w, p) PROVE KindInv'
  <2>1. UNCHANGED <<kind, work, claims>> /\ Written' = Written
        /\ \A pod \in Pods : inbox'[pod] \subseteq Written
    BY <1>1, <1>4, DeliveredIsWritten DEF PassOver, Written, dbVars
  <2>. QED
    BY <1>1, <2>1 DEF KindInv
<1>5. CASE Write
  <2>1. PICK n \in 0..MaxPosts : Written = 1..n /\ Cardinality(Written) = n
    BY <1>1, PostNumbers
  <2>2. PICK k \in Kinds : kind' = [kind EXCEPT ![n + 1] = k] /\ n + 1 \in Posts
    BY <1>5, <2>1 DEF Write
  <2>3. kind[n + 1] = "none" /\ k # "none"
    <3>1. n + 1 \notin Written
      BY <2>1, ListenerAssumption
    <3>. QED
      BY <2>2, <3>1 DEF Written, Kinds
  <2>4. Written' = Written \cup {n + 1}
    BY <1>1, <2>2, <2>3 DEF Written, TypeOK
  <2>5. n + 1 \in 0..MaxPosts /\ Written' = 1..(n + 1)
    BY <2>1, <2>2, <2>4, ListenerAssumption DEF Posts
  <2>6. \A pod \in Pods : inbox'[pod] \subseteq Written'
    <3>1. inbox' = inbox \/ inbox' = Broadcast(n + 1)
      BY <1>5, <2>1 DEF Write
    <3>. QED
      BY <1>1, <2>4, <3>1 DEF Broadcast, KindInv
  <2>7. UNCHANGED <<claims, work>>
    BY <1>5 DEF Write, dbVars
  <2>8. \A p \in claims' : kind'[p] \in {"review", "ask"}
    BY <1>1, <2>2, <2>3, <2>7 DEF KindInv, TypeOK
  <2>9. ASSUME NEW w \in Workers PROVE Doing(w)'
    <3>1. CASE work[w].post = n + 1
      <4>1. work[w].at \in {"idle", "releasing"}
        BY <1>1, <2>3, <3>1 DEF TypeOK, Jobs, ReviewStates, IntakeStates
      <4>. QED
        BY <2>7, <4>1 DEF ReviewStates, IntakeStates
    <3>2. CASE work[w].at # "idle" /\ work[w].post # n + 1
      <4>1. kind'[work[w].post] = kind[work[w].post]
        BY <1>1, <2>2, <3>2, HasPost DEF TypeOK
      <4>. QED
        BY <1>1, <2>7, <4>1
    <3>3. CASE work[w].at = "idle"
      BY <2>7, <3>3 DEF ReviewStates, IntakeStates
    <3>. QED
      BY <3>1, <3>2, <3>3
  <2>. QED
    BY <2>5, <2>6, <2>8, <2>9 DEF KindInv
<1>6. CASE \/ Touch \/ Age \/ PassDays \/ UNCHANGED vars
         \/ \E pod \in Pods : Deploy(pod) \/ FindNobody(pod)
  <2>1. UNCHANGED <<kind, inbox, work, claims>>
    BY <1>6 DEF Touch, Age, PassDays, Deploy, FindNobody, vars, dbVars
  <2>. QED
    BY <1>1, <2>1 DEF KindInv, Written
<1>7. ASSUME NEW pod \in Pods, Stop(pod) PROVE KindInv'
  <2>1. UNCHANGED <<kind, claims>> /\ inbox' = [inbox EXCEPT ![pod] = {}]
        /\ \A w \in Workers : work'[w] = IF w[1] = pod THEN Idle ELSE work[w]
    BY <1>7 DEF Stop, dbVars
  <2>2. \A w \in Workers : Doing(w)'
    BY <1>1, <2>1 DEF Idle, Busy, ReviewStates, IntakeStates
  <2>. QED
    BY <1>1, <2>1, <2>2 DEF KindInv, Written, TypeOK
<1>. QED
  BY <1>2, <1>3, <1>4, <1>5, <1>6, <1>7 DEF Next

-----------------------------------------------------------------------------

LEMMA NextClaimInv ==
    ASSUME IInv, [Next]_vars
    PROVE  ClaimInv'
<1>1. TypeOK /\ KindInv /\ ClaimInv
  BY DEF IInv
<1>2. ASSUME NEW w \in Workers, Step(w) PROVE ClaimInv'
  <2>1. /\ Leads(work[w].at, work'[w].at) /\ work[w].post \in Posts
        /\ \A v \in Workers : v # w => work'[v] = work[v]
        /\ work'[w].post = IF work'[w].at = "idle" THEN None ELSE work[w].post
    BY <1>1, <1>2, StepLeads DEF Moved
  <2>2. ASSUME NEW p \in Posts, Owns(w, p)'
        PROVE  p = work[w].post /\ (Owns(w, p) \/ work[w].at = "deciding")
    BY <2>1, <2>2 DEF Owns, OwnStates, ReviewStates, IntakeStates, Leads
  <2>3. \/ /\ work[w].at = "deciding" /\ work[w].post \notin claims
           /\ claims' = claims \cup {work[w].post}
        \/ /\ work[w].at = "releasing" /\ claims' = claims \ {work[w].post}
        \/ /\ work[w].at = "deciding" /\ work'[w].at = "idle" /\ claims' = claims
        \/ /\ work[w].at \notin {"deciding", "releasing"} /\ claims' = claims
    BY <1>1, <1>2, StepClaims
  <2>4. ASSUME NEW v \in Workers, v # w, NEW p \in Posts PROVE Owns(v, p)' = Owns(v, p)
    BY <2>1, <2>4 DEF Owns
  <2>5. \A p \in Posts : Owns(w, p)' => p \in claims' /\ (p \in claims => Owns(w, p))
    BY <1>1, <2>1, <2>2, <2>3 DEF ClaimInv, Owns, OwnStates, ReviewStates, IntakeStates, Leads
  <2>6. \A v \in Workers, p \in Posts : v # w /\ Owns(v, p) => p \in claims'
    <3>1. CASE work[w].at = "releasing"
      <4>1. Owns(w, work[w].post)
        BY <3>1 DEF Owns, OwnStates
      <4>. QED
        BY <1>1, <2>1, <2>3, <3>1, <4>1 DEF ClaimInv
    <3>. QED
      BY <1>1, <2>3, <3>1 DEF ClaimInv
  <2>7. \A v \in Workers, p \in Posts : Owns(v, p)' => p \in claims'
    BY <2>4, <2>5, <2>6
  <2>8. \A v \in Workers, p \in Posts : v # w /\ Owns(v, p)' => ~Owns(w, p)'
    BY <1>1, <2>4, <2>5 DEF ClaimInv
  <2>9. \A u, v \in Workers, p \in Posts : Owns(u, p)' /\ Owns(v, p)' => u = v
    BY <1>1, <2>4, <2>8 DEF ClaimInv
  <2>. QED
    BY <2>7, <2>9 DEF ClaimInv, Owns
<1>3. ASSUME NEW w \in Workers, NEW p \in Posts, Route(w, p) PROVE ClaimInv'
  <2>1. \A v \in Workers : v # w => work'[v] = work[v]
    BY <1>1, <1>3, RouteMoves
  <2>2. /\ work'[w].at \in {"deciding", "intake", "wiping", "marking"} /\ work'[w].post = p
        /\ \/ work'[w].at = "intake" /\ p \notin claims /\ claims' = claims \cup {p}
           \/ work'[w].at # "intake" /\ claims' = claims
    BY <1>1, <1>3, RouteStarts
  <2>3. \A v \in Workers, q \in Posts : v # w => Owns(v, q)' = Owns(v, q)
    BY <2>1 DEF Owns
  <2>4. \A q \in Posts : Owns(w, q)' => q = p /\ p \notin claims /\ p \in claims'
    BY <2>2 DEF Owns, OwnStates, ReviewStates, IntakeStates
  <2>5. \A v \in Workers, q \in Posts : Owns(v, q)' => q \in claims'
    BY <1>1, <2>2, <2>3, <2>4 DEF ClaimInv
  <2>6. \A v \in Workers, q \in Posts : v # w /\ Owns(v, q)' => ~Owns(w, q)'
    BY <1>1, <2>3, <2>4 DEF ClaimInv
  <2>7. \A u, v \in Workers, q \in Posts : Owns(u, q)' /\ Owns(v, q)' => u = v
    BY <1>1, <2>3, <2>6 DEF ClaimInv
  <2>. QED
    BY <2>5, <2>7 DEF ClaimInv, Owns
<1>4. CASE \A w \in Workers : ~Step(w) /\ \A p \in Posts : ~Route(w, p)
  <2>1. claims' = claims /\ \A w \in Workers : work'[w] = work[w] \/ work'[w] = Idle
    BY <1>1, <1>4, Elsewhere
  <2>2. \A w \in Workers, p \in Posts : Owns(w, p)' => Owns(w, p)
    BY <2>1 DEF Owns, Idle, Busy, OwnStates, ReviewStates, IntakeStates
  <2>3. \A w \in Workers, p \in Posts : Owns(w, p)' => p \in claims'
    BY <1>1, <2>1, <2>2 DEF ClaimInv
  <2>4. \A v, w \in Workers, p \in Posts : Owns(v, p)' /\ Owns(w, p)' => v = w
    BY <1>1, <2>2 DEF ClaimInv
  <2>. QED
    BY <2>3, <2>4 DEF ClaimInv, Owns
<1>. QED
  BY <1>2, <1>3, <1>4

\* What a step of a worker has to do with the answers to its post.
LEMMA StepAnswers ==
    ASSUME TypeOK, NEW w \in Workers, Step(w)
    PROVE  \/ /\ seen'.answers = seen.answers /\ work[w].at # "releasing"
           \/ /\ seen'.answers = [seen.answers EXCEPT ![work[w].post] = @ + 1]
              /\ work[w].at \in {"replying", "announcing", "declining", "telling", "failing"}
              /\ work'[w].at \in {"idle", "iterating", "appending"}
           \/ /\ seen'.answers = [seen.answers EXCEPT ![work[w].post] = 0]
              /\ work[w].at = "releasing"
<1>1. ASSUME NEW at, At(w, at) PROVE work'[w].at = at
  BY <1>1 DEF At, TypeOK, Jobs
<1>2. ASSUME Done(w) PROVE work'[w].at = "idle"
  BY <1>2, DoneMoves DEF Moved
<1>3. seen \in Observers
  BY DEF TypeOK
<1>4. ASSUME Answer(w)
      PROVE  seen'.answers = [seen.answers EXCEPT ![work[w].post] = @ + 1]
  BY <1>3, <1>4 DEF Answer, Observers
<1>5. CASE Decide(w)
  BY <1>3, <1>5 DEF Decide, Claim, Observers
<1>6. CASE Reply(w)
  <2>1. UNCHANGED seen \/ (Answer(w) /\ work'[w].at \in {"idle", "iterating"})
    BY <1>1, <1>2, <1>6 DEF Reply
  <2>. QED
    BY <1>4, <1>6, <2>1 DEF Reply
<1>7. CASE Decline(w)
  <2>1. UNCHANGED seen \/ (Answer(w) /\ work'[w].at \in {"idle", "appending"})
    BY <1>1, <1>2, <1>7 DEF Decline, Awaited
  <2>. QED
    BY <1>4, <1>7, <2>1 DEF Decline
<1>8. CASE Tell(w) \/ TellFailure(w)
  <2>1. UNCHANGED seen \/ (Answer(w) /\ work'[w].at = "idle")
    BY <1>2, <1>8 DEF Tell, TellFailure
  <2>. QED
    BY <1>4, <1>8, <2>1 DEF Tell, TellFailure
<1>9. CASE Release(w)
  BY <1>3, <1>9 DEF Release, Observers
<1>10. CASE Create(w)
  BY <1>3, <1>10 DEF Create, Observers
<1>11. CASE Wipe(w) \/ Mark(w)
  BY <1>3, <1>11 DEF Wipe, Mark, Observers
<1>. QED
  BY <1>5, <1>6, <1>7, <1>8, <1>9, <1>10, <1>11
  DEF Step, Iterate, LookUp, Draft, Append, Update, ClaimRow, Undo, Store

\* What a worker that has won its claim and has still to answer is doing.
Unanswered(w) ==
    work[w].at \in {"replying", "announcing"} \cup (IntakeStates \ {"appending"})

\* An owner is alone with its post: others that hold it decide, or are done.
LEMMA AloneWithPost ==
    ASSUME IInv, NEW w \in Workers, Owns(w, work[w].post), NEW v \in Workers, v # w,
           work[v].post = work[w].post
    PROVE  work[v].at \notin OwnStates
BY HasPost DEF IInv, ClaimInv, Owns, OwnStates, ReviewStates, IntakeStates

LEMMA NextAnswerInv ==
    ASSUME IInv, [Next]_vars
    PROVE  AnswerInv'
<1>1. /\ TypeOK /\ KindInv /\ ClaimInv
      /\ \A p \in Posts \ claims : seen.answers[p] = 0
      /\ \A w \in Workers : Unanswered(w) => seen.answers[work[w].post] = 0
      /\ seen.answers \in [Posts -> Nat]
  BY DEF IInv, AnswerInv, Unanswered, TypeOK, Observers
<1>2. ASSUME NEW w \in Workers, Step(w) PROVE AnswerInv'
  <2>. DEFINE p == work[w].post
  <2>1. /\ Leads(work[w].at, work'[w].at) /\ p \in Posts
        /\ \A v \in Workers : v # w => work'[v] = work[v]
        /\ work'[w].post = IF work'[w].at = "idle" THEN None ELSE p
    BY <1>1, <1>2, StepLeads DEF Moved
  <2>2. \/ seen'.answers = seen.answers /\ work[w].at # "releasing"
        \/ /\ seen'.answers = [seen.answers EXCEPT ![p] = @ + 1]
           /\ work[w].at \in {"replying", "announcing", "declining", "telling", "failing"}
           /\ work'[w].at \in {"idle", "iterating", "appending"}
        \/ /\ seen'.answers = [seen.answers EXCEPT ![p] = 0]
           /\ work[w].at = "releasing"
    BY <1>1, <1>2, StepAnswers
  <2>3. \/ /\ work[w].at = "deciding" /\ p \notin claims /\ claims' = claims \cup {p}
        \/ /\ work[w].at = "releasing" /\ claims' = claims \ {p}
        \/ /\ work[w].at = "deciding" /\ work'[w].at = "idle" /\ claims' = claims
        \/ /\ work[w].at \notin {"deciding", "releasing"} /\ claims' = claims
    BY <1>1, <1>2, StepClaims
  <2>. HIDE DEF p
  <2>4. ASSUME work[w].at \in {"replying", "announcing", "declining", "telling", "failing"}
        PROVE  p \in claims
    BY <1>1, <2>1, <2>4 DEF ClaimInv, Owns, OwnStates, ReviewStates, IntakeStates, p
  <2>5. \A q \in Posts \ claims' : seen'.answers[q] = 0
    <3>1. CASE seen'.answers = seen.answers /\ work[w].at # "releasing"
      BY <1>1, <2>1, <2>2, <2>3, <3>1
    <3>2. CASE seen'.answers = [seen.answers EXCEPT ![p] = @ + 1] /\ p \in claims
               /\ work[w].at \in {"replying", "announcing", "declining", "telling", "failing"}
      <4>1. claims' = claims
        BY <2>3, <3>2
      <4>. QED
        BY <1>1, <2>1, <3>2, <4>1
    <3>3. CASE seen'.answers = [seen.answers EXCEPT ![p] = 0] /\ work[w].at = "releasing"
      <4>1. claims' = claims \ {p}
        BY <2>3, <3>3
      <4>. QED
        BY <1>1, <2>1, <3>3, <4>1
    <3>. QED
      BY <2>2, <2>4, <3>1, <3>2, <3>3
  <2>6. Unanswered(w)' => seen'.answers[p] = 0
    <3>1. ASSUME Unanswered(w)' PROVE work[w].at = "deciding" \/ Unanswered(w)
      BY <2>1, <3>1 DEF Leads, Unanswered, IntakeStates
    <3>2. ASSUME Unanswered(w)' PROVE work'[w].at \notin {"idle", "iterating", "appending"}
      BY <3>2 DEF Unanswered, IntakeStates
    <3>3. ASSUME Unanswered(w)' PROVE work[w].at = "deciding" => p \notin claims
      BY <2>3, <3>2, <3>3
    <3>4. ASSUME Unanswered(w)' PROVE seen.answers[p] = 0
      BY <1>1, <2>1, <3>1, <3>3, <3>4 DEF p
    <3>. QED
      BY <1>1, <2>1, <2>2, <3>2, <3>4
  <2>7. ASSUME NEW v \in Workers, v # w, Unanswered(v)'
        PROVE  seen'.answers[work[v].post] = 0
    <3>1. Unanswered(v) /\ work[v].at # "idle" /\ work[v].at \in OwnStates
      BY <2>1, <2>7 DEF Unanswered, OwnStates, ReviewStates, IntakeStates
    <3>2. work[v].post \in Posts /\ seen.answers[work[v].post] = 0
      BY <1>1, <3>1, HasPost
    <3>3. CASE seen'.answers = [seen.answers EXCEPT ![p] = @ + 1]
               /\ work[w].at \in {"replying", "announcing", "declining", "telling", "failing"}
      <4>1. work[v].post # p
        BY <2>7, <3>1, <3>3, AloneWithPost DEF p, Owns, OwnStates, ReviewStates, IntakeStates
      <4>. QED
        BY <1>1, <2>1, <3>2, <3>3, <4>1
    <3>. QED
      BY <1>1, <2>1, <2>2, <3>2, <3>3
  <2>8. \A v \in Workers : Unanswered(v)' => seen'.answers[work'[v].post] = 0
    BY <2>1, <2>6, <2>7 DEF Unanswered, IntakeStates
  <2>. QED
    BY <2>5, <2>8 DEF AnswerInv, Unanswered
<1>3. ASSUME NEW w \in Workers, NEW p \in Posts, Route(w, p) PROVE AnswerInv'
  <2>1. \A v \in Workers : v # w => work'[v] = work[v]
    BY <1>1, <1>3, RouteMoves
  <2>2. /\ work'[w].at \in {"deciding", "intake", "wiping", "marking"} /\ work'[w].post = p
        /\ \/ work'[w].at = "intake" /\ p \notin claims /\ claims' = claims \cup {p}
           \/ work'[w].at # "intake" /\ claims' = claims
    BY <1>1, <1>3, RouteStarts
  <2>3. seen'.answers = seen.answers
    BY <1>1, <1>3 DEF Route, RouteReview, RouteAsk, RouteReset, RouteRestart, Fresh, TypeOK, Observers
  <2>4. \A q \in Posts \ claims' : seen'.answers[q] = 0
    BY <1>1, <2>2, <2>3
  <2>5. \A v \in Workers : Unanswered(v)' => seen'.answers[work'[v].post] = 0
    BY <1>1, <2>1, <2>2, <2>3 DEF Unanswered, IntakeStates
  <2>. QED
    BY <2>4, <2>5 DEF AnswerInv, Unanswered
<1>4. CASE \A w \in Workers : ~Step(w) /\ \A p \in Posts : ~Route(w, p)
  <2>1. claims' = claims /\ seen'.answers = seen.answers
        /\ \A w \in Workers : work'[w] = work[w] \/ work'[w] = Idle
    BY <1>1, <1>4, Elsewhere
  <2>2. \A w \in Workers : Unanswered(w)' => work'[w] = work[w] /\ Unanswered(w)
    BY <2>1 DEF Unanswered, Idle, Busy, IntakeStates
  <2>3. \A w \in Workers : Unanswered(w)' => seen'.answers[work'[w].post] = 0
    BY <1>1, <2>1, <2>2
  <2>. QED
    BY <1>1, <2>1, <2>3 DEF AnswerInv, Unanswered
<1>. QED
  BY <1>2, <1>3, <1>4

\* What a step of a worker has to do with the tickets of its post.
LEMMA StepTickets ==
    ASSUME TypeOK, NEW w \in Workers, Step(w)
    PROVE  /\ \A q \in Posts : q # work[w].post =>
                seen'.tickets[q] = seen.tickets[q] /\ seen'.unseen[q] = seen.unseen[q]
           /\ \/ /\ seen'.tickets[work[w].post] = seen.tickets[work[w].post]
                 /\ seen'.unseen[work[w].post] = seen.unseen[work[w].post]
              \/ /\ work[w].at = "creating"
                 /\ \/ /\ seen'.tickets[work[w].post] = seen.tickets[work[w].post] + 1
                       /\ seen'.unseen[work[w].post] = seen.unseen[work[w].post]
                       /\ work'[w].at = "storing"
                    \/ /\ seen'.tickets[work[w].post] = seen.tickets[work[w].post] + 2
                       /\ seen'.unseen[work[w].post] = seen.unseen[work[w].post] + 1
                       /\ work'[w].at = "storing"
                    \/ /\ seen'.tickets[work[w].post] = seen.tickets[work[w].post] + 1
                       /\ seen'.unseen[work[w].post] = seen.unseen[work[w].post] + 1
<1>. DEFINE p == work[w].post
<1>1. ASSUME NEW at, At(w, at) PROVE work'[w].at = at
  BY <1>1 DEF At, TypeOK, Jobs
<1>2. seen \in Observers /\ p \in Posts
  BY StepMoves, HasPost DEF TypeOK
<1>3. CASE Create(w)
  <2>1. \/ seen' = [seen EXCEPT !.tickets[p] = @ + 1, !.unseen[p] = @ + 0]
             /\ work'[w].at = "storing"
        \/ seen' = [seen EXCEPT !.tickets[p] = @ + 2, !.unseen[p] = @ + 1]
             /\ work'[w].at = "storing"
        \/ seen' = [seen EXCEPT !.tickets[p] = @ + 1, !.unseen[p] = @ + 1]
        \/ UNCHANGED seen
    BY <1>1, <1>3 DEF Create, SentAgain, MadeAndRaised
  <2>2. work[w].at = "creating"
    BY <1>3 DEF Create
  <2>3. ASSUME NEW n \in Nat, NEW m \in Nat,
               seen' = [seen EXCEPT !.tickets[p] = @ + n, !.unseen[p] = @ + m]
        PROVE  /\ \A q \in Posts : q # p =>
                    seen'.tickets[q] = seen.tickets[q] /\ seen'.unseen[q] = seen.unseen[q]
               /\ seen'.tickets[p] = seen.tickets[p] + n
               /\ seen'.unseen[p] = seen.unseen[p] + m
    <3>1. /\ seen'.tickets = [seen.tickets EXCEPT ![p] = @ + n]
          /\ seen'.unseen = [seen.unseen EXCEPT ![p] = @ + m]
      BY <1>2, <2>3 DEF Observers
    <3>. QED
      BY <1>2, <3>1 DEF Observers
  <2>4. CASE UNCHANGED seen
    BY <2>4
  <2>5. CASE seen' = [seen EXCEPT !.tickets[p] = @ + 1, !.unseen[p] = @ + 0]
             /\ work'[w].at = "storing"
    <3>1. /\ seen'.tickets = [seen.tickets EXCEPT ![p] = @ + 1]
          /\ seen'.unseen = [seen.unseen EXCEPT ![p] = @ + 0]
      BY <1>2, <2>5 DEF Observers
    <3>. QED
      BY <1>2, <2>2, <2>5, <3>1 DEF Observers
  <2>6. CASE seen' = [seen EXCEPT !.tickets[p] = @ + 2, !.unseen[p] = @ + 1]
             /\ work'[w].at = "storing"
    BY <2>2, <2>3, <2>6
  <2>7. CASE seen' = [seen EXCEPT !.tickets[p] = @ + 1, !.unseen[p] = @ + 1]
    BY <2>2, <2>3, <2>7
  <2>. QED
    BY <2>1, <2>4, <2>5, <2>6, <2>7
<1>4. CASE ~Create(w)
  <2>1. seen'.tickets = seen.tickets /\ seen'.unseen = seen.unseen
    BY <1>2, <1>4 DEF Step, Decide, Claim, Reply, Answer, Iterate, Release, LookUp, Draft, Decline,
       Append, Update, ClaimRow, Undo, Store, Tell, TellFailure, Wipe, Mark, Observers
  <2>. QED
    BY <2>1
<1>. QED
  BY <1>3, <1>4

LEMMA NextTicketInv ==
    ASSUME IInv, [Next]_vars
    PROVE  TicketInv'
<1>. DEFINE Bare(w) == work[w].at \in OwnStates \ {"storing", "telling"}
            Fine(q) == seen.tickets[q] <= seen.unseen[q]
            Good(q) == seen.tickets[q] <= 1 + seen.unseen[q]
<1>1. /\ TypeOK /\ KindInv /\ ClaimInv /\ seen \in Observers
      /\ \A q \in Posts : Good(q)
      /\ \A q \in Posts \ claims : Fine(q)
      /\ \A w \in Workers : Bare(w) => Fine(work[w].post)
  BY DEF IInv, TicketInv, OneTicketPerPost, TypeOK
<1>2. \A q \in Posts : seen.tickets[q] \in Nat /\ seen.unseen[q] \in Nat
  BY <1>1 DEF Observers
<1>3. ASSUME \A q \in Posts : Good(q)', \A q \in Posts \ claims' : Fine(q)',
             \A w \in Workers : Bare(w)' => Fine(work[w].post)'
      PROVE  TicketInv'
  BY <1>3 DEF TicketInv, OneTicketPerPost
<1>4. ASSUME NEW w \in Workers, Step(w) PROVE TicketInv'
  <2>. PICK p \in Posts : p = work[w].post
    BY <1>1, <1>4, StepLeads
  <2>1. /\ Leads(work[w].at, work'[w].at) /\ p \in Posts /\ p = work[w].post
        /\ \A v \in Workers : v # w => work'[v] = work[v]
        /\ work'[w].post = IF work'[w].at = "idle" THEN None ELSE p
    BY <1>1, <1>4, StepLeads DEF Moved
  <2>2. \/ /\ work[w].at = "deciding" /\ p \notin claims /\ claims' = claims \cup {p}
        \/ /\ work[w].at = "releasing" /\ claims' = claims \ {p}
        \/ /\ work[w].at = "deciding" /\ work'[w].at = "idle" /\ claims' = claims
        \/ /\ work[w].at \notin {"deciding", "releasing"} /\ claims' = claims
    BY <1>1, <1>4, StepClaims
  <2>3. \A q \in Posts : q # p =>
          seen'.tickets[q] = seen.tickets[q] /\ seen'.unseen[q] = seen.unseen[q]
    BY <1>1, <1>4, StepTickets
  <2>4. \/ seen'.tickets[p] = seen.tickets[p] /\ seen'.unseen[p] = seen.unseen[p]
        \/ work[w].at = "creating" /\ Bare(w) /\ Owns(w, p)
             /\ Good(p)' /\ (Fine(p)' \/ work'[w].at = "storing")
    <3>1. work[w].at = "creating" => Bare(w) /\ Owns(w, p) /\ Fine(p)
      BY <1>1, <2>1 DEF OwnStates, IntakeStates, Owns
    <3>. QED
      BY <1>1, <1>2, <1>4, <2>1, <3>1, StepTickets
  <2>5. ASSUME NEW v \in Workers, v # w, work[v].post = p, work[w].at = "creating"
        PROVE  ~Bare(v)
    BY <2>1, <2>5, AloneWithPost DEF Owns, OwnStates, IntakeStates
  <2>6. \A q \in Posts : Good(q)'
    BY <1>1, <2>1, <2>3, <2>4
  <2>7. ASSUME NEW q \in Posts \ claims' PROVE Fine(q)'
    <3>1. CASE q \notin claims
      <4>1. ~Owns(w, q)
        BY <1>1, <3>1 DEF ClaimInv
      <4>. QED
        BY <1>1, <2>1, <2>3, <2>4, <3>1, <4>1
    <3>2. CASE q \in claims
      <4>1. q = p /\ work[w].at = "releasing" /\ Fine(p)
        BY <1>1, <2>2, <2>7, <2>1, <3>2 DEF OwnStates
      <4>. QED
        BY <2>4, <4>1
    <3>. QED
      BY <3>1, <3>2
  <2>8. ASSUME Bare(w)' PROVE Fine(work[w].post)'
    <3>1. work[w].at = "deciding" \/ Bare(w)
      BY <2>1, <2>8 DEF Leads, OwnStates, ReviewStates, IntakeStates
    <3>2. work'[w].post = p /\ work'[w].at # "storing"
      BY <2>1, <2>8 DEF OwnStates, ReviewStates, IntakeStates
    <3>3. work[w].at = "deciding" => p \notin claims
      BY <2>2, <2>8 DEF OwnStates, ReviewStates, IntakeStates
    <3>4. Fine(p)
      BY <1>1, <2>1, <3>1, <3>3
    <3>5. Fine(p)'
      BY <2>4, <3>2, <3>4
    <3>. QED
      BY <3>2, <3>5
  <2>9. ASSUME NEW v \in Workers, v # w, Bare(v)' PROVE Fine(work[v].post)'
    <3>1. Bare(v) /\ work'[v] = work[v] /\ work[v].at # "idle"
      BY <2>1, <2>9 DEF OwnStates, ReviewStates, IntakeStates
    <3>2. work[v].post \in Posts /\ Fine(work[v].post)
      BY <1>1, <3>1, HasPost
    <3>3. CASE work[v].post # p
      BY <2>3, <3>1, <3>2, <3>3
    <3>4. CASE work[v].post = p
      <4>1. work[w].at # "creating"
        BY <2>5, <2>9, <3>1, <3>4
      <4>. QED
        BY <2>4, <3>1, <3>2, <3>4, <4>1
    <3>. QED
      BY <3>3, <3>4
  <2>. QED
    BY <1>3, <2>6, <2>7, <2>8, <2>9
<1>5. ASSUME NEW w \in Workers, NEW p \in Posts, Route(w, p) PROVE TicketInv'
  <2>1. \A v \in Workers : v # w => work'[v] = work[v]
    BY <1>1, <1>5, RouteMoves
  <2>2. /\ work'[w].at \in {"deciding", "intake", "wiping", "marking"} /\ work'[w].post = p
        /\ \/ work'[w].at = "intake" /\ p \notin claims /\ claims' = claims \cup {p}
           \/ work'[w].at # "intake" /\ claims' = claims
    BY <1>1, <1>5, RouteStarts
  <2>3. seen'.tickets = seen.tickets /\ seen'.unseen = seen.unseen
    BY <1>1, <1>5
    DEF Route, RouteReview, RouteAsk, RouteReset, RouteRestart, Fresh, Observers
  <2>4. Bare(w)' => Fine(p)
    BY <1>1, <2>2 DEF OwnStates, ReviewStates, IntakeStates
  <2>. QED
    BY <1>1, <1>3, <2>1, <2>2, <2>3, <2>4
<1>6. CASE \A w \in Workers : ~Step(w) /\ \A p \in Posts : ~Route(w, p)
  <2>1. claims' = claims /\ seen'.tickets = seen.tickets /\ seen'.unseen = seen.unseen
        /\ \A w \in Workers : work'[w] = work[w] \/ work'[w] = Idle
    BY <1>1, <1>6, Elsewhere
  <2>2. \A w \in Workers : Bare(w)' => work'[w] = work[w]
    BY <2>1 DEF Idle, Busy, OwnStates, ReviewStates, IntakeStates
  <2>. QED
    BY <1>1, <1>3, <2>1, <2>2
<1>. QED
  BY <1>4, <1>5, <1>6

-----------------------------------------------------------------------------

\* Who holds a /reset carries it out or marks it.
LEMMA ResetHolders ==
    ASSUME IInv, NEW w \in Workers, work[w].post \in Posts, kind[work[w].post] = "reset"
    PROVE  work[w].at \in {"wiping", "marking"}
<1>1. work[w].at # "idle"
  BY DEF IInv, TypeOK, Posts, None
<1>2. work[w].at # "releasing"
  <2>1. work[w].at = "releasing" => Owns(w, work[w].post)
    BY DEF Owns, OwnStates
  <2>. QED
    BY <2>1 DEF IInv, KindInv, ClaimInv
<1>. QED
  BY <1>1, <1>2 DEF IInv, TypeOK, Jobs, KindInv, ReviewStates, IntakeStates

\* What CommandInv says of one post.
CommandOf(p) ==
    /\ kind[p] = "restart" => seen.ran[p] <= 1 /\ (restart < p => seen.ran[p] = 0)
    /\ kind[p] = "reset" =>
         seen.ran[p] + Cardinality(Wipers(p))
           <= seen.unmarked[p] + (IF p \in marked \/ Holders(p) # {} THEN 1 ELSE 0)
    /\ kind[p] \notin {"restart", "reset"} => seen.ran[p] = 0

\* A worker that comes or goes with a post leaves the other posts alone.
LEMMA OtherPosts ==
    ASSUME IInv, NEW w \in Workers, NEW p \in Posts, NEW q \in Posts, q # p,
           \A v \in Workers : v # w => work'[v] = work[v],
           work[w].post \in {p, None}, work'[w].post \in {p, None}
    PROVE  Holders(q)' = Holders(q) /\ Wipers(q)' = Wipers(q)
<1>1. None \notin Posts
  BY DEF None, Posts
<1>. QED
  BY <1>1 DEF Holders, Wipers

LEMMA NextCommandInvStep ==
    ASSUME IInv, NEW w \in Workers, Step(w)
    PROVE  CommandInv'
<1>. PICK p \in Posts : p = work[w].post
  BY StepLeads DEF IInv
<1>1. /\ TypeOK /\ seen \in Observers /\ p = work[w].post /\ p # None
      /\ \A q \in Posts : CommandOf(q)
      /\ \A q \in Posts : seen.ran[q] \in Nat /\ seen.unmarked[q] \in Nat
  <2>1. TypeOK /\ seen \in Observers /\ p # None
    BY DEF IInv, TypeOK, None, Posts
  <2>2. \A q \in Posts : CommandOf(q)
    BY DEF IInv, CommandInv, CommandOf
  <2>. QED
    BY <2>1, <2>2 DEF Observers
<1>2. /\ Leads(work[w].at, work'[w].at)
      /\ \A v \in Workers : v # w => work'[v] = work[v]
      /\ work'[w].post = IF work'[w].at = "idle" THEN None ELSE p
  BY <1>1, StepLeads DEF Moved
<1>3. UNCHANGED <<kind, restart>>
  BY DEF Step, Decide, Reply, Iterate, Release, LookUp, Draft, Decline, Append, Update,
     ClaimRow, Create, Undo, Store, Tell, TellFailure, Wipe, Mark, dbVars
<1>4. SUFFICES \A q \in Posts : CommandOf(q)'
  BY DEF CommandInv, CommandOf, Holders, Wipers
<1>5. \A q \in Posts : q # p => Holders(q)' = Holders(q) /\ Wipers(q)' = Wipers(q)
  BY <1>1, <1>2, OtherPosts
<1>6. ASSUME UNCHANGED marked, seen'.ran = seen.ran, seen'.unmarked = seen.unmarked,
             work[w].at \notin {"wiping", "marking"}
      PROVE  \A q \in Posts : CommandOf(q)'
  <2>1. kind[p] # "reset"
    BY <1>1, <1>6, ResetHolders
  <2>. QED
    BY <1>1, <1>3, <1>5, <1>6, <2>1 DEF CommandOf
<1>7. CASE Wipe(w)
  <2>1. /\ seen'.unmarked = seen.unmarked /\ marked' = marked /\ work[w].at = "wiping"
        /\ \/ seen'.ran = [seen.ran EXCEPT ![p] = @ + 1] /\ work'[w].at = "marking"
           \/ seen'.ran = seen.ran /\ work'[w].at \in {"marking", "idle"}
    <3>1. work[w].at = "wiping"
      BY <1>7 DEF Wipe
    <3>2. CASE At(w, "marking")
      <4>1. work'[w].at = "marking"
        BY <1>1, <3>2 DEF At, TypeOK, Jobs
      <4>. QED
        BY <1>1, <1>7, <3>1, <4>1 DEF Wipe, Observers
    <3>3. CASE Done(w) /\ UNCHANGED seen
      BY <1>2, <1>7, <3>1, <3>3 DEF Wipe, Leads
    <3>. QED
      BY <1>7, <3>2, <3>3 DEF Wipe
  <2>2. ASSUME NEW q \in Posts, q # p PROVE CommandOf(q)'
    <3>1. seen'.ran[q] = seen.ran[q]
      BY <1>1, <2>1, <2>2 DEF Observers
    <3>. QED
      BY <1>1, <1>3, <1>5, <2>1, <2>2, <3>1 DEF CommandOf
  <2>3. kind[p] = "reset"
    BY <1>1, <2>1 DEF IInv, KindInv
  <2>4. /\ Wipers(p)' = Wipers(p) \ {w} /\ w \in Wipers(p)
        /\ work'[w].at = "marking" => Holders(p)' = Holders(p)
    BY <1>1, <1>2, <2>1 DEF Wipers, Holders
  <2>5. Cardinality(Wipers(p)') = Cardinality(Wipers(p)) - 1 /\ Cardinality(Wipers(p)) \in Nat
    <3>1. IsFiniteSet(Wipers(p)) /\ Cardinality(Wipers(p)) \in Nat
      BY WorkersAreFinite DEF Wipers
    <3>. QED
      BY <2>4, <3>1, FS_RemoveElement
  <2>6. seen'.ran[p] = IF seen'.ran = seen.ran THEN seen.ran[p] ELSE seen.ran[p] + 1
    BY <1>1, <2>1 DEF Observers
  <2>7. seen.ran[p] + Cardinality(Wipers(p)) <= seen.unmarked[p] + 1
    BY <1>1, <2>3, <2>5 DEF CommandOf
  <2>8. CASE work'[w].at = "marking"
    <3>1. w \in Holders(p)'
      BY <1>2, <2>8 DEF Holders
    <3>2. seen'.ran[p] + Cardinality(Wipers(p)') <= seen'.unmarked[p] + 1
      BY <1>1, <2>1, <2>5, <2>6, <2>7
    <3>. QED
      BY <1>3, <2>2, <2>3, <3>1, <3>2 DEF CommandOf
  <2>9. CASE work'[w].at = "idle"
    <3>1. seen'.ran[p] + Cardinality(Wipers(p)') <= seen'.unmarked[p]
      BY <1>1, <2>1, <2>5, <2>6, <2>7, <2>9
    <3>2. seen'.unmarked[p] \in Nat /\ seen'.unmarked[p] + 0 = seen'.unmarked[p]
      BY <1>1, <2>1
    <3>3. seen'.ran[p] + Cardinality(Wipers(p)') <= seen'.unmarked[p] + 1
      BY <1>1, <2>1, <2>5, <2>6, <2>7
    <3>. DEFINE one == IF p \in marked' \/ Holders(p)' # {} THEN 1 ELSE 0
    <3>4. one = 0 \/ one = 1
      OBVIOUS
    <3>. HIDE DEF one
    <3>5. seen'.ran[p] + Cardinality(Wipers(p)') <= seen'.unmarked[p] + one
      BY <3>1, <3>2, <3>3, <3>4
    <3>6. CommandOf(p)'
      BY <1>3, <2>3, <3>5 DEF CommandOf, one
    <3>. QED
      BY <2>2, <3>6
  <2>. QED
    BY <2>1, <2>8, <2>9
<1>8. CASE Mark(w)
  <2>1. /\ seen'.ran = seen.ran /\ work[w].at = "marking" /\ work'[w].at = "idle"
        /\ \/ marked' = marked \cup {p} /\ seen'.unmarked = seen.unmarked
           \/ marked' = marked /\ seen'.unmarked = [seen.unmarked EXCEPT ![p] = @ + 1]
    BY <1>1, <1>2, <1>8 DEF Mark, AddReaction, Observers, Leads
  <2>2. \A q \in Posts : q # p => CommandOf(q)'
    BY <1>1, <1>3, <1>5, <2>1 DEF CommandOf, Observers
  <2>3. Wipers(p)' = Wipers(p) /\ Cardinality(Wipers(p)) \in Nat
    BY <1>1, <1>2, <2>1, WorkersAreFinite DEF Wipers
  <2>4. p \in marked' \/ seen'.unmarked[p] = seen.unmarked[p] + 1
    BY <1>1, <2>1 DEF Observers
  <2>5. seen'.unmarked[p] >= seen.unmarked[p]
    BY <1>1, <2>1 DEF Observers
  <2>6. CommandOf(p)
    BY <1>1
  <2>7. CommandOf(p)'
    <3>. DEFINE n == Cardinality(Wipers(p))
    <3>1. kind[p] = "reset" => seen.ran[p] + n <= seen.unmarked[p] + 1
      BY <1>1, <2>3, <2>6 DEF CommandOf
    <3>2. Cardinality(Wipers(p)') = n /\ n \in Nat
      BY <2>3
    <3>. HIDE DEF n
    <3>3. seen'.unmarked[p] \in Nat /\ seen'.ran[p] = seen.ran[p]
      BY <1>1, <2>1 DEF Observers
    <3>4. kind[p] = "reset" => seen'.ran[p] + Cardinality(Wipers(p)')
            <= seen'.unmarked[p] + (IF p \in marked' \/ Holders(p)' # {} THEN 1 ELSE 0)
      BY <1>1, <2>4, <2>5, <3>1, <3>2, <3>3
    <3>. QED
      BY <1>3, <2>1, <2>6, <3>4 DEF CommandOf
  <2>. QED
    BY <2>2, <2>7
<1>9. CASE ~Wipe(w) /\ ~Mark(w)
  <2>1. UNCHANGED marked /\ seen'.ran = seen.ran /\ seen'.unmarked = seen.unmarked
    BY <1>1, <1>9 DEF Step, Decide, Claim, Reply, Answer, Iterate, Release, LookUp, Draft, Decline,
       Append, Update, ClaimRow, Create, Undo, Store, Tell, TellFailure, Observers
  <2>2. work[w].at \notin {"wiping", "marking"}
    BY <1>9 DEF Step, Decide, Reply, Iterate, Release, LookUp, Draft, Decline,
       Append, Update, ClaimRow, Create, Undo, Store, Tell, TellFailure
  <2>. QED
    BY <1>6, <2>1, <2>2
<1>. QED
  BY <1>7, <1>8, <1>9

LEMMA NextCommandInvRoute ==
    ASSUME IInv, NEW w \in Workers, NEW p \in Posts, Route(w, p)
    PROVE  CommandInv'
<1>1. /\ TypeOK /\ seen \in Observers /\ restart \in 0..MaxPosts
      /\ \A q \in Posts : CommandOf(q)
      /\ \A q \in Posts : seen.ran[q] \in Nat /\ seen.unmarked[q] \in Nat
  <2>1. TypeOK /\ seen \in Observers /\ restart \in 0..MaxPosts
    BY DEF IInv, TypeOK
  <2>2. \A q \in Posts : CommandOf(q)
    BY DEF IInv, CommandInv, CommandOf
  <2>. QED
    BY <2>1, <2>2 DEF Observers
<1>2. /\ work[w].post = None /\ \A v \in Workers : v # w => work'[v] = work[v]
      /\ work'[w].post = p /\ work'[w].at \in {"deciding", "intake", "wiping", "marking"}
  BY <1>1, RouteMoves, RouteStarts
<1>3. \A q \in Posts : q # p => Holders(q)' = Holders(q) /\ Wipers(q)' = Wipers(q)
  BY <1>2, OtherPosts
<1>4. UNCHANGED <<kind, marked>>
  BY DEF Route, RouteReview, RouteAsk, RouteReset, RouteRestart, dbVars
<1>5. SUFFICES \A q \in Posts : CommandOf(q)'
  BY DEF CommandInv, CommandOf, Holders, Wipers
<1>6. CASE RouteReview(w, p) \/ RouteAsk(w, p)
  <2>1. seen'.ran = seen.ran /\ seen'.unmarked = seen.unmarked /\ restart' = restart
        /\ kind[p] \in {"review", "ask"}
    BY <1>1, <1>6 DEF RouteReview, RouteAsk, Observers, dbVars
  <2>. QED
    BY <1>1, <1>3, <1>4, <2>1 DEF CommandOf
<1>7. CASE RouteRestart(w, p)
  <2>1. /\ kind[p] = "restart" /\ restart < p /\ restart' = p
        /\ seen'.ran = [seen.ran EXCEPT ![p] = @ + 1] /\ seen'.unmarked = seen.unmarked
    BY <1>1, <1>7 DEF RouteRestart, IsNewer, Observers
  <2>2. seen.ran[p] = 0
    BY <1>1, <2>1 DEF CommandOf
  <2>3. seen'.ran[p] = 1 /\ ~(restart' < p)
    BY <1>1, <2>1, <2>2, ListenerAssumption DEF Observers, Posts
  <2>4. \A q \in Posts : restart' < q => restart < q
    BY <1>1, <2>1, ListenerAssumption DEF Posts
  <2>5. CommandOf(p)'
    BY <1>4, <2>1, <2>3 DEF CommandOf
  <2>6. ASSUME NEW q \in Posts, q # p PROVE CommandOf(q)'
    <3>1. seen'.ran[q] = seen.ran[q] /\ CommandOf(q)
      BY <1>1, <2>1, <2>6 DEF Observers
    <3>. QED
      BY <1>3, <1>4, <2>1, <2>4, <2>6, <3>1 DEF CommandOf
  <2>. QED
    BY <2>5, <2>6
<1>8. CASE RouteReset(w, p)
  <2>. DEFINE h == Cardinality(Holders(p))
              n == Cardinality(Wipers(p))
  <2>1. /\ kind[p] = "reset" /\ seen'.ran = seen.ran /\ restart' = restart
        /\ work'[w].at = "wiping"
        /\ \/ p \notin marked /\ seen'.unmarked = [seen.unmarked EXCEPT ![p] = @ + h]
           \/ p \in marked /\ seen'.unmarked = [seen.unmarked EXCEPT ![p] = @ + 1]
    <3>1. Begin(w, "wiping", p) /\ kind[p] = "reset" /\ restart' = restart
      BY <1>8 DEF RouteReset, dbVars
    <3>2. work'[w] = Busy("wiping", p)
      BY <1>1, <3>1, BeginMoves
    <3>. QED
      BY <1>1, <1>8, <3>1, <3>2 DEF RouteReset, Fresh, Overlooked, Observers, Holders, Busy
  <2>2. /\ Wipers(p)' = Wipers(p) \cup {w} /\ w \notin Wipers(p)
        /\ Holders(p)' # {}
    <3>1. p # None
      BY DEF Posts, None
    <3>. QED
      BY <1>2, <2>1, <3>1 DEF Wipers, Holders
  <2>3. h \in Nat /\ n \in Nat /\ Cardinality(Wipers(p)') = n + 1 /\ (Holders(p) # {} => h >= 1)
    <3>1. /\ IsFiniteSet(Wipers(p)) /\ n \in Nat /\ IsFiniteSet(Holders(p)) /\ h \in Nat
      BY WorkersAreFinite DEF Wipers, Holders
    <3>2. Cardinality(Wipers(p)') = n + 1
      BY <2>2, <3>1, FS_AddElement
    <3>. QED
      BY <3>1, <3>2, FS_EmptySet
  <2>4. seen.ran[p] + n <= seen.unmarked[p] + (IF p \in marked \/ Holders(p) # {} THEN 1 ELSE 0)
    BY <1>1, <2>1 DEF CommandOf
  <2>. HIDE DEF h, n
  <2>5. seen'.unmarked[p] = seen.unmarked[p] + (IF p \in marked THEN 1 ELSE h)
    BY <1>1, <2>1, <2>3 DEF Observers
  <2>6. seen'.ran[p] + Cardinality(Wipers(p)') <= seen'.unmarked[p] + 1
    BY <1>1, <2>1, <2>3, <2>4, <2>5
  <2>7. CommandOf(p)'
    BY <1>4, <2>1, <2>2, <2>6 DEF CommandOf
  <2>8. ASSUME NEW q \in Posts, q # p PROVE CommandOf(q)'
    <3>1. seen'.ran[q] = seen.ran[q] /\ seen'.unmarked[q] = seen.unmarked[q] /\ CommandOf(q)
      BY <1>1, <2>1, <2>8 DEF Observers
    <3>. QED
      BY <1>3, <1>4, <2>1, <2>8, <3>1 DEF CommandOf
  <2>. QED
    BY <2>7, <2>8
<1>. QED
  BY <1>6, <1>7, <1>8 DEF Route

LEMMA NextCommandInvStop ==
    ASSUME IInv, NEW pod \in Pods, Stop(pod)
    PROVE  CommandInv'
<1>1. /\ TypeOK /\ seen \in Observers
      /\ \A q \in Posts : CommandOf(q)
      /\ \A q \in Posts : seen.ran[q] \in Nat /\ seen.unmarked[q] \in Nat
  <2>1. TypeOK /\ seen \in Observers
    BY DEF IInv, TypeOK
  <2>2. \A q \in Posts : CommandOf(q)
    BY DEF IInv, CommandInv, CommandOf
  <2>. QED
    BY <2>1, <2>2 DEF Observers
<1>2. /\ UNCHANGED <<kind, marked, restart>> /\ seen'.ran = seen.ran
      /\ \A w \in Workers : work'[w] = IF w[1] = pod THEN Idle ELSE work[w]
      /\ \A q \in Posts : seen'.unmarked[q] = seen.unmarked[q] +
           Cardinality({w \in Workers : w[1] = pod /\ work[w].post = q /\ work[w].at = "marking"})
  BY <1>1 DEF Stop, dbVars, Observers
<1>3. SUFFICES ASSUME NEW p \in Posts PROVE CommandOf(p)'
  BY DEF CommandInv, CommandOf, Holders, Wipers
<1>4. CASE kind[p] # "reset"
  BY <1>1, <1>2, <1>4 DEF CommandOf
<1>5. CASE kind[p] = "reset"
  <2>. DEFINE M == {w \in Workers : w[1] = pod /\ work[w].post = p /\ work[w].at = "marking"}
              W == Wipers(p)
              V == {w \in W : w[1] # pod}
  <2>1. p # None /\ Idle.post = None
    BY DEF Posts, None, Idle, Busy
  <2>2. Wipers(p)' = V /\ Holders(p)' = {w \in Holders(p) : w[1] # pod}
    BY <1>2, <2>1 DEF Wipers, Holders
  <2>3. /\ Cardinality(M) \in Nat /\ Cardinality(W) \in Nat /\ Cardinality(V) \in Nat
        /\ IsFiniteSet(M) /\ IsFiniteSet(W) /\ IsFiniteSet(V)
    BY WorkersAreFinite DEF Wipers
  <2>4. Cardinality(V) <= Cardinality(W) /\ (Cardinality(V) = Cardinality(W) => V = W)
    <3>1. V \in SUBSET W
      OBVIOUS
    <3>. QED
      BY <2>3, <3>1, FS_Subset
  <2>5. M # {} => Cardinality(M) >= 1
    BY <2>3, FS_EmptySet
  <2>6. ASSUME NEW w \in Holders(p), w[1] = pod PROVE M # {} \/ V # W
    <3>1. work[w].at \in {"wiping", "marking"}
      BY <1>5, <2>6, ResetHolders DEF Holders
    <3>. QED
      BY <2>6, <3>1 DEF Holders, Wipers
  <2>7. (M # {} \/ V # W) \/ Holders(p)' = Holders(p)
    BY <2>2, <2>6 DEF Holders
  <2>8. seen.ran[p] + Cardinality(W)
          <= seen.unmarked[p] + (IF p \in marked \/ Holders(p) # {} THEN 1 ELSE 0)
    BY <1>1, <1>5 DEF CommandOf
  <2>9. seen'.unmarked[p] = seen.unmarked[p] + Cardinality(M)
    BY <1>2
  <2>10. Cardinality(Wipers(p)') = Cardinality(V)
    BY <2>2
  <2>. HIDE DEF M, V, W
  <2>11. seen'.ran[p] + Cardinality(Wipers(p)')
           <= seen'.unmarked[p] + (IF p \in marked' \/ Holders(p)' # {} THEN 1 ELSE 0)
    BY <1>1, <1>2, <2>3, <2>4, <2>5, <2>7, <2>8, <2>9, <2>10
  <2>. QED
    BY <1>2, <1>5, <2>11 DEF CommandOf
<1>. QED
  BY <1>4, <1>5

LEMMA NextCommandInv ==
    ASSUME IInv, [Next]_vars
    PROVE  CommandInv'
<1>1. TypeOK /\ KindInv /\ \A q \in Posts : CommandOf(q)
  BY DEF IInv, CommandInv, CommandOf
<1>2. CASE Write
  <2>1. PICK n \in 0..MaxPosts : Written = 1..n /\ Cardinality(Written) = n
    BY <1>1, PostNumbers
  <2>. DEFINE p == n + 1
  <2>2. PICK k \in Kinds : kind' = [kind EXCEPT ![p] = k] /\ p \in Posts
    BY <1>2, <2>1 DEF Write
  <2>3. kind[p] = "none"
    <3>1. p \notin Written
      BY <2>1, ListenerAssumption
    <3>. QED
      BY <2>2, <3>1 DEF Written
  <2>4. UNCHANGED <<work, marked, restart, seen>>
    BY <1>2 DEF Write, dbVars
  <2>5. Wipers(p) = {}
    BY <1>1, <2>3 DEF Wipers, KindInv
  <2>6. Cardinality(Wipers(p)) = 0
    BY <2>5, FS_EmptySet
  <2>7. seen.ran[p] = 0 /\ seen.unmarked[p] \in Nat
    BY <1>1, <2>2, <2>3 DEF CommandOf, TypeOK, Observers
  <2>8. \A q \in Posts : Wipers(q)' = Wipers(q) /\ Holders(q)' = Holders(q)
    BY <2>4 DEF Wipers, Holders
  <2>. HIDE DEF p
  <2>9. CommandOf(p)'
    BY <2>2, <2>4, <2>6, <2>7, <2>8 DEF CommandOf
  <2>10. \A q \in Posts : q # p => CommandOf(q)'
    BY <1>1, <2>2, <2>4, <2>8 DEF CommandOf, TypeOK
  <2>. QED
    BY <2>9, <2>10 DEF CommandInv, CommandOf, Holders, Wipers
<1>3. ASSUME UNCHANGED <<kind, work, marked, restart, seen>> PROVE CommandInv'
  BY <1>3 DEF IInv, CommandInv, Wipers, Holders
<1>4. ASSUME NEW w \in Workers, NEW p \in Posts, PassOver(w, p) PROVE CommandInv'
  BY <1>3, <1>4 DEF PassOver, dbVars
<1>5. CASE \/ Touch \/ Age \/ PassDays \/ UNCHANGED vars
         \/ \E pod \in Pods : Deploy(pod) \/ FindNobody(pod)
  BY <1>3, <1>5 DEF Touch, Age, PassDays, Deploy, FindNobody, vars, dbVars
<1>. QED
  BY <1>2, <1>4, <1>5, NextCommandInvStep, NextCommandInvRoute, NextCommandInvStop DEF Next

-----------------------------------------------------------------------------

LEMMA InitIInv == Init => IInv
<1>. SUFFICES ASSUME Init PROVE IInv
  OBVIOUS
<1>1. \A w \in Workers : work[w] = Idle /\ work[w].at = "idle" /\ work[w].post = None
  BY DEF Init, Idle, Busy
<1>2. /\ seen.answers = [p \in Posts |-> 0] /\ seen.tickets = [p \in Posts |-> 0]
      /\ seen.unseen = [p \in Posts |-> 0] /\ seen.ran = [p \in Posts |-> 0]
      /\ seen.unmarked = [p \in Posts |-> 0] /\ seen.dropped = {} /\ seen \in Observers
  <2>1. [p \in Posts |-> 0] \in [Posts -> Nat]
    OBVIOUS
  <2>. QED
    BY <2>1 DEF Init, Observers
<1>3. Idle \in Jobs
  <2>1. 0 \in 0..MaxRows
    BY ListenerAssumption
  <2>. QED
    BY <2>1 DEF Idle, Busy, Jobs, None
<1>4. RowsOK /\ RestOK
  BY ListenerAssumption DEF Init, RowsOK, RestOK, None
<1>5. work \in [Workers -> Jobs] /\ Workable /\ left \in [Bounds -> Nat]
  BY <1>1, <1>3, ListenerAssumption DEF Init, Workable
<1>6. TypeOK
  BY <1>2, <1>4, <1>5 DEF TypeOK, RowsOK, RestOK, Workable
<1>7. KindInv
  <2>1. Written = 1..0
    BY DEF Init, Written
  <2>. QED
    BY <1>1, <2>1, ListenerAssumption DEF Init, KindInv, ReviewStates, IntakeStates
<1>8. ClaimInv /\ AnswerInv
  BY <1>1, <1>2 DEF ClaimInv, AnswerInv, Owns, OwnStates, ReviewStates, IntakeStates
<1>9. TicketInv
  BY <1>1, <1>2
  DEF TicketInv, OneTicketPerPost, OwnStates, ReviewStates, IntakeStates
<1>10. CommandInv
  <2>1. \A p \in Posts : Wipers(p) = {}
    BY <1>1 DEF Wipers
  <2>2. \A p \in Posts : Cardinality(Wipers(p)) = 0
    BY <2>1, FS_EmptySet
  <2>. QED
    BY <1>2, <2>2 DEF CommandInv
<1>. QED
  BY <1>6, <1>7, <1>8, <1>9, <1>10 DEF IInv

\* The inductive invariant holds in every reachable state.
THEOREM Inductive == Spec => []IInv
<1>1. IInv /\ [Next]_vars => IInv'
  BY NextTypeOK, NextKindInv, NextClaimInv, NextAnswerInv, NextTicketInv, NextCommandInv DEF IInv
<1>. QED
  BY <1>1, InitIInv, PTL DEF Spec

\* Every variable keeps its type; a worker holds a post unless it is idle, and
\* no post has two rows of intake_requests.
THEOREM TypeCorrect == Spec => []TypeOK
BY Inductive, PTL DEF IInv

\* However often a post is delivered, tried again or given back, it becomes at
\* most one ticket, and one more for each that Jira made without telling so: a
\* POST that the HTTP session sends again, a create_task that raises after it
\* (TaskIntakeInbox, JiraTaskTracker).
THEOREM NoDuplicateTickets == Spec => []OneTicketPerPost
BY Inductive, PTL DEF IInv, TicketInv

\* /restart is carried out at most once.  /reset, which is not claimed, at most
\* once, and once more for each time its mark was not set, was overlooked, or was
\* not set yet because a worker still had it in its hands
\* (_handle_autofix_restart, _handle_reset_command).
THEOREM NoDuplicateCommands == Spec => []CommandsRunOnce
<1>1. IInv => CommandsRunOnce
  <2>. SUFFICES ASSUME IInv, NEW p \in Posts
                PROVE  seen.ran[p] <= IF kind[p] = "restart" THEN 1 ELSE 1 + seen.unmarked[p]
    BY DEF CommandsRunOnce
  <2>1. Cardinality(Wipers(p)) \in Nat /\ seen.ran[p] \in Nat /\ seen.unmarked[p] \in Nat
    BY WorkersAreFinite DEF Wipers, IInv, TypeOK, Observers
  <2>2. /\ kind[p] = "restart" => seen.ran[p] <= 1
        /\ kind[p] = "reset" => seen.ran[p] + Cardinality(Wipers(p)) <= seen.unmarked[p] + 1
        /\ kind[p] \notin {"restart", "reset"} => seen.ran[p] = 0
    <3>1. CommandOf(p)
      BY DEF IInv, CommandInv, CommandOf
    <3>. QED
      BY <2>1, <3>1 DEF CommandOf
  <2>. QED
    BY <2>1, <2>2
<1>. QED
  BY <1>1, Inductive, PTL

-----------------------------------------------------------------------------
(* The refinement of HandledOnce                                           *)

\* The status of a post as Claimed sees it, told by its owner.
Status ==
    [p \in Posts |-> IF p \notin claims THEN "free"
                     ELSE IF \E w \in Workers : Owns(w, p) THEN "taken" ELSE "done"]

\* Commands are not claimed, so whoever works for a claimed post owns it.
LEMMA StatusIsClaimed ==
    IInv => Status = [p \in Posts |-> IF p \notin claims THEN "free"
                                      ELSE IF Working(p) THEN "taken" ELSE "done"]
<1>. SUFFICES ASSUME IInv, NEW p \in claims, p \in Posts
              PROVE  Working(p) <=> \E w \in Workers : Owns(w, p)
  BY Zenon DEF Status
<1>1. \A w \in Workers : work[w].post = p => work[w].at \notin {"wiping", "marking"}
  BY DEF IInv, KindInv
<1>2. \A w \in Workers : work[w].at \in OwnStates \cup {"idle", "deciding", "wiping", "marking"}
  BY DEF IInv, TypeOK, Jobs, OwnStates, ReviewStates, IntakeStates
<1>. QED
  BY <1>1, <1>2 DEF Working, Owns, OwnStates, ReviewStates, IntakeStates

\* A step of HandledOnce, in terms of Status.
ClaimStep ==
    \/ \E p \in Posts :
        \/ /\ Status[p] = "free" /\ seen'.answers = seen.answers
           /\ \E s \in {"taken", "done"} : Status' = [Status EXCEPT ![p] = s]
        \/ /\ Status[p] = "taken" /\ seen.answers[p] = 0
           /\ seen'.answers = [seen.answers EXCEPT ![p] = 1]
           /\ Status' = Status \/ Status' = [Status EXCEPT ![p] = "done"]
        \/ /\ Status[p] = "taken" /\ seen'.answers = [seen.answers EXCEPT ![p] = 0]
           /\ Status' = [Status EXCEPT ![p] = "free"]
        \/ /\ Status[p] = "taken" /\ seen'.answers = seen.answers
           /\ Status' = [Status EXCEPT ![p] = "done"]
    \/ \E items \in SUBSET Posts :
        /\ \A p \in items : Status[p] = "taken"
        /\ Status' = [p \in Posts |-> IF p \in items THEN "done" ELSE Status[p]]
        /\ seen'.answers = seen.answers
    \/ Status' = Status /\ seen'.answers = seen.answers

LEMMA StatusValues ==
    /\ \A p \in Posts : Status[p] = IF p \notin claims THEN "free"
                          ELSE IF \E w \in Workers : Owns(w, p) THEN "taken" ELSE "done"
    /\ \A p \in Posts : Status'[p] = IF p \notin claims' THEN "free"
                          ELSE IF \E w \in Workers : Owns(w, p)' THEN "taken" ELSE "done"
BY DEF Status, Owns

LEMMA StepImplements ==
    ASSUME IInv, IInv', NEW w \in Workers, Step(w)
    PROVE  ClaimStep
<1>. PICK p \in Posts : p = work[w].post
  BY StepLeads DEF IInv
<1>1. /\ Leads(work[w].at, work'[w].at) /\ p = work[w].post /\ p # None
      /\ \A v \in Workers : v # w => work'[v] = work[v]
      /\ work'[w].post = IF work'[w].at = "idle" THEN None ELSE p
  BY StepLeads DEF Moved, IInv, Posts, None
<1>2. \/ /\ work[w].at = "deciding" /\ p \notin claims /\ claims' = claims \cup {p}
      \/ /\ work[w].at = "releasing" /\ claims' = claims \ {p}
      \/ /\ work[w].at = "deciding" /\ work'[w].at = "idle" /\ claims' = claims
      \/ /\ work[w].at \notin {"deciding", "releasing"} /\ claims' = claims
  BY <1>1, StepClaims DEF IInv
<1>3. \/ seen'.answers = seen.answers /\ work[w].at # "releasing"
      \/ /\ seen'.answers = [seen.answers EXCEPT ![p] = @ + 1]
         /\ work[w].at \in {"replying", "announcing", "declining", "telling", "failing"}
         /\ work'[w].at \in {"idle", "iterating", "appending"}
      \/ /\ seen'.answers = [seen.answers EXCEPT ![p] = 0] /\ work[w].at = "releasing"
  BY <1>1, StepAnswers DEF IInv
<1>4. \A v \in Workers, q \in Posts : v # w \/ q # p => Owns(v, q)' = Owns(v, q)
  BY <1>1 DEF Owns, Posts, None
<1>5. ASSUME NEW q \in Posts, q # p PROVE Status'[q] = Status[q]
  <2>1. q \in claims' <=> q \in claims
    BY <1>2, <1>5
  <2>2. (\E v \in Workers : Owns(v, q)') <=> (\E v \in Workers : Owns(v, q))
    BY <1>4, <1>5
  <2>. QED
    BY <2>1, <2>2, StatusValues
<1>6. ASSUME NEW s, Status'[p] = s PROVE Status' = [Status EXCEPT ![p] = s]
  <2>1. Status = [q \in Posts |-> Status[q]] /\ Status' = [q \in Posts |-> Status'[q]]
    BY DEF Status, Owns
  <2>. QED
    BY <1>5, <1>6, <2>1
<1>7. ASSUME Status'[p] = Status[p] PROVE Status' = Status
  <2>1. Status = [q \in Posts |-> Status[q]] /\ Status' = [q \in Posts |-> Status'[q]]
    BY DEF Status, Owns
  <2>. QED
    BY <1>5, <1>7, <2>1
<1>8. CASE work[w].at = "deciding"
  <2>1. seen'.answers = seen.answers /\ ~Owns(w, p)
    BY <1>3, <1>8 DEF Owns, OwnStates, ReviewStates, IntakeStates
  <2>2. CASE p \notin claims /\ claims' = claims \cup {p}
    <3>1. Status[p] = "free" /\ Status'[p] \in {"taken", "done"}
      BY <2>2, StatusValues
    <3>. QED
      BY <1>6, <2>1, <3>1 DEF ClaimStep
  <2>3. CASE work'[w].at = "idle" /\ claims' = claims
    <3>1. ~Owns(w, p)'
      BY <2>3 DEF Owns, OwnStates, ReviewStates, IntakeStates
    <3>2. (\E v \in Workers : Owns(v, p)') <=> (\E v \in Workers : Owns(v, p))
      BY <1>4, <2>1, <3>1
    <3>3. Status'[p] = Status[p]
      BY <2>3, <3>2, StatusValues
    <3>. QED
      BY <1>7, <2>1, <3>3 DEF ClaimStep
  <2>. QED
    BY <1>2, <1>8, <2>2, <2>3
<1>9. CASE work[w].at \in {"wiping", "marking"}
  <2>1. p \notin claims /\ claims' = claims /\ seen'.answers = seen.answers
    BY <1>1, <1>2, <1>3, <1>9 DEF IInv, KindInv
  <2>2. Status'[p] = Status[p]
    BY <2>1, StatusValues
  <2>. QED
    BY <1>7, <2>1, <2>2 DEF ClaimStep
<1>10. CASE work[w].at \in OwnStates
  <2>1. Owns(w, p) /\ p \in claims /\ Status[p] = "taken"
    BY <1>1, <1>10, StatusValues DEF Owns, IInv, ClaimInv
  <2>2. \A v \in Workers : v # w => ~Owns(v, p)'
    BY <1>4, <2>1 DEF IInv, ClaimInv
  <2>3. CASE work[w].at = "releasing"
    <3>1. claims' = claims \ {p} /\ seen'.answers = [seen.answers EXCEPT ![p] = 0]
      BY <1>2, <1>3, <2>3
    <3>2. Status'[p] = "free"
      BY <3>1, StatusValues
    <3>. QED
      BY <1>6, <2>1, <3>1, <3>2 DEF ClaimStep
  <2>4. CASE work[w].at # "releasing"
    <3>1. claims' = claims
      BY <1>2, <1>10, <2>4 DEF OwnStates, ReviewStates, IntakeStates
    <3>2. \/ Status'[p] = Status[p]
          \/ Status'[p] = "done"
      BY <2>1, <3>1, StatusValues
    <3>3. work'[w].at = "idle" => Status'[p] = "done"
      <4>1. work'[w].at = "idle" => ~Owns(w, p)'
        BY DEF Owns, OwnStates, ReviewStates, IntakeStates
      <4>. QED
        BY <2>1, <2>2, <3>1, <4>1, StatusValues
    <3>4. CASE seen'.answers = seen.answers
      <4>1. CASE Status'[p] = Status[p]
        BY <1>7, <3>4, <4>1 DEF ClaimStep
      <4>2. CASE Status'[p] = "done"
        BY <1>6, <2>1, <3>4, <4>2 DEF ClaimStep
      <4>. QED
        BY <3>2, <4>1, <4>2
    <3>5. CASE /\ seen'.answers = [seen.answers EXCEPT ![p] = @ + 1]
               /\ work[w].at \in {"replying", "announcing", "declining", "telling", "failing"}
      <4>1. seen.answers[p] = 0
        BY <1>1, <3>5 DEF IInv, AnswerInv, IntakeStates
      <4>2. seen'.answers = [seen.answers EXCEPT ![p] = 1]
        BY <3>5, <4>1 DEF IInv, TypeOK, Observers
      <4>3. CASE Status'[p] = Status[p]
        BY <1>7, <2>1, <4>1, <4>2, <4>3 DEF ClaimStep
      <4>4. CASE Status'[p] = "done"
        BY <1>6, <2>1, <4>1, <4>2, <4>4 DEF ClaimStep
      <4>. QED
        BY <3>2, <4>3, <4>4
    <3>. QED
      BY <1>3, <2>4, <3>4, <3>5
  <2>. QED
    BY <2>3, <2>4
<1>. QED
  BY <1>1, <1>8, <1>9, <1>10 DEF Leads, OwnStates, ReviewStates, IntakeStates

LEMMA RouteImplements ==
    ASSUME IInv, NEW w \in Workers, NEW p \in Posts, Route(w, p)
    PROVE  ClaimStep
<1>1. /\ work[w].at = "idle" /\ \A v \in Workers : v # w => work'[v] = work[v]
      /\ work'[w].at \in {"deciding", "intake", "wiping", "marking"} /\ work'[w].post = p
      /\ \/ work'[w].at = "intake" /\ p \notin claims /\ claims' = claims \cup {p}
         \/ work'[w].at # "intake" /\ claims' = claims
  BY RouteMoves, RouteStarts DEF IInv
<1>2. seen'.answers = seen.answers
  BY DEF IInv, Route, RouteReview, RouteAsk, RouteReset, RouteRestart, Fresh, TypeOK, Observers
<1>3. Status = [q \in Posts |-> Status[q]] /\ Status' = [q \in Posts |-> Status'[q]]
  BY DEF Status, Owns
<1>4. ASSUME NEW q \in Posts, q # p PROVE Status'[q] = Status[q]
  <2>1. \A v \in Workers : Owns(v, q)' = Owns(v, q)
    BY <1>1, <1>4 DEF Owns, OwnStates, ReviewStates, IntakeStates
  <2>2. (\E v \in Workers : Owns(v, q)') <=> (\E v \in Workers : Owns(v, q))
    BY <2>1
  <2>3. q \in claims' <=> q \in claims
    BY <1>1, <1>4
  <2>. QED
    BY <2>2, <2>3, StatusValues
<1>5. CASE work'[w].at = "intake" /\ p \notin claims /\ claims' = claims \cup {p}
  <2>1. Owns(w, p)'
    BY <1>1, <1>5 DEF Owns, OwnStates, IntakeStates
  <2>2. Status[p] = "free" /\ Status'[p] = "taken"
    BY <1>5, <2>1, StatusValues
  <2>3. Status' = [Status EXCEPT ![p] = "taken"]
    BY <1>3, <1>4, <2>2
  <2>. QED
    BY <1>2, <2>2, <2>3 DEF ClaimStep
<1>6. CASE work'[w].at # "intake" /\ claims' = claims
  <2>1. \A v \in Workers : Owns(v, p)' = Owns(v, p)
    BY <1>1, <1>6 DEF Owns, OwnStates, ReviewStates, IntakeStates
  <2>2. Status'[p] = Status[p]
    BY <1>6, <2>1, StatusValues
  <2>3. Status' = Status
    BY <1>3, <1>4, <2>2
  <2>. QED
    BY <1>2, <2>3 DEF ClaimStep
<1>. QED
  BY <1>1, <1>5, <1>6

\* A pod that stops is through with everything it owned.
LEMMA ElsewhereImplements ==
    ASSUME IInv, [Next]_vars,
           \A w \in Workers : ~Step(w) /\ \A p \in Posts : ~Route(w, p)
    PROVE  ClaimStep
<1>1. claims' = claims /\ seen'.answers = seen.answers
  BY Elsewhere DEF IInv
<1>2. CASE work' = work
  BY <1>1, <1>2 DEF Status, Owns, ClaimStep
<1>3. ASSUME NEW pod \in Pods,
             \A w \in Workers : work'[w] = IF w[1] = pod THEN Idle ELSE work[w]
      PROVE  ClaimStep
  <2>. DEFINE items == {p \in Posts : \E w \in Workers : w[1] = pod /\ Owns(w, p)}
  <2>1. \A w \in Workers, p \in Posts : Owns(w, p)' <=> Owns(w, p) /\ w[1] # pod
    BY <1>3 DEF Owns, Idle, Busy, OwnStates, ReviewStates, IntakeStates
  <2>2. \A p \in items : Status[p] = "taken" /\ Status'[p] = "done"
    <3>. SUFFICES ASSUME NEW p \in Posts, NEW w \in Workers, w[1] = pod, Owns(w, p)
                  PROVE  Status[p] = "taken" /\ Status'[p] = "done"
      OBVIOUS
    <3>1. p \in claims /\ \A v \in Workers : Owns(v, p) => v = w
      BY DEF IInv, ClaimInv
    <3>. QED
      BY <1>1, <2>1, <3>1, StatusValues
  <2>3. ASSUME NEW p \in Posts, p \notin items PROVE Status'[p] = Status[p]
    <3>1. (\E w \in Workers : Owns(w, p)') <=> (\E w \in Workers : Owns(w, p))
      BY <2>1, <2>3
    <3>. HIDE DEF items
    <3>. QED
      BY <1>1, <3>1, StatusValues
  <2>4. Status' = [p \in Posts |-> Status'[p]]
    BY DEF Status, Owns
  <2>5. items \in SUBSET Posts
    OBVIOUS
  <2>. HIDE DEF items
  <2>6. Status' = [p \in Posts |-> IF p \in items THEN "done" ELSE Status[p]]
    BY <2>2, <2>3, <2>4
  <2>. QED
    BY <1>1, <2>2, <2>5, <2>6 DEF ClaimStep
<1>. QED
  BY <1>2, <1>3, Elsewhere DEF IInv

\* What the claims promise is what HandledOnce says: whoever wins a claim
\* answers once at most, and gives it back or is through with it.
THEOREM ClaimsImplementHandledOnce == Spec => ImplementsHandledOnce
<1>. DEFINE status == [p \in Posts |-> IF p \notin claims THEN "free"
                                       ELSE IF Working(p) THEN "taken" ELSE "done"]
<1>1. Init => Claimed!Init
  BY DEF Init, Claimed!Init
<1>2. ASSUME IInv, IInv', [Next]_vars PROVE [Claimed!Next]_<<status, seen.answers>>
  <2>1. ClaimStep
    BY <1>2, StepImplements, RouteImplements, ElsewhereImplements
  <2>2. Status = status
    BY <1>2, StatusIsClaimed
  <2>3. Status' = status'
    <3>1. \A w \in Workers : work'[w].post \in claims' => work'[w].at \notin {"wiping", "marking"}
      BY <1>2 DEF IInv, KindInv
    <3>2. \A w \in Workers :
            work'[w].at \in OwnStates \cup {"idle", "deciding", "wiping", "marking"}
      BY <1>2 DEF IInv, TypeOK, Jobs, OwnStates, ReviewStates, IntakeStates
    <3>3. ASSUME NEW p \in Posts, p \in claims'
          PROVE  Working(p)' <=> \E w \in Workers : Owns(w, p)'
      BY <3>1, <3>2, <3>3 DEF Working, Owns, OwnStates, ReviewStates, IntakeStates
    <3>. QED
      BY <3>3 DEF Status
  <2>4. CASE \E p \in Posts :
               /\ Status[p] = "free" /\ seen'.answers = seen.answers
               /\ \E s \in {"taken", "done"} : Status' = [Status EXCEPT ![p] = s]
    <3>1. \E p \in Posts : Claimed!Take(p)
      BY <2>2, <2>3, <2>4 DEF Claimed!Take
    <3>. QED
      BY <3>1 DEF Claimed!Next
  <2>5. CASE \E p \in Posts :
               /\ Status[p] = "taken" /\ seen.answers[p] = 0
               /\ seen'.answers = [seen.answers EXCEPT ![p] = 1]
               /\ Status' = Status \/ Status' = [Status EXCEPT ![p] = "done"]
    <3>1. \E p \in Posts : Claimed!Answer(p)
      BY <2>2, <2>3, <2>5 DEF Claimed!Answer
    <3>. QED
      BY <3>1 DEF Claimed!Next
  <2>6. CASE \E p \in Posts :
               /\ Status[p] = "taken" /\ seen'.answers = [seen.answers EXCEPT ![p] = 0]
               /\ Status' = [Status EXCEPT ![p] = "free"]
    <3>1. \E p \in Posts : Claimed!GiveBack(p)
      BY <2>2, <2>3, <2>6 DEF Claimed!GiveBack
    <3>. QED
      BY <3>1 DEF Claimed!Next
  <2>7. CASE \E p \in Posts :
               /\ Status[p] = "taken" /\ seen'.answers = seen.answers
               /\ Status' = [Status EXCEPT ![p] = "done"]
    <3>1. \E p \in Posts : Claimed!Finish(p)
      BY <2>2, <2>3, <2>7 DEF Claimed!Finish
    <3>. QED
      BY <3>1 DEF Claimed!Next
  <2>8. CASE \E items \in SUBSET Posts :
               /\ \A p \in items : Status[p] = "taken"
               /\ Status' = [p \in Posts |-> IF p \in items THEN "done" ELSE Status[p]]
               /\ seen'.answers = seen.answers
    <3>1. \E items \in SUBSET Posts : Claimed!FinishAll(items)
      BY <2>2, <2>3, <2>8 DEF Claimed!FinishAll
    <3>. QED
      BY <3>1 DEF Claimed!Next
  <2>9. CASE Status' = Status /\ seen'.answers = seen.answers
    BY <2>2, <2>3, <2>9
  <2>. QED
    BY <2>1, <2>4, <2>5, <2>6, <2>7, <2>8, <2>9 DEF ClaimStep
<1>3. IInv /\ [Next]_vars => IInv'
  BY NextTypeOK, NextKindInv, NextClaimInv, NextAnswerInv, NextTicketInv, NextCommandInv DEF IInv
<1>. QED
  BY <1>1, <1>2, <1>3, Inductive, PTL DEF Spec, ImplementsHandledOnce, Claimed!Spec
=============================================================================
