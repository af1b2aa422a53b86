----------------------- MODULE AnalystSession_proofs -----------------------
(***************************************************************************)
(* Proofs about AnalystSession, for every set of replies, every budget and *)
(* every number of faults: what is marked flushed was shown to the         *)
(* analyst, decisions are signed off, stuck tickets come back for replies  *)
(* only, and the runs of the model stay within the budget.                 *)
(***************************************************************************)
EXTENDS AnalystSession, FiniteSetTheorems, TLAPS

-----------------------------------------------------------------------------
(* The inductive invariant.                                                *)

\* The inbox runs no step of the coalescer, nor the coalescer one of the inbox.
PlaceInv ==
    /\ run["inbox"].pc \notin {"merge", "mark", "flush", "clear", "overdue"}
    /\ run["coalescer"].pc # "done"

\* Whoever waits for the team waits in a thread that the history has, and so
\* does every reply that got past the listener's routing.
ThreadInv ==
    /\ waits = "team" => thread = "known"
    /\ \A w \in Workers : run[w].waits = "team" => thread = "known"
    /\ \A p \in TeamPosts :
        p \in inflight \/ fragment[p] # "none" => thread = "known" /\ p \in written \ strays
    /\ IsFiniteSet(written)

\* The snapshot of the coalescer is in the history before it is marked.
HeardInv ==
    /\ NothingSwallowed
    /\ \A p \in Coalescer.frags : fragment[p] # "none"
    /\ Coalescer.pc \in {"mark", "flush"} => Coalescer.frags \cap TeamPosts \subseteq heard

\* A person answered, or the silence of a thread was taken for consent.
Backed == answered \/ ("silence" \in signs /\ thread = "known")

\* A run holds a proposal for signed off only when it is, or the replies in
\* the history are about to be shown to it.
SignInv ==
    /\ "silence" \in signs => thread = "known"
    /\ "reply" \in signs => heard # {}
    /\ \A w \in Workers :
        /\ run[w].pc = "run" /\ run[w].signed => Backed
        /\ run[w].pc = "run" /\ run[w].effect = "decisions" => run[w].signed
        /\ run[w].pc = "decisions" => Backed
    /\ decided => Backed

\* w read a row with budget left and starts a run of the model next.
Entering(w) == run[w].pc = "enter" /\ ~run[w].spent

\* The handler has its step still to start.
Rerun == queued /\ run["inbox"].pc \in {"idle", "enter"}

\* The runs of the model that overran the budget: each had a row that was
\* stale by then, and only the handler of a message that was delivered again
\* runs besides the coalescer.  A handler that may still do so, or whose doing
\* so is still to show, has its fault in reserve.
Reserve ==
    IF Rerun \/ (Entering("coalescer") /\ steps >= MaxSteps) THEN 1 ELSE 0
Overruns == IF faults = 0 THEN 0 ELSE faults - Reserve

\* The steps that the revivals gave back.
Earned(n) == n * MaxSteps

\* Before the first fault the handler is through before the coalescer starts.
FirstInv ==
    /\ run["inbox"].pc # "idle" => queued
    /\ faults = 0 /\ queued /\ run["inbox"].pc # "done" =>
        /\ waits = "nobody" /\ deadline # "due" /\ status \in {"DISCOVERED", "PLANNING"}
        /\ run["coalescer"].pc = "idle"
        /\ run["inbox"].pc \in {"idle", "enter"} => deadline = "none" /\ steps = 0
    /\ faults = 0 /\ run["inbox"].pc = "enter" => ~run["inbox"].spent

BudgetInv ==
    /\ runs <= Earned(revivals) + steps + Overruns
    /\ runs <= Earned(revivals + 1) + Overruns
    /\ steps <= MaxSteps + Overruns
    /\ Entering("coalescer") /\ steps >= MaxSteps => ~Rerun
    /\ faults = 0 /\ Entering("coalescer") => steps < MaxSteps

IInv == /\ TypeOK /\ PlaceInv /\ ThreadInv /\ HeardInv /\ SignInv /\ RevivalsAreEarned
        /\ FirstInv /\ BudgetInv

-----------------------------------------------------------------------------
(* The records of the runs.                                                *)

LEMMA IdleIsRun ==
    /\ Idle \in Runs
    /\ Idle.pc = "idle" /\ Idle.frags = {} /\ Idle.waits = "nobody" /\ ~Idle.spent
    /\ Idle.effect = "none"
BY DEF Idle, Runs, PCs, Outcomes

LEMMA RunUpdates ==
    ASSUME NEW r \in Runs
    PROVE  /\ \A x \in PCs : [r EXCEPT !.pc = x] \in Runs
           /\ \A x \in Outcomes : [r EXCEPT !.effect = x] \in Runs
           /\ \A x \in {"team", "dm"} : [r EXCEPT !.pc = "asked", !.waits = x] \in Runs
           /\ \A x \in SUBSET Posts : [r EXCEPT !.known = r.known \cup x, !.signed = TRUE] \in Runs
           /\ \A x \in BOOLEAN : [r EXCEPT !.pc = "enter", !.spent = x] \in Runs
BY DEF Runs, PCs, Outcomes
\* What the end of a run, and its taking up of a row, write.
LEMMA RunEnds ==
    ASSUME TypeOK, NEW w \in Workers
    PROVE  /\ End(w) => run' = [run EXCEPT ![w] = Idle] /\ run' \in [Workers -> Runs]
                        /\ queued' \in BOOLEAN
           /\ Finish(w) => /\ run' \in [Workers -> Runs] /\ queued' \in BOOLEAN
                           /\ \E r \in Runs : /\ run' = [run EXCEPT ![w] = r]
                                              /\ r = [Idle EXCEPT !.pc = r.pc]
                                              /\ r.pc = IF w = "inbox" THEN "done" ELSE "idle"
           /\ \A row : Resume(w, row) =>
                /\ run' \in [Workers -> Runs] /\ queued' \in BOOLEAN
                /\ \/ row \in Final /\ End(w)
                   \/ /\ row \notin Final /\ queued' = queued
                      /\ \E r \in Runs : /\ run' = [run EXCEPT ![w] = r]
                                         /\ r = [Idle EXCEPT !.pc = "enter", !.spent = r.spent]
                                         /\ r.pc = "enter" /\ r.spent = (steps >= MaxSteps)
<1>1. End(w) => run' = [run EXCEPT ![w] = Idle] /\ run' \in [Workers -> Runs] /\ queued' \in BOOLEAN
  BY IdleIsRun DEF TypeOK, End
<1>2. ASSUME Finish(w)
      PROVE  /\ run' \in [Workers -> Runs] /\ queued' \in BOOLEAN
             /\ \E r \in Runs : /\ run' = [run EXCEPT ![w] = r]
                                /\ r = [Idle EXCEPT !.pc = r.pc]
                                /\ r.pc = IF w = "inbox" THEN "done" ELSE "idle"
  <2>1. CASE w = "inbox"
    <3>. DEFINE r == [Idle EXCEPT !.pc = "done"]
    <3>1. r \in Runs /\ r.pc = "done" /\ r = [Idle EXCEPT !.pc = r.pc]
      BY IdleIsRun, RunUpdates DEF PCs, Runs
    <3>2. run' = [run EXCEPT ![w] = r] /\ queued' = queued
      BY <1>2, <2>1 DEF Finish
    <3>. HIDE DEF r
    <3>. QED
      BY <2>1, <3>1, <3>2 DEF TypeOK
  <2>2. CASE w # "inbox"
    <3>1. Idle = [Idle EXCEPT !.pc = Idle.pc]
      BY IdleIsRun DEF Runs
    <3>. QED
      BY <1>1, <1>2, <2>2, <3>1, IdleIsRun DEF Finish, End
  <2>. QED
    BY <2>1, <2>2
<1>3. ASSUME NEW row, Resume(w, row)
      PROVE  /\ run' \in [Workers -> Runs] /\ queued' \in BOOLEAN
             /\ \/ row \in Final /\ End(w)
                \/ /\ row \notin Final /\ queued' = queued
                   /\ \E r \in Runs : /\ run' = [run EXCEPT ![w] = r]
                                      /\ r = [Idle EXCEPT !.pc = "enter", !.spent = r.spent]
                                      /\ r.pc = "enter" /\ r.spent = (steps >= MaxSteps)
  <2>1. CASE row \in Final
    BY <1>1, <1>3, <2>1 DEF Resume
  <2>2. CASE row \notin Final
    <3>. DEFINE r == [Idle EXCEPT !.pc = "enter", !.spent = steps >= MaxSteps]
    <3>1. (steps >= MaxSteps) \in BOOLEAN
      BY SessionAssumption DEF TypeOK
    <3>2. r \in Runs
      BY <3>1, IdleIsRun, RunUpdates
    <3>3. r.pc = "enter" /\ r.spent = (steps >= MaxSteps)
      BY <3>1, IdleIsRun DEF Runs
    <3>4. run' = [run EXCEPT ![w] = r] /\ queued' = queued
      BY <1>3, <2>2 DEF Resume
    <3>5. r = [Idle EXCEPT !.pc = "enter", !.spent = r.spent]
      BY <3>3
    <3>. HIDE DEF r
    <3>. QED
      BY <2>2, <3>2, <3>3, <3>4, <3>5 DEF TypeOK
  <2>. QED
    BY <2>1, <2>2
<1>. QED
  BY <1>1, <1>2, <1>3

LEMMA NewRunIsRun ==
    ASSUME TypeOK
    PROVE  /\ NewRun \in Runs
           /\ NewRun.pc = "run" /\ NewRun.frags = {} /\ NewRun.waits = "nobody"
           /\ NewRun.known = heard \cap TeamPosts /\ NewRun.signed = ProposalConfirmed
           /\ NewRun.effect = "none"
BY DEF NewRun, Idle, Runs, PCs, Outcomes, TypeOK, Posts, ProposalConfirmed
-----------------------------------------------------------------------------
(* Types                                                                   *)

\* The runs stay runs.
LEMMA NextRuns == ASSUME TypeOK, [Next]_vars PROVE run' \in [Workers -> Runs]
<1>. USE DEF TypeOK
<1>1. CASE UNCHANGED run
  BY <1>1
<1>2. CASE Handle
  BY <1>2, RunEnds DEF Handle, Workers
<1>3. CASE Acknowledge
  BY <1>3, RunEnds DEF Acknowledge, Workers
<1>4. ASSUME NEW w \in Workers, RunStep(w) PROVE run' \in [Workers -> Runs]
  <2>1. CASE Enter(w)
    BY <2>1, RunEnds, NewRunIsRun DEF Enter, StartRun
  <2>2. CASE ShowLateReplies(w)
    <3>1. InThread \in SUBSET Posts /\ run[w] \in Runs
      BY DEF InThread
    <3>2. run' = [run EXCEPT ![w] = [run[w] EXCEPT !.known = run[w].known \cup InThread, !.signed = TRUE]]
      BY <2>2 DEF ShowLateReplies
    <3>3. [run[w] EXCEPT !.known = run[w].known \cup InThread, !.signed = TRUE] \in Runs
      BY <3>1, RunUpdates
    <3>. QED
      BY <3>2, <3>3
  <2>3. ASSUME NEW o \in Outcomes, Effect(w, o) PROVE run' \in [Workers -> Runs]
    <3>1. [run[w] EXCEPT !.effect = o] \in Runs
      BY RunUpdates
    <3>. QED
      BY <2>3, <3>1 DEF Effect
  <2>4. CASE UseTool(w)
    BY <2>2, <2>3, <2>4 DEF UseTool, AskTeam, AskUser, SubmitPlan, ReportStuck, ReportBlocked, Outcomes
  <2>5. ASSUME NEW x \in PCs, Go(w, x) PROVE run' \in [Workers -> Runs]
    <3>1. [run[w] EXCEPT !.pc = x] \in Runs
      BY RunUpdates
    <3>. QED
      BY <2>5, <3>1 DEF Go
  <2>6. CASE Record(w)
    <3>1. run[w].effect \in Outcomes \cup {"none"}
      BY DEF Runs
    <3>. QED
      BY <2>5, <2>6, <3>1 DEF Record, PCs, Outcomes
  <2>7. CASE Ask(w)
    <3>1. [run[w] EXCEPT !.pc = "asked", !.waits = run[w].pc] \in Runs
      BY <2>7, RunUpdates DEF Ask
    <3>2. run' = [run EXCEPT ![w] = [run[w] EXCEPT !.pc = "asked", !.waits = run[w].pc]]
      BY <2>7 DEF Ask
    <3>. QED
      BY <3>1, <3>2
  <2>8. CASE SavePlan(w)
    BY <2>5, <2>8 DEF SavePlan, PCs
  <2>9. CASE RunCrashes(w) \/ Await(w) \/ SetReady(w) \/ EndWithoutPlan(w)
    BY <2>9, RunEnds DEF RunCrashes, Await, SetReady, EndWithoutPlan
  <2>. QED
    BY <1>4, <2>1, <2>4, <2>6, <2>7, <2>8, <2>9 DEF RunStep
<1>5. CASE FlushIdle \/ FindOverdue
  <2>1. PICK r \in Runs : run' = [run EXCEPT !["coalescer"] = r]
    <3>1. [Idle EXCEPT !.pc = "merge", !.frags = Unflushed, !.waits = waits] \in Runs
      BY IdleIsRun DEF Runs, PCs, Unflushed
    <3>2. [Idle EXCEPT !.pc = "overdue", !.waits = waits] \in Runs
      BY IdleIsRun DEF Runs, PCs
    <3>. QED
      BY <1>5, <3>1, <3>2 DEF FlushIdle, FindOverdue
  <2>. QED
    BY <2>1 DEF Workers
<1>6. ASSUME NEW x \in PCs, Go("coalescer", x) PROVE run' \in [Workers -> Runs]
  <2>1. [run["coalescer"] EXCEPT !.pc = x] \in Runs
    BY RunUpdates DEF Workers
  <2>. QED
    BY <1>6, <2>1 DEF Go, Workers
<1>7. CASE Coalesce
  BY <1>6, <1>7, RunEnds DEF Coalesce, Merge, Flush, ClearAndResume, ConsentBySilence, PingLead,
     GiveUp, PCs, Workers
<1>8. CASE Crash
  BY <1>8, IdleIsRun DEF Crash
<1>. QED
  BY <1>1, <1>2, <1>3, <1>4, <1>5, <1>7, <1>8 DEF Next, vars, Write, Dispatch, Append, AppendFails,
     DeadlinePasses

\* Everything has its type after a step; that the steps stay below their bound
\* is the part of the budget's invariant.
LEMMA NextTypeOK ==
    ASSUME IInv, [Next]_vars, steps' <= MaxSteps + faults'
    PROVE  TypeOK'
<1>. USE SessionAssumption DEF TypeOK, Planning, Final
<1>0. TypeOK
  BY DEF IInv
<1>c. run' \in [Workers -> Runs]
  BY <1>0, NextRuns
<1>. DEFINE Typed == /\ status' \in {"DISCOVERED"} \cup Planning \cup Final
                     /\ waits' \in {"nobody", "team", "dm"} /\ steps' \in Nat
                     /\ deadline' \in {"none", "set", "due"} /\ stamp' \in Posts \cup {Never}
                     /\ fragment' \in [Posts -> {"none", "unflushed", "flushed"}]
                     /\ heard' \in SUBSET Posts /\ written' \in SUBSET Posts
                     /\ inflight' \in SUBSET written'
                     /\ note' \in {"stuck", "other"} /\ signs' \subseteq {"reply", "silence"}
                     /\ thread' \in {"none", "sent", "known"} /\ strays' \subseteq written' \cap TeamPosts
                     /\ planned' \in BOOLEAN /\ queued' \in BOOLEAN /\ faults' \in 0 .. MaxFaults
                     /\ runs' \in Nat /\ answered' \in BOOLEAN /\ decided' \in BOOLEAN
                     /\ revivals' \in Nat /\ lost' \in Nat
<1>. SUFFICES Typed
  <2>. SUFFICES ASSUME Typed PROVE steps' \in 0 .. MaxSteps + MaxFaults
    BY <1>c
  <2>1. steps' \in Nat /\ faults' \in Nat /\ faults' <= MaxFaults
    OBVIOUS
  <2>. HIDE DEF Typed, TypeOK
  <2>. QED
    <3>1. MaxSteps \in Nat /\ MaxFaults \in Nat
      BY SessionAssumption
    <3>2. steps' <= MaxSteps + faults'
      OBVIOUS
    <3>3. steps' <= MaxSteps + MaxFaults
      <4>1. \A a, b, c, d \in Nat : a <= b + c /\ c <= d => a <= b + d
        OBVIOUS
      <4>. QED
        BY <2>1, <3>1, <3>2, <4>1
    <3>4. steps' \in 0 .. MaxSteps + MaxFaults
      BY <2>1, <3>1, <3>3
    <3>. QED
      BY <3>4
<1>a. \A w \in Workers : (End(w) => queued' \in BOOLEAN) /\ (Finish(w) => queued' \in BOOLEAN)
  BY <1>0, RunEnds
<1>b. \A w \in Workers : \A row : Resume(w, row) => queued' \in BOOLEAN
  BY <1>0, RunEnds
<1>. USE <1>0 DEF rowVars, logVars, threadVars, chatVars, obsVars
<1>1. CASE UNCHANGED vars
  BY <1>1 DEF vars
<1>2. ASSUME NEW p \in Posts, Write(p) PROVE Typed
  BY <1>2 DEF Write
<1>3. ASSUME NEW p \in Posts, Dispatch(p) PROVE Typed
  BY <1>3 DEF Dispatch, ReviveStuck
<1>4. ASSUME NEW p \in Posts, Append(p) PROVE Typed
  BY <1>4 DEF Append, AppendFragment
<1>5. ASSUME NEW posts \in SUBSET written, posts \subseteq inflight, Lose(posts) PROVE lost' \in Nat
  <2>1. IsFiniteSet(posts \cap TeamPosts)
    BY FS_Subset DEF IInv, ThreadInv
  <2>. QED
    BY <1>5, <2>1, FS_CardinalityType DEF Lose
<1>6. ASSUME NEW p \in Posts, AppendFails(p) PROVE Typed
  BY <1>5, <1>6 DEF AppendFails
<1>7. CASE Handle
  BY <1>7, <1>b DEF Handle, Workers
<1>8. CASE Acknowledge
  BY <1>8, <1>a DEF Acknowledge, Workers
<1>9. ASSUME NEW w \in Workers, Enter(w) PROVE Typed
  <2>1. CASE run[w].spent /\ Terminate("stuck") /\ Finish(w) /\ UNCHANGED <<runs, answered>>
    BY <1>9, <2>1, <1>a DEF Enter, Terminate, ClearAwaiting
  <2>2. CASE StartRun(w)
    <3>1. answered' \in BOOLEAN
      BY Zenon, <2>2 DEF StartRun
    <3>2. UNCHANGED <<status, waits, stamp, note, queued>>
      BY <2>2 DEF StartRun
    <3>3. steps' = steps + 1 /\ deadline' = "set" /\ runs' = runs + 1
      BY <2>2 DEF StartRun
    <3>4. UNCHANGED <<fragment, heard, signs, threadVars, planned, chatVars, faults, decided, revivals, lost>>
      BY <1>9 DEF Enter
    <3>. QED
      BY <3>1, <3>2, <3>3, <3>4
  <2>. QED
    BY <1>9, <2>1, <2>2 DEF Enter
<1>10. ASSUME NEW w \in Workers, UseTool(w) PROVE Typed
  <2>1. CASE ShowLateReplies(w)
    BY <2>1 DEF ShowLateReplies
  <2>2. CASE AskTeam(w)
    BY <2>2 DEF AskTeam
  <2>3. CASE UNCHANGED <<rowVars, logVars, threadVars, queued, chatVars, faults, obsVars>>
    BY <2>3
  <2>. QED
    BY <1>10, <2>1, <2>2, <2>3 DEF UseTool, AskUser, SubmitPlan
<1>11. ASSUME NEW w \in Workers, RunCrashes(w) PROVE Typed
  BY <1>11, <1>a DEF RunCrashes, Forget
<1>12. ASSUME NEW w \in Workers, Record(w) PROVE Typed
  BY <1>12 DEF Record, Runs
<1>13. ASSUME NEW w \in Workers, Ask(w) \/ SavePlan(w) PROVE Typed
  <2>1. CASE Ask(w)
    BY <2>1 DEF Ask
  <2>2. CASE SavePlan(w)
    <3>1. decided' \in BOOLEAN
      BY Zenon, <2>2 DEF SavePlan
    <3>2. planned' = TRUE
      BY <2>2 DEF SavePlan
    <3>3. UNCHANGED <<rowVars, fragment, heard, note, signs, threadVars, queued, chatVars, faults, runs,
                      answered, revivals, lost>>
      BY <2>2 DEF SavePlan
    <3>. QED
      BY <3>1, <3>2, <3>3
  <2>. QED
    BY <1>13, <2>1, <2>2
<1>14. ASSUME NEW w \in Workers, Await(w) PROVE Typed
  BY <1>14, <1>a DEF Await, InstallAwaiting, Runs
<1>15. ASSUME NEW w \in Workers, SetReady(w) \/ EndWithoutPlan(w) PROVE Typed
  BY <1>15, <1>a DEF SetReady, EndWithoutPlan, Terminate, ClearAwaiting
<1>16. CASE FlushIdle \/ FindOverdue \/ DeadlinePasses
  BY <1>16 DEF FlushIdle, FindOverdue, DeadlinePasses
<1>17. CASE Merge
  <2>1. Coalescer.frags \subseteq Posts
    BY DEF Coalescer, Workers, Runs
  <2>2. heard' \in SUBSET Posts /\ signs' \subseteq {"reply", "silence"}
    <3>1. PICK team \in SUBSET Posts :
            /\ heard' = heard \cup (team \cup (Coalescer.frags \ TeamFragments))
            /\ signs' = IF team = {} THEN signs ELSE signs \cup {"reply"}
      <4>. DEFINE Teams == IF TeamFragments = {} THEN {{}}
                           ELSE {InThread \ heard, TeamFragments \ heard}
      <4>1. Teams \subseteq SUBSET Posts
        BY <2>1 DEF InThread, TeamFragments
      <4>2. PICK team \in Teams :
              /\ heard' = heard \cup (team \cup (Coalescer.frags \ TeamFragments))
              /\ signs' = IF team = {} THEN signs ELSE signs \cup {"reply"}
        BY Zenon, <1>17 DEF Merge
      <4>. QED
        BY <4>1, <4>2
    <3>. QED
      BY <2>1, <3>1
  <2>3. UNCHANGED <<rowVars, fragment, note, threadVars, planned, queued, chatVars, faults, obsVars>>
    BY <1>17 DEF Merge
  <2>. QED
    BY <2>2, <2>3
<1>18. CASE Flush
  BY <1>18, <1>a DEF Flush, Workers
<1>19. CASE ClearAndResume \/ ConsentBySilence
  <2>1. queued' \in BOOLEAN
    BY <1>19, <1>a, <1>b DEF ClearAndResume, ConsentBySilence, Workers
  <2>2. waits' \in {"nobody", "team", "dm"} /\ stamp' \in Posts \cup {Never}
    BY <1>19 DEF ClearAndResume, ConsentBySilence, ClearAwaiting
  <2>3. /\ deadline' \in {"none", "set", "due"} /\ note' \in {"stuck", "other"}
        /\ signs' \subseteq {"reply", "silence"}
    BY <1>19 DEF ClearAndResume, ConsentBySilence
  <2>4. UNCHANGED <<status, steps, fragment, heard, threadVars, planned, chatVars, faults, obsVars>>
    BY <1>19 DEF ClearAndResume, ConsentBySilence
  <2>. QED
    BY <2>1, <2>2, <2>3, <2>4
<1>20. CASE PingLead \/ GiveUp
  BY <1>20, <1>a DEF PingLead, GiveUp, Terminate, ClearAwaiting, Workers
<1>21. CASE Crash
  BY <1>5, <1>21 DEF Crash, Forget
<1>. QED
  BY <1>1, <1>2, <1>3, <1>4, <1>6, <1>7, <1>8, <1>9, <1>10, <1>11, <1>12, <1>13, <1>14, <1>15, <1>16,
     <1>17, <1>18, <1>19, <1>20, <1>21 DEF Next, RunStep, Coalesce

-----------------------------------------------------------------------------
(* What a step does to the runs, one by one.                               *)

\* The other worker is where it was.
Kept(w) == \A v \in Workers : v # w => run'[v] = run[v]

LEMMA RunOver ==
    ASSUME TypeOK, NEW w \in Workers
    PROVE  /\ End(w) => Kept(w) /\ run'[w] = Idle /\ (queued' <=> queued /\ w # "inbox")
           /\ Finish(w) =>
                /\ Kept(w) /\ run'[w].frags = {} /\ run'[w].waits = "nobody" /\ (queued' <=> queued)
                /\ run'[w].pc = IF w = "inbox" THEN "done" ELSE "idle"
           /\ \A row : Resume(w, row) =>
                /\ Kept(w) /\ run'[w].frags = {} /\ run'[w].waits = "nobody"
                /\ \/ row \in Final /\ run'[w].pc = "idle" /\ (queued' <=> queued /\ w # "inbox")
                   \/ /\ row \notin Final /\ run'[w].pc = "enter" /\ (queued' <=> queued)
                      /\ run'[w].spent = (steps >= MaxSteps)
<1>. USE DEF TypeOK, Kept
<1>1. ASSUME End(w)
      PROVE  Kept(w) /\ run'[w] = Idle /\ (queued' <=> queued /\ w # "inbox")
  <2>1. queued' <=> queued /\ w # "inbox"
    BY Zenon, <1>1 DEF End
  <2>. QED
    BY <1>1, <2>1 DEF End
<1>2. ASSUME Finish(w)
      PROVE  /\ Kept(w) /\ run'[w].frags = {} /\ run'[w].waits = "nobody" /\ (queued' <=> queued)
             /\ run'[w].pc = IF w = "inbox" THEN "done" ELSE "idle"
  <2>1. PICK r \in Runs : /\ run' = [run EXCEPT ![w] = r]
                          /\ r = [Idle EXCEPT !.pc = r.pc]
                          /\ r.pc = IF w = "inbox" THEN "done" ELSE "idle"
    BY <1>2, RunEnds
  <2>2. run'[w] = r /\ Kept(w)
    BY <2>1
  <2>3. r.frags = {} /\ r.waits = "nobody"
    BY <2>1, IdleIsRun DEF Runs
  <2>4. queued' <=> queued
    BY <1>2, <1>1 DEF Finish
  <2>. QED
    BY <2>1, <2>2, <2>3, <2>4
<1>3. ASSUME NEW row, Resume(w, row)
      PROVE  /\ Kept(w) /\ run'[w].frags = {} /\ run'[w].waits = "nobody"
             /\ \/ row \in Final /\ run'[w].pc = "idle" /\ (queued' <=> queued /\ w # "inbox")
                \/ /\ row \notin Final /\ run'[w].pc = "enter" /\ (queued' <=> queued)
                   /\ run'[w].spent = (steps >= MaxSteps)
  <2>1. CASE row \in Final /\ End(w)
    BY <2>1, <1>1, IdleIsRun
  <2>2. CASE /\ row \notin Final /\ queued' = queued
             /\ \E r \in Runs : /\ run' = [run EXCEPT ![w] = r]
                                /\ r = [Idle EXCEPT !.pc = "enter", !.spent = r.spent]
                                /\ r.pc = "enter" /\ r.spent = (steps >= MaxSteps)
    <3>1. PICK r \in Runs : /\ run' = [run EXCEPT ![w] = r]
                            /\ r = [Idle EXCEPT !.pc = "enter", !.spent = r.spent]
                            /\ r.pc = "enter" /\ r.spent = (steps >= MaxSteps)
      BY <2>2
    <3>2. run'[w] = r /\ Kept(w)
      BY <3>1
    <3>3. r.frags = {} /\ r.waits = "nobody"
      BY <3>1, IdleIsRun DEF Runs
    <3>. QED
      BY <2>2, <3>1, <3>2, <3>3
  <2>. QED
    BY <1>3, <2>1, <2>2, RunEnds
<1>. QED
  BY <1>1, <1>2, <1>3

\* A step of a run that goes on.
LEMMA RunGoesOn ==
    ASSUME TypeOK, NEW w \in Workers
    PROVE  /\ \A x : Go(w, x) =>
                /\ Kept(w) /\ run'[w].pc = x
                /\ run'[w].frags = run[w].frags /\ run'[w].waits = run[w].waits
                /\ run'[w].spent = run[w].spent /\ run'[w].signed = run[w].signed
                /\ run'[w].effect = run[w].effect
           /\ \A o : Effect(w, o) =>
                /\ Kept(w) /\ run'[w].pc = run[w].pc
                /\ run'[w].frags = run[w].frags /\ run'[w].waits = run[w].waits
                /\ run'[w].spent = run[w].spent /\ run'[w].signed = run[w].signed
                /\ run'[w].effect = o
           /\ ShowLateReplies(w) =>
                /\ Kept(w) /\ run'[w].pc = "run"
                /\ run'[w].frags = run[w].frags /\ run'[w].waits = run[w].waits
                /\ run'[w].spent = run[w].spent /\ run'[w].effect = "none"
           /\ Ask(w) =>
                /\ Kept(w) /\ run'[w].pc = "asked"
                /\ run'[w].frags = run[w].frags /\ run'[w].waits = run[w].pc
           /\ StartRun(w) => Kept(w) /\ run'[w] = NewRun
<1>. USE DEF TypeOK, Kept, Runs
<1>0. run[w] \in Runs
  OBVIOUS
<1>1. ASSUME NEW x, Go(w, x)
      PROVE  /\ Kept(w) /\ run'[w].pc = x
             /\ run'[w].frags = run[w].frags /\ run'[w].waits = run[w].waits
             /\ run'[w].spent = run[w].spent /\ run'[w].signed = run[w].signed
             /\ run'[w].effect = run[w].effect
  <2>1. Kept(w) /\ run'[w] = [run[w] EXCEPT !.pc = x]
    BY <1>1 DEF Go
  <2>. QED
    BY <1>0, <2>1
<1>2. ASSUME NEW o, Effect(w, o)
      PROVE  /\ Kept(w) /\ run'[w].pc = run[w].pc
             /\ run'[w].frags = run[w].frags /\ run'[w].waits = run[w].waits
             /\ run'[w].spent = run[w].spent /\ run'[w].signed = run[w].signed
             /\ run'[w].effect = o
  <2>1. Kept(w) /\ run'[w] = [run[w] EXCEPT !.effect = o]
    BY <1>2 DEF Effect
  <2>. QED
    BY <1>0, <2>1
<1>3. ASSUME ShowLateReplies(w)
      PROVE  /\ Kept(w) /\ run'[w].pc = "run"
             /\ run'[w].frags = run[w].frags /\ run'[w].waits = run[w].waits
             /\ run'[w].spent = run[w].spent /\ run'[w].effect = "none"
  <2>1. /\ Kept(w) /\ run[w].pc = "run" /\ run[w].effect = "none"
        /\ run'[w] = [run[w] EXCEPT !.known = run[w].known \cup InThread, !.signed = TRUE]
    BY <1>3 DEF ShowLateReplies, Acting
  <2>. QED
    BY <1>0, <2>1
<1>4. ASSUME Ask(w)
      PROVE  /\ Kept(w) /\ run'[w].pc = "asked"
             /\ run'[w].frags = run[w].frags /\ run'[w].waits = run[w].pc
  <2>1. Kept(w) /\ run'[w] = [run[w] EXCEPT !.pc = "asked", !.waits = run[w].pc]
    BY <1>4 DEF Ask
  <2>. QED
    BY <1>0, <2>1
<1>5. StartRun(w) => Kept(w) /\ run'[w] = NewRun
  BY DEF StartRun
<1>. QED
  BY <1>1, <1>2, <1>3, <1>4, <1>5
-----------------------------------------------------------------------------
(* The invariants, step by step.                                           *)

\* The step of a run is taken in one of the places of a run, and ends in one.
LEMMA RunPlaces ==
    ASSUME TypeOK, NEW w \in Workers, RunStep(w)
    PROVE  /\ Kept(w)
           /\ run[w].pc \in {"enter", "run", "asked", "ready"} \cup Outcomes
           /\ run'[w].pc \in {"run", "asked", "ready"} \cup Outcomes
              \/ run'[w].pc = IF w = "inbox" THEN "done" ELSE "idle"
           /\ run'[w].frags = run[w].frags \/ run'[w].frags = {}
           /\ queued' <=> queued
<1>. USE RunOver, RunGoesOn
<1>1. CASE Enter(w)
  BY <1>1, NewRunIsRun DEF Enter, StartRun
<1>2. CASE UseTool(w)
  <2>1. run[w].pc = "run" /\ (ShowLateReplies(w) \/ \E o \in Outcomes : Effect(w, o))
    BY <1>2 DEF UseTool, ShowLateReplies, AskTeam, AskUser, SubmitPlan, ReportStuck, ReportBlocked,
       Acting, Outcomes
  <2>2. UNCHANGED queued
    BY <1>2 DEF UseTool, ShowLateReplies, AskTeam, AskUser, SubmitPlan
  <2>. QED
    BY <2>1, <2>2
<1>3. CASE RunCrashes(w)
  BY <1>3 DEF RunCrashes
<1>4. CASE Record(w)
  BY <1>4 DEF Record, TypeOK, Runs, Outcomes
<1>5. CASE Ask(w)
  BY <1>5 DEF Ask, Outcomes
<1>6. CASE Await(w)
  BY <1>6 DEF Await
<1>7. CASE SavePlan(w)
  BY <1>7 DEF SavePlan, Outcomes
<1>8. CASE SetReady(w)
  BY <1>8 DEF SetReady
<1>9. CASE EndWithoutPlan(w)
  BY <1>9 DEF EndWithoutPlan, Outcomes
<1>. QED
  BY <1>1, <1>2, <1>3, <1>4, <1>5, <1>6, <1>7, <1>8, <1>9 DEF RunStep
LEMMA CoalescerPlaces ==
    ASSUME TypeOK, FlushIdle \/ FindOverdue \/ Coalesce
    PROVE  /\ Kept("coalescer") /\ (queued' <=> queued)
           /\ Coalescer.pc \in {"idle", "merge", "mark", "flush", "clear", "overdue"}
           /\ run'["coalescer"].pc \in
                {"idle", "merge", "mark", "flush", "clear", "overdue", "enter"}
           /\ run'["coalescer"].waits \in {"nobody", waits, Coalescer.waits}
<1>0. "coalescer" \in Workers /\ "coalescer" # "inbox"
  BY DEF Workers
<1>1. CASE FlushIdle
  BY <1>0, <1>1, IdleIsRun DEF FlushIdle, Coalescer, Kept, TypeOK, Runs
<1>2. CASE FindOverdue
  BY <1>0, <1>2, IdleIsRun DEF FindOverdue, Coalescer, Kept, TypeOK, Runs
<1>3. CASE Merge
  BY <1>0, <1>3, RunGoesOn DEF Merge, Coalescer
<1>4. CASE Flush
  BY <1>0, <1>4, RunGoesOn, RunOver, IdleIsRun DEF Flush, Coalescer
<1>5. CASE ClearAndResume
  BY <1>0, <1>5, RunOver, IdleIsRun DEF ClearAndResume, Coalescer
<1>6. CASE ConsentBySilence
  BY <1>0, <1>6, RunOver, IdleIsRun DEF ConsentBySilence, Coalescer
<1>7. CASE PingLead \/ GiveUp
  BY <1>0, <1>7, RunOver, IdleIsRun DEF PingLead, GiveUp, Coalescer
<1>. QED
  BY <1>1, <1>2, <1>3, <1>4, <1>5, <1>6, <1>7 DEF Coalesce

\* The rest of the steps leave the runs alone, but for the inbox and a crash.
LEMMA OtherPlaces ==
    ASSUME [Next]_vars, ~(FlushIdle \/ FindOverdue \/ Coalesce), \A w \in Workers : ~RunStep(w)
    PROVE  \/ Handle \/ Acknowledge \/ Crash
           \/ UNCHANGED <<run, queued>>
BY DEF Next, vars, Write, Dispatch, Append, AppendFails, DeadlinePasses

LEMMA InboxPlaces ==
    ASSUME TypeOK, Handle \/ Acknowledge
    PROVE  /\ Kept("inbox")
           /\ run["inbox"].pc \in {"idle", "done"} /\ run'["inbox"].pc \in {"idle", "enter"}
           /\ run'["inbox"].waits = "nobody" /\ run'["inbox"].frags = {}
BY RunOver, IdleIsRun DEF Handle, Acknowledge, Workers

LEMMA NextPlaceInv == ASSUME IInv, [Next]_vars PROVE PlaceInv'
<1>. USE DEF IInv, PlaceInv
<1>1. CASE FlushIdle \/ FindOverdue \/ Coalesce
  BY <1>1, CoalescerPlaces DEF Kept, Workers
<1>2. ASSUME NEW w \in Workers, RunStep(w) PROVE PlaceInv'
  BY <1>2, RunPlaces DEF Kept, Workers, Outcomes
<1>3. CASE Handle \/ Acknowledge
  BY <1>3, InboxPlaces DEF Kept, Workers
<1>4. CASE Crash
  BY <1>4, IdleIsRun DEF Crash, Workers
<1>. QED
  BY <1>1, <1>2, <1>3, <1>4, OtherPlaces
\* Once the history has the thread it keeps it, and no reply in it is lost.
LEMMA ThreadStays ==
    ASSUME [Next]_vars
    PROVE  /\ thread = "known" => thread' = "known" /\ strays' = strays
           /\ written \subseteq written'
<1>. USE DEF vars, rowVars, logVars, threadVars, chatVars, obsVars
<1>1. CASE UNCHANGED vars
  BY <1>1
<1>2. ASSUME NEW p \in Posts, Write(p) \/ Dispatch(p) \/ Append(p) \/ AppendFails(p)
      PROVE  (thread = "known" => thread' = "known" /\ strays' = strays) /\ written \subseteq written'
  BY <1>2 DEF Write, Dispatch, Append, AppendFails
<1>3. CASE Handle \/ Acknowledge \/ DeadlinePasses
  BY <1>3 DEF Handle, Acknowledge, DeadlinePasses
<1>4. ASSUME NEW w \in Workers, UseTool(w)
      PROVE  (thread = "known" => thread' = "known" /\ strays' = strays) /\ written \subseteq written'
  BY <1>4 DEF UseTool, ShowLateReplies, AskTeam, AskUser, SubmitPlan
<1>5. ASSUME NEW w \in Workers,
             Enter(w) \/ RunCrashes(w) \/ Record(w) \/ Ask(w) \/ Await(w) \/ SavePlan(w)
             \/ SetReady(w) \/ EndWithoutPlan(w)
      PROVE  (thread = "known" => thread' = "known" /\ strays' = strays) /\ written \subseteq written'
  BY <1>5 DEF Enter, RunCrashes, Record, Ask, Await, SavePlan, SetReady, EndWithoutPlan, Forget
<1>6. CASE FlushIdle \/ FindOverdue \/ Merge \/ Flush
  BY <1>6 DEF FlushIdle, FindOverdue, Merge, Flush
<1>7. CASE ClearAndResume \/ ConsentBySilence \/ PingLead \/ GiveUp
  BY <1>7 DEF ClearAndResume, ConsentBySilence, PingLead, GiveUp
<1>8. CASE Crash
  BY <1>8 DEF Crash, Forget
<1>. QED
  BY <1>1, <1>2, <1>3, <1>4, <1>5, <1>6, <1>7, <1>8 DEF Next, RunStep, Coalesce

\* The row waits for the team because a question in the thread said so, or
\* because a reply in the thread brought the ticket back.
LEMMA WaitsMoves ==
    ASSUME [Next]_vars, TypeOK
    PROVE  \/ waits' \in {waits, "nobody"}
           \/ waits' = "team" /\ thread = "known"
           \/ \E w \in Workers : waits' = run[w].waits
<1>. USE DEF vars, rowVars, logVars, threadVars, chatVars, obsVars
<1>. DEFINE Moved == \/ waits' \in {waits, "nobody"}
                     \/ waits' = "team" /\ thread = "known"
                     \/ \E w \in Workers : waits' = run[w].waits
<1>1. CASE UNCHANGED vars
  BY <1>1
<1>2. ASSUME NEW p \in Posts, Write(p) \/ Append(p) \/ AppendFails(p) PROVE Moved
  BY <1>2 DEF Write, Append, AppendFails
<1>3. ASSUME NEW p \in Posts, Dispatch(p) PROVE Moved
  BY <1>3, SessionAssumption DEF Dispatch, ReviveStuck, Routed, Posts
<1>4. CASE Handle \/ Acknowledge \/ DeadlinePasses \/ Crash
  BY <1>4 DEF Handle, Acknowledge, DeadlinePasses, Crash
<1>5. ASSUME NEW w \in Workers, UseTool(w) PROVE Moved
  BY <1>5 DEF UseTool, ShowLateReplies, AskTeam, AskUser, SubmitPlan
<1>6. ASSUME NEW w \in Workers, RunCrashes(w) \/ Record(w) \/ Ask(w) \/ SavePlan(w) PROVE Moved
  BY <1>6 DEF RunCrashes, Record, Ask, SavePlan
<1>7. ASSUME NEW w \in Workers, Enter(w) \/ Await(w) \/ SetReady(w) \/ EndWithoutPlan(w) PROVE Moved
  BY <1>7 DEF Enter, Await, SetReady, EndWithoutPlan, StartRun, Terminate, ClearAwaiting, InstallAwaiting
<1>8. CASE FlushIdle \/ FindOverdue \/ Merge \/ Flush \/ PingLead
  BY <1>8 DEF FlushIdle, FindOverdue, Merge, Flush, PingLead
<1>9. CASE ClearAndResume \/ ConsentBySilence \/ GiveUp
  BY <1>9 DEF ClearAndResume, ConsentBySilence, GiveUp, Terminate, ClearAwaiting
<1>. QED
  BY <1>1, <1>2, <1>3, <1>4, <1>5, <1>6, <1>7, <1>8, <1>9 DEF Next, RunStep, Coalesce

LEMMA RunWaits ==
    ASSUME TypeOK, NEW w \in Workers, RunStep(w)
    PROVE  run'[w].waits \in {run[w].waits, "nobody"} \/ (run'[w].waits = "team" => thread' = "known")
<1>. USE RunOver, RunGoesOn
<1>1. CASE Enter(w)
  BY <1>1, NewRunIsRun DEF Enter, StartRun
<1>2. CASE UseTool(w)
  <2>1. ShowLateReplies(w) \/ \E o \in Outcomes : Effect(w, o)
    BY <1>2 DEF UseTool, ShowLateReplies, AskTeam, AskUser, SubmitPlan, ReportStuck, ReportBlocked,
       Acting, Outcomes
  <2>. QED
    BY <2>1
<1>3. CASE RunCrashes(w) \/ Await(w) \/ SetReady(w) \/ EndWithoutPlan(w)
  BY <1>3 DEF RunCrashes, Await, SetReady, EndWithoutPlan
<1>4. CASE Record(w) \/ SavePlan(w)
  BY <1>4 DEF Record, SavePlan
<1>5. CASE Ask(w)
  BY <1>5 DEF Ask
<1>. QED
  BY <1>1, <1>2, <1>3, <1>4, <1>5 DEF RunStep

\* A post that is dispatched, or kept, was dispatched to a thread that the
\* history has.
LEMMA PostsMove ==
    ASSUME [Next]_vars, TypeOK
    PROVE  \A p \in TeamPosts :
            p \in inflight' \/ fragment'[p] # "none" =>
               \/ p \in inflight \/ fragment[p] # "none" \/ p \in Coalescer.frags
               \/ thread = "known" /\ p \in written \ strays
<1>. USE DEF vars, rowVars, logVars, threadVars, chatVars, obsVars
<1>. SUFFICES ASSUME NEW p \in TeamPosts, p \in inflight' \/ fragment'[p] # "none",
                     p \notin inflight, fragment[p] = "none", p \notin Coalescer.frags
              PROVE  thread = "known" /\ p \in written \ strays
  OBVIOUS
<1>0. p \in Posts
  BY DEF Posts
<1>1. ASSUME NEW q \in Posts, Dispatch(q) PROVE thread = "known" /\ p \in written \ strays
  BY <1>1, SessionAssumption DEF Dispatch, Routed, Posts
<1>2. ASSUME NEW q \in Posts, Append(q) PROVE FALSE
  BY <1>0, <1>2 DEF Append, AppendFragment, TypeOK
<1>3. CASE Flush
  BY <1>0, <1>3 DEF Flush, TypeOK
<1>4. (\E q \in Posts : Dispatch(q) \/ Append(q)) \/ Flush \/ (inflight' \subseteq inflight /\ fragment' = fragment)
  <2>. DEFINE Same == inflight' \subseteq inflight /\ fragment' = fragment
  <2>1. UNCHANGED vars \/ (\E q \in Posts : Write(q) \/ AppendFails(q)) => Same
    BY DEF Write, AppendFails
  <2>2. Handle \/ Acknowledge \/ DeadlinePasses \/ Crash => Same
    BY DEF Handle, Acknowledge, DeadlinePasses, Crash
  <2>3. ASSUME NEW w \in Workers, UseTool(w) PROVE Same
    BY <2>3 DEF UseTool, ShowLateReplies, AskTeam, AskUser, SubmitPlan
  <2>4. ASSUME NEW w \in Workers, RunStep(w) PROVE Same
    BY <2>3, <2>4 DEF RunStep, Enter, RunCrashes, Record, Ask, Await, SavePlan, SetReady, EndWithoutPlan
  <2>5. FlushIdle \/ FindOverdue \/ Merge \/ ClearAndResume \/ ConsentBySilence \/ PingLead \/ GiveUp => Same
    BY DEF FlushIdle, FindOverdue, Merge, ClearAndResume, ConsentBySilence, PingLead, GiveUp
  <2>. QED
    BY <2>1, <2>2, <2>4, <2>5 DEF Next, Coalesce
<1>. QED
  BY <1>1, <1>2, <1>3, <1>4
LEMMA NextThreadInv == ASSUME IInv, [Next]_vars PROVE ThreadInv'
<1>0. /\ TypeOK /\ PlaceInv /\ ThreadInv
      /\ \A p \in Coalescer.frags : fragment[p] # "none"
  BY DEF IInv, HeardInv
<1>1. (waits = "team" => thread = "known") /\ \A w \in Workers : run[w].waits = "team" => thread = "known"
  BY <1>0 DEF ThreadInv
<1>2. /\ thread = "known" => thread' = "known" /\ strays' = strays
      /\ written \subseteq written'
  BY ThreadStays
<1>3. waits' = "team" => thread' = "known"
  BY <1>0, <1>1, <1>2, WaitsMoves
<1>4. ASSUME NEW w \in Workers, run'[w].waits = "team" PROVE thread' = "known"
  <2>1. ASSUME NEW v \in Workers, RunStep(v) PROVE thread' = "known"
    <3>1. Kept(v)
      BY <1>0, <2>1, RunPlaces
    <3>. QED
      BY <1>0, <1>1, <1>2, <1>4, <2>1, <3>1, RunWaits DEF Kept
  <2>2. CASE FlushIdle \/ FindOverdue \/ Coalesce
    BY <1>0, <1>1, <1>2, <1>4, <2>2, CoalescerPlaces DEF Kept, Workers, Coalescer
  <2>3. CASE Handle \/ Acknowledge
    BY <1>0, <1>1, <1>2, <1>4, <2>3, InboxPlaces DEF Kept
  <2>4. CASE Crash
    BY <1>4, <2>4, IdleIsRun DEF Crash
  <2>5. CASE UNCHANGED <<run, queued>>
    BY <1>1, <1>2, <1>4, <2>5
  <2>. QED
    BY <2>1, <2>2, <2>3, <2>4, <2>5, OtherPlaces
<1>5. ASSUME NEW p \in TeamPosts, p \in inflight' \/ fragment'[p] # "none"
      PROVE  thread' = "known" /\ p \in written' \ strays'
  <2>1. thread = "known" /\ p \in written \ strays
    BY <1>0, <1>5, PostsMove DEF ThreadInv
  <2>. QED
    BY <1>2, <2>1
<1>6. IsFiniteSet(written')
  <2>1. written' = written \/ \E p \in Posts : written' = written \cup {p}
    <3>. USE DEF vars, rowVars, logVars, threadVars, chatVars, obsVars
    <3>1. UNCHANGED vars \/ (\E q \in Posts : Dispatch(q) \/ Append(q) \/ AppendFails(q)) => written' = written
      BY DEF Dispatch, Append, AppendFails
    <3>2. Handle \/ Acknowledge \/ DeadlinePasses \/ Crash => written' = written
      BY DEF Handle, Acknowledge, DeadlinePasses, Crash
    <3>3. ASSUME NEW w \in Workers, UseTool(w) PROVE written' = written
      BY <3>3 DEF UseTool, ShowLateReplies, AskTeam, AskUser, SubmitPlan
    <3>4. ASSUME NEW w \in Workers, RunStep(w) PROVE written' = written
      BY <3>3, <3>4 DEF RunStep, Enter, RunCrashes, Record, Ask, Await, SavePlan, SetReady, EndWithoutPlan
    <3>5. FlushIdle \/ FindOverdue \/ Merge \/ Flush \/ ClearAndResume \/ ConsentBySilence \/ PingLead \/ GiveUp
             => written' = written
      BY DEF FlushIdle, FindOverdue, Merge, Flush, ClearAndResume, ConsentBySilence, PingLead, GiveUp
    <3>. QED
      BY <3>1, <3>2, <3>4, <3>5 DEF Next, Coalesce, Write
  <2>2. IsFiniteSet(written)
    BY <1>0 DEF ThreadInv
  <2>. QED
    BY <2>1, <2>2, FS_AddElement
<1>. QED
  BY <1>3, <1>4, <1>5, <1>6 DEF ThreadInv
\* The history only grows, a fragment stays one, and only Flush marks one.
LEMMA LogGrows ==
    ASSUME [Next]_vars, TypeOK
    PROVE  /\ heard \subseteq heard'
           /\ \A p \in Posts :
                /\ fragment[p] # "none" => fragment'[p] # "none"
                /\ fragment'[p] = "flushed" =>
                    fragment[p] = "flushed" \/ (Flush /\ p \in Coalescer.frags)
<1>. USE DEF vars, rowVars, logVars, threadVars, chatVars, obsVars
<1>. DEFINE Same == heard \subseteq heard' /\ fragment' = fragment
<1>1. UNCHANGED vars \/ (\E q \in Posts : Write(q) \/ Dispatch(q) \/ AppendFails(q)) => Same
  BY DEF Write, Dispatch, AppendFails
<1>2. Handle \/ Acknowledge \/ DeadlinePasses \/ Crash => Same
  BY DEF Handle, Acknowledge, DeadlinePasses, Crash
<1>3. ASSUME NEW w \in Workers, UseTool(w) PROVE Same
  BY <1>3 DEF UseTool, ShowLateReplies, AskTeam, AskUser, SubmitPlan
<1>4. ASSUME NEW w \in Workers, RunStep(w) PROVE Same
  BY <1>3, <1>4 DEF RunStep, Enter, RunCrashes, Record, Ask, Await, SavePlan, SetReady, EndWithoutPlan
<1>5. FlushIdle \/ FindOverdue \/ Merge \/ ClearAndResume \/ ConsentBySilence \/ PingLead \/ GiveUp => Same
  BY DEF FlushIdle, FindOverdue, Merge, ClearAndResume, ConsentBySilence, PingLead, GiveUp
<1>6. ASSUME NEW q \in Posts, Append(q)
      PROVE  heard' = heard /\ fragment' \in {fragment, [fragment EXCEPT ![q] = "unflushed"]}
             /\ (fragment' # fragment => fragment[q] = "none")
  BY <1>6 DEF Append, AppendFragment
<1>7. ASSUME Flush
      PROVE  /\ heard' = heard
             /\ \A p \in Posts : fragment'[p] = IF p \in Coalescer.frags THEN "flushed" ELSE fragment[p]
  BY <1>7 DEF Flush
<1>8. CASE Same
  BY <1>8
<1>9. CASE \E q \in Posts : Append(q)
  BY <1>6, <1>9 DEF TypeOK
<1>10. CASE Flush
  BY <1>7, <1>10
<1>. QED
  BY <1>1, <1>2, <1>4, <1>5, <1>8, <1>9, <1>10 DEF Next, Coalesce

LEMMA SnapshotMoves ==
    ASSUME [Next]_vars, TypeOK
    PROVE  LET new == run'["coalescer"]
           IN  /\ new.frags \subseteq Coalescer.frags \cup Unflushed
               /\ new.pc \in {"mark", "flush"} => Merge \/ (new = Coalescer /\ ~Flush)
<1>0. "coalescer" \in Workers /\ "coalescer" # "inbox"
  BY DEF Workers
<1>1. CASE FlushIdle \/ FindOverdue
  <2>1. PICK frags \in SUBSET Unflushed : \E x \in {"merge", "overdue"} :
          run'["coalescer"] = [Idle EXCEPT !.pc = x, !.frags = frags, !.waits = waits]
    <3>1. CASE FlushIdle
      BY <1>0, <3>1 DEF FlushIdle, TypeOK
    <3>2. CASE FindOverdue
      <4>1. run'["coalescer"] = [Idle EXCEPT !.pc = "overdue", !.waits = waits]
        BY <1>0, <3>2 DEF FindOverdue, TypeOK
      <4>2. @ = [Idle EXCEPT !.pc = "overdue", !.frags = {}, !.waits = waits]
        BY IdleIsRun DEF Runs
      <4>. QED
        BY <4>1, <4>2
    <3>. QED
      BY <1>1, <3>1, <3>2
  <2>. QED
    BY <2>1, IdleIsRun DEF Runs
<1>2. CASE Merge
  BY <1>0, <1>2, RunGoesOn DEF Merge, Coalescer
<1>3. CASE Flush
  BY <1>0, <1>3, RunGoesOn, RunOver, IdleIsRun DEF Flush, Coalescer
<1>4. CASE ClearAndResume \/ ConsentBySilence
  BY <1>0, <1>4, RunOver, IdleIsRun DEF ClearAndResume, ConsentBySilence
<1>5. CASE PingLead \/ GiveUp
  BY <1>0, <1>5, RunOver, IdleIsRun DEF PingLead, GiveUp
<1>6. ASSUME NEW w \in Workers, RunStep(w), ~Flush
      PROVE  /\ run'["coalescer"].frags \subseteq Coalescer.frags
             /\ run'["coalescer"].pc \in {"mark", "flush"} => run'["coalescer"] = Coalescer
  BY <1>0, <1>6, RunPlaces DEF Kept, Coalescer, Outcomes
<1>7. CASE (Handle \/ Acknowledge) /\ ~Flush
  BY <1>0, <1>7, InboxPlaces DEF Kept, Coalescer
<1>8. CASE Crash
  BY <1>0, <1>8, IdleIsRun DEF Crash
<1>9. CASE UNCHANGED <<run, queued>> /\ ~Flush
  BY <1>9 DEF Coalescer
<1>. QED
  BY <1>1, <1>2, <1>3, <1>4, <1>5, <1>6, <1>7, <1>8, <1>9, OtherPlaces DEF Coalesce

LEMMA NextHeardInv == ASSUME IInv, [Next]_vars PROVE HeardInv'
<1>0. TypeOK /\ ThreadInv /\ HeardInv
  BY DEF IInv
<1>1. Coalescer \in Runs /\ Coalescer.frags \subseteq Posts
  BY <1>0 DEF TypeOK, Runs, Coalescer, Workers
<1>2. TeamPosts \subseteq Posts
  BY DEF Posts
<1>3. heard \subseteq heard'
  BY <1>0, LogGrows
<1>4. NothingSwallowed'
  <2>. SUFFICES ASSUME NEW p \in TeamPosts, fragment'[p] = "flushed" PROVE p \in heard'
    BY DEF NothingSwallowed
  <2>1. fragment[p] = "flushed" \/ (Flush /\ p \in Coalescer.frags)
    BY <1>0, <1>2, LogGrows
  <2>2. Flush => Coalescer.pc \in {"mark", "flush"}
    BY DEF Flush
  <2>. QED
    BY <1>0, <1>3, <2>1, <2>2 DEF HeardInv, NothingSwallowed
<1>5. \A p \in run'["coalescer"].frags : fragment'[p] # "none"
  <2>1. \A p \in Coalescer.frags \cup Unflushed : p \in Posts /\ fragment[p] # "none"
    BY <1>0, <1>1 DEF HeardInv, Unflushed
  <2>. QED
    BY <1>0, <2>1, SnapshotMoves, LogGrows
<1>6. ASSUME run'["coalescer"].pc \in {"mark", "flush"}
      PROVE  run'["coalescer"].frags \cap TeamPosts \subseteq heard'
  <2>1. CASE run'["coalescer"] = Coalescer
    BY <1>0, <1>3, <1>6, <2>1 DEF HeardInv
  <2>2. CASE Merge
    <3>1. run'["coalescer"].frags = Coalescer.frags
      BY <1>0, <2>2, RunGoesOn DEF Merge, Coalescer, Workers
    <3>. DEFINE Teams == IF TeamFragments = {} THEN {{}}
                         ELSE {InThread \ heard, TeamFragments \ heard}
    <3>2. PICK team \in Teams : heard' = heard \cup (team \cup (Coalescer.frags \ TeamFragments))
      BY Zenon, <2>2 DEF Merge
    <3>3. Coalescer.frags \cap TeamPosts \subseteq TeamFragments
      BY DEF TeamFragments
    <3>4. Coalescer.frags \cap TeamPosts \subseteq InThread
      BY <1>0 DEF ThreadInv, HeardInv, InThread
    <3>. QED
      BY <3>1, <3>2, <3>3, <3>4
  <2>. QED
    BY <1>0, <1>6, <2>1, <2>2, SnapshotMoves
<1>. QED
  BY <1>4, <1>5, <1>6 DEF HeardInv, Coalescer
\* Who signed stays in the history, and what is new in it has its ground.
LEMMA SignsMove ==
    ASSUME [Next]_vars, IInv
    PROVE  /\ signs \subseteq signs'
           /\ answered => answered'
           /\ "silence" \in signs' => "silence" \in signs \/ thread = "known"
           /\ "reply" \in signs' => "reply" \in signs \/ heard' # {}
           /\ decided' => decided \/ \E w \in Workers : SavePlan(w) /\ run[w].pc = "decisions"
<1>. USE DEF vars, rowVars, logVars, threadVars, chatVars, obsVars
<1>0. TypeOK /\ ThreadInv
  BY DEF IInv
<1>. DEFINE Same == UNCHANGED <<signs, decided, answered>>
<1>1. UNCHANGED vars \/ (\E q \in Posts : Write(q) \/ Dispatch(q) \/ Append(q) \/ AppendFails(q)) => Same
  BY DEF Write, Dispatch, Append, AppendFails
<1>2. Handle \/ Acknowledge \/ DeadlinePasses \/ Crash => Same
  BY DEF Handle, Acknowledge, DeadlinePasses, Crash
<1>3. ASSUME NEW w \in Workers, UseTool(w)
      PROVE  UNCHANGED <<signs, decided>> /\ (answered => answered')
  BY <1>3 DEF UseTool, ShowLateReplies, AskTeam, AskUser, SubmitPlan
<1>4. ASSUME NEW w \in Workers, Enter(w)
      PROVE  UNCHANGED <<signs, decided>> /\ (answered => answered')
  <2>1. answered' = answered \/ answered' = (answered \/ heard # {})
    BY <1>4 DEF Enter, StartRun
  <2>2. answered => answered'
    BY Zenon, <2>1
  <2>. QED
    BY <1>4, <2>2 DEF Enter
<1>5. ASSUME NEW w \in Workers, Record(w)
      PROVE  /\ UNCHANGED <<decided, answered>> /\ signs \subseteq signs'
             /\ signs' = signs \/ (signs' = signs \cup {"reply"} /\ heard' # {})
  BY <1>5 DEF Record
<1>6. ASSUME NEW w \in Workers, SavePlan(w)
      PROVE  /\ UNCHANGED <<signs, answered>>
             /\ decided' => decided \/ run[w].pc = "decisions"
  <2>1. decided' => decided \/ run[w].pc = "decisions"
    BY Zenon, <1>6 DEF SavePlan
  <2>. QED
    BY <1>6, <2>1 DEF SavePlan
<1>7. ASSUME NEW w \in Workers,
             RunCrashes(w) \/ Ask(w) \/ Await(w) \/ SetReady(w) \/ EndWithoutPlan(w)
      PROVE  Same
  BY <1>7 DEF RunCrashes, Ask, Await, SetReady, EndWithoutPlan
<1>8. FlushIdle \/ FindOverdue \/ Flush \/ ClearAndResume \/ PingLead \/ GiveUp => Same
  BY DEF FlushIdle, FindOverdue, Flush, ClearAndResume, PingLead, GiveUp
<1>9. ASSUME Merge
      PROVE  /\ UNCHANGED <<decided, answered>> /\ signs \subseteq signs'
             /\ signs' = signs \/ (signs' = signs \cup {"reply"} /\ heard' # {})
  BY <1>9 DEF Merge
<1>10. ASSUME ConsentBySilence
       PROVE  /\ UNCHANGED <<decided, answered>> /\ signs \subseteq signs'
              /\ signs' = signs \/ (signs' = signs \cup {"silence"} /\ thread = "known")
  BY <1>0, <1>10 DEF ConsentBySilence, ThreadInv, Coalescer, Workers
<1>11. CASE Same
  BY <1>11
<1>12. CASE \E w \in Workers : UseTool(w) \/ Enter(w)
  BY <1>3, <1>4, <1>12
<1>13. CASE Merge \/ \E w \in Workers : Record(w)
  BY <1>5, <1>9, <1>13
<1>14. CASE \E w \in Workers : SavePlan(w)
  BY <1>6, <1>14
<1>15. CASE ConsentBySilence
  BY <1>10, <1>15
<1>. QED
  BY <1>1, <1>2, <1>7, <1>8, <1>11, <1>12, <1>13, <1>14, <1>15 DEF Next, RunStep, Coalesce

\* What a step of a run does to its proposal.
LEMMA ProposalMoves ==
    ASSUME IInv, NEW w \in Workers, RunStep(w), Backed => Backed'
    PROVE  /\ run'[w].pc = "run" /\ run'[w].signed => Backed'
           /\ run'[w].pc = "run" /\ run'[w].effect = "decisions" => run'[w].signed
           /\ run'[w].pc = "decisions" => Backed'
<1>0. TypeOK /\ SignInv
  BY DEF IInv
<1>1. CASE Enter(w) /\ ~StartRun(w)
  BY <1>0, <1>1, RunOver DEF Enter
<1>2. CASE StartRun(w)
  <2>1. run'[w] = NewRun
    BY <1>0, <1>2, RunGoesOn
  <2>2. answered' = (answered \/ heard # {})
    BY <1>2 DEF StartRun
  <2>3. signs # {} => Backed'
    <3>1. signs \subseteq {"reply", "silence"}
      BY <1>0 DEF TypeOK
    <3>2. "reply" \in signs => answered'
      BY <1>0, <2>2 DEF SignInv
    <3>3. "silence" \in signs => Backed
      BY <1>0 DEF SignInv, Backed
    <3>. QED
      BY <3>1, <3>2, <3>3 DEF Backed
  <2>. QED
    BY <1>0, <2>1, <2>3, NewRunIsRun DEF ProposalConfirmed
<1>3. CASE ShowLateReplies(w)
  <2>1. answered'
    BY <1>3 DEF ShowLateReplies
  <2>2. run'[w].pc = "run" /\ run'[w].effect = "none"
    BY <1>0, <1>3, RunGoesOn
  <2>. QED
    BY <2>1, <2>2 DEF Backed
<1>4. CASE AskTeam(w) \/ AskUser(w) \/ SubmitPlan(w) \/ ReportStuck(w) \/ ReportBlocked(w)
  <2>1. PICK o \in Outcomes : Effect(w, o) /\ (o = "decisions" => run[w].signed) /\ run[w].pc = "run"
    BY <1>4 DEF AskTeam, AskUser, SubmitPlan, ReportStuck, ReportBlocked, Outcomes, Acting
  <2>. QED
    BY <1>0, <2>1, RunGoesOn DEF SignInv
<1>5. CASE Record(w)
  <2>1. run'[w].pc = "decisions" => run[w].effect = "decisions" /\ run[w].pc = "run"
    BY <1>0, <1>5, RunGoesOn DEF Record
  <2>2. run'[w].pc # "run"
    BY <1>0, <1>5, RunGoesOn DEF Record, TypeOK, Runs, Outcomes
  <2>. QED
    BY <1>0, <2>1, <2>2 DEF SignInv
<1>6. CASE Ask(w) \/ SavePlan(w)
  BY <1>0, <1>6, RunGoesOn DEF SavePlan
<1>7. CASE RunCrashes(w) \/ Await(w) \/ SetReady(w) \/ EndWithoutPlan(w)
  BY <1>0, <1>7, RunOver DEF RunCrashes, Await, SetReady, EndWithoutPlan
<1>. QED
  BY <1>1, <1>2, <1>3, <1>4, <1>5, <1>6, <1>7 DEF RunStep, UseTool

LEMMA NextSignInv == ASSUME IInv, [Next]_vars PROVE SignInv'
<1>0. TypeOK /\ SignInv /\ PlaceInv
  BY DEF IInv
<1>1. Backed => Backed'
  BY SignsMove, ThreadStays DEF Backed
<1>2. "silence" \in signs' => thread' = "known"
  BY <1>0, SignsMove, ThreadStays DEF SignInv
<1>3. "reply" \in signs' => heard' # {}
  BY <1>0, SignsMove, LogGrows DEF SignInv
<1>4. ASSUME NEW w \in Workers
      PROVE  /\ run'[w].pc = "run" /\ run'[w].signed => Backed'
             /\ run'[w].pc = "run" /\ run'[w].effect = "decisions" => run'[w].signed
             /\ run'[w].pc = "decisions" => Backed'
  <2>1. CASE run'[w] = run[w]
    BY <1>0, <1>1, <2>1 DEF SignInv
  <2>2. ASSUME NEW v \in Workers, RunStep(v) PROVE w = v \/ run'[w] = run[w]
    BY <1>0, <2>2, RunPlaces DEF Kept
  <2>3. CASE RunStep(w)
    BY <1>1, <2>3, ProposalMoves
  <2>4. CASE FlushIdle \/ FindOverdue \/ Coalesce
    BY <1>0, <2>1, <2>4, CoalescerPlaces DEF Kept
  <2>5. CASE Handle \/ Acknowledge
    BY <1>0, <2>1, <2>5, InboxPlaces DEF Kept
  <2>6. CASE Crash
    BY <2>6, IdleIsRun DEF Crash
  <2>. QED
    BY <2>1, <2>2, <2>3, <2>4, <2>5, <2>6, OtherPlaces
<1>5. decided' => Backed'
  BY <1>0, <1>1, SignsMove DEF SignInv
<1>. QED
  BY <1>2, <1>3, <1>4, <1>5 DEF SignInv
\* The replies of the team that the listener took in.
TakenIn == {p \in TeamPosts : p \in inflight \/ fragment[p] # "none"}

LEMMA RevivalsMove ==
    ASSUME [Next]_vars, TypeOK
    PROVE  \/ UNCHANGED <<revivals, lost>> /\ inflight \subseteq inflight'
           \/ UNCHANGED <<revivals, lost>> /\ \E p \in Posts : Append(p)
           \/ \E p \in Posts : Dispatch(p)
           \/ \E posts \in SUBSET inflight :
                revivals' = revivals /\ Lose(posts) /\ inflight' = inflight \ posts
<1>. USE DEF vars, rowVars, logVars, threadVars, chatVars, obsVars
<1>. DEFINE Same == UNCHANGED <<revivals, lost, inflight>>
<1>1. UNCHANGED vars \/ (\E q \in Posts : Write(q)) => Same
  BY DEF Write
<1>2. Handle \/ Acknowledge \/ DeadlinePasses => Same
  BY DEF Handle, Acknowledge, DeadlinePasses
<1>3. ASSUME NEW w \in Workers, UseTool(w) PROVE Same
  BY <1>3 DEF UseTool, ShowLateReplies, AskTeam, AskUser, SubmitPlan
<1>4. ASSUME NEW w \in Workers, RunStep(w) PROVE Same
  BY <1>3, <1>4 DEF RunStep, Enter, RunCrashes, Record, Ask, Await, SavePlan, SetReady, EndWithoutPlan
<1>5. FlushIdle \/ FindOverdue \/ Coalesce => Same
  BY DEF FlushIdle, FindOverdue, Coalesce, Merge, Flush, ClearAndResume, ConsentBySilence, PingLead, GiveUp
<1>6. ASSUME NEW q \in Posts, Append(q) PROVE UNCHANGED <<revivals, lost>>
  BY <1>6 DEF Append
<1>7. ASSUME NEW q \in Posts, AppendFails(q)
      PROVE  revivals' = revivals /\ Lose({q}) /\ inflight' = inflight \ {q} /\ {q} \in SUBSET inflight
  BY <1>7 DEF AppendFails
<1>8. ASSUME Crash
      PROVE  revivals' = revivals /\ Lose(inflight) /\ inflight' = inflight \ inflight
  BY <1>8 DEF Crash
<1>. QED
  BY <1>1, <1>2, <1>4, <1>5, <1>6, <1>7, <1>8 DEF Next

LEMMA NextRevivals == ASSUME IInv, [Next]_vars PROVE RevivalsAreEarned'
<1>0. TypeOK /\ ThreadInv /\ ThreadInv'
  BY NextThreadInv DEF IInv
<1>1. IsFiniteSet(TakenIn) /\ IsFiniteSet(TakenIn')
  <2>1. TakenIn \subseteq written /\ TakenIn' \subseteq written'
    BY <1>0 DEF TakenIn, ThreadInv
  <2>. QED
    BY <1>0, <2>1, FS_Subset DEF ThreadInv
<1>2. /\ Cardinality(TakenIn) \in Nat /\ Cardinality(TakenIn') \in Nat
      /\ revivals \in Nat /\ lost \in Nat
  BY <1>0, <1>1, FS_CardinalityType DEF TypeOK
<1>3. revivals <= Cardinality(TakenIn) + lost
  BY DEF IInv, RevivalsAreEarned, TakenIn
<1>4. SUFFICES revivals' <= Cardinality(TakenIn') + lost'
  BY DEF RevivalsAreEarned, TakenIn
<1>5. \A p \in TeamPosts : fragment[p] # "none" => fragment'[p] # "none"
  BY <1>0, LogGrows DEF Posts
<1>6. ASSUME TakenIn \subseteq TakenIn', UNCHANGED <<revivals, lost>>
      PROVE  revivals' <= Cardinality(TakenIn') + lost'
  <2>1. Cardinality(TakenIn) <= Cardinality(TakenIn')
    BY <1>1, <1>6, FS_Subset
  <2>. QED
    BY <1>2, <1>3, <1>6, <2>1
<1>7. CASE UNCHANGED <<revivals, lost>> /\ inflight \subseteq inflight'
  BY <1>5, <1>6, <1>7 DEF TakenIn
<1>8. CASE UNCHANGED <<revivals, lost>> /\ \E p \in Posts : Append(p)
  <2>1. PICK p \in Posts : Append(p)
    BY <1>8
  <2>2. inflight' = inflight \ {p} /\ fragment'[p] # "none"
    BY <1>0, <2>1 DEF Append, AppendFragment, TypeOK
  <2>. QED
    BY <1>5, <1>6, <1>8, <2>2 DEF TakenIn
<1>9. ASSUME NEW p \in Posts, Dispatch(p)
      PROVE  revivals' <= Cardinality(TakenIn') + lost'
  <2>1. /\ inflight' = inflight \cup {p} /\ fragment' = fragment /\ lost' = lost
        /\ fragment[p] = "none" /\ p \notin inflight
    BY <1>9 DEF Dispatch, New
  <2>2. CASE p \in TeamPosts
    <3>1. TakenIn' = TakenIn \cup {p} /\ p \notin TakenIn
      BY <2>1, <2>2 DEF TakenIn
    <3>2. Cardinality(TakenIn') = Cardinality(TakenIn) + 1
      BY <1>1, <3>1, FS_AddElement
    <3>3. revivals' = revivals \/ revivals' = revivals + 1
      BY <1>9 DEF Dispatch, ReviveStuck
    <3>. QED
      BY <1>2, <1>3, <2>1, <3>2, <3>3
  <2>3. CASE p \notin TeamPosts
    <3>1. TakenIn \subseteq TakenIn' /\ UNCHANGED <<revivals, lost>>
      BY <1>9, <2>1, <2>3 DEF TakenIn, Dispatch
    <3>. QED
      BY <1>6, <3>1
  <2>. QED
    BY <2>2, <2>3
<1>10. ASSUME NEW posts \in SUBSET inflight, revivals' = revivals, Lose(posts), inflight' = inflight \ posts
       PROVE  revivals' <= Cardinality(TakenIn') + lost'
  <2>. DEFINE gone == posts \cap TeamPosts
  <2>1. gone \subseteq TakenIn /\ TakenIn \subseteq TakenIn' \cup gone
    BY <1>5, <1>10 DEF TakenIn
  <2>2. IsFiniteSet(gone) /\ Cardinality(gone) \in Nat
    BY <1>1, <2>1, FS_Subset, FS_CardinalityType
  <2>3. /\ IsFiniteSet(TakenIn' \cup gone)
        /\ Cardinality(TakenIn' \cup gone) =
             Cardinality(TakenIn') + Cardinality(gone) - Cardinality(TakenIn' \cap gone)
        /\ Cardinality(TakenIn' \cap gone) \in Nat
    BY <1>1, <2>2, FS_Union, FS_Intersection, FS_CardinalityType
  <2>4. Cardinality(TakenIn) <= Cardinality(TakenIn' \cup gone)
    BY <2>1, <2>3, FS_Subset
  <2>5. lost' = lost + Cardinality(gone)
    BY <1>10 DEF Lose
  <2>. HIDE DEF gone
  <2>. QED
    BY <1>2, <1>3, <1>10, <2>2, <2>3, <2>4, <2>5
<1>. QED
  BY <1>0, <1>7, <1>8, <1>9, <1>10, RevivalsMove
-----------------------------------------------------------------------------
(* The budget                                                              *)

\* Faults are not undone, and the handler's message does not come back.
LEMMA InboxMoves ==
    ASSUME IInv, [Next]_vars
    PROVE  /\ faults' = faults \/ faults' = faults + 1
           /\ queued' => queued
           /\ Crash \/ (run'["inbox"].pc = "idle" => run["inbox"].pc = "idle" \/ ~queued')
           /\ Crash \/ (run'["inbox"].pc = "enter" =>
                          (Handle /\ run'["inbox"].spent = (steps >= MaxSteps))
                          \/ run'["inbox"] = run["inbox"])
           /\ Crash \/ (run["inbox"].pc = "done" /\ queued' => run'["inbox"].pc = "done")
<1>. USE DEF vars, rowVars, logVars, threadVars, chatVars, obsVars
<1>0. TypeOK /\ PlaceInv /\ "inbox" \in Workers
  BY DEF IInv, Workers
<1>1. faults' = faults \/ faults' = faults + 1
  <2>1. UNCHANGED vars \/ (\E q \in Posts : Write(q) \/ Dispatch(q) \/ Append(q)) => faults' = faults
    BY DEF Write, Dispatch, Append
  <2>2. Handle \/ Acknowledge \/ DeadlinePasses => faults' = faults
    BY DEF Handle, Acknowledge, DeadlinePasses
  <2>3. ASSUME NEW w \in Workers, UseTool(w) PROVE faults' = faults
    BY <2>3 DEF UseTool, ShowLateReplies, AskTeam, AskUser, SubmitPlan
  <2>4. ASSUME NEW w \in Workers, RunStep(w) PROVE faults' = faults
    BY <2>3, <2>4 DEF RunStep, Enter, RunCrashes, Record, Ask, Await, SavePlan, SetReady, EndWithoutPlan
  <2>5. FlushIdle \/ FindOverdue \/ Coalesce => faults' = faults
    BY DEF FlushIdle, FindOverdue, Coalesce, Merge, Flush, ClearAndResume, ConsentBySilence, PingLead, GiveUp
  <2>. QED
    BY <2>1, <2>2, <2>4, <2>5 DEF Next, AppendFails, Crash
<1>. DEFINE Moves == /\ queued' => queued
                     /\ run'["inbox"].pc = "idle" => run["inbox"].pc = "idle" \/ ~queued'
                     /\ run'["inbox"].pc = "enter" =>
                          (Handle /\ run'["inbox"].spent = (steps >= MaxSteps))
                          \/ run'["inbox"] = run["inbox"]
                     /\ run["inbox"].pc = "done" /\ queued' => run'["inbox"].pc = "done"
<1>9. ASSUME run'["inbox"] = run["inbox"], queued' <=> queued PROVE Moves
  BY Zenon, <1>9
<1>2. ASSUME NEW w \in Workers, RunStep(w) PROVE Moves
  BY <1>0, <1>2, RunPlaces DEF Kept, Outcomes
<1>3. CASE FlushIdle \/ FindOverdue \/ Coalesce
  <2>1. run'["inbox"] = run["inbox"] /\ (queued' <=> queued)
    BY <1>0, <1>3, CoalescerPlaces DEF Kept
  <2>. QED
    BY <1>1, <1>9, <2>1
<1>4. CASE Handle
  BY <1>0, <1>4, RunOver DEF Handle
<1>5. CASE Acknowledge
  BY <1>0, <1>5, RunOver, IdleIsRun DEF Acknowledge
<1>6. CASE UNCHANGED <<run, queued>>
  BY <1>1, <1>6, <1>9
<1>7. CASE Crash
  BY <1>1, <1>7, <1>0, IdleIsRun DEF Crash
<1>8. CASE Moves
  BY <1>1, <1>8
<1>. QED
  BY <1>2, <1>3, <1>4, <1>5, <1>6, <1>7, <1>8, OtherPlaces

LEMMA CoalescerEnters ==
    ASSUME IInv, [Next]_vars, run'["coalescer"].pc = "enter"
    PROVE  \/ run'["coalescer"] = Coalescer
           \/ run'["coalescer"].spent = (steps >= MaxSteps) /\ Coalesce
<1>0. TypeOK /\ "coalescer" \in Workers /\ "coalescer" # "inbox"
  BY DEF IInv, Workers
<1>1. CASE FlushIdle
  BY <1>0, <1>1, IdleIsRun DEF FlushIdle, TypeOK, Runs
<1>2. CASE FindOverdue
  BY <1>0, <1>2, IdleIsRun DEF FindOverdue, TypeOK, Runs
<1>3. CASE Merge
  BY <1>0, <1>3, RunGoesOn DEF Merge, Coalescer
<1>4. CASE Flush
  BY <1>0, <1>4, RunGoesOn, RunOver, IdleIsRun DEF Flush, Coalescer
<1>5. CASE ClearAndResume \/ ConsentBySilence
  <2>1. End("coalescer") \/ \E row : Resume("coalescer", row)
    BY <1>5 DEF ClearAndResume, ConsentBySilence
  <2>2. run'["coalescer"].spent = (steps >= MaxSteps)
    BY <1>0, <2>1, RunOver, IdleIsRun
  <2>. QED
    BY <1>5, <2>2 DEF Coalesce
<1>6. CASE PingLead \/ GiveUp
  BY <1>0, <1>6, RunOver, IdleIsRun DEF PingLead, GiveUp
<1>7. ASSUME NEW w \in Workers, RunStep(w) PROVE run'["coalescer"] = Coalescer
  BY <1>0, <1>7, RunPlaces DEF Kept, Coalescer, Outcomes
<1>8. CASE Handle \/ Acknowledge
  BY <1>0, <1>8, InboxPlaces DEF Kept, Coalescer
<1>9. CASE Crash
  BY <1>0, <1>9, IdleIsRun DEF Crash
<1>10. CASE UNCHANGED <<run, queued>>
  BY <1>10 DEF Coalescer
<1>. QED
  BY <1>1, <1>2, <1>3, <1>4, <1>5, <1>6, <1>7, <1>8, <1>9, <1>10, OtherPlaces DEF Coalesce

\* A run counts a step, a revival counts anew.
LEMMA CountsMove ==
    ASSUME [Next]_vars
    PROVE  \/ UNCHANGED <<runs, steps, revivals>>
           \/ \E w \in Workers : /\ Enter(w) /\ StartRun(w) /\ ~run[w].spent
                                 /\ UNCHANGED <<revivals, faults>>
           \/ /\ \E p \in Posts : Dispatch(p)
              /\ steps' = 0 /\ revivals' = revivals + 1 /\ UNCHANGED <<runs, run, queued, faults>>
<1>. USE DEF vars, rowVars, logVars, threadVars, chatVars, obsVars
<1>. DEFINE Same == UNCHANGED <<runs, steps, revivals>>
<1>1. UNCHANGED vars \/ (\E q \in Posts : Write(q) \/ Append(q) \/ AppendFails(q)) => Same
  BY DEF Write, Append, AppendFails
<1>2. ASSUME NEW p \in Posts, Dispatch(p)
      PROVE  Same \/ (steps' = 0 /\ revivals' = revivals + 1 /\ UNCHANGED <<runs, run, queued, faults>>)
  BY <1>2 DEF Dispatch, ReviveStuck
<1>3. Handle \/ Acknowledge \/ DeadlinePasses \/ Crash => Same
  BY DEF Handle, Acknowledge, DeadlinePasses, Crash
<1>4. ASSUME NEW w \in Workers, UseTool(w) PROVE Same
  BY <1>4 DEF UseTool, ShowLateReplies, AskTeam, AskUser, SubmitPlan
<1>5. ASSUME NEW w \in Workers, Enter(w)
      PROVE  Same \/ (StartRun(w) /\ ~run[w].spent /\ UNCHANGED <<revivals, faults>>)
  BY <1>5 DEF Enter, Terminate
<1>6. ASSUME NEW w \in Workers, RunStep(w), ~Enter(w) PROVE Same
  BY <1>4, <1>6 DEF RunStep, RunCrashes, Record, Ask, Await, SavePlan, SetReady, EndWithoutPlan, Terminate
<1>7. FlushIdle \/ FindOverdue \/ Coalesce => Same
  BY DEF FlushIdle, FindOverdue, Coalesce, Merge, Flush, ClearAndResume, ConsentBySilence, PingLead,
     GiveUp, Terminate
<1>. QED
  BY <1>1, <1>2, <1>3, <1>5, <1>6, <1>7 DEF Next

\* Before the first fault only the handler runs, until it is through.
First == faults = 0 /\ queued /\ run["inbox"].pc # "done"

LEMMA FirstSteps ==
    ASSUME IInv, [Next]_vars, First
    PROVE  \/ UNCHANGED <<run, deadline, steps, waits>> /\ status' = status
           \/ Handle \/ Crash
           \/ RunStep("inbox")
<1>. USE DEF vars, rowVars, logVars, threadVars, chatVars, obsVars
<1>0. /\ waits = "nobody" /\ deadline # "due" /\ status \in {"DISCOVERED", "PLANNING"}
      /\ run["coalescer"].pc = "idle"
      /\ run["inbox"].pc \in {"idle", "enter"} => deadline = "none"
  BY DEF IInv, First, FirstInv
<1>1. ~(FlushIdle \/ FindOverdue \/ Coalesce)
  BY <1>0 DEF FlushIdle, FindOverdue, Coalesce, Merge, Flush, ClearAndResume, ConsentBySilence, PingLead,
     GiveUp, Coalescer
<1>2. \A w \in Workers : RunStep(w) => w = "inbox"
  BY <1>0, RunPlaces DEF IInv, Workers, Outcomes
<1>3. ~DeadlinePasses
  <2>1. run["inbox"].pc \in PCs /\ "inbox" \in Workers
    BY DEF IInv, TypeOK, Runs, Workers
  <2>. QED
    BY <1>0, <2>1 DEF DeadlinePasses, IInv, PlaceInv, PCs
<1>4. ~Acknowledge
  BY DEF First, Acknowledge
<1>5. (\E q \in Posts : Write(q) \/ Dispatch(q) \/ Append(q) \/ AppendFails(q))
        => UNCHANGED <<run, deadline, steps, waits>> /\ status' = status
  BY <1>0 DEF Write, Dispatch, ReviveStuck, Append, AppendFails
<1>. QED
  BY <1>1, <1>2, <1>3, <1>4, <1>5 DEF Next

LEMMA FirstRunStep ==
    ASSUME IInv, First, RunStep("inbox"), run'["inbox"].pc # "done"
    PROVE  /\ waits' = waits /\ deadline' \in {deadline, "set"} /\ status' = status
           /\ run'["inbox"].pc \notin {"idle", "enter"}
<1>. USE DEF rowVars, logVars, threadVars, chatVars, obsVars
<1>0. TypeOK /\ "inbox" \in Workers
  BY DEF IInv, Workers
<1>1. run'["inbox"].pc \notin {"idle", "enter"}
  BY <1>0, RunPlaces DEF Outcomes
<1>2. ~Finish("inbox")
  BY <1>0, RunOver
<1>3. CASE Enter("inbox")
  BY <1>1, <1>2, <1>3 DEF Enter, StartRun
<1>4. CASE UseTool("inbox")
  BY <1>1, <1>4 DEF UseTool, ShowLateReplies, AskTeam, AskUser, SubmitPlan
<1>5. CASE Record("inbox") \/ Ask("inbox") \/ SavePlan("inbox")
  BY <1>1, <1>5 DEF Record, Ask, SavePlan
<1>6. CASE RunCrashes("inbox") \/ Await("inbox") \/ SetReady("inbox") \/ EndWithoutPlan("inbox")
  BY <1>2, <1>6 DEF RunCrashes, Await, SetReady, EndWithoutPlan
<1>. QED
  BY <1>1, <1>3, <1>4, <1>5, <1>6 DEF RunStep

LEMMA NextFirstInv == ASSUME IInv, [Next]_vars PROVE FirstInv'
<1>0. TypeOK /\ FirstInv /\ "inbox" \in Workers /\ "coalescer" \in Workers
  BY DEF IInv, Workers
<1>1. run'["inbox"].pc # "idle" => queued'
  <2>1. CASE Handle \/ Acknowledge \/ Crash
    BY <1>0, <2>1, RunOver, IdleIsRun DEF Handle, Acknowledge, Crash, FirstInv
  <2>2. CASE FlushIdle \/ FindOverdue \/ Coalesce
    BY <1>0, <2>2, CoalescerPlaces DEF Kept, FirstInv
  <2>3. ASSUME NEW w \in Workers, RunStep(w) PROVE run'["inbox"].pc # "idle" => queued'
    <3>1. queued' <=> queued
      BY <1>0, <2>3, RunPlaces
    <3>2. run["inbox"].pc = "idle" => run'["inbox"].pc = "idle"
      BY <1>0, <2>3, RunPlaces DEF Kept, Outcomes
    <3>. QED
      BY <1>0, <3>1, <3>2 DEF FirstInv
  <2>4. CASE UNCHANGED <<run, queued>>
    BY <1>0, <2>4 DEF FirstInv
  <2>. QED
    BY <2>1, <2>2, <2>3, <2>4, OtherPlaces
<1>2. faults' = 0 => faults = 0 /\ ~Crash
  BY <1>0, InboxMoves DEF TypeOK, Crash
<1>3. faults' = 0 /\ queued' /\ run'["inbox"].pc # "done" => First
  BY <1>2, InboxMoves DEF First
<1>4. ASSUME faults' = 0, queued', run'["inbox"].pc # "done"
      PROVE  /\ waits' = "nobody" /\ deadline' # "due" /\ status' \in {"DISCOVERED", "PLANNING"}
             /\ run'["coalescer"].pc = "idle"
             /\ run'["inbox"].pc \in {"idle", "enter"} => deadline' = "none" /\ steps' = 0
  <2>1. /\ First /\ waits = "nobody" /\ deadline # "due" /\ status \in {"DISCOVERED", "PLANNING"}
        /\ run["coalescer"].pc = "idle"
        /\ run["inbox"].pc \in {"idle", "enter"} => deadline = "none" /\ steps = 0
    BY <1>0, <1>3, <1>4 DEF First, FirstInv
  <2>2. CASE UNCHANGED <<run, deadline, steps, waits>> /\ status' = status
    BY <2>1, <2>2
  <2>3. CASE Handle
    <3>1. run'["coalescer"] = run["coalescer"]
      BY <1>0, <2>3, InboxPlaces DEF Kept, Workers
    <3>. QED
      BY <2>1, <2>3, <3>1 DEF Handle
  <2>4. CASE RunStep("inbox")
    <3>1. run'["coalescer"] = run["coalescer"]
      BY <1>0, <2>4, RunPlaces DEF Kept, Workers
    <3>. QED
      BY <1>4, <2>1, <2>4, <3>1, FirstRunStep
  <2>. QED
    BY <1>2, <1>4, <2>1, <2>2, <2>3, <2>4, FirstSteps
<1>5. ASSUME faults' = 0, run'["inbox"].pc = "enter" PROVE ~run'["inbox"].spent
  <2>1. faults = 0 /\ ~Crash
    BY <1>2, <1>5
  <2>2. CASE run'["inbox"] = run["inbox"]
    BY <1>0, <1>5, <2>1, <2>2 DEF FirstInv
  <2>3. CASE Handle /\ run'["inbox"].spent = (steps >= MaxSteps)
    <3>1. steps = 0
      BY <1>0, <2>1, <2>3 DEF Handle, FirstInv
    <3>2. ~(steps >= MaxSteps)
      BY <3>1, SessionAssumption
    <3>. QED
      BY Zenon, <2>3, <3>2
  <2>. QED
    BY <1>5, <2>1, <2>2, <2>3, InboxMoves
<1>. QED
  BY <1>1, <1>4, <1>5 DEF FirstInv
LEMMA EarnedSteps ==
    /\ \A n \in Nat : Earned(n) \in Nat /\ Earned(n + 1) = Earned(n) + MaxSteps
    /\ MaxSteps \in Nat /\ MaxSteps > 0
<1>1. MaxSteps \in Nat /\ MaxSteps > 0
  BY SessionAssumption
<1>2. ASSUME NEW n \in Nat PROVE Earned(n) \in Nat /\ Earned(n + 1) = Earned(n) + MaxSteps
  BY <1>1 DEF Earned
<1>. QED
  BY <1>1, <1>2

\* The handler that has its step to start had it to start before.
LEMMA RerunMoves ==
    ASSUME IInv, [Next]_vars, ~Crash
    PROVE  /\ Rerun' => Rerun
           /\ Entering("coalescer")' => Entering("coalescer") \/ (~(steps >= MaxSteps) /\ Coalesce)
           /\ \A w \in Workers : RunStep(w) =>
                /\ ~(Entering(w)')
                /\ w = "inbox" => ~Rerun'
                /\ w = "inbox" /\ run["inbox"].pc = "enter" => Rerun
<1>0. TypeOK /\ FirstInv /\ PlaceInv /\ "inbox" \in Workers /\ "coalescer" \in Workers
  BY DEF IInv, Workers
<1>1. Rerun' => Rerun
  <2>. SUFFICES ASSUME queued', run'["inbox"].pc \in {"idle", "enter"}
                PROVE  run["inbox"].pc \in {"idle", "enter"} /\ queued
    BY DEF Rerun
  <2>. QED
    BY InboxMoves DEF Handle
<1>2. Entering("coalescer")' => Entering("coalescer") \/ (~(steps >= MaxSteps) /\ Coalesce)
  <2>. SUFFICES ASSUME run'["coalescer"].pc = "enter", ~run'["coalescer"].spent
                PROVE  Entering("coalescer") \/ (~(steps >= MaxSteps) /\ Coalesce)
    BY DEF Entering
  <2>1. CASE run'["coalescer"] = Coalescer
    BY <2>1 DEF Entering, Coalescer
  <2>2. CASE run'["coalescer"].spent = (steps >= MaxSteps) /\ Coalesce
    BY Zenon, <2>2
  <2>. QED
    BY <2>1, <2>2, CoalescerEnters
<1>3. ASSUME NEW w \in Workers, RunStep(w)
      PROVE  /\ ~(Entering(w)')
             /\ w = "inbox" => ~Rerun'
             /\ w = "inbox" /\ run["inbox"].pc = "enter" => Rerun
  <2>1. run'[w].pc # "enter" /\ (w = "inbox" => run'[w].pc # "idle")
    BY <1>0, <1>3, RunPlaces DEF Outcomes
  <2>2. run["inbox"].pc = "enter" => Rerun
    BY <1>0 DEF FirstInv, Rerun
  <2>. QED
    BY <2>1, <2>2 DEF Entering, Rerun
<1>. QED
  BY <1>1, <1>2, <1>3

LEMMA OverrunsAreFaults ==
    ASSUME TypeOK
    PROVE  Overruns \in Nat /\ Overruns <= faults
<1>1. faults \in Nat
  BY DEF TypeOK
<1>2. Reserve \in {0, 1}
  BY DEF Reserve
<1>3. CASE faults = 0
  BY <1>3 DEF Overruns
<1>4. CASE faults # 0
  <2>1. Overruns = faults - Reserve
    BY <1>4 DEF Overruns
  <2>. QED
    BY <1>1, <1>2, <1>4, <2>1
<1>. QED
  BY <1>3, <1>4

\* Whatever does not count a run uses up nothing of the reserve.
LEMMA OverrunsGrow ==
    ASSUME IInv, [Next]_vars, steps' \in Nat, steps' <= steps
    PROVE  /\ Overruns' >= Overruns /\ Overruns \in Nat /\ Overruns' \in Nat
           /\ Entering("coalescer")' /\ steps' >= MaxSteps => ~Rerun'
<1>0. TypeOK /\ BudgetInv /\ MaxSteps \in Nat /\ steps \in Nat /\ faults \in Nat
  BY EarnedSteps DEF IInv, TypeOK
<1>1. Reserve \in {0, 1} /\ Reserve' \in {0, 1}
  BY DEF Reserve
<1>2. faults' = faults \/ faults' = faults + 1
  BY InboxMoves
<1>3. CASE Crash
  <2>1. faults' = faults + 1 /\ run'["coalescer"] = Idle
    BY <1>3 DEF Crash, Workers
  <2>2. ~(Entering("coalescer")')
    BY <2>1, IdleIsRun DEF Entering
  <2>3. Overruns' = IF faults' = 0 THEN 0 ELSE faults' - Reserve'
    BY DEF Overruns
  <2>4. Overruns' >= Overruns /\ Overruns \in Nat /\ Overruns' \in Nat
    <3>1. Overruns = IF faults = 0 THEN 0 ELSE faults - Reserve
      BY DEF Overruns
    <3>2. CASE faults = 0
      <4>1. Overruns' = 1 - Reserve' /\ Overruns = 0
        BY <2>1, <2>3, <3>1, <3>2
      <4>2. Reserve' = 0 \/ Reserve' = 1
        BY <1>1
      <4>3. Overruns' \in Nat
        BY <4>1, <4>2
      <4>4. Overruns \in Nat
        BY <4>1
      <4>5. Overruns' >= Overruns
        BY <4>1, <4>3
      <4>. QED
        BY <4>3, <4>4, <4>5
    <3>3. CASE faults # 0
      <4>1. Overruns' = (faults + 1) - Reserve' /\ Overruns = faults - Reserve
        BY <1>0, <2>1, <2>3, <3>1, <3>3
      <4>2. Reserve = 0 \/ Reserve = 1
        BY <1>1
      <4>3. Reserve' = 0 \/ Reserve' = 1
        BY <1>1
      <4>4. Overruns' >= Overruns
        BY <1>0, <4>1, <4>2, <4>3
      <4>5. Overruns \in Nat
        BY <1>0, <3>3, <4>1, <4>2
      <4>6. Overruns' \in Nat
        BY <1>0, <4>1, <4>3
      <4>. QED
        BY <4>4, <4>5, <4>6
    <3>. QED
      BY <3>2, <3>3
  <2>. QED
    BY <2>2, <2>4
<1>4. CASE ~Crash
  <2>1. Entering("coalescer")' /\ steps' >= MaxSteps => Entering("coalescer") /\ steps >= MaxSteps
    BY <1>0, <1>4, RerunMoves
  <2>2. Rerun' => Rerun
    BY <1>4, RerunMoves
  <2>3. Reserve' <= Reserve
    BY <1>1, <2>1, <2>2 DEF Reserve
  <2>4. Overruns' >= Overruns /\ Overruns \in Nat /\ Overruns' \in Nat
    BY <1>0, <1>1, <1>2, <2>3 DEF Overruns
  <2>. QED
    BY <1>0, <2>1, <2>2, <2>4 DEF BudgetInv
<1>. QED
  BY <1>3, <1>4
\* A run that counts a step, and one more overrun of it at most.
LEMMA OneMore ==
    ASSUME NEW r \in Nat, NEW e \in Nat, NEW m \in Nat, NEW s \in Nat, NEW o \in Nat, NEW u \in Nat,
           r <= e + s + o, r <= e + m + o, s <= m + o, (s < m /\ o <= u) \/ u = o + 1
    PROVE  r + 1 <= e + (s + 1) + u /\ r + 1 <= e + m + u /\ s + 1 <= m + u
<1>1. CASE s < m /\ o <= u
  BY <1>1
<1>2. CASE u = o + 1
  BY <1>2
<1>. QED
  BY <1>1, <1>2

LEMMA Less ==
    /\ \A a, b, c, d \in Nat : a <= b + c /\ c <= d => a <= b + d
    /\ \A a, b, c \in Nat : b <= c => a - c <= a - b
    /\ \A a, b \in Nat : 0 <= a + b
OBVIOUS

LEMMA NextBudgetInv == ASSUME IInv, [Next]_vars PROVE BudgetInv' /\ steps' <= MaxSteps + faults'
<1>0. TypeOK /\ BudgetInv /\ FirstInv /\ FirstInv'
  BY NextFirstInv DEF IInv
<1>n. /\ MaxSteps \in Nat /\ steps \in Nat /\ faults \in Nat
      /\ runs \in Nat /\ revivals \in Nat
  BY EarnedSteps DEF IInv, TypeOK
<1>e. /\ Earned(revivals) \in Nat /\ Earned(revivals + 1) \in Nat
      /\ Earned(revivals + 1) = Earned(revivals) + MaxSteps
      /\ Earned((revivals + 1) + 1) = Earned(revivals + 1) + MaxSteps
  <2>1. revivals + 1 \in Nat
    BY <1>n
  <2>. QED
    BY <1>n, <2>1, EarnedSteps
<1>1. /\ runs <= Earned(revivals) + steps + Overruns
      /\ runs <= Earned(revivals + 1) + Overruns
      /\ steps <= MaxSteps + Overruns
      /\ Entering("coalescer") /\ steps >= MaxSteps => ~Rerun
      /\ faults = 0 /\ Entering("coalescer") => steps < MaxSteps
  BY <1>0, <1>n DEF BudgetInv
<1>2. /\ faults' \in Nat /\ (faults' = faults \/ faults' = faults + 1)
      /\ Overruns \in Nat /\ Overruns' \in Nat /\ Overruns' <= faults'
  <2>1. faults' \in Nat /\ (faults' = faults \/ faults' = faults + 1)
    BY <1>0, <1>n, InboxMoves
  <2>2. Overruns' = IF faults' = 0 THEN 0 ELSE faults' - Reserve'
    BY DEF Overruns
  <2>3. Reserve' = 0 \/ Reserve' = 1
    BY DEF Reserve
  <2>4. CASE faults' = 0
    BY <1>0, <1>n, <2>1, <2>2, <2>4, OverrunsAreFaults
  <2>5. CASE faults' # 0
    <3>1. Overruns' = faults' - Reserve'
      BY <2>2, <2>5
    <3>2. Overruns' \in Nat
      BY <2>1, <2>3, <2>5, <3>1
    <3>3. Overruns' <= faults'
      BY <2>1, <2>3, <3>1
    <3>. QED
      BY <1>0, <1>n, <2>1, <3>2, <3>3, OverrunsAreFaults
  <2>. QED
    BY <2>4, <2>5
<1>3. SUFFICES BudgetInv'
  <2>. SUFFICES ASSUME BudgetInv' PROVE steps' <= MaxSteps + faults'
    OBVIOUS
  <2>1. steps' <= MaxSteps + Overruns'
    BY DEF BudgetInv
  <2>2. steps' \in Nat
    BY <1>0, <1>n, CountsMove DEF StartRun
  <2>. QED
    BY <1>n, <1>2, <2>1, <2>2, Less
<1>4. faults' = 0 => faults = 0 /\ ~Crash
  BY <1>0, <1>n, <1>2 DEF Crash
<1>5. CASE UNCHANGED <<runs, steps, revivals>>
  <2>1. /\ Overruns' >= Overruns /\ Overruns \in Nat /\ Overruns' \in Nat
        /\ Entering("coalescer")' /\ steps' >= MaxSteps => ~Rerun'
    BY <1>0, <1>n, <1>5, OverrunsGrow
  <2>5. Overruns \in Nat /\ Overruns' \in Nat /\ Overruns <= Overruns'
    BY <2>1
  <2>2. Earned(revivals') = Earned(revivals) /\ Earned(revivals' + 1) = Earned(revivals + 1)
    BY <1>5
  <2>3. runs' <= Earned(revivals') + steps' + Overruns' /\ runs' <= Earned(revivals' + 1) + Overruns'
        /\ steps' <= MaxSteps + Overruns'
    <3>1. Earned(revivals) \in Nat /\ Earned(revivals + 1) \in Nat
      BY <1>e
    <3>2. runs <= Earned(revivals) + steps + Overruns'
      BY <1>n, <1>1, <2>1, <3>1
    <3>3. runs <= Earned(revivals + 1) + Overruns'
      BY <1>n, <1>1, <2>1, <3>1
    <3>4. steps <= MaxSteps + Overruns'
      BY <1>n, <1>1, <2>5, Less
    <3>. QED
      BY <1>5, <2>2, <3>2, <3>3, <3>4
  <2>4. faults' = 0 /\ Entering("coalescer")' => steps' < MaxSteps
    BY <1>0, <1>n, <1>1, <1>4, <1>5, RerunMoves
  <2>. QED
    BY <2>1, <2>3, <2>4 DEF BudgetInv, Earned
<1>6. CASE /\ \E p \in Posts : Dispatch(p)
           /\ steps' = 0 /\ revivals' = revivals + 1 /\ UNCHANGED <<runs, run, queued, faults>>
  <2>1. /\ Overruns' >= Overruns /\ Overruns \in Nat /\ Overruns' \in Nat
        /\ Entering("coalescer")' /\ steps' >= MaxSteps => ~Rerun'
    BY <1>0, <1>n, <1>6, OverrunsGrow
  <2>2. Earned(revivals') = Earned(revivals + 1) /\ Earned(revivals' + 1) = Earned(revivals + 1) + MaxSteps
    BY <1>6, <1>e
  <2>3. runs' <= Earned(revivals') + steps' + Overruns' /\ runs' <= Earned(revivals' + 1) + Overruns'
        /\ steps' <= MaxSteps + Overruns'
    <3>1. Earned(revivals + 1) \in Nat
      BY <1>e
    <3>2. runs <= Earned(revivals + 1) + 0 + Overruns'
      BY <1>n, <1>1, <2>1, <3>1
    <3>3. runs <= Earned(revivals + 1) + MaxSteps + Overruns'
      BY <1>n, <1>1, <2>1, <3>1
    <3>4. 0 <= MaxSteps + Overruns'
      <4>1. MaxSteps \in Nat /\ Overruns' \in Nat
        BY <1>n, <2>1
      <4>. QED
        BY <4>1, Less
    <3>. QED
      BY <1>6, <2>2, <3>2, <3>3, <3>4
  <2>4. steps' < MaxSteps
    BY <1>6, EarnedSteps
  <2>. QED
    BY <2>1, <2>3, <2>4 DEF BudgetInv, Earned
<1>7. ASSUME NEW w \in Workers, Enter(w), StartRun(w), ~run[w].spent, UNCHANGED <<revivals, faults>>
      PROVE  BudgetInv'
  <2>0. /\ RunStep(w) /\ ~Crash /\ Entering(w) /\ steps' = steps + 1 /\ runs' = runs + 1
        /\ Kept(w)
    <3>1. RunStep(w) /\ Entering(w) /\ steps' = steps + 1 /\ runs' = runs + 1
      BY <1>7 DEF RunStep, StartRun, Entering, Enter
    <3>2. ~Crash
      BY <1>0, <1>n, <1>7 DEF Crash
    <3>3. Kept(w)
      BY <1>0, <1>n, <1>7, RunGoesOn
    <3>. QED
      BY <3>1, <3>2, <3>3
  <2>1. ~(Entering(w)') /\ (w = "inbox" => Rerun /\ ~Rerun')
    BY <1>0, <1>n, <1>7, <2>0, RerunMoves DEF Enter
  <2>2. w = "inbox" => (Entering("coalescer")' <=> Entering("coalescer"))
    BY <2>0 DEF Kept, Entering, Workers
  <2>3. Rerun' => Rerun
    BY <2>0, RerunMoves
  <2>4. w \in {"inbox", "coalescer"}
    BY DEF Workers
  <2>5. CASE faults = 0
    <3>1. steps < MaxSteps
      <4>1. CASE w = "inbox"
        <5>1. steps = 0
          BY <1>0, <2>0, <2>1, <2>5, <4>1 DEF FirstInv, Entering, Rerun
        <5>. QED
          BY <5>1, EarnedSteps
      <4>2. CASE w = "coalescer"
        BY <1>1, <2>0, <2>5, <4>2
      <4>. QED
        BY <2>4, <4>1, <4>2
    <3>2. ~(Entering("coalescer")')
      <4>1. w = "inbox" => run["coalescer"].pc = "idle"
        BY <1>0, <1>n, <2>0, <2>1, <2>5 DEF FirstInv, Entering, Rerun
      <4>. QED
        BY <2>1, <2>2, <2>4, <4>1 DEF Entering
    <3>3. Overruns = 0 /\ Overruns' = 0
      BY <1>7, <2>5 DEF Overruns
    <3>4. runs' <= Earned(revivals) + steps' + Overruns' /\ runs' <= Earned(revivals + 1) + Overruns'
          /\ steps' <= MaxSteps + Overruns'
      BY <1>n, <1>1, <1>2, <1>e, <2>0, <3>1, <3>3, OneMore
    <3>. QED
      BY <1>7, <3>2, <3>4 DEF BudgetInv, Earned
  <2>6. CASE faults # 0 /\ steps < MaxSteps
    <3>1. Entering("coalescer")' => w = "inbox"
      BY <2>1, <2>4
    <3>2. Reserve' <= Reserve /\ Reserve \in {0, 1} /\ Reserve' \in {0, 1}
      BY <2>1, <2>2, <2>3, <3>1 DEF Reserve
    <3>3. Overruns' >= Overruns
      <4>1. Overruns' = faults - Reserve' /\ Overruns = faults - Reserve
        BY <1>7, <2>6 DEF Overruns
      <4>. QED
        BY <1>n, <3>2, <4>1, Less
    <3>4. runs' <= Earned(revivals) + steps' + Overruns' /\ runs' <= Earned(revivals + 1) + Overruns'
          /\ steps' <= MaxSteps + Overruns'
      <4>1. steps < MaxSteps /\ Overruns <= Overruns'
        BY <1>2, <2>6, <3>3
      <4>2. /\ runs <= Earned(revivals) + steps + Overruns
            /\ runs <= Earned(revivals) + MaxSteps + Overruns /\ steps <= MaxSteps + Overruns
        BY <1>1, <1>e
      <4>3. /\ runs + 1 <= Earned(revivals) + (steps + 1) + Overruns'
            /\ runs + 1 <= Earned(revivals) + MaxSteps + Overruns' /\ steps + 1 <= MaxSteps + Overruns'
        <5>1. /\ runs \in Nat /\ Earned(revivals) \in Nat /\ MaxSteps \in Nat /\ steps \in Nat
              /\ Overruns \in Nat /\ Overruns' \in Nat
          BY <1>n, <1>2, <1>e
        <5>. QED
          BY <4>1, <4>2, <5>1, OneMore
      <4>. QED
        BY <1>e, <2>0, <4>3
    <3>5. Entering("coalescer")' => ~Rerun'
      BY <2>1, <3>1
    <3>. QED
      BY <1>7, <2>6, <3>4, <3>5 DEF BudgetInv, Earned
  <2>7. CASE faults # 0 /\ ~(steps < MaxSteps)
    <3>1. steps >= MaxSteps
      BY <1>n, <2>7
    <3>2. w = "inbox" => ~Entering("coalescer")
      BY <1>1, <2>1, <3>1
    <3>3. w = "coalescer" => ~Rerun
      BY <1>1, <2>0, <3>1
    <3>4. ~Rerun' /\ ~(Entering("coalescer")')
      BY <2>1, <2>2, <2>3, <2>4, <3>2, <3>3
    <3>5. Rerun \/ (Entering("coalescer") /\ steps >= MaxSteps)
      BY <2>0, <2>1, <2>4, <3>1
    <3>6. Reserve = 1 /\ Reserve' = 0
      BY <3>4, <3>5 DEF Reserve
    <3>7. Overruns = faults - 1 /\ Overruns' = faults
      BY <1>0, <1>n, <1>7, <2>7, <3>6 DEF Overruns
    <3>8. runs' <= Earned(revivals) + steps' + Overruns' /\ runs' <= Earned(revivals + 1) + Overruns'
          /\ steps' <= MaxSteps + Overruns'
      <4>1. Overruns' = Overruns + 1
        BY <1>n, <3>7
      <4>. QED
        BY <1>n, <1>1, <1>2, <1>e, <2>0, <4>1, OneMore
    <3>. QED
      BY <1>7, <3>4, <3>8 DEF BudgetInv, Earned
  <2>. QED
    BY <2>5, <2>6, <2>7
<1>. QED
  BY <1>5, <1>6, <1>7, CountsMove

-----------------------------------------------------------------------------
(* The theorems                                                            *)

\* The invariant is inductive: it holds at first and each step keeps it, those
\* of a crash and of two runs side by side included.
THEOREM Inductive == Spec => []IInv
<1>1. Init => IInv
  <2>. SUFFICES ASSUME Init PROVE IInv
    OBVIOUS
  <2>. USE DEF Init
  <2>1. TypeOK
    <3>1. 0 \in 0 .. MaxSteps + MaxFaults /\ 0 \in 0 .. MaxFaults
      BY SessionAssumption
    <3>. QED
      BY <3>1, IdleIsRun DEF TypeOK
  <2>2. PlaceInv /\ HeardInv /\ SignInv /\ FirstInv
    BY IdleIsRun DEF PlaceInv, HeardInv, NothingSwallowed, Coalescer, SignInv, Backed, FirstInv, Workers, Posts
  <2>3. ThreadInv
    BY IdleIsRun, FS_EmptySet DEF ThreadInv, Posts
  <2>4. RevivalsAreEarned
    <3>1. {p \in TeamPosts : p \in inflight \/ fragment[p] # "none"} = {}
      BY DEF Posts
    <3>. QED
      BY <3>1, FS_EmptySet DEF RevivalsAreEarned
  <2>5. BudgetInv
    <3>1. ~Entering("coalescer") /\ Overruns = 0 /\ Earned(0) \in Nat /\ Earned(0 + 1) \in Nat
      BY IdleIsRun, EarnedSteps DEF Entering, Overruns, Workers
    <3>. QED
      BY <3>1, EarnedSteps DEF BudgetInv
  <2>. QED
    BY <2>1, <2>2, <2>3, <2>4, <2>5 DEF IInv
<1>2. IInv /\ [Next]_vars => IInv'
  BY NextTypeOK, NextPlaceInv, NextThreadInv, NextHeardInv, NextSignInv, NextRevivals, NextFirstInv,
     NextBudgetInv DEF IInv
<1>. QED
  BY <1>1, <1>2, PTL DEF Spec

\* mark_fragments_flushed marks the snapshot alone, and a reply of the team that
\* is in it was shown to the analyst by then.
THEOREM NoReplySwallowed == Spec => []NothingSwallowed
<1>1. IInv => NothingSwallowed
  BY DEF IInv, HeardInv
<1>. QED
  BY <1>1, Inductive, PTL

\* No plan rests on decisions that nobody has signed off, whatever the runs,
\* the replies, the silence and the crashes around it.
THEOREM PlansAreSignedOff == Spec => []DecisionsAreSignedOff
<1>1. IInv => DecisionsAreSignedOff
  BY DEF IInv, SignInv, Backed, DecisionsAreSignedOff
<1>. QED
  BY <1>1, Inductive, PTL

\* A replayed reply revives no ticket.
THEOREM NoRevivalByReplay == Spec => []RevivalsAreEarned
<1>1. IInv => RevivalsAreEarned
  BY DEF IInv
<1>. QED
  BY <1>1, Inductive, PTL

\* The model runs stay within max_planner_calls_per_goal for each revival, but
\* for one run per fault: the step count that a run is weighed by is read
\* before the run starts, and only a handler that a crash has brought back
\* runs besides the coalescer.
THEOREM BudgetHolds == Spec => []IterationsAreBudgeted
<1>1. IInv => IterationsAreBudgeted
  <2>. SUFFICES ASSUME IInv PROVE runs <= Earned(revivals + 1) + faults
    BY DEF IterationsAreBudgeted, Earned
  <2>1. runs <= Earned(revivals + 1) + Overruns
    BY DEF IInv, BudgetInv
  <2>2. Overruns <= faults /\ Overruns \in Int /\ faults \in Nat /\ runs \in Nat
    BY DEF IInv, TypeOK, Overruns, Reserve
  <2>3. Earned(revivals + 1) \in Nat
    BY EarnedSteps DEF IInv, TypeOK
  <2>. QED
    BY <2>1, <2>2, <2>3
<1>. QED
  BY <1>1, Inductive, PTL
=============================================================================
