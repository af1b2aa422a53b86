---------------------------- MODULE Communicator ----------------------------
(***************************************************************************)
(* CommunicatorService: what the bot may say, and when.  One person or     *)
(* channel, and the proposals that the analyst makes there:                *)
(*                                                                         *)
(*   _send               working hours, a sliding window of the posts of   *)
(*                       the last hour, the call of the chat               *)
(*   working_time_after  when a proposal that nobody objects to is agreed  *)
(*                                                                         *)
(* Time is counted in minutes of the time zone of the settings, from a     *)
(* Monday on.                                                              *)
(***************************************************************************)
EXTENDS Naturals, Sequences, FiniteSets, FiniteSetsExt

Bounds == {"minutes", "posts", "proposals", "restarts"}

CONSTANTS
    HourLength, HoursPerDay,            \* minutes, hours
    StartHour, EndHour, WeekdaysOnly,   \* WorkingHoursCfg
    Step, CapDays,                      \* of the walk of working_time_after
    Window, Limit, Multiplier,          \* of a _RateBucket; replies have more
    Consent,     \* silence_consent_hours, in minutes
    Starts,      \* bound: when the process may start
    MaxRun,      \* bound: how long a run goes on after its proposal
    Budgets      \* bounds: what may happen, and how often; a run has one of them

ASSUME CommunicatorAssumption ==
    /\ {HourLength, HoursPerDay, Step, CapDays, Window, Limit, Multiplier} \subseteq Nat \ {0}
    /\ {StartHour, EndHour, Consent, MaxRun} \subseteq Nat
    /\ Budgets \subseteq [Bounds -> Nat]
    /\ WeekdaysOnly \in BOOLEAN /\ Starts \subseteq Nat

VARIABLES
    now,
    buckets,   \* _buckets[kind]: when the posts of the last hour were tried
    proposal,  \* the analyst's question to the team, and when it is agreed
    left,      \* what is left of the budget
    restarts,  \* observer: restarts of the process
    log        \* observer: the posts of the last hour, by kind: when, and in which process

vars == <<now, buckets, proposal, left, restarts, log>>

Kinds == {"unprompted", "reply"}
Never == 0
NoProposal == [at |-> "none", posted |-> Never, due |-> Never]
DayLength == HourLength * HoursPerDay

Init ==
    /\ now \in Starts /\ left \in Budgets
    /\ buckets = [k \in Kinds |-> <<>>] /\ log = [k \in Kinds |-> {}]
    /\ proposal = NoProposal /\ restarts = 0

Spend(what) == left[what] > 0 /\ left' = [left EXCEPT ![what] = @ - 1]

----------------------------------------------------------------------------
(* Working hours                                                           *)

Weekday(t) == (t \div DayLength) % 7
HourOf(t) == (t % DayLength) \div HourLength

IsWithinWorkingHours(t) ==
    /\ WeekdaysOnly => Weekday(t) < 5
    /\ StartHour <= HourOf(t) /\ HourOf(t) < EndHour

\* Mutant: nights and weekends count.
TimeAfter(from, minutes) == from + minutes

\* The steps, of the first n from a moment on, that begin in working hours.
StepsWorked(from, n) == {k \in 0 .. n - 1 : IsWithinWorkingHours(from + k * Step)}

\* working_time_after: as many steps of five minutes as it takes until those
\* that begin in working hours make up the time, or the cap is reached.
WorkingTimeAfter(from, minutes) ==
    LET cap == CapDays * DayLength
        Ended(n) == minutes <= Step * Cardinality(StepsWorked(from, n)) \/ cap <= n * Step
    IN  from + Step * Min({n \in 0 .. cap : Ended(n)})

----------------------------------------------------------------------------
(* Posts                                                                   *)

LimitOf(kind) == IF kind = "reply" THEN Limit * Multiplier ELSE Limit

\* From the first of these on.
Since(times, kept) == IF kept = {} THEN <<>> ELSE SubSeq(times, Min(kept), Len(times))

\* The window that ends now: what is before it is popped from the left.
InWindow(t) == t + Window >= now
Recent(times) == Since(times, {i \in DOMAIN times : InWindow(times[i])})

\* Mutant: the post at the very beginning of the hour is forgotten.
TryConsumeEarly(kind) ==
    LET times == buckets[kind]
        recent == Since(times, {i \in DOMAIN times : times[i] + Window > now})
    IN  /\ Len(recent) < LimitOf(kind)
        /\ buckets' = [buckets EXCEPT ![kind] = Append(recent, now)]

\* _RateBucket.try_consume
TryConsume(kind) ==
    LET recent == Recent(buckets[kind])
    IN  /\ Len(recent) < LimitOf(kind)
        /\ buckets' = [buckets EXCEPT ![kind] = Append(recent, now)]

\* A reply to somebody who waits goes out at any time.
MaySend(kind) == kind = "reply" \/ IsWithinWorkingHours(now)

Sent(kind) ==
    LET nr == Cardinality({x \in log[kind] : x.at = now})
    IN  log' = [log EXCEPT ![kind] = @ \cup {[at |-> now, nr |-> nr, run |-> restarts]}]

\* _send; a post that the chat refuses has used the budget.
Send(kind) ==
    /\ Spend("posts") /\ MaySend(kind) /\ TryConsume(kind)
    /\ Sent(kind) \/ UNCHANGED log
    /\ UNCHANGED <<now, proposal, restarts>>

\* The rate limit drops it; what is older than an hour is forgotten meanwhile.
Dropped(kind) ==
    /\ MaySend(kind) /\ Len(Recent(buckets[kind])) >= LimitOf(kind)
    /\ buckets' = [buckets EXCEPT ![kind] = Recent(@)]
    /\ UNCHANGED <<now, proposal, left, restarts, log>>

----------------------------------------------------------------------------
(* A proposal to the team                                                  *)

\* ask_team: unprompted, and only a proposal that was sent counts.
AskTeam ==
    /\ proposal.at = "none" /\ MaySend("unprompted") /\ TryConsume("unprompted")
    /\ Sent("unprompted") /\ Spend("proposals")
    /\ proposal' = [NoProposal EXCEPT !.at = "running", !.posted = now]
    /\ UNCHANGED <<now, restarts>>

\* _on_ask, when the run has ended.
InstallDeadline ==
    /\ proposal.at = "running"
    /\ proposal' = [proposal EXCEPT !.at = "waiting", !.due = WorkingTimeAfter(now, Consent)]
    /\ UNCHANGED <<now, buckets, left, restarts, log>>

\* _consent_by_silence, at a tick after the deadline.
ConsentBySilence ==
    /\ proposal.at = "waiting" /\ proposal.due <= now
    /\ proposal' = [proposal EXCEPT !.at = "agreed"]
    /\ UNCHANGED <<now, buckets, left, restarts, log>>

\* The team has been told that it starts; another proposal may follow.
Settle ==
    /\ proposal.at = "agreed" /\ proposal' = NoProposal
    /\ UNCHANGED <<now, buckets, left, restarts, log>>

----------------------------------------------------------------------------
Pass ==
    /\ Spend("minutes") /\ now' = now + 1
    /\ proposal.at = "running" => now < proposal.posted + MaxRun
    /\ proposal.at = "waiting" => now < proposal.due  \* bound: the tick comes at once
    /\ log' = [k \in Kinds |-> {x \in log[k] : x.at + Window > now}]
    /\ UNCHANGED <<buckets, proposal, restarts>>

\* The buckets are the process's own; the wait of a run that was cut is not
\* installed.
Restart ==
    /\ Spend("restarts") /\ restarts' = restarts + 1
    /\ buckets' = [k \in Kinds |-> <<>>]
    /\ proposal' = IF proposal.at = "running" THEN NoProposal ELSE proposal
    /\ UNCHANGED <<now, log>>

Next ==
    \/ \E k \in Kinds : Send(k) \/ Dropped(k)
    \/ AskTeam \/ InstallDeadline \/ ConsentBySilence \/ Settle
    \/ Pass \/ Restart

Spec == Init /\ [][Next]_vars

----------------------------------------------------------------------------
(* Properties                                                              *)

\* Whatever hour one looks at, nobody gets more than the limit of unprompted
\* posts, and four times as many replies; once more for every restart.
HourIsBounded ==
    \A k \in Kinds :
        Cardinality({x \in log[k] : InWindow(x.at)}) <= LimitOf(k) * (1 + restarts)

\* The working minutes between two moments.
Worked(from, to) == Cardinality({t \in from..to - 1 : IsWithinWorkingHours(t)})

\* "A proposal posted at 19:30 Friday must not be taken as agreed at 21:30":
\* the team had its working time to object, but for less than a step on every
\* working day - although the deadline is worked out after the run, out of
\* hours, and by a walk that does not look where a window ends - or has been
\* silent for the two weeks that the walk is capped at.
SilenceIsWorkingTime ==
    proposal.at = "agreed" =>
        LET days == {t \div DayLength : t \in {u \in proposal.posted..now : IsWithinWorkingHours(u)}}
        IN  \/ Worked(proposal.posted, now) + (Step - 1) * Cardinality(days) >= Consent
            \/ now >= proposal.posted + CapDays * DayLength
=============================================================================
