------------------------------ MODULE HedgeRace ------------------------------
(***************************************************************************)
(* One streaming request that races providers: when the first byte of an   *)
(* attempt is late, or it fails, another provider is launched beside it;   *)
(* the first attempt to show content answers the client and the others     *)
(* are cancelled, or drained in the background and billed to the request.  *)
(*                                                                         *)
(* A step is what runs between two awaits.  An attempt is named after its  *)
(* provider, as each is launched once.  The gates of its attempts share    *)
(* the budget with those of other requests.                                *)
(***************************************************************************)
EXTENDS PrebufferBudget, HedgeCost, FiniteSets

CONSTANTS
    Initial,        \* session.provider when the race starts
    MaxInFlight,    \* legacyHedgeMaxInFlight
    Others,         \* gates of other requests
    Rectifiable,    \* the providers with errors a rectifier knows
    Plain,          \* the providers whose answer, if it wins, handleNonStream bills: no
                    \* event stream, nor treated as one, nor a Gemini passthrough
    Prefix,         \* what a prefix holds when its gate commits, in bytes
    None

ASSUME RaceAssumption == /\ Initial \in Providers
                         /\ MaxInFlight \in Nat \ {0}
                         /\ Claimants = Providers \cup Others
                         /\ Providers \cap Others = {}
                         /\ None \notin Providers
                         /\ Rectifiable \subseteq Providers
                         /\ Plain \subseteq Providers
                         /\ Prefix \in 1..(Size - 1)

VARIABLES
    mode,   \* whether a gate decides the winner, and billHedgeLosers
    race,   \* the locals of sendStreamingWithHedge
    att,    \* its attempts
    agent   \* whose callback session.releaseAgent is

vars == <<budgetVars, row, mode, race, att, agent>>

\* `result` is what resultPromise resolved to; `target` is the provider being
\* launched; `displaced` records that the initial attempt replaced the winner's
\* callbacks in the session.
Races == [settled : BOOLEAN, result : {"none", "response", "error"},
          winner : Providers \cup {None}, noMore : BOOLEAN, launched : SUBSET Providers,
          main : {"starting", "launching", "waiting"},
          launcher : {"idle", "selecting", "preparing"}, target : Providers \cup {None},
          displaced : BOOLEAN]

\* `live` is membership of attempts, `kept` is billAsLoser, `callback` says that
\* attempt.releaseAgent is there and `freed` is agentReleased.  `agents` counts the
\* references the attempt holds in the pool; `dropped` records that it failed with
\* its response open.
Stages == {"new", "sending", "reading", "cancelled", "passed", "failing", "recording",
           "finishing", "draining", "won", "streaming", "costing", "gone"}
Attempts == [stage : Stages, live : BOOLEAN, done : BOOLEAN, kept : BOOLEAN,
             triggered : BOOLEAN, retried : BOOLEAN, callback : BOOLEAN, freed : BOOLEAN,
             agents : -1..2, dropped : BOOLEAN]

NewAttempt == [stage |-> "new", live |-> FALSE, done |-> FALSE, kept |-> FALSE,
               triggered |-> FALSE, retried |-> FALSE, callback |-> FALSE, freed |-> FALSE,
               agents |-> 0, dropped |-> FALSE]

Init ==
    /\ mode \in [gated : BOOLEAN, bill : BOOLEAN]
    /\ race = [settled |-> FALSE, result |-> "none", winner |-> None, noMore |-> FALSE,
               launched |-> {Initial}, main |-> "starting", launcher |-> "idle",
               target |-> None, displaced |-> FALSE]
    /\ att = [p \in Providers |-> NewAttempt]
    /\ agent = None
    /\ InitBudget
    /\ InitRow

-----------------------------------------------------------------------------
Live == {p \in Providers : att[p].live}
Decided == race.settled \/ race.winner # None
Closed == Decided \/ race.noMore

\* An attempt nothing will be asked of but what it left behind.
Gone(a) ==
    [NewAttempt EXCEPT !.stage = "gone", !.done = a.done, !.agents = a.agents,
                       !.dropped = a.dropped]

\* releaseAttemptAgent
Freed(a) ==
    IF a.callback /\ ~a.freed THEN [a EXCEPT !.freed = TRUE, !.agents = @ - 1] ELSE a

\* finishIfExhausted, with the attempts `live` left.
Finished(r, live) ==
    IF ~r.settled /\ r.noMore /\ live = {} THEN [r EXCEPT !.settled = TRUE] ELSE r

\* abortAttempt of a live attempt, for losing the race or for another reason.  A
\* gate in line leaves it at once; one that reads ends when its read does; a
\* request under way is not reached.
Aborted(p, loses) ==
    LET a == [att[p] EXCEPT !.live = FALSE, !.done = TRUE, !.triggered = FALSE]
    IN IF loses /\ a.kept
         THEN a
         ELSE LET c == Freed([a EXCEPT !.kept = FALSE])
              IN IF a.stage = "reading" /\ InLine(p)
                   THEN Gone(c)
                   ELSE [c EXCEPT !.stage = IF @ = "reading" THEN "cancelled" ELSE @]

\* abortAllAttempts for those in S, and then p as well becomes `a`.
AbortAll(S, loses, p, a) ==
    /\ att' = [q \in Providers |-> IF q = p THEN a
                                   ELSE IF q \in S THEN Aborted(q, loses) ELSE att[q]]
    /\ AbortWait({q \in S : InLine(q) /\ ~(loses /\ att[q].kept)})

\* launchAlternative goes past its first two returns.
MayLaunch == ~Closed /\ Cardinality(Live) < MaxInFlight

\* Of the callers of launchAlternative, the first does the work.
Launching(r) == IF MayLaunch /\ r.launcher = "idle" THEN [r EXCEPT !.launcher = "selecting"] ELSE r

\* The end of startAttempt: nothing is asked again after its awaits.
Launched(p) == [NewAttempt EXCEPT !.stage = "sending", !.live = TRUE, !.kept = mode.bill]

-----------------------------------------------------------------------------
\* sendStreamingWithHedge itself: the endpoint of the initial provider, ...
Start ==
    /\ race.main = "starting"
    /\ \/ /\ race' = [race EXCEPT !.main = "waiting"]
          /\ att' = [att EXCEPT ![Initial] = Launched(Initial)]
       \/ /\ race' = [Launching(race) EXCEPT !.main = "launching"]
          /\ UNCHANGED att
    /\ UNCHANGED <<budgetVars, row, mode, agent>>

\* ... another one without it, and finishIfExhausted.
StartOver ==
    /\ race.main = "launching" /\ race.launcher = "idle"
    /\ race' = [Finished(race, Live) EXCEPT !.main = "waiting"]
    /\ UNCHANGED <<budgetVars, row, mode, att, agent>>

\* settleFailure, after the session's bindings are cleared.
SettleFailure ==
    /\ race.settled /\ race.result = "none"
    /\ race' = [race EXCEPT !.result = "error"]
    /\ UNCHANGED <<budgetVars, row, mode, att, agent>>

\* The answer of selectAlternative.
Select ==
    /\ race.launcher = "selecting"
    /\ \/ \E p \in Providers \ race.launched :
              /\ race' = IF Closed
                           THEN [race EXCEPT !.launcher = "idle"]
                           ELSE [race EXCEPT !.launcher = "preparing", !.target = p,
                                             !.launched = @ \cup {p}]
              /\ UNCHANGED <<att, budgetVars>>
       \/ /\ race' = Finished([race EXCEPT !.launcher = "idle", !.noMore = TRUE], Live)
          /\ UNCHANGED <<att, budgetVars>>
       \/ /\ race' = Finished([race EXCEPT !.launcher = "idle", !.noMore = TRUE], {})
          /\ AbortAll(Live, FALSE, None, NewAttempt)
    /\ UNCHANGED <<row, mode, agent>>

\* startAttempt of an alternative: its session is tracked and its endpoint known,
\* or one of the two is refused and the loop goes on.
Prepare ==
    /\ race.launcher = "preparing"
    /\ \/ /\ race' = [race EXCEPT !.launcher = "idle", !.target = None]
          /\ att' = [att EXCEPT ![race.target] = Launched(race.target)]
       \/ /\ race' = [race EXCEPT !.launcher = IF Closed THEN "idle" ELSE "selecting",
                                  !.target = None]
          /\ UNCHANGED att
    /\ UNCHANGED <<budgetVars, row, mode, agent>>

\* triggerAttemptThreshold.  The timer does not run while the gate is in line.
Trigger(p) ==
    /\ att[p].stage \in {"sending", "reading", "passed", "failing"}
    /\ ~InLine(p) /\ ~race.settled /\ ~att[p].done /\ ~att[p].triggered
    /\ att' = [att EXCEPT ![p].triggered = TRUE]
    /\ race' = Launching(race)
    /\ UNCHANGED <<budgetVars, row, mode, agent>>

ClientAbort ==
    /\ ~Decided
    /\ race' = Finished([race EXCEPT !.noMore = TRUE], {})
    /\ AbortAll(Live, FALSE, None, NewAttempt)
    /\ UNCHANGED <<row, mode, agent>>

-----------------------------------------------------------------------------
\* handleAttemptFailure up to its first await, for an attempt in state `a` whose
\* response was open or not.
Failure(a, open) ==
    IF a.done /\ a.kept THEN Gone(Freed(a))
    ELSE IF Decided \/ a.done THEN Gone(a)
    ELSE [a EXCEPT !.stage = "failing", !.dropped = @ \/ open]

\* The response of an attempt: the race is over and it is drained or cancelled, or
\* it has no body, or its gate or its first chunk is awaited.
Open(p) ==
    LET a == [att[p] EXCEPT !.agents = @ + 1, !.callback = TRUE]
    IN /\ att[p].stage = "sending"
       /\ agent' = IF p = Initial THEN p ELSE agent
       /\ race' = [race EXCEPT !.displaced = @ \/ (p = Initial /\ race.winner # None)]
       /\ IF Decided \/ a.done
            THEN /\ \/ a.kept /\ att' = [att EXCEPT ![p] = [a EXCEPT !.stage = "draining"]]
                    \/ att' = [att EXCEPT ![p] = Gone(Freed(a))]
                 /\ UNCHANGED budgetVars
            ELSE \/ /\ att' = [att EXCEPT ![p] = [a EXCEPT !.stage = "reading"]]
                    /\ IF mode.gated THEN Acquire(p) ELSE UNCHANGED budgetVars
                 \/ /\ att' = [att EXCEPT ![p] = Failure(a, TRUE)]
                    /\ UNCHANGED budgetVars
       /\ UNCHANGED <<row, mode>>

\* doForward rejects; it gave its own reference back.
SendFails(p) ==
    /\ att[p].stage = "sending"
    /\ att' = [att EXCEPT ![p] = Failure(@, FALSE)]
    /\ UNCHANGED <<budgetVars, row, mode, race, agent>>

\* The gate fails, or there is no first chunk.
ReadFails(p) ==
    /\ att[p].stage \in {"reading", "cancelled"} /\ ~InLine(p)
    /\ att' = [att EXCEPT ![p] = Failure(@, TRUE)]
    /\ Release(p)
    /\ UNCHANGED <<row, mode, race, agent>>

\* The gate commits, or there is a first chunk.
Content(p) ==
    /\ att[p].stage \in {"reading", "cancelled"} /\ ~InLine(p)
    /\ att' = [att EXCEPT ![p].stage = "passed"]
    /\ ShrinkTo(p, Prefix)
    /\ UNCHANGED <<row, mode, race, agent>>

\* Mutant: the winner is still among the attempts that are aborted.
CommitAndAbortAll(p) ==
    /\ race' = [race EXCEPT !.winner = p, !.settled = TRUE, !.result = "response"]
    /\ AbortAll(Live, TRUE, p, [Freed(att[p]) EXCEPT !.stage = "won", !.live = FALSE, !.done = TRUE])
    /\ agent' = p

\* commitWinner
CommitWinner(p) ==
    /\ race' = [race EXCEPT !.winner = p, !.settled = TRUE, !.result = "response"]
    /\ AbortAll(Live \ {p}, TRUE, p,
                [att[p] EXCEPT !.stage = "won", !.live = FALSE, !.done = TRUE,
                               !.triggered = FALSE])
    /\ agent' = p

\* Mutant: abortAttempt is trusted to have released the lease.
BeatenKeepsLease(p) ==
    /\ att' = [att EXCEPT ![p] =
                  IF @.kept /\ @.done THEN [@ EXCEPT !.stage = "draining"]
                  ELSE Gone(Freed(@))]
    /\ UNCHANGED <<budgetVars, race, agent>>

\* An attempt that lost with its prefix read: startLoserBilling, which gives the
\* lease back as soon as it has seen the prefix, or its clean-up.
Beaten(p) ==
    /\ Release(p)
    /\ att' = [att EXCEPT ![p] =
                  IF @.kept /\ @.done THEN [@ EXCEPT !.stage = "draining"]
                  ELSE Gone(Freed(@))]
    /\ UNCHANGED <<race, agent>>

Passed(p) ==
    /\ att[p].stage = "passed"
    /\ IF Decided \/ att[p].done THEN Beaten(p) ELSE CommitWinner(p)
    /\ UNCHANGED <<row, mode>>

\* The error of an attempt is known.  A rectified request is sent again, and may be
\* of an attempt aborted since; bound: once.  A client's abort, an error no provider
\* can help and an overload of the database pool end the race, the overload by
\* aborting this attempt too; any other error counts against the provider.
Categorized(p) ==
    LET over == [att[p] EXCEPT !.live = FALSE, !.done = TRUE, !.triggered = FALSE]
    IN /\ att[p].stage = "failing"
       /\ \/ /\ p \in Rectifiable /\ ~att[p].retried
             /\ att' = [att EXCEPT ![p].stage = "sending", ![p].retried = TRUE,
                                   ![p].triggered = FALSE]
             /\ UNCHANGED <<budgetVars, race>>
          \/ /\ AbortAll(Live \ {p}, FALSE, p, Gone(over))
             /\ race' = [race EXCEPT !.settled = TRUE]
          \/ /\ AbortAll(Live \ {p}, FALSE, p,
                         Gone(IF att[p].live THEN Aborted(p, FALSE) ELSE att[p]))
             /\ race' = [race EXCEPT !.settled = TRUE]
          \/ /\ att' = [att EXCEPT ![p] = [over EXCEPT !.stage = "recording"]]
             /\ UNCHANGED <<budgetVars, race>>
       /\ UNCHANGED <<row, mode, agent>>

\* Mutant: a failed attempt launches another, and does not end a race without any.
RecordedOnly(p) ==
    /\ att[p].stage = "recording"
    /\ att' = [att EXCEPT ![p] = Gone(@)]
    /\ race' = Launching(race)
    /\ UNCHANGED <<budgetVars, row, mode, agent>>

\* recordFailure is done: another provider is launched, or joins the launch under way.
Recorded(p) ==
    /\ att[p].stage = "recording"
    /\ att' = [att EXCEPT ![p] = IF MayLaunch THEN [@ EXCEPT !.stage = "finishing"] ELSE Gone(@)]
    /\ race' = IF MayLaunch THEN Launching(race) ELSE Finished(race, Live)
    /\ UNCHANGED <<budgetVars, row, mode, agent>>

Finish(p) ==
    /\ att[p].stage = "finishing" /\ race.launcher = "idle"
    /\ att' = [att EXCEPT ![p] = Gone(@)]
    /\ race' = Finished(race, Live)
    /\ UNCHANGED <<budgetVars, row, mode, agent>>

-----------------------------------------------------------------------------
\* A loser in the background: nothing to bill, refused or given up; or a write, of
\* which no answer may come, so that it is sent again.
Drained(p) ==
    /\ att[p].stage = "draining"
    /\ \/ AddLoserCost(p) /\ UNCHANGED att
       \/ AddLoserCost(p) /\ att' = [att EXCEPT ![p] = Gone(Freed(@))]
       \/ UNCHANGED row /\ att' = [att EXCEPT ![p] = Gone(Freed(@))]
    /\ UNCHANGED <<budgetVars, mode, race, agent>>

\* The client pulls past the winner's prefix.
PullPastPrefix(p) ==
    /\ att[p].stage = "won"
    /\ att' = [att EXCEPT ![p].stage = "streaming"]
    /\ Release(p)
    /\ UNCHANGED <<row, mode, race, agent>>

\* The winner's stream ends or its client leaves: releaseSessionAgent calls what the
\* session holds by now.
StreamEnds(p) ==
    /\ att[p].stage \in {"won", "streaming"}
    /\ att' = [q \in Providers |->
                  [att[q] EXCEPT !.stage = IF q = p THEN "costing" ELSE @,
                                 !.agents = IF q = agent THEN @ - 1 ELSE @]]
    /\ agent' = None
    /\ Release(p)
    /\ UNCHANGED <<row, mode, race>>

\* Mutant: it depends on isHedgeWinner, which counts the launches before the commit.
WriteCostByLaunches(p) ==
    IF p \notin Plain /\ \E q \in Providers \ {p} : att[q].done
      THEN WriteWinnerCost(p)
      ELSE OverwriteCost(p)

\* What updateRequestCostFromUsage is called with: billHedgeLosers for a stream and for a
\* Gemini passthrough; handleNonStream leaves it out.
WinnerLoserAware(p) == mode.bill /\ p \notin Plain

\* updateRequestCostFromUsage
WriteCost(p) == IF WinnerLoserAware(p) THEN WriteWinnerCost(p) ELSE OverwriteCost(p)

Costed(p) ==
    /\ att[p].stage = "costing"
    /\ \/ WriteCost(p) /\ UNCHANGED att
       \/ WriteCost(p) /\ att' = [att EXCEPT ![p] = Gone(@)]
       \/ UNCHANGED row /\ att' = [att EXCEPT ![p] = Gone(@)]
    /\ UNCHANGED <<budgetVars, mode, race, agent>>

-----------------------------------------------------------------------------
\* The gates of other requests.
OtherAcquires(o) == Acquire(o) /\ UNCHANGED <<row, mode, race, att, agent>>
OtherReleases(o) ==
    /\ leases[o] > 0
    /\ Release(o)
    /\ UNCHANGED <<row, mode, race, att, agent>>

AttemptStep(p) ==
    \/ Open(p) \/ SendFails(p) \/ ReadFails(p) \/ Content(p) \/ Passed(p)
    \/ Categorized(p) \/ Recorded(p) \/ Finish(p)
    \/ Drained(p) \/ PullPastPrefix(p) \/ StreamEnds(p) \/ Costed(p)

LauncherStep == Start \/ StartOver \/ Select \/ Prepare

Next ==
    \/ LauncherStep \/ SettleFailure \/ ClientAbort
    \/ \E p \in Providers : AttemptStep(p) \/ Trigger(p)
    \/ \E o \in Others : OtherAcquires(o) \/ OtherReleases(o)

\* Awaits end, as every transport has timeouts for its headers and its body, and a
\* gate gives its lease back.
Fairness ==
    /\ WF_vars(LauncherStep) /\ WF_vars(SettleFailure)
    /\ \A p \in Providers : WF_vars(AttemptStep(p))
    /\ \A o \in Others : WF_vars(OtherReleases(o))

Spec == Init /\ [][Next]_vars /\ Fairness

-----------------------------------------------------------------------------
Total(held) == LET f[T \in SUBSET Claimants] ==
                       IF T = {} THEN 0
                       ELSE LET c == CHOOSE c \in T : TRUE IN held[c] + f[T \ {c}]
               IN f[Claimants]

\* The state is of the declared type, and what is in use is what the leases hold
\* (StreamGatePrebufferBudget.reservedBytes).
TypeOK ==
    /\ used = Total(leases) /\ used <= Limit
    /\ leases \in [Claimants -> 0..Size]
    /\ waiters \in Seq(Claimants)
    /\ row \in Rows
    /\ mode \in [gated : BOOLEAN, bill : BOOLEAN]
    /\ race \in Races
    /\ att \in [Providers -> Attempts]
    /\ agent \in Providers \cup {None}

Quiet == /\ race.result # "none" /\ race.main = "waiting" /\ race.launcher = "idle"
         /\ \A p \in Providers : att[p].stage \in {"new", "gone"}

\* Once all is over, no attempt holds bytes of the budget or stands in its line, and
\* each connection was given back to the pool once -- but for an attempt that failed
\* with its response open, and for the winner and the initial attempt when the latter
\* replaced the winner's callback in the session.
NothingHeld ==
    Quiet => \A p \in Providers :
        /\ leases[p] = 0 /\ ~InLine(p)
        /\ \/ att[p].agents = 0
           \/ att[p].dropped
           \/ race.displaced /\ p \in {race.winner, Initial}

\* While the client reads, the winner's connection is not given back, and its lease
\* covers the prefix until the client has it (buildBufferedPrefixStream).
WinnerKept ==
    race.winner # None =>
        LET w == att[race.winner]
        IN /\ w.stage \in {"won", "streaming"} => w.agents >= 1
           /\ w.stage = "won" /\ mode.gated => leases[race.winner] = Prefix

\* Whatever the order of the writes, and however often one is sent: what the row
\* costs is its winner, if it was written, and the losers listed beside it, each once
\* -- but for listed losers whose cost is gone since handleNonStream wrote the winner's.
CostIsSum ==
    \A p \in Providers :
        /\ p \in row.losers =>
               \/ row.cost[p] = 1
               \/ race.winner \in Plain /\ row.cost[race.winner] = 1
        /\ p \notin row.losers /\ p # race.winner => row.cost[p] = 0
        /\ row.cost[p] <= 1

\* The request is answered, or fails: no race is left without an attempt, a launch
\* or a handler that would end it.
RaceSettles == <>(race.result # "none")
=============================================================================
