--------------------------- MODULE HedgeRaceProofs ---------------------------
(***************************************************************************)
(* The invariants of the race for every number of providers and of other   *)
(* streams, every budget and every limit of attempts in flight.            *)
(*                                                                         *)
(* First, that nobody waits for bytes that are free (BudgetInv).  Then,    *)
(* that the cost in the row is the winner's and the billed losers'         *)
(* (CostInv).  Last, that the budget's books balance and that every        *)
(* attempt holds the lease its stage calls for and the references it has   *)
(* to give back (HoldInv), from which follow the types, what is left of a  *)
(* race that is over and what the winner keeps.                            *)
(***************************************************************************)
EXTENDS HedgeRace, FiniteSetTheorems, FunctionTheorems, SequenceTheorems, TLAPS

-----------------------------------------------------------------------------
\* A line is a sequence, whatever stands in it.
IsLine(line) == Len(line) \in Nat /\ line = [i \in 1..Len(line) |-> line[i]]

\* The budget is never overdrawn, and nobody waits who fits.
BudgetInv ==
    /\ used \in Int /\ used <= Limit
    /\ leases \in [Claimants -> Int]
    /\ IsLine(waiters)
    /\ HeadServed

\* What a step of the race does to the budget.
BudgetStep ==
    \/ UNCHANGED budgetVars
    \/ \E c \in Claimants : Acquire(c)
    \/ \E c \in Claimants, bytes \in Int : ShrinkTo(c, bytes)
    \/ \E C \in SUBSET Claimants : AbortWait(C)

\* After a drain the budget is not overdrawn and whoever is first in line does not fit.
LEMMA DrainKeeps ==
    ASSUME NEW amount \in Int, amount <= Limit,
           NEW held \in [Claimants -> Int],
           NEW S, NEW line \in Seq(S),
           DrainWaiters(amount, held, line)
    PROVE  BudgetInv'
<1>1. PICK n \in 0..Len(line) :
          /\ Serves(n, amount, line)
          /\ used' = amount + n * Size
          /\ leases' = [c \in Claimants |->
                           IF \E i \in 1..n : line[i] = c THEN Size ELSE held[c]]
          /\ waiters' = SubSeq(line, n + 1, Len(line))
  BY DEF DrainWaiters
<1>2. Size \in Nat /\ Limit \in Nat /\ n \in Nat /\ Len(line) \in Nat
  BY BudgetAssumption
<1>3. /\ n * Size \in Int
      /\ (n + 1) * Size = n * Size + Size
  BY <1>2
<1>4. used' \in Int /\ used' <= Limit
  <2>1. CASE n = 0
    BY <1>1, <1>2, <2>1
  <2>2. CASE n > 0
    BY <1>1, <1>2, <1>3, <2>2 DEF Serves
  <2> QED BY <1>2, <2>1, <2>2
<1>5. leases' \in [Claimants -> Int]
  BY <1>1, <1>2
<1>6. /\ waiters' \in Seq(S)
      /\ Len(waiters') = Len(line) - n
  BY <1>1, <1>2
<1>7. IsLine(waiters)'
  BY <1>6 DEF IsLine
<1>8. HeadServed'
  <2> SUFFICES ASSUME waiters' # <<>>
               PROVE  used' + Size > Limit
    BY DEF HeadServed
  <2>1. n < Len(line)
    BY <1>2, <1>6
  <2> QED BY <1>1, <1>2, <1>3, <2>1 DEF Serves
<1> QED BY <1>4, <1>5, <1>7, <1>8 DEF BudgetInv

\* A line is a sequence over what stands in it.
LEMMA LineIsSeq ==
    ASSUME NEW line, IsLine(line)
    PROVE  line \in Seq({line[i] : i \in 1..Len(line)})
<1> DEFINE S == {line[i] : i \in 1..Len(line)}
<1>1. line \in [1..Len(line) -> S]
  BY DEF IsLine
<1> QED BY <1>1 DEF IsLine

\* The line without some of those in it is a line.
LEMMA WithoutIsLine ==
    ASSUME NEW C, IsLine(waiters)
    PROVE  \E S : Without(C) \in Seq(S)
<1> DEFINE stay == {i \in DOMAIN waiters : waiters[i] \notin C}
           nth(k) == CHOOSE i \in stay : Cardinality({j \in stay : j <= i}) = k
           f == [k \in 1..Cardinality(stay) |-> waiters[nth(k)]]
<1>1. DOMAIN waiters = 1..Len(waiters) /\ Len(waiters) \in Nat
  BY DEF IsLine
<1>2. IsFiniteSet(stay)
  <2>1. IsFiniteSet(1..Len(waiters))
    BY <1>1, FS_Interval
  <2> QED BY <1>1, <2>1, FS_Subset
<1>3. Cardinality(stay) \in Nat
  BY <1>2, FS_CardinalityType
<1> HIDE DEF stay, nth
<1>4. f \in [1..Cardinality(stay) -> {f[k] : k \in 1..Cardinality(stay)}]
  OBVIOUS
<1>5. f \in Seq({f[k] : k \in 1..Cardinality(stay)})
  BY <1>3, <1>4
<1>6. Without(C) = f
  BY DEF Without, stay, nth
<1> QED BY <1>5, <1>6

\* Every operation of the budget keeps its invariant.
LEMMA BudgetStepKeeps ==
    ASSUME BudgetInv, BudgetStep
    PROVE  BudgetInv'
<1> USE DEF BudgetInv
<1>0. PICK S : waiters \in Seq(S)
  BY LineIsSeq
<1>1. CASE UNCHANGED budgetVars
  BY <1>1 DEF budgetVars, HeadServed, IsLine
<1>2. ASSUME NEW c \in Claimants, Acquire(c)
      PROVE  BudgetInv'
  <2>1. CASE waiters = <<>> /\ used + Size <= Limit
    <3>1. used' = used + Size /\ waiters' = <<>> /\ leases' = [leases EXCEPT ![c] = Size]
      BY <1>2, <2>1 DEF Acquire
    <3> QED BY <3>1, <2>1, BudgetAssumption DEF HeadServed, IsLine
  <2>2. CASE ~(waiters = <<>> /\ used + Size <= Limit)
    <3>1. DrainWaiters(used, leases, Append(waiters, c))
      BY <1>2, <2>2 DEF Acquire
    <3>2. Append(waiters, c) \in Seq(S \cup {c})
      BY <1>0
    <3> QED BY <3>1, <3>2, DrainKeeps
  <2> QED BY <2>1, <2>2
<1>3. ASSUME NEW c \in Claimants, NEW bytes \in Int, ShrinkTo(c, bytes)
      PROVE  BudgetInv'
  <2>1. CASE bytes < leases[c]
    <3>1. DrainWaiters(used - (leases[c] - bytes), [leases EXCEPT ![c] = bytes], waiters)
      BY <1>3, <2>1 DEF ShrinkTo
    <3>2. /\ used - (leases[c] - bytes) \in Int
          /\ used - (leases[c] - bytes) <= Limit
          /\ [leases EXCEPT ![c] = bytes] \in [Claimants -> Int]
      BY <2>1, BudgetAssumption
    <3> QED BY <1>0, <3>1, <3>2, DrainKeeps
  <2>2. CASE ~(bytes < leases[c])
    BY <1>1, <1>3, <2>2 DEF ShrinkTo
  <2> QED BY <2>1, <2>2
<1>4. ASSUME NEW C \in SUBSET Claimants, AbortWait(C)
      PROVE  BudgetInv'
  <2>1. CASE C = {}
    BY <1>1, <1>4, <2>1 DEF AbortWait
  <2>2. CASE C # {}
    <3>1. DrainWaiters(used, leases, Without(C))
      BY <1>4, <2>2 DEF AbortWait
    <3>2. PICK T : Without(C) \in Seq(T)
      BY WithoutIsLine
    <3> QED BY <3>1, <3>2, DrainKeeps
  <2> QED BY <2>1, <2>2
<1> QED BY <1>1, <1>2, <1>3, <1>4 DEF BudgetStep

-----------------------------------------------------------------------------
\* Aborting attempts takes those of them that wait out of the line.
LEMMA AbortAllStep ==
    ASSUME NEW S \in SUBSET Providers, NEW loses, NEW p, NEW a, AbortAll(S, loses, p, a)
    PROVE  BudgetStep
<1> DEFINE C == {q \in S : InLine(q) /\ ~(loses /\ att[q].kept)}
<1>1. AbortWait(C)
  BY DEF AbortAll
<1>2. C \in SUBSET Claimants
  BY RaceAssumption
<1> QED BY <1>1, <1>2 DEF BudgetStep

\* Giving a lease back shrinks it to nothing.
LEMMA ReleaseStep ==
    ASSUME NEW c \in Claimants, Release(c)
    PROVE  BudgetStep
BY DEF Release, BudgetStep

\* What an attempt does with the budget.
LEMMA AttemptBudget ==
    ASSUME NEW p \in Providers, AttemptStep(p)
    PROVE  BudgetStep
<1>0. p \in Claimants /\ Prefix \in Int /\ Live \subseteq Providers
  BY RaceAssumption, BudgetAssumption DEF Live
<1>1. CASE Open(p)
  <2>1. Acquire(p) \/ UNCHANGED budgetVars
    BY <1>1 DEF Open
  <2> QED BY <1>0, <2>1 DEF BudgetStep
<1>2. CASE ReadFails(p)
  BY <1>0, <1>2, ReleaseStep DEF ReadFails
<1>3. CASE Content(p)
  BY <1>0, <1>3 DEF Content, BudgetStep
<1>4. CASE Passed(p)
  <2>1. CASE Beaten(p)
    BY <1>0, <2>1, ReleaseStep DEF Beaten
  <2>2. CASE CommitWinner(p)
    <3>1. Live \ {p} \in SUBSET Providers
      BY <1>0
    <3> QED BY <2>2, <3>1, AbortAllStep DEF CommitWinner
  <2> QED BY <1>4, <2>1, <2>2 DEF Passed
<1>5. CASE Categorized(p)
  <2>1. CASE UNCHANGED budgetVars
    BY <2>1 DEF BudgetStep
  <2>2. CASE \E a : AbortAll(Live \ {p}, FALSE, p, a)
    <3>1. Live \ {p} \in SUBSET Providers
      BY <1>0
    <3> QED BY <2>2, <3>1, AbortAllStep
  <2> QED BY <1>5, <2>1, <2>2 DEF Categorized
<1>6. CASE PullPastPrefix(p)
  BY <1>0, <1>6, ReleaseStep DEF PullPastPrefix
<1>7. CASE StreamEnds(p)
  BY <1>0, <1>7, ReleaseStep DEF StreamEnds
<1>8. CASE SendFails(p) \/ Recorded(p) \/ Finish(p) \/ Drained(p) \/ Costed(p)
  BY <1>8 DEF SendFails, Recorded, Finish, Drained, Costed, BudgetStep
<1> QED BY <1>1, <1>2, <1>3, <1>4, <1>5, <1>6, <1>7, <1>8 DEF AttemptStep

\* Whatever the race and the other streams do, the budget takes one of its steps.
LEMMA NextBudget ==
    ASSUME [Next]_vars
    PROVE  BudgetStep
<1>0. Live \in SUBSET Providers
  BY DEF Live
<1>1. CASE LauncherStep
  <2>1. UNCHANGED budgetVars \/ AbortAll(Live, FALSE, None, NewAttempt)
    BY <1>1 DEF LauncherStep, Start, StartOver, Select, Prepare, budgetVars
  <2>2. CASE UNCHANGED budgetVars
    BY <2>2 DEF BudgetStep
  <2>3. CASE AbortAll(Live, FALSE, None, NewAttempt)
    BY <1>0, <2>3, AbortAllStep
  <2> QED BY <2>1, <2>2, <2>3
<1>2. CASE SettleFailure
  BY <1>2 DEF SettleFailure, BudgetStep
<1>3. CASE ClientAbort
  BY <1>0, <1>3, AbortAllStep DEF ClientAbort
<1>4. ASSUME NEW p \in Providers, AttemptStep(p)
      PROVE  BudgetStep
  BY <1>4, AttemptBudget
<1>5. ASSUME NEW p \in Providers, Trigger(p)
      PROVE  BudgetStep
  BY <1>5 DEF Trigger, BudgetStep
<1>6. ASSUME NEW o \in Others, OtherAcquires(o) \/ OtherReleases(o)
      PROVE  BudgetStep
  <2>1. o \in Claimants
    BY RaceAssumption
  <2> QED BY <1>6, <2>1, ReleaseStep DEF OtherAcquires, OtherReleases, BudgetStep
<1>7. CASE UNCHANGED vars
  BY <1>7 DEF vars, BudgetStep
<1> QED BY <1>1, <1>2, <1>3, <1>4, <1>5, <1>6, <1>7 DEF Next

\* At first nothing is reserved and nobody waits.
LEMMA InitBudgetInv ==
    ASSUME Init
    PROVE  BudgetInv
<1>1. used = 0 /\ leases = [c \in Claimants |-> 0] /\ waiters = <<>>
  BY DEF Init, InitBudget
<1> QED BY <1>1, BudgetAssumption DEF BudgetInv, IsLine, HeadServed

\* No gate of a process waits for bytes of the budget that are free, with any
\* number of streams and any sizes (StreamGatePrebufferBudget.drainWaiters).
THEOREM HeadIsServed == Spec => []HeadServed
<1>1. Init => BudgetInv
  BY InitBudgetInv
<1>2. BudgetInv /\ [Next]_vars => BudgetInv'
  BY NextBudget, BudgetStepKeeps
<1>3. BudgetInv => HeadServed
  BY DEF BudgetInv
<1> QED BY <1>1, <1>2, <1>3, PTL DEF Spec

-----------------------------------------------------------------------------
\* The types the cost depends on; nothing bounds the references of an attempt.
AnyAttempt == [stage : Stages, live : BOOLEAN, done : BOOLEAN, kept : BOOLEAN,
               triggered : BOOLEAN, retried : BOOLEAN, callback : BOOLEAN, freed : BOOLEAN,
               agents : Int, dropped : BOOLEAN]

Typed ==
    /\ row \in [cost : [Providers -> Int], losers : SUBSET Providers]
    /\ mode \in [gated : BOOLEAN, bill : BOOLEAN]
    /\ race \in Races
    /\ att \in [Providers -> AnyAttempt]

\* An attempt exists once its provider is claimed and its launch is done.
LaunchInv ==
    /\ Initial \in race.launched
    /\ race.main = "starting" => /\ race.launcher = "idle"
                                 /\ \A q \in Providers : att[q].stage = "new"
    /\ race.launcher = "preparing" => /\ race.target \in race.launched
                                      /\ att[race.target].stage = "new"
    /\ \A q \in Providers : q \notin race.launched => att[q].stage = "new"

\* Who may write the cost: the winner, and losers while billing is on.
AfterWin == {"won", "streaming", "costing"}
WriterInv ==
    /\ \A q \in Providers :
          /\ att[q].stage \in AfterWin => q = race.winner
          /\ q = race.winner => att[q].stage \in AfterWin \cup {"gone"}
          /\ att[q].stage = "draining" => mode.bill
          /\ att[q].kept => mode.bill
    /\ ~mode.bill => row.losers = {}

CostInv == Typed /\ LaunchInv /\ WriterInv /\ CostIsSum

\* What a step does to an attempt it is not about: at most, it is aborted.
Aside(q) ==
    /\ \/ att'[q].stage = att[q].stage
       \/ att[q].stage = "reading" /\ att'[q].stage \in {"cancelled", "gone"}
    /\ att'[q].kept => att[q].kept

\* The helpers return attempts, and only `Gone` changes the stage.
LEMMA FreedTyped ==
    ASSUME NEW a \in AnyAttempt
    PROVE  /\ Freed(a) \in AnyAttempt
           /\ Freed(a).stage = a.stage /\ Freed(a).kept = a.kept
<1>1. CASE a.callback /\ ~a.freed
  <2> DEFINE n == a.agents - 1
  <2>1. Freed(a) = [a EXCEPT !.freed = TRUE, !.agents = n]
    BY <1>1 DEF Freed
  <2>2. n \in Int
    BY DEF AnyAttempt
  <2> HIDE DEF n
  <2> QED BY <2>1, <2>2 DEF AnyAttempt
<1>2. CASE ~(a.callback /\ ~a.freed)
  BY <1>2 DEF Freed
<1> QED BY <1>1, <1>2

\* Of an attempt that is gone nothing is billed.
LEMMA GoneTyped ==
    ASSUME NEW a \in AnyAttempt
    PROVE  /\ Gone(a) \in AnyAttempt
           /\ Gone(a).stage = "gone" /\ ~Gone(a).kept
BY DEF Gone, NewAttempt, AnyAttempt, Stages

\* A failure is handled, or the attempt is gone.
LEMMA FailureTyped ==
    ASSUME NEW a \in AnyAttempt, NEW open \in BOOLEAN
    PROVE  /\ Failure(a, open) \in AnyAttempt
           /\ Failure(a, open).stage \in {"gone", "failing"}
           /\ Failure(a, open).kept => a.kept
<1>1. CASE a.done /\ a.kept
  BY <1>1, FreedTyped, GoneTyped DEF Failure
<1>2. CASE ~(a.done /\ a.kept) /\ (Decided \/ a.done)
  BY <1>2, GoneTyped DEF Failure
<1>3. CASE ~(a.done /\ a.kept) /\ ~(Decided \/ a.done)
  <2>1. Failure(a, open) = [a EXCEPT !.stage = "failing", !.dropped = @ \/ open]
    BY <1>3 DEF Failure
  <2> QED BY <2>1 DEF AnyAttempt, Stages
<1> QED BY <1>1, <1>2, <1>3

\* An attempt that is aborted keeps its stage, or ends its read.
LEMMA AbortedTyped ==
    ASSUME Typed, NEW q \in Providers, NEW loses
    PROVE  /\ Aborted(q, loses) \in AnyAttempt
           /\ \/ Aborted(q, loses).stage = att[q].stage
              \/ att[q].stage = "reading" /\ Aborted(q, loses).stage \in {"cancelled", "gone"}
           /\ Aborted(q, loses).kept => att[q].kept
<1> DEFINE a == [att[q] EXCEPT !.live = FALSE, !.done = TRUE, !.triggered = FALSE]
           b == [a EXCEPT !.kept = FALSE]
           c == Freed(b)
<1>1. att[q] \in AnyAttempt
  BY DEF Typed
<1>2. a \in AnyAttempt /\ a.stage = att[q].stage /\ a.kept = att[q].kept
  BY <1>1 DEF AnyAttempt
<1> HIDE DEF a
<1>3. b \in AnyAttempt /\ b.stage = att[q].stage /\ ~b.kept
  BY <1>2 DEF AnyAttempt
<1> HIDE DEF b
<1>4. c \in AnyAttempt /\ c.stage = att[q].stage /\ ~c.kept
  BY <1>3, FreedTyped
<1> HIDE DEF c
<1>5. Gone(c) \in AnyAttempt /\ Gone(c).stage = "gone" /\ ~Gone(c).kept
  BY <1>4, GoneTyped
<1> DEFINE d == [c EXCEPT !.stage = IF @ = "reading" THEN "cancelled" ELSE @]
<1>6. /\ d \in AnyAttempt /\ ~d.kept
      /\ d.stage = IF att[q].stage = "reading" THEN "cancelled" ELSE att[q].stage
  BY <1>4 DEF AnyAttempt, Stages
<1>7. Aborted(q, loses) = IF loses /\ a.kept THEN a
                          ELSE IF a.stage = "reading" /\ InLine(q) THEN Gone(c) ELSE d
  BY DEF Aborted, a, b, c
<1> HIDE DEF d
<1> QED BY <1>2, <1>4, <1>5, <1>6, <1>7

\* Aborting attempts leaves all of them but the one named aside.
LEMMA AbortAllAside ==
    ASSUME Typed, NEW S, NEW loses, NEW p, NEW a, AbortAll(S, loses, p, a),
           p \in Providers => a \in AnyAttempt
    PROVE  /\ att' \in [Providers -> AnyAttempt]
           /\ \A q \in Providers : q # p => Aside(q)
           /\ p \in Providers => att'[p] = a
<1>1. att' = [q \in Providers |-> IF q = p THEN a
                                  ELSE IF q \in S THEN Aborted(q, loses) ELSE att[q]]
  BY DEF AbortAll
<1>2. \A q \in Providers : att[q] \in AnyAttempt
  BY DEF Typed
<1>3. ASSUME NEW q \in Providers
      PROVE  /\ att'[q] \in AnyAttempt
             /\ q # p => Aside(q)
             /\ q = p => att'[q] = a
  <2>1. CASE q = p
    BY <1>1, <2>1
  <2>2. CASE q # p /\ q \in S
    <3>1. att'[q] = Aborted(q, loses)
      BY <1>1, <2>2
    <3> QED BY <2>2, <3>1, AbortedTyped DEF Aside
  <2>3. CASE q # p /\ q \notin S
    <3>1. att'[q] = att[q]
      BY <1>1, <2>3
    <3> QED BY <1>2, <2>3, <3>1 DEF Aside
  <2> QED BY <2>1, <2>2, <2>3
<1>4. att' \in [Providers -> AnyAttempt]
  BY <1>1, <1>3
<1> QED BY <1>3, <1>4

\* A step that is about one attempt, which becomes `a`.
LEMMA OneAttempt ==
    ASSUME Typed, NEW p \in Providers, NEW a \in AnyAttempt, att' = [att EXCEPT ![p] = a]
    PROVE  /\ att' \in [Providers -> AnyAttempt]
           /\ \A q \in Providers : q # p => Aside(q)
           /\ att'[p] = a
BY DEF Typed, Aside

\* A step that neither claims a provider nor decides the race.
RaceGoesOn ==
    /\ race' \in Races
    /\ race'.launched = race.launched /\ race'.main = race.main
    /\ race'.winner = race.winner /\ race'.target = race.target
    /\ race'.launcher = "preparing" => race.launcher = "preparing"

\* Ending an exhausted race, and asking for a launch, are such steps.
LEMMA FinishedTyped ==
    ASSUME NEW r \in Races, NEW live
    PROVE  /\ Finished(r, live) \in Races
           /\ Finished(r, live).launched = r.launched /\ Finished(r, live).main = r.main
           /\ Finished(r, live).winner = r.winner /\ Finished(r, live).target = r.target
           /\ Finished(r, live).launcher = r.launcher
BY DEF Finished, Races

\* Asking for a launch changes nothing else of the race.
LEMMA LaunchingTyped ==
    ASSUME NEW r \in Races
    PROVE  /\ Launching(r) \in Races
           /\ Launching(r).launched = r.launched /\ Launching(r).main = r.main
           /\ Launching(r).winner = r.winner /\ Launching(r).target = r.target
           /\ Launching(r).launcher \in {r.launcher, "selecting"}
BY DEF Launching, Races

\* What an attempt that exists does leaves the launches as they are.
LEMMA LaunchKeeps ==
    ASSUME CostInv, NEW p \in Providers \cup {None},
           p \in Providers => att[p].stage # "new",
           \A q \in Providers : q # p => Aside(q),
           race'.launched = race.launched, race'.main = race.main,
           race'.target = race.target,
           race'.launcher = "preparing" => race.launcher = "preparing",
           race.main = "starting" => race'.launcher = "idle"
    PROVE  LaunchInv'
<1> USE DEF CostInv, Typed, LaunchInv, Aside
<1>1. ASSUME NEW q \in Providers, att[q].stage = "new"
      PROVE  att'[q].stage = "new"
  BY <1>1
<1>2. race.launcher = "preparing" => race.target \in Providers
  BY DEF Races
<1> QED BY <1>1, <1>2

\* An attempt that is aborted writes nothing it did not write before.
LEMMA WriterKeeps ==
    ASSUME CostInv, NEW p \in Providers \cup {None},
           \A q \in Providers : q # p => Aside(q),
           race'.winner = race.winner, mode' = mode,
           ~mode.bill => row'.losers = {},
           p \in Providers => /\ att'[p].stage \in AfterWin => p = race.winner
                              /\ p = race.winner => att'[p].stage \in AfterWin \cup {"gone"}
                              /\ att'[p].stage = "draining" => mode.bill
                              /\ att'[p].kept => mode.bill
    PROVE  WriterInv'
<1>1. ASSUME NEW q \in Providers, q # p
      PROVE  /\ att'[q].stage \in AfterWin => q = race.winner
             /\ q = race.winner => att'[q].stage \in AfterWin \cup {"gone"}
             /\ att'[q].stage = "draining" => mode.bill
             /\ att'[q].kept => mode.bill
  BY <1>1 DEF CostInv, WriterInv, Aside, AfterWin
<1> QED BY <1>1 DEF WriterInv

\* So does a whole step of an attempt that writes no cost, when what it becomes
\* is one of the writers only if it was.
LEMMA AttemptKeeps ==
    ASSUME CostInv, NEW p \in Providers, att[p].stage # "new",
           att' \in [Providers -> AnyAttempt],
           \A q \in Providers : q # p => Aside(q),
           RaceGoesOn, row' = row, mode' = mode,
           att'[p].stage \in AfterWin => p = race.winner,
           p = race.winner => att'[p].stage \in AfterWin \cup {"gone"},
           att'[p].stage = "draining" => mode.bill,
           att'[p].kept => mode.bill
    PROVE  CostInv'
<1>1. Typed'
  BY DEF CostInv, Typed, RaceGoesOn
<1>2. race.main # "starting"
  BY DEF CostInv, LaunchInv
<1>3. LaunchInv'
  BY <1>2, LaunchKeeps DEF RaceGoesOn
<1>4. WriterInv'
  <2>1. ~mode.bill => row'.losers = {}
    BY DEF CostInv, WriterInv
  <2> QED BY <2>1, WriterKeeps DEF RaceGoesOn
<1>5. CostIsSum'
  BY DEF CostInv, CostIsSum, RaceGoesOn
<1> QED BY <1>1, <1>3, <1>4, <1>5 DEF CostInv

\* The other steps that abort attempts.
LEMMA AbortKeeps ==
    ASSUME CostInv, att' \in [Providers -> AnyAttempt],
           \A q \in Providers : Aside(q),
           RaceGoesOn, row' = row, mode' = mode,
           race.main = "starting" => race'.launcher = "idle"
    PROVE  CostInv'
<1>0. \A q \in Providers : q # None => Aside(q)
  OBVIOUS
<1>1. Typed'
  BY DEF CostInv, Typed, RaceGoesOn
<1>2. LaunchInv'
  BY <1>0, LaunchKeeps, RaceAssumption DEF RaceGoesOn
<1>3. WriterInv'
  <2>1. ~mode.bill => row'.losers = {}
    BY DEF CostInv, WriterInv
  <2> QED BY <1>0, <2>1, WriterKeeps, RaceAssumption DEF RaceGoesOn
<1>4. CostIsSum'
  BY DEF CostInv, CostIsSum, RaceGoesOn
<1> QED BY <1>1, <1>2, <1>3, <1>4 DEF CostInv

\* The attempt a step is about, and who it may be.
LEMMA NoWinner ==
    ASSUME CostInv, NEW p \in Providers,
           att[p].stage \notin AfterWin \cup {"gone"}
    PROVE  p # race.winner
BY DEF CostInv, WriterInv

\* A step without any change to the race is one that lets it go on.
LEMMA RaceStays ==
    ASSUME CostInv, race' = race
    PROVE  RaceGoesOn
BY DEF CostInv, Typed, RaceGoesOn

\* The response of an attempt makes nobody a winner.
LEMMA OpenCost ==
    ASSUME CostInv, NEW p \in Providers, Open(p)
    PROVE  CostInv'
<1> DEFINE n == att[p].agents + 1
           a == [att[p] EXCEPT !.agents = n, !.callback = TRUE]
<1>1. att[p] \in AnyAttempt /\ att[p].stage = "sending" /\ row' = row /\ mode' = mode
  BY DEF Open, CostInv, Typed
<1>2. a \in AnyAttempt /\ a.stage = "sending" /\ a.kept = att[p].kept
  <2>1. n \in Int
    BY <1>1 DEF AnyAttempt
  <2> HIDE DEF n
  <2> QED BY <1>1, <2>1 DEF AnyAttempt
<1>3. PICK b : /\ att' = [att EXCEPT ![p] = b]
               /\ \/ a.kept /\ b = [a EXCEPT !.stage = "draining"]
                  \/ b = Gone(Freed(a))
                  \/ b = [a EXCEPT !.stage = "reading"]
                  \/ b = Failure(a, TRUE)
  BY Zenon DEF Open
<1> HIDE DEF a
<1>4. /\ b \in AnyAttempt /\ b.stage \notin AfterWin
      /\ b.stage = "draining" => a.kept
      /\ b.kept => a.kept
  <2>1. CASE a.kept /\ b = [a EXCEPT !.stage = "draining"]
    BY <1>2, <2>1 DEF AnyAttempt, Stages, AfterWin
  <2>2. CASE b = Gone(Freed(a))
    BY <1>2, <2>2, FreedTyped, GoneTyped DEF AfterWin
  <2>3. CASE b = [a EXCEPT !.stage = "reading"]
    BY <1>2, <2>3 DEF AnyAttempt, Stages, AfterWin
  <2>4. CASE b = Failure(a, TRUE)
    BY <1>2, <2>4, FailureTyped DEF AfterWin
  <2> QED BY <1>3, <2>1, <2>2, <2>3, <2>4
<1>5. a.kept => mode.bill
  BY <1>2 DEF CostInv, WriterInv
<1>6. RaceGoesOn
  <2>1. race' = [race EXCEPT !.displaced = @ \/ (p = Initial /\ race.winner # None)]
    BY DEF Open
  <2> QED BY <2>1 DEF CostInv, Typed, Races, RaceGoesOn
<1>7. p # race.winner
  BY <1>1, NoWinner DEF AfterWin
<1>8. /\ att' \in [Providers -> AnyAttempt]
      /\ \A q \in Providers : q # p => Aside(q)
      /\ att'[p] = b
  BY <1>3, <1>4, OneAttempt DEF CostInv
<1> QED BY <1>1, <1>4, <1>5, <1>6, <1>7, <1>8, AttemptKeeps

\* Nor does what its gate says, or its error.
LEMMA ReadingCost ==
    ASSUME CostInv, NEW p \in Providers, SendFails(p) \/ ReadFails(p) \/ Content(p)
    PROVE  CostInv'
<1>1. /\ att[p] \in AnyAttempt /\ att[p].stage \in {"sending", "reading", "cancelled"}
      /\ row' = row /\ mode' = mode /\ race' = race
  BY DEF SendFails, ReadFails, Content, CostInv, Typed
<1>2. PICK b : /\ att' = [att EXCEPT ![p] = b]
               /\ b \in {Failure(att[p], FALSE), Failure(att[p], TRUE),
                         [att[p] EXCEPT !.stage = "passed"]}
  <2>1. CASE SendFails(p)
    BY <2>1, Zenon DEF SendFails
  <2>2. CASE ReadFails(p)
    BY <2>2, Zenon DEF ReadFails
  <2>3. CASE Content(p)
    BY <2>3, Zenon DEF Content
  <2> QED BY <2>1, <2>2, <2>3
<1>3. /\ b \in AnyAttempt /\ b.stage \in {"gone", "failing", "passed"}
      /\ b.kept => att[p].kept
  <2>1. CASE b \in {Failure(att[p], FALSE), Failure(att[p], TRUE)}
    BY <1>1, <2>1, FailureTyped
  <2>2. CASE b = [att[p] EXCEPT !.stage = "passed"]
    BY <1>1, <2>2 DEF AnyAttempt, Stages
  <2> QED BY <1>2, <2>1, <2>2
<1>4. att[p].kept => mode.bill
  BY DEF CostInv, WriterInv
<1>5. p # race.winner
  BY <1>1, NoWinner DEF AfterWin
<1>6. /\ att' \in [Providers -> AnyAttempt]
      /\ \A q \in Providers : q # p => Aside(q)
      /\ att'[p] = b
  BY <1>2, <1>3, OneAttempt DEF CostInv
<1> QED BY <1>1, <1>3, <1>4, <1>5, <1>6, RaceStays, AttemptKeeps DEF AfterWin

\* Who lost with its prefix read is drained only while billing is on.
LEMMA BeatenCost ==
    ASSUME CostInv, NEW p \in Providers, att[p].stage = "passed", Beaten(p),
           row' = row, mode' = mode
    PROVE  CostInv'
<1>1. att[p] \in AnyAttempt /\ race' = race
  BY DEF Beaten, CostInv, Typed
<1>2. PICK b : /\ att' = [att EXCEPT ![p] = b]
               /\ \/ att[p].kept /\ b = [att[p] EXCEPT !.stage = "draining"]
                  \/ b = Gone(Freed(att[p]))
  BY Zenon DEF Beaten
<1>3. /\ b \in AnyAttempt /\ b.stage \in {"gone", "draining"}
      /\ b.stage = "draining" => att[p].kept
      /\ b.kept => att[p].kept
  <2>1. CASE att[p].kept /\ b = [att[p] EXCEPT !.stage = "draining"]
    BY <1>1, <2>1 DEF AnyAttempt, Stages
  <2>2. CASE b = Gone(Freed(att[p]))
    BY <1>1, <2>2, FreedTyped, GoneTyped
  <2> QED BY <1>2, <2>1, <2>2
<1>4. att[p].kept => mode.bill
  BY DEF CostInv, WriterInv
<1>5. p # race.winner
  BY NoWinner DEF AfterWin
<1>6. /\ att' \in [Providers -> AnyAttempt]
      /\ \A q \in Providers : q # p => Aside(q)
      /\ att'[p] = b
  BY <1>2, <1>3, OneAttempt DEF CostInv
<1> QED BY <1>1, <1>3, <1>4, <1>5, <1>6, RaceStays, AttemptKeeps DEF AfterWin

\* The winner is decided once, and is no loser.
LEMMA CommitCost ==
    ASSUME CostInv, NEW p \in Providers, att[p].stage = "passed", ~Decided,
           CommitWinner(p), row' = row, mode' = mode
    PROVE  CostInv'
<1> DEFINE b == [att[p] EXCEPT !.stage = "won", !.live = FALSE, !.done = TRUE,
                               !.triggered = FALSE]
<1>1. att[p] \in AnyAttempt /\ race.winner = None
  BY DEF CostInv, Typed, Decided
<1>2. b \in AnyAttempt /\ b.stage = "won" /\ b.kept = att[p].kept
  BY <1>1 DEF AnyAttempt, Stages
<1>3. AbortAll(Live \ {p}, TRUE, p, b)
  BY DEF CommitWinner
<1> HIDE DEF b
<1>4. /\ att' \in [Providers -> AnyAttempt]
      /\ \A q \in Providers : q # p => Aside(q)
      /\ att'[p] = b
  BY <1>2, <1>3, AbortAllAside DEF CostInv
<1>5. /\ race' \in Races /\ race'.winner = p
      /\ race'.launched = race.launched /\ race'.main = race.main
      /\ race'.target = race.target /\ race'.launcher = race.launcher
  <2>1. race' = [race EXCEPT !.winner = p, !.settled = TRUE, !.result = "response"]
    BY DEF CommitWinner
  <2> QED BY <2>1 DEF CostInv, Typed, Races
<1>6. Typed'
  BY <1>4, <1>5 DEF CostInv, Typed
<1>7. LaunchInv'
  <2>1. race.main # "starting"
    BY DEF CostInv, LaunchInv
  <2> QED BY <1>4, <1>5, <2>1, LaunchKeeps
<1>8. WriterInv'
  <2>1. ASSUME NEW q \in Providers, q # p
        PROVE  /\ att'[q].stage \notin AfterWin
               /\ att'[q].stage = "draining" => mode.bill
               /\ att'[q].kept => mode.bill
    <3>1. att[q].stage \notin AfterWin
      BY <1>1, RaceAssumption DEF CostInv, WriterInv
    <3>2. Aside(q)
      BY <1>4, <2>1
    <3> QED BY <3>1, <3>2 DEF CostInv, WriterInv, Aside, AfterWin
  <2>2. b.kept => mode.bill
    BY <1>2 DEF CostInv, WriterInv
  <2>3. ~mode.bill => row'.losers = {}
    BY DEF CostInv, WriterInv
  <2> QED BY <1>2, <1>4, <1>5, <2>1, <2>2, <2>3 DEF WriterInv, AfterWin
<1>9. CostIsSum'
  BY <1>1, <1>5, RaceAssumption DEF CostInv, CostIsSum
<1> QED BY <1>6, <1>7, <1>8, <1>9 DEF CostInv

\* An attempt with its prefix read wins or has lost.
LEMMA PassedCost ==
    ASSUME CostInv, NEW p \in Providers, Passed(p)
    PROVE  CostInv'
BY BeatenCost, CommitCost DEF Passed

\* A failed attempt is sent again, gives up, or ends the race.
LEMMA CategorizedCost ==
    ASSUME CostInv, NEW p \in Providers, Categorized(p)
    PROVE  CostInv'
<1> DEFINE over == [att[p] EXCEPT !.live = FALSE, !.done = TRUE, !.triggered = FALSE]
           again == [att[p] EXCEPT !.stage = "sending", !.retried = TRUE, !.triggered = FALSE]
           left == [over EXCEPT !.stage = "recording"]
<1>1. /\ att[p] \in AnyAttempt /\ att[p].stage = "failing"
      /\ row' = row /\ mode' = mode
  BY DEF Categorized, CostInv, Typed
<1>2. p # race.winner
  BY <1>1, NoWinner DEF AfterWin
<1>3. over \in AnyAttempt /\ over.kept = att[p].kept
  BY <1>1 DEF AnyAttempt
<1>4. /\ again \in AnyAttempt /\ again.stage = "sending" /\ again.kept = att[p].kept
      /\ left \in AnyAttempt /\ left.stage = "recording" /\ left.kept = att[p].kept
  BY <1>1, <1>3 DEF AnyAttempt, Stages
<1>5. att[p].kept => mode.bill
  BY DEF CostInv, WriterInv
<1>6. RaceGoesOn
  <2>1. race' \in {race, [race EXCEPT !.settled = TRUE]}
    BY DEF Categorized
  <2> QED BY <2>1 DEF CostInv, Typed, Races, RaceGoesOn
<1>7. CASE att' = [att EXCEPT ![p] = left]
  <2>1. /\ att' \in [Providers -> AnyAttempt]
        /\ \A q \in Providers : q # p => Aside(q)
        /\ att'[p] = left
    BY <1>4, <1>7, OneAttempt DEF CostInv
  <2> QED BY <1>1, <1>2, <1>4, <1>5, <1>6, <2>1, AttemptKeeps DEF AfterWin
<1>8. CASE att' = [att EXCEPT ![p].stage = "sending", ![p].retried = TRUE,
                              ![p].triggered = FALSE]
  <2>1. att' = [att EXCEPT ![p] = again]
    BY <1>1, <1>8 DEF CostInv, Typed, AnyAttempt
  <2>2. /\ att' \in [Providers -> AnyAttempt]
        /\ \A q \in Providers : q # p => Aside(q)
        /\ att'[p] = again
    BY <1>4, <2>1, OneAttempt DEF CostInv
  <2> QED BY <1>1, <1>2, <1>4, <1>5, <1>6, <2>2, AttemptKeeps DEF AfterWin
<1>9. ASSUME NEW a \in {over, Aborted(p, FALSE), att[p]},
             AbortAll(Live \ {p}, FALSE, p, Gone(a))
      PROVE  CostInv'
  <2>1. a \in AnyAttempt
    BY <1>1, <1>3, AbortedTyped DEF CostInv
  <2>2. Gone(a) \in AnyAttempt /\ Gone(a).stage = "gone" /\ ~Gone(a).kept
    BY <2>1, GoneTyped
  <2>3. /\ att' \in [Providers -> AnyAttempt]
        /\ \A q \in Providers : q # p => Aside(q)
        /\ att'[p] = Gone(a)
    BY <1>9, <2>2, AbortAllAside DEF CostInv
  <2> QED BY <1>1, <1>2, <1>6, <2>2, <2>3, AttemptKeeps DEF AfterWin
<1>10. \/ att' = [att EXCEPT ![p] = left]
       \/ att' = [att EXCEPT ![p].stage = "sending", ![p].retried = TRUE,
                             ![p].triggered = FALSE]
       \/ \E a \in {over, Aborted(p, FALSE), att[p]} :
             AbortAll(Live \ {p}, FALSE, p, Gone(a))
  BY Zenon DEF Categorized
<1> QED BY <1>7, <1>8, <1>9, <1>10

\* A recorded failure at most asks for a launch.
LEMMA RecordedCost ==
    ASSUME CostInv, NEW p \in Providers, Recorded(p) \/ Finish(p)
    PROVE  CostInv'
<1>1. /\ att[p] \in AnyAttempt /\ att[p].stage \in {"recording", "finishing"}
      /\ row' = row /\ mode' = mode /\ race \in Races
  BY DEF Recorded, Finish, CostInv, Typed
<1>2. PICK b \in {Gone(att[p]), [att[p] EXCEPT !.stage = "finishing"]} :
          att' = [att EXCEPT ![p] = b]
  BY Zenon DEF Recorded, Finish
<1>3. b \in AnyAttempt /\ b.stage \in {"gone", "finishing"} /\ (b.kept => att[p].kept)
  <2>1. CASE b = Gone(att[p])
    BY <1>1, <2>1, GoneTyped
  <2>2. CASE b = [att[p] EXCEPT !.stage = "finishing"]
    BY <1>1, <2>2 DEF AnyAttempt, Stages
  <2> QED BY <1>2, <2>1, <2>2
<1>4. att[p].kept => mode.bill
  BY DEF CostInv, WriterInv
<1>5. p # race.winner
  BY <1>1, NoWinner DEF AfterWin
<1>6. RaceGoesOn
  <2>1. race' \in {Launching(race), Finished(race, Live)}
    BY DEF Recorded, Finish
  <2> QED BY <1>1, <2>1, LaunchingTyped, FinishedTyped DEF RaceGoesOn
<1>7. /\ att' \in [Providers -> AnyAttempt]
      /\ \A q \in Providers : q # p => Aside(q)
      /\ att'[p] = b
  BY <1>2, <1>3, OneAttempt DEF CostInv
<1> QED BY <1>1, <1>3, <1>4, <1>5, <1>6, <1>7, AttemptKeeps DEF AfterWin

\* The winner's response, until its cost is written.
LEMMA StreamCost ==
    ASSUME CostInv, NEW p \in Providers, PullPastPrefix(p) \/ StreamEnds(p)
    PROVE  CostInv'
<1>1. /\ att[p].stage \in {"won", "streaming"} /\ att \in [Providers -> AnyAttempt]
      /\ row' = row /\ mode' = mode /\ race' = race
  BY DEF PullPastPrefix, StreamEnds, CostInv, Typed
<1>2. p = race.winner
  BY <1>1 DEF CostInv, WriterInv, AfterWin
<1>3. /\ att' \in [Providers -> AnyAttempt]
      /\ \A q \in Providers : q # p => Aside(q)
      /\ att'[p].stage \in AfterWin /\ att'[p].kept = att[p].kept
  <2>1. CASE PullPastPrefix(p)
    <3> DEFINE b == [att[p] EXCEPT !.stage = "streaming"]
    <3>1. b \in AnyAttempt /\ b.stage = "streaming" /\ b.kept = att[p].kept
      BY <1>1 DEF AnyAttempt, Stages
    <3>2. att' = [att EXCEPT ![p] = b]
      BY <2>1, Zenon DEF PullPastPrefix
    <3> HIDE DEF b
    <3> QED BY <3>1, <3>2, OneAttempt DEF CostInv, AfterWin
  <2>2. CASE StreamEnds(p)
    <3> DEFINE n(q) == IF q = agent THEN att[q].agents - 1 ELSE att[q].agents
               s(q) == IF q = p THEN "costing" ELSE att[q].stage
               b(q) == [att[q] EXCEPT !.stage = s(q), !.agents = n(q)]
    <3>1. att' = [q \in Providers |-> b(q)]
      BY <2>2, Zenon DEF StreamEnds
    <3>2. ASSUME NEW q \in Providers
          PROVE  b(q) \in AnyAttempt /\ b(q).stage = s(q) /\ b(q).kept = att[q].kept
      <4>1. n(q) \in Int /\ s(q) \in Stages
        BY <1>1 DEF AnyAttempt, Stages
      <4> HIDE DEF n, s
      <4> QED BY <1>1, <4>1 DEF AnyAttempt
    <3> HIDE DEF b
    <3> QED BY <3>1, <3>2 DEF Aside, AfterWin
  <2> QED BY <2>1, <2>2
<1>4. att[p].kept => mode.bill
  BY DEF CostInv, WriterInv
<1>5. RaceGoesOn
  BY <1>1, RaceStays
<1> QED BY <1>1, <1>2, <1>3, <1>4, <1>5, AttemptKeeps DEF AfterWin

\* A step that writes the row.
LEMMA WriteKeeps ==
    ASSUME CostInv, NEW p \in Providers, att[p].stage \in {"draining", "costing"},
           att' = att \/ att' = [att EXCEPT ![p] = Gone(@)]
                      \/ att' = [att EXCEPT ![p] = Gone(Freed(@))],
           race' = race, mode' = mode,
           row' \in [cost : [Providers -> Int], losers : SUBSET Providers],
           ~mode.bill => row'.losers = {},
           CostIsSum'
    PROVE  CostInv'
<1>1. PICK b \in {att[p], Gone(att[p]), Gone(Freed(att[p]))} : att' = [att EXCEPT ![p] = b]
  <2>1. CASE att' = att
    <3>1. att' = [att EXCEPT ![p] = att[p]]
      BY <2>1 DEF CostInv, Typed
    <3> QED BY <3>1, Zenon
  <2> QED BY <2>1, Zenon
<1>2. /\ b \in AnyAttempt /\ (b.kept => att[p].kept)
      /\ b.stage \in {att[p].stage, "gone"}
  <2>1. att[p] \in AnyAttempt
    BY DEF CostInv, Typed
  <2> QED BY <2>1, FreedTyped, GoneTyped
<1>3. /\ att' \in [Providers -> AnyAttempt]
      /\ \A q \in Providers : q # p => Aside(q)
      /\ att'[p] = b
  BY <1>1, <1>2, OneAttempt DEF CostInv
<1>4. Typed'
  BY <1>3 DEF CostInv, Typed
<1>5. LaunchInv'
  <2>1. race.main # "starting"
    BY DEF CostInv, LaunchInv
  <2> QED BY <1>3, <2>1, LaunchKeeps
<1>6. /\ b.stage \in AfterWin => p = race.winner
      /\ p = race.winner => b.stage \in AfterWin \cup {"gone"}
      /\ b.stage = "draining" => mode.bill
      /\ b.kept => mode.bill
  BY <1>2 DEF CostInv, WriterInv, AfterWin
<1>7. WriterInv'
  BY <1>3, <1>6, WriterKeeps
<1> QED BY <1>4, <1>5, <1>7 DEF CostInv

\* A loser is added to the cost only while it is not listed.
LEMMA DrainedCost ==
    ASSUME CostInv, NEW p \in Providers, Drained(p)
    PROVE  CostInv'
<1>1. /\ att[p].stage = "draining" /\ mode.bill /\ p # race.winner
      /\ row \in [cost : [Providers -> Int], losers : SUBSET Providers]
      /\ race' = race /\ mode' = mode
  BY NoWinner DEF Drained, CostInv, WriterInv, Typed, AfterWin
<1>2. /\ row' \in [cost : [Providers -> Int], losers : SUBSET Providers]
      /\ CostIsSum'
  <2>1. CASE row' = row
    BY <1>1, <2>1 DEF CostInv, CostIsSum
  <2>2. CASE AddLoserCost(p)
    <3>1. CASE p \in row.losers
      BY <1>1, <2>2, <3>1 DEF AddLoserCost, CostInv, CostIsSum
    <3>2. CASE p \notin row.losers
      <4>1. row.cost[p] = 0
        BY <1>1, <3>2 DEF CostInv, CostIsSum
      <4>2. /\ row'.cost = [row.cost EXCEPT ![p] = 1]
            /\ row'.losers = row.losers \cup {p}
            /\ row' = [cost |-> [row.cost EXCEPT ![p] = 1], losers |-> row.losers \cup {p}]
        BY <2>2, <3>2, <4>1 DEF AddLoserCost
      <4> QED BY <1>1, <4>2 DEF CostInv, CostIsSum
    <3> QED BY <3>1, <3>2
  <2> QED BY <2>1, <2>2 DEF Drained
<1>3. \/ att' = att \/ att' = [att EXCEPT ![p] = Gone(@)]
      \/ att' = [att EXCEPT ![p] = Gone(Freed(@))]
  BY DEF Drained
<1> QED BY <1>1, <1>2, <1>3, WriteKeeps

\* The winner's cost is written with the listed losers', or without them.
LEMMA CostedCost ==
    ASSUME CostInv, NEW p \in Providers, Costed(p)
    PROVE  CostInv'
<1>1. /\ att[p].stage = "costing" /\ p = race.winner
      /\ row \in [cost : [Providers -> Int], losers : SUBSET Providers]
      /\ race' = race /\ mode' = mode
      /\ ~mode.bill => row.losers = {}
  BY DEF Costed, CostInv, WriterInv, Typed, AfterWin
<1>2. /\ row' \in [cost : [Providers -> Int], losers : SUBSET Providers]
      /\ row'.losers = row.losers
      /\ CostIsSum'
  <2>1. CASE row' = row
    BY <1>1, <2>1 DEF CostInv, CostIsSum
  <2>2. CASE WriteWinnerCost(p)
    BY <1>1, <2>2 DEF WriteWinnerCost, CostIsSum
  <2>3. CASE OverwriteCost(p) /\ (~mode.bill \/ p \in Plain)
    BY <1>1, <2>3 DEF OverwriteCost, CostIsSum
  <2> QED BY <2>1, <2>2, <2>3 DEF Costed, WriteCost, WinnerLoserAware
<1>3. \/ att' = att \/ att' = [att EXCEPT ![p] = Gone(@)]
      \/ att' = [att EXCEPT ![p] = Gone(Freed(@))]
  BY DEF Costed
<1> QED BY <1>1, <1>2, <1>3, WriteKeeps

-----------------------------------------------------------------------------
\* A launched attempt is drained when it loses only if billing is on.
LEMMA LaunchedTyped ==
    ASSUME mode \in [gated : BOOLEAN, bill : BOOLEAN], NEW p
    PROVE  /\ Launched(p) \in AnyAttempt /\ Launched(p).stage = "sending"
           /\ Launched(p).kept = mode.bill
<1> DEFINE bill == mode.bill
<1>1. bill \in BOOLEAN
  OBVIOUS
<1>2. Launched(p) = [NewAttempt EXCEPT !.stage = "sending", !.live = TRUE, !.kept = bill]
  BY DEF Launched
<1>3. NewAttempt \in AnyAttempt
  BY DEF NewAttempt, AnyAttempt, Stages
<1> HIDE DEF bill
<1>4. /\ Launched(p) \in AnyAttempt /\ Launched(p).stage = "sending"
      /\ Launched(p).kept = bill
  BY <1>1, <1>2, <1>3 DEF AnyAttempt, Stages
<1> QED BY <1>4 DEF bill

\* A provider that was claimed and has no attempt gets one.
LEMMA LaunchKeepsCost ==
    ASSUME CostInv, NEW p \in Providers, att[p].stage = "new",
           p \in race.launched, race.launcher = "preparing" => p = race.target,
           att' = [att EXCEPT ![p] = Launched(p)],
           race' \in Races, race'.launched = race.launched, race'.winner = race.winner,
           race'.main # "starting", race'.launcher # "preparing",
           row' = row, mode' = mode
    PROVE  CostInv'
<1>1. mode \in [gated : BOOLEAN, bill : BOOLEAN] /\ p # race.winner
  BY NoWinner DEF CostInv, Typed, AfterWin
<1>2. /\ Launched(p) \in AnyAttempt /\ Launched(p).stage = "sending"
      /\ Launched(p).kept = mode.bill
  BY <1>1, LaunchedTyped
<1>3. /\ att' \in [Providers -> AnyAttempt]
      /\ \A q \in Providers : q # p => Aside(q)
      /\ att'[p] = Launched(p)
  BY <1>2, OneAttempt DEF CostInv
<1>4. Typed'
  BY <1>3 DEF CostInv, Typed
<1>5. LaunchInv'
  BY <1>3 DEF CostInv, LaunchInv, Aside
<1>6. WriterInv'
  <2>1. ~mode.bill => row'.losers = {}
    BY DEF CostInv, WriterInv
  <2> QED BY <1>1, <1>2, <1>3, <2>1, WriterKeeps DEF AfterWin
<1>7. CostIsSum'
  BY DEF CostInv, CostIsSum
<1> QED BY <1>4, <1>5, <1>6, <1>7 DEF CostInv

\* A step of the race that leaves every attempt as it is.
LEMMA RaceKeepsCost ==
    ASSUME CostInv, att' = att, row' = row, mode' = mode,
           race' \in Races, race'.winner = race.winner, LaunchInv'
    PROVE  CostInv'
<1>1. Typed' /\ WriterInv' /\ CostIsSum'
  BY DEF CostInv, Typed, WriterInv, CostIsSum
<1> QED BY <1>1 DEF CostInv

\* The launches: the initial one, ...
LEMMA StartCost ==
    ASSUME CostInv, Start
    PROVE  CostInv'
<1>1. /\ race \in Races /\ race.main = "starting" /\ race.launcher = "idle"
      /\ \A q \in Providers : att[q].stage = "new"
      /\ Initial \in race.launched /\ Initial \in Providers
      /\ row' = row /\ mode' = mode
  BY RaceAssumption DEF Start, CostInv, Typed, LaunchInv
<1>2. CASE /\ race' = [race EXCEPT !.main = "waiting"]
           /\ att' = [att EXCEPT ![Initial] = Launched(Initial)]
  <2>1. /\ race' \in Races /\ race'.launched = race.launched /\ race'.winner = race.winner
        /\ race'.main = "waiting" /\ race'.launcher = "idle"
    BY <1>1, <1>2 DEF Races
  <2> QED BY <1>1, <1>2, <2>1, LaunchKeepsCost
<1>3. CASE race' = [Launching(race) EXCEPT !.main = "launching"] /\ att' = att
  <2>1. /\ race' \in Races /\ race'.launched = race.launched /\ race'.winner = race.winner
        /\ race'.main = "launching" /\ race'.launcher \in {"idle", "selecting"}
    <3>1. /\ Launching(race) \in Races /\ Launching(race).launched = race.launched
          /\ Launching(race).winner = race.winner
          /\ Launching(race).launcher \in {"idle", "selecting"}
      BY <1>1, LaunchingTyped
    <3> QED BY <1>3, <3>1 DEF Races
  <2>2. LaunchInv'
    BY <1>1, <1>3, <2>1 DEF LaunchInv
  <2> QED BY <1>1, <1>3, <2>1, <2>2, RaceKeepsCost
<1> QED BY <1>2, <1>3, Zenon DEF Start

\* ... its replacement, ...
LEMMA StartOverCost ==
    ASSUME CostInv, StartOver
    PROVE  CostInv'
<1>1. race \in Races /\ att' = att /\ row' = row /\ mode' = mode
  BY DEF StartOver, CostInv, Typed
<1>2. /\ race' \in Races /\ race'.launched = race.launched /\ race'.winner = race.winner
      /\ race'.main = "waiting" /\ race'.launcher = "idle"
  <2>1. /\ race' = [Finished(race, Live) EXCEPT !.main = "waiting"]
        /\ race.launcher = "idle"
    BY DEF StartOver
  <2>2. /\ Finished(race, Live) \in Races /\ Finished(race, Live).launched = race.launched
        /\ Finished(race, Live).winner = race.winner
        /\ Finished(race, Live).launcher = race.launcher
    BY <1>1, FinishedTyped
  <2> QED BY <2>1, <2>2 DEF Races
<1>3. LaunchInv'
  BY <1>1, <1>2 DEF CostInv, LaunchInv
<1> QED BY <1>1, <1>2, <1>3, RaceKeepsCost

\* ... the choice of an alternative, which claims its provider, ...
LEMMA SelectCost ==
    ASSUME CostInv, Select
    PROVE  CostInv'
<1>1. /\ race \in Races /\ race.launcher = "selecting" /\ race.main # "starting"
      /\ row' = row /\ mode' = mode
  BY DEF Select, CostInv, Typed, LaunchInv
<1>2. CASE att' = att /\ race' = [race EXCEPT !.launcher = "idle"]
  <2>1. /\ race' \in Races /\ race'.launched = race.launched /\ race'.winner = race.winner
        /\ race'.main = race.main /\ race'.launcher = "idle"
    BY <1>1, <1>2 DEF Races
  <2>2. LaunchInv'
    BY <1>1, <1>2, <2>1 DEF CostInv, LaunchInv
  <2> QED BY <1>1, <1>2, <2>1, <2>2, RaceKeepsCost
<1>3. ASSUME NEW p \in Providers \ race.launched, att' = att,
             race' = [race EXCEPT !.launcher = "preparing", !.target = p,
                                  !.launched = @ \cup {p}]
      PROVE  CostInv'
  <2>1. /\ race' \in Races /\ race'.launched = race.launched \cup {p}
        /\ race'.winner = race.winner /\ race'.target = p
        /\ race'.main = race.main /\ race'.launcher = "preparing"
    BY <1>1, <1>3 DEF Races
  <2>2. LaunchInv'
    BY <1>1, <1>3, <2>1 DEF CostInv, LaunchInv
  <2> QED BY <1>1, <1>3, <2>1, <2>2, RaceKeepsCost
<1> DEFINE r == [race EXCEPT !.launcher = "idle", !.noMore = TRUE]
<1>4. /\ r \in Races /\ r.launched = race.launched /\ r.winner = race.winner
      /\ r.main = race.main /\ r.target = race.target /\ r.launcher = "idle"
  BY <1>1 DEF Races
<1>5. ASSUME NEW live, race' = Finished(r, live)
      PROVE  RaceGoesOn /\ race'.launcher = "idle"
  BY <1>4, <1>5, FinishedTyped DEF RaceGoesOn
<1>6. CASE att' = att /\ race' = Finished(r, Live)
  <2>1. att' \in [Providers -> AnyAttempt] /\ \A q \in Providers : Aside(q)
    BY <1>6 DEF CostInv, Typed, Aside
  <2> QED BY <1>1, <1>5, <1>6, <2>1, AbortKeeps
<1>7. CASE race' = Finished(r, {}) /\ AbortAll(Live, FALSE, None, NewAttempt)
  <2>1. att' \in [Providers -> AnyAttempt] /\ \A q \in Providers : Aside(q)
    BY <1>7, AbortAllAside, RaceAssumption DEF CostInv
  <2> QED BY <1>1, <1>5, <1>7, <2>1, AbortKeeps
<1> QED BY <1>2, <1>3, <1>6, <1>7, Zenon DEF Select

\* ... and its launch, which nothing else does for that provider.
LEMMA PrepareCost ==
    ASSUME CostInv, Prepare
    PROVE  CostInv'
<1>1. /\ race \in Races /\ race.launcher = "preparing" /\ race.main # "starting"
      /\ race.target \in race.launched /\ race.launched \subseteq Providers
      /\ att[race.target].stage = "new"
      /\ row' = row /\ mode' = mode
  BY DEF Prepare, CostInv, Typed, LaunchInv, Races
<1>2. CASE /\ race' = [race EXCEPT !.launcher = "idle", !.target = None]
           /\ att' = [att EXCEPT ![race.target] = Launched(race.target)]
  <2>1. /\ race' \in Races /\ race'.launched = race.launched /\ race'.winner = race.winner
        /\ race'.main # "starting" /\ race'.launcher # "preparing"
    BY <1>1, <1>2 DEF Races
  <2> QED BY <1>1, <1>2, <2>1, LaunchKeepsCost
<1>3. ASSUME att' = att, NEW l \in {"idle", "selecting"},
             race' = [race EXCEPT !.launcher = l, !.target = None]
      PROVE  CostInv'
  <2>1. /\ race' \in Races /\ race'.launched = race.launched /\ race'.winner = race.winner
        /\ race'.main # "starting" /\ race'.launcher # "preparing"
    BY <1>1, <1>3 DEF Races
  <2>2. LaunchInv'
    BY <1>3, <2>1 DEF CostInv, LaunchInv
  <2> QED BY <1>1, <1>3, <2>1, <2>2, RaceKeepsCost
<1>4. \/ /\ race' = [race EXCEPT !.launcher = "idle", !.target = None]
         /\ att' = [att EXCEPT ![race.target] = Launched(race.target)]
      \/ \E l \in {"idle", "selecting"} :
            /\ race' = [race EXCEPT !.launcher = l, !.target = None]
            /\ att' = att
  <2>1. (IF Closed THEN "idle" ELSE "selecting") \in {"idle", "selecting"}
    OBVIOUS
  <2> QED BY <2>1, Zenon DEF Prepare
<1> QED BY <1>2, <1>3, <1>4

\* A late first byte at most asks for a launch.
LEMMA TriggerCost ==
    ASSUME CostInv, NEW p \in Providers, Trigger(p)
    PROVE  CostInv'
<1> DEFINE b == [att[p] EXCEPT !.triggered = TRUE]
<1>1. /\ att[p] \in AnyAttempt /\ race \in Races
      /\ att[p].stage \in {"sending", "reading", "passed", "failing"}
      /\ row' = row /\ mode' = mode
  BY DEF Trigger, CostInv, Typed
<1>2. b \in AnyAttempt /\ b.stage = att[p].stage /\ b.kept = att[p].kept
  BY <1>1 DEF AnyAttempt
<1>3. att' = [att EXCEPT ![p] = b]
  BY DEF Trigger
<1>4. /\ att' \in [Providers -> AnyAttempt]
      /\ \A q \in Providers : q # p => Aside(q)
      /\ att'[p] = b
  BY <1>2, <1>3, OneAttempt DEF CostInv
<1>5. RaceGoesOn
  <2>1. race' = Launching(race)
    BY DEF Trigger
  <2> QED BY <1>1, <2>1, LaunchingTyped DEF RaceGoesOn
<1>6. p # race.winner /\ (att[p].kept => mode.bill)
  BY <1>1, NoWinner DEF CostInv, WriterInv, AfterWin
<1> QED BY <1>1, <1>2, <1>4, <1>5, <1>6, AttemptKeeps DEF AfterWin

\* A client that leaves aborts the attempts.
LEMMA ClientAbortCost ==
    ASSUME CostInv, ClientAbort
    PROVE  CostInv'
<1> DEFINE r == [race EXCEPT !.noMore = TRUE]
<1>1. /\ race' = Finished(r, {}) /\ AbortAll(Live, FALSE, None, NewAttempt)
      /\ row' = row /\ mode' = mode
  BY DEF ClientAbort
<1>2. /\ r \in Races /\ r.launched = race.launched /\ r.winner = race.winner
      /\ r.main = race.main /\ r.target = race.target /\ r.launcher = race.launcher
  BY DEF CostInv, Typed, Races
<1>3. RaceGoesOn /\ race'.launcher = race.launcher
  BY <1>1, <1>2, FinishedTyped DEF RaceGoesOn
<1>4. att' \in [Providers -> AnyAttempt] /\ \A q \in Providers : Aside(q)
  BY <1>1, AbortAllAside, RaceAssumption DEF CostInv
<1>5. race.main = "starting" => race'.launcher = "idle"
  BY <1>3 DEF CostInv, LaunchInv
<1> QED BY <1>1, <1>3, <1>4, <1>5, AbortKeeps

\* A race that is lost writes nothing.
LEMMA SettleCost ==
    ASSUME CostInv, SettleFailure
    PROVE  CostInv'
<1>1. /\ race' = [race EXCEPT !.result = "error"] /\ att' = att
      /\ row' = row /\ mode' = mode
  BY DEF SettleFailure
<1>2. /\ race' \in Races /\ race'.launched = race.launched /\ race'.winner = race.winner
      /\ race'.main = race.main /\ race'.target = race.target
      /\ race'.launcher = race.launcher
  BY <1>1 DEF CostInv, Typed, Races
<1>3. LaunchInv'
  BY <1>1, <1>2 DEF CostInv, LaunchInv
<1> QED BY <1>1, <1>2, <1>3, RaceKeepsCost

\* At first nothing is launched and nothing is written.
LEMMA InitCost ==
    ASSUME Init
    PROVE  CostInv
<1>1. /\ row = [cost |-> [p \in Providers |-> 0], losers |-> {}]
      /\ att = [p \in Providers |-> NewAttempt]
      /\ race = [settled |-> FALSE, result |-> "none", winner |-> None, noMore |-> FALSE,
                 launched |-> {Initial}, main |-> "starting", launcher |-> "idle",
                 target |-> None, displaced |-> FALSE]
      /\ mode \in [gated : BOOLEAN, bill : BOOLEAN]
  BY DEF Init, InitRow
<1>2. NewAttempt \in AnyAttempt /\ NewAttempt.stage = "new" /\ ~NewAttempt.kept
  BY DEF NewAttempt, AnyAttempt, Stages
<1>3. Typed
  <2>1. race \in Races
    BY <1>1, RaceAssumption DEF Races
  <2> QED BY <1>1, <1>2, <2>1 DEF Typed
<1>4. LaunchInv
  BY <1>1, <1>2 DEF LaunchInv
<1>5. WriterInv
  BY <1>1, <1>2, RaceAssumption DEF WriterInv, AfterWin
<1>6. CostIsSum
  BY <1>1 DEF CostIsSum
<1> QED BY <1>3, <1>4, <1>5, <1>6 DEF CostInv

\* Every step keeps the invariant.
LEMMA NextCost ==
    ASSUME CostInv, [Next]_vars
    PROVE  CostInv'
<1>1. CASE LauncherStep
  BY <1>1, StartCost, StartOverCost, SelectCost, PrepareCost DEF LauncherStep
<1>2. CASE SettleFailure
  BY <1>2, SettleCost
<1>3. CASE ClientAbort
  BY <1>3, ClientAbortCost
<1>4. ASSUME NEW p \in Providers, AttemptStep(p)
      PROVE  CostInv'
  BY <1>4, OpenCost, ReadingCost, PassedCost, CategorizedCost, RecordedCost, StreamCost,
     DrainedCost, CostedCost DEF AttemptStep
<1>5. ASSUME NEW p \in Providers, Trigger(p)
      PROVE  CostInv'
  BY <1>5, TriggerCost
<1>6. ASSUME UNCHANGED <<row, mode, race, att>>
      PROVE  CostInv'
  BY <1>6 DEF CostInv, Typed, LaunchInv, WriterInv, CostIsSum
<1>7. CASE \E o \in Others : OtherAcquires(o) \/ OtherReleases(o)
  BY <1>6, <1>7 DEF OtherAcquires, OtherReleases
<1>8. CASE UNCHANGED vars
  BY <1>6, <1>8 DEF vars
<1> QED BY <1>1, <1>2, <1>3, <1>4, <1>5, <1>7, <1>8 DEF Next

\* Whatever the number of providers and the order of the writes, and however often
\* one is sent, the row of a request costs its winner and its billed losers, each once,
\* and nothing else; a billed loser is missing only once handleNonStream has written the
\* cost of a winner without an event stream (updateRequestCostFromUsage,
\* addMessageRequestHedgeLoserCost).
THEOREM CostIsTheSum == Spec => []CostIsSum
<1>1. Init => CostInv
  BY InitCost
<1>2. CostInv /\ [Next]_vars => CostInv'
  BY NextCost
<1>3. CostInv => CostIsSum
  BY DEF CostInv
<1> QED BY <1>1, <1>2, <1>3, PTL DEF Spec

-----------------------------------------------------------------------------
\* Induction over the subsets of a finite set, of which G holds those a claim is true of.
LEMMA SubsetInduction ==
    ASSUME NEW S, IsFiniteSet(S), NEW G,
           \A T \in SUBSET S : (\A U \in SUBSET T : U # T => U \in G) => T \in G
    PROVE  \A T \in SUBSET S : T \in G
<1> DEFINE Bad == {T \in SUBSET S : T \notin G}
<1>1. IsWellFoundedOn(StrictSubsetOrdering(S), SUBSET S)
  BY FS_StrictSubsetOrderingWellFounded, FS_FiniteSubsetsOfFinite
<1>2. SUFFICES ASSUME Bad # {} PROVE FALSE
  OBVIOUS
<1>3. PICK T \in Bad : \A U \in Bad : ~ (<<U, T>> \in StrictSubsetOrdering(S))
  <2>1. Bad \subseteq SUBSET S
    OBVIOUS
  <2> HIDE DEF Bad
  <2> QED BY <1>1, <1>2, <2>1, WFMin
<1>4. \A U \in SUBSET T : U # T => U \in G
  BY <1>3 DEF StrictSubsetOrdering
<1> QED BY <1>3, <1>4

\* The claimant of a set its sum takes first.
First(T) == CHOOSE c \in T : TRUE

\* It is one of them.
LEMMA FirstIn == \A T : T # {} => First(T) \in T
BY DEF First

\* `g` sums up `held` over the subsets of S.
SumsUp(g, held, S) ==
    g = [T \in SUBSET S |-> IF T = {} THEN 0 ELSE held[First(T)] + g[T \ {First(T)}]]

\* Two such functions agree where both are defined.
LEMMA SumsAgree ==
    ASSUME NEW S, IsFiniteSet(S), NEW U \in SUBSET S, NEW held, NEW g, NEW h,
           SumsUp(g, held, S), SumsUp(h, held, U)
    PROVE  \A T \in SUBSET U : g[T] = h[T]
<1> DEFINE G == {T \in SUBSET U : g[T] = h[T]}
<1>1. ASSUME NEW T \in SUBSET U, \A V \in SUBSET T : V # T => V \in G
      PROVE  T \in G
  <2>1. CASE T = {}
    BY <2>1 DEF SumsUp
  <2>2. CASE T # {}
    <3>1. First(T) \in T
      BY <2>2, FirstIn
    <3>2. PICK V : V = T \ {First(T)}
      OBVIOUS
    <3>3. g[V] = h[V]
      BY <1>1, <3>1, <3>2
    <3>4. g[T] = held[First(T)] + g[V] /\ h[T] = held[First(T)] + h[V]
      BY <2>2, <3>2 DEF SumsUp
    <3> QED BY <3>3, <3>4
  <2> QED BY <2>1, <2>2
<1>2. IsFiniteSet(U)
  BY FS_Subset
<1> HIDE DEF G
<1>3. \A T \in SUBSET U : T \in G
  BY <1>1, <1>2, SubsetInduction
<1> QED BY <1>3 DEF G

\* There is one for every finite set.
LEMMA SumsExist ==
    ASSUME NEW S, IsFiniteSet(S), NEW held
    PROVE  \E g : SumsUp(g, held, S)
<1> DEFINE G == {T \in SUBSET S : \E g : SumsUp(g, held, T)}
<1>1. ASSUME NEW T \in SUBSET S, \A V \in SUBSET T : V # T => V \in G
      PROVE  T \in G
  <2> DEFINE H(V) == CHOOSE g : SumsUp(g, held, V)
             Sum(V) == IF V = {} THEN 0
                       ELSE held[First(V)] + H(V \ {First(V)})[V \ {First(V)}]
  <2>1. \A V \in SUBSET T : V # T => SumsUp(H(V), held, V)
    BY <1>1
  <2>2. PICK g : g = [V \in SUBSET T |-> Sum(V)]
    OBVIOUS
  <2>3. ASSUME NEW V \in SUBSET T, V # T
        PROVE  g[V] = H(V)[V]
    <3>1. SumsUp(H(V), held, V) /\ g[V] = Sum(V) /\ V \in SUBSET V
      BY <2>1, <2>2, <2>3
    <3>2. CASE V = {}
      BY <3>1, <3>2 DEF SumsUp
    <3>3. CASE V # {}
      <4>1. PICK W : W = V \ {First(V)}
        OBVIOUS
      <4>2. W \in SUBSET V /\ W \in SUBSET T /\ W # T /\ W \in SUBSET W /\ IsFiniteSet(V)
        BY <2>3, <3>3, <4>1, FirstIn, FS_Subset
      <4>3. SumsUp(H(W), held, W)
        BY <2>1, <4>2
      <4>4. H(V)[W] = H(W)[W]
        <5> HIDE DEF H
        <5> QED BY <3>1, <4>2, <4>3, SumsAgree
      <4>5. H(V)[V] = held[First(V)] + H(V)[W]
        <5> HIDE DEF H
        <5> QED BY <3>1, <3>3, <4>1 DEF SumsUp
      <4>6. Sum(V) = held[First(V)] + H(W)[W]
        BY <3>3, <4>1
      <4> HIDE DEF H, Sum
      <4> QED BY <3>1, <4>4, <4>5, <4>6
    <3> QED BY <3>2, <3>3
  <2>4. ASSUME NEW V \in SUBSET T, V # {}
        PROVE  Sum(V) = held[First(V)] + g[V \ {First(V)}]
    <3>1. PICK W : W = V \ {First(V)}
      OBVIOUS
    <3>2. W \in SUBSET T /\ W # T
      BY <2>4, <3>1, FirstIn
    <3>3. g[W] = H(W)[W]
      BY <2>3, <3>2
    <3>4. Sum(V) = held[First(V)] + H(W)[W]
      BY <2>4, <3>1
    <3> HIDE DEF H, Sum
    <3> QED BY <3>1, <3>3, <3>4
  <2>5. g = [V \in SUBSET T |-> IF V = {} THEN 0 ELSE held[First(V)] + g[V \ {First(V)}]]
    <3>1. \A V \in SUBSET T : Sum(V) = IF V = {} THEN 0 ELSE held[First(V)] + g[V \ {First(V)}]
      BY <2>4
    <3> HIDE DEF Sum
    <3> QED BY <2>2, <3>1
  <2> QED BY <2>5 DEF SumsUp
<1> HIDE DEF G
<1>2. \A T \in SUBSET S : T \in G
  BY <1>1, SubsetInduction
<1> QED BY <1>2 DEF G

\* So the total is such a sum.
LEMMA TotalIsSum ==
    ASSUME NEW held
    PROVE  \E g : SumsUp(g, held, Claimants) /\ Total(held) = g[Claimants]
<1>1. PICK g : g = CHOOSE f : f = [T \in SUBSET Claimants |->
                      IF T = {} THEN 0
                      ELSE LET c == CHOOSE c \in T : TRUE IN held[c] + f[T \ {c}]]
  OBVIOUS
<1>2. Total(held) = g[Claimants]
  BY <1>1 DEF Total
<1>3. \E f : f = [T \in SUBSET Claimants |->
                      IF T = {} THEN 0
                      ELSE LET c == CHOOSE c \in T : TRUE IN held[c] + f[T \ {c}]]
  <2>1. PICK f : SumsUp(f, held, Claimants)
    BY SumsExist, BudgetAssumption
  <2> QED BY <2>1, Zenon DEF SumsUp, First
<1>4. SumsUp(g, held, Claimants)
  BY <1>1, <1>3 DEF SumsUp, First
<1> QED BY <1>2, <1>4

\* When those in A hold k more than before, so does the total, for each of them.
LEMMA TotalGrows ==
    ASSUME NEW held \in [Claimants -> Int], NEW more \in [Claimants -> Int],
           NEW A \in SUBSET Claimants, NEW k \in Int,
           \A c \in Claimants : more[c] = IF c \in A THEN held[c] + k ELSE held[c]
    PROVE  /\ Total(held) \in Int /\ Total(more) \in Int
           /\ Total(more) = Total(held) + Cardinality(A) * k
<1>1. PICK g : SumsUp(g, held, Claimants) /\ Total(held) = g[Claimants]
  BY TotalIsSum
<1>2. PICK h : SumsUp(h, more, Claimants) /\ Total(more) = h[Claimants]
  BY TotalIsSum
<1> DEFINE G == {T \in SUBSET Claimants :
                   g[T] \in Int /\ h[T] \in Int /\ h[T] = g[T] + Cardinality(A \cap T) * k}
<1>3. ASSUME NEW T \in SUBSET Claimants, \A V \in SUBSET T : V # T => V \in G
      PROVE  T \in G
  <2>1. CASE T = {}
    <3>1. g[T] = 0 /\ h[T] = 0
      BY <1>1, <1>2, <2>1 DEF SumsUp
    <3>2. Cardinality(A \cap T) = 0
      BY <2>1, FS_EmptySet
    <3> QED BY <3>1, <3>2
  <2>2. CASE T # {}
    <3>1. PICK c \in T : c = First(T)
      BY <2>2, FirstIn
    <3>2. PICK V : V = T \ {c}
      OBVIOUS
    <3>3. g[T] = held[c] + g[V] /\ h[T] = more[c] + h[V]
      BY <1>1, <1>2, <2>2, <3>1, <3>2 DEF SumsUp
    <3>4. g[V] \in Int /\ h[V] \in Int /\ h[V] = g[V] + Cardinality(A \cap V) * k
      BY <1>3, <3>1, <3>2
    <3>5. /\ Cardinality(A \cap V) \in Nat
          /\ Cardinality(A \cap T) = IF c \in A THEN Cardinality(A \cap V) + 1
                                    ELSE Cardinality(A \cap V)
      <4>1. PICK X, Y : X = A \cap T /\ Y = A \cap V
        OBVIOUS
      <4>2. IsFiniteSet(X) /\ Y = X \ {c} /\ (c \in X <=> c \in A)
        <5>1. X \in SUBSET Claimants
          BY <4>1
        <5> QED BY <3>1, <3>2, <4>1, <5>1, FS_Subset, BudgetAssumption
      <4>3. /\ IsFiniteSet(Y)
            /\ Cardinality(Y) = IF c \in X THEN Cardinality(X) - 1 ELSE Cardinality(X)
        BY <4>2, FS_RemoveElement
      <4>4. Cardinality(X) \in Nat /\ Cardinality(Y) \in Nat
        BY <4>2, <4>3, FS_CardinalityType
      <4> QED BY <4>1, <4>2, <4>3, <4>4
    <3>6. PICK n \in Nat : n = Cardinality(A \cap V)
      BY <3>5
    <3>7. (n + 1) * k = n * k + k /\ n * k \in Int
      OBVIOUS
    <3> QED BY <3>3, <3>4, <3>5, <3>6, <3>7
  <2> QED BY <2>1, <2>2
<1>4. Claimants \in G
  <2> HIDE DEF G
  <2> QED BY <1>3, SubsetInduction, BudgetAssumption
<1>5. A \cap Claimants = A
  OBVIOUS
<1> QED BY <1>1, <1>2, <1>4, <1>5

\* A total of integers is one.
LEMMA TotalType ==
    ASSUME NEW held \in [Claimants -> Int]
    PROVE  Total(held) \in Int
<1> PICK more \in [Claimants -> Int] : more = held
  OBVIOUS
<1> PICK A \in SUBSET Claimants : A = {}
  OBVIOUS
<1> PICK k \in Int : k = 0
  OBVIOUS
<1>1. \A c \in Claimants : more[c] = IF c \in A THEN held[c] + k ELSE held[c]
  OBVIOUS
<1>2. Total(more) \in Int
  BY <1>1, TotalGrows
<1> QED BY <1>2

\* When one of them holds k more, so does the total.
LEMMA OneGrows ==
    ASSUME NEW held \in [Claimants -> Int], NEW more \in [Claimants -> Int],
           NEW c \in Claimants, NEW k \in Int, more[c] = held[c] + k,
           \A d \in Claimants \ {c} : more[d] = held[d]
    PROVE  Total(more) = Total(held) + k
<1>1. ASSUME NEW A \in SUBSET Claimants, c \in A, \A d \in A : d = c
      PROVE  Total(more) = Total(held) + Cardinality(A) * k
  <2>1. \A d \in Claimants : more[d] = IF d \in A THEN held[d] + k ELSE held[d]
    BY <1>1
  <2> QED BY <2>1, TotalGrows
<1>2. Total(more) = Total(held) + Cardinality({c}) * k
  BY <1>1
<1>3. Cardinality({c}) = 1 /\ Total(held) \in Int
  BY FS_Singleton, TotalType
<1> QED BY <1>2, <1>3

\* Nothing held adds up to nothing.
LEMMA TotalOfNothing == Total([c \in Claimants |-> 0]) = 0
<1>1. PICK held : held = [c \in Claimants |-> 0]
  OBVIOUS
<1>2. PICK g : SumsUp(g, held, Claimants) /\ Total(held) = g[Claimants]
  BY TotalIsSum
<1> DEFINE G == {T \in SUBSET Claimants : g[T] = 0}
<1>3. ASSUME NEW T \in SUBSET Claimants, \A V \in SUBSET T : V # T => V \in G
      PROVE  T \in G
  <2>1. CASE T = {}
    BY <1>2, <2>1 DEF SumsUp
  <2>2. CASE T # {}
    <3>1. PICK c \in T : c = First(T)
      BY <2>2, FirstIn
    <3>2. g[T \ {c}] = 0
      BY <1>3, <3>1
    <3>3. g[T] = held[c] + g[T \ {c}]
      BY <1>2, <2>2, <3>1 DEF SumsUp
    <3>4. held[c] = 0
      BY <1>1
    <3> QED BY <3>2, <3>3, <3>4
  <2> QED BY <2>1, <2>2
<1>4. Claimants \in G
  <2> HIDE DEF G
  <2> QED BY <1>3, SubsetInduction, BudgetAssumption
<1> QED BY <1>1, <1>2, <1>4

-----------------------------------------------------------------------------
\* Standing in a line, as InLine says of the line of the budget.
Stands(c, line) == \E i \in 1..Len(line) : line[i] = c

\* A sound book of the budget: what is in use is what the leases hold, and each that
\* waits does so once and holds nothing.
Book(amount, held, line) ==
    /\ held \in [Claimants -> 0..Size]
    /\ line \in Seq(Claimants)
    /\ \A i, j \in 1..Len(line) : line[i] = line[j] => i = j
    /\ \A i \in 1..Len(line) : held[line[i]] = 0
    /\ amount = Total(held)

\* A claimant an operation is not about: at most it is served.
Unmoved(c) ==
    \/ leases'[c] = leases[c] /\ (Stands(c, waiters') <=> Stands(c, waiters))
    \/ Stands(c, waiters) /\ ~Stands(c, waiters') /\ leases'[c] = Size

\* A drain keeps the book, serves only those in line and moves nobody else.
LEMMA DrainBook ==
    ASSUME NEW amount, NEW held, NEW line, Book(amount, held, line),
           DrainWaiters(amount, held, line)
    PROVE  /\ Book(used', leases', waiters')
           /\ \A c \in Claimants :
                 IF Stands(c, line) THEN leases'[c] = IF Stands(c, waiters') THEN 0 ELSE Size
                 ELSE leases'[c] = held[c] /\ ~Stands(c, waiters')
<1>1. PICK n \in 0..Len(line) :
          /\ used' = amount + n * Size
          /\ leases' = [c \in Claimants |->
                           IF \E i \in 1..n : line[i] = c THEN Size ELSE held[c]]
          /\ waiters' = SubSeq(line, n + 1, Len(line))
  BY DEF DrainWaiters
<1>2. /\ line \in Seq(Claimants) /\ Len(line) \in Nat /\ n \in Nat
      /\ held \in [Claimants -> 0..Size] /\ Size \in Nat /\ amount = Total(held)
      /\ \A i, j \in 1..Len(line) : line[i] = line[j] => i = j
      /\ \A i \in 1..Len(line) : held[line[i]] = 0 /\ line[i] \in Claimants
  BY BudgetAssumption DEF Book
<1>3. /\ waiters' \in Seq(Claimants) /\ Len(waiters') = Len(line) - n
      /\ \A i \in 1..(Len(line) - n) : waiters'[i] = line[n + i]
  BY <1>1, <1>2
<1>left. ASSUME NEW i \in 1..Len(waiters')
         PROVE  waiters'[i] = line[n + i] /\ n + i \in 1..Len(line)
  <2>1. PICK m \in Nat : m = Len(line)
    BY <1>2
  <2>2. n \in 0..m /\ i \in 1..(m - n)
    BY <1>3, <2>1
  <2>3. n + i \in 1..m
    BY <2>2
  <2> QED BY <1>3, <2>1, <2>2, <2>3
<1> DEFINE A == {line[i] : i \in 1..n}
<1>4. A \in SUBSET Claimants /\ \A i \in 1..n : i \in 1..Len(line)
  BY <1>1, <1>2
<1>5. Cardinality(A) = n
  <2>1. IsFiniteSet(1..n) /\ Cardinality(1..n) = n
    BY <1>2, FS_Interval
  <2>2. PICK f : f = [i \in 1..n |-> line[i]]
    OBVIOUS
  <2>3. f \in Bijection(1..n, A)
    <3>1. f \in [1..n -> A] /\ \A x \in A : \E i \in 1..n : f[i] = x
      BY <2>2
    <3>2. \A i, j \in 1..n : f[i] = f[j] => i = j
      BY <1>2, <1>4, <2>2
    <3> HIDE DEF A
    <3> QED BY <3>1, <3>2, Fun_IsBij
  <2>4. ExistsBijection(1..n, A)
    BY <2>3 DEF ExistsBijection
  <2> HIDE DEF A
  <2> QED BY <2>1, <2>4, FS_Bijection
<1>6. \A c \in Claimants : leases'[c] = IF c \in A THEN held[c] + Size ELSE held[c]
  BY <1>1, <1>2, <1>4
<1>7. /\ leases' \in [Claimants -> 0..Size] /\ leases' \in [Claimants -> Int]
      /\ held \in [Claimants -> Int]
  BY <1>1, <1>2
<1>8. used' = Total(leases')
  <2>1. PICK more : more = leases'
    OBVIOUS
  <2>2. Total(more) = Total(held) + Cardinality(A) * Size
    <3>1. \A c \in Claimants : more[c] = IF c \in A THEN held[c] + Size ELSE held[c]
      BY <1>6, <2>1
    <3>2. more \in [Claimants -> Int] /\ Size \in Int
      BY <1>2, <1>7, <2>1
    <3> HIDE DEF A
    <3> QED BY <1>4, <1>7, <3>1, <3>2, TotalGrows
  <2> HIDE DEF A
  <2> QED BY <1>1, <1>2, <1>5, <2>1, <2>2
<1>9. \A i, j \in 1..Len(waiters') : waiters'[i] = waiters'[j] => i = j
  <2> TAKE i, j \in 1..Len(waiters')
  <2>1. /\ waiters'[i] = line[n + i] /\ waiters'[j] = line[n + j]
        /\ n + i \in 1..Len(line) /\ n + j \in 1..Len(line)
    BY <1>left
  <2>2. PICK k \in 1..Len(line), l \in 1..Len(line) : k = n + i /\ l = n + j
    BY <2>1
  <2>3. k = l => i = j
    BY <1>2, <1>3, <2>2
  <2> QED BY <1>2, <2>1, <2>2, <2>3
<1>10. \A i \in 1..Len(waiters') : leases'[waiters'[i]] = 0
  <2> TAKE i \in 1..Len(waiters')
  <2>1. waiters'[i] = line[n + i] /\ n + i \in 1..Len(line)
    BY <1>left
  <2>2. \A j \in 1..n : j # n + i /\ j \in 1..Len(line)
    BY <1>2, <1>4
  <2>3. line[n + i] \notin A /\ line[n + i] \in Claimants /\ held[line[n + i]] = 0
    BY <1>2, <2>1, <2>2
  <2>4. \A c \in Claimants : c \notin A => leases'[c] = held[c]
    BY <1>6
  <2> HIDE DEF A
  <2> QED BY <2>1, <2>3, <2>4
<1>11. Book(used', leases', waiters')
  BY <1>3, <1>7, <1>8, <1>9, <1>10 DEF Book
<1>12. ASSUME NEW c \in Claimants
       PROVE  IF Stands(c, line) THEN leases'[c] = IF Stands(c, waiters') THEN 0 ELSE Size
              ELSE leases'[c] = held[c] /\ ~Stands(c, waiters')
  <2>1. c \in A => Stands(c, line) /\ leases'[c] = Size /\ ~Stands(c, waiters')
    <3> SUFFICES ASSUME c \in A
                 PROVE  Stands(c, line) /\ leases'[c] = Size /\ ~Stands(c, waiters')
      OBVIOUS
    <3>1. Stands(c, line) /\ held[c] = 0
      BY <1>2, <1>4 DEF Stands
    <3>2. leases'[c] = Size
      BY <1>2, <1>6, <3>1
    <3>3. ~Stands(c, waiters')
      <4>1. \A i \in 1..Len(waiters') : leases'[waiters'[i]] = 0
        BY <1>10
      <4>2. Size # 0
        BY BudgetAssumption
      <4> QED BY <3>2, <4>1, <4>2 DEF Stands
    <3> QED BY <3>1, <3>2, <3>3
  <2>2. c \notin A => leases'[c] = held[c] /\ (Stands(c, waiters') <=> Stands(c, line))
    <3> SUFFICES ASSUME c \notin A
                 PROVE  leases'[c] = held[c] /\ (Stands(c, waiters') <=> Stands(c, line))
      OBVIOUS
    <3>1. leases'[c] = held[c]
      BY <1>6
    <3>2. ASSUME Stands(c, line) PROVE Stands(c, waiters')
      <4>1. PICK i \in 1..Len(line) : line[i] = c
        BY <3>2 DEF Stands
      <4>2. i \notin 1..n
        BY <4>1
      <4>3. i - n \in 1..(Len(line) - n) /\ n + (i - n) = i
        BY <1>2, <4>2
      <4>4. waiters'[i - n] = c
        BY <1>3, <4>1, <4>3
      <4> QED BY <1>3, <4>3, <4>4 DEF Stands
    <3>3. ASSUME Stands(c, waiters') PROVE Stands(c, line)
      <4>1. PICK i \in 1..Len(waiters') : waiters'[i] = c
        BY <3>3 DEF Stands
      <4>2. waiters'[i] = line[n + i] /\ n + i \in 1..Len(line)
        BY <1>2, <1>3
      <4> QED BY <4>1, <4>2 DEF Stands
    <3> QED BY <3>1, <3>2, <3>3
  <2>3. Stands(c, line) => held[c] = 0
    BY <1>2 DEF Stands
  <2> QED BY <2>1, <2>2, <2>3
<1> QED BY <1>11, <1>12

\* The line without some of those in it has the others, in a book that is as sound.
LEMMA WithoutBook ==
    ASSUME NEW C, Book(used, leases, waiters)
    PROVE  /\ Book(used, leases, Without(C))
           /\ \A c \in Claimants : Stands(c, Without(C)) <=> Stands(c, waiters) /\ c \notin C
<1> DEFINE stay == {i \in DOMAIN waiters : waiters[i] \notin C}
           before(i) == {j \in stay : j <= i}
           nth(k) == CHOOSE i \in stay : Cardinality(before(i)) = k
<1>1. /\ waiters \in Seq(Claimants) /\ Len(waiters) \in Nat
      /\ DOMAIN waiters = 1..Len(waiters)
      /\ \A i \in 1..Len(waiters) : waiters[i] \in Claimants /\ leases[waiters[i]] = 0
      /\ \A i, j \in 1..Len(waiters) : waiters[i] = waiters[j] => i = j
  BY DEF Book
<1>2. stay \subseteq 1..Len(waiters) /\ IsFiniteSet(stay) /\ Cardinality(stay) \in Nat
  <2>1. stay \in SUBSET (1..Len(waiters)) /\ IsFiniteSet(1..Len(waiters))
    BY <1>1, FS_Interval
  <2> HIDE DEF stay
  <2> QED BY <2>1, FS_Subset, FS_CardinalityType
<1> HIDE DEF stay
<1>3. PICK N \in Nat : N = Cardinality(stay)
  BY <1>2
<1>4. \A i \in stay : i \in Nat /\ i \in 1..Len(waiters)
  BY <1>1, <1>2
<1> DEFINE rank == [i \in stay |-> Cardinality(before(i))]
<1>5. ASSUME NEW i \in stay
      PROVE  /\ IsFiniteSet(before(i)) /\ rank[i] = Cardinality(before(i))
             /\ rank[i] \in 1..N
  <2>1. PICK B : B = before(i)
    OBVIOUS
  <2>2. B \in SUBSET stay /\ i \in B
    BY <1>4, <2>1
  <2>3. IsFiniteSet(B) /\ Cardinality(B) <= N /\ Cardinality(B) \in Nat
    BY <1>2, <1>3, <2>2, FS_Subset, FS_CardinalityType
  <2>4. Cardinality(B) # 0
    BY <2>2, <2>3, FS_EmptySet
  <2> QED BY <1>3, <2>1, <2>3, <2>4
<1>6. ASSUME NEW i \in stay, NEW j \in stay, i < j
      PROVE  rank[i] # rank[j]
  <2>1. PICK B, D : B = before(i) /\ D = before(j)
    OBVIOUS
  <2>2. B \in SUBSET D /\ j \in D /\ j \notin B
    BY <1>4, <1>6, <2>1
  <2>3. IsFiniteSet(D)
    BY <1>5, <2>1
  <2>4. Cardinality(B) # Cardinality(D)
    BY <2>2, <2>3, FS_Subset
  <2> QED BY <1>5, <2>1, <2>4
<1>7. \A i, j \in stay : rank[i] = rank[j] => i = j
  <2> SUFFICES ASSUME NEW i \in stay, NEW j \in stay, rank[i] = rank[j], i # j
               PROVE  FALSE
    OBVIOUS
  <2>1. i < j \/ j < i
    BY <1>4
  <2> HIDE DEF rank
  <2> QED BY <1>6, <2>1
<1>8. \A k \in 1..N : \E i \in stay : rank[i] = k
  <2>1. rank \in Injection(stay, 1..N)
    <3>1. rank \in [stay -> 1..N]
      BY <1>5
    <3> HIDE DEF rank
    <3> QED BY <1>7, <3>1, Fun_IsInj
  <2>2. IsFiniteSet(1..N) /\ Cardinality(1..N) = N
    BY <1>3, FS_Interval
  <2>3. rank \in Surjection(stay, 1..N)
    <3> HIDE DEF rank
    <3> QED BY <1>3, <2>1, <2>2, FS_Injection
  <2> HIDE DEF rank
  <2> QED BY <2>3 DEF Surjection
<1>9. ASSUME NEW k \in 1..N
      PROVE  nth(k) \in stay /\ rank[nth(k)] = k
  BY <1>5, <1>8
<1>10. \A i \in stay : nth(rank[i]) = i
  <2> TAKE i \in stay
  <2>1. nth(rank[i]) \in stay /\ rank[nth(rank[i])] = rank[i]
    BY <1>5, <1>9
  <2> HIDE DEF rank, nth
  <2> QED BY <1>7, <2>1
<1>11. PICK line : line = [k \in 1..N |-> waiters[nth(k)]]
  OBVIOUS
<1>12. Without(C) = line
  BY <1>3, <1>11 DEF Without, stay
<1>13. line \in Seq(Claimants) /\ Len(line) = N
  <2>1. line \in [1..N -> Claimants]
    <3> HIDE DEF nth
    <3> QED BY <1>1, <1>4, <1>9, <1>11
  <2>2. DOMAIN line = 1..N
    BY <1>11
  <2> QED BY <2>1, <2>2
<1>14. \A k \in 1..N : line[k] = waiters[nth(k)] /\ nth(k) \in stay /\ rank[nth(k)] = k
  BY <1>9, <1>11
<1> HIDE DEF nth, rank
<1>15. \A k, l \in 1..N : line[k] = line[l] => k = l
  BY <1>1, <1>4, <1>14
<1>16. \A k \in 1..N : leases[line[k]] = 0
  BY <1>1, <1>4, <1>14
<1>17. Book(used, leases, line)
  BY <1>13, <1>15, <1>16 DEF Book
<1>18. ASSUME NEW c \in Claimants
       PROVE  Stands(c, line) <=> Stands(c, waiters) /\ c \notin C
  <2>1. ASSUME Stands(c, line)
        PROVE  Stands(c, waiters) /\ c \notin C
    <3>1. PICK k \in 1..N : line[k] = c
      BY <1>13, <2>1 DEF Stands
    <3> QED BY <1>4, <1>14, <3>1 DEF Stands, stay
  <2>2. ASSUME Stands(c, waiters), c \notin C
        PROVE  Stands(c, line)
    <3>1. PICK i \in 1..Len(waiters) : waiters[i] = c
      BY <2>2 DEF Stands
    <3>2. i \in stay
      BY <1>1, <2>2, <3>1 DEF stay
    <3>3. rank[i] \in 1..N /\ nth(rank[i]) = i
      BY <1>5, <1>10, <3>2
    <3> QED BY <1>13, <1>14, <3>1, <3>3 DEF Stands
  <2> QED BY <2>1, <2>2
<1> QED BY <1>12, <1>17, <1>18

\* The operations of the budget keep the book, and move nobody but the claimants they
\* are about and those they serve.
LEMMA AcquireBook ==
    ASSUME Book(used, leases, waiters), NEW c \in Claimants, Acquire(c)
    PROVE  /\ Book(used', leases', waiters')
           /\ \A d \in Claimants \ {c} : Unmoved(d)
           /\ leases'[c] = IF Stands(c, waiters') THEN 0 ELSE Size
<1>1. /\ leases \in [Claimants -> 0..Size] /\ leases \in [Claimants -> Int] /\ Size \in Nat
      /\ waiters \in Seq(Claimants) /\ Len(waiters) \in Nat
      /\ leases[c] = 0 /\ ~Stands(c, waiters) /\ used = Total(leases)
      /\ \A i, j \in 1..Len(waiters) : waiters[i] = waiters[j] => i = j
      /\ \A i \in 1..Len(waiters) : leases[waiters[i]] = 0
  BY BudgetAssumption DEF Book, Acquire, InLine, Stands
<1>2. CASE waiters = <<>> /\ used + Size <= Limit
  <2>1. used' = used + Size /\ leases' = [leases EXCEPT ![c] = Size] /\ waiters' = waiters
    BY <1>2 DEF Acquire
  <2>2. PICK more \in [Claimants -> Int] : more = leases'
    BY <1>1, <2>1
  <2>3. Total(more) = Total(leases) + Size
    <3>1. more[c] = leases[c] + Size /\ \A d \in Claimants \ {c} : more[d] = leases[d]
      BY <1>1, <2>1, <2>2
    <3> QED BY <1>1, <3>1, OneGrows
  <2>4. used' = Total(leases')
    BY <1>1, <2>1, <2>2, <2>3
  <2>5. Book(used', leases', waiters')
    BY <1>1, <1>2, <2>1, <2>4 DEF Book
  <2>6. leases'[c] = Size /\ ~Stands(c, waiters') /\ \A d \in Claimants \ {c} : Unmoved(d)
    BY <1>1, <2>1 DEF Unmoved
  <2> QED BY <2>5, <2>6
<1>3. CASE ~(waiters = <<>> /\ used + Size <= Limit)
  <2>1. PICK line : line = Append(waiters, c)
    OBVIOUS
  <2>2. /\ line \in Seq(Claimants) /\ Len(line) = Len(waiters) + 1
        /\ \A i \in 1..Len(waiters) : line[i] = waiters[i]
        /\ line[Len(waiters) + 1] = c
    BY <1>1, <2>1
  <2>3. \A i \in 1..Len(line) : i \in 1..Len(waiters) \/ i = Len(waiters) + 1
    BY <1>1, <2>2
  <2>4. Book(used, leases, line)
    <3>1. \A i \in 1..Len(waiters) : waiters[i] # c
      BY <1>1 DEF Stands
    <3>2. \A i, j \in 1..Len(line) : line[i] = line[j] => i = j
      <4> TAKE i, j \in 1..Len(line)
      <4>1. CASE i \in 1..Len(waiters) /\ j \in 1..Len(waiters)
        BY <1>1, <2>2, <4>1
      <4>2. CASE i = Len(waiters) + 1 \/ j = Len(waiters) + 1
        BY <2>2, <2>3, <3>1, <4>2
      <4> QED BY <2>3, <4>1, <4>2
    <3>3. \A i \in 1..Len(line) : leases[line[i]] = 0
      BY <1>1, <2>2, <2>3
    <3> QED BY <1>1, <2>2, <3>2, <3>3 DEF Book
  <2>5. \A d \in Claimants : Stands(d, line) <=> Stands(d, waiters) \/ d = c
    <3>1. Len(waiters) + 1 \in 1..Len(line) /\ \A i \in 1..Len(waiters) : i \in 1..Len(line)
      BY <1>1, <2>2
    <3> QED BY <1>1, <2>2, <2>3, <3>1 DEF Stands
  <2>6. DrainWaiters(used, leases, line)
    BY <1>3, <2>1 DEF Acquire
  <2>7. /\ Book(used', leases', waiters')
        /\ \A d \in Claimants :
              IF Stands(d, line) THEN leases'[d] = IF Stands(d, waiters') THEN 0 ELSE Size
              ELSE leases'[d] = leases[d] /\ ~Stands(d, waiters')
    BY <2>4, <2>6, DrainBook
  <2>8. \A d \in Claimants : Stands(d, waiters) => leases[d] = 0
    BY <1>1 DEF Stands
  <2> QED BY <2>5, <2>7, <2>8 DEF Unmoved
<1> QED BY <1>2, <1>3

\* A lease shrinks to what is kept of it.
LEMMA ShrinkBook ==
    ASSUME Book(used, leases, waiters), NEW c \in Claimants, NEW bytes \in Nat,
           ~Stands(c, waiters), ShrinkTo(c, bytes)
    PROVE  /\ Book(used', leases', waiters')
           /\ \A d \in Claimants \ {c} : Unmoved(d)
           /\ ~Stands(c, waiters')
           /\ leases'[c] = IF bytes < leases[c] THEN bytes ELSE leases[c]
<1>1. /\ leases \in [Claimants -> 0..Size] /\ leases \in [Claimants -> Int] /\ Size \in Nat
      /\ waiters \in Seq(Claimants) /\ Len(waiters) \in Nat
      /\ used = Total(leases) /\ leases[c] \in 0..Size
      /\ \A i, j \in 1..Len(waiters) : waiters[i] = waiters[j] => i = j
      /\ \A i \in 1..Len(waiters) : leases[waiters[i]] = 0 /\ waiters[i] \in Claimants
  BY BudgetAssumption DEF Book
<1>2. CASE ~(bytes < leases[c])
  <2>1. used' = used /\ leases' = leases /\ waiters' = waiters
    BY <1>2 DEF ShrinkTo, budgetVars
  <2> QED BY <1>2, <2>1 DEF Unmoved
<1>3. CASE bytes < leases[c]
  <2> PICK amount : amount = used - (leases[c] - bytes)
    OBVIOUS
  <2>1. PICK held \in [Claimants -> 0..Size] :
           /\ DrainWaiters(amount, held, waiters)
           /\ amount = used - (leases[c] - bytes) /\ held[c] = bytes
           /\ \A d \in Claimants \ {c} : held[d] = leases[d]
    <3>1. DrainWaiters(used - (leases[c] - bytes), [leases EXCEPT ![c] = bytes], waiters)
      BY <1>3 DEF ShrinkTo
    <3>2. /\ [leases EXCEPT ![c] = bytes] \in [Claimants -> 0..Size]
          /\ [leases EXCEPT ![c] = bytes][c] = bytes
          /\ \A d \in Claimants \ {c} : [leases EXCEPT ![c] = bytes][d] = leases[d]
      BY <1>1, <1>3
    <3> QED BY <3>1, <3>2
  <2>2. held \in [Claimants -> Int]
    BY <1>1
  <2>3. PICK k \in Int : held[c] = leases[c] + k /\ k = bytes - leases[c]
    <3>1. bytes - leases[c] \in Int /\ held[c] = leases[c] + (bytes - leases[c])
      BY <1>1, <2>1
    <3> QED BY <3>1
  <2>4. Total(held) = Total(leases) + k
    BY <1>1, <2>1, <2>2, <2>3, OneGrows
  <2>5. amount = Total(held)
    <3>1. Total(leases) \in Int
      BY <1>1, TotalType
    <3> QED BY <1>1, <2>1, <2>3, <2>4, <3>1
  <2>6. Book(amount, held, waiters)
    <3>1. \A i \in 1..Len(waiters) : waiters[i] # c
      BY DEF Stands
    <3> QED BY <1>1, <2>1, <2>5, <3>1 DEF Book
  <2>7. /\ Book(used', leases', waiters')
        /\ \A d \in Claimants :
              IF Stands(d, waiters) THEN leases'[d] = IF Stands(d, waiters') THEN 0 ELSE Size
              ELSE leases'[d] = held[d] /\ ~Stands(d, waiters')
    BY <2>1, <2>6, DrainBook
  <2>8. \A d \in Claimants : Stands(d, waiters) => leases[d] = 0
    BY <1>1 DEF Stands
  <2> QED BY <1>3, <2>1, <2>7, <2>8 DEF Unmoved
<1> QED BY <1>2, <1>3

\* Those that leave the line are out of it, and hold what they held: nothing.
LEMMA AbortBook ==
    ASSUME Book(used, leases, waiters), NEW C, AbortWait(C),
           \A c \in C : Stands(c, waiters)
    PROVE  /\ Book(used', leases', waiters')
           /\ \A c \in Claimants : IF c \in C THEN ~Stands(c, waiters') /\ leases'[c] = 0
                                    ELSE Unmoved(c)
<1>1. \A d \in Claimants : Stands(d, waiters) => leases[d] = 0
  BY DEF Stands, Book
<1>2. CASE C = {}
  <2>1. used' = used /\ leases' = leases /\ waiters' = waiters
    BY <1>2 DEF AbortWait, budgetVars
  <2> QED BY <1>2, <2>1 DEF Unmoved
<1>3. CASE C # {}
  <2>1. PICK line : line = Without(C)
    OBVIOUS
  <2>2. /\ Book(used, leases, line)
        /\ \A c \in Claimants : Stands(c, line) <=> Stands(c, waiters) /\ c \notin C
    BY <2>1, WithoutBook
  <2>3. DrainWaiters(used, leases, line)
    BY <1>3, <2>1 DEF AbortWait
  <2>4. /\ Book(used', leases', waiters')
        /\ \A d \in Claimants :
              IF Stands(d, line) THEN leases'[d] = IF Stands(d, waiters') THEN 0 ELSE Size
              ELSE leases'[d] = leases[d] /\ ~Stands(d, waiters')
    BY <2>2, <2>3, DrainBook
  <2> QED BY <1>1, <2>2, <2>4 DEF Unmoved
<1> QED BY <1>2, <1>3

-----------------------------------------------------------------------------
\* The reference an attempt still has to give back.
Due(a) == IF a.callback /\ ~a.freed /\ a.stage # "costing" THEN 1 ELSE 0

\* What the stage of an attempt says of the rest of it.
StageFits(a) ==
    /\ a.stage = "new" => a = NewAttempt
    /\ a.live => ~a.done
    /\ a.stage \in {"sending", "reading", "passed", "failing"} => a.live \/ a.done
    /\ a.stage \in {"cancelled", "recording", "finishing"} \cup AfterWin => a.done
    /\ a.freed => a.callback /\ a.done /\ ~a.kept
    /\ a.stage = "cancelled" => ~a.kept
    /\ a.stage \in {"reading", "cancelled", "passed"} =>
          a.callback /\ (a.done /\ ~a.kept => a.freed)
    /\ a.stage = "draining" => a.callback
    /\ a.stage \in AfterWin => a.callback /\ ~a.freed
    /\ a.stage \in {"sending", "failing", "recording", "finishing"} /\ a.callback => a.dropped
    /\ a.stage = "gone" => ~a.callback /\ ~a.live

\* It holds the references it has to give back.  `swapped` is said of the winner and of
\* the initial attempt when the latter replaced the former's callback, and `taken` once
\* the end of the winner's stream gave the latter's reference back.
RefsFit(a, swapped, taken) ==
    /\ a.agents >= Due(a) - (IF taken THEN 1 ELSE 0)
    /\ ~a.dropped /\ ~swapped => a.agents = Due(a)
    /\ a.agents <= IF a.stage = "gone" \/ a.retried THEN 2 ELSE 1
    /\ a.stage = "sending" => a.agents <= IF a.retried THEN 1 ELSE 0

\* What is said of an attempt apart from the budget.
Fits(a, swapped, taken) == a \in AnyAttempt /\ StageFits(a) /\ RefsFit(a, swapped, taken)

\* releaseAttemptAgent gives back what is due.
LEMMA FreedIs ==
    ASSUME NEW a \in AnyAttempt
    PROVE  /\ Freed(a) \in AnyAttempt /\ a.agents \in Int
           /\ Freed(a).stage = a.stage /\ Freed(a).live = a.live /\ Freed(a).done = a.done
           /\ Freed(a).kept = a.kept /\ Freed(a).retried = a.retried
           /\ Freed(a).callback = a.callback /\ Freed(a).dropped = a.dropped
           /\ Freed(a).freed <=> a.freed \/ a.callback
           /\ Freed(a).agents = IF a.callback /\ ~a.freed THEN a.agents - 1 ELSE a.agents
<1>1. CASE a.callback /\ ~a.freed
  <2>1. PICK n \in Int : n = a.agents - 1 /\ a.agents \in Int
    BY DEF AnyAttempt
  <2>2. Freed(a) = [a EXCEPT !.freed = TRUE, !.agents = n]
    BY <1>1, <2>1 DEF Freed
  <2> QED BY <1>1, <2>1, <2>2 DEF AnyAttempt
<1>2. CASE ~(a.callback /\ ~a.freed)
  <2>1. Freed(a) = a
    BY <1>2 DEF Freed
  <2> QED BY <1>2, <2>1 DEF AnyAttempt
<1> QED BY <1>1, <1>2

\* What is left of an attempt that is gone.
LEMMA GoneIs ==
    ASSUME NEW a \in AnyAttempt
    PROVE  /\ Gone(a) \in AnyAttempt
           /\ Gone(a).stage = "gone" /\ Gone(a).done = a.done /\ Gone(a).agents = a.agents
           /\ Gone(a).dropped = a.dropped
           /\ ~Gone(a).live /\ ~Gone(a).kept /\ ~Gone(a).callback /\ ~Gone(a).freed
BY DEF Gone, NewAttempt, AnyAttempt, Stages

\* An attempt may go once nothing is due any more, ...
LEMMA GoneFits ==
    ASSUME NEW swapped \in BOOLEAN, NEW taken \in BOOLEAN, NEW a, Fits(a, swapped, taken),
           ~a.dropped /\ ~swapped => Due(a) = 0
    PROVE  Fits(Gone(a), swapped, taken)
<1>1. a \in AnyAttempt /\ a.agents \in Int
  BY DEF Fits, AnyAttempt
<1>2. PICK b \in AnyAttempt : b = Gone(a)
  BY <1>1, GoneIs
<1>3. /\ b.stage = "gone" /\ b.agents = a.agents /\ b.dropped = a.dropped
      /\ ~b.live /\ ~b.kept /\ ~b.callback /\ ~b.freed
  BY <1>1, <1>2, GoneIs
<1>4. StageFits(b)
  BY <1>3 DEF StageFits, AfterWin
<1>5. RefsFit(b, swapped, taken)
  BY <1>1, <1>3 DEF Fits, RefsFit, Due
<1> QED BY <1>2, <1>4, <1>5 DEF Fits

\* ... or by giving it back.
LEMMA GoneFreedFits ==
    ASSUME NEW swapped \in BOOLEAN, NEW taken \in BOOLEAN, NEW a, Fits(a, swapped, taken),
           a.stage # "costing"
    PROVE  Fits(Gone(Freed(a)), swapped, taken)
<1>1. a \in AnyAttempt /\ a.agents \in Int
  BY DEF Fits, AnyAttempt
<1>2. PICK f \in AnyAttempt, b \in AnyAttempt : f = Freed(a) /\ b = Gone(f)
  BY <1>1, FreedIs, GoneIs
<1>3. /\ f.agents = IF a.callback /\ ~a.freed THEN a.agents - 1 ELSE a.agents
      /\ f.dropped = a.dropped
  BY <1>1, <1>2, FreedIs
<1>4. /\ b.stage = "gone" /\ b.agents = f.agents /\ b.dropped = f.dropped
      /\ ~b.live /\ ~b.kept /\ ~b.callback /\ ~b.freed
  BY <1>2, GoneIs
<1>5. StageFits(b)
  BY <1>4 DEF StageFits, AfterWin
<1>6. RefsFit(b, swapped, taken)
  BY <1>1, <1>3, <1>4 DEF Fits, RefsFit, Due
<1> QED BY <1>2, <1>5, <1>6 DEF Fits

\* The launch of an attempt owes nothing.
LEMMA LaunchedFits ==
    ASSUME mode \in [gated : BOOLEAN, bill : BOOLEAN], NEW p
    PROVE  Fits(Launched(p), FALSE, FALSE) /\ Launched(p).stage = "sending"
<1>1. PICK bill \in BOOLEAN : bill = mode.bill
  OBVIOUS
<1>2. PICK b : b = [NewAttempt EXCEPT !.stage = "sending", !.live = TRUE, !.kept = bill]
  OBVIOUS
<1>3. b = [stage |-> "sending", live |-> TRUE, done |-> FALSE, kept |-> bill,
           triggered |-> FALSE, retried |-> FALSE, callback |-> FALSE, freed |-> FALSE,
           agents |-> 0, dropped |-> FALSE]
  BY <1>2 DEF NewAttempt
<1>4. b \in AnyAttempt
  BY <1>3 DEF AnyAttempt, Stages
<1>5. Fits(b, FALSE, FALSE)
  BY <1>3, <1>4 DEF Fits, StageFits, RefsFit, Due, AfterWin
<1> QED BY <1>1, <1>2, <1>3, <1>5 DEF Launched

\* What is said of an attempt is weaker once the callback of the winner is replaced.
LEMMA SwappedFits ==
    ASSUME NEW a, Fits(a, FALSE, FALSE), NEW swapped \in BOOLEAN
    PROVE  Fits(a, swapped, FALSE)
BY DEF Fits, RefsFit

\* An aborted attempt has given its reference back, unless it is kept to be billed.
LEMMA AbortedFits ==
    ASSUME NEW swapped \in BOOLEAN, NEW taken \in BOOLEAN,
           NEW q \in Providers, Fits(att[q], swapped, taken), att[q].live,
           NEW loses \in BOOLEAN
    PROVE  /\ Fits(Aborted(q, loses), swapped, taken)
           /\ Aborted(q, loses).done /\ ~Aborted(q, loses).live
           /\ Aborted(q, loses).stage =
                 IF att[q].stage # "reading" \/ (loses /\ att[q].kept) THEN att[q].stage
                 ELSE IF InLine(q) THEN "gone" ELSE "cancelled"
<1> DEFINE a == [att[q] EXCEPT !.live = FALSE, !.done = TRUE, !.triggered = FALSE]
           b == [a EXCEPT !.kept = FALSE]
           c == Freed(b)
           d == [c EXCEPT !.stage = IF @ = "reading" THEN "cancelled" ELSE @]
<1>1. att[q] \in AnyAttempt /\ StageFits(att[q]) /\ RefsFit(att[q], swapped, taken)
  BY DEF Fits
<1>2. /\ a \in AnyAttempt /\ a.stage = att[q].stage /\ a.kept = att[q].kept /\ a.done /\ ~a.live
      /\ a.callback = att[q].callback /\ a.freed = att[q].freed /\ a.dropped = att[q].dropped
      /\ a.retried = att[q].retried /\ a.agents = att[q].agents
  BY <1>1 DEF AnyAttempt
<1> HIDE DEF a
<1>3. /\ b \in AnyAttempt /\ b.stage = a.stage /\ ~b.kept /\ b.done /\ ~b.live
      /\ b.callback = a.callback /\ b.freed = a.freed /\ b.dropped = a.dropped
      /\ b.retried = a.retried /\ b.agents = a.agents
  BY <1>2 DEF AnyAttempt
<1> HIDE DEF b
<1>4. /\ c \in AnyAttempt /\ c.stage = b.stage /\ c.live = b.live /\ c.done = b.done
      /\ c.kept = b.kept /\ c.callback = b.callback /\ c.dropped = b.dropped
      /\ c.retried = b.retried /\ (c.freed <=> b.freed \/ b.callback)
      /\ c.agents = IF b.callback /\ ~b.freed THEN b.agents - 1 ELSE b.agents
      /\ b.agents \in Int
  BY <1>3, FreedIs
<1> HIDE DEF c
<1>5. /\ d \in AnyAttempt /\ d.live = c.live /\ d.done = c.done /\ d.freed = c.freed
      /\ d.kept = c.kept /\ d.callback = c.callback /\ d.dropped = c.dropped
      /\ d.retried = c.retried /\ d.agents = c.agents
      /\ d.stage = IF c.stage = "reading" THEN "cancelled" ELSE c.stage
  BY <1>4 DEF AnyAttempt, Stages
<1>6. Aborted(q, loses) = IF loses /\ a.kept THEN a
                          ELSE IF a.stage = "reading" /\ InLine(q) THEN Gone(c) ELSE d
  BY DEF Aborted, a, b, c
<1> HIDE DEF d
<1>7. att[q].stage \in {"sending", "reading", "passed", "failing", "draining"}
  <2>1. att[q].stage \in Stages /\ ~att[q].done
    BY <1>1 DEF AnyAttempt, StageFits
  <2>2. att[q].stage # "new" /\ att[q].stage # "gone"
    <3>1. ~NewAttempt.live
      BY DEF NewAttempt
    <3> QED BY <1>1, <3>1 DEF StageFits
  <2> QED BY <1>1, <2>1, <2>2 DEF Stages, StageFits, AfterWin
<1>8. CASE loses /\ a.kept
  <2>1. StageFits(a)
    BY <1>1, <1>2, <1>7, <1>8 DEF StageFits, AfterWin
  <2>2. RefsFit(a, swapped, taken)
    BY <1>1, <1>2 DEF RefsFit, Due
  <2> QED BY <1>2, <1>6, <1>8, <2>1, <2>2 DEF Fits
<1>9. CASE ~(loses /\ a.kept)
  <2>1. StageFits(d)
    BY <1>1, <1>2, <1>3, <1>4, <1>5, <1>7 DEF StageFits, AfterWin
  <2>2. RefsFit(d, swapped, taken)
    <3>1. Due(d) = 0
      BY <1>3, <1>4, <1>5 DEF Due
    <3>2. att[q].agents \in Int /\ Due(att[q]) = IF b.callback /\ ~b.freed THEN 1 ELSE 0
      BY <1>1, <1>2, <1>3, <1>7 DEF Due, AnyAttempt
    <3>3. d.agents = att[q].agents - Due(att[q]) /\ Due(att[q]) \in {0, 1}
      BY <1>2, <1>3, <1>4, <1>5, <3>2
    <3> QED BY <1>1, <1>2, <1>3, <1>4, <1>5, <1>7, <3>1, <3>2, <3>3 DEF RefsFit
  <2>3. Fits(d, swapped, taken)
    BY <1>5, <2>1, <2>2 DEF Fits
  <2>4. CASE ~(a.stage = "reading" /\ InLine(q))
    BY <1>2, <1>3, <1>4, <1>5, <1>6, <1>9, <2>3, <2>4
  <2>5. CASE a.stage = "reading" /\ InLine(q)
    <3>1. Gone(c) = Gone(d)
      BY <1>5 DEF Gone
    <3>2. Fits(Gone(d), swapped, taken)
      <4>1. Due(d) = 0
        BY <1>3, <1>4, <1>5 DEF Due
      <4> QED BY <2>3, <4>1, GoneFits
    <3>3. Gone(d).stage = "gone" /\ Gone(d).done = d.done /\ ~Gone(d).live
      BY <1>5, GoneIs
    <3> QED BY <1>2, <1>3, <1>4, <1>5, <1>6, <1>9, <2>5, <3>1, <3>2, <3>3
  <2> QED BY <2>4, <2>5
<1> QED BY <1>8, <1>9

\* The response of an attempt is a reference.
LEMMA OpenedFits ==
    ASSUME NEW a, Fits(a, FALSE, FALSE), a.stage = "sending",
           NEW o \in AnyAttempt, o.agents = a.agents + 1, o.callback, o.stage = a.stage,
           o.live = a.live, o.done = a.done, o.kept = a.kept, o.freed = a.freed,
           o.dropped = a.dropped, o.retried = a.retried
    PROVE  /\ Fits([o EXCEPT !.stage = "draining"], FALSE, FALSE)
           /\ Fits(Gone(Freed(o)), FALSE, FALSE)
           /\ ~a.done => Fits([o EXCEPT !.stage = "reading"], FALSE, FALSE)
           /\ ~a.done => Fits([o EXCEPT !.stage = "failing", !.dropped = TRUE], FALSE, FALSE)
<1>1. a \in AnyAttempt /\ StageFits(a) /\ RefsFit(a, FALSE, FALSE)
  BY DEF Fits
<1>2. PICK n \in Int : n = a.agents + 1 /\ a.agents \in Int
  BY <1>1 DEF AnyAttempt
<1>3. /\ o \in AnyAttempt /\ o.agents = n /\ o.callback /\ o.stage = a.stage /\ o.live = a.live
      /\ o.done = a.done /\ o.kept = a.kept /\ o.freed = a.freed /\ o.dropped = a.dropped
      /\ o.retried = a.retried
  BY <1>2
<1>4. /\ n >= 1 /\ (~a.dropped => n = 1 /\ ~a.freed) /\ n <= IF a.retried THEN 2 ELSE 1
  <2>1. Due(a) \in {0, 1} /\ (~a.dropped => Due(a) = 0 /\ ~a.freed)
    BY <1>1 DEF Due, StageFits
  <2> QED BY <1>1, <1>2, <2>1 DEF RefsFit
<1>5. ASSUME NEW d \in AnyAttempt, d.stage \in {"draining", "reading", "failing"},
             d.live = o.live, d.done = o.done, d.kept = o.kept, d.freed = o.freed,
             d.callback = o.callback, d.retried = o.retried, d.agents = o.agents,
             d.dropped = o.dropped \/ d.dropped = TRUE,
             d.stage = "failing" => d.dropped,
             d.stage # "draining" => ~d.done
      PROVE  Fits(d, FALSE, FALSE)
  <2>1. StageFits(d)
    BY <1>1, <1>3, <1>5 DEF StageFits, AfterWin
  <2>2. RefsFit(d, FALSE, FALSE)
    <3>1. Due(d) = IF a.freed THEN 0 ELSE 1
      BY <1>3, <1>5 DEF Due
    <3>2. d.agents = n /\ d.retried = a.retried /\ (~d.dropped => ~a.dropped)
      BY <1>3, <1>5
    <3> QED BY <1>4, <1>5, <3>1, <3>2 DEF RefsFit
  <2> QED BY <1>5, <2>1, <2>2 DEF Fits
<1>6. Fits([o EXCEPT !.stage = "draining"], FALSE, FALSE)
  <2>1. PICK d : d = [o EXCEPT !.stage = "draining"]
    OBVIOUS
  <2>2. /\ d \in AnyAttempt /\ d.stage = "draining"
        /\ d.live = o.live /\ d.done = o.done /\ d.kept = o.kept /\ d.freed = o.freed
        /\ d.callback = o.callback /\ d.retried = o.retried /\ d.agents = o.agents
        /\ d.dropped = o.dropped
    BY <1>3, <2>1 DEF AnyAttempt, Stages
  <2> QED BY <1>5, <2>1, <2>2
<1>7. ~a.done => Fits([o EXCEPT !.stage = "reading"], FALSE, FALSE)
  <2>1. PICK d : d = [o EXCEPT !.stage = "reading"]
    OBVIOUS
  <2>2. /\ d \in AnyAttempt /\ d.stage = "reading"
        /\ d.live = o.live /\ d.done = o.done /\ d.kept = o.kept /\ d.freed = o.freed
        /\ d.callback = o.callback /\ d.retried = o.retried /\ d.agents = o.agents
        /\ d.dropped = o.dropped
    BY <1>3, <2>1 DEF AnyAttempt, Stages
  <2> QED BY <1>3, <1>5, <2>1, <2>2
<1>8. ~a.done => Fits([o EXCEPT !.stage = "failing", !.dropped = TRUE], FALSE, FALSE)
  <2>1. PICK d : d = [o EXCEPT !.stage = "failing", !.dropped = TRUE]
    OBVIOUS
  <2>2. /\ d \in AnyAttempt /\ d.stage = "failing"
        /\ d.live = o.live /\ d.done = o.done /\ d.kept = o.kept /\ d.freed = o.freed
        /\ d.callback = o.callback /\ d.retried = o.retried /\ d.agents = o.agents
        /\ d.dropped = TRUE
    BY <1>3, <2>1 DEF AnyAttempt, Stages
  <2> QED BY <1>3, <1>5, <2>1, <2>2
<1>9. Fits(Gone(Freed(o)), FALSE, FALSE)
  <2>1. PICK d : d = [o EXCEPT !.stage = "draining"]
    OBVIOUS
  <2>2. d.stage = "draining" /\ d \in AnyAttempt
    BY <1>3, <2>1 DEF AnyAttempt, Stages
  <2>3. Fits(Gone(Freed(d)), FALSE, FALSE)
    BY <1>6, <2>1, <2>2, GoneFreedFits
  <2>4. /\ Freed(d).done = Freed(o).done /\ Freed(d).agents = Freed(o).agents
        /\ Freed(d).dropped = Freed(o).dropped
    <3>1. /\ d.done = o.done /\ d.agents = o.agents /\ d.dropped = o.dropped
          /\ d.callback = o.callback /\ d.freed = o.freed
      BY <1>3, <2>1 DEF AnyAttempt
    <3>2. Freed(d).done = d.done /\ Freed(o).done = o.done
      BY <1>3, <2>2, FreedIs
    <3>3. Freed(d).dropped = d.dropped /\ Freed(o).dropped = o.dropped
      BY <1>3, <2>2, FreedIs
    <3>4. Freed(d).agents = Freed(o).agents
      <4>1. Freed(d).agents = IF d.callback /\ ~d.freed THEN d.agents - 1 ELSE d.agents
        BY <2>2, FreedIs
      <4>2. Freed(o).agents = IF o.callback /\ ~o.freed THEN o.agents - 1 ELSE o.agents
        BY <1>3, FreedIs
      <4> QED BY <3>1, <4>1, <4>2
    <3> QED BY <3>1, <3>2, <3>3, <3>4
  <2> QED BY <2>3, <2>4 DEF Gone
<1> QED BY <1>3, <1>6, <1>7, <1>8, <1>9

\* A failure gives back what is due, or leaves it behind with an open response.
LEMMA FailureFits ==
    ASSUME NEW swapped \in BOOLEAN, NEW taken \in BOOLEAN, NEW a, Fits(a, swapped, taken),
           NEW open \in BOOLEAN,
           IF open THEN a.stage \in {"reading", "cancelled"} ELSE a.stage = "sending",
           open /\ Decided => a.done
    PROVE  /\ Fits(Failure(a, open), swapped, taken)
           /\ Failure(a, open).stage \in {"gone", "failing"}
           /\ Failure(a, open).stage = "failing" => ~Decided /\ ~a.done
<1>1. a \in AnyAttempt /\ StageFits(a) /\ RefsFit(a, swapped, taken)
  BY DEF Fits
<1>2. CASE a.done /\ a.kept
  <2>1. Failure(a, open) = Gone(Freed(a))
    BY <1>2 DEF Failure
  <2> QED BY <1>1, <2>1, GoneFreedFits, GoneIs, FreedIs
<1>3. CASE ~(a.done /\ a.kept) /\ (Decided \/ a.done)
  <2>1. Failure(a, open) = Gone(a)
    BY <1>3 DEF Failure
  <2>2. ~a.dropped => Due(a) = 0
    <3>1. CASE open
      <4>1. a.done /\ ~a.kept /\ a.freed
        BY <1>1, <1>3, <3>1 DEF StageFits
      <4> QED BY <4>1 DEF Due
    <3>2. CASE ~open
      BY <1>1, <3>2 DEF StageFits, Due
    <3> QED BY <3>1, <3>2
  <2> QED BY <1>1, <2>1, <2>2, GoneFits, GoneIs
<1>4. CASE ~(a.done /\ a.kept) /\ ~(Decided \/ a.done)
  <2>1. PICK dropped \in BOOLEAN : dropped = (a.dropped \/ open)
    OBVIOUS
  <2>2. PICK b : b = [a EXCEPT !.stage = "failing", !.dropped = dropped]
    OBVIOUS
  <2>3. Failure(a, open) = b
    BY <1>4, <2>1, <2>2 DEF Failure
  <2>4. /\ b \in AnyAttempt /\ b.stage = "failing" /\ b.dropped = dropped
        /\ b.live = a.live /\ b.done = a.done /\ b.kept = a.kept /\ b.freed = a.freed
        /\ b.callback = a.callback /\ b.retried = a.retried /\ b.agents = a.agents
        /\ a.agents \in Int
    BY <1>1, <2>2 DEF AnyAttempt, Stages
  <2>5. StageFits(b)
    BY <1>1, <1>4, <2>1, <2>4 DEF StageFits, AfterWin
  <2>6. RefsFit(b, swapped, taken)
    <3>1. Due(b) = Due(a)
      BY <2>4 DEF Due
    <3>2. b.agents <= IF b.retried THEN 2 ELSE 1
      BY <1>1, <2>4 DEF RefsFit
    <3> QED BY <1>1, <2>1, <2>4, <3>1, <3>2 DEF RefsFit
  <2> QED BY <1>4, <2>3, <2>4, <2>5, <2>6 DEF Fits
<1> QED BY <1>2, <1>3, <1>4

\* A stage that follows another without giving anything back.
LEMMA StageFollows ==
    ASSUME NEW swapped \in BOOLEAN, NEW taken \in BOOLEAN, NEW a, Fits(a, swapped, taken),
           NEW b \in AnyAttempt,
           b.live = a.live \/ (~b.live /\ b.done), b.done = a.done \/ b.done,
           b.kept = a.kept, b.freed = a.freed, b.callback = a.callback,
           b.dropped = a.dropped, b.agents = a.agents,
           b.live => ~b.done,
           \/ /\ a.stage \in {"reading", "cancelled"} /\ b.stage = "passed"
              /\ b.done = a.done /\ b.retried = a.retried
           \/ a.stage = "passed" /\ b.stage = "draining" /\ b.retried = a.retried
           \/ /\ a.stage = "passed" /\ b.stage = "won" /\ ~a.done /\ b.done
              /\ b.retried = a.retried
           \/ a.stage = "won" /\ b.stage = "streaming" /\ b.retried = a.retried /\ b.done = a.done
           \/ /\ a.stage = "failing" /\ b.stage = "sending" /\ ~a.retried /\ b.retried
              /\ b.live = a.live /\ b.done = a.done
           \/ a.stage = "failing" /\ b.stage = "recording" /\ b.done /\ b.retried = a.retried
           \/ /\ a.stage = "recording" /\ b.stage = "finishing" /\ b.done = a.done
              /\ b.retried = a.retried
           \/ /\ a.stage \in {"sending", "reading", "passed", "failing"} /\ b.stage = a.stage
              /\ b.live = a.live /\ b.done = a.done /\ b.retried = a.retried
    PROVE  Fits(b, swapped, taken)
<1>1. a \in AnyAttempt /\ StageFits(a) /\ RefsFit(a, swapped, taken) /\ a.agents \in Int
  BY DEF Fits, AnyAttempt
<1>2. StageFits(b)
  BY <1>1 DEF StageFits, AfterWin
<1>3. Due(b) = Due(a)
  BY DEF Due
<1>4. RefsFit(b, swapped, taken)
  BY <1>1, <1>3 DEF RefsFit
<1> QED BY <1>2, <1>4 DEF Fits

-----------------------------------------------------------------------------
\* What the lease of an attempt holds at each stage of it, once it is out of the line.
Holds(stage) == IF stage \in {"reading", "cancelled"} THEN Size
                ELSE IF stage \in {"passed", "won"} THEN Prefix ELSE 0

\* It waits, or holds that.
LeaseFits(p, a, gated, lease, line) ==
    /\ Stands(p, line) => gated /\ a.stage = "reading"
    /\ lease = IF gated /\ ~Stands(p, line) THEN Holds(a.stage) ELSE 0

\* Whose references are not counted on, once the initial attempt replaced the callbacks.
Swapped(p, r) == r.displaced /\ p \in {r.winner, Initial}
Taken(p, r, g) == p = Initial /\ r.displaced /\ g = None

\* What the session would call is the winner's, until the initial attempt replaces it.
AgentFits ==
    /\ race.displaced => /\ race.winner \in Providers \ {Initial}
                         /\ att[Initial].stage \in {"draining", "gone"}
    /\ \A q \in Providers : att[q].stage \in {"won", "streaming"} =>
                               agent = IF race.displaced THEN Initial ELSE q

\* Once the race is decided, the attempts that got so far are aborted.
Opened == {"reading", "passed", "failing"}
ClosedFits == Decided => \A q \in Providers : att[q].stage \in Opened => att[q].done

\* The invariant of what is held.
HoldInv ==
    /\ Book(used, leases, waiters)
    /\ \A p \in Providers : /\ Fits(att[p], Swapped(p, race), Taken(p, race, agent))
                            /\ LeaseFits(p, att[p], mode.gated, leases[p], waiters)
    /\ AgentFits /\ ClosedFits

\* What a step does to an attempt that neither wins nor answers the client.
Goes(q) ==
    /\ Fits(att'[q], Swapped(q, race), Taken(q, race, agent))
    /\ LeaseFits(q, att'[q], mode.gated, leases'[q], waiters')
    /\ att'[q].stage \in {"won", "streaming"} => att[q].stage \in {"won", "streaming"}
    /\ att[q].stage \in {"draining", "gone"} => att'[q].stage \in {"draining", "gone"}
    /\ Decided /\ att'[q].stage \in Opened => att'[q].done

\* Both are true or false.
LEMMA AreBooleans ==
    ASSUME NEW p, NEW r, NEW g
    PROVE  Swapped(p, r) \in BOOLEAN /\ Taken(p, r, g) \in BOOLEAN
BY DEF Swapped, Taken

\* Standing in line, said in two ways.
LEMMA InLineIs ==
    ASSUME Book(used, leases, waiters), NEW c
    PROVE  InLine(c) <=> Stands(c, waiters)
<1>1. DOMAIN waiters = 1..Len(waiters)
  BY DEF Book
<1> QED BY <1>1 DEF InLine, Stands

\* What an attempt's lease holds is not changed by what others do, ...
LEMMA LeaseStays ==
    ASSUME NEW p \in Providers, NEW a, NEW b, NEW gated \in BOOLEAN,
           LeaseFits(p, a, gated, leases[p], waiters), Unmoved(p),
           Holds(b.stage) = Holds(a.stage), a.stage = "reading" => b.stage = "reading"
    PROVE  LeaseFits(p, b, gated, leases'[p], waiters')
<1>1. CASE leases'[p] = leases[p] /\ (Stands(p, waiters') <=> Stands(p, waiters))
  BY <1>1 DEF LeaseFits
<1>2. CASE Stands(p, waiters) /\ ~Stands(p, waiters') /\ leases'[p] = Size
  BY <1>2 DEF LeaseFits, Holds
<1> QED BY <1>1, <1>2 DEF Unmoved

\* ... nor is the attempt.
LEMMA Stays ==
    ASSUME HoldInv, mode.gated \in BOOLEAN, NEW q \in Providers, att'[q] = att[q], Unmoved(q)
    PROVE  Goes(q)
<1>1. LeaseFits(q, att'[q], mode.gated, leases'[q], waiters')
  BY LeaseStays DEF HoldInv
<1> QED BY <1>1 DEF HoldInv, Goes, ClosedFits

\* A step that leaves the budget alone.
LEMMA BudgetStays ==
    ASSUME Book(used, leases, waiters), UNCHANGED budgetVars
    PROVE  Book(used', leases', waiters') /\ \A c \in Claimants : Unmoved(c)
<1>1. used' = used /\ leases' = leases /\ waiters' = waiters
  BY DEF budgetVars
<1> QED BY <1>1 DEF Unmoved

\* When all attempts go on like this, and none of them is open as the race is decided.
LEMMA AllGo ==
    ASSUME HoldInv, mode' = mode, Book(used', leases', waiters'),
           \A q \in Providers : Goes(q),
           race'.displaced = race.displaced, race'.winner = race.winner, agent' = agent,
           race'.settled /\ ~Decided =>
              \A q \in Providers : att'[q].stage \in Opened => att'[q].done
    PROVE  HoldInv'
<1>1. \A q \in Providers : /\ Fits(att'[q], Swapped(q, race'), Taken(q, race', agent'))
                           /\ LeaseFits(q, att'[q], mode'.gated, leases'[q], waiters')
  <2>1. \A q \in Providers : /\ Swapped(q, race') = Swapped(q, race)
                             /\ Taken(q, race', agent') = Taken(q, race, agent)
    BY DEF Swapped, Taken
  <2> QED BY <2>1 DEF Goes
<1>2. AgentFits'
  BY RaceAssumption DEF HoldInv, AgentFits, Goes
<1>3. ClosedFits'
  BY DEF ClosedFits, Decided, Goes
<1> QED BY <1>1, <1>2, <1>3 DEF HoldInv

\* The attempts a step aborts, and those it is not about.
LEMMA AbortAllGoes ==
    ASSUME HoldInv, mode.gated \in BOOLEAN, NEW S \in SUBSET Live, NEW loses \in BOOLEAN,
           NEW p, p \notin S, NEW a, AbortAll(S, loses, p, a)
    PROVE  /\ Book(used', leases', waiters')
           /\ \A q \in Providers : q # p => Goes(q) /\ (q \in S => att'[q].done)
                                            /\ (q \notin S => att'[q] = att[q])
           /\ p \in Providers => Unmoved(p) /\ att'[p] = a
<1> DEFINE C == {q \in S : InLine(q) /\ ~(loses /\ att[q].kept)}
<1>1. AbortWait(C) /\ Book(used, leases, waiters)
  BY DEF AbortAll, HoldInv
<1>2. \A q \in S : q \in Providers /\ q \in Claimants /\ att[q].live
  BY RaceAssumption DEF Live
<1>3. \A c \in C : Stands(c, waiters)
  BY <1>1, InLineIs
<1>4. /\ Book(used', leases', waiters')
      /\ \A c \in Claimants : IF c \in C THEN ~Stands(c, waiters') /\ leases'[c] = 0
                              ELSE Unmoved(c)
  <2> HIDE DEF C
  <2> QED BY <1>1, <1>3, AbortBook
<1>5. \A q \in Providers : att'[q] = IF q = p THEN a
                                     ELSE IF q \in S THEN Aborted(q, loses) ELSE att[q]
  BY DEF AbortAll
<1>6. ASSUME NEW q \in Providers, q # p
      PROVE  Goes(q) /\ (q \in S => att'[q].done) /\ (q \notin S => att'[q] = att[q])
  <2>1. CASE q \notin S
    <3>1. att'[q] = att[q] /\ Unmoved(q)
      BY <1>4, <1>5, <1>6, <2>1, RaceAssumption
    <3> QED BY <2>1, <3>1, Stays
  <2>2. CASE q \in S
    <3>1. att'[q] = Aborted(q, loses) /\ att[q].live
      BY <1>2, <1>5, <1>6, <2>2
    <3>2. Fits(att[q], Swapped(q, race), Taken(q, race, agent))
      BY DEF HoldInv
    <3>3. /\ Fits(att'[q], Swapped(q, race), Taken(q, race, agent)) /\ att'[q].done
          /\ att'[q].stage =
                IF att[q].stage # "reading" \/ (loses /\ att[q].kept) THEN att[q].stage
                ELSE IF InLine(q) THEN "gone" ELSE "cancelled"
      BY <3>1, <3>2, AreBooleans, AbortedFits
    <3>4. LeaseFits(q, att[q], mode.gated, leases[q], waiters)
      BY DEF HoldInv
    <3>5. LeaseFits(q, att'[q], mode.gated, leases'[q], waiters')
      <4>1. CASE q \in C
        <5>1. ~Stands(q, waiters') /\ leases'[q] = 0 /\ Stands(q, waiters)
          BY <1>3, <1>4, <4>1, RaceAssumption
        <5>2. att'[q].stage = "gone"
          BY <3>3, <3>4, <4>1, <5>1 DEF LeaseFits
        <5> QED BY <5>1, <5>2 DEF LeaseFits, Holds
      <4>2. CASE q \notin C
        <5>1. Unmoved(q)
          BY <1>4, <4>2, RaceAssumption
        <5>2. InLine(q) => loses /\ att[q].kept
          BY <2>2, <4>2
        <5>3. InLine(q) <=> Stands(q, waiters)
          BY <1>1, InLineIs
        <5>4. CASE InLine(q)
          <6>1. att'[q].stage = att[q].stage
            BY <3>3, <5>2, <5>4
          <6> QED BY <3>4, <5>1, <6>1, LeaseStays
        <5>5. CASE ~InLine(q)
          <6>1. leases'[q] = leases[q] /\ ~Stands(q, waiters') /\ ~Stands(q, waiters)
            BY <5>1, <5>3, <5>5 DEF Unmoved
          <6>2. Holds(att'[q].stage) = Holds(att[q].stage)
            BY <3>3, <5>5 DEF Holds
          <6> QED BY <3>4, <6>1, <6>2 DEF LeaseFits
        <5> QED BY <5>4, <5>5
      <4> QED BY <4>1, <4>2
    <3>6. /\ att'[q].stage \in {"won", "streaming"} => att[q].stage \in {"won", "streaming"}
          /\ att[q].stage \in {"draining", "gone"} => att'[q].stage \in {"draining", "gone"}
      BY <3>3
    <3> QED BY <2>2, <3>3, <3>5, <3>6 DEF Goes
  <2> QED BY <2>1, <2>2
<1>7. p \in Providers => Unmoved(p) /\ att'[p] = a
  BY <1>4, <1>5, RaceAssumption
<1> QED BY <1>4, <1>6, <1>7

-----------------------------------------------------------------------------
\* Attempts that are open are aborted once none is live.
LEMMA NoneLive ==
    ASSUME HoldInv, Live = {}, NEW q \in Providers, att[q].stage \in Opened
    PROVE  att[q].done
BY DEF HoldInv, Fits, StageFits, Live, Opened

\* A step that leaves every attempt as it is.
LEMMA RaceHold ==
    ASSUME CostInv, HoldInv, att' = att, mode' = mode, agent' = agent,
           Book(used', leases', waiters'), \A q \in Providers : Unmoved(q),
           race'.displaced = race.displaced, race'.winner = race.winner,
           race'.settled => race.settled \/ Live = {}
    PROVE  HoldInv'
<1>1. mode.gated \in BOOLEAN
  BY DEF CostInv, Typed
<1>2. \A q \in Providers : Goes(q)
  BY <1>1, Stays
<1>3. race'.settled /\ ~Decided => \A q \in Providers : att'[q].stage \in Opened => att'[q].done
  BY NoneLive DEF Decided
<1> QED BY <1>2, <1>3, AllGo

\* A step that is about one attempt.
LEMMA OneHold ==
    ASSUME CostInv, HoldInv, NEW p \in Providers, NEW b, att' = [att EXCEPT ![p] = b],
           mode' = mode, agent' = agent,
           Book(used', leases', waiters'), \A c \in Claimants \ {p} : Unmoved(c),
           race'.displaced = race.displaced, race'.winner = race.winner,
           race'.settled => race.settled \/ Live = {},
           Fits(b, Swapped(p, race), Taken(p, race, agent)),
           LeaseFits(p, b, mode.gated, leases'[p], waiters'),
           b.stage \in {"won", "streaming"} => att[p].stage \in {"won", "streaming"},
           att[p].stage \in {"draining", "gone"} => b.stage \in {"draining", "gone"},
           Decided \/ Live = {} => b.stage \notin Opened \/ b.done
    PROVE  HoldInv'
<1>1. mode.gated \in BOOLEAN /\ att \in [Providers -> AnyAttempt]
  BY DEF CostInv, Typed
<1>2. att'[p] = b /\ \A q \in Providers \ {p} : att'[q] = att[q]
  BY <1>1
<1>3. \A q \in Providers \ {p} : Goes(q)
  <2> SUFFICES ASSUME NEW q \in Providers \ {p}
               PROVE  Goes(q)
    OBVIOUS
  <2>1. Unmoved(q) /\ att'[q] = att[q]
    BY <1>2, RaceAssumption
  <2> QED BY <1>1, <2>1, Stays
<1>4. Goes(p)
  BY <1>2 DEF Goes
<1>5. race'.settled /\ ~Decided => \A q \in Providers : att'[q].stage \in Opened => att'[q].done
  <2> SUFFICES ASSUME race'.settled, ~Decided, NEW q \in Providers, att'[q].stage \in Opened
               PROVE  att'[q].done
    OBVIOUS
  <2>1. Live = {}
    BY DEF Decided
  <2>2. CASE q = p
    BY <1>2, <2>1, <2>2
  <2>3. CASE q # p
    BY <1>2, <2>1, <2>3, NoneLive
  <2> QED BY <2>2, <2>3
<1>6. \A q \in Providers : Goes(q)
  BY <1>3, <1>4
<1> QED BY <1>5, <1>6, AllGo

\* The same without the budget.
LEMMA OneHoldStill ==
    ASSUME CostInv, HoldInv, NEW p \in Providers, NEW b, att' = [att EXCEPT ![p] = b],
           mode' = mode, agent' = agent, UNCHANGED budgetVars,
           race'.displaced = race.displaced, race'.winner = race.winner,
           race'.settled => race.settled \/ Live = {},
           Fits(b, Swapped(p, race), Taken(p, race, agent)),
           Holds(b.stage) = Holds(att[p].stage),
           att[p].stage = "reading" => b.stage = "reading",
           b.stage \in {"won", "streaming"} => att[p].stage \in {"won", "streaming"},
           att[p].stage \in {"draining", "gone"} => b.stage \in {"draining", "gone"},
           Decided \/ Live = {} => b.stage \notin Opened \/ b.done
    PROVE  HoldInv'
<1>1. Book(used', leases', waiters') /\ \A c \in Claimants : Unmoved(c)
  BY BudgetStays DEF HoldInv
<1>2. LeaseFits(p, b, mode.gated, leases'[p], waiters')
  <2>1. LeaseFits(p, att[p], mode.gated, leases[p], waiters) /\ mode.gated \in BOOLEAN
    BY DEF HoldInv, CostInv, Typed
  <2>2. Unmoved(p)
    BY <1>1, RaceAssumption
  <2> QED BY <2>1, <2>2, LeaseStays
<1> QED BY <1>1, <1>2, OneHold

\* What is known of the attempt a step is about.
LEMMA Known ==
    ASSUME CostInv, HoldInv, NEW p \in Providers
    PROVE  /\ p \in Claimants /\ att[p] \in AnyAttempt
           /\ Fits(att[p], Swapped(p, race), Taken(p, race, agent))
           /\ Swapped(p, race) \in BOOLEAN /\ Taken(p, race, agent) \in BOOLEAN
           /\ LeaseFits(p, att[p], mode.gated, leases[p], waiters)
           /\ mode.gated \in BOOLEAN /\ leases[p] \in 0..Size
           /\ InLine(p) <=> Stands(p, waiters)
<1>1. Book(used, leases, waiters)
  BY DEF HoldInv
<1>2. p \in Claimants /\ leases[p] \in 0..Size
  BY <1>1, RaceAssumption DEF Book
<1>3. InLine(p) <=> Stands(p, waiters)
  BY <1>1, InLineIs
<1> QED BY <1>2, <1>3, AreBooleans DEF HoldInv, CostInv, Typed

\* Ending an exhausted race, and asking for a launch, take no callback away.
LEMMA FinishedSame ==
    ASSUME NEW r \in Races, NEW live
    PROVE  /\ Finished(r, live).displaced = r.displaced /\ Finished(r, live).winner = r.winner
           /\ Finished(r, live).settled => r.settled \/ live = {}
BY DEF Finished, Races

\* Nor does asking for a launch.
LEMMA LaunchingSame ==
    ASSUME NEW r \in Races
    PROVE  /\ Launching(r).displaced = r.displaced /\ Launching(r).winner = r.winner
           /\ Launching(r).settled = r.settled
BY DEF Launching, Races

\* Steps of the launches that are about no attempt.
LEMMA LauncherHold ==
    ASSUME CostInv, HoldInv, att' = att, mode' = mode, agent' = agent, UNCHANGED budgetVars,
           NEW r \in Races, r.displaced = race.displaced, r.winner = race.winner,
           r.settled => race.settled \/ Live = {},
           race'.displaced = r.displaced, race'.winner = r.winner, race'.settled = r.settled
    PROVE  HoldInv'
<1>1. Book(used', leases', waiters') /\ \A q \in Providers : Unmoved(q)
  BY BudgetStays, RaceAssumption DEF HoldInv
<1> QED BY <1>1, RaceHold

\* A provider that has no attempt holds nothing, and its launch asks for nothing.
LEMMA LaunchHold ==
    ASSUME CostInv, HoldInv, NEW p \in Providers, att[p].stage = "new",
           att' = [att EXCEPT ![p] = Launched(p)], mode' = mode, agent' = agent,
           UNCHANGED budgetVars, race'.displaced = race.displaced,
           race'.winner = race.winner, race'.settled = race.settled
    PROVE  HoldInv'
<1>1. mode \in [gated : BOOLEAN, bill : BOOLEAN]
  BY DEF CostInv, Typed
<1>2. ~Swapped(p, race) /\ ~Taken(p, race, agent)
  <2>1. p = race.winner => FALSE
    BY DEF CostInv, WriterInv, AfterWin
  <2>2. race.displaced => p # Initial
    BY DEF HoldInv, AgentFits
  <2> QED BY <2>1, <2>2 DEF Swapped, Taken
<1>3. Fits(Launched(p), FALSE, FALSE) /\ Launched(p).stage = "sending"
  BY <1>1, LaunchedFits
<1>4. Swapped(p, race) = FALSE /\ Taken(p, race, agent) = FALSE
  BY <1>2, AreBooleans
<1>5. Fits(Launched(p), Swapped(p, race), Taken(p, race, agent))
  BY <1>3, <1>4
<1> QED BY <1>3, <1>5, OneHoldStill DEF Holds, Opened

\* The steps of the launches.
LEMMA StartHold ==
    ASSUME CostInv, HoldInv, Start
    PROVE  HoldInv'
<1>1. /\ mode' = mode /\ agent' = agent /\ UNCHANGED budgetVars /\ race \in Races
      /\ race.main = "starting"
  BY DEF Start, CostInv, Typed
<1>2. CASE /\ race' = [race EXCEPT !.main = "waiting"]
           /\ att' = [att EXCEPT ![Initial] = Launched(Initial)]
  <2>1. Initial \in Providers /\ att[Initial].stage = "new"
    BY <1>1, RaceAssumption DEF CostInv, LaunchInv
  <2>2. /\ race'.displaced = race.displaced /\ race'.winner = race.winner
        /\ race'.settled = race.settled
    BY <1>1, <1>2 DEF Races
  <2> QED BY <1>1, <1>2, <2>1, <2>2, LaunchHold
<1>3. CASE race' = [Launching(race) EXCEPT !.main = "launching"] /\ att' = att
  <2>1. /\ race'.displaced = race.displaced /\ race'.winner = race.winner
        /\ race'.settled = race.settled
    <3>1. Launching(race) \in Races
      BY <1>1, LaunchingTyped
    <3>2. /\ race'.displaced = Launching(race).displaced
          /\ race'.winner = Launching(race).winner
          /\ race'.settled = Launching(race).settled
      BY <1>3, <3>1 DEF Races
    <3> QED BY <1>1, <3>2, LaunchingSame
  <2> QED BY <1>1, <1>3, <2>1, LauncherHold
<1> QED BY <1>2, <1>3 DEF Start

\* The replacement of the initial provider.
LEMMA StartOverHold ==
    ASSUME CostInv, HoldInv, StartOver
    PROVE  HoldInv'
<1>1. /\ mode' = mode /\ agent' = agent /\ UNCHANGED budgetVars /\ race \in Races
      /\ att' = att /\ race' = [Finished(race, Live) EXCEPT !.main = "waiting"]
  BY DEF StartOver, CostInv, Typed
<1>2. PICK r \in Races : r = Finished(race, Live)
  BY <1>1, FinishedTyped
<1>3. /\ r.displaced = race.displaced /\ r.winner = race.winner
      /\ r.settled => race.settled \/ Live = {}
  BY <1>1, <1>2, FinishedSame
<1>4. race'.displaced = r.displaced /\ race'.winner = r.winner /\ race'.settled = r.settled
  BY <1>1, <1>2 DEF Races
<1> QED BY <1>1, <1>3, <1>4, LauncherHold

\* Attempts that are aborted as the race ends.
LEMMA AbortHold ==
    ASSUME CostInv, HoldInv, AbortAll(Live, FALSE, None, NewAttempt), mode' = mode,
           agent' = agent, race'.displaced = race.displaced, race'.winner = race.winner
    PROVE  HoldInv'
<1>1. mode.gated \in BOOLEAN /\ None \notin Live /\ None \notin Providers
  BY RaceAssumption DEF CostInv, Typed, Live
<1>2. /\ Book(used', leases', waiters')
      /\ \A q \in Providers : Goes(q) /\ (q \in Live => att'[q].done)
                              /\ (q \notin Live => att'[q] = att[q])
  <2>1. PICK S \in SUBSET Live, loses \in BOOLEAN : S = Live /\ loses = FALSE
    OBVIOUS
  <2>2. AbortAll(S, loses, None, NewAttempt) /\ None \notin S
    BY <1>1, <2>1
  <2>3. /\ Book(used', leases', waiters')
        /\ \A q \in Providers : q # None => Goes(q) /\ (q \in S => att'[q].done)
                                            /\ (q \notin S => att'[q] = att[q])
    BY <1>1, <2>2, AbortAllGoes
  <2> QED BY <1>1, <2>1, <2>3
<1>3. \A q \in Providers : att'[q].stage \in Opened => att'[q].done
  <2> SUFFICES ASSUME NEW q \in Providers, q \notin Live, att'[q].stage \in Opened
               PROVE  att'[q].done
    BY <1>2
  <2>1. att'[q] = att[q] /\ ~att[q].live
    BY <1>2 DEF Live
  <2> QED BY <2>1 DEF HoldInv, Fits, StageFits, Opened
<1> QED BY <1>2, <1>3, AllGo

\* The choice of an alternative.
LEMMA SelectHold ==
    ASSUME CostInv, HoldInv, Select
    PROVE  HoldInv'
<1>1. mode' = mode /\ agent' = agent /\ race \in Races
  BY DEF Select, CostInv, Typed
<1>2. ASSUME NEW p \in Providers \ race.launched, UNCHANGED <<att, budgetVars>>,
             race' = IF Closed
                           THEN [race EXCEPT !.launcher = "idle"]
                           ELSE [race EXCEPT !.launcher = "preparing", !.target = p,
                                             !.launched = @ \cup {p}]
      PROVE  HoldInv'
  <2>1. /\ race'.displaced = race.displaced /\ race'.winner = race.winner
        /\ race'.settled = race.settled
    BY <1>1, <1>2 DEF Races
  <2> QED BY <1>1, <1>2, <2>1, LauncherHold
<1>3. PICK r \in Races : r = [race EXCEPT !.launcher = "idle", !.noMore = TRUE]
  BY <1>1 DEF Races
<1>4. r.displaced = race.displaced /\ r.winner = race.winner /\ r.settled = race.settled
  BY <1>1, <1>3 DEF Races
<1>5. CASE race' = Finished(r, Live) /\ UNCHANGED <<att, budgetVars>>
  <2>1. /\ race'.displaced = r.displaced /\ race'.winner = r.winner
        /\ race'.settled => race.settled \/ Live = {}
    BY <1>4, <1>5, FinishedSame
  <2>2. race' \in Races
    BY <1>5, FinishedTyped
  <2> QED BY <1>1, <1>4, <1>5, <2>1, <2>2, LauncherHold
<1>6. CASE race' = Finished(r, {}) /\ AbortAll(Live, FALSE, None, NewAttempt)
  <2>1. race'.displaced = r.displaced /\ race'.winner = r.winner
    BY <1>6, FinishedSame
  <2> QED BY <1>1, <1>4, <1>6, <2>1, AbortHold
<1> QED BY <1>2, <1>3, <1>5, <1>6 DEF Select

\* The launch of an alternative.
LEMMA PrepareHold ==
    ASSUME CostInv, HoldInv, Prepare
    PROVE  HoldInv'
<1>1. /\ mode' = mode /\ agent' = agent /\ UNCHANGED budgetVars /\ race \in Races
      /\ race.launcher = "preparing"
  BY DEF Prepare, CostInv, Typed
<1>2. race.target \in Providers /\ att[race.target].stage = "new"
  BY <1>1 DEF CostInv, LaunchInv, Races
<1>3. \/ /\ race' = [race EXCEPT !.launcher = "idle", !.target = None]
         /\ att' = [att EXCEPT ![race.target] = Launched(race.target)]
      \/ /\ race' = [race EXCEPT !.launcher = IF Closed THEN "idle" ELSE "selecting",
                                 !.target = None]
         /\ att' = att
  BY Zenon DEF Prepare
<1>4. /\ race'.displaced = race.displaced /\ race'.winner = race.winner
      /\ race'.settled = race.settled
  BY <1>1, <1>3 DEF Races
<1> QED BY <1>1, <1>2, <1>3, <1>4, LaunchHold, LauncherHold

\* A client that leaves.
LEMMA ClientAbortHold ==
    ASSUME CostInv, HoldInv, ClientAbort
    PROVE  HoldInv'
<1>1. race \in Races
  BY DEF CostInv, Typed
<1>2. PICK r \in Races : r = [race EXCEPT !.noMore = TRUE]
  BY <1>1 DEF Races
<1>3. r.displaced = race.displaced /\ r.winner = race.winner
  BY <1>1, <1>2 DEF Races
<1>4. race' = Finished(r, {}) /\ mode' = mode /\ agent' = agent
  BY <1>2 DEF ClientAbort
<1>5. race'.displaced = race.displaced /\ race'.winner = race.winner
  BY <1>3, <1>4, FinishedSame
<1> QED BY <1>4, <1>5, AbortHold DEF ClientAbort

\* A race that is lost.
LEMMA SettleHold ==
    ASSUME CostInv, HoldInv, SettleFailure
    PROVE  HoldInv'
<1>1. /\ race \in Races /\ race' = [race EXCEPT !.result = "error"] /\ att' = att
      /\ mode' = mode /\ agent' = agent /\ UNCHANGED budgetVars
  BY DEF SettleFailure, CostInv, Typed
<1>2. /\ race'.displaced = race.displaced /\ race'.winner = race.winner
      /\ race'.settled = race.settled
  BY <1>1 DEF Races
<1> QED BY <1>1, <1>2, LauncherHold

\* The gates of other requests move no attempt's lease.
LEMMA OthersHold ==
    ASSUME CostInv, HoldInv, NEW o \in Others, OtherAcquires(o) \/ OtherReleases(o)
    PROVE  HoldInv'
<1>1. /\ att' = att /\ mode' = mode /\ agent' = agent /\ race' = race
      /\ Book(used, leases, waiters)
  BY DEF OtherAcquires, OtherReleases, HoldInv
<1>2. o \in Claimants /\ Providers \subseteq Claimants \ {o}
  BY RaceAssumption
<1>3. Book(used', leases', waiters') /\ \A c \in Claimants \ {o} : Unmoved(c)
  <2>1. CASE Acquire(o)
    BY <1>1, <1>2, <2>1, AcquireBook
  <2>2. CASE leases[o] > 0 /\ Release(o)
    <3>1. ~Stands(o, waiters)
      BY <1>1, <2>2 DEF Book, Stands
    <3>2. ShrinkTo(o, 0)
      BY <2>2 DEF Release
    <3> QED BY <1>1, <1>2, <3>1, <3>2, ShrinkBook
  <2> QED BY <2>1, <2>2 DEF OtherAcquires, OtherReleases
<1>4. \A q \in Providers : Unmoved(q)
  BY <1>2, <1>3
<1> QED BY <1>1, <1>3, <1>4, RaceHold

\* A lease that is given back holds nothing.
LEMMA ReleaseIs ==
    ASSUME CostInv, HoldInv, NEW p \in Providers, ~Stands(p, waiters), Release(p)
    PROVE  /\ Book(used', leases', waiters')
           /\ \A c \in Claimants \ {p} : Unmoved(c)
           /\ ~Stands(p, waiters') /\ leases'[p] = 0
<1>1. p \in Claimants /\ leases[p] \in 0..Size /\ Size \in Nat
  BY Known, BudgetAssumption
<1>2. Book(used, leases, waiters) /\ ShrinkTo(p, 0) /\ 0 \in Nat
  BY DEF HoldInv, Release
<1>3. /\ Book(used', leases', waiters')
      /\ \A c \in Claimants \ {p} : Unmoved(c)
      /\ ~Stands(p, waiters')
      /\ leases'[p] = IF 0 < leases[p] THEN 0 ELSE leases[p]
  BY <1>1, <1>2, ShrinkBook
<1>4. leases'[p] = 0
  BY <1>1, <1>3
<1> QED BY <1>3, <1>4

\* An attempt that gives its lease back, as a step about it alone.
LEMMA ReleaseHold ==
    ASSUME CostInv, HoldInv, NEW p \in Providers, NEW b, att' = [att EXCEPT ![p] = b],
           mode' = mode, agent' = agent, race' = race, ~InLine(p), Release(p),
           Fits(b, Swapped(p, race), Taken(p, race, agent)), Holds(b.stage) = 0,
           b.stage \in {"won", "streaming"} => att[p].stage \in {"won", "streaming"},
           att[p].stage \in {"draining", "gone"} => b.stage \in {"draining", "gone"},
           Decided \/ Live = {} => b.stage \notin Opened \/ b.done
    PROVE  HoldInv'
<1>1. ~Stands(p, waiters) /\ mode.gated \in BOOLEAN
  BY Known
<1>2. /\ Book(used', leases', waiters')
      /\ \A c \in Claimants \ {p} : Unmoved(c)
      /\ ~Stands(p, waiters') /\ leases'[p] = 0
  BY <1>1, ReleaseIs
<1>3. LeaseFits(p, b, mode.gated, leases'[p], waiters')
  BY <1>1, <1>2 DEF LeaseFits
<1> QED BY <1>2, <1>3, OneHold

\* A request that fails.
LEMMA SendFailsHold ==
    ASSUME CostInv, HoldInv, NEW p \in Providers, SendFails(p)
    PROVE  HoldInv'
<1>1. /\ att[p].stage = "sending" /\ UNCHANGED budgetVars /\ mode' = mode /\ race' = race
      /\ agent' = agent
  BY DEF SendFails
<1>2. PICK open \in BOOLEAN : open = FALSE
  OBVIOUS
<1>3. PICK b : b = Failure(att[p], open) /\ att' = [att EXCEPT ![p] = b]
  BY <1>2, Zenon DEF SendFails
<1>4. /\ Fits(att[p], Swapped(p, race), Taken(p, race, agent))
      /\ Swapped(p, race) \in BOOLEAN /\ Taken(p, race, agent) \in BOOLEAN
  BY Known
<1>5. /\ Fits(b, Swapped(p, race), Taken(p, race, agent))
      /\ b.stage \in {"gone", "failing"}
      /\ b.stage = "failing" => ~Decided /\ ~att[p].done
  BY <1>1, <1>2, <1>3, <1>4, FailureFits
<1>6. Live = {} => b.stage \notin Opened
  BY <1>1, <1>4, <1>5 DEF Live, Fits, StageFits, Opened
<1> QED BY <1>1, <1>3, <1>5, <1>6, OneHoldStill DEF Holds, Opened

\* A response without content.
LEMMA ReadFailsHold ==
    ASSUME CostInv, HoldInv, NEW p \in Providers, ReadFails(p)
    PROVE  HoldInv'
<1>1. /\ att[p].stage \in {"reading", "cancelled"} /\ ~InLine(p) /\ Release(p)
      /\ mode' = mode /\ race' = race /\ agent' = agent
  BY DEF ReadFails
<1>2. PICK open \in BOOLEAN : open = TRUE
  OBVIOUS
<1>3. PICK b : b = Failure(att[p], open) /\ att' = [att EXCEPT ![p] = b]
  BY <1>2, Zenon DEF ReadFails
<1>4. /\ Fits(att[p], Swapped(p, race), Taken(p, race, agent))
      /\ Swapped(p, race) \in BOOLEAN /\ Taken(p, race, agent) \in BOOLEAN
  BY Known
<1>5. Decided => att[p].done
  BY <1>1, <1>4 DEF HoldInv, ClosedFits, Opened, Fits, StageFits
<1>6. /\ Fits(b, Swapped(p, race), Taken(p, race, agent))
      /\ b.stage \in {"gone", "failing"}
      /\ b.stage = "failing" => ~Decided /\ ~att[p].done
  BY <1>1, <1>2, <1>3, <1>4, <1>5, FailureFits
<1>7. Live = {} => b.stage \notin Opened
  BY <1>1, <1>4, <1>6 DEF Live, Fits, StageFits, Opened
<1> QED BY <1>1, <1>3, <1>6, <1>7, ReleaseHold DEF Holds, Opened

\* A prefix that is read.
LEMMA ContentHold ==
    ASSUME CostInv, HoldInv, NEW p \in Providers, Content(p)
    PROVE  HoldInv'
<1>1. /\ att[p].stage \in {"reading", "cancelled"} /\ ~InLine(p) /\ ShrinkTo(p, Prefix)
      /\ mode' = mode /\ race' = race /\ agent' = agent
  BY DEF Content
<1>2. /\ p \in Claimants /\ att[p] \in AnyAttempt
      /\ Fits(att[p], Swapped(p, race), Taken(p, race, agent))
      /\ Swapped(p, race) \in BOOLEAN /\ Taken(p, race, agent) \in BOOLEAN
      /\ LeaseFits(p, att[p], mode.gated, leases[p], waiters) /\ mode.gated \in BOOLEAN
      /\ ~Stands(p, waiters)
  BY <1>1, Known
<1>3. PICK b : b = [att[p] EXCEPT !.stage = "passed"]
  OBVIOUS
<1>4. att' = [att EXCEPT ![p] = b]
  BY <1>3, Zenon DEF Content
<1>5. /\ b \in AnyAttempt /\ b.stage = "passed" /\ b.live = att[p].live /\ b.done = att[p].done
      /\ b.kept = att[p].kept /\ b.freed = att[p].freed /\ b.callback = att[p].callback
      /\ b.dropped = att[p].dropped /\ b.agents = att[p].agents /\ b.retried = att[p].retried
  BY <1>2, <1>3 DEF AnyAttempt, Stages
<1>6. b.live => ~b.done
  BY <1>2, <1>5 DEF Fits, StageFits
<1>7. Fits(b, Swapped(p, race), Taken(p, race, agent))
  BY <1>1, <1>2, <1>5, <1>6, StageFollows
<1>8. Prefix \in Nat /\ Size \in Nat /\ Prefix < Size
  BY RaceAssumption, BudgetAssumption
<1>9. /\ Book(used', leases', waiters')
      /\ \A c \in Claimants \ {p} : Unmoved(c)
      /\ ~Stands(p, waiters')
      /\ leases'[p] = IF Prefix < leases[p] THEN Prefix ELSE leases[p]
  <2>1. Book(used, leases, waiters)
    BY DEF HoldInv
  <2> QED BY <1>1, <1>2, <1>8, <2>1, ShrinkBook
<1>10. LeaseFits(p, b, mode.gated, leases'[p], waiters')
  <2>1. leases[p] = IF mode.gated THEN Size ELSE 0
    BY <1>1, <1>2 DEF LeaseFits, Holds
  <2>2. leases'[p] = IF mode.gated THEN Prefix ELSE 0
    BY <1>8, <1>9, <2>1
  <2> QED BY <1>5, <1>9, <2>2 DEF LeaseFits, Holds
<1>11. Decided \/ Live = {} => b.done
  BY <1>1, <1>2, <1>5 DEF HoldInv, ClosedFits, Opened, Fits, StageFits, Live
<1> QED BY <1>1, <1>4, <1>5, <1>7, <1>9, <1>10, <1>11, OneHold

\* Who lost with its prefix read.
LEMMA BeatenHold ==
    ASSUME CostInv, HoldInv, NEW p \in Providers, att[p].stage = "passed", Beaten(p),
           mode' = mode
    PROVE  HoldInv'
<1>1. Release(p) /\ race' = race /\ agent' = agent
  BY DEF Beaten
<1>2. /\ att[p] \in AnyAttempt
      /\ Fits(att[p], Swapped(p, race), Taken(p, race, agent))
      /\ Swapped(p, race) \in BOOLEAN /\ Taken(p, race, agent) \in BOOLEAN
      /\ LeaseFits(p, att[p], mode.gated, leases[p], waiters)
      /\ InLine(p) <=> Stands(p, waiters)
  BY Known
<1>3. PICK b : /\ att' = [att EXCEPT ![p] = b]
               /\ b = IF att[p].kept /\ att[p].done THEN [att[p] EXCEPT !.stage = "draining"]
                      ELSE Gone(Freed(att[p]))
  BY Zenon DEF Beaten
<1>4. ~InLine(p)
  BY <1>2 DEF LeaseFits
<1>5. Fits(b, Swapped(p, race), Taken(p, race, agent)) /\ b.stage \in {"gone", "draining"}
  <2>1. CASE att[p].kept /\ att[p].done
    <3>1. /\ b \in AnyAttempt /\ b.stage = "draining" /\ b.live = att[p].live
          /\ b.done = att[p].done /\ b.kept = att[p].kept /\ b.freed = att[p].freed
          /\ b.callback = att[p].callback /\ b.dropped = att[p].dropped
          /\ b.agents = att[p].agents /\ b.retried = att[p].retried
      BY <1>2, <1>3, <2>1 DEF AnyAttempt, Stages
    <3>2. b.live => ~b.done
      BY <1>2, <3>1 DEF Fits, StageFits
    <3> QED BY <1>2, <3>1, <3>2, StageFollows
  <2>2. CASE ~(att[p].kept /\ att[p].done)
    <3>1. b = Gone(Freed(att[p]))
      BY <1>3, <2>2
    <3>2. Fits(b, Swapped(p, race), Taken(p, race, agent))
      BY <1>2, <3>1, GoneFreedFits
    <3> QED BY <1>2, <3>1, <3>2, GoneIs, FreedIs
  <2> QED BY <2>1, <2>2
<1> QED BY <1>1, <1>3, <1>4, <1>5, ReleaseHold DEF Holds, Opened

\* A late first byte.
LEMMA TriggerHold ==
    ASSUME CostInv, HoldInv, NEW p \in Providers, Trigger(p)
    PROVE  HoldInv'
<1>1. /\ att[p].stage \in {"sending", "reading", "passed", "failing"}
      /\ UNCHANGED budgetVars /\ mode' = mode /\ race' = Launching(race) /\ agent' = agent
      /\ ~att[p].done /\ race \in Races
  BY DEF Trigger, CostInv, Typed
<1>2. /\ att[p] \in AnyAttempt
      /\ Fits(att[p], Swapped(p, race), Taken(p, race, agent))
      /\ Swapped(p, race) \in BOOLEAN /\ Taken(p, race, agent) \in BOOLEAN
  BY Known
<1>3. PICK b : b = [att[p] EXCEPT !.triggered = TRUE] /\ att' = [att EXCEPT ![p] = b]
  BY Zenon DEF Trigger
<1>4. /\ b \in AnyAttempt /\ b.stage = att[p].stage /\ b.live = att[p].live
      /\ b.done = att[p].done /\ b.kept = att[p].kept /\ b.freed = att[p].freed
      /\ b.callback = att[p].callback /\ b.dropped = att[p].dropped
      /\ b.agents = att[p].agents /\ b.retried = att[p].retried
  BY <1>2, <1>3 DEF AnyAttempt
<1>5. Fits(b, Swapped(p, race), Taken(p, race, agent))
  <2>1. b.live => ~b.done
    BY <1>2, <1>4 DEF Fits, StageFits
  <2> QED BY <1>1, <1>2, <1>4, <2>1, StageFollows
<1>6. Decided \/ Live = {} => b.stage \notin Opened \/ b.done
  BY <1>1, <1>2, <1>4 DEF HoldInv, ClosedFits, Opened, Fits, StageFits, Live
<1>7. /\ race'.displaced = race.displaced /\ race'.winner = race.winner
      /\ race'.settled = race.settled
  BY <1>1, LaunchingSame
<1> QED BY <1>1, <1>3, <1>4, <1>5, <1>6, <1>7, OneHoldStill

\* A failure that is recorded.
LEMMA RecordedHold ==
    ASSUME CostInv, HoldInv, NEW p \in Providers, Recorded(p) \/ Finish(p)
    PROVE  HoldInv'
<1>1. /\ att[p].stage \in {"recording", "finishing"} /\ UNCHANGED budgetVars /\ mode' = mode
      /\ race' \in {Launching(race), Finished(race, Live)} /\ agent' = agent
      /\ race \in Races
  BY DEF Recorded, Finish, CostInv, Typed
<1>2. /\ att[p] \in AnyAttempt
      /\ Fits(att[p], Swapped(p, race), Taken(p, race, agent))
      /\ Swapped(p, race) \in BOOLEAN /\ Taken(p, race, agent) \in BOOLEAN
  BY Known
<1>3. PICK b : /\ att' = [att EXCEPT ![p] = b]
               /\ \/ b = [att[p] EXCEPT !.stage = "finishing"] /\ att[p].stage = "recording"
                  \/ b = Gone(att[p])
  BY Zenon DEF Recorded, Finish
<1>4. Fits(b, Swapped(p, race), Taken(p, race, agent)) /\ b.stage \in {"finishing", "gone"}
  <2>1. CASE b = [att[p] EXCEPT !.stage = "finishing"] /\ att[p].stage = "recording"
    <3>1. /\ b \in AnyAttempt /\ b.stage = "finishing" /\ b.live = att[p].live
          /\ b.done = att[p].done /\ b.kept = att[p].kept /\ b.freed = att[p].freed
          /\ b.callback = att[p].callback /\ b.dropped = att[p].dropped
          /\ b.agents = att[p].agents /\ b.retried = att[p].retried
      BY <1>2, <2>1 DEF AnyAttempt, Stages
    <3>2. b.live => ~b.done
      BY <1>2, <3>1 DEF Fits, StageFits
    <3> QED BY <1>2, <2>1, <3>1, <3>2, StageFollows
  <2>2. CASE b = Gone(att[p])
    <3>1. ~att[p].dropped => Due(att[p]) = 0
      BY <1>1, <1>2 DEF Fits, StageFits, Due
    <3>2. Fits(b, Swapped(p, race), Taken(p, race, agent))
      BY <1>2, <2>2, <3>1, GoneFits
    <3> QED BY <1>2, <2>2, <3>2, GoneIs
  <2> QED BY <1>3, <2>1, <2>2
<1>5. /\ race'.displaced = race.displaced /\ race'.winner = race.winner
      /\ race'.settled => race.settled \/ Live = {}
  BY <1>1, LaunchingSame, FinishedSame
<1> QED BY <1>1, <1>3, <1>4, <1>5, OneHoldStill DEF Holds, Opened

\* A loser in the background.
LEMMA DrainedHold ==
    ASSUME CostInv, HoldInv, NEW p \in Providers, Drained(p)
    PROVE  HoldInv'
<1>1. /\ att[p].stage = "draining" /\ UNCHANGED budgetVars /\ mode' = mode
      /\ race' = race /\ agent' = agent /\ race \in Races
  BY DEF Drained, CostInv, Typed
<1>2. CASE att' = att
  BY <1>1, <1>2, LauncherHold
<1>3. CASE att' = [att EXCEPT ![p] = Gone(Freed(@))]
  <2>1. /\ att[p] \in AnyAttempt
        /\ Fits(att[p], Swapped(p, race), Taken(p, race, agent))
        /\ Swapped(p, race) \in BOOLEAN /\ Taken(p, race, agent) \in BOOLEAN
    BY Known
  <2>2. PICK b : b = Gone(Freed(att[p])) /\ att' = [att EXCEPT ![p] = b]
    BY <1>3, Zenon
  <2>3. Fits(b, Swapped(p, race), Taken(p, race, agent))
    BY <1>1, <2>1, <2>2, GoneFreedFits
  <2>4. b.stage = "gone"
    BY <2>1, <2>2, GoneIs, FreedIs
  <2> QED BY <1>1, <2>2, <2>3, <2>4, OneHoldStill DEF Holds, Opened
<1>4. att' = att \/ att' = [att EXCEPT ![p] = Gone(Freed(@))]
  BY Zenon DEF Drained
<1> QED BY <1>2, <1>3, <1>4

\* The winner's prefix is pulled.
LEMMA PullHold ==
    ASSUME CostInv, HoldInv, NEW p \in Providers, PullPastPrefix(p)
    PROVE  HoldInv'
<1>1. /\ att[p].stage = "won" /\ Release(p) /\ mode' = mode /\ race' = race /\ agent' = agent
  BY DEF PullPastPrefix
<1>2. /\ att[p] \in AnyAttempt
      /\ Fits(att[p], Swapped(p, race), Taken(p, race, agent))
      /\ Swapped(p, race) \in BOOLEAN /\ Taken(p, race, agent) \in BOOLEAN
      /\ LeaseFits(p, att[p], mode.gated, leases[p], waiters)
      /\ InLine(p) <=> Stands(p, waiters)
  BY Known
<1>3. PICK b : b = [att[p] EXCEPT !.stage = "streaming"] /\ att' = [att EXCEPT ![p] = b]
  BY Zenon DEF PullPastPrefix
<1>4. /\ b \in AnyAttempt /\ b.stage = "streaming" /\ b.live = att[p].live
      /\ b.done = att[p].done /\ b.kept = att[p].kept /\ b.freed = att[p].freed
      /\ b.callback = att[p].callback /\ b.dropped = att[p].dropped
      /\ b.agents = att[p].agents /\ b.retried = att[p].retried
  BY <1>2, <1>3 DEF AnyAttempt, Stages
<1>5. b.live => ~b.done
  BY <1>2, <1>4 DEF Fits, StageFits
<1>6. Fits(b, Swapped(p, race), Taken(p, race, agent))
  BY <1>1, <1>2, <1>4, <1>5, StageFollows
<1>7. ~InLine(p)
  BY <1>1, <1>2 DEF LeaseFits
<1> QED BY <1>1, <1>3, <1>4, <1>6, <1>7, ReleaseHold DEF Holds, Opened

\* The winner's cost is written, or not.
LEMMA CostedHold ==
    ASSUME CostInv, HoldInv, NEW p \in Providers, Costed(p)
    PROVE  HoldInv'
<1>1. /\ att[p].stage = "costing" /\ UNCHANGED budgetVars /\ mode' = mode
      /\ race' = race /\ agent' = agent /\ race \in Races
  BY DEF Costed, CostInv, Typed
<1>2. CASE att' = att
  BY <1>1, <1>2, LauncherHold
<1>3. CASE att' = [att EXCEPT ![p] = Gone(@)]
  <2>1. /\ att[p] \in AnyAttempt
        /\ Fits(att[p], Swapped(p, race), Taken(p, race, agent))
        /\ Swapped(p, race) \in BOOLEAN /\ Taken(p, race, agent) \in BOOLEAN
    BY Known
  <2>2. PICK b : b = Gone(att[p]) /\ att' = [att EXCEPT ![p] = b]
    BY <1>3, Zenon
  <2>3. Due(att[p]) = 0
    BY <1>1 DEF Due
  <2>4. Fits(b, Swapped(p, race), Taken(p, race, agent))
    BY <2>1, <2>2, <2>3, GoneFits
  <2>5. b.stage = "gone"
    BY <2>1, <2>2, GoneIs
  <2> QED BY <1>1, <2>2, <2>4, <2>5, OneHoldStill DEF Holds, Opened
<1>4. att' = att \/ att' = [att EXCEPT ![p] = Gone(@)]
  BY Zenon DEF Costed
<1> QED BY <1>2, <1>3, <1>4

\* The attempts but one are aborted as the race ends, and that one is gone.
LEMMA RestAborted ==
    ASSUME CostInv, HoldInv, NEW p \in Providers, NEW b,
           AbortAll(Live \ {p}, FALSE, p, b), mode' = mode, agent' = agent,
           race' = [race EXCEPT !.settled = TRUE],
           att[p].stage \notin {"reading", "cancelled", "passed", "won", "streaming", "draining",
                                "gone"},
           Fits(b, Swapped(p, race), Taken(p, race, agent)), b.stage = "gone"
    PROVE  HoldInv'
<1>1. mode.gated \in BOOLEAN /\ race \in Races
  BY DEF CostInv, Typed
<1>2. PICK S \in SUBSET Live, loses \in BOOLEAN : S = Live \ {p} /\ loses = FALSE
  OBVIOUS
<1>3. AbortAll(S, loses, p, b) /\ p \notin S
  BY <1>2
<1>4. /\ Book(used', leases', waiters')
      /\ \A q \in Providers : q # p => Goes(q) /\ (q \in S => att'[q].done)
                                       /\ (q \notin S => att'[q] = att[q])
      /\ p \in Providers => Unmoved(p) /\ att'[p] = b
  BY <1>1, <1>3, AbortAllGoes
<1>5. LeaseFits(p, b, mode.gated, leases'[p], waiters')
  <2>1. LeaseFits(p, att[p], mode.gated, leases[p], waiters)
    BY Known
  <2>2. Unmoved(p) /\ Holds(b.stage) = Holds(att[p].stage) /\ att[p].stage # "reading"
    BY <1>4 DEF Holds
  <2> QED BY <1>1, <2>1, <2>2, LeaseStays
<1>6. Goes(p)
  BY <1>4, <1>5 DEF Goes, Opened
<1>7. \A q \in Providers : att'[q].stage \in Opened => att'[q].done
  <2> SUFFICES ASSUME NEW q \in Providers, att'[q].stage \in Opened
               PROVE  att'[q].done
    OBVIOUS
  <2>1. q # p
    BY <1>4 DEF Opened
  <2>2. CASE q \in S
    BY <1>4, <2>1, <2>2
  <2>3. CASE q \notin S
    <3>1. att'[q] = att[q] /\ ~att[q].live
      BY <1>2, <1>4, <2>1, <2>3 DEF Live
    <3> QED BY <3>1 DEF HoldInv, Fits, StageFits, Opened
  <2> QED BY <2>2, <2>3
<1>8. race'.displaced = race.displaced /\ race'.winner = race.winner
  BY <1>1 DEF Races
<1>9. \A q \in Providers : Goes(q)
  BY <1>4, <1>6
<1> QED BY <1>4, <1>7, <1>8, <1>9, AllGo

\* The error of an attempt is known.
LEMMA CategorizedHold ==
    ASSUME CostInv, HoldInv, NEW p \in Providers, Categorized(p)
    PROVE  HoldInv'
<1>1. att[p].stage = "failing" /\ mode' = mode /\ agent' = agent /\ race \in Races
  BY DEF Categorized, CostInv, Typed
<1>2. /\ att[p] \in AnyAttempt
      /\ Fits(att[p], Swapped(p, race), Taken(p, race, agent))
      /\ Swapped(p, race) \in BOOLEAN /\ Taken(p, race, agent) \in BOOLEAN
  BY Known
<1>3. PICK over : over = [att[p] EXCEPT !.live = FALSE, !.done = TRUE, !.triggered = FALSE]
  OBVIOUS
<1>4. /\ over \in AnyAttempt /\ over.stage = "failing" /\ ~over.live /\ over.done
      /\ over.kept = att[p].kept /\ over.freed = att[p].freed
      /\ over.callback = att[p].callback /\ over.dropped = att[p].dropped
      /\ over.agents = att[p].agents /\ over.retried = att[p].retried
  BY <1>1, <1>2, <1>3 DEF AnyAttempt
<1>5. Fits(over, Swapped(p, race), Taken(p, race, agent))
  <2>1. StageFits(over)
    BY <1>1, <1>2, <1>4 DEF Fits, StageFits, AfterWin
  <2>2. Due(over) = Due(att[p]) /\ over.stage = att[p].stage
    BY <1>1, <1>4 DEF Due
  <2>3. RefsFit(over, Swapped(p, race), Taken(p, race, agent))
    BY <1>2, <1>4, <2>2 DEF Fits, RefsFit
  <2> QED BY <1>4, <2>1, <2>3 DEF Fits
<1>6. ASSUME NEW a, Fits(a, Swapped(p, race), Taken(p, race, agent)), a.stage = "failing",
             AbortAll(Live \ {p}, FALSE, p, Gone(a)), race' = [race EXCEPT !.settled = TRUE]
      PROVE  HoldInv'
  <2>1. PICK b : b = Gone(a)
    OBVIOUS
  <2>2. Fits(b, Swapped(p, race), Taken(p, race, agent))
    <3>1. ~a.dropped => Due(a) = 0
      BY <1>6 DEF Fits, StageFits, Due
    <3> QED BY <1>2, <1>6, <2>1, <3>1, GoneFits
  <2>3. b.stage = "gone"
    BY <1>6, <2>1, GoneIs DEF Fits
  <2> QED BY <1>1, <1>6, <2>1, <2>2, <2>3, RestAborted
<1>7. CASE /\ ~att[p].retried
           /\ att' = [att EXCEPT ![p].stage = "sending", ![p].retried = TRUE,
                                 ![p].triggered = FALSE]
           /\ UNCHANGED <<budgetVars, race>>
  <2>1. PICK b : b = [att[p] EXCEPT !.stage = "sending", !.retried = TRUE, !.triggered = FALSE]
    OBVIOUS
  <2>2. att' = [att EXCEPT ![p] = b]
    BY <1>2, <1>7, <2>1 DEF CostInv, Typed, AnyAttempt
  <2>3. /\ b \in AnyAttempt /\ b.stage = "sending" /\ b.live = att[p].live
        /\ b.done = att[p].done /\ b.kept = att[p].kept /\ b.freed = att[p].freed
        /\ b.callback = att[p].callback /\ b.dropped = att[p].dropped
        /\ b.agents = att[p].agents /\ b.retried
    BY <1>2, <2>1 DEF AnyAttempt, Stages
  <2>4. b.live => ~b.done
    BY <1>2, <2>3 DEF Fits, StageFits
  <2>5. Fits(b, Swapped(p, race), Taken(p, race, agent))
    BY <1>1, <1>2, <1>7, <2>3, <2>4, StageFollows
  <2> QED BY <1>1, <1>7, <2>2, <2>3, <2>5, OneHoldStill DEF Holds, Opened
<1>8. CASE /\ att' = [att EXCEPT ![p] = [over EXCEPT !.stage = "recording"]]
           /\ UNCHANGED <<budgetVars, race>>
  <2>1. PICK b : b = [over EXCEPT !.stage = "recording"]
    OBVIOUS
  <2>2. /\ b \in AnyAttempt /\ b.stage = "recording" /\ ~b.live /\ b.done
        /\ b.kept = att[p].kept /\ b.freed = att[p].freed
        /\ b.callback = att[p].callback /\ b.dropped = att[p].dropped
        /\ b.agents = att[p].agents /\ b.retried = att[p].retried
    BY <1>4, <2>1 DEF AnyAttempt, Stages
  <2>3. Fits(b, Swapped(p, race), Taken(p, race, agent))
    BY <1>1, <1>2, <2>2, StageFollows
  <2> QED BY <1>1, <1>8, <2>1, <2>2, <2>3, OneHoldStill DEF Holds, Opened
<1>9. CASE /\ AbortAll(Live \ {p}, FALSE, p, Gone(over))
           /\ race' = [race EXCEPT !.settled = TRUE]
  BY <1>4, <1>5, <1>6, <1>9
<1>10. CASE /\ AbortAll(Live \ {p}, FALSE, p,
                        Gone(IF att[p].live THEN Aborted(p, FALSE) ELSE att[p]))
            /\ race' = [race EXCEPT !.settled = TRUE]
  <2>1. CASE att[p].live
    <3>1. PICK loses \in BOOLEAN : loses = FALSE
      OBVIOUS
    <3>2. PICK a : a = Aborted(p, loses)
      OBVIOUS
    <3>3. Fits(a, Swapped(p, race), Taken(p, race, agent)) /\ a.stage = "failing"
      BY <1>1, <1>2, <2>1, <3>2, AbortedFits
    <3>4. AbortAll(Live \ {p}, FALSE, p, Gone(a))
      BY <1>10, <2>1, <3>1, <3>2
    <3> QED BY <1>6, <1>10, <3>3, <3>4
  <2>2. CASE ~att[p].live
    <3>1. AbortAll(Live \ {p}, FALSE, p, Gone(att[p]))
      BY <1>10, <2>2
    <3> QED BY <1>1, <1>2, <1>6, <1>10, <3>1
  <2> QED BY <2>1, <2>2
<1>11. \/ /\ ~att[p].retried
          /\ att' = [att EXCEPT ![p].stage = "sending", ![p].retried = TRUE,
                                ![p].triggered = FALSE]
          /\ UNCHANGED <<budgetVars, race>>
       \/ /\ att' = [att EXCEPT ![p] = [over EXCEPT !.stage = "recording"]]
          /\ UNCHANGED <<budgetVars, race>>
       \/ /\ AbortAll(Live \ {p}, FALSE, p, Gone(over))
          /\ race' = [race EXCEPT !.settled = TRUE]
       \/ /\ AbortAll(Live \ {p}, FALSE, p,
                      Gone(IF att[p].live THEN Aborted(p, FALSE) ELSE att[p]))
          /\ race' = [race EXCEPT !.settled = TRUE]
  BY <1>3, Zenon DEF Categorized
<1> QED BY <1>7, <1>8, <1>9, <1>10, <1>11

\* The first attempt with its prefix read wins.
LEMMA CommitHold ==
    ASSUME CostInv, HoldInv, NEW p \in Providers, att[p].stage = "passed", ~Decided,
           ~att[p].done, CommitWinner(p), mode' = mode
    PROVE  HoldInv'
<1>1. /\ mode.gated \in BOOLEAN /\ race \in Races /\ att[p] \in AnyAttempt
      /\ agent' = p /\ race.winner = None
      /\ race' = [race EXCEPT !.winner = p, !.settled = TRUE, !.result = "response"]
  BY DEF CostInv, Typed, CommitWinner, Decided
<1>2. /\ race'.winner = p /\ race'.displaced = race.displaced /\ ~race.displaced
      /\ race'.settled
  BY <1>1, RaceAssumption DEF Races, HoldInv, AgentFits
<1>3. \A q \in Providers : /\ Swapped(q, race) = FALSE /\ Taken(q, race, agent) = FALSE
                           /\ Swapped(q, race') = FALSE /\ Taken(q, race', agent') = FALSE
  BY <1>2 DEF Swapped, Taken
<1>4. PICK b : b = [att[p] EXCEPT !.stage = "won", !.live = FALSE, !.done = TRUE,
                                  !.triggered = FALSE]
  OBVIOUS
<1>5. /\ b \in AnyAttempt /\ b.stage = "won" /\ ~b.live /\ b.done
      /\ b.kept = att[p].kept /\ b.freed = att[p].freed
      /\ b.callback = att[p].callback /\ b.dropped = att[p].dropped
      /\ b.agents = att[p].agents /\ b.retried = att[p].retried
  BY <1>1, <1>4 DEF AnyAttempt, Stages
<1>6. Fits(att[p], FALSE, FALSE) /\ LeaseFits(p, att[p], mode.gated, leases[p], waiters)
  BY <1>3 DEF HoldInv
<1>7. Fits(b, FALSE, FALSE)
  <2>1. FALSE \in BOOLEAN
    OBVIOUS
  <2> QED BY <1>5, <1>6, <2>1, StageFollows
<1>8. PICK S \in SUBSET Live, loses \in BOOLEAN : S = Live \ {p} /\ loses = TRUE
  OBVIOUS
<1>9. AbortAll(S, loses, p, b) /\ p \notin S
  BY <1>4, <1>8 DEF CommitWinner
<1>10. /\ Book(used', leases', waiters')
       /\ \A q \in Providers : q # p => Goes(q) /\ (q \in S => att'[q].done)
                                        /\ (q \notin S => att'[q] = att[q])
       /\ p \in Providers => Unmoved(p) /\ att'[p] = b
  BY <1>1, <1>9, AbortAllGoes
<1>11. LeaseFits(p, b, mode.gated, leases'[p], waiters')
  <2>1. Unmoved(p) /\ Holds(b.stage) = Holds(att[p].stage) /\ att[p].stage # "reading"
    BY <1>5, <1>10 DEF Holds
  <2> QED BY <1>1, <1>6, <2>1, LeaseStays
<1>12. ASSUME NEW q \in Providers
       PROVE  /\ Fits(att'[q], Swapped(q, race'), Taken(q, race', agent'))
              /\ LeaseFits(q, att'[q], mode'.gated, leases'[q], waiters')
  <2>1. CASE q = p
    BY <1>3, <1>7, <1>10, <1>11, <2>1
  <2>2. CASE q # p
    BY <1>3, <1>10, <2>2 DEF Goes
  <2> QED BY <2>1, <2>2
<1>13. AgentFits'
  <2>1. ASSUME NEW q \in Providers, att'[q].stage \in {"won", "streaming"}
        PROVE  q = p
    <3>1. SUFFICES ASSUME q # p
                   PROVE  FALSE
      OBVIOUS
    <3>2. att[q].stage \in AfterWin
      BY <1>10, <2>1, <3>1 DEF Goes, AfterWin
    <3> QED BY <1>1, <3>2, RaceAssumption DEF CostInv, WriterInv
  <2> QED BY <1>1, <1>2, <2>1 DEF AgentFits
<1>14. ClosedFits'
  <2>1. ASSUME NEW q \in Providers, att'[q].stage \in Opened
        PROVE  att'[q].done
    <3>1. q # p
      BY <1>5, <1>10, <2>1 DEF Opened
    <3>2. CASE q \notin S
      <4>1. att'[q] = att[q] /\ ~att[q].live
        BY <1>8, <1>10, <3>1, <3>2 DEF Live
      <4> QED BY <2>1, <4>1 DEF HoldInv, Fits, StageFits, Opened
    <3> QED BY <1>10, <3>1, <3>2
  <2> QED BY <2>1 DEF ClosedFits
<1> QED BY <1>10, <1>12, <1>13, <1>14 DEF HoldInv

\* An attempt with its prefix read.
LEMMA PassedHold ==
    ASSUME CostInv, HoldInv, NEW p \in Providers, Passed(p)
    PROVE  HoldInv'
BY BeatenHold, CommitHold DEF Passed

\* The response of an attempt.
LEMMA OpenHold ==
    ASSUME CostInv, HoldInv, NEW p \in Providers, Open(p)
    PROVE  HoldInv'
<1>1. /\ att[p].stage = "sending" /\ mode' = mode /\ race \in Races
      /\ agent' = IF p = Initial THEN p ELSE agent
      /\ race' = [race EXCEPT !.displaced = @ \/ (p = Initial /\ race.winner # None)]
  BY DEF Open, CostInv, Typed
<1>2. /\ att[p] \in AnyAttempt /\ p \in Claimants
      /\ LeaseFits(p, att[p], mode.gated, leases[p], waiters) /\ mode.gated \in BOOLEAN
  BY Known
<1>3. p # race.winner /\ (race.displaced => p # Initial)
  BY <1>1, NoWinner DEF HoldInv, AgentFits, AfterWin
<1>4. Swapped(p, race) = FALSE /\ Taken(p, race, agent) = FALSE
  BY <1>3 DEF Swapped, Taken
<1>5. Fits(att[p], FALSE, FALSE)
  BY <1>4 DEF HoldInv
<1>6. PICK n \in Int : n = att[p].agents + 1
  BY <1>2 DEF AnyAttempt
<1>7. PICK o : o = [att[p] EXCEPT !.agents = n, !.callback = TRUE]
  OBVIOUS
<1>8. /\ o \in AnyAttempt /\ o.agents = att[p].agents + 1 /\ o.callback
      /\ o.stage = att[p].stage /\ o.live = att[p].live /\ o.done = att[p].done
      /\ o.kept = att[p].kept /\ o.freed = att[p].freed /\ o.dropped = att[p].dropped
      /\ o.retried = att[p].retried
  BY <1>2, <1>6, <1>7 DEF AnyAttempt
<1>9. \/ /\ Decided \/ o.done
         /\ \E b \in {[o EXCEPT !.stage = "draining"], Gone(Freed(o))} :
               att' = [att EXCEPT ![p] = b]
         /\ UNCHANGED budgetVars
      \/ /\ ~(Decided \/ o.done)
         /\ att' = [att EXCEPT ![p] = [o EXCEPT !.stage = "reading"]]
         /\ IF mode.gated THEN Acquire(p) ELSE UNCHANGED budgetVars
      \/ /\ ~(Decided \/ o.done)
         /\ att' = [att EXCEPT ![p] = Failure(o, TRUE)]
         /\ UNCHANGED budgetVars
  BY <1>6, <1>7, Zenon DEF Open
<1>10. /\ Fits([o EXCEPT !.stage = "draining"], FALSE, FALSE)
       /\ Fits(Gone(Freed(o)), FALSE, FALSE)
       /\ ~att[p].done => Fits([o EXCEPT !.stage = "reading"], FALSE, FALSE)
       /\ ~att[p].done => Fits([o EXCEPT !.stage = "failing", !.dropped = TRUE], FALSE, FALSE)
  BY <1>1, <1>5, <1>8, OpenedFits
<1>11. ~Stands(p, waiters) /\ leases[p] = 0
  BY <1>1, <1>2 DEF LeaseFits, Holds
<1>12. UNCHANGED budgetVars =>
          /\ Book(used', leases', waiters') /\ \A c \in Claimants : Unmoved(c)
          /\ ~Stands(p, waiters') /\ leases'[p] = 0
  <2>1. ASSUME UNCHANGED budgetVars
        PROVE  ~Stands(p, waiters') /\ leases'[p] = 0
    BY <1>11, <2>1 DEF budgetVars
  <2> QED BY <2>1, BudgetStays DEF HoldInv
<1>13. PICK b : /\ att' = [att EXCEPT ![p] = b] /\ Fits(b, FALSE, FALSE)
                /\ b.stage \in {"draining", "gone", "reading", "failing"}
                /\ Decided \/ att[p].done => b.stage \in {"draining", "gone"}
                /\ b.stage # "reading" => UNCHANGED budgetVars
                /\ b.stage = "reading" => IF mode.gated THEN Acquire(p) ELSE UNCHANGED budgetVars
  <2>1. CASE /\ Decided \/ o.done
             /\ \E b \in {[o EXCEPT !.stage = "draining"], Gone(Freed(o))} :
                   att' = [att EXCEPT ![p] = b]
             /\ UNCHANGED budgetVars
    <3>1. PICK b \in {[o EXCEPT !.stage = "draining"], Gone(Freed(o))} :
             att' = [att EXCEPT ![p] = b]
      BY <2>1
    <3>2. Fits(b, FALSE, FALSE)
      BY <1>10, <3>1
    <3>3. b.stage \in {"draining", "gone"}
      <4>1. CASE b = [o EXCEPT !.stage = "draining"]
        BY <1>8, <4>1 DEF AnyAttempt
      <4>2. CASE b = Gone(Freed(o))
        BY <1>8, <4>2, GoneIs, FreedIs
      <4> QED BY <3>1, <4>1, <4>2
    <3> QED BY <2>1, <3>1, <3>2, <3>3
  <2>2. CASE /\ ~(Decided \/ o.done)
             /\ att' = [att EXCEPT ![p] = [o EXCEPT !.stage = "reading"]]
             /\ IF mode.gated THEN Acquire(p) ELSE UNCHANGED budgetVars
    <3>1. PICK b : b = [o EXCEPT !.stage = "reading"]
      OBVIOUS
    <3>2. Fits(b, FALSE, FALSE) /\ b.stage = "reading"
      BY <1>8, <1>10, <2>2, <3>1 DEF AnyAttempt
    <3> QED BY <1>8, <2>2, <3>1, <3>2
  <2>3. CASE /\ ~(Decided \/ o.done)
             /\ att' = [att EXCEPT ![p] = Failure(o, TRUE)]
             /\ UNCHANGED budgetVars
    <3>1. PICK b : b = [o EXCEPT !.stage = "failing", !.dropped = TRUE]
      OBVIOUS
    <3>2. Fits(b, FALSE, FALSE) /\ b.stage = "failing"
      BY <1>8, <1>10, <2>3, <3>1 DEF AnyAttempt
    <3>3. b = Failure(o, TRUE)
      <4>1. Failure(o, TRUE) = [o EXCEPT !.stage = "failing", !.dropped = @ \/ TRUE]
        BY <2>3 DEF Failure
      <4> QED BY <1>8, <3>1, <4>1 DEF AnyAttempt
    <3> QED BY <1>8, <2>3, <3>2, <3>3
  <2> QED BY <1>9, <2>1, <2>2, <2>3
<1>14. /\ Book(used', leases', waiters') /\ \A c \in Claimants \ {p} : Unmoved(c)
       /\ LeaseFits(p, b, mode.gated, leases'[p], waiters')
  <2>1. CASE UNCHANGED budgetVars /\ (b.stage = "reading" => ~mode.gated)
    BY <1>2, <1>12, <1>13, <2>1 DEF LeaseFits, Holds
  <2>2. CASE b.stage = "reading" /\ mode.gated /\ Acquire(p)
    <3>1. /\ Book(used', leases', waiters')
          /\ \A d \in Claimants \ {p} : Unmoved(d)
          /\ leases'[p] = IF Stands(p, waiters') THEN 0 ELSE Size
      BY <1>2, <2>2, AcquireBook DEF HoldInv
    <3> QED BY <2>2, <3>1 DEF LeaseFits, Holds
  <2> QED BY <1>13, <2>1, <2>2
<1>15. Live = {} => att[p].done
  BY <1>1, <1>5 DEF Live, Fits, StageFits
<1>16. Decided \/ Live = {} => b.stage \notin Opened
  BY <1>13, <1>15 DEF Opened
<1>17. /\ race'.winner = race.winner /\ race'.settled = race.settled
       /\ race'.displaced <=> race.displaced \/ (p = Initial /\ race.winner # None)
  BY <1>1 DEF Races
<1>18. CASE p # Initial
  <2>1. race'.displaced = race.displaced /\ agent' = agent
    BY <1>1, <1>18 DEF Races
  <2>2. /\ Fits(b, Swapped(p, race), Taken(p, race, agent))
        /\ b.stage \in {"won", "streaming"} => att[p].stage \in {"won", "streaming"}
        /\ att[p].stage \in {"draining", "gone"} => b.stage \in {"draining", "gone"}
    BY <1>1, <1>4, <1>13
  <2> QED BY <1>1, <1>13, <1>14, <1>16, <1>17, <2>1, <2>2, OneHold
<1>19. CASE p = Initial
  <2>1. ~race.displaced /\ agent' = Initial /\ agent' # None
    BY <1>1, <1>3, <1>19, RaceAssumption
  <2>2. \A q \in Providers : att'[q] = IF q = p THEN b ELSE att[q]
    BY <1>13 DEF CostInv, Typed
  <2>3. ASSUME NEW q \in Providers
        PROVE  /\ Fits(att'[q], Swapped(q, race'), Taken(q, race', agent'))
               /\ LeaseFits(q, att'[q], mode'.gated, leases'[q], waiters')
    <3>1. Taken(q, race', agent') = FALSE /\ Swapped(q, race') \in BOOLEAN
      BY <2>1, AreBooleans DEF Taken
    <3>2. Swapped(q, race) = FALSE /\ Taken(q, race, agent) = FALSE
      BY <2>1 DEF Swapped, Taken
    <3>3. Fits(att'[q], FALSE, FALSE)
      BY <1>13, <2>2, <3>2 DEF HoldInv
    <3>4. Fits(att'[q], Swapped(q, race'), FALSE)
      BY <3>1, <3>3, SwappedFits
    <3>5. LeaseFits(q, att'[q], mode'.gated, leases'[q], waiters')
      <4>1. CASE q = p
        BY <1>1, <1>14, <2>2, <4>1
      <4>2. CASE q # p
        <5>1. Unmoved(q) /\ att'[q] = att[q] /\ LeaseFits(q, att[q], mode.gated, leases[q], waiters)
          BY <1>14, <2>2, <4>2, RaceAssumption DEF HoldInv
        <5> QED BY <1>1, <1>2, <5>1, LeaseStays
      <4> QED BY <4>1, <4>2
    <3> QED BY <3>1, <3>4, <3>5
  <2>4. AgentFits'
    <3>1. race'.displaced => /\ race'.winner \in Providers \ {Initial}
                             /\ att'[Initial].stage \in {"draining", "gone"}
      BY <1>3, <1>13, <1>17, <1>19, <2>1, <2>2, RaceAssumption DEF CostInv, Typed, Races, Decided
    <3>2. ASSUME NEW q \in Providers, att'[q].stage \in {"won", "streaming"}
          PROVE  race'.displaced
      <4>1. q # p /\ att[q].stage \in AfterWin
        BY <1>13, <2>2, <3>2 DEF AfterWin
      <4>2. race.winner # None
        BY <4>1, RaceAssumption DEF CostInv, WriterInv
      <4> QED BY <1>17, <1>19, <4>2
    <3> QED BY <2>1, <3>1, <3>2 DEF AgentFits
  <2>5. ClosedFits'
    <3>1. Decided' <=> Decided
      BY <1>17 DEF Decided
    <3> QED BY <1>16, <2>2, <3>1 DEF HoldInv, ClosedFits
  <2> QED BY <1>14, <2>3, <2>4, <2>5 DEF HoldInv
<1> QED BY <1>18, <1>19

\* The end of the winner's stream gives back what the session holds by now: the winner's
\* reference, or that of the initial attempt, which then has none left to lose.
LEMMA StreamEndsHold ==
    ASSUME CostInv, HoldInv, NEW p \in Providers, StreamEnds(p)
    PROVE  HoldInv'
<1>1. /\ att[p].stage \in {"won", "streaming"} /\ Release(p) /\ mode' = mode /\ race' = race
      /\ agent' = None /\ race \in Races /\ att \in [Providers -> AnyAttempt]
      /\ mode.gated \in BOOLEAN
  BY DEF StreamEnds, CostInv, Typed
<1>2. p = race.winner /\ p # None
  BY <1>1, RaceAssumption DEF CostInv, WriterInv, AfterWin
<1>3. agent = IF race.displaced THEN Initial ELSE p
  BY <1>1 DEF HoldInv, AgentFits
<1>4. /\ Book(used', leases', waiters')
      /\ \A c \in Claimants \ {p} : Unmoved(c)
      /\ ~Stands(p, waiters') /\ leases'[p] = 0
  <2>1. ~Stands(p, waiters)
    BY <1>1 DEF HoldInv, LeaseFits
  <2> QED BY <1>1, <2>1, ReleaseIs
<1>5. race.displaced => p # Initial
  BY <1>2 DEF HoldInv, AgentFits
<1>6. ASSUME NEW q \in Providers
      PROVE  /\ att'[q] \in AnyAttempt
             /\ att'[q].stage = IF q = p THEN "costing" ELSE att[q].stage
             /\ att'[q].agents = IF q = agent THEN att[q].agents - 1 ELSE att[q].agents
             /\ att[q].agents \in Int
             /\ att'[q].live = att[q].live /\ att'[q].done = att[q].done
             /\ att'[q].kept = att[q].kept /\ att'[q].freed = att[q].freed
             /\ att'[q].callback = att[q].callback /\ att'[q].dropped = att[q].dropped
             /\ att'[q].retried = att[q].retried
             /\ q # p /\ q # agent => att'[q] = att[q]
  <2>1. att[q] \in AnyAttempt
    BY <1>1
  <2>2. PICK s \in Stages, n \in Int :
           /\ s = IF q = p THEN "costing" ELSE att[q].stage
           /\ n = IF q = agent THEN att[q].agents - 1 ELSE att[q].agents
    BY <2>1 DEF AnyAttempt, Stages
  <2>3. att'[q] = [att[q] EXCEPT !.stage = IF q = p THEN "costing" ELSE @,
                                 !.agents = IF q = agent THEN @ - 1 ELSE @]
    BY DEF StreamEnds
  <2>4. att'[q] = [att[q] EXCEPT !.stage = s, !.agents = n]
    BY <2>1, <2>2, <2>3 DEF AnyAttempt
  <2> QED BY <2>1, <2>2, <2>4 DEF AnyAttempt
<1>7. ASSUME NEW q \in Providers
      PROVE  /\ Fits(att[q], Swapped(q, race), Taken(q, race, agent))
             /\ att[q] \in AnyAttempt /\ StageFits(att[q])
             /\ RefsFit(att[q], Swapped(q, race), Taken(q, race, agent))
  BY DEF HoldInv, Fits
<1>8. ASSUME NEW q \in Providers
      PROVE  Fits(att'[q], Swapped(q, race'), Taken(q, race', agent'))
  <2>1. Swapped(q, race') = Swapped(q, race) /\ Swapped(q, race) \in BOOLEAN
    BY <1>1, AreBooleans DEF Swapped
  <2>2. Taken(q, race', agent') <=> q = Initial /\ race.displaced
    BY <1>1 DEF Taken
  <2>3. ~Taken(q, race, agent)
    BY <1>2, <1>3, RaceAssumption DEF Taken
  <2>4. CASE q = p
    <3>1. StageFits(att'[q])
      BY <1>1, <1>6, <1>7, <2>4 DEF StageFits, AfterWin
    <3>2. Due(att[q]) = 1 /\ Due(att'[q]) = 0
      BY <1>1, <1>6, <1>7, <2>4 DEF Due, StageFits, AfterWin
    <3>3. ~Taken(q, race', agent')
      BY <1>5, <2>2, <2>4
    <3>4. race.displaced => Swapped(q, race)
      BY <1>2, <2>4 DEF Swapped
    <3>5. ~race.displaced => q = agent
      BY <1>3, <2>4
    <3>6. race.displaced => q # agent
      BY <1>3, <1>5, <2>4
    <3>7. RefsFit(att'[q], Swapped(q, race), Taken(q, race', agent'))
      BY <1>1, <1>6, <1>7, <2>1, <2>3, <2>4, <3>2, <3>3, <3>4, <3>5, <3>6 DEF RefsFit
    <3> QED BY <1>6, <2>1, <3>1, <3>7 DEF Fits
  <2>5. CASE q # p /\ q = agent
    <3>1. race.displaced /\ q = Initial /\ att[q].stage \in {"draining", "gone"}
      BY <1>3, <2>5 DEF HoldInv, AgentFits
    <3>2. StageFits(att'[q])
      BY <1>6, <1>7, <2>5, <3>1 DEF StageFits, AfterWin
    <3>3. Due(att'[q]) = Due(att[q]) /\ Due(att[q]) \in {0, 1}
      BY <1>6, <2>5 DEF Due
    <3>4. Taken(q, race', agent') /\ Swapped(q, race)
      BY <2>2, <3>1 DEF Swapped
    <3>5. RefsFit(att'[q], Swapped(q, race), Taken(q, race', agent'))
      BY <1>6, <1>7, <2>1, <2>3, <2>5, <3>1, <3>3, <3>4 DEF RefsFit
    <3> QED BY <1>6, <2>1, <3>2, <3>5 DEF Fits
  <2>6. CASE q # p /\ q # agent
    <3>1. ~Taken(q, race', agent')
      BY <1>3, <2>2, <2>6
    <3>2. Taken(q, race', agent') = Taken(q, race, agent)
      BY <2>3, <3>1, AreBooleans
    <3> QED BY <1>6, <1>7, <2>1, <2>6, <3>2
  <2> QED BY <2>4, <2>5, <2>6
<1>9. ASSUME NEW q \in Providers
      PROVE  LeaseFits(q, att'[q], mode'.gated, leases'[q], waiters')
  <2>1. CASE q = p
    BY <1>1, <1>4, <1>6, <2>1 DEF LeaseFits, Holds
  <2>2. CASE q # p
    <3>1. Unmoved(q) /\ LeaseFits(q, att[q], mode.gated, leases[q], waiters)
      BY <1>4, <2>2, RaceAssumption DEF HoldInv
    <3>2. att'[q].stage = att[q].stage
      BY <1>6, <2>2
    <3> QED BY <1>1, <3>1, <3>2, LeaseStays
  <2> QED BY <2>1, <2>2
<1>10. AgentFits'
  <2>1. race'.displaced => /\ race'.winner \in Providers \ {Initial}
                           /\ att'[Initial].stage \in {"draining", "gone"}
    BY <1>1, <1>5, <1>6, RaceAssumption DEF HoldInv, AgentFits
  <2>2. \A q \in Providers : att'[q].stage \notin {"won", "streaming"}
    <3> SUFFICES ASSUME NEW q \in Providers, att'[q].stage \in {"won", "streaming"}
                 PROVE  FALSE
      OBVIOUS
    <3>1. q # p /\ att[q].stage \in AfterWin
      BY <1>6 DEF AfterWin
    <3> QED BY <1>2, <3>1 DEF CostInv, WriterInv
  <2> QED BY <2>1, <2>2 DEF AgentFits
<1>11. ClosedFits'
  <2>1. Decided' <=> Decided
    BY <1>1 DEF Decided
  <2> QED BY <1>6, <2>1 DEF HoldInv, ClosedFits, Opened
<1> QED BY <1>4, <1>8, <1>9, <1>10, <1>11 DEF HoldInv

\* At first nothing is held and nothing is owed.
LEMMA InitHold ==
    ASSUME Init
    PROVE  HoldInv
<1>1. /\ used = 0 /\ leases = [c \in Claimants |-> 0] /\ waiters = <<>>
      /\ mode \in [gated : BOOLEAN, bill : BOOLEAN]
      /\ race = [settled |-> FALSE, result |-> "none", winner |-> None, noMore |-> FALSE,
                 launched |-> {Initial}, main |-> "starting", launcher |-> "idle",
                 target |-> None, displaced |-> FALSE]
      /\ att = [p \in Providers |-> NewAttempt]
  BY DEF Init, InitBudget
<1>2. Book(used, leases, waiters)
  <2>1. leases \in [Claimants -> 0..Size]
    BY <1>1, BudgetAssumption
  <2>2. used = Total(leases)
    BY <1>1, TotalOfNothing
  <2>3. waiters \in Seq(Claimants) /\ Len(waiters) = 0
    BY <1>1
  <2> QED BY <2>1, <2>2, <2>3 DEF Book
<1>3. ~race.displaced /\ ~race.settled /\ race.winner = None
  BY <1>1
<1>4. ASSUME NEW p \in Providers
      PROVE  /\ Fits(att[p], Swapped(p, race), Taken(p, race, agent))
             /\ LeaseFits(p, att[p], mode.gated, leases[p], waiters)
  <2>1. Swapped(p, race) = FALSE /\ Taken(p, race, agent) = FALSE
    BY <1>3 DEF Swapped, Taken
  <2>2. att[p] = NewAttempt /\ leases[p] = 0
    BY <1>1, RaceAssumption
  <2>3. Fits(NewAttempt, FALSE, FALSE)
    BY DEF Fits, StageFits, RefsFit, Due, NewAttempt, AnyAttempt, Stages, AfterWin
  <2>4. ~Stands(p, waiters)
    BY <1>1 DEF Stands
  <2>5. Holds(att[p].stage) = 0 /\ att[p].stage # "reading"
    BY <2>2 DEF NewAttempt, Holds
  <2> QED BY <2>1, <2>2, <2>3, <2>4, <2>5 DEF LeaseFits
<1>5. \A p \in Providers : att[p].stage = "new"
  BY <1>1 DEF NewAttempt
<1>6. AgentFits
  BY <1>3, <1>5 DEF AgentFits
<1>7. ClosedFits
  BY <1>3 DEF ClosedFits, Decided
<1> QED BY <1>2, <1>4, <1>6, <1>7 DEF HoldInv

\* Every step keeps the invariant.
LEMMA NextHold ==
    ASSUME CostInv, HoldInv, [Next]_vars
    PROVE  HoldInv'
<1>1. CASE LauncherStep
  BY <1>1, StartHold, StartOverHold, SelectHold, PrepareHold DEF LauncherStep
<1>2. CASE SettleFailure
  BY <1>2, SettleHold
<1>3. CASE ClientAbort
  BY <1>3, ClientAbortHold
<1>4. ASSUME NEW p \in Providers, AttemptStep(p)
      PROVE  HoldInv'
  BY <1>4, OpenHold, SendFailsHold, ReadFailsHold, ContentHold, PassedHold, CategorizedHold,
     RecordedHold, DrainedHold, PullHold, StreamEndsHold, CostedHold DEF AttemptStep
<1>5. ASSUME NEW p \in Providers, Trigger(p)
      PROVE  HoldInv'
  BY <1>5, TriggerHold
<1>6. ASSUME NEW o \in Others, OtherAcquires(o) \/ OtherReleases(o)
      PROVE  HoldInv'
  BY <1>6, OthersHold
<1>7. CASE UNCHANGED vars
  <2>1. race \in Races
    BY DEF CostInv, Typed
  <2> QED BY <1>7, <2>1, LauncherHold DEF vars
<1> QED BY <1>1, <1>2, <1>3, <1>4, <1>5, <1>6, <1>7 DEF Next

-----------------------------------------------------------------------------
\* What the row and the session hold, which nothing else depends on.
RowInv == row \in Rows /\ agent \in Providers \cup {None}

\* The writes of the cost add to it or set it, ...
LEMMA RowKeeps ==
    ASSUME RowInv, NEW p \in Providers,
           row' = row \/ AddLoserCost(p) \/ WriteCost(p)
    PROVE  row' \in Rows
<1>1. row \in Rows
  BY DEF RowInv
<1>2. CASE AddLoserCost(p)
  <2>1. CASE p \in row.losers
    BY <1>1, <1>2, <2>1 DEF AddLoserCost
  <2>2. CASE p \notin row.losers
    <3>1. PICK n \in Nat : n = row.cost[p] + 1
      BY <1>1 DEF Rows
    <3>2. PICK cost : cost = [row.cost EXCEPT ![p] = n]
      OBVIOUS
    <3>3. cost \in [Providers -> Nat] /\ row.losers \cup {p} \in SUBSET Providers
      BY <1>1, <3>2 DEF Rows
    <3>4. row' = [cost |-> cost, losers |-> row.losers \cup {p}]
      BY <1>2, <2>2, <3>1, <3>2 DEF AddLoserCost
    <3> QED BY <3>3, <3>4 DEF Rows
  <2> QED BY <2>1, <2>2
<1>3. CASE WriteCost(p)
  <2>1. PICK cost \in [Providers -> Nat] : row' = [row EXCEPT !.cost = cost]
    <3>1. CASE OverwriteCost(p)
      <4>1. [q \in Providers |-> IF q = p THEN 1 ELSE 0] \in [Providers -> Nat]
        OBVIOUS
      <4> QED BY <3>1, <4>1 DEF OverwriteCost
    <3>2. CASE WriteWinnerCost(p)
      <4>1. [q \in Providers |-> IF q = p \/ q \in row.losers THEN 1 ELSE 0]
               \in [Providers -> Nat]
        OBVIOUS
      <4> QED BY <3>2, <4>1 DEF WriteWinnerCost
    <3> QED BY <1>3, <3>1, <3>2 DEF WriteCost
  <2> QED BY <1>1, <2>1 DEF Rows
<1> QED BY <1>1, <1>2, <1>3

\* ... and the session's callback is an attempt's.
LEMMA NextRow ==
    ASSUME RowInv, [Next]_vars
    PROVE  RowInv'
<1>1. agent \in Providers \cup {None}
  BY DEF RowInv
<1>2. CASE LauncherStep \/ SettleFailure \/ ClientAbort
  <2>1. row' = row /\ agent' = agent
    BY <1>2 DEF LauncherStep, Start, StartOver, Select, Prepare, SettleFailure, ClientAbort
  <2> QED BY <2>1 DEF RowInv
<1>3. ASSUME NEW p \in Providers, AttemptStep(p)
      PROVE  RowInv'
  <2>1. /\ agent' \in {p, agent, None}
        /\ row' = row \/ AddLoserCost(p) \/ WriteCost(p)
    <3>1. CASE Open(p) \/ SendFails(p) \/ ReadFails(p) \/ Content(p)
      BY <3>1, Zenon DEF Open, SendFails, ReadFails, Content
    <3>2. CASE Passed(p) \/ Categorized(p) \/ Recorded(p) \/ Finish(p)
      BY <3>2, Zenon DEF Passed, Beaten, CommitWinner, Categorized, Recorded, Finish
    <3>3. CASE Drained(p) \/ PullPastPrefix(p) \/ StreamEnds(p) \/ Costed(p)
      BY <3>3, Zenon DEF Drained, PullPastPrefix, StreamEnds, Costed
    <3> QED BY <1>3, <3>1, <3>2, <3>3 DEF AttemptStep
  <2>2. row' \in Rows
    BY <2>1, RowKeeps
  <2> QED BY <1>1, <2>1, <2>2 DEF RowInv
<1>4. ASSUME NEW p \in Providers, Trigger(p)
      PROVE  RowInv'
  BY <1>4 DEF Trigger, RowInv
<1>5. ASSUME NEW o \in Others, OtherAcquires(o) \/ OtherReleases(o)
      PROVE  RowInv'
  BY <1>5 DEF OtherAcquires, OtherReleases, RowInv
<1>6. CASE UNCHANGED vars
  BY <1>6 DEF vars, RowInv
<1> QED BY <1>2, <1>3, <1>4, <1>5, <1>6 DEF Next

\* At first the row is empty.
LEMMA InitRowInv ==
    ASSUME Init
    PROVE  RowInv
<1>1. row = [cost |-> [p \in Providers |-> 0], losers |-> {}] /\ agent = None
  BY DEF Init, InitRow
<1> QED BY <1>1 DEF RowInv, Rows

\* The invariants together.
WholeInv == BudgetInv /\ CostInv /\ HoldInv /\ RowInv

\* They hold in every state of the race.
LEMMA WholeAlways == Spec => []WholeInv
<1>1. Init => WholeInv
  BY InitBudgetInv, InitCost, InitHold, InitRowInv DEF WholeInv
<1>2. WholeInv /\ [Next]_vars => WholeInv'
  BY NextBudget, BudgetStepKeeps, NextCost, NextHold, NextRow DEF WholeInv
<1> QED BY <1>1, <1>2, PTL DEF Spec

\* The state is of its type: what is in use is the sum of what the leases hold, and
\* no attempt ever holds more than two references, or gives back more than one too many
\* (StreamGatePrebufferBudget.reservedBytes, attempt.releaseAgent).
THEOREM RaceTypes == Spec => []TypeOK
<1>1. ASSUME WholeInv
      PROVE  TypeOK
  <2>1. used = Total(leases) /\ leases \in [Claimants -> 0..Size] /\ waiters \in Seq(Claimants)
    BY <1>1 DEF WholeInv, HoldInv, Book
  <2>2. used <= Limit
    BY <1>1 DEF WholeInv, BudgetInv
  <2>3. att \in [Providers -> Attempts]
    <3>1. att \in [Providers -> AnyAttempt]
      BY <1>1 DEF WholeInv, CostInv, Typed
    <3>2. ASSUME NEW p \in Providers
          PROVE  att[p] \in Attempts
      <4>1. att[p] \in AnyAttempt /\ att[p].agents \in Int
        BY <3>1 DEF AnyAttempt
      <4>2. RefsFit(att[p], Swapped(p, race), Taken(p, race, agent))
        BY <1>1 DEF WholeInv, HoldInv, Fits
      <4>3. att[p].agents \in -1..2
        BY <4>1, <4>2 DEF RefsFit, Due
      <4> QED BY <4>1, <4>3 DEF AnyAttempt, Attempts
    <3> QED BY <3>1, <3>2
  <2> QED BY <1>1, <2>1, <2>2, <2>3 DEF WholeInv, CostInv, Typed, RowInv, TypeOK
<1> QED BY <1>1, WholeAlways, PTL

\* A race that is over holds nothing of the budget and no connection, but for those
\* NothingHeld names (runAttempt, abortAttempt, releaseSessionAgent).
THEOREM NothingIsHeld == Spec => []NothingHeld
<1>1. ASSUME WholeInv
      PROVE  NothingHeld
  <2> SUFFICES ASSUME NEW p \in Providers, att[p].stage \in {"new", "gone"}
               PROVE  /\ leases[p] = 0 /\ ~InLine(p)
                      /\ \/ att[p].agents = 0
                         \/ att[p].dropped
                         \/ race.displaced /\ p \in {race.winner, Initial}
    BY DEF NothingHeld, Quiet
  <2>1. /\ Fits(att[p], Swapped(p, race), Taken(p, race, agent))
        /\ LeaseFits(p, att[p], mode.gated, leases[p], waiters)
        /\ Book(used, leases, waiters)
    BY <1>1 DEF WholeInv, HoldInv
  <2>2. leases[p] = 0 /\ ~InLine(p)
    BY <2>1, InLineIs DEF LeaseFits, Holds
  <2>3. Due(att[p]) = 0
    BY <2>1 DEF Fits, StageFits, NewAttempt, Due
  <2>4. ~att[p].dropped /\ ~Swapped(p, race) => att[p].agents = 0
    BY <2>1, <2>3 DEF Fits, RefsFit
  <2> QED BY <2>2, <2>4 DEF Swapped
<1> QED BY <1>1, WholeAlways, PTL

\* Nothing gives the winner's connection or prefix back while its client reads
\* (commitWinner, buildBufferedPrefixStream).
THEOREM WinnerIsKept == Spec => []WinnerKept
<1>1. ASSUME WholeInv
      PROVE  WinnerKept
  <2> SUFFICES ASSUME race.winner # None
               PROVE  /\ att[race.winner].stage \in {"won", "streaming"} =>
                            att[race.winner].agents >= 1
                      /\ att[race.winner].stage = "won" /\ mode.gated =>
                            leases[race.winner] = Prefix
    BY DEF WinnerKept
  <2>1. PICK p \in Providers : p = race.winner
    BY <1>1 DEF WholeInv, CostInv, Typed, Races
  <2>2. /\ Fits(att[p], Swapped(p, race), Taken(p, race, agent))
        /\ LeaseFits(p, att[p], mode.gated, leases[p], waiters)
        /\ AgentFits
    BY <1>1 DEF WholeInv, HoldInv
  <2>3. ~Taken(p, race, agent)
    BY <2>1, <2>2 DEF AgentFits, Taken
  <2>4. att[p].stage \in {"won", "streaming"} => att[p].agents >= 1
    <3> SUFFICES ASSUME att[p].stage \in {"won", "streaming"}
                 PROVE  att[p].agents >= 1
      OBVIOUS
    <3>1. Due(att[p]) = 1
      BY <2>2 DEF Fits, StageFits, AfterWin, Due
    <3> QED BY <2>2, <2>3, <3>1 DEF Fits, RefsFit
  <2>5. att[p].stage = "won" /\ mode.gated => leases[p] = Prefix
    BY <2>2 DEF LeaseFits, Holds
  <2> QED BY <2>1, <2>4, <2>5
<1> QED BY <1>1, WholeAlways, PTL
=============================================================================
