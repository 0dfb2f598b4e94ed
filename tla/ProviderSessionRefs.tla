------------------------ MODULE ProviderSessionRefs ------------------------
(***************************************************************************)
(* The concurrency slots of one provider: the sorted set of the sessions   *)
(* active on it and the hash counting, per session, the references that    *)
(* keep it there.  A request's attempt enters through one script           *)
(* (CHECK_AND_TRACK_SESSION) and leaves through another                    *)
(* (RELEASE_PROVIDER_SESSION) or, after a success, leaves its reference    *)
(* behind as the session's baseline.  Counting and termination touch the   *)
(* two keys in separate commands.                                          *)
(*                                                                         *)
(* A score is only ever compared with the cutoff, so a member is fresh or  *)
(* stale.                                                                  *)
(***************************************************************************)
EXTENDS Integers, FiniteSets

CONSTANTS
    Sessions, Attempts, Sweepers,
    Limit,          \* limitConcurrentSessions; 0, unlimited, tracks nothing
    MaxRefs,        \* bound: references to a session
    None

ASSUME LimitAssumption == Limit \in Nat \ {0} /\ MaxRefs \in Nat
ASSUME FiniteAssumption == IsFiniteSet(Sessions) /\ IsFiniteSet(Attempts)

VARIABLES
    active,     \* the sorted set: "absent", "fresh" or "stale" by session
    refs,       \* the reference hash; 0 is an absent field
    attempt,    \* attempts under way
    sweep,      \* counts and terminations between their commands
    kept,       \* auxiliary: references successes left, in this membership
    marks       \* auxiliary: what befell a session, by kind of mark

vars == <<active, refs, attempt, sweep, kept, marks>>

\* held: the process recorded a reference (recordProviderSessionRef).
\* admitted: it holds a place the limit check gave it.
AttemptStates == [session : Sessions,
                  at : {"running", "failed", "unbound", "refreshing"},
                  held : BOOLEAN, admitted : BOOLEAN]

SweepStates == [at : {"listed", "removed"}, sessions : SUBSET Sessions]

\* outlived: a membership ended under attempts that were still under way.
\* bypassed: a member the limit check did not let in.
\* leaked: a reference nobody will release, or a membership without one.
\* dropped: a cleanup deleted references of a session that was back.
Marks == [outlived : SUBSET Sessions, bypassed : SUBSET Sessions,
          leaked : SUBSET Sessions, dropped : SUBSET Sessions]

ASSUME NoneAssumption == None \notin AttemptStates \cup SweepStates

TypeOK ==
    /\ active \in [Sessions -> {"absent", "fresh", "stale"}]
    /\ refs \in [Sessions -> Nat]
    /\ attempt \in [Attempts -> AttemptStates \cup {None}]
    /\ sweep \in [Sweepers -> SweepStates \cup {None}]
    /\ kept \in [Sessions -> Nat]
    /\ marks \in Marks

Init ==
    /\ active = [s \in Sessions |-> "absent"]
    /\ refs = [s \in Sessions |-> 0]
    /\ attempt = [a \in Attempts |-> None]
    /\ sweep = [w \in Sweepers |-> None]
    /\ kept = [s \in Sessions |-> 0]
    /\ marks = [outlived |-> {}, bypassed |-> {}, leaked |-> {}, dropped |-> {}]

-----------------------------------------------------------------------------

Members == {s \in Sessions : active[s] # "absent"}
Stale == {s \in Sessions : active[s] = "stale"}

Of(s) == {a \in Attempts : attempt[a] # None /\ attempt[a].session = s}
Holders(s) == {a \in Of(s) : attempt[a].held}

\* Memberships end, other than by a release; some sessions leak a reference.
EndsLeaking(gone, leaking) ==
    /\ kept' = [s \in Sessions |-> IF s \in gone THEN 0 ELSE kept[s]]
    /\ marks' = [outlived |-> (marks.outlived \ gone) \cup {s \in gone : Of(s) # {}},
                 bypassed |-> marks.bypassed \ gone,
                 leaked |-> (marks.leaked \ gone) \cup leaking,
                 dropped |-> marks.dropped \ gone]

Ends(gone) == EndsLeaking(gone, {})

Begin(a, s, held, admitted) ==
    attempt' = [attempt EXCEPT ![a] = [session |-> s, at |-> "running",
                                       held |-> held, admitted |-> admitted]]

-----------------------------------------------------------------------------
(* CHECK_AND_TRACK_SESSION. *)

\* Mutant: a left-over reference of a session that is no member counts on.
CleanedMembers(s) == [t \in Sessions |-> IF active[t] = "stale" THEN 0 ELSE refs[t]]

\* References once the stale members are removed and, if s is none, its own.
Cleaned(s) == [t \in Sessions |->
                 IF active[t] = "stale" \/ (t = s /\ active[s] = "absent")
                 THEN 0 ELSE refs[t]]

HasRoom(s) == active[s] = "fresh" \/ Cardinality(Members \ Stale) < Limit

\* Mutant: only the request that makes the session a member takes a reference.
CountsReferenceOnce(s) == active[s] # "fresh"

CountsReference(s) == active[s] # "fresh" \/ Cleaned(s)[s] > 0

\* The sorted set after ZREMRANGEBYSCORE and ZADD.
Joined(s) == [t \in Sessions |-> IF t = s THEN "fresh"
                                 ELSE IF active[t] = "stale" THEN "absent" ELSE active[t]]

\* Mutant: a session that is a member already is not counted again.
TrackOnce(s) ==
    /\ HasRoom(s)
    /\ active' = Joined(s)
    /\ refs' = [Cleaned(s) EXCEPT ![s] = IF active[s] # "fresh" THEN @ + 1 ELSE @]

\* The script, when it lets the session in.
Track(s) ==
    /\ HasRoom(s)
    /\ active' = Joined(s)
    /\ refs' = [Cleaned(s) EXCEPT ![s] = IF CountsReference(s) THEN @ + 1 ELSE @]

CheckAndTrack(a, s) ==
    /\ attempt[a] = None /\ refs[s] < MaxRefs
    /\ Track(s)
    /\ Ends(Stale)
    /\ Begin(a, s, CountsReference(s), TRUE)
    /\ UNCHANGED sweep

Reject(s) ==
    /\ ~HasRoom(s)
    /\ active' = [t \in Sessions |-> IF active[t] = "stale" THEN "absent" ELSE active[t]]
    /\ refs' = Cleaned(s)
    /\ Ends(Stale)
    /\ UNCHANGED <<attempt, sweep>>

\* Fail open: Redis is not ready, or the reply to the script is lost.
FailOpen(a, s) ==
    /\ attempt[a] = None /\ refs[s] < MaxRefs
    /\ Begin(a, s, FALSE, FALSE)
    /\ \/ UNCHANGED <<active, refs, kept, marks>>
       \/ Track(s) /\ EndsLeaking(Stale, {s})
    /\ UNCHANGED sweep

-----------------------------------------------------------------------------
(* The end of an attempt. *)

\* markProviderFailed, a cancelled launch, or a winner that is not bound; the
\* release is sent and not awaited, or awaited before the winner is accounted.
GiveUp(a) ==
    /\ attempt[a] # None /\ attempt[a].at = "running" /\ attempt[a].held
    /\ \E end \in {"failed", "unbound"} : attempt' = [attempt EXCEPT ![a].at = end]
    /\ UNCHANGED <<active, refs, sweep, kept, marks>>

\* A success leaves the reference in place.
Succeed(a) ==
    /\ attempt[a] # None /\ attempt[a].at = "running"
    /\ attempt' = [attempt EXCEPT ![a] = [@ EXCEPT !.at = "refreshing", !.held = FALSE]]
    /\ LET s == attempt[a].session
       IN  kept' = IF attempt[a].held /\ s \notin marks.outlived
                   THEN [kept EXCEPT ![s] = @ + 1] ELSE kept
    /\ UNCHANGED <<active, refs, sweep, marks>>

Released(a) ==
    attempt' = [attempt EXCEPT ![a] =
        IF @.at = "failed" THEN None
        ELSE [@ EXCEPT !.at = "refreshing", !.held = FALSE, !.admitted = FALSE]]

\* The slot is free again.
Freed(s) == [marks EXCEPT !.bypassed = @ \ {s}, !.leaked = @ \ {s}, !.dropped = @ \ {s}]

\* Mutant: the count may fall below zero.
ReleaseUnguarded(a) ==
    /\ attempt[a] # None /\ attempt[a].at \in {"failed", "unbound"}
    /\ LET s == attempt[a].session
           n == refs[s] - 1
       IN  /\ refs' = [refs EXCEPT ![s] = n]
           /\ active' = IF n = 0 THEN [active EXCEPT ![s] = "absent"] ELSE active
           /\ marks' = IF n = 0 THEN Freed(s) ELSE marks
    /\ Released(a)
    /\ UNCHANGED <<sweep, kept>>

\* RELEASE_PROVIDER_SESSION.
Release(a) ==
    /\ attempt[a] # None /\ attempt[a].at \in {"failed", "unbound"}
    /\ LET s == attempt[a].session
           n == refs[s] - 1
       IN  \/ n < 0 /\ UNCHANGED <<active, refs, marks>>
           \/ /\ n > 0
              /\ refs' = [refs EXCEPT ![s] = n]
              /\ UNCHANGED <<active, marks>>
           \/ /\ n = 0
              /\ refs' = [refs EXCEPT ![s] = 0]
              /\ active' = [active EXCEPT ![s] = "absent"]
              /\ marks' = Freed(s)
    /\ Released(a)
    /\ UNCHANGED <<sweep, kept>>

\* refreshSession renews the membership, or makes one, without a reference.
Refresh(a) ==
    /\ attempt[a] # None /\ attempt[a].at = "refreshing"
    /\ LET s == attempt[a].session
           new == IF active[s] = "absent" THEN {s} ELSE {}
           unchecked == IF attempt[a].admitted THEN marks.outlived \cap new ELSE new
       IN  /\ active' = [active EXCEPT ![s] = "fresh"]
           /\ marks' = [marks EXCEPT !.leaked = @ \cup (new \ marks.outlived),
                                  !.bypassed = @ \cup unchecked]
    /\ attempt' = [attempt EXCEPT ![a] = None]
    /\ UNCHANGED <<refs, sweep, kept>>

\* The process dies, or Redis refuses its last command.  An attempt without a
\* reference, or whose cost is not accounted, ends like this too.
Abandon(a) ==
    /\ attempt[a] # None
    /\ attempt' = [attempt EXCEPT ![a] = None]
    /\ marks' = IF attempt[a].held
                THEN [marks EXCEPT !.leaked = @ \cup ({attempt[a].session} \ marks.outlived)]
                ELSE marks
    /\ UNCHANGED <<active, refs, sweep, kept>>

-----------------------------------------------------------------------------
(* Time, counting and termination. *)

Age(s) ==
    /\ active[s] = "fresh"
    /\ active' = [active EXCEPT ![s] = "stale"]
    /\ UNCHANGED <<refs, attempt, sweep, kept, marks>>

\* An hour without a command that renews the two keys.
KeysExpire ==
    /\ Members = Stale
    /\ active' = [s \in Sessions |-> "absent"]
    /\ refs' = [s \in Sessions |-> 0]
    /\ Ends(Sessions)
    /\ UNCHANGED <<attempt, sweep>>

\* countFromZSet, getProviderSessionCountBatch and the cleanup of
\* refreshSession: list the stale members, remove them, drop their references.
List(w) ==
    /\ sweep[w] = None /\ Stale # {}
    /\ sweep' = [sweep EXCEPT ![w] = [at |-> "listed", sessions |-> Stale]]
    /\ UNCHANGED <<active, refs, attempt, kept, marks>>

\* Mutant: the listed sessions are removed even if they came back meanwhile.
RemoveListed(w) ==
    /\ sweep[w] # None /\ sweep[w].at = "listed"
    /\ LET gone == sweep[w].sessions
       IN  /\ active' = [s \in Sessions |-> IF s \in gone THEN "absent" ELSE active[s]]
           /\ Ends(gone \cap Stale)
    /\ sweep' = [sweep EXCEPT ![w].at = "removed"]
    /\ UNCHANGED <<refs, attempt>>

Remove(w) ==
    /\ sweep[w] # None /\ sweep[w].at = "listed"
    /\ LET gone == sweep[w].sessions \cap Stale
       IN  /\ active' = [s \in Sessions |-> IF s \in gone THEN "absent" ELSE active[s]]
           /\ Ends(gone)
    /\ sweep' = [sweep EXCEPT ![w].at = "removed"]
    /\ UNCHANGED <<refs, attempt>>

DropRefs(w) ==
    /\ sweep[w] # None /\ sweep[w].at = "removed"
    /\ refs' = [s \in Sessions |-> IF s \in sweep[w].sessions THEN 0 ELSE refs[s]]
    /\ marks' = [marks EXCEPT !.dropped = @ \cup ((sweep[w].sessions \cap Members)
                                                     \ (marks.outlived \cup marks.leaked))]
    /\ sweep' = [sweep EXCEPT ![w] = None]
    /\ UNCHANGED <<active, attempt, kept>>

\* terminateSession: ZREM, then HDEL.
Terminate(w, s) ==
    /\ sweep[w] = None
    /\ active' = [active EXCEPT ![s] = "absent"]
    /\ Ends({s})
    /\ sweep' = [sweep EXCEPT ![w] = [at |-> "removed", sessions |-> {s}]]
    /\ UNCHANGED <<refs, attempt>>

Stop(w) ==
    /\ sweep[w] # None
    /\ sweep' = [sweep EXCEPT ![w] = None]
    /\ UNCHANGED <<active, refs, attempt, kept, marks>>

-----------------------------------------------------------------------------

AttemptStep(a) ==
    \/ \E s \in Sessions : CheckAndTrack(a, s) \/ FailOpen(a, s)
    \/ GiveUp(a) \/ Succeed(a) \/ Release(a) \/ Refresh(a) \/ Abandon(a)

SweepStep(w) ==
    \/ List(w) \/ Remove(w) \/ DropRefs(w) \/ Stop(w)
    \/ \E s \in Sessions : Terminate(w, s)

Next ==
    \/ \E a \in Attempts : AttemptStep(a)
    \/ \E w \in Sweepers : SweepStep(w)
    \/ \E s \in Sessions : Reject(s) \/ Age(s)
    \/ KeysExpire

Spec == Init /\ [][Next]_vars

-----------------------------------------------------------------------------
(* Properties. *)

\* A session in use occupies its slot: while an attempt holds a reference to
\* it, or a success left one, it is a member, unless a membership it had ended
\* under attempts that were still under way.
HoldersCounted ==
    \A s \in Sessions \ marks.outlived :
        Holders(s) # {} \/ kept[s] > 0 => active[s] # "absent"

\* The count never falls short of the references still to be released, unless
\* a cleanup dropped them all; then nothing is counted until the slot is free.
RefsCover ==
    \A s \in Sessions \ marks.outlived :
        refs[s] = 0 \/ refs[s] >= Cardinality(Holders(s)) + kept[s]

\* Sessions the limit check let in are never more than the limit.
LimitHeld == Cardinality(Members \ marks.bypassed) <= Limit

\* No attempt but a holds a reference to its session, and no success left one.
Last(a) == LET s == attempt[a].session IN Holders(s) = {a} /\ kept[s] = 0

\* The last release frees the slot at once, unless a reference was lost, or a
\* cleanup dropped the references of a session that was back.
SlotFreed ==
    [][\A a \in Attempts : Release(a) =>
          LET s == attempt[a].session
          IN  Last(a) => \/ active'[s] = "absent"
                         \/ s \in marks.outlived \cup marks.leaked \cup marks.dropped]_vars

\* The same, whatever cleanups do at the same time.
SlotFreedAtOnce ==
    [][\A a \in Attempts : Release(a) =>
          LET s == attempt[a].session
          IN  Last(a) => \/ active'[s] = "absent"
                         \/ s \in marks.outlived \cup marks.leaked]_vars
=============================================================================
