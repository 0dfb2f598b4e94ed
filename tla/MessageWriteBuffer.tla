------------------------- MODULE MessageWriteBuffer -------------------------
(***************************************************************************)
(* The write buffer of message_request rows in one process: updates wait   *)
(* in a map by row, coalesced, and a flush writes them in batches.  An     *)
(* ordinary update (timing, cost, tokens) is best effort.  A terminal      *)
(* update claims the outcome of a row and waits for an acknowledgement;    *)
(* a routing trace may follow once the row has its outcome.                *)
(*                                                                         *)
(* JavaScript runs one segment at a time, so an action is a segment        *)
(* between two awaits.  An acknowledgement is identified by the outcome or *)
(* the trace revision it waits for; it is settled once `active` no longer  *)
(* holds it.  Of the columns, a row has its outcome, its trace and one     *)
(* version standing for the rest.                                          *)
(***************************************************************************)
EXTENDS Naturals, FiniteSets

CONSTANTS
    Rows, Outcomes,
    MaxVersion,     \* bound: updates made
    MaxTrace,       \* bound: revisions of a row's routing trace
    BatchSize, MaxPending,
    None

Traces == 1..MaxTrace
Acks == Outcomes \cup Traces

ASSUME SizeAssumption ==
    /\ MaxVersion \in Nat /\ MaxTrace \in Nat
    /\ BatchSize \in Nat \ {0} /\ MaxPending \in Nat \ {0}
ASSUME RowsAssumption == IsFiniteSet(Rows)
ASSUME NamesAssumption == None \notin Acks /\ Outcomes \cap Nat = {}

VARIABLES
    row,        \* the table
    pending,    \* updates to write, by row
    deferred,   \* ordinary updates held back behind a trace; 0: none
    active,     \* durableAcknowledgements: the one not settled yet, by row
    flush,      \* flushInFlight, its batch, and flushAgainAfterCurrent
    timer,      \* whether flushTimer is set
    task,       \* postTerminalMetadataTasks
    callbacks,  \* rows whose commit callback is running
    stop,       \* where stop() is
    version,    \* the last version drawn
    used,       \* auxiliary: acknowledgements created, by row
    confirmed   \* auxiliary: commits announced to the caller, by row

vars == <<row, pending, deferred, active, flush, timer, task, callbacks, stop,
          version, used, confirmed>>

Versions == 0..MaxVersion       \* 0: the update does not touch these columns
Patches == [version : Versions, status : Outcomes \cup {None}, trace : 0..MaxTrace]
Items == [patch : Patches, ack : Acks \cup {None}, fence : BOOLEAN]

\* wrote: the rows the batch updated, None until the database executes it.
Flushes == [at : {"idle", "next", "sent", "tail"}, batch : [Rows -> Items \cup {None}],
            again : BOOLEAN, wrote : (SUBSET Rows) \cup {None}]

Tasks == [trace : Traces, at : {"waiting", "queued", "flushing"}, tries : 0..2,
          awaits : BOOLEAN]

Stops == [at : {"running", "drain", "retry", "join", "final", "final_retry",
                "reject", "last_join", "stopped"},
          failed : BOOLEAN, awaits : BOOLEAN]

ASSUME NoneAssumption ==
    None \notin Items \cup Tasks /\ \A rows \in SUBSET Rows : rows # None

TypeOK ==
    /\ row \in [Rows -> [status : Outcomes \cup {None}, version : Versions,
                         trace : 0..MaxTrace, deleted : BOOLEAN]]
    /\ pending \in [Rows -> Items \cup {None}]
    /\ deferred \in [Rows -> Versions]
    /\ active \in [Rows -> Acks \cup {None}]
    /\ flush \in Flushes
    /\ timer \in BOOLEAN
    /\ task \in [Rows -> Tasks \cup {None}]
    /\ callbacks \subseteq Rows
    /\ stop \in Stops
    /\ version \in Versions
    /\ used \in [Rows -> SUBSET Acks]
    /\ confirmed \in [Rows -> SUBSET Acks]

NoBatch == [r \in Rows |-> None]

Init ==
    /\ row = [r \in Rows |-> [status |-> None, version |-> 0, trace |-> 0,
                              deleted |-> FALSE]]
    /\ pending = [r \in Rows |-> None]
    /\ deferred = [r \in Rows |-> 0]
    /\ active = [r \in Rows |-> None]
    /\ flush = [at |-> "idle", batch |-> NoBatch, again |-> FALSE, wrote |-> None]
    /\ timer = FALSE
    /\ task = [r \in Rows |-> None]
    /\ callbacks = {}
    /\ stop = [at |-> "running", failed |-> FALSE, awaits |-> FALSE]
    /\ version = 0
    /\ used = [r \in Rows |-> {}]
    /\ confirmed = [r \in Rows |-> {}]

-----------------------------------------------------------------------------
(* The queue. *)

Stopping == stop.at # "running"

NoPatch == [version |-> 0, status |-> None, trace |-> 0]

\* Mutant: the older update wins.
MergeOlder(base, new) ==
    [version |-> IF base.version # 0 THEN base.version ELSE new.version,
     status |-> IF base.status # None THEN base.status ELSE new.status,
     trace |-> IF base.trace # 0 THEN base.trace ELSE new.trace]

Merge(base, new) ==
    [version |-> IF new.version # 0 THEN new.version ELSE base.version,
     status |-> IF new.status # None THEN new.status ELSE base.status,
     trace |-> IF new.trace # 0 THEN new.trace ELSE base.trace]

\* What is queued for a row, nothing being an empty ordinary update.
Queued(p, r) == IF p[r] = None THEN [patch |-> NoPatch, ack |-> None, fence |-> FALSE]
                ELSE p[r]

Waiting(p) == {r \in Rows : p[r] # None}
Held(d) == {r \in Rows : d[r] # 0}
Unsettled == {r \in Rows : active[r] # None}

\* Mutant: updates held back are not counted.
SizePending(p, d) == Cardinality(Waiting(p))

Size(p, d) == Cardinality(Waiting(p)) + Cardinality(Held(d))
Spare(p) == {r \in Waiting(p) : p[r].ack = None}

\* enforcePendingLimit drops ordinary updates until the rest fits, or none is
\* left.  Which go first depends on columns the version stands for.
Fit(p, d) ==
    LET over == IF Size(p, d) > MaxPending THEN Size(p, d) - MaxPending ELSE 0
        most == Cardinality(Spare(p)) + Cardinality(Held(d))
    IN  \E out \in SUBSET Spare(p), lost \in SUBSET Held(d) :
            /\ Cardinality(out) + Cardinality(lost) = IF over < most THEN over ELSE most
            /\ pending' = [r \in Rows |-> IF r \in out THEN None ELSE p[r]]
            /\ deferred' = [r \in Rows |-> IF r \in lost THEN 0 ELSE d[r]]

Started == [flush EXCEPT !.at = "next", !.again = FALSE]

\* flush(): joins the one in flight, if any.
CallFlush ==
    IF flush.at = "idle" THEN flush' = Started /\ timer' = FALSE
    ELSE flush' = [flush EXCEPT !.again = TRUE] /\ UNCHANGED timer

\* scheduleFlushIfNeeded
Schedule(n) ==
    IF flush.at = "idle" /\ n < BatchSize
    THEN timer' = (timer \/ ~Stopping) /\ UNCHANGED flush
    ELSE CallFlush

\* releaseDeferredOrdinary, for acknowledgements of rows rs that settle.
Releasing(rs) == {r \in rs : active[r] \in Traces /\ deferred[r] # 0}

Release(p, rs) ==
    [r \in Rows |->
        IF r \in Releasing(rs)
        THEN [patch |-> Merge(Queued(p, r).patch, [NoPatch EXCEPT !.version = deferred[r]]),
              ack |-> None, fence |-> TRUE]
        ELSE p[r]]

Settled(rs) == [r \in Rows |-> IF r \in rs THEN None ELSE active[r]]
\* Mutant: what was held back is queued and stays held back.
KeptUncleared(rs) == deferred
Kept(rs) == [r \in Rows |-> IF r \in Releasing(rs) THEN 0 ELSE deferred[r]]

-----------------------------------------------------------------------------
(* Updates. *)

\* Whether an ordinary update must wait: queued or in the batch, a trace is
\* under way.
Defers(r) == active[r] \in Traces

Enqueue(r) ==
    /\ ~Stopping /\ version < MaxVersion
    /\ version' = version + 1
    /\ IF Defers(r)
       THEN /\ Fit(pending, [deferred EXCEPT ![r] = version'])
            /\ UNCHANGED <<flush, timer>>
       ELSE /\ Fit([pending EXCEPT ![r] =
                       [Queued(pending, r) EXCEPT !.patch.version = version']], deferred)
            /\ Schedule(Cardinality(Waiting(pending')))
    /\ UNCHANGED <<row, active, task, callbacks, stop, used, confirmed>>

\* Put a patch with acknowledgement a in the queue, if it fits.
Acknowledge(r, patch, a) ==
    /\ Cardinality(Unsettled) < MaxPending
    /\ active' = [active EXCEPT ![r] = a]
    /\ Fit([pending EXCEPT ![r] =
               [patch |-> Merge(Queued(pending, r).patch, patch), ack |-> a, fence |-> FALSE]],
           deferred)
    /\ Size(pending', deferred') <= MaxPending
    /\ Schedule(Cardinality(Waiting(pending')))

\* enqueueDurably of a terminal update; a later contender only waits.
Claim(r, o) ==
    /\ ~Stopping /\ version < MaxVersion
    /\ active[r] = None /\ o \notin used[r]
    /\ version' = version + 1
    /\ used' = [used EXCEPT ![r] = @ \cup {o}]
    /\ Acknowledge(r, [version |-> version', status |-> o, trace |-> 0], o)
    /\ UNCHANGED <<row, task, callbacks, stop, confirmed>>

\* Reject the acknowledgement of row r and drop what it waits for.
Reject(r) ==
    /\ pending' = Release(IF Queued(pending, r).ack = active[r]
                          THEN [pending EXCEPT ![r] = None] ELSE pending, {r})
    /\ deferred' = Kept({r})
    /\ active' = Settled({r})
    /\ IF Releasing({r}) = {} THEN UNCHANGED <<flush, timer>>
       ELSE Schedule(Cardinality(Waiting(pending')))

Timeout(r) ==
    /\ active[r] # None
    /\ Reject(r)
    /\ UNCHANGED <<row, task, callbacks, stop, version, used, confirmed>>

-----------------------------------------------------------------------------
(* flush: batches until the queue is empty or the database fails.  What     *)
(* follows an answer at once in the code may be preceded by another step.   *)

TimerFires ==
    /\ timer /\ CallFlush
    /\ UNCHANGED <<row, pending, deferred, active, task, callbacks, stop, version, used,
                   confirmed>>

\* Queued with an acknowledgement that is settled: a shutdown rejected it.
Stale == {r \in Waiting(pending) : pending[r].ack \notin {None, active[r]}}

\* takeBatch takes the oldest entries of the map: what is rejected was there before
\* whatever is acknowledged since.  The order is else left open.
InOrder(rs) == (\E r \in rs : pending[r].ack # None /\ r \notin Stale) => Stale \subseteq rs

Batches == LET n == Cardinality(Waiting(pending))
           IN  {rs \in SUBSET Waiting(pending) :
                    /\ Cardinality(rs) = IF n < BatchSize THEN n ELSE BatchSize
                    /\ InOrder(rs)}

TakeBatch ==
    /\ flush.at = "next" /\ Waiting(pending) # {}
    /\ \E rs \in Batches :
          /\ flush' = [flush EXCEPT !.at = "sent",
                          !.batch = [r \in Rows |-> IF r \in rs THEN pending[r] ELSE None]]
          /\ pending' = [r \in Rows |-> IF r \in rs THEN None ELSE pending[r]]
    /\ UNCHANGED <<row, deferred, active, timer, task, callbacks, stop, version, used,
                   confirmed>>

Drained ==
    /\ flush.at = "next" /\ Waiting(pending) = {}
    /\ flush' = [flush EXCEPT !.at = "tail"]
    /\ UNCHANGED <<row, pending, deferred, active, timer, task, callbacks, stop, version,
                   used, confirmed>>

Batched == {r \in Rows : flush.batch[r] # None}

\* A terminal update, or an ordinary one that was held back behind a trace,
\* needs a row that has no outcome.
Fenced(r) == flush.batch[r].fence \/ flush.batch[r].ack \in Outcomes

\* Mutant: no condition on the outcome.
MatchesUnfenced(r) == ~row[r].deleted

\* Mutant: the condition is left out of a batch that mixes updates.
MatchesIfAllFenced(r) ==
    ~row[r].deleted /\ ((\A s \in Batched : Fenced(s)) => row[r].status = None)

\* The WHERE clause of the batch.
Matches(r) == ~row[r].deleted /\ (Fenced(r) => row[r].status = None)

\* Only a trace that is acknowledged as one looks at the stored revision.
Written(old, item) ==
    [status |-> IF item.patch.status # None THEN item.patch.status ELSE old.status,
     version |-> IF item.patch.version # 0 THEN item.patch.version ELSE old.version,
     trace |-> IF item.patch.trace # 0 /\ (item.ack \in Traces => item.patch.trace > old.trace)
               THEN item.patch.trace ELSE old.trace,
     deleted |-> old.deleted]

\* The database executes the statement, whether or not its answer arrives.
Execute ==
    /\ flush.at = "sent" /\ flush.wrote = None
    /\ LET hit == {r \in Batched : Matches(r)}
       IN  /\ row' = [r \in Rows |-> IF r \in hit
                                     THEN Written(row[r], flush.batch[r]) ELSE row[r]]
           /\ flush' = [flush EXCEPT !.wrote = hit]
    /\ UNCHANGED <<pending, deferred, active, timer, task, callbacks, stop, version, used,
                   confirmed>>

AckOf(r) == flush.batch[r].ack

\* Acknowledgements in the batch that are still waited for.
Awaited == {r \in Batched : AckOf(r) # None /\ AckOf(r) = active[r]}

\* A commit is announced even to a claim that timed out.
Announced == {r \in flush.wrote : AckOf(r) \in Outcomes}

\* Mutant: the statement's RETURNING is not read.
ToldUnread == Awaited
Told == Announced \cup (flush.wrote \cap Awaited)

ReplyOk ==
    /\ flush.at = "sent" /\ flush.wrote # None
    /\ callbacks' = callbacks \cup Announced
    /\ confirmed' = [r \in Rows |-> IF r \in Told THEN confirmed[r] \cup {AckOf(r)}
                                    ELSE confirmed[r]]
    /\ pending' = Release(pending, Awaited)
    /\ deferred' = Kept(Awaited)
    /\ active' = Settled(Awaited)
    /\ flush' = [at |-> "next", batch |-> NoBatch, wrote |-> None,
                 again |-> flush.again \/ Releasing(Awaited) # {}]
    /\ UNCHANGED <<row, timer, task, stop, version, used>>

\* Acknowledgements of queued updates that are still waited for.
Live(r) == IF Queued(pending, r).ack = active[r] THEN active[r] ELSE None

\* What of a failed batch is queued again: all but claims that timed out.
Back == {r \in Batched : AckOf(r) = None \/ r \in Awaited}

\* An ordinary update goes behind a trace that is queued now.
\* Mutant: a failed ordinary update is merged into a queued trace.
BehindNothing == {}
Behind == {r \in Back : AckOf(r) = None /\ Live(r) \in Traces}

\* The rest goes under what was queued since.
ReplyError ==
    /\ flush.at = "sent"
    /\ Fit([r \in Rows |->
               IF r \in Back \ Behind
               THEN [patch |-> Merge(flush.batch[r].patch, Queued(pending, r).patch),
                     ack |-> IF AckOf(r) # None THEN AckOf(r) ELSE Live(r),
                     fence |-> flush.batch[r].fence \/ Queued(pending, r).fence]
               ELSE pending[r]],
           [r \in Rows |-> IF r \in Behind /\ deferred[r] = 0
                           THEN flush.batch[r].patch.version ELSE deferred[r]])
    /\ flush' = [at |-> IF flush.again THEN "next" ELSE "tail", batch |-> NoBatch,
                 wrote |-> None, again |-> FALSE]
    /\ UNCHANGED <<row, active, timer, task, callbacks, stop, version, used, confirmed>>

\* Mutant: only a full batch sets the timer again.
RearmFull == Cardinality(Waiting(pending)) >= BatchSize /\ ~Stopping
Rearm == Waiting(pending) # {} /\ ~Stopping

\* The finally block; those that await the flush go on.
Finish ==
    /\ flush.at = "tail"
    /\ flush' = [flush EXCEPT !.at = "idle"]
    /\ timer' = (timer \/ Rearm)
    /\ task' = [r \in Rows |-> IF task[r] = None THEN None
                               ELSE [task[r] EXCEPT !.awaits = FALSE]]
    /\ stop' = [stop EXCEPT !.awaits = FALSE]
    /\ UNCHANGED <<row, pending, deferred, active, callbacks, version, used, confirmed>>

-----------------------------------------------------------------------------
(* Routing traces of rows that have their outcome. *)

Running(r, stage) == task[r] # None /\ task[r].at = stage /\ ~task[r].awaits

\* The one caller, recordBindingFinalized, runs once the row's outcome is committed and
\* sends what the request's trace holds by then, so its revisions come in order.  While
\* stopping, only the callback of a commit may start one.
TraceStart(r, t) ==
    /\ task[r] = None /\ row[r].status # None
    /\ \A u \in used[r] : u \in Traces => u < t
    /\ Stopping => stop.at \in {"drain", "retry", "join"} /\ callbacks # {}
    /\ Cardinality({s \in Rows : task[s] # None}) < MaxPending
    /\ task' = [task EXCEPT ![r] = [trace |-> t, at |-> "waiting", tries |-> 0,
                                    awaits |-> FALSE]]
    /\ used' = [used EXCEPT ![r] = @ \cup {t}]
    /\ UNCHANGED <<row, pending, deferred, active, flush, timer, callbacks, stop, version,
                   confirmed>>

\* What is queued for the row goes first.
TraceFlush(r) ==
    /\ Running(r, "waiting") /\ active[r] = None /\ pending[r] # None
    /\ CallFlush
    /\ task' = [task EXCEPT ![r].awaits = TRUE]
    /\ UNCHANGED <<row, pending, deferred, active, callbacks, stop, version, used, confirmed>>

TraceEnqueue(r) ==
    /\ Running(r, "waiting") /\ active[r] = None /\ pending[r] = None
    /\ Acknowledge(r, [NoPatch EXCEPT !.trace = task[r].trace], task[r].trace)
    /\ task' = [task EXCEPT ![r].at = IF Stopping THEN "flushing" ELSE "queued"]
    /\ UNCHANGED <<row, callbacks, stop, version, used, confirmed>>

\* Past its deadline, or the queue is full.
TraceFails(r) ==
    /\ Running(r, "waiting")
    /\ task' = [task EXCEPT ![r] = None]
    /\ UNCHANGED <<row, pending, deferred, active, flush, timer, callbacks, stop, version,
                   used, confirmed>>

\* Mutant: no bound on the flushes a task drives.
TraceDrivesOn(r) ==
    /\ Running(r, "flushing") /\ active[r] = task[r].trace
    /\ CallFlush
    /\ task' = [task EXCEPT ![r].tries = @ + 1, ![r].awaits = TRUE]
    /\ UNCHANGED <<row, pending, deferred, active, callbacks, stop, version, used, confirmed>>

\* Nothing but the task itself flushes once the buffer stops.
TraceDrives(r) ==
    /\ Running(r, "flushing") /\ active[r] = task[r].trace /\ task[r].tries < 2
    /\ CallFlush
    /\ task' = [task EXCEPT ![r].tries = @ + 1, ![r].awaits = TRUE]
    /\ UNCHANGED <<row, pending, deferred, active, callbacks, stop, version, used, confirmed>>

TraceGivesUp(r) ==
    /\ Running(r, "flushing") /\ active[r] = task[r].trace /\ task[r].tries = 2
    /\ Reject(r)
    /\ task' = [task EXCEPT ![r] = None]
    /\ UNCHANGED <<row, callbacks, stop, version, used, confirmed>>

TraceEnds(r) ==
    /\ Running(r, "queued") \/ Running(r, "flushing")
    /\ active[r] # task[r].trace
    /\ task' = [task EXCEPT ![r] = None]
    /\ UNCHANGED <<row, pending, deferred, active, flush, timer, callbacks, stop, version,
                   used, confirmed>>

CallbackEnds(r) ==
    /\ r \in callbacks
    /\ callbacks' = callbacks \ {r}
    /\ UNCHANGED <<row, pending, deferred, active, flush, timer, task, stop, version, used,
                   confirmed>>

-----------------------------------------------------------------------------
(* stop. *)

StopGoes(at, failed) == stop' = [at |-> at, failed |-> failed, awaits |-> FALSE]

StopFlushes(at) ==
    /\ stop' = [at |-> at, failed |-> FALSE, awaits |-> TRUE]
    /\ CallFlush

StopBegins ==
    /\ stop.at = "running"
    /\ StopFlushes("drain")

\* One retry of a failed batch, in either drain.
StopRetries(at, retry) ==
    /\ stop.at = at /\ ~stop.awaits /\ Waiting(pending) # {}
    /\ StopFlushes(retry)

\* Mutant: the result of the drain is not read.
StopDrainedUnread(at, retry, after) ==
    /\ stop.at \in {at, retry} /\ ~stop.awaits
    /\ stop.at = at => Waiting(pending) = {}
    /\ StopGoes(after, FALSE)
    /\ UNCHANGED <<flush, timer>>

\* Mutant: the drain waits for an empty queue.
StopDrainedEmpty(at, retry, after) ==
    /\ stop.at \in {at, retry} /\ ~stop.awaits
    /\ Waiting(pending) = {}
    /\ StopGoes(after, FALSE)
    /\ UNCHANGED <<flush, timer>>

StopDrained(at, retry, after) ==
    /\ stop.at \in {at, retry} /\ ~stop.awaits
    /\ stop.at = at => Waiting(pending) = {}
    /\ StopGoes(after, Waiting(pending) # {})
    /\ UNCHANGED <<flush, timer>>

Joined == callbacks = {} /\ \A r \in Rows : task[r] = None

StopJoins ==
    /\ stop.at = "join"
    /\ IF stop.failed THEN StopGoes("reject", TRUE) /\ UNCHANGED <<flush, timer>>
       ELSE Joined /\ StopFlushes("final")

StopDrains ==
    /\ \/ StopBegins
       \/ StopRetries("drain", "retry") \/ StopDrained("drain", "retry", "join")
       \/ StopJoins
       \/ StopRetries("final", "final_retry") \/ StopDrained("final", "final_retry", "reject")
    /\ UNCHANGED <<row, pending, deferred, active, task, callbacks, version, used, confirmed>>

\* rejectAllDurableAcknowledgements
StopRejects ==
    /\ stop.at = "reject"
    /\ pending' = Release(pending, Unsettled)
    /\ deferred' = Kept(Unsettled)
    /\ active' = Settled(Unsettled)
    /\ IF Releasing(Unsettled) = {} THEN UNCHANGED <<flush, timer>>
       ELSE Schedule(Cardinality(Waiting(pending')))
    /\ StopGoes("last_join", stop.failed)
    /\ UNCHANGED <<row, task, callbacks, version, used, confirmed>>

StopEnds ==
    /\ stop.at = "last_join" /\ Joined
    /\ pending' = [r \in Rows |-> None]
    /\ deferred' = [r \in Rows |-> 0]
    /\ StopGoes("stopped", stop.failed)
    /\ UNCHANGED <<row, active, flush, timer, task, callbacks, version, used, confirmed>>

-----------------------------------------------------------------------------
(* Other writers of the table. *)

\* updateMessageRequestDetailsIfUnfinalized: the fallback of a request whose
\* claim failed, written past the buffer.  Of its columns, only the outcome is
\* modelled.
Finalize(r, o) ==
    /\ row[r].status = None /\ active[r] # o
    /\ row' = [row EXCEPT ![r].status = o]
    /\ confirmed' = [confirmed EXCEPT ![r] = @ \cup {o}]
    /\ UNCHANGED <<pending, deferred, active, flush, timer, task, callbacks, stop, version,
                   used>>

Delete(r) ==
    /\ ~row[r].deleted
    /\ row' = [row EXCEPT ![r].deleted = TRUE]
    /\ UNCHANGED <<pending, deferred, active, flush, timer, task, callbacks, stop, version,
                   used, confirmed>>

-----------------------------------------------------------------------------

TraceStep(r) ==
    TraceFlush(r) \/ TraceEnqueue(r) \/ TraceDrives(r) \/ TraceGivesUp(r) \/ TraceEnds(r)

StopStep == StopDrains \/ StopRejects \/ StopEnds

Next ==
    \/ \E r \in Rows :
          \/ Enqueue(r) \/ Timeout(r) \/ CallbackEnds(r) \/ Delete(r)
          \/ TraceStep(r) \/ TraceFails(r)
          \/ \E o \in Outcomes : Claim(r, o) \/ Finalize(r, o)
          \/ \E t \in Traces : TraceStart(r, t)
    \/ TimerFires \/ TakeBatch \/ Drained \/ Execute \/ ReplyOk \/ ReplyError \/ Finish
    \/ StopStep

\* The database answers or the driver gives up; timers fire; callbacks, which
\* are promises the buffer waits for, settle.  A task looks at its deadline each
\* time round its loop, and time passes whether or not it waits in between.
Fairness ==
    /\ WF_vars(TimerFires) /\ WF_vars(TakeBatch) /\ WF_vars(Drained)
    /\ WF_vars(ReplyOk \/ ReplyError) /\ WF_vars(Finish)
    /\ \A r \in Rows : /\ WF_vars(Timeout(r)) /\ WF_vars(CallbackEnds(r))
                       /\ WF_vars(TraceStep(r)) /\ SF_vars(TraceFails(r))
    /\ WF_vars(StopStep /\ Stopping)

Spec == Init /\ [][Next]_vars /\ Fairness

-----------------------------------------------------------------------------
(* Properties. *)

\* The first outcome a row is given stands, whoever claims it later and
\* however late or often a batch is executed.
FirstOutcomeStands ==
    [][\A r \in Rows : row[r].status # None => row'[r].status = row[r].status]_vars

\* An update gives way only to a newer one of its row, or is dropped: neither
\* the table nor the queue goes back to an older value through a batch that
\* failed and was queued again, or an update held back behind a trace.
NewerWins ==
    [][\A r \in Rows :
          /\ row'[r].version >= row[r].version /\ row'[r].trace >= row[r].trace
          /\ pending[r] # None /\ pending'[r] # None
                => pending'[r].patch.version >= pending[r].patch.version
          /\ deferred'[r] # 0 => deferred'[r] >= deferred[r]]_vars

\* A caller told that its update committed finds it in the table, though the
\* answer came after its time-out or after another claim.
AckHonest ==
    \A r \in Rows : \A a \in confirmed[r] :
        IF a \in Outcomes THEN row[r].status = a ELSE row[r].trace >= a

\* An update acknowledged as a trace writes nothing but the trace: it is not
\* fenced, so any other column in it would get past the row's outcome.
TraceOnly(item) == item # None /\ item.ack \in Traces => item.patch = [NoPatch EXCEPT !.trace = item.ack]

TraceIsolated == \A r \in Rows : TraceOnly(pending[r]) /\ TraceOnly(flush.batch[r])

\* An acknowledgement that is waited for is queued or in the batch, and an
\* update is held back only as long as such an acknowledgement of a trace.
NothingStranded ==
    \A r \in Rows :
        /\ active[r] # None => \/ Queued(pending, r).ack = active[r]
                               \/ Queued(flush.batch, r).ack = active[r]
        /\ deferred[r] # 0 => active[r] \in Traces

\* maxPending bounds what waits, the updates held back included.
QueueBounded ==
    Cardinality(Waiting(pending)) + Cardinality(Held(deferred)) <= MaxPending

\* Whatever waits has a flush coming: no update is left for the next one.
NoLostFlush ==
    Waiting(pending) # {} /\ ~Stopping => timer \/ flush.at # "idle"

\* A shutdown that reports no error discards nothing.
CleanStop ==
    [][StopEnds /\ ~stop.failed =>
          Waiting(pending) = {} /\ Held(deferred) = {} /\ Batched = {}]_vars

\* Shutdown ends, whatever the database and the callbacks do.
StopTerminates == Stopping ~> stop.at = "stopped"
=============================================================================
