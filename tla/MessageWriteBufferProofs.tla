---------------------- MODULE MessageWriteBufferProofs ----------------------
(***************************************************************************)
(* Proofs about the write buffer, for any number of rows, outcomes,        *)
(* updates and traces, any batch and any queue: what a caller is told is   *)
(* in the table, the first outcome and the newest values stay there, the   *)
(* queue keeps its bound, and a clean shutdown leaves nothing behind.      *)
(***************************************************************************)
EXTENDS MessageWriteBufferInvariant

(* What the queue's operators do to one row. *)

\* What is queued for a row is what the map holds.
LEMMA QueuedIs == \A p, r : Queued(p, r) = Item(p[r])
BY DEF Queued, Item

\* Eviction drops updates without acknowledgement, and what is held back.
LEMMA FitIs ==
    ASSUME NEW p, NEW d, Fit(p, d)
    PROVE  /\ pending' = [r \in Rows |-> pending'[r]] /\ deferred' = [r \in Rows |-> deferred'[r]]
           /\ \A r \in Rows : /\ pending'[r] \in {p[r], None}
                              /\ pending'[r] = p[r] \/ AckIn(p[r]) = None
                              /\ deferred'[r] \in {d[r], 0}
<1>1. PICK out \in SUBSET Spare(p), lost \in SUBSET Held(d) :
         /\ pending' = [r \in Rows |-> IF r \in out THEN None ELSE p[r]]
         /\ deferred' = [r \in Rows |-> IF r \in lost THEN 0 ELSE d[r]]
  BY DEF Fit
<1>2. \A r \in out : p[r] # None /\ p[r].ack = None
  BY DEF Spare, Waiting
<1> QED BY <1>1, <1>2 DEF AckIn, Item

\* A call of flush starts one, or leaves word with the one in flight.
LEMMA Calling ==
    ASSUME flush \in Flushes, CallFlush, timer \in BOOLEAN
    PROVE  /\ flush' \in Flushes /\ flush'.batch = flush.batch /\ flush'.wrote = flush.wrote
           /\ flush'.at = IF flush.at = "idle" THEN "next" ELSE flush.at
           /\ timer' = IF flush.at = "idle" THEN FALSE ELSE timer
           /\ timer' \in BOOLEAN
<1>1. flush' \in Flushes /\ flush'.batch = flush.batch /\ flush'.wrote = flush.wrote
      /\ flush'.at = IF flush.at = "idle" THEN "next" ELSE flush.at
  <2>1. CASE flush.at = "idle"
    BY <2>1 DEF CallFlush, Started, Flushes
  <2>2. CASE flush.at # "idle"
    BY <2>2 DEF CallFlush, Flushes
  <2> QED BY <2>1, <2>2
<1> QED BY <1>1 DEF CallFlush

\* So does an update that is queued, or it sets the timer.
LEMMA Scheduling ==
    ASSUME flush \in Flushes, timer \in BOOLEAN, NEW n, Schedule(n)
    PROVE  /\ flush' \in Flushes /\ flush'.batch = flush.batch /\ flush'.wrote = flush.wrote
           /\ flush'.at \in {flush.at, "next"} /\ (flush.at # "idle" => flush'.at = flush.at)
           /\ timer' \in BOOLEAN
           /\ timer' => timer \/ (~Stopping /\ flush'.at = "idle")
           /\ timer' /\ flush.at = "idle" => flush'.at = "idle"
           /\ ~Stopping => timer' \/ flush'.at # "idle"
<1>1. CASE flush.at = "idle" /\ n < BatchSize
  BY <1>1 DEF Schedule
<1>2. CASE ~(flush.at = "idle" /\ n < BatchSize)
  <2>1. CallFlush
    BY <1>2 DEF Schedule
  <2>2. flush.at \in {"idle", "next", "sent", "tail"}
    BY DEF Flushes
  <2> QED BY <2>1, <2>2, Calling
<1> QED BY <1>1, <1>2

\* What an acknowledgement that settles leaves of a row.
LEMMA ReleaseIs ==
    ASSUME TypeOK, NEW p, NEW rs \in SUBSET Rows, NEW r \in Rows
    PROVE  /\ Release(p, rs)[r] = IF r \in rs THEN Released(p[r], deferred[r], active[r]) ELSE p[r]
           /\ Kept(rs)[r] = IF r \in rs THEN KeptBack(deferred[r], active[r]) ELSE deferred[r]
           /\ Settled(rs)[r] = IF r \in rs THEN None ELSE active[r]
BY QueuedIs DEF Release, Releasing, Released, Kept, KeptBack, Settled

-----------------------------------------------------------------------------
(* What a step keeps of the rows and of the types. *)

\* It is enough to look at each row, and at the rest of the buffer.
LEMMA Together ==
    ASSUME row' = [r \in Rows |-> row'[r]], pending' = [r \in Rows |-> pending'[r]],
           deferred' = [r \in Rows |-> deferred'[r]], active' = [r \in Rows |-> active'[r]],
           task' = [r \in Rows |-> task'[r]], used' = [r \in Rows |-> used'[r]],
           flush' \in Flushes, timer' \in BOOLEAN, callbacks' \in SUBSET Rows, stop' \in Stops,
           version' \in Versions, confirmed' \in [Rows -> SUBSET Acks],
           \A r \in Rows : Fits(row'[r], flush'.batch[r], pending'[r], deferred'[r],
                                active'[r], task'[r], used'[r], version', stop')
    PROVE  TypeOK' /\ RowsFit'
<1>1. \A r \in Rows : TypesFit(row'[r], flush'.batch[r], pending'[r], deferred'[r],
                               active'[r], task'[r], used'[r], version')
  BY DEF Fits
<1>2. /\ \A r \in Rows : row'[r] \in RowStates
      /\ \A r \in Rows : pending'[r] \in Items \cup {None}
      /\ \A r \in Rows : deferred'[r] \in Versions
      /\ \A r \in Rows : active'[r] \in Acks \cup {None}
      /\ \A r \in Rows : task'[r] \in Tasks \cup {None}
      /\ \A r \in Rows : used'[r] \in SUBSET Acks
  BY <1>1 DEF TypesFit
<1>3. /\ row' \in [Rows -> RowStates] /\ pending' \in [Rows -> Items \cup {None}]
      /\ deferred' \in [Rows -> Versions]
  BY <1>2
<1>4. /\ active' \in [Rows -> Acks \cup {None}]
      /\ task' \in [Rows -> Tasks \cup {None}] /\ used' \in [Rows -> SUBSET Acks]
  BY <1>2
<1> QED BY <1>3, <1>4 DEF TypeOK, RowsFit, RowStates

\* As it is.
LEMMA Given ==
    ASSUME IInv
    PROVE  /\ row = [r \in Rows |-> row[r]] /\ pending = [r \in Rows |-> pending[r]]
           /\ deferred = [r \in Rows |-> deferred[r]] /\ active = [r \in Rows |-> active[r]]
           /\ task = [r \in Rows |-> task[r]] /\ used = [r \in Rows |-> used[r]]
           /\ flush \in Flushes /\ timer \in BOOLEAN /\ callbacks \in SUBSET Rows
           /\ stop \in Stops /\ version \in Versions /\ confirmed \in [Rows -> SUBSET Acks]
           /\ version \in Nat
           /\ \A r \in Rows : Fits(row[r], flush.batch[r], pending[r], deferred[r],
                                   active[r], task[r], used[r], version, stop)
BY Names DEF IInv, TypeOK, RowsFit, Versions

\* An ordinary update is queued, or held back behind a trace.
LEMMA EnqueueRows ==
    ASSUME IInv, NEW r \in Rows, Enqueue(r)
    PROVE  TypeOK' /\ RowsFit'
<1>1. /\ version' \in Versions /\ version' \in Nat /\ version < version' /\ ~IsLate(stop)
      /\ UNCHANGED <<row, active, task, callbacks, stop, used, confirmed>>
  BY Given, Names DEF Enqueue, Versions, Stopping, IsLate
<1>2. CASE Defers(r)
  <2>1. PICK d : d = [deferred EXCEPT ![r] = version']
    OBVIOUS
  <2>2. Fit(pending, d) /\ UNCHANGED <<flush, timer>>
    BY <1>2, <2>1 DEF Enqueue
  <2>3. \A s \in Rows : Fits(row[s], flush.batch[s], pending[s], d[s],
                             active[s], task[s], used[s], version', stop)
    <3>1. Fits(row[r], flush.batch[r], pending[r], d[r], active[r], task[r], used[r], version', stop)
      BY <1>1, <1>2, <2>1, Given, HoldingBack DEF Defers
    <3>2. ASSUME NEW s \in Rows, s # r
          PROVE  Fits(row[s], flush.batch[s], pending[s], d[s], active[s], task[s], used[s],
                      version', stop)
      BY <1>1, <2>1, <3>2, Given, Passing
    <3> QED BY <3>1, <3>2
  <2>4. \A s \in Rows : Fits(row[s], flush.batch[s], pending'[s], deferred'[s],
                             active[s], task[s], used[s], version', stop)
    BY <2>2, <2>3, FitIs, Evicting
  <2> QED BY <1>1, <2>2, <2>4, FitIs, Given, Together
<1>3. CASE ~Defers(r)
  <2>1. PICK p : p = [pending EXCEPT ![r] = [Queued(pending, r) EXCEPT !.patch.version = version']]
    OBVIOUS
  <2>2. /\ Fit(p, deferred)
        /\ flush' \in Flushes /\ flush'.batch = flush.batch /\ timer' \in BOOLEAN
    <3>1. Fit(p, deferred) /\ Schedule(Cardinality(Waiting(pending')))
      BY <1>3, <2>1 DEF Enqueue
    <3> QED BY <3>1, Given, Scheduling
  <2>3. \A s \in Rows : Fits(row[s], flush.batch[s], p[s], deferred[s],
                             active[s], task[s], used[s], version', stop)
    <3>1. p[r] = [Item(pending[r]) EXCEPT !.patch.version = version']
      BY <2>1, Given, QueuedIs
    <3>2. Fits(row[r], flush.batch[r], [Item(pending[r]) EXCEPT !.patch.version = version'],
               deferred[r], active[r], task[r], used[r], version', stop)
      BY <1>1, <1>3, Given, Queueing DEF Defers
    <3>3. ASSUME NEW s \in Rows, s # r
          PROVE  Fits(row[s], flush.batch[s], p[s], deferred[s], active[s], task[s], used[s],
                      version', stop)
      BY <1>1, <2>1, <3>3, Given, Passing
    <3> QED BY <3>1, <3>2, <3>3
  <2>4. \A s \in Rows : Fits(row[s], flush.batch[s], pending'[s], deferred'[s],
                             active[s], task[s], used[s], version', stop)
    BY <2>2, <2>3, FitIs, Evicting
  <2> QED BY <1>1, <2>2, <2>4, FitIs, Given, Together
<1> QED BY <1>2, <1>3

\* A claim is queued.
LEMMA ClaimRows ==
    ASSUME IInv, NEW r \in Rows, NEW o \in Outcomes, Claim(r, o)
    PROVE  TypeOK' /\ RowsFit'
<1>1. /\ version' \in Versions /\ version' \in Nat /\ version < version'
      /\ ~IsLate(stop) /\ ~HasJoined(stop)
      /\ active[r] = None /\ o \notin used[r]
      /\ active' = [active EXCEPT ![r] = o] /\ used' = [used EXCEPT ![r] = @ \cup {o}]
      /\ UNCHANGED <<row, task, callbacks, stop, confirmed>>
  BY Given, Names DEF Claim, Acknowledge, Versions, Stopping, IsLate, HasJoined
<1>2. PICK new : new = [version |-> version', status |-> o, trace |-> 0]
  OBVIOUS
<1>3. PICK q : q = [patch |-> Merge(Item(pending[r]).patch, new), ack |-> o, fence |-> FALSE]
  OBVIOUS
<1>4. PICK p : p = [pending EXCEPT ![r] = q]
  OBVIOUS
<1>5. /\ Fit(p, deferred)
      /\ flush' \in Flushes /\ flush'.batch = flush.batch /\ timer' \in BOOLEAN
  <2>1. Fit(p, deferred) /\ Schedule(Cardinality(Waiting(pending')))
    BY <1>2, <1>3, <1>4, QueuedIs DEF Claim, Acknowledge
  <2> QED BY <2>1, Given, Scheduling
<1>6. \A s \in Rows : Fits(row[s], flush.batch[s], p[s], deferred[s],
                           active'[s], task[s], used'[s], version', stop)
  <2>1. Fits(row[r], flush.batch[r], q, deferred[r], o, task[r], used[r] \cup {o}, version', stop)
    BY <1>1, <1>2, <1>3, Given, Claiming
  <2>2. p[r] = q /\ active'[r] = o /\ used'[r] = used[r] \cup {o}
    BY <1>1, <1>4, Given
  <2>3. ASSUME NEW s \in Rows, s # r
        PROVE  Fits(row[s], flush.batch[s], p[s], deferred[s], active'[s], task[s], used'[s],
                    version', stop)
    <3>1. p[s] = pending[s] /\ active'[s] = active[s] /\ used'[s] = used[s]
      BY <1>1, <1>4, <2>3, Given
    <3> QED BY <1>1, <3>1, Given, Passing
  <2> QED BY <2>1, <2>2, <2>3
<1>7. \A s \in Rows : Fits(row[s], flush.batch[s], pending'[s], deferred'[s],
                           active'[s], task[s], used'[s], version', stop)
  BY <1>5, <1>6, FitIs, Evicting
<1>8. active' = [s \in Rows |-> active'[s]] /\ used' = [s \in Rows |-> used'[s]]
  BY <1>1, Given
<1> QED BY <1>1, <1>5, <1>7, <1>8, FitIs, Given, Together

\* An acknowledgement is rejected.
LEMMA RejectRows ==
    ASSUME IInv, NEW r \in Rows, active[r] # None, Reject(r)
    PROVE  /\ pending' = [s \in Rows |-> pending'[s]] /\ deferred' = [s \in Rows |-> deferred'[s]]
           /\ active' = [s \in Rows |-> active'[s]]
           /\ flush' \in Flushes /\ flush'.batch = flush.batch /\ timer' \in BOOLEAN
           /\ \A s \in Rows \ {r} : Fits(row[s], flush.batch[s], pending'[s], deferred'[s],
                                         active'[s], task[s], used[s], version, stop)
           /\ \A t \in {task[r], None} : Fits(row[r], flush.batch[r], pending'[r], deferred'[r],
                                              active'[r], t, used[r], version, stop)
<1>1. PICK p : p = IF Queued(pending, r).ack = active[r]
                   THEN [pending EXCEPT ![r] = None] ELSE pending
  OBVIOUS
<1>2. pending' = Release(p, {r}) /\ deferred' = Kept({r}) /\ active' = Settled({r})
  BY <1>1 DEF Reject
<1>3. flush' \in Flushes /\ flush'.batch = flush.batch /\ timer' \in BOOLEAN
  <2>1. (UNCHANGED <<flush, timer>>) \/ Schedule(Cardinality(Waiting(pending')))
    BY DEF Reject
  <2> QED BY <2>1, Given, Scheduling
<1>4. /\ pending' = [s \in Rows |-> pending'[s]] /\ deferred' = [s \in Rows |-> deferred'[s]]
      /\ active' = [s \in Rows |-> active'[s]]
  BY <1>2 DEF Release, Kept, Settled
<1>5. \A s \in Rows : /\ pending'[s] = IF s = r THEN Released(p[r], deferred[r], active[r]) ELSE p[s]
                      /\ deferred'[s] = IF s = r THEN KeptBack(deferred[r], active[r]) ELSE deferred[s]
                      /\ active'[s] = IF s = r THEN None ELSE active[s]
  BY <1>2, ReleaseIs DEF IInv
<1>6. ASSUME NEW s \in Rows \ {r}
      PROVE  Fits(row[s], flush.batch[s], pending'[s], deferred'[s], active'[s], task[s], used[s],
                  version, stop)
  <2>1. p[s] = pending[s]
    BY <1>1, Given
  <2> QED BY <1>5, <2>1, Given
<1>7. ASSUME NEW t \in {task[r], None}
      PROVE  Fits(row[r], flush.batch[r], pending'[r], deferred'[r], active'[r], t, used[r],
                  version, stop)
  <2>1. p[r] \in {pending[r], None} /\ AckIn(p[r]) = None
    <3>1. p[r] = IF AckIn(pending[r]) = active[r] THEN None ELSE pending[r]
      BY <1>1, Given, QueuedIs DEF AckIn
    <3>2. AckIn(pending[r]) # None => AckIn(pending[r]) = active[r]
      BY Given DEF Fits, AcksFit
    <3> QED BY <3>1, <3>2, Nothing
  <2>2. Fits(row[r], flush.batch[r], Released(p[r], deferred[r], active[r]),
             KeptBack(deferred[r], active[r]), None, t, used[r], version, stop)
    BY <2>1, Given, Settling
  <2> QED BY <1>5, <2>2
<1> QED BY <1>3, <1>4, <1>6, <1>7

\* A time-out rejects the acknowledgement of a row.
LEMMA TimeoutRows ==
    ASSUME IInv, NEW r \in Rows, Timeout(r)
    PROVE  TypeOK' /\ RowsFit'
<1>1. active[r] # None /\ Reject(r)
      /\ UNCHANGED <<row, task, callbacks, stop, version, used, confirmed>>
  BY DEF Timeout
<1>2. \A s \in Rows : Fits(row[s], flush.batch[s], pending'[s], deferred'[s],
                           active'[s], task[s], used[s], version, stop)
  BY <1>1, RejectRows
<1> QED BY <1>1, <1>2, RejectRows, Given, Together

\* A task that drove the flush in vain rejects its own.
LEMMA TraceGivesUpRows ==
    ASSUME IInv, NEW r \in Rows, TraceGivesUp(r)
    PROVE  TypeOK' /\ RowsFit'
<1>1. active[r] # None /\ Reject(r) /\ task' = [task EXCEPT ![r] = None]
      /\ UNCHANGED <<row, callbacks, stop, version, used, confirmed>>
  <2>1. task[r] \in Tasks /\ active[r] = task[r].trace
    BY DEF TraceGivesUp, Running, IInv, TypeOK
  <2>2. active[r] # None
    BY <2>1, Names DEF Tasks
  <2> QED BY <2>2 DEF TraceGivesUp
<1>2. \A s \in Rows : Fits(row[s], flush.batch[s], pending'[s], deferred'[s],
                           active'[s], task'[s], used[s], version, stop)
  <2>1. \A s \in Rows : task'[s] = IF s = r THEN None ELSE task[s]
    BY <1>1, Given
  <2> QED BY <1>1, <2>1, RejectRows
<1>3. task' = [s \in Rows |-> task'[s]]
  BY <1>1, Given
<1> QED BY <1>1, <1>2, <1>3, RejectRows, Given, Together

\* A batch is taken from the queue.
LEMMA TakeBatchRows ==
    ASSUME IInv, TakeBatch
    PROVE  TypeOK' /\ RowsFit'
<1>1. PICK rs \in Batches :
         /\ flush' = [flush EXCEPT !.at = "sent",
                         !.batch = [r \in Rows |-> IF r \in rs THEN pending[r] ELSE None]]
         /\ pending' = [r \in Rows |-> IF r \in rs THEN None ELSE pending[r]]
         /\ flush.batch = NoBatch
         /\ UNCHANGED <<row, deferred, active, timer, task, callbacks, stop, version, used, confirmed>>
  BY DEF TakeBatch, IInv, FlushFits
<1>2. /\ flush' \in Flushes
      /\ flush'.batch = [r \in Rows |-> IF r \in rs THEN pending[r] ELSE None]
  <2>1. [r \in Rows |-> IF r \in rs THEN pending[r] ELSE None] \in [Rows -> Items \cup {None}]
    BY DEF IInv, TypeOK
  <2> QED BY <1>1, <2>1, Given DEF Flushes
<1>3. ASSUME NEW r \in Rows
      PROVE  Fits(row[r], flush'.batch[r], pending'[r], deferred[r], active[r], task[r], used[r],
                  version, stop)
  <2>1. flush.batch[r] = None
    BY <1>1 DEF NoBatch
  <2>2. Fits(row[r], None, pending[r], deferred[r], active[r], task[r], used[r], version, stop)
    BY <2>1, Given
  <2>3. CASE r \in rs
    BY <1>1, <1>2, <2>2, <2>3, Taking
  <2>4. CASE r \notin rs
    BY <1>1, <1>2, <2>2, <2>4
  <2> QED BY <2>3, <2>4
<1> QED BY <1>1, <1>2, <1>3, Given, Together

\* The database executes the batch.
LEMMA ExecuteRows ==
    ASSUME IInv, Execute
    PROVE  TypeOK' /\ RowsFit'
<1>1. PICK hit \in SUBSET Batched :
         /\ row' = [r \in Rows |-> IF r \in hit THEN Written(row[r], flush.batch[r]) ELSE row[r]]
         /\ flush' = [flush EXCEPT !.wrote = hit]
         /\ UNCHANGED <<pending, deferred, active, timer, task, callbacks, stop, version, used,
                        confirmed>>
  BY DEF Execute
<1>2. flush' \in Flushes /\ flush'.batch = flush.batch
  BY <1>1, Given DEF Flushes, Batched
<1>3. ASSUME NEW r \in Rows
      PROVE  Fits(row'[r], flush'.batch[r], pending[r], deferred[r], active[r], task[r], used[r],
                  version, stop)
  <2>1. r \in hit => flush.batch[r] # None
    BY DEF Batched
  <2> QED BY <1>1, <1>2, <2>1, Given, Writing
<1>4. row' = [r \in Rows |-> row'[r]]
  BY <1>1
<1> QED BY <1>1, <1>2, <1>3, <1>4, Given, Together

\* The answer settles the acknowledgements of the batch.
LEMMA ReplyOkRows ==
    ASSUME IInv, ReplyOk
    PROVE  TypeOK' /\ RowsFit'
<1>1. /\ pending' = Release(pending, Awaited) /\ deferred' = Kept(Awaited)
      /\ active' = Settled(Awaited)
      /\ UNCHANGED <<row, timer, task, stop, version, used>>
      /\ Awaited \in SUBSET Rows
  BY DEF ReplyOk, Awaited, Batched
<1>2. /\ flush' \in Flushes /\ flush'.batch = NoBatch
  <2>1. NoBatch \in [Rows -> Items \cup {None}]
    BY DEF NoBatch
  <2>2. (flush.again \/ Releasing(Awaited) # {}) \in BOOLEAN
    OBVIOUS
  <2>3. flush' = [at |-> "next", batch |-> NoBatch, wrote |-> None,
                  again |-> flush.again \/ Releasing(Awaited) # {}]
    BY DEF ReplyOk
  <2> QED BY <2>1, <2>2, <2>3 DEF Flushes
<1>3. callbacks' \in SUBSET Rows /\ confirmed' \in [Rows -> SUBSET Acks]
  <2>1. flush.wrote \in SUBSET Rows
    BY Given DEF ReplyOk, Flushes
  <2>2. \A r \in Rows : r \in Told => AckOf(r) \in Acks
    <3>1. \A r \in Awaited : AckOf(r) \in Acks
      <4>1. \A r \in Rows : active[r] \in Acks \cup {None}
        BY DEF IInv, TypeOK
      <4> QED BY <4>1 DEF Awaited, Batched
    <3>2. \A r \in Announced : AckOf(r) \in Acks
      BY DEF Announced, Acks
    <3> QED BY <3>1, <3>2 DEF Told
  <2>3. callbacks' = callbacks \cup Announced
        /\ confirmed' = [r \in Rows |-> IF r \in Told THEN confirmed[r] \cup {AckOf(r)}
                                        ELSE confirmed[r]]
    BY DEF ReplyOk
  <2>4. Announced \in SUBSET Rows
    BY <2>1 DEF Announced
  <2> QED BY <2>2, <2>3, <2>4, Given
<1>4. ASSUME NEW r \in Rows
      PROVE  Fits(row[r], None, pending'[r], deferred'[r], active'[r], task[r], used[r],
                  version, stop)
  <2>1. AckIn(flush.batch[r]) = IF r \in Batched THEN AckOf(r) ELSE None
    BY DEF AckIn, Item, AckOf, Batched
  <2>2. CASE r \in Awaited
    <3>1. active[r] # None /\ AckIn(flush.batch[r]) = active[r]
      BY <2>1, <2>2 DEF Awaited
    <3>2. AckIn(pending[r]) = None
      BY <3>1, Given DEF Fits, AcksFit
    <3>3. Fits(row[r], None, Released(pending[r], deferred[r], active[r]),
               KeptBack(deferred[r], active[r]), None, task[r], used[r], version, stop)
      BY <3>1, <3>2, Given, Settling
    <3> QED BY <1>1, <2>2, <3>3, ReleaseIs DEF IInv
  <2>3. CASE r \notin Awaited
    <3>1. active[r] # None => AckIn(flush.batch[r]) # active[r]
      BY <2>1, <2>3 DEF Awaited
    <3>2. Fits(row[r], None, pending[r], deferred[r], active[r], task[r], used[r], version, stop)
      BY <3>1, Given, Dropping
    <3> QED BY <1>1, <2>3, <3>2, ReleaseIs DEF IInv
  <2> QED BY <2>2, <2>3
<1>5. \A r \in Rows : Fits(row'[r], flush'.batch[r], pending'[r], deferred'[r],
                           active'[r], task'[r], used'[r], version', stop')
  BY <1>1, <1>2, <1>4 DEF NoBatch
<1>6. /\ pending' = [r \in Rows |-> pending'[r]] /\ deferred' = [r \in Rows |-> deferred'[r]]
      /\ active' = [r \in Rows |-> active'[r]]
  BY <1>1 DEF Release, Kept, Settled
<1> QED BY <1>1, <1>2, <1>3, <1>5, <1>6, Given, Together

\* A batch that failed goes back to the queue, or behind a trace.
LEMMA ReplyErrorRows ==
    ASSUME IInv, ReplyError
    PROVE  TypeOK' /\ RowsFit'
<1>1. PICK p, d :
         /\ p = [r \in Rows |->
                    IF r \in Back \ Behind
                    THEN [patch |-> Merge(flush.batch[r].patch, Queued(pending, r).patch),
                          ack |-> IF AckOf(r) # None THEN AckOf(r) ELSE Live(r),
                          fence |-> flush.batch[r].fence \/ Queued(pending, r).fence]
                    ELSE pending[r]]
         /\ d = [r \in Rows |-> IF r \in Behind /\ deferred[r] = 0
                                THEN flush.batch[r].patch.version ELSE deferred[r]]
         /\ Fit(p, d)
         /\ flush' = [at |-> IF flush.again THEN "next" ELSE "tail", batch |-> NoBatch,
                      wrote |-> None, again |-> FALSE]
         /\ UNCHANGED <<row, active, timer, task, callbacks, stop, version, used, confirmed>>
  BY DEF ReplyError
<1>2. /\ flush' \in Flushes /\ flush'.batch = NoBatch
  <2>1. NoBatch \in [Rows -> Items \cup {None}]
    BY DEF NoBatch
  <2> QED BY <1>1, <2>1 DEF Flushes
<1>3. ASSUME NEW r \in Rows
      PROVE  Fits(row[r], None, p[r], d[r], active[r], task[r], used[r], version, stop)
  <2> DEFINE b == flush.batch[r]
             q == pending[r]
             live == IF AckIn(q) = active[r] THEN active[r] ELSE None
  <2>1. /\ r \in Batched <=> b # None
        /\ b # None => AckOf(r) = AckIn(b) /\ Item(b) = b
        /\ Live(r) = live
        /\ r \in Back <=> b # None /\ (AckIn(b) = None \/ AckIn(b) = active[r])
        /\ r \in Behind <=> r \in Back /\ AckIn(b) = None /\ live \in Traces
    <3>1. r \in Batched <=> b # None
      BY DEF Batched
    <3>2. b # None => AckOf(r) = AckIn(b) /\ Item(b) = b
      BY DEF AckIn, Item, AckOf
    <3>3. Live(r) = live
      BY QueuedIs DEF Live, AckIn
    <3>4. r \in Back <=> b # None /\ (AckIn(b) = None \/ AckIn(b) = active[r])
      BY <3>1, <3>2 DEF Back, Awaited
    <3> QED BY <3>1, <3>2, <3>3, <3>4 DEF Behind, Back
  <2> HIDE DEF b, q, live
  <2>2. CASE r \in Behind
    <3>1. AckIn(b) = None /\ AckIn(q) = active[r] /\ active[r] \in Traces /\ b # None
      BY <2>1, <2>2, Names DEF live
    <3>2. p[r] = pending[r] /\ d[r] = IF deferred[r] = 0 THEN Ver(b) ELSE deferred[r]
      BY <1>1, <2>1, <2>2, <3>1 DEF Ver, b
    <3> QED BY <3>1, <3>2, Given, Postponing DEF b, q
  <2>3. CASE r \in Back \ Behind
    <3>1. PICK fence \in BOOLEAN : fence = (flush.batch[r].fence \/ Queued(pending, r).fence)
      OBVIOUS
    <3>2. p[r] = [patch |-> Merge(Item(b).patch, Item(q).patch),
                  ack |-> IF AckIn(b) # None THEN AckIn(b) ELSE live, fence |-> fence]
          /\ d[r] = deferred[r]
      BY <1>1, <2>1, <2>3, <3>1, QueuedIs DEF b, q
    <3>3. /\ b # None /\ (AckIn(b) = None \/ AckIn(b) = active[r])
          /\ ~(AckIn(b) = None /\ live \in Traces)
      BY <2>1, <2>3
    <3>4. IsLate(stop) => HasJoined(stop)
      BY DEF IsLate, HasJoined
    <3>5. live = IF AckIn(q) = active[r] THEN active[r] ELSE None
      BY DEF live
    <3>6. Fits(row[r], b, q, deferred[r], active[r], task[r], used[r], version, stop)
      BY Given DEF b, q
    <3> QED BY <3>2, <3>3, <3>4, <3>5, <3>6, Requeuing
  <2>4. CASE r \notin Back
    <3>1. p[r] = pending[r] /\ d[r] = deferred[r]
      BY <1>1, <2>1, <2>4
    <3>2. active[r] # None => AckIn(b) # active[r]
      BY <2>1, <2>4, Nothing
    <3> QED BY <3>1, <3>2, Given, Dropping DEF b
  <2> QED BY <2>2, <2>3, <2>4
<1>4. \A r \in Rows : Fits(row[r], flush'.batch[r], pending'[r], deferred'[r],
                           active[r], task[r], used[r], version, stop)
  <2>1. \A r \in Rows : flush'.batch[r] = None
    BY <1>2 DEF NoBatch
  <2>2. \A r \in Rows : Fits(row[r], None, pending'[r], deferred'[r],
                             active[r], task[r], used[r], version, stop)
    <3>1. Fit(p, d)
      BY <1>1
    <3>2. \A r \in Rows : /\ pending'[r] \in {p[r], None}
                          /\ pending'[r] = p[r] \/ AckIn(p[r]) = None
                          /\ deferred'[r] \in {d[r], 0}
      BY <3>1, FitIs
    <3>3. ASSUME NEW r \in Rows
          PROVE  Fits(row[r], None, pending'[r], deferred'[r], active[r], task[r], used[r],
                      version, stop)
      <4>1. Fits(row[r], None, p[r], d[r], active[r], task[r], used[r], version, stop)
        BY <1>3
      <4>2. /\ pending'[r] \in {p[r], None} /\ deferred'[r] \in {d[r], 0}
            /\ pending'[r] = p[r] \/ AckIn(p[r]) = None
        BY <3>2
      <4> QED BY <4>1, <4>2, Evicting
    <3> QED BY <3>3
  <2> QED BY <2>1, <2>2
<1>5. Fit(p, d)
  BY <1>1
<1> QED BY <1>1, <1>2, <1>4, <1>5, FitIs, Given, Together

\* A step of the flush that leaves the batch, the queue and the acknowledgements.
LEMMA FlushStepRows ==
    ASSUME IInv, TimerFires \/ Drained \/ Finish
    PROVE  TypeOK' /\ RowsFit'
<1>1. CASE TimerFires
  <2>1. CallFlush /\ UNCHANGED <<row, pending, deferred, active, task, callbacks, stop, version,
                                 used, confirmed>>
    BY <1>1 DEF TimerFires
  <2>2. flush' \in Flushes /\ flush'.batch = flush.batch /\ timer' \in BOOLEAN
    BY <2>1, Given, Calling
  <2> QED BY <2>1, <2>2, Given, Together
<1>2. CASE Drained
  <2>1. UNCHANGED <<row, pending, deferred, active, timer, task, callbacks, stop, version, used,
                    confirmed>>
        /\ flush' = [flush EXCEPT !.at = "tail"]
    BY <1>2 DEF Drained
  <2>2. flush' \in Flushes /\ flush'.batch = flush.batch
    BY <2>1, Given DEF Flushes
  <2> QED BY <2>1, <2>2, Given, Together
<1>3. CASE Finish
  <2>1. /\ UNCHANGED <<row, pending, deferred, active, callbacks, version, used, confirmed>>
        /\ flush' = [flush EXCEPT !.at = "idle"] /\ stop' = [stop EXCEPT !.awaits = FALSE]
        /\ task' = [r \in Rows |-> IF task[r] = None THEN None
                                   ELSE [task[r] EXCEPT !.awaits = FALSE]]
        /\ flush.batch = NoBatch
    BY <1>3 DEF Finish, IInv, FlushFits
  <2>2. /\ flush' \in Flushes /\ flush'.batch = flush.batch /\ stop' \in Stops
        /\ stop'.at = stop.at
    BY <2>1, Given DEF Flushes, Stops
  <2>3. timer' \in BOOLEAN
    BY <1>3, Given DEF Finish, Rearm
  <2>4. ASSUME NEW r \in Rows
        PROVE  Fits(row[r], None, pending[r], deferred[r], active[r], task'[r], used[r],
                    version, stop')
    <3>1. Fits(row[r], None, pending[r], deferred[r], active[r], task[r], used[r], version, stop)
      BY <2>1, Given DEF NoBatch
    <3>2. Fits(row[r], None, pending[r], deferred[r], active[r], task[r], used[r], version, stop')
      BY <2>2, <3>1, StopGoesOn DEF IsLate
    <3>3. CASE task[r] = None
      BY <2>1, <3>2, <3>3
    <3>4. CASE task[r] # None
      <4>1. /\ task'[r] \in Tasks /\ task'[r].trace = task[r].trace /\ task'[r].at = task[r].at
        <5>1. task[r] \in Tasks /\ task'[r] = [task[r] EXCEPT !.awaits = FALSE]
          BY <2>1, <3>4 DEF IInv, TypeOK
        <5> QED BY <5>1 DEF Tasks
      <4> QED BY <3>2, <3>4, <4>1, TaskGoesOn
    <3> QED BY <3>3, <3>4
  <2>5. \A r \in Rows : flush'.batch[r] = None
    BY <2>1, <2>2 DEF NoBatch
  <2>6. task' = [r \in Rows |-> task'[r]]
    BY <2>1
  <2> QED BY <2>1, <2>2, <2>3, <2>4, <2>5, <2>6, Given, Together
<1> QED BY <1>1, <1>2, <1>3

\* A callback ends, or another writer writes the row.
LEMMA OtherRows ==
    ASSUME IInv, NEW r \in Rows,
           CallbackEnds(r) \/ Delete(r) \/ (\E o \in Outcomes : Finalize(r, o))
    PROVE  TypeOK' /\ RowsFit'
<1>1. CASE CallbackEnds(r)
  <2>1. UNCHANGED <<row, pending, deferred, active, flush, timer, task, stop, version, used, confirmed>>
        /\ callbacks' \in SUBSET Rows
    BY <1>1, Given DEF CallbackEnds
  <2> QED BY <2>1, Given, Together
<1>2. ASSUME NEW w \in RowStates, w.version = row[r].version, w.trace = row[r].trace,
             row' = [row EXCEPT ![r] = w], confirmed' \in [Rows -> SUBSET Acks],
             UNCHANGED <<pending, deferred, active, flush, timer, task, callbacks, stop, version, used>>
      PROVE  TypeOK' /\ RowsFit'
  <2>1. \A s \in Rows : row'[s] = IF s = r THEN w ELSE row[s]
    BY <1>2, Given
  <2>2. row' = [s \in Rows |-> row'[s]]
    BY <1>2, Given
  <2>3. Fits(w, flush.batch[r], pending[r], deferred[r], active[r], task[r], used[r], version, stop)
    BY <1>2, Given, Rewriting
  <2>4. \A s \in Rows : Fits(row'[s], flush.batch[s], pending[s], deferred[s], active[s], task[s],
                             used[s], version, stop)
    BY <2>1, <2>3, Given
  <2> QED BY <1>2, <2>2, <2>4, Given, Together
<1>3. row[r] \in RowStates
  BY DEF IInv, TypeOK, RowStates
<1>4. CASE Delete(r)
  <2>1. /\ row' = [row EXCEPT ![r] = [row[r] EXCEPT !.deleted = TRUE]]
        /\ UNCHANGED <<pending, deferred, active, flush, timer, task, callbacks, stop, version,
                       used, confirmed>>
    BY <1>4 DEF Delete
  <2>2. [row[r] EXCEPT !.deleted = TRUE] \in RowStates
        /\ [row[r] EXCEPT !.deleted = TRUE].version = row[r].version
        /\ [row[r] EXCEPT !.deleted = TRUE].trace = row[r].trace
    BY <1>3 DEF RowStates
  <2> QED BY <1>2, <2>1, <2>2, Given
<1>5. ASSUME NEW o \in Outcomes, Finalize(r, o)
      PROVE  TypeOK' /\ RowsFit'
  <2>1. /\ row' = [row EXCEPT ![r] = [row[r] EXCEPT !.status = o]]
        /\ UNCHANGED <<pending, deferred, active, flush, timer, task, callbacks, stop, version, used>>
    BY <1>5 DEF Finalize
  <2>2. [row[r] EXCEPT !.status = o] \in RowStates
        /\ [row[r] EXCEPT !.status = o].version = row[r].version
        /\ [row[r] EXCEPT !.status = o].trace = row[r].trace
    BY <1>3 DEF RowStates
  <2>3. confirmed' \in [Rows -> SUBSET Acks]
    BY <1>5, Given DEF Finalize, Acks
  <2> QED BY <1>2, <2>1, <2>2, <2>3
<1> QED BY <1>1, <1>4, <1>5

\* A task of row r changes, the queue and the acknowledgements being left alone.
LEMMA TaskRows ==
    ASSUME IInv, NEW r \in Rows, NEW t, task' = [task EXCEPT ![r] = t],
           flush' \in Flushes, flush'.batch = flush.batch, timer' \in BOOLEAN,
           UNCHANGED <<row, pending, deferred, active, callbacks, stop, version, confirmed>>,
           NEW u, used' = [used EXCEPT ![r] = u],
           Fits(row[r], flush.batch[r], pending[r], deferred[r], active[r], t, u, version, stop)
    PROVE  TypeOK' /\ RowsFit'
<1>1. \A s \in Rows : /\ task'[s] = IF s = r THEN t ELSE task[s]
                      /\ used'[s] = IF s = r THEN u ELSE used[s]
  BY Given
<1>2. task' = [s \in Rows |-> task'[s]] /\ used' = [s \in Rows |-> used'[s]]
  BY Given
<1>3. \A s \in Rows : Fits(row[s], flush.batch[s], pending[s], deferred[s], active[s], task'[s],
                           used'[s], version, stop)
  BY <1>1, Given
<1> QED BY <1>2, <1>3, Given, Together

\* A task starts.
LEMMA TraceStartRows ==
    ASSUME IInv, NEW r \in Rows, NEW x \in Traces, TraceStart(r, x)
    PROVE  TypeOK' /\ RowsFit'
<1>1. PICK t : t = [trace |-> x, at |-> "waiting", tries |-> 0, awaits |-> FALSE]
  OBVIOUS
<1>2. t \in Tasks /\ t.trace = x /\ t.at = "waiting"
  BY <1>1 DEF Tasks
<1>3. /\ task[r] = None /\ \A y \in used[r] : y \in Traces => y < x
      /\ task' = [task EXCEPT ![r] = t] /\ used' = [used EXCEPT ![r] = used[r] \cup {x}]
      /\ UNCHANGED <<row, pending, deferred, active, flush, timer, callbacks, stop, version, confirmed>>
  BY <1>1 DEF TraceStart
<1>4. Fits(row[r], flush.batch[r], pending[r], deferred[r], active[r], t, used[r] \cup {x},
           version, stop)
  BY <1>2, <1>3, Given, Starting
<1> QED BY <1>3, <1>4, Given, TaskRows

\* A task calls flush, to empty the queue for its trace or to write it.
LEMMA TraceFlushRows ==
    ASSUME IInv, NEW r \in Rows, TraceFlush(r) \/ TraceDrives(r)
    PROVE  TypeOK' /\ RowsFit'
<1>1. task[r] \in Tasks /\ task[r] # None
  BY DEF TraceFlush, TraceDrives, Running, IInv, TypeOK
<1>2. /\ CallFlush
      /\ UNCHANGED <<row, pending, deferred, active, callbacks, stop, version, used, confirmed>>
  BY DEF TraceFlush, TraceDrives
<1>3. PICK t \in Tasks : task' = [task EXCEPT ![r] = t] /\ t.trace = task[r].trace /\ t.at = task[r].at
  <2>1. CASE TraceFlush(r)
    <3>1. [task[r] EXCEPT !.awaits = TRUE] \in Tasks
          /\ [task[r] EXCEPT !.awaits = TRUE].trace = task[r].trace
          /\ [task[r] EXCEPT !.awaits = TRUE].at = task[r].at
      BY <1>1 DEF Tasks
    <3>2. task' = [task EXCEPT ![r] = [task[r] EXCEPT !.awaits = TRUE]]
      BY <2>1 DEF TraceFlush
    <3> QED BY <3>1, <3>2
  <2>2. CASE TraceDrives(r)
    <3>1. PICK n \in 0..2 : n = task[r].tries + 1
      BY <1>1, <2>2 DEF TraceDrives, Tasks
    <3>2. [task[r] EXCEPT !.tries = n, !.awaits = TRUE] \in Tasks
          /\ [task[r] EXCEPT !.tries = n, !.awaits = TRUE].trace = task[r].trace
          /\ [task[r] EXCEPT !.tries = n, !.awaits = TRUE].at = task[r].at
      BY <1>1 DEF Tasks
    <3>3. task' = [task EXCEPT ![r] = [task[r] EXCEPT !.tries = n, !.awaits = TRUE]]
      BY <2>2, <3>1, Given DEF TraceDrives
    <3> QED BY <3>2, <3>3
  <2> QED BY <2>1, <2>2
<1>4. flush' \in Flushes /\ flush'.batch = flush.batch /\ timer' \in BOOLEAN
  BY <1>2, Given, Calling
<1>5. Fits(row[r], flush.batch[r], pending[r], deferred[r], active[r], t, used[r], version, stop)
  BY <1>1, <1>3, Given, TaskGoesOn
<1>6. used' = [used EXCEPT ![r] = used[r]]
  BY <1>2, Given
<1> QED BY <1>2, <1>3, <1>4, <1>5, <1>6, TaskRows

\* A task ends, whether it gave up waiting or its trace was settled.
LEMMA TraceEndsRows ==
    ASSUME IInv, NEW r \in Rows, TraceFails(r) \/ TraceEnds(r)
    PROVE  TypeOK' /\ RowsFit'
<1>1. /\ task' = [task EXCEPT ![r] = None]
      /\ UNCHANGED <<row, pending, deferred, active, flush, timer, callbacks, stop, version, used, confirmed>>
  BY DEF TraceFails, TraceEnds
<1>2. active[r] \notin Traces
  BY Given DEF TraceFails, TraceEnds, Running, Fits, AcksFit
<1>3. Fits(row[r], flush.batch[r], pending[r], deferred[r], active[r], None, used[r], version, stop)
  BY <1>2, Given, TaskGoes
<1>4. used' = [used EXCEPT ![r] = used[r]]
  BY <1>1, Given
<1> QED BY <1>1, <1>3, <1>4, Given, TaskRows

\* A task queues its trace.
LEMMA TraceEnqueueRows ==
    ASSUME IInv, NEW r \in Rows, TraceEnqueue(r)
    PROVE  TypeOK' /\ RowsFit'
<1>1. /\ task[r] \in Tasks /\ task[r] # None /\ task[r].at = "waiting"
      /\ active[r] = None /\ pending[r] = None
      /\ UNCHANGED <<row, callbacks, stop, version, used, confirmed>>
  BY DEF TraceEnqueue, Running, IInv, TypeOK
<1>2. PICK x \in Traces : x = task[r].trace
  BY <1>1 DEF Tasks
<1>3. PICK q : q = [patch |-> Merge(Item(None).patch, [NoPatch EXCEPT !.trace = x]), ack |-> x,
                    fence |-> FALSE]
  OBVIOUS
<1>4. PICK p : p = [pending EXCEPT ![r] = q]
  OBVIOUS
<1>5. PICK t : t = [task[r] EXCEPT !.at = IF Stopping THEN "flushing" ELSE "queued"]
  OBVIOUS
<1>6. t \in Tasks /\ t.trace = x /\ t.at # "waiting"
  BY <1>1, <1>2, <1>5 DEF Tasks
<1>7. /\ Fit(p, deferred) /\ active' = [active EXCEPT ![r] = x] /\ task' = [task EXCEPT ![r] = t]
      /\ flush' \in Flushes /\ flush'.batch = flush.batch /\ timer' \in BOOLEAN
  <2>1. /\ Fit(p, deferred) /\ Schedule(Cardinality(Waiting(pending')))
        /\ active' = [active EXCEPT ![r] = x] /\ task' = [task EXCEPT ![r] = t]
    BY <1>1, <1>2, <1>3, <1>4, <1>5, QueuedIs DEF TraceEnqueue, Acknowledge
  <2> QED BY <2>1, Given, Scheduling
<1>8. \A s \in Rows : Fits(row[s], flush.batch[s], p[s], deferred[s],
                           active'[s], task'[s], used[s], version, stop)
  <2>1. Fits(row[r], flush.batch[r], q, deferred[r], x, t, used[r], version, stop)
    <3>1. Fits(row[r], flush.batch[r], None, deferred[r], None, task[r], used[r], version, stop)
      BY <1>1, Given
    <3> QED BY <1>1, <1>2, <1>3, <1>6, <3>1, Tracing
  <2>2. p[r] = q /\ active'[r] = x /\ task'[r] = t
    BY <1>4, <1>7, Given
  <2>3. ASSUME NEW s \in Rows, s # r
        PROVE  Fits(row[s], flush.batch[s], p[s], deferred[s], active'[s], task'[s], used[s],
                    version, stop)
    <3>1. p[s] = pending[s] /\ active'[s] = active[s] /\ task'[s] = task[s]
      BY <1>4, <1>7, <2>3, Given
    <3> QED BY <3>1, Given
  <2> QED BY <2>1, <2>2, <2>3
<1>9. \A s \in Rows : Fits(row[s], flush.batch[s], pending'[s], deferred'[s],
                           active'[s], task'[s], used[s], version, stop)
  BY <1>7, <1>8, FitIs, Evicting
<1>10. active' = [s \in Rows |-> active'[s]] /\ task' = [s \in Rows |-> task'[s]]
  BY <1>7, Given
<1> QED BY <1>1, <1>7, <1>9, <1>10, FitIs, Given, Together

\* A step of either drain, or the join between them, may call flush.
LEMMA StopDrainsIs ==
    ASSUME IInv, StopDrains
    PROVE  /\ UNCHANGED <<row, pending, deferred, active, task, callbacks, version, used, confirmed>>
           /\ CallFlush \/ UNCHANGED <<flush, timer>>
           /\ flush' \in Flushes /\ flush'.batch = flush.batch /\ timer' \in BOOLEAN
           /\ stop' \in Stops /\ ~IsLate(stop) /\ ~IsLate(stop')
           /\ HasJoined(stop') => HasJoined(stop)
           /\ stop'.at # "running"
<1>1. UNCHANGED <<row, pending, deferred, active, task, callbacks, version, used, confirmed>>
  BY DEF StopDrains
<1>2. CallFlush \/ UNCHANGED <<flush, timer>>
  BY DEF StopDrains, StopBegins, StopRetries, StopDrained, StopJoins, StopFlushes
<1>3. flush' \in Flushes /\ flush'.batch = flush.batch /\ timer' \in BOOLEAN
  BY <1>2, Given, Calling
<1>4. /\ stop' \in Stops /\ ~IsLate(stop) /\ ~IsLate(stop')
      /\ HasJoined(stop') => HasJoined(stop)
      /\ stop'.at # "running"
  <2>1. CASE StopBegins
    BY <2>1 DEF StopBegins, StopFlushes, Stops, IsLate, HasJoined
  <2>2. CASE StopRetries("drain", "retry")
    BY <2>2 DEF StopRetries, StopFlushes, Stops, IsLate, HasJoined
  <2>3. CASE StopDrained("drain", "retry", "join")
    BY <2>3 DEF StopDrained, StopGoes, Stops, IsLate, HasJoined
  <2>4. CASE StopJoins
    <3>1. stop.at = "join" /\ (StopGoes("reject", TRUE) \/ StopFlushes("final"))
      BY <2>4 DEF StopJoins
    <3>2. CASE StopGoes("reject", TRUE)
      BY <3>1, <3>2 DEF StopGoes, Stops, IsLate, HasJoined
    <3>3. CASE StopFlushes("final")
      BY <3>1, <3>3 DEF StopFlushes, Stops, IsLate, HasJoined
    <3> QED BY <3>1, <3>2, <3>3
  <2>5. CASE StopRetries("final", "final_retry")
    BY <2>5 DEF StopRetries, StopFlushes, Stops, IsLate, HasJoined
  <2>6. CASE StopDrained("final", "final_retry", "reject")
    BY <2>6 DEF StopDrained, StopGoes, Stops, IsLate, HasJoined
  <2> QED BY <2>1, <2>2, <2>3, <2>4, <2>5, <2>6 DEF StopDrains
<1> QED BY <1>1, <1>2, <1>3, <1>4

\* It changes no row.
LEMMA StopDrainsRows ==
    ASSUME IInv, StopDrains
    PROVE  TypeOK' /\ RowsFit'
<1>1. ASSUME NEW r \in Rows
      PROVE  Fits(row[r], flush.batch[r], pending[r], deferred[r], active[r], task[r], used[r],
                  version, stop')
  BY StopDrainsIs, Given, StopGoesOn
<1> QED BY <1>1, StopDrainsIs, Given, Together

\* All acknowledgements are rejected; their updates stay where they are.
LEMMA StopRejectsRows ==
    ASSUME IInv, StopRejects
    PROVE  TypeOK' /\ RowsFit'
<1>1. /\ pending' = Release(pending, Unsettled) /\ deferred' = Kept(Unsettled)
      /\ active' = Settled(Unsettled) /\ Unsettled \in SUBSET Rows
      /\ UNCHANGED <<row, task, callbacks, version, used, confirmed>>
  BY DEF StopRejects, Unsettled
<1>2. flush' \in Flushes /\ flush'.batch = flush.batch /\ timer' \in BOOLEAN
  <2>1. UNCHANGED <<flush, timer>> \/ Schedule(Cardinality(Waiting(pending')))
    BY DEF StopRejects
  <2> QED BY <2>1, Given, Scheduling
<1>3. stop' \in Stops /\ IsLate(stop') /\ HasJoined(stop)
  BY Given DEF StopRejects, StopGoes, Stops, IsLate, HasJoined
<1>4. ASSUME NEW r \in Rows
      PROVE  Fits(row[r], flush.batch[r], pending'[r], deferred'[r], active'[r], task[r], used[r],
                  version, stop')
  <2>1. CASE r \in Unsettled
    <3>1. active[r] # None
      BY <2>1 DEF Unsettled
    <3>2. Fits(row[r], flush.batch[r], Released(pending[r], deferred[r], active[r]),
               KeptBack(deferred[r], active[r]), None, task[r], used[r], version, stop')
      BY <1>3, <3>1, Given, Settling
    <3> QED BY <1>1, <2>1, <3>2, ReleaseIs DEF IInv
  <2>2. CASE r \notin Unsettled
    <3>1. pending'[r] = pending[r] /\ deferred'[r] = deferred[r] /\ active'[r] = active[r]
      BY <1>1, <2>2, ReleaseIs DEF IInv
    <3> QED BY <1>3, <3>1, Given, StopGoesOn
  <2> QED BY <2>1, <2>2
<1>5. /\ pending' = [r \in Rows |-> pending'[r]] /\ deferred' = [r \in Rows |-> deferred'[r]]
      /\ active' = [r \in Rows |-> active'[r]]
  BY <1>1 DEF Release, Kept, Settled
<1> QED BY <1>1, <1>2, <1>3, <1>4, <1>5, Given, Together

\* When a shutdown ends, nobody waits for an acknowledgement.
LEMMA NobodyWaits ==
    ASSUME IInv, StopEnds
    PROVE  \A r \in Rows : active[r] = None
<1>1. \A r \in Rows : task[r] = None /\ active[r] \in Acks \cup {None} /\ active[r] \notin Outcomes
  BY DEF StopEnds, Joined, IInv, TypeOK, StopFits, IsLate
<1> QED BY <1>1, Given DEF Fits, AcksFit, Acks

\* What is left is discarded.
LEMMA StopEndsRows ==
    ASSUME IInv, StopEnds
    PROVE  TypeOK' /\ RowsFit'
<1>1. /\ pending' = [r \in Rows |-> None] /\ deferred' = [r \in Rows |-> 0]
      /\ UNCHANGED <<row, active, flush, timer, task, callbacks, version, used, confirmed>>
      /\ stop' \in Stops /\ IsLate(stop')
  BY Given DEF StopEnds, StopGoes, Stops, IsLate
<1>2. ASSUME NEW r \in Rows
      PROVE  Fits(row[r], flush.batch[r], None, 0, active[r], task[r], used[r], version, stop')
  <2>1. active[r] = None
    BY NobodyWaits
  <2>2. Fits(row[r], flush.batch[r], None, 0, None, task[r], used[r], version, stop)
    BY <2>1, Given, Emptying
  <2> QED BY <1>1, <2>1, <2>2, Nothing, Names, StopGoesOn
<1>3. \A r \in Rows : Fits(row[r], flush.batch[r], pending'[r], deferred'[r], active[r], task[r],
                           used[r], version, stop')
  BY <1>1, <1>2
<1> QED BY <1>1, <1>3, Given, Together

\* Every step keeps the types and what is said of each row.
LEMMA RowsKept ==
    ASSUME IInv, [Next]_vars
    PROVE  TypeOK' /\ RowsFit'
<1>1. ASSUME NEW r \in Rows, TraceStep(r)
      PROVE  TypeOK' /\ RowsFit'
  BY <1>1, TraceFlushRows, TraceEnqueueRows, TraceGivesUpRows, TraceEndsRows DEF TraceStep
<1>2. ASSUME NEW r \in Rows,
             \/ Enqueue(r) \/ Timeout(r) \/ CallbackEnds(r) \/ Delete(r) \/ TraceFails(r)
             \/ \E o \in Outcomes : Claim(r, o) \/ Finalize(r, o)
             \/ \E t \in Traces : TraceStart(r, t)
      PROVE  TypeOK' /\ RowsFit'
  BY <1>2, EnqueueRows, TimeoutRows, OtherRows, TraceEndsRows, ClaimRows, TraceStartRows
<1>3. CASE TimerFires \/ TakeBatch \/ Drained \/ Execute \/ ReplyOk \/ ReplyError \/ Finish
  BY <1>3, FlushStepRows, TakeBatchRows, ExecuteRows, ReplyOkRows, ReplyErrorRows
<1>4. CASE StopStep
  BY <1>4, StopDrainsRows, StopRejectsRows, StopEndsRows DEF StopStep
<1>5. CASE UNCHANGED vars
  BY <1>5, Given, Together DEF vars
<1> QED BY <1>1, <1>2, <1>3, <1>4, <1>5 DEF Next

-----------------------------------------------------------------------------
(* The flush: whatever waits has one coming. *)

\* So it is while nothing else than a call of flush touches it.
LEMMA CallKeeps ==
    ASSUME IInv,
           \/ CallFlush
           \/ (\E n : Schedule(n)) /\ (Stopping \/ stop' = stop)
           \/ UNCHANGED <<flush, timer>> /\ (Stopping \/ Waiting(pending') \subseteq Waiting(pending)),
           stop' = stop \/ (stop'.at # "running" /\ (stop'.awaits => CallFlush) /\ (Stopping \/ CallFlush))
    PROVE  FlushFits' /\ NoLostFlush'
<1>1. /\ flush.at \in {"idle", "next", "sent", "tail"}
      /\ flush.at # "sent" => flush.batch = NoBatch /\ flush.wrote = None
      /\ flush.wrote # None => flush.wrote \subseteq Batched
      /\ timer => flush.at = "idle" /\ ~Stopping
      /\ stop.awaits => flush.at # "idle"
  BY Given DEF Flushes, IInv, FlushFits
<1>2. CASE CallFlush
  <2>1. flush'.batch = flush.batch /\ flush'.wrote = flush.wrote
        /\ flush'.at = (IF flush.at = "idle" THEN "next" ELSE flush.at)
        /\ timer' = (IF flush.at = "idle" THEN FALSE ELSE timer)
    BY <1>2, Given, Calling
  <2>2. ~timer' /\ flush'.at # "idle"
    BY <1>1, <2>1
  <2>3. FlushFits'
    BY <1>1, <2>1, <2>2 DEF FlushFits, Batched, NoBatch
  <2> QED BY <2>2, <2>3 DEF NoLostFlush
<1>3. CASE (\E n : Schedule(n)) /\ (Stopping \/ stop' = stop) /\ ~CallFlush
  <2>1. PICK n : Schedule(n)
    BY <1>3
  <2>2. /\ flush'.batch = flush.batch /\ flush'.wrote = flush.wrote
        /\ flush'.at \in {flush.at, "next"} /\ (flush.at # "idle" => flush'.at = flush.at)
        /\ timer' => timer \/ (~Stopping /\ flush'.at = "idle")
        /\ timer' /\ flush.at = "idle" => flush'.at = "idle"
        /\ ~Stopping => timer' \/ flush'.at # "idle"
    BY <2>1, Given, Scheduling
  <2>3. Stopping' = Stopping /\ (stop'.awaits => flush'.at # "idle")
    BY <1>1, <1>3, <2>2 DEF Stopping
  <2>4. timer' => flush'.at = "idle" /\ ~Stopping'
    BY <1>1, <2>2, <2>3
  <2>5. FlushFits'
    BY <1>1, <2>2, <2>3, <2>4 DEF FlushFits, Batched, NoBatch
  <2> QED BY <2>2, <2>3, <2>5 DEF NoLostFlush
<1>4. CASE UNCHANGED <<flush, timer>> /\ (Stopping \/ Waiting(pending') \subseteq Waiting(pending)) /\ ~CallFlush
  <2>1. timer' => ~Stopping'
    BY <1>1, <1>4 DEF Stopping
  <2>2. stop'.awaits => flush.at # "idle"
    BY <1>1, <1>4
  <2>3. FlushFits'
    BY <1>1, <1>4, <2>1, <2>2 DEF FlushFits, Batched, NoBatch
  <2>4. NoLostFlush'
    <3>1. ~Stopping' => ~Stopping
      BY DEF Stopping
    <3>2. Waiting(pending') = {r \in Rows : pending'[r] # None}
      BY DEF Waiting
    <3>3. Waiting(pending)' = Waiting(pending')
      BY DEF Waiting
    <3> QED BY <1>4, <3>1, <3>3 DEF NoLostFlush, IInv
  <2> QED BY <2>3, <2>4
<1> QED BY <1>2, <1>3, <1>4

\* What settles releases nothing if nothing was held back behind it.
LEMMA NothingReleased ==
    ASSUME TypeOK, NEW p \in [Rows -> Items \cup {None}], NEW rs \in SUBSET Rows, Releasing(rs) = {}
    PROVE  Release(p, rs) = p /\ Kept(rs) = deferred
BY DEF Release, Kept, Releasing, TypeOK

\* A rejection leaves the flush alone, or calls it for what it releases.
LEMMA RejectKeeps ==
    ASSUME IInv, NEW r \in Rows, Reject(r), stop' = stop
    PROVE  FlushFits' /\ NoLostFlush'
<1>1. CASE Releasing({r}) = {}
  <2>1. PICK p : p = IF Queued(pending, r).ack = active[r]
                     THEN [pending EXCEPT ![r] = None] ELSE pending
    OBVIOUS
  <2>2. p \in [Rows -> Items \cup {None}] /\ \A s \in Rows : p[s] \in {pending[s], None}
    BY <2>1 DEF IInv, TypeOK
  <2>3. pending' = p
    <3>1. pending' = Release(p, {r})
      BY <2>1 DEF Reject
    <3> QED BY <1>1, <2>2, <3>1, NothingReleased DEF IInv
  <2>4. UNCHANGED <<flush, timer>>
    BY <1>1 DEF Reject
  <2> QED BY <2>2, <2>3, <2>4, CallKeeps DEF Waiting
<1>2. CASE Releasing({r}) # {}
  BY <1>2, CallKeeps DEF Reject
<1> QED BY <1>1, <1>2

\* The flush is coming after every step.
LEMMA FlushKept ==
    ASSUME IInv, [Next]_vars
    PROVE  FlushFits' /\ NoLostFlush'
<1>1. ASSUME NEW r \in Rows, Enqueue(r)
      PROVE  FlushFits' /\ NoLostFlush'
  <2>1. stop' = stop
    BY <1>1 DEF Enqueue
  <2>2. CASE Defers(r)
    <3>1. PICK d : d = [deferred EXCEPT ![r] = version']
      OBVIOUS
    <3>2. Fit(pending, d) /\ UNCHANGED <<flush, timer>>
      BY <1>1, <2>2, <3>1 DEF Enqueue
    <3>3. Waiting(pending') \subseteq Waiting(pending)
      BY <3>2, FitIs DEF Waiting
    <3> QED BY <2>1, <3>2, <3>3, CallKeeps
  <2>3. CASE ~Defers(r)
    <3>1. \E n : Schedule(n)
      BY <1>1, <2>3 DEF Enqueue
    <3> QED BY <2>1, <3>1, CallKeeps
  <2> QED BY <2>2, <2>3
<1>2. ASSUME NEW r \in Rows, TraceEnqueue(r) \/ (\E o \in Outcomes : Claim(r, o))
      PROVE  FlushFits' /\ NoLostFlush'
  <2>1. stop' = stop /\ \E n : Schedule(n)
    BY <1>2 DEF Claim, TraceEnqueue, Acknowledge
  <2> QED BY <2>1, CallKeeps
<1>3. ASSUME NEW r \in Rows, Timeout(r) \/ TraceGivesUp(r)
      PROVE  FlushFits' /\ NoLostFlush'
  BY <1>3, RejectKeeps DEF Timeout, TraceGivesUp
<1>4. ASSUME NEW r \in Rows, TraceFlush(r) \/ TraceDrives(r)
      PROVE  FlushFits' /\ NoLostFlush'
  <2>1. CallFlush /\ stop' = stop
    BY <1>4 DEF TraceFlush, TraceDrives
  <2> QED BY <2>1, CallKeeps
<1>5. CASE UNCHANGED <<flush, timer, stop, pending>>
  BY <1>5, CallKeeps
<1>6. ASSUME NEW r \in Rows,
             \/ TraceEnds(r) \/ TraceFails(r) \/ CallbackEnds(r) \/ Delete(r)
             \/ (\E o \in Outcomes : Finalize(r, o)) \/ (\E t \in Traces : TraceStart(r, t))
      PROVE  UNCHANGED <<flush, timer, stop, pending>>
  BY <1>6 DEF TraceEnds, TraceFails, CallbackEnds, Delete, Finalize, TraceStart
<1>7. CASE TimerFires
  <2>1. CallFlush /\ stop' = stop
    BY <1>7 DEF TimerFires
  <2> QED BY <2>1, CallKeeps
<1>8. CASE StopDrains
  <2>1. UNCHANGED pending /\ (CallFlush \/ UNCHANGED <<flush, timer>>) /\ stop'.at # "running"
    BY <1>8, StopDrainsIs
  <2>2. (stop'.awaits => CallFlush) /\ (Stopping \/ CallFlush)
    <3>1. CASE StopBegins
      BY <3>1 DEF StopBegins, StopFlushes
    <3>2. CASE StopRetries("drain", "retry") \/ StopRetries("final", "final_retry")
      BY <3>2 DEF StopRetries, StopFlushes
    <3>3. CASE StopDrained("drain", "retry", "join") \/ StopDrained("final", "final_retry", "reject")
      BY <3>3 DEF StopDrained, StopGoes, Stopping
    <3>4. CASE StopJoins
      <4>1. stop.at = "join" /\ (StopGoes("reject", TRUE) \/ StopFlushes("final"))
        BY <3>4 DEF StopJoins
      <4> QED BY <4>1 DEF StopGoes, StopFlushes, Stopping
    <3> QED BY <1>8, <3>1, <3>2, <3>3, <3>4 DEF StopDrains
  <2> QED BY <2>1, <2>2, CallKeeps
<1>9. CASE StopRejects
  <2>1. Stopping /\ stop'.at # "running" /\ stop'.awaits = FALSE
    BY <1>9 DEF StopRejects, StopGoes, Stopping
  <2>2. (\E n : Schedule(n)) \/ UNCHANGED <<flush, timer>>
    BY <1>9 DEF StopRejects
  <2> QED BY <2>1, <2>2, CallKeeps
<1>10. CASE StopEnds
  <2>1. /\ Stopping /\ stop'.at # "running" /\ stop'.awaits = FALSE
        /\ UNCHANGED <<flush, timer>>
    BY <1>10 DEF StopEnds, StopGoes, Stopping
  <2> QED BY <2>1, CallKeeps
<1>11. CASE TakeBatch \/ Drained \/ Execute \/ ReplyOk \/ ReplyError \/ Finish
  <2>1. /\ flush \in Flushes /\ stop \in Stops
        /\ flush.at # "sent" => flush.batch = NoBatch /\ flush.wrote = None
        /\ timer => flush.at = "idle" /\ ~Stopping
        /\ flush.at # "idle"
    BY <1>11, Given DEF TakeBatch, Drained, Execute, ReplyOk, ReplyError, Finish, IInv, FlushFits
  <2>2. /\ ~timer /\ (timer' => Finish)
        /\ stop'.at = stop.at /\ (stop'.awaits => stop.awaits)
        /\ stop' = stop \/ (Finish /\ stop'.awaits = FALSE)
    <3>1. CASE Finish
      BY <2>1, <3>1 DEF Finish, Stops
    <3>2. CASE TakeBatch \/ Drained \/ Execute \/ ReplyOk \/ ReplyError
      <4>1. stop' = stop /\ timer' = timer
        BY <3>2 DEF TakeBatch, Drained, Execute, ReplyOk, ReplyError
      <4> QED BY <2>1, <4>1
    <3> QED BY <1>11, <3>1, <3>2
  <2>3. Stopping' <=> Stopping
    BY <2>2 DEF Stopping
  <2>4. CASE TakeBatch
    <3>1. flush'.at = "sent" /\ flush'.wrote = None
      BY <2>1, <2>4 DEF TakeBatch, Flushes
    <3>2. ~timer'
      BY <2>1, <2>4 DEF TakeBatch
    <3> QED BY <3>1, <3>2 DEF FlushFits, NoLostFlush
  <2>5. CASE Drained
    <3>1. flush'.at = "tail" /\ flush'.wrote = None /\ flush'.batch = NoBatch /\ ~timer'
      BY <2>1, <2>5 DEF Drained, Flushes
    <3> QED BY <3>1 DEF FlushFits, NoLostFlush, NoBatch
  <2>6. CASE Execute
    <3>1. /\ flush'.at = "sent" /\ flush'.batch = flush.batch /\ flush'.wrote \subseteq Batched
          /\ ~timer'
      BY <2>1, <2>6 DEF Execute, Flushes
    <3>2. Batched' = Batched
      BY <3>1 DEF Batched
    <3> QED BY <3>1, <3>2 DEF FlushFits, NoLostFlush
  <2>7. CASE ReplyOk \/ ReplyError
    <3>1. flush'.at \in {"next", "tail"} /\ flush'.wrote = None /\ flush'.batch = NoBatch /\ ~timer'
      BY <2>1, <2>7 DEF ReplyOk, ReplyError
    <3> QED BY <3>1 DEF FlushFits, NoLostFlush, NoBatch
  <2>8. CASE Finish
    <3>1. flush'.at = "idle" /\ flush'.wrote = None /\ flush'.batch = NoBatch
      BY <2>1, <2>8 DEF Finish, Flushes
    <3>2. timer' = Rearm /\ stop'.awaits = FALSE /\ pending' = pending
      BY <2>1, <2>8 DEF Finish, Stops, Rearm
    <3> QED BY <2>3, <3>1, <3>2 DEF FlushFits, NoLostFlush, NoBatch, Rearm, Waiting
  <2> QED BY <1>11, <2>4, <2>5, <2>6, <2>7, <2>8
<1> QED BY <1>1, <1>2, <1>3, <1>4, <1>5, <1>6, <1>7, <1>8, <1>9, <1>10, <1>11
        DEF Next, StopStep, TraceStep, vars

-----------------------------------------------------------------------------
(* The table: what was announced is there. *)

\* The statement gives an outcome only to a row that has none, and writes no value
\* older than what it finds.
LEMMA ExecuteIs ==
    ASSUME IInv, Execute, NEW r \in Rows
    PROVE  /\ row[r].status # None => row'[r].status = row[r].status
           /\ row[r].version <= row'[r].version /\ row[r].trace <= row'[r].trace
           /\ r \in flush'.wrote =>
                 /\ AckOf(r) \in Outcomes => row'[r].status = AckOf(r)
                 /\ AckOf(r) \in Traces => row'[r].trace >= AckOf(r)
<1>1. PICK hit \in SUBSET Batched :
         /\ hit = {s \in Batched : Matches(s)}
         /\ row' = [s \in Rows |-> IF s \in hit THEN Written(row[s], flush.batch[s]) ELSE row[s]]
         /\ flush' = [flush EXCEPT !.wrote = hit]
  BY DEF Execute
<1>2. flush'.wrote = hit
  BY <1>1, Given DEF Flushes
<1>3. row[r].version \in Nat /\ row[r].trace \in Nat
  BY Names DEF IInv, TypeOK, Versions
<1>4. CASE r \notin hit
  BY <1>1, <1>2, <1>3, <1>4
<1>5. CASE r \in hit
  <2>1. /\ flush.batch[r] # None /\ AckIn(flush.batch[r]) = AckOf(r)
        /\ row'[r] = Written(row[r], flush.batch[r])
        /\ AckOf(r) \in Outcomes => row[r].status = None
    BY <1>1, <1>5 DEF Batched, Matches, Fenced, AckOf, AckIn, Item
  <2>2. Status(flush.batch[r]) = IF AckOf(r) \in Outcomes THEN AckOf(r) ELSE None
    BY <2>1, Given DEF Fits, ItemFits
  <2>3. /\ row'[r].status = (IF Status(flush.batch[r]) # None THEN Status(flush.batch[r])
                                                              ELSE row[r].status)
        /\ row[r].version <= row'[r].version /\ row[r].trace <= row'[r].trace
        /\ AckOf(r) \in Traces => row'[r].trace >= AckOf(r)
    <3>1. PICK b : b = flush.batch[r]
      OBVIOUS
    <3>2. Fits(row[r], b, pending[r], deferred[r], active[r], task[r], used[r], version, stop)
      BY <3>1, Given
    <3>3. b # None
      BY <2>1, <3>1
    <3>4. /\ Written(row[r], b).status = (IF Status(b) # None THEN Status(b) ELSE row[r].status)
          /\ row[r].version <= Written(row[r], b).version /\ row[r].trace <= Written(row[r], b).trace
          /\ AckIn(b) \in Traces => Written(row[r], b).trace >= AckIn(b)
      BY <3>2, <3>3, Writing
    <3> QED BY <2>1, <3>1, <3>4
  <2> QED BY <2>1, <2>2, <2>3, Names
<1> QED BY <1>4, <1>5

\* A step of the buffer that does not execute leaves the table alone.
LEMMA OnlyExecuteWrites ==
    ASSUME [Next]_vars, ~Execute, \A r \in Rows : ~Delete(r), \A r \in Rows : \A o \in Outcomes : ~Finalize(r, o)
    PROVE  row' = row
<1>1. ASSUME NEW r \in Rows, TraceStep(r)
      PROVE  row' = row
  BY <1>1 DEF TraceStep, TraceFlush, TraceEnqueue, TraceDrives, TraceGivesUp, TraceEnds
<1>2. ASSUME NEW r \in Rows,
             \/ Enqueue(r) \/ Timeout(r) \/ CallbackEnds(r) \/ TraceFails(r)
             \/ (\E o \in Outcomes : Claim(r, o)) \/ (\E t \in Traces : TraceStart(r, t))
      PROVE  row' = row
  BY <1>2 DEF Enqueue, Timeout, CallbackEnds, TraceFails, Claim, TraceStart
<1>3. CASE TimerFires \/ TakeBatch \/ Drained \/ ReplyOk \/ ReplyError \/ Finish
  BY <1>3 DEF TimerFires, TakeBatch, Drained, ReplyOk, ReplyError, Finish
<1>4. CASE StopStep
  BY <1>4 DEF StopStep, StopDrains, StopRejects, StopEnds
<1>5. CASE UNCHANGED vars
  BY <1>5 DEF vars
<1> QED BY <1>1, <1>2, <1>3, <1>4, <1>5 DEF Next

\* Every step keeps the outcome a row has, and its newest values.
LEMMA TableKept ==
    ASSUME IInv, [Next]_vars, NEW r \in Rows
    PROVE  /\ row[r].status # None => row'[r].status = row[r].status
           /\ row[r].version <= row'[r].version /\ row[r].trace <= row'[r].trace
<1>1. row[r].version \in Nat /\ row[r].trace \in Nat /\ row[r] \in RowStates
  BY Names DEF IInv, TypeOK, Versions, RowStates
<1>2. CASE Execute
  BY <1>2, ExecuteIs
<1>3. ASSUME NEW s \in Rows, Delete(s)
      PROVE  row'[r].status = row[r].status /\ row'[r].version = row[r].version
             /\ row'[r].trace = row[r].trace
  BY <1>1, <1>3, Given DEF Delete, RowStates
<1>4. ASSUME NEW s \in Rows, NEW o \in Outcomes, Finalize(s, o)
      PROVE  /\ row[r].status # None => row'[r].status = row[r].status
             /\ row'[r].version = row[r].version /\ row'[r].trace = row[r].trace
  BY <1>1, <1>4, Given DEF Finalize, RowStates
<1>5. CASE row' = row
  BY <1>1, <1>5
<1> QED BY <1>1, <1>2, <1>3, <1>4, <1>5, OnlyExecuteWrites

\* Outside the answer of a batch and the fallback, nothing is announced.
LEMMA OnlyAnswersConfirm ==
    ASSUME [Next]_vars, ~ReplyOk, \A r \in Rows : \A o \in Outcomes : ~Finalize(r, o)
    PROVE  confirmed' = confirmed
<1>1. ASSUME NEW r \in Rows, TraceStep(r)
      PROVE  confirmed' = confirmed
  BY <1>1 DEF TraceStep, TraceFlush, TraceEnqueue, TraceDrives, TraceGivesUp, TraceEnds
<1>2. ASSUME NEW r \in Rows,
             \/ Enqueue(r) \/ Timeout(r) \/ CallbackEnds(r) \/ TraceFails(r) \/ Delete(r)
             \/ (\E o \in Outcomes : Claim(r, o)) \/ (\E t \in Traces : TraceStart(r, t))
      PROVE  confirmed' = confirmed
  BY <1>2 DEF Enqueue, Timeout, CallbackEnds, TraceFails, Claim, TraceStart, Delete
<1>3. CASE TimerFires \/ TakeBatch \/ Drained \/ Execute \/ ReplyError \/ Finish
  BY <1>3 DEF TimerFires, TakeBatch, Drained, Execute, ReplyError, Finish
<1>4. CASE StopStep
  BY <1>4 DEF StopStep, StopDrains, StopRejects, StopEnds
<1>5. CASE UNCHANGED vars
  BY <1>5 DEF vars
<1> QED BY <1>1, <1>2, <1>3, <1>4, <1>5 DEF Next

\* What has been announced stays in the table, and what is announced is there.
LEMMA AcksKept ==
    ASSUME IInv, [Next]_vars
    PROVE  AckHonest'
<1>1. \A r \in Rows : \A a \in confirmed[r] :
         a \in Acks /\ IF a \in Outcomes THEN row[r].status = a ELSE row[r].trace >= a
  BY DEF IInv, TypeOK, AckHonest
<1>2. \A r \in Rows : row[r].trace \in Nat /\ row'[r].trace \in Nat
  BY RowsKept, Names DEF IInv, TypeOK
<1>3. ASSUME NEW r \in Rows, NEW a \in confirmed[r]
      PROVE  IF a \in Outcomes THEN row'[r].status = a ELSE row'[r].trace >= a
  <2>1. CASE a \in Outcomes
    BY <1>1, <2>1, TableKept, Names
  <2>2. CASE a \notin Outcomes
    <3>1. a \in Nat /\ row[r].trace >= a /\ row[r].trace <= row'[r].trace
      BY <1>1, <2>2, TableKept DEF Acks, Traces
    <3> QED BY <1>2, <2>2, <3>1
  <2> QED BY <2>1, <2>2
<1>4. ASSUME NEW r \in Rows, NEW a \in confirmed'[r] \ confirmed[r]
      PROVE  IF a \in Outcomes THEN row'[r].status = a ELSE row'[r].trace >= a
  <2>1. CASE ReplyOk
    <3>1. r \in Told /\ a = AckOf(r) /\ row' = row /\ flush.wrote # None
      BY <1>4, <2>1, Given DEF ReplyOk
    <3>2. r \in flush.wrote /\ AckOf(r) \in Acks
      <4>1. active[r] \in Acks \cup {None}
        BY DEF IInv, TypeOK
      <4> QED BY <3>1, <4>1 DEF Told, Announced, Awaited, Acks
    <3> QED BY <3>1, <3>2 DEF IInv, WroteFits, Acks
  <2>2. ASSUME NEW s \in Rows, NEW o \in Outcomes, Finalize(s, o)
        PROVE  IF a \in Outcomes THEN row'[r].status = a ELSE row'[r].trace >= a
    <3>1. s = r /\ a = o
      BY <1>4, <2>2, Given DEF Finalize
    <3>2. row'[r].status = o
      <4>1. row[r] \in RowStates /\ row' = [row EXCEPT ![r].status = o]
        BY <2>2, <3>1 DEF Finalize, IInv, TypeOK, RowStates
      <4> QED BY <4>1, Given DEF RowStates
    <3> QED BY <2>2, <3>1, <3>2
  <2> QED BY <1>4, <2>1, <2>2, OnlyAnswersConfirm
<1> QED BY <1>3, <1>4 DEF AckHonest

\* What the batch wrote stays in the table until it is answered.
LEMMA WroteKept ==
    ASSUME IInv, [Next]_vars
    PROVE  WroteFits'
<1>1. CASE Execute
  <2>1. flush'.batch = flush.batch /\ flush'.wrote \subseteq Rows
    BY <1>1, Given DEF Execute, Flushes, Batched
  <2>2. \A r \in Rows : AckOf(r)' = AckOf(r)
    BY <2>1 DEF AckOf
  <2> QED BY <1>1, <2>1, <2>2, ExecuteIs DEF WroteFits
<1>2. CASE flush'.wrote = None
  BY <1>2 DEF WroteFits
<1>3. CASE flush'.wrote = flush.wrote /\ flush'.batch = flush.batch
  <2> SUFFICES ASSUME flush'.wrote # None, NEW r \in flush'.wrote
               PROVE  /\ AckOf(r)' \in Outcomes => row'[r].status = AckOf(r)'
                      /\ AckOf(r)' \in Traces => row'[r].trace >= AckOf(r)'
    BY DEF WroteFits
  <2>1. r \in Rows /\ r \in flush.wrote /\ flush.wrote # None
    BY <1>3, Given DEF Flushes
  <2>2. AckOf(r)' = AckOf(r)
    BY <1>3 DEF AckOf
  <2>3. /\ AckOf(r) \in Outcomes => row[r].status = AckOf(r)
        /\ AckOf(r) \in Traces => row[r].trace >= AckOf(r)
    BY <2>1 DEF IInv, WroteFits
  <2>4. AckOf(r) \in Traces => row'[r].trace >= AckOf(r)
    <3>1. row[r].trace \in Nat /\ row'[r].trace \in Nat /\ row[r].trace <= row'[r].trace
      BY <2>1, RowsKept, TableKept, Names DEF IInv, TypeOK
    <3> QED BY <2>3, <3>1 DEF Traces
  <2> QED BY <2>1, <2>2, <2>3, <2>4, TableKept, Names
<1>4. Execute \/ flush'.wrote = None \/ (flush'.wrote = flush.wrote /\ flush'.batch = flush.batch)
  <2>1. ASSUME CallFlush \/ (\E n : Schedule(n)) \/ UNCHANGED flush
        PROVE  flush'.wrote = flush.wrote /\ flush'.batch = flush.batch
    BY <2>1, Given, Calling, Scheduling
  <2>2. ASSUME NEW r \in Rows, TraceStep(r)
        PROVE  CallFlush \/ (\E n : Schedule(n)) \/ UNCHANGED flush
    BY <2>2 DEF TraceStep, TraceFlush, TraceEnqueue, TraceDrives, TraceGivesUp, TraceEnds,
                Acknowledge, Reject
  <2>3. ASSUME NEW r \in Rows,
               \/ Enqueue(r) \/ Timeout(r) \/ CallbackEnds(r) \/ TraceFails(r) \/ Delete(r)
               \/ (\E o \in Outcomes : Claim(r, o) \/ Finalize(r, o))
               \/ (\E t \in Traces : TraceStart(r, t))
        PROVE  CallFlush \/ (\E n : Schedule(n)) \/ UNCHANGED flush
    BY <2>3 DEF Enqueue, Timeout, CallbackEnds, TraceFails, Claim, TraceStart, Delete, Finalize,
                Acknowledge, Reject
  <2>4. CASE StopStep
    <3>1. CallFlush \/ (\E n : Schedule(n)) \/ UNCHANGED flush
      BY <2>4, StopDrainsIs DEF StopStep, StopRejects, StopEnds
    <3> QED BY <2>1, <3>1
  <2>5. CASE TimerFires \/ UNCHANGED vars
    BY <2>1, <2>5 DEF TimerFires, vars
  <2>6. CASE TakeBatch
    <3>1. flush.wrote = None /\ flush'.wrote = flush.wrote
      BY <2>6, Given DEF TakeBatch, IInv, FlushFits, Flushes
    <3> QED BY <3>1
  <2>7. CASE Drained \/ Finish
    BY <2>7, Given DEF Drained, Finish, Flushes
  <2>8. CASE ReplyOk \/ ReplyError
    BY <2>8 DEF ReplyOk, ReplyError
  <2> QED BY <2>1, <2>2, <2>3, <2>4, <2>5, <2>6, <2>7, <2>8 DEF Next
<1> QED BY <1>1, <1>2, <1>3, <1>4

-----------------------------------------------------------------------------
(* The order of the queue, and its size. *)

\* What a step leaves behind.
LEMMA Later ==
    ASSUME IInv, [Next]_vars, NEW r \in Rows
    PROVE  Fits(row'[r], flush'.batch[r], pending'[r], deferred'[r], active'[r], task'[r], used'[r],
                version', stop')
BY RowsKept DEF RowsFit

\* Few steps touch the queue, what is held back, the acknowledgements or the batch.
LEMMA Touching ==
    ASSUME IInv, [Next]_vars
    PROVE  \/ UNCHANGED <<pending, deferred, active>> /\ flush'.batch = flush.batch
           \/ \E r \in Rows : \/ Enqueue(r) \/ (\E o \in Outcomes : Claim(r, o))
                              \/ TraceEnqueue(r)
                              \/ active[r] # None /\ Reject(r)
           \/ TakeBatch \/ ReplyOk \/ ReplyError \/ StopRejects \/ StopEnds
<1>1. ASSUME CallFlush \/ UNCHANGED flush
      PROVE  flush'.batch = flush.batch
  BY <1>1, Given, Calling
<1>2. ASSUME NEW r \in Rows,
             \/ CallbackEnds(r) \/ TraceFails(r) \/ Delete(r) \/ TraceFlush(r) \/ TraceDrives(r)
             \/ TraceEnds(r) \/ (\E o \in Outcomes : Finalize(r, o))
             \/ (\E t \in Traces : TraceStart(r, t))
      PROVE  UNCHANGED <<pending, deferred, active>> /\ (CallFlush \/ UNCHANGED flush)
  BY <1>2 DEF CallbackEnds, TraceFails, Delete, TraceFlush, TraceDrives, TraceEnds, Finalize,
              TraceStart
<1>3. ASSUME NEW r \in Rows, Timeout(r) \/ TraceGivesUp(r)
      PROVE  active[r] # None /\ Reject(r)
  <2>1. task[r] # None => task[r].trace # None
    BY Names DEF IInv, TypeOK, Tasks
  <2> QED BY <1>3, <2>1 DEF Timeout, TraceGivesUp, Running
<1>4. CASE Drained \/ Execute \/ Finish
  BY <1>4, Given DEF Drained, Execute, Finish, Flushes
<1>5. CASE TimerFires \/ StopDrains \/ UNCHANGED vars
  <2>1. UNCHANGED <<pending, deferred, active>> /\ (CallFlush \/ UNCHANGED flush)
    BY <1>5, StopDrainsIs DEF TimerFires, vars
  <2> QED BY <1>1, <2>1
<1> QED BY <1>1, <1>2, <1>3, <1>4, <1>5 DEF Next, StopStep, TraceStep

\* Stale and awaited updates, row by row.
LEMMA StaleIs ==
    /\ \A r \in Rows : r \in Stale <=> AckIn(pending[r]) # None /\ AckIn(pending[r]) # active[r]
    /\ \A r \in Rows : r \in Awaited <=> AckIn(flush.batch[r]) # None /\ AckIn(flush.batch[r]) = active[r]
    /\ Stale \subseteq Rows /\ Awaited \subseteq Rows
<1>1. \A q : AckIn(q) = IF q = None THEN None ELSE q.ack
  BY DEF AckIn, Item
<1> QED BY <1>1 DEF Stale, Waiting, Awaited, Batched, AckOf

\* And after a step.
LEMMA StaleNext ==
    /\ \A r \in Rows : r \in Stale' <=> AckIn(pending'[r]) # None /\ AckIn(pending'[r]) # active'[r]
    /\ \A r \in Rows : r \in Awaited' <=> AckIn(flush'.batch[r]) # None /\ AckIn(flush'.batch[r]) = active'[r]
    /\ Stale' \subseteq Rows /\ Awaited' \subseteq Rows
<1>1. \A q : AckIn(q) = IF q = None THEN None ELSE q.ack
  BY DEF AckIn, Item
<1> QED BY <1>1 DEF Stale, Waiting, Awaited, Batched, AckOf

\* What a shutdown rejected stays ahead of what is acknowledged since.
LEMMA StaleKept ==
    ASSUME IInv, [Next]_vars
    PROVE  StaleFirst'
<1>1. CASE ~IsLate(stop')
  <2>1. Stale' = {}
    BY <1>1, Later, StaleNext DEF Fits, AcksFit
  <2> QED BY <2>1 DEF StaleFirst
<1>2. CASE Awaited' = {}
  BY <1>2 DEF StaleFirst
<1>3. CASE Awaited' \subseteq Awaited /\ Stale' \subseteq Stale
  BY <1>3 DEF StaleFirst, IInv
<1>4. CASE UNCHANGED <<pending, active>> /\ flush'.batch = flush.batch
  BY <1>3, <1>4, StaleIs, StaleNext
<1>5. ASSUME NEW r \in Rows, Enqueue(r) \/ (\E o \in Outcomes : Claim(r, o))
      PROVE  ~IsLate(stop')
  BY <1>5 DEF Enqueue, Claim, Stopping, IsLate
<1>6. ASSUME NEW r \in Rows, TraceEnqueue(r)
      PROVE  Awaited' \subseteq Awaited /\ Stale' \subseteq Stale
  <2>1. PICK x : x = task[r].trace
    OBVIOUS
  <2>2. /\ x # AckIn(flush.batch[r]) /\ active' = [active EXCEPT ![r] = x]
        /\ flush'.batch = flush.batch
    <3>1. x # AckIn(flush.batch[r])
      BY <1>6, <2>1, Given DEF TraceEnqueue, Running, Fits, TaskFits
    <3>2. active' = [active EXCEPT ![r] = x] /\ \E n : Schedule(n)
      BY <1>6, <2>1 DEF TraceEnqueue, Acknowledge
    <3> QED BY <3>1, <3>2, Given, Scheduling
  <2>3. \A s \in Rows \ {r} : pending'[s] \in {pending[s], None}
    <3>1. PICK p : p = [pending EXCEPT ![r] =
                           [patch |-> Merge(Queued(pending, r).patch, [NoPatch EXCEPT !.trace = x]),
                            ack |-> x, fence |-> FALSE]]
      OBVIOUS
    <3>2. Fit(p, deferred)
      BY <1>6, <2>1, <3>1 DEF TraceEnqueue, Acknowledge
    <3>3. \A s \in Rows \ {r} : p[s] = pending[s]
      BY <3>1, Given
    <3> QED BY <3>2, <3>3, FitIs
  <2>4. r \notin Stale'
    <3>1. AckIn(pending'[r]) # None => AckIn(pending'[r]) = x
      <4>1. active'[r] = x /\ x # None
        <5>1. x \in Traces
          BY <1>6, <2>1 DEF TraceEnqueue, Running, IInv, TypeOK, Tasks
        <5> QED BY <2>2, <5>1, Given, Names
      <4> QED BY <4>1, Later DEF Fits, AcksFit
    <3> QED BY <2>2, <3>1, StaleNext, Given
  <2>5. r \notin Awaited'
    BY <2>2, StaleNext, Given
  <2>6. \A s \in Rows \ {r} : active'[s] = active[s]
    BY <2>2, Given
  <2> QED BY <2>2, <2>3, <2>4, <2>5, <2>6, StaleIs, StaleNext, Nothing
<1>7. ASSUME NEW r \in Rows, active[r] # None, Reject(r)
      PROVE  Awaited' \subseteq Awaited /\ Stale' \subseteq Stale
  <2>1. flush'.batch = flush.batch
    BY <1>7, RejectRows
  <2>2. PICK p : p = IF Queued(pending, r).ack = active[r]
                     THEN [pending EXCEPT ![r] = None] ELSE pending
    OBVIOUS
  <2>3. \A s \in Rows : /\ pending'[s] = IF s = r THEN Released(p[r], deferred[r], active[r]) ELSE p[s]
                        /\ active'[s] = IF s = r THEN None ELSE active[s]
    <3>1. pending' = Release(p, {r}) /\ active' = Settled({r})
      BY <1>7, <2>2 DEF Reject
    <3> QED BY <3>1, ReleaseIs DEF IInv
  <2>4. p \in [Rows -> Items \cup {None}] /\ \A s \in Rows : p[s] \in {pending[s], None}
    BY <2>2 DEF IInv, TypeOK
  <2>5. AckIn(p[r]) = None
    <3>1. p[r] = IF AckIn(pending[r]) = active[r] THEN None ELSE pending[r]
      BY <2>2, Given, QueuedIs DEF AckIn
    <3>2. AckIn(pending[r]) # None => AckIn(pending[r]) = active[r]
      BY <1>7, Given DEF Fits, AcksFit
    <3> QED BY <3>1, <3>2, Nothing
  <2>6. AckIn(pending'[r]) = None
    <3>1. CASE active[r] \in Traces /\ deferred[r] # 0
      <4>1. deferred[r] \in Versions \ {0} /\ p[r] \in Items \cup {None}
        BY <2>4, <3>1 DEF IInv, TypeOK
      <4> QED BY <2>3, <3>1, <4>1, ReleasedIs
    <3>2. CASE ~(active[r] \in Traces /\ deferred[r] # 0)
      BY <2>3, <2>5, <3>2 DEF Released
    <3> QED BY <3>1, <3>2
  <2>7. \A s \in Rows : s # r => pending'[s] \in {pending[s], None} /\ active'[s] = active[s]
    BY <2>3, <2>4
  <2> QED BY <2>1, <2>3, <2>6, <2>7, StaleIs, StaleNext, Nothing
<1>8. CASE TakeBatch
  <2>1. PICK rs \in Batches :
           /\ flush' = [flush EXCEPT !.at = "sent",
                           !.batch = [r \in Rows |-> IF r \in rs THEN pending[r] ELSE None]]
           /\ pending' = [r \in Rows |-> IF r \in rs THEN None ELSE pending[r]]
           /\ active' = active
    BY <1>8 DEF TakeBatch
  <2>2. flush'.batch = [r \in Rows |-> IF r \in rs THEN pending[r] ELSE None]
    BY <2>1, Given DEF Flushes
  <2>3. \A r \in Awaited' : r \in rs /\ pending[r].ack # None /\ r \notin Stale
    BY <2>1, <2>2, StaleIs, StaleNext, Nothing DEF Batched, Awaited, AckIn, Item
  <2>4. Awaited' # {} => Stale \subseteq rs
    BY <2>3 DEF Batches, InOrder
  <2>5. \A r \in Stale' : r \in Stale /\ r \notin rs
    BY <2>1, StaleIs, StaleNext, Nothing
  <2> QED BY <2>4, <2>5 DEF StaleFirst
<1>9. CASE ReplyOk \/ ReplyError
  <2>1. flush'.batch = NoBatch
    BY <1>9 DEF ReplyOk, ReplyError
  <2> QED BY <1>2, <2>1, StaleNext, Nothing DEF NoBatch
<1>10. CASE StopRejects \/ StopEnds
  <2>1. \A r \in Rows : active'[r] = None
    <3>1. CASE StopRejects
      BY <3>1 DEF StopRejects, Settled, Unsettled
    <3>2. CASE StopEnds
      BY <3>2, NobodyWaits DEF StopEnds
    <3> QED BY <1>10, <3>1, <3>2
  <2> QED BY <1>2, <2>1, StaleNext
<1> QED BY <1>1, <1>3, <1>4, <1>5, <1>6, <1>7, <1>8, <1>9, <1>10, Touching

\* Sets of rows are finite and can be counted.
LEMMA Counting ==
    ASSUME NEW S \in SUBSET Rows, NEW T \in SUBSET Rows
    PROVE  /\ Cardinality(S) \in Nat
           /\ T \subseteq S => Cardinality(T) <= Cardinality(S)
           /\ T \subseteq S => Cardinality(S \ T) = Cardinality(S) - Cardinality(T)
           /\ Cardinality(S \cup T) <= Cardinality(S) + Cardinality(T)
<1>1. IsFiniteSet(S) /\ IsFiniteSet(T) /\ IsFiniteSet(S \cap T)
  BY RowsAssumption, FS_Subset
<1>2. /\ Cardinality(S) \in Nat /\ Cardinality(T) \in Nat
      /\ Cardinality(S \cap T) \in Nat
  BY <1>1, FS_CardinalityType
<1>3. T \subseteq S => Cardinality(T) <= Cardinality(S)
  BY <1>1, FS_Subset
<1>4. T \subseteq S => Cardinality(S \ T) = Cardinality(S) - Cardinality(T)
  <2>1. Cardinality(S \ T) = Cardinality(S) - Cardinality(S \cap T)
    BY <1>1, FS_Difference
  <2>2. T \subseteq S => S \cap T = T
    OBVIOUS
  <2> QED BY <2>1, <2>2
<1>5. Cardinality(S \cup T) = Cardinality(S) + Cardinality(T) - Cardinality(S \cap T)
  BY <1>1, FS_Union
<1> QED BY <1>2, <1>3, <1>4, <1>5

\* A queue of a claim or a trace takes a place among the acknowledgements, which
\* never outnumber what may wait.
LEMMA UnsettledKept ==
    ASSUME IInv, [Next]_vars
    PROVE  UnsettledBounded'
<1>1. Unsettled \in SUBSET Rows /\ Unsettled' \in SUBSET Rows
      /\ Cardinality(Unsettled) <= MaxPending
  BY DEF Unsettled, IInv, UnsettledBounded
<1>2. CASE Unsettled' \subseteq Unsettled
  <2>1. Cardinality(Unsettled') <= Cardinality(Unsettled)
    BY <1>1, <1>2, Counting
  <2>2. Cardinality(Unsettled) \in Nat /\ Cardinality(Unsettled') \in Nat
    BY <1>1, Counting
  <2>3. Cardinality(Unsettled') <= MaxPending
    BY <1>1, <2>1, <2>2, Names
  <2> QED BY <2>3 DEF UnsettledBounded
<1>3. ASSUME NEW r \in Rows, NEW patch, NEW a, Acknowledge(r, patch, a)
      PROVE  UnsettledBounded'
  <2>1. Cardinality(Unsettled) < MaxPending /\ active' = [active EXCEPT ![r] = a]
    BY <1>3 DEF Acknowledge
  <2>2. Unsettled' \subseteq Unsettled \cup {r}
    BY <2>1, Given DEF Unsettled
  <2>3. Cardinality(Unsettled') <= Cardinality(Unsettled \cup {r})
    BY <1>1, <2>2, Counting
  <2>4. Cardinality(Unsettled \cup {r}) <= Cardinality(Unsettled) + 1
    <3>1. IsFiniteSet(Unsettled) /\ Cardinality(Unsettled) \in Nat
      BY <1>1, RowsAssumption, FS_Subset, FS_CardinalityType
    <3>2. Cardinality(Unsettled \cup {r}) = IF r \in Unsettled THEN Cardinality(Unsettled)
                                                               ELSE Cardinality(Unsettled) + 1
      BY <3>1, FS_AddElement
    <3> QED BY <3>1, <3>2
  <2>5. /\ Cardinality(Unsettled) \in Nat /\ Cardinality(Unsettled') \in Nat
        /\ Cardinality(Unsettled \cup {r}) \in Nat
    BY <1>1, Counting
  <2> QED BY <2>1, <2>3, <2>4, <2>5, Names DEF UnsettledBounded
<1>4. ASSUME NEW r \in Rows, TraceEnqueue(r) \/ (\E o \in Outcomes : Claim(r, o))
      PROVE  UnsettledBounded'
  BY <1>3, <1>4 DEF TraceEnqueue, Claim
<1>5. CASE UNCHANGED active
  BY <1>2, <1>5 DEF Unsettled
<1>6. ASSUME NEW r \in Rows, Enqueue(r)
      PROVE  UNCHANGED active
  BY <1>6 DEF Enqueue
<1>7. CASE TakeBatch \/ ReplyError \/ StopEnds
  BY <1>5, <1>7 DEF TakeBatch, ReplyError, StopEnds
<1>8. ASSUME NEW rs, active' = Settled(rs)
      PROVE  UnsettledBounded'
  BY <1>2, <1>8 DEF Settled, Unsettled
<1>9. ASSUME NEW r \in Rows, Reject(r)
      PROVE  UnsettledBounded'
  BY <1>8, <1>9 DEF Reject
<1>10. CASE ReplyOk \/ StopRejects
  BY <1>8, <1>10 DEF ReplyOk, StopRejects
<1> QED BY <1>4, <1>5, <1>6, <1>7, <1>9, <1>10, Touching

\* Eviction keeps the bound, when what may not be evicted is within it.
LEMMA FitBounds ==
    ASSUME NEW p, NEW d, Fit(p, d), Cardinality(Waiting(p) \ Spare(p)) <= MaxPending
    PROVE  QueueBounded'
<1> PICK over : over = IF Size(p, d) > MaxPending THEN Size(p, d) - MaxPending ELSE 0
  OBVIOUS
<1> PICK most : most = Cardinality(Spare(p)) + Cardinality(Held(d))
  OBVIOUS
<1>1. PICK out \in SUBSET Spare(p), lost \in SUBSET Held(d) :
         /\ over = IF Size(p, d) > MaxPending THEN Size(p, d) - MaxPending ELSE 0
         /\ most = Cardinality(Spare(p)) + Cardinality(Held(d))
         /\ Cardinality(out) + Cardinality(lost) = IF over < most THEN over ELSE most
         /\ pending' = [r \in Rows |-> IF r \in out THEN None ELSE p[r]]
         /\ deferred' = [r \in Rows |-> IF r \in lost THEN 0 ELSE d[r]]
  BY DEF Fit
<1>2. Waiting(pending)' = Waiting(p) \ out /\ Held(deferred)' = Held(d) \ lost
  BY <1>1 DEF Waiting, Held
<1>3. Waiting(p) \in SUBSET Rows /\ Held(d) \in SUBSET Rows /\ Spare(p) \in SUBSET Waiting(p)
  BY DEF Waiting, Held, Spare
<1>4. PICK w \in Nat, h \in Nat, s \in Nat, o \in Nat, l \in Nat :
         /\ w = Cardinality(Waiting(p)) /\ h = Cardinality(Held(d)) /\ s = Cardinality(Spare(p))
         /\ o = Cardinality(out) /\ l = Cardinality(lost)
  BY <1>1, <1>3, Counting
<1>5. /\ Cardinality(Waiting(pending)') = w - o /\ Cardinality(Held(deferred)') = h - l
      /\ Cardinality(Waiting(p) \ Spare(p)) = w - s
      /\ o <= s /\ l <= h /\ s <= w
  <2>1. out \in SUBSET Waiting(p) /\ out \in SUBSET Rows /\ Spare(p) \in SUBSET Rows
        /\ lost \in SUBSET Rows
    BY <1>3
  <2>2. Cardinality(Waiting(p) \ out) = w - o /\ Cardinality(Waiting(p) \ Spare(p)) = w - s
        /\ s <= w
    BY <1>3, <1>4, <2>1, Counting
  <2>3. Cardinality(Held(d) \ lost) = h - l /\ l <= h
    BY <1>3, <1>4, <2>1, Counting
  <2>4. o <= s
    BY <1>4, <2>1, Counting
  <2> QED BY <1>2, <2>2, <2>3, <2>4
<1>6. /\ over = IF w + h > MaxPending THEN w + h - MaxPending ELSE 0
      /\ most = s + h /\ o + l = IF over < most THEN over ELSE most
      /\ w - s <= MaxPending
  <2>1. Size(p, d) = w + h
    BY <1>4 DEF Size
  <2>2. over = IF w + h > MaxPending THEN w + h - MaxPending ELSE 0
    <3>1. over = IF Size(p, d) > MaxPending THEN Size(p, d) - MaxPending ELSE 0
      BY <1>1
    <3> QED BY <2>1, <3>1, Names
  <2>3. most = s + h
    BY <1>1, <1>4
  <2>4. o + l = IF over < most THEN over ELSE most
    BY <1>1, <1>4
  <2> QED BY <1>5, <2>2, <2>3, <2>4
<1>7. (w - o) + (h - l) <= MaxPending
  BY <1>5, <1>6, Names
<1>8. QueueBounded' <=> Cardinality(Waiting(pending)') + Cardinality(Held(deferred)') <= MaxPending
  BY DEF QueueBounded
<1> QED BY <1>5, <1>7, <1>8

\* What settles moves what was held back into the queue, one for one.
LEMMA ReleaseBounds ==
    ASSUME IInv, NEW p \in [Rows -> Items \cup {None}], Waiting(p) \subseteq Waiting(pending),
           NEW rs \in SUBSET Rows, pending' = Release(p, rs), deferred' = Kept(rs)
    PROVE  QueueBounded'
<1>1. Waiting(pending)' \subseteq Waiting(pending) \cup Releasing(rs)
      /\ Held(deferred)' = Held(deferred) \ Releasing(rs)
      /\ Releasing(rs) \subseteq Held(deferred)
  BY DEF Release, Kept, Waiting, Held, Releasing
<1>2. /\ Waiting(pending) \in SUBSET Rows /\ Held(deferred) \in SUBSET Rows
      /\ Waiting(pending)' \in SUBSET Rows /\ Releasing(rs) \in SUBSET Rows
  BY <1>1 DEF Waiting, Held
<1>3. PICK w \in Nat, h \in Nat, x \in Nat, w2 \in Nat, u \in Nat :
         /\ w = Cardinality(Waiting(pending)) /\ h = Cardinality(Held(deferred))
         /\ x = Cardinality(Releasing(rs)) /\ w2 = Cardinality(Waiting(pending)')
         /\ u = Cardinality(Waiting(pending) \cup Releasing(rs))
  BY <1>2, Counting
<1>4. w2 <= u /\ u <= w + x /\ x <= h /\ Cardinality(Held(deferred)') = h - x
  BY <1>1, <1>2, <1>3, Counting
<1>5. w + h <= MaxPending
  BY <1>3 DEF IInv, QueueBounded
<1>6. w2 + (h - x) <= MaxPending
  BY <1>4, <1>5, Names
<1>7. QueueBounded' <=> Cardinality(Waiting(pending)') + Cardinality(Held(deferred)') <= MaxPending
  BY DEF QueueBounded
<1> QED BY <1>3, <1>4, <1>6, <1>7

\* The queue keeps its bound.
LEMMA QueueKept ==
    ASSUME IInv, [Next]_vars
    PROVE  QueueBounded'
<1>1. QueueBounded' <=> Cardinality(Waiting(pending)') + Cardinality(Held(deferred)') <= MaxPending
  BY DEF QueueBounded
<1>2. /\ Waiting(pending) \in SUBSET Rows /\ Held(deferred) \in SUBSET Rows
      /\ Waiting(pending)' \in SUBSET Rows /\ Held(deferred)' \in SUBSET Rows
  BY DEF Waiting, Held
<1>3. ASSUME Waiting(pending)' \subseteq Waiting(pending), Held(deferred)' \subseteq Held(deferred)
      PROVE  QueueBounded'
  <2>1. /\ Cardinality(Waiting(pending)') <= Cardinality(Waiting(pending))
        /\ Cardinality(Held(deferred)') <= Cardinality(Held(deferred))
    BY <1>2, <1>3, Counting
  <2>2. /\ Cardinality(Waiting(pending)') \in Nat /\ Cardinality(Waiting(pending)) \in Nat
        /\ Cardinality(Held(deferred)') \in Nat /\ Cardinality(Held(deferred)) \in Nat
    BY <1>2, Counting
  <2>3. Cardinality(Waiting(pending)) + Cardinality(Held(deferred)) <= MaxPending
    BY DEF IInv, QueueBounded
  <2> QED BY <1>1, <2>1, <2>2, <2>3, Names
<1>4. CASE UNCHANGED <<pending, deferred>>
  BY <1>3, <1>4 DEF Waiting, Held
<1>5. CASE TakeBatch
  BY <1>3, <1>5 DEF TakeBatch, Waiting, Held
<1>6. CASE StopEnds
  BY <1>3, <1>6 DEF StopEnds, Waiting, Held
<1>7. CASE ReplyOk \/ StopRejects
  <2>1. PICK rs \in SUBSET Rows : pending' = Release(pending, rs) /\ deferred' = Kept(rs)
    BY <1>7 DEF ReplyOk, StopRejects, Awaited, Batched, Unsettled
  <2> QED BY <2>1, ReleaseBounds DEF IInv, TypeOK
<1>8. ASSUME NEW r \in Rows, Reject(r)
      PROVE  QueueBounded'
  <2>1. PICK p : p = IF Queued(pending, r).ack = active[r]
                     THEN [pending EXCEPT ![r] = None] ELSE pending
    OBVIOUS
  <2>2. p \in [Rows -> Items \cup {None}] /\ Waiting(p) \subseteq Waiting(pending)
    BY <2>1 DEF IInv, TypeOK, Waiting
  <2>3. pending' = Release(p, {r}) /\ deferred' = Kept({r})
    BY <1>8, <2>1 DEF Reject
  <2> QED BY <2>2, <2>3, ReleaseBounds
<1>9. ASSUME NEW r \in Rows, TraceEnqueue(r) \/ (\E o \in Outcomes : Claim(r, o))
      PROVE  QueueBounded'
  <2>1. Size(pending', deferred') <= MaxPending
    BY <1>9 DEF TraceEnqueue, Claim, Acknowledge
  <2>2. Waiting(pending') = Waiting(pending)' /\ Held(deferred') = Held(deferred)'
    BY DEF Waiting, Held
  <2> QED BY <1>1, <2>1, <2>2 DEF Size
<1>10. ASSUME NEW p, NEW d, Fit(p, d), Waiting(p) \ Spare(p) \subseteq Unsettled
       PROVE  QueueBounded'
  <2>1. Unsettled \in SUBSET Rows /\ Waiting(p) \ Spare(p) \in SUBSET Rows
    BY DEF Unsettled, Waiting
  <2>2. /\ Cardinality(Waiting(p) \ Spare(p)) <= Cardinality(Unsettled)
        /\ Cardinality(Waiting(p) \ Spare(p)) \in Nat /\ Cardinality(Unsettled) \in Nat
    BY <1>10, <2>1, Counting
  <2>3. Cardinality(Unsettled) <= MaxPending
    BY DEF IInv, UnsettledBounded
  <2>4. Cardinality(Waiting(p) \ Spare(p)) <= MaxPending
    BY <2>2, <2>3, Names
  <2> QED BY <1>10, <2>4, FitBounds
<1>11. ASSUME NEW p, NEW d, Fit(p, d), Waiting(p) \ Spare(p) \subseteq Waiting(pending)
       PROVE  QueueBounded'
  <2>1. Waiting(p) \ Spare(p) \in SUBSET Rows
    BY DEF Waiting
  <2>2. /\ Cardinality(Waiting(p) \ Spare(p)) <= Cardinality(Waiting(pending))
        /\ Cardinality(Waiting(p) \ Spare(p)) \in Nat /\ Cardinality(Waiting(pending)) \in Nat
        /\ Cardinality(Held(deferred)) \in Nat
    BY <1>2, <1>11, <2>1, Counting
  <2>3. Cardinality(Waiting(pending)) + Cardinality(Held(deferred)) <= MaxPending
    BY DEF IInv, QueueBounded
  <2>4. Cardinality(Waiting(p) \ Spare(p)) <= MaxPending
    BY <2>2, <2>3, Names
  <2> QED BY <1>11, <2>4, FitBounds
<1>12. ASSUME NEW r \in Rows, Enqueue(r)
       PROVE  QueueBounded'
  <2>1. ~IsLate(stop)
    BY <1>12 DEF Enqueue, Stopping, IsLate
  <2>2. PICK p, d : /\ Fit(p, d)
                    /\ \A s \in Rows : AckIn(p[s]) = AckIn(pending[s])
    <3>1. CASE Defers(r)
      BY <1>12, <3>1 DEF Enqueue
    <3>2. CASE ~Defers(r)
      <4>1. PICK p : p = [pending EXCEPT ![r] = [Queued(pending, r) EXCEPT !.patch.version = version']]
        OBVIOUS
      <4>2. Fit(p, deferred)
        BY <1>12, <3>2, <4>1 DEF Enqueue
      <4>3. AckIn(p[r]) = AckIn(pending[r])
        <5>1. p[r] = [Item(pending[r]) EXCEPT !.patch.version = version'] /\ Item(pending[r]) \in Items
          BY <4>1, Given, QueuedIs, Parts DEF Fits, TypesFit
        <5>2. p[r].ack = Item(pending[r]).ack
          BY <5>1 DEF Items
        <5>3. p[r] # None
          <6>1. TypeOK' /\ version' \in Versions
            BY <1>12, EnqueueRows DEF TypeOK
          <6>2. [Item(pending[r]).patch EXCEPT !.version = version'] \in Patches
            BY <5>1, <6>1 DEF Items, Patches
          <6>3. p[r] \in Items
            BY <5>1, <6>2 DEF Items
          <6> QED BY <6>3, Names
        <5> QED BY <5>2, <5>3 DEF AckIn, Item
      <4>4. \A s \in Rows : s # r => p[s] = pending[s]
        BY <4>1, Given
      <4> QED BY <4>2, <4>3, <4>4
    <3> QED BY <3>1, <3>2
  <2>3. \A s \in Rows : AckIn(pending[s]) \in {None, active[s]}
    BY <2>1, Given DEF Fits, AcksFit
  <2>4. Waiting(p) \ Spare(p) \subseteq Unsettled
    BY <2>2, <2>3 DEF Waiting, Spare, Unsettled, AckIn, Item
  <2> QED BY <1>10, <2>2, <2>4
<1>13. CASE ReplyError
  <2>1. PICK p, d : /\ Fit(p, d)
                    /\ p = [r \in Rows |->
                              IF r \in Back \ Behind
                              THEN [patch |-> Merge(flush.batch[r].patch, Queued(pending, r).patch),
                                    ack |-> IF AckOf(r) # None THEN AckOf(r) ELSE Live(r),
                                    fence |-> flush.batch[r].fence \/ Queued(pending, r).fence]
                              ELSE pending[r]]
    BY <1>13 DEF ReplyError
  <2>2. \A r \in Rows : r \in Back \ Behind =>
           p[r].ack = (IF AckOf(r) # None THEN AckOf(r) ELSE Live(r))
    BY <2>1
  <2>3. \A r \in Rows : r \notin Back \ Behind => p[r] = pending[r]
    BY <2>1
  <2>4. \A r \in Rows : Live(r) # None => Live(r) = active[r] /\ AckIn(pending[r]) = active[r]
    BY QueuedIs DEF Live, AckIn
  <2>5. \A r \in Waiting(p) \ Spare(p) :
           \/ r \in Awaited
           \/ pending[r] # None /\ AckIn(pending[r]) # None
              /\ (AckIn(pending[r]) = active[r] \/ r \in Stale)
    <3> SUFFICES ASSUME NEW r \in Waiting(p) \ Spare(p), r \notin Awaited
                 PROVE  AckIn(pending[r]) # None /\ (AckIn(pending[r]) = active[r] \/ r \in Stale)
      BY Nothing
    <3>1. r \in Rows /\ p[r] # None /\ p[r].ack # None
      BY DEF Waiting, Spare
    <3>2. CASE r \in Back \ Behind
      <4>1. AckOf(r) = None
        BY <3>2 DEF Back
      <4>2. Live(r) # None
        BY <2>2, <3>1, <3>2, <4>1
      <4> QED BY <2>4, <3>1, <4>2
    <3>3. CASE r \notin Back \ Behind
      <4>1. AckIn(pending[r]) # None
        BY <2>3, <3>1, <3>3 DEF AckIn, Item
      <4> QED BY <3>1, <4>1, StaleIs
    <3> QED BY <3>2, <3>3
  <2>6. CASE Stale = {}
    <3>1. Waiting(p) \ Spare(p) \subseteq Unsettled
      BY <2>5, <2>6 DEF Awaited, Batched, Unsettled, Waiting
    <3> QED BY <1>10, <2>1, <3>1
  <2>7. CASE Stale # {}
    <3>1. Awaited = {}
      BY <2>7 DEF IInv, StaleFirst
    <3>2. Waiting(p) \ Spare(p) \subseteq Waiting(pending)
      BY <2>5, <3>1 DEF Waiting
    <3> QED BY <1>11, <2>1, <3>2
  <2> QED BY <2>6, <2>7
<1> QED BY <1>4, <1>5, <1>6, <1>7, <1>8, <1>9, <1>12, <1>13, Touching

-----------------------------------------------------------------------------
(* The shutdown: what it has waited for is over. *)

\* A step that leaves stop() where it is keeps what is said of it.
LEMMA StopStays ==
    ASSUME IInv, stop'.at = stop.at, stop'.failed = stop.failed, stop'.awaits => stop.awaits,
           Over(stop) => \A r \in Rows : task'[r] = None,
           Over(stop) /\ stop.at \in {"final", "final_retry"} /\ ~stop'.awaits => flush'.at = "idle",
           Clean(stop) => NothingLeft',
           IsLate(stop) => \A r \in Rows : active'[r] \notin Outcomes
    PROVE  StopFits'
<1>1. /\ Over(stop') <=> Over(stop)
      /\ Clean(stop') <=> Clean(stop)
      /\ IsLate(stop') <=> IsLate(stop)
  BY DEF Over, Clean, IsLate
<1>2. stop.at \in {"reject", "last_join", "stopped"} => ~stop.awaits
  BY DEF IInv, StopFits
<1>3. stop.at \in {"final", "final_retry"} => Over(stop)
  BY DEF Over
<1> QED BY <1>1, <1>2, <1>3 DEF StopFits

\* Before the last drain nothing is said.
LEMMA StopBefore ==
    ASSUME stop'.at \in {"running", "drain", "retry", "join"}
    PROVE  StopFits'
<1>1. ~Over(stop') /\ ~Clean(stop') /\ ~IsLate(stop')
  BY DEF Over, Clean, IsLate
<1> QED BY <1>1 DEF StopFits

\* A rejection wakes a flush only for the task of a trace.
LEMMA RejectQuiet ==
    ASSUME IInv, NEW r \in Rows, Reject(r), task[r] = None
    PROVE  UNCHANGED flush
<1>1. active[r] \notin Traces
  BY Given DEF Fits, AcksFit
<1>2. Releasing({r}) = {}
  BY <1>1 DEF Releasing
<1> QED BY <1>2 DEF Reject

\* A rejection leaves no outcome waiting that was not.
LEMMA RejectSettles ==
    ASSUME IInv, NEW r \in Rows, Reject(r), IsLate(stop)
    PROVE  \A s \in Rows : active'[s] \notin Outcomes
<1>1. \A s \in Rows : active'[s] \in {active[s], None}
  BY DEF Reject, Settled
<1> QED BY <1>1, Names DEF IInv, StopFits

\* Steps of the requests and of other writers.
LEMMA StopKeptByRequests ==
    ASSUME IInv, NEW r \in Rows,
           \/ Enqueue(r) \/ Timeout(r) \/ CallbackEnds(r) \/ Delete(r)
           \/ (\E o \in Outcomes : Claim(r, o) \/ Finalize(r, o))
    PROVE  StopFits'
<1>1. CASE Enqueue(r) \/ (\E o \in Outcomes : Claim(r, o))
  <2>1. stop'.at = "running"
    BY <1>1 DEF Enqueue, Claim, Stopping
  <2> QED BY <2>1, StopBefore
<1>2. CASE CallbackEnds(r) \/ Delete(r) \/ (\E o \in Outcomes : Finalize(r, o))
  <2>1. UNCHANGED <<pending, deferred, active, flush, task, stop>>
    BY <1>2 DEF CallbackEnds, Delete, Finalize
  <2>2. StopFits
    BY DEF IInv
  <2> QED BY <2>1, <2>2 DEF StopFits, NothingLeft
<1>3. CASE Timeout(r)
  <2>1. Reject(r) /\ UNCHANGED <<task, stop>> /\ active[r] # None
    BY <1>3 DEF Timeout
  <2>2. ~Clean(stop)
    BY <2>1 DEF IInv, StopFits, NothingLeft
  <2>3. Over(stop) => \A s \in Rows : task[s] = None
    BY DEF IInv, StopFits
  <2>4. Over(stop) => UNCHANGED flush
    BY <2>1, <2>3, RejectQuiet
  <2>5. stop.at \in {"final", "final_retry"} /\ ~stop.awaits => flush.at = "idle"
    BY DEF IInv, StopFits
  <2> QED BY <2>1, <2>2, <2>3, <2>4, <2>5, RejectSettles, StopStays
<1> QED BY <1>1, <1>2, <1>3

\* Steps of a task, which exists only while stop() has not waited for it.
LEMMA StopKeptByTasks ==
    ASSUME IInv, NEW r \in Rows,
           TraceStep(r) \/ TraceFails(r) \/ (\E t \in Traces : TraceStart(r, t))
    PROVE  StopFits'
<1>1. ASSUME NEW t \in Traces, TraceStart(r, t)
      PROVE  StopFits'
  <2>1. stop'.at \in {"running", "drain", "retry", "join"}
    BY <1>1 DEF TraceStart, Stopping
  <2> QED BY <2>1, StopBefore
<1>2. CASE TraceStep(r) \/ TraceFails(r)
  <2>1. stop' = stop /\ task[r] # None
    BY <1>2 DEF TraceStep, TraceFails, TraceFlush, TraceEnqueue, TraceDrives, TraceGivesUp,
                TraceEnds, Running
  <2>2. ~Over(stop) /\ ~Clean(stop)
    BY <2>1 DEF IInv, StopFits, Over
  <2>3. IsLate(stop) => \A s \in Rows : active'[s] \notin Outcomes
    <3> SUFFICES ASSUME IsLate(stop) PROVE \A s \in Rows : active'[s] \notin Outcomes
      OBVIOUS
    <3>1. \A s \in Rows : active[s] \notin Outcomes
      BY DEF IInv, StopFits
    <3>2. CASE TraceEnqueue(r)
      <4>1. task[r].trace \in Traces /\ active' = [active EXCEPT ![r] = task[r].trace]
        BY <2>1, <3>2 DEF TraceEnqueue, Acknowledge, IInv, TypeOK, Tasks
      <4> QED BY <3>1, <4>1, Given, Names
    <3>3. CASE TraceGivesUp(r)
      BY <3>3, RejectSettles DEF TraceGivesUp
    <3>4. CASE TraceFlush(r) \/ TraceDrives(r) \/ TraceEnds(r) \/ TraceFails(r)
      <4>1. active' = active
        BY <3>4 DEF TraceFlush, TraceDrives, TraceEnds, TraceFails
      <4> QED BY <3>1, <4>1
    <3> QED BY <1>2, <3>2, <3>3, <3>4 DEF TraceStep
  <2> QED BY <2>1, <2>2, <2>3, StopStays
<1> QED BY <1>1, <1>2

\* Steps of the flush.
LEMMA StopKeptByFlush ==
    ASSUME IInv, TimerFires \/ TakeBatch \/ Drained \/ Execute \/ ReplyOk \/ ReplyError \/ Finish
    PROVE  StopFits'
<1>1. CASE TimerFires
  <2>1. stop'.at = "running"
    BY <1>1 DEF TimerFires, IInv, FlushFits, Stopping
  <2> QED BY <2>1, StopBefore
<1>2. CASE TakeBatch \/ Drained \/ Execute \/ ReplyOk \/ ReplyError \/ Finish
  <2>1. flush.at # "idle"
    BY <1>2 DEF TakeBatch, Drained, Execute, ReplyOk, ReplyError, Finish
  <2>2. ~Clean(stop)
    BY <2>1 DEF IInv, StopFits, NothingLeft
  <2>3. stop.at \in {"final", "final_retry"} => stop.awaits
    BY <2>1 DEF IInv, StopFits
  <2>4. \A s \in Rows : active'[s] \in {active[s], None}
    <3>1. CASE ReplyOk
      BY <3>1 DEF ReplyOk, Settled
    <3>2. CASE TakeBatch \/ Drained \/ Execute \/ ReplyError \/ Finish
      BY <3>2 DEF TakeBatch, Drained, Execute, ReplyError, Finish
    <3> QED BY <1>2, <3>1, <3>2
  <2>5. IsLate(stop) => \A s \in Rows : active'[s] \notin Outcomes
    BY <2>4, Names DEF IInv, StopFits
  <2>6. Over(stop) => \A s \in Rows : task[s] = None
    BY DEF IInv, StopFits
  <2>7. CASE Finish
    <3>1. /\ stop'.at = stop.at /\ stop'.failed = stop.failed /\ ~stop'.awaits
          /\ flush'.at = "idle"
          /\ \A s \in Rows : task[s] = None => task'[s] = None
      BY <2>7, Given DEF Finish, Stops, Flushes
    <3> QED BY <2>2, <2>5, <2>6, <3>1, StopStays
  <2>8. CASE TakeBatch \/ Drained \/ Execute \/ ReplyOk \/ ReplyError
    <3>1. stop' = stop /\ task' = task
      BY <2>8 DEF TakeBatch, Drained, Execute, ReplyOk, ReplyError
    <3> QED BY <2>2, <2>3, <2>5, <2>6, <3>1, StopStays
  <2> QED BY <1>2, <2>7, <2>8
<1> QED BY <1>1, <1>2

\* When nothing is queued, in the batch or held by a task, nothing is left.
LEMMA NothingIsLeft ==
    ASSUME IInv, Waiting(pending) = {}, flush.at = "idle", \A r \in Rows : task[r] = None
    PROVE  NothingLeft
<1>1. ASSUME NEW r \in Rows
      PROVE  pending[r] = None /\ deferred[r] = 0 /\ active[r] = None
  <2>1. pending[r] = None /\ flush.batch[r] = None
    BY DEF Waiting, IInv, FlushFits, NoBatch
  <2>2. AckIn(pending[r]) = None /\ AckIn(flush.batch[r]) = None
    BY <2>1, Nothing
  <2> QED BY <2>1, <2>2, Given DEF Fits, AcksFit
<1> QED BY <1>1 DEF NothingLeft

\* Steps of stop() itself.
LEMMA StopKeptByStop ==
    ASSUME IInv, StopStep
    PROVE  StopFits'
<1>1. ASSUME StopDrains
      PROVE  StopFits'
  <2>1. UNCHANGED <<pending, deferred, active, task>>
    BY <1>1, StopDrainsIs
  <2>2. CASE StopBegins \/ StopRetries("drain", "retry") \/ StopDrained("drain", "retry", "join")
    <3>1. stop'.at \in {"running", "drain", "retry", "join"}
      BY <2>2 DEF StopBegins, StopRetries, StopFlushes, StopDrained, StopGoes
    <3> QED BY <3>1, StopBefore
  <2>3. ASSUME StopFlushes("final") \/ StopFlushes("final_retry"), \A r \in Rows : task[r] = None
        PROVE  StopFits'
    <3>1. stop'.at \in {"final", "final_retry"} /\ stop'.awaits
      BY <2>3 DEF StopFlushes
    <3>2. ~Clean(stop') /\ ~IsLate(stop')
      BY <3>1 DEF Clean, IsLate
    <3> QED BY <2>1, <2>3, <3>1, <3>2 DEF StopFits
  <2>4. CASE StopJoins
    <3>1. CASE StopGoes("reject", TRUE)
      <4>1. stop'.at = "reject" /\ stop'.failed /\ ~stop'.awaits
        BY <3>1 DEF StopGoes
      <4>2. ~Over(stop') /\ ~Clean(stop') /\ ~IsLate(stop')
        BY <4>1 DEF Over, Clean, IsLate
      <4> QED BY <4>1, <4>2 DEF StopFits
    <3>2. CASE Joined /\ StopFlushes("final")
      BY <2>3, <3>2 DEF Joined
    <3> QED BY <2>4, <3>1, <3>2 DEF StopJoins
  <2>5. CASE StopRetries("final", "final_retry")
    <3>1. StopFlushes("final_retry") /\ stop.at = "final"
      BY <2>5 DEF StopRetries
    <3> QED BY <2>3, <3>1 DEF IInv, StopFits, Over
  <2>6. CASE StopDrained("final", "final_retry", "reject")
    <3>1. /\ stop.at \in {"final", "final_retry"} /\ ~stop.awaits
          /\ stop'.at = "reject" /\ stop'.failed = (Waiting(pending) # {}) /\ ~stop'.awaits
          /\ UNCHANGED flush
      BY <2>6 DEF StopDrained, StopGoes
    <3>2. flush.at = "idle" /\ \A r \in Rows : task[r] = None
      BY <3>1 DEF IInv, StopFits, Over
    <3>3. Clean(stop') => Waiting(pending) = {}
      BY <3>1 DEF Clean
    <3>4. Clean(stop') => NothingLeft
      BY <3>2, <3>3, NothingIsLeft
    <3>5. ~IsLate(stop')
      BY <3>1 DEF IsLate
    <3> QED BY <2>1, <3>1, <3>2, <3>4, <3>5 DEF StopFits, NothingLeft
  <2> QED BY <1>1, <2>2, <2>4, <2>5, <2>6 DEF StopDrains
<1>2. ASSUME StopRejects
      PROVE  StopFits'
  <2>1. /\ stop.at = "reject" /\ stop'.at = "last_join" /\ stop'.failed = stop.failed /\ ~stop'.awaits
        /\ task' = task /\ pending' = Release(pending, Unsettled) /\ deferred' = Kept(Unsettled)
        /\ active' = Settled(Unsettled)
    BY <1>2 DEF StopRejects, StopGoes
  <2>2. \A r \in Rows : active'[r] = None
    BY <2>1 DEF Settled, Unsettled
  <2>3. Clean(stop') = Clean(stop) /\ (Over(stop') => Over(stop))
    BY <2>1 DEF Clean, Over
  <2>4. Clean(stop) => NothingLeft'
    <3> SUFFICES ASSUME Clean(stop) PROVE NothingLeft'
      OBVIOUS
    <3>1. NothingLeft
      BY DEF IInv, StopFits
    <3>2. Releasing(Unsettled) = {} /\ Unsettled \in SUBSET Rows
      BY <3>1 DEF NothingLeft, Unsettled, Releasing
    <3>3. UNCHANGED <<pending, deferred, flush>>
      BY <1>2, <2>1, <3>2, NothingReleased DEF StopRejects, IInv, TypeOK
    <3> QED BY <2>2, <3>1, <3>3 DEF NothingLeft
  <2>5. Over(stop) => \A r \in Rows : task[r] = None
    BY DEF IInv, StopFits
  <2> QED BY <2>1, <2>2, <2>3, <2>4, <2>5, Names DEF StopFits
<1>3. ASSUME StopEnds
      PROVE  StopFits'
  <2>1. /\ stop'.at = "stopped" /\ ~stop'.awaits /\ UNCHANGED <<active, task>>
        /\ \A r \in Rows : task[r] = None
    BY <1>3 DEF StopEnds, StopGoes, Joined
  <2>2. \A r \in Rows : active[r] = None
    BY <1>3, NobodyWaits
  <2>3. ~Clean(stop')
    BY <2>1 DEF Clean
  <2> QED BY <2>1, <2>2, <2>3, Names DEF StopFits
<1> QED BY <1>1, <1>2, <1>3 DEF StopStep

\* Every step keeps what is said of the shutdown.
LEMMA StopKept ==
    ASSUME IInv, [Next]_vars
    PROVE  StopFits'
<1>1. CASE UNCHANGED vars
  <2>1. StopFits
    BY DEF IInv
  <2> QED BY <1>1, <2>1 DEF vars, StopFits, NothingLeft
<1> QED BY <1>1, StopKeptByRequests, StopKeptByTasks, StopKeptByFlush, StopKeptByStop DEF Next

-----------------------------------------------------------------------------
(* The invariant, and the theorems. *)

\* It holds in the initial state.
LEMMA InitIInv == Init => IInv
<1> SUFFICES ASSUME Init PROVE IInv
  OBVIOUS
<1>1. flush = [at |-> "idle", batch |-> NoBatch, again |-> FALSE, wrote |-> None]
      /\ stop = [at |-> "running", failed |-> FALSE, awaits |-> FALSE] /\ timer = FALSE
  BY DEF Init
<1>2. TypeOK
  <2>1. flush \in Flushes /\ stop \in Stops
    <3>1. NoBatch \in [Rows -> Items \cup {None}]
      BY DEF NoBatch
    <3> QED BY <1>1, <3>1 DEF Flushes, Stops
  <2>2. 0 \in Versions /\ 0 \in 0..MaxTrace
    BY Names DEF Versions
  <2> QED BY <2>1, <2>2 DEF Init, TypeOK
<1>3. RowsFit
  <2> SUFFICES ASSUME NEW r \in Rows
               PROVE  Fits(row[r], flush.batch[r], pending[r], deferred[r], active[r], task[r],
                           used[r], version, stop)
    BY DEF RowsFit
  <2>1. PICK w : w = [status |-> None, version |-> 0, trace |-> 0, deleted |-> FALSE]
    OBVIOUS
  <2>2. /\ row[r] = w /\ flush.batch[r] = None /\ pending[r] = None /\ deferred[r] = 0
        /\ active[r] = None /\ task[r] = None /\ used[r] = {} /\ version = 0
    BY <1>1, <2>1 DEF Init, NoBatch
  <2>3. w \in RowStates /\ w.version = 0 /\ w.trace = 0 /\ 0 \in Versions
    BY <2>1, Names DEF RowStates, Versions
  <2>4. TypesFit(w, None, None, 0, None, None, {}, 0)
    BY <2>3 DEF TypesFit
  <2>5. ItemFits(None) /\ AcksFit(None, None, 0, None, None, stop)
    BY Nothing, Names DEF ItemFits, AcksFit
  <2>6. UsedFit(w, None, None, {}) /\ TaskFits(w, None, None, None, None, {})
    BY <2>3, Nothing DEF UsedFit, TaskFits
  <2>7. AgesFit(w, None, None, 0, 0)
    BY <2>3, Nothing DEF AgesFit, Aging
  <2> QED BY <2>2, <2>4, <2>5, <2>6, <2>7 DEF Fits
<1>4. FlushFits /\ NoLostFlush
  BY <1>1 DEF FlushFits, NoLostFlush, Init, Waiting
<1>5. Stale = {} /\ Unsettled = {} /\ Waiting(pending) = {} /\ Held(deferred) = {}
  BY DEF Init, Stale, Unsettled, Waiting, Held
<1>6. StaleFirst /\ UnsettledBounded /\ QueueBounded
  BY <1>5, FS_EmptySet, Names DEF StaleFirst, UnsettledBounded, QueueBounded
<1>7. AckHonest /\ WroteFits
  BY <1>1 DEF Init, AckHonest, WroteFits
<1>8. StopFits
  <2>1. ~Over(stop) /\ ~Clean(stop) /\ ~IsLate(stop)
    BY <1>1 DEF Over, Clean, IsLate
  <2> QED BY <1>1, <2>1 DEF StopFits
<1> QED BY <1>2, <1>3, <1>4, <1>6, <1>7, <1>8 DEF IInv

\* And every step keeps it.
LEMMA Invariance == IInv /\ [Next]_vars => IInv'
BY RowsKept, FlushKept, StaleKept, UnsettledKept, QueueKept, AcksKept, WroteKept, StopKept DEF IInv

\* So it holds in every reachable state, whatever the fairness.
LEMMA Reachable == Spec => []IInv
BY InitIInv, Invariance, PTL DEF Spec

\* The table, the queue, the batch, tasks and shutdown have their types: no update
\* without a task's trace, no patch or acknowledgement the statement cannot take.
THEOREM BufferTypes == Spec => []TypeOK
<1>1. IInv => TypeOK
  BY DEF IInv
<1> QED BY <1>1, Reachable, PTL

\* A caller told that its update committed finds it in the table, for any number of
\* callers, claims, time-outs and batches that fail.
THEOREM AcknowledgementsAreHonest == Spec => []AckHonest
<1>1. IInv => AckHonest
  BY DEF IInv
<1> QED BY <1>1, Reachable, PTL

\* An acknowledgement that is waited for is queued or in the batch, and an update is
\* held back only behind a trace that is waited for.
THEOREM NoAcknowledgementIsStranded == Spec => []NothingStranded
<1>1. IInv => NothingStranded
  <2> SUFFICES ASSUME IInv, NEW r \in Rows
               PROVE  /\ active[r] # None => \/ Queued(pending, r).ack = active[r]
                                             \/ Queued(flush.batch, r).ack = active[r]
                      /\ deferred[r] # 0 => active[r] \in Traces
    BY DEF NothingStranded
  <2>1. /\ active[r] # None => active[r] \in {AckIn(pending[r]), AckIn(flush.batch[r])}
        /\ deferred[r] # 0 => active[r] \in Traces
    BY Given DEF Fits, AcksFit
  <2> QED BY <2>1, QueuedIs DEF AckIn
<1> QED BY <1>1, Reachable, PTL

\* An update acknowledged as a trace writes nothing but the trace, whatever it was
\* merged with on its way.
THEOREM TracesTravelAlone == Spec => []TraceIsolated
<1>1. ASSUME NEW q \in Items \cup {None}, ItemFits(q)
      PROVE  TraceOnly(q)
  <2> SUFFICES ASSUME q # None, q.ack \in Traces
               PROVE  q.patch = [NoPatch EXCEPT !.trace = q.ack]
    BY DEF TraceOnly
  <2>1. /\ Item(q) = q /\ q.patch \in Patches /\ q.ack \notin Outcomes
    BY Names DEF Item, Items
  <2>2. q.patch.status = None /\ q.patch.version = 0 /\ q.patch.trace = q.ack
    BY <1>1, <2>1 DEF ItemFits, Status, Ver, Tr, AckIn
  <2>3. q.patch = [version |-> 0, status |-> None, trace |-> q.ack]
    BY <2>1, <2>2 DEF Patches
  <2> QED BY <2>3 DEF NoPatch
<1>2. IInv => TraceIsolated
  <2> SUFFICES ASSUME IInv, NEW r \in Rows
               PROVE  TraceOnly(pending[r]) /\ TraceOnly(flush.batch[r])
    BY DEF TraceIsolated
  <2> QED BY <1>1, Given DEF Fits, TypesFit
<1> QED BY <1>2, Reachable, PTL

\* What waits never exceeds the limit, the updates held back included: eviction,
\* the bound on acknowledgements and the order of the queue keep it together.
THEOREM QueueIsBounded == Spec => []QueueBounded
<1>1. IInv => QueueBounded
  BY DEF IInv
<1> QED BY <1>1, Reachable, PTL

\* Whatever waits has a flush coming.
THEOREM NoFlushIsLost == Spec => []NoLostFlush
<1>1. IInv => NoLostFlush
  BY DEF IInv
<1> QED BY <1>1, Reachable, PTL

\* The first outcome a row is given stands.
THEOREM FirstOutcomeWins == Spec => FirstOutcomeStands
<1>1. IInv /\ [Next]_vars =>
         \A r \in Rows : row[r].status # None => row'[r].status = row[r].status
  BY TableKept
<1> QED BY <1>1, Reachable, PTL DEF Spec, FirstOutcomeStands

\* A shutdown that reports no error has nothing left to discard.
THEOREM ShutdownIsClean == Spec => CleanStop
<1>1. IInv /\ StopEnds /\ ~stop.failed =>
         Waiting(pending) = {} /\ Held(deferred) = {} /\ Batched = {}
  <2> SUFFICES ASSUME IInv, StopEnds, ~stop.failed
               PROVE  Waiting(pending) = {} /\ Held(deferred) = {} /\ Batched = {}
    OBVIOUS
  <2>1. NothingLeft
    BY DEF StopEnds, IInv, StopFits, Clean
  <2> QED BY <2>1 DEF NothingLeft, IInv, FlushFits, NoBatch, Waiting, Held, Batched
<1>2. IInv => (StopEnds /\ ~stop.failed =>
                  Waiting(pending) = {} /\ Held(deferred) = {} /\ Batched = {})
  BY <1>1
<1> QED BY <1>2, Reachable, PTL DEF CleanStop

\* What is queued or held back for a row either goes or is replaced by something no older.
Aged(p, p2, d, d2) == /\ p # None /\ p2 # None => Ver(p2) >= Ver(p)
                      /\ d2 # 0 => d2 >= d

\* What a step may do to the versions of what is queued and held back for a row.
LEMMA QueueAges ==
    ASSUME IInv, [Next]_vars, NEW r \in Rows
    PROVE  Aged(pending[r], pending'[r], deferred[r], deferred'[r])
<1>1. /\ pending[r] \in Items \cup {None} /\ Ver(pending[r]) \in Nat /\ deferred[r] \in Nat
      /\ version \in Nat /\ Ver(pending[r]) <= version /\ deferred[r] <= version
      /\ deferred[r] # 0 => Ver(pending[r]) <= deferred[r]
      /\ deferred[r] \in Versions
  BY Given, Parts, Names DEF Fits, TypesFit, AgesFit, Versions
<1>2. ASSUME pending'[r] \in {pending[r], None}, deferred'[r] \in {deferred[r], 0}
      PROVE  Aged(pending[r], pending'[r], deferred[r], deferred'[r])
  BY <1>1, <1>2 DEF Aged
<1>3. ASSUME NEW p, NEW d, Fit(p, d), Ver(p[r]) \in Nat, Ver(p[r]) >= Ver(pending[r]),
             d[r] \in Nat, d[r] >= deferred[r] \/ d[r] = 0
      PROVE  Aged(pending[r], pending'[r], deferred[r], deferred'[r])
  <2>1. pending'[r] \in {p[r], None} /\ deferred'[r] \in {d[r], 0}
    BY <1>3, FitIs
  <2> QED BY <1>1, <1>3, <2>1 DEF Aged
<1>4. ASSUME NEW p, p[r] \in {pending[r], None}, NEW rs \in SUBSET Rows,
             pending' = Release(p, rs), deferred' = Kept(rs)
      PROVE  Aged(pending[r], pending'[r], deferred[r], deferred'[r])
  <2>1. /\ pending'[r] = IF r \in rs THEN Released(p[r], deferred[r], active[r]) ELSE p[r]
        /\ deferred'[r] = IF r \in rs THEN KeptBack(deferred[r], active[r]) ELSE deferred[r]
    BY <1>4, ReleaseIs DEF IInv
  <2>2. deferred'[r] \in {deferred[r], 0}
    BY <2>1 DEF KeptBack
  <2>3. CASE r \in rs /\ active[r] \in Traces /\ deferred[r] # 0
    <3>1. p[r] \in Items \cup {None} /\ deferred[r] \in Versions \ {0}
      BY <1>1, <1>4, <2>3
    <3>2. Ver(Released(p[r], deferred[r], active[r])) = deferred[r]
      BY <2>3, <3>1, ReleasedIs
    <3>3. Ver(pending'[r]) = deferred[r]
      BY <2>1, <2>3, <3>2
    <3>4. Ver(pending'[r]) >= Ver(pending[r])
      BY <1>1, <2>3, <3>3
    <3> QED BY <1>1, <2>2, <3>4 DEF Aged
  <2>4. CASE ~(r \in rs /\ active[r] \in Traces /\ deferred[r] # 0)
    <3>1. pending'[r] = p[r]
      BY <2>1, <2>4 DEF Released
    <3> QED BY <1>2, <1>4, <2>2, <3>1
  <2> QED BY <2>3, <2>4
<1>5. CASE UNCHANGED <<pending, deferred>>
  <2>1. pending'[r] \in {pending[r], None} /\ deferred'[r] \in {deferred[r], 0}
    BY <1>5
  <2> QED BY <1>2, <2>1
<1>6. ASSUME NEW s \in Rows, Enqueue(s)
      PROVE  Aged(pending[r], pending'[r], deferred[r], deferred'[r])
  <2>1. version' \in Nat /\ version' = version + 1
    BY <1>1, <1>6 DEF Enqueue
  <2>2. CASE Defers(s)
    <3>1. PICK d : d = [deferred EXCEPT ![s] = version']
      OBVIOUS
    <3>2. Fit(pending, d) /\ d[r] \in {deferred[r], version'}
      BY <1>6, <2>2, <3>1, Given DEF Enqueue
    <3> QED BY <1>1, <1>3, <2>1, <3>2
  <2>3. CASE ~Defers(s)
    <3>1. PICK p : p = [pending EXCEPT ![s] = [Queued(pending, s) EXCEPT !.patch.version = version']]
      OBVIOUS
    <3>2. Fit(p, deferred)
      BY <1>6, <2>3, <3>1 DEF Enqueue
    <3>3. Ver(p[r]) \in {Ver(pending[r]), version'}
      <4>1. CASE r # s
        BY <3>1, <4>1, Given
      <4>2. CASE r = s
        <5>1. /\ p[r] = [Item(pending[r]) EXCEPT !.patch.version = version']
              /\ Item(pending[r]) \in Items
          BY <1>1, <3>1, <4>2, Given, QueuedIs, Parts
        <5>2. version' \in Versions
          BY <1>6, EnqueueRows DEF TypeOK
        <5>3. [Item(pending[r]).patch EXCEPT !.version = version'] \in Patches
              /\ [Item(pending[r]).patch EXCEPT !.version = version'].version = version'
          BY <5>1, <5>2 DEF Items, Patches
        <5>4. p[r] \in Items /\ p[r].patch.version = version'
          BY <5>1, <5>3 DEF Items
        <5> QED BY <5>4, Names DEF Ver, Item
      <4> QED BY <4>1, <4>2
    <3> QED BY <1>1, <1>3, <2>1, <3>2, <3>3
  <2> QED BY <2>2, <2>3
<1>7. ASSUME NEW s \in Rows, NEW o \in Outcomes, Claim(s, o)
      PROVE  Aged(pending[r], pending'[r], deferred[r], deferred'[r])
  <2>1. version' \in Nat /\ version' = version + 1 /\ version' \in Versions
    <3>1. TypeOK'
      BY <1>7, ClaimRows
    <3>2. version' \in Versions
      BY <3>1 DEF TypeOK
    <3>3. version' = version + 1
      BY <1>7 DEF Claim
    <3> QED BY <1>1, <3>2, <3>3
  <2>2. PICK new : new = [version |-> version', status |-> o, trace |-> 0]
    OBVIOUS
  <2>3. PICK q : q = [patch |-> Merge(Queued(pending, s).patch, new), ack |-> o, fence |-> FALSE]
    OBVIOUS
  <2>4. PICK p : p = [pending EXCEPT ![s] = q]
    OBVIOUS
  <2>5. Fit(p, deferred)
    BY <1>7, <2>2, <2>3, <2>4 DEF Claim, Acknowledge
  <2>6. CASE r # s
    <3>1. p[r] = pending[r]
      BY <2>4, <2>6, Given
    <3> QED BY <1>1, <1>3, <2>5, <3>1
  <2>7. CASE r = s
    <3>1. /\ Item(pending[r]).patch \in Patches /\ new \in Patches /\ new.version = version'
          /\ version' # 0
      BY <1>1, <2>1, <2>2, Parts, Names DEF Patches
    <3>2. PICK patch \in Patches : patch = Merge(Item(pending[r]).patch, new) /\ patch.version = version'
      BY <3>1, Merged
    <3>3. p[r] = [patch |-> patch, ack |-> o, fence |-> FALSE]
      BY <2>3, <2>4, <2>7, <3>2, Given, QueuedIs
    <3>4. Ver(p[r]) = version'
      BY <3>2, <3>3, Made, Names DEF Acks
    <3> QED BY <1>1, <1>3, <2>1, <2>5, <3>4
  <2> QED BY <2>6, <2>7
<1>8. ASSUME NEW s \in Rows, TraceEnqueue(s)
      PROVE  Aged(pending[r], pending'[r], deferred[r], deferred'[r])
  <2>1. PICK q : q = [patch |-> Merge(Queued(pending, s).patch, [NoPatch EXCEPT !.trace = task[s].trace]),
                      ack |-> task[s].trace, fence |-> FALSE]
    OBVIOUS
  <2>2. PICK p : p = [pending EXCEPT ![s] = q]
    OBVIOUS
  <2>3. Fit(p, deferred) /\ pending[s] = None
    BY <1>8, <2>1, <2>2 DEF TraceEnqueue, Acknowledge
  <2>4. CASE r # s
    <3>1. p[r] = pending[r]
      BY <2>2, <2>4, Given
    <3> QED BY <1>1, <1>3, <2>3, <3>1
  <2>5. CASE r = s
    <3>1. deferred'[r] \in {deferred[r], 0}
      BY <2>3, FitIs
    <3> QED BY <1>1, <2>3, <2>5, <3>1 DEF Aged
  <2> QED BY <2>4, <2>5
<1>9. ASSUME NEW s \in Rows, Reject(s)
      PROVE  Aged(pending[r], pending'[r], deferred[r], deferred'[r])
  <2>1. PICK p : p = IF Queued(pending, s).ack = active[s]
                     THEN [pending EXCEPT ![s] = None] ELSE pending
    OBVIOUS
  <2>2. p[r] \in {pending[r], None}
    BY <2>1, Given
  <2>3. pending' = Release(p, {s}) /\ deferred' = Kept({s})
    BY <1>9, <2>1 DEF Reject
  <2> QED BY <1>4, <2>2, <2>3
<1>10. CASE TakeBatch
  <2>1. pending'[r] \in {pending[r], None} /\ deferred'[r] \in {deferred[r], 0}
    BY <1>10, Given DEF TakeBatch
  <2> QED BY <1>2, <2>1
<1>11. CASE StopEnds
  <2>1. pending'[r] \in {pending[r], None} /\ deferred'[r] \in {deferred[r], 0}
    BY <1>11 DEF StopEnds
  <2> QED BY <1>2, <2>1
<1>12. CASE ReplyOk \/ StopRejects
  <2>1. PICK rs \in SUBSET Rows : pending' = Release(pending, rs) /\ deferred' = Kept(rs)
    BY <1>12 DEF ReplyOk, StopRejects, Awaited, Batched, Unsettled
  <2>2. pending[r] \in {pending[r], None}
    OBVIOUS
  <2> QED BY <1>4, <2>1, <2>2
<1>13. CASE ReplyError
  <2> DEFINE b == flush.batch[r]
  <2>1. PICK p, d : /\ Fit(p, d)
                    /\ p[r] = IF r \in Back \ Behind
                              THEN [patch |-> Merge(b.patch, Queued(pending, r).patch),
                                    ack |-> IF AckOf(r) # None THEN AckOf(r) ELSE Live(r),
                                    fence |-> b.fence \/ Queued(pending, r).fence]
                              ELSE pending[r]
                    /\ d[r] = IF r \in Behind /\ deferred[r] = 0 THEN b.patch.version ELSE deferred[r]
    BY <1>13 DEF ReplyError
  <2>2. /\ b \in Items \cup {None} /\ Ver(b) \in Nat /\ Item(b).patch \in Patches
        /\ Item(pending[r]).patch \in Patches /\ AckIn(b) \in Acks \cup {None}
        /\ active[r] \in Acks \cup {None}
    BY <1>1, Given, Parts DEF Fits, TypesFit
  <2>3. r \in Back => b # None /\ Item(b) = b /\ AckOf(r) = AckIn(b)
    BY DEF Back, Batched, Awaited, Item, AckOf, AckIn
  <2>4. d[r] \in Nat /\ (d[r] >= deferred[r] \/ d[r] = 0)
    <3>1. r \in Behind => b.patch.version = Ver(b)
      BY <2>3 DEF Behind, Ver
    <3> QED BY <1>1, <2>1, <2>2, <3>1
  <2>5. Ver(p[r]) \in Nat /\ Ver(p[r]) >= Ver(pending[r])
    <3>1. CASE r \notin Back \ Behind
      BY <1>1, <2>1, <3>1
    <3>2. CASE r \in Back \ Behind
      <4>1. PICK patch \in Patches :
              /\ patch = Merge(Item(b).patch, Item(pending[r]).patch)
              /\ patch.version = (IF Ver(pending[r]) # 0 THEN Ver(pending[r]) ELSE Ver(b))
        BY <2>2, Merged DEF Ver
      <4>2. PICK ack \in Acks \cup {None}, fence \in BOOLEAN :
              p[r] = [patch |-> patch, ack |-> ack, fence |-> fence]
        <5>1. PICK ack : ack = IF AckOf(r) # None THEN AckOf(r) ELSE Live(r)
          OBVIOUS
        <5>2. PICK fence \in BOOLEAN : fence = (b.fence \/ Queued(pending, r).fence)
          OBVIOUS
        <5>3. ack \in Acks \cup {None}
          BY <2>2, <2>3, <3>2, <5>1 DEF Live
        <5> QED BY <2>1, <2>3, <3>2, <4>1, <5>1, <5>2, <5>3, QueuedIs
      <4>3. Ver(p[r]) = patch.version
        BY <4>2, Made
      <4> QED BY <1>1, <2>2, <4>1, <4>3
    <3> QED BY <3>1, <3>2
  <2> QED BY <1>3, <2>1, <2>4, <2>5
<1> QED BY <1>5, <1>6, <1>7, <1>8, <1>9, <1>10, <1>11, <1>12, <1>13, Touching

\* An update gives way only to a newer one of its row, or is dropped.
THEOREM NewerUpdatesWin == Spec => NewerWins
<1>1. ASSUME IInv, [Next]_vars, NEW r \in Rows
      PROVE  /\ row'[r].version >= row[r].version /\ row'[r].trace >= row[r].trace
             /\ pending[r] # None /\ pending'[r] # None
                   => pending'[r].patch.version >= pending[r].patch.version
             /\ deferred'[r] # 0 => deferred'[r] >= deferred[r]
  <2>1. row[r].version <= row'[r].version /\ row[r].trace <= row'[r].trace
    BY <1>1, TableKept
  <2>2. /\ row[r].version \in Nat /\ row'[r].version \in Nat
        /\ row[r].trace \in Nat /\ row'[r].trace \in Nat
    BY <1>1, RowsKept, Names DEF IInv, TypeOK, Versions
  <2>3. \A q : q # None => Ver(q) = q.patch.version
    BY DEF Ver, Item
  <2> QED BY <1>1, <2>1, <2>2, <2>3, QueueAges DEF Aged
<1>2. IInv /\ [Next]_vars =>
         \A r \in Rows :
            /\ row'[r].version >= row[r].version /\ row'[r].trace >= row[r].trace
            /\ pending[r] # None /\ pending'[r] # None
                  => pending'[r].patch.version >= pending[r].patch.version
            /\ deferred'[r] # 0 => deferred'[r] >= deferred[r]
  BY <1>1
<1> QED BY <1>2, Reachable, PTL DEF Spec, NewerWins

=============================================================================
