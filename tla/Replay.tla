------------------------------- MODULE Replay -------------------------------
(***************************************************************************)
(* The replay of a response to later requests with the same body, for one  *)
(* replay id.  The first request claims the id under a lease in Redis and  *)
(* writes what its client sees, chunk by chunk, into a list; a second one  *)
(* follows the list while it grows, or is served from it, or from Postgres *)
(* once the response is complete and billed.                               *)
(*                                                                         *)
(* Every Redis script, query and statement is an action; what a process    *)
(* does between two of them is part of the next.  An answer that is lost   *)
(* leaves the effect and looks like Redis being away.  A request is its    *)
(* own owner token, and its id is the generation of what it writes.        *)
(***************************************************************************)
EXTENDS Naturals, Sequences, SequencesExt

CONSTANTS
    Requests,
    Words,          \* what a chunk may hold
    Says,           \* the response each request would get from upstream, in chunks
    Lease,          \* ticks an owner's lease lasts unless renewed
    Hot,            \* ticks the entry stays in Redis unless renewed
    Page,           \* chunks read at a time
    None

ASSUME RequestsAssumption == None \notin Requests
ASSUME SaysAssumption == /\ Says \in [Requests -> Seq(Words)]
                         /\ \A r \in Requests : Says[r] # <<>>
ASSUME TimesAssumption == Lease \in Nat \ {0} /\ Hot \in Nat /\ Lease < Hot
ASSUME PageAssumption == Page \in Nat \ {0}

VARIABLES
    owner,  \* cch:replay:owner, a lease: the token and its remaining ticks
    meta,   \* cch:replay:meta
    list,   \* cch:replay:chunks
    row,    \* the row of replay_payloads
    req     \* what each request is doing

vars == <<owner, meta, list, row, req>>

Statuses == {"owning", "completed", "aborted"}

Owners == [token : Requests, ttl : 1..Lease]
\* A meta without a generation is left by an owner that never made a spool.
Metas == [status : Statuses, gen : Requests \cup {None}, count : Nat, ttl : 1..Hot]
Lists == [text : Seq(Words), ttl : 1..Hot]
Rows == [text : Seq(Words), source : Requests]

\* A request in the guard: whether it saw an owner at work, and whether it won the lease.
Guards == [at : {"new", "claim", "lookup", "prepare"}, bypass : BOOLEAN,
           rival : BOOLEAN, claimed : BOOLEAN]
\* An owner's spool: whether its meta is written, whether it lost the lease, the
\* chunks handed to a write, chunkCount, and the payload.
Spools == [at : {"open", "completing", "rebuild", "persist", "publish"},
           begun : BOOLEAN, halted : BOOLEAN, sent : Nat, count : Nat,
           text : Seq(Words)]
\* A subscriber: what it sent its client, and chunkCount once it knows it.
Readers == [at : {"first", "read", "peek", "durable", "gone", "serve", "closed", "errored"},
            gen : Requests, out : Seq(Words), count : Nat \cup {None}]
\* An owner without spool, one that gives up, and any that is done.  `gen` is what
\* its aborted meta will say, `again` whether it then releases the lease as well.
Others == [at : {"owner", "seal", "discard", "unclaim", "done"}, gen : Requests \cup {None},
           again : BOOLEAN]

States == Guards \cup Spools \cup Readers \cup Others

ASSUME NoneAssumption == None \notin Owners \cup Metas \cup Lists \cup Rows \cup Nat

TypeOK ==
    /\ owner \in Owners \cup {None}
    /\ meta \in Metas \cup {None}
    /\ list \in Lists \cup {None}
    /\ row \in Rows \cup {None}
    /\ req \in [Requests -> States]

Guard(at, bypass, rival) ==
    [at |-> at, bypass |-> bypass, rival |-> rival, claimed |-> FALSE]
Reader(at, gen, out, count) == [at |-> at, gen |-> gen, out |-> out, count |-> count]
Other(at, gen, again) == [at |-> at, gen |-> gen, again |-> again]
Done == Other("done", None, FALSE)
Unclaim == Other("unclaim", None, FALSE)

Init ==
    /\ owner = None
    /\ meta = None
    /\ list = None
    /\ row = None
    /\ req = [r \in Requests |-> Guard("new", FALSE, FALSE)]

At(r, stages) == req[r].at \in stages
Become(r, state) == req' = [req EXCEPT ![r] = state]

-----------------------------------------------------------------------------
(* The scripts of replay-store.ts: each does nothing without the token. *)

Holds(r) == owner # None /\ owner.token = r
Text == IF list = None THEN <<>> ELSE list.text
Completed == meta # None /\ meta.status = "completed"
Fresh == meta.ttl = Hot             \* the heartbeat is younger than ATTACH_STALL_MS

Renewed(r) == [token |-> r, ttl |-> Lease]
Meta(status, gen, count) == [status |-> status, gen |-> gen, count |-> count, ttl |-> Hot]

\* Mutant: a stale owner writes all the same.
WriteUnfenced(r, batch, count) ==
    /\ list' = IF batch = <<>> THEN list ELSE [text |-> Text \o batch, ttl |-> Hot]
    /\ meta' = Meta("owning", r, count)
    /\ owner' = Renewed(r)

\* LUA_WRITE_OWNED: append, publish the meta, renew the lease.
WriteOwned(r, batch, count) ==
    /\ Holds(r)
    /\ list' = IF batch = <<>> THEN list ELSE [text |-> Text \o batch, ttl |-> Hot]
    /\ meta' = Meta("owning", r, count)
    /\ owner' = Renewed(r)

\* LUA_HEARTBEAT_OWNED: renew all three keys.
HeartbeatOwned(r) ==
    /\ Holds(r) /\ meta # None
    /\ meta' = [meta EXCEPT !.ttl = Hot]
    /\ list' = IF list = None THEN None ELSE [list EXCEPT !.ttl = Hot]
    /\ owner' = Renewed(r)

\* LUA_PREPARE_OWNED
PrepareOwned(r) ==
    /\ Holds(r)
    /\ meta' = None
    /\ list' = None
    /\ owner' = Renewed(r)

\* LUA_ABORT_OWNED
AbortOwned(r, gen) ==
    /\ Holds(r)
    /\ meta' = Meta("aborted", gen, 0)
    /\ list' = None
    /\ owner' = None

\* LUA_DISCARD_OWNED
DiscardOwned(r) ==
    /\ Holds(r)
    /\ meta' = None
    /\ list' = None
    /\ owner' = None

\* LUA_COMPLETE_OWNED
CompleteOwned(r, count) ==
    /\ Holds(r)
    /\ meta' = Meta("completed", r, count)
    /\ owner' = None
    /\ UNCHANGED list

\* LUA_COMPARE_DELETE
ReleaseOwner(r) ==
    /\ Holds(r)
    /\ owner' = None
    /\ UNCHANGED <<meta, list>>

Untouched == UNCHANGED <<owner, meta, list>>

Least(m, n) == IF m < n THEN m ELSE n

\* LUA_READ_GENERATION, of at most Page chunks up to the position `last`; the list
\* may have expired before the meta.
Chunks(from, last) == SubSeq(Text, from + 1, Least(Least(from + Page, last), Len(Text)))

-----------------------------------------------------------------------------
(* The guard: ProxyReplayGuard.ensure, up to the role a request gets. *)

\* Mutant: an aborted entry is followed like one that grows.
FollowableAborted(status) == status \in {"owning", "aborted"}

Followable(status) == status = "owning"

\* The meta is read, or Redis is away.  A buffered owner's entry, or one read with
\* REPLAY_LIVE_DEDUP_ENABLED off, is not followed.
Enter(r) ==
    /\ At(r, {"new"})
    /\ \E bypass \in BOOLEAN, seen \in {meta, None} :
         LET known(status) == seen # None /\ seen.status = status
         IN \/ ~bypass /\ known("completed") /\ Become(r, Reader("first", seen.gen, <<>>, seen.count))
            \/ /\ ~bypass /\ seen # None /\ Followable(seen.status) /\ Fresh
               /\ Become(r, Reader("read", seen.gen, <<>>, None))
            \/ bypass /\ known("completed") /\ Become(r, Done)
            \/ ~known("completed") /\ Become(r, Guard("claim", bypass, known("owning")))
    /\ UNCHANGED <<owner, meta, list, row>>

\* The first page of a completed entry decides whether Redis can serve it.
FirstPage(r) ==
    /\ At(r, {"first"})
    /\ LET q == req[r]
           out == Chunks(0, q.count)
       IN \/ /\ meta # None /\ meta.gen = q.gen /\ out # <<>>
             /\ list' = [list EXCEPT !.ttl = meta.ttl]
             /\ Become(r, [q EXCEPT !.at = "read", !.out = out])
          \/ /\ Become(r, Guard("claim", FALSE, FALSE))    \* also: Redis is away
             /\ UNCHANGED list
    /\ UNCHANGED <<owner, meta, row>>

\* tryClaimOwner: SET NX.  Who loses to an owner known to be at work goes ahead alone.
Claim(r) ==
    /\ At(r, {"claim"})
    /\ \E effect, answer \in BOOLEAN :
         /\ answer => effect
         /\ effect => owner = None
         /\ owner' = IF effect THEN Renewed(r) ELSE owner
         /\ Become(r, IF ~answer /\ req[r].rival THEN Done
                      ELSE [req[r] EXCEPT !.at = "lookup", !.rival = FALSE, !.claimed = answer])
    /\ UNCHANGED <<meta, list, row>>

\* findCompleted, under the lease if it was won.
Lookup(r) ==
    /\ At(r, {"lookup"})
    /\ LET q == req[r]
           leave == IF q.claimed THEN Unclaim ELSE Done
       IN \/ /\ row # None /\ ~q.bypass
             /\ Become(r, Reader(IF q.claimed THEN "serve" ELSE "closed",
                                 row.source, row.text, Len(row.text)))
          \/ row = None /\ q.claimed /\ Become(r, Guard("prepare", FALSE, FALSE))
          \/ Become(r, leave)      \* bypassed, no row and no lease, or the query fails
    /\ UNCHANGED <<owner, meta, list, row>>

\* The lease may have passed to another during the query.
Prepare(r) ==
    /\ At(r, {"prepare"})
    /\ \/ PrepareOwned(r) /\ Become(r, Other("owner", None, FALSE))
       \/ PrepareOwned(r) /\ Become(r, Done)            \* the answer is lost
       \/ Untouched /\ Become(r, Done)                  \* refused, or Redis is away
    /\ UNCHANGED row

-----------------------------------------------------------------------------
(* The owner: ReplaySpool.  Its writes to Redis are chained one after another. *)

\* createReplaySpoolIfOwner, or a response that is not kept, or no response.
OpenSpool(r) ==
    /\ At(r, {"owner"})
    /\ \/ Become(r, [at |-> "open", begun |-> FALSE, halted |-> FALSE, sent |-> 0,
                     count |-> 0, text |-> <<>>])
       \/ Become(r, Unclaim)                            \* releaseReplayOwnership
       \/ Become(r, Other("seal", None, TRUE))          \* abortReplayOwnership
    /\ UNCHANGED <<owner, meta, list, row>>

\* disable: what this spool wrote is to be deleted.
Disabled(r) == Other("seal", r, FALSE)

\* A write of what upstream said since the last, the first being bootstrap's empty one.
Flush(r) ==
    /\ At(r, {"open", "completing"})
    /\ LET q == req[r]
       IN \E upto \in IF q.begun THEN q.sent + 1 .. Len(Says[r]) ELSE {0} :
            LET batch == SubSeq(Says[r], q.sent + 1, upto)
            IN \/ /\ WriteOwned(r, batch, q.count + Len(batch))
                  /\ Become(r, [q EXCEPT !.begun = TRUE, !.sent = upto, !.count = Len(Text \o batch)])
               \/ /\ WriteOwned(r, batch, q.count + Len(batch))
                  /\ Become(r, Disabled(r))             \* the answer is lost
               \/ Untouched /\ Become(r, Disabled(r))   \* Redis is away
               \/ Untouched /\ ~Holds(r) /\ Become(r, Unclaim)
    /\ UNCHANGED row

\* The heartbeat finds the lease gone, or does not learn: halt.  A completion under
\* way goes on, and the release of the lease follows it.
Halted(r) == IF At(r, {"open", "completing"}) THEN Unclaim ELSE [req[r] EXCEPT !.halted = TRUE]

Heartbeat(r) ==
    /\ At(r, {"open", "completing", "rebuild", "persist", "publish"})
    /\ ~req[r].halted
    /\ \/ HeartbeatOwned(r) /\ UNCHANGED req
       \/ HeartbeatOwned(r) /\ Become(r, Halted(r))
       \/ Untouched /\ Become(r, Halted(r))
    /\ UNCHANGED row

\* The payload is too large, the backlog is, or the client's stream fails.
Abort(r) ==
    /\ At(r, {"open"})
    /\ Become(r, Disabled(r))
    /\ UNCHANGED <<owner, meta, list, row>>

\* completeAfterBilling, once the response ended well and is paid for.
Complete(r) ==
    /\ At(r, {"open"})
    /\ Become(r, [req[r] EXCEPT !.at = "completing"])
    /\ UNCHANGED <<owner, meta, list, row>>

\* A completion that fails aborts the entry.
Failed(r) == Other("seal", r, req[r].halted)

\* The last write, which may be empty.
FinalWrite(r) ==
    /\ At(r, {"completing"}) /\ req[r].begun
    /\ LET q == req[r]
           batch == SubSeq(Says[r], q.sent + 1, Len(Says[r]))
       IN \/ /\ WriteOwned(r, batch, q.count + Len(batch))
             /\ Become(r, [q EXCEPT !.at = "rebuild", !.sent = Len(Says[r]), !.count = Len(Text \o batch)])
          \/ WriteOwned(r, batch, q.count + Len(batch)) /\ Become(r, Failed(r))
          \/ Untouched /\ Become(r, Failed(r))
    /\ UNCHANGED row

\* readDurablePayload: every page under the token.
Rebuild(r) ==
    /\ At(r, {"rebuild"})
    /\ LET q == req[r]
       IN \/ /\ Holds(r) /\ Len(Text) >= q.count
             /\ Become(r, [q EXCEPT !.at = "persist", !.text = SubSeq(Text, 1, q.count)])
          \/ Become(r, Failed(r))
    /\ UNCHANGED <<owner, meta, list, row>>

\* Mutant: whatever row is there is taken for the same.
PersistUnchecked(r) ==
    /\ At(r, {"persist"})
    /\ LET q == req[r]
           stored == [text |-> q.text, source |-> r]
           publish == [q EXCEPT !.at = "publish", !.text = <<>>]
       IN \/ row = None /\ row' = stored /\ Become(r, publish)
          \/ row # None /\ UNCHANGED row /\ Become(r, publish)
          \/ UNCHANGED row /\ Become(r, Failed(r))
    /\ Untouched

\* persistCompleted: the first row stands, unless it is the same.
Persist(r) ==
    /\ At(r, {"persist"})
    /\ LET q == req[r]
           stored == [text |-> q.text, source |-> r]
           publish == [q EXCEPT !.at = "publish", !.text = <<>>]
       IN \/ row = None /\ row' = stored /\ Become(r, publish)
          \/ row = None /\ row' = stored /\ Become(r, Failed(r))         \* the answer is lost
          \/ UNCHANGED row /\ Become(r, Failed(r))
          \/ /\ row # None /\ UNCHANGED row
             /\ Become(r, IF row.text = q.text THEN publish
                          ELSE Other("discard", r, q.halted))
    /\ Untouched

Publish(r) ==
    /\ At(r, {"publish"})
    /\ LET after == IF req[r].halted THEN Unclaim ELSE Done
       IN \/ CompleteOwned(r, req[r].count) /\ Become(r, after)
          \/ CompleteOwned(r, req[r].count) /\ Become(r, Failed(r))
          \/ Untouched /\ Become(r, Failed(r))
    /\ UNCHANGED row

After(r) == IF req[r].again THEN Unclaim ELSE Done

\* The aborted meta, written by whoever still holds the lease.
Seal(r) ==
    /\ At(r, {"seal"})
    /\ \/ AbortOwned(r, req[r].gen) /\ Become(r, After(r))
       \/ Untouched /\ Become(r, After(r))
    /\ UNCHANGED row

Discard(r) ==
    /\ At(r, {"discard"})
    /\ \/ DiscardOwned(r) /\ Become(r, After(r))
       \/ Untouched /\ Become(r, After(r))
    /\ UNCHANGED row

\* The lease is given back, or left to expire; a request served from the row is answered.
Release(r) ==
    /\ At(r, {"unclaim", "serve"})
    /\ \/ ReleaseOwner(r)
       \/ Untouched
    /\ Become(r, IF At(r, {"serve"}) THEN [req[r] EXCEPT !.at = "closed"] ELSE Done)
    /\ UNCHANGED row

-----------------------------------------------------------------------------
(* A subscriber: the pull of buildLiveAttachResponse, or, with chunkCount known    *)
(* from the start, of buildRedisCompletedResponse.                         *)

Knows(r) == req[r].count # None
End(r, at) == Become(r, [req[r] EXCEPT !.at = at])

\* Mutant: pages are read whoever wrote them.
ReadAnyGeneration(r) ==
    /\ At(r, {"read"})
    /\ LET q == req[r]
           page == Chunks(Len(q.out), IF Knows(r) THEN q.count ELSE Len(Text))
       IN \/ /\ Knows(r) /\ Len(q.out) = q.count
             /\ End(r, "closed") /\ UNCHANGED list
          \/ /\ meta # None /\ page # <<>>
             /\ Become(r, [q EXCEPT !.out = @ \o page])
             /\ list' = IF Knows(r) THEN [list EXCEPT !.ttl = meta.ttl] ELSE list
          \/ /\ meta # None => page = <<>>
             /\ End(r, IF Knows(r) THEN "durable" ELSE "peek") /\ UNCHANGED list
          \/ End(r, IF Knows(r) THEN "durable" ELSE "errored") /\ UNCHANGED list
    /\ UNCHANGED <<owner, meta, row>>

Read(r) ==
    /\ At(r, {"read"})
    /\ LET q == req[r]
           page == Chunks(Len(q.out), IF Knows(r) THEN q.count ELSE Len(Text))
           changed == meta # None /\ meta.gen # q.gen
       IN \/ /\ Knows(r) /\ Len(q.out) = q.count
             /\ End(r, "closed") /\ UNCHANGED list
          \/ changed /\ End(r, "errored") /\ UNCHANGED list
          \/ /\ meta # None /\ ~changed /\ page # <<>>
             /\ Become(r, [q EXCEPT !.out = @ \o page])
             /\ list' = IF Knows(r) THEN [list EXCEPT !.ttl = meta.ttl] ELSE list
          \/ /\ meta # None => ~changed /\ page = <<>>
             /\ End(r, IF Knows(r) THEN "durable" ELSE "peek") /\ UNCHANGED list
          \/ End(r, IF Knows(r) THEN "durable" ELSE "errored") /\ UNCHANGED list  \* Redis is away
    /\ UNCHANGED <<owner, meta, row>>

\* Nothing new: what does the meta say?
Peek(r) ==
    /\ At(r, {"peek"})
    /\ LET q == req[r]
       IN \/ End(r, "gone")                              \* no meta, or Redis is away
          \/ meta # None /\ (meta.status = "aborted" \/ meta.gen # q.gen) /\ End(r, "errored")
          \/ meta # None /\ meta.status = "completed" /\ meta.gen = q.gen
                /\ Become(r, [q EXCEPT !.at = "read", !.count = meta.count])
          \/ meta # None /\ meta.status = "owning" /\ meta.gen = q.gen /\ End(r, "read")
          \/ meta # None /\ meta.status = "owning" /\ End(r, "errored")  \* stalled, or too slow
    /\ UNCHANGED <<owner, meta, list, row>>

\* The rest comes from the row, if it is this generation's.
Continue(r) ==
    /\ At(r, {"durable", "gone"})
    /\ LET q == req[r]
       IN \/ /\ row # None /\ row.source = q.gen /\ Len(q.out) <= Len(row.text)
             /\ Become(r, [q EXCEPT !.at = "closed", !.out = @ \o SubSeq(row.text, Len(q.out) + 1, Len(row.text))])
          \/ End(r, "errored")                           \* no such row, or the query fails
    /\ UNCHANGED <<owner, meta, list, row>>

-----------------------------------------------------------------------------
(* The environment. *)

\* The client goes, or the process dies.
Crash(r) ==
    /\ ~At(r, {"closed", "errored", "done"})
    /\ Become(r, Done)
    /\ UNCHANGED <<owner, meta, list, row>>

Aged(key) == IF key = None THEN None
             ELSE IF key.ttl = 1 THEN None ELSE [key EXCEPT !.ttl = @ - 1]

Tick ==
    /\ <<owner, meta, list>> # <<None, None, None>>
    /\ owner' = Aged(owner)
    /\ meta' = Aged(meta)
    /\ list' = Aged(list)
    /\ UNCHANGED <<row, req>>

\* Not between the statement that stores a payload, or finds it stored, and the
\* script that publishes it: a row lives for minutes.
RowExpires ==
    /\ row # None
    /\ \A r \in Requests : ~At(r, {"publish"})
    /\ row' = None
    /\ UNCHANGED <<owner, meta, list, req>>

-----------------------------------------------------------------------------
GuardStep(r) == Enter(r) \/ Claim(r) \/ Lookup(r) \/ Prepare(r)
SpoolStep(r) ==
    \/ OpenSpool(r) \/ Flush(r) \/ Abort(r) \/ Complete(r)
    \/ FinalWrite(r) \/ Rebuild(r) \/ Persist(r) \/ Publish(r)
    \/ Seal(r) \/ Discard(r) \/ Release(r)
ReaderStep(r) == FirstPage(r) \/ Read(r) \/ Peek(r) \/ Continue(r)

Next ==
    \/ \E r \in Requests : \/ GuardStep(r) \/ SpoolStep(r) \/ ReaderStep(r)
                            \/ Heartbeat(r) \/ Crash(r)
    \/ Tick
    \/ RowExpires

Spec == Init /\ [][Next]_vars

-----------------------------------------------------------------------------
(* Properties. *)

\* The entry in Redis is one response: the chunks are a prefix of what one request
\* said, the one the meta names, and a completed entry counts them all.  An owner
\* slower than its lease never mixes its chunks into its successor's.
OneResponse ==
    list # None =>
      /\ \E r \in Requests : IsPrefix(list.text, Says[r])
      /\ meta # None => /\ meta.status # "aborted" /\ IsPrefix(list.text, Says[meta.gen])
                        /\ meta.count = Len(list.text)

\* A subscriber sends its client a prefix of the response it attached to, whatever
\* expires, is taken over or is deleted meanwhile, and ends without an error only
\* with all of it.
Faithful ==
    \A r \in Requests :
        At(r, {"first", "read", "peek", "durable", "gone", "serve", "closed", "errored"}) =>
          /\ IsPrefix(req[r].out, Says[req[r].gen])
          /\ At(r, {"closed"}) => req[r].out = Says[req[r].gen]

\* A meta starts to say completed only when the whole response is in the database,
\* as the barrier in completeAfterBilling promises, also where it is another's row.
CompletedIsDurable ==
    [][Completed' /\ ~(Completed /\ meta'.gen = meta.gen) =>
         row # None /\ row.text = Says[meta'.gen]]_vars

=============================================================================
