# Verification of CC Hub

CC Hub is a proxy for AI APIs: clients present an API key, the hub picks an
upstream provider, forwards the request, streams the answer back, and accounts
for it. It runs as several processes that share Postgres and Redis. This
directory holds TLA+ models of the parts of the hub where several requests or
processes meet over shared state, the TLC runs that check them on small
instances, and TLAPS proofs of what matters most for every instance.

Paths below are relative to the repository; `lib/` is `src/lib/`, `proxy/` is
`src/app/v1/_lib/proxy/`. `PROJECT.json` lists, per definition, the lines of
code it stands for.

Contents:
1. the system and its parts; 2. the modules and how they follow the code;
3. the runs, their bounds and what they show; 4. fairness; 5. the proofs;
6. where code and documentation disagree; 7. what is not modelled; 8. what could
follow.

## 1. The system

A request passes the guards (authentication, session, model, limits), is bound
to a provider, is forwarded with retries and failover, and ends with a record in
`message_request`. Around that path sit the components below. "Hard" names the
behaviour that tests hardly reach.

| component | state | operations | hard | correct when |
|---|---|---|---|---|
| session binding (`lib/redis/session-binding.ts`, `lua-scripts.ts`) | per session id: a canonical hash per tenant (generation, provider), two legacy keys (owner, provider), cooldown markers, each with a lifetime | scripts: read or reconcile, compare-and-set, touch, clear, terminate | requests racing on one binding; three keys with separate lifetimes; replies that are lost | one tenant holds a session; a request changes only the binding it saw; mirrors follow the hash |
| legacy fallback (same file) | the two legacy keys only | `mutateLegacySessionBindingSafely`: inspect, refresh, bind, set, clear, terminate, as plain commands | another worker between any two commands; keys expiring meanwhile; rollback | no tenant gets another's provider; conflicts clear |
| provider circuit breaker (`lib/circuit-breaker.ts`, `lib/redis/circuit-breaker-state.ts`, `lib/circuit-breaker-probe.ts`) | a health object per process in memory, a hash in Redis | check, record failure or success, probe, dashboard, reset | objects replaced during an await; saves that overtake; resets from elsewhere | an open circuit can leave that state; half-open stays on probation; failures open it; a reset is honoured |
| provider concurrency slots (`lua-scripts.ts`, `lib/session-tracker.ts`, `lib/rate-limit/service.ts`) | a sorted set of sessions and a hash of reference counts per provider | check and track, release, refresh, count and clean up, terminate | two requests of one session; cleanup in three commands; ageing under a live request | who uses a slot is counted; the limit holds; the last release frees |
| message write buffer (`src/repository/message-write-buffer.ts`) | queue, held-back updates, acknowledgements, timer, flush in flight, shutdown stage | enqueue, claim an outcome, patch a trace, flush, time-out, stop | failed or half-failed batches; time-out against late commit; traces during shutdown | first outcome stands; acknowledgements are true; newer updates win; shutdown ends and loses nothing silently |
| budget leases (`lib/rate-limit/lease-service.ts`) | a lease per entity and window in Redis, settlement markers | refresh from the database, settle | a refresh that overwrites a settlement; a settlement sent again | overspending is bounded by what is in flight |
| discovery coordinator and lease (`proxy/discovery-coordinator.ts`) | attempts in a race, a Redis lease | start, win, cancel, renew | two winners; a lease that expires in a race | one winner; one race per session |
| replay of finished requests (`proxy/replay/`) | owner lease, meta, chunks in Redis, a row in Postgres | claim, write, heartbeat, complete, abort, attach, follow | an owner slower than its lease; a follower whose list expires or changes hands; a crash between two commands | an entry is one response; a client gets a prefix of it, or all |
| hedge race (`sendStreamingWithHedge` in `proxy/forwarder.ts`) | attempts in flight, who won, the session's callbacks, references of the agent pool | launch, threshold, open, gate, commit, fail, cancel, drain, client abort | a late answer or launch after the winner; failures across awaits; losers drained beside the winner | one winner, left alone; all that the others held is given back; the request is answered |
| stream gates' budget (`proxy/stream-gate/prebuffer-budget.ts`) | reserved bytes and a FIFO of waiters, per process | acquire, shrink, release, abort | an abort in line; a release while others wait | the sum is bounded; nobody waits who fits |
| cost of a request (`src/repository/message.ts`) | `cost_usd` and `hedge_losers` of a row | winner's cost, loser's cost, plain cost | any order; a statement sent again | the winner and each billed loser once |
| routing trace outbox (`src/repository/routing-trace-outbox.ts`) | staged traces in Redis | stage, replay, acknowledge | an acknowledgement of an older revision | a staged trace reaches the row |
| endpoint probing (`lib/provider-endpoints/`) | leader lock, probe cycle | acquire, renew, release, probe | the memory fallback beside a Redis holder | one leader where Redis can be reached |
| proxy agent pool (`lib/proxy-agent/agent-pool.ts`) | cached, retired and pending agents with use counts | get, release, evict, retire | a waiter counted only after an await | no agent is closed in use |
| async task manager (`lib/async-task-manager.ts`) | registered promises | register, cancel, sweep, shut down | completion racing cancellation | every task is cleaned up once |
| cluster supervisor and shutdown (`src/cluster.js`, `server-lib/`, `lib/lifecycle/shutdown.ts`) | workers, backoff, drain stage | fork, restart, drain | a worker that dies during the drain | shutdown ends |
| settings and caches (`lib/config/`, `lib/redis/pubsub.ts`, `lib/cache/`) | cached rows with a version | load, invalidate | an invalidation during a load | no stale row outlives its invalidation |

Without concurrent state of their own: provider selection (a weighted choice),
the sequential attempts of the forwarder and the rest of the response handler
(their effects are operations of the above), the guards, authentication, protocol conversion, repositories (SQL), background
jobs, dashboard and notifications.

How they meet. The forwarder reads the binding at the start of a request,
checks the breaker and takes a slot per attempt, and on the outcome records a
failure or success, gives the reference back or refreshes it, and
compare-and-sets the binding. The response handler claims the outcome of the row
in the write buffer, whose commit callback publishes the rollup and may patch
the routing trace. A streaming request whose provider is slow becomes a race,
whose attempts wait at gates that share one budget, and whose losers may be
billed to the same row as the winner. A repeated request is served from the
replay of the first. All of this is asynchronous: every `await` and every Redis
command is a point where another request, process or expiry may step in.

The hazards these parts meet are listed in `PROJECT.json`, each with its line
and the properties that would catch it.

## 2. The modules

The granularity follows the runtime. A Lua script is atomic in Redis and is one
action. A function that awaits is one action per segment between awaits, or per
Redis command. A step that leaves everything unchanged is not an action.

### SessionRegister, SessionBinding, SessionBindingFallback

`SessionRegister` is the promise to a request: one register, held by at most one
tenant, that a request changes only if what it last saw there is still there.

`SessionBinding` has the keys of one session id and one action per script.
`binding`, `legacyOwner`, `legacyProvider` and `cooldown` are the keys, each with
its remaining lifetime in ticks; `snap` is what a request captured. Every request
may call any script in any order, which covers the callers. A reply that is lost
(`connection_changed`) leaves the effect and no snapshot. A UUID is fresh when
nobody holds it, so a generation nobody holds may be drawn again: this keeps the
model finite and is weaker than what UUIDs give. Keys written by one script
expire in the same tick.

`SessionBindingFallback` adds workers without scripts: one action per Redis
command of `mutateLegacySessionBindingSafely`, including its re-check, rollback
and restore. A mutation may die anywhere (`Abort`). `Tick` is the expiry, and
`MaxStall` bounds the ticks that pass inside one mutation. `writer` is auxiliary:
the tenant whose request wrote the provider mirror.

### CircuitBreaker

Health objects have addresses, because a function that awaits keeps the object
it found while another call replaces it in the map. A process sends Redis its
commands in order; nothing orders two processes; saves are not awaited, may fail,
and carry the whole object. The configuration an await returns may be any of
`Thresholds` (0 disables the breaker). The clock is not modelled: a deadline
that is set may be found passed or not. `Servers` are the processes calls run in;
the other processes only reset. Objects nobody refers to are blanked, so that
addresses can be reused. Counts saturate at `MaxFailures`.

### ProviderSessionRefs

One provider. `active` is the sorted set with scores abstracted to fresh and
stale (a score is only compared with the cutoff), `refs` the hash, `attempt` what
the processes remember (`recordProviderSessionRef`), `sweep` counts and
terminations between their commands. A success may always keep its reference,
which covers `retainOnSuccess` in every setting. `kept` and `marks` are auxiliary;
the marks set apart the sessions for which the code promises less: `outlived`
(a membership ended under an attempt still under way), `bypassed` (a member the
check did not let in: fail-open, or a refresh after the membership ended),
`leaked` (a reference nobody will release), `dropped` (a cleanup deleted references
of a session that was back).

### MessageWriteBuffer

One process's buffer and the table. A row has its outcome, its trace and one
version for all other columns. `pending`, `deferred` (updates held back behind a
trace), `active` (acknowledgements waited for), `flush`, `timer`, `task` (traces),
`callbacks` and `stop` are the fields of the class and the stages of its loops.
`Execute` is apart from `ReplyOk` and `ReplyError`, so a batch may commit without
the process learning it and is then executed again. The code takes a batch in the
same segment that calls `flush`; the model lets other steps come between, and
likewise after an answer, which only adds behaviours. A batch is taken in the queue's
order (`Stale`, `InOrder`): what a shutdown rejected was there first and goes first.
A trace is patched once its row's outcome has committed, and is newer than any before
(`TraceStart`). What overflow drops first
depends on columns the version stands for, so any choice is allowed. Other
writers of the table are the direct write after a failed claim (`Finalize`, of
which only the outcome is modelled) and the deletion of a row. `used` and `confirmed` are
auxiliary.

### Replay

One replay id. `owner`, `meta` and `list` are the three keys with their remaining
ticks, `row` is the one in Postgres, and `req` what each request is doing: in the
guard, with a spool as owner, as a subscriber of another's response, or done. A
request is its own owner token, and its id is the generation of what it writes.
Requests with one body may get different responses (`Says`). Every script, query
and statement is an action, which may fail, or take effect and lose its answer; a
process may die at any of them; every lease and entry may expire between two. A
subscriber reads a page at a time, and gets what is there if the list is shorter than
the page, or died before its meta. `Tick` moves the lease and the entry together;
a row outlives the steps between its write and the meta that points to it: it
lives at least five minutes, and the publication waits for one script.

### PrebufferBudget, HedgeCost, HedgeRace

`PrebufferBudget` is the budget of bytes the stream gates of a process share;
nothing awaits inside an operation, so each is one step with the drain it ends in.
Every gate reserves the same amount. `HedgeCost` is the row's cost: one operator
per UPDATE, with the amounts kept apart per provider, so that what was added
twice or lost shows.

`HedgeRace` composes both with `sendStreamingWithHedge`. An attempt is named after
its provider, since the race launches each once. `race` holds the function's
locals, `att` the attempts, each at the await it is in (`stage`), and `agent` the
callback the session holds, which the end of the winner's stream calls. A step
is what runs between two awaits, so `Passed` and `Beaten` are what an attempt does
after its gate answered, when the race may have been decided in between. `mode`
says whether a gate decides the winner or the first chunk, and whether losers are
billed. `Others` are gates of other requests, and `Plain` the providers whose answer
`dispatch` hands to `handleNonStream`, by its content type: the winner's cost is then
written by the statement that overwrites, billing or not (`WriteCost`). Errors are
told apart by what the race does about them. `Gone` forgets the fields of an attempt that is over, which
nothing reads. `agents`, `dropped` and `displaced` are auxiliary.

## 3. The runs

| run | instance | shows |
|---|---|---|
| `versioned_mirrors` | 2 tenants, 3 requests | `GenerationIdentifiesBinding`: equal generations mean equal bindings, in the hash and in every snapshot; `MirrorsAgree`: with scripts only, mirrors never drift |
| `fallback_isolation` | 2 tenants, 2 legacy calls of all six kinds, `MaxStall` 0 | `TenantIsolation`: no request reads or imports a provider another tenant bound |
| `fallback_interleavings` | 2 tenants, 1 legacy call, refresh and set, `MaxStall` 2 | `ImplementsRegister`, `OwnerBacksCanonical`; `ConflictClears`, `OrphanClears`: a mirror conflict or an orphaned provider does not last |
| `fallback_rollback` | 1 tenant, 2 legacy calls | violation, see 6 |
| `fallback_foreign_write` | 2 tenants, 1 legacy set, `MaxStall` 1 | violation, see 6 |
| `circuit_breaker` | 1 serving process with 2 calls, 1 resetting process, thresholds 0 and 2 | `OpenHasDeadline`, `HalfOpenOnProbation`, `BoundedFailures`, `ResetHonoured` |
| `provider_slots` | 2 sessions, 2 attempts, 1 sweeper, limit 1, at most 2 references | `HoldersCounted`, `RefsCover`, `LimitHeld`, `SlotFreed` |
| `slot_freed` | the same | violation, see 6 |
| `write_buffer` | 1 row, 2 outcomes, 2 versions, 1 trace, queue of 1 | `AckHonest`, `FirstOutcomeStands`, `NewerWins`, `TraceIsolated`, `NothingStranded`, `QueueBounded`, `CleanStop`, `StopTerminates` |
| `write_buffer_batches` | 2 rows, 2 outcomes, 3 versions, batches and queue of 2 | `AckHonest`, `NoLostFlush` when claims and ordinary updates share a statement and overflow evicts |
| `replay` | 3 requests, two of which get different responses of up to two chunks; lease of 2 ticks, entry of 3, pages of 1 | `OneResponse`: what is in Redis is one response, though owners outlive their leases; `Faithful`: a subscriber's client gets a prefix of one response, or all of it; `CompletedIsDurable` |
| `hedge_race` | 3 providers, 2 in flight, 1 other gate, budget of 3 with reservations of 2 | `HeadServed`, `NothingHeld`, `WinnerKept`, `CostIsSum`, `RaceSettles` |

Why the bounds suffice.

- Binding. The scripts compare one tenant's hash with one owner key; two tenants
  give every foreign case and the third request gives a captured snapshot that
  two others overtake. Lifetimes of two ticks let one key outlive another. The
  properties TLC checks with `MaxStall` 0 (no key expires inside a mutation)
  are named so in the module; those proved in section 5 need no such bound.
- Breaker. Two calls are enough to replace an object under an await and to
  count past a threshold; a second process supplies every foreign write, and its
  save and the first one's pass each other on their way to Redis. A process with
  `MaxQueue` unanswered commands, one in the run, sends no other, in the model only:
  longer queues, and two processes that both record calls, are left to the theorems.
- Slots. Two sessions compete for a limit of one, two attempts share a session,
  and the sweeper splits a cleanup or a termination.
- Write buffer. Rows do not interact but through the queue's limit, the batch and
  the timer: the two-row run covers those and leaves traces out (a trace concerns
  its own row), the one-row run covers traces, time-outs and shutdown. Two
  versions are an update and a newer one; two outcomes are a claim and a
  contender. With a queue of one, a held-back update always overflows it.
- Replay. An owner, a successor with another response and a subscriber; the third
  request also makes two successors. Two ticks are the lease and three the entry, so
  that an owner is overtaken while its entry lives, and the entry dies under a
  subscriber. Two chunks and pages of one put a step of the others into every read.
- Race. Two attempts race while the third provider waits to be launched when one
  fails or is late. The budget fits one gate and a committed prefix, so a second
  gate waits in line until the first shrinks, and the other request's gate
  competes with both. A rectified request is sent again once, for one provider:
  in the code the rectifiers bound it to a few times. One provider is `Plain`,
  so a winner of either kind races losers of either kind.

Symmetry is used only in runs without liveness properties, over tenants and
other model values the specification does not tell apart. Deadlock is checked
except in the two runs of the write buffer and in `replay`, which really stop: the
first once its process has shut down, the other once every request has ended
or its process has crashed, and every key has expired.

Every property of a passing run has a mutant: a plausible bug in one definition
(it stands before the definition it mutates) that violates the property.

## 4. Fairness

- `Expiry` and `Tick` are weakly fair: Redis expires keys without anyone's help.
- `Proceed(c)` is weakly fair: a mutation awaits each command, and the client's
  command time-out ends it otherwise. No request is assumed to be made, so
  `ConflictClears` and `OrphanClears` do not rest on clients.
- Write buffer: timers fire; the database answers or the driver gives up
  (`ReplyOk \/ ReplyError`, not success); callbacks and tasks are promises that
  settle; an acknowledgement has a time-out. `TraceFails` is strongly fair: a
  task looks at its deadline each time round its loop, and the time that passes
  while it waits counts. `stop` once begun runs on; that it begins is not assumed.
- Race. `LauncherStep` and `AttemptStep(p)` are weakly fair: selection, endpoint
  lookup and failure records are promises that settle, and every transport has
  header and body time-outs (`FETCH_HEADERS_TIMEOUT`, `FETCH_BODY_TIMEOUT` in
  `lib/proxy-agent/agent-pool.ts`), so a request or a read that never answers
  fails. Other gates give their leases back. Neither the client's abort nor a
  threshold is assumed. `RaceSettles` does not assume success of anything.
- Breaker, slots and replay have safety properties only.

## 5. The proofs

The proofs hold for all tenants, providers, requests, responses, lifetimes, sessions,
attempts, processes, calls, rows, thresholds, limits and budgets, under the assumptions
the modules name: the null values are no real values, lifetimes are positive and an
entry outlives a lease, some threshold is positive, the sets of sessions, attempts, rows
and claimants of the budget are finite, a reservation fits the budget. One theorem has a
hypothesis of its own, `TenantsAreIsolated`: that no key expires inside a mutation of the
legacy fallback, without which the property is false (section 6, 2).

Every invariant below was first checked by TLC on the instance of its run.

Binding. `OwnerBacksCanonical` and `GenerationIdentifiesBinding` are not
inductive alone: a script that writes a hash needs the owner to be its tenant for
the first and no equal generation in any snapshot for the second, and the type
invariant says that absent keys hold nothing. `IInv` is their conjunction with
`TypeOK`. `VersionedIInv` and `ExpiryIInv` preserve it, through lemmas on `Write`
that every script shares. `MirrorsAgree` follows with `MirrorInv`, which adds that
hash and mirrors have one lifetime, and holds only without legacy workers. For the mixed system,
`FInv` is `IInv` with the types of the running mutations: `LegacyEffects` shows
that no legacy command shortens an owner key's life or touches a hash, which is all the
invariant needs of them. `FallbackImplementsRegister` then maps each step: a
script to `Create`, `Observe`, `Update`, `Revoke` or a stutter, expiry to `Lapse`
of at most one tenant (`OnlyHolder`), a legacy command to a stutter. `TenantIsolation`
needs to know what every stage of a mutation may count on (`StagesHold`): one that found
its tenant to be the owner still finds that when it writes the provider, since nothing
expires meanwhile and nobody replaces an owner; and one that is about to claim a session
without an owner finds no provider left behind. `OwnerStays` is the step all the others
take. A script imports only what its own tenant's owner key stands beside.

Slots. `HoldersCounted` and `RefsCover` follow from `IInv`: types, `AttemptsOK`
(what a running attempt's stage says of its reference) and `SessionsOK` (the
count covers holders and kept references, or is zero after a cleanup). Sets of
holders are finite, so the lemmas speak of their cardinality. `LimitRespected`
is a second induction on top of `IInv`, which it needs for one step: an
admitted attempt whose membership has not ended is still a member when its
success renews it, so the renewal adds nobody. `LastReleaseFrees` needs the
count to be exact where `RefsCover` has a bound: outside the sessions the marks name
(`Lost`), a member's count is its holders plus the references successes left
(`AllExact`), so the last to give back finds one.

Race. `HeadServed` follows from `BudgetInv` (the budget is not overdrawn, and
nobody waits who fits): `NextBudget` says that any step of the race is one of the
budget's operations or leaves it alone, and `BudgetStepKeeps` that each keeps the
invariant, as each ends in a drain (`DrainKeeps`). `CostIsSum` needs to know who
writes: `WriterInv` says that only the winner's stream writes the winner's cost,
that a drained attempt is never the winner and exists only while billing is on, and
`LaunchInv` that an attempt is launched once, so that the winner cannot start over
as a loser. The statement that overwrites runs only while no loser is listed, as
billing is off, or for a `Plain` winner. Steps that write nothing preserve them through `AttemptKeeps`, by what
they do to the one attempt they are about and to those they abort (`Aside`).
`NothingHeld` and `WinnerKept` say what an attempt holds at its end, and need what it
holds at each stage: `StageFits` (its flags), `RefsFit` (its references to the agent
pool are those it has to give back, but for the two defects of section 6), `LeaseFits`
(its lease of the budget is what its gate reserved, or nothing), `AgentFits` (whose
callback the session would call) and `ClosedFits` (who got as far as a gate is aborted
once the race is decided). `Book` relates the budget's total to the leases it is the
sum of. A sum over a set is defined by recursion; that it is zero only if each part is,
and changes by what one part changes, is proved by well-founded induction on finite
subsets, stated so that no theorem takes an operator (`SubsetInduction`). `WholeInv`
joins these with the invariants of the budget and the cost.

Breaker. `IInv` says more of the data than `TypeOK`: every state in memory is
`Sound` (an open one has its deadline, one that is not closed its failures), and what
is saved, under way or in Redis is `Stored`: sound, and not closed with as many
failures as any threshold allows. A state may be loaded at any time into any object,
so both must hold of every copy at once. `LoadsMatch` ties each load to the one call
that waits for it, so that an answer reaches a call that can take it. `StormsEnd` is
`BoundedFailures`; it is kept because a call that is about to open an object is the
only one that leaves a storm behind, and whoever assigns to the object meanwhile
leaves none (`CallKeeps`, to which each step of a call is reduced). `ResetHonoured`
adds `CalmInv`: a check that was calm so far holds an object that is not open, or was
answered a state that is not. `NoneOpens` is what a step has to respect: an object that
somebody holds becomes open only in a step that also sends that state to Redis, which ends the
calm of the process; and a free address has no open circuit (`Spare`), so that a check
that creates an object finds a closed one.

Write buffer. `IInv` says of each row (`Fits`) where its acknowledgement is (the queue or
the batch, never both, or nowhere once it was rejected), that the updates stored, in the
batch, queued and held back are none older than the one before (`AgesFit`), and that
what a trace's task brings is newest. Of the whole, `FlushFits` and `WroteFits` tie the
batch to what the database has done with it, so that an acknowledgement after a lost answer is
still true; `UnsettledBounded` counts those that overflow may not drop; `StaleFirst` and
`StopFits` say what each stage of a shutdown has left behind. The lemmas in
`MessageWriteBufferInvariant` are about the values of one row; those in
`MessageWriteBufferProofs` reduce each action to them.

Replay. Everything rests on one fact about the lease: `EntryFits`, an owner that still
holds it finds its own entry in Redis, of the length it wrote, or none if it has not
begun, as the entry outlives the lease. So the fence every write passes, that the token
is the owner's, is enough to write only what continues the list. `ListFits` and
`MetaFits` are what is then true of the entry, `SpoolFits` of the owner until the row is
written, `RowFits` of the row, and `ReaderFits` says that a subscriber has sent a prefix
of the generation it attached to.

| theorem | states |
|---|---|
| `VersionedInvariant` | the scripts alone preserve `IInv` |
| `MirrorsAlwaysAgree` | `[]MirrorsAgree`, all workers on scripts |
| `VersionedTypes` | the types of the scripts alone |
| `FallbackTypes`, `OwnerAlwaysBacksCanonical`, `GenerationsIdentify` | the same invariants with legacy workers, for any stall |
| `FallbackImplementsRegister` | the mixed system implements `SessionRegister` |
| `TenantsAreIsolated` | `[]TenantIsolation`, if `MaxStall` is 0 |
| `Types`, `SlotsCounted`, `ReferencesCover`, `LimitRespected` | the slot invariants |
| `LastReleaseFrees` | `SlotFreed`, an action property |
| `HeadIsServed`, `CostIsTheSum` | `[]HeadServed` and `[]CostIsSum` of the race |
| `RaceTypes`, `NothingIsHeld`, `WinnerIsKept` | `[]TypeOK`, `[]NothingHeld`, `[]WinnerKept` of the race |
| `BreakerTypes`, `OpenCircuitsHaveDeadlines`, `HalfOpenKeepsFailures`, `StormsAreBounded` | the breaker's state invariants |
| `ResetsAreHonoured` | `ResetHonoured`, an action property |
| `BufferTypes`, `AcknowledgementsAreHonest`, `NoAcknowledgementIsStranded`, `TracesTravelAlone`, `QueueIsBounded`, `NoFlushIsLost` | the buffer's state invariants |
| `FirstOutcomeWins`, `NewerUpdatesWin`, `ShutdownIsClean` | `FirstOutcomeStands`, `NewerWins`, `CleanStop`, action properties |
| `ReplayTypes`, `EntryIsOneResponse`, `SubscribersAreFaithful` | the replay's state invariants |
| `CompletionIsDurable` | `CompletedIsDurable`, an action property |

Only model-checked: liveness (`ConflictClears`, `OrphanClears`, `StopTerminates`,
`RaceSettles`), which is beyond the prover, and of course the violations. Every safety
property of a passing run is a theorem.

Where an invariant would not go through, the model was at fault: a batch taken in any
order could leave what a shutdown rejected in a full queue, and a trace older than one
already used, or patched before the row's outcome had committed, could undo it, none of
which the code allows; and a subscriber of the replay could not meet a list that dies
before its meta, which the code does allow.

## 6. Where code and documentation disagree

1. **A rollback can delete a newer mirror** (`fallback_rollback`). The comment on
   `rejectLegacyMutationAfterCanonicalAppeared` says a concurrent versioned writer
   cannot lose its newer value. The code decides with an `HGET` and deletes in a
   second command if the value is the rolled-back one: a worker that binds that
   same provider in between loses its mirror, and scripts answer
   `mirror_conflict` until the binding expires (`ConflictClears` says it does).
2. **A legacy set can reach another tenant's session** (`fallback_foreign_write`).
   The tests call these mutations tenant-safe. `ensureLegacyOwner` accepts
   whatever owner `EXPIRE` succeeds on: if the owner key expires after it was
   read and another tenant claims the session, that owner is renewed and the
   write goes through. It needs a key to expire inside a mutation.
3. **A cleanup can keep a slot occupied** (`slot_freed`). The comment on
   `releaseProviderSession` says a failed session is removed immediately.
   Counting lists stale members, removes them and deletes their references in
   three commands; `terminateSession` removes and deletes in two. A session
   tracked again in between loses its reference, and the release of its failed
   attempt frees nothing. The slot is free when the member ages out.
   `SlotFreed`, which sets such sessions apart (and those that leaked a reference
   or outlived a membership), holds.

The race shows three more, which its properties set apart: the first two are the last
two disjuncts of `NothingHeld`, the third is the last disjunct of `CostIsSum`. Without
them TLC finds each at once.

4. **A failed attempt keeps its connection.** `handleAttemptFailure` gives the
   agent's reference back only when the attempt had already lost and was to be
   billed. An attempt that fails once its response is open -- an empty body, a gate
   that refuses, a read that breaks -- never releases its agent, nor cancels its
   reader; the sequential path does both, with a comment that this layer is
   responsible (`proxy/forwarder.ts:2102`). `releaseAgent` is what lets the pool close
   a retired agent (`dropped`). So does a loser that is aborted while the category
   of its error is being found.
5. **A late initial attempt takes the winner's place in the session.** The initial
   attempt shares the session object. If it is still in `doForward` when another
   wins, its end overwrites `session.releaseAgent`, which `syncWinningAttemptSession`
   had just set: the loser's reference is then released twice, once by its own
   clean-up and once at the end of the winner's stream, and the winner's never
   (`displaced`). A test asks that each launched transport be released once
   (`tests/integration/proxy-hedge-lifecycle.test.ts:1183`).
6. **A winner without an event stream erases the cost of billed losers.** "Any
   hedge-path winner with loser billing on uses the loser-sum-aware write", says the
   comment on the winner's cost write (`proxy/response-handler.ts:5087`). It stands
   in `handleStream`; `finalizeRequestStats` does the same for Gemini passthroughs.
   But `dispatch` (2780) hands a response without `text/event-stream` to
   `handleNonStream`, the winner of a race included and only some of Codex excepted:
   `commitWinner` keeps the upstream's headers, and all that winning takes is a first
   chunk, or a gate that reads events under another content type. `handleNonStream`
   leaves the parameter `winnerLoserAware` out (3480), so
   `updateMessageRequestCostWithBreakdown` sets `cost_usd` to the winner's cost
   alone. A loser drained before that stays in `hedge_losers` and, as its write runs
   once, its cost never comes back; a loser drained later is added. The shortest
   trace: the initial provider is late, `Plain` p2 is launched and commits, p1's late
   answer is drained and billed, p2's stream ends, its cost is written: p1 is listed
   and costs nothing.

Two further behaviours contradict no document. A claim that commits without its
answer is executed again, is fenced out by its own outcome and is rejected:
the row is right, but the commit callback, which publishes the rollup, never
runs; it is listed as a hazard. And a launch that ends after the race was decided
is still sent, and with billing on it is drained and billed.

## 7. What is not modelled

- Values that do not parse (a provider id that is no number); the binding scripts
  answer a conflict or repair them.
- `getSessionProvider`'s plain read of the legacy key: it changes nothing.
- The capability probe of a Redis connection: a worker is in fallback or not.
- The breaker's configuration cache, `clearProviderState` when a provider is
  deleted, and alerts. The endpoint and vendor-type breakers are the same machine.
- The sorted sets of keys, users and all sessions, which count no references;
  scripts nothing calls.
- In the buffer, which ordinary update is dropped first, and a terminal patch
  without a writable column.
- In the race, what it does besides: health attribution, the decision chain, cache
  entries and bindings of the winner. Of the response handler, all but how the
  winner's answer is handled, its end and the cost write; of `doForward`, its own
  retries.
- In the replay, the compression of the payload, its size limit beyond which nothing
  is kept, and the headers sent before the first chunk.
- Budget leases, the discovery race and its lease, the trace outbox, endpoint
  probing, the agent pool, the task manager, cluster shutdown and the caches: each
  would be a module of its own. The reasons for these and for the components
  without state are in `PROJECT.json`.

## 8. What could follow

Modules: **BudgetLease**, a window's lease with refresh (read usage, then
overwrite), settlement, marker and expiry, in integers of the last decimal;
**AgentPool**, use counts across a pending creation, which would compose with
`HedgeRace` at `agents`; **LeaderLock** with the memory fallback; **TraceOutbox**,
which composes with `MessageWriteBuffer`.

Theorems: abstract specifications the other components implement, as the binding
implements its register -- the replay a log with one writer, the write buffer a table of
rows whose outcome is written once -- would say in one formula what their invariants say in
several.
