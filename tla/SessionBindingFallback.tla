----------------------- MODULE SessionBindingFallback -----------------------
(***************************************************************************)
(* Versioned workers and workers in legacy fallback on the same session.   *)
(*                                                                         *)
(* A worker whose Redis connection has no (or not yet) a usable script     *)
(* engine falls back to mutateLegacySessionBindingSafely: plain commands   *)
(* on the two legacy keys, guarded by re-checking that no canonical hash   *)
(* has appeared.  Each command is an action, because any worker's command  *)
(* or script may run between two of them.                                  *)
(***************************************************************************)
EXTENDS SessionBinding

CONSTANTS
    LegacyClients,  \* calls whose worker is in fallback (a request may make both)
    Kinds,          \* the legacy mutations they may ask for
    NoOp,
    MaxStall        \* ticks that may pass while one mutation is running

AllKinds == {"inspect", "refresh", "bind_if_absent", "set", "clear", "terminate"}

ASSUME FallbackAssumption ==
    /\ Kinds \subseteq AllKinds
    /\ MaxStall \in Nat

Stages ==
    {"exists", "get_owner", "get_provider", "claim", "exists_again",
     "expire_owner", "set_owner", "reget_owner", "mutate", "refresh_provider",
     "undo", "late_exists", "late_get", "late_renew", "renew_owner", "recheck",
     "hget_rollback", "rollback", "hget_restore", "restore"}

\* arg: the provider to write, or the one a clear or terminate expects
\* (NoProvider: none expected).  owner, seen: what the two GETs returned.
\* wrote: the mutation itself has been applied.
Ops == [stage : Stages, key : Keys, kind : AllKinds, arg : OptProvider,
        claimed : BOOLEAN, owner : OptKey, seen : OptProvider,
        wrote : BOOLEAN, age : 0..MaxStall]

ASSUME NoOpAssumption == NoOp \notin Ops

VARIABLES
    op,         \* the legacy mutation each call is running, or NoOp
    writer      \* auxiliary: the tenant whose request wrote legacyProvider

vars == <<binding, bindingTtl, legacyOwner, legacyOwnerTtl, legacyProvider,
          legacyProviderTtl, cooldown, snap, op, writer>>

\* A bind or set carries the provider it writes, a restore the one it read.
FallbackTypeOK ==
    /\ TypeOK
    /\ op \in [LegacyClients -> Ops \cup {NoOp}]
    /\ writer \in OptKey
    /\ \A c \in LegacyClients : op[c] # NoOp =>
          /\ op[c].kind \in {"bind_if_absent", "set"} => op[c].arg # NoProvider
          /\ op[c].stage \in {"hget_restore", "restore"} => op[c].seen # NoProvider

\* What an earlier release left in the legacy keys belongs to their owner.
FallbackInit ==
    /\ Init
    /\ op = [c \in LegacyClients |-> NoOp]
    /\ writer = IF legacyProvider = NoProvider THEN NoKey ELSE legacyOwner

-----------------------------------------------------------------------------
(* Single Redis commands on the legacy keys. *)

ExpireOwner ==
    /\ legacyOwnerTtl' = IF legacyOwner = NoKey THEN 0 ELSE TTL
    /\ UNCHANGED legacyOwner

SetOwnerNX(k) ==
    IF legacyOwner = NoKey
    THEN legacyOwner' = k /\ legacyOwnerTtl' = TTL
    ELSE UNCHANGED ownerVars

SetProvider(k, p) ==
    /\ legacyProvider' = p /\ legacyProviderTtl' = TTL /\ writer' = k

DeleteProvider ==
    /\ legacyProvider' = NoProvider /\ legacyProviderTtl' = 0 /\ writer' = NoKey

\* DELETE_LEGACY_PROVIDER_IF_VALUE
DeleteProviderIf(p) ==
    IF legacyProvider = p THEN DeleteProvider
    ELSE UNCHANGED <<legacyProvider, legacyProviderTtl, writer>>

-----------------------------------------------------------------------------
(* One action per command of mutateLegacySessionBindingSafely. *)

At(c, stage) == op[c] # NoOp /\ op[c].stage = stage
Go(c, stage) == op' = [op EXCEPT ![c].stage = stage]
Return(c) == op' = [op EXCEPT ![c] = NoOp]

Begin(c, k, kind, arg) ==
    /\ op[c] = NoOp
    /\ kind \in {"bind_if_absent", "set"} => arg # NoProvider
    /\ kind \in {"inspect", "refresh"} => arg = NoProvider
    /\ op' = [op EXCEPT ![c] =
                 [stage |-> "exists", key |-> k, kind |-> kind, arg |-> arg,
                  claimed |-> FALSE, owner |-> NoKey, seen |-> NoProvider,
                  wrote |-> FALSE, age |-> 0]]
    /\ UNCHANGED <<storeVars, snap, writer>>

\* EXISTS canonical, before anything else and again before the mutation.
CheckCanonical(c) ==
    /\ At(c, "exists") \/ At(c, "exists_again")
    /\ IF Live(op[c].key) THEN Return(c)
       ELSE Go(c, IF op[c].stage = "exists" THEN "get_owner" ELSE "expire_owner")
    /\ UNCHANGED <<storeVars, snap, writer>>

GetOwner(c) ==
    /\ At(c, "get_owner")
    /\ op' = [op EXCEPT ![c].owner = legacyOwner, ![c].stage = "get_provider"]
    /\ UNCHANGED <<storeVars, snap, writer>>

\* Mutants of GetProvider: the owner that was read is not compared; reading
\* the provider renews it (GETEX).
GetProviderAnyOwner(c) ==
    /\ At(c, "get_provider")
    /\ IF op[c].owner = NoKey /\ ~op[c].claimed
       THEN Go(c, "claim")
       ELSE op' = [op EXCEPT ![c].seen = legacyProvider, ![c].owner = NoKey,
                             ![c].claimed = FALSE, ![c].stage = "exists_again"]
    /\ UNCHANGED <<storeVars, snap, writer>>

GetProviderSliding(c) ==
    /\ At(c, "get_provider")
    /\ IF op[c].owner = op[c].key
       THEN op' = [op EXCEPT ![c].seen = legacyProvider, ![c].owner = NoKey,
                             ![c].claimed = FALSE, ![c].stage = "exists_again"]
       ELSE IF op[c].owner # NoKey \/ op[c].claimed \/ legacyProvider # NoProvider
       THEN Return(c) ELSE Go(c, "claim")
    /\ legacyProviderTtl' = IF legacyProvider = NoProvider THEN 0 ELSE TTL
    /\ UNCHANGED <<canonicalVars, ownerVars, legacyProvider, cooldown, snap, writer>>

\* An unowned session is claimed once and read again; a foreign owner or a
\* provider without an owner ends the mutation.
GetProvider(c) ==
    /\ At(c, "get_provider")
    /\ \/ /\ op[c].owner = NoKey /\ ~op[c].claimed
          /\ IF legacyProvider # NoProvider THEN Return(c) ELSE Go(c, "claim")
       \/ /\ op[c].owner # NoKey \/ op[c].claimed
          /\ IF op[c].owner # op[c].key THEN Return(c)
             ELSE op' = [op EXCEPT ![c].seen = legacyProvider, ![c].owner = NoKey,
                                   ![c].claimed = FALSE, ![c].stage = "exists_again"]
    /\ UNCHANGED <<storeVars, snap, writer>>

Claim(c) ==
    /\ At(c, "claim")
    /\ SetOwnerNX(op[c].key)
    /\ op' = [op EXCEPT ![c].claimed = TRUE, ![c].stage = "get_owner"]
    /\ UNCHANGED <<canonicalVars, providerVars, cooldown, snap, writer>>

\* ensureLegacyOwner, before the mutation and after a write: EXPIRE succeeds
\* on whatever owner is there; only an absent one is set and compared.
Ensured(c) == Go(c, IF op[c].wrote THEN "recheck" ELSE "mutate")

RenewOwner(c) ==
    /\ At(c, "expire_owner")
    /\ ExpireOwner
    /\ IF legacyOwner = NoKey THEN Go(c, "set_owner") ELSE Ensured(c)
    /\ UNCHANGED <<canonicalVars, providerVars, cooldown, snap, writer>>

SetOwner(c) ==
    /\ At(c, "set_owner")
    /\ SetOwnerNX(op[c].key)
    /\ Go(c, "reget_owner")
    /\ UNCHANGED <<canonicalVars, providerVars, cooldown, snap, writer>>

CompareOwner(c) ==
    /\ At(c, "reget_owner")
    /\ IF legacyOwner = op[c].key THEN Ensured(c)
       ELSE IF op[c].wrote /\ op[c].kind \in {"bind_if_absent", "set"} THEN Go(c, "undo")
       ELSE Return(c)
    /\ UNCHANGED <<storeVars, snap, writer>>

Undo(c) ==
    /\ At(c, "undo")
    /\ DeleteProviderIf(op[c].arg)
    /\ Return(c)
    /\ UNCHANGED <<canonicalVars, ownerVars, cooldown, snap>>

-----------------------------------------------------------------------------
(* The mutation proper, one action per kind. *)

\* EXPIRE the owner, then the provider if one was read.
Refresh(c) ==
    /\ At(c, "mutate") /\ op[c].kind = "refresh"
    /\ ExpireOwner
    /\ Go(c, IF op[c].seen # NoProvider THEN "refresh_provider" ELSE "recheck")
    /\ UNCHANGED <<canonicalVars, providerVars, cooldown, snap, writer>>

RefreshProvider(c) ==
    /\ At(c, "refresh_provider")
    /\ legacyProviderTtl' = IF legacyProvider = NoProvider THEN 0 ELSE TTL
    /\ Go(c, "recheck")
    /\ UNCHANGED <<canonicalVars, ownerVars, legacyProvider, cooldown, snap, writer>>

\* SET NX; losing to a concurrent bind, or reading a provider, only reports it.
BindIfAbsent(c) ==
    /\ At(c, "mutate") /\ op[c].kind = "bind_if_absent"
    /\ IF op[c].seen = NoProvider /\ legacyProvider = NoProvider
       THEN /\ SetProvider(op[c].key, op[c].arg)
            /\ op' = [op EXCEPT ![c].wrote = TRUE, ![c].stage = "expire_owner"]
       ELSE Return(c) /\ UNCHANGED <<providerVars, writer>>
    /\ UNCHANGED <<canonicalVars, ownerVars, cooldown, snap>>

SetLegacy(c) ==
    /\ At(c, "mutate") /\ op[c].kind = "set"
    /\ SetProvider(op[c].key, op[c].arg)
    /\ op' = [op EXCEPT ![c].wrote = TRUE, ![c].stage = "expire_owner"]
    /\ UNCHANGED <<canonicalVars, ownerVars, cooldown, snap>>

Inspect(c) ==
    /\ At(c, "mutate") /\ op[c].kind = "inspect"
    /\ Return(c)
    /\ UNCHANGED <<storeVars, snap, writer>>

Unexpected(c) == op[c].arg # NoProvider /\ op[c].seen # op[c].arg

\* Nothing read: a clear is done, a terminate still renews its tombstone.
ClearLegacy(c) ==
    /\ At(c, "mutate") /\ op[c].kind = "clear"
    /\ IF Unexpected(c) \/ op[c].seen = NoProvider
       THEN Return(c) /\ UNCHANGED <<providerVars, writer>>
       ELSE /\ DeleteProviderIf(op[c].seen)
            /\ Go(c, IF legacyProvider = op[c].seen THEN "renew_owner" ELSE "late_exists")
    /\ UNCHANGED <<canonicalVars, ownerVars, cooldown, snap>>

TerminateLegacy(c) ==
    /\ At(c, "mutate") /\ op[c].kind = "terminate"
    /\ IF Unexpected(c) \/ (op[c].seen # NoProvider /\ legacyProvider # op[c].seen)
       THEN Return(c) /\ UNCHANGED <<providerVars, writer>>
       ELSE /\ op' = [op EXCEPT ![c].wrote = TRUE, ![c].stage = "expire_owner"]
            /\ IF op[c].seen = NoProvider THEN UNCHANGED <<providerVars, writer>>
               ELSE DeleteProvider
    /\ UNCHANGED <<canonicalVars, ownerVars, cooldown, snap>>

\* A failed conditional delete of a clear: done if the provider is gone.
LateExists(c) ==
    /\ At(c, "late_exists")
    /\ IF Live(op[c].key) THEN Return(c) ELSE Go(c, "late_get")
    /\ UNCHANGED <<storeVars, snap, writer>>

LateGet(c) ==
    /\ At(c, "late_get")
    /\ IF legacyProvider = NoProvider THEN Go(c, "late_renew") ELSE Return(c)
    /\ UNCHANGED <<storeVars, snap, writer>>

RenewTombstone(c) ==
    /\ At(c, "late_renew") \/ At(c, "renew_owner")
    /\ ExpireOwner
    /\ IF op[c].stage = "late_renew" THEN Return(c) ELSE Go(c, "recheck")
    /\ UNCHANGED <<canonicalVars, providerVars, cooldown, snap, writer>>

-----------------------------------------------------------------------------
(* rejectLegacyMutationAfterCanonicalAppeared. *)

\* Mutant: a clear or terminate that found no provider restores it too.
RecheckRestoresNull(c) ==
    /\ At(c, "recheck")
    /\ IF ~Live(op[c].key) \/ op[c].kind = "refresh" THEN Return(c)
       ELSE Go(c, IF op[c].kind \in {"clear", "terminate"} THEN "hget_restore"
                  ELSE "hget_rollback")
    /\ UNCHANGED <<storeVars, snap, writer>>

Recheck(c) ==
    /\ At(c, "recheck")
    /\ \/ /\ Live(op[c].key)
          /\ \/ /\ op[c].kind \in {"bind_if_absent", "set"}
                /\ Go(c, "hget_rollback")
             \/ /\ op[c].kind \in {"clear", "terminate"}
                /\ IF op[c].seen = NoProvider THEN Return(c) ELSE Go(c, "hget_restore")
             \/ op[c].kind = "refresh" /\ Return(c)
       \/ ~Live(op[c].key) /\ Return(c)
    /\ UNCHANGED <<storeVars, snap, writer>>

HgetRollback(c) ==
    /\ At(c, "hget_rollback")
    /\ IF binding[op[c].key].provider = op[c].arg THEN Return(c) ELSE Go(c, "rollback")
    /\ UNCHANGED <<storeVars, snap, writer>>

Rollback(c) ==
    /\ At(c, "rollback")
    /\ DeleteProviderIf(op[c].arg)
    /\ Return(c)
    /\ UNCHANGED <<canonicalVars, ownerVars, cooldown, snap>>

HgetRestore(c) ==
    /\ At(c, "hget_restore")
    /\ IF binding[op[c].key].provider = op[c].seen THEN Go(c, "restore") ELSE Return(c)
    /\ UNCHANGED <<storeVars, snap, writer>>

\* RESTORE_LEGACY_PROVIDER_IF_ABSENT
Restore(c) ==
    /\ At(c, "restore")
    /\ IF legacyProvider = NoProvider THEN SetProvider(op[c].key, op[c].seen)
       ELSE UNCHANGED <<providerVars, writer>>
    /\ Return(c)
    /\ UNCHANGED <<canonicalVars, ownerVars, cooldown, snap>>

\* The worker dies, or a command fails and the mutation gives up where it is.
Abort(c) ==
    /\ op[c] # NoOp
    /\ Return(c)
    /\ UNCHANGED <<storeVars, snap, writer>>

-----------------------------------------------------------------------------
(* Composition. *)

Proceed(c) ==
    \/ CheckCanonical(c) \/ GetOwner(c) \/ GetProvider(c) \/ Claim(c)
    \/ RenewOwner(c) \/ SetOwner(c) \/ CompareOwner(c) \/ Undo(c)
    \/ Inspect(c) \/ Refresh(c) \/ RefreshProvider(c) \/ BindIfAbsent(c)
    \/ SetLegacy(c) \/ ClearLegacy(c) \/ TerminateLegacy(c)
    \/ LateExists(c) \/ LateGet(c) \/ RenewTombstone(c)
    \/ Recheck(c) \/ HgetRollback(c) \/ Rollback(c) \/ HgetRestore(c) \/ Restore(c)

LegacyStep(c) ==
    \/ \E k \in Keys, kind \in Kinds, arg \in OptProvider : Begin(c, k, kind, arg)
    \/ Proceed(c)
    \/ Abort(c)

\* Redis runs a whole script between two commands of a legacy mutation.
VersionedScript ==
    /\ VersionedStep
    /\ writer' = IF legacyProvider' = NoProvider THEN NoKey
                 ELSE IF \E c \in Clients, p \in Providers, g \in Generations :
                            CompareAndSet(c, p, g)
                      THEN legacyOwner'
                      ELSE writer
    /\ UNCHANGED op

Tick ==
    /\ Expiry
    /\ \A c \in LegacyClients : op[c] # NoOp => op[c].age < MaxStall
    /\ op' = [c \in LegacyClients |->
                IF op[c] = NoOp THEN NoOp ELSE [op[c] EXCEPT !.age = @ + 1]]
    /\ writer' = IF legacyProvider' = NoProvider THEN NoKey ELSE writer

FallbackNext ==
    \/ VersionedScript
    \/ \E c \in LegacyClients : LegacyStep(c)
    \/ Tick

\* A mutation awaits each command in turn, and Redis answers or the client's
\* command timeout aborts it; expiry needs no one's help.
FallbackSpec ==
    /\ FallbackInit /\ [][FallbackNext]_vars
    /\ WF_vars(Tick)
    /\ \A c \in LegacyClients : WF_vars(Proceed(c))

-----------------------------------------------------------------------------
(* Properties. *)

\* One tenant's request never reads or imports a provider that a request of
\* another tenant bound: whoever owns the session wrote its mirror.  Needs
\* MaxStall = 0, no key expiring inside a legacy mutation.
TenantIsolation ==
    legacyProvider # NoProvider /\ legacyOwner # NoKey => writer = legacyOwner

\* The comment on rejectLegacyMutationAfterCanonicalAppeared: the rollback of
\* a legacy write never deletes a mirror a versioned worker has since written.
RollbackSparesVersionedMirror ==
    [][\A c \in LegacyClients, k \in Keys :
         Rollback(c) /\ Live(k) /\ Mirrored(k) => Mirrored(k)']_vars

\* The tests name these mutations tenant-safe and expect foreign legacy state to
\* be rejected before any of them: a legacy write reaches only a session that
\* its own tenant owns.
LegacyWritesOwnSession ==
    [][\A c \in LegacyClients :
         (SetLegacy(c) \/ BindIfAbsent(c)) /\ legacyProvider' # legacyProvider
            => legacyOwner \in {NoKey, op[c].key}]_vars

\* Legacy commands may leave mirrors that disagree with the canonical hash, so
\* that every script answers mirror_conflict; the conflict still ends, because
\* nothing renews a binding whose mirrors disagree.
ConflictClears ==
    \A k \in Keys : (Live(k) /\ ~Mirrored(k)) ~> (~Live(k) \/ Mirrored(k))

\* A provider left without an owner blocks every tenant, but not for ever.
OrphanClears ==
    (legacyOwner = NoKey /\ legacyProvider # NoProvider)
        ~> (legacyOwner # NoKey \/ legacyProvider = NoProvider)
=============================================================================
