--------------------------- MODULE SessionBinding ---------------------------
(***************************************************************************)
(* The Redis state that binds one session id to an upstream provider, and  *)
(* the versioned Lua scripts that change it.                               *)
(*                                                                         *)
(* A session id is claimed by one tenant (an API key).  A canonical hash   *)
(* per tenant holds a generation and a provider; two legacy keys, shared   *)
(* by all tenants, mirror the owner and the provider for workers that lack *)
(* the scripts (SessionBindingFallback adds those).  Each script runs      *)
(* atomically in Redis, so each is one action.  Only one session id is     *)
(* modelled: no script touches the keys of two.                            *)
(***************************************************************************)
EXTENDS Naturals

CONSTANTS
    Keys,           \* the API keys (tenants) that present this session id
    Providers,      \* upstream providers
    Clients,        \* in-flight requests and administrative calls
    Generations,    \* UUIDs; one nobody holds any more may be drawn again
    NoKey, NoProvider, NoGeneration, NoSnapshot,
    TTL,            \* lifetime of the three keys, in ticks
    CooldownTTL     \* lifetime of a cooldown marker, in ticks; 0: none is written

ASSUME ConstantsAssumption ==
    /\ NoKey \notin Keys
    /\ NoProvider \notin Providers
    /\ NoGeneration \notin Generations
    /\ TTL \in Nat \ {0}
    /\ CooldownTTL \in Nat

OptKey == Keys \cup {NoKey}
OptProvider == Providers \cup {NoProvider}

\* What a successful script hands to the request.
Snapshots == [key : Keys, generation : Generations, provider : OptProvider]

ASSUME SnapshotAssumption == NoSnapshot \notin Snapshots

\* ... nor is it what a request knows of the register below, and no provider
\* stands for the absent register.
ASSUME ViewAssumption == NoSnapshot \notin [key : Keys, provider : OptProvider]
ASSUME ValueAssumption == NoGeneration \notin OptProvider

VARIABLES
    binding,            \* canonical hash of each tenant
    bindingTtl,         \* its remaining lifetime; 0: the key does not exist
    legacyOwner, legacyOwnerTtl,
    legacyProvider, legacyProviderTtl,
    cooldown,           \* remaining lifetime of each tenant's cooldown markers
    snap                \* the snapshot each request captured

canonicalVars == <<binding, bindingTtl>>
ownerVars == <<legacyOwner, legacyOwnerTtl>>
providerVars == <<legacyProvider, legacyProviderTtl>>
storeVars == <<binding, bindingTtl, legacyOwner, legacyOwnerTtl,
               legacyProvider, legacyProviderTtl, cooldown>>
bindingVars == <<binding, bindingTtl, legacyOwner, legacyOwnerTtl,
                 legacyProvider, legacyProviderTtl, cooldown, snap>>

NoBinding == [generation |-> NoGeneration, provider |-> NoProvider]

Live(k) == bindingTtl[k] > 0

\* Well-typed values; a key that does not exist carries no value.
TypeOK ==
    /\ binding \in [Keys -> [generation : Generations \cup {NoGeneration},
                             provider : OptProvider]]
    /\ bindingTtl \in [Keys -> 0..TTL]
    /\ legacyOwner \in OptKey /\ legacyOwnerTtl \in 0..TTL
    /\ legacyProvider \in OptProvider /\ legacyProviderTtl \in 0..TTL
    /\ cooldown \in [Keys -> [Providers -> 0..CooldownTTL]]
    /\ snap \in [Clients -> Snapshots \cup {NoSnapshot}]
    /\ \A k \in Keys : Live(k) => binding[k].generation # NoGeneration
    /\ \A k \in Keys : ~Live(k) => binding[k] = NoBinding
    /\ (legacyOwner = NoKey) = (legacyOwnerTtl = 0)
    /\ (legacyProvider = NoProvider) = (legacyProviderTtl = 0)

-----------------------------------------------------------------------------
\* No canonical hash yet; the legacy keys hold whatever an earlier release
\* left, since the scripts must reconcile with it during a rolling upgrade.
Init ==
    /\ binding = [k \in Keys |-> NoBinding]
    /\ bindingTtl = [k \in Keys |-> 0]
    /\ legacyOwner \in OptKey /\ legacyOwnerTtl \in 0..TTL
    /\ legacyProvider \in OptProvider /\ legacyProviderTtl \in 0..TTL
    /\ (legacyOwner = NoKey) = (legacyOwnerTtl = 0)
    /\ (legacyProvider = NoProvider) = (legacyProviderTtl = 0)
    /\ cooldown = [k \in Keys |-> [p \in Providers |-> 0]]
    /\ snap = [c \in Clients |-> NoSnapshot]

-----------------------------------------------------------------------------
(* The checks the scripts share. *)

\* The mirrors agree with the canonical hash of tenant k.
Mirrored(k) ==
    /\ legacyOwner = k
    /\ legacyProvider = binding[k].provider

\* Mutant: the generation comparison is dropped.
MatchesTenant(s) == Live(s.key)

\* CAS, touch and clear compare the generation the caller captured.
Matches(s) == Live(s.key) /\ binding[s.key].generation = s.generation

Fresh(g) ==
    /\ \A k \in Keys : binding[k].generation # g
    /\ \A c \in Clients : snap[c] # NoSnapshot => snap[c].generation # g

\* Mutants of Write: the mirror of a null binding is given a lifetime; it is
\* not deleted; the lifetime of an existing owner is not renewed.
WriteTimesNull(k, g, p) ==
    /\ binding' = [binding EXCEPT ![k] = [generation |-> g, provider |-> p]]
    /\ bindingTtl' = [bindingTtl EXCEPT ![k] = TTL]
    /\ legacyOwner' = k /\ legacyOwnerTtl' = TTL
    /\ legacyProvider' = p /\ legacyProviderTtl' = TTL

WriteKeepsMirror(k, g, p) ==
    /\ binding' = [binding EXCEPT ![k] = [generation |-> g, provider |-> p]]
    /\ bindingTtl' = [bindingTtl EXCEPT ![k] = TTL]
    /\ legacyOwner' = k /\ legacyOwnerTtl' = TTL
    /\ IF p = NoProvider THEN UNCHANGED providerVars
       ELSE legacyProvider' = p /\ legacyProviderTtl' = TTL

WriteKeepsOwnerTtl(k, g, p) ==
    /\ binding' = [binding EXCEPT ![k] = [generation |-> g, provider |-> p]]
    /\ bindingTtl' = [bindingTtl EXCEPT ![k] = TTL]
    /\ legacyOwner' = k
    /\ legacyOwnerTtl' = IF legacyOwner = NoKey THEN TTL ELSE legacyOwnerTtl
    /\ legacyProvider' = p
    /\ legacyProviderTtl' = IF p = NoProvider THEN 0 ELSE TTL

\* A script writes the hash and both mirrors with one lifetime.
Write(k, g, p) ==
    /\ binding' = [binding EXCEPT ![k] = [generation |-> g, provider |-> p]]
    /\ bindingTtl' = [bindingTtl EXCEPT ![k] = TTL]
    /\ legacyOwner' = k /\ legacyOwnerTtl' = TTL
    /\ legacyProvider' = p
    /\ legacyProviderTtl' = IF p = NoProvider THEN 0 ELSE TTL

\* The reply reaches the request, or the connection changes first: then the
\* effect stays, the outcome is unknown and no fallback is allowed.
Reply(c, k, g, p) ==
    \/ snap' = [snap EXCEPT ![c] = [key |-> k, generation |-> g, provider |-> p]]
    \/ UNCHANGED snap

-----------------------------------------------------------------------------
(* One action per script.  A script that answers "conflict" changes nothing. *)

ReadExisting(c, k) ==
    /\ Live(k) /\ Mirrored(k)
    /\ Write(k, binding[k].generation, binding[k].provider)
    /\ Reply(c, k, binding[k].generation, binding[k].provider)
    /\ UNCHANGED cooldown

\* Create a null binding, or import the provider of a legacy mirror this
\* tenant owns; never a provider without an owner.
Reconcile(c, k, g) ==
    /\ ~Live(k) /\ Fresh(g)
    /\ legacyOwner \in {NoKey, k}
    /\ legacyOwner = NoKey => legacyProvider = NoProvider
    /\ Write(k, g, legacyProvider)
    /\ Reply(c, k, g, legacyProvider)
    /\ UNCHANGED cooldown

ReadOrReconcile(c, k) ==
    \/ ReadExisting(c, k)
    \/ \E g \in Generations : Reconcile(c, k, g)

\* Mutant: the generation is not rotated.
CompareAndSetInPlace(c, p, g) ==
    /\ snap[c] # NoSnapshot /\ Fresh(g)
    /\ Matches(snap[c]) /\ Mirrored(snap[c].key)
    /\ Write(snap[c].key, snap[c].generation, p)
    /\ Reply(c, snap[c].key, snap[c].generation, p)
    /\ UNCHANGED cooldown

CompareAndSet(c, p, g) ==
    /\ snap[c] # NoSnapshot /\ Fresh(g)
    /\ Matches(snap[c]) /\ Mirrored(snap[c].key)
    /\ Write(snap[c].key, g, p)
    /\ Reply(c, snap[c].key, g, p)
    /\ UNCHANGED cooldown

\* Mutant: the heartbeat does not validate the mirrors.
TouchUnchecked(c) ==
    /\ snap[c] # NoSnapshot
    /\ Matches(snap[c])
    /\ binding[snap[c].key].provider = snap[c].provider
    /\ bindingTtl' = [bindingTtl EXCEPT ![snap[c].key] = TTL]
    /\ legacyOwnerTtl' = TTL
    /\ UNCHANGED <<binding, legacyOwner, providerVars, cooldown, snap>>

\* The heartbeat of a running request.
Touch(c) ==
    /\ snap[c] # NoSnapshot
    /\ Matches(snap[c]) /\ Mirrored(snap[c].key)
    /\ binding[snap[c].key].provider = snap[c].provider
    /\ Write(snap[c].key, snap[c].generation, snap[c].provider)
    /\ UNCHANGED <<cooldown, snap>>

\* The provider comes off and, for a timed-out one, its cooldown starts in
\* the same script.
Clear(c, g, cool) ==
    /\ snap[c] # NoSnapshot /\ Fresh(g)
    /\ Matches(snap[c]) /\ Mirrored(snap[c].key)
    /\ binding[snap[c].key].provider = snap[c].provider
    /\ cool => snap[c].provider # NoProvider
    /\ Write(snap[c].key, g, NoProvider)
    /\ cooldown' = IF cool
                   THEN [cooldown EXCEPT ![snap[c].key][snap[c].provider] = CooldownTTL]
                   ELSE cooldown
    /\ Reply(c, snap[c].key, g, NoProvider)

\* Administrative: any generation, optionally one expected provider.
Terminate(k, expected, g) ==
    /\ Live(k) /\ Fresh(g) /\ Mirrored(k)
    /\ expected # NoProvider => binding[k].provider = expected
    /\ Write(k, g, NoProvider)
    /\ UNCHANGED <<cooldown, snap>>

\* The request ends, or drops a snapshot it no longer trusts.
Forget(c) ==
    /\ snap[c] # NoSnapshot
    /\ snap' = [snap EXCEPT ![c] = NoSnapshot]
    /\ UNCHANGED storeVars

-----------------------------------------------------------------------------
(* Redis expiry.  Keys given their lifetime by one script expire together. *)

Less(n) == IF n > 0 THEN n - 1 ELSE 0

Expiry ==
    /\ bindingTtl' = [k \in Keys |-> Less(bindingTtl[k])]
    /\ binding' = [k \in Keys |-> IF bindingTtl[k] > 1 THEN binding[k] ELSE NoBinding]
    /\ legacyOwnerTtl' = Less(legacyOwnerTtl)
    /\ legacyOwner' = IF legacyOwnerTtl > 1 THEN legacyOwner ELSE NoKey
    /\ legacyProviderTtl' = Less(legacyProviderTtl)
    /\ legacyProvider' = IF legacyProviderTtl > 1 THEN legacyProvider ELSE NoProvider
    /\ cooldown' = [k \in Keys |-> [p \in Providers |-> Less(cooldown[k][p])]]
    /\ UNCHANGED snap

VersionedStep ==
    \/ \E c \in Clients, k \in Keys : ReadOrReconcile(c, k)
    \/ \E c \in Clients, p \in Providers, g \in Generations : CompareAndSet(c, p, g)
    \/ \E c \in Clients : Touch(c)
    \/ \E c \in Clients, g \in Generations, cool \in BOOLEAN : Clear(c, g, cool)
    \/ \E k \in Keys, e \in OptProvider, g \in Generations : Terminate(k, e, g)
    \/ \E c \in Clients : Forget(c)

Next == VersionedStep \/ Expiry

Spec == Init /\ [][Next]_bindingVars /\ WF_bindingVars(Expiry)

-----------------------------------------------------------------------------
(* Properties. *)

\* A canonical hash never outlives its owner mirror, so at most one tenant
\* holds the session (the mirror_missing and foreign_legacy_owner conflicts
\* are unreachable for the owner).  Terminate's "tombstone" comments rest on it.
OwnerBacksCanonical ==
    \A k \in Keys : Live(k) => legacyOwner = k /\ bindingTtl[k] <= legacyOwnerTtl

\* Equal generations mean equal bindings, wherever they are held: this is
\* what lets compareAndSetSessionBinding compare nothing but the generation.
Current(k) == [key |-> k, generation |-> binding[k].generation,
               provider |-> binding[k].provider]

GenerationIdentifiesBinding ==
    /\ \A c \in Clients, k \in Keys :
         snap[c] # NoSnapshot /\ Live(k) /\ snap[c].generation = binding[k].generation
            => snap[c] = Current(k)
    /\ \A c, d \in Clients :
         /\ snap[c] # NoSnapshot /\ snap[d] # NoSnapshot
         /\ snap[c].generation = snap[d].generation
         => snap[c] = snap[d]

\* As long as every worker runs the scripts, the mirrors of a live binding
\* never drift: no versioned request meets mirror_conflict.
MirrorsAgree ==
    \A k \in Keys : Live(k) => Mirrored(k) /\ legacyOwnerTtl = bindingTtl[k]

-----------------------------------------------------------------------------
(* The abstract register and the mapping to it. *)

value == [k \in Keys |-> IF Live(k) THEN binding[k].provider ELSE NoGeneration]

view == [c \in Clients |->
            IF snap[c] # NoSnapshot /\ Matches(snap[c])
            THEN [key |-> snap[c].key, provider |-> snap[c].provider]
            ELSE NoSnapshot]

Register == INSTANCE SessionRegister WITH Absent <- NoGeneration, Stale <- NoSnapshot

\* A request that captured the binding before another change replaced it can
\* neither rebind, clear nor cool down a provider, and two tenants never hold
\* the session together: every step is a step of the register.
ImplementsRegister == Register!RegSpec
=============================================================================
