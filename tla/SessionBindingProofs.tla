------------------------ MODULE SessionBindingProofs ------------------------
(***************************************************************************)
(* Proofs about the session binding, for every set of tenants, providers   *)
(* and callers and every lifetime.                                         *)
(***************************************************************************)
EXTENDS SessionBindingFallback, TLAPS

USE ConstantsAssumption, SnapshotAssumption DEF OptKey, OptProvider, Snapshots

\* A script's joint write of the hash and both mirrors is well-typed and keeps
\* the owner at least as long as the hash.
LEMMA WriteStore ==
    ASSUME TypeOK, OwnerBacksCanonical,
           NEW k \in Keys, NEW g \in Generations, NEW p \in OptProvider,
           legacyOwner \in {NoKey, k},
           Write(k, g, p)
    PROVE  /\ binding' \in [Keys -> [generation : Generations \cup {NoGeneration},
                                      provider : OptProvider]]
           /\ bindingTtl' \in [Keys -> 0..TTL]
           /\ legacyOwner' \in OptKey /\ legacyOwnerTtl' \in 0..TTL
           /\ legacyProvider' \in OptProvider /\ legacyProviderTtl' \in 0..TTL
           /\ \A j \in Keys : Live(j)' => binding[j].generation' # NoGeneration
           /\ \A j \in Keys : ~Live(j)' => binding[j]' = NoBinding
           /\ (legacyOwner = NoKey)' = (legacyOwnerTtl = 0)'
           /\ (legacyProvider = NoProvider)' = (legacyProviderTtl = 0)'
           /\ OwnerBacksCanonical'
           /\ \A j \in Keys : Live(j)' <=> j = k
BY DEF TypeOK, OwnerBacksCanonical, Write, Live, NoBinding

\* What the versioned scripts and expiry preserve, with or without legacy
\* workers on the same keys.
IInv == TypeOK /\ OwnerBacksCanonical /\ GenerationIdentifiesBinding

LEMMA InitIInv == Init => IInv
BY DEF Init, IInv, TypeOK, OwnerBacksCanonical, GenerationIdentifiesBinding, Live, NoBinding

\* A fresh generation makes a new binding no snapshot can be mistaken for; an
\* unchanged one must come with the unchanged binding.
LEMMA WriteSnapshot ==
    ASSUME IInv,
           NEW k \in Keys, NEW g \in Generations, NEW p \in OptProvider,
           legacyOwner \in {NoKey, k},
           \/ Fresh(g)
           \/ Live(k) /\ binding[k].generation = g /\ binding[k].provider = p,
           Write(k, g, p), (\E c \in Clients : Reply(c, k, g, p)) \/ UNCHANGED snap
    PROVE  /\ snap' \in [Clients -> Snapshots \cup {NoSnapshot}]
           /\ GenerationIdentifiesBinding'
<1> DEFINE new == [key |-> k, generation |-> g, provider |-> p]
<1>1. new \in Snapshots /\ new # NoSnapshot
  OBVIOUS
<1>2. snap' \in [Clients -> Snapshots \cup {NoSnapshot}]
  BY <1>1 DEF Reply, IInv, TypeOK
<1>3. \A j \in Keys : Live(j)' => j = k
  BY WriteStore DEF IInv
<1>4. binding'[k] = [generation |-> g, provider |-> p] /\ Current(k)' = new
  BY DEF Write, Current, IInv, TypeOK
<1>5. \A d \in Clients : snap[d] # NoSnapshot /\ snap[d].generation = g => snap[d] = new
  <2>1. CASE Fresh(g)
    BY <2>1 DEF Fresh
  <2>2. CASE Live(k) /\ binding[k].generation = g /\ binding[k].provider = p
    BY <2>2 DEF IInv, GenerationIdentifiesBinding, Current
  <2> QED BY <2>1, <2>2
<1>6. \A d \in Clients : snap'[d] = snap[d] \/ snap'[d] = new
  BY <1>1 DEF Reply, IInv, TypeOK
<1>7. \A d \in Clients, j \in Keys :
         snap'[d] # NoSnapshot /\ Live(j)' /\ snap'[d].generation = binding'[j].generation
            => snap'[d] = Current(j)'
  BY <1>3, <1>4, <1>5, <1>6
<1>8. \A d, e \in Clients :
         /\ snap'[d] # NoSnapshot /\ snap'[e] # NoSnapshot
         /\ snap'[d].generation = snap'[e].generation
         => snap'[d] = snap'[e]
  <2> SUFFICES ASSUME NEW d \in Clients, NEW e \in Clients,
                      snap'[d] # NoSnapshot, snap'[e] # NoSnapshot,
                      snap'[d].generation = snap'[e].generation
               PROVE  snap'[d] = snap'[e]
    OBVIOUS
  <2>1. CASE snap'[d] = snap[d] /\ snap'[e] = snap[e]
    BY <2>1 DEF IInv, GenerationIdentifiesBinding
  <2>2. CASE snap'[d] = new \/ snap'[e] = new
    BY <2>2, <1>5, <1>6
  <2> QED BY <2>1, <2>2, <1>6
<1> QED BY <1>2, <1>7, <1>8 DEF GenerationIdentifiesBinding

\* The two lemmas together: the step of any script that writes.
LEMMA WriteIInv ==
    ASSUME IInv,
           NEW k \in Keys, NEW g \in Generations, NEW p \in OptProvider,
           legacyOwner \in {NoKey, k},
           \/ Fresh(g)
           \/ Live(k) /\ binding[k].generation = g /\ binding[k].provider = p,
           Write(k, g, p), (\E c \in Clients : Reply(c, k, g, p)) \/ UNCHANGED snap,
           cooldown' \in [Keys -> [Providers -> 0..CooldownTTL]]
    PROVE  IInv'
BY WriteStore, WriteSnapshot DEF IInv, TypeOK

LEMMA VersionedIInv == ASSUME IInv, VersionedStep PROVE IInv'
<1>1. ASSUME NEW c \in Clients, NEW k \in Keys, ReadOrReconcile(c, k) PROVE IInv'
  <2>1. CASE ReadExisting(c, k)
    <3>1. /\ legacyOwner = k
          /\ binding[k].generation \in Generations
          /\ binding[k].provider \in OptProvider
      BY <2>1 DEF ReadExisting, Mirrored, IInv, TypeOK
    <3> QED BY <2>1, <3>1, WriteIInv DEF ReadExisting, IInv, TypeOK
  <2>2. ASSUME NEW g \in Generations, Reconcile(c, k, g) PROVE IInv'
    <3>1. legacyProvider \in OptProvider
      BY DEF IInv, TypeOK
    <3> QED BY <2>2, <3>1, WriteIInv DEF Reconcile, IInv, TypeOK
  <2> QED BY <1>1, <2>1, <2>2 DEF ReadOrReconcile
<1>2. ASSUME NEW c \in Clients, NEW p \in Providers, NEW g \in Generations,
             CompareAndSet(c, p, g)
      PROVE  IInv'
  <2>1. snap[c].key \in Keys
    BY <1>2 DEF CompareAndSet, IInv, TypeOK
  <2> QED BY <1>2, <2>1, WriteIInv DEF CompareAndSet, Mirrored, IInv, TypeOK
<1>3. ASSUME NEW c \in Clients, Touch(c) PROVE IInv'
  <2>1. snap[c] \in Snapshots
    BY <1>3 DEF Touch, IInv, TypeOK
  <2> QED BY <1>3, <2>1, WriteIInv DEF Touch, Matches, Mirrored, IInv, TypeOK
<1>4. ASSUME NEW c \in Clients, NEW g \in Generations, NEW cool \in BOOLEAN,
             Clear(c, g, cool)
      PROVE  IInv'
  <2>1. snap[c] \in Snapshots
    BY <1>4 DEF Clear, IInv, TypeOK
  <2>2. cooldown' \in [Keys -> [Providers -> 0..CooldownTTL]]
    BY <1>4, <2>1 DEF Clear, IInv, TypeOK
  <2> QED BY <1>4, <2>1, <2>2, WriteIInv DEF Clear, Mirrored
<1>5. ASSUME NEW k \in Keys, NEW e \in OptProvider, NEW g \in Generations,
             Terminate(k, e, g)
      PROVE  IInv'
  BY <1>5, WriteIInv DEF Terminate, Mirrored, IInv, TypeOK
<1>6. ASSUME NEW c \in Clients, Forget(c) PROVE IInv'
  <2>1. \A d \in Clients : snap'[d] \in {snap[d], NoSnapshot}
    BY <1>6 DEF Forget, IInv, TypeOK
  <2> QED BY <1>6, <2>1 DEF Forget, storeVars, IInv, TypeOK, OwnerBacksCanonical,
             GenerationIdentifiesBinding, Live, Current
<1> QED BY <1>1, <1>2, <1>3, <1>4, <1>5, <1>6 DEF VersionedStep

LEMMA ExpiryIInv == ASSUME IInv, Expiry PROVE IInv'
<1>1. TypeOK'
  BY DEF IInv, TypeOK, Expiry, Less, Live, NoBinding
<1>2. OwnerBacksCanonical'
  BY DEF IInv, TypeOK, OwnerBacksCanonical, Expiry, Less, Live
<1>3. \A k \in Keys : Live(k)' => Live(k) /\ Current(k)' = Current(k)
                                   /\ binding'[k] = binding[k]
  BY DEF IInv, TypeOK, Expiry, Less, Live, Current
<1>4. GenerationIdentifiesBinding'
  BY <1>3 DEF IInv, GenerationIdentifiesBinding, Expiry
<1> QED BY <1>1, <1>2, <1>4 DEF IInv

-----------------------------------------------------------------------------
(* The versioned workers alone. *)

THEOREM VersionedInvariant == Spec => []IInv
<1>1. IInv /\ [Next]_bindingVars => IInv'
  <2> SUFFICES ASSUME IInv, [Next]_bindingVars PROVE IInv'
    OBVIOUS
  <2>1. CASE VersionedStep
    BY <2>1, VersionedIInv
  <2>2. CASE Expiry
    BY <2>2, ExpiryIInv
  <2>3. CASE UNCHANGED bindingVars
    BY <2>3 DEF bindingVars, IInv, TypeOK, OwnerBacksCanonical, GenerationIdentifiesBinding,
         Live, Current
  <2> QED BY <2>1, <2>2, <2>3 DEF Next
<1> QED BY InitIInv, <1>1, PTL DEF Spec

\* Keys that expired hold nothing and live ones a positive lifetime, whatever
\* scripts run and whichever replies are lost.
THEOREM VersionedTypes == Spec => []TypeOK
BY VersionedInvariant, PTL DEF IInv

\* The mirror of the provider must expire with the binding, not just agree.
MirrorInv ==
    \A k \in Keys : Live(k) =>
        /\ Mirrored(k) /\ legacyOwnerTtl = bindingTtl[k]
        /\ legacyProvider # NoProvider => legacyProviderTtl = bindingTtl[k]

LEMMA WriteMirror ==
    ASSUME IInv, NEW k \in Keys, NEW g \in Generations, NEW p \in OptProvider,
           legacyOwner \in {NoKey, k}, Write(k, g, p)
    PROVE  MirrorInv'
<1>1. \A j \in Keys : Live(j)' => j = k
  BY WriteStore DEF IInv
<1> QED BY <1>1 DEF Write, MirrorInv, Mirrored, Live, IInv, TypeOK

\* Every step that is not an expiry writes all three keys or none.
LEMMA VersionedWrites ==
    ASSUME IInv, VersionedStep
    PROVE  \/ \E k \in Keys, g \in Generations, p \in OptProvider :
                legacyOwner \in {NoKey, k} /\ Write(k, g, p)
           \/ UNCHANGED storeVars
<1>1. ASSUME NEW c \in Clients, snap[c] # NoSnapshot PROVE snap[c] \in Snapshots
  BY <1>1 DEF IInv, TypeOK
<1>2. ASSUME NEW k \in Keys, Live(k), Mirrored(k)
      PROVE  /\ binding[k].generation \in Generations /\ binding[k].provider \in OptProvider
             /\ legacyOwner \in {NoKey, k}
  BY <1>2 DEF IInv, TypeOK, Mirrored
<1>3. ASSUME NEW c \in Clients, NEW k \in Keys, ReadOrReconcile(c, k)
      PROVE \E g \in Generations, p \in OptProvider :
                legacyOwner \in {NoKey, k} /\ Write(k, g, p)
  BY <1>2, <1>3 DEF ReadOrReconcile, ReadExisting, Reconcile, IInv, TypeOK
<1>4. ASSUME NEW c \in Clients, NEW p \in Providers, NEW g \in Generations,
             CompareAndSet(c, p, g)
      PROVE legacyOwner \in {NoKey, snap[c].key} /\ Write(snap[c].key, g, p)
  BY <1>1, <1>4 DEF CompareAndSet, Mirrored
<1>5. ASSUME NEW c \in Clients, Touch(c)
      PROVE /\ legacyOwner \in {NoKey, snap[c].key}
            /\ Write(snap[c].key, snap[c].generation, snap[c].provider)
  BY <1>1, <1>5 DEF Touch, Mirrored
<1>6. ASSUME NEW c \in Clients, NEW g \in Generations, NEW cool \in BOOLEAN, Clear(c, g, cool)
      PROVE legacyOwner \in {NoKey, snap[c].key} /\ Write(snap[c].key, g, NoProvider)
  BY <1>1, <1>6 DEF Clear, Mirrored
<1>7. ASSUME NEW k \in Keys, NEW e \in OptProvider, NEW g \in Generations, Terminate(k, e, g)
      PROVE legacyOwner \in {NoKey, k} /\ Write(k, g, NoProvider)
  BY <1>2, <1>7 DEF Terminate, Mirrored
<1>8. ASSUME NEW c \in Clients, snap[c] # NoSnapshot
      PROVE /\ snap[c].key \in Keys /\ snap[c].generation \in Generations
            /\ snap[c].provider \in OptProvider
  BY <1>1, <1>8
<1>9. ASSUME NEW c \in Clients, Touch(c) \/ (\E p \in Providers, g \in Generations :
               CompareAndSet(c, p, g)) \/ (\E g \in Generations, cool \in BOOLEAN : Clear(c, g, cool))
      PROVE snap[c] # NoSnapshot
  BY <1>9 DEF Touch, CompareAndSet, Clear
<1> QED BY <1>3, <1>4, <1>5, <1>6, <1>7, <1>8, <1>9 DEF VersionedStep, Forget

\* As long as every worker runs the scripts, the mirrors of a live binding
\* agree with it, so no request is refused for a mirror conflict.
THEOREM MirrorsAlwaysAgree == Spec => []MirrorsAgree
<1>1. Init => MirrorInv
  BY DEF Init, MirrorInv, Live
<1>2. IInv /\ MirrorInv /\ [Next]_bindingVars => MirrorInv'
  <2> SUFFICES ASSUME IInv, MirrorInv, [Next]_bindingVars PROVE MirrorInv'
    OBVIOUS
  <2>1. CASE VersionedStep
    <3>1. CASE UNCHANGED storeVars
      BY <3>1 DEF storeVars, MirrorInv, Mirrored, Live
    <3> QED BY <2>1, <3>1, VersionedWrites, WriteMirror
  <2>2. CASE Expiry
    BY <2>2 DEF Expiry, Less, MirrorInv, Mirrored, Live, IInv, TypeOK
  <2>3. CASE UNCHANGED bindingVars
    BY <2>3 DEF bindingVars, MirrorInv, Mirrored, Live
  <2> QED BY <2>1, <2>2, <2>3 DEF Next
<1>3. MirrorInv => MirrorsAgree
  BY DEF MirrorInv, MirrorsAgree
<1> QED BY <1>1, <1>2, <1>3, VersionedInvariant, PTL DEF Spec

-----------------------------------------------------------------------------
(* The scripts implement the register. *)

LEMMA OnlyHolder ==
    ASSUME IInv, NEW k \in Keys, legacyOwner \in {NoKey, k}
    PROVE  /\ \A j \in Keys : Live(j) => j = k
           /\ \A c \in Clients : view[c] # NoSnapshot => view[c].key = k
<1>1. \A j \in Keys : Live(j) => j = k
  BY DEF IInv, OwnerBacksCanonical
<1>2. ASSUME NEW c \in Clients, view[c] # NoSnapshot PROVE view[c].key = k
  BY <1>1, <1>2 DEF view, Matches, IInv, TypeOK
<1> QED BY <1>1, <1>2

LEMMA WriteValue ==
    ASSUME IInv, NEW k \in Keys, NEW g \in Generations, NEW p \in OptProvider,
           legacyOwner \in {NoKey, k}, Write(k, g, p)
    PROVE  value' = [value EXCEPT ![k] = p]
<1>1. \A j \in Keys : Live(j)' <=> j = k
  BY WriteStore DEF IInv
<1>2. binding'[k].provider = p
  BY DEF Write, IInv, TypeOK
<1> QED BY <1>1, <1>2, OnlyHolder DEF value

\* After a write with a fresh generation only its own reply is a current view.
LEMMA FreshView ==
    ASSUME IInv, NEW k \in Keys, NEW g \in Generations, NEW p \in OptProvider,
           legacyOwner \in {NoKey, k}, Fresh(g), Write(k, g, p),
           NEW d \in Clients
    PROVE  /\ snap'[d] = snap[d] => view'[d] = NoSnapshot
           /\ snap'[d] = [key |-> k, generation |-> g, provider |-> p]
                => view'[d] = [key |-> k, provider |-> p]
<1>1. \A j \in Keys : Live(j)' <=> j = k
  BY WriteStore DEF IInv
<1>2. binding'[k] = [generation |-> g, provider |-> p]
  BY DEF Write, IInv, TypeOK
<1>3. ASSUME snap'[d] = snap[d] PROVE view'[d] = NoSnapshot
  <2>1. snap[d] # NoSnapshot => snap[d].key \in Keys /\ snap[d].generation # g
    BY DEF Fresh, IInv, TypeOK
  <2> QED BY <1>1, <1>2, <1>3, <2>1 DEF view, Matches
<1>4. ASSUME snap'[d] = [key |-> k, generation |-> g, provider |-> p]
      PROVE  view'[d] = [key |-> k, provider |-> p]
  <2>1. snap'[d] # NoSnapshot /\ snap'[d].key = k /\ snap'[d].generation = g
        /\ snap'[d].provider = p
    BY <1>4
  <2>2. Matches(snap[d])'
    BY <1>1, <1>2, <2>1 DEF Matches
  <2> QED BY <2>1, <2>2 DEF view
<1> QED BY <1>3, <1>4

\* A conditional change by a request whose snapshot still matches.
LEMMA UpdateStep ==
    ASSUME IInv, NEW c \in Clients, NEW g \in Generations, NEW p \in OptProvider,
           snap[c] # NoSnapshot, Matches(snap[c]), Mirrored(snap[c].key),
           Fresh(g), Write(snap[c].key, g, p), Reply(c, snap[c].key, g, p)
    PROVE  Register!Update(c, p)
<1> DEFINE k == snap[c].key
<1>1. snap[c] \in Snapshots /\ k \in Keys /\ Live(k) /\ legacyOwner = k
  BY DEF Matches, Mirrored, IInv, TypeOK
<1>2. snap[c] = Current(k)
  BY <1>1 DEF IInv, GenerationIdentifiesBinding, Matches
<1>3. view[c] = [key |-> k, provider |-> snap[c].provider] /\ view[c] # NoSnapshot
  <2>1. view[c] = [key |-> k, provider |-> snap[c].provider]
    BY DEF view
  <2>2. [key |-> k, provider |-> snap[c].provider] # NoSnapshot
    BY ViewAssumption, <1>1
  <2> QED BY <2>1, <2>2
<1>4. view[c].provider = value[k]
  BY <1>1, <1>2, <1>3 DEF value, Current
<1>5. value' = [value EXCEPT ![k] = p]
  BY <1>1, WriteValue
<1>6. \A d \in Clients : d # c => snap'[d] = snap[d]
  BY DEF Reply, IInv, TypeOK
<1>7. \A d \in Clients : d # c => view'[d] = NoSnapshot
  BY <1>1, <1>6, FreshView
<1>8. view'[c] \in {NoSnapshot, [key |-> k, provider |-> p]}
  <2>1. snap'[c] \in {snap[c], [key |-> k, generation |-> g, provider |-> p]}
    BY DEF Reply, IInv, TypeOK
  <2>2. snap'[c] = snap[c] => view'[c] = NoSnapshot
    BY <1>1, FreshView
  <2>3. snap'[c] = [key |-> k, generation |-> g, provider |-> p]
          => view'[c] = [key |-> k, provider |-> p]
    BY <1>1, FreshView
  <2> QED BY <2>1, <2>2, <2>3
<1>9. \A d \in Clients : view[d] # NoSnapshot => view[d].key = k
  BY <1>1, OnlyHolder
<1>10. view' = [d \in Clients |-> view'[d]]
  BY DEF view
<1>11. Register!Overtake(k, c, p)
  <2>1. CASE view'[c] = NoSnapshot
    <3>1. view' = [d \in Clients |->
                    IF d = c /\ FALSE THEN [key |-> k, provider |-> p]
                    ELSE IF d = c \/ (view[d] # NoSnapshot /\ view[d].key = k) THEN NoSnapshot
                    ELSE view[d]]
      BY <1>7, <1>9, <1>10, <2>1
    <3> QED BY <3>1 DEF Register!Overtake
  <2>2. CASE view'[c] = [key |-> k, provider |-> p]
    <3>1. view' = [d \in Clients |->
                    IF d = c /\ TRUE THEN [key |-> k, provider |-> p]
                    ELSE IF d = c \/ (view[d] # NoSnapshot /\ view[d].key = k) THEN NoSnapshot
                    ELSE view[d]]
      BY <1>7, <1>9, <1>10, <2>2
    <3> QED BY <3>1 DEF Register!Overtake
  <2> QED BY <1>8, <2>1, <2>2
<1> QED BY <1>3, <1>4, <1>5, <1>11 DEF Register!Update

\* Writing what is there already only renews lifetimes.
LEMMA RewriteSame ==
    ASSUME IInv, NEW k \in Keys, NEW g \in Generations, NEW p \in OptProvider,
           Live(k), legacyOwner = k,
           binding[k].generation = g, binding[k].provider = p, Write(k, g, p)
    PROVE  binding' = binding /\ \A j \in Keys : Live(j)' <=> Live(j)
<1>1. binding[k] = [generation |-> g, provider |-> p]
  BY DEF IInv, TypeOK
<1>2. binding' = binding
  BY <1>1 DEF Write, IInv, TypeOK
<1>3. \A j \in Keys : Live(j)' <=> Live(j)
  BY WriteStore, OnlyHolder DEF IInv
<1> QED BY <1>2, <1>3

LEMMA VersionedRefines ==
    ASSUME IInv, VersionedStep
    PROVE  [Register!RegNext]_<<value, view>>
<1>1. ASSUME NEW c \in Clients, NEW k \in Keys, ReadExisting(c, k)
      PROVE  [Register!RegNext]_<<value, view>>
  <2>1. /\ binding[k].generation \in Generations /\ binding[k].provider \in OptProvider
        /\ Live(k) /\ legacyOwner = k
    BY <1>1 DEF ReadExisting, Mirrored, IInv, TypeOK
  <2>2. Write(k, binding[k].generation, binding[k].provider)
    BY <1>1 DEF ReadExisting
  <2>3. value[k] = binding[k].provider /\ value[k] # NoGeneration
        /\ value = [value EXCEPT ![k] = value[k]]
    BY <2>1, ValueAssumption DEF value
  <2>4. UNCHANGED value
    BY <2>1, <2>2, <2>3, WriteValue
  <2>5. binding' = binding /\ \A j \in Keys : Live(j)' <=> Live(j)
    BY <2>1, <2>2, RewriteSame
  <2>6. CASE UNCHANGED snap
    BY <2>4, <2>5, <2>6 DEF view, Matches, IInv, TypeOK
  <2>7. CASE snap' = [snap EXCEPT ![c] = Current(k)]
    <3>1. Current(k) \in Snapshots /\ Current(k).key = k
          /\ Current(k).generation = binding[k].generation
          /\ Current(k).provider = value[k]
      BY <2>1, <2>3 DEF Current
    <3>2. snap'[c] = Current(k) /\ \A d \in Clients : d # c => snap'[d] = snap[d]
      BY <2>7 DEF IInv, TypeOK
    <3>3. view'[c] = [key |-> k, provider |-> value[k]]
      BY <2>1, <2>5, <3>1, <3>2 DEF view, Matches
    <3>4. \A d \in Clients : d # c => view'[d] = view[d]
      BY <2>5, <3>2 DEF view, Matches, IInv, TypeOK
    <3>5. view' = [view EXCEPT ![c] = [key |-> k, provider |-> value[k]]]
      BY <3>3, <3>4 DEF view
    <3> QED BY <2>3, <2>4, <3>5 DEF Register!RegNext, Register!Observe
  <2> QED BY <1>1, <2>6, <2>7 DEF ReadExisting, Reply, Current
<1>2. ASSUME NEW c \in Clients, NEW k \in Keys, NEW g \in Generations, Reconcile(c, k, g)
      PROVE  [Register!RegNext]_<<value, view>>
  <2> DEFINE p == legacyProvider
             new == [key |-> k, generation |-> g, provider |-> p]
  <2>1. p \in OptProvider /\ legacyOwner \in {NoKey, k} /\ Fresh(g) /\ Write(k, g, p)
        /\ Reply(c, k, g, p)
    BY <1>2 DEF Reconcile, IInv, TypeOK
  <2>2. \A j \in Keys : ~Live(j)
    BY <1>2, <2>1, OnlyHolder DEF Reconcile
  <2>3. (\A j \in Keys : value[j] = NoGeneration) /\ value' = [value EXCEPT ![k] = p]
    BY <2>1, <2>2, WriteValue DEF value
  <2>4. \A d \in Clients : view[d] = NoSnapshot
    BY <2>2 DEF view, Matches, IInv, TypeOK
  <2>5. CASE UNCHANGED snap
    <3>1. \A d \in Clients : view'[d] = NoSnapshot
      BY <2>1, <2>5, FreshView
    <3>2. UNCHANGED view
      BY <2>4, <3>1 DEF view
    <3> QED BY <2>1, <2>3, <3>2 DEF Register!RegNext, Register!Create, Register!Values
  <2>6. CASE snap' = [snap EXCEPT ![c] = new]
    <3>1. snap'[c] = new /\ \A d \in Clients : d # c => snap'[d] = snap[d]
      BY <2>6 DEF IInv, TypeOK
    <3>2. \A d \in Clients : d # c => view'[d] = NoSnapshot
      BY <2>1, <3>1, FreshView
    <3>3. view'[c] = [key |-> k, provider |-> p]
      BY <2>1, <3>1, FreshView
    <3>4. view' = [view EXCEPT ![c] = [key |-> k, provider |-> p]]
      BY <2>4, <3>2, <3>3 DEF view
    <3> QED BY <2>1, <2>3, <3>4 DEF Register!RegNext, Register!Create, Register!Values
  <2> QED BY <2>1, <2>5, <2>6 DEF Reply
<1>3. ASSUME NEW c \in Clients, NEW p \in Providers, NEW g \in Generations,
             CompareAndSet(c, p, g)
      PROVE  [Register!RegNext]_<<value, view>>
  <2>1. Register!Update(c, p)
    BY <1>3, UpdateStep DEF CompareAndSet
  <2> QED BY <2>1 DEF Register!RegNext, Register!Values
<1>4. ASSUME NEW c \in Clients, Touch(c) PROVE [Register!RegNext]_<<value, view>>
  <2> DEFINE k == snap[c].key
  <2>1. /\ k \in Keys /\ snap[c] \in Snapshots /\ Live(k) /\ legacyOwner = k
        /\ binding[k].provider = snap[c].provider
        /\ binding[k].generation = snap[c].generation
        /\ Write(k, snap[c].generation, snap[c].provider)
        /\ snap[c].generation \in Generations /\ snap[c].provider \in OptProvider
    BY <1>4 DEF Touch, Matches, Mirrored, IInv, TypeOK
  <2>2. value = [value EXCEPT ![k] = snap[c].provider]
    BY <2>1 DEF value
  <2>3. UNCHANGED value
    BY <2>1, <2>2, WriteValue
  <2>4. binding' = binding /\ (\A j \in Keys : Live(j)' <=> Live(j)) /\ UNCHANGED snap
    BY <1>4, <2>1, RewriteSame DEF Touch
  <2>5. UNCHANGED view
    BY <2>4 DEF view, Matches, IInv, TypeOK
  <2> QED BY <2>3, <2>5
<1>5. ASSUME NEW c \in Clients, NEW g \in Generations, NEW cool \in BOOLEAN, Clear(c, g, cool)
      PROVE  [Register!RegNext]_<<value, view>>
  <2>1. Register!Update(c, NoProvider)
    BY <1>5, UpdateStep DEF Clear
  <2> QED BY <2>1 DEF Register!RegNext, Register!Values
<1>6. ASSUME NEW k \in Keys, NEW e \in OptProvider, NEW g \in Generations, Terminate(k, e, g)
      PROVE  [Register!RegNext]_<<value, view>>
  <2>1. /\ Live(k) /\ Fresh(g) /\ legacyOwner = k /\ Write(k, g, NoProvider)
        /\ UNCHANGED snap /\ binding[k].provider \in OptProvider
    BY <1>6 DEF Terminate, Mirrored, IInv, TypeOK
  <2>2. value[k] # NoGeneration /\ value' = [value EXCEPT ![k] = NoProvider]
    BY <2>1, WriteValue, ValueAssumption DEF value
  <2>3. \A d \in Clients : view'[d] = NoSnapshot
    BY <2>1, FreshView
  <2>4. \A d \in Clients : view[d] # NoSnapshot => view[d].key = k
    BY <2>1, OnlyHolder
  <2>5. view' = [d \in Clients |->
                   IF view[d] # NoSnapshot /\ view[d].key = k THEN NoSnapshot ELSE view[d]]
    BY <2>3, <2>4 DEF view
  <2> QED BY <2>2, <2>5 DEF Register!RegNext, Register!Revoke
<1>7. ASSUME NEW c \in Clients, Forget(c) PROVE [Register!RegNext]_<<value, view>>
  <2>1. /\ UNCHANGED value
        /\ view' = [view EXCEPT ![c] = NoSnapshot]
    BY <1>7 DEF Forget, storeVars, value, view, Live, Matches, IInv, TypeOK
  <2> QED BY <2>1 DEF Register!RegNext, Register!Drop
<1> QED BY <1>1, <1>2, <1>3, <1>4, <1>5, <1>6, <1>7 DEF VersionedStep, ReadOrReconcile

LEMMA ExpiryRefines ==
    ASSUME IInv, Expiry
    PROVE  [Register!RegNext]_<<value, view>>
<1>1. CASE \A j \in Keys : Live(j)' <=> Live(j)
  <2>1. binding' = binding /\ UNCHANGED snap
    BY <1>1 DEF Expiry, Less, Live, IInv, TypeOK
  <2>2. UNCHANGED <<value, view>>
    BY <1>1, <2>1 DEF value, view, Matches, IInv, TypeOK
  <2> QED BY <2>2
<1>2. ASSUME NEW k \in Keys, ~(Live(k)' <=> Live(k))
      PROVE  Register!Lapse(k)
  <2>1. Live(k) /\ \A j \in Keys : ~Live(j)'
    <3>1. Live(k) /\ ~Live(k)' /\ legacyOwner = k
      BY <1>2 DEF Expiry, Less, Live, IInv, TypeOK, OwnerBacksCanonical
    <3>2. \A j \in Keys : Live(j)' => Live(j)
      BY DEF Expiry, Less, Live, IInv, TypeOK
    <3> QED BY <3>1, <3>2, OnlyHolder
  <2>2. legacyOwner = k
    BY <2>1 DEF IInv, OwnerBacksCanonical
  <2>3. value[k] # NoGeneration
    BY <2>1, ValueAssumption DEF value, IInv, TypeOK
  <2>4. value' = [value EXCEPT ![k] = NoGeneration]
    BY <2>1, <2>2, OnlyHolder DEF value
  <2>5. \A d \in Clients : view'[d] = NoSnapshot
    BY <2>1 DEF view, Matches, Expiry, IInv, TypeOK
  <2>6. view' = [d \in Clients |->
                   IF view[d] # NoSnapshot /\ view[d].key = k THEN NoSnapshot ELSE view[d]]
    BY <2>2, <2>5, OnlyHolder DEF view
  <2> QED BY <2>3, <2>4, <2>6 DEF Register!Lapse
<1> QED BY <1>1, <1>2 DEF Register!RegNext

LEMMA InitRefines == Init => Register!RegInit
BY DEF Init, Register!RegInit, value, view, Live

-----------------------------------------------------------------------------
(* Legacy workers join: nothing they do reaches a canonical hash, and none of *)
(* their commands removes or shortens an owner.                               *)

OwnerEffect ==
    \/ UNCHANGED ownerVars
    \/ legacyOwner # NoKey /\ UNCHANGED legacyOwner /\ legacyOwnerTtl' = TTL
    \/ legacyOwner = NoKey /\ legacyOwner' \in Keys /\ legacyOwnerTtl' = TTL

ProviderEffect ==
    \/ UNCHANGED <<legacyProvider, legacyProviderTtl, writer>>
    \/ legacyProvider' \in Providers /\ legacyProviderTtl' = TTL /\ writer' \in OptKey
    \/ legacyProvider' = NoProvider /\ legacyProviderTtl' = 0 /\ writer' = NoKey

LegacyEffect ==
    UNCHANGED <<canonicalVars, cooldown, snap>> /\ OwnerEffect /\ ProviderEffect

LEMMA OwnerCommands ==
    ASSUME TypeOK, NEW k \in Keys, ExpireOwner \/ SetOwnerNX(k)
    PROVE  OwnerEffect
BY DEF TypeOK, ExpireOwner, SetOwnerNX, OwnerEffect, ownerVars

LEMMA ProviderCommands ==
    ASSUME TypeOK,
           \/ \E k \in Keys, p \in Providers : SetProvider(k, p)
           \/ \E p \in OptProvider : DeleteProviderIf(p)
           \/ DeleteProvider
           \/ UNCHANGED <<providerVars, writer>>
    PROVE  ProviderEffect
BY DEF SetProvider, DeleteProviderIf, DeleteProvider, ProviderEffect, providerVars

LEMMA LegacyEffects ==
    ASSUME FallbackTypeOK, NEW c \in LegacyClients, LegacyStep(c)
    PROVE  LegacyEffect
<1>1. ASSUME op[c] # NoOp
      PROVE  /\ op[c].key \in Keys /\ op[c].arg \in OptProvider
             /\ op[c].seen \in OptProvider
  BY <1>1 DEF FallbackTypeOK, Ops
<1>2. ASSUME UNCHANGED <<storeVars, snap, writer>> PROVE LegacyEffect
  BY <1>2 DEF LegacyEffect, OwnerEffect, ProviderEffect, storeVars, canonicalVars, ownerVars
<1>3. CASE \E k \in Keys, kind \in Kinds, arg \in OptProvider : Begin(c, k, kind, arg)
  BY <1>2, <1>3 DEF Begin
<1>4. CASE \/ CheckCanonical(c) \/ GetOwner(c) \/ GetProvider(c) \/ CompareOwner(c)
           \/ Inspect(c) \/ LateExists(c) \/ LateGet(c) \/ Recheck(c)
           \/ HgetRollback(c) \/ HgetRestore(c) \/ Abort(c)
  BY <1>2, <1>4 DEF CheckCanonical, GetOwner, GetProvider, CompareOwner, Inspect,
       LateExists, LateGet, Recheck, HgetRollback, HgetRestore, Abort
<1>5. CASE Claim(c) \/ RenewOwner(c) \/ SetOwner(c) \/ Refresh(c) \/ RenewTombstone(c)
  <2>1. op[c] # NoOp /\ (ExpireOwner \/ SetOwnerNX(op[c].key))
        /\ UNCHANGED <<canonicalVars, providerVars, cooldown, snap, writer>>
    BY <1>5 DEF Claim, RenewOwner, SetOwner, Refresh, RenewTombstone, At
  <2> QED BY <1>1, <2>1, OwnerCommands DEF LegacyEffect, ProviderEffect, providerVars,
             FallbackTypeOK
<1>6. CASE RefreshProvider(c)
  BY <1>6 DEF RefreshProvider, LegacyEffect, OwnerEffect, ProviderEffect, FallbackTypeOK,
       TypeOK
<1>7. ASSUME UNCHANGED <<canonicalVars, ownerVars, cooldown, snap>>,
             \/ \E k \in Keys, p \in Providers : SetProvider(k, p)
             \/ \E p \in OptProvider : DeleteProviderIf(p)
             \/ DeleteProvider
             \/ UNCHANGED <<providerVars, writer>>
      PROVE  LegacyEffect
  BY <1>7, ProviderCommands DEF LegacyEffect, OwnerEffect, FallbackTypeOK
<1>8. CASE Undo(c) \/ Rollback(c)
  BY <1>1, <1>7, <1>8 DEF Undo, Rollback, At
<1>9. CASE BindIfAbsent(c) \/ SetLegacy(c)
  <2>1. op[c] # NoOp /\ op[c].arg \in Providers
    BY <1>1, <1>9 DEF BindIfAbsent, SetLegacy, At, FallbackTypeOK
  <2> QED BY <1>1, <1>7, <1>9, <2>1 DEF BindIfAbsent, SetLegacy
<1>10. CASE ClearLegacy(c) \/ TerminateLegacy(c)
  BY <1>1, <1>7, <1>10 DEF ClearLegacy, TerminateLegacy, At
<1>11. CASE Restore(c)
  <2>1. op[c] # NoOp /\ op[c].seen \in Providers
    BY <1>1, <1>11 DEF Restore, At, FallbackTypeOK
  <2> QED BY <1>1, <1>7, <1>11, <2>1 DEF Restore
<1> QED BY <1>3, <1>4, <1>5, <1>6, <1>8, <1>9, <1>10, <1>11 DEF LegacyStep, Proceed

OpsOK ==
    /\ op \in [LegacyClients -> Ops \cup {NoOp}]
    /\ \A c \in LegacyClients : op[c] # NoOp =>
          /\ op[c].kind \in {"bind_if_absent", "set"} => op[c].arg # NoProvider
          /\ op[c].stage \in {"hget_restore", "restore"} => op[c].seen # NoProvider

LEMMA OpsChange ==
    ASSUME OpsOK, NEW c \in LegacyClients, NEW new \in Ops \cup {NoOp},
           op' = [op EXCEPT ![c] = new],
           new # NoOp =>
              /\ new.kind \in {"bind_if_absent", "set"} => new.arg # NoProvider
              /\ new.stage \in {"hget_restore", "restore"} => new.seen # NoProvider
    PROVE  OpsOK'
<1>1. op' \in [LegacyClients -> Ops \cup {NoOp}]
  BY DEF OpsOK
<1>2. \A d \in LegacyClients : op'[d] = IF d = c THEN new ELSE op[d]
  BY DEF OpsOK
<1> QED BY <1>1, <1>2 DEF OpsOK

LEMMA LegacyOps ==
    ASSUME FallbackTypeOK, NEW c \in LegacyClients, LegacyStep(c)
    PROVE  OpsOK'
<1>1. OpsOK
  BY DEF FallbackTypeOK, OpsOK
<1>2. ASSUME Return(c) PROVE OpsOK'
  BY <1>1, <1>2, OpsChange, NoOpAssumption DEF Return
<1>3. ASSUME op[c] # NoOp, NEW s \in Stages \ {"hget_restore", "restore"}, Go(c, s)
      PROVE  OpsOK'
  <2>1. op[c] \in Ops
    BY <1>1, <1>3 DEF OpsOK
  <2>2. [op[c] EXCEPT !.stage = s] \in Ops
    BY <2>1 DEF Ops
  <2>3. op' = [op EXCEPT ![c] = [op[c] EXCEPT !.stage = s]]
    BY <1>1, <1>3 DEF Go, OpsOK
  <2> QED BY <1>1, <1>3, <2>1, <2>2, <2>3, OpsChange DEF OpsOK, Ops
<1>4. ASSUME op[c] # NoOp, NEW s \in Stages, Go(c, s), op[c].seen # NoProvider
      PROVE  OpsOK'
  <2>1. op[c] \in Ops
    BY <1>1, <1>4 DEF OpsOK
  <2>2. [op[c] EXCEPT !.stage = s] \in Ops
    BY <2>1 DEF Ops
  <2>3. op' = [op EXCEPT ![c] = [op[c] EXCEPT !.stage = s]]
    BY <1>1, <1>4 DEF Go, OpsOK
  <2> QED BY <1>1, <1>4, <2>1, <2>2, <2>3, OpsChange DEF OpsOK, Ops
<1>5. CASE \E k \in Keys, kind \in Kinds, arg \in OptProvider : Begin(c, k, kind, arg)
  <2> PICK k \in Keys, kind \in Kinds, arg \in OptProvider : Begin(c, k, kind, arg)
    BY <1>5
  <2> DEFINE new == [stage |-> "exists", key |-> k, kind |-> kind, arg |-> arg,
                     claimed |-> FALSE, owner |-> NoKey, seen |-> NoProvider,
                     wrote |-> FALSE, age |-> 0]
  <2>1. new \in Ops
    BY FallbackAssumption DEF Ops, Stages
  <2> QED BY <1>1, <2>1, OpsChange DEF Begin
<1>6. CASE CheckCanonical(c) \/ CompareOwner(c) \/ LateExists(c) \/ LateGet(c)
  BY <1>2, <1>3, <1>6 DEF CheckCanonical, CompareOwner, LateExists, LateGet, Ensured, At, Stages
<1>7. CASE RenewOwner(c) \/ SetOwner(c) \/ Refresh(c) \/ RefreshProvider(c)
           \/ RenewTombstone(c)
  BY <1>2, <1>3, <1>7 DEF RenewOwner, SetOwner, Refresh, RefreshProvider, RenewTombstone,
       Ensured, At, Stages
<1>8. CASE Undo(c) \/ Inspect(c) \/ Rollback(c) \/ Restore(c) \/ Abort(c)
  BY <1>2, <1>8 DEF Undo, Inspect, Rollback, Restore, Abort
<1>9. CASE ClearLegacy(c) \/ HgetRollback(c)
  BY <1>2, <1>3, <1>9 DEF ClearLegacy, HgetRollback, At, Stages
<1>10. CASE Recheck(c)
  BY <1>2, <1>3, <1>4, <1>10 DEF Recheck, At, Stages
<1>11. CASE HgetRestore(c)
  <2>1. op[c].seen # NoProvider
    BY <1>1, <1>11 DEF HgetRestore, At, OpsOK
  <2> QED BY <1>2, <1>4, <1>11, <2>1 DEF HgetRestore, At, Stages
<1>12. ASSUME op[c] # NoOp, NEW new \in Ops, op' = [op EXCEPT ![c] = new],
              new.kind = op[c].kind, new.arg = op[c].arg,
              new.stage \notin {"hget_restore", "restore"}
       PROVE  OpsOK'
  BY <1>1, <1>12, OpsChange DEF OpsOK
<1>13. CASE GetOwner(c)
  <2>1. op[c] \in Ops /\ op[c] # NoOp
    BY <1>1, <1>13 DEF GetOwner, At, OpsOK
  <2> DEFINE new == [op[c] EXCEPT !.owner = legacyOwner, !.stage = "get_provider"]
  <2>2. new \in Ops /\ new.kind = op[c].kind /\ new.arg = op[c].arg
        /\ new.stage = "get_provider"
    BY <2>1 DEF Ops, Stages, FallbackTypeOK, TypeOK
  <2>3. op' = [op EXCEPT ![c] = new]
    BY <1>1, <1>13 DEF GetOwner, OpsOK
  <2> QED BY <2>1, <2>2, <2>3, <1>12
<1>14. CASE GetProvider(c)
  <2>1. op[c] \in Ops /\ op[c] # NoOp
    BY <1>1, <1>14 DEF GetProvider, At, OpsOK
  <2> DEFINE new == [op[c] EXCEPT !.seen = legacyProvider, !.owner = NoKey,
                                  !.claimed = FALSE, !.stage = "exists_again"]
  <2>2. new \in Ops /\ new.kind = op[c].kind /\ new.arg = op[c].arg
        /\ new.stage = "exists_again"
    BY <2>1 DEF Ops, Stages, FallbackTypeOK, TypeOK
  <2>3. Return(c) \/ Go(c, "claim") \/ op' = [op EXCEPT ![c] = new]
    BY <1>1, <1>14 DEF GetProvider, OpsOK
  <2> QED BY <1>2, <1>3, <1>12, <2>1, <2>2, <2>3 DEF Stages
<1>15. CASE Claim(c)
  <2>1. op[c] \in Ops /\ op[c] # NoOp
    BY <1>1, <1>15 DEF Claim, At, OpsOK
  <2> DEFINE new == [op[c] EXCEPT !.claimed = TRUE, !.stage = "get_owner"]
  <2>2. new \in Ops /\ new.kind = op[c].kind /\ new.arg = op[c].arg
        /\ new.stage = "get_owner"
    BY <2>1 DEF Ops, Stages
  <2>3. op' = [op EXCEPT ![c] = new]
    BY <1>1, <1>15 DEF Claim, OpsOK
  <2> QED BY <2>1, <2>2, <2>3, <1>12
<1>16. CASE BindIfAbsent(c) \/ SetLegacy(c) \/ TerminateLegacy(c)
  <2>1. op[c] \in Ops /\ op[c] # NoOp
    BY <1>1, <1>16 DEF BindIfAbsent, SetLegacy, TerminateLegacy, At, OpsOK
  <2> DEFINE new == [op[c] EXCEPT !.wrote = TRUE, !.stage = "expire_owner"]
  <2>2. new \in Ops /\ new.kind = op[c].kind /\ new.arg = op[c].arg
        /\ new.stage = "expire_owner"
    BY <2>1 DEF Ops, Stages
  <2>3. Return(c) \/ op' = [op EXCEPT ![c] = new]
    BY <1>1, <1>16 DEF BindIfAbsent, SetLegacy, TerminateLegacy, OpsOK
  <2> QED BY <1>2, <1>12, <2>1, <2>2, <2>3
<1> QED BY <1>5, <1>6, <1>7, <1>8, <1>9, <1>10, <1>11, <1>13, <1>14, <1>15, <1>16
        DEF LegacyStep, Proceed

FInv == IInv /\ FallbackTypeOK

LEMMA LegacyIInv ==
    ASSUME FInv, NEW c \in LegacyClients, LegacyStep(c)
    PROVE  FInv'
<1>1. LegacyEffect
  BY LegacyEffects DEF FInv
<1>2. OpsOK'
  BY LegacyOps DEF FInv
<1>3. TypeOK'
  BY <1>1 DEF LegacyEffect, OwnerEffect, ProviderEffect, FInv, IInv, TypeOK, Live,
       canonicalVars, ownerVars
<1>4. OwnerBacksCanonical'
  BY <1>1 DEF LegacyEffect, OwnerEffect, FInv, IInv, TypeOK, OwnerBacksCanonical, Live,
       canonicalVars, ownerVars
<1>5. GenerationIdentifiesBinding'
  BY <1>1 DEF LegacyEffect, FInv, IInv, GenerationIdentifiesBinding, Live, Current,
       canonicalVars
<1>6. writer' \in OptKey
  BY <1>1 DEF LegacyEffect, ProviderEffect, FInv, FallbackTypeOK
<1> QED BY <1>2, <1>3, <1>4, <1>5, <1>6 DEF FInv, IInv, FallbackTypeOK, OpsOK

LEMMA TickOps ==
    ASSUME FallbackTypeOK, Tick
    PROVE  OpsOK'
<1>1. \A c \in LegacyClients : op[c] # NoOp => [op[c] EXCEPT !.age = @ + 1] \in Ops
  BY FallbackAssumption DEF Tick, FallbackTypeOK, Ops
<1>2. op' \in [LegacyClients -> Ops \cup {NoOp}]
  BY <1>1 DEF Tick, FallbackTypeOK
<1>3. ASSUME NEW c \in LegacyClients, op'[c] # NoOp
      PROVE  /\ op[c] # NoOp /\ op'[c].kind = op[c].kind /\ op'[c].arg = op[c].arg
             /\ op'[c].stage = op[c].stage /\ op'[c].seen = op[c].seen
  BY <1>3 DEF Tick, FallbackTypeOK, Ops
<1> QED BY <1>2, <1>3 DEF OpsOK, FallbackTypeOK

LEMMA FallbackStep == ASSUME FInv, [FallbackNext]_vars PROVE FInv'
<1>1. CASE VersionedScript
  <2>1. IInv'
    BY <1>1, VersionedIInv DEF VersionedScript, FInv
  <2>2. writer' \in OptKey
    BY <1>1, <2>1 DEF VersionedScript, FInv, FallbackTypeOK, IInv, TypeOK
  <2> QED BY <1>1, <2>1, <2>2 DEF VersionedScript, FInv, FallbackTypeOK, IInv
<1>2. ASSUME NEW c \in LegacyClients, LegacyStep(c) PROVE FInv'
  BY <1>2, LegacyIInv
<1>3. CASE Tick
  <2>1. IInv'
    BY <1>3, ExpiryIInv DEF Tick, FInv
  <2>2. writer' \in OptKey
    BY <1>3 DEF Tick, FInv, FallbackTypeOK
  <2> QED BY <1>3, <2>1, <2>2, TickOps DEF FInv, FallbackTypeOK, IInv, OpsOK
<1>4. CASE UNCHANGED vars
  BY <1>4 DEF vars, FInv, IInv, FallbackTypeOK, TypeOK, OwnerBacksCanonical,
       GenerationIdentifiesBinding, Live, Current
<1> QED BY <1>1, <1>2, <1>3, <1>4 DEF FallbackNext

LEMMA FallbackInitInv == FallbackInit => FInv
<1> SUFFICES ASSUME FallbackInit PROVE FInv
  OBVIOUS
<1>1. IInv
  BY InitIInv DEF FallbackInit
<1>2. op \in [LegacyClients -> Ops \cup {NoOp}] /\ writer \in OptKey
      /\ \A c \in LegacyClients : op[c] = NoOp
  BY DEF FallbackInit, Init
<1> QED BY <1>1, <1>2 DEF FInv, FallbackTypeOK, IInv

\* The lemma every theorem below rests on: what the scripts and expiry
\* preserve survives any interleaving with legacy mutations.
LEMMA FallbackInvariant == FallbackSpec => []FInv
BY FallbackInitInv, FallbackStep, PTL DEF FallbackSpec

\* Every value of the store, the snapshots and the mutations in progress is
\* well-typed, and a key without a lifetime has no value.
THEOREM FallbackTypes == FallbackSpec => []FallbackTypeOK
BY FallbackInvariant, PTL DEF FInv

\* A canonical hash never outlives its owner mirror, whatever the legacy
\* workers interleave and however long their mutations stall.
THEOREM OwnerAlwaysBacksCanonical == FallbackSpec => []OwnerBacksCanonical
BY FallbackInvariant, PTL DEF FInv, IInv

\* No two different bindings are ever seen under one generation.
THEOREM GenerationsIdentify == FallbackSpec => []GenerationIdentifiesBinding
BY FallbackInvariant, PTL DEF FInv, IInv

\* Versioned requests see an atomic compare-and-set register held by one
\* tenant at a time, with legacy workers on the same session.
THEOREM FallbackImplementsRegister == FallbackSpec => ImplementsRegister
<1>1. FallbackInit => Register!RegInit
  BY InitRefines DEF FallbackInit
<1>2. FInv /\ [FallbackNext]_vars => [Register!RegNext]_<<value, view>>
  <2> SUFFICES ASSUME FInv, [FallbackNext]_vars
               PROVE  [Register!RegNext]_<<value, view>>
    OBVIOUS
  <2>1. CASE VersionedScript
    BY <2>1, VersionedRefines DEF VersionedScript, FInv
  <2>2. ASSUME NEW c \in LegacyClients, LegacyStep(c)
        PROVE  UNCHANGED <<value, view>>
    BY <2>2, LegacyEffects DEF FInv, LegacyEffect, canonicalVars, value, view, Live, Matches
  <2>3. CASE Tick
    BY <2>3, ExpiryRefines DEF Tick, FInv
  <2>4. CASE UNCHANGED vars
    BY <2>4 DEF vars, value, view, Live, Matches
  <2> QED BY <2>1, <2>2, <2>3, <2>4 DEF FallbackNext
<1>3. FallbackInit /\ [][FallbackNext]_vars /\ []FInv => Register!RegSpec
  BY <1>1, <1>2, PTL DEF Register!RegSpec, Register!regVars
<1> QED BY <1>3, FallbackInvariant, PTL DEF FallbackSpec, ImplementsRegister
-----------------------------------------------------------------------------
(* When no key expires inside a legacy mutation (MaxStall = 0), whoever found *)
(* itself to be the owner still is, and tenants stay apart.                   *)

\* The stages of a mutation after it found itself to be the owner.
Owning == {"exists_again", "expire_owner", "mutate", "refresh_provider", "late_exists",
           "late_get", "late_renew", "renew_owner", "recheck", "hget_rollback",
           "rollback", "hget_restore", "restore"}

\* What a mutation q may count on at its stage, with owner o and provider p in
\* the legacy keys.  It never gets to set an owner that expired.
StageHolds(q, o, p) ==
    q # NoOp =>
        /\ q.stage \in {"exists", "get_owner", "get_provider", "claim"} \cup Owning
        /\ q.stage \in Owning => o = q.key
        /\ q.stage = "get_provider" => q.owner \in {NoKey, o}
        /\ q.stage = "claim" /\ o = NoKey => p = NoProvider

StagesHold == \A c \in LegacyClients : StageHolds(op[c], legacyOwner, legacyProvider)

\* A step that leaves an owner alone, and no provider behind without one.
OwnerStays ==
    /\ legacyOwner # NoKey => legacyOwner' = legacyOwner
    /\ legacyOwner' = NoKey => legacyProvider' \in {legacyProvider, NoProvider}

\* Such a step disturbs no mutation but the one it is of.
LEMMA StageStays ==
    ASSUME OwnerStays, NEW q \in Ops \cup {NoOp}, StageHolds(q, legacyOwner, legacyProvider)
    PROVE  StageHolds(q, legacyOwner', legacyProvider')
BY DEF StageHolds, OwnerStays, Ops

\* A command of a mutation is such a step, keeps the tenants apart, and leaves its
\* mutation with what its next stage counts on.
LEMMA LegacyIsolated ==
    ASSUME FallbackTypeOK, TenantIsolation, StagesHold,
           NEW c \in LegacyClients, LegacyStep(c)
    PROVE  /\ OwnerStays /\ TenantIsolation'
           /\ StageHolds(op'[c], legacyOwner', legacyProvider')
           /\ \A d \in LegacyClients : d # c => op'[d] = op[d]
<1> DEFINE Goal == /\ OwnerStays /\ TenantIsolation'
                   /\ StageHolds(op'[c], legacyOwner', legacyProvider')
                   /\ \A d \in LegacyClients : d # c => op'[d] = op[d]
<1> SUFFICES Goal
  OBVIOUS
<1> HIDE DEF Goal
<1>1. op \in [LegacyClients -> Ops \cup {NoOp}] /\ op[c] \in Ops \cup {NoOp}
  BY DEF FallbackTypeOK
<1>2. StageHolds(op[c], legacyOwner, legacyProvider)
  BY DEF StagesHold
<1>3. ASSUME UNCHANGED <<storeVars, snap, writer>>
      PROVE  OwnerStays /\ TenantIsolation'
  BY <1>3 DEF OwnerStays, TenantIsolation, storeVars
<1>4. ASSUME Return(c)
      PROVE  /\ \A d \in LegacyClients : d # c => op'[d] = op[d]
             /\ StageHolds(op'[c], legacyOwner', legacyProvider')
  BY <1>1, <1>4 DEF Return, StageHolds
<1>5. ASSUME NEW s, Go(c, s), op[c] # NoOp
      PROVE  /\ \A d \in LegacyClients : d # c => op'[d] = op[d]
             /\ op'[c].stage = s /\ op'[c].key = op[c].key /\ op'[c].owner = op[c].owner
  BY <1>1, <1>5 DEF Go, Ops
<1>6. CASE \E k \in Keys, kind \in Kinds, arg \in OptProvider : Begin(c, k, kind, arg)
  <2>1. UNCHANGED <<storeVars, snap, writer>>
    BY <1>6 DEF Begin
  <2>2. op'[c].stage = "exists" /\ \A d \in LegacyClients : d # c => op'[d] = op[d]
    BY <1>1, <1>6 DEF Begin
  <2> QED BY <1>3, <2>1, <2>2 DEF Goal, StageHolds, Owning
<1>7. CASE CheckCanonical(c)
  <2>1. UNCHANGED <<storeVars, snap, writer>> /\ op[c] # NoOp
    BY <1>7 DEF CheckCanonical, At
  <2>2. CASE Return(c)
    BY <1>3, <1>4, <2>1, <2>2 DEF Goal
  <2>3. CASE op[c].stage = "exists" /\ Go(c, "get_owner")
    BY <1>3, <1>5, <2>1, <2>3 DEF Goal, StageHolds, Owning
  <2>4. CASE op[c].stage = "exists_again" /\ Go(c, "expire_owner")
    BY <1>2, <1>3, <1>5, <2>1, <2>4 DEF Goal, StageHolds, Owning, storeVars
  <2> QED BY <1>7, <2>2, <2>3, <2>4 DEF CheckCanonical, At
<1>8. CASE GetOwner(c)
  <2>1. UNCHANGED <<storeVars, snap, writer>> /\ op[c] # NoOp
    BY <1>8 DEF GetOwner, At
  <2>2. /\ op'[c].stage = "get_provider" /\ op'[c].owner = legacyOwner
        /\ \A d \in LegacyClients : d # c => op'[d] = op[d]
    BY <1>1, <1>8, <2>1 DEF GetOwner, Ops
  <2> QED BY <1>3, <2>1, <2>2 DEF Goal, StageHolds, Owning, storeVars
<1>9. CASE GetProvider(c)
  <2>1. UNCHANGED <<storeVars, snap, writer>> /\ op[c] # NoOp
    BY <1>9 DEF GetProvider, At
  <2>2. CASE Return(c)
    BY <1>3, <1>4, <2>1, <2>2 DEF Goal
  <2>3. CASE legacyProvider = NoProvider /\ Go(c, "claim")
    BY <1>3, <1>5, <2>1, <2>3 DEF Goal, StageHolds, Owning, storeVars
  <2>4. CASE /\ op[c].owner = op[c].key /\ op[c].stage = "get_provider"
             /\ op' = [op EXCEPT ![c].seen = legacyProvider, ![c].owner = NoKey,
                                 ![c].claimed = FALSE, ![c].stage = "exists_again"]
    <3>1. /\ op'[c].stage = "exists_again" /\ op'[c].key = op[c].key
          /\ \A d \in LegacyClients : d # c => op'[d] = op[d]
      BY <1>1, <2>1, <2>4 DEF Ops
    <3>2. op[c].key = legacyOwner
      BY <1>1, <1>2, <2>1, <2>4 DEF StageHolds, Ops
    <3> QED BY <1>3, <2>1, <3>1, <3>2 DEF Goal, StageHolds, Owning, storeVars
  <2> QED BY <1>9, <2>2, <2>3, <2>4 DEF GetProvider, At
<1>10. CASE Claim(c)
  <2>1. /\ op[c] # NoOp /\ op[c].stage = "claim" /\ op[c].key \in Keys
        /\ SetOwnerNX(op[c].key) /\ UNCHANGED <<providerVars, writer>>
    BY <1>1, <1>10 DEF Claim, At, Ops
  <2>2. /\ op'[c].stage = "get_owner"
        /\ \A d \in LegacyClients : d # c => op'[d] = op[d]
    BY <1>1, <1>10, <2>1 DEF Claim, Ops
  <2>3. OwnerStays /\ TenantIsolation'
    BY <1>2, <2>1 DEF SetOwnerNX, OwnerStays, TenantIsolation, StageHolds, ownerVars,
         providerVars
  <2> QED BY <2>2, <2>3 DEF Goal, StageHolds, Owning
<1>11. ASSUME op[c] # NoOp, op[c].stage \in Owning
       PROVE  legacyOwner = op[c].key /\ op[c].key \in Keys /\ op[c].key # NoKey
  BY <1>1, <1>2, <1>11 DEF StageHolds, Ops
<1>12. ASSUME op[c] # NoOp, op[c].stage \in Owning, UNCHANGED legacyOwner,
              \/ UNCHANGED <<legacyProvider, writer>>
              \/ legacyProvider' = NoProvider
              \/ writer' = op[c].key,
              Return(c) \/ \E s \in Owning : Go(c, s)
       PROVE  Goal
  <2>1. OwnerStays /\ TenantIsolation'
    BY <1>11, <1>12 DEF OwnerStays, TenantIsolation
  <2>2. CASE Return(c)
    BY <1>4, <2>1, <2>2 DEF Goal
  <2>3. ASSUME NEW s \in Owning, Go(c, s) PROVE Goal
    BY <1>5, <1>11, <1>12, <2>1, <2>3 DEF Goal, StageHolds, Owning
  <2> QED BY <1>12, <2>2, <2>3
<1>13. CASE RenewOwner(c)
  <2>1. op[c] # NoOp /\ op[c].stage \in Owning
    BY <1>13 DEF RenewOwner, At, Owning
  <2>2. UNCHANGED <<legacyOwner, legacyProvider, writer>>
    BY <1>13 DEF RenewOwner, ExpireOwner, providerVars
  <2>3. \E s \in Owning : Go(c, s)
    BY <1>11, <1>13, <2>1 DEF RenewOwner, Ensured, Owning
  <2> QED BY <1>12, <2>1, <2>2, <2>3
<1>14. ~SetOwner(c) /\ ~CompareOwner(c) /\ ~Undo(c)
  BY <1>2 DEF SetOwner, CompareOwner, Undo, At, StageHolds, Owning
<1>15. CASE Inspect(c) \/ LateExists(c) \/ LateGet(c) \/ HgetRollback(c) \/ HgetRestore(c)
  <2>1. op[c] # NoOp /\ op[c].stage \in Owning
    BY <1>15 DEF Inspect, LateExists, LateGet, HgetRollback, HgetRestore, At, Owning
  <2>2. UNCHANGED <<legacyOwner, legacyProvider, writer>>
    BY <1>15 DEF Inspect, LateExists, LateGet, HgetRollback, HgetRestore, storeVars
  <2>3. Return(c) \/ \E s \in Owning : Go(c, s)
    BY <1>15 DEF Inspect, LateExists, LateGet, HgetRollback, HgetRestore, Owning
  <2> QED BY <1>12, <2>1, <2>2, <2>3
<1>16. CASE Recheck(c)
  <2>1. op[c] # NoOp /\ op[c].stage \in Owning
    BY <1>16 DEF Recheck, At, Owning
  <2>2. UNCHANGED <<legacyOwner, legacyProvider, writer>>
    BY <1>16 DEF Recheck, storeVars
  <2>3. Return(c) \/ \E s \in Owning : Go(c, s)
    BY <1>16 DEF Recheck, Owning
  <2> QED BY <1>12, <2>1, <2>2, <2>3
<1>17. CASE Refresh(c) \/ RefreshProvider(c) \/ RenewTombstone(c)
  <2>1. op[c] # NoOp /\ op[c].stage \in Owning
    BY <1>17 DEF Refresh, RefreshProvider, RenewTombstone, At, Owning
  <2>2. UNCHANGED <<legacyOwner, legacyProvider, writer>>
    BY <1>17 DEF Refresh, RefreshProvider, RenewTombstone, ExpireOwner, providerVars,
         ownerVars
  <2>3. Return(c) \/ \E s \in Owning : Go(c, s)
    BY <1>17 DEF Refresh, RefreshProvider, RenewTombstone, Owning
  <2> QED BY <1>12, <2>1, <2>2, <2>3
<1>18. ASSUME NEW new \in Ops, op' = [op EXCEPT ![c] = new], op[c] # NoOp,
              op[c].stage \in Owning, new.stage = "expire_owner", new.key = op[c].key,
              UNCHANGED legacyOwner,
              \/ UNCHANGED <<legacyProvider, writer>>
              \/ legacyProvider' = NoProvider
              \/ writer' = op[c].key
       PROVE  Goal
  <2>1. OwnerStays /\ TenantIsolation'
    BY <1>11, <1>18 DEF OwnerStays, TenantIsolation
  <2>2. op'[c] = new /\ \A d \in LegacyClients : d # c => op'[d] = op[d]
    BY <1>1, <1>18
  <2> QED BY <1>11, <1>18, <2>1, <2>2 DEF Goal, StageHolds, Owning
<1>19. CASE BindIfAbsent(c) \/ SetLegacy(c) \/ TerminateLegacy(c)
  <2>1. op[c] # NoOp /\ op[c].stage \in Owning /\ op[c] \in Ops
    BY <1>1, <1>19 DEF BindIfAbsent, SetLegacy, TerminateLegacy, At, Owning
  <2>2. /\ UNCHANGED legacyOwner
        /\ \/ UNCHANGED <<legacyProvider, writer>>
           \/ legacyProvider' = NoProvider
           \/ writer' = op[c].key
    BY <1>19 DEF BindIfAbsent, SetLegacy, TerminateLegacy, SetProvider, DeleteProvider,
         ownerVars, providerVars
  <2>3. PICK new : new = [op[c] EXCEPT !.wrote = TRUE, !.stage = "expire_owner"]
    OBVIOUS
  <2>4. new \in Ops /\ new.stage = "expire_owner" /\ new.key = op[c].key
    BY <2>1, <2>3 DEF Ops, Stages
  <2>5. Return(c) \/ op' = [op EXCEPT ![c] = new]
    BY <1>1, <1>19, <2>3 DEF BindIfAbsent, SetLegacy, TerminateLegacy
  <2> QED BY <1>12, <1>18, <2>1, <2>2, <2>4, <2>5
<1>20. CASE ClearLegacy(c)
  <2>1. op[c] # NoOp /\ op[c].stage \in Owning
    BY <1>20 DEF ClearLegacy, At, Owning
  <2>2. /\ UNCHANGED legacyOwner
        /\ UNCHANGED <<legacyProvider, writer>> \/ legacyProvider' = NoProvider
    BY <1>20 DEF ClearLegacy, DeleteProviderIf, DeleteProvider, ownerVars, providerVars
  <2>3. Return(c) \/ \E s \in Owning : Go(c, s)
    BY <1>20 DEF ClearLegacy, Owning
  <2> QED BY <1>12, <2>1, <2>2, <2>3
<1>21. CASE Rollback(c) \/ Restore(c)
  <2>1. op[c] # NoOp /\ op[c].stage \in Owning /\ Return(c)
    BY <1>21 DEF Rollback, Restore, At, Owning
  <2>2. /\ UNCHANGED legacyOwner
        /\ \/ UNCHANGED <<legacyProvider, writer>>
           \/ legacyProvider' = NoProvider
           \/ writer' = op[c].key
    BY <1>21 DEF Rollback, Restore, DeleteProviderIf, DeleteProvider, SetProvider,
         ownerVars, providerVars
  <2> QED BY <1>12, <2>1, <2>2
<1>22. CASE Abort(c)
  BY <1>3, <1>4, <1>22 DEF Abort, Goal
<1> QED BY <1>6, <1>7, <1>8, <1>9, <1>10, <1>13, <1>14, <1>15, <1>16, <1>17, <1>19, <1>20,
           <1>21, <1>22 DEF LegacyStep, Proceed

\* A script writes for the owner, and imports only what the owner's requests wrote.
LEMMA VersionedIsolated ==
    ASSUME FInv, TenantIsolation, VersionedScript
    PROVE  OwnerStays /\ TenantIsolation'
<1>1. CASE UNCHANGED storeVars
  BY <1>1 DEF storeVars, OwnerStays, TenantIsolation, VersionedScript
<1>2. ASSUME NEW k \in Keys, NEW g \in Generations, NEW p \in OptProvider,
             legacyOwner \in {NoKey, k}, Write(k, g, p),
             p = NoProvider \/ (legacyOwner = k /\ p = legacyProvider)
               \/ (\E c \in Clients, q \in Providers, h \in Generations :
                      CompareAndSet(c, q, h))
      PROVE  OwnerStays /\ TenantIsolation'
  BY <1>2 DEF Write, OwnerStays, TenantIsolation, VersionedScript
<1> DEFINE Writes == \E k \in Keys, g \in Generations, p \in OptProvider :
              /\ legacyOwner \in {NoKey, k} /\ Write(k, g, p)
              /\ p = NoProvider \/ (legacyOwner = k /\ p = legacyProvider)
                   \/ (\E c \in Clients, q \in Providers, h \in Generations :
                          CompareAndSet(c, q, h))
<1>3. ASSUME NEW c \in Clients, snap[c] # NoSnapshot
      PROVE  /\ snap[c].key \in Keys /\ snap[c].generation \in Generations
             /\ snap[c].provider \in OptProvider
  BY <1>3 DEF FInv, IInv, TypeOK
<1>4. ASSUME NEW k \in Keys, Live(k), Mirrored(k)
      PROVE  /\ binding[k].generation \in Generations /\ binding[k].provider \in OptProvider
             /\ legacyOwner = k /\ legacyProvider = binding[k].provider
  BY <1>4 DEF FInv, IInv, TypeOK, Mirrored
<1>5. ASSUME NEW c \in Clients, NEW k \in Keys, ReadOrReconcile(c, k)
      PROVE  Writes
  <2>1. CASE ReadExisting(c, k)
    BY <1>4, <2>1 DEF ReadExisting
  <2>2. ASSUME NEW g \in Generations, Reconcile(c, k, g) PROVE Writes
    BY <2>2 DEF Reconcile, FInv, IInv, TypeOK
  <2> QED BY <1>5, <2>1, <2>2 DEF ReadOrReconcile
<1>6. ASSUME NEW c \in Clients, NEW p \in Providers, NEW g \in Generations,
             CompareAndSet(c, p, g)
      PROVE  Writes
  <2>1. Write(snap[c].key, g, p) /\ legacyOwner = snap[c].key /\ snap[c].key \in Keys
    BY <1>3, <1>6 DEF CompareAndSet, Mirrored
  <2> QED BY <1>6, <2>1
<1>7. ASSUME NEW c \in Clients, Touch(c) PROVE Writes
  <2>1. /\ Write(snap[c].key, snap[c].generation, snap[c].provider)
        /\ legacyOwner = snap[c].key /\ legacyProvider = snap[c].provider
        /\ snap[c].key \in Keys /\ snap[c].generation \in Generations
        /\ snap[c].provider \in OptProvider
    BY <1>3, <1>7 DEF Touch, Mirrored
  <2> QED BY <2>1
<1>8. ASSUME NEW c \in Clients, NEW g \in Generations, NEW cool \in BOOLEAN, Clear(c, g, cool)
      PROVE  Writes
  <2>1. Write(snap[c].key, g, NoProvider) /\ legacyOwner = snap[c].key /\ snap[c].key \in Keys
    BY <1>3, <1>8 DEF Clear, Mirrored
  <2> QED BY <2>1
<1>9. ASSUME NEW k \in Keys, NEW e \in OptProvider, NEW g \in Generations, Terminate(k, e, g)
      PROVE  Writes
  BY <1>9 DEF Terminate, Mirrored
<1>10. Writes \/ UNCHANGED storeVars
  <2> HIDE DEF Writes
  <2> QED BY <1>5, <1>6, <1>7, <1>8, <1>9 DEF VersionedScript, VersionedStep, Forget
<1> QED BY <1>1, <1>2, <1>10

\* While no key expires inside a legacy mutation, no request reads or imports a
\* provider that another tenant's request bound, for any tenants and any number of
\* scripts and legacy mutations of every kind at once.
THEOREM TenantsAreIsolated == ASSUME MaxStall = 0 PROVE FallbackSpec => []TenantIsolation
<1>1. FallbackInit => TenantIsolation /\ StagesHold
  BY DEF FallbackInit, Init, TenantIsolation, StagesHold, StageHolds
<1>2. FInv /\ TenantIsolation /\ StagesHold /\ [FallbackNext]_vars
         => TenantIsolation' /\ StagesHold'
  <2> SUFFICES ASSUME FInv, TenantIsolation, StagesHold, [FallbackNext]_vars
               PROVE  TenantIsolation' /\ StagesHold'
    OBVIOUS
  <2>1. \A c \in LegacyClients : op[c] \in Ops \cup {NoOp}
    BY DEF FInv, FallbackTypeOK
  <2>2. CASE VersionedScript
    BY <2>1, <2>2, VersionedIsolated, StageStays DEF VersionedScript, StagesHold
  <2>3. ASSUME NEW c \in LegacyClients, LegacyStep(c)
        PROVE  TenantIsolation' /\ StagesHold'
    BY <2>1, <2>3, LegacyIsolated, StageStays DEF FInv, StagesHold
  <2>4. CASE Tick
    <3>1. \A c \in LegacyClients : op[c] = NoOp
      BY <2>1, <2>4, FallbackAssumption DEF Tick, Ops
    <3>2. StagesHold'
      BY <2>4, <3>1 DEF Tick, StagesHold, StageHolds
    <3>3. TenantIsolation'
      BY <2>4 DEF Tick, Expiry, TenantIsolation
    <3> QED BY <3>2, <3>3
  <2>5. CASE UNCHANGED vars
    BY <2>5 DEF vars, TenantIsolation, StagesHold
  <2> QED BY <2>2, <2>3, <2>4, <2>5 DEF FallbackNext
<1> QED BY <1>1, <1>2, FallbackInvariant, PTL DEF FallbackSpec
=============================================================================
