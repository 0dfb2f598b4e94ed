--------------------------- MODULE SessionRegister ---------------------------
(***************************************************************************)
(* What the versioned session binding promises to a request, with no       *)
(* mirrors, generations or lifetimes: one register, held by at most one    *)
(* tenant at a time, that a request changes only if what it last saw there *)
(* is still what is there.                                                 *)
(***************************************************************************)
CONSTANTS Keys, Providers, Clients, NoProvider, Absent, Stale

VARIABLES
    value,  \* per tenant: Absent, NoProvider (a null binding) or a provider
    view    \* per request: the current value it has seen, or Stale

regVars == <<value, view>>

Values == Providers \cup {NoProvider}
Views == [key : Keys, provider : Values]

RegInit ==
    /\ value = [k \in Keys |-> Absent]
    /\ view = [c \in Clients |-> Stale]

\* Every view of tenant k is out of date, but possibly that of client c.
Overtake(k, c, p) ==
    \E know \in BOOLEAN :
        view' = [d \in Clients |->
                    IF d = c /\ know THEN [key |-> k, provider |-> p]
                    ELSE IF d = c \/ (view[d] # Stale /\ view[d].key = k) THEN Stale
                    ELSE view[d]]

Create(c, k, p) ==
    /\ \A j \in Keys : value[j] = Absent
    /\ value' = [value EXCEPT ![k] = p]
    /\ \/ view' = [view EXCEPT ![c] = [key |-> k, provider |-> p]]
       \/ UNCHANGED view

Observe(c, k) ==
    /\ value[k] # Absent
    /\ view' = [view EXCEPT ![c] = [key |-> k, provider |-> value[k]]]
    /\ UNCHANGED value

Update(c, p) ==
    /\ view[c] # Stale
    /\ view[c].provider = value[view[c].key]
    /\ value' = [value EXCEPT ![view[c].key] = p]
    /\ Overtake(view[c].key, c, p)

\* The one unconditional change: it leaves a null binding and every view stale.
Revoke(k) ==
    /\ value[k] # Absent
    /\ value' = [value EXCEPT ![k] = NoProvider]
    /\ view' = [d \in Clients |->
                  IF view[d] # Stale /\ view[d].key = k THEN Stale ELSE view[d]]

Lapse(k) ==
    /\ value[k] # Absent
    /\ value' = [value EXCEPT ![k] = Absent]
    /\ view' = [d \in Clients |->
                  IF view[d] # Stale /\ view[d].key = k THEN Stale ELSE view[d]]

Drop(c) ==
    /\ view' = [view EXCEPT ![c] = Stale]
    /\ UNCHANGED value

RegNext ==
    \/ \E c \in Clients, k \in Keys, p \in Values : Create(c, k, p)
    \/ \E c \in Clients, k \in Keys : Observe(c, k)
    \/ \E c \in Clients, p \in Values : Update(c, p)
    \/ \E k \in Keys : Revoke(k) \/ Lapse(k)
    \/ \E c \in Clients : Drop(c)

RegSpec == RegInit /\ [][RegNext]_regVars
=============================================================================
