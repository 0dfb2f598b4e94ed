--------------------------- MODULE PrebufferBudget ---------------------------
(***************************************************************************)
(* The budget of bytes all stream gates of a process share.  A gate        *)
(* reserves its worst case before it reads, and waits in line when that    *)
(* does not fit; it keeps what its prefix holds when it commits, and gives *)
(* the lease back otherwise.  Every gate asks for the same amount, four    *)
(* times the cap of a prefix.                                              *)
(*                                                                         *)
(* Nothing is awaited inside an operation, so each is one step.            *)
(***************************************************************************)
EXTENDS Integers, Sequences, FiniteSets

CONSTANTS
    Claimants,
    Size,       \* what a gate reserves, in bytes
    Limit       \* the budget, in bytes

ASSUME BudgetAssumption == /\ IsFiniteSet(Claimants)
                           /\ Size \in Nat \ {0}
                           /\ Limit \in Nat
                           /\ Size <= Limit

VARIABLES
    used,       \* reservedBytes
    leases,     \* currentReservedBytes of each claimant's lease, 0 without one
    waiters     \* those in line, the head first

budgetVars == <<used, leases, waiters>>

InitBudget ==
    /\ used = 0
    /\ leases = [c \in Claimants |-> 0]
    /\ waiters = <<>>

InLine(c) == \E i \in DOMAIN waiters : waiters[i] = c

\* How many of the line are served when `amount` bytes are in use: as many from
\* its head as fit.
Serves(n, amount, line) ==
    /\ n \in 0..Len(line)
    /\ n > 0 => amount + n * Size <= Limit
    /\ n < Len(line) => amount + (n + 1) * Size > Limit

\* drainWaiters, with `amount` bytes in use by the leases `held`.
DrainWaiters(amount, held, line) ==
    \E n \in 0..Len(line) :
        /\ Serves(n, amount, line)
        /\ used' = amount + n * Size
        /\ leases' = [c \in Claimants |->
                         IF \E i \in 1..n : line[i] = c THEN Size ELSE held[c]]
        /\ waiters' = SubSeq(line, n + 1, Len(line))

Acquire(c) ==
    /\ leases[c] = 0 /\ ~InLine(c)
    /\ IF waiters = <<>> /\ used + Size <= Limit
         THEN /\ used' = used + Size
              /\ leases' = [leases EXCEPT ![c] = Size]
              /\ UNCHANGED waiters
         ELSE DrainWaiters(used, leases, Append(waiters, c))

\* The line without those in C, in its order: the k-th of the places that stay.
Without(C) ==
    LET stay == {i \in DOMAIN waiters : waiters[i] \notin C}
        nth(k) == CHOOSE i \in stay : Cardinality({j \in stay : j <= i}) = k
    IN [k \in 1..Cardinality(stay) |-> waiters[nth(k)]]

\* The abort signals of gates that are in line.  Each leaves and the line is
\* drained; as all ask for the same, those that follow fit no sooner.
AbortWait(C) ==
    IF C = {}
      THEN UNCHANGED budgetVars
      ELSE DrainWaiters(used, leases, Without(C))

\* Mutant: a shrunk lease makes room, and nobody in line is told.
ShrinkQuietly(c, bytes) ==
    /\ used' = used - (leases[c] - bytes)
    /\ leases' = [leases EXCEPT ![c] = bytes]
    /\ UNCHANGED waiters

ShrinkTo(c, bytes) ==
    IF bytes < leases[c]
      THEN DrainWaiters(used - (leases[c] - bytes), [leases EXCEPT ![c] = bytes], waiters)
      ELSE UNCHANGED budgetVars

\* Mutant: a release gives back what was reserved, not what is left of it.
ReleaseReserved(c) ==
    IF leases[c] > 0
      THEN DrainWaiters(used - Size, [leases EXCEPT ![c] = 0], waiters)
      ELSE UNCHANGED budgetVars

\* Released leases hold nothing, so a second release has no effect.
Release(c) == ShrinkTo(c, 0)

\* A gate waits in line only while it does not fit: no release, shrunk lease or
\* abort leaves one waiting that could read (drainWaiters).
HeadServed == waiters # <<>> => used + Size > Limit
=============================================================================
