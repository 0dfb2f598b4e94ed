--------------------------- MODULE CircuitBreaker ---------------------------
(***************************************************************************)
(* The circuit breaker of one provider: health objects in the memory of    *)
(* every process, and the state hash in Redis they persist to and load.    *)
(*                                                                         *)
(* A function that awaits holds a reference to the health object it found; *)
(* another call may replace the object in the map meanwhile, so objects    *)
(* have addresses (Slots) here.  Every await is a step boundary.  The      *)
(* commands a process sends to Redis run in the order sent (one            *)
(* connection), unordered between processes; saves are not awaited.  The   *)
(* configuration an await returns may be any the administrator has set:    *)
(* threshold 0 disables the breaker.                                       *)
(***************************************************************************)
EXTENDS Integers, Sequences

CONSTANTS
    Instances, Calls,
    Servers,                \* the processes calls run in; the others only reset
    Thresholds,             \* the failure thresholds a call may be given
    HalfOpenSuccesses,      \* successes that close a half-open circuit
    MaxFailures,            \* bound: the failure count saturates
    MaxQueue,               \* bound: a process with as many unanswered commands
                            \* sends no other
    MaxSlots,
    NoCall, Missing

Slots == 1..MaxSlots
NoSlot == 0

ASSUME ThresholdAssumption ==
    /\ Thresholds \subseteq 0..MaxFailures
    /\ \E t \in Thresholds : t > 0
ASSUME BoundAssumption ==
    /\ Servers \subseteq Instances
    /\ HalfOpenSuccesses \in Nat \ {0} /\ MaxFailures \in Nat \ {0}
    /\ MaxQueue \in Nat /\ MaxSlots \in Nat

\* until: whether circuitOpenUntil is set.  One that is set may be found to
\* have passed or not to have: the clock is not modelled.
Health == [state : {"closed", "open", "half-open"}, failures : 0..MaxFailures,
           until : BOOLEAN, successes : 0..(HalfOpenSuccesses - 1)]

Commands == [type : {"save"}, health : Health]
                \cup [type : {"load"}, call : Calls]

\* at: the await a call is in.  isCircuitOpen, recordFailure and recordSuccess
\* all begin with getOrCreateHealth; which of them it is shows only after that.
CallStates == [at : {"load", "loaded", "config", "checking", "forced",
                     "dash_load", "dash_loaded", "dash_config"},
               host : Instances, obj : Slots \cup {NoSlot},
               reply : Health \cup {Missing}]

ASSUME NoCallAssumption == NoCall \notin CallStates
ASSUME MissingAssumption == Missing \notin Health

VARIABLES
    heap,       \* health objects of each process
    current,    \* healthMap: the object the process would find, or NoSlot
    loaded,     \* loadedFromRedis
    chan,       \* commands sent to Redis and not answered
    redis,      \* the state hash, or Missing
    call,       \* calls in progress
    calm        \* auxiliary: no open state was about since the call began

vars == <<heap, current, loaded, chan, redis, call, calm>>

Blank == [state |-> "closed", failures |-> 0, until |-> FALSE, successes |-> 0]

TypeOK ==
    /\ heap \in [Instances -> [Slots -> Health]]
    /\ current \in [Instances -> Slots \cup {NoSlot}]
    /\ loaded \in [Instances -> BOOLEAN]
    /\ chan \in [Instances -> Seq(Commands)]
    /\ redis \in Health \cup {Missing}
    /\ call \in [Calls -> CallStates \cup {NoCall}]
    /\ calm \in [Calls -> BOOLEAN]

Init ==
    /\ heap = [i \in Instances |-> [s \in Slots |-> Blank]]
    /\ current = [i \in Instances |-> NoSlot]
    /\ loaded = [i \in Instances |-> FALSE]
    /\ chan = [i \in Instances |-> <<>>]
    /\ redis = Missing
    /\ call = [c \in Calls |-> NoCall]
    /\ calm = [c \in Calls |-> FALSE]

-----------------------------------------------------------------------------
(* Objects. *)

At(c, stage) == call[c] # NoCall /\ call[c].at = stage
Host(c) == call[c].host
Mine(c) == heap[Host(c)][call[c].obj]

\* The addresses that calls of process i other than c hold.
Others(c, i) == {call[d].obj : d \in {e \in Calls \ {c} : call[e] # NoCall /\ Host(e) = i}}

Held(i) == {call[d].obj : d \in {e \in Calls : call[e] # NoCall /\ Host(e) = i}}
              \cup {current[i]}

\* The lowest address nobody refers to; what is there is Blank.
New(i, s) == /\ s \notin Held(i)
             /\ \A t \in Slots \ Held(i) : s <= t

Put(i, s, h) == heap' = [heap EXCEPT ![i][s] = h]

\* Set an object, then forget those that are not referred to any more.
PutKeeping(i, s, h, live) ==
    heap' = [heap EXCEPT ![i] = [t \in Slots |->
                IF t \notin live THEN Blank ELSE IF t = s THEN h ELSE heap[i][t]]]

Send(i, cmd) == /\ Len(chan[i]) < MaxQueue
                /\ chan' = [chan EXCEPT ![i] = Append(@, cmd)]
Save(i, h) == Send(i, [type |-> "save", health |-> h])

Return(c) == call' = [call EXCEPT ![c] = NoCall]

\* Assign to the object a call holds, persist it, and return.
Conclude(c, h) ==
    /\ Return(c)
    /\ PutKeeping(Host(c), call[c].obj, h, Others(c, Host(c)) \cup {current[Host(c)]})
    /\ Save(Host(c), h)

Leave(c) ==
    /\ Return(c)
    /\ PutKeeping(Host(c), call[c].obj, Mine(c), Others(c, Host(c)) \cup {current[Host(c)]})
    /\ UNCHANGED chan

Bump(n, max) == IF n < max THEN n + 1 ELSE n

\* handleDisabledCircuitBreaker
Disable(c) == IF Mine(c) # Blank THEN Conclude(c, Blank) ELSE Leave(c)

\* Mutant: a half-open circuit starts counting from zero.
TrippedForgets(h) == [Blank EXCEPT !.state = "half-open"]

\* isCircuitOpen leaves the old deadline in place; only an open state reads it.
Tripped(h) == [h EXCEPT !.state = "half-open", !.successes = 0, !.until = FALSE]

-----------------------------------------------------------------------------
(* getOrCreateHealth. *)

\* Mutant: a process that has loaded the state once trusts its memory.
NeedsRedisCheckOnce(i) == current[i] = NoSlot /\ ~loaded[i]

\* Memory is trusted only while it says closed, or before the first load.
NeedsRedisCheck(i) ==
    \/ current[i] = NoSlot /\ ~loaded[i]
    \/ current[i] # NoSlot /\ heap[i][current[i]].state # "closed"

Start(i, stage, s) == [at |-> stage, host |-> i, obj |-> s, reply |-> Missing]

Enter(c, i) ==
    /\ call[c] = NoCall
    /\ \/ /\ NeedsRedisCheck(i)
          /\ call' = [call EXCEPT ![c] = Start(i, "load", current[i])]
          /\ loaded' = [loaded EXCEPT ![i] = TRUE]
          /\ Send(i, [type |-> "load", call |-> c])
          /\ UNCHANGED <<heap, current>>
       \/ /\ ~NeedsRedisCheck(i) /\ current[i] # NoSlot
          /\ call' = [call EXCEPT ![c] = Start(i, "config", current[i])]
          /\ UNCHANGED <<heap, current, loaded, chan>>
       \/ /\ ~NeedsRedisCheck(i) /\ current[i] = NoSlot
          /\ \E s \in Slots :
                /\ New(i, s)
                /\ current' = [current EXCEPT ![i] = s]
                /\ call' = [call EXCEPT ![c] = Start(i, "config", s)]
          /\ UNCHANGED <<heap, loaded, chan>>
    /\ UNCHANGED redis

\* Redis has another state than the object this call holds, or it holds none:
\* a new object replaces whatever the map has by now.
Adopt(c, h) ==
    \E s \in Slots :
        /\ New(Host(c), s)
        /\ current' = [current EXCEPT ![Host(c)] = s]
        /\ call' = [call EXCEPT ![c].at = "config", ![c].obj = s, ![c].reply = Missing]
        /\ PutKeeping(Host(c), s, h, Others(c, Host(c)) \cup {s})

Sync(c) ==
    /\ At(c, "loaded")
    /\ LET h == call[c].reply
           held == call[c].obj # NoSlot
           keep == /\ call' = [call EXCEPT ![c].at = "config", ![c].reply = Missing]
                   /\ UNCHANGED current
       IN  \/ h # Missing /\ (held => h.state # Mine(c).state) /\ Adopt(c, h)
           \/ h = Missing /\ ~held /\ Adopt(c, Blank)
           \/ h # Missing /\ held /\ h.state = Mine(c).state /\ keep /\ UNCHANGED heap
           \/ /\ h = Missing /\ held /\ keep
              /\ IF Mine(c).state = "closed" THEN UNCHANGED heap
                 ELSE Put(Host(c), call[c].obj, Blank)
    /\ UNCHANGED <<loaded, chan, redis>>

-----------------------------------------------------------------------------
(* isCircuitOpen. *)

Look(c) ==
    /\ At(c, "config")
    /\ \/ Mine(c).state = "closed" /\ Leave(c)
       \/ /\ Mine(c).state # "closed"
          /\ call' = [call EXCEPT ![c].at = "checking"]
          /\ UNCHANGED <<heap, chan>>
    /\ UNCHANGED <<current, loaded, redis>>

Admit(c) ==
    /\ At(c, "checking")
    /\ \/ 0 \in Thresholds /\ Disable(c)
       \/ \E t \in Thresholds \ {0} : Mine(c).state # "open" /\ Leave(c)
       \/ \E t \in Thresholds \ {0} :
             /\ Mine(c).state = "open" /\ Mine(c).until
             /\ Conclude(c, Tripped(Mine(c)))
    /\ UNCHANGED <<current, loaded, redis>>

Refuse(c) ==
    /\ At(c, "checking")
    /\ \E t \in Thresholds : t > 0
    /\ Mine(c).state = "open"
    /\ Leave(c)
    /\ UNCHANGED <<current, loaded, redis>>

-----------------------------------------------------------------------------
(* recordFailure: count after the first await, open after the second. *)

\* Mutant: the threshold has to be exceeded.
CountBeyond(c) ==
    /\ At(c, "config")
    /\ \E t \in Thresholds :
          LET h == [Mine(c) EXCEPT !.failures = Bump(@, MaxFailures)]
          IN  IF t = 0 THEN Disable(c)
              ELSE IF h.state # "open" /\ h.failures > t
              THEN /\ call' = [call EXCEPT ![c].at = "forced"]
                   /\ Put(Host(c), call[c].obj, h)
                   /\ UNCHANGED chan
              ELSE Conclude(c, h)
    /\ UNCHANGED <<current, loaded, redis>>

Count(c) ==
    /\ At(c, "config")
    /\ \E t \in Thresholds :
          LET h == [Mine(c) EXCEPT !.failures = Bump(@, MaxFailures)]
          IN  IF t = 0 THEN Disable(c)
              ELSE IF h.state # "open" /\ h.failures >= t
              THEN /\ call' = [call EXCEPT ![c].at = "forced"]
                   /\ Put(Host(c), call[c].obj, h)
                   /\ UNCHANGED chan
              ELSE Conclude(c, h)
    /\ UNCHANGED <<current, loaded, redis>>

\* Mutant: the deadline of the previous opening is kept.
OpenUpKeepsDeadline(c) ==
    /\ At(c, "forced")
    /\ \E t \in Thresholds :
          LET h == Mine(c)
          IN  IF t = 0 THEN Disable(c)
              ELSE IF h.failures < t \/ h.state = "open" THEN Conclude(c, h)
              ELSE Conclude(c, [h EXCEPT !.state = "open", !.successes = 0])
    /\ UNCHANGED <<current, loaded, redis>>

\* With the configuration reloaded, and whatever others did to the object.
OpenUp(c) ==
    /\ At(c, "forced")
    /\ \E t \in Thresholds :
          LET h == Mine(c)
          IN  IF t = 0 THEN Disable(c)
              ELSE IF h.failures < t \/ h.state = "open" THEN Conclude(c, h)
              ELSE Conclude(c, [h EXCEPT !.state = "open", !.successes = 0,
                                         !.until = TRUE])
    /\ UNCHANGED <<current, loaded, redis>>

-----------------------------------------------------------------------------
(* recordSuccess. *)

\* Mutant: one success too many is asked for.
CreditLate(c) ==
    /\ At(c, "config")
    /\ LET h == Mine(c)
           n == h.successes + 1
       IN  \/ 0 \in Thresholds /\ Disable(c)
           \/ /\ \E t \in Thresholds : t > 0
              /\ IF h.state = "half-open"
                 THEN Conclude(c, IF n > HalfOpenSuccesses THEN Blank
                                  ELSE [h EXCEPT !.successes = n])
                 ELSE IF h.state = "closed" /\ h.failures > 0
                 THEN Conclude(c, [h EXCEPT !.failures = 0])
                 ELSE Leave(c)
    /\ UNCHANGED <<current, loaded, redis>>

Credit(c) ==
    /\ At(c, "config")
    /\ LET h == Mine(c)
           n == h.successes + 1
       IN  \/ 0 \in Thresholds /\ Disable(c)
           \/ /\ \E t \in Thresholds : t > 0
              /\ IF h.state = "half-open"
                 THEN Conclude(c, IF n >= HalfOpenSuccesses THEN Blank
                                  ELSE [h EXCEPT !.successes = n])
                 ELSE IF h.state = "closed" /\ h.failures > 0
                 THEN Conclude(c, [h EXCEPT !.failures = 0])
                 ELSE Leave(c)
    /\ UNCHANGED <<current, loaded, redis>>

-----------------------------------------------------------------------------
(* getAllHealthStatusAsync: the dashboard reloads what Redis has, and reads   *)
(* the map again after its awaits.                                           *)

Ensure(i) ==
    IF current[i] # NoSlot THEN UNCHANGED current
    ELSE \E s \in Slots : New(i, s) /\ current' = [current EXCEPT ![i] = s]

Dashboard(c, i, forceRefresh) ==
    LET stale == \/ forceRefresh \/ ~loaded[i]
                 \/ current[i] # NoSlot /\ heap[i][current[i]].state # "closed"
    IN  /\ call[c] = NoCall
        /\ \/ /\ stale
              /\ call' = [call EXCEPT ![c] = Start(i, "dash_load", NoSlot)]
              /\ loaded' = [loaded EXCEPT ![i] = @ /\ ~forceRefresh]
              /\ Send(i, [type |-> "load", call |-> c])
              /\ UNCHANGED <<heap, current>>
           \/ ~stale /\ Ensure(i) /\ UNCHANGED <<heap, call, loaded, chan>>
        /\ UNCHANGED redis

Reload(c) ==
    LET i == Host(c)
        h == call[c].reply
        go == call' = [call EXCEPT ![c].at = "dash_config", ![c].reply = Missing]
    IN  /\ At(c, "dash_loaded")
        /\ loaded' = [loaded EXCEPT ![i] = TRUE]
        /\ \/ /\ h # Missing /\ go
              /\ \E s \in Slots : /\ New(i, s)
                                  /\ current' = [current EXCEPT ![i] = s]
                                  /\ PutKeeping(i, s, h, Others(c, i) \cup {s})
           \/ /\ h = Missing /\ go /\ UNCHANGED current
              /\ IF current[i] = NoSlot \/ heap[i][current[i]].state = "closed"
                 THEN UNCHANGED heap
                 ELSE Put(i, current[i], Blank)
        /\ UNCHANGED <<chan, redis>>

Report(c) ==
    /\ At(c, "dash_config")
    /\ LET i == Host(c)
           o == current[i]
           h == heap[i][o]
           set(v) == Put(i, o, v) /\ Save(i, v) /\ UNCHANGED current
       IN  /\ Return(c)
           /\ \/ o # NoSlot /\ h.state # "closed" /\ 0 \in Thresholds /\ set(Blank)
              \/ /\ o # NoSlot /\ h.state = "open" /\ h.until
                 /\ \E t \in Thresholds : t > 0
                 /\ set(Tripped(h))
              \/ /\ o # NoSlot => \/ h.state = "closed"
                                  \/ \E t \in Thresholds : t > 0
                 /\ Ensure(i) /\ UNCHANGED <<heap, chan>>
    /\ UNCHANGED <<loaded, redis>>

-----------------------------------------------------------------------------
(* Synchronous entry points; they act on the object in the map. *)

\* getAllHealthStatus, at the start of every probe cycle.
Scan(i) ==
    /\ current[i] # NoSlot
    /\ LET h == heap[i][current[i]]
       IN  /\ h.state = "open" /\ h.until
           /\ Put(i, current[i], Tripped(h)) /\ Save(i, Tripped(h))
    /\ UNCHANGED <<current, loaded, call, redis>>

\* A successful probe of a provider that was open when the probe started.
TripToHalfOpen(i) ==
    /\ current[i] # NoSlot
    /\ LET h == heap[i][current[i]]
       IN  /\ h.state = "open"
           /\ Put(i, current[i], Tripped(h)) /\ Save(i, Tripped(h))
    /\ UNCHANGED <<current, loaded, call, redis>>

ResetCircuit(i) ==
    /\ Ensure(i)
    /\ IF current[i] # NoSlot THEN Put(i, current[i], Blank) ELSE UNCHANGED heap
    /\ Save(i, Blank)
    /\ UNCHANGED <<loaded, call, redis>>

ForceClose(i) ==
    /\ IF current[i] # NoSlot THEN Put(i, current[i], Blank) ELSE UNCHANGED heap
    /\ Save(i, Blank)
    /\ UNCHANGED <<current, loaded, call, redis>>

\* getCircuitState, for the decision log: a closed object if there is none.
Peek(i) ==
    /\ current[i] = NoSlot /\ Ensure(i)
    /\ UNCHANGED <<heap, loaded, chan, call, redis>>

-----------------------------------------------------------------------------
(* Redis and process restarts. *)

Answer(i, cmd, value) ==
    /\ chan' = [chan EXCEPT ![i] = Tail(@)]
    /\ IF cmd.type = "load"
       THEN call' = [call EXCEPT ![cmd.call].reply = value,
                        ![cmd.call].at = IF @ = "load" THEN "loaded" ELSE "dash_loaded"]
       ELSE UNCHANGED call
    /\ UNCHANGED <<heap, current, loaded>>

Execute(i) ==
    /\ chan[i] # <<>>
    /\ LET cmd == Head(chan[i])
       IN  /\ Answer(i, cmd, redis)
           /\ redis' = IF cmd.type = "save" THEN cmd.health ELSE redis

\* A command fails: a save is lost, a load answers as if nothing were stored.
Fail(i) ==
    /\ chan[i] # <<>>
    /\ Answer(i, Head(chan[i]), Missing)
    /\ UNCHANGED redis

\* The hash reaches its lifetime of a day.
Expire ==
    /\ redis # Missing /\ redis' = Missing
    /\ UNCHANGED <<heap, current, loaded, chan, call>>

Restart(i) ==
    /\ heap' = [heap EXCEPT ![i] = [s \in Slots |-> Blank]]
    /\ current' = [current EXCEPT ![i] = NoSlot]
    /\ loaded' = [loaded EXCEPT ![i] = FALSE]
    /\ chan' = [chan EXCEPT ![i] = <<>>]
    /\ call' = [c \in Calls |->
                  IF call[c] # NoCall /\ Host(c) = i THEN NoCall ELSE call[c]]
    /\ UNCHANGED redis

-----------------------------------------------------------------------------

Open(h) == h # Missing /\ h.state = "open"

\* No open state in Redis, nor on its way there from process i.
Quiet(i) ==
    /\ ~Open(redis)
    /\ \A n \in DOMAIN chan[i] : chan[i][n].type = "save" => ~Open(chan[i][n].health)

Watch ==
    calm' = [c \in Calls |-> /\ call'[c] # NoCall
                             /\ call'[c].at \in {"load", "loaded", "config", "checking"}
                             /\ call[c] # NoCall => calm[c]
                             /\ \E i \in Instances : call'[c].host = i /\ Quiet(i)']

CallStep(c) ==
    \/ \E i \in Servers : Enter(c, i)
    \/ \E i \in Servers, f \in BOOLEAN : Dashboard(c, i, f)
    \/ Sync(c) \/ Look(c) \/ Admit(c) \/ Refuse(c) \/ Count(c) \/ OpenUp(c)
    \/ Credit(c) \/ Reload(c) \/ Report(c)

\* A process that serves no calls has no object of interest: its resetCircuit
\* and forceCloseCircuitState both save a closed state.
InstanceStep(i) ==
    \/ i \in Servers /\ (Scan(i) \/ TripToHalfOpen(i) \/ ResetCircuit(i) \/ Peek(i))
    \/ ForceClose(i) \/ Execute(i) \/ Fail(i) \/ Restart(i)

Next ==
    /\ \/ \E c \in Calls : CallStep(c)
       \/ \E i \in Instances : InstanceStep(i)
       \/ Expire
    /\ Watch

Spec == Init /\ [][Next]_vars

-----------------------------------------------------------------------------
(* Properties. *)

\* Every state in memory, in flight or in Redis.
States ==
    {heap[i][s] : i \in Instances, s \in Slots}
        \cup {redis} \cup {call[c].reply : c \in {d \in Calls : call[d] # NoCall}}
        \cup UNION {{chan[i][n].health : n \in {m \in DOMAIN chan[i] :
                        chan[i][m].type = "save"}} : i \in Instances}

\* An open circuit has a deadline: isCircuitOpen leaves the open state only
\* when circuitOpenUntil is set, so without one it would refuse for ever.
OpenHasDeadline == \A h \in States : Open(h) => h.until

\* A circuit that is not closed still carries its failures, so that a single
\* failure re-opens a half-open one (recordFailure has no case for it).
HalfOpenOnProbation ==
    \A h \in States : h # Missing /\ h.state # "closed"
        => \E t \in Thresholds \ {0} : h.failures >= t

\* No storm of concurrent failures leaves a circuit closed: at the highest
\* threshold it is open, or a recordFailure that will open it is under way.
BoundedFailures ==
    \A i \in Instances, s \in Slots :
        heap[i][s].state = "closed" /\ (\A t \in Thresholds : heap[i][s].failures >= t)
            => \E c \in Calls : At(c, "forced") /\ Host(c) = i /\ call[c].obj = s

\* A reset by any process, or the loss of the hash, is honoured by the next
\* check of every other: a check that never had an open state in Redis, nor
\* one its own process was sending there, does not refuse.
ResetHonoured == [][\A c \in Calls : Refuse(c) => ~calm[c]]_vars
=============================================================================
