------------------------ MODULE CircuitBreakerProofs ------------------------
(***************************************************************************)
(* The invariants of the circuit breaker, for every number of processes,   *)
(* calls and thresholds.                                                   *)
(***************************************************************************)
EXTENDS CircuitBreaker, SequenceTheorems, TLAPS

-----------------------------------------------------------------------------
\* What may be in memory: an open state has its deadline, and one that is not
\* closed still carries the failures that opened it.
Sound == {h \in Health : /\ h.state = "open" => h.until
                         /\ h.state # "closed" => \E t \in Thresholds \ {0} : h.failures >= t}

\* Closed with as many failures as any threshold allows: only a call that is about
\* to open the circuit leaves that behind, and it never reaches Redis.
Stormy(h) == h.state = "closed" /\ \A t \in Thresholds : h.failures >= t
Stored == {h \in Sound : ~Stormy(h)}

StoredCommands == [type : {"save"}, health : Stored] \cup [type : {"load"}, call : Calls]

\* A call past its load has the object it works on.
Working == {"config", "checking", "forced"}
GoodCalls == {k \in [at : {"load", "loaded", "dash_load", "dash_loaded", "dash_config"}
                              \cup Working,
                     host : Instances, obj : Slots \cup {NoSlot},
                     reply : Stored \cup {Missing}] : k.at \in Working => k.obj \in Slots}

Types ==
    /\ heap \in [Instances -> [Slots -> Sound]]
    /\ current \in [Instances -> Slots \cup {NoSlot}]
    /\ loaded \in [Instances -> BOOLEAN]
    /\ chan \in [Instances -> Seq(StoredCommands)]
    /\ redis \in Stored \cup {Missing}
    /\ call \in [Calls -> GoodCalls \cup {NoCall}]
    /\ calm \in [Calls -> BOOLEAN]

\* Each load under way is that of one call, which waits for it.
Waits(c, i) == call[c] # NoCall /\ call[c].host = i /\ call[c].at \in {"load", "dash_load"}
WaitsNext(c, i) == /\ call'[c] # NoCall /\ call'[c].host = i
                   /\ call'[c].at \in {"load", "dash_load"}
LoadsMatch ==
    \A i \in Instances : \A n \in 1..Len(chan[i]) :
        chan[i][n].type = "load" =>
            /\ Waits(chan[i][n].call, i)
            /\ \A m \in 1..Len(chan[i]) :
                  chan[i][m].type = "load" /\ m # n => chan[i][m].call # chan[i][n].call

Forced(c, i, s) == call[c] # NoCall /\ call[c].at = "forced" /\ call[c].host = i
                                    /\ call[c].obj = s

\* BoundedFailures, in these words.
StormsEnd ==
    \A i \in Instances, s \in Slots :
        Stormy(heap[i][s]) => \E c \in Calls : Forced(c, i, s)

IInv == Types /\ LoadsMatch /\ StormsEnd

-----------------------------------------------------------------------------
(* The data. *)

\* The constants of the bounds.
LEMMA Bounds ==
    /\ MaxSlots \in Nat /\ MaxFailures \in Nat \ {0} /\ HalfOpenSuccesses \in Nat \ {0}
    /\ Thresholds \subseteq 0..MaxFailures
    /\ NoSlot \notin Slots
BY ThresholdAssumption, BoundAssumption DEF NoSlot, Slots

\* A new object is sound, and so is one a success or a reset left.
LEMMA BlankStored ==
    Blank \in Stored /\ Blank \in Sound /\ ~Stormy(Blank)
<1>1. Blank \in Health
  BY Bounds DEF Blank, Health
<1>2. PICK t \in Thresholds : t > 0
  BY ThresholdAssumption
<1>3. t \in Nat
  BY Bounds
<1>4. ~Stormy(Blank)
  BY <1>2, <1>3 DEF Stormy, Blank
<1> QED BY <1>1, <1>4 DEF Stored, Sound, Blank

\* What is stored is sound, and neither is the absence of a state.
LEMMA StoredIsSound ==
    Stored \subseteq Sound /\ Sound \subseteq Health /\ Missing \notin Health
BY MissingAssumption DEF Stored, Sound

\* A call in progress is not the absence of one.
LEMMA CallsAreCalls ==
    NoCall \notin GoodCalls
<1>1. GoodCalls \subseteq CallStates
  BY StoredIsSound DEF GoodCalls, CallStates, Working
<1> QED BY <1>1, NoCallAssumption

\* An open circuit that is tried is half-open with the failures that opened it.
LEMMA TrippedStored ==
    ASSUME NEW h \in Sound, h.state = "open"
    PROVE  Tripped(h) \in Stored
<1> DEFINE r == Tripped(h)
<1>1. h \in Health
  BY StoredIsSound
<1>2. /\ r \in Health /\ r.state = "half-open" /\ r.failures = h.failures
  <2>1. 0 \in 0..(HalfOpenSuccesses - 1)
    BY Bounds
  <2>2. r = [h EXCEPT !.state = "half-open", !.successes = 0, !.until = FALSE]
    BY DEF Tripped
  <2> HIDE DEF r
  <2> QED BY <1>1, <2>1, <2>2 DEF Health
<1> HIDE DEF r
<1>3. \E t \in Thresholds \ {0} : r.failures >= t
  BY <1>2 DEF Sound
<1> QED BY <1>2, <1>3 DEF Stored, Sound, Stormy, r

\* A sound object that is not stormy may be saved.
LEMMA CalmStored ==
    ASSUME NEW h \in Sound, ~Stormy(h)
    PROVE  h \in Stored
BY DEF Stored

\* One more failure leaves a sound object sound.
LEMMA CountedSound ==
    ASSUME NEW h \in Sound
    PROVE  /\ [h EXCEPT !.failures = Bump(@, MaxFailures)] \in Sound
           /\ [h EXCEPT !.failures = Bump(@, MaxFailures)].state = h.state
<1> DEFINE n == Bump(h.failures, MaxFailures)
           r == [h EXCEPT !.failures = n]
<1>1. h \in Health
  BY StoredIsSound
<1>2. n \in 0..MaxFailures /\ n >= h.failures
  BY <1>1, Bounds DEF Bump, Health
<1> HIDE DEF n
<1>3. r \in Health /\ r.state = h.state /\ r.until = h.until /\ r.failures = n
  BY <1>1, <1>2 DEF Health
<1> HIDE DEF r
<1>4. r.state # "closed" => \E t \in Thresholds \ {0} : r.failures >= t
  <2> SUFFICES ASSUME h.state # "closed"
               PROVE  \E t \in Thresholds \ {0} : n >= t
    BY <1>3
  <2>1. PICK t \in Thresholds \ {0} : h.failures >= t
    BY DEF Sound
  <2>2. t \in Nat /\ h.failures \in Nat /\ n \in Nat
    BY <1>1, <1>2, Bounds DEF Health
  <2> QED BY <1>2, <2>1, <2>2
<1>5. r.state = "open" => r.until
  BY <1>3 DEF Sound
<1> QED BY <1>3, <1>4, <1>5 DEF Sound, r, n

\* Opening sets the deadline, and the failures are there.
LEMMA OpenedStored ==
    ASSUME NEW h \in Sound, NEW t \in Thresholds \ {0}, h.failures >= t
    PROVE  [h EXCEPT !.state = "open", !.successes = 0, !.until = TRUE] \in Stored
<1> DEFINE r == [h EXCEPT !.state = "open", !.successes = 0, !.until = TRUE]
<1>1. h \in Health
  BY StoredIsSound
<1>2. r \in Health /\ r.state = "open" /\ r.until /\ r.failures = h.failures
  <2>1. 0 \in 0..(HalfOpenSuccesses - 1)
    BY Bounds
  <2> QED BY <1>1, <2>1 DEF Health
<1> HIDE DEF r
<1> QED BY <1>2 DEF Stored, Sound, Stormy, r

\* A half-open object that is credited stays so.
LEMMA CreditedStored ==
    ASSUME NEW h \in Sound, h.state = "half-open", h.successes + 1 < HalfOpenSuccesses
    PROVE  [h EXCEPT !.successes = h.successes + 1] \in Stored
<1> DEFINE n == h.successes + 1
           r == [h EXCEPT !.successes = n]
<1>1. h \in Health
  BY StoredIsSound
<1>2. n \in 0..(HalfOpenSuccesses - 1)
  BY <1>1, Bounds DEF Health
<1> HIDE DEF n
<1>3. r \in Health /\ r.state = "half-open" /\ r.failures = h.failures
  BY <1>1, <1>2 DEF Health
<1>4. \E t \in Thresholds \ {0} : h.failures >= t
  BY DEF Sound
<1> HIDE DEF r
<1>5. r \in Stored
  BY <1>3, <1>4 DEF Stored, Sound, Stormy
<1> QED BY <1>5 DEF r, n

\* A closed one is forgiven its failures.
LEMMA ForgivenStored ==
    ASSUME NEW h \in Sound, h.state = "closed"
    PROVE  [h EXCEPT !.failures = 0] \in Stored
<1> DEFINE r == [h EXCEPT !.failures = 0]
<1>1. h \in Health
  BY StoredIsSound
<1>2. r \in Health /\ r.state = "closed" /\ r.failures = 0
  BY <1>1, Bounds DEF Health
<1> HIDE DEF r
<1>3. PICK t \in Thresholds : t > 0
  BY ThresholdAssumption
<1>4. t \in Nat
  BY Bounds
<1>5. ~Stormy(r)
  BY <1>2, <1>3, <1>4 DEF Stormy
<1> QED BY <1>2, <1>5 DEF Stored, Sound, r

-----------------------------------------------------------------------------
(* What the steps do to one variable. *)

\* At most the object at s becomes h; others are as they were, or forgotten.
HeapStep(i, s, h) ==
    /\ heap' \in [Instances -> [Slots -> Sound]]
    /\ \A j \in Instances, t \in Slots :
          \/ heap'[j][t] \in {heap[j][t], Blank}
          \/ j = i /\ t = s /\ heap'[j][t] = h
    /\ s \in Slots => heap'[i][s] \in {h, Blank}

\* An object is assigned to.
LEMMA PutHeap ==
    ASSUME heap \in [Instances -> [Slots -> Sound]], NEW i \in Instances,
           NEW s \in Slots, NEW h \in Sound, Put(i, s, h)
    PROVE  HeapStep(i, s, h)
BY DEF Put, HeapStep

\* ... and those nobody refers to any more are forgotten.
LEMMA PutKeepingHeap ==
    ASSUME heap \in [Instances -> [Slots -> Sound]], NEW i \in Instances,
           NEW s \in Slots, NEW h \in Sound, NEW live, PutKeeping(i, s, h, live)
    PROVE  HeapStep(i, s, h)
<1>1. heap' = [heap EXCEPT ![i] = [t \in Slots |->
                  IF t \notin live THEN Blank ELSE IF t = s THEN h ELSE heap[i][t]]]
  BY DEF PutKeeping
<1> QED BY <1>1, BlankStored DEF HeapStep

\* The auxiliary variable is of its type.
LEMMA WatchTyped ==
    ASSUME Watch
    PROVE  calm' \in [Calls -> BOOLEAN]
BY DEF Watch

\* Calls that wait for a load are left alone.
LoadsLeft == \A d \in Calls, j \in Instances : Waits(d, j) => call'[d] = call[d]

\* The commands under way, with nothing sent, ...
LEMMA NoneMatches ==
    ASSUME Types, LoadsMatch, LoadsLeft, chan' = chan
    PROVE  chan' \in [Instances -> Seq(StoredCommands)] /\ LoadsMatch'
<1>1. ASSUME NEW i \in Instances, NEW n \in 1..Len(chan[i]), chan[i][n].type = "load"
      PROVE  WaitsNext(chan[i][n].call, i)
  <2>1. chan[i][n] \in StoredCommands
    BY DEF Types
  <2>2. chan[i][n].call \in Calls
    BY <1>1, <2>1 DEF StoredCommands
  <2>3. Waits(chan[i][n].call, i)
    BY <1>1 DEF LoadsMatch
  <2> QED BY <2>2, <2>3 DEF LoadsLeft, Waits, WaitsNext
<1>2. LoadsMatch'
  BY <1>1 DEF LoadsMatch, Waits, WaitsNext
<1> QED BY <1>2 DEF Types

\* ... with one more: a load is the first of its call.
LEMMA SendMatches ==
    ASSUME Types, LoadsMatch, LoadsLeft, NEW i \in Instances, NEW cmd \in StoredCommands,
           chan' = [chan EXCEPT ![i] = Append(@, cmd)],
           cmd.type = "load" => /\ \A j \in Instances : ~Waits(cmd.call, j)
                                /\ call'[cmd.call] # NoCall
                                /\ call'[cmd.call].host = i
                                /\ call'[cmd.call].at \in {"load", "dash_load"}
    PROVE  chan' \in [Instances -> Seq(StoredCommands)] /\ LoadsMatch'
<1>1. \A j \in Instances : chan[j] \in Seq(StoredCommands)
  BY DEF Types
<1>2. /\ chan' \in [Instances -> Seq(StoredCommands)]
      /\ \A j \in Instances : j # i => chan'[j] = chan[j]
      /\ chan'[i] = Append(chan[i], cmd)
  BY <1>1 DEF Types
<1>3. /\ Len(chan'[i]) = Len(chan[i]) + 1 /\ Len(chan[i]) \in Nat
      /\ \A n \in 1..Len(chan[i]) : chan'[i][n] = chan[i][n]
      /\ chan'[i][Len(chan[i]) + 1] = cmd
  BY <1>1, <1>2
<1>4. ASSUME NEW j \in Instances, NEW n \in 1..Len(chan[j]), chan[j][n].type = "load"
      PROVE  /\ chan[j][n].call \in Calls
             /\ Waits(chan[j][n].call, j) /\ WaitsNext(chan[j][n].call, j)
             /\ \A m \in 1..Len(chan[j]) :
                   chan[j][m].type = "load" /\ m # n => chan[j][m].call # chan[j][n].call
             /\ cmd.type = "load" => cmd.call # chan[j][n].call
  <2>1. chan[j][n] \in StoredCommands
    BY <1>1
  <2>2. chan[j][n].call \in Calls
    BY <1>4, <2>1 DEF StoredCommands
  <2>3. Waits(chan[j][n].call, j)
    BY <1>4 DEF LoadsMatch
  <2> QED BY <1>4, <2>2, <2>3 DEF LoadsMatch, LoadsLeft, Waits, WaitsNext
<1>5. ASSUME NEW j \in Instances, NEW n \in 1..Len(chan'[j]), chan'[j][n].type = "load"
      PROVE  /\ WaitsNext(chan'[j][n].call, j)
             /\ \A m \in 1..Len(chan'[j]) :
                   chan'[j][m].type = "load" /\ m # n => chan'[j][m].call # chan'[j][n].call
  <2>1. CASE j # i
    BY <1>2, <1>4, <1>5, <2>1
  <2>2. CASE j = i /\ n \in 1..Len(chan[i])
    <3>1. chan'[j][n] = chan[j][n] /\ chan[j][n].type = "load"
      BY <1>3, <1>5, <2>2
    <3>2. ASSUME NEW m \in 1..Len(chan'[j]), chan'[j][m].type = "load", m # n
          PROVE  chan'[j][m].call # chan'[j][n].call
      <4>1. m \in 1..Len(chan[j]) \/ m = Len(chan[j]) + 1
        BY <1>3, <2>2
      <4> QED BY <1>3, <1>4, <2>2, <3>1, <3>2, <4>1
    <3> QED BY <1>4, <2>2, <3>1, <3>2
  <2>3. CASE j = i /\ n = Len(chan[i]) + 1
    <3>1. chan'[j][n] = cmd /\ cmd.type = "load"
      BY <1>3, <1>5, <2>3
    <3>2. WaitsNext(cmd.call, j)
      BY <2>3, <3>1 DEF WaitsNext
    <3>3. ASSUME NEW m \in 1..Len(chan'[j]), chan'[j][m].type = "load", m # n
          PROVE  chan'[j][m].call # cmd.call
      <4>1. m \in 1..Len(chan[j])
        BY <1>3, <2>3, <3>3
      <4> QED BY <1>3, <1>4, <2>3, <3>1, <3>3, <4>1
    <3> QED BY <3>1, <3>2, <3>3
  <2> QED BY <1>3, <2>1, <2>2, <2>3
<1> QED BY <1>2, <1>5 DEF LoadsMatch, Waits, WaitsNext

\* ... with one less.
LEMMA TailMatches ==
    ASSUME Types, LoadsMatch, NEW i \in Instances, chan[i] # <<>>,
           chan' = [chan EXCEPT ![i] = Tail(@)],
           \A d \in Calls, j \in Instances :
              Waits(d, j) /\ ~(Head(chan[i]).type = "load" /\ d = Head(chan[i]).call)
                => call'[d] = call[d]
    PROVE  chan' \in [Instances -> Seq(StoredCommands)] /\ LoadsMatch'
<1>1. \A j \in Instances : chan[j] \in Seq(StoredCommands)
  BY DEF Types
<1>2. /\ chan' \in [Instances -> Seq(StoredCommands)]
      /\ \A j \in Instances : j # i => chan'[j] = chan[j]
      /\ chan'[i] = Tail(chan[i])
  BY <1>1 DEF Types
<1>3. /\ Len(chan'[i]) = Len(chan[i]) - 1 /\ Len(chan[i]) \in Nat /\ Len(chan[i]) > 0
      /\ \A n \in 1..Len(chan'[i]) : chan'[i][n] = chan[i][n + 1] /\ n + 1 \in 1..Len(chan[i])
      /\ Head(chan[i]) = chan[i][1]
  BY <1>1, <1>2
<1>4. ASSUME NEW j \in Instances, NEW n \in 1..Len(chan[j]), chan[j][n].type = "load",
             j # i \/ n # 1
      PROVE  WaitsNext(chan[j][n].call, j)
  <2>1. chan[j][n] \in StoredCommands
    BY <1>1
  <2>2. chan[j][n].call \in Calls
    BY <1>4, <2>1 DEF StoredCommands
  <2>3. Waits(chan[j][n].call, j)
    BY <1>4 DEF LoadsMatch
  <2>4. ~(Head(chan[i]).type = "load" /\ chan[j][n].call = Head(chan[i]).call)
    <3> SUFFICES ASSUME chan[i][1].type = "load"
                 PROVE  chan[j][n].call # chan[i][1].call
      BY <1>3
    <3>1. 1 \in 1..Len(chan[i])
      BY <1>3
    <3>2. Waits(chan[i][1].call, i)
      BY <3>1 DEF LoadsMatch
    <3>3. CASE j # i
      BY <2>3, <3>2, <3>3 DEF Waits
    <3>4. CASE j = i
      BY <1>4, <3>1, <3>4 DEF LoadsMatch
    <3> QED BY <3>3, <3>4
  <2> QED BY <2>2, <2>3, <2>4 DEF Waits, WaitsNext
<1>5. ASSUME NEW j \in Instances, NEW n \in 1..Len(chan'[j]), chan'[j][n].type = "load"
      PROVE  /\ WaitsNext(chan'[j][n].call, j)
             /\ \A m \in 1..Len(chan'[j]) :
                   chan'[j][m].type = "load" /\ m # n => chan'[j][m].call # chan'[j][n].call
  <2>1. CASE j # i
    BY <1>2, <1>4, <1>5, <2>1 DEF LoadsMatch
  <2>2. CASE j = i
    <3>1. /\ chan'[j][n] = chan[j][n + 1] /\ n + 1 \in 1..Len(chan[j])
          /\ n + 1 # 1
      BY <1>3, <2>2
    <3>2. WaitsNext(chan[j][n + 1].call, j)
      BY <1>4, <1>5, <3>1
    <3>3. ASSUME NEW m \in 1..Len(chan'[j]), chan'[j][m].type = "load", m # n
          PROVE  chan'[j][m].call # chan'[j][n].call
      <4>1. /\ chan'[j][m] = chan[j][m + 1] /\ m + 1 \in 1..Len(chan[j])
            /\ m + 1 # n + 1
        BY <1>3, <2>2, <3>3
      <4> QED BY <1>5, <3>1, <3>3, <4>1 DEF LoadsMatch
    <3> QED BY <3>1, <3>2, <3>3
  <2> QED BY <2>1, <2>2
<1> QED BY <1>2, <1>5 DEF LoadsMatch, Waits, WaitsNext

-----------------------------------------------------------------------------
(* The steps of a call. *)

\* Everything but the heap, the calls and the commands.
RestTyped ==
    /\ current' \in [Instances -> Slots \cup {NoSlot}]
    /\ loaded' \in [Instances -> BOOLEAN]
    /\ redis' \in Stored \cup {Missing}
    /\ Watch

ChanKept == chan' \in [Instances -> Seq(StoredCommands)] /\ LoadsMatch'

\* A step of a call keeps the invariant if it leaves no storm behind, unless it is
\* about to open that object, and none where it was about to.
LEMMA CallKeeps ==
    ASSUME IInv, RestTyped, ChanKept, NEW c \in Calls, NEW k \in GoodCalls \cup {NoCall},
           call' = [call EXCEPT ![c] = k],
           NEW i \in Instances, NEW s \in Slots \cup {NoSlot}, NEW h, HeapStep(i, s, h),
           Stormy(h) => \/ s \in Slots /\ heap'[i][s] = heap[i][s]
                        \/ k # NoCall /\ k.at = "forced" /\ k.host = i /\ k.obj = s,
           call[c] # NoCall /\ call[c].at = "forced"
              => call[c].host = i /\ call[c].obj = s /\ ~Stormy(h)
    PROVE  IInv'
<1>1. Types'
  BY WatchTyped DEF IInv, Types, RestTyped, ChanKept, HeapStep
<1>2. StormsEnd'
  <2> SUFFICES ASSUME NEW j \in Instances, NEW t \in Slots, Stormy(heap'[j][t])
               PROVE  \E d \in Calls : /\ call'[d] # NoCall /\ call'[d].at = "forced"
                                       /\ call'[d].host = j /\ call'[d].obj = t
    BY DEF StormsEnd, Stormy, Forced
  <2>1. /\ call'[c] = k
        /\ \A d \in Calls : d # c => call'[d] = call[d]
    BY DEF IInv, Types
  <2>2. heap'[j][t] # Blank
    BY BlankStored
  <2>3. CASE heap'[j][t] = heap[j][t] /\ ~(j = i /\ t = s /\ ~Stormy(h))
    <3>1. PICK d \in Calls : Forced(d, j, t)
      BY <2>3 DEF IInv, StormsEnd
    <3>2. CASE d # c
      BY <2>1, <3>1, <3>2 DEF Forced
    <3>3. CASE d = c
      BY <2>3, <3>1, <3>3 DEF Forced
    <3> QED BY <3>2, <3>3
  <2>4. CASE j = i /\ t = s /\ heap'[j][t] = h
    <3>1. CASE heap'[i][s] = heap[i][s]
      <4>1. CASE ~Stormy(h)
        BY <2>4, <4>1
      <4>2. CASE Stormy(h)
        BY <2>3, <2>4, <3>1, <4>2
      <4> QED BY <4>1, <4>2
    <3>2. CASE k # NoCall /\ k.at = "forced" /\ k.host = i /\ k.obj = s
      BY <2>1, <2>4, <3>2
    <3> QED BY <2>4, <3>1, <3>2
  <2>5. CASE heap'[j][t] = heap[j][t] /\ j = i /\ t = s /\ ~Stormy(h)
    <3>1. heap'[i][s] \in {h, Blank}
      BY <2>5 DEF HeapStep
    <3> QED BY <2>2, <2>5, <3>1
  <2> QED BY <2>2, <2>3, <2>4, <2>5 DEF HeapStep
<1> QED BY <1>1, <1>2 DEF IInv, ChanKept

\* A call that is past its load waits for none.
LEMMA WorkingLeaves ==
    ASSUME IInv, NEW c \in Calls, NEW k,
           call[c] = NoCall \/ call[c].at \notin {"load", "dash_load"},
           call' = [call EXCEPT ![c] = k]
    PROVE  LoadsLeft
BY DEF IInv, Types, LoadsLeft, Waits

\* An object that stays as it is.
LEMMA SameHeap ==
    ASSUME IInv, heap' = heap, NEW i \in Instances
    PROVE  HeapStep(i, NoSlot, Blank)
BY Bounds DEF IInv, Types, HeapStep

\* A save under way.
LEMMA SaveMatches ==
    ASSUME IInv, LoadsLeft, NEW i \in Instances, NEW h \in Stored, Save(i, h)
    PROVE  ChanKept
<1> DEFINE cmd == [type |-> "save", health |-> h]
<1>1. cmd \in StoredCommands /\ cmd.type = "save"
  BY DEF StoredCommands
<1>2. chan' = [chan EXCEPT ![i] = Append(@, cmd)]
  BY DEF Save, Send
<1> HIDE DEF cmd
<1> QED BY <1>1, <1>2, SendMatches DEF IInv, ChanKept

\* What a call that works finds.
LEMMA WorkingCall ==
    ASSUME IInv, NEW c \in Calls, call[c] # NoCall
    PROVE  /\ call[c] \in GoodCalls /\ Host(c) \in Instances /\ Host(c) = call[c].host
           /\ call[c].obj \in Slots \cup {NoSlot}
           /\ call[c].reply \in Stored \cup {Missing}
           /\ call[c].at \in Working => call[c].obj \in Slots /\ Mine(c) \in Sound
BY DEF IInv, Types, GoodCalls, Host, Mine

\* A call that concludes saves what it leaves, which is no storm.
LEMMA ConcludeKeeps ==
    ASSUME IInv, RestTyped, NEW c \in Calls, call[c] # NoCall, call[c].at \in Working,
           NEW h \in Stored, Conclude(c, h)
    PROVE  IInv'
<1> DEFINE i == Host(c)
           s == call[c].obj
<1>1. /\ i \in Instances /\ i = call[c].host /\ s \in Slots /\ h \in Sound /\ ~Stormy(h)
  BY WorkingCall, StoredIsSound DEF Stored
<1>2. HeapStep(i, s, h)
  <2>1. PutKeeping(i, s, h, Others(c, i) \cup {current[i]})
    BY DEF Conclude
  <2> HIDE DEF i, s
  <2> QED BY <1>1, <2>1, PutKeepingHeap DEF IInv, Types
<1>3. call' = [call EXCEPT ![c] = NoCall]
  BY DEF Conclude, Return
<1>4. LoadsLeft
  BY <1>3, WorkingLeaves DEF Working
<1>5. ChanKept
  BY <1>1, <1>4, SaveMatches DEF Conclude
<1> HIDE DEF i, s
<1>6. call[c].at = "forced" => call[c].host = i /\ call[c].obj = s /\ ~Stormy(h)
  BY <1>1 DEF s
<1> QED BY <1>1, <1>2, <1>3, <1>5, <1>6, CallKeeps

\* A call that leaves its object as it is.
LEMMA LeaveKeeps ==
    ASSUME IInv, RestTyped, NEW c \in Calls, call[c] # NoCall, call[c].at \in Working,
           call[c].at = "forced" => ~Stormy(Mine(c)), Leave(c)
    PROVE  IInv'
<1> DEFINE i == Host(c)
           s == call[c].obj
           h == Mine(c)
<1>1. /\ i \in Instances /\ i = call[c].host /\ s \in Slots /\ h \in Sound
      /\ h = heap[i][s]
  BY WorkingCall DEF Mine
<1>2. HeapStep(i, s, h)
  <2>1. PutKeeping(i, s, h, Others(c, i) \cup {current[i]})
    BY DEF Leave
  <2> HIDE DEF i, s, h
  <2> QED BY <1>1, <2>1, PutKeepingHeap DEF IInv, Types
<1>3. call' = [call EXCEPT ![c] = NoCall] /\ chan' = chan
  BY DEF Leave, Return
<1>4. ChanKept
  BY <1>3, WorkingLeaves, NoneMatches DEF Working, IInv, ChanKept
<1>5. HeapStep(i, s, h) /\ (Stormy(h) => heap'[i][s] = h \/ heap'[i][s] = Blank)
  BY <1>1, <1>2 DEF HeapStep
<1>6. CASE heap'[i][s] = heap[i][s]
  <2>1. call[c].at = "forced" => call[c].host = i /\ call[c].obj = s /\ ~Stormy(h)
    BY <1>1
  <2> HIDE DEF i, s, h
  <2> QED BY <1>1, <1>2, <1>3, <1>4, <1>6, <2>1, CallKeeps
<1>7. CASE heap'[i][s] = Blank
  <2>1. HeapStep(i, s, Blank)
    BY <1>1, <1>2, <1>7 DEF HeapStep
  <2>2. call[c].at = "forced" => call[c].host = i /\ call[c].obj = s /\ ~Stormy(Blank)
    BY <1>1, BlankStored
  <2> HIDE DEF i, s, h
  <2> QED BY <1>1, <1>3, <1>4, <2>1, <2>2, BlankStored, CallKeeps
<1> QED BY <1>1, <1>2, <1>6, <1>7 DEF HeapStep

\* A disabled breaker forgets.
LEMMA DisableKeeps ==
    ASSUME IInv, RestTyped, NEW c \in Calls, call[c] # NoCall, call[c].at \in Working,
           Disable(c)
    PROVE  IInv'
<1>1. CASE Mine(c) # Blank /\ Conclude(c, Blank)
  BY <1>1, ConcludeKeeps, BlankStored
<1>2. CASE Mine(c) = Blank /\ Leave(c)
  BY <1>2, LeaveKeeps, BlankStored
<1> QED BY <1>1, <1>2 DEF Disable

-----------------------------------------------------------------------------
\* A call that goes on without touching an object: it checks, or waits.
LEMMA MoveKeeps ==
    ASSUME IInv, RestTyped, ChanKept, NEW c \in Calls, NEW k \in GoodCalls \cup {NoCall},
           call' = [call EXCEPT ![c] = k], heap' = heap,
           call[c] # NoCall => call[c].at # "forced", NEW i \in Instances
    PROVE  IInv'
<1>1. HeapStep(i, NoSlot, Blank)
  BY SameHeap
<1> QED BY <1>1, BlankStored, CallKeeps

\* isCircuitOpen, with the object it found.
LEMMA LookKeeps ==
    ASSUME IInv, RestTyped, NEW c \in Calls, Look(c)
    PROVE  IInv'
<1>1. call[c] # NoCall /\ call[c].at = "config"
  BY DEF Look, At
<1>2. CASE Leave(c)
  BY <1>1, <1>2, LeaveKeeps DEF Working
<1>3. CASE call' = [call EXCEPT ![c].at = "checking"] /\ heap' = heap /\ chan' = chan
  <2> DEFINE k == [call[c] EXCEPT !.at = "checking"]
  <2>1. k \in GoodCalls
    BY <1>1, WorkingCall DEF GoodCalls, Working
  <2>2. call' = [call EXCEPT ![c] = k]
    BY <1>3
  <2> HIDE DEF k
  <2>3. ChanKept
    BY <1>1, <1>3, <2>2, WorkingLeaves, NoneMatches DEF IInv, ChanKept
  <2>4. Host(c) \in Instances
    BY <1>1, WorkingCall
  <2> QED BY <1>1, <1>3, <2>1, <2>2, <2>3, <2>4, MoveKeeps
<1> QED BY <1>2, <1>3 DEF Look

\* isCircuitOpen, with the configuration: a half-open circuit keeps its failures.
LEMMA AdmitKeeps ==
    ASSUME IInv, RestTyped, NEW c \in Calls, Admit(c) \/ Refuse(c)
    PROVE  IInv'
<1>1. call[c] # NoCall /\ call[c].at = "checking" /\ call[c].at \in Working
  BY DEF Admit, Refuse, At, Working
<1>2. Mine(c) \in Sound
  BY <1>1, WorkingCall
<1>3. CASE Disable(c)
  BY <1>1, <1>3, DisableKeeps
<1>4. CASE Leave(c)
  BY <1>1, <1>4, LeaveKeeps
<1>5. CASE Mine(c).state = "open" /\ Conclude(c, Tripped(Mine(c)))
  BY <1>1, <1>2, <1>5, TrippedStored, ConcludeKeeps
<1> QED BY <1>3, <1>4, <1>5 DEF Admit, Refuse

\* recordFailure counts: a storm it leaves behind is the one it is about to end.
LEMMA CountKeeps ==
    ASSUME IInv, RestTyped, NEW c \in Calls, Count(c)
    PROVE  IInv'
<1> DEFINE i == Host(c)
           s == call[c].obj
           h == [Mine(c) EXCEPT !.failures = Bump(@, MaxFailures)]
<1>1. call[c] # NoCall /\ call[c].at = "config" /\ call[c].at \in Working
  BY DEF Count, At, Working
<1>2. /\ Mine(c) \in Sound /\ h \in Sound /\ i \in Instances /\ i = call[c].host
      /\ s \in Slots /\ call[c] \in GoodCalls
  BY <1>1, WorkingCall, CountedSound
<1>3. PICK t \in Thresholds :
          IF t = 0 THEN Disable(c)
          ELSE IF h.state # "open" /\ h.failures >= t
          THEN /\ call' = [call EXCEPT ![c].at = "forced"]
               /\ Put(i, s, h)
               /\ UNCHANGED chan
          ELSE Conclude(c, h)
  BY DEF Count
<1>4. CASE t = 0
  BY <1>1, <1>3, <1>4, DisableKeeps
<1>5. CASE t # 0 /\ h.state # "open" /\ h.failures >= t
  <2> DEFINE k == [call[c] EXCEPT !.at = "forced"]
  <2>1. k \in GoodCalls /\ k.at = "forced" /\ k.host = i /\ k.obj = s
    BY <1>1, <1>2 DEF GoodCalls, Working
  <2>2. call' = [call EXCEPT ![c] = k] /\ Put(i, s, h) /\ chan' = chan
    BY <1>3, <1>5
  <2> HIDE DEF i, s, h, k
  <2>3. HeapStep(i, s, h)
    BY <1>2, <2>2, PutHeap DEF IInv, Types
  <2>4. ChanKept
    BY <1>1, <2>2, WorkingLeaves, NoneMatches DEF IInv, ChanKept
  <2>5. k # NoCall
    BY <2>1, CallsAreCalls
  <2> QED BY <1>1, <1>2, <2>1, <2>2, <2>3, <2>4, <2>5, CallKeeps
<1>6. CASE t # 0 /\ ~(h.state # "open" /\ h.failures >= t)
  <2>1. ~Stormy(h)
    <3> HIDE DEF h
    <3> QED BY <1>6 DEF Stormy
  <2>2. Conclude(c, h)
    BY <1>3, <1>6
  <2> HIDE DEF h
  <2> QED BY <1>1, <1>2, <2>1, <2>2, CalmStored, ConcludeKeeps
<1> QED BY <1>4, <1>5, <1>6

\* recordFailure opens, or finds that another has reset the object.
LEMMA OpenUpKeeps ==
    ASSUME IInv, RestTyped, NEW c \in Calls, OpenUp(c)
    PROVE  IInv'
<1> DEFINE h == Mine(c)
<1>1. call[c] # NoCall /\ call[c].at = "forced" /\ call[c].at \in Working
  BY DEF OpenUp, At, Working
<1>2. h \in Sound
  BY <1>1, WorkingCall
<1>3. PICK t \in Thresholds :
          IF t = 0 THEN Disable(c)
          ELSE IF h.failures < t \/ h.state = "open" THEN Conclude(c, h)
          ELSE Conclude(c, [h EXCEPT !.state = "open", !.successes = 0, !.until = TRUE])
  BY DEF OpenUp
<1> HIDE DEF h
<1>4. CASE t = 0
  BY <1>1, <1>3, <1>4, DisableKeeps
<1>5. t \in Nat /\ h.failures \in Nat
  BY <1>2, StoredIsSound, Bounds DEF Health
<1>6. CASE t # 0 /\ (h.failures < t \/ h.state = "open")
  <2>1. ~Stormy(h)
    BY <1>5, <1>6 DEF Stormy
  <2> QED BY <1>1, <1>2, <1>3, <1>6, <2>1, CalmStored, ConcludeKeeps
<1>7. CASE t # 0 /\ ~(h.failures < t \/ h.state = "open")
  <2>1. h.failures >= t /\ t \in Thresholds \ {0}
    BY <1>5, <1>7
  <2> QED BY <1>1, <1>2, <1>3, <1>7, <2>1, OpenedStored, ConcludeKeeps
<1> QED BY <1>4, <1>6, <1>7

\* recordSuccess.
LEMMA CreditKeeps ==
    ASSUME IInv, RestTyped, NEW c \in Calls, Credit(c)
    PROVE  IInv'
<1> DEFINE h == Mine(c)
<1>1. call[c] # NoCall /\ call[c].at = "config" /\ call[c].at \in Working
  BY DEF Credit, At, Working
<1>2. h \in Sound
  BY <1>1, WorkingCall
<1>3. CASE Disable(c)
  BY <1>1, <1>3, DisableKeeps
<1>4. CASE Leave(c)
  BY <1>1, <1>4, LeaveKeeps
<1>5. CASE Conclude(c, Blank)
  BY <1>1, <1>5, BlankStored, ConcludeKeeps
<1>6. CASE /\ h.state = "half-open" /\ ~(h.successes + 1 >= HalfOpenSuccesses)
           /\ Conclude(c, [h EXCEPT !.successes = h.successes + 1])
  <2> HIDE DEF h
  <2>1. h.successes + 1 < HalfOpenSuccesses
    BY <1>2, <1>6, StoredIsSound, Bounds DEF Health
  <2> QED BY <1>1, <1>2, <1>6, <2>1, CreditedStored, ConcludeKeeps
<1>7. CASE h.state = "closed" /\ Conclude(c, [h EXCEPT !.failures = 0])
  <2> HIDE DEF h
  <2> QED BY <1>1, <1>2, <1>7, ForgivenStored, ConcludeKeeps
<1> QED BY <1>3, <1>4, <1>5, <1>6, <1>7 DEF Credit

\* A call that begins, with the object it found or a load under way.
LEMMA EnterKeeps ==
    ASSUME IInv, RestTyped, NEW c \in Calls, NEW i \in Instances, Enter(c, i)
    PROVE  IInv'
<1>1. call[c] = NoCall /\ heap' = heap /\ current[i] \in Slots \cup {NoSlot}
  BY DEF Enter, IInv, Types
<1>2. ASSUME NEW s \in Slots, call' = [call EXCEPT ![c] = Start(i, "config", s)],
             chan' = chan
      PROVE  IInv'
  <2>1. Start(i, "config", s) \in GoodCalls
    BY DEF Start, GoodCalls, Working
  <2>2. ChanKept
    BY <1>1, <1>2, WorkingLeaves, NoneMatches DEF IInv, ChanKept
  <2> QED BY <1>1, <1>2, <2>1, <2>2, MoveKeeps
<1>3. CASE /\ call' = [call EXCEPT ![c] = Start(i, "load", current[i])]
           /\ Send(i, [type |-> "load", call |-> c])
  <2> DEFINE k == Start(i, "load", current[i])
             cmd == [type |-> "load", call |-> c]
  <2>1. k \in GoodCalls /\ k.at = "load" /\ k.host = i
    BY <1>1 DEF Start, GoodCalls, Working
  <2>2. cmd \in StoredCommands /\ cmd.call = c
    BY DEF StoredCommands
  <2>3. chan' = [chan EXCEPT ![i] = Append(@, cmd)]
    BY <1>3 DEF Send
  <2>4. call' = [call EXCEPT ![c] = k]
    BY <1>3
  <2> HIDE DEF k, cmd
  <2>5. k # NoCall /\ call'[c] = k
    BY <2>1, <2>4, CallsAreCalls DEF IInv, Types
  <2>6. \A j \in Instances : ~Waits(c, j)
    BY <1>1 DEF Waits
  <2>7. ChanKept
    <3>1. LoadsLeft
      BY <1>1, <2>4, WorkingLeaves
    <3> QED BY <2>1, <2>2, <2>3, <2>5, <2>6, <3>1, SendMatches DEF IInv, ChanKept
  <2> QED BY <1>1, <2>1, <2>4, <2>7, MoveKeeps
<1>4. CASE current[i] # NoSlot /\ call' = [call EXCEPT ![c] = Start(i, "config", current[i])]
           /\ chan' = chan
  BY <1>1, <1>2, <1>4
<1> QED BY <1>2, <1>3, <1>4 DEF Enter

\* A load that is answered: what Redis has replaces an object of another state.
LEMMA SyncKeeps ==
    ASSUME IInv, RestTyped, NEW c \in Calls, Sync(c)
    PROVE  IInv'
<1> DEFINE i == Host(c)
           o == call[c].obj
<1>1. /\ call[c] # NoCall /\ call[c].at = "loaded" /\ chan' = chan
      /\ call[c] \in GoodCalls /\ i \in Instances /\ i = call[c].host
      /\ o \in Slots \cup {NoSlot} /\ call[c].reply \in Stored \cup {Missing}
  BY WorkingCall DEF Sync, At
<1>2. ASSUME NEW k, call' = [call EXCEPT ![c] = k]
      PROVE  ChanKept
  BY <1>1, <1>2, WorkingLeaves, NoneMatches DEF IInv, ChanKept
<1>3. ASSUME NEW h \in Stored, Adopt(c, h)
      PROVE  IInv'
  <2>1. PICK s \in Slots :
            /\ call' = [call EXCEPT ![c].at = "config", ![c].obj = s, ![c].reply = Missing]
            /\ PutKeeping(i, s, h, Others(c, i) \cup {s})
    BY <1>3 DEF Adopt
  <2> DEFINE k == [call[c] EXCEPT !.at = "config", !.obj = s, !.reply = Missing]
  <2>2. k \in GoodCalls
    BY <1>1 DEF GoodCalls, Working
  <2>3. call' = [call EXCEPT ![c] = k]
    BY <1>1, <2>1 DEF IInv, Types, GoodCalls
  <2> HIDE DEF k, i
  <2>4. HeapStep(i, s, h)
    BY <1>1, <2>1, PutKeepingHeap, StoredIsSound DEF IInv, Types
  <2>5. ~Stormy(h)
    BY DEF Stored
  <2> QED BY <1>1, <1>2, <2>2, <2>3, <2>4, <2>5, CallKeeps
<1>4. ASSUME call' = [call EXCEPT ![c].at = "config", ![c].reply = Missing], o # NoSlot,
             heap' = heap \/ Put(i, o, Blank)
      PROVE  IInv'
  <2> DEFINE k == [call[c] EXCEPT !.at = "config", !.reply = Missing]
  <2>1. k \in GoodCalls
    BY <1>1, <1>4 DEF GoodCalls, Working
  <2>2. call' = [call EXCEPT ![c] = k]
    BY <1>1, <1>4 DEF IInv, Types, GoodCalls
  <2> HIDE DEF k, i, o
  <2>3. CASE heap' = heap
    BY <1>1, <1>2, <2>1, <2>2, <2>3, MoveKeeps
  <2>4. CASE Put(i, o, Blank)
    <3>1. HeapStep(i, o, Blank)
      BY <1>1, <1>4, <2>4, PutHeap, BlankStored DEF IInv, Types
    <3> QED BY <1>1, <1>2, <2>1, <2>2, <3>1, BlankStored, CallKeeps
  <2> QED BY <1>4, <2>3, <2>4
<1>5. \/ call[c].reply # Missing /\ Adopt(c, call[c].reply)
      \/ Adopt(c, Blank)
      \/ /\ call' = [call EXCEPT ![c].at = "config", ![c].reply = Missing]
         /\ o # NoSlot
         /\ heap' = heap \/ Put(i, o, Blank)
  BY DEF Sync
<1> HIDE DEF i, o
<1> QED BY <1>1, <1>3, <1>4, <1>5, BlankStored

\* A step that is about no call.
LEMMA OtherKeeps ==
    ASSUME IInv, RestTyped, ChanKept, call' = call,
           NEW i \in Instances, NEW s \in Slots \cup {NoSlot}, NEW h, HeapStep(i, s, h),
           ~Stormy(h)
    PROVE  IInv'
<1>1. Types'
  BY WatchTyped DEF IInv, Types, RestTyped, ChanKept, HeapStep
<1>2. StormsEnd'
  <2> SUFFICES ASSUME NEW j \in Instances, NEW t \in Slots, Stormy(heap'[j][t])
               PROVE  \E d \in Calls : /\ call'[d] # NoCall /\ call'[d].at = "forced"
                                       /\ call'[d].host = j /\ call'[d].obj = t
    BY DEF StormsEnd, Stormy, Forced
  <2>1. heap'[j][t] = heap[j][t]
    BY BlankStored DEF HeapStep
  <2>2. PICK d \in Calls : Forced(d, j, t)
    BY <2>1 DEF IInv, StormsEnd
  <2> QED BY <2>2 DEF Forced
<1> QED BY <1>1, <1>2 DEF IInv, ChanKept

\* Nor does a dashboard that loads nothing touch an object.
LEMMA DashboardKeeps ==
    ASSUME IInv, RestTyped, NEW c \in Calls, NEW i \in Instances, NEW f \in BOOLEAN,
           Dashboard(c, i, f)
    PROVE  IInv'
<1>1. call[c] = NoCall /\ heap' = heap
  BY DEF Dashboard
<1>2. CASE /\ call' = [call EXCEPT ![c] = Start(i, "dash_load", NoSlot)]
           /\ Send(i, [type |-> "load", call |-> c])
  <2> DEFINE k == Start(i, "dash_load", NoSlot)
             cmd == [type |-> "load", call |-> c]
  <2>1. k \in GoodCalls /\ k.at = "dash_load" /\ k.host = i
    BY DEF Start, GoodCalls, Working
  <2>2. cmd \in StoredCommands /\ cmd.call = c
    BY DEF StoredCommands
  <2>3. chan' = [chan EXCEPT ![i] = Append(@, cmd)]
    BY <1>2 DEF Send
  <2>4. call' = [call EXCEPT ![c] = k]
    BY <1>2
  <2> HIDE DEF k, cmd
  <2>5. k # NoCall /\ call'[c] = k
    BY <2>1, <2>4, CallsAreCalls DEF IInv, Types
  <2>6. \A j \in Instances : ~Waits(c, j)
    BY <1>1 DEF Waits
  <2>7. ChanKept
    <3>1. LoadsLeft
      BY <1>1, <2>4, WorkingLeaves
    <3> QED BY <2>1, <2>2, <2>3, <2>5, <2>6, <3>1, SendMatches DEF IInv, ChanKept
  <2> QED BY <1>1, <2>1, <2>4, <2>7, MoveKeeps
<1>3. CASE call' = call /\ chan' = chan
  <2>1. ChanKept
    BY <1>3, NoneMatches DEF LoadsLeft, IInv, ChanKept
  <2> QED BY <1>1, <1>3, <2>1, SameHeap, BlankStored, OtherKeeps
<1> QED BY <1>2, <1>3 DEF Dashboard

\* The dashboard's answer replaces the object in the map.
LEMMA ReloadKeeps ==
    ASSUME IInv, RestTyped, NEW c \in Calls, Reload(c)
    PROVE  IInv'
<1> DEFINE i == Host(c)
           h == call[c].reply
           k == [call[c] EXCEPT !.at = "dash_config", !.reply = Missing]
<1>1. /\ call[c] # NoCall /\ call[c].at = "dash_loaded" /\ chan' = chan
      /\ call[c] \in GoodCalls /\ i \in Instances /\ h \in Stored \cup {Missing}
      /\ current[i] \in Slots \cup {NoSlot}
  BY WorkingCall DEF Reload, At, IInv, Types
<1>2. k \in GoodCalls
  BY <1>1 DEF GoodCalls, Working
<1>3. call' = [call EXCEPT ![c] = k]
  <2>1. call' = [call EXCEPT ![c].at = "dash_config", ![c].reply = Missing]
    BY DEF Reload
  <2> QED BY <1>1, <2>1 DEF IInv, Types, GoodCalls
<1> HIDE DEF k
<1>4. ChanKept
  BY <1>1, <1>3, WorkingLeaves, NoneMatches DEF IInv, ChanKept
<1>5. ASSUME h # Missing, NEW s \in Slots, PutKeeping(i, s, h, Others(c, i) \cup {s})
      PROVE  IInv'
  <2>1. h \in Stored
    BY <1>1, <1>5
  <2> HIDE DEF i, h
  <2>2. HeapStep(i, s, h) /\ ~Stormy(h)
    BY <1>1, <1>5, <2>1, PutKeepingHeap, StoredIsSound DEF IInv, Types, Stored
  <2> QED BY <1>1, <1>2, <1>3, <1>4, <2>2, CallKeeps
<1>6. CASE heap' = heap
  BY <1>1, <1>2, <1>3, <1>4, <1>6, MoveKeeps
<1>7. CASE current[i] # NoSlot /\ Put(i, current[i], Blank)
  <2> HIDE DEF i, h
  <2>1. HeapStep(i, current[i], Blank)
    BY <1>1, <1>7, PutHeap, BlankStored DEF IInv, Types
  <2> QED BY <1>1, <1>2, <1>3, <1>4, <2>1, BlankStored, CallKeeps
<1> QED BY <1>5, <1>6, <1>7 DEF Reload

\* The dashboard acts on the object the map has by then.
LEMMA ReportKeeps ==
    ASSUME IInv, RestTyped, NEW c \in Calls, Report(c)
    PROVE  IInv'
<1> DEFINE i == Host(c)
           o == current[i]
<1>1. /\ call[c] # NoCall /\ call[c].at = "dash_config" /\ i \in Instances
      /\ o \in Slots \cup {NoSlot}
      /\ call' = [call EXCEPT ![c] = NoCall]
  BY WorkingCall DEF Report, At, Return, IInv, Types
<1>2. LoadsLeft
  BY <1>1, WorkingLeaves
<1>3. ASSUME NEW v \in Stored, o # NoSlot, Put(i, o, v), Save(i, v)
      PROVE  IInv'
  <2> HIDE DEF i, o
  <2>1. HeapStep(i, o, v) /\ ~Stormy(v)
    BY <1>1, <1>3, PutHeap, StoredIsSound DEF IInv, Types, Stored
  <2>2. ChanKept
    BY <1>1, <1>2, <1>3, SaveMatches
  <2> QED BY <1>1, <2>1, <2>2, CallKeeps
<1>4. CASE heap' = heap /\ chan' = chan
  <2>1. ChanKept
    BY <1>2, <1>4, NoneMatches DEF IInv, ChanKept
  <2> QED BY <1>1, <1>4, <2>1, MoveKeeps
<1>5. o # NoSlot /\ heap[i][o].state = "open" => Tripped(heap[i][o]) \in Stored
  BY <1>1, TrippedStored DEF IInv, Types
<1>6. \/ o # NoSlot /\ Put(i, o, Blank) /\ Save(i, Blank)
      \/ /\ o # NoSlot /\ heap[i][o].state = "open"
         /\ Put(i, o, Tripped(heap[i][o])) /\ Save(i, Tripped(heap[i][o]))
      \/ heap' = heap /\ chan' = chan
  BY DEF Report
<1> HIDE DEF i, o
<1> QED BY <1>3, <1>4, <1>5, <1>6, BlankStored

-----------------------------------------------------------------------------
(* The other steps. *)

\* The synchronous entry points leave no storm.
LEMMA EntryKeeps ==
    ASSUME IInv, RestTyped, NEW i \in Instances,
           Scan(i) \/ TripToHalfOpen(i) \/ ResetCircuit(i) \/ ForceClose(i) \/ Peek(i)
    PROVE  IInv'
<1> DEFINE o == current[i]
<1>1. o \in Slots \cup {NoSlot} /\ call' = call
  BY DEF Scan, TripToHalfOpen, ResetCircuit, ForceClose, Peek, IInv, Types
<1>2. LoadsLeft
  BY <1>1 DEF LoadsLeft
<1>3. ASSUME NEW v \in Stored, (o # NoSlot /\ Put(i, o, v)) \/ heap' = heap,
             Save(i, v) \/ chan' = chan
      PROVE  IInv'
  <2>1. ChanKept
    BY <1>2, <1>3, SaveMatches, NoneMatches DEF IInv, ChanKept
  <2>2. CASE o # NoSlot /\ Put(i, o, v)
    <3> HIDE DEF o
    <3>1. HeapStep(i, o, v) /\ ~Stormy(v)
      BY <1>1, <2>2, PutHeap, StoredIsSound DEF IInv, Types, Stored
    <3> QED BY <1>1, <2>1, <3>1, OtherKeeps
  <2>3. CASE heap' = heap
    BY <1>1, <2>1, <2>3, SameHeap, BlankStored, OtherKeeps
  <2> QED BY <1>3, <2>2, <2>3
<1>4. CASE Scan(i) \/ TripToHalfOpen(i)
  <2> DEFINE h == heap[i][o]
  <2>1. /\ o # NoSlot /\ h.state = "open" /\ Put(i, o, Tripped(h)) /\ Save(i, Tripped(h))
    BY <1>4 DEF Scan, TripToHalfOpen
  <2>2. h \in Sound
    BY <1>1, <2>1 DEF IInv, Types
  <2>3. Tripped(h) \in Stored
    BY <2>1, <2>2, TrippedStored
  <2> HIDE DEF o, h
  <2> QED BY <1>3, <2>1, <2>3
<1>5. CASE ResetCircuit(i) \/ ForceClose(i)
  <2>1. ((o # NoSlot /\ Put(i, o, Blank)) \/ heap' = heap) /\ Save(i, Blank)
    BY <1>5 DEF ResetCircuit, ForceClose
  <2> HIDE DEF o
  <2> QED BY <1>3, <2>1, BlankStored
<1>6. CASE Peek(i)
  <2>1. heap' = heap /\ chan' = chan
    BY <1>6 DEF Peek
  <2> QED BY <1>3, <2>1, BlankStored
<1> QED BY <1>4, <1>5, <1>6

\* Redis answers the oldest command of a process, or it fails.
LEMMA AnswerKeeps ==
    ASSUME IInv, RestTyped, NEW i \in Instances, chan[i] # <<>>,
           NEW value \in Stored \cup {Missing}, Answer(i, Head(chan[i]), value)
    PROVE  IInv'
<1> DEFINE cmd == Head(chan[i])
           d == cmd.call
<1>1. chan[i] \in Seq(StoredCommands)
  BY DEF IInv, Types
<1>2. /\ cmd \in StoredCommands /\ cmd = chan[i][1] /\ 1 \in 1..Len(chan[i])
  BY <1>1
<1>3. heap' = heap /\ chan' = [chan EXCEPT ![i] = Tail(@)]
  BY DEF Answer
<1>4. CASE cmd.type # "load"
  <2>1. call' = call
    BY <1>4 DEF Answer
  <2>2. ChanKept
    <3> HIDE DEF cmd, d
    <3> QED BY <1>3, <2>1, TailMatches DEF IInv, ChanKept
  <2> QED BY <1>3, <2>1, <2>2, SameHeap, BlankStored, OtherKeeps
<1>5. CASE cmd.type = "load"
  <2> DEFINE at == IF call[d].at = "load" THEN "loaded" ELSE "dash_loaded"
             k == [call[d] EXCEPT !.reply = value, !.at = at]
  <2>1. d \in Calls /\ Waits(d, i)
    BY <1>2, <1>5 DEF StoredCommands, IInv, LoadsMatch
  <2>2. call[d] \in GoodCalls /\ call[d].at \in {"load", "dash_load"} /\ call[d] # NoCall
    BY <2>1 DEF Waits, IInv, Types
  <2>3. k \in GoodCalls
    <3>1. at \in {"loaded", "dash_loaded"}
      OBVIOUS
    <3> HIDE DEF at
    <3> QED BY <2>2, <3>1 DEF GoodCalls, Working
  <2>4. call' = [call EXCEPT ![d] = k]
    <3>1. call' = [call EXCEPT ![d].reply = value,
                               ![d].at = IF @ = "load" THEN "loaded" ELSE "dash_loaded"]
      BY <1>5 DEF Answer
    <3> QED BY <2>1, <2>2, <3>1 DEF IInv, Types, GoodCalls
  <2>5. \A e \in Calls, j \in Instances :
           Waits(e, j) /\ ~(cmd.type = "load" /\ e = d) => call'[e] = call[e]
    BY <1>5, <2>1, <2>4 DEF IInv, Types
  <2>6. ChanKept
    <3> HIDE DEF k
    <3> QED BY <1>3, <2>5, TailMatches DEF IInv, ChanKept
  <2> HIDE DEF k, d
  <2> QED BY <1>3, <2>1, <2>2, <2>3, <2>4, <2>6, MoveKeeps
<1> QED BY <1>4, <1>5

\* A process that restarts forgets its objects, its calls and its commands.
LEMMA RestartKeeps ==
    ASSUME IInv, RestTyped, NEW i \in Instances, Restart(i)
    PROVE  IInv'
<1>1. /\ heap' = [heap EXCEPT ![i] = [s \in Slots |-> Blank]]
      /\ chan' = [chan EXCEPT ![i] = <<>>]
      /\ call' = [c \in Calls |-> IF call[c] # NoCall /\ call[c].host = i
                                  THEN NoCall ELSE call[c]]
  BY DEF Restart, Host
<1>2. Types'
  <2>1. heap' \in [Instances -> [Slots -> Sound]]
    BY <1>1, BlankStored DEF IInv, Types
  <2>2. chan' \in [Instances -> Seq(StoredCommands)]
    BY <1>1 DEF IInv, Types
  <2>3. call' \in [Calls -> GoodCalls \cup {NoCall}]
    BY <1>1 DEF IInv, Types
  <2> QED BY <2>1, <2>2, <2>3, WatchTyped DEF Types, RestTyped
<1>3. LoadsMatch'
  <2>1. ASSUME NEW j \in Instances, NEW n \in 1..Len(chan'[j]), chan'[j][n].type = "load"
        PROVE  /\ WaitsNext(chan'[j][n].call, j)
               /\ \A m \in 1..Len(chan'[j]) :
                     chan'[j][m].type = "load" /\ m # n => chan'[j][m].call # chan'[j][n].call
    <3>1. CASE j = i
      BY <1>1, <2>1, <3>1 DEF IInv, Types
    <3>2. CASE j # i
      <4>1. chan'[j] = chan[j]
        BY <1>1, <3>2 DEF IInv, Types
      <4>2. chan[j][n] \in StoredCommands
        BY <2>1, <4>1 DEF IInv, Types
      <4>3. chan[j][n].call \in Calls
        BY <2>1, <4>1, <4>2 DEF StoredCommands
      <4>4. Waits(chan[j][n].call, j)
        BY <2>1, <4>1 DEF IInv, LoadsMatch
      <4>5. WaitsNext(chan[j][n].call, j)
        BY <1>1, <3>2, <4>3, <4>4 DEF Waits, WaitsNext
      <4> QED BY <2>1, <4>1, <4>5 DEF IInv, LoadsMatch
    <3> QED BY <3>1, <3>2
  <2> QED BY <2>1 DEF LoadsMatch, Waits, WaitsNext
<1>4. StormsEnd'
  <2> SUFFICES ASSUME NEW j \in Instances, NEW t \in Slots, Stormy(heap'[j][t])
               PROVE  \E d \in Calls : /\ call'[d] # NoCall /\ call'[d].at = "forced"
                                       /\ call'[d].host = j /\ call'[d].obj = t
    BY DEF StormsEnd, Stormy, Forced
  <2>1. j # i /\ heap'[j][t] = heap[j][t]
    BY <1>1, BlankStored DEF IInv, Types
  <2>2. PICK d \in Calls : Forced(d, j, t)
    BY <2>1 DEF IInv, StormsEnd
  <2> QED BY <1>1, <2>1, <2>2 DEF Forced
<1> QED BY <1>2, <1>3, <1>4 DEF IInv

\* A lifetime that ends touches no process.
LEMMA ExpireKeeps ==
    ASSUME IInv, RestTyped, Expire
    PROVE  IInv'
<1>1. heap' = heap /\ call' = call /\ chan' = chan
  BY DEF Expire
<1>2. ChanKept
  BY <1>1, NoneMatches DEF LoadsLeft, IInv, ChanKept
<1>3. Types'
  BY <1>1, <1>2, WatchTyped DEF IInv, Types, RestTyped, ChanKept
<1>4. StormsEnd'
  BY <1>1 DEF IInv, StormsEnd, Stormy, Forced
<1> QED BY <1>2, <1>3, <1>4 DEF IInv, ChanKept

\* The map, the flags and Redis are typed after every step.
LEMMA CallRest ==
    ASSUME IInv, NEW c \in Calls, CallStep(c), Watch
    PROVE  RestTyped
<1>1. redis' = redis /\ redis \in Stored \cup {Missing}
  BY DEF CallStep, Enter, Dashboard, Sync, Look, Admit, Refuse, Count, OpenUp, Credit,
         Reload, Report, IInv, Types
<1>2. loaded' \in [Instances -> BOOLEAN]
  <2>1. CASE loaded' = loaded
    BY <2>1 DEF IInv, Types
  <2>2. ASSUME NEW i \in Instances, NEW b \in BOOLEAN, loaded' = [loaded EXCEPT ![i] = b]
        PROVE  loaded' \in [Instances -> BOOLEAN]
    BY <2>2 DEF IInv, Types
  <2>3. ASSUME NEW i \in Servers, Enter(c, i)
        PROVE  loaded' \in [Instances -> BOOLEAN]
    BY <2>1, <2>2, <2>3, BoundAssumption DEF Enter
  <2>4. ASSUME NEW i \in Servers, NEW f \in BOOLEAN, Dashboard(c, i, f)
        PROVE  loaded' \in [Instances -> BOOLEAN]
    <3>1. loaded' = loaded \/ loaded' = [loaded EXCEPT ![i] = @ /\ ~f]
      BY <2>4 DEF Dashboard
    <3>2. i \in Instances
      BY BoundAssumption
    <3>3. loaded' = loaded \/ loaded' = [loaded EXCEPT ![i] = loaded[i] /\ ~f]
      BY <3>1
    <3>4. (loaded[i] /\ ~f) \in BOOLEAN
      OBVIOUS
    <3> QED BY <2>1, <2>2, <3>2, <3>3, <3>4, Zenon
  <2>5. CASE Reload(c)
    <3>1. loaded' = [loaded EXCEPT ![Host(c)] = TRUE]
      BY <2>5 DEF Reload
    <3>2. Host(c) \in Instances
      BY <2>5, WorkingCall DEF Reload, At
    <3> QED BY <2>2, <3>1, <3>2
  <2>6. CASE \/ Sync(c) \/ Look(c) \/ Admit(c) \/ Refuse(c) \/ Count(c) \/ OpenUp(c)
             \/ Credit(c) \/ Report(c)
    BY <2>1, <2>6 DEF Sync, Look, Admit, Refuse, Count, OpenUp, Credit, Report
  <2> QED BY <2>3, <2>4, <2>5, <2>6 DEF CallStep
<1>3. current' \in [Instances -> Slots \cup {NoSlot}]
  <2>1. CASE current' = current
    BY <2>1 DEF IInv, Types
  <2>2. ASSUME NEW i, NEW s \in Slots, current' = [current EXCEPT ![i] = s]
        PROVE  current' \in [Instances -> Slots \cup {NoSlot}]
    BY <2>2 DEF IInv, Types
  <2> QED BY <2>1, <2>2 DEF CallStep, Enter, Dashboard, Sync, Adopt, Look, Admit, Refuse,
             Count, OpenUp, Credit, Reload, Report, Ensure
<1> QED BY <1>1, <1>2, <1>3 DEF RestTyped

\* ... those of a process ...
LEMMA InstanceRest ==
    ASSUME IInv, NEW i \in Instances, InstanceStep(i), Watch
    PROVE  RestTyped
<1>1. redis' \in Stored \cup {Missing}
  <2>1. CASE redis' = redis
    BY <2>1 DEF IInv, Types
  <2>2. CASE Execute(i)
    <3> DEFINE cmd == Head(chan[i])
    <3>1. chan[i] \in Seq(StoredCommands) /\ chan[i] # <<>>
      BY <2>2 DEF Execute, IInv, Types
    <3>2. cmd \in StoredCommands
      BY <3>1
    <3>3. redis' = IF cmd.type = "save" THEN cmd.health ELSE redis
      BY <2>2 DEF Execute
    <3> HIDE DEF cmd
    <3>4. CASE cmd.type = "save"
      BY <3>2, <3>3, <3>4 DEF StoredCommands
    <3>5. CASE cmd.type # "save"
      BY <2>1, <3>3, <3>5
    <3> QED BY <3>4, <3>5
  <2>3. CASE ~Execute(i)
    BY <2>1, <2>3 DEF InstanceStep, Scan, TripToHalfOpen, ResetCircuit, Peek, ForceClose,
       Fail, Restart
  <2> QED BY <2>2, <2>3
<1>2. loaded' \in [Instances -> BOOLEAN]
  <2>1. loaded' = loaded \/ loaded' = [loaded EXCEPT ![i] = FALSE]
    BY DEF InstanceStep, Scan, TripToHalfOpen, ResetCircuit, Peek, ForceClose, Execute,
       Fail, Answer, Restart
  <2> QED BY <2>1 DEF IInv, Types
<1>3. current' \in [Instances -> Slots \cup {NoSlot}]
  <2>1. \/ current' = current
        \/ \E s \in Slots \cup {NoSlot} : current' = [current EXCEPT ![i] = s]
    BY DEF InstanceStep, Scan, TripToHalfOpen, ResetCircuit, Peek, ForceClose, Execute,
       Fail, Answer, Restart, Ensure
  <2> QED BY <2>1 DEF IInv, Types
<1> QED BY <1>1, <1>2, <1>3 DEF RestTyped

\* ... and that of Redis alone.
LEMMA ExpireRest ==
    ASSUME IInv, Expire, Watch
    PROVE  RestTyped
BY DEF Expire, RestTyped, IInv, Types

-----------------------------------------------------------------------------
(* The invariant. *)

\* The first state: no object is in use, and Redis knows nothing of the provider.
LEMMA InitIInv ==
    Init => IInv
<1> SUFFICES ASSUME Init PROVE IInv
  OBVIOUS
<1>1. Types
  BY BlankStored DEF Init, Types
<1>2. LoadsMatch
  BY DEF Init, LoadsMatch
<1>3. StormsEnd
  BY BlankStored DEF Init, StormsEnd
<1> QED BY <1>1, <1>2, <1>3 DEF IInv

\* Every step keeps it: one case for each action.
LEMMA NextKeeps ==
    IInv /\ [Next]_vars => IInv'
<1> SUFFICES ASSUME IInv, [Next]_vars PROVE IInv'
  OBVIOUS
<1>1. ASSUME NEW c \in Calls, CallStep(c), Watch
      PROVE  IInv'
  <2>1. RestTyped
    BY <1>1, CallRest
  <2>2. ASSUME NEW i \in Servers, Enter(c, i)
        PROVE  IInv'
    BY <2>1, <2>2, BoundAssumption, EnterKeeps
  <2>3. ASSUME NEW i \in Servers, NEW f \in BOOLEAN, Dashboard(c, i, f)
        PROVE  IInv'
    BY <2>1, <2>3, BoundAssumption, DashboardKeeps
  <2>4. CASE Sync(c)
    BY <2>1, <2>4, SyncKeeps
  <2>5. CASE Look(c)
    BY <2>1, <2>5, LookKeeps
  <2>6. CASE Admit(c) \/ Refuse(c)
    BY <2>1, <2>6, AdmitKeeps
  <2>7. CASE Count(c)
    BY <2>1, <2>7, CountKeeps
  <2>8. CASE OpenUp(c)
    BY <2>1, <2>8, OpenUpKeeps
  <2>9. CASE Credit(c)
    BY <2>1, <2>9, CreditKeeps
  <2>10. CASE Reload(c)
    BY <2>1, <2>10, ReloadKeeps
  <2>11. CASE Report(c)
    BY <2>1, <2>11, ReportKeeps
  <2> QED BY <1>1, <2>2, <2>3, <2>4, <2>5, <2>6, <2>7, <2>8, <2>9, <2>10, <2>11
          DEF CallStep
<1>2. ASSUME NEW i \in Instances, InstanceStep(i), Watch
      PROVE  IInv'
  <2>1. RestTyped
    BY <1>2, InstanceRest
  <2>2. CASE Scan(i) \/ TripToHalfOpen(i) \/ ResetCircuit(i) \/ ForceClose(i) \/ Peek(i)
    BY <2>1, <2>2, EntryKeeps
  <2>3. CASE Execute(i)
    <3>1. redis \in Stored \cup {Missing}
      BY DEF IInv, Types
    <3>2. chan[i] # <<>> /\ Answer(i, Head(chan[i]), redis)
      BY <2>3 DEF Execute
    <3> QED BY <2>1, <3>1, <3>2, AnswerKeeps
  <2>4. CASE Fail(i)
    BY <2>1, <2>4, AnswerKeeps DEF Fail
  <2>5. CASE Restart(i)
    BY <2>1, <2>5, RestartKeeps
  <2> QED BY <1>2, <2>2, <2>3, <2>4, <2>5 DEF InstanceStep
<1>3. CASE Expire /\ Watch
  BY <1>3, ExpireRest, ExpireKeeps
<1>4. CASE UNCHANGED vars
  BY <1>4 DEF vars, IInv, Types, LoadsMatch, Waits, StormsEnd, Stormy, Forced
<1> QED BY <1>1, <1>2, <1>3, <1>4 DEF Next

\* The invariant holds for ever.
LEMMA Invariance ==
    Spec => []IInv
BY InitIInv, NextKeeps, PTL DEF Spec

-----------------------------------------------------------------------------
(* What follows from it. *)

\* Every state in memory, under way or in Redis is sound.
LEMMA StatesSound ==
    ASSUME IInv
    PROVE  States \subseteq Sound \cup {Missing}
<1>1. \A i \in Instances, s \in Slots : heap[i][s] \in Sound
  BY DEF IInv, Types
<1>2. redis \in Sound \cup {Missing}
  BY StoredIsSound DEF IInv, Types
<1>3. \A c \in Calls : call[c] # NoCall => call[c].reply \in Sound \cup {Missing}
  BY StoredIsSound DEF IInv, Types, GoodCalls
<1>4. ASSUME NEW i \in Instances, NEW n \in DOMAIN chan[i], chan[i][n].type = "save"
      PROVE  chan[i][n].health \in Sound
  <2>1. chan[i] \in Seq(StoredCommands)
    BY DEF IInv, Types
  <2>2. chan[i][n] \in StoredCommands
    BY <2>1
  <2> QED BY <1>4, <2>2, StoredIsSound DEF StoredCommands
<1> QED BY <1>1, <1>2, <1>3, <1>4 DEF States

\* The types of the model, from the narrower ones.
LEMMA TypesImply ==
    IInv => TypeOK
<1> SUFFICES ASSUME IInv PROVE TypeOK
  OBVIOUS
<1>1. heap \in [Instances -> [Slots -> Health]]
  BY StoredIsSound DEF IInv, Types
<1>2. chan \in [Instances -> Seq(Commands)]
  <2>1. StoredCommands \subseteq Commands
    BY StoredIsSound DEF StoredCommands, Commands
  <2>2. \A q \in Seq(StoredCommands) : q \in Seq(Commands)
    BY <2>1
  <2> QED BY <2>2 DEF IInv, Types
<1>3. GoodCalls \subseteq CallStates
  BY StoredIsSound DEF GoodCalls, CallStates, Working
<1>4. redis \in Health \cup {Missing} /\ call \in [Calls -> CallStates \cup {NoCall}]
  BY <1>3, StoredIsSound DEF IInv, Types
<1> QED BY <1>1, <1>2, <1>4 DEF IInv, Types, TypeOK

\* Memory, the commands under way, Redis and the calls are typed in every run,
\* whatever order Redis executes, drops and answers the commands in.
THEOREM BreakerTypes ==
    Spec => []TypeOK
BY Invariance, TypesImply, PTL

\* No interleaving of loads, saves, resets and restarts leaves an open circuit
\* without its deadline, in memory or in Redis: isCircuitOpen would refuse the
\* provider for ever.
THEOREM OpenCircuitsHaveDeadlines ==
    Spec => []OpenHasDeadline
<1>1. IInv => OpenHasDeadline
  BY StatesSound DEF OpenHasDeadline, Open, Sound
<1> QED BY <1>1, Invariance, PTL

\* A half-open circuit keeps the failures that opened it wherever its state is
\* copied to, so that one more failure opens it again.
THEOREM HalfOpenKeepsFailures ==
    Spec => []HalfOpenOnProbation
<1>1. IInv => HalfOpenOnProbation
  BY StatesSound DEF HalfOpenOnProbation, Sound
<1> QED BY <1>1, Invariance, PTL

\* However many calls fail at once, a closed circuit has fewer failures than the
\* highest threshold, or a recordFailure is about to open it.
THEOREM StormsAreBounded ==
    Spec => []BoundedFailures
<1>1. IInv => BoundedFailures
  BY DEF IInv, StormsEnd, BoundedFailures, Stormy, Forced, At, Host
<1> QED BY <1>1, Invariance, PTL
-----------------------------------------------------------------------------
(* Resets are honoured.                                                     *)
(*                                                                         *)
(* A call that never had an open state about holds an object that is not   *)
(* open: whoever opens an object saves it in the same step, which ends the *)
(* calm of the calls of that process, and what replaces an object is a     *)
(* reply of Redis, which was not open, in an address nobody held.          *)

Fits(c) ==
    /\ call[c].at = "loaded" => ~Open(call[c].reply)
    /\ call[c].at \in {"config", "checking"} => Mine(c).state # "open"

CalmsFit ==
    \A c \in Calls : calm[c] =>
        /\ call[c] # NoCall /\ call[c].at \in {"load", "loaded", "config", "checking"}
        /\ Quiet(Host(c)) /\ Fits(c)

\* An address that is free has no open circuit.
Spare == \A i \in Instances, s \in Slots : s \notin Held(i) => heap[i][s].state # "open"

\* The dashboard holds no object over an await.
DashFree == \A c \in Calls :
    call[c] # NoCall /\ call[c].at \in {"dash_load", "dash_loaded", "dash_config"}
        => call[c].obj = NoSlot

CalmInv == CalmsFit /\ Spare /\ DashFree

\* What a step may make open: an object held before is saved.
NoneOpens == \A i \in Instances, s \in Slots :
    heap'[i][s].state = "open" =>
        s \in Held(i)' /\ (heap[i][s].state = "open" \/ s \notin Held(i) \/ ~Quiet(i)')

\* The calls that go on hold what they held.
Holds(d) == /\ call'[d] # NoCall /\ call'[d].host = call[d].host
            /\ call'[d].obj = call[d].obj

\* A step keeps the invariant if it opens nothing that a calm call has in hand.
LEMMA CalmStep ==
    ASSUME IInv, IInv', CalmInv, Watch, NoneOpens,
           \A d \in Calls : call'[d] # NoCall => call'[d] = call[d] \/ (calm'[d] => Fits(d)'),
           DashFree'
    PROVE  CalmInv'
<1>1. Spare'
  BY DEF NoneOpens, Spare
<1>2. ASSUME NEW c \in Calls, calm'[c]
      PROVE  /\ call'[c] # NoCall /\ call'[c].at \in {"load", "loaded", "config", "checking"}
             /\ Quiet(Host(c))' /\ Fits(c)'
  <2>1. /\ call'[c] # NoCall /\ call'[c].at \in {"load", "loaded", "config", "checking"}
        /\ call[c] # NoCall => calm[c]
    BY <1>2 DEF Watch
  <2> PICK j \in Instances : call'[c].host = j /\ Quiet(j)'
    BY <1>2 DEF Watch
  <2>2. Quiet(Host(c))'
    BY DEF Host, Quiet
  <2>3. CASE call'[c] = call[c]
    <3> DEFINE s == call[c].obj
    <3>1. calm[c] /\ call[c] # NoCall
      BY <2>1, <2>3
    <3>2. Fits(c)
      BY <3>1 DEF CalmInv, CalmsFit
    <3>3. call[c].at \in Working => s \in Slots
      BY <3>1, WorkingCall
    <3>4. call[c].host = j
      BY <2>3
    <3>5. s \in Held(j)
      BY <3>1, <3>4 DEF Held, Host
    <3>6. ASSUME call[c].at \in {"config", "checking"}
          PROVE  heap'[j][s].state # "open"
      <4>1. s \in Slots /\ heap[j][s].state # "open"
        BY <3>2, <3>3, <3>4, <3>6 DEF Fits, Mine, Host, Working
      <4> HIDE DEF s
      <4> QED BY <3>5, <4>1 DEF NoneOpens
    <3>7. Fits(c)'
      BY <2>3, <3>2, <3>4, <3>6 DEF Fits, Mine, Host, Open
    <3> QED BY <2>1, <2>2, <3>7
  <2>4. CASE call'[c] # call[c]
    BY <1>2, <2>1, <2>2, <2>4
  <2> QED BY <2>3, <2>4
<1>3. CalmsFit'
  BY <1>2 DEF CalmsFit
<1> QED BY <1>1, <1>3 DEF CalmInv

\* Nothing that is held is let go of when calls keep what they hold.
LEMMA HeldKept ==
    ASSUME \A d \in Calls : call[d] # NoCall => Holds(d) \/ call[d].obj = NoSlot,
           NEW j \in Instances, current'[j] = current[j] \/ current[j] = NoSlot,
           NEW s \in Slots, s \in Held(j)
    PROVE  s \in Held(j)'
<1>1. s # NoSlot
  BY Bounds
<1>2. CASE s = current[j]
  BY <1>1, <1>2 DEF Held
<1>3. ASSUME NEW d \in Calls, call[d] # NoCall, call[d].host = j, call[d].obj = s
      PROVE  s \in Held(j)'
  <2>1. Holds(d)
    BY <1>1, <1>3
  <2> QED BY <1>3, <2>1 DEF Holds, Held, Host
<1> QED BY <1>2, <1>3 DEF Held, Host

\* One object is assigned to, or none, and none is let go of.
LEMMA PutOpens ==
    ASSUME IInv, CalmInv, NEW i \in Instances, NEW s, NEW h,
           heap' = heap \/ (s \in Slots /\ Put(i, s, h)),
           s \in Slots => (h.state = "open" => heap[i][s].state = "open"),
           \A d \in Calls : call[d] # NoCall => Holds(d) \/ call[d].obj = NoSlot,
           \A j \in Instances : current'[j] = current[j] \/ current[j] = NoSlot
    PROVE  NoneOpens
<1> SUFFICES ASSUME NEW j \in Instances, NEW t \in Slots, heap'[j][t].state = "open"
             PROVE  t \in Held(j)' /\ heap[j][t].state = "open"
  BY DEF NoneOpens
<1>1. heap'[j][t] = heap[j][t] \/ (j = i /\ t = s /\ heap'[j][t] = h)
  BY DEF Put, IInv, Types
<1>2. heap[j][t].state = "open"
  BY <1>1
<1>3. t \in Held(j)
  BY <1>2 DEF CalmInv, Spare
<1> QED BY <1>2, <1>3, HeldKept

\* Those that are let go of are forgotten.
LEMMA PutKeepingOpens ==
    ASSUME IInv, CalmInv, NEW i \in Instances, NEW s, NEW h, NEW live,
           PutKeeping(i, s, h, live),
           \A t \in Slots : t \in live => t \in Held(i)',
           \A j \in Instances \ {i} : \A t \in Slots : t \in Held(j) => t \in Held(j)',
           s \in Slots /\ h.state = "open" =>
              heap[i][s].state = "open" \/ s \notin Held(i) \/ ~Quiet(i)'
    PROVE  NoneOpens
<1> SUFFICES ASSUME NEW j \in Instances, NEW t \in Slots, heap'[j][t].state = "open"
             PROVE  /\ t \in Held(j)'
                    /\ heap[j][t].state = "open" \/ t \notin Held(j) \/ ~Quiet(j)'
  BY DEF NoneOpens
<1>1. CASE j # i
  <2>1. heap'[j][t] = heap[j][t]
    BY <1>1 DEF PutKeeping, IInv, Types
  <2>2. t \in Held(j)
    BY <2>1 DEF CalmInv, Spare
  <2> QED BY <1>1, <2>1, <2>2
<1>2. CASE j = i
  <2>1. heap'[i][t] = IF t \notin live THEN Blank ELSE IF t = s THEN h ELSE heap[i][t]
    BY DEF PutKeeping, IInv, Types
  <2>2. t \in live
    BY <1>2, <2>1 DEF Blank
  <2> QED BY <1>2, <2>1, <2>2
<1> QED BY <1>1, <1>2

\* A call moves or ends, and what the others hold stays held.
LEMMA OthersHeld ==
    ASSUME NEW c \in Calls, NEW k, call \in [Calls -> GoodCalls \cup {NoCall}],
           call' = [call EXCEPT ![c] = k], NEW i
    PROVE  /\ \A t \in Others(c, i) : t \in Held(i)'
           /\ current'[i] \in Held(i)'
           /\ k # NoCall /\ k.host = i => k.obj \in Held(i)'
<1>1. call'[c] = k /\ \A d \in Calls \ {c} : call'[d] = call[d]
  OBVIOUS
<1> QED BY <1>1 DEF Others, Held, Host

\* ... in the other processes too.
LEMMA ElsewhereHeld ==
    ASSUME NEW c \in Calls, NEW k, call \in [Calls -> GoodCalls \cup {NoCall}],
           call' = [call EXCEPT ![c] = k], NEW j, call[c] # NoCall => call[c].host # j,
           current'[j] = current[j], NEW t, t \in Held(j)
    PROVE  t \in Held(j)'
<1>1. call'[c] = k /\ \A d \in Calls \ {c} : call'[d] = call[d]
  OBVIOUS
<1> QED BY <1>1 DEF Held, Host

\* A saved open state ends the calm of its process.
LEMMA SavedLoud ==
    ASSUME IInv, IInv', NEW i \in Instances, NEW h, Save(i, h), h.state = "open"
    PROVE  ~Quiet(i)'
<1> DEFINE cmd == [type |-> "save", health |-> h]
           n == Len(chan[i]) + 1
<1>1. chan[i] \in Seq(StoredCommands) /\ chan'[i] \in Seq(StoredCommands)
  BY DEF IInv, Types
<1>2. chan'[i] = Append(chan[i], cmd)
  BY <1>1 DEF Save, Send, IInv, Types
<1>3. cmd.type = "save" /\ cmd.health = h
  OBVIOUS
<1> HIDE DEF cmd
<1>4. n \in DOMAIN chan'[i] /\ chan'[i][n] = cmd
  BY <1>1, <1>2
<1>5. cmd \in StoredCommands
  BY <1>1, <1>4
<1>6. h \in Stored
  BY <1>3, <1>5 DEF StoredCommands
<1>7. Open(h)
  BY <1>6, StoredIsSound DEF Open
<1> QED BY <1>3, <1>4, <1>7 DEF Quiet

\* One call goes on, or returns.
LEMMA MoveCalm ==
    ASSUME IInv, IInv', CalmInv, Watch, NoneOpens, NEW c \in Calls, NEW k,
           call' = [call EXCEPT ![c] = k],
           k # NoCall /\ calm'[c] => Fits(c)',
           k # NoCall /\ k.at \in {"dash_load", "dash_loaded", "dash_config"} => k.obj = NoSlot
    PROVE  CalmInv'
<1>1. call'[c] = k /\ \A d \in Calls \ {c} : call'[d] = call[d]
  BY DEF IInv, Types
<1>2. DashFree'
  BY <1>1 DEF CalmInv, DashFree
<1>3. \A d \in Calls : call'[d] # NoCall => call'[d] = call[d] \/ (calm'[d] => Fits(d)')
  BY <1>1 DEF Fits, Mine, Host, Open
<1> QED BY <1>2, <1>3, CalmStep

\* A call that concludes has saved the state it leaves open.
LEMMA ConcludeCalm ==
    ASSUME IInv, IInv', CalmInv, Watch, NEW c \in Calls, call[c] # NoCall, NEW h,
           \/ Conclude(c, h)
           \/ Leave(c) /\ call[c].at \in Working,
           current' = current
    PROVE  CalmInv'
<1>1. Host(c) \in Instances /\ Host(c) = call[c].host
  BY WorkingCall
<1> PICK i \in Instances : i = Host(c)
  BY <1>1
<1> PICK s : s = call[c].obj
  OBVIOUS
<1> PICK live : live = Others(c, i) \cup {current[i]}
  OBVIOUS
<1>2. call' = [call EXCEPT ![c] = NoCall]
  BY DEF Conclude, Leave, Return
<1>3. \/ PutKeeping(i, s, h, live) /\ Save(i, h)
      \/ PutKeeping(i, s, heap[i][s], live)
  BY DEF Conclude, Leave, Mine
<1>4. \A t \in Slots : t \in live => t \in Held(i)'
  <2>1. call \in [Calls -> GoodCalls \cup {NoCall}]
    BY DEF IInv, Types
  <2>2. (\A t \in Others(c, i) : t \in Held(i)') /\ current'[i] \in Held(i)'
    BY <1>2, <2>1, OthersHeld
  <2> QED BY <2>2
<1>5. \A j \in Instances \ {i} : \A t \in Slots : t \in Held(j) => t \in Held(j)'
  BY <1>1, <1>2, ElsewhereHeld DEF IInv, Types
<1>6. CASE PutKeeping(i, s, h, live) /\ Save(i, h)
  <2>1. h.state = "open" => ~Quiet(i)'
    BY <1>1, <1>6, SavedLoud
  <2>2. NoneOpens
    BY <1>1, <1>4, <1>5, <1>6, <2>1, PutKeepingOpens
  <2> QED BY <1>2, <2>2, MoveCalm
<1>7. CASE PutKeeping(i, s, heap[i][s], live)
  <2>1. NoneOpens
    BY <1>1, <1>4, <1>5, <1>7, PutKeepingOpens
  <2> QED BY <1>2, <2>1, MoveCalm
<1> QED BY <1>3, <1>6, <1>7

\* A disabled breaker forgets.
LEMMA DisableCalm ==
    ASSUME IInv, IInv', CalmInv, Watch, NEW c \in Calls, call[c] # NoCall,
           call[c].at \in Working, Disable(c), current' = current
    PROVE  CalmInv'
BY ConcludeCalm DEF Disable

\* A call that goes on with the object it has.
LEMMA GoOnCalm ==
    ASSUME IInv, IInv', CalmInv, Watch, NEW c \in Calls, call[c] # NoCall, NEW k,
           call' = [call EXCEPT ![c] = k], k # NoCall => k.host = call[c].host,
           k # NoCall => k.obj = call[c].obj, k = NoCall => call[c].obj = NoSlot,
           k # NoCall /\ k.at \in {"dash_load", "dash_loaded", "dash_config"} => k.obj = NoSlot,
           NEW s, NEW h, NEW i \in Instances,
           heap' = heap \/ (s \in Slots /\ Put(i, s, h)),
           s \in Slots => (h.state = "open" => heap[i][s].state = "open"),
           \A j \in Instances : current'[j] = current[j] \/ current[j] = NoSlot,
           k # NoCall /\ calm'[c] => Fits(c)'
    PROVE  CalmInv'
<1>1. call'[c] = k /\ \A d \in Calls \ {c} : call'[d] = call[d]
  BY DEF IInv, Types
<1>2. \A d \in Calls : call[d] # NoCall => Holds(d) \/ call[d].obj = NoSlot
  BY <1>1 DEF Holds
<1>3. NoneOpens
  BY <1>2, PutOpens
<1> QED BY <1>3, MoveCalm

\* What a calm call was is known before the step.
LEMMA CalmBefore ==
    ASSUME CalmInv, Watch, NEW c \in Calls, call[c] # NoCall, calm'[c]
    PROVE  calm[c] /\ Fits(c) /\ Quiet(Host(c))
BY DEF Watch, CalmInv, CalmsFit

\* isCircuitOpen.
LEMMA LookCalm ==
    ASSUME IInv, IInv', CalmInv, Watch, NEW c \in Calls, Look(c)
    PROVE  CalmInv'
<1>1. call[c] # NoCall /\ call[c].at = "config" /\ call[c].at \in Working /\ current' = current
  BY DEF Look, At, Working
<1>2. CASE Leave(c)
  BY <1>1, <1>2, ConcludeCalm
<1>3. CASE call' = [call EXCEPT ![c].at = "checking"] /\ heap' = heap
  <2> DEFINE k == [call[c] EXCEPT !.at = "checking"]
  <2>1. call[c] \in GoodCalls /\ call[c].host \in Instances
    BY <1>1, WorkingCall
  <2>2. k.at = "checking" /\ k.host = call[c].host /\ k.obj = call[c].obj
    BY <2>1 DEF GoodCalls
  <2>3. k # NoCall
    <3>1. k \in GoodCalls
      BY <1>1, <2>1 DEF GoodCalls, Working
    <3> QED BY <3>1, CallsAreCalls
  <2>4. call' = [call EXCEPT ![c] = k] /\ call'[c] = k
    BY <1>3 DEF IInv, Types
  <2> HIDE DEF k
  <2>5. ASSUME calm'[c]
        PROVE  Fits(c)'
    <3>1. Mine(c).state # "open"
      BY <1>1, <2>5, CalmBefore DEF Fits
    <3>2. heap'[call'[c].host][call'[c].obj].state # "open"
      BY <1>3, <2>2, <2>4, <3>1 DEF Mine, Host
    <3> QED BY <2>2, <2>4, <3>2 DEF Fits, Mine, Host
  <2> QED BY <1>1, <1>3, <2>1, <2>2, <2>3, <2>4, <2>5, Bounds, GoOnCalm
<1> QED BY <1>2, <1>3 DEF Look

\* ... with the configuration.
LEMMA AdmitCalm ==
    ASSUME IInv, IInv', CalmInv, Watch, NEW c \in Calls, Admit(c) \/ Refuse(c)
    PROVE  CalmInv'
<1>1. /\ call[c] # NoCall /\ call[c].at = "checking" /\ call[c].at \in Working
      /\ current' = current
  BY DEF Admit, Refuse, At, Working
<1>2. \/ Disable(c) \/ Leave(c) \/ Conclude(c, Tripped(Mine(c)))
  BY DEF Admit, Refuse
<1> QED BY <1>1, <1>2, ConcludeCalm, DisableCalm

\* recordFailure counts, which leaves the state of the object as it is.
LEMMA CountCalm ==
    ASSUME IInv, IInv', CalmInv, Watch, NEW c \in Calls, Count(c)
    PROVE  CalmInv'
<1> DEFINE i == Host(c)
           s == call[c].obj
           h == [Mine(c) EXCEPT !.failures = Bump(@, MaxFailures)]
<1> HIDE DEF i, s, h
<1>1. /\ call[c] # NoCall /\ call[c].at = "config" /\ call[c].at \in Working
      /\ current' = current
  BY DEF Count, At, Working
<1>2. \/ Disable(c) \/ Conclude(c, h)
      \/ call' = [call EXCEPT ![c].at = "forced"] /\ Put(i, s, h)
  BY DEF Count, i, s, h
<1>3. CASE Disable(c) \/ Conclude(c, h)
  BY <1>1, <1>3, ConcludeCalm, DisableCalm
<1>4. CASE call' = [call EXCEPT ![c].at = "forced"] /\ Put(i, s, h)
  <2> DEFINE k == [call[c] EXCEPT !.at = "forced"]
  <2> HIDE DEF k
  <2>1. /\ call[c] \in GoodCalls /\ i \in Instances /\ i = call[c].host /\ s \in Slots
        /\ Mine(c) \in Sound /\ Mine(c) = heap[i][s]
    BY <1>1, WorkingCall DEF Mine, i, s
  <2>2. k.at = "forced" /\ k.host = call[c].host /\ k.obj = call[c].obj
    BY <2>1 DEF GoodCalls, k
  <2>3. call' = [call EXCEPT ![c] = k] /\ call'[c] = k
    BY <1>4 DEF IInv, Types, k
  <2>4. h.state = heap[i][s].state
    BY <2>1, CountedSound DEF h
  <2>5. Fits(c)'
    BY <2>2, <2>3 DEF Fits
  <2>6. k # NoCall
    <3>1. k \in GoodCalls
      BY <1>1, <2>1 DEF GoodCalls, Working, k, s
    <3> QED BY <3>1, CallsAreCalls
  <2> QED BY <1>1, <1>4, <2>1, <2>2, <2>3, <2>4, <2>5, <2>6, GoOnCalm
<1> QED BY <1>2, <1>3, <1>4

\* recordFailure opens and saves; recordSuccess.
LEMMA OpenUpCalm ==
    ASSUME IInv, IInv', CalmInv, Watch, NEW c \in Calls, OpenUp(c) \/ Credit(c)
    PROVE  CalmInv'
<1>1. call[c] # NoCall /\ call[c].at \in Working /\ current' = current
  BY DEF OpenUp, Credit, At, Working
<1>2. Disable(c) \/ Leave(c) \/ \E h : Conclude(c, h)
  BY DEF OpenUp, Credit
<1> QED BY <1>1, <1>2, ConcludeCalm, DisableCalm

\* A call that begins holds what is in the map, if it trusts it: that is closed.
LEMMA EnterCalm ==
    ASSUME IInv, IInv', CalmInv, Watch, NEW c \in Calls, NEW i \in Instances, Enter(c, i)
    PROVE  CalmInv'
<1>1. call[c] = NoCall /\ heap' = heap
  BY DEF Enter
<1>2. ASSUME NEW at \in {"load", "config"}, NEW s \in Slots \cup {NoSlot},
             call' = [call EXCEPT ![c] = Start(i, at, s)],
             \A j \in Instances : current'[j] = current[j] \/ current[j] = NoSlot,
             at = "config" => heap[i][s].state # "open"
      PROVE  CalmInv'
  <2> DEFINE k == Start(i, at, s)
  <2> HIDE DEF k
  <2>1. k.at = at /\ k.host = i /\ k.obj = s
    BY DEF k, Start
  <2>2. call' = [call EXCEPT ![c] = k]
    BY <1>2 DEF k
  <2>3. call'[c] = k /\ \A d \in Calls \ {c} : call'[d] = call[d]
    BY <2>2 DEF IInv, Types
  <2>4. \A d \in Calls : call[d] # NoCall => Holds(d)
    BY <1>1, <2>3 DEF Holds
  <2>5. NoneOpens
    BY <1>1, <1>2, <2>4, Bounds, PutOpens
  <2>6. Fits(c)'
    BY <1>1, <1>2, <2>1, <2>3 DEF Fits, Mine, Host
  <2> QED BY <1>2, <2>1, <2>2, <2>5, <2>6, MoveCalm
<1>3. CASE call' = [call EXCEPT ![c] = Start(i, "load", current[i])] /\ current' = current
  BY <1>2, <1>3 DEF IInv, Types
<1>4. CASE /\ ~NeedsRedisCheck(i) /\ current[i] # NoSlot
           /\ call' = [call EXCEPT ![c] = Start(i, "config", current[i])]
           /\ current' = current
  <2>1. heap[i][current[i]].state = "closed"
    BY <1>4 DEF NeedsRedisCheck
  <2> QED BY <1>2, <1>4, <2>1 DEF IInv, Types
<1>5. ASSUME current[i] = NoSlot, NEW s \in Slots, New(i, s),
             current' = [current EXCEPT ![i] = s],
             call' = [call EXCEPT ![c] = Start(i, "config", s)]
      PROVE  CalmInv'
  <2>1. heap[i][s].state # "open"
    BY <1>5 DEF New, CalmInv, Spare
  <2>2. \A j \in Instances : current'[j] = current[j] \/ current[j] = NoSlot
    BY <1>5 DEF IInv, Types
  <2> QED BY <1>2, <1>5, <2>1, <2>2
<1> QED BY <1>3, <1>4, <1>5 DEF Enter

\* A new object replaces that in the map.
LEMMA ReplaceCalm ==
    ASSUME IInv, IInv', CalmInv, Watch, NEW c \in Calls, call[c] # NoCall,
           NEW i \in Instances, i = Host(c), NEW s \in Slots, New(i, s), NEW h, NEW k,
           call' = [call EXCEPT ![c] = k], current' = [current EXCEPT ![i] = s],
           PutKeeping(i, s, h, Others(c, i) \cup {s}),
           k # NoCall /\ calm'[c] => Fits(c)',
           k # NoCall /\ k.at \in {"dash_load", "dash_loaded", "dash_config"} => k.obj = NoSlot
    PROVE  CalmInv'
<1> PICK live : live = Others(c, i) \cup {s}
  OBVIOUS
<1>1. call \in [Calls -> GoodCalls \cup {NoCall}]
  BY DEF IInv, Types
<1>2. current'[i] = s /\ \A j \in Instances \ {i} : current'[j] = current[j]
  BY DEF IInv, Types
<1>3. \A t \in Slots : t \in live => t \in Held(i)'
  <2>1. (\A t \in Others(c, i) : t \in Held(i)') /\ current'[i] \in Held(i)'
    BY <1>1, OthersHeld
  <2> QED BY <1>2, <2>1
<1>4. \A j \in Instances \ {i} : \A t \in Slots : t \in Held(j) => t \in Held(j)'
  BY <1>1, <1>2, ElsewhereHeld DEF Host
<1>5. s \notin Held(i)
  BY DEF New
<1>6. NoneOpens
  BY <1>3, <1>4, <1>5, PutKeepingOpens
<1> QED BY <1>6, MoveCalm

\* A load that is answered.
LEMMA SyncCalm ==
    ASSUME IInv, IInv', CalmInv, Watch, NEW c \in Calls, Sync(c)
    PROVE  CalmInv'
<1>1. /\ call[c] # NoCall /\ call[c].at = "loaded" /\ call[c] \in GoodCalls
      /\ Host(c) \in Instances /\ Host(c) = call[c].host
      /\ call[c].obj \in Slots \cup {NoSlot} /\ call[c].reply \in Stored \cup {Missing}
  BY WorkingCall DEF Sync, At
<1> PICK i \in Instances : i = Host(c) /\ i = call[c].host
  BY <1>1
<1> PICK o \in Slots \cup {NoSlot} : o = call[c].obj
  BY <1>1
<1>2. calm'[c] => ~Open(call[c].reply)
  BY <1>1, CalmBefore DEF Fits
<1>3. ASSUME NEW h, calm'[c] => h.state # "open", Adopt(c, h)
      PROVE  CalmInv'
  <2> PICK s \in Slots :
            /\ New(i, s)
            /\ current' = [current EXCEPT ![i] = s]
            /\ call' = [call EXCEPT ![c].at = "config", ![c].obj = s, ![c].reply = Missing]
            /\ PutKeeping(i, s, h, Others(c, i) \cup {s})
    BY <1>3 DEF Adopt
  <2> PICK k : k = [call[c] EXCEPT !.at = "config", !.obj = s, !.reply = Missing]
    OBVIOUS
  <2>1. k.at = "config" /\ k.obj = s /\ k.host = i
    BY <1>1 DEF GoodCalls
  <2>2. call' = [call EXCEPT ![c] = k] /\ call'[c] = k
    BY <1>1 DEF IInv, Types, GoodCalls
  <2>3. heap'[i][s] = h
    BY DEF PutKeeping, IInv, Types
  <2>4. calm'[c] => Fits(c)'
    BY <1>3, <2>1, <2>2, <2>3 DEF Fits, Mine, Host
  <2> QED BY <1>1, <2>1, <2>2, <2>4, ReplaceCalm
<1>4. ASSUME call' = [call EXCEPT ![c].at = "config", ![c].reply = Missing],
             current' = current, o # NoSlot,
             \/ heap' = heap /\ (calm'[c] => heap[i][o].state # "open")
             \/ Put(i, o, Blank)
      PROVE  CalmInv'
  <2> PICK k : k = [call[c] EXCEPT !.at = "config", !.reply = Missing]
    OBVIOUS
  <2>1. k.at = "config" /\ k.obj = o /\ k.host = i
    BY <1>1 DEF GoodCalls
  <2>2. call' = [call EXCEPT ![c] = k] /\ call'[c] = k
    BY <1>1, <1>4 DEF IInv, Types, GoodCalls
  <2>3. k # NoCall
    <3>1. k \in GoodCalls
      BY <1>1, <1>4 DEF GoodCalls, Working
    <3> QED BY <3>1, CallsAreCalls
  <2>4. calm'[c] => heap'[i][o].state # "open"
    BY <1>4 DEF Put, Blank, IInv, Types
  <2>5. calm'[c] => Fits(c)'
    BY <2>1, <2>2, <2>4 DEF Fits, Mine, Host
  <2>6. Blank.state # "open"
    BY DEF Blank
  <2>7. heap' = heap \/ (o \in Slots /\ Put(i, o, Blank))
    BY <1>4
  <2> QED BY <1>1, <1>4, <2>1, <2>2, <2>3, <2>5, <2>6, <2>7, GoOnCalm
<1>5. \/ call[c].reply # Missing /\ Adopt(c, call[c].reply)
      \/ Adopt(c, Blank)
      \/ /\ call' = [call EXCEPT ![c].at = "config", ![c].reply = Missing]
         /\ current' = current /\ o # NoSlot
         /\ \/ heap' = heap /\ (\/ call[c].reply # Missing /\ call[c].reply.state = heap[i][o].state
                                \/ heap[i][o].state = "closed")
            \/ Put(i, o, Blank)
  BY DEF Sync, Mine
<1>6. CASE call[c].reply # Missing /\ Adopt(c, call[c].reply)
  <2>1. calm'[c] => call[c].reply.state # "open"
    BY <1>2, <1>6 DEF Open
  <2> QED BY <1>3, <1>6, <2>1
<1>7. CASE Adopt(c, Blank)
  BY <1>3, <1>7 DEF Blank
<1>8. CASE /\ call' = [call EXCEPT ![c].at = "config", ![c].reply = Missing]
           /\ current' = current /\ o # NoSlot
           /\ \/ heap' = heap /\ (\/ call[c].reply # Missing /\ call[c].reply.state = heap[i][o].state
                                  \/ heap[i][o].state = "closed")
              \/ Put(i, o, Blank)
  BY <1>2, <1>4, <1>8 DEF Open
<1> QED BY <1>5, <1>6, <1>7, <1>8

\* A process finds an object, or makes one.
LEMMA EnsureKeeps ==
    ASSUME IInv, NEW i \in Instances, Ensure(i)
    PROVE  \A j \in Instances : current'[j] = current[j] \/ current[j] = NoSlot
BY DEF Ensure, IInv, Types

\* The dashboard holds nothing.
LEMMA DashboardCalm ==
    ASSUME IInv, IInv', CalmInv, Watch, NEW c \in Calls, NEW i \in Instances,
           NEW f \in BOOLEAN, Dashboard(c, i, f)
    PROVE  CalmInv'
<1>1. call[c] = NoCall /\ heap' = heap
  BY DEF Dashboard
<1>2. CASE call' = [call EXCEPT ![c] = Start(i, "dash_load", NoSlot)] /\ current' = current
  <2> PICK k : k = Start(i, "dash_load", NoSlot)
    OBVIOUS
  <2>1. k.at = "dash_load" /\ k.obj = NoSlot
    BY DEF Start
  <2>2. call' = [call EXCEPT ![c] = k]
    BY <1>2
  <2>3. call'[c] = k /\ \A d \in Calls \ {c} : call'[d] = call[d]
    BY <2>2 DEF IInv, Types
  <2>4. \A d \in Calls : call[d] # NoCall => Holds(d)
    BY <1>1, <2>3 DEF Holds
  <2>5. NoneOpens
    BY <1>1, <1>2, <2>4, Bounds, PutOpens
  <2>6. Fits(c)'
    BY <2>1, <2>3 DEF Fits
  <2> QED BY <2>1, <2>2, <2>5, <2>6, MoveCalm
<1>3. CASE Ensure(i) /\ call' = call
  <2>1. \A d \in Calls : call[d] # NoCall => Holds(d)
    BY <1>3 DEF Holds
  <2>2. NoneOpens
    BY <1>1, <1>3, <2>1, Bounds, EnsureKeeps, PutOpens
  <2>3. DashFree'
    BY <1>3 DEF CalmInv, DashFree
  <2> QED BY <1>3, <2>2, <2>3, CalmStep
<1> QED BY <1>2, <1>3 DEF Dashboard

\* It puts what Redis has in the map, ...
LEMMA ReloadCalm ==
    ASSUME IInv, IInv', CalmInv, Watch, NEW c \in Calls, Reload(c)
    PROVE  CalmInv'
<1>1. /\ call[c] # NoCall /\ call[c].at = "dash_loaded" /\ call[c] \in GoodCalls
      /\ Host(c) \in Instances /\ Host(c) = call[c].host
  BY WorkingCall DEF Reload, At
<1>2. call[c].obj = NoSlot
  BY <1>1 DEF CalmInv, DashFree
<1> PICK i \in Instances : i = Host(c) /\ i = call[c].host
  BY <1>1
<1> PICK k : k = [call[c] EXCEPT !.at = "dash_config", !.reply = Missing]
  OBVIOUS
<1>3. k.at = "dash_config" /\ k.obj = NoSlot /\ k.host = i
  BY <1>1, <1>2 DEF GoodCalls
<1>4. call' = [call EXCEPT ![c] = k]
  <2>1. call' = [call EXCEPT ![c].at = "dash_config", ![c].reply = Missing]
    BY DEF Reload
  <2> QED BY <1>1, <2>1 DEF IInv, Types, GoodCalls
<1>5. Fits(c)'
  <2>1. call'[c] = k
    BY <1>4 DEF IInv, Types
  <2> QED BY <1>3, <2>1 DEF Fits
<1>6. k # NoCall
  <2>1. k \in GoodCalls
    BY <1>1, <1>2 DEF GoodCalls, Working
  <2> QED BY <2>1, CallsAreCalls
<1>7. ASSUME NEW h, NEW s \in Slots, New(i, s), current' = [current EXCEPT ![i] = s],
             PutKeeping(i, s, h, Others(c, i) \cup {s})
      PROVE  CalmInv'
  BY <1>1, <1>3, <1>4, <1>5, <1>7, ReplaceCalm
<1>8. ASSUME current' = current,
             heap' = heap \/ (current[i] # NoSlot /\ Put(i, current[i], Blank))
      PROVE  CalmInv'
  <2> PICK o \in Slots \cup {NoSlot} : o = current[i]
    BY DEF IInv, Types
  <2>1. heap' = heap \/ (o \in Slots /\ Put(i, o, Blank))
    BY <1>8
  <2>2. Blank.state # "open"
    BY DEF Blank
  <2> QED BY <1>1, <1>2, <1>3, <1>4, <1>5, <1>6, <1>8, <2>1, <2>2, GoOnCalm
<1>9. \/ \E s \in Slots : /\ New(i, s) /\ current' = [current EXCEPT ![i] = s]
                          /\ PutKeeping(i, s, call[c].reply, Others(c, i) \cup {s})
      \/ /\ current' = current
         /\ heap' = heap \/ (current[i] # NoSlot /\ Put(i, current[i], Blank))
  BY DEF Reload
<1> QED BY <1>7, <1>8, <1>9

\* ... and then reports what is there, half-open if the deadline has passed.
LEMMA ReportCalm ==
    ASSUME IInv, IInv', CalmInv, Watch, NEW c \in Calls, Report(c)
    PROVE  CalmInv'
<1>1. /\ call[c] # NoCall /\ call[c].at = "dash_config"
      /\ Host(c) \in Instances /\ Host(c) = call[c].host
  BY WorkingCall DEF Report, At
<1>2. call[c].obj = NoSlot
  BY <1>1 DEF CalmInv, DashFree
<1> PICK i \in Instances : i = Host(c) /\ i = call[c].host
  BY <1>1
<1> PICK o \in Slots \cup {NoSlot} : o = current[i]
  BY DEF IInv, Types
<1>3. call' = [call EXCEPT ![c] = NoCall]
  BY DEF Report, Return
<1>4. /\ current' = current \/ Ensure(i)
      /\ \/ heap' = heap
         \/ o \in Slots /\ Put(i, o, Blank)
         \/ o \in Slots /\ Put(i, o, Tripped(heap[i][o]))
  BY DEF Report
<1>5. \A j \in Instances : current'[j] = current[j] \/ current[j] = NoSlot
  BY <1>4, EnsureKeeps
<1>6. ASSUME NEW h, h.state # "open", heap' = heap \/ (o \in Slots /\ Put(i, o, h))
      PROVE  CalmInv'
  BY <1>1, <1>2, <1>3, <1>5, <1>6, GoOnCalm
<1>7. ASSUME o \in Slots
      PROVE  Tripped(heap[i][o]).state # "open"
  <2>1. heap[i][o] \in Health
    BY <1>7, StoredIsSound DEF IInv, Types
  <2> QED BY <2>1 DEF Tripped, Health
<1>8. Blank.state # "open"
  BY DEF Blank
<1> QED BY <1>4, <1>6, <1>7, <1>8

\* The synchronous entry points open nothing, ...
LEMMA EntryCalm ==
    ASSUME IInv, IInv', CalmInv, Watch, NEW i \in Instances,
           Scan(i) \/ TripToHalfOpen(i) \/ ResetCircuit(i) \/ ForceClose(i) \/ Peek(i)
    PROVE  CalmInv'
<1>1. call' = call /\ \A j \in Instances : current'[j] = current[j] \/ current[j] = NoSlot
  BY EnsureKeeps DEF Scan, TripToHalfOpen, ResetCircuit, ForceClose, Peek
<1> PICK o \in Slots \cup {NoSlot} : o = current[i]
  BY DEF IInv, Types
<1>2. \/ heap' = heap
      \/ o \in Slots /\ Put(i, o, Blank)
      \/ o \in Slots /\ Put(i, o, Tripped(heap[i][o]))
  BY DEF Scan, TripToHalfOpen, ResetCircuit, ForceClose, Peek
<1>3. ASSUME NEW h, h.state # "open", heap' = heap \/ (o \in Slots /\ Put(i, o, h))
      PROVE  CalmInv'
  <2>1. \A d \in Calls : call[d] # NoCall => Holds(d)
    BY <1>1 DEF Holds
  <2>2. NoneOpens
    BY <1>1, <1>3, <2>1, PutOpens
  <2>3. DashFree'
    BY <1>1 DEF CalmInv, DashFree
  <2> QED BY <1>1, <2>2, <2>3, CalmStep
<1>4. ASSUME o \in Slots
      PROVE  Tripped(heap[i][o]).state # "open"
  <2>1. heap[i][o] \in Health
    BY <1>4, StoredIsSound DEF IInv, Types
  <2> QED BY <2>1 DEF Tripped, Health
<1>5. Blank.state # "open"
  BY DEF Blank
<1> QED BY <1>2, <1>3, <1>4, <1>5

\* ... nor does a step that is about no call and no object.
LEMMA IdleCalm ==
    ASSUME IInv, IInv', CalmInv, Watch, call' = call, heap' = heap, current' = current
    PROVE  CalmInv'
<1>1. Spare'
  BY DEF CalmInv, Spare, Held, Host
<1>2. DashFree'
  BY DEF CalmInv, DashFree
<1>3. NoneOpens
  BY <1>1 DEF NoneOpens, Spare
<1> QED BY <1>2, <1>3, CalmStep

\* A calm call is answered with what Redis has, which is not open.
LEMMA AnswerCalm ==
    ASSUME IInv, IInv', CalmInv, Watch, NEW i \in Instances, chan[i] # <<>>, NEW value,
           value = redis \/ value = Missing, Answer(i, Head(chan[i]), value)
    PROVE  CalmInv'
<1>1. chan[i] \in Seq(StoredCommands)
  BY DEF IInv, Types
<1> PICK cmd : cmd = Head(chan[i])
  OBVIOUS
<1>2. /\ cmd \in StoredCommands /\ cmd = chan[i][1] /\ 1 \in 1..Len(chan[i])
  BY <1>1
<1>3. heap' = heap /\ current' = current
  BY DEF Answer
<1>4. CASE cmd.type # "load"
  <2>1. call' = call
    BY <1>4 DEF Answer
  <2> QED BY <1>3, <2>1, IdleCalm
<1>5. CASE cmd.type = "load"
  <2> PICK d : d = cmd.call
    OBVIOUS
  <2>1. d \in Calls /\ Waits(d, i)
    BY <1>2, <1>5 DEF StoredCommands, IInv, LoadsMatch
  <2>2. /\ call[d] \in GoodCalls /\ call[d].at \in {"load", "dash_load"} /\ call[d] # NoCall
        /\ Host(d) = i
    BY <2>1 DEF Waits, IInv, Types, Host
  <2> PICK at : at = IF call[d].at = "load" THEN "loaded" ELSE "dash_loaded"
    OBVIOUS
  <2> PICK k : k = [call[d] EXCEPT !.reply = value, !.at = at]
    OBVIOUS
  <2>3. /\ k.at = at /\ k.host = call[d].host /\ k.obj = call[d].obj /\ k.reply = value
    BY <2>2 DEF GoodCalls
  <2>4. call' = [call EXCEPT ![d] = k] /\ call'[d] = k
    <3>1. call' = [call EXCEPT ![d].reply = value,
                               ![d].at = IF @ = "load" THEN "loaded" ELSE "dash_loaded"]
      BY <1>5 DEF Answer
    <3> QED BY <2>1, <2>2, <3>1 DEF IInv, Types, GoodCalls
  <2>5. calm'[d] => ~Open(value)
    BY <2>1, <2>2, CalmBefore DEF Quiet, Open
  <2>6. calm'[d] => Fits(d)'
    <3>1. at \in {"loaded", "dash_loaded"}
      OBVIOUS
    <3> QED BY <2>3, <2>4, <2>5, <3>1 DEF Fits, Open
  <2>7. k.at \in {"dash_load", "dash_loaded", "dash_config"} => k.obj = NoSlot
    BY <2>1, <2>2, <2>3 DEF CalmInv, DashFree
  <2>8. \A e \in Calls : call[e] # NoCall => Holds(e)
    <3>1. k # NoCall
      <4>1. at \in {"loaded", "dash_loaded"} /\ value \in Stored \cup {Missing}
        BY DEF IInv, Types
      <4>2. k \in GoodCalls
        BY <2>2, <4>1 DEF GoodCalls, Working
      <4> QED BY <4>2, CallsAreCalls
    <3>2. \A e \in Calls \ {d} : call'[e] = call[e]
      BY <2>4 DEF IInv, Types
    <3> QED BY <2>3, <2>4, <3>1, <3>2 DEF Holds
  <2>9. NoneOpens
    BY <1>3, <2>8, Bounds, PutOpens
  <2> QED BY <2>1, <2>4, <2>6, <2>7, <2>9, MoveCalm
<1> QED BY <1>4, <1>5

\* A process that restarts has nothing open.
LEMMA RestartCalm ==
    ASSUME IInv, IInv', CalmInv, Watch, NEW i \in Instances, Restart(i)
    PROVE  CalmInv'
<1>1. /\ heap'[i] = [s \in Slots |-> Blank]
      /\ \A j \in Instances \ {i} : heap'[j] = heap[j] /\ current'[j] = current[j]
      /\ call' = [c \in Calls |-> IF call[c] # NoCall /\ call[c].host = i
                                  THEN NoCall ELSE call[c]]
  BY DEF Restart, Host, IInv, Types
<1>2. \A d \in Calls : call'[d] = call[d] \/ call'[d] = NoCall
  BY <1>1
<1>3. ASSUME NEW j \in Instances, NEW t \in Slots, heap'[j][t].state = "open"
      PROVE  t \in Held(j)' /\ heap[j][t].state = "open"
  <2>1. j # i
    BY <1>1, <1>3 DEF Blank
  <2>2. heap[j][t].state = "open" /\ t \in Held(j)
    BY <1>1, <1>3, <2>1 DEF CalmInv, Spare
  <2> QED BY <1>1, <2>1, <2>2 DEF Held, Host
<1>4. NoneOpens
  BY <1>3 DEF NoneOpens
<1>5. DashFree'
  BY <1>2 DEF CalmInv, DashFree
<1> QED BY <1>2, <1>4, <1>5, CalmStep

\* No call is under way at first.
LEMMA InitCalm ==
    Init => CalmInv
<1> SUFFICES ASSUME Init PROVE CalmInv
  OBVIOUS
<1>1. CalmsFit
  BY DEF Init, CalmsFit
<1>2. Spare
  BY DEF Init, Spare, Blank
<1>3. DashFree
  BY DEF Init, DashFree
<1> QED BY <1>1, <1>2, <1>3 DEF CalmInv

\* Every step keeps it.
LEMMA NextCalm ==
    IInv /\ IInv' /\ CalmInv /\ [Next]_vars => CalmInv'
<1> SUFFICES ASSUME IInv, IInv', CalmInv, [Next]_vars PROVE CalmInv'
  OBVIOUS
<1>1. ASSUME NEW c \in Calls, CallStep(c), Watch
      PROVE  CalmInv'
  <2>1. ASSUME NEW i \in Servers, Enter(c, i)
        PROVE  CalmInv'
    BY <1>1, <2>1, BoundAssumption, EnterCalm
  <2>2. ASSUME NEW i \in Servers, NEW f \in BOOLEAN, Dashboard(c, i, f)
        PROVE  CalmInv'
    BY <1>1, <2>2, BoundAssumption, DashboardCalm
  <2> QED BY <1>1, <2>1, <2>2, SyncCalm, LookCalm, AdmitCalm, CountCalm, OpenUpCalm,
             ReloadCalm, ReportCalm DEF CallStep
<1>2. ASSUME NEW i \in Instances, InstanceStep(i), Watch
      PROVE  CalmInv'
  BY <1>2, EntryCalm, AnswerCalm, RestartCalm DEF InstanceStep, Execute, Fail
<1>3. CASE Expire /\ Watch
  BY <1>3, IdleCalm DEF Expire
<1>4. CASE UNCHANGED vars
  BY <1>4 DEF vars, CalmInv, CalmsFit, Fits, Spare, DashFree, Quiet, Open, Held, Host, Mine
<1> QED BY <1>1, <1>2, <1>3, <1>4 DEF Next

\* A reset by any process, or the loss of the hash, is honoured by the next check
\* of every other: a check that never had an open state in Redis, nor one its own
\* process was sending there, is not refused, whatever was reset, replaced,
\* answered out of turn or lost meanwhile.
THEOREM ResetsAreHonoured ==
    Spec => ResetHonoured
<1>1. Init => IInv /\ CalmInv
  BY InitIInv, InitCalm
<1>2. IInv /\ CalmInv /\ [Next]_vars => (IInv /\ CalmInv)'
  BY NextKeeps, NextCalm
<1>3. IInv /\ CalmInv => (\A c \in Calls : Refuse(c) => ~calm[c])
  BY DEF CalmInv, CalmsFit, Fits, Refuse, At
<1> QED BY <1>1, <1>2, <1>3, PTL DEF Spec, ResetHonoured
=============================================================================
