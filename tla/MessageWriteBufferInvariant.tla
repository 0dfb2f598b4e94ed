--------------------- MODULE MessageWriteBufferInvariant ---------------------
(***************************************************************************)
(* The inductive invariant of the write buffer, and what each kind of      *)
(* step does to the part of it that is about one row: proved here of the   *)
(* values that hold the row, and used in MessageWriteBufferProofs for the  *)
(* actions.                                                                *)
(***************************************************************************)
EXTENDS MessageWriteBuffer, FiniteSetTheorems, TLAPS

\* What an update in the batch or the queue holds, none holding nothing.
Item(q) == IF q = None THEN [patch |-> NoPatch, ack |-> None, fence |-> FALSE] ELSE q
Ver(q) == Item(q).patch.version
Tr(q) == Item(q).patch.trace
Status(q) == Item(q).patch.status
AckIn(q) == Item(q).ack

RowStates == [status : Outcomes \cup {None}, version : Versions, trace : 0..MaxTrace,
              deleted : BOOLEAN]

(* One row, by what holds it: stored w, in the batch b, queued q, held back d, *)
(* waited for a, its task t, what was used u, the last version v and stop st.  *)

TypesFit(w, b, q, d, a, t, u, v) ==
    /\ w \in RowStates /\ b \in Items \cup {None} /\ q \in Items \cup {None}
    /\ d \in Versions /\ a \in Acks \cup {None} /\ t \in Tasks \cup {None}
    /\ u \in SUBSET Acks /\ v \in Versions

\* Only a terminal update carries an outcome; a trace that is acknowledged carries
\* nothing else.
ItemFits(q) ==
    /\ Status(q) = IF AckIn(q) \in Outcomes THEN AckIn(q) ELSE None
    /\ AckIn(q) \in Traces => Ver(q) = 0 /\ Tr(q) = AckIn(q)

\* Acknowledgements have been rejected as a whole, or are about to be left alone.
IsLate(st) == st.at \in {"last_join", "stopped"}
\* The flush that stop found has been waited for.
HasJoined(st) == st.at # "running" /\ ~(st.at = "drain" /\ st.awaits)

\* Who waits finds its update in one place, who is rejected finds it late in the
\* queue, and a batch has no claim waiting behind it after the first join.
AcksFit(b, q, d, a, t, st) ==
    /\ a # None => a \in {AckIn(q), AckIn(b)}
    /\ AckIn(q) # None /\ AckIn(q) # a => a = None /\ IsLate(st)
    /\ a # None /\ AckIn(b) = a => AckIn(q) = None
    /\ AckIn(b) = a /\ a \in Traces => q = None
    /\ a \in Traces => t # None /\ t.at # "waiting" /\ t.trace = a
    /\ d # 0 => a \in Traces
    /\ HasJoined(st) /\ b # None => AckIn(q) \notin Outcomes

UsedFit(w, b, q, u) ==
    /\ AckIn(b) # None => AckIn(b) \in u
    /\ AckIn(q) # None => AckIn(q) \in u
    /\ w.trace # 0 => w.trace \in u
    /\ Tr(b) # 0 => Tr(b) \in u
    /\ Tr(q) # 0 => Tr(q) \in u

\* A task's trace is the newest there is, and not in use before it is queued.
TaskFits(w, b, q, a, t, u) ==
    t # None =>
        /\ t.trace \in u
        /\ w.trace <= t.trace /\ Tr(b) <= t.trace /\ Tr(q) <= t.trace
        /\ t.at = "waiting" => t.trace # a /\ t.trace # AckIn(b) /\ t.trace # AckIn(q)

\* The table, the batch and the queue hold ever newer values, 0 standing for none.
Aging(stored, sent, queued) ==
    /\ sent # 0 => stored <= sent
    /\ queued # 0 => stored <= queued /\ sent <= queued

AgesFit(w, b, q, d, v) ==
    /\ Aging(w.version, Ver(b), Ver(q)) /\ Aging(w.trace, Tr(b), Tr(q))
    /\ d # 0 => w.version <= d /\ Ver(b) <= d /\ Ver(q) <= d
    /\ w.version <= v /\ Ver(b) <= v /\ Ver(q) <= v /\ d <= v

Fits(w, b, q, d, a, t, u, v, st) ==
    /\ TypesFit(w, b, q, d, a, t, u, v)
    /\ ItemFits(b) /\ ItemFits(q)
    /\ AcksFit(b, q, d, a, t, st)
    /\ UsedFit(w, b, q, u) /\ TaskFits(w, b, q, a, t, u) /\ AgesFit(w, b, q, d, v)

RowsFit == \A r \in Rows : Fits(row[r], flush.batch[r], pending[r], deferred[r],
                                active[r], task[r], used[r], version, stop)

(* The buffer as a whole. *)

\* A batch lives only while the database has it.
FlushFits ==
    /\ flush.at # "sent" => flush.batch = NoBatch /\ flush.wrote = None
    /\ flush.wrote # None => flush.wrote \subseteq Batched
    /\ timer => flush.at = "idle" /\ ~Stopping
    /\ stop.awaits => flush.at # "idle"

\* What a shutdown rejected goes out before what is acknowledged since.
StaleFirst == Stale # {} => Awaited = {}

UnsettledBounded == Cardinality(Unsettled) <= MaxPending

\* What the batch wrote is in the table.
WroteFits ==
    flush.wrote # None =>
        \A r \in flush.wrote : /\ AckOf(r) \in Outcomes => row[r].status = AckOf(r)
                               /\ AckOf(r) \in Traces => row[r].trace >= AckOf(r)

NothingLeft ==
    /\ \A r \in Rows : pending[r] = None /\ deferred[r] = 0 /\ active[r] = None
    /\ flush.at = "idle"

\* No task is left once the joins have waited for them, and a shutdown without an
\* error has nothing else left once it rejects.
Clean(st) == st.at \in {"reject", "last_join"} /\ ~st.failed
Over(st) == st.at \in {"final", "final_retry", "stopped"} \/ Clean(st)

StopFits ==
    /\ Over(stop) => \A r \in Rows : task[r] = None
    /\ stop.at \in {"final", "final_retry"} /\ ~stop.awaits => flush.at = "idle"
    /\ Clean(stop) => NothingLeft
    /\ IsLate(stop) => \A r \in Rows : active[r] \notin Outcomes
    /\ stop.at \in {"reject", "last_join", "stopped"} => ~stop.awaits

IInv ==
    /\ TypeOK /\ RowsFit /\ FlushFits /\ StaleFirst
    /\ UnsettledBounded /\ QueueBounded /\ NoLostFlush
    /\ AckHonest /\ WroteFits /\ StopFits

-----------------------------------------------------------------------------
(* Names, items and patches. *)

\* None is no acknowledgement, update or task; an outcome is no trace.
LEMMA Names ==
    /\ None \notin Acks /\ None \notin Outcomes /\ None \notin Traces
    /\ \A o \in Outcomes : o \notin Traces
    /\ None \notin Items /\ None \notin Tasks
    /\ \A rs \in SUBSET Rows : rs # None
    /\ MaxTrace \in Nat /\ MaxVersion \in Nat /\ BatchSize \in Nat \ {0} /\ MaxPending \in Nat \ {0}
BY SizeAssumption, NamesAssumption, NoneAssumption DEF Acks, Traces

\* An update is made of its parts.
LEMMA Made ==
    ASSUME NEW patch \in Patches, NEW ack \in Acks \cup {None}, NEW fence \in BOOLEAN
    PROVE  LET q == [patch |-> patch, ack |-> ack, fence |-> fence]
           IN  /\ q \in Items /\ q # None
               /\ Ver(q) = patch.version /\ Tr(q) = patch.trace
               /\ Status(q) = patch.status /\ AckIn(q) = ack
<1> DEFINE q == [patch |-> patch, ack |-> ack, fence |-> fence]
<1>1. q \in Items
  BY DEF Items
<1>2. q # None
  BY <1>1, Names
<1>3. Item(q) = q
  BY <1>2 DEF Item
<1> QED BY <1>1, <1>2, <1>3 DEF Ver, Tr, Status, AckIn

\* The empty patch is a patch, and none stands for it.
LEMMA Nothing ==
    /\ NoPatch \in Patches /\ NoPatch.version = 0 /\ NoPatch.trace = 0 /\ NoPatch.status = None
    /\ Ver(None) = 0 /\ Tr(None) = 0 /\ Status(None) = None /\ AckIn(None) = None
    /\ Item(None) \in Items
BY Names DEF NoPatch, Patches, Versions, Ver, Tr, Status, AckIn, Item, Items

\* What is read of an update has its type.
LEMMA Parts ==
    ASSUME NEW q \in Items \cup {None}
    PROVE  /\ Item(q) \in Items /\ Item(q).patch \in Patches /\ Item(q).fence \in BOOLEAN
           /\ Ver(q) \in Versions /\ Tr(q) \in 0..MaxTrace
           /\ Ver(q) \in Nat /\ Tr(q) \in Nat
           /\ Status(q) \in Outcomes \cup {None} /\ AckIn(q) \in Acks \cup {None}
           /\ q # None => Item(q) = q
<1>1. Item(q) \in Items
  BY Nothing DEF Item
<1>2. Versions \subseteq Nat /\ 0..MaxTrace \subseteq Nat
  BY Names DEF Versions
<1> QED BY <1>1, <1>2 DEF Items, Patches, Ver, Tr, Status, AckIn, Item

\* Of two patches the newer wins, column by column.
LEMMA Merged ==
    ASSUME NEW x \in Patches, NEW y \in Patches
    PROVE  /\ Merge(x, y) \in Patches
           /\ Merge(x, y).version = IF y.version # 0 THEN y.version ELSE x.version
           /\ Merge(x, y).status = IF y.status # None THEN y.status ELSE x.status
           /\ Merge(x, y).trace = IF y.trace # 0 THEN y.trace ELSE x.trace
BY DEF Merge, Patches

-----------------------------------------------------------------------------
(* What a step may do to one row. *)

\* An update without acknowledgement is dropped, or what is held back.
LEMMA Evicting ==
    ASSUME NEW w, NEW b, NEW q, NEW d, NEW a, NEW t, NEW u, NEW v, NEW st,
           Fits(w, b, q, d, a, t, u, v, st),
           NEW q2 \in {q, None}, q2 = q \/ AckIn(q) = None, NEW d2 \in {d, 0}
    PROVE  Fits(w, b, q2, d2, a, t, u, v, st)
<1>1. w \in RowStates /\ b \in Items \cup {None} /\ q \in Items \cup {None}
      /\ d \in Versions /\ v \in Versions
  BY DEF Fits, TypesFit
<1>2. /\ w.version \in Nat /\ w.trace \in Nat /\ d \in Nat /\ v \in Nat
      /\ Ver(b) \in Nat /\ Tr(b) \in Nat /\ Ver(q) \in Nat /\ Tr(q) \in Nat
  BY <1>1, Parts, Names DEF RowStates, Versions
<1>3. TypesFit(w, b, q2, d2, a, t, u, v)
  BY Names DEF Fits, TypesFit, Versions
<1>4. ItemFits(q2)
  BY Nothing, Names DEF Fits, ItemFits
<1>5. AcksFit(b, q2, d2, a, t, st)
  BY Nothing, Names DEF Fits, AcksFit
<1>6. UsedFit(w, b, q2, u) /\ TaskFits(w, b, q2, a, t, u)
  <2>1. CASE q2 = q
    BY <2>1 DEF Fits
  <2>2. CASE q2 = None
    <3>1. t # None => t \in Tasks /\ t.trace \in Nat /\ t.trace # None
      BY Names DEF Fits, TypesFit, Tasks, Traces
    <3> QED BY <1>2, <2>2, <3>1, Nothing DEF Fits, UsedFit, TaskFits
  <2> QED BY <2>1, <2>2
<1>7. AgesFit(w, b, q2, d2, v)
  BY <1>2, Nothing DEF Fits, AgesFit, Aging
<1> QED BY <1>3, <1>4, <1>5, <1>6, <1>7 DEF Fits

\* The last version drawn is drawn for another row.
LEMMA Passing ==
    ASSUME NEW w, NEW b, NEW q, NEW d, NEW a, NEW t, NEW u, NEW v, NEW st,
           Fits(w, b, q, d, a, t, u, v, st),
           NEW v2 \in Versions, v <= v2
    PROVE  Fits(w, b, q, d, a, t, u, v2, st)
<1>1. w \in RowStates /\ b \in Items \cup {None} /\ q \in Items \cup {None}
      /\ d \in Versions /\ v \in Versions
  BY DEF Fits, TypesFit
<1>2. /\ w.version \in Nat /\ d \in Nat /\ v \in Nat /\ v2 \in Nat
      /\ Ver(b) \in Nat /\ Ver(q) \in Nat
  BY <1>1, Parts, Names DEF RowStates, Versions
<1>3. AgesFit(w, b, q, d, v2)
  BY <1>2 DEF Fits, AgesFit
<1> QED BY <1>3 DEF Fits, TypesFit

\* An ordinary update is held back behind a trace.
LEMMA HoldingBack ==
    ASSUME NEW w, NEW b, NEW q, NEW d, NEW a \in Traces, NEW t, NEW u, NEW v, NEW st,
           Fits(w, b, q, d, a, t, u, v, st),
           NEW v2 \in Versions, v < v2
    PROVE  Fits(w, b, q, v2, a, t, u, v2, st)
<1>1. w \in RowStates /\ b \in Items \cup {None} /\ q \in Items \cup {None}
      /\ d \in Versions /\ v \in Versions
  BY DEF Fits, TypesFit
<1>2. /\ w.version \in Nat /\ d \in Nat /\ v \in Nat /\ v2 \in Nat
      /\ Ver(b) \in Nat /\ Ver(q) \in Nat
  BY <1>1, Parts, Names DEF RowStates, Versions
<1>3. AgesFit(w, b, q, v2, v2)
  BY <1>2 DEF Fits, AgesFit
<1>4. AcksFit(b, q, v2, a, t, st)
  BY DEF Fits, AcksFit
<1> QED BY <1>3, <1>4 DEF Fits, TypesFit

\* Or it is queued, with what is queued already.
LEMMA Queueing ==
    ASSUME NEW w, NEW b, NEW q, NEW d, NEW a, a \notin Traces, NEW t, NEW u, NEW v, NEW st,
           Fits(w, b, q, d, a, t, u, v, st), ~IsLate(st),
           NEW v2 \in Versions, v < v2
    PROVE  Fits(w, b, [Item(q) EXCEPT !.patch.version = v2], d, a, t, u, v2, st)
<1> DEFINE q2 == [Item(q) EXCEPT !.patch.version = v2]
<1>1. w \in RowStates /\ b \in Items \cup {None} /\ q \in Items \cup {None}
      /\ d \in Versions /\ v \in Versions
  BY DEF Fits, TypesFit
<1>2. /\ w.version \in Nat /\ w.trace \in Nat /\ d \in Nat /\ v \in Nat /\ v2 \in Nat
      /\ Ver(b) \in Nat /\ Tr(b) \in Nat /\ Ver(q) \in Nat /\ Tr(q) \in Nat
  BY <1>1, Parts, Names DEF RowStates, Versions
<1>3. /\ Item(q) \in Items /\ Item(q).patch \in Patches
  BY <1>1, Parts
<1>4. PICK patch \in Patches, ack \in Acks \cup {None}, fence \in BOOLEAN :
         /\ q2 = [patch |-> patch, ack |-> ack, fence |-> fence]
         /\ patch.version = v2 /\ patch.trace = Tr(q) /\ patch.status = Status(q)
         /\ ack = AckIn(q)
  <2>1. [Item(q).patch EXCEPT !.version = v2] \in Patches
        /\ [Item(q).patch EXCEPT !.version = v2].version = v2
        /\ [Item(q).patch EXCEPT !.version = v2].trace = Tr(q)
        /\ [Item(q).patch EXCEPT !.version = v2].status = Status(q)
    BY <1>3 DEF Patches, Tr, Status
  <2>2. q2 = [patch |-> [Item(q).patch EXCEPT !.version = v2],
              ack |-> Item(q).ack, fence |-> Item(q).fence]
        /\ Item(q).ack \in Acks \cup {None} /\ Item(q).fence \in BOOLEAN
    BY <1>3 DEF Items
  <2> QED BY <2>1, <2>2 DEF AckIn
<1> HIDE DEF q2
<1>6. q2 \in Items /\ q2 # None /\ Ver(q2) = v2 /\ Tr(q2) = Tr(q) /\ Status(q2) = Status(q)
      /\ AckIn(q2) = AckIn(q)
  BY <1>4, Made
<1>7. AckIn(q) \notin Traces /\ d = 0
  <2>1. AckIn(q) # None => AckIn(q) = a
    BY DEF Fits, AcksFit
  <2> QED BY <2>1, Names DEF Fits, AcksFit
<1>8. ItemFits(q2)
  BY <1>6, <1>7 DEF Fits, ItemFits
<1>9. AcksFit(b, q2, d, a, t, st)
  BY <1>6, <1>7 DEF Fits, AcksFit
<1>10. UsedFit(w, b, q2, u) /\ TaskFits(w, b, q2, a, t, u)
  BY <1>6 DEF Fits, UsedFit, TaskFits
<1>11. AgesFit(w, b, q2, d, v2)
  BY <1>2, <1>6, <1>7 DEF Fits, AgesFit, Aging
<1>12. TypesFit(w, b, q2, d, a, t, u, v2)
  BY <1>6 DEF Fits, TypesFit
<1> QED BY <1>8, <1>9, <1>10, <1>11, <1>12 DEF Fits, q2

\* A claim is queued: its row waits for no other acknowledgement.
LEMMA Claiming ==
    ASSUME NEW w, NEW b, NEW q, NEW d, NEW t, NEW u, NEW v, NEW st,
           Fits(w, b, q, d, None, t, u, v, st), ~IsLate(st), ~HasJoined(st),
           NEW o \in Outcomes, o \notin u, NEW v2 \in Versions, v < v2
    PROVE  Fits(w, b, [patch |-> Merge(Item(q).patch, [version |-> v2, status |-> o, trace |-> 0]),
                       ack |-> o, fence |-> FALSE],
                d, o, t, u \cup {o}, v2, st)
<1> DEFINE new == [version |-> v2, status |-> o, trace |-> 0]
           q2 == [patch |-> Merge(Item(q).patch, new), ack |-> o, fence |-> FALSE]
<1>1. w \in RowStates /\ b \in Items \cup {None} /\ q \in Items \cup {None}
      /\ d \in Versions /\ v \in Versions /\ o \in Acks /\ o # None /\ o \notin Traces
  BY Names DEF Fits, TypesFit, Acks
<1>2. /\ w.version \in Nat /\ w.trace \in Nat /\ d \in Nat /\ v \in Nat /\ v2 \in Nat
      /\ Ver(b) \in Nat /\ Tr(b) \in Nat /\ Ver(q) \in Nat /\ Tr(q) \in Nat
  BY <1>1, Parts, Names DEF RowStates, Versions
<1>3. q2 \in Items /\ q2 # None /\ Ver(q2) = v2 /\ Tr(q2) = Tr(q) /\ Status(q2) = o /\ AckIn(q2) = o
  <2>1. new \in Patches /\ new.version = v2 /\ new.trace = 0 /\ new.status = o
    BY <1>2, Names DEF Patches
  <2> HIDE DEF new
  <2>2. PICK patch \in Patches : /\ patch = Merge(Item(q).patch, new) /\ patch.version = v2
                                 /\ patch.trace = Tr(q) /\ patch.status = o
    <3>1. Item(q).patch \in Patches
      BY <1>1, Parts
    <3> QED BY <1>1, <1>2, <2>1, <3>1, Merged DEF Tr
  <2> QED BY <1>1, <2>2, Made
<1> HIDE DEF q2
<1>4. ItemFits(q2)
  BY <1>1, <1>3 DEF ItemFits
<1>5. AcksFit(b, q2, d, o, t, st)
  BY <1>1, <1>3, Names DEF Fits, AcksFit, UsedFit
<1>6. UsedFit(w, b, q2, u \cup {o})
  BY <1>3 DEF Fits, UsedFit
<1>7. TaskFits(w, b, q2, o, t, u \cup {o})
  <2>1. t # None => t.trace \in Traces
    BY DEF Fits, TypesFit, Tasks
  <2> QED BY <1>1, <1>3, <2>1 DEF Fits, TaskFits
<1>8. AgesFit(w, b, q2, d, v2)
  BY <1>1, <1>2, <1>3, Names DEF Fits, AgesFit, Aging, AcksFit
<1>9. TypesFit(w, b, q2, d, o, t, u \cup {o}, v2)
  BY <1>1, <1>3 DEF Fits, TypesFit
<1> QED BY <1>4, <1>5, <1>6, <1>7, <1>8, <1>9 DEF Fits, q2

\* A trace is queued, alone: it is the newest of its row.
LEMMA Tracing ==
    ASSUME NEW w, NEW b, NEW d, NEW t, NEW u, NEW v, NEW st,
           Fits(w, b, None, d, None, t, u, v, st), t # None, t.at = "waiting",
           NEW t2 \in Tasks, t2.trace = t.trace, t2.at # "waiting"
    PROVE  Fits(w, b, [patch |-> Merge(Item(None).patch, [NoPatch EXCEPT !.trace = t.trace]),
                       ack |-> t.trace, fence |-> FALSE],
                d, t.trace, t2, u, v, st)
<1> DEFINE x == t.trace
           new == [NoPatch EXCEPT !.trace = x]
           q2 == [patch |-> Merge(Item(None).patch, new), ack |-> x, fence |-> FALSE]
<1>1. w \in RowStates /\ b \in Items \cup {None} /\ d \in Versions /\ v \in Versions
      /\ t \in Tasks /\ x \in Traces /\ x \in Acks /\ x # None /\ x \notin Outcomes
      /\ x \in Nat /\ x \in 0..MaxTrace /\ x # 0
  BY Names DEF Fits, TypesFit, Tasks, Traces, Acks
<1>2. /\ w.version \in Nat /\ w.trace \in Nat /\ d \in Nat /\ v \in Nat
      /\ Ver(b) \in Nat /\ Tr(b) \in Nat
  BY <1>1, Parts, Names DEF RowStates, Versions
<1>3. q2 \in Items /\ q2 # None /\ Ver(q2) = 0 /\ Tr(q2) = x /\ Status(q2) = None /\ AckIn(q2) = x
  <2>1. new \in Patches /\ new.version = 0 /\ new.trace = x /\ new.status = None
    BY <1>1, Nothing DEF Patches
  <2> HIDE DEF new
  <2>2. PICK patch \in Patches : /\ patch = Merge(Item(None).patch, new) /\ patch.version = 0
                                 /\ patch.trace = x /\ patch.status = None
    <3>1. Item(None).patch \in Patches /\ Item(None).patch.version = 0
          /\ Item(None).patch.trace = 0 /\ Item(None).patch.status = None
      BY Parts, Nothing DEF Ver, Tr, Status
    <3> QED BY <1>1, <2>1, <3>1, Merged
  <2> QED BY <1>1, <2>2, Made
<1> HIDE DEF q2, x
<1>4. ItemFits(q2)
  BY <1>1, <1>3 DEF ItemFits
<1>5. AcksFit(b, q2, d, x, t2, st)
  BY <1>1, <1>3, Names DEF Fits, AcksFit, TaskFits, x
<1>6. UsedFit(w, b, q2, u)
  BY <1>1, <1>3 DEF Fits, UsedFit, TaskFits, x
<1>7. TaskFits(w, b, q2, x, t2, u)
  BY <1>1, <1>3 DEF Fits, TaskFits, x
<1>8. AgesFit(w, b, q2, d, v)
  BY <1>1, <1>2, <1>3 DEF Fits, AgesFit, Aging, TaskFits, x
<1>9. TypesFit(w, b, q2, d, x, t2, u, v)
  BY <1>1, <1>3 DEF Fits, TypesFit
<1> QED BY <1>4, <1>5, <1>6, <1>7, <1>8, <1>9 DEF Fits, q2, x

\* What is queued and held back once an acknowledgement settles.
Released(q, d, a) ==
    IF a \in Traces /\ d # 0
    THEN [patch |-> Merge(Item(q).patch, [NoPatch EXCEPT !.version = d]), ack |-> None,
          fence |-> TRUE]
    ELSE q
KeptBack(d, a) == IF a \in Traces /\ d # 0 THEN 0 ELSE d

\* What is released is newer than all it is merged with.
LEMMA ReleasedIs ==
    ASSUME NEW q \in Items \cup {None}, NEW d \in Versions \ {0}, NEW a \in Traces
    PROVE  /\ Released(q, d, a) \in Items /\ Released(q, d, a) # None
           /\ Ver(Released(q, d, a)) = d /\ Tr(Released(q, d, a)) = Tr(q)
           /\ Status(Released(q, d, a)) = Status(q) /\ AckIn(Released(q, d, a)) = None
<1> DEFINE new == [NoPatch EXCEPT !.version = d]
<1>1. new \in Patches /\ new.version = d /\ new.trace = 0 /\ new.status = None
  BY Nothing DEF Patches
<1> HIDE DEF new
<1>2. Item(q).patch \in Patches
  BY Parts
<1>3. PICK patch \in Patches : /\ patch = Merge(Item(q).patch, new) /\ patch.version = d
                               /\ patch.trace = Tr(q) /\ patch.status = Status(q)
  BY <1>1, <1>2, Merged DEF Tr, Status
<1>4. Released(q, d, a) = [patch |-> patch, ack |-> None, fence |-> TRUE]
  BY <1>3 DEF Released, new
<1> QED BY <1>3, <1>4, Made

\* An acknowledgement settles; its update has gone or is gone with it, or it is late.
LEMMA Settling ==
    ASSUME NEW w, NEW b, NEW q, NEW d, NEW a, NEW t, NEW u, NEW v, NEW st,
           Fits(w, b, q, d, a, t, u, v, st), a # None,
           NEW q1 \in {q, None}, NEW b2 \in {b, None}, NEW t2 \in {t, None}, NEW st2,
           AckIn(q1) # None => IsLate(st2), HasJoined(st2) => HasJoined(st)
    PROVE  Fits(w, b2, Released(q1, d, a), KeptBack(d, a), None, t2, u, v, st2)
<1> DEFINE q2 == Released(q1, d, a)
           d2 == KeptBack(d, a)
<1>1. w \in RowStates /\ b \in Items \cup {None} /\ q \in Items \cup {None}
      /\ d \in Versions /\ v \in Versions /\ a \in Acks /\ t \in Tasks \cup {None}
  BY DEF Fits, TypesFit
<1>2. /\ w.version \in Nat /\ w.trace \in Nat /\ d \in Nat /\ v \in Nat
      /\ Ver(b) \in Nat /\ Tr(b) \in Nat /\ Ver(q) \in Nat /\ Tr(q) \in Nat
  BY <1>1, Parts, Names DEF RowStates, Versions
<1>3. d2 = 0 /\ 0 \in Versions
  BY Names DEF Fits, AcksFit, KeptBack, Versions
<1>4. /\ q2 \in Items \cup {None}
      /\ Tr(q2) = Tr(q1) /\ Status(q2) = Status(q1)
      /\ (AckIn(q2) = None \/ (AckIn(q2) = AckIn(q1) /\ q2 = q1))
      /\ (q2 = q1 \/ (Ver(q2) = d /\ d # 0 /\ a \in Traces /\ AckIn(q2) = None))
  <2>1. CASE a \in Traces /\ d # 0
    BY <1>1, <2>1, ReleasedIs
  <2>2. CASE ~(a \in Traces /\ d # 0)
    BY <1>1, <2>2 DEF Released
  <2> QED BY <2>1, <2>2
<1>5. /\ Tr(q1) \in {Tr(q), 0} /\ Ver(q1) \in {Ver(q), 0} /\ AckIn(q1) \in {AckIn(q), None}
      /\ Tr(b2) \in {Tr(b), 0} /\ Ver(b2) \in {Ver(b), 0} /\ AckIn(b2) \in {AckIn(b), None}
      /\ ItemFits(q1) /\ ItemFits(b2)
  BY Nothing, Names DEF Fits, ItemFits
<1> HIDE DEF q2, d2
<1>6. ItemFits(q2)
  <2>1. CASE q2 = q1
    BY <1>5, <2>1
  <2>2. CASE q2 # q1
    <3>1. AckIn(q) \in {None, a} /\ a \notin Outcomes /\ None \notin Outcomes /\ None \notin Traces
          /\ AckIn(q2) = None
      BY <1>4, <2>2, Names DEF Fits, AcksFit
    <3>2. Status(q1) = None
      BY <1>5, <3>1 DEF ItemFits
    <3> QED BY <1>4, <3>1, <3>2 DEF ItemFits
  <2> QED BY <2>1, <2>2
<1>7. AcksFit(b2, q2, d2, None, t2, st2)
  <2>1. b2 # None => b2 = b
    OBVIOUS
  <2>2. AckIn(q2) # None => AckIn(q2) = AckIn(q)
    BY <1>4, <1>5
  <2> QED BY <1>3, <1>4, <1>5, <2>1, <2>2, Names DEF Fits, AcksFit
<1>8. UsedFit(w, b2, q2, u)
  BY <1>4, <1>5 DEF Fits, UsedFit
<1>9. TaskFits(w, b2, q2, None, t2, u)
  <2>1. t # None => t.trace \in Nat /\ t.trace # None
    BY <1>1, Names DEF Tasks, Traces
  <2> QED BY <1>2, <1>4, <1>5, <2>1 DEF Fits, TaskFits
<1>10. AgesFit(w, b2, q2, d2, v)
  <2>1. d # 0 => w.version <= d /\ Ver(b) <= d /\ d <= v
    BY DEF Fits, AgesFit
  <2> QED BY <1>2, <1>3, <1>4, <1>5, <2>1 DEF Fits, AgesFit, Aging
<1>11. TypesFit(w, b2, q2, d2, None, t2, u, v)
  BY <1>1, <1>3, <1>4 DEF Fits, TypesFit
<1> QED BY <1>5, <1>6, <1>7, <1>8, <1>9, <1>10, <1>11 DEF Fits, q2, d2

\* The update queued for a row goes into the batch.
LEMMA Taking ==
    ASSUME NEW w, NEW q, NEW d, NEW a, NEW t, NEW u, NEW v, NEW st,
           Fits(w, None, q, d, a, t, u, v, st)
    PROVE  Fits(w, q, None, d, a, t, u, v, st)
<1>1. AcksFit(q, None, d, a, t, st)
  BY Nothing, Names DEF Fits, AcksFit
<1>2. UsedFit(w, q, None, u) /\ TaskFits(w, q, None, a, t, u)
  <2>1. t # None => t.trace \in Nat /\ t.trace # None
    BY Names DEF Fits, TypesFit, Tasks, Traces
  <2> QED BY <2>1, Nothing DEF Fits, UsedFit, TaskFits
<1>3. AgesFit(w, q, None, d, v)
  <2>1. w.version \in Nat /\ w.trace \in Nat /\ v \in Nat /\ d \in Nat
    BY Names DEF Fits, TypesFit, RowStates, Versions
  <2> QED BY <2>1, Nothing DEF Fits, AgesFit, Aging
<1>4. TypesFit(w, q, None, d, a, t, u, v) /\ ItemFits(None)
  BY Names, Nothing DEF Fits, TypesFit, ItemFits
<1> QED BY <1>1, <1>2, <1>3, <1>4 DEF Fits

\* The database writes what the batch holds for a row.
LEMMA Writing ==
    ASSUME NEW w, NEW b, NEW q, NEW d, NEW a, NEW t, NEW u, NEW v, NEW st,
           Fits(w, b, q, d, a, t, u, v, st), b # None
    PROVE  /\ Fits(Written(w, b), b, q, d, a, t, u, v, st)
           /\ Written(w, b).status = IF Status(b) # None THEN Status(b) ELSE w.status
           /\ w.version <= Written(w, b).version /\ w.trace <= Written(w, b).trace
           /\ AckIn(b) \in Traces => Written(w, b).trace >= AckIn(b)
<1>1. w \in RowStates /\ b \in Items /\ q \in Items \cup {None} /\ d \in Versions /\ v \in Versions
  BY DEF Fits, TypesFit
<1>2. /\ w.version \in Versions /\ w.trace \in 0..MaxTrace
      /\ w.version \in Nat /\ w.trace \in Nat /\ d \in Nat /\ v \in Nat
      /\ Ver(b) \in Nat /\ Tr(b) \in Nat /\ Ver(q) \in Nat /\ Tr(q) \in Nat
      /\ Ver(b) \in Versions /\ Tr(b) \in 0..MaxTrace
      /\ Status(b) \in Outcomes \cup {None} /\ w.status \in Outcomes \cup {None}
      /\ w.deleted \in BOOLEAN
  BY <1>1, Parts, Names DEF RowStates, Versions
<1>3. Item(b) = b
  BY DEF Item
<1>4. /\ Written(w, b).status = IF Status(b) # None THEN Status(b) ELSE w.status
      /\ Written(w, b).version = IF Ver(b) # 0 THEN Ver(b) ELSE w.version
      /\ Written(w, b).trace = IF Tr(b) # 0 /\ (AckIn(b) \in Traces => Tr(b) > w.trace)
                               THEN Tr(b) ELSE w.trace
      /\ Written(w, b) = [status |-> Written(w, b).status, version |-> Written(w, b).version,
                          trace |-> Written(w, b).trace, deleted |-> w.deleted]
  BY <1>3 DEF Written, Status, Ver, Tr, AckIn
<1> DEFINE w2 == Written(w, b)
<1>5. w2 \in RowStates
  BY <1>2, <1>4 DEF RowStates
<1> HIDE DEF w2
<1>6. Tr(b) # 0 => w.trace <= Tr(b)
  BY DEF Fits, AgesFit, Aging
<1>7. /\ w2.version \in {w.version, Ver(b)} /\ w2.trace \in {w.trace, Tr(b)}
      /\ w.version <= w2.version /\ w.trace <= w2.trace
      /\ Ver(b) # 0 => w2.version = Ver(b)
      /\ Tr(b) # 0 => w2.trace <= Tr(b)
  BY <1>2, <1>4, <1>6 DEF Fits, AgesFit, Aging, w2
<1>8. UsedFit(w2, b, q, u)
  BY <1>7 DEF Fits, UsedFit
<1>9. TaskFits(w2, b, q, a, t, u)
  BY <1>7 DEF Fits, TaskFits
<1>10. AgesFit(w2, b, q, d, v)
  <2>1. Aging(w2.version, Ver(b), Ver(q))
    BY <1>2, <1>7 DEF Fits, AgesFit, Aging
  <2>2. Aging(w2.trace, Tr(b), Tr(q))
    BY <1>2, <1>7 DEF Fits, AgesFit, Aging
  <2> QED BY <1>2, <1>7, <2>1, <2>2 DEF Fits, AgesFit
<1>11. AckIn(b) \in Traces => w2.trace >= AckIn(b)
  <2>1. AckIn(b) \in Traces => Tr(b) = AckIn(b) /\ Tr(b) # 0
    BY DEF Fits, ItemFits, Traces
  <2> QED BY <1>2, <1>4, <2>1 DEF w2
<1> QED BY <1>4, <1>5, <1>7, <1>8, <1>9, <1>10, <1>11 DEF Fits, TypesFit, w2

\* Another writer changes neither the version nor the trace.
LEMMA Rewriting ==
    ASSUME NEW w, NEW b, NEW q, NEW d, NEW a, NEW t, NEW u, NEW v, NEW st,
           Fits(w, b, q, d, a, t, u, v, st),
           NEW w2 \in RowStates, w2.version = w.version, w2.trace = w.trace
    PROVE  Fits(w2, b, q, d, a, t, u, v, st)
BY DEF Fits, TypesFit, UsedFit, TaskFits, AgesFit

\* The batch is over, and nobody waits for what it held for the row.
LEMMA Dropping ==
    ASSUME NEW w, NEW b, NEW q, NEW d, NEW a, NEW t, NEW u, NEW v, NEW st,
           Fits(w, b, q, d, a, t, u, v, st), a # None => AckIn(b) # a
    PROVE  Fits(w, None, q, d, a, t, u, v, st)
<1>1. AcksFit(None, q, d, a, t, st)
  BY Nothing, Names DEF Fits, AcksFit
<1>2. UsedFit(w, None, q, u) /\ TaskFits(w, None, q, a, t, u)
  <2>1. t # None => t.trace \in Nat /\ t.trace # None
    BY Names DEF Fits, TypesFit, Tasks, Traces
  <2> QED BY <2>1, Nothing DEF Fits, UsedFit, TaskFits
<1>3. AgesFit(w, None, q, d, v)
  <2>1. w.version \in Nat /\ w.trace \in Nat /\ v \in Nat /\ d \in Nat
        /\ Ver(q) \in Nat /\ Tr(q) \in Nat
    BY Names, Parts DEF Fits, TypesFit, RowStates, Versions
  <2> QED BY <2>1, Nothing DEF Fits, AgesFit, Aging
<1>4. TypesFit(w, None, q, d, a, t, u, v) /\ ItemFits(None)
  BY Names, Nothing DEF Fits, TypesFit, ItemFits
<1> QED BY <1>1, <1>2, <1>3, <1>4 DEF Fits

\* A failed update goes back under what was queued since.
LEMMA Requeuing ==
    ASSUME NEW w, NEW b, NEW q, NEW d, NEW a, NEW t, NEW u, NEW v, NEW st,
           Fits(w, b, q, d, a, t, u, v, st), b # None,
           NEW live, live = IF AckIn(q) = a THEN a ELSE None,
           AckIn(b) = None \/ AckIn(b) = a, ~(AckIn(b) = None /\ live \in Traces),
           IsLate(st) => HasJoined(st), NEW fence \in BOOLEAN
    PROVE  Fits(w, None, [patch |-> Merge(Item(b).patch, Item(q).patch),
                          ack |-> IF AckIn(b) # None THEN AckIn(b) ELSE live, fence |-> fence],
                d, a, t, u, v, st)
<1> DEFINE ack == IF AckIn(b) # None THEN AckIn(b) ELSE live
           q2 == [patch |-> Merge(Item(b).patch, Item(q).patch), ack |-> ack, fence |-> fence]
<1>1. w \in RowStates /\ b \in Items \cup {None} /\ q \in Items \cup {None}
      /\ d \in Versions /\ v \in Versions /\ a \in Acks \cup {None}
  BY DEF Fits, TypesFit
<1>2. /\ w.version \in Nat /\ w.trace \in Nat /\ d \in Nat /\ v \in Nat
      /\ Ver(b) \in Nat /\ Tr(b) \in Nat /\ Ver(q) \in Nat /\ Tr(q) \in Nat
  BY <1>1, Parts, Names DEF RowStates, Versions
<1>3. ack \in Acks \cup {None}
  BY <1>1, Parts
<1>4. /\ q2 \in Items /\ q2 # None /\ AckIn(q2) = ack
      /\ Ver(q2) = (IF Ver(q) # 0 THEN Ver(q) ELSE Ver(b))
      /\ Tr(q2) = (IF Tr(q) # 0 THEN Tr(q) ELSE Tr(b))
      /\ Status(q2) = (IF Status(q) # None THEN Status(q) ELSE Status(b))
  <2>1. PICK patch \in Patches :
          /\ patch = Merge(Item(b).patch, Item(q).patch)
          /\ patch.version = (IF Ver(q) # 0 THEN Ver(q) ELSE Ver(b))
          /\ patch.trace = (IF Tr(q) # 0 THEN Tr(q) ELSE Tr(b))
          /\ patch.status = (IF Status(q) # None THEN Status(q) ELSE Status(b))
    <3>1. Item(b).patch \in Patches /\ Item(q).patch \in Patches
      BY <1>1, Parts
    <3> QED BY <3>1, Merged DEF Ver, Tr, Status
  <2> HIDE DEF ack
  <2> QED BY <1>3, <2>1, Made
<1>5. ack = a \/ (ack = None /\ AckIn(b) = None /\ (AckIn(q) = None \/ AckIn(q) # a))
  OBVIOUS
<1>6. AckIn(b) # None => AckIn(q) = None
  BY DEF Fits, AcksFit
<1>7. a # None => ack = a
  BY Names DEF Fits, AcksFit
<1>8. ack \in Traces => q = None /\ AckIn(b) = ack
  BY Names DEF Fits, AcksFit
<1>9. ItemFits(q2)
  <2>1. CASE ack \in Outcomes
    <3>1. ack \notin Traces /\ ack # None /\ None \notin Outcomes
      BY <2>1, Names
    <3>2. CASE AckIn(b) # None
      <4>1. Status(q) = None /\ Status(b) = ack
        BY <1>6, <2>1, <3>1, <3>2 DEF Fits, ItemFits
      <4> HIDE DEF ack, q2
      <4>2. Status(q2) = ack /\ AckIn(q2) = ack
        BY <1>4, <3>1, <4>1
      <4> QED BY <2>1, <3>1, <4>2 DEF ItemFits
    <3>3. CASE AckIn(b) = None
      <4>1. AckIn(q) = ack
        BY <3>1, <3>3
      <4>2. Status(q) = ack
        BY <2>1, <4>1 DEF Fits, ItemFits
      <4> HIDE DEF ack, q2
      <4>3. Status(q2) = ack /\ AckIn(q2) = ack
        BY <1>4, <3>1, <4>2
      <4> QED BY <2>1, <3>1, <4>3 DEF ItemFits
    <3> QED BY <3>2, <3>3
  <2>2. CASE ack \in Traces
    <3>1. ack \notin Outcomes /\ ack # None /\ q = None /\ AckIn(b) = ack
      BY <1>8, <2>2, Names
    <3>2. Status(b) = None /\ Ver(b) = 0 /\ Tr(b) = ack
      BY <2>2, <3>1 DEF Fits, ItemFits
    <3>3. Status(q) = None /\ Ver(q) = 0 /\ Tr(q) = 0
      BY <3>1, Nothing
    <3> QED BY <1>4, <3>1, <3>2, <3>3 DEF ItemFits
  <2>3. CASE ack \notin Outcomes /\ ack \notin Traces
    <3>1. ack = None /\ AckIn(b) = None
      BY <1>1, <1>3, <2>3, Parts DEF Acks
    <3>2. AckIn(q) \notin Outcomes
      <4>1. CASE AckIn(q) = None
        BY <4>1, Names
      <4>2. CASE AckIn(q) # None
        <5>1. AckIn(q) # a
          BY <3>1, <4>2, <1>5
        <5> QED BY <4>2, <5>1 DEF Fits, AcksFit
      <4> QED BY <4>1, <4>2
    <3>3. Status(q) = None /\ Status(b) = None
      BY <3>1, <3>2, Names DEF Fits, ItemFits
    <3> QED BY <1>4, <3>1, <3>3, Names DEF ItemFits
  <2> QED BY <2>1, <2>2, <2>3
<1>10. d # 0 => a \in Traces
  BY DEF Fits, AcksFit
<1> HIDE DEF q2, ack
<1>11. AcksFit(None, q2, d, a, t, st)
  BY <1>4, <1>5, <1>7, <1>10, Nothing, Names DEF Fits, AcksFit
<1>12. UsedFit(w, None, q2, u)
  <2>1. AckIn(q2) # None => AckIn(q2) \in {AckIn(b), AckIn(q)}
    BY <1>4 DEF ack
  <2> QED BY <1>4, <2>1, Nothing DEF Fits, UsedFit
<1>13. TaskFits(w, None, q2, a, t, u)
  <2>1. t # None => t.trace \in Nat /\ t.trace # None
    BY Names DEF Fits, TypesFit, Tasks, Traces
  <2>2. AckIn(q2) \in {None, a}
    BY <1>4, <1>5
  <2> QED BY <1>2, <1>4, <2>1, <2>2, Nothing DEF Fits, TaskFits
<1>14. AgesFit(w, None, q2, d, v)
  BY <1>2, <1>4, Nothing DEF Fits, AgesFit, Aging
<1>15. TypesFit(w, None, q2, d, a, t, u, v) /\ ItemFits(None)
  BY <1>4, Names, Nothing DEF Fits, TypesFit, ItemFits
<1> QED BY <1>9, <1>11, <1>12, <1>13, <1>14, <1>15 DEF Fits, q2, ack

\* A failed ordinary update is held back behind a trace queued since.
LEMMA Postponing ==
    ASSUME NEW w, NEW b, NEW q, NEW d, NEW a \in Traces, NEW t, NEW u, NEW v, NEW st,
           Fits(w, b, q, d, a, t, u, v, st), AckIn(b) = None, AckIn(q) = a,
           NEW d2, d2 = IF d = 0 THEN Ver(b) ELSE d
    PROVE  Fits(w, None, q, d2, a, t, u, v, st)
<1>1. w \in RowStates /\ b \in Items \cup {None} /\ q \in Items \cup {None}
      /\ d \in Versions /\ v \in Versions
  BY DEF Fits, TypesFit
<1>2. /\ w.version \in Nat /\ d \in Nat /\ v \in Nat /\ Ver(b) \in Nat /\ Ver(q) \in Nat
      /\ Ver(b) \in Versions
  BY <1>1, Parts, Names DEF RowStates, Versions
<1>3. Ver(q) = 0 /\ a # None
  BY Names DEF Fits, ItemFits
<1>4. Fits(w, None, q, d, a, t, u, v, st)
  BY <1>3, Dropping
<1>5. AgesFit(w, None, q, d2, v)
  BY <1>2, <1>3, <1>4, Nothing DEF Fits, AgesFit, Aging
<1>6. AcksFit(None, q, d2, a, t, st) /\ TypesFit(w, None, q, d2, a, t, u, v)
  BY <1>2, <1>4 DEF Fits, AcksFit, TypesFit
<1> QED BY <1>4, <1>5, <1>6 DEF Fits

\* A task starts with a trace newer than all that were used for the row.
LEMMA Starting ==
    ASSUME NEW w, NEW b, NEW q, NEW d, NEW a, NEW u, NEW v, NEW st,
           Fits(w, b, q, d, a, None, u, v, st),
           NEW x \in Traces, \A y \in u : y \in Traces => y < x,
           NEW t \in Tasks, t.trace = x, t.at = "waiting"
    PROVE  Fits(w, b, q, d, a, t, u \cup {x}, v, st)
<1>1. w \in RowStates /\ b \in Items \cup {None} /\ q \in Items \cup {None}
      /\ a \in Acks \cup {None} /\ u \in SUBSET Acks
  BY DEF Fits, TypesFit
<1>2. /\ w.trace \in 0..MaxTrace /\ Tr(b) \in 0..MaxTrace /\ Tr(q) \in 0..MaxTrace
      /\ x \in Nat /\ x \in Acks /\ x # None /\ x \notin u /\ MaxTrace \in Nat
  BY <1>1, Parts, Names DEF RowStates, Traces, Acks
<1>3. a \notin Traces
  BY DEF Fits, AcksFit
<1>4. AcksFit(b, q, d, a, t, st)
  BY <1>3 DEF Fits, AcksFit
<1>5. UsedFit(w, b, q, u \cup {x})
  BY DEF Fits, UsedFit
<1>6. w.trace <= x /\ Tr(b) <= x /\ Tr(q) <= x
  <2>1. ASSUME NEW y \in 0..MaxTrace, y # 0 => y \in u
        PROVE  y <= x
    <3>1. CASE y = 0
      BY <1>2, <3>1
    <3>2. CASE y # 0
      <4>1. y \in Traces
        BY <1>2, <3>2 DEF Traces
      <4> QED BY <1>2, <2>1, <3>2, <4>1
    <3> QED BY <3>1, <3>2
  <2>2. (w.trace # 0 => w.trace \in u) /\ (Tr(b) # 0 => Tr(b) \in u) /\ (Tr(q) # 0 => Tr(q) \in u)
    BY DEF Fits, UsedFit
  <2> QED BY <1>2, <2>1, <2>2
<1>7. x # a /\ x # AckIn(b) /\ x # AckIn(q)
  BY <1>2, <1>3 DEF Fits, UsedFit
<1>8. TaskFits(w, b, q, a, t, u \cup {x})
  BY <1>6, <1>7 DEF TaskFits
<1>9. TypesFit(w, b, q, d, a, t, u \cup {x}, v)
  BY <1>1, <1>2 DEF Fits, TypesFit
<1> QED BY <1>4, <1>5, <1>8, <1>9 DEF Fits

\* A task goes on where it is.
LEMMA TaskGoesOn ==
    ASSUME NEW w, NEW b, NEW q, NEW d, NEW a, NEW t, NEW u, NEW v, NEW st,
           Fits(w, b, q, d, a, t, u, v, st), t # None,
           NEW t2 \in Tasks, t2.trace = t.trace, t2.at = t.at
    PROVE  Fits(w, b, q, d, a, t2, u, v, st)
<1>1. t2 # None
  BY Names
<1> QED BY <1>1 DEF Fits, TypesFit, AcksFit, TaskFits

\* A task ends, and nobody waits for its trace.
LEMMA TaskGoes ==
    ASSUME NEW w, NEW b, NEW q, NEW d, NEW a, a \notin Traces, NEW t, NEW u, NEW v, NEW st,
           Fits(w, b, q, d, a, t, u, v, st)
    PROVE  Fits(w, b, q, d, a, None, u, v, st)
<1>1. AcksFit(b, q, d, a, None, st)
  BY DEF Fits, AcksFit
<1>2. TaskFits(w, b, q, a, None, u) /\ TypesFit(w, b, q, d, a, None, u, v)
  BY DEF Fits, TypesFit, TaskFits
<1> QED BY <1>1, <1>2 DEF Fits

\* A shutdown goes on.
LEMMA StopGoesOn ==
    ASSUME NEW w, NEW b, NEW q, NEW d, NEW a, NEW t, NEW u, NEW v, NEW st,
           Fits(w, b, q, d, a, t, u, v, st), NEW st2, IsLate(st) => IsLate(st2),
           HasJoined(st2) => HasJoined(st) \/ b = None \/ AckIn(q) \notin Outcomes
    PROVE  Fits(w, b, q, d, a, t, u, v, st2)
<1>1. AcksFit(b, q, d, a, t, st2)
  BY DEF Fits, AcksFit
<1> QED BY <1>1 DEF Fits

\* A shutdown discards what is queued and held back.
LEMMA Emptying ==
    ASSUME NEW w, NEW b, NEW q, NEW d, NEW t, NEW u, NEW v, NEW st,
           Fits(w, b, q, d, None, t, u, v, st)
    PROVE  Fits(w, b, None, 0, None, t, u, v, st)
<1>1. AcksFit(b, None, 0, None, t, st)
  BY Nothing, Names DEF Fits, AcksFit
<1>2. UsedFit(w, b, None, u) /\ TaskFits(w, b, None, None, t, u)
  <2>1. t # None => t.trace \in Nat /\ t.trace # None
    BY Names DEF Fits, TypesFit, Tasks, Traces
  <2> QED BY <2>1, Nothing DEF Fits, UsedFit, TaskFits
<1>3. AgesFit(w, b, None, 0, v)
  <2>1. w.version \in Nat /\ w.trace \in Nat /\ v \in Nat /\ Ver(b) \in Nat /\ Tr(b) \in Nat
    BY Names, Parts DEF Fits, TypesFit, RowStates, Versions
  <2> QED BY <2>1, Nothing DEF Fits, AgesFit, Aging
<1>4. TypesFit(w, b, None, 0, None, t, u, v) /\ ItemFits(None)
  BY Names, Nothing DEF Fits, TypesFit, ItemFits, Versions
<1> QED BY <1>1, <1>2, <1>3, <1>4 DEF Fits

=============================================================================
