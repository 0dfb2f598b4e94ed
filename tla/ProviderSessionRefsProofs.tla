--------------------- MODULE ProviderSessionRefsProofs ---------------------
(***************************************************************************)
(* Proofs about the concurrency slots of a provider, for every set of      *)
(* sessions, attempts and counting processes, and every limit.             *)
(***************************************************************************)
EXTENDS ProviderSessionRefs, FiniteSetTheorems, TLAPS

USE LimitAssumption, NoneAssumption

LEMMA EndsType ==
    ASSUME TypeOK, NEW gone \in SUBSET Sessions, NEW leaking \in SUBSET Sessions,
           EndsLeaking(gone, leaking)
    PROVE  kept' \in [Sessions -> Nat] /\ marks' \in Marks
BY DEF TypeOK, EndsLeaking, Marks

\* What the script leaves in its two keys.
LEMMA TrackKeys ==
    ASSUME TypeOK, NEW s \in Sessions, Track(s)
    PROVE  /\ active' \in [Sessions -> {"absent", "fresh", "stale"}]
           /\ refs' \in [Sessions -> Nat]
           /\ active'[s] = "fresh"
           /\ active[s] # "fresh" => refs'[s] = 1
           /\ active[s] = "fresh" /\ refs[s] = 0 => refs'[s] = 0 /\ ~CountsReference(s)
           /\ active[s] = "fresh" /\ refs[s] > 0 => refs'[s] = refs[s] + 1
           /\ active[s] # "fresh" \/ refs[s] > 0 => CountsReference(s)
           /\ \A t \in Sessions \ {s} :
                 /\ active[t] # "stale" => active'[t] = active[t] /\ refs'[t] = refs[t]
                 /\ active[t] = "stale" => active'[t] = "absent" /\ refs'[t] = 0
<1>1. Cleaned(s) \in [Sessions -> Nat]
  BY DEF Cleaned, TypeOK
<1>2. refs' = [Cleaned(s) EXCEPT ![s] = IF CountsReference(s) THEN @ + 1 ELSE @]
      /\ active' = Joined(s)
  BY DEF Track
<1>3. refs'[s] = IF CountsReference(s) THEN Cleaned(s)[s] + 1 ELSE Cleaned(s)[s]
  BY <1>1, <1>2
<1>4. active[s] # "fresh" => Cleaned(s)[s] = 0
  BY DEF Cleaned, TypeOK
<1>5. active[s] = "fresh" => Cleaned(s)[s] = refs[s]
  BY DEF Cleaned, TypeOK
<1>6. CountsReference(s) <=> active[s] # "fresh" \/ Cleaned(s)[s] > 0
  BY DEF CountsReference
<1>7. refs' \in [Sessions -> Nat]
  BY <1>1, <1>2
<1>8. refs[s] \in Nat
  BY DEF TypeOK
<1>9. \A t \in Sessions \ {s} : refs'[t] = Cleaned(s)[t]
  BY <1>1, <1>2
<1>10. active' \in [Sessions -> {"absent", "fresh", "stale"}] /\ active'[s] = "fresh"
  BY <1>2 DEF Joined, TypeOK
<1>11. \A t \in Sessions \ {s} :
          /\ active[t] # "stale" => active'[t] = active[t] /\ Cleaned(s)[t] = refs[t]
          /\ active[t] = "stale" => active'[t] = "absent" /\ Cleaned(s)[t] = 0
  BY <1>2 DEF Joined, Cleaned, TypeOK
<1> QED
  BY <1>3, <1>4, <1>5, <1>6, <1>7, <1>8, <1>9, <1>10, <1>11

LEMMA BeginType ==
    ASSUME TypeOK, NEW a \in Attempts, NEW s \in Sessions,
           NEW held \in BOOLEAN, NEW admitted \in BOOLEAN, Begin(a, s, held, admitted)
    PROVE  attempt' \in [Attempts -> AttemptStates \cup {None}]
BY DEF TypeOK, Begin, AttemptStates

LEMMA TypesStep ==
    ASSUME TypeOK, [Next]_vars
    PROVE  TypeOK'
<1>1. ASSUME NEW a \in Attempts, NEW s \in Sessions, CheckAndTrack(a, s) PROVE TypeOK'
  <2>1. Stale \in SUBSET Sessions /\ {} \in SUBSET Sessions /\ CountsReference(s) \in BOOLEAN
    BY DEF Stale, CountsReference
  <2>2. attempt' \in [Attempts -> AttemptStates \cup {None}]
    BY <1>1, <2>1, BeginType DEF CheckAndTrack
  <2>3. kept' \in [Sessions -> Nat] /\ marks' \in Marks
    BY <1>1, <2>1, EndsType DEF CheckAndTrack, Ends
  <2> QED
    BY <1>1, <2>2, <2>3, TrackKeys DEF CheckAndTrack, TypeOK
<1>2. ASSUME NEW a \in Attempts, NEW s \in Sessions, FailOpen(a, s) PROVE TypeOK'
  <2>1. Stale \in SUBSET Sessions /\ {s} \in SUBSET Sessions
    BY DEF Stale
  <2>2. attempt' \in [Attempts -> AttemptStates \cup {None}]
    BY <1>2, BeginType DEF FailOpen
  <2>3. CASE UNCHANGED <<active, refs, kept, marks>>
    BY <1>2, <2>2, <2>3 DEF FailOpen, TypeOK
  <2>4. CASE Track(s) /\ EndsLeaking(Stale, {s})
    BY <1>2, <2>1, <2>2, <2>4, EndsType, TrackKeys DEF FailOpen, TypeOK
  <2> QED
    BY <1>2, <2>3, <2>4 DEF FailOpen
<1>3. ASSUME NEW a \in Attempts, GiveUp(a) PROVE TypeOK'
  BY <1>3 DEF TypeOK, GiveUp, AttemptStates
<1>4. ASSUME NEW a \in Attempts, Succeed(a) PROVE TypeOK'
  <2>1. attempt' \in [Attempts -> AttemptStates \cup {None}]
    <3>1. [attempt[a] EXCEPT !.at = "refreshing", !.held = FALSE] \in AttemptStates
      BY <1>4 DEF TypeOK, Succeed, AttemptStates
    <3> QED
      BY <1>4, <3>1 DEF TypeOK, Succeed
  <2>2. kept' \in [Sessions -> Nat]
    BY <1>4 DEF TypeOK, Succeed, AttemptStates
  <2> QED
    BY <1>4, <2>1, <2>2 DEF TypeOK, Succeed
<1>5. ASSUME NEW a \in Attempts, Release(a) PROVE TypeOK'
  <2>0. attempt[a] \in AttemptStates
    BY <1>5 DEF TypeOK, Release
  <2>1. attempt' \in [Attempts -> AttemptStates \cup {None}]
    <3>1. [attempt[a] EXCEPT !.at = "refreshing", !.held = FALSE, !.admitted = FALSE]
             \in AttemptStates
      BY <2>0 DEF AttemptStates
    <3> QED
      BY <1>5, <3>1 DEF TypeOK, Release, Released
  <2>2. attempt[a].session \in Sessions
    BY <1>5 DEF TypeOK, Release, AttemptStates
  <2>3. marks' \in Marks
    <3>1. Freed(attempt[a].session) \in Marks
      BY DEF TypeOK, Freed, Marks
    <3> QED
      BY <1>5, <3>1 DEF TypeOK, Release
  <2>4. active' \in [Sessions -> {"absent", "fresh", "stale"}] /\ refs' \in [Sessions -> Nat]
    BY <1>5, <2>2 DEF TypeOK, Release
  <2> QED
    BY <1>5, <2>1, <2>3, <2>4 DEF TypeOK, Release
<1>6. ASSUME NEW a \in Attempts, Refresh(a) PROVE TypeOK'
  <2>1. attempt' \in [Attempts -> AttemptStates \cup {None}]
    BY <1>6 DEF TypeOK, Refresh
  <2>2. attempt[a].session \in Sessions
    BY <1>6 DEF TypeOK, Refresh, AttemptStates
  <2>3. marks' \in Marks
    BY <1>6, <2>2 DEF TypeOK, Refresh, Marks
  <2> QED
    BY <1>6, <2>1, <2>2, <2>3 DEF TypeOK, Refresh
<1>7. ASSUME NEW a \in Attempts, Abandon(a) PROVE TypeOK'
  <2>1. attempt' \in [Attempts -> AttemptStates \cup {None}]
    BY <1>7 DEF TypeOK, Abandon
  <2>2. attempt[a].session \in Sessions
    BY <1>7 DEF TypeOK, Abandon, AttemptStates
  <2>3. marks' \in Marks
    BY <1>7, <2>2 DEF TypeOK, Abandon, Marks
  <2> QED
    BY <1>7, <2>1, <2>3 DEF TypeOK, Abandon
<1>8. ASSUME NEW w \in Sweepers, SweepStep(w) PROVE TypeOK'
  <2>1. Stale \in SUBSET Sessions /\ {} \in SUBSET Sessions
    BY DEF Stale
  <2>2. CASE List(w) \/ Stop(w)
    BY <2>1, <2>2 DEF TypeOK, List, Stop, SweepStates
  <2>3. CASE Remove(w)
    <3>1. kept' \in [Sessions -> Nat] /\ marks' \in Marks
      BY <2>1, <2>3, EndsType DEF Remove, Ends
    <3> QED
      BY <2>3, <3>1 DEF TypeOK, Remove, SweepStates
  <2>4. CASE DropRefs(w)
    BY <2>4 DEF TypeOK, DropRefs, Marks, SweepStates, Members
  <2>5. CASE \E s \in Sessions : Terminate(w, s)
    <3>1. PICK s \in Sessions : Terminate(w, s)
      BY <2>5
    <3>2. kept' \in [Sessions -> Nat] /\ marks' \in Marks
      BY <2>1, <3>1, EndsType DEF Terminate, Ends
    <3> QED
      BY <3>1, <3>2 DEF TypeOK, Terminate, SweepStates
  <2> QED
    BY <1>8, <2>2, <2>3, <2>4, <2>5 DEF SweepStep
<1>9. ASSUME NEW s \in Sessions, Reject(s) \/ Age(s) PROVE TypeOK'
  <2>1. Stale \in SUBSET Sessions /\ {} \in SUBSET Sessions
    BY DEF Stale
  <2>2. CASE Reject(s)
    <3>1. kept' \in [Sessions -> Nat] /\ marks' \in Marks
      BY <2>1, <2>2, EndsType DEF Reject, Ends
    <3> QED
      BY <2>2, <3>1 DEF TypeOK, Reject, Cleaned
  <2>3. CASE Age(s)
    BY <2>3 DEF TypeOK, Age
  <2> QED
    BY <1>9, <2>2, <2>3
<1>10. CASE KeysExpire
  <2>1. kept' \in [Sessions -> Nat] /\ marks' \in Marks
    BY <1>10, EndsType DEF KeysExpire, Ends
  <2> QED
    BY <1>10, <2>1 DEF TypeOK, KeysExpire
<1>11. CASE UNCHANGED vars
  BY <1>11 DEF TypeOK, vars
<1> QED
  BY <1>1, <1>2, <1>3, <1>4, <1>5, <1>6, <1>7, <1>8, <1>9, <1>10, <1>11
     DEF Next, AttemptStep

\* Type correctness; in particular no reference count is ever negative.
THEOREM Types == Spec => []TypeOK
<1>1. Init => TypeOK
  BY DEF Init, TypeOK, Marks
<1>2. TypeOK /\ [Next]_vars => TypeOK'
  BY TypesStep
<1> QED
  BY <1>1, <1>2, PTL DEF Spec

-----------------------------------------------------------------------------
(* The inductive invariant. *)

AttemptsOK ==
    \A a \in Attempts : attempt[a] # None =>
        /\ attempt[a].at \in {"failed", "unbound"} => attempt[a].held
        /\ attempt[a].at = "refreshing" => ~attempt[a].held

\* What holds of one session until a membership ends under its attempts.
SessionOK(s) ==
    s \notin marks.outlived =>
        /\ Holders(s) # {} \/ kept[s] > 0 => active[s] # "absent"
        /\ refs[s] = 0 \/ refs[s] >= Cardinality(Holders(s)) + kept[s]
        /\ \A a \in Of(s) : attempt[a].admitted =>
              /\ active[s] # "absent"
              /\ refs[s] = 0 \/ attempt[a].held \/ kept[s] > 0

SessionsOK == \A s \in Sessions : SessionOK(s)

IInv == TypeOK /\ AttemptsOK /\ SessionsOK

LEMMA FiniteHolders ==
    ASSUME NEW s \in Sessions
    PROVE  IsFiniteSet(Holders(s)) /\ Cardinality(Holders(s)) \in Nat
<1>1. Holders(s) \subseteq Attempts
  BY DEF Holders, Of
<1> QED
  BY <1>1, FiniteAssumption, FS_Subset, FS_CardinalityType

\* A session whose membership ends is outlived, or has no attempt.
LEMMA Outlived ==
    ASSUME TypeOK, NEW gone \in SUBSET Sessions, NEW leaking \in SUBSET Sessions,
           EndsLeaking(gone, leaking), NEW s \in Sessions, s \notin marks'.outlived
    PROVE  /\ s \in gone => Of(s) = {} /\ kept'[s] = 0
           /\ s \notin gone => s \notin marks.outlived /\ kept'[s] = kept[s]
BY DEF TypeOK, EndsLeaking, Marks

\* Memberships end, references are forgotten, and no attempt moves.
LEMMA Ended ==
    ASSUME IInv, TypeOK', UNCHANGED attempt,
           NEW gone \in SUBSET Sessions, Ends(gone),
           \A s \in Sessions \ gone : /\ active'[s] = "absent" => active[s] = "absent"
                                      /\ refs'[s] \in {refs[s], 0}
    PROVE  SessionsOK'
<1> SUFFICES ASSUME NEW s \in Sessions, s \notin marks'.outlived PROVE SessionOK(s)'
  BY DEF SessionsOK, SessionOK
<1>1. /\ s \in gone => Of(s) = {} /\ kept'[s] = 0
      /\ s \notin gone => s \notin marks.outlived /\ kept'[s] = kept[s]
  BY Outlived DEF Ends, IInv
<1>2. Of(s)' = Of(s) /\ Holders(s)' = Holders(s)
  BY DEF Of, Holders
<1>3. CASE s \in gone
  <2>1. Holders(s) = {} /\ Cardinality(Holders(s)) = 0
    BY <1>1, <1>3, FS_EmptySet DEF Holders
  <2> QED
    BY <1>1, <1>2, <1>3, <2>1 DEF SessionOK, TypeOK
<1>4. CASE s \notin gone
  <2>1. SessionOK(s)
    BY DEF IInv, SessionsOK
  <2> QED
    BY <1>1, <1>2, <1>4, <2>1 DEF SessionOK, IInv, TypeOK
<1> QED
  BY <1>3, <1>4

\* No membership ends, references are forgotten, and no attempt moves.
LEMMA Forgotten ==
    ASSUME IInv, UNCHANGED <<attempt, kept>>, marks'.outlived = marks.outlived,
           \A s \in Sessions : /\ active'[s] = "absent" => active[s] = "absent"
                               /\ refs'[s] \in {refs[s], 0}
    PROVE  SessionsOK'
<1> SUFFICES ASSUME NEW s \in Sessions, s \notin marks.outlived PROVE SessionOK(s)'
  BY DEF SessionsOK, SessionOK
<1>1. Of(s)' = Of(s) /\ Holders(s)' = Holders(s)
  BY DEF Of, Holders
<1>2. SessionOK(s)
  BY DEF IInv, SessionsOK
<1> QED
  BY <1>1, <1>2 DEF SessionOK, IInv, TypeOK

\* The script lets a session in, for an attempt that keeps its place or not.
LEMMA Tracked ==
    ASSUME IInv, TypeOK', NEW a \in Attempts, attempt[a] = None,
           NEW s \in Sessions, Track(s),
           NEW leaking \in SUBSET Sessions, EndsLeaking(Stale, leaking),
           NEW held \in BOOLEAN, NEW admitted \in BOOLEAN, Begin(a, s, held, admitted),
           held = (admitted /\ CountsReference(s))
    PROVE  SessionsOK'
<1> SUFFICES ASSUME NEW t \in Sessions, t \notin marks'.outlived PROVE SessionOK(t)'
  BY DEF SessionsOK, SessionOK
<1>1. TypeOK /\ SessionOK(t)
  BY DEF IInv, SessionsOK
<1>2. /\ t \in Stale => Of(t) = {} /\ kept'[t] = 0
      /\ t \notin Stale => t \notin marks.outlived /\ kept'[t] = kept[t]
  BY <1>1, Outlived DEF Stale
<1>3. /\ Of(t)' = IF t = s THEN Of(t) \cup {a} ELSE Of(t)
      /\ Holders(t)' = IF t = s /\ held THEN Holders(t) \cup {a} ELSE Holders(t)
      /\ a \notin Of(t) /\ a \notin Holders(t)
      /\ \A b \in Of(t) : attempt'[b] = attempt[b]
      /\ t = s => attempt'[a].held = held /\ attempt'[a].admitted = admitted
  <2> DEFINE r == [session |-> s, at |-> "running", held |-> held, admitted |-> admitted]
  <2>1. attempt'[a] = r /\ r # None /\ r.session = s /\ r.held = held /\ r.admitted = admitted
    <3>1. r \in AttemptStates
      BY DEF AttemptStates
    <3>2. r.held = held /\ r.admitted = admitted
      OBVIOUS
    <3> QED
      BY <1>1, <3>1, <3>2 DEF Begin, TypeOK
  <2>2. \A b \in Attempts \ {a} : attempt'[b] = attempt[b]
    BY <1>1 DEF Begin, TypeOK
  <2> HIDE DEF r
  <2>3. a \notin Of(t) /\ a \notin Holders(t)
    BY DEF Of, Holders
  <2>4. Of(t)' = IF t = s THEN Of(t) \cup {a} ELSE Of(t)
    BY <2>1, <2>2, <2>3 DEF Of
  <2>5. Holders(t)' = IF t = s /\ held THEN Holders(t) \cup {a} ELSE Holders(t)
    BY <2>1, <2>2, <2>3, <2>4 DEF Holders, Of
  <2> QED
    BY <2>1, <2>2, <2>3, <2>4, <2>5 DEF Of
<1>4. /\ IsFiniteSet(Holders(t)) /\ Cardinality(Holders(t)) \in Nat
      /\ Of(t) = {} => Holders(t) = {}
      /\ Holders(t) = {} => Cardinality(Holders(t)) = 0
      /\ Cardinality(Holders(t) \cup {a}) = Cardinality(Holders(t)) + 1
  BY <1>3, FiniteHolders, FS_EmptySet, FS_AddElement DEF Holders
<1>5. /\ refs[t] \in Nat /\ kept[t] \in Nat
      /\ Holders(t) # {} => Cardinality(Holders(t)) > 0
      /\ active[t] \in {"absent", "fresh", "stale"} /\ (t \in Stale <=> active[t] = "stale")
  BY <1>1, <1>4, FiniteHolders, FS_EmptySet DEF TypeOK, Stale
<1>6. CASE t # s
  BY <1>1, <1>2, <1>3, <1>4, <1>5, <1>6, TrackKeys DEF SessionOK
<1>7. CASE t = s
  <2>1. /\ active'[t] = "fresh"
        /\ active[t] # "fresh" => refs'[t] = 1
        /\ active[t] = "fresh" /\ refs[t] = 0 => refs'[t] = 0 /\ ~CountsReference(t)
        /\ active[t] = "fresh" /\ refs[t] > 0 => refs'[t] = refs[t] + 1
        /\ active[t] # "fresh" \/ refs[t] > 0 => CountsReference(t)
    BY <1>1, <1>7, TrackKeys
  <2>2. active[t] # "fresh" =>
           Cardinality(Holders(t)) = 0 /\ kept'[t] = 0 /\ \A b \in Of(t) : ~attempt[b].admitted
    <3>1. active[t] # "absent" => active[t] = "stale" \/ active[t] = "fresh"
      BY <1>5, <1>7
    <3>2. CASE active[t] = "stale"
      BY <1>2, <1>4, <1>5, <1>7, <3>2
    <3>3. CASE active[t] = "absent"
      BY <1>1, <1>2, <1>4, <1>5, <1>7, <3>3 DEF SessionOK
    <3> QED
      BY <3>1, <3>2, <3>3
  <2>3. refs'[t] = 0 \/ refs'[t] >= Cardinality(Holders(t)') + kept'[t]
    <3>1. CASE active[t] # "fresh"
      BY <1>3, <1>4, <1>7, <2>1, <2>2, <3>1
    <3>2. CASE active[t] = "fresh"
      <4>1. s \notin marks.outlived /\ kept'[t] = kept[t]
        BY <1>2, <1>5, <1>7, <3>2
      <4>2. refs[t] = 0 \/ refs[t] >= Cardinality(Holders(t)) + kept[t]
        BY <1>1, <1>7, <4>1 DEF SessionOK
      <4>3. Cardinality(Holders(t)') <= Cardinality(Holders(t)) + 1
        BY <1>3, <1>4, <1>7
      <4> QED
        BY <1>3, <1>4, <1>5, <1>7, <2>1, <3>2, <4>1, <4>2, <4>3
    <3> QED
      BY <3>1, <3>2
  <2>4. \A b \in Of(t)' : attempt'[b].admitted => refs'[t] = 0 \/ attempt'[b].held \/ kept'[t] > 0
    <3> SUFFICES ASSUME NEW b \in Of(t)', attempt'[b].admitted
                 PROVE  refs'[t] = 0 \/ attempt'[b].held \/ kept'[t] > 0
      OBVIOUS
    <3>1. CASE b = a
      BY <1>3, <1>5, <1>7, <2>1, <3>1
    <3>2. CASE b # a
      BY <1>1, <1>2, <1>3, <1>5, <1>7, <2>1, <2>2, <3>2 DEF SessionOK
    <3> QED
      BY <3>1, <3>2
  <2> QED
    BY <1>7, <2>1, <2>3, <2>4 DEF SessionOK
<1> QED
  BY <1>6, <1>7

\* An attempt moves on.  Its own session's references follow it, and no other
\* session is touched.
LEMMA AttemptMoved ==
    ASSUME IInv, TypeOK', NEW a \in Attempts,
           GiveUp(a) \/ Succeed(a) \/ Release(a) \/ Refresh(a) \/ Abandon(a)
    PROVE  SessionsOK'
<1> DEFINE own == attempt[a].session
<1>1. /\ TypeOK /\ AttemptsOK /\ SessionsOK
      /\ attempt[a] # None /\ attempt[a] \in AttemptStates /\ own \in Sessions
  BY DEF IInv, TypeOK, GiveUp, Succeed, Release, Refresh, Abandon, AttemptStates
<1>2. \A b \in Attempts \ {a} : attempt'[b] = attempt[b]
  BY <1>1 DEF TypeOK, GiveUp, Succeed, Release, Released, Refresh, Abandon
<1>3. attempt'[a] # None => attempt'[a].session = own
  <2>1. [attempt[a] EXCEPT !.at = "refreshing", !.held = FALSE].session = own
    BY <1>1 DEF AttemptStates
  <2>2. [attempt[a] EXCEPT !.at = "refreshing", !.held = FALSE, !.admitted = FALSE].session = own
    BY <1>1 DEF AttemptStates
  <2>3. \A end \in {"failed", "unbound"} : [attempt[a] EXCEPT !.at = end].session = own
    BY <1>1 DEF AttemptStates
  <2> QED
    BY <1>1, <2>1, <2>2, <2>3
       DEF TypeOK, GiveUp, Succeed, Release, Released, Refresh, Abandon
<1>4. marks'.outlived = marks.outlived
  BY <1>1 DEF TypeOK, Marks, GiveUp, Succeed, Release, Freed, Refresh, Abandon
<1>5. \A t \in Sessions \ {own} : active'[t] = active[t] /\ refs'[t] = refs[t] /\ kept'[t] = kept[t]
  BY <1>1 DEF TypeOK, GiveUp, Succeed, Release, Refresh, Abandon
<1> SUFFICES ASSUME NEW t \in Sessions, t \notin marks.outlived PROVE SessionOK(t)'
  BY <1>4 DEF SessionsOK, SessionOK
<1>6. /\ Holders(t) # {} \/ kept[t] > 0 => active[t] # "absent"
      /\ refs[t] = 0 \/ refs[t] >= Cardinality(Holders(t)) + kept[t]
      /\ \A b \in Of(t) : attempt[b].admitted =>
            active[t] # "absent" /\ (refs[t] = 0 \/ attempt[b].held \/ kept[t] > 0)
  BY <1>1 DEF SessionsOK, SessionOK
<1>7. CASE t # own
  <2>1. a \notin Of(t) /\ a \notin Of(t)'
    BY <1>3, <1>7 DEF Of
  <2>2. Of(t)' = Of(t) /\ \A b \in Of(t) : attempt'[b] = attempt[b]
    BY <1>2, <2>1 DEF Of
  <2>3. Holders(t)' = Holders(t)
    BY <2>2 DEF Holders
  <2> QED
    BY <1>5, <1>6, <1>7, <2>2, <2>3 DEF SessionOK
<1>8. CASE t = own
  <2>1. /\ refs[t] \in Nat /\ kept[t] \in Nat /\ refs'[t] \in Nat /\ kept'[t] \in Nat
        /\ active[t] \in {"absent", "fresh", "stale"}
    BY <1>1 DEF TypeOK
  <2>2. /\ a \in Of(t) /\ Of(t)' \subseteq Of(t)
        /\ a \in Of(t)' <=> attempt'[a] # None
        /\ \A b \in Of(t) \ {a} : attempt'[b] = attempt[b]
    BY <1>1, <1>2, <1>3, <1>8 DEF Of
  <2>3. Holders(t) \ {a} \subseteq Holders(t)' /\ Holders(t)' \subseteq Holders(t) \cup {a}
    BY <2>2 DEF Holders, Of
  <2>4. /\ a \in Holders(t) <=> attempt[a].held
        /\ a \in Holders(t)' <=> attempt'[a] # None /\ attempt'[a].held
    BY <2>2 DEF Holders
  <2> DEFINE others == Holders(t) \ {a}
  <2>5. /\ IsFiniteSet(others) /\ Cardinality(others) \in Nat
        /\ Cardinality(others) = 0 => others = {}
        /\ Cardinality(Holders(t)) = IF attempt[a].held THEN Cardinality(others) + 1
                                     ELSE Cardinality(others)
    <3>1. IsFiniteSet(Holders(t)) /\ IsFiniteSet(others)
      BY FiniteHolders, FS_RemoveElement
    <3>2. Cardinality(others) \in Nat /\ (Cardinality(others) = 0 => others = {})
      BY <3>1, FS_CardinalityType, FS_EmptySet
    <3>3. CASE attempt[a].held
      <4>1. Holders(t) = others \cup {a} /\ a \notin others
        BY <2>4, <3>3
      <4> QED
        BY <3>1, <3>2, <3>3, <4>1, FS_AddElement
    <3>4. CASE ~attempt[a].held
      BY <2>4, <3>1, <3>2, <3>4
    <3> QED
      BY <3>1, <3>2, <3>3, <3>4
  <2>6. /\ attempt'[a] # None /\ attempt'[a].held => Holders(t)' = others \cup {a}
        /\ ~(attempt'[a] # None /\ attempt'[a].held) => Holders(t)' = others
        /\ attempt[a].held => Holders(t) # {} /\ Holders(t) = others \cup {a}
        /\ ~attempt[a].held => Holders(t) = others
    BY <2>3, <2>4
  <2> HIDE DEF others
  <2>7. CASE GiveUp(a)
    <3>1. UNCHANGED <<active, refs, kept>> /\ attempt'[a] # None /\ attempt[a].held
      <4>1. \A end \in {"failed", "unbound"} : [attempt[a] EXCEPT !.at = end] \in AttemptStates
        BY <1>1 DEF AttemptStates
      <4> QED
        BY <1>1, <2>7, <4>1 DEF TypeOK, GiveUp
    <3>2. attempt'[a].held /\ (attempt'[a].admitted => attempt[a].admitted)
      BY <1>1, <2>7 DEF TypeOK, GiveUp, AttemptStates
    <3> QED
      BY <1>6, <2>2, <2>6, <3>1, <3>2 DEF SessionOK
  <2>8. CASE Succeed(a)
    <3>1. UNCHANGED <<active, refs>> /\ attempt'[a] # None
      <4>1. [attempt[a] EXCEPT !.at = "refreshing", !.held = FALSE] \in AttemptStates
        BY <1>1 DEF AttemptStates
      <4> QED
        BY <1>1, <2>8, <4>1 DEF TypeOK, Succeed
    <3>2. kept'[t] = IF attempt[a].held THEN kept[t] + 1 ELSE kept[t]
      BY <1>1, <1>8, <2>8 DEF TypeOK, Succeed
    <3>3. ~attempt'[a].held /\ (attempt'[a].admitted => attempt[a].admitted)
      BY <1>1, <2>8 DEF TypeOK, Succeed, AttemptStates
    <3>4. Holders(t)' # {} \/ kept'[t] > 0 => active'[t] # "absent"
      BY <1>6, <2>1, <2>6, <3>1, <3>2, <3>3
    <3>5. refs'[t] = 0 \/ refs'[t] >= Cardinality(Holders(t)') + kept'[t]
      BY <1>6, <2>1, <2>5, <2>6, <3>1, <3>2, <3>3
    <3>6. \A b \in Of(t)' : attempt'[b].admitted =>
             active'[t] # "absent" /\ (refs'[t] = 0 \/ attempt'[b].held \/ kept'[t] > 0)
      BY <1>6, <2>1, <2>2, <3>1, <3>2, <3>3
    <3> QED
      BY <3>4, <3>5, <3>6 DEF SessionOK
  <2>9. CASE Release(a)
    <3>1. attempt[a].held /\ ~(attempt'[a] # None /\ (attempt'[a].held \/ attempt'[a].admitted))
      <4>1. LET r == [attempt[a] EXCEPT !.at = "refreshing", !.held = FALSE, !.admitted = FALSE]
            IN  r.held = FALSE /\ r.admitted = FALSE
        BY <1>1 DEF AttemptStates
      <4> QED
        BY <1>1, <2>9, <4>1 DEF AttemptsOK, TypeOK, Release, Released
    <3>2. kept' = kept
      BY <2>9 DEF Release
    <3>3. CASE refs[t] - 1 = 0
      <4>1. others = {} /\ kept[t] = 0
        BY <1>6, <2>1, <2>5, <3>1, <3>3
      <4>2. refs'[t] = 0
        BY <1>1, <1>8, <2>1, <2>9, <3>3 DEF TypeOK, Release
      <4>3. \A b \in Of(t)' : ~attempt'[b].admitted
        <5> SUFFICES ASSUME NEW b \in Of(t)', attempt'[b].admitted PROVE FALSE
          OBVIOUS
        <5>1. b # a /\ b \in Of(t) /\ attempt[b].admitted
          BY <2>2, <3>1
        <5>2. b \notin Holders(t)
          BY <2>6, <3>1, <4>1, <5>1
        <5>3. ~attempt[b].held
          BY <5>1, <5>2 DEF Holders
        <5> QED
          BY <1>6, <2>1, <3>3, <4>1, <5>1, <5>3
      <4> QED
        BY <2>1, <2>6, <3>1, <3>2, <4>1, <4>2, <4>3 DEF SessionOK
    <3>4. CASE refs[t] - 1 # 0
      <4>1. active'[t] = active[t] /\ refs'[t] = IF refs[t] = 0 THEN 0 ELSE refs[t] - 1
        BY <1>1, <1>8, <2>1, <2>9, <3>4 DEF TypeOK, Release
      <4>2. Holders(t)' # {} \/ kept'[t] > 0 => active'[t] # "absent"
        BY <1>6, <2>6, <3>1, <3>2, <4>1
      <4>3. refs'[t] = 0 \/ refs'[t] >= Cardinality(Holders(t)') + kept'[t]
        BY <1>6, <2>1, <2>5, <2>6, <3>1, <3>2, <4>1
      <4>4. \A b \in Of(t)' : attempt'[b].admitted =>
               active'[t] # "absent" /\ (refs'[t] = 0 \/ attempt'[b].held \/ kept'[t] > 0)
        BY <1>6, <2>1, <2>2, <3>1, <3>2, <4>1
      <4> QED
        BY <4>2, <4>3, <4>4 DEF SessionOK
    <3> QED
      BY <3>3, <3>4
  <2>10. CASE Refresh(a)
    <3>1. UNCHANGED <<refs, kept>> /\ attempt'[a] = None /\ active'[t] = "fresh"
      BY <1>1, <1>8, <2>10 DEF TypeOK, Refresh
    <3>2. ~attempt[a].held
      BY <1>1, <2>10 DEF AttemptsOK, Refresh
    <3> QED
      BY <1>6, <2>2, <2>6, <3>1, <3>2 DEF SessionOK
  <2>11. CASE Abandon(a)
    <3>1. UNCHANGED <<active, refs, kept>> /\ attempt'[a] = None
      BY <1>1, <2>11 DEF TypeOK, Abandon
    <3>2. Cardinality(Holders(t)') <= Cardinality(Holders(t))
      BY <2>5, <2>6, <3>1
    <3>3. Holders(t)' # {} => Holders(t) # {}
      BY <2>6, <3>1
    <3>4. \A b \in Of(t)' : b \in Of(t) /\ attempt'[b] = attempt[b]
      BY <2>2, <3>1
    <3>5. refs'[t] = 0 \/ refs'[t] >= Cardinality(Holders(t)') + kept'[t]
      BY <1>6, <2>1, <2>5, <2>6, <3>1, <3>2
    <3> QED
      BY <1>6, <3>1, <3>3, <3>4, <3>5 DEF SessionOK
  <2> QED
    BY <2>7, <2>8, <2>9, <2>10, <2>11
<1> QED
  BY <1>7, <1>8

LEMMA AttemptsStep ==
    ASSUME TypeOK, AttemptsOK, [Next]_vars
    PROVE  AttemptsOK'
<1> SUFFICES ASSUME NEW b \in Attempts, attempt'[b] # None
             PROVE  /\ attempt'[b].at \in {"failed", "unbound"} => attempt'[b].held
                    /\ attempt'[b].at = "refreshing" => ~attempt'[b].held
  BY DEF AttemptsOK
<1>1. CASE attempt'[b] = attempt[b]
  BY <1>1 DEF AttemptsOK
<1>2. ASSUME NEW a \in Attempts, NEW s \in Sessions, NEW held \in BOOLEAN,
             NEW admitted \in BOOLEAN, Begin(a, s, held, admitted), attempt'[b] # attempt[b]
      PROVE  attempt'[b].at = "running"
  BY <1>2 DEF Begin, TypeOK
<1>3. ASSUME NEW a \in Attempts, AttemptStep(a), attempt'[b] # attempt[b]
      PROVE  \/ attempt'[b].at = "running"
             \/ attempt'[b].at \in {"failed", "unbound"} /\ attempt'[b].held
             \/ attempt'[b].at = "refreshing" /\ ~attempt'[b].held
  <2>1. ASSUME NEW s \in Sessions, CheckAndTrack(a, s) \/ FailOpen(a, s)
        PROVE  attempt'[b].at = "running"
    <3>1. CountsReference(s) \in BOOLEAN
      BY DEF CountsReference
    <3> QED
      BY <1>2, <1>3, <2>1, <3>1 DEF CheckAndTrack, FailOpen
  <2>2. CASE GiveUp(a)
    BY <1>3, <2>2 DEF GiveUp, TypeOK, AttemptStates
  <2>3. CASE Succeed(a) \/ Release(a)
    <3> DEFINE r == [attempt[a] EXCEPT !.at = "refreshing", !.held = FALSE]
               q == [attempt[a] EXCEPT !.at = "refreshing", !.held = FALSE, !.admitted = FALSE]
    <3>1. /\ r.at = "refreshing" /\ ~r.held
          /\ q.at = "refreshing" /\ ~q.held
      BY <1>3, <2>3 DEF TypeOK, AttemptStates, Succeed, Release
    <3>2. b = a /\ attempt'[b] \in {r, q}
      BY <1>3, <2>3 DEF TypeOK, Succeed, Release, Released
    <3> QED
      BY <3>1, <3>2
  <2>4. CASE Refresh(a) \/ Abandon(a)
    BY <1>3, <2>4 DEF Refresh, Abandon, TypeOK
  <2> QED
    BY <1>3, <2>1, <2>2, <2>3, <2>4 DEF AttemptStep
<1>4. CASE attempt'[b] # attempt[b]
  <2>1. \E a \in Attempts : AttemptStep(a)
    BY <1>4 DEF Next, vars, SweepStep, List, Remove, DropRefs, Stop, Terminate, Reject, Age, KeysExpire
  <2> QED
    BY <1>3, <1>4, <2>1
<1> QED
  BY <1>1, <1>4

LEMMA SessionsStep ==
    ASSUME IInv, TypeOK', [Next]_vars
    PROVE  SessionsOK'
<1>1. ASSUME NEW a \in Attempts, NEW s \in Sessions, CheckAndTrack(a, s) PROVE SessionsOK'
  <2>1. CountsReference(s) \in BOOLEAN /\ {} \in SUBSET Sessions
    BY DEF CountsReference
  <2> QED
    BY <1>1, <2>1, Tracked DEF CheckAndTrack, Ends
<1>2. ASSUME NEW a \in Attempts, NEW s \in Sessions, FailOpen(a, s) PROVE SessionsOK'
  <2>1. CASE Track(s) /\ EndsLeaking(Stale, {s})
    BY <1>2, <2>1, Tracked DEF FailOpen
  <2>2. CASE UNCHANGED <<active, refs, kept, marks>>
    <3> DEFINE r == [session |-> s, at |-> "running", held |-> FALSE, admitted |-> FALSE]
    <3>1. attempt'[a] = r /\ ~r.held /\ ~r.admitted
      BY <1>2 DEF FailOpen, Begin, IInv, TypeOK
    <3> HIDE DEF r
    <3>2. attempt[a] = None /\ \A b \in Attempts \ {a} : attempt'[b] = attempt[b]
      BY <1>2 DEF FailOpen, Begin, IInv, TypeOK
    <3> SUFFICES ASSUME NEW t \in Sessions PROVE SessionOK(t)'
      BY DEF SessionsOK, SessionOK
    <3>3. SessionOK(t) /\ a \notin Of(t)
      BY <3>2 DEF IInv, SessionsOK, Of
    <3>4. \A b \in Of(t) : b \in Of(t)' /\ attempt'[b] = attempt[b]
      BY <3>2, <3>3 DEF Of
    <3>5. \A b \in Of(t)' \ {a} : b \in Of(t)
      BY <3>2 DEF Of
    <3>6. Holders(t)' = Holders(t)
      BY <3>1, <3>3, <3>4, <3>5 DEF Holders
    <3> QED
      BY <2>2, <3>1, <3>3, <3>4, <3>5, <3>6 DEF SessionOK
  <2> QED
    BY <1>2, <2>1, <2>2 DEF FailOpen
<1>3. ASSUME NEW a \in Attempts,
             GiveUp(a) \/ Succeed(a) \/ Release(a) \/ Refresh(a) \/ Abandon(a)
      PROVE  SessionsOK'
  BY <1>3, AttemptMoved
<1>4. ASSUME NEW w \in Sweepers, SweepStep(w) PROVE SessionsOK'
  <2>1. CASE List(w) \/ Stop(w)
    BY <2>1, Forgotten DEF List, Stop
  <2>2. CASE Remove(w)
    <3>1. sweep[w].sessions \cap Stale \in SUBSET Sessions
      BY DEF Stale
    <3> QED
      BY <2>2, <3>1, Ended DEF Remove, IInv, TypeOK
  <2>3. CASE DropRefs(w)
    BY <2>3, Forgotten DEF DropRefs, IInv, TypeOK, Marks
  <2>4. CASE \E s \in Sessions : Terminate(w, s)
    <3>1. PICK s \in Sessions : Terminate(w, s)
      BY <2>4
    <3>2. {s} \in SUBSET Sessions
      OBVIOUS
    <3> QED
      BY <3>1, <3>2, Ended DEF Terminate, IInv, TypeOK
  <2> QED
    BY <1>4, <2>1, <2>2, <2>3, <2>4 DEF SweepStep
<1>5. ASSUME NEW s \in Sessions, Reject(s) \/ Age(s) PROVE SessionsOK'
  <2>1. CASE Reject(s)
    <3>1. Stale \in SUBSET Sessions
      BY DEF Stale
    <3>2. \A t \in Sessions \ Stale : /\ active'[t] = "absent" => active[t] = "absent"
                                      /\ refs'[t] \in {refs[t], 0}
      BY <2>1 DEF Reject, Cleaned, Stale, IInv, TypeOK
    <3> QED
      BY <2>1, <3>1, <3>2, Ended DEF Reject
  <2>2. CASE Age(s)
    BY <2>2, Forgotten DEF Age, IInv, TypeOK
  <2> QED
    BY <1>5, <2>1, <2>2
<1>6. CASE KeysExpire
  <2>1. Sessions \in SUBSET Sessions
    OBVIOUS
  <2> QED
    BY <1>6, <2>1, Ended DEF KeysExpire
<1>7. CASE UNCHANGED vars
  BY <1>7, Forgotten DEF vars
<1> QED
  BY <1>1, <1>2, <1>3, <1>4, <1>5, <1>6, <1>7 DEF Next, AttemptStep

LEMMA InductiveInvariant == Spec => []IInv
<1>1. Init => IInv
  <2> SUFFICES ASSUME Init PROVE IInv
    OBVIOUS
  <2>1. TypeOK /\ AttemptsOK
    BY DEF Init, TypeOK, Marks, AttemptsOK
  <2>2. \A s \in Sessions : Of(s) = {} /\ Holders(s) = {} /\ refs[s] = 0 /\ kept[s] = 0
    BY DEF Init, Of, Holders
  <2> QED
    BY <2>1, <2>2 DEF IInv, SessionsOK, SessionOK
<1>2. IInv /\ [Next]_vars => IInv'
  BY TypesStep, AttemptsStep, SessionsStep DEF IInv
<1> QED
  BY <1>1, <1>2, PTL DEF Spec

\* While an attempt holds a reference to a session, or a success left one, the
\* session is a member of the provider's sorted set: HoldersCounted.
THEOREM SlotsCounted == Spec => []HoldersCounted
<1>1. IInv => HoldersCounted
  BY DEF IInv, SessionsOK, SessionOK, HoldersCounted
<1> QED
  BY <1>1, InductiveInvariant, PTL

\* A session's count is at least the references still to be released, or a
\* cleanup has dropped them all: RefsCover.
THEOREM ReferencesCover == Spec => []RefsCover
<1>1. IInv => RefsCover
  BY DEF IInv, SessionsOK, SessionOK, RefsCover
<1> QED
  BY <1>1, InductiveInvariant, PTL

-----------------------------------------------------------------------------
(* The limit. *)

Checked == Members \ marks.bypassed

LEMMA FiniteChecked == IsFiniteSet(Checked) /\ IsFiniteSet(Members \ Stale)
<1>1. Checked \subseteq Sessions /\ Members \ Stale \subseteq Sessions
  BY DEF Checked, Members
<1> QED
  BY <1>1, FiniteAssumption, FS_Subset

\* No session the limit check let in is added.
LEMMA Shrinks ==
    ASSUME LimitHeld, Checked' \subseteq Checked
    PROVE  LimitHeld'
<1>1. Cardinality(Checked') <= Cardinality(Checked) /\ Cardinality(Checked) \in Nat
      /\ Cardinality(Checked') \in Nat
  BY FiniteChecked, FS_Subset, FS_CardinalityType
<1>2. Cardinality(Checked) <= Limit
  BY DEF LimitHeld, Checked
<1>3. Cardinality(Checked') <= Limit
  BY <1>1, <1>2
<1> QED
  BY <1>3 DEF LimitHeld, Checked

LEMMA TrackLimit ==
    ASSUME TypeOK, LimitHeld, NEW s \in Sessions, Track(s),
           NEW leaking \in SUBSET Sessions, EndsLeaking(Stale, leaking)
    PROVE  LimitHeld'
<1>1. /\ \A t \in Members' \ {s} : t \in Members \ Stale
      /\ marks'.bypassed = marks.bypassed \ Stale
  BY DEF Track, Joined, Members, Stale, EndsLeaking, TypeOK
<1>2. CASE active[s] = "fresh"
  <2>1. s \in Members \ Stale
    BY <1>2 DEF Members, Stale
  <2> QED
    BY <1>1, <2>1, Shrinks DEF Checked
<1>3. CASE active[s] # "fresh"
  <2>1. Cardinality(Members \ Stale) < Limit
    BY <1>3 DEF Track, HasRoom
  <2>2. Checked' \subseteq (Members \ Stale) \cup {s}
    BY <1>1 DEF Checked
  <2>3. /\ IsFiniteSet((Members \ Stale) \cup {s})
        /\ Cardinality((Members \ Stale) \cup {s}) <= Cardinality(Members \ Stale) + 1
        /\ Cardinality(Members \ Stale) \in Nat
        /\ Cardinality((Members \ Stale) \cup {s}) \in Nat
    <3> DEFINE M == Members \ Stale
    <3>1. IsFiniteSet(M)
      BY FiniteChecked
    <3> HIDE DEF M
    <3>2. IsFiniteSet(M \cup {s}) /\ Cardinality(M) \in Nat /\ Cardinality(M \cup {s}) \in Nat
      BY <3>1, FS_AddElement, FS_CardinalityType
    <3>3. Cardinality(M \cup {s}) <= Cardinality(M) + 1
      BY <3>1, <3>2, FS_AddElement
    <3> QED
      BY <3>2, <3>3 DEF M
  <2>4. Cardinality(Checked') <= Cardinality((Members \ Stale) \cup {s})
        /\ Cardinality(Checked') \in Nat
    BY <2>2, <2>3, FS_Subset, FS_CardinalityType
  <2>5. Cardinality(Checked') <= Limit
    BY <2>1, <2>3, <2>4
  <2> QED
    BY <2>5 DEF LimitHeld, Checked
<1> QED
  BY <1>2, <1>3

LEMMA LimitStep ==
    ASSUME IInv, LimitHeld, [Next]_vars
    PROVE  LimitHeld'
<1>1. TypeOK /\ SessionsOK
  BY DEF IInv
<1>2. ASSUME NEW a \in Attempts, NEW s \in Sessions, CheckAndTrack(a, s) \/ FailOpen(a, s)
      PROVE  LimitHeld'
  <2>1. {} \in SUBSET Sessions /\ {s} \in SUBSET Sessions
    OBVIOUS
  <2>2. CASE Track(s) /\ (EndsLeaking(Stale, {}) \/ EndsLeaking(Stale, {s}))
    BY <1>1, <2>1, <2>2, TrackLimit
  <2>3. CASE UNCHANGED <<active, refs, kept, marks>>
    BY <2>3, Shrinks DEF Checked, Members
  <2> QED
    BY <1>2, <2>2, <2>3 DEF CheckAndTrack, FailOpen, Ends
<1>3. ASSUME NEW a \in Attempts, GiveUp(a) \/ Succeed(a) \/ Abandon(a) PROVE LimitHeld'
  <2>1. active' = active /\ marks'.bypassed = marks.bypassed
    BY <1>1, <1>3 DEF GiveUp, Succeed, Abandon, TypeOK, Marks
  <2> QED
    BY <2>1, Shrinks DEF Checked, Members
<1>4. ASSUME NEW a \in Attempts, Release(a) PROVE LimitHeld'
  <2> DEFINE s == attempt[a].session
  <2>1. \/ active' = active /\ marks' = marks
        \/ active' = [active EXCEPT ![s] = "absent"] /\ marks'.bypassed = marks.bypassed \ {s}
    BY <1>1, <1>4 DEF Release, Freed, TypeOK, Marks
  <2>2. Checked' \subseteq Checked
    BY <1>1, <2>1 DEF Checked, Members, TypeOK
  <2> QED
    BY <2>2, Shrinks
<1>5. ASSUME NEW a \in Attempts, Refresh(a) PROVE LimitHeld'
  <2> DEFINE s == attempt[a].session
  <2>1. a \in Of(s) /\ s \in Sessions /\ active' = [active EXCEPT ![s] = "fresh"]
    BY <1>1, <1>5 DEF Refresh, Of, TypeOK, AttemptStates
  <2>2. active[s] = "absent" => s \in marks.outlived \/ ~attempt[a].admitted
    BY <1>1, <2>1 DEF SessionsOK, SessionOK
  <2>3. marks.bypassed \subseteq marks'.bypassed /\ (active[s] = "absent" => s \in marks'.bypassed)
    BY <1>1, <1>5, <2>1, <2>2 DEF Refresh, TypeOK, Marks
  <2>4. Checked' \subseteq Checked
    BY <1>1, <2>1, <2>3 DEF Checked, Members, TypeOK
  <2> QED
    BY <2>4, Shrinks
<1>6. ASSUME NEW w \in Sweepers, SweepStep(w) PROVE LimitHeld'
  <2>1. CASE List(w) \/ Stop(w) \/ DropRefs(w)
    <3>1. active' = active /\ marks'.bypassed = marks.bypassed
      BY <1>1, <2>1 DEF List, Stop, DropRefs, TypeOK, Marks
    <3> QED
      BY <3>1, Shrinks DEF Checked, Members
  <2>2. CASE Remove(w)
    BY <1>1, <2>2, Shrinks DEF Remove, Ends, EndsLeaking, Checked, Members, TypeOK
  <2>3. CASE \E s \in Sessions : Terminate(w, s)
    <3>1. PICK s \in Sessions : Terminate(w, s)
      BY <2>3
    <3>2. active' = [active EXCEPT ![s] = "absent"] /\ marks'.bypassed = marks.bypassed \ {s}
      BY <3>1 DEF Terminate, Ends, EndsLeaking
    <3>3. Checked' \subseteq Checked
      BY <1>1, <3>2 DEF Checked, Members, TypeOK
    <3> QED
      BY <3>3, Shrinks
  <2> QED
    BY <1>6, <2>1, <2>2, <2>3 DEF SweepStep
<1>7. ASSUME NEW s \in Sessions, Reject(s) \/ Age(s) PROVE LimitHeld'
  <2>1. CASE Reject(s)
    BY <1>1, <2>1, Shrinks DEF Reject, Ends, EndsLeaking, Checked, Members, Stale, TypeOK
  <2>2. CASE Age(s)
    BY <1>1, <2>2, Shrinks DEF Age, Checked, Members, TypeOK
  <2> QED
    BY <1>7, <2>1, <2>2
<1>8. CASE KeysExpire
  BY <1>8, Shrinks DEF KeysExpire, Checked, Members
<1>9. CASE UNCHANGED vars
  BY <1>9 DEF vars, LimitHeld, Members
<1> QED
  BY <1>2, <1>3, <1>4, <1>5, <1>6, <1>7, <1>8, <1>9 DEF Next, AttemptStep

\* The sessions the limit check let in are never more than the limit:
\* LimitHeld.  It needs the invariant above: an admitted attempt whose
\* membership has not ended is still a member when its success renews it.
THEOREM LimitRespected == Spec => []LimitHeld
<1>1. Init => LimitHeld
  <2> SUFFICES ASSUME Init PROVE LimitHeld
    OBVIOUS
  <2>1. Members \ marks.bypassed = {}
    BY DEF Init, Members
  <2> QED
    BY <2>1, FS_EmptySet DEF LimitHeld
<1>2. IInv /\ LimitHeld /\ [Next]_vars => LimitHeld'
  BY LimitStep
<1> QED
  BY <1>1, <1>2, InductiveInvariant, PTL DEF Spec
-----------------------------------------------------------------------------
(* The count is exact, until something the marks name befalls the session. *)

Lost == marks.outlived \cup marks.leaked \cup marks.dropped

Exact(s) ==
    s \notin Lost /\ active[s] # "absent" => refs[s] = Cardinality(Holders(s)) + kept[s]

AllExact == \A s \in Sessions : Exact(s)

\* No attempt moves, and what is still a member was one, with the same count.
LEMMA ExactStays ==
    ASSUME AllExact, UNCHANGED attempt,
           \A s \in Sessions : s \notin Lost' /\ active'[s] # "absent" =>
               s \notin Lost /\ active[s] # "absent" /\ refs'[s] = refs[s] /\ kept'[s] = kept[s]
    PROVE  AllExact'
<1>1. \A s \in Sessions : Holders(s)' = Holders(s)
  BY DEF Holders, Of
<1> QED BY <1>1 DEF AllExact, Exact

\* Memberships end: only what goes on being a member elsewhere is still counted.
LEMMA ExactEnds ==
    ASSUME IInv, AllExact, UNCHANGED attempt, NEW gone \in SUBSET Sessions, Ends(gone),
           \A s \in gone : active'[s] = "absent",
           \A s \in Sessions \ gone : active'[s] = active[s] /\ refs'[s] = refs[s]
    PROVE  AllExact'
<1>1. \A s \in Sessions \ gone : kept'[s] = kept[s] /\ (s \notin Lost' => s \notin Lost)
  BY DEF Ends, EndsLeaking, Lost, IInv, TypeOK, Marks
<1> QED BY <1>1, ExactStays

\* The script lets a session in: its count starts at one, or takes one more exactly
\* when the attempt that entered is to give a reference back.
LEMMA ExactTracked ==
    ASSUME IInv, TypeOK', AllExact, NEW a \in Attempts, attempt[a] = None,
           NEW s \in Sessions, Track(s),
           NEW leaking \in SUBSET Sessions, EndsLeaking(Stale, leaking),
           NEW held \in BOOLEAN, NEW admitted \in BOOLEAN, Begin(a, s, held, admitted),
           held = CountsReference(s) \/ s \in leaking
    PROVE  AllExact'
<1> SUFFICES ASSUME NEW t \in Sessions, t \notin Lost', active'[t] # "absent"
             PROVE  refs'[t] = Cardinality(Holders(t)') + kept'[t]
  BY DEF AllExact, Exact
<1>1. TypeOK /\ SessionOK(t) /\ Exact(t)
  BY DEF IInv, SessionsOK, AllExact
<1>2. /\ t \in Stale => Of(t) = {} /\ kept'[t] = 0
      /\ t \notin Stale => t \notin marks.outlived /\ kept'[t] = kept[t]
  BY <1>1, Outlived DEF Stale, Lost
<1>3. t \notin leaking /\ (t \notin Stale => t \notin Lost)
  BY <1>1 DEF EndsLeaking, Lost, TypeOK, Marks
<1>4. /\ a \notin Holders(t)
      /\ Holders(t)' = IF t = s /\ held THEN Holders(t) \cup {a} ELSE Holders(t)
  <2> DEFINE r == [session |-> s, at |-> "running", held |-> held, admitted |-> admitted]
  <2>1. attempt'[a] = r /\ r # None /\ r.session = s /\ r.held = held
    <3>1. r \in AttemptStates
      BY DEF AttemptStates
    <3>2. r.held = held
      OBVIOUS
    <3> QED BY <1>1, <3>1, <3>2 DEF Begin, TypeOK
  <2>2. \A b \in Attempts \ {a} : attempt'[b] = attempt[b]
    BY <1>1 DEF Begin, TypeOK
  <2> HIDE DEF r
  <2> QED BY <2>1, <2>2 DEF Holders, Of
<1>5. /\ Cardinality(Holders(t)) \in Nat
      /\ Holders(t) = {} => Cardinality(Holders(t)) = 0
      /\ Cardinality(Holders(t) \cup {a}) = Cardinality(Holders(t)) + 1
      /\ Of(t) = {} => Holders(t) = {}
  BY <1>4, FiniteHolders, FS_EmptySet, FS_AddElement DEF Holders
<1>6. /\ refs[t] \in Nat /\ kept[t] \in Nat
      /\ active[t] \in {"absent", "fresh", "stale"} /\ (t \in Stale <=> active[t] = "stale")
  BY <1>1 DEF TypeOK, Stale
<1>7. CASE t # s
  <2>1. active[t] = "fresh" /\ refs'[t] = refs[t] /\ Holders(t)' = Holders(t)
    BY <1>1, <1>4, <1>6, <1>7, TrackKeys
  <2> QED BY <1>1, <1>2, <1>3, <1>6, <2>1 DEF Exact
<1>8. CASE t = s
  <2>1. /\ active[t] # "fresh" => refs'[t] = 1
        /\ active[t] = "fresh" /\ refs[t] = 0 => refs'[t] = 0 /\ ~CountsReference(t)
        /\ active[t] = "fresh" /\ refs[t] > 0 => refs'[t] = refs[t] + 1
        /\ active[t] # "fresh" \/ refs[t] > 0 => CountsReference(t)
    BY <1>1, <1>8, TrackKeys
  <2>2. held = CountsReference(t)
    BY <1>3, <1>8
  <2>3. CASE active[t] = "fresh"
    <3>1. refs[t] = Cardinality(Holders(t)) + kept[t] /\ kept'[t] = kept[t]
      BY <1>1, <1>2, <1>3, <1>6, <2>3 DEF Exact
    <3>2. CASE refs[t] = 0
      BY <1>4, <1>5, <1>6, <2>1, <2>2, <2>3, <3>1, <3>2
    <3>3. CASE refs[t] > 0
      BY <1>4, <1>5, <1>6, <1>8, <2>1, <2>2, <2>3, <3>1, <3>3
    <3> QED BY <1>6, <3>2, <3>3
  <2>4. CASE active[t] # "fresh"
    <3>1. Cardinality(Holders(t)) = 0 /\ kept'[t] = 0
      BY <1>1, <1>2, <1>5, <1>6, <2>4 DEF SessionOK
    <3> QED BY <1>4, <1>5, <1>8, <2>1, <2>2, <2>4, <3>1
  <2> QED BY <2>3, <2>4
<1> QED BY <1>7, <1>8

\* An attempt that gives up still holds its reference; by any other step it holds
\* none afterwards.
LEMMA HoldersMove ==
    ASSUME IInv, TypeOK', NEW a \in Attempts,
           GiveUp(a) \/ Succeed(a) \/ Release(a) \/ Refresh(a) \/ Abandon(a)
    PROVE  /\ attempt[a].session \in Sessions
           /\ attempt[a].held <=> a \in Holders(attempt[a].session)
           /\ \A t \in Sessions : Holders(t)' = IF GiveUp(a) THEN Holders(t) ELSE Holders(t) \ {a}
<1>1. /\ TypeOK /\ AttemptsOK
      /\ attempt[a] # None /\ attempt[a] \in AttemptStates /\ attempt[a].session \in Sessions
  BY DEF IInv, TypeOK, GiveUp, Succeed, Release, Refresh, Abandon, AttemptStates
<1>2. attempt[a].held <=> a \in Holders(attempt[a].session)
  BY <1>1 DEF Holders, Of
<1>3. \A b \in Attempts \ {a} : attempt'[b] = attempt[b]
  BY <1>1 DEF TypeOK, GiveUp, Succeed, Release, Released, Refresh, Abandon
<1>4. \A t \in Sessions : \A b \in Attempts \ {a} : b \in Holders(t)' <=> b \in Holders(t)
  BY <1>3 DEF Holders, Of
<1>5. CASE GiveUp(a)
  <2>1. PICK end \in {"failed", "unbound"} : attempt'[a] = [attempt[a] EXCEPT !.at = end]
    BY <1>1, <1>5 DEF GiveUp, TypeOK
  <2>2. /\ attempt'[a].session = attempt[a].session /\ attempt'[a].held = attempt[a].held
        /\ attempt'[a] # None
    BY <1>1, <2>1 DEF AttemptStates
  <2>3. \A t \in Sessions : a \in Holders(t)' <=> a \in Holders(t)
    BY <1>1, <2>2 DEF Holders, Of
  <2>4. \A t \in Sessions : Holders(t)' \subseteq Attempts /\ Holders(t) \subseteq Attempts
    BY DEF Holders, Of
  <2> QED BY <1>1, <1>2, <1>4, <1>5, <2>3, <2>4
<1>6. CASE ~GiveUp(a)
  <2>1. attempt'[a] = None \/ ~attempt'[a].held
    <3> DEFINE r == [attempt[a] EXCEPT !.at = "refreshing", !.held = FALSE]
               q == [attempt[a] EXCEPT !.at = "refreshing", !.held = FALSE, !.admitted = FALSE]
    <3>1. ~r.held /\ ~q.held
      BY <1>1 DEF AttemptStates
    <3>2. attempt'[a] \in {None, r, q}
      BY <1>1, <1>6 DEF TypeOK, Succeed, Release, Released, Refresh, Abandon
    <3> QED BY <3>1, <3>2
  <2>2. \A t \in Sessions : a \notin Holders(t)'
    BY <2>1 DEF Holders, Of
  <2>3. \A t \in Sessions : Holders(t)' \subseteq Attempts /\ Holders(t) \subseteq Attempts
    BY DEF Holders, Of
  <2> QED BY <1>1, <1>2, <1>4, <1>6, <2>2, <2>3
<1> QED BY <1>5, <1>6

\* The count follows the reference of the attempt: a success moves it to those that
\* are kept, a release takes it off, and whoever drops one marks the session.
LEMMA ExactMoved ==
    ASSUME IInv, TypeOK', AllExact, NEW a \in Attempts,
           GiveUp(a) \/ Succeed(a) \/ Release(a) \/ Refresh(a) \/ Abandon(a)
    PROVE  AllExact'
<1> SUFFICES ASSUME NEW t \in Sessions, t \notin Lost', active'[t] # "absent"
             PROVE  refs'[t] = Cardinality(Holders(t)') + kept'[t]
  BY DEF AllExact, Exact
<1>1. /\ TypeOK /\ AttemptsOK /\ SessionOK(t) /\ Exact(t)
      /\ attempt[a] # None /\ attempt[a] \in AttemptStates /\ attempt[a].session \in Sessions
  BY DEF IInv, TypeOK, SessionsOK, AllExact, GiveUp, Succeed, Release, Refresh, Abandon,
     AttemptStates
<1>2. /\ refs[t] \in Nat /\ kept[t] \in Nat
      /\ active[t] \in {"absent", "fresh", "stale"}
  BY <1>1 DEF TypeOK
<1>3. PICK own \in Sessions : own = attempt[a].session
  BY <1>1
<1>4. /\ attempt[a].held <=> a \in Holders(own)
      /\ t # own => a \notin Holders(t)
  BY <1>3, HoldersMove DEF Holders, Of
<1>5. Holders(t)' = IF GiveUp(a) THEN Holders(t) ELSE Holders(t) \ {a}
  BY HoldersMove
<1>6. /\ Cardinality(Holders(t)) \in Nat /\ Cardinality(Holders(t) \ {a}) \in Nat
      /\ Cardinality(Holders(t)) = Cardinality(Holders(t) \ {a})
                                     + (IF a \in Holders(t) THEN 1 ELSE 0)
  <2>1. IsFiniteSet(Holders(t)) /\ Cardinality(Holders(t)) \in Nat
    BY FiniteHolders
  <2>2. CASE a \in Holders(t)
    <3>1. PICK others : others = Holders(t) \ {a}
      OBVIOUS
    <3>2. IsFiniteSet(others) /\ Cardinality(others) \in Nat
      BY <2>1, <3>1, FS_RemoveElement, FS_CardinalityType
    <3>3. a \notin others /\ others \cup {a} = Holders(t)
      BY <2>2, <3>1
    <3>4. Cardinality(others \cup {a}) = Cardinality(others) + 1
      BY <3>2, <3>3, FS_AddElement
    <3> QED BY <2>1, <2>2, <3>1, <3>2, <3>3, <3>4
  <2>3. CASE a \notin Holders(t)
    <3>1. Holders(t) \ {a} = Holders(t)
      BY <2>3
    <3> QED BY <2>1, <2>3, <3>1
  <2> QED BY <2>2, <2>3
<1>7. CASE GiveUp(a)
  <2>1. UNCHANGED <<active, refs, kept, marks>>
    BY <1>7 DEF GiveUp
  <2> QED BY <1>1, <1>5, <1>7, <2>1 DEF Exact, Lost
<1>8. CASE Succeed(a)
  <2>1. UNCHANGED <<active, refs, marks>> /\ attempt[a].at = "running" /\ ~GiveUp(a)
    <3>1. \A end \in {"failed", "unbound"} :
             [attempt[a] EXCEPT !.at = end].at # [attempt[a] EXCEPT !.at = "refreshing", !.held = FALSE].at
      BY <1>1 DEF AttemptStates
    <3> QED BY <1>1, <1>8, <3>1 DEF Succeed, GiveUp, TypeOK
  <2>2. t \notin Lost /\ refs[t] = Cardinality(Holders(t)) + kept[t] /\ t \notin marks.outlived
    BY <1>1, <2>1 DEF Exact, Lost
  <2>3. kept'[t] = IF t = own /\ attempt[a].held THEN kept[t] + 1 ELSE kept[t]
    BY <1>1, <1>3, <1>8, <2>2 DEF Succeed, TypeOK
  <2> QED BY <1>2, <1>4, <1>5, <1>6, <2>1, <2>2, <2>3
<1>9. CASE Release(a)
  <2>1. attempt[a].held /\ kept' = kept /\ ~GiveUp(a)
    BY <1>1, <1>9 DEF Release, AttemptsOK, GiveUp
  <2>2. CASE t # own
    <3>0. active'[t] = active[t] /\ refs'[t] = refs[t]
      BY <1>1, <1>3, <1>9, <2>2 DEF Release, TypeOK
    <3>1. t \notin Lost
      <4>1. marks' = marks \/ marks' = Freed(own)
        BY <1>3, <1>9 DEF Release
      <4>2. /\ Freed(own).outlived = marks.outlived
            /\ Freed(own).leaked = marks.leaked \ {own}
            /\ Freed(own).dropped = marks.dropped \ {own}
        BY <1>1 DEF Freed, TypeOK, Marks
      <4> QED BY <2>2, <4>1, <4>2 DEF Lost
    <3> QED BY <1>1, <1>2, <1>4, <1>5, <1>6, <2>1, <2>2, <3>0, <3>1 DEF Exact
  <2>3. CASE t = own
    <3>1. refs[t] # 1
      BY <1>1, <1>3, <1>9, <2>3 DEF Release, TypeOK
    <3>2. /\ UNCHANGED <<active, marks>>
          /\ refs'[t] = IF refs[t] = 0 THEN 0 ELSE refs[t] - 1
      BY <1>1, <1>2, <1>3, <1>9, <2>3, <3>1 DEF Release, TypeOK
    <3>3. refs[t] = Cardinality(Holders(t)) + kept[t]
      BY <1>1, <3>2 DEF Exact, Lost
    <3> QED BY <1>2, <1>4, <1>5, <1>6, <2>1, <2>3, <3>2, <3>3
  <2> QED BY <2>2, <2>3
<1>10. CASE Refresh(a)
  <2>1. ~attempt[a].held /\ ~GiveUp(a) /\ UNCHANGED <<refs, kept>>
    BY <1>1, <1>10 DEF Refresh, AttemptsOK, GiveUp
  <2>2. active[t] # "absent" /\ t \notin Lost
    BY <1>1, <1>3, <1>10 DEF Refresh, Lost, TypeOK, Marks
  <2> QED BY <1>1, <1>2, <1>4, <1>5, <1>6, <2>1, <2>2 DEF Exact
<1>11. CASE Abandon(a)
  <2>1. UNCHANGED <<active, refs, kept>> /\ ~GiveUp(a)
    <3>1. \A end \in {"failed", "unbound"} : [attempt[a] EXCEPT !.at = end] # None
      BY <1>1 DEF AttemptStates
    <3> QED BY <1>1, <1>11, <3>1 DEF Abandon, GiveUp, TypeOK
  <2>2. t \notin Lost
    BY <1>1, <1>11 DEF Abandon, Lost, TypeOK, Marks
  <2>3. t = own => ~attempt[a].held
    BY <1>1, <1>3, <1>11, <2>2 DEF Abandon, Lost, TypeOK, Marks
  <2> QED BY <1>1, <1>2, <1>4, <1>5, <1>6, <2>1, <2>2, <2>3 DEF Exact
<1> QED BY <1>7, <1>8, <1>9, <1>10, <1>11

\* Every step keeps the counts exact.
LEMMA ExactStep ==
    ASSUME IInv, TypeOK', AllExact, [Next]_vars
    PROVE  AllExact'
<1>1. ASSUME NEW a \in Attempts, NEW s \in Sessions, CheckAndTrack(a, s) PROVE AllExact'
  <2>1. CountsReference(s) \in BOOLEAN /\ {} \in SUBSET Sessions
    BY DEF CountsReference
  <2> QED BY <1>1, <2>1, ExactTracked DEF CheckAndTrack, Ends
<1>2. ASSUME NEW a \in Attempts, NEW s \in Sessions, FailOpen(a, s) PROVE AllExact'
  <2>1. CASE Track(s) /\ EndsLeaking(Stale, {s})
    BY <1>2, <2>1, ExactTracked DEF FailOpen
  <2>2. CASE UNCHANGED <<active, refs, kept, marks>>
    <3>1. attempt'[a].held = FALSE /\ \A b \in Attempts \ {a} : attempt'[b] = attempt[b]
      BY <1>2 DEF FailOpen, Begin, IInv, TypeOK
    <3>2. attempt[a] = None
      BY <1>2 DEF FailOpen
    <3>3. \A t \in Sessions : Holders(t)' = Holders(t)
      BY <3>1, <3>2 DEF Holders, Of
    <3> QED BY <2>2, <3>3 DEF AllExact, Exact, Lost
  <2> QED BY <1>2, <2>1, <2>2 DEF FailOpen
<1>3. ASSUME NEW w \in Sweepers, SweepStep(w) PROVE AllExact'
  <2>1. CASE List(w) \/ Stop(w)
    BY <2>1, ExactStays DEF List, Stop, Lost
  <2>2. CASE Remove(w)
    <3>1. PICK gone \in SUBSET Sessions : gone = sweep[w].sessions \cap Stale
      BY DEF Stale
    <3> QED BY <2>2, <3>1, ExactEnds DEF Remove, IInv, TypeOK
  <2>3. CASE DropRefs(w)
    <3>1. sweep[w].sessions \subseteq Sessions
      BY <2>3 DEF DropRefs, IInv, TypeOK, SweepStates
    <3>2. \A t \in Sessions : t \in sweep[w].sessions /\ active[t] # "absent" => t \in Lost'
      BY <2>3, <3>1 DEF DropRefs, Lost, Members, IInv, TypeOK, Marks
    <3>3. Lost \subseteq Lost'
      BY <2>3 DEF DropRefs, Lost, IInv, TypeOK, Marks
    <3>4. \A t \in Sessions : t \notin sweep[w].sessions => refs'[t] = refs[t]
      BY <2>3 DEF DropRefs
    <3> QED BY <2>3, <3>2, <3>3, <3>4, ExactStays DEF DropRefs
  <2>4. CASE \E s \in Sessions : Terminate(w, s)
    <3>1. PICK s \in Sessions : Terminate(w, s)
      BY <2>4
    <3>2. {s} \in SUBSET Sessions
      OBVIOUS
    <3> QED BY <3>1, <3>2, ExactEnds DEF Terminate, IInv, TypeOK
  <2> QED BY <1>3, <2>1, <2>2, <2>3, <2>4 DEF SweepStep
<1>4. ASSUME NEW s \in Sessions, Reject(s) PROVE AllExact'
  <2>1. Stale \in SUBSET Sessions /\ Ends(Stale) /\ UNCHANGED attempt
    BY <1>4 DEF Stale, Reject
  <2>2. /\ \A t \in Stale : active'[t] = "absent"
        /\ \A t \in Sessions \ Stale : active'[t] = active[t]
        /\ \A t \in Sessions \ Stale : refs'[t] = IF t = s /\ active[s] = "absent" THEN 0 ELSE refs[t]
    BY <1>4 DEF Reject, Cleaned, Stale
  <2>3. \A t \in Sessions \ Stale : kept'[t] = kept[t] /\ (t \notin Lost' => t \notin Lost)
    BY <2>1 DEF Ends, EndsLeaking, Lost, IInv, TypeOK, Marks
  <2> QED BY <2>1, <2>2, <2>3, ExactStays
<1>5. ASSUME NEW s \in Sessions, Age(s) PROVE AllExact'
  BY <1>5, ExactStays DEF Age, Lost, IInv, TypeOK
<1>6. CASE KeysExpire
  <2>1. Sessions \in SUBSET Sessions
    OBVIOUS
  <2> QED BY <1>6, <2>1, ExactEnds DEF KeysExpire
<1>7. CASE UNCHANGED vars
  BY <1>7, ExactStays DEF vars, Lost
<1> QED BY <1>1, <1>2, <1>3, <1>4, <1>5, <1>6, <1>7, ExactMoved DEF Next, AttemptStep

\* The release of the last reference to a session takes it out of the sorted set at
\* once, for any sessions, attempts, cleanups and limit, unless a membership ended
\* under an attempt, a reference leaked, or a cleanup dropped one: SlotFreed.
THEOREM LastReleaseFrees == Spec => SlotFreed
<1>1. Init => AllExact
  BY DEF Init, AllExact, Exact
<1>2. IInv /\ IInv' /\ AllExact /\ [Next]_vars => AllExact'
  BY ExactStep DEF IInv
<1>3. IInv /\ AllExact =>
         (\A a \in Attempts : Release(a) =>
             LET s == attempt[a].session
             IN  Last(a) => \/ active'[s] = "absent"
                            \/ s \in marks.outlived \cup marks.leaked \cup marks.dropped)
  <2> SUFFICES ASSUME IInv, AllExact, NEW a \in Attempts, Release(a), Last(a),
                      attempt[a].session \notin Lost
               PROVE  active'[attempt[a].session] = "absent"
    BY DEF Lost
  <2>1. PICK s \in Sessions : s = attempt[a].session
    BY DEF Release, IInv, TypeOK, AttemptStates
  <2>2. Holders(s) = {a} /\ kept[s] = 0 /\ s \notin Lost
    BY <2>1 DEF Last
  <2>3. active[s] # "absent"
    BY <2>2 DEF IInv, SessionsOK, SessionOK, Lost
  <2>4. Cardinality(Holders(s)) = 1
    BY <2>2, FS_Singleton
  <2>5. refs[s] = 1
    BY <2>2, <2>3, <2>4 DEF AllExact, Exact
  <2> QED BY <2>1, <2>5 DEF Release, IInv, TypeOK
<1> QED BY <1>1, <1>2, <1>3, InductiveInvariant, PTL DEF Spec, SlotFreed
=============================================================================
