---------------------------- MODULE ReplayProofs ----------------------------
(***************************************************************************)
(* Proofs about the replay of one response, for any number of requests,    *)
(* any responses, any lease shorter than the life of the entry and any     *)
(* page: the entry in Redis, the row in Postgres and what a subscriber was *)
(* sent are always parts of one response.                                  *)
(***************************************************************************)
EXTENDS Replay, SequenceTheorems, TLAPS

\* The first n chunks of the response request r gets, and those from there up to m.
Said(r, n) == SubSeq(Says[r], 1, n)
Part(r, n, m) == SubSeq(Says[r], n + 1, m)

Writing == {"open", "completing"}
Finishing == {"rebuild", "persist", "publish"}
Reading == {"first", "read", "peek", "durable", "gone", "serve", "closed", "errored"}

\* Where a spool stands: what it sent, rebuilt, and found in the row w.
SpoolFits(r, q, w) ==
    /\ q.at \in Writing \cup Finishing => q.count = q.sent /\ q.sent <= Len(Says[r])
    /\ q.at \in Writing /\ ~q.begun => q.sent = 0
    /\ q.at \in Finishing => q.sent = Len(Says[r])
    /\ q.at = "persist" => q.text = Says[r]
    /\ q.at = "publish" => w # None /\ w.text = Says[r]

\* What a subscriber sent, and how many chunks it expects.
ReaderFits(q) ==
    q.at \in Reading =>
        /\ IsPrefix(q.out, Says[q.gen])
        /\ q.count # None => q.count = Len(Says[q.gen])
        /\ q.at = "first" => q.count # None
        /\ q.at \in {"serve", "closed"} => q.out = Says[q.gen]

\* An owner before its first write, and one that has written.
Bare(q) == q.at = "owner" \/ (q.at \in Writing /\ ~q.begun)
Begun(q) == q.at \in Writing /\ q.begun

\* An owner that has prepared finds its own entry, or none, as long as it holds
\* the lease, which the entry outlives.
EntryFits(r, q, o, m, l) ==
    o # None /\ o.token = r =>
        /\ Bare(q) => m = None /\ l = None
        /\ Begun(q) \/ q.at \in Finishing =>
              /\ m # None /\ m.gen = r /\ m.status = "owning" /\ m.count = q.count
              /\ m.ttl > o.ttl
              /\ l # None => l.text = Said(r, q.sent)
        /\ Begun(q) => IF q.sent = 0 THEN l = None ELSE l # None /\ l.ttl > o.ttl

MetaFits(m) ==
    m # None => /\ m.status # "aborted" => m.gen \in Requests
                /\ m.status = "completed" => m.count = Len(Says[m.gen])

RowFits(w) == w # None => w.text = Says[w.source]

ListFits(m, l) ==
    l # None =>
        /\ \E r \in Requests : IsPrefix(l.text, Says[r])
        /\ m # None => /\ m.status # "aborted" /\ IsPrefix(l.text, Says[m.gen])
                       /\ m.count = Len(l.text)

IInv ==
    /\ TypeOK
    /\ \A r \in Requests : /\ SpoolFits(r, req[r], row)
                           /\ ReaderFits(req[r])
                           /\ EntryFits(r, req[r], owner, meta, list)
    /\ MetaFits(meta) /\ RowFits(row) /\ ListFits(meta, list)

-----------------------------------------------------------------------------
(* Sequences. *)

\* A prefix is what it is a prefix of, cut.
LEMMA PrefixIsCut ==
    ASSUME NEW S, NEW s \in Seq(S), NEW t \in Seq(S)
    PROVE  IsPrefix(s, t) <=> Len(s) <= Len(t) /\ s = SubSeq(t, 1, Len(s))
BY SubSeqFull DEF IsPrefix

\* A cut of a sequence is a prefix of it, as long as the cut says.
LEMMA CutIsPrefix ==
    ASSUME NEW S, NEW t \in Seq(S), NEW n \in 0..Len(t)
    PROVE  /\ SubSeq(t, 1, n) \in Seq(S)
           /\ Len(SubSeq(t, 1, n)) = n
           /\ IsPrefix(SubSeq(t, 1, n), t)
<1>1. \A i \in 1..n : t[i] \in S
  BY ElementOfSeq, LenProperties
<1>2. /\ SubSeq(t, 1, n) \in Seq(S)
      /\ Len(SubSeq(t, 1, n)) = n
  BY <1>1, SubSeqProperties, LenProperties
<1>3. n <= Len(t)
  BY LenProperties
<1> QED BY <1>2, <1>3, PrefixIsCut

\* The next part of a sequence makes a longer cut of it.
LEMMA CutGrows ==
    ASSUME NEW S, NEW t \in Seq(S), NEW n \in 0..Len(t), NEW m \in n..Len(t)
    PROVE  /\ SubSeq(t, 1, n) \o SubSeq(t, n + 1, m) = SubSeq(t, 1, m)
           /\ SubSeq(t, n + 1, m) \in Seq(S)
           /\ Len(SubSeq(t, n + 1, m)) = m - n
<1>1. Len(t) \in Nat /\ n \in Nat /\ m \in Nat
  BY LenProperties
<1>2. \A i \in n + 1 .. m : t[i] \in S
  BY <1>1, ElementOfSeq
<1>3. /\ SubSeq(t, n + 1, m) \in Seq(S)
      /\ Len(SubSeq(t, n + 1, m)) = m - n
  BY <1>1, <1>2, SubSeqProperties
<1>4. SubSeq(t, 1, n) \o SubSeq(t, n + 1, m) = SubSeq(t, 1, m)
  BY <1>1, ConcatAdjacentSubSeq
<1> QED BY <1>3, <1>4

\* A sequence without elements is the empty one.
LEMMA EmptyIffShort ==
    ASSUME NEW S, NEW s \in Seq(S)
    PROVE  s = <<>> <=> Len(s) = 0
BY EmptySeq

\* A part of a prefix is that part of the whole.
LEMMA PartOfPrefix ==
    ASSUME NEW S, NEW s \in Seq(S), NEW t \in Seq(S), NEW n \in Nat, NEW m \in 0..Len(s),
           IsPrefix(s, t)
    PROVE  SubSeq(s, n + 1, m) = SubSeq(t, n + 1, m)
<1>1. Len(s) \in Nat /\ Len(t) \in Nat /\ Len(s) <= Len(t) /\ s = SubSeq(t, 1, Len(s))
  BY PrefixIsCut, LenProperties
<1>2. CASE n < m
  <2>1. 1 \in 1..Len(t) /\ Len(s) \in 1..Len(t) /\ n + 1 \in 1..Len(s) /\ m \in 1..Len(s)
    BY <1>1, <1>2
  <2>2. SubSeq(SubSeq(t, 1, Len(s)), n + 1, m) = SubSeq(t, 1 + (n + 1) - 1, 1 + m - 1)
    BY <1>1, <2>1, SubSeqOfSubSeq
  <2> QED BY <1>1, <2>2
<1>3. CASE n >= m
  BY <1>1, <1>3, SubSeqEmpty
<1> QED BY <1>1, <1>2, <1>3
\* What a request writes.
LEMMA Speech ==
    ASSUME NEW r \in Requests, NEW n \in 0..Len(Says[r])
    PROVE  /\ Said(r, n) \in Seq(Words) /\ Len(Said(r, n)) = n
           /\ IsPrefix(Said(r, n), Says[r])
           /\ Len(Says[r]) \in Nat
           /\ Said(r, 0) = <<>> /\ Said(r, Len(Says[r])) = Says[r]
<1>1. Says[r] \in Seq(Words) /\ Len(Says[r]) \in Nat
  BY SaysAssumption, LenProperties
<1>2. Said(r, 0) = <<>>
  BY SubSeqEmpty DEF Said
<1>3. Said(r, Len(Says[r])) = Says[r]
  BY <1>1, SubSeqFull DEF Said
<1>4. Said(r, n) \in Seq(Words) /\ Len(Said(r, n)) = n /\ IsPrefix(Said(r, n), Says[r])
  BY <1>1, CutIsPrefix DEF Said
<1> QED BY <1>1, <1>2, <1>3, <1>4

\* What it writes next.
LEMMA NextPart ==
    ASSUME NEW r \in Requests, NEW n \in 0..Len(Says[r]), NEW m \in n..Len(Says[r])
    PROVE  /\ Part(r, n, m) \in Seq(Words) /\ Len(Part(r, n, m)) = m - n
           /\ Part(r, n, m) = <<>> <=> m = n
           /\ Said(r, n) \o Part(r, n, m) = Said(r, m)
<1>1. Says[r] \in Seq(Words) /\ Len(Says[r]) \in Nat
  BY SaysAssumption, LenProperties
<1>2. /\ Part(r, n, m) \in Seq(Words) /\ Len(Part(r, n, m)) = m - n
      /\ Said(r, n) \o Part(r, n, m) = Said(r, m)
  BY <1>1, CutGrows DEF Part, Said
<1>3. Part(r, n, m) = <<>> <=> m - n = 0
  BY <1>2, EmptyIffShort
<1> QED BY <1>1, <1>2, <1>3

-----------------------------------------------------------------------------
(* States of a request. *)

\* What a request does tells the shape of its state.
LEMMA Kinds ==
    ASSUME NEW q \in States
    PROVE  /\ q.at \in {"new", "claim", "lookup", "prepare"} => q \in Guards
           /\ q.at \in Writing \cup Finishing => q \in Spools
           /\ q.at \in Reading => q \in Readers
           /\ q.at \in {"owner", "seal", "discard", "unclaim", "done"} => q \in Others
BY DEF States, Guards, Spools, Readers, Others, Writing, Finishing, Reading

\* None is no key and no count.
LEMMA Somethings ==
    None \notin Owners /\ None \notin Metas /\ None \notin Lists /\ None \notin Rows
    /\ None \notin Nat
BY NoneAssumption

\* Every state an action gives a request is one of its states.
LEMMA Shapes ==
    /\ \A at \in {"new", "claim", "lookup", "prepare"}, b, v \in BOOLEAN :
          Guard(at, b, v) \in States
    /\ \A at \in {"owner", "seal", "discard", "unclaim", "done"},
          g \in Requests \cup {None}, again \in BOOLEAN : Other(at, g, again) \in States
    /\ \A at \in Reading, g \in Requests, out \in Seq(Words), n \in Nat \cup {None} :
          Reader(at, g, out, n) \in States
    /\ Done \in States /\ Unclaim \in States
BY DEF States, Guards, Readers, Others, Guard, Other, Reader, Done, Unclaim, Reading

\* Requests that neither read nor own the entry.
Idle(q) == q \in States /\ q.at \notin Writing \cup Finishing \cup Reading \cup {"owner"}

\* An owner without spool that gives up is one.
LEMMA OthersIdle ==
    /\ \A at \in {"seal", "discard", "unclaim", "done"},
          g \in Requests \cup {None}, again \in BOOLEAN : Idle(Other(at, g, again))
    /\ Idle(Unclaim) /\ Idle(Done)
<1>1. ASSUME NEW at \in {"seal", "discard", "unclaim", "done"},
             NEW g \in Requests \cup {None}, NEW again \in BOOLEAN
      PROVE  Idle(Other(at, g, again))
  <2>1. Other(at, g, again) \in States
    BY Shapes, Zenon
  <2>2. Other(at, g, again).at = at
    BY DEF Other
  <2> QED BY <2>1, <2>2 DEF Idle, Writing, Finishing, Reading
<1>2. Idle(Unclaim) /\ Idle(Done)
  BY <1>1 DEF Unclaim, Done
<1> QED BY <1>1, <1>2

\* What they find fits.
LEMMA IdleFits ==
    ASSUME NEW r \in Requests, NEW q \in States,
           q.at \notin Writing \cup Finishing \cup Reading \cup {"owner"},
           NEW w, NEW o, NEW m, NEW l
    PROVE  SpoolFits(r, q, w) /\ ReaderFits(q) /\ EntryFits(r, q, o, m, l)
BY DEF SpoolFits, ReaderFits, EntryFits, Bare, Begun, Writing, Finishing, Reading

\* The entry after a step of request r, as the others see it.
EntryKept(r) ==
    /\ owner' \in Owners \cup {None}
    /\ meta' \in Metas \cup {None}
    /\ list' \in Lists \cup {None}
    /\ MetaFits(meta') /\ ListFits(meta', list')
    /\ \A s \in Requests \ {r} : EntryFits(s, req[s], owner', meta', list')

\* A step of request r that leaves it, the entry and the row fitting keeps the invariant.
LEMMA StepKeeps ==
    ASSUME IInv, NEW r \in Requests, NEW q \in States, Become(r, q), EntryKept(r),
           SpoolFits(r, q, row'), ReaderFits(q), EntryFits(r, q, owner', meta', list'),
           row' \in Rows \cup {None}, RowFits(row'), row # None => row' = row
    PROVE  IInv'
<1>1. req' \in [Requests -> States] /\ req'[r] = q
      /\ \A s \in Requests \ {r} : req'[s] = req[s]
  BY DEF IInv, TypeOK, Become
<1>2. TypeOK'
  BY <1>1 DEF TypeOK, EntryKept
<1>3. ASSUME NEW s \in Requests
      PROVE  /\ SpoolFits(s, req'[s], row') /\ ReaderFits(req'[s])
             /\ EntryFits(s, req'[s], owner', meta', list')
  <2>1. CASE s = r
    BY <1>1, <2>1
  <2>2. CASE s # r
    <3>1. SpoolFits(s, req[s], row') /\ ReaderFits(req[s])
      BY DEF IInv, SpoolFits
    <3> QED BY <1>1, <2>2, <3>1 DEF EntryKept
  <2> QED BY <2>1, <2>2
<1> QED BY <1>2, <1>3 DEF IInv, EntryKept

\* A step of request r alone.
LEMMA LocalKeeps ==
    ASSUME IInv, NEW r \in Requests, NEW q \in States, Become(r, q),
           UNCHANGED <<owner, meta, list, row>>,
           SpoolFits(r, q, row), ReaderFits(q), EntryFits(r, q, owner, meta, list)
    PROVE  IInv'
<1>1. EntryKept(r)
  BY DEF EntryKept, IInv, TypeOK
<1>2. row' \in Rows \cup {None} /\ RowFits(row') /\ row' = row
  BY DEF IInv, TypeOK
<1> QED BY <1>1, <1>2, StepKeeps

\* A step after which request r neither reads nor owns the entry, and the row stays.
LEMMA LeaveKeeps ==
    ASSUME IInv, NEW r \in Requests, NEW q \in States, Become(r, q), EntryKept(r), row' = row,
           q.at \notin Writing \cup Finishing \cup Reading \cup {"owner"}
    PROVE  IInv'
<1>1. row' \in Rows \cup {None} /\ RowFits(row')
  BY DEF IInv, TypeOK
<1>2. SpoolFits(r, q, row') /\ ReaderFits(q) /\ EntryFits(r, q, owner', meta', list')
  BY IdleFits
<1> QED BY <1>1, <1>2, StepKeeps

-----------------------------------------------------------------------------
(* The scripts. *)

\* Nothing is done.
LEMMA UntouchedKeeps ==
    ASSUME IInv, NEW r \in Requests, Untouched
    PROVE  EntryKept(r)
BY DEF EntryKept, IInv, TypeOK, Untouched

\* Only the holder of the lease writes, and leaves it to itself or to nobody.
LEMMA OthersUntold ==
    ASSUME IInv, NEW r \in Requests, owner' \in {None, Renewed(r)}
    PROVE  \A s \in Requests \ {r} : EntryFits(s, req[s], owner', meta', list')
BY DEF EntryFits, Renewed

\* A lease or a meta just written is well-typed.
LEMMA NewKeys ==
    ASSUME NEW r \in Requests
    PROVE  /\ Renewed(r) \in Owners
           /\ \A status \in Statuses, g \in Requests \cup {None}, n \in Nat :
                 Meta(status, g, n) \in Metas
BY TimesAssumption DEF Renewed, Meta, Owners, Metas

\* Scripts that remove the chunks leave nothing to be a part of a response.
LEMMA RemovalKeeps ==
    ASSUME IInv, NEW r \in Requests, NEW g \in Requests \cup {None},
           PrepareOwned(r) \/ AbortOwned(r, g) \/ DiscardOwned(r)
    PROVE  EntryKept(r)
<1>1. owner' \in {None, Renewed(r)} /\ list' = None /\ meta' \in {None, Meta("aborted", g, 0)}
  BY DEF PrepareOwned, AbortOwned, DiscardOwned
<1>2. Renewed(r) \in Owners /\ Meta("aborted", g, 0) \in Metas
  BY NewKeys DEF Statuses
<1>3. MetaFits(meta') /\ ListFits(meta', list')
  BY <1>1 DEF MetaFits, ListFits, Meta
<1> QED BY <1>1, <1>2, <1>3, OthersUntold DEF EntryKept

\* So does giving back the lease.
LEMMA ReleaseKeeps ==
    ASSUME IInv, NEW r \in Requests, ReleaseOwner(r)
    PROVE  EntryKept(r)
BY OthersUntold DEF ReleaseOwner, EntryKept, IInv, TypeOK
\* The heartbeat changes no more than how long the keys last.
LEMMA HeartbeatKeeps ==
    ASSUME IInv, NEW r \in Requests, HeartbeatOwned(r)
    PROVE  /\ EntryKept(r)
           /\ EntryFits(r, req[r], owner', meta', list')
<1>1. /\ owner # None /\ owner.token = r /\ owner' = Renewed(r) /\ owner' \in Owners
      /\ meta # None /\ meta \in Metas
      /\ list \in Lists \cup {None}
  BY NewKeys DEF HeartbeatOwned, Holds, IInv, TypeOK
<1>2. /\ meta' \in Metas /\ meta'.ttl = Hot
      /\ meta'.status = meta.status /\ meta'.gen = meta.gen /\ meta'.count = meta.count
  BY <1>1, TimesAssumption DEF HeartbeatOwned, Metas
<1>3. meta' # None /\ owner' # None /\ Lease \in Nat /\ Hot \in Nat /\ Hot > Lease
      /\ owner'.ttl = Lease /\ owner'.token = r
  BY <1>1, <1>2, Somethings, TimesAssumption DEF Renewed
<1>4. EntryFits(r, req[r], owner, meta, list)
  BY DEF IInv
<1>5. CASE list = None
  <2>1. list' = None
    BY <1>5 DEF HeartbeatOwned
  <2>2. MetaFits(meta') /\ ListFits(meta', list')
    BY <1>1, <1>2, <2>1 DEF MetaFits, ListFits, IInv
  <2>3. EntryFits(r, req[r], owner', meta', list')
    BY <1>1, <1>2, <1>3, <1>5, <1>4, <2>1 DEF EntryFits
  <2> QED BY <1>1, <1>2, <1>3, <2>1, <2>2, <2>3, OthersUntold DEF EntryKept
<1>6. CASE list # None
  <2>1. list' \in Lists /\ list' # None /\ list'.ttl = Hot /\ list'.text = list.text
    <3>1. list \in Lists /\ list' = [list EXCEPT !.ttl = Hot] /\ Hot \in 1..Hot
      BY <1>1, <1>3, <1>6 DEF HeartbeatOwned
    <3>2. list' \in Lists /\ list'.ttl = Hot /\ list'.text = list.text
      BY <3>1 DEF Lists
    <3> QED BY <3>2, Somethings
  <2>2. MetaFits(meta') /\ ListFits(meta', list')
    BY <1>1, <1>2, <1>6, <2>1 DEF MetaFits, ListFits, IInv
  <2>3. EntryFits(r, req[r], owner', meta', list')
    BY <1>1, <1>2, <1>3, <1>6, <1>4, <2>1 DEF EntryFits
  <2> QED BY <1>1, <1>2, <1>3, <2>1, <2>2, <2>3, OthersUntold DEF EntryKept
<1> QED BY <1>5, <1>6

\* What an owner finds in the list is what it sent.
LEMMA OwnText ==
    ASSUME IInv, NEW r \in Requests, Holds(r), req[r].at \in Writing
    PROVE  /\ req[r] \in Spools
           /\ req[r].count = req[r].sent /\ req[r].sent \in 0..Len(Says[r])
           /\ Text = Said(r, req[r].sent)
           /\ req[r].sent = 0 => list = None
<1>1. req[r] \in Spools
  BY Kinds DEF IInv, TypeOK
<1>2. req[r].count = req[r].sent /\ req[r].sent \in 0..Len(Says[r])
  BY <1>1, LenProperties DEF IInv, SpoolFits, Spools
<1>3. EntryFits(r, req[r], owner, meta, list) /\ SpoolFits(r, req[r], row)
  BY DEF IInv
<1>4. Said(r, 0) = <<>>
  BY <1>2, Speech
<1>5. Begun(req[r]) \/ Bare(req[r])
  BY DEF Begun, Bare
<1>6. Bare(req[r]) => req[r].sent = 0
  BY <1>3 DEF SpoolFits, Bare, Writing
<1>7. req[r].sent = 0 => list = None
  BY <1>3, <1>5, <1>6 DEF EntryFits, Holds
<1>8. req[r].sent # 0 => list # None /\ list.text = Said(r, req[r].sent)
  BY <1>3, <1>5, <1>6 DEF EntryFits, Holds
<1>9. Text = Said(r, req[r].sent)
  BY <1>4, <1>7, <1>8 DEF Text
<1> QED BY <1>1, <1>2, <1>7, <1>9

\* A write of the owner appends the next part of its own response.
LEMMA WriteKeeps ==
    ASSUME IInv, NEW r \in Requests, req[r].at \in Writing,
           NEW upto \in req[r].sent .. Len(Says[r]),
           NEW n, n = req[r].count + Len(Part(r, req[r].sent, upto)),
           WriteOwned(r, Part(r, req[r].sent, upto), n)
    PROVE  /\ EntryKept(r)
           /\ owner' = Renewed(r) /\ meta' = Meta("owning", r, upto) /\ meta' # None
           /\ Len(Text \o Part(r, req[r].sent, upto)) = upto
           /\ list' # None => list'.text = Said(r, upto)
           /\ \/ upto = 0 /\ list' = None
              \/ upto = req[r].sent /\ upto > 0 /\ list' = list
              \/ upto > req[r].sent /\ list' # None /\ list'.ttl = Hot
<1>1. Holds(r)
  BY DEF WriteOwned
<1>2. req[r].count = req[r].sent /\ req[r].sent \in 0..Len(Says[r])
      /\ Text = Said(r, req[r].sent) /\ (req[r].sent = 0 => list = None)
  BY <1>1, OwnText
<1>3. upto \in Nat /\ upto \in 0..Len(Says[r]) /\ req[r].sent \in Nat
  BY <1>2, Speech
<1> DEFINE sent == req[r].sent
           batch == Part(r, sent, upto)
<1>4. batch \in Seq(Words) /\ Len(batch) = upto - sent /\ (batch = <<>> <=> upto = sent)
      /\ Text \o batch = Said(r, upto)
  <2>1. /\ batch \in Seq(Words) /\ Len(batch) = upto - sent
        /\ batch = <<>> <=> upto = sent
        /\ Said(r, sent) \o batch = Said(r, upto)
    BY <1>2, NextPart
  <2> QED BY <1>2, <2>1
<1> HIDE DEF batch, sent
<1>5. /\ Said(r, upto) \in Seq(Words) /\ Len(Said(r, upto)) = upto
      /\ IsPrefix(Said(r, upto), Says[r])
  BY <1>3, Speech
<1>6. n = upto
  BY <1>2, <1>3, <1>4 DEF sent, batch
<1>7. owner' = Renewed(r) /\ meta' = Meta("owning", r, upto)
      /\ list' = IF batch = <<>> THEN list ELSE [text |-> Text \o batch, ttl |-> Hot]
  BY <1>6 DEF WriteOwned, batch, sent
<1>8. owner' \in Owners /\ meta' \in Metas /\ meta' # None
  <2>1. Renewed(r) \in Owners /\ Meta("owning", r, upto) \in Metas
    BY <1>3, NewKeys DEF Statuses
  <2> QED BY <1>7, <2>1, Somethings
<1>9. /\ list' \in Lists \cup {None}
      /\ list' # None => list'.text = Said(r, upto)
      /\ \/ upto = 0 /\ list' = None
         \/ upto = sent /\ upto > 0 /\ list' = list
         \/ upto > sent /\ list' # None /\ list'.ttl = Hot
  <2>1. CASE upto = sent
    <3>1. list' = list
      BY <1>4, <1>7, <2>1
    <3>2. list # None => list.text = Said(r, upto)
      BY <1>2, <2>1 DEF Text, sent
    <3>3. list \in Lists \cup {None}
      BY DEF IInv, TypeOK
    <3> QED BY <3>1, <3>2, <3>3, <1>2, <1>3, <2>1 DEF sent
  <2>2. CASE upto # sent
    <3>1. list' = [text |-> Said(r, upto), ttl |-> Hot]
      BY <1>4, <1>7, <2>2
    <3>2. list' \in Lists
      BY <1>5, <3>1, TimesAssumption DEF Lists
    <3>3. upto > sent
      BY <1>2, <1>3, <2>2 DEF sent
    <3> QED BY <3>1, <3>2, <3>3, Somethings
  <2> QED BY <2>1, <2>2
<1>10. MetaFits(meta')
  BY <1>7 DEF MetaFits, Meta
<1>11. ListFits(meta', list')
  <2>1. meta'.status = "owning" /\ meta'.gen = r /\ meta'.count = upto
    BY <1>7 DEF Meta
  <2> QED BY <1>5, <1>9, <2>1 DEF ListFits
<1>12. EntryKept(r)
  BY <1>7, <1>8, <1>9, <1>10, <1>11, OthersUntold DEF EntryKept
<1> QED BY <1>4, <1>5, <1>7, <1>8, <1>9, <1>12 DEF batch, sent

\* The last script of an owner tells how long the response is.
LEMMA CompleteKeeps ==
    ASSUME IInv, NEW r \in Requests, req[r].at = "publish",
           CompleteOwned(r, req[r].count)
    PROVE  EntryKept(r)
<1>1. /\ req[r] \in Spools /\ req[r].count \in Nat
      /\ req[r].count = Len(Says[r]) /\ req[r].sent = Len(Says[r])
  BY Kinds, LenProperties DEF IInv, TypeOK, SpoolFits, Spools, Finishing
<1>2. owner' = None /\ meta' = Meta("completed", r, req[r].count) /\ list' = list
      /\ meta' \in Metas
  BY <1>1, NewKeys DEF CompleteOwned, Statuses
<1>3. MetaFits(meta')
  BY <1>1, <1>2 DEF MetaFits, Meta
<1>4. list # None => list.text = Says[r]
  <2>1. EntryFits(r, req[r], owner, meta, list) /\ owner # None /\ owner.token = r
    BY DEF IInv, CompleteOwned, Holds
  <2>2. Said(r, Len(Says[r])) = Says[r]
    BY <1>1, Speech
  <2> QED BY <1>1, <2>1, <2>2 DEF EntryFits, Finishing
<1>5. IsPrefix(Says[r], Says[r])
  BY SubSeqFull, LenProperties DEF IsPrefix
<1>6. ListFits(meta', list')
  <2>1. meta'.status = "completed" /\ meta'.gen = r /\ meta'.count = Len(Says[r])
    BY <1>1, <1>2 DEF Meta
  <2> QED BY <1>2, <1>4, <1>5, <2>1 DEF ListFits
<1>7. list' \in Lists \cup {None}
  BY <1>2 DEF IInv, TypeOK
<1> QED BY <1>2, <1>3, <1>6, <1>7, OthersUntold DEF EntryKept
-----------------------------------------------------------------------------
(* The guard. *)

\* A request that has read nothing yet fits whatever it found.
LEMMA NewReader ==
    ASSUME NEW r \in Requests, NEW g \in Requests, NEW at \in {"first", "read"},
           NEW n \in Nat \cup {None}, n # None => n = Len(Says[g]), at = "first" => n # None,
           NEW w, NEW o, NEW m, NEW l
    PROVE  /\ Reader(at, g, <<>>, n) \in States
           /\ SpoolFits(r, Reader(at, g, <<>>, n), w) /\ ReaderFits(Reader(at, g, <<>>, n))
           /\ EntryFits(r, Reader(at, g, <<>>, n), o, m, l)
<1> DEFINE q == Reader(at, g, <<>>, n)
<1>1. q.at = at /\ q.gen = g /\ q.out = <<>> /\ q.count = n
  BY DEF Reader
<1>2. q \in States
  BY EmptySeq, Shapes DEF Reading
<1> HIDE DEF q
<1>3. IsPrefix(<<>>, Says[g])
  BY 0 \in 0..Len(Says[g]), Speech
<1>4. ReaderFits(q)
  BY <1>1, <1>3 DEF ReaderFits
<1>5. SpoolFits(r, q, w) /\ EntryFits(r, q, o, m, l)
  BY <1>1 DEF SpoolFits, EntryFits, Bare, Begun, Writing, Finishing
<1> QED BY <1>2, <1>4, <1>5 DEF q

\* What a request finds when it enters decides what it becomes.
LEMMA EnterKeeps ==
    ASSUME IInv, NEW r \in Requests, Enter(r)
    PROVE  IInv'
<1>1. UNCHANGED <<owner, meta, list, row>>
  BY DEF Enter
<1>2. PICK bypass \in BOOLEAN, seen \in {meta, None} :
         \/ /\ seen # None /\ seen.status = "completed"
            /\ Become(r, Reader("first", seen.gen, <<>>, seen.count))
         \/ /\ seen # None /\ seen.status = "owning"
            /\ Become(r, Reader("read", seen.gen, <<>>, None))
         \/ Become(r, Done)
         \/ Become(r, Guard("claim", bypass, seen # None /\ seen.status = "owning"))
  BY DEF Enter, Followable
<1>3. seen # None => /\ seen.status # "aborted" => seen.gen \in Requests
                     /\ seen.status = "completed" => seen.count = Len(Says[seen.gen])
                     /\ seen.count \in Nat
  BY DEF IInv, TypeOK, MetaFits, Metas
<1>4. CASE /\ seen # None /\ seen.status = "completed"
           /\ Become(r, Reader("first", seen.gen, <<>>, seen.count))
  <2>1. seen.gen \in Requests /\ seen.count \in Nat /\ seen.count # None
        /\ seen.count = Len(Says[seen.gen])
    BY <1>3, <1>4, Somethings
  <2> QED BY <1>1, <1>4, <2>1, NewReader, LocalKeeps
<1>5. CASE /\ seen # None /\ seen.status = "owning"
           /\ Become(r, Reader("read", seen.gen, <<>>, None))
  BY <1>1, <1>3, <1>5, NewReader, LocalKeeps
<1>6. ASSUME NEW q \in {Done, Guard("claim", bypass, seen # None /\ seen.status = "owning")},
             Become(r, q)
      PROVE  IInv'
  <2>1. q \in States
    BY Shapes
  <2>2. q.at \in {"done", "claim"}
    BY DEF Done, Other, Guard
  <2> QED BY <1>1, <1>6, <2>1, <2>2, LeaveKeeps, UntouchedKeeps
          DEF Untouched, Writing, Finishing, Reading
<1> QED BY <1>2, <1>4, <1>5, <1>6
\* A refreshed list is the same list.
LEMMA RefreshKeeps ==
    ASSUME IInv, NEW r \in Requests, meta # None, list # None,
           owner' = owner, meta' = meta, list' = [list EXCEPT !.ttl = meta.ttl]
    PROVE  EntryKept(r)
<1>1. list \in Lists /\ meta \in Metas
  BY DEF IInv, TypeOK
<1>2. list' \in Lists /\ list'.text = list.text /\ list'.ttl = meta.ttl
  BY <1>1 DEF Lists, Metas
<1>3. list' # None
  BY <1>2, Somethings
<1>4. MetaFits(meta') /\ ListFits(meta', list')
  BY <1>2 DEF IInv, ListFits
<1>5. ASSUME NEW s \in Requests
      PROVE  EntryFits(s, req[s], owner', meta', list')
  <2>1. EntryFits(s, req[s], owner, meta, list)
    BY DEF IInv
  <2> QED BY <1>2, <1>3, <2>1 DEF EntryFits
<1> QED BY <1>2, <1>4, <1>5 DEF EntryKept, IInv, TypeOK

\* A page is made of chunks.
LEMMA ChunksType ==
    ASSUME IInv, NEW n \in Nat, NEW last \in Nat
    PROVE  /\ Text \in Seq(Words) /\ Len(Text) \in Nat
           /\ Chunks(n, last) \in Seq(Words)
           /\ \E k \in 0..Len(Text) : Chunks(n, last) = SubSeq(Text, n + 1, k)
<1> DEFINE end == Least(Least(n + Page, last), Len(Text))
<1>1. Text \in Seq(Words) /\ Len(Text) \in Nat
  BY EmptySeq, LenProperties DEF Text, Lists, IInv, TypeOK
<1>2. end \in 0..Len(Text)
  BY <1>1, PageAssumption DEF Least
<1>3. PICK k \in 0..Len(Text) : Chunks(n, last) = SubSeq(Text, n + 1, k)
  BY <1>2 DEF Chunks
<1>4. \A i \in n + 1 .. k : Text[i] \in Words
  BY <1>1, ElementOfSeq
<1>5. SubSeq(Text, n + 1, k) \in Seq(Words)
  BY <1>1, <1>4, SubSeqProperties
<1> QED BY <1>1, <1>3, <1>5

\* A page of the list continues what the meta's request said.
LEMMA PageContinues ==
    ASSUME IInv, meta # None, NEW n \in Nat, NEW last \in Nat, Chunks(n, last) # <<>>
    PROVE  /\ list # None /\ meta.gen \in Requests
           /\ \E m \in 0..Len(Says[meta.gen]) :
                 Said(meta.gen, n) \o Chunks(n, last) = Said(meta.gen, m)
<1>1. Text \in Seq(Words) /\ Len(Text) \in Nat
  BY ChunksType
<1>2. PICK k \in 0..Len(Text) : Chunks(n, last) = SubSeq(Text, n + 1, k)
  BY ChunksType
<1>3. n < k
  BY <1>1, <1>2, SubSeqEmpty
<1>4. list # None
  <2>1. Len(<<>>) = 0
    BY EmptySeq
  <2> QED BY <1>1, <1>3, <2>1 DEF Text
<1>5. meta.gen \in Requests /\ IsPrefix(Text, Says[meta.gen])
  BY <1>4 DEF IInv, MetaFits, ListFits, Text
<1>6. Says[meta.gen] \in Seq(Words)
  BY <1>5, SaysAssumption
<1>7. k \in n..Len(Says[meta.gen]) /\ n \in 0..Len(Says[meta.gen])
      /\ k \in 0..Len(Says[meta.gen])
  BY <1>1, <1>3, <1>5, <1>6, LenProperties DEF IsPrefix
<1>8. SubSeq(Text, n + 1, k) = Part(meta.gen, n, k)
  BY <1>1, <1>5, <1>6, PartOfPrefix DEF Part
<1>9. Said(meta.gen, n) \o Part(meta.gen, n, k) = Said(meta.gen, k)
  BY <1>5, <1>7, NextPart
<1> QED BY <1>2, <1>4, <1>5, <1>7, <1>8, <1>9

\* What a subscriber sent is the beginning of the response it follows.
LEMMA OutIsSaid ==
    ASSUME IInv, NEW r \in Requests, req[r].at \in Reading
    PROVE  /\ req[r] \in Readers /\ req[r].gen \in Requests
           /\ req[r].out \in Seq(Words) /\ Len(req[r].out) \in 0..Len(Says[req[r].gen])
           /\ req[r].out = Said(req[r].gen, Len(req[r].out))
<1>1. req[r] \in Readers
  BY Kinds DEF IInv, TypeOK
<1>2. req[r].gen \in Requests /\ req[r].out \in Seq(Words)
  BY <1>1 DEF Readers
<1>3. IsPrefix(req[r].out, Says[req[r].gen])
  BY DEF IInv, ReaderFits
<1>4. Says[req[r].gen] \in Seq(Words)
  BY <1>2, SaysAssumption
<1>5. Len(req[r].out) <= Len(Says[req[r].gen])
      /\ req[r].out = Said(req[r].gen, Len(req[r].out))
  BY <1>2, <1>3, <1>4, PrefixIsCut DEF Said
<1> QED BY <1>1, <1>2, <1>4, <1>5, LenProperties

\* A subscriber fits as long as it follows what it attached to.
LEMMA FollowingFits ==
    ASSUME NEW r \in Requests, NEW q \in States, q.at \in Reading, q.gen \in Requests,
           NEW m \in 0..Len(Says[q.gen]), q.out = Said(q.gen, m),
           q.count # None => q.count = Len(Says[q.gen]),
           q.at = "first" => q.count # None,
           q.at \in {"serve", "closed"} => m = Len(Says[q.gen]),
           NEW w, NEW o, NEW e, NEW l
    PROVE  SpoolFits(r, q, w) /\ ReaderFits(q) /\ EntryFits(r, q, o, e, l)
<1>1. IsPrefix(q.out, Says[q.gen]) /\ Said(q.gen, Len(Says[q.gen])) = Says[q.gen]
  BY Speech
<1>2. ReaderFits(q)
  BY <1>1 DEF ReaderFits
<1>3. SpoolFits(r, q, w) /\ EntryFits(r, q, o, e, l)
  BY DEF SpoolFits, EntryFits, Bare, Begun, Writing, Finishing, Reading
<1> QED BY <1>2, <1>3
\* A subscriber goes on, having sent as much as before or more.
LEMMA FollowKeeps ==
    ASSUME IInv, NEW r \in Requests, req[r].at \in Reading,
           NEW at \in Reading, NEW n \in Nat \cup {None},
           NEW m \in 0..Len(Says[req[r].gen]), NEW out, out = Said(req[r].gen, m),
           n # None => n = Len(Says[req[r].gen]), at = "first" => n # None,
           at \in {"serve", "closed"} => m = Len(Says[req[r].gen]),
           Become(r, [req[r] EXCEPT !.at = at, !.out = out, !.count = n]),
           EntryKept(r), row' = row
    PROVE  IInv'
<1> DEFINE q == [req[r] EXCEPT !.at = at, !.out = out, !.count = n]
<1>1. req[r] \in Readers /\ req[r].gen \in Requests
  BY OutIsSaid
<1>2. out \in Seq(Words)
  BY <1>1, Speech
<1>3. q \in Readers /\ q.at = at /\ q.out = out /\ q.count = n /\ q.gen = req[r].gen
  BY <1>1, <1>2 DEF Readers, Reading
<1>4. Become(r, q)
  OBVIOUS
<1> HIDE DEF q
<1>5. q \in States
  BY <1>3 DEF States
<1>6. SpoolFits(r, q, row') /\ ReaderFits(q) /\ EntryFits(r, q, owner', meta', list')
  BY <1>1, <1>3, <1>5, FollowingFits
<1>7. row' \in Rows \cup {None} /\ RowFits(row')
  BY DEF IInv, TypeOK
<1> QED BY <1>4, <1>5, <1>6, <1>7, StepKeeps

\* The first page, or the guard goes on without Redis.
LEMMA FirstPageKeeps ==
    ASSUME IInv, NEW r \in Requests, FirstPage(r)
    PROVE  IInv'
<1> DEFINE q == req[r]
           out == Chunks(0, q.count)
<1>1. q.at = "first" /\ q.at \in Reading
  BY DEF FirstPage, At, Reading
<1>2. /\ q \in Readers /\ q.gen \in Requests
      /\ q.count \in Nat \cup {None} /\ q.count # None /\ q.count = Len(Says[q.gen])
  <2>1. ReaderFits(q)
    BY DEF IInv
  <2> QED BY <1>1, <2>1, OutIsSaid DEF ReaderFits, Readers
<1>3. CASE /\ meta # None /\ meta.gen = q.gen /\ out # <<>>
           /\ list' = [list EXCEPT !.ttl = meta.ttl]
           /\ Become(r, [q EXCEPT !.at = "read", !.out = out])
  <2>1. list # None /\ \E m \in 0..Len(Says[q.gen]) : Said(q.gen, 0) \o out = Said(q.gen, m)
    BY <1>2, <1>3, PageContinues
  <2>2. PICK m \in 0..Len(Says[q.gen]) : Said(q.gen, 0) \o out = Said(q.gen, m)
    BY <2>1
  <2>3. Said(q.gen, 0) = <<>>
    BY <1>2, <2>2, Speech
  <2>4. out = Said(q.gen, m)
    <3>1. <<>> \o out = out
      BY ConcatEmptySeq, ChunksType
    <3> QED BY <2>2, <2>3, <3>1
  <2>5. [q EXCEPT !.at = "read", !.out = out] = [q EXCEPT !.at = "read", !.out = out, !.count = q.count]
    BY <1>2 DEF Readers
  <2>6. EntryKept(r) /\ row' = row
    BY <1>3, <2>1, RefreshKeeps DEF FirstPage
  <2> QED BY <1>1, <1>2, <1>3, <2>2, <2>4, <2>5, <2>6, FollowKeeps DEF Reading
<1>4. CASE Become(r, Guard("claim", FALSE, FALSE)) /\ list' = list
  BY <1>4, LeaveKeeps, UntouchedKeeps, Shapes
     DEF FirstPage, Untouched, Guard, Writing, Finishing, Reading
<1> QED BY <1>3, <1>4 DEF FirstPage
\* A request whose next state reads and owns nothing, in a step that leaves the keys.
LEMMA QuietKeeps ==
    ASSUME IInv, NEW r \in Requests, NEW q \in States, Become(r, q),
           q.at \notin Writing \cup Finishing \cup Reading \cup {"owner"},
           UNCHANGED <<owner, meta, list, row>>
    PROVE  IInv'
BY LeaveKeeps, UntouchedKeeps DEF Untouched

\* A lease that is won is nobody else's, and its owner has not prepared.
LEMMA ClaimKeeps ==
    ASSUME IInv, NEW r \in Requests, Claim(r)
    PROVE  IInv'
<1>1. PICK effect \in BOOLEAN, answer \in BOOLEAN :
         /\ answer => effect
         /\ effect => owner = None
         /\ owner' = IF effect THEN Renewed(r) ELSE owner
         /\ Become(r, IF ~answer /\ req[r].rival THEN Done
                      ELSE [req[r] EXCEPT !.at = "lookup", !.rival = FALSE, !.claimed = answer])
  BY DEF Claim
<1>2. req[r].at = "claim" /\ req[r] \in Guards /\ meta' = meta /\ list' = list /\ row' = row
  BY Kinds DEF Claim, At, IInv, TypeOK
<1>3. EntryKept(r)
  <2>1. owner' = owner \/ owner' \in {None, Renewed(r)}
    BY <1>1
  <2>2. owner' \in Owners \cup {None}
    BY <1>1, NewKeys DEF IInv, TypeOK
  <2>3. \A s \in Requests \ {r} : EntryFits(s, req[s], owner', meta', list')
    BY <1>2, <2>1, OthersUntold DEF IInv
  <2> QED BY <1>2, <2>2, <2>3 DEF EntryKept, IInv, TypeOK
<1>4. CASE Become(r, Done)
  BY <1>2, <1>3, <1>4, LeaveKeeps, Shapes DEF Done, Other, Writing, Finishing, Reading
<1>5. CASE Become(r, [req[r] EXCEPT !.at = "lookup", !.rival = FALSE, !.claimed = answer])
  <2> DEFINE q == [req[r] EXCEPT !.at = "lookup", !.rival = FALSE, !.claimed = answer]
  <2>1. q \in Guards /\ q.at = "lookup"
    BY <1>2 DEF Guards
  <2>2. q \in States
    BY <2>1 DEF States
  <2> QED BY <1>2, <1>3, <1>5, <2>1, <2>2, LeaveKeeps DEF Writing, Finishing, Reading
<1> QED BY <1>1, <1>4, <1>5

\* A row that is found serves the whole response of its source.
LEMMA LookupKeeps ==
    ASSUME IInv, NEW r \in Requests, Lookup(r)
    PROVE  IInv'
<1>1. UNCHANGED <<owner, meta, list, row>>
  BY DEF Lookup
<1>2. ASSUME row # None, NEW at \in {"serve", "closed"},
             Become(r, Reader(at, row.source, row.text, Len(row.text)))
      PROVE  IInv'
  <2> DEFINE q == Reader(at, row.source, row.text, Len(row.text))
  <2>1. row.source \in Requests /\ row.text \in Seq(Words) /\ row.text = Says[row.source]
    BY <1>2 DEF IInv, TypeOK, Rows, RowFits
  <2>2. Len(row.text) \in Nat /\ Len(row.text) \in 0..Len(Says[row.source])
    BY <2>1, LenProperties
  <2>3. q \in States
    BY <2>1, <2>2, Shapes DEF Reading
  <2>4. q.at = at /\ q.gen = row.source /\ q.out = Says[q.gen] /\ q.count = Len(Says[q.gen])
    BY <2>1 DEF Reader
  <2>5. Said(row.source, Len(Says[row.source])) = Says[row.source]
    BY <2>1, <2>2, Speech
  <2> HIDE DEF q
  <2>6. SpoolFits(r, q, row) /\ ReaderFits(q) /\ EntryFits(r, q, owner, meta, list)
    BY <2>1, <2>2, <2>3, <2>4, <2>5, FollowingFits DEF Reading
  <2> QED BY <1>1, <1>2, <2>3, <2>6, LocalKeeps DEF q
<1>3. ASSUME NEW q \in {Guard("prepare", FALSE, FALSE), Unclaim, Done}, Become(r, q)
      PROVE  IInv'
  <2>1. q \in States
    BY Shapes
  <2>2. q.at \in {"prepare", "unclaim", "done"}
    BY DEF Guard, Unclaim, Done, Other
  <2> QED BY <1>1, <1>3, <2>1, <2>2, QuietKeeps DEF Writing, Finishing, Reading
<1> QED BY <1>2, <1>3 DEF Lookup

\* An owner that has prepared finds nothing.
LEMMA PrepareKeeps ==
    ASSUME IInv, NEW r \in Requests, Prepare(r)
    PROVE  IInv'
<1>1. row' = row
  BY DEF Prepare
<1>2. CASE PrepareOwned(r) /\ Become(r, Other("owner", None, FALSE))
  <2> DEFINE q == Other("owner", None, FALSE)
  <2>1. q \in States /\ q.at = "owner"
    BY Shapes DEF Other
  <2>2. meta' = None /\ list' = None
    BY <1>2 DEF PrepareOwned
  <2>3. EntryKept(r)
    BY <1>2, RemovalKeeps
  <2> HIDE DEF q
  <2>4. SpoolFits(r, q, row') /\ ReaderFits(q) /\ EntryFits(r, q, owner', meta', list')
    BY <2>1, <2>2 DEF SpoolFits, ReaderFits, EntryFits, Bare, Begun, Writing, Finishing, Reading
  <2>5. row' \in Rows \cup {None} /\ RowFits(row')
    BY <1>1 DEF IInv, TypeOK
  <2> QED BY <1>1, <1>2, <2>1, <2>3, <2>4, <2>5, StepKeeps DEF q
<1>3. CASE (PrepareOwned(r) \/ Untouched) /\ Become(r, Done)
  <2>1. EntryKept(r)
    BY <1>3, RemovalKeeps, UntouchedKeeps
  <2>2. Done \in States /\ Done.at = "done"
    BY Shapes DEF Done, Other
  <2> QED BY <1>1, <1>3, <2>1, <2>2, LeaveKeeps DEF Writing, Finishing, Reading
<1> QED BY <1>2, <1>3 DEF Prepare
-----------------------------------------------------------------------------
(* The owner. *)

\* A spool starts with nothing, and with nothing in Redis.
LEMMA OpenSpoolKeeps ==
    ASSUME IInv, NEW r \in Requests, OpenSpool(r)
    PROVE  IInv'
<1> DEFINE q == [at |-> "open", begun |-> FALSE, halted |-> FALSE, sent |-> 0,
                 count |-> 0, text |-> <<>>]
<1>1. UNCHANGED <<owner, meta, list, row>> /\ req[r].at = "owner"
  BY DEF OpenSpool, At
<1>2. CASE Become(r, q)
  <2>1. q \in States
    BY EmptySeq DEF States, Spools
  <2>2. EntryFits(r, req[r], owner, meta, list) /\ Bare(req[r])
    BY <1>1 DEF IInv, Bare
  <2>3. Len(Says[r]) \in Nat
    BY SaysAssumption, LenProperties
  <2>4. Bare(q) /\ ~Begun(q) /\ q.at \notin Finishing
    BY DEF Bare, Begun, Writing, Finishing
  <2>5. EntryFits(r, q, owner, meta, list)
    BY <2>2, <2>4 DEF EntryFits
  <2>6. SpoolFits(r, q, row) /\ ReaderFits(q)
    BY <2>3 DEF SpoolFits, ReaderFits, Writing, Finishing, Reading
  <2> QED BY <1>1, <1>2, <2>1, <2>5, <2>6, LocalKeeps
<1>3. ASSUME NEW p, Idle(p), Become(r, p)
      PROVE  IInv'
  BY <1>1, <1>3, QuietKeeps DEF Idle
<1>4. Idle(Unclaim) /\ Idle(Other("seal", None, TRUE))
  BY OthersIdle, Zenon
<1> QED BY <1>2, <1>3, <1>4 DEF OpenSpool

\* The states a spool gives way to.
LEMMA Leaving ==
    ASSUME IInv, NEW r \in Requests, req[r].at \in Writing \cup Finishing
    PROVE  /\ Idle(Disabled(r)) /\ Idle(Failed(r)) /\ Idle(Other("discard", r, req[r].halted))
           /\ Idle(Halted(r)) \/ (req[r].at \in Finishing /\ Halted(r) = [req[r] EXCEPT !.halted = TRUE])
<1>1. req[r].halted \in BOOLEAN
  BY Kinds DEF IInv, TypeOK, Spools
<1>2. Idle(Disabled(r)) /\ Idle(Failed(r)) /\ Idle(Other("discard", r, req[r].halted))
  BY <1>1, OthersIdle, Zenon DEF Disabled, Failed
<1>3. CASE req[r].at \in Writing
  BY <1>2, <1>3, OthersIdle DEF Halted, At, Writing
<1>4. CASE req[r].at \in Finishing
  BY <1>2, <1>4 DEF Halted, At, Finishing
<1> QED BY <1>2, <1>3, <1>4

\* A write that is answered: the spool knows what the list holds.
LEMMA AnsweredKeeps ==
    ASSUME IInv, NEW r \in Requests, req[r].at \in Writing,
           NEW upto \in req[r].sent .. Len(Says[r]),
           NEW n, n = req[r].count + Len(Part(r, req[r].sent, upto)),
           WriteOwned(r, Part(r, req[r].sent, upto), n), row' = row,
           NEW q \in Spools, Become(r, q),
           q.sent = upto, q.count = Len(Text \o Part(r, req[r].sent, upto)),
           \/ /\ q.at \in Writing /\ q.begun
              /\ upto > req[r].sent \/ upto = 0
           \/ q.at = "rebuild" /\ upto = Len(Says[r])
    PROVE  IInv'
<1>1. /\ EntryKept(r)
      /\ owner' = Renewed(r) /\ meta' = Meta("owning", r, upto) /\ meta' # None
      /\ q.count = upto
      /\ list' # None => list'.text = Said(r, upto)
      /\ \/ upto = 0 /\ list' = None
         \/ upto = req[r].sent /\ upto > 0 /\ list' = list
         \/ upto > req[r].sent /\ list' # None /\ list'.ttl = Hot
  BY WriteKeeps
<1>2. q.sent \in Nat /\ Len(Says[r]) \in Nat /\ upto <= Len(Says[r]) /\ req[r].sent \in Nat
  BY SaysAssumption, LenProperties, Kinds DEF Spools, IInv, TypeOK
<1>3. SpoolFits(r, q, row')
  BY <1>1, <1>2 DEF SpoolFits, Writing, Finishing
<1>4. ReaderFits(q)
  BY DEF ReaderFits, Writing, Reading
<1>5. EntryFits(r, q, owner', meta', list')
  <2>1. /\ owner'.ttl = Lease /\ Hot > Lease
        /\ meta'.gen = r /\ meta'.status = "owning" /\ meta'.count = upto /\ meta'.ttl = Hot
    BY <1>1, TimesAssumption DEF Renewed, Meta
  <2>2. ~Bare(q)
    BY DEF Bare, Writing
  <2>3. Begun(q) => IF upto = 0 THEN list' = None ELSE list' # None /\ list'.ttl > Lease
    BY <1>1, <1>2, <2>1 DEF Begun, Writing
  <2> QED BY <1>1, <2>1, <2>2, <2>3 DEF EntryFits
<1>6. row' \in Rows \cup {None} /\ RowFits(row') /\ q \in States
  BY DEF IInv, TypeOK, States
<1> QED BY <1>1, <1>3, <1>4, <1>5, <1>6, StepKeeps
\* A spool that gives up leaves the entry as its script left it.
LEMMA GivesUp ==
    ASSUME IInv, NEW r \in Requests, NEW q, Idle(q), Become(r, q), EntryKept(r), row' = row
    PROVE  IInv'
BY LeaveKeeps DEF Idle

\* A write, whether its answer arrives or not.
LEMMA FlushKeeps ==
    ASSUME IInv, NEW r \in Requests, Flush(r)
    PROVE  IInv'
<1>1. req[r].at \in Writing /\ row' = row
  BY DEF Flush, At, Writing
<1>2. /\ req[r] \in Spools /\ req[r].sent \in Nat /\ Len(Says[r]) \in Nat
      /\ req[r].sent <= Len(Says[r]) /\ (~req[r].begun => req[r].sent = 0)
  BY <1>1, Kinds, SaysAssumption, LenProperties DEF IInv, TypeOK, Spools, SpoolFits
<1>3. PICK upto \in IF req[r].begun THEN req[r].sent + 1 .. Len(Says[r]) ELSE {0} :
         \/ /\ WriteOwned(r, Part(r, req[r].sent, upto),
                          req[r].count + Len(Part(r, req[r].sent, upto)))
            /\ \/ Become(r, [req[r] EXCEPT !.begun = TRUE, !.sent = upto,
                               !.count = Len(Text \o Part(r, req[r].sent, upto))])
               \/ Become(r, Disabled(r))
         \/ Untouched /\ Become(r, Disabled(r))
         \/ Untouched /\ Become(r, Unclaim)
  BY DEF Flush, Part
<1>4. upto \in req[r].sent .. Len(Says[r]) /\ (upto > req[r].sent \/ upto = 0) /\ upto \in Nat
  BY <1>2
<1>5. Idle(Disabled(r)) /\ Idle(Unclaim)
  BY <1>1, Leaving, OthersIdle
<1>6. CASE WriteOwned(r, Part(r, req[r].sent, upto),
                      req[r].count + Len(Part(r, req[r].sent, upto)))
  <2>1. EntryKept(r) /\ Len(Text \o Part(r, req[r].sent, upto)) = upto
    BY <1>1, <1>4, <1>6, WriteKeeps
  <2>2. CASE Become(r, Disabled(r))
    BY <1>1, <1>5, <2>1, <2>2, GivesUp
  <2>3. CASE Become(r, [req[r] EXCEPT !.begun = TRUE, !.sent = upto,
                          !.count = Len(Text \o Part(r, req[r].sent, upto))])
    <3> DEFINE q == [req[r] EXCEPT !.begun = TRUE, !.sent = upto,
                       !.count = Len(Text \o Part(r, req[r].sent, upto))]
    <3>1. q \in Spools /\ q.at = req[r].at /\ q.begun /\ q.sent = upto
          /\ q.count = Len(Text \o Part(r, req[r].sent, upto))
      BY <1>2, <1>4, <2>1 DEF Spools
    <3> HIDE DEF q
    <3> QED BY <1>1, <1>4, <1>6, <2>3, <3>1, AnsweredKeeps DEF q
  <2> QED BY <1>3, <1>5, <1>6, <2>1, <2>2, <2>3, UntouchedKeeps, GivesUp, <1>1
<1>7. CASE Untouched /\ (Become(r, Disabled(r)) \/ Become(r, Unclaim))
  BY <1>1, <1>5, <1>7, UntouchedKeeps, GivesUp
<1> QED BY <1>3, <1>6, <1>7

\* The last write, which ends in the whole response or in giving up.
LEMMA FinalWriteKeeps ==
    ASSUME IInv, NEW r \in Requests, FinalWrite(r)
    PROVE  IInv'
<1> DEFINE all == Len(Says[r])
<1>1. req[r].at \in Writing /\ row' = row /\ req[r].begun
  BY DEF FinalWrite, At, Writing
<1>2. req[r] \in Spools /\ req[r].sent \in Nat /\ all \in Nat /\ req[r].sent <= all
  BY <1>1, Kinds, SaysAssumption, LenProperties DEF IInv, TypeOK, Spools, SpoolFits
<1>3. all \in req[r].sent .. Len(Says[r])
  BY <1>2
<1>4. Idle(Failed(r))
  BY <1>1, Leaving
<1>5. CASE WriteOwned(r, Part(r, req[r].sent, all),
                      req[r].count + Len(Part(r, req[r].sent, all)))
  <2>1. EntryKept(r) /\ Len(Text \o Part(r, req[r].sent, all)) = all
    BY <1>1, <1>3, <1>5, WriteKeeps
  <2>2. CASE Become(r, Failed(r))
    BY <1>1, <1>4, <2>1, <2>2, GivesUp
  <2>3. CASE Become(r, [req[r] EXCEPT !.at = "rebuild", !.sent = all,
                          !.count = Len(Text \o Part(r, req[r].sent, all))])
    <3> DEFINE q == [req[r] EXCEPT !.at = "rebuild", !.sent = all,
                       !.count = Len(Text \o Part(r, req[r].sent, all))]
    <3>1. q \in Spools /\ q.at = "rebuild" /\ q.sent = all
          /\ q.count = Len(Text \o Part(r, req[r].sent, all))
      BY <1>2, <2>1 DEF Spools
    <3> HIDE DEF q
    <3> QED BY <1>1, <1>3, <1>5, <2>3, <3>1, AnsweredKeeps DEF q
  <2> QED BY <1>4, <1>1, <2>1, <2>2, <2>3, UntouchedKeeps, GivesUp DEF FinalWrite, Part
<1>6. CASE Untouched /\ Become(r, Failed(r))
  BY <1>1, <1>4, <1>6, UntouchedKeeps, GivesUp
<1> QED BY <1>5, <1>6 DEF FinalWrite, Part
\* A spool that only stops its heartbeat fits as before.
LEMMA HaltedFits ==
    ASSUME IInv, NEW r \in Requests, req[r].at \in Finishing,
           NEW o, NEW m, NEW l, EntryFits(r, req[r], o, m, l),
           NEW q, q = [req[r] EXCEPT !.halted = TRUE]
    PROVE  /\ q \in States
           /\ SpoolFits(r, q, row) /\ ReaderFits(q) /\ EntryFits(r, q, o, m, l)
<1>1. req[r] \in Spools
  BY Kinds DEF IInv, TypeOK
<1>2. q \in Spools /\ q.at = req[r].at /\ q.sent = req[r].sent /\ q.count = req[r].count
      /\ q.text = req[r].text
  BY <1>1 DEF Spools
<1>3. SpoolFits(r, q, row)
  <2>1. SpoolFits(r, req[r], row)
    BY DEF IInv
  <2> QED BY <1>2, <2>1 DEF SpoolFits, Writing, Finishing
<1>4. ReaderFits(q)
  BY <1>2 DEF ReaderFits, Reading, Finishing
<1>5. EntryFits(r, q, o, m, l)
  <2>1. ~Bare(q) /\ ~Begun(q)
    BY <1>2 DEF Bare, Begun, Writing, Finishing
  <2> QED BY <1>2, <2>1 DEF EntryFits
<1> QED BY <1>2, <1>3, <1>4, <1>5 DEF States

\* The heartbeat, whether it learns that the lease is its own or not.
LEMMA HeartbeatStepKeeps ==
    ASSUME IInv, NEW r \in Requests, Heartbeat(r)
    PROVE  IInv'
<1>1. req[r].at \in Writing \cup Finishing /\ row' = row
  BY DEF Heartbeat, At, Writing, Finishing
<1>2. row' \in Rows \cup {None} /\ RowFits(row')
  BY <1>1 DEF IInv, TypeOK
<1>3. HeartbeatOwned(r) \/ Untouched
  BY DEF Heartbeat
<1>4. EntryKept(r) /\ EntryFits(r, req[r], owner', meta', list')
  <2>1. Untouched => EntryFits(r, req[r], owner', meta', list')
    BY DEF Untouched, IInv
  <2> QED BY <1>3, <2>1, HeartbeatKeeps, UntouchedKeeps
<1>5. CASE UNCHANGED req
  <2>1. req[r] \in States /\ Become(r, req[r])
    BY <1>5 DEF IInv, TypeOK, Become
  <2>2. SpoolFits(r, req[r], row') /\ ReaderFits(req[r])
    BY <1>1 DEF IInv
  <2> QED BY <1>1, <1>2, <1>4, <2>1, <2>2, StepKeeps
<1>6. CASE Become(r, Halted(r))
  <2>1. CASE Idle(Halted(r))
    BY <1>1, <1>4, <1>6, <2>1, GivesUp
  <2>2. CASE req[r].at \in Finishing /\ Halted(r) = [req[r] EXCEPT !.halted = TRUE]
    <3>1. /\ Halted(r) \in States /\ SpoolFits(r, Halted(r), row) /\ ReaderFits(Halted(r))
          /\ EntryFits(r, Halted(r), owner', meta', list')
      BY <1>4, <2>2, HaltedFits
    <3> QED BY <1>1, <1>2, <1>4, <1>6, <3>1, StepKeeps
  <2> QED BY <1>1, <2>1, <2>2, Leaving
<1> QED BY <1>5, <1>6 DEF Heartbeat

\* Giving up before the response is complete.
LEMMA AbortKeeps ==
    ASSUME IInv, NEW r \in Requests, Abort(r)
    PROVE  IInv'
<1>1. req[r].at \in Writing /\ row' = row /\ Untouched /\ Become(r, Disabled(r))
  BY DEF Abort, At, Writing, Untouched
<1> QED BY <1>1, Leaving, UntouchedKeeps, GivesUp

\* The response is complete.
LEMMA CompleteStepKeeps ==
    ASSUME IInv, NEW r \in Requests, Complete(r)
    PROVE  IInv'
<1> DEFINE q == [req[r] EXCEPT !.at = "completing"]
<1>1. req[r].at = "open" /\ UNCHANGED <<owner, meta, list, row>> /\ Become(r, q)
  BY DEF Complete, At
<1>2. req[r] \in Spools
  BY <1>1, Kinds DEF IInv, TypeOK, Writing
<1>3. q \in Spools /\ q.at = "completing" /\ q.sent = req[r].sent /\ q.count = req[r].count
      /\ q.begun = req[r].begun
  BY <1>2 DEF Spools
<1> HIDE DEF q
<1>4. SpoolFits(r, req[r], row) /\ EntryFits(r, req[r], owner, meta, list)
  BY DEF IInv
<1>5. SpoolFits(r, q, row)
  BY <1>1, <1>3, <1>4 DEF SpoolFits, Writing, Finishing
<1>6. ReaderFits(q)
  BY <1>3 DEF ReaderFits, Reading
<1>7. Bare(q) <=> Bare(req[r])
  BY <1>1, <1>3 DEF Bare, Writing
<1>8. Begun(q) <=> Begun(req[r])
  BY <1>1, <1>3 DEF Begun, Writing
<1>9. q.at \notin Finishing
  BY <1>3 DEF Finishing
<1>10. EntryFits(r, q, owner, meta, list)
  BY <1>3, <1>4, <1>7, <1>8, <1>9 DEF EntryFits
<1> QED BY <1>1, <1>3, <1>5, <1>6, <1>10, LocalKeeps DEF States

\* What is read back under the lease is the whole response.
LEMMA RebuildKeeps ==
    ASSUME IInv, NEW r \in Requests, Rebuild(r)
    PROVE  IInv'
<1> DEFINE q == [req[r] EXCEPT !.at = "persist", !.text = SubSeq(Text, 1, req[r].count)]
<1>1. req[r].at = "rebuild" /\ UNCHANGED <<owner, meta, list, row>>
  BY DEF Rebuild, At
<1>2. req[r] \in Spools /\ req[r].count = Len(Says[r]) /\ req[r].sent = Len(Says[r])
  BY <1>1, Kinds DEF IInv, TypeOK, SpoolFits, Finishing
<1>3. CASE Holds(r) /\ Len(Text) >= req[r].count /\ Become(r, q)
  <2>1. EntryFits(r, req[r], owner, meta, list)
    BY DEF IInv
  <2>2. Says[r] \in Seq(Words) /\ Len(Says[r]) \in Nat /\ Len(Says[r]) # 0
        /\ Said(r, Len(Says[r])) = Says[r] /\ Len(<<>>) = 0
    BY SaysAssumption, LenProperties, EmptyIffShort, EmptySeq, SubSeqFull DEF Said
  <2>3. list # None
    BY <1>2, <1>3, <2>2 DEF Text
  <2>4. Text = Says[r]
    BY <1>1, <1>2, <1>3, <2>1, <2>2, <2>3 DEF EntryFits, Holds, Finishing, Text
  <2>5. SubSeq(Text, 1, req[r].count) = Says[r]
    BY <1>2, <2>2, <2>4 DEF Said
  <2>6. q \in Spools /\ q.at = "persist" /\ q.sent = req[r].sent /\ q.count = req[r].count
        /\ q.text = Says[r]
    BY <1>2, <2>2, <2>5 DEF Spools
  <2> HIDE DEF q
  <2>7. SpoolFits(r, q, row)
    BY <1>2, <2>2, <2>6 DEF SpoolFits, Writing, Finishing
  <2>8. ReaderFits(q)
    BY <2>6 DEF ReaderFits, Reading
  <2>9. ~Bare(q) /\ ~Begun(q) /\ req[r].at \in Finishing
    BY <1>1, <2>6 DEF Bare, Begun, Writing, Finishing
  <2>10. EntryFits(r, q, owner, meta, list)
    BY <2>1, <2>6, <2>9 DEF EntryFits
  <2> QED BY <1>1, <1>3, <2>6, <2>7, <2>8, <2>10, LocalKeeps DEF States
<1>4. CASE Become(r, Failed(r))
  BY <1>1, <1>4, Leaving, UntouchedKeeps, GivesUp DEF Untouched, Finishing
<1> QED BY <1>3, <1>4 DEF Rebuild
\* The row is the whole response before the entry may say that it is complete.
LEMMA PersistKeeps ==
    ASSUME IInv, NEW r \in Requests, Persist(r)
    PROVE  IInv'
<1> DEFINE stored == [text |-> req[r].text, source |-> r]
           publish == [req[r] EXCEPT !.at = "publish", !.text = <<>>]
<1>1. req[r].at = "persist" /\ Untouched /\ owner' = owner /\ meta' = meta /\ list' = list
  BY DEF Persist, At, Untouched
<1>2. req[r] \in Spools /\ req[r].count = req[r].sent /\ req[r].sent = Len(Says[r])
      /\ req[r].text = Says[r] /\ Says[r] \in Seq(Words) /\ Len(Says[r]) \in Nat
  BY <1>1, Kinds, SaysAssumption, LenProperties DEF IInv, TypeOK, SpoolFits, Finishing
<1>3. stored \in Rows /\ stored.text = Says[r] /\ stored.source = r
  BY <1>2 DEF Rows
<1>4. publish \in Spools /\ publish.at = "publish" /\ publish.sent = req[r].sent
      /\ publish.count = req[r].count
  BY <1>2, EmptySeq DEF Spools
<1>5. EntryKept(r)
  BY <1>1, UntouchedKeeps
<1> HIDE DEF publish, stored
<1>6. stored # None
  BY <1>3, Somethings
<1>7. CASE Become(r, publish) /\ row' # None /\ row'.text = Says[r]
           /\ row' \in Rows \cup {None} /\ RowFits(row') /\ (row # None => row' = row)
  <2>1. SpoolFits(r, publish, row')
    BY <1>2, <1>4, <1>7 DEF SpoolFits, Writing, Finishing
  <2>2. ReaderFits(publish)
    BY <1>4 DEF ReaderFits, Reading
  <2>3. ~Bare(publish) /\ ~Begun(publish) /\ req[r].at \in Finishing
    BY <1>1, <1>4 DEF Bare, Begun, Writing, Finishing
  <2>4. EntryFits(r, publish, owner', meta', list')
    <3>1. EntryFits(r, req[r], owner, meta, list)
      BY DEF IInv
    <3> QED BY <1>1, <1>4, <2>3, <3>1 DEF EntryFits
  <2> QED BY <1>4, <1>5, <1>7, <2>1, <2>2, <2>4, StepKeeps DEF States
<1>8. ASSUME NEW q, Idle(q), Become(r, q), row' \in Rows \cup {None}, RowFits(row'),
             row # None => row' = row
      PROVE  IInv'
  <2>1. SpoolFits(r, q, row') /\ ReaderFits(q) /\ EntryFits(r, q, owner', meta', list')
    BY <1>8, IdleFits DEF Idle
  <2> QED BY <1>5, <1>8, <2>1, StepKeeps DEF Idle
<1>9. Idle(Failed(r)) /\ Idle(Other("discard", r, req[r].halted))
  BY <1>1, Leaving DEF Finishing
<1>10. RowFits(stored) /\ row \in Rows \cup {None} /\ RowFits(row)
  BY <1>3 DEF RowFits, IInv, TypeOK
<1>11. \/ row = None /\ row' = stored /\ (Become(r, publish) \/ Become(r, Failed(r)))
       \/ row' = row /\ Become(r, Failed(r))
       \/ row # None /\ row' = row /\ row.text = req[r].text /\ Become(r, publish)
       \/ row' = row /\ Become(r, Other("discard", r, req[r].halted))
  BY DEF Persist, publish, stored
<1>12. CASE row = None /\ row' = stored
  BY <1>3, <1>6, <1>7, <1>8, <1>9, <1>10, <1>11, <1>12
<1>13. CASE row' = row
  BY <1>2, <1>6, <1>7, <1>8, <1>9, <1>10, <1>11, <1>13
<1> QED BY <1>11, <1>12, <1>13

\* The entry says that it is complete, whether the owner learns of it or not.
LEMMA PublishKeeps ==
    ASSUME IInv, NEW r \in Requests, Publish(r)
    PROVE  IInv'
<1>1. req[r].at = "publish" /\ row' = row /\ req[r].at \in Finishing
  BY DEF Publish, At, Finishing
<1>2. CompleteOwned(r, req[r].count) \/ Untouched
  BY DEF Publish
<1>3. EntryKept(r)
  BY <1>1, <1>2, CompleteKeeps, UntouchedKeeps
<1>4. Become(r, Done) \/ Become(r, Unclaim) \/ Become(r, Failed(r))
  BY DEF Publish
<1>5. Idle(Done) /\ Idle(Unclaim) /\ Idle(Failed(r))
  BY <1>1, Leaving, OthersIdle
<1> QED BY <1>1, <1>3, <1>4, <1>5, GivesUp

\* The entry is given up: it says so, or it is deleted.
LEMMA SealKeeps ==
    ASSUME IInv, NEW r \in Requests, Seal(r) \/ Discard(r)
    PROVE  IInv'
<1>1. req[r].at \in {"seal", "discard"} /\ row' = row
  BY DEF Seal, Discard, At
<1>2. req[r].gen \in Requests \cup {None}
  BY <1>1, Kinds DEF IInv, TypeOK, Others
<1>3. AbortOwned(r, req[r].gen) \/ DiscardOwned(r) \/ Untouched
  BY DEF Seal, Discard
<1>4. EntryKept(r)
  BY <1>2, <1>3, RemovalKeeps, UntouchedKeeps
<1>5. Become(r, Done) \/ Become(r, Unclaim)
  BY DEF Seal, Discard, After
<1> QED BY <1>1, <1>4, <1>5, OthersIdle, GivesUp

\* The lease is given back; a request served from the row has all of it.
LEMMA ReleaseStepKeeps ==
    ASSUME IInv, NEW r \in Requests, Release(r)
    PROVE  IInv'
<1>1. req[r].at \in {"unclaim", "serve"} /\ row' = row
  BY DEF Release, At
<1>2. EntryKept(r)
  BY ReleaseKeeps, UntouchedKeeps DEF Release
<1>3. CASE req[r].at = "serve"
  <2>1. Become(r, [req[r] EXCEPT !.at = "closed"])
    BY <1>3 DEF Release, At
  <2>2. req[r] \in Readers /\ req[r].gen \in Requests
        /\ req[r].out = Said(req[r].gen, Len(req[r].out))
        /\ Len(req[r].out) \in 0..Len(Says[req[r].gen])
    BY <1>3, OutIsSaid DEF Reading
  <2>3. req[r].out = Says[req[r].gen] /\ req[r].count \in Nat \cup {None}
        /\ (req[r].count # None => req[r].count = Len(Says[req[r].gen]))
    BY <1>3, <2>2 DEF IInv, ReaderFits, Reading, Readers
  <2>4. [req[r] EXCEPT !.at = "closed"]
           = [req[r] EXCEPT !.at = "closed", !.out = req[r].out, !.count = req[r].count]
    BY <2>2 DEF Readers
  <2>5. Len(req[r].out) = Len(Says[req[r].gen])
    BY <2>3
  <2>6. /\ "closed" \in Reading \ {"first"} /\ req[r].at \in Reading
        /\ Become(r, [req[r] EXCEPT !.at = "closed", !.out = req[r].out, !.count = req[r].count])
    BY <1>3, <2>1, <2>4 DEF Reading
  <2> QED BY <1>1, <1>2, <2>2, <2>3, <2>5, <2>6, FollowKeeps
<1>4. CASE req[r].at # "serve"
  <2>1. Become(r, Done)
    BY <1>4 DEF Release, At
  <2> QED BY <1>1, <1>2, <2>1, OthersIdle, GivesUp
<1> QED BY <1>3, <1>4

-----------------------------------------------------------------------------
(* The subscriber. *)

\* A subscriber that only changes its stage, or learns how long the response is.
LEMMA StageKeeps ==
    ASSUME IInv, NEW r \in Requests, req[r].at \in Reading, req[r].at # "first",
           NEW at \in Reading \ {"first"}, EntryKept(r), row' = row,
           at \in {"serve", "closed"} => Len(req[r].out) = Len(Says[req[r].gen]),
           End(r, at)
    PROVE  IInv'
<1>1. req[r] \in Readers /\ req[r].gen \in Requests
      /\ req[r].out = Said(req[r].gen, Len(req[r].out))
      /\ Len(req[r].out) \in 0..Len(Says[req[r].gen])
  BY OutIsSaid
<1>2. req[r].count \in Nat \cup {None}
      /\ (req[r].count # None => req[r].count = Len(Says[req[r].gen]))
  BY <1>1 DEF IInv, ReaderFits, Readers
<1>3. [req[r] EXCEPT !.at = at]
         = [req[r] EXCEPT !.at = at, !.out = req[r].out, !.count = req[r].count]
  BY <1>1 DEF Readers
<1> QED BY <1>1, <1>2, <1>3, FollowKeeps DEF End

\* A subscriber reads the next page, or ends, or looks elsewhere.
LEMMA ReadKeeps ==
    ASSUME IInv, NEW r \in Requests, Read(r)
    PROVE  IInv'
<1> DEFINE q == req[r]
           last == IF Knows(r) THEN q.count ELSE Len(Text)
           page == Chunks(Len(q.out), last)
<1>1. /\ q.at = "read" /\ q.at \in Reading
      /\ owner' = owner /\ meta' = meta /\ row' = row
  BY DEF Read, At, Reading
<1>2. /\ q \in Readers /\ q.gen \in Requests /\ q.count \in Nat \cup {None}
      /\ q.out = Said(q.gen, Len(q.out)) /\ Len(q.out) \in 0..Len(Says[q.gen])
      /\ Len(Says[q.gen]) \in Nat
      /\ q.count # None => q.count = Len(Says[q.gen])
  <2>1. ReaderFits(q)
    BY DEF IInv
  <2> QED BY <1>1, <2>1, OutIsSaid, Speech DEF ReaderFits, Readers
<1>3. CASE Knows(r) /\ Len(q.out) = q.count /\ End(r, "closed") /\ list' = list
  <2>1. Len(q.out) = Len(Says[q.gen])
    BY <1>2, <1>3 DEF Knows
  <2>2. EntryKept(r)
    BY <1>1, <1>3, UntouchedKeeps DEF Untouched
  <2>3. q.at # "first" /\ "closed" \in Reading \ {"first"}
    BY <1>1 DEF Reading
  <2> QED BY <1>1, <1>3, <2>1, <2>2, <2>3, StageKeeps
<1>4. ASSUME NEW at \in {"errored", "durable", "peek"}, End(r, at), list' = list
      PROVE  IInv'
  <2>1. EntryKept(r)
    BY <1>1, <1>4, UntouchedKeeps DEF Untouched
  <2>2. q.at # "first" /\ at \in Reading \ {"first"} /\ at \notin {"serve", "closed"}
    BY <1>1 DEF Reading
  <2> QED BY <1>1, <1>4, <2>1, <2>2, StageKeeps
<1>5. CASE /\ meta # None /\ meta.gen = q.gen /\ page # <<>>
           /\ Become(r, [q EXCEPT !.out = @ \o page])
           /\ list' = IF Knows(r) THEN [list EXCEPT !.ttl = meta.ttl] ELSE list
  <2>0. Len(Text) \in Nat /\ Len(q.out) \in Nat
    BY <1>2, ChunksType, 0 \in Nat
  <2>1. last \in Nat
    BY <1>2, <2>0 DEF Knows
  <2>2. list # None /\ \E m \in 0..Len(Says[q.gen]) : Said(q.gen, Len(q.out)) \o page = Said(q.gen, m)
    <3>1. PICK n \in Nat, k \in Nat : n = Len(q.out) /\ k = last
      BY <2>0, <2>1
    <3>2. meta # None /\ Chunks(n, k) # <<>> /\ meta.gen = q.gen /\ Chunks(n, k) = page
      BY <1>5, <3>1
    <3>3. list # None /\ \E m \in 0..Len(Says[meta.gen]) :
                            Said(meta.gen, n) \o Chunks(n, k) = Said(meta.gen, m)
      BY <3>2, PageContinues
    <3> QED BY <3>1, <3>2, <3>3
  <2>3. PICK m \in 0..Len(Says[q.gen]) : Said(q.gen, Len(q.out)) \o page = Said(q.gen, m)
    BY <2>2
  <2> HIDE DEF page
  <2>4. q.out \o page = Said(q.gen, m)
    BY <1>2, <2>3
  <2>5. [q EXCEPT !.out = @ \o page]
           = [q EXCEPT !.at = "read", !.out = q.out \o page, !.count = q.count]
    BY <1>1, <1>2 DEF Readers
  <2>6. EntryKept(r)
    BY <1>1, <1>5, <2>2, RefreshKeeps, UntouchedKeeps DEF Untouched
  <2>7. Become(r, [q EXCEPT !.at = "read", !.out = q.out \o page, !.count = q.count])
    BY <1>5, <2>5
  <2> QED BY <1>1, <1>2, <2>4, <2>6, <2>7, FollowKeeps
<1>6. \/ Knows(r) /\ Len(q.out) = q.count /\ End(r, "closed") /\ list' = list
      \/ \E at \in {"errored", "durable", "peek"} : End(r, at) /\ list' = list
      \/ /\ meta # None /\ meta.gen = q.gen /\ page # <<>>
         /\ Become(r, [q EXCEPT !.out = @ \o page])
         /\ list' = IF Knows(r) THEN [list EXCEPT !.ttl = meta.ttl] ELSE list
  BY DEF Read
<1> QED BY <1>3, <1>4, <1>5, <1>6

\* A completed meta tells the length of the response it names.
LEMMA PeekKeeps ==
    ASSUME IInv, NEW r \in Requests, Peek(r)
    PROVE  IInv'
<1>1. req[r].at = "peek" /\ UNCHANGED <<owner, meta, list, row>>
  BY DEF Peek, At
<1>2. EntryKept(r)
  BY <1>1, UntouchedKeeps DEF Untouched
<1>3. ASSUME NEW at \in {"gone", "errored", "read"}, End(r, at)
      PROVE  IInv'
  <2>1. /\ req[r].at \in Reading /\ req[r].at # "first"
        /\ at \in Reading \ {"first"} /\ at \notin {"serve", "closed"}
    BY <1>1 DEF Reading
  <2> QED BY <1>1, <1>2, <1>3, <2>1, StageKeeps
<1>4. CASE /\ meta # None /\ meta.status = "completed" /\ meta.gen = req[r].gen
           /\ Become(r, [req[r] EXCEPT !.at = "read", !.count = meta.count])
  <2>1. meta.count \in Nat /\ meta.count = Len(Says[req[r].gen])
    BY <1>4 DEF IInv, TypeOK, MetaFits, Metas
  <2>2. req[r].at \in Reading /\ "read" \in Reading
    BY <1>1 DEF Reading
  <2>3. /\ req[r] \in Readers /\ Len(req[r].out) \in 0..Len(Says[req[r].gen])
        /\ req[r].out = Said(req[r].gen, Len(req[r].out))
    BY <2>2, OutIsSaid
  <2>4. [req[r] EXCEPT !.at = "read", !.count = meta.count]
           = [req[r] EXCEPT !.at = "read", !.out = req[r].out, !.count = meta.count]
    BY <2>3 DEF Readers
  <2>5. Become(r, [req[r] EXCEPT !.at = "read", !.out = req[r].out, !.count = meta.count])
    BY <1>4, <2>4
  <2> QED BY <1>1, <1>2, <2>1, <2>2, <2>3, <2>5, FollowKeeps
<1> QED BY <1>3, <1>4 DEF Peek

\* The rest of the row is the rest of the response.
LEMMA ContinueKeeps ==
    ASSUME IInv, NEW r \in Requests, Continue(r)
    PROVE  IInv'
<1>1. req[r].at \in {"durable", "gone"} /\ UNCHANGED <<owner, meta, list, row>>
  BY DEF Continue, At
<1>2. EntryKept(r) /\ req[r].at \in Reading /\ req[r].at # "first"
  BY <1>1, UntouchedKeeps DEF Untouched, Reading
<1>3. /\ req[r] \in Readers /\ req[r].gen \in Requests
      /\ Len(req[r].out) \in 0..Len(Says[req[r].gen])
      /\ req[r].out = Said(req[r].gen, Len(req[r].out))
      /\ Len(Says[req[r].gen]) \in Nat
  BY <1>2, OutIsSaid, Speech
<1>4. CASE End(r, "errored")
  BY <1>1, <1>2, <1>4, StageKeeps DEF Reading
<1> DEFINE rest == SubSeq(row.text, Len(req[r].out) + 1, Len(row.text))
<1>5. CASE /\ row # None /\ row.source = req[r].gen
           /\ Become(r, [req[r] EXCEPT !.at = "closed", !.out = @ \o rest])
  <2>1. row.text = Says[req[r].gen]
    BY <1>5 DEF IInv, RowFits
  <2>2. rest = Part(req[r].gen, Len(req[r].out), Len(Says[req[r].gen]))
    BY <2>1 DEF Part
  <2> HIDE DEF rest
  <2>3. Len(Says[req[r].gen]) \in Len(req[r].out) .. Len(Says[req[r].gen])
        /\ Len(Says[req[r].gen]) \in 0 .. Len(Says[req[r].gen])
    BY <1>3
  <2>4. req[r].out \o rest = Said(req[r].gen, Len(Says[req[r].gen]))
    <3>1. PICK n \in 0..Len(Says[req[r].gen]) : n = Len(req[r].out)
      BY <1>3
    <3>2. Said(req[r].gen, n) \o Part(req[r].gen, n, Len(Says[req[r].gen]))
             = Said(req[r].gen, Len(Says[req[r].gen]))
      BY <1>3, <2>3, <3>1, NextPart
    <3> QED BY <1>3, <2>2, <3>1, <3>2
  <2>5. req[r].count \in Nat \cup {None}
        /\ (req[r].count # None => req[r].count = Len(Says[req[r].gen]))
    BY <1>2, <1>3 DEF IInv, ReaderFits, Readers
  <2>6. [req[r] EXCEPT !.at = "closed", !.out = @ \o rest]
           = [req[r] EXCEPT !.at = "closed", !.out = req[r].out \o rest, !.count = req[r].count]
    BY <1>3 DEF Readers
  <2>7. Become(r, [req[r] EXCEPT !.at = "closed", !.out = req[r].out \o rest, !.count = req[r].count])
        /\ "closed" \in Reading /\ "closed" # "first"
    BY <1>5, <2>6 DEF Reading
  <2> QED BY <1>1, <1>2, <2>3, <2>4, <2>5, <2>7, FollowKeeps
<1> QED BY <1>4, <1>5 DEF Continue

-----------------------------------------------------------------------------
(* The environment. *)

\* A request that is gone neither reads nor owns.
LEMMA CrashKeeps ==
    ASSUME IInv, NEW r \in Requests, Crash(r)
    PROVE  IInv'
<1>1. Become(r, Done) /\ UNCHANGED <<owner, meta, list, row>>
  BY DEF Crash
<1>2. Done \in States /\ Done.at = "done"
  BY Shapes DEF Done, Other
<1> QED BY <1>1, <1>2, QuietKeeps DEF Writing, Finishing, Reading

\* A key ages: it is gone at its last tick, and otherwise the same for one tick less.
LEMMA AgedLease ==
    ASSUME NEW o \in Owners \cup {None}
    PROVE  /\ Aged(o) \in Owners \cup {None}
           /\ Aged(o) # None => /\ o # None /\ o.ttl \in Nat /\ o.ttl > 1
                                /\ Aged(o).ttl = o.ttl - 1 /\ Aged(o).token = o.token
<1>1. CASE o = None
  BY <1>1 DEF Aged
<1>2. CASE o \in Owners
  BY <1>2, TimesAssumption, Somethings DEF Aged, Owners
<1> QED BY <1>1, <1>2

\* So does the meta.
LEMMA AgedMeta ==
    ASSUME NEW m \in Metas \cup {None}
    PROVE  /\ Aged(m) \in Metas \cup {None}
           /\ m # None => m.ttl \in Nat
           /\ m # None /\ m.ttl > 1 => Aged(m) # None /\ Aged(m).ttl = m.ttl - 1
           /\ Aged(m) # None => /\ m # None
                                /\ Aged(m).status = m.status /\ Aged(m).gen = m.gen
                                /\ Aged(m).count = m.count
<1>1. CASE m = None
  BY <1>1 DEF Aged
<1>2. CASE m \in Metas
  <2>1. m.ttl \in 1..Hot /\ Hot \in Nat /\ m # None
    BY <1>2, TimesAssumption, Somethings DEF Metas
  <2>2. CASE m.ttl = 1
    BY <2>1, <2>2 DEF Aged
  <2>3. CASE m.ttl # 1
    <3>1. Aged(m) = [m EXCEPT !.ttl = m.ttl - 1] /\ m.ttl - 1 \in 1..Hot
      BY <2>1, <2>3 DEF Aged
    <3>2. /\ Aged(m) \in Metas /\ Aged(m).ttl = m.ttl - 1
          /\ Aged(m).status = m.status /\ Aged(m).gen = m.gen /\ Aged(m).count = m.count
      BY <1>2, <3>1 DEF Metas
    <3> QED BY <2>1, <3>2, Somethings
  <2> QED BY <2>2, <2>3
<1> QED BY <1>1, <1>2

\* So do the chunks.
LEMMA AgedList ==
    ASSUME NEW l \in Lists \cup {None}
    PROVE  /\ Aged(l) \in Lists \cup {None}
           /\ l # None => l.ttl \in Nat
           /\ l # None /\ l.ttl > 1 => Aged(l) # None /\ Aged(l).ttl = l.ttl - 1
           /\ Aged(l) # None => l # None /\ Aged(l).text = l.text
<1>1. CASE l = None
  BY <1>1 DEF Aged
<1>2. CASE l \in Lists
  <2>1. l.ttl \in 1..Hot /\ Hot \in Nat /\ l # None
    BY <1>2, TimesAssumption, Somethings DEF Lists
  <2>2. CASE l.ttl = 1
    BY <2>1, <2>2 DEF Aged
  <2>3. CASE l.ttl # 1
    <3>1. Aged(l) = [l EXCEPT !.ttl = l.ttl - 1] /\ l.ttl - 1 \in 1..Hot
      BY <2>1, <2>3 DEF Aged
    <3>2. Aged(l) \in Lists /\ Aged(l).ttl = l.ttl - 1 /\ Aged(l).text = l.text
      BY <1>2, <3>1 DEF Lists
    <3> QED BY <2>1, <3>2, Somethings
  <2> QED BY <2>2, <2>3
<1> QED BY <1>1, <1>2

\* The lease goes before the entry it protects.
LEMMA TickKeeps ==
    ASSUME IInv, Tick
    PROVE  IInv'
<1>1. /\ owner' = Aged(owner) /\ meta' = Aged(meta) /\ list' = Aged(list)
      /\ row' = row /\ req' = req
      /\ owner \in Owners \cup {None} /\ meta \in Metas \cup {None} /\ list \in Lists \cup {None}
  BY DEF Tick, IInv, TypeOK
<1>2. TypeOK'
  BY <1>1, AgedLease, AgedMeta, AgedList DEF IInv, TypeOK
<1>3. MetaFits(meta') /\ ListFits(meta', list')
  BY <1>1, AgedMeta, AgedList DEF IInv, MetaFits, ListFits
<1>4. ASSUME NEW r \in Requests
      PROVE  EntryFits(r, req[r], owner', meta', list')
  <2>1. EntryFits(r, req[r], owner, meta, list)
    BY DEF IInv
  <2>2. CASE owner' = None
    BY <2>2 DEF EntryFits
  <2>3. CASE owner' # None
    <3>1. owner # None /\ owner.ttl \in Nat /\ owner.ttl > 1
          /\ owner'.ttl = owner.ttl - 1 /\ owner'.token = owner.token
      BY <1>1, <2>3, AgedLease
    <3>2. meta # None /\ meta.ttl > owner.ttl =>
            /\ meta' # None /\ meta'.ttl > owner'.ttl
            /\ meta'.status = meta.status /\ meta'.gen = meta.gen /\ meta'.count = meta.count
      BY <1>1, <3>1, AgedMeta
    <3>3. list # None /\ list.ttl > owner.ttl => list' # None /\ list'.ttl > owner'.ttl
      BY <1>1, <3>1, AgedList
    <3>4. (meta = None => meta' = None) /\ (list = None => list' = None)
          /\ (list' # None => list # None /\ list'.text = list.text)
      BY <1>1, AgedList DEF Aged
    <3> QED BY <2>1, <3>1, <3>2, <3>3, <3>4 DEF EntryFits
  <2> QED BY <2>2, <2>3
<1> QED BY <1>1, <1>2, <1>3, <1>4 DEF IInv

\* A row goes at any time, but not while it is being published.
LEMMA RowExpiresKeeps ==
    ASSUME IInv, RowExpires
    PROVE  IInv'
<1>1. /\ row' = None /\ UNCHANGED <<owner, meta, list, req>>
      /\ \A r \in Requests : req[r].at # "publish"
  BY DEF RowExpires, At
<1>2. TypeOK' /\ RowFits(row')
  BY <1>1 DEF IInv, TypeOK, RowFits
<1>3. \A r \in Requests : SpoolFits(r, req[r], row')
  BY <1>1 DEF IInv, SpoolFits
<1> QED BY <1>1, <1>2, <1>3 DEF IInv

\* Nothing happened: nothing changes.
LEMMA StutterKeeps ==
    ASSUME IInv, UNCHANGED vars
    PROVE  IInv'
BY DEF IInv, TypeOK, vars

-----------------------------------------------------------------------------
(* The invariant. *)

\* At first there is no entry and every request is at the guard.
LEMMA InitIInv == Init => IInv
<1> SUFFICES ASSUME Init PROVE IInv
  OBVIOUS
<1>1. \A r \in Requests : req[r] = Guard("new", FALSE, FALSE)
  BY DEF Init
<1>2. Guard("new", FALSE, FALSE) \in States /\ Guard("new", FALSE, FALSE).at = "new"
  BY Shapes DEF Guard
<1>3. TypeOK
  BY <1>1, <1>2 DEF Init, TypeOK
<1>4. \A r \in Requests : /\ SpoolFits(r, req[r], row) /\ ReaderFits(req[r])
                          /\ EntryFits(r, req[r], owner, meta, list)
  BY <1>1, <1>2, IdleFits DEF Writing, Finishing, Reading
<1> QED BY <1>3, <1>4 DEF Init, IInv, MetaFits, RowFits, ListFits

\* Every step keeps the invariant.
LEMMA Invariance == IInv /\ [Next]_vars => IInv'
<1> SUFFICES ASSUME IInv, [Next]_vars PROVE IInv'
  OBVIOUS
<1>1. ASSUME NEW r \in Requests, GuardStep(r)
      PROVE  IInv'
  BY <1>1, EnterKeeps, ClaimKeeps, LookupKeeps, PrepareKeeps DEF GuardStep
<1>2. ASSUME NEW r \in Requests, SpoolStep(r)
      PROVE  IInv'
  BY <1>2, OpenSpoolKeeps, FlushKeeps, AbortKeeps, CompleteStepKeeps, FinalWriteKeeps,
     RebuildKeeps, PersistKeeps, PublishKeeps, SealKeeps, ReleaseStepKeeps DEF SpoolStep
<1>3. ASSUME NEW r \in Requests, ReaderStep(r)
      PROVE  IInv'
  BY <1>3, FirstPageKeeps, ReadKeeps, PeekKeeps, ContinueKeeps DEF ReaderStep
<1>4. ASSUME NEW r \in Requests, Heartbeat(r) \/ Crash(r)
      PROVE  IInv'
  BY <1>4, HeartbeatStepKeeps, CrashKeeps
<1>5. CASE Tick \/ RowExpires
  BY <1>5, TickKeeps, RowExpiresKeeps
<1>6. CASE UNCHANGED vars
  BY <1>6, StutterKeeps
<1> QED BY <1>1, <1>2, <1>3, <1>4, <1>5, <1>6 DEF Next

\* The invariant holds in every reachable state.
LEMMA Reachable == Spec => []IInv
BY InitIInv, Invariance, PTL DEF Spec

\* The keys, the row and what each request is doing have their types: in particular
\* the script that completes an entry never counts what is not a number.
THEOREM ReplayTypes == Spec => []TypeOK
<1>1. IInv => TypeOK
  BY DEF IInv
<1> QED BY <1>1, Reachable, PTL

\* The chunks in Redis are always a prefix of one response, that of the generation
\* the meta names, and as many as it counts: no owner slower than its lease writes
\* into its successor's entry, whatever expires or is lost.
THEOREM EntryIsOneResponse == Spec => []OneResponse
<1>1. IInv => OneResponse
  BY DEF IInv, ListFits, OneResponse
<1> QED BY <1>1, Reachable, PTL

\* A subscriber sends a prefix of the response it attached to, and ends well only
\* with all of it, from whichever of the list and the row it was served.
THEOREM SubscribersAreFaithful == Spec => []Faithful
<1>1. IInv => Faithful
  BY DEF IInv, ReaderFits, Faithful, At, Reading
<1> QED BY <1>1, Reachable, PTL

\* An entry becomes complete in the publication of its own owner only, and then the
\* row holds what the entry is said to be.
THEOREM CompletionIsDurable == Spec => CompletedIsDurable
<1>1. IInv /\ [Next]_vars =>
        (Completed' /\ ~(Completed /\ meta'.gen = meta.gen) => row # None /\ row.text = Says[meta'.gen])
  <2> SUFFICES ASSUME IInv, [Next]_vars, Completed', ~(Completed /\ meta'.gen = meta.gen)
               PROVE  row # None /\ row.text = Says[meta'.gen]
    OBVIOUS
  <2>1. ASSUME NEW r \in Requests, Publish(r)
        PROVE  row # None /\ row.text = Says[meta'.gen]
    <3>1. row # None /\ row.text = Says[r]
      BY <2>1 DEF Publish, At, IInv, SpoolFits
    <3>2. CASE CompleteOwned(r, req[r].count)
      BY <3>1, <3>2 DEF CompleteOwned, Meta
    <3>3. CASE Untouched
      BY <3>3 DEF Untouched, Completed
    <3> QED BY <2>1, <3>2, <3>3 DEF Publish
  <2>2. ASSUME NEW r \in Requests, ~Publish(r),
               GuardStep(r) \/ SpoolStep(r) \/ ReaderStep(r) \/ Heartbeat(r) \/ Crash(r)
        PROVE  FALSE
    <3>1. \/ meta' = meta \/ meta' = None
          \/ \E n : meta' = Meta("owning", r, n)
          \/ \E g : meta' = Meta("aborted", g, 0)
          \/ meta # None /\ meta' = [meta EXCEPT !.ttl = Hot]
      BY <2>2
         DEF GuardStep, Enter, Claim, Lookup, Prepare, PrepareOwned,
             SpoolStep, OpenSpool, Flush, Abort, Complete, FinalWrite, Rebuild, Persist,
             Seal, Discard, Release, WriteOwned, AbortOwned, DiscardOwned, ReleaseOwner,
             ReaderStep, FirstPage, Read, Peek, Continue, Heartbeat, HeartbeatOwned, Crash,
             Untouched
    <3>2. meta # None => [meta EXCEPT !.ttl = Hot].status = meta.status
                         /\ [meta EXCEPT !.ttl = Hot].gen = meta.gen
      BY DEF IInv, TypeOK, Metas
    <3>3. meta' # None /\ meta'.status = "completed"
          /\ ~(meta # None /\ meta.status = "completed" /\ meta'.gen = meta.gen)
      BY DEF Completed
    <3>4. meta' # meta /\ meta' # None
      BY <3>3
    <3>5. \A n, g : Meta("owning", r, n).status = "owning" /\ Meta("aborted", g, 0).status = "aborted"
      BY DEF Meta
    <3> QED BY <3>1, <3>2, <3>3, <3>4, <3>5
  <2>3. CASE Tick \/ RowExpires \/ UNCHANGED vars
    <3>1. meta \in Metas \cup {None} /\ meta' \in {meta, Aged(meta)}
      BY <2>3 DEF Tick, RowExpires, vars, IInv, TypeOK
    <3> QED BY <3>1, AgedMeta DEF Completed
  <2> QED BY <2>1, <2>2, <2>3 DEF Next
<1> QED BY <1>1, Reachable, PTL DEF Spec, CompletedIsDurable

=============================================================================
