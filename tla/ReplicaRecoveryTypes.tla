------------------------- MODULE ReplicaRecoveryTypes -------------------------
(***************************************************************************)
(* The types of ReplicaRecovery, in every environment.                     *)
(***************************************************************************)
EXTENDS ReplicaRecoveryInvariant, TLAPS

\* What AdvanceAll does to the entry of a clock.
LEMMA AdvanceAllFacts ==
    ASSUME NEW map \in Maps, NEW S \in SUBSET Tags, Latest(S)
    PROVE  /\ AdvanceAll(map, S) \in Maps
           /\ \A k \in Clock :
                /\ map[k].tick <= AdvanceAll(map, S)[k].tick
                /\ \/ AdvanceAll(map, S)[k] = map[k]
                   \/ \E t \in S : /\ t.clock = k /\ map[k].tick < t.tick
                                   /\ AdvanceAll(map, S)[k] = Entry(t)
           /\ \A t \in S : t.tick <= AdvanceAll(map, S)[t.clock].tick
<1> DEFINE T(k) == {t \in S : t.clock = k /\ t.tick > map[k].tick}
           N(k) == CHOOSE t \in T(k) : \A u \in T(k) : u.tick <= t.tick
<1>1. ASSUME NEW k \in Clock
      PROVE  AdvanceAll(map, S)[k] = IF T(k) = {} THEN map[k] ELSE Entry(N(k))
  BY DEF AdvanceAll, Entry
<1>2. ASSUME NEW k \in Clock, T(k) # {}
      PROVE  N(k) \in T(k) /\ \A u \in T(k) : u.tick <= N(k).tick
  <2>1. PICK x \in S : x.clock = k /\ \A u \in S : u.clock = k => u.tick <= x.tick
    BY <1>2, Zenon DEF Latest
  <2>2. PICK y \in S : y.clock = k /\ y.tick > map[k].tick
    BY <1>2
  <2>3. x.tick > map[k].tick
    BY <2>1, <2>2 DEF Maps, Tags
  <2>4. \E t \in T(k) : \A u \in T(k) : u.tick <= t.tick
    BY Zenon, <2>1, <2>3
  <2> QED
    BY Zenon, <2>4
<1>3. \A k \in Clock : map[k] \in [tick : Nat, token : Nat]
  BY DEF Maps
<1>4. ASSUME NEW k \in Clock
      PROVE  /\ AdvanceAll(map, S)[k] \in [tick : Nat, token : Nat]
             /\ map[k].tick <= AdvanceAll(map, S)[k].tick
             /\ \/ AdvanceAll(map, S)[k] = map[k]
                \/ \E t \in S : /\ t.clock = k /\ map[k].tick < t.tick
                                /\ AdvanceAll(map, S)[k] = Entry(t)
  <2>1. CASE T(k) = {}
    BY <1>1, <1>3, <2>1
  <2>2. CASE T(k) # {}
    <3>1. N(k) \in S /\ N(k).clock = k /\ N(k).tick > map[k].tick /\ N(k) \in Tags
      BY Zenon, <1>2, <2>2
    <3>2. AdvanceAll(map, S)[k] = Entry(N(k))
      BY <1>1, <2>2
    <3> HIDE DEF N, T
    <3> QED
      BY <1>3, <3>1, <3>2 DEF Entry, Tags
  <2> QED
    BY <2>1, <2>2
<1>5. ASSUME NEW t \in S
      PROVE  t.tick <= AdvanceAll(map, S)[t.clock].tick
  <2> DEFINE k == t.clock
  <2>1. k \in Clock /\ t.tick \in Nat /\ map[k].tick \in Nat
    BY <1>3 DEF Tags
  <2>2. CASE t \in T(k)
    <3>1. t.tick <= N(k).tick
      BY Zenon, <1>2, <2>1, <2>2
    <3>2. AdvanceAll(map, S)[k] = Entry(N(k))
      BY <1>1, <2>1, <2>2
    <3> HIDE DEF N, T
    <3> QED
      BY <3>1, <3>2 DEF Entry
  <2>3. CASE t \notin T(k)
    <3>1. t.tick <= map[k].tick
      BY <2>1, <2>3
    <3> HIDE DEF T, k
    <3> QED
      BY <1>4, <2>1, <3>1 DEF k
  <2> QED
    BY <2>2, <2>3
<1>6. AdvanceAll(map, S) \in Maps
  <2>1. AdvanceAll(map, S) = [k \in Clock |-> AdvanceAll(map, S)[k]]
    BY DEF AdvanceAll
  <2> QED
    BY <1>4, <2>1 DEF Maps
<1> QED
  BY <1>4, <1>5, <1>6

\* What AdvanceClock does to the entries of a map.
LEMMA AdvanceClockFacts ==
    ASSUME NEW map \in Maps, NEW t \in Tags
    PROVE  /\ AdvanceClock(map, t) \in Maps
           /\ \A k \in Clock :
                /\ map[k].tick <= AdvanceClock(map, t)[k].tick
                /\ \/ AdvanceClock(map, t)[k] = map[k]
                   \/ k = t.clock /\ map[k].tick < t.tick /\ AdvanceClock(map, t)[k] = Entry(t)
           /\ t.tick <= AdvanceClock(map, t)[t.clock].tick
BY DEF AdvanceClock, Entry, Maps, Tags

\* An operation is accepted if it is newer than its clock, or its newest.
LEMMA AcceptsFacts ==
    ASSUME NEW map \in Maps, NEW t \in Tags, t.tick > 0,
           map[t.clock].tick <= t.tick, map[t.clock].tick = t.tick => map[t.clock] = Entry(t)
    PROVE  Accepts(map, t) /\ AdvanceClock(map, t)[t.clock] = Entry(t)
BY DEF Accepts, AdvanceClock, Entry, Maps, Tags

\* The tags of a sequence of records.
LEMMA TagsInFacts ==
    ASSUME NEW s \in Seq(Records)
    PROVE  /\ TagsIn(s) \in SUBSET Tags
           /\ \A t : t \in TagsIn(s) <=> \E i \in 1 .. Len(s) : s[i].tagged /\ s[i].tag = t
<1>1. \A t : t \in TagsIn(s) <=> \E i \in 1 .. Len(s) : s[i].tagged /\ s[i].tag = t
  BY DEF TagsIn
<1>2. ASSUME NEW i \in 1 .. Len(s), s[i].tagged
      PROVE  s[i].tag \in Tags
  <2>1. s[i] \in Records /\ s[i] # Untagged
    BY <1>2 DEF Untagged
  <2> QED
    BY Zenon, <2>1 DEF Records
<1> QED
  BY <1>1, <1>2

LEMMA RecordTags ==
    ASSUME NEW r \in Records, r.tagged
    PROVE  r.tag \in Tags
<1>1. r # Untagged
  BY DEF Untagged
<1>2. r \in [tagged : {TRUE}, tag : Tags]
  BY Zenon, <1>1 DEF Records
<1> QED
  BY <1>2

LEMMA LogRecords ==
    ASSUME SourceTyped
    PROVE  /\ DOMAIN log = 1 .. Len(log) /\ Len(log) \in Nat
           /\ \A i \in DOMAIN log : log[i] \in Records /\ (log[i].tagged => log[i].tag \in Tags)
<1>1. log \in Seq(Records)
  BY DEF SourceTyped
<1>2. DOMAIN log = 1 .. Len(log) /\ Len(log) \in Nat /\ \A i \in DOMAIN log : log[i] \in Records
  BY <1>1
<1> QED
  BY Zenon, <1>2, RecordTags

\* A stretch of the log, and what its tags are.
LEMMA StretchFacts ==
    ASSUME SourceTyped, NEW a \in Nat, NEW b \in Nat, 1 <= a, b <= Len(log)
    PROVE  /\ SubSeq(log, a, b) \in Seq(Records)
           /\ TagsIn(SubSeq(log, a, b)) \in SUBSET Tags
           /\ Latest(TagsIn(SubSeq(log, a, b)))
           /\ \A t : t \in TagsIn(SubSeq(log, a, b)) <=>
                        \E i \in a .. b : log[i].tagged /\ log[i].tag = t
<1> DEFINE s == SubSeq(log, a, b)
<1>1. log \in Seq(Records)
  BY DEF SourceTyped
<1>2. /\ s \in Seq(Records)
      /\ \A i \in 1 .. Len(s) : a + i - 1 \in a .. b /\ s[i] = log[a + i - 1]
      /\ \A i \in a .. b : i - a + 1 \in 1 .. Len(s) /\ s[i - a + 1] = log[i]
  <2>1. s \in Seq(Records)
    BY <1>1
  <2>2. \A i \in 1 .. Len(s) : a + i - 1 \in a .. b /\ s[i] = log[a + i - 1]
    BY <1>1
  <2>3. \A i \in a .. b : i - a + 1 \in 1 .. Len(s) /\ s[i - a + 1] = log[i]
    BY <1>1
  <2> QED
    BY Zenon, <2>1, <2>2, <2>3
<1>3. DOMAIN log = 1 .. Len(log)
  BY <1>1
<1> HIDE DEF s
<1>4. \A t : t \in TagsIn(s) <=> \E i \in a .. b : log[i].tagged /\ log[i].tag = t
  <2>1. \A t : t \in TagsIn(s) <=> \E i \in 1 .. Len(s) : s[i].tagged /\ s[i].tag = t
    BY Zenon, <1>2, TagsInFacts
  <2>2. ASSUME NEW t, NEW i \in 1 .. Len(s), s[i].tagged, s[i].tag = t
        PROVE  \E j \in a .. b : log[j].tagged /\ log[j].tag = t
    BY Zenon, <1>2, <2>2
  <2>3. ASSUME NEW t, NEW i \in a .. b, log[i].tagged, log[i].tag = t
        PROVE  \E j \in 1 .. Len(s) : s[j].tagged /\ s[j].tag = t
    BY Zenon, <1>2, <2>3
  <2> QED
    BY Zenon, <2>1, <2>2, <2>3
<1>5. Latest(TagsIn(s))
  <2>1. LatestIn(log, a, b)
    BY Zenon DEF SourceTyped
  <2> QED
    <3> SUFFICES ASSUME NEW k \in Clock, NEW x \in TagsIn(s), x.clock = k
                 PROVE  \E t \in TagsIn(s) : t.clock = k /\ \A u \in TagsIn(s) : u.clock = k => u.tick <= t.tick
      BY Zenon DEF Latest
    <3>1. \E i \in a .. b : OfClock(log[i], k)
      BY Zenon, <1>4 DEF OfClock
    <3>2. PICK i \in a .. b : /\ OfClock(log[i], k)
                              /\ \A j \in a .. b : OfClock(log[j], k) => log[j].tag.tick <= log[i].tag.tick
      BY Zenon, <2>1, <3>1 DEF LatestIn, LatestOf
    <3>3. log[i].tag \in TagsIn(s) /\ log[i].tag.clock = k
      BY Zenon, <1>4, <3>2 DEF OfClock
    <3>4. \A u \in TagsIn(s) : u.clock = k => u.tick <= log[i].tag.tick
      BY Zenon, <1>4, <3>2 DEF OfClock
    <3> QED
      BY Zenon, <3>3, <3>4
<1> QED
  BY Zenon, <1>2, <1>4, <1>5, TagsInFacts DEF s

\* A clock's update is replaced by another one of it, or by none.
LEMMA SentUpdate ==
    ASSUME SentTyped(sent), NEW k \in Clock, NEW u \in Updates,
           u = NoUpdate \/ (u.tag # NoTag /\ u.tag.clock = k)
    PROVE  SentTyped([sent EXCEPT ![k] = u])
<1>1. NoUpdate.tag = NoTag
  BY DEF NoUpdate
<1> QED
  BY <1>1 DEF SentTyped

\* The answers of the replicas change the update of their tag.
LEMMA AnswersTyped ==
    ASSUME SentTyped(sent), NEW k \in Clock, NEW tag, tag # NoTag
    PROVE  /\ \A r \in {"Source", "Dest"} : SentTyped(Answered(k, tag, r))
           /\ \A r \in {"Source", "Dest"}, n \in Nat : SentTyped(Rejected(k, tag, r, n))
           /\ SentTyped(SourceFailed(k, tag))
<1>1. CASE sent[k].tag # tag
  BY Zenon, <1>1 DEF Answered, Rejected, SourceFailed
<1>2. CASE sent[k].tag = tag
  <2>1. sent[k] \in Updates /\ sent[k].tag.clock = k /\ sent[k].tag # NoTag
    BY Zenon, <1>2 DEF SentTyped
  <2>2. ASSUME NEW r \in {"Source", "Dest"}
        PROVE  SentTyped(Answered(k, tag, r))
    <3>1. [sent[k] EXCEPT !.todo = @ \ {r}] \in Updates
      BY <2>1 DEF Updates
    <3> QED
      BY Zenon, <1>2, <2>1, <3>1, SentUpdate DEF Answered, Updates
  <2>3. ASSUME NEW r \in {"Source", "Dest"}, NEW n \in Nat
        PROVE  SentTyped(Rejected(k, tag, r, n))
    <3>1. [sent[k] EXCEPT !.todo = @ \ {r}, !.rejected = TRUE, !.echo = MaxOf(@, n)] \in Updates
      BY Zenon, <2>1 DEF Updates, MaxOf
    <3>2. [sent EXCEPT ![k].todo = @ \ {r}, ![k].rejected = TRUE, ![k].echo = MaxOf(@, n)] =
          [sent EXCEPT ![k] = [sent[k] EXCEPT !.todo = @ \ {r}, !.rejected = TRUE, !.echo = MaxOf(@, n)]]
      BY Zenon, <2>1 DEF SentTyped, Updates
    <3> QED
      BY <1>2, <2>1, <3>1, <3>2, SentUpdate DEF Rejected, Updates
  <2>4. SentTyped(SourceFailed(k, tag))
    <3>1. [sent[k] EXCEPT !.todo = @ \ {"Source"}, !.failed = TRUE] \in Updates
      BY Zenon, <2>1 DEF Updates
    <3>2. [sent EXCEPT ![k].todo = @ \ {"Source"}, ![k].failed = TRUE] =
          [sent EXCEPT ![k] = [sent[k] EXCEPT !.todo = @ \ {"Source"}, !.failed = TRUE]]
      BY Zenon, <2>1 DEF SentTyped, Updates
    <3> QED
      BY <1>2, <2>1, <3>1, <3>2, SentUpdate DEF SourceFailed, Updates
  <2> QED
    BY <2>2, <2>3, <2>4
<1> QED
  BY <1>1, <1>2

LEMMA DestFailedTyped ==
    ASSUME SentTyped(sent), NEW k \in Clock, sent[k].tag # NoTag, NEW error \in {"refused", "error"}
    PROVE  SentTyped(DestFailed(k, error))
<1>1. sent[k] \in Updates /\ sent[k].tag.clock = k
  BY Zenon DEF SentTyped
<1>2. [sent[k] EXCEPT !.todo = @ \ {"Dest"}, !.dest = error] \in Updates
  BY Zenon, <1>1 DEF Updates
<1>3. [sent EXCEPT ![k].todo = @ \ {"Dest"}, ![k].dest = error] =
      [sent EXCEPT ![k] = [sent[k] EXCEPT !.todo = @ \ {"Dest"}, !.dest = error]]
  BY Zenon, <1>1 DEF SentTyped, Updates
<1> QED
  BY <1>1, <1>2, <1>3, SentUpdate DEF DestFailed, Updates

\* What a step leaves alone keeps its type.
LEMMA TypesStable ==
    ASSUME Typed
    PROVE  /\ source' = source => SourceTyped'
           /\ dest' = dest => DestTyped'
           /\ sender' = sender => SenderTyped'
           /\ transfer' = transfer => TransferTyped'
           /\ states' = states /\ tags' = tags /\ faults' = faults /\ env' = env => Bounded'
<1>1. source' = source => SourceTyped'
  BY Zenon DEF source, Typed, SourceTyped
<1>2. dest' = dest => DestTyped'
  BY DEF dest, Typed, DestTyped
<1>3. sender' = sender => SenderTyped'
  BY DEF sender, Typed, SenderTyped, SentTyped
<1>4. transfer' = transfer => TransferTyped'
  BY DEF transfer, Typed, TransferTyped
<1>5. states' = states /\ tags' = tags /\ faults' = faults /\ env' = env => Bounded'
  BY DEF states, Typed, Bounded
<1> QED
  BY <1>1, <1>2, <1>3, <1>4, <1>5

LEMMA LatestUnion ==
    ASSUME NEW S \in SUBSET Tags, Latest(S), NEW tag \in Tags
    PROVE  Latest(S \cup {tag})
<1> SUFFICES ASSUME NEW k \in Clock, \E t \in S \cup {tag} : t.clock = k
             PROVE  \E t \in S \cup {tag} : t.clock = k /\ \A u \in S \cup {tag} : u.clock = k => u.tick <= t.tick
  BY Zenon DEF Latest
<1>1. \A t \in S \cup {tag} : t.tick \in Nat
  BY DEF Tags
<1>2. CASE \A t \in S : t.clock # k
  BY <1>1, <1>2
<1>3. CASE \E t \in S : t.clock = k
  <2>1. PICK t \in S : t.clock = k /\ \A u \in S : u.clock = k => u.tick <= t.tick
    BY <1>3, Zenon DEF Latest
  <2>2. CASE tag.clock = k /\ t.tick <= tag.tick
    BY <1>1, <2>1, <2>2
  <2>3. CASE ~(tag.clock = k /\ t.tick <= tag.tick)
    BY <1>1, <2>1, <2>3
  <2> QED
    BY <2>2, <2>3
<1> QED
  BY <1>2, <1>3

\* A log that has one more record.
LEMMA LatestAppend ==
    ASSUME NEW recs \in Seq(Records), NEW tag \in Tags,
           \A a, b \in Nat : 1 <= a /\ b <= Len(recs) => LatestIn(recs, a, b),
           NEW more, more = Append(recs, Tagged(tag))
    PROVE  \A a, b \in Nat : 1 <= a /\ b <= Len(more) => LatestIn(more, a, b)
<1>1. Tagged(tag).tagged /\ Tagged(tag).tag = tag /\ tag.tick \in Nat
  BY DEF Tagged, Tags
<1>2. /\ Len(recs) \in Nat /\ Len(more) = Len(recs) + 1 /\ more[Len(recs) + 1] = Tagged(tag)
      /\ \A i \in 1 .. Len(recs) : more[i] = recs[i]
  OBVIOUS
<1>3. \A i \in 1 .. Len(recs) : recs[i].tagged => recs[i].tag.tick \in Nat
  <2>1. \A i \in 1 .. Len(recs) : recs[i] \in Records
    OBVIOUS
  <2> QED
    BY <2>1, RecordTags DEF Tags
<1> SUFFICES ASSUME NEW a \in Nat, NEW b \in Nat, 1 <= a, b <= Len(recs) + 1, NEW k \in Clock,
                    \E i \in a .. b : OfClock(more[i], k)
             PROVE  LatestOf(more, a, b, k)
  BY <1>2, Zenon DEF LatestIn
<1>4. CASE b <= Len(recs)
  <2>1. \A i \in a .. b : more[i] = recs[i]
    BY <1>2, <1>4
  <2>2. LatestIn(recs, a, b)
    BY <1>4
  <2> QED
    BY <2>1, <2>2, Zenon DEF LatestIn, LatestOf
<1>5. CASE b = Len(recs) + 1
  <2>1. \A i \in a .. b : i = b \/ (i \in a .. Len(recs) /\ i \in 1 .. Len(recs))
    BY <1>2, <1>5
  <2>2. /\ LatestIn(recs, a, Len(recs)) /\ a .. Len(recs) \subseteq a .. b /\ b \in a .. b
        /\ \A i \in a .. Len(recs) : i \in 1 .. Len(recs)
    BY <1>2, <1>5
  <2>3. CASE \A i \in a .. Len(recs) : ~OfClock(recs[i], k)
    BY <1>1, <1>2, <1>5, <2>1, <2>2, <2>3 DEF LatestOf
  <2>4. CASE \E i \in a .. Len(recs) : OfClock(recs[i], k)
    <3>1. PICK i \in a .. Len(recs) :
             /\ OfClock(recs[i], k)
             /\ \A j \in a .. Len(recs) : OfClock(recs[j], k) => recs[j].tag.tick <= recs[i].tag.tick
      BY <2>2, <2>4, Zenon DEF LatestIn, LatestOf
    <3>2. i \in a .. b /\ more[i] = recs[i] /\ recs[i].tag.tick \in Nat
      BY <1>2, <1>3, <2>2, <3>1 DEF OfClock
    <3>3. CASE tag.clock = k /\ recs[i].tag.tick <= tag.tick
      <4>1. \A j \in a .. b : OfClock(more[j], k) => more[j].tag.tick <= tag.tick
        BY <1>1, <1>2, <1>3, <1>5, <2>1, <3>1, <3>2, <3>3 DEF OfClock
      <4> QED
        <5>1. OfClock(more[b], k) /\ more[b].tag = tag /\ b \in a .. b
          BY <1>1, <1>2, <1>5, <2>2, <3>3, Zenon DEF OfClock
        <5> QED
          BY <4>1, <5>1, Zenon DEF LatestOf
    <3>4. CASE ~(tag.clock = k /\ recs[i].tag.tick <= tag.tick)
      <4>1. \A j \in a .. b : OfClock(more[j], k) => more[j].tag.tick <= recs[i].tag.tick
        BY <1>1, <1>2, <1>3, <1>5, <2>1, <3>1, <3>2, <3>4 DEF OfClock
      <4> QED
        BY <3>1, <3>2, <4>1, Zenon DEF LatestOf
    <3> QED
      BY <3>3, <3>4
  <2> QED
    BY <2>3, <2>4
<1> QED
  BY <1>2, <1>4, <1>5

\* Dest writes the operation of a writer into its log.
LEMMA WritesDestTyped ==
    ASSUME DestTyped, NEW w \in Writers, d_writing[w] # NoTag,
           held' = held \cup {d_writing[w]}, d_writing' = [d_writing EXCEPT ![w] = NoTag],
           UNCHANGED <<d_newest, d_saved, snapshot>>
    PROVE  DestTyped'
<1> DEFINE tag == d_writing[w]
<1>1. tag \in Tags
  BY DEF DestTyped, OptTags
<1>2. Latest(held')
  BY <1>1, LatestUnion DEF DestTyped
<1>3. held' \subseteq Tags
  BY Zenon, <1>1 DEF DestTyped
<1>4. d_writing' \in [Writers -> OptTags]
  BY DEF DestTyped, OptTags
<1>5. \A k \in Clock : k \in Writers
  BY DEF Writers
<1>6. \A k \in Clock : d_writing'[k] # NoTag => d_writing'[k].clock = k
  BY <1>5 DEF DestTyped
<1> QED
  BY <1>2, <1>3, <1>4, <1>6 DEF DestTyped

LEMMA SameUpdate ==
    ASSUME NEW u \in Updates, NEW v \in Updates, u.tag = v.tag, u.todo = v.todo, u.both = v.both,
           u.rejected = v.rejected, u.echo = v.echo, u.failed = v.failed, u.dest = v.dest
    PROVE  u = v
BY DEF Updates

LEMMA NoUpdateFields ==
    /\ NoUpdate.tag = NoTag /\ NoUpdate.todo = {} /\ ~NoUpdate.both /\ ~NoUpdate.rejected
    /\ ~NoUpdate.failed /\ NoUpdate.dest = "ok"
BY DEF NoUpdate

\* An update whose answers, errors and failure are changed.
Changed(u, X, e, f) == [u EXCEPT !.todo = @ \ X, !.dest = e, !.failed = f]

LEMMA ChangedFields ==
    ASSUME NEW u \in Updates, NEW X, NEW e, NEW f
    PROVE  /\ Changed(u, X, e, f).tag = u.tag /\ Changed(u, X, e, f).both = u.both
           /\ Changed(u, X, e, f).rejected = u.rejected /\ Changed(u, X, e, f).echo = u.echo
           /\ Changed(u, X, e, f).todo = u.todo \ X
           /\ Changed(u, X, e, f).dest = e /\ Changed(u, X, e, f).failed = f
BY DEF Updates, Changed

LEMMA ChangedTyped ==
    ASSUME NEW u \in Updates, NEW X, NEW e \in {"ok", "refused", "error"}, NEW f \in BOOLEAN
    PROVE  Changed(u, X, e, f) \in Updates
<1>1. u.todo \ X \in SUBSET {"Source", "Dest"}
  BY DEF Updates
<1> QED
  BY Zenon, <1>1 DEF Updates, Changed

LEMMA SentFacts ==
    ASSUME Typed
    PROVE  /\ SentTyped(sent) /\ NoUpdate \in Updates
           /\ \A k \in Clock : /\ sent[k] \in Updates /\ sent[k].echo \in Nat
                               /\ sent[k].tag # NoTag => sent[k].tag \in Tags /\ sent[k].tag.clock = k
                               /\ sent[k] # NoUpdate => sent[k].tag # NoTag
                               /\ sent[k].todo # {} => sent[k].tag # NoTag
<1>1. SentTyped(sent)
  BY Zenon DEF Typed, SenderTyped
<1>2. NoUpdate \in Updates /\ NoUpdate.todo = {} /\ NoUpdate.tag = NoTag
  BY DEF NoUpdate, Updates, OptTags
<1>3. \A k \in Clock : /\ sent[k] \in Updates
                       /\ IF sent[k].tag = NoTag THEN sent[k] = NoUpdate ELSE sent[k].tag.clock = k
  BY Zenon, <1>1 DEF SentTyped
<1>4. \A u \in Updates : u.echo \in Nat /\ u.tag \in OptTags
  BY DEF Updates
<1> QED
  BY Zenon, <1>1, <1>2, <1>3, <1>4 DEF OptTags

LEMMA EnvFacts ==
    ASSUME Typed
    PROVE  env \in Envs /\ env.tags \in Nat /\ env.faults \in Nat /\ tags \in Nat /\ Unlimited \in Nat
BY RecoveryAssumption DEF Typed, Bounded, SenderTyped, Unlimited

LEMMA MapFacts ==
    ASSUME Typed
    PROVE  /\ s_newest \in Maps /\ s_saved \in Maps /\ oldest \in Maps /\ d_newest \in Maps /\ d_saved \in Maps
           /\ \A k \in Clock : /\ s_newest[k].tick \in Nat /\ s_saved[k].tick \in Nat /\ oldest[k].tick \in Nat
                               /\ d_newest[k].tick \in Nat /\ d_saved[k].tick \in Nat /\ next[k] \in Nat
BY DEF Typed, SourceTyped, DestTyped, SenderTyped, Maps, Points

LEMMA BatchFacts ==
    ASSUME Typed
    PROVE  <<>> \in Seq(Records) /\ Len(log) \in Nat
BY DEF Typed, SourceTyped

LEMMA PointFacts ==
    ASSUME NEW map \in Maps
    PROVE  RecoveryPoint(map) \in Points
BY DEF RecoveryPoint, Maps, Points

LEMMA UnproxifiedTyped ==
    ASSUME Typed, stage' = "idle", Unproxified
    PROVE  TransferTyped'
BY Zenon, BatchFacts, EnvFacts DEF Typed, Unproxified, TransferTyped

LEMMA TaggingTyped ==
    ASSUME Typed, NEW k \in Clock, NEW n \in Nat
    PROVE  /\ Tagging(k, n) \in Updates
           /\ Tagging(k, n).tag # NoTag /\ Tagging(k, n).tag.clock = k
<1>1. [clock |-> k, tick |-> n, token |-> tags + 1] \in Tags
  BY EnvFacts DEF Tags
<1>2. tags + 1 # 0
  BY EnvFacts
<1>3. Tagging(k, n).tag = [clock |-> k, tick |-> n, token |-> tags + 1] /\ Tagging(k, n).tag # NoTag
  BY <1>2 DEF Tagging, NoUpdate, NoTag
<1>4. Targets \subseteq {"Source", "Dest"} /\ ("Dest" \in Targets) \in BOOLEAN
  BY DEF Targets
<1>5. Tagging(k, n) \in Updates
  BY Zenon, <1>1, <1>4 DEF Tagging, NoUpdate, Updates, OptTags
<1> QED
  BY <1>3, <1>5

LEMMA LearnTickTyped ==
    ASSUME Typed, NEW k \in Clock, LearnTick(k)
    PROVE  Typed'
<1> USE DEF Typed
<1>1. next' \in Points
  BY MapFacts, SentFacts DEF LearnTick, MaxOf, SenderTyped, Points
<1>2. SenderTyped'
  BY Zenon, <1>1 DEF LearnTick, SenderTyped, SentTyped
<1> QED
  BY Zenon, <1>2, TypesStable DEF LearnTick

LEMMA SendTyped ==
    ASSUME Typed, NEW k \in Clock, Send(k)
    PROVE  Typed'
<1> USE DEF Typed
<1>1. next' \in Points /\ tags' \in Nat /\ tags' <= env.tags
  BY MapFacts, SentFacts, EnvFacts DEF Send, SenderTyped, Points
<1>2. SentTyped(sent')
  BY Zenon, MapFacts, SentFacts, TaggingTyped, SentUpdate DEF Send
<1>3. SenderTyped'
  BY <1>1, <1>2 DEF Send, SenderTyped, SentTyped
<1>4. Bounded'
  BY <1>1 DEF Send, Bounded, states
<1> QED
  BY Zenon, <1>3, <1>4, TypesStable DEF Send

LEMMA CompleteTyped ==
    ASSUME Typed, NEW k \in Clock, Complete(k)
    PROVE  Typed'
<1> USE DEF Typed
<1> DEFINE n == MaxOf(next[k], sent[k].echo + 1)
<1>1. n \in Nat
  BY MapFacts, SentFacts DEF MaxOf
<1>2. next' \in Points /\ tags' \in Nat /\ tags' <= env.tags
  BY MapFacts, SentFacts, EnvFacts, <1>1 DEF Complete, SenderTyped, Points, Bounded
<1>3. SentTyped(sent')
  <2>1. SentTyped([sent EXCEPT ![k] = Tagging(k, n)]) /\ SentTyped([sent EXCEPT ![k] = NoUpdate])
    BY Zenon, SentFacts, TaggingTyped, <1>1, SentUpdate
  <2> QED
    BY Zenon, <2>1 DEF Complete
<1>4. sent[k].tag \in Tags
  BY MapFacts, SentFacts DEF Complete, SentTyped, Updates, OptTags
<1>5. acked' \subseteq Tags
  BY Zenon, <1>4 DEF Complete, SenderTyped
<1>6. disabled' \in BOOLEAN /\ proposed' \subseteq {"Active", "any"}
  <2>1. seen \in {"Active", "Partial", "Recovery", "Dead"}
    BY DEF Bounded
  <2> QED
    BY Zenon, <2>1 DEF Complete, SenderTyped, MustDeactivate, PartialOrRecovery
<1>7. SenderTyped'
  BY <1>2, <1>3, <1>5, <1>6 DEF SenderTyped, SentTyped
<1>8. Bounded'
  BY <1>2 DEF Complete, Bounded, states
<1> QED
  BY <1>7, <1>8, TypesStable DEF Complete

LEMMA LoseCallTyped ==
    ASSUME Typed, NEW k \in Clock, LoseCall(k)
    PROVE  Typed'
<1> USE DEF Typed
<1>1. sent[k].tag # NoTag
  BY SentFacts DEF LoseCall, SentTyped, NoUpdate
<1>2. SentTyped(sent')
  BY Zenon, SentFacts, <1>1, DestFailedTyped DEF LoseCall
<1>3. SenderTyped'
  BY Zenon, <1>2 DEF LoseCall, SenderTyped, SentTyped
<1>4. Bounded'
  BY EnvFacts DEF LoseCall, Bounded, states
<1> QED
  BY Zenon, <1>3, <1>4, TypesStable DEF LoseCall

LEMMA LoseAnswerTyped ==
    ASSUME Typed, NEW k \in Clock, LoseAnswer(k)
    PROVE  Typed'
<1> USE DEF Typed
<1>1. sent[k].tag # NoTag
  BY DEF LoseAnswer
<1>2. SentTyped(sent')
  BY Zenon, SentFacts, <1>1, DestFailedTyped DEF LoseAnswer
<1>3. SenderTyped'
  BY Zenon, <1>2 DEF LoseAnswer, SenderTyped, SentTyped
<1>4. Bounded'
  BY EnvFacts DEF LoseAnswer, Bounded, states
<1>5. DestTyped'
  BY Zenon, WritesDestTyped DEF LoseAnswer, Writers
<1> QED
  BY <1>3, <1>4, <1>5, TypesStable DEF LoseAnswer

LEMMA ReceiveAtSourceTyped ==
    ASSUME Typed, NEW k \in Clock, ReceiveAtSource(k)
    PROVE  Typed'
<1> USE DEF Typed
<1> DEFINE tag == sent[k].tag
<1>1. tag # NoTag
  BY SentFacts DEF ReceiveAtSource, SentTyped, NoUpdate
<1>2. tag \in Tags /\ tag.clock = k
  BY Zenon, SentFacts, <1>1 DEF SentTyped
<1>3. s_newest' \in Maps /\ \A c \in Clock : s_newest[c].tick <= s_newest'[c].tick
  BY Zenon, MapFacts, <1>2, AdvanceClockFacts DEF ReceiveAtSource
<1>4. s_writing' \in [Clock -> OptTags] /\ \A c \in Clock : s_writing'[c] # NoTag => s_writing'[c].clock = c
  BY Zenon, <1>2 DEF ReceiveAtSource, SourceTyped, OptTags
<1>5. \A c \in Clock : oldest[c].tick <= s_saved[c].tick /\ s_saved[c].tick <= s_newest'[c].tick
  <2>1. \A c \in Clock : s_saved[c].tick \in Nat /\ s_newest[c].tick \in Nat /\ s_newest'[c].tick \in Nat
    BY <1>3 DEF SourceTyped, Maps
  <2>2. \A c \in Clock : oldest[c].tick <= s_saved[c].tick /\ s_saved[c].tick <= s_newest[c].tick
    BY Zenon DEF SourceTyped
  <2> QED
    BY <1>3, <2>1, <2>2
<1>6. SourceTyped'
  BY Zenon, <1>3, <1>4, <1>5 DEF ReceiveAtSource, SourceTyped
<1>7. SentTyped(sent')
  BY Zenon, SentFacts, MapFacts, <1>1, AnswersTyped DEF ReceiveAtSource
<1>8. SenderTyped'
  BY Zenon, <1>7 DEF ReceiveAtSource, SenderTyped, SentTyped
<1> QED
  BY <1>6, <1>8, TypesStable DEF ReceiveAtSource

LEMMA AppendAtSourceTyped ==
    ASSUME Typed, NEW k \in Clock, AppendAtSource(k)
    PROVE  Typed'
<1> USE DEF Typed
<1> DEFINE tag == s_writing[k]
<1>1. tag \in Tags /\ tag # NoTag
  BY DEF AppendAtSource, SourceTyped, OptTags
<1>2. Tagged(tag) \in Records /\ Tagged(tag).tag = tag
  BY Zenon, <1>1 DEF Tagged, Records
<1>3. /\ log' \in Seq(Records) /\ Len(log') = Len(log) + 1
      /\ \A i \in DOMAIN log' : log'[i] = IF i \in DOMAIN log THEN log[i] ELSE Tagged(tag)
  <2> HIDE DEF tag
  <2> QED
    BY <1>2 DEF AppendAtSource, SourceTyped, tag
<1>4. \A a, b \in Nat : 1 <= a /\ b <= Len(log') => LatestIn(log', a, b)
  <2>1. log' = Append(log, Tagged(tag)) /\ log \in Seq(Records)
    BY Zenon DEF AppendAtSource, SourceTyped
  <2> QED
    BY Zenon, <1>1, <2>1, LatestAppend DEF SourceTyped
<1>5. s_writing' \in [Clock -> OptTags] /\ \A c \in Clock : s_writing'[c] # NoTag => s_writing'[c].clock = c
  BY Zenon DEF AppendAtSource, SourceTyped, OptTags
<1>6. ack <= Len(log') /\ flush.ack <= Len(log')
  BY <1>3 DEF SourceTyped
<1>7. SourceTyped'
  BY Zenon, <1>3, <1>4, <1>5, <1>6 DEF AppendAtSource, SourceTyped
<1>8. SentTyped(sent')
  BY Zenon, SentFacts, <1>1, AnswersTyped DEF AppendAtSource
<1>9. SenderTyped'
  BY Zenon, <1>8 DEF AppendAtSource, SenderTyped, SentTyped
<1>10. TransferTyped'
  BY Zenon, <1>1 DEF AppendAtSource, TransferTyped, OptTags
<1> QED
  BY <1>7, <1>9, <1>10, TypesStable DEF AppendAtSource

LEMMA ForwardToDestTyped ==
    ASSUME Typed, ForwardToDest
    PROVE  Typed'
<1> USE DEF Typed
<1> DEFINE c == fwd.clock
<1>1. fwd \in Tags /\ c \in Clock
  BY Zenon DEF ForwardToDest, TransferTyped, OptTags, Tags
<1>2. d_newest' \in Maps
  BY Zenon, MapFacts, <1>1, AdvanceClockFacts DEF ForwardToDest
<1>3. /\ d_writing' \in [Writers -> OptTags]
      /\ \A j \in Clock : d_writing'[j] # NoTag => d_writing'[j].clock = j
  <2>1. Forward \in Writers /\ Clock \subseteq Writers /\ Forward \notin Clock
    BY RecoveryAssumption DEF Writers, Forward
  <2> QED
    BY <1>1, <2>1 DEF ForwardToDest, DestTyped, OptTags
<1>4. DestTyped'
  BY Zenon, <1>2, <1>3 DEF ForwardToDest, DestTyped
<1>5. d_newest[c].tick \in Nat
  BY MapFacts, <1>1 DEF Maps
<1>6. SentTyped(sent')
  BY Zenon, SentFacts, <1>1, <1>5, AnswersTyped DEF ForwardToDest
<1>7. SenderTyped'
  BY Zenon, <1>6 DEF ForwardToDest, SenderTyped, SentTyped
<1>8. TransferTyped'
  BY Zenon DEF ForwardToDest, TransferTyped, OptTags
<1> QED
  BY Zenon, <1>4, <1>7, <1>8, TypesStable DEF ForwardToDest

LEMMA FlushSegmentsTyped ==
    ASSUME Typed, FlushSegments
    PROVE  Typed'
<1> USE DEF Typed
<1>1. flush' \in [busy : BOOLEAN, ack : Nat, stored : BOOLEAN] /\ flush'.ack <= Len(log)
  BY DEF FlushSegments, SourceTyped, TransferTyped, MinOf
<1>2. SourceTyped'
  BY Zenon, <1>1 DEF FlushSegments, SourceTyped
<1> QED
  BY Zenon, <1>2, TypesStable DEF FlushSegments, sender

LEMMA StoreClocksTyped ==
    ASSUME Typed, StoreClocks
    PROVE  Typed'
<1> USE DEF Typed
<1>1. flush' \in [busy : BOOLEAN, ack : Nat, stored : BOOLEAN] /\ flush'.ack <= Len(log)
  BY Zenon DEF StoreClocks, SourceTyped
<1>2. \A c \in Clock : oldest[c].tick <= s_saved'[c].tick /\ s_saved'[c].tick <= s_newest[c].tick
  BY DEF StoreClocks, SourceTyped, Maps
<1>3. SourceTyped'
  BY Zenon, <1>1, <1>2 DEF StoreClocks, SourceTyped
<1> QED
  BY <1>3, TypesStable DEF StoreClocks, sender

LEMMA AckWalTyped ==
    ASSUME Typed, AckWal
    PROVE  Typed'
<1> USE DEF Typed
<1>1. /\ flush' \in [busy : BOOLEAN, ack : Nat, stored : BOOLEAN] /\ flush'.ack <= Len(log)
      /\ first' \in Nat /\ ack' \in Nat /\ 1 <= first' /\ first' <= ack' /\ ack' <= Len(log)
  BY DEF AckWal, SourceTyped, MaxOf, Idle
<1>2. SourceTyped'
  BY Zenon, <1>1 DEF AckWal, SourceTyped
<1> QED
  BY <1>2, TypesStable DEF AckWal, sender

LEMMA CrashSourceTyped ==
    ASSUME Typed, CrashSource
    PROVE  Typed'
<1> USE DEF Typed
<1>1. PICK to \in IF env.pending THEN ack .. Len(log) + 1 ELSE {Len(log) + 1} :
         s_newest' = AdvanceAll(s_saved, TagsIn(SubSeq(log, ack, to - 1)))
  BY Zenon DEF CrashSource
<1>2. /\ s_writing' = [c \in Clock |-> NoTag] /\ flush' = Idle
      /\ UNCHANGED <<log, first, ack, s_saved, oldest>>
  BY Zenon DEF CrashSource
<1>3. /\ faults < env.faults /\ faults' = faults + 1
      /\ UNCHANGED <<dest, next, tags, acked, disabled, proposed, states, rp, version, known, from, env>>
  BY Zenon DEF CrashSource
<1>4. /\ stage' \in {"idle", "aborting"} /\ proxy' = "none" /\ keep' = Unlimited /\ fwd' = NoTag
      /\ batch' = <<>> /\ last' = FALSE
  BY Zenon DEF CrashSource
<1>5. to - 1 \in Nat /\ to - 1 <= Len(log) /\ ack \in Nat /\ 1 <= ack /\ s_saved \in Maps
  BY <1>1 DEF SourceTyped
<1>6. s_newest' \in Maps /\ \A c \in Clock : s_saved[c].tick <= s_newest'[c].tick
  <2>1. TagsIn(SubSeq(log, ack, to - 1)) \in SUBSET Tags /\ Latest(TagsIn(SubSeq(log, ack, to - 1)))
    BY Zenon, <1>5, StretchFacts
  <2> QED
    BY Zenon, <1>1, <1>5, <2>1, AdvanceAllFacts
<1>7. s_writing' \in [Clock -> OptTags] /\ \A c \in Clock : s_writing'[c] # NoTag => s_writing'[c].clock = c
  BY Zenon, <1>2 DEF OptTags
<1>8. flush' \in [busy : BOOLEAN, ack : Nat, stored : BOOLEAN] /\ flush'.ack <= Len(log)
  BY <1>2 DEF SourceTyped, Idle
<1>9. SourceTyped'
  BY Zenon, <1>2, <1>6, <1>7, <1>8 DEF SourceTyped
<1>10. SentTyped(sent')
  <2>1. ASSUME NEW c \in Clock
        PROVE  /\ sent'[c] \in Updates
               /\ IF sent'[c].tag = NoTag THEN sent'[c] = NoUpdate ELSE sent'[c].tag.clock = c
    <3>1. /\ sent[c] \in Updates
          /\ IF sent[c].tag = NoTag THEN sent[c] = NoUpdate ELSE sent[c].tag.clock = c
      BY Zenon, SentFacts DEF SentTyped
    <3>2. CASE sent'[c] = sent[c]
      BY Zenon, <3>1, <3>2
    <3>3. CASE /\ sent[c] # NoUpdate
               /\ sent'[c] = [sent[c] EXCEPT !.todo = @ \ {"Source"}, !.failed = TRUE]
      <4>1. sent'[c] = [sent[c] EXCEPT !.todo = @ \ {"Source"}, !.failed = TRUE] /\ sent[c] \in Updates
        BY Zenon, <3>1, <3>3
      <4>2. \A u \in Updates : /\ [u EXCEPT !.todo = @ \ {"Source"}, !.failed = TRUE] \in Updates
                               /\ [u EXCEPT !.todo = @ \ {"Source"}, !.failed = TRUE].tag = u.tag
        BY Zenon DEF Updates
      <4> QED
        BY Zenon, <3>1, <3>3, <4>1, <4>2
    <3> QED
      BY Zenon, <3>2, <3>3 DEF CrashSource
  <2>2. sent' = [c \in Clock |-> sent'[c]]
    BY Zenon DEF CrashSource
  <2> QED
    BY Zenon, <2>1, <2>2 DEF SentTyped
<1>11. SenderTyped'
  BY Zenon, <1>3, <1>10 DEF SenderTyped, SentTyped
<1>12. TransferTyped'
  <2>1. keep' \in Nat
    BY <1>4, RecoveryAssumption DEF Bounded, Unlimited
  <2>2. batch' \in Seq(Records) /\ last' \in BOOLEAN /\ fwd' \in OptTags
    <3>1. <<>> \in Seq(Records)
      OBVIOUS
    <3> QED
      BY Zenon, <1>4, <3>1 DEF OptTags
  <2> QED
    BY Zenon, <1>3, <1>4, <2>1, <2>2 DEF TransferTyped
<1>13. Bounded'
  <2>1. env.faults \in Nat
    BY RecoveryAssumption DEF Bounded
  <2> QED
    BY <1>3, <2>1 DEF Bounded, states
<1> QED
  BY <1>3, <1>9, <1>11, <1>12, <1>13, TypesStable

LEMMA ReceiveAtDestTyped ==
    ASSUME Typed, NEW k \in Clock, ReceiveAtDest(k)
    PROVE  Typed'
<1> USE DEF Typed
<1> DEFINE tag == sent[k].tag
<1>1. tag # NoTag
  BY SentFacts DEF ReceiveAtDest, SentTyped, NoUpdate
<1>2. tag \in Tags /\ tag.clock = k
  BY SentFacts, <1>1 DEF SentTyped
<1>3. d_newest' \in Maps
  BY Zenon, MapFacts, <1>2, AdvanceClockFacts DEF ReceiveAtDest
<1>4. Clock \subseteq Writers
  BY DEF Writers
<1>5. d_writing' = d_writing \/ d_writing' = [d_writing EXCEPT ![k] = tag]
  BY Zenon DEF ReceiveAtDest
<1>6. d_writing' \in [Writers -> OptTags] /\ \A c \in Clock : d_writing'[c] # NoTag => d_writing'[c].clock = c
  <2> HIDE DEF tag
  <2> QED
    BY <1>2, <1>4, <1>5 DEF DestTyped, OptTags
<1>7. DestTyped'
  BY Zenon, <1>3, <1>6 DEF ReceiveAtDest, DestTyped
<1>8. SentTyped(sent')
  BY Zenon, SentFacts, MapFacts, <1>1, AnswersTyped, DestFailedTyped DEF ReceiveAtDest
<1>9. SenderTyped'
  BY Zenon, <1>8 DEF ReceiveAtDest, SenderTyped, SentTyped
<1> QED
  BY Zenon, <1>7, <1>9, TypesStable DEF ReceiveAtDest

LEMMA AppendAtDestTyped ==
    ASSUME Typed, NEW w \in Writers, AppendAtDest(w)
    PROVE  Typed'
<1> USE DEF Typed
<1> DEFINE tag == d_writing[w]
<1>1. tag \in Tags /\ tag # NoTag /\ tag.clock \in Clock
  BY DEF AppendAtDest, DestTyped, OptTags, Tags
<1>2. DestTyped'
  BY Zenon, WritesDestTyped DEF AppendAtDest
<1>3. SentTyped(sent')
  <2>1. w # Forward => w \in Clock
    BY DEF Writers
  <2>2. \A c \in Clock, r \in {"Source", "Dest"} : SentTyped(Answered(c, tag, r))
    BY Zenon, SentFacts, <1>1, AnswersTyped
  <2> QED
    BY Zenon, SentFacts, <1>1, <2>1, <2>2 DEF AppendAtDest
<1>4. SenderTyped'
  BY Zenon, <1>3 DEF AppendAtDest, SenderTyped, SentTyped
<1>5. TransferTyped'
  BY Zenon DEF AppendAtDest, TransferTyped, OptTags
<1> QED
  BY Zenon, <1>2, <1>4, <1>5, TypesStable DEF AppendAtDest

LEMMA StoreClocksAtDestTyped ==
    ASSUME Typed, StoreClocksAtDest
    PROVE  Typed'
<1> USE DEF Typed
<1>1. DestTyped'
  BY Zenon DEF StoreClocksAtDest, DestTyped
<1> QED
  BY Zenon, <1>1, TypesStable DEF StoreClocksAtDest, sender

LEMMA CrashDestTyped ==
    ASSUME Typed, CrashDest
    PROVE  Typed'
<1> USE DEF Typed
<1>1. /\ d_newest' = AdvanceAll(d_saved, held) /\ d_writing' = [j \in DOMAIN d_writing |-> NoTag]
      /\ UNCHANGED <<held, d_saved, snapshot>>
  BY Zenon DEF CrashDest
<1>2. d_newest' \in Maps
  BY MapFacts, <1>1, AdvanceAllFacts DEF DestTyped
<1>3. d_writing' \in [Writers -> OptTags] /\ \A c \in Clock : d_writing'[c] = NoTag
  BY <1>1 DEF DestTyped, OptTags, Writers
<1>4. DestTyped'
  BY Zenon, <1>1, <1>2, <1>3 DEF DestTyped
<1>5. SentTyped(sent')
  <2>1. ASSUME NEW c \in Clock
        PROVE  /\ sent'[c] \in Updates
               /\ IF sent'[c].tag = NoTag THEN sent'[c] = NoUpdate ELSE sent'[c].tag.clock = c
    <3> DEFINE lost == {j \in DOMAIN d_writing : d_writing[j] # NoTag}
               atDest == c \in lost /\ sent[c].tag = d_writing[c]
               atSource == Forward \in lost /\ sent[c].tag = fwd
    <3>1. /\ sent[c] \in Updates
          /\ IF sent[c].tag = NoTag THEN sent[c] = NoUpdate ELSE sent[c].tag.clock = c
      BY Zenon, SentFacts DEF SentTyped
    <3>2. sent'[c] = [sent[c] EXCEPT
                        !.todo = @ \ ((IF atDest THEN {"Dest"} ELSE {})
                                \cup (IF atSource THEN {"Source"} ELSE {})),
                        !.dest = IF atDest THEN "error" ELSE @,
                        !.failed = IF atSource /\ fwd # NoTag THEN TRUE ELSE @]
      BY Zenon DEF CrashDest
    <3>3. sent[c].tag = NoTag => ~atDest /\ (atSource => fwd = NoTag)
      BY Zenon
    <3> DEFINE answers == (IF atDest THEN {"Dest"} ELSE {}) \cup (IF atSource THEN {"Source"} ELSE {})
               error == IF atDest THEN "error" ELSE sent[c].dest
               failed == IF atSource /\ fwd # NoTag THEN TRUE ELSE sent[c].failed
    <3>4. error \in {"ok", "refused", "error"} /\ failed \in BOOLEAN
      BY Zenon, <3>1 DEF Updates
    <3>5. sent[c].tag = NoTag => error = sent[c].dest /\ failed = sent[c].failed
      BY Zenon, <3>3
    <3>6. sent'[c] = Changed(sent[c], answers, error, failed)
      BY <3>2 DEF Changed
    <3> HIDE DEF atDest, atSource, answers, error, failed
    <3>7. sent'[c] \in Updates
      BY Zenon, <3>1, <3>4, <3>6, ChangedTyped
    <3>8. /\ sent'[c].tag = sent[c].tag /\ sent'[c].both = sent[c].both
          /\ sent'[c].rejected = sent[c].rejected /\ sent'[c].echo = sent[c].echo
          /\ sent'[c].todo = sent[c].todo \ answers /\ sent'[c].dest = error /\ sent'[c].failed = failed
      BY <3>1, <3>6, ChangedFields
    <3>9. ASSUME sent[c] = NoUpdate
          PROVE  sent'[c] = sent[c]
      <4>1. sent[c].todo \ answers = sent[c].todo /\ sent[c].tag = NoTag
        BY Zenon, <3>9, NoUpdateFields
      <4> QED
        BY Zenon, <3>1, <3>5, <3>7, <3>8, <4>1, SameUpdate
    <3> QED
      BY Zenon, <3>1, <3>7, <3>8, <3>9
  <2>2. sent' = [c \in Clock |-> sent'[c]]
    BY Zenon DEF CrashDest
  <2> QED
    BY <2>1, <2>2 DEF SentTyped
<1>6. SenderTyped'
  BY Zenon, <1>5 DEF CrashDest, SenderTyped, SentTyped
<1>7. TransferTyped'
  BY Zenon DEF CrashDest, TransferTyped, OptTags
<1>8. faults < env.faults /\ faults' = faults + 1 /\ UNCHANGED <<source, states, tags, env>>
  BY Zenon DEF CrashDest
<1>9. Bounded'
  <2>1. env.faults \in Nat
    BY RecoveryAssumption DEF Bounded
  <2> QED
    BY <1>8, <2>1 DEF Bounded, states
<1> QED
  BY Zenon, <1>4, <1>6, <1>7, <1>8, <1>9, TypesStable

LEMMA ApplyAtDestTyped ==
    ASSUME Typed, ApplyAtDest
    PROVE  Typed'
<1> USE DEF Typed
<1>1. snapshot' \in [taken : BOOLEAN, map : Maps] /\ d_saved' \in Maps
  <2>1. NoClocks \in Maps
    BY DEF NoClocks, Vacant, Maps
  <2>2. \/ snapshot' = NoSnapshot /\ d_saved' = d_newest
        \/ snapshot' = [taken |-> TRUE, map |-> d_newest] /\ d_saved' = d_newest
        \/ snapshot' = snapshot /\ d_saved' = d_saved
    BY Zenon DEF ApplyAtDest
  <2> QED
    <3>1. NoSnapshot \in [taken : BOOLEAN, map : Maps]
      BY Zenon, <2>1 DEF NoSnapshot
    <3>2. [taken |-> TRUE, map |-> d_newest] \in [taken : BOOLEAN, map : Maps]
      BY Zenon, MapFacts
    <3> QED
      BY Zenon, MapFacts, <2>2, <3>1, <3>2 DEF DestTyped
<1>2. DestTyped'
  BY Zenon, <1>1 DEF ApplyAtDest, DestTyped
<1>3. own' = committed /\ UNCHANGED <<committed, seen, sender, source, transfer, faults, env>>
  BY Zenon DEF ApplyAtDest
<1>4. Bounded'
  BY <1>3 DEF Bounded, sender
<1> QED
  BY Zenon, <1>2, <1>3, <1>4, TypesStable

LEMMA ApplyAtSenderTyped ==
    ASSUME Typed, ApplyAtSender
    PROVE  Typed'
<1> USE DEF Typed
<1>1. SenderTyped'
  BY Zenon DEF ApplyAtSender, SenderTyped, SentTyped
<1>2. Bounded'
  BY DEF ApplyAtSender, Bounded
<1> QED
  BY Zenon, <1>1, <1>2, TypesStable DEF ApplyAtSender

LEMMA SendRecordTyped ==
    ASSUME Typed, SendRecord
    PROVE  Typed'
<1> USE DEF Typed
<1>1. CASE stage' = "aborting" /\ UNCHANGED <<d_newest, held, batch, from>>
  <2>1. DestTyped' /\ TransferTyped'
    BY Zenon, <1>1 DEF SendRecord, DestTyped, TransferTyped
  <2> QED
    BY Zenon, <2>1, TypesStable DEF SendRecord, sender
<1>2. CASE /\ Head(batch).tagged /\ d_newest' = AdvanceClock(d_newest, Head(batch).tag)
           /\ held' = held \cup {Head(batch).tag} /\ batch' = Tail(batch) /\ from' = from + 1
           /\ UNCHANGED stage
  <2> DEFINE tag == Head(batch).tag
  <2>1. batch # <<>> /\ UNCHANGED <<d_saved, snapshot, d_writing>>
    BY Zenon DEF SendRecord
  <2>2. batch \in Seq(Records) /\ from \in Nat
    BY Zenon DEF TransferTyped
  <2>3. Head(batch) \in Records /\ Tail(batch) \in Seq(Records)
    BY <2>1, <2>2
  <2>4. tag \in Tags
    BY Zenon, <1>2, <2>3, RecordTags
  <2>5. d_newest' \in Maps
    BY Zenon, MapFacts, <1>2, <2>4, AdvanceClockFacts
  <2>6. Latest(held') /\ held' \subseteq Tags
    <3> HIDE DEF tag
    <3> QED
      BY <1>2, <2>4, LatestUnion DEF DestTyped, tag
  <2>7. DestTyped'
    BY Zenon, <2>1, <2>5, <2>6 DEF DestTyped
  <2>8. from' \in Nat
    BY <1>2, <2>2
  <2>9. TransferTyped'
    BY Zenon, <1>2, <2>3, <2>8 DEF SendRecord, TransferTyped
  <2> QED
    BY Zenon, <2>7, <2>9, TypesStable DEF SendRecord, sender
<1> QED
  BY Zenon, <1>1, <1>2 DEF SendRecord

LEMMA RestartSenderTyped ==
    ASSUME Typed, RestartSender
    PROVE  Typed'
<1> USE DEF Typed
<1>1. SenderTyped'
  BY Zenon, SentFacts DEF RestartSender, SenderTyped, SentTyped, Zero, Points, NoUpdate, Updates,
     OptTags
<1>2. Bounded'
  BY RecoveryAssumption DEF RestartSender, Bounded, states
<1> QED
  BY Zenon, <1>1, <1>2, TypesStable DEF RestartSender

LEMMA DeactivateDestTyped ==
    ASSUME Typed, DeactivateDest
    PROVE  Typed'
<1> USE DEF Typed
<1>1. SenderTyped'
  BY Zenon DEF DeactivateDest, SenderTyped, SentTyped
<1>2. TransferTyped'
  BY Zenon, UnproxifiedTyped, TypesStable DEF DeactivateDest
<1>3. committed' \in {committed, "Dead"} /\ UNCHANGED <<source, dest, tags, own, seen, faults, env>>
  BY Zenon DEF DeactivateDest
<1>4. Bounded'
  BY <1>3 DEF Bounded
<1> QED
  BY Zenon, <1>1, <1>2, <1>3, <1>4, TypesStable

LEMMA StartTransferTyped ==
    ASSUME Typed, StartTransfer
    PROVE  Typed'
<1> USE DEF Typed
<1>1. TransferTyped' /\ Bounded'
  BY DEF StartTransfer, TransferTyped, Bounded, sender
<1> QED
  BY Zenon, <1>1, TypesStable DEF StartTransfer

LEMMA AskRecoveryPointTyped ==
    ASSUME Typed, AskRecoveryPoint
    PROVE  Typed'
<1> USE DEF Typed
<1>1. (IF snapshot.taken THEN snapshot.map ELSE d_newest) \in Maps
  BY DEF DestTyped
<1>2. rp' \in Points
  BY Zenon, PointFacts, <1>1 DEF AskRecoveryPoint
<1>3. TransferTyped'
  BY Zenon, <1>2 DEF AskRecoveryPoint, TransferTyped
<1> QED
  BY Zenon, <1>3, TypesStable DEF AskRecoveryPoint, sender

LEMMA ReadVersionTyped ==
    ASSUME Typed, ReadVersion
    PROVE  Typed'
<1> USE DEF Typed
<1>1. version' \in Nat
  BY BatchFacts DEF ReadVersion
<1>2. TransferTyped'
  BY Zenon, <1>1 DEF ReadVersion, TransferTyped
<1> QED
  BY Zenon, <1>2, TypesStable DEF ReadVersion, sender

LEMMA ReadNewestTyped ==
    ASSUME Typed, ReadNewest
    PROVE  Typed'
<1> USE DEF Typed
<1>1. s_newest \in Maps
  BY Zenon DEF SourceTyped
<1>2. known' \in Points
  BY Zenon, PointFacts, <1>1 DEF ReadNewest
<1>3. TransferTyped'
  BY Zenon, <1>2 DEF ReadNewest, TransferTyped
<1> QED
  BY Zenon, <1>3, TypesStable DEF ReadNewest, sender

LEMMA ResolveDeltaTyped ==
    ASSUME Typed, ResolveDelta
    PROVE  Typed'
<1> USE DEF Typed
<1> DEFINE delta == ResolveWalDelta(log, first, rp, known, RecoveryPoint(oldest))
<1>1. delta.kind = "from" => delta.at \in Nat
  <2> DEFINE i == CHOOSE i \in first .. Len(log) : Covers(log, first, i, rp, WantedClocks(rp, known))
  <2>1. delta \in {NoDelta, EqualLogs, RecoverFrom(log, i, rp)}
    BY Zenon DEF ResolveWalDelta, ScanBack
  <2>2. \/ delta \in {NoDelta, EqualLogs}
        \/ /\ \E j \in first .. Len(log) : Covers(log, first, j, rp, WantedClocks(rp, known))
           /\ delta = RecoverFrom(log, i, rp)
    BY Zenon DEF ResolveWalDelta, ScanBack
  <2>3. CASE delta \in {NoDelta, EqualLogs}
    <3> HIDE DEF delta
    <3> QED
      BY <2>3 DEF NoDelta, EqualLogs
  <2>4. CASE /\ \E j \in first .. Len(log) : Covers(log, first, j, rp, WantedClocks(rp, known))
             /\ delta = RecoverFrom(log, i, rp)
    <3>1. i \in first .. Len(log)
      BY Zenon, <2>4
    <3>2. i \in Nat
      BY BatchFacts, <3>1 DEF SourceTyped
    <3> HIDE DEF delta, i
    <3>3. delta \in {EqualLogs, DeltaFrom(i), DeltaFrom(i + 1)}
      BY Zenon, <2>4 DEF RecoverFrom
    <3> QED
      BY <3>2, <3>3 DEF EqualLogs, DeltaFrom
  <2> QED
    BY <2>2, <2>3, <2>4
<1>2. stage' \in {"aborting", "proxify"} /\ version' \in {version, delta.at}
  BY Zenon DEF ResolveDelta
<1>3. version' \in Nat
  BY Zenon, <1>1 DEF ResolveDelta, TransferTyped
<1>4. TransferTyped'
  BY Zenon, <1>2, <1>3 DEF ResolveDelta, TransferTyped
<1> QED
  BY Zenon, <1>4, TypesStable DEF ResolveDelta, sender

LEMMA QueueProxifyTyped ==
    ASSUME Typed, QueueProxify
    PROVE  Typed'
<1> USE DEF Typed
<1>1. TransferTyped'
  BY Zenon DEF QueueProxify, TransferTyped
<1> QED
  BY Zenon, <1>1, TypesStable DEF QueueProxify, sender

LEMMA ReadBatchTyped ==
    ASSUME Typed, ReadBatch
    PROVE  Typed'
<1> USE DEF Typed
<1>1. batch' \in Seq(Records) /\ last' \in BOOLEAN
  <2>1. CASE batch' = SubSeq(log, from, MinOf(Len(log), from + BatchSize - 1)) /\ from >= first
    <3>1. /\ from \in Nat /\ 1 <= from
          /\ MinOf(Len(log), from + BatchSize - 1) \in Nat /\ MinOf(Len(log), from + BatchSize - 1) <= Len(log)
      BY BatchFacts, <2>1, RecoveryAssumption DEF SourceTyped, TransferTyped, MinOf
    <3>2. batch' \in Seq(Records)
      BY Zenon, <2>1, <3>1, StretchFacts
    <3>3. (Len(log) + 1 - from <= BatchSize) \in BOOLEAN
      BY BatchFacts, <3>1, RecoveryAssumption
    <3> QED
      BY Zenon, <3>2, <3>3 DEF ReadBatch, TransferTyped
  <2>2. CASE UNCHANGED <<batch, last>>
    BY <2>2 DEF TransferTyped
  <2>3. ~(from < first) => from >= first
    BY DEF SourceTyped, TransferTyped
  <2> QED
    BY Zenon, <2>1, <2>2, <2>3 DEF ReadBatch
<1>2. TransferTyped'
  BY Zenon, <1>1 DEF ReadBatch, TransferTyped
<1> QED
  BY Zenon, <1>2, TypesStable DEF ReadBatch, sender

LEMMA AllSentTyped ==
    ASSUME Typed, AllSent
    PROVE  Typed'
<1> USE DEF Typed
<1>1. stage' \in {"partial", "final", "sync"} /\ keep' \in {from, Unlimited} /\ proxy' \in {proxy, "forward"}
  BY Zenon DEF AllSent
<1>2. TransferTyped'
  BY Zenon, EnvFacts, <1>1 DEF AllSent, TransferTyped
<1> QED
  BY Zenon, <1>2, TypesStable DEF AllSent, sender

LEMMA SwitchToPartialTyped ==
    ASSUME Typed, SwitchToPartial
    PROVE  Typed'
<1> USE DEF Typed
<1>1. TransferTyped' /\ Bounded'
  BY DEF SwitchToPartial, TransferTyped, Bounded, sender
<1> QED
  BY Zenon, <1>1, TypesStable DEF SwitchToPartial

LEMMA ConfirmPartialTyped ==
    ASSUME Typed, ConfirmPartial
    PROVE  Typed'
<1> USE DEF Typed
<1>1. TransferTyped'
  BY Zenon DEF ConfirmPartial, TransferTyped
<1> QED
  BY Zenon, <1>1, TypesStable DEF ConfirmPartial, sender

LEMMA FinishTransferTyped ==
    ASSUME Typed, FinishTransfer
    PROVE  Typed'
<1> USE DEF Typed
<1>1. TransferTyped' /\ Bounded'
  BY DEF FinishTransfer, TransferTyped, Bounded, sender
<1> QED
  BY Zenon, <1>1, TypesStable DEF FinishTransfer

LEMMA UnproxifyTyped ==
    ASSUME Typed, Unproxify
    PROVE  Typed'
<1> USE DEF Typed
<1>1. TransferTyped'
  BY Zenon, UnproxifiedTyped DEF Unproxify
<1> QED
  BY Zenon, <1>1, TypesStable DEF Unproxify, sender

LEMMA AbortTransferTyped ==
    ASSUME Typed, AbortTransfer
    PROVE  Typed'
<1> USE DEF Typed
<1>1. TransferTyped'
  BY Zenon, UnproxifiedTyped DEF AbortTransfer
<1>2. /\ committed' = "Dead"
      /\ faults' = faults \/ (faults < env.faults /\ faults' = faults + 1)
      /\ UNCHANGED <<source, dest, sender, own, seen, env>>
  BY Zenon DEF AbortTransfer
<1>3. Bounded'
  BY EnvFacts, <1>2 DEF Bounded, sender
<1> QED
  BY Zenon, <1>1, <1>2, <1>3, TypesStable

LEMMA TypedInit ==
    ASSUME Init
    PROVE  Typed
<1>1. PICK c \in SUBSET env.clocks, d \in SUBSET env.clocks :
      /\ log = <<Untagged>> /\ first = 1 /\ ack = 1
      /\ oldest = AdvanceAll(NoClocks, Old(c))
      /\ s_newest = oldest /\ s_saved = oldest
      /\ s_writing = [k \in Clock |-> NoTag]
      /\ flush = Idle
      /\ held = Old(d)
      /\ d_newest = AdvanceAll(NoClocks, Old(d)) /\ d_saved = d_newest
      /\ snapshot = IF d = c THEN NoSnapshot ELSE [taken |-> TRUE, map |-> d_newest]
      /\ d_writing = [w \in Clock \cup {Forward} |-> NoTag]
      /\ committed = IF d = c THEN "Active" ELSE "Dead"
      /\ own = committed /\ seen = committed
  BY Zenon DEF Init
<1>2. /\ next = Zero /\ sent = [k \in Clock |-> NoUpdate] /\ tags = 0 /\ acked = {}
      /\ disabled = FALSE /\ proposed = {}
  BY Zenon DEF Init
<1>3. /\ stage = "idle" /\ rp = Zero /\ version = 0 /\ known = Zero
      /\ proxy = "none" /\ from = 0 /\ keep = Unlimited
      /\ batch = <<>> /\ last = FALSE /\ fwd = NoTag
      /\ faults = 0
  BY Zenon DEF Init
<1>4. env \in Envs /\ env.tags \in Nat /\ env.faults \in Nat /\ env.clocks \subseteq Clock
  BY RecoveryAssumption DEF Init
<1>5. NoClocks \in Maps
  BY DEF NoClocks, Vacant, Maps
<1>6. \A ks \in SUBSET Clock : Old(ks) \in SUBSET Tags /\ Latest(Old(ks))
  <2> SUFFICES ASSUME NEW ks \in SUBSET Clock PROVE Old(ks) \in SUBSET Tags /\ Latest(Old(ks))
    OBVIOUS
  <2>1. \A t \in Old(ks) : t \in Tags /\ t.tick = 1
    BY DEF Old, Tags
  <2>2. 1 <= 1
    OBVIOUS
  <2> QED
    BY Zenon, <2>1, <2>2 DEF Latest
<1>7. /\ oldest \in Maps /\ d_newest \in Maps /\ held \in SUBSET Tags /\ Latest(held)
  <2>1. c \in SUBSET Clock /\ d \in SUBSET Clock
    BY <1>4
  <2>2. AdvanceAll(NoClocks, Old(c)) \in Maps /\ AdvanceAll(NoClocks, Old(d)) \in Maps
    BY <1>5, <1>6, <2>1, AdvanceAllFacts
  <2> QED
    BY Zenon, <1>1, <1>6, <2>1, <2>2
<1>8. SourceTyped
  <2>1. /\ log \in Seq(Records) /\ Len(log) = 1 /\ DOMAIN log = {1} /\ log[1] = Untagged
    BY <1>1 DEF Records
  <2>2. \A i \in DOMAIN log : ~log[i].tagged
    BY <2>1 DEF Untagged
  <2>3. flush \in [busy : BOOLEAN, ack : Nat, stored : BOOLEAN] /\ flush.ack = 0
    BY <1>1 DEF Idle
  <2>4. \A k \in Clock : oldest[k].tick \in Nat
    BY <1>7 DEF Maps
  <2>5. s_writing \in [Clock -> OptTags] /\ \A k \in Clock : s_writing[k] = NoTag
    BY <1>1 DEF OptTags
  <2>6. s_newest \in Maps /\ s_saved \in Maps /\ s_newest = oldest /\ s_saved = oldest
    BY Zenon, <1>1, <1>7
  <2>7. first = 1 /\ ack = 1
    BY <1>1
  <2>8. \A k \in Clock : oldest[k].tick <= s_saved[k].tick /\ s_saved[k].tick <= s_newest[k].tick
    <3>1. \A n \in Nat : n <= n
      OBVIOUS
    <3> QED
      BY Zenon, <2>4, <2>6, <3>1
  <2>9. \A a, b \in Nat : 1 <= a /\ b <= Len(log) => LatestIn(log, a, b)
    <3>1. \A a, b \in Nat : 1 <= a /\ b <= Len(log) => a .. b \subseteq DOMAIN log
      BY <2>1
    <3> QED
      BY Zenon, <2>2, <3>1 DEF LatestIn, OfClock
  <2>10. 1 \in Nat /\ 1 <= 1 /\ flush.ack <= Len(log)
    BY <2>1, <2>3
  <2> QED
    BY Zenon, <1>7, <2>1, <2>3, <2>5, <2>6, <2>7, <2>8, <2>9, <2>10 DEF SourceTyped
<1>9. DestTyped
  <2>1. snapshot \in [taken : BOOLEAN, map : Maps]
    BY <1>1, <1>5, <1>7 DEF NoSnapshot
  <2>2. d_writing \in [Writers -> OptTags] /\ \A k \in Clock : d_writing[k] = NoTag
    BY <1>1 DEF Writers, OptTags
  <2> QED
    BY Zenon, <1>1, <1>7, <2>1, <2>2 DEF DestTyped
<1>10. SenderTyped
  <2>1. SentTyped(sent)
    <3>1. NoUpdate \in Updates
      BY DEF NoUpdate, Updates, OptTags
    <3> QED
      BY Zenon, <1>2, <3>1, NoUpdateFields DEF SentTyped
  <2> QED
    BY Zenon, <1>2, <2>1 DEF SenderTyped, Zero, Points
<1>11. TransferTyped
  <2>1. <<>> \in Seq(Records) /\ Unlimited \in Nat /\ Zero \in Points
    BY <1>4 DEF Unlimited, Zero, Points
  <2> QED
    BY Zenon, <1>3, <2>1 DEF TransferTyped, OptTags
<1>12. Bounded
  BY <1>1, <1>2, <1>3, <1>4 DEF Bounded
<1> QED
  BY <1>8, <1>9, <1>10, <1>11, <1>12 DEF Typed

LEMMA TypedStep ==
    ASSUME Typed, [Next]_vars
    PROVE  Typed'
<1>1. CASE UNCHANGED vars
  BY Zenon, <1>1, TypesStable DEF vars, sender, Typed
<1>2. ASSUME NEW k \in Clock, \/ LearnTick(k) \/ Send(k) \/ Complete(k) \/ ReceiveAtSource(k)
                              \/ AppendAtSource(k) \/ ReceiveAtDest(k) \/ LoseCall(k) \/ LoseAnswer(k)
      PROVE  Typed'
  BY Zenon, <1>2, LearnTickTyped, SendTyped, CompleteTyped, ReceiveAtSourceTyped,
     AppendAtSourceTyped, ReceiveAtDestTyped, LoseCallTyped, LoseAnswerTyped
<1>3. ASSUME NEW w \in Clock \cup {Forward}, AppendAtDest(w)
      PROVE  Typed'
  BY Zenon, <1>3, AppendAtDestTyped DEF Writers
<1>4. CASE \/ RestartSender \/ ForwardToDest \/ FlushSegments \/ StoreClocks \/ AckWal \/ CrashSource
           \/ StoreClocksAtDest \/ CrashDest \/ ApplyAtDest \/ ApplyAtSender \/ DeactivateDest
  BY Zenon, <1>4, RestartSenderTyped, ForwardToDestTyped, FlushSegmentsTyped, StoreClocksTyped,
     AckWalTyped, CrashSourceTyped, StoreClocksAtDestTyped, CrashDestTyped, ApplyAtDestTyped,
     ApplyAtSenderTyped, DeactivateDestTyped
<1>5. CASE \/ StartTransfer \/ AskRecoveryPoint \/ ReadVersion \/ ReadNewest \/ ResolveDelta
           \/ QueueProxify \/ ReadBatch \/ SendRecord \/ AllSent \/ SwitchToPartial \/ ConfirmPartial
           \/ FinishTransfer \/ Unproxify \/ AbortTransfer
  BY Zenon, <1>5, StartTransferTyped, AskRecoveryPointTyped, ReadVersionTyped, ReadNewestTyped,
     ResolveDeltaTyped, QueueProxifyTyped, ReadBatchTyped, SendRecordTyped, AllSentTyped,
     SwitchToPartialTyped, ConfirmPartialTyped, FinishTransferTyped, UnproxifyTyped,
     AbortTransferTyped
<1> QED
  BY Zenon, <1>1, <1>2, <1>3, <1>4, <1>5 DEF Next

\* The replica states and stages are those of the code, writers hold tags of
\* their clocks and the bounds of the log are in order, in every environment.
THEOREM TypeCorrect == Spec => []TypeOK
<1>1. ASSUME Typed
      PROVE  TypeOK
  <2>1. \A k \in Clock : oldest[k].tick <= s_newest[k].tick
    <3>1. \A k \in Clock : oldest[k].tick <= s_saved[k].tick /\ s_saved[k].tick <= s_newest[k].tick
      BY Zenon, <1>1 DEF Typed, SourceTyped
    <3>2. \A x, y, z \in Nat : x <= y /\ y <= z => x <= z
      OBVIOUS
    <3> QED
      BY Zenon, <1>1, <3>1, <3>2, MapFacts
  <2>2. \A k \in Clock : s_writing[k].clock \in {k, NoTag.clock} /\ d_writing[k].clock \in {k, NoTag.clock}
    BY Zenon, <1>1 DEF Typed, SourceTyped, DestTyped
  <2> QED
    BY Zenon, <1>1, <2>1, <2>2 DEF Typed, SourceTyped, SenderTyped, TransferTyped, Bounded, TypeOK
<1>2. Spec => []Typed
  BY PTL, TypedInit, TypedStep DEF Spec
<1> QED
  BY PTL, <1>1, <1>2


====
