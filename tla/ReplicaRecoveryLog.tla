--------------------------- MODULE ReplicaRecoveryLog ---------------------------
(***************************************************************************)
(* What the log of Source and its clocks say of each other, and that the   *)
(* delta of a transfer is complete, when a restart of Source replays its   *)
(* whole log and nothing is written between reading the clocks and the log.*)
(***************************************************************************)
EXTENDS ReplicaRecoveryTypes

\* A record that the owner of the recovery point has not seen.
Missing(recs, i, point) == recs[i].tagged /\ recs[i].tag.tick > point[recs[i].tag.clock]

\* A record of a tagged kind has a clock and a tick.
LEMMA RecordType ==
    ASSUME NEW recs \in Seq(Records), NEW i \in 1 .. Len(recs), recs[i].tagged
    PROVE  recs[i].tag.clock \in Clock /\ recs[i].tag.tick \in Nat
<1>1. recs[i] \in Records
  OBVIOUS
<1>2. recs[i].tag \in Tags
  BY <1>1, RecordTags
<1> QED
  BY <1>2 DEF Tags

\* Where the backward scan stops, every wanted clock has a record at or after
\* that place which is at most the first missing one of the clock.
LEMMA CoveredClock ==
    ASSUME NEW recs \in Seq(Records), NEW start \in Nat \ {0}, NEW i \in Nat,
           NEW point \in [Clock -> Nat], NEW wanted \in SUBSET Clock,
           Covers(recs, start, i, point, wanted), NEW k \in wanted
    PROVE  \E j \in i .. Len(recs) : recs[j].tagged /\ recs[j].tag.clock = k /\ recs[j].tag.tick <= point[k] + 1
<1>1. k \notin Remaining(recs, i, point, wanted)
  BY DEF Covers
<1>2. PICK j \in i .. Len(recs) : recs[j].tagged /\ recs[j].tag.clock = k /\ ~(point[k] + 1 < recs[j].tag.tick)
  BY <1>1 DEF Remaining
<1>3. i \in start .. Len(recs)
  BY DEF Covers
<1>4. j \in 1 .. Len(recs) /\ point[k] \in Nat
  BY <1>3
<1>5. recs[j].tag.tick \in Nat
  BY <1>2, <1>4, RecordType
<1> QED
  BY <1>2, <1>4, <1>5

\* A missing record before the place where the scan stops occurs again after it.
LEMMA MissingIsAfter ==
    ASSUME NEW recs \in Seq(Records), NEW start \in Nat \ {0}, NEW i \in Nat,
           NEW point \in [Clock -> Nat], NEW newest \in [Clock -> Nat],
           ~HigherThanCurrent(point, newest),
           InOrder(recs), Seen(recs, newest),
           Covers(recs, start, i, point, WantedClocks(point, newest)),
           NEW m \in 1 .. Len(recs), Missing(recs, m, point)
    PROVE  \E j \in i .. Len(recs) : recs[j] = recs[m]
<1> DEFINE k == recs[m].tag.clock
           wanted == WantedClocks(point, newest)
<1>1. i \in 1 .. Len(recs)
  BY DEF Covers
<1>2. CASE m >= i
  BY <1>1, <1>2
<1>3. CASE m < i
  <2>1. recs[m].tagged /\ recs[m].tag.tick > point[k]
    BY DEF Missing
  <2>2. k \in Clock /\ recs[m].tag.tick \in Nat
    BY <2>1, RecordType
  <2>3. recs[m].tag.tick <= newest[k]
    BY <2>1 DEF Seen
  <2>4. point[k] \in Nat /\ newest[k] \in Nat
    BY <2>2
  <2>5. k \in wanted
    BY <2>1, <2>2, <2>3, <2>4 DEF WantedClocks
  <2>6. wanted \in SUBSET Clock
    BY DEF WantedClocks
  <2>7. PICK j \in i .. Len(recs) : recs[j].tagged /\ recs[j].tag.clock = k /\ recs[j].tag.tick <= point[k] + 1
    <3> HIDE DEF wanted, k
    <3> QED
      BY Zenon, <2>5, <2>6, CoveredClock DEF wanted
  <2>8. j \in 1 .. Len(recs) /\ m < j
    BY <1>1, <1>3, <2>7
  <2>9. recs[j].tag.tick \in Nat
    BY <2>7, <2>8, RecordType
  <2>10. /\ recs[m].tag.tick <= recs[j].tag.tick
         /\ recs[m].tag.tick = recs[j].tag.tick => recs[m] = recs[j]
    BY <2>1, <2>7, <2>8 DEF InOrder
  <2>11. recs[m].tag.tick = recs[j].tag.tick
    <3>1. \A x, y, z \in Nat : x > z /\ x <= y /\ y <= z + 1 => x = y
      OBVIOUS
    <3> HIDE DEF k
    <3> QED
      BY Zenon, <2>1, <2>2, <2>4, <2>7, <2>9, <2>10, <3>1
  <2> QED
    BY <2>7, <2>10, <2>11
<1> QED
  BY <1>1, <1>2, <1>3

\* The records after record i are enough when record i itself is not the first
\* missing one of its clock: the clock of record i is then not missing anything
\* up to i, and the other clocks have been covered after it.
LEMMA NotNeeded ==
    ASSUME NEW recs \in Seq(Records), NEW start \in Nat \ {0}, NEW i \in Nat,
           NEW point \in [Clock -> Nat], NEW wanted \in SUBSET Clock,
           Covers(recs, start, i, point, wanted),
           recs[i].tag.tick # point[recs[i].tag.clock] + 1
    PROVE  ~Missing(recs, i, point)
<1>1. i \in 1 .. Len(recs) /\ recs[i].tagged
  BY DEF Covers
<1>2. PICK k \in Remaining(recs, i + 1, point, wanted) : TRUE
  BY DEF Covers
<1>3. k \in wanted /\ k \notin Remaining(recs, i, point, wanted)
  BY <1>2 DEF Covers, Remaining
<1>4. PICK j \in i .. Len(recs) : recs[j].tagged /\ recs[j].tag.clock = k /\ ~(point[k] + 1 < recs[j].tag.tick)
  BY <1>3 DEF Remaining
<1>5. j = i
  <2>1. SUFFICES ASSUME j # i PROVE FALSE
    OBVIOUS
  <2>2. j \in (i + 1) .. Len(recs)
    BY <1>1, <2>1
  <2> QED
    BY <1>2, <1>4, <2>2 DEF Remaining
<1>6. recs[i].tag.tick \in Nat /\ recs[i].tag.clock \in Clock
  BY <1>1, RecordType
<1>7. point[k] \in Nat
  BY <1>3
<1> QED
  BY <1>4, <1>5, <1>6, <1>7 DEF Missing

\* Record m, which is missing, is sent: the delta starts at it or before another
\* copy of it.
DeltaSound(recs, point, m, delta) ==
    /\ delta.kind # "equal"
    /\ delta.kind = "from" => \E j \in delta.at .. Len(recs) : recs[j] = recs[m]

\* resolve_wal_delta: when it answers with a record number, every record that
\* the recovered replica is missing is in the log from there on; when it answers
\* that the logs are equal, no record is missing.
THEOREM DeltaIsComplete ==
    ASSUME NEW recs \in Seq(Records), NEW start \in Nat \ {0},
           NEW point \in [Clock -> Nat], NEW newest \in [Clock -> Nat], NEW cutoff \in [Clock -> Nat],
           InOrder(recs), Seen(recs, newest),
           NEW m \in 1 .. Len(recs), Missing(recs, m, point)
    PROVE  DeltaSound(recs, point, m, ResolveWalDelta(recs, start, point, newest, cutoff))
<1> DEFINE wanted == WantedClocks(point, newest)
<1> SUFFICES ASSUME NEW delta, delta = ResolveWalDelta(recs, start, point, newest, cutoff)
             PROVE  /\ delta.kind # "equal"
                    /\ delta.kind = "from" => \E j \in delta.at .. Len(recs) : recs[j] = recs[m]
  BY Zenon DEF DeltaSound
<1>0. NoDelta.kind = "none" /\ EqualLogs.kind = "equal"
      /\ \A n : DeltaFrom(n).kind = "from" /\ DeltaFrom(n).at = n
  BY DEF NoDelta, EqualLogs, DeltaFrom
<1>1. recs[m].tag.clock \in wanted
  <2>1. recs[m].tag.clock \in Clock /\ recs[m].tag.tick \in Nat
    BY RecordType DEF Missing
  <2>2. recs[m].tag.tick <= newest[recs[m].tag.clock] /\ recs[m].tag.tick > point[recs[m].tag.clock]
    BY DEF Seen, Missing
  <2> QED
    BY <2>1, <2>2 DEF WantedClocks
<1>2. SUFFICES ASSUME delta # NoDelta
               PROVE  /\ delta.kind # "equal"
                      /\ delta.kind = "from" => \E j \in delta.at .. Len(recs) : recs[j] = recs[m]
  BY <1>0
<1>3. ~HigherThanCurrent(point, newest) /\ delta = ScanBack(recs, start, point, wanted)
  BY <1>1, <1>2 DEF ResolveWalDelta
<1>4. PICK i \in start .. Len(recs) : Covers(recs, start, i, point, wanted) /\ delta = RecoverFrom(recs, i, point)
  <2> HIDE DEF wanted
  <2> QED
    BY Zenon, <1>2, <1>3 DEF ScanBack
<1>5. i \in Nat /\ wanted \in SUBSET Clock
  BY <1>4 DEF WantedClocks
<1>6. PICK j \in i .. Len(recs) : recs[j] = recs[m]
  BY <1>3, <1>4, <1>5, MissingIsAfter
<1>7. CASE recs[i].tag.tick = point[recs[i].tag.clock] + 1
  BY Zenon, <1>0, <1>4, <1>6, <1>7 DEF RecoverFrom
<1>8. CASE recs[i].tag.tick # point[recs[i].tag.clock] + 1
  <2>1. ~Missing(recs, i, point)
    <3> HIDE DEF wanted
    <3> QED
      BY Zenon, <1>4, <1>5, <1>8, NotNeeded
  <2>2. j # i
    BY <1>6, <2>1 DEF Missing
  <2>3. i # Len(recs) /\ j \in (i + 1) .. Len(recs)
    BY <1>4, <1>6, <2>2
  <2> QED
    BY Zenon, <1>0, <1>4, <1>6, <1>8, <2>3 DEF RecoverFrom
<1> QED
  BY <1>7, <1>8

\* A restart reads the whole log, and a scan is not disturbed.
LEMMA SteadyFacts ==
    ASSUME Steady, Typed
    PROVE  ~env.pending /\ ~env.torn
BY Zenon DEF Steady, Typed, Bounded

\* What a record of the log says, one record at a time.
LEMMA LogInvAt ==
    ASSUME Typed, LogInv, NEW i \in DOMAIN log, log[i].tagged, NEW t, t = log[i].tag
    PROVE  /\ t \in Tags /\ t.clock \in Clock /\ t.tick \in Nat
           /\ t.tick <= s_newest[t.clock].tick
           /\ t.tick = s_newest[t.clock].tick => Entry(t) = s_newest[t.clock]
           /\ t.tick = s_saved[t.clock].tick => Entry(t) = s_saved[t.clock]
           /\ i < ack \/ (flush.stored /\ i < flush.ack) => t.tick <= s_saved[t.clock].tick
<1>1. t \in Tags
  BY LogRecords, Zenon DEF Typed
<1>2. t.clock \in Clock /\ t.tick \in Nat
  BY <1>1 DEF Tags
<1> QED
  BY <1>1, <1>2, Zenon DEF LogInv, LogSeen, AckedSaved

LEMMA OrderAt ==
    ASSUME LogInv, NEW i \in 1 .. Len(log), NEW j \in 1 .. Len(log),
           i < j, log[i].tagged, log[j].tagged, log[i].tag.clock = log[j].tag.clock
    PROVE  /\ log[i].tag.tick <= log[j].tag.tick
           /\ log[i].tag.tick = log[j].tag.tick => log[i] = log[j]
BY Zenon DEF LogInv, InOrder

\* A record with a tag is that of its tag.
LEMMA RecordIs ==
    ASSUME NEW r \in Records, r.tagged
    PROVE  r = Tagged(r.tag)
<1>1. r # Untagged
  BY DEF Untagged
<1>2. r \in [tagged : {TRUE}, tag : Tags]
  BY <1>1 DEF Records
<1> QED
  BY <1>2 DEF Tagged

LEMMA LogInvInit ==
    ASSUME Init, Typed
    PROVE  LogInv
<1>1. log = <<Untagged>> /\ s_saved = s_newest /\ s_writing = [k \in Clock |-> NoTag]
  BY Zenon DEF Init
<1>2. DOMAIN log = {1} /\ Len(log) = 1 /\ ~log[1].tagged
  BY <1>1 DEF Untagged
<1>3. LogSeen /\ AckedSaved
  BY <1>2 DEF LogSeen, AckedSaved
<1>4. InOrder(log)
  BY <1>2 DEF InOrder
<1>5. SavedBefore /\ WriterNewest
  BY <1>1, Zenon DEF SavedBefore, WriterNewest
<1> QED
  BY <1>3, <1>4, <1>5, Zenon DEF LogInv

LEMMA ReceiveAtSourceLog ==
    ASSUME Typed, Typed', LogInv, NEW k \in Clock, ReceiveAtSource(k)
    PROVE  LogInv'
<1> DEFINE tag == sent[k].tag
<1>1. /\ "Source" \in sent[k].todo /\ s_newest' = AdvanceClock(s_newest, tag)
      /\ \/ Accepts(s_newest, tag) /\ s_writing' = [s_writing EXCEPT ![k] = tag]
         \/ ~Accepts(s_newest, tag) /\ s_writing' = s_writing
      /\ UNCHANGED <<log, ack, s_saved, flush>> /\ s_writing[k] = NoTag
  BY Zenon DEF ReceiveAtSource
<1>2. tag \in Tags /\ tag.clock = k
  BY <1>1, SentFacts, Zenon
<1>3. s_newest \in Maps /\ s_newest[k] \in [tick : Nat, token : Nat] /\ tag.tick \in Nat
  BY <1>2, MapFacts DEF Maps, Tags
<1>4. /\ \A c \in Clock : c # k => s_newest'[c] = s_newest[c]
      /\ s_newest'[k] = s_newest[k] \/ (s_newest[k].tick < tag.tick /\ s_newest'[k] = Entry(tag))
      /\ Accepts(s_newest, tag) => s_newest'[k] = Entry(tag)
  <2> HIDE DEF tag
  <2> QED
    BY <1>1, <1>2, <1>3 DEF AdvanceClock, Accepts, Entry, Maps
<1>5. ~Accepts(s_newest, tag) => s_newest' = s_newest
  <2> HIDE DEF tag
  <2> QED
    BY <1>1, <1>2, <1>3 DEF AdvanceClock, Accepts, Maps
<1>6. s_newest'[k] = s_newest[k] \/ s_newest[k].tick < s_newest'[k].tick
  <2> HIDE DEF tag
  <2> QED
    BY <1>4 DEF Entry
<1>7. ASSUME NEW c \in Clock
      PROVE  s_newest'[c] = s_newest[c] \/ s_newest[c].tick < s_newest'[c].tick
  BY <1>4, <1>6, Zenon
<1>8. \A c \in Clock : s_newest[c].tick \in Nat /\ s_newest'[c].tick \in Nat /\ s_saved[c].tick \in Nat
  <2>1. \A map \in Maps : \A c \in Clock : map[c].tick \in Nat
    BY DEF Maps
  <2> QED
    BY <2>1, Zenon DEF Typed, SourceTyped
<1>9. LogSeen'
  <2> SUFFICES ASSUME NEW i \in DOMAIN log, log[i].tagged, NEW t, t = log[i].tag
               PROVE  /\ t.tick <= s_newest'[t.clock].tick
                      /\ t.tick = s_newest'[t.clock].tick => Entry(t) = s_newest'[t.clock]
                      /\ t.tick = s_saved[t.clock].tick => Entry(t) = s_saved[t.clock]
    BY <1>1, Zenon DEF LogSeen
  <2>1. /\ t.clock \in Clock /\ t.tick \in Nat
        /\ t.tick <= s_newest[t.clock].tick
        /\ t.tick = s_newest[t.clock].tick => Entry(t) = s_newest[t.clock]
        /\ t.tick = s_saved[t.clock].tick => Entry(t) = s_saved[t.clock]
    BY LogInvAt
  <2>2. CASE s_newest'[t.clock] = s_newest[t.clock]
    BY <2>1, <2>2, Zenon
  <2>3. CASE s_newest[t.clock].tick < s_newest'[t.clock].tick
    <3>1. t.tick <= s_newest'[t.clock].tick /\ t.tick # s_newest'[t.clock].tick
      BY <1>8, <2>1, <2>3
    <3> QED
      BY <2>1, <3>1, Zenon
  <2> QED
    BY <1>7, <2>1, <2>2, <2>3
<1>10. WriterNewest'
  <2> SUFFICES ASSUME NEW c \in Clock, s_writing'[c] # NoTag
               PROVE  Entry(s_writing'[c]) = s_newest'[c]
    BY Zenon DEF WriterNewest
  <2>1. s_writing \in [Clock -> OptTags]
    BY Zenon DEF Typed, SourceTyped
  <2> HIDE DEF tag
  <2>2. CASE c = k
    BY <1>1, <1>4, <1>5, <2>1, <2>2 DEF LogInv, WriterNewest
  <2>3. CASE c # k
    BY <1>1, <1>4, <2>1, <2>3 DEF LogInv, WriterNewest
  <2> QED
    BY <2>2, <2>3
<1>11. SavedBefore'
  <2> SUFFICES ASSUME NEW c \in Clock, s_saved[c].tick = s_newest'[c].tick
               PROVE  s_saved[c] = s_newest'[c]
    BY <1>1, Zenon DEF SavedBefore
  <2>1. s_saved[c].tick <= s_newest[c].tick
    BY Zenon DEF Typed, SourceTyped
  <2>2. s_newest'[c] = s_newest[c]
    BY <1>7, <1>8, <2>1
  <2> QED
    BY <2>2, Zenon DEF LogInv, SavedBefore
<1>12. AckedSaved' /\ InOrder(log)'
  BY <1>1, Zenon DEF LogInv, AckedSaved
<1> QED
  BY <1>9, <1>10, <1>11, <1>12, Zenon DEF LogInv

\* A record is appended: the log has it at its end.
LEMMA Appended ==
    ASSUME Typed, NEW k \in Clock, AppendAtSource(k)
    PROVE  /\ s_writing[k] \in Tags /\ s_writing[k].clock = k
           /\ Len(log') = Len(log) + 1 /\ DOMAIN log' = 1 .. Len(log) + 1 /\ DOMAIN log = 1 .. Len(log)
           /\ Len(log) \in Nat /\ log' \in Seq(Records)
           /\ \A i \in DOMAIN log : log'[i] = log[i]
           /\ log'[Len(log) + 1].tagged /\ log'[Len(log) + 1].tag = s_writing[k]
           /\ log'[Len(log) + 1] = Tagged(s_writing[k])
<1>1. log' = Append(log, Tagged(s_writing[k])) /\ s_writing[k] # NoTag
  BY Zenon DEF AppendAtSource
<1>2. s_writing[k] \in Tags /\ s_writing[k].clock = k
  BY <1>1 DEF Typed, SourceTyped, OptTags
<1>3. /\ Tagged(s_writing[k]) \in Records /\ Tagged(s_writing[k]).tagged
      /\ Tagged(s_writing[k]).tag = s_writing[k]
  BY <1>2 DEF Tagged, Records
<1>4. log \in Seq(Records)
  BY Zenon DEF Typed, SourceTyped
<1>5. /\ Len(log') = Len(log) + 1 /\ DOMAIN log' = 1 .. Len(log) + 1 /\ DOMAIN log = 1 .. Len(log)
      /\ Len(log) \in Nat /\ log' \in Seq(Records)
      /\ \A i \in DOMAIN log : log'[i] = log[i]
      /\ log'[Len(log) + 1] = Tagged(s_writing[k])
  BY <1>1, <1>3, <1>4
<1> QED
  BY <1>2, <1>3, <1>5, Zenon

LEMMA AppendAtSourceLog ==
    ASSUME Typed, Typed', LogInv, NEW k \in Clock, AppendAtSource(k)
    PROVE  LogInv'
<1> DEFINE tag == s_writing[k]
           n == Len(log) + 1
<1>1. /\ tag # NoTag /\ s_writing' = [s_writing EXCEPT ![k] = NoTag]
      /\ UNCHANGED <<ack, s_newest, s_saved, flush>>
  BY Zenon DEF AppendAtSource
<1>2. /\ tag \in Tags /\ tag.clock = k /\ DOMAIN log' = 1 .. n /\ DOMAIN log = 1 .. Len(log)
      /\ Len(log) \in Nat /\ Len(log') = n
      /\ \A i \in DOMAIN log : log'[i] = log[i]
      /\ log'[n].tagged /\ log'[n].tag = tag /\ log'[n] = Tagged(tag)
  BY Appended, Zenon
<1>3. Entry(tag) = s_newest[k]
  BY <1>1, Zenon DEF LogInv, WriterNewest
<1>4. tag.tick = s_newest[k].tick /\ tag.tick \in Nat /\ Entry(tag).tick = tag.tick
  BY <1>2, <1>3 DEF Entry, Tags
<1> HIDE DEF tag, n
<1>5. \A i \in DOMAIN log' : i \in DOMAIN log \/ i = n
  BY <1>2 DEF n
<1>6. LogSeen'
  <2> SUFFICES ASSUME NEW i \in DOMAIN log', log'[i].tagged, NEW t, t = log'[i].tag
               PROVE  /\ t.tick <= s_newest[t.clock].tick
                      /\ t.tick = s_newest[t.clock].tick => Entry(t) = s_newest[t.clock]
                      /\ t.tick = s_saved[t.clock].tick => Entry(t) = s_saved[t.clock]
    BY <1>1, Zenon DEF LogSeen
  <2>1. CASE i \in DOMAIN log
    BY <1>2, <2>1, LogInvAt
  <2>2. CASE i = n
    <3>1. t = tag
      BY <1>2, <2>2
    <3>2. s_saved[k].tick = s_newest[k].tick => s_saved[k] = s_newest[k]
      BY Zenon DEF LogInv, SavedBefore
    <3>3. tag.tick <= s_newest[k].tick
      BY <1>4
    <3> QED
      BY <1>2, <1>3, <1>4, <3>1, <3>2, <3>3, Zenon
  <2> QED
    BY <1>5, <2>1, <2>2
<1>7. WriterNewest'
  <2>1. s_writing \in [Clock -> OptTags]
    BY Zenon DEF Typed, SourceTyped
  <2> QED
    BY <1>1, <2>1 DEF LogInv, WriterNewest
<1>8. AckedSaved'
  <2>1. ack <= Len(log) /\ flush.ack <= Len(log) /\ ack \in Nat /\ flush.ack \in Nat
    BY DEF Typed, SourceTyped
  <2>2. ~(n < ack) /\ ~(n < flush.ack)
    BY <1>2, <2>1 DEF n
  <2> QED
    BY <1>1, <1>2, <1>5, <2>2, Zenon DEF LogInv, AckedSaved
<1>9. InOrder(log')
  <2> SUFFICES ASSUME NEW i \in 1 .. n, NEW j \in 1 .. n,
                      i < j, log'[i].tagged, log'[j].tagged, log'[i].tag.clock = log'[j].tag.clock
               PROVE  /\ log'[i].tag.tick <= log'[j].tag.tick
                      /\ log'[i].tag.tick = log'[j].tag.tick => log'[i] = log'[j]
    BY <1>2 DEF InOrder
  <2>1. i \in DOMAIN log /\ log'[i] = log[i]
    BY <1>2 DEF n
  <2>2. CASE j \in DOMAIN log
    <3>1. log'[j] = log[j] /\ i \in 1 .. Len(log) /\ j \in 1 .. Len(log)
      BY <1>2, <2>1, <2>2
    <3> QED
      <4>1. /\ log[i].tag.tick <= log[j].tag.tick
            /\ log[i].tag.tick = log[j].tag.tick => log[i] = log[j]
        BY <2>1, <3>1, OrderAt
      <4> QED
        BY <2>1, <3>1, <4>1
  <2>3. CASE j = n
    <3>1. PICK t : t = log[i].tag
      OBVIOUS
    <3>2. /\ t \in Tags /\ t.clock = k /\ t.tick <= s_newest[k].tick
          /\ t.tick = s_newest[k].tick => Entry(t) = s_newest[k]
      BY <1>2, <2>1, <2>3, <3>1, LogInvAt
    <3>3. t.tick <= tag.tick /\ (t.tick = tag.tick => Entry(t) = Entry(tag))
      BY <1>3, <1>4, <3>2
    <3>4. t.tick = tag.tick => t = tag
      BY <1>2, <3>2, <3>3 DEF Entry, Tags
    <3>5. log[i] \in Records /\ log[i].tagged
      BY <2>1, LogRecords DEF Typed
    <3>6. log[i] = Tagged(t)
      BY <3>1, <3>5, RecordIs, Zenon
    <3> QED
      BY <1>2, <2>1, <2>3, <3>1, <3>3, <3>4, <3>6, Zenon
  <2> QED
    BY <1>2, <1>5, <2>2, <2>3
<1>10. SavedBefore'
  BY <1>1, Zenon DEF LogInv, SavedBefore
<1> QED
  BY <1>6, <1>7, <1>8, <1>9, <1>10, Zenon DEF LogInv

LEMMA FlushLog ==
    ASSUME Typed, LogInv, FlushSegments \/ StoreClocks \/ AckWal
    PROVE  LogInv'
<1>1. CASE FlushSegments
  <2>1. ~flush'.stored /\ UNCHANGED <<log, ack, s_newest, s_saved, s_writing>>
    BY <1>1 DEF FlushSegments
  <2> QED
    BY <2>1, Zenon DEF LogInv, LogSeen, WriterNewest, SavedBefore, AckedSaved
<1>2. CASE StoreClocks
  <2>1. s_saved' = s_newest /\ UNCHANGED <<log, ack, s_newest, s_writing>>
    BY <1>2, Zenon DEF StoreClocks
  <2>2. LogSeen' /\ WriterNewest' /\ SavedBefore' /\ InOrder(log)'
    BY <2>1, Zenon DEF LogInv, LogSeen, WriterNewest, SavedBefore
  <2>3. AckedSaved'
    BY <2>1, Zenon DEF LogInv, LogSeen, AckedSaved
  <2> QED
    BY <2>2, <2>3, Zenon DEF LogInv
<1>3. CASE AckWal
  <2>1. /\ flush.stored /\ ack' = MaxOf(ack, flush.ack) /\ flush' = Idle
        /\ UNCHANGED <<log, s_newest, s_saved, s_writing>>
    BY <1>3, Zenon DEF AckWal
  <2>2. ~flush'.stored /\ ack' \in {ack, flush.ack}
    BY <2>1 DEF Idle, MaxOf
  <2>3. LogSeen' /\ WriterNewest' /\ SavedBefore' /\ InOrder(log)'
    BY <2>1, Zenon DEF LogInv, LogSeen, WriterNewest, SavedBefore
  <2>4. AckedSaved'
    BY <2>1, <2>2, Zenon DEF LogInv, AckedSaved
  <2> QED
    BY <2>3, <2>4, Zenon DEF LogInv
<1> QED
  BY <1>1, <1>2, <1>3

\* Source replays its log from where it was acknowledged, over the clocks on
\* disk, and has the clocks of its whole log again.
LEMMA CrashSourceLog ==
    ASSUME Typed, Typed', LogInv, CrashSource, ~env.pending
    PROVE  LogInv'
<1> DEFINE S == TagsIn(SubSeq(log, ack, Len(log)))
<1>1. /\ s_writing' = [k \in Clock |-> NoTag] /\ ~flush'.stored
      /\ UNCHANGED <<log, ack, s_saved>>
  BY DEF CrashSource, Idle
<1>2. PICK to \in {Len(log) + 1} : s_newest' = AdvanceAll(s_saved, TagsIn(SubSeq(log, ack, to - 1)))
  BY Zenon DEF CrashSource
<1>3. Len(log) \in Nat /\ ack \in Nat /\ 1 <= ack /\ SourceTyped
  <2>1. SourceTyped
    BY Zenon DEF Typed
  <2>2. ack \in Nat /\ first \in Nat /\ 1 <= first /\ first <= ack
    BY <2>1, Zenon DEF SourceTyped
  <2>3. Len(log) \in Nat
    BY BatchFacts
  <2> QED
    BY <2>1, <2>2, <2>3
<1>4. s_newest' = AdvanceAll(s_saved, S)
  <2>1. to - 1 = Len(log)
    BY <1>2, <1>3
  <2> QED
    BY <1>2, <2>1, Zenon
<1>5. /\ S \in SUBSET Tags /\ Latest(S)
      /\ \A t : t \in S <=> \E i \in ack .. Len(log) : log[i].tagged /\ log[i].tag = t
  <2>1. Len(log) <= Len(log)
    BY <1>3
  <2> QED
    BY <1>3, <2>1, StretchFacts, Zenon
<1> HIDE DEF S
<1>6. /\ \A k \in Clock :
           /\ s_saved[k].tick <= s_newest'[k].tick
           /\ \/ s_newest'[k] = s_saved[k]
              \/ \E t \in S : t.clock = k /\ s_saved[k].tick < t.tick /\ s_newest'[k] = Entry(t)
      /\ \A t \in S : t.tick <= s_newest'[t.clock].tick
  <2>1. s_saved \in Maps
    BY MapFacts, Zenon
  <2> QED
    BY <1>4, <1>5, <2>1, AdvanceAllFacts
<1>7. \A k \in Clock : s_newest'[k].tick \in Nat /\ s_saved[k].tick \in Nat
  <2>1. \A map \in Maps : \A c \in Clock : map[c].tick \in Nat
    BY DEF Maps
  <2> QED
    BY <2>1, Zenon DEF Typed, SourceTyped
<1>8. LogSeen'
  <2> SUFFICES ASSUME NEW i \in DOMAIN log, log[i].tagged, NEW t, t = log[i].tag
               PROVE  /\ t.tick <= s_newest'[t.clock].tick
                      /\ t.tick = s_newest'[t.clock].tick => Entry(t) = s_newest'[t.clock]
                      /\ t.tick = s_saved[t.clock].tick => Entry(t) = s_saved[t.clock]
    BY <1>1, Zenon DEF LogSeen
  <2>1. /\ t \in Tags /\ t.clock \in Clock /\ t.tick \in Nat
        /\ t.tick = s_saved[t.clock].tick => Entry(t) = s_saved[t.clock]
        /\ i < ack => t.tick <= s_saved[t.clock].tick
    BY LogInvAt, Zenon
  <2>2. i \in 1 .. Len(log)
    BY LogRecords, Zenon DEF Typed
  <2>3. t.tick <= s_newest'[t.clock].tick
    <3>1. CASE i < ack
      BY <1>6, <1>7, <2>1, <3>1
    <3>2. CASE ~(i < ack)
      <4>1. i \in ack .. Len(log)
        BY <1>3, <2>2, <3>2
      <4> QED
        BY <1>5, <1>6, <4>1, Zenon
    <3> QED
      BY <3>1, <3>2
  <2>4. ASSUME t.tick = s_newest'[t.clock].tick
        PROVE  Entry(t) = s_newest'[t.clock]
    <3>1. CASE s_newest'[t.clock] = s_saved[t.clock]
      BY <2>1, <2>4, <3>1, Zenon
    <3>2. ASSUME NEW u \in S, u.clock = t.clock, s_newest'[t.clock] = Entry(u)
          PROVE  Entry(t) = s_newest'[t.clock]
      <4>1. PICK j \in ack .. Len(log) : log[j].tagged /\ log[j].tag = u
        BY <1>5, <3>2
      <4>2. j \in 1 .. Len(log) /\ u.tick = t.tick
        BY <1>3, <2>4, <3>2, <4>1 DEF Entry
      <4>3. i < j \/ j < i \/ i = j
        BY <2>2, <4>2
      <4>4. log[i] = log[j]
        BY <2>2, <3>2, <4>1, <4>2, <4>3, Zenon DEF LogInv, InOrder
      <4> QED
        BY <3>2, <4>1, <4>4, Zenon
    <3> QED
      BY <1>6, <2>1, <3>1, <3>2, Zenon
  <2> QED
    BY <2>1, <2>3, <2>4
<1>9. WriterNewest' /\ AckedSaved' /\ InOrder(log)'
  BY <1>1, Zenon DEF LogInv, WriterNewest, AckedSaved
<1>10. SavedBefore'
  <2> SUFFICES ASSUME NEW k \in Clock, s_saved[k].tick = s_newest'[k].tick
               PROVE  s_saved[k] = s_newest'[k]
    BY <1>1, Zenon DEF SavedBefore
  <2>1. ASSUME NEW t \in S, s_saved[k].tick < t.tick, s_newest'[k] = Entry(t)
        PROVE  FALSE
    BY <1>5, <1>7, <2>1 DEF Entry, Tags
  <2> QED
    BY <1>6, <2>1, Zenon
<1> QED
  BY <1>8, <1>9, <1>10, Zenon DEF LogInv

\* Steps that leave the log of Source, its clocks and a delta alone, or only end
\* the resolution of the delta.
Calm ==
    /\ UNCHANGED <<log, ack, s_newest, s_saved, s_writing, flush, oldest>>
    /\ stage' \notin {"newest", "scan", "proxify"} \/ UNCHANGED <<stage, version, known, rp>>

LEMMA CalmInv ==
    ASSUME LogInv, DeltaInv, Calm
    PROVE  LogInv' /\ DeltaInv'
<1>1. LogInv'
  BY Zenon DEF Calm, LogInv, LogSeen, WriterNewest, SavedBefore, AckedSaved
<1>2. CASE stage' \notin {"newest", "scan", "proxify"}
  BY <1>1, <1>2, Zenon DEF DeltaInv, DeltaComplete
<1>3. CASE UNCHANGED <<stage, version, known, rp>>
  <2>1. UNCHANGED <<log, oldest, stage, version, known, rp>>
    BY <1>3, Zenon DEF Calm
  <2>2. SourceHeld' = SourceHeld
    BY <2>1, Zenon DEF SourceHeld, CutOff
  <2> QED
    BY <1>1, <2>1, <2>2, Zenon DEF DeltaInv, DeltaComplete
<1> QED
  BY <1>2, <1>3, Zenon DEF Calm

\* A delta starts at a record, or right after the log.
LEMMA DeltaPlace ==
    ASSUME SourceTyped, NEW pt, NEW newest, NEW cut, NEW delta,
           delta = ResolveWalDelta(log, first, pt, newest, cut), delta.kind = "from"
    PROVE  delta.at \in 1 .. Len(log) + 1
<1>1. NoDelta.kind = "none" /\ EqualLogs.kind = "equal"
      /\ \A n : DeltaFrom(n).at = n
  BY DEF NoDelta, EqualLogs, DeltaFrom
<1>2. \E wanted : delta = ScanBack(log, first, pt, wanted)
  BY <1>1, Zenon DEF ResolveWalDelta
<1>3. PICK i \in first .. Len(log) : delta = RecoverFrom(log, i, pt)
  BY <1>1, <1>2, Zenon DEF ScanBack
<1>4. delta.at \in {i, i + 1}
  BY <1>1, <1>3, Zenon DEF RecoverFrom
<1>5. Len(log) \in Nat /\ first \in Nat /\ 1 <= first
  BY DEF SourceTyped
<1> QED
  BY <1>3, <1>4, <1>5

\* What Source has is in its log, or from before its recovery.
LEMMA HeldAtSource ==
    ASSUME SourceTyped, NEW t \in SourceHeld
    PROVE  \/ \E i \in 1 .. Len(log) : log[i].tagged /\ log[i].tag = t
           \/ t.clock \in Clock /\ t.tick = 1 /\ oldest[t.clock].tick > 0
<1>1. CASE t \in TagsIn(log)
  <2>1. log \in Seq(Records)
    BY Zenon DEF SourceTyped
  <2> QED
    BY <1>1, <2>1, TagsInFacts, Zenon
<1>2. CASE t \in Old(CutOff)
  BY <1>2 DEF Old, CutOff
<1> QED
  BY <1>1, <1>2, Zenon DEF SourceHeld

\* The delta that is resolved is complete.
LEMMA ResolvedComplete ==
    ASSUME Typed, LogInv, DeltaInv, stage = "scan", NEW delta,
           delta = ResolveWalDelta(log, first, rp, known, RecoveryPoint(oldest)), delta # NoDelta,
           NEW t \in SourceHeld, t.tick > rp[t.clock]
    PROVE  /\ delta.kind # "equal"
           /\ delta.kind = "from" => \E j \in delta.at .. Len(log) : log[j].tagged /\ log[j].tag = t
<1>1. /\ InOrder(log) /\ Seen(log, known) /\ SourceTyped
      /\ \A k \in Clock : oldest[k].tick <= known[k]
  BY Zenon DEF Typed, LogInv, DeltaInv
<1>2. /\ log \in Seq(Records) /\ first \in Nat \ {0} /\ rp \in [Clock -> Nat] /\ known \in [Clock -> Nat]
      /\ RecoveryPoint(oldest) \in [Clock -> Nat]
  <2>1. log \in Seq(Records) /\ first \in Nat /\ 1 <= first /\ rp \in Points /\ known \in Points /\ oldest \in Maps
    BY Zenon DEF Typed, SourceTyped, TransferTyped
  <2> QED
    BY <2>1, PointFacts DEF Points
<1>3. CASE \E i \in 1 .. Len(log) : log[i].tagged /\ log[i].tag = t
  <2>1. PICK i \in 1 .. Len(log) : log[i].tagged /\ log[i].tag = t
    BY <1>3
  <2>2. Missing(log, i, rp)
    BY <2>1, Zenon DEF Missing
  <2>3. /\ delta.kind # "equal"
        /\ delta.kind = "from" => \E j \in delta.at .. Len(log) : log[j] = log[i]
    <3> DEFINE cut == RecoveryPoint(oldest)
    <3>1. cut \in [Clock -> Nat] /\ delta = ResolveWalDelta(log, first, rp, known, cut)
      BY <1>2, Zenon
    <3> HIDE DEF cut
    <3>2. DeltaSound(log, rp, i, ResolveWalDelta(log, first, rp, known, cut))
      BY <1>1, <1>2, <2>2, <3>1, DeltaIsComplete
    <3> QED
      BY <3>1, <3>2, Zenon DEF DeltaSound
  <2> QED
    BY <2>1, <2>3, Zenon
<1>4. CASE t.clock \in Clock /\ t.tick = 1 /\ oldest[t.clock].tick > 0
  <2>1. rp[t.clock] \in Nat /\ known[t.clock] \in Nat /\ oldest[t.clock].tick \in Nat
    BY <1>2, <1>4, MapFacts
  <2>2. rp[t.clock] < oldest[t.clock].tick /\ known[t.clock] > 0
    BY <1>1, <1>4, <2>1
  <2>3. BelowCutoff(rp, known, RecoveryPoint(oldest))
    BY <1>4, <2>2 DEF BelowCutoff, RecoveryPoint
  <2> QED
    BY <2>3, Zenon DEF ResolveWalDelta
<1> QED
  BY <1>1, <1>3, <1>4, HeldAtSource, Zenon

LEMMA ResolveDeltaLog ==
    ASSUME Typed, LogInv, DeltaInv, ResolveDelta
    PROVE  LogInv' /\ DeltaInv'
<1>1. PICK delta :
        /\ delta = ResolveWalDelta(log, first, rp, known, RecoveryPoint(oldest))
        /\ stage = "scan" /\ stage' = IF delta = NoDelta THEN "aborting" ELSE "proxify"
        /\ version' = IF delta.kind = "from" THEN delta.at ELSE version
  BY Zenon DEF ResolveDelta
<1>2. UNCHANGED <<log, ack, s_newest, s_saved, s_writing, flush, oldest, rp>>
  BY DEF ResolveDelta, source
<1>3. CASE delta = NoDelta
  BY <1>1, <1>2, <1>3, CalmInv DEF Calm
<1>4. CASE delta # NoDelta
  <2>1. stage' = "proxify" /\ SourceTyped
    BY <1>1, <1>4, Zenon DEF Typed
  <2>2. version' \in 1 .. Len(log) + 1
    BY <1>1, <2>1, DeltaPlace, Zenon DEF DeltaInv
  <2>3. SourceHeld' = SourceHeld
    BY <1>2, Zenon DEF SourceHeld, CutOff
  <2>4. ASSUME NEW t \in SourceHeld, t.tick > rp[t.clock]
        PROVE  t \in TagsIn(SubSeq(log, version', Len(log)))
    <3>1. /\ delta.kind # "equal"
          /\ delta.kind = "from" => \E j \in delta.at .. Len(log) : log[j].tagged /\ log[j].tag = t
      BY <1>1, <1>4, <2>4, ResolvedComplete, Zenon
    <3>2. delta.kind \in {"none", "equal", "from"} /\ (delta.kind = "none" => delta = NoDelta)
      BY <1>1 DEF ResolveWalDelta, ScanBack, RecoverFrom, NoDelta, EqualLogs, DeltaFrom
    <3>3. \E j \in version' .. Len(log) : log[j].tagged /\ log[j].tag = t
      BY <1>1, <1>4, <3>1, <3>2, Zenon
    <3>4. version' \in Nat /\ 1 <= version' /\ Len(log) \in Nat /\ Len(log) <= Len(log)
      BY <2>1, <2>2, LogRecords
    <3> QED
      BY <2>1, <3>3, <3>4, StretchFacts, Zenon
  <2>5. LogInv'
    BY <1>2, Zenon DEF LogInv, LogSeen, WriterNewest, SavedBefore, AckedSaved
  <2>6. DeltaComplete'
    BY <1>2, <2>3, <2>4, Zenon DEF DeltaComplete
  <2>7. stage' # "scan" /\ Len(log)' = Len(log)
    BY <1>2, <2>1
  <2> QED
    BY <2>2, <2>5, <2>6, <2>7, Zenon DEF DeltaInv
<1> QED
  BY <1>3, <1>4

LEMMA ReadVersionLog ==
    ASSUME Typed, LogInv, DeltaInv, ReadVersion
    PROVE  LogInv' /\ DeltaInv'
<1>1. /\ version' = Len(log) + 1 /\ stage' = "newest"
      /\ UNCHANGED <<log, ack, s_newest, s_saved, s_writing, flush>>
  BY DEF ReadVersion, source
<1>2. LogInv'
  BY <1>1, Zenon DEF LogInv, LogSeen, WriterNewest, SavedBefore, AckedSaved
<1>3. version' \in 1 .. Len(log) + 1 /\ Len(log') = Len(log)
  BY <1>1, BatchFacts
<1>4. stage' # "scan" /\ stage' # "proxify"
  BY <1>1
<1> QED
  BY <1>2, <1>3, <1>4, Zenon DEF DeltaInv, DeltaComplete

LEMMA ReadNewestLog ==
    ASSUME Typed, LogInv, DeltaInv, ReadNewest
    PROVE  LogInv' /\ DeltaInv'
<1>1. /\ known' = RecoveryPoint(s_newest) /\ stage = "newest" /\ stage' = "scan"
      /\ UNCHANGED <<log, ack, s_newest, s_saved, s_writing, flush, oldest, version>>
  BY DEF ReadNewest, source
<1>2. LogInv'
  BY <1>1, Zenon DEF LogInv, LogSeen, WriterNewest, SavedBefore, AckedSaved
<1>3. \A k \in Clock : known'[k] = s_newest[k].tick
  BY <1>1 DEF RecoveryPoint
<1>4. DOMAIN log = 1 .. Len(log)
  BY LogRecords, Zenon DEF Typed
<1>5. Seen(log, known')
  <2> SUFFICES ASSUME NEW i \in DOMAIN log, log[i].tagged
               PROVE  log[i].tag.tick <= known'[log[i].tag.clock]
    BY <1>4, Zenon DEF Seen
  <2>1. log[i].tag.clock \in Clock /\ log[i].tag.tick <= s_newest[log[i].tag.clock].tick
    BY LogInvAt, Zenon
  <2> QED
    BY <1>3, <2>1, Zenon
<1>6. \A k \in Clock : oldest[k].tick <= s_newest[k].tick
  <2> SUFFICES ASSUME NEW k \in Clock PROVE oldest[k].tick <= s_newest[k].tick
    OBVIOUS
  <2>1. oldest[k].tick <= s_saved[k].tick /\ s_saved[k].tick <= s_newest[k].tick
    BY Zenon DEF Typed, SourceTyped
  <2>2. oldest[k].tick \in Nat /\ s_saved[k].tick \in Nat /\ s_newest[k].tick \in Nat
    BY MapFacts, Zenon
  <2> QED
    BY <2>1, <2>2
<1>7. version \in 1 .. Len(log) + 1 /\ stage' # "proxify"
  BY <1>1 DEF DeltaInv
<1> QED
  BY <1>1, <1>2, <1>3, <1>5, <1>6, <1>7, Zenon DEF DeltaInv, DeltaComplete

\* A tag of a stretch of a log.
LEMMA SegmentTags ==
    ASSUME NEW s \in Seq(Records), NEW a \in Nat, NEW b \in Nat, 1 <= a, b <= Len(s),
           NEW i \in a .. b, s[i].tagged
    PROVE  s[i].tag \in TagsIn(SubSeq(s, a, b))
<1>1. /\ SubSeq(s, a, b) \in Seq(Records) /\ i - a + 1 \in 1 .. Len(SubSeq(s, a, b))
      /\ SubSeq(s, a, b)[i - a + 1] = s[i]
  OBVIOUS
<1> QED
  BY <1>1, TagsInFacts, Zenon

\* A record that is written after the log was read is sent anyway.
LEMMA AppendAtSourceDelta ==
    ASSUME Typed, Typed', DeltaInv, NEW k \in Clock, AppendAtSource(k), ~env.torn
    PROVE  DeltaInv'
<1>1. /\ stage # "scan" /\ UNCHANGED <<stage, version, rp, oldest>>
  BY Zenon DEF AppendAtSource
<1>2. /\ Len(log') = Len(log) + 1 /\ DOMAIN log' = 1 .. Len(log) + 1 /\ DOMAIN log = 1 .. Len(log)
      /\ Len(log) \in Nat /\ log' \in Seq(Records) /\ \A i \in DOMAIN log : log'[i] = log[i]
  BY Appended, Zenon
<1>3. stage \in {"newest", "proxify"} => version \in 1 .. Len(log) + 1 /\ version \in 1 .. Len(log') + 1
  BY <1>2 DEF DeltaInv
<1>4. DeltaComplete'
  <2> SUFFICES ASSUME stage = "proxify", NEW t \in SourceHeld', t.tick > rp[t.clock]
               PROVE  t \in TagsIn(SubSeq(log', version, Len(log')))
    BY <1>1, Zenon DEF DeltaComplete
  <2>0. version \in Nat /\ 1 <= version /\ version <= Len(log) + 1
    BY <1>2, <1>3
  <2>1. SourceTyped /\ SourceTyped'
    BY Zenon DEF Typed
  <2>2. t \in SourceHeld \/ (t = log'[Len(log) + 1].tag /\ log'[Len(log) + 1].tagged)
    <3>1. CASE t \in Old(CutOff)'
      BY <1>1, <3>1, Zenon DEF SourceHeld, CutOff
    <3>2. CASE t \in TagsIn(log')
      <4>1. PICK i \in 1 .. Len(log') : log'[i].tagged /\ log'[i].tag = t
        BY <1>2, <3>2, TagsInFacts, Zenon
      <4>2. i \in 1 .. Len(log) \/ i = Len(log) + 1
        BY <1>2, <4>1
      <4>3. CASE i \in 1 .. Len(log)
        <5>1. log[i].tagged /\ log[i].tag = t /\ log \in Seq(Records)
          BY <1>2, <2>1, <4>1, <4>3, Zenon DEF SourceTyped
        <5> QED
          BY <4>3, <5>1, TagsInFacts, Zenon DEF SourceHeld
      <4> QED
        BY <4>1, <4>2, <4>3, Zenon
    <3> QED
      BY <3>1, <3>2, Zenon DEF SourceHeld
  <2>3. \E i \in version .. Len(log') : log'[i].tagged /\ log'[i].tag = t
    <3>1. CASE t \in SourceHeld
      <4>1. t \in TagsIn(SubSeq(log, version, Len(log)))
        BY <3>1, Zenon DEF DeltaInv, DeltaComplete
      <4>2. Len(log) <= Len(log)
        BY <1>2
      <4>3. PICK i \in version .. Len(log) : log[i].tagged /\ log[i].tag = t
        <5>1. \A u : u \in TagsIn(SubSeq(log, version, Len(log))) <=>
                        \E j \in version .. Len(log) : log[j].tagged /\ log[j].tag = u
          BY <1>2, <2>0, <2>1, <4>2, StretchFacts
        <5> QED
          BY <4>1, <5>1, Zenon
      <4>4. i \in DOMAIN log /\ i \in version .. Len(log')
        BY <1>2, <2>0, <4>3
      <4> QED
        BY <1>2, <4>3, <4>4, Zenon
    <3>2. CASE t = log'[Len(log) + 1].tag /\ log'[Len(log) + 1].tagged
      <4>1. Len(log) + 1 \in version .. Len(log')
        BY <1>2, <2>0
      <4> QED
        BY <3>2, <4>1, Zenon
    <3> QED
      BY <2>2, <3>1, <3>2
  <2>4. Len(log') <= Len(log') /\ Len(log') \in Nat
    BY <1>2
  <2> QED
    BY <1>2, <2>0, <2>3, <2>4, SegmentTags, Zenon
<1> QED
  BY <1>1, <1>3, <1>4, Zenon DEF DeltaInv

LEMMA CrashSourceDelta ==
    ASSUME CrashSource
    PROVE  DeltaInv'
<1>1. stage' \in {"idle", "aborting"}
  BY Zenon DEF CrashSource
<1>2. stage' \notin {"newest", "scan", "proxify"}
  BY <1>1
<1> QED
  BY <1>2, Zenon DEF DeltaInv, DeltaComplete

LEMMA DeltaStable ==
    ASSUME DeltaInv, UNCHANGED <<log, oldest, stage, version, known, rp>>
    PROVE  DeltaInv'
<1>1. SourceHeld' = SourceHeld
  BY Zenon DEF SourceHeld, CutOff
<1> QED
  BY <1>1, Zenon DEF DeltaInv, DeltaComplete

LEMMA LogStep ==
    ASSUME Steady, Typed, Typed', LogInv, DeltaInv, [Next]_vars
    PROVE  LogInv' /\ DeltaInv'
<1>0. ~env.pending /\ ~env.torn
  BY SteadyFacts
<1>1. ASSUME NEW k \in Clock, LearnTick(k) \/ Send(k) \/ Complete(k) \/ ReceiveAtDest(k)
                                \/ LoseCall(k) \/ LoseAnswer(k)
      PROVE  Calm
  BY <1>1, Zenon DEF LearnTick, Send, Complete, ReceiveAtDest, LoseCall, LoseAnswer, Calm, source, transfer
<1>2. ASSUME NEW w \in Clock \cup {Forward}, AppendAtDest(w)
      PROVE  Calm
  BY <1>2, Zenon DEF AppendAtDest, Calm, source, transfer
<1>3. CASE RestartSender \/ ForwardToDest \/ StoreClocksAtDest \/ CrashDest \/ ApplyAtDest \/ ApplyAtSender
  <2>1. Calm
    BY <1>3, Zenon DEF RestartSender, ForwardToDest, StoreClocksAtDest, CrashDest, ApplyAtDest, ApplyAtSender,
                       Calm, source, transfer
  <2> QED
    BY <2>1, CalmInv
<1>4. CASE DeactivateDest \/ Unproxify \/ AbortTransfer
  <2>1. source' = source /\ (stage' = "idle" \/ transfer' = transfer)
    BY <1>4, Zenon DEF DeactivateDest, Unproxify, AbortTransfer
  <2>2. Calm
    BY <2>1 DEF Calm, source, transfer
  <2> QED
    BY <2>2, CalmInv
<1>5. CASE StartTransfer \/ AskRecoveryPoint \/ SwitchToPartial \/ ConfirmPartial \/ FinishTransfer
  <2>1. source' = source /\ stage' \in {"ask", "version", "confirm", "reflush", "finish"}
    BY <1>5, Zenon DEF StartTransfer, AskRecoveryPoint, SwitchToPartial, ConfirmPartial, FinishTransfer
  <2>2. Calm
    BY <2>1 DEF Calm, source
  <2> QED
    BY <2>2, CalmInv
<1>6. CASE QueueProxify \/ ReadBatch \/ SendRecord
  <2>1. /\ source' = source /\ UNCHANGED <<version, known, rp>>
        /\ stage' \in {"flush", "aborting"} \/ stage' = stage
    BY <1>6, Zenon DEF QueueProxify, ReadBatch, SendRecord
  <2>2. Calm
    BY <2>1 DEF Calm, source
  <2> QED
    BY <2>2, CalmInv
<1>7. CASE AllSent
  <2>1. source' = source /\ stage' \in {"partial", "final", "sync"}
    BY <1>7 DEF AllSent
  <2>2. Calm
    BY <2>1 DEF Calm, source
  <2> QED
    BY <2>2, CalmInv
<1>8. ASSUME NEW k \in Clock, ReceiveAtSource(k)
      PROVE  LogInv' /\ DeltaInv'
  <2>1. UNCHANGED <<log, oldest, stage, version, known, rp>>
    BY <1>8, Zenon DEF ReceiveAtSource, transfer
  <2> QED
    BY <1>8, <2>1, ReceiveAtSourceLog, DeltaStable
<1>9. ASSUME NEW k \in Clock, AppendAtSource(k)
      PROVE  LogInv' /\ DeltaInv'
  BY <1>0, <1>9, AppendAtSourceLog, AppendAtSourceDelta
<1>10. CASE FlushSegments \/ StoreClocks \/ AckWal
  <2>1. UNCHANGED <<log, oldest, stage, version, known, rp>>
    BY <1>10, Zenon DEF FlushSegments, StoreClocks, AckWal, transfer
  <2> QED
    BY <1>10, <2>1, FlushLog, DeltaStable
<1>11. CASE CrashSource
  BY <1>0, <1>11, CrashSourceLog, CrashSourceDelta
<1>12. CASE ReadVersion \/ ReadNewest \/ ResolveDelta
  BY <1>12, ReadVersionLog, ReadNewestLog, ResolveDeltaLog
<1>13. CASE UNCHANGED vars
  <2>1. Calm
    BY <1>13, Zenon DEF vars, source, transfer, Calm
  <2> QED
    BY <2>1, CalmInv
<1> QED
  BY <1>1, <1>2, <1>3, <1>4, <1>5, <1>6, <1>7, <1>8, <1>9, <1>10, <1>11, <1>12, <1>13, CalmInv, Zenon DEF Next

\* The clocks of Source and its log stay in step, and while a delta is resolved
\* what was read of them still covers the log, in every run of the system in
\* which a restart of Source replays its whole log and the read of the clocks
\* and of the log is not torn.
LEMMA LogInvHolds ==
    ASSUME Steady
    PROVE  Spec => [](Typed /\ LogInv /\ DeltaInv)
<1>1. Init => Typed /\ LogInv /\ DeltaInv
  <2> SUFFICES ASSUME Init PROVE Typed /\ LogInv /\ DeltaInv
    OBVIOUS
  <2>1. Typed
    BY TypedInit
  <2>2. stage = "idle"
    BY Zenon DEF Init
  <2>3. stage \notin {"newest", "scan", "proxify"}
    BY <2>2
  <2> QED
    BY <2>1, <2>3, LogInvInit, Zenon DEF DeltaInv, DeltaComplete
<1>2. Typed /\ LogInv /\ DeltaInv /\ [Next]_vars => (Typed /\ LogInv /\ DeltaInv)'
  BY TypedStep, LogStep
<1> QED
  BY <1>1, <1>2, PTL DEF Spec

\* resolve_wal_delta is called with what it relies on: the ticks of each clock
\* are in order in the log and the clocks that were read before cover it.
THEOREM DeltaPremisesHold ==
    ASSUME Steady
    PROVE  Spec => []DeltaPremises
<1>1. LogInv /\ DeltaInv => DeltaPremises
  BY Zenon DEF LogInv, DeltaInv, DeltaPremises
<1> QED
  BY <1>1, LogInvHolds, PTL

\* The delta of a log that is written, acknowledged, truncated and replayed all
\* the while is complete: no operation Source has above the recovery point is
\* missing from what the queue proxy will send.
THEOREM TransferDeltaComplete ==
    ASSUME Steady
    PROVE  Spec => []DeltaComplete
<1>1. DeltaInv => DeltaComplete
  BY Zenon DEF DeltaInv
<1> QED
  BY <1>1, LogInvHolds, PTL
=============================================================================
