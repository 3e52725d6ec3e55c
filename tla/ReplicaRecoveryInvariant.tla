---------------------- MODULE ReplicaRecoveryInvariant ----------------------
(***************************************************************************)
(* The inductive invariants behind the theorems about ReplicaRecovery, in  *)
(* three layers: types, which hold in every environment; what the log and  *)
(* the clocks of Source say of each other; and what an update in progress, *)
(* a recovery and the state of Dest say about the operations Dest has.     *)
(***************************************************************************)
EXTENDS ReplicaRecovery

Maps == [Clock -> [tick : Nat, token : Nat]]

Points == [Clock -> Nat]

Records == {Untagged} \cup [tagged : {TRUE}, tag : Tags]

OptTags == Tags \cup {NoTag}

Updates ==
    [tag : OptTags, todo : SUBSET {"Source", "Dest"}, both : BOOLEAN, rejected : BOOLEAN,
     echo : Nat, failed : BOOLEAN, dest : {"ok", "refused", "error"}]

Writers == Clock \cup {Forward}

\* Updates in progress, one at a time for each clock.
SentTyped(f) ==
    /\ f \in [Clock -> Updates]
    /\ \A k \in Clock : IF f[k].tag = NoTag THEN f[k] = NoUpdate ELSE f[k].tag.clock = k

\* Of each clock a set of tags has a latest one, or none.
Latest(S) ==
    \A k \in Clock : (\E t \in S : t.clock = k) =>
        \E t \in S : t.clock = k /\ \A u \in S : u.clock = k => u.tick <= t.tick

\* So have the records from a to b.
OfClock(r, k) == r.tagged /\ r.tag.clock = k
LatestOf(recs, a, b, k) ==
    \E i \in a .. b : /\ OfClock(recs[i], k)
                      /\ \A j \in a .. b : OfClock(recs[j], k) => recs[j].tag.tick <= recs[i].tag.tick
LatestIn(recs, a, b) ==
    \A k \in Clock : (\E i \in a .. b : OfClock(recs[i], k)) => LatestOf(recs, a, b, k)

InLog(t) == \E i \in DOMAIN log : log[i].tagged /\ log[i].tag = t

\* The clocks on disk are those of memory, or older.
SourceTyped ==
    /\ log \in Seq(Records) /\ first \in Nat /\ ack \in Nat
    /\ 1 <= first /\ first <= ack /\ ack <= Len(log)
    /\ s_newest \in Maps /\ s_saved \in Maps /\ oldest \in Maps
    /\ \A k \in Clock : oldest[k].tick <= s_saved[k].tick /\ s_saved[k].tick <= s_newest[k].tick
    /\ s_writing \in [Clock -> OptTags]
    /\ \A k \in Clock : s_writing[k] # NoTag => s_writing[k].clock = k
    /\ flush \in [busy : BOOLEAN, ack : Nat, stored : BOOLEAN]
    /\ flush.ack <= Len(log)
    /\ \A a, b \in Nat : 1 <= a /\ b <= Len(log) => LatestIn(log, a, b)

DestTyped ==
    /\ held \subseteq Tags /\ Latest(held)
    /\ d_newest \in Maps /\ d_saved \in Maps
    /\ snapshot \in [taken : BOOLEAN, map : Maps]
    /\ d_writing \in [Writers -> OptTags]
    /\ \A k \in Clock : d_writing[k] # NoTag => d_writing[k].clock = k

SenderTyped ==
    /\ next \in Points /\ SentTyped(sent)
    /\ tags \in Nat /\ acked \subseteq Tags
    /\ disabled \in BOOLEAN /\ proposed \subseteq {"Active", "any"}

TransferTyped ==
    /\ stage \in {"idle", "ask", "version", "newest", "scan", "proxify", "flush", "partial", "confirm",
                  "reflush", "final", "sync", "finish", "aborting"}
    /\ rp \in Points /\ known \in Points /\ version \in Nat
    /\ proxy \in {"none", "queue", "forward"}
    /\ from \in Nat /\ keep \in Nat
    /\ batch \in Seq(Records) /\ last \in BOOLEAN /\ fwd \in OptTags

Bounded ==
    /\ env \in Envs /\ faults \in Nat /\ faults <= env.faults /\ tags <= env.tags
    /\ {committed, own, seen} \subseteq {"Active", "Partial", "Recovery", "Dead"}

Typed == SourceTyped /\ DestTyped /\ SenderTyped /\ TransferTyped /\ Bounded

-----------------------------------------------------------------------------
\* The entry of a clock map that a tag makes.
Entry(t) == [tick |-> t.tick, token |-> t.token]

\* The clocks of Source in memory have seen its log, and belong to it.
LogSeen ==
    \A i \in DOMAIN log : log[i].tagged =>
        LET t == log[i].tag IN
        /\ t.tick <= s_newest[t.clock].tick
        /\ t.tick = s_newest[t.clock].tick => Entry(t) = s_newest[t.clock]
        /\ t.tick = s_saved[t.clock].tick => Entry(t) = s_saved[t.clock]

\* An operation that is not in the log yet has the newest tick of its clock.
WriterNewest == \A k \in Clock : s_writing[k] # NoTag => Entry(s_writing[k]) = s_newest[k]

SavedBefore ==
    \A k \in Clock : s_saved[k].tick = s_newest[k].tick => s_saved[k] = s_newest[k]

\* Records that a restart does not read were seen by the clocks on disk.
AckedSaved ==
    \A i \in DOMAIN log :
        log[i].tagged /\ (i < ack \/ (flush.stored /\ i < flush.ack)) =>
            log[i].tag.tick <= s_saved[log[i].tag.clock].tick

LogInv == LogSeen /\ WriterNewest /\ SavedBefore /\ AckedSaved /\ InOrder(log)

\* While a delta is resolved, what was read of Source still covers its log.
DeltaInv ==
    /\ stage \in {"newest", "scan", "proxify"} => version \in 1 .. Len(log) + 1
    /\ stage = "scan" => Seen(log, known) /\ \A k \in Clock : oldest[k].tick <= known[k]
    /\ DeltaComplete

\* A restart of Source replays its whole log, and nothing is written between
\* reading the clocks and reading the log.
Steady == \A e \in Envs : ~e.pending /\ ~e.torn

-----------------------------------------------------------------------------
\* None of the flaws that an environment can switch on.
Quiet == \A e \in Envs : ~e.pending /\ ~e.lead /\ ~e.late /\ ~e.torn /\ ~e.forget

InProgress(k) == sent[k] # NoUpdate

\* Source has answered for an operation whose update is in progress.
BySource(k) == InProgress(k) /\ "Source" \notin sent[k].todo /\ ~sent[k].failed

\* Dest has the operation or is writing it.
Reaches(t) == t \in held \/ \E w \in Writers : d_writing[w] = t

\* The tag of an update in progress is newer than what its clock had, or is it.
Newest(map, k) ==
    /\ next[k] > 0 => map[k].tick < next[k]
    /\ InProgress(k) /\ map[k].tick = sent[k].tag.tick => map[k] = Entry(sent[k].tag)

TagInv ==
    \A k \in Clock : InProgress(k) =>
        /\ next[k] = sent[k].tag.tick + 1 /\ sent[k].tag.tick > 0
        /\ ~sent[k].rejected /\ sent[k].tag \notin acked

SourceClocks == \A k \in Clock : Newest(s_newest, k) /\ Newest(s_saved, k)

DestClocks == \A k \in Clock : Newest(d_newest, k) /\ Newest(d_saved, k)

DestSaved ==
    /\ \A k \in Clock : /\ d_saved[k].tick <= d_newest[k].tick
                        /\ snapshot.taken => snapshot.map[k].tick <= d_saved[k].tick
    /\ \A t \in held : t.tick <= d_newest[t.clock].tick

\* The clocks of Dest are not ahead of the log of Source, but for an update that
\* both are sent.
Reached(k, n) ==
    \/ n <= oldest[k].tick
    \/ \E i \in DOMAIN log : log[i].tagged /\ log[i].tag.clock = k /\ n <= log[i].tag.tick

DestReached ==
    \A k \in Clock : Reached(k, d_newest[k].tick) \/ (sent[k].both /\ "Source" \in sent[k].todo)

HeldInv ==
    \A k \in Clock, t \in held :
        InProgress(k) /\ t.clock = k /\ t.tick = sent[k].tag.tick => t = sent[k].tag

\* Operations that are being written belong to an update in progress.
WritingInv ==
    \A k \in Clock :
        /\ s_writing[k] # NoTag => s_writing[k] = sent[k].tag /\ "Source" \in sent[k].todo
        /\ d_writing[k] # NoTag => d_writing[k] = sent[k].tag /\ "Dest" \in sent[k].todo

\* So does the one that is forwarded, until Source crashes or the call is lost.
ForwardInv ==
    /\ fwd # NoTag => /\ proxy = "forward" /\ InLog(fwd)
                      /\ sent[fwd.clock].tag = fwd /\ "Source" \in sent[fwd.clock].todo
                      /\ s_writing[fwd.clock] = NoTag
    /\ d_writing[Forward] # NoTag =>
        /\ InLog(d_writing[Forward]) /\ d_writing[Forward] \notin acked
        /\ \A k \in Clock : sent[k].tag = d_writing[Forward] =>
              fwd = d_writing[Forward] \/ sent[k].failed

\* What the answers to an update say about the replicas.
SourceAnswers ==
    /\ \A t \in acked : InLog(t)
    /\ \A k \in Clock : InProgress(k) /\ "Source" \notin sent[k].todo
                        /\ (sent[k].both \/ ~sent[k].failed) => InLog(sent[k].tag)

DestAnswers ==
    \A k \in Clock : InProgress(k) =>
        /\ "Dest" \in sent[k].todo => sent[k].both
        /\ sent[k].both /\ "Dest" \notin sent[k].todo /\ sent[k].dest = "ok" => sent[k].tag \in held
        /\ ~sent[k].both \/ "Dest" \in sent[k].todo => sent[k].dest = "ok"

DestAccepted ==
    \A k \in Clock : InProgress(k) /\ d_newest[k].tick >= sent[k].tag.tick => Reaches(sent[k].tag)

SendInv ==
    /\ TagInv /\ SourceClocks /\ DestClocks /\ DestSaved /\ DestReached /\ HeldInv
    /\ WritingInv /\ ForwardInv /\ SourceAnswers /\ DestAnswers /\ DestAccepted

-----------------------------------------------------------------------------
\* The state a peer may still have when Dest is in state c.
Before(c) ==
    CASE c = "Recovery" -> {"Dead", "Recovery"}
      [] c = "Partial"  -> {"Recovery", "Partial"}
      [] c = "Active"   -> {"Partial", "Active"}
      [] c = "Dead"     -> {"Dead", "Recovery", "Partial", "Active"}

Resolving == {"ask", "version", "newest", "scan", "proxify"}
Queueing == {"flush", "partial", "confirm", "reflush", "final"}

StageInv ==
    /\ own \in Before(committed) /\ seen \in Before(committed)
    /\ snapshot.taken <=> own # "Active"
    /\ stage = "idle" => committed \in {"Dead", "Active"} /\ proxy = "none"
    /\ stage = "finish" => committed \in {"Dead", "Active"} /\ proxy = "forward"
    /\ stage \in Resolving => committed = "Recovery" /\ proxy = "none"
    /\ stage \in Queueing => committed \in {"Recovery", "Partial"} /\ proxy = "queue"
    /\ stage = "partial" => committed = "Recovery"
    /\ stage = "sync" => committed = "Partial" /\ proxy = "forward"
    /\ stage = "aborting" => committed \in {"Recovery", "Partial"}

\* Dest is only disabled while a proposal to deactivate it is on its way, or the
\* sender is about to apply another state.
DisabledInv ==
    /\ disabled => seen # "Dead"
    /\ disabled /\ seen = committed => proposed \cap {"any", seen} # {}
    /\ committed = "Active" /\ seen # "Active" =>
          ~disabled /\ \A k \in Clock : sent[k].dest = "ok"

\* The queue proxy: what is left of the batch is what comes next in the log, and
\* the last one holds the lock that keeps writers out.
QueueInv ==
    /\ last => stage \in {"flush", "reflush", "final", "aborting"}
    /\ stage \in Queueing =>
        /\ 1 <= from /\ from + Len(batch) <= Len(log) + 1
        /\ \A i \in 1 .. Len(batch) : batch[i] = log[from + i - 1]
        /\ last => from + Len(batch) = Len(log) + 1 /\ NoWriter

\* Dest has the operation whatever happens: it is being written, and a clock on
\* disk has its tick.
Safe(t) ==
    \/ t \in held
    \/ d_saved[t.clock].tick >= t.tick /\ \E w \in Writers : d_writing[w] = t

InLogFrom(t, n) == \E i \in DOMAIN log : n <= i /\ log[i].tagged /\ log[i].tag = t

\* What was acknowledged or may be is safe, or still to be sent from the log.
Kept(n) ==
    /\ \A t \in acked : Safe(t) \/ InLogFrom(t, n)
    /\ \A k \in Clock : BySource(k) => Safe(sent[k].tag) \/ InLogFrom(sent[k].tag, n)

AllSafe ==
    /\ \A t \in acked : Safe(t)
    /\ \A k \in Clock : BySource(k) => Safe(sent[k].tag)

\* While Dest is not active: what it misses is above its snapshot, which is the
\* recovery point, and what is above the point is sent.
RecoverInv ==
    /\ snapshot.taken => \A t \in acked : t \in held \/ t.tick > snapshot.map[t.clock].tick
    /\ stage \notin {"idle", "ask", "finish", "aborting"} => rp = RecoveryPoint(snapshot.map)
    /\ stage = "proxify" => Kept(version)
    /\ stage \in Queueing => Kept(from)
    /\ stage \in {"sync", "finish"} => AllSafe

\* While Dest is active, or about to be: what it misses is not overtaken by a
\* later operation of its clock, and a proposal to deactivate it is on its way.
Missed(t) ==
    /\ d_newest[t.clock].tick < t.tick /\ ~sent[t.clock].both
    /\ disabled \/ seen = "Dead"
    /\ stage = "idle"
    /\ committed = "Active" => proposed # {} /\ seen = "Active"

ActiveInv ==
    /\ committed = "Active" \/ own = "Active" => \A t \in acked : t \in held \/ Missed(t)
    /\ committed = "Active" /\ ~disabled =>
        \A k \in Clock : InProgress(k) /\ ~sent[k].both /\ ~sent[k].failed =>
            "Source" \notin sent[k].todo /\ sent[k].tag \in held

\* What a recovery relies on, all of it: for every operation that an update, the
\* log, a proxy or a replica still has to do with, where it is and who will bring
\* it to Dest (ShardReplicaSet::update, QueueProxyShard, ForwardProxyShard).
RecoveryInv ==
    LogInv /\ DeltaInv /\ SendInv /\ StageInv /\ DisabledInv /\ QueueInv /\ RecoverInv /\ ActiveInv
=============================================================================
