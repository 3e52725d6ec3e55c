--------------------------- MODULE ReplicaRecovery ---------------------------
(***************************************************************************)
(* A replica that missed updates is recovered from the log of another one. *)
(*                                                                         *)
(* Source is the local shard of an active replica with its recoverable WAL *)
(* and flush worker, Dest the replica that is recovered, and a peer sends  *)
(* every update, tagged with one of its clocks, to the replicas it may     *)
(* update.  The transfer task of Source asks Dest for its recovery point,  *)
(* resolves the WAL delta, wraps the local shard into a queue proxy that   *)
(* sends the log from there on, and then into a forward proxy until the    *)
(* state of Dest, a value agreed on in consensus, is Active again.         *)
(***************************************************************************)
EXTENDS WalDelta, FiniteSets

CONSTANTS
    BatchSize,      \* records sent at a time
    Envs            \* bounds and what goes wrong, a set of records, one of them chosen

(***************************************************************************)
(* The fields of an environment:                                           *)
(*   tags     bound: operations tagged, retries included                   *)
(*   faults   bound: crashes, lost calls and failed transfers              *)
(*   clocks   the clocks that are used                                     *)
(*   flush    the flush worker of Source runs                              *)
(*   pending  Source may restart with records that are only queued         *)
(*   lead     Dest may crash when a stored clock leads its log             *)
(*   late     Dest may become Active while an update it was not sent is on *)
(*            its way to Source, or before its last failure is handled     *)
(*   torn     records may be written between reading the clocks and the log *)
(*   forget   the sender may restart while updates are in progress         *)
(***************************************************************************)
ASSUME RecoveryAssumption ==
    /\ BatchSize \in Nat \ {0} /\ "forward" \notin Clock
    /\ \A e \in Envs : /\ e.tags \in Nat /\ e.faults \in Nat /\ e.clocks \subseteq Clock
                       /\ {e.flush, e.pending, e.lead, e.late, e.torn, e.forget} \subseteq BOOLEAN

VARIABLES
    \* Source
    log,            \* every record written, by index; those below first are deleted
    first,          \* first_closed_index
    ack,            \* first_index, the first record a restart reads
    s_newest, s_saved,      \* newest_clocks, in memory and on disk
    oldest,         \* oldest_clocks
    s_writing,      \* per clock: the operation between its clock and the log
    flush,          \* the flush worker
    \* Dest
    held,           \* the tags of its log
    d_newest, d_saved,
    snapshot,       \* of newest_clocks, also on disk
    d_writing,
    \* the sender
    next,           \* per clock: next_tick
    sent,           \* per clock: the update in progress
    tags,           \* number of tags made
    acked,          \* tags of the operations that succeeded
    disabled,       \* locally_disabled_peers has Dest
    proposed,       \* proposals to deactivate Dest, with the state it has to be in
    \* consensus
    committed,      \* state of Dest
    own, seen,      \* as Dest and the sender have applied it
    \* the transfer
    stage, rp, version, known,
    proxy, from, keep, batch, last, fwd,
    faults, env

source == <<log, first, ack, s_newest, s_saved, oldest, s_writing, flush>>
dest == <<held, d_newest, d_saved, snapshot, d_writing>>
sender == <<next, sent, tags, acked, disabled, proposed>>
states == <<committed, own, seen>>
transfer == <<stage, rp, version, known, proxy, from, keep, batch, last, fwd>>
vars == <<source, dest, sender, states, transfer, faults, env>>

NoTag == [clock |-> "none", tick |-> 0, token |-> 0]
NoUpdate == [tag |-> NoTag, todo |-> {}, both |-> FALSE, rejected |-> FALSE, echo |-> 0,
             failed |-> FALSE, dest |-> "ok"]
Idle == [busy |-> FALSE, ack |-> 0, stored |-> FALSE]
Unlimited == env.tags + 3        \* u64::MAX, past every index
NoSnapshot == [taken |-> FALSE, map |-> NoClocks]
Forward == "forward"            \* the writer of Dest that serves the forward proxy
Zero == [k \in Clock |-> 0]

Updatable == {"Active", "Partial"}
PartialOrRecovery == {"Partial", "Recovery"}

\* A clock map advanced with every tag of a set.
AdvanceAll(map, S) ==
    [k \in Clock |->
        LET T == {t \in S : t.clock = k /\ t.tick > map[k].tick}
            newest == CHOOSE t \in T : \A u \in T : u.tick <= t.tick
        IN  IF T = {} THEN map[k] ELSE [tick |-> newest.tick, token |-> newest.token]]

TagsIn(records) == {r.tag : r \in {records[i] : i \in {j \in DOMAIN records : records[j].tagged}}}

\* Operations from before the source's own recovery: it has them, its log has not.
Old(ks) == {[clock |-> k, tick |-> 1, token |-> 0] : k \in ks}
CutOff == {k \in Clock : oldest[k].tick > 0}

\* What the source has: what its log ever held, and what it was recovered with.
SourceHeld == TagsIn(log) \cup Old(CutOff)

-----------------------------------------------------------------------------
\* Source was itself recovered with the operations Old(c), or is new; Dest has
\* them all and is Active, or missed some and is Dead.
Init ==
    /\ env \in Envs
    /\ \E c \in SUBSET env.clocks, d \in SUBSET env.clocks :
      /\ d \subseteq c
      /\ log = <<Untagged>> /\ first = 1 /\ ack = 1
      /\ oldest = AdvanceAll(NoClocks, Old(c))
      /\ s_newest = oldest /\ s_saved = oldest
      /\ s_writing = [k \in Clock |-> NoTag]
      /\ flush = Idle
      /\ held = Old(d)
      /\ d_newest = AdvanceAll(NoClocks, Old(d)) /\ d_saved = d_newest
      /\ snapshot = IF d = c THEN NoSnapshot ELSE [taken |-> TRUE, map |-> d_newest]
      /\ d_writing = [w \in Clock \cup {Forward} |-> NoTag]
      /\ next = Zero /\ sent = [k \in Clock |-> NoUpdate] /\ tags = 0 /\ acked = {}
      /\ disabled = FALSE /\ proposed = {}
      /\ committed = IF d = c THEN "Active" ELSE "Dead"
      /\ own = committed /\ seen = committed
      /\ stage = "idle" /\ rp = Zero /\ version = 0 /\ known = Zero
      /\ proxy = "none" /\ from = 0 /\ keep = Unlimited
      /\ batch = <<>> /\ last = FALSE /\ fwd = NoTag
      /\ faults = 0
-----------------------------------------------------------------------------
\* The sender: ShardReplicaSet::update, one update at a time for each clock

MinOf(a, b) == IF a < b THEN a ELSE b
MaxOf(a, b) == IF a < b THEN b ELSE a

Targets == {"Source"} \cup (IF seen \in Updatable /\ ~disabled THEN {"Dest"} ELSE {})

\* An update with a tag of its own, sent to every replica that is updatable now.
Tagging(k, tick) ==
    [NoUpdate EXCEPT !.tag = [clock |-> k, tick |-> tick, token |-> tags + 1],
                     !.todo = Targets, !.both = "Dest" \in Targets]

\* The first update of a clock has tick 0.  Every replica rejects it and echoes
\* the newest tick it knows.
LearnTick(k) ==
    /\ k \in env.clocks /\ next[k] = 0 /\ sent[k] = NoUpdate
    /\ next' = [next EXCEPT ![k] =
                   1 + IF "Dest" \in Targets /\ own \in Updatable
                       THEN MaxOf(s_newest[k].tick, d_newest[k].tick) ELSE s_newest[k].tick]
    /\ UNCHANGED <<source, dest, sent, tags, acked, disabled, proposed, states, transfer, faults, env>>

Send(k) ==
    /\ next[k] > 0 /\ sent[k] = NoUpdate /\ tags < env.tags
    /\ sent' = [sent EXCEPT ![k] = Tagging(k, next[k])]
    /\ next' = [next EXCEPT ![k] = @ + 1]
    /\ tags' = tags + 1
    /\ UNCHANGED <<source, dest, acked, disabled, proposed, states, transfer, faults, env>>

\* An answer of replica r.  The sender may have restarted and wait for none.
Answered(k, tag, r) ==
    IF sent[k].tag = tag THEN [sent EXCEPT ![k].todo = @ \ {r}] ELSE sent
Rejected(k, tag, r, tick) ==
    IF sent[k].tag = tag
    THEN [sent EXCEPT ![k].todo = @ \ {r}, ![k].rejected = TRUE, ![k].echo = MaxOf(@, tick)]
    ELSE sent
SourceFailed(k, tag) ==
    IF sent[k].tag = tag THEN [sent EXCEPT ![k].todo = @ \ {"Source"}, ![k].failed = TRUE] ELSE sent
DestFailed(k, error) == [sent EXCEPT ![k].todo = @ \ {"Dest"}, ![k].dest = error]

\* A failed replica is deactivated, except one that is being recovered and has
\* merely refused; the transfer and its proxies take care of that one.
MustDeactivate(u) ==
    /\ u.dest # "ok" /\ seen # "Dead"
    /\ ~(seen \in PartialOrRecovery /\ u.dest = "refused")

\* All replicas have answered.  A rejected update is sent again with a newer tick.
Complete(k) ==
    LET u == sent[k]
        tick == MaxOf(next[k], u.echo + 1)
    IN
    /\ u # NoUpdate /\ u.todo = {}
    /\ IF ~u.failed /\ MustDeactivate(u)
       THEN /\ disabled' = TRUE
            /\ proposed' = proposed \cup {IF seen \in PartialOrRecovery THEN "any" ELSE seen}
       ELSE UNCHANGED <<disabled, proposed>>
    /\ IF u.rejected /\ ~u.failed /\ tags < env.tags
       THEN /\ sent' = [sent EXCEPT ![k] = Tagging(k, tick)]
            /\ next' = [next EXCEPT ![k] = tick + 1]
            /\ tags' = tags + 1
            /\ UNCHANGED acked
       ELSE /\ sent' = [sent EXCEPT ![k] = NoUpdate]
            /\ acked' = IF u.rejected \/ u.failed THEN acked ELSE acked \cup {u.tag}
            /\ UNCHANGED <<next, tags>>
    /\ UNCHANGED <<source, dest, states, transfer, faults, env>>

\* The sender restarts and has forgotten its ticks.
RestartSender ==
    /\ faults < env.faults /\ next # Zero
    /\ env.forget \/ (~disabled /\ proposed = {} /\ \A k \in Clock : sent[k] = NoUpdate)
    /\ next' = Zero /\ disabled' = FALSE
    /\ sent' = [k \in Clock |-> NoUpdate]
    /\ faults' = faults + 1
    /\ UNCHANGED <<source, dest, tags, acked, proposed, states, transfer, env>>

-----------------------------------------------------------------------------
\* Source: RecoverableWal::lock_and_write, through the proxy if there is one

NoWriter == \A k \in Clock : s_writing[k] = NoTag
UpdateLockFree == NoWriter /\ fwd = NoTag /\ ~last

ReceiveAtSource(k) ==
    LET tag == sent[k].tag IN
    /\ "Source" \in sent[k].todo /\ s_writing[k] = NoTag
    /\ proxy = "none" \/ (UpdateLockFree /\ stage # "final")
    /\ s_newest' = AdvanceClock(s_newest, tag)
    /\ IF Accepts(s_newest, tag)
       THEN s_writing' = [s_writing EXCEPT ![k] = tag] /\ UNCHANGED sent
       ELSE sent' = Rejected(k, tag, "Source", s_newest[k].tick) /\ UNCHANGED s_writing
    /\ UNCHANGED <<log, first, ack, s_saved, oldest, flush, dest, next, tags, acked, disabled, proposed,
                   states, transfer, faults, env>>

\* The forward proxy sends the operation on before it answers.
AppendAtSource(k) ==
    /\ s_writing[k] # NoTag /\ (env.torn \/ stage # "scan")
    /\ log' = Append(log, Tagged(s_writing[k]))
    /\ s_writing' = [s_writing EXCEPT ![k] = NoTag]
    /\ IF proxy = "forward" THEN fwd' = s_writing[k] /\ UNCHANGED sent
       ELSE sent' = Answered(k, s_writing[k], "Source") /\ UNCHANGED fwd
    /\ UNCHANGED <<first, ack, s_newest, s_saved, oldest, flush, dest, next, tags, acked, disabled, proposed,
                   states, stage, rp, version, known, proxy, from, keep, batch, last, faults, env>>

ForwardToDest ==
    LET k == fwd.clock IN
    /\ fwd # NoTag /\ d_writing[Forward] = NoTag
    /\ IF own \in Updatable
       THEN /\ d_newest' = AdvanceClock(d_newest, fwd)
            /\ IF Accepts(d_newest, fwd)
               THEN d_writing' = [d_writing EXCEPT ![Forward] = fwd] /\ UNCHANGED <<fwd, sent>>
               ELSE /\ fwd' = NoTag /\ sent' = Rejected(k, fwd, "Source", d_newest[k].tick)
                    /\ UNCHANGED d_writing
       ELSE fwd' = NoTag /\ sent' = SourceFailed(k, fwd) /\ UNCHANGED <<d_newest, d_writing>>
    /\ UNCHANGED <<source, held, d_saved, snapshot, next, tags, acked, disabled, proposed, states, stage, rp,
                   version, known, proxy, from, keep, batch, last, faults, env>>

\* Mutant: the number after the last record may be acknowledged.
FlushSegmentsNext ==
    /\ env.flush /\ ~flush.busy /\ keep > 1 /\ Len(log) > ack
    /\ flush' = [busy |-> TRUE, ack |-> MinOf(Len(log) + 1, keep - 1), stored |-> FALSE]
    /\ UNCHANGED <<log, first, ack, s_newest, s_saved, oldest, s_writing, dest, sender, states,
                   transfer, faults, env>>

\* The flush worker: what may be acknowledged is computed from keep_from, then
\* the clocks are stored, then the log is acknowledged and whole files deleted.
FlushSegments ==
    /\ env.flush /\ ~flush.busy /\ keep > 1 /\ Len(log) > ack
    /\ flush' = [busy |-> TRUE, ack |-> MinOf(Len(log), keep - 1), stored |-> FALSE]
    /\ UNCHANGED <<log, first, ack, s_newest, s_saved, oldest, s_writing, dest, sender, states,
                   transfer, faults, env>>

StoreClocks ==
    /\ flush.busy /\ ~flush.stored
    /\ flush' = [flush EXCEPT !.stored = TRUE]
    /\ s_saved' = s_newest
    /\ UNCHANGED <<log, first, ack, s_newest, oldest, s_writing, dest, sender, states, transfer,
                   faults, env>>

AckWal ==
    /\ flush.stored
    /\ ack' = MaxOf(ack, flush.ack)
    /\ first' \in {first, ack'}
    /\ flush' = Idle
    /\ UNCHANGED <<log, s_newest, s_saved, oldest, s_writing, dest, sender, states, transfer,
                   faults, env>>
\* Source crashes while no update is sent to Dest, and loads its log again.  The
\* clocks are those of the records it replays; later records, which the update
\* queue can hold, are queued.
CrashSource ==
    /\ faults < env.faults
    /\ seen \notin Updatable /\ \A k \in Clock : ~sent[k].both
    /\ \E to \in IF env.pending THEN ack .. Len(log) + 1 ELSE {Len(log) + 1} :
          s_newest' = AdvanceAll(s_saved, TagsIn(SubSeq(log, ack, to - 1)))
    /\ sent' = [k \in Clock |->
                  IF (s_writing[k] # NoTag \/ fwd.clock = k) /\ sent[k] # NoUpdate
                  THEN [sent[k] EXCEPT !.todo = @ \ {"Source"}, !.failed = TRUE] ELSE sent[k]]
    /\ s_writing' = [k \in Clock |-> NoTag]
    /\ flush' = Idle
    /\ stage' = IF stage \in {"idle", "finish"} THEN "idle" ELSE "aborting"
    /\ proxy' = "none" /\ keep' = Unlimited /\ fwd' = NoTag /\ batch' = <<>> /\ last' = FALSE
    /\ faults' = faults + 1
    /\ UNCHANGED <<log, first, ack, s_saved, oldest, dest, next, tags, acked, disabled, proposed, states, rp,
                   version, known, from, env>>

-----------------------------------------------------------------------------
\* Dest: ShardReplicaSet::update_local, RecoverableWal::lock_and_write

ReceiveAtDest(k) ==
    LET tag == sent[k].tag IN
    /\ "Dest" \in sent[k].todo /\ d_writing[k] = NoTag
    /\ IF own \in Updatable
       THEN /\ d_newest' = AdvanceClock(d_newest, tag)
            /\ IF Accepts(d_newest, tag)
               THEN d_writing' = [d_writing EXCEPT ![k] = tag] /\ UNCHANGED sent
               ELSE sent' = Rejected(k, tag, "Dest", d_newest[k].tick) /\ UNCHANGED d_writing
       ELSE sent' = DestFailed(k, "refused") /\ UNCHANGED <<d_newest, d_writing>>
    /\ UNCHANGED <<source, held, d_saved, snapshot, next, tags, acked, disabled, proposed, states, transfer,
                   faults, env>>

AppendAtDest(w) ==
    LET tag == d_writing[w] IN
    /\ tag # NoTag
    /\ held' = held \cup {tag}
    /\ d_writing' = [d_writing EXCEPT ![w] = NoTag]
    /\ IF w # Forward THEN sent' = Answered(w, tag, "Dest") /\ UNCHANGED fwd
       ELSE IF fwd = tag THEN sent' = Answered(tag.clock, tag, "Source") /\ fwd' = NoTag
       ELSE UNCHANGED <<sent, fwd>>
    /\ UNCHANGED <<source, d_newest, d_saved, snapshot, next, tags, acked, disabled, proposed, states, stage,
                   rp, version, known, proxy, from, keep, batch, last, faults, env>>

\* The flush worker of Dest stores its clocks.
StoreClocksAtDest ==
    /\ d_saved # d_newest
    /\ d_saved' = d_newest
    /\ UNCHANGED <<source, held, d_newest, snapshot, d_writing, sender, states, transfer, faults, env>>

\* The sender still has to apply that Dest is Active.
Activating == committed = "Active" /\ seen # "Active"

\* The call to Dest fails and has no effect.
LoseCall(k) ==
    /\ faults < env.faults /\ (env.late \/ ~Activating)
    /\ "Dest" \in sent[k].todo /\ d_writing[k] = NoTag
    /\ sent' = DestFailed(k, "error")
    /\ faults' = faults + 1
    /\ UNCHANGED <<source, dest, next, tags, acked, disabled, proposed, states, transfer, env>>

\* Dest has written the operation, its answer is lost.
LoseAnswer(k) ==
    LET tag == d_writing[k] IN
    /\ faults < env.faults /\ (env.late \/ ~Activating)
    /\ tag # NoTag /\ sent[k].tag = tag
    /\ held' = held \cup {tag}
    /\ d_writing' = [d_writing EXCEPT ![k] = NoTag]
    /\ sent' = DestFailed(k, "error")
    /\ faults' = faults + 1
    /\ UNCHANGED <<source, d_newest, d_saved, snapshot, next, tags, acked, disabled, proposed, states,
                   transfer, env>>

\* A clock on disk leads the log: an operation has its tick there, and is not
\* written yet.
ClockLeads(tag) ==
    \/ d_saved[tag.clock].tick >= tag.tick
    \/ snapshot.taken /\ snapshot.map[tag.clock].tick >= tag.tick

\* Dest crashes and loads its log again.
CrashDest ==
    LET lost == {w \in DOMAIN d_writing : d_writing[w] # NoTag} IN
    /\ faults < env.faults
    /\ env.lead \/ \A w \in lost : ~ClockLeads(d_writing[w])
    /\ env.late \/ ~Activating
    /\ d_newest' = AdvanceAll(d_saved, held)
    /\ d_writing' = [w \in DOMAIN d_writing |-> NoTag]
    /\ sent' = [k \in Clock |->
                  [sent[k] EXCEPT
                     !.todo = @ \ ((IF k \in lost /\ sent[k].tag = d_writing[k] THEN {"Dest"} ELSE {})
                             \cup (IF Forward \in lost /\ sent[k].tag = fwd THEN {"Source"} ELSE {})),
                     !.dest = IF k \in lost /\ sent[k].tag = d_writing[k] THEN "error" ELSE @,
                     !.failed = IF Forward \in lost /\ sent[k].tag = fwd /\ fwd # NoTag THEN TRUE ELSE @]]
    /\ fwd' = IF Forward \in lost THEN NoTag ELSE fwd
    /\ faults' = faults + 1
    /\ UNCHANGED <<source, held, d_saved, snapshot, next, tags, acked, disabled, proposed, states, stage, rp,
                   version, known, proxy, from, keep, batch, last, env>>

-----------------------------------------------------------------------------
\* The state of Dest.  Source proposes and knows it; a change is committed when
\* the one before it has been applied by both peers.

Settled == own = committed /\ seen = committed

\* set_replica_state: the clocks are kept aside while the replica is not active.
ApplyAtDest ==
    /\ own # committed
    /\ own' = committed
    /\ IF committed = "Active" THEN snapshot' = NoSnapshot /\ d_saved' = d_newest
       ELSE IF ~snapshot.taken
       THEN snapshot' = [taken |-> TRUE, map |-> d_newest] /\ d_saved' = d_newest
       ELSE UNCHANGED <<snapshot, d_saved>>
    /\ UNCHANGED <<source, held, d_newest, d_writing, sender, committed, seen, transfer, faults, env>>

ApplyAtSender ==
    /\ seen # committed
    /\ seen' = committed /\ disabled' = FALSE
    /\ UNCHANGED <<source, dest, next, sent, tags, acked, proposed, committed, own, transfer, faults, env>>

\* Unproxified under the lock of the local shard.
Unproxified ==
    /\ proxy # "none" => NoWriter /\ fwd = NoTag
    /\ proxy' = "none" /\ keep' = Unlimited /\ batch' = <<>> /\ last' = FALSE
    /\ UNCHANGED <<rp, version, known, from, fwd>>

\* A failed replica is declared dead if it is in the state the sender saw; this
\* aborts its transfer.
DeactivateDest ==
    \E state \in proposed :
       /\ Settled
       /\ proposed' = proposed \ {state}
       /\ IF state \in {"any", committed} /\ committed # "Dead"
          THEN /\ committed' = "Dead"
               /\ IF stage \in {"idle", "finish"} THEN UNCHANGED transfer
                  ELSE stage' = "idle" /\ Unproxified
          ELSE UNCHANGED <<committed, transfer>>
       /\ UNCHANGED <<source, dest, next, sent, tags, acked, disabled, own, seen, faults, env>>

-----------------------------------------------------------------------------
\* The transfer: transfer_wal_delta

StartTransfer ==
    /\ Settled /\ committed = "Dead" /\ stage = "idle"
    /\ committed' = "Recovery"
    /\ stage' = "ask"
    /\ UNCHANGED <<source, dest, sender, own, seen, rp, version, known, proxy, from, keep, batch,
                   last, fwd, faults, env>>

\* Mutant: the recovery point is that of the current clocks.
AskNewestClocks ==
    /\ stage = "ask"
    /\ rp' = RecoveryPoint(d_newest)
    /\ stage' = "version"
    /\ UNCHANGED <<source, dest, sender, states, version, known, proxy, from, keep, batch, last, fwd,
                   faults, env>>

AskRecoveryPoint ==
    /\ stage = "ask"
    /\ rp' = RecoveryPoint(IF snapshot.taken THEN snapshot.map ELSE d_newest)
    /\ stage' = "version"
    /\ UNCHANGED <<source, dest, sender, states, version, known, proxy, from, keep, batch, last, fwd,
                   faults, env>>

\* The next index is read before the clocks, which are read before the log.
ReadVersion ==
    /\ stage = "version"
    /\ version' = Len(log) + 1
    /\ stage' = "newest"
    /\ UNCHANGED <<source, dest, sender, states, rp, known, proxy, from, keep, batch, last, fwd,
                   faults, env>>

\* Mutant: the clocks on disk.
ReadStored ==
    /\ stage = "newest"
    /\ known' = RecoveryPoint(s_saved)
    /\ stage' = "scan"
    /\ UNCHANGED <<source, dest, sender, states, rp, version, proxy, from, keep, batch, last, fwd,
                   faults, env>>

ReadNewest ==
    /\ stage = "newest"
    /\ known' = RecoveryPoint(s_newest)
    /\ stage' = "scan"
    /\ UNCHANGED <<source, dest, sender, states, rp, version, proxy, from, keep, batch, last, fwd,
                   faults, env>>

ResolveDelta ==
    LET delta == ResolveWalDelta(log, first, rp, known, RecoveryPoint(oldest)) IN
    /\ stage = "scan"
    /\ stage' = IF delta = NoDelta THEN "aborting" ELSE "proxify"
    /\ version' = IF delta.kind = "from" THEN delta.at ELSE version
    /\ UNCHANGED <<source, dest, sender, states, rp, known, proxy, from, keep, batch, last, fwd,
                   faults, env>>

QueueProxify ==
    /\ stage = "proxify" /\ NoWriter
    /\ IF version \in first .. Len(log) + 1
       THEN proxy' = "queue" /\ from' = version /\ keep' = version /\ stage' = "flush"
       ELSE stage' = "aborting" /\ UNCHANGED <<proxy, from, keep>>
    /\ UNCHANGED <<source, dest, sender, states, rp, version, known, batch, last, fwd, faults, env>>

\* Mutant: the batch before the last one is taken for the last.
ReadBatchEarly ==
    /\ stage \in {"flush", "reflush", "final"} /\ batch = <<>> /\ ~last /\ NoWriter
    /\ IF from < first
       THEN stage' = "aborting" /\ UNCHANGED <<batch, last>>
       ELSE /\ batch' = SubSeq(log, from, MinOf(Len(log), from + BatchSize - 1))
            /\ last' = (Len(log) - from <= BatchSize)
            /\ UNCHANGED stage
    /\ UNCHANGED <<source, dest, sender, states, rp, version, known, proxy, from, keep, fwd, faults,
                   env>>

\* The last batch keeps the update lock until it is sent.
ReadBatch ==
    /\ stage \in {"flush", "reflush", "final"} /\ batch = <<>> /\ ~last /\ NoWriter
    /\ IF from < first
       THEN stage' = "aborting" /\ UNCHANGED <<batch, last>>
       ELSE /\ batch' = SubSeq(log, from, MinOf(Len(log), from + BatchSize - 1))
            /\ last' = (Len(log) + 1 - from <= BatchSize)
            /\ UNCHANGED stage
    /\ UNCHANGED <<source, dest, sender, states, rp, version, known, proxy, from, keep, fwd, faults,
                   env>>

\* Records are sent with force = true: Dest takes them while it recovers, and
\* whatever its clocks are.
SendRecord ==
    /\ batch # <<>> /\ stage \in {"flush", "reflush", "final"}
    /\ IF Head(batch).tagged /\ own # "Dead"
       THEN /\ d_newest' = AdvanceClock(d_newest, Head(batch).tag)
            /\ held' = held \cup {Head(batch).tag}
            /\ batch' = Tail(batch) /\ from' = from + 1
            /\ UNCHANGED stage
       ELSE stage' = "aborting" /\ UNCHANGED <<d_newest, held, batch, from>>
    /\ UNCHANGED <<source, d_saved, snapshot, d_writing, sender, states, rp, version, known, proxy,
                   keep, last, fwd, faults, env>>

\* All is sent.  The queue is flushed once more when Dest is Partial, and again
\* with updates locked out, to become a forward proxy.
AllSent ==
    /\ batch = <<>> /\ last /\ stage \in {"flush", "reflush", "final"}
    /\ last' = FALSE
    /\ CASE stage = "flush"   -> stage' = "partial" /\ keep' = from /\ UNCHANGED proxy
         [] stage = "reflush" -> stage' = "final" /\ keep' = from /\ UNCHANGED proxy
         [] stage = "final"   -> stage' = "sync" /\ keep' = Unlimited /\ proxy' = "forward"
    /\ UNCHANGED <<source, dest, sender, states, rp, version, known, from, batch, fwd, faults, env>>

SwitchToPartial ==
    /\ stage = "partial" /\ Settled
    /\ committed' = "Partial"
    /\ stage' = "confirm"
    /\ UNCHANGED <<source, dest, sender, own, seen, rp, version, known, proxy, from, keep, batch,
                   last, fwd, faults, env>>

ConfirmPartial ==
    /\ stage = "confirm" /\ own = "Partial"
    /\ stage' = "reflush"
    /\ UNCHANGED <<source, dest, sender, states, rp, version, known, proxy, from, keep, batch, last,
                   fwd, faults, env>>

\* Mutant: without waiting for the other peers.
FinishUnsynced ==
    /\ stage = "sync" /\ own = committed
    /\ \A k \in Clock : "Source" \notin sent[k].todo
    /\ committed' = "Active"
    /\ stage' = "finish"
    /\ UNCHANGED <<source, dest, sender, own, seen, rp, version, known, proxy, from, keep, batch,
                   last, fwd, faults, env>>

\* All peers have applied the Partial state.  Unless something is late, no
\* failure of Dest is left to be handled, and an update that was not sent to
\* Dest has arrived at Source.
FinishTransfer ==
    /\ stage = "sync" /\ Settled
    /\ env.late \/ /\ proposed = {}
                   /\ \A k \in Clock : /\ sent[k].dest = "ok"
                                       /\ "Source" \in sent[k].todo => sent[k].both
    /\ committed' = "Active"
    /\ stage' = "finish"
    /\ UNCHANGED <<source, dest, sender, own, seen, rp, version, known, proxy, from, keep, batch,
                   last, fwd, faults, env>>

Unproxify ==
    /\ stage = "finish"
    /\ stage' = "idle" /\ Unproxified
    /\ UNCHANGED <<source, dest, sender, states, faults, env>>

\* The transfer failed, or fails here.
AbortTransfer ==
    /\ stage \notin {"idle", "finish"} /\ Settled
    /\ IF stage = "aborting" THEN UNCHANGED faults ELSE faults < env.faults /\ faults' = faults + 1
    /\ committed' = "Dead"
    /\ stage' = "idle" /\ Unproxified
    /\ UNCHANGED <<source, dest, sender, own, seen, env>>

Next ==
    \/ \E k \in Clock : \/ LearnTick(k) \/ Send(k) \/ Complete(k) \/ ReceiveAtSource(k)
                        \/ AppendAtSource(k) \/ ReceiveAtDest(k) \/ LoseCall(k) \/ LoseAnswer(k)
    \/ \E w \in Clock \cup {Forward} : AppendAtDest(w)
    \/ RestartSender \/ ForwardToDest \/ FlushSegments \/ StoreClocks \/ AckWal \/ CrashSource
    \/ StoreClocksAtDest \/ CrashDest \/ ApplyAtDest \/ ApplyAtSender \/ DeactivateDest
    \/ StartTransfer \/ AskRecoveryPoint \/ ReadVersion \/ ReadNewest \/ ResolveDelta
    \/ QueueProxify \/ ReadBatch \/ SendRecord \/ AllSent \/ SwitchToPartial \/ ConfirmPartial
    \/ FinishTransfer \/ Unproxify \/ AbortTransfer

Spec == Init /\ [][Next]_vars

-----------------------------------------------------------------------------
\* The replica states and stages are those of the code; a writer of a clock
\* holds a tag of that clock; the log's bounds are in order.
TypeOK ==
    /\ {committed, own, seen} \subseteq {"Active", "Partial", "Recovery", "Dead"}
    /\ stage \in {"idle", "ask", "version", "newest", "scan", "proxify", "flush", "partial", "confirm",
                  "reflush", "final", "sync", "finish", "aborting"}
    /\ proxy \in {"none", "queue", "forward"}
    /\ 1 <= first /\ first <= ack /\ ack <= Len(log)
    /\ \A k \in Clock : /\ s_writing[k].clock \in {k, NoTag.clock}
                        /\ d_writing[k].clock \in {k, NoTag.clock}
                        /\ oldest[k].tick <= s_newest[k].tick
    /\ proposed \subseteq {"Active", "any"}
    /\ tags <= env.tags /\ faults <= env.faults

\* An operation that was acknowledged to its client is held by a replica that
\* is active: whatever was lost, crashed, aborted or repeated, a recovery brings
\* back all of it before the replica is used again (transfer_wal_delta).
ActiveHasAcked ==
    own = "Active" /\ Settled /\ proposed = {} => acked \subseteq held

\* resolve_wal_delta, of a log that is written and truncated all the while: what
\* Source has above the recovery point is in its log from the version at which
\* the queue proxy will start.
DeltaComplete ==
    stage = "proxify" =>
       \A t \in SourceHeld : t.tick > rp[t.clock] => t \in TagsIn(SubSeq(log, version, Len(log)))

\* The recovery point stands for what Dest has: no acknowledged operation at or
\* below it is missing there, whatever happens while the transfer runs
\* (ClockMap::to_recovery_point, set_replica_state).
RecoveryPointHeld ==
    stage \notin {"idle", "ask", "finish", "aborting"} =>
       \A t \in acked : t.tick <= rp[t.clock] => t \in held

\* When the delta is resolved its premises hold: the log has the ticks of each
\* clock in order, and the clocks that were read cover it.
DeltaPremises == stage = "scan" => InOrder(log) /\ Seen(log, known)
=============================================================================
