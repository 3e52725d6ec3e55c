----------------------------- MODULE LocalShard -----------------------------
(***************************************************************************)
(* The update path of a local shard: operations are appended to the write  *)
(* ahead log (WAL) and queued, an update worker applies them to the        *)
(* segments, a flush worker persists the segments in the background and    *)
(* acknowledges the WAL, the optimizer worker re-applies operations that   *)
(* failed, and after a crash the shard replays the log.                    *)
(*                                                                         *)
(* Data.  An operation is identified by its WAL index.  The content of a   *)
(* point is the index of the operation that wrote it (the point version of *)
(* the code) or 0 when the point is absent.  Every point lives in one      *)
(* segment, Home[p]: an appendable segment updates its points in place.    *)
(*                                                                         *)
(* Record 0 of the log is the fake operation every shard starts with, so   *)
(* wal[i] is the record with WAL index i.  The log survives a crash of the *)
(* process (it is a memory mapped file); everything else that is volatile  *)
(* is listed in `volatile'.                                                *)
(***************************************************************************)
EXTENDS Integers, Sequences, FiniteSets

CONSTANTS
    Point,              \* point ids
    Segment,            \* segments of the segment holder
    Home,               \* Home[p]: the segment point p lives in
    Ops,                \* operations clients may send
    KeepFrom,           \* values a queue proxy may write to wal_keep_from
    QueueSize,          \* update_queue_size: capacity of the update channel
    Interval,           \* APPLIED_SEQ_SAVE_INTERVAL
    AppliedSeqActive,   \* the applied_seq file could be loaded or created
    ChunkedOps,         \* an operation may need several write locks of one segment
    LateFailures,       \* an upsert may fail between its vectors and its payload
    TryRecover,         \* the optimizer worker re-applies failed operations
    Truncation,         \* the truncate_unapplied_wal call is used
    MaxOps,             \* bound: length of the log
    MaxCrashes,         \* bound: number of crashes
    MaxFails            \* bound: number of injected failures

ASSUME ConstantsAssumption ==
    /\ Home \in [Point -> Segment]
    /\ Segment # {}
    /\ \A op \in Ops : /\ op.kind \in {"upsert", "delete", "noop", "declined"}
                       /\ op.points \in SUBSET Point
                       /\ op.kind \in {"noop", "declined"} => op.points = {}
    /\ KeepFrom \subseteq Nat
    /\ QueueSize \in Nat \ {0}
    /\ Interval \in Nat \ {0}
    /\ AppliedSeqActive \in BOOLEAN
    /\ ChunkedOps \in BOOLEAN
    /\ LateFailures \in BOOLEAN
    /\ TryRecover \in BOOLEAN
    /\ Truncation \in BOOLEAN
    /\ MaxOps \in Nat
    /\ MaxCrashes \in Nat
    /\ MaxFails \in Nat

VARIABLES
    \* on disk
    wal,            \* the log
    first_index,    \* ack_index of the first-index file
    applied_file,   \* op_num of the applied_seq file
    disk_ver,       \* disk_ver[s]: version in the state file of segment s
    disk_pts,       \* disk_pts[p]: content of point p in its segment's files
    \* segments in memory
    mem_ver,        \* mem_ver[s]: Segment::version
    mem_pts,        \* mem_pts[p]: content of point p
    overwrite,      \* max_persisted_segment_version_overwrite
    failed,         \* failed_operation
    error_status,   \* error_status[s]: {} or {<<op_num, point_id>>}
    \* update worker, optimizer worker
    mode,           \* "up", "down", "replay", "flush" or "send"
    queue,          \* update channel: op_nums
    uop,            \* op_num in the hands of the update worker, 0 if none
    rop,            \* op_num try_recover is at, 0 if it is not running
    lock,           \* holder of update_operation_lock: "none", "upd", "rec"
    todo,           \* points the lock's holder has still to apply
    ures, rres,     \* result of uop, of rop, not handled yet: "none", "ok", "err"
    applied,        \* applied_seq: op_num in memory
    update_count,   \* applied_seq: update_count
    \* background flush thread
    thread,         \* "none", "running" or "failed"
    jobs,           \* segments whose captured flusher has not finished
    wrote,          \* those of them whose components are on disk
    job_ver,        \* version captured by the flusher of a segment
    job_pts,        \* points captured by the flusher of a segment
    \* flush worker
    fpc,            \* "idle", "read" or "ack"
    unread,         \* segments flush_all still holds a read lock on
    min_unsaved,    \* get_max_persisted_version's accumulators
    max_persisted,
    ack,            \* version about to be acknowledged
    keep_from,      \* wal_keep_from
    \* load_from_wal
    next, to,       \* next record to replay (then to send), end of the replay
    \* bounds
    crashes, fails

disk     == <<wal, first_index, applied_file, disk_ver, disk_pts>>
segments == <<mem_ver, mem_pts, overwrite, failed, error_status>>
workers  == <<queue, uop, rop, lock, todo, ures, rres, applied, update_count>>
flushing == <<thread, jobs, wrote, job_ver, job_pts>>
flusher  == <<fpc, unread, min_unsaved, max_persisted, ack>>
loading  == <<next, to>>
volatile == <<segments, workers, flushing, flusher, keep_from, loading>>
vars     == <<disk, volatile, mode, crashes, fails>>

-----------------------------------------------------------------------------

Min(a, b) == IF a < b THEN a ELSE b

Max(a, b) == IF a < b THEN b ELSE a

IsLeast(x, S) == x \in S /\ \A y \in S : x <= y

Unbounded == MaxOps + 2    \* u64::MAX: no record has this index

LastIndex == Len(wal)

PointsOf(s) == {p \in Point : Home[p] = s}

\* What operation i leaves of a point it touches.
Effect(i) == IF wal[i].kind = "upsert" THEN i ELSE 0

\* Operation i reaches point p in its segment: an upsert passes over a point that
\* already has its version, a deletion over a point that is not there.
Attempts(pts, i, p) ==
    IF wal[i].kind = "upsert" THEN pts[p] < i ELSE pts[p] # 0

\* Operation i changes point p, unless the point has a newer version.
Changes(pts, i, p) == Attempts(pts, i, p) /\ pts[p] <= i

\* The points of P that operation i changes.
Changed(pts, i, P) == {p \in P : Changes(pts, i, p)}

AppliedPts(pts, i, P) ==
    [p \in Point |-> IF p \in Changed(pts, i, P) THEN Effect(i) ELSE pts[p]]

\* bump_segment_version of every segment that was changed.
AppliedVer(ver, pts, i, P) ==
    [s \in Segment |-> IF Changed(pts, i, P) \cap PointsOf(s) # {}
                       THEN Max(ver[s], i) ELSE ver[s]]

\* The sets of points one write lock of a segment may cover.  upsert_points
\* and delete_points go in chunks and lock the segment again for each, and
\* upserts lock it once for the points it has and once more for new ones.
LockHolds(P) ==
    IF ChunkedOps THEN {{p} : p \in P}
    ELSE {P \cap PointsOf(s) : s \in Segment} \ {{}}

-----------------------------------------------------------------------------

Init ==
    /\ wal = <<>> /\ first_index = 0 /\ applied_file = 0
    /\ disk_ver = [s \in Segment |-> 0] /\ disk_pts = [p \in Point |-> 0]
    /\ mem_ver = disk_ver /\ mem_pts = disk_pts
    /\ overwrite = 0 /\ failed = {} /\ error_status = [s \in Segment |-> {}]
    /\ mode = "up" /\ queue = <<>> /\ uop = 0 /\ rop = 0
    /\ lock = "none" /\ todo = {} /\ ures = "none" /\ rres = "none"
    /\ applied = 0 /\ update_count = 0
    /\ thread = "none" /\ jobs = {} /\ wrote = {}
    /\ job_ver = disk_ver /\ job_pts = disk_pts
    /\ fpc = "idle" /\ unread = {} /\ min_unsaved = Unbounded
    /\ max_persisted = 0 /\ ack = 0 /\ keep_from = Unbounded
    /\ next = 0 /\ to = 0 /\ crashes = 0 /\ fails = 0

\* LocalShard::update: reserve a slot of the channel, append to the WAL and
\* send the operation while the WAL is still locked.
Update(op) ==
    /\ mode = "up"
    /\ Len(wal) < MaxOps
    /\ Len(queue) < QueueSize
    /\ rop = 0                          \* try_recover holds the WAL lock
    /\ wal' = Append(wal, op)
    /\ queue' = Append(queue, Len(wal) + 1)
    /\ UNCHANGED <<first_index, applied_file, disk_ver, disk_pts, segments,
                   uop, rop, lock, todo, ures, rres, applied, update_count,
                   flushing, flusher, keep_from, loading, mode, crashes, fails>>

\* update_worker_fn receives a signal.
TakeSignal ==
    /\ mode \in {"up", "send"}
    /\ uop = 0 /\ queue # <<>>
    /\ uop' = Head(queue)
    /\ queue' = Tail(queue)
    /\ UNCHANGED <<disk, segments, rop, lock, todo, ures, rres, applied,
                   update_count, flushing, flusher, keep_from, loading, mode,
                   crashes, fails>>

\* The operation is read from the WAL (load_from_wal holds its lock until it
\* has sent every pending operation).  A record that does not exist is
\* reported and skipped.
SkipMissing ==
    /\ mode = "up" /\ rop = 0
    /\ uop > LastIndex
    /\ uop' = 0
    /\ UNCHANGED <<disk, segments, queue, rop, lock, todo, ures, rres, applied,
                   update_count, flushing, flusher, keep_from, loading, mode,
                   crashes, fails>>

\* CollectionUpdater::update takes the update locks.
BeginUpdate ==
    /\ mode = "up" /\ lock = "none" /\ ures = "none"
    /\ uop \in 1..LastIndex
    /\ wal[uop].kind # "declined"
    /\ lock' = "upd"
    /\ todo' = wal[uop].points
    /\ UNCHANGED <<disk, segments, queue, uop, rop, ures, rres, applied,
                   update_count, flushing, flusher, keep_from, loading, mode,
                   crashes, fails>>

\* An operation refused with an error that is not transient (bad input, point
\* not found) is neither recorded as failed nor counted as applied.
DeclineUpdate ==
    /\ mode = "up" /\ lock = "none" /\ ures = "none"
    /\ uop \in 1..LastIndex
    /\ wal[uop].kind = "declined"
    /\ uop' = 0
    /\ UNCHANGED <<disk, segments, queue, rop, lock, todo, ures, rres, applied,
                   update_count, flushing, flusher, keep_from, loading, mode,
                   crashes, fails>>

\* The operation being applied by the holder of the update lock.
Current == IF lock = "upd" THEN uop ELSE rop

\* handle_point_version_and_failure: a segment that failed refuses every newer
\* operation until the failed one has been repeated.
Refuses(s, i) == \E e \in error_status[s] : e[1] < i

\* The point id an error is recorded with: none for a point that is not there.
FailedId(p) == IF mem_pts[p] = 0 THEN {} ELSE {p}

\* Mutant: a new point, which has no id when it fails, has one when it succeeds.
RepairedIdAfter(i, p) == IF wal[i].kind = "delete" THEN {} ELSE {p}

\* The point id that is compared with the error's when operation i succeeds on p:
\* it is looked up after the operation, so a point that was deleted has none.
RepairedId(i, p) ==
    IF wal[i].kind = "delete" /\ Changes(mem_pts, i, p) THEN {} ELSE FailedId(p)

\* What is left of the error when operation i succeeded on the points P.
Repaired(s, i, P) ==
    {e \in error_status[s] :
        \A p \in P : Attempts(mem_pts, i, p) => RepairedId(i, p) # e[2]}

\* The segment write lock can be taken: flush_all does not hold its read lock.
Writable(s) == ~(fpc = "read" /\ s \in unread)

\* One hold of the write lock of segment s applies the points P.
ApplyPoints(s, P) ==
    /\ mode = "up" /\ lock # "none"
    /\ P \in LockHolds(todo) /\ P \subseteq PointsOf(s)
    /\ Writable(s)
    /\ ~(Refuses(s, Current) /\ \E p \in P : Attempts(mem_pts, Current, p))
    /\ mem_pts' = AppliedPts(mem_pts, Current, P)
    /\ mem_ver' = AppliedVer(mem_ver, mem_pts, Current, P)
    /\ error_status' = [error_status EXCEPT ![s] = Repaired(s, Current, P)]
    /\ todo' = todo \ P
    /\ UNCHANGED <<disk, overwrite, failed, queue, uop, rop, lock, ures, rres,
                   applied, update_count, flushing, flusher, keep_from, loading,
                   mode, crashes, fails>>

\* The update lock is released; the result is still to be handled.
Release(res) ==
    /\ lock' = "none" /\ todo' = {}
    /\ ures' = IF lock = "upd" THEN res ELSE ures
    /\ rres' = IF lock = "rec" THEN res ELSE rres

\* The segment of point p refuses the operation, which ends with an error.
RefusePoint(p) ==
    /\ mode = "up" /\ lock # "none"
    /\ p \in todo /\ Attempts(mem_pts, Current, p)
    /\ Writable(Home[p])
    /\ Refuses(Home[p], Current)
    /\ Release("err")
    /\ UNCHANGED <<disk, segments, queue, uop, rop, applied, update_count,
                   flushing, flusher, keep_from, loading, mode, crashes, fails>>

\* The operation fails at point p with a service error, when the points P of this
\* hold of the segment's lock have their new version: p is one of them if the
\* vectors of an upsert were written and its payload was not.
FailPoint(p, P) ==
    /\ mode = "up" /\ lock # "none"
    /\ p \in todo /\ Attempts(mem_pts, Current, p)
    /\ P \subseteq todo \cap PointsOf(Home[p])
    /\ ChunkedOps => P \subseteq {p}
    /\ p \in P => LateFailures /\ wal[Current].kind = "upsert"
    /\ Writable(Home[p])
    /\ ~Refuses(Home[p], Current)
    /\ fails < MaxFails
    /\ fails' = fails + 1
    /\ error_status' = [error_status EXCEPT ![Home[p]] =
                           {<<Current, IF p \in P THEN {p} ELSE FailedId(p)>>}]
    /\ mem_pts' = AppliedPts(mem_pts, Current, P)
    /\ mem_ver' = AppliedVer(mem_ver, mem_pts, Current, P)
    /\ Release("err")
    /\ UNCHANGED <<disk, overwrite, failed, queue, uop, rop, applied,
                   update_count, flushing, flusher, keep_from, loading, mode,
                   crashes>>

\* AppliedSeqHandler::update: the file is saved every Interval updates.
AppliedSeqUpdate(i) ==
    /\ applied' = i
    /\ update_count' = update_count + 1
    /\ applied_file' = IF update_count > 0 /\ update_count % Interval = 0
                       THEN i ELSE applied_file

\* An operation that found no point to change bumps the overwrite version.
BumpOverwrite(i) ==
    overwrite' = IF wal[i].kind = "noop" THEN Max(overwrite, i) ELSE overwrite

\* The operation has no point left.
EndOperation ==
    /\ mode = "up" /\ lock # "none" /\ todo = {}
    /\ BumpOverwrite(Current)
    /\ Release("ok")
    /\ UNCHANGED <<disk, mem_ver, mem_pts, failed, error_status, queue, uop, rop,
                   applied, update_count, flushing, flusher, keep_from, loading,
                   mode, crashes, fails>>

\* Mutant: a failed operation is only logged.
HandleUpdateResultLogged(i, res) == failed' = failed \ {i}

\* handle_update_result: an operation that failed joins failed_operation and one
\* that succeeded leaves it, under the write lock of the segment holder, which
\* flush_segments holds a read lock of.
HandleUpdateResult(i, res) ==
    /\ IF res = "err" THEN failed' = failed \cup {i} ELSE failed' = failed \ {i}
    /\ res = "err" \/ failed # {} => fpc # "read"

\* The update worker handles the result of its operation.
FinishUpdate ==
    /\ mode = "up" /\ ures # "none"
    /\ HandleUpdateResult(uop, ures)
    /\ IF ures = "ok" THEN AppliedSeqUpdate(uop)
                      ELSE UNCHANGED <<applied, update_count, applied_file>>
    /\ uop' = 0 /\ ures' = "none"
    /\ UNCHANGED <<wal, first_index, disk_ver, disk_pts, mem_ver, mem_pts,
                   overwrite, error_status, queue, rop, lock, todo, rres,
                   flushing, flusher, keep_from, loading, mode, crashes, fails>>

-----------------------------------------------------------------------------
(* The optimizer worker: try_recover re-applies the log from the first       *)
(* failed operation, holding the WAL lock.                                   *)

StartRecover ==
    /\ TryRecover
    /\ mode = "up" /\ rop = 0 /\ failed # {}
    /\ \E first_failed_op \in failed :
          IsLeast(first_failed_op, failed) /\ rop' = first_failed_op
    /\ UNCHANGED <<disk, segments, queue, uop, lock, todo, ures, rres, applied,
                   update_count, flushing, flusher, keep_from, loading, mode,
                   crashes, fails>>

\* A record that was dropped ends the recovery, and so does one that is declined.
BeginRecover ==
    /\ mode = "up" /\ rop # 0 /\ lock = "none" /\ rres = "none"
    /\ IF rop > LastIndex \/ wal[rop].kind = "declined"
       THEN rop' = 0 /\ UNCHANGED <<lock, todo>>
       ELSE lock' = "rec" /\ todo' = wal[rop].points /\ UNCHANGED rop
    /\ UNCHANGED <<disk, segments, queue, uop, ures, rres, applied, update_count,
                   flushing, flusher, keep_from, loading, mode, crashes, fails>>

\* Mutant: recovery stops after the first failed operation.
FinishRecoverFirst ==
    /\ mode = "up" /\ rres # "none"
    /\ failed' = {}
    /\ rop' = 0 /\ rres' = "none"
    /\ UNCHANGED <<disk, mem_ver, mem_pts, overwrite, error_status, queue, uop,
                   lock, todo, ures, applied, update_count, flushing, flusher,
                   keep_from, loading, mode, crashes, fails>>

\* An error ends the recovery; otherwise it goes on with the next record.
FinishRecover ==
    /\ mode = "up" /\ rres # "none"
    /\ HandleUpdateResult(rop, rres)
    /\ rop' = IF rres = "ok" /\ rop < LastIndex THEN rop + 1 ELSE 0
    /\ rres' = "none"
    /\ UNCHANGED <<disk, mem_ver, mem_pts, overwrite, error_status, queue, uop,
                   lock, todo, ures, applied, update_count, flushing, flusher,
                   keep_from, loading, mode, crashes, fails>>

-----------------------------------------------------------------------------
(* The flush worker and the background flush thread.                         *)

\* Segment::flusher returns a flusher: the segment is not empty, and it has a
\* version that is not persisted (or the flush is forced).
NeedsFlush(s, force) == mem_ver[s] # 0 /\ (force \/ mem_ver[s] # disk_ver[s])

\* Capture the flushers of all segments.
Capture(force) ==
    /\ jobs' = {s \in Segment : NeedsFlush(s, force)}
    /\ wrote' = {}
    /\ job_ver' = mem_ver
    /\ job_pts' = mem_pts

\* Mutant: a flush thread that has finished is taken for a running one.
FlushAllOnce ==
    /\ mode = "up" /\ fpc = "idle" /\ thread # "failed"
    /\ IF thread = "running" THEN UNCHANGED flushing
       ELSE thread' = "running" /\ Capture(FALSE)
    /\ fpc' = "read" /\ unread' = Segment
    /\ min_unsaved' = Unbounded /\ max_persisted' = overwrite
    /\ UNCHANGED <<ack, disk, segments, workers, keep_from, loading, mode,
                   crashes, fails>>

\* Mutant: the highest version starts from the last record of the log.
FlushAllFromLog ==
    /\ mode = "up" /\ fpc = "idle" /\ thread # "failed"
    /\ IF thread = "running" /\ jobs # {} THEN UNCHANGED flushing
       ELSE thread' = "running" /\ Capture(FALSE)
    /\ fpc' = "read" /\ unread' = Segment
    /\ min_unsaved' = Unbounded /\ max_persisted' = LastIndex
    /\ UNCHANGED <<ack, disk, segments, workers, keep_from, loading, mode,
                   crashes, fails>>

\* flush_all(false, false): read-lock all segments; the error of the previous
\* background flush ends this round; otherwise start a background flush unless
\* one is running, and go on to compute the confirmed version.
FlushAll ==
    /\ mode = "up" /\ fpc = "idle"
    /\ \/ /\ thread = "failed"
          /\ thread' = "none"
          /\ UNCHANGED <<jobs, wrote, job_ver, job_pts, flusher>>
       \/ /\ thread # "failed"
          /\ IF thread = "running" /\ jobs # {}
             THEN UNCHANGED flushing
             ELSE thread' = "running" /\ Capture(FALSE)
          /\ fpc' = "read"
          /\ unread' = Segment
          /\ min_unsaved' = Unbounded
          /\ max_persisted' = overwrite
          /\ UNCHANGED ack
    /\ UNCHANGED <<disk, segments, workers, keep_from, loading, mode, crashes,
                   fails>>

\* get_max_persisted_version reads the versions of one segment and unlocks it.
ReadSegment(s) ==
    /\ mode = "up" /\ fpc = "read"
    /\ s \in unread
    /\ min_unsaved' = IF mem_ver[s] > disk_ver[s]
                      THEN Min(min_unsaved, disk_ver[s]) ELSE min_unsaved
    /\ max_persisted' = Max(max_persisted, disk_ver[s])
    /\ unread' = unread \ {s}
    /\ UNCHANGED <<disk, segments, workers, flushing, fpc, ack, keep_from,
                   loading, mode, crashes, fails>>

\* Mutant: versions that are not saved yet are forgotten.
HighestVersion == max_persisted

\* The version flush_segments returns: the lowest unsaved one, or the highest of
\* all when everything is saved, but no later than a failed operation.
FlushedVersion == IF min_unsaved # Unbounded THEN min_unsaved ELSE max_persisted

ConfirmedVersion(v) == IsLeast(v, failed \cup {FlushedVersion})

\* Mutant: no check for keep_from = 0 before the subtraction.
ConfirmUnchecked ==
    /\ mode = "up" /\ fpc = "read" /\ unread = {}
    /\ fpc' = "ack"
    /\ \E v \in failed \cup {FlushedVersion} :
          ConfirmedVersion(v) /\ ack' = Min(v, keep_from - 1)
    /\ UNCHANGED <<disk, segments, workers, flushing, unread, min_unsaved,
                   max_persisted, keep_from, loading, mode, crashes, fails>>

\* The flush worker reads wal_keep_from and decides what to acknowledge.
Confirm ==
    /\ mode = "up" /\ fpc = "read" /\ unread = {}
    /\ IF keep_from = 0
       THEN fpc' = "idle" /\ UNCHANGED ack
       ELSE /\ fpc' = "ack"
            /\ \E v \in failed \cup {FlushedVersion} :
                  ConfirmedVersion(v) /\ ack' = Min(v, keep_from - 1)
    /\ UNCHANGED <<disk, segments, workers, flushing, unread, min_unsaved,
                   max_persisted, keep_from, loading, mode, crashes, fails>>

\* SerdeWal::ack: the first index never decreases and is saved.
Acknowledge(until) == first_index' = Min(Max(until, first_index), LastIndex)

Ack ==
    /\ mode = "up" /\ fpc = "ack"
    /\ rop = 0
    /\ Acknowledge(ack)
    /\ fpc' = "idle"
    /\ UNCHANGED <<wal, applied_file, disk_ver, disk_pts, segments, workers,
                   flushing, unread, min_unsaved, max_persisted, ack,
                   keep_from, loading, mode, crashes, fails>>

\* A flusher writes the components of the segment (id mapping, vectors,
\* payload, point versions) ...
FlushComponents(s) ==
    /\ mode \in {"up", "flush"}
    /\ s \in jobs \ wrote
    /\ disk_pts' = [p \in Point |-> IF Home[p] = s THEN job_pts[p] ELSE disk_pts[p]]
    /\ wrote' = wrote \cup {s}
    /\ UNCHANGED <<wal, first_index, applied_file, disk_ver, segments, workers,
                   thread, jobs, job_ver, job_pts, flusher, keep_from, loading,
                   mode, crashes, fails>>

\* Mutant: the state file does not wait for the components.
FlushStateOnly(s) ==
    /\ mode \in {"up", "flush"}
    /\ s \in jobs
    /\ disk_ver' = [disk_ver EXCEPT ![s] = Max(@, job_ver[s])]
    /\ jobs' = jobs \ {s}
    /\ wrote' = wrote \ {s}
    /\ UNCHANGED <<wal, first_index, applied_file, disk_pts, segments, workers,
                   thread, job_ver, job_pts, flusher, keep_from, loading, mode,
                   crashes, fails>>

\* ... and only then the state file with the version.
FlushState(s) ==
    /\ mode \in {"up", "flush"}
    /\ s \in jobs \cap wrote
    /\ disk_ver' = [disk_ver EXCEPT ![s] = Max(@, job_ver[s])]
    /\ jobs' = jobs \ {s}
    /\ wrote' = wrote \ {s}
    /\ UNCHANGED <<wal, first_index, applied_file, disk_pts, segments, workers,
                   thread, job_ver, job_pts, flusher, keep_from, loading, mode,
                   crashes, fails>>

\* A flusher returns an error: the flushers after it do not run.
FlushError ==
    /\ mode = "up" /\ thread = "running" /\ jobs # {}
    /\ fails < MaxFails
    /\ fails' = fails + 1
    /\ thread' = "failed"
    /\ jobs' = {} /\ wrote' = {}
    /\ UNCHANGED <<disk, segments, workers, job_ver, job_pts, flusher,
                   keep_from, loading, mode, crashes>>

\* A queue proxy asks to keep the records from index n on, which is at most one
\* above the last one, or (u64::MAX) releases them.
SetWalKeepFrom(n) ==
    /\ mode = "up"
    /\ n # keep_from
    /\ n <= LastIndex + 1 \/ n = Unbounded
    /\ keep_from' = n
    /\ UNCHANGED <<disk, segments, workers, flushing, flusher, loading, mode,
                   crashes, fails>>

\* Mutant: the operation before the first pending one is dropped too.
TruncateUnappliedWalMore ==
    /\ Truncation
    /\ mode = "up"
    /\ uop = 0 /\ rop = 0 /\ lock = "none" /\ fpc = "idle"
    /\ queue # <<>>
    /\ wal' = SubSeq(wal, 1, Min(Head(queue) - 2, LastIndex))
    /\ queue' = <<>>
    /\ UNCHANGED <<first_index, applied_file, disk_ver, disk_pts, segments, uop,
                   rop, lock, todo, ures, rres, applied, update_count, flushing,
                   flusher, keep_from, loading, mode, crashes, fails>>

\* truncate_unapplied_wal: stop the workers, drop the pending operations and
\* their records, restart the workers with an empty channel.
TruncateUnappliedWal ==
    /\ Truncation
    /\ mode = "up"
    /\ uop = 0 /\ rop = 0 /\ lock = "none" /\ fpc = "idle"
    /\ queue # <<>>
    /\ wal' = SubSeq(wal, 1, Min(Head(queue) - 1, LastIndex))
    /\ queue' = <<>>
    /\ UNCHANGED <<first_index, applied_file, disk_ver, disk_pts, segments, uop,
                   rop, lock, todo, ures, rres, applied, update_count, flushing,
                   flusher, keep_from, loading, mode, crashes, fails>>

-----------------------------------------------------------------------------
(* Crash and recovery.                                                       *)

Crash ==
    /\ mode # "down"
    /\ crashes < MaxCrashes
    /\ crashes' = crashes + 1
    /\ mode' = "down"
    /\ mem_ver' = disk_ver /\ mem_pts' = disk_pts
    /\ overwrite' = 0 /\ failed' = {} /\ error_status' = [s \in Segment |-> {}]
    /\ queue' = <<>> /\ uop' = 0 /\ rop' = 0 /\ lock' = "none" /\ todo' = {}
    /\ ures' = "none" /\ rres' = "none"
    /\ applied' = applied_file /\ update_count' = 0
    /\ thread' = "none" /\ jobs' = {} /\ wrote' = {}
    /\ job_ver' = disk_ver /\ job_pts' = disk_pts
    /\ fpc' = "idle" /\ unread' = {} /\ min_unsaved' = Unbounded
    /\ max_persisted' = 0 /\ ack' = 0 /\ keep_from' = Unbounded
    /\ next' = 0 /\ to' = 0
    /\ UNCHANGED <<disk, fails>>

\* The index after the last record, which the code calls last_wal_index.
LastWalIndex == LastIndex + 1

\* The end of the replay: the applied_seq upper bound, but no more records
\* stay behind than the update queue can hold.
ReplayTo ==
    LET bound == IF AppliedSeqActive THEN applied + Interval + 1 ELSE LastWalIndex
    IN  Min(Max(bound, LastWalIndex - (QueueSize - 1)), LastWalIndex)

LoadFromWal ==
    /\ mode = "down"
    /\ mode' = "replay"
    /\ next' = first_index
    /\ to' = ReplayTo
    /\ UNCHANGED <<disk, segments, workers, flushing, flusher, keep_from,
                   crashes, fails>>

\* The points record i of the log is about; the fake record 0 has none.
PointsOfRecord(i) == IF i = 0 THEN {} ELSE wal[i].points

\* Replay one record.  Nothing else runs: the flush worker waits for the WAL.
Replay ==
    /\ mode = "replay" /\ next < to
    /\ mem_pts' = AppliedPts(mem_pts, next, PointsOfRecord(next))
    /\ mem_ver' = AppliedVer(mem_ver, mem_pts, next, PointsOfRecord(next))
    /\ IF next = 0 THEN UNCHANGED overwrite ELSE BumpOverwrite(next)
    /\ next' = next + 1
    /\ UNCHANGED <<disk, failed, error_status, workers, flushing, flusher,
                   keep_from, to, mode, crashes, fails>>

\* flush_all(true, true) after the replay.
ForceFlush ==
    /\ mode = "replay" /\ next >= to
    /\ mode' = "flush"
    /\ Capture(TRUE)
    /\ next' = to
    /\ UNCHANGED <<disk, segments, workers, thread, flusher, keep_from, to,
                   crashes, fails>>

ForceFlushed ==
    /\ mode = "flush" /\ jobs = {}
    /\ mode' = IF to < LastWalIndex THEN "send" ELSE "up"
    /\ UNCHANGED <<disk, segments, workers, flushing, flusher, keep_from,
                   loading, crashes, fails>>

\* The last op_num that is sent to the update queue.
LastSent == LastWalIndex

\* Send one pending operation to the update queue, waiting for a free slot.
SendPending ==
    /\ mode = "send"
    /\ Len(queue) < QueueSize
    /\ queue' = Append(queue, next)
    /\ IF next = LastSent
       THEN mode' = "up" /\ next' = 0 /\ to' = 0
       ELSE mode' = mode /\ next' = next + 1 /\ to' = to
    /\ UNCHANGED <<disk, segments, uop, rop, lock, todo, ures, rres, applied,
                   update_count, flushing, flusher, keep_from, crashes, fails>>

-----------------------------------------------------------------------------

UpdateWorker == TakeSignal \/ SkipMissing \/ BeginUpdate \/ DeclineUpdate \/ FinishUpdate

OptimizerWorker == StartRecover \/ BeginRecover \/ FinishRecover

Apply ==
    \/ \E s \in Segment, P \in SUBSET Point : ApplyPoints(s, P)
    \/ \E p \in Point : RefusePoint(p)
    \/ EndOperation

Fail == \E p \in Point, P \in SUBSET Point : FailPoint(p, P)

FlushWorker == FlushAll \/ (\E s \in Segment : ReadSegment(s)) \/ Confirm \/ Ack

FlushThread == \E s \in Segment : FlushComponents(s) \/ FlushState(s)

Load == LoadFromWal \/ Replay \/ ForceFlush \/ ForceFlushed \/ SendPending

Next ==
    \/ \E op \in Ops : Update(op)
    \/ UpdateWorker
    \/ OptimizerWorker
    \/ Apply
    \/ Fail
    \/ FlushWorker
    \/ FlushThread
    \/ FlushError
    \/ \E n \in KeepFrom \cup {Unbounded} : SetWalKeepFrom(n)
    \/ TruncateUnappliedWal
    \/ Crash
    \/ Load

Spec == Init /\ [][Next]_vars

\* The runtime keeps polling the workers, the flush thread runs to its end, and
\* a stopped process is started again and completes its recovery.  The flush
\* worker sleeps between two rounds, so a writer that keeps trying gets the lock
\* of a segment, or of the segment holder, in the end.
Fairness ==
    /\ SF_vars(UpdateWorker) /\ SF_vars(OptimizerWorker) /\ SF_vars(Apply)
    /\ WF_vars(FlushWorker) /\ WF_vars(FlushThread) /\ WF_vars(Load)

FairSpec == Spec /\ Fairness

-----------------------------------------------------------------------------
(* Properties.                                                               *)

\* All variables stay in their types.
TypeOK ==
    /\ wal \in Seq(Ops) /\ Len(wal) <= MaxOps
    /\ first_index \in Nat /\ applied_file \in Nat
    /\ disk_ver \in [Segment -> Nat] /\ disk_pts \in [Point -> Nat]
    /\ mem_ver \in [Segment -> Nat] /\ mem_pts \in [Point -> Nat]
    /\ overwrite \in Nat /\ failed \in SUBSET Nat
    /\ error_status \in [Segment -> SUBSET (Nat \X SUBSET Point)]
    /\ mode \in {"up", "down", "replay", "flush", "send"}
    /\ queue \in Seq(Nat) /\ uop \in Nat /\ rop \in Nat
    /\ lock \in {"none", "upd", "rec"} /\ todo \in SUBSET Point
    /\ ures \in {"none", "ok", "err"} /\ rres \in {"none", "ok", "err"}
    /\ applied \in Nat /\ update_count \in Nat
    /\ thread \in {"none", "running", "failed"}
    /\ jobs \in SUBSET Segment /\ wrote \in SUBSET Segment
    /\ job_ver \in [Segment -> Nat] /\ job_pts \in [Point -> Nat]
    /\ fpc \in {"idle", "read", "ack"} /\ unread \in SUBSET Segment
    /\ min_unsaved \in Nat /\ max_persisted \in Nat /\ ack \in Nat
    /\ keep_from \in Nat /\ next \in Nat /\ to \in Nat
    /\ crashes \in Nat /\ fails \in Nat

\* Operation i of the log is about point p.
Touches(i, p) == p \in wal[i].points

\* The content of point p when the operations of the log are applied in order.
IsLastTouch(i, p) ==
    /\ i \in 1..LastIndex /\ Touches(i, p)
    /\ \A j \in (i + 1)..LastIndex : ~Touches(j, p)

Untouched(p) == \A j \in 1..LastIndex : ~Touches(j, p)

\* The WAL may be acknowledged only up to what the segments have saved
\* (get_max_persisted_version: "the version of the segments that is safe to
\* acknowledge in WAL").  At every moment, what is on disk and the records from
\* first_index on together give back every operation of the log: a point whose
\* last operation is before first_index is on disk as that operation left it,
\* and no point on disk has a version that would make the replay skip its last
\* operation.
Recoverable ==
    \A p \in Point :
        /\ Untouched(p) => disk_pts[p] = 0
        /\ \A i \in 1..LastIndex :
             IsLastTouch(i, p) =>
                IF i < first_index THEN disk_pts[p] = Effect(i)
                ELSE disk_pts[p] <= i /\ (disk_pts[p] = i => Effect(i) = i)

\* When the shard has nothing left to do and no operation is marked as failed,
\* every point is in memory as the operations of the log, applied one after the
\* other, leave it: retries, replays and skipped versions never show.
QuiescentContents ==
    (mode = "up" /\ queue = <<>> /\ uop = 0 /\ rop = 0 /\ failed = {}) =>
        \A p \in Point :
            /\ Untouched(p) => mem_pts[p] = 0
            /\ \A i \in 1..LastIndex : IsLastTouch(i, p) => mem_pts[p] = Effect(i)

\* An operation that still waits for the update worker has not been
\* acknowledged in the WAL: its record survives a crash.
PendingNotAcknowledged ==
    \A i \in {queue[k] : k \in 1..Len(queue)} \cup ({uop} \ {0}) : first_index <= i

\* error_status: "all update operations will be aborted until original operation
\* is performed properly".  A segment refuses newer operations because of an upsert
\* only as long as the upsert is among the failed operations: once try_recover has
\* re-applied it, the segment works again.  (A deletion does leave the error behind:
\* its point has no id any more when RepairedId looks it up.)
RefusesOnlyWhileFailed ==
    (lock = "none" /\ ures = "none" /\ rres = "none") =>
        \A s \in Segment : \A e \in error_status[s] :
            wal[e[1]].kind = "upsert" => e[1] \in failed

\* load_from_wal asserts that the replay does not end before it starts: "WAL
\* first_index ({from}) is ahead of replay target ({to})".
ReplayTargetNotBehind == mode = "replay" => first_index <= to

\* truncate_unapplied_wal: "Truncate unapplied WAL records."  A record is never
\* dropped once a segment holds what its operation wrote.
TruncatesOnlyUnapplied ==
    [][Len(wal') < Len(wal) => \A p \in Point : mem_pts[p] <= Len(wal')]_vars

\* Every accepted operation reaches the disk: once clients, crashes and failures
\* stop, the update worker drains its queue and the flush worker notices every
\* segment that is not saved.
EventuallyDurable ==
    <>[](\A p \in Point : \A i \in 1..LastIndex :
            IsLastTouch(i, p) => disk_pts[p] = Effect(i))

=============================================================================
