--------------------------- MODULE SegmentHolder ----------------------------
(***************************************************************************)
(* The segment holder of a shard: updates that copy a point out of a       *)
(* segment that cannot be written, the background flush in the order of    *)
(* these copies, optimizations that wrap segments into proxies, rebuild    *)
(* them and swap the result in, snapshots that wrap every segment, reads   *)
(* that visit the segments one by one, and the restart from what is on     *)
(* disk.                                                                   *)
(*                                                                         *)
(* A segment and the id it has in the holder are one number.  Operations   *)
(* and contents are those of PointStore.  A point's version is the last    *)
(* operation of its content.  A LockedSegment is a segment under a stack   *)
(* of proxies, the innermost first: an optimization wraps segments         *)
(* that have none, a snapshot may wrap those of an optimization again.     *)
(*                                                                         *)
(* With prevent_unoptimized, points beyond a number of internal ids of an  *)
(* appendable segment are deferred: they are stored, and not seen before   *)
(* an optimization moves them.                                             *)
(*                                                                         *)
(* env says which part of this a behaviour has: log and disk it starts     *)
(* from; the operations ops, at most max_ops in the log; at most max_id    *)
(* segments and crashes restarts; whether there are flushes (flush),       *)
(* cancelled optimizations (cancel), segments added for room (add),        *)
(* snapshots and retrievals (snapshot, read); the segments that may be     *)
(* optimized (optimize); and the internal ids not deferred (visible).      *)
(***************************************************************************)
EXTENDS Integers, Sequences, FiniteSets, SequencesExt, TLC

CONSTANTS
    Point,          \* point ids
    Ops,            \* update operations: [kind, point]
    MaxId,          \* bound: segments ever created
    Envs            \* environments, one of which a behaviour has

VARIABLES
    env,        \* the environment of this behaviour
    log,        \* WAL: record i is operation i
    ack,        \* version acknowledged in the WAL: replay starts there
    holder,     \* ids in the holder
    segs,       \* segs[id]: the segment in memory
    disk,       \* disk[id]: its files; the domain is the segments directory
    next_id,    \* id_source
    deps,       \* flush_dependency: <<element, depends_on, version>>
    jobs,       \* captured flushers that have not run, in order
    flush_max,  \* max_applied_version of the running flush, -1 if none
    opt,        \* the optimization
    snap,       \* proxy_all_segments_and_apply
    reader,     \* a retrieval of one point
    crashes

vars == <<env, log, ack, holder, segs, disk, next_id, deps, jobs, flush_max,
          opt, snap, reader, crashes>>

Store == INSTANCE PointStore WITH points <- [p \in Point |-> {}]

-----------------------------------------------------------------------------

MaxOf(S) == CHOOSE x \in S : \A y \in S : y <= x

MinOf(S) == CHOOSE x \in S : \A y \in S : x <= y

Larger(a, b) == IF a < b THEN b ELSE a

\* point_version, 0 for a point that is not there
Version(c) == MaxOf(c \cup {0})

None == [p \in Point |-> 0]

\* env.visible without a limit: no point is deferred
Unlimited == -1

Nothing == [p \in Point |-> {}]

\* A proxy: deleted[p] is the version of the delete of p, 0 if p is not deleted.
Proxy(version) == [deleted |-> None, ver |-> version]

\* slots counts the internal ids in use, up to env.visible + 1, and late are the
\* points whose internal id is not below deferred_internal_id.
Empty(appendable) ==
    [pts |-> Nothing, ver |-> 0, app |-> appendable, slots |-> 0, late |-> {},
     proxies |-> <<>>]

IsOriginal(s) == s.proxies = <<>>

\* is_appendable: a proxy is not
IsAppendable(s) == s.app /\ IsOriginal(s)

\* The content of point p in segment s read through its innermost k proxies.
Through(s, k, p) ==
    IF \E j \in 1..k : s.proxies[j].deleted[p] # 0 THEN {} ELSE s.pts[p]

Content(s, p) == Through(s, Len(s.proxies), p)

\* point_is_deferred: not to be seen before the segment is optimized
IsDeferred(s, p) == s.app /\ p \in s.late

\* version(): of the segment or of the last change kept in a proxy
SegmentVersion(s) ==
    MaxOf({s.ver} \cup {s.proxies[j].ver : j \in 1..Len(s.proxies)})

\* Segment::delete_point: ignored if the point has a newer version.
DeleteOriginal(s, i, p) ==
    IF s.pts[p] = {} \/ Version(s.pts[p]) > i THEN s
    ELSE [s EXCEPT !.pts[p] = {}, !.ver = Larger(@, i), !.late = @ \ {p}]

\* ProxySegment::delete_point of the k-th proxy: the delete is kept if the
\* segment below has the point.
DeleteProxied(s, k, i, p) ==
    [s EXCEPT !.proxies[k].ver = Larger(@, i),
              !.proxies[k].deleted[p] =
                  IF Through(s, k - 1, p) # {} THEN i ELSE @]

\* delete_point of the k-th layer of a segment, 0 is the segment itself
DeleteAt(s, k, i, p) ==
    IF k = 0 THEN DeleteOriginal(s, i, p) ELSE DeleteProxied(s, k, i, p)

DeletePoint(s, i, p) == DeleteAt(s, Len(s.proxies), i, p)

\* upsert_point and set_payload of a segment that can be written: a point that is
\* new gets the next internal id.
PutPoint(s, i, p, c) ==
    LET new == env.visible # Unlimited /\ s.pts[p] = {}
    IN  [s EXCEPT !.pts[p] = c, !.ver = Larger(@, i),
                  !.slots = IF new THEN MinOf({@ + 1, env.visible + 1}) ELSE @,
                  !.late = IF new /\ s.slots >= env.visible THEN @ \cup {p} ELSE @]

-----------------------------------------------------------------------------
(* Update operations on a holder: h is [ids, segs, deps].                  *)

Having(h, p) == {id \in h.ids : Content(h.segs[id], p) # {}}

VersionIn(h, id, p) == Version(Content(h.segs[id], p))

Appendable(h) == {id \in h.ids : IsAppendable(h.segs[id])}

\* find_points_to_update_and_delete: the copies with the latest version are
\* updated, older ones deleted.
Latest(h, p) ==
    LET latest == MaxOf({VersionIn(h, id, p) : id \in h.ids})
    IN  {id \in Having(h, p) : VersionIn(h, id, p) = latest}

\* Outdated, mutated: whether the latest copy can be seen is not considered.
OutdatedAlways(h, p) ==
    {id \in Having(h, p) \ Latest(h, p) : ~IsDeferred(h.segs[id], p)}

\* The older copies, unless nobody could see the point without them.  Deferred
\* copies are left to the optimizer.
Outdated(h, p) ==
    {id \in Having(h, p) \ Latest(h, p) :
        /\ ~IsDeferred(h.segs[id], p)
        /\ \E other \in Latest(h, p) : ~IsDeferred(h.segs[other], p)}

\* delete_points_from_segments: with the version the copy has
WithoutOlder(h, p) ==
    [h EXCEPT !.segs =
        [id \in DOMAIN h.segs |->
            IF id \in Outdated(h, p)
            THEN DeletePoint(h.segs[id], VersionIn(h, id, p), p)
            ELSE h.segs[id]]]

\* apply_points_with_conditional_move: a copy in an appendable segment is
\* updated in place, any other is moved to the appendable segment t, after the
\* flush dependency of its segment on t was added.  The old copy stays if the new
\* one is deferred.
Moved(h, i, kind, p, t) ==
    LET old   == {id \in Latest(h, p) : VersionIn(h, id, p) < i}
        moved == old \ Appendable(h)
        c     == Store!Result(kind, i, Content(h.segs[CHOOSE id \in old : TRUE], p))
        put   == (old \cap Appendable(h)) \cup (IF moved = {} THEN {} ELSE {t})
        after == PutPoint(h.segs[t], i, p, c)
        gone  == IF IsDeferred(after, p) THEN {} ELSE moved
    IN  IF old = {} THEN h
        ELSE [h EXCEPT
                !.deps = {d \in @ : ~(d[1] \in moved /\ d[2] = t)}
                         \cup {<<id, t, i>> : id \in moved},
                !.segs = [id \in DOMAIN h.segs |->
                             IF id \in put THEN PutPoint(h.segs[id], i, p, c)
                             ELSE IF id \in gone THEN DeletePoint(h.segs[id], i, p)
                             ELSE h.segs[id]]]

\* Operation i on holder h, with t the appendable segment that is picked.  An
\* upsert of a point that no segment has inserts it, a payload update of such a
\* point ends with an error.
Applied(h, i, op, t) ==
    IF op.kind = "delete"
    THEN [h EXCEPT !.segs = [id \in DOMAIN h.segs |->
              IF id \in h.ids THEN DeletePoint(h.segs[id], i, op.point)
              ELSE h.segs[id]]]
    ELSE IF Having(h, op.point) # {}
    THEN Moved(WithoutOlder(h, op.point), i, op.kind, op.point, t)
    ELSE IF op.kind = "upsert"
    THEN [h EXCEPT !.segs[t] = PutPoint(@, i, op.point, {i})]
    ELSE h

Holder == [ids |-> holder, segs |-> segs, deps |-> deps]

\* CollectionUpdater::update, under the updates lock and the read lock of the
\* holder.  A segment is write locked, so flush_all holds no read lock of it.
Update(op) ==
    /\ op \in env.ops
    /\ Len(log) < env.max_ops
    /\ snap.pc # "flushing"
    /\ log' = Append(log, op)
    /\ \E t \in Appendable(Holder) :
         \E h \in {Applied(Holder, Len(log) + 1, op, t)} :
            /\ segs' = h.segs
            /\ deps' = h.deps
    /\ UNCHANGED <<env, ack, holder, disk, next_id, jobs, flush_max, opt, snap,
                   reader, crashes>>

-----------------------------------------------------------------------------
(* Flushing                                                                *)

\* LockOrder, mutated: the appendable segments first.
LockOrderAppendableFirst ==
    LET rank(id) == (IF IsAppendable(segs[id]) THEN 0 ELSE MaxId + 1) + id
    IN  SetToSortSeq(holder, LAMBDA a, b : rank(a) < rank(b))

\* non_appendable_then_appendable_segments_ids, both in the order of the ids
LockOrder ==
    LET rank(id) == (IF IsAppendable(segs[id]) THEN MaxId + 1 ELSE 0) + id
    IN  SetToSortSeq(holder, LAMBDA a, b : rank(a) < rank(b))

Needs(id, S) == {d[2] : d \in {e \in deps : e[1] = id /\ e[2] \in S}}

RECURSIVE TopoSort(_, _)

\* TopoSortIter: ready is the queue of elements with no dependency left, S the
\* elements still to come.  Elements on a cycle come last, in no order.
TopoSort(ready, S) ==
    IF ready = <<>> THEN SetToSeq(S)
    ELSE LET rest  == S \ {Head(ready)}
             freed == {id \in rest : /\ Head(ready) \in Needs(id, S)
                                     /\ Needs(id, rest) = {}}
         IN  <<Head(ready)>> \o TopoSort(Tail(ready) \o SetToSeq(freed), rest)

\* sort_segment_ids_by_flush_dependency
FlushOrder ==
    TopoSort(SelectSeq(LockOrder, LAMBDA id : Needs(id, holder) = {}), holder)

\* The files of a segment
File(s) == [pts |-> s.pts, ver |-> s.ver, app |-> s.app, slots |-> s.slots,
            late |-> s.late]

\* flusher: what a segment without its proxies has now.  There is none if the
\* segment was never written, or nothing changed and the flush is not forced.
Flushers(force) ==
    LET dirty(id) == segs[id].ver # 0 /\ (force \/ segs[id].ver # disk[id].ver)
        job(id) == [id |-> id, file |-> File(segs[id])]
        ids == SelectSeq(FlushOrder, dirty)
    IN  [k \in 1..Len(ids) |-> job(ids[k])]

MaxApplied == MaxOf({SegmentVersion(segs[id]) : id \in holder})

\* get_max_persisted_version
MaxPersisted ==
    LET unsaved == {id \in holder : SegmentVersion(segs[id]) > disk[id].ver}
    IN  IF unsaved # {} THEN MinOf({disk[id].ver : id \in unsaved})
        ELSE MaxOf({disk[id].ver : id \in holder})

\* Retained, mutated: a flush forgets no dependency.
RetainedAll(D, max) == D

\* The dependencies that remain once everything up to version max is flushed.
Retained(D, max) == {d \in D : d[3] > max}

\* The flush worker: flush_all captures the flushers for a background thread,
\* unless one is running, and the version it returns is acknowledged.
FlushAll ==
    /\ env.flush
    /\ snap.pc # "flushing"
    /\ ack' = Larger(ack, MaxPersisted)
    /\ IF flush_max # -1
       THEN UNCHANGED <<jobs, flush_max>>
       ELSE jobs' = Flushers(FALSE) /\ flush_max' = MaxApplied
    /\ ack' # ack \/ jobs' # jobs \/ flush_max' # flush_max
    /\ UNCHANGED <<env, log, holder, segs, disk, next_id, deps, opt, snap, reader,
                   crashes>>

\* The next flusher writes its segment, unless the segment was dropped or has
\* been saved with a later version.
RunFlusher ==
    /\ jobs # <<>>
    /\ LET job == Head(jobs)
       IN  disk' = IF job.id \in DOMAIN disk /\ disk[job.id].ver <= job.file.ver
                   THEN [disk EXCEPT ![job.id] = job.file] ELSE disk
    /\ jobs' = Tail(jobs)
    /\ UNCHANGED <<env, log, ack, holder, segs, next_id, deps, flush_max, opt, snap,
                   reader, crashes>>

\* Every flusher has run: the dependencies of what was flushed are dropped.
EndFlush ==
    /\ flush_max # -1 /\ jobs = <<>>
    /\ deps' = Retained(deps, flush_max)
    /\ flush_max' = -1
    /\ snap' = IF snap.pc = "flushing" THEN [snap EXCEPT !.pc = "apply"] ELSE snap
    /\ UNCHANGED <<env, log, ack, holder, segs, disk, next_id, jobs, opt, reader,
                   crashes>>

-----------------------------------------------------------------------------
(* Optimization.  Every step but Build needs the upgradable or the write   *)
(* lock of the holder, which a snapshot keeps to its end.                  *)

Idle == [pc |-> "idle", inputs |-> {}, cow |-> 0, out |-> 0, seg |-> Empty(FALSE),
         removed |-> {}]

\* A new segment in the holder and in the segments directory
AddEmpty(id) ==
    /\ holder' = holder \cup {id}
    /\ disk' = disk @@ (id :> File(Empty(TRUE)))
    /\ next_id' = id + 1

\* execute_optimization: the input segments are wrapped.  A segment for copies
\* is added when no other appendable segment is left.
Wrap(inputs) ==
    /\ inputs \subseteq env.optimize
    /\ opt.pc = "idle" /\ snap.pc = "idle"
    /\ \A id \in inputs : IsOriginal(segs[id])
    /\ LET cow == Appendable(Holder) \subseteq inputs
       IN  /\ next_id + (IF cow THEN 1 ELSE 0) <= env.max_id
           /\ opt' = [Idle EXCEPT !.pc = "wrapped", !.inputs = inputs,
                                  !.cow = IF cow THEN next_id ELSE 0]
           /\ IF cow THEN AddEmpty(next_id) ELSE UNCHANGED <<holder, disk, next_id>>
    /\ segs' = [id \in DOMAIN segs |->
                   IF id \in inputs
                   THEN [segs[id] EXCEPT !.proxies = <<Proxy(segs[id].ver)>>]
                   ELSE segs[id]]
    /\ UNCHANGED <<env, log, ack, deps, jobs, flush_max, snap, reader, crashes>>

\* proxy_deleted_points of the proxies of this optimization
DeletedVersion(p) ==
    MaxOf({segs[id].proxies[1].deleted[p] : id \in opt.inputs})

DeletedPoints == {p \in Point : DeletedVersion(p) # 0}

\* The deletes of the points P are applied to the optimized segment s.
WithDeletes(s, P) ==
    LET after(p) == DeleteOriginal(s, DeletedVersion(p), p)
    IN  [s EXCEPT !.pts = [p \in Point |-> IF p \in P THEN after(p).pts[p] ELSE @[p]],
                  !.ver = MaxOf({@} \cup {after(p).ver : p \in P})]

\* SegmentBuilder: the latest copy of every point of the input segments
Merged(inputs) ==
    LET latest(p) == CHOOSE c \in {segs[id].pts[p] : id \in inputs} :
                        \A id \in inputs : Version(segs[id].pts[p]) <= Version(c)
    IN  [Empty(FALSE) EXCEPT !.pts = [p \in Point |-> latest(p)],
                             !.ver = MaxOf({segs[id].ver : id \in inputs})]

\* build_new_segment: the optimized segment is moved to the segments directory,
\* then loses the points deleted in the proxies so far.
Build ==
    /\ opt.pc = "wrapped" /\ next_id <= env.max_id
    /\ \E built \in {Merged(opt.inputs)} :
          /\ disk' = disk @@ (next_id :> File(built))
          /\ opt' = [opt EXCEPT !.pc = "built", !.out = next_id,
                                !.seg = WithDeletes(built, DeletedPoints)]
    /\ next_id' = next_id + 1
    /\ UNCHANGED <<env, log, ack, holder, segs, deps, jobs, flush_max, snap, reader,
                   crashes>>

\* Collect, mutated: points that are in the optimized segment are not left out.
CollectAll ==
    /\ opt.pc = "built"
    /\ opt' = [opt EXCEPT !.pc = "ready", !.removed = DeletedPoints]
    /\ UNCHANGED <<env, log, ack, holder, segs, disk, next_id, deps, jobs, flush_max,
                   snap, reader, crashes>>

\* already_remove_points: deleted in the proxies and not in the optimized segment
Collect ==
    /\ opt.pc = "built"
    /\ opt' = [opt EXCEPT !.pc = "ready",
                          !.removed = {p \in DeletedPoints : opt.seg.pts[p] = {}}]
    /\ UNCHANGED <<env, log, ack, holder, segs, disk, next_id, deps, jobs, flush_max,
                   snap, reader, crashes>>

\* NotNeeded, mutated: the last appendable segment is no exception.
NotNeededEvenLast(ids, ss, id) ==
    id \in ids /\ IsOriginal(ss[id]) /\ ss[id].ver = 0

\* remove_segment_if_not_needed of the segments ss with the holder ids `ids': a
\* segment is empty as long as nothing was written to it.
NotNeeded(ids, ss, id) ==
    /\ id \in ids
    /\ IsOriginal(ss[id]) /\ ss[id].ver = 0
    /\ \E other \in ids \ {id} : IsAppendable(ss[other])

Without(f, S) == [id \in DOMAIN f \ S |-> f[id]]

\* Points of the proxies that were deferred and can be seen in the new segment
DeferredPoints ==
    {p \in Point : \E id \in opt.inputs :
                       IsDeferred(segs[id], p) /\ Content(segs[id], p) # {}}

RECURSIVE DeduplicatePoints(_, _)

\* deduplicate_points
DeduplicatePoints(h, P) ==
    IF P = {} THEN h
    ELSE LET p == CHOOSE q \in P : TRUE
         IN  DeduplicatePoints(WithoutOlder(h, p), P \ {p})

\* finish_optimization, under the updates lock and the write lock: the deletes
\* that came since are applied, the optimized segment replaces the proxies, and
\* older copies of points that were deferred are deleted.
Finish ==
    /\ opt.pc = "ready" /\ snap.pc = "idle"
    /\ LET ids  == holder \ opt.inputs
           drop == {id \in {opt.cow} : NotNeeded(ids, segs, id)}
           new  == [ids |-> (ids \ drop) \cup {opt.out}, deps |-> deps,
                    segs |-> [segs EXCEPT ![opt.out] =
                                 WithDeletes(opt.seg, DeletedPoints \ opt.removed)]]
       IN  /\ holder' = new.ids
           /\ disk' = Without(disk, drop)
           /\ segs' = DeduplicatePoints(new, DeferredPoints).segs
    /\ opt' = [opt EXCEPT !.pc = "dropping"]
    /\ UNCHANGED <<env, log, ack, next_id, deps, jobs, flush_max, snap, reader,
                   crashes>>

\* The data of a replaced segment is removed once nobody reads it any more.
DropData(id) ==
    /\ opt.pc = "dropping" /\ id \in opt.inputs
    /\ \A todo \in Range(reader.todo) : todo[1] # id
    /\ disk' = Without(disk, {id})
    /\ segs' = [segs EXCEPT ![id] = Empty(TRUE)]
    /\ opt' = IF opt.inputs = {id} THEN Idle ELSE [opt EXCEPT !.inputs = @ \ {id}]
    /\ UNCHANGED <<env, log, ack, holder, next_id, deps, jobs, flush_max, snap,
                   reader, crashes>>

\* The optimization is stopped or fails: unwrap_proxy puts the wrapped segments
\* back.  A segment that was built stays in the segments directory.
Cancel ==
    /\ env.cancel
    /\ opt.pc \in {"wrapped", "built", "ready"} /\ snap.pc = "idle"
    /\ segs' = [id \in DOMAIN segs |->
                   IF id \in opt.inputs THEN [segs[id] EXCEPT !.proxies = <<>>]
                   ELSE segs[id]]
    /\ opt' = Idle
    /\ UNCHANGED <<env, log, ack, holder, disk, next_id, deps, jobs, flush_max, snap,
                   reader, crashes>>

\* ensure_appendable_segment_with_capacity: all appendable segments are full.
AddSegment ==
    /\ env.add
    /\ snap.pc = "idle" /\ next_id <= env.max_id
    /\ AddEmpty(next_id)
    /\ UNCHANGED <<env, log, ack, segs, deps, jobs, flush_max, opt, snap, reader,
                   crashes>>

-----------------------------------------------------------------------------
(* Snapshots: proxy_all_segments_and_apply                                 *)

NoSnap == [pc |-> "idle", left |-> <<>>, tmp |-> 0]

\* segment_ids: appendable segments first
SegmentIds ==
    LET rank(id) == (IF IsAppendable(segs[id]) THEN 0 ELSE MaxId + 1) + id
    IN  SetToSortSeq(holder, LAMBDA a, b : rank(a) < rank(b))

\* proxy_all_segments: every segment is wrapped and a temporary one is added.
ProxyAll ==
    /\ env.snapshot
    /\ snap.pc = "idle" /\ next_id <= env.max_id
    /\ snap' = [pc |-> "proxied", left |-> SegmentIds, tmp |-> next_id]
    /\ AddEmpty(next_id)
    /\ segs' = [id \in DOMAIN segs |->
                   IF id \in holder
                   THEN [segs[id] EXCEPT !.proxies =
                            Append(@, Proxy(SegmentVersion(segs[id])))]
                   ELSE segs[id]]
    /\ UNCHANGED <<env, log, ack, deps, jobs, flush_max, opt, reader, crashes>>

\* flush_all(sync, force): joins the background flush, then flushes while every
\* segment is read locked.
SnapshotFlush ==
    /\ snap.pc = "proxied" /\ flush_max = -1
    /\ snap' = [snap EXCEPT !.pc = "flushing"]
    /\ jobs' = Flushers(TRUE) /\ flush_max' = MaxApplied
    /\ UNCHANGED <<env, log, ack, holder, segs, disk, next_id, deps, opt, reader,
                   crashes>>

RECURSIVE Propagated(_, _, _)

\* propagate_to_wrapped: the deletes of the points P kept by the outermost proxy
\* reach the layer below.
Propagated(s, k, P) ==
    IF P = {} THEN [s EXCEPT !.proxies = SubSeq(@, 1, k - 1)]
    ELSE LET p == CHOOSE q \in P : TRUE
         IN  Propagated(DeleteAt(s, k - 1, s.proxies[k].deleted[p], p), k, P \ {p})

Unproxied(s) ==
    LET k == Len(s.proxies)
    IN  Propagated(s, k, {p \in Point : s.proxies[k].deleted[p] # 0})

\* try_unproxy_segment, after the snapshot of the first segment that is left
UnproxySegment ==
    /\ snap.pc = "apply" /\ Len(snap.left) > 1
    /\ segs' = [segs EXCEPT ![Head(snap.left)] = Unproxied(@)]
    /\ snap' = [snap EXCEPT !.left = Tail(@)]
    /\ UNCHANGED <<env, log, ack, holder, disk, next_id, deps, jobs, flush_max, opt,
                   reader, crashes>>

\* unproxy_all_segments: only the last one is left, or the snapshot failed.
UnproxyAll ==
    /\ snap.pc = "apply"
    /\ \E new \in {[id \in DOMAIN segs |->
                      IF id \in Range(snap.left)
                      THEN Unproxied(segs[id]) ELSE segs[id]]} :
          /\ segs' = new
          /\ LET drop == {id \in {snap.tmp} : NotNeeded(holder, new, id)}
             IN  holder' = holder \ drop /\ disk' = Without(disk, drop)
    /\ snap' = NoSnap
    /\ UNCHANGED <<env, log, ack, next_id, deps, jobs, flush_max, opt, reader, crashes>>

-----------------------------------------------------------------------------
(* Reading a point                                                         *)

NoRead == [pc |-> "idle", point |-> CHOOSE p \in Point : TRUE, todo |-> <<>>,
           seen |-> 0, found |-> {}, start |-> 0, least |-> 0]

\* The content of a point in the segments ids: the one with the latest version.
Newest(h, ids, p) ==
    LET copies == {Content(h.segs[id], p) : id \in ids} \cup {{}}
    IN  CHOOSE c \in copies : \A d \in copies : Version(d) <= Version(c)

View(h, p) == Newest(h, h.ids, p)

\* What can be seen of it: deferred copies are left out.
Visible(h, p) == Newest(h, {id \in h.ids : ~IsDeferred(h.segs[id], p)}, p)

\* read_points_locked: the segments are listed under the holder's lock, then
\* read one by one without it.
StartRead(p) ==
    /\ env.read /\ reader.pc = "idle"
    /\ reader' = [pc |-> "reading", point |-> p,
                  todo |-> [k \in 1..Len(LockOrder) |->
                              <<LockOrder[k], Len(segs[LockOrder[k]].proxies)>>],
                  seen |-> 0, found |-> {}, start |-> Len(log),
                  least |-> Version(Visible(Holder, p))]
    /\ UNCHANGED <<env, log, ack, holder, segs, disk, next_id, deps, jobs, flush_max,
                   opt, snap, crashes>>

\* retrieve_blocking keeps the record with the latest version, retrieve of a
\* segment gives none for a deferred point.
ReadSegment ==
    /\ reader.pc = "reading"
    /\ LET s == segs[Head(reader.todo)[1]]
           c == Through(s, Head(reader.todo)[2], reader.point)
       IN  reader' = [reader EXCEPT
                        !.pc = IF Len(reader.todo) = 1 THEN "done" ELSE @,
                        !.todo = Tail(@),
                        !.seen = Larger(@, Version(c)),
                        !.found = IF Version(c) > reader.seen
                                     /\ ~IsDeferred(s, reader.point)
                                  THEN c ELSE @]
    /\ UNCHANGED <<env, log, ack, holder, segs, disk, next_id, deps, jobs, flush_max,
                   opt, snap, crashes>>

-----------------------------------------------------------------------------
(* Restart                                                                 *)

\* load_segment of every directory
Loaded(dir) ==
    [id \in 1..MaxId |->
        IF id \in DOMAIN dir THEN [proxies |-> <<>>] @@ dir[id] ELSE Empty(TRUE)]

\* find_duplicated_points: of the latest copies that can be seen the first is
\* kept, and so is the first deferred one.  Older copies that can be seen are
\* kept if no latest one can.
Duplicates(h, p) ==
    LET late  == {id \in Having(h, p) : IsDeferred(h.segs[id], p)}
        seen  == Latest(h, p) \ late
        first == {id \in late : \A other \in late :
                     \/ VersionIn(h, other, p) < VersionIn(h, id, p)
                     \/ VersionIn(h, other, p) = VersionIn(h, id, p) /\ id <= other}
    IN  (late \ first) \cup
        (IF seen = {} THEN {} ELSE (Having(h, p) \ late) \ {MinOf(seen)})

\* deduplicate_points_tasks
Deduplicated(h) ==
    [h EXCEPT !.segs = [id \in DOMAIN h.segs |->
        LET dup == {p \in Point : id \in Duplicates(h, p)}
        IN  [h.segs[id] EXCEPT !.pts = [p \in Point |-> IF p \in dup THEN {} ELSE @[p]],
                               !.late = @ \ dup]]]

RECURSIVE Replayed(_, _)

\* load_from_wal: the records from i on are applied again.
Replayed(h, i) ==
    IF i > Len(log) THEN h
    ELSE Replayed(Applied(h, i, log[i], MinOf(Appendable(h))), i + 1)

Recovered ==
    Replayed(Deduplicated([ids |-> DOMAIN disk, segs |-> Loaded(disk), deps |-> {}]),
             Larger(ack, 1))

Crash ==
    /\ crashes < env.crashes
    /\ crashes' = crashes + 1
    /\ \E h \in {Recovered} : holder' = h.ids /\ segs' = h.segs /\ deps' = h.deps
    /\ jobs' = <<>> /\ flush_max' = -1
    /\ opt' = Idle /\ snap' = NoSnap /\ reader' = NoRead
    /\ UNCHANGED <<env, log, ack, disk, next_id>>

-----------------------------------------------------------------------------

Init ==
    /\ env \in Envs
    /\ log = env.log /\ ack = Len(log)
    /\ disk = env.disk /\ holder = DOMAIN disk /\ segs = Loaded(disk)
    /\ next_id = Cardinality(holder) + 1
    /\ deps = {} /\ jobs = <<>> /\ flush_max = -1
    /\ opt = Idle /\ snap = NoSnap /\ reader = NoRead /\ crashes = 0

Next ==
    \/ \E op \in env.ops : Update(op)
    \/ FlushAll \/ RunFlusher \/ EndFlush
    \/ \E inputs \in SUBSET holder \ {{}} : Wrap(inputs)
    \/ Build \/ Collect \/ Finish \/ Cancel \/ AddSegment
    \/ \E id \in opt.inputs : DropData(id)
    \/ ProxyAll \/ SnapshotFlush \/ UnproxySegment \/ UnproxyAll
    \/ \E p \in Point : StartRead(p)
    \/ ReadSegment
    \/ Crash

Spec == Init /\ [][Next]_vars

Refined == INSTANCE PointStore
              WITH points <- [p \in Point |-> View(Holder, p)]

\* The holder implements PointStore: a step is one operation applied to one
\* point, or none of what a reader finds changes: not by a flush, the wrapping,
\* building, swapping and dropping of segments, a snapshot or a crash.
RefinesStore == Refined!Spec

\* A retrieval finds a point that was there when it started and was not deleted
\* since, with at least the version it had (segments_for_retrieval: points move
\* from segments read early to segments read late).
ReadFindsPoint ==
    (/\ reader.pc = "done"
     /\ ~\E i \in reader.start + 1..Len(log) :
            log[i] = [kind |-> "delete", point |-> reader.point])
        => Version(reader.found) >= reader.least

\* What can be seen of a point is not lost and not set back but by its deletion:
\* an update whose copy is deferred, the optimization of it, a snapshot and a
\* restart keep it or replace it by a newer one ("Keep the source of the CoW
\* operation as the deferred point is invisible until indexing").
VisibleNotSetBack ==
    [][\E new \in {Holder'} : \A p \in Point :
          \/ log' # log /\ Last(log') = [kind |-> "delete", point |-> p]
          \/ Version(Visible(Holder, p)) <= Version(Visible(new, p))]_<<holder, segs>>

\* A shard that is loaded now has a segment to write to, whatever optimizations
\* and snapshots were under way ("Shard has no appendable segments, this should
\* never happen").
AppendableOnDisk == \E id \in DOMAIN disk : disk[id].app

\* The flush dependencies have no cycle, so that the order of a flush respects
\* all of them ("circular dependencies detected in flush topology").
FlushOrderExists ==
    \A S \in SUBSET holder \ {{}} : \E id \in S : Needs(id, S) = {}

\* Every point has the content that the operations of the log give it.
ServesLog ==
    \A p \in Point : View(Holder, p) =
        FoldLeftDomain(LAMBDA c, i : IF log[i].point = p
                                     THEN Store!Result(log[i].kind, i, c) ELSE c,
                       {}, log)
=============================================================================
