-------------------------- MODULE MCSegmentHolder ---------------------------
(***************************************************************************)
(* Instances of SegmentHolder for TLC.  An environment says which          *)
(* operations, workers and faults a behaviour has.                         *)
(***************************************************************************)
EXTENDS SegmentHolder

CONSTANTS p1, p2

Op(kind, point) == [kind |-> kind, point |-> point]

OpsOn(P) == {Op(kind, point) : kind \in {"upsert", "payload", "delete"}, point \in P}

AllOps == OpsOn(Point)

Upserts == {Op("upsert", p1), Op("upsert", p2)}

\* An indexed segment with p1, an appendable one with p2, both flushed.
Base ==
    [log |-> <<Op("upsert", p1), Op("upsert", p2)>>,
     disk |-> <<[File(Empty(FALSE)) EXCEPT !.pts[p1] = {1}, !.ver = 1],
                [File(Empty(TRUE)) EXCEPT !.pts[p2] = {2}, !.ver = 2]>>,
     visible |-> Unlimited,
     ops |-> OpsOn({p1}), max_ops |-> 4, max_id |-> 5, crashes |-> 0,
     flush |-> FALSE, optimize |-> {}, cancel |-> FALSE, add |-> FALSE,
     snapshot |-> FALSE, read |-> FALSE]

\* Updates, flushes and a crash, with a segment added when there is no room.
Updates == [Base EXCEPT !.flush = TRUE, !.crashes = 1, !.add = TRUE, !.max_id = 3,
                        !.max_ops = 5]

\* One optimization after the other while points of both segments change.
Optimizing == [Base EXCEPT !.optimize = 1..MaxId, !.ops = AllOps]

\* A crash at any step of an optimization, with flushes.
OptimizingCrash == [Base EXCEPT !.optimize = {1, 2}, !.flush = TRUE, !.crashes = 1,
                                !.ops = Upserts, !.max_id = 4]

\* Cancelled optimizations of a segment none of whose points changes.
Cancelling == [Base EXCEPT !.optimize = {1}, !.cancel = TRUE, !.ops = OpsOn({p2}),
                           !.flush = TRUE, !.crashes = 1]

\* A crash at any step of a snapshot, with flushes.
SnapshotCrash == [Base EXCEPT !.snapshot = TRUE, !.flush = TRUE, !.crashes = 1,
                              !.max_id = 3, !.ops = OpsOn({p2})]

\* Snapshots during optimizations: proxies of proxies.
SnapshotOptimizing == [Base EXCEPT !.snapshot = TRUE, !.optimize = {1, 2},
                                   !.ops = {Op("payload", p1), Op("delete", p1)}]

\* One snapshot after the other.
Snapshots == [Base EXCEPT !.snapshot = TRUE, !.max_id = 4, !.ops = {Op("upsert", p2)}]

\* A retrieval during optimizations that do not touch appendable segments.
Reading == [Base EXCEPT !.read = TRUE, !.optimize = 1..MaxId \ {2}]

\* All points in appendable segments are deferred.
Deferring == [Base EXCEPT !.visible = 0, !.disk[2].slots = 1, !.disk[2].late = {p2}]

\* In appendable segments all points but the first are deferred.
DeferringSome == [Base EXCEPT !.visible = 1, !.disk[2].slots = 1]

Deferred ==
    {[Deferring EXCEPT !.flush = TRUE, !.crashes = 1, !.ops = AllOps, !.max_id = 2],
     [DeferringSome EXCEPT !.optimize = 1..MaxId, !.ops = AllOps],
     [Deferring EXCEPT !.optimize = {1, 2}, !.flush = TRUE, !.crashes = 1,
                       !.ops = Upserts, !.max_id = 4],
     [Deferring EXCEPT !.snapshot = TRUE, !.flush = TRUE, !.crashes = 1, !.max_id = 3],
     [Deferring EXCEPT !.read = TRUE, !.optimize = {1, 3},
                       !.ops = {Op("upsert", p1), Op("delete", p1)}]}

Passing == {Updates, Optimizing, OptimizingCrash, Cancelling, SnapshotCrash,
            SnapshotOptimizing, Snapshots, Reading} \cup Deferred

-----------------------------------------------------------------------------
(* Environments in which a property fails.                                 *)

\* ServesLog: an optimization of a segment is cancelled while its point changes.
CancelChanged == {[Base EXCEPT !.optimize = {1}, !.cancel = TRUE]}

\* ServesLog: the segment a point was moved out of is optimized before the
\* segment it was moved to is flushed.
MovedThenOptimized == {[Base EXCEPT !.optimize = {1}, !.flush = TRUE, !.crashes = 1,
                                    !.ops = {Op("payload", p1)}]}

\* ServesLog: a crash before the data of a replaced segment is dropped.
LeftBehind == {[Base EXCEPT !.optimize = {1}, !.flush = TRUE, !.crashes = 1,
                            !.ops = {Op("delete", p1), Op("upsert", p2)}]}

\* FlushOrderExists: the segment of a snapshot is optimized before a flush.
TemporaryOptimized == {[Base EXCEPT !.optimize = 1..MaxId, !.snapshot = TRUE,
                                    !.ops = {Op("upsert", p2)}]}

\* ReadFindsPoint: a point moves to a segment added during the retrieval.
LateSegment == {[Base EXCEPT !.read = TRUE, !.optimize = {2}]}

\* ReadFindsPoint: a segment with deferred points is optimized.
DeferredOptimized == {[Deferring EXCEPT !.read = TRUE, !.optimize = 1..MaxId]}
=============================================================================
