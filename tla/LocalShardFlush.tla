-------------------------- MODULE LocalShardFlush ---------------------------
(***************************************************************************)
(* The variables of LocalShard keep their types, for all constants.        *)
(*                                                                         *)
(* The invariant of LocalShardInvariant is kept by the flush worker and    *)
(* the background flush thread.  The first lemmas about it say that a part *)
(* of the invariant survives a step that leaves alone the variables it is  *)
(* about; then there is one lemma for each action.                         *)
(***************************************************************************)
EXTENDS LocalShardInvariant, SequenceTheorems, TLAPS

\* Stands for u64::MAX.
LEMMA UnboundedType == Unbounded \in Nat /\ KeepFrom \subseteq Nat
    BY ConstantsAssumption DEF Unbounded

\* Applying an operation keeps the types of points and versions.
LEMMA AppliedType ==
    ASSUME NEW pts \in [Point -> Nat], NEW ver \in [Segment -> Nat],
           NEW i \in Nat, NEW P
    PROVE  /\ AppliedPts(pts, i, P) \in [Point -> Nat]
           /\ AppliedVer(ver, pts, i, P) \in [Segment -> Nat]
    BY Zenon DEF AppliedPts, AppliedVer, Effect, Max

\* Every variable starts in its type.
LEMMA InitType == Init => TypeOK
    BY ConstantsAssumption DEF Init, TypeOK, Unbounded

\* Every step of the shard keeps the variables in their types.
LEMMA NextType == TypeOK /\ [Next]_vars => TypeOK'
<1> SUFFICES ASSUME TypeOK, [Next]_vars PROVE TypeOK'
    OBVIOUS
<1> USE ConstantsAssumption
<1>0. 0 \in Nat /\ \A n \in Nat : n + 1 \in Nat
    OBVIOUS
<1> USE DEF disk, segments, workers, flushing, flusher, loading, volatile, vars
<1>1. ASSUME NEW op \in Ops, Update(op) PROVE TypeOK'
  <2>1. wal' \in Seq(Ops) /\ Len(wal') = Len(wal) + 1
      BY <1>1, AppendProperties DEF TypeOK, Update
  <2>2. queue' \in Seq(Nat)
      BY <1>1, AppendProperties, LenProperties DEF TypeOK, Update
  <2>3. Len(wal') <= MaxOps
      BY <1>1, <2>1, LenProperties DEF TypeOK, Update
  <2> QED
      BY ZenonT(40), <1>1, <2>1, <2>2, <2>3 DEF TypeOK, Update
<1>2. CASE UpdateWorker
  <2>1. CASE TakeSignal
    <3>1. uop' \in Nat /\ queue' \in Seq(Nat)
        BY Zenon, <2>1, HeadTailProperties DEF TypeOK, TakeSignal
    <3> QED
        BY ZenonT(40), <2>1, <3>1 DEF TypeOK, TakeSignal
  <2>2. CASE SkipMissing
      BY <2>2 DEF TypeOK, SkipMissing
  <2>3. CASE BeginUpdate
    <3>1. wal[uop] \in Ops
        BY Zenon, <2>3, ElementOfSeq DEF TypeOK, BeginUpdate, LastIndex
    <3> QED
        BY Zenon, <2>3, <3>1 DEF TypeOK, BeginUpdate
  <2>4. CASE DeclineUpdate
      BY Zenon, <2>4 DEF TypeOK, DeclineUpdate
  <2>5. CASE FinishUpdate
    <3>1. failed' \in SUBSET Nat
        BY Zenon, <2>5 DEF TypeOK, FinishUpdate, HandleUpdateResult
    <3>2. applied' \in Nat /\ update_count' \in Nat /\ applied_file' \in Nat
      <4>2. CASE ures = "ok"
          BY Zenon, <1>0, <2>5, <4>2 DEF TypeOK, FinishUpdate, AppliedSeqUpdate
      <4>3. CASE ures # "ok"
          BY Zenon, <2>5, <4>3 DEF TypeOK, FinishUpdate
      <4> QED
          BY Zenon, <4>2, <4>3
    <3> QED
        BY ZenonT(40), <2>5, <3>1, <3>2 DEF TypeOK, FinishUpdate
  <2> QED
      BY Zenon, <1>2, <2>1, <2>2, <2>3, <2>4, <2>5 DEF UpdateWorker
<1>3. CASE OptimizerWorker
  <2>1. CASE StartRecover
      BY <2>1 DEF TypeOK, StartRecover
  <2>2. CASE BeginRecover
    <3>1. rop <= LastIndex => wal[rop] \in Ops
        BY <2>2, ElementOfSeq, LenProperties DEF TypeOK, BeginRecover, LastIndex
    <3>2. todo' \in SUBSET Point /\ rop' \in Nat /\ lock' \in {"none", "upd", "rec"}
        BY <2>2, <3>1, LenProperties DEF TypeOK, BeginRecover, LastIndex
    <3> QED
        BY ZenonT(40), <2>2, <3>2 DEF TypeOK, BeginRecover
  <2>3. CASE FinishRecover
    <3>1. rop \in Nat /\ failed \in SUBSET Nat /\ Len(wal) \in Nat
        BY Zenon, LenProperties DEF TypeOK
    <3>2. failed' \in SUBSET Nat
        BY Zenon, <2>3, <3>1 DEF FinishRecover, HandleUpdateResult
    <3>3. rop' \in Nat
        BY <2>3, <3>1 DEF FinishRecover
    <3> QED
        BY Zenon, <2>3, <3>2, <3>3 DEF TypeOK, FinishRecover
  <2> QED
      BY Zenon, <1>3, <2>1, <2>2, <2>3 DEF OptimizerWorker
<1>4. CASE Apply
  <2>1. ASSUME NEW s \in Segment, NEW P \in SUBSET Point, ApplyPoints(s, P)
        PROVE  TypeOK'
    <3>1. mem_pts' \in [Point -> Nat] /\ mem_ver' \in [Segment -> Nat]
        BY Zenon, <2>1, AppliedType DEF TypeOK, ApplyPoints, Current
    <3>2. error_status' \in [Segment -> SUBSET (Nat \X SUBSET Point)]
        BY Zenon, <2>1 DEF TypeOK, ApplyPoints, Repaired
    <3> QED
        BY ZenonT(40), <2>1, <3>1, <3>2 DEF TypeOK, ApplyPoints
  <2>2. ASSUME NEW p \in Point, RefusePoint(p) PROVE TypeOK'
      BY Zenon, <2>2 DEF TypeOK, RefusePoint, Release
  <2>3. CASE EndOperation
    <3>1. overwrite' \in Nat
        BY Zenon, <2>3 DEF TypeOK, EndOperation, BumpOverwrite, Current, Max
    <3> QED
        BY Zenon, <2>3, <3>1 DEF TypeOK, EndOperation, Release
  <2> QED
      BY Zenon, <1>4, <2>1, <2>2, <2>3 DEF Apply
<1>5. CASE Fail
  <2>1. PICK p \in Point, P \in SUBSET Point : FailPoint(p, P)
      BY Zenon, <1>5 DEF Fail
  <2>2. Current \in Nat
      BY Zenon DEF TypeOK, Current
  <2>3. mem_pts' \in [Point -> Nat] /\ mem_ver' \in [Segment -> Nat]
      BY Zenon, <2>1, <2>2, AppliedType DEF TypeOK, FailPoint
  <2>4. error_status' \in [Segment -> SUBSET (Nat \X SUBSET Point)] /\ fails' \in Nat
    <3> DEFINE id == IF p \in P THEN {p} ELSE FailedId(p)
    <3>1. id \in SUBSET Point
        BY Zenon DEF FailedId
    <3>2. {<<Current, id>>} \in SUBSET (Nat \X SUBSET Point) /\ Home[p] \in Segment
        BY <2>2, <3>1
    <3>3. /\ error_status' = [error_status EXCEPT ![Home[p]] = {<<Current, id>>}]
          /\ fails' = fails + 1
        BY Zenon, <2>1 DEF FailPoint
    <3>4. error_status \in [Segment -> SUBSET (Nat \X SUBSET Point)] /\ fails \in Nat
        BY Zenon DEF TypeOK
    <3> HIDE DEF id
    <3> QED
        BY <3>2, <3>3, <3>4
  <2> QED
      BY Zenon, <2>1, <2>3, <2>4 DEF TypeOK, FailPoint, Release
<1>6. CASE FlushWorker
  <2>1. CASE FlushAll
    <3>1. CASE thread = "failed"
        BY Zenon, <2>1, <3>1 DEF TypeOK, FlushAll
    <3>2. CASE thread # "failed" /\ thread = "running" /\ jobs # {}
        BY Zenon, <2>1, <3>2, UnboundedType DEF TypeOK, FlushAll
    <3>3. CASE thread # "failed" /\ ~(thread = "running" /\ jobs # {})
        BY Zenon, <2>1, <3>3, UnboundedType DEF TypeOK, FlushAll, Capture
    <3> QED
        BY Zenon, <3>1, <3>2, <3>3
  <2>2. ASSUME NEW s \in Segment, ReadSegment(s) PROVE TypeOK'
      BY ZenonT(40), <2>2 DEF TypeOK, ReadSegment, Min, Max
  <2>3. CASE Confirm
    <3>1. ack' \in Nat /\ fpc' \in {"idle", "read", "ack"}
        BY <2>3 DEF TypeOK, Confirm, FlushedVersion, Min
    <3> QED
        BY Zenon, <2>3, <3>1 DEF TypeOK, Confirm
  <2>4. CASE Ack
      BY ZenonT(40), <2>4, LenProperties DEF TypeOK, Ack, Acknowledge, LastIndex, Min, Max
  <2> QED
      BY Zenon, <1>6, <2>1, <2>2, <2>3, <2>4 DEF FlushWorker
<1>7. CASE FlushThread
  <2>1. ASSUME NEW s \in Segment, FlushComponents(s) PROVE TypeOK'
      BY ZenonT(40), <2>1 DEF TypeOK, FlushComponents
  <2>2. ASSUME NEW s \in Segment, FlushState(s) PROVE TypeOK'
      BY ZenonT(40), <2>2 DEF TypeOK, FlushState, Max
  <2> QED
      BY Zenon, <1>7, <2>1, <2>2 DEF FlushThread
<1>8. CASE FlushError
      BY ZenonT(40), <1>0, <1>8 DEF TypeOK, FlushError
<1>9. ASSUME NEW n \in KeepFrom \cup {Unbounded}, SetWalKeepFrom(n) PROVE TypeOK'
  <2>1. n \in Nat
      BY Zenon, <1>9, UnboundedType
  <2> QED
      BY ZenonT(40), <1>9, <2>1 DEF TypeOK, SetWalKeepFrom
<1>10. CASE TruncateUnappliedWal
  <2>1. Head(queue) \in Nat /\ Len(wal) \in Nat
      BY Zenon, <1>10, HeadTailProperties, LenProperties DEF TypeOK, TruncateUnappliedWal
  <2> DEFINE m == Min(Head(queue) - 1, LastIndex)
  <2>2. m \in Int /\ m <= Len(wal)
      BY <2>1 DEF Min, LastIndex
  <2>3. \A i \in 1..m : wal[i] \in Ops
      BY <2>1, <2>2, ElementOfSeq DEF TypeOK
  <2>4. SubSeq(wal, 1, m) \in Seq(Ops) /\ Len(SubSeq(wal, 1, m)) <= MaxOps
      BY <2>1, <2>2, <2>3, SubSeqProperties DEF TypeOK
  <2>5. queue' \in Seq(Nat)
      BY Zenon, <1>10, EmptySeq DEF TruncateUnappliedWal
  <2> QED
      BY Zenon, <1>10, <2>4, <2>5 DEF TypeOK, TruncateUnappliedWal
<1>11. CASE Crash
  <2>1. queue' \in Seq(Nat)
      BY Zenon, <1>11, EmptySeq DEF Crash
  <2> QED
      BY ZenonT(40), <1>0, <1>11, <2>1, UnboundedType DEF TypeOK, Crash
<1>12. CASE Load
  <2> USE LenProperties DEF LastWalIndex, LastIndex
  <2>1. CASE LoadFromWal
    <3>1. applied \in Nat /\ Len(wal) \in Nat
        BY Zenon DEF TypeOK
    <3>2. ReplayTo \in Nat
        BY <3>1 DEF ReplayTo, Min, Max
    <3> QED
        BY ZenonT(40), <2>1, <3>2 DEF TypeOK, LoadFromWal
  <2>2. CASE Replay
    <3>1. mem_pts' \in [Point -> Nat] /\ mem_ver' \in [Segment -> Nat]
        BY Zenon, <2>2, AppliedType DEF TypeOK, Replay
    <3>2. overwrite' \in Nat /\ next' \in Nat
        BY Zenon, <1>0, <2>2 DEF TypeOK, Replay, BumpOverwrite, Max
    <3> QED
        BY ZenonT(40), <2>2, <3>1, <3>2 DEF TypeOK, Replay
  <2>3. CASE ForceFlush
      BY ZenonT(40), <2>3 DEF TypeOK, ForceFlush, Capture
  <2>4. CASE ForceFlushed
      BY ZenonT(40), <2>4 DEF TypeOK, ForceFlushed
  <2>5. CASE SendPending
    <3>1. queue' \in Seq(Nat)
        BY Zenon, <2>5, AppendProperties DEF TypeOK, SendPending
    <3>2. next' \in Nat /\ to' \in Nat /\ mode' \in {"up", "send"}
      <4>1. CASE next = LastSent
          BY <2>5, <4>1 DEF TypeOK, SendPending
      <4>2. CASE next # LastSent
          BY <2>5, <4>2 DEF TypeOK, SendPending
      <4> QED
          BY Zenon, <4>1, <4>2
    <3> QED
        BY ZenonT(40), <2>5, <3>1, <3>2 DEF TypeOK, SendPending
  <2> QED
      BY Zenon, <1>12, <2>1, <2>2, <2>3, <2>4, <2>5 DEF Load
<1>13. CASE UNCHANGED vars
      BY ZenonT(40), <1>13 DEF TypeOK
<1> QED
    BY ZenonT(40), <1>1, <1>2, <1>3, <1>4, <1>5, <1>6, <1>7, <1>8, <1>9, <1>10, <1>11, <1>12,
       <1>13 DEF Next

\* The variables of the shard keep their types, for all constants.
THEOREM TypeCorrect == Spec => []TypeOK
<1> QED
    BY PTL, InitType, NextType DEF Spec

-----------------------------------------------------------------------------
\* An operation holds a segment's lock once, the replay covers the whole log,
\* and only the update worker applies operations.  A point's version stands for
\* its content, so no upsert fails between its two halves.
Regime == ~ChunkedOps /\ ~AppliedSeqActive /\ ~TryRecover /\ ~LateFailures

\* What the operations begun and done depend on.
log == <<wal, queue, uop, lock, todo, ures>>

\* The operations begun, and what each leaves of a point, depend on the log, the
\* queue and the update worker only.
LEMMA LogSame ==
    ASSUME UNCHANGED log
    PROVE  /\ Started' = Started
           /\ \A i, p : LastDone(i, p)' <=> LastDone(i, p)
           /\ \A i, p : Touch(i, p)' <=> Touch(i, p)
           /\ \A i : Eff(i)' = Eff(i)
           /\ \A v, p : PointVersion(v, p)' <=> PointVersion(v, p)
           /\ failed' = failed => \A i : BelowFailed(i)' <=> BelowFailed(i)
    BY DEF BelowFailed, log, Started, LastDone, Done, Touch, Eff, Effect, PointVersion

\* The update worker has begun no more operations than the log holds.
LEMMA StartedBounds ==
    ASSUME TypeOK, QueueInv
    PROVE  /\ Started \in Nat /\ Started <= Len(wal) /\ Len(wal) \in Nat
           /\ Len(wal) <= MaxOps /\ MaxOps \in Nat
<1>1. Len(wal) \in Nat /\ Len(queue) \in Nat
    BY Zenon, LenProperties DEF TypeOK
<1>2. MaxOps \in Nat
    BY Zenon, ConstantsAssumption
<1> QED
    BY <1>1, <1>2 DEF Started, QueueInv, TypeOK

\* An operation whose result is not handled yet is the last one begun.
LEMMA ResultStarted ==
    ASSUME TypeOK, QueueInv, ures # "none"
    PROVE  Started = uop
<1>1. Len(wal) \in Nat /\ Len(queue) \in Nat
    BY Zenon, LenProperties DEF TypeOK
<1> QED
    BY <1>1 DEF Started, QueueInv

\* Every point lives in a segment.
LEMMA HomeType == \A p \in Point : Home[p] \in Segment
    BY Zenon, ConstantsAssumption

\* A segment's version in its state file is at most the one in memory, which is
\* at most the last operation begun; neither is the u64::MAX that stands for
\* `no unsaved version'.
LEMMA VersionBounds ==
    ASSUME TypeOK, QueueInv, VersionInv, NEW s \in Segment
    PROVE  /\ disk_ver[s] \in Nat /\ mem_ver[s] \in Nat
           /\ disk_ver[s] <= mem_ver[s] /\ disk_ver[s] <= Started
           /\ mem_ver[s] <= Started /\ Started <= MaxOps
           /\ disk_ver[s] # Unbounded /\ disk_ver[s] < Unbounded
<1>1. disk_ver[s] \in Nat /\ mem_ver[s] \in Nat
    BY Zenon DEF TypeOK
<1>2. MaxOps \in Nat
    BY Zenon, ConstantsAssumption
<1> QED
    BY <1>1, <1>2, StartedBounds DEF VersionInv, Unbounded

\* A step that touches neither the log nor the update channel keeps QueueInv.
LEMMA QueueStable ==
    ASSUME QueueInv, UNCHANGED <<log, rop, rres>>
    PROVE  QueueInv'
    BY Zenon DEF QueueInv, log

\* A step that does not change what load_from_wal goes by keeps ModeInv.
LEMMA ModeStable ==
    ASSUME ModeInv, UNCHANGED <<log, mode, failed, fpc, to, next, first_index, jobs, wrote>>
    PROVE  ModeInv'
    BY Zenon DEF ModeInv, log

\* A step that writes no point, in memory, in a flusher or on disk, keeps PointInv.
LEMMA PointStable ==
    ASSUME PointInv, UNCHANGED <<log, mem_pts, disk_pts, jobs, job_pts>>
    PROVE  PointInv'
    BY Zenon, LogSame DEF PointInv

\* A step that changes no version and no failed operation keeps VersionInv.
LEMMA VersionStable ==
    ASSUME VersionInv,
           UNCHANGED <<log, disk_ver, mem_ver, overwrite, first_index, failed>>
    PROVE  VersionInv'
    BY Zenon, LogSame DEF VersionInv, log

\* A step that applies nothing keeps TodoInv.
LEMMA TodoStable ==
    ASSUME TodoInv, UNCHANGED <<log, mem_ver>>
    PROVE  TodoInv'
    BY Zenon DEF TodoInv, log

\* A step that leaves the segments in memory alone keeps MemInv.
LEMMA MemStable ==
    ASSUME MemInv, UNCHANGED <<log, mode, failed, mem_pts>>
    PROVE  MemInv'
    BY Zenon, LogSame DEF MemInv

\* A step that leaves the disk and the captured flushers alone keeps SavedInv.
LEMMA SavedStable ==
    ASSUME SavedInv,
           UNCHANGED <<log, mode, failed, disk_ver, disk_pts, jobs, job_ver, job_pts>>
    PROVE  SavedInv'
    BY Zenon, LogSame DEF SavedInv

\* A step that neither acknowledges records nor writes a point to disk keeps
\* FirstInv.
LEMMA FirstStable ==
    ASSUME FirstInv, UNCHANGED <<log, first_index, disk_pts, jobs, job_pts>>
    PROVE  FirstInv'
    BY Zenon, LogSame DEF FirstInv, Saved

\* A step outside the flush thread and the update worker keeps FlushInv.
LEMMA FlushStable ==
    ASSUME FlushInv,
           UNCHANGED <<mode, disk_ver, disk_pts, mem_ver, mem_pts, jobs, wrote,
                       job_ver, job_pts>>
    PROVE  FlushInv'
    BY Zenon DEF FlushInv

\* A step that changes nothing get_max_persisted_version reads keeps ReadInv.
LEMMA ReadStable ==
    ASSUME ReadInv,
           UNCHANGED <<log, failed, disk_ver, disk_pts, mem_ver, jobs, job_pts,
                       fpc, unread, min_unsaved, max_persisted>>
    PROVE  ReadInv'
    BY Zenon, LogSame DEF ReadInv, Saved, Confirmable

\* A step that changes neither what is about to be acknowledged nor what is saved
\* keeps AckInv.
LEMMA AckStable ==
    ASSUME AckInv,
           UNCHANGED <<log, failed, disk_pts, jobs, job_pts, fpc, ack>>
    PROVE  AckInv'
    BY Zenon, LogSame DEF AckInv, Saved

\* A step outside the replay keeps ReplayInv.
LEMMA ReplayStable ==
    ASSUME ReplayInv,
           UNCHANGED <<log, mode, mem_ver, mem_pts, disk_ver, disk_pts, next, first_index>>
    PROVE  ReplayInv'
    BY Zenon, LogSame DEF ReplayInv, ReplayedPoint, LastBefore

-----------------------------------------------------------------------------

\* A new shard, with the fake operation only, satisfies the invariant.
LEMMA InitInv == Init => IInv
<1> SUFFICES ASSUME Init PROVE IInv
    OBVIOUS
<1> USE ConstantsAssumption
<1>1. Len(wal) = 0 /\ Len(queue) = 0 /\ Started = 0
    BY EmptySeq DEF Init, Started
<1>2. TypeOK
    BY Zenon, InitType
<1>3. QueueInv /\ ModeInv /\ TodoInv
    BY <1>1 DEF Init, QueueInv, ModeInv, TodoInv
<1>4. PointInv /\ VersionInv /\ FlushInv /\ ReadInv /\ AckInv /\ ReplayInv
    BY <1>1 DEF Init, PointInv, PointVersion, VersionInv, FlushInv, ReadInv, AckInv, ReplayInv
<1>5. \A i \in 0..MaxOps, p \in Point : LastDone(i, p) => i = 0
    BY <1>1 DEF LastDone, Done
<1>6. MemInv /\ SavedInv /\ FirstInv
    BY <1>5 DEF Init, MemInv, SavedInv, FirstInv, Eff
<1> QED
    BY Zenon, <1>2, <1>3, <1>4, <1>6 DEF IInv

\* A queue proxy that sets or releases wal_keep_from keeps the invariant.
LEMMA SetWalKeepFromStep ==
    ASSUME IInv, NEW n, SetWalKeepFrom(n), TypeOK'
    PROVE  IInv'
    BY ZenonT(40), QueueStable, ModeStable, PointStable, VersionStable, TodoStable, MemStable,
       SavedStable, FirstStable, FlushStable, ReadStable, AckStable, ReplayStable
    DEF IInv, SetWalKeepFrom, log, disk, segments, workers, flushing, flusher, loading

\* A background flush that fails drops its remaining flushers: nothing on disk
\* becomes wrong.
LEMMA FlushErrorStep ==
    ASSUME IInv, FlushError, TypeOK'
    PROVE  IInv'
<1>0. /\ TypeOK /\ QueueInv /\ ModeInv /\ PointInv /\ VersionInv /\ TodoInv /\ MemInv
      /\ SavedInv /\ FirstInv /\ FlushInv /\ ReadInv /\ AckInv /\ ReplayInv
    BY Zenon DEF IInv
<1> USE DEF FlushError, log, disk, segments, workers, flushing, flusher, loading
<1>1. QueueInv' /\ VersionInv' /\ TodoInv' /\ MemInv' /\ ReplayInv'
    BY Zenon, <1>0, QueueStable, VersionStable, TodoStable, MemStable, ReplayStable
<1>2. ModeInv' /\ PointInv'
    BY Zenon, <1>0, LogSame DEF ModeInv, PointInv
<1>3. SavedInv' /\ FirstInv'
    BY Zenon, <1>0, LogSame DEF SavedInv, FirstInv, BelowFailed, Saved
<1>4. FlushInv'
    BY Zenon, <1>0 DEF FlushInv
<1>5. ReadInv' /\ AckInv'
    BY Zenon, <1>0, LogSame DEF ReadInv, AckInv, BelowFailed, Saved, Confirmable
<1> QED
    BY Zenon, <1>1, <1>2, <1>3, <1>4, <1>5 DEF IInv

\* The version flush_segments returns, lowered by wal_keep_from, is one below
\* which every operation is on disk.
LEMMA ConfirmStep ==
    ASSUME IInv, Confirm, TypeOK'
    PROVE  IInv'
<1>0. /\ TypeOK /\ QueueInv /\ ModeInv /\ PointInv /\ VersionInv /\ TodoInv /\ MemInv
      /\ SavedInv /\ FirstInv /\ FlushInv /\ ReadInv /\ AckInv /\ ReplayInv
    BY Zenon DEF IInv
<1> USE DEF Confirm, log, disk, segments, workers, flushing, flusher, loading
<1>0a. mode = "up" /\ fpc = "read" /\ unread = {}
    BY Zenon
<1>1. /\ QueueInv' /\ PointInv' /\ VersionInv' /\ TodoInv' /\ MemInv' /\ SavedInv'
      /\ FirstInv' /\ FlushInv' /\ ReplayInv'
    BY ZenonT(40), <1>0, QueueStable, PointStable, VersionStable, TodoStable, MemStable,
       SavedStable, FirstStable, FlushStable, ReplayStable
<1>2. ModeInv' /\ ReadInv'
    BY Zenon, <1>0 DEF ModeInv, ReadInv
<1>3. AckInv'
  <2>1. CASE fpc' = "ack"
    <3>1. /\ ack' <= FlushedVersion /\ (\A f \in failed : ack' <= f)
          /\ ack' <= max_persisted /\ ack' <= Started
      <4>1. PICK v \in failed \cup {FlushedVersion} :
                  ConfirmedVersion(v) /\ ack' = Min(v, keep_from - 1)
          BY Zenon, <2>1
      <4> HIDE DEF Confirm
      <4>2. FlushedVersion <= max_persisted /\ max_persisted <= Started
        <5>1. max_persisted <= Started /\ (min_unsaved # Unbounded => min_unsaved <= max_persisted)
            BY Zenon, <1>0, <1>0a DEF ReadInv
        <5>2. max_persisted \in Nat
            BY Zenon, <1>0 DEF TypeOK
        <5> QED
            BY <5>1, <5>2 DEF FlushedVersion
      <4> QED
        <5>1. /\ v \in Nat /\ v <= FlushedVersion /\ \A f \in failed : f \in Nat /\ v <= f
              /\ FlushedVersion \in Nat /\ max_persisted \in Nat /\ keep_from \in Nat
            BY Zenon, <1>0, <4>1 DEF ConfirmedVersion, IsLeast, TypeOK, FlushedVersion
        <5>2. ack' <= v /\ ack' \in Nat
            BY <4>1, <5>1 DEF Min, TypeOK
        <5>3. Started \in Nat
            BY Zenon, <1>0, StartedBounds
        <5> QED
            BY <4>2, <5>1, <5>2, <5>3
    <3>2. ASSUME NEW p \in Point, NEW i \in 0..MaxOps, LastDone(i, p), i < ack'
          PROVE  Saved(i, p)
      <4> HIDE DEF Confirm
      <4>0. /\ ack' \in Nat /\ FlushedVersion \in Nat /\ max_persisted \in Nat
            /\ failed \subseteq Nat /\ uop \in Nat /\ Started \in Nat
          BY Zenon, <1>0, StartedBounds DEF TypeOK, FlushedVersion
      <4>1. BelowFailed(i) /\ Confirmable(i) /\ i < FlushedVersion
        <5>1. \A f \in failed : i < f
            BY <3>1, <3>2, <4>0
        <5>2. ures = "err" => i < uop
            BY <1>0, <3>1, <3>2, <4>0, ResultStarted
        <5>3. i < FlushedVersion /\ i < max_persisted
            BY <3>1, <3>2, <4>0
        <5> QED
            BY Zenon, <5>1, <5>2, <5>3 DEF BelowFailed, Confirmable
      <4>2. CASE min_unsaved <= disk_ver[Home[p]]
        <5>1. /\ Home[p] \in Segment /\ disk_ver[Home[p]] \in Nat
              /\ disk_ver[Home[p]] < Unbounded
              /\ min_unsaved \in Nat /\ job_ver[Home[p]] \in Nat
            BY Zenon, <1>0, HomeType, VersionBounds DEF TypeOK
        <5>2. i <= disk_ver[Home[p]]
          <6>1. min_unsaved # Unbounded
              BY <4>2, <5>1, UnboundedType
          <6>2. FlushedVersion = min_unsaved
              BY Zenon, <6>1 DEF FlushedVersion
          <6> QED
              BY <4>1, <4>2, <5>1, <6>2
        <5>3. Home[p] \in jobs => i <= job_ver[Home[p]]
          <6>1. Home[p] \in jobs => disk_ver[Home[p]] < job_ver[Home[p]]
              BY Zenon, <1>0, <1>0a DEF FlushInv
          <6> QED
              BY <5>1, <5>2, <6>1
        <5> QED
            BY Zenon, <1>0, <1>0a, <3>2, <4>1, <5>2, <5>3 DEF SavedInv, Saved
      <4>3. CASE ~(min_unsaved <= disk_ver[Home[p]])
          BY Zenon, <1>0, <1>0a, <3>2, <4>1, <4>3 DEF ReadInv
      <4> QED
          BY Zenon, <4>2, <4>3
    <3> QED
      BY Zenon, <1>0, <3>1, <3>2, LogSame DEF AckInv, Saved
  <2>2. CASE fpc' # "ack"
      BY Zenon, <2>2 DEF AckInv
  <2> QED
      BY Zenon, <2>1, <2>2
<1> QED
    BY Zenon, <1>1, <1>2, <1>3 DEF IInv

\* flush_all captures, under the read locks of all segments, flushers that cover
\* the versions they carry.
LEMMA FlushAllStep ==
    ASSUME IInv, FlushAll, TypeOK'
    PROVE  IInv'
<1>0. /\ TypeOK /\ QueueInv /\ ModeInv /\ PointInv /\ VersionInv /\ TodoInv /\ MemInv
      /\ SavedInv /\ FirstInv /\ FlushInv /\ ReadInv /\ AckInv /\ ReplayInv
    BY Zenon DEF IInv
<1> USE DEF FlushAll, log, disk, segments, workers, flushing, flusher, loading
<1>1. QueueInv' /\ VersionInv' /\ TodoInv' /\ MemInv' /\ ReplayInv'
    BY Zenon, <1>0, QueueStable, VersionStable, TodoStable, MemStable, ReplayStable
<1>2. CASE UNCHANGED flushing
  <2>1. PointInv' /\ SavedInv' /\ FirstInv' /\ FlushInv' /\ AckInv'
      BY Zenon, <1>0, <1>2, PointStable, SavedStable, FirstStable, FlushStable DEF AckInv
  <2>2. ModeInv'
      BY Zenon, <1>0, <1>2 DEF ModeInv
  <2>3. ReadInv'
      BY Zenon, <1>0, HomeType, LogSame DEF ReadInv, VersionInv, ModeInv
  <2> QED
      BY Zenon, <1>1, <2>1, <2>2, <2>3 DEF IInv
<1>3. CASE thread = "failed"
  <2>1. UNCHANGED <<jobs, wrote, job_ver, job_pts, fpc, unread, min_unsaved, max_persisted, ack>>
      BY Zenon, <1>3
  <2>2. /\ PointInv' /\ SavedInv' /\ FirstInv' /\ FlushInv' /\ AckInv' /\ ReadInv'
        /\ ModeInv'
      BY Zenon, <1>0, <2>1, PointStable, SavedStable, FirstStable, FlushStable, AckStable,
         ReadStable, ModeStable
  <2> QED
      BY Zenon, <1>1, <2>2 DEF IInv
<1>4. CASE thread # "failed" /\ Capture(FALSE)
  <2>0. /\ mode = "up" /\ fpc' = "read" /\ unread' = Segment /\ max_persisted' = overwrite
        /\ min_unsaved' = Unbounded
        /\ jobs' = {s \in Segment : NeedsFlush(s, FALSE)} /\ wrote' = {}
        /\ job_ver' = mem_ver /\ job_pts' = mem_pts
      BY Zenon, <1>4 DEF Capture
  <2>1. ModeInv'
      BY Zenon, <1>0, <2>0 DEF ModeInv
  <2>2. PointInv'
      BY Zenon, <1>0, <2>0, LogSame DEF PointInv
  <2>3. SavedInv'
      BY ZenonT(40), <1>0, <2>0, LogSame DEF SavedInv, MemInv, BelowFailed
  <2>4. FirstInv'
    <3>1. \A i \in 0..MaxOps : i < first_index => BelowFailed(i)
      <4> HIDE DEF FlushAll
      <4>1. failed \subseteq Nat /\ uop \in Nat /\ Started \in Nat /\ first_index \in Nat
          BY Zenon, <1>0, StartedBounds DEF TypeOK
      <4>2. ures = "err" => first_index <= uop
          BY Zenon, <1>0, ResultStarted DEF VersionInv
      <4> QED
          BY <1>0, <4>1, <4>2 DEF VersionInv, BelowFailed
    <3> QED
        BY Zenon, <1>0, <2>0, <3>1, LogSame DEF FirstInv, MemInv, Saved
  <2>5. FlushInv'
    <3>1. \A s \in jobs' : disk_ver[s] < mem_ver[s] /\ mem_ver[s] <= mem_ver[s]
      <4> HIDE DEF FlushAll
      <4>1. ASSUME NEW s \in Segment, NeedsFlush(s, FALSE)
            PROVE  disk_ver[s] < mem_ver[s] /\ mem_ver[s] <= mem_ver[s]
          BY <1>0, <4>1, VersionBounds DEF NeedsFlush
      <4> QED
          BY Zenon, <2>0, <4>1
    <3>2. \A p \in Point : mem_ver[Home[p]] = disk_ver[Home[p]] => disk_pts[p] = mem_pts[p]
        BY Zenon, <1>0, <2>0 DEF FlushInv
    <3> QED
        BY Zenon, <2>0, <3>1, <3>2 DEF FlushInv
  <2>6. ReadInv' /\ AckInv'
      BY Zenon, <1>0, <2>0, HomeType, LogSame DEF ReadInv, VersionInv, AckInv
  <2> QED
      BY Zenon, <1>1, <2>1, <2>2, <2>3, <2>4, <2>5, <2>6 DEF IInv
<1> QED
    BY Zenon, <1>2, <1>3, <1>4

\* get_max_persisted_version reads the versions of one more segment: what the
\* segment has not saved lowers the result below it.
LEMMA ReadSegmentStep ==
    ASSUME IInv, NEW s \in Segment, ReadSegment(s), TypeOK'
    PROVE  IInv'
<1>0. /\ TypeOK /\ QueueInv /\ ModeInv /\ PointInv /\ VersionInv /\ TodoInv /\ MemInv
      /\ SavedInv /\ FirstInv /\ FlushInv /\ ReadInv /\ AckInv /\ ReplayInv
    BY Zenon DEF IInv
<1> USE DEF ReadSegment, log, disk, segments, workers, flushing, flusher, loading
<1>1. /\ QueueInv' /\ ModeInv' /\ PointInv' /\ VersionInv' /\ TodoInv' /\ MemInv'
      /\ SavedInv' /\ FirstInv' /\ FlushInv' /\ ReplayInv'
    BY ZenonT(40), <1>0, QueueStable, ModeStable, PointStable, VersionStable, TodoStable,
       MemStable, SavedStable, FirstStable, FlushStable, ReplayStable
<1>2. AckInv'
    BY Zenon, <1>0 DEF AckInv
<1>0a. /\ mode = "up" /\ fpc = "read"
       /\ min_unsaved' = IF mem_ver[s] > disk_ver[s]
                         THEN Min(min_unsaved, disk_ver[s]) ELSE min_unsaved
       /\ max_persisted' = Max(max_persisted, disk_ver[s])
       /\ s \in unread /\ unread' = unread \ {s}
    BY Zenon
<1>0b. UNCHANGED <<log, failed, mem_ver, disk_ver, disk_pts, jobs, job_pts>>
    BY Zenon
<1> HIDE DEF ReadSegment
<1>3. ReadInv'
  <2>0. /\ disk_ver[s] \in Nat /\ mem_ver[s] \in Nat /\ disk_ver[s] <= mem_ver[s]
        /\ disk_ver[s] < Unbounded /\ disk_ver[s] <= Started /\ Started \in Nat
        /\ min_unsaved \in Nat /\ max_persisted \in Nat /\ Unbounded \in Nat
      BY ZenonT(40), <1>0, VersionBounds, StartedBounds, UnboundedType DEF TypeOK
  <2>1. /\ max_persisted' <= Started /\ max_persisted <= max_persisted'
        /\ disk_ver[s] <= max_persisted'
      BY <1>0, <1>0a, <2>0 DEF Max, ReadInv
  <2>2. /\ min_unsaved' <= min_unsaved /\ (min_unsaved' # Unbounded => min_unsaved' <= max_persisted')
        /\ mem_ver[s] > disk_ver[s] => min_unsaved' <= disk_ver[s]
    <3>1. min_unsaved # Unbounded => min_unsaved <= max_persisted'
      <4>1. min_unsaved # Unbounded => min_unsaved <= max_persisted
          BY Zenon, <1>0, <1>0a DEF ReadInv
      <4>2. max_persisted' \in Nat
          BY Zenon DEF TypeOK
      <4> QED
          BY <2>0, <2>1, <4>1, <4>2
    <3>2. CASE mem_ver[s] > disk_ver[s]
        BY <1>0a, <2>0, <2>1, <3>1, <3>2 DEF Min
    <3>3. CASE ~(mem_ver[s] > disk_ver[s])
        BY <1>0a, <2>0, <2>1, <3>1, <3>3
    <3> QED
        BY Zenon, <3>2, <3>3
  <2>3. ASSUME NEW i \in 0..MaxOps, Confirmable(i)'
        PROVE  Confirmable(i)
    <3>1. CASE i < max_persisted'
        BY <1>0a, <2>0, <3>1 DEF Confirmable, Max
    <3>2. CASE \E t \in unread' : i < mem_ver[t]
        BY Zenon, <1>0a, <3>2 DEF Confirmable
    <3> QED
        BY Zenon, <1>0b, <2>3, <3>1, <3>2 DEF Confirmable
  <2>4. ASSUME NEW p \in Point, Home[p] \notin unread', ~(min_unsaved' <= disk_ver[Home[p]]),
               NEW i \in 0..MaxOps, LastDone(i, p), BelowFailed(i), Confirmable(i)'
        PROVE  Saved(i, p)
    <3>1. CASE Home[p] = s
      <4>1. mem_ver[s] = disk_ver[s]
          BY <2>0, <2>2, <2>4, <3>1
      <4>2. disk_pts[p] = mem_pts[p] /\ s \notin jobs
        <5>2. s \in jobs => disk_ver[s] < job_ver[s] /\ job_ver[s] <= mem_ver[s]
            BY Zenon, <1>0, <1>0a DEF FlushInv
        <5>3. job_ver[s] \in Nat
            BY Zenon, <1>0 DEF TypeOK
        <5>4. s \notin jobs
            BY <2>0, <4>1, <5>2, <5>3
        <5> QED
            BY Zenon, <1>0, <1>0a, <3>1, <4>1, <5>4 DEF FlushInv
      <4> QED
          BY Zenon, <1>0, <1>0a, <2>4, <3>1, <4>2 DEF MemInv, Saved
    <3>2. CASE Home[p] # s
      <4>1. ~(min_unsaved <= disk_ver[Home[p]])
        <5>1. disk_ver[Home[p]] \in Nat /\ min_unsaved' \in Nat
            BY Zenon, <1>0, HomeType, VersionBounds DEF TypeOK
        <5> QED
            BY <2>0, <2>2, <2>4, <5>1
      <4> QED
          BY Zenon, <1>0, <1>0a, <2>3, <2>4, <3>2, <4>1 DEF ReadInv
    <3> QED
        BY Zenon, <3>1, <3>2
  <2> QED
      BY Zenon, <1>0b, <2>1, <2>2, <2>4, LogSame DEF ReadInv, Saved
<1> QED
    BY Zenon, <1>1, <1>2, <1>3 DEF IInv

\* SerdeWal::ack moves the first index only over operations that are on disk.
LEMMA AckStep ==
    ASSUME IInv, Ack, TypeOK'
    PROVE  IInv'
<1>0. /\ TypeOK /\ QueueInv /\ ModeInv /\ PointInv /\ VersionInv /\ TodoInv /\ MemInv
      /\ SavedInv /\ FirstInv /\ FlushInv /\ ReadInv /\ AckInv /\ ReplayInv
    BY Zenon DEF IInv
<1>0b. Acknowledge(ack) /\ fpc = "ack"
    BY Zenon DEF Ack
<1>0a. /\ first_index' = first_index \/ first_index' <= ack
       /\ first_index <= first_index'
  <2>1. first_index \in Nat /\ ack \in Nat /\ Len(wal) \in Nat /\ first_index <= Len(wal)
    <3>1. first_index \in Nat /\ ack \in Nat
        BY Zenon, <1>0 DEF TypeOK
    <3>2. first_index <= Started
        BY Zenon, <1>0 DEF VersionInv
    <3>3. Started \in Nat /\ Started <= Len(wal) /\ Len(wal) \in Nat
        BY Zenon, <1>0, StartedBounds
    <3> QED
        BY <3>1, <3>2, <3>3
  <2> QED
      BY <1>0b, <2>1 DEF Acknowledge, LastIndex, Min, Max
<1> USE DEF Ack, log, disk, segments, workers, flushing, flusher, loading
<1>1. QueueInv' /\ PointInv' /\ TodoInv' /\ MemInv' /\ SavedInv' /\ FlushInv'
    BY Zenon, <1>0, QueueStable, PointStable, TodoStable, MemStable, SavedStable, FlushStable
<1>2. ModeInv' /\ ReplayInv' /\ ReadInv' /\ AckInv'
    BY ZenonT(40), <1>0, LogSame DEF ModeInv, ReplayInv, ReadInv, AckInv
<1>3. VersionInv'
  <2>0. UNCHANGED <<log, disk_ver, mem_ver, overwrite, failed>>
      BY Zenon
  <2> HIDE DEF Ack
  <2>1. first_index' \in Nat /\ ack \in Nat /\ Started \in Nat /\ failed \in SUBSET Nat
      BY Zenon, <1>0, StartedBounds DEF TypeOK
  <2> QED
      BY <1>0, <1>0a, <1>0b, <2>0, <2>1, LogSame DEF VersionInv, AckInv
<1>4. FirstInv'
  <2>1. ASSUME NEW i \in 0..MaxOps, i < first_index'
        PROVE  i < first_index \/ i < ack
    <3> HIDE DEF Ack
    <3>1. first_index \in Nat /\ ack \in Nat /\ first_index' \in Nat
        BY Zenon, <1>0 DEF TypeOK
    <3> QED
        BY <1>0a, <2>1, <3>1
  <2> QED
      BY Zenon, <1>0, <2>1, LogSame DEF FirstInv, AckInv, Saved
<1> QED
    BY Zenon, <1>1, <1>2, <1>3, <1>4 DEF IInv

\* A flusher that writes the components of a segment before its version keeps
\* what is saved saved.
LEMMA FlushComponentsStep ==
    ASSUME IInv, NEW s \in Segment, FlushComponents(s), TypeOK'
    PROVE  IInv'
<1>0. /\ TypeOK /\ QueueInv /\ ModeInv /\ PointInv /\ VersionInv /\ TodoInv /\ MemInv
      /\ SavedInv /\ FirstInv /\ FlushInv /\ ReadInv /\ AckInv /\ ReplayInv
    BY Zenon DEF IInv
<1> USE DEF FlushComponents, log, disk, segments, workers, flushing, flusher, loading
<1>0a. \A p \in Point : disk_pts'[p] = IF Home[p] = s THEN job_pts[p] ELSE disk_pts[p]
    BY Zenon
<1>1. QueueInv' /\ VersionInv' /\ TodoInv' /\ MemInv'
    BY Zenon, <1>0, QueueStable, VersionStable, TodoStable, MemStable
<1>2. ModeInv' /\ ReplayInv'
    BY Zenon, <1>0 DEF ModeInv, ReplayInv
<1>3. PointInv'
    BY Zenon, <1>0, <1>0a, LogSame DEF PointInv
<1>4. ASSUME NEW p \in Point, NEW i, Saved(i, p)
      PROVE  Saved(i, p)'
    BY Zenon, <1>0a, <1>4, LogSame DEF Saved
<1>5. FirstInv' /\ AckInv'
    BY Zenon, <1>0, <1>4, LogSame DEF FirstInv, AckInv
<1>6. ReadInv'
    BY Zenon, <1>0, <1>4, LogSame DEF ReadInv, BelowFailed, Confirmable
<1>7. SavedInv'
  <2>1. mode = "up" => disk_ver[s] \in Nat /\ job_ver[s] \in Nat /\ disk_ver[s] < job_ver[s]
      BY Zenon, <1>0 DEF FlushInv, TypeOK
  <2>2. ASSUME mode = "up", NEW i \in 0..MaxOps, i <= disk_ver[s]
        PROVE  i <= job_ver[s]
    <3> HIDE DEF FlushComponents
    <3> QED
        BY <2>1, <2>2
  <2> QED
      BY ZenonT(40), <1>0, <1>0a, <2>2, LogSame DEF SavedInv, BelowFailed
<1>8. FlushInv'
  <2>1. mode = "up" => disk_ver[s] # mem_ver[s]
    <3>1. /\ disk_ver[s] \in Nat /\ job_ver[s] \in Nat /\ mem_ver[s] \in Nat
          /\ mode = "up" => disk_ver[s] < job_ver[s] /\ job_ver[s] <= mem_ver[s]
        BY Zenon, <1>0 DEF FlushInv, TypeOK
    <3> HIDE DEF FlushComponents
    <3> QED
        BY <3>1
  <2> QED
      BY Zenon, <1>0, <1>0a, <2>1 DEF FlushInv
<1> QED
    BY Zenon, <1>1, <1>2, <1>3, <1>5, <1>6, <1>7, <1>8 DEF IInv

\* The version a flusher writes last is covered by the components it wrote.
LEMMA FlushStateStep ==
    ASSUME IInv, NEW s \in Segment, FlushState(s), TypeOK'
    PROVE  IInv'
<1>0. /\ TypeOK /\ QueueInv /\ ModeInv /\ PointInv /\ VersionInv /\ TodoInv /\ MemInv
      /\ SavedInv /\ FirstInv /\ FlushInv /\ ReadInv /\ AckInv /\ ReplayInv
    BY Zenon DEF IInv
<1>00. /\ s \in jobs /\ mode \in {"up", "flush"}
       /\ disk_ver' = [disk_ver EXCEPT ![s] = Max(disk_ver[s], job_ver[s])]
    BY Zenon, <1>0 DEF FlushState, ModeInv
<1>0a. /\ disk_ver[s] \in Nat /\ mem_ver[s] \in Nat /\ job_ver[s] \in Nat
       /\ job_ver[s] <= mem_ver[s] /\ disk_ver[s] <= mem_ver[s]
       /\ mode = "up" => disk_ver[s] < job_ver[s]
  <2>1. disk_ver[s] \in Nat /\ mem_ver[s] \in Nat /\ job_ver[s] \in Nat
      BY Zenon, <1>0 DEF TypeOK
  <2>2. \/ mode = "up" /\ disk_ver[s] < job_ver[s] /\ job_ver[s] <= mem_ver[s]
        \/ mode = "flush" /\ job_ver[s] = mem_ver[s]
      BY Zenon, <1>0, <1>00 DEF FlushInv
  <2>3. disk_ver[s] <= mem_ver[s]
      BY Zenon, <1>0 DEF VersionInv
  <2> QED
      BY <2>1, <2>2, <2>3
<1>0b. /\ disk_ver[s] <= disk_ver'[s] /\ disk_ver'[s] <= mem_ver[s]
       /\ mode = "up" => disk_ver'[s] = job_ver[s]
       /\ \A t \in Segment : t # s => disk_ver'[t] = disk_ver[t]
  <2>1. disk_ver \in [Segment -> Nat]
      BY Zenon, <1>0 DEF TypeOK
  <2> QED
      BY <1>00, <1>0a, <2>1 DEF Max
<1> USE DEF FlushState, log, disk, segments, workers, flushing, flusher, loading
<1>1. QueueInv' /\ TodoInv' /\ MemInv'
    BY Zenon, <1>0, QueueStable, TodoStable, MemStable
<1>2. ModeInv' /\ ReplayInv' /\ PointInv'
    BY Zenon, <1>0, LogSame DEF ModeInv, ReplayInv, PointInv
<1>3. VersionInv'
    BY Zenon, <1>0, <1>0b, LogSame DEF VersionInv
<1>4. ASSUME NEW p \in Point, NEW i, Saved(i, p)
      PROVE  Saved(i, p)'
    BY Zenon, <1>4, LogSame DEF Saved
<1>5. FirstInv' /\ AckInv'
    BY Zenon, <1>0, <1>4, LogSame DEF FirstInv, AckInv
<1>6. ReadInv'
  <2>1. ASSUME NEW t \in Segment, min_unsaved <= disk_ver[t]
        PROVE  min_unsaved <= disk_ver'[t]
    <3>1. min_unsaved \in Nat /\ disk_ver'[s] \in Nat
        BY Zenon, <1>0 DEF TypeOK
    <3> HIDE DEF FlushState
    <3>2. CASE t = s
        BY <1>0a, <1>0b, <2>1, <3>1, <3>2
    <3>3. CASE t # s
        BY Zenon, <1>0b, <2>1, <3>3
    <3> QED
        BY Zenon, <3>2, <3>3
  <2> QED
      BY Zenon, <1>0, <1>4, <2>1, HomeType, LogSame DEF ReadInv, BelowFailed, Confirmable
<1>7. SavedInv'
  <2>1. UNCHANGED <<log, mode, failed, disk_pts, job_ver, job_pts>> /\ s \in wrote
        /\ jobs' = jobs \ {s}
      BY Zenon
  <2>2. ASSUME mode = "up", NEW p \in Point, NEW i \in 0..MaxOps, LastDone(i, p),
               BelowFailed(i), i <= disk_ver'[Home[p]]
        PROVE  disk_pts[p] = Eff(i)
    <3> HIDE DEF FlushState
    <3>1. CASE Home[p] = s
      <4>1. disk_pts[p] = job_pts[p]
          BY Zenon, <1>0, <2>1, <3>1 DEF FlushInv
      <4>2. i <= job_ver[Home[p]] /\ Home[p] \in jobs
          BY Zenon, <1>00, <1>0b, <2>2, <3>1
      <4>3. job_pts[p] = Eff(i)
          BY Zenon, <1>0, <2>2, <4>2 DEF SavedInv
      <4> QED
          BY Zenon, <4>1, <4>3
    <3>2. CASE Home[p] # s
        BY Zenon, <1>0, <1>0b, <2>2, <3>2, HomeType DEF SavedInv
    <3> QED
        BY Zenon, <3>1, <3>2
  <2> HIDE DEF FlushState
  <2> QED
      BY Zenon, <1>0, <2>1, <2>2, LogSame DEF SavedInv
<1>8. FlushInv'
  <2>1. s \in jobs /\ s \in wrote /\ jobs' = jobs \ {s} /\ wrote' = wrote \ {s}
      BY Zenon, <1>00
  <2>2. CASE mode = "up"
    <3>1. \A t \in jobs' : disk_ver'[t] < job_ver[t] /\ job_ver[t] <= mem_ver[t]
        BY Zenon, <1>0, <1>0b, <2>1, <2>2 DEF FlushInv, TypeOK
    <3>2. ASSUME NEW p \in Point, mem_ver[Home[p]] = disk_ver'[Home[p]]
          PROVE  disk_pts[p] = mem_pts[p]
        BY ZenonT(40), <1>0, <1>0a, <1>0b, <2>1, <2>2, <3>2, HomeType DEF FlushInv
    <3> QED
        BY Zenon, <1>0, <2>1, <2>2, <3>1, <3>2 DEF FlushInv
  <2>3. CASE mode # "up"
      BY Zenon, <1>0, <2>1, <2>3 DEF FlushInv
  <2> QED
      BY Zenon, <2>2, <2>3
<1> QED
    BY Zenon, <1>1, <1>2, <1>3, <1>5, <1>6, <1>7, <1>8 DEF IInv
=============================================================================
