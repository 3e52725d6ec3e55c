------------------------- MODULE LocalShardUpdates --------------------------
(***************************************************************************)
(* The invariant of LocalShardInvariant is kept by clients, the update worker *)
(* and truncate_unapplied_wal: one lemma for each action.                  *)
(***************************************************************************)
EXTENDS LocalShardFlush

\* A step that begins or queues operations but does none.
LEMMA LogForward ==
    ASSUME PointInv, MemInv, SavedInv, FirstInv, ReadInv, AckInv, mode = "up",
           Started \in Nat, Started' = Started \/ Started' = Started + 1, TypeOK,
           UNCHANGED <<mode, failed, disk_ver, disk_pts, mem_ver, mem_pts, jobs,
                       job_ver, job_pts, first_index, fpc, unread, min_unsaved,
                       max_persisted, ack>>,
           \A i \in 0..MaxOps : BelowFailed(i)' => BelowFailed(i),
           \A i \in 0..MaxOps, p \in Point : Done(i, p)' <=> Done(i, p),
           \A i \in 0..MaxOps : i <= Started => Eff(i)' = Eff(i),
           \A v \in Nat, p \in Point : PointVersion(v, p) => PointVersion(v, p)'
    PROVE  PointInv' /\ MemInv' /\ SavedInv' /\ FirstInv' /\ ReadInv' /\ AckInv'
<1>0. \A n \in Nat : n <= Started => n <= Started'
    OBVIOUS
<1>1. \A i \in 0..MaxOps, p \in Point : LastDone(i, p)' => LastDone(i, p) /\ i <= Started
    BY Zenon DEF LastDone, Done
<1>2. PointInv'
    BY Zenon DEF PointInv, TypeOK
<1>3. MemInv' /\ SavedInv' /\ FirstInv'
  <2>1. MemInv'
      BY Zenon, <1>1 DEF MemInv
  <2>2. SavedInv'
      BY Zenon, <1>1 DEF SavedInv
  <2>3. FirstInv'
      BY Zenon, <1>1 DEF FirstInv, Saved
  <2> QED
      BY Zenon, <2>1, <2>2, <2>3
<1>4. ReadInv'
  <2>1. max_persisted <= Started => max_persisted <= Started'
      BY Zenon, <1>0 DEF TypeOK
  <2> QED
      BY ZenonT(40), <1>1, <2>1 DEF ReadInv, Saved, Confirmable
<1>5. AckInv'
  <2>1. ack <= Started => ack <= Started'
      BY Zenon, <1>0 DEF TypeOK
  <2> QED
      BY Zenon, <1>1, <2>1 DEF AckInv, Saved
<1> QED
    BY Zenon, <1>2, <1>3, <1>4, <1>5

\* Beginning an operation adds just this one to the operations begun.
LEMMA OneMore ==
    ASSUME Started \in Nat, Started' = Started + 1, wal' = wal
    PROVE  /\ \A i \in 0..MaxOps : i <= Started' <=> i <= Started \/ i = Started'
           /\ ~(Started' <= Started)
           /\ \A v \in Nat, p \in Point : PointVersion(v, p) => PointVersion(v, p)'
<1>1. 1..Started \subseteq 1..Started'
    OBVIOUS
<1>2. \A v \in Nat, p \in Point : PointVersion(v, p) => PointVersion(v, p)'
    BY Zenon, <1>1 DEF PointVersion
<1> QED
    BY <1>2

\* LocalShard::update appends and queues an operation without beginning it.
LEMMA UpdateStep ==
    ASSUME IInv, NEW op \in Ops, Update(op), TypeOK'
    PROVE  IInv'
<1>0. /\ TypeOK /\ QueueInv /\ ModeInv /\ PointInv /\ VersionInv /\ TodoInv /\ MemInv
      /\ SavedInv /\ FirstInv /\ FlushInv /\ ReadInv /\ AckInv /\ ReplayInv
    BY ZenonT(40) DEF IInv
<1> USE DEF Update, log, disk, segments, workers, flushing, flusher, loading
<1>1. /\ Len(wal') = Len(wal) + 1 /\ \A i \in 1..Len(wal) : wal'[i] = wal[i]
      /\ Len(queue') = Len(queue) + 1 /\ \A i \in 1..Len(queue) : queue'[i] = queue[i]
      /\ queue'[Len(queue) + 1] = Len(wal) + 1
      /\ Len(wal) \in Nat /\ Len(queue) \in Nat
    BY <1>0, AppendProperties, LenProperties DEF TypeOK
<1>2. Started' = Started /\ Started \in Nat /\ Started <= Len(wal)
    BY <1>0, <1>1, StartedBounds DEF Started
<1>3. \A i \in 0..MaxOps, p \in Point : Done(i, p)' <=> Done(i, p)
    BY <1>1, <1>2 DEF Done, Touch
<1>4. \A i \in 0..MaxOps : i <= Started => Eff(i)' = Eff(i)
    BY <1>1, <1>2 DEF Eff, Effect
<1>5. \A v \in Nat, p \in Point : PointVersion(v, p) => PointVersion(v, p)'
    BY <1>1, <1>2 DEF PointVersion
<1>6. PointInv' /\ MemInv' /\ SavedInv' /\ FirstInv' /\ ReadInv' /\ AckInv'
  <2>2. \A i \in 0..MaxOps : BelowFailed(i)' => BelowFailed(i)
      BY Zenon DEF BelowFailed
  <2> QED
      BY Zenon, <2>2, <1>0, <1>2, <1>3, <1>4, <1>5, LogForward
<1>7. QueueInv'
  <2>1. \A k \in 1..Len(queue') : queue'[k] = Len(wal') - Len(queue') + k
    <3>1. \A k \in 1..Len(queue) : queue'[k] = Len(wal) - Len(queue) + k
        BY Zenon, <1>0, <1>1 DEF QueueInv
    <3> QED
        BY <1>1, <3>1
  <2>2. lock = "upd" => wal'[uop] = wal[uop]
      BY <1>0, <1>1 DEF QueueInv, TypeOK
  <2> QED
      BY <1>0, <1>1, <2>1, <2>2 DEF QueueInv
<1>8. ModeInv' /\ VersionInv' /\ TodoInv' /\ FlushInv' /\ ReplayInv'
    BY Zenon, <1>0, <1>2 DEF ModeInv, VersionInv, TodoInv, FlushInv, ReplayInv
<1> QED
    BY Zenon, <1>6, <1>7, <1>8 DEF IInv

\* The update worker receives an operation without beginning it.
LEMMA TakeSignalStep ==
    ASSUME IInv, TakeSignal, TypeOK'
    PROVE  IInv'
<1>0. /\ TypeOK /\ QueueInv /\ ModeInv /\ PointInv /\ VersionInv /\ TodoInv /\ MemInv
      /\ SavedInv /\ FirstInv /\ FlushInv /\ ReadInv /\ AckInv /\ ReplayInv
    BY Zenon DEF IInv
<1> USE DEF TakeSignal, log, disk, segments, workers, flushing, flusher, loading
<1>0a. mode = "up" /\ lock = "none" /\ todo = {} /\ ures = "none" /\ ures' = "none"
    BY ZenonT(40), <1>0 DEF ModeInv, QueueInv, TypeOK
<1>1. /\ Len(queue) \in Nat \ {0} /\ Len(queue') = Len(queue) - 1
      /\ \A k \in 1..Len(queue') : queue'[k] = queue[k + 1]
      /\ uop' = queue[1] /\ Len(wal) \in Nat
    BY <1>0, HeadTailProperties, LenProperties, EmptySeq DEF TypeOK
<1>1a. uop' = Len(wal) - Len(queue) + 1 /\ Len(queue) <= Len(wal)
    BY <1>0, <1>1 DEF QueueInv
<1>2. Started' = Started /\ Started \in Nat /\ Started <= Len(wal)
    BY <1>0, <1>0a, <1>1, <1>1a, StartedBounds DEF Started
<1>3. \A i \in 0..MaxOps, p \in Point : Done(i, p)' <=> Done(i, p)
    BY Zenon, <1>0a, <1>2 DEF Done, Touch
<1>4. \A i \in 0..MaxOps : i <= Started => Eff(i)' = Eff(i)
    BY Zenon DEF Eff, Effect
<1>5. \A v \in Nat, p \in Point : PointVersion(v, p) => PointVersion(v, p)'
    BY Zenon, <1>2 DEF PointVersion
<1>6. PointInv' /\ MemInv' /\ SavedInv' /\ FirstInv' /\ ReadInv' /\ AckInv'
  <2>2. \A i \in 0..MaxOps : BelowFailed(i)' => BelowFailed(i)
      BY Zenon, <1>0, <1>0a DEF BelowFailed
  <2> QED
      BY Zenon, <2>2, <1>0, <1>0a, <1>2, <1>3, <1>4, <1>5, LogForward
<1>7. QueueInv'
    BY <1>0, <1>0a, <1>1, <1>1a DEF QueueInv
<1>8. VersionInv'
  <2>1. \A f \in failed : f <= Started => f < uop'
      BY <1>0, <1>0a, <1>1, <1>1a, <1>2 DEF Started, TypeOK
  <2> QED
      BY ZenonT(40), <1>0, <1>2, <2>1 DEF VersionInv
<1>9. ModeInv' /\ TodoInv' /\ FlushInv' /\ ReplayInv'
    BY Zenon, <1>0, <1>0a DEF ModeInv, TodoInv, FlushInv, ReplayInv
<1> QED
    BY Zenon, <1>6, <1>7, <1>8, <1>9 DEF IInv

\* The update worker takes the update lock: the operation begins, and none of its
\* points is done.
LEMMA BeginUpdateStep ==
    ASSUME IInv, BeginUpdate, TypeOK'
    PROVE  IInv'
<1>0. /\ TypeOK /\ QueueInv /\ ModeInv /\ PointInv /\ VersionInv /\ TodoInv /\ MemInv
      /\ SavedInv /\ FirstInv /\ FlushInv /\ ReadInv /\ AckInv /\ ReplayInv
    BY Zenon DEF IInv
<1>00. uop # 0
  <2>1. uop \in 1..LastIndex
      BY Zenon DEF BeginUpdate
  <2> QED
      BY <2>1
<1> USE DEF BeginUpdate, log, disk, segments, workers, flushing, flusher, loading
<1>0a. /\ mode = "up" /\ lock = "none" /\ todo = {} /\ uop # 0 /\ uop \in Nat
       /\ uop = Len(wal) - Len(queue) /\ Len(wal) \in Nat /\ Len(queue) \in Nat
       /\ lock' = "upd" /\ todo' = wal[uop].points
    BY ZenonT(40), <1>00, <1>0, LenProperties DEF QueueInv, TypeOK
<1>2. Started' = Started + 1 /\ Started' = uop /\ Started \in Nat
    BY <1>0, <1>0a, StartedBounds DEF Started
<1>3. \A i \in 0..MaxOps, p \in Point : Done(i, p)' <=> Done(i, p)
    BY Zenon, <1>0a, <1>2, OneMore DEF Done, Touch
<1>4. \A i \in 0..MaxOps : i <= Started => Eff(i)' = Eff(i)
    BY Zenon DEF Eff, Effect
<1>5. \A v \in Nat, p \in Point : PointVersion(v, p) => PointVersion(v, p)'
    BY Zenon, <1>2, OneMore
<1>6. PointInv' /\ MemInv' /\ SavedInv' /\ FirstInv' /\ ReadInv' /\ AckInv'
  <2>2. \A i \in 0..MaxOps : BelowFailed(i)' => BelowFailed(i)
      BY Zenon, <1>0, <1>0a DEF BelowFailed
  <2> QED
      BY ZenonT(40), <2>2, <1>0, <1>0a, <1>2, <1>3, <1>4, <1>5, LogForward
<1>7. QueueInv'
    BY ZenonT(40), <1>0, <1>0a DEF QueueInv
<1>8. VersionInv'
    BY <1>0, <1>2 DEF VersionInv, TypeOK
<1>9. TodoInv'
  <2>1. \A p \in todo' : p \in Point
      BY Zenon DEF TypeOK
  <2> QED
      BY <1>0, <1>2, <2>1, HomeType, VersionBounds DEF TodoInv
<1>10. ModeInv' /\ FlushInv' /\ ReplayInv'
    BY Zenon, <1>0, <1>0a DEF ModeInv, FlushInv, ReplayInv
<1> QED
    BY Zenon, <1>6, <1>7, <1>8, <1>9, <1>10 DEF IInv

\* An operation that is refused has no points: it is done as soon as it begins.
LEMMA DeclineUpdateStep ==
    ASSUME IInv, DeclineUpdate, TypeOK'
    PROVE  IInv'
<1>0. /\ TypeOK /\ QueueInv /\ ModeInv /\ PointInv /\ VersionInv /\ TodoInv /\ MemInv
      /\ SavedInv /\ FirstInv /\ FlushInv /\ ReadInv /\ AckInv /\ ReplayInv
    BY Zenon DEF IInv
<1>00. uop # 0
  <2>1. uop \in 1..LastIndex
      BY Zenon DEF DeclineUpdate
  <2> QED
      BY <2>1
<1> USE DEF DeclineUpdate, log, disk, segments, workers, flushing, flusher, loading
<1>0a. /\ mode = "up" /\ lock = "none" /\ todo = {} /\ uop # 0 /\ uop \in Nat /\ uop' = 0
       /\ uop = Len(wal) - Len(queue) /\ Len(wal) \in Nat /\ Len(queue) \in Nat
    BY Zenon, <1>00, <1>0, LenProperties DEF QueueInv, TypeOK
<1>1. wal[uop].points = {}
  <2>1. wal[uop] \in Ops
      BY ZenonT(40), <1>0, <1>0a, ElementOfSeq DEF TypeOK, LastIndex
  <2> QED
      BY Zenon, <2>1, ConstantsAssumption
<1>2. Started' = Started + 1 /\ Started' = uop /\ Started \in Nat
    BY <1>0, <1>0a, StartedBounds DEF Started
<1>3. \A i \in 0..MaxOps, p \in Point : Done(i, p)' <=> Done(i, p)
    BY Zenon, <1>0a, <1>1, <1>2, OneMore DEF Done, Touch
<1>4. \A i \in 0..MaxOps : i <= Started => Eff(i)' = Eff(i)
    BY Zenon DEF Eff, Effect
<1>5. \A v \in Nat, p \in Point : PointVersion(v, p) => PointVersion(v, p)'
    BY Zenon, <1>2, OneMore
<1>6. PointInv' /\ MemInv' /\ SavedInv' /\ FirstInv' /\ ReadInv' /\ AckInv'
  <2>2. \A i \in 0..MaxOps : BelowFailed(i)' => BelowFailed(i)
      BY Zenon, <1>0, <1>0a DEF BelowFailed
  <2> QED
      BY Zenon, <2>2, <1>0, <1>0a, <1>2, <1>3, <1>4, <1>5, LogForward
<1>7. QueueInv'
    BY ZenonT(40), <1>0, <1>0a DEF QueueInv
<1>8. VersionInv'
    BY <1>0, <1>0a, <1>2 DEF VersionInv, TypeOK
<1>9. ModeInv' /\ TodoInv' /\ FlushInv' /\ ReplayInv'
    BY Zenon, <1>0, <1>0a DEF ModeInv, TodoInv, FlushInv, ReplayInv
<1> QED
    BY Zenon, <1>6, <1>7, <1>8, <1>9 DEF IInv

\* An operation with no point left is done; if it changed no point it may raise
\* the overwrite version.
LEMMA EndOperationStep ==
    ASSUME IInv, EndOperation, TypeOK'
    PROVE  IInv'
<1>0. /\ TypeOK /\ QueueInv /\ ModeInv /\ PointInv /\ VersionInv /\ TodoInv /\ MemInv
      /\ SavedInv /\ FirstInv /\ FlushInv /\ ReadInv /\ AckInv /\ ReplayInv
    BY Zenon DEF IInv
<1> USE DEF EndOperation, Release, log, disk, segments, workers, flushing, flusher, loading
<1>0a. /\ mode = "up" /\ lock = "upd" /\ todo = {} /\ uop # 0 /\ uop \in Nat /\ uop' = uop
       /\ uop = Len(wal) - Len(queue) /\ Len(wal) \in Nat /\ Len(queue) \in Nat
       /\ lock' = "none" /\ todo' = {} /\ ures = "none" /\ ures' = "ok" /\ rres' = rres
       /\ Current = uop
    BY ZenonT(40), <1>0, LenProperties DEF QueueInv, TypeOK, Current
<1>2. Started' = Started /\ Started = uop /\ Started \in Nat
    BY <1>0, <1>0a, StartedBounds DEF Started
<1>3. \A i \in 0..MaxOps, p \in Point : Done(i, p)' <=> Done(i, p)
    BY Zenon, <1>0a, <1>2 DEF Done, Touch
<1>4. \A i \in 0..MaxOps : i <= Started => Eff(i)' = Eff(i)
    BY Zenon DEF Eff, Effect
<1>5. \A v \in Nat, p \in Point : PointVersion(v, p) => PointVersion(v, p)'
    BY Zenon, <1>2 DEF PointVersion
<1>6. PointInv' /\ MemInv' /\ SavedInv' /\ FirstInv' /\ ReadInv' /\ AckInv'
  <2>2. \A i \in 0..MaxOps : BelowFailed(i)' => BelowFailed(i)
      BY Zenon, <1>0, <1>0a DEF BelowFailed
  <2> QED
      BY Zenon, <1>0, <1>0a, <1>2, <1>3, <1>4, <1>5, <2>2, LogForward
<1>7. QueueInv'
    BY Zenon, <1>0, <1>0a DEF QueueInv
<1>8. VersionInv'
  <2>1. overwrite' <= Started
      BY <1>0, <1>0a, <1>2 DEF VersionInv, BumpOverwrite, Max, TypeOK
  <2> QED
      BY ZenonT(40), <1>0, <1>0a, <1>2, <2>1 DEF VersionInv
<1>9. ModeInv' /\ TodoInv' /\ FlushInv' /\ ReplayInv'
    BY Zenon, <1>0, <1>0a DEF ModeInv, TodoInv, FlushInv, ReplayInv
<1> QED
    BY Zenon, <1>6, <1>7, <1>8, <1>9 DEF IInv

\* handle_update_result: an operation that failed joins failed_operation, and
\* nothing from it on has been acknowledged; for one that succeeded nothing
\* changes.
LEMMA FinishUpdateStep ==
    ASSUME IInv, FinishUpdate, TypeOK'
    PROVE  IInv'
<1>0. /\ TypeOK /\ QueueInv /\ ModeInv /\ PointInv /\ VersionInv /\ TodoInv /\ MemInv
      /\ SavedInv /\ FirstInv /\ FlushInv /\ ReadInv /\ AckInv /\ ReplayInv
    BY Zenon DEF IInv
<1> USE DEF FinishUpdate, log, disk, segments, workers, flushing, flusher, loading
<1>0a. /\ mode = "up" /\ lock = "none" /\ todo = {} /\ uop # 0 /\ uop \in Nat /\ uop' = 0
       /\ uop = Len(wal) - Len(queue) /\ Len(wal) \in Nat /\ Len(queue) \in Nat
       /\ ures \in {"ok", "err"} /\ ures' = "none"
    BY ZenonT(40), <1>0, LenProperties DEF QueueInv, TypeOK
<1>2. Started' = Started /\ Started = uop /\ Started \in Nat
    BY <1>0, <1>0a, StartedBounds DEF Started
<1>3. \A i \in 0..MaxOps, p \in Point : Done(i, p)' <=> Done(i, p)
    BY Zenon, <1>0a, <1>2 DEF Done, Touch
<1>4. \A i \in 0..MaxOps : Eff(i)' = Eff(i)
    BY Zenon DEF Eff, Effect
<1>5. \A v \in Nat, p \in Point : PointVersion(v, p) => PointVersion(v, p)'
    BY Zenon, <1>2 DEF PointVersion
<1>6. CASE ures = "ok"
  <2>1. failed' = failed
    <3>1. uop \notin failed
        BY <1>0, <1>0a DEF VersionInv
    <3> QED
        BY ZenonT(40), <1>6, <3>1 DEF HandleUpdateResult
  <2>3. \A i \in 0..MaxOps : BelowFailed(i)' => BelowFailed(i)
      BY Zenon, <1>0a, <1>6, <2>1 DEF BelowFailed
  <2>4. PointInv' /\ MemInv' /\ SavedInv' /\ FirstInv' /\ ReadInv' /\ AckInv'
      BY ZenonT(40), <1>0, <1>0a, <1>2, <1>3, <1>4, <1>5, <2>1, <2>3, LogForward
  <2>5. VersionInv'
      BY Zenon, <1>0, <1>0a, <1>2, <2>1 DEF VersionInv
  <2>6. QueueInv' /\ ModeInv' /\ TodoInv' /\ FlushInv' /\ ReplayInv'
      BY Zenon, <1>0, <1>0a DEF QueueInv, ModeInv, TodoInv, FlushInv, ReplayInv
  <2> QED
      BY Zenon, <2>4, <2>5, <2>6 DEF IInv
<1>7. CASE ures = "err"
  <2>1. failed' = failed \cup {uop} /\ fpc # "read"
      BY Zenon, <1>7 DEF HandleUpdateResult
  <2>2. ASSUME NEW i \in 0..MaxOps, BelowFailed(i)'
        PROVE  BelowFailed(i)
      BY Zenon, <1>0a, <2>1, <2>2 DEF BelowFailed
  <2>3. ASSUME NEW i \in 0..MaxOps, NEW p \in Point, LastDone(i, p)'
        PROVE  LastDone(i, p)
      BY Zenon, <1>3, <2>3 DEF LastDone
  <2>4. PointInv'
      BY ZenonT(40), <1>0, <1>5 DEF PointInv, TypeOK
  <2>5. MemInv' /\ SavedInv' /\ FirstInv'
      BY <1>0, <1>0a, <1>4, <2>2, <2>3 DEF MemInv, SavedInv, FirstInv, Saved
  <2>6. AckInv'
    <3>1. fpc = "ack" => ack <= uop
        BY Zenon, <1>0, <1>2 DEF AckInv
    <3> QED
        BY Zenon, <1>0, <1>2, <1>4, <2>1, <2>3, <3>1 DEF AckInv, Saved
  <2>7. VersionInv'
    <3>1. first_index <= uop
        BY Zenon, <1>0, <1>2 DEF VersionInv
    <3>2. uop <= Started
        BY <1>2
    <3> QED
        BY Zenon, <1>0, <1>0a, <1>2, <2>1, <3>1, <3>2 DEF VersionInv
  <2>8. QueueInv' /\ ModeInv' /\ TodoInv' /\ FlushInv' /\ ReplayInv' /\ ReadInv'
      BY Zenon, <1>0, <1>0a, <2>1 DEF QueueInv, ModeInv, TodoInv, FlushInv, ReplayInv, ReadInv
  <2> QED
      BY Zenon, <2>4, <2>5, <2>6, <2>7, <2>8 DEF IInv
<1> QED
    BY Zenon, <1>0a, <1>6, <1>7

\* An operation ends with an error after it was applied to the points P of one
\* segment.  What it leaves undone is not claimed of any operation that may be
\* acknowledged.
LEMMA ErrorStep ==
    ASSUME IInv, TypeOK', NEW s \in Segment, NEW P \in SUBSET Point,
           mode = "up", lock = "upd", P \subseteq todo \cap PointsOf(s), Writable(s),
           mem_pts' = AppliedPts(mem_pts, uop, P),
           mem_ver' = AppliedVer(mem_ver, mem_pts, uop, P),
           Release("err"),
           UNCHANGED <<disk, overwrite, failed, queue, uop, rop, flushing, flusher,
                       loading, mode>>
    PROVE  IInv'
<1>0. /\ TypeOK /\ QueueInv /\ ModeInv /\ PointInv /\ VersionInv /\ TodoInv /\ MemInv
      /\ SavedInv /\ FirstInv /\ FlushInv /\ ReadInv /\ AckInv /\ ReplayInv
    BY Zenon DEF IInv
<1> USE DEF Release, log, disk, flushing, flusher, loading
<1>0a. /\ uop # 0 /\ uop \in Nat /\ uop' = uop /\ ures = "none" /\ ures' = "err"
       /\ uop = Len(wal) - Len(queue) /\ Len(wal) \in Nat /\ Len(queue) \in Nat
       /\ lock' = "none" /\ todo' = {} /\ rres' = rres
    BY Zenon, <1>0, LenProperties DEF QueueInv, TypeOK
<1>1. \A p \in P : Home[p] = s /\ p \in todo /\ p \in wal[uop].points /\ mem_ver[s] < uop
    BY Zenon, <1>0 DEF PointsOf, QueueInv, TodoInv
<1>2. Started' = Started /\ Started = uop /\ Started \in Nat
    BY <1>0, <1>0a, StartedBounds DEF Started
<1>3. /\ mem_ver[s] \in Nat /\ mem_ver[s] <= uop
      /\ disk_ver[s] \in Nat /\ disk_ver[s] <= mem_ver[s] /\ job_ver[s] \in Nat
      /\ s \in jobs => job_ver[s] <= mem_ver[s]
    BY ZenonT(40), <1>0, <1>2, VersionBounds DEF FlushInv, TypeOK
<1>4. \A p \in Point : mem_pts'[p] = mem_pts[p] \/ (p \in P /\ mem_pts'[p] = Effect(uop))
    BY Zenon DEF AppliedPts, Changed
<1>5. /\ \A t \in Segment : t # s => mem_ver'[t] = mem_ver[t]
      /\ \/ mem_ver'[s] = uop /\ mem_ver[s] < uop
         \/ mem_ver'[s] = mem_ver[s] /\ \A p \in Point : mem_pts'[p] = mem_pts[p]
  <2>1. \A t \in Segment : t # s => Changed(mem_pts, uop, P) \cap PointsOf(t) = {}
      BY Zenon, <1>1 DEF Changed, PointsOf
  <2>2. Changed(mem_pts, uop, P) \cap PointsOf(s) = {} => Changed(mem_pts, uop, P) = {}
      BY Zenon, <1>1 DEF Changed, PointsOf
  <2>3. Changed(mem_pts, uop, P) # {} => mem_ver[s] < uop /\ Max(mem_ver[s], uop) = uop
      BY Zenon, <1>0a, <1>1, <1>3 DEF Max, Changed
  <2> QED
      BY Zenon, <2>1, <2>2, <2>3 DEF AppliedVer, AppliedPts
<1>6. ASSUME NEW i \in 0..MaxOps, NEW p \in Point, LastDone(i, p)', i < uop
      PROVE  LastDone(i, p) /\ p \notin P /\ Eff(i)' = Eff(i)
  <2>1. uop \in 0..MaxOps /\ uop \in 1..Len(wal)
    <3>1. Started <= Len(wal) /\ Len(wal) <= MaxOps /\ MaxOps \in Nat
        BY Zenon, <1>0, StartedBounds
    <3> QED
        BY <1>0a, <1>2, <3>1
  <2>2. p \notin wal[uop].points
    <3>1. uop <= Started /\ ~(uop <= i)
        BY <1>0a, <1>2, <1>6
    <3> QED
        BY ZenonT(40), <1>0a, <1>2, <1>6, <2>1, <3>1 DEF LastDone, Done, Touch
  <2>3. \A j \in 0..MaxOps : Done(j, p) => Done(j, p)'
      BY Zenon, <1>0a, <1>2 DEF Done, Touch
  <2>4. Done(i, p)
    <3>1. i # uop
        BY <1>0a, <1>6
    <3> QED
        BY ZenonT(40), <1>2, <1>6, <3>1 DEF LastDone, Done, Touch
  <2> QED
      BY ZenonT(40), <1>1, <1>6, <2>2, <2>3, <2>4 DEF LastDone, Eff, Effect
<1>7. ASSUME NEW i \in 0..MaxOps, BelowFailed(i)'
      PROVE  BelowFailed(i) /\ i < uop
    BY Zenon, <1>0a, <1>7 DEF BelowFailed
<1>8. PointInv'
  <2>1. \A p \in Point : \A v : PointVersion(v, p)' <=> PointVersion(v, p)
      BY Zenon, <1>2 DEF PointVersion
  <2>2. \A p \in P : PointVersion(Effect(uop), p)
    <3>1. uop \in 1..Started
        BY <1>0a, <1>2
    <3> QED
        BY Zenon, <1>1, <3>1 DEF PointVersion, Effect
  <2> QED
      BY Zenon, <1>0, <1>4, <2>1, <2>2 DEF PointInv
<1>9. VersionInv'
    BY <1>0, <1>0a, <1>2, <1>3, <1>5, VersionBounds DEF VersionInv
<1>10. MemInv' /\ SavedInv'
  <2>1. MemInv'
      BY Zenon, <1>0, <1>4, <1>6, <1>7 DEF MemInv
  <2>2. SavedInv'
      BY Zenon, <1>0, <1>6, <1>7 DEF SavedInv
  <2> QED
      BY Zenon, <2>1, <2>2
<1>11. FirstInv'
  <2>0. first_index \in Nat /\ first_index <= uop
      BY ZenonT(40), <1>0, <1>2 DEF VersionInv, TypeOK
  <2>1. \A i \in 0..MaxOps : i < first_index => i < uop
      BY <1>0a, <2>0
  <2> QED
      BY Zenon, <1>0, <1>6, <2>1 DEF FirstInv, Saved
<1>12. AckInv'
  <2>1. fpc = "ack" => \A i \in 0..MaxOps : i < ack => i < uop
    <3>1. ack \in Nat /\ (fpc = "ack" => ack <= uop)
        BY ZenonT(40), <1>0, <1>2 DEF AckInv, TypeOK
    <3> QED
        BY <1>0a, <3>1
  <2> QED
      BY ZenonT(40), <1>0, <1>2, <1>6, <2>1 DEF AckInv, Saved
<1>13. FlushInv'
  <2>0. /\ jobs \subseteq Segment
        /\ \A t \in jobs : disk_ver[t] < job_ver[t] /\ job_ver[t] <= mem_ver[t]
      BY ZenonT(40), <1>0 DEF FlushInv, TypeOK
  <2>1. \A t \in jobs : disk_ver[t] < job_ver[t] /\ job_ver[t] <= mem_ver'[t]
      BY <1>0a, <1>3, <1>5, <2>0
  <2>2. \A p \in Point : Home[p] # s => mem_pts'[p] = mem_pts[p]
      BY Zenon, <1>1, <1>4
  <2> QED
      BY <1>0, <1>0a, <1>3, <1>5, <2>1, <2>2, HomeType DEF FlushInv
<1>14. ReadInv'
  <2>1. fpc = "read" => s \notin unread
      BY Zenon DEF Writable
  <2>2. ASSUME fpc = "read", NEW i \in 0..MaxOps, Confirmable(i)'
        PROVE  Confirmable(i)
      BY ZenonT(40), <1>0, <1>5, <2>1, <2>2 DEF Confirmable, TypeOK
  <2> QED
      BY Zenon, <1>0, <1>2, <1>6, <1>7, <2>2 DEF ReadInv, Saved
<1>15. QueueInv'
    BY Zenon, <1>0, <1>0a DEF QueueInv
<1>16. ModeInv' /\ ReplayInv' /\ TodoInv'
    BY Zenon, <1>0, <1>0a DEF ModeInv, ReplayInv, TodoInv
<1> QED
    BY ZenonT(40), <1>8, <1>9, <1>10, <1>11, <1>12, <1>13, <1>14, <1>15, <1>16 DEF IInv

\* A service error in one point: the points of the same lock hold may have been
\* applied, the others have not.
LEMMA FailPointStep ==
    ASSUME IInv, NEW q \in Point, NEW P \in SUBSET Point, FailPoint(q, P), TypeOK'
    PROVE  IInv'
<1>1. lock = "upd" /\ Current = uop
    BY Zenon DEF FailPoint, IInv, QueueInv, TypeOK, Current
<1>2. /\ UNCHANGED <<disk, overwrite, failed, queue, uop, rop, flushing, flusher,
                     loading, mode>>
      /\ mem_pts' = AppliedPts(mem_pts, uop, P)
      /\ mem_ver' = AppliedVer(mem_ver, mem_pts, uop, P)
      /\ mode = "up" /\ Writable(Home[q]) /\ P \subseteq todo \cap PointsOf(Home[q])
      /\ Release("err")
    BY Zenon, <1>1 DEF FailPoint
<1> QED
    BY ZenonT(40), <1>1, <1>2, HomeType, ErrorStep

\* An operation that a segment refuses leaves everything as it is.
LEMMA RefusePointStep ==
    ASSUME IInv, NEW q \in Point, RefusePoint(q), TypeOK'
    PROVE  IInv'
<1>1. lock = "upd" /\ TypeOK
    BY Zenon DEF RefusePoint, IInv, QueueInv, TypeOK
<1>2. /\ UNCHANGED <<disk, overwrite, failed, queue, uop, rop, flushing, flusher,
                     loading, mode>>
      /\ mem_pts' = mem_pts /\ mem_ver' = mem_ver
      /\ mode = "up" /\ Writable(Home[q]) /\ Release("err")
    BY Zenon DEF RefusePoint, segments
<1>3. /\ AppliedPts(mem_pts, uop, {}) = mem_pts
      /\ AppliedVer(mem_ver, mem_pts, uop, {}) = mem_ver
    BY Zenon, <1>1 DEF AppliedPts, AppliedVer, Changed, TypeOK
<1>4. {} \subseteq todo \cap PointsOf(Home[q]) /\ {} \in SUBSET Point
    OBVIOUS
<1> QED
    BY ZenonT(40), <1>1, <1>2, <1>3, <1>4, HomeType, ErrorStep

\* One hold of a segment's write lock does all that the operation has to do in the
\* segment, and raises the segment's version to the operation: no flusher can see
\* the version with only some of the points.
LEMMA ApplyPointsStep ==
    ASSUME Regime, IInv, NEW s \in Segment, NEW P \in SUBSET Point, ApplyPoints(s, P), TypeOK'
    PROVE  IInv'
<1>0. /\ TypeOK /\ QueueInv /\ ModeInv /\ PointInv /\ VersionInv /\ TodoInv /\ MemInv
      /\ SavedInv /\ FirstInv /\ FlushInv /\ ReadInv /\ AckInv /\ ReplayInv
    BY Zenon DEF IInv
<1>00. /\ mode = "up" /\ lock # "none" /\ todo' = todo \ P
       /\ P \in LockHolds(todo) /\ P \subseteq PointsOf(s) /\ Writable(s)
       /\ mem_pts' = AppliedPts(mem_pts, Current, P)
       /\ mem_ver' = AppliedVer(mem_ver, mem_pts, Current, P)
       /\ UNCHANGED <<wal, first_index, disk_ver, disk_pts, overwrite, failed, queue, uop,
                      rop, lock, ures, rres, jobs, wrote, job_ver, job_pts, fpc, unread,
                      min_unsaved, max_persisted, ack, next, to, mode>>
    BY Zenon DEF ApplyPoints, disk, flushing, flusher, loading
<1> USE <1>00
<1>0a. /\ mode = "up" /\ lock = "upd" /\ uop # 0 /\ uop \in Nat /\ uop' = uop
       /\ todo' = todo \ P /\ Current = uop
       /\ uop = Len(wal) - Len(queue) /\ Len(wal) \in Nat /\ Len(queue) \in Nat
    BY Zenon, <1>0, LenProperties DEF QueueInv, TypeOK, Current
<1>0b. P = todo \cap PointsOf(s)
    BY Zenon DEF Regime, LockHolds, PointsOf
<1>1. /\ \A p \in P : Home[p] = s /\ p \in todo /\ p \in wal[uop].points
      /\ \A p \in todo' : Home[p] # s
      /\ mem_ver[s] \in Nat /\ mem_ver[s] < uop
  <2>1. \A p \in P : Home[p] = s /\ p \in todo /\ p \in wal[uop].points
      BY Zenon, <1>0, <1>0a, <1>0b DEF PointsOf, QueueInv
  <2>2. \A p \in todo' : Home[p] # s
      BY Zenon, <1>0, <1>0a, <1>0b DEF PointsOf, TypeOK
  <2>3. P # {}
      BY Zenon DEF Regime, LockHolds
  <2> QED
      BY Zenon, <1>0, <2>1, <2>2, <2>3, VersionBounds DEF TodoInv
<1>1a. /\ disk_ver[s] \in Nat /\ disk_ver[s] <= mem_ver[s] /\ job_ver[s] \in Nat
       /\ s \in jobs => job_ver[s] <= mem_ver[s]
    BY ZenonT(40), <1>0, <1>0a, VersionBounds DEF FlushInv, TypeOK
<1>2. Started' = Started /\ Started = uop /\ Started \in Nat
    BY <1>0, <1>0a, StartedBounds DEF Started
<1>3. /\ \A p \in Point : mem_pts'[p] = IF p \in P THEN Eff(uop) ELSE mem_pts[p]
      /\ Eff(uop) # 0 => Eff(uop) = uop /\ wal[uop].kind = "upsert"
  <2>1. Eff(uop) = IF wal[uop].kind = "upsert" THEN uop ELSE 0
      BY ZenonT(40), <1>0a DEF Eff, Effect
  <2>2. \A p \in Point : mem_pts[p] \in Nat /\ mem_pts[p] <= uop
      BY <1>0, <1>2 DEF PointInv, PointVersion, TypeOK
  <2> QED
      BY <1>0a, <2>1, <2>2 DEF AppliedPts, Changed, Changes, Attempts, Eff
<1>4. /\ \A t \in Segment : t # s => mem_ver'[t] = mem_ver[t]
      /\ \/ mem_ver'[s] = uop
         \/ mem_ver'[s] = mem_ver[s] /\ \A p \in Point : mem_pts'[p] = mem_pts[p]
  <2>1. \A t \in Segment : t # s => Changed(mem_pts, uop, P) \cap PointsOf(t) = {}
      BY Zenon, <1>1 DEF Changed, PointsOf
  <2>2. Changed(mem_pts, uop, P) \cap PointsOf(s) = {} => Changed(mem_pts, uop, P) = {}
      BY Zenon, <1>1 DEF Changed, PointsOf
  <2>3. Max(mem_ver[s], uop) = uop
      BY Zenon, <1>0a, <1>1 DEF Max
  <2> QED
      BY Zenon, <1>0a, <2>1, <2>2, <2>3 DEF AppliedVer, AppliedPts
<1>5. ASSUME NEW i \in 0..MaxOps, NEW p \in Point, LastDone(i, p)'
      PROVE  /\ p \notin P => LastDone(i, p)
             /\ p \in P => i = uop
             /\ Eff(i)' = Eff(i)
  <2>1. \A j \in 0..MaxOps : Done(j, p)' <=> (Done(j, p) \/ (j = uop /\ p \in P))
    <3>1. uop <= Started /\ uop \in 1..Len(wal)
      <4> HIDE <1>00
      <4>1. Started <= Len(wal)
          BY Zenon, <1>0, StartedBounds
      <4> QED
          BY <1>0a, <1>2, <4>1
    <3> QED
        BY Zenon, <1>0a, <1>1, <1>2, <3>1 DEF Done, Touch
  <2>2. i <= uop /\ uop \in 0..MaxOps
    <3>1. uop \in 0..MaxOps
        BY <1>0, <1>2, StartedBounds
    <3> QED
        BY ZenonT(40), <1>2, <1>5, <3>1 DEF LastDone, Done
  <2> QED
    <3>1. p \notin P => LastDone(i, p)
        BY Zenon, <1>5, <2>1 DEF LastDone
    <3>2. p \in P => uop <= i
        BY Zenon, <1>5, <2>1, <2>2 DEF LastDone
    <3>3. p \in P => i = uop
      <4> HIDE <1>00
      <4> QED
          BY <2>2, <3>2
    <3> QED
        BY Zenon, <3>1, <3>3 DEF Eff, Effect
<1>6. PointInv'
  <2>1. \A p \in Point : \A v : PointVersion(v, p)' <=> PointVersion(v, p)
      BY Zenon, <1>2 DEF PointVersion
  <2>2. \A p \in P : PointVersion(Eff(uop), p)
    <3> HIDE <1>00
    <3>1. uop \in 1..Started
        BY <1>0a, <1>2
    <3> QED
        BY Zenon, <1>1, <1>3, <3>1 DEF PointVersion
  <2> QED
      BY Zenon, <1>0, <1>3, <2>1, <2>2 DEF PointInv
<1>7. VersionInv'
    BY <1>0, <1>0a, <1>1, <1>2, <1>4, VersionBounds DEF VersionInv
<1>8. TodoInv'
  <2>1. \A p \in todo' : p \in todo /\ Home[p] # s /\ Home[p] \in Segment
      BY Zenon, <1>0, <1>0a, <1>1, HomeType DEF TypeOK
  <2> HIDE <1>00
  <2> QED
      BY Zenon, <1>0, <1>0a, <1>4, <2>1 DEF TodoInv
<1>9. MemInv'
    BY Zenon, <1>0, <1>3, <1>5 DEF MemInv, BelowFailed
<1>10. SavedInv'
  <2>1. ~(uop <= disk_ver[s]) /\ (s \in jobs => ~(uop <= job_ver[s]))
    <3>1. uop \in Nat /\ mem_ver[s] \in Nat /\ mem_ver[s] < uop
        BY Zenon, <1>0a, <1>1
    <3> HIDE <1>00
    <3> QED
        BY <1>1a, <3>1
  <2> QED
      BY ZenonT(40), <1>0, <1>1, <1>5, <2>1 DEF SavedInv, BelowFailed
<1>11. FirstInv'
  <2>1. ~(uop < first_index)
    <3>1. first_index \in Nat /\ first_index <= uop
        BY Zenon, <1>0, <1>2 DEF VersionInv, TypeOK
    <3> HIDE <1>00
    <3> QED
        BY <1>0a, <3>1
  <2> QED
      BY Zenon, <1>0, <1>5, <2>1 DEF FirstInv, Saved
<1>12. AckInv'
  <2>0. ack \in Nat /\ (fpc = "ack" => ack <= uop)
      BY Zenon, <1>0, <1>2 DEF AckInv, TypeOK
  <2>1. fpc = "ack" => ~(uop < ack)
      BY <1>0a, <2>0
  <2> QED
      BY Zenon, <1>0, <1>2, <1>5, <2>1 DEF AckInv, Saved
<1>13. FlushInv'
  <2>0. mem_ver[s] \in Nat /\ mem_ver[s] < uop /\ uop \in Nat
      BY ZenonT(40), <1>0a, <1>1
  <2> HIDE <1>00
  <2>1. disk_ver[s] # uop /\ (s \in jobs => job_ver[s] # uop /\ job_ver[s] <= uop)
      BY <1>1a, <2>0
  <2>2. \A t \in jobs : disk_ver[t] < job_ver[t] /\ job_ver[t] <= mem_ver'[t]
      BY ZenonT(40), <1>00, <1>0, <1>0a, <1>4, <2>1 DEF FlushInv, TypeOK
  <2>3. \A p \in Point : Home[p] # s => mem_pts'[p] = mem_pts[p]
      BY Zenon, <1>1, <1>3
  <2>4. UNCHANGED <<mode, jobs, wrote, disk_ver, disk_pts, job_ver, job_pts>> /\ mode = "up"
      BY Zenon, <1>00
  <2>5. \A p \in Point : Home[p] \in wrote => disk_pts[p] = job_pts[p]
      BY Zenon, <1>0 DEF FlushInv
  <2>6. ASSUME NEW p \in Point
        PROVE  /\ mem_ver'[Home[p]] = disk_ver[Home[p]] => disk_pts[p] = mem_pts'[p]
               /\ Home[p] \in jobs /\ mem_ver'[Home[p]] = job_ver[Home[p]] =>
                    job_pts[p] = mem_pts'[p]
    <3>1. /\ mem_ver[Home[p]] = disk_ver[Home[p]] => disk_pts[p] = mem_pts[p]
          /\ Home[p] \in jobs /\ mem_ver[Home[p]] = job_ver[Home[p]] => job_pts[p] = mem_pts[p]
        BY Zenon, <1>0, <2>4 DEF FlushInv
    <3>2. CASE Home[p] # s
        BY Zenon, <1>4, <2>3, <3>1, <3>2, HomeType
    <3>3. CASE Home[p] = s
        BY Zenon, <1>4, <2>1, <3>1, <3>3
    <3> QED
        BY Zenon, <3>2, <3>3
  <2> QED
      BY Zenon, <2>2, <2>4, <2>5, <2>6 DEF FlushInv
<1>14. ReadInv'
  <2>1. fpc = "read" => s \notin unread
      BY Zenon DEF Writable
  <2>2. ASSUME fpc = "read", NEW i \in 0..MaxOps, Confirmable(i)'
        PROVE  Confirmable(i) /\ i # uop
    <3>1. Confirmable(i)
        BY ZenonT(40), <1>0, <1>4, <2>1, <2>2 DEF Confirmable, TypeOK
    <3> QED
      <4>1. max_persisted <= uop /\ max_persisted \in Nat
          BY Zenon, <1>0, <1>2, <2>2 DEF ReadInv, TypeOK
      <4>2. \A t \in unread : mem_ver[t] <= uop /\ mem_ver[t] \in Nat
          BY ZenonT(40), <1>0, <1>2, VersionBounds DEF TypeOK
      <4> QED
          BY <1>0a, <3>1, <4>1, <4>2 DEF Confirmable
  <2> QED
      BY ZenonT(40), <1>0, <1>2, <1>5, <2>2 DEF ReadInv, Saved, BelowFailed
<1>15. QueueInv'
    BY Zenon, <1>0, <1>0a DEF QueueInv
<1>16. ModeInv' /\ ReplayInv'
    BY Zenon, <1>0, <1>0a DEF ModeInv, ReplayInv
<1> QED
    BY ZenonT(40), <1>6, <1>7, <1>8, <1>9, <1>10, <1>11, <1>12, <1>13, <1>14, <1>15, <1>16 DEF
       IInv

\* truncate_unapplied_wal drops exactly the operations that were not begun.
LEMMA TruncateUnappliedWalStep ==
    ASSUME IInv, TruncateUnappliedWal, TypeOK'
    PROVE  IInv'
<1>0. /\ TypeOK /\ QueueInv /\ ModeInv /\ PointInv /\ VersionInv /\ TodoInv /\ MemInv
      /\ SavedInv /\ FirstInv /\ FlushInv /\ ReadInv /\ AckInv /\ ReplayInv
    BY Zenon DEF IInv
<1>0a. /\ mode = "up" /\ lock = "none" /\ todo = {} /\ uop = 0 /\ rop = 0 /\ fpc = "idle"
       /\ ures = "none" /\ rres = "none"
    BY Zenon, <1>0 DEF TruncateUnappliedWal, QueueInv
<1>0b. UNCHANGED <<first_index, disk_ver, disk_pts, segments, uop, rop, lock, todo, ures,
                   rres, flushing, flusher, loading, mode>>
    BY ZenonT(40) DEF TruncateUnappliedWal
<1>1. /\ Len(queue) \in Nat \ {0} /\ Len(wal) \in Nat /\ Head(queue) = queue[1]
      /\ Len(queue') = 0 /\ queue' = <<>>
    BY <1>0, HeadTailProperties, LenProperties, EmptySeq DEF TypeOK, TruncateUnappliedWal
<1>1a. /\ Head(queue) = Started + 1 /\ Started \in Nat /\ Started <= Len(wal)
       /\ Started = Len(wal) - Len(queue)
    BY <1>0, <1>0a, <1>1, StartedBounds DEF QueueInv, Started
<1>1b. wal' = SubSeq(wal, 1, Started)
    BY <1>1, <1>1a DEF Min, LastIndex, TruncateUnappliedWal
<1>1c. Len(wal') = Started /\ \A i \in 1..Started : wal'[i] = wal[i]
  <2>1. \A i \in 1..Started : wal[i] \in Ops
    <3>1. \A i \in 1..Len(wal) : wal[i] \in Ops
        BY ZenonT(40), <1>0, ElementOfSeq DEF TypeOK
    <3> QED
        BY <1>1, <1>1a, <3>1
  <2>2. /\ Len(SubSeq(wal, 1, Started)) = IF 1 <= Started THEN Started - 1 + 1 ELSE 0
        /\ \A i \in 1..(Started - 1 + 1) : SubSeq(wal, 1, Started)[i] = wal[1 + i - 1]
    <3>1. 1 \in Int /\ Started \in Int
        BY <1>1a
    <3> QED
        BY <2>1, <3>1, SubSeqProperties
  <2>3. Started - 1 + 1 = Started /\ \A i \in 1..Started : 1 + i - 1 = i
      BY <1>1a
  <2>4. Len(SubSeq(wal, 1, Started)) = Started
      BY <1>1a, <2>2
  <2>5. \A i \in 1..Started : SubSeq(wal, 1, Started)[i] = wal[i]
      BY Zenon, <2>2, <2>3
  <2> QED
      BY Zenon, <1>1b, <2>4, <2>5
<1>2. Started' = Started
    BY Zenon, <1>0a, <1>0b, <1>1, <1>1a, <1>1c DEF Started
<1>3. \A i \in 0..MaxOps, p \in Point : Done(i, p)' <=> Done(i, p)
  <2>1. \A i \in 0..MaxOps, p \in Point : i <= Started => (Touch(i, p)' <=> Touch(i, p))
    <3>1. \A i \in 0..MaxOps : i <= Started =>
             (i \in 1..Len(wal') <=> i \in 1..Len(wal)) /\ (i \in 1..Len(wal) => wal'[i] = wal[i])
        BY <1>1, <1>1a, <1>1c
    <3> QED
        BY Zenon, <3>1 DEF Touch
  <2> QED
      BY Zenon, <1>0a, <1>0b, <1>2, <2>1 DEF Done
<1>4. \A i \in 0..MaxOps : i <= Started => Eff(i)' = Eff(i)
    BY <1>1a, <1>1c DEF Eff, Effect
<1>5. \A v \in Nat, p \in Point : PointVersion(v, p) => PointVersion(v, p)'
    BY Zenon, <1>1a, <1>1c, <1>2 DEF PointVersion
<1>6. PointInv' /\ MemInv' /\ SavedInv' /\ FirstInv' /\ ReadInv' /\ AckInv'
  <2>2. \A i \in 0..MaxOps : BelowFailed(i)' => BelowFailed(i)
      BY Zenon, <1>0a, <1>0b DEF BelowFailed, segments
  <2> QED
      BY ZenonT(40), <1>0, <1>0a, <1>0b, <1>1a, <1>2, <1>3, <1>4, <1>5, <2>2, LogForward
      DEF segments, flushing, flusher
<1>7. QueueInv'
    BY <1>0, <1>0a, <1>0b, <1>1, <1>1a, <1>1c DEF QueueInv
<1>8. VersionInv'
    BY Zenon, <1>0, <1>0a, <1>0b, <1>2 DEF VersionInv, segments
<1>9. ModeInv' /\ TodoInv' /\ FlushInv' /\ ReplayInv'
    BY Zenon, <1>0, <1>0a, <1>0b DEF ModeInv, TodoInv, FlushInv, ReplayInv, segments, flushing
<1> QED
    BY Zenon, <1>6, <1>7, <1>8, <1>9 DEF IInv

=============================================================================
