------------------------- MODULE LocalShardRecovery -------------------------
(***************************************************************************)
(* The invariant of LocalShardInvariant is kept by a crash and by          *)
(* load_from_wal, one lemma for each action; so it is inductive, and a     *)
(* local shard is always recoverable from its disk, under the conditions   *)
(* of Regime.                                                              *)
(***************************************************************************)
EXTENDS LocalShardUpdates

\* After a crash every operation of the log counts as begun; the ones that were
\* acknowledged are on disk.
LEMMA CrashStep ==
    ASSUME IInv, Crash, TypeOK'
    PROVE  IInv'
<1>0. /\ TypeOK /\ QueueInv /\ ModeInv /\ PointInv /\ VersionInv /\ TodoInv /\ MemInv
      /\ SavedInv /\ FirstInv /\ FlushInv /\ ReadInv /\ AckInv /\ ReplayInv
    BY Zenon DEF IInv
<1> USE DEF Crash, log, disk, segments, workers, flushing, flusher, loading
<1>1. Len(queue') = 0 /\ Len(wal) \in Nat /\ Started' = Len(wal)
    BY <1>0, LenProperties, EmptySeq DEF TypeOK, Started
<1>2. Started \in Nat /\ Started <= Started' /\ Started' \in Nat
    BY Zenon, <1>0, <1>1, StartedBounds
<1>3. ASSUME NEW i \in 0..MaxOps, NEW p \in Point, LastDone(i, p)', i < first_index
      PROVE  LastDone(i, p) /\ Eff(i)' = Eff(i)
  <2>1. i < Started
    <3>1. first_index \in Nat /\ first_index <= Started
        BY ZenonT(40), <1>0 DEF VersionInv, TypeOK
    <3> HIDE DEF Crash
    <3> QED
        BY <1>2, <1>3, <3>1
  <2>2. lock = "upd" => uop = Started
      BY <1>0, LenProperties DEF QueueInv, Started, TypeOK
  <2>3. Touch(i, p) /\ \A j \in 0..MaxOps : Done(j, p) => Done(j, p)'
      BY <1>2, <1>3 DEF LastDone, Done, Touch
  <2> QED
    <3>1. wal' = wal
        BY Zenon
    <3> HIDE DEF Crash
    <3>2. i <= Started /\ ~(lock = "upd" /\ i = uop)
        BY <1>2, <2>1, <2>2
    <3>3. Done(i, p)
        BY Zenon, <2>3, <3>2 DEF Done
    <3> QED
        BY Zenon, <1>3, <2>3, <3>1, <3>3 DEF LastDone, Eff, Effect
<1>4. PointInv'
  <2>1. 1..Started \subseteq 1..Started'
    <3> HIDE DEF Crash
    <3> QED
        BY <1>2
  <2> QED
      BY Zenon, <1>0, <2>1 DEF PointInv, PointVersion
<1>5. FirstInv'
    BY Zenon, <1>0, <1>3 DEF FirstInv, Saved
<1>6. VersionInv'
  <2>1. \A s \in Segment : disk_ver[s] <= disk_ver[s] /\ disk_ver[s] <= Started'
      BY <1>0, <1>2, VersionBounds
  <2> QED
    <3>1. first_index \in Nat /\ first_index <= Started
        BY Zenon, <1>0 DEF VersionInv, TypeOK
    <3>2. first_index <= Started' /\ 0 <= Started'
      <4> HIDE DEF Crash
      <4> QED
          BY <1>2, <3>1
    <3> QED
        BY Zenon, <2>1, <3>2 DEF VersionInv
<1>7. QueueInv'
    BY <1>1 DEF QueueInv
<1>8. /\ ModeInv' /\ TodoInv' /\ MemInv' /\ SavedInv' /\ FlushInv' /\ ReadInv' /\ AckInv'
      /\ ReplayInv'
    BY Zenon DEF ModeInv, TodoInv, MemInv, SavedInv, FlushInv, ReadInv, AckInv, ReplayInv
<1> QED
    BY Zenon, <1>4, <1>5, <1>6, <1>7, <1>8 DEF IInv

\* The replay covers every record from the first index to the last one.
LEMMA LoadFromWalStep ==
    ASSUME ~AppliedSeqActive, IInv, LoadFromWal, TypeOK'
    PROVE  IInv'
<1>0. /\ TypeOK /\ QueueInv /\ ModeInv /\ PointInv /\ VersionInv /\ TodoInv /\ MemInv
      /\ SavedInv /\ FirstInv /\ FlushInv /\ ReadInv /\ AckInv /\ ReplayInv
    BY Zenon DEF IInv
<1>1. /\ mode = "down" /\ mode' = "replay" /\ next' = first_index /\ to' = ReplayTo
      /\ UNCHANGED <<log, disk, segments, workers, flushing, flusher>>
    BY Zenon DEF LoadFromWal, log, disk, workers
<1>2. /\ Len(wal) \in Nat /\ Started = Len(wal) /\ to' = Len(wal) + 1
      /\ first_index <= Len(wal) /\ first_index \in Nat
  <2>1. Len(wal) \in Nat /\ first_index \in Nat /\ Len(queue) = 0 /\ uop = 0
      BY ZenonT(40), <1>0, <1>1, LenProperties, EmptySeq DEF TypeOK, ModeInv
  <2>2. QueueSize \in Nat \ {0}
      BY Zenon, ConstantsAssumption
  <2>3. to' = Len(wal) + 1
      BY <1>1, <2>1, <2>2 DEF ReplayTo, LastWalIndex, LastIndex, Min, Max
  <2> QED
      BY <1>0, <2>1, <2>3 DEF VersionInv, Started
<1>3. QueueInv' /\ TodoInv' /\ PointInv' /\ FirstInv' /\ VersionInv'
  <2>1. UNCHANGED <<wal, first_index, disk_ver, disk_pts, mem_ver, mem_pts, overwrite,
                    failed, queue, uop, rop, lock, todo, ures, rres, jobs, job_pts>>
      BY Zenon, <1>1 DEF log, disk, segments, workers, flushing
  <2>2. UNCHANGED Started
      BY Zenon, <2>1 DEF Started
  <2> QED
      BY <1>0, <2>1, <2>2
      DEF QueueInv, TodoInv, PointInv, PointVersion, FirstInv, LastDone, Done, Touch, Saved,
          Eff, Effect, VersionInv
<1>4. ModeInv'
    BY <1>0, <1>1, <1>2 DEF ModeInv, log, disk, segments, workers, flushing, flusher
<1>5. ReplayInv'
  <2>1. UNCHANGED <<mem_ver, mem_pts, disk_pts, first_index>> /\ mem_pts = disk_pts
      BY Zenon, <1>0, <1>1 DEF ReplayInv, disk, segments
  <2>2. ASSUME NEW p \in Point
        PROVE  ReplayedPoint(p)'
    <3>1. mem_pts[p] \in Nat /\ first_index \in Nat
        BY Zenon, <1>0 DEF TypeOK
    <3> QED
        BY <1>1, <2>1, <3>1 DEF ReplayedPoint, LastBefore
  <2> QED
      BY Zenon, <1>1, <2>1, <2>2 DEF ReplayInv
<1>6. MemInv' /\ SavedInv' /\ FlushInv' /\ ReadInv' /\ AckInv'
    BY Zenon, <1>0, <1>1
    DEF MemInv, SavedInv, FlushInv, ReadInv, AckInv, ModeInv, disk, flushing, flusher
<1> QED
    BY Zenon, <1>3, <1>4, <1>5, <1>6 DEF IInv

\* Replaying one more record makes every point what this record leaves of it,
\* unless the disk had it from a later record already.
LEMMA ReplayedPointStep ==
    ASSUME IInv, Replay, TypeOK', NEW p \in Point
    PROVE  ReplayedPoint(p)'
<1>0. TypeOK /\ ModeInv /\ PointInv /\ ReplayInv
    BY Zenon DEF IInv
<1> DEFINE hit == next # 0 /\ p \in wal[next].points
<1>1. /\ mode = "replay" /\ next < to /\ next' = next + 1 /\ next \in Nat
      /\ UNCHANGED <<wal, disk_pts, first_index>>
      /\ mem_pts' = AppliedPts(mem_pts, next, PointsOfRecord(next))
    BY Zenon, <1>0 DEF Replay, disk, TypeOK
<1>2. /\ Len(wal) \in Nat /\ next <= Len(wal) /\ first_index <= next /\ first_index \in Nat
      /\ Started = Len(wal) /\ mem_pts[p] \in Nat /\ disk_pts[p] \in Nat
      /\ ReplayedPoint(p) /\ MaxOps \in Nat /\ Len(wal) <= MaxOps
  <2>1. Len(wal) \in Nat /\ Len(queue) = 0 /\ uop = 0 /\ to = Len(wal) + 1
      BY ZenonT(40), <1>0, <1>1, LenProperties, EmptySeq DEF TypeOK, ModeInv
  <2>2. MaxOps \in Nat
      BY Zenon, ConstantsAssumption
  <2> QED
    <3>1. Started = Len(wal)
        BY <2>1 DEF Started
    <3>2. next <= Len(wal)
        BY <1>1, <2>1
    <3>3. /\ mem_pts[p] \in Nat /\ disk_pts[p] \in Nat /\ first_index \in Nat
          /\ Len(wal) <= MaxOps
        BY Zenon, <1>0 DEF TypeOK
    <3>4. first_index <= next /\ ReplayedPoint(p)
        BY Zenon, <1>0, <1>1 DEF ModeInv, ReplayInv
    <3> QED
        BY Zenon, <2>1, <2>2, <3>1, <3>2, <3>3, <3>4
<1>3. mem_pts'[p] = IF hit /\ Changes(mem_pts, next, p) THEN Effect(next) ELSE mem_pts[p]
    BY Zenon, <1>1 DEF AppliedPts, Changed, PointsOfRecord
<1>4. \A i \in 0..MaxOps : Eff(i)' = Eff(i) /\ (Touch(i, p)' <=> Touch(i, p))
    BY Zenon, <1>1 DEF Effect, Eff, Touch
<1>5. PointVersion(disk_pts[p], p)
    BY Zenon, <1>0 DEF PointInv
<1>6. CASE hit
  <2>0. next # 0 /\ p \in wal[next].points
      BY ZenonT(40), <1>6
  <2>1. \A i \in 0..MaxOps : LastBefore(i, p, next)' => i = next
      BY <1>1, <1>2, <1>4, <2>0 DEF LastBefore, Touch
  <2>2. Eff(next) = Effect(next) /\ Effect(next) \in {0, next}
      BY Zenon, <2>0 DEF Eff, Effect
  <2>3. CASE next < disk_pts[p] /\ mem_pts[p] = disk_pts[p]
    <3>1. mem_pts'[p] = mem_pts[p]
        BY <1>1, <1>2, <1>3, <2>3 DEF Changes, Attempts
    <3> QED
      <4>1. next + 1 <= disk_pts[p]
          BY <1>1, <1>2, <2>3
      <4> QED
          BY Zenon, <1>1, <2>3, <3>1, <4>1 DEF ReplayedPoint
  <2>4. CASE ~(next < disk_pts[p] /\ mem_pts[p] = disk_pts[p])
    <3>1. mem_pts'[p] = Effect(next)
      <4>1. CASE mem_pts[p] = disk_pts[p] /\ next <= disk_pts[p]
        <5>1. disk_pts[p] = next
            BY <1>1, <1>2, <2>4, <4>1
        <5>2. wal[next].kind = "upsert"
            BY Zenon, <1>5, <2>0, <5>1 DEF PointVersion
        <5> QED
            BY ZenonT(40), <1>1, <1>3, <4>1, <5>1, <5>2 DEF Changes, Attempts, Effect
      <4>2. CASE mem_pts[p] < next \/ mem_pts[p] = 0
        <5>1. CASE wal[next].kind = "upsert"
            BY <1>1, <1>2, <1>3, <2>0, <4>2, <5>1 DEF Changes, Attempts, Effect
        <5>2. CASE wal[next].kind # "upsert"
            BY <1>1, <1>2, <1>3, <2>0, <4>2, <5>2 DEF Changes, Attempts, Effect
        <5> QED
            BY Zenon, <5>1, <5>2
      <4> QED
          BY Zenon, <1>2, <4>1, <4>2 DEF ReplayedPoint
    <3>2. mem_pts'[p] < next'
        BY <1>1, <2>2, <3>1
    <3>3. ASSUME NEW i \in 0..MaxOps, LastBefore(i, p, next)'
          PROVE  ~(i < first_index') /\ mem_pts'[p] = Eff(i)'
      <4>1. i = next
          BY Zenon, <2>1, <3>3
      <4> QED
          BY <1>1, <1>2, <1>4, <2>2, <3>1, <4>1
    <3> QED
        BY Zenon, <3>2, <3>3 DEF ReplayedPoint
  <2> QED
      BY Zenon, <2>3, <2>4
<1>7. CASE ~hit
  <2>1. mem_pts'[p] = mem_pts[p]
      BY Zenon, <1>3, <1>7
  <2>2. CASE next = 0
    <3>1. \A i \in 0..MaxOps : LastBefore(i, p, next)' => i = 0
        BY <1>1, <2>2 DEF LastBefore
    <3>2. first_index' = 0 /\ next' = 1 /\ Eff(0)' = 0
        BY <1>1, <1>2, <2>2 DEF Eff
    <3>3. CASE mem_pts[p] = 0
        BY <2>1, <3>1, <3>2, <3>3 DEF ReplayedPoint
    <3>4. CASE mem_pts[p] # 0
        BY <1>1, <1>2, <2>1, <2>2, <3>2, <3>4 DEF ReplayedPoint
    <3> QED
        BY Zenon, <3>3, <3>4
  <2>3. CASE next # 0
    <3>1. next # disk_pts[p]
        BY Zenon, <1>5, <1>7, <2>3 DEF PointVersion
    <3>2. ~Touch(next, p)
        BY Zenon, <1>7, <2>3 DEF Touch
    <3>3. \A i \in 0..MaxOps : LastBefore(i, p, next)' => LastBefore(i, p, next)
        BY <1>1, <1>2, <1>4, <3>2 DEF LastBefore
    <3>4. CASE mem_pts[p] = disk_pts[p] /\ next <= disk_pts[p]
        BY <1>1, <1>2, <2>1, <3>1, <3>4 DEF ReplayedPoint
    <3>5. CASE ~(mem_pts[p] = disk_pts[p] /\ next <= disk_pts[p])
      <4>1. mem_pts'[p] < next' \/ mem_pts'[p] = 0
          BY <1>1, <1>2, <2>1, <3>5 DEF ReplayedPoint
      <4> QED
          BY ZenonT(40), <1>1, <1>2, <1>4, <2>1, <3>3, <3>5, <4>1 DEF ReplayedPoint
    <3> QED
        BY Zenon, <3>4, <3>5
  <2> QED
      BY Zenon, <2>2, <2>3
<1> QED
    BY Zenon, <1>6, <1>7

\* Replaying a record keeps the invariant.
LEMMA ReplayStep ==
    ASSUME IInv, Replay, TypeOK'
    PROVE  IInv'
<1>0. /\ TypeOK /\ QueueInv /\ ModeInv /\ PointInv /\ VersionInv /\ TodoInv /\ MemInv
      /\ SavedInv /\ FirstInv /\ FlushInv /\ ReadInv /\ AckInv /\ ReplayInv
    BY Zenon DEF IInv
<1>1. /\ mode = "replay" /\ next < to /\ next' = next + 1 /\ next \in Nat /\ to \in Nat
      /\ UNCHANGED <<log, disk, failed, workers, flushing, flusher, to, mode>>
      /\ mem_pts' = AppliedPts(mem_pts, next, PointsOfRecord(next))
      /\ mem_ver' = AppliedVer(mem_ver, mem_pts, next, PointsOfRecord(next))
      /\ overwrite' \in {overwrite, Max(overwrite, next)}
    BY Zenon, <1>0 DEF Replay, BumpOverwrite, log, disk, workers, TypeOK
<1>2. UNCHANGED <<wal, first_index, disk_ver, disk_pts, failed, queue, uop, rop, lock,
                  todo, ures, rres, jobs, wrote, job_ver, job_pts, fpc>>
    BY Zenon, <1>1 DEF log, disk, workers, flushing, flusher
<1>3. /\ Len(wal) \in Nat /\ next <= Len(wal) /\ to = Len(wal) + 1 /\ Started = Len(wal)
      /\ UNCHANGED Started /\ failed = {} /\ jobs = {} /\ lock = "none" /\ todo = {}
      /\ fpc = "idle"
  <2>1. /\ Len(wal) \in Nat /\ Len(queue) = 0 /\ uop = 0 /\ to = Len(wal) + 1
        /\ failed = {} /\ jobs = {} /\ lock = "none" /\ fpc = "idle" /\ todo = {}
      BY ZenonT(40), <1>0, <1>1, LenProperties, EmptySeq DEF TypeOK, ModeInv, QueueInv
  <2>2. Started = Len(wal)
      BY <2>1 DEF Started
  <2>3. UNCHANGED Started
      BY Zenon, <1>2 DEF Started
  <2> QED
      BY <1>1, <2>1, <2>2, <2>3
<1>4. QueueInv' /\ TodoInv' /\ FirstInv'
    BY ZenonT(40), <1>0, <1>2, <1>3
    DEF QueueInv, TodoInv, FirstInv, LastDone, Done, Touch, Saved, Eff, Effect
<1>5. ModeInv'
  <2>1. first_index <= next + 1 /\ next + 1 <= to
    <3>1. first_index <= next /\ first_index \in Nat
        BY Zenon, <1>0, <1>1 DEF ModeInv, TypeOK
    <3> QED
        BY <1>1, <3>1
  <2> QED
      BY Zenon, <1>0, <1>1, <1>2, <1>3, <2>1 DEF ModeInv
<1>6. ASSUME NEW p \in Point
      PROVE  /\ PointVersion(mem_pts[p], p)'
             /\ mem_ver'[Home[p]] = 0 => mem_pts'[p] = mem_pts[p] /\ mem_ver[Home[p]] = 0
  <2>1. /\ mem_pts[p] \in Nat /\ Home[p] \in Segment /\ mem_ver[Home[p]] \in Nat
        /\ PointVersion(mem_pts[p], p)
      BY Zenon, <1>0, HomeType DEF TypeOK, PointInv
  <2>2. CASE p \in Changed(mem_pts, next, PointsOfRecord(next))
    <3>1. next # 0 /\ p \in wal[next].points /\ next \in 1..Started
        BY <1>1, <1>3, <2>2 DEF Changed, PointsOfRecord
    <3>2. mem_pts'[p] = Effect(next)
        BY Zenon, <1>1, <2>2 DEF AppliedPts
    <3>3. mem_ver'[Home[p]] = Max(mem_ver[Home[p]], next)
        BY ZenonT(40), <1>1, <2>1, <2>2 DEF AppliedVer, PointsOf
    <3>4. mem_ver'[Home[p]] # 0
        BY <1>1, <2>1, <3>1, <3>3 DEF Max
    <3> QED
        BY ZenonT(40), <1>2, <1>3, <3>1, <3>2, <3>4 DEF PointVersion, Effect
  <2>3. CASE p \notin Changed(mem_pts, next, PointsOfRecord(next))
    <3>1. mem_pts'[p] = mem_pts[p]
        BY Zenon, <1>1, <2>3 DEF AppliedPts
    <3>2. mem_ver'[Home[p]] \in {mem_ver[Home[p]], Max(mem_ver[Home[p]], next)}
        BY Zenon, <1>1, <2>1 DEF AppliedVer
    <3>3. mem_ver'[Home[p]] = 0 => mem_ver[Home[p]] = 0
        BY <1>1, <2>1, <3>2 DEF Max
    <3>4. PointVersion(mem_pts[p], p)'
        BY Zenon, <1>2, <1>3, <2>1, <3>1 DEF PointVersion
    <3> QED
        BY Zenon, <3>1, <3>3, <3>4
  <2> QED
      BY Zenon, <2>2, <2>3
<1>7. PointInv'
    BY Zenon, <1>0, <1>2, <1>3, <1>6 DEF PointInv, PointVersion
<1>8. VersionInv'
  <2>1. ASSUME NEW s \in Segment
        PROVE  disk_ver'[s] <= mem_ver'[s] /\ mem_ver'[s] <= Started'
    <3>1. mem_ver[s] \in Nat /\ disk_ver[s] \in Nat /\ disk_ver[s] <= mem_ver[s]
          /\ mem_ver[s] <= Started
        BY Zenon, <1>0 DEF TypeOK, VersionInv
    <3>2. mem_ver'[s] \in {mem_ver[s], Max(mem_ver[s], next)}
        BY Zenon, <1>1 DEF AppliedVer
    <3> QED
        BY <1>1, <1>2, <1>3, <3>1, <3>2 DEF Max
  <2>2. overwrite' <= Started'
      BY ZenonT(40), <1>0, <1>1, <1>3 DEF VersionInv, TypeOK, Max
  <2> QED
      BY ZenonT(40), <1>0, <1>2, <1>3, <2>1, <2>2 DEF VersionInv
<1>9. ReplayInv'
    BY Zenon, <1>0, <1>1, <1>2, <1>6, ReplayedPointStep DEF ReplayInv
<1>10. MemInv' /\ SavedInv' /\ FlushInv' /\ ReadInv' /\ AckInv'
    BY Zenon, <1>0, <1>1, <1>2, <1>3 DEF MemInv, SavedInv, FlushInv, ReadInv, AckInv, ModeInv
<1> QED
    BY Zenon, <1>4, <1>5, <1>7, <1>8, <1>9, <1>10 DEF IInv

\* When the replay ends, memory holds what the whole log leaves, and the forced
\* flush captures all of it.
LEMMA ForceFlushStep ==
    ASSUME IInv, ForceFlush, TypeOK'
    PROVE  IInv'
<1>0. /\ TypeOK /\ QueueInv /\ ModeInv /\ PointInv /\ VersionInv /\ TodoInv /\ MemInv
      /\ SavedInv /\ FirstInv /\ FlushInv /\ ReadInv /\ AckInv /\ ReplayInv
    BY Zenon DEF IInv
<1>1. /\ mode = "replay" /\ mode' = "flush" /\ next >= to /\ next' = to
      /\ UNCHANGED <<wal, first_index, disk_ver, disk_pts, mem_ver, mem_pts, overwrite,
                     failed, queue, uop, rop, lock, todo, ures, rres, fpc, to>>
      /\ jobs' = {s \in Segment : mem_ver[s] # 0} /\ wrote' = {}
      /\ job_ver' = mem_ver /\ job_pts' = mem_pts
    BY Zenon DEF ForceFlush, Capture, NeedsFlush, disk, segments, workers, flusher
<1>2. /\ Len(wal) \in Nat /\ Started = Len(wal) /\ UNCHANGED Started /\ next = Len(wal) + 1
      /\ lock = "none" /\ failed = {} /\ fpc = "idle" /\ to = Len(wal) + 1
  <2>1. /\ Len(wal) \in Nat /\ Len(queue) = 0 /\ uop = 0 /\ to = Len(wal) + 1 /\ next <= to
        /\ failed = {} /\ lock = "none" /\ fpc = "idle" /\ next \in Nat
      BY ZenonT(40), <1>0, <1>1, LenProperties, EmptySeq DEF TypeOK, ModeInv
  <2>2. Started = Len(wal)
      BY <2>1 DEF Started
  <2>3. UNCHANGED Started
      BY Zenon, <1>1 DEF Started
  <2> QED
      BY <1>1, <2>1, <2>2, <2>3
<1>3. \A i \in 0..MaxOps, p \in Point :
          /\ LastDone(i, p)' <=> LastDone(i, p)
          /\ Eff(i)' = Eff(i)
    BY <1>1, <1>2 DEF LastDone, Done, Touch, Eff, Effect
<1>4. ASSUME NEW p \in Point, NEW i \in 0..MaxOps, LastDone(i, p)
      PROVE  mem_pts[p] = Eff(i)
  <2>1. disk_pts[p] \in Nat /\ disk_pts[p] <= Len(wal)
      BY <1>0, <1>2 DEF TypeOK, PointInv, PointVersion
  <2>2. ~(next <= disk_pts[p])
      BY <1>2, <2>1
  <2>3. LastBefore(i, p, next)
      BY <1>2, <1>4 DEF LastBefore, LastDone, Done
  <2>4. IF i < first_index THEN mem_pts[p] = disk_pts[p] ELSE mem_pts[p] = Eff(i)
      BY Zenon, <1>0, <1>1, <2>2, <2>3 DEF ReplayInv, ReplayedPoint
  <2>5. i < first_index => disk_pts[p] = Eff(i)
      BY Zenon, <1>0, <1>4 DEF FirstInv, Saved
  <2> QED
      BY ZenonT(40), <2>4, <2>5
<1>5. MemInv'
    BY Zenon, <1>1, <1>3, <1>4 DEF MemInv
<1>6. FirstInv'
    BY ZenonT(40), <1>0, <1>1, <1>3, <1>4 DEF FirstInv, Saved
<1>7. FlushInv'
  <2>1. \A p \in Point : Home[p] \notin jobs' => disk_pts[p] = mem_pts[p]
      BY Zenon, <1>0, <1>1, HomeType DEF ReplayInv
  <2> QED
      BY Zenon, <1>1, <2>1 DEF FlushInv
<1>8. PointInv' /\ VersionInv' /\ QueueInv' /\ TodoInv'
  <2>1. \A v, p : PointVersion(v, p)' <=> PointVersion(v, p)
      BY Zenon, <1>1, <1>2 DEF PointVersion
  <2>2. PointInv'
      BY Zenon, <1>0, <1>1, <2>1 DEF PointInv, PointVersion
  <2>3. VersionInv' /\ QueueInv' /\ TodoInv'
      BY Zenon, <1>0, <1>1, <1>2 DEF VersionInv, QueueInv, TodoInv
  <2> QED
      BY Zenon, <2>2, <2>3
<1>9. ModeInv' /\ SavedInv' /\ ReadInv' /\ AckInv' /\ ReplayInv'
    BY Zenon, <1>0, <1>1, <1>2 DEF ModeInv, SavedInv, ReadInv, AckInv, ReplayInv
<1> QED
    BY ZenonT(40), <1>5, <1>6, <1>7, <1>8, <1>9 DEF IInv

\* When the forced flush has ended, the disk holds what memory holds.
LEMMA ForceFlushedStep ==
    ASSUME IInv, ForceFlushed, TypeOK'
    PROVE  IInv'
<1>0. /\ TypeOK /\ QueueInv /\ ModeInv /\ PointInv /\ VersionInv /\ TodoInv /\ MemInv
      /\ SavedInv /\ FirstInv /\ FlushInv /\ ReadInv /\ AckInv /\ ReplayInv
    BY Zenon DEF IInv
<1>1. /\ mode = "flush" /\ jobs = {}
      /\ mode' = IF to < LastWalIndex THEN "send" ELSE "up"
      /\ UNCHANGED <<wal, first_index, disk_ver, disk_pts, mem_ver, mem_pts, overwrite,
                     failed, queue, uop, rop, lock, todo, ures, rres, fpc, to, next,
                     jobs, wrote, job_ver, job_pts>>
    BY Zenon DEF ForceFlushed, disk, segments, workers, flushing, flusher, loading
<1>2. mode' = "up" /\ fpc = "idle" /\ UNCHANGED Started
  <2>1. Len(wal) \in Nat /\ to = Len(wal) + 1
      BY ZenonT(40), <1>0, <1>1, LenProperties DEF TypeOK, ModeInv
  <2>2. ~(to < LastWalIndex)
      BY <2>1 DEF LastWalIndex, LastIndex
  <2> QED
      BY Zenon, <1>0, <1>1, <2>2 DEF Started, ModeInv
<1>3. \A p \in Point : disk_pts[p] = mem_pts[p]
    BY ZenonT(40), <1>0, <1>1 DEF FlushInv
<1>4. \A i \in 0..MaxOps, p \in Point :
          /\ LastDone(i, p)' <=> LastDone(i, p)
          /\ BelowFailed(i)' <=> BelowFailed(i)
          /\ Eff(i)' = Eff(i)
    BY <1>1, <1>2 DEF LastDone, Done, Touch, BelowFailed, Eff, Effect
<1>5. MemInv' /\ FirstInv'
    BY ZenonT(40), <1>0, <1>1, <1>4 DEF MemInv, FirstInv, Saved
<1>6. SavedInv'
    BY Zenon, <1>0, <1>1, <1>3, <1>4 DEF MemInv, SavedInv
<1>7. FlushInv'
    BY Zenon, <1>0, <1>1, <1>2, <1>3 DEF FlushInv
<1>8. PointInv' /\ VersionInv' /\ QueueInv' /\ TodoInv'
  <2>1. PointInv'
      BY Zenon, <1>0, <1>1, <1>2 DEF PointInv, PointVersion
  <2>2. VersionInv' /\ QueueInv' /\ TodoInv'
      BY Zenon, <1>0, <1>1, <1>2 DEF VersionInv, QueueInv, TodoInv
  <2> QED
      BY Zenon, <2>1, <2>2
<1>9. ModeInv' /\ ReadInv' /\ AckInv' /\ ReplayInv'
    BY Zenon, <1>0, <1>1, <1>2 DEF ModeInv, ReadInv, AckInv, ReplayInv
<1> QED
    BY ZenonT(40), <1>5, <1>6, <1>7, <1>8, <1>9 DEF IInv

-----------------------------------------------------------------------------
\* Every step of the shard keeps the invariant.
LEMMA NextInv ==
    ASSUME Regime, IInv, [Next]_vars
    PROVE  IInv'
<1>0. /\ TypeOK /\ QueueInv /\ ModeInv /\ PointInv /\ VersionInv /\ TodoInv /\ MemInv
      /\ SavedInv /\ FirstInv /\ FlushInv /\ ReadInv /\ AckInv /\ ReplayInv
    BY Zenon DEF IInv
<1>1. TypeOK'
    BY Zenon, <1>0, NextType
<1>2. CASE \E op \in Ops : Update(op)
    BY Zenon, <1>1, <1>2, UpdateStep
<1>3. CASE UpdateWorker
  <2>1. ~SkipMissing
    <3>1. Len(wal) \in Nat /\ Len(queue) \in Nat /\ uop \in Nat
        BY ZenonT(40), <1>0, LenProperties DEF TypeOK
    <3>2. ~(uop > LastIndex)
        BY <1>0, <3>1 DEF QueueInv, LastIndex
    <3> QED
        BY Zenon, <3>2 DEF SkipMissing
  <2> QED
      BY Zenon, <1>1, <1>3, <2>1, TakeSignalStep, BeginUpdateStep, DeclineUpdateStep,
         FinishUpdateStep
      DEF UpdateWorker
<1>4. CASE OptimizerWorker
    BY Zenon, <1>0, <1>4
    DEF OptimizerWorker, StartRecover, BeginRecover, FinishRecover, QueueInv, Regime
<1>5. CASE Apply
    BY Zenon, <1>1, <1>5, ApplyPointsStep, RefusePointStep, EndOperationStep DEF Apply
<1>6. CASE Fail
    BY Zenon, <1>1, <1>6, FailPointStep DEF Fail
<1>7. CASE FlushWorker
    BY Zenon, <1>1, <1>7, FlushAllStep, ReadSegmentStep, ConfirmStep, AckStep DEF FlushWorker
<1>8. CASE FlushThread
    BY Zenon, <1>1, <1>8, FlushComponentsStep, FlushStateStep DEF FlushThread
<1>9. CASE FlushError
    BY Zenon, <1>1, <1>9, FlushErrorStep
<1>10. CASE \E n \in KeepFrom \cup {Unbounded} : SetWalKeepFrom(n)
    BY ZenonT(40), <1>1, <1>10, SetWalKeepFromStep
<1>11. CASE TruncateUnappliedWal
    BY Zenon, <1>1, <1>11, TruncateUnappliedWalStep
<1>12. CASE Crash
    BY Zenon, <1>1, <1>12, CrashStep
<1>13. CASE Load
  <2>1. ~SendPending
      BY Zenon, <1>0 DEF ModeInv, SendPending
  <2> QED
      BY Zenon, <1>1, <1>13, <2>1, LoadFromWalStep, ReplayStep, ForceFlushStep, ForceFlushedStep
      DEF Load, Regime
<1>14. CASE UNCHANGED vars
  <2> USE DEF vars, volatile, log, disk, segments, workers, flushing, flusher, loading
  <2>1. QueueInv' /\ ModeInv' /\ PointInv' /\ VersionInv' /\ TodoInv'
      BY ZenonT(40), <1>0, <1>14, QueueStable, ModeStable, PointStable, VersionStable, TodoStable
  <2>2. MemInv' /\ SavedInv' /\ FirstInv' /\ FlushInv'
      BY Zenon, <1>0, <1>14, MemStable, SavedStable, FirstStable, FlushStable
  <2>3. ReadInv' /\ AckInv' /\ ReplayInv'
      BY Zenon, <1>0, <1>14, ReadStable, AckStable, ReplayStable
  <2> QED
      BY ZenonT(40), <1>1, <2>1, <2>2, <2>3 DEF IInv
<1> QED
    BY ZenonT(40), <1>2, <1>3, <1>4, <1>5, <1>6, <1>7, <1>8, <1>9, <1>10, <1>11, <1>12, <1>13,
       <1>14
    DEF Next

\* The last operation of the log that touches a point, once begun and not in
\* progress, is the last one done; no version of the point is newer.
LEMMA LastTouchDone ==
    ASSUME IInv, NEW p \in Point, NEW i \in 1..LastIndex, IsLastTouch(i, p)
    PROVE  /\ i \in 0..MaxOps /\ Eff(i) = Effect(i)
           /\ i < Started => LastDone(i, p)
           /\ i <= Started /\ lock # "upd" => LastDone(i, p)
           /\ \A v \in Nat : PointVersion(v, p) => v <= i /\ (v = i => Effect(i) = i)
<1>0. TypeOK /\ QueueInv
    BY Zenon DEF IInv
<1>1. Started \in Nat /\ Started <= Len(wal) /\ Len(wal) \in Nat /\ MaxOps \in Nat
      /\ Len(wal) <= MaxOps
    BY ZenonT(40), <1>0, StartedBounds DEF TypeOK
<1>2. i \in 0..MaxOps /\ Eff(i) = Effect(i)
    BY <1>1 DEF LastIndex, Eff
<1>3. \A j \in 0..MaxOps : Touch(j, p) => j <= i
    BY <1>1 DEF IsLastTouch, Touch, Touches, LastIndex
<1>4. Touch(i, p)
    BY ZenonT(40) DEF IsLastTouch, Touch, Touches, LastIndex
<1>5. lock = "upd" => uop = Started
    BY <1>0, LenProperties DEF QueueInv, Started, TypeOK
<1>6. (i < Started \/ (i <= Started /\ lock # "upd")) => LastDone(i, p)
    BY <1>1, <1>2, <1>3, <1>4, <1>5 DEF LastDone, Done
<1>7. ASSUME NEW v \in Nat, PointVersion(v, p)
      PROVE  v <= i /\ (v = i => Effect(i) = i)
    BY <1>1, <1>2, <1>3, <1>7 DEF PointVersion, Touch, Effect
<1> QED
    BY Zenon, <1>1, <1>2, <1>6, <1>7

\* A point no operation of the log touches has no version.
LEMMA UntouchedVersion ==
    ASSUME IInv, NEW p \in Point, Untouched(p), NEW v, PointVersion(v, p)
    PROVE  v = 0
<1>1. Started \in Nat /\ Started <= Len(wal) /\ Len(wal) \in Nat
    BY Zenon, StartedBounds DEF IInv
<1> QED
    BY <1>1 DEF PointVersion, Untouched, Touches, LastIndex

\* The invariant behind the theorems that follow holds in every state the
\* shard reaches: what each point, each saved file, each step of a flush, each
\* pending acknowledgement and each step of a replay may lag behind the log.
THEOREM InductiveShard ==
    ASSUME Regime
    PROVE  Spec => []IInv
<1>1. Init => IInv
    BY Zenon, InitInv
<1>2. IInv /\ [Next]_vars => IInv'
    BY Zenon, NextInv
<1> QED
    BY PTL, <1>1, <1>2 DEF Spec

\* At every moment the disk and the records of the log from first_index on give
\* back every operation: the flush worker never acknowledges a record before its
\* effect is on disk, whatever the interleaving of the workers, the failures, the
\* crashes and the truncations.
THEOREM RecoverableShard ==
    ASSUME Regime
    PROVE  Spec => []Recoverable
<1>1. IInv => Recoverable
  <2> SUFFICES ASSUME IInv, NEW p \in Point
               PROVE  /\ Untouched(p) => disk_pts[p] = 0
                      /\ \A i \in 1..LastIndex :
                           IsLastTouch(i, p) =>
                              IF i < first_index THEN disk_pts[p] = Effect(i)
                              ELSE disk_pts[p] <= i /\ (disk_pts[p] = i => Effect(i) = i)
      BY Zenon DEF Recoverable
  <2>0. TypeOK /\ QueueInv /\ PointInv /\ VersionInv /\ FirstInv
      BY Zenon DEF IInv
  <2>1. PointVersion(disk_pts[p], p) /\ disk_pts[p] \in Nat
      BY Zenon, <2>0 DEF PointInv, TypeOK
  <2>2. Untouched(p) => disk_pts[p] = 0
      BY Zenon, <2>1, UntouchedVersion
  <2>3. ASSUME NEW i \in 1..LastIndex, IsLastTouch(i, p), i < first_index
        PROVE  disk_pts[p] = Effect(i)
    <3>1. i < Started
      <4>1. first_index \in Nat /\ Started \in Nat /\ first_index <= Started
          BY ZenonT(40), <2>0, StartedBounds DEF VersionInv, TypeOK
      <4> QED
          BY <2>3, <4>1
    <3> QED
        BY Zenon, <2>0, <2>3, <3>1, LastTouchDone DEF FirstInv, Saved
  <2>4. ASSUME NEW i \in 1..LastIndex, IsLastTouch(i, p)
        PROVE  disk_pts[p] <= i /\ (disk_pts[p] = i => Effect(i) = i)
      BY Zenon, <2>1, <2>4, LastTouchDone
  <2> QED
      BY Zenon, <2>2, <2>3, <2>4
<1> QED
    BY PTL, <1>1, InductiveShard

\* Whenever the shard is idle and no operation is marked as failed, memory holds
\* what the operations of the log, applied in order, leave: retries, skipped
\* versions and replays after crashes do not show.
THEOREM QuiescentShard ==
    ASSUME Regime
    PROVE  Spec => []QuiescentContents
<1>1. IInv => QuiescentContents
  <2> SUFFICES ASSUME IInv, mode = "up", queue = <<>>, uop = 0, failed = {}, NEW p \in Point
               PROVE  /\ Untouched(p) => mem_pts[p] = 0
                      /\ \A i \in 1..LastIndex : IsLastTouch(i, p) => mem_pts[p] = Effect(i)
      BY Zenon DEF QuiescentContents
  <2>0. TypeOK /\ QueueInv /\ PointInv /\ MemInv
      BY Zenon DEF IInv
  <2>1. Untouched(p) => mem_pts[p] = 0
      BY ZenonT(40), <2>0, UntouchedVersion DEF PointInv
  <2>2. lock # "upd" /\ Started = Len(wal) /\ Len(wal) \in Nat
      BY <2>0, LenProperties, EmptySeq DEF QueueInv, Started, TypeOK
  <2>3. ASSUME NEW i \in 1..LastIndex, IsLastTouch(i, p)
        PROVE  mem_pts[p] = Effect(i)
    <3>1. i <= Started
        BY <2>2 DEF LastIndex
    <3> QED
        BY Zenon, <2>0, <2>2, <2>3, <3>1, LastTouchDone DEF MemInv, BelowFailed, QueueInv
  <2> QED
      BY Zenon, <2>1, <2>3
<1> QED
    BY PTL, <1>1, InductiveShard

\* A record whose operation the update worker has not finished is never
\* acknowledged, so it survives a crash.
THEOREM PendingKept ==
    ASSUME Regime
    PROVE  Spec => []PendingNotAcknowledged
<1>1. IInv => PendingNotAcknowledged
  <2> SUFFICES ASSUME IInv PROVE PendingNotAcknowledged
      OBVIOUS
  <2>0. TypeOK /\ QueueInv /\ VersionInv
      BY ZenonT(40) DEF IInv
  <2>1. /\ first_index \in Nat /\ Len(wal) \in Nat /\ Len(queue) \in Nat /\ uop \in Nat
        /\ Started \in Nat /\ first_index <= Started /\ Started <= Len(wal) - Len(queue)
      BY <2>0, StartedBounds, LenProperties DEF TypeOK, VersionInv, Started
  <2>2. \A k \in 1..Len(queue) : first_index <= queue[k]
      BY <2>0, <2>1 DEF QueueInv
  <2>3. uop # 0 => first_index <= uop
      BY <2>0, <2>1 DEF QueueInv
  <2> QED
      BY Zenon, <2>2, <2>3 DEF PendingNotAcknowledged
<1> QED
    BY PTL, <1>1, InductiveShard

\* Only a truncation shortens the log: the update worker, the optimizer, the
\* flush worker, the flush thread, a crash and the recovery leave its records in
\* place.
LEMMA OnlyTruncationShortens ==
    ASSUME Regime, IInv, Next, Len(wal') < Len(wal)
    PROVE  TruncateUnappliedWal
<1>0. TypeOK
    BY Zenon DEF IInv
<1>1. Len(wal) \in Nat
    BY <1>0 DEF TypeOK
<1>2. ASSUME wal' = wal PROVE FALSE
    BY <1>1, <1>2
<1>3. ASSUME NEW op \in Ops, Update(op) PROVE FALSE
    BY <1>0, <1>1, <1>3 DEF TypeOK, Update
<1>4. CASE UpdateWorker
    BY Zenon, <1>2, <1>4
    DEF UpdateWorker, TakeSignal, SkipMissing, BeginUpdate, DeclineUpdate, FinishUpdate, disk
<1>5. CASE OptimizerWorker
    BY Zenon, <1>2, <1>5 DEF OptimizerWorker, StartRecover, BeginRecover, FinishRecover, disk
<1>6. CASE Apply \/ Fail
    BY Zenon, <1>2, <1>6 DEF Apply, Fail, ApplyPoints, RefusePoint, EndOperation, FailPoint, disk
<1>7. CASE FlushWorker \/ FlushThread \/ FlushError
    BY Zenon, <1>2, <1>7
    DEF FlushWorker, FlushAll, ReadSegment, Confirm, Ack, FlushThread, FlushComponents,
        FlushState, FlushError, disk
<1>8. CASE Crash \/ Load \/ \E n \in KeepFrom \cup {Unbounded} : SetWalKeepFrom(n)
    BY Zenon, <1>2, <1>8
    DEF Crash, Load, LoadFromWal, Replay, ForceFlush, ForceFlushed, SendPending, SetWalKeepFrom,
        disk
<1> QED
    BY Zenon, <1>3, <1>4, <1>5, <1>6, <1>7, <1>8 DEF Next

\* truncate_unapplied_wal never drops a record whose effect a segment holds:
\* every version in memory belongs to a record the truncated log still has.
THEOREM TruncationSparesApplied ==
    ASSUME Regime
    PROVE  Spec => TruncatesOnlyUnapplied
<1>1. IInv /\ [Next]_vars =>
        [Len(wal') < Len(wal) => \A p \in Point : mem_pts[p] <= Len(wal')]_vars
  <2> SUFFICES ASSUME IInv, Next, Len(wal') < Len(wal), NEW p \in Point
               PROVE  mem_pts[p] <= Len(wal')
      BY Zenon
  <2>0. TypeOK /\ QueueInv /\ PointInv
      BY Zenon DEF IInv
  <2>1. TruncateUnappliedWal
      BY ZenonT(40), OnlyTruncationShortens
  <2>2. /\ Started = Len(wal) - Len(queue) /\ Started \in Nat /\ Started <= Len(wal)
        /\ Len(queue) \in Nat /\ queue # <<>> /\ uop = 0 /\ lock = "none"
    <3>1. queue # <<>> /\ uop = 0 /\ lock = "none"
      BY Zenon, <2>1 DEF TruncateUnappliedWal
    <3>2. Len(queue) \in Nat /\ Len(wal) \in Nat
      BY <2>0, LenProperties DEF TypeOK
    <3>3. Started \in Nat /\ Started <= Len(wal)
      BY <2>0, <3>1, StartedBounds
    <3> QED
      BY <3>1, <3>2, <3>3 DEF Started
  <2>3. Head(queue) = Started + 1
      BY <2>0, <2>2, HeadTailProperties, LenProperties, EmptySeq DEF QueueInv, TypeOK
  <2>4. wal' = SubSeq(wal, 1, Started)
      BY <2>1, <2>2, <2>3 DEF TruncateUnappliedWal, Min, LastIndex
  <2>5. Len(wal') = Started
      BY <2>0, <2>2, <2>4 DEF TypeOK
  <2> QED
      BY <2>0, <2>2, <2>5 DEF PointInv, PointVersion
<1> QED
    BY PTL, <1>1, InductiveShard DEF Spec, TruncatesOnlyUnapplied
=============================================================================
