------------------------- MODULE LocalShardInvariant -------------------------
(***************************************************************************)
(* The inductive invariant that makes Recoverable true of a local shard    *)
(* whose operations hold a segment's lock once (~ChunkedOps), whose replay *)
(* covers the whole log (~AppliedSeqActive) and where no other task        *)
(* re-applies the log (~TryRecover).                                       *)
(*                                                                         *)
(* The argument is about the operations 1..Started that the update worker  *)
(* has begun.  For every point, the last of them that is done determines   *)
(* what memory holds; what a flusher captured, what is on disk and what    *)
(* may be acknowledged follow from comparing its index with the versions   *)
(* of the point's segment.  The fake operation 0, which leaves every point *)
(* absent, stands for the initial state.                                   *)
(***************************************************************************)
EXTENDS LocalShard

\* Operations the update worker has begun: not the queued ones, nor the one it
\* has received and not started.
Started ==
    Len(wal) - Len(queue) - (IF uop # 0 /\ lock # "upd" /\ ures = "none" THEN 1 ELSE 0)

Touch(i, p) == i = 0 \/ (i \in 1..Len(wal) /\ p \in wal[i].points)

Eff(i) == IF i = 0 THEN 0 ELSE Effect(i)

\* Operation i has been applied to point p, as far as it concerns p.
Done(i, p) ==
    /\ i <= Started
    /\ Touch(i, p)
    /\ ~(lock = "upd" /\ i = uop /\ p \in todo)

LastDone(i, p) == Done(i, p) /\ \A j \in 0..MaxOps : Done(j, p) => j <= i

\* Operation i is before every operation that failed.
BelowFailed(i) == (\A f \in failed : i < f) /\ (ures = "err" => i < uop)

\* The point on disk, and the point in a captured flusher, are as operation i
\* left them.
Saved(i, p) ==
    /\ disk_pts[p] = Eff(i)
    /\ Home[p] \in jobs => job_pts[p] = Eff(i)

-----------------------------------------------------------------------------

\* The update queue holds exactly the operations after the one in hand.
QueueInv ==
    /\ \A k \in 1..Len(queue) : queue[k] = Len(wal) - Len(queue) + k
    /\ Len(queue) <= Len(wal)
    /\ uop # 0 => uop = Len(wal) - Len(queue)
    /\ rop = 0 /\ lock # "rec"
    /\ rres = "none"
    /\ ures # "none" => uop # 0 /\ lock = "none"
    /\ lock = "upd" => uop # 0 /\ todo \subseteq wal[uop].points
    /\ lock = "none" => todo = {}

\* Outside "up" nothing is queued, and the shard never has to send operations
\* it did not replay.
ModeInv ==
    /\ mode # "send"
    /\ mode # "up" => /\ queue = <<>> /\ uop = 0 /\ lock = "none" /\ ures = "none"
                      /\ failed = {} /\ fpc = "idle"
    /\ mode = "replay" => first_index <= next /\ next <= to
    /\ mode \in {"replay", "flush"} => to = Len(wal) + 1
    /\ mode \in {"down", "replay"} => jobs = {}
    /\ wrote \subseteq jobs

\* A point has the version of an upsert of this point that was begun.
PointVersion(v, p) ==
    v = 0 \/ (v \in 1..Started /\ p \in wal[v].points /\ wal[v].kind = "upsert")

PointInv ==
    \A p \in Point : /\ PointVersion(mem_pts[p], p)
                     /\ PointVersion(disk_pts[p], p)
                     /\ Home[p] \in jobs => PointVersion(job_pts[p], p)

\* No version is ahead of the operations that were begun, and the log is not
\* acknowledged past them or past a failed one.
VersionInv ==
    /\ \A s \in Segment : disk_ver[s] <= mem_ver[s] /\ mem_ver[s] <= Started
    /\ overwrite <= Started
    /\ first_index <= Started
    /\ \A f \in failed : first_index <= f /\ f <= Started /\ (uop # 0 => f < uop)

\* A segment the current operation has still to write is older than it.
TodoInv == \A p \in todo : mem_ver[Home[p]] < uop

\* Memory holds what the operations done so far leave.
MemInv ==
    mode \in {"up", "flush"} =>
        \A p \in Point : \A i \in 0..MaxOps :
            LastDone(i, p) /\ BelowFailed(i) => mem_pts[p] = Eff(i)

\* The versions on disk and in captured flushers cover what they claim.
SavedInv ==
    mode = "up" =>
        \A p \in Point : \A i \in 0..MaxOps :
            LastDone(i, p) /\ BelowFailed(i) =>
                /\ i <= disk_ver[Home[p]] => disk_pts[p] = Eff(i)
                /\ Home[p] \in jobs /\ i <= job_ver[Home[p]] => job_pts[p] = Eff(i)

\* What was acknowledged is saved.
FirstInv ==
    \A p \in Point : \A i \in 0..MaxOps :
        LastDone(i, p) /\ i < first_index => Saved(i, p)

\* A segment whose version is saved is saved; a captured flusher is newer than
\* the disk.
FlushInv ==
    /\ mode = "up" =>
        /\ \A s \in jobs : disk_ver[s] < job_ver[s] /\ job_ver[s] <= mem_ver[s]
        /\ \A p \in Point :
            /\ mem_ver[Home[p]] = disk_ver[Home[p]] => disk_pts[p] = mem_pts[p]
            /\ Home[p] \in jobs /\ mem_ver[Home[p]] = job_ver[Home[p]] =>
                    job_pts[p] = mem_pts[p]
    /\ \A p \in Point : Home[p] \in wrote => disk_pts[p] = job_pts[p]
    /\ mode = "flush" =>
        /\ \A s \in jobs : job_ver[s] = mem_ver[s]
        /\ \A p \in Point : IF Home[p] \in jobs THEN job_pts[p] = mem_pts[p]
                                                ELSE disk_pts[p] = mem_pts[p]

\* Version i is below what the flush worker may still confirm.
Confirmable(i) == i < max_persisted \/ \E s \in unread : i < mem_ver[s]

\* A segment that has been read is either counted as unsaved, or holds on disk
\* every operation the flush worker may confirm.
ReadInv ==
    fpc = "read" =>
        /\ max_persisted <= Started
        /\ min_unsaved # Unbounded => min_unsaved <= max_persisted
        /\ \A p \in Point : Home[p] \notin unread =>
            \/ min_unsaved <= disk_ver[Home[p]]
            \/ \A i \in 0..MaxOps :
                 LastDone(i, p) /\ BelowFailed(i) /\ Confirmable(i) => Saved(i, p)

\* What is about to be acknowledged is saved.
AckInv ==
    fpc = "ack" =>
        /\ ack <= Started
        /\ \A f \in failed : ack <= f
        /\ \A p \in Point : \A i \in 0..MaxOps :
             LastDone(i, p) /\ i < ack => Saved(i, p)

\* Operation i is the last one before n that touches p.
LastBefore(i, p, n) ==
    /\ i < n /\ Touch(i, p)
    /\ \A j \in 0..MaxOps : j < n /\ Touch(j, p) => j <= i

\* During the replay, a point that the disk has from record `next' or a later one
\* is as it is on disk; any other is what the last record before `next' left, or
\* what the disk has if that record was not replayed.
ReplayedPoint(p) ==
    \/ mem_pts[p] = disk_pts[p] /\ next <= disk_pts[p]
    \/ /\ mem_pts[p] < next \/ mem_pts[p] = 0
       /\ \A i \in 0..MaxOps : LastBefore(i, p, next) =>
            IF i < first_index THEN mem_pts[p] = disk_pts[p] ELSE mem_pts[p] = Eff(i)

ReplayInv ==
    /\ mode \in {"down", "replay"} =>
        \A p \in Point : mem_ver[Home[p]] = 0 => mem_pts[p] = disk_pts[p]
    /\ mode = "down" => mem_pts = disk_pts /\ mem_ver = disk_ver
    /\ mode = "replay" => \A p \in Point : ReplayedPoint(p)

\* The inductive invariant.
IInv ==
    /\ TypeOK /\ QueueInv /\ ModeInv /\ PointInv /\ VersionInv /\ TodoInv
    /\ MemInv /\ SavedInv /\ FirstInv /\ FlushInv /\ ReadInv /\ AckInv /\ ReplayInv

=============================================================================
